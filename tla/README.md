# HA-Phone: models, checks and proofs

HA-Phone is a Home Assistant add-on that runs a telephone system: Asterisk, a
Python backend (FastAPI) that owns the database and renders Asterisk's
configuration, a React UI, and a mobile app that pairs with the backend and
reaches it over the LAN or Tailscale. This directory holds TLA+ models of the
parts of it that are concurrent, can fail half-way or have to recover, what TLC
checks of them, and what TLAPS proves of them.

All source paths are below `src/ha-phone/`. "Template" means
`backend/conf_templates/extensions_routing.conf.j2`; names ending in `.tsx` or
`.ts` are below `frontend/src/`.

    tlasany M.tla                          # parse
    tlc -workers 2 -config X.cfg M.tla     # check
    tlapm MProofs.tla                      # prove

`PROJECT.json` lists the runs, the lines of the source each definition stands
for, the hazards, and for every property a plausible bug (a "mutant") that the
property catches.

## 1. The system's parts

| Part | State it keeps | Operations, and whom it talks to | What is hard | What makes it correct |
|---|---|---|---|---|
| **Door fanout dialplan** (template 530-690) | per door call: `SHARED(DOOR_WINNER)`, `DOOR_LEGS`, a conference, one Local channel per device | Asterisk runs it, one thread per channel; hangup handlers; reports the answer to the doorbell history with a UserEvent | threads race for the winner; stale counts; timers racing answers; hangups at any point | one device is heard; the ringing ends when and only when nobody can answer; nothing rings on for ever |
| **Doorbell history** (`doorbell.py`, `doorbell_listener.py`) | table `DoorbellEvent`, picture files, tracker and row ids in memory | AMI events in, rows and pictures out; deletion and opening by HTTP | events of several rings interleave with a picture task, delete requests, pruning, restarts | a row tells the truth about its own ring; the history is complete in the end |
| **Camera warm-up** (`preview_cameras.py`) | who rings and since when, one task | started by the listener, read by the app | a lost end of a ring; a ring starting as the task looks for the last time | runs while a ring has time left, and ends |
| **Configuration pipeline** (`regeneration.py`, `conf_generator.py`, `ami.py`, most routers, cont-init) | database, rendered files, status file, running Asterisk | request: commit, render, status, reload; boot renders everything | partial failure of a run; requests interleaving at their awaits; lost reloads; restarts in between | what is saved is live, on its way, or visibly failed |
| **Presence of the door groups** (`ha_presence.py`) | `door_excluded`, a watcher | polls Home Assistant, renders and reloads the dialplan | changes between polls, restarts of the backend alone | the running dialplan leaves out who is away |
| **Mobile pairing and devices** (`mobile_provisioning.py`, `tailscale.py`, `tailnet.py`, `tls_pin.py`) | pairing tokens, device rows, tailnet nodes, a cached access token | pair, replay, revoke, issue a key, report a node; each with awaited calls to Tailscale | reads before an await used after it; two pairings of one phone at once | one active device per phone; a revoked device stays revoked and loses its node |
| **Admin login** (`App.tsx`, `pages/Login.tsx`, `ChangePassword.tsx`, `settings/PasswordCard.tsx`, `routers/auth.py`, `auth.py`) | failures per address, session cookies, password hash, the page each tab shows | login, forced and voluntary change, sign-out, session check | handlers read the row, hash slowly and write; several tabs; a lockout in the middle of a login | the shipped password opens nothing but its own change; lockouts hold; who knows the password gets in |
| **Extensions page** (`pages/extensions/`, `routers/extensions.py`, `ring_groups.py`) | the page's copy of the extensions and of the ring groups, dialogs | switch, add, edit, delete; a save writes the extension, then whole ring-group rows | answers out of order, stale rows written back, one write of several failing, another admin | a save moves the extension it is about and nobody else; the list is what is stored |
| **Table pages** (`pages/calls/`, `pages/connection/`, `PresenceRules.tsx`, `Phonebook.tsx`, `devices/Devices.tsx`) | a copy of one table each, forms | load, add, edit, delete, import, selects that save at once | a load overtaken by a save, a row deleted elsewhere, a refused load, text that is parsed and written anew | the copy is the table; a save changes what was touched; a draft is not lost; no button stays disabled |
| App features (`mobile_features.py`, `ha_api.py`, `app_logs.py`) | none of its own | presence, forwarding, door opening, recordings for the app | state fetched before a webhook, used after it | acts on the ring the user saw |
| Numbers and references (`numbering.py`, `models.py`, delete guards of the routers) | who owns a number, which row names which | create, renumber, delete | a deletion that awaits; row ids that are reused | no number owned twice; no reference to a deleted row |
| SIP transports (`pjsip_local.py`, `main.py`, `settings.py`) | transport file and two memos | written by the admin, by a tailnet watcher in a thread, at boot | three writers, three files, no transaction | file and memos agree |
| Routing dialplan (rest of the template, `presence_rules.py`) | none | inbound routes, times, holidays, menus, forwarding, outbound rules | precedence and fall-through | a call rings what the settings say |
| Database and migrations (`database.py`, `crypto.py`) | SQLite schema | migrate at start | a crash between two commits | a migration is done or done again, nothing is lost |
| Backup (`routers/backup.py`) | none | export; import in three commits | a bad row or a crash half-way | the old or the new data |
| Voicemail, provisioning, phonebook, LDAP, STUN, tracing, updates, input safety, the other pages and the frame of the UI, static files, packaging | little or none across requests | pure input/output, encoding, text | - | - |

How they interact. Routers commit to the database and call the pipeline. The
pipeline writes files that Asterisk reads when it is told to over AMI. The
dialplan that results is what runs door calls. Door calls send AMI events back
to the listener, which writes the history and starts the picture task and the
warm-up. The presence watcher feeds the pipeline. The UI's pages call the
routers by HTTP and keep copies of what they answer; nothing tells a page that
another has changed a table. s6 restarts the backend alone; Asterisk ending abnormally ends the container, and a boot renders
everything again.

## 2. What is modelled

### DoorCall, DoorFanout, DoorFanoutProofs

`DoorCall` is the promise of a door call: at most one device takes the call and
keeps it; only that one is heard at the door; the door channel is answered only
for a device that took the call, and before the visitor has gone.

`DoorFanout` is the dialplan. Every action is one step of one channel thread
between two points where another thread can be seen: three thread families, the
door channel (`Door...`: contexts `haphone-door-fanout`, `-cleanup`), the `;2`
half of each leg with its device (`Leg...`, `Win...`: `haphone-door-leg`,
`-ring`, `-win`), and its `;1` half in the conference (`LegJoins`, `LegLeaves`,
`LegGone`: `haphone-door-join`, `-leg-gone`). A leg is a pair of a target and
the number of a registered contact; `<<t, 0>>` is the leg of a target with
nothing registered. People are actions without fairness: answering, declining,
hanging up. `LOCK` is the variable `lock`; a critical section that reads and
writes under it is split into its read (`WinLock`) and its write (`WinTake`) where
another thread can get between, and one action (`LegFails`) where everything it
reads is guarded by the lock. The contacts are read twice, once to count the
legs and once to originate them, and may change in between (`Reregister`).
`Finished` is the stuttering of a call that is completely gone, so that deadlock
stays checked.

Abstractions. There is no clock: a time limit may pass at any moment the code
allows. LOCK's own 3 s time limit is left out, the sections under it are a few
operations long. A leg polls `MaxTries` times for the door (40 in the code), the
legs of one target are originated in one step, and the parties are kicked in any
order. The text of the UserEvent, the mute implementation and the codecs are left
out.

### DoorbellHistory, DoorbellHistoryProofs

Asterisk's truth about each door call (`pbx`), the queue of AMI events, the
listener that applies them one after the other (`OnNewchannel`, `OnAnswered`,
`OnHangup`), the tracker, the table with SQLite's rule for new ids (`NewId`: the
largest id plus one), the picture files by row id, the picture task in three
steps (fetch, write the file, commit), deletion in two steps of a worker thread,
pruning (pictures first, rows afterwards, and the commit may fail), restarts of
Asterisk and of the backend, and the warm-up task. Every commit may fail.

Two history variables serve the properties only: `ring` in a row says which call
it was written for, and `reused` holds ids handed out while something (the
listener, a picture task, a delete request) still meant the row that had it before.
That happens when the newest row is deleted while its call goes on and the door rings
again: the code then writes the first ring's answer into the second ring's row.

Abstractions. One delete request at a time. The map of fanout legs in the
tracker only feeds the log and is left out. A row's time stamp is an age in three
classes. `DoorOpened` sets a flag no property is about, since the code keeps
nothing to compare it with.

### ConfigSync, MCConfigSync, ConfigSyncProofs

Which of the five steps of `regeneration.py` ("extensions", "voicemail",
"routing", "mail", "trunk") is rendered, reported and live. Data has no value: a
file is what the database says or behind it (`stale`), and so is what Asterisk
runs (`behind`). A request (`Save`) commits, renders, merges the status file and
keeps the reloads it will await; from commit to status file there is no await in
the code, so that is one step. `Reload` is one awaited reload in the order of the
code (trunk: dialplan first), and everybody else moves in between. `SaveExtension`,
`SaveRouting`, `SaveTrunk`, `SaveSmtp`, `PairingEnablesVideo` and `ImportBackup`
are the kinds of requests by what they change, render and reload; `SaveOnly` is
the handlers that commit and render nothing (`voicemail.py:57`, menu greetings in
`ivr.py`). The watcher has the three steps its awaits cut it into. `Boot` is the
script in cont-init, `BackendRestarts` a restart by s6, `AsteriskRestarts` a clean
restart of Asterisk.

`lost` is a history variable. It collects, by name, the ways in which the code lets
a change go without anybody left to bring it on: a reload Asterisk did not take
(`ami.py` logs it and goes on), a request that died, a restart of the backend with
reloads outstanding, a change that is saved without a render, a step that is
reported but skipped, an earlier failure that is forgotten because the status file
could not be read (`regeneration.py:123-125` starts from an empty one then; `previous`
in `Save`). It is emptied when Asterisk reads a fresh file. `SavedIsLive`
is therefore a statement about everything else: all interleavings of requests and
watcher and all partial failures.

Abstractions. A database transaction is one step; so are the import of a backup and the
saving of the trunk, which commit more than once. The
states of Home Assistant are fetched at one moment; a person without an answer is
unknown. Which routes write what text is left out.

### MobilePairing, MCMobilePairing, MobilePairingProofs

Pairing phones with one extension. A request of a phone is either a new pairing
(`CompletePairing`: check the token, insert the row, commit and list the phone's
other pairings, without an await) or a replay of a token that has a row already
(`ReplayReads`, then an awaited call of Tailscale, then `ReplayCommits`). Both go on
to revoke the phone's other pairings, awaiting the tailnet for each (`RevokeOther`),
with one commit at the end (`RevokedOthers`). The admin's request is a revocation
(a worker thread) or the deletion of the extension (a coroutine that awaits the
tailnet for each device).

Two facts about the libraries carry the properties, and the model has both. A
session writes the columns that differ from what it has read, not the row
(`ChangedColumns`): that is why a replay that read an active row does not undo a
revocation that was committed meanwhile, and why one that read a revoked row does undo a
second revocation (`PairsAgain`): then `status` is a column it has changed.
`revoke_device` does not ask whether the row is revoked already. If it is, there may be
nothing to send before the commit, so nobody is kept from writing while it waits for
Tailscale (`admin = "repeating"`), and the commit leaves `status` alone. And SQLite has one writer (`MayWrite`): a
deletion sends the DELETE of the mailbox with its next query and holds the lock over
its awaits, so no pairing is committed between the list of the devices and the end of
the extension. A write that finds the lock taken fails after 5 s with a status 500
(`ReplayFails`, `RevokingFails`), or is made later. The deletion is modelled for
extensions with a mailbox row, which every extension gets on creation.

`era`, `newest`, `crossed`, `unrevoked` and `banned` are history variables for the
properties. `banned` holds the rows the admin has revoked, but for second revocations
that a replay undoes (`Bans`). `unrevoked` names the phones one of whose pairings never revoked the
others because its request died; `crossed` those where a replay crossed another
pairing request (see the end of section 6).

Abstractions. Rows consist of what decides whether a phone may use them. A token
that expires is one that is not used any more. The change to video, the tailnet key
and the answer come after everything the properties are about. Tailnet nodes and the
reports of the app are left out.

### AdminSession, MCAdminSession, AdminSessionProofs

Tabs, their requests, and the backend they talk to. A tab shows one of five views
(`tab[t].view`): App.tsx asks whether the session is good ("checking") and then shows
the pages, an error, the login page or the forced change. `SubmitLogin`,
`SubmitChange`, `SubmitVoluntary` and `SubmitLogout` are the forms, `Handle` is what a
tab does with an answer, by the kind of request and the status (`CheckLeadsTo`,
`LoginLeadsTo`, `ChangeLeadsTo`), and `Drop` loses a request or its answer:
the page then sees a network error, and the browser's cookie stays as it is.

The handlers run in worker threads. A login or a change first looks at the limiter and
reads the admin's row (`ReadRow`), then computes a hash for as long as that takes, and
only then counts a failure or writes (`FinishLogin`, `FinishChange`); other requests are
served in between. The session writes the columns it changed, so a login with the
shipped password whose row was read before a change of password can set
`must_change_password` again but cannot put the password back. `limiter` is the bucket
of one address, which all tabs share behind ingress. `Unlock` is the end of a lockout.

`inLockout` in a request and `defaultIn` are history variables for the properties.
Abstractions. The growing length of lockouts and the eviction at 1024 addresses are left
out; which page is shown under the session check is left out; strong passwords are
interchangeable. The session lives in the cookie, so it is a
Boolean per browser; every answer but a sign-out's may set it again (`CookieAfter`).

### ExtensionsPage, MCExtensionsPage, ExtensionsPageProofs

`ext` and `grp` are the backend's tables, `rows` and `groups` what the page has loaded of
them, each once when it opens. Every fetch is an element of `reqs` with three steps:
sent, served (`Serve`, or `Lose`) and heard (`HearExt`, `HearRow`, `HearPut`, ...), in any
order with the others. `Toggle` shows the switch flipped at once and reverts it when the
answer is a refusal. A save (`saves[s]`) runs as `onSubmit` does: the extension
(`Submit`, `HearRow`), then one whole-row write for each ring group whose members change
(`WantedRow`, `PutGroup`, `HearPut`: `syncRingGroupMemberships`), then the groups are
loaded again (`ReloadGroups`) and the row is put into the list (`FinishSave`). The dialog
can be closed while its save runs; the save goes on.

The other admin (`OtherDoor`, `OtherGroup`) changes door settings and groups. `foreign`
in a save names the groups somebody else wrote while it ran, `excused` says that the
list may differ from the table: two requests about one row at once, a lost answer, a
save whose ring groups failed, another admin.

Abstractions. A row is what the dialogs edit (`text`), what the switch toggles (`on`) and
what the page of the door stations edits (`door`). The polled status, the pairing code
dialog and the tabs of the dialog are left out.

### AdminForms, ListPages, MCListPages, ListPagesProofs, ListCopyProofs

`AdminForms` is what the controls of the forms compute. `parseDays` and `formatDays`
(`lib/weekdays.ts`) turn Asterisk's weekday text into a set of days and back: a text is a
set of tokens, a token the pair of words around its dash, ranges may go over the weekend,
and a word that is no weekday stands for nothing. `toggleDay` is a click in the picker.
`getTargetOptions` and `WithType` are the destination fields, `addOption`, `removeOption`
and `updateOptionFields` the options of a menu. A form is a record: the controls it has,
what it refuses to send empty, how it names a group (routes by id, menus by number).

`ListPages` is eleven pages, one at a time, chosen in `Init`: ring groups, extension
groups, holidays, outbound rules, phone numbers, presence rules, phonebook, inbound
routes, schedules, menus, desk phones. `Page(...)` says for each component which forms it
has, whether a save's answer is put into the copy or the table is loaded again, whether
a delete asks first, and whether there is an import or a select that saves at once. The
actions are what the pages have in common: opening, editing and sending a form, deleting,
selecting, importing; a fetch is sent, served or lost, and heard (`HearLoad`, `HearSave`,
`HearGreeting`, `HearDelete`, `HearSelect`, `HearImport`). A refused load takes pages that
do not look at `r.ok` down (`Crash`), and `Reload` is the button there. `OtherAdmin`
changes a row behind the page's back.

`touched` and `from` in a form and a request are history variables: which fields the user
has changed and the row the form was opened on. `excused` says that the copy may differ
from the table until the next load: another admin, a request that broke off, two writes of
one row at once or anything beside a select (`Clashing`), a menu's greeting, and a load that
is heard after a write which was served later than the load (`clean`, `Overtaken`). Writes
still under way when a load is heard must be `Orderly` for the copy to come right with their
answers.

Abstractions. A field is a value of a small set: names, numbers and hours are one field
`text`. A forwarding rule that takes another's place does so in one step, where
`presence_rules.py:56-62` deletes the old one in a commit of its own. Requests alike in
everything, as two loads that have just been sent, are one. Exports, the editor of templates, resync of a phone, the LDAP dialog, the labels
and keys typed over in a menu's options and the lists a page loads only to choose from
are left out.

## 3. The runs

| Run | Bounds | Shows |
|---|---|---|
| `door_fanout` (DoorFanout.cfg) | 2 targets, at most 1 device each, 1 poll, 1 change of registration | `TypeOK`; `OnlyWinnerHeard`: no second device is ever heard while the door lives; `LastLegEndsRinging`: failing legs end the ringing only when no leg can be answered any more; `CallSpec`: refinement of DoorCall |
| `door_fanout_live` (DoorFanoutLive.cfg) | 2 targets, one of them disabled, up to 2 devices, 1 poll | `FanoutResolves`: the door never rings for ever; `DevicesFallSilent`: no device rings on after the door has gone |
| `winner_leaves` (violation) | 1 device | see 6.1 |
| `disabled_member` (violation) | 2 targets, one disabled | see 6.2 |
| `doorbell_history` (DoorbellHistory.cfg) | 2 rings at one door with a camera, table of 1 row, 1 fault | `RowTellsOwnRing`: no row gets another ring's answer, end or picture, unless its id was reused under somebody's feet; `HistoryCatchesUp`: with the queue empty and no fault the history is complete |
| `doorbell_warm` (DoorbellWarm.cfg) | 2 rings, shared cameras, 1 fault | `WarmWhileRinging`, `WarmStops` |
| `config_sync` (ConfigSync.cfg, with symmetry) | 2 requests, 1 person, 2 faults | `SavedIsLive`, `StatusHonest` with interleaved requests |
| `config_presence` (ConfigPresence.cfg) | 1 request, 2 persons, 1 fault, 1 coming, going, boot or restart of Asterisk | the same across boots; `LeftOutIsLive`: without failures the running dialplan leaves out whom the watcher has decided on, but for the reload it awaits; `PresenceFollowed`: without failures the running dialplan ends up leaving out exactly who is away while somebody is home |
| `mobile_pairing` (MobilePairing.cfg, with symmetry) | 3 tokens, 2 phones, 2 pairing requests at a time, 3 completed pairings, the extension deleted and created again, 1 restart of the backend | `OnePairing`: two active pairings of one phone exist only while a request is about to revoke one; `RevokeSticks`: a replay that had read an active row does not undo its revocation; `DevicesGoWithExtension`: no pairing outlives its extension; `NewestPairingLives`: what a pairing revokes is older than itself |
| `admin_session` (AdminSession.cfg) | 2 tabs of one browser, 1 strong password, lockout after 2 failures, 1 wrong password, 1 page opened by hand, 1 request under way besides a login | `DefaultBlocked`: while the shipped password has been let in and stands, every other route is closed; `LockoutHolds`: no login sent in a lockout gets in before it ends; `AdminGetsIn`: who keeps trying the password leaves the login page |
| `extensions_page` (ExtensionsPage.cfg, with symmetry) | 2 extensions, 1 ring group, 1 save, 2 dialogs or switches, 1 change by another admin, 2 requests at a time | `SavedMeansMember`: a save that says it succeeded left the extension in exactly the groups shown; `DoorSurvives`: no old row takes a door setting back; `OthersKeepTheirGroups`: a save moves nobody else; `ListIsStored`: a quiet page shows the table |
| `list_pages` (ListPages.cfg, MCListPages) | eleven pages, tables of 2 rows, 2 requests at a time, 3-4 clicks, 1-3 changes to drafts, another admin on two of them, a week of 4 days | `ListIsStored`; `TargetFitsType`: no stored route leads to a target of another kind than its type; `OnlyTouchedFieldsChange`; `OneDayAtATime`; `DraftSurvives`: no arriving table takes away what was typed; `BusyIsUnderWay`: a button is disabled only while a request that enables it again is under way; `FormsComeBack`: no button stays disabled |

Why the bounds are enough to be interesting. Two legs are what a race for the
winner needs; a third adds contenders for the same lock, and safety for any number
is proved. Two contacts of one target and a disabled target are what the count of
legs can go wrong about. Two rings and one table row let rows be pruned, deleted
and have their ids reused while the first ring still goes on. Two requests overlap
in every pair of await points; a third adds no pair, and again safety is proved for
any number. One fault at any moment is every single fault; two are a failed render and
then a status file that cannot be read. The proofs cover any
number. Every action of each model is taken in its passing runs.
Three tokens let a
pairing find two others to revoke. Two tabs are what a login needs to overlap a change of
password, and two failures what a lockout in the middle of a login needs. Two extensions
and one group let a stale group row carry somebody else along; one save beside a switch
or a deletion covers every pair of requests the page can have under way. A page with two
rows and two requests has a load overtaken by a save, two saves of one row, a row deleted
while it is edited, and a save of another row. In `ListPages` the bounds differ by page
(`MCBounds`), more where the forms of that page have more to them; a week of four days has
the whole week, single days, runs, runs over the weekend and gaps, and the wording is
proved for any number of days. Symmetry is used only in `config_sync`,
`mobile_pairing` and `extensions_page`, which check no liveness.

`CHECK_DEADLOCK FALSE` stands in the configurations of the doorbell, of pairing and of the
three models of the UI: there calls happen once, and pairings, clicks and requests are
bounded; afterwards the system stops.

## 4. Fairness

* DoorFanout: weak fairness of `DoorThread`, `RingThread(l)` and `ConfThread(l)`.
  Asterisk schedules channel threads, and both `ConfBridge` and `Dial` have a time
  limit in the dialplan. What people do (answer, decline, hang up) is never fair.
* DoorbellHistory: weak fairness of `WarmLooks` (the loop is a task of the event
  loop that sleeps between two looks) and of `WarmOverdue(c)` (the clock goes on).
  The AMI events have none: that their end may be lost is what `WarmStops` is about.
* ConfigSync: weak fairness of `Reload(r)` and of the three steps of the watcher.
  Every await ends: a reload within 8 s, a request to Home Assistant by its time
  limit, the sleep of the poll after 60 s. Requests, people, failures and restarts
  have none.
* AdminSession: weak fairness of `Unlock` (a lockout has a length) and of hearing an answer
  (`fetch` settles); strong fairness of sending the right password from the login page, of
  serving it, and of an answer that is not lost: an admin who keeps trying, and a network
  that does not lose every answer for ever. Wrong passwords and other tabs are not fair
  and are bounded.
* ListPages: weak fairness of the requests (`Serve`, `Lose` or `Hear`): a `fetch` settles,
  with an answer or a rejection. The user has none.
* MobilePairing and ExtensionsPage have none; their properties are safety.

## 5. What is proved

TLAPS proves the following for every value of the constants under the named
assumptions of the modules. These say that sizes and bounds are naturals
(`NAssumption`, `MaxContactsAssumption`, `MaxTriesAssumption`, `MaxChangesAssumption`,
`MaxEventsAssumption`, `MaxFaultsAssumption`, `BoundsAssumption`, `BoundAssumption`,
`PageBounds`, `WeekAssumption`), that subsets are subsets (`DeadAssumption`,
`CamerasAssumption`, `PagesAssumption`, `TabsAssumption`), that the names of nothing and
nobody name nothing and nobody (`NobodyAssumption`, `NoRowAssumption`, `PhonesAssumption`,
`WritersAssumption`, `SaveNames`), and three things the code gives: the calls of one run
and the tokens the admin hands out are finitely many (`CallsAssumption`,
`TokensAssumption`), the shipped password is too short for the forms
(`PasswordAssumption`), and numbers of extensions, ids and numbers of groups are told
apart (`NumberAssumption`; in the code an id and a number may coincide, which hides a
mistake, it does not make one).

`DoorFanoutProofs`:

* `TypeCorrect`: `Spec => []TypeOK`.
* `Safety`: `Spec => []OnlyWinnerHeard`. The property is not inductive: it says
  nothing of a leg that has read `DOOR_WINNER` but not yet written it. The invariant
  adds `LockInv` (a leg between LOCK and UNLOCK holds the lock, and one that found no
  winner is still right, because only the holder of the lock writes) and `WinnerInv`
  (every leg past the lock is the winner).
* `Implementation`: `Spec => CallSpec`. Initial states map to initial states, and
  `CallStep` shows that every step is a step of DoorCall or changes none of its
  variables: `WinTake` takes, `DoorAnswers` answers, leaving ends, and joining,
  unmuting and leaving change who is heard, by `WinnerInv` never beyond the winner.
* `LastLeg`: `Spec => []LastLegEndsRinging`. While no registration changes, the
  invariant `CountFacts` keeps `DOOR_LEGS` at least as large as the number of legs that
  have not been counted down (`Pending`): counting happens before the first leg
  exists, and each leg counts down at most once. Counted down to nothing, none is left.

`ConfigSyncProofs`:

* `TypeCorrect`, `SavedIsLiveAlways`, `StatusHonestAlways`. The two safety
  properties are proved together, with two helpers. `StaleIsBehind`: Asterisk cannot
  be ahead of the files. `TrunkForgotten`: a trunk's file that outlives its row is in
  `lost`, which is what the boot needs, because it reports that step as done without
  rendering it. `SaveKeeps` is the one lemma about requests, for any set of changes
  and steps whose reloads cover what has succeeded; the requests of the program are
  instances of it.
* `LeftOutIsLiveAlways`: `Spec => []LeftOutIsLive`. The invariant (`Settled`) adds the file
  in between: it leaves out whom the watcher has decided on, because every render of a
  running backend reads the same set and a boot starts with an empty one. It is the
  safety half of `PresenceFollowed`; the other half, that the watcher goes on deciding,
  is fairness.

`DoorbellHistoryProofs`: `TypeCorrect`, `RowsTellOwnRing`, `HistoryComplete`, `KeptWarm`.
None of the three properties is inductive. The invariant has nine parts: the events of a
call wait in the queue in the order in which they happened (`InOrder`) and only such that
did (`Happened`); a call whose first event was heard has at most one row and the listener
remembers it (`OneRowEach`); whoever means a row id, the listener (`OwnRows`) or a picture
task (`OwnPictures`), means a row of its own ring, or the id is in `reused`;
and `Complete` says for each row which of its events is still waiting, so that an empty
queue leaves none. `TypeCorrect` contains that ids stay below the number of calls although
they are given again.

`MobilePairingProofs`: `TypeCorrect`, `OnePairingPerPhone`, `RevocationsStick`, `NoOrphans`,
`NewestWorks`. The invariant says what a request in mid-flight may rely on: what the write
lock keeps out (`Busy`, `AdminHolds`), that rows are numbered densely (`Dense`), that of two
active pairings of a phone one is in the list of a request under way (`OnePairingBy`), and
that what a replay read before its await is still so, or the phone is in `crossed`
(`ReplayKnows`). `RevocationsStick` is about every revocation of an active pairing, and about
a second one unless a replay has read the first and not ended before.

`AdminSessionProofs`: `TypeCorrect`, `ShippedPasswordBlocked`, `LockoutsHold`. `Sound` says of
each request what must still hold when its handler writes: who saw the flag on finds it on,
or the shipped password replaced, and a login of a lockout has not got as far as its hash.
`LockedFull` says that a locked bucket is one failure away from being locked again.

`ExtensionsPageProofs`: `TypeCorrect`, `SavedIsMember`, `DoorsSurvive`, `OthersStay`,
`ListStays`. `Requests` ties each request to the save that sent it, `OneAtATime` says that a
save has one request under way, and `SavesHold` that the groups a save has passed hold its
extension as its dialog showed, or are in `foreign`. `ListStays` (`Spec => []ListIsStored`)
needs an invariant of its own, `Agree`: while nothing excuses the page, each row has at most
one request or save that writes it (`Good`), and list and table differ in that row exactly by
what this request has done to one and not yet to the other (`OnItsWay`, `RowHeld`); until
the first load is heard nothing is written (`LoadIsFirst`).

`ListPagesProofs`: `TypeCorrect`, `TargetsFit`, `OnlyTouched`, `DaysOneAtATime`,
`DraftsSurvive`, `DisabledIsUnderWay`, and of the operators `WordingLosesNoDay`: writing a
set of days as text and reading it again gives the set, for every set and every length of the week, with runs over
the end of it; `ToggleChangesOneDay` follows. `TargetsFit` carries along that drafts, copies
and requests are fit too, or not yet checked (`DestinationsFit`); `OnlyTouched` that a draft
and a request differ from the row they came from in touched fields only (`FormHonest`,
`RequestHonest`), for all eleven pages. `DraftsSurvive` needs only the types.
`DisabledIsUnderWay` (`Spec => []BusyIsUnderWay`) is the safety half of `FormsComeBack`: with
`UnderWay`, which adds that an import comes from no form and that only a page that asks has
a dialog to disable, each disabled button has a request that will enable it.

`ListCopyProofs`: `ListStays`, `Spec => []ListIsStored` for all eleven pages. The invariant is
`Steady`. A load that no write has overtaken answers with the table as it is (`LoadsClean`),
so hearing it beside orderly writes puts copy and table together (`OrderlySettles`). From
then on two writes touch different rows, whichever is served first (`Apart`), or the page is excused; a row where
copy and table differ belongs to a write that has been served and not yet heard (`Kept`),
unless a write whose load is still to come makes the page excused anyway (`Behind`); and no
write is lost or sent by a page that has gone (`InHand`). On the three pages that put
answers into their copy, `Dialogs` adds what makes `Placed` right: one dialog at a time, none
beside a load, a form edits a row that is listed. The lemmas about copies and tables
(`AddSettles`, `ServedSettles`, `HeardSettles` and their like) speak of any set of requests;
the handlers are instances of them.

Only model-checked: liveness (`FanoutResolves`, `DevicesFallSilent`, `WarmStops`,
`PresenceFollowed`, `AdminGetsIn`, `FormsComeBack`). TLAPS does not reason about fairness and
ENABLED, nor does it do induction over data with the installed provers, and modules with
RECURSIVE operators cannot be proved about; no module here uses them. Every invariant and
every action property of the passing runs is proved.

## 6. Where the code and its documents disagree

1. *The winner leaves while the door changes conferences* (`winner_leaves`). The
   template says "the door leaving or the winner leaving ends the call for
   everybody" (539). If the winner hangs up after kicking the door out of the ringing
   conference and before it joins the talking one, its kick of everybody finds
   nobody; the door joins afterwards, answered, alone, without a time limit.
2. *A disabled or deleted member of the group* (`disabled_member`). Its leg is counted
   (`time_conditions.py:154`) but has no dialplan entry to count it down (161), so
   "the last leg failing without a winner ends the ringing" (template 540) is not
   kept: the door rings on for the whole ring time.

Seen while modelling the backend and not stated as a property of a run of their own:

* The history says "every ring ... with time, who answered" (`doorbell.py:1`); a row id that
  is given again while the first ring goes on makes a row tell another ring's story
  (`reused` in DoorbellHistory).
* cont-init says that rendering at boot "makes the running config always match the DB"
  (135-137); without a trunk in the database the step is skipped, so after the import of
  a backup without one the old trunk's file stays included (`"trunk" \in lost` in ConfigSync).
* A leg that joins the conference after the winner has listed the parties is kicked by
  nobody and leaves only with its `;2` half; a device that wins just as the ring time ends
  may be told so while the door has already given up (582, 655); a contact registered
  between counting and originating makes `DOOR_LEGS` too small.
* A status file that cannot be read when the next request renders something is replaced by
  one that knows that request's steps only (`regeneration.py:123-125`): a file whose render
  failed earlier stays as it was, and the page with the status shows no failure
  (`lost` in ConfigSync).
* A failed render or lost reload of the presence watcher is not tried again before the next
  change; completing a pairing renders the mailboxes without reloading them.
* When a phone replays one token while its pairing with another is still revoking the first,
  each request revokes the other's row and the phone is left without a pairing although
  both were answered with success (`crossed`).
* A replay that has read a revoked row sets it to active (`mobile_provisioning.py:318`), also
  over a revocation that the admin has sent again meanwhile, which was answered with "Device
  revoked" (482-502 check no status; the list at 516 shows revoked pairings): the phone is
  paired and the admin believes it is not (`PairsAgain`, `Bans` in MobilePairing).
* While a deletion or a revocation waits for Tailscale, every other write of the backend is
  locked out.

Seen while modelling the UI; the models have these behaviours, and the properties name
them as exceptions or do not speak of them:

* The edit dialog opened before the ring groups are loaded shows none, and its save takes
  the extension out of all of them (`EditExtensionDialog.tsx:34`). After an extension is
  deleted the groups are not loaded again, so the next save writes a group with a member
  that is gone: it is refused although the extension was saved. After such a failure in the
  add dialog the extension exists, is not in the list, and a second try says the number is
  in use. A save's answer is put into the list only after the groups: a switch flipped
  meanwhile is undone on the screen.
* Dialogs can be closed while they save, and the end of the save closes whatever dialog of
  that kind is then open. A draft opened inline while another row is being saved is lost
  when that save ends.
* A load that was served before a write and is heard after it shows the table as it was
  before: a ring group appears again although its delete has been answered, until the next
  load (`RingGroupsSection.tsx:31-46`, `119`, `156-165`; the other pages load the same way).
* A select of the outbound rules that fails puts back the whole list as it was
  (`OutboundRulesSection.tsx:104`), with rows deleted meanwhile; the next priority is taken
  from the rows shown.
* The key of a new menu option is the number of options plus one, which one of them may
  have after a removal; the backend does not refuse it (`ivr.py:91`). The answer to the upload
  of a greeting is not looked at; if the upload rejects, the menu exists and is not listed.
* `PresenceRules` sends target 0 for a destination nobody picked, and nothing refuses it
  (`presence_rules.py:28`). It deletes without asking, although
  `DeleteConfirmDialog.tsx:14-16` says that every delete flow looks the same.
* `Devices.deleteTemplate` (133), `Diagnostics.handleDiscard` and
  `EditIvrDialog.deleteGreeting` report success without looking at the answer. Pages that do
  not check `r.ok` of a load come down on a refusal.
* Email and the shared cameras can be saved before or without a load that succeeded, which
  stores empty settings; `Provider` replaces typed text when its load arrives;
  `Remote.toggleEnabled` sends an old copy of the rest.
* The login page says nothing on a network error. A second tab's forced change is answered
  403 for ever once the first has made it. A slow answer to an earlier request sets the
  session cookie again after a sign-out.

## 7. What is left

In the order of what it would add: references between rows (a group, a menu, a rule that
names a deleted extension; reused ids of deleted rows) as a module over the routers'
deletions; the three writers of the SIP transport files with a crash between any two writes;
the three commits of a backup import; the migrations; inbound routing as a function from a
configuration and a call to what rings.

Not modelled, and why:

* Times and caches: the set of doors is cached for 30 s (`doorbell_listener.py:51`), a cached
  Tailscale token may be one fetched before the admin discarded it (`tailnet.py:195`), the
  rate limiter forgets addresses when its table is full (`auth.py:98`).
* Single lines where a crash bites and nothing is there to recover: pictures are pruned
  before their rows (`doorbell.py:264`; the order is modelled, what a user sees is not),
  the transport file before its memos (`pjsip_local.py:66`, `80`), a migration's column before
  its filling (`database.py:199`).
* The phone's tailnet node, removed in a thread while the phone reports a new one
  (`mobile_provisioning.py:471`): nodes are Tailscale's state, and the code gives no statement
  of what should win.
* Voicemail files, provisioning, phonebook, LDAP, STUN, tracing, updates and the input
  filters keep no state that one operation leaves for another except single table rows, and
  what could be wrong in them is text or encoding.
* The status, settings, voicemail, door and camera pages are one form or one polled display
  each, or forms of the shape `ListPages` has; the frame of the UI is presentation; packaging
  and the static files have no behaviour, ConfigSync takes from them which file each module
  reads.
