----------------------------- MODULE ConfigSync -----------------------------
(***************************************************************************)
(* From the database to the running Asterisk.  A request that changes the  *)
(* database commits, renders the files its change goes into (the "steps"   *)
(* of backend/regeneration.py), merges the results into a status file the  *)
(* admin sees, and has Asterisk reload the modules that read them.  The    *)
(* container renders everything again when it boots.  A watcher            *)
(* (backend/ha_presence.py) renders and reloads the dialplan when somebody *)
(* comes or goes, because door groups leave out who is away.               *)
(*                                                                         *)
(* The request handlers and the watcher are coroutines of one event loop.  *)
(* From the commit to the status file there is no await: that is one step. *)
(* Every reload is awaited, and the others go on meanwhile.                *)
(*                                                                         *)
(* Data is not modelled as values: a file, or what Asterisk runs, is       *)
(* either what the database says now, or behind it.                        *)
(***************************************************************************)
EXTENDS Integers

CONSTANTS
  Requests,    \* request handlers
  Persons,     \* extensions with a Home Assistant person
  MaxFaults,   \* bound: failed renders, lost reloads, crashes, HA outages
  MaxChanges   \* bound: comings, goings and boots

ASSUME BoundsAssumption == MaxFaults \in Nat /\ MaxChanges \in Nat

\* STEP_ORDER; the modules that are reloaded; the step each reload waits for.
Steps == {"extensions", "voicemail", "routing", "mail", "trunk"}
Modules == {"pjsip", "voicemail", "dialplan"}
ModuleOf == [s \in Steps |-> CASE s \in {"extensions", "trunk"} -> "pjsip"
                               [] s \in {"voicemail", "mail"}   -> "voicemail"
                               [] s = "routing"                 -> "dialplan"]
ReadBy(m) == {s \in Steps : ModuleOf[s] = m}

VARIABLES
  stale,     \* steps whose file is behind the database
  behind,    \* steps whose part of the running configuration is
  failed,    \* steps the status file reports as failed
  hasTrunk,  \* there is a row in the trunk table
  reloads,   \* the reloads each request still has to await
  trunkSave, \* requests that reload the dialplan first
  home,      \* who is at home
  excluded,  \* ha_presence.door_excluded
  confExcl,  \* who the dialplan file leaves out
  liveExcl,  \* who the running dialplan leaves out
  watcher,   \* what the presence watcher does
  seen,      \* what it computed from the states it fetched
  faults, changes,
  lost       \* steps that changed with nobody left to render, reload or report them

syncVars == <<stale, behind, failed, hasTrunk, reloads, trunkSave, confExcl, liveExcl, lost>>
presenceVars == <<home, excluded, watcher, seen>>
bounds == <<faults, changes>>
vars == <<syncVars, presenceVars, bounds>>

TypeOK ==
  /\ stale \in SUBSET Steps /\ behind \in SUBSET Steps
  /\ failed \in SUBSET Steps /\ lost \in SUBSET Steps
  /\ hasTrunk \in BOOLEAN
  /\ reloads \in [Requests -> SUBSET Modules]
  /\ trunkSave \in SUBSET Requests
  /\ home \in SUBSET Persons /\ seen \in SUBSET Persons
  /\ excluded \in SUBSET Persons
  /\ confExcl \in SUBSET Persons /\ liveExcl \in SUBSET Persons
  /\ watcher \in {"sleeping", "fetched", "reloading"}
  /\ faults \in 0 .. MaxFaults /\ changes \in 0 .. MaxChanges

\* After a first boot.
Init ==
  /\ stale = {} /\ behind = {} /\ failed = {} /\ lost = {}
  /\ hasTrunk = FALSE
  /\ reloads = [r \in Requests |-> {}] /\ trunkSave = {}
  /\ home \in SUBSET Persons /\ seen = {}
  /\ excluded = {} /\ confExcl = {} /\ liveExcl = {}
  /\ watcher = "sleeping"
  /\ faults = 0 /\ changes = 0

Fault == faults < MaxFaults /\ faults' = faults + 1 /\ UNCHANGED changes
NoFault == UNCHANGED bounds
Change == changes < MaxChanges /\ changes' = changes + 1 /\ UNCHANGED faults

-----------------------------------------------------------------------------
(* run_regeneration_steps: render "steps", of which "bad" raise. *)

\* Mutants: the status file holds this run only; it names modules, not steps.
ThisRun(previous, steps, bad) == bad
ModuleNames(previous, steps, bad) == (previous \ steps) \cup {ModuleOf[s] : s \in bad}

\* "previous" is what the status file has reported until now.
Merged(previous, steps, bad) == (previous \ steps) \cup bad

\* Mutant: only the watcher's own render knows who is left out.
RenderForAll(changed, steps, bad) ==
  /\ stale' = (stale \cup changed) \ (steps \ bad)
  /\ confExcl' = IF "routing" \in steps \ bad THEN {} ELSE confExcl

\* The old file stays in place when a render fails.
Render(changed, steps, bad) ==
  /\ stale' = (stale \cup changed) \ (steps \ bad)
  /\ confExcl' = IF "routing" \in steps \ bad THEN excluded ELSE confExcl

\* Mutant: a reload waits for the whole run to succeed.
AllOrNothing(steps, bad) == IF bad = {} THEN steps ELSE {}

Succeeded(steps, bad) == steps \ bad

-----------------------------------------------------------------------------
(* Requests.  *)

\* One request: commit, regenerate, and the reloads that are left to await.
\* wanted[ok] is what it reloads when the steps "ok" have succeeded; it reports the
\* steps "forgotten" too, but does not render them, or does not reload them.  A
\* status file that cannot be read counts as an empty one: what it has reported of
\* other steps is forgotten as well.  If it cannot be written the request dies
\* there, reloading nothing.
Save(r, changed, steps, forgotten, wanted) ==
  /\ reloads[r] = {}
  /\ behind' = behind \cup changed
  /\ \E bad \in SUBSET steps :
       /\ Render(changed, steps, bad)
       /\ \/ \E previous \in {failed, {}} :
               /\ IF bad = {} /\ previous = failed THEN NoFault ELSE Fault
               /\ failed' = Merged(previous, steps \cup forgotten, bad)
               /\ reloads' = [reloads EXCEPT ![r] = wanted[Succeeded(steps, bad)]]
               /\ lost' = lost \cup ((forgotten \cup (failed \ (previous \cup steps))) \cap behind')
          \/ /\ Fault
             /\ UNCHANGED <<failed, reloads>>
             /\ lost' = lost \cup changed \cup (steps \cap behind)
  /\ UNCHANGED <<liveExcl, presenceVars>>

EachModule == [ok \in SUBSET Steps |-> {ModuleOf[s] : s \in ok}]

Bundle == {"extensions", "voicemail", "routing"}

\* Extensions are created, changed or deleted.
SaveExtension(r) ==
  /\ Save(r, Bundle, Bundle, {}, EachModule)
  /\ UNCHANGED <<hasTrunk, trunkSave>>

\* Ring groups, routes, time conditions, rules, menus, holidays, the app's
\* presence and forwarding.
SaveRouting(r) ==
  /\ Save(r, {"routing"}, {"routing"}, {}, EachModule)
  /\ UNCHANGED <<hasTrunk, trunkSave>>

Going(requests) == {q \in requests : reloads'[q] # {}}

SaveTrunk(r) ==
  /\ Save(r, {"trunk", "routing"}, {"trunk", "routing"}, {}, EachModule)
  /\ trunkSave' = Going(trunkSave \cup {r}) /\ hasTrunk' = TRUE

SaveSmtp(r) ==
  /\ Save(r, {"mail"}, {"mail"}, {}, EachModule)
  /\ UNCHANGED <<hasTrunk, trunkSave>>

NotVoicemail == [ok \in SUBSET Steps |-> EachModule[ok \ {"voicemail"}]]

\* Completing a pairing makes the extension video capable.  The mailboxes are
\* rendered again but not reloaded, though they may have changed before.
PairingEnablesVideo(r) ==
  /\ Save(r, {"extensions", "routing"}, Bundle, {"voicemail"}, NotVoicemail)
  /\ UNCHANGED <<hasTrunk, trunkSave>>

AllModules == [ok \in SUBSET Steps |-> Modules]

\* A backup is imported: everything changes and is reloaded whatever has failed.
\* Without a trunk in it that step is skipped, and reported as done.
ImportBackup(r) ==
  /\ \/ hasTrunk' = TRUE /\ Save(r, Steps, Steps, {}, AllModules)
     \/ /\ hasTrunk' = FALSE
        /\ Save(r, IF hasTrunk THEN Steps ELSE Steps \ {"trunk"},
                Steps \ {"trunk"}, {"trunk"}, AllModules)
  /\ UNCHANGED trunkSave

\* Mailbox settings and menu greetings are saved, and nothing is rendered.
SaveOnly ==
  /\ \E s \in {"voicemail", "routing"} :
       /\ stale' = stale \cup {s}
       /\ behind' = behind \cup {s}
       /\ lost' = lost \cup {s}
  /\ NoFault
  /\ UNCHANGED <<failed, hasTrunk, reloads, trunkSave, confExcl, liveExcl, presenceVars>>

-----------------------------------------------------------------------------
(* Reloads.  *)

\* Asterisk reads the files of module m as they are now.
AsteriskReads(m) ==
  /\ behind' = (behind \ ReadBy(m)) \cup (stale \cap ReadBy(m))
  /\ liveExcl' = IF m = "dialplan" THEN confExcl ELSE liveExcl
  /\ lost' = lost \ (ReadBy(m) \ stale)

\* ami_reload_*: any failure within 8 s is logged and forgotten.
ReloadModule(m) ==
  \/ NoFault /\ AsteriskReads(m)
  \/ Fault /\ UNCHANGED <<behind, liveExcl>> /\ lost' = lost \cup (ReadBy(m) \cap behind)

\* pjsip, voicemail, dialplan; the trunk's request starts with the dialplan.
Rank(r, m) == CASE m = "pjsip" -> 1 [] m = "voicemail" -> 2
                [] m = "dialplan" -> IF r \in trunkSave THEN 0 ELSE 3

Reload(r) ==
  /\ \E m \in reloads[r] :
       /\ \A n \in reloads[r] : Rank(r, m) <= Rank(r, n)
       /\ ReloadModule(m)
       /\ reloads' = [reloads EXCEPT ![r] = @ \ {m}]
  /\ trunkSave' = Going(trunkSave)
  /\ UNCHANGED <<stale, failed, hasTrunk, confExcl, presenceVars>>

-----------------------------------------------------------------------------
(* Presence.  *)

PersonMoves ==
  /\ Change
  /\ \E p \in Persons : home' = (home \ {p}) \cup ({p} \ home)
  /\ UNCHANGED <<syncVars, excluded, watcher, seen>>

\* excluded_extensions: who is known to be away, if somebody is known to be home.
Excluded(known) == IF home \cap known = {} THEN {} ELSE known \ home

\* The states as of one moment; without an answer a person counts as unknown.
PresenceFetched ==
  /\ watcher = "sleeping"
  /\ \/ NoFault /\ seen' = Excluded(Persons)
     \/ Fault /\ \E known \in SUBSET Persons : seen' = Excluded(known)
  /\ watcher' = "fetched"
  /\ UNCHANGED <<syncVars, home, excluded>>

\* Mutant: only somebody who has gone is noticed.
SomebodyLeft(now) == now \ excluded # {}

LeftOutChanged(now) == now # excluded

\* refresh_once after its awaits.  door_excluded is set before the render; the
\* exception of a failed one ends this round, and the status file hears nothing.
PresenceApplies ==
  /\ watcher = "fetched"
  /\ IF LeftOutChanged(seen)
     THEN /\ excluded' = seen
          /\ \/ /\ NoFault
                /\ stale' = stale \ {"routing"} /\ confExcl' = seen
                /\ watcher' = "reloading"
             \/ Fault /\ UNCHANGED <<stale, confExcl>> /\ watcher' = "sleeping"
     ELSE NoFault /\ UNCHANGED <<excluded, stale, confExcl>> /\ watcher' = "sleeping"
  /\ seen' = {}
  /\ UNCHANGED <<behind, failed, hasTrunk, reloads, trunkSave, liveExcl, lost, home>>

PresenceReloads ==
  /\ watcher = "reloading"
  /\ ReloadModule("dialplan")
  /\ watcher' = "sleeping"
  /\ UNCHANGED <<stale, failed, hasTrunk, reloads, trunkSave, confExcl, home, excluded, seen>>

-----------------------------------------------------------------------------
(* Restarts.  *)

\* The backend dies and s6 starts it again: no request goes on, the files stay.
BackendRestarts ==
  /\ Fault
  /\ reloads' = [r \in Requests |-> {}] /\ trunkSave' = {}
  /\ excluded' = {} /\ watcher' = "sleeping" /\ seen' = {}
  /\ lost' = lost \cup behind
  /\ UNCHANGED <<stale, behind, failed, hasTrunk, confExcl, liveExcl, home>>

AsteriskRestarts ==
  /\ Change
  /\ behind' = stale /\ liveExcl' = confExcl /\ lost' = lost \cap stale
  /\ UNCHANGED <<stale, failed, hasTrunk, reloads, trunkSave, confExcl, presenceVars>>

\* The container boots: a script renders every step, without a trunk all but that,
\* in a process of its own that leaves nobody out; then Asterisk starts.  It reports
\* on every step, so it does not matter whether the status file can be read.  If the
\* script dies before it writes that file, the boot goes on all the same.
Boot ==
  /\ changes < MaxChanges /\ changes' = changes + 1
  /\ LET steps == IF hasTrunk THEN Steps ELSE Steps \ {"trunk"} IN
     \E bad \in SUBSET steps, written \in BOOLEAN :
       /\ IF bad = {} /\ written THEN UNCHANGED faults
          ELSE faults < MaxFaults /\ faults' = faults + 1
       /\ stale' = stale \ (steps \ bad)
       /\ confExcl' = IF "routing" \in bad THEN confExcl ELSE {}
       /\ failed' = IF written THEN Merged(failed, Steps, bad) ELSE failed
  /\ behind' = stale' /\ liveExcl' = confExcl' /\ lost' = lost \cap stale'
  /\ reloads' = [r \in Requests |-> {}] /\ trunkSave' = {}
  /\ excluded' = {} /\ watcher' = "sleeping" /\ seen' = {}
  /\ UNCHANGED <<hasTrunk, home>>

-----------------------------------------------------------------------------
Next ==
  \/ \E r \in Requests :
       \/ SaveExtension(r) \/ SaveRouting(r) \/ SaveTrunk(r) \/ SaveSmtp(r)
       \/ PairingEnablesVideo(r) \/ ImportBackup(r) \/ Reload(r)
  \/ SaveOnly
  \/ PersonMoves \/ PresenceFetched \/ PresenceApplies \/ PresenceReloads
  \/ BackendRestarts \/ AsteriskRestarts \/ Boot

Spec == Init /\ [][Next]_vars

\* Coroutines go on: every await ends (a reload within 8 s, a poll after 60 s).
FairSpec == /\ Spec
            /\ \A r \in Requests : WF_vars(Reload(r))
            /\ WF_vars(PresenceFetched) /\ WF_vars(PresenceApplies) /\ WF_vars(PresenceReloads)

-----------------------------------------------------------------------------
(* Properties.  *)

\* What was saved and is not live yet is on its way (a request still awaits the
\* reload), or reported as failed in the status file, or was lost in one of the
\* ways "lost" collects: a reload Asterisk did not take, a request that died, data
\* that is saved without a render, a failure whose report was lost with a status file
\* that could not be read.  However requests, the watcher, restarts and
\* failing steps interleave (run_regeneration_steps, step_succeeded).
SavedIsLive ==
  \A s \in behind :
    \/ s \in lost \cup failed
    \/ \E r \in Requests : ModuleOf[s] \in reloads[r]
    \/ s = "routing" /\ watcher = "reloading"

\* A file that is behind the database is reported as failed until it is rendered,
\* also when later requests render other steps (the merge of the status file), unless
\* it is in "lost": then nothing reports it.
StatusHonest == stale \subseteq failed \cup lost

\* While nothing fails, the running dialplan leaves out exactly those the watcher has last
\* decided on, but for the reload the watcher awaits: a request that renders the routing,
\* a boot and a restart of Asterisk agree with it (door_excluded, read by every render).
LeftOutIsLive == faults = 0 /\ watcher # "reloading" => liveExcl = excluded

\* When people stop moving and nothing fails, the running dialplan leaves out
\* exactly who it should (ha_presence.refresh_once).
PresenceFollowed == <>[](faults = 0 => liveExcl = Excluded(Persons))
=============================================================================
