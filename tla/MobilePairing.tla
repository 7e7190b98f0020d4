---------------------------- MODULE MobilePairing ----------------------------
(***************************************************************************)
(* Pairing phones with an extension (backend/routers/mobile_provisioning). *)
(* The admin issues a token as a QR code; a phone that scans it completes  *)
(* the pairing: its row gets a fresh secret and becomes active, and the    *)
(* other pairings of the same phone are revoked.  The same token may be    *)
(* completed again and gives the row another secret.  The admin revokes a  *)
(* pairing, or deletes the extension with all of them.                     *)
(*                                                                         *)
(* Completing and deleting run on the event loop and await calls of        *)
(* Tailscale between their database steps; a revocation runs in a worker   *)
(* thread.  Each has a session of its own: what it has read it keeps, and  *)
(* what it writes are the columns it has changed.  SQLite has one writer:  *)
(* who has sent an uncommitted change keeps the others from theirs.        *)
(*                                                                         *)
(* Only one extension, and of a row only what decides whether a phone may  *)
(* use it.  Tailnet nodes are left out; so is what a paired phone asks for.*)
(***************************************************************************)
EXTENDS FiniteSetsExt, Integers

CONSTANTS
  Tokens,       \* provisioning tokens (their jti)
  Phones,       \* phones (their os_device_id)
  Requests,     \* requests of phones that are handled at the same time
  Admin,        \* the admin's request, one at a time
  Nobody,
  NoRow,        \* an id without a row
  MaxPairings,  \* bound: completed pairings
  MaxEras,      \* bound: creations of the extension
  MaxFaults     \* bound: restarts of the backend

ASSUME BoundsAssumption == {MaxPairings, MaxEras, MaxFaults} \subseteq Nat /\ MaxEras > 0
ASSUME TokensAssumption == IsFiniteSet(Tokens)
ASSUME PhonesAssumption == Nobody \notin Phones
ASSUME WritersAssumption == Admin \notin Requests /\ Nobody \notin Requests \cup {Admin}

\* The secret is what device_token_hash stands for, 0 when that is empty.  era is
\* the extension the row was written for (history only: the column is an id, and
\* SQLite gives it to the next extension).
Secrets == 1 .. MaxPairings
Rows == [jti : Tokens, phone : Phones, active : BOOLEAN,
         secret : Secrets \cup {0}, era : 1 .. MaxEras]
ASSUME NoRowAssumption == NoRow \notin Rows
Ids == 1 .. Cardinality(Tokens)

VARIABLES
  alive,      \* the extension exists
  era,        \* how often it has been created
  tokens,     \* tokens: new, valid, or signed with the key of an earlier process
  rows,       \* the MobileDevice table
  pc,         \* what each request does: idle, replaying or revoking
  asks,       \* its phone and the row it is about
  saw,        \* that row as a replay has read it
  todo,       \* the other pairings of the phone it has yet to revoke
  marked,     \* those it has, but not committed yet
  admin,      \* what the admin's request does: idle, revoking a pairing, repeating the
              \* revocation of one it has read as revoked, or deleting the extension
  concerns,   \* the rows it is about
  writer,     \* who has sent changes that are not committed yet
  pairings, faults,
  newest,     \* the secret of each phone's newest pairing, 0 if it was ended
  crossed,    \* phones two of whose requests, one of them a replay, have crossed
  unrevoked,  \* phones one of whose pairings has not revoked the others: the
              \* request died, or its UPDATE has hit a row that changed hands
  banned      \* rows the admin has revoked, until the phone pairs again (Bans)

reqVars == <<pc, asks, saw, todo, marked>>
adminVars == <<admin, concerns>>
extVars == <<alive, era, tokens>>
histVars == <<newest, crossed, unrevoked, banned>>
bounds == <<pairings, faults>>
vars == <<extVars, rows, reqVars, adminVars, writer, histVars, bounds>>

Present == {i \in Ids : rows[i] # NoRow}

TypeOK ==
  /\ alive \in BOOLEAN /\ era \in 1 .. MaxEras
  /\ tokens \in [Tokens -> {"new", "valid", "dead"}]
  /\ rows \in [Ids -> Rows \cup {NoRow}]
  /\ pc \in [Requests -> {"idle", "replaying", "revoking"}]
  /\ asks \in [Requests -> [phone : Phones \cup {Nobody}, id : Ids \cup {0}]]
  /\ saw \in [Requests -> Rows \cup {NoRow}]
  /\ todo \in [Requests -> SUBSET Ids] /\ marked \in [Requests -> SUBSET Ids]
  /\ admin \in {"idle", "revoking", "repeating", "deleting"} /\ concerns \in SUBSET Ids
  /\ writer \in Requests \cup {Admin, Nobody}
  /\ pairings \in 0 .. MaxPairings /\ faults \in 0 .. MaxFaults
  /\ newest \in [Phones -> Secrets \cup {0}]
  /\ crossed \in SUBSET Phones /\ unrevoked \in SUBSET Phones
  /\ banned \in SUBSET Ids

Nothing == [phone |-> Nobody, id |-> 0]

Init ==
  /\ alive = TRUE /\ era = 1
  /\ tokens = [t \in Tokens |-> "new"]
  /\ rows = [i \in Ids |-> NoRow]
  /\ pc = [r \in Requests |-> "idle"]
  /\ asks = [r \in Requests |-> Nothing]
  /\ saw = [r \in Requests |-> NoRow]
  /\ todo = [r \in Requests |-> {}] /\ marked = [r \in Requests |-> {}]
  /\ admin = "idle" /\ concerns = {} /\ writer = Nobody
  /\ pairings = 0 /\ faults = 0
  /\ newest = [p \in Phones |-> 0]
  /\ crossed = {} /\ unrevoked = {} /\ banned = {}

-----------------------------------------------------------------------------
(* The database. *)

MayWrite(w) == writer \in {Nobody, w}

NextId == IF Present = {} THEN 1 ELSE Max(Present) + 1

-----------------------------------------------------------------------------
(* Tokens. *)

\* A token that is not used while it is valid is an expired one.
IssueToken(t) ==
  /\ alive /\ tokens[t] = "new"
  /\ tokens' = [tokens EXCEPT ![t] = "valid"]
  /\ UNCHANGED <<alive, era, rows, reqVars, adminVars, writer, histVars, bounds>>

-----------------------------------------------------------------------------
(* A phone completes a pairing. *)

\* Mutants: only older pairings; the row itself, too.
OlderPairings(p, id) == {i \in Present : i < id /\ rows[i].phone = p /\ rows[i].active}
AllPairings(p, id) == {i \in Present : rows[i].phone = p /\ rows[i].active} \cup {id}

\* The other pairings of the phone.
Others(p, id) == {i \in Present : i # id /\ rows[i].phone = p /\ rows[i].active}

\* The other requests in flight that the pairing of phone p with row id crosses:
\* replays, and those that are still about to revoke that row.
Crossed(r, p, id) ==
  {q \in Requests \ {r} : \/ pc[q] = "replaying" /\ (asks[q].phone = p \/ asks[q].id = id)
                         \/ id \in todo[q] \cup marked[q]}

\* Row id becomes "row", with a fresh secret, for phone p; from this commit to
\* the list of the phone's other pairings there is no await.
Paired(r, p, id, row) ==
  /\ MayWrite(r) /\ pairings < MaxPairings
  /\ pairings' = pairings + 1
  /\ rows' = [rows EXCEPT ![id] = row]
  /\ newest' = [q \in Phones |-> IF q = p THEN IF row.active THEN pairings' ELSE 0
                                  ELSE IF rows[id] # NoRow /\ rows[id].secret = newest[q]
                                  THEN 0 ELSE newest[q]]
  /\ LET others == Crossed(r, p, id) IN
     crossed' = IF others = {} THEN crossed
                ELSE crossed \cup {p} \cup {asks[q].phone : q \in others}
  /\ unrevoked' = IF row.phone = p THEN unrevoked ELSE unrevoked \cup {row.phone}
  /\ todo' = [todo EXCEPT ![r] = Others(p, id)]
  /\ IF Others(p, id) = {}
     THEN pc' = [pc EXCEPT ![r] = "idle"] /\ asks' = [asks EXCEPT ![r] = Nothing]
     ELSE /\ pc' = [pc EXCEPT ![r] = "revoking"]
          /\ asks' = [asks EXCEPT ![r] = [phone |-> p, id |-> id]]
  /\ saw' = [saw EXCEPT ![r] = NoRow]
  /\ UNCHANGED <<extVars, marked, adminVars, writer, banned, faults>>

\* The token is new: a row is inserted.
CompletePairing(r, t, p) ==
  /\ pc[r] = "idle" /\ alive /\ tokens[t] = "valid"
  /\ \A i \in Present : rows[i].jti # t
  /\ Paired(r, p, NextId, [jti |-> t, phone |-> p, active |-> TRUE,
                           secret |-> pairings + 1, era |-> era])

\* The token has a row: that is read, and the phone's tailnet node removed first.
ReplayReads(r, i, p) ==
  /\ pc[r] = "idle" /\ alive
  /\ i \in Present /\ tokens[rows[i].jti] = "valid"
  /\ pc' = [pc EXCEPT ![r] = "replaying"]
  /\ asks' = [asks EXCEPT ![r] = [phone |-> p, id |-> i]]
  /\ saw' = [saw EXCEPT ![r] = rows[i]]
  /\ banned' = banned \ {i}
  /\ UNCHANGED <<extVars, rows, todo, marked, adminVars, writer,
                 newest, crossed, unrevoked, bounds>>

\* Mutants: the row is left without its phone; every column is written.
PhoneDropped(old, read, p) ==
  [old EXCEPT !.active = IF read.active THEN old.active ELSE TRUE,
              !.phone = Nobody,
              !.secret = pairings + 1]
AllColumns(old, read, p) == [old EXCEPT !.active = TRUE, !.phone = p, !.secret = pairings + 1]

\* The columns that differ from what was read are written.
ChangedColumns(old, read, p) ==
  [old EXCEPT !.active = IF read.active THEN old.active ELSE TRUE,
              !.phone = IF read.phone = p THEN old.phone ELSE p,
              !.secret = pairings + 1]

ReplayCommits(r) ==
  LET p == asks[r].phone  id == asks[r].id IN
  /\ pc[r] = "replaying" /\ id \in Present
  /\ Paired(r, p, id, ChangedColumns(rows[id], saw[r], p))

\* Back to idle, with an answer or with a status 500.
Ends(r) ==
  /\ pc' = [pc EXCEPT ![r] = "idle"]
  /\ asks' = [asks EXCEPT ![r] = Nothing]
  /\ saw' = [saw EXCEPT ![r] = NoRow]
  /\ todo' = [todo EXCEPT ![r] = {}]
  /\ marked' = [marked EXCEPT ![r] = {}]
  /\ writer' = IF writer = r THEN Nobody ELSE writer

\* The row is gone, or somebody else is writing: "database is locked".
ReplayFails(r) ==
  /\ pc[r] = "replaying"
  /\ asks[r].id \notin Present \/ ~MayWrite(r)
  /\ Ends(r)
  /\ UNCHANGED <<extVars, rows, adminVars, histVars, bounds>>

\* The node of another pairing is removed.  Unless it is the last one, the changes
\* so far may be sent by the query before the next removal.
RevokeOther(r) ==
  /\ pc[r] = "revoking"
  /\ \E o \in todo[r] :
       /\ todo[r] # {o}
       /\ todo' = [todo EXCEPT ![r] = @ \ {o}]
       /\ marked' = [marked EXCEPT ![r] = @ \cup {o}]
       /\ \/ UNCHANGED writer
          \/ MayWrite(r) /\ marked'[r] \subseteq Present /\ writer' = r
  /\ UNCHANGED <<extVars, rows, pc, asks, saw, adminVars, histVars, bounds>>

\* The last one: commit.
RevokedOthers(r) ==
  LET old == marked[r] \cup todo[r] IN
  /\ pc[r] = "revoking" /\ Cardinality(todo[r]) = 1
  /\ MayWrite(r) /\ old \subseteq Present
  /\ rows' = [i \in Ids |-> IF i \in old THEN [rows[i] EXCEPT !.active = FALSE, !.secret = 0]
                             ELSE rows[i]]
  /\ Ends(r)
  /\ UNCHANGED <<extVars, adminVars, histVars, bounds>>

\* At a query or the commit: a row is gone, or somebody else is writing.
RevokingFails(r) ==
  /\ pc[r] = "revoking"
  /\ ~(marked[r] \cup todo[r] \subseteq Present) \/ ~MayWrite(r)
  /\ unrevoked' = unrevoked \cup {asks[r].phone}
  /\ Ends(r)
  /\ UNCHANGED <<extVars, rows, adminVars, newest, crossed, banned, bounds>>

-----------------------------------------------------------------------------
(* The admin. *)

\* A replay that has read the row as revoked makes it active, whatever comes in between.
PairsAgain(i) == \E r \in Requests : pc[r] = "replaying" /\ asks[r].id = i /\ ~saw[r].active

\* The revocation counts, unless such a replay is under way or was faster.
Bans(i) == banned' = IF rows'[i].active \/ PairsAgain(i) THEN banned ELSE banned \cup {i}

Revoked(i) ==
  /\ rows' = [rows EXCEPT ![i].active = FALSE]
  /\ Bans(i)
  /\ newest' = [p \in Phones |-> IF newest[p] = rows[i].secret THEN 0 ELSE newest[p]]

\* A pairing is revoked at once, or, if the phone has a tailnet node to be removed,
\* with the change already sent to the database.  If it was revoked before there may be
\* no change to send, and nobody is kept from writing.
RevokeDevice(i) ==
  /\ admin = "idle" /\ i \in Present
  /\ \/ MayWrite(Admin) /\ Revoked(i) /\ UNCHANGED <<adminVars, writer>>
     \/ /\ admin' = IF rows[i].active THEN "revoking" ELSE "repeating"
        /\ concerns' = {i}
        /\ \/ MayWrite(Admin) /\ writer' = Admin
           \/ ~rows[i].active /\ UNCHANGED writer
        /\ UNCHANGED <<rows, banned, newest>>
  /\ UNCHANGED <<extVars, reqVars, crossed, unrevoked, bounds>>

AdminEnds ==
  /\ admin' = "idle" /\ concerns' = {}
  /\ writer' = IF writer = Admin THEN Nobody ELSE writer

\* The status is written if it has changed since it was read.
RevokeCommits ==
  /\ MayWrite(Admin)
  /\ \E i \in concerns : \/ admin = "revoking" /\ Revoked(i)
                         \/ admin = "repeating" /\ UNCHANGED <<rows, newest>> /\ Bans(i)
  /\ AdminEnds
  /\ UNCHANGED <<extVars, reqVars, crossed, unrevoked, bounds>>

\* "database is locked".
RevokeFails ==
  /\ admin = "repeating" /\ ~MayWrite(Admin)
  /\ AdminEnds
  /\ UNCHANGED <<extVars, rows, reqVars, histVars, bounds>>

ExtensionGone(gone) ==
  /\ alive' = FALSE
  /\ rows' = [i \in Ids |-> IF i \in gone THEN NoRow ELSE rows[i]]
  /\ banned' = banned \ gone
  /\ newest' = [p \in Phones |-> IF \E i \in gone : rows[i].secret = newest[p]
                                  THEN 0 ELSE newest[p]]
  /\ UNCHANGED <<era, tokens, reqVars, crossed, unrevoked, bounds>>

\* Mutant: nothing has been sent to the database yet.
NotYet == writer

\* Its mailbox row is deleted first, and the next query sends that.
DeletionSent == Admin

\* Each device row is awaited: the phone's tailnet node is removed.
DeleteExtension ==
  /\ admin = "idle" /\ alive /\ MayWrite(Admin)
  /\ IF Present = {} THEN ExtensionGone({}) /\ UNCHANGED <<adminVars, writer>>
     ELSE /\ admin' = "deleting" /\ concerns' = Present /\ writer' = DeletionSent
          /\ UNCHANGED <<extVars, rows, reqVars, histVars, bounds>>

DeleteCommits ==
  /\ admin = "deleting" /\ MayWrite(Admin)
  /\ ExtensionGone(concerns)
  /\ AdminEnds

\* An extension with the same number, and the same id, is created.
CreateExtension ==
  /\ ~alive /\ era < MaxEras /\ writer = Nobody
  /\ alive' = TRUE /\ era' = era + 1
  /\ UNCHANGED <<tokens, rows, reqVars, adminVars, writer, histVars, bounds>>

-----------------------------------------------------------------------------
\* Nothing that was not committed is left, and tokens are signed with a new key.
BackendRestarts ==
  /\ faults < MaxFaults /\ faults' = faults + 1
  /\ unrevoked' = unrevoked \cup {asks[r].phone : r \in {q \in Requests : pc[q] = "revoking"}}
  /\ pc' = [r \in Requests |-> "idle"] /\ asks' = [r \in Requests |-> Nothing]
  /\ saw' = [r \in Requests |-> NoRow]
  /\ todo' = [r \in Requests |-> {}] /\ marked' = [r \in Requests |-> {}]
  /\ admin' = "idle" /\ concerns' = {} /\ writer' = Nobody
  /\ tokens' = [t \in Tokens |-> IF tokens[t] = "valid" THEN "dead" ELSE tokens[t]]
  /\ UNCHANGED <<alive, era, rows, newest, crossed, banned, pairings>>

Next ==
  \/ \E t \in Tokens : IssueToken(t)
  \/ \E r \in Requests, p \in Phones :
       \/ \E t \in Tokens : CompletePairing(r, t, p)
       \/ \E i \in Ids : ReplayReads(r, i, p)
  \/ \E r \in Requests : \/ ReplayCommits(r) \/ ReplayFails(r)
                         \/ RevokeOther(r) \/ RevokedOthers(r) \/ RevokingFails(r)
  \/ \E i \in Ids : RevokeDevice(i)
  \/ RevokeCommits \/ RevokeFails \/ DeleteExtension \/ DeleteCommits \/ CreateExtension
  \/ BackendRestarts

Spec == Init /\ [][Next]_vars

-----------------------------------------------------------------------------
(* Properties. *)

\* Two active pairings of one phone do not stay: a request is about to revoke one of
\* them, however pairings, replays, revocations and deletions interleave, unless
\* such a request died (complete_provisioning, "the old pairing is dead").
OnePairing ==
  \A i, j \in Present :
    i # j /\ rows[i].phone = rows[j].phone /\ rows[i].phone \notin unrevoked
    /\ rows[i].active /\ rows[j].active =>
      \E r \in Requests : {i, j} \cap (todo[r] \cup marked[r]) # {}

\* What the admin has revoked stays revoked until the phone pairs again: a replay that
\* had read the row while it was active does not undo it (complete_provisioning writes
\* the columns it has changed only), unless another replay came in between.  A row that
\* is revoked a second time is another matter: a replay that has read it as revoked, and
\* is still under way or has been faster, makes it active (PairsAgain, Bans).
RevokeSticks ==
  \A i \in banned : rows[i].active => rows[i].phone \in crossed

\* No pairing outlives its extension to be attached to the next one with its id
\* (delete_extension holds the write lock while it awaits).
DevicesGoWithExtension ==
  \A i \in Present : alive /\ rows[i].era = era

\* The secret of a phone's newest pairing works until the admin ends it or another
\* phone uses its token: what a pairing revokes is older than itself.
NewestPairingLives ==
  \A p \in Phones \ crossed : newest[p] # 0 =>
    \E i \in Present : rows[i].active /\ rows[i].secret = newest[p]

=============================================================================
