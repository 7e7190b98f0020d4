--------------------------- MODULE DoorbellHistory ---------------------------
(***************************************************************************)
(* The doorbell history of the backend.  Asterisk reports the life of a    *)
(* door call as AMI events; one listener (backend/doorbell_listener.py)    *)
(* feeds them to a tracker (backend/doorbell.py, DoorbellTracker) and      *)
(* writes what it says into the DoorbellEvent table (DoorbellStore),       *)
(* together with a picture that a task fetches, and the files of the       *)
(* pictures.  While a door rings a second task keeps the pictures of the   *)
(* shared cameras warm (backend/preview_cameras.py).                       *)
(*                                                                         *)
(* The listener and the tasks run on the event loop: each of their steps   *)
(* lasts from one await to the next.  The admin's delete request runs in a *)
(* worker thread with a database session of its own and interleaves with   *)
(* their reads, file operations and commits.                               *)
(*                                                                         *)
(* Left out: the tracker's map of fanout legs, which only feeds the log.   *)
(***************************************************************************)
EXTENDS Integers, Sequences, FiniteSetsExt

CONSTANTS
  Calls,      \* door channels, by their Uniqueid
  Doors,      \* extension numbers with the door switch on
  Cameras,    \* those with a picture source (doorbell_camera)
  Devices,    \* who can answer
  Shared,     \* whether some camera is shared with the app
  Nobody,     \* the empty answered_by; also: no picture
  NoRow,      \* an id without a row
  MaxEvents,  \* MAX_EVENTS (the code: 500)
  MaxFaults   \* bound: restarts of Asterisk or the backend, failed commits

ASSUME CallsAssumption == IsFiniteSet(Calls)
ASSUME CamerasAssumption == Cameras \subseteq Doors /\ Shared \in BOOLEAN
ASSUME NobodyAssumption == Nobody \notin Calls \cup Devices
ASSUME MaxEventsAssumption == MaxEvents \in Nat \ {0}
ASSUME MaxFaultsAssumption == MaxFaults \in Nat

\* A row of DoorbellEvent; ring is the call it was written for (history only).
\* started_at is the age: 0, 1 beyond OPENED_WINDOW, 2 beyond RETENTION_DAYS.
Rows == [door : Doors, ring : Calls, by : Devices \cup {Nobody}, ended : BOOLEAN,
         opened : BOOLEAN, image_file : BOOLEAN, age : 0 .. 2]
ASSUME NoRowAssumption == NoRow \notin Rows
Ids == 1 .. Cardinality(Calls)  \* every call makes one row at most

VARIABLES
  pbx,       \* Asterisk's truth: what each door call is doing
  queue,     \* AMI events on their way to the listener
  faults,    \* faults so far (bounded by MaxFaults)
  active,    \* tracker._active: untracked, ringing (False), answered (True)
  eventOf,   \* listener._event_of, 0 when there is no entry
  rows,      \* the DoorbellEvent table
  files,     \* the picture in each file of the doorbell directory
  snap,      \* the picture task of each call: fetching, or writing row snapId
  snapId,
  deleting,  \* id of the row a delete request has read, 0 if none
  warm,      \* preview_cameras._rings
  overdue,   \* the entries of it whose deadline has passed
  warmTask,  \* preview_cameras._warm_task is not None
  reused     \* ids given to a new row while something still meant the old one

amiVars  == <<pbx, queue, faults>>
trackVars == <<active, eventOf>>
storeVars == <<rows, files, reused>>
taskVars == <<snap, snapId, deleting>>
warmVars == <<warm, overdue, warmTask>>
vars == <<amiVars, trackVars, storeVars, taskVars, warmVars>>

Events == [kind : {"Newchannel", "Answered", "Hangup"}, call : Calls]

TypeOK ==
  /\ pbx \in [Calls -> [state : {"none", "ringing", "answered", "over"},
                        door : Doors, by : Devices \cup {Nobody}]]
  /\ queue \in Seq(Events)
  /\ faults \in 0 .. MaxFaults
  /\ active \in [Calls -> {"untracked", "ringing", "answered"}]
  /\ eventOf \in [Calls -> Ids \cup {0}]
  /\ rows \in [Ids -> Rows \cup {NoRow}]
  /\ files \in [Ids -> Calls \cup {Nobody}]
  /\ snap \in [Calls -> {"none", "fetching", "writing"}]
  /\ snapId \in [Calls -> Ids \cup {0}]
  /\ deleting \in Ids \cup {0}
  /\ warm \in SUBSET Calls /\ overdue \in SUBSET Calls
  /\ warmTask \in BOOLEAN
  /\ reused \in SUBSET Ids

Init ==
  /\ pbx \in [Calls -> [state : {"none"}, door : Doors, by : {Nobody}]]
  /\ queue = <<>>
  /\ faults = 0
  /\ active = [c \in Calls |-> "untracked"]
  /\ eventOf = [c \in Calls |-> 0]
  /\ rows = [id \in Ids |-> NoRow]
  /\ files = [id \in Ids |-> Nobody]
  /\ snap = [c \in Calls |-> "none"]
  /\ snapId = [c \in Calls |-> 0]
  /\ deleting = 0
  /\ warm = {} /\ overdue = {}
  /\ warmTask = FALSE
  /\ reused = {}

Present == {id \in Ids : rows[id] # NoRow}

-----------------------------------------------------------------------------
(* Asterisk: the life of a door call, and the events about it. *)

Send(kind, c) == queue' = Append(queue, [kind |-> kind, call |-> c])
PbxStep(c, from, to) ==
  /\ pbx[c].state \in from
  /\ UNCHANGED <<faults, trackVars, storeVars, taskVars, warmVars>>
  /\ pbx' = [pbx EXCEPT ![c] = to]

DoorRings(c) ==
  /\ PbxStep(c, {"none"}, [pbx[c] EXCEPT !.state = "ringing"])
  /\ Send("Newchannel", c)

\* DialEnd ANSWER of a direct call, UserEvent HaPhoneDoorAnswered of the fanout.
DeviceAnswers(c) ==
  /\ \E d \in Devices :
       PbxStep(c, {"ringing"}, [pbx[c] EXCEPT !.state = "answered", !.by = d])
  /\ Send("Answered", c)

DoorHangsUp(c) ==
  /\ PbxStep(c, {"ringing", "answered"}, [pbx[c] EXCEPT !.state = "over"])
  /\ Send("Hangup", c)

\* Asterisk restarts: its calls end, nobody hears of it.
AsteriskRestarts ==
  /\ faults < MaxFaults
  /\ faults' = faults + 1
  /\ queue' = <<>>
  /\ pbx' = [c \in Calls |-> IF pbx[c].state = "none" THEN pbx[c]
                             ELSE [pbx[c] EXCEPT !.state = "over"]]
  /\ UNCHANGED <<trackVars, storeVars, taskVars, warmVars>>

-----------------------------------------------------------------------------
(* The store. *)

\* SQLite gives a new row the largest id in the table plus one.
NewId == IF Present = {} THEN 1 ELSE Max(Present) + 1

\* Something still means the row that had this id before.
Meant(id) ==
  \/ deleting = id
  \/ \E c \in Calls : eventOf[c] = id \/ (snap[c] # "none" /\ snapId[c] = id)

\* Mutant: a ring nobody has answered yet is credited to the door itself.
RowByDoor(c) == [door |-> pbx[c].door, ring |-> c, by |-> pbx[c].door, ended |-> FALSE,
                 opened |-> FALSE, image_file |-> FALSE, age |-> 0]

NewRow(c) == [door |-> pbx[c].door, ring |-> c, by |-> Nobody, ended |-> FALSE,
              opened |-> FALSE, image_file |-> FALSE, age |-> 0]

\* Beyond MAX_EVENTS rows or RETENTION_DAYS.  Ids grow with started_at.
Doomed(table) ==
  {id \in Ids : /\ table[id] # NoRow
                /\ \/ Cardinality({n \in Ids : n > id /\ table[n] # NoRow}) >= MaxEvents
                   \/ table[id].age = 2}

-----------------------------------------------------------------------------
(* The listener: one AMI event. *)

NextEvent(kind, c) == queue # <<>> /\ Head(queue) = [kind |-> kind, call |-> c]
Take == queue' = Tail(queue) /\ UNCHANGED pbx
CommitFails == faults < MaxFaults /\ faults' = faults + 1
CommitWorks == UNCHANGED faults

\* preview_cameras.ring_started.
RingStarted(c) ==
  IF Shared THEN warm' = warm \cup {c} /\ overdue' = overdue \ {c} /\ warmTask' = TRUE
  ELSE UNCHANGED warmVars

OnNewchannel(c) ==
  /\ NextEvent("Newchannel", c) /\ Take
  /\ active' = [active EXCEPT ![c] = "ringing"]
  /\ \/ /\ CommitWorks
        /\ rows' = [rows EXCEPT ![NewId] = NewRow(c)]
        /\ reused' = IF Meant(NewId) THEN reused \cup {NewId} ELSE reused \ {NewId}
        /\ eventOf' = [eventOf EXCEPT ![c] = NewId]
        /\ IF pbx[c].door \in Cameras
           THEN snap' = [snap EXCEPT ![c] = "fetching"] /\ snapId' = [snapId EXCEPT ![c] = NewId]
           ELSE UNCHANGED <<snap, snapId>>
        /\ RingStarted(c)
     \/ CommitFails /\ UNCHANGED <<rows, reused, eventOf, snap, snapId, warmVars>>
  /\ UNCHANGED <<files, deleting>>

\* Mutant: the newest row instead of the call's own.
NewestRow(c) == IF Present = {} THEN 0 ELSE Max(Present)

RowOf(c) == eventOf[c]

OnAnswered(c) ==
  /\ NextEvent("Answered", c) /\ Take
  /\ IF active[c] = "ringing"
     THEN /\ active' = [active EXCEPT ![c] = "answered"]
          /\ LET id == RowOf(c) IN
             \/ /\ CommitWorks
                /\ rows' = IF id \in Present /\ rows[id].by = Nobody
                           THEN [rows EXCEPT ![id].by = pbx[c].by] ELSE rows
             \/ CommitFails /\ UNCHANGED rows
     ELSE UNCHANGED <<faults, active, rows>>
  /\ UNCHANGED <<eventOf, files, reused, taskVars, warmVars>>

\* Mutant: only a ring that was answered ends.
EndedIfAnswered(id) == IF id \in Present /\ rows[id].by # Nobody
                       THEN [rows EXCEPT ![id].ended = TRUE] ELSE rows

Ended(id) == IF id \in Present THEN [rows EXCEPT ![id].ended = TRUE] ELSE rows

\* Once an hour the end of a ring prunes: pictures first, then the rows in one
\* commit.
Prune(table) ==
  /\ files' = [id \in Ids |-> IF id \in Doomed(table) /\ rows[id].image_file
                              THEN Nobody ELSE files[id]]
  /\ \/ CommitWorks
        /\ rows' = [id \in Ids |-> IF id \in Doomed(table) THEN NoRow ELSE table[id]]
     \/ CommitFails /\ rows' = table

OnHangup(c) ==
  /\ NextEvent("Hangup", c) /\ Take
  /\ IF active[c] = "untracked" THEN UNCHANGED <<faults, active, eventOf, rows, files, warm, overdue>>
     ELSE /\ active' = [active EXCEPT ![c] = "untracked"]
          /\ warm' = warm \ {c} /\ overdue' = overdue \ {c}
          /\ eventOf' = [eventOf EXCEPT ![c] = 0]
          /\ \/ CommitWorks /\ rows' = Ended(RowOf(c)) /\ UNCHANGED files
             \/ CommitFails /\ UNCHANGED <<rows, files>>
             \/ Prune(Ended(RowOf(c)))
  /\ UNCHANGED <<reused, taskVars, warmTask>>

-----------------------------------------------------------------------------
(* The picture task of a ring: fetch, then save_image. *)

SnapStep(c, from, to) ==
  /\ snap[c] = from
  /\ snap' = [snap EXCEPT ![c] = to]
  /\ UNCHANGED <<pbx, queue, trackVars, snapId, deleting, reused, warmVars>>

SnapFails(c) == SnapStep(c, "fetching", "none") /\ UNCHANGED <<faults, rows, files>>

\* The row is read again: if it is still there the file is written.
SnapWrites(c) ==
  /\ IF snapId[c] \in Present
     THEN SnapStep(c, "fetching", "writing") /\ files' = [files EXCEPT ![snapId[c]] = c]
     ELSE SnapStep(c, "fetching", "none") /\ UNCHANGED files
  /\ UNCHANGED <<faults, rows>>

\* The commit; if another session deleted the row meanwhile, it fails.
SnapCommits(c) ==
  /\ SnapStep(c, "writing", "none")
  /\ \/ /\ CommitWorks
        /\ rows' = IF snapId[c] \in Present
                   THEN [rows EXCEPT ![snapId[c]].image_file = TRUE] ELSE rows
     \/ CommitFails /\ UNCHANGED rows
  /\ UNCHANGED files

-----------------------------------------------------------------------------
(* Requests. *)

\* DoorbellStore.mark_opened, after the webhook: the newest ring of the door.
DoorOpened(d) ==
  /\ \E id \in Present :
       /\ rows[id].door = d /\ rows[id].age = 0
       /\ \A n \in Present : rows[n].door = d => n <= id
       /\ rows' = [rows EXCEPT ![id].opened = TRUE]
  /\ UNCHANGED <<amiVars, trackVars, files, reused, taskVars, warmVars>>

\* The admin deletes a row (one at a time): read it, remove its picture ...
DeleteReads(id) ==
  /\ deleting = 0 /\ id \in Present
  /\ deleting' = id
  /\ files' = [files EXCEPT ![id] = IF rows[id].image_file THEN Nobody ELSE @]
  /\ UNCHANGED <<amiVars, trackVars, rows, reused, snap, snapId, warmVars>>

\* ... and then the row.
DeleteCommits ==
  /\ deleting # 0
  /\ \/ CommitWorks /\ rows' = [rows EXCEPT ![deleting] = NoRow]
     \/ CommitFails /\ UNCHANGED rows
  /\ deleting' = 0
  /\ UNCHANGED <<pbx, queue, trackVars, files, reused, snap, snapId, warmVars>>

-----------------------------------------------------------------------------
(* Keeping the shared cameras warm. *)

\* Mutants: a ring has no deadline; the loop ends as soon as one ring has passed it.
NoDeadline(c) == FALSE
AnyRingOver == warm = {} \/ warm \cap overdue # {}

Deadline(c) == c \in warm \ overdue

\* WARM_MAX_S after the ring started.
WarmOverdue(c) ==
  /\ Deadline(c)
  /\ overdue' = overdue \cup {c}
  /\ UNCHANGED <<amiVars, trackVars, storeVars, taskVars, warm, warmTask>>

NoRingLeft == warm \subseteq overdue

\* Every look at _warming() drops the overdue rings ...
DropOverdue ==
  /\ warm' = warm \ overdue /\ overdue' = {}
  /\ UNCHANGED <<amiVars, trackVars, storeVars, taskVars>>

\* ... the app's when it asks for a picture, and the loop's, which fetches every
\* shared camera between two looks and ends when it sees no ring.
AppLooks == DropOverdue /\ UNCHANGED warmTask
WarmLooks == warmTask /\ DropOverdue /\ warmTask' = ~NoRingLeft

-----------------------------------------------------------------------------
\* A row grows older, the oldest first; 30 days only after its call.
GrowOld(id) ==
  /\ id \in Present /\ rows[id].age < 2
  /\ \A n \in Present : n < id => rows[n].age > rows[id].age
  /\ rows[id].age = 1 => pbx[rows[id].ring].state = "over" /\ snap[rows[id].ring] = "none"
  /\ rows' = [rows EXCEPT ![id].age = @ + 1]
  /\ UNCHANGED <<amiVars, trackVars, files, reused, taskVars, warmVars>>

\* The backend restarts: everything in memory is gone, the calls go on.
BackendRestarts ==
  /\ faults < MaxFaults
  /\ faults' = faults + 1
  /\ queue' = <<>>
  /\ active' = [c \in Calls |-> "untracked"]
  /\ eventOf' = [c \in Calls |-> 0]
  /\ snap' = [c \in Calls |-> "none"]
  /\ deleting' = 0
  /\ warm' = {} /\ overdue' = {} /\ warmTask' = FALSE
  /\ UNCHANGED <<pbx, storeVars, snapId>>

Listener == \E c \in Calls : OnNewchannel(c) \/ OnAnswered(c) \/ OnHangup(c)

Next ==
  \/ Listener
  \/ \E c \in Calls : DoorRings(c) \/ DeviceAnswers(c) \/ DoorHangsUp(c)
  \/ \E c \in Calls : SnapFails(c) \/ SnapWrites(c) \/ SnapCommits(c)
  \/ \E d \in Doors : DoorOpened(d)
  \/ \E id \in Ids : DeleteReads(id) \/ GrowOld(id)
  \/ DeleteCommits
  \/ \E c \in Calls : WarmOverdue(c)
  \/ AppLooks \/ WarmLooks
  \/ AsteriskRestarts \/ BackendRestarts

Spec == Init /\ [][Next]_vars

\* The loop is a task of the event loop, its deadlines are the clock's.
FairSpec == Spec /\ WF_vars(WarmLooks) /\ \A c \in Calls : WF_vars(WarmOverdue(c))

-----------------------------------------------------------------------------
(* Properties *)

\* What a row says of its ring is true of that ring.
Shown(id) == IF rows[id].image_file THEN files[id] ELSE Nobody
TrueToRing(id) ==
  LET call == pbx[rows[id].ring] IN
  /\ rows[id].by \in {Nobody, call.by}
  /\ rows[id].ended => call.state = "over"
  /\ Shown(id) \in {Nobody, rows[id].ring}

\* No row is credited with another ring's answer, end or picture, whatever events,
\* picture tasks, deletions, restarts and failed commits come in between, as long
\* as its id was not handed out while something still meant an older row
\* (DoorbellListener._event_of, _snapshot).
RowTellsOwnRing == \A id \in Present \ reused : TrueToRing(id)

\* Once the listener has caught up, and nothing failed, the history is complete: a
\* row has the answer its call had, and is ended exactly when its call is over.
HistoryCatchesUp ==
  queue = <<>> /\ faults = 0 =>
    \A id \in Present \ reused :
      LET call == pbx[rows[id].ring] IN
      rows[id].by = call.by /\ (rows[id].ended <=> call.state = "over")

\* While a ring has time left the loop that keeps its pictures warm runs, however
\* other rings start, end or run out of time (ring_started, _warming).
WarmWhileRinging == warm \ overdue # {} => warmTask

\* The loop never fetches cameras for ever, even if the end of a ring was lost
\* (WARM_MAX_S, "safety stop if the Ended event is lost").
WarmStops == warmTask ~> ~warmTask

=============================================================================
