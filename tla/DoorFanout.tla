----------------------------- MODULE DoorFanout -----------------------------
(***************************************************************************)
(* The door fanout: one call of a door station that rings several devices. *)
(* It is dialplan, rendered from                                           *)
(*   backend/conf_templates/extensions_routing.conf.j2, [haphone-door-...] *)
(* and run by one Asterisk channel thread per channel:                     *)
(*                                                                         *)
(*   - the door channel originates one Local channel ("leg") per device    *)
(*     and waits, unanswered, in a conference as its video source;         *)
(*   - the ;2 half of a leg dials its one device, the ;1 half sits in the  *)
(*     conference;                                                         *)
(*   - the first device that answers writes its leg into the SHARED        *)
(*     variable DOOR_WINNER of the door channel and kicks everybody else.  *)
(*                                                                         *)
(* Every action is one step of one channel thread between two places where *)
(* another thread can be observed, or an event from outside (a person, a   *)
(* registration, a timer).  Asterisk itself (Originate, Dial, ConfBridge,  *)
(* LOCK, SHARED, the hangup of one half of a Local channel by the other)   *)
(* is external and modelled from how the dialplan uses it.                 *)
(***************************************************************************)
EXTENDS Integers, FiniteSets

CONSTANTS
  N,            \* the fanout targets of the rung group are 1 .. N
  MaxContacts,  \* max_contacts of an AOR (pjsip_extensions.conf.j2 renders 3)
  Dead,         \* targets without a leg entry: disabled or deleted extensions
  MaxTries,     \* polls of a leg for the door's arrival (the code: 40 of 50 ms)
  MaxChanges    \* bound: registrations that change while the door rings

ASSUME NAssumption == N \in Nat \ {0}
ASSUME MaxContactsAssumption == MaxContacts \in Nat \ {0}
ASSUME DeadAssumption == Dead \subseteq 1 .. N
ASSUME MaxTriesAssumption == MaxTries \in Nat
ASSUME MaxChangesAssumption == MaxChanges \in Nat

Targets == 1 .. N

\* <<t, j>>: the j-th registered contact of target t; <<t, 0>>: the leg of a
\* target with nothing registered.
Legs == Targets \X (0 .. MaxContacts)
NoLeg == <<0, 0>>
Door  == <<0, 1>>   \* the door's name in a list of conference parties

\* What may be registered: a disabled or deleted extension has no AOR.
Registrations ==
  {c \in [Targets -> 0 .. MaxContacts] : \A t \in Dead : c[t] = 0}

VARIABLES
  contacts,   \* registered contacts per target, now
  changes,    \* registration changes so far (bounded by MaxChanges)
  door,       \* where the door channel is in [haphone-door-fanout]
  i,          \* its loop counter over the targets
  doorLegs,   \* SHARED(DOOR_LEGS)
  winner,     \* SHARED(DOOR_WINNER); both vanish with the door channel
  answered,   \* Answer() was executed on the door channel
  doorKicked, \* a ConfKick of the door is under way
  ring,       \* where each leg's ;2 half, with its device, is
  tries,      \* its count of polls
  list,       \* LOCAL(list) of a winner: the parties it has yet to kick
  lock,       \* the leg that holds LOCK(room)
  conf,       \* where each leg's ;1 half is
  kicked,     \* a ConfKick of the ;1 half is under way
  won         \* SHARED(DOOR_WON) of the ;1 half

regVars  == <<contacts, changes>>
doorVars == <<door, i, answered>>
shared   == <<doorLegs, winner>>
legVars  == <<tries, list, lock>>
oneVars  == <<conf, won>>
kickVars == <<doorKicked, kicked>>
vars == <<regVars, doorVars, shared, ring, legVars, oneVars, kickVars>>

DoorStates == {"count", "originate", "ringing", "left", "answer", "talking",
               "noanswer", "out", "gone"}
RingStates == {"none", "queued", "wait", "dialing", "failed", "kickdoor",
               "answered", "taking", "late", "won", "told", "kicking",
               "bridged", "ended"}
ConfStates == {"none", "joining", "in", "left", "gone"}

\* Running the Dial U() routine [haphone-door-win] or bridged behind it.
InWinRoutine == {"answered", "taking", "late", "won", "told", "kicking"}
Winning == {"won", "told", "kicking", "bridged"}
\* FRAME_DROP(RX)=NONE was executed: the device's voice and keys pass.
Unmuted == {"told", "kicking", "bridged"}

TypeOK ==
  /\ contacts \in [Targets -> 0 .. MaxContacts]
  /\ changes \in 0 .. MaxChanges
  /\ door \in DoorStates
  /\ i \in 1 .. N + 1
  /\ doorLegs \in Int
  /\ winner \in Legs \cup {NoLeg}
  /\ answered \in BOOLEAN
  /\ doorKicked \in BOOLEAN
  /\ ring \in [Legs -> RingStates]
  /\ tries \in [Legs -> 0 .. MaxTries]
  /\ list \in [Legs -> SUBSET (Legs \cup {Door})]
  /\ lock \in Legs \cup {NoLeg}
  /\ conf \in [Legs -> ConfStates]
  /\ kicked \in [Legs -> BOOLEAN]
  /\ won \in [Legs -> BOOLEAN]

Init ==
  /\ contacts \in Registrations
  /\ changes = 0
  /\ door = "count"
  /\ i = 1
  /\ doorLegs = 0
  /\ winner = NoLeg
  /\ answered = FALSE
  /\ doorKicked = FALSE
  /\ ring = [l \in Legs |-> "none"]
  /\ tries = [l \in Legs |-> 0]
  /\ list = [l \in Legs |-> {}]
  /\ lock = NoLeg
  /\ conf = [l \in Legs |-> "none"]
  /\ kicked = [l \in Legs |-> FALSE]
  /\ won = [l \in Legs |-> FALSE]

-----------------------------------------------------------------------------
(* What the dialplan functions see. *)

DoorInConf == door \in {"ringing", "talking"}
Parties == {l \in Legs : conf[l] = "in"} \cup (IF DoorInConf THEN {Door} ELSE {})

\* SHARED(DOOR_WINNER) of a door channel that no longer exists reads as "".
WinnerSeen == IF door = "gone" THEN NoLeg ELSE winner

\* Mutants: LOCK does not wait; the door does not look at DOOR_WINNER.
LockIgnored == TRUE
WinnerIgnored == TRUE

LockFree == lock = NoLeg
WinnerKnown == winner # NoLeg

\* Mutants: a target with nothing registered is not counted; one poll too many.
RegisteredOnly == UNION {{t} \X (1 .. contacts[t]) : t \in Targets}
OneMorePoll(l) == tries[l] <= MaxTries

\* One leg per registered contact of t, one leg if nothing is registered.
LegsOf(t) == IF contacts[t] = 0 THEN {<<t, 0>>} ELSE {t} \X (1 .. contacts[t])
Counted == UNION {LegsOf(t) : t \in Targets}
PollsLeft(l) == tries[l] < MaxTries

\* ConfKick of the parties in S that are in the conference.
Kick(S) ==
  /\ kicked' = [l \in Legs |-> kicked[l] \/ (l \in S /\ conf[l] = "in")]
  /\ doorKicked' = (doorKicked \/ (Door \in S /\ DoorInConf))

-----------------------------------------------------------------------------
(* The door channel. *)

OnlyDoor == UNCHANGED <<regVars, shared, legVars, oneVars, kicked>>

DoorCount ==
  /\ door = "count" /\ door' = "originate"
  /\ doorLegs' = Cardinality(Counted)
  /\ UNCHANGED <<regVars, i, answered, winner, ring, legVars, oneVars, kickVars>>

\* The contacts are read a second time here.  Originate is asynchronous: the
\* legs start on their own.
DoorOriginate ==
  /\ door = "originate" /\ i <= N
  /\ ring' = [l \in Legs |-> IF l \in LegsOf(i) THEN "queued" ELSE ring[l]]
  /\ i' = i + 1
  /\ UNCHANGED <<regVars, door, answered, shared, legVars, oneVars, kickVars>>

DoorRings ==
  /\ door = "originate" /\ i > N
  /\ door' = "ringing"
  /\ UNCHANGED <<i, answered, ring, doorKicked>> /\ OnlyDoor

\* Out of the ringing conference: kicked, or CONFBRIDGE(user,timeout) is over.
DoorLeavesRinging ==
  /\ door = "ringing" /\ door' = "left"
  /\ doorKicked' = FALSE
  /\ UNCHANGED <<i, answered, ring>> /\ OnlyDoor

\* Mutant: CONFBRIDGE(user,timeout) is not set.
NoRingTimeout == FALSE

DoorKickedOut == doorKicked /\ DoorLeavesRinging
DoorRingTimeout == ~doorKicked /\ DoorLeavesRinging

\* Nobody answered: Hangup(19).
DoorGivesUp ==
  /\ door = "left" /\ ~WinnerKnown
  /\ door' = "noanswer"
  /\ UNCHANGED <<i, answered, ring, doorKicked>> /\ OnlyDoor

DoorAnswers ==
  /\ door = "left" /\ WinnerKnown
  /\ door' = "answer"
  /\ answered' = TRUE
  /\ UNCHANGED <<i, ring, doorKicked>> /\ OnlyDoor

DoorRejoins ==
  /\ door = "answer" /\ door' = "talking"
  /\ UNCHANGED <<i, answered, ring, doorKicked>> /\ OnlyDoor

\* The talking conference has no timeout: only a kick ends it.
DoorKickedFromTalk ==
  /\ door = "talking" /\ doorKicked
  /\ door' = "out"
  /\ doorKicked' = FALSE
  /\ UNCHANGED <<i, answered, ring>> /\ OnlyDoor

\* The visitor hangs up (or the door station drops off the network).
DoorHangup ==
  /\ door \notin {"noanswer", "out", "gone"}
  /\ door' = "out"
  /\ doorKicked' = FALSE
  /\ UNCHANGED <<i, answered, ring>> /\ OnlyDoor

\* Hangup handler [haphone-door-cleanup], then the channel is destroyed.
DoorCleanup ==
  /\ door \in {"noanswer", "out"}
  /\ door' = "gone"
  /\ Kick(Parties)
  /\ UNCHANGED <<regVars, i, answered, shared, ring, legVars, oneVars>>

-----------------------------------------------------------------------------
(* The ;2 half of a leg and the device it rings. *)

OnlyRing(l, next) ==
  /\ ring' = [ring EXCEPT ![l] = next]
  /\ UNCHANGED <<regVars, doorVars, shared, legVars, oneVars, kickVars>>

\* Originate found no entry in [haphone-door-leg]: the leg dies uncounted.
LegUnknown(l) == ring[l] = "queued" /\ l[1] \in Dead /\ OnlyRing(l, "ended")

\* Answer() of the ;2 half lets the ;1 half run [haphone-door-join].
LegStart(l) ==
  /\ ring[l] = "queued" /\ l[1] \notin Dead
  /\ ring' = [ring EXCEPT ![l] = "wait"]
  /\ conf' = [conf EXCEPT ![l] = "joining"]
  /\ UNCHANGED <<regVars, doorVars, shared, legVars, won, kickVars>>

LegPoll(l) ==
  /\ ring[l] = "wait" /\ ~DoorInConf /\ PollsLeft(l)
  /\ tries' = [tries EXCEPT ![l] = @ + 1]
  /\ UNCHANGED <<regVars, doorVars, shared, ring, list, lock, oneVars, kickVars>>

\* Dial one device.  A contact index that is gone meanwhile falls back to the
\* extension itself; with nothing registered Dial fails at once.
LegDial(l) ==
  /\ ring[l] = "wait"
  /\ DoorInConf \/ tries[l] = MaxTries
  /\ OnlyRing(l, IF contacts[l[1]] = 0 THEN "failed" ELSE "dialing")

DeviceAnswers(l) == ring[l] = "dialing" /\ OnlyRing(l, "answered")
DeviceFails(l) == ring[l] = "dialing" /\ OnlyRing(l, "failed")  \* busy, declined

\* Mutant: Dial without its time limit.
NoDialTimeout(l) == FALSE

DialTimeout(l) == ring[l] = "dialing" /\ OnlyRing(l, "failed")

\* The door channel no longer exists: hang up.
LegFailsLate(l) == ring[l] = "failed" /\ door = "gone" /\ OnlyRing(l, "ended")

\* One critical section of LOCK(room): count the leg down and decide.
LegFails(l) ==
  /\ ring[l] = "failed" /\ door # "gone" /\ LockFree
  /\ doorLegs' = doorLegs - 1
  /\ ring' = [ring EXCEPT ![l] =
                IF doorLegs' <= 0 /\ winner = NoLeg THEN "kickdoor" ELSE "ended"]
  /\ UNCHANGED <<regVars, doorVars, winner, legVars, oneVars, kickVars>>

\* The last leg that fails without a winner ends the ringing at the door.
LegKicksDoor(l) ==
  /\ ring[l] = "kickdoor"
  /\ ring' = [ring EXCEPT ![l] = "ended"]
  /\ Kick({Door})
  /\ UNCHANGED <<regVars, doorVars, shared, legVars, oneVars>>

-----------------------------------------------------------------------------
(* Dial U(): [haphone-door-win], run when the device of leg l answers. *)

\* LOCK, then read DOOR_WINNER.
WinLock(l) ==
  /\ ring[l] = "answered" /\ LockFree
  /\ lock' = l
  /\ ring' = [ring EXCEPT ![l] = IF WinnerSeen = NoLeg THEN "taking" ELSE "late"]
  /\ UNCHANGED <<regVars, doorVars, shared, tries, list, oneVars, kickVars>>

\* Nobody was first: write DOOR_WINNER (lost if the door channel is gone), UNLOCK.
WinTake(l) ==
  /\ ring[l] = "taking"
  /\ winner' = IF door = "gone" THEN winner ELSE l
  /\ lock' = NoLeg
  /\ ring' = [ring EXCEPT ![l] = "won"]
  /\ UNCHANGED <<regVars, doorVars, doorLegs, tries, list, oneVars, kickVars>>

\* Too late: UNLOCK, GOSUB_RESULT=ABORT makes Dial hang up both sides.
WinLost(l) ==
  /\ ring[l] = "late"
  /\ lock' = NoLeg
  /\ ring' = [ring EXCEPT ![l] = "ended"]
  /\ UNCHANGED <<regVars, doorVars, shared, tries, list, oneVars, kickVars>>

\* Unmute the device, mark the own ;1 half, report the answer (UserEvent).
WinTell(l) ==
  /\ ring[l] = "won"
  /\ ring' = [ring EXCEPT ![l] = "told"]
  /\ won' = [won EXCEPT ![l] = conf[l] # "gone"]
  /\ UNCHANGED <<regVars, doorVars, shared, legVars, conf, kickVars>>

\* One reading of CONFBRIDGE_CHANNELS is the list that is worked off.
WinList(l) ==
  /\ ring[l] = "told"
  /\ ring' = [ring EXCEPT ![l] = "kicking"]
  /\ list' = [list EXCEPT ![l] = Parties \ {l}]
  /\ UNCHANGED <<regVars, doorVars, shared, tries, lock, oneVars, kickVars>>

WinKick(l) ==
  /\ ring[l] = "kicking"
  /\ \E p \in list[l] : /\ list' = [list EXCEPT ![l] = @ \ {p}]
                        /\ Kick({p})
  /\ UNCHANGED <<regVars, doorVars, shared, ring, tries, lock, oneVars>>

\* The routine returns: Dial bridges the device with the ;2 half.
WinDone(l) == ring[l] = "kicking" /\ list[l] = {} /\ OnlyRing(l, "bridged")

\* The device hangs up, at any point of the routine or of the talk; the lock
\* goes with its channel, Dial returns with DIALSTATUS=ANSWER.
DeviceHangup(l) ==
  /\ ring[l] \in InWinRoutine \cup {"bridged"}
  /\ ring' = [ring EXCEPT ![l] = "ended"]
  /\ lock' = IF lock = l THEN NoLeg ELSE lock
  /\ UNCHANGED <<regVars, doorVars, shared, tries, list, oneVars, kickVars>>

\* The ;1 half is gone: the ;2 half hangs up, its device gets a CANCEL or BYE.
\* While the thread runs the win routine it cannot notice.
LegHangup(l) ==
  /\ ring[l] \in {"wait", "dialing", "failed", "kickdoor", "bridged"}
  /\ conf[l] = "gone"
  /\ OnlyRing(l, "ended")

-----------------------------------------------------------------------------
(* The ;1 half of a leg: [haphone-door-join], [haphone-door-leg-gone]. *)

OnlyConf(l, next) ==
  /\ conf' = [conf EXCEPT ![l] = next]
  /\ UNCHANGED <<regVars, doorVars, shared, ring, legVars, won>>

LegJoins(l) ==
  /\ conf[l] = "joining" /\ ring[l] # "ended"
  /\ OnlyConf(l, "in") /\ UNCHANGED kickVars

\* Kicked, or hung up because the ;2 half is.
LegLeaves(l) ==
  /\ \/ conf[l] = "in" /\ (kicked[l] \/ ring[l] = "ended")
     \/ conf[l] = "joining" /\ ring[l] = "ended"
  /\ kicked' = [kicked EXCEPT ![l] = FALSE]
  /\ OnlyConf(l, "left") /\ UNCHANGED doorKicked

\* Hangup handler: the winning leg ends the call for everybody.
LegGone(l) ==
  /\ conf[l] = "left"
  /\ OnlyConf(l, "gone")
  /\ IF won[l] THEN Kick(Parties) ELSE UNCHANGED kickVars

-----------------------------------------------------------------------------
\* A device of target t registers or unregisters while the door rings.
Reregister(t) ==
  /\ changes < MaxChanges
  /\ \E n \in 0 .. MaxContacts : contacts' = [contacts EXCEPT ![t] = n]
  /\ contacts' \in Registrations \ {contacts}
  /\ changes' = changes + 1
  /\ UNCHANGED <<doorVars, shared, ring, legVars, oneVars, kickVars>>

\* Every channel of the call is destroyed.
Finished ==
  /\ door = "gone"
  /\ \A l \in Legs : ring[l] \in {"none", "ended"} /\ conf[l] \in {"none", "gone"}
  /\ UNCHANGED vars

\* A channel thread goes on by itself: dialplan, and the time limits of
\* ConfBridge and Dial.
DoorThread ==
  \/ DoorCount \/ DoorOriginate \/ DoorRings \/ DoorKickedOut \/ DoorRingTimeout
  \/ DoorGivesUp \/ DoorAnswers \/ DoorRejoins \/ DoorKickedFromTalk \/ DoorCleanup
RingThread(l) ==
  \/ LegUnknown(l) \/ LegStart(l) \/ LegPoll(l) \/ LegDial(l) \/ DialTimeout(l)
  \/ LegFailsLate(l) \/ LegFails(l) \/ LegKicksDoor(l) \/ LegHangup(l)
  \/ WinLock(l) \/ WinTake(l) \/ WinLost(l) \/ WinTell(l) \/ WinList(l)
  \/ WinKick(l) \/ WinDone(l)
ConfThread(l) == LegJoins(l) \/ LegLeaves(l) \/ LegGone(l)

\* What people do: nothing of it has to happen.
People ==
  \/ DoorHangup
  \/ \E l \in Legs : DeviceAnswers(l) \/ DeviceFails(l) \/ DeviceHangup(l)

Next ==
  \/ DoorThread
  \/ \E l \in Legs : RingThread(l) \/ ConfThread(l)
  \/ People
  \/ \E t \in Targets : Reregister(t)
  \/ Finished

Spec == Init /\ [][Next]_vars

\* A channel thread that can go on does so.
FairSpec ==
  /\ Spec
  /\ WF_vars(DoorThread)
  /\ \A l \in Legs : WF_vars(RingThread(l)) /\ WF_vars(ConfThread(l))

-----------------------------------------------------------------------------
(* Properties. *)

\* While the door channel lives, the microphone and the keys of a device pass
\* only if it is the one that won [haphone-door-win].
OnlyWinnerHeard ==
  \A l \in Legs : ring[l] \in Unmuted /\ door # "gone" => winner = l

\* The door is kicked out of the ringing for want of devices only when no leg
\* can be answered any more, as long as no registration changed meanwhile: "the
\* leg count is final before the first leg can fail"
\* (backend/tests/test_door_fanout.py).
LastLegEndsRinging ==
  \A l \in Legs : ring[l] = "kickdoor" /\ door # "gone" /\ changes = 0 =>
    \A m \in Legs : ring[m] \in {"none", "failed", "kickdoor", "ended"}

\* The door does not ring for ever: it ends up in a talk or gone.
FanoutResolves == <>(door \in {"talking", "gone"})

\* Once the door channel is gone no device goes on ringing, not even one whose
\* leg joined the conference after everybody had been kicked out of it.
DevicesFallSilent ==
  door = "gone" ~> \A l \in Legs : ring[l] \notin {"queued", "wait", "dialing"}

\* The fanout implements the promise of DoorCall.
Call == INSTANCE DoorCall WITH
  Devices  <- Legs,
  None     <- NoLeg,
  taken    <- winner,
  heard    <- {l \in Legs : ring[l] \in Unmuted /\ conf[l] = "in" /\ DoorInConf},
  answered <- answered,
  over     <- door \in {"noanswer", "out", "gone"}
CallSpec == Call!Spec

-----------------------------------------------------------------------------
(* What the comments of the template say and the dialplan does not keep. *)

\* "the winner leaving ends the call for everybody" (template, 539)
WinnerLeavingEndsCall ==
  \A l \in Legs : (winner = l /\ ring[l] = "ended") ~> (door = "gone")

\* "the last leg failing without a winner ends the ringing at the door (480)"
\* (template, 540)
NoLegLeftEndsRinging ==
  door = "ringing" /\ (\A l \in Legs : ring[l] \in {"none", "ended"}) => doorKicked

=============================================================================
