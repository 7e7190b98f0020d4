-------------------------- MODULE DoorFanoutProofs --------------------------
(***************************************************************************)
(* For every number of targets, contacts and registration changes: at most *)
(* one device is heard by a living door, and the fanout implements         *)
(* DoorCall.  The argument is that of a lock: the value a leg read under   *)
(* LOCK(room) is still true when it acts on it.                            *)
(***************************************************************************)
EXTENDS DoorFanout, FiniteSetTheorems, TLAPS

\* A leg between LOCK and UNLOCK holds the lock, and one that found no winner
\* is still right about it.
LockInv ==
  /\ \A l \in Legs : ring[l] \in {"taking", "late"} => lock = l
  /\ \A l \in Legs : ring[l] = "taking" /\ door # "gone" => winner = NoLeg

\* A leg past the lock is the winner, as long as there is a door to win.
WinnerInv == \A l \in Legs : ring[l] \in Winning /\ door # "gone" => winner = l

IInv == TypeOK /\ LockInv /\ WinnerInv

LEMMA NoLegIsNone == NoLeg \notin Legs /\ Door \notin Legs
BY NAssumption DEF NoLeg, Door, Legs, Targets

LEMMA InitIInv == Init => IInv
<1>1. SUFFICES ASSUME Init PROVE IInv
  OBVIOUS
<1>2. TypeOK
  <2>1. contacts \in [Targets -> 0 .. MaxContacts] /\ changes \in 0 .. MaxChanges
    BY <1>1, MaxChangesAssumption DEF Init, Registrations
  <2>2. i \in 1 .. N + 1 /\ doorLegs \in Int
    BY <1>1, NAssumption DEF Init
  <2>6. /\ door \in DoorStates
        /\ winner \in Legs \cup {NoLeg} /\ lock \in Legs \cup {NoLeg}
        /\ answered \in BOOLEAN /\ doorKicked \in BOOLEAN
    BY <1>1 DEF Init, DoorStates
  <2>3. /\ ring \in [Legs -> RingStates] /\ conf \in [Legs -> ConfStates]
        /\ kicked \in [Legs -> BOOLEAN] /\ won \in [Legs -> BOOLEAN]
    BY <1>1 DEF Init, RingStates, ConfStates
  <2>4. /\ tries \in [Legs -> 0 .. MaxTries]
        /\ list \in [Legs -> SUBSET (Legs \cup {Door})]
    BY <1>1, MaxTriesAssumption DEF Init
  <2>5. QED
    BY <2>1, <2>2, <2>3, <2>4, <2>6 DEF TypeOK
<1>3. LockInv /\ WinnerInv
  BY <1>1 DEF Init, LockInv, WinnerInv, Winning
<1>4. QED
  BY <1>2, <1>3 DEF IInv

LEMMA FiniteLegs == IsFiniteSet(Legs)
<1>1. IsFiniteSet(Targets) /\ IsFiniteSet(0 .. MaxContacts)
  BY NAssumption, MaxContactsAssumption, FS_Interval DEF Targets
<1>2. QED
  BY <1>1, FS_Product DEF Legs

LEMMA CountedType == TypeOK => Cardinality(Counted) \in Nat
<1> SUFFICES ASSUME TypeOK PROVE Cardinality(Counted) \in Nat
  OBVIOUS
<1>1. ASSUME NEW t \in Targets PROVE LegsOf(t) \in SUBSET Legs
  <2>1. contacts[t] \in 0 .. MaxContacts
    BY DEF TypeOK
  <2>2. QED
    BY <2>1, MaxContactsAssumption DEF LegsOf, Legs
<1>2. Counted \in SUBSET Legs
  BY <1>1 DEF Counted
<1>3. QED
  BY <1>2, FiniteLegs, FS_Subset, FS_CardinalityType

LEMMA TypeNext == TypeOK /\ [Next]_vars => TypeOK'
<1> SUFFICES ASSUME TypeOK, [Next]_vars PROVE TypeOK'
  OBVIOUS
<1> USE NAssumption, MaxContactsAssumption, MaxTriesAssumption,
        MaxChangesAssumption
<1> USE DEF DoorStates, RingStates, ConfStates, regVars, doorVars, shared,
            legVars, oneVars, kickVars, OnlyDoor, OnlyRing, OnlyConf, Kick
<1>1. CASE DoorThread
  <2>1. CASE DoorCount
    BY <2>1, CountedType DEF TypeOK, DoorCount
  <2>2. CASE DoorOriginate
    BY <2>2 DEF TypeOK, DoorOriginate
  <2>3. CASE DoorRings \/ DoorGivesUp \/ DoorAnswers \/ DoorRejoins
    BY <2>3 DEF TypeOK, DoorRings, DoorGivesUp, DoorAnswers, DoorRejoins
  <2>4. CASE DoorKickedOut \/ DoorRingTimeout \/ DoorKickedFromTalk
    BY <2>4 DEF TypeOK, DoorKickedOut, DoorRingTimeout, DoorLeavesRinging,
                DoorKickedFromTalk
  <2>5. CASE DoorCleanup
    BY <2>5 DEF TypeOK, DoorCleanup, DoorInConf
  <2>6. QED
    BY <1>1, <2>1, <2>2, <2>3, <2>4, <2>5 DEF DoorThread
<1>2. ASSUME NEW l \in Legs, RingThread(l) PROVE TypeOK'
  <2>1. CASE LegUnknown(l) \/ LegDial(l) \/ DialTimeout(l) \/ LegFailsLate(l)
             \/ LegHangup(l) \/ WinDone(l)
    BY <2>1 DEF TypeOK, LegUnknown, LegDial, DialTimeout, LegFailsLate,
                LegHangup, WinDone
  <2>2. CASE LegStart(l)
    BY <2>2 DEF TypeOK, LegStart
  <2>3. CASE LegPoll(l)
    BY <2>3 DEF TypeOK, LegPoll, PollsLeft
  <2>4. CASE LegFails(l)
    BY <2>4 DEF TypeOK, LegFails
  <2>5. CASE LegKicksDoor(l)
    BY <2>5 DEF TypeOK, LegKicksDoor, DoorInConf
  <2>6. CASE WinLock(l) \/ WinLost(l)
    BY <2>6 DEF TypeOK, WinLock, WinLost
  <2>7. CASE WinTake(l)
    BY <2>7 DEF TypeOK, WinTake
  <2>8. CASE WinTell(l)
    BY <2>8 DEF TypeOK, WinTell
  <2>9. CASE WinList(l)
    <3>1. Parties \in SUBSET (Legs \cup {Door})
      BY DEF Parties
    <3>2. QED
      BY <2>9, <3>1 DEF TypeOK, WinList
  <2>10. CASE WinKick(l)
    BY <2>10 DEF TypeOK, WinKick, DoorInConf
  <2>11. QED
    BY <1>2, <2>1, <2>2, <2>3, <2>4, <2>5, <2>6, <2>7, <2>8, <2>9, <2>10
    DEF RingThread
<1>3. ASSUME NEW l \in Legs, ConfThread(l) PROVE TypeOK'
  <2>1. CASE LegJoins(l)
    BY <2>1 DEF TypeOK, LegJoins
  <2>2. CASE LegLeaves(l)
    BY <2>2 DEF TypeOK, LegLeaves
  <2>3. CASE LegGone(l)
    BY <2>3 DEF TypeOK, LegGone, DoorInConf
  <2>4. QED
    BY <1>3, <2>1, <2>2, <2>3 DEF ConfThread
<1>4. CASE People
  <2>1. CASE DoorHangup
    BY <2>1 DEF TypeOK, DoorHangup
  <2>2. ASSUME NEW l \in Legs, DeviceAnswers(l) \/ DeviceFails(l) \/ DeviceHangup(l)
        PROVE  TypeOK'
    BY <2>2 DEF TypeOK, DeviceAnswers, DeviceFails, DeviceHangup
  <2>3. QED
    BY <1>4, <2>1, <2>2 DEF People
<1>5. ASSUME NEW t \in Targets, Reregister(t) PROVE TypeOK'
  BY <1>5 DEF TypeOK, Reregister, Registrations
<1>6. CASE UNCHANGED vars
  BY <1>6 DEF TypeOK, vars
<1>7. QED
  BY <1>1, <1>2, <1>3, <1>4, <1>5, <1>6 DEF Next, Finished

LEMMA LockWinnerNext == IInv /\ [Next]_vars => LockInv' /\ WinnerInv'
<1> SUFFICES ASSUME IInv, [Next]_vars PROVE LockInv' /\ WinnerInv'
  OBVIOUS
<1> USE DEF IInv, LockInv, WinnerInv, Winning, doorVars, shared, legVars,
            OnlyDoor, OnlyRing, OnlyConf
<1>1. ASSUME NEW l \in Legs, WinLock(l) PROVE LockInv' /\ WinnerInv'
  BY <1>1, NoLegIsNone DEF TypeOK, WinLock, WinnerSeen, LockFree
<1>2. ASSUME NEW l \in Legs, WinTake(l) PROVE LockInv' /\ WinnerInv'
  BY <1>2, NoLegIsNone DEF TypeOK, WinTake
<1>3. ASSUME NEW l \in Legs, WinLost(l) \/ DeviceHangup(l)
      PROVE  LockInv' /\ WinnerInv'
  BY <1>3, NoLegIsNone DEF TypeOK, WinLost, DeviceHangup
<1>4. ASSUME NEW l \in Legs,
             WinTell(l) \/ WinList(l) \/ WinKick(l) \/ WinDone(l)
      PROVE  LockInv' /\ WinnerInv'
  BY <1>4 DEF TypeOK, WinTell, WinList, WinDone, WinKick
<1>5. ASSUME NEW l \in Legs,
             \/ LegUnknown(l) \/ LegStart(l) \/ LegPoll(l) \/ LegDial(l)
             \/ DeviceAnswers(l) \/ DeviceFails(l) \/ DialTimeout(l)
             \/ LegFailsLate(l) \/ LegFails(l) \/ LegKicksDoor(l) \/ LegHangup(l)
      PROVE  LockInv' /\ WinnerInv'
  BY <1>5 DEF TypeOK, LegUnknown, LegStart, LegPoll, LegDial, DeviceAnswers,
              DeviceFails, DialTimeout, LegFailsLate, LegFails, LegKicksDoor,
              LegHangup
<1>6. ASSUME NEW l \in Legs, ConfThread(l) PROVE LockInv' /\ WinnerInv'
  BY <1>6 DEF ConfThread, LegJoins, LegLeaves, LegGone
<1>7. CASE DoorOriginate
  BY <1>7 DEF TypeOK, DoorOriginate
<1>8. CASE DoorHangup \/ (DoorThread /\ ~DoorOriginate)
  BY <1>8 DEF DoorThread, DoorCount, DoorRings, DoorKickedOut, DoorRingTimeout,
              DoorLeavesRinging, DoorGivesUp, DoorAnswers, DoorRejoins,
              DoorKickedFromTalk, DoorCleanup, DoorHangup
<1>9. ASSUME NEW t \in Targets, Reregister(t) PROVE LockInv' /\ WinnerInv'
  BY <1>9 DEF Reregister
<1>10. CASE UNCHANGED vars
  BY <1>10 DEF vars
<1>11. QED
  BY <1>1, <1>2, <1>3, <1>4, <1>5, <1>6, <1>7, <1>8, <1>9, <1>10
  DEF Next, RingThread, People, Finished

\* Type correctness, and with it the invariant that the other results use.
THEOREM Invariance == Spec => []IInv
<1>1. IInv /\ [Next]_vars => IInv'
  BY TypeNext, LockWinnerNext DEF IInv
<1>2. QED
  BY InitIInv, <1>1, PTL DEF Spec

\* Every reachable state is of the type the model declares.
THEOREM TypeCorrect == Spec => []TypeOK
BY Invariance, PTL DEF IInv

\* No device but the winner is ever unmuted towards a living door
\* ([haphone-door-win]: LOCK, DOOR_WINNER, FRAME_DROP).
THEOREM Safety == Spec => []OnlyWinnerHeard
<1>1. IInv => OnlyWinnerHeard
  BY DEF IInv, WinnerInv, OnlyWinnerHeard, Winning, Unmuted
<1>2. QED
  BY Invariance, <1>1, PTL

-----------------------------------------------------------------------------
(* The fanout implements DoorCall. *)

CallHeard == {l \in Legs : ring[l] \in Unmuted /\ conf[l] = "in" /\ DoorInConf}
CallOver == door \in {"noanswer", "out", "gone"}

\* Only the winner is heard, and nobody once the door is out.
LEMMA HeardByWinner ==
  ASSUME TypeOK, WinnerInv
  PROVE  /\ CallHeard \in SUBSET {d \in Legs : d = winner}
         /\ CallOver => CallHeard = {}
BY DEF TypeOK, WinnerInv, Winning, Unmuted, CallHeard, CallOver, DoorInConf

\* Every step of the fanout is a step of DoorCall or leaves it unchanged.
LEMMA CallStep == IInv /\ IInv' /\ [Next]_vars => [Call!Next]_(Call!vars)
<1> SUFFICES ASSUME IInv, IInv', [Next]_vars PROVE [Call!Next]_(Call!vars)
  OBVIOUS
<1>h. /\ CallHeard \in SUBSET {d \in Legs : d = winner}
      /\ CallOver => CallHeard = {}
      /\ CallHeard' \in SUBSET {d \in Legs : d = winner'}
      /\ CallOver' => CallHeard' = {}
  BY HeardByWinner DEF IInv, TypeOK, WinnerInv, Winning, Unmuted, CallHeard,
                       CallOver, DoorInConf
\* A step that leaves winner, answered and over alone is Hear.
<1>s. ASSUME winner' = winner, answered' = answered, CallOver' = CallOver
      PROVE  [Call!Next]_(Call!vars)
  BY <1>s, <1>h DEF Call!Next, Call!Hear, CallHeard, CallOver
<1>1. ASSUME NEW l \in Legs, RingThread(l), ~WinTake(l)
      PROVE  [Call!Next]_(Call!vars)
  <2>1. winner' = winner /\ answered' = answered /\ door' = door
    BY <1>1 DEF RingThread, LegUnknown, LegStart, LegPoll, LegDial, DialTimeout,
                LegFailsLate, LegFails, LegKicksDoor, LegHangup, WinLock,
                WinLost, WinTell, WinList, WinKick, WinDone, OnlyRing, doorVars,
                shared
  <2>2. QED
    BY <2>1, <1>s DEF CallOver
<1>2. ASSUME NEW l \in Legs, WinTake(l) PROVE [Call!Next]_(Call!vars)
  <2>1. CallHeard' = CallHeard
    BY <1>2 DEF WinTake, CallHeard, Unmuted, DoorInConf, IInv, TypeOK, oneVars,
                doorVars
  <2>2. CASE door = "gone"
    BY <1>2, <2>2, <1>s DEF WinTake, CallOver, doorVars
  <2>3. CASE door # "gone"
    BY <1>2, <2>1, <2>3 DEF WinTake, IInv, LockInv, Call!Next, Call!Take,
                            CallHeard, doorVars
  <2>4. QED
    BY <2>2, <2>3
<1>3. ASSUME NEW l \in Legs, ConfThread(l) PROVE [Call!Next]_(Call!vars)
  BY <1>3, <1>s DEF ConfThread, LegJoins, LegLeaves, LegGone, OnlyConf,
                    doorVars, shared, CallOver
<1>4. CASE DoorAnswers
  BY <1>4, <1>h DEF DoorAnswers, WinnerKnown, OnlyDoor, Call!Next, Call!Answer,
                    CallHeard, CallOver, DoorInConf, shared, oneVars
<1>5. CASE DoorGivesUp \/ DoorKickedFromTalk \/ DoorHangup
  BY <1>5, <1>h DEF DoorGivesUp, DoorKickedFromTalk, DoorHangup, OnlyDoor,
                    shared, Call!Next, Call!End, CallHeard, CallOver
<1>6. CASE \/ DoorCount \/ DoorOriginate \/ DoorRings \/ DoorKickedOut
           \/ DoorRingTimeout \/ DoorRejoins \/ DoorCleanup
  BY <1>6, <1>s DEF DoorCount, DoorOriginate, DoorRings, DoorKickedOut,
                    DoorRingTimeout, DoorLeavesRinging, DoorRejoins,
                    DoorCleanup, OnlyDoor, shared, CallOver
<1>7. ASSUME NEW l \in Legs, DeviceAnswers(l) \/ DeviceFails(l) \/ DeviceHangup(l)
      PROVE  [Call!Next]_(Call!vars)
  BY <1>7, <1>s DEF DeviceAnswers, DeviceFails, DeviceHangup, OnlyRing, doorVars,
                    shared, CallOver
<1>8. ASSUME NEW t \in Targets, Reregister(t) PROVE [Call!Next]_(Call!vars)
  BY <1>8, <1>s DEF Reregister, doorVars, shared, CallOver
<1>9. CASE UNCHANGED vars
  BY <1>9, <1>s DEF vars, doorVars, shared, CallOver
<1>10. QED
  BY <1>1, <1>2, <1>3, <1>4, <1>5, <1>6, <1>7, <1>8, <1>9
  DEF Next, DoorThread, People, Finished

\* The fanout keeps the promise of DoorCall: at most one device takes the
\* call, the door hears no other one and is answered only for it.
THEOREM Implementation == Spec => CallSpec
<1>1. Init => Call!Init
  BY DEF Init, Call!Init, Unmuted
<1>2. QED
  BY <1>1, CallStep, Invariance, PTL DEF Spec, CallSpec, Call!Spec

-----------------------------------------------------------------------------
(* The count of the legs, as long as no registration has changed. *)

\* The counted legs that have not failed for good.
Pending == {l \in Counted : ring[l] \notin {"ended", "kickdoor"}}
Originated == \E l \in Legs : ring[l] # "none"

\* DOOR_LEGS never falls below the number of legs that may still be answered:
\* legs that end without counting down only make it larger than that.
CountFacts ==
  /\ \A l \in Legs : ring[l] # "none" => l \in Counted
  /\ door = "count" => ~Originated
  /\ door = "originate" => \A l \in Legs : l[1] >= i => ring[l] = "none"
  /\ (door = "originate" \/ Originated) /\ door # "gone"
        => doorLegs >= Cardinality(Pending)
  /\ \A l \in Legs : ring[l] = "kickdoor" /\ door # "gone" => doorLegs <= 0

CountInv == changes = 0 => CountFacts

LEMMA CountedLegs ==
  ASSUME TypeOK
  PROVE  /\ Counted \in SUBSET Legs
         /\ \A t \in Targets : LegsOf(t) \in SUBSET Counted
<1>1. ASSUME NEW t \in Targets PROVE LegsOf(t) \in SUBSET Legs
  <2>1. contacts[t] \in 0 .. MaxContacts
    BY DEF TypeOK
  <2>2. QED
    BY <2>1, MaxContactsAssumption DEF LegsOf, Legs
<1>2. QED
  BY <1>1 DEF Counted

LEMMA PendingType ==
  ASSUME TypeOK
  PROVE  IsFiniteSet(Pending) /\ Cardinality(Pending) \in Nat
BY CountedLegs, FiniteLegs, FS_Subset, FS_CardinalityType DEF Pending

\* A step after which still no registration has changed.
LEMMA CountedConstant ==
  ASSUME TypeOK, [Next]_vars, changes' = 0
  PROVE  changes = 0 /\ Counted' = Counted
<1>1. contacts' = contacts /\ changes = 0
  <2>1. ASSUME NEW t \in Targets PROVE ~Reregister(t)
    BY DEF TypeOK, Reregister
  <2>2. QED
    BY <2>1 DEF Next, DoorThread, RingThread, ConfThread, People, Finished, vars,
      regVars, DoorCount, DoorOriginate, DoorRings, DoorKickedOut,
      DoorRingTimeout, DoorLeavesRinging, DoorGivesUp, DoorAnswers, DoorRejoins,
      DoorKickedFromTalk, DoorCleanup, DoorHangup, LegUnknown, LegStart, LegPoll,
      LegDial, DialTimeout, LegFailsLate, LegFails, LegKicksDoor, LegHangup,
      WinLock, WinTake, WinLost, WinTell, WinList, WinKick, WinDone,
      DeviceAnswers, DeviceFails, DeviceHangup, LegJoins, LegLeaves, LegGone,
      OnlyDoor, OnlyRing, OnlyConf
<1>2. QED
  BY <1>1 DEF Counted, LegsOf

\* A step that leaves DOOR_LEGS alone and revives no leg keeps CountFacts.
LEMMA CountKept ==
  ASSUME TypeOK, TypeOK', CountFacts, Counted' = Counted, doorLegs' = doorLegs,
         \A l \in Legs : ring'[l] # "none" => ring[l] # "none" \/ l \in Counted,
         Originated' => Originated \/ door = "originate",
         \A l \in Legs : ring'[l] = "kickdoor" => ring[l] = "kickdoor",
         \A l \in Legs : ring[l] \in {"ended", "kickdoor"}
                            => ring'[l] \in {"ended", "kickdoor"},
         door' = "count" => door = "count",
         door' = "originate" =>
            /\ door = "originate"
            /\ \A l \in Legs : l[1] >= i' => ring'[l] = "none",
         door = "gone" => door' = "gone"
  PROVE  CountFacts'
<1>1. Pending' \in SUBSET Pending
  BY CountedLegs DEF Pending
<1>2. Cardinality(Pending') <= Cardinality(Pending)
  BY <1>1, PendingType, FS_Subset
<1>3. Cardinality(Pending) \in Nat /\ Cardinality(Pending') \in Nat
  BY <1>1, PendingType, FS_Subset, FS_CardinalityType
<1>4. doorLegs \in Int
  BY DEF TypeOK
<1>5. (door' = "originate" \/ Originated') /\ door' # "gone"
         => doorLegs' >= Cardinality(Pending')
  BY <1>2, <1>3, <1>4 DEF CountFacts
<1>6. door' = "count" => ~Originated'
  BY DEF CountFacts
<1>7. QED
  BY <1>5, <1>6 DEF CountFacts

LEMMA CountNext ==
  ASSUME TypeOK, TypeOK', CountInv, [Next]_vars
  PROVE  CountInv'
<1> SUFFICES ASSUME changes' = 0 PROVE CountFacts'
  BY DEF CountInv
<1>c. CountFacts /\ Counted' = Counted
  BY CountedConstant DEF CountInv
<1> USE <1>c DEF regVars, doorVars, shared, legVars, oneVars, kickVars, OnlyDoor,
            OnlyRing, OnlyConf
<1>1. CASE DoorCount
  <2>1. Pending' = Counted
    BY <1>1, CountedLegs DEF DoorCount, CountFacts, Originated, Pending
  <2>2. \A l \in Legs : ring'[l] = "none"
    BY <1>1 DEF DoorCount, CountFacts, Originated
  <2>3. Cardinality(Counted) \in Nat
    BY CountedType
  <2>4. doorLegs' >= Cardinality(Pending')
    BY <1>1, <2>1, <2>3 DEF DoorCount
  <2>5. QED
    BY <1>1, <2>2, <2>4 DEF DoorCount, CountFacts, Originated
<1>2. CASE DoorOriginate
  <2>1. i \in Targets
    BY <1>2, NAssumption DEF DoorOriginate, TypeOK, Targets
  <2>2. \A l \in LegsOf(i) : l \in Legs /\ l \in Counted /\ l[1] = i
    <3>1. LegsOf(i) \in SUBSET Counted /\ Counted \in SUBSET Legs
      BY <2>1, CountedLegs
    <3>2. \A l \in LegsOf(i) : l[1] = i
      BY DEF LegsOf
    <3>3. QED
      BY <3>1, <3>2
  <2>3. \A l \in Legs : l[1] \in Nat /\ (l[1] >= i + 1 => l[1] >= i /\ l[1] # i)
    BY <2>1 DEF Legs, Targets
  <2>4. \A l \in Legs : l[1] >= i' => ring'[l] = "none"
    BY <1>2, <2>2, <2>3 DEF DoorOriginate, CountFacts
  <2>5. \A l \in Legs : ring[l] \in {"ended", "kickdoor"} => l \notin LegsOf(i)
    BY <1>2, <2>1, <2>2 DEF DoorOriginate, CountFacts, Targets
  <2>6. QED
    BY <1>2, <2>2, <2>4, <2>5, CountKept DEF DoorOriginate
<1>3. ASSUME NEW l \in Legs, LegFails(l) PROVE CountFacts'
  <2>1. /\ ring[l] = "failed" /\ ring' = [ring EXCEPT ![l] = ring'[l]]
        /\ ring'[l] \in {"kickdoor", "ended"}
        /\ ring'[l] = "kickdoor" => doorLegs' <= 0
        /\ doorLegs' = doorLegs - 1
        /\ door' = door /\ i' = i /\ door # "gone" /\ door # "count"
    BY <1>3 DEF LegFails, TypeOK, CountFacts, Originated
  <2>2. l \in Pending /\ Pending' = Pending \ {l}
    BY <2>1, CountedLegs DEF Pending, CountFacts, TypeOK
  <2>3. Cardinality(Pending') = Cardinality(Pending) - 1
    BY <2>2, PendingType, FS_RemoveElement
  <2>4. Originated /\ doorLegs >= Cardinality(Pending) /\ doorLegs \in Int
    BY <2>1 DEF CountFacts, Originated, TypeOK
  <2>5. doorLegs' >= Cardinality(Pending')
    BY <2>1, <2>3, <2>4, PendingType
  <2>6. \A m \in Legs : ring'[m] = "kickdoor" => doorLegs' <= 0
    BY <2>1, <2>4 DEF CountFacts, TypeOK
  <2>7. \A m \in Legs : /\ ring'[m] # "none" => m \in Counted
                        /\ ring'[m] = "none" <=> ring[m] = "none"
    BY <2>1 DEF CountFacts, TypeOK
  <2>8. QED
    BY <2>1, <2>5, <2>6, <2>7 DEF CountFacts
<1>4. ASSUME NEW l \in Legs, RingThread(l), ~LegFails(l) PROVE CountFacts'
  <2>1. /\ ring' = [ring EXCEPT ![l] = ring'[l]]
        /\ ring'[l] # "kickdoor"
        /\ ring'[l] # "none"
        /\ ring[l] # "none" /\ ring[l] # "ended"
        /\ ring[l] = "kickdoor" => ring'[l] = "ended"
        /\ doorLegs' = doorLegs /\ door' = door /\ i' = i
    BY <1>4 DEF TypeOK, RingThread, LegUnknown, LegStart, LegPoll, LegDial,
      DialTimeout, LegFailsLate, LegFails, LegKicksDoor, LegHangup, WinLock,
      WinTake, WinLost, WinTell, WinList, WinKick, WinDone
  <2>2. QED
    BY <2>1, CountKept DEF TypeOK, CountFacts, Originated
<1>5. ASSUME NEW l \in Legs,
             DeviceAnswers(l) \/ DeviceFails(l) \/ DeviceHangup(l)
      PROVE  CountFacts'
  <2>1. /\ ring' = [ring EXCEPT ![l] = ring'[l]]
        /\ ring'[l] \notin {"kickdoor", "none"}
        /\ ring[l] \notin {"none", "ended", "kickdoor"}
        /\ doorLegs' = doorLegs /\ door' = door /\ i' = i
    BY <1>5 DEF TypeOK, DeviceAnswers, DeviceFails, DeviceHangup, InWinRoutine
  <2>2. QED
    BY <2>1, CountKept DEF TypeOK, CountFacts, Originated
<1>6. ASSUME NEW l \in Legs, ConfThread(l) PROVE CountFacts'
  <2>1. ring' = ring /\ doorLegs' = doorLegs /\ door' = door /\ i' = i
    BY <1>6 DEF ConfThread, LegJoins, LegLeaves, LegGone
  <2>2. QED
    BY <2>1, CountKept DEF CountFacts, Originated
<1>7. CASE DoorHangup \/ (DoorThread /\ ~DoorCount /\ ~DoorOriginate)
  <2>1. /\ ring' = ring /\ doorLegs' = doorLegs
        /\ door' \notin {"count", "originate"} /\ door # "gone"
    BY <1>7 DEF DoorThread, DoorRings, DoorKickedOut, DoorRingTimeout,
      DoorLeavesRinging, DoorGivesUp, DoorAnswers, DoorRejoins,
      DoorKickedFromTalk, DoorCleanup, DoorHangup
  <2>2. QED
    BY <2>1, CountKept DEF Originated
<1>8. CASE UNCHANGED vars
  BY <1>8 DEF vars, CountFacts, Originated, Pending, Counted, LegsOf
<1>9. ASSUME NEW t \in Targets PROVE ~Reregister(t)
  BY DEF TypeOK, Reregister
<1>10. QED
  BY <1>1, <1>2, <1>3, <1>4, <1>5, <1>6, <1>7, <1>8, <1>9
  DEF Next, People, Finished

\* As long as no registration changes, the door's ringing is ended for want of
\* devices only when no leg can be answered any more: the count of the legs is
\* final before the first leg can fail ([haphone-door-fanout], [haphone-door-ring]).
THEOREM LastLeg == Spec => []LastLegEndsRinging
<1>1. Init => CountInv
  BY DEF Init, CountInv, CountFacts, Originated
<1>2. IInv /\ IInv' /\ CountInv /\ [Next]_vars => CountInv'
  BY CountNext DEF IInv
<1>3. IInv /\ CountInv => LastLegEndsRinging
  <2> SUFFICES ASSUME TypeOK, CountFacts, NEW l \in Legs, ring[l] = "kickdoor",
                      door # "gone", NEW m \in Legs
               PROVE  ring[m] \in {"none", "failed", "kickdoor", "ended"}
    BY DEF IInv, CountInv, LastLegEndsRinging
  <2>1. Cardinality(Pending) = 0
    BY PendingType DEF CountFacts, Originated, TypeOK
  <2>2. Pending = {}
    BY <2>1, PendingType, FS_EmptySet
  <2>3. QED
    BY <2>2 DEF Pending, CountFacts
<1>4. QED
  BY <1>1, <1>2, <1>3, Invariance, PTL DEF Spec

=============================================================================
