------------------------ MODULE DoorbellHistoryProofs ------------------------
(***************************************************************************)
(* For any number of calls, doors, devices and faults: no row is credited  *)
(* with another ring's answer, end or picture, the history is complete     *)
(* once the listener has caught up, and the pictures of a ring with time   *)
(* left are kept warm.                                                     *)
(*                                                                         *)
(* What a row says is carried by three things: the events still waiting,   *)
(* the listener's entry for the call, and the picture task.  An id that is *)
(* handed out again while one of the last two means it is in "reused".     *)
(***************************************************************************)
EXTENDS DoorbellHistory, FiniteSetTheorems, SequenceTheorems, WellFoundedInduction, TLAPS

Event(kind, c) == [kind |-> kind, call |-> c]
Waiting == {queue[i] : i \in 1 .. Len(queue)}

\* Each event of a call waits once, and in the order of the call's life.
InOrder ==
  \A i, j \in 1 .. Len(queue) :
    i < j /\ queue[i].call = queue[j].call =>
      /\ queue[i] # queue[j] /\ queue[i].kind # "Hangup" /\ queue[j].kind # "Newchannel"

\* An event tells what has happened.
Happened ==
  /\ \A e \in Waiting :
       /\ pbx[e.call].state # "none"
       /\ e.kind = "Answered" => pbx[e.call].state \in {"answered", "over"}
       /\ e.kind = "Hangup" => pbx[e.call].state = "over"
  /\ \A c \in Calls : pbx[c].state \in {"none", "ringing"} => pbx[c].by = Nobody

\* The calls the listener has heard of, and more: each can have had one row.
Heard == {c \in Calls : pbx[c].state # "none" /\ Event("Newchannel", c) \notin Waiting}
OneRowEach ==
  \A id \in Present : id <= Cardinality(Heard) /\ rows[id].ring \in Heard

\* Who holds the id of a row is its own call.
OwnRows ==
  \A id \in Present \ reused, c \in Calls :
    eventOf[c] = id \/ (snap[c] # "none" /\ snapId[c] = id) => rows[id].ring = c

\* The file that a task is about to enter into its row is still the row's.
OwnPictures ==
  \A c \in Calls : snap[c] = "writing" /\ snapId[c] \in Present \ reused =>
    files[snapId[c]] \in {Nobody, rows[snapId[c]].ring}

\* Nothing has failed: what a row does not say yet is on its way to it.
Coming(id) ==
  LET row == rows[id]  c == row.ring IN
  /\ row.by # pbx[c].by => Event("Answered", c) \in Waiting
  /\ pbx[c].state = "over" /\ ~row.ended => Event("Hangup", c) \in Waiting
  /\ ~row.ended => eventOf[c] = id /\ active[c] # "untracked"
  /\ ~row.ended /\ (Event("Answered", c) \in Waiting \/ pbx[c].state = "ringing") =>
       active[c] = "ringing" /\ row.by = Nobody
  /\ row.ended => \A e \in Waiting : e.call # c
Complete ==
  faults = 0 =>
    /\ \A id \in Present \ reused : Coming(id)
    /\ \A c \in Calls : Event("Newchannel", c) \in Waiting =>
         /\ pbx[c].by # Nobody => Event("Answered", c) \in Waiting
         /\ pbx[c].state = "over" => Event("Hangup", c) \in Waiting

IInv == /\ TypeOK /\ InOrder /\ Happened /\ OneRowEach
        /\ OwnRows /\ OwnPictures /\ RowTellsOwnRing /\ Complete /\ WarmWhileRinging

-----------------------------------------------------------------------------
(* The queue.                                                              *)

LEMMA EventFacts ==
  ASSUME NEW kind, NEW c
  PROVE  Event(kind, c).kind = kind /\ Event(kind, c).call = c
BY DEF Event

\* An event that is sent is the last one.
LEMMA SendFacts ==
  ASSUME TypeOK, NEW kind \in {"Newchannel", "Answered", "Hangup"}, NEW c \in Calls, Send(kind, c)
  PROVE  /\ queue' \in Seq(Events) /\ Len(queue') = Len(queue) + 1 /\ Len(queue) \in Nat
         /\ \A i \in 1 .. Len(queue) : queue'[i] = queue[i]
         /\ queue'[Len(queue) + 1] = Event(kind, c)
         /\ Waiting' = Waiting \cup {Event(kind, c)}
<1>1. Event(kind, c) \in Events /\ queue \in Seq(Events) /\ queue' = Append(queue, Event(kind, c))
  BY DEF Event, Events, TypeOK, Send
<1>2. /\ queue' \in Seq(Events) /\ Len(queue') = Len(queue) + 1 /\ Len(queue) \in Nat
      /\ \A i \in 1 .. Len(queue) : queue'[i] = queue[i]
      /\ queue'[Len(queue) + 1] = Event(kind, c)
  BY <1>1, AppendProperties, LenProperties
<1>3. Waiting' = Waiting \cup {Event(kind, c)}
  <2>1. \A i \in 1 .. Len(queue') : i \in 1 .. Len(queue) \/ i = Len(queue) + 1
    BY <1>2
  <2>2. \A i : i \in 1 .. Len(queue) \/ i = Len(queue) + 1 => i \in 1 .. Len(queue')
    BY <1>2
  <2>3. QED
    BY <1>2, <2>1, <2>2 DEF Waiting
<1>4. QED
  BY <1>2, <1>3

\* The event that is taken was the first one, and waits no longer.
LEMMA TakeFacts ==
  ASSUME TypeOK, InOrder, NEW kind, NEW c, NextEvent(kind, c), Take
  PROVE  /\ queue' \in Seq(Events) /\ Len(queue') \in Nat /\ Len(queue) = Len(queue') + 1
         /\ queue[1] = Event(kind, c)
         /\ \A i \in 1 .. Len(queue') : queue'[i] = queue[i + 1]
         /\ Event(kind, c) \in Waiting
         /\ Waiting' = Waiting \ {Event(kind, c)}
<1>1. queue \in Seq(Events) /\ queue # <<>> /\ Head(queue) = Event(kind, c) /\ queue' = Tail(queue)
  BY DEF NextEvent, Take, TypeOK, Event
<1>2. /\ queue' \in Seq(Events) /\ Len(queue') = Len(queue) - 1
      /\ \A i \in 1 .. Len(queue') : queue'[i] = queue[i + 1]
      /\ Len(queue) \in Nat /\ Len(queue) > 0 /\ queue[1] = Event(kind, c)
  BY <1>1, HeadTailProperties, EmptySeq, LenProperties
<1>3. 1 \in 1 .. Len(queue)
  BY <1>2
<1>4. Event(kind, c) \in Waiting
  BY <1>2, <1>3 DEF Waiting
<1>5. \A i \in 1 .. Len(queue') : i + 1 \in 1 .. Len(queue) /\ 1 < i + 1
  BY <1>2
<1>6. \A j \in 2 .. Len(queue) : queue[j] # Event(kind, c)
  BY <1>2, <1>3 DEF InOrder
<1>7. Waiting' = Waiting \ {Event(kind, c)}
  <2>1. ASSUME NEW e \in Waiting' PROVE e \in Waiting \ {Event(kind, c)}
    <3>1. PICK i \in 1 .. Len(queue') : e = queue'[i]
      BY <2>1 DEF Waiting
    <3>2. e = queue[i + 1] /\ i + 1 \in 1 .. Len(queue) /\ i + 1 \in 2 .. Len(queue)
      BY <1>2, <1>5, <3>1
    <3>3. QED
      BY <1>6, <3>2 DEF Waiting
  <2>2. ASSUME NEW e \in Waiting, e # Event(kind, c) PROVE e \in Waiting'
    <3>1. PICK j \in 1 .. Len(queue) : e = queue[j]
      BY <2>2 DEF Waiting
    <3>2. j # 1
      BY <1>2, <2>2, <3>1
    <3>3. j - 1 \in 1 .. Len(queue') /\ (j - 1) + 1 = j
      BY <1>2, <3>2
    <3>4. queue'[j - 1] = e
      BY <1>2, <3>1, <3>3
    <3>5. QED
      BY <3>3, <3>4 DEF Waiting
  <2>3. QED
    BY <2>1, <2>2
<1>8. QED
  BY <1>2, <1>4, <1>7

\* The end of a call is its last event.
LEMMA HangupLast ==
  ASSUME TypeOK, InOrder, NEW c, NextEvent("Hangup", c), Take
  PROVE  \A e \in Waiting' : e.call # c
<1>1. /\ Len(queue') \in Nat /\ Len(queue) = Len(queue') + 1 /\ queue[1] = Event("Hangup", c)
      /\ \A i \in 1 .. Len(queue') : queue'[i] = queue[i + 1]
  BY TakeFacts
<1>2. ASSUME NEW i \in 1 .. Len(queue') PROVE queue'[i].call # c
  <2>1. 1 \in 1 .. Len(queue) /\ i + 1 \in 1 .. Len(queue) /\ 1 < i + 1
    BY <1>1
  <2>2. queue[1].call = c /\ queue[1].kind = "Hangup"
    BY <1>1, EventFacts
  <2>3. queue[i + 1].call # c
    BY <2>1, <2>2 DEF InOrder
  <2>4. QED
    BY <1>1, <2>3
<1>3. QED
  BY <1>2 DEF Waiting

LEMMA TakeInOrder ==
  ASSUME TypeOK, InOrder, NEW kind, NEW c, NextEvent(kind, c), Take
  PROVE  InOrder'
<1>1. /\ Len(queue') \in Nat /\ Len(queue) = Len(queue') + 1
      /\ \A i \in 1 .. Len(queue') : queue'[i] = queue[i + 1]
  BY TakeFacts
<1>2. \A i \in 1 .. Len(queue') : i + 1 \in 1 .. Len(queue)
  BY <1>1
<1>3. \A i, j \in 1 .. Len(queue') : i < j => i + 1 < j + 1
  BY <1>1
<1>4. QED
  BY <1>1, <1>2, <1>3 DEF InOrder

LEMMA SendInOrder ==
  ASSUME TypeOK, InOrder, NEW kind \in {"Newchannel", "Answered", "Hangup"}, NEW c \in Calls,
         Send(kind, c), Event(kind, c) \notin Waiting,
         \A e \in Waiting : e.call = c => e.kind # "Hangup" /\ kind # "Newchannel"
  PROVE  InOrder'
<1>1. /\ Len(queue') = Len(queue) + 1 /\ Len(queue) \in Nat
      /\ \A i \in 1 .. Len(queue) : queue'[i] = queue[i]
      /\ queue'[Len(queue) + 1] = Event(kind, c)
  BY SendFacts
<1>2. \A i \in 1 .. Len(queue) : queue[i] \in Waiting
  BY DEF Waiting
<1>3. ASSUME NEW i \in 1 .. Len(queue'), NEW j \in 1 .. Len(queue'), i < j,
             queue'[i].call = queue'[j].call
      PROVE  queue'[i] # queue'[j] /\ queue'[i].kind # "Hangup" /\ queue'[j].kind # "Newchannel"
  <2>1. i \in 1 .. Len(queue)
    BY <1>1, <1>3
  <2>2. CASE j \in 1 .. Len(queue)
    BY <1>1, <1>3, <2>1, <2>2 DEF InOrder
  <2>3. CASE j = Len(queue) + 1
    <3>1. queue'[j] = Event(kind, c) /\ queue'[i] = queue[i] /\ queue[i] \in Waiting
      BY <1>1, <1>2, <2>1, <2>3
    <3>2. queue'[j].call = c /\ queue'[j].kind = kind
      BY <3>1, EventFacts
    <3>3. QED
      BY <1>3, <3>1, <3>2
  <2>4. QED
    BY <1>1, <2>2, <2>3
<1>4. QED
  BY <1>3 DEF InOrder

\* Once it is empty nothing waits.
LEMMA EmptyQueue ==
  ASSUME queue = <<>>
  PROVE  Waiting = {} /\ InOrder
<1>1. 1 .. Len(queue) = {}
  BY EmptySeq
<1>2. QED
  BY <1>1 DEF Waiting, InOrder

-----------------------------------------------------------------------------
(* Ids.                                                                    *)

\* A bounded set of numbers has a largest one.
LEMMA LargestId ==
  ASSUME NEW S, NEW n \in Nat, S \subseteq 1 .. n, S # {}
  PROVE  Max(S) \in S /\ \A y \in S : Max(S) >= y
<1>. DEFINE T == {n - x : x \in S}
<1>1. T \subseteq Nat /\ T # {}
  <2>1. \A x \in S : n - x \in Nat
    OBVIOUS
  <2>2. QED
    BY <2>1
<1>2. PICK m \in T : \A y \in T : ~(<<y, m>> \in OpToRel(<, Nat))
  BY <1>1, WFMin, NatLessThanWellFounded
<1>3. \A y \in T : ~(y < m)
  BY <1>1, <1>2 DEF OpToRel
<1>4. PICK x \in S : m = n - x
  OBVIOUS
<1>5. \A y \in S : x >= y
  BY <1>3, <1>4
<1>6. QED
  BY <1>4, <1>5 DEF Max

LEMMA RowFacts ==
  ASSUME TypeOK
  PROVE  \A id \in Present : id \in Ids /\ rows[id] \in Rows
BY DEF TypeOK, Present

\* The id of a new row is new, and no larger than the number of calls heard of.
LEMMA NewIdFacts ==
  ASSUME TypeOK, OneRowEach
  PROVE  /\ NewId \in Nat \ {0} /\ NewId \notin Present
         /\ IsFiniteSet(Heard) /\ NewId <= Cardinality(Heard) + 1
<1>1. IsFiniteSet(Heard) /\ Cardinality(Heard) \in Nat /\ Cardinality(Calls) \in Nat
  BY CallsAssumption, FS_Subset, FS_CardinalityType DEF Heard
<1>2. CASE Present = {}
  BY <1>1, <1>2 DEF NewId
<1>3. CASE Present # {}
  <2>1. Present \subseteq 1 .. Cardinality(Calls)
    BY DEF Present, Ids
  <2>2. Max(Present) \in Present /\ \A y \in Present : Max(Present) >= y
    BY <1>1, <1>3, <2>1, LargestId
  <2>. DEFINE m == Max(Present)
  <2>. HIDE DEF m
  <2>3. m \in Nat /\ m <= Cardinality(Heard)
    <3>1. m \in Present
      BY <2>2 DEF m
    <3>2. QED
      BY <1>1, <2>1, <3>1 DEF OneRowEach
  <2>4. NewId = m + 1
    BY <1>3 DEF NewId, m
  <2>5. \A y \in Present : m >= y
    BY <2>2 DEF m
  <2>6. QED
    BY <1>1, <2>1, <2>3, <2>4, <2>5
<1>4. QED
  BY <1>2, <1>3

-----------------------------------------------------------------------------
(* Asterisk.                                                               *)

LEMMA PbxKeeps ==
  ASSUME IInv, NEW kind \in {"Newchannel", "Answered", "Hangup"}, NEW c \in Calls,
         NEW to \in [state : {"none", "ringing", "answered", "over"},
                     door : Doors, by : Devices \cup {Nobody}],
         pbx' = [pbx EXCEPT ![c] = to], Send(kind, c),
         UNCHANGED <<faults, trackVars, storeVars, taskVars, warmVars>>,
         to.state # "none", pbx[c].state # "over",
         kind = "Newchannel" <=> pbx[c].state = "none",
         kind = "Newchannel" <=> to.state = "ringing",
         kind = "Answered" => pbx[c].state = "ringing" /\ to.state = "answered",
         kind = "Hangup" <=> to.state = "over",
         to.by = pbx[c].by \/ (kind = "Answered" /\ pbx[c].by = Nobody)
  PROVE  IInv'
<1>. USE DEF IInv
<1>1. /\ queue' \in Seq(Events)
      /\ Waiting' = Waiting \cup {Event(kind, c)}
  BY SendFacts
<1>2. /\ \A e \in Waiting : e.call = c => e.kind # "Hangup" /\ kind # "Newchannel"
      /\ Event(kind, c) \notin Waiting
  BY EventFacts DEF Happened
<1>3. /\ pbx'[c] = to /\ \A d \in Calls : d # c => pbx'[d] = pbx[d]
      /\ pbx' \in [Calls -> [state : {"none", "ringing", "answered", "over"},
                             door : Doors, by : Devices \cup {Nobody}]]
  BY DEF TypeOK
<1>4. /\ rows' = rows /\ files' = files /\ reused' = reused /\ active' = active
      /\ eventOf' = eventOf /\ snap' = snap /\ snapId' = snapId /\ deleting' = deleting
      /\ warm' = warm /\ overdue' = overdue /\ warmTask' = warmTask /\ faults' = faults
      /\ Present' = Present
  BY DEF trackVars, storeVars, taskVars, warmVars, Present
<1>5. TypeOK'
  BY <1>1, <1>3, <1>4 DEF TypeOK
<1>6. InOrder'
  BY <1>2, SendInOrder
<1>7. Happened'
  <2>1. \A e \in Waiting : e \in Events
    BY LenProperties DEF Waiting, TypeOK
  <2>2. ASSUME NEW e \in Waiting'
        PROVE  /\ pbx'[e.call].state # "none"
               /\ e.kind = "Answered" => pbx'[e.call].state \in {"answered", "over"}
               /\ e.kind = "Hangup" => pbx'[e.call].state = "over"
    <3>1. CASE e = Event(kind, c)
      BY <1>3, <3>1, EventFacts
    <3>2. CASE e \in Waiting /\ e.call # c
      BY <1>3, <2>1, <3>2 DEF Happened, Events
    <3>3. CASE e \in Waiting /\ e.call = c
      BY <1>3, <3>3, <1>2 DEF Happened
    <3>4. QED
      BY <1>1, <3>1, <3>2, <3>3
  <2>3. \A d \in Calls : pbx'[d].state \in {"none", "ringing"} => pbx'[d].by = Nobody
    BY <1>3 DEF Happened
  <2>4. QED
    BY <2>2, <2>3 DEF Happened
<1>8. Heard' = Heard
  <2>1. \A d \in Calls : Event("Newchannel", d) = Event(kind, c) => d = c /\ kind = "Newchannel"
    BY EventFacts
  <2>2. ASSUME NEW d \in Calls
        PROVE  (pbx'[d].state # "none" /\ Event("Newchannel", d) \notin Waiting')
                 <=> (pbx[d].state # "none" /\ Event("Newchannel", d) \notin Waiting)
    <3>1. CASE d # c
      BY <1>1, <1>3, <2>1, <3>1
    <3>2. CASE d = c
      BY <1>1, <1>3, <2>1, <3>2
    <3>3. QED
      BY <3>1, <3>2
  <2>3. QED
    BY <2>2 DEF Heard
<1>9. OneRowEach' /\ OwnRows' /\ OwnPictures' /\ WarmWhileRinging'
  BY <1>4, <1>8 DEF OneRowEach, OwnRows, OwnPictures, WarmWhileRinging
<1>10. \A id \in Present : rows[id].ring \in Calls /\ rows[id].ring \in Heard
  BY RowFacts DEF OneRowEach, Rows
<1>11. RowTellsOwnRing'
  <2>1. ASSUME NEW id \in Present, id \notin reused
        PROVE  TrueToRing(id)'
    <3>1. TrueToRing(id)
      BY <2>1 DEF RowTellsOwnRing
    <3>2. Shown(id)' = Shown(id)
      BY <1>4 DEF Shown
    <3>3. CASE rows[id].ring = c
      BY <1>3, <1>4, <3>1, <3>2, <3>3 DEF TrueToRing
    <3>4. CASE rows[id].ring # c
      BY <1>3, <1>4, <1>10, <3>1, <3>2, <3>4 DEF TrueToRing
    <3>5. QED
      BY <3>3, <3>4
  <2>2. QED
    BY <1>4, <2>1 DEF RowTellsOwnRing
<1>12. Complete'
  <2>. SUFFICES ASSUME faults = 0
                PROVE  /\ \A id \in Present \ reused : Coming(id)'
                       /\ \A d \in Calls : Event("Newchannel", d) \in Waiting' =>
                            /\ pbx'[d].by # Nobody => Event("Answered", d) \in Waiting'
                            /\ pbx'[d].state = "over" => Event("Hangup", d) \in Waiting'
    BY <1>4 DEF Complete
  <2>1. ASSUME NEW id \in Present, id \notin reused
        PROVE  Coming(id)'
    <3>1. Coming(id) /\ TrueToRing(id)
      BY <2>1 DEF Complete, RowTellsOwnRing
    <3>2. \A d \in Calls, k \in {"Newchannel", "Answered", "Hangup"} :
            /\ Event(k, d) \in Waiting => Event(k, d) \in Waiting'
            /\ Event(k, d) \in Waiting' => Event(k, d) \in Waiting \/ (k = kind /\ d = c)
      BY <1>1, EventFacts
    <3>3. CASE rows[id].ring # c
      <4>1. \A e \in Waiting' : e.call = rows[id].ring => e \in Waiting
        BY <1>1, <3>3, EventFacts
      <4>2. QED
        BY <1>3, <1>4, <1>10, <3>1, <3>2, <3>3, <4>1 DEF Coming
    <3>4. CASE rows[id].ring = c
      <4>1. ~rows[id].ended /\ pbx[c].state # "none"
        BY <1>10, <3>1, <3>4 DEF TrueToRing, Heard
      <4>2. QED
        BY <1>1, <1>3, <1>4, <3>1, <3>2, <3>4, <4>1 DEF Coming
    <3>5. QED
      BY <3>3, <3>4
  <2>2. ASSUME NEW d \in Calls, Event("Newchannel", d) \in Waiting'
        PROVE  /\ pbx'[d].by # Nobody => Event("Answered", d) \in Waiting'
               /\ pbx'[d].state = "over" => Event("Hangup", d) \in Waiting'
    <3>1. CASE d # c
      <4>1. Event("Newchannel", d) \in Waiting
        BY <1>1, <2>2, <3>1, EventFacts
      <4>2. QED
        BY <1>1, <1>3, <3>1, <4>1 DEF Complete
    <3>2. CASE d = c /\ kind = "Newchannel"
      <4>1. to.by = Nobody /\ to.state # "over"
        BY <3>2 DEF Happened
      <4>2. QED
        BY <1>3, <3>2, <4>1
    <3>3. CASE d = c /\ kind # "Newchannel"
      <4>1. Event("Newchannel", d) \in Waiting
        BY <1>1, <2>2, <3>3, EventFacts
      <4>2. QED
        BY <1>1, <1>3, <3>3, <4>1 DEF Complete
    <3>4. QED
      BY <3>1, <3>2, <3>3
  <2>3. QED
    BY <2>1, <2>2
<1>13. QED
  BY <1>5, <1>6, <1>7, <1>9, <1>11, <1>12

LEMMA CallKeeps ==
  ASSUME IInv, NEW c \in Calls, DoorRings(c) \/ DeviceAnswers(c) \/ DoorHangsUp(c)
  PROVE  IInv'
<1>1. pbx[c] \in [state : {"none", "ringing", "answered", "over"},
                  door : Doors, by : Devices \cup {Nobody}]
  BY DEF IInv, TypeOK
<1>2. pbx[c].state \in {"none", "ringing"} => pbx[c].by = Nobody
  BY DEF IInv, Happened
<1>3. CASE DoorRings(c)
  <2>. DEFINE to == [pbx[c] EXCEPT !.state = "ringing"]
  <2>1. /\ to \in [state : {"none", "ringing", "answered", "over"},
                    door : Doors, by : Devices \cup {Nobody}]
        /\ to.state = "ringing" /\ to.by = pbx[c].by
    BY <1>1
  <2>2. /\ pbx[c].state = "none" /\ pbx' = [pbx EXCEPT ![c] = to] /\ Send("Newchannel", c)
        /\ UNCHANGED <<faults, trackVars, storeVars, taskVars, warmVars>>
    BY <1>3 DEF DoorRings, PbxStep
  <2>. HIDE DEF to
  <2>3. QED
    BY <1>2, <2>1, <2>2, PbxKeeps
<1>4. CASE DeviceAnswers(c)
  <2>1. PICK d \in Devices :
          PbxStep(c, {"ringing"}, [pbx[c] EXCEPT !.state = "answered", !.by = d])
    BY <1>4 DEF DeviceAnswers
  <2>. DEFINE to == [pbx[c] EXCEPT !.state = "answered", !.by = d]
  <2>2. /\ to \in [state : {"none", "ringing", "answered", "over"},
                    door : Doors, by : Devices \cup {Nobody}]
        /\ to.state = "answered"
    BY <1>1
  <2>3. /\ pbx[c].state = "ringing" /\ pbx' = [pbx EXCEPT ![c] = to] /\ Send("Answered", c)
        /\ UNCHANGED <<faults, trackVars, storeVars, taskVars, warmVars>>
    BY <1>4, <2>1 DEF DeviceAnswers, PbxStep
  <2>. HIDE DEF to
  <2>4. QED
    BY <1>2, <2>2, <2>3, PbxKeeps
<1>5. CASE DoorHangsUp(c)
  <2>. DEFINE to == [pbx[c] EXCEPT !.state = "over"]
  <2>1. /\ to \in [state : {"none", "ringing", "answered", "over"},
                    door : Doors, by : Devices \cup {Nobody}]
        /\ to.state = "over" /\ to.by = pbx[c].by
    BY <1>1
  <2>2. /\ pbx[c].state \in {"ringing", "answered"} /\ pbx' = [pbx EXCEPT ![c] = to]
        /\ Send("Hangup", c)
        /\ UNCHANGED <<faults, trackVars, storeVars, taskVars, warmVars>>
    BY <1>5 DEF DoorHangsUp, PbxStep
  <2>. HIDE DEF to
  <2>3. QED
    BY <1>2, <2>1, <2>2, PbxKeeps
<1>6. QED
  BY <1>3, <1>4, <1>5

LEMMA MoreHeard ==
  ASSUME OneRowEach, Heard \subseteq Heard', Present' \subseteq Present,
         \A id \in Present' : rows'[id].ring = rows[id].ring, TypeOK
  PROVE  OneRowEach'
<1>1. /\ IsFiniteSet(Heard) /\ IsFiniteSet(Heard')
      /\ Cardinality(Heard) \in Nat /\ Cardinality(Heard') \in Nat
  BY CallsAssumption, FS_Subset, FS_CardinalityType DEF Heard
<1>2. Cardinality(Heard) <= Cardinality(Heard')
  BY <1>1, FS_Subset
<1>3. \A id \in Present : id \in Nat /\ id <= Cardinality(Heard) /\ rows[id].ring \in Heard
  BY DEF OneRowEach, Present, Ids
<1>. DEFINE a == Cardinality(Heard)
            b == Cardinality(Heard')
<1>4. a \in Nat /\ b \in Nat /\ a <= b /\ \A id \in Present : id \in Nat /\ id <= a
  BY <1>1, <1>2, <1>3
<1>. HIDE DEF a, b
<1>5. \A id \in Present' : id <= b /\ rows'[id].ring \in Heard'
  BY <1>3, <1>4
<1>6. QED
  BY <1>5 DEF OneRowEach, b

LEMMA AsteriskKeeps ==
  ASSUME IInv, AsteriskRestarts
  PROVE  IInv'
<1>. USE DEF IInv
<1>1. /\ rows' = rows /\ files' = files /\ reused' = reused /\ active' = active
      /\ eventOf' = eventOf /\ snap' = snap /\ snapId' = snapId /\ deleting' = deleting
      /\ warm' = warm /\ overdue' = overdue /\ warmTask' = warmTask
      /\ Present' = Present /\ queue' = <<>>
  BY DEF AsteriskRestarts, trackVars, storeVars, taskVars, warmVars, Present
<1>2. faults' \in 0 .. MaxFaults /\ faults' # 0
  BY MaxFaultsAssumption DEF AsteriskRestarts, TypeOK
<1>3. /\ Waiting' = {} /\ InOrder' /\ queue' \in Seq(Events)
  BY <1>1, EmptySeq DEF Waiting, InOrder
<1>4. \A c \in Calls : /\ pbx'[c] = IF pbx[c].state = "none" THEN pbx[c]
                                     ELSE [pbx[c] EXCEPT !.state = "over"]
                       /\ pbx[c] \in [state : {"none", "ringing", "answered", "over"},
                                       door : Doors, by : Devices \cup {Nobody}]
  BY DEF AsteriskRestarts, TypeOK
<1>5. \A c \in Calls : /\ pbx'[c].by = pbx[c].by
                       /\ pbx'[c].state = IF pbx[c].state = "none" THEN "none" ELSE "over"
                       /\ pbx'[c] \in [state : {"none", "ringing", "answered", "over"},
                                        door : Doors, by : Devices \cup {Nobody}]
  <2>. SUFFICES ASSUME NEW c \in Calls
                PROVE  /\ pbx'[c].by = pbx[c].by
                       /\ pbx'[c].state = IF pbx[c].state = "none" THEN "none" ELSE "over"
                       /\ pbx'[c] \in [state : {"none", "ringing", "answered", "over"},
                                        door : Doors, by : Devices \cup {Nobody}]
    OBVIOUS
  <2>1. CASE pbx[c].state = "none"
    BY <1>4, <2>1
  <2>2. CASE pbx[c].state # "none"
    <3>1. pbx'[c] = [pbx[c] EXCEPT !.state = "over"]
      BY <1>4, <2>2
    <3>2. pbx[c] \in [state : {"none", "ringing", "answered", "over"},
                     door : Doors, by : Devices \cup {Nobody}]
      BY <1>4
    <3>3. QED
      BY <2>2, <3>1, <3>2
  <2>3. QED
    BY <2>1, <2>2
<1>6. pbx' \in [Calls -> [state : {"none", "ringing", "answered", "over"},
                         door : Doors, by : Devices \cup {Nobody}]]
  BY <1>5 DEF AsteriskRestarts
<1>7. TypeOK'
  BY <1>1, <1>2, <1>3, <1>6 DEF TypeOK
<1>8. Happened'
  BY <1>3, <1>5 DEF Happened
<1>9. OneRowEach'
  <2>1. Heard \subseteq Heard'
    BY <1>3, <1>5 DEF Heard
  <2>2. QED
    BY <1>1, <2>1, MoreHeard
<1>10. OwnRows' /\ OwnPictures' /\ WarmWhileRinging' /\ Complete'
  BY <1>1, <1>2 DEF OwnRows, OwnPictures, WarmWhileRinging, Complete
<1>11. RowTellsOwnRing'
  <2>1. \A id \in Present : rows[id].ring \in Calls /\ Shown(id)' = Shown(id)
    BY <1>1, RowFacts DEF Rows, Shown
  <2>2. QED
    BY <1>1, <1>5, <2>1 DEF RowTellsOwnRing, TrueToRing
<1>12. QED
  BY <1>3, <1>7, <1>8, <1>9, <1>10, <1>11

-----------------------------------------------------------------------------
(* Steps that leave the listener alone.                                    *)

\* Rows may go, and be marked as opened or old; what they say of their ring stays,
\* but for the picture, and no task is begun.
LEMMA RowsFade ==
  ASSUME IInv, TypeOK', UNCHANGED <<pbx, queue, trackVars, reused, snapId>>,
         faults' = 0 => faults = 0,
         Present' \subseteq Present,
         \A id \in Present' : /\ rows'[id].ring = rows[id].ring /\ rows'[id].by = rows[id].by
                              /\ rows'[id].ended = rows[id].ended,
         \A c \in Calls : snap'[c] # "none" => snap[c] # "none",
         \A id \in Present' \ reused : Shown(id)' \in {Nobody, rows[id].ring},
         \A c \in Calls : snap'[c] = "writing" /\ snapId[c] \in Present' \ reused =>
           files'[snapId[c]] \in {Nobody, rows[snapId[c]].ring},
         WarmWhileRinging'
  PROVE  IInv'
<1>. USE DEF IInv
<1>1. /\ pbx' = pbx /\ queue' = queue /\ active' = active /\ eventOf' = eventOf
      /\ reused' = reused /\ snapId' = snapId
      /\ Waiting' = Waiting /\ Heard' = Heard
  BY DEF trackVars, Waiting, Heard
<1>2. InOrder' /\ Happened'
  BY <1>1 DEF InOrder, Happened
<1>3. OneRowEach'
  BY <1>1, MoreHeard
<1>4. OwnRows' /\ OwnPictures'
  BY <1>1 DEF OwnRows, OwnPictures
<1>5. RowTellsOwnRing'
  BY <1>1 DEF RowTellsOwnRing, TrueToRing
<1>6. Complete'
  <2>1. \A id \in Present' \ reused : Coming(id) => Coming(id)'
    BY <1>1 DEF Coming
  <2>2. QED
    BY <1>1, <2>1 DEF Complete
<1>7. QED
  BY <1>2, <1>3, <1>4, <1>5, <1>6

\* No row changes.
LEMMA SameRows ==
  ASSUME IInv, TypeOK', UNCHANGED <<amiVars, trackVars, storeVars, taskVars>>, WarmWhileRinging'
  PROVE  IInv'
<1>. USE DEF IInv
<1>1. /\ UNCHANGED <<pbx, queue, trackVars, reused, snapId>>
      /\ faults' = faults /\ rows' = rows /\ files' = files /\ snap' = snap /\ Present' = Present
  BY DEF amiVars, trackVars, storeVars, taskVars, Present
<1>2. \A id \in Present' \ reused : Shown(id)' \in {Nobody, rows[id].ring}
  BY <1>1 DEF Shown, RowTellsOwnRing, TrueToRing
<1>3. \A c \in Calls : snap'[c] = "writing" /\ snapId[c] \in Present' \ reused =>
        files'[snapId[c]] \in {Nobody, rows[snapId[c]].ring}
  BY <1>1 DEF OwnPictures
<1>4. QED
  BY <1>1, <1>2, <1>3, RowsFade

\* The loop that keeps pictures warm ends only when no ring has time left.
LEMMA WarmKeeps ==
  ASSUME IInv, (\E c \in Calls : WarmOverdue(c)) \/ AppLooks \/ WarmLooks
  PROVE  IInv'
<1>. USE DEF IInv
<1>1. UNCHANGED <<amiVars, trackVars, storeVars, taskVars>>
  BY DEF WarmOverdue, AppLooks, WarmLooks, DropOverdue
<1>2. TypeOK'
  <2>1. warm' \in SUBSET Calls /\ overdue' \in SUBSET Calls /\ warmTask' \in BOOLEAN
    BY DEF WarmOverdue, AppLooks, WarmLooks, DropOverdue, TypeOK
  <2>2. QED
    BY <1>1, <2>1 DEF TypeOK, amiVars, trackVars, storeVars, taskVars
<1>3. WarmWhileRinging'
  BY DEF WarmWhileRinging, WarmOverdue, AppLooks, WarmLooks, DropOverdue, NoRingLeft
<1>4. QED
  BY <1>1, <1>2, <1>3, SameRows

LEMMA BackendKeeps ==
  ASSUME IInv, BackendRestarts
  PROVE  IInv'
<1>. USE DEF IInv
<1>1. /\ pbx' = pbx /\ rows' = rows /\ files' = files /\ reused' = reused /\ snapId' = snapId
      /\ Present' = Present /\ queue' = <<>> /\ active' = [c \in Calls |-> "untracked"]
      /\ eventOf' = [c \in Calls |-> 0] /\ snap' = [c \in Calls |-> "none"]
      /\ deleting' = 0 /\ warm' = {} /\ overdue' = {} /\ warmTask' = FALSE
  BY DEF BackendRestarts, storeVars, Present
<1>2. faults' \in 0 .. MaxFaults /\ faults' # 0
  BY MaxFaultsAssumption DEF BackendRestarts, TypeOK
<1>3. Waiting' = {} /\ InOrder' /\ queue' \in Seq(Events)
  BY <1>1, EmptySeq DEF Waiting, InOrder
<1>4. TypeOK'
  BY <1>1, <1>2, <1>3 DEF TypeOK
<1>5. Happened'
  BY <1>1, <1>3 DEF Happened
<1>6. OneRowEach'
  <2>1. Heard \subseteq Heard'
    BY <1>1, <1>3 DEF Heard
  <2>2. QED
    BY <1>1, <2>1, MoreHeard
<1>7. OwnRows' /\ OwnPictures' /\ WarmWhileRinging' /\ Complete'
  <2>1. 0 \notin Present
    BY DEF Present, Ids
  <2>2. QED
    BY <1>1, <1>2, <2>1 DEF OwnRows, OwnPictures, WarmWhileRinging, Complete
<1>8. RowTellsOwnRing'
  <2>1. \A id \in Present : Shown(id)' = Shown(id)
    BY <1>1 DEF Shown
  <2>2. QED
    BY <1>1, <2>1 DEF RowTellsOwnRing, TrueToRing
<1>9. QED
  BY <1>3, <1>4, <1>5, <1>6, <1>7, <1>8

-----------------------------------------------------------------------------
(* Pictures, requests and age.                                             *)

\* Shown depends on the row and its file only.
LEMMA ShownFacts ==
  ASSUME NEW id \in Ids
  PROVE  /\ rows'[id] = rows[id] /\ files'[id] = files[id] => Shown(id)' = Shown(id)
         /\ rows'[id].image_file = rows[id].image_file /\ files'[id] = files[id] =>
              Shown(id)' = Shown(id)
         /\ Shown(id)' \in {Nobody, files'[id]}
BY DEF Shown

LEMMA SnapKeeps ==
  ASSUME IInv, NEW c \in Calls, SnapFails(c) \/ SnapWrites(c) \/ SnapCommits(c)
  PROVE  IInv'
<1>. USE DEF IInv
<1>1. /\ UNCHANGED <<pbx, queue, trackVars, reused, snapId>>
      /\ deleting' = deleting /\ warm' = warm /\ overdue' = overdue /\ warmTask' = warmTask
      /\ active' = active /\ eventOf' = eventOf
  BY DEF SnapFails, SnapWrites, SnapCommits, SnapStep, trackVars, warmVars
<1>2. /\ WarmWhileRinging' /\ snap' \in [Calls -> {"none", "fetching", "writing"}]
      /\ \A d \in Calls : snap'[d] # "none" => snap[d] # "none"
      /\ \A d \in Calls : d # c => snap'[d] = snap[d]
      /\ snapId[c] \in Ids \cup {0}
  BY <1>1 DEF WarmWhileRinging, SnapFails, SnapWrites, SnapCommits, SnapStep, TypeOK
<1>3. \A id \in Present : /\ rows[id] \in Rows /\ id \in Ids
                          /\ id \notin reused => Shown(id) \in {Nobody, rows[id].ring}
  BY RowFacts DEF RowTellsOwnRing, TrueToRing
<1>4. CASE SnapFails(c)
  <2>1. /\ rows' = rows /\ files' = files /\ faults' = faults /\ Present' = Present
        /\ snap'[c] = "none"
    BY <1>4 DEF SnapFails, SnapStep, Present, TypeOK
  <2>2. TypeOK'
    BY <1>1, <1>2, <2>1 DEF TypeOK
  <2>3. \A id \in Present' \ reused : Shown(id)' \in {Nobody, rows[id].ring}
    BY <1>3, <2>1, ShownFacts
  <2>4. \A d \in Calls : snap'[d] = "writing" /\ snapId[d] \in Present' \ reused =>
          files'[snapId[d]] \in {Nobody, rows[snapId[d]].ring}
    BY <1>2, <2>1 DEF OwnPictures
  <2>5. QED
    BY <1>1, <1>2, <2>1, <2>2, <2>3, <2>4, RowsFade
<1>5. CASE SnapWrites(c)
  <2>1. /\ rows' = rows /\ faults' = faults /\ Present' = Present /\ snap[c] = "fetching"
        /\ \A id \in Ids : files'[id] = files[id] \/ (id = snapId[c] /\ files'[id] = c)
        /\ snap'[c] = "writing" => snapId[c] \in Present /\ files'[snapId[c]] = c
        /\ files' \in [Ids -> Calls \cup {Nobody}]
    BY <1>3, <1>5 DEF SnapWrites, SnapStep, Present, TypeOK
  <2>2. TypeOK'
    BY <1>1, <1>2, <2>1 DEF TypeOK
  <2>3. snapId[c] \in Present \ reused => rows[snapId[c]].ring = c
    BY <2>1 DEF OwnRows
  <2>4. \A id \in Present' \ reused : Shown(id)' \in {Nobody, rows[id].ring}
    BY <1>3, <2>1, <2>3, ShownFacts
  <2>5. \A d \in Calls : snap'[d] = "writing" /\ snapId[d] \in Present' \ reused =>
          files'[snapId[d]] \in {Nobody, rows[snapId[d]].ring}
    BY <1>2, <1>3, <2>1, <2>3 DEF OwnPictures
  <2>6. QED
    BY <1>1, <1>2, <2>1, <2>2, <2>4, <2>5, RowsFade
<1>6. CASE SnapCommits(c)
  <2>1. /\ files' = files /\ (faults' = 0 => faults = 0) /\ faults' \in 0 .. MaxFaults
        /\ snap[c] = "writing" /\ snap'[c] = "none"
    BY <1>6, MaxFaultsAssumption DEF SnapCommits, SnapStep, CommitWorks, CommitFails, TypeOK
  <2>2. \A id \in Present :
          /\ rows'[id] \in Rows
          /\ \/ rows'[id] = rows[id]
             \/ id = snapId[c] /\ rows'[id] = [rows[id] EXCEPT !.image_file = TRUE]
    <3>1. CASE rows' = rows
      BY <1>3, <3>1
    <3>2. CASE snapId[c] \in Present /\ rows' = [rows EXCEPT ![snapId[c]].image_file = TRUE]
      <4>. DEFINE row == [rows[snapId[c]] EXCEPT !.image_file = TRUE]
      <4>1. row \in Rows
        BY <1>3, <3>2 DEF Rows
      <4>2. rows' = [rows EXCEPT ![snapId[c]] = row]
        BY <3>2
      <4>. HIDE DEF row
      <4>3. \A id \in Present : rows'[id] = IF id = snapId[c] THEN row ELSE rows[id]
        BY <4>2 DEF TypeOK, Present
      <4>4. QED
        BY <1>3, <4>1, <4>3 DEF row
    <3>3. QED
      BY <1>6, <3>1, <3>2 DEF SnapCommits
  <2>3. \A id \in Ids \ Present : rows'[id] = rows[id]
    BY <1>3, <1>6 DEF SnapCommits, TypeOK
  <2>4. Present' = Present /\ rows' \in [Ids -> Rows \cup {NoRow}]
    <3>1. \A id \in Ids : rows'[id] \in Rows \cup {NoRow} /\ (rows'[id] # NoRow <=> rows[id] # NoRow)
      <4>1. \A id \in Present : rows'[id] # NoRow /\ rows[id] # NoRow
        BY <2>2, <1>3, NoRowAssumption
      <4>2. \A id \in Ids \ Present : rows'[id] = NoRow /\ rows[id] = NoRow
        BY <2>3 DEF Present
      <4>3. QED
        BY <2>2, <4>1, <4>2
    <3>2. \E f \in {rows'} : f = [id \in Ids |-> rows'[id]]
      BY <1>6 DEF SnapCommits, TypeOK
    <3>3. QED
      BY <3>1, <3>2 DEF Present
  <2>5. TypeOK'
    BY <1>1, <1>2, <2>1, <2>4 DEF TypeOK
  <2>6. \A id \in Present : /\ rows'[id].ring = rows[id].ring /\ rows'[id].by = rows[id].by
                            /\ rows'[id].ended = rows[id].ended
    BY <1>3, <2>2 DEF Rows
  <2>7. \A id \in Present' \ reused : Shown(id)' \in {Nobody, rows[id].ring}
    <3>1. ASSUME NEW id \in Present \ reused, id = snapId[c] PROVE Shown(id)' \in {Nobody, rows[id].ring}
      <4>1. files[id] \in {Nobody, rows[id].ring}
        BY <2>1, <3>1 DEF OwnPictures
      <4>2. QED
        BY <1>3, <2>1, <4>1, ShownFacts
    <3>2. ASSUME NEW id \in Present \ reused, id # snapId[c] PROVE Shown(id)' \in {Nobody, rows[id].ring}
      BY <1>3, <2>1, <2>2, <3>2, ShownFacts
    <3>3. QED
      BY <2>4, <3>1, <3>2
  <2>8. \A d \in Calls : snap'[d] = "writing" /\ snapId[d] \in Present' \ reused =>
          files'[snapId[d]] \in {Nobody, rows[snapId[d]].ring}
    BY <1>2, <2>1, <2>4 DEF OwnPictures
  <2>9. QED
    BY <1>1, <1>2, <2>1, <2>4, <2>5, <2>6, <2>7, <2>8, RowsFade
<1>7. QED
  BY <1>4, <1>5, <1>6

\* A row that is only marked keeps its id, its ring and its picture.
LEMMA MarkKeeps ==
  ASSUME IInv, NEW id \in Present, NEW row \in Rows,
         rows' = [rows EXCEPT ![id] = row],
         row.ring = rows[id].ring, row.by = rows[id].by, row.ended = rows[id].ended,
         row.image_file = rows[id].image_file,
         UNCHANGED <<amiVars, trackVars, files, reused, taskVars, warmVars>>
  PROVE  IInv'
<1>. USE DEF IInv
<1>1. /\ UNCHANGED <<pbx, queue, trackVars, reused, snapId>>
      /\ faults' = faults /\ files' = files /\ snap' = snap /\ deleting' = deleting
      /\ warm' = warm /\ overdue' = overdue /\ warmTask' = warmTask
      /\ active' = active /\ eventOf' = eventOf
  BY DEF amiVars, trackVars, taskVars, warmVars
<1>2. /\ rows'[id] = row /\ id \in Ids /\ rows' \in [Ids -> Rows \cup {NoRow}]
      /\ \A n \in Ids : n # id => rows'[n] = rows[n]
      /\ row # NoRow
  BY NoRowAssumption DEF TypeOK, Present
<1>3. Present' = Present
  BY <1>2 DEF Present
<1>4. TypeOK' /\ WarmWhileRinging'
  BY <1>1, <1>2 DEF TypeOK, WarmWhileRinging
<1>5. \A n \in Present' : /\ rows'[n].ring = rows[n].ring /\ rows'[n].by = rows[n].by
                          /\ rows'[n].ended = rows[n].ended
                          /\ rows'[n].image_file = rows[n].image_file /\ n \in Ids
  BY <1>2, <1>3, RowFacts
<1>6. \A n \in Present' \ reused : Shown(n)' \in {Nobody, rows[n].ring}
  BY <1>1, <1>3, <1>5, ShownFacts DEF RowTellsOwnRing, TrueToRing
<1>7. \A d \in Calls : snap'[d] = "writing" /\ snapId[d] \in Present' \ reused =>
        files'[snapId[d]] \in {Nobody, rows[snapId[d]].ring}
  BY <1>1, <1>3 DEF OwnPictures
<1>8. QED
  BY <1>1, <1>3, <1>4, <1>5, <1>6, <1>7, RowsFade

LEMMA RequestsKeep ==
  ASSUME IInv, (\E d \in Doors : DoorOpened(d)) \/ (\E id \in Ids : GrowOld(id))
  PROVE  IInv'
<1>1. CASE \E d \in Doors : DoorOpened(d)
  <2>. SUFFICES ASSUME NEW id \in Present, rows' = [rows EXCEPT ![id].opened = TRUE],
                       UNCHANGED <<amiVars, trackVars, files, reused, taskVars, warmVars>>
                PROVE  IInv'
    BY <1>1 DEF DoorOpened
  <2>. DEFINE row == [rows[id] EXCEPT !.opened = TRUE]
  <2>1. /\ row \in Rows /\ row.ring = rows[id].ring /\ row.by = rows[id].by
        /\ row.ended = rows[id].ended /\ row.image_file = rows[id].image_file
    BY RowFacts DEF IInv, Rows
  <2>2. rows' = [rows EXCEPT ![id] = row]
    OBVIOUS
  <2>. HIDE DEF row
  <2>3. QED
    BY <2>1, <2>2, MarkKeeps
<1>2. CASE \E id \in Ids : GrowOld(id)
  <2>. SUFFICES ASSUME NEW id \in Present, rows[id].age < 2,
                       rows' = [rows EXCEPT ![id].age = rows[id].age + 1],
                       UNCHANGED <<amiVars, trackVars, files, reused, taskVars, warmVars>>
                PROVE  IInv'
    BY <1>2 DEF GrowOld
  <2>. DEFINE row == [rows[id] EXCEPT !.age = rows[id].age + 1]
  <2>1. /\ row \in Rows /\ row.ring = rows[id].ring /\ row.by = rows[id].by
        /\ row.ended = rows[id].ended /\ row.image_file = rows[id].image_file
    BY RowFacts DEF IInv, Rows
  <2>2. rows' = [rows EXCEPT ![id] = row]
    OBVIOUS
  <2>. HIDE DEF row
  <2>3. QED
    BY <2>1, <2>2, MarkKeeps
<1>3. QED
  BY <1>1, <1>2

LEMMA DeleteKeeps ==
  ASSUME IInv, (\E id \in Ids : DeleteReads(id)) \/ DeleteCommits
  PROVE  IInv'
<1>. USE DEF IInv
<1>1. /\ UNCHANGED <<pbx, queue, trackVars, reused, snapId>>
      /\ snap' = snap /\ warm' = warm /\ overdue' = overdue /\ warmTask' = warmTask
      /\ active' = active /\ eventOf' = eventOf
  BY DEF DeleteReads, DeleteCommits, amiVars, trackVars, warmVars
<1>2. \A n \in Ids : files'[n] = files[n] \/ files'[n] = Nobody
  BY DEF DeleteReads, DeleteCommits, TypeOK
<1>3. /\ files' \in [Ids -> Calls \cup {Nobody}] /\ deleting' \in Ids \cup {0}
      /\ (faults' = 0 => faults = 0) /\ faults' \in 0 .. MaxFaults
  BY MaxFaultsAssumption
     DEF DeleteReads, DeleteCommits, CommitWorks, CommitFails, amiVars, TypeOK
<1>4. rows' = rows \/ (deleting \in Ids /\ rows' = [rows EXCEPT ![deleting] = NoRow])
  BY DEF DeleteReads, DeleteCommits, TypeOK
<1>5. /\ rows' \in [Ids -> Rows \cup {NoRow}]
      /\ \A n \in Ids : rows'[n] = rows[n] \/ rows'[n] = NoRow
  BY <1>4 DEF TypeOK
<1>6. /\ Present' \subseteq Present
      /\ \A n \in Present' : n \in Ids /\ n \in Present /\ rows'[n] = rows[n]
  BY <1>5 DEF Present
<1>7. TypeOK' /\ WarmWhileRinging'
  BY <1>1, <1>3, <1>5 DEF TypeOK, WarmWhileRinging
<1>8. \A n \in Present' \ reused : Shown(n)' \in {Nobody, rows[n].ring}
  <2>1. \A n \in Present \ reused : Shown(n) \in {Nobody, rows[n].ring}
    BY DEF RowTellsOwnRing, TrueToRing
  <2>2. QED
    BY <1>2, <1>6, <2>1, ShownFacts
<1>9. \A d \in Calls : snap'[d] = "writing" /\ snapId[d] \in Present' \ reused =>
        files'[snapId[d]] \in {Nobody, rows[snapId[d]].ring}
  BY <1>1, <1>2, <1>6 DEF OwnPictures
<1>10. QED
  BY <1>1, <1>3, <1>6, <1>7, <1>8, <1>9, RowsFade

-----------------------------------------------------------------------------
(* The listener.                                                           *)

\* What follows the first event of a call in the queue is not its start.
LEMMA NoLaterStart ==
  ASSUME TypeOK, InOrder, NEW kind, NEW c, NextEvent(kind, c), Take
  PROVE  \A e \in Waiting' : e.call = c => e.kind # "Newchannel"
<1>1. /\ Len(queue') \in Nat /\ Len(queue) = Len(queue') + 1 /\ queue[1] = Event(kind, c)
      /\ \A i \in 1 .. Len(queue') : queue'[i] = queue[i + 1]
  BY TakeFacts
<1>2. ASSUME NEW i \in 1 .. Len(queue'), queue'[i].call = c PROVE queue'[i].kind # "Newchannel"
  <2>1. 1 \in 1 .. Len(queue) /\ i + 1 \in 1 .. Len(queue) /\ 1 < i + 1
    BY <1>1
  <2>2. queue[1].call = c /\ queue[i + 1].call = c
    BY <1>1, <1>2, EventFacts
  <2>3. queue[i + 1].kind # "Newchannel"
    BY <2>1, <2>2 DEF InOrder
  <2>4. QED
    BY <1>1, <2>3
<1>3. QED
  BY <1>2 DEF Waiting

\* Taking an event leaves the promises about the others.
LEMMA TakeKeeps ==
  ASSUME IInv, NEW kind \in {"Newchannel", "Answered", "Hangup"}, NEW c \in Calls,
         NextEvent(kind, c), Take
  PROVE  /\ queue' \in Seq(Events) /\ pbx' = pbx /\ InOrder' /\ Happened'
         /\ Event(kind, c) \in Waiting /\ Waiting' = Waiting \ {Event(kind, c)}
         /\ \A k \in {"Newchannel", "Answered", "Hangup"}, d \in Calls :
              d # c \/ k # kind => (Event(k, d) \in Waiting' <=> Event(k, d) \in Waiting)
         /\ Heard' = IF kind = "Newchannel" THEN Heard \cup {c} ELSE Heard
<1>. USE DEF IInv
<1>1. /\ queue' \in Seq(Events) /\ pbx' = pbx
      /\ Event(kind, c) \in Waiting /\ Waiting' = Waiting \ {Event(kind, c)}
  BY TakeFacts DEF Take
<1>2. InOrder' /\ Happened'
  BY <1>1, TakeInOrder DEF Happened
<1>3. \A k \in {"Newchannel", "Answered", "Hangup"}, d \in Calls :
        d # c \/ k # kind => (Event(k, d) \in Waiting' <=> Event(k, d) \in Waiting)
  BY <1>1, EventFacts
<1>4. pbx[c].state # "none"
  BY <1>1, EventFacts DEF Happened
<1>5. \A d \in Calls : d \in Heard' <=> d \in (IF kind = "Newchannel" THEN Heard \cup {c} ELSE Heard)
  BY <1>1, <1>3, <1>4 DEF Heard
<1>6. QED
  BY <1>1, <1>2, <1>3, <1>5 DEF Heard

\* An end that the listener writes into its row, whatever rows and files it prunes.
LEMMA EndKeeps ==
  ASSUME IInv, TypeOK', NEW c \in Calls, NextEvent("Hangup", c), Take, active[c] # "untracked",
         active' = [active EXCEPT ![c] = "untracked"], eventOf' = [eventOf EXCEPT ![c] = 0],
         UNCHANGED <<reused, snap, snapId>>, WarmWhileRinging',
         faults' = 0 => faults = 0,
         Present' \subseteq Present,
         \A id \in Present' :
           /\ rows'[id].ring = rows[id].ring /\ rows'[id].by = rows[id].by
           /\ rows'[id].image_file = rows[id].image_file
           /\ rows'[id].ended = rows[id].ended \/ (id = eventOf[c] /\ rows'[id].ended)
           /\ faults' = 0 /\ id = eventOf[c] => rows'[id].ended,
         \A id \in Ids : files'[id] = files[id] \/ files'[id] = Nobody
  PROVE  IInv'
<1>. USE DEF IInv
<1>1. /\ pbx' = pbx /\ InOrder' /\ Happened' /\ Heard' = Heard
      /\ Event("Hangup", c) \in Waiting /\ Waiting' \subseteq Waiting
      /\ \A k \in {"Newchannel", "Answered", "Hangup"}, d \in Calls :
           d # c \/ k # "Hangup" => (Event(k, d) \in Waiting' <=> Event(k, d) \in Waiting)
  BY TakeKeeps
<1>2. \A e \in Waiting' : e.call # c
  BY HangupLast
<1>3. /\ eventOf'[c] = 0 /\ \A d \in Calls : d # c => eventOf'[d] = eventOf[d]
      /\ active'[c] = "untracked" /\ \A d \in Calls : d # c => active'[d] = active[d]
  BY DEF TypeOK
<1>4. OneRowEach'
  BY <1>1, MoreHeard
<1>5. \A id \in Present : /\ id \in Ids /\ id # 0 /\ rows[id].ring \in Calls
                          /\ id \notin reused /\ eventOf[c] = id => rows[id].ring = c
  BY RowFacts DEF OwnRows, Ids, Rows
<1>6. OwnRows' /\ OwnPictures'
  <2>1. OwnRows'
    BY <1>3, <1>5 DEF OwnRows
  <2>2. OwnPictures'
    BY <1>5 DEF OwnPictures
  <2>3. QED
    BY <2>1, <2>2
<1>7. RowTellsOwnRing'
  <2>1. pbx[c].state = "over"
    BY <1>1, EventFacts DEF Happened
  <2>2. ASSUME NEW id \in Present', id \notin reused
        PROVE  TrueToRing(id)'
    <3>1. TrueToRing(id)
      BY <2>2 DEF RowTellsOwnRing
    <3>2. Shown(id)' = Shown(id) \/ Shown(id)' = Nobody
      BY <1>5, ShownFacts
    <3>3. rows'[id].ended => pbx[rows[id].ring].state = "over"
      BY <1>5, <2>1, <2>2, <3>1 DEF TrueToRing
    <3>4. QED
      BY <1>1, <3>1, <3>2, <3>3 DEF TrueToRing
  <2>3. QED
    BY <2>2 DEF RowTellsOwnRing
<1>8. Complete'
  <2>. SUFFICES ASSUME faults' = 0
                PROVE  /\ \A id \in Present' \ reused : Coming(id)'
                       /\ \A d \in Calls : Event("Newchannel", d) \in Waiting' =>
                            /\ pbx'[d].by # Nobody => Event("Answered", d) \in Waiting'
                            /\ pbx'[d].state = "over" => Event("Hangup", d) \in Waiting'
    BY DEF Complete
  <2>1. ASSUME NEW id \in Present', id \notin reused
        PROVE  Coming(id)'
    <3>1. Coming(id)
      BY <2>1 DEF Complete
    <3>2. CASE rows[id].ring = c
      <4>1. ~rows[id].ended
        BY <1>1, <3>1, <3>2, EventFacts DEF Coming
      <4>2. eventOf[c] = id
        BY <3>1, <3>2, <4>1 DEF Coming
      <4>3. rows'[id].ended
        BY <2>1, <4>2
      <4>4. Event("Answered", c) \notin Waiting
        BY <1>1, <1>2, EventFacts
      <4>5. rows[id].by = pbx[c].by
        BY <3>1, <3>2, <4>4 DEF Coming
      <4>6. QED
        BY <1>1, <1>2, <2>1, <3>2, <4>3, <4>5 DEF Coming
    <3>3. CASE rows[id].ring # c
      <4>1. id # eventOf[c]
        BY <1>5, <2>1, <3>3
      <4>2. rows'[id].ended = rows[id].ended
        BY <2>1, <4>1
      <4>. DEFINE d == rows[id].ring
      <4>3. d \in Calls /\ rows'[id].ring = d /\ rows'[id].by = rows[id].by /\ d # c
        BY <1>5, <2>1, <3>3
      <4>4. /\ Event("Answered", d) \in Waiting' <=> Event("Answered", d) \in Waiting
            /\ Event("Hangup", d) \in Waiting' <=> Event("Hangup", d) \in Waiting
        BY <1>1, <4>3
      <4>5. eventOf'[d] = eventOf[d] /\ active'[d] = active[d]
        BY <1>3, <4>3
      <4>6. QED
        BY <1>1, <3>1, <4>2, <4>3, <4>4, <4>5 DEF Coming
    <3>4. QED
      BY <3>2, <3>3
  <2>2. ASSUME NEW d \in Calls, Event("Newchannel", d) \in Waiting'
        PROVE  /\ pbx'[d].by # Nobody => Event("Answered", d) \in Waiting'
               /\ pbx'[d].state = "over" => Event("Hangup", d) \in Waiting'
    <3>1. d # c
      BY <1>2, <2>2, EventFacts
    <3>2. QED
      BY <1>1, <2>2, <3>1 DEF Complete
  <2>3. QED
    BY <2>1, <2>2
<1>9. QED
  BY <1>1, <1>4, <1>6, <1>7, <1>8

LEMMA HangupKeeps ==
  ASSUME IInv, NEW c \in Calls, OnHangup(c)
  PROVE  IInv'
<1>. USE DEF IInv
<1>1. NextEvent("Hangup", c) /\ Take
  BY DEF OnHangup
<1>2. /\ reused' = reused /\ snap' = snap /\ snapId' = snapId /\ deleting' = deleting
      /\ warmTask' = warmTask
  BY DEF OnHangup, taskVars
<1>3. /\ queue' \in Seq(Events) /\ pbx' = pbx /\ InOrder' /\ Happened' /\ Heard' = Heard
      /\ Event("Hangup", c) \in Waiting /\ Waiting' \subseteq Waiting
      /\ \A k \in {"Newchannel", "Answered", "Hangup"}, d \in Calls :
           d # c \/ k # "Hangup" => (Event(k, d) \in Waiting' <=> Event(k, d) \in Waiting)
  BY <1>1, TakeKeeps
<1>4. \A id \in Present : /\ id \in Ids /\ id # 0 /\ rows[id] \in Rows /\ rows[id].ring \in Calls
                          /\ rows[id] # NoRow
  BY RowFacts DEF Ids, Rows, Present
<1>5. CASE active[c] = "untracked"
  <2>1. /\ faults' = faults /\ active' = active /\ eventOf' = eventOf /\ rows' = rows
        /\ files' = files /\ warm' = warm /\ overdue' = overdue /\ Present' = Present
    BY <1>5 DEF OnHangup, Present
  <2>2. TypeOK' /\ WarmWhileRinging' /\ OwnRows' /\ OwnPictures'
    BY <1>2, <1>3, <2>1 DEF TypeOK, WarmWhileRinging, OwnRows, OwnPictures
  <2>3. OneRowEach'
    BY <1>3, <2>1 DEF OneRowEach
  <2>4. RowTellsOwnRing'
    <3>1. \A id \in Present : Shown(id)' = Shown(id)
      BY <1>4, <2>1, ShownFacts
    <3>2. QED
      BY <1>2, <1>3, <2>1, <3>1 DEF RowTellsOwnRing, TrueToRing
  <2>5. Complete'
    <3>. SUFFICES ASSUME faults = 0
                  PROVE  /\ \A id \in Present \ reused : Coming(id)'
                         /\ \A d \in Calls : Event("Newchannel", d) \in Waiting' =>
                              /\ pbx'[d].by # Nobody => Event("Answered", d) \in Waiting'
                              /\ pbx'[d].state = "over" => Event("Hangup", d) \in Waiting'
      BY <1>2, <2>1 DEF Complete
    <3>1. ASSUME NEW id \in Present, id \notin reused
          PROVE  Coming(id)'
      <4>1. Coming(id)
        BY <3>1 DEF Complete
      <4>2. rows[id].ring # c
        BY <1>3, <1>5, <4>1, EventFacts DEF Coming
      <4>. DEFINE d == rows[id].ring
      <4>3. d \in Calls /\ rows'[id] = rows[id] /\ d # c
        BY <1>4, <2>1, <4>2
      <4>4. /\ Event("Answered", d) \in Waiting' <=> Event("Answered", d) \in Waiting
            /\ Event("Hangup", d) \in Waiting' <=> Event("Hangup", d) \in Waiting
        BY <1>3, <4>3
      <4>5. QED
        BY <1>3, <2>1, <4>1, <4>3, <4>4 DEF Coming
    <3>2. ASSUME NEW d \in Calls, Event("Newchannel", d) \in Waiting'
          PROVE  /\ pbx'[d].by # Nobody => Event("Answered", d) \in Waiting'
                 /\ pbx'[d].state = "over" => Event("Hangup", d) \in Waiting'
      <4>1. d # c
        BY <1>1, <3>2, HangupLast, EventFacts
      <4>2. QED
        BY <1>3, <3>2, <4>1 DEF Complete
    <3>3. QED
      BY <3>1, <3>2
  <2>6. QED
    BY <1>3, <2>2, <2>3, <2>4, <2>5
<1>6. CASE active[c] # "untracked"
  <2>1. /\ active' = [active EXCEPT ![c] = "untracked"] /\ eventOf' = [eventOf EXCEPT ![c] = 0]
        /\ warm' = warm \ {c} /\ overdue' = overdue \ {c}
    BY <1>6 DEF OnHangup
  <2>2. active' \in [Calls -> {"untracked", "ringing", "answered"}]
        /\ eventOf' \in [Calls -> Ids \cup {0}] /\ warm' \in SUBSET Calls /\ overdue' \in SUBSET Calls
    BY <2>1 DEF TypeOK
  <2>3. WarmWhileRinging'
    BY <1>2, <2>1 DEF WarmWhileRinging
  <2>. DEFINE table == Ended(RowOf(c))
  <2>4. /\ table \in [Ids -> Rows \cup {NoRow}]
        /\ \A id \in Ids : id \notin Present => table[id] = NoRow
        /\ \A id \in Present : /\ table[id] \in Rows
                               /\ table[id].ring = rows[id].ring /\ table[id].by = rows[id].by
                               /\ table[id].image_file = rows[id].image_file
                               /\ id = eventOf[c] => table[id].ended
                               /\ id # eventOf[c] => table[id] = rows[id]
    <3>1. CASE eventOf[c] \in Present
      <4>1. table = [rows EXCEPT ![eventOf[c]].ended = TRUE]
        BY <3>1 DEF Ended, RowOf
      <4>. HIDE DEF table
      <4>. DEFINE row == [rows[eventOf[c]] EXCEPT !.ended = TRUE]
      <4>2. /\ row \in Rows /\ row.ring = rows[eventOf[c]].ring /\ row.by = rows[eventOf[c]].by
            /\ row.image_file = rows[eventOf[c]].image_file /\ row.ended
        BY <1>4, <3>1 DEF Rows
      <4>3. table = [rows EXCEPT ![eventOf[c]] = row]
        BY <4>1
      <4>. HIDE DEF row
      <4>4. QED
        BY <1>4, <3>1, <4>2, <4>3 DEF TypeOK, Present
    <3>2. CASE eventOf[c] \notin Present
      <4>1. table = rows
        BY <3>2 DEF Ended, RowOf
      <4>. HIDE DEF table
      <4>2. QED
        BY <1>4, <3>2, <4>1 DEF TypeOK, Present
    <3>3. QED
      BY <3>1, <3>2
  <2>5. \/ CommitWorks /\ rows' = table /\ UNCHANGED files
        \/ CommitFails /\ UNCHANGED <<rows, files>>
        \/ Prune(table)
    BY <1>6 DEF OnHangup
  <2>. HIDE DEF table
  <2>6. \A id \in Ids : files'[id] = files[id] \/ files'[id] = Nobody
    BY <2>5 DEF Prune
  <2>7. files' \in [Ids -> Calls \cup {Nobody}]
    <3>1. CASE Prune(table)
      BY <3>1, <2>6 DEF Prune, TypeOK
    <3>2. CASE ~Prune(table)
      BY <3>2, <2>5 DEF TypeOK
    <3>3. QED
      BY <3>1, <3>2
  <2>8. faults' \in 0 .. MaxFaults /\ (faults' = 0 => faults = 0)
    BY <2>5, MaxFaultsAssumption DEF Prune, CommitWorks, CommitFails, TypeOK
  <2>9. /\ rows' \in [Ids -> Rows \cup {NoRow}]
        /\ \A id \in Ids : rows'[id] \in {NoRow, table[id], rows[id]}
        /\ faults' = 0 => \A id \in Ids : rows'[id] \in {NoRow, table[id]}
    <3>1. CASE CommitWorks /\ rows' = table
      BY <2>4, <3>1
    <3>2. CASE CommitFails /\ rows' = rows
      BY <3>2, MaxFaultsAssumption DEF CommitFails, TypeOK
    <3>3. CASE CommitWorks /\ rows' = [id \in Ids |-> IF id \in Doomed(table) THEN NoRow ELSE table[id]]
      BY <2>4, <3>3
    <3>4. CASE CommitFails /\ rows' = table
      BY <2>4, <3>4
    <3>5. QED
      BY <2>5, <3>1, <3>2, <3>3, <3>4 DEF Prune
  <2>10. /\ Present' \subseteq Present
         /\ \A id \in Present' : id \in Ids /\ rows'[id] # NoRow
    BY <2>4, <2>9 DEF Present
  <2>11. TypeOK'
    BY <1>2, <1>3, <2>2, <2>7, <2>8, <2>9 DEF TypeOK
  <2>12. ASSUME NEW id \in Present'
         PROVE  /\ rows'[id].ring = rows[id].ring /\ rows'[id].by = rows[id].by
                /\ rows'[id].image_file = rows[id].image_file
                /\ rows'[id].ended = rows[id].ended \/ (id = eventOf[c] /\ rows'[id].ended)
                /\ faults' = 0 /\ id = eventOf[c] => rows'[id].ended
    <3>1. id \in Present /\ id \in Ids /\ rows'[id] # NoRow
      BY <2>10
    <3>2. rows'[id] \in {table[id], rows[id]} /\ (faults' = 0 => rows'[id] = table[id])
      BY <2>9, <3>1
    <3>3. QED
      BY <2>4, <3>1, <3>2
  <2>13. QED
    BY <1>1, <1>2, <1>6, <2>1, <2>3, <2>6, <2>8, <2>10, <2>11, <2>12, EndKeeps
<1>7. QED
  BY <1>5, <1>6

LEMMA AnsweredKeeps ==
  ASSUME IInv, NEW c \in Calls, OnAnswered(c)
  PROVE  IInv'
<1>. USE DEF IInv
<1>1. NextEvent("Answered", c) /\ Take
  BY DEF OnAnswered
<1>2. /\ reused' = reused /\ snap' = snap /\ snapId' = snapId /\ deleting' = deleting
      /\ warmTask' = warmTask /\ warm' = warm /\ overdue' = overdue
      /\ eventOf' = eventOf /\ files' = files
  BY DEF OnAnswered, taskVars, warmVars
<1>3. /\ queue' \in Seq(Events) /\ pbx' = pbx /\ InOrder' /\ Happened' /\ Heard' = Heard
      /\ Event("Answered", c) \in Waiting /\ Waiting' = Waiting \ {Event("Answered", c)}
      /\ \A k \in {"Newchannel", "Answered", "Hangup"}, d \in Calls :
           d # c \/ k # "Answered" => (Event(k, d) \in Waiting' <=> Event(k, d) \in Waiting)
  BY <1>1, TakeKeeps
<1>4. \A id \in Present : /\ id \in Ids /\ rows[id] \in Rows /\ rows[id].ring \in Calls
                          /\ rows[id] # NoRow
                          /\ id \notin reused /\ eventOf[c] = id => rows[id].ring = c
  BY RowFacts DEF Ids, Rows, Present, OwnRows
<1>5. /\ active' \in [Calls -> {"untracked", "ringing", "answered"}]
      /\ \A d \in Calls : active'[d] = active[d] \/ (d = c /\ active'[d] = "answered")
      /\ faults' \in 0 .. MaxFaults /\ (faults' = 0 => faults = 0)
  <2>1. active' = active \/ active' = [active EXCEPT ![c] = "answered"]
    BY DEF OnAnswered
  <2>2. faults' = faults \/ (faults < MaxFaults /\ faults' = faults + 1)
    BY DEF OnAnswered, CommitWorks, CommitFails
  <2>3. faults' \in 0 .. MaxFaults /\ (faults' = 0 => faults = 0)
    BY <2>2, MaxFaultsAssumption DEF TypeOK
  <2>4. QED
    BY <2>1, <2>3 DEF TypeOK
<1>6. \/ rows' = rows /\ (faults' # 0 \/ active[c] # "ringing" \/ eventOf[c] \notin Present
                            \/ rows[eventOf[c]].by # Nobody)
      \/ rows' = [rows EXCEPT ![eventOf[c]].by = pbx[c].by]
         /\ eventOf[c] \in Present /\ rows[eventOf[c]].by = Nobody
  BY MaxFaultsAssumption DEF OnAnswered, RowOf, CommitWorks, CommitFails, TypeOK
<1>7. /\ rows' \in [Ids -> Rows \cup {NoRow}]
      /\ \A id \in Ids : id \notin Present => rows'[id] = NoRow
      /\ \A id \in Present :
           /\ rows'[id] \in Rows /\ rows'[id].ring = rows[id].ring
           /\ rows'[id].ended = rows[id].ended /\ rows'[id].image_file = rows[id].image_file
           /\ rows'[id].by = rows[id].by \/ (id = eventOf[c] /\ rows'[id].by = pbx[c].by)
           /\ id = eventOf[c] /\ faults' = 0 /\ active[c] = "ringing" /\ rows[id].by = Nobody =>
                rows'[id].by = pbx[c].by
  <2>1. CASE rows' = rows /\ (faults' # 0 \/ active[c] # "ringing" \/ eventOf[c] \notin Present
                                \/ rows[eventOf[c]].by # Nobody)
    BY <1>4, <2>1 DEF TypeOK, Present
  <2>2. CASE rows' = [rows EXCEPT ![eventOf[c]].by = pbx[c].by] /\ eventOf[c] \in Present
    <3>. DEFINE row == [rows[eventOf[c]] EXCEPT !.by = pbx[c].by]
    <3>1. pbx[c].by \in Devices \cup {Nobody}
      BY DEF TypeOK
    <3>2. /\ row \in Rows /\ row.ring = rows[eventOf[c]].ring /\ row.by = pbx[c].by
          /\ row.image_file = rows[eventOf[c]].image_file /\ row.ended = rows[eventOf[c]].ended
      BY <1>4, <2>2, <3>1 DEF Rows
    <3>3. rows' = [rows EXCEPT ![eventOf[c]] = row]
      BY <2>2
    <3>. HIDE DEF row
    <3>4. \A id \in Ids : rows'[id] = IF id = eventOf[c] THEN row ELSE rows[id]
      BY <3>3 DEF TypeOK
    <3>5. DOMAIN rows' = Ids /\ rows' = [id \in Ids |-> rows'[id]]
      BY <3>3 DEF TypeOK
    <3>6. Present \subseteq Ids /\ \A id \in Ids \ Present : rows[id] = NoRow
      BY DEF Present
    <3>7. rows' \in [Ids -> Rows \cup {NoRow}]
      BY <3>2, <3>4, <3>5 DEF TypeOK
    <3>8. \A id \in Ids : id \notin Present => rows'[id] = NoRow
      BY <2>2, <3>4, <3>6
    <3>9. QED
      BY <1>4, <2>2, <3>2, <3>4, <3>6, <3>7, <3>8
  <2>3. QED
    BY <1>6, <2>1, <2>2
<1>8. Present' = Present
  BY <1>7, NoRowAssumption DEF Present
<1>9. TypeOK' /\ WarmWhileRinging' /\ OwnPictures' /\ OwnRows'
  <2>1. TypeOK'
    BY <1>2, <1>3, <1>5, <1>7 DEF TypeOK
  <2>2. WarmWhileRinging'
    BY <1>2 DEF WarmWhileRinging
  <2>3. OwnPictures'
    BY <1>2, <1>7, <1>8 DEF OwnPictures
  <2>4. OwnRows'
    BY <1>2, <1>7, <1>8 DEF OwnRows
  <2>5. QED
    BY <2>1, <2>2, <2>3, <2>4
<1>10. OneRowEach'
  BY <1>3, <1>7, <1>8, MoreHeard
<1>11. RowTellsOwnRing'
  <2>1. ASSUME NEW id \in Present, id \notin reused
        PROVE  TrueToRing(id)'
    <3>1. TrueToRing(id)
      BY <2>1 DEF RowTellsOwnRing
    <3>2. Shown(id)' = Shown(id)
      BY <1>2, <1>4, <1>7, ShownFacts
    <3>3. rows'[id].by \in {Nobody, pbx[rows[id].ring].by}
      BY <1>4, <1>7, <2>1, <3>1 DEF TrueToRing
    <3>4. QED
      BY <1>3, <1>7, <2>1, <3>1, <3>2, <3>3 DEF TrueToRing
  <2>2. QED
    BY <1>2, <1>8, <2>1 DEF RowTellsOwnRing
<1>12. Complete'
  <2>. SUFFICES ASSUME faults' = 0
                PROVE  /\ \A id \in Present \ reused : Coming(id)'
                       /\ \A d \in Calls : Event("Newchannel", d) \in Waiting' =>
                            /\ pbx'[d].by # Nobody => Event("Answered", d) \in Waiting'
                            /\ pbx'[d].state = "over" => Event("Hangup", d) \in Waiting'
    BY <1>2, <1>8 DEF Complete
  <2>1. ASSUME NEW id \in Present, id \notin reused
        PROVE  Coming(id)'
    <3>1. Coming(id)
      BY <1>5, <2>1 DEF Complete
    <3>. DEFINE d == rows[id].ring
    <3>2. /\ d \in Calls /\ rows'[id].ring = d /\ rows'[id].ended = rows[id].ended
          /\ eventOf'[d] = eventOf[d] /\ pbx'[d] = pbx[d]
      BY <1>2, <1>3, <1>4, <1>7, <2>1
    <3>3. Event("Hangup", d) \in Waiting' <=> Event("Hangup", d) \in Waiting
      BY <1>3, <3>2
    <3>4. \A e \in Waiting' : e \in Waiting
      BY <1>3
    <3>5. CASE d = c
      <4>1. ~rows[id].ended
        BY <1>3, <3>1, <3>5, EventFacts DEF Coming
      <4>2. eventOf[c] = id /\ active[c] = "ringing" /\ rows[id].by = Nobody
        BY <1>3, <3>1, <3>5, <4>1 DEF Coming
      <4>3. rows'[id].by = pbx[c].by
        BY <1>7, <2>1, <4>2
      <4>4. active'[c] # "untracked"
        BY <1>5, <4>2
      <4>5. Event("Answered", c) \notin Waiting' /\ pbx[c].state # "ringing"
        BY <1>3, EventFacts DEF Happened
      <4>6. QED
        BY <3>1, <3>2, <3>3, <3>5, <4>1, <4>2, <4>3, <4>4, <4>5 DEF Coming
    <3>6. CASE d # c
      <4>1. rows'[id].by = rows[id].by
        BY <1>4, <1>7, <2>1, <3>6
      <4>2. active'[d] = active[d]
        BY <1>5, <3>2, <3>6
      <4>3. Event("Answered", d) \in Waiting' <=> Event("Answered", d) \in Waiting
        BY <1>3, <3>2, <3>6
      <4>4. QED
        BY <3>1, <3>2, <3>3, <3>4, <4>1, <4>2, <4>3 DEF Coming
    <3>7. QED
      BY <3>5, <3>6
  <2>2. ASSUME NEW d \in Calls, Event("Newchannel", d) \in Waiting'
        PROVE  /\ pbx'[d].by # Nobody => Event("Answered", d) \in Waiting'
               /\ pbx'[d].state = "over" => Event("Hangup", d) \in Waiting'
    <3>1. d # c
      BY <1>1, <2>2, NoLaterStart, EventFacts
    <3>2. QED
      BY <1>3, <1>5, <2>2, <3>1 DEF Complete
  <2>3. QED
    BY <2>1, <2>2
<1>13. QED
  BY <1>3, <1>9, <1>10, <1>11, <1>12

LEMMA NewchannelKeeps ==
  ASSUME IInv, NEW c \in Calls, OnNewchannel(c)
  PROVE  IInv'
<1>. USE DEF IInv
<1>1. NextEvent("Newchannel", c) /\ Take
  BY DEF OnNewchannel
<1>2. /\ files' = files /\ deleting' = deleting /\ active' = [active EXCEPT ![c] = "ringing"]
      /\ \/ /\ CommitWorks
            /\ rows' = [rows EXCEPT ![NewId] = NewRow(c)]
            /\ reused' = IF Meant(NewId) THEN reused \cup {NewId} ELSE reused \ {NewId}
            /\ eventOf' = [eventOf EXCEPT ![c] = NewId]
            /\ \/ snap' = [snap EXCEPT ![c] = "fetching"] /\ snapId' = [snapId EXCEPT ![c] = NewId]
               \/ UNCHANGED <<snap, snapId>>
            /\ RingStarted(c)
         \/ CommitFails /\ UNCHANGED <<rows, reused, eventOf, snap, snapId, warmVars>>
  BY DEF OnNewchannel
<1>3. /\ queue' \in Seq(Events) /\ pbx' = pbx /\ InOrder' /\ Happened' /\ Heard' = Heard \cup {c}
      /\ Event("Newchannel", c) \in Waiting /\ Waiting' = Waiting \ {Event("Newchannel", c)}
      /\ \A k \in {"Newchannel", "Answered", "Hangup"}, d \in Calls :
           d # c \/ k # "Newchannel" => (Event(k, d) \in Waiting' <=> Event(k, d) \in Waiting)
  BY <1>1, TakeKeeps
<1>4. \A n \in Present : /\ n \in Ids /\ rows[n] \in Rows /\ rows[n].ring \in Calls
                         /\ rows[n] # NoRow /\ rows[n].ring \in Heard /\ rows[n].ring # c
  BY <1>3, RowFacts DEF Rows, Present, OneRowEach, Heard
<1>5. /\ active' \in [Calls -> {"untracked", "ringing", "answered"}] /\ active'[c] = "ringing"
      /\ \A d \in Calls : d # c => active'[d] = active[d]
  BY <1>2 DEF TypeOK
<1>6. CASE CommitFails /\ UNCHANGED <<rows, reused, eventOf, snap, snapId, warmVars>>
  <2>1. /\ rows' = rows /\ reused' = reused /\ eventOf' = eventOf /\ snap' = snap
        /\ snapId' = snapId /\ warm' = warm /\ overdue' = overdue /\ warmTask' = warmTask
        /\ Present' = Present
    BY <1>6 DEF warmVars, Present
  <2>2. faults' \in 0 .. MaxFaults /\ faults' # 0
    BY <1>6, MaxFaultsAssumption DEF CommitFails, TypeOK
  <2>3. TypeOK'
    BY <1>2, <1>3, <1>5, <2>1, <2>2 DEF TypeOK
  <2>4. OneRowEach'
    BY <1>3, <2>1, MoreHeard
  <2>5. OwnRows' /\ OwnPictures' /\ WarmWhileRinging' /\ Complete'
    BY <1>2, <2>1, <2>2 DEF OwnRows, OwnPictures, WarmWhileRinging, Complete
  <2>6. RowTellsOwnRing'
    <3>1. \A n \in Present : Shown(n)' = Shown(n)
      BY <1>2, <1>4, <2>1, ShownFacts
    <3>2. QED
      BY <1>3, <2>1, <3>1 DEF RowTellsOwnRing, TrueToRing
  <2>7. QED
    BY <1>3, <2>3, <2>4, <2>5, <2>6
<1>7. CASE CommitWorks /\ rows' = [rows EXCEPT ![NewId] = NewRow(c)]
  <2>. DEFINE id == NewId
              row == NewRow(c)
  <2>1. pbx[c].door \in Doors /\ pbx[c].state # "none"
    BY <1>3, EventFacts DEF TypeOK, Happened
  <2>2. /\ row \in Rows /\ row.ring = c /\ row.by = Nobody /\ ~row.ended /\ ~row.image_file
        /\ row # NoRow
    <3>1. row = [door |-> pbx[c].door, ring |-> c, by |-> Nobody, ended |-> FALSE,
                 opened |-> FALSE, image_file |-> FALSE, age |-> 0]
      BY DEF NewRow
    <3>. HIDE DEF row
    <3>2. /\ row \in Rows /\ row.ring = c /\ row.by = Nobody
          /\ row.ended = FALSE /\ row.image_file = FALSE
      BY <2>1, <3>1 DEF Rows
    <3>3. QED
      BY <3>2, NoRowAssumption
  <2>3. /\ id \in Nat \ {0} /\ id \notin Present /\ IsFiniteSet(Heard)
        /\ id <= Cardinality(Heard) + 1
    BY NewIdFacts
  <2>4. /\ Cardinality(Heard') = Cardinality(Heard) + 1 /\ Cardinality(Heard) \in Nat
        /\ Cardinality(Heard') <= Cardinality(Calls) /\ Cardinality(Calls) \in Nat
    <3>1. c \notin Heard
      BY <1>3 DEF Heard
    <3>2. Cardinality(Heard \cup {c}) = Cardinality(Heard) + 1 /\ Cardinality(Heard) \in Nat
      BY <2>3, <3>1, FS_AddElement, FS_CardinalityType
    <3>3. Heard \cup {c} \subseteq Calls
      BY DEF Heard
    <3>4. Cardinality(Heard \cup {c}) <= Cardinality(Calls) /\ Cardinality(Calls) \in Nat
      BY <3>3, CallsAssumption, FS_Subset, FS_CardinalityType
    <3>5. QED
      BY <1>3, <3>2, <3>4
  <2>5. id \in Ids
    BY <2>3, <2>4 DEF Ids
  <2>6. /\ faults' = faults /\ rows' = [rows EXCEPT ![id] = row]
        /\ reused' = IF Meant(id) THEN reused \cup {id} ELSE reused \ {id}
        /\ eventOf' = [eventOf EXCEPT ![c] = id]
        /\ \/ snap' = [snap EXCEPT ![c] = "fetching"] /\ snapId' = [snapId EXCEPT ![c] = id]
           \/ snap' = snap /\ snapId' = snapId
        /\ RingStarted(c)
    <3>1. ~(CommitFails /\ UNCHANGED <<rows, reused, eventOf, snap, snapId, warmVars>>)
      BY <1>7 DEF CommitWorks, CommitFails, TypeOK
    <3>2. QED
      BY <1>2, <1>7, <3>1 DEF CommitWorks
  <2>. HIDE DEF id, row
  <2>7. /\ rows'[id] = row /\ \A n \in Ids : n # id => rows'[n] = rows[n]
        /\ rows' \in [Ids -> Rows \cup {NoRow}]
        /\ eventOf'[c] = id /\ \A d \in Calls : d # c => eventOf'[d] = eventOf[d]
        /\ eventOf' \in [Calls -> Ids \cup {0}]
    BY <2>2, <2>5, <2>6 DEF TypeOK
  <2>8. Present' = Present \cup {id}
    BY <2>2, <2>3, <2>5, <2>7 DEF Present
  <2>9. /\ snap' \in [Calls -> {"none", "fetching", "writing"}] /\ snapId' \in [Calls -> Ids \cup {0}]
        /\ \A d \in Calls : \/ snap'[d] = snap[d] /\ snapId'[d] = snapId[d]
                            \/ d = c /\ snap'[d] = "fetching" /\ snapId'[d] = id
    <3>1. CASE snap' = [snap EXCEPT ![c] = "fetching"] /\ snapId' = [snapId EXCEPT ![c] = id]
      BY <2>5, <3>1 DEF TypeOK
    <3>2. CASE snap' = snap /\ snapId' = snapId
      BY <3>2 DEF TypeOK
    <3>3. QED
      BY <2>6, <3>1, <3>2
  <2>10. /\ warm' \in SUBSET Calls /\ overdue' \in SUBSET Calls /\ warmTask' \in BOOLEAN
         /\ WarmWhileRinging'
    <3>1. \/ warm' = warm \cup {c} /\ overdue' = overdue \ {c} /\ warmTask' = TRUE
          \/ warm' = warm /\ overdue' = overdue /\ warmTask' = warmTask
      BY <2>6 DEF RingStarted, warmVars
    <3>2. CASE warm' = warm \cup {c} /\ overdue' = overdue \ {c} /\ warmTask' = TRUE
      BY <3>2 DEF TypeOK, WarmWhileRinging
    <3>3. CASE warm' = warm /\ overdue' = overdue /\ warmTask' = warmTask
      BY <3>3 DEF TypeOK, WarmWhileRinging
    <3>4. QED
      BY <3>1, <3>2, <3>3
  <2>11. reused' \in SUBSET Ids /\ (id \notin reused' => ~Meant(id))
         /\ \A n \in Present : n \notin reused' => n \notin reused
    BY <2>3, <2>5, <2>6 DEF TypeOK
  <2>12. id \notin reused' =>
           \A d \in Calls : eventOf[d] # id /\ ~(snap[d] # "none" /\ snapId[d] = id)
    BY <2>11 DEF Meant
  <2>13. TypeOK'
    BY <1>2, <1>3, <1>5, <2>6, <2>7, <2>9, <2>10, <2>11 DEF TypeOK
  <2>14. OneRowEach'
    <3>. DEFINE a == Cardinality(Heard)
                b == Cardinality(Heard')
    <3>1. a \in Nat /\ b = a + 1 /\ id <= b /\ id \in Nat
      BY <2>3, <2>4
    <3>2. \A n \in Present : n \in Nat /\ n <= a
      BY DEF OneRowEach, Present, Ids
    <3>. HIDE DEF a, b
    <3>3. \A n \in Present' : n <= b
      BY <2>8, <3>1, <3>2
    <3>4. \A n \in Present' : rows'[n].ring \in Heard'
      BY <1>3, <1>4, <2>2, <2>3, <2>7, <2>8
    <3>5. QED
      BY <3>3, <3>4 DEF OneRowEach, b
  <2>15. OwnRows'
    <3>1. ASSUME NEW n \in Present', n \notin reused', NEW d \in Calls,
                 eventOf'[d] = n \/ (snap'[d] # "none" /\ snapId'[d] = n)
          PROVE  rows'[n].ring = d
      <4>1. CASE n = id
        BY <2>2, <2>7, <2>9, <2>12, <3>1, <4>1
      <4>2. CASE n # id
        <5>1. n \in Present /\ n \notin reused /\ n \in Ids /\ rows'[n] = rows[n]
          BY <1>4, <2>7, <2>8, <2>11, <3>1, <4>2
        <5>2. eventOf[d] = n \/ (snap[d] # "none" /\ snapId[d] = n)
          BY <2>7, <2>9, <3>1, <4>2
        <5>3. QED
          BY <5>1, <5>2 DEF OwnRows
      <4>3. QED
        BY <4>1, <4>2
    <3>2. QED
      BY <3>1 DEF OwnRows
  <2>16. OwnPictures'
    <3>1. ASSUME NEW d \in Calls, snap'[d] = "writing",
                 snapId'[d] \in Present', snapId'[d] \notin reused'
          PROVE  files'[snapId'[d]] \in {Nobody, rows'[snapId'[d]].ring}
      <4>1. snap[d] = "writing" /\ snapId'[d] = snapId[d]
        BY <2>9, <3>1
      <4>2. snapId[d] # id
        BY <2>12, <3>1, <4>1
      <4>3. snapId[d] \in Present /\ snapId[d] \notin reused /\ rows'[snapId[d]] = rows[snapId[d]]
        BY <1>4, <2>7, <2>8, <2>11, <3>1, <4>1, <4>2
      <4>4. QED
        BY <1>2, <4>1, <4>3 DEF OwnPictures
    <3>2. QED
      BY <3>1 DEF OwnPictures
  <2>17. RowTellsOwnRing'
    <3>1. ASSUME NEW n \in Present', n \notin reused'
          PROVE  TrueToRing(n)'
      <4>1. CASE n = id
        <5>1. Shown(n)' = Nobody
          BY <2>2, <2>7, <4>1 DEF Shown
        <5>2. QED
          BY <2>2, <2>7, <4>1, <5>1 DEF TrueToRing
      <4>2. CASE n # id
        <5>1. n \in Present /\ n \notin reused /\ n \in Ids /\ rows'[n] = rows[n]
          BY <1>4, <2>7, <2>8, <2>11, <3>1, <4>2
        <5>2. Shown(n)' = Shown(n)
          BY <1>2, <5>1, ShownFacts
        <5>3. TrueToRing(n)
          BY <5>1 DEF RowTellsOwnRing
        <5>4. QED
          BY <1>3, <5>1, <5>2, <5>3 DEF TrueToRing
      <4>3. QED
        BY <4>1, <4>2
    <3>2. QED
      BY <3>1 DEF RowTellsOwnRing
  <2>18. Complete'
    <3>. SUFFICES ASSUME faults = 0
                  PROVE  /\ \A n \in Present' \ reused' : Coming(n)'
                         /\ \A d \in Calls : Event("Newchannel", d) \in Waiting' =>
                              /\ pbx'[d].by # Nobody => Event("Answered", d) \in Waiting'
                              /\ pbx'[d].state = "over" => Event("Hangup", d) \in Waiting'
      BY <2>6 DEF Complete
    <3>1. ASSUME NEW n \in Present', n \notin reused'
          PROVE  Coming(n)'
      <4>1. CASE n = id
        <5>1. /\ pbx[c].by # Nobody => Event("Answered", c) \in Waiting'
              /\ pbx[c].state = "over" => Event("Hangup", c) \in Waiting'
          BY <1>3 DEF Complete
        <5>2. QED
          BY <1>3, <1>5, <2>2, <2>7, <4>1, <5>1 DEF Coming
      <4>2. CASE n # id
        <5>1. n \in Present /\ n \notin reused /\ n \in Ids /\ rows'[n] = rows[n]
          BY <1>4, <2>7, <2>8, <2>11, <3>1, <4>2
        <5>2. Coming(n)
          BY <5>1 DEF Complete
        <5>. DEFINE d == rows[n].ring
        <5>3. d \in Calls /\ d # c /\ eventOf'[d] = eventOf[d] /\ active'[d] = active[d]
          BY <1>4, <1>5, <2>7, <5>1
        <5>4. /\ Event("Answered", d) \in Waiting' <=> Event("Answered", d) \in Waiting
              /\ Event("Hangup", d) \in Waiting' <=> Event("Hangup", d) \in Waiting
              /\ \A e \in Waiting' : e \in Waiting
          BY <1>3, <5>3
        <5>5. QED
          BY <1>3, <5>1, <5>2, <5>3, <5>4 DEF Coming
      <4>3. QED
        BY <4>1, <4>2
    <3>2. ASSUME NEW d \in Calls, Event("Newchannel", d) \in Waiting'
          PROVE  /\ pbx'[d].by # Nobody => Event("Answered", d) \in Waiting'
                 /\ pbx'[d].state = "over" => Event("Hangup", d) \in Waiting'
      <4>1. d # c /\ Event("Newchannel", d) \in Waiting
        BY <1>3, <3>2
      <4>2. QED
        BY <1>3, <4>1 DEF Complete
    <3>3. QED
      BY <3>1, <3>2
  <2>19. QED
    BY <1>3, <2>10, <2>13, <2>14, <2>15, <2>16, <2>17, <2>18
<1>8. QED
  BY <1>2, <1>6, <1>7

-----------------------------------------------------------------------------
(* The theorems.                                                           *)

LEMMA InitIInv == Init => IInv
<1>. SUFFICES ASSUME Init PROVE IInv
  OBVIOUS
<1>1. Waiting = {} /\ InOrder
  BY EmptyQueue DEF Init
<1>2. Present = {}
  BY DEF Init, Present
<1>3. TypeOK
  <2>1. queue \in Seq(Events)
    BY EmptySeq DEF Init
  <2>2. pbx \in [Calls -> [state : {"none", "ringing", "answered", "over"},
                           door : Doors, by : Devices \cup {Nobody}]]
    <3>1. \A c \in Calls : pbx[c] \in [state : {"none", "ringing", "answered", "over"},
                                       door : Doors, by : Devices \cup {Nobody}]
      BY DEF Init
    <3>2. QED
      BY <3>1 DEF Init
  <2>3. /\ faults \in 0 .. MaxFaults
        /\ rows \in [Ids -> Rows \cup {NoRow}] /\ files \in [Ids -> Calls \cup {Nobody}]
        /\ active \in [Calls -> {"untracked", "ringing", "answered"}]
        /\ snap \in [Calls -> {"none", "fetching", "writing"}]
    BY MaxFaultsAssumption DEF Init
  <2>4. eventOf \in [Calls -> Ids \cup {0}] /\ snapId \in [Calls -> Ids \cup {0}]
    BY DEF Init
  <2>5. QED
    BY <2>1, <2>2, <2>3, <2>4 DEF Init, TypeOK
<1>4. Happened
  BY <1>1 DEF Init, Happened
<1>5. OneRowEach /\ OwnRows /\ OwnPictures /\ RowTellsOwnRing
  BY <1>2 DEF OneRowEach, OwnRows, OwnPictures, RowTellsOwnRing
<1>6. Complete
  BY <1>1, <1>2 DEF Complete
<1>7. WarmWhileRinging
  BY DEF Init, WarmWhileRinging
<1>8. QED
  BY <1>1, <1>3, <1>4, <1>5, <1>6, <1>7 DEF IInv

LEMMA NextKeeps ==
  ASSUME IInv, [Next]_vars
  PROVE  IInv'
<1>1. CASE Listener
  BY <1>1, NewchannelKeeps, AnsweredKeeps, HangupKeeps DEF Listener
<1>2. CASE \E c \in Calls : DoorRings(c) \/ DeviceAnswers(c) \/ DoorHangsUp(c)
  BY <1>2, CallKeeps
<1>3. CASE \E c \in Calls : SnapFails(c) \/ SnapWrites(c) \/ SnapCommits(c)
  BY <1>3, SnapKeeps
<1>4. CASE \E d \in Doors : DoorOpened(d)
  BY <1>4, RequestsKeep
<1>5. CASE \E id \in Ids : DeleteReads(id) \/ GrowOld(id)
  BY <1>5, RequestsKeep, DeleteKeeps
<1>6. CASE DeleteCommits
  BY <1>6, DeleteKeeps
<1>7. CASE (\E c \in Calls : WarmOverdue(c)) \/ AppLooks \/ WarmLooks
  BY <1>7, WarmKeeps
<1>8. CASE AsteriskRestarts
  BY <1>8, AsteriskKeeps
<1>9. CASE BackendRestarts
  BY <1>9, BackendKeeps
<1>10. CASE UNCHANGED vars
  <2>1. /\ UNCHANGED <<amiVars, trackVars, storeVars, taskVars>>
        /\ warm' = warm /\ overdue' = overdue /\ warmTask' = warmTask
    BY <1>10 DEF vars, warmVars
  <2>2. TypeOK' /\ WarmWhileRinging'
    BY <2>1 DEF IInv, TypeOK, WarmWhileRinging, amiVars, trackVars, storeVars, taskVars
  <2>3. QED
    BY <2>1, <2>2, SameRows
<1>11. QED
  BY <1>1, <1>2, <1>3, <1>4, <1>5, <1>6, <1>7, <1>8, <1>9, <1>10 DEF Next

LEMMA Inductive == Spec => []IInv
<1>1. Init => IInv
  BY InitIInv
<1>2. IInv /\ [Next]_vars => IInv'
  BY NextKeeps
<1>3. QED
  BY <1>1, <1>2, PTL DEF Spec

\* The variables keep their types: the listener never runs out of ids, for every
\* call makes one row at most and deleted rows give their ids back.
THEOREM TypeCorrect == Spec => []TypeOK
<1>1. IInv => TypeOK
  BY DEF IInv
<1>2. QED
  BY <1>1, Inductive, PTL

\* No row is credited with another ring's answer, end or picture.
THEOREM RowsTellOwnRing == Spec => []RowTellsOwnRing
<1>1. IInv => RowTellsOwnRing
  BY DEF IInv
<1>2. QED
  BY <1>1, Inductive, PTL

\* Once the listener has caught up, and nothing failed, the history is complete.
THEOREM HistoryComplete == Spec => []HistoryCatchesUp
<1>1. IInv => HistoryCatchesUp
  <2>. SUFFICES ASSUME IInv, queue = <<>>, faults = 0, NEW id \in Present, id \notin reused
                PROVE  LET call == pbx[rows[id].ring] IN
                       rows[id].by = call.by /\ (rows[id].ended <=> call.state = "over")
    BY DEF HistoryCatchesUp
  <2>1. Waiting = {}
    BY EmptyQueue
  <2>2. Coming(id) /\ TrueToRing(id)
    BY DEF IInv, Complete, RowTellsOwnRing
  <2>3. QED
    BY <2>1, <2>2 DEF Coming, TrueToRing
<1>2. QED
  BY <1>1, Inductive, PTL

\* The pictures of a ring with time left are kept warm.
THEOREM KeptWarm == Spec => []WarmWhileRinging
<1>1. IInv => WarmWhileRinging
  BY DEF IInv
<1>2. QED
  BY <1>1, Inductive, PTL
==============================================================================
