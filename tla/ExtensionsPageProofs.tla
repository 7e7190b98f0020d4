------------------------ MODULE ExtensionsPageProofs ------------------------
(***************************************************************************)
(* For any number of extensions, groups, saves and requests: nothing the   *)
(* page does takes back a door setting, a save moves nobody else in or out *)
(* of a ring group it has up to date, a save that says it succeeded has    *)
(* put its extension in exactly the groups it showed, and a page with      *)
(* nothing under way shows the table, unless it is excused.                *)
(*                                                                         *)
(* The argument follows the requests of a save: it has one at a time, or   *)
(* one write for each group that is left, and a group nobody else has      *)
(* written is as it was loaded until its write is served.  For the list it *)
(* goes row by row: a row that differs from the table has the one request  *)
(* that will put it right under way.                                       *)
(***************************************************************************)
EXTENDS ExtensionsPage, TLAPS

FormDialogs == [mode : {"add", "edit"}, ext : Ext, row : Row, sel : SUBSET Group,
                touched : SUBSET Group, saving : BOOLEAN]
DeleteDialogs == [mode : {"delete"}, ext : Ext, saving : BOOLEAN]
Dialogs == {Closed, Crashed} \cup FormDialogs \cup DeleteDialogs

Loads == {NotLoaded} \cup [Group -> GroupRow]
Running == [phase : {"row", "groups", "synced", "reloading", "reloaded"}, ext : Ext,
            add : BOOLEAN, sel : SUBSET Group, groups : Loads, row : Row,
            left : SUBSET Group, onScreen : BOOLEAN, foreign : SUBSET Group]

Idle == [phase : {"idle"}, onScreen : {FALSE}]

Types ==
  /\ ext \in [Ext -> Shown] /\ rows \in [Ext -> Shown]
  /\ grp \in [Group -> GroupRow] /\ groups \in Loads
  /\ dialog \in Dialogs
  /\ saves \in [Save -> Running \cup Idle]
  /\ clicks \in 0 .. MaxClicks /\ others \in 0 .. MaxOthers /\ excused \in BOOLEAN

\* What a request carries, and what it may be answered with.
Shape(r) == r \in [kind : {r.kind}, about : {r.about}, body : {r.body}, from : {r.from},
                   phase : {r.phase}, result : {r.result}, answer : {r.answer}]
ReqOK(r) ==
  /\ Shape(r)
  /\ r.phase \in {"sent", "served"}
  /\ r.kind \in {"loadExt", "loadGrp", "toggle", "patch", "create", "delete", "putGroup"}
  /\ IF r.kind \in {"patch", "create", "putGroup"} THEN r.from \in Save
     ELSE r.from = "none" \/ (r.kind = "loadGrp" /\ r.from \in Save)
  /\ r.kind \in {"toggle", "patch", "create", "delete"} => r.about \in Ext
  /\ r.kind = "toggle" => r.body.on \in BOOLEAN /\ r.body.was \in BOOLEAN
  /\ r.kind \in {"patch", "create"} => r.body \in Row
  /\ r.kind = "putGroup" =>
       /\ r.about \in Group /\ r.body.row \in GroupRow
       /\ \A e \in Ext \ {r.body.for} : (e \in r.body.row.members) = (e \in r.body.loaded.members)
  /\ r.result = "ok" =>
       /\ r.kind = "loadExt" => r.answer \in [Ext -> Shown]
       /\ r.kind = "loadGrp" => r.answer \in [Group -> GroupRow]
       /\ r.kind \in {"toggle", "patch", "create"} => r.answer \in Row

\* A request of a save is the one the save is waiting for.
Member(sv, members, g) == (sv.ext \in members) = (g \in sv.sel)
Owned(r) ==
  LET sv == saves[r.from] IN
  r.from \in Save =>
    /\ r.kind \in {"patch", "create"} => sv.phase = "row"
    /\ r.kind = "loadGrp" => sv.phase = "reloading"
    /\ r.kind = "putGroup" /\ sv.phase # "idle" =>
         sv.phase = "groups" /\ r.about \in sv.left /\ Member(sv, r.body.row.members, r.about)
Requests == \A r \in reqs : ReqOK(r) /\ Owned(r)

OneAtATime ==
  \A r1, r2 \in reqs :
    r1.from \in Save /\ r1.from = r2.from
      /\ (r1.kind = "putGroup" /\ r2.kind = "putGroup" => r1.about = r2.about) => r1 = r2

\* A group nobody else has written is as it was loaded, or as the save wants it.
Held(s, g) ==
  LET sv == saves[s] IN
  /\ sv.phase = "row" => grp[g] = sv.groups[g]
  /\ sv.phase # "row" /\ g \notin sv.left => Member(sv, grp[g].members, g)
  /\ \A r \in reqs : r.kind = "putGroup" /\ r.from = s /\ r.about = g /\ r.result = "ok" =>
       Member(sv, grp[g].members, g)
SavesHold ==
  \A s \in Save : saves[s].phase # "idle" =>
    /\ saves[s].phase \in {"synced", "reloading", "reloaded"} => saves[s].left = {}
    /\ saves[s].groups # NotLoaded => \A g \in Group \ saves[s].foreign : Held(s, g)

IInv == Types /\ Requests /\ OneAtATime /\ SavesHold

-----------------------------------------------------------------------------
(* Dialogs, saves and requests.                                            *)

LEMMA DialogFacts ==
  ASSUME dialog \in Dialogs
  PROVE  /\ dialog.mode \in {"none", "crashed", "add", "edit", "delete"}
         /\ dialog.mode \in {"add", "edit"} => dialog \in FormDialogs
         /\ dialog.mode = "delete" => dialog \in DeleteDialogs
         /\ Closed \in Dialogs /\ Crashed \in Dialogs
BY DEF Dialogs, FormDialogs, DeleteDialogs, Closed, Crashed

\* A dialog that is told its save has ended stays what it is.
LEMMA SavingFacts ==
  ASSUME NEW d \in Dialogs, NEW b \in BOOLEAN, b => d.mode \in {"add", "edit", "delete"}
  PROVE  [d EXCEPT !.saving = b] \in Dialogs
<1>1. CASE d \in FormDialogs
  BY <1>1 DEF Dialogs, FormDialogs
<1>2. CASE d \in DeleteDialogs
  BY <1>2 DEF Dialogs, DeleteDialogs
<1>3. CASE d = Closed
  <2>1. [d EXCEPT !.saving = b] = d
    BY <1>3 DEF Closed
  <2>2. QED
    BY <2>1
<1>4. CASE d = Crashed
  <2>1. [d EXCEPT !.saving = b] = d
    BY <1>4 DEF Crashed
  <2>2. QED
    BY <2>1
<1>5. QED
  BY <1>1, <1>2, <1>3, <1>4 DEF Dialogs

LEMMA RowFacts ==
  ASSUME NEW row \in Shown
  PROVE  /\ row # Gone => row \in Row
         /\ Gone \in Shown /\ Row \subseteq Shown
BY DEF Shown

LEMMA SaveFacts ==
  ASSUME Types, NEW s \in Save
  PROVE  /\ saves[s].phase # "idle" => saves[s] \in Running
         /\ saves[s].phase = "idle" => saves[s] \in Idle
         /\ saves[s].phase \in {"idle", "row", "groups", "synced", "reloading", "reloaded"}
         /\ IdleSave \in Idle /\ IdleSave.phase = "idle"
BY DEF Types, Running, Idle, IdleSave

LEMMA LoadFacts ==
  ASSUME NEW gs \in Loads, gs # NotLoaded
  PROVE  gs \in [Group -> GroupRow]
BY DEF Loads

LEMMA NewFacts ==
  ASSUME NEW kind, NEW about, NEW body, NEW from
  PROVE  LET q == NewReq(kind, about, body, from) IN
         /\ Shape(q) /\ q.kind = kind /\ q.about = about /\ q.body = body /\ q.from = from
         /\ q.phase = "sent" /\ q.result = "none"
BY DEF NewReq, Shape

Answered(r, result, answer) ==
  [r EXCEPT !.phase = "served", !.result = result, !.answer = answer]
LEMMA AnswerFacts ==
  ASSUME NEW r, Shape(r), NEW result, NEW answer
  PROVE  LET q == Answered(r, result, answer) IN
         /\ Shape(q) /\ q.kind = r.kind /\ q.about = r.about /\ q.body = r.body /\ q.from = r.from
         /\ q.phase = "served" /\ q.result = result /\ q.answer = answer
<1>. DEFINE q == Answered(r, result, answer)
<1>1. q \in [kind : {r.kind}, about : {r.about}, body : {r.body}, from : {r.from},
            phase : {"served"}, result : {result}, answer : {answer}]
  BY DEF Shape, Answered
<1>. HIDE DEF q
<1>2. /\ Shape(q) /\ q.kind = r.kind /\ q.about = r.about /\ q.body = r.body /\ q.from = r.from
      /\ q.phase = "served" /\ q.result = result /\ q.answer = answer
  BY <1>1 DEF Shape
<1>3. QED
  BY <1>2 DEF q

\* The same save as before, but that more may have been written by others.
SameSave(s) ==
  /\ saves'[s].phase = saves[s].phase
  /\ saves[s].phase # "idle" =>
       /\ saves'[s].ext = saves[s].ext /\ saves'[s].sel = saves[s].sel
       /\ saves'[s].groups = saves[s].groups /\ saves'[s].left = saves[s].left
       /\ saves'[s].add = saves[s].add /\ saves'[s].row = saves[s].row
       /\ saves[s].foreign \subseteq saves'[s].foreign

\* What others have written is remembered in the saves under way.
LEMMA ForeignFacts ==
  ASSUME Types, NEW gs \in SUBSET Group, NEW by, saves' = Foreign(gs, by)
  PROVE  /\ saves' \in [Save -> Running \cup Idle]
         /\ \A s \in Save : SameSave(s)
         /\ \A s \in Save : saves[s].phase # "idle" /\ s # by => gs \subseteq saves'[s].foreign
<1>1. ASSUME NEW s \in Save
      PROVE  /\ saves'[s] \in Running \cup Idle
             /\ saves'[s].phase = saves[s].phase
             /\ saves[s].phase # "idle" =>
                  /\ saves'[s].ext = saves[s].ext /\ saves'[s].sel = saves[s].sel
                  /\ saves'[s].groups = saves[s].groups /\ saves'[s].left = saves[s].left
                  /\ saves'[s].add = saves[s].add /\ saves'[s].row = saves[s].row
                  /\ saves[s].foreign \subseteq saves'[s].foreign
                  /\ s # by => gs \subseteq saves'[s].foreign
  <2>1. CASE saves[s].phase = "idle" \/ s = by
    <3>1. saves'[s] = saves[s]
      BY <2>1 DEF Foreign
    <3>2. QED
      BY <2>1, <3>1 DEF Types
  <2>2. CASE saves[s].phase # "idle" /\ s # by
    <3>1. saves'[s] = [saves[s] EXCEPT !.foreign = saves[s].foreign \cup gs]
      BY <2>2 DEF Foreign
    <3>2. saves[s] \in Running
      BY <2>2, SaveFacts
    <3>3. QED
      BY <3>1, <3>2 DEF Running
  <2>3. QED
    BY <2>1, <2>2
<1>2. saves' \in [Save -> Running \cup Idle]
  BY <1>1 DEF Foreign
<1>3. QED
  BY <1>1, <1>2 DEF SameSave

\* The dialogs go, the saves go on.
LEMMA OffScreenFacts ==
  ASSUME Types, saves' = OffScreen
  PROVE  /\ saves' \in [Save -> Running \cup Idle]
         /\ \A s \in Save : SameSave(s)
         /\ \A s \in Save : saves[s].phase # "idle" => saves'[s].foreign = saves[s].foreign
<1>1. ASSUME NEW s \in Save
      PROVE  /\ saves'[s] \in Running \cup Idle
             /\ saves'[s].phase = saves[s].phase
             /\ saves[s].phase # "idle" =>
                  /\ saves'[s].ext = saves[s].ext /\ saves'[s].sel = saves[s].sel
                  /\ saves'[s].groups = saves[s].groups /\ saves'[s].left = saves[s].left
                  /\ saves'[s].add = saves[s].add /\ saves'[s].row = saves[s].row
                  /\ saves'[s].foreign = saves[s].foreign
  <2>1. saves'[s] = [saves[s] EXCEPT !.onScreen = FALSE]
    BY DEF OffScreen
  <2>2. CASE saves[s].phase = "idle"
    <3>1. saves[s] \in Idle
      BY <2>2, SaveFacts
    <3>2. QED
      BY <2>1, <2>2, <3>1 DEF Idle
  <2>3. CASE saves[s].phase # "idle"
    <3>1. saves[s] \in Running
      BY <2>3, SaveFacts
    <3>2. QED
      BY <2>1, <3>1 DEF Running
  <2>4. QED
    BY <2>2, <2>3
<1>2. saves' \in [Save -> Running \cup Idle]
  BY <1>1 DEF OffScreen
<1>3. QED
  BY <1>1, <1>2 DEF SameSave

-----------------------------------------------------------------------------
(* Steps that send nothing for a save and write no group behind its back.  *)

LEMMA SavesGoOn ==
  ASSUME IInv, Types',
         \A q \in reqs' : q \in reqs \/ (q.from = "none" /\ ReqOK(q)),
         \A s \in Save : \/ SameSave(s)
                         \/ /\ saves'[s].phase = "idle"
                            /\ \A r \in reqs' : r.from = s => r.kind = "putGroup",
         \A s \in Save, g \in Group :
           saves'[s].phase # "idle" => g \in saves'[s].foreign \/ grp'[g] = grp[g]
  PROVE  IInv'
<1>. USE DEF IInv
<1>1. Requests'
  <2>1. ASSUME NEW q \in reqs' PROVE ReqOK(q) /\ Owned(q)'
    <3>1. CASE q.from \notin Save
      <4>1. ReqOK(q)
        BY DEF Requests
      <4>2. Owned(q)'
        BY <3>1 DEF Owned
      <4>3. QED
        BY <4>1, <4>2
    <3>2. CASE q.from \in Save
      <4>1. q \in reqs /\ ReqOK(q) /\ Owned(q)
        BY <3>2, SaveNames DEF Requests
      <4>2. CASE SameSave(q.from)
        <5>1. Owned(q)'
          BY <3>2, <4>1, <4>2 DEF Owned, Member, SameSave
        <5>2. QED
          BY <4>1, <5>1
      <4>3. CASE saves'[q.from].phase = "idle" /\ q.kind = "putGroup"
        <5>1. Owned(q)'
          BY <4>3 DEF Owned
        <5>2. QED
          BY <4>1, <5>1
      <4>4. QED
        BY <3>2, <4>2, <4>3
    <3>3. QED
      BY <3>1, <3>2
  <2>2. QED
    BY <2>1 DEF Requests
<1>2. OneAtATime'
  BY SaveNames DEF OneAtATime
<1>3. SavesHold'
  <2>1. ASSUME NEW s \in Save, saves'[s].phase # "idle"
        PROVE  /\ saves'[s].phase \in {"synced", "reloading", "reloaded"} => saves'[s].left = {}
               /\ saves'[s].groups # NotLoaded =>
                    \A g \in Group \ saves'[s].foreign : Held(s, g)'
    <3>1. SameSave(s) /\ saves[s].phase # "idle"
      BY <2>1 DEF SameSave
    <3>2. \A r \in reqs' : r.from = s => r \in reqs
      BY SaveNames
    <3>3. \A g \in Group \ saves'[s].foreign : grp'[g] = grp[g] /\ g \in Group \ saves[s].foreign
      BY <2>1, <3>1 DEF SameSave
    <3>4. QED
      BY <3>1, <3>2, <3>3 DEF SavesHold, Held, Member, SameSave
  <2>2. QED
    BY <2>1 DEF SavesHold
<1>4. QED
  BY <1>1, <1>2, <1>3

\* A step of one save, which the others do not notice.
LEMMA OwnStep ==
  ASSUME IInv, Types', NEW s \in Save, grp' = grp,
         \A t \in Save \ {s} : saves'[t] = saves[t],
         \A q \in reqs' : q \in reqs \/ (q.from = s /\ ReqOK(q)),
         \A q \in reqs' : q.from = s => Owned(q)',
         \A q1, q2 \in reqs' :
           q1.from = s /\ q2.from = s
             /\ (q1.kind = "putGroup" /\ q2.kind = "putGroup" => q1.about = q2.about) => q1 = q2,
         saves'[s].phase # "idle" =>
           /\ saves'[s].phase \in {"synced", "reloading", "reloaded"} => saves'[s].left = {}
           /\ saves'[s].groups # NotLoaded => \A g \in Group \ saves'[s].foreign : Held(s, g)'
  PROVE  IInv'
<1>. USE DEF IInv
<1>1. Requests'
  <2>1. ASSUME NEW q \in reqs' PROVE ReqOK(q) /\ Owned(q)'
    <3>1. ReqOK(q)
      BY DEF Requests
    <3>2. CASE q.from = s
      BY <3>1, <3>2
    <3>3. CASE q.from # s
      <4>1. Owned(q)
        BY <3>3 DEF Requests
      <4>2. Owned(q)'
        BY <3>3, <4>1 DEF Owned, Member
      <4>3. QED
        BY <3>1, <4>2
    <3>4. QED
      BY <3>2, <3>3
  <2>2. QED
    BY <2>1 DEF Requests
<1>2. OneAtATime'
  BY DEF OneAtATime
<1>3. SavesHold'
  <2>1. ASSUME NEW t \in Save, t # s, saves'[t].phase # "idle"
        PROVE  /\ saves'[t].phase \in {"synced", "reloading", "reloaded"} => saves'[t].left = {}
               /\ saves'[t].groups # NotLoaded =>
                    \A g \in Group \ saves'[t].foreign : Held(t, g)'
    <3>1. saves'[t] = saves[t] /\ \A r \in reqs' : r.from = t => r \in reqs
      BY <2>1
    <3>2. QED
      BY <2>1, <3>1 DEF SavesHold, Held, Member
  <2>2. QED
    BY <2>1 DEF SavesHold
<1>4. QED
  BY <1>1, <1>2, <1>3

\* A request goes on its way; only a write of a group changes one for its own save.
LEMMA RequestGoesOn ==
  ASSUME IInv, Types', NEW r \in reqs, NEW q, ReqOK(q),
         q.kind = r.kind, q.about = r.about, q.body = r.body, q.from = r.from,
         reqs' = (reqs \ {r}) \cup {q},
         \A s \in Save : SameSave(s),
         \A s \in Save, g \in Group :
           saves[s].phase # "idle" =>
             \/ grp'[g] = grp[g]
             \/ r.from # s /\ g \in saves'[s].foreign
             \/ r.from = s /\ r.kind = "putGroup" /\ r.about = g /\ grp'[g] = r.body.row,
         q.result = "ok" /\ q.kind = "putGroup" => grp'[q.about] = q.body.row
  PROVE  IInv'
<1>. USE DEF IInv
<1>1. /\ ReqOK(r) /\ Owned(r)
      /\ \A x \in reqs' : x = q \/ x \in reqs
  BY DEF Requests
<1>2. Requests'
  <2>1. ASSUME NEW x \in reqs' PROVE ReqOK(x) /\ Owned(x)'
    <3>1. \E y \in reqs : /\ x.kind = y.kind /\ x.about = y.about /\ x.body = y.body
                          /\ x.from = y.from /\ ReqOK(x) /\ Owned(y)
      BY <1>1 DEF Requests
    <3>2. Owned(x)
      BY <3>1 DEF Owned
    <3>3. x.from \in Save => SameSave(x.from)
      OBVIOUS
    <3>4. Owned(x)'
      BY <3>2, <3>3 DEF Owned, Member, SameSave
    <3>5. QED
      BY <3>1, <3>4
  <2>2. QED
    BY <2>1 DEF Requests
<1>3. OneAtATime'
  BY <1>1 DEF OneAtATime
<1>4. SavesHold'
  <2>1. ASSUME NEW s \in Save, saves'[s].phase # "idle"
        PROVE  /\ saves'[s].phase \in {"synced", "reloading", "reloaded"} => saves'[s].left = {}
               /\ saves'[s].groups # NotLoaded =>
                    \A g \in Group \ saves'[s].foreign : Held(s, g)'
    <3>1. SameSave(s) /\ saves[s].phase # "idle"
      BY <2>1 DEF SameSave
    <3>2. /\ saves'[s].phase = saves[s].phase /\ saves'[s].ext = saves[s].ext
          /\ saves'[s].sel = saves[s].sel /\ saves'[s].groups = saves[s].groups
          /\ saves'[s].left = saves[s].left /\ saves[s].foreign \subseteq saves'[s].foreign
      BY <3>1 DEF SameSave
    <3>3. ASSUME NEW g \in Group, g \notin saves'[s].foreign, saves[s].groups # NotLoaded
          PROVE  Held(s, g)'
      <4>1. Held(s, g)
        BY <3>1, <3>2, <3>3 DEF SavesHold
      <4>2. CASE grp'[g] = grp[g]
        <5>1. ASSUME NEW x \in reqs', x.kind = "putGroup", x.from = s, x.about = g, x.result = "ok"
              PROVE  Member(saves[s], grp[g].members, g)
          <6>1. CASE x = q
            BY <1>1, <3>1, <4>2, <5>1, <6>1 DEF Owned
          <6>2. CASE x # q
            BY <1>1, <4>1, <5>1, <6>2 DEF Held
          <6>3. QED
            BY <6>1, <6>2
        <5>2. QED
          BY <3>2, <4>1, <4>2, <5>1 DEF Held, Member
      <4>3. CASE r.from = s /\ r.kind = "putGroup" /\ r.about = g /\ grp'[g] = r.body.row
        <5>1. /\ saves[s].phase = "groups" /\ g \in saves[s].left
              /\ Member(saves[s], grp'[g].members, g)
          BY <1>1, <3>1, <4>3 DEF Owned
        <5>2. QED
          BY <3>2, <5>1 DEF Held, Member
      <4>4. QED
        BY <3>1, <3>3, <4>2, <4>3
    <3>4. QED
      BY <3>1, <3>2, <3>3 DEF SavesHold
  <2>2. QED
    BY <2>1 DEF SavesHold
<1>5. QED
  BY <1>2, <1>3, <1>4

-----------------------------------------------------------------------------
(* The backend.                                                            *)

\* What a request that is not refused leaves behind: no door setting changes.
LEMMA HandlerFacts ==
  ASSUME Types, NEW r, ReqOK(r), ~Refused(r)
  PROVE  /\ ExtAfter(r) \in [Ext -> Shown] /\ GrpAfter(r) \in [Group -> GroupRow]
         /\ r.kind = "loadExt" => AnswerOf(r) \in [Ext -> Shown]
         /\ r.kind = "loadGrp" => AnswerOf(r) \in [Group -> GroupRow]
         /\ r.kind \in {"toggle", "patch", "create"} => AnswerOf(r) \in Row
         /\ r.kind \in {"patch", "create", "loadGrp", "loadExt", "toggle"} => GrpAfter(r) = grp
         /\ r.kind = "putGroup" => GrpAfter(r) = [grp EXCEPT ![r.about] = r.body.row]
         /\ \A e \in Ext : ext[e] # Gone /\ ExtAfter(r)[e] # Gone =>
              ExtAfter(r)[e].door = ext[e].door
<1>. USE DEF Types
<1>1. CASE r.kind = "toggle"
  <2>1. r.about \in Ext /\ ext[r.about] \in Row /\ r.body.on \in BOOLEAN
    BY <1>1, RowFacts DEF ReqOK, Refused
  <2>. DEFINE row == [ext[r.about] EXCEPT !.on = r.body.on]
  <2>2. row \in Row /\ row.door = ext[r.about].door
    BY <2>1 DEF Row
  <2>3. ExtAfter(r) = [ext EXCEPT ![r.about] = row]
    BY <1>1 DEF ExtAfter
  <2>4. GrpAfter(r) = grp /\ AnswerOf(r) = ExtAfter(r)[r.about]
    BY <1>1 DEF GrpAfter, AnswerOf
  <2>. HIDE DEF row
  <2>5. QED
    BY <1>1, <2>1, <2>2, <2>3, <2>4, RowFacts
<1>2. CASE r.kind = "patch"
  <2>1. r.about \in Ext /\ ext[r.about] \in Row /\ r.body \in Row
    BY <1>2, RowFacts DEF ReqOK, Refused
  <2>. DEFINE row == PatchedRow(r.about, r.body)
  <2>2. row \in Row /\ row.door = ext[r.about].door
    BY <2>1 DEF Row, PatchedRow
  <2>3. ExtAfter(r) = [ext EXCEPT ![r.about] = row]
    BY <1>2 DEF ExtAfter
  <2>4. GrpAfter(r) = grp /\ AnswerOf(r) = ExtAfter(r)[r.about]
    BY <1>2 DEF GrpAfter, AnswerOf
  <2>. HIDE DEF row
  <2>5. QED
    BY <1>2, <2>1, <2>2, <2>3, <2>4, RowFacts
<1>3. CASE r.kind = "create"
  <2>1. r.about \in Ext /\ ext[r.about] = Gone /\ r.body \in Row
    BY <1>3 DEF ReqOK, Refused
  <2>2. ExtAfter(r) = [ext EXCEPT ![r.about] = r.body]
    BY <1>3 DEF ExtAfter
  <2>3. GrpAfter(r) = grp /\ AnswerOf(r) = ExtAfter(r)[r.about]
    BY <1>3 DEF GrpAfter, AnswerOf
  <2>4. QED
    BY <1>3, <2>1, <2>2, <2>3, RowFacts
<1>4. CASE r.kind = "delete"
  <2>1. ExtAfter(r) = [ext EXCEPT ![r.about] = Gone]
    BY <1>4 DEF ExtAfter
  <2>2. GrpAfter(r) = [g \in Group |-> [grp[g] EXCEPT !.members = grp[g].members \ {r.about}]]
    BY <1>4 DEF GrpAfter
  <2>3. \A g \in Group : [grp[g] EXCEPT !.members = grp[g].members \ {r.about}] \in GroupRow
    BY DEF GroupRow
  <2>4. GrpAfter(r) \in [Group -> GroupRow]
    BY <2>2, <2>3
  <2>5. QED
    BY <1>4, <2>1, <2>4, RowFacts
<1>5. CASE r.kind = "putGroup"
  <2>1. GrpAfter(r) = [grp EXCEPT ![r.about] = r.body.row] /\ ExtAfter(r) = ext
    BY <1>5 DEF GrpAfter, ExtAfter
  <2>2. r.body.row \in GroupRow
    BY <1>5 DEF ReqOK
  <2>3. QED
    BY <1>5, <2>1, <2>2
<1>6. CASE r.kind \in {"loadExt", "loadGrp"}
  <2>1. GrpAfter(r) = grp /\ ExtAfter(r) = ext
    BY <1>6 DEF GrpAfter, ExtAfter
  <2>2. /\ r.kind = "loadExt" => AnswerOf(r) = ext
        /\ r.kind = "loadGrp" => AnswerOf(r) = grp
    BY <1>6, <2>1 DEF AnswerOf
  <2>3. QED
    BY <1>6, <2>1, <2>2
<1>7. QED
  BY <1>1, <1>2, <1>3, <1>4, <1>5, <1>6 DEF ReqOK

LEMMA ServeKeeps ==
  ASSUME IInv, NEW r \in reqs, Serve(r)
  PROVE  IInv'
<1>. USE DEF IInv
<1>1. ReqOK(r) /\ Shape(r)
  BY DEF Requests, ReqOK
<1>2. PICK broken \in BOOLEAN :
        LET refused == broken \/ Refused(r) IN
        /\ reqs' = (reqs \ {r})
                     \cup {[r EXCEPT !.phase = "served",
                                    !.result = IF refused THEN "refused" ELSE "ok",
                                    !.answer = IF refused THEN Gone ELSE AnswerOf(r)]}
        /\ ext' = IF refused THEN ext ELSE ExtAfter(r)
        /\ grp' = IF refused THEN grp ELSE GrpAfter(r)
        /\ saves' = Foreign({g \in Group : grp'[g] # grp[g]}, r.from)
  BY DEF Serve
<1>3. /\ rows' = rows /\ groups' = groups /\ dialog' = dialog /\ others' = others
      /\ excused' = excused /\ clicks' = clicks
  BY DEF Serve
<1>. DEFINE gs == {g \in Group : grp'[g] # grp[g]}
<1>4. saves' = Foreign(gs, r.from) /\ gs \in SUBSET Group
  BY <1>2
<1>5. \A g \in Group : g \in gs <=> grp'[g] # grp[g]
  OBVIOUS
<1>. HIDE DEF gs
<1>6. /\ saves' \in [Save -> Running \cup Idle]
      /\ \A s \in Save : SameSave(s)
      /\ \A s \in Save : saves[s].phase # "idle" /\ s # r.from => gs \subseteq saves'[s].foreign
  BY <1>4, ForeignFacts
<1>7. CASE broken \/ Refused(r)
  <2>. DEFINE q == Answered(r, "refused", Gone)
  <2>1. reqs' = (reqs \ {r}) \cup {q} /\ ext' = ext /\ grp' = grp
    BY <1>2, <1>7 DEF Answered
  <2>2. /\ Shape(q) /\ q.kind = r.kind /\ q.about = r.about /\ q.body = r.body /\ q.from = r.from
        /\ q.phase = "served" /\ q.result = "refused"
    BY <1>1, AnswerFacts
  <2>. HIDE DEF q
  <2>3. ReqOK(q)
    BY <1>1, <2>2 DEF ReqOK
  <2>4. Types'
    BY <1>3, <1>6, <2>1 DEF Types
  <2>5. QED
    BY <1>6, <2>1, <2>2, <2>3, <2>4, RequestGoesOn
<1>8. CASE ~broken /\ ~Refused(r)
  <2>. DEFINE q == Answered(r, "ok", AnswerOf(r))
  <2>1. reqs' = (reqs \ {r}) \cup {q} /\ ext' = ExtAfter(r) /\ grp' = GrpAfter(r)
    BY <1>2, <1>8 DEF Answered
  <2>2. /\ Shape(q) /\ q.kind = r.kind /\ q.about = r.about /\ q.body = r.body /\ q.from = r.from
        /\ q.phase = "served" /\ q.result = "ok" /\ q.answer = AnswerOf(r)
    BY <1>1, AnswerFacts
  <2>. HIDE DEF q
  <2>3. /\ ext' \in [Ext -> Shown] /\ grp' \in [Group -> GroupRow]
        /\ r.kind = "loadExt" => AnswerOf(r) \in [Ext -> Shown]
        /\ r.kind = "loadGrp" => AnswerOf(r) \in [Group -> GroupRow]
        /\ r.kind \in {"toggle", "patch", "create"} => AnswerOf(r) \in Row
        /\ r.kind \in {"patch", "create", "loadGrp", "loadExt", "toggle"} => grp' = grp
        /\ r.kind = "putGroup" => grp' = [grp EXCEPT ![r.about] = r.body.row]
    BY <1>1, <1>8, <2>1, HandlerFacts
  <2>4. ReqOK(q)
    BY <1>1, <2>2, <2>3 DEF ReqOK
  <2>5. Types'
    BY <1>3, <1>6, <2>3 DEF Types
  <2>6. r.kind = "putGroup" => /\ grp'[r.about] = r.body.row
                               /\ \A g \in Group \ {r.about} : grp'[g] = grp[g]
    BY <1>1, <2>3 DEF ReqOK, Types
  <2>7. ASSUME NEW s \in Save, NEW g \in Group, saves[s].phase # "idle"
        PROVE  \/ grp'[g] = grp[g]
               \/ r.from # s /\ g \in saves'[s].foreign
               \/ r.from = s /\ r.kind = "putGroup" /\ r.about = g /\ grp'[g] = r.body.row
    <3>1. CASE r.from # s
      BY <1>5, <1>6, <2>7, <3>1
    <3>2. CASE r.from = s
      <4>1. r.kind \in {"patch", "create", "loadGrp", "putGroup"}
        BY <1>1, <3>2, SaveNames DEF ReqOK
      <4>2. QED
        BY <2>3, <2>6, <3>2, <4>1
    <3>3. QED
      BY <3>1, <3>2
  <2>8. q.kind = "putGroup" => grp'[q.about] = q.body.row
    BY <2>2, <2>6
  <2>9. QED
    BY <1>6, <2>1, <2>2, <2>4, <2>5, <2>7, <2>8, RequestGoesOn
<1>9. QED
  BY <1>7, <1>8

LEMMA LoseKeeps ==
  ASSUME IInv, NEW r \in reqs, Lose(r)
  PROVE  IInv'
<1>. USE DEF IInv
<1>1. ReqOK(r) /\ Shape(r)
  BY DEF Requests, ReqOK
<1>. DEFINE q == Answered(r, "lost", Gone)
<1>2. /\ reqs' = (reqs \ {r}) \cup {q} /\ excused' = TRUE
      /\ UNCHANGED <<ext, grp, rows, groups, dialog, saves, others, clicks>>
  BY DEF Lose, Answered
<1>3. /\ Shape(q) /\ q.kind = r.kind /\ q.about = r.about /\ q.body = r.body /\ q.from = r.from
      /\ q.phase = "served" /\ q.result = "lost"
  BY <1>1, AnswerFacts
<1>. HIDE DEF q
<1>4. ReqOK(q)
  BY <1>1, <1>3 DEF ReqOK
<1>5. Types'
  BY <1>2 DEF Types
<1>6. \A s \in Save : SameSave(s)
  BY <1>2 DEF SameSave
<1>7. QED
  BY <1>2, <1>3, <1>4, <1>5, <1>6, RequestGoesOn

LEMMA OthersKeep ==
  ASSUME IInv, (\E e \in Ext : OtherDoor(e)) \/ (\E g \in Group : OtherGroup(g))
  PROVE  IInv'
<1>. USE DEF IInv
<1>1. CASE \E e \in Ext : OtherDoor(e)
  <2>. SUFFICES ASSUME NEW e \in Ext, OtherDoor(e) PROVE IInv'
    BY <1>1
  <2>1. /\ ext[e] \in Row /\ ext' = [ext EXCEPT ![e].door = ~ext[e].door]
        /\ others < MaxOthers /\ others' = others + 1 /\ excused' = TRUE
        /\ UNCHANGED <<grp, rows, groups, dialog, saves, reqs, clicks>>
    BY RowFacts DEF OtherDoor, Types
  <2>2. [ext[e] EXCEPT !.door = ~ext[e].door] \in Row
    BY <2>1 DEF Row
  <2>3. ext' \in [Ext -> Shown] /\ others' \in 0 .. MaxOthers
    BY <2>1, <2>2, RowFacts, PageBounds DEF Types
  <2>4. Types'
    BY <2>1, <2>3 DEF Types
  <2>5. \A s \in Save : SameSave(s)
    BY <2>1 DEF SameSave
  <2>6. QED
    BY <2>1, <2>4, <2>5, SavesGoOn
<1>2. CASE \E g \in Group : OtherGroup(g)
  <2>. SUFFICES ASSUME NEW g \in Group, NEW ms \in SUBSET Ext,
                       grp' = [grp EXCEPT ![g] = [members |-> ms, label |-> ~grp[g].label]],
                       others < MaxOthers, others' = others + 1,
                       saves' = Foreign({g}, "nobody"),
                       UNCHANGED <<ext, rows, groups, dialog, reqs, excused, clicks>>
                PROVE  IInv'
    BY <1>2 DEF OtherGroup
  <2>1. [members |-> ms, label |-> ~grp[g].label] \in GroupRow
    BY DEF GroupRow, Types
  <2>2. /\ grp' \in [Group -> GroupRow] /\ others' \in 0 .. MaxOthers
        /\ \A n \in Group \ {g} : grp'[n] = grp[n]
    BY <2>1, PageBounds DEF Types
  <2>3. /\ saves' \in [Save -> Running \cup Idle]
        /\ \A s \in Save : SameSave(s) /\ (saves[s].phase # "idle" => g \in saves'[s].foreign)
    <3>1. {g} \in SUBSET Group
      OBVIOUS
    <3>2. /\ saves' \in [Save -> Running \cup Idle]
          /\ \A s \in Save : SameSave(s)
          /\ \A s \in Save : saves[s].phase # "idle" /\ s # "nobody" => {g} \subseteq saves'[s].foreign
      BY <3>1, ForeignFacts
    <3>3. QED
      BY <3>2, SaveNames
  <2>4. Types'
    BY <2>2, <2>3 DEF Types
  <2>5. \A s \in Save : saves'[s].phase # "idle" => g \in saves'[s].foreign
    BY <2>3 DEF SameSave
  <2>6. \A s \in Save, n \in Group :
          saves'[s].phase # "idle" => n \in saves'[s].foreign \/ grp'[n] = grp[n]
    BY <2>2, <2>5
  <2>7. QED
    BY <2>3, <2>4, <2>6, SavesGoOn
<1>3. QED
  BY <1>1, <1>2

-----------------------------------------------------------------------------
(* The list and the dialogs.                                               *)

LEMMA ListKeeps ==
  ASSUME IInv, NEW r \in reqs, HearExt(r) \/ HearToggle(r) \/ HearDelete(r)
  PROVE  IInv'
<1>. USE DEF IInv
<1>1. ReqOK(r) /\ (r.phase = "served" /\ ~Failed(r) => r.result = "ok")
  BY DEF Requests, Failed
<1>2. /\ reqs' = reqs \ {r} /\ grp' = grp /\ ext' = ext /\ groups' = groups /\ others' = others
      /\ clicks' = clicks
  BY DEF HearExt, HearToggle, HearDelete
<1>3. CASE HearExt(r)
  <2>1. rows' \in [Ext -> Shown] /\ excused' \in BOOLEAN
    BY <1>1, <1>3 DEF HearExt, ReqOK, Types
  <2>2. CASE r.result = "refused"
    <3>1. dialog' = Crashed /\ saves' = OffScreen
      BY <1>3, <2>2 DEF HearExt
    <3>2. dialog' \in Dialogs /\ saves' \in [Save -> Running \cup Idle] /\ \A s \in Save : SameSave(s)
      BY <3>1, OffScreenFacts, DialogFacts DEF Types
    <3>3. Types'
      BY <1>2, <2>1, <3>2 DEF Types
    <3>4. QED
      BY <1>2, <3>2, <3>3, SavesGoOn
  <2>3. CASE r.result # "refused"
    <3>1. dialog' = dialog /\ saves' = saves
      BY <1>3, <2>3 DEF HearExt
    <3>2. Types' /\ \A s \in Save : SameSave(s)
      BY <1>2, <2>1, <3>1 DEF Types, SameSave
    <3>3. QED
      BY <1>2, <3>2, SavesGoOn
  <2>4. QED
    BY <2>2, <2>3
<1>4. CASE HearToggle(r)
  <2>1. /\ saves' = saves /\ dialog' = dialog /\ excused' = excused
        /\ rows' = IF rows[r.about] = Gone THEN rows ELSE [rows EXCEPT ![r.about] = AfterToggle(r)]
        /\ r.kind = "toggle" /\ r.phase = "served"
    BY <1>4 DEF HearToggle
  <2>2. rows[r.about] # Gone => AfterToggle(r) \in Row
    <3>1. CASE Failed(r) /\ rows[r.about] # Gone
      <4>1. rows[r.about] \in Row /\ r.body.was \in BOOLEAN
        BY <1>1, <2>1, <3>1, RowFacts DEF ReqOK, Types
      <4>2. QED
        BY <3>1, <4>1 DEF AfterToggle, Row
    <3>2. CASE ~Failed(r)
      BY <1>1, <2>1, <3>2 DEF AfterToggle, ReqOK
    <3>3. QED
      BY <3>1, <3>2
  <2>3. rows' \in [Ext -> Shown]
    BY <2>1, <2>2, RowFacts DEF Types
  <2>4. Types' /\ \A s \in Save : SameSave(s)
    BY <1>2, <2>1, <2>3 DEF Types, SameSave
  <2>5. QED
    BY <1>2, <2>4, SavesGoOn
<1>5. CASE HearDelete(r)
  <2>1. /\ saves' = saves /\ excused' = excused
        /\ rows' = rows \/ rows' = [rows EXCEPT ![r.about] = Gone]
        /\ dialog' = [dialog EXCEPT !.saving = FALSE] \/ dialog' = Closed
    BY <1>5 DEF HearDelete
  <2>2. rows' \in [Ext -> Shown] /\ dialog' \in Dialogs
    BY <2>1, RowFacts, SavingFacts, DialogFacts DEF Types
  <2>3. Types' /\ \A s \in Save : SameSave(s)
    BY <1>2, <2>1, <2>2 DEF Types, SameSave
  <2>4. QED
    BY <1>2, <2>3, SavesGoOn
<1>6. QED
  BY <1>3, <1>4, <1>5

LEMMA ClickFacts ==
  ASSUME Types, Click
  PROVE  clicks' \in 0 .. MaxClicks
BY PageBounds DEF Types, Click

LEMMA ClicksKeep ==
  ASSUME IInv, NEW e \in Ext, Toggle(e) \/ OpenEdit(e) \/ OpenAdd(e) \/ OpenDelete(e)
  PROVE  IInv'
<1>. USE DEF IInv
<1>1. /\ clicks' \in 0 .. MaxClicks /\ saves' = saves /\ grp' = grp /\ ext' = ext
      /\ groups' = groups /\ others' = others
  BY ClickFacts DEF Toggle, OpenEdit, OpenAdd, OpenDelete
<1>2. \A s \in Save : SameSave(s)
  BY <1>1 DEF SameSave
<1>3. rows[e] # Gone => rows[e] \in Row
  BY RowFacts DEF Types
<1>4. CASE Toggle(e)
  <2>. DEFINE on == ~rows[e].on
              row == [rows[e] EXCEPT !.on = on]
              body == [on |-> on, was |-> rows[e].on]
              q == NewReq("toggle", e, body, "none")
  <2>1. /\ rows[e] # Gone /\ rows' = [rows EXCEPT ![e] = row] /\ reqs' = reqs \cup {q}
        /\ dialog' = dialog /\ excused' \in BOOLEAN
    BY <1>4 DEF Toggle, Types
  <2>2. row \in Row /\ body.on \in BOOLEAN /\ body.was \in BOOLEAN
    BY <1>3, <2>1 DEF Row
  <2>. HIDE DEF row, on, body
  <2>3. ReqOK(q) /\ q.from = "none"
    BY <2>2, NewFacts, SaveNames DEF ReqOK
  <2>. HIDE DEF q
  <2>4. rows' \in [Ext -> Shown]
    BY <2>1, <2>2, RowFacts DEF Types
  <2>5. Types'
    BY <1>1, <2>1, <2>4 DEF Types
  <2>6. QED
    BY <1>1, <1>2, <2>1, <2>3, <2>5, SavesGoOn
<1>5. CASE OpenEdit(e) \/ OpenAdd(e) \/ OpenDelete(e)
  <2>1. rows' = rows /\ reqs' = reqs /\ excused' = excused
    BY <1>5 DEF OpenEdit, OpenAdd, OpenDelete
  <2>2. GroupsOf(e) \in SUBSET Group
    BY DEF GroupsOf
  <2>3. dialog' \in FormDialogs \cup DeleteDialogs
    <3>1. CASE OpenEdit(e)
      BY <1>3, <2>2, <3>1 DEF OpenEdit, FormDialogs
    <3>2. CASE OpenAdd(e)
      BY <3>2 DEF OpenAdd, FormDialogs, Row
    <3>3. CASE OpenDelete(e)
      BY <3>3 DEF OpenDelete, DeleteDialogs
    <3>4. QED
      BY <1>5, <3>1, <3>2, <3>3
  <2>4. Types'
    BY <1>1, <2>1, <2>3 DEF Types, Dialogs
  <2>5. QED
    BY <1>1, <1>2, <2>1, <2>4, SavesGoOn
<1>6. QED
  BY <1>4, <1>5

LEMMA DialogKeeps ==
  ASSUME IInv, (\E g \in Group : Pick(g)) \/ CloseDialog \/ ConfirmDelete
  PROVE  IInv'
<1>. USE DEF IInv
<1>1. /\ clicks' = clicks /\ grp' = grp /\ ext' = ext /\ rows' = rows
      /\ groups' = groups /\ others' = others
  BY DEF Pick, CloseDialog, ConfirmDelete
<1>2. CASE \E g \in Group : Pick(g)
  <2>. SUFFICES ASSUME NEW g \in Group, Pick(g) PROVE IInv'
    BY <1>2
  <2>. DEFINE sel == IF g \in dialog.sel THEN dialog.sel \ {g} ELSE dialog.sel \cup {g}
              touched == dialog.touched \cup {g}
  <2>1. /\ dialog.mode \in {"add", "edit"} /\ saves' = saves /\ reqs' = reqs /\ excused' = excused
        /\ dialog' = [dialog EXCEPT !.sel = sel, !.touched = touched]
    BY DEF Pick
  <2>2. dialog \in FormDialogs
    BY <2>1, DialogFacts DEF Types
  <2>3. sel \in SUBSET Group /\ touched \in SUBSET Group
    BY <2>2 DEF FormDialogs
  <2>. HIDE DEF sel, touched
  <2>4. dialog' \in FormDialogs
    BY <2>1, <2>2, <2>3 DEF FormDialogs
  <2>5. Types' /\ \A s \in Save : SameSave(s)
    BY <1>1, <2>1, <2>4 DEF Types, Dialogs, SameSave
  <2>6. QED
    BY <1>1, <2>1, <2>5, SavesGoOn
<1>3. CASE CloseDialog
  <2>1. dialog' = Closed /\ saves' = OffScreen /\ reqs' = reqs /\ excused' = excused
    BY <1>3 DEF CloseDialog
  <2>2. /\ dialog' \in Dialogs /\ saves' \in [Save -> Running \cup Idle]
        /\ \A s \in Save : SameSave(s)
    BY <2>1, OffScreenFacts, DialogFacts DEF Types
  <2>3. Types'
    BY <1>1, <2>1, <2>2 DEF Types
  <2>4. QED
    BY <1>1, <2>1, <2>2, <2>3, SavesGoOn
<1>4. CASE ConfirmDelete
  <2>. DEFINE q == NewReq("delete", dialog.ext, Gone, "none")
  <2>1. /\ dialog.mode = "delete" /\ dialog' = [dialog EXCEPT !.saving = TRUE]
        /\ reqs' = reqs \cup {q} /\ saves' = saves /\ excused' \in BOOLEAN
    BY <1>4 DEF ConfirmDelete, Types
  <2>2. dialog \in DeleteDialogs
    BY <2>1, DialogFacts DEF Types
  <2>3. dialog.ext \in Ext /\ dialog' \in DeleteDialogs
    BY <2>1, <2>2 DEF DeleteDialogs
  <2>4. ReqOK(q) /\ q.from = "none"
    BY <2>3, NewFacts, SaveNames DEF ReqOK
  <2>. HIDE DEF q
  <2>5. Types' /\ \A s \in Save : SameSave(s)
    BY <1>1, <2>1, <2>3 DEF Types, Dialogs, SameSave
  <2>6. QED
    BY <1>1, <2>1, <2>4, <2>5, SavesGoOn
<1>5. QED
  BY <1>2, <1>3, <1>4

-----------------------------------------------------------------------------
(* A save.                                                                 *)

LEMMA SubmitKeeps ==
  ASSUME IInv, NEW s \in Save, Submit(s)
  PROVE  IInv'
<1>. USE DEF IInv
<1>. DEFINE row == Typed(dialog.row)
            kind == IF dialog.mode = "add" THEN "create" ELSE "patch"
            q == NewReq(kind, dialog.ext, row, s)
            written == IF groups = NotLoaded THEN {} ELSE {g \in Group : groups[g] # grp[g]}
            sv == [phase |-> "row", ext |-> dialog.ext, add |-> dialog.mode = "add",
                   sel |-> dialog.sel, groups |-> groups, row |-> row, left |-> {},
                   onScreen |-> TRUE, foreign |-> written]
<1>1. /\ dialog.mode \in {"add", "edit"} /\ \A r \in reqs : r.from # s
      /\ dialog' = [dialog EXCEPT !.saving = TRUE]
      /\ saves' = [saves EXCEPT ![s] = sv] /\ reqs' = reqs \cup {q} /\ excused' \in BOOLEAN
      /\ UNCHANGED <<ext, grp, rows, groups, others, clicks>>
  BY DEF Submit, Types
<1>2. dialog \in FormDialogs
  BY <1>1, DialogFacts DEF Types
<1>3. dialog' \in FormDialogs /\ dialog.ext \in Ext /\ dialog.sel \in SUBSET Group /\ dialog.row \in Row
  BY <1>1, <1>2 DEF FormDialogs
<1>4. row \in Row /\ kind \in {"create", "patch"}
  BY <1>3 DEF Typed, Row
<1>5. written \in SUBSET Group /\ \A g \in Group \ written : groups # NotLoaded => groups[g] = grp[g]
  OBVIOUS
<1>. HIDE DEF row, written, kind
<1>6. sv \in Running /\ sv.phase = "row" /\ sv.groups = groups /\ sv.foreign = written
  BY <1>3, <1>4, <1>5 DEF Running, Types
<1>. HIDE DEF sv
<1>7. /\ saves' \in [Save -> Running \cup Idle] /\ saves'[s] = sv
      /\ \A t \in Save \ {s} : saves'[t] = saves[t]
  BY <1>1, <1>6 DEF Types
<1>8. Types'
  BY <1>1, <1>3, <1>7 DEF Types, Dialogs
<1>9. ReqOK(q) /\ q.from = s /\ q.kind \in {"create", "patch"}
  BY <1>3, <1>4, NewFacts DEF ReqOK
<1>. HIDE DEF q
<1>10. \A x \in reqs' : x.from = s => x = q
  BY <1>1
<1>11. \A x : x.from = s /\ x.kind \in {"create", "patch"} => Owned(x)'
  BY <1>6, <1>7 DEF Owned
<1>12. \A g \in Group \ saves'[s].foreign : saves'[s].groups # NotLoaded => Held(s, g)'
  BY <1>1, <1>5, <1>6, <1>7, <1>9, <1>10 DEF Held
<1>13. \A x \in reqs' : x.from = s => Owned(x)'
  BY <1>9, <1>10, <1>11
<1>14. \A x \in reqs' : x \in reqs \/ (x.from = s /\ ReqOK(x))
  BY <1>1, <1>9
<1>15. QED
  BY <1>1, <1>6, <1>7, <1>8, <1>10, <1>12, <1>13, <1>14, OwnStep

\* The end of a save is unremarkable: what it still has under way are writes of groups.
LEMMA EndKeeps ==
  ASSUME IInv, NEW s \in Save, NEW failed \in BOOLEAN, EndSave(s, failed),
         rows' \in [Ext -> Shown], excused' \in BOOLEAN,
         UNCHANGED <<ext, grp, groups, others, clicks>>,
         reqs' \subseteq reqs, \A r \in reqs' : r.from = s => r.kind = "putGroup"
  PROVE  IInv'
<1>. USE DEF IInv
<1>1. /\ saves' = [saves EXCEPT ![s] = IdleSave]
      /\ dialog' \in {Closed, dialog, [dialog EXCEPT !.saving = FALSE]}
  BY DEF EndSave
<1>2. dialog' \in Dialogs
  BY <1>1, SavingFacts, DialogFacts DEF Types
<1>3. /\ saves' \in [Save -> Running \cup Idle] /\ saves'[s].phase = "idle"
      /\ \A t \in Save \ {s} : saves'[t] = saves[t]
  BY <1>1, SaveFacts DEF Types
<1>4. Types'
  BY <1>2, <1>3 DEF Types
<1>5. \A t \in Save \ {s} : SameSave(t)
  BY <1>3 DEF SameSave
<1>6. QED
  BY <1>3, <1>4, <1>5, SavesGoOn

LEMMA FinishKeeps ==
  ASSUME IInv, NEW s \in Save, FinishSave(s)
  PROVE  IInv'
<1>. USE DEF IInv
<1>1. /\ saves[s].phase = "reloaded" /\ EndSave(s, FALSE)
      /\ rows' = rows \/ rows' = [rows EXCEPT ![saves[s].ext] = saves[s].row]
      /\ UNCHANGED <<ext, grp, groups, reqs, others, excused, clicks>>
  BY DEF FinishSave
<1>2. saves[s].row \in Row
  BY <1>1, SaveFacts DEF Running
<1>3. rows' \in [Ext -> Shown] /\ excused' \in BOOLEAN
  BY <1>1, <1>2, RowFacts DEF Types
<1>4. \A r \in reqs : r.from = s => r.kind = "putGroup"
  BY <1>1, SaveNames DEF Requests, ReqOK, Owned
<1>5. QED
  BY <1>1, <1>3, <1>4, EndKeeps

LEMMA GroupsHeard ==
  ASSUME IInv, NEW r \in reqs, HearGroups(r)
  PROVE  IInv'
<1>. USE DEF IInv
<1>1. /\ r.kind = "loadGrp" /\ r.phase = "served" /\ reqs' = reqs \ {r}
      /\ saves' = [s \in Save |-> IF r.from = s THEN [saves[s] EXCEPT !.phase = "reloaded"]
                                  ELSE saves[s]]
      /\ UNCHANGED <<ext, grp, rows, dialog, others, excused, clicks>>
      /\ groups' = groups \/ (~Failed(r) /\ groups' = r.answer)
  BY DEF HearGroups
<1>2. ReqOK(r) /\ Owned(r)
  BY DEF Requests
<1>3. groups' \in Loads
  BY <1>1, <1>2 DEF Types, Loads, ReqOK, Failed
<1>4. CASE r.from \notin Save
  <2>1. \A s \in Save : saves'[s] = saves[s]
    BY <1>1, <1>4
  <2>2. saves' \in [Save -> Running \cup Idle]
    BY <1>1, <1>4, <2>1 DEF Types
  <2>3. Types' /\ \A s \in Save : SameSave(s)
    BY <1>1, <1>3, <2>1, <2>2 DEF Types, SameSave
  <2>4. QED
    BY <1>1, <2>3, SavesGoOn
<1>5. CASE r.from \in Save
  <2>. SUFFICES ASSUME NEW s \in Save, r.from = s PROVE IInv'
    BY <1>5
  <2>1. saves[s] \in Running /\ saves[s].phase = "reloading"
    BY <1>1, <1>2, SaveFacts DEF Owned
  <2>2. /\ saves'[s] = [saves[s] EXCEPT !.phase = "reloaded"]
        /\ \A t \in Save \ {s} : saves'[t] = saves[t]
    BY <1>1
  <2>3. /\ saves'[s] \in Running /\ saves'[s].phase = "reloaded" /\ saves'[s].ext = saves[s].ext
        /\ saves'[s].sel = saves[s].sel /\ saves'[s].groups = saves[s].groups
        /\ saves'[s].left = saves[s].left /\ saves'[s].foreign = saves[s].foreign
    BY <2>1, <2>2 DEF Running
  <2>4. saves' \in [Save -> Running \cup Idle]
    BY <1>1, <2>2, <2>3 DEF Types
  <2>5. Types'
    BY <1>1, <1>3, <2>4 DEF Types
  <2>6. \A x \in reqs' : x.from # s
    BY <1>1 DEF OneAtATime
  <2>7. saves'[s].left = {} /\ \A g \in Group \ saves'[s].foreign :
                                 saves'[s].groups # NotLoaded => Held(s, g)'
    <3>1. saves[s].left = {} /\ \A g \in Group \ saves[s].foreign :
                                  saves[s].groups # NotLoaded => Held(s, g)
      BY <2>1 DEF SavesHold
    <3>2. QED
      BY <1>1, <2>1, <2>3, <2>6, <3>1 DEF Held, Member
  <2>8. grp' = grp /\ reqs' \subseteq reqs
    BY <1>1
  <2>9. QED
    BY <2>2, <2>5, <2>6, <2>7, <2>8, OwnStep
<1>6. QED
  BY <1>4, <1>5

LEMMA ReloadKeeps ==
  ASSUME IInv, NEW s \in Save, ReloadGroups(s)
  PROVE  IInv'
<1>. USE DEF IInv
<1>. DEFINE q == NewReq("loadGrp", "all", Gone, s)
<1>1. /\ saves[s].phase = "synced" /\ saves' = [saves EXCEPT ![s].phase = "reloading"]
      /\ reqs' = reqs \cup {q}
      /\ UNCHANGED <<ext, grp, rows, groups, dialog, others, excused, clicks>>
  BY DEF ReloadGroups
<1>2. saves[s] \in Running
  BY <1>1, SaveFacts
<1>3. /\ saves'[s] = [saves[s] EXCEPT !.phase = "reloading"]
      /\ \A t \in Save \ {s} : saves'[t] = saves[t]
  BY <1>1 DEF Types
<1>4. /\ saves'[s] \in Running /\ saves'[s].phase = "reloading" /\ saves'[s].ext = saves[s].ext
      /\ saves'[s].sel = saves[s].sel /\ saves'[s].groups = saves[s].groups
      /\ saves'[s].left = saves[s].left /\ saves'[s].foreign = saves[s].foreign
  BY <1>2, <1>3 DEF Running
<1>5. saves' \in [Save -> Running \cup Idle]
  BY <1>1, <1>4 DEF Types
<1>6. Types'
  BY <1>1, <1>5 DEF Types
<1>7. ReqOK(q) /\ q.from = s /\ q.kind = "loadGrp"
  BY NewFacts, SaveNames DEF ReqOK
<1>. HIDE DEF q
\* Nothing of this save is under way any more.
<1>8. \A x \in reqs : x.from # s
  BY <1>1, SaveNames DEF Requests, ReqOK, Owned
<1>9. \A x : x.from = s /\ x.kind = "loadGrp" => Owned(x)'
  BY <1>4 DEF Owned
<1>10. saves'[s].left = {} /\ \A g \in Group \ saves'[s].foreign :
                                saves'[s].groups # NotLoaded => Held(s, g)'
  <2>1. saves[s].left = {} /\ \A g \in Group \ saves[s].foreign :
                                saves[s].groups # NotLoaded => Held(s, g)
    BY <1>1 DEF SavesHold
  <2>2. QED
    BY <1>1, <1>4, <1>7, <1>8, <2>1 DEF Held, Member
<1>11. QED
  BY <1>1, <1>3, <1>6, <1>7, <1>8, <1>9, <1>10, OwnStep

\* A write leaves a group as it was, but for the extension of its save.
LEMMA WantedFacts ==
  ASSUME NEW sv \in Running, sv.groups # NotLoaded, NEW g \in Group
  PROVE  /\ WantedRow(sv, g) \in GroupRow /\ Member(sv, WantedRow(sv, g).members, g)
         /\ \A e \in Ext \ {sv.ext} :
              (e \in WantedRow(sv, g).members) = (e \in sv.groups[g].members)
         /\ WantedRow(sv, g) = sv.groups[g] => Member(sv, sv.groups[g].members, g)
<1>. DEFINE loaded == sv.groups[g]
            members == Members(loaded.members, sv.ext, g \in sv.sel)
            row == [loaded EXCEPT !.members = members]
<1>1. loaded \in GroupRow /\ sv.ext \in Ext /\ sv.groups \in [Group -> GroupRow]
  BY LoadFacts DEF Running
<1>2. row \in GroupRow /\ row.members = members
  BY <1>1 DEF GroupRow, Members
<1>3. WantedRow(sv, g) = row
  BY <1>1 DEF WantedRow
<1>4. \A e \in Ext : e \in members <=> (IF e = sv.ext THEN g \in sv.sel ELSE e \in loaded.members)
  BY <1>1 DEF Members
<1>. HIDE DEF row, members
<1>5. Member(sv, row.members, g)
  BY <1>1, <1>2, <1>4 DEF Member
<1>6. QED
  BY <1>2, <1>3, <1>4, <1>5

LEMMA RowHeard ==
  ASSUME IInv, NEW r \in reqs, HearRow(r)
  PROVE  IInv'
<1>. USE DEF IInv
<1>1. r.kind \in {"patch", "create"} /\ ReqOK(r) /\ Owned(r) /\ r.phase = "served"
  BY DEF HearRow, Requests
<1>. SUFFICES ASSUME NEW s \in Save, r.from = s PROVE IInv'
  BY <1>1 DEF ReqOK
<1>2. saves[s].phase = "row" /\ saves[s] \in Running
  BY <1>1, SaveFacts DEF Owned
<1>3. \A x \in reqs \ {r} : x.from # s
  BY <1>1 DEF OneAtATime
<1>4. UNCHANGED <<ext, grp, rows, groups, others, excused, clicks>>
  BY DEF HearRow
<1>5. CASE Failed(r)
  <2>1. EndSave(s, TRUE) /\ reqs' = reqs \ {r}
    BY <1>5 DEF HearRow
  <2>2. rows' \in [Ext -> Shown] /\ excused' \in BOOLEAN
    BY <1>4 DEF Types
  <2>3. QED
    BY <1>3, <1>4, <2>1, <2>2, EndKeeps
<1>6. CASE ~Failed(r)
  <2>. DEFINE left == Changing(saves[s])
              sv == [saves[s] EXCEPT !.row = r.answer, !.left = left]
              phase == IF sv.left = {} THEN "synced" ELSE "groups"
              sv2 == [sv EXCEPT !.phase = phase]
  <2>1. /\ saves' = [saves EXCEPT ![s] = sv2] /\ dialog' = dialog
        /\ reqs' = (reqs \ {r}) \cup {PutGroup(sv, g, s) : g \in sv.left}
    BY <1>6 DEF HearRow
  <2>2. r.answer \in Row
    BY <1>1, <1>6 DEF ReqOK, Failed
  <2>3. left \in SUBSET Group /\ (left # {} => saves[s].groups # NotLoaded)
        /\ \A g \in Group \ left : saves[s].groups # NotLoaded =>
             WantedRow(saves[s], g) = saves[s].groups[g]
    BY DEF Changing
  <2>. HIDE DEF left
  <2>4. /\ sv \in Running /\ sv.left = left /\ sv.ext = saves[s].ext /\ sv.sel = saves[s].sel
        /\ sv.groups = saves[s].groups /\ sv.foreign = saves[s].foreign
    BY <1>2, <2>2, <2>3 DEF Running
  <2>. HIDE DEF sv
  <2>5. phase \in {"synced", "groups"} /\ (phase = "synced" <=> left = {})
    BY <2>4
  <2>. HIDE DEF phase
  <2>6. /\ sv2 \in Running /\ sv2.phase = phase /\ sv2.left = left /\ sv2.ext = saves[s].ext
        /\ sv2.sel = saves[s].sel /\ sv2.groups = saves[s].groups
        /\ sv2.foreign = saves[s].foreign
    BY <2>4, <2>5 DEF Running
  <2>. HIDE DEF sv2
  <2>. SUFFICES ASSUME NEW v, v = sv2, NEW w, w = sv PROVE IInv'
    OBVIOUS
  <2>7. /\ saves'[s] = v /\ \A t \in Save \ {s} : saves'[t] = saves[t]
        /\ saves' \in [Save -> Running \cup Idle]
    BY <2>1, <2>6 DEF Types
  <2>8. Types'
    BY <1>4, <2>1, <2>7 DEF Types
  <2>9. \A g \in w.left : LET q == PutGroup(w, g, s) IN
           /\ q.kind = "putGroup" /\ q.about = g /\ q.from = s /\ q.result = "none"
           /\ ReqOK(q) /\ Member(v, q.body.row.members, g)
    <3>. SUFFICES ASSUME NEW g \in w.left
                  PROVE  LET q == PutGroup(w, g, s) IN
                         /\ q.kind = "putGroup" /\ q.about = g /\ q.from = s /\ q.result = "none"
                         /\ ReqOK(q) /\ Member(v, q.body.row.members, g)
      OBVIOUS
    <3>1. g \in Group /\ w.groups # NotLoaded /\ w \in Running
      BY <2>3, <2>4
    <3>2. /\ WantedRow(w, g) \in GroupRow /\ Member(w, WantedRow(w, g).members, g)
          /\ \A e \in Ext \ {w.ext} :
               (e \in WantedRow(w, g).members) = (e \in w.groups[g].members)
      BY <3>1, WantedFacts
    <3>. DEFINE body == [row |-> WantedRow(w, g), loaded |-> w.groups[g], for |-> w.ext]
                q == NewReq("putGroup", g, body, s)
    <3>3. PutGroup(w, g, s) = q
      BY DEF PutGroup
    <3>4. body.row = WantedRow(w, g) /\ body.loaded = w.groups[g] /\ body.for = w.ext
      OBVIOUS
    <3>. HIDE DEF body
    <3>5. /\ Shape(q) /\ q.kind = "putGroup" /\ q.about = g /\ q.from = s /\ q.body = body
          /\ q.phase = "sent" /\ q.result = "none"
      BY NewFacts
    <3>. HIDE DEF q
    <3>6. ReqOK(q)
      BY <3>1, <3>2, <3>4, <3>5 DEF ReqOK
    <3>7. Member(v, body.row.members, g)
      BY <2>4, <2>6, <3>2, <3>4 DEF Member
    <3>8. QED
      BY <3>3, <3>5, <3>6, <3>7
  <2>10. \A x \in reqs' : \/ x \in reqs /\ x.from # s
                          \/ \E g \in w.left : x = PutGroup(w, g, s)
    BY <1>3, <2>1
  <2>11. ASSUME NEW x \in reqs', x.from = s
         PROVE  /\ ReqOK(x) /\ x.kind = "putGroup" /\ x.about \in w.left /\ x.result = "none"
                /\ x = PutGroup(w, x.about, s) /\ Member(v, x.body.row.members, x.about)
    <3>1. PICK g \in w.left : x = PutGroup(w, g, s)
      BY <2>10, <2>11
    <3>2. QED
      BY <2>9, <3>1
  <2>12. \A x \in reqs' : x.from = s => Owned(x)'
    <3>1. left # {} => v.phase = "groups"
      BY <2>5, <2>6
    <3>2. v.left = w.left /\ w.left = left
      BY <2>4, <2>6
    <3>3. ASSUME NEW x \in reqs', x.from = s PROVE Owned(x)'
      <4>1. /\ x.kind = "putGroup" /\ x.about \in v.left /\ v.phase = "groups"
            /\ Member(v, x.body.row.members, x.about)
        BY <2>11, <3>1, <3>2, <3>3
      <4>2. QED
        BY <2>7, <3>3, <4>1 DEF Owned, Member
    <3>4. QED
      BY <3>3
  <2>13. \A g \in Group \ v.foreign : v.groups # NotLoaded => Held(s, g)'
    <3>. SUFFICES ASSUME NEW g \in Group, g \notin v.foreign, v.groups # NotLoaded
                  PROVE  Held(s, g)'
      OBVIOUS
    <3>1. grp[g] = saves[s].groups[g]
      BY <1>2, <2>6 DEF SavesHold, Held
    <3>2. g \notin v.left => Member(v, grp[g].members, g)
      BY <1>2, <2>3, <2>6, <3>1, WantedFacts DEF Member
    <3>3. \A x \in reqs' : x.kind = "putGroup" /\ x.from = s => x.result # "ok"
      BY <2>11
    <3>4. v.phase # "row"
      BY <2>5, <2>6
    <3>5. grp' = grp
      BY <1>4
    <3>6. QED
      BY <2>7, <3>2, <3>3, <3>4, <3>5 DEF Held, Member
  <2>14. v.phase \in {"synced", "reloading", "reloaded"} => v.left = {}
    BY <2>5, <2>6
  <2>15. \A x \in reqs' : x \in reqs \/ (x.from = s /\ ReqOK(x))
    BY <2>9, <2>10
  <2>16. \A q1, q2 \in reqs' :
           q1.from = s /\ q2.from = s
             /\ (q1.kind = "putGroup" /\ q2.kind = "putGroup" => q1.about = q2.about) => q1 = q2
    <3>1. ASSUME NEW q1 \in reqs', NEW q2 \in reqs', q1.from = s, q2.from = s,
                 q1.kind = "putGroup" /\ q2.kind = "putGroup" => q1.about = q2.about
          PROVE  q1 = q2
      <4>1. q1 = PutGroup(w, q1.about, s) /\ q2 = PutGroup(w, q2.about, s) /\ q1.about = q2.about
        BY <2>11, <3>1
      <4>2. QED
        BY <4>1
    <3>2. QED
      BY <3>1
  <2>17. grp' = grp
    BY <1>4
  <2>18. QED
    BY <2>7, <2>8, <2>12, <2>13, <2>14, <2>15, <2>16, <2>17, OwnStep
<1>7. QED
  BY <1>5, <1>6

LEMMA PutHeard ==
  ASSUME IInv, NEW r \in reqs, HearPut(r)
  PROVE  IInv'
<1>. USE DEF IInv
<1>1. r.kind = "putGroup" /\ r.phase = "served" /\ ReqOK(r) /\ Owned(r)
  BY DEF HearPut, Requests
<1>. SUFFICES ASSUME NEW s \in Save, r.from = s PROVE IInv'
  BY <1>1 DEF ReqOK
<1>2. reqs' = reqs \ {r} /\ UNCHANGED <<ext, grp, rows, groups, others, clicks>>
  BY DEF HearPut
<1>. DEFINE here == saves[s].phase = "groups" /\ r.about \in saves[s].left
<1>3. CASE ~here
  <2>1. saves' = saves /\ dialog' = dialog /\ excused' = excused
    BY <1>3 DEF HearPut
  <2>2. Types' /\ \A t \in Save : SameSave(t)
    BY <1>2, <2>1 DEF Types, SameSave
  <2>3. QED
    BY <1>2, <2>2, SavesGoOn
<1>4. CASE here /\ Failed(r)
  <2>1. EndSave(s, TRUE) /\ excused' = TRUE
    BY <1>4 DEF HearPut
  <2>2. \A x \in reqs' : x.from = s => x.kind = "putGroup"
    BY <1>2, <1>4, SaveNames DEF Requests, ReqOK, Owned
  <2>3. rows' \in [Ext -> Shown] /\ excused' \in BOOLEAN /\ reqs' \subseteq reqs
    BY <1>2, <2>1 DEF Types
  <2>4. QED
    BY <1>2, <2>1, <2>2, <2>3, EndKeeps
<1>5. CASE here /\ ~Failed(r)
  <2>. DEFINE left == saves[s].left \ {r.about}
              phase == IF left = {} THEN "synced" ELSE "groups"
              sv == [saves[s] EXCEPT !.left = left, !.phase = phase]
  <2>1. saves' = [saves EXCEPT ![s].left = left, ![s].phase = phase]
        /\ dialog' = dialog /\ excused' = excused
    BY <1>5 DEF HearPut
  <2>2. saves[s] \in Running /\ left \in SUBSET Group
    BY <1>5, SaveFacts DEF Running
  <2>3. phase \in {"synced", "groups"} /\ (phase = "synced" <=> left = {})
    OBVIOUS
  <2>4. saves' = [saves EXCEPT ![s] = sv]
    BY <2>1, <2>2 DEF Types
  <2>. HIDE DEF left, phase
  <2>5. /\ sv \in Running /\ sv.phase = phase /\ sv.left = left /\ sv.ext = saves[s].ext
        /\ sv.sel = saves[s].sel /\ sv.groups = saves[s].groups /\ sv.foreign = saves[s].foreign
    BY <2>2, <2>3 DEF Running
  <2>. HIDE DEF sv
  <2>. SUFFICES ASSUME NEW v, v = sv PROVE IInv'
    OBVIOUS
  <2>6. /\ saves'[s] = v /\ \A t \in Save \ {s} : saves'[t] = saves[t]
        /\ saves' \in [Save -> Running \cup Idle]
    BY <2>4, <2>5 DEF Types
  <2>7. Types'
    BY <1>2, <2>1, <2>6 DEF Types
  <2>8. ASSUME NEW x \in reqs', x.from = s
        PROVE  /\ x \in reqs /\ x.kind = "putGroup" /\ x.about \in v.left /\ v.phase = "groups"
               /\ Member(v, x.body.row.members, x.about)
    <3>1. x \in reqs /\ x # r /\ ReqOK(x) /\ Owned(x)
      BY <1>2 DEF Requests
    <3>2. /\ x.kind = "putGroup" /\ x.about \in saves[s].left
          /\ Member(saves[s], x.body.row.members, x.about)
      BY <1>5, <2>8, <3>1, SaveNames DEF ReqOK, Owned
    <3>3. x.about # r.about
      BY <1>1, <2>8, <3>1, <3>2 DEF OneAtATime
    <3>4. x.about \in left
      BY <3>2, <3>3 DEF left
    <3>5. QED
      BY <2>3, <2>5, <3>1, <3>2, <3>4 DEF Member
  <2>9. \A x \in reqs' : x.from = s => Owned(x)'
    BY <2>6, <2>8 DEF Owned, Member
  <2>10. \A g \in Group \ v.foreign : v.groups # NotLoaded => Held(s, g)'
    <3>. SUFFICES ASSUME NEW g \in Group, g \notin v.foreign, v.groups # NotLoaded
                  PROVE  Held(s, g)'
      OBVIOUS
    <3>1. Held(s, g)
      BY <1>5, <2>5 DEF SavesHold
    <3>2. r.result = "ok"
      BY <1>1, <1>5 DEF Failed
    <3>3. g \notin v.left => Member(v, grp[g].members, g)
      BY <1>1, <1>5, <2>5, <3>1, <3>2 DEF Held, Member, left
    <3>4. \A x \in reqs' : x.kind = "putGroup" /\ x.from = s /\ x.about = g /\ x.result = "ok" =>
            Member(v, grp[g].members, g)
      BY <1>2, <2>5, <3>1 DEF Held, Member
    <3>5. v.phase # "row" /\ grp' = grp
      BY <1>2, <2>3, <2>5
    <3>6. QED
      BY <2>6, <3>3, <3>4, <3>5 DEF Held, Member
  <2>11. v.phase \in {"synced", "reloading", "reloaded"} => v.left = {}
    BY <2>3, <2>5
  <2>12. \A q1, q2 \in reqs' :
           q1.from = s /\ q2.from = s
             /\ (q1.kind = "putGroup" /\ q2.kind = "putGroup" => q1.about = q2.about) => q1 = q2
    BY <1>2 DEF OneAtATime
  <2>13. QED
    BY <1>2, <2>6, <2>7, <2>9, <2>10, <2>11, <2>12, OwnStep
<1>6. QED
  BY <1>3, <1>4, <1>5

-----------------------------------------------------------------------------
(* The theorems.                                                           *)

LEMMA InitIInv == Init => IInv
<1>. SUFFICES ASSUME Init PROVE IInv
  OBVIOUS
<1>1. \A s \in Save : saves[s].phase = "idle"
  BY DEF Init, IdleSave
<1>2. Types
  <2>1. [text |-> TRUE, on |-> TRUE, door |-> FALSE] \in Row /\ Row \subseteq Shown /\ Gone \in Shown
    BY DEF Row, Shown
  <2>2. ext \in [Ext -> Shown] /\ rows \in [Ext -> Shown]
    <3>1. \A e \in Ext : ext[e] \in Shown
      BY <2>1 DEF Init
    <3>2. QED
      BY <2>1, <3>1 DEF Init
  <2>3. grp \in [Group -> GroupRow]
    <3>1. \A g \in Group : grp[g] \in GroupRow
      BY DEF Init, GroupRow
    <3>2. QED
      BY <3>1 DEF Init
  <2>4. IdleSave \in Idle
    BY DEF IdleSave, Idle
  <2>5. saves \in [Save -> Running \cup Idle]
    BY <2>4 DEF Init
  <2>6. clicks \in 0 .. MaxClicks /\ others \in 0 .. MaxOthers /\ excused \in BOOLEAN
    <3>1. clicks = 0 /\ others = 0
      BY DEF Init
    <3>2. clicks \in 0 .. MaxClicks /\ others \in 0 .. MaxOthers
      BY <3>1, PageBounds
    <3>3. excused \in BOOLEAN
      BY DEF Init
    <3>4. QED
      BY <3>2, <3>3
  <2>7. groups \in Loads /\ dialog \in Dialogs
    BY DEF Init, Loads, Dialogs
  <2>8. QED
    BY <2>2, <2>3, <2>5, <2>6, <2>7 DEF Types
<1>3. Requests /\ OneAtATime
  <2>1. \A r \in reqs : r.from = "none" /\ ReqOK(r)
    BY NewFacts DEF Init, ReqOK
  <2>2. QED
    BY <2>1, SaveNames DEF Requests, Owned, OneAtATime
<1>4. SavesHold
  BY <1>1 DEF SavesHold
<1>5. QED
  BY <1>2, <1>3, <1>4 DEF IInv

LEMMA NextKeeps ==
  ASSUME IInv, [Next]_vars
  PROVE  IInv'
<1>1. CASE \E r \in reqs : \/ Serve(r) \/ Lose(r) \/ HearExt(r) \/ HearToggle(r) \/ HearGroups(r)
                           \/ HearRow(r) \/ HearPut(r) \/ HearDelete(r)
  BY <1>1, ServeKeeps, LoseKeeps, ListKeeps, GroupsHeard, RowHeard, PutHeard
<1>2. CASE \E e \in Ext : \/ Toggle(e) \/ OpenEdit(e) \/ OpenAdd(e) \/ OpenDelete(e) \/ OtherDoor(e)
  BY <1>2, ClicksKeep, OthersKeep
<1>3. CASE \E g \in Group : Pick(g) \/ OtherGroup(g)
  BY <1>3, DialogKeeps, OthersKeep
<1>4. CASE \E s \in Save : Submit(s) \/ ReloadGroups(s) \/ FinishSave(s)
  BY <1>4, SubmitKeeps, ReloadKeeps, FinishKeeps
<1>5. CASE CloseDialog \/ ConfirmDelete
  BY <1>5, DialogKeeps
<1>6. CASE UNCHANGED vars
  <2>1. UNCHANGED <<ext, grp, rows, groups, dialog, saves, reqs, clicks, others, excused>>
    BY <1>6 DEF vars
  <2>2. Types' /\ \A s \in Save : SameSave(s)
    BY <2>1 DEF IInv, Types, SameSave
  <2>3. QED
    BY <2>1, <2>2, SavesGoOn
<1>7. QED
  BY <1>1, <1>2, <1>3, <1>4, <1>5, <1>6 DEF Next

LEMMA Inductive == Spec => []IInv
<1>1. Init => IInv
  BY InitIInv
<1>2. IInv /\ [Next]_vars => IInv'
  BY NextKeeps
<1>3. QED
  BY <1>1, <1>2, PTL DEF Spec

\* The variables keep their types.
THEOREM TypeCorrect == Spec => []TypeOK
<1>1. IInv => TypeOK
  <2>. SUFFICES ASSUME IInv PROVE TypeOK
    OBVIOUS
  <2>1. dialog.mode \in {"none", "crashed", "add", "edit", "delete"}
    BY DialogFacts DEF IInv, Types
  <2>2. \A s \in Save :
          saves[s].phase \in {"idle", "row", "groups", "synced", "reloading", "reloaded"}
    BY SaveFacts DEF IInv
  <2>3. \A r \in reqs : r.phase \in {"sent", "served"}
    BY DEF IInv, Requests, ReqOK
  <2>4. QED
    BY <2>1, <2>2, <2>3 DEF IInv, Types, TypeOK, Loads
<1>2. QED
  BY <1>1, Inductive, PTL

\* A save that says it succeeded has put its extension in exactly the ring groups its
\* dialog showed, but for groups somebody else has written meanwhile.
THEOREM SavedIsMember == Spec => []SavedMeansMember
<1>1. IInv => SavedMeansMember
  BY DEF IInv, SavesHold, Held, Member, SavedMeansMember
<1>2. QED
  BY <1>1, Inductive, PTL

\* Only the page of the door stations changes a door setting.
THEOREM DoorsSurvive == Spec => DoorSurvives
<1>1. ASSUME IInv, [Next]_vars, NEW e \in Ext, ext[e] # Gone, ext'[e] # Gone,
             ext'[e].door # ext[e].door
      PROVE  others' # others
  <2>1. CASE \E d \in Ext : OtherDoor(d)
    <3>1. others \in Nat /\ others' = others + 1
      BY <1>1, <2>1, PageBounds DEF OtherDoor, IInv, Types
    <3>2. QED
      BY <3>1
  <2>2. CASE \E r \in reqs : Serve(r)
    <3>1. PICK r \in reqs : Serve(r)
      BY <2>2
    <3>2. Types /\ ReqOK(r)
      BY <1>1 DEF IInv, Requests
    <3>3. ext' = ext \/ (~Refused(r) /\ ext' = ExtAfter(r))
      BY <3>1 DEF Serve
    <3>4. QED
      BY <1>1, <3>2, <3>3, HandlerFacts
  <2>3. CASE ~(\E d \in Ext : OtherDoor(d)) /\ ~(\E r \in reqs : Serve(r))
    <3>1. ext' = ext
      BY <1>1, <2>3 DEF Next, vars, Lose, HearExt, HearToggle, HearGroups, HearRow, HearPut,
        HearDelete, Toggle, OpenEdit, OpenAdd, OpenDelete, Pick, OtherGroup, Submit,
        ReloadGroups, FinishSave, CloseDialog, ConfirmDelete
    <3>2. QED
      BY <1>1, <3>1
  <2>4. QED
    BY <2>1, <2>2, <2>3
<1>2. IInv /\ [Next]_vars =>
        [\A e \in Ext : ext[e] # Gone /\ ext'[e] # Gone /\ ext'[e].door # ext[e].door
                         => others' # others]_vars
  BY <1>1
<1>3. QED
  BY <1>2, Inductive, PTL DEF Spec, DoorSurvives

\* A write that meets the group as it was loaded moves nobody but its own extension.
THEOREM OthersStay == Spec => OthersKeepTheirGroups
<1>1. ASSUME IInv, [Next]_vars, NEW r \in reqs, NEW g \in Group, r.kind = "putGroup",
             r.about = g, r.phase = "sent", r \notin reqs', r.body.loaded = grp[g],
             NEW e \in Ext \ {r.body.for}
      PROVE  (e \in grp'[g].members) = (e \in grp[g].members)
  <2>1. CASE grp' = grp
    BY <2>1
  <2>2. CASE \E x \in reqs : Serve(x)
    <3>1. PICK x \in reqs : Serve(x)
      BY <2>2
    <3>2. x = r
      BY <1>1, <3>1 DEF Serve
    <3>3. Types /\ ReqOK(r)
      BY <1>1 DEF IInv, Requests
    <3>4. grp' = grp \/ (~Refused(r) /\ grp' = GrpAfter(r))
      BY <3>1, <3>2 DEF Serve
    <3>5. CASE ~Refused(r) /\ grp' = GrpAfter(r)
      <4>1. grp' = [grp EXCEPT ![g] = r.body.row]
        BY <1>1, <3>3, <3>5, HandlerFacts
      <4>2. grp'[g] = r.body.row
        BY <3>3, <4>1 DEF Types
      <4>3. QED
        BY <1>1, <3>3, <4>2 DEF ReqOK
    <3>6. QED
      BY <2>1, <3>4, <3>5
  <2>3. CASE \E n \in Group : OtherGroup(n)
    BY <1>1, <2>3 DEF OtherGroup
  <2>4. QED
    BY <1>1, <2>1, <2>2, <2>3 DEF Next, vars, Lose, HearExt, HearToggle, HearGroups, HearRow,
      HearPut, HearDelete, Toggle, OpenEdit, OpenAdd, OpenDelete, OtherDoor, Pick, Submit,
      ReloadGroups, FinishSave, CloseDialog, ConfirmDelete
<1>2. IInv /\ [Next]_vars =>
        [\A r \in reqs, g \in Group :
           (r.kind = "putGroup" /\ r.about = g /\ r.phase = "sent" /\ r \notin reqs'
              /\ r.body.loaded = grp[g])
           => \A e \in Ext \ {r.body.for} : (e \in grp'[g].members) = (e \in grp[g].members)]_vars
  BY <1>1
<1>3. QED
  BY <1>2, Inductive, PTL DEF Spec, OthersKeepTheirGroups

-----------------------------------------------------------------------------
(* The list.  While no excuse is noted, a row is shown as it is stored but *)
(* for the one request or save that writes it; what that one carries says  *)
(* how the two will come together again.                                   *)

\* The requests and the saves that write a row.
On(e) == {r \in reqs : r.kind \in Writes /\ r.about = e}
Savers(e) == {s \in Save : saves[s].phase # "idle" /\ saves[s].ext = e}
Early == \E r \in reqs : r.kind = "loadExt"

\* What the list shows of a row while a request about it is on its way.
OnItsWay(r) ==
  LET e == r.about IN
  /\ IF r.phase = "sent" THEN r.result = "none" ELSE r.result \in {"ok", "refused"}
  /\ r.kind = "toggle" =>
       IF r.result = "ok" THEN r.answer = ext[e] /\ rows[e] # Gone
       ELSE /\ ext[e] # Gone /\ ext[e].on = r.body.was
            /\ rows[e] = [ext[e] EXCEPT !.on = r.body.on]
  /\ r.kind = "delete" => IF r.result = "ok" THEN ext[e] = Gone ELSE rows[e] = ext[e]
  /\ r.kind \in {"patch", "create"} =>
       /\ r.from \in Savers(e) /\ saves[r.from].add = (r.kind = "create")
       /\ IF r.result = "ok" THEN r.answer = ext[e] /\ (r.kind = "patch" => rows[e] # Gone)
          ELSE rows[e] = ext[e]

\* A save that waits for its ring groups has the row that is stored.
RowHeld(s) ==
  LET sv == saves[s] IN
  sv.phase # "row" => sv.row = ext[sv.ext] /\ (~sv.add => rows[sv.ext] # Gone)

\* A row that is shown as it is stored, but for the one request or save that writes it.
Good(e) ==
  /\ \A p, q \in On(e) : p = q
  /\ \A s, t \in Savers(e) : s = t
  /\ \A s \in Savers(e), q \in On(e) : q.from = s
  /\ \A r \in On(e) : OnItsWay(r)
  /\ \A s \in Savers(e) : RowHeld(s)
  /\ On(e) = {} /\ Savers(e) = {} => rows[e] = ext[e]

\* Until the list is loaded nothing is written.
LoadIsFirst ==
  /\ \A r \in reqs : r.kind \notin Writes /\ (r.kind = "loadExt" /\ r.result = "ok" => r.answer = ext)
  /\ \A s \in Save : saves[s].phase = "idle"

Agree == ~excused => /\ dialog.mode # "crashed"
                     /\ IF Early THEN LoadIsFirst ELSE \A e \in Ext : Good(e)

Later == {"groups", "synced", "reloading", "reloaded"}

\* A save that still holds the same row, or still waits for it.
SameRow(s) ==
  /\ \/ saves'[s].phase = saves[s].phase
     \/ saves[s].phase \in Later /\ saves'[s].phase \in Later
  /\ saves[s].phase # "idle" =>
       /\ saves'[s].ext = saves[s].ext /\ saves'[s].add = saves[s].add
       /\ saves'[s].row = saves[s].row

LEMMA SameSaveSameRow == \A s \in Save : SameSave(s) => SameRow(s)
BY DEF SameSave, SameRow

\* A row that a step has nothing to do with.
LEMMA GoodStays ==
  ASSUME NEW e \in Ext, Good(e), ext'[e] = ext[e], rows'[e] = rows[e], On(e)' = On(e),
         \A s \in Save : SameRow(s) \/ (s \notin Savers(e) /\ s \notin Savers(e)')
  PROVE  Good(e)'
<1>1. Savers(e)' = Savers(e) /\ Savers(e) \subseteq Save
  BY DEF Savers, SameRow, Later
<1>2. \A s \in Savers(e) : SameRow(s) /\ saves[s].phase # "idle" /\ saves[s].ext = e
  BY <1>1 DEF Savers
<1>3. ASSUME NEW r \in On(e)
      PROVE  OnItsWay(r)'
  <2>1. OnItsWay(r) /\ r.about = e
    BY DEF Good, On
  <2>2. r.kind \in {"patch", "create"} =>
          r.from \in Savers(e)' /\ saves'[r.from].add = saves[r.from].add
    BY <1>1, <1>2, <2>1 DEF OnItsWay, SameRow
  <2>3. QED
    BY <1>1, <2>1, <2>2 DEF OnItsWay
<1>4. ASSUME NEW s \in Savers(e)
      PROVE  RowHeld(s)'
  <2>1. RowHeld(s) /\ SameRow(s) /\ saves[s].phase # "idle" /\ saves[s].ext = e
    BY <1>2 DEF Good
  <2>2. QED
    BY <2>1 DEF RowHeld, SameRow, Later
<1>5. QED
  BY <1>1, <1>3, <1>4 DEF Good

\* A step that concerns only some rows.
LEMMA OthersStayGood ==
  ASSUME Agree, ~excused, ~Early, NEW E, dialog'.mode # "crashed",
         \A r \in reqs' \ reqs : r.kind # "loadExt" /\ (r.kind \in Writes => r.about \in E),
         \A r \in reqs \ reqs' : r.kind \in Writes => r.about \in E,
         \A e \in Ext \ E : ext'[e] = ext[e] /\ rows'[e] = rows[e],
         \A s \in Save : \/ SameRow(s)
                         \/ /\ saves[s].phase = "idle" \/ saves[s].ext \in E
                            /\ saves'[s].phase = "idle" \/ saves'[s].ext \in E,
         \A e \in Ext \cap E : Good(e)'
  PROVE  Agree'
<1>1. ~Early'
  BY DEF Early
<1>2. ASSUME NEW e \in Ext \ E
      PROVE  Good(e)'
  <2>1. On(e)' = On(e)
    BY <1>2 DEF On
  <2>2. \A s \in Save : SameRow(s) \/ (s \notin Savers(e) /\ s \notin Savers(e)')
    BY <1>2 DEF Savers
  <2>3. Good(e)
    BY DEF Agree
  <2>4. QED
    BY <1>2, <2>1, <2>2, <2>3, GoodStays
<1>3. QED
  BY <1>1, <1>2 DEF Agree

\* A request that writes a row is alone with it, but for the save it belongs to.
LEMMA Alone ==
  ASSUME IInv, NEW e \in Ext, Good(e), NEW r \in On(e)
  PROVE  /\ r \in reqs /\ ReqOK(r) /\ Owned(r) /\ OnItsWay(r) /\ On(e) = {r}
         /\ \A s \in Savers(e) : /\ r.from = s /\ r.kind \in {"patch", "create"}
                                /\ saves[s].phase = "row" /\ Savers(e) = {s}
         /\ r.kind \in {"toggle", "delete"} => Savers(e) = {}
<1>1. r \in reqs /\ ReqOK(r) /\ Owned(r) /\ OnItsWay(r) /\ On(e) = {r}
  BY DEF On, Good, IInv, Requests
<1>2. \A s \in Savers(e) : s \in Save /\ r.from = s /\ Savers(e) = {s}
  BY DEF Good, Savers
<1>3. r.kind \in Writes /\ (r.from \in Save => r.kind \in {"patch", "create"})
  BY <1>1, SaveNames DEF On, ReqOK, Writes
<1>4. \A s \in Savers(e) : saves[s].phase = "row"
  BY <1>1, <1>2, <1>3 DEF Owned
<1>5. QED
  BY <1>1, <1>2, <1>3, <1>4

\* Whoever starts to write a row finds it free.
LEMMA Free ==
  ASSUME Agree, ~excused, NEW e \in Ext, ~Overlap(e)
  PROVE  ~Early /\ Good(e) /\ On(e) = {} /\ Savers(e) = {} /\ rows[e] = ext[e]
<1>1. ~Early /\ On(e) = {} /\ Savers(e) = {}
  BY DEF Overlap, Touches, Early, On, Savers
<1>2. QED
  BY <1>1 DEF Agree, Good

\* The dialogs' ways of saying that a save goes on or has ended.
LEMMA ModeStays ==
  ASSUME dialog \in Dialogs, dialog.mode # "crashed"
  PROVE  /\ \A b : [dialog EXCEPT !.saving = b].mode # "crashed"
         /\ Closed.mode # "crashed" /\ dialog # Crashed
         /\ \A s, failed : EndSave(s, failed) => dialog'.mode # "crashed"
<1>1. Closed.mode # "crashed" /\ dialog # Crashed
  BY DEF Closed, Crashed
<1>2. \A b : [dialog EXCEPT !.saving = b].mode # "crashed"
  BY DEF Dialogs, FormDialogs, DeleteDialogs, Closed, Crashed
<1>3. QED
  BY <1>1, <1>2 DEF EndSave

\* A request that is served.
LEMMA ServeAgrees ==
  ASSUME IInv, Agree, ~excused, ~Early, NEW r \in reqs, Serve(r)
  PROVE  Agree'
<1>1. /\ ReqOK(r) /\ Types /\ r.phase = "sent"
      /\ UNCHANGED <<rows, groups, dialog, others, excused, clicks>>
  BY DEF IInv, Requests, Serve
<1>2. PICK broken \in BOOLEAN :
        LET refused == broken \/ Refused(r) IN
        /\ reqs' = (reqs \ {r})
                     \cup {Answered(r, IF refused THEN "refused" ELSE "ok",
                                    IF refused THEN Gone ELSE AnswerOf(r))}
        /\ ext' = IF refused THEN ext ELSE ExtAfter(r)
        /\ saves' = Foreign({g \in Group : grp'[g] # grp[g]}, r.from)
  BY DEF Serve, Answered
<1>. DEFINE fails == broken \/ Refused(r)
            new == Answered(r, IF fails THEN "refused" ELSE "ok", IF fails THEN Gone ELSE AnswerOf(r))
<1>3. /\ new.kind = r.kind /\ new.about = r.about /\ new.body = r.body /\ new.from = r.from
      /\ new.phase = "served" /\ new.result = (IF fails THEN "refused" ELSE "ok")
      /\ new.answer = (IF fails THEN Gone ELSE AnswerOf(r))
      /\ reqs' = (reqs \ {r}) \cup {new}
      /\ ext' = IF fails THEN ext ELSE ExtAfter(r)
      /\ ~fails => ~Refused(r)
  BY <1>1, <1>2, AnswerFacts DEF ReqOK
<1>. HIDE DEF fails, new
<1>4. PICK q, refused :
        /\ q.kind = r.kind /\ q.about = r.about /\ q.body = r.body /\ q.from = r.from
        /\ q.phase = "served" /\ q.result = (IF refused THEN "refused" ELSE "ok")
        /\ q.answer = (IF refused THEN Gone ELSE AnswerOf(r))
        /\ reqs' = (reqs \ {r}) \cup {q}
        /\ ext' = IF refused THEN ext ELSE ExtAfter(r)
        /\ ~refused => ~Refused(r)
  BY <1>3
<1>5. \A s \in Save : SameRow(s)
  <2>1. {g \in Group : grp'[g] # grp[g]} \in SUBSET Group
    OBVIOUS
  <2>2. QED
    BY <1>1, <1>2, <2>1, ForeignFacts, SameSaveSameRow
<1>6. dialog'.mode # "crashed" /\ r.kind # "loadExt"
  BY <1>1 DEF Early, Agree
<1>7. \A x \in reqs' \ reqs : x = q
  BY <1>4
<1>8. \A x \in reqs \ reqs' : x = r
  BY <1>4
<1>9. CASE r.kind \notin Writes
  <2>1. ext' = ext
    BY <1>4, <1>9 DEF ExtAfter, Writes
  <2>2. \A x \in Ext \cap {} : Good(x)'
    OBVIOUS
  <2>3. QED
    BY <1>1, <1>4, <1>5, <1>6, <1>7, <1>8, <1>9, <2>1, <2>2, OthersStayGood
<1>10. CASE r.kind \in Writes
  <2>. DEFINE e == r.about
  <2>1. e \in Ext /\ Good(e) /\ r \in On(e)
    BY <1>1, <1>10 DEF ReqOK, Writes, Agree, On
  <2>. HIDE DEF e
  <2>2. /\ OnItsWay(r) /\ On(e) = {r} /\ r.result = "none"
        /\ \A s \in Savers(e) : /\ r.from = s /\ r.kind \in {"patch", "create"}
                               /\ saves[s].phase = "row" /\ Savers(e) = {s}
    BY <1>1, <2>1, Alone DEF OnItsWay
  <2>3. On(e)' = {q}
    BY <1>4, <1>10, <2>2 DEF On, e
  <2>4. Savers(e)' = Savers(e) /\ \A s \in Savers(e) : saves'[s].phase = "row"
    BY <1>5, <2>2 DEF Savers, SameRow, Later
  <2>5. \A x \in Ext \ {e} : ext'[x] = ext[x]
    BY <1>1, <1>4 DEF ExtAfter, Types, e
  <2>6. refused => ext'[e] = ext[e]
    BY <1>4
  <2>7. ~refused => ext'[e] = ExtAfter(r)[e] /\ q.answer = ext'[e] /\ q.result = "ok" /\ ~Refused(r)
    BY <1>4, <1>10 DEF AnswerOf, Writes, e
  <2>8. refused => q.result = "refused"
    BY <1>4
  <2>9. OnItsWay(q)'
    <3>1. CASE r.kind = "toggle"
      <4>1. ext[e] # Gone /\ ext[e].on = r.body.was /\ rows[e] = [ext[e] EXCEPT !.on = r.body.on]
        BY <2>2, <3>1 DEF OnItsWay, e
      <4>2. rows[e] # Gone
        BY <1>1, <2>1, <4>1, RowFacts DEF Types, Row, Gone
      <4>3. QED
        BY <1>1, <1>4, <2>6, <2>7, <2>8, <3>1, <4>1, <4>2 DEF OnItsWay, e
    <3>2. CASE r.kind = "delete"
      <4>1. ~refused => ext'[e] = Gone
        BY <1>1, <2>1, <2>7, <3>2 DEF ExtAfter, Types, e
      <4>2. rows[e] = ext[e]
        BY <2>2, <3>2 DEF OnItsWay, e
      <4>3. QED
        BY <1>1, <1>4, <2>6, <2>7, <2>8, <3>2, <4>1, <4>2 DEF OnItsWay, e
    <3>3. CASE r.kind \in {"patch", "create"}
      <4>1. /\ rows[e] = ext[e] /\ r.from \in Savers(e) /\ saves[r.from].add = (r.kind = "create")
        BY <2>2, <3>3 DEF OnItsWay, e
      <4>2. r.from \in Savers(e)' /\ saves'[r.from].add = saves[r.from].add
        BY <1>5, <2>4, <4>1 DEF Savers, SameRow
      <4>3. ~refused /\ r.kind = "patch" => rows[e] # Gone
        BY <2>7, <4>1 DEF Refused, e
      <4>4. QED
        BY <1>1, <1>4, <2>6, <2>7, <2>8, <3>3, <4>1, <4>2, <4>3 DEF OnItsWay, e
    <3>4. QED
      BY <1>10, <3>1, <3>2, <3>3 DEF Writes
  <2>10. Good(e)'
    <3>1. \A s \in Savers(e)' : RowHeld(s)'
      BY <2>4 DEF RowHeld
    <3>2. QED
      BY <1>4, <2>2, <2>3, <2>4, <2>9, <3>1 DEF Good
  <2>11. \A x \in Ext \cap {e} : Good(x)'
    BY <2>10
  <2>12. QED
    BY <1>1, <1>4, <1>5, <1>6, <1>7, <1>8, <2>5, <2>11, OthersStayGood DEF e
<1>11. QED
  BY <1>9, <1>10

\* What the click that sends a request does to its row, and to the saves.
ClickedRow(e, kind, body) ==
  IF kind = "toggle"
  THEN rows[e] # Gone /\ body.was = rows[e].on /\ rows'[e] = [rows[e] EXCEPT !.on = body.on]
  ELSE rows'[e] = rows[e]
ClickedSaves(e, kind, from) ==
  IF kind \in {"patch", "create"}
  THEN /\ from \in Save /\ saves[from].phase = "idle" /\ saves'[from].phase = "row"
       /\ saves'[from].ext = e /\ saves'[from].add = (kind = "create")
       /\ \A s \in Save \ {from} : SameRow(s)
  ELSE \A s \in Save : SameRow(s)

\* A request that is sent by hand, to a row that nothing else writes.
LEMMA SentAgrees ==
  ASSUME IInv, Agree, ~excused, NEW e \in Ext, ~Overlap(e), dialog'.mode # "crashed",
         NEW kind \in Writes, NEW body, NEW from,
         reqs' = reqs \cup {NewReq(kind, e, body, from)}, ext' = ext,
         \A x \in Ext \ {e} : rows'[x] = rows[x],
         ClickedRow(e, kind, body), ClickedSaves(e, kind, from)
  PROVE  Agree'
<1>. USE DEF ClickedRow, ClickedSaves
<1>1. ~Early /\ Good(e) /\ On(e) = {} /\ Savers(e) = {} /\ rows[e] = ext[e]
  BY Free
<1>2. PICK q : /\ q.kind = kind /\ q.about = e /\ q.body = body /\ q.from = from
               /\ q.phase = "sent" /\ q.result = "none" /\ reqs' = reqs \cup {q}
  BY NewFacts
<1>3. On(e)' = {q}
  BY <1>1, <1>2 DEF On
<1>4. Savers(e)' = IF kind \in {"patch", "create"} THEN {from} ELSE {}
  <2>1. CASE kind \in {"patch", "create"}
    <3>1. /\ from \in Save /\ saves'[from].phase = "row" /\ saves'[from].ext = e
          /\ saves[from].phase = "idle" /\ \A s \in Save \ {from} : SameRow(s)
      BY <2>1
    <3>2. QED
      BY <1>1, <2>1, <3>1 DEF Savers, SameRow, Later
  <2>2. CASE kind \notin {"patch", "create"}
    <3>1. \A s \in Save : SameRow(s)
      BY <2>2
    <3>2. QED
      BY <1>1, <2>2, <3>1 DEF Savers, SameRow, Later
  <2>3. QED
    BY <2>1, <2>2
<1>5. OnItsWay(q)'
  <2>1. CASE kind = "toggle"
    BY <1>1, <1>2, <2>1 DEF OnItsWay
  <2>2. CASE kind = "delete"
    BY <1>1, <1>2, <2>2 DEF OnItsWay
  <2>3. CASE kind \in {"patch", "create"}
    <3>1. from \in Savers(e)' /\ saves'[from].add = (kind = "create")
      BY <1>4, <2>3
    <3>2. QED
      BY <1>1, <1>2, <2>3, <3>1 DEF OnItsWay
  <2>4. QED
    BY <2>1, <2>2, <2>3 DEF Writes
<1>6. \A x \in Ext \cap {e} : Good(x)'
  BY <1>2, <1>3, <1>4, <1>5 DEF Good, RowHeld
<1>7. \A s \in Save : \/ SameRow(s)
                      \/ /\ saves[s].phase = "idle" \/ saves[s].ext \in {e}
                         /\ saves'[s].phase = "idle" \/ saves'[s].ext \in {e}
  OBVIOUS
<1>8. /\ \A r \in reqs' \ reqs : r.kind # "loadExt" /\ r.about \in {e}
      /\ reqs \ reqs' = {}
  BY <1>2 DEF Writes
<1>9. QED
  BY <1>1, <1>6, <1>7, <1>8, OthersStayGood

LEMMA ClicksAgree ==
  ASSUME IInv, Agree, ~excused, ~excused',
         \/ \E e \in Ext : Toggle(e)
         \/ \E s \in Save : Submit(s)
         \/ ConfirmDelete
  PROVE  Agree'
<1>0. Types /\ dialog.mode # "crashed"
  BY DEF IInv, Agree
<1>1. ASSUME NEW e \in Ext, Toggle(e)
      PROVE  Agree'
  <2>1. PICK kind, body, from :
          kind = "toggle" /\ from = "none" /\ body = [on |-> ~rows[e].on, was |-> rows[e].on]
    OBVIOUS
  <2>2. /\ ~Overlap(e) /\ rows[e] # Gone /\ reqs' = reqs \cup {NewReq(kind, e, body, from)}
        /\ rows' = [rows EXCEPT ![e] = [rows[e] EXCEPT !.on = body.on]]
        /\ UNCHANGED <<ext, dialog, saves>>
    BY <1>1, <2>1 DEF Toggle
  <2>3. /\ ClickedRow(e, kind, body)
        /\ \A x \in Ext \ {e} : rows'[x] = rows[x]
    BY <1>0, <2>1, <2>2 DEF Types, ClickedRow
  <2>4. ClickedSaves(e, kind, from)
    BY <2>1, <2>2 DEF SameRow, ClickedSaves
  <2>5. kind \in Writes
    BY <2>1 DEF Writes
  <2>6. dialog'.mode # "crashed"
    BY <1>0, <2>2
  <2>7. QED
    BY <2>2, <2>3, <2>4, <2>5, <2>6, SentAgrees
<1>2. ASSUME NEW s \in Save, Submit(s)
      PROVE  Agree'
  <2>. DEFINE mode == IF dialog.mode = "add" THEN "create" ELSE "patch"
  <2>1. PICK e, kind, body : e = dialog.ext /\ kind = mode /\ body = Typed(dialog.row)
    OBVIOUS
  <2>2. /\ dialog.mode \in {"add", "edit"} /\ ~Overlap(e) /\ saves[s].phase = "idle"
        /\ dialog' = [dialog EXCEPT !.saving = TRUE]
        /\ reqs' = reqs \cup {NewReq(kind, e, body, s)}
        /\ UNCHANGED <<ext, rows>>
    BY <1>2, <2>1 DEF Submit
  <2>3. /\ saves'[s].phase = "row" /\ saves'[s].ext = e /\ saves'[s].add = (dialog.mode = "add")
        /\ \A t \in Save \ {s} : saves'[t] = saves[t]
    BY <1>0, <1>2, <2>1 DEF Submit, Types
  <2>4. e \in Ext /\ kind \in Writes /\ kind \in {"patch", "create"}
        /\ (kind = "create" <=> dialog.mode = "add") /\ kind # "toggle"
    BY <1>0, <2>1, <2>2, DialogFacts DEF Types, FormDialogs, Writes
  <2>5. dialog'.mode # "crashed"
    BY <1>0, <2>2, ModeStays DEF Types
  <2>6. ClickedSaves(e, kind, s)
    BY <2>2, <2>3, <2>4 DEF SameRow, ClickedSaves
  <2>7. ClickedRow(e, kind, body)
    BY <2>2, <2>4 DEF ClickedRow
  <2>8. ext' = ext /\ (\A x \in Ext \ {e} : rows'[x] = rows[x]) /\ kind \in Writes
    BY <2>2, <2>4
  <2>9. QED
    BY <2>2, <2>4, <2>5, <2>6, <2>7, <2>8, SentAgrees
<1>3. ASSUME ConfirmDelete
      PROVE  Agree'
  <2>1. PICK kind, body, from : kind = "delete" /\ body = Gone /\ from = "none"
    OBVIOUS
  <2>2. PICK e \in Ext : e = dialog.ext
    BY <1>0, <1>3, DialogFacts DEF Types, DeleteDialogs, ConfirmDelete
  <2>3. /\ ~Overlap(e) /\ reqs' = reqs \cup {NewReq(kind, e, body, from)}
        /\ dialog' = [dialog EXCEPT !.saving = TRUE]
        /\ UNCHANGED <<ext, rows, saves>>
    BY <1>3, <2>1, <2>2 DEF ConfirmDelete
  <2>4. ClickedSaves(e, kind, from)
    BY <2>1, <2>3 DEF SameRow, ClickedSaves
  <2>5. kind \in Writes /\ ClickedRow(e, kind, body)
    BY <2>1, <2>3 DEF Writes, ClickedRow
  <2>6. /\ ext' = ext /\ \A x \in Ext \ {e} : rows'[x] = rows[x]
        /\ dialog'.mode # "crashed"
    BY <1>0, <2>3, ModeStays DEF Types
  <2>7. QED
    BY <2>3, <2>4, <2>5, <2>6, SentAgrees
<1>4. QED
  BY <1>1, <1>2, <1>3

\* An answer to the switch or to a delete: the row is alone with it.
LEMMA RowsAgree ==
  ASSUME IInv, Agree, ~excused, ~Early, NEW r \in reqs, HearToggle(r) \/ HearDelete(r)
  PROVE  Agree'
<1>1. /\ ReqOK(r) /\ Types /\ reqs' = reqs \ {r} /\ r.kind \in {"toggle", "delete"}
      /\ r.phase = "served" /\ UNCHANGED <<ext, saves>> /\ dialog.mode # "crashed"
  BY DEF IInv, Requests, HearToggle, HearDelete, Agree
<1>2. PICK e \in Ext : e = r.about /\ Good(e) /\ r \in On(e)
  BY <1>1 DEF ReqOK, Agree, On, Writes
<1>3. OnItsWay(r) /\ On(e) = {r} /\ Savers(e) = {} /\ r.result \in {"ok", "refused"}
  BY <1>1, <1>2, Alone DEF OnItsWay
<1>. DEFINE Facts == /\ rows'[e] = ext[e] /\ dialog'.mode # "crashed"
                     /\ \A x \in Ext \ {e} : rows'[x] = rows[x]
<1>4. ASSUME HearToggle(r)
      PROVE  Facts
  <2>1. /\ rows' = IF rows[e] = Gone THEN rows ELSE [rows EXCEPT ![e] = AfterToggle(r)]
        /\ r.kind = "toggle" /\ dialog' = dialog
    BY <1>2, <1>4 DEF HearToggle
  <2>2. rows[e] # Gone /\ AfterToggle(r) = ext[e]
    <3>1. CASE r.result = "ok"
      BY <1>2, <1>3, <2>1, <3>1 DEF OnItsWay, AfterToggle, Failed
    <3>2. CASE r.result # "ok"
      <4>1. ext[e] \in Row /\ ext[e].on = r.body.was /\ rows[e] = [ext[e] EXCEPT !.on = r.body.on]
        BY <1>1, <1>2, <1>3, <2>1, <3>2, RowFacts DEF OnItsWay, Types
      <4>2. rows[e] # Gone /\ [rows[e] EXCEPT !.on = r.body.was] = ext[e]
        BY <4>1 DEF Row, Gone
      <4>3. QED
        BY <1>2, <3>2, <4>2 DEF AfterToggle, Failed
    <3>3. QED
      BY <3>1, <3>2
  <2>3. rows'[e] = ext[e] /\ \A x \in Ext \ {e} : rows'[x] = rows[x]
    BY <1>1, <2>1, <2>2 DEF Types
  <2>4. dialog'.mode # "crashed"
    BY <1>1, <2>1
  <2>5. QED
    BY <2>3, <2>4
<1>5. ASSUME HearDelete(r)
      PROVE  Facts
  <2>1. r.kind = "delete" /\ rows' = IF Failed(r) THEN rows ELSE [rows EXCEPT ![e] = Gone]
    BY <1>2, <1>5 DEF HearDelete
  <2>2. rows'[e] = ext[e] /\ \A x \in Ext \ {e} : rows'[x] = rows[x]
    BY <1>1, <1>2, <1>3, <2>1 DEF OnItsWay, Failed, Types
  <2>3. dialog'.mode # "crashed"
    BY <1>1, <1>5, ModeStays DEF HearDelete, Types
  <2>4. QED
    BY <2>2, <2>3
<1>6. Facts
  BY <1>4, <1>5
<1>7. On(e)' = {} /\ Savers(e)' = {}
  BY <1>1, <1>3 DEF On, Savers
<1>8. \A x \in Ext \cap {e} : Good(x)'
  BY <1>1, <1>6, <1>7 DEF Good
<1>9. \A s \in Save : SameRow(s)
  BY <1>1 DEF SameRow
<1>10. reqs' \ reqs = {} /\ \A x \in reqs \ reqs' : x.about \in {e}
  BY <1>1, <1>2
<1>11. QED
  BY <1>1, <1>6, <1>8, <1>9, <1>10, OthersStayGood

\* The extension of a save is answered: the save now has the row that is stored, or it
\* is over and the row is as it was.
LEMMA RowAgrees ==
  ASSUME IInv, Agree, ~excused, ~Early, NEW r \in reqs, HearRow(r)
  PROVE  Agree'
<1>1. /\ ReqOK(r) /\ Types /\ r.kind \in {"patch", "create"} /\ r.phase = "served"
      /\ UNCHANGED <<ext, rows>> /\ dialog.mode # "crashed"
  BY DEF IInv, Requests, HearRow, Agree
<1>2. PICK e \in Ext : e = r.about /\ Good(e) /\ r \in On(e)
  BY <1>1 DEF ReqOK, Agree, On, Writes
<1>3. OnItsWay(r) /\ On(e) = {r} /\ r.result \in {"ok", "refused"}
  BY <1>1, <1>2, Alone DEF OnItsWay
<1>4. PICK s \in Save :
        /\ r.from = s /\ saves[s].ext = e /\ saves[s].phase = "row" /\ Savers(e) = {s}
        /\ saves[s].add = (r.kind = "create") /\ saves[s] \in Running
  <2>1. r.from \in Savers(e) /\ saves[r.from].add = (r.kind = "create")
    BY <1>1, <1>2, <1>3 DEF OnItsWay
  <2>2. QED
    BY <1>1, <1>2, <2>1, Alone, SaveFacts DEF Savers
<1>5. CASE Failed(r)
  <2>1. EndSave(s, TRUE) /\ reqs' = reqs \ {r}
    BY <1>4, <1>5 DEF HearRow
  <2>2. saves'[s].phase = "idle" /\ \A t \in Save \ {s} : saves'[t] = saves[t]
    BY <1>1, <2>1, SaveFacts DEF EndSave, Types
  <2>3. dialog'.mode # "crashed"
    BY <1>1, <2>1, ModeStays DEF Types
  <2>4. On(e)' = {} /\ Savers(e)' = {}
    BY <1>3, <1>4, <2>1, <2>2 DEF On, Savers
  <2>5. rows[e] = ext[e]
    BY <1>1, <1>2, <1>3, <1>5 DEF OnItsWay, Failed
  <2>6. \A x \in Ext \cap {e} : Good(x)'
    BY <1>1, <2>4, <2>5 DEF Good
  <2>7. \A t \in Save : SameRow(t) \/ ((saves[t].ext \in {e}) /\ saves'[t].phase = "idle")
    BY <1>4, <2>2 DEF SameRow
  <2>8. reqs' \ reqs = {} /\ \A x \in reqs \ reqs' : x.about \in {e}
    BY <1>2, <2>1
  <2>9. QED
    BY <1>1, <2>3, <2>6, <2>7, <2>8, OthersStayGood
<1>6. CASE ~Failed(r)
  <2>. DEFINE left == Changing(saves[s])
              sv == [saves[s] EXCEPT !.row = r.answer, !.left = left]
              sv2 == [sv EXCEPT !.phase = IF sv.left = {} THEN "synced" ELSE "groups"]
  <2>1. /\ saves' = [saves EXCEPT ![s] = sv2] /\ dialog' = dialog
        /\ reqs' = (reqs \ {r}) \cup {PutGroup(sv, g, s) : g \in sv.left}
    BY <1>4, <1>6 DEF HearRow
  <2>2. sv2.phase \in Later /\ sv2.row = r.answer /\ sv2.ext = e /\ sv2.add = saves[s].add
    BY <1>4 DEF Running, Later
  <2>. HIDE DEF sv2
  <2>3. /\ saves'[s].phase \in Later /\ saves'[s].row = r.answer /\ saves'[s].ext = e
        /\ saves'[s].add = saves[s].add /\ \A t \in Save \ {s} : saves'[t] = saves[t]
    BY <1>1, <2>1, <2>2 DEF Types
  <2>. HIDE DEF sv
  <2>4. \A x \in reqs' : x \in reqs \ {r} \/ x.kind = "putGroup"
    <3>1. \A g : PutGroup(sv, g, s).kind = "putGroup"
      BY NewFacts DEF PutGroup
    <3>2. QED
      BY <2>1, <3>1
  <2>5. reqs \ {r} \subseteq reqs'
    BY <2>1
  <2>6. On(e)' = {}
    BY <1>3, <2>4 DEF On, Writes
  <2>7. Savers(e)' = {s}
    BY <1>4, <2>3 DEF Savers, Later
  <2>8. r.answer = ext[e] /\ (r.kind = "patch" => rows[e] # Gone)
    BY <1>1, <1>2, <1>3, <1>6 DEF OnItsWay, Failed
  <2>9. \A x \in Ext \cap {e} : Good(x)'
    <3>1. RowHeld(s)'
      BY <1>1, <1>4, <2>3, <2>8 DEF RowHeld
    <3>2. QED
      BY <2>6, <2>7, <3>1 DEF Good
  <2>10. \A t \in Save : SameRow(t) \/ ((saves[t].ext \in {e}) /\ saves'[t].ext \in {e})
    BY <1>4, <2>3 DEF SameRow
  <2>11. /\ \A x \in reqs' \ reqs : x.kind # "loadExt" /\ x.kind \notin Writes
         /\ \A x \in reqs \ reqs' : x.about \in {e}
    BY <1>2, <2>4, <2>5 DEF Writes
  <2>12. dialog'.mode # "crashed"
    BY <1>1, <2>1
  <2>13. QED
    BY <1>1, <2>9, <2>10, <2>11, <2>12, OthersStayGood
<1>7. QED
  BY <1>5, <1>6

\* A save that is through with its ring groups puts its row into the list.
LEMMA FinishAgrees ==
  ASSUME IInv, Agree, ~excused, ~Early, NEW s \in Save, FinishSave(s)
  PROVE  Agree'
<1>1. /\ Types /\ saves[s].phase = "reloaded" /\ saves[s] \in Running /\ dialog.mode # "crashed"
      /\ EndSave(s, FALSE) /\ UNCHANGED <<ext, reqs>>
  BY SaveFacts DEF IInv, Agree, FinishSave
<1>2. PICK e \in Ext : e = saves[s].ext /\ Good(e) /\ s \in Savers(e)
  BY <1>1 DEF Running, Agree, Savers
<1>3. Savers(e) = {s} /\ saves[s].row = ext[e] /\ (~saves[s].add => rows[e] # Gone)
  BY <1>1, <1>2 DEF Good, RowHeld
<1>4. On(e) = {}
  <2>1. ASSUME NEW r \in On(e) PROVE FALSE
    BY <1>1, <1>2, Alone
  <2>2. QED
    BY <2>1
<1>5. rows' = [rows EXCEPT ![e] = ext[e]]
  BY <1>1, <1>2, <1>3, ModeStays DEF FinishSave, Types
<1>6. rows'[e] = ext[e] /\ \A x \in Ext \ {e} : rows'[x] = rows[x]
  BY <1>1, <1>5 DEF Types
<1>7. saves'[s].phase = "idle" /\ \A t \in Save \ {s} : saves'[t] = saves[t]
  BY <1>1, SaveFacts DEF EndSave, Types
<1>8. On(e)' = {} /\ Savers(e)' = {}
  BY <1>1, <1>3, <1>4, <1>7 DEF On, Savers
<1>9. \A x \in Ext \cap {e} : Good(x)'
  BY <1>1, <1>6, <1>8 DEF Good
<1>10. \A t \in Save : SameRow(t) \/ ((saves[t].ext \in {e}) /\ saves'[t].phase = "idle")
  BY <1>2, <1>7 DEF SameRow
<1>11. dialog'.mode # "crashed" /\ reqs' \ reqs = {} /\ reqs \ reqs' = {}
  BY <1>1, ModeStays DEF Types
<1>12. QED
  BY <1>1, <1>6, <1>9, <1>10, <1>11, OthersStayGood

\* Steps that leave the rows alone, and each save with its row.
LEMMA RestAgrees ==
  ASSUME IInv, Agree, ~excused, ~excused', ~Early,
         \/ \E r \in reqs : HearGroups(r) \/ HearPut(r)
         \/ \E s \in Save : ReloadGroups(s)
         \/ \E g \in Group : Pick(g) \/ OtherGroup(g)
         \/ \E e \in Ext : OpenEdit(e) \/ OpenAdd(e) \/ OpenDelete(e)
         \/ CloseDialog
         \/ UNCHANGED vars
  PROVE  Agree'
<1>0. Types /\ dialog.mode # "crashed"
  BY DEF IInv, Agree
<1>. DEFINE Facts == /\ UNCHANGED <<ext, rows>> /\ dialog'.mode # "crashed"
                     /\ \A s \in Save : SameRow(s)
                     /\ \A r \in reqs' \ reqs : r.kind \notin Writes /\ r.kind # "loadExt"
                     /\ \A r \in reqs \ reqs' : r.kind \notin Writes
<1>1. ASSUME NEW r \in reqs, HearGroups(r)
      PROVE  Facts
  <2>1. /\ r.kind = "loadGrp" /\ reqs' = reqs \ {r} /\ UNCHANGED <<ext, rows, dialog>>
        /\ Owned(r)
        /\ saves' = [s \in Save |-> IF r.from = s THEN [saves[s] EXCEPT !.phase = "reloaded"]
                                    ELSE saves[s]]
    BY <1>1 DEF HearGroups, IInv, Requests
  <2>2. ASSUME NEW s \in Save
        PROVE  SameRow(s)
    <3>1. CASE r.from = s
      <4>1. saves[s].phase = "reloading" /\ saves[s] \in Running
        BY <1>0, <2>1, <3>1, SaveFacts DEF Owned
      <4>2. saves'[s] = [saves[s] EXCEPT !.phase = "reloaded"]
        BY <2>1, <3>1
      <4>3. QED
        BY <4>1, <4>2 DEF SameRow, Later, Running
    <3>2. CASE r.from # s
      BY <2>1, <3>2 DEF SameRow
    <3>3. QED
      BY <3>1, <3>2
  <2>3. QED
    BY <1>0, <2>1, <2>2 DEF Writes
<1>2. ASSUME NEW r \in reqs, HearPut(r)
      PROVE  Facts
  <2>1. PICK s \in Save :
          r.from = s /\ r.kind = "putGroup" /\ reqs' = reqs \ {r} /\ UNCHANGED <<ext, rows>>
    BY <1>2 DEF HearPut, IInv, Requests, ReqOK
  <2>. DEFINE here == saves[s].phase = "groups" /\ r.about \in saves[s].left
              left == saves[s].left \ {r.about}
              phase == IF left = {} THEN "synced" ELSE "groups"
  <2>2. CASE ~here
    <3>1. UNCHANGED <<saves, dialog>>
      BY <1>2, <2>1, <2>2 DEF HearPut
    <3>2. QED
      BY <1>0, <2>1, <3>1 DEF SameRow, Writes
  <2>3. CASE here
    <3>1. /\ saves' = [saves EXCEPT ![s].left = left, ![s].phase = phase] /\ dialog' = dialog
      BY <1>2, <2>1, <2>3 DEF HearPut, EndSave, Failed
    <3>2. saves[s] \in Running /\ phase \in {"synced", "groups"}
      BY <1>0, <2>1, <2>3, SaveFacts
    <3>. HIDE DEF left, phase
    <3>3. saves' = [saves EXCEPT ![s] = [saves[s] EXCEPT !.left = left, !.phase = phase]]
      BY <1>0, <2>1, <3>1, <3>2 DEF Types
    <3>4. saves'[s] = [saves[s] EXCEPT !.left = left, !.phase = phase]
          /\ \A t \in Save \ {s} : saves'[t] = saves[t]
      BY <1>0, <2>1, <3>3 DEF Types
    <3>5. SameRow(s)
      BY <2>3, <3>2, <3>4 DEF SameRow, Later, Running
    <3>6. \A t \in Save \ {s} : SameRow(t)
      BY <3>4 DEF SameRow
    <3>7. QED
      BY <1>0, <2>1, <3>1, <3>5, <3>6 DEF Writes
  <2>4. QED
    BY <2>2, <2>3
<1>3. ASSUME NEW s \in Save, ReloadGroups(s)
      PROVE  Facts
  <2>1. /\ saves[s].phase = "synced" /\ UNCHANGED <<ext, rows, dialog>>
        /\ saves' = [saves EXCEPT ![s].phase = "reloading"]
        /\ reqs' = reqs \cup {NewReq("loadGrp", "all", Gone, s)} /\ saves[s] \in Running
    BY <1>0, <1>3, SaveFacts DEF ReloadGroups
  <2>2. saves'[s] = [saves[s] EXCEPT !.phase = "reloading"]
        /\ \A t \in Save \ {s} : saves'[t] = saves[t]
    BY <1>0, <2>1 DEF Types
  <2>3. SameRow(s) /\ \A t \in Save \ {s} : SameRow(t)
    BY <2>1, <2>2 DEF SameRow, Later, Running
  <2>4. QED
    BY <1>0, <2>1, <2>3, NewFacts DEF Writes
<1>4. ASSUME NEW g \in Group, OtherGroup(g)
      PROVE  Facts
  <2>1. saves' = Foreign({g}, "nobody") /\ UNCHANGED <<ext, rows, dialog, reqs>>
    BY <1>4 DEF OtherGroup
  <2>2. {g} \in SUBSET Group
    OBVIOUS
  <2>3. QED
    BY <1>0, <2>1, <2>2, ForeignFacts, SameSaveSameRow
<1>5. ASSUME CloseDialog
      PROVE  Facts
  <2>1. saves' = OffScreen /\ dialog' = Closed /\ UNCHANGED <<ext, rows, reqs>>
    BY <1>5 DEF CloseDialog
  <2>2. QED
    BY <1>0, <2>1, ModeStays, OffScreenFacts, SameSaveSameRow DEF Types
<1>6. ASSUME NEW g \in Group, Pick(g)
      PROVE  Facts
  <2>1. /\ dialog' = [dialog EXCEPT !.sel = IF g \in dialog.sel THEN dialog.sel \ {g}
                                             ELSE dialog.sel \cup {g},
                                    !.touched = dialog.touched \cup {g}]
        /\ dialog.mode \in {"add", "edit"} /\ UNCHANGED <<ext, rows, reqs, saves>>
    BY <1>6 DEF Pick
  <2>2. dialog'.mode # "crashed"
    BY <1>0, <2>1, DialogFacts DEF Types, FormDialogs
  <2>3. QED
    BY <2>1, <2>2 DEF SameRow
<1>7. ASSUME NEW e \in Ext, OpenEdit(e) \/ OpenAdd(e) \/ OpenDelete(e)
      PROVE  Facts
  BY <1>7 DEF OpenEdit, OpenAdd, OpenDelete, SameRow
<1>8. ASSUME UNCHANGED vars
      PROVE  Facts
  BY <1>0, <1>8 DEF vars, SameRow
<1>9. Facts
  BY <1>1, <1>2, <1>3, <1>4, <1>5, <1>6, <1>7, <1>8
<1>. HIDE DEF Facts
<1>10. /\ \A x \in Ext \cap {} : Good(x)'
       /\ \A x \in Ext \ {} : ext'[x] = ext[x] /\ rows'[x] = rows[x]
       /\ \A s \in Save : SameRow(s)
       /\ \A r \in reqs' \ reqs : r.kind # "loadExt" /\ (r.kind \in Writes => r.about \in {})
       /\ \A r \in reqs \ reqs' : r.kind \in Writes => r.about \in {}
       /\ dialog'.mode # "crashed"
  BY <1>9 DEF Facts
<1>11. QED
  BY <1>10, OthersStayGood

\* As long as the list has not been loaded no request writes a row, and none is sent
\* without an excuse; then the list is what is stored.
LEMMA EarlyAgrees ==
  ASSUME IInv, Agree, ~excused, ~excused', Early, Next
  PROVE  Agree'
<1>0. /\ Types /\ LoadIsFirst /\ dialog.mode # "crashed"
      /\ \A r \in reqs : ReqOK(r) /\ Owned(r) /\ r.kind \notin Writes
      /\ \A s \in Save : saves[s].phase = "idle"
      /\ \A e : Overlap(e)
  BY DEF IInv, Requests, Agree, LoadIsFirst, Overlap, Touches, Early
<1>. DEFINE Waits == /\ UNCHANGED ext /\ dialog'.mode # "crashed"
                     /\ \A s \in Save : saves'[s].phase = "idle"
                     /\ \A r \in reqs' : /\ r.kind \notin Writes
                                         /\ r.kind = "loadExt" /\ r.result = "ok" => r.answer = ext
                     /\ Early'
<1>1. ASSUME Waits
      PROVE  Agree'
  BY <1>1 DEF Agree, LoadIsFirst
<1>2. ASSUME NEW r \in reqs, Serve(r)
      PROVE  Waits
  <2>1. PICK broken \in BOOLEAN :
          LET refused == broken \/ Refused(r) IN
          /\ reqs' = (reqs \ {r})
                       \cup {Answered(r, IF refused THEN "refused" ELSE "ok",
                                      IF refused THEN Gone ELSE AnswerOf(r))}
          /\ ext' = IF refused THEN ext ELSE ExtAfter(r)
          /\ saves' = Foreign({g \in Group : grp'[g] # grp[g]}, r.from)
          /\ UNCHANGED dialog
    BY <1>2 DEF Serve, Answered
  <2>2. PICK q : /\ q.kind = r.kind /\ reqs' = (reqs \ {r}) \cup {q}
                 /\ q.result = "ok" => q.answer = AnswerOf(r)
    <3>. DEFINE fails == broken \/ Refused(r)
                new == Answered(r, IF fails THEN "refused" ELSE "ok",
                                IF fails THEN Gone ELSE AnswerOf(r))
    <3>1. /\ new.kind = r.kind /\ new.result = (IF fails THEN "refused" ELSE "ok")
          /\ new.answer = (IF fails THEN Gone ELSE AnswerOf(r))
          /\ reqs' = (reqs \ {r}) \cup {new}
      BY <1>0, <2>1, AnswerFacts DEF ReqOK
    <3>. HIDE DEF fails, new
    <3>2. QED
      BY <3>1
  <2>3. ExtAfter(r) = ext /\ (r.kind = "loadExt" => AnswerOf(r) = ext)
    BY <1>0 DEF ExtAfter, AnswerOf, Writes
  <2>4. \A s \in Save : saves'[s].phase = "idle"
    <3>1. {g \in Group : grp'[g] # grp[g]} \in SUBSET Group
      OBVIOUS
    <3>2. QED
      BY <1>0, <2>1, <3>1, ForeignFacts DEF SameSave
  <2>5. Early'
    BY <2>2 DEF Early
  <2>6. ext' = ext /\ dialog' = dialog
    BY <2>1, <2>3
  <2>7. QED
    BY <1>0, <2>2, <2>3, <2>4, <2>5, <2>6 DEF LoadIsFirst
<1>3. ASSUME NEW r \in reqs, HearExt(r)
      PROVE  Agree'
  <2>1. /\ r.kind = "loadExt" /\ r.phase = "served" /\ ~Failed(r) /\ reqs' = reqs \ {r}
        /\ rows' = r.answer /\ UNCHANGED <<ext, dialog, saves>>
    BY <1>3 DEF HearExt, Failed
  <2>2. rows' = ext
    BY <1>0, <2>1 DEF LoadIsFirst, Failed
  <2>3. \A e \in Ext : Good(e)'
    <3>1. \A e \in Ext : On(e)' = {} /\ Savers(e)' = {}
      BY <1>0, <2>1 DEF On, Savers
    <3>2. QED
      BY <2>1, <2>2, <3>1 DEF Good
  <2>4. LoadIsFirst'
    BY <1>0, <2>1 DEF LoadIsFirst
  <2>5. QED
    BY <1>0, <2>1, <2>3, <2>4 DEF Agree
<1>4. ASSUME NEW r \in reqs, HearGroups(r) \/ HearPut(r)
      PROVE  Waits
  <2>1. reqs' = reqs \ {r} /\ r.kind # "loadExt" /\ UNCHANGED <<ext, dialog, saves>>
    <3>1. CASE HearGroups(r)
      <4>1. \A s \in Save : r.from # s
        BY <1>0, <3>1 DEF HearGroups, Owned
      <4>2. saves' = [s \in Save |-> saves[s]]
        BY <3>1, <4>1 DEF HearGroups
      <4>3. QED
        BY <1>0, <3>1, <4>2 DEF HearGroups, Types
    <3>2. CASE HearPut(r)
      <4>1. r.from \in Save /\ saves[r.from].phase = "idle"
        BY <1>0, <3>2 DEF HearPut, ReqOK
      <4>2. QED
        BY <3>2, <4>1 DEF HearPut
    <3>3. QED
      BY <1>4, <3>1, <3>2
  <2>2. QED
    BY <1>0, <2>1 DEF LoadIsFirst, Early
<1>5. ASSUME NEW g \in Group, OtherGroup(g)
      PROVE  Waits
  <2>1. saves' = Foreign({g}, "nobody") /\ UNCHANGED <<ext, dialog, reqs>>
    BY <1>5 DEF OtherGroup
  <2>2. {g} \in SUBSET Group
    OBVIOUS
  <2>3. QED
    BY <1>0, <2>1, <2>2, ForeignFacts DEF SameSave, LoadIsFirst, Early
<1>6. ASSUME CloseDialog
      PROVE  Waits
  <2>1. saves' = OffScreen /\ dialog' = Closed /\ UNCHANGED <<ext, reqs>>
    BY <1>6 DEF CloseDialog
  <2>2. QED
    BY <1>0, <2>1, ModeStays, OffScreenFacts DEF Types, SameSave, LoadIsFirst, Early
<1>7. ASSUME NEW g \in Group, Pick(g)
      PROVE  Waits
  <2>1. /\ dialog' = [dialog EXCEPT !.sel = IF g \in dialog.sel THEN dialog.sel \ {g}
                                             ELSE dialog.sel \cup {g},
                                    !.touched = dialog.touched \cup {g}]
        /\ dialog.mode \in {"add", "edit"} /\ UNCHANGED <<ext, reqs, saves>>
    BY <1>7 DEF Pick
  <2>2. dialog'.mode # "crashed"
    BY <1>0, <2>1, DialogFacts DEF Types, FormDialogs
  <2>3. QED
    BY <1>0, <2>1, <2>2 DEF LoadIsFirst, Early
<1>8. ASSUME NEW e \in Ext, OpenEdit(e) \/ OpenAdd(e) \/ OpenDelete(e)
      PROVE  Waits
  <2>1. UNCHANGED <<ext, reqs, saves>> /\ dialog'.mode # "crashed"
    BY <1>8 DEF OpenEdit, OpenAdd, OpenDelete
  <2>2. QED
    BY <1>0, <2>1 DEF LoadIsFirst, Early
<1>9. /\ \A r \in reqs : ~Lose(r) /\ ~HearToggle(r) /\ ~HearRow(r) /\ ~HearDelete(r)
      /\ \A e \in Ext : ~Toggle(e) /\ ~OtherDoor(e)
      /\ \A s \in Save : ~Submit(s) /\ ~ReloadGroups(s) /\ ~FinishSave(s)
      /\ ~ConfirmDelete
  <2>1. \A r \in reqs : ~Lose(r) /\ ~HearToggle(r) /\ ~HearRow(r) /\ ~HearDelete(r)
    BY <1>0 DEF Lose, HearToggle, HearRow, HearDelete, Writes
  <2>2. \A e \in Ext : ~Toggle(e) /\ ~OtherDoor(e)
    BY <1>0 DEF Toggle, OtherDoor
  <2>3. \A s \in Save : ~Submit(s)
    BY <1>0 DEF Submit
  <2>4. \A s \in Save : ~ReloadGroups(s) /\ ~FinishSave(s)
    BY <1>0 DEF ReloadGroups, FinishSave
  <2>5. ~ConfirmDelete
    BY <1>0 DEF ConfirmDelete
  <2>6. QED
    BY <2>1, <2>2, <2>3, <2>4, <2>5
<1>. HIDE DEF Waits
<1>10. QED
  BY <1>1, <1>2, <1>3, <1>4, <1>5, <1>6, <1>7, <1>8, <1>9 DEF Next

LEMMA ExcuseStays == ASSUME Next, excused, excused \in BOOLEAN PROVE excused'
<1>1. \A r : Serve(r) \/ Lose(r) \/ HearExt(r) \/ HearToggle(r) => excused'
  BY DEF Serve, Lose, HearExt, HearToggle
<1>2. \A r : HearGroups(r) \/ HearRow(r) \/ HearPut(r) \/ HearDelete(r) => excused'
  BY DEF HearGroups, HearRow, HearPut, HearDelete
<1>3. \A e : Toggle(e) \/ OpenEdit(e) \/ OpenAdd(e) \/ OpenDelete(e) \/ OtherDoor(e) => excused'
  BY DEF Toggle, OpenEdit, OpenAdd, OpenDelete, OtherDoor
<1>4. \A g : Pick(g) \/ OtherGroup(g) => excused'
  BY DEF Pick, OtherGroup
<1>5. \A s : Submit(s) \/ ReloadGroups(s) \/ FinishSave(s) => excused'
  BY DEF Submit, ReloadGroups, FinishSave
<1>6. CloseDialog \/ ConfirmDelete => excused'
  BY DEF CloseDialog, ConfirmDelete
<1>7. QED
  BY <1>1, <1>2, <1>3, <1>4, <1>5, <1>6 DEF Next

LEMMA AgreeKeeps ==
  ASSUME IInv, Agree, [Next]_vars
  PROVE  Agree'
<1>1. CASE excused'
  BY <1>1 DEF Agree
<1>2. CASE ~excused' /\ Next
  <2>1. ~excused
    BY <1>2, ExcuseStays DEF IInv, Types
  <2>2. CASE Early
    BY <1>2, <2>1, <2>2, EarlyAgrees
  <2>3. CASE ~Early
    <3>1. \A r \in reqs : ~Lose(r) /\ ~HearExt(r)
      BY <1>2, <2>3 DEF Lose, HearExt, Early
    <3>2. \A e \in Ext : ~OtherDoor(e)
      BY <1>2 DEF OtherDoor
    <3>3. CASE \E r \in reqs : Serve(r) \/ HearToggle(r) \/ HearDelete(r) \/ HearRow(r)
      BY <2>1, <2>3, <3>3, ServeAgrees, RowsAgree, RowAgrees
    <3>4. CASE \/ \E e \in Ext : Toggle(e)
               \/ \E s \in Save : Submit(s)
               \/ ConfirmDelete
      BY <1>2, <2>1, <3>4, ClicksAgree
    <3>5. CASE \E s \in Save : FinishSave(s)
      BY <2>1, <2>3, <3>5, FinishAgrees
    <3>6. CASE \/ \E r \in reqs : HearGroups(r) \/ HearPut(r)
               \/ \E s \in Save : ReloadGroups(s)
               \/ \E g \in Group : Pick(g) \/ OtherGroup(g)
               \/ \E e \in Ext : OpenEdit(e) \/ OpenAdd(e) \/ OpenDelete(e)
               \/ CloseDialog
      BY <1>2, <2>1, <2>3, <3>6, RestAgrees
    <3>7. QED
      BY <1>2, <3>1, <3>2, <3>3, <3>4, <3>5, <3>6, Zenon DEF Next
  <2>4. QED
    BY <2>2, <2>3
<1>3. CASE UNCHANGED vars
  BY <1>3 DEF vars, Agree, Early, LoadIsFirst, Good, On, Savers, OnItsWay, RowHeld
<1>4. QED
  BY <1>1, <1>2, <1>3

\* Once the page is quiet its list is what the backend has stored, unless one of the
\* named exceptions has come up: whatever the order of its switches, saves and deletes,
\* and whichever of them are refused.
THEOREM ListStays == Spec => []ListIsStored
<1>1. Init => Agree
  <2>1. ASSUME Init
        PROVE  /\ Early /\ dialog.mode # "crashed"
               /\ \A r \in reqs : r.kind \notin Writes /\ r.result # "ok"
               /\ \A s \in Save : saves[s].phase = "idle"
    BY <2>1 DEF Init, Early, NewReq, Writes, Closed, IdleSave
  <2>2. QED
    BY <2>1 DEF Agree, LoadIsFirst
<1>2. IInv /\ Agree /\ [Next]_vars => Agree'
  BY AgreeKeeps
<1>3. IInv /\ Agree => ListIsStored
  <2>. SUFFICES ASSUME IInv, Agree, Quiet, ~excused
                PROVE  rows = ext
    BY DEF ListIsStored
  <2>1. ASSUME NEW e \in Ext
        PROVE  rows[e] = ext[e]
    <3>1. Good(e) /\ On(e) = {} /\ Savers(e) = {}
      BY DEF Agree, Quiet, Early, On, Savers
    <3>2. QED
      BY <3>1 DEF Good
  <2>2. rows \in [Ext -> Shown] /\ ext \in [Ext -> Shown]
    BY DEF IInv, Types
  <2>3. QED
    BY <2>1, <2>2
<1>4. QED
  BY <1>1, <1>2, <1>3, Inductive, PTL DEF Spec
=============================================================================
