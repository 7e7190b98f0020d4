--------------------------- MODULE ListCopyProofs ---------------------------
(***************************************************************************)
(* For any page, tables and bounds: a page with nothing under way shows    *)
(* the table as it is stored, unless it is excused.                        *)
(*                                                                         *)
(* The argument goes row by row: while two writes touch different rows     *)
(* (Apart), a row where copy and table differ belongs to a write that has  *)
(* been served and not yet been heard (Kept).                              *)
(***************************************************************************)
EXTENDS ListPagesProofs

-----------------------------------------------------------------------------
(* The invariant.                                                          *)

\* The page puts a save's answer into its copy; the others load again.
Answers == This.after = "answer"

\* The copy shows the table, or is to agree with it soon.
Calm == view = "shown" /\ ~excused

\* A load that has not been overtaken answers with the table.
LoadsClean(R, t) ==
  \A r \in R : r.kind = "load" /\ r.clean /\ r.result = "ok" => r.answer = t

\* A request has no result before it is served, and those about a row name one.
Sane(q) ==
  /\ q.phase = "sent" => q.result = "none"
  /\ q.kind \in {"patch", "delete", "select"} => q.id \in Id
  /\ q.kind = "create" /\ q.result \notin {"ok", "lost"} => q.id = New
  /\ q.kind = "delete" /\ q.result = "ok" => q.answer[q.id] = Gone

\* Before its first load is heard the page may differ from the table; after a crash
\* nothing is heard and nothing can be deleted.
Views ==
  /\ view = "loading" => excused
  /\ view = "crashed" => ~del.open /\ \A q \in reqs : q.deaf

\* No write is lost or unheard, and none uploads.
InHand(R) ==
  \A q \in R : Writes(q) => ~q.deaf /\ q.result # "lost" /\ q.kind \notin {"greeting", "ungreet"}

\* A save or an import has been done and its load is still to come.
Reloads(q) == q.kind = "import" \/ (q.kind \in {"create", "patch"} /\ ~Answers)
Behind(R) == \E q \in R : q.result = "ok" /\ Reloads(q)

\* Two writes that do not touch one row, whichever is served first.
Apart(p, q) ==
  /\ p.id # New => p.id # q.id
  /\ ~(p.kind = "create" /\ q.kind = "delete") /\ ~(p.kind = "delete" /\ q.kind = "create")
  /\ p.kind # "select" /\ q.kind # "select"

\* What a write under way says of its row in the copy l and in the table t.
OnItsWay(r, l, t) ==
  /\ r.kind = "create" /\ r.result # "ok" => r.id = New
  /\ r.kind \in {"create", "patch"} /\ r.result = "ok" =>
       r.id \in Id /\ r.answer[r.id] = t[r.id] /\ t[r.id] # Gone
  /\ r.kind = "patch" /\ Answers => l[r.id] # Gone /\ t[r.id] # Gone
  /\ r.kind = "delete" /\ r.result = "ok" => t[r.id] = Gone
  /\ r.kind = "select" =>
       IF r.result = "ok" THEN l = t
       ELSE r.shown = t /\ l = [t EXCEPT ![r.id].cid = r.body.cid]

\* A row where copy and table differ has a request that will make them agree.
Brings(r, i) ==
  r.kind = "select" \/ (r.kind \in {"create", "patch", "delete"} /\ r.result = "ok" /\ r.id = i)
Kept(i, R, l, t) == l[i] = t[i] \/ \E r \in R : Brings(r, i)

InStep(R, l, t) ==
  /\ \A p, q \in R : Writes(p) /\ Writes(q) /\ p # q => Apart(p, q)
  /\ \A r \in R : Writes(r) => OnItsWay(r, l, t)
  /\ \A i \in Id : Kept(i, R, l, t)
Settles(R, l, t) == ~Behind(R) => InStep(R, l, t)

\* The pages that put answers in have one dialog at a time, none beside a load, and one
\* delete; what they put in is a row, and a form edits a row that is listed.
FormEdits(form) == form.open => form.id \in Id /\ list[form.id] # Gone /\ view = "shown"
DialogRequest(q) ==
  /\ q.kind \notin {"select", "import"}
  /\ q.kind = "delete" /\ ~q.deaf => del.open /\ del.busy
  /\ q.kind = "create" => q.form = "add"
  /\ q.kind = "load" /\ ~q.deaf => view = "loading"
  /\ q.kind \in {"create", "patch"} /\ q.result = "ok" => q.id \in Id /\ q.answer[q.id] # Gone
  /\ q.kind = "greeting" => q.shown[q.id] # Gone
OneAsks(R) ==
  \A p, q \in R : p.kind = q.kind /\ p.kind \in {"load", "delete"} /\ ~p.deaf /\ ~q.deaf => p = q
Dialogs ==
  /\ del.open => \A f \in Slot : ~forms[f].open
  /\ FormEdits(forms["edit"]) /\ forms["add"].id = New
  /\ \A q \in reqs : DialogRequest(q)
  /\ OneAsks(reqs)

\* Calm pages settle; the rest is what keeps them so.
Steady ==
  /\ LoadsClean(reqs, db)
  /\ \A q \in reqs : Sane(q)
  /\ Views
  /\ Calm => InHand(reqs) /\ Settles(reqs, list, db)
  /\ Answers => Dialogs

-----------------------------------------------------------------------------
(* Sets of requests.                                                       *)

\* p is request q, if not as clean or on a page that has gone.
Alike(p, q) ==
  /\ p.kind = q.kind /\ p.id = q.id /\ p.form = q.form /\ p.body = q.body
  /\ p.phase = q.phase /\ p.result = q.result /\ p.answer = q.answer /\ p.shown = q.shown
  /\ (p.clean => q.clean) /\ (q.deaf => p.deaf)

\* S is what g makes of the requests in R.
Image(S, R, g) ==
  /\ S = {g[q] : q \in R}
  /\ \A q \in R : Alike(g[q], q)
SameEars(R, g) == \A q \in R : g[q].deaf = q.deaf

LEMMA OrphansAlike ==
  ASSUME NEW R \in SUBSET ReqState, NEW f
  PROVE  \E g : Image(Orphaned(R, f), R, g) /\ SameEars(R, g)
<1>. DEFINE g == [q \in R |-> IF q.form = f THEN [q EXCEPT !.mine = Inline] ELSE q]
<1>1. Orphaned(R, f) = {g[q] : q \in R}
  BY DEF Orphaned
<1>2. ASSUME NEW q \in R PROVE Alike(g[q], q) /\ g[q].deaf = q.deaf
  <2>1. q \in ReqState
    OBVIOUS
  <2>2. QED
    BY <2>1 DEF ReqState, Alike
<1>3. QED
  BY <1>1, <1>2 DEF Image, SameEars

LEMMA OvertakenAlike ==
  ASSUME NEW R \in SUBSET ReqState
  PROVE  \E g : Image(Overtaken(R), R, g) /\ SameEars(R, g)
<1>. DEFINE g == [q \in R |-> IF Writes(q) \/ q.phase = "sent" THEN q ELSE [q EXCEPT !.clean = FALSE]]
<1>1. Overtaken(R) = {g[q] : q \in R}
  BY DEF Overtaken
<1>2. ASSUME NEW q \in R PROVE Alike(g[q], q) /\ g[q].deaf = q.deaf
  <2>1. q \in ReqState
    OBVIOUS
  <2>2. QED
    BY <2>1 DEF ReqState, Alike
<1>3. QED
  BY <1>1, <1>2 DEF Image, SameEars

LEMMA SelfAlike == ASSUME NEW R PROVE \E g : Image(R, R, g) /\ SameEars(R, g)
<1>. DEFINE g == [q \in R |-> q]
<1>1. R = {g[q] : q \in R}
  OBVIOUS
<1>2. QED
  BY <1>1 DEF Image, SameEars, Alike

\* The loads among the requests that have been overtaken are not clean, or not served yet.
LEMMA OvertakenClean ==
  ASSUME NEW R \in SUBSET ReqState, \A q \in R : Sane(q), NEW t
  PROVE  LoadsClean(Overtaken(R), t)
<1>1. ASSUME NEW p \in Overtaken(R), p.kind = "load", p.clean, p.result = "ok" PROVE FALSE
  <2>1. PICK q \in R : p = IF Writes(q) \/ q.phase = "sent" THEN q ELSE [q EXCEPT !.clean = FALSE]
    BY DEF Overtaken
  <2>2. q \in ReqState /\ Sane(q)
    OBVIOUS
  <2>3. ~[q EXCEPT !.clean = FALSE].clean
    BY <2>2 DEF ReqState
  <2>4. p = q /\ q.phase = "sent"
    BY <1>1, <2>1, <2>3 DEF Writes
  <2>5. QED
    BY <1>1, <2>2, <2>4 DEF Sane
<1>2. QED
  BY <1>1 DEF LoadsClean

LEMMA BesideAlike ==
  ASSUME TypeOK, NEW r
  PROVE  \E g : Image(Beside(r), reqs \ {r}, g) /\ SameEars(reqs \ {r}, g)
<1>1. reqs \ {r} \in SUBSET ReqState
  BY DEF TypeOK
<1>2. QED
  BY <1>1, OvertakenAlike, SelfAlike DEF Beside

LEMMA DeafAlike ==
  ASSUME NEW R \in SUBSET ReqState
  PROVE  \E g : Image({[q EXCEPT !.deaf = TRUE] : q \in R}, R, g)
<1>. DEFINE g == [q \in R |-> [q EXCEPT !.deaf = TRUE]]
<1>1. {[q EXCEPT !.deaf = TRUE] : q \in R} = {g[q] : q \in R}
  OBVIOUS
<1>2. ASSUME NEW q \in R PROVE Alike(g[q], q)
  <2>1. q \in ReqState
    OBVIOUS
  <2>2. QED
    BY <2>1 DEF ReqState, Alike
<1>3. QED
  BY <1>1, <1>2 DEF Image

LEMMA AllDeaf ==
  ASSUME NEW R \in SUBSET ReqState
  PROVE  \A q \in {[q EXCEPT !.deaf = TRUE] : q \in R} : q.deaf
BY DEF ReqState

-----------------------------------------------------------------------------
(* What holds of a set of requests holds of its image and of its parts.    *)

LEMMA ImageClean ==
  ASSUME NEW S, NEW R, NEW g, Image(S, R, g), NEW t, LoadsClean(R, t)
  PROVE  LoadsClean(S, t)
BY DEF Image, Alike, LoadsClean, Writes

LEMMA PartClean ==
  ASSUME NEW R, NEW S \in SUBSET R, NEW t, LoadsClean(R, t)
  PROVE  LoadsClean(S, t)
BY DEF LoadsClean

LEMMA ImageSane ==
  ASSUME NEW S, NEW R, NEW g, Image(S, R, g), \A q \in R : Sane(q)
  PROVE  \A q \in S : Sane(q)
BY DEF Image, Alike, Sane

LEMMA ImageInHand ==
  ASSUME NEW S, NEW R, NEW g, Image(S, R, g), SameEars(R, g), InHand(R)
  PROVE  InHand(S)
BY DEF Image, Alike, SameEars, InHand, Writes

LEMMA ImageOneAsks ==
  ASSUME NEW S, NEW R, NEW g, Image(S, R, g), OneAsks(R)
  PROVE  OneAsks(S)
BY DEF Image, Alike, OneAsks

LEMMA ImageDialog ==
  ASSUME NEW S, NEW R, NEW g, Image(S, R, g), \A q \in R : DialogRequest(q)
  PROVE  \A q \in S : DialogRequest(q)
BY DEF Image, Alike, DialogRequest

LEMMA ImageSettles ==
  ASSUME NEW S, NEW R, NEW g, Image(S, R, g), NEW l, NEW t, Settles(R, l, t)
  PROVE  Settles(S, l, t)
<1>1. \A q \in R : g[q] \in S /\ Alike(g[q], q)
  BY DEF Image
<1>2. Behind(R) => Behind(S)
  BY <1>1 DEF Behind, Reloads, Alike
<1>3. SUFFICES ASSUME InStep(R, l, t) PROVE InStep(S, l, t)
  BY <1>2 DEF Settles
<1>4. \A p \in S : \E q \in R : p = g[q] /\ Alike(g[q], q)
  BY DEF Image
<1>5. ASSUME NEW p \in S, NEW q \in S, Writes(p), Writes(q), p # q PROVE Apart(p, q)
  <2>1. PICK p0 \in R : p = g[p0] /\ Alike(p, p0)
    BY <1>4
  <2>2. PICK q0 \in R : q = g[q0] /\ Alike(q, q0)
    BY <1>4
  <2>3. p0 # q0 /\ Writes(p0) /\ Writes(q0)
    BY <1>5, <2>1, <2>2 DEF Writes, Alike
  <2>4. Apart(p0, q0)
    BY <1>3, <2>3 DEF InStep
  <2>5. QED
    BY <2>1, <2>2, <2>4 DEF Apart, Alike
<1>6. ASSUME NEW p \in S, Writes(p) PROVE OnItsWay(p, l, t)
  <2>1. PICK q \in R : p = g[q] /\ Alike(p, q)
    BY <1>4
  <2>2. OnItsWay(q, l, t)
    BY <1>3, <1>6, <2>1 DEF InStep, Writes, Alike
  <2>3. QED
    BY <2>1, <2>2 DEF OnItsWay, Alike
<1>7. ASSUME NEW i \in Id PROVE Kept(i, S, l, t)
  <2>1. Kept(i, R, l, t)
    BY <1>3 DEF InStep
  <2>2. ASSUME NEW q \in R, Brings(q, i) PROVE Brings(g[q], i) /\ g[q] \in S
    BY <1>1, <2>2 DEF Brings, Alike
  <2>3. QED
    BY <2>1, <2>2 DEF Kept
<1>8. QED
  BY <1>5, <1>6, <1>7 DEF InStep

\* A request that brings nothing can go.
LEMMA DropSettles ==
  ASSUME NEW R, NEW r \in R, NEW l, NEW t, Settles(R, l, t),
         ~Writes(r) \/ (r.result # "ok" /\ r.kind # "select")
  PROVE  Settles(R \ {r}, l, t)
<1>. DEFINE S == R \ {r}
<1>1. ~Reloads(r) \/ r.result # "ok"
  BY DEF Reloads, Writes
<1>2. Behind(R) => Behind(S)
  BY <1>1 DEF Behind
<1>3. \A i : ~Brings(r, i)
  BY DEF Brings, Writes
<1>4. \A i : Kept(i, R, l, t) => Kept(i, S, l, t)
  BY <1>3 DEF Kept
<1>5. InStep(R, l, t) => InStep(S, l, t)
  BY <1>4 DEF InStep
<1>6. QED
  BY <1>2, <1>5 DEF Settles

LEMMA AddLoadSettles ==
  ASSUME NEW R, NEW r, NEW l, NEW t, Settles(R, l, t), ~Writes(r)
  PROVE  Settles(R \cup {r}, l, t)
<1>. DEFINE S == R \cup {r}
<1>1. Behind(R) => Behind(S)
  BY DEF Behind
<1>2. \A i : Kept(i, R, l, t) => Kept(i, S, l, t)
  BY DEF Kept
<1>3. InStep(R, l, t) => InStep(S, l, t)
  BY <1>2 DEF InStep
<1>4. QED
  BY <1>1, <1>3 DEF Settles

-----------------------------------------------------------------------------
(* Copy l and table t with a write more, a write served, a write heard.    *)

\* A write that touches no other one's row is sent.
LEMMA AddSettles ==
  ASSUME NEW R, NEW r, NEW l, NEW t, Settles(R, l, t),
         r.result = "none", r.kind \in {"create", "patch", "delete", "import"},
         r.kind = "create" => r.id = New,
         r.kind = "patch" /\ Answers => r.id \in Id /\ l[r.id] # Gone,
         \A q \in R : Writes(q) => Apart(q, r) /\ Apart(r, q)
  PROVE  Settles(R \cup {r}, l, t)
<1>. DEFINE S == R \cup {r}
<1>1. Behind(R) => Behind(S)
  BY DEF Behind
<1>2. SUFFICES ASSUME InStep(R, l, t) PROVE InStep(S, l, t)
  BY <1>1 DEF Settles
<1>3. \A i : Kept(i, R, l, t) => Kept(i, S, l, t)
  BY DEF Kept
<1>4. ASSUME r.kind = "patch", Answers PROVE t[r.id] # Gone
  <2>1. r.id \in Id /\ r.id # New /\ l[r.id] # Gone
    BY <1>4 DEF Id, New
  <2>2. CASE l[r.id] = t[r.id]
    BY <2>1, <2>2
  <2>3. CASE l[r.id] # t[r.id]
    <3>1. Kept(r.id, R, l, t)
      BY <1>2, <2>1 DEF InStep
    <3>2. PICK q \in R : Brings(q, r.id)
      BY <3>1, <2>3 DEF Kept
    <3>3. Writes(q)
      BY <3>2 DEF Brings, Writes
    <3>4. QED
      BY <3>2, <3>3, <2>1 DEF Apart, Brings
  <2>4. QED
    BY <2>2, <2>3
<1>5. OnItsWay(r, l, t)
  BY <1>4 DEF OnItsWay
<1>6. QED
  BY <1>2, <1>3, <1>5 DEF InStep

\* A select shows its choice before it is sent.
LEMMA SelectSettles ==
  ASSUME NEW R, NEW r, NEW l \in Table, NEW m, NEW t \in Table, Settles(R, l, t),
         \A q \in R : ~Writes(q),
         r.kind = "select", r.result = "none", r.shown = l, r.id \in Id,
         m = [l EXCEPT ![r.id].cid = r.body.cid]
  PROVE  Settles(R \cup {r}, m, t)
<1>. DEFINE S == R \cup {r}
<1>1. ~Behind(R)
  BY DEF Behind, Reloads, Writes
<1>2. \A i \in Id : l[i] = t[i]
  <2>1. \A i \in Id : Kept(i, R, l, t)
    BY <1>1 DEF Settles, InStep
  <2>2. QED
    BY <2>1 DEF Kept, Brings, Writes
<1>3. l = t
  BY <1>2 DEF Table
<1>4. OnItsWay(r, m, t)
  BY <1>3 DEF OnItsWay
<1>5. \A i : Kept(i, S, m, t)
  BY DEF Kept, Brings
<1>6. InStep(S, m, t)
  BY <1>4, <1>5 DEF InStep
<1>7. QED
  BY <1>6 DEF Settles

\* A request is refused.
LEMMA RefusedSettles ==
  ASSUME NEW R, NEW r \in R, NEW p, NEW l, NEW t, Settles(R, l, t),
         p.kind = r.kind, p.id = r.id, p.result = "refused", p.shown = r.shown, p.body = r.body,
         r.result = "none"
  PROVE  Settles((R \ {r}) \cup {p}, l, t)
<1>. DEFINE S == (R \ {r}) \cup {p}
<1>1. Behind(R) => Behind(S)
  BY DEF Behind
<1>2. SUFFICES ASSUME InStep(R, l, t) PROVE InStep(S, l, t)
  BY <1>1 DEF Settles
<1>3. ASSUME NEW i \in Id PROVE Kept(i, S, l, t)
  <2>1. Kept(i, R, l, t)
    BY <1>2 DEF InStep
  <2>2. Brings(r, i) => Brings(p, i)
    BY DEF Brings
  <2>3. QED
    BY <2>1, <2>2 DEF Kept
<1>4. Writes(p) <=> Writes(r)
  BY DEF Writes
<1>5. Writes(r) => OnItsWay(p, l, t)
  BY <1>2 DEF InStep, OnItsWay
<1>6. ASSUME NEW x \in S, NEW y \in S, Writes(x), Writes(y), x # y PROVE Apart(x, y)
  <2>1. \A z \in R \ {r} : Writes(z) /\ Writes(r) => Apart(z, r) /\ Apart(r, z)
    BY <1>2 DEF InStep
  <2>2. \A z \in R \ {r} : Writes(z) /\ Writes(r) => Apart(z, p) /\ Apart(p, z)
    BY <2>1 DEF Apart
  <2>3. QED
    BY <1>2, <1>4, <1>6, <2>2 DEF InStep
<1>7. QED
  BY <1>2, <1>3, <1>4, <1>5, <1>6 DEF InStep

\* Request r is served with answer p, and table t becomes u; only the row of p changes.
LEMMA ServedSettles ==
  ASSUME NEW R \in SUBSET ReqState, NEW r \in R, NEW p, NEW l \in Table, NEW t \in Table,
         NEW u \in Table, Settles(R, l, t),
         r.kind \in {"create", "patch", "delete"}, r.result = "none",
         p.kind = r.kind, p.result = "ok", p.id \in Id,
         \A i \in Id \ {p.id} : u[i] = t[i],
         r.kind # "create" => p.id = r.id,
         r.kind = "create" /\ Answers => t[p.id] = Gone,
         r.kind = "delete" => u[p.id] = Gone,
         r.kind # "delete" => u[p.id] # Gone /\ p.answer[p.id] = u[p.id],
         \A q \in R : Sane(q),
         Answers => \A q \in R : q.kind \notin {"import", "greeting", "ungreet"}
  PROVE  Settles((R \ {r}) \cup {p}, l, u)
<1>. DEFINE S == (R \ {r}) \cup {p}
<1>1. CASE r.kind # "delete" /\ ~Answers
  <2>1. Behind(S)
    BY <1>1 DEF Behind, Reloads
  <2>2. QED
    BY <2>1 DEF Settles
<1>2. CASE r.kind = "delete" \/ Answers
  <2>1. Behind(R) => Behind(S)
    BY DEF Behind
  <2>2. SUFFICES ASSUME InStep(R, l, t), ~Behind(R) PROVE InStep(S, l, u)
    BY <2>1 DEF Settles
  <2>3. Writes(r) /\ Writes(p)
    BY DEF Writes
  <2>4. p.id # New
    BY DEF Id, New
  <2>5. ASSUME NEW q \in R \ {r}, Writes(q) PROVE q.id # p.id /\ Apart(p, q) /\ Apart(q, p)
    <3>1. Apart(r, q) /\ Apart(q, r)
      BY <2>2, <2>3, <2>5 DEF InStep
    <3>2. OnItsWay(q, l, t)
      BY <2>2, <2>5 DEF InStep
    <3>3. CASE r.kind # "create"
      BY <2>4, <3>1, <3>3 DEF Apart
    <3>4. CASE r.kind = "create"
      <4>1. Answers /\ t[p.id] = Gone
        BY <1>2, <3>4
      <4>2. q.kind # "delete" /\ q.kind # "select"
        BY <3>1, <3>4 DEF Apart
      <4>3. q.kind \in {"create", "patch"} => q.id # p.id
        BY <2>4, <3>2, <4>1 DEF OnItsWay
      <4>4. q.kind \in {"create", "patch"}
        BY <2>5, <4>1, <4>2 DEF ReqState, Writes
      <4>5. QED
        BY <2>4, <3>1, <4>3, <4>4 DEF Apart
    <3>5. QED
      BY <3>3, <3>4
  <2>6. ASSUME NEW q \in R \ {r}, Writes(q) PROVE OnItsWay(q, l, u)
    <3>1. OnItsWay(q, l, t) /\ q.kind # "select"
      BY <2>2, <2>3, <2>6 DEF InStep, Apart
    <3>2. Sane(q) /\ q.id # p.id
      BY <2>5, <2>6
    <3>3. q.id \in Id => u[q.id] = t[q.id]
      BY <3>2
    <3>4. QED
      BY <3>1, <3>2, <3>3 DEF OnItsWay, Sane
  <2>7. OnItsWay(p, l, u)
    <3>1. OnItsWay(r, l, t)
      BY <2>2, <2>3 DEF InStep
    <3>2. QED
      BY <3>1 DEF OnItsWay
  <2>8. ASSUME NEW i \in Id PROVE Kept(i, S, l, u)
    <3>1. CASE i = p.id
      BY <3>1 DEF Kept, Brings
    <3>2. CASE i # p.id
      <4>1. Kept(i, R, l, t) /\ u[i] = t[i]
        BY <2>2, <3>2 DEF InStep
      <4>2. ~Brings(r, i)
        BY DEF Brings
      <4>3. QED
        BY <4>1, <4>2 DEF Kept
    <3>3. QED
      BY <3>1, <3>2
  <2>9. QED
    BY <2>2, <2>5, <2>6, <2>7, <2>8 DEF InStep
<1>3. QED
  BY <1>1, <1>2

\* A select is served: the table gets what the copy shows already.
LEMMA SelectServedSettles ==
  ASSUME NEW R, NEW r \in R, NEW p, NEW l, NEW t, NEW u, Settles(R, l, t),
         r.kind = "select", r.result = "none", p.kind = "select", p.result = "ok",
         u = [t EXCEPT ![r.id].cid = r.body.cid]
  PROVE  Settles((R \ {r}) \cup {p}, l, u)
<1>. DEFINE S == (R \ {r}) \cup {p}
<1>1. Behind(R) => Behind(S)
  BY DEF Behind
<1>2. SUFFICES ASSUME InStep(R, l, t) PROVE InStep(S, l, u)
  BY <1>1 DEF Settles
<1>3. Writes(r)
  BY DEF Writes
<1>4. \A q \in R \ {r} : ~Writes(q)
  BY <1>2, <1>3 DEF InStep, Apart
<1>5. l = u
  BY <1>2, <1>3 DEF InStep, OnItsWay
<1>6. OnItsWay(p, l, u)
  BY <1>5 DEF OnItsWay
<1>7. QED
  BY <1>4, <1>5, <1>6 DEF InStep, Kept

\* ... and heard: the choice stays, or is put back.
LEMMA SelectHeardSettles ==
  ASSUME NEW R, NEW r \in R, NEW l, NEW t, NEW m, Settles(R, l, t),
         r.kind = "select", m = IF r.result = "ok" THEN l ELSE r.shown
  PROVE  Settles(R \ {r}, m, t)
<1>. DEFINE S == R \ {r}
<1>1. Behind(R) => Behind(S)
  BY DEF Behind, Reloads
<1>2. SUFFICES ASSUME InStep(R, l, t) PROVE InStep(S, m, t)
  BY <1>1 DEF Settles
<1>3. Writes(r)
  BY DEF Writes
<1>4. \A q \in S : ~Writes(q)
  BY <1>2, <1>3 DEF InStep, Apart
<1>5. m = t
  BY <1>2, <1>3 DEF InStep, OnItsWay
<1>6. QED
  BY <1>4, <1>5 DEF InStep, Kept

\* An answer is heard, and the copy l becomes m: only the row of r changes, and becomes
\* the table's.
LEMMA HeardSettles ==
  ASSUME NEW R, NEW r \in R, NEW l \in Table, NEW t, NEW m, Settles(R, l, t),
         r.kind = "delete" \/ (r.kind \in {"create", "patch"} /\ Answers),
         r.result = "ok", r.id \in Id,
         m = [l EXCEPT ![r.id] = IF r.kind = "delete" THEN Gone ELSE r.answer[r.id]],
         \A q \in R : Sane(q)
  PROVE  Settles(R \ {r}, m, t)
<1>. DEFINE S == R \ {r}
<1>1. Behind(R) => Behind(S)
  BY DEF Behind, Reloads
<1>2. SUFFICES ASSUME InStep(R, l, t) PROVE InStep(S, m, t)
  BY <1>1 DEF Settles
<1>3. Writes(r)
  BY DEF Writes
<1>4. \A q \in S : Writes(q) => q.id # r.id /\ q.kind # "select"
  <2>1. r.id # New
    BY DEF Id, New
  <2>2. QED
    BY <1>2, <1>3, <2>1 DEF InStep, Apart
<1>5. m[r.id] = t[r.id]
  <2>1. OnItsWay(r, l, t)
    BY <1>2, <1>3 DEF InStep
  <2>2. m[r.id] = IF r.kind = "delete" THEN Gone ELSE r.answer[r.id]
    BY DEF Table
  <2>3. QED
    BY <2>1, <2>2 DEF OnItsWay
<1>6. \A i \in Id \ {r.id} : m[i] = l[i]
  BY DEF Table
<1>7. ASSUME NEW q \in S, Writes(q) PROVE OnItsWay(q, m, t)
  <2>1. OnItsWay(q, l, t) /\ Sane(q) /\ q.id # r.id /\ q.kind # "select"
    BY <1>2, <1>4, <1>7 DEF InStep
  <2>2. QED
    BY <1>6, <2>1 DEF OnItsWay, Sane
<1>8. ASSUME NEW i \in Id PROVE Kept(i, S, m, t)
  <2>1. CASE i = r.id
    BY <1>5, <2>1 DEF Kept
  <2>2. CASE i # r.id
    <3>1. Kept(i, R, l, t) /\ m[i] = l[i]
      BY <1>2, <1>6, <2>2 DEF InStep
    <3>2. ~Brings(r, i)
      BY <2>2 DEF Brings
    <3>3. QED
      BY <3>1, <3>2 DEF Kept
  <2>3. QED
    BY <2>1, <2>2
<1>9. QED
  BY <1>2, <1>7, <1>8 DEF InStep

\* Two writes that do not clash are apart.
LEMMA NoClashApart ==
  ASSUME NEW q, NEW r, Writes(q), ~Clashing(q, r)
  PROVE  /\ r.kind # "select" /\ Apart(q, r) /\ Apart(r, q)
<1>1. /\ q.id = r.id => r.id = New
      /\ {q.kind, r.kind} # {"create", "delete"}
      /\ "select" \notin {q.kind, r.kind}
  BY DEF Clashing
<1>2. \A a, b : {a, b} # {"create", "delete"} =>
                  ~(a = "create" /\ b = "delete") /\ ~(a = "delete" /\ b = "create")
  OBVIOUS
<1>3. QED
  BY <1>1, <1>2 DEF Apart

\* A copy that is the table settles with writes that keep out of each other's way.
LEMMA OrderlySettles ==
  ASSUME NEW R \in SUBSET reqs, Orderly(R), \A q \in R : Sane(q), Answers => Dialogs
  PROVE  InHand(R) /\ Settles(R, db, db)
<1>1. InHand(R)
  BY DEF InHand, Orderly
<1>2. SUFFICES ASSUME ~Behind(R) PROVE InStep(R, db, db)
  BY <1>1 DEF Settles
<1>3. ASSUME NEW p \in R, NEW q \in R, Writes(p), Writes(q), p # q PROVE Apart(p, q)
  <2>1. ~Clashing(p, q)
    BY <1>3 DEF Orderly
  <2>2. QED
    BY <1>3, <2>1, NoClashApart
<1>4. ASSUME NEW q \in R, Writes(q) PROVE OnItsWay(q, db, db)
  <2>1. Sane(q) /\ q.result # "lost"
    BY <1>4 DEF Orderly
  <2>2. CASE q.result = "ok"
    <3>1. q.id # New => q.answer[q.id] = db[q.id]
      BY <1>4, <2>2 DEF Orderly
    <3>2. q.id \in Id => q.answer[q.id] = db[q.id]
      BY <3>1 DEF Id, New
    <3>3. q.kind \in {"create", "patch"} => Answers
      BY <1>2, <2>2 DEF Behind, Reloads
    <3>4. q.kind \in {"create", "patch"} => q.id \in Id /\ q.answer[q.id] # Gone
      BY <2>2, <3>3 DEF Dialogs, DialogRequest
    <3>5. QED
      BY <2>1, <2>2, <3>2, <3>4 DEF OnItsWay, Sane
  <2>3. CASE q.result # "ok"
    <3>1. q.kind # "select" /\ (q.id # New => db[q.id] # Gone)
      BY <1>4, <2>3 DEF Orderly
    <3>2. q.id \in Id => db[q.id] # Gone
      BY <3>1 DEF Id, New
    <3>3. QED
      BY <2>1, <2>3, <3>1, <3>2 DEF OnItsWay, Sane
  <2>4. QED
    BY <2>2, <2>3
<1>5. QED
  BY <1>3, <1>4 DEF InStep, Kept

-----------------------------------------------------------------------------
(* The user's actions that send nothing.                                   *)

LEMMA LoadPages ==
  ASSUME TypeOK
  PROVE  page \in {"inbound", "schedules", "ivr"} \/ This.after = "load"
<1>1. page \in DOMAIN PageOf
  BY PagesAssumption DEF TypeOK
<1>2. \A p \in DOMAIN PageOf :
        p \in {"ring_groups", "extension_groups", "holidays", "outbound_rules", "trunk_dids",
              "presence_rules", "phonebook", "inbound", "schedules", "ivr", "devices"}
  BY DEF PageOf
<1>3. \A p \in {RingGroupsSection, ExtensionGroupsSection, HolidaysSection, OutboundRulesSection,
               TrunkDidsSection, PresenceRules, Phonebook, Devices} : p.after = "load"
  BY DEF Page, RingGroupsSection, ExtensionGroupsSection, HolidaysSection,
     OutboundRulesSection, TrunkDidsSection, PresenceRules, Phonebook, Devices
<1>4. page \notin {"inbound", "schedules", "ivr"} =>
        This \in {RingGroupsSection, ExtensionGroupsSection, HolidaysSection, OutboundRulesSection,
                 TrunkDidsSection, PresenceRules, Phonebook, Devices}
  BY <1>1, <1>2 DEF This, PageOf
<1>5. QED
  BY <1>3, <1>4

LEMMA AnswerPages ==
  ASSUME TypeOK, Answers
  PROVE  /\ ~Inline /\ ~This.shared /\ This.confirms /\ ~This.imports /\ ~This.selects
         /\ AddSlot = "add" /\ page # "presence_rules"
         /\ \A f \in Slot : AtRest(f) = ClosedForm
<1>1. page \in {"inbound", "schedules", "ivr"}
  BY LoadPages DEF Answers
<1>2. This \in {Inbound, Schedules, Ivr}
  BY <1>1 DEF This, PageOf
<1>3. /\ ~This.shared /\ This.confirms /\ ~This.imports /\ ~This.selects
      /\ This.add \in {AddRouteDialog, AddTimeConditionDialog, AddIvrDialog}
  BY <1>2 DEF Inbound, Schedules, Ivr, Page
<1>4. This.add.modal
  BY <1>3 DEF AddRouteDialog, AddTimeConditionDialog, AddIvrDialog, Form
<1>5. QED
  BY <1>1, <1>3, <1>4 DEF Inline, AddSlot, AtRest

\* The parts of Steady in the next state, with the page as it was.
LEMMA SteadyNext ==
  ASSUME page' = page,
         LoadsClean(reqs', db'), \A q \in reqs' : Sane(q), Views',
         Calm' => InHand(reqs') /\ Settles(reqs', list', db'),
         Answers => Dialogs'
  PROVE  Steady'
<1>1. Answers' <=> Answers
  BY DEF Answers, This
<1>2. Settles(reqs', list', db') => Settles(reqs, list, db)'
  BY <1>1 DEF Settles, Behind, Reloads, InStep, Apart, OnItsWay, Kept, Brings, Writes
<1>3. InHand(reqs') => InHand(reqs)'
  BY DEF InHand, Writes
<1>4. LoadsClean(reqs, db)'
  BY DEF LoadsClean, Writes
<1>5. (\A q \in reqs : Sane(q))'
  BY DEF Sane
<1>6. QED
  BY <1>1, <1>2, <1>3, <1>4, <1>5 DEF Steady

LEMMA QuietSteady ==
  ASSUME TypeOK, Steady, UNCHANGED <<page, db, list, view, reqs, excused>>,
         del'.open => del.open \/ view = "shown", Answers => Dialogs'
  PROVE  Steady'
<1>1. Views'
  BY DEF Steady, Views
<1>2. Calm' <=> Calm
  BY DEF Calm
<1>3. QED
  BY <1>1, <1>2, SteadyNext DEF Steady

\* What is open in the next state is what was open, or it is opened on a row that is listed.
LEMMA DialogsKept ==
  ASSUME TypeOK, Dialogs, UNCHANGED <<list, view, reqs>>,
         del'.open => \A f \in Slot : ~forms'[f].open,
         FormEdits(forms["edit"])', forms'["add"].id = New,
         \A q \in reqs : q.kind = "delete" /\ ~q.deaf => del'.open /\ del'.busy
  PROVE  Dialogs'
<1>1. \A q \in reqs : DialogRequest(q) /\ DialogRequest(q)'
  <2>1. \A q \in reqs : DialogRequest(q)
    BY DEF Dialogs
  <2>2. QED
    BY <2>1 DEF DialogRequest
<1>2. OneAsks(reqs)'
  BY DEF Dialogs, OneAsks
<1>3. QED
  BY <1>1, <1>2 DEF Dialogs

LEMMA OpenAddSteady == ASSUME TypeOK, Steady, OpenAdd PROVE Steady'
<1>1. UNCHANGED <<page, db, list, view, reqs, excused, del>>
  BY DEF OpenAdd
<1>2. ASSUME Answers PROVE Dialogs'
  <2>1. Dialogs /\ AddSlot = "add" /\ ~Inline
    BY <1>2, AnswerPages DEF Steady
  <2>2. forms' = [forms EXCEPT !["add"] = EmptyForm] /\ ~del.open
    BY <2>1 DEF OpenAdd, Covered
  <2>3. forms'["edit"] = forms["edit"] /\ forms'["add"].id = New
    BY <2>2 DEF TypeOK, Slot, EmptyForm, ClosedForm
  <2>4. FormEdits(forms["edit"])'
    BY <1>1, <2>1, <2>3 DEF Dialogs, FormEdits
  <2>5. \A q \in reqs : q.kind = "delete" /\ ~q.deaf => del'.open /\ del'.busy
    BY <1>1, <2>1 DEF Dialogs, DialogRequest
  <2>6. QED
    BY <1>1, <2>1, <2>2, <2>3, <2>4, <2>5, DialogsKept
<1>3. QED
  BY <1>1, <1>2, QuietSteady

LEMMA StartEditSteady == ASSUME TypeOK, Steady, NEW i \in Id, StartEdit(i) PROVE Steady'
<1>1. UNCHANGED <<page, db, list, view, reqs, excused, del>>
  BY DEF StartEdit
<1>2. ASSUME Answers PROVE Dialogs'
  <2>1. Dialogs /\ ~Inline
    BY <1>2, AnswerPages DEF Steady
  <2>2. ~del.open /\ list[i] # Gone /\ view = "shown"
    BY DEF StartEdit, Covered
  <2>3. forms'["edit"].id = i /\ forms'["add"] = forms["add"]
    BY DEF StartEdit, TypeOK, Slot
  <2>4. FormEdits(forms["edit"])'
    BY <1>1, <2>2, <2>3 DEF FormEdits
  <2>5. \A q \in reqs : q.kind = "delete" /\ ~q.deaf => del'.open /\ del'.busy
    BY <1>1, <2>1 DEF Dialogs, DialogRequest
  <2>6. forms["add"].id = New
    BY <2>1 DEF Dialogs
  <2>7. QED
    BY <1>1, <2>1, <2>2, <2>3, <2>4, <2>5, <2>6, DialogsKept
<1>3. QED
  BY <1>1, <1>2, QuietSteady

\* A form keeps its row when its draft is changed.
FormsKept == \A f \in Slot : forms'[f].open = forms[f].open /\ forms'[f].id = forms[f].id

LEMMA SameFormsSteady ==
  ASSUME TypeOK, Steady, UNCHANGED <<page, db, list, view, reqs, excused, del>>, FormsKept
  PROVE  Steady'
<1>1. ASSUME Answers PROVE Dialogs'
  <2>1. Dialogs
    BY <1>1 DEF Steady
  <2>2. FormEdits(forms["edit"])'
    BY <2>1 DEF Dialogs, FormEdits, FormsKept, Slot
  <2>3. \A q \in reqs : q.kind = "delete" /\ ~q.deaf => del'.open /\ del'.busy
    BY <2>1 DEF Dialogs, DialogRequest
  <2>4. (del'.open => \A f \in Slot : ~forms'[f].open) /\ forms'["add"].id = New
    BY <2>1 DEF Dialogs, FormsKept, Slot
  <2>5. QED
    BY <2>1, <2>2, <2>3, <2>4, DialogsKept
<1>2. QED
  BY <1>1, QuietSteady

LEMMA EditSteady == ASSUME TypeOK, Steady, NEW f \in Slot, Edit(f) PROVE Steady'
<1>1. \A x, d : Changed(f, x, d) =>
        UNCHANGED <<page, db, list, view, reqs, excused, del>> /\ FormsKept
  BY DEF Changed, FormsKept, TypeOK, FormState
<1>2. PICK x, d : Changed(f, x, d)
  BY Zenon DEF Edit, Type, ToggleMember, ToggleDay, PickCid, PickFile, Choose, EditOptions
<1>3. QED
  BY <1>1, <1>2, SameFormsSteady

LEMMA AskDeleteSteady == ASSUME TypeOK, Steady, NEW i \in Id, AskDelete(i) PROVE Steady'
<1>1. UNCHANGED <<page, db, list, view, reqs, excused, forms>> /\ view = "shown" /\ ~Covered
  BY DEF AskDelete
<1>2. ASSUME Answers PROVE Dialogs'
  <2>1. Dialogs /\ ~Inline
    BY <1>2, AnswerPages DEF Steady
  <2>2. FormEdits(forms["edit"])' /\ forms'["add"].id = New
    BY <1>1, <2>1 DEF Dialogs, FormEdits
  <2>3. \A q \in reqs : ~(q.kind = "delete" /\ ~q.deaf)
    BY <1>1, <2>1 DEF Dialogs, DialogRequest, Covered
  <2>4. \A f \in Slot : ~forms'[f].open
    BY <1>1, <2>1 DEF Covered
  <2>5. QED
    BY <1>1, <2>1, <2>2, <2>3, <2>4, DialogsKept
<1>3. QED
  BY <1>1, <1>2, QuietSteady

LEMMA KeepRowSteady == ASSUME TypeOK, Steady, KeepRow PROVE Steady'
<1>1. UNCHANGED <<page, db, list, view, reqs, excused, forms>> /\ ~del'.open /\ ~del.busy
  BY DEF KeepRow, NoDelete
<1>2. ASSUME Answers PROVE Dialogs'
  <2>1. Dialogs
    BY <1>2 DEF Steady
  <2>2. FormEdits(forms["edit"])' /\ forms'["add"].id = New
    BY <1>1, <2>1 DEF Dialogs, FormEdits
  <2>3. \A q \in reqs : ~(q.kind = "delete" /\ ~q.deaf)
    BY <1>1, <2>1 DEF Dialogs, DialogRequest
  <2>4. QED
    BY <1>1, <2>1, <2>2, <2>3, DialogsKept
<1>3. QED
  BY <1>1, <1>2, QuietSteady

LEMMA CloseFormSteady == ASSUME TypeOK, Steady, NEW f \in Slot, CloseForm(f) PROVE Steady'
<1>1. UNCHANGED <<page, db, list, view, excused, del>> /\ reqs' = Orphaned(reqs, f)
  BY DEF CloseForm
<1>2. PICK g : Image(reqs', reqs, g) /\ SameEars(reqs, g)
  BY <1>1, OrphansAlike DEF TypeOK
<1>3. LoadsClean(reqs', db') /\ \A q \in reqs' : Sane(q)
  BY <1>1, <1>2, ImageClean, ImageSane DEF Steady
<1>4. \A p \in reqs' : \E q \in reqs : Alike(p, q)
  BY <1>2 DEF Image
<1>5. Views'
  BY <1>1, <1>4 DEF Steady, Views, Alike
<1>6. Calm' => InHand(reqs') /\ Settles(reqs', list', db')
  BY <1>1, <1>2, ImageInHand, ImageSettles DEF Steady, Calm
<1>7. ASSUME Answers PROVE Dialogs'
  <2>1. Dialogs /\ ~Inline /\ AtRest(f) = ClosedForm
    BY <1>7, AnswerPages DEF Steady
  <2>2. forms' = [forms EXCEPT ![f] = [ClosedForm EXCEPT !.busy = FALSE]]
    BY <2>1 DEF CloseForm
  <2>3. \A h \in Slot : forms'[h] = IF h = f THEN [ClosedForm EXCEPT !.busy = FALSE] ELSE forms[h]
    BY <2>2 DEF TypeOK
  <2>4. [ClosedForm EXCEPT !.busy = FALSE].open = FALSE
        /\ [ClosedForm EXCEPT !.busy = FALSE].id = New
    BY DEF ClosedForm
  <2>5. FormEdits(forms["edit"])' /\ forms'["add"].id = New
    BY <1>1, <2>1, <2>3, <2>4 DEF Dialogs, FormEdits, Slot
  <2>6. del'.open => \A h \in Slot : ~forms'[h].open
    BY <1>1, <2>1, <2>3, <2>4 DEF Dialogs
  <2>7. (\A q \in reqs' : DialogRequest(q)) /\ OneAsks(reqs')
    BY <1>2, <2>1, ImageDialog, ImageOneAsks DEF Dialogs
  <2>8. (\A q \in reqs : DialogRequest(q))' /\ OneAsks(reqs)'
    BY <1>1, <2>7 DEF DialogRequest, OneAsks
  <2>9. QED
    BY <2>5, <2>6, <2>8 DEF Dialogs
<1>8. QED
  BY <1>1, <1>3, <1>5, <1>6, <1>7, SteadyNext

-----------------------------------------------------------------------------
(* A write is sent.                                                        *)

Sent(r) == r.phase = "sent" /\ r.result = "none" /\ ~r.deaf /\ r.mine /\ Writes(r)

Clash(r) == \E q \in reqs : Clashing(q, r)

LEMMA SendSteady ==
  ASSUME TypeOK, Steady, NEW r, Sent(r), Sane(r), page' = page, db' = db, view' = view,
         reqs' = reqs \cup {r}, excused => excused', view # "crashed",
         Calm' => r.kind \notin {"greeting", "ungreet"} /\ Settles(reqs', list', db'),
         Answers => Dialogs'
  PROVE  Steady'
<1>1. LoadsClean(reqs', db')
  BY DEF Steady, LoadsClean, Sent, Writes
<1>2. \A q \in reqs' : Sane(q)
  BY DEF Steady
<1>3. Views'
  BY DEF Steady, Views
<1>4. ASSUME Calm' PROVE InHand(reqs')
  <2>1. InHand(reqs)
    BY <1>4 DEF Steady, Calm, TypeOK
  <2>2. QED
    BY <1>4, <2>1 DEF InHand, Sent
<1>5. QED
  BY <1>1, <1>2, <1>3, <1>4, SteadyNext

LEMMA SendDialogs ==
  ASSUME TypeOK, Dialogs, NEW r, Sent(r), list' = list, view' = view,
         reqs' = reqs \cup {r}, del'.open = del.open, del.busy => del'.busy, FormsKept,
         DialogRequest(r)', r.kind = "delete" => ~del.busy
  PROVE  Dialogs'
<1>1. \A q \in reqs : DialogRequest(q) /\ DialogRequest(q)'
  <2>1. \A q \in reqs : DialogRequest(q)
    BY DEF Dialogs
  <2>2. QED
    BY <2>1 DEF DialogRequest
<1>2. (\A q \in reqs : DialogRequest(q))'
  BY <1>1
<1>3. OneAsks(reqs)
  BY DEF Dialogs
<1>4. r.kind = "delete" => \A q \in reqs : ~(q.kind = "delete" /\ ~q.deaf)
  BY <1>1 DEF DialogRequest
<1>5. OneAsks(reqs)'
  BY <1>3, <1>4 DEF OneAsks, Sent, Writes
<1>6. FormEdits(forms["edit"])' /\ forms'["add"].id = New
  BY DEF Dialogs, FormEdits, FormsKept, Slot
<1>7. del'.open => \A f \in Slot : ~forms'[f].open
  BY DEF Dialogs, FormsKept
<1>8. QED
  BY <1>2, <1>5, <1>6, <1>7 DEF Dialogs

\* A write without a clash, on a copy that stays.
LEMMA WriteSteady ==
  ASSUME TypeOK, Steady, NEW r, Sent(r), Sane(r), UNCHANGED <<page, db, view, list>>, Write(r),
         view # "crashed", r.kind \in {"create", "patch", "delete", "import"},
         r.kind = "create" => r.id = New,
         r.kind = "patch" /\ Answers => r.id \in Id /\ list[r.id] # Gone,
         Answers => Dialogs'
  PROVE  Steady'
<1>1. reqs' = reqs \cup {r} /\ (excused' <=> excused \/ Clash(r))
  BY DEF Write, TypeOK, Clash
<1>2. ASSUME Calm' PROVE Settles(reqs', list', db')
  <2>1. Settles(reqs, list, db) /\ ~Clash(r)
    BY <1>1, <1>2 DEF Steady, Calm
  <2>2. \A q \in reqs : Writes(q) => Apart(q, r) /\ Apart(r, q)
    BY <2>1, NoClashApart DEF Clash
  <2>3. QED
    BY <1>1, <2>1, <2>2, AddSettles DEF Sent
<1>3. QED
  BY <1>1, <1>2, SendSteady

LEMMA SubmitSteady == ASSUME TypeOK, Steady, NEW f \in Slot, Submit(f) PROVE Steady'
<1>. DEFINE form == forms[f]
            kind == IF form.id = New THEN "create" ELSE "patch"
<1>. SUFFICES ASSUME NEW r, r = Request(kind, form.id, f, form) PROVE Steady'
  OBVIOUS
<1>1. UNCHANGED <<page, db, list, view, del>> /\ Write(r) /\ OnScreen(f)
  BY DEF Submit
<1>2. form \in FormState
  BY DEF TypeOK
<1>3. /\ r.kind = kind /\ r.id = form.id /\ r.form = f
      /\ r.phase = "sent" /\ r.result = "none" /\ r.deaf = FALSE /\ r.mine = TRUE
  BY DEF Request
<1>4. Sent(r) /\ Sane(r) /\ (r.kind = "create" => r.id = New)
  BY <1>2, <1>3 DEF Sent, Sane, Writes, FormState
<1>5. view # "crashed" /\ form.open
  BY <1>1 DEF OnScreen
<1>6. FormsKept
  BY DEF Submit, FormsKept, TypeOK, FormState
<1>7. ASSUME Answers
      PROVE  Dialogs' /\ (r.kind = "patch" => r.id \in Id /\ list[r.id] # Gone)
  <2>1. Dialogs
    BY <1>7 DEF Steady
  <2>2. f = "add" => kind = "create"
    BY <2>1 DEF Dialogs
  <2>3. f = "edit" => kind = "patch" /\ form.id \in Id /\ list[form.id] # Gone
    BY <1>5, <2>1 DEF Dialogs, FormEdits, Id, New
  <2>4. DialogRequest(r)'
    BY <1>3, <2>2, <2>3 DEF DialogRequest, Slot
  <2>5. reqs' = reqs \cup {r}
    BY <1>1 DEF Write
  <2>6. Dialogs'
    BY <1>1, <1>3, <1>4, <1>6, <2>1, <2>4, <2>5, SendDialogs
  <2>7. QED
    BY <1>3, <2>2, <2>3, <2>6 DEF Slot
<1>8. r.kind \in {"create", "patch", "delete", "import"}
  BY <1>3
<1>9. QED
  BY <1>1, <1>4, <1>5, <1>7, <1>8, WriteSteady

LEMMA DeleteSteady == ASSUME TypeOK, Steady, NEW i \in Id, Delete(i) PROVE Steady'
<1>. SUFFICES ASSUME NEW r, r = Request("delete", i, "none", ClosedForm) PROVE Steady'
  OBVIOUS
<1>1. UNCHANGED <<page, db, list, view, forms>> /\ Write(r)
  BY DEF Delete
<1>2. /\ r.kind = "delete" /\ r.id = i
      /\ r.phase = "sent" /\ r.result = "none" /\ r.deaf = FALSE /\ r.mine = TRUE
  BY DEF Request
<1>3. Sent(r) /\ Sane(r)
  BY <1>2 DEF Sent, Sane, Writes
<1>4. view # "crashed"
  BY DEF Delete, Steady, Views
<1>5. ASSUME Answers PROVE Dialogs'
  <2>1. Dialogs /\ This.confirms
    BY <1>5, AnswerPages DEF Steady
  <2>2. del.open /\ ~del.busy /\ del'.open /\ del'.busy
    BY <2>1 DEF Delete, TypeOK
  <2>3. DialogRequest(r)'
    BY <1>2, <2>2 DEF DialogRequest
  <2>4. reqs' = reqs \cup {r} /\ FormsKept
    BY <1>1 DEF Write, FormsKept
  <2>5. QED
    BY <1>1, <1>3, <2>1, <2>2, <2>3, <2>4, SendDialogs
<1>6. QED
  BY <1>1, <1>2, <1>3, <1>4, <1>5, WriteSteady

LEMMA ImportSteady == ASSUME TypeOK, Steady, Import PROVE Steady'
<1>. SUFFICES ASSUME NEW r, r = Request("import", New, "none", ClosedForm) PROVE Steady'
  OBVIOUS
<1>1. UNCHANGED <<page, db, list, view>> /\ Write(r) /\ view # "crashed" /\ This.imports
  BY DEF Import
<1>2. /\ r.kind = "import"
      /\ r.phase = "sent" /\ r.result = "none" /\ r.deaf = FALSE /\ r.mine = TRUE
  BY DEF Request
<1>3. Sent(r) /\ Sane(r)
  BY <1>2 DEF Sent, Sane, Writes
<1>4. ~Answers
  BY <1>1, AnswerPages
<1>5. QED
  BY <1>1, <1>2, <1>3, <1>4, WriteSteady

LEMMA SelectSteady == ASSUME TypeOK, Steady, NEW i \in Id, Select(i) PROVE Steady'
<1>. DEFINE plain == Request("select", i, "none", ClosedForm)
<1>. SUFFICES ASSUME NEW r, r = [plain EXCEPT !.body.cid = ~list[i].cid, !.shown = list]
             PROVE  Steady'
  OBVIOUS
<1>1. UNCHANGED <<page, db, view>> /\ Write(r) /\ view = "shown" /\ This.selects
      /\ list' = [list EXCEPT ![i].cid = ~list[i].cid]
  BY DEF Select
<1>2. /\ r.kind = "select" /\ r.id = i /\ r.shown = list /\ r.body.cid = ~list[i].cid
      /\ r.phase = "sent" /\ r.result = "none" /\ r.deaf = FALSE /\ r.mine = TRUE
  <2>1. plain \in ReqState
    BY RestTypes, RequestType
  <2>2. plain.body \in Row
    BY <2>1 DEF ReqState
  <2>3. [plain.body EXCEPT !.cid = ~list[i].cid].cid = ~list[i].cid
    BY <2>2 DEF Row
  <2>4. r = [plain EXCEPT !.body = [plain.body EXCEPT !.cid = ~list[i].cid], !.shown = list]
    BY <2>1 DEF ReqState
  <2>5. plain.kind = "select" /\ plain.id = i /\ plain.phase = "sent" /\ plain.result = "none"
        /\ plain.deaf = FALSE /\ plain.mine = TRUE
    BY DEF Request
  <2>. HIDE DEF plain
  <2>6. QED
    BY <2>1, <2>3, <2>4, <2>5 DEF ReqState
<1>3. Sent(r) /\ Sane(r)
  BY <1>2 DEF Sent, Sane, Writes
<1>4. ~Answers
  BY <1>1, AnswerPages
<1>5. reqs' = reqs \cup {r} /\ (excused' <=> excused \/ Clash(r))
  BY <1>1 DEF Write, TypeOK, Clash
<1>6. ASSUME Calm' PROVE Settles(reqs', list', db')
  <2>1. Settles(reqs, list, db) /\ ~Clash(r)
    BY <1>1, <1>5, <1>6 DEF Steady, Calm
  <2>2. \A q \in reqs : ~Writes(q)
    BY <1>2, <2>1, NoClashApart DEF Clash
  <2>3. list \in Table /\ db \in Table
    BY DEF TypeOK
  <2>4. list' = [list EXCEPT ![r.id].cid = r.body.cid]
    BY <1>1, <1>2
  <2>5. Settles(reqs \cup {r}, list', db)
    BY <1>2, <2>1, <2>2, <2>3, <2>4, SelectSettles
  <2>6. QED
    BY <1>1, <1>5, <2>5
<1>7. QED
  BY <1>1, <1>2, <1>3, <1>4, <1>5, <1>6, SendSteady

LEMMA DropGreetingSteady == ASSUME TypeOK, Steady, DropGreeting PROVE Steady'
<1>. SUFFICES ASSUME NEW r, r = Request("ungreet", forms["edit"].id, "none", ClosedForm) PROVE Steady'
  OBVIOUS
<1>1. UNCHANGED <<page, db, list, view, forms, del>> /\ excused' = TRUE
      /\ reqs' = reqs \cup {r} /\ OnScreen("edit")
  BY DEF DropGreeting
<1>2. /\ r.kind = "ungreet"
      /\ r.phase = "sent" /\ r.result = "none" /\ r.deaf = FALSE /\ r.mine = TRUE
  BY DEF Request
<1>3. Sent(r) /\ Sane(r)
  BY <1>2 DEF Sent, Sane, Writes
<1>4. view # "crashed"
  BY <1>1 DEF OnScreen
<1>5. ASSUME Answers PROVE Dialogs'
  <2>1. Dialogs
    BY <1>5 DEF Steady
  <2>2. DialogRequest(r)' /\ FormsKept
    BY <1>1, <1>2 DEF DialogRequest, FormsKept
  <2>3. QED
    BY <1>1, <1>2, <1>3, <2>1, <2>2, SendDialogs
<1>6. ~Calm'
  BY <1>1 DEF Calm
<1>7. QED
  BY <1>1, <1>3, <1>4, <1>5, <1>6, SendSteady

-----------------------------------------------------------------------------
(* The page is opened again; somebody else changes the table.              *)

LEMMA AddLoadClean ==
  ASSUME NEW R, NEW r, NEW t, LoadsClean(R, t), r.result = "none"
  PROVE  LoadsClean(R \cup {r}, t)
BY DEF LoadsClean

LEMMA ReloadSteady == ASSUME TypeOK, Steady, Reload PROVE Steady'
<1>. DEFINE Old == {[q EXCEPT !.deaf = TRUE] : q \in reqs}
<1>. SUFFICES ASSUME NEW r, r = Loading PROVE Steady'
  OBVIOUS
<1>1. /\ UNCHANGED <<page, db>> /\ view' = "loading" /\ excused' = TRUE
      /\ forms' = FormsAtRest /\ del' = NoDelete /\ reqs' = Old \cup {r}
  BY DEF Reload
<1>2. r.kind = "load" /\ r.phase = "sent" /\ r.result = "none"
  BY DEF Loading, Request
<1>3. PICK g : Image(Old, reqs, g)
  BY DeafAlike DEF TypeOK
<1>4. \A q \in Old : q.deaf
  BY AllDeaf DEF TypeOK
<1>. HIDE DEF Old
<1>5. LoadsClean(reqs', db')
  <2>1. LoadsClean(Old, db)
    BY <1>3, ImageClean DEF Steady
  <2>2. QED
    BY <1>1, <1>2, <2>1, AddLoadClean
<1>6. \A q \in reqs' : Sane(q)
  <2>1. \A q \in Old : Sane(q)
    BY <1>3, ImageSane DEF Steady
  <2>2. Sane(r)
    BY <1>2 DEF Sane
  <2>3. QED
    BY <1>1, <2>1, <2>2
<1>7. Views' /\ ~Calm'
  BY <1>1 DEF Views, Calm
<1>8. ASSUME Answers PROVE Dialogs'
  <2>1. Dialogs /\ FormsAtRest = [f \in Slot |-> ClosedForm]
    BY <1>8, AnswerPages DEF Steady, FormsAtRest
  <2>2. FormEdits(forms["edit"])' /\ forms'["add"].id = New /\ ~del'.open
    BY <1>1, <2>1 DEF FormEdits, ClosedForm, NoDelete, Slot
  <2>3. \A q \in Old : DialogRequest(q)
    BY <1>3, <2>1, ImageDialog DEF Dialogs
  <2>4. \A q \in Old : DialogRequest(q)'
    BY <1>4, <2>3 DEF DialogRequest
  <2>5. DialogRequest(r)'
    BY <1>1, <1>2 DEF DialogRequest
  <2>6. (\A q \in reqs : DialogRequest(q))'
    BY <1>1, <2>4, <2>5
  <2>7. OneAsks(reqs)'
    BY <1>1, <1>4 DEF OneAsks
  <2>8. QED
    BY <2>2, <2>6, <2>7 DEF Dialogs
<1>9. QED
  BY <1>1, <1>5, <1>6, <1>7, <1>8, SteadyNext

LEMMA OtherAdminSteady == ASSUME TypeOK, Steady, NEW i \in Id, OtherAdmin(i) PROVE Steady'
<1>1. UNCHANGED <<page, list, view, forms, del>> /\ excused' = TRUE /\ reqs' = Overtaken(reqs)
  BY DEF OtherAdmin
<1>2. PICK g : Image(Overtaken(reqs), reqs, g) /\ SameEars(reqs, g)
  BY OvertakenAlike DEF TypeOK
<1>3. LoadsClean(reqs', db')
  BY <1>1, OvertakenClean DEF Steady, TypeOK
<1>4. \A q \in reqs' : Sane(q)
  BY <1>1, <1>2, ImageSane DEF Steady
<1>5. \A p \in Overtaken(reqs) : \E q \in reqs : Alike(p, q)
  BY <1>2 DEF Image
<1>6. Views' /\ ~Calm'
  BY <1>1, <1>5 DEF Steady, Views, Calm, Alike
<1>7. ASSUME Answers PROVE Dialogs'
  <2>1. Dialogs
    BY <1>7 DEF Steady
  <2>2. (\A q \in reqs' : DialogRequest(q)) /\ OneAsks(reqs')
    BY <1>1, <1>2, <2>1, ImageDialog, ImageOneAsks DEF Dialogs
  <2>3. (\A q \in reqs : DialogRequest(q))' /\ OneAsks(reqs)'
    BY <1>1, <2>2 DEF DialogRequest, OneAsks
  <2>4. FormEdits(forms["edit"])'
    BY <1>1, <2>1 DEF Dialogs, FormEdits
  <2>5. QED
    BY <1>1, <2>1, <2>3, <2>4 DEF Dialogs
<1>8. QED
  BY <1>1, <1>3, <1>4, <1>6, <1>7, SteadyNext

LEMMA UserSteady == ASSUME TypeOK, Steady, User PROVE Steady'
BY OpenAddSteady, DropGreetingSteady, KeepRowSteady, ImportSteady, ReloadSteady, StartEditSteady,
   AskDeleteSteady, DeleteSteady, SelectSteady, EditSteady, SubmitSteady, CloseFormSteady
   DEF User

-----------------------------------------------------------------------------
(* The backend serves a request, or the connection breaks.                 *)

LEMMA ReplaceSteady ==
  ASSUME TypeOK, Steady, NEW r \in reqs, NEW p, NEW S, reqs' = S \cup {p},
         NEW g, Image(S, reqs \ {r}, g), SameEars(reqs \ {r}, g), LoadsClean(S, db'),
         UNCHANGED <<page, list, view, forms, del>>, excused => excused',
         p.kind = r.kind, p.deaf = r.deaf, p.form = r.form, p.shown = r.shown,
         Sane(p), r.kind = "greeting" => p.id = r.id,
         ~Writes(r) /\ p.result = "ok" => p.answer = db',
         p.kind \in {"create", "patch"} /\ p.result = "ok" => p.id \in Id /\ p.answer[p.id] # Gone,
         Calm' => (Writes(p) => p.result # "lost") /\ Settles(reqs', list', db')
  PROVE  Steady'
<1>1. Writes(p) <=> Writes(r)
  BY DEF Writes
<1>. DEFINE R == reqs \ {r}
<1>2. LoadsClean(reqs', db')
  BY DEF LoadsClean, Writes
<1>3. \A q \in reqs' : Sane(q)
  <2>1. \A q \in S : Sane(q)
    BY ImageSane DEF Steady
  <2>2. QED
    BY <2>1
<1>4. Views'
  <2>1. \A q \in S : \E q0 \in R : q.deaf = q0.deaf
    BY DEF Image, SameEars
  <2>2. QED
    BY <2>1 DEF Steady, Views
<1>5. ASSUME Calm' PROVE InHand(reqs')
  <2>1. InHand(reqs)
    BY <1>5 DEF Steady, Calm, TypeOK
  <2>2. InHand(R)
    BY <2>1 DEF InHand
  <2>3. InHand(S)
    BY <2>2, ImageInHand
  <2>4. (Writes(p) => ~p.deaf /\ p.kind \notin {"greeting", "ungreet"})
    BY <1>1, <2>1 DEF InHand
  <2>5. QED
    BY <1>5, <2>3, <2>4 DEF InHand
<1>6. ASSUME Answers PROVE Dialogs'
  <2>1. Dialogs
    BY <1>6 DEF Steady
  <2>2. \A q \in reqs' : DialogRequest(q)
    <3>1. DialogRequest(r)
      BY <2>1 DEF Dialogs
    <3>2. DialogRequest(p)
      BY <3>1 DEF DialogRequest
    <3>3. \A q \in S : DialogRequest(q)
      BY <2>1, ImageDialog DEF Dialogs
    <3>4. QED
      BY <3>2, <3>3
  <2>3. (\A q \in reqs : DialogRequest(q))'
    BY <2>2 DEF DialogRequest
  <2>4. OneAsks(reqs)'
    <3>1. OneAsks(reqs)
      BY <2>1 DEF Dialogs
    <3>2. OneAsks(R)
      BY <3>1 DEF OneAsks
    <3>3. OneAsks(S)
      BY <3>2, ImageOneAsks
    <3>4. \A q \in R : q.kind = r.kind /\ ~q.deaf /\ ~r.deaf => q.kind \notin {"load", "delete"}
      BY <3>1 DEF OneAsks
    <3>5. \A q \in S : q.kind = p.kind /\ ~q.deaf /\ ~p.deaf => q.kind \notin {"load", "delete"}
      BY <3>4 DEF Image, Alike, SameEars
    <3>6. QED
      BY <3>3, <3>5 DEF OneAsks
  <2>5. FormEdits(forms["edit"])'
    BY <2>1 DEF Dialogs, FormEdits
  <2>6. QED
    BY <2>1, <2>3, <2>4, <2>5 DEF Dialogs
<1>7. QED
  BY <1>2, <1>3, <1>4, <1>5, <1>6, SteadyNext

LEMMA LoseSteady == ASSUME TypeOK, Steady, NEW r \in reqs, Lose(r) PROVE Steady'
<1>. SUFFICES ASSUME NEW p,
                     p = [r EXCEPT !.phase = "served", !.result = "lost", !.answer = NoTable]
             PROVE  Steady'
  OBVIOUS
<1>1. /\ reqs' = (reqs \ {r}) \cup {p} /\ (excused' <=> excused \/ Writes(r))
      /\ UNCHANGED <<page, db, list, view, forms, del>>
  BY DEF Lose, TypeOK, Writes
<1>2. r \in ReqState
  BY DEF TypeOK
<1>3. /\ p.kind = r.kind /\ p.deaf = r.deaf /\ p.form = r.form /\ p.shown = r.shown
      /\ p.id = r.id /\ p.result = "lost" /\ p.phase = "served"
  BY <1>2 DEF ReqState
<1>4. Sane(r) /\ Sane(p)
  BY <1>3 DEF Steady, Sane
<1>5. ASSUME Calm' PROVE ~Writes(p) /\ Settles(reqs', list', db')
  <2>1. ~Writes(r) /\ ~Writes(p) /\ Settles(reqs, list, db)
    BY <1>1, <1>3, <1>5 DEF Steady, Calm, Writes
  <2>2. Settles(reqs \ {r}, list, db)
    BY <2>1, DropSettles
  <2>3. QED
    BY <1>1, <2>1, <2>2, AddLoadSettles
<1>6. LoadsClean(reqs \ {r}, db')
  BY <1>1 DEF Steady, LoadsClean
<1>7. PICK g : Image(reqs \ {r}, reqs \ {r}, g) /\ SameEars(reqs \ {r}, g)
  BY SelfAlike
<1>8. QED
  BY <1>1, <1>3, <1>4, <1>5, <1>6, <1>7, ReplaceSteady

\* A save that is not refused stores a row, and changes no other.
LEMMA SavedRow ==
  ASSUME TypeOK, NEW r \in reqs, ~Refused(r), NEW s \in Served(r), Sane(r),
         r.kind \in {"create", "patch"}
  PROVE  /\ s.id \in Id /\ s.db[s.id] # Gone
         /\ \A i \in Id \ {s.id} : s.db[i] = db[i]
         /\ r.kind = "patch" => s.id = r.id
         /\ r.kind = "create" => db[s.id] = Gone \/ page = "presence_rules"
<1>1. r \in ReqState /\ db \in Table
  BY DEF TypeOK
<1>2. CASE r.kind = "create"
  <2>. DEFINE row == Stored(This.add, r.body, Blank)
  <2>1. row \in Row
    BY <1>1, BlankIsRow, StoredIsRow DEF ReqState
  <2>. HIDE DEF row
  <2>2. PICK i \in Id : /\ db[i] = Gone \/ page = "presence_rules"
                        /\ s = [id |-> i, db |-> [db EXCEPT ![i] = row]]
    BY <1>2 DEF Served, row
  <2>3. QED
    BY <1>1, <1>2, <2>1, <2>2, GoneIsNoRow DEF Table
<1>3. CASE r.kind = "patch"
  <2>. DEFINE row == Stored(This.edit, r.body, db[r.id])
  <2>1. r.id \in Id /\ db[r.id] \in Row
    BY <1>1, <1>3 DEF Sane, Refused, Table
  <2>2. row \in Row
    BY <1>1, <2>1, StoredIsRow DEF ReqState
  <2>. HIDE DEF row
  <2>3. s = [id |-> r.id, db |-> [db EXCEPT ![r.id] = row]]
    BY <1>3 DEF Served, row
  <2>4. QED
    BY <1>1, <1>3, <2>1, <2>2, <2>3, GoneIsNoRow DEF Table
<1>4. QED
  BY <1>2, <1>3

\* What is served settles the copy with the new table.
LEMMA ServedInStep ==
  ASSUME TypeOK, Steady, Calm, NEW r \in reqs, ~Refused(r), NEW s \in Served(r),
         r.phase = "sent", NEW p, p.kind = r.kind, p.result = "ok", p.id = s.id,
         r.kind \in {"create", "patch"} => p.answer[s.id] = s.db[s.id]
  PROVE  Settles((reqs \ {r}) \cup {p}, list, s.db)
<1>. DEFINE S == (reqs \ {r}) \cup {p}
<1>1. /\ r \in ReqState /\ reqs \in SUBSET ReqState /\ list \in Table /\ db \in Table
      /\ s.db \in Table
  BY ServedType DEF TypeOK
<1>2. /\ Settles(reqs, list, db) /\ InHand(reqs) /\ (\A q \in reqs : Sane(q))
      /\ (Answers => Dialogs) /\ Sane(r) /\ r.result = "none"
  BY DEF Steady, Sane
<1>3. Answers => \A q \in reqs : q.kind \notin {"import", "greeting", "ungreet"}
  BY <1>2 DEF Dialogs, DialogRequest, InHand, Writes
<1>4. CASE r.kind \in {"create", "patch"}
  <2>1. /\ s.id \in Id /\ s.db[s.id] # Gone
        /\ \A i \in Id \ {s.id} : s.db[i] = db[i]
        /\ r.kind = "patch" => s.id = r.id
        /\ r.kind = "create" => db[s.id] = Gone \/ page = "presence_rules"
    BY <1>2, <1>4, SavedRow
  <2>2. Answers => page # "presence_rules"
    BY AnswerPages
  <2>3. QED
    BY <1>1, <1>2, <1>3, <1>4, <2>1, <2>2, ServedSettles
<1>5. CASE r.kind = "delete"
  <2>1. s = [id |-> r.id, db |-> [db EXCEPT ![r.id] = Gone]] /\ r.id \in Id
    BY <1>2, <1>5 DEF Served, Sane
  <2>2. s.id = r.id /\ s.db[r.id] = Gone /\ \A i \in Id \ {r.id} : s.db[i] = db[i]
    BY <1>1, <2>1 DEF Table
  <2>3. QED
    BY <1>1, <1>2, <1>3, <1>5, <2>1, <2>2, ServedSettles
<1>6. CASE r.kind = "select"
  <2>1. s.db = [db EXCEPT ![r.id].cid = r.body.cid]
    BY <1>6 DEF Served
  <2>2. QED
    BY <1>2, <1>6, <2>1, SelectServedSettles
<1>7. CASE r.kind = "import"
  BY <1>7 DEF Settles, Behind, Reloads
<1>8. CASE r.kind = "load"
  <2>1. s.db = db /\ ~Writes(r) /\ ~Writes(p)
    BY <1>8 DEF Served, Writes
  <2>2. Settles(reqs \ {r}, list, db)
    BY <1>2, <2>1, DropSettles
  <2>3. QED
    BY <2>1, <2>2, AddLoadSettles
<1>9. r.kind \notin {"greeting", "ungreet"}
  BY <1>2 DEF InHand, Writes
<1>10. QED
  BY <1>1, <1>4, <1>5, <1>6, <1>7, <1>8, <1>9 DEF ReqState

\* A write that is served overtakes loads, which makes no difference to the copy.
LEMMA BesideSettles ==
  ASSUME TypeOK, NEW r \in reqs, NEW p \in ReqState, p.kind = r.kind, NEW l, NEW t,
         Settles((reqs \ {r}) \cup {p}, l, t)
  PROVE  Settles(Beside(r) \cup {p}, l, t)
<1>. DEFINE S == (reqs \ {r}) \cup {p}
<1>1. CASE Writes(r)
  <2>1. Writes(p)
    BY <1>1 DEF Writes
  <2>2. Overtaken(S) = Overtaken(reqs \ {r}) \cup {p}
    BY <2>1 DEF Overtaken
  <2>3. S \in SUBSET ReqState
    BY DEF TypeOK
  <2>4. Settles(Overtaken(S), l, t)
    BY <2>3, OvertakenAlike, ImageSettles
  <2>5. QED
    BY <1>1, <2>2, <2>4 DEF Beside
<1>2. CASE ~Writes(r)
  BY <1>2 DEF Beside
<1>3. QED
  BY <1>1, <1>2

LEMMA BesideClean ==
  ASSUME TypeOK, Steady, NEW r \in reqs, Writes(r) \/ db' = db
  PROVE  LoadsClean(Beside(r), db')
<1>. DEFINE R == reqs \ {r}
<1>1. CASE Writes(r)
  <2>1. R \in SUBSET ReqState /\ \A q \in R : Sane(q)
    BY DEF TypeOK, Steady
  <2>2. QED
    BY <1>1, <2>1, OvertakenClean DEF Beside
<1>2. CASE ~Writes(r)
  BY <1>2 DEF Beside, Steady, LoadsClean
<1>3. QED
  BY <1>1, <1>2

LEMMA ServeSteady == ASSUME TypeOK, Steady, NEW r \in reqs, Serve(r) PROVE Steady'
<1>1. r \in ReqState /\ r.phase = "sent" /\ Sane(r)
  BY DEF TypeOK, Serve, Steady
<1>2. UNCHANGED <<page, list, view, forms, del, excused>>
  BY DEF Serve
<1>3. Calm' <=> Calm
  BY <1>2 DEF Calm
<1>4. CASE /\ ~Refused(r)
           /\ \E s \in Served(r) : db' = s.db /\ reqs' = Beside(r) \cup {Answer(r, s)}
  <2>1. PICK s \in Served(r) : db' = s.db /\ reqs' = Beside(r) \cup {Answer(r, s)}
    BY <1>4
  <2>. DEFINE table == [i \in Id |-> IF r.kind = "load" \/ i = s.id THEN s.db[i] ELSE Gone]
  <2>2. PICK p : p = Answer(r, s)
    OBVIOUS
  <2>3. p = [r EXCEPT !.phase = "served", !.result = "ok", !.id = s.id, !.answer = table]
    BY <2>2 DEF Answer
  <2>4. s.db \in Table
    BY <1>4, ServedType
  <2>5. s.id \in Id => table[s.id] = s.db[s.id]
    OBVIOUS
  <2>6. r.kind = "load" => table = s.db
    BY <2>4 DEF Table
  <2>. HIDE DEF table
  <2>7. /\ p.kind = r.kind /\ p.deaf = r.deaf /\ p.form = r.form /\ p.shown = r.shown
        /\ p.id = s.id /\ p.result = "ok" /\ p.phase = "served"
        /\ p.answer = table
    BY <1>1, <2>3 DEF ReqState
  <2>8. r.kind \in {"patch", "delete", "select", "greeting"} => s.id = r.id
    BY DEF Served
  <2>9. Sane(p)
    <3>1. r.kind = "delete" => s.id = r.id /\ s.db = [db EXCEPT ![r.id] = Gone] /\ r.id \in Id
      BY <1>1 DEF Served, Sane
    <3>2. r.kind = "delete" => table[s.id] = Gone
      BY <2>5, <3>1 DEF TypeOK, Table
    <3>3. QED
      BY <1>1, <2>7, <2>8, <3>2 DEF Sane
  <2>10. Writes(r) \/ (db' = db /\ p.answer = db)
    BY <2>1, <2>6, <2>7 DEF Writes, Served
  <2>11. r.kind \in {"create", "patch"} => s.id \in Id /\ s.db[s.id] # Gone
    BY <1>1, <1>4, SavedRow
  <2>12. r.kind \in {"create", "patch"} => p.answer[s.id] = s.db[s.id]
    BY <2>5, <2>7, <2>11
  <2>13. p \in ReqState
    BY <2>1, <2>2, ServeType DEF TypeOK
  <2>14. Calm' => Settles(reqs', list', db')
    <3>1. Calm => Settles((reqs \ {r}) \cup {p}, list, s.db)
      BY <1>1, <1>4, <2>7, <2>12, ServedInStep
    <3>2. QED
      BY <1>2, <1>3, <2>1, <2>2, <2>7, <2>13, <3>1, BesideSettles
  <2>15. LoadsClean(Beside(r), db')
    BY <2>10, BesideClean
  <2>16. PICK g : Image(Beside(r), reqs \ {r}, g) /\ SameEars(reqs \ {r}, g)
    BY BesideAlike
  <2>17. QED
    BY <1>2, <2>1, <2>2, <2>7, <2>8, <2>9, <2>10, <2>11, <2>12, <2>14, <2>15, <2>16, ReplaceSteady
<1>5. CASE /\ reqs' = (reqs \ {r}) \cup {[r EXCEPT !.phase = "served", !.result = "refused"]}
           /\ UNCHANGED db
  <2>1. PICK p : p = [r EXCEPT !.phase = "served", !.result = "refused"]
    OBVIOUS
  <2>2. /\ p.kind = r.kind /\ p.deaf = r.deaf /\ p.form = r.form /\ p.shown = r.shown
        /\ p.id = r.id /\ p.result = "refused" /\ p.phase = "served"
        /\ p.body = r.body
    BY <1>1, <2>1 DEF ReqState
  <2>3. Sane(p) /\ r.result = "none"
    BY <1>1, <2>2 DEF Sane
  <2>4. Calm' => Settles(reqs', list', db')
    BY <1>2, <1>3, <1>5, <2>1, <2>2, <2>3, RefusedSettles DEF Steady
  <2>5. LoadsClean(reqs \ {r}, db')
    BY <1>5 DEF Steady, LoadsClean
  <2>6. PICK g : Image(reqs \ {r}, reqs \ {r}, g) /\ SameEars(reqs \ {r}, g)
    BY SelfAlike
  <2>7. QED
    BY <1>2, <1>5, <2>1, <2>2, <2>3, <2>4, <2>5, <2>6, ReplaceSteady
<1>6. QED
  BY <1>4, <1>5 DEF Serve

-----------------------------------------------------------------------------
(* An answer is heard.                                                     *)

LEMMA RestSteady ==
  ASSUME TypeOK, Steady, NEW r \in reqs, reqs' = Rest(r),
         UNCHANGED <<page, db, view, excused>>, del'.open => del.open,
         Calm => Settles(Rest(r), list', db), Answers => Dialogs'
  PROVE  Steady'
<1>1. Calm' <=> Calm
  BY DEF Calm
<1>2. LoadsClean(reqs', db')
  BY PartClean DEF Steady, Rest
<1>3. Views'
  BY DEF Steady, Views, Rest
<1>4. Calm' => InHand(reqs')
  BY <1>1 DEF Steady, InHand, Rest
<1>5. \A q \in reqs' : Sane(q)
  BY DEF Steady, Rest
<1>6. QED
  BY <1>1, <1>2, <1>3, <1>4, <1>5, SteadyNext

LEMMA RestDialogs ==
  ASSUME TypeOK, Dialogs, NEW r \in reqs, reqs' = Rest(r), view' = view, FormsKept,
         \A i \in Id : list[i] # Gone => list'[i] # Gone \/ \A f \in Slot : ~forms[f].open,
         del'.open => del.open,
         \A q \in Rest(r) : q.kind = "delete" /\ ~q.deaf => del'.open /\ del'.busy
  PROVE  Dialogs'
<1>1. FormEdits(forms["edit"])' /\ forms'["add"].id = New
  BY DEF Dialogs, FormEdits, FormsKept, Slot
<1>2. (\A q \in reqs : DialogRequest(q))'
  <2>1. \A q \in Rest(r) : DialogRequest(q)
    BY DEF Dialogs, Rest
  <2>2. QED
    BY <2>1 DEF DialogRequest
<1>3. OneAsks(reqs)'
  BY DEF Dialogs, OneAsks, Rest
<1>4. QED
  BY <1>1, <1>2, <1>3 DEF Dialogs, FormsKept

\* Nothing but the request goes.
LEMMA GoneSteady ==
  ASSUME TypeOK, Steady, NEW r \in reqs, reqs' = Rest(r),
         UNCHANGED <<page, db, view, excused, list, del>>, FormsKept,
         Calm => ~Writes(r) \/ (r.result # "ok" /\ r.kind # "select")
  PROVE  Steady'
<1>1. Calm => Settles(Rest(r), list', db)
  BY DropSettles DEF Steady, Rest
<1>2. ASSUME Answers PROVE Dialogs'
  <2>1. Dialogs
    BY <1>2 DEF Steady
  <2>2. \A q \in Rest(r) : q.kind = "delete" /\ ~q.deaf => del'.open /\ del'.busy
    BY <2>1 DEF Dialogs, DialogRequest, Rest
  <2>3. QED
    BY <2>1, <2>2, RestDialogs
<1>3. QED
  BY <1>1, <1>2, RestSteady

LEMMA ForgetSteady ==
  ASSUME TypeOK, Steady, NEW r \in reqs, Forget(r), UNCHANGED <<page, db>>
  PROVE  Steady'
<1>1. Calm => ~Writes(r)
  BY DEF Steady, InHand, Forget
<1>2. FormsKept
  BY DEF Forget, FormsKept
<1>3. QED
  BY <1>1, <1>2, GoneSteady DEF Forget

\* load() once more.
LEMMA LoadAgainSteady ==
  ASSUME TypeOK, Steady, NEW r \in reqs, ~r.deaf, LoadAgain(r),
         UNCHANGED <<page, db, view>>, ~Answers
  PROVE  Steady'
<1>. DEFINE Old == Orphaned(Rest(r), r.form)
<1>. SUFFICES ASSUME NEW p, p = Loading PROVE Steady'
  OBVIOUS
<1>1. reqs' = Old \cup {p} /\ excused' = TRUE
  BY DEF LoadAgain
<1>2. p.kind = "load" /\ p.phase = "sent" /\ p.result = "none"
  BY DEF Loading, Request
<1>3. PICK g : Image(Old, Rest(r), g) /\ SameEars(Rest(r), g)
  BY OrphansAlike DEF TypeOK, Rest
<1>. HIDE DEF Old
<1>4. LoadsClean(reqs', db')
  <2>1. LoadsClean(Rest(r), db)
    BY PartClean DEF Steady, Rest
  <2>2. LoadsClean(Old, db)
    BY <1>3, <2>1, ImageClean
  <2>3. QED
    BY <1>1, <1>2, <2>2, AddLoadClean
<1>5. \A q \in reqs' : Sane(q)
  <2>1. \A q \in Rest(r) : Sane(q)
    BY DEF Steady, Rest
  <2>2. \A q \in Old : Sane(q)
    BY <1>3, <2>1, ImageSane
  <2>3. Sane(p)
    BY <1>2 DEF Sane
  <2>4. QED
    BY <1>1, <2>2, <2>3
<1>6. Views' /\ ~Calm'
  BY <1>1 DEF Steady, Views, Calm
<1>7. QED
  BY <1>1, <1>4, <1>5, <1>6, SteadyNext

LEMMA CrashSteady ==
  ASSUME TypeOK, Steady, NEW r \in reqs, Crash(r), UNCHANGED <<page, db>>
  PROVE  Steady'
<1>. DEFINE Old == {[q EXCEPT !.deaf = TRUE] : q \in Rest(r)}
<1>1. /\ view' = "crashed" /\ forms' = [f \in Slot |-> ClosedForm] /\ del' = NoDelete
      /\ reqs' = Old
  BY DEF Crash
<1>2. PICK g : Image(Old, Rest(r), g)
  BY DeafAlike DEF TypeOK, Rest
<1>3. \A q \in Old : q.deaf
  BY AllDeaf DEF TypeOK, Rest
<1>. HIDE DEF Old
<1>4. LoadsClean(reqs', db') /\ \A q \in reqs' : Sane(q)
  <2>1. LoadsClean(Rest(r), db) /\ \A q \in Rest(r) : Sane(q)
    BY PartClean DEF Steady, Rest
  <2>2. QED
    BY <1>1, <1>2, <2>1, ImageClean, ImageSane
<1>5. Views' /\ ~Calm' /\ ~del'.open
  BY <1>1, <1>3 DEF Views, Calm, NoDelete
<1>6. ASSUME Answers PROVE Dialogs'
  <2>1. \A q \in Rest(r) : DialogRequest(q)
    BY <1>6 DEF Steady, Dialogs, Rest
  <2>2. \A q \in Old : DialogRequest(q)
    BY <1>2, <2>1, ImageDialog
  <2>3. (\A q \in reqs : DialogRequest(q))'
    BY <1>1, <1>3, <2>2 DEF DialogRequest
  <2>4. OneAsks(reqs)'
    BY <1>1, <1>3 DEF OneAsks
  <2>5. FormEdits(forms["edit"])' /\ forms'["add"].id = New
    BY <1>1 DEF FormEdits, ClosedForm, Slot
  <2>6. QED
    BY <1>5, <2>3, <2>4, <2>5 DEF Dialogs
<1>7. QED
  BY <1>4, <1>5, <1>6, SteadyNext

LEMMA HearLoadSteady ==
  ASSUME TypeOK, Steady, NEW r \in reqs, ~r.deaf, HearLoad(r), UNCHANGED <<page, db>>
  PROVE  Steady'
<1>1. CASE Crash(r)
  BY <1>1, CrashSteady
<1>2. CASE /\ view' = "shown"
           /\ r.result = "refused" => page = "presence_rules"
           /\ list' = IF Failed(r) THEN list ELSE r.answer
           /\ excused' = IF Failed(r) THEN excused ELSE ~r.clean \/ ~Orderly(Rest(r))
           /\ forms' = FormsAfterLoad(r)
           /\ reqs' = Rest(r)
           /\ UNCHANGED del
  <2>1. r.kind = "load" /\ ~Writes(r) /\ forms' = forms
    BY <1>2 DEF HearLoad, Writes, FormsAfterLoad
  <2>2. LoadsClean(reqs', db')
    BY <1>2, PartClean DEF Steady, Rest
  <2>3. \A q \in reqs' : Sane(q)
    BY <1>2 DEF Steady, Rest
  <2>4. view # "crashed" /\ Views'
    BY <1>2 DEF Steady, Views
  <2>5. ASSUME Calm' PROVE InHand(reqs') /\ Settles(reqs', list', db')
    <3>1. CASE Failed(r)
      <4>1. Calm
        BY <1>2, <2>4, <2>5, <3>1 DEF Steady, Views, Calm, TypeOK
      <4>2. Settles(Rest(r), list, db)
        BY <2>1, <4>1, DropSettles DEF Steady, Rest
      <4>3. InHand(reqs')
        BY <1>2, <4>1 DEF Steady, InHand, Rest
      <4>4. QED
        BY <1>2, <3>1, <4>2, <4>3
    <3>2. CASE ~Failed(r)
      <4>1. r.clean /\ r.result = "ok" /\ Orderly(Rest(r))
        BY <1>2, <2>5, <3>2 DEF Calm, Failed
      <4>2. list' = db /\ db' = db
        BY <1>2, <2>1, <3>2, <4>1 DEF Steady, LoadsClean
      <4>3. InHand(Rest(r)) /\ Settles(Rest(r), db, db)
        BY <4>1, OrderlySettles DEF Steady, Rest
      <4>4. QED
        BY <1>2, <4>2, <4>3
    <3>3. QED
      BY <3>1, <3>2
  <2>6. ASSUME Answers PROVE Dialogs'
    <3>1. Dialogs /\ view = "loading"
      BY <2>1, <2>6 DEF Steady, Dialogs, DialogRequest
    <3>2. FormEdits(forms["edit"])' /\ forms'["add"].id = New
      BY <2>1, <3>1 DEF Dialogs, FormEdits
    <3>3. \A q \in Rest(r) : DialogRequest(q) /\ ~(q.kind = "load" /\ ~q.deaf)
      BY <2>1, <3>1 DEF Dialogs, OneAsks, Rest
    <3>4. (\A q \in reqs : DialogRequest(q))'
      BY <1>2, <3>3 DEF DialogRequest
    <3>5. OneAsks(reqs)'
      BY <1>2, <3>1 DEF Dialogs, OneAsks, Rest
    <3>6. QED
      BY <1>2, <2>1, <3>1, <3>2, <3>4, <3>5 DEF Dialogs
  <2>7. QED
    BY <2>2, <2>3, <2>4, <2>5, <2>6, SteadyNext
<1>3. QED
  BY <1>1, <1>2 DEF HearLoad

LEMMA FreedForms == ASSUME TypeOK, NEW r, forms' = Freed(r) PROVE FormsKept
BY DEF TypeOK, FormState, Freed, FormsKept

\* A save is over.
LEMMA DoneSteady ==
  ASSUME TypeOK, Steady, NEW r \in reqs, ~r.deaf, NEW table, Done(r, table),
         UNCHANGED <<page, db, view, del>>,
         \/ r.kind \in {"create", "patch"} /\ r.result = "ok" /\ table = r.answer
         \/ r.kind = "greeting" /\ table = r.shown
  PROVE  Steady'
<1>1. CASE ~Answers
  <2>1. This.after = "load"
    BY <1>1, LoadPages DEF Answers, This, PageOf, Inbound, Schedules, Ivr, Page
  <2>2. QED
    BY <1>1, <2>1, LoadAgainSteady DEF Done
<1>2. CASE Answers
  <2>1. Dialogs /\ ~Inline /\ page # "presence_rules" /\ This.after # "load"
    BY <1>2, AnswerPages DEF Steady, Answers
  <2>2. /\ list' = Placed(table, r.id, r.form = "add") /\ reqs' = Orphaned(Rest(r), r.form)
        /\ excused' = excused
        /\ forms' = [forms EXCEPT ![r.form] = ClosedForm]
    BY <2>1 DEF Done, AtRest
  <2>3. \A h \in Slot : forms'[h] = IF h = r.form THEN ClosedForm ELSE forms[h]
    BY <2>2 DEF TypeOK
  <2>4. PICK g : Image(reqs', Rest(r), g) /\ SameEars(Rest(r), g)
    BY <2>2, OrphansAlike DEF TypeOK, Rest
  <2>5. LoadsClean(reqs', db') /\ \A q \in reqs' : Sane(q)
    <3>1. LoadsClean(Rest(r), db) /\ \A q \in Rest(r) : Sane(q)
      BY PartClean DEF Steady, Rest
    <3>2. QED
      BY <2>4, <3>1, ImageClean, ImageSane
  <2>6. \A p \in reqs' : \E q \in Rest(r) : Alike(p, q)
    BY <2>4 DEF Image
  <2>7. Views'
    BY <2>2, <2>6 DEF Steady, Views, Alike, Rest
  <2>8. ASSUME Calm' PROVE InHand(reqs') /\ Settles(reqs', list', db')
    <3>1. Calm /\ InHand(reqs) /\ Settles(reqs, list, db)
      BY <2>2, <2>8 DEF Calm, Steady
    <3>2. InHand(Rest(r))
      BY <3>1 DEF InHand, Rest
    <3>3. InHand(reqs')
      BY <2>4, <3>2, ImageInHand
    <3>4. r.kind \in {"create", "patch"} /\ r.result = "ok" /\ table = r.answer /\ Writes(r)
      BY <3>1 DEF InHand, Writes
    <3>5. r.id \in Id /\ (r.kind = "create" => r.form = "add")
      BY <2>1, <3>4 DEF Dialogs, DialogRequest
    <3>6. ~Behind(reqs)
      BY <1>2, <2>1 DEF Dialogs, DialogRequest, Behind, Reloads
    <3>7. r.kind = "patch" => list[r.id] # Gone
      BY <1>2, <3>1, <3>4, <3>6 DEF Settles, InStep, OnItsWay
    <3>8. list' = [list EXCEPT ![r.id] = r.answer[r.id]]
      BY <2>2, <3>4, <3>5, <3>7 DEF Placed
    <3>9. list \in Table /\ \A q \in reqs : Sane(q)
      BY DEF TypeOK, Steady
    <3>10. Settles(Rest(r), list', db)
      BY <1>2, <3>1, <3>4, <3>5, <3>8, <3>9, HeardSettles DEF Rest
    <3>11. QED
      BY <2>4, <3>3, <3>10, ImageSettles
  <2>9. Dialogs'
    <3>1. \A q \in Rest(r) : DialogRequest(q)
      BY <2>1 DEF Dialogs, Rest
    <3>2. OneAsks(Rest(r))
      BY <2>1 DEF Dialogs, OneAsks, Rest
    <3>3. (\A q \in reqs' : DialogRequest(q)) /\ OneAsks(reqs')
      BY <2>4, <3>1, <3>2, ImageDialog, ImageOneAsks
    <3>4. (\A q \in reqs : DialogRequest(q))' /\ OneAsks(reqs)'
      BY <3>3 DEF DialogRequest, OneAsks
    <3>5. table[r.id] # Gone
      BY <2>1 DEF Dialogs, DialogRequest
    <3>6. \A i \in Id : list[i] # Gone => list'[i] # Gone
      BY <2>2, <3>5 DEF Placed, TypeOK, Table
    <3>7. FormEdits(forms["edit"])' /\ forms'["add"].id = New
      BY <2>1, <2>3, <3>6 DEF Dialogs, FormEdits, ClosedForm, Slot
    <3>8. del'.open => \A f \in Slot : ~forms'[f].open
      BY <2>1, <2>3 DEF Dialogs, ClosedForm
    <3>9. QED
      BY <3>4, <3>7, <3>8 DEF Dialogs
  <2>10. QED
    BY <2>5, <2>7, <2>8, <2>9, SteadyNext
<1>3. QED
  BY <1>1, <1>2

\* The upload that follows a save.
LEMMA UploadSteady ==
  ASSUME TypeOK, Steady, NEW r \in reqs, ~r.deaf, r.kind \in {"create", "patch"}, r.result = "ok",
         NEW p, p = [r EXCEPT !.kind = "greeting", !.phase = "sent", !.result = "none",
                              !.shown = r.answer, !.answer = NoTable],
         reqs' = Rest(r) \cup {p}, excused' = TRUE,
         UNCHANGED <<page, db, view, del, list, forms>>
  PROVE  Steady'
<1>1. r \in ReqState
  BY DEF TypeOK
<1>2. /\ p.kind = "greeting" /\ p.phase = "sent" /\ p.result = "none" /\ p.shown = r.answer
      /\ p.id = r.id /\ p.deaf = FALSE
  BY <1>1 DEF ReqState
<1>5. LoadsClean(reqs', db')
  BY <1>2 DEF Steady, LoadsClean, Rest
<1>6. \A q \in reqs' : Sane(q)
  <2>1. \A q \in Rest(r) : Sane(q)
    BY DEF Steady, Rest
  <2>2. QED
    BY <1>2, <2>1 DEF Sane
<1>7. Views' /\ ~Calm'
  BY DEF Steady, Views, Calm
<1>8. ASSUME Answers PROVE Dialogs'
  <2>1. Dialogs
    BY <1>8 DEF Steady
  <2>2. (\A q \in Rest(r) : DialogRequest(q)) /\ OneAsks(Rest(r))
    BY <2>1 DEF Dialogs, OneAsks, Rest
  <2>4. DialogRequest(p)
    BY <1>2, <2>1 DEF Dialogs, DialogRequest
  <2>5. (\A q \in reqs : DialogRequest(q))'
    BY <2>2, <2>4 DEF DialogRequest
  <2>6. OneAsks(reqs)'
    BY <1>2, <2>2 DEF OneAsks
  <2>7. FormEdits(forms["edit"])'
    BY <2>1 DEF Dialogs, FormEdits
  <2>8. QED
    BY <2>1, <2>5, <2>6, <2>7 DEF Dialogs
<1>9. QED
  BY <1>5, <1>6, <1>7, <1>8, SteadyNext

LEMMA HearSaveSteady ==
  ASSUME TypeOK, Steady, NEW r \in reqs, ~r.deaf, HearSave(r), UNCHANGED <<page, db>>
  PROVE  Steady'
<1>1. r.kind \in {"create", "patch"} /\ UNCHANGED <<view, del>>
  BY DEF HearSave
<1>2. CASE Failed(r)
  <2>1. forms' = Freed(r) /\ reqs' = Rest(r) /\ UNCHANGED <<list, excused>>
    BY <1>2 DEF HearSave
  <2>2. QED
    BY <1>1, <1>2, <2>1, FreedForms, GoneSteady DEF Failed
<1>3. CASE ~Failed(r) /\ r.body.file
  BY <1>1, <1>3, UploadSteady DEF HearSave, Failed
<1>4. CASE ~Failed(r) /\ ~r.body.file
  BY <1>1, <1>4, DoneSteady DEF HearSave, Failed
<1>5. QED
  BY <1>2, <1>3, <1>4

LEMMA HearGreetingSteady ==
  ASSUME TypeOK, Steady, NEW r \in reqs, ~r.deaf, HearGreeting(r), UNCHANGED <<page, db>>
  PROVE  Steady'
<1>1. r.kind = "greeting" /\ UNCHANGED <<view, del>>
  BY DEF HearGreeting
<1>2. CASE r.result = "lost"
  <2>1. forms' = Freed(r) /\ reqs' = Rest(r) /\ UNCHANGED <<list, excused>>
    BY <1>2 DEF HearGreeting
  <2>2. QED
    BY <1>1, <1>2, <2>1, FreedForms, GoneSteady
<1>3. CASE r.result # "lost"
  BY <1>1, <1>3, DoneSteady DEF HearGreeting
<1>4. QED
  BY <1>2, <1>3

LEMMA HearDeleteSteady ==
  ASSUME TypeOK, Steady, NEW r \in reqs, ~r.deaf, HearDelete(r), UNCHANGED <<page, db>>
  PROVE  Steady'
<1>1. /\ r.kind = "delete" /\ reqs' = Rest(r) /\ UNCHANGED <<view, forms, excused>>
      /\ list' = IF Failed(r) THEN list ELSE [list EXCEPT ![r.id] = Gone]
  BY DEF HearDelete
<1>2. r.id \in Id /\ list \in Table /\ \A q \in reqs : Sane(q)
  BY <1>1 DEF Steady, Sane, TypeOK
<1>3. del'.open => del.open
  BY DEF HearDelete, TypeOK, NoDelete
<1>4. ASSUME Calm PROVE Settles(Rest(r), list', db)
  <2>1. Settles(reqs, list, db)
    BY <1>4 DEF Steady
  <2>2. CASE Failed(r)
    BY <1>1, <2>1, <2>2, DropSettles DEF Failed, Rest
  <2>3. CASE ~Failed(r)
    BY <1>1, <1>2, <2>1, <2>3, HeardSettles DEF Failed, Rest
  <2>4. QED
    BY <2>2, <2>3
<1>5. ASSUME Answers PROVE Dialogs'
  <2>1. Dialogs
    BY <1>5 DEF Steady
  <2>2. \A f \in Slot : ~forms[f].open
    BY <1>1, <2>1 DEF Dialogs, DialogRequest
  <2>3. \A q \in Rest(r) : ~(q.kind = "delete" /\ ~q.deaf)
    BY <1>1, <2>1 DEF Dialogs, OneAsks, Rest
  <2>4. FormsKept
    BY <1>1 DEF FormsKept
  <2>5. QED
    BY <1>1, <1>3, <2>1, <2>2, <2>3, <2>4, RestDialogs
<1>6. QED
  BY <1>1, <1>3, <1>4, <1>5, RestSteady

LEMMA HearSelectSteady ==
  ASSUME TypeOK, Steady, NEW r \in reqs, ~r.deaf, HearSelect(r), UNCHANGED <<page, db>>
  PROVE  Steady'
<1>1. /\ r.kind = "select" /\ reqs' = Rest(r) /\ UNCHANGED <<view, del, excused>>
      /\ list' = IF r.result = "ok" THEN list ELSE r.shown
  BY DEF HearSelect, Failed
<1>2. Calm => Settles(Rest(r), list', db)
  BY <1>1, SelectHeardSettles DEF Steady, Rest
<1>3. ~Answers
  BY <1>1 DEF Steady, Dialogs, DialogRequest
<1>4. QED
  BY <1>1, <1>2, <1>3, RestSteady

LEMMA HearImportSteady ==
  ASSUME TypeOK, Steady, NEW r \in reqs, ~r.deaf, HearImport(r), UNCHANGED <<page, db>>
  PROVE  Steady'
<1>1. r.kind = "import" /\ UNCHANGED <<list, view, forms, del>>
  BY DEF HearImport
<1>2. CASE Failed(r)
  <2>1. FormsKept
    BY <1>1 DEF FormsKept
  <2>2. QED
    BY <1>1, <1>2, <2>1, GoneSteady DEF HearImport, Failed
<1>3. CASE ~Failed(r)
  <2>1. ~Answers
    BY <1>1 DEF Steady, Dialogs, DialogRequest
  <2>2. QED
    BY <1>1, <1>3, <2>1, LoadAgainSteady DEF HearImport
<1>4. QED
  BY <1>2, <1>3

LEMMA HearUngreetSteady ==
  ASSUME TypeOK, Steady, NEW r \in reqs, HearUngreet(r), UNCHANGED <<page, db>>
  PROVE  Steady'
<1>1. r.kind = "ungreet" /\ reqs' = Rest(r) /\ UNCHANGED <<list, view, forms, del, excused>>
  BY DEF HearUngreet
<1>2. ~Calm /\ FormsKept
  BY <1>1 DEF Steady, InHand, Writes, FormsKept
<1>3. QED
  BY <1>1, <1>2, GoneSteady

LEMMA HearSteady == ASSUME TypeOK, Steady, NEW r \in reqs, Hear(r) PROVE Steady'
<1>1. UNCHANGED <<page, db>>
  BY DEF Hear
<1>2. QED
  BY <1>1, ForgetSteady, HearLoadSteady, HearSaveSteady, HearGreetingSteady, HearUngreetSteady,
     HearDeleteSteady, HearSelectSteady, HearImportSteady DEF Hear

-----------------------------------------------------------------------------
(* The copy.                                                               *)

LEMMA InitSteady == Init => Steady
<1>. SUFFICES ASSUME Init PROVE Steady
  OBVIOUS
<1>1. PICK r : reqs = {r} /\ r = Loading
  BY DEF Init
<1>2. r.kind = "load" /\ r.phase = "sent" /\ r.result = "none" /\ ~Writes(r)
  BY <1>1 DEF Loading, Request, Writes
<1>3. LoadsClean(reqs, db) /\ (\A q \in reqs : Sane(q)) /\ Views /\ ~Calm
  BY <1>1, <1>2 DEF Init, LoadsClean, Sane, Views, Calm
<1>4. ASSUME Answers PROVE Dialogs
  <2>1. forms = [f \in Slot |-> ClosedForm]
    BY <1>4, InitFits, AnswerPages DEF Init, FitInv, FormsAtRest
  <2>2. FormEdits(forms["edit"]) /\ forms["add"].id = New
    BY <2>1 DEF FormEdits, ClosedForm, Slot
  <2>3. (\A q \in reqs : DialogRequest(q)) /\ OneAsks(reqs)
    BY <1>1, <1>2 DEF Init, DialogRequest, OneAsks
  <2>4. ~del.open
    BY DEF Init, NoDelete
  <2>5. QED
    BY <2>2, <2>3, <2>4 DEF Dialogs
<1>5. QED
  BY <1>3, <1>4 DEF Steady

LEMMA NextSteady == TypeOK /\ Steady /\ [Next]_vars => Steady'
<1>1. ASSUME TypeOK, Steady, Next PROVE Steady'
  BY <1>1, UserSteady, OtherAdminSteady, ServeSteady, LoseSteady, HearSteady DEF Next
<1>2. ASSUME Steady, UNCHANGED vars PROVE Steady'
  BY <1>2 DEF vars, Steady, LoadsClean, Sane, Views, Calm, InHand, Settles, Behind, Reloads,
     InStep, Apart, OnItsWay, Kept, Brings, Dialogs, DialogRequest, OneAsks, FormEdits, Answers,
     This, Writes
<1>3. QED
  BY <1>1, <1>2

\* With nothing under way a page shows the table as it is stored, though loads and writes
\* overlap, unless the page is excused, be it by a load that a write has overtaken: on each of
\* the eleven pages, for tables of any size.
THEOREM ListStays == Spec => []ListIsStored
<1>1. ASSUME TypeOK, Steady PROVE ListIsStored
  <2>1. SUFFICES ASSUME reqs = {}, Calm PROVE list = db
    BY DEF ListIsStored, Calm
  <2>2. \A i \in Id : list[i] = db[i]
    BY <1>1, <2>1 DEF Steady, Settles, Behind, InStep, Kept
  <2>3. QED
    BY <1>1, <2>2 DEF TypeOK, Table
<1>2. Spec => []Steady
  BY InitSteady, NextSteady, TypeCorrect, PTL DEF Spec
<1>3. QED
  BY <1>1, <1>2, TypeCorrect, PTL

=============================================================================
