------------------------------ MODULE ListPages ------------------------------
(***************************************************************************)
(* The pages of the admin UI that show a table and let it be edited: ring  *)
(* groups, groups of extensions, routes, schedules and holidays, voice     *)
(* menus, outbound rules, phone numbers, forwarding rules, phonebook, desk *)
(* phones.  A page keeps its own copy of the table, loaded when it opens;  *)
(* every save, delete, import or switch is a fetch of its own, and the     *)
(* copy is brought up to date from its answer or by loading again.         *)
(*                                                                         *)
(* A fetch is sent, served and heard in three steps, in any order with the *)
(* others; it may be refused, and it or its answer may be lost.  The page  *)
(* is chosen in Init: what a page offers is a record per component.        *)
(***************************************************************************)
EXTENDS AdminForms, FiniteSets

CONSTANTS
    Pages,         \* the pages to look at
    MaxRows,       \* bound: rows a table can hold
    MaxReqs,       \* bound: requests under way when one is sent by hand
    Bounds         \* bounds of a page: forms opened, closed and sent, deletes, switches and
                   \* reloads (clicks), changes to drafts (touches), changes by another
                   \* admin (others)

ASSUME BoundAssumption ==
    /\ MaxRows \in Nat /\ MaxReqs \in Nat
    /\ Bounds \in [Pages -> [clicks : Nat, touches : Nat, others : Nat]]

VARIABLES
    page,          \* the page that is open
    db,            \* the table the backend has: [Id -> row, or Gone]
    list,          \* the page's copy of it
    view,          \* "loading", "shown", or "crashed"
    forms,         \* the form that adds and the one that edits
    del,           \* the dialog that asks before a row is deleted
    reqs,          \* the page's requests
    clicks, touches, others,   \* counters for the bounds
    excused        \* history: why the copy may differ from the table

vars == <<page, db, list, view, forms, del, reqs, clicks, touches, others, excused>>

Id == 1 .. MaxRows
New == 0
Gone == [gone |-> TRUE]
NoTable == [i \in Id |-> Gone]
Slot == {"add", "edit"}

-----------------------------------------------------------------------------
(* What each page offers.                                                  *)

\* The forms that add and edit a row (one form for both, when shared); how a save gets
\* into the copy: its "answer" is put in, or the table is loaded again ("load"); whether
\* a delete is asked about first; whether a file can be imported; whether the rows have
\* a select that saves at once.
Page(add, edit, shared, after, confirms, imports, selects) ==
    [add |-> add, edit |-> edit, shared |-> shared, after |-> after,
     confirms |-> confirms, imports |-> imports, selects |-> selects]

RingGroupsSection == Page(AddGroupRow, EditGroupRow, FALSE, "load", TRUE, FALSE, FALSE)
ExtensionGroupsSection ==
    Page(ExtensionGroupRow, ExtensionGroupRow, FALSE, "load", TRUE, FALSE, FALSE)
HolidaysSection == Page(AddHolidayRow, NoForm, FALSE, "load", TRUE, TRUE, FALSE)
OutboundRulesSection == Page(AddRuleRow, NoForm, FALSE, "load", TRUE, FALSE, TRUE)
TrunkDidsSection == Page(AddDidRow, NoForm, FALSE, "load", TRUE, FALSE, FALSE)
PresenceRules == Page(PresenceRuleForm, NoForm, FALSE, "load", FALSE, FALSE, FALSE)
Phonebook == Page(EntryForm, EntryForm, TRUE, "load", TRUE, TRUE, FALSE)
Inbound == Page(AddRouteDialog, EditRouteDialog, FALSE, "answer", TRUE, FALSE, FALSE)
Schedules ==
    Page(AddTimeConditionDialog, EditTimeConditionDialog, FALSE, "answer", TRUE, FALSE, FALSE)
Ivr == Page(AddIvrDialog, EditIvrDialog, FALSE, "answer", TRUE, FALSE, FALSE)
Devices == Page(DeviceDialog, DeviceDialog, TRUE, "load", TRUE, FALSE, FALSE)

PageOf ==
    [ring_groups |-> RingGroupsSection, extension_groups |-> ExtensionGroupsSection,
     holidays |-> HolidaysSection, outbound_rules |-> OutboundRulesSection,
     trunk_dids |-> TrunkDidsSection, presence_rules |-> PresenceRules,
     phonebook |-> Phonebook, inbound |-> Inbound, schedules |-> Schedules,
     ivr |-> Ivr, devices |-> Devices]

ASSUME PagesAssumption == Pages \subseteq DOMAIN PageOf

This == PageOf[page]
FormOf(f) == IF f = "add" THEN This.add ELSE This.edit
AddSlot == IF This.shared THEN "edit" ELSE "add"
Inline == ~This.add.modal

ClosedForm == [open |-> FALSE, id |-> New, draft |-> Blank, from |-> Blank, touched |-> {},
               busy |-> FALSE]
EmptyForm == [ClosedForm EXCEPT !.open = TRUE, !.draft = This.add.start]

\* What a slot shows when nothing is being edited: the row for a new entry is always there.
AtRest(f) == IF Inline /\ f = AddSlot THEN EmptyForm ELSE ClosedForm
FormsAtRest == [f \in Slot |-> AtRest(f)]
NoDelete == [open |-> FALSE, id |-> New, busy |-> FALSE]

\* A dialog covers the page.
Covered == del.open \/ (~Inline /\ \E f \in Slot : forms[f].open)
Click == clicks < Bounds[page].clicks /\ clicks' = clicks + 1
Touch == touches < Bounds[page].touches /\ touches' = touches + 1
Room == Cardinality(reqs) < MaxReqs

\* Both forms of an inline page share one flag; a dialog has its own, and a row that is
\* edited in the table is there only as long as the table shows it.
Saving(f) == IF Inline THEN \E g \in Slot : forms[g].busy ELSE forms[f].busy
OnScreen(f) == /\ forms[f].open
               /\ view = "shown" \/ (~Inline /\ view = "loading")
               /\ ~del.open
               /\ Inline /\ ~This.shared /\ forms[f].id # New => list[forms[f].id] # Gone
EditedInPlace(i) == Inline /\ ~This.shared /\ forms.edit.open /\ forms.edit.id = i

-----------------------------------------------------------------------------
(* Requests.                                                               *)

\* form is the slot a save came from, mine says that this very form is still open, deaf
\* that the page which sent it is gone; shown is the copy as it was; clean says of a load
\* that nothing has been written since it was served.  Requests alike in everything, as two
\* loads that have just been sent, count as one.
Request(kind, id, f, form) ==
    [kind |-> kind, id |-> id, form |-> f, body |-> form.draft, from |-> form.from,
     touched |-> form.touched, mine |-> TRUE, deaf |-> FALSE, shown |-> NoTable, clean |-> TRUE,
     phase |-> "sent", result |-> "none", answer |-> NoTable]

Writes(r) == r.kind # "load"
Loading == Request("load", New, "add", ClosedForm)
\* The dialog in slot f is gone; an inline form stays where it is.
Orphaned(rs, f) == {IF q.form = f THEN [q EXCEPT !.mine = Inline] ELSE q : q \in rs}
\* The table has been written: the loads that were served before have been overtaken.
Overtaken(rs) ==
    {IF Writes(q) \/ q.phase = "sent" THEN q ELSE [q EXCEPT !.clean = FALSE] : q \in rs}
Beside(r) == IF Writes(r) THEN Overtaken(reqs \ {r}) ELSE reqs \ {r}

\* Two writes of one row at once; a delete and a create, whose row may get the id that
\* has come free; anything beside a select, which may put the whole copy back.
Clashing(q, r) == /\ Writes(q)
                  /\ \/ q.id = r.id /\ r.id # New
                     \/ {q.kind, r.kind} = {"create", "delete"}
                     \/ "select" \in {q.kind, r.kind}

Write(r) ==
    /\ reqs' = reqs \cup {r}
    /\ excused' = (excused \/ \E q \in reqs : Clashing(q, r))

\* The writes that are under way when a load is heard will keep the copy up to date: each
\* is to be heard, has its row to itself and finds it, and no select is still to be made.
Orderly(rs) ==
    \A r \in rs : Writes(r) =>
      /\ ~r.deaf /\ r.result # "lost" /\ r.kind \notin {"greeting", "ungreet"}
      /\ \A q \in rs \ {r} : ~Clashing(q, r)
      /\ IF r.result = "ok" THEN r.id # New => r.answer[r.id] = db[r.id]
         ELSE r.kind # "select" /\ (r.id # New => db[r.id] # Gone)

-----------------------------------------------------------------------------
(* The backend.                                                            *)

\* _validate_option_targets of a menu's options.
OptionsFit(options) == \A i \in DOMAIN options : Fits(options[i].dest, "number")

Refused(r) ==
    \/ r.kind \in {"patch", "select", "delete", "greeting", "ungreet"} /\ db[r.id] = Gone
    \/ r.kind \in {"create", "patch"} /\ ~OptionsFit(r.body.options)

\* What the table may be when the request has been served, and the row it was about.  A
\* forwarding rule takes the place of the one for the same status.
Served(r) ==
    CASE r.kind = "create" ->
           {[id |-> i, db |-> [db EXCEPT ![i] = Stored(This.add, r.body, Blank)]]
              : i \in {i \in Id : db[i] = Gone \/ page = "presence_rules"}}
      [] r.kind = "patch" ->
           {[id |-> r.id, db |-> [db EXCEPT ![r.id] = Stored(This.edit, r.body, @)]]}
      [] r.kind = "select" -> {[id |-> r.id, db |-> [db EXCEPT ![r.id].cid = r.body.cid]]}
      [] r.kind = "greeting" -> {[id |-> r.id, db |-> [db EXCEPT ![r.id].file = TRUE]]}
      [] r.kind = "ungreet" -> {[id |-> r.id, db |-> [db EXCEPT ![r.id].file = FALSE]]}
      [] r.kind = "delete" -> {[id |-> r.id, db |-> [db EXCEPT ![r.id] = Gone]]}
      [] r.kind = "import" ->
           {[id |-> New, db |-> [db EXCEPT ![i] = [Blank EXCEPT !.text = "b"]]] : i \in Id}
      [] OTHER -> {[id |-> New, db |-> db]}

Answer(r, s) ==
    [r EXCEPT !.phase = "served", !.result = "ok", !.id = s.id,
              !.answer = [i \in Id |-> IF r.kind = "load" \/ i = s.id THEN s.db[i] ELSE Gone]]

Serve(r) ==
    /\ r.phase = "sent"
    /\ \/ ~Refused(r) /\ \E s \in Served(r) :
            /\ db' = s.db
            /\ reqs' = Beside(r) \cup {Answer(r, s)}
       \/ reqs' = (reqs \ {r}) \cup {[r EXCEPT !.phase = "served", !.result = "refused"]}
          /\ UNCHANGED db
    /\ UNCHANGED <<page, list, view, forms, del, clicks, touches, others, excused>>

\* The connection breaks before the backend has seen the request, or after.
Lose(r) ==
    /\ r.result # "lost" /\ (r.phase = "sent" \/ ~r.deaf)
    /\ reqs' = (reqs \ {r})
                 \cup {[r EXCEPT !.phase = "served", !.result = "lost", !.answer = NoTable]}
    /\ excused' = (excused \/ Writes(r))
    /\ UNCHANGED <<page, db, list, view, forms, del, clicks, touches, others>>

\* Another admin, on a page of their own, or a phone with the phonebook.
OtherAdmin(i) ==
    /\ others < Bounds[page].others /\ others' = others + 1
    /\ db[i] # Gone
    /\ \/ db' = [db EXCEPT ![i] = Gone]
       \/ \E t \in Text \ {"", db[i].text} : db' = [db EXCEPT ![i].text = t]
    /\ reqs' = Overtaken(reqs)
    /\ excused' = TRUE
    /\ UNCHANGED <<page, list, view, forms, del, clicks, touches>>

-----------------------------------------------------------------------------
(* The forms.                                                              *)

\* The button that opens the empty dialog.
OpenAdd ==
    /\ ~Inline /\ ~Covered /\ view # "crashed"
    /\ Click
    /\ forms' = [forms EXCEPT ![AddSlot] = EmptyForm]
    /\ UNCHANGED <<page, db, list, view, del, reqs, touches, others, excused>>

\* startEdit: an inline page lets another row be opened while a save is under way.
StartEdit(i) ==
    /\ This.edit # NoForm
    /\ view = "shown" /\ ~Covered /\ list[i] # Gone /\ ~EditedInPlace(i)
    /\ Click
    /\ forms' = [forms EXCEPT !.edit =
                   [open |-> TRUE, id |-> i, draft |-> Opened(This.edit, list[i]),
                    from |-> list[i], touched |-> {}, busy |-> Inline /\ @.busy]]
    /\ UNCHANGED <<page, db, list, view, del, reqs, touches, others, excused>>

\* cancelEdit, and closing a dialog, which can be done while it saves.
CloseForm(f) ==
    /\ OnScreen(f)
    /\ Inline => forms[f].id # New
    /\ Inline /\ ~This.shared => ~Saving(f)
    /\ Click
    /\ forms' = [forms EXCEPT ![f] = [AtRest(f) EXCEPT !.busy = Inline /\ forms[f].busy]]
    /\ reqs' = Orphaned(reqs, f)
    /\ UNCHANGED <<page, db, list, view, del, touches, others, excused>>

\* One change to a draft, whichever control it has been made with.
Changed(f, field, draft) ==
    /\ OnScreen(f) /\ field \in FormOf(f).controls
    /\ Touch
    /\ forms' = [forms EXCEPT ![f].draft = draft, ![f].touched = @ \cup {field}]
    /\ UNCHANGED <<page, db, list, view, del, reqs, clicks, others, excused>>

Type(f, t) == t # "" /\ t # forms[f].draft.text
              /\ Changed(f, "text", [forms[f].draft EXCEPT !.text = t])
ToggleMember(f, m) ==
    LET ms == forms[f].draft.members IN
    Changed(f, "members", [forms[f].draft EXCEPT !.members = (ms \cup {m}) \ (ms \cap {m})])
ToggleDay(f, d) == Changed(f, "days", [forms[f].draft EXCEPT !.days = toggleDay(@, d)])
PickCid(f) == Changed(f, "cid", [forms[f].draft EXCEPT !.cid = ~@])
PickFile(f) == ~forms[f].draft.file /\ Changed(f, "file", [forms[f].draft EXCEPT !.file = TRUE])

\* What DestinationField can turn a destination into.
Choices(dest, keyBy) ==
    {WithType(dest, t) : t \in DestinationType \ {dest.type}}
      \cup {[dest EXCEPT !.target = x] : x \in getTargetOptions(dest.type, keyBy)}
Choose(f) ==
    \E d \in Choices(forms[f].draft.dest, FormOf(f).keyBy) :
      Changed(f, "dest", [forms[f].draft EXCEPT !.dest = d])
EditOptions(f) ==
    LET os == forms[f].draft.options IN
    \E new \in {addOption(os)} \cup {removeOption(os, i) : i \in DOMAIN os}
                 \cup UNION {{updateOptionFields(os, i, d) : d \in Choices(os[i].dest, FormOf(f).keyBy)}
                              : i \in DOMAIN os} :
      Changed(f, "options", [forms[f].draft EXCEPT !.options = new])

Edit(f) ==
    \/ \E t \in Text : Type(f, t)
    \/ \E m \in Member : ToggleMember(f, m)
    \/ \E d \in Day : ToggleDay(f, d)
    \/ PickCid(f) \/ PickFile(f) \/ Choose(f) \/ EditOptions(f)

\* The handler behind a form's button, up to its fetch.
Submit(f) ==
    LET form == forms[f]
        kind == IF form.id = New THEN "create" ELSE "patch"
    IN
    /\ OnScreen(f) /\ ~Saving(f) /\ Complete(FormOf(f), form.draft)
    /\ Click /\ Room
    /\ forms' = [forms EXCEPT ![f].busy = TRUE]
    /\ Write(Request(kind, form.id, f, form))
    /\ UNCHANGED <<page, db, list, view, del, touches, others>>

\* deleteGreeting, in the dialog that edits a menu: the list keeps what it shows.
DropGreeting ==
    /\ page = "ivr" /\ OnScreen("edit") /\ forms.edit.from.file
    /\ Click /\ Room
    /\ reqs' = reqs \cup {Request("ungreet", forms.edit.id, "none", ClosedForm)}
    /\ excused' = TRUE
    /\ UNCHANGED <<page, db, list, view, forms, del, touches, others>>

-----------------------------------------------------------------------------
(* Rows.                                                                   *)

AskDelete(i) ==
    /\ This.confirms /\ view = "shown" /\ ~Covered /\ list[i] # Gone /\ ~EditedInPlace(i)
    /\ Click
    /\ del' = [open |-> TRUE, id |-> i, busy |-> FALSE]
    /\ UNCHANGED <<page, db, list, view, forms, reqs, touches, others, excused>>

KeepRow ==
    /\ del.open /\ ~del.busy
    /\ del' = NoDelete
    /\ UNCHANGED <<page, db, list, view, forms, reqs, clicks, touches, others, excused>>

\* The rest of a delete's handler up to its fetch, from the dialog or from the row.
Delete(i) ==
    /\ Click /\ Room
    /\ IF This.confirms
       THEN del.open /\ del.id = i /\ ~del.busy /\ del' = [del EXCEPT !.busy = TRUE]
       ELSE view = "shown" /\ list[i] # Gone /\ UNCHANGED del
    /\ Write(Request("delete", i, "none", ClosedForm))
    /\ UNCHANGED <<page, db, list, view, forms, touches, others>>

\* updateRuleCid: the row shows the choice at once.
Select(i) ==
    /\ This.selects /\ view = "shown" /\ ~Covered /\ list[i] # Gone
    /\ Click /\ Room
    /\ list' = [list EXCEPT ![i].cid = ~@]
    /\ Write([Request("select", i, "none", ClosedForm)
                EXCEPT !.body.cid = ~list[i].cid, !.shown = list])
    /\ UNCHANGED <<page, db, view, forms, del, touches, others>>

\* importCsv, one file at a time.
Import ==
    /\ This.imports /\ view # "crashed" /\ ~Covered
    /\ \A q \in reqs : q.kind = "import" => q.deaf
    /\ Click /\ Room
    /\ Write(Request("import", New, "none", ClosedForm))
    /\ UNCHANGED <<page, db, list, view, forms, del, touches, others>>

\* The page is opened again, also from the panel that a crash leaves behind.
Reload ==
    /\ Click
    /\ view' = "loading" /\ list' = NoTable /\ forms' = FormsAtRest /\ del' = NoDelete
    /\ reqs' = {[q EXCEPT !.deaf = TRUE] : q \in reqs} \cup {Loading}
    /\ excused' = TRUE
    /\ UNCHANGED <<page, db, touches, others>>

-----------------------------------------------------------------------------
(* The answers.                                                            *)

Failed(r) == r.result # "ok"
Rest(r) == reqs \ {r}

\* load() once more; the copy is behind until it is heard.
LoadAgain(r) ==
    /\ reqs' = Orphaned(Rest(r), r.form) \cup {Loading}
    /\ excused' = TRUE

\* A load that is refused answers with no table: React fails to render one, and the
\* page comes down.  PresenceRules notices, unless its other fetches are refused too.
Crash(r) ==
    /\ view' = "crashed" /\ forms' = [f \in Slot |-> ClosedForm] /\ del' = NoDelete
    /\ reqs' = {[q EXCEPT !.deaf = TRUE] : q \in Rest(r)}
    /\ UNCHANGED <<list, excused>>

\* Mutant: the forms start over when the table comes.
FormsReset(r) == FormsAtRest
FormsAfterLoad(r) == forms

HearLoad(r) ==
    /\ r.kind = "load"
    /\ \/ r.result = "refused" /\ Crash(r)
       \/ /\ r.result = "refused" => page = "presence_rules"
          /\ view' = "shown"
          /\ list' = IF Failed(r) THEN list ELSE r.answer
          /\ excused' = IF Failed(r) THEN excused ELSE ~r.clean \/ ~Orderly(Rest(r))
          /\ forms' = FormsAfterLoad(r)
          /\ reqs' = Rest(r)
          /\ UNCHANGED del

\* What a save's answer does to the copy: a new row is appended, one that was edited
\* takes the place of the row with its id.  Mutant: only what is new gets in.
OnlyNew(table, id, isNew) == IF isNew THEN [list EXCEPT ![id] = table[id]] ELSE list
Placed(table, id, isNew) ==
    IF isNew \/ list[id] # Gone THEN [list EXCEPT ![id] = table[id]] ELSE list

\* The finally blocks: a form is free again, if it is still there.
\* Mutant: only a success frees it.
StillStuck(r) == forms
Freed(r) == IF Inline \/ r.mine THEN [forms EXCEPT ![r.form].busy = FALSE] ELSE forms

\* A save is over: its form goes back to rest, and with it any dialog that has been
\* opened in its place since.  The form for forwarding rules keeps what it shows.
Done(r, table) ==
    /\ forms' = [forms EXCEPT ![r.form] =
                   IF page = "presence_rules" THEN [@ EXCEPT !.busy = FALSE, !.touched = {}]
                   ELSE AtRest(r.form)]
    /\ IF This.after = "load"
       THEN LoadAgain(r) /\ UNCHANGED list
       ELSE /\ list' = Placed(table, r.id, r.form = "add")
            /\ reqs' = Orphaned(Rest(r), r.form)
            /\ UNCHANGED excused

\* A menu's greeting is uploaded once the menu itself has been saved.
HearSave(r) ==
    /\ r.kind \in {"create", "patch"}
    /\ IF Failed(r)
       THEN forms' = Freed(r) /\ reqs' = Rest(r) /\ UNCHANGED <<list, excused>>
       ELSE IF r.body.file
       THEN /\ reqs' = Rest(r)
                         \cup {[r EXCEPT !.kind = "greeting", !.phase = "sent", !.result = "none",
                                         !.shown = r.answer, !.answer = NoTable]}
            /\ excused' = TRUE
            /\ UNCHANGED <<list, forms>>
       ELSE Done(r, r.answer)
    /\ UNCHANGED <<view, del>>

\* Nobody looks at what the upload answers; the row that is listed is the one from before.
HearGreeting(r) ==
    /\ r.kind = "greeting"
    /\ IF r.result = "lost"
       THEN forms' = Freed(r) /\ reqs' = Rest(r) /\ UNCHANGED <<list, excused>>
       ELSE Done(r, r.shown)
    /\ UNCHANGED <<view, del>>

\* A delete's dialog closes, or stays for another try.
HearDelete(r) ==
    /\ r.kind = "delete"
    /\ list' = IF Failed(r) THEN list ELSE [list EXCEPT ![r.id] = Gone]
    /\ del' = IF ~This.confirms THEN del
              ELSE IF Failed(r) THEN [del EXCEPT !.busy = FALSE] ELSE NoDelete
    /\ reqs' = Rest(r)
    /\ UNCHANGED <<view, forms, excused>>

\* A select that fails puts back the copy it was made on.
HearSelect(r) ==
    /\ r.kind = "select"
    /\ list' = IF Failed(r) THEN r.shown ELSE list
    /\ reqs' = Rest(r)
    /\ UNCHANGED <<view, forms, del, excused>>

HearImport(r) ==
    /\ r.kind = "import"
    /\ IF Failed(r) THEN reqs' = Rest(r) /\ UNCHANGED excused ELSE LoadAgain(r)
    /\ UNCHANGED <<list, view, forms, del>>

\* Nobody looks at this answer either.
HearUngreet(r) == r.kind = "ungreet" /\ reqs' = Rest(r) /\ UNCHANGED <<list, view, forms, del, excused>>

\* The page that sent the request has gone.
Forget(r) == r.deaf /\ reqs' = Rest(r) /\ UNCHANGED <<list, view, forms, del, excused>>

Hear(r) ==
    /\ r.phase = "served"
    /\ \/ Forget(r)
       \/ ~r.deaf /\ (HearLoad(r) \/ HearSave(r) \/ HearGreeting(r)
                        \/ HearUngreet(r) \/ HearDelete(r) \/ HearSelect(r) \/ HearImport(r))
    /\ UNCHANGED <<page, db, clicks, touches, others>>

-----------------------------------------------------------------------------
(* The specification.  The table has one row when the page opens, possibly *)
(* written by an import, the API or an earlier release: its days need not  *)
(* be worded the way the picker words them.                                *)

Sample == [Blank EXCEPT !.text = "a"]
Wordings == {{<<0, Week - 1>>}, {<<Week - 1, 0>>}, {<<1, 1>>, <<Week, Week>>}}
SampleRows ==
    CASE page = "schedules" ->
           {[Sample EXCEPT !.days = w, !.dest = [type |-> "hangup", target |-> Nobody]]
              : w \in Wordings}
      [] page = "inbound" ->
           {[Sample EXCEPT !.dest = [type |-> "ring_group", target |-> g]] : g \in GroupId}
      [] page = "ivr" ->
           {[Sample EXCEPT !.file = TRUE,
                           !.options = <<[key |-> 1, dest |-> [type |-> "ring_group", target |-> g]]>>]
              : g \in GroupNumber}
      [] page \in {"ring_groups", "extension_groups", "devices"} ->
           {[Sample EXCEPT !.members = {m}] : m \in Member}
      [] OTHER -> {Sample}

Init ==
    /\ page \in Pages
    /\ \E row \in SampleRows : db = [i \in Id |-> IF i = 1 THEN row ELSE Gone]
    /\ list = NoTable /\ view = "loading"
    /\ forms = FormsAtRest /\ del = NoDelete
    /\ reqs = {Loading}
    /\ clicks = 0 /\ touches = 0 /\ others = 0
    /\ excused = TRUE

User ==
    \/ OpenAdd \/ DropGreeting \/ KeepRow \/ Import \/ Reload
    \/ \E i \in Id : StartEdit(i) \/ AskDelete(i) \/ Delete(i) \/ Select(i)
    \/ \E f \in Slot : Edit(f) \/ Submit(f) \/ CloseForm(f)

Next ==
    \/ User
    \/ \E i \in Id : OtherAdmin(i)
    \/ \E r \in reqs : Serve(r) \/ Lose(r) \/ Hear(r)

Spec == Init /\ [][Next]_vars

\* A fetch settles sooner or later, with an answer or an error, and its handler runs on.
Fairness == WF_vars(\E r \in reqs : Serve(r) \/ Lose(r) \/ Hear(r))
FairSpec == Spec /\ Fairness

-----------------------------------------------------------------------------
(* Properties.                                                             *)

Row == [text : Text, members : SUBSET Member, days : SUBSET Token, dest : Destination,
        options : Seq([key : Nat \ {0}, dest : Destination]), cid : BOOLEAN, file : BOOLEAN]
Table == [Id -> Row \cup {Gone}]
FormState == [open : BOOLEAN, id : Id \cup {New}, draft : Row, from : Row,
              touched : SUBSET Field, busy : BOOLEAN]
ReqState == [kind : {"load", "create", "patch", "greeting", "ungreet", "delete", "select", "import"},
             id : Id \cup {New}, form : Slot \cup {"none"}, body : Row, from : Row,
             touched : SUBSET Field, mine : BOOLEAN, deaf : BOOLEAN, shown : Table,
             clean : BOOLEAN, phase : {"sent", "served"},
             result : {"none", "ok", "refused", "lost"}, answer : Table]

\* Every variable keeps its type: drafts, tables and the bodies of requests are rows of
\* the kind the backend stores.
TypeOK ==
    /\ page \in Pages /\ db \in Table /\ list \in Table
    /\ view \in {"loading", "shown", "crashed"}
    /\ forms \in [Slot -> FormState]
    /\ del \in [open : BOOLEAN, id : Id \cup {New}, busy : BOOLEAN]
    /\ reqs \subseteq ReqState
    /\ clicks \in Nat /\ touches \in Nat /\ others \in Nat
    /\ excused \in BOOLEAN

\* With nothing under way a page shows the table as it is stored, though loads and writes
\* overlap: a load brings what it was served, a write what it changed.  Excused are, until
\* the next load: changes by others; requests that broke off; two writes that touch one
\* row at once, or anything beside a select; a menu's greeting; and a load that is heard
\* after a write which was served later than the load was.  The pages have no way to tell:
\* a row shows again although its delete has been answered.
ListIsStored == reqs = {} /\ view = "shown" /\ ~excused => list = db

\* A route or schedule never stores a target of another kind than its type says, which
\* the backend would dial as it is: the type of a destination can be changed at will
\* before it is saved, and routes name groups by id where menus name them by number.
TargetFitsType ==
    page \in {"inbound", "schedules"} => \A i \in Id : db[i] # Gone => Fits(db[i].dest, "id")

\* Saving an edited row changes the fields the user touched and no others, whatever
\* wording they had, as long as the row is still the one the form was opened on.
OnlyTouchedFieldsChange ==
    [][\A r \in reqs : r.kind = "patch" /\ db[r.id] = r.from /\ Serve(r) =>
         \A f \in Field \ r.touched : db'[r.id][f] = db[r.id][f]]_vars

\* A click in the picker of weekdays turns exactly one day on or off: ranges over the
\* weekend and words it does not know are written anew without gaining or losing a day.
OneDayAtATime ==
    [][\A f \in Slot :
         LET before == parseDays(forms[f].draft.days)
             after == parseDays(forms'[f].draft.days)
         IN  touches' # touches /\ forms'[f].draft.days # forms[f].draft.days =>
               \E d \in Day : (before \ after) \cup (after \ before) = {d}]_vars

\* What the user has typed goes away by the user's own doing, by a save of that form
\* that succeeded, or with the whole page: never by a table that arrives.
DraftSurvives ==
    [][\A f \in Slot :
         /\ forms[f].open /\ forms[f].touched # {}
         /\ forms'[f].draft # forms[f].draft \/ ~forms'[f].open
         => \/ clicks' # clicks \/ touches' # touches
            \/ view' = "crashed"
            \/ \E r \in reqs : r.form = f /\ Writes(r) /\ r.phase = "served" /\ Hear(r)]_vars

\* A button is disabled only as long as a request is under way whose end enables it again,
\* whatever has been closed, opened and sent meanwhile: the answer to a dialog that has
\* gone frees no other.
Frees(r, f) == /\ r.kind \in {"create", "patch", "greeting"} /\ r.form = f
               /\ ~r.deaf /\ (Inline \/ r.mine)
BusyIsUnderWay ==
    /\ \A f \in Slot : forms[f].busy => \E r \in reqs : Frees(r, f)
    /\ del.busy => \E r \in reqs : r.kind = "delete" /\ ~r.deaf

\* No button stays disabled: once the user leaves the page alone, no form is saving and no
\* dialog deleting for good, whether the requests were answered, refused or lost.
FormsComeBack == <>[](~del.busy /\ \A f \in Slot : ~forms[f].busy)

=============================================================================
