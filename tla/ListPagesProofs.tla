-------------------------- MODULE ListPagesProofs --------------------------
(***************************************************************************)
(* For any pages, tables and bounds: the wording of weekdays loses none of *)
(* them and a click in the picker changes one, every variable keeps its    *)
(* type, no route or schedule stores a target of another kind than its     *)
(* type says, a save changes what was touched, what has been typed does    *)
(* not go with a table that arrives, and a button is disabled only while   *)
(* a request that enables it again is under way.                           *)
(***************************************************************************)
EXTENDS ListPages, SequenceTheorems, WellFoundedInduction, TLAPS

-----------------------------------------------------------------------------
(* The picker of weekdays, for any length of a week: what it writes reads  *)
(* back as the same days, so a click changes exactly one of them.          *)

\* A set of naturals that is not empty has a least element.
LEMMA Least ==
  ASSUME NEW T, T \subseteq Nat, T # {}
  PROVE  \E x \in T : \A y \in T : x <= y
<1>1. PICK x \in T : \A y \in T : ~ (<<y, x>> \in OpToRel(<, Nat))
  BY NatLessThanWellFounded, WFMin, Zenon
<1>2. \A y \in T : ~(y < x)
  BY <1>1 DEF OpToRel
<1>3. QED
  BY <1>2

\* ... and a set of days a last one.
LEMMA Greatest ==
  ASSUME NEW T, T \subseteq Day, T # {}
  PROVE  \E x \in T : \A y \in T : y <= x
<1>. DEFINE M == {Week - y : y \in T}
<1>1. \A y \in T : Week - y \in Nat
  BY WeekAssumption DEF Day
<1>2. M \subseteq Nat /\ M # {}
  BY <1>1
<1>. HIDE DEF M
<1>3. PICK m \in M : \A y \in M : m <= y
  BY <1>2, Least
<1>. USE DEF M
<1>4. PICK x \in T : m = Week - x
  OBVIOUS
<1>5. \A y \in T : Week - x <= Week - y
  BY <1>3, <1>4
<1>6. QED
  BY <1>4, <1>5, WeekAssumption DEF Day

\* Every day of a set lies in one of the set's runs.
LEMMA InARun ==
  ASSUME NEW S \in SUBSET Day, NEW d \in S
  PROVE  \E t \in Runs(S) : d \in t[1] .. t[2]
<1>. DEFINE A == {a \in Day : a <= d /\ a .. d \subseteq S}
            B == {b \in Day : d <= b /\ d .. b \subseteq S}
<1>0. d \in Day /\ Day \subseteq Nat /\ d .. d = {d}
  BY WeekAssumption DEF Day
<1>1. /\ d \in A /\ A \subseteq Nat
      /\ d \in B /\ B \subseteq Day
  <2>1. d <= d /\ {d} \subseteq S
    BY <1>0
  <2>2. QED
    BY <1>0, <2>1, Zenon
<1>. HIDE DEF A, B
<1>2. PICK a \in A : \A y \in A : a <= y
  BY <1>1, Least
<1>3. PICK b \in B : \A y \in B : y <= b
  BY <1>1, Greatest
<1>. USE DEF A, B
<1>4. a - 1 \notin S
  <2>1. SUFFICES ASSUME a - 1 \in S
                 PROVE  a - 1 \in A
    BY <1>2, <1>0
  <2>2. (a - 1) .. d = {a - 1} \cup (a .. d)
    BY <1>0, <1>2
  <2>3. QED
    BY <2>1, <2>2, <1>0, <1>2
<1>5. b + 1 \notin S
  <2>1. SUFFICES ASSUME b + 1 \in S
                 PROVE  b + 1 \in B
    BY <1>3, <1>0
  <2>2. d .. (b + 1) = {b + 1} \cup (d .. b)
    BY <1>0, <1>3
  <2>3. QED
    BY <2>1, <2>2, <1>0, <1>3
<1>6. a .. b \subseteq S
  <2>1. a .. b \subseteq (a .. d) \cup (d .. b)
    BY <1>0, <1>2, <1>3
  <2>2. QED
    BY <2>1, <1>2, <1>3
<1>7. <<a, b>> \in Runs(S)
  BY <1>0, <1>2, <1>3, <1>4, <1>5, <1>6 DEF Runs
<1>8. d \in a .. b
  BY <1>0, <1>2, <1>3
<1>9. QED
  BY <1>7, <1>8

\* What the picker writes reads back as the days it stands for.
THEOREM WordingLosesNoDay ==
  ASSUME NEW S \in SUBSET Day
  PROVE  parseDays(formatDays(S)) = S
<1>1. CASE S = Day
  <2>1. DaysOf(<<0, Week - 1>>) = Day
    BY WeekAssumption DEF DaysOf, Day
  <2>2. QED
    BY <1>1, <2>1 DEF parseDays, formatDays
<1>2. CASE S # Day
  <2>1. \A t \in Runs(S) : DaysOf(t) = t[1] .. t[2] /\ t[1] .. t[2] \subseteq S
    BY WeekAssumption DEF Runs, DaysOf, Day
  <2>2. parseDays(formatDays(S)) = UNION {DaysOf(t) : t \in Runs(S)}
    BY <1>2 DEF parseDays, formatDays
  <2>3. UNION {DaysOf(t) : t \in Runs(S)} \subseteq S
    BY <2>1
  <2>4. ASSUME NEW d \in S
        PROVE  d \in UNION {DaysOf(t) : t \in Runs(S)}
    <3>1. PICK t \in Runs(S) : d \in t[1] .. t[2]
      BY InARun
    <3>2. d \in DaysOf(t)
      BY <2>1, <3>1
    <3>3. QED
      BY <3>1, <3>2, Zenon
  <2>5. QED
    BY <2>2, <2>3, <2>4, Zenon
<1>3. QED
  BY <1>1, <1>2

\* A text stands for days only, whatever it says.
LEMMA OnlyDays ==
  ASSUME NEW text
  PROVE  parseDays(text) \subseteq Day
<1>1. ASSUME NEW t \in text
      PROVE  DaysOf(t) \subseteq Day
  BY WeekAssumption DEF DaysOf, Day
<1>2. QED
  BY <1>1 DEF parseDays

\* One click of the picker, on a text from anywhere.
THEOREM ToggleChangesOneDay ==
  ASSUME NEW text, NEW d \in Day
  PROVE  LET before == parseDays(text)
             after == parseDays(toggleDay(text, d))
         IN  (before \ after) \cup (after \ before) = {d}
<1>. DEFINE before == parseDays(text)
            switched == (before \cup {d}) \ (before \cap {d})
<1>1. switched \in SUBSET Day
  BY OnlyDays
<1>2. parseDays(toggleDay(text, d)) = switched
  BY <1>1, WordingLosesNoDay DEF toggleDay
<1>3. (before \ switched) \cup (switched \ before) = {d}
  OBVIOUS
<1>4. QED
  BY <1>2, <1>3

-----------------------------------------------------------------------------
(* Rows and forms.                                                         *)

\* A row put together from two others, field by field.
LEMMA MixedRow ==
  ASSUME NEW r \in Row, NEW s \in Row,
         NEW g, g = [x \in Field |-> g[x]],
         \A x \in Field : g[x] = r[x] \/ g[x] = s[x]
  PROVE  g \in Row
<1>1. g = [text |-> g.text, members |-> g.members, days |-> g.days, dest |-> g.dest,
           options |-> g.options, cid |-> g.cid, file |-> g.file]
  BY DEF Field
<1>2. /\ g.text \in Text /\ g.members \in SUBSET Member /\ g.days \in SUBSET Token
      /\ g.dest \in Destination /\ g.options \in Seq([key : Nat \ {0}, dest : Destination])
      /\ g.cid \in BOOLEAN /\ g.file \in BOOLEAN
  BY DEF Row, Field
<1>3. QED
  BY <1>1, <1>2 DEF Row

LEMMA BlankIsRow == Blank \in Row /\ NoDestination \in Destination
<1>1. NoDestination \in Destination
  BY DEF NoDestination, Destination, DestinationType
<1>2. <<>> \in Seq([key : Nat \ {0}, dest : Destination])
  OBVIOUS
<1>3. QED
  BY <1>1, <1>2 DEF Blank, Row, Text

LEMMA OpenedIsRow ==
  ASSUME NEW form, NEW row \in Row
  PROVE  Opened(form, row) \in Row
<1>. DEFINE g == Opened(form, row)
<1>1. g = [x \in Field |-> g[x]] /\ \A x \in Field : g[x] = row[x] \/ g[x] = Blank[x]
  BY DEF Opened
<1>. HIDE DEF g
<1>2. g \in Row
  BY <1>1, BlankIsRow, MixedRow
<1>3. QED
  BY <1>2 DEF g

LEMMA StoredIsRow ==
  ASSUME NEW form, NEW draft \in Row, NEW row \in Row
  PROVE  Stored(form, draft, row) \in Row
<1>. DEFINE g == Stored(form, draft, row)
<1>1. g = [x \in Field |-> g[x]] /\ \A x \in Field : g[x] = draft[x] \/ g[x] = row[x]
  BY DEF Stored
<1>. HIDE DEF g
<1>2. g \in Row
  BY <1>1, MixedRow
<1>3. QED
  BY <1>2 DEF g

\* Every page's empty form starts from a row.
LEMMA StartIsRow ==
  ASSUME NEW p \in DOMAIN PageOf
  PROVE  PageOf[p].add.start \in Row
<1>1. <<0, Week - 1>> \in Token
  BY WeekAssumption DEF Token
<1>2. [Blank EXCEPT !.days = {<<0, Week - 1>>}] \in Row
  BY <1>1, BlankIsRow DEF Row
<1>3. [Blank EXCEPT !.text = "a"] \in Row
  BY BlankIsRow DEF Row, Text
<1>4. PageOf[p].add \in {AddGroupRow, ExtensionGroupRow, AddHolidayRow, AddRuleRow, AddDidRow,
                        PresenceRuleForm, EntryForm, AddRouteDialog, AddTimeConditionDialog,
                        AddIvrDialog, DeviceDialog}
  BY DEF PageOf, Page, RingGroupsSection, ExtensionGroupsSection, HolidaysSection,
         OutboundRulesSection, TrunkDidsSection, PresenceRules, Phonebook, Inbound, Schedules,
         Ivr, Devices
<1>5. /\ AddGroupRow.start = Blank /\ ExtensionGroupRow.start = Blank
      /\ AddHolidayRow.start = Blank /\ AddRuleRow.start = Blank /\ AddDidRow.start = Blank
      /\ EntryForm.start = Blank /\ AddRouteDialog.start = Blank
      /\ AddIvrDialog.start = Blank /\ DeviceDialog.start = Blank
  BY DEF Form, AddGroupRow, ExtensionGroupRow, AddHolidayRow, AddRuleRow, AddDidRow,
         EntryForm, AddRouteDialog, AddIvrDialog, DeviceDialog
<1>6. PresenceRuleForm.start = [Blank EXCEPT !.text = "a"]
  BY DEF Form, PresenceRuleForm
<1>7. AddTimeConditionDialog.start = [Blank EXCEPT !.days = {<<0, Week - 1>>}]
  BY DEF Form, AddTimeConditionDialog
<1>8. QED
  BY <1>2, <1>3, <1>4, <1>5, <1>6, <1>7, BlankIsRow

\* A form at rest, a closed one, and a table without rows.
LEMMA RestTypes ==
  ASSUME TypeOK
  PROVE  /\ ClosedForm \in FormState
         /\ EmptyForm \in FormState
         /\ \A f : AtRest(f) \in FormState
         /\ FormsAtRest \in [Slot -> FormState]
         /\ NoTable \in Table
<1>1. This.add.start \in Row
  BY StartIsRow, PagesAssumption DEF This, TypeOK
<1>2. ClosedForm \in FormState
  BY BlankIsRow DEF ClosedForm, FormState
<1>3. EmptyForm \in FormState
  BY <1>1, <1>2 DEF EmptyForm, FormState
<1>4. \A f : AtRest(f) \in FormState
  BY <1>2, <1>3 DEF AtRest
<1>5. QED
  BY <1>2, <1>3, <1>4 DEF FormsAtRest, NoTable, Table

\* The row that is gone is not one.
LEMMA GoneIsNoRow == Gone \notin Row
BY DEF Gone, Row

-----------------------------------------------------------------------------
(* Requests.                                                               *)

LEMMA RequestType ==
  ASSUME TypeOK, NEW form \in FormState, NEW id \in Id \cup {New}, NEW f \in Slot \cup {"none"},
         NEW kind \in {"load", "create", "patch", "greeting", "ungreet", "delete", "select", "import"}
  PROVE  Request(kind, id, f, form) \in ReqState
BY RestTypes DEF Request, ReqState, FormState

LEMMA LoadingType == ASSUME TypeOK PROVE Loading \in ReqState
BY RestTypes, RequestType DEF Loading, Slot

LEMMA RequestSets ==
  ASSUME NEW rs \in SUBSET ReqState, NEW f
  PROVE  /\ Overtaken(rs) \subseteq ReqState
         /\ Orphaned(rs, f) \subseteq ReqState
         /\ {[q EXCEPT !.deaf = TRUE] : q \in rs} \subseteq ReqState
<1>0. \A q \in ReqState : [q EXCEPT !.clean = FALSE] \in ReqState
  BY DEF ReqState
<1>1. \A q \in ReqState : [q EXCEPT !.deaf = TRUE] \in ReqState
  BY DEF ReqState
<1>2. \A q \in ReqState : \A b \in BOOLEAN : [q EXCEPT !.mine = b] \in ReqState
  BY DEF ReqState
<1>3. Inline \in BOOLEAN
  BY DEF Inline
<1>4. QED
  BY <1>0, <1>1, <1>2, <1>3 DEF Overtaken, Orphaned

LEMMA BesideType == ASSUME TypeOK, NEW r PROVE Beside(r) \subseteq ReqState
<1>1. reqs \ {r} \in SUBSET ReqState
  BY DEF TypeOK
<1>2. QED
  BY <1>1, RequestSets DEF Beside

-----------------------------------------------------------------------------
(* Drafts.                                                                 *)

Option == [key : Nat \ {0}, dest : Destination]

LEMMA DestinationTypes ==
  ASSUME NEW dest \in Destination, NEW keyBy
  PROVE  Choices(dest, keyBy) \subseteq Destination
<1>1. \A t \in DestinationType : WithType(dest, t) \in Destination
  BY DEF WithType, Destination, Nobody
<1>2. \A x \in getTargetOptions(dest.type, keyBy) : [dest EXCEPT !.target = x] \in Destination
  BY DEF getTargetOptions, Destination
<1>3. QED
  BY <1>1, <1>2 DEF Choices

LEMMA OptionTypes ==
  ASSUME NEW os \in Seq(Option)
  PROVE  /\ addOption(os) \in Seq(Option)
         /\ \A i \in DOMAIN os : removeOption(os, i) \in Seq(Option)
         /\ \A i \in DOMAIN os : \A d \in Destination : updateOptionFields(os, i, d) \in Seq(Option)
<1>1. addOption(os) \in Seq(Option)
  <2>1. [key |-> Len(os) + 1, dest |-> [type |-> "extension", target |-> Nobody]] \in Option
    BY BlankIsRow DEF Option, NoDestination
  <2>2. QED
    BY <2>1 DEF addOption
<1>2. ASSUME NEW i \in DOMAIN os
      PROVE  removeOption(os, i) \in Seq(Option)
  <2>1. i \in 1 .. Len(os) /\ Len(os) \in Nat
    OBVIOUS
  <2>2. SubSeq(os, 1, i - 1) \in Seq(Option)
    <3>1. \A j \in 1 .. i - 1 : os[j] \in Option
      BY <2>1
    <3>2. QED
      BY <2>1, <3>1, SubSeqProperties
  <2>3. SubSeq(os, i + 1, Len(os)) \in Seq(Option)
    <3>1. \A j \in i + 1 .. Len(os) : os[j] \in Option
      BY <2>1
    <3>2. QED
      BY <2>1, <3>1, SubSeqProperties
  <2>4. QED
    BY <2>2, <2>3, ConcatProperties DEF removeOption
<1>3. ASSUME NEW i \in DOMAIN os, NEW d \in Destination
      PROVE  updateOptionFields(os, i, d) \in Seq(Option)
  <2>1. [os[i] EXCEPT !.dest = d] \in Option
    <3>1. \A o \in Option : [o EXCEPT !.dest = d] \in Option
      BY DEF Option
    <3>2. os[i] \in Option
      OBVIOUS
    <3>3. QED
      BY <3>1, <3>2
  <2>2. [os EXCEPT ![i] = [os[i] EXCEPT !.dest = d]] \in Seq(Option)
    BY <2>1
  <2>3. QED
    BY <2>2 DEF updateOptionFields
<1>4. QED
  BY <1>1, <1>2, <1>3

\* The days the picker writes are tokens.
LEMMA DayTypes ==
  ASSUME NEW text, NEW d \in Day
  PROVE  toggleDay(text, d) \subseteq Token
<1>1. \A S : formatDays(S) \subseteq Token
  BY WeekAssumption DEF formatDays, Runs, Token, Day
<1>2. QED
  BY <1>1 DEF toggleDay

LEMMA ChangedType ==
  ASSUME TypeOK, NEW f \in Slot, NEW field, NEW draft \in Row, Changed(f, field, draft),
         field \in Field
  PROVE  TypeOK'
<1>1. forms' \in [Slot -> FormState]
  <2>. DEFINE new == [[forms[f] EXCEPT !.draft = draft] EXCEPT !.touched = forms[f].touched \cup {field}]
  <2>1. forms[f] \in FormState
    BY DEF TypeOK
  <2>2. new \in FormState
    BY <2>1 DEF FormState
  <2>3. forms' = [forms EXCEPT ![f] = new]
    BY <2>1 DEF Changed, TypeOK, FormState
  <2>. HIDE DEF new
  <2>4. QED
    BY <2>2, <2>3 DEF TypeOK
<1>2. touches' \in Nat
  BY DEF TypeOK, Changed, Touch
<1>3. QED
  BY <1>1, <1>2 DEF TypeOK, Changed

LEMMA EditType ==
  ASSUME TypeOK, NEW f \in Slot, Edit(f)
  PROVE  TypeOK'
<1>. DEFINE old == forms[f].draft
<1>0. old \in Row /\ old.options \in Seq(Option) /\ old.dest \in Destination
  BY DEF TypeOK, FormState, Row, Option
<1>1. CASE \E t \in Text : Type(f, t)
  <2>1. PICK t \in Text : Type(f, t)
    BY <1>1
  <2>2. [old EXCEPT !.text = t] \in Row
    BY <1>0 DEF Row
  <2>3. QED
    BY <2>1, <2>2, ChangedType DEF Type, Field
<1>2. CASE \E m \in Member : ToggleMember(f, m)
  <2>1. PICK m \in Member : ToggleMember(f, m)
    BY <1>2
  <2>2. [old EXCEPT !.members = (old.members \cup {m}) \ (old.members \cap {m})] \in Row
    BY <1>0 DEF Row
  <2>3. QED
    BY <2>1, <2>2, ChangedType DEF ToggleMember, Field
<1>3. CASE \E d \in Day : ToggleDay(f, d)
  <2>1. PICK d \in Day : ToggleDay(f, d)
    BY <1>3
  <2>2. [old EXCEPT !.days = toggleDay(old.days, d)] \in Row
    BY <1>0, DayTypes DEF Row
  <2>3. QED
    BY <2>1, <2>2, ChangedType DEF ToggleDay, Field
<1>4. CASE PickCid(f)
  <2>1. [old EXCEPT !.cid = ~old.cid] \in Row
    BY <1>0 DEF Row
  <2>2. QED
    BY <1>4, <2>1, ChangedType DEF PickCid, Field
<1>5. CASE PickFile(f)
  <2>1. [old EXCEPT !.file = TRUE] \in Row
    BY <1>0 DEF Row
  <2>2. QED
    BY <1>5, <2>1, ChangedType DEF PickFile, Field
<1>6. CASE Choose(f)
  <2>1. PICK d \in Choices(old.dest, FormOf(f).keyBy) : Changed(f, "dest", [old EXCEPT !.dest = d])
    BY <1>6 DEF Choose
  <2>2. [old EXCEPT !.dest = d] \in Row
    BY <1>0, DestinationTypes DEF Row
  <2>3. QED
    BY <2>1, <2>2, ChangedType DEF Field
<1>7. CASE EditOptions(f)
  <2>. DEFINE os == old.options
              K == FormOf(f).keyBy
  <2>1. PICK new \in {addOption(os)} \cup {removeOption(os, i) : i \in DOMAIN os}
                       \cup UNION {{updateOptionFields(os, i, d) : d \in Choices(os[i].dest, K)}
                                    : i \in DOMAIN os} :
          Changed(f, "options", [old EXCEPT !.options = new])
    BY <1>7 DEF EditOptions
  <2>2. \A i \in DOMAIN os : Choices(os[i].dest, K) \subseteq Destination
    <3>1. \A i \in DOMAIN os : os[i] \in Option
      BY <1>0
    <3>2. \A i \in DOMAIN os : os[i].dest \in Destination
      BY <3>1 DEF Option
    <3>3. QED
      BY <3>2, DestinationTypes
  <2>3. new \in Seq(Option)
    BY <2>1, <2>2, <1>0, OptionTypes
  <2>4. [old EXCEPT !.options = new] \in Row
    BY <1>0, <2>3 DEF Row, Option
  <2>5. QED
    BY <2>1, <2>4, ChangedType DEF Field
<1>8. QED
  BY <1>1, <1>2, <1>3, <1>4, <1>5, <1>6, <1>7 DEF Edit

-----------------------------------------------------------------------------
(* The user's other actions.                                               *)

LEMMA ClickType == ASSUME TypeOK, Click PROVE clicks' \in Nat
BY DEF TypeOK, Click

LEMMA WriteType ==
  ASSUME TypeOK, NEW r \in ReqState, Write(r)
  PROVE  reqs' \subseteq ReqState /\ excused' \in BOOLEAN
BY DEF Write, TypeOK

LEMMA OpenAddType == ASSUME TypeOK, OpenAdd PROVE TypeOK'
<1>1. forms' \in [Slot -> FormState]
  BY RestTypes DEF OpenAdd, TypeOK
<1>2. QED
  BY <1>1, ClickType DEF OpenAdd, TypeOK

LEMMA StartEditType == ASSUME TypeOK, NEW i \in Id, StartEdit(i) PROVE TypeOK'
<1>1. list[i] \in Row
  BY DEF StartEdit, TypeOK, Table
<1>2. Opened(This.edit, list[i]) \in Row
  BY <1>1, OpenedIsRow
<1>3. forms' \in [Slot -> FormState]
  BY <1>1, <1>2 DEF StartEdit, TypeOK, FormState, Slot, Inline
<1>4. QED
  BY <1>3, ClickType DEF StartEdit, TypeOK

LEMMA CloseFormType == ASSUME TypeOK, NEW f \in Slot, CloseForm(f) PROVE TypeOK'
<1>1. AtRest(f) \in FormState /\ (Inline /\ forms[f].busy) \in BOOLEAN
  BY RestTypes
<1>2. forms' \in [Slot -> FormState]
  BY <1>1 DEF CloseForm, TypeOK, FormState
<1>3. QED
  BY <1>2, ClickType, RequestSets DEF CloseForm, TypeOK

LEMMA SubmitType == ASSUME TypeOK, NEW f \in Slot, Submit(f) PROVE TypeOK'
<1>. DEFINE kind == IF forms[f].id = New THEN "create" ELSE "patch"
<1>1. forms[f] \in FormState
  BY DEF TypeOK
<1>2. Request(kind, forms[f].id, f, forms[f]) \in ReqState
  BY <1>1, RequestType DEF FormState
<1>3. forms' \in [Slot -> FormState]
  BY DEF Submit, TypeOK, FormState
<1>4. Write(Request(kind, forms[f].id, f, forms[f]))
  BY DEF Submit
<1>5. QED
  BY <1>2, <1>3, <1>4, ClickType, WriteType DEF Submit, TypeOK

LEMMA DropGreetingType == ASSUME TypeOK, DropGreeting PROVE TypeOK'
<1>1. forms["edit"].id \in Id \cup {New}
  BY DEF TypeOK, FormState, Slot
<1>2. Request("ungreet", forms["edit"].id, "none", ClosedForm) \in ReqState
  BY <1>1, RestTypes, RequestType
<1>3. reqs' \subseteq ReqState
  BY <1>2, RequestSets DEF DropGreeting, TypeOK
<1>4. QED
  BY <1>3, ClickType DEF DropGreeting, TypeOK

LEMMA DeleteType ==
  ASSUME TypeOK, NEW i \in Id, AskDelete(i) \/ Delete(i)
  PROVE  TypeOK'
<1>1. CASE AskDelete(i)
  BY <1>1, ClickType DEF AskDelete, TypeOK
<1>2. CASE Delete(i)
  <2>1. Request("delete", i, "none", ClosedForm) \in ReqState
    BY RestTypes, RequestType
  <2>2. del' \in [open : BOOLEAN, id : Id \cup {New}, busy : BOOLEAN]
    BY <1>2 DEF Delete, TypeOK
  <2>3. QED
    BY <1>2, <2>1, <2>2, ClickType, WriteType DEF Delete, TypeOK
<1>3. QED
  BY <1>1, <1>2

LEMMA SelectType == ASSUME TypeOK, NEW i \in Id, Select(i) PROVE TypeOK'
<1>. DEFINE plain == Request("select", i, "none", ClosedForm)
            r == [plain EXCEPT !.body.cid = ~list[i].cid, !.shown = list]
<1>1. list[i] \in Row
  BY DEF Select, TypeOK, Table
<1>2. list' \in Table
  <2>1. [list[i] EXCEPT !.cid = ~list[i].cid] \in Row
    BY <1>1 DEF Row
  <2>2. QED
    BY <2>1 DEF Select, TypeOK, Table
<1>3. plain \in ReqState
  BY RestTypes, RequestType
<1>4. r \in ReqState
  <2>1. plain.body \in Row
    BY <1>3 DEF ReqState
  <2>2. [plain.body EXCEPT !.cid = ~list[i].cid] \in Row
    BY <1>1, <2>1 DEF Row
  <2>3. r = [plain EXCEPT !.body = [plain.body EXCEPT !.cid = ~list[i].cid], !.shown = list]
    BY <1>3 DEF ReqState
  <2>4. list \in Table
    BY DEF TypeOK
  <2>5. QED
    BY <1>3, <2>2, <2>3, <2>4 DEF ReqState
<1>5. Write(r)
  BY DEF Select
<1>6. QED
  BY <1>2, <1>4, <1>5, ClickType, WriteType DEF Select, TypeOK

LEMMA ImportType == ASSUME TypeOK, Import PROVE TypeOK'
<1>1. Request("import", New, "none", ClosedForm) \in ReqState
  BY RestTypes, RequestType
<1>2. QED
  BY <1>1, ClickType, WriteType DEF Import, TypeOK

LEMMA ReloadType == ASSUME TypeOK, Reload PROVE TypeOK'
<1>1. reqs' \subseteq ReqState
  BY LoadingType, RequestSets DEF Reload, TypeOK
<1>2. del' \in [open : BOOLEAN, id : Id \cup {New}, busy : BOOLEAN]
  BY DEF Reload, NoDelete
<1>3. QED
  BY <1>1, <1>2, RestTypes, ClickType DEF Reload, TypeOK

LEMMA UserType == ASSUME TypeOK, User PROVE TypeOK'
<1>1. KeepRow => TypeOK'
  BY DEF KeepRow, TypeOK, NoDelete
<1>2. QED
  BY <1>1, OpenAddType, DropGreetingType, ImportType, ReloadType, StartEditType, DeleteType,
     SelectType, EditType, SubmitType, CloseFormType DEF User

-----------------------------------------------------------------------------
(* The backend and the answers.                                            *)

LEMMA ServedType ==
  ASSUME TypeOK, NEW r \in reqs, ~Refused(r), NEW s \in Served(r)
  PROVE  s.db \in Table /\ s.id \in Id \cup {New}
<1>0. r \in ReqState /\ db \in Table
  BY DEF TypeOK
<1>1. CASE r.kind = "create"
  <2>1. Stored(This.add, r.body, Blank) \in Row
    BY <1>0, BlankIsRow, StoredIsRow DEF ReqState
  <2>2. \A i \in Id : [db EXCEPT ![i] = Stored(This.add, r.body, Blank)] \in Table
    BY <1>0, <2>1 DEF Table
  <2>3. QED
    BY <1>1, <2>2 DEF Served
<1>2. CASE r.kind = "patch"
  <2>1. r.body \in Row /\ r.id \in Id \cup {New}
    BY <1>0 DEF ReqState
  <2>2. CASE r.id \in Id
    <3>1. db[r.id] \in Row
      BY <1>0, <1>2, <2>2 DEF Refused, Table
    <3>2. Stored(This.edit, r.body, db[r.id]) \in Row
      BY <2>1, <3>1, StoredIsRow
    <3>3. [db EXCEPT ![r.id] = Stored(This.edit, r.body, db[r.id])] \in Table
      BY <1>0, <3>2 DEF Table
    <3>4. s.id = r.id /\ s.db = [db EXCEPT ![r.id] = Stored(This.edit, r.body, db[r.id])]
      BY <1>2 DEF Served
    <3>5. QED
      BY <2>1, <3>3, <3>4, Zenon
  <2>3. CASE r.id \notin Id
    <3>1. [db EXCEPT ![r.id] = Stored(This.edit, r.body, db[r.id])] = db
      BY <1>0, <2>3 DEF Table
    <3>2. s.id = r.id /\ s.db = [db EXCEPT ![r.id] = Stored(This.edit, r.body, db[r.id])]
      BY <1>2 DEF Served
    <3>3. QED
      BY <1>0, <2>1, <3>1, <3>2, Zenon
  <2>4. QED
    BY <2>2, <2>3
<1>3. CASE r.kind \in {"select", "greeting", "ungreet"}
  <2>1. r.body \in Row /\ r.id \in Id \cup {New}
    BY <1>0 DEF ReqState
  <2>2. r.id \in Id => db[r.id] \in Row
    BY <1>0, <1>3 DEF Refused, Table
  <2>3. \A row \in Row, b \in BOOLEAN : /\ [row EXCEPT !.cid = b] \in Row
                                        /\ [row EXCEPT !.file = b] \in Row
    BY DEF Row
  <2>4. r.body.cid \in BOOLEAN
    BY <2>1 DEF Row
  <2>5. /\ [db EXCEPT ![r.id].cid = r.body.cid] \in Table
        /\ [db EXCEPT ![r.id].file = TRUE] \in Table
        /\ [db EXCEPT ![r.id].file = FALSE] \in Table
    BY <1>0, <2>2, <2>3, <2>4 DEF Table
  <2>6. CASE r.kind = "select"
    <3>1. s.id = r.id /\ s.db = [db EXCEPT ![r.id].cid = r.body.cid]
      BY <2>6 DEF Served
    <3>2. QED
      BY <2>1, <2>5, <3>1, Zenon
  <2>7. CASE r.kind = "greeting"
    <3>1. s.id = r.id /\ s.db = [db EXCEPT ![r.id].file = TRUE]
      BY <2>7 DEF Served
    <3>2. QED
      BY <2>1, <2>5, <3>1, Zenon
  <2>8. CASE r.kind = "ungreet"
    <3>1. s.id = r.id /\ s.db = [db EXCEPT ![r.id].file = FALSE]
      BY <2>8 DEF Served
    <3>2. QED
      BY <2>1, <2>5, <3>1, Zenon
  <2>9. QED
    BY <1>3, <2>6, <2>7, <2>8
<1>4. CASE r.kind = "delete"
  <2>1. s.id = r.id /\ s.db = [db EXCEPT ![r.id] = Gone]
    BY <1>4 DEF Served
  <2>2. [db EXCEPT ![r.id] = Gone] \in Table /\ r.id \in Id \cup {New}
    BY <1>0 DEF Table, ReqState
  <2>3. QED
    BY <2>1, <2>2, Zenon
<1>5. CASE r.kind = "import"
  <2>1. [Blank EXCEPT !.text = "b"] \in Row
    BY BlankIsRow DEF Row, Text
  <2>2. \A i \in Id : [db EXCEPT ![i] = [Blank EXCEPT !.text = "b"]] \in Table
    BY <1>0, <2>1 DEF Table
  <2>3. Served(r) = {[id |-> New, db |-> [db EXCEPT ![i] = [Blank EXCEPT !.text = "b"]]] : i \in Id}
    BY <1>5 DEF Served
  <2>4. QED
    BY <2>2, <2>3
<1>6. CASE r.kind = "load"
  BY <1>0, <1>6 DEF Served
<1>7. QED
  BY <1>0, <1>1, <1>2, <1>3, <1>4, <1>5, <1>6 DEF ReqState

LEMMA ServeType == ASSUME TypeOK, NEW r \in reqs, Serve(r) PROVE TypeOK'
<1>0. r \in ReqState
  BY DEF TypeOK
<1>1. CASE /\ ~Refused(r)
           /\ \E s \in Served(r) : db' = s.db /\ reqs' = Beside(r) \cup {Answer(r, s)}
  <2>1. PICK s \in Served(r) : db' = s.db /\ reqs' = Beside(r) \cup {Answer(r, s)}
    BY <1>1
  <2>2. s.db \in Table /\ s.id \in Id \cup {New}
    BY <1>1, ServedType
  <2>. DEFINE heard == [i \in Id |-> IF r.kind = "load" \/ i = s.id THEN s.db[i] ELSE Gone]
  <2>3. heard \in Table
    BY <2>2 DEF Table
  <2>. HIDE DEF heard
  <2>4. [r EXCEPT !.phase = "served", !.result = "ok", !.id = s.id, !.answer = heard] \in ReqState
    BY <1>0, <2>2, <2>3 DEF ReqState
  <2>5. Answer(r, s) \in ReqState
    BY <2>4 DEF Answer, heard
  <2>6. QED
    BY <2>1, <2>2, <2>5, BesideType DEF Serve, TypeOK
<1>2. CASE /\ reqs' = (reqs \ {r}) \cup {[r EXCEPT !.phase = "served", !.result = "refused"]}
           /\ UNCHANGED db
  <2>1. [r EXCEPT !.phase = "served", !.result = "refused"] \in ReqState
    BY <1>0 DEF ReqState
  <2>2. QED
    BY <1>2, <2>1 DEF Serve, TypeOK
<1>3. QED
  BY <1>1, <1>2 DEF Serve

LEMMA LoseType == ASSUME TypeOK, NEW r \in reqs, Lose(r) PROVE TypeOK'
<1>0. r \in ReqState /\ NoTable \in Table
  BY RestTypes DEF TypeOK
<1>1. [r EXCEPT !.phase = "served", !.result = "lost", !.answer = NoTable] \in ReqState
  BY <1>0 DEF ReqState
<1>2. QED
  BY <1>1 DEF Lose, TypeOK, Writes

LEMMA OtherAdminType == ASSUME TypeOK, NEW i \in Id, OtherAdmin(i) PROVE TypeOK'
<1>1. db[i] \in Row
  BY DEF OtherAdmin, TypeOK, Table
<1>2. \A t \in Text : [db[i] EXCEPT !.text = t] \in Row
  BY <1>1 DEF Row
<1>3. db' \in Table
  BY <1>2 DEF OtherAdmin, TypeOK, Table
<1>4. reqs' \subseteq ReqState
  BY RequestSets DEF OtherAdmin, TypeOK
<1>5. others' \in Nat
  <2>1. others \in Nat /\ others' = others + 1
    BY Zenon DEF OtherAdmin, TypeOK
  <2>2. QED
    BY <2>1
<1>6. QED
  BY <1>3, <1>4, <1>5 DEF OtherAdmin, TypeOK

\* What hearing an answer may leave of the page.
PageType == /\ list' \in Table /\ view' \in {"loading", "shown", "crashed"}
            /\ forms' \in [Slot -> FormState]
            /\ del' \in [open : BOOLEAN, id : Id \cup {New}, busy : BOOLEAN]
            /\ reqs' \subseteq ReqState /\ excused' \in BOOLEAN

LEMMA LoadAgainType ==
  ASSUME TypeOK, NEW r, LoadAgain(r)
  PROVE  reqs' \subseteq ReqState /\ excused' \in BOOLEAN
<1>1. Orphaned(Rest(r), r.form) \subseteq ReqState
  BY RequestSets DEF Rest, TypeOK
<1>2. QED
  BY <1>1, LoadingType DEF LoadAgain

LEMMA HearLoadType == ASSUME TypeOK, NEW r \in reqs, HearLoad(r) PROVE PageType
<1>0. r \in ReqState
  BY DEF TypeOK
<1>1. CASE Crash(r)
  <2>1. reqs' \subseteq ReqState
    BY <1>1, RequestSets DEF Crash, Rest, TypeOK
  <2>2. QED
    BY <1>1, <2>1, RestTypes DEF Crash, PageType, TypeOK, NoDelete
<1>2. CASE ~Crash(r)
  BY <1>0, <1>2 DEF HearLoad, PageType, TypeOK, ReqState, FormsAfterLoad, Rest
<1>3. QED
  BY <1>1, <1>2

LEMMA DoneType ==
  ASSUME TypeOK, NEW r \in reqs, NEW table \in Table, Done(r, table)
  PROVE  /\ forms' \in [Slot -> FormState] /\ list' \in Table
         /\ reqs' \subseteq ReqState /\ excused' \in BOOLEAN
<1>1. forms' \in [Slot -> FormState]
  <2>1. AtRest(r.form) \in FormState
    BY RestTypes
  <2>2. \A form \in FormState : [form EXCEPT !.busy = FALSE, !.touched = {}] \in FormState
    BY DEF FormState
  <2>3. QED
    BY <2>1, <2>2 DEF Done, TypeOK
<1>2. list' \in Table
  <2>1. \A id : [list EXCEPT ![id] = table[id]] \in Table
    BY DEF TypeOK, Table
  <2>2. QED
    BY <2>1 DEF Done, TypeOK, Placed
<1>3. Orphaned(Rest(r), r.form) \subseteq ReqState
  BY RequestSets DEF Rest, TypeOK
<1>4. reqs' \subseteq ReqState /\ excused' \in BOOLEAN
  BY <1>3, LoadAgainType DEF Done, TypeOK
<1>5. QED
  BY <1>1, <1>2, <1>4

LEMMA FreedType == ASSUME TypeOK, NEW r PROVE Freed(r) \in [Slot -> FormState]
<1>1. \A form \in FormState : [form EXCEPT !.busy = FALSE] \in FormState
  BY DEF FormState
<1>2. QED
  BY <1>1 DEF Freed, TypeOK

LEMMA HearSaveType ==
  ASSUME TypeOK, NEW r \in reqs, HearSave(r) \/ HearGreeting(r)
  PROVE  PageType
<1>0. r \in ReqState /\ r.answer \in Table /\ r.shown \in Table
  BY DEF TypeOK, ReqState
<1>1. CASE Done(r, r.answer) \/ Done(r, r.shown)
  BY <1>0, <1>1, DoneType DEF HearSave, HearGreeting, PageType, TypeOK
<1>2. CASE forms' = Freed(r) /\ reqs' = Rest(r) /\ UNCHANGED <<list, excused>>
  BY <1>2, FreedType DEF HearSave, HearGreeting, PageType, TypeOK, Rest
<1>3. CASE /\ HearSave(r) /\ ~Failed(r) /\ r.body.file
  <2>1. [r EXCEPT !.kind = "greeting", !.phase = "sent", !.result = "none",
                  !.shown = r.answer, !.answer = NoTable] \in ReqState
    BY <1>0, RestTypes DEF ReqState
  <2>2. reqs' \subseteq ReqState
    BY <1>3, <2>1, RequestSets DEF HearSave, Rest, TypeOK
  <2>3. QED
    BY <1>3, <2>2 DEF HearSave, PageType, TypeOK
<1>4. QED
  BY <1>1, <1>2, <1>3 DEF HearSave, HearGreeting

LEMMA HearOtherType ==
  ASSUME TypeOK, NEW r \in reqs,
         HearUngreet(r) \/ HearDelete(r) \/ HearSelect(r) \/ HearImport(r) \/ Forget(r)
  PROVE  PageType
<1>1. CASE HearUngreet(r)
  BY <1>1 DEF HearUngreet, PageType, TypeOK, Rest
<1>2. CASE HearDelete(r)
  <2>1. [list EXCEPT ![r.id] = Gone] \in Table
    BY DEF TypeOK, Table
  <2>2. del' \in [open : BOOLEAN, id : Id \cup {New}, busy : BOOLEAN]
    BY <1>2 DEF HearDelete, TypeOK, NoDelete
  <2>3. QED
    BY <1>2, <2>1, <2>2 DEF HearDelete, PageType, TypeOK, Rest
<1>3. CASE HearSelect(r)
  <2>1. r.shown \in Table
    BY DEF TypeOK, ReqState
  <2>2. QED
    BY <1>3, <2>1 DEF HearSelect, PageType, TypeOK, Rest
<1>4. CASE HearImport(r)
  BY <1>4, LoadAgainType DEF HearImport, PageType, TypeOK, Rest
<1>5. CASE Forget(r)
  BY <1>5 DEF Forget, PageType, TypeOK, Rest
<1>6. QED
  BY <1>1, <1>2, <1>3, <1>4, <1>5

LEMMA HearType == ASSUME TypeOK, NEW r \in reqs, Hear(r) PROVE TypeOK'
<1>1. PageType
  BY HearLoadType, HearSaveType, HearOtherType DEF Hear
<1>2. QED
  BY <1>1 DEF Hear, PageType, TypeOK

LEMMA InitType == Init => TypeOK
<1> SUFFICES ASSUME Init PROVE TypeOK
  OBVIOUS
<1>1. Sample \in Row
  BY BlankIsRow DEF Sample, Row, Text
<1>2. \A row \in SampleRows : row \in Row
  <2>1. \A w \in Wordings : w \in SUBSET Token
    BY WeekAssumption DEF Wordings, Token
  <2>2. CASE page = "schedules"
    <3>1. [type |-> "hangup", target |-> Nobody] \in Destination
      BY DEF Destination, DestinationType
    <3>2. \A w \in SUBSET Token :
            [Sample EXCEPT !.days = w, !.dest = [type |-> "hangup", target |-> Nobody]] \in Row
      BY <1>1, <3>1 DEF Row
    <3>3. QED
      BY <2>1, <2>2, <3>2 DEF SampleRows
  <2>3. CASE page = "inbound"
    <3>1. \A g \in GroupId : [type |-> "ring_group", target |-> g] \in Destination
      BY DEF Destination, DestinationType
    <3>2. QED
      BY <1>1, <2>3, <3>1 DEF SampleRows, Row
  <2>4. CASE page = "ivr"
    <3>1. \A g \in GroupNumber :
            [key |-> 1, dest |-> [type |-> "ring_group", target |-> g]] \in Option
      BY DEF Destination, DestinationType, Option
    <3>2. \A o \in Option : <<o>> \in Seq(Option)
      OBVIOUS
    <3>3. \A os \in Seq(Option) : [Sample EXCEPT !.file = TRUE, !.options = os] \in Row
      BY <1>1 DEF Row, Option
    <3>4. QED
      BY <2>4, <3>1, <3>2, <3>3 DEF SampleRows
  <2>5. CASE page \in {"ring_groups", "extension_groups", "devices"}
    BY <1>1, <2>5 DEF SampleRows, Row
  <2>6. CASE page \notin {"schedules", "inbound", "ivr", "ring_groups", "extension_groups", "devices"}
    BY <1>1, <2>6 DEF SampleRows
  <2>7. QED
    BY <2>2, <2>3, <2>4, <2>5, <2>6
<1>3. This.add.start \in Row
  BY StartIsRow, PagesAssumption DEF This, Init
<1>4. ClosedForm \in FormState
  BY BlankIsRow DEF ClosedForm, FormState
<1>5. FormsAtRest \in [Slot -> FormState]
  BY <1>3, <1>4 DEF FormsAtRest, AtRest, EmptyForm, FormState
<1>6. db \in Table
  BY <1>2 DEF Init, Table
<1>7. NoTable \in Table
  BY DEF NoTable, Table
<1>8. Loading \in ReqState
  BY <1>4, <1>7 DEF Loading, Request, ReqState, FormState, Slot
<1>9. QED
  BY <1>5, <1>6, <1>7, <1>8 DEF Init, TypeOK, NoDelete

LEMMA NextType == TypeOK /\ [Next]_vars => TypeOK'
<1> SUFFICES ASSUME TypeOK, [Next]_vars
             PROVE  TypeOK'
  OBVIOUS
<1>1. CASE UNCHANGED vars
  BY <1>1 DEF vars, TypeOK
<1>2. CASE Next
  BY <1>2, UserType, OtherAdminType, ServeType, LoseType, HearType DEF Next
<1>3. QED
  BY <1>1, <1>2

\* Every draft, table and request of a page stays of the kind the backend stores,
\* whatever the pages, the numbers and the length of a week.
THEOREM TypeCorrect == Spec => []TypeOK
BY InitType, NextType, PTL DEF Spec

-----------------------------------------------------------------------------
(* The picker of weekdays.                                                 *)

\* Drafts are changed by their controls only.
LEMMA OnlyControlsTouch ==
  ASSUME [Next]_vars, touches' # touches
  PROVE  \E f \in Slot : Edit(f)
<1>1. /\ OpenAdd => UNCHANGED touches
      /\ DropGreeting => UNCHANGED touches
      /\ KeepRow => UNCHANGED touches
      /\ Import => UNCHANGED touches
      /\ Reload => UNCHANGED touches
  BY Zenon DEF OpenAdd, DropGreeting, KeepRow, Import, Reload
<1>2. \A i : /\ StartEdit(i) => UNCHANGED touches
             /\ AskDelete(i) => UNCHANGED touches
             /\ Delete(i) => UNCHANGED touches
             /\ Select(i) => UNCHANGED touches
             /\ OtherAdmin(i) => UNCHANGED touches
  BY Zenon DEF StartEdit, AskDelete, Delete, Select, OtherAdmin
<1>3. \A f : (Submit(f) => UNCHANGED touches) /\ (CloseForm(f) => UNCHANGED touches)
  BY Zenon DEF Submit, CloseForm
<1>4. \A r : /\ Serve(r) => UNCHANGED touches
             /\ Lose(r) => UNCHANGED touches
             /\ Hear(r) => UNCHANGED touches
  BY Zenon DEF Serve, Lose, Hear
<1>5. UNCHANGED vars => UNCHANGED touches
  BY DEF vars
<1>6. QED
  BY <1>1, <1>2, <1>3, <1>4, <1>5 DEF Next, User

LEMMA DaysByPicker ==
  ASSUME TypeOK, NEW f \in Slot, Edit(f), NEW g \in Slot,
         forms'[g].draft.days # forms[g].draft.days
  PROVE  \E d \in Day : forms'[g].draft.days = toggleDay(forms[g].draft.days, d)
<1>. DEFINE old == forms[f].draft
<1>1. ASSUME NEW field, NEW draft, Changed(f, field, draft)
      PROVE  forms'[g].draft = IF g = f THEN draft ELSE forms[g].draft
  BY <1>1 DEF Changed, TypeOK, FormState
<1>2. old \in Row
  BY DEF TypeOK, FormState
<1>3. ASSUME NEW draft, NEW field, Changed(f, field, draft)
      PROVE  draft.days # old.days /\ forms'[g].draft.days = draft.days /\ g = f
  BY <1>1, <1>3
<1>4. \A t : [old EXCEPT !.text = t].days = old.days
  BY <1>2 DEF Row
<1>5. \A ms : [old EXCEPT !.members = ms].days = old.days
  BY <1>2 DEF Row
<1>6. \A d : [old EXCEPT !.dest = d].days = old.days
  BY <1>2 DEF Row
<1>7. \A os : [old EXCEPT !.options = os].days = old.days
  BY <1>2 DEF Row
<1>8. [old EXCEPT !.cid = ~old.cid].days = old.days
  BY <1>2 DEF Row
<1>9. [old EXCEPT !.file = TRUE].days = old.days
  BY <1>2 DEF Row
<1>10. ~\E t \in Text : Type(f, t)
  BY <1>3, <1>4 DEF Type
<1>11. ~\E m \in Member : ToggleMember(f, m)
  BY <1>3, <1>5 DEF ToggleMember
<1>12. ~PickCid(f) /\ ~PickFile(f)
  BY <1>3, <1>8, <1>9 DEF PickCid, PickFile
<1>13. ~Choose(f)
  BY <1>3, <1>6 DEF Choose
<1>14. ~EditOptions(f)
  BY <1>3, <1>7 DEF EditOptions
<1>15. PICK d \in Day : ToggleDay(f, d)
  BY <1>10, <1>11, <1>12, <1>13, <1>14 DEF Edit
<1>16. [old EXCEPT !.days = toggleDay(old.days, d)].days = toggleDay(old.days, d)
  BY <1>2 DEF Row
<1>17. QED
  BY <1>3, <1>15, <1>16 DEF ToggleDay

LEMMA OneDay ==
  ASSUME TypeOK, [Next]_vars, NEW g \in Slot, touches' # touches,
         forms'[g].draft.days # forms[g].draft.days
  PROVE  LET before == parseDays(forms[g].draft.days)
             after == parseDays(forms'[g].draft.days)
         IN  \E d \in Day : (before \ after) \cup (after \ before) = {d}
<1>1. PICK f \in Slot : Edit(f)
  BY OnlyControlsTouch
<1>2. PICK d \in Day : forms'[g].draft.days = toggleDay(forms[g].draft.days, d)
  BY <1>1, DaysByPicker
<1>3. QED
  BY <1>2, ToggleChangesOneDay

\* A click in the picker of weekdays turns one day on or off, on every page that has one,
\* for a week of any length and days in any wording.
THEOREM DaysOneAtATime == Spec => OneDayAtATime
<1>1. TypeOK /\ [Next]_vars =>
        \/ \A f \in Slot :
             LET before == parseDays(forms[f].draft.days)
                 after == parseDays(forms'[f].draft.days)
             IN  touches' # touches /\ forms'[f].draft.days # forms[f].draft.days =>
                   \E d \in Day : (before \ after) \cup (after \ before) = {d}
        \/ UNCHANGED vars
  BY OneDay
<1>2. QED
  BY <1>1, TypeCorrect, PTL DEF Spec, OneDayAtATime

-----------------------------------------------------------------------------
(* Destinations.  What is stored fits because everything on the way to it  *)
(* does: a draft's target fits its type or is still nobody, and a form     *)
(* that asks for a destination sends no draft without a target.            *)

AllFit(t) == \A i \in Id : t[i] # Gone => Fits(t[i].dest, "id")
MayFit(dest) == dest.target = Nobody \/ Fits(dest, "id")
FormFits(form) == MayFit(form.draft.dest)
RequestFits(r) == /\ AllFit(r.shown) /\ AllFit(r.answer) /\ r.kind # "import"
                  /\ r.kind \in {"create", "patch"} => Fits(r.body.dest, "id")

WithDestination == page \in {"inbound", "schedules"}
DestinationsFit == /\ AllFit(db) /\ AllFit(list)
                   /\ \A f \in Slot : FormFits(forms[f])
                   /\ \A r \in reqs : RequestFits(r)

\* What the two pages have in common.
LEMMA DestinationPages ==
  ASSUME WithDestination
  PROVE  /\ \A form \in {This.add, This.edit} : /\ form.keyBy = "id"
                                                /\ "dest" \in form.checks
                                                /\ "dest" \in form.controls \ {"file"}
         /\ This.add.start.dest = NoDestination
         /\ ~This.imports /\ This.after = "answer" /\ ~This.selects
<1>1. PageOf["inbound"] = Inbound /\ PageOf["schedules"] = Schedules
  BY DEF PageOf
<1>2. \A p \in {Inbound, Schedules} : /\ p.add \in {AddRouteDialog, AddTimeConditionDialog}
                                     /\ p.edit \in {EditRouteDialog, EditTimeConditionDialog}
                                     /\ ~p.imports /\ p.after = "answer" /\ ~p.selects
  BY DEF Inbound, Schedules, Page
<1>3. \A form \in {AddRouteDialog, AddTimeConditionDialog, EditRouteDialog, EditTimeConditionDialog} :
        form.keyBy = "id" /\ "dest" \in form.checks /\ "dest" \in form.controls \ {"file"}
  BY DEF AddRouteDialog, AddTimeConditionDialog, EditRouteDialog, EditTimeConditionDialog, Form
<1>4. AddRouteDialog.start = Blank
  BY DEF AddRouteDialog, Form
<1>5. AddTimeConditionDialog.start = [Blank EXCEPT !.days = {<<0, Week - 1>>}]
  BY DEF AddTimeConditionDialog, Form
<1>6. \A ds : [Blank EXCEPT !.days = ds].dest = NoDestination /\ Blank.dest = NoDestination
  BY DEF Blank
<1>7. This \in {Inbound, Schedules}
  BY <1>1 DEF This, WithDestination
<1>8. QED
  BY <1>2, <1>3, <1>4, <1>5, <1>6, <1>7

LEMMA RestFits ==
  ASSUME WithDestination
  PROVE  /\ FormFits(ClosedForm)
         /\ FormFits(EmptyForm)
         /\ \A f : FormFits(AtRest(f))
         /\ AllFit(NoTable)
<1>1. FormFits(ClosedForm)
  BY DEF FormFits, MayFit, ClosedForm, Blank, NoDestination
<1>2. FormFits(EmptyForm)
  <2>1. EmptyForm.draft = This.add.start
    BY DEF EmptyForm, ClosedForm
  <2>2. QED
    BY <2>1, DestinationPages DEF FormFits, MayFit, NoDestination
<1>3. AllFit(NoTable)
  BY DEF AllFit, NoTable
<1>4. QED
  BY <1>1, <1>2, <1>3 DEF AtRest

\* Requests that have something changed about them which is not a row.
LEMMA StillFits ==
  ASSUME NEW q \in ReqState, RequestFits(q)
  PROVE  /\ RequestFits([q EXCEPT !.clean = FALSE])
         /\ RequestFits([q EXCEPT !.mine = Inline])
         /\ RequestFits([q EXCEPT !.deaf = TRUE])
         /\ RequestFits([q EXCEPT !.phase = "served", !.result = "refused"])
BY DEF RequestFits, ReqState

LEMMA SetsFit ==
  ASSUME NEW rs \in SUBSET ReqState, \A q \in rs : RequestFits(q), NEW f
  PROVE  /\ \A q \in Overtaken(rs) : RequestFits(q)
         /\ \A q \in Orphaned(rs, f) : RequestFits(q)
         /\ \A q \in {[p EXCEPT !.deaf = TRUE] : p \in rs} : RequestFits(q)
<1>1. \A q \in rs : /\ RequestFits([q EXCEPT !.clean = FALSE])
                    /\ RequestFits([q EXCEPT !.mine = Inline])
                    /\ RequestFits([q EXCEPT !.deaf = TRUE])
  BY StillFits
<1>2. QED
  BY <1>1 DEF Overtaken, Orphaned

LEMMA RequestFitsByKind ==
  ASSUME TypeOK, WithDestination, NEW form, NEW id, NEW f,
         NEW kind, kind # "import", kind \in {"create", "patch"} => Fits(form.draft.dest, "id")
  PROVE  RequestFits(Request(kind, id, f, form))
BY RestFits DEF RequestFits, Request

LEMMA LoadingFits == ASSUME TypeOK, WithDestination PROVE RequestFits(Loading)
BY RequestFitsByKind DEF Loading

\* The picker of a destination.
LEMMA ChoicesFit ==
  ASSUME NEW dest \in Destination, MayFit(dest), NEW d \in Choices(dest, "id")
  PROVE  MayFit(d)
<1>1. CASE \E t : d = WithType(dest, t)
  BY <1>1 DEF WithType, MayFit
<1>2. CASE \E x \in getTargetOptions(dest.type, "id") : d = [dest EXCEPT !.target = x]
  BY <1>2 DEF MayFit, Fits, Destination
<1>3. QED
  BY <1>1, <1>2 DEF Choices

LEMMA CompleteFits ==
  ASSUME NEW dest \in Destination, MayFit(dest), Refined(dest)
  PROVE  Fits(dest, "id")
BY NumberAssumption DEF MayFit, Refined, Fits, Nobody

-----------------------------------------------------------------------------
(* ... kept by every action.                                               *)

LEMMA EditFits ==
  ASSUME TypeOK, WithDestination, DestinationsFit, NEW f \in Slot, Edit(f)
  PROVE  DestinationsFit'
<1>. DEFINE old == forms[f].draft
<1>0. old \in Row /\ old.dest \in Destination /\ MayFit(old.dest)
  BY DEF TypeOK, FormState, Row, DestinationsFit, FormFits
<1>1. ASSUME NEW field, NEW draft, Changed(f, field, draft), MayFit(draft.dest)
      PROVE  DestinationsFit'
  <2>1. \A g \in Slot : forms'[g].draft = IF g = f THEN draft ELSE forms[g].draft
    BY <1>1 DEF Changed, TypeOK, FormState
  <2>2. UNCHANGED <<db, list, reqs>>
    BY <1>1 DEF Changed
  <2>3. QED
    BY <1>1, <2>1, <2>2 DEF DestinationsFit, FormFits, AllFit, RequestFits
<1>2. /\ \A t : [old EXCEPT !.text = t].dest = old.dest
      /\ \A ms : [old EXCEPT !.members = ms].dest = old.dest
      /\ \A d : [old EXCEPT !.days = toggleDay(old.days, d)].dest = old.dest
      /\ \A os : [old EXCEPT !.options = os].dest = old.dest
      /\ [old EXCEPT !.cid = ~old.cid].dest = old.dest
      /\ [old EXCEPT !.file = TRUE].dest = old.dest
  BY <1>0 DEF Row
<1>3. CASE Choose(f)
  <2>1. PICK d \in Choices(old.dest, FormOf(f).keyBy) : Changed(f, "dest", [old EXCEPT !.dest = d])
    BY <1>3 DEF Choose
  <2>2. FormOf(f).keyBy = "id"
    BY DestinationPages DEF FormOf
  <2>3. MayFit(d)
    BY <1>0, <2>1, <2>2, ChoicesFit
  <2>4. [old EXCEPT !.dest = d].dest = d
    BY <1>0 DEF Row
  <2>5. QED
    BY <1>1, <2>1, <2>3, <2>4
<1>4. CASE \E t \in Text : Type(f, t)
  BY <1>0, <1>1, <1>2, <1>4 DEF Type
<1>5. CASE \E m \in Member : ToggleMember(f, m)
  BY <1>0, <1>1, <1>2, <1>5 DEF ToggleMember
<1>6. CASE \E d \in Day : ToggleDay(f, d)
  BY <1>0, <1>1, <1>2, <1>6 DEF ToggleDay
<1>7. CASE PickCid(f) \/ PickFile(f)
  BY <1>0, <1>1, <1>2, <1>7 DEF PickCid, PickFile
<1>8. CASE EditOptions(f)
  BY <1>0, <1>1, <1>2, <1>8 DEF EditOptions
<1>9. QED
  BY <1>3, <1>4, <1>5, <1>6, <1>7, <1>8 DEF Edit

LEMMA UserFits ==
  ASSUME TypeOK, WithDestination, DestinationsFit, User
  PROVE  DestinationsFit'
<1>0. /\ db \in Table /\ list \in Table /\ forms \in [Slot -> FormState] /\ reqs \subseteq ReqState
      /\ AllFit(db) /\ AllFit(list) /\ \A f \in Slot : FormFits(forms[f])
      /\ \A r \in reqs : RequestFits(r)
  BY DEF TypeOK, DestinationsFit
<1>1. CASE OpenAdd
  <2>1. \A f \in Slot : forms'[f] = forms[f] \/ forms'[f] = EmptyForm
    BY <1>0, <1>1 DEF OpenAdd
  <2>2. \A f \in Slot : FormFits(forms[f])'
    BY <1>0, <2>1, RestFits DEF FormFits
  <2>3. UNCHANGED <<db, list, reqs>>
    BY <1>1 DEF OpenAdd
  <2>4. QED
    BY <1>0, <2>2, <2>3 DEF DestinationsFit, AllFit, RequestFits
<1>2. CASE DropGreeting
  BY <1>2, DestinationPages DEF DropGreeting, WithDestination
<1>3. CASE KeepRow
  BY <1>0, <1>3 DEF KeepRow, DestinationsFit, AllFit, RequestFits, FormFits
<1>4. CASE Import
  BY <1>4, DestinationPages DEF Import
<1>5. CASE Reload
  <2>1. \A f \in Slot : FormFits(forms[f])'
    BY <1>5, RestFits DEF Reload, FormsAtRest, FormFits
  <2>2. \A r \in reqs' : RequestFits(r)
    BY <1>0, <1>5, SetsFit, LoadingFits DEF Reload
  <2>3. AllFit(list') /\ db' = db
    BY <1>5, RestFits DEF Reload
  <2>4. QED
    BY <1>0, <2>1, <2>2, <2>3 DEF DestinationsFit, AllFit, RequestFits
<1>6. ASSUME NEW i \in Id, StartEdit(i)
      PROVE  DestinationsFit'
  <2>1. list[i] \in Row /\ Fits(list[i].dest, "id")
    BY <1>0, <1>6 DEF StartEdit, Table, AllFit
  <2>2. Opened(This.edit, list[i]).dest = list[i].dest
    BY DestinationPages DEF Opened, Field
  <2>3. \A f \in Slot : forms'[f].draft = forms[f].draft \/ forms'[f].draft = Opened(This.edit, list[i])
    BY <1>0, <1>6 DEF StartEdit
  <2>4. \A f \in Slot : FormFits(forms[f])'
    BY <1>0, <2>1, <2>2, <2>3 DEF FormFits, MayFit
  <2>5. UNCHANGED <<db, list, reqs>>
    BY <1>6 DEF StartEdit
  <2>6. QED
    BY <1>0, <2>4, <2>5 DEF DestinationsFit, AllFit, RequestFits
<1>7. ASSUME NEW i \in Id, AskDelete(i)
      PROVE  DestinationsFit'
  BY <1>0, <1>7 DEF AskDelete, DestinationsFit, AllFit, RequestFits, FormFits
<1>8. ASSUME NEW r, RequestFits(r), Write(r)
      PROVE  \A q \in reqs' : RequestFits(q)
  BY <1>0, <1>8 DEF Write
<1>9. ASSUME NEW i \in Id, Delete(i)
      PROVE  DestinationsFit'
  <2>1. RequestFits(Request("delete", i, "none", ClosedForm))
    BY RequestFitsByKind
  <2>2. \A q \in reqs' : RequestFits(q)
    BY <1>8, <1>9, <2>1 DEF Delete
  <2>3. UNCHANGED <<db, list, forms>>
    BY <1>9 DEF Delete
  <2>4. QED
    BY <1>0, <2>2, <2>3 DEF DestinationsFit, AllFit, FormFits
<1>10. ASSUME NEW i \in Id, Select(i)
       PROVE  DestinationsFit'
  BY <1>10, DestinationPages DEF Select
<1>11. ASSUME NEW f \in Slot, Submit(f)
       PROVE  DestinationsFit'
  <2>. DEFINE kind == IF forms[f].id = New THEN "create" ELSE "patch"
  <2>1. forms[f].draft.dest \in Destination /\ MayFit(forms[f].draft.dest)
    BY <1>0 DEF FormState, Row, FormFits
  <2>2. Refined(forms[f].draft.dest)
    BY <1>11, DestinationPages DEF Submit, Complete, FormOf
  <2>3. RequestFits(Request(kind, forms[f].id, f, forms[f]))
    BY <2>1, <2>2, CompleteFits, RequestFitsByKind
  <2>4. \A q \in reqs' : RequestFits(q)
    BY <1>8, <1>11, <2>3 DEF Submit
  <2>5. \A g \in Slot : forms'[g].draft = forms[g].draft
    BY <1>0, <1>11 DEF Submit, FormState
  <2>6. UNCHANGED <<db, list>>
    BY <1>11 DEF Submit
  <2>7. QED
    BY <1>0, <2>4, <2>5, <2>6 DEF DestinationsFit, AllFit, FormFits
<1>12. ASSUME NEW f \in Slot, CloseForm(f)
       PROVE  DestinationsFit'
  <2>1. forms'[f].draft = AtRest(f).draft /\ \A g \in Slot \ {f} : forms'[g] = forms[g]
    <3>1. [AtRest(f) EXCEPT !.busy = Inline /\ forms[f].busy].draft = AtRest(f).draft
      BY RestTypes DEF FormState
    <3>2. QED
      BY <1>0, <1>12, <3>1 DEF CloseForm
  <2>2. \A g \in Slot : FormFits(forms[g])'
    BY <1>0, <2>1, RestFits DEF FormFits
  <2>3. \A q \in reqs' : RequestFits(q)
    BY <1>0, <1>12, SetsFit DEF CloseForm
  <2>4. UNCHANGED <<db, list>>
    BY <1>12 DEF CloseForm
  <2>5. QED
    BY <1>0, <2>2, <2>3, <2>4 DEF DestinationsFit, AllFit
<1>13. QED
  BY <1>1, <1>2, <1>3, <1>4, <1>5, <1>6, <1>7, <1>9, <1>10, <1>11, <1>12, EditFits DEF User

\* A table in which one row has been replaced.
LEMMA UpdateFits ==
  ASSUME db \in Table, AllFit(db), NEW t, NEW i,
         \A j \in Id \ {i} : t[j] = db[j],
         i \in Id => t[i] = Gone \/ Fits(t[i].dest, "id")
  PROVE  AllFit(t)
BY DEF AllFit

LEMMA ServedFits ==
  ASSUME TypeOK, WithDestination, DestinationsFit, NEW r \in reqs, ~Refused(r), NEW s \in Served(r)
  PROVE  AllFit(s.db)
<1>0. /\ r \in ReqState /\ db \in Table /\ AllFit(db) /\ RequestFits(r)
      /\ r.id \in Id \cup {New} /\ r.body \in Row
  BY DEF TypeOK, DestinationsFit, ReqState
<1>1. \A row : /\ Stored(This.add, r.body, row).dest = r.body.dest
               /\ Stored(This.edit, r.body, row).dest = r.body.dest
  BY DestinationPages DEF Stored, Field
<1>2. \A i : /\ \A row : \A j \in Id \ {i} : [db EXCEPT ![i] = row][j] = db[j]
             /\ i \in Id => \A row : [db EXCEPT ![i] = row][i] = row
  BY <1>0 DEF Table
<1>3. CASE r.kind = "create"
  <2>. DEFINE row == Stored(This.add, r.body, Blank)
  <2>1. PICK i \in Id : s.db = [db EXCEPT ![i] = row]
    BY <1>3 DEF Served
  <2>2. Fits(row.dest, "id")
    BY <1>0, <1>1, <1>3 DEF RequestFits
  <2>. HIDE DEF row
  <2>3. s.db[i] = row /\ \A j \in Id \ {i} : s.db[j] = db[j]
    BY <1>2, <2>1
  <2>4. QED
    BY <1>0, <2>2, <2>3, UpdateFits
<1>4. CASE r.kind = "patch"
  <2>. DEFINE row == Stored(This.edit, r.body, db[r.id])
  <2>1. s.db = [db EXCEPT ![r.id] = row]
    BY <1>4 DEF Served
  <2>2. Fits(row.dest, "id")
    BY <1>0, <1>1, <1>4 DEF RequestFits
  <2>. HIDE DEF row
  <2>3. (r.id \in Id => s.db[r.id] = row) /\ \A j \in Id \ {r.id} : s.db[j] = db[j]
    BY <1>2, <2>1
  <2>4. QED
    BY <1>0, <2>2, <2>3, UpdateFits
<1>5. CASE r.kind \in {"select", "greeting", "ungreet"}
  <2>1. r.id \in Id => db[r.id] \in Row /\ Fits(db[r.id].dest, "id")
    BY <1>0, <1>5, GoneIsNoRow DEF Refused, Table, AllFit
  <2>2. PICK row : s.db = [db EXCEPT ![r.id] = row] /\ (r.id \in Id => row.dest = db[r.id].dest)
    <3>1. CASE r.kind = "select"
      <4>1. s.db = [db EXCEPT ![r.id] = [db[r.id] EXCEPT !.cid = r.body.cid]]
        BY <3>1 DEF Served
      <4>2. r.id \in Id => [db[r.id] EXCEPT !.cid = r.body.cid].dest = db[r.id].dest
        BY <2>1 DEF Row
      <4>3. QED
        BY <4>1, <4>2
    <3>2. CASE r.kind = "greeting"
      <4>1. s.db = [db EXCEPT ![r.id] = [db[r.id] EXCEPT !.file = TRUE]]
        BY <3>2 DEF Served
      <4>2. r.id \in Id => [db[r.id] EXCEPT !.file = TRUE].dest = db[r.id].dest
        BY <2>1 DEF Row
      <4>3. QED
        BY <4>1, <4>2
    <3>3. CASE r.kind = "ungreet"
      <4>1. s.db = [db EXCEPT ![r.id] = [db[r.id] EXCEPT !.file = FALSE]]
        BY <3>3 DEF Served
      <4>2. r.id \in Id => [db[r.id] EXCEPT !.file = FALSE].dest = db[r.id].dest
        BY <2>1 DEF Row
      <4>3. QED
        BY <4>1, <4>2
    <3>4. QED
      BY <1>5, <3>1, <3>2, <3>3
  <2>3. (r.id \in Id => s.db[r.id] = row) /\ \A j \in Id \ {r.id} : s.db[j] = db[j]
    BY <1>2, <2>2
  <2>4. QED
    BY <1>0, <2>1, <2>2, <2>3, UpdateFits
<1>6. CASE r.kind = "delete"
  <2>1. s.db = [db EXCEPT ![r.id] = Gone]
    BY <1>6 DEF Served
  <2>2. (r.id \in Id => s.db[r.id] = Gone) /\ \A j \in Id \ {r.id} : s.db[j] = db[j]
    BY <1>2, <2>1
  <2>3. QED
    BY <1>0, <2>2, UpdateFits
<1>7. CASE r.kind = "load"
  BY <1>0, <1>7 DEF Served
<1>8. QED
  BY <1>0, <1>3, <1>4, <1>5, <1>6, <1>7 DEF ReqState, RequestFits

LEMMA BackendFits ==
  ASSUME TypeOK, WithDestination, DestinationsFit,
         \/ \E i \in Id : OtherAdmin(i)
         \/ \E r \in reqs : Serve(r) \/ Lose(r)
  PROVE  DestinationsFit'
<1>0. /\ db \in Table /\ reqs \subseteq ReqState /\ AllFit(db)
      /\ \A r \in reqs : RequestFits(r)
  BY DEF TypeOK, DestinationsFit
<1>1. ASSUME NEW r \in reqs, Serve(r)
      PROVE  DestinationsFit'
  <2>1. UNCHANGED <<list, forms>>
    BY <1>1 DEF Serve
  <2>2. CASE /\ ~Refused(r)
             /\ \E s \in Served(r) : db' = s.db /\ reqs' = Beside(r) \cup {Answer(r, s)}
    <3>1. PICK s \in Served(r) : db' = s.db /\ reqs' = Beside(r) \cup {Answer(r, s)}
      BY <2>2
    <3>2. AllFit(s.db)
      BY <2>2, ServedFits
    <3>. DEFINE heard == [i \in Id |-> IF r.kind = "load" \/ i = s.id THEN s.db[i] ELSE Gone]
    <3>3. AllFit(heard)
      BY <3>2 DEF AllFit
    <3>. HIDE DEF heard
    <3>4. RequestFits([r EXCEPT !.phase = "served", !.result = "ok", !.id = s.id, !.answer = heard])
      BY <1>0, <3>3 DEF RequestFits, ReqState
    <3>5. RequestFits(Answer(r, s))
      BY <3>4 DEF Answer, heard
    <3>6. \A q \in Beside(r) : RequestFits(q)
      <4>1. reqs \ {r} \in SUBSET ReqState /\ \A q \in reqs \ {r} : RequestFits(q)
        BY <1>0
      <4>2. \A q \in Overtaken(reqs \ {r}) : RequestFits(q)
        BY <4>1, SetsFit
      <4>3. QED
        BY <4>1, <4>2 DEF Beside
    <3>7. \A q \in reqs' : RequestFits(q)
      BY <3>1, <3>5, <3>6
    <3>8. QED
      BY <2>1, <3>1, <3>2, <3>7 DEF DestinationsFit, AllFit, FormFits
  <2>3. CASE /\ reqs' = (reqs \ {r}) \cup {[r EXCEPT !.phase = "served", !.result = "refused"]}
             /\ UNCHANGED db
    <3>1. \A q \in reqs' : RequestFits(q)
      BY <1>0, <2>3, StillFits
    <3>2. QED
      BY <2>1, <2>3, <3>1 DEF DestinationsFit, AllFit, FormFits
  <2>4. QED
    BY <1>1, <2>2, <2>3 DEF Serve
<1>2. ASSUME NEW r \in reqs, Lose(r)
      PROVE  DestinationsFit'
  <2>1. RequestFits([r EXCEPT !.phase = "served", !.result = "lost", !.answer = NoTable])
    BY <1>0, RestFits DEF RequestFits, ReqState
  <2>2. \A q \in reqs' : RequestFits(q)
    BY <1>0, <1>2, <2>1 DEF Lose
  <2>3. UNCHANGED <<db, list, forms>>
    BY <1>2 DEF Lose
  <2>4. QED
    BY <2>2, <2>3 DEF DestinationsFit, AllFit, FormFits
<1>3. ASSUME NEW i \in Id, OtherAdmin(i)
      PROVE  DestinationsFit'
  <2>1. db[i] \in Row
    BY <1>0, <1>3 DEF OtherAdmin, Table
  <2>2. \A t : [db[i] EXCEPT !.text = t].dest = db[i].dest
    BY <2>1 DEF Row
  <2>3. PICK row : db' = [db EXCEPT ![i] = row] /\ (row = Gone \/ row.dest = db[i].dest)
    BY <1>3, <2>2 DEF OtherAdmin
  <2>a. Fits(db[i].dest, "id")
    BY <1>0, <2>1, GoneIsNoRow DEF AllFit
  <2>b. db'[i] = row /\ \A j \in Id \ {i} : db'[j] = db[j]
    BY <1>0, <2>3 DEF Table
  <2>c. AllFit(db')
    BY <1>0, <2>3, <2>a, <2>b, UpdateFits
  <2>4. \A q \in reqs' : RequestFits(q)
    BY <1>0, <1>3, SetsFit DEF OtherAdmin
  <2>5. UNCHANGED <<list, forms>>
    BY <1>3 DEF OtherAdmin
  <2>6. QED
    BY <2>c, <2>4, <2>5 DEF DestinationsFit, AllFit, FormFits
<1>4. QED
  BY <1>1, <1>2, <1>3

LEMMA HearFits ==
  ASSUME TypeOK, WithDestination, DestinationsFit, NEW r \in reqs, Hear(r)
  PROVE  DestinationsFit'
<1>0. /\ list \in Table /\ forms \in [Slot -> FormState] /\ reqs \subseteq ReqState
      /\ AllFit(db) /\ AllFit(list) /\ \A f \in Slot : FormFits(forms[f])
      /\ \A q \in reqs : RequestFits(q)
      /\ r \in ReqState /\ Rest(r) \subseteq reqs /\ AllFit(r.answer) /\ AllFit(r.shown)
  BY DEF TypeOK, DestinationsFit, RequestFits, Rest
<1>a. \A q \in Rest(r) : RequestFits(q)
  BY <1>0
<1>b. Rest(r) \in SUBSET ReqState
  BY <1>0
<1>c. \A f : \A q \in Orphaned(Rest(r), f) : RequestFits(q)
  BY <1>a, <1>b, SetsFit
<1>e. \A q \in {[p EXCEPT !.deaf = TRUE] : p \in Rest(r)} : RequestFits(q)
  BY <1>a, <1>b, SetsFit
<1>. DEFINE Page2 == /\ AllFit(list')
                     /\ \A f \in Slot : FormFits(forms'[f])
                     /\ \A q \in reqs' : RequestFits(q)
<1>1. ASSUME NEW table, AllFit(table), Done(r, table)
      PROVE  Page2
  <2>1. AllFit(list')
    BY <1>0, <1>1, DestinationPages DEF Done, Placed, AllFit, Table
  <2>2. \A f \in Slot : forms'[f] = forms[f] \/ forms'[f] = AtRest(r.form)
    BY <1>0, <1>1 DEF Done, WithDestination
  <2>3. \A q \in reqs' : RequestFits(q)
    BY <1>1, <1>c, DestinationPages DEF Done
  <2>4. QED
    BY <1>0, <2>1, <2>2, <2>3, RestFits
<1>2. \A f \in Slot : FormFits(Freed(r)[f])
  BY <1>0 DEF Freed, FormFits, FormState
<1>3. ASSUME HearLoad(r)
      PROVE  Page2
  <2>1. CASE Crash(r)
    <3>. DEFINE deafened == {[p EXCEPT !.deaf = TRUE] : p \in Rest(r)}
    <3>0. reqs' = deafened
      BY <2>1, Zenon DEF Crash
    <3>1. \A q \in reqs' : RequestFits(q)
      BY <1>e, <3>0
    <3>2. \A f \in Slot : FormFits(forms'[f])
      BY <2>1, RestFits DEF Crash
    <3>3. UNCHANGED list
      BY <2>1 DEF Crash
    <3>4. QED
      BY <1>0, <3>1, <3>2, <3>3
  <2>2. CASE ~Crash(r)
    BY <1>0, <1>3, <2>2 DEF HearLoad, FormsAfterLoad
  <2>3. QED
    BY <2>1, <2>2
<1>4. ASSUME HearSave(r)
      PROVE  Page2
  <2>1. CASE Failed(r)
    BY <1>0, <1>2, <1>4, <2>1 DEF HearSave
  <2>2. CASE ~Failed(r) /\ r.body.file
    <3>. DEFINE next == [r EXCEPT !.kind = "greeting", !.phase = "sent", !.result = "none",
                                  !.shown = r.answer, !.answer = NoTable]
    <3>0. reqs' = Rest(r) \cup {next}
      BY <1>4, <2>2 DEF HearSave
    <3>1. RequestFits(next)
      BY <1>0, RestFits DEF RequestFits, ReqState
    <3>. HIDE DEF next
    <3>2. \A q \in reqs' : RequestFits(q)
      BY <1>a, <3>0, <3>1
    <3>3. QED
      BY <1>0, <1>4, <2>2, <3>2 DEF HearSave
  <2>3. CASE ~Failed(r) /\ ~r.body.file
    BY <1>0, <1>1, <1>4, <2>3 DEF HearSave
  <2>4. QED
    BY <2>1, <2>2, <2>3
<1>5. ASSUME HearGreeting(r)
      PROVE  Page2
  BY <1>0, <1>1, <1>2, <1>5 DEF HearGreeting
<1>6. ASSUME HearDelete(r)
      PROVE  Page2
  <2>1. AllFit(list')
    BY <1>0, <1>6 DEF HearDelete, AllFit, Table
  <2>2. QED
    BY <1>0, <1>6, <2>1 DEF HearDelete
<1>7. ASSUME HearSelect(r)
      PROVE  Page2
  BY <1>0, <1>7 DEF HearSelect
<1>8. ASSUME HearUngreet(r) \/ Forget(r)
      PROVE  Page2
  BY <1>0, <1>8 DEF HearUngreet, Forget
<1>9. ASSUME HearImport(r)
      PROVE  Page2
  BY <1>0, <1>9 DEF HearImport, RequestFits
<1>10. Page2
  BY <1>3, <1>4, <1>5, <1>6, <1>7, <1>8, <1>9 DEF Hear
<1>11. UNCHANGED db
  BY DEF Hear
<1>12. QED
  BY <1>0, <1>10, <1>11 DEF DestinationsFit, AllFit, FormFits

-----------------------------------------------------------------------------

FitInv == TypeOK /\ (WithDestination => DestinationsFit)

LEMMA SamePage == ASSUME Next PROVE page' = page
<1>1. User => page' = page
  <2>1. \A f : Edit(f) => page' = page
    <3>1. \A f, x, d : Changed(f, x, d) => page' = page
      BY DEF Changed
    <3>2. QED
      BY <3>1, Zenon DEF Edit, Type, ToggleMember, ToggleDay, PickCid, PickFile, Choose, EditOptions
  <2>2. OpenAdd \/ DropGreeting \/ KeepRow \/ Import \/ Reload => page' = page
    BY DEF OpenAdd, DropGreeting, KeepRow, Import, Reload
  <2>3. \A i : StartEdit(i) \/ AskDelete(i) \/ Delete(i) \/ Select(i) => page' = page
    BY DEF StartEdit, AskDelete, Delete, Select
  <2>4. \A f : Submit(f) \/ CloseForm(f) => page' = page
    BY DEF Submit, CloseForm
  <2>5. QED
    BY <2>1, <2>2, <2>3, <2>4 DEF User
<1>2. \A i : OtherAdmin(i) => page' = page
  BY Zenon DEF OtherAdmin
<1>3. \A r : Serve(r) \/ Lose(r) \/ Hear(r) => page' = page
  BY Zenon DEF Serve, Lose, Hear
<1>4. QED
  BY <1>1, <1>2, <1>3 DEF Next

LEMMA InitFits == Init => FitInv
<1> SUFFICES ASSUME Init, WithDestination
             PROVE  DestinationsFit
  BY InitType DEF FitInv
<1>1. \A row \in SampleRows : Fits(row.dest, "id")
  <2>2. CASE page = "inbound"
    <3>. DEFINE R(g) == [Sample EXCEPT !.dest = [type |-> "ring_group", target |-> g]]
    <3>1. \A g \in GroupId : R(g).dest.type = "ring_group" /\ R(g).dest.target = g
      BY DEF Sample, Blank
    <3>2. SampleRows = {R(g) : g \in GroupId}
      BY <2>2 DEF SampleRows
    <3>. HIDE DEF R
    <3>3. \A g \in GroupId : Fits(R(g).dest, "id")
      BY <3>1 DEF Fits, getTargetOptions
    <3>4. QED
      BY <3>2, <3>3
  <2>3. CASE page = "schedules"
    <3>. DEFINE R(w) == [Sample EXCEPT !.days = w, !.dest = [type |-> "hangup", target |-> Nobody]]
    <3>1. \A w \in Wordings : R(w).dest = [type |-> "hangup", target |-> Nobody]
      BY DEF Sample, Blank
    <3>2. SampleRows = {R(w) : w \in Wordings}
      BY <2>3 DEF SampleRows
    <3>. HIDE DEF R
    <3>3. \A w \in Wordings : Fits(R(w).dest, "id")
      BY <3>1 DEF Fits
    <3>4. QED
      BY <3>2, <3>3
  <2>4. QED
    BY <2>2, <2>3 DEF WithDestination
<1>2. AllFit(db)
  BY <1>1 DEF Init, AllFit
<1>3. AllFit(list) /\ \A f \in Slot : FormFits(forms[f])
  BY RestFits DEF Init, FormsAtRest
<1>4. RequestFits(Loading)
  BY RestFits DEF Loading, Request, RequestFits
<1>5. QED
  BY <1>2, <1>3, <1>4 DEF DestinationsFit, Init

LEMMA NextFits == FitInv /\ [Next]_vars => FitInv'
<1> SUFFICES ASSUME TypeOK, WithDestination => DestinationsFit, [Next]_vars
             PROVE  WithDestination' => DestinationsFit'
  BY NextType DEF FitInv
<1>1. CASE UNCHANGED vars
  BY <1>1 DEF vars, WithDestination, DestinationsFit, AllFit, FormFits, RequestFits
<1>2. CASE Next
  <2>1. WithDestination' => WithDestination
    BY <1>2, SamePage DEF WithDestination
  <2>2. QED
    BY <1>2, <2>1, UserFits, BackendFits, HearFits DEF Next
<1>3. QED
  BY <1>1, <1>2

\* No route and no schedule is ever stored with a target of another kind than its type
\* says, whatever the order of the clicks, answers and refusals.
THEOREM TargetsFit == Spec => []TargetFitsType
<1>1. FitInv => TargetFitsType
  BY DEF FitInv, WithDestination, DestinationsFit, AllFit, TargetFitsType
<1>2. QED
  BY <1>1, InitFits, NextFits, PTL DEF Spec

-----------------------------------------------------------------------------
(* Edited rows.  A draft differs from the row it was opened on in the      *)
(* fields that have been touched, and so does what is sent of it.          *)

Editable == This.edit.controls \ {"file"}
FormHonest(form) ==
    form.id = New \/ \A x \in Field \ form.touched : x \in Editable => form.draft[x] = form.from[x]
RequestHonest(r) ==
    r.kind = "patch" => \A x \in Field \ r.touched : x \in Editable => r.body[x] = r.from[x]
Honest == /\ \A f \in Slot : FormHonest(forms[f])
          /\ page = "presence_rules" => \A f \in Slot : forms[f].id = New
          /\ \A r \in reqs : RequestHonest(r)

LEMMA RestHonest ==
  /\ ClosedForm.id = New /\ EmptyForm.id = New
  /\ \A f : AtRest(f).id = New
BY DEF ClosedForm, EmptyForm, AtRest

LEMMA StillHonest ==
  ASSUME NEW q \in ReqState, RequestHonest(q)
  PROVE  /\ RequestHonest([q EXCEPT !.clean = FALSE])
         /\ RequestHonest([q EXCEPT !.mine = Inline])
         /\ RequestHonest([q EXCEPT !.deaf = TRUE])
         /\ RequestHonest([q EXCEPT !.phase = "served", !.result = "refused"])
         /\ RequestHonest([q EXCEPT !.phase = "served", !.result = "lost", !.answer = NoTable])
BY DEF RequestHonest, ReqState

LEMMA SetsHonest ==
  ASSUME NEW rs \in SUBSET ReqState, \A q \in rs : RequestHonest(q)
  PROVE  /\ \A q \in Overtaken(rs) : RequestHonest(q)
         /\ \A f : \A q \in Orphaned(rs, f) : RequestHonest(q)
         /\ \A q \in {[p EXCEPT !.deaf = TRUE] : p \in rs} : RequestHonest(q)
<1>1. \A q \in rs : /\ RequestHonest([q EXCEPT !.clean = FALSE])
                    /\ RequestHonest([q EXCEPT !.mine = Inline])
                    /\ RequestHonest([q EXCEPT !.deaf = TRUE])
  BY StillHonest
<1>2. QED
  BY <1>1 DEF Overtaken, Orphaned

\* Only a patch has something to answer for.
LEMMA OtherKindsHonest ==
  /\ \A kind, id, f, form : kind # "patch" => RequestHonest(Request(kind, id, f, form))
  /\ RequestHonest(Loading)
BY DEF RequestHonest, Request, Loading

LEMMA ChangeHonest ==
  ASSUME TypeOK, Honest, NEW f \in Slot, NEW field, NEW draft, Changed(f, field, draft),
         \A x \in Field \ {field} : draft[x] = forms[f].draft[x]
  PROVE  Honest'
<1>1. \A g \in Slot : FormHonest(forms[g])' /\ forms'[g].id = forms[g].id
  <2>1. /\ forms[f] \in FormState /\ FormHonest(forms[f])
        /\ \A g \in Slot \ {f} : forms'[g] = forms[g] /\ FormHonest(forms[g])
    BY DEF TypeOK, Changed, Honest
  <2>2. /\ forms'[f].id = forms[f].id /\ forms'[f].from = forms[f].from
        /\ forms'[f].draft = draft /\ forms'[f].touched = forms[f].touched \cup {field}
    BY DEF TypeOK, Changed, FormState
  <2>3. page' = page
    BY DEF Changed
  <2>4. QED
    BY <2>1, <2>2, <2>3 DEF FormHonest, Editable, This
<1>2. UNCHANGED <<page, reqs>> /\ Editable' = Editable
  BY DEF Changed, Editable, This
<1>3. \A q \in reqs' : RequestHonest(q)'
  BY <1>2 DEF Honest, RequestHonest
<1>4. page' = "presence_rules" => \A g \in Slot : forms'[g].id = New
  BY <1>1, <1>2 DEF Honest
<1>5. \A g \in Slot : FormHonest(forms[g])'
  BY <1>1
<1>6. QED
  BY <1>3, <1>4, <1>5 DEF Honest

LEMMA EditHonest ==
  ASSUME TypeOK, Honest, NEW f \in Slot, Edit(f)
  PROVE  Honest'
<1>. DEFINE old == forms[f].draft
<1>0. old \in Row
  BY DEF TypeOK, FormState
<1>1. /\ \A t : \A x \in Field \ {"text"} : [old EXCEPT !.text = t][x] = old[x]
      /\ \A t : \A x \in Field \ {"members"} : [old EXCEPT !.members = t][x] = old[x]
      /\ \A d : \A x \in Field \ {"days"} : [old EXCEPT !.days = toggleDay(old.days, d)][x] = old[x]
      /\ \A t : \A x \in Field \ {"dest"} : [old EXCEPT !.dest = t][x] = old[x]
      /\ \A t : \A x \in Field \ {"options"} : [old EXCEPT !.options = t][x] = old[x]
      /\ \A x \in Field \ {"cid"} : [old EXCEPT !.cid = ~old.cid][x] = old[x]
      /\ \A x \in Field \ {"file"} : [old EXCEPT !.file = TRUE][x] = old[x]
  BY <1>0 DEF Row, Field
<1>2. CASE \E t \in Text : Type(f, t)
  <2>1. PICK t \in Text : Type(f, t)
    BY <1>2
  <2>. DEFINE new == [old EXCEPT !.text = t]
  <2>2. Changed(f, "text", new) /\ \A x \in Field \ {"text"} : new[x] = old[x]
    BY <1>1, <2>1 DEF Type
  <2>. HIDE DEF new
  <2>3. QED
    BY <2>2, ChangeHonest
<1>3. CASE \E m \in Member : ToggleMember(f, m)
  BY <1>1, <1>3, ChangeHonest DEF ToggleMember
<1>4. CASE \E d \in Day : ToggleDay(f, d)
  BY <1>1, <1>4, ChangeHonest DEF ToggleDay
<1>5. CASE PickCid(f) \/ PickFile(f)
  BY <1>1, <1>5, ChangeHonest DEF PickCid, PickFile
<1>6. CASE Choose(f)
  BY <1>1, <1>6, ChangeHonest DEF Choose
<1>7. CASE EditOptions(f)
  BY <1>1, <1>7, ChangeHonest DEF EditOptions
<1>8. QED
  BY <1>2, <1>3, <1>4, <1>5, <1>6, <1>7 DEF Edit

\* The parts a step may leave as they are.
LEMMA HonestKept ==
  ASSUME Honest, page' = page,
         \A f \in Slot : forms'[f] = forms[f] \/ forms'[f].id = New,
         \A q \in reqs' : RequestHonest(q)
  PROVE  Honest'
<1>1. Editable' = Editable
  BY DEF Editable, This
<1>2. \A q \in reqs' : RequestHonest(q)'
  BY <1>1 DEF RequestHonest
<1>3. \A f \in Slot : FormHonest(forms[f])'
  BY <1>1 DEF Honest, FormHonest
<1>4. page' = "presence_rules" => \A g \in Slot : forms'[g].id = New
  BY DEF Honest
<1>5. QED
  BY <1>2, <1>3, <1>4 DEF Honest

\* ... or change in a form without touching what it says.
LEMMA HonestFree ==
  ASSUME TypeOK, Honest, page' = page, NEW f,
         NEW b \in BOOLEAN, forms' = [forms EXCEPT ![f].busy = b],
         \A q \in reqs' : RequestHonest(q)
  PROVE  Honest'
<1>1. Editable' = Editable
  BY DEF Editable, This
<1>2. \A q \in reqs' : RequestHonest(q)'
  BY <1>1 DEF RequestHonest
<1>3. \A g \in Slot : /\ forms'[g].id = forms[g].id /\ forms'[g].touched = forms[g].touched
                      /\ forms'[g].draft = forms[g].draft /\ forms'[g].from = forms[g].from
  BY DEF TypeOK, FormState
<1>4. \A g \in Slot : FormHonest(forms[g])'
  BY <1>1, <1>3 DEF Honest, FormHonest
<1>5. page' = "presence_rules" => \A g \in Slot : forms'[g].id = New
  BY <1>3 DEF Honest
<1>6. QED
  BY <1>2, <1>4, <1>5 DEF Honest

LEMMA WriteHonest ==
  ASSUME TypeOK, Honest, NEW r, RequestHonest(r), Write(r)
  PROVE  \A q \in reqs' : RequestHonest(q)
BY DEF Honest, Write

LEMMA UserHonest == ASSUME TypeOK, Honest, User PROVE Honest'
<1>0. /\ forms \in [Slot -> FormState] /\ reqs \in SUBSET ReqState
      /\ \A q \in reqs : RequestHonest(q)
  BY DEF TypeOK, Honest
<1>a. page' = page
  BY SamePage DEF Next
<1>1. CASE OpenAdd
  <2>1. \A f \in Slot : forms'[f] = forms[f] \/ forms'[f] = EmptyForm
    BY <1>0, <1>1 DEF OpenAdd
  <2>2. QED
    BY <1>0, <1>1, <1>a, <2>1, RestHonest, HonestKept DEF OpenAdd
<1>2. CASE DropGreeting
  <2>1. \A q \in reqs' : RequestHonest(q)
    BY <1>0, <1>2, OtherKindsHonest DEF DropGreeting
  <2>2. QED
    BY <1>2, <1>a, <2>1, HonestKept DEF DropGreeting
<1>3. CASE KeepRow
  BY <1>0, <1>3, <1>a, HonestKept DEF KeepRow
<1>4. CASE Import
  <2>1. RequestHonest(Request("import", New, "none", ClosedForm))
    BY OtherKindsHonest
  <2>2. QED
    BY <1>4, <1>a, <2>1, WriteHonest, HonestKept DEF Import
<1>5. CASE Reload
  <2>1. \A f \in Slot : forms'[f].id = New
    BY <1>5, RestHonest DEF Reload, FormsAtRest
  <2>. DEFINE deafened == {[q EXCEPT !.deaf = TRUE] : q \in reqs}
  <2>2. \A q \in deafened : RequestHonest(q)
    BY <1>0, SetsHonest
  <2>3. reqs' = deafened \cup {Loading}
    BY <1>5 DEF Reload
  <2>. HIDE DEF deafened
  <2>4. \A q \in reqs' : RequestHonest(q)
    BY <2>2, <2>3, OtherKindsHonest
  <2>5. QED
    BY <1>a, <2>1, <2>4, HonestKept
<1>6. ASSUME NEW i \in Id, StartEdit(i)
      PROVE  Honest'
  <2>1. /\ forms'["edit"].draft = Opened(This.edit, list[i])
        /\ forms'["edit"].from = list[i]
        /\ \A g \in Slot \ {"edit"} : forms'[g] = forms[g]
    BY <1>0, <1>6 DEF StartEdit, Slot
  <2>2. \A x \in Field : x \in Editable => Opened(This.edit, list[i])[x] = list[i][x]
    BY DEF Opened, Editable
  <2>3. Editable' = Editable
    BY <1>a DEF Editable, This
  <2>4. \A g \in Slot : FormHonest(forms[g])'
    BY <2>1, <2>2, <2>3 DEF FormHonest, Honest
  <2>5. page # "presence_rules"
    <3>1. PageOf["presence_rules"].edit = NoForm
      BY DEF PageOf, PresenceRules, Page
    <3>2. QED
      BY <1>6, <3>1 DEF StartEdit, This
  <2>6. \A q \in reqs' : RequestHonest(q)'
    BY <1>0, <1>6, <2>3 DEF StartEdit, RequestHonest
  <2>7. QED
    BY <1>a, <2>4, <2>5, <2>6 DEF Honest
<1>7. ASSUME NEW i \in Id, AskDelete(i)
      PROVE  Honest'
  BY <1>0, <1>7, <1>a, HonestKept DEF AskDelete
<1>8. ASSUME NEW i \in Id, Delete(i)
      PROVE  Honest'
  <2>1. RequestHonest(Request("delete", i, "none", ClosedForm))
    BY OtherKindsHonest
  <2>2. QED
    BY <1>8, <1>a, <2>1, WriteHonest, HonestKept DEF Delete
<1>9. ASSUME NEW i \in Id, Select(i)
      PROVE  Honest'
  <2>. DEFINE plain == Request("select", i, "none", ClosedForm)
              r == [plain EXCEPT !.body.cid = ~list[i].cid, !.shown = list]
  <2>1. r.kind = "select"
    BY DEF Request
  <2>2. Write(r)
    BY <1>9 DEF Select
  <2>3. RequestHonest(r)
    BY <2>1 DEF RequestHonest
  <2>. HIDE DEF r
  <2>4. \A q \in reqs' : RequestHonest(q)
    BY <2>2, <2>3, WriteHonest
  <2>5. QED
    BY <1>9, <1>a, <2>4, HonestKept DEF Select
<1>10. ASSUME NEW f \in Slot, Submit(f)
       PROVE  Honest'
  <2>. DEFINE kind == IF forms[f].id = New THEN "create" ELSE "patch"
              r == Request(kind, forms[f].id, f, forms[f])
  <2>1. FormHonest(forms[f])
    BY DEF Honest
  <2>2. RequestHonest(r)
    BY <2>1 DEF FormHonest, RequestHonest, Request
  <2>3. Write(r)
    BY <1>10 DEF Submit
  <2>. HIDE DEF r
  <2>4. \A q \in reqs' : RequestHonest(q)
    BY <2>2, <2>3, WriteHonest
  <2>5. QED
    BY <1>10, <1>a, <2>4, HonestFree DEF Submit
<1>11. ASSUME NEW f \in Slot, CloseForm(f)
       PROVE  Honest'
  <2>1. forms'[f].id = New /\ \A g \in Slot \ {f} : forms'[g] = forms[g]
    <3>1. [AtRest(f) EXCEPT !.busy = Inline /\ forms[f].busy].id = AtRest(f).id
      BY RestTypes DEF FormState
    <3>2. QED
      BY <1>0, <1>11, <3>1, RestHonest DEF CloseForm
  <2>2. \A q \in Orphaned(reqs, f) : RequestHonest(q)
    BY <1>0, SetsHonest
  <2>3. QED
    BY <1>11, <1>a, <2>1, <2>2, HonestKept DEF CloseForm
<1>12. QED
  BY <1>1, <1>2, <1>3, <1>4, <1>5, <1>6, <1>7, <1>8, <1>9, <1>10, <1>11, EditHonest DEF User

LEMMA BackendHonest ==
  ASSUME TypeOK, Honest,
         \/ \E i \in Id : OtherAdmin(i)
         \/ \E r \in reqs : Serve(r) \/ Lose(r)
  PROVE  Honest'
<1>0. reqs \in SUBSET ReqState /\ \A q \in reqs : RequestHonest(q)
  BY DEF TypeOK, Honest
<1>a. page' = page
  BY SamePage DEF Next
<1>1. ASSUME NEW r \in reqs, Serve(r)
      PROVE  Honest'
  <2>1. CASE \E s \in Served(r) : reqs' = Beside(r) \cup {Answer(r, s)}
    <3>1. PICK s \in Served(r) : reqs' = Beside(r) \cup {Answer(r, s)}
      BY <2>1
    <3>2. r \in ReqState /\ RequestHonest(r)
      BY <1>0
    <3>3. \A id, heard :
            RequestHonest([r EXCEPT !.phase = "served", !.result = "ok", !.id = id, !.answer = heard])
      BY <3>2 DEF RequestHonest, ReqState
    <3>4. RequestHonest(Answer(r, s))
      BY <3>3, Zenon DEF Answer
    <3>5. \A q \in Beside(r) : RequestHonest(q)
      <4>1. reqs \ {r} \in SUBSET ReqState /\ \A q \in reqs \ {r} : RequestHonest(q)
        BY <1>0
      <4>2. \A q \in Overtaken(reqs \ {r}) : RequestHonest(q)
        BY <4>1, SetsHonest
      <4>3. QED
        BY <4>1, <4>2 DEF Beside
    <3>6. \A q \in reqs' : RequestHonest(q)
      BY <3>1, <3>4, <3>5
    <3>7. QED
      BY <1>1, <1>a, <3>6, HonestKept DEF Serve
  <2>2. CASE reqs' = (reqs \ {r}) \cup {[r EXCEPT !.phase = "served", !.result = "refused"]}
    <3>1. \A q \in reqs' : RequestHonest(q)
      BY <1>0, <2>2, StillHonest
    <3>2. QED
      BY <1>1, <1>a, <3>1, HonestKept DEF Serve
  <2>3. QED
    BY <1>1, <2>1, <2>2 DEF Serve
<1>2. ASSUME NEW r \in reqs, Lose(r)
      PROVE  Honest'
  <2>1. \A q \in reqs' : RequestHonest(q)
    BY <1>0, <1>2, StillHonest DEF Lose
  <2>2. QED
    BY <1>2, <1>a, <2>1, HonestKept DEF Lose
<1>3. ASSUME NEW i \in Id, OtherAdmin(i)
      PROVE  Honest'
  <2>1. \A q \in Overtaken(reqs) : RequestHonest(q)
    BY <1>0, SetsHonest
  <2>2. QED
    BY <1>3, <1>a, <2>1, HonestKept DEF OtherAdmin
<1>4. QED
  BY <1>1, <1>2, <1>3

LEMMA DoneHonest ==
  ASSUME TypeOK, Honest, page' = page, NEW r \in reqs, NEW table, Done(r, table)
  PROVE  Honest'
<1>1. Rest(r) \in SUBSET ReqState /\ \A q \in Rest(r) : RequestHonest(q)
  BY DEF TypeOK, Honest, Rest
<1>2. \A q \in Orphaned(Rest(r), r.form) : RequestHonest(q)
  BY <1>1, SetsHonest
<1>3. \A q \in reqs' : RequestHonest(q)
  BY <1>2, OtherKindsHonest DEF Done, LoadAgain
<1>4. \A f \in Slot : forms'[f] = forms[f] \/ forms'[f].id = New
  <2>1. forms \in [Slot -> FormState]
    BY DEF TypeOK
  <2>2. CASE page = "presence_rules"
    <3>1. \A f \in Slot : [forms[f] EXCEPT !.busy = FALSE, !.touched = {}].id = New
      BY <2>1, <2>2 DEF Honest, FormState
    <3>2. QED
      BY <2>1, <2>2, <3>1 DEF Done
  <2>3. CASE page # "presence_rules"
    BY <2>1, <2>3, RestHonest DEF Done
  <2>4. QED
    BY <2>2, <2>3
<1>5. QED
  BY <1>3, <1>4, HonestKept

LEMMA HearHonest == ASSUME TypeOK, Honest, NEW r \in reqs, Hear(r) PROVE Honest'
<1>a. page' = page
  BY DEF Hear
<1>b. Rest(r) \in SUBSET ReqState /\ \A q \in Rest(r) : RequestHonest(q)
  BY DEF TypeOK, Honest, Rest
<1>c. forms \in [Slot -> FormState]
  BY DEF TypeOK
<1>1. CASE HearLoad(r)
  <2>1. CASE Crash(r)
    <3>. DEFINE deafened == {[q EXCEPT !.deaf = TRUE] : q \in Rest(r)}
    <3>1. reqs' = deafened
      BY <2>1, Zenon DEF Crash
    <3>2. \A q \in deafened : RequestHonest(q)
      BY <1>b, SetsHonest
    <3>. HIDE DEF deafened
    <3>3. \A f \in Slot : forms'[f].id = New
      BY <2>1, RestHonest DEF Crash
    <3>4. QED
      BY <1>a, <3>1, <3>2, <3>3, HonestKept
  <2>2. CASE ~Crash(r)
    <3>1. forms' = forms /\ reqs' = Rest(r)
      BY <1>1, <2>2 DEF HearLoad, FormsAfterLoad
    <3>2. QED
      BY <1>a, <1>b, <3>1, HonestKept
  <2>3. QED
    BY <2>1, <2>2
<1>2. CASE \E table : Done(r, table)
  BY <1>2, <1>a, DoneHonest
<1>3. CASE forms' = Freed(r) /\ reqs' = Rest(r)
  <2>1. CASE forms' = forms
    BY <1>3, <1>a, <1>b, <2>1, HonestKept
  <2>2. CASE forms' = [forms EXCEPT ![r.form].busy = FALSE]
    BY <1>3, <1>a, <1>b, <2>2, HonestFree
  <2>3. QED
    BY <1>3, <2>1, <2>2 DEF Freed
<1>4. CASE HearSave(r) /\ ~Failed(r) /\ r.body.file
  <2>. DEFINE next == [r EXCEPT !.kind = "greeting", !.phase = "sent", !.result = "none",
                                !.shown = r.answer, !.answer = NoTable]
  <2>1. reqs' = Rest(r) \cup {next} /\ forms' = forms
    BY <1>4 DEF HearSave
  <2>2. r \in ReqState
    BY DEF TypeOK
  <2>3. next.kind = "greeting"
    BY <2>2 DEF ReqState
  <2>4. RequestHonest(next)
    BY <2>3 DEF RequestHonest
  <2>. HIDE DEF next
  <2>5. QED
    BY <1>a, <1>b, <2>1, <2>4, HonestKept
<1>5. CASE HearDelete(r) \/ HearSelect(r) \/ HearUngreet(r) \/ Forget(r)
  <2>1. forms' = forms /\ reqs' = Rest(r)
    BY <1>5 DEF HearDelete, HearSelect, HearUngreet, Forget
  <2>2. QED
    BY <1>a, <1>b, <2>1, HonestKept
<1>6. CASE HearImport(r)
  <2>1. \A q \in Orphaned(Rest(r), r.form) : RequestHonest(q)
    BY <1>b, SetsHonest
  <2>2. \A q \in reqs' : RequestHonest(q)
    BY <1>6, <1>b, <2>1, OtherKindsHonest DEF HearImport, LoadAgain
  <2>3. QED
    BY <1>6, <1>a, <2>2, HonestKept DEF HearImport
<1>7. QED
  BY <1>1, <1>2, <1>3, <1>4, <1>5, <1>6 DEF Hear, HearSave, HearGreeting

LEMMA InitHonest == Init => Honest
<1> SUFFICES ASSUME Init PROVE Honest
  OBVIOUS
<1>1. \A f \in Slot : forms[f].id = New
  BY RestHonest DEF Init, FormsAtRest
<1>2. RequestHonest(Loading)
  BY OtherKindsHonest
<1>3. QED
  BY <1>1, <1>2 DEF Honest, FormHonest, Init

LEMMA NextHonest == TypeOK /\ Honest /\ [Next]_vars => Honest'
<1> SUFFICES ASSUME TypeOK, Honest, [Next]_vars PROVE Honest'
  OBVIOUS
<1>1. CASE UNCHANGED vars
  BY <1>1 DEF vars, Honest, FormHonest, RequestHonest, Editable, This
<1>2. CASE Next
  BY <1>2, UserHonest, BackendHonest, HearHonest DEF Next
<1>3. QED
  BY <1>1, <1>2

\* What serving a patch does to the row that its form was opened on.
LEMMA PatchTouches ==
  ASSUME TypeOK, Honest, NEW r \in reqs, r.kind = "patch", db[r.id] = r.from, Serve(r),
         NEW x \in Field \ r.touched
  PROVE  db'[r.id][x] = db[r.id][x]
<1>1. CASE UNCHANGED db
  BY <1>1
<1>2. CASE \E s \in Served(r) : db' = s.db
  <2>1. PICK s \in Served(r) : db' = s.db
    BY <1>2
  <2>2. s.db = [db EXCEPT ![r.id] = Stored(This.edit, r.body, db[r.id])]
    BY DEF Served
  <2>3. CASE r.id \in Id
    <3>1. db'[r.id] = Stored(This.edit, r.body, db[r.id])
      BY <2>1, <2>2, <2>3 DEF TypeOK, Table
    <3>2. db'[r.id][x] = IF x \in Editable THEN r.body[x] ELSE db[r.id][x]
      BY <3>1 DEF Stored, Editable
    <3>3. x \in Editable => r.body[x] = r.from[x]
      BY DEF Honest, RequestHonest
    <3>4. QED
      BY <3>2, <3>3
  <2>4. CASE r.id \notin Id
    <3>1. [db EXCEPT ![r.id] = Stored(This.edit, r.body, db[r.id])] = db
      BY <2>4 DEF TypeOK, Table
    <3>2. QED
      BY <2>1, <2>2, <3>1, Zenon
  <2>5. QED
    BY <2>3, <2>4
<1>3. QED
  BY <1>1, <1>2 DEF Serve

\* Saving an edited row changes no field that the user has left alone, on every page.
THEOREM OnlyTouched == Spec => OnlyTouchedFieldsChange
<1>1. TypeOK /\ Honest /\ [Next]_vars =>
        \/ \A r \in reqs : r.kind = "patch" /\ db[r.id] = r.from /\ Serve(r) =>
             \A f \in Field \ r.touched : db'[r.id][f] = db[r.id][f]
        \/ UNCHANGED vars
  BY PatchTouches
<1>2. QED
  BY <1>1, InitType, NextType, InitHonest, NextHonest, PTL DEF Spec, OnlyTouchedFieldsChange
-----------------------------------------------------------------------------
(* What the user has typed.                                                *)

\* What form f shows stays.
SameDraft(f) == forms'[f].draft = forms[f].draft /\ forms'[f].open = forms[f].open

LEMMA UserKeepsDraft ==
  ASSUME TypeOK, User, clicks' = clicks, touches' = touches, NEW f \in Slot
  PROVE  SameDraft(f)
<1>1. clicks \in Nat /\ touches \in Nat
  BY DEF TypeOK
<1>2. ~Click /\ ~Touch
  BY <1>1 DEF Click, Touch
<1>3. \A g, x, d : ~Changed(g, x, d)
  BY <1>2 DEF Changed
<1>4. \A g : ~Edit(g)
  BY <1>3, Zenon DEF Edit, Type, ToggleMember, ToggleDay, PickCid, PickFile, Choose, EditOptions
<1>5. KeepRow
  BY <1>2, <1>4 DEF User, OpenAdd, DropGreeting, Import, Reload, StartEdit, AskDelete, Delete,
     Select, Submit, CloseForm
<1>6. QED
  BY <1>5 DEF KeepRow, SameDraft

LEMMA DoneKeepsDraft ==
  ASSUME TypeOK, NEW r, NEW table, Done(r, table), NEW f \in Slot, r.form # f
  PROVE  SameDraft(f)
BY DEF TypeOK, Done, SameDraft

LEMMA HearKeepsDraft ==
  ASSUME TypeOK, NEW r \in reqs, Hear(r), NEW f \in Slot, view' # "crashed",
         r.form = f => ~Writes(r)
  PROVE  SameDraft(f)
<1>1. CASE forms' = forms
  BY <1>1 DEF SameDraft
<1>2. Freed(r)[f].draft = forms[f].draft /\ Freed(r)[f].open = forms[f].open
  BY DEF TypeOK, FormState, Freed
<1>3. CASE Forget(r)
  BY <1>1, <1>3 DEF Forget
<1>4. CASE HearLoad(r)
  BY <1>1, <1>4 DEF HearLoad, Crash, FormsAfterLoad
<1>5. CASE HearSave(r)
  <2>1. r.form # f
    BY <1>5 DEF HearSave, Writes
  <2>2. \/ forms' = Freed(r)
        \/ forms' = forms
        \/ Done(r, r.answer)
    BY <1>5 DEF HearSave
  <2>3. QED
    BY <1>1, <1>2, <2>1, <2>2, DoneKeepsDraft DEF SameDraft
<1>6. CASE HearGreeting(r)
  <2>1. r.form # f
    BY <1>6 DEF HearGreeting, Writes
  <2>2. \/ forms' = Freed(r)
        \/ Done(r, r.shown)
    BY <1>6 DEF HearGreeting
  <2>3. QED
    BY <1>2, <2>1, <2>2, DoneKeepsDraft DEF SameDraft
<1>7. CASE HearUngreet(r) \/ HearDelete(r) \/ HearSelect(r) \/ HearImport(r)
  BY <1>1, <1>7 DEF HearUngreet, HearDelete, HearSelect, HearImport
<1>8. QED
  BY <1>3, <1>4, <1>5, <1>6, <1>7 DEF Hear

\* What has been typed into a form goes by the user's own doing, with the page, or by a
\* save of that form: never by a table that is loaded meanwhile.
THEOREM DraftsSurvive == Spec => DraftSurvives
<1>. DEFINE Survives ==
               \A f \in Slot :
                 /\ forms[f].open /\ forms[f].touched # {}
                 /\ forms'[f].draft # forms[f].draft \/ ~forms'[f].open
                 => \/ clicks' # clicks \/ touches' # touches
                    \/ view' = "crashed"
                    \/ \E r \in reqs : r.form = f /\ Writes(r) /\ r.phase = "served" /\ Hear(r)
<1>1. ASSUME TypeOK, Next, NEW f \in Slot, ~SameDraft(f)
      PROVE  \/ clicks' # clicks \/ touches' # touches
             \/ view' = "crashed"
             \/ \E r \in reqs : r.form = f /\ Writes(r) /\ r.phase = "served" /\ Hear(r)
  <2>1. CASE User
    BY <1>1, <2>1, UserKeepsDraft
  <2>2. \A i : ~OtherAdmin(i)
    BY <1>1 DEF OtherAdmin, SameDraft
  <2>3. \A r : ~Serve(r) /\ ~Lose(r)
    BY <1>1 DEF Serve, Lose, SameDraft
  <2>4. ASSUME NEW r \in reqs, Hear(r)
        PROVE  view' = "crashed" \/ (r.form = f /\ Writes(r) /\ r.phase = "served")
    <3>1. r.phase = "served"
      BY <2>4 DEF Hear
    <3>2. QED
      BY <1>1, <2>4, <3>1, HearKeepsDraft
  <2>5. QED
    BY <1>1, <2>1, <2>2, <2>3, <2>4 DEF Next
<1>2. TypeOK /\ Next => Survives
  BY <1>1, Zenon DEF SameDraft
<1>3. TypeOK /\ [Next]_vars => (Survives \/ UNCHANGED vars)
  BY <1>2
<1>4. QED
  BY <1>3, TypeCorrect, PTL DEF Spec, DraftSurvives


-----------------------------------------------------------------------------
(* Buttons that are disabled.  What makes a request one that enables a     *)
(* button again does not change while it is under way, but for the dialog  *)
(* it came from being closed, which takes the button with it; and whatever *)
(* takes such a request away enables the button.  An import comes from no  *)
(* form, so the load that follows it closes none.                          *)

Deletes(r) == r.kind = "delete" /\ ~r.deaf
UnderWay == /\ BusyIsUnderWay
            /\ del.busy => This.confirms
            /\ \A q \in reqs : q.kind = "import" => q.form = "none"

\* Two stages of one request, which enable the same buttons.
SameDuty(p, q) == p.kind = q.kind /\ p.form = q.form /\ p.deaf = q.deaf /\ p.mine = q.mine

\* A button stays disabled as long as a request that enables it is kept.
LEMMA StillUnderWay ==
  ASSUME UnderWay, page' = page,
         \A f \in Slot : forms'[f].busy =>
           /\ forms[f].busy
           /\ \A q \in reqs : Frees(q, f) => \E p \in reqs' : Frees(p, f),
         del'.busy => /\ del.busy
                      /\ \A q \in reqs : Deletes(q) => \E p \in reqs' : Deletes(p),
         \A p \in reqs' : p.kind = "import" => p.form = "none"
  PROVE  UnderWay'
<1>1. This' = This /\ Inline' = Inline
  BY DEF This, Inline
<1>2. ASSUME NEW f \in Slot, forms'[f].busy
      PROVE  \E p \in reqs' : Frees(p, f)
  BY <1>2 DEF UnderWay, BusyIsUnderWay
<1>3. ASSUME del'.busy
      PROVE  \E p \in reqs' : Deletes(p)
  BY <1>3 DEF UnderWay, BusyIsUnderWay, Deletes
<1>4. BusyIsUnderWay'
  BY <1>1, <1>2, <1>3 DEF BusyIsUnderWay, Frees, Deletes
<1>5. QED
  BY <1>1, <1>4 DEF UnderWay

\* Most steps keep every request.
LEMMA AllKept ==
  ASSUME UnderWay, page' = page,
         \A f \in Slot : forms'[f].busy => forms[f].busy,
         del'.busy => del.busy,
         \A q \in reqs : \E p \in reqs' : SameDuty(p, q),
         \A p \in reqs' : p.kind = "import" => p.form = "none"
  PROVE  UnderWay'
<1>1. ASSUME NEW f, NEW q \in reqs, Frees(q, f)
      PROVE  \E p \in reqs' : Frees(p, f)
  BY <1>1 DEF Frees, SameDuty
<1>2. ASSUME NEW q \in reqs, Deletes(q)
      PROVE  \E p \in reqs' : Deletes(p)
  BY <1>2 DEF Deletes, SameDuty
<1>3. QED
  BY <1>1, <1>2, StillUnderWay

LEMMA OvertakenDuty ==
  ASSUME NEW rs \in SUBSET ReqState
  PROVE  /\ \A q \in rs : \E p \in Overtaken(rs) : SameDuty(p, q)
         /\ \A p \in Overtaken(rs) : \E q \in rs : SameDuty(p, q)
<1>1. \A q \in ReqState : SameDuty([q EXCEPT !.clean = FALSE], q) /\ SameDuty(q, q)
  BY DEF ReqState, SameDuty
<1>2. QED
  BY <1>1 DEF Overtaken

LEMMA OrphanedDuty ==
  ASSUME NEW rs \in SUBSET ReqState, NEW f
  PROVE  /\ \A q \in rs : q.form # f => q \in Orphaned(rs, f)
         /\ \A q \in rs : \E p \in Orphaned(rs, f) :
              p.kind = q.kind /\ p.form = q.form /\ p.deaf = q.deaf
              /\ p.mine = IF q.form = f THEN Inline ELSE q.mine
         /\ \A p \in Orphaned(rs, f) : \E q \in rs : p.kind = q.kind /\ p.form = q.form
<1>. DEFINE g(q) == [q EXCEPT !.mine = Inline]
<1>1. \A q \in ReqState : /\ g(q).kind = q.kind /\ g(q).form = q.form /\ g(q).deaf = q.deaf
                          /\ g(q).mine = Inline
  BY DEF ReqState
<1>2. Orphaned(rs, f) = {IF q.form = f THEN g(q) ELSE q : q \in rs}
  BY DEF Orphaned
<1>. HIDE DEF g
<1>3. QED
  BY <1>1, <1>2

\* The requests of a page that has gone.
LEMMA DeafImports ==
  ASSUME NEW rs \in SUBSET ReqState, \A q \in rs : q.kind = "import" => q.form = "none"
  PROVE  \A p \in {[q EXCEPT !.deaf = TRUE] : q \in rs} : p.kind = "import" => p.form = "none"
<1>. DEFINE g(q) == [q EXCEPT !.deaf = TRUE]
<1>1. \A q \in ReqState : g(q).kind = q.kind /\ g(q).form = q.form
  BY DEF ReqState
<1>. HIDE DEF g
<1>2. \A p \in {g(q) : q \in rs} : p.kind = "import" => p.form = "none"
  BY <1>1
<1>3. QED
  BY <1>2 DEF g

\* A save, a delete or an import is sent.
LEMMA WriteAdds ==
  ASSUME NEW kind, NEW id, NEW f, NEW form, Write(Request(kind, id, f, form))
  PROVE  \E r : /\ reqs' = reqs \cup {r}
                /\ r.kind = kind /\ r.form = f /\ r.mine /\ ~r.deaf
<1>. DEFINE n == Request(kind, id, f, form)
<1>1. n.kind = kind /\ n.form = f /\ n.mine /\ ~n.deaf
  BY DEF Request
<1>2. reqs' = reqs \cup {n}
  BY DEF Write
<1>. HIDE DEF n
<1>3. QED
  BY <1>1, <1>2

LEMMA WriteKeeps ==
  ASSUME TypeOK, UnderWay, NEW r, reqs' = reqs \cup {r},
         r.kind = "import" => r.form = "none"
  PROVE  /\ \A q \in reqs : \E p \in reqs' : SameDuty(p, q)
         /\ \A p \in reqs' : p.kind = "import" => p.form = "none"
BY DEF UnderWay, SameDuty

LEMMA RestIsFree ==
  /\ ClosedForm.busy = FALSE /\ EmptyForm.busy = FALSE /\ NoDelete.busy = FALSE
  /\ \A f : AtRest(f).busy = FALSE
BY DEF ClosedForm, EmptyForm, NoDelete, AtRest

LEMMA UserUnderWay == ASSUME TypeOK, UnderWay, User PROVE UnderWay'
<1>1. \A q \in reqs : SameDuty(q, q)
  BY DEF SameDuty
<1>2. CASE OpenAdd
  <2>1. \A f \in Slot : forms'[f].busy => forms[f].busy
    BY <1>2, RestIsFree DEF OpenAdd, TypeOK
  <2>2. page' = page /\ del' = del /\ reqs' = reqs
    BY <1>2 DEF OpenAdd
  <2>3. QED
    BY <1>1, <2>1, <2>2, AllKept DEF UnderWay
<1>3. CASE \E i \in Id : StartEdit(i)
  <2>1. PICK i \in Id : StartEdit(i)
    BY <1>3
  <2>2. page' = page /\ del' = del /\ reqs' = reqs
    BY <2>1 DEF StartEdit
  <2>. DEFINE new == [open |-> TRUE, id |-> i, draft |-> Opened(This.edit, list[i]),
                      from |-> list[i], touched |-> {}, busy |-> Inline /\ forms.edit.busy]
  <2>3. forms' = [forms EXCEPT !.edit = new]
    BY <2>1 DEF StartEdit
  <2>4. new.busy => forms["edit"].busy
    OBVIOUS
  <2>. HIDE DEF new
  <2>5. \A f \in Slot : forms'[f].busy => forms[f].busy
    BY <2>3, <2>4 DEF TypeOK
  <2>6. QED
    BY <1>1, <2>2, <2>5, AllKept DEF UnderWay
<1>4. CASE \E f \in Slot : CloseForm(f)
  <2>1. PICK f \in Slot : CloseForm(f)
    BY <1>4
  <2>2. reqs \in SUBSET ReqState /\ reqs' = Orphaned(reqs, f)
    BY <2>1 DEF TypeOK, CloseForm
  <2>3. page' = page /\ del' = del
    BY <2>1 DEF CloseForm
  <2>4. forms' = [forms EXCEPT ![f] = [AtRest(f) EXCEPT !.busy = Inline /\ forms[f].busy]]
    BY <2>1 DEF CloseForm
  <2>5. [AtRest(f) EXCEPT !.busy = Inline /\ forms[f].busy].busy = (Inline /\ forms[f].busy)
    BY DEF AtRest, ClosedForm, EmptyForm
  <2>6. ASSUME NEW g \in Slot, forms'[g].busy
        PROVE  forms[g].busy /\ (g = f => Inline)
    BY <2>4, <2>5, <2>6 DEF TypeOK
  <2>7. ASSUME NEW g \in Slot, forms'[g].busy, NEW q \in reqs, Frees(q, g)
        PROVE  \E p \in reqs' : Frees(p, g)
    BY <2>2, <2>6, <2>7, OrphanedDuty DEF Frees
  <2>8. ASSUME NEW q \in reqs, Deletes(q)
        PROVE  \E p \in reqs' : Deletes(p)
    BY <2>2, <2>8, OrphanedDuty DEF Deletes
  <2>9. \A p \in reqs' : p.kind = "import" => p.form = "none"
    BY <2>2, OrphanedDuty DEF UnderWay
  <2>10. QED
    BY <2>3, <2>6, <2>7, <2>8, <2>9, StillUnderWay
<1>5. CASE \E f \in Slot : Edit(f)
  <2>1. PICK f, field, draft : f \in Slot /\ Changed(f, field, draft)
    BY <1>5 DEF Edit, Type, ToggleMember, ToggleDay, PickCid, PickFile, Choose, EditOptions
  <2>2. \A g \in Slot : forms'[g].busy = forms[g].busy
    BY <2>1 DEF Changed, TypeOK, FormState
  <2>3. page' = page /\ del' = del /\ reqs' = reqs
    BY <2>1 DEF Changed
  <2>4. QED
    BY <1>1, <2>2, <2>3, AllKept DEF UnderWay
<1>6. CASE \E f \in Slot : Submit(f)
  <2>1. PICK f \in Slot : Submit(f)
    BY <1>6
  <2>2. PICK r : /\ reqs' = reqs \cup {r}
                 /\ r.kind \in {"create", "patch"} /\ r.form = f
                 /\ r.mine /\ ~r.deaf
    <3>1. PICK kind \in {"create", "patch"} : Write(Request(kind, forms[f].id, f, forms[f]))
      BY <2>1 DEF Submit
    <3>2. QED
      BY <3>1, WriteAdds
  <2>3. page' = page /\ del' = del /\ forms' = [forms EXCEPT ![f].busy = TRUE]
    BY <2>1 DEF Submit
  <2>4. This' = This /\ Inline' = Inline
    BY <2>3 DEF This, Inline
  <2>5. /\ \A q \in reqs : \E p \in reqs' : SameDuty(p, q)
        /\ \A p \in reqs' : p.kind = "import" => p.form = "none"
    BY <2>2, WriteKeeps
  <2>6. \A g \in Slot : g # f => forms'[g].busy = forms[g].busy
    BY <2>3 DEF TypeOK
  <2>7. ASSUME NEW g \in Slot, forms'[g].busy
        PROVE  \E p \in reqs' : Frees(p, g)
    <3>1. CASE g = f
      BY <2>2, <3>1 DEF Frees
    <3>2. CASE g # f
      BY <2>5, <2>6, <2>7, <3>2 DEF UnderWay, BusyIsUnderWay, Frees, SameDuty
    <3>3. QED
      BY <3>1, <3>2
  <2>8. del'.busy => \E p \in reqs' : Deletes(p)
    BY <2>3, <2>5 DEF UnderWay, BusyIsUnderWay, Deletes, SameDuty
  <2>9. BusyIsUnderWay'
    BY <2>4, <2>7, <2>8 DEF BusyIsUnderWay, Frees, Deletes
  <2>10. QED
    BY <2>3, <2>4, <2>5, <2>9 DEF UnderWay
<1>7. CASE DropGreeting
  <2>1. PICK r : reqs' = reqs \cup {r} /\ r.kind = "ungreet"
    <3>. DEFINE n == Request("ungreet", forms.edit.id, "none", ClosedForm)
    <3>1. reqs' = reqs \cup {n}
      BY <1>7 DEF DropGreeting
    <3>2. n.kind = "ungreet"
      BY DEF Request
    <3>. HIDE DEF n
    <3>3. QED
      BY <3>1, <3>2
  <2>2. page' = page /\ del' = del /\ forms' = forms
    BY <1>7 DEF DropGreeting
  <2>3. QED
    BY <2>1, <2>2, WriteKeeps, AllKept
<1>8. CASE KeepRow \/ \E i \in Id : AskDelete(i)
  <2>1. page' = page /\ ~del'.busy /\ forms' = forms /\ reqs' = reqs
    BY <1>8, RestIsFree DEF KeepRow, AskDelete
  <2>2. QED
    BY <1>1, <2>1, AllKept DEF UnderWay
<1>9. CASE \E i \in Id : Delete(i)
  <2>1. PICK i \in Id : Delete(i)
    BY <1>9
  <2>2. PICK r : /\ reqs' = reqs \cup {r}
                 /\ r.kind = "delete" /\ ~r.deaf
    <3>1. Write(Request("delete", i, "none", ClosedForm))
      BY <2>1 DEF Delete
    <3>2. QED
      BY <3>1, WriteAdds
  <2>3. page' = page /\ forms' = forms /\ (del'.busy => del.busy \/ This.confirms)
    BY <2>1 DEF Delete
  <2>4. This' = This /\ Inline' = Inline
    BY <2>3 DEF This, Inline
  <2>5. /\ \A q \in reqs : \E p \in reqs' : SameDuty(p, q)
        /\ \A p \in reqs' : p.kind = "import" => p.form = "none"
    BY <2>2, WriteKeeps
  <2>6. ASSUME NEW g \in Slot, forms'[g].busy
        PROVE  \E p \in reqs' : Frees(p, g)
    BY <2>3, <2>5, <2>6 DEF UnderWay, BusyIsUnderWay, Frees, SameDuty
  <2>7. \E p \in reqs' : Deletes(p)
    BY <2>2 DEF Deletes
  <2>8. BusyIsUnderWay'
    BY <2>4, <2>6, <2>7 DEF BusyIsUnderWay, Frees, Deletes
  <2>9. QED
    BY <2>3, <2>4, <2>5, <2>8 DEF UnderWay
<1>10. CASE \E i \in Id : Select(i)
  <2>1. PICK r : reqs' = reqs \cup {r} /\ r.kind = "select"
    <3>1. PICK i \in Id : Select(i)
      BY <1>10
    <3>. DEFINE plain == Request("select", i, "none", ClosedForm)
                n == [plain EXCEPT !.body.cid = ~list[i].cid, !.shown = list]
    <3>2. reqs' = reqs \cup {n}
      BY <3>1 DEF Select, Write
    <3>3. n.kind = "select"
      BY DEF Request
    <3>. HIDE DEF n
    <3>4. QED
      BY <3>2, <3>3
  <2>2. page' = page /\ del' = del /\ forms' = forms
    BY <1>10 DEF Select
  <2>3. QED
    BY <2>1, <2>2, WriteKeeps, AllKept
<1>11. CASE Import
  <2>1. PICK r : reqs' = reqs \cup {r} /\ r.form = "none"
    <3>1. Write(Request("import", New, "none", ClosedForm))
      BY <1>11 DEF Import
    <3>2. QED
      BY <3>1, WriteAdds
  <2>2. page' = page /\ del' = del /\ forms' = forms
    BY <1>11 DEF Import
  <2>3. QED
    BY <2>1, <2>2, WriteKeeps, AllKept
<1>12. CASE Reload
  <2>1. page' = page /\ ~del'.busy /\ \A f \in Slot : ~forms'[f].busy
    BY <1>12, RestIsFree DEF Reload, FormsAtRest
  <2>2. reqs' = {[q EXCEPT !.deaf = TRUE] : q \in reqs} \cup {Loading}
    BY <1>12 DEF Reload
  <2>3. Loading.kind = "load"
    BY DEF Loading, Request
  <2>4. reqs \in SUBSET ReqState
    BY DEF TypeOK
  <2>5. \A p \in reqs' : p.kind = "import" => p.form = "none"
    BY <2>2, <2>3, <2>4, DeafImports DEF UnderWay
  <2>6. QED
    BY <2>1, <2>5, StillUnderWay
<1>13. QED
  BY <1>2, <1>3, <1>4, <1>5, <1>6, <1>7, <1>8, <1>9, <1>10, <1>11, <1>12 DEF User

\* The backend and the network only change what a request says of its answer.
LEMMA BackendUnderWay ==
  ASSUME TypeOK, UnderWay, NEW r \in reqs, Serve(r) \/ Lose(r)
  PROVE  UnderWay'
<1>1. r \in ReqState
  BY DEF TypeOK
<1>2. PICK p : /\ SameDuty(p, r)
               /\ reqs' = (reqs \ {r}) \cup {p} \/ reqs' = Beside(r) \cup {p}
  <2>1. CASE Lose(r)
    <3>. DEFINE n == [r EXCEPT !.phase = "served", !.result = "lost", !.answer = NoTable]
    <3>1. SameDuty(n, r)
      BY <1>1 DEF ReqState, SameDuty
    <3>2. reqs' = (reqs \ {r}) \cup {n}
      BY <2>1 DEF Lose
    <3>. HIDE DEF n
    <3>3. QED
      BY <3>1, <3>2
  <2>2. CASE Serve(r)
    <3>1. \A s : SameDuty(Answer(r, s), r)
      BY <1>1 DEF Answer, ReqState, SameDuty
    <3>2. SameDuty([r EXCEPT !.phase = "served", !.result = "refused"], r)
      BY <1>1 DEF ReqState, SameDuty
    <3>3. QED
      BY <2>2, <3>1, <3>2 DEF Serve
  <2>3. QED
    BY <2>1, <2>2
<1>3. page' = page /\ del' = del /\ forms' = forms
  BY DEF Serve, Lose
<1>4. /\ \A q \in reqs \ {r} : \E s \in Beside(r) : SameDuty(s, q)
      /\ \A s \in Beside(r) : \E q \in reqs \ {r} : SameDuty(s, q)
  <2>1. reqs \ {r} \in SUBSET ReqState /\ \A q \in reqs \ {r} : SameDuty(q, q)
    BY DEF TypeOK, SameDuty
  <2>2. QED
    BY <2>1, OvertakenDuty DEF Beside
<1>5. \A q \in reqs : \E s \in reqs' : SameDuty(s, q)
  BY <1>2, <1>4 DEF SameDuty
<1>6. \A q \in reqs' : q.kind = "import" => q.form = "none"
  BY <1>2, <1>4 DEF UnderWay, SameDuty
<1>7. QED
  BY <1>3, <1>5, <1>6, AllKept

LEMMA OtherAdminUnderWay ==
  ASSUME TypeOK, UnderWay, NEW i \in Id, OtherAdmin(i)
  PROVE  UnderWay'
<1>1. page' = page /\ del' = del /\ forms' = forms /\ reqs' = Overtaken(reqs)
  BY DEF OtherAdmin
<1>2. reqs \in SUBSET ReqState
  BY DEF TypeOK
<1>3. \A q \in reqs : \E p \in reqs' : SameDuty(p, q)
  BY <1>1, <1>2, OvertakenDuty
<1>4. \A p \in reqs' : p.kind = "import" => p.form = "none"
  BY <1>1, <1>2, OvertakenDuty DEF UnderWay, SameDuty
<1>5. QED
  BY <1>1, <1>3, <1>4, AllKept

-----------------------------------------------------------------------------
\* An answer that is heard: the others go on, and nothing waits for this one any more.
LEMMA HeardUnderWay ==
  ASSUME UnderWay, page' = page, NEW r \in reqs,
         \A f \in Slot : forms'[f].busy => forms[f].busy /\ ~Frees(r, f),
         del'.busy => del.busy /\ ~Deletes(r),
         Rest(r) \subseteq reqs',
         \A p \in reqs' \ Rest(r) : p.kind # "import"
  PROVE  UnderWay'
<1>1. \A f \in Slot : forms'[f].busy =>
        \A q \in reqs : Frees(q, f) => \E p \in reqs' : Frees(p, f)
  BY DEF Rest
<1>2. del'.busy => \A q \in reqs : Deletes(q) => \E p \in reqs' : Deletes(p)
  BY DEF Rest
<1>3. \A p \in reqs' : p.kind = "import" => p.form = "none"
  BY DEF UnderWay, Rest
<1>4. QED
  BY <1>1, <1>2, <1>3, StillUnderWay

\* The load that follows, and the forms that forget a request: the other form's requests
\* stay as they are.
LEMMA OrphansUnderWay ==
  ASSUME TypeOK, UnderWay, page' = page, NEW r \in reqs, ~Deletes(r),
         r.form \in Slot => ~forms'[r.form].busy,
         \A f \in Slot : forms'[f].busy => forms[f].busy,
         del'.busy => del.busy,
         NEW load, load.kind = "load",
         \/ reqs' = Orphaned(Rest(r), r.form)
         \/ reqs' = Orphaned(Rest(r), r.form) \cup {load}
  PROVE  UnderWay'
<1>1. Rest(r) \in SUBSET ReqState /\ Rest(r) \subseteq reqs
  BY DEF TypeOK, Rest
<1>. DEFINE kept == Orphaned(Rest(r), r.form)
<1>2. /\ \A q \in Rest(r) : q.form # r.form => q \in kept
      /\ \A q \in Rest(r) : \E p \in kept : p.kind = q.kind /\ p.deaf = q.deaf
      /\ \A p \in kept : \E q \in Rest(r) : p.kind = q.kind /\ p.form = q.form
  BY <1>1, OrphanedDuty
<1>3. kept \subseteq reqs' /\ \A p \in reqs' : p \in kept \/ p.kind = "load"
  OBVIOUS
<1>. HIDE DEF kept
<1>4. ASSUME NEW f \in Slot, forms'[f].busy, NEW q \in reqs, Frees(q, f)
      PROVE  \E p \in reqs' : Frees(p, f)
  <2>1. q.form = f /\ r.form # f
    BY <1>4 DEF Frees
  <2>2. q \in Rest(r)
    BY <2>1 DEF Rest
  <2>3. q \in reqs'
    BY <1>2, <1>3, <2>1, <2>2
  <2>4. QED
    BY <1>4, <2>3
<1>5. ASSUME NEW q \in reqs, Deletes(q)
      PROVE  \E p \in reqs' : Deletes(p)
  <2>1. q \in Rest(r)
    BY <1>5 DEF Rest
  <2>2. QED
    BY <1>2, <1>3, <1>5, <2>1 DEF Deletes
<1>6. \A p \in reqs' : p.kind = "import" => p.form = "none"
  BY <1>1, <1>2, <1>3 DEF UnderWay
<1>7. QED
  BY <1>4, <1>5, <1>6, StillUnderWay

LEMMA LoadAgainForm ==
  ASSUME NEW r, LoadAgain(r)
  PROVE  \E load : load.kind = "load" /\ reqs' = Orphaned(Rest(r), r.form) \cup {load}
<1>1. Loading.kind = "load"
  BY DEF Loading, Request
<1>2. QED
  BY <1>1 DEF LoadAgain

LEMMA DoneUnderWay ==
  ASSUME TypeOK, UnderWay, page' = page, NEW r \in reqs, NEW table, Done(r, table),
         ~Deletes(r), del' = del
  PROVE  UnderWay'
<1>1. \A f \in Slot : forms'[f].busy => forms[f].busy /\ f # r.form
  <2>1. \A f : [forms[f] EXCEPT !.busy = FALSE, !.touched = {}].busy = FALSE \/ f \notin Slot
    BY DEF TypeOK, FormState
  <2>2. QED
    BY <2>1, RestIsFree DEF Done, TypeOK
<1>2. r.form \in Slot => ~forms'[r.form].busy
  BY <1>1
<1>3. PICK load : /\ load.kind = "load"
                  /\ \/ reqs' = Orphaned(Rest(r), r.form)
                     \/ reqs' = Orphaned(Rest(r), r.form) \cup {load}
  <2>1. CASE LoadAgain(r)
    BY <2>1, LoadAgainForm
  <2>2. CASE reqs' = Orphaned(Rest(r), r.form)
    <3>1. [kind |-> "load"].kind = "load"
      OBVIOUS
    <3>2. QED
      BY <2>2, <3>1
  <2>3. QED
    BY <2>1, <2>2 DEF Done
<1>4. QED
  BY <1>1, <1>2, <1>3, OrphansUnderWay

LEMMA FreedUnderWay ==
  ASSUME TypeOK, UnderWay, page' = page, NEW r \in reqs, ~Deletes(r),
         forms' = Freed(r), reqs' = Rest(r), del' = del
  PROVE  UnderWay'
<1>1. ASSUME NEW f \in Slot, forms'[f].busy
      PROVE  forms[f].busy /\ ~Frees(r, f)
  BY <1>1 DEF Freed, Frees, TypeOK, FormState
<1>2. QED
  BY <1>1, HeardUnderWay

LEMMA HearUnderWay == ASSUME TypeOK, UnderWay, NEW r \in reqs, Hear(r) PROVE UnderWay'
<1>0. page' = page /\ r \in ReqState
  BY DEF Hear, TypeOK
<1>1. CASE Forget(r)
  BY <1>0, <1>1, HeardUnderWay DEF Forget, Frees, Deletes
<1>2. CASE HearLoad(r)
  <2>1. CASE Crash(r)
    <3>1. ~del'.busy /\ \A f \in Slot : ~forms'[f].busy
      BY <2>1, RestIsFree DEF Crash
    <3>2. reqs' = {[q EXCEPT !.deaf = TRUE] : q \in Rest(r)}
      BY <2>1 DEF Crash
    <3>3. Rest(r) \in SUBSET ReqState /\ Rest(r) \subseteq reqs
      BY DEF TypeOK, Rest
    <3>4. \A p \in reqs' : p.kind = "import" => p.form = "none"
      BY <3>2, <3>3, DeafImports DEF UnderWay
    <3>5. QED
      BY <1>0, <3>1, <3>4, StillUnderWay
  <2>2. CASE forms' = FormsAfterLoad(r) /\ reqs' = Rest(r) /\ UNCHANGED del
    BY <1>0, <1>2, <2>2, HeardUnderWay DEF HearLoad, FormsAfterLoad, Frees, Deletes
  <2>3. QED
    BY <1>2, <2>1, <2>2 DEF HearLoad
<1>3. CASE HearSave(r)
  <2>1. r.kind \in {"create", "patch"} /\ ~Deletes(r) /\ del' = del
    BY <1>3 DEF HearSave, Deletes
  <2>2. CASE forms' = Freed(r) /\ reqs' = Rest(r)
    BY <1>0, <2>1, <2>2, FreedUnderWay
  <2>3. CASE Done(r, r.answer)
    BY <1>0, <2>1, <2>3, DoneUnderWay
  <2>4. CASE /\ reqs' = Rest(r)
                          \cup {[r EXCEPT !.kind = "greeting", !.phase = "sent",
                                          !.result = "none", !.shown = r.answer,
                                          !.answer = NoTable]}
             /\ forms' = forms
    <3>. DEFINE p == [r EXCEPT !.kind = "greeting", !.phase = "sent", !.result = "none",
                               !.shown = r.answer, !.answer = NoTable]
    <3>1. p.kind = "greeting" /\ p.form = r.form /\ p.deaf = r.deaf /\ p.mine = r.mine
      BY <1>0 DEF ReqState
    <3>2. Rest(r) \in SUBSET ReqState /\ Rest(r) \subseteq reqs /\ reqs = Rest(r) \cup {r}
      BY DEF Rest, TypeOK
    <3>3. reqs' = Rest(r) \cup {p}
      BY <2>4
    <3>. HIDE DEF p
    <3>4. ASSUME NEW f \in Slot, NEW q \in reqs, Frees(q, f)
          PROVE  \E x \in reqs' : Frees(x, f)
      <4>1. CASE q = r
        BY <3>1, <3>3, <3>4, <4>1 DEF Frees
      <4>2. CASE q \in Rest(r)
        BY <3>3, <3>4, <4>2
      <4>3. QED
        BY <3>2, <4>1, <4>2
    <3>5. ASSUME NEW q \in reqs, Deletes(q)
          PROVE  \E x \in reqs' : Deletes(x)
      <4>1. q \in Rest(r)
        BY <2>1, <3>2, <3>5
      <4>2. QED
        BY <3>3, <3>5, <4>1
    <3>6. \A x \in reqs' : x.kind = "import" => x.form = "none"
      BY <3>1, <3>2, <3>3 DEF UnderWay
    <3>7. QED
      BY <1>0, <2>1, <2>4, <3>4, <3>5, <3>6, StillUnderWay
  <2>5. QED
    BY <1>3, <2>2, <2>3, <2>4 DEF HearSave
<1>4. CASE HearGreeting(r)
  <2>1. ~Deletes(r) /\ del' = del
    BY <1>4 DEF HearGreeting, Deletes
  <2>2. \/ forms' = Freed(r) /\ reqs' = Rest(r)
        \/ Done(r, r.shown)
    BY <1>4 DEF HearGreeting
  <2>3. QED
    BY <1>0, <2>1, <2>2, FreedUnderWay, DoneUnderWay
<1>5. CASE HearDelete(r)
  <2>1. r.kind = "delete" /\ forms' = forms /\ reqs' = Rest(r)
    BY <1>5 DEF HearDelete
  <2>2. \A f : ~Frees(r, f)
    BY <2>1 DEF Frees
  <2>3. ~del'.busy
    <3>1. [del EXCEPT !.busy = FALSE].busy = FALSE
      BY DEF TypeOK
    <3>2. QED
      BY <1>5, <3>1, RestIsFree DEF HearDelete, UnderWay
  <2>4. QED
    BY <1>0, <2>1, <2>2, <2>3, HeardUnderWay
<1>6. CASE HearUngreet(r) \/ HearSelect(r)
  <2>1. /\ r.kind \in {"ungreet", "select"} /\ forms' = forms /\ del' = del
        /\ reqs' = Rest(r)
    BY <1>6 DEF HearUngreet, HearSelect
  <2>2. ~Deletes(r) /\ \A f : ~Frees(r, f)
    BY <2>1 DEF Deletes, Frees
  <2>3. QED
    BY <1>0, <2>1, <2>2, HeardUnderWay
<1>7. CASE HearImport(r)
  <2>1. r.kind = "import" /\ forms' = forms /\ del' = del
    BY <1>7 DEF HearImport
  <2>2. ~Deletes(r) /\ (\A f : ~Frees(r, f)) /\ r.form = "none"
    BY <2>1 DEF Deletes, Frees, UnderWay
  <2>3. CASE reqs' = Rest(r)
    BY <1>0, <2>1, <2>2, <2>3, HeardUnderWay
  <2>4. CASE LoadAgain(r)
    <3>1. PICK load : /\ load.kind = "load"
                      /\ reqs' = Orphaned(Rest(r), r.form) \cup {load}
      BY <2>4, LoadAgainForm
    <3>2. r.form \notin Slot
      BY <2>2 DEF Slot
    <3>3. QED
      BY <1>0, <2>1, <2>2, <3>1, <3>2, OrphansUnderWay
  <2>5. QED
    BY <1>7, <2>3, <2>4 DEF HearImport
<1>8. QED
  BY <1>1, <1>2, <1>3, <1>4, <1>5, <1>6, <1>7 DEF Hear

\* A button is disabled only as long as a request is under way whose end enables it again
\* (the finally blocks of the forms' handlers): closing, opening and sending meanwhile
\* leave none behind, so that FormsComeBack needs no more than that every fetch ends.
THEOREM DisabledIsUnderWay == Spec => []BusyIsUnderWay
<1>1. Init => UnderWay
  <2> SUFFICES ASSUME Init PROVE UnderWay
    OBVIOUS
  <2>1. ~del.busy /\ \A f \in Slot : ~forms[f].busy
    BY RestIsFree DEF Init, FormsAtRest
  <2>2. \A q \in reqs : q.kind = "load"
    BY DEF Init, Loading, Request
  <2>3. QED
    BY <2>1, <2>2 DEF UnderWay, BusyIsUnderWay
<1>2. TypeOK /\ UnderWay /\ [Next]_vars => UnderWay'
  <2> SUFFICES ASSUME TypeOK, UnderWay, [Next]_vars PROVE UnderWay'
    OBVIOUS
  <2>1. CASE UNCHANGED vars
    BY <2>1 DEF vars, UnderWay, BusyIsUnderWay, Frees, This, Inline
  <2>2. QED
    BY <2>1, UserUnderWay, BackendUnderWay, OtherAdminUnderWay, HearUnderWay DEF Next
<1>3. UnderWay => BusyIsUnderWay
  BY DEF UnderWay
<1>4. QED
  BY <1>1, <1>2, <1>3, TypeCorrect, PTL DEF Spec

=============================================================================
