----------------------------- MODULE AdminForms -----------------------------
(***************************************************************************)
(* What the controls of the admin UI's forms do to a draft: the picker of  *)
(* weekdays, which works on the text Asterisk reads, the picker of a       *)
(* destination, and the options of a voice menu; and what each form shows, *)
(* starts from and asks for before it sends anything.                      *)
(***************************************************************************)
EXTENDS Integers, Sequences

CONSTANTS
    Week,          \* how many days a week has (WEEKDAYS)
    Member,        \* extensions that can be members of a group
    ExtNumber,     \* numbers of extensions, also of their mailboxes
    GroupId,       \* ring groups and menus as routes refer to them: by id
    GroupNumber    \* ... and as menus refer to them: by number

ASSUME WeekAssumption == Week \in Nat \ {0}
ASSUME NumberAssumption == /\ ExtNumber \cup GroupId \cup GroupNumber \subseteq Nat \ {0}
                           /\ ExtNumber \cap (GroupId \cup GroupNumber) = {}
                           /\ GroupId \cap GroupNumber = {}

-----------------------------------------------------------------------------
(* Weekdays (lib/weekdays.ts).  A text is the set of its tokens, a token   *)
(* the pair of the words around its dash; the word Week stands for all     *)
(* that are no weekday.                                                    *)

Day == 0 .. Week - 1
Token == (0 .. Week) \X (0 .. Week)

\* An inclusive range that goes on after Sunday when it ends before it starts.
DaysOf(t) ==
    IF t[1] \notin Day \/ t[2] \notin Day THEN {}
    ELSE IF t[1] <= t[2] THEN t[1] .. t[2]
    ELSE (t[1] .. Week - 1) \cup (0 .. t[2])

parseDays(text) == UNION {DaysOf(t) : t \in text}

\* The runs of a set of days, from the first day of each to its last.
\* Mutant: a run that lasts to the end of the week is not closed.
OpenEnded(S) == {t \in Day \X Day : /\ t[1] <= t[2] /\ t[1] .. t[2] \subseteq S
                                    /\ t[1] - 1 \notin S /\ t[2] + 1 \in Day \ S}
Runs(S) == {t \in Day \X Day : /\ t[1] <= t[2] /\ t[1] .. t[2] \subseteq S
                               /\ t[1] - 1 \notin S /\ t[2] + 1 \notin S}

formatDays(S) == IF S = Day THEN {<<0, Week - 1>>} ELSE Runs(S)

\* WeekdayPicker: one day is switched, the text is written anew.
toggleDay(text, d) ==
    LET days == parseDays(text) IN formatDays((days \cup {d}) \ (days \cap {d}))

-----------------------------------------------------------------------------
(* Destinations (components/DestinationField.tsx).  Mailboxes are chosen   *)
(* like extensions and menus like ring groups.                             *)

DestinationType == {"extension", "ring_group", "hangup"}
Nobody == 0
Destination == [type : DestinationType, target : {Nobody} \cup ExtNumber \cup GroupId \cup GroupNumber]

\* Routes name a group by its id, menus by its number.
getTargetOptions(type, keyBy) ==
    CASE type = "extension"  -> ExtNumber
      [] type = "ring_group" -> IF keyBy = "id" THEN GroupId ELSE GroupNumber
      [] OTHER               -> {}

\* Another type starts without a target.  Mutant: the target is kept.
KeepTarget(dest, type) == [dest EXCEPT !.type = type]
\* Mutant: "no target" is a number that is too small.
BelowNobody(dest, type) == [type |-> type, target |-> Nobody - 1]
WithType(dest, type) == [type |-> type, target |-> Nobody]

\* The refinements of routeSchema and timeConditionSchema.
Refined(dest) == dest.type = "hangup" \/ dest.target >= 1

Fits(dest, keyBy) == dest.type = "hangup" \/ dest.target \in getTargetOptions(dest.type, keyBy)

-----------------------------------------------------------------------------
(* The options of a menu (AddIvrDialog, EditIvrDialog).  A new one gets    *)
(* the key after the number there are, which one of them may already have. *)

addOption(options) ==
    Append(options, [key |-> Len(options) + 1, dest |-> [type |-> "extension", target |-> Nobody]])

removeOption(options, i) == SubSeq(options, 1, i - 1) \o SubSeq(options, i + 1, Len(options))

updateOptionFields(options, i, dest) == [options EXCEPT ![i].dest = dest]

-----------------------------------------------------------------------------
(* A draft holds what the controls show.  A row has the same fields; one   *)
(* that its table does not have is empty.                                  *)

Field == {"text", "members", "days", "dest", "options", "cid", "file"}

Text == {"", "a", "b"}           \* names, numbers, hours: blank, or one of two wordings
NoDestination == [type |-> "extension", target |-> Nobody]
Blank == [text |-> "", members |-> {}, days |-> {}, dest |-> NoDestination,
          options |-> <<>>, cid |-> FALSE, file |-> FALSE]

\* A form: whether it is a dialog over the page, the fields it has controls for, the
\* ones it refuses to send empty, how it names a group, and where an empty one starts.
Form(modal, controls, checks, keyBy, start) ==
    [modal |-> modal, controls |-> controls, checks |-> checks, keyBy |-> keyBy, start |-> start]

NoForm == Form(FALSE, {}, {}, "id", Blank)

AddGroupRow == Form(FALSE, {"text", "members"}, {"text", "members"}, "number", Blank)
EditGroupRow == AddGroupRow
ExtensionGroupRow == Form(FALSE, {"text", "members"}, {"text"}, "number", Blank)
AddHolidayRow == Form(FALSE, {"text"}, {"text"}, "id", Blank)
AddRuleRow == Form(FALSE, {"text", "cid"}, {"text"}, "id", Blank)
AddDidRow == Form(FALSE, {"text"}, {"text"}, "id", Blank)
\* Its destination is part of the text: nothing looks at it before it is sent or stored.
PresenceRuleForm == Form(FALSE, {"text"}, {}, "id", [Blank EXCEPT !.text = "a"])
EntryForm == Form(FALSE, {"text"}, {"text"}, "id", Blank)

AddRouteDialog == Form(TRUE, {"text", "dest"}, {"text", "dest"}, "id", Blank)
EditRouteDialog == AddRouteDialog

AddTimeConditionDialog ==
    Form(TRUE, {"text", "days", "dest"}, {"text", "days", "dest"}, "id",
         [Blank EXCEPT !.days = {<<0, Week - 1>>}])
EditTimeConditionDialog ==
    Form(TRUE, {"text", "days", "dest"}, {"text", "days", "dest"}, "id", Blank)

AddIvrDialog == Form(TRUE, {"text", "options", "file"}, {"text", "options"}, "number", Blank)
EditIvrDialog == Form(TRUE, {"text", "options", "file"}, {"text"}, "number", Blank)

DeviceDialog == Form(TRUE, {"text", "members"}, {"text", "members"}, "number", Blank)

\* The draft of a form that opens on a row: what it has controls for, as it is stored.
\* Mutant: the days are written the way the picker writes them.
Rewritten(form, row) ==
    [Blank EXCEPT !.text = row.text, !.members = row.members, !.dest = row.dest,
                  !.options = row.options, !.days = formatDays(parseDays(row.days))]
Opened(form, row) ==
    [f \in Field |-> IF f \in form.controls \ {"file"} THEN row[f] ELSE Blank[f]]

Complete(form, draft) ==
    /\ \A f \in form.checks \ {"dest"} : draft[f] # Blank[f]
    /\ "dest" \in form.checks => Refined(draft.dest)

\* What the table keeps of a draft that is sent: the fields in the request's body.
Stored(form, draft, row) ==
    [f \in Field |-> IF f \in form.controls \ {"file"} THEN draft[f] ELSE row[f]]

=============================================================================
