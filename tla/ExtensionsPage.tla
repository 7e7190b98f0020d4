--------------------------- MODULE ExtensionsPage ---------------------------
(***************************************************************************)
(* The page of the extensions (pages/extensions): a list and the ring      *)
(* groups, each loaded once, a switch in every row, and the dialogs that   *)
(* add, edit and delete an extension.  A save writes the extension first   *)
(* and then each ring group whose members change, as a whole row taken     *)
(* from what the page loaded (ringGroupMembership.ts).                     *)
(*                                                                         *)
(* Every fetch is sent, served and heard in three steps, in any order with *)
(* the others; it may be refused, and its answer may be lost.  Meanwhile   *)
(* another admin works on the doors and the ring groups.                   *)
(***************************************************************************)
EXTENDS Naturals, FiniteSets

CONSTANTS
    Ext,           \* extensions, each with its number
    Group,         \* ring groups
    Save,          \* saves of the add and edit dialogs (bounds how many there are)
    MaxClicks,     \* bound: dialogs opened and switches flipped
    MaxOthers,     \* bound: changes made by the other admin
    MaxReqs        \* bound: requests under way when a new one is sent by hand

ASSUME PageBounds == MaxClicks \in Nat /\ MaxOthers \in Nat /\ MaxReqs \in Nat \ {0}
ASSUME SaveNames == "none" \notin Save /\ "nobody" \notin Save

VARIABLES
    ext,           \* the extensions the backend has
    grp,           \* the ring groups the backend has
    rows,          \* Extensions: the list it shows
    groups,        \* Extensions: the ring groups it has loaded
    dialog,        \* the dialog that is open
    saves,         \* the saves under way (onSubmit of the two dialogs)
    reqs,          \* the page's requests
    clicks,        \* dialogs opened and switches flipped so far (bounded by MaxClicks)
    others,        \* changes made by the other admin so far (bounded by MaxOthers)
    excused        \* history: why the list may differ from what is stored

vars == <<ext, grp, rows, groups, dialog, saves, reqs, clicks, others, excused>>

\* What the dialogs edit (text) and the switch toggles (on); door is what the page of
\* the door stations edits.
Row == [text : BOOLEAN, on : BOOLEAN, door : BOOLEAN]
Gone == [text |-> "gone"]
Shown == Row \cup {Gone}
\* A ring group: its members, and what the page of the groups edits besides.
GroupRow == [members : SUBSET Ext, label : BOOLEAN]
NotLoaded == [g \in Group |-> Gone]

Closed == [mode |-> "none"]
Crashed == [mode |-> "crashed"]      \* the page has come down (ErrorBoundary)

Quiet == reqs = {} /\ \A s \in Save : saves[s].phase = "idle"
Room == Cardinality(reqs) < MaxReqs
Click == clicks < MaxClicks /\ clicks' = clicks + 1

-----------------------------------------------------------------------------
(* Requests.                                                               *)

\* kind, the row it is about, what it carries, and what it came from; phase, result and
\* answer change on the way.
NewReq(kind, about, body, from) ==
    [kind |-> kind, about |-> about, body |-> body, from |-> from,
     phase |-> "sent", result |-> "none", answer |-> Gone]

Failed(r) == r.result # "ok"

\* Requests that write the list or a row of it.
Writes == {"toggle", "patch", "create", "delete"}
Touches(r, e) == r.kind = "loadExt" \/ (r.kind \in Writes /\ r.about = e)

\* Something else about the row is under way: a request, or a save that waits for its
\* ring groups and will then put its own answer into the list.
Overlap(e) == \/ \E r \in reqs : Touches(r, e)
              \/ \E s \in Save : saves[s].phase # "idle" /\ saves[s].ext = e

-----------------------------------------------------------------------------
(* The backend: it serves a request at its commit.                         *)

\* get, patch, create and delete of routers/extensions.py and ring_groups.py: what
\* the request leaves in the tables, and whether it is refused.
MembersKnown(g) == \A e \in g.members : ext[e] # Gone

\* Mutant: the body of the edit dialog carries the door fields of its row.
WholeRow(e, body) == body
PatchedRow(e, body) == [ext[e] EXCEPT !.text = body.text, !.on = body.on]

Refused(r) ==
    CASE r.kind \in {"toggle", "patch", "delete"} -> ext[r.about] = Gone
      [] r.kind = "create"                        -> ext[r.about] # Gone
      [] r.kind = "putGroup"                      -> ~MembersKnown(r.body.row)
      [] OTHER                                    -> FALSE

ExtAfter(r) ==
    CASE r.kind = "toggle" -> [ext EXCEPT ![r.about].on = r.body.on]
      [] r.kind = "patch"  -> [ext EXCEPT ![r.about] = PatchedRow(r.about, r.body)]
      [] r.kind = "create" -> [ext EXCEPT ![r.about] = r.body]
      [] r.kind = "delete" -> [ext EXCEPT ![r.about] = Gone]
      [] OTHER             -> ext

GrpAfter(r) ==
    CASE r.kind = "putGroup" -> [grp EXCEPT ![r.about] = r.body.row]
      [] r.kind = "delete"   -> [g \in Group |-> [grp[g] EXCEPT !.members = @ \ {r.about}]]
      [] OTHER               -> grp

AnswerOf(r) ==
    CASE r.kind = "loadExt"   -> ExtAfter(r)
      [] r.kind = "loadGrp"   -> GrpAfter(r)
      [] r.kind = "putGroup"  -> GrpAfter(r)[r.about]
      [] OTHER                -> ExtAfter(r)[r.about]

\* History: groups that a save has loaded and somebody else (not by) has written.
Foreign(gs, by) ==
    [s \in Save |-> IF saves[s].phase = "idle" \/ s = by THEN saves[s]
                    ELSE [saves[s] EXCEPT !.foreign = @ \cup gs]]

\* The handler may also fail for reasons of its own (a clash of numbers, the disk).
Serve(r) ==
    /\ r.phase = "sent"
    /\ \E broken \in BOOLEAN :
         LET refused == broken \/ Refused(r) IN
         /\ reqs' = (reqs \ {r})
                      \cup {[r EXCEPT !.phase = "served",
                                     !.result = IF refused THEN "refused" ELSE "ok",
                                     !.answer = IF refused THEN Gone ELSE AnswerOf(r)]}
         /\ ext' = IF refused THEN ext ELSE ExtAfter(r)
         /\ grp' = IF refused THEN grp ELSE GrpAfter(r)
         /\ saves' = Foreign({g \in Group : grp'[g] # grp[g]}, r.from)
    /\ UNCHANGED <<rows, groups, dialog, others, excused, clicks>>

\* The connection breaks: before the backend has seen the request, or after.
Lose(r) ==
    /\ r.result # "lost"
    /\ reqs' = (reqs \ {r}) \cup {[r EXCEPT !.phase = "served", !.result = "lost", !.answer = Gone]}
    /\ excused' = TRUE
    /\ UNCHANGED <<ext, grp, rows, groups, dialog, saves, others, clicks>>

\* The other admin: a door setting (DoorSettingsDialog), or a ring group
\* (RingGroupsSection).
OtherDoor(e) ==
    /\ others < MaxOthers /\ others' = others + 1
    /\ ext[e] # Gone
    /\ ext' = [ext EXCEPT ![e].door = ~@]
    /\ excused' = TRUE
    /\ UNCHANGED <<grp, rows, groups, dialog, saves, reqs, clicks>>

OtherGroup(g) ==
    /\ others < MaxOthers /\ others' = others + 1
    /\ \E ms \in SUBSET {e \in Ext : ext[e] # Gone} :
         grp' = [grp EXCEPT ![g] = [members |-> ms, label |-> ~@.label]]
    /\ saves' = Foreign({g}, "nobody")
    /\ UNCHANGED <<ext, rows, groups, dialog, reqs, excused, clicks>>

-----------------------------------------------------------------------------
(* The list.                                                               *)

\* The dialogs leave the screen; their saves run on.
OffScreen == [s \in Save |-> [saves[s] EXCEPT !.onScreen = FALSE]]

\* Hearing the load of the list replaces it.  One that broke off leaves a toast; one
\* that was refused answers with no list, and rendering it brings the page down.
HearExt(r) ==
    /\ r.kind = "loadExt" /\ r.phase = "served"
    /\ reqs' = reqs \ {r}
    /\ rows' = IF Failed(r) THEN rows ELSE r.answer
    /\ excused' = (excused \/ Failed(r))
    /\ IF r.result = "refused"
       THEN dialog' = Crashed /\ saves' = OffScreen
       ELSE UNCHANGED <<dialog, saves>>
    /\ UNCHANGED <<ext, grp, groups, others, clicks>>

\* Extensions.toggleEnabled: the row flips at once; the answer replaces the row, and
\* a failure puts back what the switch showed before.
Toggle(e) ==
    /\ Click
    /\ dialog = Closed /\ rows[e] # Gone /\ Room
    /\ rows' = [rows EXCEPT ![e].on = ~@]
    /\ reqs' = reqs \cup {NewReq("toggle", e, [on |-> ~rows[e].on, was |-> rows[e].on], "none")}
    /\ excused' = (excused \/ Overlap(e))
    /\ UNCHANGED <<ext, grp, groups, dialog, saves, others>>

\* Mutants: a failed switch stays as it was clicked, or leaves the switch alone of its row.
NotReverted(r) == IF Failed(r) THEN rows[r.about]
                  ELSE r.answer
NoSpread(r) == IF Failed(r) THEN [on |-> r.body.was] ELSE r.answer
AfterToggle(r) == IF Failed(r) THEN [rows[r.about] EXCEPT !.on = r.body.was]
                  ELSE r.answer

HearToggle(r) ==
    /\ r.kind = "toggle" /\ r.phase = "served"
    /\ reqs' = reqs \ {r}
    /\ rows' = IF rows[r.about] = Gone THEN rows ELSE [rows EXCEPT ![r.about] = AfterToggle(r)]
    /\ UNCHANGED <<ext, grp, groups, dialog, saves, others, excused, clicks>>

\* fetchRingGroups; the answer replaces the groups, a failure keeps them.
HearGroups(r) ==
    /\ r.kind = "loadGrp" /\ r.phase = "served"
    /\ reqs' = reqs \ {r}
    /\ IF Failed(r)
       THEN UNCHANGED groups
       ELSE groups' = r.answer
    /\ saves' = [s \in Save |-> IF r.from = s THEN [saves[s] EXCEPT !.phase = "reloaded"]
                                ELSE saves[s]]
    /\ UNCHANGED <<ext, grp, rows, dialog, others, excused, clicks>>

-----------------------------------------------------------------------------
(* The dialogs.                                                            *)

\* getExtensionRingGroupIds: worked out once, when the dialog opens.
GroupsOf(e) ==
    IF groups = NotLoaded THEN {} ELSE {g \in Group : e \in groups[g].members}

OpenEdit(e) ==
    /\ Click
    /\ dialog = Closed /\ rows[e] # Gone
    /\ dialog' = [mode |-> "edit", ext |-> e, row |-> rows[e], sel |-> GroupsOf(e),
                  touched |-> {}, saving |-> FALSE]
    /\ UNCHANGED <<ext, grp, rows, groups, saves, reqs, others, excused>>

OpenAdd(e) ==
    /\ Click
    /\ dialog = Closed /\ rows[e] = Gone
    /\ dialog' = [mode |-> "add", ext |-> e,
                  row |-> [text |-> FALSE, on |-> TRUE, door |-> FALSE],
                  sel |-> {}, touched |-> {}, saving |-> FALSE]
    /\ UNCHANGED <<ext, grp, rows, groups, saves, reqs, others, excused>>

OpenDelete(e) ==
    /\ Click
    /\ dialog = Closed /\ rows[e] # Gone
    /\ dialog' = [mode |-> "delete", ext |-> e, saving |-> FALSE]
    /\ UNCHANGED <<ext, grp, rows, groups, saves, reqs, others, excused>>

\* RingGroupPicker: it shows the groups loaded by now.
Pick(g) ==
    /\ dialog.mode \in {"add", "edit"} /\ ~dialog.saving /\ groups # NotLoaded
    /\ g \notin dialog.touched
    /\ dialog' = [dialog EXCEPT !.sel = IF g \in @ THEN @ \ {g} ELSE @ \cup {g},
                                !.touched = @ \cup {g}]
    /\ UNCHANGED <<ext, grp, rows, groups, saves, reqs, others, excused, clicks>>

\* Escape, the backdrop or the cross close the dialog of a form even while it saves;
\* the one that asks before deleting waits (DeleteConfirmDialog).
CloseDialog ==
    /\ dialog.mode \in {"add", "edit", "delete"}
    /\ dialog.mode = "delete" => ~dialog.saving
    /\ dialog' = Closed
    /\ saves' = OffScreen
    /\ UNCHANGED <<ext, grp, rows, groups, reqs, others, excused, clicks>>

-----------------------------------------------------------------------------
(* Saving: onSubmit of AddExtensionDialog and EditExtensionDialog.         *)

IdleSave == [phase |-> "idle", onScreen |-> FALSE]

\* What the tabs of the dialog make of the row it was opened with.
Typed(row) == [row EXCEPT !.text = ~@]

\* The closure keeps the selection and the groups of the render it was made in.
Submit(s) ==
    LET row == Typed(dialog.row) IN
    /\ dialog.mode \in {"add", "edit"} /\ ~dialog.saving /\ Room
    /\ saves[s].phase = "idle" /\ \A r \in reqs : r.from # s
    /\ dialog' = [dialog EXCEPT !.saving = TRUE]
    /\ saves' = [saves EXCEPT ![s] =
                   [phase |-> "row", ext |-> dialog.ext, add |-> dialog.mode = "add",
                    sel |-> dialog.sel, groups |-> groups, row |-> row, left |-> {}, onScreen |-> TRUE,
                    foreign |-> IF groups = NotLoaded THEN {}
                                ELSE {g \in Group : groups[g] # grp[g]}]]
    /\ reqs' = reqs \cup {NewReq(IF dialog.mode = "add" THEN "create" ELSE "patch",
                                 dialog.ext, row, s)}
    /\ excused' = (excused \/ Overlap(dialog.ext))
    /\ UNCHANGED <<ext, grp, rows, groups, others, clicks>>

\* buildExtensionNumbers: the group's members with or without this extension.
\* Mutants: an extension is only ever added, or takes the others' place.
OnlyAdded(members, e, selected) == IF selected THEN members \cup {e} ELSE members
OnlyThis(members, e, selected) == IF selected THEN {e} ELSE {}
Members(members, e, selected) == IF selected THEN members \cup {e} ELSE members \ {e}

\* syncRingGroupMemberships: the groups that change, as they were loaded.
WantedRow(sv, g) ==
    [sv.groups[g] EXCEPT !.members = Members(@, sv.ext, g \in sv.sel)]
Changing(sv) ==
    IF sv.groups = NotLoaded THEN {} ELSE {g \in Group : WantedRow(sv, g) # sv.groups[g]}

PutGroup(sv, g, s) ==
    NewReq("putGroup", g, [row |-> WantedRow(sv, g), loaded |-> sv.groups[g], for |-> sv.ext], s)

\* A save that fails tells so and leaves its dialog open for another try.
EndSave(s, failed) ==
    /\ saves' = [saves EXCEPT ![s] = IdleSave]
    /\ dialog' = IF ~failed THEN (IF dialog.mode \in {"add", "edit"} THEN Closed ELSE dialog)
                 ELSE IF saves[s].onScreen THEN [dialog EXCEPT !.saving = FALSE] ELSE dialog

\* The extension is answered: on with the groups, all at once.
HearRow(r) ==
    LET s == r.from
        sv == [saves[s] EXCEPT !.row = r.answer, !.left = Changing(saves[s])]
    IN
    /\ r.kind \in {"patch", "create"} /\ r.phase = "served"
    /\ IF Failed(r)
       THEN EndSave(s, TRUE) /\ reqs' = reqs \ {r}
       ELSE /\ saves' = [saves EXCEPT ![s] =
                           [sv EXCEPT !.phase = IF sv.left = {} THEN "synced" ELSE "groups"]]
            /\ reqs' = (reqs \ {r}) \cup {PutGroup(sv, g, s) : g \in sv.left}
            /\ UNCHANGED dialog
    /\ UNCHANGED <<ext, grp, rows, groups, others, excused, clicks>>

\* Promise.all: the first failure ends the save, the other writes go on unheard.
HearPut(r) ==
    LET s == r.from
        here == saves[s].phase = "groups" /\ r.about \in saves[s].left
    IN
    /\ r.kind = "putGroup" /\ r.phase = "served"
    /\ reqs' = reqs \ {r}
    /\ IF ~here
       THEN UNCHANGED <<saves, dialog, excused>>
       ELSE IF Failed(r)
       THEN EndSave(s, TRUE) /\ excused' = TRUE
       ELSE LET left == saves[s].left \ {r.about} IN
            /\ saves' = [saves EXCEPT ![s].left = left,
                                      ![s].phase = IF left = {} THEN "synced" ELSE "groups"]
            /\ UNCHANGED <<dialog, excused>>
    /\ UNCHANGED <<ext, grp, rows, groups, others, clicks>>

\* onRingGroupsChanged
ReloadGroups(s) ==
    /\ saves[s].phase = "synced"
    /\ saves' = [saves EXCEPT ![s].phase = "reloading"]
    /\ reqs' = reqs \cup {NewReq("loadGrp", "all", Gone, s)}
    /\ UNCHANGED <<ext, grp, rows, groups, dialog, others, excused, clicks>>

\* onCreated appends the row, onUpdated replaces it; either way the dialog closes,
\* whichever dialog that is by now.
FinishSave(s) ==
    LET sv == saves[s] IN
    /\ sv.phase = "reloaded"
    /\ rows' = IF dialog = Crashed THEN rows
               ELSE IF sv.add THEN [rows EXCEPT ![sv.ext] = sv.row]
               ELSE IF rows[sv.ext] = Gone THEN rows ELSE [rows EXCEPT ![sv.ext] = sv.row]
    /\ EndSave(s, FALSE)
    /\ UNCHANGED <<ext, grp, groups, reqs, others, excused, clicks>>

-----------------------------------------------------------------------------
(* Deleting: DeleteExtensionDialog inside DeleteConfirmDialog.             *)

ConfirmDelete ==
    /\ dialog.mode = "delete" /\ ~dialog.saving /\ Room
    /\ dialog' = [dialog EXCEPT !.saving = TRUE]
    /\ reqs' = reqs \cup {NewReq("delete", dialog.ext, Gone, "none")}
    /\ excused' = (excused \/ Overlap(dialog.ext))
    /\ UNCHANGED <<ext, grp, rows, groups, saves, others, clicks>>

\* The row leaves the list; the ring groups are not loaded again.
HearDelete(r) ==
    LET failed == Failed(r) IN
    /\ r.kind = "delete" /\ r.phase = "served"
    /\ reqs' = reqs \ {r}
    /\ rows' = IF failed THEN rows ELSE [rows EXCEPT ![r.about] = Gone]
    /\ dialog' = IF failed THEN [dialog EXCEPT !.saving = FALSE] ELSE Closed
    /\ UNCHANGED <<ext, grp, groups, saves, others, excused, clicks>>

-----------------------------------------------------------------------------
Init ==
    /\ ext \in [Ext -> {[text |-> TRUE, on |-> TRUE, door |-> FALSE], Gone}]
    /\ grp \in [Group -> [members : SUBSET {e \in Ext : ext[e] # Gone}, label : {TRUE}]]
    /\ rows = [e \in Ext |-> Gone]
    /\ groups = NotLoaded
    /\ dialog = Closed
    /\ saves = [s \in Save |-> IdleSave]
    /\ reqs = {NewReq("loadExt", "all", Gone, "none"), NewReq("loadGrp", "all", Gone, "none")}
    /\ clicks = 0
    /\ others = 0
    /\ excused = FALSE

Next ==
    \/ \E r \in reqs : \/ Serve(r) \/ Lose(r) \/ HearExt(r) \/ HearToggle(r) \/ HearGroups(r)
                       \/ HearRow(r) \/ HearPut(r) \/ HearDelete(r)
    \/ \E e \in Ext : \/ Toggle(e) \/ OpenEdit(e) \/ OpenAdd(e) \/ OpenDelete(e) \/ OtherDoor(e)
    \/ \E g \in Group : Pick(g) \/ OtherGroup(g)
    \/ \E s \in Save : Submit(s) \/ ReloadGroups(s) \/ FinishSave(s)
    \/ CloseDialog \/ ConfirmDelete

Spec == Init /\ [][Next]_vars

-----------------------------------------------------------------------------
(* Properties                                                              *)

TypeOK ==
    /\ ext \in [Ext -> Shown] /\ rows \in [Ext -> Shown]
    /\ grp \in [Group -> GroupRow]
    /\ groups = NotLoaded \/ groups \in [Group -> GroupRow]
    /\ dialog.mode \in {"none", "crashed", "add", "edit", "delete"}
    /\ \A s \in Save : saves[s].phase \in {"idle", "row", "groups", "synced", "reloading", "reloaded"}
    /\ \A r \in reqs : r.phase \in {"sent", "served"}
    /\ clicks \in 0 .. MaxClicks
    /\ others \in 0 .. MaxOthers
    /\ excused \in BOOLEAN

\* The door settings belong to the page of the door stations: no save, switch or
\* answer of this page takes one back, however old the row it started from.
DoorSurvives ==
    [][\A e \in Ext : ext[e] # Gone /\ ext'[e] # Gone /\ ext'[e].door # ext[e].door
                         => others' # others]_vars

\* A save moves nobody but its own extension in or out of a ring group, as long as
\* the group is still the one the page had loaded.
OthersKeepTheirGroups ==
    [][\A r \in reqs, g \in Group :
         (r.kind = "putGroup" /\ r.about = g /\ r.phase = "sent" /\ r \notin reqs'
            /\ r.body.loaded = grp[g])
         => \A e \in Ext \ {r.body.for} : (e \in grp'[g].members) = (e \in grp[g].members)]_vars

\* "Gespeichert." is only said when the extension is in exactly the ring groups the
\* dialog showed as its own, unless somebody else has written the group meanwhile.
SavedMeansMember ==
    \A s \in Save :
      LET sv == saves[s] IN
      sv.phase \in {"synced", "reloading", "reloaded"} /\ sv.groups # NotLoaded
      => \A g \in Group \ sv.foreign : (sv.ext \in grp[g].members) = (g \in sv.sel)

\* Once the page is quiet its list is what the backend has stored.  The exceptions
\* are named: two requests about a row under way at once, an answer that was lost, a
\* save whose ring groups failed, the other admin.
ListIsStored == Quiet /\ ~excused => rows = ext

=============================================================================
