----------------------------- MODULE AdminPanel -----------------------------
(***************************************************************************)
(* An organizer's panel over the items of a module (components/admin/       *)
(* use-admin-resource.ts): a list, one editor below it, a confirmation in    *)
(* front, and up to four requests in flight whose replies land in any order  *)
(* while the list's controls stay live.  Other organizers write to the same  *)
(* store; each of their requests is one step.                                *)
(***************************************************************************)
EXTENDS Integers, Sequences, FiniteSets, SequencesExt

CONSTANTS
    IdOrder,         \* every id there may be, as localeCompare orders them
    FreshIds,        \* those a new item may be given, in turn
    Texts,           \* what a row may say besides its place
    Visits           \* [start, allow]: what is stored, and how often each thing may happen

VARIABLES
    stored,          \* ctf:quiz:questions: id -> [text, order]
    shown,           \* rows
    listError, loaded,
    editing, openedAs, pendingEditor,
    deleteTarget,
    call,            \* the requests in flight: save, remove, order, load
    minted,          \* how many ids new items have been given
    allow,           \* what is left of the visit's allowance
    apart            \* history: the list may differ from the store, and why is known
panelVars == <<stored, shown, listError, loaded, editing, openedAs, pendingEditor,
               deleteTarget, call, minted, allow, apart>>
editorVars == <<editing, openedAs, pendingEditor>>

PanelIds == ToSet(IdOrder)
Nobody == "none"
Closed == [id |-> Nobody, order |-> 0, text |-> Nobody]
New == "new"
Idle == [at |-> "idle"]
May(kind) == allow[kind] > 0 /\ allow' = [allow EXCEPT ![kind] = @ - 1]
-----------------------------------------------------------------------------
(* ordered-rows.ts: rows are kept by id, and listed by order, then id. *)

Place(list, id) == CHOOSE k \in DOMAIN list : list[k] = id

Before(rows, a, b) ==
    \/ rows[a].order < rows[b].order
    \/ rows[a].order = rows[b].order /\ Place(IdOrder, a) < Place(IdOrder, b)

\* Each at its place, which is how many are before it.
Sorted(ids, rows) ==
    [k \in 1..Cardinality(ids) |-> CHOOSE i \in ids : Cardinality({j \in ids : Before(rows, j, i)}) = k - 1]
ListOf(rows) == Sorted(DOMAIN rows, rows)

NextOrder(rows) == Max({0} \union {rows[i].order : i \in DOMAIN rows}) + 1
Upsert(rows, id, row) == [i \in DOMAIN rows \union {id} |-> IF i = id THEN row ELSE rows[i]]
Without(rows, id) == [i \in DOMAIN rows \ {id} |-> rows[i]]

\* reorderRows: every row's order is its new place.
Reordered(rows, from, to) ==
    LET list == InsertAt(RemoveAt(ListOf(rows), from), to, ListOf(rows)[from])
    IN  [i \in DOMAIN rows |-> [rows[i] EXCEPT !.order = Place(list, i)]]

\* changedOrderRows, as rowPayload sends them: whole rows.
ChangedRows(before, after) ==
    LET ids == Sorted({i \in DOMAIN after : before[i].order # after[i].order}, after)
    IN  [k \in DOMAIN ids |-> [id |-> ids[k], row |-> after[ids[k]]]]

Row == [text : Texts, order : Nat \ {0}]
AreRows(rows) == DOMAIN rows \subseteq PanelIds /\ rows \in [DOMAIN rows -> Row]

\* What is stored at first are rows; "none" and "new" are nobody's id.
ASSUME PanelAssumption ==
    /\ IdOrder \in Seq(PanelIds) /\ {Nobody, New} \intersect PanelIds = {} /\ Nobody \notin Texts
    /\ \A visit \in Visits : AreRows(visit.start)
-----------------------------------------------------------------------------
(* Requests: one goes out, lands on the store or not, and its reply comes    *)
(* back; a reply that is lost reads like a refusal.                          *)

InFlight(k) == call[k] # Idle
Quiet == \A k \in DOMAIN call : ~InFlight(k)

\* Something else is on its way: a load in flight no longer settles the list.
Beside(k) == [j \in DOMAIN call |-> IF j # k /\ call[j] # Idle /\ j = "load" THEN [call[j] EXCEPT !.alone = FALSE] ELSE call[j]]
Sends(k, request) == call' = [Beside(k) EXCEPT ![k] = request] /\ apart' = (apart \/ ~Quiet)
Returns(k) == call' = [call EXCEPT ![k] = Idle]

\* What a request does to the store.
Effect(k) ==
    CASE k = "save" -> Upsert(stored, call[k].id, call[k].row)
      [] k = "remove" -> Without(stored, call[k].id)
      [] k = "order" -> Upsert(stored, Head(call[k].todo).id, Head(call[k].todo).row)
      [] k = "load" -> Upsert(stored, call[k].id, call[k].row)

\* postRow, DELETE, the import's POST
Land(k) ==
    /\ call[k].at = (IF k = "load" THEN "import" ELSE "out")
    /\ \/ stored' = Effect(k) /\ call' = [call EXCEPT ![k].at = "done"] /\ UNCHANGED <<allow, apart>>
       \/ stored' \in {stored, Effect(k)} /\ call' = [call EXCEPT ![k].at = "refused"] /\ May("faults")
          /\ apart' = (apart \/ (k # "order" /\ stored' # stored))
    /\ UNCHANGED <<shown, listError, loaded, editorVars, deleteTarget, minted>>

\* loadResource, of a reload or after a reorder that failed
Reading(k) == IF k = "load" THEN "out" ELSE "reread"
ReadStore(k) ==
    /\ call[k].at = Reading(k)
    /\ \/ call' = [call EXCEPT ![k].at = "read", ![k].got = stored] /\ UNCHANGED allow
       \/ call' = [call EXCEPT ![k].at = "unread"] /\ May("faults")
    /\ UNCHANGED <<stored, shown, listError, loaded, editorVars, deleteTarget, minted, apart>>
-----------------------------------------------------------------------------
(* The list. *)

\* applyLoad, after the mount, a Retry or an import
ApplyLoad ==
    /\ call["load"].at \in {"read", "unread"} /\ Returns("load")
    /\ IF call["load"].at = "read"
       THEN /\ shown' = call["load"].got /\ listError' = FALSE /\ loaded' = TRUE
            /\ apart' = (apart /\ ~call["load"].alone)
       ELSE listError' = TRUE /\ apart' = (apart \/ call["load"].id # Nobody) /\ UNCHANGED <<shown, loaded>>
    /\ UNCHANGED <<stored, editorVars, deleteTarget, minted, allow>>

Load(at, id, row) == [at |-> at, id |-> id, row |-> row, got |-> <<>>, alone |-> Quiet]
Unblocked == deleteTarget = Nobody /\ pendingEditor = Closed

Reload ==
    /\ ~InFlight("load") /\ Unblocked /\ May("reloads")
    /\ Sends("load", Load("out", Nobody, Closed))
    /\ UNCHANGED <<stored, shown, listError, loaded, editorVars, deleteTarget, minted>>

\* useBundleImport: the bundle is one row; the list is read again behind it.
Import(id, text) ==
    /\ ~InFlight("load") /\ Unblocked /\ May("imports")
    /\ Sends("load", Load("import", id, [text |-> text, order |-> 1]))
    /\ UNCHANGED <<stored, shown, listError, loaded, editorVars, deleteTarget, minted>>

ImportReply ==
    /\ call["load"].at \in {"done", "refused"}
    /\ InFlight("load") /\ call["load"].id # Nobody
    /\ IF call["load"].at = "done" THEN call' = [call EXCEPT !["load"].at = "out"] ELSE Returns("load")
    /\ UNCHANGED <<stored, shown, listError, loaded, editorVars, deleteTarget, minted, allow, apart>>

\* move: the new places are shown at once and written back row by row.
Move(from, to) ==
    /\ ~InFlight("order") /\ Unblocked /\ from # to /\ {from, to} \subseteq 1..Cardinality(DOMAIN shown)
    /\ LET after == Reordered(shown, from, to)
           changed == ChangedRows(shown, after)
       IN  /\ changed # <<>> /\ May("moves")
           /\ shown' = after /\ listError' = FALSE
           /\ Sends("order", [at |-> "out", todo |-> changed, was |-> shown, got |-> <<>>])
    /\ UNCHANGED <<stored, loaded, editorVars, deleteTarget, minted>>

\* writeBackReorder: the next row, or the end; the first failure stops it and
\* has the store read again.
OrderReply ==
    /\ InFlight("order") /\ call["order"].at \in {"done", "refused"}
    /\ call' = IF call["order"].at = "refused" THEN [call EXCEPT !["order"].at = "reread"]
               ELSE IF Len(call["order"].todo) > 1
                    THEN [call EXCEPT !["order"].at = "out", !["order"].todo = Tail(@)]
               ELSE [call EXCEPT !["order"] = Idle]
    /\ UNCHANGED <<stored, shown, listError, loaded, editorVars, deleteTarget, minted, allow, apart>>

\* Defect: a reorder that failed shows the list from before the move.
BackToBefore(order) == order.was

\* The store's list when it could be read, the list before the move when not.
AfterFailure(order) == IF order.at = "read" THEN order.got ELSE order.was

OrderFailed ==
    /\ InFlight("order") /\ call["order"].at \in {"read", "unread"} /\ Returns("order")
    /\ shown' = AfterFailure(call["order"]) /\ listError' = TRUE
    /\ apart' = (apart \/ call["order"].at = "unread")
    /\ UNCHANGED <<stored, loaded, editorVars, deleteTarget, minted, allow>>
-----------------------------------------------------------------------------
(* The editor. *)

\* editorIsDirty
Dirty == editing # Closed /\ editing # openedAs

ApplyEditor(next) == editing' = next /\ openedAs' = next /\ pendingEditor' = Closed

\* openEditor, from the list's Edit and from Add
OpenEditor(next) ==
    /\ ~InFlight("save") /\ Unblocked /\ May("opens")
    /\ IF Dirty THEN pendingEditor' = next /\ UNCHANGED <<editing, openedAs>> ELSE ApplyEditor(next)
    /\ UNCHANGED <<stored, shown, listError, loaded, deleteTarget, call, minted, apart>>

Edit(id) == id \in DOMAIN shown /\ OpenEditor([id |-> id, order |-> shown[id].order, text |-> shown[id].text])
Add == OpenEditor([id |-> New, order |-> NextOrder(shown), text |-> Nobody])

\* The form's fields are disabled while it is saved.
Type(text) ==
    /\ editing # Closed /\ text # editing.text /\ ~InFlight("save") /\ Unblocked /\ May("edits")
    /\ editing' = [editing EXCEPT !.text = text]
    /\ UNCHANGED <<stored, shown, listError, loaded, openedAs, pendingEditor, deleteTarget, call, minted, apart>>

ConfirmDraftSwitch ==
    /\ pendingEditor # Closed /\ ApplyEditor(pendingEditor)
    /\ UNCHANGED <<stored, shown, listError, loaded, deleteTarget, call, minted, allow, apart>>

CancelDraftSwitch ==
    /\ pendingEditor # Closed /\ pendingEditor' = Closed
    /\ UNCHANGED <<stored, shown, listError, loaded, editing, openedAs, deleteTarget, call, minted, allow, apart>>

CancelEditor ==
    /\ editing # Closed /\ ~InFlight("save") /\ Unblocked /\ ApplyEditor(Closed)
    /\ UNCHANGED <<stored, shown, listError, loaded, deleteTarget, call, minted, allow, apart>>

\* submitEditor: the id of a new item is minted now, and the place is the one
\* the editor was opened with.
SubmitEditor(fresh) ==
    /\ editing # Closed /\ editing.text # Nobody /\ ~InFlight("save") /\ Unblocked /\ May("saves")
    /\ minted' = IF editing.id = New THEN minted + 1 ELSE minted
    /\ fresh = IF editing.id = New THEN FreshIds[minted'] ELSE editing.id
    /\ Sends("save", [at |-> "out", id |-> fresh, row |-> [text |-> editing.text, order |-> editing.order]])
    /\ UNCHANGED <<stored, shown, listError, loaded, editorVars, deleteTarget>>

SaveReply ==
    /\ InFlight("save") /\ call["save"].at \in {"done", "refused"} /\ Returns("save")
    /\ IF call["save"].at = "done"
       THEN /\ shown' = Upsert(shown, call["save"].id, call["save"].row)
            /\ editing' = Closed /\ openedAs' = Closed
       ELSE UNCHANGED <<shown, editing, openedAs>>
    /\ UNCHANGED <<stored, listError, loaded, pendingEditor, deleteTarget, minted, allow, apart>>
-----------------------------------------------------------------------------
(* Deleting. *)

RequestDelete(id) ==
    /\ id \in DOMAIN shown /\ Unblocked /\ May("deletes") /\ deleteTarget' = id
    /\ UNCHANGED <<stored, shown, listError, loaded, editorVars, call, minted, apart>>

\* Ignored while the request runs.
CancelDelete ==
    /\ deleteTarget # Nobody /\ ~InFlight("remove") /\ deleteTarget' = Nobody
    /\ UNCHANGED <<stored, shown, listError, loaded, editorVars, call, minted, allow, apart>>

\* Defect: any open editor closes, whatever it edits.
ClosesAny(editor, id) == editor # Closed

ClosesOnDelete(editor, id) == editor.id = id

\* remove: which editor it will close is the one open now.
Removal ==
    /\ deleteTarget # Nobody /\ ~InFlight("remove") /\ May("tries")
    /\ Sends("remove", [at |-> "out", id |-> deleteTarget, closes |-> ClosesOnDelete(editing, deleteTarget)])
    /\ UNCHANGED <<stored, shown, listError, loaded, editorVars, deleteTarget, minted>>

RemoveReply ==
    /\ InFlight("remove") /\ call["remove"].at \in {"done", "refused"} /\ Returns("remove")
    /\ IF call["remove"].at = "done"
       THEN /\ shown' = Without(shown, call["remove"].id) /\ deleteTarget' = Nobody
            /\ editing' = IF call["remove"].closes THEN Closed ELSE editing
            /\ openedAs' = IF call["remove"].closes THEN Closed ELSE openedAs
       ELSE UNCHANGED <<shown, deleteTarget, editing, openedAs>>
    /\ UNCHANGED <<stored, listError, loaded, pendingEditor, minted, allow, apart>>
-----------------------------------------------------------------------------
\* Another organizer edits, or removes, an item.
OtherWrites ==
    /\ May("others") /\ apart' = TRUE /\ call' = Beside("save")
    /\ \E i \in DOMAIN stored :
          \/ \E text \in Texts \ {stored[i].text} : stored' = Upsert(stored, i, [stored[i] EXCEPT !.text = text])
          \/ stored' = Without(stored, i)
    /\ UNCHANGED <<shown, listError, loaded, editorVars, deleteTarget, minted>>

PanelInit ==
    /\ \E visit \in Visits : stored = visit.start /\ allow = visit.allow
    /\ shown = <<>> /\ listError = FALSE /\ loaded = FALSE
    /\ editing = Closed /\ openedAs = Closed /\ pendingEditor = Closed /\ deleteTarget = Nobody
    /\ call = [k \in {"save", "remove", "order", "load"} |->
                 IF k = "load" THEN [at |-> "out", id |-> Nobody, row |-> Closed, got |-> <<>>, alone |-> TRUE] ELSE Idle]
    /\ minted = 0 /\ apart = FALSE

PanelNext ==
    \/ \E k \in {"save", "remove", "order", "load"} : InFlight(k) /\ Land(k)
    \/ \E k \in {"order", "load"} : InFlight(k) /\ ReadStore(k)
    \/ ApplyLoad \/ Reload \/ ImportReply \/ OrderReply \/ OrderFailed
    \/ \E i \in PanelIds, text \in Texts : Import(i, text)
    \/ \E from, to \in 1..Len(IdOrder) : Move(from, to)
    \/ \E i \in PanelIds : Edit(i) \/ RequestDelete(i) \/ SubmitEditor(i)
    \/ Add \/ \E text \in Texts : Type(text)
    \/ ConfirmDraftSwitch \/ CancelDraftSwitch \/ CancelEditor \/ SaveReply
    \/ CancelDelete \/ Removal \/ RemoveReply \/ OtherWrites

PanelSpec == PanelInit /\ [][PanelNext]_panelVars
-----------------------------------------------------------------------------
PanelTypeOK ==
    /\ DOMAIN shown \union DOMAIN stored \subseteq PanelIds
    /\ \A i \in DOMAIN stored : stored[i].text \in Texts /\ stored[i].order > 0
    /\ editing.id \in PanelIds \union {Nobody, New} /\ pendingEditor.id \in PanelIds \union {Nobody, New}
    /\ deleteTarget \in PanelIds \union {Nobody}

\* A quiet panel shows what is stored, through refused and half-done writes,
\* with or without an error line: all but where another organizer wrote, two
\* requests overlapped, a reply or a second read was lost
\* (use-admin-resource.ts:154-169, 392-405).
ShowsStore == Quiet /\ loaded /\ ~apart => shown = stored

PanelInv == PanelTypeOK /\ ShowsStore

\* A touched draft leaves the form only when that draft is what was saved, when
\* its own item is deleted, or by the organizer's word: no reply of another
\* request takes it (use-admin-resource.ts:58-84, 308-322).
DraftKept ==
    [][Dirty /\ <<editing', openedAs'>> # <<editing, openedAs>> =>
         \/ openedAs' = openedAs /\ editing'.id = editing.id /\ ~InFlight("save")
         \/ /\ SaveReply /\ call["save"].row = [text |-> editing.text, order |-> editing.order]
            /\ editing.id \in {call["save"].id, New}
         \/ RemoveReply /\ call["remove"].id = editing.id
         \/ CancelEditor \/ ConfirmDraftSwitch]_panelVars
-----------------------------------------------------------------------------
\* "The ORDER is written from list position" (admin-quiz-controls.tsx:33):
\* nothing but a move or a read changes which of two listed rows is first.
OnlyMovesReorder ==
    [][SaveReply => \A i, j \in DOMAIN shown \intersect DOMAIN shown' :
         shown[i].order < shown[j].order => shown'[i].order < shown'[j].order]_panelVars

\* "Re-saves an existing row unchanged apart from its order"
\* (use-admin-resource.ts:105-106).
ReorderMovesOnly ==
    [][InFlight("order") /\ Land("order") => \A i \in DOMAIN stored' :
         i \in DOMAIN stored /\ stored'[i].text = stored[i].text]_panelVars

\* One draft of a new item becomes one item.
OneItemPerDraft == Cardinality(ToSet(FreshIds) \intersect DOMAIN stored) <= 1
=============================================================================
