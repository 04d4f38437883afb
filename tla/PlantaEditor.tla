---------------------------- MODULE PlantaEditor ----------------------------
(***************************************************************************)
(* The organizer's floor plan editor: the tabs that show it                *)
(* (src/components/eventos/planta-editor.tsx), the server actions they call *)
(* (src/lib/actions/lots.ts) and the lot categories                        *)
(* (src/lib/actions/lot-categories.ts) of one event.                       *)
(*                                                                         *)
(* A tab keeps its own copy of the lots, saves a moved lot when its timer  *)
(* of one second fires, and hears of nothing another tab does.  The server *)
(* actions of a tab are sent one at a time, in order: Next.js queues them. *)
(***************************************************************************)
EXTENDS Naturals, Sequences

CONSTANTS
  Editors, LotIds, Categories,
  InitialLots,  \* the lots drawn before
  MaxEdits,     \* bound on drags, drawn polygons and deletions, of all tabs
  MaxPoints,    \* bound on the vertices clicked before the double click
  None

ASSUME EditorAssumption ==
  /\ InitialLots \subseteq LotIds
  /\ MaxEdits \in Nat /\ MaxPoints \in Nat
  /\ None \notin LotIds \cup Categories \cup Editors

\* A polygon stands for the edit that made it: its tab and its number.  The
\* lots of the start were drawn by nobody here.
Polygon == [by : Editors \cup {None}, n : 0 .. MaxEdits]

\* A row of lots.  Rows are soft-deleted.
Lot == [category : Categories, polygon : Polygon, live : BOOLEAN]

ASSUME NoneIsNothing == None \notin Polygon \cup Lot

\* A server action on its way: what it asks, and "sent", or its answer.
Request ==
  [op : {"create", "update", "delete"}, lot : LotIds \cup {None},
   polygon : Polygon \cup {None}, category : Categories \cup {None},
   answer : {"sent", "data", "serverError"}]

\* The state of the component.  points counts drawPoints; the lots of the tab
\* and their timers are functions of the lot's id.
Tab ==
  [open : BOOLEAN, mode : {"select", "draw"}, selected : LotIds \cup {None},
   points : 0 .. MaxPoints, category : Categories \cup {None},
   lots : [LotIds -> Polygon \cup {None}], timer : [LotIds -> Polygon \cup {None}],
   saveStatus : {"idle", "saving", "saved", "error"}]

VARIABLES
  lots,        \* lots[l]: Lot, or None before it is created
  categories,  \* categories[c]: "live" or "deleted"
  deletion,    \* a deleteLotCategory past its check: [category, seen] or None
  tabs,        \* tabs[t]: Tab
  queue,       \* queue[t]: the server actions of t, the first one under way
  edits,       \* edits so far
  failed       \* failed[t]: lots whose last save t reported as an error

editorVars == <<lots, categories, deletion, tabs, queue, edits, failed>>
serverVars == <<lots, categories, deletion>>

EditorTypeOK ==
  /\ lots \in [LotIds -> Lot \cup {None}]
  /\ categories \in [Categories -> {"live", "deleted"}]
  /\ deletion \in [category : Categories, seen : SUBSET LotIds] \cup {None}
  /\ tabs \in [Editors -> Tab]
  /\ queue \in [Editors -> Seq(Request)]
  /\ edits \in 0 .. MaxEdits
  /\ failed \in [Editors -> SUBSET LotIds]

Live(l) == lots[l] # None /\ lots[l].live

Nowhere == [l \in LotIds |-> None]
Closed == [open |-> FALSE, mode |-> "select", selected |-> None, points |-> 0,
           category |-> None, lots |-> Nowhere, timer |-> Nowhere, saveStatus |-> "idle"]

EditorInit ==
  /\ \E c \in Categories :
       lots = [l \in LotIds |->
                 IF l \in InitialLots
                   THEN [category |-> c, live |-> TRUE, polygon |-> [by |-> None, n |-> 0]]
                   ELSE None]
  /\ categories = [c \in Categories |-> "live"]
  /\ deletion = None
  /\ tabs = [t \in Editors |-> Closed]
  /\ queue = [t \in Editors |-> <<>>]
  /\ edits = 0
  /\ failed = [t \in Editors |-> {}]

-----------------------------------------------------------------------------
(* Opening and leaving the page *)

\* PlantaEditorPage reads lots and categories once; without a category the
\* page shows no editor.  The first category is the active one; the list has
\* no ORDER BY.  Choosing another one in the toolbar is left out.
Open(t) ==
  /\ ~tabs[t].open /\ queue[t] = <<>>
  /\ \E c \in Categories :
       /\ categories[c] = "live"
       /\ tabs' = [tabs EXCEPT ![t] =
            [Closed EXCEPT !.open = TRUE, !.category = c,
                           !.lots = [l \in LotIds |-> IF Live(l) THEN lots[l].polygon ELSE None]]]
  /\ failed' = [failed EXCEPT ![t] = {}]
  /\ UNCHANGED <<serverVars, queue, edits>>

\* Unmounting clears the timers: a drag of the last second is not saved.  A
\* server action already sent goes on.
Close(t) ==
  /\ tabs[t].open
  /\ tabs' = [tabs EXCEPT ![t] = Closed]
  /\ UNCHANGED <<serverVars, queue, edits, failed>>

-----------------------------------------------------------------------------
(* The canvas *)

CountEdit == edits < MaxEdits /\ edits' = edits + 1
NextPolygon(t) == [by |-> t, n |-> edits + 1]

Selecting(t) == tabs[t].open /\ tabs[t].mode = "select"
Drawing(t)   == tabs[t].open /\ tabs[t].mode = "draw"
OnlyTab(t)   == UNCHANGED <<serverVars, queue, edits, failed>>

SelectLot(t, l) ==
  /\ Selecting(t) /\ tabs[t].lots[l] # None
  /\ tabs' = [tabs EXCEPT ![t].selected = l]
  /\ OnlyTab(t)

\* The toolbar's "Novo poligono" and "Selecionar".
StartDrawing(t) ==
  /\ Selecting(t)
  /\ tabs' = [tabs EXCEPT ![t].mode = "draw", ![t].selected = None]
  /\ OnlyTab(t)

BackToSelect(t) ==
  /\ Drawing(t)
  /\ tabs' = [tabs EXCEPT ![t].mode = "select", ![t].points = 0]
  /\ OnlyTab(t)

ClickStage(t) ==
  /\ Drawing(t) /\ tabs[t].points < MaxPoints
  /\ tabs' = [tabs EXCEPT ![t].points = @ + 1]
  /\ OnlyTab(t)

\* Mutant: a pending save is not replaced by a newer one.
ScheduleSave_KeepsFirst(tab, l, p) ==
  [tab EXCEPT !.timer[l] = IF @ = None THEN p ELSE @, !.saveStatus = "saving"]

\* scheduleSave: the lot's timer starts again, with the new polygon.
ScheduleSave(tab, l, p) == [tab EXCEPT !.timer[l] = p, !.saveStatus = "saving"]

\* onPolygonDragEnd, onPolygonTransformEnd: offset and scale are baked into
\* the points of the tab's copy.
Drag(t, l) ==
  LET p == NextPolygon(t) IN
  /\ Selecting(t) /\ tabs[t].lots[l] # None
  /\ CountEdit
  /\ tabs' = [tabs EXCEPT ![t] = ScheduleSave([@ EXCEPT !.lots[l] = p], l, p)]
  /\ failed' = [failed EXCEPT ![t] = @ \ {l}]
  /\ UNCHANGED <<serverVars, queue>>

-----------------------------------------------------------------------------
(* Server actions, as the tab sends them *)

\* Mutant: server actions overtake one another.
Enqueue_Overtakes(q, r) == <<r>> \o q

Enqueue(q, r) == Append(q, r)

Asks(op, l, p, c) ==
  [op |-> op, lot |-> l, polygon |-> p, category |-> c, answer |-> "sent"]

Send(t, r) == queue' = [queue EXCEPT ![t] = Enqueue(@, r)]

\* DEBOUNCE_MS after the last drag of the lot.
TimerFires(t, l) ==
  LET p == tabs[t].timer[l] IN
  /\ p # None
  /\ Send(t, Asks("update", l, p, None))
  /\ tabs' = [tabs EXCEPT ![t].timer[l] = None]
  /\ UNCHANGED <<serverVars, edits, failed>>

\* Mutant: "saving" is shown before the vertices are counted.
TooFewPoints_Saving(tab) == [tab EXCEPT !.points = 0, !.mode = "select", !.saveStatus = "saving"]

TooFewPoints(tab) == [tab EXCEPT !.points = 0, !.mode = "select"]

\* A double click on the stage is two clicks and then finalizePolygon.  The
\* points stay until the answer: another double click sends them again.
DoubleClick(t) ==
  /\ Drawing(t)
  /\ IF tabs[t].points + 2 < 3
       THEN /\ tabs' = [tabs EXCEPT ![t] = TooFewPoints(@)]
            /\ UNCHANGED <<queue, edits>>
       ELSE /\ CountEdit
            /\ Send(t, Asks("create", None, NextPolygon(t), tabs[t].category))
            /\ tabs' = [tabs EXCEPT ![t].saveStatus = "saving"]
  /\ UNCHANGED <<serverVars, failed>>

\* onDeleteSelected; the selection stays until the answer.
DeleteSelected(t) ==
  LET l == tabs[t].selected IN
  /\ tabs[t].open /\ l # None
  /\ CountEdit
  /\ Send(t, Asks("delete", l, None, None))
  /\ tabs' = [tabs EXCEPT ![t].saveStatus = "saving"]
  /\ UNCHANGED <<serverVars, failed>>

-----------------------------------------------------------------------------
(* Server actions, as the server runs them *)

UnderWay(t) == queue[t] # <<>> /\ Head(queue[t]).answer = "sent"
Answered(t, r) == queue' = [queue EXCEPT ![t] = <<r>> \o Tail(@)]

\* createLotInTenant: the category is not looked up.
CreateLot(t) ==
  LET r == Head(queue[t]) IN
  /\ UnderWay(t) /\ r.op = "create"
  /\ \E l \in LotIds :
       /\ lots[l] = None
       /\ lots' = [lots EXCEPT ![l] = [category |-> r.category, polygon |-> r.polygon,
                                       live |-> TRUE]]
       /\ Answered(t, [r EXCEPT !.lot = l, !.answer = "data"])
  /\ UNCHANGED <<categories, deletion, tabs, edits, failed>>

\* updateLotGeometryInTenant: of a deleted lot it updates no row and says so
\* with data = null, which is no error.
UpdateGeometry(t) ==
  LET r == Head(queue[t]) IN
  /\ UnderWay(t) /\ r.op = "update"
  /\ lots' = IF Live(r.lot) THEN [lots EXCEPT ![r.lot].polygon = r.polygon] ELSE lots
  /\ Answered(t, [r EXCEPT !.answer = "data"])
  /\ UNCHANGED <<categories, deletion, tabs, edits, failed>>

\* deleteLotInTenant; deleteLot throws when there was nothing to delete.
DeleteLot(t) ==
  LET r == Head(queue[t]) IN
  /\ UnderWay(t) /\ r.op = "delete"
  /\ lots' = IF Live(r.lot) THEN [lots EXCEPT ![r.lot].live = FALSE] ELSE lots
  /\ Answered(t, [r EXCEPT !.answer = IF Live(r.lot) THEN "data" ELSE "serverError"])
  /\ UNCHANGED <<categories, deletion, tabs, edits, failed>>

\* The session is over, the tenant is unknown or the database is down.
RefuseRequest(t) ==
  /\ UnderWay(t)
  /\ Answered(t, [Head(queue[t]) EXCEPT !.answer = "serverError"])
  /\ UNCHANGED <<serverVars, tabs, edits, failed>>

-----------------------------------------------------------------------------
(* Server actions, as the tab hears of them *)

\* finally: the points are dropped, whatever was clicked while waiting.
EndDrawing(tab, r) ==
  IF r.op = "create" THEN [tab EXCEPT !.points = 0, !.mode = "select"] ELSE tab

\* What the answer changes in a tab that is still open.
Heard(tab, r) ==
  LET done == [EndDrawing(tab, r) EXCEPT !.saveStatus = "saved"] IN
  IF r.answer = "serverError" THEN [EndDrawing(tab, r) EXCEPT !.saveStatus = "error"]
  ELSE CASE r.op = "create" -> [done EXCEPT !.lots[r.lot] = r.polygon]
         [] r.op = "update" -> done
         [] r.op = "delete" -> [done EXCEPT !.lots[r.lot] = None, !.selected = None]

Failures(t, r, ok) ==
  IF r.op = "update" /\ ~ok THEN failed[t] \cup {r.lot} ELSE failed[t]

HearReply(t) ==
  LET r == Head(queue[t]) IN
  /\ queue[t] # <<>> /\ r.answer # "sent"
  /\ tabs' = [tabs EXCEPT ![t] = IF @.open THEN Heard(@, r) ELSE @]
  /\ queue' = [queue EXCEPT ![t] = Tail(@)]
  /\ failed' = [failed EXCEPT ![t] = Failures(t, r, r.answer = "data")]
  /\ UNCHANGED <<serverVars, edits>>

\* The connection is lost before or after the server ran the action.
LoseReply(t) ==
  LET r == Head(queue[t]) IN
  /\ queue[t] # <<>>
  /\ tabs' = [tabs EXCEPT ![t] =
       IF @.open THEN [EndDrawing(@, r) EXCEPT !.saveStatus = "error"] ELSE @]
  /\ queue' = [queue EXCEPT ![t] = Tail(@)]
  /\ failed' = [failed EXCEPT ![t] = Failures(t, r, FALSE)]
  /\ UNCHANGED <<serverVars, edits>>

-----------------------------------------------------------------------------
(* The categories page: deleteLotCategoryInTenant, two statements *)

InCategory(c) == {l \in LotIds : Live(l) /\ lots[l].category = c}

\* Mutant: lots are not looked for.
CategoryIsFree_NotChecked(c) == TRUE

CategoryIsFree(c) == InCategory(c) = {}

CheckCategory(c) ==
  /\ deletion = None /\ categories[c] = "live"
  /\ CategoryIsFree(c)
  /\ deletion' = [category |-> c, seen |-> {l \in LotIds : lots[l] # None}]
  /\ UNCHANGED <<lots, categories, tabs, queue, edits, failed>>

DeleteCategory ==
  /\ deletion # None
  /\ categories' = [categories EXCEPT ![deletion.category] = "deleted"]
  /\ deletion' = None
  /\ UNCHANGED <<lots, tabs, queue, edits, failed>>

-----------------------------------------------------------------------------
OnLot(t, l) == SelectLot(t, l) \/ Drag(t, l) \/ TimerFires(t, l)

OnCanvas(t) ==
  \/ Open(t) \/ Close(t)
  \/ StartDrawing(t) \/ BackToSelect(t) \/ ClickStage(t) \/ DoubleClick(t)
  \/ DeleteSelected(t)

ServerRuns(t) == CreateLot(t) \/ UpdateGeometry(t) \/ DeleteLot(t) \/ RefuseRequest(t)

EditorNext ==
  \/ \E t \in Editors, l \in LotIds : OnLot(t, l)
  \/ \E t \in Editors : OnCanvas(t) \/ ServerRuns(t) \/ HearReply(t) \/ LoseReply(t)
  \/ \E c \in Categories : CheckCategory(c)
  \/ DeleteCategory

EditorSpec == EditorInit /\ [][EditorNext]_editorVars

\* Timers fire, the server answers and the tab hears of it.  Nothing makes the
\* organizer act.
EditorFairness ==
  \A t \in Editors :
    /\ \A l \in LotIds : WF_editorVars(TimerFires(t, l))
    /\ WF_editorVars(ServerRuns(t))
    /\ WF_editorVars(HearReply(t))

EditorFairSpec == EditorSpec /\ EditorFairness

-----------------------------------------------------------------------------
(* Properties *)

Waiting(t, l, p) ==
  \/ tabs[t].timer[l] = p
  \/ \E i \in DOMAIN queue[t] : queue[t][i].op = "update" /\ queue[t][i].lot = l
                                  /\ queue[t][i].polygon = p

\* What the organizer sees in a tab after dragging a lot is on its way to the
\* server or there, unless an error was shown, the lot is gone, or another tab
\* saved the lot too: the debounce and the queue lose nothing
\* (planta-editor.tsx:307-328).
EditsAreKept ==
  \A t \in Editors, l \in LotIds :
    LET p == tabs[t].lots[l] IN
    p # None /\ p.by = t /\ l \notin failed[t] =>
      \/ Waiting(t, l, p)
      \/ ~Live(l)
      \/ lots[l].polygon = p
      \/ lots[l].polygon.by # t

\* A save never takes a lot back to an older polygon of the same tab, although
\* a lot's next timer may fire while its last save is still under way.
NeverBackwards ==
  [][\A l \in LotIds :
       LET old == lots[l].polygon new == lots'[l].polygon IN
       lots[l] # None /\ old.by = new.by => old.n <= new.n]_editorVars

\* A category is not deleted from under a lot that existed when the deletion
\* looked for lots (lot-categories.ts:131-139).  A lot created after that may
\* end up in it: createLotInTenant does not look.
DeletedCategoryWasFree ==
  [][\A c \in Categories : categories'[c] # categories[c] =>
       \A l \in InCategory(c) : l \notin deletion.seen]_editorVars

\* "Salvando" ends: with "Salvo", with an error or with the page.
SavingEnds == \A t \in Editors : tabs[t].saveStatus = "saving" ~> tabs[t].saveStatus # "saving"

=============================================================================
