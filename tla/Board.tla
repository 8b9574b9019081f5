-------------------------------- MODULE Board -------------------------------
(***************************************************************************)
(* The board of one browser (GanttBoard.tsx): it is loaded from a project, *)
(* its user looks at it, drags cards and bars and edits fields, and the    *)
(* ticket store brings it what the polls and the write-backs answer.       *)
(*                                                                         *)
(* `items' is React's state with the updates that are queued; `rendered'   *)
(* is stateRef, what the last render left and what every handler reads.    *)
(* Of the server only the order of what it does is kept: an operation is   *)
(* handled, echoed, and written or given up.  The calls it is made of and  *)
(* their races are in Writeback, the sockets and polls in Collab.          *)
(***************************************************************************)
EXTENDS Plan

CONSTANTS
  Projects,     \* what Azure DevOps may hold when the board is opened
  Edited,       \* bound: the projects whose board is edited, not only looked at
  Touched,      \* bound: the work items edited outside of the application
  MaxGestures,  \* bound: gestures of the user
  MaxMishaps,   \* bound: edits outside of the application, operations rejected or given up
  MaxUnderWay   \* bound: operations and messages under way when a gesture begins

\* A work item of a project, whose parent is one too, readable or not.
WorkItemType(p, i) ==
  /\ DOMAIN p[i] = {"type", "parent", "path", "area", "assignee", "column", "state",
                    "effort", "start", "target", "readable"}
  /\ p[i].parent \in DOMAIN p \cup {None} /\ p[i].assignee \in Member \cup {None}
  /\ {p[i].start, p[i].target} \subseteq Int \cup {None}
  /\ p[i].effort \in Nat /\ p[i].readable \in BOOLEAN

ASSUME BoardAssumption ==
  /\ \A p \in Projects :
       DOMAIN p \subseteq WorkItem /\ \A i \in DOMAIN p : WorkItemType(p, i)
  /\ Edited \subseteq Projects /\ Touched \subseteq WorkItem
  /\ {MaxGestures, MaxMishaps, MaxUnderWay} \subseteq Nat

\* Columns and states have names.
ASSUME NamesAssumption ==
  \A p \in Projects : \A k \in DOMAIN States(SyncTickets(p)) :
    States(SyncTickets(p))[k].name # None

VARIABLES
  ado,        \* the work items of Azure DevOps
  page,       \* "none", "open", or "blank" once a render failed
  people,     \* the rows, fixed at loading
  states,     \* the columns and states of the session
  tickets,    \* tickets.store
  items, rendered,
  view,       \* what the user chose to see
  drag,       \* the card or the bar being dragged
  sent,       \* operations the server has not handled yet, in order
  jobs,       \* those it has queued and not written to Azure DevOps yet
  cache,      \* Redis's tickets
  echoes,     \* the `operation:applied' on their way to this browser
  answers,    \* the other messages on their way: an operation written or rejected, and
              \* the ticket of one that was given up
  resized,    \* history: the ranges this user gave to epics and features, unless lost
  gestures, mishaps, editable

project == <<ado, editable>>
session == <<people, states>>
server == <<jobs, cache, echoes, answers>>
vars == <<ado, page, people, states, tickets, items, rendered, view, drag, sent, server,
          resized, gestures, mishaps, editable>>

NoDrag == [mode |-> "none"]

\* What an item and the view of the board are made of.
ItemType(item) ==
  /\ item.level \in Levels /\ item.parent \in WorkItem \cup {None}
  /\ item.epic \in WorkItem \cup {None}
  /\ item.person \in Member \cup {Unassigned} /\ item.iter \in Columns \cup {BACKLOG}
  /\ item.effort \in Nat /\ item.span \in 1 .. NITER + 1
  /\ item.dates = None \/ item.dates \in (Int \cup {None}) \X (Int \cup {None})
  /\ item.rel \in Ranges \cup {None} \/ item.level = "epic"

ViewType(v) ==
  /\ v.board \in Boards /\ v.level \in Levels /\ {v.hideClosed, v.backlog} \subseteq BOOLEAN
  /\ v.epicFilter \in {"all", "hideDone", "activeOnly"}
  /\ v.hiddenRows \subseteq WorkItem \cup {NoEpic} /\ v.hidden \subseteq people
  /\ {v.rangeFrom, v.rangeTo, v.metricsFrom, v.metricsTo} \subseteq Columns
  /\ v.rangeFrom <= v.rangeTo /\ v.metricsFrom <= v.metricsTo

Mishap == mishaps < MaxMishaps /\ mishaps' = mishaps + 1

Gesture ==
  /\ page = "open"
  /\ gestures < MaxGestures /\ gestures' = gestures + 1
  /\ Len(sent) + Len(jobs) + Len(echoes) + Len(answers) <= MaxUnderWay

-----------------------------------------------------------------------------
(* Loading and rendering *)

Init ==
  /\ ado \in Projects
  /\ editable = (ado \in Edited)
  /\ page = "none" /\ people = {} /\ states = <<>>
  /\ tickets = <<>> /\ items = <<>> /\ rendered = <<>> /\ view = <<>>
  /\ drag = NoDrag /\ sent = <<>> /\ resized = [i \in WorkItem |-> None]
  /\ jobs = <<>> /\ cache = <<>> /\ echoes = <<>> /\ answers = <<>>
  /\ gestures = 0 /\ mishaps = 0

\* The rows and the states are fixed at loading.
ApplyDataset(first, read) ==
  /\ people' = PeopleOf(first, TeamMembers(ado))
  /\ states' = States(read)

\* The snapshot of a session just synced is loaded and shown; the effect that follows the
\* first render brings the items up to date with the store.
Load ==
  /\ page = "none"
  /\ LET read  == SyncTickets(ado)
         first == ItemsOf(read, TeamMembers(ado))
     IN  /\ DOMAIN read # {}
         /\ tickets' = read /\ cache' = read /\ rendered' = first
         /\ ApplyDataset(first, read)
         /\ items' = Reconcile(first, read, people', states')
         /\ view' = InitialView(first, people')
  /\ page' = "open"
  /\ UNCHANGED <<project, drag, sent, jobs, echoes, answers, resized, gestures, mishaps>>

\* React renders what is queued: the page goes blank if a load has no row.
Render ==
  /\ page = "open" /\ rendered # items
  /\ page' = IF Renders(items, people, view) THEN "open" ELSE "blank"
  /\ rendered' = items
  /\ UNCHANGED <<project, session, tickets, items, view, drag, sent, server, resized,
                 gestures, mishaps>>

-----------------------------------------------------------------------------
(* What the user chooses to see *)

\* A control changes the view, which is rendered at once.  Bound: the user of a board that
\* is edited chooses what to see before the first gesture that edits it.
Look(next) ==
  /\ Gesture
  /\ editable => gestures = 0
  /\ drag = NoDrag
  /\ view' = next
  /\ page' = IF Renders(rendered, people, next) THEN "open" ELSE "blank"
  /\ UNCHANGED <<project, session, tickets, items, rendered, drag, sent, server, resized,
                 mishaps>>

ShowBoard(b)     == b # view.board /\ Look([view EXCEPT !.board = b])
ShowLevel(l)     == l # view.level /\ Look([view EXCEPT !.level = l])
FilterEpics(f)   == f # view.epicFilter /\ Look([view EXCEPT !.epicFilter = f])
ToggleClosed     == Look([view EXCEPT !.hideClosed = ~@])
ToggleBacklog    == Look([view EXCEPT !.backlog = ~@])
ToggleRowHidden(key) ==
  Look([view EXCEPT !.hiddenRows = IF key \in @ THEN @ \ {key} ELSE @ \cup {key}])
TogglePerson(p)  ==
  p \in people /\ Look([view EXCEPT !.hidden = IF p \in @ THEN @ \ {p} ELSE @ \cup {p}])
RangeFrom(i) == Look([view EXCEPT !.rangeFrom = i, !.rangeTo = Greatest(i, @)])
RangeTo(i)   == Look([view EXCEPT !.rangeTo = i, !.rangeFrom = Least(i, @)])
MetricsFrom(i) == Look([view EXCEPT !.metricsFrom = i, !.metricsTo = Greatest(i, @)])
MetricsTo(i)   == Look([view EXCEPT !.metricsTo = i, !.metricsFrom = Least(i, @)])

Looks ==
  /\ page = "open"
  /\ \/ \E b \in Boards : ShowBoard(b)
     \/ \E l \in Levels : ShowLevel(l)
     \/ \E f \in {"all", "hideDone", "activeOnly"} : FilterEpics(f)
     \/ ToggleClosed
     \/ ToggleBacklog
     \/ \E key \in DOMAIN items \cup {NoEpic} : ToggleRowHidden(key)
     \/ \E p \in people : TogglePerson(p)
     \/ \E i \in Columns : RangeFrom(i) \/ RangeTo(i) \/ MetricsFrom(i) \/ MetricsTo(i)

-----------------------------------------------------------------------------
(* Operations *)

\* Faulty variant: an assignment stays on the board.
OpsWithoutPerson(i, field, value) ==
  LET op(f, v) == <<[item |-> i, field |-> f, value |-> v]>>
  IN  CASE field = "iter"   -> IF value \in Columns THEN op("path", value) ELSE <<>>
        [] field = "state"  -> op("column", value)
        [] field \in {"start", "target"} -> op(field, value)
        [] OTHER -> <<>>

\* emitOp, what a change of a field of an item is for the server: nothing at all for the
\* backlog, which has no path; a move of column where the level has a board, else a state.
OpsOf(i, field, value) ==
  LET level == rendered[i].level
      op(f, v) == <<[item |-> i, field |-> f, value |-> v]>>
  IN  CASE field = "iter"   -> IF value \in Columns THEN op("path", value) ELSE <<>>
        [] field = "person" -> op("assignee", IF value = Unassigned THEN None ELSE value)
        [] field = "state"  -> IF HasBoardColumns(states, level) THEN op("column", value)
                               ELSE op("state", StateToWrite(states, level, value))
        [] field \in {"start", "target"} -> op(field, value)

\* The store shows operations before they are written, the last one of a field.
Submit(ticket, i, ops) ==
  LET own(field) == {k \in DOMAIN ops : ops[k].item = i /\ ops[k].field = field}
  IN  [field \in DOMAIN ticket |->
         IF own(field) # {} THEN ops[Max(own(field))].value
         ELSE IF field = "status" /\ \E k \in DOMAIN ops : ops[k].item = i THEN "pending"
         ELSE ticket[field]]
Submitted(ops) == [i \in DOMAIN tickets |-> Submit(tickets[i], i, ops)]

\* A gesture of the board ends: React renders it at once, over what was queued.
Acts(board, ops) ==
  /\ tickets' = Submitted(ops) /\ sent' = sent \o ops
  /\ items' = board /\ rendered' = board
  /\ page' = IF Renders(board, people, view) THEN "open" ELSE "blank"

\* The board after a gesture whose operations are emitted when its items are set: the
\* store, if it has changed, brings them up to date in turn.
Echoed(board, ops) ==
  IF ops = <<>> THEN board ELSE Reconcile(board, Submitted(ops), people, states)

\* The dates of a range; the backlog, where it may begin or end, has none.
BarDates(range) ==
  IF range \in Ranges THEN RangeDates(range)
  ELSE <<IF range[1] = BACKLOG THEN None ELSE starts[range[1]], None>>

\* An item whose field the user changed.  With its sprint, its dates become the sprint's:
\* on the board, and not in Azure DevOps.
Changed(item, field, value) ==
  CASE field = "iter"   -> [item EXCEPT !.iter = value, !.span = 1,
                              !.dates = IF @ = None THEN None
                                        ELSE BarDates(<<value, value>>)]
    [] field = "person" -> [item EXCEPT !.person = value]
    [] field = "state"  -> [item EXCEPT !.state = value]

\* setField, from the panel of a ticket.
SetField(i, field, value) ==
  /\ Gesture /\ drag = NoDrag /\ editable
  /\ LET ops   == OpsOf(i, field, value)
         board == [rendered EXCEPT ![i] = Changed(@, field, value)]
     IN  /\ rendered[i] # board[i]
         /\ Acts(Echoed(board, ops), ops)
  /\ UNCHANGED <<project, session, view, drag, server, resized, mishaps>>

SetFields ==
  \E i \in DOMAIN rendered :
    \/ \E c \in Columns \cup {BACKLOG} : SetField(i, "iter", c)
    \/ \E p \in people : SetField(i, "person", p)
    \/ \E s \in DailyStates(states, rendered[i].level) : SetField(i, "state", s)

-----------------------------------------------------------------------------
(* Drags *)

\* Where a card can be dropped on.
DropColumns ==
  CASE view.board = "daily"   -> DailyStates(states, view.level)
    [] view.board = "release" -> Columns
    [] view.board = "sprint"  -> VisibleCols(view)

\* A card of the board is taken; its row is remembered.  Only the cards of the sprint
\* board have an edge to drag.
StartDrag(i, mode) ==
  /\ Gesture /\ drag = NoDrag /\ editable
  /\ IF view.board = "release"
     THEN i \in ReleaseCards(rendered, view)
     ELSE \E p \in people \ view.hidden, c \in DropColumns :
            i \in Cards(rendered, view, states, p, c)
  /\ mode = "resize" => view.board = "sprint"
  /\ drag' = [mode |-> mode, item |-> i, person |-> rendered[i].person]
  /\ UNCHANGED <<project, session, page, tickets, items, rendered, view, sent, server,
                 resized, mishaps>>

\* The bar of an epic or a feature, if its row has one, is taken; the range remembered is
\* that of a feature, whatever the bar of an epic shows.
StartEpicResize(f, side) ==
  /\ Gesture /\ drag = NoDrag /\ editable
  /\ view.board = "release"
  /\ \E n \in BuildTree(rendered, view) :
       \/ f = n.epic /\ EpicRange(rendered, n) # None
       \/ f \in n.features /\ FeatRange(rendered, f) \in Ranges
  /\ drag' = [mode |-> "epic", item |-> f, side |-> side, range |-> FeatRange(rendered, f)]
  /\ UNCHANGED <<project, session, page, tickets, items, rendered, view, sent, server,
                 resized, mishaps>>

\* A card is dropped on a row and a column.  The release board has no rows of people:
\* there the card keeps the row it had when it was taken; without one onUp throws, and
\* nothing is done.
Drop(row, column) ==
  /\ drag.mode = "move"
  /\ LET i      == drag.item
         person == IF view.board = "release" THEN drag.person ELSE row
         field  == IF view.board = "daily" THEN "state" ELSE "iter"
         moved  == rendered[i][field] # column
         card   == IF moved THEN Changed(rendered[i], field, column) ELSE rendered[i]
     IN  IF person \in people
         THEN Acts([rendered EXCEPT ![i] = [card EXCEPT !.person = person]],
                (IF moved THEN OpsOf(i, field, column) ELSE <<>>)
                \o (IF rendered[i].person # person THEN OpsOf(i, "person", person) ELSE <<>>))
         ELSE UNCHANGED <<page, tickets, items, rendered, sent>>
  /\ drag' = NoDrag
  /\ UNCHANGED <<project, session, view, server, resized, gestures, mishaps>>

\* The right edge of a card is dropped: it spans more columns, on this board only.
Stretch(span) ==
  /\ drag.mode = "resize"
  /\ LET cols == SetToSortSeq(VisibleCols(view), <)
     IN  span <= Len(cols) + 1 - SelectInSeq(cols, LAMBDA c : c = rendered[drag.item].iter)
  /\ Acts([rendered EXCEPT ![drag.item].span = span], <<>>)
  /\ drag' = NoDrag
  /\ UNCHANGED <<project, session, view, server, resized, gestures, mishaps>>

\* The stories of a feature, or of the features of an epic, planned out of a range.
Pulled(f, range) ==
  LET features == IF rendered[f].level = "epic"
                  THEN {g \in Of(rendered, "feature") : rendered[g].epic = f} ELSE {f}
  IN  {i \in StoriesOf(rendered, features) :
         rendered[i].iter \in Columns \ (range[1] .. range[2])}

\* The bar takes its range and dates, and the stories out of it its nearest column.
BarBoard(f, range) ==
  [i \in DOMAIN rendered |->
     IF i = f THEN [rendered[i] EXCEPT !.rel = range, !.dates = BarDates(range)]
     ELSE IF i \in Pulled(f, range) THEN [rendered[i] EXCEPT !.iter = Nearest(@, range)]
     ELSE rendered[i]]

\* The dates are written, then the sprint of each story, in any order.
BarOps(f, range) ==
  LET pull(i) == OpsOf(i, "iter", Nearest(rendered[i].iter, range))
      order   == SetToSeq({i \in Pulled(f, range) : pull(i) # <<>>})
  IN  OpsOf(f, "start", BarDates(range)[1]) \o OpsOf(f, "target", BarDates(range)[2])
      \o [k \in DOMAIN order |-> Head(pull(order[k]))]

SetFeatRange(f, range) ==
  /\ Acts(Echoed(BarBoard(f, range), BarOps(f, range)), BarOps(f, range))
  /\ resized' = [resized EXCEPT ![f] = range]

\* The bar is dropped delta columns away; nothing is done where it was.
DropBar(delta) ==
  /\ drag.mode = "epic"
  /\ LET range == Drag(drag.side, drag.range, delta)
     IN  IF range = drag.range
         THEN UNCHANGED <<page, tickets, items, rendered, sent, resized>>
         ELSE SetFeatRange(drag.item, range)
  /\ drag' = NoDrag
  /\ UNCHANGED <<project, session, view, server, gestures, mishaps>>

Drops ==
  /\ page = "open"
  /\ \/ \E row \in people \ view.hidden, column \in DropColumns : Drop(row, column)
     \/ \E span \in 1 .. NITER + 1 : Stretch(span)
     \/ \E delta \in -NITER .. NITER : DropBar(delta)

-----------------------------------------------------------------------------
(* The server and Azure DevOps *)

\* The entries of a type that give a column a state.
EntriesFor(type, name) ==
  {k \in DOMAIN states : /\ states[k].type = type /\ states[k].name = name
                         /\ states[k].state # None}

\* A ticket, or a work item, whose field is written; a move of column brings its state.
Recorded(item, op) ==
  IF op.field = "column"
  THEN [item EXCEPT !.column = op.value,
                    !.state = states[Min(EntriesFor(item.type, op.value))].state]
  ELSE [item EXCEPT ![op.field] = op.value]

\* What Azure DevOps makes of an operation: a work item whose state is written moves to a
\* column of that state, on boards the session does not know.
Written(item, op) ==
  IF op.field = "state" /\ item.column # None
  THEN {[item EXCEPT !.state = op.value, !.column = c] : c \in {item.column, op.value}}
  ELSE {Recorded(item, op)}

\* The write of an operation fails when its ticket is not in Redis, or when the board does
\* not give the column to the type of the work item.
Accepted(op) ==
  /\ op.item \in DOMAIN cache
  /\ op.field = "column" => EntriesFor(cache[op.item].type, op.value) # {}

\* An operation is lost, by a mishap unless it had to be: its range is no longer expected.
Lost(op) ==
  /\ IF Accepted(op) THEN Mishap ELSE UNCHANGED mishaps
  /\ resized' = [resized EXCEPT ![op.item] = None]

\* applyOperation: the operation is recorded in Redis, queued and echoed; or it is rejected,
\* as when its ticket is not in Redis.
Handle ==
  /\ sent # <<>> /\ sent' = Tail(sent)
  /\ LET op == Head(sent)
     IN  /\ op.item \in DOMAIN cache
         /\ cache' = [cache EXCEPT ![op.item] = Submit(@, op.item, <<op>>)]
         /\ jobs' = Append(jobs, op) /\ echoes' = Append(echoes, op)
  /\ UNCHANGED <<project, session, page, tickets, items, rendered, view, drag, answers,
                 resized, gestures, mishaps>>

Reject ==
  /\ sent # <<>> /\ sent' = Tail(sent)
  /\ LET op == Head(sent)
     IN  answers' = Append(answers, [item |-> op.item, ticket |-> None]) /\ Lost(op)
  /\ UNCHANGED <<project, session, page, tickets, items, rendered, view, drag, jobs, cache,
                 echoes, gestures>>

\* The worker writes the oldest job and says so.
WriteJob ==
  /\ jobs # <<>> /\ jobs' = Tail(jobs)
  /\ LET op == Head(jobs)
     IN  /\ Accepted(op)
         /\ \E item \in Written(ado[op.item], op) : ado' = [ado EXCEPT ![op.item] = item]
         /\ cache' = [cache EXCEPT ![op.item] = [Recorded(@, op) EXCEPT !.status = "synced"]]
         /\ answers' = Append(answers, [item |-> op.item, ticket |-> None])
  /\ UNCHANGED <<editable, session, page, tickets, items, rendered, view, drag, sent, echoes,
                 resized, gestures, mishaps>>

\* The worker gives the oldest job up and sends what Redis holds of the ticket, if it is
\* there.
GiveUp ==
  /\ jobs # <<>> /\ jobs' = Tail(jobs)
  /\ LET i == Head(jobs).item
     IN  /\ Lost(Head(jobs))
         /\ IF i \in DOMAIN cache
            THEN /\ cache' = [cache EXCEPT ![i].status = "error"]
                 /\ answers' = Append(answers, [item |-> i, ticket |-> cache'[i]])
            ELSE UNCHANGED <<cache, answers>>
  /\ UNCHANGED <<project, session, page, tickets, items, rendered, view, drag, sent, echoes,
                 gestures>>

\* Faulty variant: the board is told of the tickets that differ only.
StoreIfChanged(next) ==
  /\ tickets' = next
  /\ items' = IF page = "open" /\ next # tickets
              THEN Reconcile(items, next, people, states) ELSE items

\* The store is set: the board, if it is there, is brought up to date.
Store(next) ==
  /\ tickets' = next
  /\ items' = IF page = "open" THEN Reconcile(items, next, people, states) ELSE items

\* An echo arrives, before the answer to its operation or after it.
Echo ==
  /\ echoes # <<>> /\ echoes' = Tail(echoes)
  /\ LET op == Head(echoes)
     IN  \E next \in {[tickets EXCEPT ![op.item] = Submit(@, op.item, <<op>>)]} : Store(next)
  /\ UNCHANGED <<project, session, page, rendered, view, drag, sent, jobs, cache, answers,
                 resized, gestures, mishaps>>

\* An answer arrives: a ticket whose operation was written or rejected is synced.
Answer ==
  /\ answers # <<>> /\ answers' = Tail(answers)
  /\ LET m == Head(answers)
     IN  \E next \in {[tickets EXCEPT ![m.item] =
                       IF m.ticket = None THEN [@ EXCEPT !.status = "synced"] ELSE m.ticket]} :
           Store(next)
  /\ UNCHANGED <<project, session, page, rendered, view, drag, sent, jobs, cache, echoes,
                 resized, gestures, mishaps>>

\* A poll: the tickets that are synced are replaced by those of a new sync.
Refreshed(fresh) ==
  [i \in DOMAIN tickets |->
     IF i \in DOMAIN fresh /\ tickets[i].status = "synced" THEN fresh[i] ELSE tickets[i]]

Poll ==
  /\ page = "open"
  /\ UNCHANGED <<project, session, page, rendered, view, drag, sent, jobs, echoes, answers,
                 resized, gestures, mishaps>>
  /\ \E fresh \in {SyncTickets(ado)} :
       cache' = fresh /\ \E next \in {Refreshed(fresh)} : Store(next)

\* Somebody edits a work item in Azure DevOps.  Bound: it goes to the sprint under way or to
\* a path that is not one of a sprint, or nobody is assigned any more.
Outside(i, field, value) ==
  /\ Mishap
  /\ page = "open" /\ editable
  /\ ado[i][field] # value
  /\ ado' = [ado EXCEPT ![i][field] = value]
  /\ UNCHANGED <<session, page, tickets, items, rendered, view, drag, sent, server, resized,
                 gestures, editable>>

OutsideEdits ==
  \E i \in Touched \cap DOMAIN ado :
    \/ \E c \in {CURRENT, None} : Outside(i, "path", c)
    \/ Outside(i, "assignee", None)

-----------------------------------------------------------------------------
\* What the server does and what it sends.
Serve ==
  \/ Handle
  \/ Reject
  \/ WriteJob
  \/ GiveUp
  \/ Echo
  \/ Answer

Next ==
  \/ Load
  \/ Render
  \/ Looks
  \/ SetFields
  \/ \E i \in DOMAIN rendered, mode \in {"move", "resize"} : StartDrag(i, mode)
  \/ \E f \in DOMAIN rendered, side \in Sides : StartEpicResize(f, side)
  \/ Drops
  \/ Serve
  \/ Poll
  \/ OutsideEdits

\* React renders what is queued, the server handles and writes or gives up every operation
\* (see Writeback), and the poll is an interval: one of them goes on as long as it changes
\* something, which each can only do so many times.
Fairness == WF_vars(Render \/ Serve \/ Poll)

Spec == Init /\ [][Next]_vars
FairSpec == Spec /\ Fairness

-----------------------------------------------------------------------------
(* Properties *)

\* Items of the board are tickets of the store; their sprint is one of the columns, the
\* backlog's included, whatever path the work item has.
BoardTypeOK ==
  /\ page \in {"none", "open", "blank"}
  /\ DOMAIN items = DOMAIN tickets /\ DOMAIN rendered = DOMAIN tickets
  /\ \A i \in DOMAIN items : ItemType(items[i]) /\ ItemType(rendered[i])
  /\ people \subseteq Member \cup {Unassigned}
  /\ page # "none" => ViewType(view)

\* The nearest epic above a work item, at most MaxLevels parents up, through work items
\* the user may read; said by the chain of parents instead of the climb.
IsNearestEpic(i, e) ==
  \E k \in 1 .. MaxLevels : \E chain \in [1 .. k -> DOMAIN ado] :
    /\ chain[1] = ado[i].parent /\ chain[k] = e
    /\ \A j \in 1 .. k - 1 : ado[chain[j]].parent = chain[j + 1]
                             /\ ado[chain[j]].type # "Epic"
    /\ \A j \in 1 .. k : ado[chain[j]].readable
    /\ ado[e].type = "Epic"

\* resolveEpics: a work item the session queries gets the nearest epic above it, found
\* among work items of the query or not, and no epic only when there is none.
EpicsAreNearest ==
  page = "open" /\ gestures = 0 /\ mishaps = 0 =>
    \A i \in QueryWorkItemIds(ado) \cap DOMAIN tickets :
      IF tickets[i].epic = None THEN \A e \in DOMAIN ado : ~IsNearestEpic(i, e)
                                ELSE IsNearestEpic(i, tickets[i].epic)

\* buildTree: a story is in exactly one node, whichever of its parents are missing.  In
\* none it would not be seen and still count in the load; in two it would count twice.
StoriesOnce ==
  \A i \in Of(rendered, "story") :
    Cardinality({n \in Nodes(rendered) : i \in NodeStories(rendered, n)}) = 1

\* hiddenStoryIds ("meme rattachement que buildTree"): the stories left out of the load
\* are exactly those under a row of the tree that is hidden, of an epic or of a feature.
HiddenWithTheirRow ==
  page = "open" =>
    \A i \in Of(rendered, "story") :
      i \in HiddenStoryIds(rendered, view)
        <=> \E n \in Nodes(rendered) :
              /\ i \in NodeStories(rendered, n)
              /\ \/ n.epic \in view.hiddenRows
                 \/ \E f \in n.features \cap view.hiddenRows : rendered[i].parent = f

\* releaseStories: under every filter, the load band of a column is the sum of what the
\* bars of the epics show there, less the stories of the rows that are hidden.
BandIsTheBars ==
  page = "open" =>
    \A c \in Columns :
      LET tree   == BuildTree(rendered, view)
          shown  == SumFunction([n \in tree |-> BarShows(rendered, view, n, c)])
          hidden == {i \in HiddenStoryIds(rendered, view) \cap Counted(rendered, view) :
                       /\ rendered[i].iter = c
                       /\ \E n \in tree : i \in NodeStories(rendered, n)}
      IN  RelLoadBand(rendered, view, c) + EffortOf(rendered, hidden) = shown

\* releaseMetrics, treeRows: at most one waterline, the rows above it fit in the capacity of
\* the metrics and no longer do with the row below; and there is one as soon as the effort
\* of the metrics passes the capacity, unless some rows fill it exactly.
WaterlineSplits ==
  page = "open" /\ view.board = "release" =>
    LET rows     == TreeRows(rendered, view)
        cap      == ReleaseCap(people, view)
        drawn    == Waterline(rendered, people, view)
        above(k) == CountedEffort(rendered, view,
                                  UNION {NodeStories(rendered, rows[j]) : j \in 1 .. k - 1})
    IN  /\ Cardinality(drawn) <= 1
        /\ \A k \in drawn : above(k) <= cap /\ above(k + 1) > cap
        /\ /\ ReleaseEffort(rendered, view) > cap
           /\ \A k \in 1 .. Len(rows) : above(k) # cap
           => drawn # {}

\* epicRange, onUp: whatever the dates are, and wherever a bar is dragged, bars have
\* their ends on the grid and in order; a feature that nothing dates is in the backlog.
BarsStayOnGrid ==
  page = "open" =>
    /\ drag.mode = "epic" /\ drag.item \in Of(rendered, "feature") => drag.range \in Ranges
    /\ \A n \in Nodes(rendered) : EpicRange(rendered, n) \in Ranges \cup {None}
    /\ \A f \in Of(rendered, "feature") :
         FeatRange(rendered, f) \in Ranges \cup {<<BACKLOG, BACKLOG>>}

\* setFeatRange, emitOp: once the dates of a bar that was dropped are written, a board
\* that loads them shows the bar where it was dropped.
DropsAreReadBack ==
  \A f \in DOMAIN ado :
    resized[f] \in Ranges /\ (\A op \in Range(jobs \o sent) : op.item # f) =>
      DatesRange(<<ado[f].start, ado[f].target>>) = resized[f]

\* onUp, setField, setFeatRange: what a gesture changes of an item it also changes in the
\* store, hence in what is sent to the server.  Only a drop in the backlog stays on the
\* board; and a state is not read back of a work item that is in a column while its level
\* has none here, as emitOp writes the state and reconciliation reads the column first.
EditsAreWritten ==
  [][rendered = items =>
       \A i \in DOMAIN items :
         LET told   == Reconciled(items'[i], tickets'[i], people, states)
             strays == tickets[i].column # None /\ ~HasBoardColumns(states, items[i].level)
         IN  /\ items'[i].iter \notin {items[i].iter, BACKLOG} => items'[i].iter = told.iter
             /\ items'[i].person # items[i].person => items'[i].person = told.person
             /\ items'[i].state # items[i].state /\ ~strays =>
                  items'[i].state = told.state]_vars

\* The fields reconciliation brings up to date are those of the ticket.
Shows(item, ticket) ==
  LET told == Reconciled(item, ticket, people, states)
  IN  \A field \in {"epic", "effort", "iter", "person", "state"} : item[field] = told[field]

\* The effect on tickets.store, and the poll: however gestures overwrite queued updates and
\* messages, polls and outside edits interleave, the page ends up rendering what the store
\* holds, and what Azure DevOps holds of the tickets that are synced.  (A late echo may leave
\* a ticket pending for ever, and a write given up leaves it in error: see Collab.)
BoardFollows ==
  <>[](page = "open" =>
         \A i \in DOMAIN items :
           /\ rendered[i] = items[i] /\ Shows(items[i], tickets[i])
           /\ tickets[i].status = "synced" /\ i \in QueryWorkItemIds(ado) =>
                Shows(items[i], ToTicket(ado, i, tickets[i].epic)))

\* DESIGN_PLAN.md: a row "Non assigne" of the members' column receives the tickets nobody
\* is assigned.
UnassignedHasARow == page # "none" => Renders(items, people, view)

\* onUp: a bar pressed and released where it was ("Simple clic (sans deplacement)") writes
\* nothing.
ClicksOnlySelect ==
  drag.mode = "epic" => Drag(drag.side, drag.range, 0) = drag.range
=============================================================================
