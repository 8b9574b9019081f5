-------------------------------- MODULE Plan --------------------------------
(***************************************************************************)
(* What the board computes from the session's tickets (adapter.ts and      *)
(* ganttModel.ts): its items, the tree of epics, features and stories of   *)
(* the release board, the load of the columns, and the cards of the sprint *)
(* and daily boards.  All of it is recomputed at each render from `items', *)
(* a function from ids to records, and `view', what the user chose to see. *)
(***************************************************************************)
EXTENDS AdoRead

CONSTANTS
  Unassigned,    \* the row of the work items nobody is assigned
  NoEpic,        \* the node of what has no epic
  Done,          \* columns of the category 'Completed'
  Priority,      \* the priority of an epic, 999 when it has none
  Rank           \* the place of a node: that of its name, then of the list

ASSUME PlanAssumption ==
  /\ Unassigned \notin Member \cup {None} /\ NoEpic \notin WorkItem \cup {None}
  /\ Priority \in [WorkItem \cup {NoEpic} -> Nat] /\ Priority[NoEpic] = 999
  /\ Rank \in [WorkItem \cup {NoEpic} -> Nat]
  /\ \A e, o \in WorkItem \cup {NoEpic} : Rank[e] = Rank[o] => e = o

Levels == {"epic", "feature", "story", "task"}
Boards == {"sprint", "daily", "release"}

LevelFor(type) ==
  CASE type = "Epic" -> "epic" [] type = "Feature" -> "feature" [] type = "Task" -> "task"
    [] OTHER -> "story"

-----------------------------------------------------------------------------
(* The dataset *)

\* Faulty variant: a path that is not one of a sprint is kept.
IterOfAsIs(path) == path

IterOf(path) == IF path \in Columns THEN path ELSE BACKLOG

\* People the board does not know are nobody.
PersonOf(assignee, members) == IF assignee \in members THEN assignee ELSE Unassigned

ItemOf(ticket, members) ==
  LET level == LevelFor(ticket.type)
      dated == level \in {"epic", "feature"} /\ ticket.target # None
  IN  [level |-> level, parent |-> ticket.parent, epic |-> ticket.epic,
       person |-> PersonOf(ticket.assignee, members), iter |-> IterOf(ticket.path),
       state |-> IF ticket.column # None THEN ticket.column ELSE ticket.state,
       effort |-> ticket.effort, span |-> 1,
       dates |-> IF dated THEN <<ticket.start, ticket.target>> ELSE None, rel |-> None]

ItemsOf(tickets, members) == [i \in DOMAIN tickets |-> ItemOf(tickets[i], members)]

\* The rows: the team, and one for the unassigned if there is any at loading.
PeopleOf(items, members) ==
  members \cup ({items[i].person : i \in DOMAIN items} \cap {Unassigned})

EntriesOf(states, level) == {k \in DOMAIN states : LevelFor(states[k].type) = level}

\* The columns of a level on the daily board.
DailyStates(states, level) ==
  LET own == EntriesOf(states, level)
  IN  {states[k].name : k \in IF own # {} THEN own ELSE DOMAIN states}

\* The entries that give a column of a board a state: the first one wins.
Mapped(states, level) == {k \in EntriesOf(states, level) : states[k].state # None}

HasBoardColumns(states, level) == Mapped(states, level) # {}

\* The state a column stands for, and the column of a state; a name without an entry
\* stands for itself.
StateToWrite(states, level, column) ==
  LET entries == {k \in Mapped(states, level) : states[k].name = column}
  IN  IF entries = {} THEN column ELSE states[Min(entries)].state

ColumnForState(states, level, state) ==
  LET entries == {k \in Mapped(states, level) : states[k].state = state}
  IN  IF entries = {} THEN state ELSE states[Min(entries)].name

\* An item brought up to date with its ticket; its parent, its dates, the range it was
\* dragged to and its span are left as they are.
Reconciled(item, ticket, people, states) ==
  [item EXCEPT !.epic = ticket.epic, !.effort = ticket.effort,
               !.iter = IterOf(ticket.path), !.person = PersonOf(ticket.assignee, people),
               !.state = IF ticket.column # None THEN ticket.column
                         ELSE ColumnForState(states, item.level, ticket.state)]

Reconcile(items, tickets, people, states) ==
  [i \in DOMAIN items |-> Reconciled(items[i], tickets[i], people, states)]

-----------------------------------------------------------------------------
(* The tree of the release board *)

Of(items, level) == {i \in DOMAIN items : items[i].level = level}
StoriesOf(items, features) == {i \in Of(items, "story") : items[i].parent \in features}

\* Faulty variant: a story is loose when it has no parent.
LooseParentless(items) == {i \in Of(items, "story") : items[i].parent = None}

\* Stories whose feature is not on the board.
Loose(items) == Of(items, "story") \ StoriesOf(items, Of(items, "feature"))

\* The node of an item that does not hang from a feature: its epic's, if it is there.
EpicOf(items, i) == IF items[i].epic \in Of(items, "epic") THEN items[i].epic ELSE NoEpic

NodeStories(items, node) == node.stories \cup StoriesOf(items, node.features)

\* The range of the sprints some stories are planned in; 99 is where the search starts.
DerivedRange(items, us) ==
  LET planned == {items[i].iter : i \in us} \cap Columns
  IN  IF planned = {} THEN None ELSE <<Min(planned \cup {99}), Max(planned)>>

\* An epic or a feature with both its dates.
Dated(item) == item.dates # None /\ None \notin {item.dates[1], item.dates[2]}

FeatRange(items, f) ==
  LET derived == DerivedRange(items, StoriesOf(items, {f}))
  IN  IF items[f].rel # None THEN items[f].rel
      ELSE IF Dated(items[f]) THEN DatesRange(items[f].dates)
      ELSE IF derived # None THEN derived ELSE <<items[f].iter, items[f].iter>>

EpicRange(items, node) ==
  IF node.epic # NoEpic /\ Dated(items[node.epic])
  THEN DatesRange(items[node.epic].dates)
  ELSE DerivedRange(items, NodeStories(items, node))

\* 0 under way, 1 some work planned elsewhere, 2 to come, 3 over, 4 without dates.
StatusBucket(items, range, us) ==
  CASE range = None -> 4
    [] range # None /\ range[1] <= CURRENT /\ CURRENT <= range[2] -> 0
    [] OTHER ->
         IF \E i \in us : /\ items[i].iter \in CURRENT .. NITER - 1
                          /\ items[i].iter \notin range[1] .. range[2]
         THEN 1 ELSE IF range[1] > CURRENT THEN 2 ELSE 3

BucketOf(items, node) ==
  StatusBucket(items, EpicRange(items, node), NodeStories(items, node))

\* A node for each epic, and one for what has none.
Nodes(items) ==
  LET node(e) == [epic |-> e,
                  features |-> {f \in Of(items, "feature") : EpicOf(items, f) = e},
                  stories  |-> {i \in Loose(items) : EpicOf(items, i) = e}]
      orphans == node(NoEpic)
  IN  {node(e) : e \in Of(items, "epic")}
      \cup (IF orphans.features \cup orphans.stories = {} THEN {} ELSE {orphans})

BuildTree(items, view) ==
  {n \in Nodes(items) : CASE view.epicFilter = "hideDone" -> BucketOf(items, n) # 3
                          [] view.epicFilter = "activeOnly" -> BucketOf(items, n) <= 1
                          [] OTHER -> TRUE}

\* What orders the rows: the status, the priority, the first sprint, the name.
RowKey(items, node) ==
  LET range == EpicRange(items, node)
  IN  <<BucketOf(items, node), Priority[node.epic], IF range = None THEN 99 ELSE range[1],
        Rank[node.epic]>>

RowBefore(items, n, m) ==
  \E k \in 1 .. 4 : /\ RowKey(items, n)[k] < RowKey(items, m)[k]
                    /\ \A j \in 1 .. k - 1 : RowKey(items, n)[j] = RowKey(items, m)[j]

TreeRows(items, view) ==
  LET tree   == BuildTree(items, view)
      row(n) == Cardinality({m \in tree : RowBefore(items, m, n)}) + 1
  IN  [k \in 1 .. Cardinality(tree) |-> CHOOSE n \in tree : row(n) = k]

-----------------------------------------------------------------------------
(* Rows the user hid, and the load of the columns *)

\* Faulty variant: a story is hidden with its epic only.
HiddenWithEpic(items, view) ==
  {i \in Of(items, "story") : EpicOf(items, i) \in view.hiddenRows}

\* Stories of a hidden row: under their feature, else under their epic.
HiddenStoryIds(items, view) ==
  LET hidden == {f \in Of(items, "feature") : {f, EpicOf(items, f)} \cap view.hiddenRows # {}}
  IN  StoriesOf(items, hidden)
      \cup {i \in Loose(items) : EpicOf(items, i) \in view.hiddenRows}

IsDone(state) == state \in Done

\* Items that count: not closed if those are hidden, nor of a person who is.
Counted(items, view) ==
  {i \in DOMAIN items : /\ ~(view.hideClosed /\ IsDone(items[i].state))
                        /\ items[i].person \notin view.hidden}

EffortOf(items, us) == SumFunction([i \in us |-> items[i].effort])

\* The charge of a row in a column.
ParentCharge(items, view, us, column) ==
  EffortOf(items, {i \in us \cap Counted(items, view) : items[i].iter = column})

\* The bar of a row, when it has a range on the grid: its segments show the charge of
\* the columns of the range, dashed marks that of the columns out of it.
BarShows(items, view, node, column) ==
  LET range == EpicRange(items, node)
      drawn == /\ range # None
               /\ Greatest(range[1], 0) <= Least(range[2], NITER - 1)
  IN  IF drawn THEN ParentCharge(items, view, NodeStories(items, node), column) ELSE 0

ReleaseStories(items, view) ==
  UNION {NodeStories(items, n) : n \in BuildTree(items, view)}

\* The cards of the release board, its rows unfolded: stories, and the tasks of those that
\* have a card, each in the column of its own sprint.
ReleaseCards(items, view) ==
  LET stories == {i \in ReleaseStories(items, view) : items[i].iter \in Columns}
  IN  stories \cup {i \in Of(items, "task") : /\ items[i].parent \in stories
                                              /\ items[i].iter \in Columns}

\* Faulty variant: the band adds up the stories of the board, whatever the tree shows.
BandOfAll(items, view, column) ==
  EffortOf(items, {i \in (Of(items, "story") \cap Counted(items, view))
                         \ HiddenStoryIds(items, view) : items[i].iter = column})

\* The load band of a column.
RelLoadBand(items, view, column) ==
  EffortOf(items, {i \in (ReleaseStories(items, view) \cap Counted(items, view))
                         \ HiddenStoryIds(items, view) : items[i].iter = column})

\* The effort of some stories between the two sprints of the metrics.
CountedEffort(items, view, us) ==
  EffortOf(items, {i \in (us \cap Counted(items, view)) \ HiddenStoryIds(items, view) :
                     items[i].iter \in view.metricsFrom .. view.metricsTo})

SprintCap(people, view, column) ==
  SumFunction([p \in (people \cap Member) \ view.hidden |-> SeedCapacities(p, column)])

\* The capacity and the effort of the metrics.
ReleaseCap(people, view) ==
  SumFunction([c \in view.metricsFrom .. view.metricsTo |-> SprintCap(people, view, c)])
ReleaseEffort(items, view) == CountedEffort(items, view, ReleaseStories(items, view))

\* Faulty variant: a row that just fits has the line above it.
WaterlineReached(items, people, view) ==
  LET rows == TreeRows(items, view)
      cap  == ReleaseCap(people, view)
      cumulated[k \in 0 .. Len(rows)] ==
        IF k = 0 THEN 0
        ELSE cumulated[k - 1] + CountedEffort(items, view, NodeStories(items, rows[k]))
  IN  {k \in DOMAIN rows : cumulated[k - 1] < cap /\ cap <= cumulated[k]}

\* The rows the waterline is drawn above: where the effort, added up row after row,
\* passes the capacity.
Waterline(items, people, view) ==
  LET rows == TreeRows(items, view)
      cap  == ReleaseCap(people, view)
      cumulated[k \in 0 .. Len(rows)] ==
        IF k = 0 THEN 0
        ELSE cumulated[k - 1] + CountedEffort(items, view, NodeStories(items, rows[k]))
  IN  {k \in DOMAIN rows : cumulated[k - 1] < cap /\ cap < cumulated[k]}

-----------------------------------------------------------------------------
(* The cards of the sprint and daily boards *)

VisibleCols(view) ==
  (view.rangeFrom .. view.rangeTo) \cup (IF view.backlog THEN {BACKLOG} ELSE {})

\* The cards of a row in a column: a sprint, or on the daily board a state of the sprint
\* under way.
Cards(items, view, states, person, column) ==
  {i \in Of(items, view.level) :
     /\ ~(view.hideClosed /\ IsDone(items[i].state))
     /\ items[i].person = person
     /\ IF view.board = "daily"
        THEN /\ items[i].iter = CURRENT /\ items[i].state = column
             /\ column \in DailyStates(states, view.level)
        ELSE items[i].iter = column /\ column \in VisibleCols(view)}

\* The loads of the items of the level are added up in an array of the rows, whatever the
\* board: without a row for a person there is no array, and no page.
Renders(items, people, view) ==
  \A i \in Of(items, view.level) :
    items[i].person \in people \/ (view.hideClosed /\ IsDone(items[i].state))

\* Who is planned three sprints ago or later; the others are hidden when a board opens.
ActivePersons(items) ==
  {items[i].person : i \in {j \in DOMAIN items : items[j].iter \in CURRENT - 3 .. NITER - 1}}

InitialView(items, people) ==
  [board |-> "sprint", level |-> "story", hideClosed |-> FALSE, epicFilter |-> "all",
   hiddenRows |-> {}, hidden |-> people \ ActivePersons(items), backlog |-> TRUE,
   rangeFrom |-> CURRENT, rangeTo |-> Least(CURRENT + 1, NITER - 1),
   metricsFrom |-> CURRENT, metricsTo |-> Least(CURRENT + 5, NITER - 1)]
=============================================================================
