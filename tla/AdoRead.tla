------------------------------ MODULE AdoRead -------------------------------
(***************************************************************************)
(* What a session reads from Azure DevOps (ado.service, ado.mapper and     *)
(* sync.service): the query of the work items of its sprints and areas,    *)
(* the epic of each found by climbing the parents, the members of the      *)
(* team and their capacity, and the columns of the boards with the states  *)
(* they stand for.                                                         *)
(*                                                                         *)
(* `ado' is a function from work items to records; the order of an answer, *)
(* its slices of 200 and the texts are left out.                           *)
(***************************************************************************)
EXTENDS Grid, Sequences, SequencesExt

CONSTANTS
  WorkItem,
  Member,        \* people of Azure DevOps
  Areas,         \* areas chosen for the session; {} for all
  Teams,         \* the members of each team of the project
  MemberOff,     \* per sprint, the days off of the members who have a capacity in it
  TeamOff,       \* per sprint, the days off of the team
  DayWorked,     \* days from Monday to Friday
  AdoBoards,     \* the columns of each board, with the state each stands for, per type
  TypeStates,    \* the states of each type of work item that has some
  TypeCategories,\* the type of each category of the process
  None,
  MaxLevels      \* ancestors climbed at most; 10 in the code

ASSUME AdoReadAssumption ==
  /\ Teams \in Seq(SUBSET Member)
  /\ \A c \in Columns : DOMAIN MemberOff[c] \subseteq Member
  /\ MaxLevels \in Nat \ {0}
  /\ IsFiniteSet(WorkItem)
  /\ None \notin WorkItem \cup Member \cup Ranges

\* Days off are ranges of days.
ASSUME DaysAssumption ==
  /\ IsFiniteSet(Member)
  /\ \A c \in Columns :
       /\ TeamOff[c] \in Seq(Int \X Int)
       /\ \A m \in DOMAIN MemberOff[c] : MemberOff[c][m] \in Seq(Int \X Int)

ParentsOf(ado, items) == {ado[i].parent : i \in items} \ {None}

\* workitemsbatch with errorPolicy 'omit': the work items the user may not read are
\* left out of the answer.
GetWorkItemsBatch(ado, ids) == {i \in ids : ado[i].readable}

\* The WIQL query: in one of the sprints and, if areas were chosen, in one of them.
QueryWorkItemIds(ado) ==
  {i \in DOMAIN ado : /\ ado[i].readable
                      /\ ado[i].path \in Columns
                      /\ Areas = {} \/ ado[i].area \in Areas}

\* A round of requests for the parents that are missing.
WithParents(ado, known) == known \cup GetWorkItemsBatch(ado, ParentsOf(ado, known))

\* The work items known after the rounds.
Fetched(ado, items) ==
  LET known[n \in 0 .. MaxLevels] ==
        IF n = 0 THEN items ELSE WithParents(ado, known[n - 1])
  IN  known[MaxLevels]

\* Faulty variant: the climb stops at the first parent, an epic or not.
ClimbOnce(ado, nodes, item) ==
  LET up == ado[item].parent
  IN  IF up \in nodes /\ ado[up].type = "Epic" THEN up ELSE None

IsEpic(ado, nodes, cursor) == cursor \in nodes /\ ado[cursor].type = "Epic"

\* The climb goes past the known parents that are not epics.
Above(ado, nodes, cursor) ==
  IF cursor \in nodes /\ ~IsEpic(ado, nodes, cursor) THEN ado[cursor].parent ELSE cursor

\* The climb from a work item, at most MaxLevels parents up.
Climb(ado, nodes, item) ==
  LET cursor[n \in 0 .. MaxLevels - 1] ==
        IF n = 0 THEN ado[item].parent ELSE Above(ado, nodes, cursor[n - 1])
      last == cursor[MaxLevels - 1]
  IN  IF IsEpic(ado, nodes, last) THEN last ELSE None

\* The epics of the work items of a batch.  (A function of what is known, so that TLC
\* evaluates it once.)
ResolveEpics(ado, items) ==
  LET climbed == [nodes \in SUBSET DOMAIN ado |-> [i \in items |-> Climb(ado, nodes, i)]]
  IN  climbed[Fetched(ado, items)]

\* A start date is today when Azure DevOps has none; a target date stays empty.
ToTicket(ado, i, epic) ==
  [type |-> ado[i].type, parent |-> ado[i].parent, epic |-> epic,
   path |-> ado[i].path, assignee |-> ado[i].assignee, column |-> ado[i].column,
   state |-> ado[i].state, effort |-> ado[i].effort,
   start |-> IF ado[i].start = None THEN Today ELSE ado[i].start,
   target |-> ado[i].target, status |-> "synced"]

\* The tickets of the session: the batch with its epics, and the epics that are not of
\* the batch, for the top rows of the release board.
SyncTickets(ado) ==
  LET batch == GetWorkItemsBatch(ado, QueryWorkItemIds(ado))
      epic  == ResolveEpics(ado, batch)
      above == GetWorkItemsBatch(ado, {epic[i] : i \in batch} \ (batch \cup {None}))
  IN  [i \in batch \cup above |->
         ToTicket(ado, i, IF i \in batch THEN epic[i] ELSE None)]

-----------------------------------------------------------------------------
(* The team, its capacity, and the columns of the boards *)

\* The members of the first team.
GetTeamMembers == IF Teams = <<>> THEN {} ELSE Teams[1]

\* Who has a capacity in a sprint.
GetCapacities(sprint) == DOMAIN MemberOff[sprint]

\* The team: its roster, whoever is assigned a work item of the batch, and whoever has a
\* capacity in the first sprint.
TeamMembers(ado) ==
  GetTeamMembers \cup GetCapacities(0)
  \cup ({ado[i].assignee : i \in QueryWorkItemIds(ado)} \ {None})

\* Days worked among those of a range that are between two days.
WorkingDays(range, from, to) ==
  Cardinality({d \in Greatest(range[1], from) .. Least(range[2], to) : d \in DayWorked})

\* The days of a member in a sprint: a day off of the member and of the team counts twice.
GetCapacityDays(sprint, member) ==
  LET days(range) == WorkingDays(range, starts[sprint], finishes[sprint])
      off(ranges) == SumFunction([k \in DOMAIN ranges |-> days(ranges[k])])
  IN  Greatest(0, days(<<starts[sprint], finishes[sprint]>>)
                  - off(TeamOff[sprint]) - off(MemberOff[sprint][member]))

\* The capacities a new session finds: those of the sprints that are not over.  (Those a
\* user entered come first: see SharedData.)
SeedCapacities(member, sprint) ==
  IF finishes[sprint] >= Today /\ member \in GetCapacities(sprint)
  THEN GetCapacityDays(sprint, member) ELSE 0

\* The types of the categories that have a backlog.
GetBacklogTypes ==
  {TypeCategories[c] : c \in DOMAIN TypeCategories \cap
                              {"Epic", "Feature", "Requirement", "Task"}}

\* An entry for each column of each board and each type that has it.
GetBoardColumns ==
  LET entries(column) ==
        [k \in DOMAIN column.states |->
          [type |-> column.states[k][1], name |-> column.name, state |-> column.states[k][2]]]
  IN  FlattenSeq([k \in DOMAIN FlattenSeq(AdoBoards) |-> entries(FlattenSeq(AdoBoards)[k])])

\* An entry for each state of some types; a type whose states cannot be read has none.
GetStates(types) ==
  LET entries(type) == [k \in DOMAIN TypeStates[type] |->
                         [type |-> type, name |-> TypeStates[type][k], state |-> None]]
      order == SetToSeq(types \cap DOMAIN TypeStates)
  IN  FlattenSeq([k \in DOMAIN order |-> entries(order[k])])

\* The entries of the boards, then the states of the types no board shows.
States(tickets) ==
  LET covered == {entry.type : entry \in ToSet(GetBoardColumns)}
      types   == GetBacklogTypes \cup {tickets[i].type : i \in DOMAIN tickets}
  IN  GetBoardColumns \o GetStates(types \ covered)
=============================================================================
