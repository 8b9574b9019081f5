------------------------------ MODULE MCBoard -------------------------------
(***************************************************************************)
(* Small instances of Board: two epics, a feature, a story, a bug and a    *)
(* task over three sprints of two days.  Every way these work items may    *)
(* hang together is loaded and looked at; two more projects are edited.    *)
(***************************************************************************)
EXTENDS Board, TLC

CONSTANTS m1, m2

MCStarts   == 0 :> 0 @@ 1 :> 2 @@ 2 :> 4
MCFinishes == 0 :> 1 @@ 1 :> 3 @@ 2 :> 5
MCWorkItem == {"e1", "e2", "f", "s", "b", "t"}
MCMember   == {m1, m2}
MCTeams    == <<{m1}, {m2}>>

\* A sprint of the past, one with a day off, one with a Saturday: a day of capacity each.
MCDayWorked == 0 .. 4
MCMemberOff == 0 :> <<>> @@ 1 :> (m1 :> << <<3, 4>> >>) @@ 2 :> (m1 :> <<>>)
MCTeamOff   == 0 :> <<>> @@ 1 :> <<>> @@ 2 :> << <<5, 6>> >>

\* Two columns stand for one state, and only bugs have the last one.
MCColumn(name, type, state) == [name |-> name, states |-> << <<type, state>> >>]
MCAdoBoards == << <<MCColumn("Doing", "User Story", "Active"),
                    MCColumn("Review", "User Story", "Active"),
                    MCColumn("Closed", "User Story", "Closed"),
                    MCColumn("Fixing", "Bug", "Active")>> >>
MCTypeStates == [type \in {"Epic", "Feature", "Task"} |-> <<"Open", "Closed">>]
MCTypeCategories == "Epic" :> "Epic" @@ "Task" :> "Task" @@ "Hidden" :> "Test Case"
MCPriority == [node \in MCWorkItem \cup {NoEpic} |-> IF node = NoEpic THEN 999 ELSE 2]
MCRank == NoEpic :> 0 @@ "e1" :> 1 @@ "e2" :> 2 @@ "f" :> 3 @@ "s" :> 4 @@ "b" :> 5 @@ "t" :> 6

MCItem(type, parent, path, assignee, column, state, effort) ==
  [type |-> type, parent |-> parent, path |-> path, area |-> None, assignee |-> assignee,
   column |-> column, state |-> state, effort |-> effort, start |-> None, target |-> None,
   readable |-> TRUE]
MCDated(item, from, to) == [item EXCEPT !.start = from, !.target = to]

MCEpics == {MCDated(MCItem("Epic", None, 0, None, None, "Open", 0), 0, 5),
            MCDated(MCItem("Epic", None, None, None, None, "Open", 0), 5, 0),
            MCDated(MCItem("Epic", None, None, None, None, "Open", 0), None, 9),
            [MCItem("Epic", None, None, None, None, "Open", 0) EXCEPT !.readable = FALSE]}
MCFeatures == {MCItem("Feature", e, p, m1, None, "Open", 0) : e \in {None, "e1"},
                                                             p \in {1, None}}
              \cup {MCItem("Feature", "e2", 1, m1, None, "Open", 0),
                    MCDated(MCItem("Feature", "e1", 1, m1, None, "Open", 0), 2, 3)}

MCProject(e, f, sParent, bParent) ==
  "e1" :> e @@ "e2" :> MCItem("Epic", None, None, m1, None, "Closed", 0) @@ "f" :> f
  @@ "s" :> MCItem("User Story", sParent, 1, m1, "Doing", "Active", 2)
  @@ "b" :> MCItem("Bug", bParent, 2, m1, None, "Closed", 1)
  @@ "t" :> MCItem("Task", "s", 1, m1, None, "Open", 1)

MCLooked == {MCProject(e, f, sParent, bParent) :
               e \in MCEpics, f \in MCFeatures,
               sParent \in {"f", "e1", None}, bParent \in {"f", None}}

\* A dated epic in a column of another team's board; a feature without dates and its story;
\* and the two under an epic that has neither dates nor a sprint.
MCEpicEdited ==
  "e1" :> MCDated(MCItem("Epic", None, 0, m1, "Elsewhere", "Open", 0), 0, 3)
MCFeatureEdited ==
  "f" :> MCItem("Feature", None, 1, m2, None, "Open", 0)
  @@ "s" :> MCItem("User Story", "f", 1, m1, "Doing", "Active", 2)
MCTreeEdited ==
  "e2" :> MCItem("Epic", None, None, m1, None, "Closed", 0)
  @@ [MCFeatureEdited EXCEPT !["f"].parent = "e2"]
MCEdited == {MCEpicEdited, MCFeatureEdited}
MCProjects == MCLooked \cup MCEdited
MCTrees == {MCTreeEdited}

\* What the theorem about dates assumes of the sprints.
ASSUME MCAssumption == Ordered
=============================================================================
