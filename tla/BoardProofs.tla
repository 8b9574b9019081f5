---------------------------- MODULE BoardProofs ----------------------------
(***************************************************************************)
(* What the planning board shows and writes, proved for any project, team  *)
(* and sprints.  What holds of any items comes first: a story hangs in one *)
(* row of the tree, the stories left out of the load are those of the      *)
(* hidden rows.  Then the board as it runs: the types of what it holds     *)
(* (BoardInv, on which the rest stands), bars on the grid, the nearest     *)
(* epics, gauges, dates read back, gestures written.  Last, what the       *)
(* numbers of the release view add up to: the band and the waterline.      *)
(***************************************************************************)
EXTENDS Board, GridProofs, FiniteSetTheorems

-----------------------------------------------------------------------------
(* The tree *)

\* The node of an epic, or of what has none.
NodeOf(its, e) ==
  [epic |-> e,
   features |-> {f \in Of(its, "feature") : EpicOf(its, f) = e},
   stories  |-> {i \in Loose(its) : EpicOf(its, i) = e}]

\* Nodes are the nodes of the epics, and that of what has none unless it is empty.
LEMMA NodesAre ==
  ASSUME NEW its
  PROVE  /\ \A n \in Nodes(its) : n = NodeOf(its, n.epic)
         /\ \A e \in Of(its, "epic") : NodeOf(its, e) \in Nodes(its)
         /\ (NodeOf(its, NoEpic).features # {} \/ NodeOf(its, NoEpic).stories # {})
              => NodeOf(its, NoEpic) \in Nodes(its)
<1>1. \A e : NodeOf(its, e).epic = e
  BY DEF NodeOf
<1>2. \A n \in Nodes(its) : n = NodeOf(its, n.epic)
  <2>. SUFFICES ASSUME NEW n \in Nodes(its) PROVE \E e : n = NodeOf(its, e)
    BY <1>1
  <2>. QED  BY Zenon DEF Nodes, NodeOf
<1>3. \A e \in Of(its, "epic") : NodeOf(its, e) \in Nodes(its)
  BY Zenon DEF Nodes, NodeOf
<1>4. (NodeOf(its, NoEpic).features # {} \/ NodeOf(its, NoEpic).stories # {})
        => NodeOf(its, NoEpic) \in Nodes(its)
  BY Zenon DEF Nodes, NodeOf
<1>. QED  BY <1>2, <1>3, <1>4

\* The epic whose row a story is under.
RowOf(its, i) ==
  IF its[i].parent \in Of(its, "feature") THEN EpicOf(its, its[i].parent) ELSE EpicOf(its, i)

\* A story is in a node exactly when it is the node of its row, and that node exists.
LEMMA StoryNode ==
  ASSUME NEW its, NEW i \in Of(its, "story")
  PROVE  /\ \A e : i \in NodeStories(its, NodeOf(its, e)) <=> e = RowOf(its, i)
         /\ NodeOf(its, RowOf(its, i)) \in Nodes(its)
<1>. DEFINE F == Of(its, "feature")
            p == its[i].parent
<1>1. \A fs : i \in StoriesOf(its, fs) <=> p \in fs
  BY DEF StoriesOf
<1>2. i \in Loose(its) <=> p \notin F
  BY <1>1 DEF Loose
<1>3. ASSUME NEW e PROVE i \in NodeStories(its, NodeOf(its, e)) <=> e = RowOf(its, i)
  <2>1. i \in NodeStories(its, NodeOf(its, e))
          <=> \/ p \notin F /\ EpicOf(its, i) = e
              \/ p \in F /\ EpicOf(its, p) = e
    BY <1>1, <1>2 DEF NodeStories, NodeOf
  <2>. QED  BY <2>1 DEF RowOf
<1>4. RowOf(its, i) \in Of(its, "epic") \cup {NoEpic}
  BY DEF RowOf, EpicOf
<1>5. NodeOf(its, RowOf(its, i)).features # {} \/ NodeOf(its, RowOf(its, i)).stories # {}
  <2>1. CASE p \in F
    BY <2>1 DEF RowOf, NodeOf
  <2>2. CASE p \notin F
    BY <1>2, <2>2 DEF RowOf, NodeOf
  <2>. QED  BY <2>1, <2>2
<1>6. NodeOf(its, RowOf(its, i)) \in Nodes(its)
  <2>1. CASE RowOf(its, i) = NoEpic
    BY <1>5, <2>1, NodesAre
  <2>2. CASE RowOf(its, i) # NoEpic
    BY <1>4, <2>2, NodesAre
  <2>. QED  BY <2>1, <2>2
<1>. QED  BY <1>3, <1>6

\* Whatever the board holds, each story hangs in one node of the tree, one only.
THEOREM TreeHoldsStoriesOnce == StoriesOnce
<1>. SUFFICES ASSUME NEW i \in Of(rendered, "story")
              PROVE  Cardinality({n \in Nodes(rendered) : i \in NodeStories(rendered, n)}) = 1
  BY DEF StoriesOnce
<1>. DEFINE node == NodeOf(rendered, RowOf(rendered, i))
<1>1. \A n \in Nodes(rendered) : i \in NodeStories(rendered, n) => n = node
  BY NodesAre, StoryNode
<1>2. node \in Nodes(rendered) /\ i \in NodeStories(rendered, node)
  BY StoryNode
<1>3. {n \in Nodes(rendered) : i \in NodeStories(rendered, n)} = {node}
  BY <1>1, <1>2
<1>. QED  BY <1>3, FS_Singleton

\* The stories left out of the load are exactly those under a row that is hidden.
THEOREM HiddenAreUnderHiddenRows == HiddenWithTheirRow
<1>. SUFFICES ASSUME NEW i \in Of(rendered, "story")
              PROVE  i \in HiddenStoryIds(rendered, view)
                       <=> \E n \in Nodes(rendered) :
                             /\ i \in NodeStories(rendered, n)
                             /\ \/ n.epic \in view.hiddenRows
                                \/ \E f \in n.features \cap view.hiddenRows :
                                     rendered[i].parent = f
  BY Zenon DEF HiddenWithTheirRow
<1>. DEFINE F == Of(rendered, "feature")
            p == rendered[i].parent
            e == RowOf(rendered, i)
            node == NodeOf(rendered, e)
            H == view.hiddenRows
<1>1. \A n \in Nodes(rendered) : i \in NodeStories(rendered, n) <=> n = node
  BY NodesAre, StoryNode
<1>2. node \in Nodes(rendered)
  BY StoryNode
<1>3. node.epic = e /\ node.features = {f \in F : EpicOf(rendered, f) = e}
  BY DEF NodeOf
<1>4. (\E n \in Nodes(rendered) : /\ i \in NodeStories(rendered, n)
                                  /\ \/ n.epic \in H
                                     \/ \E f \in n.features \cap H : p = f)
        <=> e \in H \/ (p \in F /\ EpicOf(rendered, p) = e /\ p \in H)
  BY <1>1, <1>2, <1>3
<1>5. i \in HiddenStoryIds(rendered, view)
        <=> \/ p \in F /\ (p \in H \/ EpicOf(rendered, p) \in H)
            \/ p \notin F /\ EpicOf(rendered, i) \in H
  <2>1. \A fs : i \in StoriesOf(rendered, fs) <=> p \in fs
    BY DEF StoriesOf
  <2>2. i \in Loose(rendered) <=> p \notin F
    BY <2>1 DEF Loose
  <2>. QED  BY <2>1, <2>2 DEF HiddenStoryIds
<1>6. e = IF p \in F THEN EpicOf(rendered, p) ELSE EpicOf(rendered, i)
  BY DEF RowOf
<1>. QED  BY <1>4, <1>5, <1>6

-----------------------------------------------------------------------------
(* The climb to an epic *)

\* Induction up to N, for a set.
LEMMA UpTo ==
  ASSUME NEW N \in Nat, NEW G, 0 \in G, \A n \in 0 .. N : n \in G /\ n < N => n + 1 \in G
  PROVE  \A n \in 0 .. N : n \in G
<1>. DEFINE Bad == {n \in 0 .. N : n \notin G}
<1>. SUFFICES ASSUME Bad # {} PROVE FALSE
  OBVIOUS
<1>1. PICK x \in Bad : \A y \in Bad : x <= y
  <2>1. Bad \in SUBSET Nat
    OBVIOUS
  <2>. HIDE DEF Bad
  <2>. QED  BY <2>1, LeastExists
<1>2. x # 0 /\ x \in 0 .. N
  BY <1>1
<1>3. x - 1 \in 0 .. N /\ x - 1 < N /\ x - 1 \notin Bad
  BY <1>1, <1>2
<1>4. (x - 1) + 1 \in G /\ (x - 1) + 1 = x
  BY <1>2, <1>3
<1>. QED  BY <1>1, <1>4

\* A step h repeated N times from a.
Repeats(f, C, a, h, N) ==
  f \in [0 .. N -> C] /\ f[0] = a /\ \A n \in 1 .. N : f[n] = h[f[n - 1]]

LEMMA RepeatsExists ==
  ASSUME NEW C, NEW a \in C, NEW h \in [C -> C], NEW N \in Nat
  PROVE  \E f : Repeats(f, C, a, h, N)
<1>. DEFINE Good(n) == \E f : Repeats(f, C, a, h, n)
<1>. USE DEF Repeats
<1>1. Good(0)
  <2>. DEFINE f == [m \in 0 .. 0 |-> a]
  <2>1. f \in [0 .. 0 -> C] /\ f[0] = a /\ \A m \in 1 .. 0 : f[m] = h[f[m - 1]]
    OBVIOUS
  <2>. QED  BY <2>1
<1>2. ASSUME NEW n \in Nat, Good(n) PROVE Good(n + 1)
  <2>1. PICK f : Repeats(f, C, a, h, n)
    BY <1>2
  <2>. DEFINE g == [m \in 0 .. n + 1 |-> IF m <= n THEN f[m] ELSE h[f[n]]]
  <2>2. g \in [0 .. n + 1 -> C]
    BY <2>1
  <2>3. g[0] = a /\ \A m \in 1 .. n + 1 : g[m] = h[g[m - 1]]
    <3>1. ASSUME NEW m \in 1 .. n + 1 PROVE g[m] = h[g[m - 1]]
      <4>1. m - 1 \in 0 .. n /\ g[m - 1] = f[m - 1]
        OBVIOUS
      <4>2. CASE m <= n
        BY <2>1, <4>1, <4>2
      <4>3. CASE ~(m <= n)
        <5>1. m - 1 = n
          BY <4>3
        <5>. QED  BY <4>1, <4>3, <5>1
      <4>. QED  BY <4>2, <4>3
    <3>2. g[0] = a
      BY <2>1
    <3>. QED  BY <3>1, <3>2
  <2>. HIDE DEF g
  <2>. QED  BY <2>2, <2>3
<1>. DEFINE G == {n \in Nat : Good(n)}
<1>3. 0 \in G /\ \A n \in 0 .. N : n \in G /\ n < N => n + 1 \in G
  BY <1>1, <1>2
<1>4. \A n \in 0 .. N : n \in G
  <2>. HIDE DEF G
  <2>. QED  BY <1>3, UpTo
<1>. QED  BY <1>4

\* Work items and their parents are work items of Azure DevOps.
Linked(p) ==
  /\ DOMAIN p \subseteq WorkItem
  /\ \A i \in DOMAIN p : p[i].parent \in DOMAIN p \cup {None}

LEMMA AboveType ==
  ASSUME NEW p, Linked(p), NEW nodes \in SUBSET DOMAIN p, NEW c \in DOMAIN p \cup {None}
  PROVE  Above(p, nodes, c) \in DOMAIN p \cup {None}
BY AdoReadAssumption DEF Above, Linked

LEMMA ClimbIs ==
  ASSUME NEW p, Linked(p), NEW nodes \in SUBSET DOMAIN p, NEW i \in DOMAIN p
  PROVE  \E cursor \in [0 .. MaxLevels - 1 -> DOMAIN p \cup {None}] :
           /\ cursor[0] = p[i].parent
           /\ \A n \in 1 .. MaxLevels - 1 : cursor[n] = Above(p, nodes, cursor[n - 1])
           /\ Climb(p, nodes, i) = IF IsEpic(p, nodes, cursor[MaxLevels - 1])
                                   THEN cursor[MaxLevels - 1] ELSE None
<1>. DEFINE C == DOMAIN p \cup {None}
            h == [c \in C |-> Above(p, nodes, c)]
            Eq(f) == f = [n \in 0 .. MaxLevels - 1 |->
                            IF n = 0 THEN p[i].parent ELSE Above(p, nodes, f[n - 1])]
            cursor == CHOOSE f : Eq(f)
<1>1. h \in [C -> C] /\ p[i].parent \in C /\ MaxLevels - 1 \in Nat
  BY AboveType, AdoReadAssumption DEF Linked
<1>2. PICK f \in [0 .. MaxLevels - 1 -> C] :
        f[0] = p[i].parent /\ \A n \in 1 .. MaxLevels - 1 : f[n] = h[f[n - 1]]
  <2>. DEFINE a == p[i].parent
              N == MaxLevels - 1
  <2>1. h \in [C -> C] /\ a \in C /\ N \in Nat
    BY <1>1
  <2>. HIDE DEF C, h, a, N, Eq, cursor
  <2>2. \E f : Repeats(f, C, a, h, N)
    BY <2>1, RepeatsExists
  <2>. QED  BY <2>2 DEF N, a, Repeats
<1>3. Eq(f)
  <2>1. ASSUME NEW n \in 0 .. MaxLevels - 1
        PROVE  f[n] = IF n = 0 THEN p[i].parent ELSE Above(p, nodes, f[n - 1])
    <3>1. CASE n = 0
      BY <1>2, <3>1
    <3>2. CASE n # 0
      <4>1. n \in 1 .. MaxLevels - 1 /\ n - 1 \in 0 .. MaxLevels - 1
        BY <1>1, <3>2
      <4>2. f[n - 1] \in C
        BY <4>1
      <4>. QED  BY <1>2, <3>2, <4>1, <4>2
    <3>. QED  BY <3>1, <3>2
  <2>. QED  BY <2>1
<1>4. Eq(cursor)
  <2>. HIDE DEF Eq
  <2>. QED  BY <1>3
<1>5. Climb(p, nodes, i) = IF IsEpic(p, nodes, cursor[MaxLevels - 1])
                           THEN cursor[MaxLevels - 1] ELSE None
  BY DEF Climb
<1>. HIDE DEF cursor
<1>6. cursor \in [0 .. MaxLevels - 1 -> C] /\ cursor[0] = p[i].parent
      /\ \A n \in 1 .. MaxLevels - 1 : cursor[n] = Above(p, nodes, cursor[n - 1])
  <2>1. cursor[0] = p[i].parent /\ DOMAIN cursor = 0 .. MaxLevels - 1
        /\ \A n \in 1 .. MaxLevels - 1 : cursor[n] = Above(p, nodes, cursor[n - 1])
    BY <1>1, <1>4
  <2>. DEFINE G == {n \in 0 .. MaxLevels - 1 : cursor[n] \in C}
  <2>2. \A n \in 0 .. MaxLevels - 1 : n \in G
    <3>1. 0 \in G
      BY <1>1, <2>1
    <3>2. ASSUME NEW n \in 0 .. MaxLevels - 1, n \in G, n < MaxLevels - 1 PROVE n + 1 \in G
      <4>1. n + 1 \in 1 .. MaxLevels - 1 /\ (n + 1) - 1 = n
        BY <1>1, <3>2
      <4>2. cursor[n + 1] = Above(p, nodes, cursor[n])
        BY <2>1, <4>1
      <4>. QED  BY <3>2, <4>1, <4>2, AboveType
    <3>. HIDE DEF G
    <3>. QED  BY <1>1, <3>1, <3>2, UpTo
  <2>3. cursor \in [0 .. MaxLevels - 1 -> C]
    BY <1>4, <2>1, <2>2
  <2>. QED  BY <2>1, <2>3
<1>. QED  BY <1>5, <1>6

Readable(p) == {i \in DOMAIN p : p[i].readable}

LEMMA WithParentsType ==
  ASSUME NEW p, Linked(p), NEW known \in SUBSET DOMAIN p
  PROVE  /\ WithParents(p, known) \in SUBSET DOMAIN p /\ known \subseteq WithParents(p, known)
         /\ known \subseteq Readable(p) => WithParents(p, known) \subseteq Readable(p)
BY DEF WithParents, GetWorkItemsBatch, ParentsOf, Linked, Readable

\* What is known grows from round to round.
LEMMA FetchedIs ==
  ASSUME NEW p, Linked(p), NEW batch \in SUBSET DOMAIN p
  PROVE  \E known \in [0 .. MaxLevels -> SUBSET DOMAIN p] :
           /\ known[0] = batch
           /\ \A n \in 1 .. MaxLevels : known[n] = WithParents(p, known[n - 1])
           /\ Fetched(p, batch) = known[MaxLevels]
<1>. DEFINE C == SUBSET DOMAIN p
            h == [k \in C |-> WithParents(p, k)]
            Eq(f) == f = [n \in 0 .. MaxLevels |->
                            IF n = 0 THEN batch ELSE WithParents(p, f[n - 1])]
            known == CHOOSE f : Eq(f)
<1>1. h \in [C -> C] /\ batch \in C /\ MaxLevels \in Nat
  BY WithParentsType, AdoReadAssumption
<1>2. PICK f : Repeats(f, C, batch, h, MaxLevels)
  <2>. HIDE DEF C, h, Eq, known
  <2>. QED  BY <1>1, RepeatsExists
<1>3. Eq(f)
  <2>1. ASSUME NEW n \in 0 .. MaxLevels
        PROVE  f[n] = IF n = 0 THEN batch ELSE WithParents(p, f[n - 1])
    <3>1. CASE n = 0
      BY <1>2, <3>1 DEF Repeats
    <3>2. CASE n # 0
      <4>1. n \in 1 .. MaxLevels /\ n - 1 \in 0 .. MaxLevels
        BY <1>1, <3>2
      <4>2. f[n - 1] \in C /\ f[n] = h[f[n - 1]]
        BY <1>2, <4>1 DEF Repeats
      <4>. QED  BY <3>2, <4>2
    <3>. QED  BY <3>1, <3>2
  <2>. QED  BY <1>2, <2>1 DEF Repeats
<1>4. Eq(known)
  <2>. HIDE DEF Eq
  <2>. QED  BY <1>3
<1>5. Fetched(p, batch) = known[MaxLevels]
  BY DEF Fetched
<1>. HIDE DEF known
<1>6. known[0] = batch /\ DOMAIN known = 0 .. MaxLevels
      /\ \A n \in 1 .. MaxLevels : known[n] = WithParents(p, known[n - 1])
  BY <1>1, <1>4
<1>. DEFINE G == {n \in 0 .. MaxLevels : known[n] \in C}
<1>7. \A n \in 0 .. MaxLevels : n \in G
  <2>1. 0 \in G
    BY <1>1, <1>6
  <2>2. ASSUME NEW n \in 0 .. MaxLevels, n \in G, n < MaxLevels PROVE n + 1 \in G
    <3>1. n + 1 \in 1 .. MaxLevels /\ (n + 1) - 1 = n
      BY <1>1, <2>2
    <3>2. known[n + 1] = WithParents(p, known[n])
      BY <1>6, <3>1
    <3>. QED  BY <2>2, <3>1, <3>2, WithParentsType
  <2>. HIDE DEF G
  <2>. QED  BY <1>1, <2>1, <2>2, UpTo
<1>8. known \in [0 .. MaxLevels -> SUBSET DOMAIN p]
  BY <1>4, <1>6, <1>7
<1>. QED  BY <1>5, <1>6, <1>8

\* Only work items the user may read are known, the batch first.
LEMMA FetchedType ==
  ASSUME NEW p, Linked(p), NEW batch \in SUBSET Readable(p)
  PROVE  Fetched(p, batch) \subseteq Readable(p)
<1>1. batch \in SUBSET DOMAIN p /\ MaxLevels \in Nat
  BY AdoReadAssumption DEF Readable
<1>2. PICK known \in [0 .. MaxLevels -> SUBSET DOMAIN p] :
        /\ known[0] = batch
        /\ \A n \in 1 .. MaxLevels : known[n] = WithParents(p, known[n - 1])
        /\ Fetched(p, batch) = known[MaxLevels]
  BY <1>1, FetchedIs
<1>. DEFINE G == {n \in 0 .. MaxLevels : known[n] \subseteq Readable(p)}
<1>3. \A n \in 0 .. MaxLevels : n \in G
  <2>1. 0 \in G
    BY <1>1, <1>2
  <2>2. ASSUME NEW n \in 0 .. MaxLevels, n \in G, n < MaxLevels PROVE n + 1 \in G
    <3>1. n + 1 \in 1 .. MaxLevels /\ (n + 1) - 1 = n
      BY <1>1, <2>2
    <3>2. known[n + 1] = WithParents(p, known[n])
      BY <1>2, <3>1
    <3>. QED  BY <2>2, <3>1, <3>2, WithParentsType
  <2>. HIDE DEF G
  <2>. QED  BY <1>1, <2>1, <2>2, UpTo
<1>. QED  BY <1>1, <1>2, <1>3

\* A sequence that stops moving stays where it is.
LEMMA StaysPut ==
  ASSUME NEW f, NEW N \in Nat, NEW n \in 0 .. N,
         \A m \in 1 .. N : f[m - 1] = f[n] => f[m] = f[n]
  PROVE  \A m \in n .. N : f[m] = f[n]
<1>. DEFINE G == {d \in 0 .. N - n : f[n + d] = f[n]}
<1>1. \A d \in 0 .. N - n : d \in G
  <2>1. 0 \in G
    OBVIOUS
  <2>2. ASSUME NEW d \in 0 .. N - n, d \in G, d < N - n PROVE d + 1 \in G
    <3>1. n + d + 1 \in 1 .. N /\ (n + d + 1) - 1 = n + d /\ n + (d + 1) = n + d + 1
          /\ d + 1 \in 0 .. N - n
      BY <2>2
    <3>. QED  BY <2>2, <3>1
  <2>3. N - n \in Nat
    OBVIOUS
  <2>. HIDE DEF G
  <2>. QED  BY <2>1, <2>2, <2>3, UpTo
<1>2. ASSUME NEW m \in n .. N PROVE f[m] = f[n]
  <2>1. m - n \in 0 .. N - n /\ n + (m - n) = m
    OBVIOUS
  <2>. QED  BY <1>1, <2>1
<1>. QED  BY <1>2

\* A chain of k parents from a work item up to an epic, through work items the user may
\* read of which no other is an epic.
ChainTo(p, i, e, k, chain) ==
  /\ chain \in [1 .. k -> DOMAIN p] /\ chain[1] = p[i].parent /\ chain[k] = e
  /\ \A j \in 1 .. k - 1 : p[chain[j]].parent = chain[j + 1] /\ p[chain[j]].type # "Epic"
  /\ \A j \in 1 .. k : p[chain[j]].readable
  /\ p[e].type = "Epic"

\* The climb only finds epics at the end of such a chain.
LEMMA ClimbFinds ==
  ASSUME NEW p, Linked(p), NEW nodes \in SUBSET Readable(p), NEW i \in DOMAIN p,
         NEW e, e = Climb(p, nodes, i), e # None
  PROVE  e \in nodes /\ \E k \in 1 .. MaxLevels : \E chain : ChainTo(p, i, e, k, chain)
<1>0. MaxLevels \in Nat \ {0} /\ nodes \in SUBSET DOMAIN p
  BY AdoReadAssumption DEF Readable
<1>. DEFINE N == MaxLevels - 1
<1>1. PICK cursor \in [0 .. N -> DOMAIN p \cup {None}] :
        /\ cursor[0] = p[i].parent
        /\ \A n \in 1 .. N : cursor[n] = Above(p, nodes, cursor[n - 1])
        /\ Climb(p, nodes, i) = IF IsEpic(p, nodes, cursor[N]) THEN cursor[N] ELSE None
  BY <1>0, ClimbIs
<1>2. N \in Nat /\ MaxLevels = N + 1
  BY <1>0
<1>. HIDE DEF N
<1>3. cursor[N] = e /\ IsEpic(p, nodes, e)
  BY <1>1
<1>. DEFINE S == {n \in 0 .. N : cursor[n] = e}
<1>4. PICK least \in S : \A n \in S : least <= n
  <2>1. S \in SUBSET Nat /\ N \in S
    BY <1>2, <1>3
  <2>. HIDE DEF S
  <2>. QED  BY <2>1, LeastExists
<1>5. least \in 0 .. N /\ cursor[least] = e
  BY <1>4
<1>6. ASSUME NEW n \in 0 .. N, n < least
      PROVE  /\ cursor[n] \in nodes /\ p[cursor[n]].type # "Epic"
             /\ p[cursor[n]].parent = cursor[n + 1]
  <2>1. Above(p, nodes, cursor[n]) # cursor[n]
    <3>. SUFFICES ASSUME Above(p, nodes, cursor[n]) = cursor[n] PROVE FALSE
      OBVIOUS
    <3>1. \A m \in 1 .. N : cursor[m - 1] = cursor[n] => cursor[m] = cursor[n]
      BY <1>1
    <3>2. \A m \in n .. N : cursor[m] = cursor[n]
      BY <1>2, <3>1, StaysPut
    <3>3. n \in S
      BY <1>2, <1>3, <3>2
    <3>. QED  BY <1>2, <1>4, <1>5, <1>6, <3>3
  <2>2. n + 1 \in 1 .. N /\ (n + 1) - 1 = n
    BY <1>2, <1>5, <1>6
  <2>3. cursor[n + 1] = Above(p, nodes, cursor[n])
    BY <1>1, <2>2
  <2>. QED  BY <2>1, <2>3 DEF Above, IsEpic
<1>. DEFINE k == least + 1
            chain == [j \in 1 .. k |-> cursor[j - 1]]
<1>7. e \in nodes /\ p[e].type = "Epic"
  BY <1>3 DEF IsEpic
<1>8. \A j \in 1 .. k : chain[j] \in nodes
  <2>. TAKE j \in 1 .. k
  <2>1. j - 1 \in 0 .. N /\ chain[j] = cursor[j - 1]
    BY <1>2, <1>5
  <2>2. CASE j - 1 = least
    BY <1>5, <1>7, <2>1, <2>2
  <2>3. CASE j - 1 # least
    <3>1. j - 1 < least
      BY <1>5, <2>3
    <3>. QED  BY <1>6, <2>1, <3>1
  <2>. QED  BY <2>2, <2>3
<1>9. \A j \in 1 .. k - 1 : p[chain[j]].parent = chain[j + 1] /\ p[chain[j]].type # "Epic"
  <2>. TAKE j \in 1 .. k - 1
  <2>1. /\ j - 1 \in 0 .. N /\ j - 1 < least /\ j \in 1 .. k /\ j + 1 \in 1 .. k
        /\ (j - 1) + 1 = j /\ (j + 1) - 1 = j
    BY <1>2, <1>5
  <2>2. chain[j] = cursor[j - 1] /\ chain[j + 1] = cursor[j]
    BY <2>1
  <2>. QED  BY <1>6, <2>1, <2>2
<1>10. chain[1] = p[i].parent /\ chain[k] = e /\ k \in 1 .. MaxLevels
  BY <1>1, <1>2, <1>5
<1>11. chain \in [1 .. k -> DOMAIN p] /\ \A j \in 1 .. k : p[chain[j]].readable
  <2>1. \A j \in 1 .. k : chain[j] \in DOMAIN p /\ p[chain[j]].readable
    <3>. HIDE DEF chain
    <3>. QED  BY <1>8 DEF Readable
  <2>. QED  BY <2>1
<1>. HIDE DEF k, chain
<1>12. ChainTo(p, i, e, k, chain)
  BY <1>7, <1>9, <1>10, <1>11 DEF ChainTo
<1>. QED  BY <1>7, <1>10, <1>12

\* The climb from a work item of the batch misses no epic.
LEMMA ClimbMissesNone ==
  ASSUME NEW p, Linked(p), NEW batch \in SUBSET Readable(p), NEW i \in batch,
         Climb(p, Fetched(p, batch), i) = None,
         NEW e, NEW k \in 1 .. MaxLevels, NEW chain, ChainTo(p, i, e, k, chain)
  PROVE  FALSE
<1>. DEFINE nodes == Fetched(p, batch)
<1>0. /\ MaxLevels \in Nat \ {0} /\ batch \in SUBSET DOMAIN p
      /\ nodes \in SUBSET DOMAIN p /\ i \in DOMAIN p
  BY AdoReadAssumption, FetchedType DEF Readable
<1>. DEFINE N == MaxLevels - 1
<1>1. PICK cursor \in [0 .. N -> DOMAIN p \cup {None}] :
        /\ cursor[0] = p[i].parent
        /\ \A n \in 1 .. N : cursor[n] = Above(p, nodes, cursor[n - 1])
        /\ Climb(p, nodes, i) = IF IsEpic(p, nodes, cursor[N]) THEN cursor[N] ELSE None
  BY <1>0, ClimbIs
<1>2. PICK known \in [0 .. MaxLevels -> SUBSET DOMAIN p] :
        /\ known[0] = batch
        /\ \A n \in 1 .. MaxLevels : known[n] = WithParents(p, known[n - 1])
        /\ Fetched(p, batch) = known[MaxLevels]
  BY <1>0, FetchedIs
<1>3. /\ chain \in [1 .. k -> DOMAIN p] /\ chain[1] = p[i].parent /\ chain[k] = e
      /\ \A j \in 1 .. k - 1 : p[chain[j]].parent = chain[j + 1] /\ p[chain[j]].type # "Epic"
      /\ \A j \in 1 .. k : p[chain[j]].readable
      /\ p[e].type = "Epic"
  BY DEF ChainTo
<1>4. N \in Nat /\ MaxLevels = N + 1 /\ k \in 1 .. N + 1 /\ None \notin DOMAIN p
  BY <1>0, AdoReadAssumption DEF Linked
<1>. HIDE DEF N, nodes
<1>5. \A n \in 0 .. k - 1 : chain[n + 1] \in known[n + 1]
  <2>. DEFINE G == {n \in 0 .. k - 1 : chain[n + 1] \in known[n + 1]}
  <2>1. 0 \in G
    <3>1. known[1] = WithParents(p, batch) /\ chain[1] \in ParentsOf(p, batch)
      BY <1>0, <1>2, <1>3, <1>4 DEF ParentsOf
    <3>2. p[chain[1]].readable
      BY <1>3, <1>4
    <3>. QED  BY <1>4, <3>1, <3>2 DEF WithParents, GetWorkItemsBatch
  <2>2. ASSUME NEW n \in 0 .. k - 1, n \in G, n < k - 1 PROVE n + 1 \in G
    <3>1. /\ n + 1 \in 1 .. k - 1 /\ n + 2 \in 1 .. k /\ n + 2 \in 1 .. MaxLevels
          /\ (n + 2) - 1 = n + 1 /\ (n + 1) + 1 = n + 2
      BY <1>4, <2>2
    <3>2. chain[n + 1] \in known[n + 1] /\ p[chain[n + 1]].parent = chain[n + 2]
      BY <1>3, <2>2, <3>1
    <3>3. known[n + 2] = WithParents(p, known[n + 1])
      BY <1>2, <3>1
    <3>4. chain[n + 2] \in DOMAIN p /\ p[chain[n + 2]].readable
      BY <1>3, <3>1
    <3>5. chain[n + 2] \in known[n + 2]
      BY <1>4, <3>2, <3>3, <3>4 DEF WithParents, GetWorkItemsBatch, ParentsOf
    <3>. QED  BY <3>1, <3>5
  <2>3. k - 1 \in Nat
    BY <1>4
  <2>4. \A n \in 0 .. k - 1 : n \in G
    <3>. HIDE DEF G
    <3>. QED  BY <2>1, <2>2, <2>3, UpTo
  <2>. QED  BY <2>4
<1>6. ASSUME NEW m \in 0 .. MaxLevels PROVE known[m] \subseteq nodes
  <2>. DEFINE G == {d \in 0 .. MaxLevels - m : known[m] \subseteq known[m + d]}
  <2>1. 0 \in G
    BY <1>0
  <2>2. ASSUME NEW d \in 0 .. MaxLevels - m, d \in G, d < MaxLevels - m PROVE d + 1 \in G
    <3>1. /\ m + d + 1 \in 1 .. MaxLevels /\ (m + d + 1) - 1 = m + d
          /\ m + (d + 1) = m + d + 1 /\ d + 1 \in 0 .. MaxLevels - m /\ m + d \in 0 .. MaxLevels
      BY <1>0, <2>2
    <3>2. known[m + d + 1] = WithParents(p, known[m + d])
      BY <1>2, <3>1
    <3>3. known[m + d] \subseteq known[m + d + 1]
      BY <3>2 DEF WithParents
    <3>. QED  BY <2>2, <3>1, <3>3
  <2>3. MaxLevels - m \in Nat /\ m + (MaxLevels - m) = MaxLevels
    BY <1>0
  <2>4. \A d \in 0 .. MaxLevels - m : d \in G
    <3>. HIDE DEF G
    <3>. QED  BY <2>1, <2>2, <2>3, UpTo
  <2>. QED  BY <1>2, <2>3, <2>4 DEF nodes
<1>7. \A j \in 1 .. k : chain[j] \in nodes
  <2>. TAKE j \in 1 .. k
  <2>1. j - 1 \in 0 .. k - 1 /\ (j - 1) + 1 = j /\ j \in 0 .. MaxLevels
    BY <1>4
  <2>. QED  BY <1>5, <1>6, <2>1
<1>8. \A n \in 0 .. k - 1 : cursor[n] = chain[n + 1]
  <2>. DEFINE G == {n \in 0 .. k - 1 : cursor[n] = chain[n + 1]}
  <2>1. 0 \in G
    BY <1>1, <1>3, <1>4
  <2>2. ASSUME NEW n \in 0 .. k - 1, n \in G, n < k - 1 PROVE n + 1 \in G
    <3>1. /\ n + 1 \in 1 .. k - 1 /\ n + 1 \in 1 .. k /\ n + 1 \in 1 .. N
          /\ (n + 1) - 1 = n /\ (n + 1) + 1 = n + 2
      BY <1>4, <2>2
    <3>2. cursor[n + 1] = Above(p, nodes, cursor[n])
      BY <1>1, <3>1
    <3>3. /\ cursor[n] \in nodes /\ p[cursor[n]].type # "Epic"
          /\ p[cursor[n]].parent = chain[(n + 1) + 1]
      BY <1>3, <1>7, <2>2, <3>1
    <3>4. cursor[n + 1] = chain[(n + 1) + 1]
      BY <3>2, <3>3 DEF Above, IsEpic
    <3>. QED  BY <3>1, <3>4
  <2>3. k - 1 \in Nat
    BY <1>4
  <2>4. \A n \in 0 .. k - 1 : n \in G
    <3>. HIDE DEF G
    <3>. QED  BY <2>1, <2>2, <2>3, UpTo
  <2>. QED  BY <2>4
<1>9. cursor[k - 1] = e /\ IsEpic(p, nodes, e) /\ k - 1 \in 0 .. N
  <2>1. k - 1 \in 0 .. k - 1 /\ (k - 1) + 1 = k /\ k \in 1 .. k
    BY <1>4
  <2>. QED  BY <1>3, <1>4, <1>7, <1>8, <2>1 DEF IsEpic
<1>10. Above(p, nodes, e) = e
  BY <1>9 DEF Above
<1>11. cursor[N] = e
  <2>1. \A m \in 1 .. N : cursor[m - 1] = cursor[k - 1] => cursor[m] = cursor[k - 1]
    BY <1>1, <1>9, <1>10
  <2>2. \A m \in k - 1 .. N : cursor[m] = cursor[k - 1]
    BY <1>4, <1>9, <2>1, StaysPut
  <2>. QED  BY <1>4, <1>9, <2>2
<1>. QED  BY <1>0, <1>1, <1>4, <1>9, <1>11 DEF nodes, IsEpic

-----------------------------------------------------------------------------
(* What the state is made of *)

\* Ranges that may begin or end in the backlog's column, as that of an epic may.
Wide == {r \in (0 .. NITER) \X (0 .. NITER) : r[1] <= r[2]}

ItemFields == {"level", "parent", "epic", "person", "iter", "state", "effort", "span",
               "dates", "rel"}
TicketFields == {"type", "parent", "epic", "path", "assignee", "column", "state", "effort",
                 "start", "target", "status"}
ViewFields == {"board", "level", "hideClosed", "epicFilter", "hiddenRows", "hidden",
               "backlog", "rangeFrom", "rangeTo", "metricsFrom", "metricsTo"}
OpFields == {"path", "assignee", "column", "state", "start", "target"}

AdoType(p) ==
  DOMAIN p \subseteq WorkItem /\ \A i \in DOMAIN p : WorkItemType(p, i)

TicketType(t) ==
  DOMAIN t = TicketFields /\ t.epic \in WorkItem \cup {None} /\ t.effort \in Nat

ItemShape(item) ==
  DOMAIN item = ItemFields /\ ItemType(item) /\ item.rel \in Wide \cup {None}

\* The board shows the tickets of the store, which are work items.
TicketsOK(tks) == DOMAIN tks \subseteq DOMAIN ado /\ \A i \in DOMAIN tks : TicketType(tks[i])
BoardOK(its, tks) == DOMAIN its = DOMAIN tks /\ \A i \in DOMAIN its : ItemShape(its[i])
SameLevels(its, others) == \A i \in DOMAIN its : its[i].level = others[i].level

ViewShape(v) == DOMAIN v = ViewFields /\ ViewType(v)

\* The range being dragged is that of a row of the tree.
DragOK ==
  \/ drag = NoDrag
  \/ drag.mode \in {"move", "resize"} /\ drag.item \in DOMAIN rendered
  \/ /\ drag.mode = "epic" /\ drag.item \in DOMAIN rendered
     /\ drag.side \in Sides /\ drag.range \in Wide
     /\ rendered[drag.item].level # "epic" => drag.range \in Ranges

OpType(op) ==
  /\ op.item \in DOMAIN ado /\ op.field \in OpFields
  /\ op.field = "assignee" => op.value \in Member \cup {None}
  /\ op.field \in {"start", "target"} => op.value \in Int \cup {None}

\* Operations, in a sequence.
OpsType(ops) == (\E S : ops \in Seq(S)) /\ \A k \in 1 .. Len(ops) : OpType(ops[k])

\* Answers of the server, in a sequence.
AnswerType(m) == m.item \in DOMAIN ado /\ (m.ticket # None => TicketType(m.ticket))
AnswersType(ms) == (\E S : ms \in Seq(S)) /\ \A k \in 1 .. Len(ms) : AnswerType(ms[k])

\* What the server holds and sends.
ServerOK == TicketsOK(cache) /\ OpsType(jobs) /\ OpsType(echoes) /\ AnswersType(answers)

BoardInv ==
  /\ AdoType(ado)
  /\ page \in {"none", "open", "blank"}
  /\ page = "none" => /\ drag = NoDrag
                      /\ sent = <<>> /\ jobs = <<>> /\ echoes = <<>> /\ answers = <<>>
  /\ people \subseteq Member \cup {Unassigned}
  /\ TicketsOK(tickets) /\ BoardOK(items, tickets) /\ BoardOK(rendered, tickets)
  /\ SameLevels(items, rendered)
  /\ page # "none" => ViewShape(view)
  /\ DragOK
  /\ OpsType(sent)
  /\ ServerOK
  /\ DOMAIN resized = WorkItem

-----------------------------------------------------------------------------
(* What is read from Azure DevOps *)

LEMMA AdoLinked ==
  ASSUME NEW p, AdoType(p)
  PROVE  Linked(p)
BY DEF AdoType, WorkItemType, Linked

LEMMA BatchReadable ==
  ASSUME NEW p
  PROVE  GetWorkItemsBatch(p, QueryWorkItemIds(p)) \in SUBSET Readable(p)
BY DEF GetWorkItemsBatch, QueryWorkItemIds, Readable

LEMMA ResolvedIs ==
  ASSUME NEW p, Linked(p), NEW batch \in SUBSET Readable(p)
  PROVE  ResolveEpics(p, batch) = [i \in batch |-> Climb(p, Fetched(p, batch), i)]
<1>. DEFINE climbed == [nodes \in SUBSET DOMAIN p |-> [i \in batch |-> Climb(p, nodes, i)]]
<1>1. Fetched(p, batch) \in SUBSET DOMAIN p
  BY FetchedType DEF Readable
<1>2. climbed[Fetched(p, batch)] = [i \in batch |-> Climb(p, Fetched(p, batch), i)]
  BY <1>1
<1>. QED  BY <1>2 DEF ResolveEpics

LEMMA EpicIsKnown ==
  ASSUME NEW p, AdoType(p), NEW batch \in SUBSET Readable(p), NEW i \in batch
  PROVE  ResolveEpics(p, batch)[i] \in DOMAIN p \cup {None}
<1>1. Linked(p) /\ Fetched(p, batch) \in SUBSET Readable(p) /\ i \in DOMAIN p
  BY AdoLinked, FetchedType DEF Readable
<1>2. ResolveEpics(p, batch)[i] = Climb(p, Fetched(p, batch), i)
  BY <1>1, ResolvedIs
<1>3. ASSUME ResolveEpics(p, batch)[i] # None
      PROVE  ResolveEpics(p, batch)[i] \in Fetched(p, batch)
  BY <1>1, <1>2, <1>3, ClimbFinds
<1>. QED  BY <1>1, <1>3 DEF Readable

LEMMA TicketIs ==
  ASSUME NEW p, AdoType(p), NEW i \in DOMAIN p, NEW epic \in WorkItem \cup {None}
  PROVE  LET t == ToTicket(p, i, epic)
         IN  /\ TicketType(t) /\ t.parent \in WorkItem \cup {None}
             /\ t.start \in Int /\ t.target \in Int \cup {None}
             /\ t.type = p[i].type
BY GridAssumption DEF AdoType, WorkItemType, ToTicket, TicketType, TicketFields

\* A sync reads tickets of work items.
LEMMA SyncedAre ==
  ASSUME NEW p, AdoType(p)
  PROVE  /\ DOMAIN SyncTickets(p) \subseteq DOMAIN p
         /\ \A i \in DOMAIN SyncTickets(p) :
              \E epic \in WorkItem \cup {None} : SyncTickets(p)[i] = ToTicket(p, i, epic)
<1>. DEFINE batch == GetWorkItemsBatch(p, QueryWorkItemIds(p))
            epic  == ResolveEpics(p, batch)
            above == GetWorkItemsBatch(p, {epic[i] : i \in batch} \ (batch \cup {None}))
            epicOf(i) == IF i \in batch THEN epic[i] ELSE None
<1>1. batch \in SUBSET Readable(p)
  BY BatchReadable
<1>2. SyncTickets(p) = [i \in batch \cup above |-> ToTicket(p, i, epicOf(i))]
  BY DEF SyncTickets
<1>. HIDE DEF batch
<1>3. \A i \in batch : epic[i] \in DOMAIN p \cup {None}
  BY <1>1, EpicIsKnown
<1>4. batch \cup above \subseteq DOMAIN p
  BY <1>1, <1>3 DEF GetWorkItemsBatch, Readable
<1>5. \A i : epicOf(i) \in WorkItem \cup {None}
  BY <1>3 DEF AdoType
<1>. QED  BY <1>2, <1>4, <1>5

\* The team is made of people of Azure DevOps.
LEMMA TeamType ==
  ASSUME NEW p, AdoType(p)
  PROVE  TeamMembers(p) \subseteq Member
<1>1. GetTeamMembers \subseteq Member
  BY AdoReadAssumption DEF GetTeamMembers
<1>2. GetCapacities(0) \subseteq Member
  BY AdoReadAssumption, GridAssumption DEF GetCapacities, Columns
<1>3. \A i \in QueryWorkItemIds(p) : p[i].assignee \in Member \cup {None}
  BY DEF AdoType, WorkItemType, QueryWorkItemIds
<1>. QED  BY <1>1, <1>2, <1>3 DEF TeamMembers

LEMMA PersonIs ==
  ASSUME NEW assignee, NEW members \in SUBSET (Member \cup {Unassigned})
  PROVE  PersonOf(assignee, members) \in Member \cup {Unassigned}
BY DEF PersonOf

LEMMA IterIs == \A path : IterOf(path) \in Columns \cup {BACKLOG}
BY DEF IterOf

LEMMA LevelIs == \A type : LevelFor(type) \in Levels
BY DEF LevelFor, Levels

\* The items read are the tickets'.
LEMMA ReadItemIs ==
  ASSUME NEW p, AdoType(p), NEW i \in DOMAIN p, NEW epic \in WorkItem \cup {None},
         NEW members \in SUBSET Member
  PROVE  ItemShape(ItemOf(ToTicket(p, i, epic), members))
<1>. DEFINE t == ToTicket(p, i, epic)
            item == ItemOf(t, members)
<1>1. /\ TicketType(t) /\ t.parent \in WorkItem \cup {None}
      /\ t.start \in Int /\ t.target \in Int \cup {None}
  BY TicketIs
<1>. HIDE DEF t
<1>2. DOMAIN item = ItemFields
  BY DEF ItemOf, ItemFields
<1>3. item.level \in Levels /\ {item.parent, item.epic} \subseteq WorkItem \cup {None}
  BY <1>1, LevelIs DEF ItemOf, TicketType
<1>4. item.person \in Member \cup {Unassigned} /\ item.iter \in Columns \cup {BACKLOG}
  BY IterIs, PersonIs DEF ItemOf
<1>5. item.effort \in Nat /\ item.span \in 1 .. NITER + 1 /\ item.rel = None
  BY <1>1, GridAssumption DEF ItemOf, TicketType
<1>6. item.dates = None \/ item.dates \in (Int \cup {None}) \X (Int \cup {None})
  BY <1>1 DEF ItemOf
<1>. HIDE DEF item
<1>7. ItemShape(item)
  BY <1>2, <1>3, <1>4, <1>5, <1>6 DEF ItemShape, ItemType
<1>. QED  BY <1>7 DEF item, t

LEMMA ReconciledIs ==
  ASSUME NEW item, ItemShape(item), NEW ticket, TicketType(ticket),
         NEW who \in SUBSET (Member \cup {Unassigned}), NEW sts
  PROVE  LET told == Reconciled(item, ticket, who, sts)
         IN  /\ ItemShape(told)
             /\ told.level = item.level /\ told.parent = item.parent
             /\ told.dates = item.dates /\ told.rel = item.rel
<1>. DEFINE told == Reconciled(item, ticket, who, sts)
<1>1. /\ DOMAIN told = DOMAIN item
      /\ told.level = item.level /\ told.parent = item.parent /\ told.span = item.span
      /\ told.dates = item.dates /\ told.rel = item.rel
      /\ told.epic = ticket.epic /\ told.effort = ticket.effort
      /\ told.iter = IterOf(ticket.path) /\ told.person = PersonOf(ticket.assignee, who)
  BY DEF Reconciled, ItemShape, ItemFields
<1>. HIDE DEF told
<1>2. told.iter \in Columns \cup {BACKLOG} /\ told.person \in Member \cup {Unassigned}
  BY <1>1, IterIs, PersonIs
<1>3. ItemShape(told)
  BY <1>1, <1>2 DEF ItemShape, ItemType, TicketType
<1>. QED  BY <1>1, <1>3 DEF told

LEMMA ReconcileOK ==
  ASSUME NEW its, NEW tks, NEW old, BoardOK(its, old), DOMAIN tks = DOMAIN old,
         \A i \in DOMAIN tks : TicketType(tks[i]),
         NEW who \in SUBSET (Member \cup {Unassigned}), NEW sts
  PROVE  /\ BoardOK(Reconcile(its, tks, who, sts), tks)
         /\ SameLevels(Reconcile(its, tks, who, sts), its)
BY ReconciledIs DEF BoardOK, SameLevels, Reconcile

-----------------------------------------------------------------------------
(* Operations *)

LEMMA OpsAppend ==
  ASSUME NEW a, NEW b, OpsType(a), OpsType(b)
  PROVE  OpsType(a \o b)
<1>1. PICK S : a \in Seq(S)
  BY DEF OpsType
<1>2. PICK T : b \in Seq(T)
  BY DEF OpsType
<1>3. a \in Seq(S \cup T) /\ b \in Seq(S \cup T)
  BY <1>1, <1>2
<1>4. a \o b \in Seq(S \cup T) /\ Len(a \o b) = Len(a) + Len(b)
  BY <1>3
<1>5. ASSUME NEW k \in 1 .. Len(a \o b) PROVE OpType((a \o b)[k])
  <2>1. CASE k <= Len(a)
    BY <1>3, <1>4, <2>1 DEF OpsType
  <2>2. CASE ~(k <= Len(a))
    <3>1. k - Len(a) \in 1 .. Len(b) /\ (a \o b)[k] = b[k - Len(a)]
      BY <1>3, <1>4, <2>2
    <3>. QED  BY <3>1 DEF OpsType
  <2>. QED  BY <2>1, <2>2
<1>. QED  BY <1>4, <1>5 DEF OpsType

LEMMA OpsHeadTail ==
  ASSUME NEW ops, OpsType(ops), ops # <<>>
  PROVE  OpType(Head(ops)) /\ OpsType(Tail(ops))
<1>1. PICK S : ops \in Seq(S)
  BY DEF OpsType
<1>2. /\ Tail(ops) \in Seq(S) /\ Len(Tail(ops)) = Len(ops) - 1 /\ Len(ops) \in Nat \ {0}
      /\ Head(ops) = ops[1]
      /\ \A k \in 1 .. Len(ops) - 1 : Tail(ops)[k] = ops[k + 1]
  BY <1>1
<1>. QED  BY <1>2 DEF OpsType

LEMMA OpsNone == OpsType(<<>>)
<1>1. <<>> \in Seq({}) /\ Len(<<>>) = 0
  OBVIOUS
<1>. QED  BY <1>1 DEF OpsType

LEMMA OpsOne ==
  ASSUME NEW op, OpType(op)
  PROVE  OpsType(<<op>>)
<1>1. <<op>> \in Seq({op}) /\ Len(<<op>>) = 1 /\ \A k \in 1 .. 1 : <<op>>[k] = op
  OBVIOUS
<1>. QED  BY <1>1 DEF OpsType

\* A change of an item is one operation on it, or none.
LEMMA OpsOfIs ==
  ASSUME NEW i, NEW field \in {"iter", "person", "state", "start", "target"}, NEW value
  PROVE  \/ OpsOf(i, field, value) = <<>> /\ field = "iter"
         \/ \E op : /\ OpsOf(i, field, value) = <<op>> /\ op.item = i
                    /\ field = "iter" => op.field = "path"
                    /\ field = "person" =>
                         /\ op.field = "assignee"
                         /\ op.value = IF value = Unassigned THEN None ELSE value
                    /\ field = "state" => op.field \in {"column", "state"}
                    /\ field \in {"start", "target"} => op.field = field /\ op.value = value
<1>1. CASE field = "iter"
  BY <1>1 DEF OpsOf
<1>2. CASE field = "person"
  BY <1>2 DEF OpsOf
<1>3. CASE field = "state"
  BY <1>3 DEF OpsOf
<1>4. CASE field \in {"start", "target"}
  BY <1>4 DEF OpsOf
<1>. QED  BY <1>1, <1>2, <1>3, <1>4

LEMMA OpsOfType ==
  ASSUME NEW i \in DOMAIN ado, NEW field \in {"iter", "person", "state", "start", "target"},
         NEW value, field = "person" => value \in Member \cup {Unassigned},
         field \in {"start", "target"} => value \in Int \cup {None}
  PROVE  OpsType(OpsOf(i, field, value))
<1>1. CASE OpsOf(i, field, value) = <<>>
  BY <1>1, OpsNone
<1>2. CASE OpsOf(i, field, value) # <<>>
  <2>1. PICK op : /\ OpsOf(i, field, value) = <<op>> /\ op.item = i
                  /\ field = "iter" => op.field = "path"
                  /\ field = "person" =>
                       /\ op.field = "assignee"
                       /\ op.value = IF value = Unassigned THEN None ELSE value
                  /\ field = "state" => op.field \in {"column", "state"}
                  /\ field \in {"start", "target"} => op.field = field /\ op.value = value
    BY <1>2, OpsOfIs
  <2>2. OpType(op)
    BY <2>1 DEF OpType, OpFields
  <2>. QED  BY <2>1, <2>2, OpsOne
<1>. QED  BY <1>1, <1>2

\* A ticket shows an operation before it is written.
LEMMA SubmitOK ==
  ASSUME NEW t, TicketType(t), NEW i, NEW ops, OpsType(ops)
  PROVE  TicketType(Submit(t, i, ops))
<1>1. \A k \in DOMAIN ops : ops[k].field \in OpFields
  BY DEF OpsType, OpType
<1>2. \A k \in DOMAIN ops : ops[k].field \notin {"epic", "effort"}
  BY <1>1 DEF OpFields
<1>3. DOMAIN Submit(t, i, ops) = TicketFields
  BY DEF Submit, TicketType
<1>4. Submit(t, i, ops).epic = t.epic /\ Submit(t, i, ops).effort = t.effort
  BY <1>2 DEF Submit, TicketType, TicketFields
<1>. QED  BY <1>3, <1>4 DEF TicketType

\* The store stays well-typed.
LEMMA SubmittedOK ==
  ASSUME NEW ops, OpsType(ops), TicketsOK(tickets)
  PROVE  TicketsOK(Submitted(ops)) /\ DOMAIN Submitted(ops) = DOMAIN tickets
<1>1. DOMAIN Submitted(ops) = DOMAIN tickets
  BY DEF Submitted
<1>2. \A i \in DOMAIN tickets : TicketType(Submitted(ops)[i])
  BY SubmitOK DEF Submitted, TicketsOK
<1>. QED  BY <1>1, <1>2 DEF TicketsOK

LEMMA EchoedOK ==
  ASSUME NEW board, NEW ops, OpsType(ops), TicketsOK(tickets), BoardOK(board, tickets),
         people \subseteq Member \cup {Unassigned}
  PROVE  /\ BoardOK(Echoed(board, ops), Submitted(ops))
         /\ SameLevels(Echoed(board, ops), board)
<1>1. TicketsOK(Submitted(ops)) /\ DOMAIN Submitted(ops) = DOMAIN tickets
  BY SubmittedOK
<1>2. CASE ops = <<>>
  BY <1>1, <1>2 DEF Echoed, BoardOK, SameLevels
<1>3. CASE ops # <<>>
  BY <1>1, <1>3, ReconcileOK DEF Echoed, TicketsOK
<1>. QED  BY <1>2, <1>3

\* A step that leaves the server and Azure DevOps alone.
LEMMA ServerKept ==
  ASSUME ServerOK, UNCHANGED <<ado, server>>
  PROVE  ServerOK'
<1>1. UNCHANGED <<ado, jobs, cache, echoes, answers>>
  BY DEF server
<1>2. TicketsOK(cache)' /\ OpsType(jobs)' /\ OpsType(echoes)'
  BY <1>1 DEF ServerOK, TicketsOK, OpsType, OpType
<1>3. AnswersType(answers)'
  BY <1>1 DEF ServerOK, AnswersType, AnswerType
<1>. QED  BY <1>2, <1>3 DEF ServerOK

LEMMA NoAnswers == AnswersType(<<>>)
<1>1. <<>> \in Seq({}) /\ Len(<<>>) = 0
  OBVIOUS
<1>. QED  BY <1>1 DEF AnswersType

\* A gesture that ends keeps the invariant, the dragged range aside.
LEMMA ActsOK ==
  ASSUME BoardInv, page = "open", NEW board, NEW ops, Acts(board, ops), OpsType(ops),
         BoardOK(board, tickets), UNCHANGED <<ado, people, view, server>>, drag' = NoDrag,
         DOMAIN resized' = DOMAIN resized
  PROVE  BoardInv'
<1>1. AdoType(ado)' /\ (people \subseteq Member \cup {Unassigned})' /\ (page # "none")'
      /\ page' \in {"none", "open", "blank"} /\ ViewShape(view)' /\ (DOMAIN resized = WorkItem)'
  BY DEF BoardInv, Acts, ViewShape, ViewType
<1>2. TicketsOK(Submitted(ops)) /\ DOMAIN Submitted(ops) = DOMAIN tickets
  BY SubmittedOK DEF BoardInv
<1>3. TicketsOK(tickets)' /\ BoardOK(items, tickets)' /\ BoardOK(rendered, tickets)'
      /\ SameLevels(items, rendered)'
  BY <1>2 DEF Acts, TicketsOK, BoardOK, SameLevels
<1>4. OpsType(sent \o ops)
  BY OpsAppend DEF BoardInv
<1>5. OpsType(sent)'
  BY <1>4 DEF Acts, OpsType, OpType
<1>6. DragOK'
  BY DEF DragOK
<1>7. ServerOK'
  BY ServerKept DEF BoardInv
<1>. QED  BY <1>1, <1>3, <1>5, <1>6, <1>7 DEF BoardInv

-----------------------------------------------------------------------------
(* The steps *)

LEMMA CurrentIs == CURRENT \in Columns
<1>. DEFINE running == {i \in Columns : starts[i] <= Today /\ Today <= finishes[i]}
            begun == {i \in Columns : starts[i] <= Today}
<1>1. CASE running # {}
  BY <1>1, MinIn DEF CURRENT
<1>2. CASE running = {} /\ begun # {}
  BY <1>2, MaxIn DEF CURRENT
<1>3. CASE running = {} /\ begun = {}
  BY <1>3, GridAssumption DEF CURRENT, Columns
<1>. QED  BY <1>1, <1>2, <1>3

LEMMA InitialViewOK ==
  ASSUME NEW its, NEW who
  PROVE  LET v == InitialView(its, who)
         IN  /\ DOMAIN v = ViewFields
             /\ v.board \in Boards /\ v.level \in Levels /\ {v.hideClosed, v.backlog} \subseteq BOOLEAN
             /\ v.epicFilter \in {"all", "hideDone", "activeOnly"}
             /\ v.hiddenRows \subseteq WorkItem \cup {NoEpic} /\ v.hidden \subseteq who
             /\ {v.rangeFrom, v.rangeTo, v.metricsFrom, v.metricsTo} \subseteq Columns
             /\ v.rangeFrom <= v.rangeTo /\ v.metricsFrom <= v.metricsTo
<1>1. /\ CURRENT \in Columns
      /\ Least(CURRENT + 1, NITER - 1) \in Columns /\ Least(CURRENT + 5, NITER - 1) \in Columns
      /\ CURRENT <= Least(CURRENT + 1, NITER - 1) /\ CURRENT <= Least(CURRENT + 5, NITER - 1)
  BY CurrentIs, GridAssumption DEF Least, Columns
<1>. HIDE DEF CURRENT
<1>. QED  BY <1>1 DEF InitialView, ViewFields, Boards, Levels

LEMMA InitOK == Init => BoardInv
<1>. SUFFICES ASSUME Init PROVE BoardInv
  OBVIOUS
<1>1. AdoType(ado)
  BY BoardAssumption DEF Init, AdoType
<1>2. DOMAIN <<>> = {}
  OBVIOUS
<1>3. TicketsOK(tickets) /\ BoardOK(items, tickets) /\ BoardOK(rendered, tickets)
      /\ SameLevels(items, rendered)
  BY <1>2 DEF Init, TicketsOK, BoardOK, SameLevels
<1>4. OpsType(sent)
  BY OpsNone DEF Init
<1>5. ServerOK
  BY <1>2, OpsNone, NoAnswers DEF Init, ServerOK, TicketsOK
<1>. QED  BY <1>1, <1>3, <1>4, <1>5 DEF Init, BoardInv, DragOK

LEMMA LoadOK == BoardInv /\ Load => BoardInv'
<1>. SUFFICES ASSUME BoardInv, Load PROVE BoardInv'
  OBVIOUS
<1>. DEFINE read == SyncTickets(ado)
            first == ItemsOf(read, TeamMembers(ado))
<1>1. AdoType(ado) /\ TeamMembers(ado) \subseteq Member
  BY TeamType DEF BoardInv
<1>2. /\ tickets' = read /\ rendered' = first
      /\ people' = PeopleOf(first, TeamMembers(ado))
      /\ items' = Reconcile(first, read, people', states')
      /\ view' = InitialView(first, people')
      /\ page = "none" /\ page' = "open" /\ cache' = read
      /\ UNCHANGED <<project, drag, sent, jobs, echoes, answers, resized>>
  BY DEF Load, ApplyDataset
<1>3. /\ DOMAIN read \subseteq DOMAIN ado /\ DOMAIN ado \subseteq WorkItem
      /\ \A i \in DOMAIN read :
           \E epic \in WorkItem \cup {None} : read[i] = ToTicket(ado, i, epic)
  BY <1>1, SyncedAre DEF AdoType
<1>. HIDE DEF read
<1>4. \A i \in DOMAIN read : TicketType(read[i]) /\ ItemShape(ItemOf(read[i], TeamMembers(ado)))
  <2>. TAKE i \in DOMAIN read
  <2>1. PICK epic \in WorkItem \cup {None} : read[i] = ToTicket(ado, i, epic)
    BY <1>3
  <2>. QED  BY <1>1, <1>3, <2>1, TicketIs, ReadItemIs
<1>5. BoardOK(first, read)
  BY <1>4 DEF BoardOK, ItemsOf
<1>6. people' \subseteq Member \cup {Unassigned}
  BY <1>1, <1>2 DEF PeopleOf
<1>. HIDE DEF first
<1>7. BoardOK(items', read) /\ SameLevels(items', first)
  BY <1>2, <1>4, <1>5, <1>6, ReconcileOK
<1>8. TicketsOK(tickets)' /\ BoardOK(items, tickets)' /\ BoardOK(rendered, tickets)'
      /\ SameLevels(items, rendered)'
  BY <1>2, <1>3, <1>4, <1>5, <1>7 DEF TicketsOK, BoardOK, SameLevels, project
<1>9. ViewShape(view)'
  BY <1>2, InitialViewOK DEF ViewShape, ViewType
<1>10. drag' = NoDrag /\ sent' = <<>>
  BY <1>2 DEF BoardInv
<1>11. OpsType(sent)' /\ DragOK'
  BY <1>10, OpsNone DEF OpsType, DragOK
<1>12. AdoType(ado)' /\ (DOMAIN resized = WorkItem)' /\ page' = "open"
  BY <1>2 DEF BoardInv, project
<1>13. TicketsOK(cache)'
  BY <1>2, <1>3, <1>4 DEF TicketsOK, project
<1>14. UNCHANGED <<ado, jobs, echoes, answers>>
  BY <1>2 DEF project
<1>15. OpsType(jobs)' /\ OpsType(echoes)' /\ AnswersType(answers)'
  BY <1>14 DEF BoardInv, ServerOK, OpsType, OpType, AnswersType, AnswerType
<1>. QED  BY <1>6, <1>8, <1>9, <1>11, <1>12, <1>13, <1>15 DEF BoardInv, ServerOK

LEMMA RenderOK == BoardInv /\ Render => BoardInv'
<1>. SUFFICES ASSUME BoardInv, Render PROVE BoardInv'
  OBVIOUS
<1>1. UNCHANGED <<ado, people, tickets, items, view, drag, sent, server, resized>>
  BY DEF Render, project, session
<1>2. rendered' = items /\ page = "open" /\ page' \in {"open", "blank"}
  BY DEF Render
<1>3. BoardOK(items, tickets)' /\ BoardOK(rendered, tickets)' /\ SameLevels(items, rendered)'
  BY <1>1, <1>2 DEF BoardInv, BoardOK, SameLevels
<1>4. DOMAIN rendered' = DOMAIN rendered
      /\ \A i \in DOMAIN rendered : rendered'[i].level = rendered[i].level
  BY <1>2 DEF BoardInv, BoardOK, SameLevels
<1>5. DragOK'
  BY <1>1, <1>4 DEF BoardInv, DragOK
<1>6. AdoType(ado)' /\ (people \subseteq Member \cup {Unassigned})' /\ TicketsOK(tickets)'
      /\ ViewShape(view)' /\ (DOMAIN resized = WorkItem)' /\ OpsType(sent)'
  BY <1>1, <1>2 DEF BoardInv, TicketsOK, ViewShape, ViewType, OpsType, OpType
<1>7. ServerOK'
  BY <1>1, ServerKept DEF BoardInv
<1>. QED  BY <1>2, <1>3, <1>5, <1>6, <1>7 DEF BoardInv

\* A control gives the view a value of its kind.
LEMMA LookOK ==
  ASSUME BoardInv, NEW next, Look(next), page = "open", ViewShape(next)
  PROVE  BoardInv'
<1>1. UNCHANGED <<ado, people, tickets, items, rendered, drag, sent, server, resized>>
  BY DEF Look, project, session
<1>2. view' = next /\ page' \in {"open", "blank"}
  BY DEF Look
<1>3. AdoType(ado)' /\ (people \subseteq Member \cup {Unassigned})' /\ TicketsOK(tickets)'
      /\ BoardOK(items, tickets)' /\ BoardOK(rendered, tickets)' /\ SameLevels(items, rendered)'
      /\ (DOMAIN resized = WorkItem)' /\ OpsType(sent)' /\ DragOK'
  BY <1>1 DEF BoardInv, TicketsOK, BoardOK, SameLevels, OpsType, OpType, DragOK
<1>4. ViewShape(view)'
  BY <1>1, <1>2 DEF ViewShape, ViewType
<1>5. ServerOK'
  BY <1>1, ServerKept DEF BoardInv
<1>. QED  BY <1>2, <1>3, <1>4, <1>5 DEF BoardInv

LEMMA LooksOK == BoardInv /\ Looks => BoardInv'
<1>. SUFFICES ASSUME BoardInv, Looks PROVE BoardInv'
  OBVIOUS
<1>0. page = "open"
  BY DEF Looks
<1>1. ViewShape(view) /\ DOMAIN items \subseteq WorkItem
  BY <1>0 DEF BoardInv, BoardOK, TicketsOK, AdoType
<1>. USE DEF ViewShape, ViewType, ViewFields
<1>2. ASSUME NEW b \in Boards, ShowBoard(b) PROVE BoardInv'
  <2>1. ViewShape([view EXCEPT !.board = b])
    BY <1>1
  <2>. QED  BY <1>0, <1>2, <2>1, LookOK DEF ShowBoard
<1>3. ASSUME NEW l \in Levels, ShowLevel(l) PROVE BoardInv'
  <2>1. ViewShape([view EXCEPT !.level = l])
    BY <1>1
  <2>. QED  BY <1>0, <1>3, <2>1, LookOK DEF ShowLevel
<1>4. ASSUME NEW f \in {"all", "hideDone", "activeOnly"}, FilterEpics(f) PROVE BoardInv'
  <2>1. ViewShape([view EXCEPT !.epicFilter = f])
    BY <1>1
  <2>. QED  BY <1>0, <1>4, <2>1, LookOK DEF FilterEpics
<1>5. ASSUME ToggleClosed PROVE BoardInv'
  <2>1. ViewShape([view EXCEPT !.hideClosed = ~@])
    BY <1>1
  <2>. QED  BY <1>0, <1>5, <2>1, LookOK DEF ToggleClosed
<1>6. ASSUME ToggleBacklog PROVE BoardInv'
  <2>1. ViewShape([view EXCEPT !.backlog = ~@])
    BY <1>1
  <2>. QED  BY <1>0, <1>6, <2>1, LookOK DEF ToggleBacklog
<1>7. ASSUME NEW key \in DOMAIN items \cup {NoEpic}, ToggleRowHidden(key) PROVE BoardInv'
  <2>1. ViewShape([view EXCEPT !.hiddenRows = IF key \in @ THEN @ \ {key} ELSE @ \cup {key}])
    BY <1>1
  <2>. QED  BY <1>0, <1>7, <2>1, LookOK DEF ToggleRowHidden
<1>8. ASSUME NEW p \in people, TogglePerson(p) PROVE BoardInv'
  <2>1. ViewShape([view EXCEPT !.hidden = IF p \in @ THEN @ \ {p} ELSE @ \cup {p}])
    BY <1>1
  <2>. QED  BY <1>0, <1>8, <2>1, LookOK DEF TogglePerson
<1>9. ASSUME NEW i \in Columns,
             RangeFrom(i) \/ RangeTo(i) \/ MetricsFrom(i) \/ MetricsTo(i)
      PROVE  BoardInv'
  <2>0. \A a, b \in Columns : /\ Greatest(a, b) \in Columns /\ a <= Greatest(a, b)
                              /\ Least(a, b) \in Columns /\ Least(a, b) <= a
    BY GridAssumption DEF Greatest, Least, Columns
  <2>1. i <= i
    BY ColumnsType
  <2>2. ViewShape([view EXCEPT !.rangeFrom = i, !.rangeTo = Greatest(i, @)])
        /\ ViewShape([view EXCEPT !.rangeTo = i, !.rangeFrom = Least(i, @)])
    BY <1>1, <2>0
  <2>3. ViewShape([view EXCEPT !.metricsFrom = i, !.metricsTo = Greatest(i, @)])
        /\ ViewShape([view EXCEPT !.metricsTo = i, !.metricsFrom = Least(i, @)])
    BY <1>1, <2>0
  <2>. QED  BY <1>0, <1>9, <2>2, <2>3, LookOK DEF RangeFrom, RangeTo, MetricsFrom, MetricsTo
<1>. QED  BY <1>2, <1>3, <1>4, <1>5, <1>6, <1>7, <1>8, <1>9 DEF Looks

LEMMA WideIs ==
  /\ Ranges \subseteq Wide
  /\ \A c \in Columns \cup {BACKLOG} : <<c, c>> \in Wide
  /\ \A r \in Wide : r \in Ranges <=> r[2] \in Columns
  /\ \A r \in Wide : r[1] \in 0 .. NITER /\ r[2] \in 0 .. NITER /\ r[1] <= r[2]
BY GridAssumption DEF Ranges, Wide, Columns, BACKLOG

\* The dates of a bar: days, or none.
LEMMA BarDatesAre ==
  ASSUME NEW range \in Wide
  PROVE  /\ BarDates(range) = <<BarDates(range)[1], BarDates(range)[2]>>
         /\ BarDates(range)[1] \in Int \cup {None} /\ BarDates(range)[2] \in Int \cup {None}
<1>1. range[1] \in 0 .. NITER
  BY WideIs
<1>2. range[1] = BACKLOG \/ range[1] \in Columns
  BY <1>1, GridAssumption DEF BACKLOG, Columns
<1>3. CASE range \in Ranges
  BY <1>3, GridAssumption DEF BarDates, RangeDates, Ranges, Columns
<1>4. CASE range \notin Ranges
  BY <1>2, <1>4, GridAssumption DEF BarDates, Columns
<1>. QED  BY <1>3, <1>4

\* An item whose sprint, person or state changed is still one.
LEMMA ChangedIs ==
  ASSUME NEW item, ItemShape(item), NEW field \in {"iter", "person", "state"}, NEW value,
         field = "iter" => value \in Columns \cup {BACKLOG},
         field = "person" => value \in Member \cup {Unassigned}
  PROVE  /\ ItemShape(Changed(item, field, value))
         /\ Changed(item, field, value).level = item.level
<1>. DEFINE told == Changed(item, field, value)
<1>1. CASE field = "iter"
  <2>1. BarDates(<<value, value>>)[1] \in Int \cup {None}
        /\ BarDates(<<value, value>>)[2] \in Int \cup {None}
        /\ BarDates(<<value, value>>) = <<BarDates(<<value, value>>)[1],
                                         BarDates(<<value, value>>)[2]>>
    BY <1>1, WideIs, BarDatesAre
  <2>2. /\ DOMAIN told = ItemFields /\ told.iter = value /\ told.span = 1
        /\ told.dates = IF item.dates = None THEN None ELSE BarDates(<<value, value>>)
        /\ told.level = item.level /\ told.parent = item.parent /\ told.epic = item.epic
        /\ told.person = item.person /\ told.effort = item.effort /\ told.rel = item.rel
    BY <1>1 DEF Changed, ItemShape, ItemFields
  <2>3. told.dates = None \/ told.dates \in (Int \cup {None}) \X (Int \cup {None})
    BY <2>1, <2>2
  <2>4. 1 \in 1 .. NITER + 1
    BY GridAssumption
  <2>. HIDE DEF told
  <2>5. ItemShape(told)
    BY <1>1, <2>2, <2>3, <2>4 DEF ItemShape, ItemType
  <2>. QED  BY <2>2, <2>5 DEF told
<1>2. CASE field = "person"
  BY <1>2 DEF Changed, ItemShape, ItemFields, ItemType
<1>3. CASE field = "state"
  BY <1>3 DEF Changed, ItemShape, ItemFields, ItemType
<1>. QED  BY <1>1, <1>2, <1>3

\* A board with one item changed.
LEMMA OneChangedOK ==
  ASSUME BoardOK(rendered, tickets), NEW i \in DOMAIN rendered, NEW item, ItemShape(item)
  PROVE  BoardOK([rendered EXCEPT ![i] = item], tickets)
BY DEF BoardOK

LEMMA SetFieldsOK == BoardInv /\ SetFields => BoardInv'
<1>. SUFFICES ASSUME BoardInv, SetFields PROVE BoardInv'
  OBVIOUS
<1>1. ASSUME NEW i \in DOMAIN rendered, NEW field \in {"iter", "person", "state"}, NEW value,
             field = "iter" => value \in Columns \cup {BACKLOG},
             field = "person" => value \in Member \cup {Unassigned},
             SetField(i, field, value)
      PROVE  BoardInv'
  <2>. DEFINE ops == OpsOf(i, field, value)
              board == [rendered EXCEPT ![i] = Changed(@, field, value)]
  <2>1. /\ Acts(Echoed(board, ops), ops) /\ page = "open" /\ drag = NoDrag
        /\ UNCHANGED <<project, session, view, drag, server, resized>>
    BY <1>1 DEF SetField, Gesture
  <2>2. BoardOK(rendered, tickets) /\ TicketsOK(tickets) /\ i \in DOMAIN ado
        /\ people \subseteq Member \cup {Unassigned}
    BY DEF BoardInv, BoardOK, TicketsOK
  <2>3. ItemShape(Changed(rendered[i], field, value))
    BY <1>1, <2>2, ChangedIs DEF BoardOK
  <2>4. board = [rendered EXCEPT ![i] = Changed(rendered[i], field, value)]
    OBVIOUS
  <2>5. BoardOK(board, tickets)
    BY <2>2, <2>3, <2>4, OneChangedOK
  <2>6. OpsType(ops)
    BY <1>1, <2>2, OpsOfType
  <2>. HIDE DEF ops, board
  <2>7. BoardOK(Echoed(board, ops), tickets)
    BY <2>2, <2>5, <2>6, EchoedOK, SubmittedOK DEF BoardOK
  <2>8. UNCHANGED <<ado, people, view, server>> /\ drag' = NoDrag
        /\ DOMAIN resized' = DOMAIN resized
    BY <2>1 DEF project, session
  <2>. QED  BY <2>1, <2>6, <2>7, <2>8, ActsOK
<1>2. people \subseteq Member \cup {Unassigned}
  BY DEF BoardInv
<1>. QED  BY <1>1, <1>2 DEF SetFields

\* A finite set in a sequence, each element once.
LEMMA SetToSeqIs ==
  ASSUME NEW S, IsFiniteSet(S)
  PROVE  /\ Cardinality(S) \in Nat
         /\ SetToSeq(S) \in [1 .. Cardinality(S) -> S]
         /\ SetToSeq(S) \in Seq(S) /\ Len(SetToSeq(S)) = Cardinality(S)
         /\ \A j, k \in 1 .. Cardinality(S) : SetToSeq(S)[j] = SetToSeq(S)[k] => j = k
         /\ \A x \in S : \E k \in 1 .. Cardinality(S) : SetToSeq(S)[k] = x
<1>. DEFINE n == Cardinality(S)
            order == SetToSeq(S)
<1>1. n \in Nat /\ ExistsBijection(1 .. n, S)
  BY FS_CardinalityType
<1>2. \E f \in [1 .. n -> S] : IsInjective(f)
  BY <1>1 DEF ExistsBijection, Bijection, Injection
<1>3. order \in [1 .. n -> S] /\ IsInjective(order)
  BY <1>2 DEF SetToSeq
<1>. HIDE DEF order
<1>4. order \in Injection(1 .. n, S) /\ Cardinality(1 .. n) = n
  BY <1>1, <1>3, FS_Interval DEF Injection
<1>5. order \in Surjection(1 .. n, S)
  BY <1>4, FS_Injection
<1>6. \A x \in S : \E k \in 1 .. n : order[k] = x
  BY <1>5 DEF Surjection
<1>7. \A j, k \in 1 .. n : order[j] = order[k] => j = k
  BY <1>3 DEF IsInjective
<1>8. order \in Seq(S) /\ Len(order) = n
  <2>. HIDE DEF n
  <2>. QED  BY <1>1, <1>3
<1>. QED  BY <1>1, <1>3, <1>6, <1>7, <1>8 DEF order

\* Items of the board are finitely many.
LEMMA BoardFinite ==
  ASSUME BoardInv
  PROVE  IsFiniteSet(DOMAIN rendered) /\ DOMAIN rendered \subseteq WorkItem
<1>1. DOMAIN rendered \subseteq WorkItem
  BY DEF BoardInv, BoardOK, TicketsOK, AdoType
<1>. QED  BY <1>1, AdoReadAssumption, FS_Subset

-----------------------------------------------------------------------------
(* Ranges *)

\* The range of stories, when one of them is planned, is on the grid.
LEMMA DerivedOfPlanned ==
  ASSUME NEW its, NEW us, {its[i].iter : i \in us} \cap Columns # {}
  PROVE  DerivedRange(its, us) \in Ranges
<1>. DEFINE planned == {its[i].iter : i \in us} \cap Columns
            from == Min(planned \cup {99})
<1>. SUFFICES <<from, Max(planned)>> \in Ranges
  BY DEF DerivedRange
<1>1. Max(planned) \in planned /\ planned \subseteq Columns
  BY MaxIn
<1>. HIDE DEF planned
<1>2. planned \cup {99} \in SUBSET Nat /\ planned \cup {99} \in SUBSET Int
  BY <1>1, ColumnsType
<1>3. PICK x \in planned \cup {99} : \A y \in planned \cup {99} : x <= y
  BY <1>2, LeastExists
<1>4. from = x
  BY <1>2, <1>3, MinIs
<1>5. from \in Nat /\ from <= Max(planned) /\ Max(planned) \in Columns
  BY <1>1, <1>2, <1>3, <1>4
<1>. QED  BY <1>5, GridAssumption DEF Ranges, Columns

LEMMA DerivedIs ==
  ASSUME NEW its, NEW us
  PROVE  DerivedRange(its, us) \in Ranges \cup {None}
BY DerivedOfPlanned DEF DerivedRange

LEMMA DatedIs ==
  ASSUME NEW item, ItemShape(item), Dated(item)
  PROVE  item.dates \in Int \X Int
BY DEF ItemShape, ItemType, Dated

LEMMA FeatRangeIs ==
  ASSUME NEW its, NEW f \in DOMAIN its, \A i \in DOMAIN its : ItemShape(its[i])
  PROVE  /\ FeatRange(its, f) \in Wide
         /\ its[f].level # "epic" => FeatRange(its, f) \in Ranges \cup {<<BACKLOG, BACKLOG>>}
<1>. DEFINE derived == DerivedRange(its, StoriesOf(its, {f}))
<1>1. derived \in Ranges \cup {None}
  BY DerivedIs
<1>. HIDE DEF derived
<1>2. FeatRange(its, f) = IF its[f].rel # None THEN its[f].rel
                          ELSE IF Dated(its[f]) THEN DatesRange(its[f].dates)
                          ELSE IF derived # None THEN derived ELSE <<its[f].iter, its[f].iter>>
  BY DEF FeatRange, derived
<1>3. ItemShape(its[f])
  OBVIOUS
<1>4. CASE its[f].rel # None
  BY <1>2, <1>3, <1>4 DEF ItemShape, ItemType
<1>5. CASE its[f].rel = None /\ Dated(its[f])
  <2>1. its[f].dates \in Int \X Int
    BY <1>3, <1>5, DatedIs
  <2>. QED  BY <1>2, <1>5, <2>1, DatesStayOnGrid, WideIs
<1>6. CASE its[f].rel = None /\ ~Dated(its[f]) /\ derived # None
  BY <1>1, <1>2, <1>6, WideIs
<1>7. CASE its[f].rel = None /\ ~Dated(its[f]) /\ derived = None
  <2>1. its[f].iter \in Columns \cup {BACKLOG}
    BY <1>3 DEF ItemShape, ItemType
  <2>2. \A c \in Columns : <<c, c>> \in Ranges
    BY ColumnsType DEF Ranges
  <2>. QED  BY <1>2, <1>7, <2>1, <2>2, WideIs
<1>. QED  BY <1>4, <1>5, <1>6, <1>7

LEMMA DragIsWide ==
  ASSUME NEW side \in Sides, NEW range \in Wide, NEW delta \in Int
  PROVE  Drag(side, range, delta) \in Wide
<1>1. range[1] \in 0 .. NITER /\ range[2] \in 0 .. NITER /\ range[1] <= range[2] /\ NITER \in Nat
  BY WideIs, GridAssumption
<1>2. CASE side = "R"
  BY <1>1, <1>2 DEF Drag, Wide, Least, Greatest
<1>3. CASE side = "L"
  BY <1>1, <1>3 DEF Drag, Wide, Least, Greatest
<1>4. CASE side = "M"
  <2>. DEFINE span == range[2] - range[1]
              from == Greatest(0, Least(NITER - 1 - span, range[1] + delta))
  <2>1. Drag(side, range, delta) = <<from, from + span>>
    BY <1>4 DEF Drag
  <2>2. span \in 0 .. NITER /\ range[1] + delta \in Int
    BY <1>1
  <2>. HIDE DEF span
  <2>3. from \in Int /\ 0 <= from /\ from + span <= NITER
    BY <1>1, <2>2 DEF Greatest, Least
  <2>. HIDE DEF from
  <2>. QED  BY <1>1, <2>1, <2>2, <2>3 DEF Wide
<1>. QED  BY <1>2, <1>3, <1>4 DEF Sides

LEMMA NearestIs ==
  ASSUME NEW c \in Columns, NEW range \in Wide
  PROVE  Nearest(c, range) \in Columns \cup {BACKLOG}
BY WideIs, GridAssumption DEF Nearest, Columns, BACKLOG

-----------------------------------------------------------------------------
(* Drags, answers and polls *)

LEMMA StartDragOK ==
  ASSUME BoardInv, NEW i \in DOMAIN rendered, NEW mode \in {"move", "resize"}, StartDrag(i, mode)
  PROVE  BoardInv'
<1>1. UNCHANGED <<project, session, page, tickets, items, rendered, view, sent, server, resized>>
      /\ page = "open"
      /\ drag' = [mode |-> mode, item |-> i, person |-> rendered[i].person]
  BY DEF StartDrag, Gesture
<1>2. DragOK'
  BY <1>1 DEF DragOK
<1>3. /\ AdoType(ado)' /\ page' = "open" /\ (people \subseteq Member \cup {Unassigned})'
      /\ TicketsOK(tickets)' /\ BoardOK(items, tickets)' /\ BoardOK(rendered, tickets)'
      /\ SameLevels(items, rendered)' /\ ViewShape(view)' /\ OpsType(sent)'
      /\ (DOMAIN resized = WorkItem)'
  BY <1>1 DEF BoardInv, project, session, TicketsOK, BoardOK, SameLevels, ViewShape, ViewType,
              OpsType, OpType
<1>4. ServerOK'
  BY <1>1, ServerKept DEF BoardInv, project
<1>. QED  BY <1>2, <1>3, <1>4 DEF BoardInv

LEMMA StartEpicResizeOK ==
  ASSUME BoardInv, NEW f \in DOMAIN rendered, NEW side \in Sides, StartEpicResize(f, side)
  PROVE  BoardInv'
<1>1. UNCHANGED <<project, session, page, tickets, items, rendered, view, sent, server, resized>>
      /\ page = "open"
      /\ drag' = [mode |-> "epic", item |-> f, side |-> side, range |-> FeatRange(rendered, f)]
  BY DEF StartEpicResize, Gesture
<1>2. \A i \in DOMAIN rendered : ItemShape(rendered[i])
  BY DEF BoardInv, BoardOK
<1>3. FeatRange(rendered, f) \in Wide
  BY <1>2, FeatRangeIs
<1>4. rendered[f].level # "epic" => FeatRange(rendered, f) \in Ranges
  <2>1. PICK n \in BuildTree(rendered, view) :
          \/ f = n.epic /\ EpicRange(rendered, n) # None
          \/ f \in n.features /\ FeatRange(rendered, f) \in Ranges
    BY DEF StartEpicResize
  <2>2. n.epic \in Of(rendered, "epic") \cup {NoEpic}
    BY <2>1 DEF BuildTree, Nodes
  <2>3. f # NoEpic
    BY BoardFinite, PlanAssumption
  <2>. QED  BY <2>1, <2>2, <2>3 DEF Of
<1>5. DragOK'
  BY <1>1, <1>3, <1>4 DEF DragOK
<1>6. /\ AdoType(ado)' /\ page' = "open" /\ (people \subseteq Member \cup {Unassigned})'
      /\ TicketsOK(tickets)' /\ BoardOK(items, tickets)' /\ BoardOK(rendered, tickets)'
      /\ SameLevels(items, rendered)' /\ ViewShape(view)' /\ OpsType(sent)'
      /\ (DOMAIN resized = WorkItem)'
  BY <1>1 DEF BoardInv, project, session, TicketsOK, BoardOK, SameLevels, ViewShape, ViewType,
              OpsType, OpType
<1>7. ServerOK'
  BY <1>1, ServerKept DEF BoardInv, project
<1>. QED  BY <1>5, <1>6, <1>7 DEF BoardInv

\* A drag that ends and changes nothing.
LEMMA NothingDropped ==
  ASSUME BoardInv, page = "open", drag' = NoDrag, UNCHANGED <<page, tickets, items, rendered, sent>>,
         UNCHANGED <<project, session, view, server, resized>>
  PROVE  BoardInv'
<1>1. DragOK'
  BY DEF DragOK
<1>2. ServerOK'
  BY ServerKept DEF BoardInv, project
<1>3. /\ AdoType(ado)' /\ page' = "open" /\ (people \subseteq Member \cup {Unassigned})'
      /\ TicketsOK(tickets)' /\ BoardOK(items, tickets)' /\ BoardOK(rendered, tickets)'
      /\ SameLevels(items, rendered)' /\ ViewShape(view)' /\ OpsType(sent)'
      /\ (DOMAIN resized = WorkItem)'
  BY DEF BoardInv, project, session, TicketsOK, BoardOK, SameLevels, ViewShape, ViewType,
         OpsType, OpType
<1>. QED  BY <1>1, <1>2, <1>3 DEF BoardInv

LEMMA DropOK ==
  ASSUME BoardInv, page = "open", NEW row, NEW column \in DropColumns, Drop(row, column)
  PROVE  BoardInv'
<1>. DEFINE i == drag.item
            person == IF view.board = "release" THEN drag.person ELSE row
            field == IF view.board = "daily" THEN "state" ELSE "iter"
            moved == rendered[i][field] # column
            card == IF moved THEN Changed(rendered[i], field, column) ELSE rendered[i]
            one == IF moved THEN OpsOf(i, field, column) ELSE <<>>
            other == IF rendered[i].person # person THEN OpsOf(i, "person", person) ELSE <<>>
            told == [card EXCEPT !.person = person]
            board == [rendered EXCEPT ![i] = told]
<1>0. CASE person \notin people
  <2>1. UNCHANGED <<page, tickets, items, rendered, sent>> /\ drag' = NoDrag
        /\ UNCHANGED <<project, session, view, server, resized>>
    BY <1>0 DEF Drop
  <2>. QED  BY <2>1, NothingDropped
<1>. SUFFICES ASSUME person \in people PROVE BoardInv'
  BY <1>0
<1>1. /\ drag.mode = "move" /\ person \in people /\ Acts(board, one \o other) /\ drag' = NoDrag
      /\ UNCHANGED <<project, session, view, server, resized>>
  BY DEF Drop
<1>2. i \in DOMAIN rendered
  <2>1. NoDrag.mode = "none"
    BY DEF NoDrag
  <2>. QED  BY <1>1, <2>1 DEF BoardInv, DragOK
<1>3. BoardOK(rendered, tickets) /\ ItemShape(rendered[i]) /\ i \in DOMAIN ado
  BY <1>2 DEF BoardInv, BoardOK, TicketsOK
<1>4. person \in Member \cup {Unassigned}
  BY <1>1 DEF BoardInv
<1>5. field = "iter" => column \in Columns \cup {BACKLOG}
  <2>1. ViewShape(view)
    BY DEF BoardInv
  <2>2. VisibleCols(view) \subseteq Columns \cup {BACKLOG}
    BY <2>1, GridAssumption DEF VisibleCols, ViewShape, ViewType, Columns
  <2>3. CASE view.board = "release"
    BY <2>3 DEF DropColumns
  <2>4. CASE view.board = "sprint"
    BY <2>2, <2>4 DEF DropColumns
  <2>. QED  BY <2>1, <2>3, <2>4 DEF ViewShape, ViewType, Boards
<1>6. ItemShape(card)
  BY <1>3, <1>5, ChangedIs
<1>7. OpsType(one)
  BY <1>3, OpsOfType, OpsNone
<1>8. OpsType(other)
  BY <1>3, <1>4, OpsOfType, OpsNone
<1>. HIDE DEF i, person, card, one, other
<1>9. ItemShape(told)
  BY <1>4, <1>6 DEF ItemShape, ItemType, ItemFields
<1>. HIDE DEF told
<1>10. BoardOK(board, tickets)
  BY <1>2, <1>3, <1>9, OneChangedOK
<1>. HIDE DEF board
<1>11. OpsType(one \o other)
  BY <1>7, <1>8, OpsAppend
<1>. QED  BY <1>1, <1>10, <1>11, ActsOK DEF project, session

LEMMA StretchOK ==
  ASSUME BoardInv, page = "open", NEW span \in 1 .. NITER + 1, Stretch(span)
  PROVE  BoardInv'
<1>. DEFINE i == drag.item
            board == [rendered EXCEPT ![i].span = span]
<1>1. /\ drag.mode = "resize" /\ Acts(board, <<>>) /\ drag' = NoDrag
      /\ UNCHANGED <<project, session, view, server, resized>>
  BY DEF Stretch
<1>2. i \in DOMAIN rendered
  <2>1. NoDrag.mode = "none"
    BY DEF NoDrag
  <2>. QED  BY <1>1, <2>1 DEF BoardInv, DragOK
<1>3. BoardOK(rendered, tickets) /\ ItemShape(rendered[i])
  BY <1>2 DEF BoardInv, BoardOK
<1>4. ItemShape([rendered[i] EXCEPT !.span = span])
  BY <1>3 DEF ItemShape, ItemType, ItemFields
<1>5. board = [rendered EXCEPT ![i] = [rendered[i] EXCEPT !.span = span]]
  OBVIOUS
<1>. HIDE DEF i
<1>6. BoardOK(board, tickets)
  BY <1>2, <1>3, <1>4, <1>5, OneChangedOK
<1>. HIDE DEF board
<1>. QED  BY <1>1, <1>6, OpsNone, ActsOK DEF project, session

PullOf(range, i) == OpsOf(i, "iter", Nearest(rendered[i].iter, range))

PullOps(f, range) ==
  LET order == SetToSeq({i \in Pulled(f, range) : PullOf(range, i) # <<>>})
  IN  [k \in DOMAIN order |-> Head(PullOf(range, order[k]))]

LEMMA BarOpsAre ==
  ASSUME NEW f, NEW range
  PROVE  BarOps(f, range) = OpsOf(f, "start", BarDates(range)[1])
                            \o OpsOf(f, "target", BarDates(range)[2]) \o PullOps(f, range)
BY DEF BarOps, PullOf, PullOps

\* The operations of the stories pulled: a path each.
LEMMA PullOpsAre ==
  ASSUME BoardInv, NEW f, NEW range
  PROVE  /\ OpsType(PullOps(f, range))
         /\ \A k \in 1 .. Len(PullOps(f, range)) : PullOps(f, range)[k].field = "path"
<1>. DEFINE S == {i \in Pulled(f, range) : PullOf(range, i) # <<>>}
            order == SetToSeq(S)
            n == Cardinality(S)
            ops == PullOps(f, range)
<1>1. S \subseteq DOMAIN rendered
  BY DEF Pulled, StoriesOf, Of
<1>2. IsFiniteSet(S)
  BY <1>1, BoardFinite, FS_Subset
<1>3. DOMAIN rendered \subseteq DOMAIN ado
  BY DEF BoardInv, BoardOK, TicketsOK
<1>4. \A i \in S : OpType(Head(PullOf(range, i))) /\ Head(PullOf(range, i)).field = "path"
  <2>. TAKE i \in S
  <2>1. OpsType(PullOf(range, i))
    BY <1>1, <1>3, OpsOfType DEF PullOf
  <2>2. PICK op : PullOf(range, i) = <<op>> /\ op.field = "path"
    BY OpsOfIs DEF PullOf
  <2>3. Head(PullOf(range, i)) = op
    BY <2>2
  <2>4. OpType(op)
    BY <2>1, <2>2, <2>3, OpsHeadTail
  <2>. QED  BY <2>2, <2>3, <2>4
<1>5. ops = [k \in DOMAIN order |-> Head(PullOf(range, order[k]))]
  BY DEF PullOps
<1>. HIDE DEF S, ops
<1>6. n \in Nat /\ order \in [1 .. n -> S]
  BY <1>2, SetToSeqIs
<1>. HIDE DEF order, n
<1>7. ops = [k \in 1 .. n |-> Head(PullOf(range, order[k]))]
  BY <1>5, <1>6
<1>8. ops \in Seq({Head(PullOf(range, i)) : i \in S}) /\ Len(ops) = n
  BY <1>6, <1>7
<1>9. \A k \in 1 .. n : ops[k] = Head(PullOf(range, order[k])) /\ order[k] \in S
  BY <1>6, <1>7
<1>10. \A k \in 1 .. Len(ops) : OpType(ops[k]) /\ ops[k].field = "path"
  BY <1>4, <1>8, <1>9
<1>11. OpsType(ops)
  BY <1>8, <1>10 DEF OpsType
<1>. QED  BY <1>10, <1>11 DEF ops

LEMMA BarOpsOK ==
  ASSUME BoardInv, NEW f \in DOMAIN rendered, NEW range \in Wide
  PROVE  OpsType(BarOps(f, range))
<1>1. f \in DOMAIN ado
  BY DEF BoardInv, BoardOK, TicketsOK
<1>2. OpsType(OpsOf(f, "start", BarDates(range)[1])) /\ OpsType(OpsOf(f, "target", BarDates(range)[2]))
  BY <1>1, BarDatesAre, OpsOfType
<1>. QED  BY <1>2, BarOpsAre, PullOpsAre, OpsAppend

LEMMA BarBoardOK ==
  ASSUME BoardInv, NEW f \in DOMAIN rendered, NEW range \in Wide,
         rendered[f].level # "epic" => range \in Ranges
  PROVE  BoardOK(BarBoard(f, range), tickets)
<1>. DEFINE board == BarBoard(f, range)
<1>0. BoardOK(rendered, tickets) /\ DOMAIN board = DOMAIN rendered
  BY DEF BoardInv, BarBoard
<1>1. ASSUME NEW i \in DOMAIN rendered PROVE ItemShape(board[i])
  <2>1. ItemShape(rendered[i])
    BY <1>0 DEF BoardOK
  <2>2. CASE i = f
    <3>1. BarDates(range) \in (Int \cup {None}) \X (Int \cup {None})
      BY BarDatesAre
    <3>2. board[i] = [rendered[i] EXCEPT !.rel = range, !.dates = BarDates(range)]
      BY <2>2 DEF BarBoard
    <3>. QED  BY <2>1, <2>2, <3>1, <3>2 DEF ItemShape, ItemType, ItemFields
  <2>3. CASE i # f /\ i \in Pulled(f, range)
    <3>1. rendered[i].iter \in Columns
      BY <2>3 DEF Pulled
    <3>2. Nearest(rendered[i].iter, range) \in Columns \cup {BACKLOG}
      BY <3>1, NearestIs
    <3>3. board[i] = [rendered[i] EXCEPT !.iter = Nearest(rendered[i].iter, range)]
      BY <2>3 DEF BarBoard
    <3>. QED  BY <2>1, <3>2, <3>3 DEF ItemShape, ItemType, ItemFields
  <2>4. CASE i # f /\ i \notin Pulled(f, range)
    BY <2>1, <2>4 DEF BarBoard
  <2>. QED  BY <2>2, <2>3, <2>4
<1>. HIDE DEF board
<1>2. BoardOK(board, tickets)
  BY <1>0, <1>1 DEF BoardOK
<1>. QED  BY <1>2 DEF board

LEMMA DropBarOK ==
  ASSUME BoardInv, page = "open", NEW delta \in Int, DropBar(delta)
  PROVE  BoardInv'
<1>. DEFINE f == drag.item
            range == Drag(drag.side, drag.range, delta)
<1>1. /\ drag.mode = "epic" /\ drag' = NoDrag
      /\ UNCHANGED <<project, session, view, server>>
  BY DEF DropBar
<1>2. /\ f \in DOMAIN rendered /\ drag.side \in Sides /\ drag.range \in Wide
      /\ rendered[f].level # "epic" => drag.range \in Ranges
  <2>1. NoDrag.mode = "none"
    BY DEF NoDrag
  <2>. QED  BY <1>1, <2>1 DEF BoardInv, DragOK
<1>3. range \in Wide /\ (rendered[f].level # "epic" => range \in Ranges)
  BY <1>2, DragIsWide, DragsStayOnGrid
<1>4. CASE range = drag.range
  <2>1. UNCHANGED <<page, tickets, items, rendered, sent, resized>>
    BY <1>4 DEF DropBar
  <2>. QED  BY <1>1, <2>1, NothingDropped
<1>5. CASE range # drag.range
  <2>1. SetFeatRange(f, range)
    BY <1>5 DEF DropBar
  <2>. HIDE DEF f, range
  <2>. DEFINE ops == BarOps(f, range)
              board == BarBoard(f, range)
  <2>2. Acts(Echoed(board, ops), ops) /\ resized' = [resized EXCEPT ![f] = range]
    BY <2>1 DEF SetFeatRange
  <2>3. OpsType(ops) /\ BoardOK(board, tickets)
    BY <1>2, <1>3, BarOpsOK, BarBoardOK
  <2>. HIDE DEF ops, board
  <2>4. TicketsOK(tickets) /\ people \subseteq Member \cup {Unassigned}
    BY DEF BoardInv
  <2>5. BoardOK(Echoed(board, ops), tickets)
    BY <2>3, <2>4, EchoedOK, SubmittedOK DEF BoardOK
  <2>6. UNCHANGED <<ado, people, view, server>> /\ DOMAIN resized' = DOMAIN resized
    BY <1>1, <2>2 DEF project, session
  <2>. QED  BY <1>1, <2>2, <2>3, <2>5, <2>6, ActsOK
<1>. QED  BY <1>4, <1>5

\* An item with a field written has the fields it had, of their kind.
LEMMA RecordedIs ==
  ASSUME NEW S, NEW item, DOMAIN item = S, {"column", "state"} \subseteq S, NEW op,
         OpType(op), OpFields \subseteq S
  PROVE  /\ DOMAIN Recorded(item, op) = S
         /\ \A field \in S \ OpFields : Recorded(item, op)[field] = item[field]
         /\ Recorded(item, op).assignee = item.assignee
              \/ Recorded(item, op).assignee \in Member \cup {None}
         /\ \A field \in {"start", "target"} :
              Recorded(item, op)[field] = item[field]
                \/ Recorded(item, op)[field] \in Int \cup {None}
<1>. DEFINE next == Recorded(item, op)
<1>1. CASE op.field = "column"
  <2>1. \E state : next = [item EXCEPT !.column = op.value, !.state = state]
    BY <1>1 DEF Recorded
  <2>. QED  BY <2>1 DEF OpFields
<1>2. CASE op.field # "column"
  <2>1. next = [item EXCEPT ![op.field] = op.value]
    BY <1>2 DEF Recorded
  <2>2. op.field \in S
    BY DEF OpType
  <2>3. DOMAIN next = S /\ next[op.field] = op.value
        /\ \A field \in S \ {op.field} : next[field] = item[field]
    BY <2>1, <2>2
  <2>. HIDE DEF next
  <2>. QED  BY <2>3 DEF OpType, OpFields, next
<1>. QED  BY <1>1, <1>2

LEMMA TicketRecorded ==
  ASSUME NEW t, TicketType(t), NEW op, OpType(op), NEW status
  PROVE  TicketType([Recorded(t, op) EXCEPT !.status = status])
<1>. DEFINE next == Recorded(t, op)
<1>1. DOMAIN next = TicketFields /\ next.epic = t.epic /\ next.effort = t.effort
  BY RecordedIs DEF TicketType, TicketFields, OpFields
<1>. HIDE DEF next
<1>. QED  BY <1>1 DEF TicketType, TicketFields, next

\* The server writes nothing that is not of its kind.
LEMMA WrittenIs ==
  ASSUME AdoType(ado), NEW op, OpType(op), NEW item \in Written(ado[op.item], op)
  PROVE  AdoType([ado EXCEPT ![op.item] = item])
<1>. DEFINE i == op.item
            next == [ado EXCEPT ![i] = item]
<1>1. i \in DOMAIN ado /\ WorkItemType(ado, i)
  BY DEF OpType, AdoType
<1>2. /\ DOMAIN item = DOMAIN ado[i] /\ item.parent = ado[i].parent
      /\ item.effort = ado[i].effort /\ item.readable = ado[i].readable
      /\ item.assignee \in Member \cup {None}
      /\ item.start \in Int \cup {None} /\ item.target \in Int \cup {None}
  <2>1. CASE op.field = "state" /\ ado[i].column # None
    <3>1. PICK c : item = [ado[i] EXCEPT !.state = op.value, !.column = c]
      BY <2>1 DEF Written
    <3>. QED  BY <1>1, <3>1 DEF WorkItemType
  <2>2. CASE ~(op.field = "state" /\ ado[i].column # None)
    <3>1. item = Recorded(ado[i], op)
      BY <2>2 DEF Written
    <3>2. {"column", "state"} \subseteq DOMAIN ado[i] /\ OpFields \subseteq DOMAIN ado[i]
          /\ {"parent", "effort", "readable"} \subseteq DOMAIN ado[i] \ OpFields
          /\ ado[i].assignee \in Member \cup {None}
          /\ ado[i].start \in Int \cup {None} /\ ado[i].target \in Int \cup {None}
      BY <1>1 DEF WorkItemType, OpFields
    <3>3. /\ DOMAIN item = DOMAIN ado[i]
          /\ \A field \in DOMAIN ado[i] \ OpFields : item[field] = ado[i][field]
          /\ item.assignee = ado[i].assignee \/ item.assignee \in Member \cup {None}
          /\ \A field \in {"start", "target"} :
               item[field] = ado[i][field] \/ item[field] \in Int \cup {None}
      BY <3>1, <3>2, RecordedIs
    <3>. QED  BY <3>2, <3>3
  <2>. QED  BY <2>1, <2>2
<1>4. DOMAIN next = DOMAIN ado /\ next[i] = item /\ \A j \in DOMAIN ado \ {i} : next[j] = ado[j]
  BY <1>1
<1>. HIDE DEF next
<1>5. AdoType(next)
  BY <1>1, <1>2, <1>4 DEF AdoType, WorkItemType
<1>. QED  BY <1>5 DEF next

\* The store told of an answer, or of a poll.
LEMMA StoreOK ==
  ASSUME BoardInv, NEW next, TicketsOK(next), DOMAIN next = DOMAIN tickets, Store(next),
         UNCHANGED <<people, rendered>>
  PROVE  TicketsOK(next) /\ BoardOK(items', next) /\ BoardOK(rendered', next)
         /\ SameLevels(items', rendered') /\ tickets' = next
<1>1. BoardOK(items, tickets) /\ SameLevels(items, rendered) /\ BoardOK(rendered, tickets)
      /\ people \subseteq Member \cup {Unassigned}
  BY DEF BoardInv
<1>2. BoardOK(Reconcile(items, next, people, states), next)
      /\ SameLevels(Reconcile(items, next, people, states), items)
  BY <1>1, ReconcileOK DEF TicketsOK
<1>. QED  BY <1>1, <1>2 DEF Store, BoardOK, SameLevels

\* Answers, in a sequence.
LEMMA AnswersAppend ==
  ASSUME NEW ms, AnswersType(ms), NEW m, AnswerType(m)
  PROVE  AnswersType(Append(ms, m))
<1>1. PICK S : ms \in Seq(S)
  BY DEF AnswersType
<1>2. ms \in Seq(S \cup {m}) /\ Len(ms) \in Nat
  BY <1>1
<1>3. Append(ms, m) \in Seq(S \cup {m}) /\ Len(Append(ms, m)) = Len(ms) + 1
      /\ Append(ms, m)[Len(ms) + 1] = m
      /\ \A k \in 1 .. Len(ms) : Append(ms, m)[k] = ms[k]
  BY <1>2
<1>. QED  BY <1>2, <1>3 DEF AnswersType

LEMMA AnswersHeadTail ==
  ASSUME NEW ms, AnswersType(ms), ms # <<>>
  PROVE  AnswerType(Head(ms)) /\ AnswersType(Tail(ms))
<1>1. PICK S : ms \in Seq(S)
  BY DEF AnswersType
<1>2. /\ Tail(ms) \in Seq(S) /\ Len(Tail(ms)) = Len(ms) - 1 /\ Len(ms) \in Nat \ {0}
      /\ Head(ms) = ms[1]
      /\ \A k \in 1 .. Len(ms) - 1 : Tail(ms)[k] = ms[k + 1]
  BY <1>1
<1>. QED  BY <1>2 DEF AnswersType

LEMMA OpsPut ==
  ASSUME NEW ops, OpsType(ops), NEW op, OpType(op)
  PROVE  OpsType(Append(ops, op))
<1>1. PICK S : ops \in Seq(S)
  BY DEF OpsType
<1>2. Append(ops, op) = ops \o <<op>>
  BY <1>1
<1>. QED  BY <1>2, OpsOne, OpsAppend

\* Tickets with one that is replaced.
LEMMA OneTicketOK ==
  ASSUME NEW tks, TicketsOK(tks), NEW i, NEW t, i \in DOMAIN tks => TicketType(t)
  PROVE  TicketsOK([tks EXCEPT ![i] = t]) /\ DOMAIN [tks EXCEPT ![i] = t] = DOMAIN tks
BY DEF TicketsOK

LEMMA StatusOK ==
  ASSUME NEW t, TicketType(t), NEW status
  PROVE  TicketType([t EXCEPT !.status = status])
BY DEF TicketType, TicketFields

\* A step of the server that the board does not see.
LEMMA ServedOK ==
  ASSUME BoardInv, page # "none", AdoType(ado'), DOMAIN ado' = DOMAIN ado,
         UNCHANGED <<session, page, tickets, items, rendered, view, drag>>,
         DOMAIN resized' = DOMAIN resized,
         OpsType(sent'), OpsType(jobs'), OpsType(echoes'), TicketsOK(cache'),
         AnswersType(answers')
  PROVE  BoardInv'
<1>1. OpsType(sent)' /\ OpsType(jobs)' /\ OpsType(echoes)'
  BY DEF OpsType, OpType
<1>2. AnswersType(answers)'
  BY DEF AnswersType, AnswerType
<1>3. TicketsOK(cache)' /\ TicketsOK(tickets)' /\ BoardOK(items, tickets)'
      /\ BoardOK(rendered, tickets)' /\ SameLevels(items, rendered)'
  BY DEF BoardInv, TicketsOK, BoardOK, SameLevels
<1>4. ViewShape(view)' /\ page' # "none" /\ page' \in {"none", "open", "blank"}
      /\ (people \subseteq Member \cup {Unassigned})'
  BY DEF BoardInv, session, ViewShape, ViewType
<1>5. DragOK' /\ (DOMAIN resized = WorkItem)'
  BY DEF BoardInv, DragOK
<1>. QED  BY <1>1, <1>2, <1>3, <1>4, <1>5 DEF BoardInv, ServerOK, AdoType

\* A message, or a poll, that sets the store.
LEMMA StoredOK ==
  ASSUME BoardInv, page # "none", UNCHANGED <<project, session, page, rendered, view, drag>>,
         NEW next, TicketsOK(next), DOMAIN next = DOMAIN tickets, Store(next),
         UNCHANGED <<sent, jobs, resized>>,
         OpsType(echoes'), TicketsOK(cache'), AnswersType(answers')
  PROVE  BoardInv'
<1>1. UNCHANGED <<ado, people>>
  BY DEF project, session
<1>2. BoardOK(items', next) /\ BoardOK(rendered', next)
      /\ SameLevels(items', rendered') /\ tickets' = next
  BY <1>1, StoreOK
<1>3. OpsType(sent)' /\ OpsType(jobs)' /\ OpsType(echoes)' /\ AdoType(ado)'
  BY <1>1 DEF BoardInv, ServerOK, OpsType, OpType
<1>4. AnswersType(answers)'
  BY <1>1 DEF AnswersType, AnswerType
<1>5. TicketsOK(cache)' /\ TicketsOK(tickets)' /\ BoardOK(items, tickets)'
      /\ BoardOK(rendered, tickets)' /\ SameLevels(items, rendered)'
  BY <1>1, <1>2 DEF TicketsOK, BoardOK, SameLevels
<1>6. ViewShape(view)' /\ page' # "none" /\ page' \in {"none", "open", "blank"}
      /\ (people \subseteq Member \cup {Unassigned})'
  BY <1>1 DEF BoardInv, ViewShape, ViewType
<1>7. DragOK' /\ (DOMAIN resized = WorkItem)'
  BY DEF BoardInv, DragOK
<1>. QED  BY <1>3, <1>4, <1>5, <1>6, <1>7 DEF BoardInv, ServerOK

LEMMA HandleOK == BoardInv /\ Handle => BoardInv'
<1>. SUFFICES ASSUME BoardInv, Handle PROVE BoardInv'
  OBVIOUS
<1>. DEFINE op == Head(sent)
            t == Submit(cache[op.item], op.item, <<op>>)
<1>1. /\ sent # <<>> /\ sent' = Tail(sent) /\ op.item \in DOMAIN cache
      /\ cache' = [cache EXCEPT ![op.item] = t]
      /\ jobs' = Append(jobs, op) /\ echoes' = Append(echoes, op)
      /\ UNCHANGED <<ado, session, page, tickets, items, rendered, view, drag, answers, resized>>
  BY DEF Handle, project
<1>2. OpType(op) /\ OpsType(Tail(sent)) /\ OpsType(jobs) /\ OpsType(echoes)
      /\ TicketsOK(cache) /\ AnswersType(answers) /\ AdoType(ado)
  BY <1>1, OpsHeadTail DEF BoardInv, ServerOK
<1>. HIDE DEF op
<1>3. TicketType(t)
  BY <1>1, <1>2, SubmitOK, OpsOne DEF TicketsOK
<1>. HIDE DEF t
<1>4. TicketsOK(cache')
  BY <1>1, <1>2, <1>3, OneTicketOK
<1>5. OpsType(sent') /\ OpsType(jobs') /\ OpsType(echoes') /\ AnswersType(answers')
  BY <1>1, <1>2, OpsPut
<1>6. page # "none"
  BY <1>1 DEF BoardInv
<1>. QED  BY <1>1, <1>2, <1>4, <1>5, <1>6, ServedOK

LEMMA RejectOK == BoardInv /\ Reject => BoardInv'
<1>. SUFFICES ASSUME BoardInv, Reject PROVE BoardInv'
  OBVIOUS
<1>. DEFINE op == Head(sent)
            m == [item |-> op.item, ticket |-> None]
<1>1. /\ sent # <<>> /\ sent' = Tail(sent) /\ answers' = Append(answers, m)
      /\ UNCHANGED <<ado, session, page, tickets, items, rendered, view, drag, jobs, cache, echoes>>
      /\ DOMAIN resized' = DOMAIN resized
  BY DEF Reject, Lost, project
<1>2. OpType(op) /\ OpsType(Tail(sent)) /\ OpsType(jobs) /\ OpsType(echoes)
      /\ TicketsOK(cache) /\ AnswersType(answers) /\ AdoType(ado)
  BY <1>1, OpsHeadTail DEF BoardInv, ServerOK
<1>. HIDE DEF op
<1>3. AnswerType(m)
  BY <1>2 DEF AnswerType, OpType
<1>. HIDE DEF m
<1>4. OpsType(sent') /\ OpsType(jobs') /\ OpsType(echoes') /\ AnswersType(answers')
      /\ TicketsOK(cache')
  BY <1>1, <1>2, <1>3, AnswersAppend
<1>6. page # "none"
  BY <1>1 DEF BoardInv
<1>. QED  BY <1>1, <1>2, <1>4, <1>6, ServedOK

LEMMA WriteJobOK == BoardInv /\ WriteJob => BoardInv'
<1>. SUFFICES ASSUME BoardInv, WriteJob PROVE BoardInv'
  OBVIOUS
<1>. DEFINE op == Head(jobs)
            m == [item |-> op.item, ticket |-> None]
            t == [Recorded(cache[op.item], op) EXCEPT !.status = "synced"]
<1>0. PICK item \in Written(ado[op.item], op) : ado' = [ado EXCEPT ![op.item] = item]
  BY DEF WriteJob
<1>1. /\ jobs # <<>> /\ jobs' = Tail(jobs) /\ op.item \in DOMAIN cache
      /\ cache' = [cache EXCEPT ![op.item] = t]
      /\ answers' = Append(answers, m)
      /\ UNCHANGED <<session, page, tickets, items, rendered, view, drag, sent, echoes, resized>>
  BY DEF WriteJob, Accepted
<1>2. OpType(op) /\ OpsType(Tail(jobs)) /\ OpsType(sent) /\ OpsType(echoes)
      /\ TicketsOK(cache) /\ AnswersType(answers) /\ AdoType(ado)
  BY <1>1, OpsHeadTail DEF BoardInv, ServerOK
<1>. HIDE DEF op
<1>3. AdoType(ado') /\ DOMAIN ado' = DOMAIN ado
  BY <1>0, <1>2, WrittenIs
<1>4. TicketType(t)
  BY <1>1, <1>2, TicketRecorded DEF TicketsOK
<1>5. AnswerType(m)
  BY <1>2 DEF AnswerType, OpType
<1>. HIDE DEF m, t
<1>6. TicketsOK(cache)
  BY <1>2
<1>7. TicketsOK([cache EXCEPT ![op.item] = t])
  BY <1>4, <1>6, OneTicketOK
<1>8. OpsType(sent) /\ OpsType(jobs') /\ OpsType(echoes) /\ AnswersType(answers')
  BY <1>1, <1>2, <1>5, AnswersAppend
<1>9. UNCHANGED <<sent, echoes>> /\ TicketsOK(cache')
  BY <1>1, <1>7
<1>10. page # "none"
  BY <1>1 DEF BoardInv
<1>. QED  BY <1>1, <1>3, <1>8, <1>9, <1>10, ServedOK

LEMMA GiveUpOK == BoardInv /\ GiveUp => BoardInv'
<1>. SUFFICES ASSUME BoardInv, GiveUp PROVE BoardInv'
  OBVIOUS
<1>. DEFINE op == Head(jobs)
            i == op.item
            t == [cache[i] EXCEPT !.status = "error"]
            m == [item |-> i, ticket |-> t]
<1>1. /\ jobs # <<>> /\ jobs' = Tail(jobs)
      /\ UNCHANGED <<ado, session, page, tickets, items, rendered, view, drag, sent, echoes>>
      /\ DOMAIN resized' = DOMAIN resized
  BY DEF GiveUp, Lost, project
<1>2. OpType(op) /\ OpsType(Tail(jobs)) /\ OpsType(sent) /\ OpsType(echoes)
      /\ TicketsOK(cache) /\ AnswersType(answers) /\ AdoType(ado)
  BY <1>1, OpsHeadTail DEF BoardInv, ServerOK
<1>3. TicketsOK(cache') /\ AnswersType(answers')
  <2>1. CASE i \in DOMAIN cache
    <3>1. cache' = [cache EXCEPT ![i] = t] /\ answers' = Append(answers, [item |-> i, ticket |-> cache'[i]])
      BY <2>1 DEF GiveUp
    <3>2. cache'[i] = t /\ answers' = Append(answers, m)
      BY <2>1, <3>1
    <3>3. TicketType(t)
      BY <1>2, <2>1, StatusOK DEF TicketsOK
    <3>4. AnswerType(m)
      BY <1>2, <3>3 DEF AnswerType, OpType
    <3>. HIDE DEF i, t, m
    <3>5. AnswersType(Append(answers, m))
      BY <1>2, <3>4, AnswersAppend
    <3>6. TicketsOK([cache EXCEPT ![i] = t])
      BY <1>2, <3>3, OneTicketOK
    <3>. QED  BY <3>1, <3>2, <3>5, <3>6
  <2>2. CASE i \notin DOMAIN cache
    BY <1>2, <2>2 DEF GiveUp
  <2>. QED  BY <2>1, <2>2
<1>. HIDE DEF op, i
<1>4. OpsType(sent') /\ OpsType(jobs') /\ OpsType(echoes') /\ AdoType(ado') /\ DOMAIN ado' = DOMAIN ado
  BY <1>1, <1>2
<1>6. page # "none"
  BY <1>1 DEF BoardInv
<1>. QED  BY <1>1, <1>3, <1>4, <1>6, ServedOK

LEMMA EchoOK == BoardInv /\ Echo => BoardInv'
<1>. SUFFICES ASSUME BoardInv, Echo PROVE BoardInv'
  OBVIOUS
<1>. DEFINE op == Head(echoes)
            t == Submit(tickets[op.item], op.item, <<op>>)
            next == [tickets EXCEPT ![op.item] = t]
<1>1. /\ echoes # <<>> /\ echoes' = Tail(echoes) /\ Store(next)
      /\ UNCHANGED <<project, session, page, rendered, view, drag, sent, jobs, cache, answers, resized>>
  BY DEF Echo
<1>2. OpType(op) /\ OpsType(Tail(echoes)) /\ TicketsOK(tickets) /\ TicketsOK(cache)
      /\ AnswersType(answers)
  BY <1>1, OpsHeadTail DEF BoardInv, ServerOK
<1>. HIDE DEF op
<1>3. op.item \in DOMAIN tickets => TicketType(t)
  BY <1>2, SubmitOK, OpsOne DEF TicketsOK
<1>. HIDE DEF t
<1>4. TicketsOK(next) /\ DOMAIN next = DOMAIN tickets
  BY <1>2, <1>3, OneTicketOK
<1>. HIDE DEF next
<1>5. OpsType(echoes') /\ TicketsOK(cache') /\ AnswersType(answers')
  BY <1>1, <1>2
<1>6. page # "none"
  BY <1>1 DEF BoardInv
<1>. QED  BY <1>1, <1>4, <1>5, <1>6, StoredOK

LEMMA AnswerOK == BoardInv /\ Answer => BoardInv'
<1>. SUFFICES ASSUME BoardInv, Answer PROVE BoardInv'
  OBVIOUS
<1>. DEFINE m == Head(answers)
            t == IF m.ticket = None THEN [tickets[m.item] EXCEPT !.status = "synced"]
                 ELSE m.ticket
            next == [tickets EXCEPT ![m.item] = t]
<1>1. /\ answers # <<>> /\ answers' = Tail(answers) /\ Store(next)
      /\ UNCHANGED <<project, session, page, rendered, view, drag, sent, jobs, cache, echoes, resized>>
  BY DEF Answer
<1>2. AnswerType(m) /\ AnswersType(Tail(answers)) /\ TicketsOK(tickets) /\ TicketsOK(cache)
      /\ OpsType(echoes)
  BY <1>1, AnswersHeadTail DEF BoardInv, ServerOK
<1>. HIDE DEF m
<1>3. m.item \in DOMAIN tickets => TicketType(t)
  BY <1>2, StatusOK DEF TicketsOK, AnswerType
<1>. HIDE DEF t
<1>4. TicketsOK(next) /\ DOMAIN next = DOMAIN tickets
  BY <1>2, <1>3, OneTicketOK
<1>. HIDE DEF next
<1>5. OpsType(echoes') /\ TicketsOK(cache') /\ AnswersType(answers')
  BY <1>1, <1>2
<1>6. page # "none"
  BY <1>1 DEF BoardInv
<1>. QED  BY <1>1, <1>4, <1>5, <1>6, StoredOK

LEMMA ServeOK == BoardInv /\ Serve => BoardInv'
BY HandleOK, RejectOK, WriteJobOK, GiveUpOK, EchoOK, AnswerOK DEF Serve

\* What a poll leaves in the store.
LEMMA RefreshedOK ==
  ASSUME BoardInv
  PROVE  LET next == Refreshed(SyncTickets(ado))
         IN  TicketsOK(next) /\ DOMAIN next = DOMAIN tickets
<1>1. AdoType(ado) /\ TicketsOK(tickets)
  BY DEF BoardInv
<1>2. \A i \in DOMAIN SyncTickets(ado) : TicketType(SyncTickets(ado)[i])
  BY <1>1, SyncedAre, TicketIs
<1>. QED  BY <1>1, <1>2 DEF Refreshed, TicketsOK

LEMMA PollOK == BoardInv /\ Poll => BoardInv'
<1>. SUFFICES ASSUME BoardInv, Poll PROVE BoardInv'
  OBVIOUS
<1>. DEFINE fresh == SyncTickets(ado)
            next == Refreshed(fresh)
<1>1. /\ Store(next) /\ cache' = fresh /\ page # "none"
      /\ UNCHANGED <<project, session, page, rendered, view, drag, sent, jobs, echoes, answers, resized>>
  BY DEF Poll
<1>2. TicketsOK(next) /\ DOMAIN next = DOMAIN tickets
  BY RefreshedOK
<1>3. TicketsOK(fresh)
  BY SyncedAre, TicketIs DEF BoardInv, TicketsOK
<1>. HIDE DEF fresh, next
<1>4. OpsType(echoes') /\ TicketsOK(cache') /\ AnswersType(answers')
  BY <1>1, <1>3 DEF BoardInv, ServerOK
<1>. QED  BY <1>1, <1>2, <1>4, StoredOK

LEMMA OutsideEditsOK == BoardInv /\ OutsideEdits => BoardInv'
<1>. SUFFICES ASSUME BoardInv, OutsideEdits PROVE BoardInv'
  OBVIOUS
<1>0. \E i \in DOMAIN ado, field \in {"path", "assignee"} : \E value :
        Outside(i, field, value) /\ (field = "assignee" => value \in Member \cup {None})
  BY DEF OutsideEdits
<1>1. PICK i \in DOMAIN ado, field \in {"path", "assignee"} : \E value :
        Outside(i, field, value) /\ (field = "assignee" => value \in Member \cup {None})
  BY <1>0
<1>. PICK value : Outside(i, field, value) /\ (field = "assignee" => value \in Member \cup {None})
  BY <1>1
<1>2. /\ ado' = [ado EXCEPT ![i][field] = value] /\ page = "open"
      /\ UNCHANGED <<session, page, tickets, items, rendered, view, drag, sent, server, resized>>
  BY DEF Outside
<1>3. i \in DOMAIN ado /\ WorkItemType(ado, i) /\ AdoType(ado)
  BY DEF BoardInv, AdoType
<1>4. DOMAIN ado' = DOMAIN ado /\ ado'[i] = [ado[i] EXCEPT ![field] = value]
      /\ \A j \in DOMAIN ado \ {i} : ado'[j] = ado[j]
  BY <1>2, <1>3
<1>5. /\ DOMAIN ado'[i] = DOMAIN ado[i] /\ ado'[i].parent = ado[i].parent
      /\ ado'[i].effort = ado[i].effort /\ ado'[i].readable = ado[i].readable
      /\ ado'[i].start = ado[i].start /\ ado'[i].target = ado[i].target
      /\ ado'[i].assignee \in Member \cup {None}
  BY <1>1, <1>3, <1>4 DEF WorkItemType
<1>6. AdoType(ado')
  <2>1. WorkItemType(ado', i)
    BY <1>3, <1>4, <1>5 DEF WorkItemType
  <2>2. ASSUME NEW j \in DOMAIN ado \ {i} PROVE WorkItemType(ado', j)
    BY <1>3, <1>4 DEF AdoType, WorkItemType
  <2>. QED  BY <1>3, <1>4, <2>1, <2>2 DEF AdoType
<1>7. OpsType(sent) /\ OpsType(jobs) /\ OpsType(echoes) /\ TicketsOK(cache) /\ AnswersType(answers)
      /\ UNCHANGED <<sent, jobs, echoes, cache, answers>>
  BY <1>2 DEF BoardInv, ServerOK, server
<1>. QED  BY <1>2, <1>4, <1>6, <1>7, ServedOK

LEMMA StutterOK == BoardInv /\ UNCHANGED vars => BoardInv'
<1>. SUFFICES ASSUME BoardInv, UNCHANGED vars PROVE BoardInv'
  OBVIOUS
<1>1. UNCHANGED <<ado, page, people, tickets, items, rendered, view, drag, sent, jobs, echoes,
                  answers, resized>>
  BY DEF vars, server
<1>2. ServerOK'
  BY ServerKept DEF BoardInv, vars
<1>. QED
  BY <1>1, <1>2 DEF BoardInv, AdoType, TicketsOK, BoardOK, SameLevels, ViewShape, ViewType,
                    OpsType, OpType, DragOK

LEMMA BoardInvInductive == BoardInv /\ [Next]_vars => BoardInv'
<1>. SUFFICES ASSUME BoardInv, [Next]_vars PROVE BoardInv'
  OBVIOUS
<1>1. ASSUME Drops PROVE BoardInv'
  <2>1. page = "open" /\ \A delta \in -NITER .. NITER : delta \in Int
    BY <1>1 DEF Drops
  <2>. QED  BY <1>1, <2>1, DropOK, StretchOK, DropBarOK DEF Drops
<1>2. ASSUME NEW i \in DOMAIN rendered, NEW mode \in {"move", "resize"}, StartDrag(i, mode)
      PROVE  BoardInv'
  BY <1>2, StartDragOK
<1>3. ASSUME NEW f \in DOMAIN rendered, NEW side \in Sides, StartEpicResize(f, side)
      PROVE  BoardInv'
  BY <1>3, StartEpicResizeOK
<1>4. Load \/ Render \/ Looks \/ SetFields \/ Serve \/ Poll \/ OutsideEdits \/ UNCHANGED vars
        => BoardInv'
  BY LoadOK, RenderOK, LooksOK, SetFieldsOK, ServeOK, PollOK, OutsideEditsOK, StutterOK
<1>. QED  BY <1>1, <1>2, <1>3, <1>4 DEF Next

LEMMA BoardInvAlways == Spec => []BoardInv
BY InitOK, BoardInvInductive, PTL DEF Spec

\* The board keeps to the tickets of its store, whatever Azure DevOps holds and in whatever
\* order gestures, renders, answers and polls come: items of the three functions are the
\* same, each has a person, a sprint and dates of their kind, and the view its ranges in order.
THEOREM BoardTyped == Spec => []BoardTypeOK
<1>1. BoardInv => BoardTypeOK
  BY DEF BoardInv, BoardTypeOK, BoardOK, ItemShape, ViewShape
<1>. QED  BY <1>1, BoardInvAlways, PTL

\* The rows of the tree have a range on the grid, or none.
LEMMA RowsOnGrid ==
  ASSUME BoardInv, NEW n \in Nodes(rendered)
  PROVE  EpicRange(rendered, n) \in Ranges \cup {None}
<1>0. \A i \in DOMAIN rendered : ItemShape(rendered[i])
  BY DEF BoardInv, BoardOK
<1>1. CASE n.epic # NoEpic /\ Dated(rendered[n.epic])
  <2>1. n.epic \in DOMAIN rendered
    BY <1>1 DEF Nodes, Of
  <2>2. rendered[n.epic].dates \in Int \X Int
    BY <1>0, <1>1, <2>1, DatedIs
  <2>. QED  BY <1>1, <2>2, DatesStayOnGrid DEF EpicRange
<1>2. CASE ~(n.epic # NoEpic /\ Dated(rendered[n.epic]))
  BY <1>2, DerivedIs DEF EpicRange
<1>. QED  BY <1>1, <1>2

\* epicRange, onUp: on any board that is reached, bars have their ends on the grid and in
\* order, and so has the range of a feature being dragged.
THEOREM BarsOnGrid == Spec => []BarsStayOnGrid
<1>1. ASSUME BoardInv PROVE BarsStayOnGrid
  <2>1. \A i \in DOMAIN rendered : ItemShape(rendered[i])
    BY <1>1 DEF BoardInv, BoardOK
  <2>2. drag.mode = "epic" /\ drag.item \in Of(rendered, "feature") => drag.range \in Ranges
    <3>1. NoDrag.mode = "none"
      BY DEF NoDrag
    <3>. QED  BY <1>1, <3>1 DEF BoardInv, DragOK, Of
  <2>3. \A n \in Nodes(rendered) : EpicRange(rendered, n) \in Ranges \cup {None}
    BY <1>1, RowsOnGrid
  <2>4. \A f \in Of(rendered, "feature") :
          FeatRange(rendered, f) \in Ranges \cup {<<BACKLOG, BACKLOG>>}
    BY <2>1, FeatRangeIs DEF Of
  <2>. QED  BY <2>2, <2>3, <2>4 DEF BarsStayOnGrid
<1>. QED  BY <1>1, BoardInvAlways, PTL

-----------------------------------------------------------------------------
(* The epics of the tickets *)

\* Until the user does something, the store holds what the session was synced with: no
\* operation is there to be settled, and a poll reads the same.
OpenedInv ==
  /\ gestures \in Nat /\ mishaps \in Nat
  /\ gestures = 0 => /\ drag = NoDrag
                     /\ sent = <<>> /\ jobs = <<>> /\ echoes = <<>> /\ answers = <<>>
  /\ page = "open" /\ gestures = 0 /\ mishaps = 0 => tickets = SyncTickets(ado)

LEMMA PollReadsTheSame ==
  ASSUME tickets = SyncTickets(ado)
  PROVE  Refreshed(SyncTickets(ado)) = SyncTickets(ado)
<1>1. SyncTickets(ado) = [i \in DOMAIN SyncTickets(ado) |-> SyncTickets(ado)[i]]
  BY DEF SyncTickets
<1>. QED  BY <1>1 DEF Refreshed

LEMMA OpenedInvInductive == OpenedInv /\ [Next]_vars => OpenedInv'
<1>. SUFFICES ASSUME OpenedInv, [Next]_vars PROVE OpenedInv'
  OBVIOUS
<1>0. gestures \in Nat /\ mishaps \in Nat /\ NoDrag.mode = "none"
  BY DEF OpenedInv, NoDrag
<1>1. ASSUME Gesture, UNCHANGED mishaps PROVE OpenedInv'
  BY <1>0, <1>1 DEF OpenedInv, Gesture
<1>2. CASE Load
  BY <1>2 DEF OpenedInv, Load, project
<1>3. CASE Render
  BY <1>3 DEF OpenedInv, Render, project, server
<1>4. CASE Looks
  <2>1. \A next : Look(next) => OpenedInv'
    BY <1>1 DEF Look
  <2>. QED
    BY <1>4, <2>1 DEF Looks, ShowBoard, ShowLevel, FilterEpics, ToggleClosed, ToggleBacklog,
                      ToggleRowHidden, TogglePerson, RangeFrom, RangeTo, MetricsFrom, MetricsTo
<1>5. CASE SetFields
  <2>1. \A i, field, value : SetField(i, field, value) => OpenedInv'
    BY <1>1 DEF SetField
  <2>. QED  BY <1>5, <2>1 DEF SetFields
<1>6. ASSUME NEW i, NEW mode, StartDrag(i, mode) PROVE OpenedInv'
  BY <1>1, <1>6 DEF StartDrag
<1>7. ASSUME NEW f, NEW side, StartEpicResize(f, side) PROVE OpenedInv'
  BY <1>1, <1>7 DEF StartEpicResize
<1>8. CASE Drops
  <2>1. ASSUME drag # NoDrag, UNCHANGED <<gestures, mishaps>> PROVE OpenedInv'
    BY <2>1 DEF OpenedInv
  <2>2. ASSUME NEW row, NEW column, Drop(row, column) PROVE OpenedInv'
    BY <1>0, <2>1, <2>2 DEF Drop
  <2>3. ASSUME NEW span, Stretch(span) PROVE OpenedInv'
    BY <1>0, <2>1, <2>3 DEF Stretch
  <2>4. ASSUME NEW delta, DropBar(delta) PROVE OpenedInv'
    BY <1>0, <2>1, <2>4 DEF DropBar
  <2>. QED  BY <1>8, <2>2, <2>3, <2>4 DEF Drops
<1>9. CASE Serve
  <2>1. gestures # 0
    BY <1>9 DEF OpenedInv, Serve, Handle, Reject, WriteJob, GiveUp, Echo, Answer
  <2>2. UNCHANGED gestures /\ mishaps' \in Nat
    BY <1>0, <1>9 DEF Serve, Handle, Reject, WriteJob, GiveUp, Echo, Answer, Lost, Mishap
  <2>. QED  BY <1>0, <2>1, <2>2 DEF OpenedInv
<1>10. CASE Poll
  <2>1. /\ tickets' = Refreshed(SyncTickets(ado))
        /\ UNCHANGED <<project, page, drag, sent, jobs, echoes, answers, gestures, mishaps>>
    BY <1>10 DEF Poll, Store
  <2>. QED  BY <2>1, PollReadsTheSame DEF OpenedInv, project
<1>11. CASE OutsideEdits
  <2>1. ASSUME NEW i, NEW field, NEW value, Outside(i, field, value) PROVE OpenedInv'
    BY <1>0, <2>1 DEF OpenedInv, Outside, Mishap, server
  <2>. QED  BY <1>11, <2>1 DEF OutsideEdits
<1>12. CASE UNCHANGED vars
  BY <1>12 DEF OpenedInv, vars, server
<1>. QED  BY <1>2, <1>3, <1>4, <1>5, <1>6, <1>7, <1>8, <1>9, <1>10, <1>11, <1>12 DEF Next

LEMMA NearestIsChain ==
  ASSUME NEW i, NEW e
  PROVE  IsNearestEpic(i, e)
           <=> \E k \in 1 .. MaxLevels : \E chain : ChainTo(ado, i, e, k, chain)
BY DEF IsNearestEpic, ChainTo

\* What a sync reads of a work item of its query.
LEMMA SyncedEpicIs ==
  ASSUME NEW p, Linked(p), NEW i \in QueryWorkItemIds(p)
  PROVE  LET batch == GetWorkItemsBatch(p, QueryWorkItemIds(p))
         IN  i \in batch /\ SyncTickets(p)[i].epic = Climb(p, Fetched(p, batch), i)
<1>. DEFINE batch == GetWorkItemsBatch(p, QueryWorkItemIds(p))
            epic  == ResolveEpics(p, batch)
            above == GetWorkItemsBatch(p, {epic[j] : j \in batch} \ (batch \cup {None}))
            epicOf(j) == IF j \in batch THEN epic[j] ELSE None
<1>1. SyncTickets(p) = [j \in batch \cup above |-> ToTicket(p, j, epicOf(j))]
  BY DEF SyncTickets
<1>2. i \in batch
  BY DEF GetWorkItemsBatch, QueryWorkItemIds
<1>. HIDE DEF batch, above
<1>3. SyncTickets(p)[i] = ToTicket(p, i, ResolveEpics(p, batch)[i])
  BY <1>1, <1>2
<1>4. SyncTickets(p)[i].epic = ResolveEpics(p, batch)[i]
  BY <1>3 DEF ToTicket
<1>5. batch \in SUBSET Readable(p)
  BY BatchReadable DEF batch
<1>6. ResolveEpics(p, batch)[i] = Climb(p, Fetched(p, batch), i)
  BY <1>2, <1>5, ResolvedIs
<1>. QED  BY <1>2, <1>4, <1>6 DEF batch

\* resolveEpics: whatever the depth of the parents, the cap of the climb and the work items
\* the user may not read, a ticket of the session has the nearest epic above it, and none
\* only when there is none to be read.
THEOREM EpicsNearest == Spec => []EpicsAreNearest
<1>1. Init => OpenedInv
  BY DEF Init, OpenedInv
<1>2. ASSUME BoardInv, OpenedInv PROVE EpicsAreNearest
  <2>. SUFFICES ASSUME page = "open", gestures = 0, mishaps = 0,
                       NEW i \in QueryWorkItemIds(ado) \cap DOMAIN tickets
                PROVE  IF tickets[i].epic = None THEN \A e \in DOMAIN ado : ~IsNearestEpic(i, e)
                                                 ELSE IsNearestEpic(i, tickets[i].epic)
    BY DEF EpicsAreNearest
  <2>. DEFINE batch == GetWorkItemsBatch(ado, QueryWorkItemIds(ado))
              nodes == Fetched(ado, batch)
  <2>1. tickets = SyncTickets(ado)
    BY <1>2 DEF OpenedInv
  <2>2. Linked(ado) /\ batch \in SUBSET Readable(ado)
    BY <1>2, AdoLinked, BatchReadable DEF BoardInv
  <2>3. i \in batch /\ tickets[i].epic = Climb(ado, nodes, i)
    BY <2>1, <2>2, SyncedEpicIs
  <2>. HIDE DEF batch
  <2>4. nodes \in SUBSET Readable(ado) /\ i \in DOMAIN ado
    BY <2>2, <2>3, FetchedType DEF Readable
  <2>5. CASE tickets[i].epic = None
    <3>1. ASSUME NEW e \in DOMAIN ado, NEW k \in 1 .. MaxLevels, NEW chain,
                 ChainTo(ado, i, e, k, chain)
          PROVE  FALSE
      BY <2>2, <2>3, <2>5, <3>1, ClimbMissesNone
    <3>. QED  BY <2>5, <3>1, NearestIsChain
  <2>6. CASE tickets[i].epic # None
    BY <2>2, <2>3, <2>4, <2>6, ClimbFinds, NearestIsChain
  <2>. QED  BY <2>5, <2>6
<1>. QED  BY <1>1, <1>2, OpenedInvInductive, BoardInvAlways, PTL DEF Spec

-----------------------------------------------------------------------------
(* The dates of a bar that was dropped *)

\* The operations on a field of an item; what the field is once they are all written,
\* being `now' before.
Own(ops, f, field) == {k \in 1 .. Len(ops) : ops[k].item = f /\ ops[k].field = field}

Ends(ops, now, f, field, value) ==
  /\ Own(ops, f, field) = {} => now = value
  /\ \A k \in Own(ops, f, field) :
       (\A j \in Own(ops, f, field) : j <= k) => ops[k].value = value

\* What it is once the jobs are written, then the operations that are not jobs yet.
Due(first, last, now, f, field, value) ==
  \E mid : Ends(first, now, f, field, mid) /\ Ends(last, mid, f, field, value)

\* The dates of a range are written or about to be, unless an operation of the item is lost.
DatesKept ==
  \A f \in DOMAIN ado :
    resized[f] \in Ranges =>
      /\ Due(jobs, sent, ado[f].start, f, "start", RangeDates(resized[f])[1])
      /\ Due(jobs, sent, ado[f].target, f, "target", RangeDates(resized[f])[2])

\* There is always something a field ends as.
LEMMA EndsSome ==
  ASSUME NEW ops, NEW now, NEW f, NEW field
  PROVE  \E mid : Ends(ops, now, f, field, mid)
<1>1. Own(ops, f, field) \subseteq Int
  BY DEF Own
<1>2. CASE \E k \in Own(ops, f, field) : \A j \in Own(ops, f, field) : j <= k
  <2>1. PICK k \in Own(ops, f, field) : \A j \in Own(ops, f, field) : j <= k
    BY <1>2
  <2>2. \A j \in Own(ops, f, field) : (\A n \in Own(ops, f, field) : n <= j) => j = k
    BY <1>1, <2>1
  <2>3. Ends(ops, now, f, field, ops[k].value)
    BY <2>1, <2>2 DEF Ends
  <2>. QED  BY <2>3
<1>3. CASE ~\E k \in Own(ops, f, field) : \A j \in Own(ops, f, field) : j <= k
  <2>1. Ends(ops, now, f, field, now)
    BY <1>3 DEF Ends
  <2>. QED  BY <2>1
<1>. QED  BY <1>2, <1>3

LEMMA OwnAppend ==
  ASSUME NEW a, NEW b, OpsType(a), OpsType(b), NEW f, NEW field
  PROVE  /\ Len(a) \in Nat /\ Len(b) \in Nat /\ Len(a \o b) = Len(a) + Len(b)
         /\ \A k \in 1 .. Len(a) : (a \o b)[k] = a[k]
                                   /\ (k \in Own(a \o b, f, field) <=> k \in Own(a, f, field))
         /\ \A k \in 1 .. Len(b) : (a \o b)[Len(a) + k] = b[k]
              /\ (Len(a) + k \in Own(a \o b, f, field) <=> k \in Own(b, f, field))
         /\ \A k \in Own(a \o b, f, field) :
              k \in 1 .. Len(a) \/ \E j \in 1 .. Len(b) : k = Len(a) + j
<1>1. PICK S : a \in Seq(S)
  BY DEF OpsType
<1>2. PICK T : b \in Seq(T)
  BY DEF OpsType
<1>3. a \in Seq(S \cup T) /\ b \in Seq(S \cup T)
  BY <1>1, <1>2
<1>4. /\ Len(a) \in Nat /\ Len(b) \in Nat /\ Len(a \o b) = Len(a) + Len(b)
      /\ \A k \in 1 .. Len(a) : (a \o b)[k] = a[k]
  BY <1>3
<1>5. ASSUME NEW k \in 1 .. Len(b) PROVE (a \o b)[Len(a) + k] = b[k]
  <2>1. Len(a) + k \in 1 .. Len(a \o b) /\ ~(Len(a) + k <= Len(a)) /\ (Len(a) + k) - Len(a) = k
    BY <1>4
  <2>. QED  BY <1>3, <2>1
<1>6. \A k \in 1 .. Len(a) + Len(b) : k \in 1 .. Len(a) \/ \E j \in 1 .. Len(b) : k = Len(a) + j
  <2>. TAKE k \in 1 .. Len(a) + Len(b)
  <2>1. k \notin 1 .. Len(a) => k - Len(a) \in 1 .. Len(b) /\ k = Len(a) + (k - Len(a))
    BY <1>4
  <2>. QED  BY <2>1
<1>7. \A k \in 1 .. Len(a) : k \in 1 .. Len(a \o b)
  BY <1>4
<1>8. \A k \in 1 .. Len(b) : Len(a) + k \in 1 .. Len(a \o b)
  BY <1>4
<1>. QED  BY <1>4, <1>5, <1>6, <1>7, <1>8 DEF Own

\* Operations on others are added.
LEMMA EndsOther ==
  ASSUME NEW a, NEW b, OpsType(a), OpsType(b), NEW now, NEW f, NEW field, NEW value,
         Ends(a, now, f, field, value), Own(b, f, field) = {}
  PROVE  Ends(a \o b, now, f, field, value) /\ Own(a \o b, f, field) = Own(a, f, field)
<1>1. Own(a \o b, f, field) = Own(a, f, field)
  <2>1. \A k \in Own(a \o b, f, field) : k \in Own(a, f, field)
    BY OwnAppend
  <2>2. \A k \in Own(a, f, field) : k \in Own(a \o b, f, field)
    BY OwnAppend DEF Own
  <2>. QED  BY <2>1, <2>2
<1>2. \A k \in Own(a, f, field) : (a \o b)[k] = a[k]
  BY OwnAppend DEF Own
<1>. QED  BY <1>1, <1>2 DEF Ends

\* Operations added on the field itself are the last ones.
LEMMA EndsLast ==
  ASSUME NEW a, NEW b, OpsType(a), OpsType(b), NEW now, NEW old, NEW f, NEW field, NEW value,
         Ends(b, now, f, field, value), Own(b, f, field) # {}
  PROVE  Ends(a \o b, old, f, field, value) /\ Own(a \o b, f, field) # {}
<1>1. PICK last \in Own(b, f, field) : TRUE
  OBVIOUS
<1>2. last \in 1 .. Len(b) /\ Len(a) + last \in Own(a \o b, f, field)
  BY <1>1, OwnAppend DEF Own
<1>3. ASSUME NEW k \in Own(a \o b, f, field), \A j \in Own(a \o b, f, field) : j <= k
      PROVE  (a \o b)[k] .value = value
  <2>1. k \notin 1 .. Len(a)
    BY <1>2, <1>3, OwnAppend
  <2>2. PICK j \in 1 .. Len(b) : k = Len(a) + j
    BY <2>1, OwnAppend
  <2>3. j \in Own(b, f, field) /\ (a \o b)[k] = b[j]
    BY <2>2, OwnAppend
  <2>4. ASSUME NEW i \in Own(b, f, field) PROVE i <= j
    <3>1. i \in 1 .. Len(b) /\ Len(a) + i \in Own(a \o b, f, field)
      BY OwnAppend DEF Own
    <3>. QED  BY <1>3, <2>2, <3>1, OwnAppend
  <2>. QED  BY <2>3, <2>4 DEF Ends
<1>. QED  BY <1>2, <1>3 DEF Ends

\* The oldest operation is written.
LEMMA EndsTail ==
  ASSUME NEW ops, OpsType(ops), ops # <<>>, NEW now, NEW next, NEW f, NEW field, NEW value,
         Ends(ops, now, f, field, value),
         next = IF Head(ops).item = f /\ Head(ops).field = field THEN Head(ops).value ELSE now
  PROVE  Ends(Tail(ops), next, f, field, value)
<1>1. PICK S : ops \in Seq(S)
  BY DEF OpsType
<1>2. /\ Len(ops) \in Nat \ {0} /\ Head(ops) = ops[1] /\ Len(Tail(ops)) = Len(ops) - 1
      /\ \A k \in 1 .. Len(ops) - 1 : Tail(ops)[k] = ops[k + 1]
  BY <1>1
<1>. DEFINE own == Own(ops, f, field)
            rest == Own(Tail(ops), f, field)
<1>3. \A k \in 1 .. Len(ops) - 1 : k \in rest <=> k + 1 \in own
  <2>1. \A k \in 1 .. Len(ops) - 1 : k + 1 \in 1 .. Len(ops)
    BY <1>2
  <2>. QED  BY <1>2, <2>1 DEF Own
<1>4. rest \subseteq 1 .. Len(ops) - 1 /\ own \subseteq 1 .. Len(ops)
  BY <1>2 DEF Own
<1>5. 1 \in own <=> Head(ops).item = f /\ Head(ops).field = field
  BY <1>2 DEF Own
<1>6. \A k \in own : k = 1 \/ (k - 1 \in rest /\ (k - 1) + 1 = k)
  <2>1. \A k \in 1 .. Len(ops) : k = 1 \/ (k - 1 \in 1 .. Len(ops) - 1 /\ (k - 1) + 1 = k)
    BY <1>2
  <2>. QED  BY <1>3, <1>4, <2>1
<1>. HIDE DEF own, rest
<1>7. /\ own = {} => now = value
      /\ \A k \in own : (\A j \in own : j <= k) => ops[k].value = value
  BY DEF Ends, own
<1>8. ASSUME rest = {} PROVE next = value
  <2>1. CASE 1 \in own
    <3>1. \A j \in own : j <= 1
      BY <1>6, <1>8
    <3>. QED  BY <1>2, <1>5, <1>7, <2>1, <3>1
  <2>2. CASE 1 \notin own
    BY <1>5, <1>6, <1>7, <1>8, <2>2
  <2>. QED  BY <2>1, <2>2
<1>9. ASSUME NEW k \in rest, \A j \in rest : j <= k PROVE Tail(ops)[k].value = value
  <2>1. k \in 1 .. Len(ops) - 1 /\ k + 1 \in own /\ Tail(ops)[k] = ops[k + 1]
    BY <1>2, <1>3, <1>4
  <2>2. ASSUME NEW j \in own PROVE j <= k + 1
    <3>1. j \in 1 .. Len(ops)
      BY <1>4
    <3>2. CASE j = 1
      BY <2>1, <3>2
    <3>3. CASE j # 1
      <4>1. j - 1 \in rest
        BY <1>6, <3>3
      <4>. QED  BY <1>9, <2>1, <3>1, <4>1
    <3>. QED  BY <3>2, <3>3
  <2>. QED  BY <1>7, <2>1, <2>2
<1>. QED  BY <1>8, <1>9 DEF Ends, rest

\* Operations that leave the dates of items alone.
Dateless(ops) == \A k \in 1 .. Len(ops) : ops[k].field \notin {"start", "target"}

LEMMA DatelessOwn ==
  ASSUME NEW ops, Dateless(ops), NEW f, NEW field \in {"start", "target"}
  PROVE  Own(ops, f, field) = {}
BY DEF Dateless, Own

LEMMA DatelessAppend ==
  ASSUME NEW a, NEW b, OpsType(a), OpsType(b), Dateless(a), Dateless(b)
  PROVE  Dateless(a \o b)
<1>. SUFFICES ASSUME NEW k \in 1 .. Len(a \o b)
              PROVE  (a \o b)[k].field \notin {"start", "target"}
  BY DEF Dateless
<1>1. Len(a) \in Nat /\ Len(b) \in Nat /\ Len(a \o b) = Len(a) + Len(b)
  BY OwnAppend
<1>2. CASE k \in 1 .. Len(a)
  BY <1>2, OwnAppend DEF Dateless
<1>3. CASE k \notin 1 .. Len(a)
  <2>1. k - Len(a) \in 1 .. Len(b) /\ k = Len(a) + (k - Len(a))
    BY <1>1, <1>3
  <2>. QED  BY <2>1, OwnAppend DEF Dateless
<1>. QED  BY <1>2, <1>3

LEMMA OpsOfDateless ==
  ASSUME NEW i, NEW field \in {"iter", "person", "state"}, NEW value
  PROVE  Dateless(OpsOf(i, field, value))
<1>1. \A op : op.field \notin {"start", "target"} => Dateless(<<op>>)
  BY DEF Dateless
<1>2. Dateless(<<>>)
  BY DEF Dateless
<1>. QED  BY <1>1, <1>2, OpsOfIs

\* A gesture about other fields.
LEMMA DatelessKeeps ==
  ASSUME BoardInv, DatesKept, NEW ops, OpsType(ops), Dateless(ops), sent' = sent \o ops,
         UNCHANGED <<ado, resized, jobs>>
  PROVE  DatesKept'
<1>1. OpsType(sent)
  BY DEF BoardInv
<1>2. ASSUME NEW f, NEW field \in {"start", "target"}, NEW now, NEW value,
             Due(jobs, sent, now, f, field, value)
      PROVE  Due(jobs, sent \o ops, now, f, field, value)
  <2>1. PICK mid : Ends(jobs, now, f, field, mid) /\ Ends(sent, mid, f, field, value)
    BY <1>2 DEF Due
  <2>2. Ends(sent \o ops, mid, f, field, value)
    BY <1>1, <2>1, DatelessOwn, EndsOther
  <2>. QED  BY <2>1, <2>2 DEF Due
<1>3. \A f \in DOMAIN ado : resized[f] \in Ranges =>
        /\ Due(jobs, sent \o ops, ado[f].start, f, "start", RangeDates(resized[f])[1])
        /\ Due(jobs, sent \o ops, ado[f].target, f, "target", RangeDates(resized[f])[2])
  BY <1>2 DEF DatesKept
<1>. QED  BY <1>3 DEF DatesKept

LEMMA SetFieldsKeep == BoardInv /\ DatesKept /\ SetFields => DatesKept'
<1>. SUFFICES ASSUME BoardInv, DatesKept, SetFields PROVE DatesKept'
  OBVIOUS
<1>1. ASSUME NEW i \in DOMAIN rendered, NEW field \in {"iter", "person", "state"}, NEW value,
             field = "person" => value \in Member \cup {Unassigned}, SetField(i, field, value)
      PROVE  DatesKept'
  <2>. DEFINE ops == OpsOf(i, field, value)
  <2>1. sent' = sent \o ops /\ UNCHANGED <<project, resized, jobs>>
    BY <1>1 DEF SetField, Acts, server
  <2>2. i \in DOMAIN ado
    BY DEF BoardInv, BoardOK, TicketsOK
  <2>3. OpsType(ops) /\ Dateless(ops)
    BY <1>1, <2>2, OpsOfType, OpsOfDateless
  <2>. HIDE DEF ops
  <2>. QED  BY <2>1, <2>3, DatelessKeeps DEF project
<1>2. people \subseteq Member \cup {Unassigned}
  BY DEF BoardInv
<1>. QED  BY <1>1, <1>2 DEF SetFields

LEMMA DropKeeps ==
  ASSUME BoardInv, DatesKept, NEW row, NEW column, Drop(row, column)
  PROVE  DatesKept'
<1>. DEFINE i == drag.item
            person == IF view.board = "release" THEN drag.person ELSE row
            field == IF view.board = "daily" THEN "state" ELSE "iter"
            moved == rendered[i][field] # column
            one == IF moved THEN OpsOf(i, field, column) ELSE <<>>
            other == IF rendered[i].person # person THEN OpsOf(i, "person", person) ELSE <<>>
<1>0. CASE person \notin people
  <2>1. UNCHANGED <<project, resized, jobs, sent>>
    BY <1>0 DEF Drop, server
  <2>. QED  BY <2>1 DEF DatesKept, project
<1>. SUFFICES ASSUME person \in people PROVE DatesKept'
  BY <1>0
<1>1. /\ drag.mode = "move" /\ person \in people
      /\ sent' = sent \o (one \o other) /\ UNCHANGED <<project, resized, jobs>>
  BY DEF Drop, Acts, server
<1>2. i \in DOMAIN ado
  <2>1. NoDrag.mode = "none"
    BY DEF NoDrag
  <2>. QED  BY <1>1, <2>1 DEF BoardInv, DragOK, BoardOK, TicketsOK
<1>3. person \in Member \cup {Unassigned}
  BY <1>1 DEF BoardInv
<1>4. Dateless(<<>>)
  BY DEF Dateless
<1>5. OpsType(one) /\ Dateless(one)
  BY <1>2, <1>4, OpsOfType, OpsOfDateless, OpsNone
<1>6. OpsType(other) /\ Dateless(other)
  BY <1>2, <1>3, <1>4, OpsOfType, OpsOfDateless, OpsNone
<1>. HIDE DEF i, person, one, other
<1>7. OpsType(one \o other) /\ Dateless(one \o other)
  BY <1>5, <1>6, OpsAppend, DatelessAppend
<1>. QED  BY <1>1, <1>7, DatelessKeeps DEF project

\* The drop of a bar writes its dates last.
LEMMA BarOpsEnd ==
  ASSUME BoardInv, NEW f \in DOMAIN rendered, NEW range \in Wide
  PROVE  /\ \A now : /\ Ends(BarOps(f, range), now, f, "start", BarDates(range)[1])
                     /\ Ends(BarOps(f, range), now, f, "target", BarDates(range)[2])
         /\ \A field \in {"start", "target"} :
              /\ Own(BarOps(f, range), f, field) # {}
              /\ \A g : g # f => Own(BarOps(f, range), g, field) = {}
<1>. DEFINE a == OpsOf(f, "start", BarDates(range)[1])
            b == OpsOf(f, "target", BarDates(range)[2])
            p == PullOps(f, range)
<1>1. f \in DOMAIN ado
  BY DEF BoardInv, BoardOK, TicketsOK
<1>2. OpsType(a) /\ OpsType(b) /\ OpsType(p) /\ Dateless(p)
  BY <1>1, BarDatesAre, OpsOfType, PullOpsAre DEF Dateless
<1>3. BarOps(f, range) = (a \o b) \o p
  BY BarOpsAre
<1>4. ASSUME NEW op, NEW field, NEW value, NEW now,
             op.item = f, op.field = field, op.value = value
      PROVE  /\ Ends(<<op>>, now, f, field, value) /\ Own(<<op>>, f, field) = {1}
             /\ \A g, other : g # f \/ other # field => Own(<<op>>, g, other) = {}
  <2>1. Len(<<op>>) = 1 /\ \A k \in 1 .. 1 : k = 1 /\ <<op>>[k] = op
    OBVIOUS
  <2>2. Own(<<op>>, f, field) = {1}
    BY <1>4, <2>1 DEF Own
  <2>3. \A g, other : g # f \/ other # field => Own(<<op>>, g, other) = {}
    BY <1>4, <2>1 DEF Own
  <2>. QED  BY <1>4, <2>1, <2>2, <2>3 DEF Ends
<1>5. /\ \A now : Ends(a, now, f, "start", BarDates(range)[1])
      /\ Own(a, f, "start") # {}
      /\ \A g, other : g # f \/ other # "start" => Own(a, g, other) = {}
  <2>1. PICK op : a = <<op>> /\ op.item = f /\ op.field = "start" /\ op.value = BarDates(range)[1]
    BY OpsOfIs
  <2>. QED  BY <1>4, <2>1
<1>6. /\ \A now : Ends(b, now, f, "target", BarDates(range)[2])
      /\ Own(b, f, "target") # {}
      /\ \A g, other : g # f \/ other # "target" => Own(b, g, other) = {}
  <2>1. PICK op : b = <<op>> /\ op.item = f /\ op.field = "target" /\ op.value = BarDates(range)[2]
    BY OpsOfIs
  <2>. QED  BY <1>4, <2>1
<1>. HIDE DEF a, b, p
<1>7. OpsType(a \o b)
  BY <1>2, OpsAppend
<1>8. ASSUME NEW now PROVE Ends(a \o b, now, f, "start", BarDates(range)[1])
  BY <1>2, <1>5, <1>6, EndsOther
<1>9. ASSUME NEW now PROVE Ends(a \o b, now, f, "target", BarDates(range)[2])
  BY <1>2, <1>6, EndsLast
<1>10. ASSUME NEW x, NEW y, OpsType(x), OpsType(y), NEW g, NEW field
       PROVE  /\ Own(x, g, field) = {} /\ Own(y, g, field) = {} => Own(x \o y, g, field) = {}
              /\ Own(x, g, field) # {} \/ Own(y, g, field) # {} => Own(x \o y, g, field) # {}
  <2>1. \A k \in Own(x, g, field) : k \in Own(x \o y, g, field)
    BY <1>10, OwnAppend DEF Own
  <2>2. \A k \in Own(y, g, field) : Len(x) + k \in Own(x \o y, g, field)
    BY <1>10, OwnAppend DEF Own
  <2>3. \A k \in Own(x \o y, g, field) :
          k \in Own(x, g, field) \/ \E j \in 1 .. Len(y) : j \in Own(y, g, field)
    BY <1>10, OwnAppend
  <2>. QED  BY <2>1, <2>2, <2>3
<1>11. ASSUME NEW field \in {"start", "target"}
       PROVE  Own((a \o b) \o p, f, field) # {}
  BY <1>2, <1>5, <1>6, <1>7, <1>10
<1>12. ASSUME NEW field \in {"start", "target"}, NEW g, g # f
       PROVE  Own((a \o b) \o p, g, field) = {}
  BY <1>2, <1>5, <1>6, <1>7, <1>10, <1>12, DatelessOwn
<1>13. ASSUME NEW now
       PROVE  /\ Ends((a \o b) \o p, now, f, "start", BarDates(range)[1])
              /\ Ends((a \o b) \o p, now, f, "target", BarDates(range)[2])
  BY <1>2, <1>7, <1>8, <1>9, DatelessOwn, EndsOther
<1>. QED  BY <1>3, <1>11, <1>12, <1>13

LEMMA DropBarKeeps ==
  ASSUME BoardInv, DatesKept, NEW delta \in Int, DropBar(delta)
  PROVE  DatesKept'
<1>. DEFINE f == drag.item
            range == Drag(drag.side, drag.range, delta)
            ops == BarOps(f, range)
<1>1. drag.mode = "epic" /\ UNCHANGED <<project, jobs>>
  BY DEF DropBar, server
<1>2. f \in DOMAIN rendered /\ drag.side \in Sides /\ drag.range \in Wide
  <2>1. NoDrag.mode = "none"
    BY DEF NoDrag
  <2>. QED  BY <1>1, <2>1 DEF BoardInv, DragOK
<1>3. range \in Wide
  BY <1>2, DragIsWide
<1>4. CASE range = drag.range
  <2>1. UNCHANGED <<sent, resized>>
    BY <1>4 DEF DropBar
  <2>. QED  BY <1>1, <2>1 DEF DatesKept, project
<1>5. CASE range # drag.range
  <2>1. SetFeatRange(f, range)
    BY <1>5 DEF DropBar
  <2>. HIDE DEF f, range
  <2>2. sent' = sent \o ops /\ resized' = [resized EXCEPT ![f] = range] /\ ado' = ado
    BY <1>1, <2>1 DEF SetFeatRange, Acts, project
  <2>3. OpsType(sent) /\ OpsType(ops) /\ f \in WorkItem /\ DOMAIN resized = WorkItem
        /\ DOMAIN ado \subseteq WorkItem
    BY <1>2, <1>3, BarOpsOK, BoardFinite DEF BoardInv, AdoType
  <2>4. /\ \A now : /\ Ends(ops, now, f, "start", BarDates(range)[1])
                    /\ Ends(ops, now, f, "target", BarDates(range)[2])
        /\ \A field \in {"start", "target"} :
             /\ Own(ops, f, field) # {}
             /\ \A g : g # f => Own(ops, g, field) = {}
    BY <1>2, <1>3, BarOpsEnd
  <2>. HIDE DEF ops
  <2>5. ASSUME range \in Ranges
        PROVE  /\ Due(jobs, sent \o ops, ado[f].start, f, "start", RangeDates(range)[1])
               /\ Due(jobs, sent \o ops, ado[f].target, f, "target", RangeDates(range)[2])
    <3>1. BarDates(range) = RangeDates(range)
      BY <2>5 DEF BarDates
    <3>2. \A mid : /\ Ends(sent \o ops, mid, f, "start", RangeDates(range)[1])
                   /\ Ends(sent \o ops, mid, f, "target", RangeDates(range)[2])
      BY <2>3, <2>4, <3>1, EndsLast
    <3>. QED  BY <3>2, EndsSome DEF Due
  <2>6. ASSUME NEW g \in DOMAIN ado, g # f, resized[g] \in Ranges
        PROVE  /\ Due(jobs, sent \o ops, ado[g].start, g, "start", RangeDates(resized[g])[1])
               /\ Due(jobs, sent \o ops, ado[g].target, g, "target", RangeDates(resized[g])[2])
    <3>1. \A field \in {"start", "target"} : \A mid, value :
            Ends(sent, mid, g, field, value) => Ends(sent \o ops, mid, g, field, value)
      BY <2>3, <2>4, <2>6, EndsOther
    <3>2. /\ Due(jobs, sent, ado[g].start, g, "start", RangeDates(resized[g])[1])
          /\ Due(jobs, sent, ado[g].target, g, "target", RangeDates(resized[g])[2])
      BY <2>6 DEF DatesKept
    <3>. QED  BY <3>1, <3>2 DEF Due
  <2>7. resized'[f] = range /\ \A g \in DOMAIN ado \ {f} : resized'[g] = resized[g]
    BY <2>2, <2>3
  <2>8. jobs' = jobs
    BY <1>1
  <2>. HIDE DEF f, range
  <2>9. ASSUME NEW g \in DOMAIN ado, resized'[g] \in Ranges
        PROVE  /\ Due(jobs, sent \o ops, ado[g].start, g, "start", RangeDates(resized'[g])[1])
               /\ Due(jobs, sent \o ops, ado[g].target, g, "target", RangeDates(resized'[g])[2])
    <3>1. CASE g = f
      BY <2>5, <2>7, <2>9, <3>1
    <3>2. CASE g # f
      BY <2>6, <2>7, <2>9, <3>2
    <3>. QED  BY <3>1, <3>2
  <2>. QED  BY <2>2, <2>8, <2>9 DEF DatesKept
<1>. QED  BY <1>4, <1>5

\* An operation is lost, of an item whose range is forgotten.
LEMMA LostKeeps ==
  ASSUME BoardInv, DatesKept, NEW first, NEW last, NEW i, i \in DOMAIN ado,
         resized' = [resized EXCEPT ![i] = None], UNCHANGED ado, jobs' = first, sent' = last,
         \A f \in DOMAIN ado \ {i}, field \in {"start", "target"} : \A now, value :
           Due(jobs, sent, now, f, field, value) => Due(first, last, now, f, field, value)
  PROVE  DatesKept'
<1>1. DOMAIN resized = WorkItem /\ DOMAIN ado \subseteq WorkItem
  BY DEF BoardInv, AdoType
<1>2. None \notin Ranges
  BY AdoReadAssumption
<1>3. \A f \in DOMAIN ado : resized'[f] \in Ranges => f # i /\ resized'[f] = resized[f]
  BY <1>1, <1>2
<1>4. \A f \in DOMAIN ado : resized'[f] \in Ranges =>
        /\ Due(first, last, ado[f].start, f, "start", RangeDates(resized'[f])[1])
        /\ Due(first, last, ado[f].target, f, "target", RangeDates(resized'[f])[2])
  BY <1>3 DEF DatesKept
<1>. QED  BY <1>4 DEF DatesKept

LEMMA HandleKeeps == BoardInv /\ DatesKept /\ Handle => DatesKept'
<1>. SUFFICES ASSUME BoardInv, DatesKept, Handle PROVE DatesKept'
  OBVIOUS
<1>. DEFINE op == Head(sent)
<1>1. /\ sent # <<>> /\ sent' = Tail(sent) /\ jobs' = Append(jobs, op)
      /\ UNCHANGED <<ado, resized>>
  BY DEF Handle, project
<1>2. OpsType(sent) /\ OpsType(jobs) /\ OpType(op) /\ OpsType(<<op>>)
  BY <1>1, OpsHeadTail, OpsOne DEF BoardInv, ServerOK
<1>3. jobs' = jobs \o <<op>>
  <2>1. PICK S : jobs \in Seq(S)
    BY <1>2 DEF OpsType
  <2>. QED  BY <1>1, <2>1
<1>4. ASSUME NEW f, NEW field, NEW now, NEW value, Due(jobs, sent, now, f, field, value)
      PROVE  Due(jobs', sent', now, f, field, value)
  <2>1. PICK mid : Ends(jobs, now, f, field, mid) /\ Ends(sent, mid, f, field, value)
    BY <1>4 DEF Due
  <2>. DEFINE next == IF op.item = f /\ op.field = field THEN op.value ELSE mid
  <2>2. Ends(Tail(sent), next, f, field, value)
    BY <1>1, <1>2, <2>1, EndsTail
  <2>3. Len(<<op>>) = 1 /\ \A k \in 1 .. 1 : k = 1 /\ <<op>>[k] = op
    OBVIOUS
  <2>. HIDE DEF op
  <2>4. CASE op.item = f /\ op.field = field
    <3>1. Own(<<op>>, f, field) # {} /\ Ends(<<op>>, now, f, field, op.value)
      BY <2>3, <2>4 DEF Own, Ends
    <3>2. Ends(jobs \o <<op>>, now, f, field, op.value)
      BY <1>2, <3>1, EndsLast
    <3>. QED  BY <1>1, <1>3, <2>2, <2>4, <3>2 DEF Due
  <2>5. CASE ~(op.item = f /\ op.field = field)
    <3>1. Own(<<op>>, f, field) = {}
      BY <2>3, <2>5 DEF Own
    <3>2. Ends(jobs \o <<op>>, now, f, field, mid)
      BY <1>2, <2>1, <3>1, EndsOther
    <3>. QED  BY <1>1, <1>3, <2>2, <2>5, <3>2 DEF Due
  <2>. QED  BY <2>4, <2>5
<1>5. \A f \in DOMAIN ado : resized[f] \in Ranges =>
        /\ Due(jobs', sent', ado[f].start, f, "start", RangeDates(resized[f])[1])
        /\ Due(jobs', sent', ado[f].target, f, "target", RangeDates(resized[f])[2])
  BY <1>4 DEF DatesKept
<1>. QED  BY <1>1, <1>5 DEF DatesKept

LEMMA RejectKeeps == BoardInv /\ DatesKept /\ Reject => DatesKept'
<1>. SUFFICES ASSUME BoardInv, DatesKept, Reject PROVE DatesKept'
  OBVIOUS
<1>. DEFINE op == Head(sent)
<1>1. /\ sent # <<>> /\ sent' = Tail(sent) /\ UNCHANGED <<ado, jobs>>
      /\ resized' = [resized EXCEPT ![op.item] = None]
  BY DEF Reject, Lost, project
<1>2. OpsType(sent) /\ OpType(op)
  BY <1>1, OpsHeadTail DEF BoardInv
<1>3. ASSUME NEW f, f # op.item, NEW field, NEW now, NEW value,
             Due(jobs, sent, now, f, field, value)
      PROVE  Due(jobs, Tail(sent), now, f, field, value)
  <2>1. PICK mid : Ends(jobs, now, f, field, mid) /\ Ends(sent, mid, f, field, value)
    BY <1>3 DEF Due
  <2>2. Ends(Tail(sent), mid, f, field, value)
    BY <1>1, <1>2, <1>3, <2>1, EndsTail
  <2>. QED  BY <2>1, <2>2 DEF Due
<1>4. op.item \in DOMAIN ado
  BY <1>2 DEF OpType
<1>. HIDE DEF op
<1>. QED  BY <1>1, <1>3, <1>4, LostKeeps

LEMMA GiveUpKeeps == BoardInv /\ DatesKept /\ GiveUp => DatesKept'
<1>. SUFFICES ASSUME BoardInv, DatesKept, GiveUp PROVE DatesKept'
  OBVIOUS
<1>. DEFINE op == Head(jobs)
<1>1. /\ jobs # <<>> /\ jobs' = Tail(jobs) /\ UNCHANGED <<ado, sent>>
      /\ resized' = [resized EXCEPT ![op.item] = None]
  BY DEF GiveUp, Lost, project
<1>2. OpsType(jobs) /\ OpType(op)
  BY <1>1, OpsHeadTail DEF BoardInv, ServerOK
<1>3. ASSUME NEW f, f # op.item, NEW field, NEW now, NEW value,
             Due(jobs, sent, now, f, field, value)
      PROVE  Due(Tail(jobs), sent, now, f, field, value)
  <2>1. PICK mid : Ends(jobs, now, f, field, mid) /\ Ends(sent, mid, f, field, value)
    BY <1>3 DEF Due
  <2>2. Ends(Tail(jobs), now, f, field, mid)
    BY <1>1, <1>2, <1>3, <2>1, EndsTail
  <2>. QED  BY <2>1, <2>2 DEF Due
<1>4. op.item \in DOMAIN ado
  BY <1>2 DEF OpType
<1>. HIDE DEF op
<1>. QED  BY <1>1, <1>3, <1>4, LostKeeps

LEMMA WriteJobKeeps == BoardInv /\ DatesKept /\ WriteJob => DatesKept'
<1>. SUFFICES ASSUME BoardInv, DatesKept, WriteJob PROVE DatesKept'
  OBVIOUS
<1>. DEFINE op == Head(jobs)
<1>0. PICK item \in Written(ado[op.item], op) : ado' = [ado EXCEPT ![op.item] = item]
  BY DEF WriteJob
<1>1. jobs # <<>> /\ jobs' = Tail(jobs) /\ UNCHANGED <<sent, resized>>
  BY DEF WriteJob
<1>2. OpsType(jobs) /\ OpType(op) /\ AdoType(ado)
  BY <1>1, OpsHeadTail DEF BoardInv, ServerOK
<1>3. op.item \in DOMAIN ado /\ WorkItemType(ado, op.item) /\ op.field \in OpFields
  BY <1>2 DEF OpType, AdoType
<1>. HIDE DEF op
<1>4. \A field \in {"start", "target"} :
        item[field] = IF op.field = field THEN op.value ELSE ado[op.item][field]
  <2>1. \A s, c : LET e == [ado[op.item] EXCEPT !.state = s, !.column = c]
                  IN  e.start = ado[op.item].start /\ e.target = ado[op.item].target
    BY <1>3 DEF WorkItemType
  <2>2. CASE op.field = "state" /\ ado[op.item].column # None
    <3>1. PICK c : item = [ado[op.item] EXCEPT !.state = op.value, !.column = c]
      BY <1>0, <2>2 DEF Written
    <3>2. item.start = ado[op.item].start /\ item.target = ado[op.item].target
      BY <2>1, <3>1
    <3>. QED  BY <2>2, <3>2
  <2>3. CASE ~(op.field = "state" /\ ado[op.item].column # None)
    <3>1. item = Recorded(ado[op.item], op)
      BY <1>0, <2>3 DEF Written
    <3>2. CASE op.field = "column"
      <4>1. \E state : item = [ado[op.item] EXCEPT !.column = op.value, !.state = state]
        BY <3>1, <3>2 DEF Recorded
      <4>. QED  BY <1>3, <3>2, <4>1 DEF WorkItemType
    <3>3. CASE op.field # "column"
      <4>1. item = [ado[op.item] EXCEPT ![op.field] = op.value]
        BY <3>1, <3>3 DEF Recorded
      <4>. QED  BY <1>3, <4>1 DEF WorkItemType, OpFields
    <3>. QED  BY <3>2, <3>3
  <2>. QED  BY <2>2, <2>3
<1>5. DOMAIN ado' = DOMAIN ado
      /\ \A f \in DOMAIN ado : ado'[f] = IF f = op.item THEN item ELSE ado[f]
  BY <1>0, <1>3
<1>6. ASSUME NEW f \in DOMAIN ado, NEW field \in {"start", "target"}, NEW value,
             Due(jobs, sent, ado[f][field], f, field, value)
      PROVE  Due(Tail(jobs), sent, ado'[f][field], f, field, value)
  <2>1. PICK mid : Ends(jobs, ado[f][field], f, field, mid) /\ Ends(sent, mid, f, field, value)
    BY <1>6 DEF Due
  <2>2. ado'[f][field] = IF op.item = f /\ op.field = field THEN op.value ELSE ado[f][field]
    BY <1>4, <1>5
  <2>3. Ends(Tail(jobs), ado'[f][field], f, field, mid)
    BY <1>1, <1>2, <2>1, <2>2, EndsTail DEF op
  <2>. QED  BY <2>1, <2>3 DEF Due
<1>7. \A f \in DOMAIN ado : resized[f] \in Ranges =>
        /\ Due(Tail(jobs), sent, ado'[f].start, f, "start", RangeDates(resized[f])[1])
        /\ Due(Tail(jobs), sent, ado'[f].target, f, "target", RangeDates(resized[f])[2])
  BY <1>6 DEF DatesKept
<1>. QED  BY <1>1, <1>5, <1>7 DEF DatesKept

LEMMA OutsideEditsKeep == BoardInv /\ DatesKept /\ OutsideEdits => DatesKept'
<1>. SUFFICES ASSUME BoardInv, DatesKept,
                     NEW i \in DOMAIN ado, NEW field \in {"path", "assignee"}, NEW value,
                     Outside(i, field, value)
              PROVE  DatesKept'
  BY DEF OutsideEdits
<1>1. ado' = [ado EXCEPT ![i][field] = value] /\ UNCHANGED <<sent, jobs, resized>>
  BY DEF Outside, server
<1>2. i \in DOMAIN ado /\ WorkItemType(ado, i)
  BY DEF BoardInv, AdoType
<1>3. DOMAIN ado' = DOMAIN ado
      /\ \A f \in DOMAIN ado : ado'[f].start = ado[f].start /\ ado'[f].target = ado[f].target
  BY <1>1, <1>2 DEF WorkItemType
<1>. QED  BY <1>1, <1>3 DEF DatesKept

LEMMA DatesKeptInductive == BoardInv /\ DatesKept /\ [Next]_vars => DatesKept'
<1>. SUFFICES ASSUME BoardInv, DatesKept, [Next]_vars PROVE DatesKept'
  OBVIOUS
<1>1. ASSUME UNCHANGED <<ado, sent, jobs, resized>> PROVE DatesKept'
  BY <1>1 DEF DatesKept
<1>2. CASE Load \/ Render \/ Poll \/ Echo \/ Answer \/ UNCHANGED vars
  BY <1>1, <1>2 DEF Load, Render, Poll, Echo, Answer, vars, project, server
<1>3. CASE Looks
  <2>1. \A next : Look(next) => DatesKept'
    BY <1>1 DEF Look, project, server
  <2>. QED
    BY <1>3, <2>1 DEF Looks, ShowBoard, ShowLevel, FilterEpics, ToggleClosed, ToggleBacklog,
                      ToggleRowHidden, TogglePerson, RangeFrom, RangeTo, MetricsFrom, MetricsTo
<1>4. CASE SetFields \/ OutsideEdits
  BY <1>4, SetFieldsKeep, OutsideEditsKeep
<1>5. ASSUME NEW i, NEW mode, StartDrag(i, mode) PROVE DatesKept'
  BY <1>1, <1>5 DEF StartDrag, project, server
<1>6. ASSUME NEW f, NEW side, StartEpicResize(f, side) PROVE DatesKept'
  BY <1>1, <1>6 DEF StartEpicResize, project, server
<1>7. CASE Drops
  <2>1. ASSUME NEW row, NEW column, Drop(row, column) PROVE DatesKept'
    BY <2>1, DropKeeps
  <2>2. ASSUME NEW span, Stretch(span) PROVE DatesKept'
    <3>1. sent' = sent \o <<>> /\ UNCHANGED <<ado, resized, jobs>>
      BY <2>2 DEF Stretch, Acts, project, server
    <3>2. Dateless(<<>>)
      BY DEF Dateless
    <3>. QED  BY <3>1, <3>2, OpsNone, DatelessKeeps
  <2>3. ASSUME NEW delta \in -NITER .. NITER, DropBar(delta) PROVE DatesKept'
    BY <2>3, DropBarKeeps
  <2>. QED  BY <1>7, <2>1, <2>2, <2>3 DEF Drops
<1>8. CASE Serve
  BY <1>2, <1>8, HandleKeeps, RejectKeeps, WriteJobKeeps, GiveUpKeeps DEF Serve
<1>. QED  BY <1>2, <1>3, <1>4, <1>5, <1>6, <1>7, <1>8 DEF Next

\* setFeatRange, emitOp: when no two sprints share a day, whatever is edited, dragged or
\* given up meanwhile, once the writes of a bar that was dropped are done a board that loads
\* its dates shows it where it was dropped last.
THEOREM DropsReadBack ==
  ASSUME Ordered
  PROVE  Spec => []DropsAreReadBack
<1>1. Init /\ BoardInv => DatesKept
  <2>. SUFFICES ASSUME Init, BoardInv, NEW f \in DOMAIN ado, resized[f] \in Ranges PROVE FALSE
    BY DEF DatesKept
  <2>. QED  BY AdoReadAssumption DEF Init, BoardInv, AdoType
<1>2. ASSUME BoardInv, DatesKept PROVE DropsAreReadBack
  <2>. SUFFICES ASSUME NEW f \in DOMAIN ado, resized[f] \in Ranges,
                       \A op \in Range(jobs \o sent) : op.item # f
                PROVE  DatesRange(<<ado[f].start, ado[f].target>>) = resized[f]
    BY DEF DropsAreReadBack
  <2>1. OpsType(jobs) /\ OpsType(sent)
    BY <1>2 DEF BoardInv, ServerOK
  <2>2. ASSUME NEW field PROVE Own(jobs, f, field) = {} /\ Own(sent, f, field) = {}
    <3>1. OpsType(jobs \o sent)
      BY <2>1, OpsAppend
    <3>2. \A k \in 1 .. Len(jobs \o sent) : (jobs \o sent)[k].item # f
      BY <3>1 DEF Range, OpsType
    <3>3. /\ Len(jobs) \in Nat /\ Len(sent) \in Nat
          /\ Len(jobs \o sent) = Len(jobs) + Len(sent)
          /\ \A k \in 1 .. Len(jobs) : (jobs \o sent)[k] = jobs[k]
          /\ \A k \in 1 .. Len(sent) : (jobs \o sent)[Len(jobs) + k] = sent[k]
      BY <2>1, OwnAppend
    <3>4. /\ \A k \in 1 .. Len(jobs) : k \in 1 .. Len(jobs \o sent)
          /\ \A k \in 1 .. Len(sent) : Len(jobs) + k \in 1 .. Len(jobs \o sent)
      BY <3>3
    <3>. QED  BY <3>2, <3>3, <3>4 DEF Own
  <2>3. <<ado[f].start, ado[f].target>> = RangeDates(resized[f])
    BY <1>2, <2>2 DEF DatesKept, Due, Ends, RangeDates
  <2>. QED  BY <2>3, DatesKeepTheRange
<1>3. Spec => []DatesKept
  BY <1>1, BoardInvAlways, DatesKeptInductive, PTL DEF Spec
<1>. QED  BY <1>2, <1>3, BoardInvAlways, PTL

-----------------------------------------------------------------------------
(* What a gesture changes is written *)

\* A board that is not loaded has no items; the columns and states of one that is have names.
NamesInv ==
  /\ page = "none" => ado \in Projects /\ items = <<>>
  /\ page # "none" => \A k \in DOMAIN states : states[k].name # None

LEMMA NamesInvInductive == BoardInv /\ NamesInv /\ [Next]_vars => NamesInv'
<1>. SUFFICES ASSUME BoardInv, NamesInv, [Next]_vars PROVE NamesInv'
  OBVIOUS
<1>1. ASSUME UNCHANGED states, page # "none", page' # "none" PROVE NamesInv'
  BY <1>1 DEF NamesInv
<1>2. ASSUME UNCHANGED states, page = "open", page' \in {"open", "blank"} PROVE NamesInv'
  BY <1>1, <1>2
<1>3. ASSUME Load PROVE NamesInv'
  <2>1. /\ page = "none" /\ page' = "open" /\ states' = States(SyncTickets(ado))
    BY <1>3 DEF Load, ApplyDataset
  <2>2. ado \in Projects
    BY <2>1 DEF NamesInv
  <2>. QED  BY <2>1, <2>2, NamesAssumption DEF NamesInv
<1>4. ASSUME Render PROVE NamesInv'
  BY <1>2, <1>4 DEF Render, session
<1>5. ASSUME Looks PROVE NamesInv'
  <2>1. \E next : Look(next)
    BY <1>5 DEF Looks, ShowBoard, ShowLevel, FilterEpics, ToggleClosed, ToggleBacklog,
                ToggleRowHidden, TogglePerson, RangeFrom, RangeTo, MetricsFrom, MetricsTo
  <2>. QED  BY <1>2, <1>5, <2>1 DEF Look, Looks, session
<1>6. ASSUME SetFields PROVE NamesInv'
  <2>1. \E i, field, value : SetField(i, field, value)
    BY <1>6 DEF SetFields
  <2>. QED  BY <1>2, <2>1 DEF SetField, Gesture, Acts, session
<1>7. ASSUME NEW i \in DOMAIN rendered, NEW mode \in {"move", "resize"}, StartDrag(i, mode)
      PROVE  NamesInv'
  BY <1>2, <1>7 DEF StartDrag, Gesture, session
<1>8. ASSUME NEW f \in DOMAIN rendered, NEW side \in Sides, StartEpicResize(f, side)
      PROVE  NamesInv'
  BY <1>2, <1>8 DEF StartEpicResize, Gesture, session
<1>9. ASSUME Drops PROVE NamesInv'
  <2>0. page = "open"
    BY <1>9 DEF Drops
  <2>1. ASSUME NEW row, NEW column, Drop(row, column) PROVE NamesInv'
    BY <1>2, <2>0, <2>1 DEF Drop, Acts, session
  <2>2. ASSUME NEW span, Stretch(span) PROVE NamesInv'
    BY <1>2, <2>0, <2>2 DEF Stretch, Acts, session
  <2>3. ASSUME NEW delta, DropBar(delta) PROVE NamesInv'
    BY <1>2, <2>0, <2>3 DEF DropBar, SetFeatRange, Acts, session
  <2>. QED  BY <1>9, <2>1, <2>2, <2>3 DEF Drops
<1>10. ASSUME Serve PROVE NamesInv'
  <2>1. sent # <<>> \/ jobs # <<>> \/ echoes # <<>> \/ answers # <<>>
    BY <1>10 DEF Serve, Handle, Reject, WriteJob, GiveUp, Echo, Answer
  <2>2. UNCHANGED <<states, page>>
    BY <1>10 DEF Serve, Handle, Reject, WriteJob, GiveUp, Echo, Answer, session
  <2>. QED  BY <1>1, <2>1, <2>2 DEF BoardInv
<1>11. ASSUME Poll PROVE NamesInv'
  BY <1>2, <1>11 DEF Poll, session
<1>12. ASSUME OutsideEdits PROVE NamesInv'
  <2>1. \E i, field, value : Outside(i, field, value)
    BY <1>12 DEF OutsideEdits
  <2>. QED  BY <1>2, <2>1 DEF Outside, session
<1>13. ASSUME UNCHANGED vars PROVE NamesInv'
  BY <1>13 DEF vars, NamesInv, session
<1>. QED
  BY <1>3, <1>4, <1>5, <1>6, <1>7, <1>8, <1>9, <1>10, <1>11, <1>12, <1>13 DEF Next

LEMMA SubmitOther ==
  ASSUME NEW ticket, TicketType(ticket), NEW i, NEW ops, OpsType(ops),
         NEW field \in TicketFields \ {"status"}, Own(ops, i, field) = {}
  PROVE  Submit(ticket, i, ops)[field] = ticket[field]
<1>1. DOMAIN ops = 1 .. Len(ops)
  BY DEF OpsType
<1>2. {k \in DOMAIN ops : ops[k].item = i /\ ops[k].field = field} = {}
  BY <1>1 DEF Own
<1>. QED  BY <1>2 DEF Submit, TicketType, TicketFields

LEMMA SubmitLast ==
  ASSUME NEW ticket, TicketType(ticket), NEW i, NEW ops, OpsType(ops),
         NEW field \in TicketFields, NEW k, Own(ops, i, field) = {k}
  PROVE  Submit(ticket, i, ops)[field] = ops[k].value
<1>1. DOMAIN ops = 1 .. Len(ops)
  BY DEF OpsType
<1>2. {n \in DOMAIN ops : ops[n].item = i /\ ops[n].field = field} = {k}
  BY <1>1 DEF Own
<1>3. k \in Int
  BY DEF Own
<1>4. Max({k}) = k
  BY <1>3, MaxIs
<1>. QED  BY <1>2, <1>4 DEF Submit, TicketType

\* The board a card is dropped on gives its sprint, or its state.
LEMMA DropsInColumn ==
  ASSUME BoardInv, page = "open", NEW column \in DropColumns, view.board # "daily"
  PROVE  column \in Columns \cup {BACKLOG}
<1>1. ViewShape(view)
  BY DEF BoardInv
<1>2. VisibleCols(view) \subseteq Columns \cup {BACKLOG}
  BY <1>1, GridAssumption DEF VisibleCols, ViewShape, ViewType, Columns
<1>3. CASE view.board = "release"
  BY <1>3 DEF DropColumns
<1>4. CASE view.board = "sprint"
  BY <1>2, <1>4 DEF DropColumns
<1>. QED  BY <1>1, <1>3, <1>4 DEF ViewShape, ViewType, Boards

\* What a step changes of an item, it changes in its ticket.
ItemWritten(i) ==
  LET told   == Reconciled(items'[i], tickets'[i], people, states)
      strays == tickets[i].column # None /\ ~HasBoardColumns(states, items[i].level)
  IN  /\ items'[i].iter \notin {items[i].iter, BACKLOG} => items'[i].iter = told.iter
      /\ items'[i].person # items[i].person => items'[i].person = told.person
      /\ items'[i].state # items[i].state /\ ~strays => items'[i].state = told.state

StepWritten == rendered = items => \A i \in DOMAIN items : ItemWritten(i)

LEMMA ReconciledTwice ==
  ASSUME NEW item, DOMAIN item = ItemFields, NEW ticket, NEW who, NEW sts
  PROVE  LET one == Reconciled(item, ticket, who, sts)
             two == Reconciled(one, ticket, who, sts)
         IN  two.iter = one.iter /\ two.person = one.person /\ two.state = one.state
BY DEF Reconciled, ItemFields

LEMMA SameWritten ==
  ASSUME UNCHANGED items
  PROVE  StepWritten
BY DEF StepWritten, ItemWritten

LEMMA ToldWritten ==
  ASSUME NEW board, DOMAIN board = DOMAIN items,
         \A i \in DOMAIN board : DOMAIN board[i] = ItemFields,
         items' = Reconcile(board, tickets', people, states)
  PROVE  StepWritten
<1>1. ASSUME NEW i \in DOMAIN items PROVE ItemWritten(i)
  <2>1. items'[i] = Reconciled(board[i], tickets'[i], people, states)
    BY DEF Reconcile
  <2>2. /\ Reconciled(items'[i], tickets'[i], people, states).iter = items'[i].iter
        /\ Reconciled(items'[i], tickets'[i], people, states).person = items'[i].person
        /\ Reconciled(items'[i], tickets'[i], people, states).state = items'[i].state
    BY <2>1, ReconciledTwice
  <2>. QED  BY <2>2 DEF ItemWritten
<1>. QED  BY <1>1 DEF StepWritten

LEMMA StoreWritten ==
  ASSUME BoardInv, NEW next, Store(next)
  PROVE  StepWritten
<1>1. \A i \in DOMAIN items : DOMAIN items[i] = ItemFields
  BY DEF BoardInv, BoardOK, ItemShape
<1>2. CASE page = "open"
  BY <1>1, <1>2, ToldWritten DEF Store
<1>3. CASE page # "open"
  BY <1>3, SameWritten DEF Store
<1>. QED  BY <1>2, <1>3

LEMMA EchoWritten ==
  ASSUME BoardInv, NEW board, BoardOK(board, tickets), NEW ops, ops # <<>>,
         Acts(Echoed(board, ops), ops)
  PROVE  StepWritten
<1>1. \A i \in DOMAIN board : DOMAIN board[i] = ItemFields
  BY DEF BoardOK, ItemShape
<1>2. DOMAIN board = DOMAIN items
  BY DEF BoardInv, BoardOK
<1>3. items' = Reconcile(board, tickets', people, states)
  BY DEF Acts, Echoed
<1>. QED  BY <1>1, <1>2, <1>3, ToldWritten

LEMMA OpsOfSprint ==
  ASSUME NEW i, NEW value \in Columns
  PROVE  OpsOf(i, "iter", value) = <<[item |-> i, field |-> "path", value |-> value]>>
BY DEF OpsOf

LEMMA BarOpsSome ==
  ASSUME BoardInv, NEW f \in DOMAIN rendered, NEW range \in Wide
  PROVE  BarOps(f, range) # <<>>
<1>1. Own(BarOps(f, range), f, "start") # {}
  BY BarOpsEnd
<1>2. \A g, field : Own(<<>>, g, field) = {}
  <2>1. Len(<<>>) = 0
    OBVIOUS
  <2>. QED  BY <2>1 DEF Own
<1>. QED  BY <1>1, <1>2

LEMMA SetFieldsWritten == BoardInv /\ SetFields => StepWritten
<1>. SUFFICES ASSUME BoardInv, SetFields PROVE StepWritten
  OBVIOUS
<1>1. ASSUME NEW i \in DOMAIN rendered, NEW field \in {"iter", "person", "state"}, NEW value,
             field = "iter" => value \in Columns \cup {BACKLOG},
             field = "person" => value \in Member \cup {Unassigned},
             SetField(i, field, value)
      PROVE  StepWritten
  <2>. DEFINE ops == OpsOf(i, field, value)
              card == Changed(rendered[i], field, value)
              board == [rendered EXCEPT ![i] = card]
  <2>1. Acts(Echoed(board, ops), ops)
    BY <1>1 DEF SetField
  <2>2. BoardOK(rendered, tickets) /\ ItemShape(rendered[i])
    BY DEF BoardInv, BoardOK
  <2>3. ItemShape(card)
    BY <1>1, <2>2, ChangedIs
  <2>4. CASE ops = <<>>
    <3>1. field = "iter" /\ value = BACKLOG
      BY <1>1, <2>4, OpsOfIs, OpsOfSprint
    <3>2. card.iter = BACKLOG /\ card.person = rendered[i].person /\ card.state = rendered[i].state
      BY <2>2, <3>1 DEF Changed, ItemShape, ItemFields
    <3>. HIDE DEF card, ops
    <3>3. items' = board
      BY <2>1, <2>4 DEF Acts, Echoed
    <3>. QED  BY <3>2, <3>3 DEF StepWritten, ItemWritten
  <2>5. CASE ops # <<>>
    <3>. HIDE DEF card, ops
    <3>1. BoardOK(board, tickets)
      BY <2>2, <2>3, OneChangedOK
    <3>. QED  BY <2>1, <2>5, <3>1, EchoWritten
  <2>. QED  BY <2>4, <2>5
<1>2. people \subseteq Member \cup {Unassigned}
  BY DEF BoardInv
<1>. QED  BY <1>1, <1>2 DEF SetFields

LEMMA DropBarWritten ==
  ASSUME BoardInv, page = "open", NEW delta \in Int, DropBar(delta)
  PROVE  StepWritten
<1>. DEFINE f == drag.item
            range == Drag(drag.side, drag.range, delta)
<1>1. drag.mode = "epic"
  BY DEF DropBar
<1>2. /\ f \in DOMAIN rendered /\ drag.side \in Sides /\ drag.range \in Wide
      /\ rendered[f].level # "epic" => drag.range \in Ranges
  <2>1. NoDrag.mode = "none"
    BY DEF NoDrag
  <2>. QED  BY <1>1, <2>1 DEF BoardInv, DragOK
<1>3. range \in Wide /\ (rendered[f].level # "epic" => range \in Ranges)
  BY <1>2, DragIsWide, DragsStayOnGrid
<1>4. CASE range = drag.range
  BY <1>4, SameWritten DEF DropBar
<1>5. CASE range # drag.range
  <2>1. SetFeatRange(f, range)
    BY <1>5 DEF DropBar
  <2>. HIDE DEF f, range
  <2>. DEFINE ops == BarOps(f, range)
              board == BarBoard(f, range)
  <2>2. Acts(Echoed(board, ops), ops)
    BY <2>1 DEF SetFeatRange
  <2>3. BoardOK(board, tickets)
    BY <1>2, <1>3, BarBoardOK
  <2>4. ops # <<>>
    BY <1>2, <1>3, BarOpsSome
  <2>. HIDE DEF ops, board
  <2>. QED  BY <2>2, <2>3, <2>4, EchoWritten
<1>. QED  BY <1>4, <1>5

OneOp(ops, i, fields) ==
  ops = <<>> \/ \E op : ops = <<op>> /\ OpType(op) /\ op.item = i /\ op.field \in fields

DropIs(ops, one, other, i) ==
  /\ \A op : one = <<op>> =>
       /\ ops[1] = op
       /\ \A name : /\ op.field = name => Own(ops, i, name) = {1}
                    /\ op.field # name /\ name # "assignee" => Own(ops, i, name) = {}
  /\ \A op : other = <<op>> => \E k : Own(ops, i, "assignee") = {k} /\ ops[k] = op

\* The operations of a drop: at most one on the sprint or the state, and one on the person.
LEMMA DropOps ==
  ASSUME NEW one, NEW other, NEW i,
         OneOp(one, i, {"path", "column", "state"}), OneOp(other, i, {"assignee"})
  PROVE  OpsType(one \o other) /\ DropIs(one \o other, one, other, i)
<1>0. /\ Len(<<>>) = 0
      /\ \A op : Len(<<op>>) = 1 /\ \A k \in 1 .. 1 : k = 1 /\ <<op>>[k] = op
  OBVIOUS
<1>1. OpsType(one) /\ OpsType(other)
  BY OpsNone, OpsOne DEF OneOp
<1>2. OpsType(one \o other)
  BY <1>1, OpsAppend
<1>3. Len(one) \in {0, 1} /\ Len(other) \in {0, 1} /\ Len(one \o other) = Len(one) + Len(other)
  <2>1. Len(one) \in {0, 1} /\ Len(other) \in {0, 1}
    BY <1>0 DEF OneOp
  <2>. QED  BY <1>1, <2>1, OwnAppend
<1>4. ASSUME NEW op, one = <<op>>
      PROVE  (one \o other)[1] = op /\ 1 \in 1 .. Len(one \o other) /\ Len(one) = 1
  <2>1. Len(one) = 1 /\ one[1] = op
    BY <1>0, <1>4
  <2>. QED  BY <1>1, <1>3, <2>1, OwnAppend
<1>5. ASSUME NEW op, other = <<op>>
      PROVE  /\ (one \o other)[Len(one) + 1] = op /\ Len(one \o other) = Len(one) + 1
             /\ op.field = "assignee" /\ op.item = i
  <2>1. Len(other) = 1 /\ other[1] = op /\ 1 \in 1 .. Len(other)
    BY <1>0, <1>5
  <2>2. op.field = "assignee" /\ op.item = i
    <3>1. PICK o : other = <<o>> /\ o.item = i /\ o.field = "assignee"
      BY <2>1, <1>0 DEF OneOp
    <3>2. o = op
      BY <1>5, <3>1, <1>0
    <3>. QED  BY <3>1, <3>2
  <2>. QED  BY <1>1, <1>3, <2>1, <2>2, OwnAppend
<1>6. \A op : one = <<op>> => op.field # "assignee" /\ op.item = i
  <2>. SUFFICES ASSUME NEW op, one = <<op>> PROVE op.field # "assignee" /\ op.item = i
    OBVIOUS
  <2>1. PICK o : one = <<o>> /\ o.item = i /\ o.field # "assignee"
    BY <1>0 DEF OneOp
  <2>2. o = op
    BY <2>1, <1>0
  <2>. QED  BY <2>1, <2>2
<1>7. \A k \in 1 .. Len(one \o other) :
        \/ k = 1 /\ Len(one) = 1
        \/ k = Len(one) + 1 /\ Len(other) = 1
  <2>. SUFFICES ASSUME NEW k \in Int, 1 <= k, k <= Len(one) + Len(other)
                PROVE  (k = 1 /\ Len(one) = 1) \/ (k = Len(one) + 1 /\ Len(other) = 1)
    BY <1>3
  <2>1. CASE Len(one) = 0
    BY <1>3, <2>1
  <2>2. CASE Len(one) = 1
    BY <1>3, <2>2
  <2>. QED  BY <1>3, <2>1, <2>2
<1>8. (Len(one) = 1 => \E op : one = <<op>>) /\ (Len(other) = 1 => \E op : other = <<op>>)
  BY <1>0 DEF OneOp
<1>9. ASSUME NEW k \in 1 .. Len(one \o other), (one \o other)[k].field # "assignee"
      PROVE  k = 1 /\ \E op : one = <<op>> /\ (one \o other)[k] = op
  <2>1. CASE k = 1 /\ Len(one) = 1
    BY <1>4, <1>8, <2>1
  <2>2. CASE k = Len(one) + 1 /\ Len(other) = 1
    BY <1>5, <1>8, <1>9, <2>2
  <2>. QED  BY <1>7, <2>1, <2>2
<1>10. ASSUME NEW op, one = <<op>>, NEW field
       PROVE  /\ op.field = field => Own(one \o other, i, field) = {1}
              /\ op.field # field /\ field # "assignee" => Own(one \o other, i, field) = {}
  BY <1>4, <1>6, <1>9, <1>10 DEF Own
<1>12. ASSUME NEW op, other = <<op>>
       PROVE  \E k : Own(one \o other, i, "assignee") = {k} /\ (one \o other)[k] = op
  <2>. DEFINE k == Len(one) + 1
  <2>1. k \in 1 .. Len(one \o other) /\ (one \o other)[k] = op
    BY <1>3, <1>5, <1>12
  <2>2. \A n \in 1 .. Len(one \o other) : n # k => (one \o other)[n].field # "assignee"
    BY <1>3, <1>4, <1>6, <1>7, <1>8
  <2>3. Own(one \o other, i, "assignee") = {k}
    BY <1>5, <1>12, <2>1, <2>2 DEF Own
  <2>. QED  BY <2>1, <2>3
<1>. QED  BY <1>2, <1>4, <1>10, <1>12 DEF DropIs

LEMMA DropWritten ==
  ASSUME BoardInv, NamesInv, page = "open", NEW row, NEW column \in DropColumns, Drop(row, column)
  PROVE  StepWritten
<1>. SUFFICES ASSUME rendered = items PROVE \A j \in DOMAIN items : ItemWritten(j)
  BY DEF StepWritten
<1>. DEFINE i == drag.item
            person == IF view.board = "release" THEN drag.person ELSE row
            field == IF view.board = "daily" THEN "state" ELSE "iter"
            moved == rendered[i][field] # column
            card == IF moved THEN Changed(rendered[i], field, column) ELSE rendered[i]
            one == IF moved THEN OpsOf(i, field, column) ELSE <<>>
            other == IF rendered[i].person # person THEN OpsOf(i, "person", person) ELSE <<>>
            told == [card EXCEPT !.person = person]
            board == [rendered EXCEPT ![i] = told]
            ops == one \o other
<1>0. CASE person \notin people
  <2>1. UNCHANGED items
    BY <1>0 DEF Drop
  <2>. QED  BY <2>1 DEF ItemWritten
<1>. SUFFICES ASSUME person \in people PROVE \A j \in DOMAIN items : ItemWritten(j)
  BY <1>0
<1>1. /\ drag.mode = "move" /\ person \in people /\ Acts(board, ops)
  BY DEF Drop
<1>2. i \in DOMAIN rendered
  <2>1. NoDrag.mode = "none"
    BY DEF NoDrag
  <2>. QED  BY <1>1, <2>1 DEF BoardInv, DragOK
<1>3. /\ ItemShape(rendered[i]) /\ i \in DOMAIN ado /\ i \in DOMAIN tickets
      /\ TicketType(tickets[i]) /\ people \subseteq Member \cup {Unassigned}
  BY <1>2 DEF BoardInv, BoardOK, TicketsOK
<1>4. person \in Member \cup {Unassigned}
  BY <1>1, <1>3
<1>5. /\ field \in {"iter", "state"} /\ (field = "iter" => column \in Columns \cup {BACKLOG})
  BY DropsInColumn
<1>6. ItemShape(card)
      /\ (card.iter # rendered[i].iter => moved /\ field = "iter" /\ card.iter = column)
      /\ (card.state # rendered[i].state => moved /\ field = "state" /\ card.state = column)
      /\ card.level = rendered[i].level
  <2>1. DOMAIN rendered[i] = ItemFields
    BY <1>3 DEF ItemShape
  <2>2. CASE field = "iter"
    <3>1. moved => card = [rendered[i] EXCEPT !.iter = column, !.span = 1,
                              !.dates = IF @ = None THEN None
                                        ELSE BarDates(<<column, column>>)]
      BY <2>2 DEF Changed
    <3>. QED  BY <1>3, <1>5, <2>1, <2>2, <3>1, ChangedIs DEF ItemFields
  <2>3. CASE field = "state"
    BY <1>3, <1>5, <2>1, <2>3, ChangedIs DEF Changed, ItemFields
  <2>. QED  BY <1>5, <2>2, <2>3
<1>7. OneOp(one, i, {"path", "column", "state"})
  <2>. SUFFICES ASSUME one # <<>>
                PROVE  \E op : /\ one = <<op>> /\ OpType(op) /\ op.item = i
                               /\ op.field \in {"path", "column", "state"}
    BY DEF OneOp
  <2>1. one = OpsOf(i, field, column)
    OBVIOUS
  <2>2. PICK op : one = <<op>> /\ op.item = i /\ op.field \in {"path", "column", "state"}
    BY <1>5, <2>1, OpsOfIs
  <2>3. OpType(op)
    BY <1>3, <2>2 DEF OpType, OpFields
  <2>. QED  BY <2>2, <2>3
<1>8. other = <<>> \/ \E op : /\ other = <<op>> /\ OpType(op) /\ op.item = i
                              /\ op.field = "assignee"
                              /\ op.value = IF person = Unassigned THEN None ELSE person
  <2>. SUFFICES ASSUME other # <<>>
                PROVE  \E op : /\ other = <<op>> /\ OpType(op) /\ op.item = i
                               /\ op.field = "assignee"
                               /\ op.value = IF person = Unassigned THEN None ELSE person
    OBVIOUS
  <2>1. PICK op : /\ other = <<op>> /\ op.item = i /\ op.field = "assignee"
                  /\ op.value = IF person = Unassigned THEN None ELSE person
    BY OpsOfIs
  <2>2. OpType(op)
    BY <1>3, <1>4, <2>1 DEF OpType, OpFields
  <2>. QED  BY <2>1, <2>2
<1>9. moved /\ field = "iter" /\ column \in Columns =>
        one = <<[item |-> i, field |-> "path", value |-> column]>>
  BY OpsOfSprint
<1>10. moved /\ field = "state" =>
         one = OpsOf(i, "state", column)
  OBVIOUS
<1>11. rendered[i].person # person => other # <<>>
  <2>. SUFFICES ASSUME rendered[i].person # person PROVE other # <<>>
    OBVIOUS
  <2>1. other = OpsOf(i, "person", person)
    OBVIOUS
  <2>. QED  BY <2>1, OpsOfIs
<1>. HIDE DEF i, person, field, card, one, other
<1>20. OneOp(other, i, {"assignee"})
  BY <1>8 DEF OneOp
<1>21. OpsType(ops) /\ DropIs(ops, one, other, i)
  BY <1>7, <1>20, DropOps
<1>22. Acts(board, ops)
  BY <1>1
<1>. HIDE DEF ops
<1>12. /\ OpsType(ops) /\ tickets'[i] = Submit(tickets[i], i, ops)
       /\ items' = board
  BY <1>3, <1>21, <1>22 DEF Acts, Submitted
<1>13. \A j \in DOMAIN items : j # i => ItemWritten(j)
  BY <1>12 DEF ItemWritten
<1>14. /\ items'[i].iter = card.iter /\ items'[i].state = card.state /\ items'[i].person = person
       /\ items'[i].level = rendered[i].level
  BY <1>2, <1>6, <1>12 DEF ItemShape, ItemFields
<1>15. Reconciled(items'[i], tickets'[i], people, states).person
         = PersonOf(tickets'[i].assignee, people)
       /\ Reconciled(items'[i], tickets'[i], people, states).iter = IterOf(tickets'[i].path)
       /\ Reconciled(items'[i], tickets'[i], people, states).state
            = IF tickets'[i].column # None THEN tickets'[i].column
              ELSE ColumnForState(states, rendered[i].level, tickets'[i].state)
  <2>1. DOMAIN items'[i] = ItemFields
    BY <1>2, <1>6, <1>12 DEF ItemShape
  <2>. QED  BY <1>14, <2>1 DEF Reconciled, ItemFields
<1>16. ASSUME items'[i].iter \notin {items[i].iter, BACKLOG}
       PROVE  IterOf(tickets'[i].path) = items'[i].iter
  <2>1. moved /\ field = "iter" /\ card.iter = column /\ column \in Columns
    BY <1>5, <1>6, <1>14, <1>16
  <2>. DEFINE op == [item |-> i, field |-> "path", value |-> column]
  <2>2. one = <<op>> /\ op.field = "path"
    BY <1>9, <2>1
  <2>3. Own(ops, i, "path") = {1} /\ ops[1] = op
    BY <1>21, <2>2 DEF DropIs
  <2>4. tickets'[i].path = column
    BY <1>3, <1>12, <2>3, SubmitLast DEF TicketFields
  <2>. QED  BY <1>14, <2>1, <2>4 DEF IterOf
<1>17. ASSUME items'[i].person # items[i].person
       PROVE  PersonOf(tickets'[i].assignee, people) = items'[i].person
  <2>1. PICK op : /\ other = <<op>> /\ op.field = "assignee"
                  /\ op.value = IF person = Unassigned THEN None ELSE person
    BY <1>8, <1>11, <1>14, <1>17
  <2>2. PICK k : Own(ops, i, "assignee") = {k} /\ ops[k] = op
    BY <1>21, <2>1 DEF DropIs
  <2>3. tickets'[i].assignee = op.value
    BY <1>3, <1>12, <2>2, SubmitLast DEF TicketFields
  <2>4. None \notin people
    BY <1>3, AdoReadAssumption, PlanAssumption
  <2>. QED  BY <1>1, <1>14, <2>1, <2>3, <2>4 DEF PersonOf
<1>18. ASSUME items'[i].state # items[i].state,
              tickets[i].column = None \/ HasBoardColumns(states, items[i].level)
       PROVE  items'[i].state = IF tickets'[i].column # None THEN tickets'[i].column
                                ELSE ColumnForState(states, rendered[i].level, tickets'[i].state)
  <2>1. moved /\ field = "state" /\ card.state = column /\ one = OpsOf(i, "state", column)
    BY <1>6, <1>10, <1>14, <1>18
  <2>2. CASE HasBoardColumns(states, rendered[i].level)
    <3>. DEFINE op == [item |-> i, field |-> "column", value |-> column]
    <3>1. one = <<op>> /\ op.field = "column"
      BY <2>1, <2>2 DEF OpsOf
    <3>2. Own(ops, i, "column") = {1} /\ ops[1] = op
      BY <1>21, <3>1 DEF DropIs
    <3>3. tickets'[i].column = column
      BY <1>3, <1>12, <3>2, SubmitLast DEF TicketFields
    <3>4. column # None
      <4>1. view.board = "daily" /\ page # "none"
        BY <2>1 DEF field
      <4>2. column \in DailyStates(states, view.level)
        BY <4>1 DEF DropColumns
      <4>3. \E k \in DOMAIN states : column = states[k].name
        BY <4>2 DEF DailyStates, EntriesOf
      <4>. QED  BY <4>1, <4>3 DEF NamesInv
    <3>. QED  BY <1>14, <2>1, <3>3, <3>4
  <2>3. CASE ~HasBoardColumns(states, rendered[i].level)
    <3>. DEFINE op == [item |-> i, field |-> "state", value |-> column]
    <3>0. StateToWrite(states, rendered[i].level, column) = column
          /\ \A state : ColumnForState(states, rendered[i].level, state) = state
      BY <2>3 DEF HasBoardColumns, StateToWrite, ColumnForState
    <3>1. one = <<op>> /\ op.field = "state"
      BY <2>1, <2>3, <3>0 DEF OpsOf
    <3>2. Own(ops, i, "state") = {1} /\ ops[1] = op /\ Own(ops, i, "column") = {}
      BY <1>21, <3>1 DEF DropIs
    <3>3. tickets'[i].state = column
      BY <1>3, <1>12, <3>2, SubmitLast DEF TicketFields
    <3>4. tickets'[i].column = tickets[i].column
      BY <1>3, <1>12, <3>2, SubmitOther DEF TicketFields
    <3>5. tickets[i].column = None
      BY <1>18, <2>3
    <3>. QED  BY <1>14, <2>1, <3>0, <3>3, <3>4, <3>5
  <2>. QED  BY <2>2, <2>3
<1>19. ItemWritten(i)
  BY <1>15, <1>16, <1>17, <1>18 DEF ItemWritten
<1>. QED  BY <1>13, <1>19

LEMMA StretchWritten ==
  ASSUME BoardInv, NEW span \in 1 .. NITER + 1, Stretch(span)
  PROVE  StepWritten
<1>1. items' = [rendered EXCEPT ![drag.item].span = span]
  BY DEF Stretch, Acts
<1>2. \A j \in DOMAIN rendered : DOMAIN rendered[j] = ItemFields
  BY DEF BoardInv, BoardOK, ItemShape
<1>3. \A j \in DOMAIN rendered : /\ items'[j].iter = rendered[j].iter
                                 /\ items'[j].person = rendered[j].person
                                 /\ items'[j].state = rendered[j].state
  BY <1>1, <1>2 DEF ItemFields
<1>. QED  BY <1>3 DEF StepWritten, ItemWritten

LEMMA StepsWritten == BoardInv /\ NamesInv /\ [Next]_vars => StepWritten
<1>. SUFFICES ASSUME BoardInv, NamesInv, [Next]_vars PROVE StepWritten
  OBVIOUS
<1>1. ASSUME Load PROVE StepWritten
  <2>1. page = "none"
    BY <1>1 DEF Load
  <2>2. DOMAIN items = {}
    BY <2>1 DEF NamesInv
  <2>. QED  BY <2>2 DEF StepWritten
<1>2. ASSUME Drops PROVE StepWritten
  <2>1. page = "open" /\ \A delta \in -NITER .. NITER : delta \in Int
    BY <1>2 DEF Drops
  <2>. QED  BY <1>2, <2>1, DropWritten, StretchWritten, DropBarWritten DEF Drops
<1>3. ASSUME Serve PROVE StepWritten
  BY <1>3, StoreWritten, SameWritten DEF Serve, Handle, Reject, WriteJob, GiveUp, Echo, Answer
<1>4. ASSUME Poll PROVE StepWritten
  BY <1>4, StoreWritten DEF Poll
<1>5. Render \/ UNCHANGED vars => StepWritten
  BY SameWritten DEF Render, vars
<1>6. ASSUME Looks PROVE StepWritten
  <2>1. \E next : Look(next)
    BY <1>6 DEF Looks, ShowBoard, ShowLevel, FilterEpics, ToggleClosed, ToggleBacklog,
                ToggleRowHidden, TogglePerson, RangeFrom, RangeTo, MetricsFrom, MetricsTo
  <2>. QED  BY <2>1, SameWritten DEF Look
<1>7. ASSUME NEW i \in DOMAIN rendered, NEW mode \in {"move", "resize"}, StartDrag(i, mode)
      PROVE  StepWritten
  BY <1>7, SameWritten DEF StartDrag
<1>8. ASSUME NEW f \in DOMAIN rendered, NEW side \in Sides, StartEpicResize(f, side)
      PROVE  StepWritten
  BY <1>8, SameWritten DEF StartEpicResize
<1>9. ASSUME OutsideEdits PROVE StepWritten
  <2>1. \E i, field, value : Outside(i, field, value)
    BY <1>9 DEF OutsideEdits
  <2>. QED  BY <2>1, SameWritten DEF Outside
<1>. QED  BY <1>1, <1>2, <1>3, <1>4, <1>5, <1>6, <1>7, <1>8, <1>9, SetFieldsWritten DEF Next

\* onUp, setField, setFeatRange: whatever gestures, polls and messages came before, a sprint,
\* a person or a state that a step changes on the board is the one its ticket shows, hence
\* the one that is sent to the server.  A drop in the backlog alone is on the board only; and
\* a state is not read back of a work item in a column while its level has none here.
THEOREM GesturesAreWritten == Spec => EditsAreWritten
<1>1. Init => NamesInv
  BY DEF Init, NamesInv
<1>2. StepWritten =>
        (rendered = items =>
           \A i \in DOMAIN items :
             LET told   == Reconciled(items'[i], tickets'[i], people, states)
                 strays == tickets[i].column # None /\ ~HasBoardColumns(states, items[i].level)
             IN  /\ items'[i].iter \notin {items[i].iter, BACKLOG} => items'[i].iter = told.iter
                 /\ items'[i].person # items[i].person => items'[i].person = told.person
                 /\ items'[i].state # items[i].state /\ ~strays => items'[i].state = told.state)
  BY DEF StepWritten, ItemWritten
<1>. QED
  BY <1>1, <1>2, NamesInvInductive, StepsWritten, BoardInvAlways, PTL DEF Spec, EditsAreWritten

-----------------------------------------------------------------------------
(* Sums over finite sets *)

\* Some of the sets of a collection have none of the others within them.
LEMMA SmallestSet ==
  ASSUME NEW S, IsFiniteSet(S), NEW B, B \subseteq SUBSET S, B # {}
  PROVE  \E t \in B : \A u \in SUBSET t : u \in B => u = t
<1>1. IsWellFoundedOn(StrictSubsetOrdering(S), SUBSET S)
  BY FS_StrictSubsetOrderingWellFounded, FS_FiniteSubsetsOfFinite
<1>2. PICK t \in B : \A u \in B : ~(<<u, t>> \in StrictSubsetOrdering(S))
  BY <1>1, WFMin
<1>3. ASSUME NEW u \in SUBSET t, u \in B, u # t PROVE FALSE
  <2>1. <<u, t>> \in StrictSubsetOrdering(S)
    BY <1>3 DEF StrictSubsetOrdering
  <2>. QED  BY <1>2, <1>3, <2>1
<1>. QED  BY <1>3

\* The element a sum takes next.
Picked(s) == CHOOSE x \in s : TRUE

\* g adds f up over the subsets of S.
Adds(g, f, S) ==
  g = [s \in SUBSET S |-> IF s = {} THEN 0 ELSE f[Picked(s)] + g[s \ {Picked(s)}]]

LEMMA PickedIn ==
  ASSUME NEW s, s # {}
  PROVE  Picked(s) \in s /\ s \ {Picked(s)} \in SUBSET s /\ s \ {Picked(s)} # s
BY Zenon DEF Picked

AddsUp(g, f, S) ==
  /\ g[{}] = 0
  /\ \A s \in SUBSET S : s # {} => g[s] = f[Picked(s)] + g[s \ {Picked(s)}]

LEMMA AddsIs ==
  ASSUME NEW S, NEW f, NEW g, Adds(g, f, S)
  PROVE  AddsUp(g, f, S)
BY DEF Adds, AddsUp

LEMMA AddsAgree ==
  ASSUME NEW S, IsFiniteSet(S), NEW T \in SUBSET S, NEW U \in SUBSET S, NEW f, NEW g, NEW h,
         Adds(g, f, T), Adds(h, f, U)
  PROVE  \A s \in SUBSET (T \cap U) : g[s] = h[s]
<1>. DEFINE B == {s \in SUBSET (T \cap U) : g[s] # h[s]}
<1>. SUFFICES ASSUME B # {} PROVE FALSE
  OBVIOUS
<1>1. PICK t \in B : \A u \in SUBSET t : u \in B => u = t
  <2>1. B \subseteq SUBSET S
    OBVIOUS
  <2>. HIDE DEF B
  <2>. QED  BY <2>1, SmallestSet
<1>0. AddsUp(g, f, T) /\ AddsUp(h, f, U)
  BY AddsIs
<1>2. t # {}
  BY <1>0, <1>1 DEF AddsUp
<1>3. t \ {Picked(t)} \notin B /\ t \ {Picked(t)} \in SUBSET (T \cap U)
  BY <1>1, <1>2, PickedIn
<1>4. t \in SUBSET T /\ t \in SUBSET U
  BY <1>1
<1>5. g[t] = f[Picked(t)] + g[t \ {Picked(t)}]
  BY <1>0, <1>2, <1>4 DEF AddsUp
<1>6. h[t] = f[Picked(t)] + h[t \ {Picked(t)}]
  BY <1>0, <1>2, <1>4 DEF AddsUp
<1>. QED  BY <1>1, <1>3, <1>5, <1>6

LEMMA AddsExists ==
  ASSUME NEW S, IsFiniteSet(S), NEW f
  PROVE  \E g : Adds(g, f, S)
<1>. DEFINE B == {T \in SUBSET S : ~\E g : Adds(g, f, T)}
<1>. SUFFICES ASSUME B # {} PROVE FALSE
  OBVIOUS
<1>1. PICK t \in B : \A u \in SUBSET t : u \in B => u = t
  <2>1. B \subseteq SUBSET S
    OBVIOUS
  <2>. HIDE DEF B
  <2>. QED  BY <2>1, SmallestSet
<1>. DEFINE G(u) == CHOOSE g : Adds(g, f, u)
            rest(s) == s \ {Picked(s)}
            h == [s \in SUBSET t |-> IF s = {} THEN 0 ELSE f[Picked(s)] + G(rest(s))[rest(s)]]
<1>2. \A u \in SUBSET t : u # t => Adds(G(u), f, u) /\ u \in SUBSET S
  BY <1>1
<1>. HIDE DEF G
<1>3. ASSUME NEW u \in SUBSET t, u # t PROVE h[u] = G(u)[u]
  <2>1. CASE u = {}
    BY <1>2, <1>3, <2>1, AddsIs DEF AddsUp
  <2>2. CASE u # {}
    <3>1. rest(u) \in SUBSET u /\ rest(u) # t /\ rest(u) \in SUBSET t
      BY <1>3, <2>2, PickedIn
    <3>2. Adds(G(u), f, u) /\ Adds(G(rest(u)), f, rest(u)) /\ u \in SUBSET S /\ rest(u) \in SUBSET S
      BY <1>2, <1>3, <3>1
    <3>3. G(u)[rest(u)] = G(rest(u))[rest(u)]
      <4>1. rest(u) \in SUBSET (u \cap rest(u))
        BY <3>1
      <4>2. \A s \in SUBSET (u \cap rest(u)) : G(u)[s] = G(rest(u))[s]
        <5>. HIDE DEF rest, h, B
        <5>. QED  BY ONLY IsFiniteSet(S), <3>2, AddsAgree
      <4>. QED  BY <4>1, <4>2
    <3>4. G(u)[u] = f[Picked(u)] + G(u)[rest(u)]
      BY <2>2, <3>2, AddsIs DEF AddsUp
    <3>. QED  BY <1>3, <2>2, <3>3, <3>4
  <2>. QED  BY <2>1, <2>2
<1>4. ASSUME NEW s \in SUBSET t, s # {} PROVE h[s] = f[Picked(s)] + h[rest(s)]
  <2>1. rest(s) \in SUBSET t /\ rest(s) # t
    BY <1>4, PickedIn
  <2>2. h[rest(s)] = G(rest(s))[rest(s)]
    <3>. HIDE DEF h, rest
    <3>. QED  BY <1>3, <2>1
  <2>3. h[s] = f[Picked(s)] + G(rest(s))[rest(s)]
    BY <1>4
  <2>. QED  BY <2>2, <2>3
<1>5. Adds(h, f, t)
  <2>1. h[{}] = 0
    OBVIOUS
  <2>2. h = [s \in SUBSET t |-> h[s]]
    OBVIOUS
  <2>3. \A s \in SUBSET t : h[s] = IF s = {} THEN 0 ELSE f[Picked(s)] + h[s \ {Picked(s)}]
    BY <1>4, <2>1
  <2>. HIDE DEF h
  <2>. QED  BY <2>2, <2>3 DEF Adds
<1>. QED  BY <1>1, <1>5

\* The sum of f over S.
Total(f, S) == SumFunctionOnSet(f, S)

LEMMA TotalAdds ==
  ASSUME NEW f, NEW S
  PROVE  Total(f, S) = (CHOOSE g : Adds(g, f, S))[S]
BY DEF Total, SumFunctionOnSet, FoldFunctionOnSet, MapThenFoldSet, Adds, Picked

LEMMA SumIsTotal ==
  ASSUME NEW f
  PROVE  SumFunction(f) = Total(f, DOMAIN f)
BY DEF SumFunction, Total

LEMMA TotalIs ==
  ASSUME NEW S, IsFiniteSet(S), NEW f
  PROVE  /\ S = {} => Total(f, S) = 0
         /\ S # {} => Total(f, S) = f[Picked(S)] + Total(f, S \ {Picked(S)})
<1>. DEFINE G(u) == CHOOSE g : Adds(g, f, u)
            R == S \ {Picked(S)}
<1>1. IsFiniteSet(R) /\ R \in SUBSET S
  BY FS_Subset
<1>2. Adds(G(S), f, S) /\ Adds(G(R), f, R)
  BY <1>1, AddsExists
<1>3. Total(f, S) = G(S)[S] /\ Total(f, R) = G(R)[R]
  BY TotalAdds
<1>. HIDE DEF G, R
<1>4. G(S)[R] = G(R)[R]
  <2>1. R \in SUBSET (S \cap R) /\ S \in SUBSET S
    BY <1>1
  <2>. QED  BY <1>1, <1>2, <2>1, AddsAgree
<1>5. S # {} => G(S)[S] = f[Picked(S)] + G(S)[R]
  BY <1>2, AddsIs DEF R, AddsUp
<1>6. S = {} => G(S)[S] = 0
  BY <1>2, AddsIs DEF AddsUp
<1>. QED  BY <1>3, <1>4, <1>5, <1>6 DEF R

LEMMA TotalType ==
  ASSUME NEW S, IsFiniteSet(S), NEW f, \A x \in S : f[x] \in Nat
  PROVE  Total(f, S) \in Nat
<1>. DEFINE B == {s \in SUBSET S : Total(f, s) \notin Nat}
<1>. SUFFICES ASSUME B # {} PROVE FALSE
  OBVIOUS
<1>1. PICK t \in B : \A u \in SUBSET t : u \in B => u = t
  <2>1. B \subseteq SUBSET S
    OBVIOUS
  <2>. HIDE DEF B
  <2>. QED  BY <2>1, SmallestSet
<1>2. IsFiniteSet(t) /\ t \in SUBSET S
  BY <1>1, FS_Subset
<1>3. t # {} /\ Total(f, t) = f[Picked(t)] + Total(f, t \ {Picked(t)})
  <2>1. t = {} => Total(f, t) \in Nat
    <3>1. t = {} => Total(f, t) = 0
      BY <1>2, TotalIs
    <3>. QED  BY <3>1
  <2>2. t # {}
    BY <1>1, <2>1
  <2>. QED  BY <1>2, <2>2, TotalIs
<1>4. Picked(t) \in t /\ t \ {Picked(t)} \in SUBSET t /\ t \ {Picked(t)} # t
  BY <1>3, PickedIn
<1>5. f[Picked(t)] \in Nat
  BY <1>2, <1>4
<1>6. t \ {Picked(t)} \in SUBSET S /\ t \ {Picked(t)} \notin B
  BY <1>1, <1>2, <1>4
<1>7. Total(f, t \ {Picked(t)}) \in Nat
  BY <1>6
<1>. QED  BY <1>1, <1>3, <1>5, <1>7

\* Any element may be added last.
LEMMA TotalLast ==
  ASSUME NEW S, IsFiniteSet(S), NEW f, \A x \in S : f[x] \in Nat, NEW y \in S
  PROVE  Total(f, S) = f[y] + Total(f, S \ {y})
<1>. DEFINE Split(s, x) == Total(f, s) = f[x] + Total(f, s \ {x})
            B == {s \in SUBSET S : \E x \in s : ~Split(s, x)}
<1>. SUFFICES ASSUME B # {} PROVE FALSE
  OBVIOUS
<1>1. PICK t \in B : \A u \in SUBSET t : u \in B => u = t
  <2>1. B \subseteq SUBSET S
    OBVIOUS
  <2>. HIDE DEF B
  <2>. QED  BY <2>1, SmallestSet
<1>2. PICK x \in t : ~Split(t, x)
  BY <1>1
<1>. DEFINE c == Picked(t)
<1>3. t \in SUBSET S /\ IsFiniteSet(t) /\ c \in t /\ x \in t
  BY <1>1, <1>2, FS_Subset, PickedIn
<1>4. Split(t, c)
  BY <1>3, TotalIs
<1>5. x # c
  BY <1>2, <1>4
<1>6. t \ {c} \in SUBSET t /\ t \ {c} # t /\ t \ {x} \in SUBSET t /\ t \ {x} # t
  BY <1>3
<1>7. Split(t \ {c}, x) /\ Split(t \ {x}, c)
  <2>1. t \ {c} \notin B /\ t \ {x} \notin B
    BY <1>1, <1>6
  <2>2. t \ {c} \in SUBSET S /\ t \ {x} \in SUBSET S /\ x \in t \ {c} /\ c \in t \ {x}
    BY <1>3, <1>5
  <2>. HIDE DEF Split, c
  <2>. QED  BY <2>1, <2>2
<1>8. (t \ {c}) \ {x} = (t \ {x}) \ {c}
  OBVIOUS
<1>. DEFINE r == (t \ {x}) \ {c}
<1>9. f[x] \in Nat /\ f[c] \in Nat /\ Total(f, r) \in Nat
  BY <1>3, FS_Subset, TotalType
<1>10. /\ Total(f, t) = f[c] + Total(f, t \ {c})
       /\ Total(f, t \ {c}) = f[x] + Total(f, r)
       /\ Total(f, t \ {x}) = f[c] + Total(f, r)
  BY <1>4, <1>7, <1>8
<1>. HIDE DEF c, r
<1>11. Total(f, t) = f[x] + Total(f, t \ {x})
  BY <1>9, <1>10
<1>. QED  BY <1>2, <1>11

\* The sum depends on the elements only.
LEMMA TotalSame ==
  ASSUME NEW S, IsFiniteSet(S), NEW f, NEW g, \A x \in S : f[x] = g[x]
  PROVE  Total(f, S) = Total(g, S)
<1>. DEFINE B == {s \in SUBSET S : Total(f, s) # Total(g, s)}
<1>. SUFFICES ASSUME B # {} PROVE FALSE
  OBVIOUS
<1>1. PICK t \in B : \A u \in SUBSET t : u \in B => u = t
  <2>1. B \subseteq SUBSET S
    OBVIOUS
  <2>. HIDE DEF B
  <2>. QED  BY <2>1, SmallestSet
<1>2. IsFiniteSet(t) /\ t \in SUBSET S
  BY <1>1, FS_Subset
<1>3. t # {}
  BY <1>1, <1>2, TotalIs
<1>4. Total(f, t \ {Picked(t)}) = Total(g, t \ {Picked(t)}) /\ f[Picked(t)] = g[Picked(t)]
  BY <1>1, <1>2, <1>3, PickedIn
<1>5. /\ Total(f, t) = f[Picked(t)] + Total(f, t \ {Picked(t)})
      /\ Total(g, t) = g[Picked(t)] + Total(g, t \ {Picked(t)})
  BY <1>2, <1>3, TotalIs
<1>. QED  BY <1>1, <1>4, <1>5

\* Sums over sets without common elements add up.
LEMMA TotalUnion ==
  ASSUME NEW S, IsFiniteSet(S), NEW f, \A x \in S : f[x] \in Nat,
         NEW V \in SUBSET S, NEW W \in SUBSET S, V \cap W = {}
  PROVE  Total(f, V \cup W) = Total(f, V) + Total(f, W)
<1>. DEFINE B == {s \in SUBSET W : Total(f, V \cup s) # Total(f, V) + Total(f, s)}
<1>. SUFFICES ASSUME B # {} PROVE FALSE
  OBVIOUS
<1>1. PICK t \in B : \A u \in SUBSET t : u \in B => u = t
  <2>1. B \subseteq SUBSET W /\ IsFiniteSet(W)
    BY FS_Subset
  <2>. HIDE DEF B
  <2>. QED  BY <2>1, SmallestSet
<1>2. IsFiniteSet(t) /\ t \in SUBSET W /\ IsFiniteSet(V) /\ IsFiniteSet(V \cup t)
  BY <1>1, FS_Subset
<1>3. Total(f, V) \in Nat
  BY <1>2, TotalType
<1>4. t # {}
  <2>1. CASE t = {}
    <3>1. V \cup t = V
      BY <2>1
    <3>2. Total(f, t) = 0
      <4>. HIDE DEF B
      <4>. QED  BY <1>2, <2>1, TotalIs
    <3>3. Total(f, V) = Total(f, V) + Total(f, t)
      BY <1>3, <3>2
    <3>4. Total(f, V \cup t) = Total(f, V) + Total(f, t)
      BY ONLY <3>1, <3>3
    <3>. QED  BY <1>1, <3>4
  <2>. QED  BY <2>1
<1>. DEFINE c == Picked(t)
<1>5. c \in t /\ t \ {c} \in SUBSET t /\ t \ {c} # t
  BY <1>4, PickedIn
<1>6. (V \cup t) \ {c} = V \cup (t \ {c})
  BY <1>2, <1>5
<1>7. Total(f, V \cup (t \ {c})) = Total(f, V) + Total(f, t \ {c})
  BY <1>1, <1>2, <1>5
<1>8. Total(f, t) = f[c] + Total(f, t \ {c})
  BY <1>2, <1>4, TotalIs
<1>9. Total(f, V \cup t) = f[c] + Total(f, V \cup (t \ {c}))
  <2>1. c \in V \cup t /\ \A x \in V \cup t : f[x] \in Nat
    BY <1>2, <1>5
  <2>. QED  BY <1>2, <1>6, <2>1, TotalLast
<1>10. f[c] \in Nat /\ Total(f, t \ {c}) \in Nat
  <2>1. IsFiniteSet(t \ {c}) /\ \A x \in t \ {c} : f[x] \in Nat
    BY <1>2, FS_Subset
  <2>. QED  BY <1>2, <1>5, <2>1, TotalType
<1>. HIDE DEF c
<1>11. Total(f, V \cup t) = Total(f, V) + Total(f, t)
  BY <1>3, <1>7, <1>8, <1>9, <1>10
<1>. QED  BY <1>1, <1>11

\* The sum over the elements of a family of sets without common elements is the sum of
\* the sums over each.
LEMMA TotalNested ==
  ASSUME NEW S, IsFiniteSet(S), NEW f, \A x \in S : f[x] \in Nat,
         NEW T, IsFiniteSet(T), NEW D, \A n \in T : D[n] \in SUBSET S,
         \A n, m \in T : n # m => D[n] \cap D[m] = {}
  PROVE  Total([n \in T |-> Total(f, D[n])], T) = Total(f, UNION {D[n] : n \in T})
<1>. DEFINE sums == [n \in T |-> Total(f, D[n])]
            All(s) == UNION {D[n] : n \in s}
            B == {s \in SUBSET T : Total(sums, s) # Total(f, All(s))}
<1>. SUFFICES ASSUME B # {} PROVE FALSE
  OBVIOUS
<1>1. PICK t \in B : \A u \in SUBSET t : u \in B => u = t
  <2>1. B \subseteq SUBSET T
    OBVIOUS
  <2>. HIDE DEF B
  <2>. QED  BY <2>1, SmallestSet
<1>2. IsFiniteSet(t) /\ t \in SUBSET T
  BY <1>1, FS_Subset
<1>3. t # {}
  <2>1. CASE t = {}
    <3>1. All(t) = {} /\ IsFiniteSet({})
      BY <2>1, FS_EmptySet
    <3>. HIDE DEF All
    <3>2. Total(sums, t) = 0 /\ Total(f, All(t)) = 0
      BY <1>2, <2>1, <3>1, TotalIs
    <3>. QED  BY <1>1, <3>2
  <2>. QED  BY <2>1
<1>. DEFINE c == Picked(t)
            u == t \ {c}
<1>4. c \in t /\ u \in SUBSET t /\ u # t
  BY <1>3, PickedIn
<1>5. Total(sums, t) = sums[c] + Total(sums, u)
  BY <1>2, <1>3, TotalIs
<1>6. Total(sums, u) = Total(f, All(u))
  BY <1>1, <1>2, <1>4
<1>7. All(t) = All(u) \cup D[c]
  BY <1>4
<1>8. All(u) \in SUBSET S /\ D[c] \in SUBSET S /\ All(u) \cap D[c] = {}
  BY <1>2, <1>4
<1>9. sums[c] = Total(f, D[c])
  BY <1>2, <1>4
<1>10. Total(f, All(u)) \in Nat /\ Total(f, D[c]) \in Nat
  BY <1>8, FS_Subset, TotalType
<1>. HIDE DEF sums, All, c, u
<1>11. Total(f, All(t)) = Total(f, All(u)) + Total(f, D[c])
  BY <1>7, <1>8, TotalUnion
<1>12. Total(sums, t) = Total(f, All(t))
  BY <1>5, <1>6, <1>9, <1>10, <1>11
<1>. QED  BY <1>1, <1>12

\* The efforts of some items.
Efforts(its) == [i \in DOMAIN its |-> its[i].effort]

LEMMA EffortIsTotal ==
  ASSUME NEW its, NEW us \in SUBSET DOMAIN its, IsFiniteSet(us)
  PROVE  EffortOf(its, us) = Total(Efforts(its), us)
<1>. DEFINE own == [i \in us |-> its[i].effort]
<1>1. EffortOf(its, us) = Total(own, us)
  BY SumIsTotal DEF EffortOf
<1>2. \A i \in us : own[i] = Efforts(its)[i]
  BY DEF Efforts
<1>. HIDE DEF own
<1>3. Total(own, us) = Total(Efforts(its), us)
  BY <1>2, TotalSame
<1>. QED  BY <1>1, <1>3

-----------------------------------------------------------------------------
(* The load band *)

LEMMA TreeFinite ==
  ASSUME BoardInv
  PROVE  IsFiniteSet(BuildTree(rendered, view))
<1>. DEFINE E == Of(rendered, "epic") \cup {NoEpic}
            all == {NodeOf(rendered, e) : e \in E}
<1>1. IsFiniteSet(DOMAIN rendered)
  BY BoardFinite
<1>2. IsFiniteSet(Of(rendered, "epic"))
  BY <1>1, FS_Subset DEF Of
<1>3. IsFiniteSet(E)
  BY <1>2, FS_AddElement
<1>4. IsFiniteSet(all)
  <2>. DEFINE nodeOf == [e \in E |-> NodeOf(rendered, e)]
  <2>1. nodeOf \in Surjection(E, all)
    BY DEF Surjection
  <2>. HIDE DEF E, all
  <2>. QED  BY <1>3, <2>1, FS_Surjection DEF ExistsSurjection
<1>5. \A n \in Nodes(rendered) : n.epic \in E
  <2>1. \A e : NodeOf(rendered, e).epic = e
    BY DEF NodeOf
  <2>2. \A n \in Nodes(rendered) : \E e \in E : n = NodeOf(rendered, e)
    BY Zenon DEF Nodes, NodeOf
  <2>. QED  BY <2>1, <2>2
<1>6. BuildTree(rendered, view) \subseteq all
  <2>1. BuildTree(rendered, view) \subseteq Nodes(rendered)
    BY DEF BuildTree
  <2>. QED  BY <1>5, <2>1, NodesAre
<1>. QED  BY <1>4, <1>6, FS_Subset

LEMMA StoriesOfNode ==
  ASSUME NEW its, NEW n \in Nodes(its)
  PROVE  NodeStories(its, n) \subseteq Of(its, "story")
<1>1. n = NodeOf(its, n.epic)
  BY NodesAre
<1>2. n.stories \subseteq Of(its, "story")
  BY <1>1 DEF NodeOf, Loose
<1>. QED  BY <1>2 DEF NodeStories, StoriesOf

\* The bar of a row that has no range to be drawn on has no load on the grid.
LEMMA BarIsCharge ==
  ASSUME NEW its, NEW v, NEW n, NEW c \in Columns, IsFiniteSet(DOMAIN its),
         EpicRange(its, n) \in Ranges \cup {None},
         n.epic # NoEpic /\ Dated(its[n.epic]) => its[n.epic].dates \in Int \X Int
  PROVE  BarShows(its, v, n, c) = ParentCharge(its, v, NodeStories(its, n), c)
<1>. DEFINE range == EpicRange(its, n)
            us == NodeStories(its, n)
<1>0. None \notin Ranges
  BY AdoReadAssumption
<1>1. CASE range \in Ranges
  <2>1. Greatest(range[1], 0) <= Least(range[2], NITER - 1)
    BY <1>1, GridAssumption DEF Ranges, Columns, Greatest, Least
  <2>. QED  BY <1>0, <1>1, <2>1 DEF BarShows
<1>2. CASE range = None
  <2>1. ~(n.epic # NoEpic /\ Dated(its[n.epic]))
    BY <1>0, <1>2, DatesStayOnGrid DEF EpicRange
  <2>2. DerivedRange(its, us) = None
    BY <1>2, <2>1 DEF EpicRange
  <2>3. {its[i].iter : i \in us} \cap Columns = {}
    <3>. DEFINE planned == {its[i].iter : i \in us} \cap Columns
    <3>. SUFFICES ASSUME planned # {} PROVE FALSE
      OBVIOUS
    <3>. QED  BY <1>0, <2>2, DerivedOfPlanned
  <2>4. {i \in us \cap Counted(its, v) : its[i].iter = c} = {}
    BY <2>3
  <2>5. ParentCharge(its, v, us, c) = EffortOf(its, {})
    BY <2>4 DEF ParentCharge
  <2>6. EffortOf(its, {}) = 0
    BY FS_EmptySet, EffortIsTotal, TotalIs
  <2>7. BarShows(its, v, n, c) = 0
    BY <1>2 DEF BarShows
  <2>. QED  BY <2>5, <2>6, <2>7
<1>. QED  BY <1>1, <1>2

\* releaseStories: on any board that is reached, and under every filter, the load band of a
\* column is the sum of what the bars of the epics show there, less the hidden rows.
THEOREM BandIsBars == Spec => []BandIsTheBars
<1>1. ASSUME BoardInv, page = "open", NEW c \in Columns
      PROVE  LET tree   == BuildTree(rendered, view)
                 shown  == SumFunction([n \in tree |-> BarShows(rendered, view, n, c)])
                 hidden == {i \in HiddenStoryIds(rendered, view) \cap Counted(rendered, view) :
                              /\ rendered[i].iter = c
                              /\ \E n \in tree : i \in NodeStories(rendered, n)}
             IN  RelLoadBand(rendered, view, c) + EffortOf(rendered, hidden) = shown
  <2>. DEFINE its == rendered
              S == DOMAIN rendered
              f == Efforts(its)
              tree == BuildTree(its, view)
              here(us) == {i \in us \cap Counted(its, view) : its[i].iter = c}
              D == [n \in tree |-> here(NodeStories(its, n))]
              hidden == {i \in HiddenStoryIds(its, view) \cap Counted(its, view) :
                              /\ its[i].iter = c
                              /\ \E n \in tree : i \in NodeStories(its, n)}
              loaded == {i \in (ReleaseStories(its, view) \cap Counted(its, view))
                               \ HiddenStoryIds(its, view) : its[i].iter = c}
              bars == [n \in tree |-> BarShows(its, view, n, c)]
              sum == SumFunction(bars)
  <2>1. IsFiniteSet(S) /\ IsFiniteSet(tree) /\ \A i \in S : ItemShape(its[i])
    BY <1>1, BoardFinite, TreeFinite DEF BoardInv, BoardOK
  <2>2. \A i \in S : f[i] \in Nat
    BY <2>1 DEF Efforts, ItemShape, ItemType
  <2>3. \A us : here(us) \in SUBSET S
    BY DEF Counted
  <2>4. ASSUME NEW n \in tree PROVE BarShows(its, view, n, c) = Total(f, D[n])
    <3>1. n \in Nodes(its) /\ EpicRange(its, n) \in Ranges \cup {None}
      BY <1>1, RowsOnGrid DEF BuildTree
    <3>2. n.epic # NoEpic => n.epic \in S
      BY <3>1 DEF Nodes, Of
    <3>3. n.epic # NoEpic /\ Dated(its[n.epic]) => its[n.epic].dates \in Int \X Int
      BY <2>1, <3>2, DatedIs DEF ItemShape
    <3>4. BarShows(its, view, n, c) = EffortOf(its, D[n])
      BY <2>1, <3>1, <3>3, BarIsCharge DEF ParentCharge
    <3>5. IsFiniteSet(D[n]) /\ D[n] \in SUBSET S
      BY <2>1, <2>3, FS_Subset
    <3>. HIDE DEF D
    <3>. QED  BY <3>4, <3>5, EffortIsTotal
  <2>5. \A n, m \in tree : n # m => D[n] \cap D[m] = {}
    <3>1. tree \subseteq Nodes(its)
      BY DEF BuildTree
    <3>2. \A n \in Nodes(its) : NodeStories(its, n) \subseteq Of(its, "story")
      BY StoriesOfNode
    <3>3. ASSUME NEW n \in Nodes(its), NEW m \in Nodes(its),
                 NEW i \in NodeStories(its, n) \cap NodeStories(its, m)
          PROVE  n = m
      BY <3>2, <3>3, NodesAre, StoryNode
    <3>4. \A n \in tree : D[n] \subseteq NodeStories(its, n)
      OBVIOUS
    <3>. HIDE DEF D, tree
    <3>. QED  BY <3>1, <3>3, <3>4
  <2>6. UNION {D[n] : n \in tree} = here(ReleaseStories(its, view))
    BY DEF ReleaseStories
  <2>7. here(ReleaseStories(its, view)) = loaded \cup hidden /\ loaded \cap hidden = {}
    BY DEF ReleaseStories
  <2>8. loaded \in SUBSET S /\ hidden \in SUBSET S
    BY DEF Counted
  <2>9. IsFiniteSet(loaded) /\ IsFiniteSet(hidden)
    BY <2>1, <2>8, FS_Subset
  <2>10. sum = Total(bars, tree)
    BY SumIsTotal
  <2>11. bars = [n \in tree |-> Total(f, D[n])]
    BY <2>4
  <2>. HIDE DEF its, S, f, tree, here, D, hidden, loaded, bars, sum
  <2>12. Total([n \in tree |-> Total(f, D[n])], tree) = Total(f, UNION {D[n] : n \in tree})
    <3>1. \A n \in tree : D[n] \in SUBSET S
      BY <2>3 DEF D
    <3>. QED  BY <2>1, <2>2, <2>5, <3>1, TotalNested
  <2>13. Total(f, loaded \cup hidden) = Total(f, loaded) + Total(f, hidden)
    BY <2>1, <2>2, <2>7, <2>8, TotalUnion
  <2>14. EffortOf(its, loaded) = Total(f, loaded) /\ EffortOf(its, hidden) = Total(f, hidden)
    BY <2>8, <2>9, EffortIsTotal DEF f, S, its
  <2>15. EffortOf(its, loaded) + EffortOf(its, hidden) = sum
    BY <2>6, <2>7, <2>10, <2>11, <2>12, <2>13, <2>14
  <2>16. RelLoadBand(its, view, c) = EffortOf(its, loaded)
    BY DEF RelLoadBand, loaded
  <2>. QED  BY <2>15, <2>16 DEF its, tree, hidden, bars, sum
<1>2. BoardInv => BandIsTheBars
  BY <1>1 DEF BandIsTheBars
<1>. QED  BY <1>2, BoardInvAlways, PTL

-----------------------------------------------------------------------------
(* The rows of the tree *)

\* The elements of S before n.
Below(S, R, n) == {m \in S : <<m, n>> \in R}

\* R orders S.
Orders(R, S) ==
  /\ \A n \in S : <<n, n>> \notin R
  /\ \A n, m \in S : n # m => <<n, m>> \in R \/ <<m, n>> \in R
  /\ \A n, m, o \in S : <<n, m>> \in R /\ <<m, o>> \in R => <<n, o>> \in R

\* Counting the elements before each numbers those of an ordered set.
LEMMA OrderNumbers ==
  ASSUME NEW S, IsFiniteSet(S), NEW R, Orders(R, S)
  PROVE  [n \in S |-> Cardinality(Below(S, R, n)) + 1] \in Bijection(S, 1 .. Cardinality(S))
<1>. DEFINE N == Cardinality(S)
            row == [n \in S |-> Cardinality(Below(S, R, n)) + 1]
<1>0. N \in Nat
  BY FS_CardinalityType
<1>1. ASSUME NEW n \in S
      PROVE  /\ IsFiniteSet(Below(S, R, n)) /\ Cardinality(Below(S, R, n)) \in 0 .. N - 1
  <2>1. Below(S, R, n) \in SUBSET (S \ {n})
    BY DEF Below, Orders
  <2>2. IsFiniteSet(S \ {n}) /\ Cardinality(S \ {n}) = N - 1
    BY FS_RemoveElement
  <2>3. IsFiniteSet(Below(S, R, n)) /\ Cardinality(Below(S, R, n)) <= N - 1
    BY <2>1, <2>2, FS_Subset
  <2>4. Cardinality(Below(S, R, n)) \in Nat
    BY <2>3, FS_CardinalityType
  <2>. QED  BY <1>0, <2>3, <2>4
<1>2. row \in [S -> 1 .. N]
  BY <1>0, <1>1
<1>3. ASSUME NEW n \in S, NEW m \in S, <<n, m>> \in R PROVE row[n] # row[m]
  <2>1. Below(S, R, n) \in SUBSET Below(S, R, m)
    BY <1>3 DEF Below, Orders
  <2>2. n \in Below(S, R, m) /\ n \notin Below(S, R, n)
    BY <1>3 DEF Below, Orders
  <2>3. Cardinality(Below(S, R, n)) # Cardinality(Below(S, R, m))
    BY <1>1, <2>1, <2>2, FS_Subset
  <2>. QED  BY <1>1, <2>3
<1>4. row \in Injection(S, 1 .. N)
  <2>1. \A n, m \in S : n # m => row[n] # row[m]
    BY <1>3 DEF Orders
  <2>. HIDE DEF row, N
  <2>. QED  BY <1>2, <2>1 DEF Injection, IsInjective
<1>5. IsFiniteSet(1 .. N) /\ Cardinality(1 .. N) = N
  BY <1>0, FS_Interval
<1>6. row \in Surjection(S, 1 .. N)
  <2>. HIDE DEF row
  <2>. QED  BY <1>4, <1>5, FS_Injection
<1>. QED  BY <1>4, <1>6 DEF Bijection

LEMMA BucketIs ==
  ASSUME NEW its, NEW n
  PROVE  BucketOf(its, n) \in 0 .. 4
<1>. DEFINE range == EpicRange(its, n)
            us == NodeStories(its, n)
<1>1. StatusBucket(its, range, us) \in 0 .. 4
  <2>. HIDE DEF range, us
  <2>1. CASE range = None
    BY <2>1 DEF StatusBucket
  <2>2. CASE range # None /\ range[1] <= CURRENT /\ CURRENT <= range[2]
    BY <2>2 DEF StatusBucket
  <2>3. CASE range # None /\ ~(range[1] <= CURRENT /\ CURRENT <= range[2])
    BY <2>3 DEF StatusBucket
  <2>. QED  BY <2>1, <2>2, <2>3
<1>. QED  BY <1>1 DEF BucketOf

LEMMA NodeEpic ==
  ASSUME NEW its, NEW n \in Nodes(its)
  PROVE  n.epic \in Of(its, "epic") \cup {NoEpic}
<1>1. \A e : NodeOf(its, e).epic = e
  BY DEF NodeOf
<1>2. \E e \in Of(its, "epic") \cup {NoEpic} : n = NodeOf(its, e)
  BY Zenon DEF Nodes, NodeOf
<1>. QED  BY <1>1, <1>2

\* Four numbers before four others: at the first that differs.
Before4(a, b) ==
  \/ a[1] < b[1]
  \/ a[1] = b[1] /\ a[2] < b[2]
  \/ a[1] = b[1] /\ a[2] = b[2] /\ a[3] < b[3]
  \/ a[1] = b[1] /\ a[2] = b[2] /\ a[3] = b[3] /\ a[4] < b[4]

LEMMA BeforeIs ==
  ASSUME NEW its, NEW n, NEW m
  PROVE  RowBefore(its, n, m) <=> Before4(RowKey(its, n), RowKey(its, m))
<1>. DEFINE a == RowKey(its, n)
            b == RowKey(its, m)
            At(k) == a[k] < b[k] /\ \A j \in 1 .. k - 1 : a[j] = b[j]
<1>1. RowBefore(its, n, m) <=> \E k \in 1 .. 4 : At(k)
  BY DEF RowBefore
<1>2. 1 .. 1 - 1 = {} /\ 1 .. 2 - 1 = {1} /\ 1 .. 3 - 1 = {1, 2} /\ 1 .. 4 - 1 = {1, 2, 3}
      /\ 1 .. 4 = {1, 2, 3, 4}
  OBVIOUS
<1>. HIDE DEF a, b
<1>3. /\ At(1) <=> a[1] < b[1]
      /\ At(2) <=> a[2] < b[2] /\ a[1] = b[1]
      /\ At(3) <=> a[3] < b[3] /\ a[1] = b[1] /\ a[2] = b[2]
      /\ At(4) <=> a[4] < b[4] /\ a[1] = b[1] /\ a[2] = b[2] /\ a[3] = b[3]
  BY <1>2
<1>. HIDE DEF At
<1>4. (\E k \in 1 .. 4 : At(k)) <=> At(1) \/ At(2) \/ At(3) \/ At(4)
  BY <1>2
<1>. QED  BY <1>1, <1>3, <1>4 DEF Before4, a, b

\* The rows are ordered.
RowOrder(its, T) == {p \in T \X T : RowBefore(its, p[1], p[2])}

LEMMA RowsAreOrdered ==
  ASSUME NEW its, DOMAIN its \subseteq WorkItem, NEW T \in SUBSET Nodes(its),
         \A n \in T : EpicRange(its, n) \in Ranges \cup {None}
  PROVE  Orders(RowOrder(its, T), T)
<1>. DEFINE key(n) == RowKey(its, n)
<1>1. \A n, m \in T : <<n, m>> \in RowOrder(its, T) <=> Before4(key(n), key(m))
  BY BeforeIs DEF RowOrder
<1>2. \A n \in T : n.epic \in WorkItem \cup {NoEpic} /\ n = NodeOf(its, n.epic)
  <2>1. \A n \in Nodes(its) : n.epic \in Of(its, "epic") \cup {NoEpic}
    BY NodeEpic
  <2>. QED  BY <2>1, NodesAre DEF Of
<1>3. ASSUME NEW n \in T
      PROVE  /\ key(n)[1] \in Int /\ key(n)[2] \in Int /\ key(n)[3] \in Int
             /\ key(n)[4] = Rank[n.epic] /\ Rank[n.epic] \in Int
  <2>. DEFINE range == EpicRange(its, n)
              first == IF range = None THEN 99 ELSE range[1]
              bucket == BucketOf(its, n)
  <2>1. first \in Int
    <3>1. range \in Ranges \cup {None}
      OBVIOUS
    <3>2. \A r \in Ranges : r[1] \in Int
      BY GridAssumption DEF Ranges, Columns
    <3>. HIDE DEF range
    <3>. QED  BY <3>1, <3>2
  <2>2. bucket \in Int
    BY BucketIs
  <2>3. Priority[n.epic] \in Int /\ Rank[n.epic] \in Int
    BY <1>2, PlanAssumption
  <2>4. key(n) = <<bucket, Priority[n.epic], first, Rank[n.epic]>>
    BY DEF RowKey
  <2>. HIDE DEF bucket, first, key
  <2>. QED  BY <2>1, <2>2, <2>3, <2>4
<1>4. ASSUME NEW n \in T, NEW m \in T, n # m PROVE key(n)[4] # key(m)[4]
  <2>1. n.epic # m.epic
    BY <1>2, <1>4
  <2>. QED  BY <1>2, <1>3, <2>1, PlanAssumption
<1>5. \A n \in T : key(n)[1] \in Int /\ key(n)[2] \in Int /\ key(n)[3] \in Int /\ key(n)[4] \in Int
  BY <1>3
<1>. HIDE DEF key
<1>6. \A n \in T : <<n, n>> \notin RowOrder(its, T)
  BY <1>1, <1>5 DEF Before4
<1>7. \A n, m \in T : n # m => <<n, m>> \in RowOrder(its, T) \/ <<m, n>> \in RowOrder(its, T)
  BY <1>1, <1>4, <1>5 DEF Before4
<1>8. \A n, m, o \in T : <<n, m>> \in RowOrder(its, T) /\ <<m, o>> \in RowOrder(its, T)
                           => <<n, o>> \in RowOrder(its, T)
  BY <1>1, <1>5 DEF Before4
<1>. QED  BY <1>6, <1>7, <1>8 DEF Orders

\* The rows of the tree are its nodes, each once.
LEMMA RowsAreNodes ==
  ASSUME NEW its, DOMAIN its \subseteq WorkItem, NEW v, IsFiniteSet(BuildTree(its, v)),
         \A n \in BuildTree(its, v) : EpicRange(its, n) \in Ranges \cup {None}
  PROVE  LET rows == TreeRows(its, v)
             tree == BuildTree(its, v)
         IN  /\ Cardinality(tree) \in Nat
             /\ rows \in Bijection(1 .. Cardinality(tree), tree)
<1>. DEFINE tree == BuildTree(its, v)
            N == Cardinality(tree)
            rows == TreeRows(its, v)
            row == [n \in tree |-> Cardinality(Below(tree, RowOrder(its, tree), n)) + 1]
<1>1. tree \in SUBSET Nodes(its) /\ N \in Nat
  BY FS_CardinalityType DEF BuildTree
<1>2. row \in Bijection(tree, 1 .. N)
  <2>1. Orders(RowOrder(its, tree), tree) /\ IsFiniteSet(tree)
    BY <1>1, RowsAreOrdered
  <2>. HIDE DEF tree
  <2>. QED  BY <2>1, OrderNumbers
<1>3. \A n \in tree : {m \in tree : RowBefore(its, m, n)} = Below(tree, RowOrder(its, tree), n)
  BY DEF Below, RowOrder
<1>4. /\ rows = [k \in 1 .. N |-> rows[k]]
      /\ \A k \in 1 .. N : rows[k] = CHOOSE n \in tree : row[n] = k
  <2>1. \A n \in tree : Cardinality({m \in tree : RowBefore(its, m, n)}) + 1 = row[n]
    BY <1>3
  <2>2. rows = [k \in 1 .. N |->
                 CHOOSE n \in tree : Cardinality({m \in tree : RowBefore(its, m, n)}) + 1 = k]
    BY DEF TreeRows
  <2>3. ASSUME NEW k \in 1 .. N
        PROVE  (CHOOSE n \in tree : Cardinality({m \in tree : RowBefore(its, m, n)}) + 1 = k)
                 = CHOOSE n \in tree : row[n] = k
    <3>. HIDE DEF tree, row
    <3>. QED  BY <2>1
  <2>4. ASSUME NEW k \in 1 .. N PROVE rows[k] = CHOOSE n \in tree : row[n] = k
    <3>1. rows[k] = CHOOSE n \in tree :
                      Cardinality({m \in tree : RowBefore(its, m, n)}) + 1 = k
      <4>. HIDE DEF rows, tree
      <4>. QED  BY <2>2
    <3>. HIDE DEF rows, tree, row
    <3>. QED  BY <2>3, <3>1
  <2>. HIDE DEF rows, tree, row
  <2>. QED  BY <2>2, <2>4
<1>. HIDE DEF rows, N, tree, row
<1>5. /\ \A n \in tree : row[n] \in 1 .. N
      /\ \A n, m \in tree : row[n] = row[m] => n = m
      /\ \A k \in 1 .. N : \E n \in tree : row[n] = k
  BY <1>2 DEF Bijection, Injection, Surjection, IsInjective
<1>6. \A k \in 1 .. N : rows[k] \in tree /\ row[rows[k]] = k
  BY <1>4, <1>5
<1>7. \A n \in tree : rows[row[n]] = n
  BY <1>5, <1>6
<1>8. rows \in Injection(1 .. N, tree)
  <2>1. rows = [k \in 1 .. N |-> rows[k]]
    BY <1>4
  <2>. QED  BY <1>6, <2>1 DEF Injection, IsInjective
<1>9. rows \in Surjection(1 .. N, tree)
  BY <1>5, <1>7, <1>8 DEF Surjection, Injection
<1>. QED  BY <1>1, <1>8, <1>9 DEF rows, N, tree, Bijection

-----------------------------------------------------------------------------
(* The capacity of the metrics *)

LEMMA WorkingDaysType ==
  ASSUME NEW range \in Int \X Int, NEW from \in Int, NEW to \in Int
  PROVE  WorkingDays(range, from, to) \in Nat
<1>. DEFINE a == Greatest(range[1], from)
            b == Least(range[2], to)
            D == {d \in a .. b : d \in DayWorked}
<1>1. a \in Int /\ b \in Int
  BY DEF Greatest, Least
<1>2. IsFiniteSet(a .. b) /\ D \in SUBSET (a .. b)
  <2>. HIDE DEF a, b
  <2>. QED  BY <1>1, FS_Interval
<1>3. Cardinality(D) \in Nat
  <2>. HIDE DEF a, b, D
  <2>. QED  BY <1>2, FS_Subset, FS_CardinalityType
<1>. QED  BY <1>3 DEF WorkingDays

LEMMA CapacityType ==
  ASSUME NEW p, NEW c \in Columns
  PROVE  SeedCapacities(p, c) \in Nat
<1>. DEFINE days(range) == WorkingDays(range, starts[c], finishes[c])
            off(ranges) == SumFunction([k \in DOMAIN ranges |-> days(ranges[k])])
<1>1. starts[c] \in Int /\ finishes[c] \in Int
  BY GridAssumption DEF Columns
<1>2. \A range \in Int \X Int : days(range) \in Nat
  BY <1>1, WorkingDaysType
<1>3. ASSUME NEW ranges \in Seq(Int \X Int) PROVE off(ranges) \in Nat
  <2>. DEFINE f == [k \in DOMAIN ranges |-> days(ranges[k])]
  <2>1. DOMAIN ranges = 1 .. Len(ranges) /\ Len(ranges) \in Nat
    OBVIOUS
  <2>2. IsFiniteSet(DOMAIN ranges)
    BY <2>1, FS_Interval
  <2>3. \A k \in DOMAIN ranges : ranges[k] \in Int \X Int
    BY <2>1
  <2>4. \A k \in DOMAIN ranges : f[k] \in Nat
    <3>. HIDE DEF days
    <3>. QED  BY <1>2, <2>3
  <2>5. DOMAIN f = DOMAIN ranges
    OBVIOUS
  <2>. HIDE DEF f
  <2>6. SumFunction(f) \in Nat
    BY <2>2, <2>4, <2>5, SumIsTotal, TotalType
  <2>. QED  BY <2>6 DEF f
<1>4. CASE finishes[c] >= Today /\ p \in GetCapacities(c)
  <2>1. TeamOff[c] \in Seq(Int \X Int) /\ MemberOff[c][p] \in Seq(Int \X Int)
    BY <1>4, DaysAssumption DEF GetCapacities
  <2>2. days(<<starts[c], finishes[c]>>) \in Nat /\ off(TeamOff[c]) \in Nat
        /\ off(MemberOff[c][p]) \in Nat
    <3>1. <<starts[c], finishes[c]>> \in Int \X Int
      BY <1>1
    <3>. HIDE DEF days, off
    <3>. QED  BY <1>2, <1>3, <2>1, <3>1
  <2>3. GetCapacityDays(c, p) = Greatest(0, days(<<starts[c], finishes[c]>>)
                                            - off(TeamOff[c]) - off(MemberOff[c][p]))
    BY DEF GetCapacityDays
  <2>. HIDE DEF days, off
  <2>4. GetCapacityDays(c, p) \in Nat
    BY <2>2, <2>3 DEF Greatest
  <2>. QED  BY <1>4, <2>4 DEF SeedCapacities
<1>5. CASE ~(finishes[c] >= Today /\ p \in GetCapacities(c))
  BY <1>5 DEF SeedCapacities
<1>. QED  BY <1>4, <1>5

LEMMA ReleaseCapType ==
  ASSUME NEW ps, NEW v, v.metricsFrom \in Columns, v.metricsTo \in Columns
  PROVE  ReleaseCap(ps, v) \in Nat
<1>1. ASSUME NEW c \in Columns PROVE SprintCap(ps, v, c) \in Nat
  <2>. DEFINE P == (ps \cap Member) \ v.hidden
              f == [p \in P |-> SeedCapacities(p, c)]
  <2>1. IsFiniteSet(P)
    BY DaysAssumption, FS_Subset
  <2>2. \A p \in P : f[p] \in Nat
    BY CapacityType
  <2>3. DOMAIN f = P
    OBVIOUS
  <2>. HIDE DEF P, f
  <2>4. SumFunction(f) \in Nat
    BY <2>1, <2>2, <2>3, SumIsTotal, TotalType
  <2>. QED  BY <2>4 DEF SprintCap, P, f
<1>. DEFINE C == v.metricsFrom .. v.metricsTo
            g == [c \in C |-> SprintCap(ps, v, c)]
<1>2. C \subseteq Columns /\ IsFiniteSet(C)
  <2>1. v.metricsFrom \in Int /\ v.metricsTo \in Int
    BY ColumnsType
  <2>2. C \subseteq Columns
    BY GridAssumption DEF Columns
  <2>. QED  BY <2>1, <2>2, FS_Interval
<1>3. \A c \in C : g[c] \in Nat
  BY <1>1, <1>2
<1>4. DOMAIN g = C
  OBVIOUS
<1>. HIDE DEF C, g
<1>5. SumFunction(g) \in Nat
  BY <1>2, <1>3, <1>4, SumIsTotal, TotalType
<1>. QED  BY <1>5 DEF ReleaseCap, C, g

-----------------------------------------------------------------------------
(* The waterline *)

LEMMA TotalGrows ==
  ASSUME NEW S, IsFiniteSet(S), NEW f, \A x \in S : f[x] \in Nat,
         NEW V \in SUBSET S, NEW W \in SUBSET V
  PROVE  Total(f, W) <= Total(f, V)
<1>1. Total(f, W) \in Nat /\ Total(f, V \ W) \in Nat
  BY FS_Subset, TotalType
<1>2. W \cup (V \ W) = V
  OBVIOUS
<1>3. Total(f, V) = Total(f, W) + Total(f, V \ W)
  <2>1. V \ W \in SUBSET S /\ W \in SUBSET S /\ W \cap (V \ W) = {}
    OBVIOUS
  <2>2. Total(f, W \cup (V \ W)) = Total(f, W) + Total(f, V \ W)
    BY ONLY IsFiniteSet(S), \A x \in S : f[x] \in Nat, <2>1, TotalUnion
  <2>. QED  BY <1>2, <2>2
<1>. QED  BY <1>1, <1>3

\* The effort of the rows before the k-th, as the metrics count it.
EffortAbove(its, v, rows, k) ==
  CountedEffort(its, v, UNION {NodeStories(its, rows[j]) : j \in 1 .. k - 1})

\* What adding the rows up computes.
Cumulates(g, its, v, rows) ==
  g = [k \in 0 .. Len(rows) |->
         IF k = 0 THEN 0 ELSE g[k - 1] + CountedEffort(its, v, NodeStories(its, rows[k]))]

\* Rows that are the nodes of the tree, each once.
RowsOf(its, v, rows, N) ==
  /\ N \in Nat /\ Len(rows) = N /\ DOMAIN rows = 1 .. N
  /\ \A k \in 1 .. N : rows[k] \in BuildTree(its, v)
  /\ \A j, k \in 1 .. N : rows[j] = rows[k] => j = k
  /\ \A n \in BuildTree(its, v) : \E k \in 1 .. N : rows[k] = n

ItemsOK(its) ==
  IsFiniteSet(DOMAIN its) /\ DOMAIN its \subseteq WorkItem
  /\ \A i \in DOMAIN its : its[i].effort \in Nat

\* A story is in one node.
LEMMA NodesDisjoint ==
  ASSUME NEW its, NEW n \in Nodes(its), NEW m \in Nodes(its), n # m
  PROVE  NodeStories(its, n) \cap NodeStories(its, m) = {}
<1>1. ASSUME NEW i \in NodeStories(its, n) \cap NodeStories(its, m) PROVE FALSE
  <2>1. i \in Of(its, "story")
    BY <1>1, StoriesOfNode
  <2>. QED  BY <1>1, <2>1, NodesAre, StoryNode
<1>. QED  BY <1>1

LEMMA AboveIs ==
  ASSUME NEW its, ItemsOK(its), NEW v, NEW rows, NEW N, RowsOf(its, v, rows, N)
  PROVE  /\ \A k \in 1 .. N + 1 : EffortAbove(its, v, rows, k) \in Nat
         /\ EffortAbove(its, v, rows, 1) = 0
         /\ \A k \in 1 .. N : EffortAbove(its, v, rows, k + 1)
                = EffortAbove(its, v, rows, k) + CountedEffort(its, v, NodeStories(its, rows[k]))
         /\ \A j, k \in 1 .. N + 1 :
              j <= k => EffortAbove(its, v, rows, j) <= EffortAbove(its, v, rows, k)
         /\ EffortAbove(its, v, rows, N + 1) = ReleaseEffort(its, v)
<1>. DEFINE f == Efforts(its)
            S == DOMAIN its
            cnt(us) == {i \in (us \cap Counted(its, v)) \ HiddenStoryIds(its, v) :
                          its[i].iter \in v.metricsFrom .. v.metricsTo}
            own(k) == NodeStories(its, rows[k])
            up(k) == UNION {own(j) : j \in 1 .. k - 1}
<1>1. IsFiniteSet(S) /\ \A i \in S : f[i] \in Nat
  BY DEF ItemsOK, Efforts
<1>2. \A us : cnt(us) \in SUBSET S
  BY DEF Counted
<1>3. ASSUME NEW us PROVE CountedEffort(its, v, us) = Total(f, cnt(us))
  <2>1. CountedEffort(its, v, us) = EffortOf(its, cnt(us))
    BY DEF CountedEffort
  <2>2. IsFiniteSet(cnt(us))
    BY <1>1, <1>2, FS_Subset
  <2>. HIDE DEF cnt, f
  <2>. QED  BY <1>2, <2>1, <2>2, EffortIsTotal DEF f
<1>4. \A k : EffortAbove(its, v, rows, k) = Total(f, cnt(up(k)))
  BY <1>3 DEF EffortAbove
<1>5. \A us, ws : us \cap ws = {} => cnt(us) \cap cnt(ws) = {}
  OBVIOUS
<1>6. \A us, ws : cnt(us \cup ws) = cnt(us) \cup cnt(ws)
  OBVIOUS
<1>7. \A us, ws : us \subseteq ws => cnt(us) \subseteq cnt(ws)
  OBVIOUS
<1>8. N \in Nat /\ \A k \in 1 .. N : rows[k] \in Nodes(its)
  BY DEF RowsOf, BuildTree
<1>9. ASSUME NEW k \in 1 .. N PROVE up(k + 1) = up(k) \cup own(k) /\ up(k) \cap own(k) = {}
  <2>1. 1 .. (k + 1) - 1 = (1 .. k - 1) \cup {k}
    BY <1>8
  <2>2. \A j \in 1 .. k - 1 : own(j) \cap own(k) = {}
    <3>. TAKE j \in 1 .. k - 1
    <3>1. j \in 1 .. N /\ j # k
      BY <1>8
    <3>2. rows[j] # rows[k]
      BY <3>1 DEF RowsOf
    <3>. QED  BY <1>8, <3>1, <3>2, NodesDisjoint
  <2>. HIDE DEF own
  <2>3. up(k + 1) = up(k) \cup own(k)
    BY <2>1
  <2>. QED  BY <2>2, <2>3
<1>. HIDE DEF cnt, f, S, up, own
<1>10. \A k \in 1 .. N + 1 : EffortAbove(its, v, rows, k) \in Nat
  BY <1>1, <1>2, <1>4, FS_Subset, TotalType
<1>11. EffortAbove(its, v, rows, 1) = 0
  <2>1. up(1) = {}
    BY DEF up
  <2>2. cnt({}) = {}
    BY DEF cnt
  <2>. QED  BY <1>4, <2>1, <2>2, FS_EmptySet, TotalIs
<1>12. \A k \in 1 .. N : EffortAbove(its, v, rows, k + 1)
          = EffortAbove(its, v, rows, k) + CountedEffort(its, v, NodeStories(its, rows[k]))
  <2>. TAKE k \in 1 .. N
  <2>1. CountedEffort(its, v, NodeStories(its, rows[k])) = Total(f, cnt(own(k)))
    BY <1>3 DEF own
  <2>2. cnt(up(k + 1)) = cnt(up(k)) \cup cnt(own(k)) /\ cnt(up(k)) \cap cnt(own(k)) = {}
    BY <1>5, <1>6, <1>9
  <2>3. Total(f, cnt(up(k)) \cup cnt(own(k))) = Total(f, cnt(up(k))) + Total(f, cnt(own(k)))
    BY <1>1, <1>2, <2>2, TotalUnion
  <2>. QED  BY <1>4, <2>1, <2>2, <2>3
<1>13. ASSUME NEW j \in 1 .. N + 1, NEW k \in 1 .. N + 1, j <= k
       PROVE  EffortAbove(its, v, rows, j) <= EffortAbove(its, v, rows, k)
  <2>1. 1 .. j - 1 \subseteq 1 .. k - 1
    BY <1>8, <1>13
  <2>2. up(j) \subseteq up(k)
    BY <2>1 DEF up
  <2>3. cnt(up(j)) \in SUBSET cnt(up(k))
    BY <1>7, <2>2
  <2>4. Total(f, cnt(up(j))) <= Total(f, cnt(up(k)))
    BY <1>1, <1>2, <2>3, TotalGrows
  <2>. QED  BY <1>4, <2>4
<1>14. EffortAbove(its, v, rows, N + 1) = ReleaseEffort(its, v)
  <2>1. (N + 1) - 1 = N
    BY <1>8
  <2>2. UNION {NodeStories(its, rows[j]) : j \in 1 .. N} = ReleaseStories(its, v)
    <3>1. {rows[j] : j \in 1 .. N} = BuildTree(its, v)
      BY DEF RowsOf
    <3>. QED  BY <3>1 DEF ReleaseStories
  <2>. QED  BY <2>1, <2>2 DEF EffortAbove, ReleaseEffort
<1>. QED  BY <1>10, <1>11, <1>12, <1>13, <1>14

\* Numbers that grow from 0 by steps pass a capacity at one step at most.
Crosses(above, N, cap) == {k \in 1 .. N : above[k] < cap /\ cap < above[k + 1]}

LEMMA CrossesOnce ==
  ASSUME NEW N \in Nat, NEW cap \in Nat, NEW above \in [1 .. N + 1 -> Nat], above[1] = 0,
         \A j, k \in 1 .. N + 1 : j <= k => above[j] <= above[k]
  PROVE  /\ Cardinality(Crosses(above, N, cap)) <= 1
         /\ (above[N + 1] > cap /\ \A k \in 1 .. N : above[k] # cap)
              => Crosses(above, N, cap) # {}
<1>1. ASSUME NEW j \in Crosses(above, N, cap), NEW k \in Crosses(above, N, cap), j < k
      PROVE  FALSE
  <2>1. j + 1 \in 1 .. N + 1 /\ k \in 1 .. N + 1 /\ j + 1 <= k
    BY <1>1 DEF Crosses
  <2>2. above[j + 1] <= above[k] /\ above[j + 1] \in Nat /\ above[k] \in Nat
    BY <2>1
  <2>. QED  BY <1>1, <2>2 DEF Crosses
<1>2. \A j, k \in Crosses(above, N, cap) : j = k
  <2>1. Crosses(above, N, cap) \subseteq Nat
    BY DEF Crosses
  <2>. QED  BY <1>1, <2>1
<1>3. Cardinality(Crosses(above, N, cap)) <= 1
  <2>1. CASE Crosses(above, N, cap) = {}
    BY <2>1, FS_EmptySet
  <2>2. CASE Crosses(above, N, cap) # {}
    <3>1. PICK k : k \in Crosses(above, N, cap)
      BY <2>2
    <3>2. Crosses(above, N, cap) = {k}
      BY <1>2, <3>1
    <3>3. Cardinality({k}) = 1
      BY FS_Singleton
    <3>. QED  BY <3>2, <3>3
  <2>. QED  BY <2>1, <2>2
<1>4. ASSUME above[N + 1] > cap, \A k \in 1 .. N : above[k] # cap
      PROVE  Crosses(above, N, cap) # {}
  <2>. DEFINE S == {k \in 1 .. N + 1 : above[k] > cap}
  <2>1. PICK x \in S : \A y \in S : x <= y
    <3>1. S \in SUBSET Nat /\ N + 1 \in S
      BY <1>4
    <3>. HIDE DEF S
    <3>. QED  BY <3>1, LeastExists
  <2>2. x # 1 /\ x \in 1 .. N + 1
    BY <2>1
  <2>3. x - 1 \in 1 .. N /\ x - 1 \in 1 .. N + 1 /\ (x - 1) + 1 = x
    BY <2>2
  <2>4. x - 1 \notin S
    BY <2>1, <2>2
  <2>5. above[x - 1] \in Nat /\ ~(above[x - 1] > cap) /\ above[x - 1] # cap
    BY <1>4, <2>3, <2>4
  <2>6. x - 1 \in Crosses(above, N, cap)
    BY <2>1, <2>3, <2>5 DEF Crosses
  <2>. QED  BY <2>6
<1>. QED  BY <1>3, <1>4

\* Adding the rows up gives the effort above the next row.
LEMMA CumulatedIs ==
  ASSUME NEW its, ItemsOK(its), NEW v, NEW rows, NEW N, RowsOf(its, v, rows, N),
         NEW g, g = CHOOSE f : Cumulates(f, its, v, rows)
  PROVE  \A k \in 0 .. N : g[k] = EffortAbove(its, v, rows, k + 1)
<1>. DEFINE e(k) == EffortAbove(its, v, rows, k)
            own(k) == CountedEffort(its, v, NodeStories(its, rows[k]))
            f == [k \in 0 .. N |-> e(k + 1)]
<1>1. /\ N \in Nat /\ Len(rows) = N
      /\ e(1) = 0 /\ \A k \in 1 .. N : e(k + 1) = e(k) + own(k)
  <2>1. N \in Nat /\ Len(rows) = N
    BY DEF RowsOf
  <2>2. e(1) = 0 /\ \A k \in 1 .. N : e(k + 1) = e(k) + own(k)
    BY AboveIs
  <2>. QED  BY <2>1, <2>2
<1>. HIDE DEF e
<1>2. Cumulates(f, its, v, rows)
  <2>1. ASSUME NEW k \in 0 .. N PROVE e(k + 1) = IF k = 0 THEN 0 ELSE f[k - 1] + own(k)
    <3>1. CASE k = 0
      BY <1>1, <3>1
    <3>2. CASE k # 0
      <4>1. k \in 1 .. N /\ k - 1 \in 0 .. N /\ (k - 1) + 1 = k
        BY <1>1, <3>2
      <4>2. f[k - 1] = e(k)
        BY <4>1
      <4>. QED  BY <1>1, <3>2, <4>1, <4>2
    <3>. QED  BY <3>1, <3>2
  <2>2. f = [k \in 0 .. Len(rows) |-> IF k = 0 THEN 0 ELSE f[k - 1] + own(k)]
    BY <1>1, <2>1
  <2>. HIDE DEF f
  <2>. QED  BY <2>2 DEF Cumulates
<1>3. Cumulates(g, its, v, rows)
  <2>. HIDE DEF f
  <2>. QED  BY <1>2
<1>4. g[0] = 0 /\ \A k \in 1 .. N : g[k] = g[k - 1] + own(k)
  <2>1. g = [k \in 0 .. N |-> IF k = 0 THEN 0 ELSE g[k - 1] + own(k)]
    BY <1>1, <1>3 DEF Cumulates
  <2>2. 0 \in 0 .. N /\ \A k \in 1 .. N : k \in 0 .. N /\ k # 0
    BY <1>1
  <2>. HIDE DEF own
  <2>. QED  BY <2>1, <2>2
<1>. DEFINE G == {k \in 0 .. N : g[k] = e(k + 1)}
<1>5. 0 \in G
  BY <1>1, <1>4
<1>6. ASSUME NEW k \in 0 .. N, k \in G, k < N PROVE k + 1 \in G
  <2>1. k + 1 \in 1 .. N /\ (k + 1) - 1 = k
    BY <1>1, <1>6
  <2>2. g[k + 1] = g[k] + own(k + 1) /\ e((k + 1) + 1) = e(k + 1) + own(k + 1)
    BY <1>1, <1>4, <2>1
  <2>. QED  BY <1>6, <2>1, <2>2
<1>7. \A k \in 0 .. N : k \in G
  <2>. HIDE DEF G
  <2>. QED  BY <1>1, <1>5, <1>6, UpTo
<1>. QED  BY <1>7 DEF e

\* waterlineIdx: the row where the efforts, added up in the order of the rows, pass the
\* capacity of the metrics is the only one that straddles it, and there is one as soon as
\* the release does not fit and no row ends on the capacity.
THEOREM WaterlineSplitsRows == Spec => []WaterlineSplits
<1>1. ASSUME BoardInv, page = "open"
      PROVE  LET rows     == TreeRows(rendered, view)
                 cap      == ReleaseCap(people, view)
                 drawn    == Waterline(rendered, people, view)
                 above(k) == EffortAbove(rendered, view, rows, k)
             IN  /\ Cardinality(drawn) <= 1
                 /\ \A k \in drawn : above(k) <= cap /\ above(k + 1) > cap
                 /\ /\ ReleaseEffort(rendered, view) > cap
                    /\ \A k \in 1 .. Len(rows) : above(k) # cap
                    => drawn # {}
  <2>. DEFINE its  == rendered
              rows == TreeRows(its, view)
              tree == BuildTree(its, view)
              N    == Cardinality(tree)
              cap  == ReleaseCap(people, view)
              drawn == Waterline(its, people, view)
              g == CHOOSE f : Cumulates(f, its, view, rows)
              above == [k \in 1 .. N + 1 |-> EffortAbove(its, view, rows, k)]
  <2>1. ItemsOK(its)
    BY <1>1, BoardFinite, AdoReadAssumption DEF ItemsOK, BoardInv, BoardOK, ItemShape, ItemType
  <2>2. N \in Nat /\ rows \in Bijection(1 .. N, tree)
    <3>1. DOMAIN rendered \subseteq WorkItem /\ IsFiniteSet(BuildTree(rendered, view))
      BY <1>1, BoardFinite, TreeFinite
    <3>2. \A n \in BuildTree(rendered, view) : EpicRange(rendered, n) \in Ranges \cup {None}
      BY <1>1, RowsOnGrid DEF BuildTree
    <3>. QED  BY <3>1, <3>2, RowsAreNodes
  <2>3. rows = [k \in 1 .. N |-> rows[k]]
    BY <2>2 DEF Bijection, Injection
  <2>4. RowsOf(its, view, rows, N)
    <3>. HIDE DEF rows, N
    <3>1. Len(rows) = N /\ DOMAIN rows = 1 .. N
      BY <2>2, <2>3
    <3>2. /\ \A k \in 1 .. N : rows[k] \in tree
          /\ \A j, k \in 1 .. N : rows[j] = rows[k] => j = k
          /\ \A n \in tree : \E k \in 1 .. N : rows[k] = n
      <4>. HIDE DEF tree
      <4>. QED  BY <2>2 DEF Bijection, Injection, Surjection, IsInjective
    <3>. QED  BY <2>2, <3>1, <3>2 DEF RowsOf
  <2>5. cap \in Nat
    BY <1>1, ReleaseCapType DEF BoardInv, ViewShape, ViewType
  <2>6. drawn = {k \in DOMAIN rows : g[k - 1] < cap /\ cap < g[k]}
    BY DEF Waterline, Cumulates
  <2>. HIDE DEF its, rows, tree, N, cap, drawn, g
  <2>7. \A k \in 0 .. N : g[k] = EffortAbove(its, view, rows, k + 1)
    <3>1. g = CHOOSE f : Cumulates(f, its, view, rows)
      BY DEF g
    <3>. QED  BY <2>1, <2>4, <3>1, CumulatedIs
  <2>8. /\ above \in [1 .. N + 1 -> Nat] /\ above[1] = 0
        /\ above[N + 1] = ReleaseEffort(its, view)
        /\ \A j, k \in 1 .. N + 1 : j <= k => above[j] <= above[k]
    BY <2>1, <2>2, <2>4, AboveIs
  <2>9. drawn = Crosses(above, N, cap)
    <3>1. \A k \in 1 .. N : g[k - 1] = above[k] /\ g[k] = above[k + 1]
      <4>. TAKE k \in 1 .. N
      <4>1. k - 1 \in 0 .. N /\ k \in 0 .. N /\ (k - 1) + 1 = k /\ k \in 1 .. N + 1
            /\ k + 1 \in 1 .. N + 1
        BY <2>2
      <4>. QED  BY <2>7, <4>1
    <3>2. DOMAIN rows = 1 .. N
      BY <2>4 DEF RowsOf
    <3>. HIDE DEF above
    <3>. QED  BY <2>6, <3>1, <3>2 DEF Crosses
  <2>10. \A k \in 1 .. N + 1 : above[k] = EffortAbove(its, view, rows, k)
    OBVIOUS
  <2>. HIDE DEF above
  <2>11. /\ Cardinality(drawn) <= 1
         /\ (above[N + 1] > cap /\ \A k \in 1 .. N : above[k] # cap) => drawn # {}
    BY <2>2, <2>5, <2>8, <2>9, CrossesOnce
  <2>12. ASSUME NEW k \in drawn
         PROVE  /\ EffortAbove(its, view, rows, k) <= cap
                /\ EffortAbove(its, view, rows, k + 1) > cap
    <3>1. k \in 1 .. N /\ above[k] < cap /\ cap < above[k + 1]
      BY <2>9, <2>12 DEF Crosses
    <3>2. k \in 1 .. N + 1 /\ k + 1 \in 1 .. N + 1
      BY <2>2, <3>1
    <3>3. above[k] \in Nat /\ above[k + 1] \in Nat
      BY <2>8, <3>2
    <3>4. above[k] <= cap /\ above[k + 1] > cap
      BY <2>5, <3>1, <3>3
    <3>. QED  BY <2>10, <3>2, <3>4
  <2>13. ASSUME ReleaseEffort(its, view) > cap,
                \A k \in 1 .. Len(rows) : EffortAbove(its, view, rows, k) # cap
         PROVE  drawn # {}
    <3>1. Len(rows) = N /\ \A k \in 1 .. N : k \in 1 .. N + 1
      BY <2>2, <2>4 DEF RowsOf
    <3>2. \A k \in 1 .. N : above[k] # cap
      BY <2>10, <2>13, <3>1
    <3>. QED  BY <2>8, <2>11, <2>13, <3>2
  <2>. QED  BY <2>11, <2>12, <2>13 DEF its, rows, cap, drawn
<1>2. BoardInv => WaterlineSplits
  BY <1>1 DEF WaterlineSplits, EffortAbove
<1>. QED  BY <1>2, BoardInvAlways, PTL
=============================================================================
