----------------------------- MODULE GridProofs -----------------------------
(***************************************************************************)
(* What the board computes with columns, for any number of sprints and any *)
(* dates: bars stay on the grid when they are read from dates or dragged,  *)
(* and the dates written for a dragged bar are read back as its range.     *)
(***************************************************************************)
EXTENDS Grid, WellFoundedInduction, TLAPS

-----------------------------------------------------------------------------
(* Least and greatest columns *)

\* A known least element is the minimum.
LEMMA MinIs ==
  ASSUME NEW S \in SUBSET Int, NEW x \in S, \A y \in S : x <= y
  PROVE  Min(S) = x
<1> DEFINE m == Min(S)
<1>1. m \in S /\ \A y \in S : m <= y
  BY Zenon DEF Min
<1> HIDE DEF m
<1>2. m \in Int /\ x \in Int /\ m <= x /\ x <= m
  BY <1>1
<1>3. m = x
  BY <1>2
<1> QED BY <1>3 DEF m

\* A known greatest element is the maximum.
LEMMA MaxIs ==
  ASSUME NEW S \in SUBSET Int, NEW x \in S, \A y \in S : x >= y
  PROVE  Max(S) = x
<1> DEFINE m == Max(S)
<1>1. m \in S /\ \A y \in S : m >= y
  BY Zenon DEF Max
<1> HIDE DEF m
<1>2. m \in Int /\ x \in Int /\ m >= x /\ x >= m
  BY <1>1
<1>3. m = x
  BY <1>2
<1> QED BY <1>3 DEF m

\* Every set of natural numbers that is not empty has a least element.
LEMMA LeastExists ==
  ASSUME NEW S \in SUBSET Nat, S # {}
  PROVE  \E x \in S : \A y \in S : x <= y
<1>1. IsWellFoundedOn(OpToRel(<, Nat), Nat)
  BY NatLessThanWellFounded
<1>2. \E x \in S : \A y \in S : <<y, x>> \notin OpToRel(<, Nat)
  BY <1>1, WFMin
<1>3. \A x, y \in Nat : y < x => <<y, x>> \in OpToRel(<, Nat)
  BY DEF OpToRel
<1>4. PICK x \in S : \A y \in S : <<y, x>> \notin OpToRel(<, Nat)
  BY <1>2
<1>5. \A y \in S : ~ (y < x)
  BY <1>3, <1>4
<1>6. \A y \in S : x <= y
  BY <1>5
<1> QED BY <1>6

\* Columns are natural numbers.
LEMMA ColumnsType == Columns \in SUBSET Nat /\ Columns \in SUBSET Int
BY GridAssumption DEF Columns

LEMMA MinIn ==
  ASSUME NEW S \in SUBSET Columns, S # {}
  PROVE  Min(S) \in S
<1>1. S \in SUBSET Nat /\ S \in SUBSET Int
  BY ColumnsType
<1>2. PICK x \in S : \A y \in S : x <= y
  BY <1>1, LeastExists
<1>3. Min(S) = x
  BY <1>1, <1>2, MinIs
<1> QED BY <1>3

\* The greatest column is the least one counted from the end.
LEMMA MaxIn ==
  ASSUME NEW S \in SUBSET Columns, S # {}
  PROVE  Max(S) \in S
<1> DEFINE T == {NITER - 1 - i : i \in S}
<1>1. T \in SUBSET Nat /\ T # {}
  <2>1. \A i \in S : NITER - 1 - i \in Nat
    BY GridAssumption DEF Columns
  <2> QED BY <2>1
<1>2. PICK t \in T : \A u \in T : t <= u
  BY <1>1, LeastExists
<1>3. PICK x \in S : t = NITER - 1 - x
  BY <1>2
<1>4. \A y \in S : x >= y
  <2>1. TAKE y \in S
  <2>2. NITER - 1 - y \in T
    OBVIOUS
  <2>3. t <= NITER - 1 - y
    BY <1>2, <2>2
  <2> QED BY <1>3, <2>3, GridAssumption DEF Columns
<1>5. S \in SUBSET Int
  BY ColumnsType
<1>6. Max(S) = x
  BY <1>4, <1>5, MaxIs
<1> QED BY <1>6

-----------------------------------------------------------------------------
(* Theorems *)

LEMMA FirstColumnType ==
  ASSUME NEW day \in Int
  PROVE  FirstColumn(day) \in Columns
<1>1. CASE {i \in Columns : day <= finishes[i]} = {}
  BY <1>1, GridAssumption DEF FirstColumn, Columns
<1>2. CASE {i \in Columns : day <= finishes[i]} # {}
  BY <1>2, MinIn DEF FirstColumn
<1> QED BY <1>1, <1>2

LEMMA LastColumnType ==
  ASSUME NEW day \in Int
  PROVE  LastColumn(day) \in Columns
<1>1. CASE {i \in Columns : starts[i] <= day} = {}
  BY <1>1, GridAssumption DEF LastColumn, Columns
<1>2. CASE {i \in Columns : starts[i] <= day} # {}
  BY <1>2, MaxIn DEF LastColumn
<1> QED BY <1>1, <1>2

\* sprintIndexForDate, epicRange: whatever two dates ADO holds, in any order and outside
\* the sprints too, the bar they give is on the grid and its ends are in order.
THEOREM DatesStayOnGrid ==
  ASSUME NEW dates \in Int \X Int
  PROVE  DatesRange(dates) \in Ranges
<1>1. FirstColumn(dates[1]) \in Columns /\ LastColumn(dates[2]) \in Columns
  BY FirstColumnType, LastColumnType
<1> QED BY <1>1, GridAssumption DEF DatesRange, Ranges, Least, Greatest, Columns

\* onUp: wherever the bar of an epic or a feature is dragged, it stays on the grid, its
\* ends stay in order, and a bar that is moved keeps its length.
THEOREM DragsStayOnGrid ==
  ASSUME NEW side \in Sides, NEW range \in Ranges, NEW delta \in Int
  PROVE  /\ Drag(side, range, delta) \in Ranges
         /\ side = "M" => Drag(side, range, delta)[2] - Drag(side, range, delta)[1]
                            = range[2] - range[1]
         /\ side = "R" => Drag(side, range, delta)[1] = range[1]
         /\ side = "L" => Drag(side, range, delta)[2] = range[2]
<1>1. range[1] \in Columns /\ range[2] \in Columns /\ range[1] <= range[2]
  BY DEF Ranges
<1>2. CASE side = "R"
  BY <1>1, <1>2, GridAssumption DEF Drag, Ranges, Least, Greatest, Columns
<1>3. CASE side = "L"
  BY <1>1, <1>3, GridAssumption DEF Drag, Ranges, Least, Greatest, Columns
<1>4. CASE side = "M"
  <2> DEFINE span == range[2] - range[1]
             from == Greatest(0, Least(NITER - 1 - span, range[1] + delta))
  <2>1. Drag(side, range, delta) = <<from, from + span>>
    BY <1>4 DEF Drag
  <2>2. span \in 0 .. NITER - 1
    BY <1>1, GridAssumption DEF Columns
  <2>3. from \in 0 .. NITER - 1 - span
    <3> HIDE DEF span
    <3>1. range[1] \in Int
      BY <1>1, ColumnsType
    <3>2. range[1] + delta \in Int /\ NITER - 1 - span \in Nat
      BY <2>2, <3>1, GridAssumption
    <3>3. Least(NITER - 1 - span, range[1] + delta) \in Int
          /\ Least(NITER - 1 - span, range[1] + delta) <= NITER - 1 - span
      BY <3>2 DEF Least
    <3> QED BY <3>2, <3>3 DEF Greatest
  <2> HIDE DEF span, from
  <2>4. <<from, from + span>> \in Ranges
    BY <2>2, <2>3, GridAssumption DEF Ranges, Columns
  <2>5. (from + span) - from = span
    BY <2>2, <2>3, GridAssumption
  <2> QED BY <1>4, <2>1, <2>4, <2>5 DEF span
<1> QED BY <1>2, <1>3, <1>4 DEF Sides

\* setFeatRange, epicRange: when no two sprints share a day, the dates written for a bar
\* are read back, by another browser or after a reload, as the very same bar.
THEOREM DatesKeepTheRange ==
  ASSUME Ordered, NEW range \in Ranges
  PROVE  DatesRange(RangeDates(range)) = range
<1>1. range[1] \in Columns /\ range[2] \in Columns /\ range[1] <= range[2]
  BY DEF Ranges
<1>2. \A i \in Columns : starts[i] \in Int /\ finishes[i] \in Int
  BY GridAssumption DEF Columns
<1>3. FirstColumn(starts[range[1]]) = range[1]
  <2> DEFINE S == {i \in Columns : starts[range[1]] <= finishes[i]}
  <2>1. range[1] \in S
    BY <1>1 DEF Ordered
  <2>2. \A y \in S : range[1] <= y
    BY <1>1, <1>2, GridAssumption DEF Ordered, Columns
  <2>3. S \in SUBSET Int
    BY ColumnsType
  <2> HIDE DEF S
  <2>4. Min(S) = range[1]
    BY <2>1, <2>2, <2>3, MinIs
  <2> QED BY <2>1, <2>4 DEF FirstColumn, S
<1>4. LastColumn(finishes[range[2]]) = range[2]
  <2> DEFINE S == {i \in Columns : starts[i] <= finishes[range[2]]}
  <2>1. range[2] \in S
    BY <1>1 DEF Ordered
  <2>2. \A y \in S : range[2] >= y
    BY <1>1, <1>2, GridAssumption DEF Ordered, Columns
  <2>3. S \in SUBSET Int
    BY ColumnsType
  <2> HIDE DEF S
  <2>4. Max(S) = range[2]
    BY <2>1, <2>2, <2>3, MaxIs
  <2> QED BY <2>1, <2>4 DEF LastColumn, S
<1>5. DatesRange(RangeDates(range)) = <<range[1], range[2]>>
  BY <1>1, <1>3, <1>4, GridAssumption DEF DatesRange, RangeDates, Least, Greatest, Columns
<1> QED BY <1>5 DEF Ranges
=============================================================================
