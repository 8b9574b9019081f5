-------------------------------- MODULE Grid --------------------------------
(***************************************************************************)
(* The sprints of a board, its columns, numbered from 0 in the order of    *)
(* their dates, and what the board computes with indexes of columns: the   *)
(* current sprint, the range of columns two dates cover, and the range a   *)
(* bar is dragged to.  NITER is also the index of the backlog's column.    *)
(***************************************************************************)
EXTENDS Integers, FiniteSetsExt

CONSTANTS
  NITER,    \* the number of dated sprints of the project
  starts,   \* the first day of each sprint
  finishes, \* and its last
  Today

ASSUME GridAssumption ==
  /\ NITER \in Nat \ {0}
  /\ starts \in [0 .. NITER - 1 -> Int] /\ finishes \in [0 .. NITER - 1 -> Int]
  /\ Today \in Int

BACKLOG == NITER
Columns == 0 .. NITER - 1

\* The sprints follow one another and no two share a day.
Ordered ==
  /\ \A i \in Columns : starts[i] <= finishes[i]
  /\ \A i, j \in Columns : i < j => finishes[i] < starts[j]

Ranges == {r \in Columns \X Columns : r[1] <= r[2]}

\* The sprint of today, else the last one begun, else the first.
CURRENT ==
  LET running == {i \in Columns : starts[i] <= Today /\ Today <= finishes[i]}
      begun   == {i \in Columns : starts[i] <= Today}
  IN  IF running # {} THEN Min(running) ELSE IF begun # {} THEN Max(begun) ELSE 0

-----------------------------------------------------------------------------
(* Dates and columns *)

\* sprintIndexForDate, 'start': the first sprint that ends on that day or later.
FirstColumn(day) ==
  LET open == {i \in Columns : day <= finishes[i]}
  IN  IF open # {} THEN Min(open) ELSE NITER - 1

\* sprintIndexForDate, 'end': the last sprint that begins on that day or before.
LastColumn(day) ==
  LET begun == {i \in Columns : starts[i] <= day}
  IN  IF begun # {} THEN Max(begun) ELSE 0

Least(i, j)    == IF i <= j THEN i ELSE j
Greatest(i, j) == IF i <= j THEN j ELSE i

\* Faulty variant: the two columns are taken as they come.
DatesRangeUnordered(dates) == <<FirstColumn(dates[1]), LastColumn(dates[2])>>

\* The columns covered by a start and a target date.
DatesRange(dates) ==
  LET a == FirstColumn(dates[1])
      b == LastColumn(dates[2])
  IN  <<Least(a, b), Greatest(a, b)>>

\* Faulty variant: the target is the day after the last sprint.
RangeDatesAfter(range) == <<starts[range[1]], finishes[range[2]] + 1>>

\* The dates written for a range of columns.
RangeDates(range) == <<starts[range[1]], finishes[range[2]]>>

-----------------------------------------------------------------------------
(* Drags of the bar of an epic or a feature *)

Sides == {"L", "R", "M"}

\* The range of a bar whose right end, left end or whole is dragged by delta columns.
Drag(side, range, delta) ==
  CASE side = "R" -> <<range[1], Greatest(range[1], Least(NITER - 1, range[2] + delta))>>
    [] side = "L" -> <<Least(range[2], Greatest(0, range[1] + delta)), range[2]>>
    [] side = "M" -> LET span == range[2] - range[1]
                         from == Greatest(0, Least(NITER - 1 - span, range[1] + delta))
                     IN  <<from, from + span>>

\* A column pulled into a range: the nearest of its columns.
Nearest(column, range) ==
  IF column < range[1] THEN range[1] ELSE IF column > range[2] THEN range[2] ELSE column
=============================================================================
