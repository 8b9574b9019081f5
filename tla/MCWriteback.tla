---------------------------- MODULE MCWriteback ----------------------------
(***************************************************************************)
(* Small instances of Writeback: one work item, two or three operations on *)
(* it.                                                                     *)
(***************************************************************************)
EXTENDS Writeback, TLC

CONSTANTS t1, o1, o2, s1

MCOp     == {o1, o2}
MCTicket == {t1}
MCSync   == {s1}
NoSync   == {}

MCOpTicket == [o \in MCOp |-> t1]

\* Two edits of one field.
OneField    == {"points"}
SameFieldOp == [o \in MCOp |-> "points"]

\* An edit of the state, which may move the board column, and a column move,
\* which moves the state.
BoardFields == {"boardColumn", "state"}
BoardOp     == o1 :> "state" @@ o2 :> "boardColumn"
=============================================================================
