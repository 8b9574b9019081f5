----------------------------- MODULE MCSessions -----------------------------
(***************************************************************************)
(* A small instance of Sessions: two users with a browser each, one work   *)
(* item and the copy a duplication makes of it.                            *)
(***************************************************************************)
EXTENDS Sessions, TLC

CONSTANTS b1, b2, u1, u2, i1, i2

MCBrowser == {b1, b2}
MCUser    == {u1, u2}
MCUserOf  == b1 :> u1 @@ b2 :> u2
MCItem    == {i1, i2}
=============================================================================
