--------------------------- MODULE MCSharedData ---------------------------
(***************************************************************************)
(* SharedData with two browsers and a project of two sprints that ADO may  *)
(* return in either order or with a third one before them.                 *)
(***************************************************************************)
EXTENDS SharedData

CONSTANTS s1, s2, s3

MCOrders == {<<s1, s2>>, <<s3, s1, s2>>}

=============================================================================
