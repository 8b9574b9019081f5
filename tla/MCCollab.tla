------------------------------ MODULE MCCollab ------------------------------
(***************************************************************************)
(* Small instances of Collab: two browsers, one work item.                 *)
(***************************************************************************)
EXTENDS Collab, TLC

CONSTANTS t1, o1, o2, s1, c1, c2

MCTicket == {t1}
MCClient == {c1, c2}
OneClient == {c1}

\* One operation, or two by different users.
OneOp      == {o1}
TwoOps     == {o1, o2}
OneOpTicket == o1 :> t1
TwoOpTicket == o1 :> t1 @@ o2 :> t1
OneAuthor  == o1 :> c1
TwoAuthors == o1 :> c1 @@ o2 :> c2

\* The two dates a Feature's drag changes, one operation each.
Dates    == {"startDate", "targetDate"}
DateOps  == o1 :> "startDate" @@ o2 :> "targetDate"

\* An edit of another field.
OneField    == {"points"}
OneFieldOp  == o1 :> "points"

\* The browser of the first author polls.
OneSync   == {s1}
OneCaller == s1 :> c1
=============================================================================
