----------------------------- MODULE MCPresence -----------------------------
(***************************************************************************)
(* A small instance of Presence: two tabs, with one socket to spare for    *)
(* the one that loses its connection or leaves.                            *)
(***************************************************************************)
EXTENDS Presence, TLC

CONSTANTS u1, u2, t1, t2, c1, c2, c3

MCUser == {u1, u2}
MCTab  == {t1, t2}
MCConn == {c1, c2, c3}
MCUserOf == t1 :> u1 @@ t2 :> u2
MCTabOf  == c1 :> t1 @@ c2 :> t2 @@ c3 :> t1

\* A socket is interchangeable with another one of its tab.
SocketSymmetry ==
  {p \in Permutations(MCConn) : \A c \in MCConn : MCTabOf[p[c]] = MCTabOf[c]}
=============================================================================
