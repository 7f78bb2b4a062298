------------------------------- MODULE MCWSHub -------------------------------
(* An instance of WSHub for TLC: three sessions of one user on two nodes.  *)
EXTENDS WSHub, TLC

CONSTANTS n1, n2, u1, u2, a, b, c, p1

TwoNodes == {n1, n2}
TwoUsers == {u1, u2}
ThreeSessions == {a, b, c}
OnePublisher == {p1}

(* c alone is on the second node.                                          *)
Apart == [x \in Sessions \cup Publishers |-> IF x = c THEN n2 ELSE n1]
(* Events for u2 concern nobody.                                           *)
SameUser == [s \in Sessions |-> u1]
Twins == Permutations({a, b})
=============================================================================
