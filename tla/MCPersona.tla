----------------------------- MODULE MCPersona -----------------------------
(* Instances of PersonaChanges for TLC: two turns, of which the first may  *)
(* yield two items, and one request or none.                               *)
EXTENDS PersonaChanges, TLC

CONSTANTS t1, t2, q1, f1, f2, old

TwoTurns == {t1, t2}
OneRequest == {q1}
Nobody == {}
TwoFacts == {f1, f2}
TwoAndOne == (t1 :> 2) @@ (t2 :> 1)
One == (t1 :> 1) @@ (t2 :> 1)
Symmetric == Permutations(TwoFacts)
=============================================================================
