---------------------------- MODULE MCProviders ----------------------------
(* Instances of Providers for TLC.                                         *)
EXTENDS Providers, TLC

CONSTANTS a1, a2, u1

TwoAdmins == {a1, a2}
OneUser == {u1}
Twins == Permutations(TwoAdmins)
SomeUses == {"post_turn", "embedding"}
=============================================================================
