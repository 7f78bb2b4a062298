----------------------------- MODULE MCAccounts -----------------------------
(* Instances of Accounts for TLC.                                          *)
EXTENDS Accounts, TLC

CONSTANTS c1, c2

TwoClients == {c1, c2}
Twins == Permutations(TwoClients)
OneOrTwo == {1, 2}
=============================================================================
