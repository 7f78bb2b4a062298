---------------------------- MODULE MCProactive ----------------------------
(* Instances of ProactiveScheduler for TLC.                                *)
EXTENDS ProactiveScheduler, TLC

CONSTANTS s1, t1, nudge, care

One == {s1}
OneTester == {t1}
NudgeOnly == {nudge}
CareOnly == {care}
(* One quiet instant.                                                      *)
QuietEarly == {1}
(* A care waits longer than two intervals.                                 *)
Cooldowns == [g \in Triggers |-> IF g = care THEN 5 ELSE 3]
=============================================================================
