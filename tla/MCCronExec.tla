----------------------------- MODULE MCCronExec -----------------------------
(***************************************************************************)
(* CronExec for TLC: one cronjob (its runs contend for one flag), handlers *)
(* w1, w2 and one management request at a time.                            *)
(***************************************************************************)
EXTENDS CronExec, TLC

CONSTANTS j1, j2, w1, w2, w3, m1

OneCommand == [j \in Jobs |-> 1]
TwoCommands == [j \in Jobs |-> 2]
Handlers == Permutations(Workers)
=============================================================================
