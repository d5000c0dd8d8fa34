--------------------------- MODULE MCCronSchedule ---------------------------
(***************************************************************************)
(* CronSchedule for TLC.  Overlapping requests and restarts are explored   *)
(* in one run but not in one behaviour: either requests overlap and the    *)
(* process does not crash, or it may and the requests come one at a time.  *)
(***************************************************************************)
EXTENDS CronSchedule, TLC

CONSTANTS j1, j2, m1, m2

VARIABLE regime

Interchangeable == Permutations(Jobs) \cup Permutations(Admins)

MCInit == Init /\ regime \in {"requests", "restarts"}

Requests ==
  /\ regime = "requests" /\ Next
  /\ crashes' = 0 /\ \A a \in Admins : loc'[a].parts <= 1

Restarts == regime = "restarts" /\ Next /\ alone'

MCNext == (Requests \/ Restarts) /\ UNCHANGED regime

MCSpec == MCInit /\ [][MCNext]_<<vars, regime>>
=============================================================================
