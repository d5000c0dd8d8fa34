---------------------------- MODULE MCFileWatch ----------------------------
(***************************************************************************)
(* FileWatch for TLC.  Overlapping requests and overlapping runs are       *)
(* explored in one run but not in one behaviour: either requests overlap   *)
(* and there is one record, or runs do and the requests come one at a time *)
(* and with one configuration.                                             *)
(***************************************************************************)
EXTENDS FileWatch, TLC

CONSTANTS t1, t2, m1, m2, c1, c2

VARIABLE regime

Interchangeable == Permutations(Admins)

MCInit == Init /\ regime \in {"requests", "runs"}

OneRecord == regime = "requests" /\ Next /\ lastRec' + Cardinality(calls') <= 1
OneRequest ==
  regime = "runs" /\ Next /\ alone' /\ \A a \in Admins : loc'[a].conf = NoConf

MCNext == (OneRecord \/ OneRequest) /\ UNCHANGED regime

MCSpec == MCInit /\ [][MCNext]_<<vars, regime>>
=============================================================================
