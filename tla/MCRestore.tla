----------------------------- MODULE MCRestore -----------------------------
(***************************************************************************)
(* Restore for TLC.                                                        *)
(***************************************************************************)
EXTENDS Restore, TLC

CONSTANTS r1, r2, now, log, task
=============================================================================
