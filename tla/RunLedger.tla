----------------------------- MODULE RunLedger -----------------------------
(***************************************************************************)
(* What the execution side of 2panel promises about the history of its     *)
(* cronjobs, without saying how: the runs of one cronjob never overlap, a  *)
(* run gets one verdict before its cronjob is free again, a verdict once   *)
(* given is never changed, and what a crash cut short is declared failed   *)
(* by the restart.  CronExec implements it.                                *)
(***************************************************************************)
EXTENDS Naturals

CONSTANTS
  Jobs,        \* identifiers of cronjobs
  Ids          \* identifiers of execution records; none of them is 0

VARIABLES
  owner,       \* owner[j]: the record of the run that holds cronjob j, 0 if none
  verdict,     \* verdict[r]: what the history says about record r
  serving,     \* FALSE between a crash and the end of the restart
  faulty       \* a database statement failed since the last restart

ledgerVars == <<owner, verdict, serving, faulty>>

Verdicts == {"success", "failed"}
Statuses == {"none", "waiting", "unexecuted", "removed"} \cup Verdicts

LedgerTypeOK ==
  /\ owner \in [Jobs -> Ids \cup {0}]
  /\ verdict \in [Ids -> Statuses]
  /\ serving \in BOOLEAN
  /\ faulty \in BOOLEAN

LedgerInit ==
  /\ owner = [j \in Jobs |-> 0]
  /\ verdict = [r \in Ids |-> "none"]
  /\ serving = TRUE
  /\ faulty = FALSE

----------------------------------------------------------------------------
\* A free cronjob starts a run, which gets a record of its own.
Begin(j, r) ==
  /\ serving /\ owner[j] = 0 /\ verdict[r] = "none"
  /\ owner' = [owner EXCEPT ![j] = r]
  /\ verdict' = [verdict EXCEPT ![r] = "waiting"]
  /\ UNCHANGED <<serving, faulty>>

\* A trigger that found its cronjob busy leaves a marker.
Skip(r) ==
  /\ serving /\ verdict[r] = "none"
  /\ verdict' = [verdict EXCEPT ![r] = "unexecuted"]
  /\ UNCHANGED <<owner, serving, faulty>>

\* The run of cronjob j gets its verdict.
Decide(j, v) ==
  /\ serving /\ owner[j] # 0 /\ verdict[owner[j]] = "waiting"
  /\ verdict' = [verdict EXCEPT ![owner[j]] = v]
  /\ UNCHANGED <<owner, serving, faulty>>

\* The cronjob is free again, once the history knows how its run ended
\* (unless the database lost the verdict).
Release(j) ==
  /\ serving /\ owner[j] # 0
  /\ verdict[owner[j]] # "waiting" \/ faulty
  /\ owner' = [owner EXCEPT ![j] = 0]
  /\ UNCHANGED <<verdict, serving, faulty>>

\* Some records leave the history (retention, clearing, deletion of a job).
Forget(S) ==
  /\ serving /\ \A r \in S : verdict[r] # "none"
  /\ verdict' = [r \in Ids |-> IF r \in S THEN "removed" ELSE verdict[r]]
  /\ UNCHANGED <<owner, serving, faulty>>

\* A failing statement may come with the release of a job whose run it was.
Fault(j) ==
  /\ serving
  /\ owner' \in {owner, [owner EXCEPT ![j] = 0]}
  /\ faulty' = TRUE
  /\ UNCHANGED <<verdict, serving>>

Halt ==
  /\ serving
  /\ serving' = FALSE
  /\ owner' = [j \in Jobs |-> 0]
  /\ UNCHANGED <<verdict, faulty>>

\* Unless a statement fails, the restart settles what the crash interrupted.
Recover ==
  /\ ~serving /\ serving' = TRUE
  /\ \/ /\ faulty' = FALSE
        /\ verdict' = [r \in Ids |-> IF verdict[r] = "waiting" THEN "failed" ELSE verdict[r]]
     \/ /\ faulty' = TRUE
        /\ verdict' \in {verdict, [r \in Ids |-> IF verdict[r] = "waiting" THEN "failed"
                                                                          ELSE verdict[r]]}
  /\ UNCHANGED owner

LedgerNext ==
  \/ \E j \in Jobs, r \in Ids : Begin(j, r)
  \/ \E r \in Ids : Skip(r)
  \/ \E j \in Jobs, v \in Verdicts : Decide(j, v)
  \/ \E j \in Jobs : Release(j) \/ Fault(j)
  \/ \E S \in SUBSET Ids : Forget(S)
  \/ Halt
  \/ Recover

LedgerSpec == LedgerInit /\ [][LedgerNext]_ledgerVars
=============================================================================
