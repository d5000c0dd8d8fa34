------------------------- MODULE CronHistoryProofs -------------------------
(***************************************************************************)
(* Proofs about CronExec: what is_executing and the history say of runs.   *)
(* A flag that is set and a record that waits have a run that will see to  *)
(* them, what the history has said of a run is never said otherwise,       *)
(* CronExec implements RunLedger (each step of the program is one of the   *)
(* ledger's, or changes nothing the ledger tells), and pruning leaves the  *)
(* newest records, however many prunings overlap.                          *)
(***************************************************************************)
EXTENDS CronExecProofs, FiniteSetTheorems

\* A run has a record of its own, which waits for its verdict or was removed.
OwnRecord ==
  \A a \in Actors : InRun(a) =>
    /\ loc[a].rec \in Ids
    /\ pc[a] # "endJob" => rec[loc[a].rec].status \in {"waiting", "removed"}
    /\ \A b \in Actors : InRun(b) /\ loc[b].rec = loc[a].rec => a = b

\* The inductive invariant.  FlagHasRunner and WaitingHasRunner are about flags and
\* records, OwnRecord is about runs: EndRecord settles the record of its own run,
\* and by OwnRecord that of no other.
AttendedInv == FlagHasRunner /\ WaitingHasRunner /\ OwnRecord

\* What almost every step has in common: runs go on with the cronjob and the record
\* they have ...
RunsStay ==
  \A b \in Actors :
    /\ InRun(b)' <=> InRun(b)
    /\ InRun(b) => /\ loc'[b].job = loc[b].job /\ loc'[b].rec = loc[b].rec
                   /\ pc'[b] = "endJob" <=> pc[b] = "endJob"

\* ... records are at most removed, those that are added wait for nobody ...
HistoryStays ==
  /\ Ids \subseteq Ids'
  /\ \A r \in Ids : rec'[r].status \in {rec[r].status, "removed"}
  /\ \A r \in Ids' \ Ids : rec'[r].status # "waiting"

\* ... and no flag is set; a failure is only forgotten by the restart.
FlagsStay == up /\ (faults' = 0 => faults = 0) /\ executing' \subseteq executing

----------------------------------------------------------------------------
\* A step of an actor that is in no run, and in none after it, disturbs no run.
LEMMA Outside ==
  ASSUME NEW a \in Actors, ~InRun(a), pc'[a] \notin Running,
         \A b \in Actors \ {a} : pc'[b] = pc[b] /\ loc'[b] = loc[b]
  PROVE  RunsStay
BY DEF RunsStay, InRun

\* Nor does a step inside of a run, before its verdict is written.
LEMMA Inside ==
  ASSUME NEW a \in Actors, InRun(a), pc[a] # "endJob", pc'[a] \in Running \ {"endJob"},
         loc'[a].job = loc[a].job, loc'[a].rec = loc[a].rec,
         \A b \in Actors \ {a} : pc'[b] = pc[b] /\ loc'[b] = loc[b]
  PROVE  RunsStay
BY DEF RunsStay, InRun

\* Such steps leave every flag and every waiting record with its run, and every
\* run with its record.
LEMMA AttendedStays == AttendedInv /\ RunsStay /\ HistoryStays /\ FlagsStay => AttendedInv'
<1>. SUFFICES ASSUME AttendedInv, RunsStay, HistoryStays, FlagsStay PROVE AttendedInv'
  OBVIOUS
<1>1. FlagHasRunner'
  BY DEF AttendedInv, FlagHasRunner, RunsStay, FlagsStay
<1>2. \A r \in Ids' : rec'[r].status = "waiting" => r \in Ids /\ rec[r].status = "waiting"
  BY DEF HistoryStays
<1>3. WaitingHasRunner'
  BY <1>2 DEF AttendedInv, WaitingHasRunner, RunsStay, FlagsStay
<1>4. ASSUME NEW a \in Actors, InRun(a)'
      PROVE  /\ loc'[a].rec \in Ids'
             /\ pc'[a] # "endJob" => rec'[loc'[a].rec].status \in {"waiting", "removed"}
             /\ \A b \in Actors : InRun(b)' /\ loc'[b].rec = loc'[a].rec => a = b
  <2>1. /\ InRun(a) /\ loc'[a].rec = loc[a].rec /\ loc[a].rec \in Ids
        /\ pc'[a] # "endJob" => pc[a] # "endJob"
    BY <1>4 DEF RunsStay, AttendedInv, OwnRecord
  <2>2. pc[a] # "endJob" => rec[loc[a].rec].status \in {"waiting", "removed"}
    BY <2>1 DEF AttendedInv, OwnRecord
  <2>3. loc'[a].rec \in Ids' /\ rec'[loc[a].rec].status \in {rec[loc[a].rec].status, "removed"}
    BY <2>1 DEF HistoryStays
  <2>4. \A b \in Actors : InRun(b)' /\ loc'[b].rec = loc'[a].rec => a = b
    BY <2>1 DEF RunsStay, AttendedInv, OwnRecord
  <2>5. QED
    BY <2>1, <2>2, <2>3, <2>4
<1>5. OwnRecord'
  BY <1>4 DEF OwnRecord
<1>6. QED
  BY <1>1, <1>3, <1>5 DEF AttendedInv

\* A table that stays as it is, or loses rows, or gets a row that does not wait,
\* is a history that stays.
LEMMA SameHistory == rec' = rec => HistoryStays
BY DEF HistoryStays, Ids

LEMMA DropHistory == ASSUME NEW S, rec \in Seq(Record), Drop(S) PROVE HistoryStays
<1>1. rec' = [r \in Ids |-> IF r \in S THEN [rec[r] EXCEPT !.status = "removed"] ELSE rec[r]]
  BY DEF Drop
<1>2. \A r \in Ids : rec[r] \in Record
  BY DEF Ids
<1>3. Ids' = Ids
  BY <1>1 DEF Ids
<1>4. \A r \in Ids : rec'[r].status \in {rec[r].status, "removed"}
  BY <1>1, <1>2 DEF Record
<1>5. QED
  BY <1>3, <1>4 DEF HistoryStays

\* Inserting a row leaves the others and adds one id.
LEMMA InsertRow ==
  ASSUME NEW j, NEW s, rec \in Seq(Record), Insert(j, s)
  PROVE  /\ Ids' = Ids \cup {Len(rec) + 1} /\ Len(rec) + 1 \notin Ids
         /\ rec'[Len(rec) + 1].status = s
         /\ \A r \in Ids : rec'[r] = rec[r]
BY DEF Insert, Row, Ids

----------------------------------------------------------------------------
\* All steps but those that start or end a run, the crash and the restart are of
\* this kind.
LEMMA QuietSteps ==
  ASSUME TypeOK, DownIdle, Next,
         ~Crash, ~RestoreCronjobs,
         \A a \in Actors : ~StartRecord(a) /\ ~EndRecord(a) /\ ~EndJob(a)
  PROVE  RunsStay /\ HistoryStays /\ FlagsStay
<1>1. Workers \subseteq Actors /\ Admins \subseteq Actors
  BY DEF Actors
<1>2. /\ loc \in [Actors -> Locals] /\ pc \in [Actors -> Label]
      /\ rec \in Seq(Record) /\ faults \in Nat /\ executing \subseteq exists
  BY DEF TypeOK
<1>3. \A a \in Actors : loc[a] \in Locals
  BY <1>2
<1>4. \A a \in Actors : pc[a] # "idle" => up
  BY DEF DownIdle
<1>5. ASSUME NEW a \in Actors, NEW j \in Jobs, Call(a, j)
     PROVE  RunsStay /\ HistoryStays /\ FlagsStay
  <2>1. /\ ~InRun(a) /\ pc'[a] \notin Running
        /\ \A b \in Actors \ {a} : pc'[b] = pc[b] /\ loc'[b] = loc[b]
    BY <1>5, <1>2 DEF Call, Goto, InRun, Running
  <2>2. RunsStay
    BY <2>1, Outside
  <2>3. HistoryStays
    BY <1>5, SameHistory DEF Call, db
  <2>4. FlagsStay
    BY <1>5, <1>2, <1>4 DEF Call, StmtOk, StmtFails, FlagsStay, db, env
  <2>5. QED
    BY <2>2, <2>3, <2>4
<1>6. ASSUME NEW a \in Actors, HandleJobGet(a)
     PROVE  RunsStay /\ HistoryStays /\ FlagsStay
  <2>1. /\ ~InRun(a) /\ pc'[a] \notin Running
        /\ \A b \in Actors \ {a} : pc'[b] = pc[b] /\ loc'[b] = loc[b]
    BY <1>6, <1>2 DEF HandleJobGet, Return, Goto, InRun, Running
  <2>2. RunsStay
    BY <2>1, Outside
  <2>3. HistoryStays
    BY <1>6, SameHistory DEF HandleJobGet, db
  <2>4. FlagsStay
    BY <1>6, <1>2, <1>4 DEF HandleJobGet, Return, StmtOk, StmtFails, FlagsStay, db, env
  <2>5. QED
    BY <2>2, <2>3, <2>4
<1>7. ASSUME NEW a \in Actors, RecordSkipped(a)
     PROVE  RunsStay /\ HistoryStays /\ FlagsStay
  <2>1. /\ ~InRun(a) /\ pc'[a] \notin Running
        /\ \A b \in Actors \ {a} : pc'[b] = pc[b] /\ loc'[b] = loc[b]
    BY <1>7, <1>2 DEF RecordSkipped, Goto, InRun, Running
  <2>2. RunsStay
    BY <2>1, Outside
  <2>3. HistoryStays
    <3>1. CASE Insert(loc[a].job, "unexecuted")
      BY <3>1, <1>2, InsertRow DEF HistoryStays
    <3>2. QED
      BY <1>7, <3>1, SameHistory DEF RecordSkipped
  <2>4. FlagsStay
    BY <1>7, <1>2, <1>4 DEF RecordSkipped, StmtOk, StmtFails, FlagsStay, db, env
  <2>5. QED
    BY <2>2, <2>3, <2>4
<1>8. ASSUME NEW a \in Actors, NewLogWriter(a)
     PROVE  RunsStay /\ HistoryStays /\ FlagsStay
  <2>1. /\ InRun(a) /\ pc[a] # "endJob" /\ pc'[a] \in Running \ {"endJob"}
        /\ \A b \in Actors \ {a} : pc'[b] = pc[b] /\ loc'[b] = loc[b]
    BY <1>8, <1>2 DEF NewLogWriter, Goto, InRun, Running
  <2>2. loc'[a].job = loc[a].job /\ loc'[a].rec = loc[a].rec
    <3>1. CASE loc' = [loc EXCEPT ![a].res = "failed"]
      BY <3>1, <1>2, <1>3 DEF Locals
    <3>2. CASE UNCHANGED loc
      BY <3>2
    <3>3. QED
      BY <1>8, <3>1, <3>2 DEF NewLogWriter
  <2>3. RunsStay
    BY <2>1, <2>2, Inside
  <2>4. HistoryStays
    BY <1>8, SameHistory DEF NewLogWriter, db
  <2>5. FlagsStay
    BY <1>8, <1>2, <1>4 DEF NewLogWriter, StmtOk, StmtFails, FlagsStay, db, env
  <2>6. QED
    BY <2>3, <2>4, <2>5
<1>9. ASSUME NEW a \in Actors, RegisterCancel(a)
     PROVE  RunsStay /\ HistoryStays /\ FlagsStay
  <2>1. /\ InRun(a) /\ pc[a] # "endJob" /\ pc'[a] \in Running \ {"endJob"}
        /\ \A b \in Actors \ {a} : pc'[b] = pc[b] /\ loc'[b] = loc[b]
    BY <1>9, <1>2 DEF RegisterCancel, Goto, InRun, Running
  <2>2. loc'[a].job = loc[a].job /\ loc'[a].rec = loc[a].rec
    BY <1>9, <1>2, <1>3 DEF RegisterCancel, Goto, Locals
  <2>3. RunsStay
    BY <2>1, <2>2, Inside
  <2>4. HistoryStays
    BY <1>9, SameHistory DEF RegisterCancel, db
  <2>5. FlagsStay
    BY <1>9, <1>2, <1>4 DEF RegisterCancel, StmtOk, StmtFails, FlagsStay, db, env
  <2>6. QED
    BY <2>3, <2>4, <2>5
<1>10. ASSUME NEW a \in Actors, Launch(a)
      PROVE  RunsStay /\ HistoryStays /\ FlagsStay
  <2>1. /\ InRun(a) /\ pc[a] # "endJob" /\ pc'[a] \in Running \ {"endJob"}
        /\ \A b \in Actors \ {a} : pc'[b] = pc[b] /\ loc'[b] = loc[b]
    BY <1>10, <1>2 DEF Launch, Finished, Goto, InRun, Running
  <2>2. loc'[a].job = loc[a].job /\ loc'[a].rec = loc[a].rec
    <3>1. CASE loc' = [loc EXCEPT ![a].res = "success", ![a].left = 0]
      BY <3>1, <1>2, <1>3 DEF Locals
    <3>2. CASE loc' = [loc EXCEPT ![a].res = "failed", ![a].left = 0]
      BY <3>2, <1>2, <1>3 DEF Locals
    <3>3. CASE loc' = [loc EXCEPT ![a].res = "alive"]
      BY <3>3, <1>2, <1>3 DEF Locals
    <3>4. QED
      BY <1>10, <3>1, <3>2, <3>3 DEF Launch, Finished
  <2>3. RunsStay
    BY <2>1, <2>2, Inside
  <2>4. HistoryStays
    BY <1>10, SameHistory DEF Launch, db
  <2>5. FlagsStay
    BY <1>10, <1>2, <1>4 DEF Launch, Finished, StmtOk, StmtFails, FlagsStay, db, env
  <2>6. QED
    BY <2>3, <2>4, <2>5
<1>11. ASSUME NEW a \in Actors, ProcessExit(a)
      PROVE  RunsStay /\ HistoryStays /\ FlagsStay
  <2>1. /\ InRun(a) /\ pc[a] # "endJob" /\ pc'[a] \in Running \ {"endJob"}
        /\ \A b \in Actors \ {a} : pc'[b] = pc[b] /\ loc'[b] = loc[b]
    BY <1>11, <1>2 DEF ProcessExit, Goto, InRun, Running
  <2>2. loc'[a].job = loc[a].job /\ loc'[a].rec = loc[a].rec
    <3>1. PICK v \in Verdict : loc' = [loc EXCEPT ![a].res = v]
      BY <1>11 DEF ProcessExit
    <3>2. loc'[a] = [loc[a] EXCEPT !.res = v]
      BY <3>1, <1>2
    <3>3. QED
      BY <3>2, <1>2, <1>3 DEF Locals
  <2>3. RunsStay
    BY <2>1, <2>2, Inside
  <2>4. HistoryStays
    BY <1>11, SameHistory DEF ProcessExit, db
  <2>5. FlagsStay
    BY <1>11, <1>2, <1>4 DEF ProcessExit, StmtOk, StmtFails, FlagsStay, db, env
  <2>6. QED
    BY <2>3, <2>4, <2>5
<1>12. ASSUME NEW a \in Actors, Timeout(a)
      PROVE  RunsStay /\ HistoryStays /\ FlagsStay
  <2>1. /\ InRun(a) /\ pc[a] # "endJob" /\ pc'[a] \in Running \ {"endJob"}
        /\ \A b \in Actors \ {a} : pc'[b] = pc[b] /\ loc'[b] = loc[b]
    BY <1>12, <1>2 DEF Timeout, Goto, InRun, Running
  <2>2. loc'[a].job = loc[a].job /\ loc'[a].rec = loc[a].rec
    BY <1>12, <1>2, <1>3 DEF Timeout, Goto, Locals
  <2>3. RunsStay
    BY <2>1, <2>2, Inside
  <2>4. HistoryStays
    BY <1>12, SameHistory DEF Timeout, db
  <2>5. FlagsStay
    BY <1>12, <1>2, <1>4 DEF Timeout, StmtOk, StmtFails, FlagsStay, db, env
  <2>6. QED
    BY <2>3, <2>4, <2>5
<1>13. ASSUME NEW a \in Actors, ReceiveExit(a)
      PROVE  RunsStay /\ HistoryStays /\ FlagsStay
  <2>1. /\ InRun(a) /\ pc[a] # "endJob" /\ pc'[a] \in Running \ {"endJob"}
        /\ \A b \in Actors \ {a} : pc'[b] = pc[b] /\ loc'[b] = loc[b]
    BY <1>13, <1>2 DEF ReceiveExit, Finished, Goto, InRun, Running
  <2>2. loc'[a].job = loc[a].job /\ loc'[a].rec = loc[a].rec
    <3>1. CASE loc' = [loc EXCEPT ![a].res = "", ![a].left = @ - 1]
      BY <3>1, <1>2, <1>3 DEF Locals
    <3>2. CASE loc' = [loc EXCEPT ![a].res = loc[a].res, ![a].left = 0]
      BY <3>2, <1>2, <1>3 DEF Locals
    <3>3. QED
      BY <1>13, <3>1, <3>2 DEF ReceiveExit, Finished
  <2>3. RunsStay
    BY <2>1, <2>2, Inside
  <2>4. HistoryStays
    BY <1>13, SameHistory DEF ReceiveExit, db
  <2>5. FlagsStay
    BY <1>13, <1>2, <1>4 DEF ReceiveExit, Finished, StmtOk, StmtFails, FlagsStay, db, env
  <2>6. QED
    BY <2>3, <2>4, <2>5
<1>14. ASSUME NEW a \in Actors, ReceiveDone(a)
      PROVE  RunsStay /\ HistoryStays /\ FlagsStay
  <2>1. /\ InRun(a) /\ pc[a] # "endJob" /\ pc'[a] \in Running \ {"endJob"}
        /\ \A b \in Actors \ {a} : pc'[b] = pc[b] /\ loc'[b] = loc[b]
    BY <1>14, <1>2 DEF ReceiveDone, Goto, InRun, Running
  <2>2. loc'[a].job = loc[a].job /\ loc'[a].rec = loc[a].rec
    BY <1>14, <1>2, <1>3 DEF ReceiveDone, Goto, Locals
  <2>3. RunsStay
    BY <2>1, <2>2, Inside
  <2>4. HistoryStays
    BY <1>14, SameHistory DEF ReceiveDone, db
  <2>5. FlagsStay
    BY <1>14, <1>2, <1>4 DEF ReceiveDone, StmtOk, StmtFails, FlagsStay, db, env
  <2>6. QED
    BY <2>3, <2>4, <2>5
<1>15. ASSUME NEW a \in Actors, Reap(a)
      PROVE  RunsStay /\ HistoryStays /\ FlagsStay
  <2>1. /\ InRun(a) /\ pc[a] # "endJob" /\ pc'[a] \in Running \ {"endJob"}
        /\ \A b \in Actors \ {a} : pc'[b] = pc[b] /\ loc'[b] = loc[b]
    BY <1>15, <1>2 DEF Reap, Finished, Goto, InRun, Running
  <2>2. loc'[a].job = loc[a].job /\ loc'[a].rec = loc[a].rec
    BY <1>15, <1>2, <1>3 DEF Reap, Finished, Goto, Locals
  <2>3. RunsStay
    BY <2>1, <2>2, Inside
  <2>4. HistoryStays
    BY <1>15, SameHistory DEF Reap, db
  <2>5. FlagsStay
    BY <1>15, <1>2, <1>4 DEF Reap, Finished, StmtOk, StmtFails, FlagsStay, db, env
  <2>6. QED
    BY <2>3, <2>4, <2>5
<1>16. ASSUME NEW a \in Actors, UnregisterCancel(a)
      PROVE  RunsStay /\ HistoryStays /\ FlagsStay
  <2>1. /\ InRun(a) /\ pc[a] # "endJob" /\ pc'[a] \in Running \ {"endJob"}
        /\ \A b \in Actors \ {a} : pc'[b] = pc[b] /\ loc'[b] = loc[b]
    BY <1>16, <1>2 DEF UnregisterCancel, Goto, InRun, Running
  <2>2. loc'[a].job = loc[a].job /\ loc'[a].rec = loc[a].rec
    BY <1>16, <1>2, <1>3 DEF UnregisterCancel, Goto, Locals
  <2>3. RunsStay
    BY <2>1, <2>2, Inside
  <2>4. HistoryStays
    BY <1>16, SameHistory DEF UnregisterCancel, db
  <2>5. FlagsStay
    BY <1>16, <1>2, <1>4 DEF UnregisterCancel, StmtOk, StmtFails, FlagsStay, db, env
  <2>6. QED
    BY <2>3, <2>4, <2>5
<1>17. ASSUME NEW a \in Actors, PruneList(a)
      PROVE  RunsStay /\ HistoryStays /\ FlagsStay
  <2>1. /\ ~InRun(a) /\ pc'[a] \notin Running
        /\ \A b \in Actors \ {a} : pc'[b] = pc[b] /\ loc'[b] = loc[b]
    BY <1>17, <1>2 DEF PruneList, Return, Goto, InRun, Running
  <2>2. RunsStay
    BY <2>1, Outside
  <2>3. HistoryStays
    BY <1>17, SameHistory DEF PruneList, db
  <2>4. FlagsStay
    BY <1>17, <1>2, <1>4 DEF PruneList, Return, StmtOk, StmtFails, FlagsStay, db, env
  <2>5. QED
    BY <2>2, <2>3, <2>4
<1>18. ASSUME NEW a \in Actors, PruneRemove(a)
      PROVE  RunsStay /\ HistoryStays /\ FlagsStay
  <2>1. /\ ~InRun(a) /\ pc'[a] \notin Running
        /\ \A b \in Actors \ {a} : pc'[b] = pc[b] /\ loc'[b] = loc[b]
    BY <1>18, <1>2 DEF PruneRemove, Return, Goto, InRun, Running
  <2>2. RunsStay
    BY <2>1, Outside
  <2>3. HistoryStays
    BY <1>18, <1>2, SameHistory, DropHistory DEF PruneRemove
  <2>4. FlagsStay
    BY <1>18, <1>2, <1>4 DEF PruneRemove, Return, StmtOk, StmtFails, FlagsStay, db, env
  <2>5. QED
    BY <2>2, <2>3, <2>4
<1>19. ASSUME NEW a \in Actors, NEW j \in Jobs, NEW k \in Copies, UpdateCopies(a, j, k)
      PROVE  RunsStay /\ HistoryStays /\ FlagsStay
  <2>1. /\ ~InRun(a) /\ pc'[a] \notin Running
        /\ \A b \in Actors \ {a} : pc'[b] = pc[b] /\ loc'[b] = loc[b]
    BY <1>19, <1>2 DEF UpdateCopies, Goto, InRun, Running
  <2>2. RunsStay
    BY <2>1, Outside
  <2>3. HistoryStays
    BY <1>19, SameHistory DEF UpdateCopies, db
  <2>4. FlagsStay
    BY <1>19, <1>2, <1>4 DEF UpdateCopies, StmtOk, StmtFails, FlagsStay, db, env
  <2>5. QED
    BY <2>2, <2>3, <2>4
<1>20. ASSUME NEW a \in Actors, NEW j \in Jobs, HandleStop(a, j)
      PROVE  RunsStay /\ HistoryStays /\ FlagsStay
  <2>1. /\ ~InRun(a) /\ pc'[a] \notin Running
        /\ \A b \in Actors \ {a} : pc'[b] = pc[b] /\ loc'[b] = loc[b]
    BY <1>20, <1>2 DEF HandleStop, Goto, InRun, Running
  <2>2. RunsStay
    BY <2>1, Outside
  <2>3. HistoryStays
    BY <1>20, SameHistory DEF HandleStop, db
  <2>4. FlagsStay
    BY <1>20, <1>2, <1>4 DEF HandleStop, StmtOk, StmtFails, FlagsStay, db, env
  <2>5. QED
    BY <2>2, <2>3, <2>4
<1>21. ASSUME NEW a \in Actors, RunnerStop(a)
      PROVE  RunsStay /\ HistoryStays /\ FlagsStay
  <2>1. /\ ~InRun(a) /\ pc'[a] \notin Running
        /\ \A b \in Actors \ {a} : pc'[b] = pc[b] /\ loc'[b] = loc[b]
    BY <1>21, <1>2 DEF RunnerStop, Return, Goto, InRun, Running
  <2>2. RunsStay
    BY <2>1, Outside
  <2>3. HistoryStays
    BY <1>21, SameHistory DEF RunnerStop, db
  <2>4. FlagsStay
    BY <1>21, <1>2, <1>4 DEF RunnerStop, Return, StmtOk, StmtFails, FlagsStay, db, env
  <2>5. QED
    BY <2>2, <2>3, <2>4
<1>22. ASSUME NEW a \in Actors, NEW j \in Jobs, ClearRecords(a, j)
      PROVE  RunsStay /\ HistoryStays /\ FlagsStay
  <2>1. /\ ~InRun(a) /\ pc'[a] \notin Running
        /\ \A b \in Actors \ {a} : pc'[b] = pc[b] /\ loc'[b] = loc[b]
    BY <1>22, <1>2 DEF ClearRecords, Goto, InRun, Running
  <2>2. RunsStay
    BY <2>1, Outside
  <2>3. HistoryStays
    BY <1>22, SameHistory DEF ClearRecords, db
  <2>4. FlagsStay
    BY <1>22, <1>2, <1>4 DEF ClearRecords, StmtOk, StmtFails, FlagsStay, db, env
  <2>5. QED
    BY <2>2, <2>3, <2>4
<1>23. ASSUME NEW a \in Actors, NEW j \in Jobs, Delete(a, j)
      PROVE  RunsStay /\ HistoryStays /\ FlagsStay
  <2>1. /\ ~InRun(a) /\ pc'[a] \notin Running
        /\ \A b \in Actors \ {a} : pc'[b] = pc[b] /\ loc'[b] = loc[b]
    BY <1>23, <1>2 DEF Delete, Goto, InRun, Running
  <2>2. RunsStay
    BY <2>1, Outside
  <2>3. HistoryStays
    BY <1>23, SameHistory DEF Delete, db
  <2>4. FlagsStay
    BY <1>23, <1>2, <1>4 DEF Delete, StmtOk, StmtFails, FlagsStay, db, env
  <2>5. QED
    BY <2>2, <2>3, <2>4
<1>24. ASSUME NEW a \in Actors, CleanFiles(a)
      PROVE  RunsStay /\ HistoryStays /\ FlagsStay
  <2>1. /\ ~InRun(a) /\ pc'[a] \notin Running
        /\ \A b \in Actors \ {a} : pc'[b] = pc[b] /\ loc'[b] = loc[b]
    BY <1>24, <1>2 DEF CleanFiles, Goto, InRun, Running
  <2>2. RunsStay
    BY <2>1, Outside
  <2>3. HistoryStays
    BY <1>24, SameHistory DEF CleanFiles, db
  <2>4. FlagsStay
    BY <1>24, <1>2, <1>4 DEF CleanFiles, StmtOk, StmtFails, FlagsStay, db, env
  <2>5. QED
    BY <2>2, <2>3, <2>4
<1>25. ASSUME NEW a \in Actors, CleanRows(a)
      PROVE  RunsStay /\ HistoryStays /\ FlagsStay
  <2>1. /\ ~InRun(a) /\ pc'[a] \notin Running
        /\ \A b \in Actors \ {a} : pc'[b] = pc[b] /\ loc'[b] = loc[b]
    BY <1>25, <1>2 DEF CleanRows, Return, Goto, InRun, Running
  <2>2. RunsStay
    BY <2>1, Outside
  <2>3. HistoryStays
    BY <1>25, <1>2, SameHistory, DropHistory DEF CleanRows
  <2>4. FlagsStay
    BY <1>25, <1>2, <1>4 DEF CleanRows, Return, StmtOk, StmtFails, FlagsStay, db, env
  <2>5. QED
    BY <2>2, <2>3, <2>4
<1>26. ASSUME NEW a \in Actors, DeleteJob(a)
      PROVE  RunsStay /\ HistoryStays /\ FlagsStay
  <2>1. /\ ~InRun(a) /\ pc'[a] \notin Running
        /\ \A b \in Actors \ {a} : pc'[b] = pc[b] /\ loc'[b] = loc[b]
    BY <1>26, <1>2 DEF DeleteJob, Return, Goto, InRun, Running
  <2>2. RunsStay
    BY <2>1, Outside
  <2>3. HistoryStays
    BY <1>26, SameHistory DEF DeleteJob, db
  <2>4. FlagsStay
    BY <1>26, <1>2, <1>4 DEF DeleteJob, Return, StmtOk, StmtFails, FlagsStay, db, env
  <2>5. QED
    BY <2>2, <2>3, <2>4
<1>27. CASE Request
  BY <1>1, <1>27, <1>5, <1>19, <1>20, <1>22, <1>23
     DEF Request, Tick, HandleOnce
<1>28. ASSUME NEW a \in Actors, Step(a)
      PROVE  RunsStay /\ HistoryStays /\ FlagsStay
  BY <1>28, <1>6, <1>7, <1>8, <1>9, <1>10, <1>13,
     <1>14, <1>15, <1>16, <1>17, <1>18, <1>21, <1>24, <1>25, <1>26 DEF Step
<1>29. QED
  BY <1>11, <1>12, <1>27, <1>28 DEF Next

\* What a run does to its own record: it settles it, unless it was removed.
LEMMA SettleRow ==
  ASSUME NEW r \in Ids, NEW v \in Verdict, rec \in Seq(Record),
         rec[r].status \in {"waiting", "removed"}, rec' = Settled(r, v)
  PROVE  /\ Ids' = Ids
         /\ rec'[r].status = IF rec[r].status = "removed" THEN "removed" ELSE v
         /\ \A x \in Ids \ {r} : rec'[x] = rec[x]
<1>1. rec[r] \in Record
  BY DEF Ids
<1>2. CASE rec[r].status = "removed"
  BY <1>2 DEF Settled, Ids
<1>3. CASE rec[r].status # "removed"
  <2>1. rec' = [rec EXCEPT ![r].status = v, ![r].path = TRUE]
    BY <1>3 DEF Settled
  <2>2. rec'[r].status = v
    BY <2>1, <1>1 DEF Record, Ids
  <2>3. QED
    BY <2>1, <2>2, <1>3 DEF Ids
<1>4. QED
  BY <1>2, <1>3

\* Nobody runs anything when the process starts.
LEMMA AttendedInit == Init => AttendedInv
<1>. SUFFICES ASSUME Init PROVE AttendedInv
  OBVIOUS
<1>1. \A a \in Actors : ~InRun(a)
  BY DEF Init, InRun, Running
<1>2. executing = {} /\ Ids = {}
  BY DEF Init, Ids
<1>3. QED
  BY <1>1, <1>2 DEF AttendedInv, FlagHasRunner, WaitingHasRunner, OwnRecord

\* Every step keeps flags, waiting records and runs together.
LEMMA AttendedStep == TypeInv /\ DownIdle /\ AttendedInv /\ [Next]_vars => AttendedInv'
<1>. SUFFICES ASSUME TypeInv, DownIdle, AttendedInv PROVE [Next]_vars => AttendedInv'
  OBVIOUS
<1>1. /\ loc \in [Actors -> Locals] /\ pc \in [Actors -> Label]
      /\ rec \in Seq(Record) /\ faults \in Nat /\ executing \subseteq exists
  BY DEF TypeInv, TypeOK
<1>2. \A a \in Actors : loc[a] \in Locals
  BY <1>1
<1>3. \A a \in Actors : pc[a] # "idle" => up
  BY DEF DownIdle
<1>4. ASSUME NEW a \in Actors, StartRecord(a)
      PROVE  AttendedInv'
  <2>. DEFINE n == Len(rec) + 1
  <2>1. ~InRun(a) /\ up
    BY <1>4, <1>3 DEF StartRecord, InRun, Running
  <2>2. CASE /\ StmtOk /\ executing' = executing \cup {loc[a].job}
             /\ Insert(loc[a].job, "waiting")
             /\ loc' = [loc EXCEPT ![a].rec = n] /\ Goto(a, "open")
    <3>1. /\ \A b \in Actors \ {a} : pc'[b] = pc[b] /\ loc'[b] = loc[b]
          /\ pc'[a] = "open" /\ loc'[a].rec = n /\ loc'[a].job = loc[a].job
      BY <2>2, <1>1, <1>2 DEF Goto, Locals
    <3>2. /\ Ids' = Ids \cup {n} /\ n \notin Ids /\ rec'[n].status = "waiting"
          /\ \A r \in Ids : rec'[r] = rec[r]
      BY <2>2, <1>1, InsertRow
    <3>. HIDE DEF n
    <3>3. /\ InRun(a)'
          /\ \A b \in Actors \ {a} : InRun(b)' <=> InRun(b)
      BY <3>1 DEF InRun, Running
    <3>4. FlagHasRunner'
      BY <2>1, <2>2, <3>1, <3>3 DEF AttendedInv, FlagHasRunner, StmtOk
    <3>5. WaitingHasRunner'
      BY <2>1, <2>2, <3>1, <3>2, <3>3 DEF AttendedInv, WaitingHasRunner, StmtOk
    <3>6. OwnRecord'
      BY <2>1, <3>1, <3>2, <3>3 DEF AttendedInv, OwnRecord
    <3>7. QED
      BY <3>4, <3>5, <3>6 DEF AttendedInv
  <2>3. CASE UNCHANGED <<executing, rec, loc>> /\ (Goto(a, "skip") \/ Goto(a, "list"))
    <3>1. /\ pc'[a] \notin Running
          /\ \A b \in Actors \ {a} : pc'[b] = pc[b] /\ loc'[b] = loc[b]
      BY <2>3, <1>1 DEF Goto, Running
    <3>2. FlagsStay
      BY <1>4, <1>1, <2>1, <2>3 DEF StartRecord, StmtOk, StmtFails, FlagsStay
    <3>3. QED
      BY <2>1, <2>3, <3>1, <3>2, Outside, SameHistory, AttendedStays
  <2>4. QED
    BY <1>4, <2>2, <2>3 DEF StartRecord
<1>5. ASSUME NEW a \in Actors, EndRecord(a)
      PROVE  AttendedInv'
  <2>1. /\ InRun(a) /\ pc[a] # "endJob" /\ up
        /\ loc' = loc /\ executing' = executing /\ up' = up
        /\ loc[a].res \in Verdict
    BY <1>5, <1>3 DEF EndRecord, InRun, Running, env, TypeInv, ResultKnown
  <2>2. /\ pc'[a] = "endJob" /\ \A b \in Actors \ {a} : pc'[b] = pc[b]
        /\ \A b \in Actors : InRun(b)' <=> InRun(b)
    BY <1>5, <1>1 DEF EndRecord, Goto, InRun, Running
  <2>3. /\ loc[a].rec \in Ids /\ rec[loc[a].rec].status \in {"waiting", "removed"}
        /\ \A b \in Actors \ {a} : InRun(b) => loc[b].rec # loc[a].rec
    BY <2>1 DEF AttendedInv, OwnRecord
  <2>4. CASE StmtOk /\ rec' = Settled(loc[a].rec, loc[a].res)
    <3>1. /\ Ids' = Ids /\ rec'[loc[a].rec].status \in {loc[a].res, "removed"}
          /\ \A x \in Ids \ {loc[a].rec} : rec'[x] = rec[x]
      BY <2>1, <2>3, <2>4, <1>1, SettleRow
    <3>2. rec'[loc[a].rec].status # "waiting"
      BY <3>1, <2>1 DEF Verdict
    <3>3. FlagHasRunner'
      BY <2>1, <2>2, <2>4 DEF AttendedInv, FlagHasRunner, StmtOk
    <3>4. WaitingHasRunner'
      BY <2>1, <2>2, <2>4, <3>1, <3>2 DEF AttendedInv, WaitingHasRunner, StmtOk
    <3>5. OwnRecord'
      BY <2>1, <2>2, <2>3, <3>1 DEF AttendedInv, OwnRecord
    <3>6. QED
      BY <3>3, <3>4, <3>5 DEF AttendedInv
  <2>5. CASE StmtFails /\ rec' = rec
    <3>1. faults' # 0 /\ Ids' = Ids
      BY <2>5, <1>1 DEF StmtFails, Ids
    <3>2. FlagHasRunner' /\ WaitingHasRunner'
      BY <3>1 DEF FlagHasRunner, WaitingHasRunner
    <3>3. OwnRecord'
      BY <2>1, <2>2, <2>5, <3>1 DEF AttendedInv, OwnRecord
    <3>4. QED
      BY <3>2, <3>3 DEF AttendedInv
  <2>6. QED
    BY <1>5, <2>4, <2>5 DEF EndRecord
<1>6. ASSUME NEW a \in Actors, EndJob(a)
      PROVE  AttendedInv'
  <2>1. /\ pc[a] = "endJob" /\ loc' = loc /\ rec' = rec /\ Ids' = Ids /\ up
        /\ ~InRun(a)'
        /\ \A b \in Actors \ {a} : pc'[b] = pc[b] /\ (InRun(b)' <=> InRun(b))
    BY <1>6, <1>1, <1>3 DEF EndJob, Goto, InRun, Running, Ids
  <2>2. FlagHasRunner'
    BY <1>6, <1>1, <2>1 DEF AttendedInv, FlagHasRunner, EndJob, StmtOk, StmtFails
  <2>3. WaitingHasRunner'
    BY <1>6, <1>1, <2>1 DEF AttendedInv, WaitingHasRunner, EndJob, StmtOk, StmtFails
  <2>4. OwnRecord'
    BY <2>1 DEF AttendedInv, OwnRecord
  <2>5. QED
    BY <2>2, <2>3, <2>4 DEF AttendedInv
<1>7. CASE Crash
  BY <1>7 DEF Crash, AttendedInv, FlagHasRunner, WaitingHasRunner, OwnRecord, InRun, Running
<1>8. CASE RestoreCronjobs
  <2>1. \A b \in Actors : ~InRun(b)'
    BY <1>8 DEF RestoreCronjobs, DownIdle, InRun, Running
  <2>2. FlagHasRunner'
    BY <1>8 DEF RestoreCronjobs, FlagHasRunner, FlagsAfterRestart
  <2>3. CASE faults' = 0
    <3>1. rec' = Interrupted
      BY <1>8, <2>3 DEF RestoreCronjobs
    <3>2. \A r \in Ids : rec[r] \in Record
      BY <1>1 DEF Ids
    <3>3. \A r \in Ids' : rec'[r].status # "waiting"
      BY <3>1, <3>2 DEF Interrupted, AfterRestart, Record, Ids
    <3>4. QED
      BY <2>1, <2>2, <3>3 DEF AttendedInv, WaitingHasRunner, OwnRecord
  <2>4. CASE faults' # 0
    BY <2>1, <2>2, <2>4 DEF AttendedInv, WaitingHasRunner, OwnRecord
  <2>5. QED
    BY <2>3, <2>4
<1>9. CASE UNCHANGED vars
  BY <1>9 DEF vars, AttendedInv, FlagHasRunner, WaitingHasRunner, OwnRecord, InRun, Ids
<1>10. CASE /\ Next /\ ~Crash /\ ~RestoreCronjobs
            /\ \A a \in Actors : ~StartRecord(a) /\ ~EndRecord(a) /\ ~EndJob(a)
  BY <1>10, QuietSteps, AttendedStays DEF TypeInv
<1>11. QED
  BY <1>4, <1>5, <1>6, <1>7, <1>8, <1>9, <1>10

\* What AttendedStep needs of the other invariants holds with it.
LEMMA AlwaysAttended == Spec => [](TypeInv /\ MutexInv /\ AttendedInv)
<1>. DEFINE Inv == TypeInv /\ MutexInv /\ AttendedInv
<1>1. Init => Inv
  BY TypeInit, MutexInit, AttendedInit
<1>2. Inv /\ [Next]_vars => Inv'
  BY TypeStep, MutexStep, AttendedStep DEF TypeInv, MutexInv
<1>3. QED
  BY <1>1, <1>2, PTL DEF Spec

\* A flag that is set belongs to a run, as long as no statement has failed since the
\* process started: nothing blocks a cronjob for good.
THEOREM FlagIsAttended == Spec => []FlagHasRunner
<1>1. AttendedInv => FlagHasRunner
  BY DEF AttendedInv
<1>2. QED
  BY <1>1, AlwaysAttended, PTL

\* A record that waits has a run that will settle it, as long as no statement has
\* failed since the process started.
THEOREM WaitingIsAttended == Spec => []WaitingHasRunner
<1>1. AttendedInv => WaitingHasRunner
  BY DEF AttendedInv
<1>2. QED
  BY <1>1, AlwaysAttended, PTL
----------------------------------------------------------------------------
\* A record that has a verdict keeps it or is removed.
VerdictStays ==
  \A r \in Ids : rec[r].status # "waiting" => rec'[r].status \in {rec[r].status, "removed"}

\* No step changes a verdict: a run settles its own record only, which waited until
\* then, and the restart settles those that wait.
LEMMA VerdictStep == TypeInv /\ DownIdle /\ AttendedInv /\ Next => VerdictStays
<1>. SUFFICES ASSUME TypeInv, DownIdle, AttendedInv, Next PROVE VerdictStays
  OBVIOUS
<1>1. rec \in Seq(Record)
  BY DEF TypeInv, TypeOK
<1>2. CASE HistoryStays
  BY <1>2 DEF HistoryStays, VerdictStays
<1>3. ASSUME NEW a \in Actors, StartRecord(a)
      PROVE  VerdictStays
  <2>1. CASE Insert(loc[a].job, "waiting")
    BY <2>1, <1>1, InsertRow DEF VerdictStays
  <2>2. CASE rec' = rec
    BY <2>2 DEF VerdictStays
  <2>3. QED
    BY <1>3, <2>1, <2>2 DEF StartRecord
<1>4. ASSUME NEW a \in Actors, EndRecord(a)
      PROVE  VerdictStays
  <2>1. CASE rec' = Settled(loc[a].rec, loc[a].res)
    <3>1. /\ loc[a].res \in Verdict /\ loc[a].rec \in Ids
          /\ rec[loc[a].rec].status \in {"waiting", "removed"}
      BY <1>4 DEF EndRecord, InRun, Running, TypeInv, ResultKnown, AttendedInv, OwnRecord
    <3>2. QED
      BY <2>1, <3>1, <1>1, SettleRow DEF VerdictStays
  <2>2. QED
    BY <1>4, <2>1, <1>2, SameHistory DEF EndRecord
<1>5. ASSUME NEW a \in Actors, EndJob(a)
      PROVE  VerdictStays
  BY <1>5, <1>2, SameHistory DEF EndJob
<1>6. CASE Crash
  BY <1>6, <1>2, SameHistory DEF Crash, db
<1>7. CASE RestoreCronjobs
  <2>1. \A r \in Ids : rec[r] \in Record
    BY <1>1 DEF Ids
  <2>2. CASE rec' = Interrupted
    BY <2>1, <2>2 DEF Interrupted, AfterRestart, Record, VerdictStays
  <2>3. QED
    BY <1>7, <2>2, <1>2, SameHistory DEF RestoreCronjobs
<1>8. QED
  BY <1>2, <1>3, <1>4, <1>5, <1>6, <1>7, QuietSteps DEF TypeInv

\* The history is never rewritten: only a waiting record gets a verdict, whatever
\* runs, requests, failing statements and crashes there are.
THEOREM VerdictIsFinal == Spec => VerdictFinal
<1>1. TypeInv /\ MutexInv /\ AttendedInv /\ [Next]_vars => [VerdictStays]_vars
  BY VerdictStep DEF MutexInv
<1>2. QED
  BY <1>1, AlwaysAttended, PTL DEF Spec, VerdictFinal, VerdictStays

----------------------------------------------------------------------------
(* CronExec implements RunLedger. *)

\* The ledger's variables, as CronExec gives them.
AnyOf(S) == IF S = {} THEN 0 ELSE CHOOSE r \in S : TRUE
Owner == [j \in Jobs |-> AnyOf(RunOf(j))]
Said == [r \in 1..MaxRecords |-> IF r \in Ids THEN rec[r].status ELSE "none"]

\* HandleJob calls that may still create a record; each was counted by Budget.
Calling == {a \in Workers : pc[a] \in {"get", "start", "skip"}}

\* Records never outnumber the ids of the ledger.
BudgetInv ==
  /\ \A a \in Actors : pc[a] \in {"get", "start", "skip"} => a \in Workers
  /\ IsFiniteSet(Calling)
  /\ Len(rec) + Cardinality(Calling) <= MaxRecords

\* Steps that leave the history and the life of the process alone.
Calm == up' = up /\ rec' = rec /\ faults' \in {faults, faults + 1}

\* Steps that keep who runs what.
SameRuns ==
  \A b \in Actors :
    /\ InRun(b)' <=> InRun(b)
    /\ InRun(b) => loc'[b].job = loc[b].job /\ loc'[b].rec = loc[b].rec

----------------------------------------------------------------------------
\* Two tables with the same ids are equally long.
LEMMA SameIds ==
  ASSUME rec \in Seq(Record), rec' \in Seq(Record), Ids' = Ids
  PROVE  Len(rec') = Len(rec)
<1>1. 1..Len(rec') = 1..Len(rec) /\ Len(rec) \in Nat /\ Len(rec') \in Nat
  BY DEF Ids
<1>2. Len(rec') <= Len(rec)
  <2>1. CASE Len(rec') = 0
    BY <1>1, <2>1
  <2>2. CASE Len(rec') # 0
    <3>1. Len(rec') \in 1..Len(rec')
      BY <1>1, <2>2
    <3>2. QED
      BY <1>1, <3>1
  <2>3. QED
    BY <2>1, <2>2
<1>3. Len(rec) <= Len(rec')
  <2>1. CASE Len(rec) = 0
    BY <1>1, <2>1
  <2>2. CASE Len(rec) # 0
    <3>1. Len(rec) \in 1..Len(rec)
      BY <1>1, <2>2
    <3>2. QED
      BY <1>1, <3>1
  <2>3. QED
    BY <2>1, <2>2
<1>4. QED
  BY <1>1, <1>2, <1>3

\* Removing rows keeps the ids, as does settling a record.
LEMMA DropIds == ASSUME NEW S, Drop(S) PROVE Ids' = Ids
BY DEF Drop, Ids

LEMMA SettledIds == ASSUME NEW r, NEW v, rec' = Settled(r, v) PROVE Ids' = Ids
BY DEF Settled, Ids

----------------------------------------------------------------------------
\* The budget: what a step does to the calls that may still create a record.

\* A call that goes on, or ends, without a new record.
LEMMA BudgetStays ==
  ASSUME BudgetInv, rec \in Seq(Record), rec' \in Seq(Record), Ids' = Ids,
         \A b \in Actors : pc'[b] \in {"get", "start", "skip"} => pc[b] \in {"get", "start", "skip"}
  PROVE  BudgetInv'
<1>1. Len(rec') = Len(rec) /\ Len(rec) \in Nat
  BY SameIds
<1>2. Calling' \subseteq Calling
  BY DEF Calling, Actors
<1>3. IsFiniteSet(Calling') /\ Cardinality(Calling') <= Cardinality(Calling)
  BY <1>2, FS_Subset DEF BudgetInv
<1>4. Cardinality(Calling) \in Nat /\ Cardinality(Calling') \in Nat /\ MaxRecords \in Nat
  BY <1>3, FS_CardinalityType, ConstantsAssumption DEF BudgetInv
<1>5. Len(rec') + Cardinality(Calling') <= MaxRecords
  BY <1>1, <1>3, <1>4 DEF BudgetInv
<1>6. QED
  BY <1>3, <1>5 DEF BudgetInv

\* A call that creates a record is over with that.
LEMMA BudgetSpent ==
  ASSUME BudgetInv, rec \in Seq(Record), NEW j, NEW s, Insert(j, s),
         NEW a \in Actors, pc[a] \in {"get", "start", "skip"}, pc'[a] \notin {"get", "start", "skip"},
         \A b \in Actors \ {a} : pc'[b] = pc[b]
  PROVE  BudgetInv' /\ Len(rec) + 1 \in 1..MaxRecords
<1>1. Len(rec') = Len(rec) + 1 /\ Len(rec) \in Nat
  BY DEF Insert
<1>2. a \in Calling /\ Calling' = Calling \ {a}
  BY DEF Calling, BudgetInv, Actors
<1>3. /\ IsFiniteSet(Calling')
      /\ Cardinality(Calling') = Cardinality(Calling) - 1
  BY <1>2, FS_RemoveElement DEF BudgetInv
<1>4. Cardinality(Calling) \in Nat /\ Cardinality(Calling') \in Nat /\ MaxRecords \in Nat
  BY <1>3, FS_CardinalityType, ConstantsAssumption DEF BudgetInv
<1>5. /\ Len(rec') + Cardinality(Calling') <= MaxRecords
      /\ Len(rec) + 1 <= MaxRecords
  BY <1>1, <1>3, <1>4 DEF BudgetInv
<1>6. BudgetInv'
  BY <1>3, <1>5 DEF BudgetInv
<1>7. QED
  BY <1>1, <1>4, <1>5, <1>6

\* A call begins only if there is room for its record.
LEMMA BudgetTaken ==
  ASSUME BudgetInv, Budget, rec \in Seq(Record), rec' = rec, NEW a \in Workers,
         pc \in [Actors -> Label], Goto(a, "get")
  PROVE  BudgetInv'
<1>1. /\ pc'[a] = "get" /\ \A b \in Actors \ {a} : pc'[b] = pc[b]
      /\ a \in Actors
  BY DEF Goto, Actors
<1>2. Calling' = Calling \cup {a}
  BY <1>1 DEF Calling, Actors
<1>3. /\ IsFiniteSet(Calling')
      /\ Cardinality(Calling') <= Cardinality(Calling) + 1
  <2>1. CASE a \in Calling
    <3>1. Calling' = Calling /\ Cardinality(Calling) \in Nat
      BY <1>2, <2>1, FS_CardinalityType DEF BudgetInv
    <3>2. QED
      BY <3>1 DEF BudgetInv
  <2>2. CASE a \notin Calling
    <3>1. IsFiniteSet(Calling') /\ Cardinality(Calling') = Cardinality(Calling) + 1
      BY <1>2, <2>2, FS_AddElement DEF BudgetInv
    <3>2. Cardinality(Calling) \in Nat
      BY FS_CardinalityType DEF BudgetInv
    <3>3. QED
      BY <3>1, <3>2
  <2>3. QED
    BY <2>1, <2>2
<1>4. /\ Cardinality(Calling) \in Nat /\ Cardinality(Calling') \in Nat
      /\ MaxRecords \in Nat /\ Len(rec) \in Nat
  BY <1>3, FS_CardinalityType, ConstantsAssumption DEF BudgetInv
<1>5. Len(rec) + Cardinality(Calling) < MaxRecords
  BY DEF Budget, Calling
<1>6. Len(rec') + Cardinality(Calling') <= MaxRecords
  BY <1>3, <1>4, <1>5
<1>7. QED
  BY <1>1, <1>3, <1>6 DEF BudgetInv

LEMMA BudgetInit == Init => BudgetInv
<1>. SUFFICES ASSUME Init PROVE BudgetInv
  OBVIOUS
<1>1. Calling = {} /\ Len(rec) = 0 /\ \A a \in Actors : pc[a] = "idle"
  BY DEF Init, Calling, Actors
<1>2. QED
  BY <1>1, FS_EmptySet, ConstantsAssumption DEF BudgetInv

----------------------------------------------------------------------------
\* No call begins.
NoNewCall ==
  \A b \in Actors : pc'[b] \in {"get", "start", "skip"} => pc[b] \in {"get", "start", "skip"}

\* Most steps are calm and begin no call.
LEMMA CalmSteps ==
  ASSUME TypeOK, DownIdle, Next, ~Crash, ~RestoreCronjobs,
         \A a \in Workers, j \in Jobs : ~Call(a, j),
         \A a \in Actors : /\ ~StartRecord(a) /\ ~RecordSkipped(a) /\ ~EndRecord(a)
                           /\ ~PruneRemove(a) /\ ~CleanRows(a)
  PROVE  Calm /\ NoNewCall /\ up
<1>1. /\ Workers \subseteq Actors /\ Admins \subseteq Actors
      /\ loc \in [Actors -> Locals] /\ pc \in [Actors -> Label]
      /\ \A a \in Actors : pc[a] # "idle" => up
  BY DEF Actors, TypeOK, DownIdle
<1>2. ASSUME NEW a \in Actors, HandleJobGet(a)
     PROVE  Calm /\ NoNewCall /\ up
  BY <1>2, <1>1 DEF HandleJobGet, Return, Goto, StmtOk, StmtFails, Calm, NoNewCall, db, env
<1>3. ASSUME NEW a \in Actors, NewLogWriter(a)
     PROVE  Calm /\ NoNewCall /\ up
  BY <1>3, <1>1 DEF NewLogWriter, Goto, StmtOk, StmtFails, Calm, NoNewCall, db, env
<1>4. ASSUME NEW a \in Actors, RegisterCancel(a)
     PROVE  Calm /\ NoNewCall /\ up
  BY <1>4, <1>1 DEF RegisterCancel, Goto, StmtOk, StmtFails, Calm, NoNewCall, db, env
<1>5. ASSUME NEW a \in Actors, Launch(a)
     PROVE  Calm /\ NoNewCall /\ up
  BY <1>5, <1>1 DEF Launch, Finished, Goto, StmtOk, StmtFails, Calm, NoNewCall, db, env
<1>6. ASSUME NEW a \in Actors, ProcessExit(a)
     PROVE  Calm /\ NoNewCall /\ up
  BY <1>6, <1>1 DEF ProcessExit, Goto, StmtOk, StmtFails, Calm, NoNewCall, db, env
<1>7. ASSUME NEW a \in Actors, Timeout(a)
     PROVE  Calm /\ NoNewCall /\ up
  BY <1>7, <1>1 DEF Timeout, Goto, StmtOk, StmtFails, Calm, NoNewCall, db, env
<1>8. ASSUME NEW a \in Actors, ReceiveExit(a)
     PROVE  Calm /\ NoNewCall /\ up
  BY <1>8, <1>1 DEF ReceiveExit, Finished, Goto, StmtOk, StmtFails, Calm, NoNewCall, db, env
<1>9. ASSUME NEW a \in Actors, ReceiveDone(a)
     PROVE  Calm /\ NoNewCall /\ up
  BY <1>9, <1>1 DEF ReceiveDone, Goto, StmtOk, StmtFails, Calm, NoNewCall, db, env
<1>10. ASSUME NEW a \in Actors, Reap(a)
      PROVE  Calm /\ NoNewCall /\ up
  BY <1>10, <1>1 DEF Reap, Finished, Goto, StmtOk, StmtFails, Calm, NoNewCall, db, env
<1>11. ASSUME NEW a \in Actors, UnregisterCancel(a)
      PROVE  Calm /\ NoNewCall /\ up
  BY <1>11, <1>1 DEF UnregisterCancel, Goto, StmtOk, StmtFails, Calm, NoNewCall, db, env
<1>12. ASSUME NEW a \in Actors, EndJob(a)
      PROVE  Calm /\ NoNewCall /\ up
  BY <1>12, <1>1 DEF EndJob, Goto, StmtOk, StmtFails, Calm, NoNewCall, db, env
<1>13. ASSUME NEW a \in Actors, PruneList(a)
      PROVE  Calm /\ NoNewCall /\ up
  BY <1>13, <1>1 DEF PruneList, Return, Goto, StmtOk, StmtFails, Calm, NoNewCall, db, env
<1>14. ASSUME NEW a \in Actors, NEW j \in Jobs, NEW k \in Copies, UpdateCopies(a, j, k)
      PROVE  Calm /\ NoNewCall /\ up
  BY <1>14, <1>1 DEF UpdateCopies, Goto, StmtOk, StmtFails, Calm, NoNewCall, db, env
<1>15. ASSUME NEW a \in Actors, NEW j \in Jobs, HandleStop(a, j)
      PROVE  Calm /\ NoNewCall /\ up
  BY <1>15, <1>1 DEF HandleStop, Goto, StmtOk, StmtFails, Calm, NoNewCall, db, env
<1>16. ASSUME NEW a \in Actors, RunnerStop(a)
      PROVE  Calm /\ NoNewCall /\ up
  BY <1>16, <1>1 DEF RunnerStop, Return, Goto, StmtOk, StmtFails, Calm, NoNewCall, db, env
<1>17. ASSUME NEW a \in Actors, NEW j \in Jobs, ClearRecords(a, j)
      PROVE  Calm /\ NoNewCall /\ up
  BY <1>17, <1>1 DEF ClearRecords, Goto, StmtOk, StmtFails, Calm, NoNewCall, db, env
<1>18. ASSUME NEW a \in Actors, NEW j \in Jobs, Delete(a, j)
      PROVE  Calm /\ NoNewCall /\ up
  BY <1>18, <1>1 DEF Delete, Goto, StmtOk, StmtFails, Calm, NoNewCall, db, env
<1>19. ASSUME NEW a \in Actors, CleanFiles(a)
      PROVE  Calm /\ NoNewCall /\ up
  BY <1>19, <1>1 DEF CleanFiles, Goto, StmtOk, StmtFails, Calm, NoNewCall, db, env
<1>20. ASSUME NEW a \in Actors, DeleteJob(a)
      PROVE  Calm /\ NoNewCall /\ up
  BY <1>20, <1>1 DEF DeleteJob, Return, Goto, StmtOk, StmtFails, Calm, NoNewCall, db, env
<1>21. CASE Request
  BY <1>1, <1>21, <1>14, <1>15, <1>17, <1>18 DEF Request, Tick, HandleOnce
<1>22. ASSUME NEW a \in Actors, Step(a)
      PROVE  Calm /\ NoNewCall /\ up
  BY <1>22, <1>2, <1>3, <1>4, <1>5, <1>8, <1>9, <1>10,
     <1>11, <1>12, <1>13, <1>16, <1>19, <1>20 DEF Step
<1>23. QED
  BY <1>6, <1>7, <1>21, <1>22 DEF Next

----------------------------------------------------------------------------
\* What the steps are in the ledger.

\* Who owns a cronjob depends on the runs only.
LEMMA SameOwner == SameRuns => Owner' = Owner
<1>. SUFFICES ASSUME SameRuns PROVE Owner' = Owner
  OBVIOUS
<1>1. \A j \in Jobs : RunOf(j)' = RunOf(j)
  BY DEF SameRuns, RunOf
<1>2. QED
  BY <1>1 DEF Owner

\* The owner of a cronjob is the record of its only run.
LEMMA OwnerOfRun ==
  ASSUME NoDoubleRun, loc \in [Actors -> Locals], NEW a \in Actors, InRun(a)
  PROVE  loc[a].job \in Jobs /\ Owner[loc[a].job] = loc[a].rec
<1>1. loc[a].job \in Jobs
  BY DEF Locals
<1>2. RunOf(loc[a].job) = {loc[a].rec}
  BY DEF RunOf, NoDoubleRun
<1>3. QED
  BY <1>1, <1>2 DEF Owner, AnyOf

\* A cronjob without a run has no owner.
LEMMA NoOwner ==
  ASSUME NEW j \in Jobs, \A a \in Actors : ~(InRun(a) /\ loc[a].job = j)
  PROVE  Owner[j] = 0
<1>1. RunOf(j) = {}
  BY DEF RunOf
<1>2. QED
  BY <1>1 DEF Owner, AnyOf

\* The same table says the same.
LEMMA SameSaid == rec' = rec => Said' = Said
BY DEF Said, Ids

\* Without runs there are no owners.
LEMMA NoOwners ==
  ASSUME \A a \in Actors : ~InRun(a)'
  PROVE  Owner' = [j \in Jobs |-> 0]
<1>1. \A j \in Jobs : RunOf(j)' = {}
  BY DEF RunOf
<1>2. QED
  BY <1>1 DEF Owner, AnyOf

\* A calm step that keeps the runs shows a failure at most.
LEMMA CalmIsLedger ==
  ASSUME SameRuns, Calm, up, up \in BOOLEAN, faults \in Nat
  PROVE  [Ledger!LedgerNext]_(Ledger!ledgerVars)
<1>1. Owner' = Owner /\ Said' = Said
  BY SameOwner, SameSaid DEF Calm
<1>2. CASE faults' = faults
  BY <1>1, <1>2 DEF Calm, Ledger!ledgerVars, Owner, Said, AnyOf
<1>3. CASE faults' = faults + 1
  <2>1. PICK j \in Jobs : TRUE
    BY ConstantsAssumption
  <2>2. (faults > 0)' = TRUE
    BY <1>3
  <2>3. Ledger!Fault(j)
    BY <1>1, <2>2 DEF Calm, Ledger!Fault, Owner, Said, AnyOf
  <2>4. QED
    BY <2>3 DEF Ledger!LedgerNext
<1>4. QED
  BY <1>2, <1>3 DEF Calm

\* The ids of records are ids of the ledger.
LEMMA IdsInLedger ==
  ASSUME BudgetInv, rec \in Seq(Record)
  PROVE  Ids \subseteq 1..MaxRecords
<1>1. Cardinality(Calling) \in Nat /\ MaxRecords \in Nat /\ Len(rec) \in Nat
  BY FS_CardinalityType, ConstantsAssumption DEF BudgetInv
<1>2. Len(rec) <= MaxRecords
  BY <1>1 DEF BudgetInv
<1>3. QED
  BY <1>1, <1>2 DEF Ids

\* Removing rows is forgetting them.
LEMMA DropIsForget ==
  ASSUME SameRuns, NEW S, Drop(S), up, up \in BOOLEAN, UNCHANGED <<up, faults>>,
         rec \in Seq(Record), Ids \subseteq 1..MaxRecords
  PROVE  Ledger!LedgerNext
<1>0. PICK gone : gone = S \cap Ids
  OBVIOUS
<1>1. Owner' = Owner
  BY SameOwner
<1>2. \A r \in Ids : rec[r] \in Record
  BY DEF Ids
<1>3. Said' = [r \in 1..MaxRecords |-> IF r \in gone THEN "removed" ELSE Said[r]]
  BY <1>0, <1>2 DEF Said, Drop, Ids, Record
<1>4. \A r \in gone : Said[r] # "none"
  BY <1>0, <1>2 DEF Said, Record, Status, Verdict
<1>5. Ledger!Forget(gone)
  BY <1>1, <1>3, <1>4 DEF Ledger!Forget, Owner, Said, AnyOf
<1>6. gone \in SUBSET (1..MaxRecords)
  BY <1>0
<1>7. QED
  BY <1>5, <1>6 DEF Ledger!LedgerNext

\* Every step keeps the budget and is a step of the ledger, or none there.
LEMMA LedgerStep ==
  ASSUME TypeInv, TypeOK', MutexInv, AttendedInv, BudgetInv, [Next]_vars
  PROVE  BudgetInv' /\ [Ledger!LedgerNext]_(Ledger!ledgerVars)
<1>1. /\ loc \in [Actors -> Locals] /\ pc \in [Actors -> Label]
      /\ rec \in Seq(Record) /\ rec' \in Seq(Record)
      /\ faults \in Nat /\ up \in BOOLEAN
  BY DEF TypeInv, TypeOK
<1>2. /\ \A a \in Actors : loc[a] \in Locals /\ loc[a].job \in Jobs
      /\ \A a \in Actors : pc[a] # "idle" => up
      /\ Workers \subseteq Actors
  BY <1>1 DEF Locals, MutexInv, DownIdle, Actors
<1>3. Ids \subseteq 1..MaxRecords /\ \A r \in Ids : rec[r] \in Record
  BY <1>1, IdsInLedger DEF Ids
<1>4. CASE Calm /\ NoNewCall /\ SameRuns /\ up
  <2>1. Ids' = Ids
    BY <1>4 DEF Calm, Ids
  <2>2. BudgetInv'
    BY <1>1, <1>4, <2>1, BudgetStays DEF NoNewCall
  <2>3. QED
    BY <1>1, <1>4, <2>2, CalmIsLedger
<1>5. ASSUME NEW a \in Workers, NEW j \in Jobs, Call(a, j)
      PROVE  BudgetInv' /\ [Ledger!LedgerNext]_(Ledger!ledgerVars)
  <2>1. SameRuns
    BY <1>1, <1>2, <1>5 DEF Call, Goto, SameRuns, InRun, Running
  <2>2. Calm /\ up /\ rec' = rec /\ Budget /\ Goto(a, "get")
    BY <1>5 DEF Call, Calm, db, env
  <2>3. BudgetInv'
    BY <1>1, <2>2, BudgetTaken
  <2>4. QED
    BY <1>1, <2>1, <2>2, <2>3, CalmIsLedger
<1>6. ASSUME NEW a \in Actors, StartRecord(a)
      PROVE  BudgetInv' /\ [Ledger!LedgerNext]_(Ledger!ledgerVars)
  <2>0. PICK j \in Jobs, n \in {Len(rec) + 1} : j = loc[a].job /\ n = Len(rec) + 1
    BY <1>2
  <2>1. pc[a] = "start" /\ ~InRun(a) /\ up /\ up' = up
    BY <1>2, <1>6 DEF StartRecord, InRun, Running, env
  <2>2. CASE /\ StmtOk /\ Free(j) /\ Insert(j, "waiting")
             /\ loc' = [loc EXCEPT ![a].rec = n] /\ Goto(a, "open")
    <3>1. /\ \A b \in Actors \ {a} : pc'[b] = pc[b] /\ loc'[b] = loc[b]
          /\ pc'[a] = "open" /\ loc'[a].rec = n /\ loc'[a].job = j
      BY <2>0, <2>2, <1>1, <1>2 DEF Goto, Locals
    <3>2. BudgetInv' /\ n \in 1..MaxRecords
      BY <2>0, <2>1, <2>2, <3>1, <1>1, BudgetSpent
    <3>3. /\ Ids' = Ids \cup {n} /\ n \notin Ids /\ rec'[n].status = "waiting"
          /\ \A r \in Ids : rec'[r] = rec[r]
      BY <2>0, <2>2, <1>1, InsertRow
    <3>4. \A b \in Actors : ~(InRun(b) /\ loc[b].job = j)
      BY <2>2 DEF Free, MutexInv, RunnerHasFlag
    <3>5. Owner[j] = 0
      BY <3>4, NoOwner
    <3>6. InRun(a)' /\ \A b \in Actors \ {a} : InRun(b)' <=> InRun(b)
      BY <3>1 DEF InRun, Running
    <3>7. /\ RunOf(j)' = {n}
          /\ \A k \in Jobs \ {j} : RunOf(k)' = RunOf(k)
      <4>1. RunOf(j)' = {n}
        BY <3>1, <3>4, <3>6 DEF RunOf
      <4>2. ASSUME NEW k \in Jobs \ {j} PROVE RunOf(k)' = RunOf(k)
        BY <2>1, <3>1, <3>6 DEF RunOf
      <4>3. QED
        BY <4>1, <4>2
    <3>8. AnyOf({n}) = n
      BY DEF AnyOf
    <3>9. Owner' = [Owner EXCEPT ![j] = n]
      BY <3>7, <3>8 DEF Owner
    <3>10. Said[n] = "none" /\ Said' = [Said EXCEPT ![n] = "waiting"]
      BY <3>2, <3>3, <1>3 DEF Said
    <3>11. Ledger!Begin(j, n)
      BY <2>1, <2>2, <3>5, <3>9, <3>10 DEF Ledger!Begin, Owner, Said, AnyOf, StmtOk
    <3>12. QED
      BY <3>2, <3>11 DEF Ledger!LedgerNext
  <2>3. CASE /\ StmtOk \/ StmtFails
             /\ UNCHANGED <<rec, loc>> /\ (Goto(a, "skip") \/ Goto(a, "list"))
    <3>1. Calm /\ NoNewCall
      BY <2>1, <2>3, <1>1 DEF Calm, NoNewCall, Goto, StmtOk, StmtFails
    <3>2. SameRuns
      BY <2>1, <2>3, <1>1 DEF SameRuns, Goto, InRun, Running
    <3>3. QED
      BY <2>1, <3>1, <3>2, <1>4
  <2>4. QED
    BY <1>6, <2>0, <2>2, <2>3 DEF StartRecord
<1>7. ASSUME NEW a \in Actors, RecordSkipped(a)
      PROVE  BudgetInv' /\ [Ledger!LedgerNext]_(Ledger!ledgerVars)
  <2>0. PICK n : n = Len(rec) + 1
    OBVIOUS
  <2>1. /\ pc[a] = "skip" /\ pc'[a] = "list" /\ up /\ up' = up
        /\ \A b \in Actors \ {a} : pc'[b] = pc[b]
    BY <1>1, <1>2, <1>7 DEF RecordSkipped, Goto, env
  <2>2. SameRuns
    BY <1>1, <1>7, <2>1 DEF RecordSkipped, SameRuns, InRun, Running
  <2>3. CASE StmtOk /\ Insert(loc[a].job, "unexecuted")
    <3>1. BudgetInv' /\ n \in 1..MaxRecords
      BY <2>0, <2>1, <2>3, <1>1, BudgetSpent
    <3>2. /\ Ids' = Ids \cup {n} /\ n \notin Ids /\ rec'[n].status = "unexecuted"
          /\ \A r \in Ids : rec'[r] = rec[r]
      BY <2>0, <2>3, <1>1, InsertRow
    <3>3. Said[n] = "none" /\ Said' = [Said EXCEPT ![n] = "unexecuted"]
      BY <3>1, <3>2, <1>3 DEF Said
    <3>4. Owner' = Owner
      BY <2>2, SameOwner
    <3>5. Ledger!Skip(n)
      BY <2>1, <2>3, <3>3, <3>4 DEF Ledger!Skip, Owner, Said, AnyOf, StmtOk
    <3>6. QED
      BY <3>1, <3>5 DEF Ledger!LedgerNext
  <2>4. CASE StmtFails /\ rec' = rec
    <3>1. Calm /\ NoNewCall
      BY <2>1, <2>4 DEF Calm, NoNewCall, StmtFails
    <3>2. QED
      BY <2>1, <2>2, <3>1, <1>4
  <2>5. QED
    BY <1>7, <2>3, <2>4 DEF RecordSkipped
<1>8. ASSUME NEW a \in Actors, EndRecord(a)
      PROVE  BudgetInv' /\ [Ledger!LedgerNext]_(Ledger!ledgerVars)
  <2>0. PICK j \in Jobs, r \in {loc[a].rec}, v \in {loc[a].res} :
        j = loc[a].job /\ r = loc[a].rec /\ v = loc[a].res
    BY <1>2
  <2>1. /\ InRun(a) /\ pc[a] # "endJob" /\ up /\ up' = up /\ v \in Verdict
    BY <1>2, <1>8, <2>0 DEF EndRecord, InRun, Running, env, TypeInv, ResultKnown
  <2>2. SameRuns /\ NoNewCall
    BY <1>1, <1>8 DEF EndRecord, Goto, SameRuns, NoNewCall, InRun, Running
  <2>3. r \in Ids /\ rec[r].status \in {"waiting", "removed"}
    BY <2>0, <2>1 DEF AttendedInv, OwnRecord
  <2>4. Owner[j] = r
    BY <2>0, <2>1, <1>1, OwnerOfRun DEF MutexInv
  <2>5. CASE Calm
    BY <2>1, <2>2, <2>5, <1>4
  <2>6. CASE StmtOk /\ rec' = Settled(r, v) /\ rec[r].status = "waiting"
    <3>1. /\ Ids' = Ids /\ rec'[r].status = v
          /\ \A x \in Ids \ {r} : rec'[x] = rec[x]
      BY <2>1, <2>3, <2>6, <1>1, SettleRow
    <3>2. BudgetInv'
      BY <3>1, <2>2, <1>1, BudgetStays DEF NoNewCall
    <3>3. Said[r] = "waiting" /\ Said' = [Said EXCEPT ![r] = v]
      BY <3>1, <2>3, <2>6, <1>3 DEF Said
    <3>4. Owner' = Owner /\ Owner[j] # 0
      BY <2>2, <2>3, <2>4, <1>3, SameOwner
    <3>5. Ledger!Decide(j, v)
      BY <2>1, <2>4, <2>6, <3>3, <3>4 DEF Ledger!Decide, Owner, Said, AnyOf, StmtOk
    <3>6. v \in Ledger!Verdicts
      BY <2>1 DEF Verdict, Ledger!Verdicts
    <3>7. QED
      BY <3>2, <3>5, <3>6 DEF Ledger!LedgerNext
  <2>7. CASE StmtOk /\ rec' = Settled(r, v) /\ rec[r].status = "removed"
    BY <2>1, <2>7, <2>5 DEF Settled, Calm, StmtOk
  <2>8. CASE StmtFails /\ rec' = rec
    BY <2>1, <2>8, <2>5 DEF Calm, StmtFails
  <2>9. QED
    BY <1>8, <2>0, <2>3, <2>6, <2>7, <2>8 DEF EndRecord
<1>9. ASSUME NEW a \in Actors, EndJob(a)
      PROVE  BudgetInv' /\ [Ledger!LedgerNext]_(Ledger!ledgerVars)
  <2>0. PICK j \in Jobs, r \in {loc[a].rec} : j = loc[a].job /\ r = loc[a].rec
    BY <1>2
  <2>1. /\ InRun(a) /\ pc[a] = "endJob" /\ up /\ up' = up /\ rec' = rec /\ loc' = loc
        /\ ~InRun(a)' /\ \A b \in Actors \ {a} : InRun(b)' <=> InRun(b)
        /\ NoNewCall
    BY <1>1, <1>2, <1>9 DEF EndJob, Goto, NoNewCall, InRun, Running, env
  <2>2. BudgetInv'
    <3>1. Ids' = Ids
      BY <2>1 DEF Ids
    <3>2. QED
      BY <2>1, <3>1, <1>1, BudgetStays DEF NoNewCall
  <2>3. Owner[j] = r /\ r \in Ids /\ r # 0
    BY <2>0, <2>1, <1>1, <1>3, OwnerOfRun DEF MutexInv, AttendedInv, OwnRecord
  <2>4. \A b \in Actors \ {a} : InRun(b) => loc[b].job # j /\ loc[b].rec # r
    BY <2>0, <2>1 DEF MutexInv, NoDoubleRun, AttendedInv, OwnRecord
  <2>5. rec[r].status # "waiting" \/ faults > 0
    BY <2>0, <2>1, <2>3, <2>4, <1>1 DEF AttendedInv, WaitingHasRunner
  <2>6. Said' = Said /\ (Said[r] # "waiting" \/ faults > 0)
    BY <2>1, <2>3, <2>5, <1>3, SameSaid DEF Said
  <2>7. RunOf(j)' = {} /\ \A k \in Jobs \ {j} : RunOf(k)' = RunOf(k)
    <3>1. RunOf(j)' = {}
      BY <2>1, <2>4 DEF RunOf
    <3>2. ASSUME NEW k \in Jobs \ {j} PROVE RunOf(k)' = RunOf(k)
      BY <2>0, <2>1 DEF RunOf
    <3>3. QED
      BY <3>1, <3>2
  <2>8. AnyOf({}) = 0
    BY DEF AnyOf
  <2>9. Owner' = [Owner EXCEPT ![j] = 0]
    BY <2>7, <2>8 DEF Owner
  <2>10. CASE StmtOk
    <3>1. Ledger!Release(j)
      BY <2>1, <2>3, <2>6, <2>9, <2>10 DEF Ledger!Release, Owner, Said, AnyOf, StmtOk
    <3>2. QED
      BY <2>2, <3>1 DEF Ledger!LedgerNext
  <2>11. CASE StmtFails
    <3>1. (faults > 0)' = TRUE
      BY <2>11, <1>1 DEF StmtFails
    <3>2. Ledger!Fault(j)
      BY <2>1, <2>6, <2>9, <3>1 DEF Ledger!Fault, Owner, Said, AnyOf
    <3>3. QED
      BY <2>2, <3>2 DEF Ledger!LedgerNext
  <2>12. QED
    BY <1>9, <2>10, <2>11 DEF EndJob
<1>10. ASSUME NEW a \in Actors, PruneRemove(a) \/ CleanRows(a)
       PROVE  BudgetInv' /\ [Ledger!LedgerNext]_(Ledger!ledgerVars)
  <2>1. SameRuns /\ NoNewCall /\ up /\ up' = up
    BY <1>1, <1>2, <1>10
       DEF PruneRemove, CleanRows, Return, Goto, SameRuns, NoNewCall, InRun, Running, env
  <2>2. ASSUME NEW S, Drop(S), StmtOk
        PROVE  BudgetInv' /\ Ledger!LedgerNext
    <3>1. BudgetInv'
      BY <2>1, <2>2, <1>1, DropIds, BudgetStays DEF NoNewCall
    <3>2. QED
      BY <2>1, <2>2, <3>1, <1>1, <1>3, DropIsForget DEF StmtOk
  <2>3. CASE StmtFails /\ rec' = rec
    BY <2>1, <2>3, <1>4 DEF Calm, StmtFails
  <2>4. QED
    BY <1>10, <2>2, <2>3 DEF PruneRemove, CleanRows
<1>11. CASE Crash
  <2>1. /\ \A b \in Actors : pc'[b] = "idle"
        /\ up /\ up' = FALSE /\ rec' = rec /\ faults' = faults
    BY <1>11 DEF Crash, db
  <2>2. Ids' = Ids
    BY <2>1 DEF Ids
  <2>3. BudgetInv'
    BY <2>1, <2>2, <1>1, BudgetStays
  <2>4. Owner' = [j \in Jobs |-> 0]
    BY <2>1, NoOwners DEF InRun, Running
  <2>5. Ledger!Halt
    BY <2>1, <2>4, SameSaid DEF Ledger!Halt, Owner, Said, AnyOf
  <2>6. QED
    BY <2>3, <2>5 DEF Ledger!LedgerNext
<1>12. CASE RestoreCronjobs
  <2>1. ~up /\ up' = TRUE /\ pc' = pc /\ loc' = loc /\ rec' \in {rec, Interrupted}
    BY <1>12 DEF RestoreCronjobs
  <2>2. Owner' = Owner
    BY <2>1, SameOwner DEF SameRuns, InRun
  <2>3. Ids' = Ids
    BY <2>1 DEF Interrupted, Ids
  <2>4. BudgetInv'
    BY <2>1, <2>3, <1>1, BudgetStays
  <2>5. rec' = Interrupted =>
          Said' = [r \in 1..MaxRecords |-> IF Said[r] = "waiting" THEN "failed" ELSE Said[r]]
    BY <1>3 DEF Interrupted, AfterRestart, Said, Ids, Record
  <2>6. \/ (faults > 0)' = FALSE /\ rec' = Interrupted
        \/ (faults > 0)' = TRUE
    BY <1>12 DEF RestoreCronjobs
  <2>7. Ledger!Recover
    BY <2>1, <2>2, <2>5, <2>6, SameSaid DEF Ledger!Recover, Owner, Said, AnyOf
  <2>8. QED
    BY <2>4, <2>7 DEF Ledger!LedgerNext
<1>13. CASE UNCHANGED vars
  <2>1. BudgetInv'
    BY <1>13 DEF vars, BudgetInv, Calling
  <2>2. SameRuns /\ rec' = rec
    BY <1>13 DEF vars, SameRuns, InRun
  <2>3. Owner' = Owner /\ Said' = Said
    BY <2>2, SameOwner, SameSaid
  <2>4. QED
    BY <1>13, <2>1, <2>3 DEF vars, Ledger!ledgerVars, Owner, Said, AnyOf
<1>14. CASE /\ Next /\ ~Crash /\ ~RestoreCronjobs
            /\ \A a \in Workers, j \in Jobs : ~Call(a, j)
            /\ \A a \in Actors : /\ ~StartRecord(a) /\ ~RecordSkipped(a) /\ ~EndRecord(a)
                                 /\ ~PruneRemove(a) /\ ~CleanRows(a) /\ ~EndJob(a)
  <2>1. Calm /\ NoNewCall /\ up
    BY <1>14, CalmSteps DEF TypeInv, MutexInv
  <2>2. RunsStay
    BY <1>14, QuietSteps DEF TypeInv, MutexInv
  <2>3. QED
    BY <2>1, <2>2, <1>4 DEF RunsStay, SameRuns
<1>15. QED
  BY <1>5, <1>6, <1>7, <1>8, <1>9, <1>10, <1>11, <1>12, <1>13, <1>14

\* The program begins as the ledger does.
LEMMA LedgerStart == Init => Ledger!LedgerInit
<1>. SUFFICES ASSUME Init PROVE Ledger!LedgerInit
  OBVIOUS
<1>1. \A j \in Jobs : RunOf(j) = {}
  BY DEF Init, RunOf, InRun, Running
<1>2. AnyOf({}) = 0
  BY DEF AnyOf
<1>3. Owner = [j \in Jobs |-> 0]
  BY <1>1, <1>2 DEF Owner
<1>4. Said = [r \in 1..MaxRecords |-> "none"]
  BY DEF Init, Said, Ids
<1>5. up = TRUE /\ (faults > 0) = FALSE
  BY DEF Init
<1>6. QED
  BY <1>3, <1>4, <1>5 DEF Ledger!LedgerInit, Owner, Said, AnyOf

\* CronExec implements RunLedger: seen through the history and who holds a cronjob,
\* every execution is one of a ledger in which the runs of a cronjob do not overlap,
\* each gets one verdict before its cronjob is free, and verdicts are final.
THEOREM LedgerIsImplemented == Spec => ImplementsLedger
<1>. DEFINE Inv == TypeInv /\ MutexInv /\ AttendedInv
<1>1. Inv /\ BudgetInv /\ [Next]_vars /\ Inv' =>
        BudgetInv' /\ [Ledger!LedgerNext]_(Ledger!ledgerVars)
  BY LedgerStep DEF TypeInv
<1>2. Init => BudgetInv /\ Ledger!LedgerInit
  BY BudgetInit, LedgerStart
<1>3. QED
  BY <1>1, <1>2, AlwaysAttended, PTL DEF Spec, ImplementsLedger, Ledger!LedgerSpec
----------------------------------------------------------------------------
(* PruneKeepsNewest: what two prunings that overlap may take.               *)

\* A record with enough newer ones of its cronjob to be taken.
KeepsSome(r) == \E k \in Copies \ {0} : Cardinality(Newer(r)) >= k

\* What removeExpiredLog has read is a value the user gave; the one record it is
\* about to take has enough newer ones, now and not only when they were listed, or
\* somebody else has removed it.
PruneInv ==
  /\ retain \in [Jobs -> Copies]
  /\ \A a \in Actors : loc[a].keep \in Copies \cup {0}
  /\ \A a \in Actors : pc[a] = "remove" =>
       /\ \A r, s \in loc[a].rows : r = s
       /\ \A r \in loc[a].rows : r \in Ids /\ (rec[r].status # "removed" => KeepsSome(r))

\* A step that lets every record keep what protects it, unless it goes itself ...
StillKept ==
  /\ Ids \subseteq Ids'
  /\ \A r \in Ids : (rec[r].status # "removed" => KeepsSome(r)) =>
                      (rec'[r].status # "removed" => KeepsSome(r)')

\* ... and one in which nobody lists records to be removed.
ListsStay ==
  /\ retain' \in [Jobs -> Copies]
  /\ \A b \in Actors :
       /\ loc'[b].keep \in Copies \cup {0}
       /\ pc'[b] = "remove" => pc[b] = "remove" /\ loc'[b].rows = loc[b].rows

\* Both together keep the invariant.
LEMMA PruneStays == PruneInv /\ StillKept /\ ListsStay => PruneInv'
<1>. SUFFICES ASSUME PruneInv, StillKept, ListsStay PROVE PruneInv'
  OBVIOUS
<1>1. ASSUME NEW a \in Actors, pc'[a] = "remove"
      PROVE  /\ \A r, s \in loc'[a].rows : r = s
             /\ \A r \in loc'[a].rows : r \in Ids' /\ (rec'[r].status # "removed" => KeepsSome(r)')
  <2>1. pc[a] = "remove" /\ loc'[a].rows = loc[a].rows
    BY <1>1 DEF ListsStay
  <2>2. /\ \A r, s \in loc[a].rows : r = s
        /\ \A r \in loc[a].rows : r \in Ids /\ (rec[r].status # "removed" => KeepsSome(r))
    BY <2>1 DEF PruneInv
  <2>3. ASSUME NEW r \in loc[a].rows
        PROVE  r \in Ids' /\ (rec'[r].status # "removed" => KeepsSome(r)')
    BY <2>2 DEF StillKept
  <2>4. QED
    BY <2>1, <2>2, <2>3
<1>2. QED
  BY <1>1 DEF PruneInv, ListsStay

\* There are finitely many records.
LEMMA NewerFinite ==
  ASSUME rec \in Seq(Record), NEW r
  PROVE  IsFiniteSet(Newer(r)) /\ Newer(r) \subseteq Ids /\ Ids \subseteq Nat
<1>1. IsFiniteSet(1..Len(rec)) /\ Ids = 1..Len(rec)
  BY FS_Interval DEF Ids
<1>2. Newer(r) \subseteq Ids
  BY DEF Newer, Rows
<1>3. QED
  BY <1>1, <1>2, FS_Subset

\* More newer records protect as well.
LEMMA KeptByMore ==
  ASSUME NEW S, NEW T, IsFiniteSet(T), S \subseteq T, NEW k \in Nat, Cardinality(S) >= k
  PROVE  Cardinality(T) >= k
<1>1. IsFiniteSet(S) /\ Cardinality(S) <= Cardinality(T)
  BY FS_Subset
<1>2. Cardinality(S) \in Nat /\ Cardinality(T) \in Nat
  BY <1>1, FS_CardinalityType
<1>3. QED
  BY <1>1, <1>2

\* One record's protection passes to another with at least its newer records.
LEMMA KeptThen ==
  ASSUME rec' \in Seq(Record), NEW x, NEW r, KeepsSome(x), Newer(x) \subseteq Newer(r)'
  PROVE  KeepsSome(r)'
<1>1. PICK k \in Copies \ {0} : Cardinality(Newer(x)) >= k
  BY DEF KeepsSome
<1>2. k \in Nat
  BY ConstantsAssumption
<1>3. IsFiniteSet(Newer(r)')
  <2>1. IsFiniteSet(1..Len(rec')) /\ Ids' = 1..Len(rec')
    BY FS_Interval DEF Ids
  <2>2. Newer(r)' \subseteq Ids'
    BY DEF Newer, Rows
  <2>3. QED
    BY <2>1, <2>2, FS_Subset
<1>4. Cardinality(Newer(r)') >= k
  BY <1>1, <1>2, <1>3, KeptByMore
<1>5. QED
  BY <1>4 DEF KeepsSome

\* New records and verdicts take no protection away.
LEMMA GrowKeeps ==
  ASSUME rec \in Seq(Record), rec' \in Seq(Record), Ids \subseteq Ids',
         \A r \in Ids : /\ rec'[r].job = rec[r].job
                        /\ rec'[r].status = "removed" <=> rec[r].status = "removed"
  PROVE  StillKept
<1>1. ASSUME NEW r \in Ids PROVE Newer(r) \subseteq Newer(r)'
  BY DEF Newer, Rows
<1>2. QED
  BY <1>1, KeptThen DEF StillKept

\* What Drop does to each record.
LEMMA DropRows ==
  ASSUME rec \in Seq(Record), NEW S, Drop(S)
  PROVE  /\ Ids' = Ids
         /\ \A r \in Ids : /\ rec'[r].job = rec[r].job
                           /\ rec'[r].status = IF r \in S THEN "removed" ELSE rec[r].status
<1>1. rec' = [r \in Ids |-> IF r \in S THEN [rec[r] EXCEPT !.status = "removed"] ELSE rec[r]]
  BY DEF Drop
<1>2. \A r \in Ids : rec[r] \in Record
  BY DEF Ids
<1>3. QED
  BY <1>1, <1>2 DEF Ids, Record

\* A record that is taken passes its own protection to the older ones: they lose it,
\* and keep all it had.
LEMMA TakeKeeps ==
  ASSUME rec \in Seq(Record), NEW S, Drop(S), \A x, y \in S : x = y,
         \A x \in S : x \in Ids /\ (rec[x].status # "removed" => KeepsSome(x))
  PROVE  StillKept
<1>1. /\ rec' \in Seq(Record) /\ Ids' = Ids /\ Ids \subseteq Nat
      /\ \A r \in Ids : /\ rec'[r].job = rec[r].job
                        /\ rec'[r].status = IF r \in S THEN "removed" ELSE rec[r].status
  BY DropType, DropRows, NewerFinite
<1>2. SUFFICES ASSUME NEW r \in Ids, KeepsSome(r), rec'[r].status # "removed"
               PROVE  KeepsSome(r)'
  BY <1>1 DEF StillKept
<1>3. r \notin S /\ rec'[r].job = rec[r].job
  BY <1>1, <1>2
<1>4. CASE \E x \in S : x \in Newer(r)
  <2>1. PICK x \in S : x \in Newer(r)
    BY <1>4
  <2>2. /\ x \in Ids /\ x > r /\ rec[x].job = rec[r].job /\ rec[x].status # "removed"
        /\ KeepsSome(x)
    BY <2>1 DEF Newer, Rows
  <2>3. ASSUME NEW y \in Newer(x) PROVE y \in Newer(r)'
    <3>1. y \in Ids /\ rec[y].job = rec[x].job /\ rec[y].status # "removed" /\ y > x
      BY DEF Newer, Rows
    <3>2. y # x /\ y > r
      BY <1>1, <2>2, <3>1
    <3>3. y \notin S
      BY <2>1, <3>2
    <3>4. QED
      BY <1>1, <1>3, <2>2, <3>1, <3>2, <3>3 DEF Newer, Rows
  <2>4. QED
    BY <1>1, <2>2, <2>3, KeptThen
<1>5. CASE \A x \in S : x \notin Newer(r)
  <2>1. Newer(r) \subseteq Newer(r)'
    BY <1>1, <1>3, <1>5 DEF Newer, Rows
  <2>2. QED
    BY <1>1, <1>2, <2>1, KeptThen
<1>6. QED
  BY <1>4, <1>5

\* Clearing a history takes all records of a cronjob, and none of another.
LEMMA ClearKeeps ==
  ASSUME rec \in Seq(Record), NEW j, Drop(Rows(j))
  PROVE  StillKept
<1>1. /\ rec' \in Seq(Record) /\ Ids' = Ids
      /\ \A r \in Ids : /\ rec'[r].job = rec[r].job
                        /\ rec'[r].status = IF r \in Rows(j) THEN "removed" ELSE rec[r].status
  BY DropType, DropRows
<1>2. SUFFICES ASSUME NEW r \in Ids, KeepsSome(r), rec'[r].status # "removed"
               PROVE  KeepsSome(r)'
  BY <1>1 DEF StillKept
<1>3. rec[r].job # j
  BY <1>1, <1>2 DEF Rows
<1>4. Newer(r) \subseteq Newer(r)'
  BY <1>1, <1>3 DEF Newer, Rows
<1>5. QED
  BY <1>1, <1>2, <1>4, KeptThen

\* removeExpiredLog lists one record at most, and one that may go.
LEMMA ExpiredIsOne ==
  ASSUME rec \in Seq(Record), NEW j, NEW k \in (Copies \cup {0}) \ {0}
  PROVE  /\ \A r, s \in Expired(j, k) : r = s
         /\ \A r \in Expired(j, k) : r \in Ids /\ KeepsSome(r)
<1>1. k \in Nat
  BY ConstantsAssumption
<1>2. ASSUME NEW r \in Expired(j, k), NEW s \in Expired(j, k), r < s PROVE FALSE
  <2>1. /\ r \in Rows(j) /\ s \in Rows(j) /\ r \in Nat /\ s \in Nat
        /\ rec[r].job = j /\ rec[s].job = j
        /\ Cardinality(Newer(r)) = k /\ Cardinality(Newer(s)) = k
    BY NewerFinite DEF Expired, Rows
  <2>2. s \in Newer(r) /\ s \notin Newer(s)
    BY <1>2, <2>1 DEF Newer
  <2>3. Newer(s) \subseteq Newer(r)
    <3>1. ASSUME NEW y \in Newer(s) PROVE y \in Newer(r)
      <4>1. y \in Rows(j) /\ y > s /\ y \in Nat
        BY <2>1, NewerFinite DEF Newer
      <4>2. y > r
        BY <1>2, <2>1, <4>1
      <4>3. QED
        BY <2>1, <4>1, <4>2 DEF Newer
    <3>2. QED
      BY <3>1
  <2>4. IsFiniteSet(Newer(r)) /\ Newer(s) # Newer(r)
    BY <2>2, NewerFinite
  <2>5. Newer(s) = Newer(r)
    BY <2>1, <2>3, <2>4, FS_Subset
  <2>6. QED
    BY <2>4, <2>5
<1>3. ASSUME NEW r \in Expired(j, k), NEW s \in Expired(j, k) PROVE r = s
  <2>1. r \in Nat /\ s \in Nat
    BY NewerFinite DEF Expired, Rows
  <2>2. ~(r < s) /\ ~(s < r)
    BY <1>2
  <2>3. QED
    BY <2>1, <2>2
<1>4. ASSUME NEW r \in Expired(j, k) PROVE r \in Ids /\ KeepsSome(r)
  <2>1. r \in Ids /\ Cardinality(Newer(r)) = k
    BY DEF Expired, Rows
  <2>2. k \in Copies \ {0} /\ Cardinality(Newer(r)) >= k
    BY <1>1, <2>1
  <2>3. QED
    BY <2>1, <2>2 DEF KeepsSome
<1>5. QED
  BY <1>3, <1>4

\* An actor that lists nothing keeps a value the user gave.
LEMMA ListsStayBut ==
  ASSUME PruneInv, NEW a \in Actors, pc'[a] # "remove", loc'[a].keep \in Copies \cup {0},
         \A b \in Actors \ {a} : pc'[b] = pc[b] /\ loc'[b] = loc[b],
         UNCHANGED retain
  PROVE  ListsStay
BY DEF PruneInv, ListsStay

\* Most steps leave the history alone, and list nothing.
LEMMA PruneQuiet ==
  ASSUME TypeInv, PruneInv, Next, ~Crash, ~RestoreCronjobs,
         \A a \in Actors : ~PruneList(a)
  PROVE  ListsStay
<1>1. /\ Workers \subseteq Actors /\ Admins \subseteq Actors
      /\ loc \in [Actors -> Locals] /\ pc \in [Actors -> Label]
      /\ \A a \in Actors : loc[a].keep \in Copies \cup {0}
      /\ retain \in [Jobs -> Copies] /\ NoLocals.keep = 0
  BY DEF Actors, TypeInv, TypeOK, PruneInv, NoLocals
<1>2. \A a \in Actors : loc[a] \in Locals /\ loc[a].job \in Jobs
  BY <1>1 DEF Locals
<1>3. ASSUME NEW a \in Actors, Return(a)
      PROVE  /\ pc'[a] # "remove" /\ loc'[a].keep \in Copies \cup {0}
             /\ \A b \in Actors \ {a} : pc'[b] = pc[b] /\ loc'[b] = loc[b]
  BY <1>1, <1>3 DEF Return, Goto
<1>4. ASSUME NEW a \in Actors, NEW l \in Label \ {"remove"}, Goto(a, l), UNCHANGED loc
      PROVE  /\ pc'[a] # "remove" /\ loc'[a].keep \in Copies \cup {0}
             /\ \A b \in Actors \ {a} : pc'[b] = pc[b] /\ loc'[b] = loc[b]
  BY <1>1, <1>4 DEF Goto
<1>5. ASSUME NEW a \in Actors, NEW v, Finished(a, v)
      PROVE  /\ pc'[a] # "remove" /\ loc'[a].keep \in Copies \cup {0}
             /\ \A b \in Actors \ {a} : pc'[b] = pc[b] /\ loc'[b] = loc[b]
  <2>1. Goto(a, "unregister") /\ loc' = [loc EXCEPT ![a].res = v, ![a].left = 0]
    BY <1>5 DEF Finished
  <2>2. pc'[a] = "unregister" /\ \A b \in Actors \ {a} : pc'[b] = pc[b] /\ loc'[b] = loc[b]
    BY <1>1, <2>1 DEF Goto
  <2>3. loc'[a].keep = loc[a].keep
    BY <1>1, <1>2, <2>1 DEF Locals
  <2>4. QED
    BY <1>1, <2>2, <2>3
<1>6. ASSUME NEW a \in Actors, NEW j \in Jobs, Call(a, j) PROVE ListsStay
  BY <1>1, <1>2, <1>6, ListsStayBut DEF Call, Goto, Locals, db
<1>7. ASSUME NEW a \in Actors, HandleJobGet(a) PROVE ListsStay
  <2>1. CASE Return(a)
    BY <1>3, <1>7, <2>1, ListsStayBut DEF HandleJobGet, db
  <2>2. CASE ~Return(a)
    <3>1. /\ Goto(a, "start") /\ loc' = [loc EXCEPT ![a].keep = retain[loc[a].job]]
          /\ UNCHANGED retain
      BY <1>7, <2>2 DEF HandleJobGet, db
    <3>2. pc'[a] = "start" /\ loc'[a].keep = retain[loc[a].job]
      BY <1>1, <1>2, <3>1 DEF Goto, Locals
    <3>3. loc'[a].keep \in Copies
      BY <1>1, <1>2, <3>2
    <3>4. QED
      BY <1>1, <3>1, <3>2, <3>3, ListsStayBut DEF Goto
  <2>3. QED
    BY <2>1, <2>2
<1>8. ASSUME NEW a \in Actors, StartRecord(a) PROVE ListsStay
  <2>1. UNCHANGED retain
    BY <1>8 DEF StartRecord
  <2>2. CASE UNCHANGED loc
    BY <1>1, <1>8, <2>1, <2>2, ListsStayBut DEF StartRecord, Goto
  <2>3. CASE loc' = [loc EXCEPT ![a].rec = Len(rec) + 1]
    <3>1. loc'[a].keep = loc[a].keep /\ \A b \in Actors \ {a} : loc'[b] = loc[b]
      BY <1>1, <1>2, <2>3 DEF Locals
    <3>2. pc'[a] # "remove" /\ \A b \in Actors \ {a} : pc'[b] = pc[b]
      BY <1>1, <1>8 DEF StartRecord, Goto
    <3>3. QED
      BY <1>1, <2>1, <3>1, <3>2, ListsStayBut
  <2>4. QED
    BY <1>8, <2>2, <2>3 DEF StartRecord
<1>9. ASSUME NEW a \in Actors, RecordSkipped(a) PROVE ListsStay
  BY <1>4, <1>9, ListsStayBut DEF RecordSkipped, Label, Pruning
<1>10. ASSUME NEW a \in Actors, NewLogWriter(a) PROVE ListsStay
  <2>1. CASE UNCHANGED loc
    BY <1>1, <1>10, <2>1, ListsStayBut DEF NewLogWriter, Goto, db
  <2>2. CASE loc' = [loc EXCEPT ![a].res = "failed"]
    BY <1>1, <1>2, <1>10, <2>2, ListsStayBut DEF NewLogWriter, Goto, Locals, db
  <2>3. QED
    BY <1>10, <2>1, <2>2 DEF NewLogWriter
<1>11. ASSUME NEW a \in Actors, RegisterCancel(a) PROVE ListsStay
  BY <1>1, <1>2, <1>11, ListsStayBut DEF RegisterCancel, Goto, Locals, db
<1>12. ASSUME NEW a \in Actors, Launch(a) PROVE ListsStay
  <2>1. CASE Finished(a, "success") \/ Finished(a, "failed")
    BY <1>5, <1>12, <2>1, ListsStayBut DEF Launch, db
  <2>2. CASE Goto(a, "exec") /\ loc' = [loc EXCEPT ![a].res = "alive"]
    BY <1>1, <1>2, <1>12, <2>2, ListsStayBut DEF Launch, Goto, Locals, db
  <2>3. QED
    BY <1>12, <2>1, <2>2 DEF Launch
<1>13. ASSUME NEW a \in Actors, ProcessExit(a) PROVE ListsStay
  <2>1. PICK v \in Verdict : loc' = [loc EXCEPT ![a].res = v]
    BY <1>13 DEF ProcessExit
  <2>2. loc'[a].keep = loc[a].keep /\ \A b \in Actors \ {a} : loc'[b] = loc[b]
    BY <1>1, <1>2, <2>1 DEF Locals
  <2>3. pc[a] = "exec" /\ pc' = pc /\ retain' = retain
    BY <1>13 DEF ProcessExit, db
  <2>4. QED
    BY <1>1, <2>2, <2>3, ListsStayBut
<1>14. ASSUME NEW a \in Actors, Timeout(a) PROVE ListsStay
  BY <1>1, <1>14, ListsStayBut DEF Timeout, db
<1>15. ASSUME NEW a \in Actors, ReceiveExit(a) PROVE ListsStay
  <2>1. CASE Finished(a, loc[a].res)
    BY <1>5, <1>15, <2>1, ListsStayBut DEF ReceiveExit, db
  <2>2. CASE Goto(a, "launch") /\ loc' = [loc EXCEPT ![a].res = "", ![a].left = @ - 1]
    BY <1>1, <1>2, <1>15, <2>2, ListsStayBut DEF ReceiveExit, Goto, Locals, db
  <2>3. QED
    BY <1>15, <2>1, <2>2 DEF ReceiveExit
<1>16. ASSUME NEW a \in Actors, ReceiveDone(a) PROVE ListsStay
  BY <1>4, <1>16, ListsStayBut DEF ReceiveDone, Label, Running, db
<1>17. ASSUME NEW a \in Actors, Reap(a) PROVE ListsStay
  BY <1>5, <1>17, ListsStayBut DEF Reap, db
<1>18. ASSUME NEW a \in Actors, UnregisterCancel(a) \/ EndRecord(a) PROVE ListsStay
  BY <1>4, <1>18, ListsStayBut DEF UnregisterCancel, EndRecord, Label, Running, db
<1>19. ASSUME NEW a \in Actors, EndJob(a) PROVE ListsStay
  BY <1>4, <1>19, ListsStayBut DEF EndJob, Label, Pruning
<1>20. ASSUME NEW a \in Actors, PruneRemove(a) \/ RunnerStop(a) \/ DeleteJob(a) PROVE ListsStay
  BY <1>3, <1>20, ListsStayBut DEF PruneRemove, RunnerStop, DeleteJob, db
<1>21. ASSUME NEW a \in Actors, CleanFiles(a) PROVE ListsStay
  BY <1>4, <1>21, ListsStayBut DEF CleanFiles, Label, Cleaning, db
<1>22. ASSUME NEW a \in Actors, CleanRows(a) PROVE ListsStay
  BY <1>3, <1>4, <1>22, ListsStayBut DEF CleanRows, Label, Cleaning
<1>23. ASSUME NEW a \in Actors, NEW j \in Jobs, NEW k \in Copies, UpdateCopies(a, j, k) PROVE ListsStay
  <2>1. retain' \in [Jobs -> Copies]
    BY <1>1, <1>23 DEF UpdateCopies
  <2>2. pc'[a] = "list" /\ loc'[a].keep = k
    BY <1>1, <1>2, <1>23 DEF UpdateCopies, Goto, Locals
  <2>3. \A b \in Actors \ {a} : pc'[b] = pc[b] /\ loc'[b] = loc[b]
    BY <1>1, <1>23 DEF UpdateCopies, Goto
  <2>4. QED
    BY <1>1, <2>1, <2>2, <2>3 DEF ListsStay
<1>24. ASSUME NEW a \in Actors, NEW j \in Jobs, HandleStop(a, j) PROVE ListsStay
  <2>1. PICK r \in Rows(j) : loc' = [loc EXCEPT ![a].job = j, ![a].rec = r]
    BY <1>24 DEF HandleStop
  <2>2. loc'[a].keep = loc[a].keep /\ \A b \in Actors \ {a} : loc'[b] = loc[b]
    BY <1>1, <1>2, <2>1 DEF Locals
  <2>3. pc'[a] = "stop" /\ (\A b \in Actors \ {a} : pc'[b] = pc[b]) /\ retain' = retain
    BY <1>1, <1>24 DEF HandleStop, Goto, db
  <2>4. QED
    BY <1>1, <2>2, <2>3, ListsStayBut
<1>25. ASSUME NEW a \in Actors, NEW j \in Jobs, ClearRecords(a, j) \/ Delete(a, j) PROVE ListsStay
  <2>1. loc' = [loc EXCEPT ![a].job = j] /\ retain' = retain
    BY <1>25 DEF ClearRecords, Delete, db
  <2>2. loc'[a].keep = loc[a].keep /\ \A b \in Actors \ {a} : loc'[b] = loc[b]
    BY <1>1, <1>2, <2>1 DEF Locals
  <2>3. pc'[a] # "remove" /\ \A b \in Actors \ {a} : pc'[b] = pc[b]
    BY <1>1, <1>25 DEF ClearRecords, Delete, Goto
  <2>4. QED
    BY <1>1, <2>1, <2>2, <2>3, ListsStayBut
<1>26. CASE Request
  BY <1>1, <1>6, <1>23, <1>24, <1>25, <1>26 DEF Request, Tick, HandleOnce
<1>27. ASSUME NEW a \in Actors, Step(a) PROVE ListsStay
  BY <1>7, <1>8, <1>9, <1>10, <1>11, <1>12, <1>15, <1>16, <1>17, <1>18, <1>19, <1>20, <1>21, <1>22,
     <1>27 DEF Step
<1>28. QED
  BY <1>13, <1>14, <1>26, <1>27 DEF Next

\* What a step does to the history takes no record's protection.
LEMMA HistoryKeeps == ASSUME TypeInv, PruneInv, Next PROVE StillKept
<1>1. /\ rec \in Seq(Record) /\ rec' \in Seq(Record)
      /\ \A r \in Ids : rec[r] \in Record
  <2>1. TypeInv'
    BY TypeStep
  <2>2. QED
    BY <2>1 DEF TypeInv, TypeOK, Ids
<1>2. ASSUME rec' = rec PROVE StillKept
  BY <1>1, <1>2, GrowKeeps DEF Ids
<1>3. ASSUME NEW j, NEW s, Insert(j, s) PROVE StillKept
  BY <1>1, <1>3, InsertRow, GrowKeeps
<1>4. ASSUME NEW a \in Actors, EndRecord(a) PROVE StillKept
  <2>1. PICK r : r = loc[a].rec
    OBVIOUS
  <2>2. PICK v \in Verdict : v = loc[a].res
    BY <1>4 DEF EndRecord, TypeInv, ResultKnown
  <2>3. CASE rec' = Settled(r, v)
    <3>1. Ids' = Ids
      BY <2>3 DEF Settled, Ids
    <3>2. ASSUME NEW x \in Ids
          PROVE  rec'[x].job = rec[x].job /\ (rec'[x].status = "removed" <=> rec[x].status = "removed")
      BY <1>1, <2>3, <3>2 DEF Settled, Record, Verdict, Ids
    <3>3. QED
      BY <1>1, <3>1, <3>2, GrowKeeps
  <2>4. QED
    BY <1>2, <1>4, <2>1, <2>2, <2>3 DEF EndRecord
<1>5. ASSUME NEW a \in Actors, PruneRemove(a) PROVE StillKept
  <2>1. CASE Drop(loc[a].rows)
    <3>1. /\ \A r, s \in loc[a].rows : r = s
          /\ \A r \in loc[a].rows : r \in Ids /\ (rec[r].status # "removed" => KeepsSome(r))
      BY <1>5 DEF PruneRemove, PruneInv
    <3>2. QED
      BY <1>1, <2>1, <3>1, TakeKeeps
  <2>2. QED
    BY <1>2, <1>5, <2>1 DEF PruneRemove
<1>6. ASSUME NEW a \in Actors, CleanRows(a) PROVE StillKept
  BY <1>1, <1>2, <1>6, ClearKeeps DEF CleanRows
<1>7. CASE RestoreCronjobs
  <2>1. CASE rec' = Interrupted
    <3>1. Ids' = Ids
      BY <2>1 DEF Interrupted, Ids
    <3>2. ASSUME NEW x \in Ids
          PROVE  rec'[x].job = rec[x].job /\ (rec'[x].status = "removed" <=> rec[x].status = "removed")
      BY <1>1, <2>1, <3>2 DEF Interrupted, AfterRestart, Record
    <3>3. QED
      BY <1>1, <3>1, <3>2, GrowKeeps
  <2>2. QED
    BY <1>2, <1>7, <2>1 DEF RestoreCronjobs
<1>8. CASE Crash
  BY <1>2, <1>8 DEF Crash, db
<1>9. CASE Request
  BY <1>2, <1>9 DEF Request, Tick, HandleOnce, Call, HandleStop, ClearRecords, Delete, UpdateCopies, db
<1>10. ASSUME NEW a \in Actors, Step(a) \/ ProcessExit(a) \/ Timeout(a) PROVE StillKept
  <2>1. \/ rec' = rec \/ EndRecord(a) \/ PruneRemove(a) \/ CleanRows(a)
        \/ \E j, s : Insert(j, s)
    BY <1>10 DEF Step, ProcessExit, Timeout, HandleJobGet, StartRecord, RecordSkipped, NewLogWriter,
       RegisterCancel, Launch, ReceiveExit, ReceiveDone, Reap, UnregisterCancel, EndJob, PruneList,
       RunnerStop, CleanFiles, DeleteJob, db
  <2>2. QED
    BY <1>2, <1>3, <1>4, <1>5, <1>6, <2>1
<1>11. QED
  BY <1>7, <1>8, <1>9, <1>10 DEF Next

\* removeExpiredLog's list.
LEMMA PruneListKeeps ==
  ASSUME TypeInv, PruneInv, StillKept, NEW a \in Actors, PruneList(a) PROVE PruneInv'
<1>1. /\ loc \in [Actors -> Locals] /\ pc \in [Actors -> Label] /\ rec \in Seq(Record)
      /\ loc[a] \in Locals /\ NoLocals.keep = 0 /\ loc[a].keep \in Copies \cup {0}
  BY DEF TypeInv, TypeOK, PruneInv, NoLocals
<1>2. UNCHANGED <<rec, retain>> /\ \A b \in Actors \ {a} : pc'[b] = pc[b] /\ loc'[b] = loc[b]
  BY <1>1 DEF PruneList, Return, Goto, db
<1>3. CASE Return(a)
  <2>1. pc'[a] # "remove" /\ loc'[a].keep \in Copies \cup {0}
    BY <1>1, <1>3 DEF Return, Goto
  <2>2. QED
    BY <1>2, <2>1, ListsStayBut, PruneStays
<1>4. CASE ~Return(a)
  <2>1. PICK k : k = loc[a].keep
    OBVIOUS
  <2>2. PICK old : old = Expired(loc[a].job, k)
    OBVIOUS
  <2>3. /\ k > 0 /\ Goto(a, "remove")
        /\ loc' = [loc EXCEPT ![a].rows = old, ![a].files = {r \in old : rec[r].path}]
    BY <1>4, <2>1, <2>2 DEF PruneList
  <2>4. loc'[a].rows = old /\ loc'[a].keep = k
    BY <1>1, <2>1, <2>3 DEF Locals
  <2>5. k \in (Copies \cup {0}) \ {0}
    BY <1>1, <2>1, <2>3
  <2>6. (\A r, s \in old : r = s) /\ (\A r \in old : r \in Ids /\ KeepsSome(r))
    BY <1>1, <2>2, <2>5, ExpiredIsOne
  <2>7. \A r \in old : r \in Ids' /\ (rec'[r].status # "removed" => KeepsSome(r)')
    BY <2>6 DEF StillKept
  <2>8. ASSUME NEW b \in Actors, pc'[b] = "remove"
        PROVE  /\ \A r, s \in loc'[b].rows : r = s
               /\ \A r \in loc'[b].rows : r \in Ids' /\ (rec'[r].status # "removed" => KeepsSome(r)')
    <3>1. CASE b = a
      BY <2>4, <2>6, <2>7, <3>1
    <3>2. CASE b # a
      <4>1. pc[b] = "remove" /\ loc'[b].rows = loc[b].rows
        BY <1>2, <2>8, <3>2
      <4>2. /\ \A r, s \in loc[b].rows : r = s
            /\ \A r \in loc[b].rows : r \in Ids /\ (rec[r].status # "removed" => KeepsSome(r))
        BY <4>1 DEF PruneInv
      <4>3. QED
        BY <4>1, <4>2 DEF StillKept
    <3>3. QED
      BY <3>1, <3>2
  <2>9. \A b \in Actors : loc'[b].keep \in Copies \cup {0}
    BY <1>2, <2>4, <2>5 DEF PruneInv
  <2>10. retain' \in [Jobs -> Copies]
    BY <1>2 DEF PruneInv
  <2>11. QED
    BY <2>8, <2>9, <2>10 DEF PruneInv
<1>5. QED
  BY <1>3, <1>4

\* Every step keeps the invariant.
LEMMA PruneStep == ASSUME TypeInv, PruneInv, [Next]_vars PROVE PruneInv'
<1>1. CASE UNCHANGED vars
  BY <1>1 DEF vars, PruneInv, Ids, KeepsSome, Newer, Rows
<1>2. CASE Crash
  <2>1. (\A a \in Actors : pc'[a] = "idle" /\ loc'[a].keep = 0) /\ retain' = retain
    BY <1>2 DEF Crash, NoLocals, db
  <2>2. QED
    BY <2>1 DEF PruneInv
<1>3. CASE RestoreCronjobs
  <2>1. ListsStay
    BY <1>3 DEF RestoreCronjobs, ListsStay, PruneInv
  <2>2. StillKept
    BY <1>3, HistoryKeeps DEF Next
  <2>3. QED
    BY <2>1, <2>2, PruneStays
<1>4. ASSUME NEW a \in Actors, PruneList(a) PROVE PruneInv'
  <2>1. StillKept
    BY <1>4, HistoryKeeps DEF Next, Step
  <2>2. QED
    BY <1>4, <2>1, PruneListKeeps
<1>5. CASE Next /\ ~Crash /\ ~RestoreCronjobs /\ \A a \in Actors : ~PruneList(a)
  BY <1>5, HistoryKeeps, PruneQuiet, PruneStays
<1>6. QED
  BY <1>1, <1>2, <1>3, <1>4, <1>5

\* A pruning takes a record only if as many newer ones stay as the user once
\* allowed, however many prunings, requests and changes of retain_copies overlap
\* (removeExpiredLog in service/cronjob.go).
THEOREM PruningKeepsNewest == Spec => PruneKeepsNewest
<1>1. Init => PruneInv
  <2>1. NoLocals.keep = 0
    BY DEF NoLocals
  <2>2. QED
    BY <2>1 DEF Init, PruneInv
<1>2. TypeInv /\ PruneInv /\ [Next]_vars => PruneInv'
  BY PruneStep
<1>3. PruneInv => \A a \in Actors : pc[a] = "remove" =>
        \A r \in loc[a].rows \cap Ids :
          rec[r].status # "removed" /\ rec'[r].status = "removed" =>
            \E k \in Copies \ {0} : Cardinality(Newer(r)) >= k
  BY DEF PruneInv, KeepsSome
<1>4. QED
  BY <1>1, <1>2, <1>3, TypeInit, TypeStep, PTL DEF Spec, PruneKeepsNewest
=============================================================================
