--------------------------- MODULE CronExecProofs ---------------------------
(***************************************************************************)
(* Proofs about CronExec, for any set of cronjobs, handlers and requests   *)
(* and any bounds.                                                         *)
(***************************************************************************)
EXTENDS CronExec, SequenceTheorems, TLAPS

\* A run that is being ended has its result.
ResultKnown ==
  \A a \in Actors : pc[a] \in {"unregister", "endRecord"} => loc[a].res \in Verdict

\* A crash leaves no goroutine behind.
DownIdle == ~up => \A a \in Actors : pc[a] = "idle"

TypeInv == TypeOK /\ ResultKnown

\* The inductive invariant behind NoDoubleRun: a run holds its cronjob's flag
\* (RunnerHasFlag), so that the compare-and-set of StartRecord fails while one is
\* under way; a restart resets the flags when no run is left (DownIdle).
MutexInv == RunnerHasFlag /\ NoDoubleRun /\ DownIdle

----------------------------------------------------------------------------
\* A function on the domain of a sequence, with values in S, is a sequence over S.
LEMMA SameLength ==
  ASSUME NEW S, NEW s \in Seq(S), NEW t,
         t = [x \in DOMAIN s |-> t[x]],
         \A x \in DOMAIN s : t[x] \in S
  PROVE  t \in Seq(S)
<1>1. PICK n \in Nat : s \in [1..n -> S]
  BY SeqDef
<1>2. t \in [1..n -> S]
  BY <1>1
<1>3. QED
  BY <1>1, <1>2, SeqDef

\* The locals of an actor that returns are well-typed.
LEMMA NoLocalsType == NoLocals \in Locals
BY ConstantsAssumption DEF NoLocals, Locals

\* Removing rows keeps the table a table.
LEMMA DropType ==
  ASSUME NEW S, rec \in Seq(Record), Drop(S)
  PROVE  rec' \in Seq(Record)
<1>1. \A r \in Ids : rec[r] \in Record
  BY DEF Ids
<1>2. \A r \in Ids : [rec[r] EXCEPT !.status = "removed"] \in Record
  BY <1>1 DEF Record, Status
<1>3. rec' = [r \in Ids |-> IF r \in S THEN [rec[r] EXCEPT !.status = "removed"] ELSE rec[r]]
  BY DEF Drop
<1>4. QED
  BY <1>1, <1>2, <1>3, SameLength DEF Ids

\* Writing a verdict keeps the table a table.
LEMMA SettledType ==
  ASSUME NEW r, NEW v \in Verdict, rec \in Seq(Record)
  PROVE  Settled(r, v) \in Seq(Record)
<1>1. \A x \in DOMAIN rec : rec[x] \in Record
  OBVIOUS
<1>. DEFINE t == [rec EXCEPT ![r].status = v, ![r].path = TRUE]
<1>2. DOMAIN t = DOMAIN rec /\ t = [x \in DOMAIN rec |-> t[x]]
  OBVIOUS
<1>3. ASSUME NEW x \in DOMAIN rec PROVE t[x] \in Record
  <2>1. CASE x = r
    <3>1. t[x] = [rec[x] EXCEPT !.status = v, !.path = TRUE]
      BY <2>1
    <3>2. QED
      BY <3>1, <1>1 DEF Record, Status
  <2>2. CASE x # r
    BY <2>2, <1>1
  <2>3. QED
    BY <2>1, <2>2
<1>4. t \in Seq(Record)
  <2>. HIDE DEF t
  <2>1. QED
    BY <1>2, <1>3, SameLength
<1>5. QED
  BY <1>4 DEF Settled

\* The restart's update keeps the table a table.
LEMMA RestartType ==
  ASSUME rec \in Seq(Record), RestoreCronjobs
  PROVE  rec' \in Seq(Record)
<1>1. \A r \in Ids : rec[r] \in Record
  BY DEF Ids
<1>2. \A r \in Ids : [rec[r] EXCEPT !.status = AfterRestart(@)] \in Record
  BY <1>1 DEF Record, Status, Verdict, AfterRestart
<1>3. Interrupted \in Seq(Record)
  BY <1>2, SameLength DEF Ids, Interrupted
<1>4. QED
  BY <1>3 DEF RestoreCronjobs
----------------------------------------------------------------------------
\* The types are right in every initial state.
LEMMA TypeInit == Init => TypeInv
<1>. SUFFICES ASSUME Init PROVE TypeInv
  OBVIOUS
<1>1. retain \in [Jobs -> Nat]
  BY ConstantsAssumption DEF Init
<1>2. rec \in Seq(Record)
  BY DEF Init
<1>3. QED
  BY <1>1, <1>2, NoLocalsType DEF Init, TypeInv, TypeOK, ResultKnown, Label

\* The two results of a run, for leaves that need them by name.
LEMMA VerdictIs == Verdict = {"success", "failed"}
BY DEF Verdict

\* The rows of a cronjob are rows of the table.
LEMMA RowsAreIds == \A j : Rows(j) \subseteq Ids
BY DEF Rows

\* Every step keeps the types right.
LEMMA TypeStep == TypeInv /\ [Next]_vars => TypeInv'
<1>. SUFFICES ASSUME TypeInv PROVE [Next]_vars => TypeInv'
  OBVIOUS
<1>1. /\ Workers \subseteq Actors /\ Admins \subseteq Actors
      /\ Cmds \in [Jobs -> Nat] /\ Copies \subseteq Nat
  BY ConstantsAssumption DEF Actors
<1>2. /\ loc \in [Actors -> Locals] /\ pc \in [Actors -> Label]
      /\ rec \in Seq(Record) /\ retain \in [Jobs -> Nat]
      /\ logs \subseteq Nat /\ cancel \subseteq Nat /\ done \subseteq Nat /\ faults \in Nat
  BY DEF TypeInv, TypeOK
<1>3. \A a \in Actors : loc[a] \in Locals
  BY <1>2
<1>4. \A a \in Actors : /\ loc[a].job \in Jobs /\ loc[a].rec \in Nat
                        /\ loc[a].keep \in Nat /\ loc[a].left \in Nat
  BY <1>3 DEF Locals
<1>5. \A a \in Actors : pc[a] \in {"unregister", "endRecord"} => loc[a].res \in Verdict
  BY DEF TypeInv, ResultKnown
<1>6. Len(rec) \in Nat /\ Ids \subseteq Nat \ {0}
  BY <1>2 DEF Ids
<1>7. ASSUME NEW a \in Actors, NEW j \in Jobs, Call(a, j)
      PROVE  TypeInv'
  <2>1. [loc[a] EXCEPT !.job = j] \in Locals
    BY <1>3 DEF Locals, Verdict
  <2>2. loc' \in [Actors -> Locals]
    BY <1>7, <1>2, <2>1 DEF Call
  <2>3. pc' \in [Actors -> Label] /\ faults' \in Nat
    BY <1>7, <1>2 DEF Call, Goto, StmtOk, StmtFails, Label, Running, Pruning, Cleaning
  <2>4. ResultKnown'
    BY <1>7, <1>2, <1>5 DEF Call, Goto, ResultKnown
  <2>5. QED
    BY <1>7, <2>2, <2>3, <2>4 DEF Call, TypeInv, TypeOK, db, mem, env
<1>8. ASSUME NEW a \in Actors, HandleJobGet(a)
      PROVE  TypeInv'
  <2>1. [loc[a] EXCEPT !.keep = retain[loc[a].job]] \in Locals
    BY <1>2, <1>3, <1>4 DEF Locals, Verdict
  <2>2. loc' \in [Actors -> Locals]
    BY <1>8, <1>2, <2>1, NoLocalsType DEF HandleJobGet, Return
  <2>3. pc' \in [Actors -> Label] /\ faults' \in Nat
    BY <1>8, <1>2 DEF HandleJobGet, Return, Goto, StmtOk, StmtFails, Label, Running, Pruning, Cleaning
  <2>4. ResultKnown'
    BY <1>8, <1>2, <1>5 DEF HandleJobGet, Return, Goto, ResultKnown
  <2>5. QED
    BY <1>8, <2>2, <2>3, <2>4 DEF HandleJobGet, Return, TypeInv, TypeOK, db, mem, env
<1>9. ASSUME NEW a \in Actors, StartRecord(a)
      PROVE  TypeInv'
  <2>1. Append(rec, Row(loc[a].job, "waiting")) \in Seq(Record)
    BY <1>2, <1>4 DEF Row, Record, Status
  <2>2. rec' \in Seq(Record)
    BY <1>9, <1>2, <2>1 DEF StartRecord, Insert
  <2>3. Len(rec) + 1 \in Nat
    BY <1>6
  <2>4. executing' \subseteq exists' /\ exists' \subseteq Jobs
    BY <1>9 DEF StartRecord, Free, TypeInv, TypeOK
  <2>5. [loc[a] EXCEPT !.rec = Len(rec) + 1] \in Locals
    BY <1>3, <2>3 DEF Locals, Verdict
  <2>6. loc' \in [Actors -> Locals]
    BY <1>9, <1>2, <2>5 DEF StartRecord
  <2>7. pc' \in [Actors -> Label] /\ faults' \in Nat
    BY <1>9, <1>2 DEF StartRecord, Goto, StmtOk, StmtFails, Label, Running, Pruning, Cleaning
  <2>8. ResultKnown'
    BY <1>9, <1>2, <1>5 DEF StartRecord, Goto, ResultKnown
  <2>9. QED
    BY <1>9, <2>1, <2>2, <2>3, <2>4, <2>6, <2>7, <2>8 DEF StartRecord, TypeInv, TypeOK, db, mem, env
<1>10. ASSUME NEW a \in Actors, RecordSkipped(a)
       PROVE  TypeInv'
  <2>1. Row(loc[a].job, "unexecuted") \in Record
    BY <1>4 DEF Row, Record, Status
  <2>2. rec' \in Seq(Record)
    <3>1. rec' = Append(rec, Row(loc[a].job, "unexecuted")) \/ rec' = rec
      BY <1>10 DEF RecordSkipped, Insert
    <3>2. QED
      BY <3>1, <1>2, <2>1
  <2>3. loc' \in [Actors -> Locals]
    BY <1>10, <1>2 DEF RecordSkipped
  <2>4. pc' \in [Actors -> Label] /\ faults' \in Nat
    BY <1>10, <1>2 DEF RecordSkipped, Goto, StmtOk, StmtFails, Label, Running, Pruning, Cleaning
  <2>5. ResultKnown'
    BY <1>10, <1>2, <1>5 DEF RecordSkipped, Goto, ResultKnown
  <2>6. QED
    BY <1>10, <2>1, <2>2, <2>3, <2>4, <2>5 DEF RecordSkipped, TypeInv, TypeOK, db, mem, env
<1>11. ASSUME NEW a \in Actors, NewLogWriter(a)
       PROVE  TypeInv'
  <2>1. logs' \subseteq Nat
    BY <1>11, <1>2, <1>4 DEF NewLogWriter
  <2>2. /\ [loc[a] EXCEPT !.res = "failed"] \in Locals
        /\ [loc[a] EXCEPT !.res = "failed"].res = "failed"
    BY <1>3 DEF Locals, Verdict
  <2>3. loc' \in [Actors -> Locals]
    BY <1>11, <1>2, <2>2 DEF NewLogWriter
  <2>4. pc' \in [Actors -> Label] /\ faults' \in Nat
    BY <1>11, <1>2 DEF NewLogWriter, Goto, StmtOk, StmtFails, Label, Running, Pruning, Cleaning
  <2>5. ResultKnown'
    BY <1>11, <1>2, <1>5, <2>2, VerdictIs DEF NewLogWriter, Goto, ResultKnown
  <2>6. QED
    BY <1>11, <2>1, <2>3, <2>4, <2>5 DEF NewLogWriter, TypeInv, TypeOK, db, mem, env
<1>12. ASSUME NEW a \in Actors, RegisterCancel(a)
       PROVE  TypeInv'
  <2>1. cancel' \subseteq Nat
    BY <1>12, <1>2, <1>4 DEF RegisterCancel
  <2>2. [loc[a] EXCEPT !.left = Cmds[loc[a].job]] \in Locals
    BY <1>1, <1>3, <1>4 DEF Locals, Verdict
  <2>3. loc' \in [Actors -> Locals]
    BY <1>12, <1>2, <2>2 DEF RegisterCancel
  <2>4. pc' \in [Actors -> Label] /\ faults' \in Nat
    BY <1>12, <1>2 DEF RegisterCancel, Goto, StmtOk, StmtFails, Label, Running, Pruning, Cleaning
  <2>5. ResultKnown'
    BY <1>12, <1>2, <1>5 DEF RegisterCancel, Goto, ResultKnown
  <2>6. QED
    BY <1>12, <2>1, <2>3, <2>4, <2>5 DEF RegisterCancel, TypeInv, TypeOK, db, mem, env
<1>13. ASSUME NEW a \in Actors, Launch(a)
       PROVE  TypeInv'
  <2>1. /\ [loc[a] EXCEPT !.res = "success", !.left = 0] \in Locals
        /\ [loc[a] EXCEPT !.res = "success", !.left = 0].res = "success"
    BY <1>3 DEF Locals, Verdict
  <2>2. /\ [loc[a] EXCEPT !.res = "failed", !.left = 0] \in Locals
        /\ [loc[a] EXCEPT !.res = "failed", !.left = 0].res = "failed"
    BY <1>3 DEF Locals, Verdict
  <2>3. [loc[a] EXCEPT !.res = "alive"] \in Locals
    BY <1>3 DEF Locals, Verdict
  <2>4. loc' \in [Actors -> Locals]
    BY <1>13, <1>2, <2>1, <2>2, <2>3 DEF Launch, Finished
  <2>5. pc' \in [Actors -> Label] /\ faults' \in Nat
    BY <1>13, <1>2 DEF Launch, Finished, Goto, StmtOk, StmtFails, Label, Running, Pruning, Cleaning
  <2>6. ResultKnown'
    BY <1>13, <1>2, <1>5, <2>1, <2>2, VerdictIs DEF Launch, Finished, Goto, ResultKnown
  <2>7. QED
    BY <1>13, <2>4, <2>5, <2>6 DEF Launch, Finished, TypeInv, TypeOK, db, mem, env
<1>14. ASSUME NEW a \in Actors, ProcessExit(a)
       PROVE  TypeInv'
  <2>1. [loc[a] EXCEPT !.res = "success"] \in Locals
    BY <1>3 DEF Locals, Verdict
  <2>2. [loc[a] EXCEPT !.res = "failed"] \in Locals
    BY <1>3 DEF Locals, Verdict
  <2>3. loc' \in [Actors -> Locals]
    BY <1>14, <1>2, <2>1, <2>2 DEF ProcessExit, Verdict
  <2>4. pc' \in [Actors -> Label] /\ faults' \in Nat
    BY <1>14, <1>2 DEF ProcessExit, Verdict, Goto, StmtOk, StmtFails, Label, Running, Pruning, Cleaning
  <2>5. ResultKnown'
    BY <1>14, <1>2, <1>5 DEF ProcessExit, Verdict, Goto, ResultKnown
  <2>6. QED
    BY <1>14, <2>3, <2>4, <2>5 DEF ProcessExit, Verdict, TypeInv, TypeOK, db, mem, env
<1>15. ASSUME NEW a \in Actors, Timeout(a)
       PROVE  TypeInv'
  <2>1. done' \subseteq Nat
    BY <1>15, <1>2, <1>4 DEF Timeout
  <2>2. loc' \in [Actors -> Locals]
    BY <1>15, <1>2 DEF Timeout
  <2>3. pc' \in [Actors -> Label] /\ faults' \in Nat
    BY <1>15, <1>2 DEF Timeout, Goto, StmtOk, StmtFails, Label, Running, Pruning, Cleaning
  <2>4. ResultKnown'
    BY <1>15, <1>2, <1>5 DEF Timeout, Goto, ResultKnown
  <2>5. QED
    BY <1>15, <2>1, <2>2, <2>3, <2>4 DEF Timeout, TypeInv, TypeOK, db, mem, env
<1>16. ASSUME NEW a \in Actors, ReceiveExit(a)
       PROVE  TypeInv'
  <2>1. loc[a].res \in Verdict
    BY <1>16 DEF ReceiveExit
  <2>2. loc[a].left > 1 => loc[a].left - 1 \in Nat
    BY <1>4
  <2>3. loc[a].left > 1 => [loc[a] EXCEPT !.res = "", !.left = loc[a].left - 1] \in Locals
    BY <1>3, <2>2 DEF Locals, Verdict
  <2>4. /\ [loc[a] EXCEPT !.res = loc[a].res, !.left = 0] \in Locals
        /\ [loc[a] EXCEPT !.res = loc[a].res, !.left = 0].res = loc[a].res
    BY <1>3, <2>1 DEF Locals, Verdict
  <2>5. loc' \in [Actors -> Locals]
    BY <1>16, <1>2, <2>3, <2>4 DEF ReceiveExit, Finished
  <2>6. pc' \in [Actors -> Label] /\ faults' \in Nat
    BY <1>16, <1>2 DEF ReceiveExit, Finished, Goto, StmtOk, StmtFails, Label, Running, Pruning, Cleaning
  <2>7. ResultKnown'
    BY <1>16, <1>2, <1>5, <2>4, <2>1 DEF ReceiveExit, Finished, Goto, ResultKnown
  <2>8. QED
    BY <1>16, <2>1, <2>2, <2>5, <2>6, <2>7 DEF ReceiveExit, Finished, TypeInv, TypeOK, db, mem, env
<1>17. ASSUME NEW a \in Actors, ReceiveDone(a)
       PROVE  TypeInv'
  <2>1. loc' \in [Actors -> Locals]
    BY <1>17, <1>2 DEF ReceiveDone
  <2>2. pc' \in [Actors -> Label] /\ faults' \in Nat
    BY <1>17, <1>2 DEF ReceiveDone, Goto, StmtOk, StmtFails, Label, Running, Pruning, Cleaning
  <2>3. ResultKnown'
    BY <1>17, <1>2, <1>5 DEF ReceiveDone, Goto, ResultKnown
  <2>4. QED
    BY <1>17, <2>1, <2>2, <2>3 DEF ReceiveDone, TypeInv, TypeOK, db, mem, env
<1>18. ASSUME NEW a \in Actors, Reap(a)
       PROVE  TypeInv'
  <2>1. /\ [loc[a] EXCEPT !.res = "failed", !.left = 0] \in Locals
        /\ [loc[a] EXCEPT !.res = "failed", !.left = 0].res = "failed"
    BY <1>3 DEF Locals, Verdict
  <2>2. loc' \in [Actors -> Locals]
    BY <1>18, <1>2, <2>1 DEF Reap, Finished
  <2>3. pc' \in [Actors -> Label] /\ faults' \in Nat
    BY <1>18, <1>2 DEF Reap, Finished, Goto, StmtOk, StmtFails, Label, Running, Pruning, Cleaning
  <2>4. ResultKnown'
    BY <1>18, <1>2, <1>5, <2>1, VerdictIs DEF Reap, Finished, Goto, ResultKnown
  <2>5. QED
    BY <1>18, <2>2, <2>3, <2>4 DEF Reap, Finished, TypeInv, TypeOK, db, mem, env
<1>19. ASSUME NEW a \in Actors, UnregisterCancel(a)
       PROVE  TypeInv'
  <2>1. cancel' \subseteq Nat /\ done' \subseteq Nat
    BY <1>19, <1>2 DEF UnregisterCancel
  <2>2. loc' \in [Actors -> Locals]
    BY <1>19, <1>2 DEF UnregisterCancel
  <2>3. pc' \in [Actors -> Label] /\ faults' \in Nat
    BY <1>19, <1>2 DEF UnregisterCancel, Goto, StmtOk, StmtFails, Label, Running, Pruning, Cleaning
  <2>4. ResultKnown'
    BY <1>19, <1>2, <1>5 DEF UnregisterCancel, Goto, ResultKnown
  <2>5. QED
    BY <1>19, <2>1, <2>2, <2>3, <2>4 DEF UnregisterCancel, TypeInv, TypeOK, db, mem, env
<1>20. ASSUME NEW a \in Actors, EndRecord(a)
       PROVE  TypeInv'
  <2>1. loc[a].res \in Verdict
    BY <1>20, <1>5 DEF EndRecord
  <2>2. rec' \in Seq(Record)
    BY <1>20, <1>2, <2>1, SettledType DEF EndRecord
  <2>3. loc' \in [Actors -> Locals]
    BY <1>20, <1>2 DEF EndRecord
  <2>4. pc' \in [Actors -> Label] /\ faults' \in Nat
    BY <1>20, <1>2 DEF EndRecord, Goto, StmtOk, StmtFails, Label, Running, Pruning, Cleaning
  <2>5. ResultKnown'
    BY <1>20, <1>2, <1>5 DEF EndRecord, Goto, ResultKnown
  <2>6. QED
    BY <1>20, <2>1, <2>2, <2>3, <2>4, <2>5 DEF EndRecord, TypeInv, TypeOK, db, mem, env
<1>21. ASSUME NEW a \in Actors, EndJob(a)
       PROVE  TypeInv'
  <2>1. loc' \in [Actors -> Locals]
    BY <1>21, <1>2 DEF EndJob
  <2>2. pc' \in [Actors -> Label] /\ faults' \in Nat
    BY <1>21, <1>2 DEF EndJob, Goto, StmtOk, StmtFails, Label, Running, Pruning, Cleaning
  <2>3. ResultKnown'
    BY <1>21, <1>2, <1>5 DEF EndJob, Goto, ResultKnown
  <2>4. QED
    BY <1>21, <2>1, <2>2, <2>3 DEF EndJob, TypeInv, TypeOK, db, mem, env
<1>22. ASSUME NEW a \in Actors, PruneList(a)
       PROVE  TypeInv'
  <2>1. Expired(loc[a].job, loc[a].keep) \subseteq Nat \ {0}
    BY <1>6 DEF Expired, Rows
  <2>2. [loc[a] EXCEPT !.rows = Expired(loc[a].job, loc[a].keep), !.files = {r \in Expired(loc[a].job, loc[a].keep) : rec[r].path}] \in Locals
    BY <1>3, <2>1 DEF Locals, Verdict
  <2>3. loc' \in [Actors -> Locals]
    BY <1>22, <1>2, <2>2, NoLocalsType DEF PruneList, Return
  <2>4. pc' \in [Actors -> Label] /\ faults' \in Nat
    BY <1>22, <1>2 DEF PruneList, Return, Goto, StmtOk, StmtFails, Label, Running, Pruning, Cleaning
  <2>5. ResultKnown'
    BY <1>22, <1>2, <1>5 DEF PruneList, Return, Goto, ResultKnown
  <2>6. QED
    BY <1>22, <2>1, <2>3, <2>4, <2>5 DEF PruneList, Return, TypeInv, TypeOK, db, mem, env
<1>23. ASSUME NEW a \in Actors, PruneRemove(a)
       PROVE  TypeInv'
  <2>1. rec' \in Seq(Record)
    BY <1>23, <1>2, DropType DEF PruneRemove
  <2>2. logs' \subseteq Nat
    BY <1>23, <1>2 DEF PruneRemove
  <2>3. loc' \in [Actors -> Locals]
    BY <1>23, <1>2, NoLocalsType DEF PruneRemove, Return
  <2>4. pc' \in [Actors -> Label] /\ faults' \in Nat
    BY <1>23, <1>2 DEF PruneRemove, Return, Goto, StmtOk, StmtFails, Label, Running, Pruning, Cleaning
  <2>5. ResultKnown'
    BY <1>23, <1>2, <1>5 DEF PruneRemove, Return, Goto, ResultKnown
  <2>6. QED
    BY <1>23, <2>1, <2>2, <2>3, <2>4, <2>5 DEF PruneRemove, Return, TypeInv, TypeOK, db, mem, env
<1>24. ASSUME NEW a \in Actors, NEW j \in Jobs, NEW k \in Copies, UpdateCopies(a, j, k)
       PROVE  TypeInv'
  <2>1. retain' \in [Jobs -> Nat]
    BY <1>24, <1>1, <1>2 DEF UpdateCopies
  <2>2. [loc[a] EXCEPT !.job = j, !.keep = k] \in Locals
    BY <1>1, <1>3 DEF Locals, Verdict
  <2>3. loc' \in [Actors -> Locals]
    BY <1>24, <1>2, <2>2 DEF UpdateCopies
  <2>4. pc' \in [Actors -> Label] /\ faults' \in Nat
    BY <1>24, <1>2 DEF UpdateCopies, Goto, StmtOk, StmtFails, Label, Running, Pruning, Cleaning
  <2>5. ResultKnown'
    BY <1>24, <1>2, <1>5 DEF UpdateCopies, Goto, ResultKnown
  <2>6. QED
    BY <1>24, <2>1, <2>3, <2>4, <2>5 DEF UpdateCopies, TypeInv, TypeOK, db, mem, env
<1>25. ASSUME NEW a \in Actors, NEW j \in Jobs, HandleStop(a, j)
       PROVE  TypeInv'
  <2>1. \A r \in Rows(j) : [loc[a] EXCEPT !.job = j, !.rec = r] \in Locals
    BY <1>3, <1>6, RowsAreIds DEF Locals, Verdict
  <2>2. loc' \in [Actors -> Locals]
    BY <1>25, <1>2, <2>1 DEF HandleStop
  <2>3. pc' \in [Actors -> Label] /\ faults' \in Nat
    BY <1>25, <1>2 DEF HandleStop, Goto, StmtOk, StmtFails, Label, Running, Pruning, Cleaning
  <2>4. ResultKnown'
    BY <1>25, <1>2, <1>5 DEF HandleStop, Goto, ResultKnown
  <2>5. QED
    BY <1>25, <2>2, <2>3, <2>4 DEF HandleStop, TypeInv, TypeOK, db, mem, env
<1>26. ASSUME NEW a \in Actors, RunnerStop(a)
       PROVE  TypeInv'
  <2>1. done' \subseteq Nat
    BY <1>26, <1>2 DEF RunnerStop
  <2>2. loc' \in [Actors -> Locals]
    BY <1>26, <1>2, NoLocalsType DEF RunnerStop, Return
  <2>3. pc' \in [Actors -> Label] /\ faults' \in Nat
    BY <1>26, <1>2 DEF RunnerStop, Return, Goto, StmtOk, StmtFails, Label, Running, Pruning, Cleaning
  <2>4. ResultKnown'
    BY <1>26, <1>2, <1>5 DEF RunnerStop, Return, Goto, ResultKnown
  <2>5. QED
    BY <1>26, <2>1, <2>2, <2>3, <2>4 DEF RunnerStop, Return, TypeInv, TypeOK, db, mem, env
<1>27. ASSUME NEW a \in Actors, NEW j \in Jobs, ClearRecords(a, j)
       PROVE  TypeInv'
  <2>1. [loc[a] EXCEPT !.job = j] \in Locals
    BY <1>3 DEF Locals, Verdict
  <2>2. loc' \in [Actors -> Locals]
    BY <1>27, <1>2, <2>1 DEF ClearRecords
  <2>3. pc' \in [Actors -> Label] /\ faults' \in Nat
    BY <1>27, <1>2 DEF ClearRecords, Goto, StmtOk, StmtFails, Label, Running, Pruning, Cleaning
  <2>4. ResultKnown'
    BY <1>27, <1>2, <1>5 DEF ClearRecords, Goto, ResultKnown
  <2>5. QED
    BY <1>27, <2>2, <2>3, <2>4 DEF ClearRecords, TypeInv, TypeOK, db, mem, env
<1>28. ASSUME NEW a \in Actors, NEW j \in Jobs, Delete(a, j)
       PROVE  TypeInv'
  <2>1. [loc[a] EXCEPT !.job = j] \in Locals
    BY <1>3 DEF Locals, Verdict
  <2>2. loc' \in [Actors -> Locals]
    BY <1>28, <1>2, <2>1 DEF Delete
  <2>3. pc' \in [Actors -> Label] /\ faults' \in Nat
    BY <1>28, <1>2 DEF Delete, Goto, StmtOk, StmtFails, Label, Running, Pruning, Cleaning
  <2>4. ResultKnown'
    BY <1>28, <1>2, <1>5 DEF Delete, Goto, ResultKnown
  <2>5. QED
    BY <1>28, <2>2, <2>3, <2>4 DEF Delete, TypeInv, TypeOK, db, mem, env
<1>29. ASSUME NEW a \in Actors, CleanFiles(a)
       PROVE  TypeInv'
  <2>1. logs' \subseteq Nat
    BY <1>29, <1>2 DEF CleanFiles
  <2>2. loc' \in [Actors -> Locals]
    BY <1>29, <1>2 DEF CleanFiles
  <2>3. pc' \in [Actors -> Label] /\ faults' \in Nat
    BY <1>29, <1>2 DEF CleanFiles, Goto, StmtOk, StmtFails, Label, Running, Pruning, Cleaning
  <2>4. ResultKnown'
    BY <1>29, <1>2, <1>5 DEF CleanFiles, Goto, ResultKnown
  <2>5. QED
    BY <1>29, <2>1, <2>2, <2>3, <2>4 DEF CleanFiles, TypeInv, TypeOK, db, mem, env
<1>30. ASSUME NEW a \in Actors, CleanRows(a)
       PROVE  TypeInv'
  <2>1. rec' \in Seq(Record)
    BY <1>30, <1>2, DropType DEF CleanRows
  <2>2. loc' \in [Actors -> Locals]
    BY <1>30, <1>2, NoLocalsType DEF CleanRows, Return
  <2>3. pc' \in [Actors -> Label] /\ faults' \in Nat
    BY <1>30, <1>2 DEF CleanRows, Return, Goto, StmtOk, StmtFails, Label, Running, Pruning, Cleaning
  <2>4. ResultKnown'
    BY <1>30, <1>2, <1>5 DEF CleanRows, Return, Goto, ResultKnown
  <2>5. QED
    BY <1>30, <2>1, <2>2, <2>3, <2>4 DEF CleanRows, Return, TypeInv, TypeOK, db, mem, env
<1>31. ASSUME NEW a \in Actors, DeleteJob(a)
       PROVE  TypeInv'
  <2>1. loc' \in [Actors -> Locals]
    BY <1>31, <1>2, NoLocalsType DEF DeleteJob, Return
  <2>2. pc' \in [Actors -> Label] /\ faults' \in Nat
    BY <1>31, <1>2 DEF DeleteJob, Return, Goto, StmtOk, StmtFails, Label, Running, Pruning, Cleaning
  <2>3. ResultKnown'
    BY <1>31, <1>2, <1>5 DEF DeleteJob, Return, Goto, ResultKnown
  <2>4. QED
    BY <1>31, <2>1, <2>2, <2>3 DEF DeleteJob, Return, TypeInv, TypeOK, db, mem, env
<1>32. CASE Crash
  <2>1. pc' \in [Actors -> Label] /\ loc' \in [Actors -> Locals]
    BY <1>32, NoLocalsType DEF Crash, Label
  <2>2. ResultKnown'
    BY <1>32 DEF Crash, ResultKnown
  <2>3. /\ UNCHANGED <<exists, executing, retain, rec, logs, faults>>
        /\ cancel' \subseteq Nat /\ done' \subseteq Nat /\ up' \in BOOLEAN
    BY <1>32 DEF Crash, db
  <2>4. TypeOK
    BY DEF TypeInv
  <2>5. crashes' \in Nat
    BY <1>32, <2>4 DEF Crash, TypeOK
  <2>6. TypeOK'
    BY <2>1, <2>3, <2>4, <2>5 DEF TypeOK
  <2>7. QED
    BY <2>2, <2>6 DEF TypeInv
<1>33. CASE RestoreCronjobs
  <2>1. rec' \in Seq(Record)
    BY <1>33, <1>2, RestartType
  <2>2. ResultKnown'
    BY <1>33, <1>5 DEF RestoreCronjobs, ResultKnown
  <2>3. QED
    BY <1>33, <2>1, <2>2 DEF RestoreCronjobs, FlagsAfterRestart, mem, TypeInv, TypeOK
<1>34. CASE UNCHANGED vars
  BY <1>34 DEF vars, TypeInv, TypeOK, ResultKnown
<1>35. CASE Request
  BY <1>1, <1>35, <1>7, <1>24, <1>25, <1>27, <1>28
     DEF Request, Tick, HandleOnce
<1>36. ASSUME NEW a \in Actors, Step(a) PROVE TypeInv'
  BY <1>36, <1>8, <1>9, <1>10, <1>11, <1>12, <1>13, <1>16, <1>17, <1>18,
     <1>19, <1>20, <1>21, <1>22, <1>23, <1>26, <1>29, <1>30, <1>31 DEF Step
<1>37. QED
  BY <1>14, <1>15, <1>32, <1>33, <1>34, <1>35, <1>36 DEF Next

\* Type correctness: the tables, files, maps and goroutines of the program always
\* have the types the code gives them.
THEOREM TypeCorrect == Spec => []TypeOK
<1>1. Init => TypeInv
  BY TypeInit
<1>2. TypeInv /\ [Next]_vars => TypeInv'
  BY TypeStep
<1>3. TypeInv => TypeOK
  BY DEF TypeInv
<1>4. QED
  BY <1>1, <1>2, <1>3, PTL DEF Spec
----------------------------------------------------------------------------
\* What almost every step has in common: no run starts or changes its cronjob, no
\* cronjob appears, no flag of a cronjob that still exists is lost, and the
\* process goes down with all its goroutines.
Quiet ==
  /\ \A b \in Actors : InRun(b)' => InRun(b) /\ loc'[b].job = loc[b].job
  /\ exists' \subseteq exists
  /\ executing \cap exists' \subseteq executing'
  /\ ~up' => \A b \in Actors : pc'[b] = "idle"

\* A step in which nobody enters a run, no flag of a run is dropped and the actors
\* of a dead process stay idle keeps the mutual exclusion.
LEMMA QuietStep == MutexInv /\ Quiet => MutexInv'
BY DEF MutexInv, Quiet, RunnerHasFlag, NoDoubleRun, DownIdle

\* Initially nobody runs anything.
LEMMA MutexInit == Init => MutexInv
BY DEF Init, MutexInv, RunnerHasFlag, NoDoubleRun, DownIdle, InRun, Running

\* Every step keeps the mutual exclusion of the runs of one cronjob.
LEMMA MutexStep == TypeOK /\ MutexInv /\ [Next]_vars => MutexInv'
<1>. SUFFICES ASSUME TypeOK, MutexInv PROVE [Next]_vars => MutexInv'
  OBVIOUS
<1>1. /\ Workers \subseteq Actors /\ Admins \subseteq Actors
  BY DEF Actors
<1>2. /\ pc \in [Actors -> Label] /\ loc \in [Actors -> Locals]
      /\ executing \subseteq exists
      /\ ~up => \A a \in Actors : pc[a] = "idle"
      /\ \A a \in Actors : loc[a] \in Locals
  BY DEF TypeOK, MutexInv, DownIdle
<1>3. \A a \in Actors : pc[a] # "idle" => up
  BY <1>2
<1>4. ASSUME NEW a \in Actors, NEW j \in Jobs, Call(a, j)
      PROVE  Quiet
  <2>1. \A b \in Actors : InRun(b)' => InRun(b) /\ loc'[b].job = loc[b].job
    BY <1>4, <1>2 DEF Call, Goto, InRun, Running
  <2>2. exists' \subseteq exists /\ executing \cap exists' \subseteq executing' /\ up' = up /\ up
    BY <1>3, <1>4, <1>2 DEF Call, db, env
  <2>3. QED
    BY <2>1, <2>2 DEF Quiet
<1>5. ASSUME NEW a \in Actors, HandleJobGet(a)
      PROVE  Quiet
  <2>1. \A b \in Actors : InRun(b)' => InRun(b) /\ loc'[b].job = loc[b].job
    BY <1>5, <1>2 DEF HandleJobGet, Return, Goto, InRun, Running
  <2>2. exists' \subseteq exists /\ executing \cap exists' \subseteq executing' /\ up' = up /\ up
    BY <1>3, <1>5, <1>2 DEF HandleJobGet, Return, db, env
  <2>3. QED
    BY <2>1, <2>2 DEF Quiet
<1>6. ASSUME NEW a \in Actors, RecordSkipped(a)
      PROVE  Quiet
  <2>1. \A b \in Actors : InRun(b)' => InRun(b) /\ loc'[b].job = loc[b].job
    BY <1>6, <1>2 DEF RecordSkipped, Goto, InRun, Running
  <2>2. exists' \subseteq exists /\ executing \cap exists' \subseteq executing' /\ up' = up /\ up
    BY <1>3, <1>6, <1>2 DEF RecordSkipped, db, env
  <2>3. QED
    BY <2>1, <2>2 DEF Quiet
<1>7. ASSUME NEW a \in Actors, NewLogWriter(a)
      PROVE  Quiet
  <2>1. \A b \in Actors : InRun(b)' => InRun(b)
    BY <1>7, <1>2 DEF NewLogWriter, Goto, InRun, Running
  <2>2. \A b \in Actors : loc'[b].job = loc[b].job
    <3>1. CASE loc' = [loc EXCEPT ![a].res = "failed"]
      BY <3>1, <1>2 DEF Locals
    <3>2. CASE UNCHANGED loc
      BY <3>2
    <3>3. QED
      BY <1>7, <3>1, <3>2 DEF NewLogWriter
  <2>3. exists' \subseteq exists /\ executing \cap exists' \subseteq executing' /\ up' = up /\ up
    BY <1>3, <1>7, <1>2 DEF NewLogWriter, db, env
  <2>4. QED
    BY <2>1, <2>2, <2>3 DEF Quiet
<1>8. ASSUME NEW a \in Actors, RegisterCancel(a)
      PROVE  Quiet
  <2>1. \A b \in Actors : InRun(b)' => InRun(b) /\ loc'[b].job = loc[b].job
    BY <1>8, <1>2 DEF RegisterCancel, Goto, InRun, Running, Locals
  <2>2. exists' \subseteq exists /\ executing \cap exists' \subseteq executing' /\ up' = up /\ up
    BY <1>3, <1>8, <1>2 DEF RegisterCancel, db, env
  <2>3. QED
    BY <2>1, <2>2 DEF Quiet
<1>9. ASSUME NEW a \in Actors, Launch(a)
      PROVE  Quiet
  <2>1. \A b \in Actors : InRun(b)' => InRun(b)
    BY <1>9, <1>2 DEF Launch, Finished, Goto, InRun, Running
  <2>2. \A b \in Actors : loc'[b].job = loc[b].job
    <3>1. CASE loc' = [loc EXCEPT ![a].res = "success", ![a].left = 0]
      BY <3>1, <1>2 DEF Locals
    <3>2. CASE loc' = [loc EXCEPT ![a].res = "failed", ![a].left = 0]
      BY <3>2, <1>2 DEF Locals
    <3>3. CASE loc' = [loc EXCEPT ![a].res = "alive"]
      BY <3>3, <1>2 DEF Locals
    <3>4. QED
      BY <1>9, <3>1, <3>2, <3>3 DEF Launch, Finished
  <2>3. exists' \subseteq exists /\ executing \cap exists' \subseteq executing' /\ up' = up /\ up
    BY <1>3, <1>9, <1>2 DEF Launch, Finished, db, env
  <2>4. QED
    BY <2>1, <2>2, <2>3 DEF Quiet
<1>10. ASSUME NEW a \in Actors, ProcessExit(a)
       PROVE  Quiet
  <2>1. \A b \in Actors : InRun(b)' => InRun(b)
    BY <1>10, <1>2 DEF ProcessExit, Goto, InRun, Running
  <2>2. \A b \in Actors : loc'[b].job = loc[b].job
    <3>1. CASE loc' = [loc EXCEPT ![a].res = "success"]
      BY <3>1, <1>2 DEF Locals
    <3>2. CASE loc' = [loc EXCEPT ![a].res = "failed"]
      BY <3>2, <1>2 DEF Locals
    <3>3. QED
      BY <1>10, <3>1, <3>2 DEF ProcessExit, Verdict
  <2>3. exists' \subseteq exists /\ executing \cap exists' \subseteq executing' /\ up' = up /\ up
    BY <1>3, <1>10, <1>2 DEF ProcessExit, db, env
  <2>4. QED
    BY <2>1, <2>2, <2>3 DEF Quiet
<1>11. ASSUME NEW a \in Actors, Timeout(a)
       PROVE  Quiet
  <2>1. \A b \in Actors : InRun(b)' => InRun(b) /\ loc'[b].job = loc[b].job
    BY <1>11, <1>2 DEF Timeout, Goto, InRun, Running, Locals
  <2>2. exists' \subseteq exists /\ executing \cap exists' \subseteq executing' /\ up' = up /\ up
    BY <1>3, <1>11, <1>2 DEF Timeout, db, env
  <2>3. QED
    BY <2>1, <2>2 DEF Quiet
<1>12. ASSUME NEW a \in Actors, ReceiveExit(a)
       PROVE  Quiet
  <2>1. \A b \in Actors : InRun(b)' => InRun(b)
    BY <1>12, <1>2 DEF ReceiveExit, Finished, Goto, InRun, Running
  <2>2. \A b \in Actors : loc'[b].job = loc[b].job
    <3>1. CASE loc' = [loc EXCEPT ![a].res = "", ![a].left = @ - 1]
      BY <3>1, <1>2 DEF Locals
    <3>2. CASE loc' = [loc EXCEPT ![a].res = loc[a].res, ![a].left = 0]
      BY <3>2, <1>2 DEF Locals
    <3>3. QED
      BY <1>12, <3>1, <3>2 DEF ReceiveExit, Finished
  <2>3. exists' \subseteq exists /\ executing \cap exists' \subseteq executing' /\ up' = up /\ up
    BY <1>3, <1>12, <1>2 DEF ReceiveExit, Finished, db, env
  <2>4. QED
    BY <2>1, <2>2, <2>3 DEF Quiet
<1>13. ASSUME NEW a \in Actors, ReceiveDone(a)
       PROVE  Quiet
  <2>1. \A b \in Actors : InRun(b)' => InRun(b) /\ loc'[b].job = loc[b].job
    BY <1>13, <1>2 DEF ReceiveDone, Goto, InRun, Running, Locals
  <2>2. exists' \subseteq exists /\ executing \cap exists' \subseteq executing' /\ up' = up /\ up
    BY <1>3, <1>13, <1>2 DEF ReceiveDone, db, env
  <2>3. QED
    BY <2>1, <2>2 DEF Quiet
<1>14. ASSUME NEW a \in Actors, Reap(a)
       PROVE  Quiet
  <2>1. \A b \in Actors : InRun(b)' => InRun(b) /\ loc'[b].job = loc[b].job
    BY <1>14, <1>2 DEF Reap, Finished, Goto, InRun, Running, Locals
  <2>2. exists' \subseteq exists /\ executing \cap exists' \subseteq executing' /\ up' = up /\ up
    BY <1>3, <1>14, <1>2 DEF Reap, Finished, db, env
  <2>3. QED
    BY <2>1, <2>2 DEF Quiet
<1>15. ASSUME NEW a \in Actors, UnregisterCancel(a)
       PROVE  Quiet
  <2>1. \A b \in Actors : InRun(b)' => InRun(b) /\ loc'[b].job = loc[b].job
    BY <1>15, <1>2 DEF UnregisterCancel, Goto, InRun, Running, Locals
  <2>2. exists' \subseteq exists /\ executing \cap exists' \subseteq executing' /\ up' = up /\ up
    BY <1>3, <1>15, <1>2 DEF UnregisterCancel, db, env
  <2>3. QED
    BY <2>1, <2>2 DEF Quiet
<1>16. ASSUME NEW a \in Actors, EndRecord(a)
       PROVE  Quiet
  <2>1. \A b \in Actors : InRun(b)' => InRun(b) /\ loc'[b].job = loc[b].job
    BY <1>16, <1>2 DEF EndRecord, Goto, InRun, Running, Locals
  <2>2. exists' \subseteq exists /\ executing \cap exists' \subseteq executing' /\ up' = up /\ up
    BY <1>3, <1>16, <1>2 DEF EndRecord, db, env
  <2>3. QED
    BY <2>1, <2>2 DEF Quiet
<1>17. ASSUME NEW a \in Actors, PruneList(a)
       PROVE  Quiet
  <2>1. \A b \in Actors : InRun(b)' => InRun(b) /\ loc'[b].job = loc[b].job
    BY <1>17, <1>2 DEF PruneList, Return, Goto, InRun, Running
  <2>2. exists' \subseteq exists /\ executing \cap exists' \subseteq executing' /\ up' = up /\ up
    BY <1>3, <1>17, <1>2 DEF PruneList, Return, db, env
  <2>3. QED
    BY <2>1, <2>2 DEF Quiet
<1>18. ASSUME NEW a \in Actors, PruneRemove(a)
       PROVE  Quiet
  <2>1. \A b \in Actors : InRun(b)' => InRun(b) /\ loc'[b].job = loc[b].job
    BY <1>18, <1>2 DEF PruneRemove, Return, Goto, InRun, Running
  <2>2. exists' \subseteq exists /\ executing \cap exists' \subseteq executing' /\ up' = up /\ up
    BY <1>3, <1>18, <1>2 DEF PruneRemove, Return, db, env
  <2>3. QED
    BY <2>1, <2>2 DEF Quiet
<1>19. ASSUME NEW a \in Actors, NEW j \in Jobs, NEW k \in Copies, UpdateCopies(a, j, k)
       PROVE  Quiet
  <2>1. \A b \in Actors : InRun(b)' => InRun(b) /\ loc'[b].job = loc[b].job
    BY <1>19, <1>2 DEF UpdateCopies, Goto, InRun, Running
  <2>2. exists' \subseteq exists /\ executing \cap exists' \subseteq executing' /\ up' = up /\ up
    BY <1>3, <1>19, <1>2 DEF UpdateCopies, db, env
  <2>3. QED
    BY <2>1, <2>2 DEF Quiet
<1>20. ASSUME NEW a \in Actors, NEW j \in Jobs, HandleStop(a, j)
       PROVE  Quiet
  <2>1. \A b \in Actors : InRun(b)' => InRun(b) /\ loc'[b].job = loc[b].job
    BY <1>20, <1>2 DEF HandleStop, Goto, InRun, Running
  <2>2. exists' \subseteq exists /\ executing \cap exists' \subseteq executing' /\ up' = up /\ up
    BY <1>3, <1>20, <1>2 DEF HandleStop, db, env
  <2>3. QED
    BY <2>1, <2>2 DEF Quiet
<1>21. ASSUME NEW a \in Actors, RunnerStop(a)
       PROVE  Quiet
  <2>1. \A b \in Actors : InRun(b)' => InRun(b) /\ loc'[b].job = loc[b].job
    BY <1>21, <1>2 DEF RunnerStop, Return, Goto, InRun, Running
  <2>2. exists' \subseteq exists /\ executing \cap exists' \subseteq executing' /\ up' = up /\ up
    BY <1>3, <1>21, <1>2 DEF RunnerStop, Return, db, env
  <2>3. QED
    BY <2>1, <2>2 DEF Quiet
<1>22. ASSUME NEW a \in Actors, NEW j \in Jobs, ClearRecords(a, j)
       PROVE  Quiet
  <2>1. \A b \in Actors : InRun(b)' => InRun(b) /\ loc'[b].job = loc[b].job
    BY <1>22, <1>2 DEF ClearRecords, Goto, InRun, Running
  <2>2. exists' \subseteq exists /\ executing \cap exists' \subseteq executing' /\ up' = up /\ up
    BY <1>3, <1>22, <1>2 DEF ClearRecords, db, env
  <2>3. QED
    BY <2>1, <2>2 DEF Quiet
<1>23. ASSUME NEW a \in Actors, NEW j \in Jobs, Delete(a, j)
       PROVE  Quiet
  <2>1. \A b \in Actors : InRun(b)' => InRun(b) /\ loc'[b].job = loc[b].job
    BY <1>23, <1>2 DEF Delete, Goto, InRun, Running
  <2>2. exists' \subseteq exists /\ executing \cap exists' \subseteq executing' /\ up' = up /\ up
    BY <1>3, <1>23, <1>2 DEF Delete, db, env
  <2>3. QED
    BY <2>1, <2>2 DEF Quiet
<1>24. ASSUME NEW a \in Actors, CleanFiles(a)
       PROVE  Quiet
  <2>1. \A b \in Actors : InRun(b)' => InRun(b) /\ loc'[b].job = loc[b].job
    BY <1>24, <1>2 DEF CleanFiles, Goto, InRun, Running
  <2>2. exists' \subseteq exists /\ executing \cap exists' \subseteq executing' /\ up' = up /\ up
    BY <1>3, <1>24, <1>2 DEF CleanFiles, db, env
  <2>3. QED
    BY <2>1, <2>2 DEF Quiet
<1>25. ASSUME NEW a \in Actors, CleanRows(a)
       PROVE  Quiet
  <2>1. \A b \in Actors : InRun(b)' => InRun(b) /\ loc'[b].job = loc[b].job
    BY <1>25, <1>2 DEF CleanRows, Return, Goto, InRun, Running
  <2>2. exists' \subseteq exists /\ executing \cap exists' \subseteq executing' /\ up' = up /\ up
    BY <1>3, <1>25, <1>2 DEF CleanRows, Return, db, env
  <2>3. QED
    BY <2>1, <2>2 DEF Quiet
<1>26. ASSUME NEW a \in Actors, DeleteJob(a)
       PROVE  Quiet
  <2>1. \A b \in Actors : InRun(b)' => InRun(b) /\ loc'[b].job = loc[b].job
    BY <1>26, <1>2 DEF DeleteJob, Return, Goto, InRun, Running
  <2>2. exists' \subseteq exists /\ executing \cap exists' \subseteq executing' /\ up' = up /\ up
    BY <1>3, <1>26, <1>2 DEF DeleteJob, Return, db, env
  <2>3. QED
    BY <2>1, <2>2 DEF Quiet
<1>27. ASSUME NEW a \in Actors, StartRecord(a)
      PROVE  MutexInv'
  <2>. DEFINE j == loc[a].job
  <2>1. CASE Free(j) /\ executing' = executing \cup {j} /\ Goto(a, "open")
             /\ loc' = [loc EXCEPT ![a].rec = Len(rec) + 1]
    <3>1. \A b \in Actors : InRun(b) => loc[b].job # j
      BY <2>1 DEF Free, MutexInv, RunnerHasFlag
    <3>2. \A b \in Actors : /\ loc'[b].job = loc[b].job
                            /\ InRun(b)' => InRun(b) \/ b = a
      BY <2>1, <1>2 DEF Goto, InRun, Locals
    <3>3. exists' = exists /\ up' /\ executing \subseteq executing' /\ j \in executing'
      BY <1>27, <1>2, <1>3, <2>1 DEF StartRecord, env
    <3>4. RunnerHasFlag'
      BY <3>2, <3>3 DEF MutexInv, RunnerHasFlag
    <3>5. NoDoubleRun'
      BY <3>1, <3>2 DEF MutexInv, NoDoubleRun
    <3>6. QED
      BY <3>3, <3>4, <3>5 DEF MutexInv, DownIdle
  <2>2. CASE UNCHANGED <<executing, loc>> /\ (Goto(a, "skip") \/ Goto(a, "list"))
    <3>1. \A b \in Actors : InRun(b)' => InRun(b) /\ loc'[b].job = loc[b].job
      BY <2>2, <1>2 DEF Goto, InRun, Running
    <3>2. exists' = exists /\ executing' = executing /\ up'
      BY <1>27, <1>2, <1>3, <2>2 DEF StartRecord, env
    <3>3. QED
      BY <3>1, <3>2, QuietStep DEF Quiet
  <2>3. QED
    BY <1>27, <2>1, <2>2 DEF StartRecord
<1>28. ASSUME NEW a \in Actors, EndJob(a)
      PROVE  MutexInv'
  <2>1. \A b \in Actors : /\ loc'[b].job = loc[b].job
                          /\ InRun(b)' => InRun(b) /\ b # a
    BY <1>28, <1>2 DEF EndJob, Goto, InRun, Running
  <2>2. InRun(a)
    BY <1>28 DEF EndJob, InRun, Running
  <2>3. \A b \in Actors : InRun(b)' => loc[b].job # loc[a].job
    BY <2>1, <2>2 DEF MutexInv, NoDoubleRun
  <2>4. exists' = exists /\ up' /\ executing \ {loc[a].job} \subseteq executing'
    BY <1>28, <1>2, <1>3 DEF EndJob, env
  <2>5. RunnerHasFlag'
    BY <2>1, <2>3, <2>4 DEF MutexInv, RunnerHasFlag
  <2>6. NoDoubleRun'
    BY <2>1 DEF MutexInv, NoDoubleRun
  <2>7. QED
    BY <2>4, <2>5, <2>6 DEF MutexInv, DownIdle
<1>29. CASE Crash
  <2>1. (\A b \in Actors : pc'[b] = "idle") /\ exists' = exists /\ executing' = executing
    BY <1>29 DEF Crash, db
  <2>2. QED
    BY <2>1, QuietStep DEF Quiet, InRun, Running
<1>30. CASE RestoreCronjobs
  <2>1. \A b \in Actors : pc'[b] = "idle"
    BY <1>30, <1>2 DEF RestoreCronjobs
  <2>2. QED
    BY <2>1 DEF MutexInv, RunnerHasFlag, NoDoubleRun, DownIdle, InRun, Running
<1>31. CASE UNCHANGED vars
  BY <1>31 DEF vars, MutexInv, RunnerHasFlag, NoDoubleRun, DownIdle, InRun
<1>32. CASE Request
  BY <1>1, <1>32, <1>4, <1>19, <1>20, <1>22, <1>23, QuietStep
     DEF Request, Tick, HandleOnce
<1>33. ASSUME NEW a \in Actors, Step(a) PROVE MutexInv'
  BY <1>27, <1>28, <1>33, <1>5, <1>6, <1>7, <1>8, <1>9, <1>12, <1>13, <1>14,
     <1>15, <1>16, <1>17, <1>18, <1>21, <1>24, <1>25, <1>26, QuietStep DEF Step
<1>34. QED
  BY <1>10, <1>11, <1>29, <1>30, <1>31, <1>32, <1>33, QuietStep DEF Next

\* The runs of one cronjob never overlap, whatever the handlers, requests,
\* failing statements and crashes.
THEOREM MutualExclusion == Spec => []NoDoubleRun
<1>1. Init => MutexInv
  BY MutexInit
<1>2. TypeOK /\ MutexInv /\ [Next]_vars => MutexInv'
  BY MutexStep
<1>3. MutexInv => NoDoubleRun
  BY DEF MutexInv
<1>4. QED
  BY <1>1, <1>2, <1>3, TypeCorrect, PTL DEF Spec

\* The flag of a cronjob that exists covers the whole of its run.
THEOREM FlagCoversRun == Spec => []RunnerHasFlag
<1>1. Init => MutexInv
  BY MutexInit
<1>2. TypeOK /\ MutexInv /\ [Next]_vars => MutexInv'
  BY MutexStep
<1>3. MutexInv => RunnerHasFlag
  BY DEF MutexInv
<1>4. QED
  BY <1>1, <1>2, <1>3, TypeCorrect, PTL DEF Spec
=============================================================================
