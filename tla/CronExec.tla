------------------------------ MODULE CronExec ------------------------------
(***************************************************************************)
(* The execution of cronjobs: CronjobService.HandleJob and what it calls   *)
(* (repo.StartRecord / EndRecord, scheduler.RunJob / exec, the retention   *)
(* pruning), next to the requests that interfere with a run: HandleOnce,   *)
(* HandleStop, Update of retain_copies, ClearRecords, Delete, and a crash  *)
(* followed by RestoreCronjobs.                                            *)
(*                                                                         *)
(* The database has one connection (SetMaxOpenConns(1)), so a statement or *)
(* a transaction is one atomic step; everything between two of them        *)
(* interleaves.  A record's TaskID is as unique as its id and stands for   *)
(* it.  created_at grows with the id, so "newest" means "largest id".      *)
(***************************************************************************)
EXTENDS Integers, Sequences, FiniteSets

CONSTANTS
  Jobs,        \* ids of the cronjobs
  Workers,     \* slots for concurrent HandleJob calls (tick, or manual trigger)
  Admins,      \* slots for concurrent management requests
  Timed,       \* the cronjobs whose timeout is not 0
  Cmds,        \* Cmds[j]: commands one run executes in a row (1, or one per URL)
  Copies,      \* values the user gives retain_copies (0 keeps everything)
  MaxRecords,  \* bound: records ever created
  MaxFaults,   \* bound: failing statements per process lifetime
  MaxCrashes   \* bound: crashes of the process

Actors == Workers \cup Admins

ASSUME ConstantsAssumption ==
  /\ Jobs # {}
  /\ Workers \cap Admins = {}
  /\ Timed \subseteq Jobs
  /\ Cmds \in [Jobs -> Nat]
  /\ Copies \subseteq Nat /\ Copies # {}
  /\ MaxRecords \in Nat /\ MaxFaults \in Nat /\ MaxCrashes \in Nat

VARIABLES
  exists,      \* the rows of table cronjobs
  executing,   \* the rows whose is_executing is true
  retain,      \* column retain_copies
  rec,         \* table job_records: rec[id]; a deleted row has status "removed"
  logs,        \* log/<task>.log files, by the id of their record
  cancel,      \* the keys of Runner.cancel
  done,        \* the contexts of running jobs that are cancelled or timed out
  pc,          \* where each actor is
  loc,         \* the local variables of each actor
  up,          \* the process is running
  faults,      \* failed statements since the process started
  crashes

db == <<exists, executing, retain, rec>>
mem == <<cancel, done>>
env == <<up, crashes>>
vars == <<exists, executing, retain, rec, logs, cancel, done, pc, loc, up, faults, crashes>>

Verdict == {"success", "failed"}
Status == {"waiting", "unexecuted", "removed"} \cup Verdict
Record == [job : Jobs, status : Status, path : BOOLEAN]

\* The labels between the two ends of the is_executing critical section.
Running == {"open", "register", "launch", "exec", "reap", "unregister", "endRecord", "endJob"}
Pruning == {"list", "remove"}
Cleaning == {"clearFiles", "clearRows", "delFiles", "delRows", "delJob"}
Label == {"idle", "get", "start", "skip", "stop"} \cup Running \cup Pruning \cup Cleaning

\* job: cronjob at hand; rec: its record (for Stop: the record whose task is to
\* be stopped); keep: the retain_copies that was read; res: state of the command,
\* then result of the run; left: commands to go; rows, files: what to remove.
Locals ==
  [job : Jobs, rec : Nat, keep : Nat, res : {"", "alive", "success", "failed"},
   left : Nat, rows : SUBSET (Nat \ {0}), files : SUBSET (Nat \ {0})]

NoLocals ==
  [job |-> CHOOSE j \in Jobs : TRUE, rec |-> 0, keep |-> 0, res |-> "", left |-> 0,
   rows |-> {}, files |-> {}]

TypeOK ==
  /\ exists \subseteq Jobs
  /\ executing \subseteq exists
  /\ retain \in [Jobs -> Nat]
  /\ rec \in Seq(Record)
  /\ logs \subseteq Nat
  /\ cancel \subseteq Nat
  /\ done \subseteq Nat
  /\ pc \in [Actors -> Label]
  /\ loc \in [Actors -> Locals]
  /\ up \in BOOLEAN
  /\ faults \in Nat
  /\ crashes \in Nat

----------------------------------------------------------------------------
(* Tables and control. *)

Ids == DOMAIN rec
Rows(j) == {r \in Ids : rec[r].job = j /\ rec[r].status # "removed"}
Newer(r) == {x \in Rows(rec[r].job) : x > r}
InRun(a) == pc[a] \in Running

\* A statement succeeds, or fails with an error the caller handles or drops.
StmtOk == faults' = faults
StmtFails == faults < MaxFaults /\ faults' = faults + 1

Goto(a, l) == pc' = [pc EXCEPT ![a] = l]
Return(a) == Goto(a, "idle") /\ loc' = [loc EXCEPT ![a] = NoLocals]
Row(j, s) == [job |-> j, status |-> s, path |-> FALSE]

\* Mutant: a record is created "running", which no restart looks for.
Insert_Running(j, s) == rec' = Append(rec, Row(j, IF s = "waiting" THEN "running" ELSE s))
Insert(j, s) == rec' = Append(rec, Row(j, s))
Drop(S) == rec' = [r \in Ids |-> IF r \in S THEN [rec[r] EXCEPT !.status = "removed"] ELSE rec[r]]

\* Bound on the model's records: every call under way may still create one.
Budget == Len(rec) + Cardinality({a \in Workers : pc[a] \in {"get", "start", "skip"}}) < MaxRecords

Init ==
  /\ exists = Jobs
  /\ executing = {}
  /\ retain \in [Jobs -> Copies]
  /\ rec = <<>>
  /\ logs = {} /\ cancel = {} /\ done = {}
  /\ pc = [a \in Actors |-> "idle"]
  /\ loc = [a \in Actors |-> NoLocals]
  /\ up = TRUE /\ faults = 0 /\ crashes = 0

----------------------------------------------------------------------------
(* Starting a run. *)

Call(a, j) ==
  /\ up /\ pc[a] = "idle" /\ Budget
  /\ Goto(a, "get")
  /\ loc' = [loc EXCEPT ![a].job = j]
  /\ UNCHANGED <<db, logs, mem, env, faults>>

\* A cron entry of job j fires; HandleJob does not ask whether j still exists.
Tick(a, j) == Call(a, j)

\* The manual trigger looks at is_executing and then starts HandleJob on its own.
HandleOnce(a, j) == j \in exists \ executing /\ Call(a, j)

HandleJobGet(a) ==
  /\ pc[a] = "get"
  /\ LET j == loc[a].job IN
     \/ /\ StmtOk /\ j \in exists
        /\ Goto(a, "start") /\ loc' = [loc EXCEPT ![a].keep = retain[j]]
     \/ /\ StmtOk /\ j \notin exists /\ Return(a)
     \/ /\ StmtFails /\ Return(a)
  /\ UNCHANGED <<db, logs, mem, env>>

\* WHERE id = ? AND is_executing = false
\* Mutant: the update does not ask for is_executing.
Free_Always(j) == j \in exists
Free(j) == j \in exists \ executing

\* The transaction: is_executing is set where it was not, and the waiting record
\* created; no row updated means ErrJobExecuting.
StartRecord(a) ==
  /\ pc[a] = "start"
  /\ LET j == loc[a].job IN
     \/ /\ StmtOk /\ Free(j)
        /\ executing' = executing \cup {j}
        /\ Insert(j, "waiting")
        /\ loc' = [loc EXCEPT ![a].rec = Len(rec) + 1]
        /\ Goto(a, "open")
     \/ /\ StmtOk /\ ~Free(j)
        /\ Goto(a, "skip") /\ UNCHANGED <<executing, rec, loc>>
     \/ /\ StmtFails
        /\ Goto(a, "list") /\ UNCHANGED <<executing, rec, loc>>
  /\ UNCHANGED <<exists, retain, logs, mem, env>>

RecordSkipped(a) ==
  /\ pc[a] = "skip"
  /\ \/ StmtOk /\ Insert(loc[a].job, "unexecuted")
     \/ StmtFails /\ UNCHANGED rec
  /\ Goto(a, "list")
  /\ UNCHANGED <<exists, executing, retain, logs, mem, loc, env>>

\* A log file that cannot be opened ends the run before it has begun.
NewLogWriter(a) ==
  /\ pc[a] = "open"
  /\ \/ /\ StmtOk /\ logs' = logs \cup {loc[a].rec}
        /\ Goto(a, "register") /\ UNCHANGED loc
     \/ /\ StmtFails /\ UNCHANGED logs
        /\ Goto(a, "endRecord") /\ loc' = [loc EXCEPT ![a].res = "failed"]
  /\ UNCHANGED <<db, mem, env>>

----------------------------------------------------------------------------
(* RunJob and exec. *)

RegisterCancel(a) ==
  /\ pc[a] = "register"
  /\ cancel' = cancel \cup {loc[a].rec}
  /\ loc' = [loc EXCEPT ![a].left = Cmds[loc[a].job]]
  /\ Goto(a, "launch")
  /\ UNCHANGED <<db, logs, done, env, faults>>

Finished(a, v) ==
  /\ Goto(a, "unregister")
  /\ loc' = [loc EXCEPT ![a].res = v, ![a].left = 0]

\* The next command: none left, started, or not (script file not written, no
\* executor; os/exec refuses to start under a context that is done).
Launch(a) ==
  /\ pc[a] = "launch"
  /\ \/ loc[a].left = 0 /\ Finished(a, "success")
     \/ /\ loc[a].left > 0 /\ loc[a].rec \notin done
        /\ Goto(a, "exec") /\ loc' = [loc EXCEPT ![a].res = "alive"]
     \/ loc[a].left > 0 /\ Finished(a, "failed")
  /\ UNCHANGED <<db, logs, mem, env, faults>>

\* The command's process ends, with exit status 0 or another.
ProcessExit(a) ==
  /\ pc[a] = "exec" /\ loc[a].res = "alive"
  /\ \E v \in Verdict : loc' = [loc EXCEPT ![a].res = v]
  /\ UNCHANGED <<db, logs, mem, pc, env, faults>>

Timeout(a) ==
  /\ pc[a] \in {"launch", "exec"} /\ loc[a].job \in Timed /\ loc[a].rec \notin done
  /\ done' = done \cup {loc[a].rec}
  /\ UNCHANGED <<db, logs, cancel, pc, loc, env, faults>>

\* case err := <-done; curl goes on to the next URL
ReceiveExit(a) ==
  /\ pc[a] = "exec" /\ loc[a].res \in Verdict
  /\ IF loc[a].res = "success" /\ loc[a].left > 1
     THEN /\ Goto(a, "launch")
          /\ loc' = [loc EXCEPT ![a].res = "", ![a].left = @ - 1]
     ELSE Finished(a, loc[a].res)
  /\ UNCHANGED <<db, logs, mem, env, faults>>

\* case <-ctx.Done(): SIGKILL for the process group
\* Mutant: the context is looked at only once the command has ended.
ReceiveDone_AfterExit(a) ==
  /\ pc[a] = "exec" /\ loc[a].rec \in done /\ loc[a].res \in Verdict
  /\ Goto(a, "reap")
  /\ UNCHANGED <<db, logs, mem, loc, env, faults>>

ReceiveDone(a) ==
  /\ pc[a] = "exec" /\ loc[a].rec \in done
  /\ Goto(a, "reap")
  /\ UNCHANGED <<db, logs, mem, loc, env, faults>>

\* The process is reaped, or is not within 5 seconds: ctx.Err() either way.
\* Mutant: no 5 second limit, and a process that survives SIGKILL (state D).
Reap_NoLimit(a) ==
  /\ pc[a] = "reap" /\ loc[a].res \in Verdict /\ Finished(a, "failed")
  /\ UNCHANGED <<db, logs, mem, env, faults>>

Reap(a) ==
  /\ pc[a] = "reap" /\ Finished(a, "failed")
  /\ UNCHANGED <<db, logs, mem, env, faults>>

UnregisterCancel(a) ==
  /\ pc[a] = "unregister"
  /\ cancel' = cancel \ {loc[a].rec}
  /\ done' = done \ {loc[a].rec}
  /\ Goto(a, "endRecord")
  /\ UNCHANGED <<db, logs, loc, env, faults>>

----------------------------------------------------------------------------
(* EndRecord: two statements, whose errors are dropped. *)

\* Mutant: the record is saved whole, which brings a removed row back.
Settled_Saved(r, v) == [rec EXCEPT ![r].status = v, ![r].path = TRUE]
Settled(r, v) ==
  IF rec[r].status = "removed" THEN rec
  ELSE [rec EXCEPT ![r].status = v, ![r].path = TRUE]

EndRecord(a) ==
  /\ pc[a] = "endRecord"
  /\ \/ StmtOk /\ rec' = Settled(loc[a].rec, loc[a].res)
     \/ StmtFails /\ UNCHANGED rec
  /\ Goto(a, "endJob")
  /\ UNCHANGED <<exists, executing, retain, logs, mem, loc, env>>

EndJob(a) ==
  /\ pc[a] = "endJob"
  /\ \/ StmtOk /\ executing' = executing \ {loc[a].job}
     \/ StmtFails /\ UNCHANGED executing
  /\ Goto(a, "list")
  /\ UNCHANGED <<exists, retain, rec, logs, mem, loc, env>>

----------------------------------------------------------------------------
(* removeExpiredLog: the newest keep + 1 records are listed, those beyond  *)
(* the first keep are removed.                                             *)

\* Mutant: oldest first.
Expired_Ascending(j, k) == {r \in Rows(j) : Cardinality({x \in Rows(j) : x < r}) = k}
Expired(j, k) == {r \in Rows(j) : Cardinality(Newer(r)) = k}

PruneList(a) ==
  /\ pc[a] = "list"
  /\ LET old == Expired(loc[a].job, loc[a].keep) IN
     \/ /\ StmtOk /\ loc[a].keep > 0 /\ old # {}
        /\ Goto(a, "remove")
        /\ loc' = [loc EXCEPT ![a].rows = old, ![a].files = {r \in old : rec[r].path}]
     \/ StmtOk /\ (loc[a].keep = 0 \/ old = {}) /\ Return(a)
     \/ StmtFails /\ loc[a].keep > 0 /\ Return(a)
  /\ UNCHANGED <<db, logs, mem, env>>

\* The log file goes first, then the row, whatever became of the file.
PruneRemove(a) ==
  /\ pc[a] = "remove"
  /\ logs' = logs \ loc[a].files
  /\ \/ StmtOk /\ Drop(loc[a].rows)
     \/ StmtFails /\ UNCHANGED rec
  /\ Return(a)
  /\ UNCHANGED <<exists, executing, retain, mem, env>>

----------------------------------------------------------------------------
(* Management requests. *)

\* Mutant: Update saves the row it read, is_executing included.
UpdateCopies_SavesRow(a, j, k) ==
  /\ up /\ pc[a] = "idle" /\ j \in exists
  /\ retain' = [retain EXCEPT ![j] = k]
  /\ executing' \in {executing, executing \ {j}}
  /\ loc' = [loc EXCEPT ![a].job = j, ![a].keep = k]
  /\ Goto(a, "list")
  /\ UNCHANGED <<exists, rec, logs, mem, env, faults>>

\* Update, as far as the history is concerned: the new retain_copies is written
\* and the history pruned once with it.
UpdateCopies(a, j, k) ==
  /\ up /\ pc[a] = "idle" /\ j \in exists
  /\ retain' = [retain EXCEPT ![j] = k]
  /\ loc' = [loc EXCEPT ![a].job = j, ![a].keep = k]
  /\ Goto(a, "list")
  /\ UNCHANGED <<exists, executing, rec, logs, mem, env, faults>>

\* HandleStop reads the newest record of the job ...
HandleStop(a, j) ==
  /\ up /\ pc[a] = "idle"
  /\ \E r \in Rows(j) :
       /\ Newer(r) = {}
       /\ loc' = [loc EXCEPT ![a].job = j, ![a].rec = r]
  /\ Goto(a, "stop")
  /\ UNCHANGED <<db, logs, mem, env, faults>>

\* ... and cancels its task, if the runner knows it.
RunnerStop(a) ==
  /\ pc[a] = "stop"
  /\ done' = done \cup ({loc[a].rec} \cap cancel)
  /\ Return(a)
  /\ UNCHANGED <<db, logs, cancel, env, faults>>

ClearRecords(a, j) ==
  /\ up /\ pc[a] = "idle"
  /\ loc' = [loc EXCEPT ![a].job = j]
  /\ Goto(a, "clearFiles")
  /\ UNCHANGED <<db, logs, mem, env, faults>>

Delete(a, j) ==
  /\ up /\ pc[a] = "idle" /\ j \in exists
  /\ loc' = [loc EXCEPT ![a].job = j]
  /\ Goto(a, "delFiles")
  /\ UNCHANGED <<db, logs, mem, env, faults>>

\* cleanRecord lists the records and removes their files (a failed list is an
\* empty one) ...
CleanFiles(a) ==
  /\ \/ pc[a] = "clearFiles" /\ Goto(a, "clearRows")
     \/ pc[a] = "delFiles" /\ Goto(a, "delRows")
  /\ \/ StmtOk /\ logs' = logs \ {r \in Rows(loc[a].job) : rec[r].path}
     \/ StmtFails /\ UNCHANGED logs
  /\ UNCHANGED <<db, mem, loc, env>>

\* ... and then the rows.
CleanRows(a) ==
  /\ pc[a] \in {"clearRows", "delRows"}
  /\ \/ /\ StmtOk /\ Drop(Rows(loc[a].job))
        /\ IF pc[a] = "delRows" THEN Goto(a, "delJob") /\ UNCHANGED loc ELSE Return(a)
     \/ StmtFails /\ UNCHANGED rec /\ Return(a)
  /\ UNCHANGED <<exists, executing, retain, logs, mem, env>>

DeleteJob(a) ==
  /\ pc[a] = "delJob"
  /\ \/ /\ StmtOk
        /\ exists' = exists \ {loc[a].job}
        /\ executing' = executing \ {loc[a].job}
     \/ StmtFails /\ UNCHANGED <<exists, executing>>
  /\ Return(a)
  /\ UNCHANGED <<retain, rec, logs, mem, env>>

----------------------------------------------------------------------------
(* Crash, and the restart's RestoreCronjobs, before anything is scheduled. *)

Crash ==
  /\ up /\ crashes < MaxCrashes
  /\ up' = FALSE /\ crashes' = crashes + 1
  /\ cancel' = {} /\ done' = {}
  /\ pc' = [a \in Actors |-> "idle"]
  /\ loc' = [a \in Actors |-> NoLocals]
  /\ UNCHANGED <<db, logs, faults>>

\* Mutants: is_executing is not reset; interrupted records are left waiting;
\* every record is marked interrupted.
FlagsAfterRestart_Kept == executing
FlagsAfterRestart == {}

AfterRestart_Kept(s) == s
AfterRestart_All(s) == IF s = "removed" THEN s ELSE "failed"
AfterRestart(s) == IF s = "waiting" THEN "failed" ELSE s

Interrupted == [r \in Ids |-> [rec[r] EXCEPT !.status = AfterRestart(@)]]

\* The errors of its two updates are dropped: either may have no effect.
RestoreCronjobs ==
  /\ ~up /\ up' = TRUE
  /\ \/ faults' = 0 /\ executing' = FlagsAfterRestart /\ rec' = Interrupted
     \/ /\ MaxFaults > 0 /\ faults' = 1
        /\ executing' \in {executing, FlagsAfterRestart}
        /\ rec' \in {rec, Interrupted}
  /\ UNCHANGED <<exists, retain, logs, mem, pc, loc, crashes>>

----------------------------------------------------------------------------
\* What the program's goroutines do on their own, once called.
Step(a) ==
  \/ HandleJobGet(a) \/ StartRecord(a) \/ RecordSkipped(a) \/ NewLogWriter(a)
  \/ RegisterCancel(a) \/ Launch(a) \/ ReceiveExit(a) \/ ReceiveDone(a) \/ Reap(a)
  \/ UnregisterCancel(a) \/ EndRecord(a) \/ EndJob(a)
  \/ PruneList(a) \/ PruneRemove(a)
  \/ RunnerStop(a) \/ CleanFiles(a) \/ CleanRows(a) \/ DeleteJob(a)

Request ==
  \/ \E a \in Workers, j \in Jobs : Tick(a, j) \/ HandleOnce(a, j)
  \/ \E a \in Admins, j \in Jobs :
       HandleStop(a, j) \/ ClearRecords(a, j) \/ Delete(a, j)
         \/ \E k \in Copies : UpdateCopies(a, j, k)

Next ==
  \/ Request
  \/ \E a \in Actors : Step(a) \/ ProcessExit(a) \/ Timeout(a)
  \/ Crash
  \/ RestoreCronjobs

Spec == Init /\ [][Next]_vars

\* Goroutines are scheduled, timers fire, systemd restarts the service
\* (Restart= in its unit).  Nothing makes a command end, nor a user ask.
Fairness ==
  /\ \A a \in Actors : WF_vars(Step(a)) /\ WF_vars(Timeout(a))
  /\ WF_vars(RestoreCronjobs)

FairSpec == Spec /\ Fairness
----------------------------------------------------------------------------
(* Properties. *)

\* A manual trigger and a scheduled tick, or two ticks, never execute the same
\* cronjob at the same time, even if it is deleted or its history cleared while
\* it runs (the promise above ErrJobExecuting, repo/cronjob.go).
NoDoubleRun ==
  \A a, b \in Actors : InRun(a) /\ InRun(b) /\ loc[a].job = loc[b].job => a = b

\* is_executing is true as long as the run of a cronjob that still exists is not
\* over: StartRecord's compare-and-set may rely on it.
RunnerHasFlag ==
  \A a \in Actors : InRun(a) /\ loc[a].job \in exists => loc[a].job \in executing

\* is_executing is never left behind by a finished, skipped, failed, stopped or
\* interrupted run, which would block the cronjob for good, unless a statement
\* failed in this lifetime of the process.
FlagHasRunner ==
  up /\ faults = 0 => \A j \in executing : \E a \in Actors : InRun(a) /\ loc[a].job = j

\* A record that says "waiting" has a run that will settle it: the log view polls
\* it and RestoreZip refuses to start while there is one.
WaitingHasRunner ==
  up /\ faults = 0 =>
    \A r \in Ids : rec[r].status = "waiting" =>
      \E a \in Actors : InRun(a) /\ pc[a] # "endJob" /\ loc[a].rec = r

\* What the history once said about a run is never rewritten: only a waiting
\* record gets a verdict, and a record otherwise changes by being removed.
VerdictFinal ==
  [][\A r \in Ids : rec[r].status # "waiting" =>
       rec'[r].status \in {rec[r].status, "removed"}]_vars

\* Pruning takes a record only if at least as many newer ones of the same cronjob
\* stay as the user ever allowed (with one value of retain_copies, exactly that
\* value), however many prunings overlap.
PruneKeepsNewest ==
  [][\A a \in Actors : pc[a] = "remove" =>
       \A r \in loc[a].rows \cap Ids :
         rec[r].status # "removed" /\ rec'[r].status = "removed" =>
           \E k \in Copies \ {0} : Cardinality(Newer(r)) >= k]_vars

\* The history RunLedger promises: owner is the run inside the critical section.
RunOf(j) == {loc[a].rec : a \in {b \in Actors : InRun(b) /\ loc[b].job = j}}

Ledger == INSTANCE RunLedger WITH
  Ids <- 1..MaxRecords,
  owner <- [j \in Jobs |-> IF RunOf(j) = {} THEN 0 ELSE CHOOSE r \in RunOf(j) : TRUE],
  verdict <- [r \in 1..MaxRecords |-> IF r \in Ids THEN rec[r].status ELSE "none"],
  serving <- up,
  faulty <- faults > 0

\* Executions, seen only through the history and who holds a cronjob, are those
\* of RunLedger.
ImplementsLedger == Ledger!LedgerSpec

\* A cronjob with a timeout always becomes free again, whatever its command does.
RunEnds == \A j \in Timed : j \in executing ~> j \notin executing

\* A run whose context was cancelled, by a stop or a timeout, leaves the runner
\* even if its process ignores everything.
StopEnds == \A r \in 1..MaxRecords : r \in done ~> r \notin cancel

\* README.md:501 (stop the executing task): a stop that is asked for while a run
\* of the cronjob is registered with the runner is aimed at that run.
StopReachesRun ==
  [][\A a \in Admins, w \in Workers :
       /\ pc[a] = "idle" /\ pc'[a] = "stop"
       /\ InRun(w) /\ loc[w].rec \in cancel /\ loc[w].job = loc'[a].job
       /\ rec[loc[w].rec].status # "removed"
       => loc'[a].rec = loc[w].rec]_vars

\* README.md:540 (retainCopies: number of execution records kept, 0 for all):
\* when nothing is going on, a cronjob has no more records than that.
RetainLimit ==
  (\A a \in Actors : pc[a] = "idle") =>
    \A j \in exists : retain[j] > 0 => Cardinality(Rows(j)) <= retain[j]
=============================================================================
