# 2Panel: verification

TLA+ models of the 2panel server, the TLC configurations that check them on
small instances, and proofs TLAPS checks. Line numbers are those of the Go
sources; `service/`, `repo/`, `scheduler/`... stand for `src/internal/...`.

## 1. Inventory

2panel is one process: an HTTP server on a SQLite database, an in-memory cron
(robfig/cron), inotify watchers, and the commands it starts. Handlers, cron
entries, watcher loops and runs are goroutines. The database has **one pooled
connection** (`database/database.go:40`), so a statement or a transaction is
atomic, and everything between two of them interleaves.

| Component | State | Operations | Interacts through | What must hold |
|---|---|---|---|---|
| Cronjob execution (`service/cronjob.go`, `repo/cronjob.go`, `scheduler/scheduler.go`) | `cronjobs.is_executing`, `job_records`, log files, `Runner.cancel`, contexts | HandleJob, HandleOnce, HandleStop, StartRecord, EndRecord, RunJob/exec, removeExpiredLog, cleanRecord, RestoreCronjobs | cron calls HandleJob; requests and runs share rows, files and the cancel map | no double run; the flag and the waiting record are never left behind; verdicts are final; retention; runs with a timeout end; a stop reaches the run |
| Scheduling registry (same files) | `cronjobs.status`, `spec`, `entry_ids`; cron's entries and id counter | Create, Update, UpdateStatus, Delete, Import, Register, Remove, ResetEntries, RestoreCronjobs | rows name entries by id; ids die with the process, rows do not | enabled = scheduled, disabled = silent; nobody removes another job's entries; the restart rebuilds exactly the enabled jobs |
| Schedules (`NormalizeEverySpec`, `nextRunTime`, `validateSpec`) | none | parse, normalise, preview | used by Register, Create, the list view | preview is the sorted set of the next times; what is validated can be registered |
| Execution log (`scheduler/log_writer.go`, `ReadRecordLogTail`, `LoadRunLog`) | log file, 256 KiB buffer | Write, tail by offset | writer goroutine, polling reader | nothing lost or repeated between polls; the buffer is what its comment says |
| File watch tasks (`scheduler/watcher.go`, `service/filewatch.go`) | `file_watches`, their records, `WatchManager.entries`, `lastSeen`, retry goroutines | Create, Update, UpdateStatus, Delete, HandleWatch, Start, Stop, StopAll, loop, retryAdd, RestoreFilewatches | inotify events, HandleWatch starts runs | enabled = watching; one live watcher per task; closed watchers leak nothing; records get a verdict |
| Script runs (`service/script_library.go`) | `script_records`, `scriptRunner.cancel`, logs | Run, StopRun, pruning to 200, ClearRecords, RestoreScriptRecords | front end polls by task id | a record never stays waiting; pruning spares what runs |
| Restore of a backup (`service/backup.go`) | all tables, data files, staging and rollback directories, the registry, the watchers | RestoreZip, ensureIdle, pruning of earlier leftovers, snapshot, file moves, swap, re-registration | stops and restarts the two schedulers, excludes runs | all or nothing; what was scheduled stays scheduled when it fails; no run straddles the swap |
| Online upgrade (`upgrade/upgrade.go`) | `st`, the binary, its backup | Perform, Restart, doUpgrade, restartService | replaces and restarts the process | one at a time; the binary is old or new, never torn |
| Authentication (`service/auth.go`) | settings, tokens, failed attempts | InitAuth, Login, VerifyToken, Logout, ChangePassword, sweeper | every request | expired tokens go away; lock-out; no half-initialised account |
| Groups, settings, notifications (`service/group.go`, `notify.go`, `notify/bark.go`) | `groups`, `settings`, configuration in memory | Create/Update/Delete, SaveConfig, InitNotify | database and memory copies | one default group per type; memory equals database |
| Built-in scripts (`service/script_seed.go`) | seed version setting, library | SeedGroups, SeedScripts | start-up | a deleted script stays deleted; edited ones are not overwritten |
| Restore on the command line (`backup_restore.go`) | the data directory, directories renamed away | cmdRestore, stopInstanceUsingDataDir, unzipDir | a server that writes the same files, systemd that starts it again | nothing is overwritten; success means the archive's data |
| HTTP layer, other commands, console, accounts, web page, installers | none of their own | decode, call, encode | the services | not modelled: pure I/O |

Hard behaviours: many triggers for one job; requests that work on a row they
read earlier; errors that are dropped (`_ =`) on purpose; a crash between any two
statements, with systemd restarting the service; memory (entry ids, cancel
functions, watchers) that dies while the rows that refer to it survive; a
command that does not end, or not even after SIGKILL. `PROJECT.json` lists every
hazard at its line, with the properties that cover it.

## 2. Modules

| Module | Models |
|---|---|
| `RunLedger` | abstract: what the execution side promises about the history (runs of a job do not overlap, one verdict each, given before the job is free, final; a restart fails what was cut short) |
| `CronExec` | cronjob execution, in full; shown to implement `RunLedger` |
| `CronSchedule` | the scheduling registry, in full |
| `FileWatch` | file watch tasks: rows, the WatchManager, requests, events, runs, the restart |
| `WatchRoots` | inside one watcher: its paths, the event loop, the debounce window, retryAdd |
| `Restore` | RestoreZip against rows, files, both schedulers and the runs |
| `ScriptRun` | script runs: records, cancel functions, pruning, the restart |
| `LogTail` | a log that grows, its verdict and the page that polls for both |
| `Upgrade` | the online upgrade: Perform, doUpgrade, Restart, the files, the restart |
| `Auth` | creation of the account, change of its password, the lock after failed logins |
| `Seeds` | built-in scripts over starts, releases and what users do |
| `Settings` | the default group; the configuration of notifications in database and memory |
| `CliRestore` | restore on the command line |
| `Preview` | the next run times shown, against those at which cron runs |
| `Services` | `Upgrade`, `Auth`, `Seeds`, `Settings` and `CliRestore` side by side, each under a name of its own |
| `CronExecProofs`, `CronHistoryProofs` | TLAPS proofs about `CronExec`: the flag and mutual exclusion; the history, its pruning and the refinement of `RunLedger` |
| `CronScheduleProofs` | proofs about `CronSchedule`: whose entries are removed, enabled is scheduled, the ids of rows are live, a restart is exact |
| `FileWatchProofs`, `RestoreProofs`, `PreviewProofs` | proofs about the module each is named for |
| `FollowProofs` | proofs about what is followed while it changes: `ScriptRun`, `LogTail`, `WatchRoots` |
| `ServicesProofs` | proofs about the components of `Services`, and about the types in `MCServices` |
| `MCCronExec`, `MCCronSchedule`, `MCFileWatch`, `MCRestore` | constants, symmetries and bounds for TLC |
| `MCServices` | ten of the smaller components in one run |

### CronExec

Actors are slots: `Workers` for goroutines in HandleJob (however they were
called), `Admins` for management requests. `pc[a]` is the place in the code,
`loc[a]` the local variables that matter later (the retain_copies read at the
beginning, the record, the state of the command, lists to be removed).

| Code | Actions |
|---|---|
| cron entry, `HandleOnce` | `Tick`, `HandleOnce` (looks at is_executing, then starts HandleJob) |
| `HandleJob`, `StartRecord`, `recordSkipped` | `HandleJobGet`, `StartRecord` (one transaction), `RecordSkipped`, `NewLogWriter` |
| `RunJob`, `runShell`/`runCurl`, `exec` | `RegisterCancel`, `Launch`, `ProcessExit`, `Timeout`, `ReceiveExit`, `ReceiveDone`, `Reap`, `UnregisterCancel` |
| `EndRecord` | `EndRecord`, `EndJob` (two statements, errors dropped) |
| `removeExpiredLog` | `PruneList`, `PruneRemove` |
| `Update` (retention), `HandleStop`, `ClearRecords`, `Delete` | `UpdateCopies`, `HandleStop` + `RunnerStop`, `ClearRecords`, `Delete`, then `CleanFiles`, `CleanRows`, `DeleteJob` |
| crash, `RestoreCronjobs` | `Crash`, `RestoreCronjobs` |

A statement may fail (`StmtFails`, bounded per process lifetime by `MaxFaults`),
with the branch the code takes then; the two updates of `RestoreCronjobs` drop
their errors, so either may leave what it should have cleared. Abstractions: a record's TaskID is its id;
`created_at` grows with the id (as the comment at `repo/cronjob.go:155` says); the
contents of commands, logs, messages and times are left out; `DelayIfStillRunning`
is left out, because HandleJob returns as soon as it has started the run, so the
wrapper orders at most the few statements before it: the model has more
interleavings than the code, never fewer. A command may start or fail to start,
end with success or failure at any time, or never end.

### CronSchedule

Rows (`row`), entries (`entries`, with ids counting from 1 in every process) and
concurrent requests, each a sequence of steps: read the row, Register, Remove,
write the row. A spec is the number of its `&&` parts; blank specs, which
`validateSpec` lets through, have none and are refused by Register. A restart
registers the enabled rows one by one before requests are served (`main.go`).
Cronjobs are identified by id. Of names only this matters: Update writes the one it was
sent unchecked, and the unique index refuses that of another cronjob (`UpdateRow`), after the
entries were exchanged; `refused` remembers whose row that happened to last, `alone` whether two requests ever overlapped. Create and Import
look first, and a name taken meanwhile is refused by the same index (`CreateRow`). ResetEntries
belongs to the restore of a backup.

### FileWatch and WatchRoots

`FileWatch` has the rows (`row`), `WatchManager.entries` (`reg`: the id of the
registered watcher), all watchers whose loop has not ended (`watchers`, each open or
closed, with the configuration it was started with), requests (`pc`, `loc`), calls of
HandleWatch and the runs they start. Stop takes a watcher out of the map under
the lock (`Forget`) and closes it after (`Close`), so another request may come
between. `Register` is Start, which may fail before anything is registered
(`StartFails`: the previous watcher is closed then and stays in the map).

| Code | Actions |
|---|---|
| Create, Update, UpdateStatus, Delete | the action of that name (the read and its early returns), then `Register`, `Forget`, `Close`, `WriteConf`, `WriteStatus`, `Prune`, `CleanRecords`, `DeleteRow` as the branch demands |
| an event, HandleOnce, HandleWatch | `Event`, `HandleOnce`, `HandleGet`, `HandleCreate`, `RunEnds`, `RunPrunes` |
| end of a loop | `LoopEnds` |
| crash, RestoreFilewatches | `Crash`, `Boot`, `RestoreFilewatch`, `Serve` |

A name that is taken makes the unique index refuse the update (`clashes`).
`alone` records whether two requests have overlapped since the start. HandleOnce is always
possible, as in the code, and events come while runs are under way, so runs of one task
overlap. The restart leaves waiting records as they are.
What HandleWatch executes is RunJob again, CronExec's subject: here a run is
in `exec`, then prunes, then is gone.

`WatchRoots` opens one watcher. inotify is external: what is at a path can be
watched, the watch ends with it and says so in an event. An event is handled in one
step of `Loop`: match, debounce, and, for a removal or rename of a configured root,
a goroutine that adds it again. `RetryAdd` is one turn of that goroutine (all its
paths that exist are added, it ends when none is left or the watcher is closed).

### Restore

Data is told apart by where it comes from: `Now` or one of the requests' backups.
`rows` is the database, `data[p]` each top-level entry of the data directory,
`backup[r]` the rollback directory, `entries` whose tasks the schedulers have. `running` is
what really runs, `pending` what the tables say runs, of which ensureIdle counts all; the two
part when records are cleared or a cronjob is deleted (`Erase`: `erased` remembers under which
runs), after a crash, and when the rows of a backup that was taken during runs come in
(`left` is a file watch record no run is going to settle). `kept` and `stagings` are the directories
crashes left, of which `Snapshot` prunes: any two or more stay, because their
names are random; the staging directory of the restore itself may go (`lost`).

| Code | Actions |
|---|---|
| RestoreZip | `RestoreZip` (up to the staging), `Reset`, `EnsureIdle`, `Snapshot`, `MoveOut`, `MoveIn`, `Commit`, `Undo` and `MoveBack` (with their dropped errors), `Register` |
| runs, requests | `StartRun`, `EndRun`, `ClearRecords`, `DeleteCronjob`, `Edit` |
| crash, start | `Crash`, `Restart` |

The moves of one moveDataEntries are one step that may stop after any of them. One restore at a
time (see section 6).

### ScriptRun, LogTail, Upgrade, Auth, Seeds, Settings, CliRestore, Preview

* `ScriptRun`: goroutines are records `[id, script, at, outcome, doomed]`; the stages are
  those of Run and runScript in their order, each statement or critical section a step.
  `Killed` is the context's branch of the select with its 5 second limit.
* `LogTail`: a log is a number of lines, `offset` what the page believes it has. A poll
  reads the record, then the size, then the content, then answers, and the page's
  timer asks again without waiting. For scripts the verdict follows the last line; for
  cronjobs it precedes it.
* `Upgrade`: releases are numbers, 0 bytes of none. `file[u]` is the temporary file of a
  goroutine, `bak` and `binary` the files on the disk. `RestartService` hands the kill to
  systemctl or a helper, whose outcome the code drops.
* `Auth`: InitAuth's four settings one after the other; a request is past the lock or
  not, then compares, then counts or clears.
* `Seeds`: contents are `none`, `old` and `new` (built-in, of a release) and `users`. A start
  reads the marks, seeds and refreshes one script after another, writes the marks.
* `Settings`: CancelDefault and the write of the group are two statements; SaveConfig
  writes the database, then memory; a restore or a start reads it back. Every start runs
  `SeedGroups`, whose read and write may fail; a restore replaces the groups by those of
  the backup, with one default at most.
* `CliRestore`: stop the unit, kill what uses the directory, rename, create, unzip file by
  file; a unit may be started again by systemd in between, and the server that runs writes.
  A server is a unit or not (`unit`), and found by its command line or not (`findable`).
* `Preview`: an operator, checked over bounded inputs and proved for all: `NextRunTime` is the
  code's, `Firings` the times at which the library would run the parts. A second has two ticks,
  so that intervals below and across whole seconds are among the inputs.

### MCServices

These ten share no state with each other, so their product teaches nothing.
`focus` picks one of them in the initial state; only that one moves, the others stay in one
initial state. A behaviour of the run is a behaviour of one component, and the reachable
states are the sum, not the product. Each property is stated in its component's module.
`Restore`, `WatchRoots`, `ScriptRun`, `LogTail`, `Preview` and `Services` are extended, so that what is
checked is what the proof modules speak of; `Services` repeats the names of its five components'
properties.

## 3. Runs

| Run | Shows | Bounds | States |
|---|---|---|---|
| `exec_safety` | types; `NoDoubleRun`, `RunnerHasFlag` (the flag covers the run), `FlagHasRunner` and `WaitingHasRunner` (no flag or waiting record is left behind), `VerdictFinal`, `ImplementsLedger`, `PruneKeepsNewest` (overlapping prunings and a changing retain_copies never take a record the setting protects) | 1 job, 2 handlers, 1 request, 2 records, retain_copies 0 or 1, 1 failing statement per lifetime, 1 crash | 613 662 |
| `exec_live` | `RunEnds`, `StopEnds` | 2 commands per run (curl with two URLs), 2 records, 1 crash | 95 885 |
| `stop_after_skip` | violated `StopReachesRun` | 3 records | – |
| `retain_lowered` | violated `RetainLimit` | 1 handler, 3 records | – |
| `sched` | types; `EnabledIsScheduled`, `RemovesOwn` under overlapping requests; `RecordedAreLive`, `RestartIsExact` with requests one at a time | 2 jobs, 1 failing statement per lifetime, any name may be taken, registering requests begin while fewer than 3 ids were given; either 2 requests, specs of 0 or 1 part and no crash, or 1 request, specs of up to 2 parts and 2 crashes | 4 069 858 |
| `disabled_fires` | violated `DisabledIsSilent` | 1 job, 1 request | – |
| `alias_after_restart` | violated `EnabledIsScheduled` | 2 jobs, 2 requests, 1 crash | – |
| `watch` | types; `NoLeak` (an open watcher is registered or about to be closed), `EnabledIsWatched` under overlapping requests; `WaitingHasRun` (a run settles its own record and no other; what waits in this process has a run) with runs that overlap | 1 task, 2 watchers started by requests, retain_copies 1, 1 failure per lifetime, 1 crash; either 2 requests, 2 configurations and 1 record, or 1 request, 1 configuration and 3 records | 2 884 941 |
| `watch_lost` | violated `KeyTellsWatching` | 2 tasks, 1 request, 1 taken name | – |
| `services` | see below | see `services.cfg` | 553 253 |
| `refused` | violated `RefusedKeepsSchedule` | 2 restores one after the other, 2 entries of the data directory, 1 failure, 1 crash | – |
| `swap_under_run` | violated `NoSwapUnderAnyRun` | the same, nothing fails | – |

What `services` shows, by component:

| Component | Properties | Case the bounds let happen |
|---|---|---|
| Restore | `WholeData` (one thing may go wrong and rows and files still agree), `NoSwapUnderRecordedRun` (the rows are not replaced under a run, unless what told of it was deleted), `NothingLost` (wherever restores are cut short, the files that go with the rows are on the disk, whatever the next one prunes) | a restore after a restore; a failing move, and a failing roll-back; a run that begins after ensureIdle; records cleared and cronjobs deleted at any place; two crashes, the second while nothing else runs or has failed |
| WatchRoots | `UnwatchedIsKnown`, `WatchedAgain`, `ClosedEnds` | two paths that vanish, come back and are replaced while the loop is behind by two events |
| ScriptRun | `ScriptPendingIsRun`, `ScriptHistoryIsBounded`, `ScriptStopEnds` | two runs, one record kept: prunings overlap, a run's own record is pruned; a stop at any place |
| LogTail | `TailShowsAll` | polls overtake each other and the verdict |
| Upgrade | `ReplacedIsKept`, `BusyIsUnderWay` | two upgrades and two restarts, a release published in between, a torn .bak |
| Auth | `AccountIsSound`, `FailuresAreBounded` | start-up cut short after each setting; two logins past the lock together |
| Seeds | `UsersChangesStay`, `SeedingIsComplete` | an update to a release that revises one script and adds another, cut short |
| Settings | `DefaultIsUnique`, `StoredIsEffective` | two updates of the default at once; a failing second statement; a start that cannot read the groups |
| CliRestore | `CliRestoreIsSafe` | a second restore after an interrupted one; a unit that starts again; a server that is not found |
| Preview | `PreviewIsNextRuns` | all pairs of intervals and expressions that collide in a second |

Why the bounds are enough. One cronjob suffices in CronExec: no action of one job
reads or writes anything of another (flag, records, files and cancel keys are per
job or per record), and the proofs cover any number. Two handlers and a request are what any pair-wise conflict needs;
two records are a run and a second run or a skipped tick, three a pruning that
has a choice (with retain_copies 0 and 1, two do). Two crashes let damage of one lifetime meet the recovery of the
next and the one after. `MaxRecords` is enforced where a call begins (`Budget`),
so that every call under way can finish. In CronSchedule two jobs are needed for
an id that passes from one to the other and two requests for every read-then-write
race; requests that register nothing are never held back by the bound. `MCCronSchedule` and
`MCFileWatch` choose a `regime` in the initial state: requests overlap, or something else does (restarts, runs). What needs
both is `alias_after_restart`, which uses `Spec` as it is. In FileWatch
tasks meet only in the ids of watchers, which are never reused in a process, and in
the unique name (`watch_lost` has two tasks for that); two requests and two
configurations make every race on one row, its map entry and its watcher; a request that
starts none is not held back. Three records in `watch` are two runs that overlap and one whose
record a pruning has taken. In Restore two restores and two crashes let a restore meet what two
others left, the least of which pruning has a choice; more are for the proof. `watch` has no taken name, because `MaxClashes`
concerns `EnabledIsWatched` only through its premise.

Premises. Every property that holds only under a condition says so in its formula; the conditions are:
* Nothing failed. `faults = 0` (since the start of the process) in `FlagHasRunner`, `WaitingHasRunner`,
  `EnabledIsScheduled`, `RecordedAreLive`, `RestartIsExact`, `EnabledIsWatched`, the second half of `WaitingHasRun`,
  `ScriptPendingIsRun`, `ScriptHistoryIsBounded` (and no crash), `NoSwapUnderRecordedRun`, `BusyIsUnderWay`,
  `SeedingIsComplete`, the second half of `UsersChangesStay` (the step itself): with a failing statement
  whose error the code drops they are false, which is a hazard on the list and not a bug
  report. `StoredIsEffective` allows a failed read its fallback; the half of `AccountIsSound` about
  the default password, and that of `CliRestoreIsSafe` about success, assume that no call failed (and no crash,
  for the account). `faults <= 1` in `WholeData` and `NothingLost`: a failing move whose roll-back fails too loses
  agreement, and the code says it drops that error.
* Nothing was refused for a taken name. `clashes = 0` in `EnabledIsWatched`, `refused` in `RecordedAreLive`:
  what a refusal leaves is in `watch_lost` and below.
* Requests did not overlap. `alone` in `EnabledIsWatched`, `RecordedAreLive` and `RestartIsExact`, `overlapped` in `StoredIsEffective`; `several` in
  `DefaultIsUnique` leaves out what follows requests that give the default at a time, or a start that added one.
  The code takes no lock across a request, and overlapping edits of one row are last-writer-wins; what must
  hold even then is in `EnabledIsScheduled`, `RemovesOwn`, `NoLeak` and `WaitingHasRun`.
* What is behind was left by this process. `r.life = crashes` in `WaitingHasRun` (the others: below), `crashes = 0` in `RemovesOwn` (`alias_after_restart`) and `WholeData` (rows and files may differ
  after a crash, and `NothingLost` is what remains), `crashes <= 2` in `NothingLost`: at the third the next
  pruning may take the directory that has the files.
* Nobody took the trace away. `erased` in `NoSwapUnderRecordedRun` (`swap_under_run` shows the runs it leaves out).
* It could be seen. `findable`, or a unit, in the half of `CliRestoreIsSafe` about success; `Told` in
  `WatchedAgain` and `UnwatchedIsKnown`: a task without the remove event, or with a
  debounce window, or whose path is renamed away, is not promised to be watched again (section 6).
* The runs of the violated properties bound the failing calls by zero, in the cfg or by `faults = 0` in the formula, so
  that their traces are of the code alone.

Fairness. `CronExec!FairSpec`: every goroutine that can go on does (`WF` of
`Step`), timers fire (`WF` of `Timeout`), and the service is restarted after a
crash (`Restart=on-failure` in the unit `scripts/install.sh` writes). Nothing
is assumed about commands (`ProcessExit`), users, or the select in `exec`
preferring one ready case. `RunEnds` is about jobs with a timeout only: without one a run may take for ever,
by design. `RootsFairness`: the event loop takes events and ends when told, and each
retryAdd goroutine's ticker fires; nothing is assumed about paths. `ServicesSpec` adds
`WF` of the steps of each script run (`StepOf`), which do not include the exit of its process.

### What the violated properties mean

* **A stop can miss the run** (`service/cronjob.go:376`): it cancels the task of
  the *newest record*, which after a skipped tick is the marker of that tick.
* **A backlog is never pruned** (`service/cronjob.go:337`): one pruning removes one
  record at most, so after lowering retainCopies the history stays too long.
* **A disabled job fires** (`service/cronjob.go:290`): enabling an enabled job
  registers it twice and forgets the first entries.
* **A job stops after a restart** (`service/cronjob.go:270`, `:669`): an edit that
  races a disable leaves entry ids in the disabled row; the next process gives
  the same ids to other jobs, whose entries go when that row is disabled or deleted.
* **A refused update stops a watcher** (`service/filewatch.go:235`): Update stops the
  watcher before it writes the row; a name another task has is refused by the unique index, and
  the task stays enabled, its watcher_key set, with nothing watching. `model/filewatch.go:22`
  says the key tells these apart.
* **A refused restore stops the schedulers** (`service/backup.go:135`): every entry and
  watcher is removed before ensureIdle looks for running tasks; the refusal, and every later
  error return, registers nothing again. `README.md:423` says it is refused first.
* **A restore swaps rows under a run** (`service/cronjob.go:313`): Delete takes a running cronjob's flag and
  records away, clearing the records of scripts and file watches does so for theirs, and ensureIdle
  counts nothing.

### What the premises leave out

What the models do where a premise of a checked property does not hold; each is in the
model, none has a run of its own:

* **A refused update exchanges the entries** (`service/cronjob.go:274`): Update registers the new entries and
  removes the old before the unique index refuses the name. The row then names
  entries that are gone, and those that fire are named by no row, so that neither disabling nor deleting
  the job stops them. The comment at l.245 says that the two never disagree.
* **A restart leaves file watch records waiting** (`service/filewatch.go:554`): nothing settles them, although
  `README.md:13` promises marks, and every later restore is refused until they are cleared.
* **A manual run joins another** (`service/filewatch.go:385`): HandleOnce looks at nothing; its comment says it
  is only possible when no run is pending.
* **Pruning takes what is needed** (`service/backup.go:268`): it keeps the first two in the order of random
  names, not the two most recent, and may remove the staging directory of the restore it belongs to.
* **A start adds a second default group** (`service/script_seed.go:730`): when it cannot read the groups.
* **A server is missed** (`backup_restore.go:211`): the restore on the command line finds servers by the text of
  `-data`; one without it goes on serving, and success is reported.
* **An upgrade meets a restart** (`upgrade/upgrade.go:259`): Perform looks at `running` only, which Restart does
  not set; the comment at l.301 says an upgrade is refused then.

## 4. Proofs

All for every value of the constants that satisfies the module's assumption
(`ConstantsAssumption`: handlers and requests are different actors, bounds are
naturals, there is a cronjob to name; the others say as little). What a theorem needs
beyond it stands in its own ASSUME, and is named below. No module declares a
RECURSIVE operator; the recursive functions and the sum of `Preview` are reached by an induction
on numbers stated for sets (see `PreviewProofs`).

`CronExecProofs`
* `TypeCorrect`: `Spec => []TypeOK`. `TypeOK` is not inductive: EndRecord writes
  the result the run has, which is a verdict only because every way to that place
  sets one. The invariant is `TypeInv == TypeOK /\ ResultKnown`.
* `MutualExclusion`: `Spec => []NoDoubleRun`, and `FlagCoversRun`:
  `Spec => []RunnerHasFlag`. The invariant is `MutexInv == RunnerHasFlag /\
  NoDoubleRun /\ DownIdle`: a run enters only through StartRecord, whose update
  finds the flag clear, so by `RunnerHasFlag` nobody else runs the job; the flag
  is cleared by the run's own EndJob (by `NoDoubleRun` the only one), by
  DeleteJob, which removes the row with it, and by the restart, when by
  `DownIdle` no run is left. Almost all steps only need `QuietStep`. A job that was
  deleted cannot be entered again (ids are not reused), which is why a run that
  outlives its row is harmless.

`CronHistoryProofs`
* `FlagIsAttended`, `WaitingIsAttended`: while no statement failed, a flag that is
  set and a record that waits have a run that will see to them. The two are about
  flags and records, a step about runs; what connects them is `OwnRecord` (a run has
  a record of its own, which waits or was removed, and no other run has it), so that
  EndRecord settles one record and leaves nobody else's flag or record behind.
  Invariant: `AttendedInv == FlagHasRunner /\ WaitingHasRunner /\ OwnRecord`.
* `VerdictIsFinal`: `Spec => VerdictFinal`, from the same invariant: EndRecord finds
  its record waiting or removed.
* `LedgerIsImplemented`: `Spec => ImplementsLedger`. Each action is shown to be a step of
  `RunLedger` or a stutter under the mapping of `CronExec`: a ledger's run is the
  record of the goroutine between StartRecord and EndJob. `NoDoubleRun` makes that
  record unique, `OwnRecord` and `WaitingHasRunner` give the guards of the ledger's
  release and restart; `BudgetInv` (records and calls that may
  still create one are at most `MaxRecords`) keeps record ids inside of the ledger's.
* `PruningKeepsNewest`: `Spec => PruneKeepsNewest`. Between the list of a pruning and the removal of
  what is on it, other prunings, clearings and deletions remove records too. `PruneInv`:
  the record a pruning is about to remove has enough newer ones now, not only when it was
  listed, or somebody else has removed it. Another pruning may take one of those newer ones,
  but then that one has enough newer ones itself, and they are newer than both
  (`KeptByMore`, `DropRows`); a clearing takes all of a job at once. Expired lists one record at
  most (`ExpiredIsOne`).

`CronScheduleProofs`
* `ScheduleTypeCorrect`: `Spec => []TypeOK`, inductive as it stands.
* `OnlyOwnEntriesRemoved`: `Spec => RemovesOwn`. Remove goes by ids alone, so what
  has to be known is whose ids rows and requests hold. The invariant is `OwnIds`
  (`OwnIdsInvariant`): every id that a row, or a request on its behalf, names for a
  cronjob is at most `lastId` and is no id of another cronjob's entry. Register keeps
  it because its ids are above `lastId` (`RegisterOwn`), every other step because it
  copies ids between a row and requests about that row (`QuietOwn`). A crash breaks
  it: ids start from 1 again while the rows keep theirs, which is what
  `alias_after_restart` shows; hence `crashes = 0`.
* `EnabledIsKept`: `Spec => [](crashes = 0 => EnabledIsScheduled)`. The property is about moments
  without requests; the invariant `CoverInv` is about all: an enabled cronjob has a request
  that is going to disable or delete it (`Ending`), or an entry that no Create holds
  (`Safe`). What keeps entries from being removed by others is `PrivateNew`: the ids a request
  has just registered are in no row and known to no other request, so an Update that removes
  the old entries has new ones nobody can have removed. It rests on `OwnIds` and is false
  after a crash (`alias_after_restart`) or a failing statement.
* `RecordedStayLive`: `Spec => []RecordedAreLive`, and `RestartStaysExact`: `Spec => RestartIsExact`, both for
  requests one at a time (`\A a, b \in Admins : a = b`), with any number of crashes and failing
  statements. With two requests at once a row can be enabled with a blank
  spec and the ids of the spec before (section 6), so neither holds without the premise `alone`; the
  theorems have it as an assumption on the actors. Statements that fail and refused names are in: a row whose last
  write was refused is left out of the first (`refused`), and the second covers it, since a restart goes by status and
  spec alone. `IdsUnique` and `SoloInv` tie what the one
  request has read to its row; `RebuildInv` says what a restart has rebuilt so far, whatever
  the rows said when it began; `RecordInv` says it of rows between requests.

`FileWatchProofs`
* `WatchTypes`: `Spec => []TypeOK`.
* `NoWatcherLeaks`: `Spec => []NoLeak`, with failures and crashes: an open watcher is registered, or a
  request that took it out of the map is about to close it (`Lives` adds that ids are unique
  and below the counter).
* `WaitingIsRunning`: `Spec => []WaitingHasRun`. The invariant `WaitingInv` adds that ids of records and runs are at most the
  counter and that records have ids of their own, so that a run settles one record, of this
  process, and a new one meets neither a run nor a record.
* `EnabledStaysWatched`: `Spec => []EnabledIsWatched`. The property speaks of moments without
  requests; a request takes up to five steps, each of which breaks it. `EnabledInv ==
  TypeOK /\ WatcherIds /\ RequestInv /\ BootInv`: as long as requests came one at a time and nothing
  failed, every task but the request's own agrees with its row, and `Pending` says
  for each place in the code where the watcher of that one is (registered with which
  configuration, in the map and closed, out of the map and to be closed). `BootInv` does the same for
  the restart, with the tasks it has yet to come to. No assumption: `alone` and `faults` are in the property.

`RestoreProofs`
* `AllOrNothing`: `Spec => []WholeData`, and `NothingIsLost`: `Spec => []NothingLost` when a process has at
  most one failure (with two in one process it is false: a failing move whose
  roll-back fails too). One invariant serves both: `FilesInv` says at each place of
  RestoreZip where the files are that go with the rows (`Has`), that the directory they are
  moved to is free of them, and that every failure branch already has its one fault, so
  that its own steps do not fail. `LifeInv` keeps restores apart. For the pruning it is needed that
  each crash leaves one directory at most, so that before the third crash there are no more than two of
  them, and none is removed (`PrunedKeepsTwo`).
* `NoSwapUnderRun`: `Spec => NoSwapUnderRecordedRun`. `SwapInv` says that a run has its traces or is `erased`, and
  carries the answer of ensureIdle to the commit.
* `RestoreTypes`, which these rest on.

`FollowProofs` (`MaxKept`, `Lines` are naturals)
* `ScriptPendingStaysRun`: `ScriptSpec => []ScriptPendingIsRun`, and `ScriptHistoryStaysBounded`:
  `ScriptSpec => []ScriptHistoryIsBounded`. `ScriptInv == ScriptTypeOK /\ OwnIds /\ Attended /\ Bounded`: each
  record has an id of its own, below the counter; a record without a verdict has a run which has
  yet to write it; and while there are more than `MaxKept` records, some run has yet to list
  them, or has listed all but `MaxKept` of what is left. The count rests on
  `NewestAreFew` (those of a finite set of records with fewer than `m` newer ones are at most `m`),
  proved by taking the oldest of them.
* `TailAlwaysShowsAll`: `TailSpec => []TailShowsAll`. `TailInv` says of every poll under way what its answer
  will let the page show, whichever of the polls answers first.
* `RootsTypes` and `UnwatchedIsAlwaysKnown`: for any set of paths, a path that is not watched is being
  added again or its removal is still in the queue. Inductive together with the
  types, which say that only what exists is watched.

`ServicesProofs`
* `CliRestoreKeepsData`. `CliInv`: unless a rename failed, the newest data are in the directory or in one
  renamed away (`KeptInv`); while no call failed, unit and server stay stopped, a server that is no unit if
  it can be found (`StoppedInv`).
* `DefaultStaysUnique`, `StoredStaysEffective`. `SettingsInv`: `overlapped` counts
  truthfully (`OneRequest`); while not `several`, there is one default at most, one request that wants to give it, and none
  between its two statements (`DefaultInv`), with failing statements and starts; memory lags the database by the one request only (`EffectInv`).
* `SeedingCompletes`, `UsersChangesAreKept` (every script is shipped from some release on). `SeedInv`: what has a mark is in
  the library or was deleted by users (`MarksInv`), a start has all that is missing or to be refreshed still before
  it (`StartInv`), and after it nothing is (`StartedInv`).
* `AccountStaysSound`, `FailuresStayBounded` (finitely many requests, at least one attempt). `AuthInv`: `CreatedInv` orders
  the four settings of InitAuth, `ShownInv` ties the default password to the password, `LockInv` counts
  the requests past the lock.
* `BusyUpgradeIsUnderWay`, `ReplacedStaysKept`. `UpInv`: one upgrade at a time, and `ReplacedFiles`: at each place of doUpgrade
  what its temporary file and .bak hold.

* `ServicesTypes`: `ServicesSpec => []ServicesTypeOK`, all variables of the ten components. `ServicesSteps` shows that a
  step of the whole is a step of one component and leaves the others alone, so that each keeps what
  its own steps keep (`CliTypeStep`, `SettingsTypeStep`, ...). Two types do not hold by themselves: those of
  script runs need `ScriptInv`, and that the page of a live log never counts more lines than there are needs
  `TailBounds`, the same of every poll under way. `ServicesAssumption` says that bounds are numbers and
  that the archive's files are among the files; there is an interval to preview (`Bare # {}`).
* `ServicesAreComponents`: a behaviour of `ServicesSpec` is a behaviour of each of the ten components' specifications, from
  `ServicesBegin` for the initial states and `ServicesSteps` for the steps. What is proved of a component alone so holds
  of the run that puts them side by side.

`PreviewProofs`
* `PreviewShowsNextRuns`: `PreviewSpec => []PreviewIsNextRuns`, for any parts, any number of times shown and any moment,
  from `PreviewAssumption` alone (a second and a period are not empty, a minute is whole seconds, there are
  finitely many tokens). The premise on intervals stands in the property. Both sides of it are recursive, the code's list of a
  part's times and the library's runs of it, and so is the sum of the tokens, a fold. A recursive function is a
  CHOOSE, which says nothing until such a function exists: the proof builds it step by step, by
  `SetInduction` (a set that has a number, and with every number from it on the next one, has all of
  them; it follows from the well-foundedness of `<`). Then:
  `FiresForEver` and `NextIsFirst`: a part has a set `Fires(p)` of seconds, without end, and the library's Next is the
  first of it after a moment (by `%` for cron expressions, by multiples for intervals); `TimesAreFirst`: the code's list
  is the first `Shown` of `Fires(p)`; `FiringsAre`: the library's runs up to a limit are `Fires(p)` up to it; and
  `ShownAreNext`: the first `Shown` of the lists of all parts are the first `Shown` of all their firings, since no part's list
  ends before the second `M` up to which there are just so many.

Only model-checked: `RunEnds`, `StopEnds`, `WatchedAgain`, `ClosedEnds`, `ScriptStopEnds`: liveness under fairness and ENABLED are
out of the prover's reach. Every other property of a passing run has its theorem.

## 5. Not modelled

* Processes a crash leaves behind: systemd kills the unit's cgroup; with nohup a
  command may survive the server. The 5 second limit likewise lets a run end
  while its process lives: `NoDoubleRun` is about the program's runs, not about
  operating system processes.
* Contents: log text, notifications, script text, archives. Checks of an archive and writing a
  backup are reads and one file written; a damaged archive ends RestoreZip before anything
  is changed.
* robfig/cron, fsnotify and systemd beyond what the code uses of them.
* Tokens (`service/auth.go`): a map with expiry times, checked whenever one is presented.
* Two restores at the same time (section 6).
* HTTP handlers, accounts of the host, `status`, `uninstall`, the console, the installers and the
  web page but for its polling: decode, print, or sequential I/O without state of the server.

Large files with little state: `service/script_seed.go` is mostly the
text of the built-in scripts, `uninstall_cmd.go` and `status_cmd.go` are terminal dialogues.

## 6. Observations without a run

Met while reading; they contradict no line closely enough for a run, or are out of the
models' scope:

* Nothing keeps two restores apart (`handler/auth.go:100`, `service/backup.go:140`): both may pass ensureIdle,
  because a restore is not a run. The models have one at a time.
* A directory of a restore that cannot be removed at its end (`service/backup.go:161`, the error is dropped)
  stays, without a crash, and counts in later prunings. The model removes it.
* Deleting a cronjob removes its script directory under the run (`service/cronjob.go:320`).
* The sweeper of tokens runs only in the process that created the account (`service/auth.go:80`).
* `Initialized` takes any read error for "not initialised" (`service/auth.go:84`).
* A root is watched again only if the task hears of removals and the event survives its
  debounce (`scheduler/watcher.go:176`); hence the premise `Told`.
* `@every` with fractions of a second is previewed at other times than it runs; a negative bare
  number of minutes runs every second; an impossible date previews the zero time.
* A failing WriteMarks (`service/script_seed.go:906`) lets the next start seed built-in scripts the user deletes.
* `backup_restore.go:177` only warns when the old data directory could not be renamed away, although
  `README.md:412` promises a copy of it.
* What a server that the restore on the command line has missed writes into the restored files is not modelled; that it
  is there is.
* SeedGroups renames the group of an earlier release, by its name; in `Settings` it is the same group before and after.
* With two requests at once a row can be enabled with a blank spec and the ids of the spec before; `RestartIsExact`
  is therefore about requests one at a time (`alone`).

## 7. What is left

1. Two restores at a time, once the code excludes or orders them.
2. Tokens, if their lifetime becomes something another component relies on.
3. `RecordedStayLive` and `RestartStaysExact` for any actors, with `alone` as their only premise about requests.
4. The five liveness properties for any number of runs and paths, by hand or with another prover.
