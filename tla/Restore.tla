------------------------------ MODULE Restore ------------------------------
(***************************************************************************)
(* RestoreZip: the rows of the database, the files of the data directory   *)
(* and the schedulers are replaced by those of a backup, in several steps, *)
(* while the server goes on serving (service/backup.go).                   *)
(*                                                                         *)
(* Data is told apart by where it comes from: Now is what the server had   *)
(* when it started, r the backup that request r restores.  The moves of    *)
(* one moveDataEntries are one step, which may fail after any of them.     *)
(***************************************************************************)
EXTENDS Integers, FiniteSets

CONSTANTS
  Restorers,   \* restore requests, each with a backup of its own
  Now,         \* the data before any restore
  Parts,       \* top-level entries of the data directory, LogDir among them
  LogDir,
  MaxFaults,   \* bound: failures, and runs that begin during a restore, per process lifetime
  MaxCrashes   \* bound: crashes of the process

None == "none"
Kinds == {"cron", "script", "watch"}
\* What the tables say is running: "left" is a waiting file watch record that no run
\* of this process is going to settle.
Traces(k) == IF k = "watch" THEN {"watch", "left"} ELSE {k}
Versions == Restorers \cup {Now}

ASSUME RestoreAssumption ==
  /\ LogDir \in Parts
  /\ Now \notin Restorers /\ None \notin Versions
  /\ MaxFaults \in Nat /\ MaxCrashes \in Nat

VARIABLES
  rows,      \* whose rows the database has
  pending,   \* traces: kinds of which a record, or is_executing, says that one is running
  running,   \* kinds of which one is running
  erased,    \* history: kinds whose traces were deleted under the one running
  data,      \* the data directory
  backup,    \* the file backup directory of each request
  kept,      \* the file backup directories crashes left behind
  stagings,  \* how many staging directories crashes left behind
  lost,      \* the restore under way has pruned its own staging directory
  entries,   \* whose tasks are scheduled and watched
  pc,        \* where each request is
  up,        \* the process runs
  faults,    \* what went wrong in this process: failures, runs begun during a restore,
             \* a staging directory pruned
  crashes

leftovers == <<kept, stagings, lost>>
files == <<data, backup, leftovers>>
runs == <<pending, running, erased>>
vars == <<rows, runs, files, entries, pc, up, crashes, faults>>

Dir == [Parts -> Versions \cup {None, "run"}]
Empty == [p \in Parts |-> None]

\* The places from which a request has a file backup directory.
WithBackup == {"moveOut", "moveIn", "commit", "undo", "back", "register"}
Label == {"idle", "reset", "check", "snapshot"} \cup WithBackup

TypeOK ==
  /\ rows \in Versions /\ entries \subseteq Versions
  /\ pending \subseteq Kinds \cup {"left"} /\ running \subseteq Kinds /\ erased \subseteq Kinds
  /\ data \in Dir /\ backup \in [Restorers -> Dir]
  /\ kept \subseteq [crash : Nat, dir : Dir] /\ stagings \in Nat /\ lost \in BOOLEAN
  /\ pc \in [Restorers -> Label]
  /\ up \in BOOLEAN
  /\ faults \in Nat /\ crashes \in Nat

----------------------------------------------------------------------------
Ok == faults' = faults
Fails == faults < MaxFaults /\ faults' = faults + 1

Goto(r, l) == pc' = [pc EXCEPT ![r] = l]
Restoring == \E r \in Restorers : pc[r] # "idle"

\* moveDataEntries of the entries in ps; an entry that is there already is in the way.
Blocked(to) == \E p \in Parts : to[p] # None
Moved(from, to, ps) == [p \in Parts |-> IF p \in ps /\ from[p] # None /\ to[p] = None THEN from[p] ELSE to[p]]
Left(from, to, ps) == [p \in Parts |-> IF p \in ps /\ to[p] = None THEN None ELSE from[p]]

Init ==
  /\ rows = Now /\ data = [p \in Parts |-> Now] /\ entries = {Now}
  /\ pending = {} /\ running = {} /\ erased = {}
  /\ backup = [r \in Restorers |-> Empty]
  /\ kept = {} /\ stagings = 0 /\ lost = FALSE
  /\ pc = [r \in Restorers |-> "idle"]
  /\ up = TRUE /\ faults = 0 /\ crashes = 0

----------------------------------------------------------------------------
(* What goes on next to a restore. *)

\* A run of kind k begins: its record, then its log file, which creates the
\* directory when it is not there.
StartRun(k) ==
  /\ up /\ k \notin running
  /\ IF Restoring THEN Fails ELSE Ok
  /\ running' = running \cup {k} /\ pending' = pending \cup {k}
  /\ data' = [data EXCEPT ![LogDir] = IF @ = None THEN "run" ELSE @]
  /\ UNCHANGED <<rows, erased, backup, leftovers, entries, pc, up, crashes>>

\* It settles its own record and flag, as far as they are there.
EndRun(k) ==
  /\ up /\ k \in running
  /\ running' = running \ {k} /\ pending' = pending \ {k} /\ erased' = erased \ {k}
  /\ UNCHANGED <<rows, files, entries, pc, up, crashes, faults>>

\* The traces of a kind are deleted, also those of a run under way.
Erase(k) ==
  /\ up /\ pending \cap Traces(k) # {}
  /\ pending' = pending \ Traces(k)
  /\ erased' = erased \cup (running \cap {k})
  /\ UNCHANGED <<rows, running, files, entries, pc, up, crashes, faults>>

\* Clearing records; that of a cronjob leaves is_executing.
ClearRecords(k) == k # "cron" /\ Erase(k)

\* Delete of a cronjob looks at no flag: its row goes, with is_executing, and its
\* records.
DeleteCronjob == Erase("cron")

\* A request that creates, edits or enables a task schedules it.
Edit ==
  /\ up /\ entries' = entries \cup {rows}
  /\ UNCHANGED <<rows, runs, files, pc, up, crashes, faults>>

----------------------------------------------------------------------------
(* RestoreZip. *)

\* The archive has been read and staged: a backup that is no good ends here.
\* Nothing in the server keeps two restores apart; here they come one at a time.
RestoreZip(r) ==
  /\ up /\ pc[r] = "idle" /\ ~Restoring
  /\ Goto(r, "reset") /\ lost' = FALSE
  /\ UNCHANGED <<rows, runs, data, backup, kept, stagings, entries, up, crashes, faults>>

\* ResetEntries and StopAllFileWatches.
Reset(r) ==
  /\ pc[r] = "reset"
  /\ entries' = {}
  /\ Goto(r, "check")
  /\ UNCHANGED <<rows, runs, files, up, crashes, faults>>

\* ensureIdle: a count that fails counts nothing.
\* Mutant: records alone are looked at, not is_executing.
EnsureIdle_RecordsOnly(r) ==
  /\ pc[r] = "check" /\ Ok
  /\ \/ pending \ {"cron"} # {} /\ Goto(r, "idle")
     \/ pending \ {"cron"} = {} /\ Goto(r, "snapshot")
  /\ UNCHANGED <<rows, runs, files, entries, up, crashes>>
EnsureIdle(r) ==
  /\ pc[r] = "check"
  /\ \/ Ok /\ pending # {} /\ Goto(r, "idle")
     \/ Ok /\ pending = {} /\ Goto(r, "snapshot")
     \/ Fails /\ \E k \in Kinds : Goto(r, IF pending \subseteq Traces(k) THEN "snapshot" ELSE "idle")
  /\ UNCHANGED <<rows, runs, files, entries, up, crashes>>

\* pruneOldRestoreBackups leaves two directories of a kind, in the order of their
\* random names, and more when a removal fails.
\* Mutant: none is left.
Pruned_All(S) == {{}}
Pruned(S) == {K \in SUBSET S : K = S \/ Cardinality(K) >= 2}

\* The staging directories that crashes left and that stay when the one of this
\* restore is spared, which it need not be.
StagingsLeft == IF stagings < 2 THEN {stagings} ELSE 1..stagings

\* The pruning, the copy of the database, and the directory for the current files.
Snapshot(r) ==
  /\ pc[r] = "snapshot"
  /\ kept' \in Pruned(kept)
  /\ \/ stagings' \in StagingsLeft /\ UNCHANGED lost /\ Ok /\ Goto(r, "moveOut")
     \/ stagings' \in StagingsLeft /\ UNCHANGED lost /\ Fails /\ Goto(r, "idle")
     \/ stagings' \in 2..stagings /\ lost' = TRUE /\ Fails /\ Goto(r, "moveOut")
  /\ UNCHANGED <<rows, runs, data, backup, entries, up, crashes>>

MoveOut(r) ==
  /\ pc[r] = "moveOut"
  /\ \/ /\ Ok /\ backup' = [backup EXCEPT ![r] = data] /\ data' = Empty
        /\ Goto(r, "moveIn")
     \/ \E ps \in SUBSET Parts :
          /\ Fails /\ backup' = [backup EXCEPT ![r] = Moved(data, Empty, ps)]
          /\ data' = Left(data, Empty, ps)
          /\ Goto(r, "back")
  /\ UNCHANGED <<rows, runs, leftovers, entries, up, crashes>>

Staged(r) == [p \in Parts |-> r]
MoveIn(r) ==
  /\ pc[r] = "moveIn"
  /\ \/ Ok /\ ~lost /\ ~Blocked(data) /\ data' = Staged(r) /\ Goto(r, "commit")
     \/ \E ps \in SUBSET Parts :
          /\ IF lost \/ Blocked(data) THEN Ok ELSE Fails
          /\ data' = IF lost THEN data ELSE Moved(Staged(r), data, ps)
          /\ Goto(r, "undo")
  /\ UNCHANGED <<rows, runs, backup, leftovers, entries, up, crashes>>

\* What the rows of a backup say is running: those of one taken during runs have
\* their waiting records, which no run of this process is going to settle.
PendingInBackup == {{}, {"cron", "script", "left"}}

\* The transaction.
\* Mutant: the current files are given up before the transaction.
Commit_DropsBackup(r) ==
  /\ pc[r] = "commit"
  /\ backup' = [backup EXCEPT ![r] = Empty]
  /\ \/ Ok /\ rows' = r /\ pending' \in PendingInBackup /\ Goto(r, "register")
     \/ Fails /\ Goto(r, "undo") /\ UNCHANGED <<rows, pending>>
  /\ UNCHANGED <<running, erased, data, leftovers, entries, up, crashes>>
Commit(r) ==
  /\ pc[r] = "commit"
  /\ \/ Ok /\ rows' = r /\ pending' \in PendingInBackup /\ Goto(r, "register")
     \/ Fails /\ Goto(r, "undo") /\ UNCHANGED <<rows, pending>>
  /\ UNCHANGED <<running, erased, files, entries, up, crashes>>

\* removeDataEntries, whose error is dropped.
Undo(r) ==
  /\ pc[r] = "undo"
  /\ \/ Ok /\ data' = Empty
     \/ Fails /\ \E ps \in SUBSET Parts : data' = [p \in Parts |-> IF p \in ps THEN None ELSE data[p]]
  /\ Goto(r, "back")
  /\ UNCHANGED <<rows, runs, backup, leftovers, entries, up, crashes>>

\* The current files are moved back; what could not be moved is deleted with the
\* directory, because the error is dropped.
\* Mutant: the files stay where they are.
MoveBack_Skipped(r) ==
  /\ pc[r] = "back"
  /\ Ok /\ UNCHANGED data
  /\ backup' = [backup EXCEPT ![r] = Empty]
  /\ Goto(r, "idle")
  /\ UNCHANGED <<rows, runs, leftovers, entries, up, crashes>>
MoveBack(r) ==
  /\ pc[r] = "back"
  /\ \/ Ok /\ data' = Moved(backup[r], data, Parts)
     \/ Fails /\ \E ps \in SUBSET Parts : data' = Moved(backup[r], data, ps)
  /\ backup' = [backup EXCEPT ![r] = Empty]
  /\ Goto(r, "idle")
  /\ UNCHANGED <<rows, runs, leftovers, entries, up, crashes>>

\* RestoreCronjobs and RestoreScriptRecords settle what was running, as far as
\* their tables go; RestoreFilewatches settles nothing.
Settled == pending \ {"cron", "script"}
Register(r) ==
  /\ pc[r] = "register"
  /\ backup' = [backup EXCEPT ![r] = Empty]
  /\ entries' = entries \cup {rows} /\ pending' = Settled
  /\ Goto(r, "idle")
  /\ UNCHANGED <<rows, running, erased, data, leftovers, up, crashes, faults>>

----------------------------------------------------------------------------
(* Crash and restart. *)

\* A restore that is cut short leaves its directories.
Crash ==
  /\ up /\ crashes < MaxCrashes
  /\ up' = FALSE /\ crashes' = crashes + 1
  /\ running' = {} /\ erased' = {} /\ entries' = {}
  /\ pc' = [r \in Restorers |-> "idle"]
  /\ kept' = kept \cup {[crash |-> crashes + 1, dir |-> backup[r]] :
                         r \in {q \in Restorers : pc[q] \in WithBackup}}
  /\ stagings' = IF Restoring /\ ~lost THEN stagings + 1 ELSE stagings
  /\ backup' = [r \in Restorers |-> Empty] /\ lost' = FALSE
  /\ UNCHANGED <<rows, pending, data, faults>>

\* The directory log is created when it is not there.
Restart ==
  /\ ~up /\ up' = TRUE
  /\ entries' = {rows}
  /\ pending' = IF Settled = {} THEN {} ELSE {"left"}
  /\ data' = [data EXCEPT ![LogDir] = IF @ = None THEN "run" ELSE @]
  /\ faults' = 0
  /\ UNCHANGED <<rows, running, erased, backup, leftovers, pc, crashes>>

----------------------------------------------------------------------------
Step(r) ==
  \/ RestoreZip(r) \/ Reset(r) \/ EnsureIdle(r) \/ Snapshot(r) \/ MoveOut(r) \/ MoveIn(r)
  \/ Commit(r) \/ Undo(r) \/ MoveBack(r) \/ Register(r)

Next ==
  \/ \E k \in Kinds : StartRun(k) \/ EndRun(k) \/ ClearRecords(k)
  \/ DeleteCronjob \/ Edit
  \/ \E r \in Restorers : Step(r)
  \/ Crash \/ Restart

Spec == Init /\ [][Next]_vars

----------------------------------------------------------------------------
(* Properties. *)

AtRest == up /\ ~Restoring

\* README.md:426: whatever one thing goes wrong (a failure, or a run that begins
\* during the restore), rows and files are of the same data and complete after it.
WholeData ==
  AtRest /\ faults <= 1 /\ crashes = 0 => data = [p \in Parts |-> rows]

\* Wherever the process dies in a restore, the files that go with the rows are
\* still on the disk: in the data directory, or in one a restore has left.  So it is
\* until the third crash; from then on the next restore may prune them.
NothingLost ==
  faults <= 1 /\ crashes <= 2 =>
    \A p \in Parts :
      rows \in {data[p]} \cup {k.dir[p] : k \in kept} \cup {backup[r][p] : r \in Restorers}

\* service/backup.go:327: the rows are not replaced under a run, with one exception:
\* a run whose traces (record, or row of the cronjob) were deleted meanwhile.  The
\* record of a cronjob may be cleared all the same.
NoSwapUnderRecordedRun ==
  [][rows' # rows /\ faults = 0 => running \subseteq erased]_vars

\* service/backup.go:327: ensureIdle "rejects a restore while any task/script is
\* executing or waiting".
NoSwapUnderAnyRun ==
  [][rows' # rows /\ faults = 0 => running = {}]_vars

\* README.md:423: a restore is refused before it begins; after one that was
\* refused the tasks are scheduled as they were.
RefusedKeepsSchedule ==
  AtRest /\ faults = 0 => entries = {rows}
=============================================================================
