----------------------------- MODULE ScriptRun -----------------------------
(***************************************************************************)
(* One-shot runs of library scripts: their records, the map of cancel      *)
(* functions, pruning to the newest MaxKept records and the restart        *)
(* (service/script_library.go).  A script may run several times at once.   *)
(***************************************************************************)
EXTENDS Integers, FiniteSets

CONSTANTS
  Scripts,     \* library scripts, by id
  MaxKept,     \* maxScriptRecords
  MaxRuns,     \* bound: runs asked for
  MaxScriptFaults,   \* bound: failing statements or system calls per process lifetime
  MaxScriptCrashes   \* bound: crashes of the process

VARIABLES
  library,     \* the scripts there are
  scriptRecs,  \* table script_records
  lastRun,     \* the last record id
  goroutines,  \* runs under way, by the id of their record
  cancel,      \* scriptRunner.cancel: the runs StopRun can find
  cancelled,   \* runs whose context is cancelled
  scriptUp, scriptFaults, scriptCrashes

scriptVars == <<library, scriptRecs, lastRun, goroutines, cancel, cancelled,
                scriptUp, scriptFaults, scriptCrashes>>
env == <<scriptUp, scriptCrashes>>

Stage == {"log", "running", "register", "start", "wait", "unregister", "verdict", "list", "prune"}
Outcome == {"success", "failed"}
ScriptRecord == [id : Nat, script : Scripts, status : {"waiting", "running"} \cup Outcome]
\* doomed: what this run's pruning has found to be too old.
Goroutine == [id : Nat, script : Scripts, at : Stage, outcome : Outcome, doomed : SUBSET Nat]

ScriptTypeOK ==
  /\ library \subseteq Scripts
  /\ scriptRecs \subseteq ScriptRecord /\ lastRun \in Nat
  /\ goroutines \subseteq Goroutine
  /\ cancel \subseteq Nat /\ cancelled \subseteq Nat
  /\ scriptUp \in BOOLEAN /\ scriptFaults \in Nat /\ scriptCrashes \in Nat

----------------------------------------------------------------------------
CallOk == scriptFaults' = scriptFaults
CallFails == scriptFaults < MaxScriptFaults /\ scriptFaults' = scriptFaults + 1

ScriptInit ==
  /\ library = Scripts /\ scriptRecs = {} /\ lastRun = 0 /\ goroutines = {}
  /\ cancel = {} /\ cancelled = {}
  /\ scriptUp = TRUE /\ scriptFaults = 0 /\ scriptCrashes = 0

At(g, l) == g \in goroutines /\ g.at = l
Becomes(g, h) == goroutines' = (goroutines \ {g}) \cup {h}
MovesTo(g, l) == Becomes(g, [g EXCEPT !.at = l])
WithStatus(i, s) == {IF r.id = i THEN [r EXCEPT !.status = s] ELSE r : r \in scriptRecs}

\* Run: the record is inserted waiting.
Run(s) ==
  /\ scriptUp /\ s \in library /\ lastRun < MaxRuns
  /\ lastRun' = lastRun + 1
  /\ \/ /\ CallOk
        /\ scriptRecs' = scriptRecs \cup {[id |-> lastRun + 1, script |-> s, status |-> "waiting"]}
        /\ goroutines' = goroutines \cup
             {[id |-> lastRun + 1, script |-> s, at |-> "log", outcome |-> "success", doomed |-> {}]}
     \/ CallFails /\ UNCHANGED <<scriptRecs, goroutines>>
  /\ UNCHANGED <<library, cancel, cancelled, env>>

\* A log file that cannot be opened ends Run; its record stays waiting.
OpenLog(g) ==
  /\ At(g, "log")
  /\ \/ CallOk /\ MovesTo(g, "running")
     \/ CallFails /\ goroutines' = goroutines \ {g}
  /\ UNCHANGED <<library, scriptRecs, lastRun, cancel, cancelled, env>>

MarkRunning(g) ==
  /\ At(g, "running")
  /\ \/ CallOk /\ scriptRecs' = WithStatus(g.id, "running")
     \/ CallFails /\ UNCHANGED scriptRecs
  /\ MovesTo(g, "register")
  /\ UNCHANGED <<library, lastRun, cancel, cancelled, env>>

\* runScript: the script file, then the cancel function.
RegisterCancel(g) ==
  /\ At(g, "register")
  /\ \/ CallOk /\ cancel' = cancel \cup {g.id} /\ MovesTo(g, "start")
     \/ CallFails /\ Becomes(g, [g EXCEPT !.at = "verdict", !.outcome = "failed"]) /\ UNCHANGED cancel
  /\ UNCHANGED <<library, scriptRecs, lastRun, cancelled, env>>

Start(g) ==
  /\ At(g, "start")
  /\ \/ CallOk /\ MovesTo(g, "wait")
     \/ CallFails /\ Becomes(g, [g EXCEPT !.at = "unregister", !.outcome = "failed"])
  /\ UNCHANGED <<library, scriptRecs, lastRun, cancel, cancelled, env>>

Exit(g) ==
  /\ At(g, "wait")
  /\ \E o \in Outcome : Becomes(g, [g EXCEPT !.at = "unregister", !.outcome = o])
  /\ UNCHANGED <<library, scriptRecs, lastRun, cancel, cancelled, env, scriptFaults>>

\* ctx.Done(): the process group is killed and waited for 5 seconds at most.
\* Mutant: the context is looked at before the process starts, and not again.
Killed_Early(g) ==
  /\ At(g, "start") /\ g.id \in cancelled
  /\ Becomes(g, [g EXCEPT !.at = "unregister", !.outcome = "failed"])
  /\ UNCHANGED <<library, scriptRecs, lastRun, cancel, cancelled, env, scriptFaults>>
Killed(g) ==
  /\ At(g, "wait") /\ g.id \in cancelled
  /\ Becomes(g, [g EXCEPT !.at = "unregister", !.outcome = "failed"])
  /\ UNCHANGED <<library, scriptRecs, lastRun, cancel, cancelled, env, scriptFaults>>

UnregisterCancel(g) ==
  /\ At(g, "unregister")
  /\ cancel' = cancel \ {g.id} /\ MovesTo(g, "verdict")
  /\ UNCHANGED <<library, scriptRecs, lastRun, cancelled, env, scriptFaults>>

Verdict(g) ==
  /\ At(g, "verdict")
  /\ \/ CallOk /\ scriptRecs' = WithStatus(g.id, g.outcome)
     \/ CallFails /\ UNCHANGED scriptRecs
  /\ MovesTo(g, "list")
  /\ UNCHANGED <<library, lastRun, cancel, cancelled, env>>

\* pruneScriptRecords: oldest first, all that are too many, of whatever script.
Newer(r) == {s \in scriptRecs : s.id > r.id}
\* Mutant: the record of the run itself is not counted.
TooMany_OffByOne == {r \in scriptRecs : Cardinality(Newer(r)) > MaxKept}
TooMany == {r \in scriptRecs : Cardinality(Newer(r)) >= MaxKept}

ListRecords(g) ==
  /\ At(g, "list")
  /\ \/ CallOk /\ Becomes(g, [g EXCEPT !.at = "prune", !.doomed = {r.id : r \in TooMany}])
     \/ CallFails /\ goroutines' = goroutines \ {g}
  /\ UNCHANGED <<library, scriptRecs, lastRun, cancel, cancelled, env>>

\* Deletions that fail are passed over.
Prune(g) ==
  /\ At(g, "prune")
  /\ \/ CallOk /\ scriptRecs' = {r \in scriptRecs : r.id \notin g.doomed}
     \/ CallFails /\ g.doomed # {} /\ UNCHANGED scriptRecs
  /\ goroutines' = goroutines \ {g}
  /\ UNCHANGED <<library, lastRun, cancel, cancelled, env>>

----------------------------------------------------------------------------
\* StopRun finds the run only while its cancel function is registered.
StopRun(i) ==
  /\ scriptUp /\ i \in cancel
  /\ cancelled' = cancelled \cup {i}
  /\ UNCHANGED <<library, scriptRecs, lastRun, goroutines, cancel, env, scriptFaults>>

ClearScriptRecords(s) ==
  /\ scriptUp /\ scriptRecs # {}
  /\ scriptRecs' = {r \in scriptRecs : r.script # s}
  /\ UNCHANGED <<library, lastRun, goroutines, cancel, cancelled, env, scriptFaults>>

\* Delete: records, then the script; a run under way goes on.
Delete(s) ==
  /\ scriptUp /\ s \in library
  /\ scriptRecs' = {r \in scriptRecs : r.script # s}
  /\ \/ CallOk /\ library' = library \ {s}
     \/ CallFails /\ UNCHANGED library
  /\ UNCHANGED <<lastRun, goroutines, cancel, cancelled, env>>

ScriptCrash ==
  /\ scriptUp /\ scriptCrashes < MaxScriptCrashes
  /\ scriptUp' = FALSE /\ scriptCrashes' = scriptCrashes + 1
  /\ goroutines' = {} /\ cancel' = {} /\ cancelled' = {}
  /\ UNCHANGED <<library, scriptRecs, lastRun, scriptFaults>>

\* Mutant: only the running ones are settled.
Unsettled_Running == {r \in scriptRecs : r.status = "running"}
Unsettled == {r \in scriptRecs : r.status \in {"running", "waiting"}}

\* The error of the statement is dropped.
RestoreScriptRecords ==
  /\ ~scriptUp /\ scriptUp' = TRUE
  /\ \/ /\ scriptFaults' = 0
        /\ scriptRecs' = (scriptRecs \ Unsettled) \cup {[r EXCEPT !.status = "failed"] : r \in Unsettled}
     \/ MaxScriptFaults > 0 /\ scriptFaults' = 1 /\ UNCHANGED scriptRecs
  /\ UNCHANGED <<library, lastRun, goroutines, cancel, cancelled, scriptCrashes>>

----------------------------------------------------------------------------
RunStep(g) ==
  \/ OpenLog(g) \/ MarkRunning(g) \/ RegisterCancel(g) \/ Start(g) \/ Killed(g)
  \/ UnregisterCancel(g) \/ Verdict(g) \/ ListRecords(g) \/ Prune(g)

ScriptNext ==
  \/ \E s \in Scripts : Run(s) \/ ClearScriptRecords(s) \/ Delete(s)
  \/ \E g \in goroutines : RunStep(g) \/ Exit(g)
  \/ \E i \in cancel : StopRun(i)
  \/ ScriptCrash \/ RestoreScriptRecords

\* A goroutine that can go on does; nothing is assumed of scripts (Exit).
StepOf(i) == \E g \in goroutines : g.id = i /\ RunStep(g)

ScriptSpec == ScriptInit /\ [][ScriptNext]_scriptVars

----------------------------------------------------------------------------
(* Properties. *)

\* service/backup.go:337 counts waiting and running records: they belong to runs
\* under way, in this process and after a restart, when no statement failed.
ScriptPendingIsRun ==
  scriptUp /\ scriptFaults = 0 =>
    \A r \in scriptRecs : r.status \in {"waiting", "running"} => \E g \in goroutines : g.id = r.id

\* service/script_library.go:37: once the runs have ended no more than MaxKept
\* records are left, however their prunings overlapped.
ScriptHistoryIsBounded ==
  goroutines = {} /\ scriptFaults = 0 /\ scriptCrashes = 0 => Cardinality(scriptRecs) <= MaxKept

\* A stop that was accepted ends the run, even if its process does not die.
ScriptStopEnds ==
  \A i \in 1..MaxRuns : i \in cancelled ~> \A g \in goroutines : g.id # i
=============================================================================
