----------------------------- MODULE FileWatch -----------------------------
(***************************************************************************)
(* File watch tasks: the rows of table file_watches, the watchers the      *)
(* WatchManager has registered for them, and the runs events start         *)
(* (service/filewatch.go, scheduler/watcher.go).                           *)
(*                                                                         *)
(* Requests and event loops run concurrently.  A statement and a section   *)
(* under the manager's lock are single steps; a request works on the row   *)
(* it read first.  What one watcher does with its paths is WatchRoots.     *)
(***************************************************************************)
EXTENDS Integers, FiniteSets

CONSTANTS
  Tasks,       \* file watch tasks, by id
  Admins,      \* slots for concurrent requests
  Confs,       \* configurations a task may be given (paths, events, script ...)
  Retain,      \* retain_copies of every task; 0 keeps all records
  MaxStarts,   \* bound: requests that may start a watcher begin below it
  MaxRecords,  \* bound: records
  MaxFaults,   \* bound: failing statements or system calls per process lifetime
  MaxClashes,  \* bound: updates to a name another task has
  MaxCrashes   \* bound: crashes of the process

ASSUME FileWatchAssumption ==
  /\ Tasks # {} /\ Confs # {}
  /\ Admins \cap Nat = {}
  /\ {Retain, MaxStarts, MaxRecords, MaxFaults, MaxClashes, MaxCrashes} \subseteq Nat

VARIABLES
  row,       \* table file_watches
  reg,       \* WatchManager.entries: the id of the registered watcher, 0 for none
  watchers,  \* watchers whose event loop has not ended
  started,   \* watchers started so far
  pc, loc,   \* where each request is, and its local variables
  calls,     \* HandleWatch calls under way, each by an event loop or a request
  records,   \* table file_watch_records
  lastRec,   \* the last id of a record
  runs,      \* goroutines of HandleWatch
  phase,     \* "up", "down", or "boot" while RestoreFilewatches is running
  todo,      \* the tasks RestoreFilewatches has still to register
  alone,     \* no two requests have overlapped since the process started
  faults, clashes, crashes

table == <<row, clashes>>
manager == <<reg, watchers, started>>
request == <<pc, loc, alone>>
history == <<calls, records, lastRec, runs>>
proc == <<phase, todo, crashes>>
vars == <<table, manager, request, history, proc, faults>>

StatusEnum == {"enable", "disable"}
Row == [state : {"absent", "live", "deleted"}, status : StatusEnum, conf : Confs, key : BOOLEAN]
Watcher == [id : Nat \ {0}, task : Tasks, conf : Confs, open : BOOLEAN]
Ops == {"none", "create", "update", "enable", "disable", "delete"}
Label == {"idle", "start", "forget", "close", "write", "clean", "delete", "prune"}

\* status, conf: of the row that was read, then of the row to be written;
\* wid: the watcher Stop has taken out of the map and is about to close.
Locals == [op : Ops, task : Tasks, status : StatusEnum, conf : Confs, wid : Nat]
NoConf == CHOOSE c \in Confs : TRUE
NoLocals == [op |-> "none", task |-> CHOOSE t \in Tasks : TRUE, status |-> "disable",
             conf |-> NoConf, wid |-> 0]

\* by: the id of a watcher, or a request; life: the process lifetime.
HandleCall == [by : Nat \cup Admins, task : Tasks, at : {"get", "create"}]
FileWatchRecord == [id : Nat, task : Tasks, status : {"waiting", "failed", "success"}, life : Nat]
Run == [rec : Nat, task : Tasks, at : {"exec", "prune"}]

TypeOK ==
  /\ row \in [Tasks -> Row]
  /\ reg \in [Tasks -> Nat] /\ watchers \subseteq Watcher /\ started \in Nat
  /\ pc \in [Admins -> Label] /\ loc \in [Admins -> Locals]
  /\ calls \subseteq HandleCall
  /\ records \subseteq FileWatchRecord /\ lastRec \in Nat /\ runs \subseteq Run
  /\ phase \in {"up", "down", "boot"} /\ todo \subseteq Tasks /\ alone \in BOOLEAN
  /\ {faults, clashes, crashes} \subseteq Nat

----------------------------------------------------------------------------
Live(t) == row[t].state = "live"
Open(t) == {w \in watchers : w.task = t /\ w.open}

Ok == faults' = faults
Fails == faults < MaxFaults /\ faults' = faults + 1

Goto(a, l) == pc' = [pc EXCEPT ![a] = l]
Return(a) == Goto(a, "idle") /\ loc' = [loc EXCEPT ![a] = NoLocals] /\ UNCHANGED alone

\* close(): idempotent; the loop ends later.
Closed(i) == {IF w.id = i THEN [w EXCEPT !.open = FALSE] ELSE w : w \in watchers}

\* WatchManager.Start: the previous watcher of the task is closed first.
\* Mutant: the previous watcher is only replaced in the map.
StartWatcher_Replaces(t, c) ==
  /\ started' = started + 1
  /\ watchers' = watchers \cup {[id |-> started + 1, task |-> t, conf |-> c, open |-> TRUE]}
  /\ reg' = [reg EXCEPT ![t] = started + 1]
StartWatcher(t, c) ==
  /\ started' = started + 1
  /\ watchers' = Closed(reg[t]) \cup {[id |-> started + 1, task |-> t, conf |-> c, open |-> TRUE]}
  /\ reg' = [reg EXCEPT ![t] = started + 1]

\* NewWatcher fails: the closed watcher stays in the map.
StartFails(t) == watchers' = Closed(reg[t]) /\ UNCHANGED <<reg, started>>

\* removeExpiredLog: of the newest Retain + 1 records all but Retain.
Newer(r) == {s \in records : s.task = r.task /\ s.id > r.id}
Expired(t) == {r \in records : Retain > 0 /\ r.task = t /\ Cardinality(Newer(r)) = Retain}

Init ==
  /\ row = [t \in Tasks |-> [state |-> "absent", status |-> "disable",
                             conf |-> NoConf, key |-> FALSE]]
  /\ reg = [t \in Tasks |-> 0] /\ watchers = {} /\ started = 0
  /\ pc = [a \in Admins |-> "idle"] /\ loc = [a \in Admins |-> NoLocals]
  /\ calls = {} /\ records = {} /\ lastRec = 0 /\ runs = {}
  /\ phase = "up" /\ todo = {} /\ alone = TRUE
  /\ faults = 0 /\ clashes = 0 /\ crashes = 0

----------------------------------------------------------------------------
(* Requests. *)

Idle(a) == pc[a] = "idle" /\ \A c \in calls : c.by # a
Begin(a, o, t, s, c, l) ==
  /\ phase = "up" /\ Idle(a)
  /\ loc' = [loc EXCEPT ![a] = [op |-> o, task |-> t, status |-> s, conf |-> c, wid |-> 0]]
  /\ Goto(a, l)
  /\ alone' = (alone /\ \A b \in Admins : Idle(b))

\* The row is committed before its watcher is started.
Create(a, t, c) ==
  /\ row[t].state = "absent" /\ started < MaxStarts
  /\ Begin(a, "create", t, "enable", c, "start")
  /\ row' = [row EXCEPT ![t] = [state |-> "live", status |-> "enable", conf |-> c, key |-> FALSE]]
  /\ UNCHANGED <<clashes, manager, history, proc, faults>>

Update(a, t, c) ==
  /\ Live(t) /\ started < MaxStarts
  /\ Begin(a, "update", t, row[t].status, c, "forget")
  /\ UNCHANGED <<table, manager, history, proc, faults>>

\* Mutant: the status that was sent is not validated.
UpdateStatus_AnyStatus(a, t, s) ==
  /\ Live(t) /\ (s = "enable" => started < MaxStarts)
  /\ Begin(a, s, t, s, IF s = "enable" THEN row[t].conf ELSE NoConf,
           IF s = "enable" THEN "start" ELSE "forget")
  /\ UNCHANGED <<table, manager, history, proc, faults>>
UpdateStatus(a, t, s) ==
  /\ Live(t) /\ s \in StatusEnum /\ (s = "enable" => started < MaxStarts)
  /\ Begin(a, s, t, s, IF s = "enable" THEN row[t].conf ELSE NoConf,
           IF s = "enable" THEN "start" ELSE "forget")
  /\ UNCHANGED <<table, manager, history, proc, faults>>

Delete(a, t) ==
  /\ Live(t)
  /\ Begin(a, "delete", t, "disable", NoConf, "forget")
  /\ UNCHANGED <<table, manager, history, proc, faults>>

ClearRecords(a, t) ==
  /\ phase = "up" /\ Idle(a)
  /\ records' = {r \in records : r.task # t}
  /\ UNCHANGED <<table, manager, request, calls, lastRec, runs, proc, faults>>

\* register: start the watcher, then write its key; a failure of either is an error.
AfterRegister(a) ==
  CASE loc[a].op = "update" -> Goto(a, "prune") /\ UNCHANGED <<loc, alone>>
    [] loc[a].op = "enable" -> Goto(a, "write") /\ UNCHANGED <<loc, alone>>
    [] OTHER -> Return(a)
Register(a) ==
  /\ pc[a] = "start"
  /\ LET t == loc[a].task IN
     \/ /\ Ok /\ StartWatcher(t, loc[a].conf) /\ AfterRegister(a)
        /\ row' = [row EXCEPT ![t].key = @ \/ Live(t)]
     \/ Fails /\ StartWatcher(t, loc[a].conf) /\ UNCHANGED row /\ Return(a)
     \/ Fails /\ StartFails(t) /\ UNCHANGED row /\ Return(a)
  /\ UNCHANGED <<clashes, history, proc>>

\* Stop: out of the map under the lock, closed after it.
Forget(a) ==
  /\ pc[a] = "forget"
  /\ reg' = [reg EXCEPT ![loc[a].task] = 0]
  /\ loc' = [loc EXCEPT ![a].wid = reg[loc[a].task]]
  /\ Goto(a, "close") /\ UNCHANGED alone
  /\ UNCHANGED <<watchers, started, table, history, proc, faults>>

Close(a) ==
  /\ pc[a] = "close"
  /\ watchers' = Closed(loc[a].wid)
  /\ loc' = [loc EXCEPT ![a].wid = 0]
  /\ Goto(a, IF loc[a].op = "delete" THEN "clean" ELSE "write") /\ UNCHANGED alone
  /\ UNCHANGED <<reg, started, table, history, proc, faults>>

\* The row of an Update.  The unique index refuses a name that is taken; an
\* update of a row that is gone changes nothing and is no error.
WriteConf(a) ==
  /\ pc[a] = "write" /\ loc[a].op = "update"
  /\ LET t == loc[a].task
         next == IF loc[a].status = "enable" THEN "start" ELSE "prune"
     IN \/ /\ Ok
           /\ row' = [row EXCEPT ![t].conf = IF Live(t) THEN loc[a].conf ELSE row[t].conf]
           /\ Goto(a, next) /\ UNCHANGED <<loc, alone, clashes>>
        \/ /\ Ok /\ clashes < MaxClashes /\ clashes' = clashes + 1
           /\ \E u \in Tasks \ {t} : Live(u)
           /\ Return(a) /\ UNCHANGED row
        \/ Fails /\ Return(a) /\ UNCHANGED <<row, clashes>>
  /\ UNCHANGED <<manager, history, proc>>

\* The row of UpdateStatus, after its watcher was started or stopped.
WriteStatus(a) ==
  /\ pc[a] = "write" /\ loc[a].op \in StatusEnum
  /\ LET t == loc[a].task IN
     \/ Ok /\ Live(t) /\ row' = [row EXCEPT ![t].status = loc[a].status]
     \/ Ok /\ ~Live(t) /\ UNCHANGED row
     \/ Fails /\ UNCHANGED row
  /\ Return(a)
  /\ UNCHANGED <<clashes, manager, history, proc>>

Prune(a) ==
  /\ pc[a] = "prune"
  /\ \/ Ok /\ records' = records \ Expired(loc[a].task)
     \/ Fails /\ UNCHANGED records
  /\ Return(a)
  /\ UNCHANGED <<table, manager, calls, lastRec, runs, proc>>

CleanRecords(a) ==
  /\ pc[a] = "clean"
  /\ \/ /\ Ok /\ records' = {r \in records : r.task # loc[a].task}
        /\ Goto(a, "delete") /\ UNCHANGED <<loc, alone>>
     \/ Fails /\ UNCHANGED records /\ Return(a)
  /\ UNCHANGED <<table, manager, calls, lastRec, runs, proc>>

DeleteRow(a) ==
  /\ pc[a] = "delete"
  /\ \/ Ok /\ row' = [row EXCEPT ![loc[a].task].state = "deleted"]
     \/ Fails /\ UNCHANGED row
  /\ Return(a)
  /\ UNCHANGED <<clashes, manager, history, proc>>

----------------------------------------------------------------------------
(* Events and runs. *)

\* The loop takes an event.  After close() its select may still find one, as long
\* as it has not picked done.
Budget == lastRec + Cardinality(calls) < MaxRecords
Event(w) ==
  /\ w \in watchers /\ Budget /\ phase # "down"
  /\ \A c \in calls : c.by # w.id
  /\ calls' = calls \cup {[by |-> w.id, task |-> w.task, at |-> "get"]}
  /\ UNCHANGED <<table, manager, request, records, lastRec, runs, proc, faults>>

LoopEnds(w) ==
  /\ w \in watchers /\ ~w.open /\ \A c \in calls : c.by # w.id
  /\ watchers' = watchers \ {w}
  /\ UNCHANGED <<reg, started, table, request, history, proc, faults>>

\* The manual trigger: no look at runs that are pending.
HandleOnce(a, t) ==
  /\ phase = "up" /\ Idle(a) /\ Live(t) /\ Budget
  /\ calls' = calls \cup {[by |-> a, task |-> t, at |-> "get"]}
  /\ UNCHANGED <<table, manager, request, records, lastRec, runs, proc, faults>>

\* HandleWatch reads the row; its status is not looked at.
HandleGet(c) ==
  /\ c \in calls /\ c.at = "get"
  /\ \/ Ok /\ Live(c.task) /\ calls' = (calls \ {c}) \cup {[c EXCEPT !.at = "create"]}
     \/ Ok /\ ~Live(c.task) /\ calls' = calls \ {c}
     \/ Fails /\ calls' = calls \ {c}
  /\ UNCHANGED <<table, manager, request, records, lastRec, runs, proc>>

\* UpdateRecord: nothing happens if the record is gone.
Settled(i, v) == {IF r.id = i THEN [r EXCEPT !.status = v] ELSE r : r \in records}

\* The record and the goroutine.  A log file that cannot be opened fails the run
\* at once, if that can be written.
HandleCreate(c) ==
  /\ c \in calls /\ c.at = "create"
  /\ calls' = calls \ {c}
  /\ LET new(v) == [id |-> lastRec + 1, task |-> c.task, status |-> v, life |-> crashes] IN
     \/ /\ Ok /\ lastRec' = lastRec + 1 /\ records' = records \cup {new("waiting")}
        /\ runs' = runs \cup {[rec |-> lastRec + 1, task |-> c.task, at |-> "exec"]}
     \/ /\ Fails /\ lastRec' = lastRec + 1
        /\ \E v \in {"failed", "waiting"} : records' = records \cup {new(v)}
        /\ runs' = runs \cup {[rec |-> lastRec + 1, task |-> c.task, at |-> "prune"]}
     \/ Fails /\ UNCHANGED <<records, lastRec, runs>>
  /\ UNCHANGED <<table, manager, request, proc>>

\* Mutant: the record of a failed run is not settled.
RunEnds_SuccessOnly(r) ==
  /\ r \in runs /\ r.at = "exec"
  /\ runs' = (runs \ {r}) \cup {[r EXCEPT !.at = "prune"]}
  /\ \/ Ok /\ \E v \in {"success", "waiting"} : records' = Settled(r.rec, v)
     \/ Fails /\ UNCHANGED records
  /\ UNCHANGED <<table, manager, request, calls, lastRec, proc>>
RunEnds(r) ==
  /\ r \in runs /\ r.at = "exec"
  /\ runs' = (runs \ {r}) \cup {[r EXCEPT !.at = "prune"]}
  /\ \/ Ok /\ \E v \in {"success", "failed"} : records' = Settled(r.rec, v)
     \/ Fails /\ UNCHANGED records
  /\ UNCHANGED <<table, manager, request, calls, lastRec, proc>>

RunPrunes(r) ==
  /\ r \in runs /\ r.at = "prune"
  /\ runs' = runs \ {r}
  /\ \/ Ok /\ records' = records \ Expired(r.task)
     \/ Fails /\ UNCHANGED records
  /\ UNCHANGED <<table, manager, request, calls, lastRec, proc>>

----------------------------------------------------------------------------
(* Crash and restart. *)

Crash ==
  /\ phase # "down" /\ crashes < MaxCrashes
  /\ phase' = "down" /\ crashes' = crashes + 1 /\ todo' = {}
  /\ reg' = [t \in Tasks |-> 0] /\ watchers' = {} /\ started' = 0
  /\ pc' = [a \in Admins |-> "idle"] /\ loc' = [a \in Admins |-> NoLocals] /\ alone' = TRUE
  /\ calls' = {} /\ runs' = {}
  /\ UNCHANGED <<row, records, lastRec, faults, clashes>>

\* Mutant: the disabled tasks are restored too.
ToRestore_All == {t \in Tasks : Live(t)}
ToRestore == {t \in Tasks : Live(t) /\ row[t].status = "enable"}

\* The keys of the enabled tasks are cleared.  A failed list ends
\* RestoreFilewatches, silently.  Waiting records are left as they are.
Boot ==
  /\ phase = "down" /\ phase' = "boot" /\ clashes' = 0
  /\ row' = [t \in Tasks |-> IF t \in ToRestore THEN [row[t] EXCEPT !.key = FALSE] ELSE row[t]]
  /\ \/ faults' = 0 /\ todo' = ToRestore
     \/ MaxFaults > 0 /\ faults' = 1 /\ todo' = {}
  /\ UNCHANGED <<manager, request, history, crashes>>

RestoreFilewatch(t) ==
  /\ phase = "boot" /\ t \in todo
  /\ todo' = todo \ {t}
  /\ \/ Ok /\ StartWatcher(t, row[t].conf) /\ row' = [row EXCEPT ![t].key = TRUE]
     \/ Fails /\ StartWatcher(t, row[t].conf) /\ UNCHANGED row
     \/ Fails /\ StartFails(t) /\ UNCHANGED row
  /\ UNCHANGED <<clashes, request, history, phase, crashes>>

Serve ==
  /\ phase = "boot" /\ todo = {} /\ phase' = "up"
  /\ UNCHANGED <<table, manager, request, history, todo, crashes, faults>>

----------------------------------------------------------------------------
Ask(a) ==
  \E t \in Tasks :
    \/ \E c \in Confs : Create(a, t, c) \/ Update(a, t, c)
    \/ \E s \in StatusEnum \cup {"pending"} : UpdateStatus(a, t, s)
    \/ Delete(a, t) \/ ClearRecords(a, t) \/ HandleOnce(a, t)

Step(a) ==
  \/ Register(a) \/ Forget(a) \/ Close(a) \/ WriteConf(a) \/ WriteStatus(a)
  \/ Prune(a) \/ CleanRecords(a) \/ DeleteRow(a)

Watching ==
  \/ \E w \in watchers : Event(w) \/ LoopEnds(w)
  \/ \E c \in calls : HandleGet(c) \/ HandleCreate(c)
  \/ \E r \in runs : RunEnds(r) \/ RunPrunes(r)

Next ==
  \/ \E a \in Admins : Ask(a) \/ Step(a)
  \/ Watching
  \/ Crash \/ Boot \/ Serve
  \/ \E t \in Tasks : RestoreFilewatch(t)

Spec == Init /\ [][Next]_vars

----------------------------------------------------------------------------
(* Properties. *)

AtRest == phase = "up" /\ \A a \in Admins : pc[a] = "idle"

\* scheduler/watcher.go:35: no watcher is leaked, however requests interleave and
\* whatever fails: one that is open is the registered one of its task, or a
\* request is on its way to close it.
NoLeak ==
  \A w \in watchers : w.open =>
    reg[w.task] = w.id \/ \E a \in Admins : pc[a] = "close" /\ loc[a].wid = w.id

\* scheduler/watcher.go:35: each enabled task has one watcher, on the
\* configuration of its row, and a disabled or deleted task has none.  Requests
\* come one at a time, nothing failed and no update was refused since the start.
EnabledIsWatched ==
  AtRest /\ alone /\ faults = 0 /\ clashes = 0 =>
    \A t \in Tasks :
      IF Live(t) /\ row[t].status = "enable"
      THEN \E w \in Open(t) : Open(t) = {w} /\ w.conf = row[t].conf /\ row[t].key
      ELSE Open(t) = {}

\* A record is settled by the run it was created for and by no other, however runs
\* of a task overlap and whatever Delete, ClearRecords and the prunings take away
\* under them.  The records a run is still going to settle are the waiting ones of
\* this process: a verdict is not overwritten, and no run of this process settles
\* what an earlier one left waiting.
WaitingHasRun ==
  /\ \A x, y \in runs : x.rec = y.rec => x = y
  /\ faults = 0 =>
       \A r \in records :
         (\E x \in runs : x.rec = r.id /\ x.at = "exec") <=>
           r.status = "waiting" /\ r.life = crashes

\* model/filewatch.go:22: an enabled task that names a watcher is being watched,
\* so that "enabled but not watching" can be told.
KeyTellsWatching ==
  AtRest /\ alone /\ faults = 0 =>
    \A t \in Tasks : Live(t) /\ row[t].status = "enable" /\ row[t].key => Open(t) # {}
=============================================================================
