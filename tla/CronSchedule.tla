---------------------------- MODULE CronSchedule ----------------------------
(***************************************************************************)
(* Which cronjobs are scheduled: the rows of table cronjobs next to the    *)
(* entries of robfig/cron, as the requests Create, Update, UpdateStatus    *)
(* and Delete change them (service/cronjob.go, scheduler.Register and      *)
(* Remove) and RestoreCronjobs rebuilds them after a crash.                *)
(*                                                                         *)
(* Requests run concurrently without a lock: a statement, Register and     *)
(* Remove are single steps, and a request works on the row it read first.  *)
(***************************************************************************)
EXTENDS Integers, FiniteSets

CONSTANTS
  Jobs,        \* cronjobs, by id
  Admins,      \* slots for concurrent requests
  Specs,       \* numbers of "&&" parts a spec may have; 0 for a blank spec
  MaxEntries,  \* bound: requests to register begin while the last entry id is below it
  MaxFaults,   \* bound: failing statements per process lifetime
  MaxCrashes   \* bound: crashes of the process

ASSUME ScheduleAssumption ==
  /\ Jobs # {}
  /\ Specs \subseteq Nat
  /\ MaxEntries \in Nat /\ MaxFaults \in Nat /\ MaxCrashes \in Nat

VARIABLES
  row,         \* table cronjobs
  entries,     \* entries of the cron scheduler
  lastId,      \* the last entry id cron gave; it starts from 1 in every process
  pc,          \* where each request is
  loc,         \* its local variables
  phase,       \* "up", "down", or "boot" while RestoreCronjobs is running
  todo,        \* the enabled rows RestoreCronjobs has still to register
  faults,      \* failed statements since the process started
  crashes,
  refused,     \* history: cronjobs whose row the unique index last refused to write
  alone        \* history: no two requests have overlapped so far, in any process

vars == <<row, entries, lastId, pc, loc, phase, todo, faults, crashes, refused, alone>>
sched == <<entries, lastId>>
life == <<phase, todo, crashes>>
proc == <<life, refused, alone>>

StatusEnum == {"enabled", "disabled"}
Row == [state : {"absent", "live", "deleted"}, status : StatusEnum, parts : Nat, ids : SUBSET Nat]

\* job: the cronjob; status, ids: of the row that was read, then to be written;
\* new: the entries just registered; parts: the spec to register.
Locals ==
  [job : Jobs, status : StatusEnum, parts : Nat, ids : SUBSET Nat, new : SUBSET Nat]

NoLocals ==
  [job |-> CHOOSE j \in Jobs : TRUE, status |-> "disabled", parts |-> 0, ids |-> {}, new |-> {}]

Label ==
  {"idle", "createReg", "createRow", "updateReg", "updateRemove", "updateRow",
   "enableReg", "disableRemove", "statusRow", "deleteRemove", "deleteClean", "deleteRow"}

TypeOK ==
  /\ row \in [Jobs -> Row]
  /\ entries \subseteq [id : Nat, job : Jobs]
  /\ lastId \in Nat
  /\ pc \in [Admins -> Label]
  /\ loc \in [Admins -> Locals]
  /\ phase \in {"up", "down", "boot"}
  /\ todo \subseteq Jobs
  /\ faults \in Nat
  /\ crashes \in Nat
  /\ refused \subseteq Jobs
  /\ alone \in BOOLEAN

----------------------------------------------------------------------------
Live(j) == row[j].state = "live"
EntriesOf(j) == {e.id : e \in {x \in entries : x.job = j}}

StmtOk == faults' = faults
StmtFails == faults < MaxFaults /\ faults' = faults + 1

Goto(a, l) == pc' = [pc EXCEPT ![a] = l]
Return(a) == Goto(a, "idle") /\ loc' = [loc EXCEPT ![a] = NoLocals]

\* Register: one entry per part of the spec; a blank spec is refused.
\* Mutant: an id is the number of entries there are, which may be in use.
FreshIds_Count(n) == (Cardinality(entries) + 1)..(Cardinality(entries) + n)
FreshIds(n) == (lastId + 1)..(lastId + n)
Register(j, n) ==
  /\ entries' = entries \cup {[id |-> i, job |-> j] : i \in FreshIds(n)}
  /\ lastId' = lastId + n

\* Remove goes by the ids alone, whatever cronjob they belong to now.
Without(ids) == {e \in entries : e.id \notin ids}

Init ==
  /\ row = [j \in Jobs |-> [state |-> "absent", status |-> "disabled", parts |-> 0, ids |-> {}]]
  /\ entries = {} /\ lastId = 0
  /\ pc = [a \in Admins |-> "idle"]
  /\ loc = [a \in Admins |-> NoLocals]
  /\ phase = "up" /\ todo = {} /\ faults = 0 /\ crashes = 0
  /\ refused = {} /\ alone = TRUE

Request(a) ==
  /\ phase = "up" /\ pc[a] = "idle"
  /\ alone' = (alone /\ \A b \in Admins : pc[b] = "idle")
Budget == lastId < MaxEntries

----------------------------------------------------------------------------
(* Create: the entries come first, then the row. *)

Create(a, j, n) ==
  /\ Request(a) /\ Budget /\ row[j].state = "absent"
  /\ loc' = [loc EXCEPT ![a].job = j, ![a].parts = n]
  /\ Goto(a, "createReg")
  /\ UNCHANGED <<row, sched, life, refused, faults>>

CreateRegister(a) ==
  /\ pc[a] = "createReg"
  /\ LET n == loc[a].parts IN
     IF n = 0 THEN Return(a) /\ UNCHANGED sched
     ELSE /\ Register(loc[a].job, n)
          /\ loc' = [loc EXCEPT ![a].new = FreshIds(n)]
          /\ Goto(a, "createRow")
  /\ UNCHANGED <<row, proc, faults>>

\* The unique index refuses the name a concurrent Create took.
CreateRow(a) ==
  /\ pc[a] = "createRow"
  /\ LET j == loc[a].job IN
     \/ /\ StmtOk /\ row[j].state = "absent"
        /\ row' = [row EXCEPT ![j] = [state |-> "live", status |-> "enabled",
                                      parts |-> loc[a].parts, ids |-> loc[a].new]]
        /\ UNCHANGED entries
     \/ /\ StmtOk /\ row[j].state # "absent"
        /\ entries' = Without(loc[a].new) /\ UNCHANGED row
     \/ /\ StmtFails
        /\ entries' = Without(loc[a].new) /\ UNCHANGED row
  /\ Return(a)
  /\ UNCHANGED <<lastId, proc>>

----------------------------------------------------------------------------
(* Update: read the row; if it is enabled register the new spec, remove the *)
(* old entries; write the row, which does not touch its status.             *)

Update(a, j, n) ==
  /\ Request(a) /\ Live(j) /\ (row[j].status = "enabled" => Budget)
  /\ loc' = [loc EXCEPT ![a] = [job |-> j, status |-> row[j].status, parts |-> n,
                                ids |-> row[j].ids, new |-> {}]]
  /\ Goto(a, IF row[j].status = "enabled" THEN "updateReg" ELSE "updateRow")
  /\ UNCHANGED <<row, sched, life, refused, faults>>

\* Mutant: the order the code had once, remove before register.
UpdateRegister_RemovesFirst(a) ==
  /\ pc[a] = "updateReg"
  /\ LET n == loc[a].parts IN
     IF n = 0 THEN Return(a) /\ entries' = Without(loc[a].ids) /\ UNCHANGED lastId
     ELSE /\ Register(loc[a].job, n)
          /\ loc' = [loc EXCEPT ![a].new = FreshIds(n)]
          /\ Goto(a, "updateRemove")
  /\ UNCHANGED <<row, proc, faults>>

UpdateRegister(a) ==
  /\ pc[a] = "updateReg"
  /\ LET n == loc[a].parts IN
     IF n = 0 THEN Return(a) /\ UNCHANGED sched
     ELSE /\ Register(loc[a].job, n)
          /\ loc' = [loc EXCEPT ![a].new = FreshIds(n)]
          /\ Goto(a, "updateRemove")
  /\ UNCHANGED <<row, proc, faults>>

\* Mutant: the row is written with the ids it was read with.
UpdateRemove_KeepsIds(a) ==
  /\ pc[a] = "updateRemove"
  /\ entries' = Without(loc[a].ids)
  /\ Goto(a, "updateRow")
  /\ UNCHANGED <<row, lastId, loc, proc, faults>>

UpdateRemove(a) ==
  /\ pc[a] = "updateRemove"
  /\ entries' = Without(loc[a].ids)
  /\ loc' = [loc EXCEPT ![a].ids = loc[a].new]
  /\ Goto(a, "updateRow")
  /\ UNCHANGED <<row, lastId, proc, faults>>

\* An update of a row that is gone changes nothing and is no error. Update writes
\* the name it was sent as it is: the unique index refuses the name of another
\* cronjob, by now with the new entries in place of the old.
UpdateRow(a) ==
  /\ pc[a] = "updateRow"
  /\ LET j == loc[a].job IN
     \/ /\ StmtOk /\ Live(j)
        /\ row' = [row EXCEPT ![j].parts = loc[a].parts, ![j].ids = loc[a].ids]
        /\ refused' = refused \ {j}
     \/ /\ StmtOk /\ Live(j) /\ \E other \in Jobs \ {j} : Live(other)
        /\ refused' = refused \cup {j} /\ UNCHANGED row
     \/ StmtOk /\ ~Live(j) /\ UNCHANGED <<row, refused>>
     \/ StmtFails /\ UNCHANGED <<row, refused>>
  /\ Return(a)
  /\ UNCHANGED <<sched, life, alone>>

----------------------------------------------------------------------------
(* UpdateStatus: enabling registers the row's spec without a look at the    *)
(* entries it may already have; disabling removes the entries of the row.   *)

\* Mutant: the status that was sent is not validated.
UpdateStatus_AnyStatus(a, j, s) ==
  /\ Request(a) /\ Live(j) /\ (s = "enabled" => Budget)
  /\ loc' = [loc EXCEPT ![a] = [job |-> j, status |-> s, parts |-> row[j].parts,
                                ids |-> row[j].ids, new |-> {}]]
  /\ Goto(a, IF s = "enabled" THEN "enableReg" ELSE "disableRemove")
  /\ UNCHANGED <<row, sched, life, refused, faults>>

UpdateStatus(a, j, s) ==
  /\ Request(a) /\ Live(j) /\ s \in StatusEnum /\ (s = "enabled" => Budget)
  /\ loc' = [loc EXCEPT ![a] = [job |-> j, status |-> s, parts |-> row[j].parts,
                                ids |-> row[j].ids, new |-> {}]]
  /\ Goto(a, IF s = "enabled" THEN "enableReg" ELSE "disableRemove")
  /\ UNCHANGED <<row, sched, life, refused, faults>>

EnableRegister(a) ==
  /\ pc[a] = "enableReg"
  /\ LET n == loc[a].parts IN
     IF n = 0 THEN Return(a) /\ UNCHANGED sched
     ELSE /\ Register(loc[a].job, n)
          /\ loc' = [loc EXCEPT ![a].ids = FreshIds(n), ![a].new = FreshIds(n)]
          /\ Goto(a, "statusRow")
  /\ UNCHANGED <<row, proc, faults>>

DisableRemove(a) ==
  /\ pc[a] = "disableRemove"
  /\ entries' = Without(loc[a].ids)
  /\ loc' = [loc EXCEPT ![a].ids = {}]
  /\ Goto(a, "statusRow")
  /\ UNCHANGED <<row, lastId, proc, faults>>

\* A failed write takes back what enabling registered.
StatusRow(a) ==
  /\ pc[a] = "statusRow"
  /\ LET j == loc[a].job IN
     \/ /\ StmtOk /\ Live(j)
        /\ row' = [row EXCEPT ![j].status = loc[a].status, ![j].ids = loc[a].ids]
        /\ refused' = refused \ {j}
        /\ UNCHANGED entries
     \/ StmtOk /\ ~Live(j) /\ UNCHANGED <<row, entries, refused>>
     \/ StmtFails /\ entries' = Without(loc[a].new) /\ UNCHANGED <<row, refused>>
  /\ Return(a)
  /\ UNCHANGED <<lastId, life, alone>>

----------------------------------------------------------------------------
(* Delete: entries, records (two statements, of which a failure of the      *)
(* second ends the request), row.                                           *)

Delete(a, j) ==
  /\ Request(a) /\ Live(j)
  /\ loc' = [loc EXCEPT ![a].job = j, ![a].ids = row[j].ids]
  /\ Goto(a, "deleteRemove")
  /\ UNCHANGED <<row, sched, life, refused, faults>>

DeleteRemove(a) ==
  /\ pc[a] = "deleteRemove"
  /\ entries' = Without(loc[a].ids)
  /\ Goto(a, "deleteClean")
  /\ UNCHANGED <<row, lastId, loc, proc, faults>>

DeleteClean(a) ==
  /\ pc[a] = "deleteClean"
  /\ \/ StmtOk /\ Goto(a, "deleteRow") /\ UNCHANGED loc
     \/ StmtFails /\ Return(a)
  /\ UNCHANGED <<row, sched, proc>>

DeleteRow(a) ==
  /\ pc[a] = "deleteRow"
  /\ LET j == loc[a].job IN
     \/ StmtOk /\ row' = [row EXCEPT ![j].state = "deleted", ![j].ids = {}]
     \/ StmtFails /\ UNCHANGED row
  /\ Return(a)
  /\ UNCHANGED <<sched, proc>>

\* A request about a cronjob that is not there is refused.
NotFound(a, j) == phase = "up" /\ pc[a] = "idle" /\ ~Live(j) /\ UNCHANGED vars

----------------------------------------------------------------------------
(* Crash and restart. *)

Crash ==
  /\ phase # "down" /\ crashes < MaxCrashes
  /\ phase' = "down" /\ crashes' = crashes + 1
  /\ entries' = {} /\ lastId' = 0 /\ todo' = {} /\ refused' = {}
  /\ pc' = [a \in Admins |-> "idle"]
  /\ loc' = [a \in Admins |-> NoLocals]
  /\ UNCHANGED <<row, faults, alone>>

\* Mutant: every row is restored, whatever its status.
ToRestore_All == {j \in Jobs : Live(j) /\ row[j].parts > 0}
ToRestore == {j \in Jobs : Live(j) /\ row[j].status = "enabled"}

\* A failed list of the enabled cronjobs ends RestoreCronjobs, silently.
Boot ==
  /\ phase = "down"
  /\ phase' = "boot"
  /\ \/ faults' = 0 /\ todo' = ToRestore
     \/ MaxFaults > 0 /\ faults' = 1 /\ todo' = {}
  /\ UNCHANGED <<row, sched, pc, loc, crashes, refused, alone>>

\* Register one row and write its new entry ids; a failure of either is passed
\* over.
RestoreCronjob(j) ==
  /\ phase = "boot" /\ j \in todo
  /\ todo' = todo \ {j}
  /\ LET n == row[j].parts IN
     \/ StmtOk /\ n = 0 /\ UNCHANGED <<row, sched>>
     \/ /\ StmtOk /\ n > 0 /\ Register(j, n)
        /\ row' = [row EXCEPT ![j].ids = FreshIds(n)]
     \/ /\ StmtFails /\ n > 0 /\ Register(j, n)
        /\ UNCHANGED row
  /\ UNCHANGED <<pc, loc, phase, crashes, refused, alone>>

Serve ==
  /\ phase = "boot" /\ todo = {}
  /\ phase' = "up"
  /\ UNCHANGED <<row, sched, pc, loc, todo, faults, crashes, refused, alone>>

----------------------------------------------------------------------------
Step(a) ==
  \/ CreateRegister(a) \/ CreateRow(a)
  \/ UpdateRegister(a) \/ UpdateRemove(a) \/ UpdateRow(a)
  \/ EnableRegister(a) \/ DisableRemove(a) \/ StatusRow(a)
  \/ DeleteRemove(a) \/ DeleteClean(a) \/ DeleteRow(a)

Ask(a) ==
  \E j \in Jobs :
    \/ \E n \in Specs : Create(a, j, n) \/ Update(a, j, n)
    \/ \E s \in StatusEnum \cup {"pending"} : UpdateStatus(a, j, s)
    \/ Delete(a, j)
    \/ NotFound(a, j)

Next ==
  \/ \E a \in Admins : Ask(a) \/ Step(a)
  \/ Crash \/ Boot \/ Serve
  \/ \E j \in Jobs : RestoreCronjob(j)

Spec == Init /\ [][Next]_vars

----------------------------------------------------------------------------
(* Properties. *)

AtRest == phase = "up" /\ \A a \in Admins : pc[a] = "idle"

\* README.md:560: an enabled cronjob is scheduled, however the requests about it
\* interleaved: no order of Update, UpdateStatus and Delete silently stops it.
EnabledIsScheduled ==
  AtRest /\ faults = 0 => \A j \in Jobs : Live(j) /\ row[j].status = "enabled" => EntriesOf(j) # {}

\* The row of an enabled cronjob names entries that are its own and do exist, so
\* that the next Update, disable or Delete finds them: requests one at a time, no
\* failed statement, and the row's last write not refused for a taken name. An
\* update that was refused does no lasting harm: the next one heals the row.
RecordedAreLive ==
  AtRest /\ alone /\ faults = 0 =>
    \A j \in Jobs \ refused : Live(j) /\ row[j].status = "enabled" =>
      row[j].ids # {} /\ row[j].ids \subseteq EntriesOf(j)

\* Until the first crash an entry disappears only by a request about its own
\* cronjob, even when statements fail: no id a row or a request still remembers
\* comes to name an entry of another cronjob.
RemovesOwn ==
  [][crashes' = 0 =>
       \A e \in entries \ entries' :
         \E a \in Admins : pc'[a] # pc[a] /\ loc[a].job = e.job]_vars

\* The restart schedules the enabled cronjobs, each once and under the ids its row
\* then names, and nothing else, if requests have come one at a time: whatever was
\* orphaned before is gone.
RestartIsExact ==
  [][phase = "boot" /\ phase' = "up" /\ alone /\ faults' = 0 =>
       \A j \in Jobs :
         EntriesOf(j) = IF Live(j) /\ row[j].status = "enabled" THEN row[j].ids ELSE {}]_vars

\* README.md:8 (start and stop a cronjob): a disabled cronjob does not fire.
DisabledIsSilent ==
  AtRest /\ faults = 0 => \A j \in Jobs : Live(j) /\ row[j].status = "disabled" => EntriesOf(j) = {}
=============================================================================
