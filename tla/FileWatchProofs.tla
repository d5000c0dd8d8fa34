-------------------------- MODULE FileWatchProofs --------------------------
(***************************************************************************)
(* Proofs about FileWatch, for any tasks, requests and configurations and  *)
(* any bounds.                                                             *)
(***************************************************************************)
EXTENDS FileWatch, TLAPS

----------------------------------------------------------------------------
(* Lemmas about the operators. *)

\* The locals of a request that has returned are well-typed.
LEMMA NoLocalsType == NoLocals \in Locals /\ NoConf \in Confs
BY FileWatchAssumption DEF NoLocals, NoConf, Locals, Ops, StatusEnum

\* Closing a watcher keeps the set well-typed, and opens none.
LEMMA ClosedType ==
  ASSUME watchers \subseteq Watcher, NEW i
  PROVE  /\ Closed(i) \subseteq Watcher
         /\ \A w \in Closed(i) : w.open => w \in watchers /\ w.id # i
BY DEF Closed, Watcher

\* Settling a record changes its status and nothing else.
LEMMA SettledType ==
  ASSUME records \subseteq FileWatchRecord, NEW i, NEW v \in {"failed", "success"}
  PROVE  /\ Settled(i, v) \subseteq FileWatchRecord
         /\ \A r \in Settled(i, v) :
              /\ \E s \in records : /\ r.id = s.id /\ r.life = s.life
                                    /\ r.status = "waiting" => r = s /\ r.id # i
              /\ r.id # i => r \in records
BY DEF Settled, FileWatchRecord

\* Registering a watcher keeps the manager's types.
LEMMA StartWatcherType ==
  ASSUME TypeOK, NEW t \in Tasks, NEW c \in Confs, StartWatcher(t, c) \/ StartFails(t)
  PROVE  reg' \in [Tasks -> Nat] /\ watchers' \subseteq Watcher /\ started' \in Nat
<1>1. watchers \subseteq Watcher /\ started \in Nat /\ reg \in [Tasks -> Nat]
  BY DEF TypeOK
<1>2. Closed(reg[t]) \subseteq Watcher
  BY <1>1, ClosedType
<1>3. CASE StartWatcher(t, c)
  <2>1. [id |-> started + 1, task |-> t, conf |-> c, open |-> TRUE] \in Watcher
    BY <1>1 DEF Watcher
  <2>2. started' \in Nat /\ reg' \in [Tasks -> Nat]
    BY <1>1, <1>3 DEF StartWatcher
  <2>3. watchers' = Closed(reg[t]) \cup {[id |-> started + 1, task |-> t, conf |-> c, open |-> TRUE]}
    BY <1>3 DEF StartWatcher
  <2>4. QED
    BY <1>2, <2>1, <2>2, <2>3
<1>4. CASE StartFails(t)
  BY <1>1, <1>2, <1>4 DEF StartFails
<1>5. QED
  BY <1>3, <1>4

\* Faults stay a number.
LEMMA FaultsType ==
  ASSUME faults \in Nat, Ok \/ Fails
  PROVE  faults' \in Nat
BY DEF Ok, Fails

----------------------------------------------------------------------------
(* Types. *)

\* The types are right in every initial state.
LEMMA TypeInit == Init => TypeOK
BY NoLocalsType, FileWatchAssumption
   DEF Init, TypeOK, Row, StatusEnum, Label

\* A request that begins keeps the types right.
LEMMA AskType == ASSUME TypeOK, NEW a \in Admins, Ask(a) PROVE TypeOK'
<1>1. /\ row \in [Tasks -> Row] /\ pc \in [Admins -> Label] /\ loc \in [Admins -> Locals]
      /\ records \subseteq FileWatchRecord /\ calls \subseteq HandleCall /\ alone \in BOOLEAN
  BY DEF TypeOK
<1>2. ASSUME NEW o \in Ops, NEW t \in Tasks, NEW s \in StatusEnum, NEW c \in Confs,
             NEW l \in Label, Begin(a, o, t, s, c, l)
      PROVE  pc' \in [Admins -> Label] /\ loc' \in [Admins -> Locals] /\ alone' \in BOOLEAN
  <2>1. [op |-> o, task |-> t, status |-> s, conf |-> c, wid |-> 0] \in Locals
    BY DEF Locals
  <2>2. QED
    BY <1>1, <1>2, <2>1 DEF Begin, Goto, Idle
<1>3. \A t \in Tasks : row[t].status \in StatusEnum /\ row[t].conf \in Confs
  BY <1>1 DEF Row
<1>4. PICK t \in Tasks :
        \/ \E c \in Confs : Create(a, t, c) \/ Update(a, t, c)
        \/ \E s \in StatusEnum \cup {"pending"} : UpdateStatus(a, t, s)
        \/ Delete(a, t) \/ ClearRecords(a, t) \/ HandleOnce(a, t)
  BY DEF Ask
<1>5. ASSUME NEW c \in Confs, Create(a, t, c) PROVE TypeOK'
  <2>1. Begin(a, "create", t, "enable", c, "start")
    BY <1>5 DEF Create
  <2>2. pc' \in [Admins -> Label] /\ loc' \in [Admins -> Locals] /\ alone' \in BOOLEAN
    BY <1>2, <2>1 DEF Ops, StatusEnum, Label
  <2>3. row' \in [Tasks -> Row]
    BY <1>1, <1>5 DEF Create, Row, StatusEnum
  <2>4. QED
    BY <1>5, <2>2, <2>3 DEF Create, TypeOK, manager, history, proc
<1>6. ASSUME NEW c \in Confs, Update(a, t, c) PROVE TypeOK'
  <2>1. Begin(a, "update", t, row[t].status, c, "forget")
    BY <1>6 DEF Update
  <2>2. pc' \in [Admins -> Label] /\ loc' \in [Admins -> Locals] /\ alone' \in BOOLEAN
    BY <1>2, <1>3, <2>1 DEF Ops, Label
  <2>3. QED
    BY <1>6, <2>2 DEF Update, TypeOK, table, manager, history, proc
<1>7. ASSUME NEW s \in StatusEnum \cup {"pending"}, UpdateStatus(a, t, s) PROVE TypeOK'
  <2>1. s \in StatusEnum
    BY <1>7 DEF UpdateStatus
  <2>2. Begin(a, s, t, s, IF s = "enable" THEN row[t].conf ELSE NoConf,
              IF s = "enable" THEN "start" ELSE "forget")
    BY <1>7 DEF UpdateStatus
  <2>3. pc' \in [Admins -> Label] /\ loc' \in [Admins -> Locals] /\ alone' \in BOOLEAN
    BY <1>2, <1>3, <2>1, <2>2, NoLocalsType DEF Ops, Label, StatusEnum
  <2>4. QED
    BY <1>7, <2>3 DEF UpdateStatus, TypeOK, table, manager, history, proc
<1>8. ASSUME Delete(a, t) PROVE TypeOK'
  <2>1. Begin(a, "delete", t, "disable", NoConf, "forget")
    BY <1>8 DEF Delete
  <2>2. pc' \in [Admins -> Label] /\ loc' \in [Admins -> Locals] /\ alone' \in BOOLEAN
    BY <1>2, <2>1, NoLocalsType DEF Ops, Label, StatusEnum
  <2>3. QED
    BY <1>8, <2>2 DEF Delete, TypeOK, table, manager, history, proc
<1>9. ASSUME ClearRecords(a, t) PROVE TypeOK'
  BY <1>9 DEF ClearRecords, TypeOK, table, manager, request, proc
<1>10. ASSUME HandleOnce(a, t) PROVE TypeOK'
  <2>1. [by |-> a, task |-> t, at |-> "get"] \in HandleCall
    BY DEF HandleCall
  <2>2. QED
    BY <1>10, <2>1 DEF HandleOnce, TypeOK, table, manager, request, proc
<1>11. QED
  BY <1>4, <1>5, <1>6, <1>7, <1>8, <1>9, <1>10

\* A request that goes on keeps the types right.
LEMMA StepType == ASSUME TypeOK, NEW a \in Admins, Step(a) PROVE TypeOK'
<1>1. /\ row \in [Tasks -> Row] /\ pc \in [Admins -> Label] /\ loc \in [Admins -> Locals]
      /\ reg \in [Tasks -> Nat] /\ watchers \subseteq Watcher
      /\ records \subseteq FileWatchRecord /\ faults \in Nat /\ clashes \in Nat
  BY DEF TypeOK
<1>2. /\ loc[a] \in Locals /\ loc[a].task \in Tasks /\ loc[a].conf \in Confs
      /\ loc[a].wid \in Nat /\ loc[a].op \in Ops
  BY <1>1 DEF Locals
<1>3. ASSUME NEW l \in Label, Goto(a, l) PROVE pc' \in [Admins -> Label]
  BY <1>1, <1>3 DEF Goto
<1>4. ASSUME Return(a)
      PROVE  pc' \in [Admins -> Label] /\ loc' \in [Admins -> Locals] /\ alone' = alone
  BY <1>1, <1>4, NoLocalsType DEF Return, Goto, Label
<1>5. ASSUME NEW n \in Nat, loc' = [loc EXCEPT ![a].wid = n] PROVE loc' \in [Admins -> Locals]
  <2>1. [loc[a] EXCEPT !.wid = n] \in Locals
    BY <1>2 DEF Locals
  <2>2. loc' = [loc EXCEPT ![a] = [loc[a] EXCEPT !.wid = n]]
    BY <1>5
  <2>3. QED
    BY <1>1, <2>1, <2>2
<1>6. ASSUME Register(a) PROVE TypeOK'
  <2>1. PICK t \in Tasks : t = loc[a].task
    BY <1>2
  <2>2. reg' \in [Tasks -> Nat] /\ watchers' \subseteq Watcher /\ started' \in Nat
    BY <1>2, <1>6, StartWatcherType DEF Register
  <2>3. faults' \in Nat
    BY <1>1, <1>6, FaultsType DEF Register
  <2>4. row' \in [Tasks -> Row]
    <3>1. row' = row \/ row' = [row EXCEPT ![t].key = @ \/ Live(t)]
      BY <1>6, <2>1 DEF Register
    <3>2. Live(t) \in BOOLEAN
      BY DEF Live
    <3>3. [row[t] EXCEPT !.key = @ \/ Live(t)] \in Row
      BY <1>1, <3>2 DEF Row
    <3>4. QED
      BY <1>1, <3>1, <3>3
  <2>5. /\ pc' \in [Admins -> Label] /\ loc' \in [Admins -> Locals] /\ alone' \in BOOLEAN
    <3>1. CASE AfterRegister(a)
      <4>1. CASE loc[a].op = "update"
        BY <1>1, <1>3, <3>1, <4>1 DEF AfterRegister, TypeOK, Label
      <4>2. CASE loc[a].op = "enable"
        BY <1>1, <1>3, <3>1, <4>2 DEF AfterRegister, TypeOK, Label
      <4>3. CASE loc[a].op \notin {"update", "enable"}
        BY <1>4, <3>1, <4>3 DEF AfterRegister, TypeOK
      <4>4. QED
        BY <4>1, <4>2, <4>3
    <3>2. CASE Return(a)
      BY <1>4, <3>2 DEF TypeOK
    <3>3. QED
      BY <1>6, <3>1, <3>2 DEF Register
  <2>6. QED
    BY <1>6, <2>2, <2>3, <2>4, <2>5 DEF Register, TypeOK, history, proc
<1>7. ASSUME Forget(a) PROVE TypeOK'
  <2>1. reg' \in [Tasks -> Nat]
    BY <1>1, <1>7 DEF Forget
  <2>2. pc' \in [Admins -> Label]
    BY <1>3, <1>7 DEF Forget, Label
  <2>3. loc' \in [Admins -> Locals]
    BY <1>1, <1>2, <1>5, <1>7 DEF Forget
  <2>4. QED
    BY <1>7, <2>1, <2>2, <2>3 DEF Forget, TypeOK, table, history, proc
<1>8. ASSUME Close(a) PROVE TypeOK'
  <2>1. watchers' \subseteq Watcher
    BY <1>1, <1>8, ClosedType DEF Close
  <2>2. pc' \in [Admins -> Label]
    BY <1>3, <1>8 DEF Close, Label
  <2>3. loc' \in [Admins -> Locals]
    BY <1>5, <1>8 DEF Close
  <2>4. QED
    BY <1>8, <2>1, <2>2, <2>3 DEF Close, TypeOK, table, history, proc
<1>9. ASSUME WriteConf(a) PROVE TypeOK'
  <2>1. PICK t \in Tasks : t = loc[a].task
    BY <1>2
  <2>2. row' \in [Tasks -> Row]
    <3>1. PICK c \in Confs : row' = row \/ row' = [row EXCEPT ![t].conf = c]
      BY <1>1, <1>2, <1>9, <2>1 DEF WriteConf, Row
    <3>2. [row[t] EXCEPT !.conf = c] \in Row
      BY <1>1 DEF Row
    <3>3. row' = row \/ row' = [row EXCEPT ![t] = [row[t] EXCEPT !.conf = c]]
      BY <3>1
    <3>4. QED
      BY <1>1, <3>2, <3>3
  <2>3. faults' \in Nat /\ clashes' \in Nat
    BY <1>1, <1>9 DEF WriteConf, Ok, Fails
  <2>4. pc' \in [Admins -> Label] /\ loc' \in [Admins -> Locals] /\ alone' = alone
    BY <1>1, <1>3, <1>4, <1>9 DEF WriteConf, Label
  <2>5. QED
    BY <1>9, <2>2, <2>3, <2>4 DEF WriteConf, TypeOK, manager, history, proc
<1>10. ASSUME WriteStatus(a) PROVE TypeOK'
  <2>1. PICK t \in Tasks : t = loc[a].task
    BY <1>2
  <2>2. row' \in [Tasks -> Row]
    <3>1. PICK s \in StatusEnum : row' = row \/ row' = [row EXCEPT ![t].status = s]
      <4>1. loc[a].status \in StatusEnum
        BY <1>2 DEF Locals
      <4>2. row' = row \/ row' = [row EXCEPT ![t].status = loc[a].status]
        BY <1>10, <2>1 DEF WriteStatus
      <4>3. QED
        BY <4>1, <4>2
    <3>2. [row[t] EXCEPT !.status = s] \in Row
      BY <1>1 DEF Row
    <3>3. row' = row \/ row' = [row EXCEPT ![t] = [row[t] EXCEPT !.status = s]]
      BY <3>1
    <3>4. QED
      BY <1>1, <3>2, <3>3
  <2>3. faults' \in Nat
    BY <1>1, <1>10, FaultsType DEF WriteStatus
  <2>4. pc' \in [Admins -> Label] /\ loc' \in [Admins -> Locals] /\ alone' = alone
    BY <1>4, <1>10 DEF WriteStatus
  <2>5. QED
    BY <1>10, <2>2, <2>3, <2>4 DEF WriteStatus, TypeOK, manager, history, proc
<1>11. ASSUME Prune(a) PROVE TypeOK'
  <2>1. records' \subseteq FileWatchRecord /\ faults' \in Nat
    BY <1>1, <1>11, FaultsType DEF Prune
  <2>2. pc' \in [Admins -> Label] /\ loc' \in [Admins -> Locals] /\ alone' = alone
    BY <1>4, <1>11 DEF Prune
  <2>3. QED
    BY <1>11, <2>1, <2>2 DEF Prune, TypeOK, table, manager, proc
<1>12. ASSUME CleanRecords(a) PROVE TypeOK'
  <2>1. records' \subseteq FileWatchRecord /\ faults' \in Nat
    BY <1>1, <1>12, FaultsType DEF CleanRecords
  <2>2. pc' \in [Admins -> Label] /\ loc' \in [Admins -> Locals] /\ alone' = alone
    BY <1>1, <1>3, <1>4, <1>12 DEF CleanRecords, Label
  <2>3. QED
    BY <1>12, <2>1, <2>2 DEF CleanRecords, TypeOK, table, manager, proc
<1>13. ASSUME DeleteRow(a) PROVE TypeOK'
  <2>1. PICK t \in Tasks : t = loc[a].task
    BY <1>2
  <2>2. row' \in [Tasks -> Row]
    <3>1. [row[t] EXCEPT !.state = "deleted"] \in Row
      BY <1>1 DEF Row
    <3>2. row' = row \/ row' = [row EXCEPT ![t] = [row[t] EXCEPT !.state = "deleted"]]
      BY <1>13, <2>1 DEF DeleteRow
    <3>3. QED
      BY <1>1, <3>1, <3>2
  <2>3. faults' \in Nat
    BY <1>1, <1>13, FaultsType DEF DeleteRow
  <2>4. pc' \in [Admins -> Label] /\ loc' \in [Admins -> Locals] /\ alone' = alone
    BY <1>4, <1>13 DEF DeleteRow
  <2>5. QED
    BY <1>13, <2>2, <2>3, <2>4 DEF DeleteRow, TypeOK, manager, history, proc
<1>14. QED
  BY <1>6, <1>7, <1>8, <1>9, <1>10, <1>11, <1>12, <1>13 DEF Step

\* Events and runs keep the types right.
LEMMA WatchingType == ASSUME TypeOK, Watching PROVE TypeOK'
<1>1. /\ records \subseteq FileWatchRecord /\ calls \subseteq HandleCall /\ runs \subseteq Run
      /\ watchers \subseteq Watcher /\ lastRec \in Nat /\ faults \in Nat /\ crashes \in Nat
  BY DEF TypeOK
<1>2. ASSUME NEW w \in watchers, Event(w) PROVE TypeOK'
  <2>1. [by |-> w.id, task |-> w.task, at |-> "get"] \in HandleCall
    BY <1>1 DEF HandleCall, Watcher
  <2>2. QED
    BY <1>2, <2>1 DEF Event, TypeOK, table, manager, request, proc
<1>3. ASSUME NEW w \in watchers, LoopEnds(w) PROVE TypeOK'
  BY <1>3 DEF LoopEnds, TypeOK, table, request, history, proc
<1>4. ASSUME NEW c \in calls, HandleGet(c) PROVE TypeOK'
  <2>1. [c EXCEPT !.at = "create"] \in HandleCall
    BY <1>1 DEF HandleCall
  <2>2. faults' \in Nat
    BY <1>1, <1>4, FaultsType DEF HandleGet
  <2>3. calls' \subseteq HandleCall
    BY <1>1, <1>4, <2>1 DEF HandleGet
  <2>4. QED
    BY <1>4, <2>2, <2>3 DEF HandleGet, TypeOK, table, manager, request, proc
<1>5. ASSUME NEW c \in calls, HandleCreate(c) PROVE TypeOK'
  <2>1. c.task \in Tasks
    BY <1>1 DEF HandleCall
  <2>2. \A v \in {"waiting", "failed"} :
          [id |-> lastRec + 1, task |-> c.task, status |-> v, life |-> crashes] \in FileWatchRecord
    BY <1>1, <2>1 DEF FileWatchRecord
  <2>3. \A l \in {"exec", "prune"} : [rec |-> lastRec + 1, task |-> c.task, at |-> l] \in Run
    BY <1>1, <2>1 DEF Run
  <2>4. faults' \in Nat /\ lastRec' \in Nat
    BY <1>1, <1>5 DEF HandleCreate, Ok, Fails
  <2>5. records' \subseteq FileWatchRecord
    BY <1>1, <1>5, <2>2 DEF HandleCreate
  <2>6. runs' \subseteq Run
    BY <1>1, <1>5, <2>3 DEF HandleCreate
  <2>7. calls' \subseteq HandleCall
    BY <1>1, <1>5 DEF HandleCreate
  <2>8. QED
    BY <1>5, <2>4, <2>5, <2>6, <2>7 DEF HandleCreate, TypeOK, table, manager, request, proc
<1>6. ASSUME NEW r \in runs, RunEnds(r) PROVE TypeOK'
  <2>1. [r EXCEPT !.at = "prune"] \in Run
    BY <1>1 DEF Run
  <2>2. runs' \subseteq Run
    BY <1>1, <1>6, <2>1 DEF RunEnds
  <2>3. records' \subseteq FileWatchRecord
    BY <1>1, <1>6, SettledType DEF RunEnds
  <2>4. faults' \in Nat
    BY <1>1, <1>6, FaultsType DEF RunEnds
  <2>5. QED
    BY <1>6, <2>2, <2>3, <2>4 DEF RunEnds, TypeOK, table, manager, request, proc
<1>7. ASSUME NEW r \in runs, RunPrunes(r) PROVE TypeOK'
  <2>1. faults' \in Nat
    BY <1>1, <1>7, FaultsType DEF RunPrunes
  <2>2. QED
    BY <1>1, <1>7, <2>1 DEF RunPrunes, TypeOK, table, manager, request, proc
<1>8. QED
  BY <1>2, <1>3, <1>4, <1>5, <1>6, <1>7 DEF Watching

\* A crash and the start that follows keep the types right.
LEMMA ProcessType ==
  ASSUME TypeOK, Crash \/ Boot \/ Serve \/ \E t \in Tasks : RestoreFilewatch(t)
  PROVE  TypeOK'
<1>1. /\ row \in [Tasks -> Row] /\ crashes \in Nat /\ faults \in Nat
  BY DEF TypeOK
<1>2. CASE Crash
  BY <1>1, <1>2, NoLocalsType DEF Crash, TypeOK, Label
<1>3. CASE Boot
  <2>1. row' \in [Tasks -> Row]
    BY <1>1, <1>3 DEF Boot, Row
  <2>2. todo' \subseteq Tasks /\ faults' \in Nat /\ clashes' \in Nat
    BY <1>3 DEF Boot, ToRestore
  <2>3. QED
    BY <1>3, <2>1, <2>2 DEF Boot, TypeOK, manager, request, history
<1>4. CASE Serve
  BY <1>4 DEF Serve, TypeOK, table, manager, request, history
<1>5. ASSUME NEW t \in Tasks, RestoreFilewatch(t) PROVE TypeOK'
  <2>1. row[t].conf \in Confs
    BY <1>1 DEF Row
  <2>2. reg' \in [Tasks -> Nat] /\ watchers' \subseteq Watcher /\ started' \in Nat
    BY <1>5, <2>1, StartWatcherType DEF RestoreFilewatch
  <2>3. row' \in [Tasks -> Row]
    <3>1. [row[t] EXCEPT !.key = TRUE] \in Row
      BY <1>1 DEF Row
    <3>2. row' = row \/ row' = [row EXCEPT ![t] = [row[t] EXCEPT !.key = TRUE]]
      BY <1>5 DEF RestoreFilewatch
    <3>3. QED
      BY <1>1, <3>1, <3>2
  <2>4. faults' \in Nat /\ todo' \subseteq Tasks
    BY <1>1, <1>5, FaultsType DEF RestoreFilewatch, TypeOK
  <2>5. QED
    BY <1>5, <2>2, <2>3, <2>4 DEF RestoreFilewatch, TypeOK, request, history
<1>6. QED
  BY <1>2, <1>3, <1>4, <1>5

\* Every step keeps the types right.
LEMMA TypeStep == TypeOK /\ [Next]_vars => TypeOK'
<1>1. CASE UNCHANGED vars
  BY <1>1 DEF TypeOK, vars, table, manager, request, history, proc
<1>2. QED
  BY <1>1, AskType, StepType, WatchingType, ProcessType DEF Next

\* Every variable of the file watch tasks has its type in every reachable state
\* (service/filewatch.go, scheduler/watcher.go).
THEOREM WatchTypes == Spec => []TypeOK
BY TypeInit, TypeStep, PTL DEF Spec

----------------------------------------------------------------------------
(* NoLeak is inductive: a watcher goes from registered to being closed to  *)
(* closed, and the two sections of Stop hand it over.                      *)

\* No watcher leaks when one is started: the one it replaces is closed.
LEMMA StartKeepsNoLeak ==
  ASSUME TypeOK, NoLeak, NEW t \in Tasks, NEW c \in Confs, StartWatcher(t, c) \/ StartFails(t),
         \A b \in Admins : pc[b] = "close" => pc'[b] = "close" /\ loc'[b].wid = loc[b].wid
  PROVE  NoLeak'
<1>1. watchers \subseteq Watcher /\ reg \in [Tasks -> Nat]
  BY DEF TypeOK
<1>2. SUFFICES ASSUME NEW w \in watchers', w.open
               PROVE  reg'[w.task] = w.id \/ \E b \in Admins : pc'[b] = "close" /\ loc'[b].wid = w.id
  BY DEF NoLeak
<1>3. CASE w \in Closed(reg[t])
  <2>1. w \in watchers /\ w.id # reg[t] /\ w.task \in Tasks
    BY <1>1, <1>2, <1>3, ClosedType DEF Watcher
  <2>2. CASE reg[w.task] = w.id
    <3>1. w.task # t
      BY <2>1, <2>2
    <3>2. reg'[w.task] = reg[w.task]
      BY <1>1, <2>1, <3>1 DEF StartWatcher, StartFails
    <3>3. QED
      BY <2>2, <3>2
  <2>3. CASE \E b \in Admins : pc[b] = "close" /\ loc[b].wid = w.id
    BY <2>3
  <2>4. QED
    BY <1>2, <2>1, <2>2, <2>3 DEF NoLeak
<1>4. CASE w \notin Closed(reg[t])
  <2>1. w = [id |-> started + 1, task |-> t, conf |-> c, open |-> TRUE] /\ reg' = [reg EXCEPT ![t] = started + 1]
    BY <1>2, <1>4 DEF StartWatcher, StartFails
  <2>2. QED
    BY <1>1, <2>1
<1>5. QED
  BY <1>3, <1>4

\* Every step keeps it.
LEMMA NoLeakStep == TypeOK /\ NoLeak /\ [Next]_vars => NoLeak'
<1>. SUFFICES ASSUME TypeOK, NoLeak, [Next]_vars PROVE NoLeak'
  OBVIOUS
<1>1. /\ watchers \subseteq Watcher /\ reg \in [Tasks -> Nat]
      /\ pc \in [Admins -> Label] /\ loc \in [Admins -> Locals]
      /\ \A a \in Admins : loc[a].task \in Tasks /\ loc[a].conf \in Confs
  BY DEF TypeOK, Locals
<1>2. ASSUME watchers' \subseteq watchers, reg' = reg,
             \A b \in Admins : pc[b] = "close" => pc'[b] = "close" /\ loc'[b].wid = loc[b].wid
      PROVE  NoLeak'
  BY <1>2 DEF NoLeak
<1>3. ASSUME NEW a \in Admins, pc[a] # "close", NEW l, Goto(a, l), UNCHANGED loc
      PROVE  \A b \in Admins : pc[b] = "close" => pc'[b] = "close" /\ loc'[b].wid = loc[b].wid
  BY <1>1, <1>3 DEF Goto
<1>4. ASSUME NEW a \in Admins, pc[a] # "close", Return(a)
      PROVE  \A b \in Admins : pc[b] = "close" => pc'[b] = "close" /\ loc'[b].wid = loc[b].wid
  BY <1>1, <1>4 DEF Return, Goto
<1>5. ASSUME NEW a \in Admins, Ask(a) PROVE NoLeak'
  <2>1. UNCHANGED <<watchers, reg>>
    BY <1>5 DEF Ask, Create, Update, UpdateStatus, Delete, ClearRecords, HandleOnce, manager
  <2>2. UNCHANGED <<pc, loc>> \/ \E o, t, s, c, l : Begin(a, o, t, s, c, l)
    BY <1>5 DEF Ask, Create, Update, UpdateStatus, Delete, ClearRecords, HandleOnce, request
  <2>3. \A b \in Admins : pc[b] = "close" => pc'[b] = "close" /\ loc'[b].wid = loc[b].wid
    BY <1>1, <2>2 DEF Begin, Idle, Goto
  <2>4. QED
    BY <1>2, <2>1, <2>3
<1>6. ASSUME NEW a \in Admins, Register(a) PROVE NoLeak'
  <2>1. pc[a] # "close"
    BY <1>6 DEF Register
  <2>2. \A b \in Admins : pc[b] = "close" => pc'[b] = "close" /\ loc'[b].wid = loc[b].wid
    BY <1>3, <1>4, <1>6, <2>1 DEF Register, AfterRegister
  <2>3. QED
    BY <1>1, <1>6, <2>2, StartKeepsNoLeak DEF Register
<1>7. ASSUME NEW a \in Admins, Forget(a) PROVE NoLeak'
  <2>1. SUFFICES ASSUME NEW w \in watchers, w.open
                 PROVE  reg'[w.task] = w.id \/ \E b \in Admins : pc'[b] = "close" /\ loc'[b].wid = w.id
    BY <1>7 DEF Forget, NoLeak
  <2>2. pc[a] = "forget" /\ w.task \in Tasks
    BY <1>1, <1>7 DEF Forget, Watcher
  <2>3. CASE reg[w.task] = w.id /\ w.task = loc[a].task
    <3>1. pc'[a] = "close" /\ loc'[a].wid = w.id
      BY <1>1, <1>7, <2>3 DEF Forget, Goto, Locals
    <3>2. QED
      BY <3>1
  <2>4. CASE reg[w.task] = w.id /\ w.task # loc[a].task
    BY <1>1, <1>7, <2>2, <2>4 DEF Forget
  <2>5. ASSUME NEW b \in Admins, pc[b] = "close", loc[b].wid = w.id
        PROVE  pc'[b] = "close" /\ loc'[b].wid = w.id
    BY <1>1, <1>7, <2>2, <2>5 DEF Forget, Goto
  <2>6. QED
    BY <2>1, <2>3, <2>4, <2>5 DEF NoLeak
<1>8. ASSUME NEW a \in Admins, Close(a) PROVE NoLeak'
  <2>1. SUFFICES ASSUME NEW w \in watchers', w.open
                 PROVE  reg'[w.task] = w.id \/ \E b \in Admins : pc'[b] = "close" /\ loc'[b].wid = w.id
    BY DEF NoLeak
  <2>2. w \in watchers /\ w.id # loc[a].wid
    BY <1>1, <1>8, <2>1, ClosedType DEF Close
  <2>3. CASE reg[w.task] = w.id
    BY <1>8, <2>3 DEF Close
  <2>4. ASSUME NEW b \in Admins, pc[b] = "close", loc[b].wid = w.id
        PROVE  pc'[b] = "close" /\ loc'[b].wid = w.id
    BY <1>1, <1>8, <2>2, <2>4 DEF Close, Goto
  <2>5. QED
    BY <2>1, <2>2, <2>3, <2>4 DEF NoLeak
<1>9. ASSUME NEW a \in Admins,
             WriteConf(a) \/ WriteStatus(a) \/ Prune(a) \/ CleanRecords(a) \/ DeleteRow(a)
      PROVE  NoLeak'
  <2>1. pc[a] # "close" /\ UNCHANGED <<watchers, reg>>
    BY <1>9 DEF WriteConf, WriteStatus, Prune, CleanRecords, DeleteRow, manager
  <2>2. Return(a) \/ \E l : Goto(a, l) /\ UNCHANGED loc
    BY <1>9 DEF WriteConf, WriteStatus, Prune, CleanRecords, DeleteRow
  <2>3. QED
    BY <1>2, <1>3, <1>4, <2>1, <2>2
<1>10. CASE Watching
  <2>1. watchers' \subseteq watchers /\ UNCHANGED <<reg, pc, loc>>
    BY <1>10 DEF Watching, Event, LoopEnds, HandleGet, HandleCreate, RunEnds, RunPrunes, manager, request
  <2>2. QED
    BY <1>2, <2>1
<1>11. CASE Crash
  BY <1>11 DEF Crash, NoLeak
<1>12. CASE Boot \/ Serve
  BY <1>2, <1>12 DEF Boot, Serve, manager, request
<1>13. ASSUME NEW t \in Tasks, RestoreFilewatch(t) PROVE NoLeak'
  <2>1. row[t].conf \in Confs
    BY DEF TypeOK, Row
  <2>2. QED
    BY <1>13, <2>1, StartKeepsNoLeak DEF RestoreFilewatch, request
<1>14. CASE UNCHANGED vars
  BY <1>2, <1>14 DEF vars, manager, request
<1>15. QED
  BY <1>5, <1>6, <1>7, <1>8, <1>9, <1>10, <1>11, <1>12, <1>13, <1>14 DEF Next, Step

\* No watcher is leaked, however requests, events, failures and crashes
\* interleave (scheduler/watcher.go:35).
THEOREM NoWatcherLeaks == Spec => []NoLeak
<1>1. Init => NoLeak
  BY DEF Init, NoLeak
<1>2. QED
  BY <1>1, TypeInit, TypeStep, NoLeakStep, PTL DEF Spec

----------------------------------------------------------------------------
(* WaitingHasRun needs to know that records of earlier lives stay apart,    *)
(* that a process that is down has no run, and that ids of records are new. *)

Lives ==
  /\ \A r \in records : r.life <= crashes /\ r.id <= lastRec
  /\ \A x \in runs : x.rec <= lastRec
  /\ phase = "down" => calls = {} /\ runs = {} /\ \A r \in records : r.life < crashes
WaitingInv == TypeOK /\ Lives /\ WaitingHasRun

\* The two halves of WaitingHasRun: a run has a record of its own, and while nothing
\* failed the runs that execute are those of the waiting records of this process.
OwnRecord == \A x, y \in runs : x.rec = y.rec => x = y
Settling(i) == \E x \in runs : x.rec = i /\ x.at = "exec"
Matched == \A r \in records : Settling(r.id) <=> r.status = "waiting" /\ r.life = crashes

\* The property is the two together.
LEMMA WaitingHalves == WaitingHasRun <=> OwnRecord /\ (faults = 0 => Matched)
BY DEF WaitingHasRun, OwnRecord, Matched, Settling

\* It holds at the start.
LEMMA WaitingInit == Init => WaitingInv
BY TypeInit DEF Init, WaitingInv, Lives, WaitingHasRun

\* Requests only take records away, and leave the runs alone.
LEMMA AskStepWaiting ==
  ASSUME WaitingInv, NEW a \in Admins, Ask(a) \/ Step(a)
  PROVE  Lives' /\ WaitingHasRun'
<1>1. /\ records' \subseteq records /\ UNCHANGED <<runs, lastRec, crashes, phase>>
      /\ phase = "up" \/ UNCHANGED calls
      /\ faults' = 0 => faults = 0
  <2>1. faults \in Nat
    BY DEF WaitingInv, TypeOK
  <2>2. CASE Ask(a)
    BY <2>2 DEF Ask, Create, Update, UpdateStatus, Delete, ClearRecords, HandleOnce, Begin, history, proc
  <2>3. CASE Step(a)
    BY <2>1, <2>3 DEF Step, Register, Forget, Close, WriteConf, WriteStatus, Prune, CleanRecords, DeleteRow,
                      history, proc, Ok, Fails
  <2>4. QED
    BY <2>2, <2>3
<1>2. QED
  BY <1>1 DEF WaitingInv, Lives, WaitingHasRun

\* A run comes with its record, and ends with its verdict.
LEMMA WatchingWaiting ==
  ASSUME WaitingInv, Watching
  PROVE  Lives' /\ WaitingHasRun'
<1>1. /\ records \subseteq FileWatchRecord /\ calls \subseteq HandleCall /\ runs \subseteq Run
      /\ crashes \in Nat /\ faults \in Nat /\ lastRec \in Nat
      /\ Lives /\ OwnRecord /\ (faults = 0 => Matched)
  BY WaitingHalves DEF WaitingInv, TypeOK
<1>2. UNCHANGED <<crashes, phase>>
  BY DEF Watching, Event, LoopEnds, HandleGet, HandleCreate, RunEnds, RunPrunes, proc
<1>3. ASSUME NEW w \in watchers, Event(w) \/ LoopEnds(w) PROVE Lives' /\ WaitingHasRun'
  BY <1>1, <1>2, <1>3, WaitingHalves DEF Event, LoopEnds, Lives, WaitingHasRun, history
<1>4. ASSUME NEW c \in calls, HandleGet(c) PROVE Lives' /\ WaitingHasRun'
  <2>1. faults' = 0 => faults = 0
    BY <1>1, <1>4 DEF HandleGet, Ok, Fails
  <2>2. phase # "down" /\ UNCHANGED <<records, runs, lastRec>>
    BY <1>1, <1>4 DEF HandleGet, Lives
  <2>3. QED
    BY <1>1, <1>2, <2>1, <2>2, WaitingHalves DEF Lives, WaitingHasRun
<1>5. ASSUME NEW c \in calls, HandleCreate(c) PROVE Lives' /\ WaitingHasRun'
  <2>. DEFINE n == lastRec + 1
              new(l) == [rec |-> n, task |-> c.task, at |-> l]
  <2>1. phase # "down" /\ phase' # "down"
    BY <1>1, <1>2, <1>5 DEF Lives
  <2>2. /\ \A r \in records : r.id \in Nat /\ r.id <= lastRec /\ r.id # n
        /\ \A x \in runs : x.rec \in Nat /\ x.rec <= lastRec /\ x.rec # n
        /\ n \in Nat /\ lastRec <= n
    BY <1>1 DEF Lives, FileWatchRecord, Run
  <2>3. CASE UNCHANGED <<records, lastRec, runs>>
    <3>1. faults' # 0
      BY <1>1, <1>5, <2>2, <2>3 DEF HandleCreate, Fails
    <3>2. QED
      BY <1>1, <1>2, <2>1, <2>3, <3>1 DEF Lives, WaitingHasRun, OwnRecord
  <2>4. CASE lastRec' = n
    <3>1. /\ \A r \in records' : r \in records \/ (r.id = n /\ r.life = crashes)
          /\ \E l \in {"exec", "prune"} : runs' = runs \cup {new(l)}
      BY <1>1, <1>5, <2>2, <2>4 DEF HandleCreate
    <3>2. PICK l \in {"exec", "prune"} : runs' = runs \cup {new(l)}
      BY <3>1
    <3>3. \A x \in runs' : x \in runs \/ (x = new(l) /\ x.rec = n)
      BY <3>2
    <3>4. Lives'
      BY <1>1, <1>2, <2>1, <2>2, <2>4, <3>1, <3>3 DEF Lives, FileWatchRecord, Run
    <3>5. OwnRecord'
      BY <1>1, <2>2, <3>3 DEF OwnRecord
    <3>6. ASSUME faults' = 0 PROVE Matched'
      <4>1. /\ faults = 0
            /\ records' = records \cup {[id |-> n, task |-> c.task, status |-> "waiting", life |-> crashes]}
            /\ runs' = runs \cup {new("exec")}
        BY <1>1, <1>5, <3>6 DEF HandleCreate, Ok, Fails
      <4>2. ASSUME NEW r \in records
            PROVE  Settling(r.id)' <=> r.status = "waiting" /\ r.life = crashes
        <5>1. \A x \in runs' : x.rec = r.id => x \in runs
          BY <2>2, <3>3
        <5>2. Settling(r.id)' <=> Settling(r.id)
          BY <4>1, <5>1 DEF Settling
        <5>3. QED
          BY <1>1, <4>1, <5>2 DEF Matched
      <4>3. new("exec") \in runs' /\ new("exec").rec = n /\ new("exec").at = "exec"
        BY <4>1
      <4>4. ASSUME NEW r, r.id = n PROVE Settling(r.id)'
        BY <4>3, <4>4 DEF Settling
      <4>5. QED
        BY <1>2, <4>1, <4>2, <4>4 DEF Matched
    <3>7. QED
      BY <3>4, <3>5, <3>6, WaitingHalves DEF WaitingHasRun, OwnRecord, Matched, Settling
  <2>5. QED
    BY <1>5, <2>3, <2>4 DEF HandleCreate
<1>6. ASSUME NEW x \in runs, RunEnds(x) PROVE Lives' /\ WaitingHasRun'
  <2>. DEFINE y == [x EXCEPT !.at = "prune"]
  <2>1. UNCHANGED records \/ \E v \in {"success", "failed"} : Ok /\ records' = Settled(x.rec, v)
    BY <1>6 DEF RunEnds
  <2>2. \A r \in records' : \E s \in records : r.id = s.id /\ r.life = s.life
    BY <1>1, <2>1, SettledType
  <2>3. /\ UNCHANGED <<calls, lastRec>> /\ runs' = (runs \ {x}) \cup {y}
        /\ y.rec = x.rec /\ y.at = "prune"
    BY <1>1, <1>6 DEF RunEnds, Run
  <2>4. Lives'
    BY <1>1, <1>2, <2>2, <2>3 DEF Lives
  <2>5. OwnRecord'
    <3>1. \A z \in runs' : z = y \/ (z \in runs /\ z.rec # x.rec)
      BY <1>1, <2>3 DEF OwnRecord
    <3>2. QED
      BY <1>1, <2>3, <3>1 DEF OwnRecord
  <2>6. ASSUME faults' = 0 PROVE Matched'
    <3>1. PICK v \in {"success", "failed"} : Ok /\ records' = Settled(x.rec, v)
      BY <1>1, <1>6, <2>6 DEF RunEnds, Fails
    <3>2. ASSUME NEW r \in records'
          PROVE  Settling(r.id)' <=> r.status = "waiting" /\ r.life = crashes
      <4>1. CASE r.id = x.rec
        <5>1. r.status # "waiting"
          BY <1>1, <3>1, <3>2, <4>1, SettledType
        <5>2. \A z \in runs' : z.rec = x.rec => z = y
          BY <1>1, <2>3 DEF OwnRecord
        <5>3. QED
          BY <2>3, <4>1, <5>1, <5>2 DEF Settling
      <4>2. CASE r.id # x.rec
        <5>1. r \in records
          BY <1>1, <3>1, <3>2, <4>2, SettledType
        <5>2. \A z : z.rec = r.id => (z \in runs' <=> z \in runs)
          BY <2>3, <4>2
        <5>3. Settling(r.id)' <=> Settling(r.id)
          BY <5>2 DEF Settling
        <5>4. QED
          BY <1>1, <2>6, <3>1, <5>1, <5>3 DEF Ok, Matched
      <4>3. QED
        BY <4>1, <4>2
    <3>3. QED
      BY <1>2, <3>2 DEF Matched
  <2>7. QED
    BY <2>4, <2>5, <2>6 DEF WaitingHasRun, OwnRecord, Matched, Settling
<1>7. ASSUME NEW x \in runs, RunPrunes(x) PROVE Lives' /\ WaitingHasRun'
  <2>1. records' \subseteq records /\ UNCHANGED <<calls, lastRec>> /\ (faults' = 0 => faults = 0)
    BY <1>1, <1>7 DEF RunPrunes, Ok, Fails
  <2>2. runs' = runs \ {x} /\ \A y \in runs : y.at = "exec" => y \in runs'
    BY <1>7 DEF RunPrunes
  <2>3. QED
    BY <1>1, <1>2, <2>1, <2>2 DEF Lives, WaitingHasRun, OwnRecord, Matched, Settling
<1>8. QED
  BY <1>3, <1>4, <1>5, <1>6, <1>7 DEF Watching

\* A crash makes every record one of an earlier life, and leaves no run.
LEMMA ProcessWaiting ==
  ASSUME WaitingInv, Crash \/ Boot \/ Serve \/ \E t \in Tasks : RestoreFilewatch(t)
  PROVE  Lives' /\ WaitingHasRun'
<1>1. records \subseteq FileWatchRecord /\ crashes \in Nat /\ faults \in Nat /\ Lives /\ WaitingHasRun
  BY DEF WaitingInv, TypeOK
<1>2. CASE Crash
  <2>1. \A r \in records : r.life < crashes + 1 /\ r.life <= crashes + 1 /\ r.life # crashes + 1
    BY <1>1 DEF Lives, FileWatchRecord
  <2>2. crashes' = crashes + 1 /\ UNCHANGED <<records, lastRec>> /\ calls' = {} /\ runs' = {}
    BY <1>2 DEF Crash
  <2>3. Lives'
    BY <1>1, <2>1, <2>2 DEF Lives
  <2>4. WaitingHasRun'
    BY <2>1, <2>2 DEF WaitingHasRun
  <2>5. QED
    BY <2>3, <2>4
<1>3. CASE Boot
  <2>1. /\ \A r \in records : r.life < crashes /\ r.life # crashes
        /\ runs = {} /\ UNCHANGED <<records, runs, lastRec, crashes, calls>> /\ phase' = "boot"
    BY <1>1, <1>3 DEF Boot, Lives, history, FileWatchRecord
  <2>2. QED
    BY <1>1, <2>1 DEF Lives, WaitingHasRun
<1>4. CASE Serve
  BY <1>1, <1>4 DEF Serve, Lives, WaitingHasRun, history
<1>5. ASSUME NEW t \in Tasks, RestoreFilewatch(t) PROVE Lives' /\ WaitingHasRun'
  <2>1. /\ UNCHANGED <<records, runs, lastRec, crashes, calls, phase>>
        /\ faults' = 0 => faults = 0
    BY <1>1, <1>5 DEF RestoreFilewatch, history, Ok, Fails
  <2>2. QED
    BY <1>1, <2>1 DEF Lives, WaitingHasRun
<1>6. QED
  BY <1>2, <1>3, <1>4, <1>5

\* Every run has a record of its own, and while no statement failed the runs that
\* execute are exactly those of the waiting records of this process (HandleWatch in
\* service/filewatch.go): for overlapping runs, removals under them, and restarts.
THEOREM WaitingIsRunning == Spec => []WaitingHasRun
<1>1. WaitingInv /\ [Next]_vars => WaitingInv'
  <2>1. ASSUME WaitingInv, UNCHANGED vars PROVE Lives' /\ WaitingHasRun'
    BY <2>1 DEF WaitingInv, Lives, WaitingHasRun, vars, history, proc
  <2>2. QED
    BY <2>1, TypeStep, AskStepWaiting, WatchingWaiting, ProcessWaiting DEF Next, WaitingInv
<1>2. WaitingInv => WaitingHasRun
  BY DEF WaitingInv
<1>3. QED
  BY <1>1, <1>2, WaitingInit, PTL DEF Spec

----------------------------------------------------------------------------
(* EnabledIsWatched is about moments without requests.  What lies between   *)
(* them is the one request there is, which holds its task's watcher in      *)
(* turn in the map, in its locals (wid) and nowhere; hence Pending.         *)

\* Watchers, map and locals agree on whose a watcher is.  Ids are not given twice.
WatcherIds ==
  /\ \A w \in watchers : w.id <= started
  /\ \A t \in Tasks : reg[t] <= started /\ \A w \in watchers : w.id = reg[t] => w.task = t
  /\ \A a \in Admins : /\ loc[a].wid <= started
                       /\ \A w \in watchers : w.id = loc[a].wid => w.task = loc[a].task

Enabled(t) == Live(t) /\ row[t].status = "enable"
Registered(t) == \A w \in Open(t) : w.id = reg[t]
HasOne(t) ==
  \E w \in Open(t) : Open(t) = {w} /\ w.conf = row[t].conf /\ row[t].key /\ reg[t] = w.id
Watched(t) == (Enabled(t) => HasOne(t)) /\ (~Enabled(t) => Open(t) = {})

\* Update writes back the status it read, UpdateStatus the one it was sent.
Agrees(a, t) ==
  /\ loc[a].op = "update" => loc[a].status = row[t].status
  /\ loc[a].op \in StatusEnum => loc[a].status = loc[a].op

\* What request a, which is about task t, has left of its watcher.
Pending(a, t) ==
  /\ pc[a] = "start" => /\ Live(t) /\ Registered(t) /\ Agrees(a, t)
                        /\ loc[a].op \in {"create", "update", "enable"}
                        /\ loc[a].conf = row[t].conf
                        /\ loc[a].op # "enable" => row[t].status = "enable"
  /\ pc[a] = "forget" => /\ Live(t) /\ Registered(t) /\ Agrees(a, t)
                         /\ loc[a].op \in {"update", "disable", "delete"}
  /\ pc[a] = "close" => /\ Live(t) /\ Agrees(a, t)
                        /\ loc[a].op \in {"update", "disable", "delete"}
                        /\ \A w \in Open(t) : w.id = loc[a].wid
  /\ pc[a] = "write" => /\ Live(t) /\ Agrees(a, t)
                        /\ loc[a].op = "enable" => HasOne(t)
                        /\ loc[a].op # "enable" => Open(t) = {}
  /\ pc[a] \in {"clean", "delete"} => Open(t) = {}
  /\ pc[a] = "prune" => Watched(t)

\* What EnabledIsWatched supposes of the process so far.
Calm == alone /\ faults = 0 /\ clashes = 0
RequestInv ==
  phase = "up" /\ Calm =>
    /\ \A a, b \in Admins : pc[a] # "idle" /\ pc[b] # "idle" => a = b
    /\ \A t \in Tasks : Watched(t) \/ \E a \in Admins : pc[a] # "idle" /\ loc[a].task = t
    /\ \A a \in Admins, t \in Tasks : pc[a] # "idle" /\ loc[a].task = t => Pending(a, t)

\* RestoreFilewatches has nothing to undo and one watcher to start for each.
BootInv ==
  /\ phase # "up" => \A a \in Admins : pc[a] = "idle"
  /\ phase = "down" => watchers = {}
  /\ phase = "boot" /\ faults = 0 =>
       \A t \in Tasks : IF t \in todo THEN Enabled(t) /\ Open(t) = {} ELSE Watched(t)

EnabledInv == TypeOK /\ WatcherIds /\ RequestInv /\ BootInv

\* It is what EnabledIsWatched asks for.
LEMMA EnabledInvSuffices == EnabledInv => EnabledIsWatched
<1>. SUFFICES ASSUME EnabledInv, AtRest, Calm, NEW t \in Tasks
              PROVE  IF Live(t) /\ row[t].status = "enable"
                     THEN \E w \in Open(t) : Open(t) = {w} /\ w.conf = row[t].conf /\ row[t].key
                     ELSE Open(t) = {}
  BY DEF EnabledIsWatched, Calm
<1>1. Watched(t)
  BY DEF EnabledInv, RequestInv, AtRest
<1>2. QED
  BY <1>1 DEF Watched, Enabled, HasOne

\* What is open for a task depends on its watchers only.
LEMMA SameTask ==
  ASSUME NEW u, row'[u] = row[u], reg'[u] = reg[u], Open(u)' = Open(u)
  PROVE  /\ Watched(u) => Watched(u)'
         /\ Enabled(u)' = Enabled(u)
BY DEF Watched, Enabled, Live, HasOne

\* Closing the watchers with an id closes no other task's.
LEMMA ClosedOpen ==
  ASSUME watchers \subseteq Watcher, NEW t \in Tasks, NEW i,
         \A w \in watchers : w.id = i => w.task = t
  PROVE  /\ \A u \in Tasks \ {t} : {w \in Closed(i) : w.task = u /\ w.open} = Open(u)
         /\ (\A w \in Open(t) : w.id = i) => {w \in Closed(i) : w.task = t /\ w.open} = {}
<1>1. \A w \in Closed(i) : w.open => w \in watchers /\ w.id # i
  BY ClosedType
<1>2. ASSUME NEW u \in Tasks \ {t}, NEW w \in Open(u) PROVE w \in Closed(i) /\ w.task = u /\ w.open
  <2>1. w \in watchers /\ w.task = u /\ w.open /\ w.id # i
    BY <1>2 DEF Open
  <2>2. QED
    BY <2>1 DEF Closed
<1>3. QED
  BY <1>1, <1>2 DEF Open

\* A watcher that takes over from the registered one is the only one of its task.
LEMMA StartedOpen ==
  ASSUME TypeOK, WatcherIds, NEW t \in Tasks, NEW c \in Confs,
         StartWatcher(t, c), Registered(t)
  PROVE  /\ Open(t)' = {[id |-> started + 1, task |-> t, conf |-> c, open |-> TRUE]}
         /\ reg'[t] = started + 1
         /\ \A u \in Tasks \ {t} : Open(u)' = Open(u) /\ reg'[u] = reg[u]
<1>. DEFINE n == [id |-> started + 1, task |-> t, conf |-> c, open |-> TRUE]
<1>1. /\ watchers \subseteq Watcher /\ reg \in [Tasks -> Nat]
      /\ \A w \in watchers : w.id = reg[t] => w.task = t
  BY DEF TypeOK, WatcherIds
<1>2. watchers' = Closed(reg[t]) \cup {n} /\ reg' = [reg EXCEPT ![t] = started + 1]
  BY DEF StartWatcher
<1>3. n.task = t /\ n.open
  OBVIOUS
<1>. HIDE DEF n
<1>4. /\ \A u \in Tasks \ {t} : {w \in Closed(reg[t]) : w.task = u /\ w.open} = Open(u)
      /\ {w \in Closed(reg[t]) : w.task = t /\ w.open} = {}
  BY <1>1, ClosedOpen DEF Registered
<1>5. Open(t)' = {n}
  BY <1>2, <1>3, <1>4 DEF Open
<1>6. \A u \in Tasks \ {t} : Open(u)' = Open(u)
  BY <1>2, <1>3, <1>4 DEF Open
<1>7. QED
  BY <1>1, <1>2, <1>5, <1>6 DEF n

\* A registered watcher has a new id; others keep theirs.
LEMMA StartKeepsIds ==
  ASSUME TypeOK, WatcherIds, NEW t \in Tasks, NEW c \in Confs,
         StartWatcher(t, c) \/ StartFails(t),
         \A b \in Admins : loc'[b] = loc[b] \/ loc'[b].wid = 0
  PROVE  WatcherIds'
<1>1. /\ watchers \subseteq Watcher /\ reg \in [Tasks -> Nat] /\ started \in Nat
      /\ \A b \in Admins : loc[b].wid \in Nat
  BY DEF TypeOK, Locals
<1>2. /\ started' \in Nat /\ started <= started'
      /\ \A u \in Tasks : reg'[u] = reg[u] \/ (u = t /\ reg'[u] = started + 1 /\ started' = started + 1)
  BY <1>1 DEF StartWatcher, StartFails
<1>3. ASSUME NEW w \in watchers'
      PROVE  \/ \E v \in watchers : v.id = w.id /\ v.task = w.task
             \/ w.id = started + 1 /\ w.task = t /\ started' = started + 1 /\ reg'[t] = started + 1
  <2>1. CASE w \in Closed(reg[t])
    BY <1>1, <2>1 DEF Closed, Watcher
  <2>2. CASE w \notin Closed(reg[t])
    <3>1. /\ w = [id |-> started + 1, task |-> t, conf |-> c, open |-> TRUE]
          /\ started' = started + 1 /\ reg' = [reg EXCEPT ![t] = started + 1]
      BY <1>3, <2>2 DEF StartWatcher, StartFails
    <3>2. QED
      BY <1>1, <3>1
  <2>3. QED
    BY <2>1, <2>2
<1>4. \A w \in watchers' : w.id \in Nat \ {0}
  BY <1>1, <1>3 DEF Watcher
<1>5. ASSUME NEW w \in watchers' PROVE w.id <= started'
  BY <1>1, <1>2, <1>3, <1>5 DEF WatcherIds, Watcher
<1>6. ASSUME NEW u \in Tasks PROVE reg'[u] <= started'
  BY <1>1, <1>2, <1>6 DEF WatcherIds
<1>7. ASSUME NEW u \in Tasks, NEW w \in watchers', w.id = reg'[u] PROVE w.task = u
  <2>1. reg[u] <= started /\ (\A v \in watchers : v.id <= started /\ (v.id = reg[u] => v.task = u))
    BY <1>7 DEF WatcherIds
  <2>2. \A v \in watchers : v.id \in Nat
    BY <1>1 DEF Watcher
  <2>3. CASE \E v \in watchers : v.id = w.id /\ v.task = w.task
    <3>1. reg'[u] = reg[u]
      BY <1>1, <1>2, <1>7, <2>1, <2>2, <2>3
    <3>2. QED
      BY <1>7, <2>1, <2>3, <3>1
  <2>4. CASE w.id = started + 1 /\ w.task = t /\ started' = started + 1 /\ reg'[t] = started + 1
    <3>1. started \in Nat /\ reg[u] \in Nat
      BY <1>1
    <3>2. reg'[u] # reg[u]
      BY <1>7, <2>1, <2>4, <3>1
    <3>3. QED
      BY <1>2, <2>4, <3>2
  <2>5. QED
    BY <1>3, <2>3, <2>4
<1>8. ASSUME NEW b \in Admins
      PROVE  loc'[b].wid <= started' /\ \A w \in watchers' : w.id = loc'[b].wid => w.task = loc'[b].task
  <2>1. /\ loc[b].wid <= started
        /\ \A v \in watchers : v.id <= started /\ (v.id = loc[b].wid => v.task = loc[b].task)
    BY DEF WatcherIds
  <2>2. CASE loc'[b].wid = 0
    BY <1>2, <1>4, <2>2
  <2>3. CASE loc'[b] = loc[b]
    <3>1. loc'[b].wid <= started'
      BY <1>1, <1>2, <2>1, <2>3
    <3>2. ASSUME NEW w \in watchers', w.id = loc'[b].wid PROVE w.task = loc'[b].task
      BY <1>1, <1>3, <2>1, <2>3, <3>2
    <3>3. QED
      BY <3>1, <3>2
  <2>4. QED
    BY <2>2, <2>3
<1>9. QED
  BY <1>5, <1>6, <1>7, <1>8 DEF WatcherIds

\* Steps that register nothing add no watcher and no id.
LEMMA QuietIds ==
  ASSUME TypeOK, WatcherIds, UNCHANGED started,
         \A w \in watchers' : \E v \in watchers : v.id = w.id /\ v.task = w.task,
         \A u \in Tasks : reg'[u] = reg[u] \/ reg'[u] = 0,
         \A b \in Admins : \/ loc'[b].wid = 0
                           \/ loc'[b].wid = loc[b].wid /\ loc'[b].task = loc[b].task
                           \/ \E u \in Tasks : loc'[b].wid = reg[u] /\ loc'[b].task = u
  PROVE  WatcherIds'
<1>1. started \in Nat /\ \A w \in watchers : w.id \in Nat \ {0}
  BY DEF TypeOK, Watcher
<1>2. \A w \in watchers' : w.id <= started' /\ w.id # 0
  BY <1>1 DEF WatcherIds
<1>3. \A u \in Tasks : reg'[u] <= started' /\ \A w \in watchers' : w.id = reg'[u] => w.task = u
  BY <1>1, <1>2 DEF WatcherIds
<1>4. ASSUME NEW b \in Admins
      PROVE  loc'[b].wid <= started' /\ \A w \in watchers' : w.id = loc'[b].wid => w.task = loc'[b].task
  <2>1. CASE loc'[b].wid = 0
    BY <1>1, <1>2, <2>1
  <2>2. CASE loc'[b].wid = loc[b].wid /\ loc'[b].task = loc[b].task
    BY <1>1, <2>2 DEF WatcherIds
  <2>3. CASE \E u \in Tasks : loc'[b].wid = reg[u] /\ loc'[b].task = u
    BY <1>1, <2>3 DEF WatcherIds
  <2>4. QED
    BY <1>4, <2>1, <2>2, <2>3
<1>5. QED
  BY <1>2, <1>3, <1>4 DEF WatcherIds

\* Every step keeps the ids apart.
LEMMA WatcherIdsStep == ASSUME TypeOK, WatcherIds, [Next]_vars PROVE WatcherIds'
<1>1. /\ watchers \subseteq Watcher /\ reg \in [Tasks -> Nat] /\ loc \in [Admins -> Locals]
      /\ \A a \in Admins : loc[a].task \in Tasks /\ loc[a].conf \in Confs
  BY DEF TypeOK, Locals
<1>2. NoLocals.wid = 0
  BY DEF NoLocals
<1>3. ASSUME NEW a \in Admins, Ask(a) PROVE WatcherIds'
  <2>1. UNCHANGED <<watchers, reg, started>>
    BY <1>3 DEF Ask, Create, Update, UpdateStatus, Delete, ClearRecords, HandleOnce, manager
  <2>2. UNCHANGED loc \/ \E o, t, s, c, l : Begin(a, o, t, s, c, l)
    BY <1>3 DEF Ask, Create, Update, UpdateStatus, Delete, ClearRecords, HandleOnce, request
  <2>3. \A b \in Admins : loc'[b].wid = 0 \/ loc'[b] = loc[b]
    BY <1>1, <2>2 DEF Begin
  <2>4. QED
    BY <2>1, <2>3, QuietIds
<1>4. ASSUME NEW a \in Admins, Register(a) PROVE WatcherIds'
  <2>1. Return(a) \/ UNCHANGED loc
    BY <1>4 DEF Register, AfterRegister
  <2>2. \A b \in Admins : loc'[b] = loc[b] \/ loc'[b].wid = 0
    BY <1>1, <1>2, <2>1 DEF Return
  <2>3. StartWatcher(loc[a].task, loc[a].conf) \/ StartFails(loc[a].task)
    BY <1>4 DEF Register
  <2>4. QED
    BY <1>1, <2>2, <2>3, StartKeepsIds
<1>5. ASSUME NEW a \in Admins, Forget(a) PROVE WatcherIds'
  <2>1. UNCHANGED <<watchers, started>> /\ \A u \in Tasks : reg'[u] = reg[u] \/ reg'[u] = 0
    BY <1>1, <1>5 DEF Forget
  <2>2. loc'[a].wid = reg[loc[a].task] /\ loc'[a].task = loc[a].task
    BY <1>1, <1>5 DEF Forget, Locals
  <2>3. \A b \in Admins \ {a} : loc'[b] = loc[b]
    BY <1>1, <1>5 DEF Forget
  <2>4. QED
    BY <1>1, <2>1, <2>2, <2>3, QuietIds
<1>6. ASSUME NEW a \in Admins, Close(a) PROVE WatcherIds'
  <2>1. UNCHANGED <<reg, started>> /\ watchers' = Closed(loc[a].wid)
    BY <1>6 DEF Close
  <2>2. \A b \in Admins : loc'[b].wid = 0 \/ loc'[b] = loc[b]
    BY <1>1, <1>6 DEF Close, Locals
  <2>3. \A w \in watchers' : \E v \in watchers : v.id = w.id /\ v.task = w.task
    BY <1>1, <2>1 DEF Closed, Watcher
  <2>4. QED
    BY <2>1, <2>2, <2>3, QuietIds
<1>7. ASSUME NEW a \in Admins,
             WriteConf(a) \/ WriteStatus(a) \/ Prune(a) \/ CleanRecords(a) \/ DeleteRow(a)
      PROVE  WatcherIds'
  <2>1. UNCHANGED <<watchers, reg, started>>
    BY <1>7 DEF WriteConf, WriteStatus, Prune, CleanRecords, DeleteRow, manager
  <2>2. Return(a) \/ UNCHANGED loc
    BY <1>7 DEF WriteConf, WriteStatus, Prune, CleanRecords, DeleteRow
  <2>3. \A b \in Admins : loc'[b].wid = 0 \/ loc'[b] = loc[b]
    BY <1>1, <1>2, <2>2 DEF Return
  <2>4. QED
    BY <2>1, <2>3, QuietIds
<1>8. CASE Watching
  <2>1. watchers' \subseteq watchers /\ UNCHANGED <<reg, started, loc>>
    BY <1>8 DEF Watching, Event, LoopEnds, HandleGet, HandleCreate, RunEnds, RunPrunes, manager, request
  <2>2. QED
    BY <2>1, QuietIds
<1>9. CASE Crash
  <2>1. /\ started' = 0 /\ watchers' = {} /\ \A u \in Tasks : reg'[u] = 0
        /\ \A b \in Admins : loc'[b].wid = 0
    BY <1>2, <1>9 DEF Crash
  <2>2. QED
    BY <2>1 DEF WatcherIds
<1>10. CASE Boot \/ Serve
  BY <1>10, QuietIds DEF Boot, Serve, manager, request
<1>11. ASSUME NEW t \in Tasks, RestoreFilewatch(t) PROVE WatcherIds'
  <2>1. row[t].conf \in Confs
    BY DEF TypeOK, Row
  <2>2. UNCHANGED loc /\ (StartWatcher(t, row[t].conf) \/ StartFails(t))
    BY <1>11 DEF RestoreFilewatch, request
  <2>3. QED
    BY <2>1, <2>2, StartKeepsIds
<1>12. CASE UNCHANGED vars
  BY <1>12, QuietIds DEF vars, manager, request
<1>13. QED
  BY <1>3, <1>4, <1>5, <1>6, <1>7, <1>8, <1>9, <1>10, <1>11, <1>12 DEF Next, Step

\* The one request there is may change what is about its own task, as long as
\* it stays Pending or leaves the task Watched.
LEMMA SoloStep ==
  ASSUME RequestInv, NEW a \in Admins, NEW t \in Tasks, loc[a].task = t, pc[a] # "idle",
         UNCHANGED <<phase, alone>>,
         faults' = 0 => faults = 0, clashes' = 0 => clashes = 0,
         \A b \in Admins \ {a} : pc'[b] = pc[b],
         Calm /\ Calm' /\ Pending(a, t) => \A u \in Tasks \ {t} :
           row'[u] = row[u] /\ reg'[u] = reg[u] /\ Open(u)' = Open(u),
         Calm /\ Calm' /\ Pending(a, t) =>
           \/ pc'[a] = "idle" /\ Watched(t)'
           \/ pc'[a] # "idle" /\ loc'[a].task = t /\ Pending(a, t)'
  PROVE  RequestInv'
<1>1. SUFFICES ASSUME phase' = "up", Calm'
               PROVE  /\ \A b, d \in Admins : pc'[b] # "idle" /\ pc'[d] # "idle" => b = d
                      /\ \A u \in Tasks : Watched(u)' \/ \E b \in Admins : pc'[b] # "idle" /\ loc'[b].task = u
                      /\ \A b \in Admins, u \in Tasks : pc'[b] # "idle" /\ loc'[b].task = u => Pending(b, u)'
  BY DEF RequestInv
<1>2. phase = "up" /\ Calm
  BY <1>1 DEF Calm
<1>3. /\ \A b, d \in Admins : pc[b] # "idle" /\ pc[d] # "idle" => b = d
      /\ \A u \in Tasks : Watched(u) \/ \E b \in Admins : pc[b] # "idle" /\ loc[b].task = u
      /\ Pending(a, t)
  BY <1>2 DEF RequestInv
<1>4. \A b \in Admins \ {a} : pc[b] = "idle" /\ pc'[b] = "idle"
  BY <1>3
<1>5. \A u \in Tasks \ {t} : Watched(u) /\ Watched(u)'
  <2>1. \A u \in Tasks \ {t} : Watched(u)
    BY <1>3, <1>4
  <2>2. QED
    BY <1>1, <1>2, <1>3, <2>1, SameTask
<1>6. \/ pc'[a] = "idle" /\ Watched(t)'
      \/ pc'[a] # "idle" /\ loc'[a].task = t /\ Pending(a, t)'
  BY <1>1, <1>2, <1>3
<1>7. ASSUME NEW b \in Admins, NEW u \in Tasks, pc'[b] # "idle", loc'[b].task = u PROVE Pending(b, u)'
  <2>1. b = a
    BY <1>4, <1>7
  <2>2. u = t
    BY <1>6, <1>7, <2>1
  <2>3. QED
    BY <1>6, <1>7, <2>1, <2>2
<1>8. ASSUME NEW u \in Tasks PROVE Watched(u)' \/ \E b \in Admins : pc'[b] # "idle" /\ loc'[b].task = u
  BY <1>5, <1>6
<1>9. ASSUME NEW b \in Admins, NEW d \in Admins, pc'[b] # "idle", pc'[d] # "idle" PROVE b = d
  BY <1>4, <1>9
<1>10. QED
  BY <1>7, <1>8, <1>9

\* Steps that leave the rows, the map, the requests and the open watchers alone.
LEMMA QuietRequests ==
  ASSUME RequestInv, UNCHANGED <<row, reg, pc, loc, alone>>,
         phase' = "up" => phase = "up", faults' = 0 => faults = 0, clashes' = 0 => clashes = 0,
         \A u \in Tasks : Open(u)' = Open(u)
  PROVE  RequestInv'
<1>1. SUFFICES ASSUME phase' = "up", Calm'
               PROVE  /\ \A b, d \in Admins : pc'[b] # "idle" /\ pc'[d] # "idle" => b = d
                      /\ \A u \in Tasks : Watched(u)' \/ \E b \in Admins : pc'[b] # "idle" /\ loc'[b].task = u
                      /\ \A b \in Admins, u \in Tasks : pc'[b] # "idle" /\ loc'[b].task = u => Pending(b, u)'
  BY DEF RequestInv
<1>2. phase = "up" /\ Calm
  BY <1>1 DEF Calm
<1>3. ASSUME NEW b \in Admins, NEW u \in Tasks, Pending(b, u) PROVE Pending(b, u)'
  BY <1>3 DEF Pending, Watched, HasOne, Enabled, Live, Registered, Agrees
<1>4. ASSUME NEW u \in Tasks, Watched(u) PROVE Watched(u)'
  BY <1>4, SameTask
<1>5. QED
  BY <1>2, <1>3, <1>4 DEF RequestInv

\* A request begins when no other is there.
LEMMA AskRequest == ASSUME TypeOK, RequestInv, NEW a \in Admins, Ask(a) PROVE RequestInv'
<1>1. /\ row \in [Tasks -> Row] /\ pc \in [Admins -> Label] /\ loc \in [Admins -> Locals]
  BY DEF TypeOK
<1>2. UNCHANGED <<watchers, reg, phase, faults, clashes>>
  BY DEF Ask, Create, Update, UpdateStatus, Delete, ClearRecords, HandleOnce, table, manager, proc
<1>3. \A u \in Tasks : Open(u)' = Open(u)
  BY <1>2 DEF Open
<1>4. ASSUME NEW o \in Ops, NEW t \in Tasks, NEW s \in StatusEnum, NEW c \in Confs, NEW l \in Label \ {"idle"},
             Begin(a, o, t, s, c, l), \A u \in Tasks \ {t} : row'[u] = row[u],
             Watched(t) => Pending(a, t)'
      PROVE  RequestInv'
  <2>1. SUFFICES ASSUME phase' = "up", Calm'
                 PROVE  /\ \A b, d \in Admins : pc'[b] # "idle" /\ pc'[d] # "idle" => b = d
                        /\ \A u \in Tasks : Watched(u)' \/ \E b \in Admins : pc'[b] # "idle" /\ loc'[b].task = u
                        /\ \A b \in Admins, u \in Tasks : pc'[b] # "idle" /\ loc'[b].task = u => Pending(b, u)'
    BY DEF RequestInv
  <2>2. Calm /\ phase = "up" /\ \A b \in Admins : pc[b] = "idle"
    BY <1>2, <1>4, <2>1 DEF Begin, Calm, Idle
  <2>3. \A u \in Tasks : Watched(u)
    BY <2>2 DEF RequestInv
  <2>4. /\ pc'[a] = l /\ loc'[a].task = t
        /\ \A b \in Admins \ {a} : pc'[b] = "idle"
    BY <1>1, <1>4, <2>2 DEF Begin, Goto
  <2>5. \A u \in Tasks \ {t} : Watched(u)'
    BY <1>2, <1>3, <1>4, <2>3, SameTask
  <2>6. Pending(a, t)'
    BY <1>4, <2>3
  <2>7. QED
    BY <2>4, <2>5, <2>6
<1>5. PICK t \in Tasks :
        \/ \E c \in Confs : Create(a, t, c) \/ Update(a, t, c)
        \/ \E s \in StatusEnum \cup {"pending"} : UpdateStatus(a, t, s)
        \/ Delete(a, t) \/ ClearRecords(a, t) \/ HandleOnce(a, t)
  BY DEF Ask
<1>6. row[t].status \in StatusEnum /\ row[t].conf \in Confs
  BY <1>1 DEF Row
<1>7. Watched(t) => Registered(t) /\ (row[t].state # "live" => Open(t) = {})
  BY DEF Watched, HasOne, Registered, Enabled, Live
<1>8. ASSUME NEW o \in Ops, NEW s \in StatusEnum, NEW c \in Confs, NEW l \in Label, Begin(a, o, t, s, c, l)
      PROVE  pc'[a] = l /\ loc'[a].op = o /\ loc'[a].status = s /\ loc'[a].conf = c
  BY <1>1, <1>8 DEF Begin, Goto
<1>9. ASSUME NEW c \in Confs, Create(a, t, c) PROVE RequestInv'
  <2>1. Begin(a, "create", t, "enable", c, "start")
    BY <1>9 DEF Create
  <2>2. pc'[a] = "start" /\ loc'[a].op = "create" /\ loc'[a].status = "enable" /\ loc'[a].conf = c
    BY <1>8, <2>1 DEF Ops, StatusEnum, Label
  <2>3. row'[t] = [state |-> "live", status |-> "enable", conf |-> c, key |-> FALSE]
        /\ \A u \in Tasks \ {t} : row'[u] = row[u]
    BY <1>1, <1>9 DEF Create
  <2>4. ASSUME Watched(t) PROVE Pending(a, t)'
    <3>1. Open(t)' = {}
      BY <1>3, <1>7, <1>9, <2>4 DEF Create
    <3>2. QED
      BY <2>2, <2>3, <3>1 DEF Pending, Registered, Agrees, Live, StatusEnum
  <2>5. QED
    BY <1>4, <2>1, <2>3, <2>4 DEF Ops, StatusEnum, Label
<1>10. ASSUME NEW c \in Confs, Update(a, t, c) PROVE RequestInv'
  <2>1. Begin(a, "update", t, row[t].status, c, "forget") /\ UNCHANGED row /\ Live(t)
    BY <1>10 DEF Update, table
  <2>2. pc'[a] = "forget" /\ loc'[a].op = "update" /\ loc'[a].status = row[t].status
    BY <1>6, <1>8, <2>1 DEF Ops, Label
  <2>3. ASSUME Watched(t) PROVE Pending(a, t)'
    BY <1>2, <1>3, <1>7, <2>1, <2>2, <2>3 DEF Pending, Registered, Agrees, Live, StatusEnum
  <2>4. QED
    BY <1>4, <1>6, <2>1, <2>3 DEF Ops, Label
<1>11. ASSUME NEW s \in StatusEnum \cup {"pending"}, UpdateStatus(a, t, s) PROVE RequestInv'
  <2>1. s \in StatusEnum /\ s \in Ops /\ UNCHANGED row /\ Live(t)
    BY <1>11 DEF UpdateStatus, StatusEnum, Ops, table
  <2>2. CASE s = "enable"
    <3>1. Begin(a, "enable", t, "enable", row[t].conf, "start")
      BY <1>11, <2>2 DEF UpdateStatus
    <3>2. /\ pc'[a] = "start" /\ loc'[a].op = "enable" /\ loc'[a].status = "enable"
          /\ loc'[a].conf = row[t].conf
      BY <1>6, <1>8, <3>1 DEF Ops, StatusEnum, Label
    <3>3. ASSUME Watched(t) PROVE Pending(a, t)'
      BY <1>2, <1>3, <1>7, <2>1, <3>2, <3>3 DEF Pending, Registered, Agrees, Live, StatusEnum
    <3>4. QED
      BY <1>4, <1>6, <2>1, <3>1, <3>3 DEF Ops, StatusEnum, Label
  <2>3. CASE s = "disable"
    <3>1. Begin(a, "disable", t, "disable", NoConf, "forget")
      BY <1>11, <2>3 DEF UpdateStatus
    <3>2. pc'[a] = "forget" /\ loc'[a].op = "disable" /\ loc'[a].status = "disable"
      BY <1>8, <3>1, NoLocalsType DEF Ops, StatusEnum, Label
    <3>3. ASSUME Watched(t) PROVE Pending(a, t)'
      BY <1>2, <1>3, <1>7, <2>1, <3>2, <3>3 DEF Pending, Registered, Agrees, Live, StatusEnum
    <3>4. QED
      BY <1>4, <2>1, <3>1, <3>3, NoLocalsType DEF Ops, StatusEnum, Label
  <2>4. QED
    BY <2>1, <2>2, <2>3 DEF StatusEnum
<1>12. ASSUME Delete(a, t) PROVE RequestInv'
  <2>1. Begin(a, "delete", t, "disable", NoConf, "forget") /\ UNCHANGED row /\ Live(t)
    BY <1>12 DEF Delete, table
  <2>2. pc'[a] = "forget" /\ loc'[a].op = "delete"
    BY <1>8, <2>1, NoLocalsType DEF Ops, StatusEnum, Label
  <2>3. ASSUME Watched(t) PROVE Pending(a, t)'
    BY <1>2, <1>3, <1>7, <2>1, <2>2, <2>3 DEF Pending, Registered, Agrees, Live, StatusEnum
  <2>4. QED
    BY <1>4, <2>1, <2>3, NoLocalsType DEF Ops, StatusEnum, Label
<1>13. ASSUME ClearRecords(a, t) \/ HandleOnce(a, t) PROVE RequestInv'
  BY <1>2, <1>3, <1>13, QuietRequests DEF ClearRecords, HandleOnce, table, manager, request, proc
<1>14. QED
  BY <1>5, <1>9, <1>10, <1>11, <1>12, <1>13

\* A request that has started, or not been able to start, a watcher.
LEMMA RegisterRequest ==
  ASSUME TypeOK, WatcherIds, RequestInv, NEW a \in Admins, Register(a) PROVE RequestInv'
<1>1. PICK t \in Tasks : t = loc[a].task
  BY DEF TypeOK, Locals
<1>2. /\ row \in [Tasks -> Row] /\ pc \in [Admins -> Label] /\ loc \in [Admins -> Locals]
      /\ faults \in Nat /\ loc[a].conf \in Confs
  BY DEF TypeOK, Locals
<1>3. PICK c \in Confs : c = loc[a].conf
  BY <1>2
<1>4. pc[a] = "start" /\ UNCHANGED <<phase, clashes>>
  BY DEF Register, proc
<1>5. alone' = alone /\ (\A b \in Admins \ {a} : pc'[b] = pc[b]) /\ (faults' = 0 => faults = 0)
  <2>1. AfterRegister(a) \/ Return(a)
    BY DEF Register
  <2>2. alone' = alone /\ \A b \in Admins \ {a} : pc'[b] = pc[b]
    BY <1>2, <2>1 DEF AfterRegister, Return, Goto
  <2>3. QED
    BY <1>2, <2>2 DEF Register, Ok, Fails
<1>6. ASSUME Calm, Calm', Pending(a, t)
      PROVE  /\ StartWatcher(t, c) /\ AfterRegister(a) /\ row' = [row EXCEPT ![t].key = @ \/ Live(t)]
             /\ Live(t) /\ Registered(t) /\ Agrees(a, t)
             /\ loc[a].op \in {"create", "update", "enable"}
             /\ c = row[t].conf
             /\ loc[a].op # "enable" => row[t].status = "enable"
  <2>1. ~Fails
    BY <1>2, <1>6 DEF Calm, Fails
  <2>2. /\ StartWatcher(t, c) /\ AfterRegister(a) /\ row' = [row EXCEPT ![t].key = @ \/ Live(t)]
    BY <1>1, <1>3, <2>1 DEF Register
  <2>3. QED
    BY <1>3, <1>4, <1>6, <2>2 DEF Pending
<1>7. ASSUME Calm, Calm', Pending(a, t)
      PROVE  /\ Open(t)' = {[id |-> started + 1, task |-> t, conf |-> c, open |-> TRUE]}
             /\ reg'[t] = started + 1
             /\ \A u \in Tasks \ {t} : Open(u)' = Open(u) /\ reg'[u] = reg[u] /\ row'[u] = row[u]
             /\ row'[t].key /\ row'[t].conf = c /\ row'[t].status = row[t].status /\ row'[t].state = row[t].state
  <2>1. /\ Open(t)' = {[id |-> started + 1, task |-> t, conf |-> c, open |-> TRUE]}
        /\ reg'[t] = started + 1
        /\ \A u \in Tasks \ {t} : Open(u)' = Open(u) /\ reg'[u] = reg[u]
    BY <1>6, <1>7, StartedOpen
  <2>2. Live(t) /\ c = row[t].conf /\ row' = [row EXCEPT ![t].key = @ \/ Live(t)]
    BY <1>6, <1>7
  <2>3. \A u \in Tasks \ {t} : row'[u] = row[u]
    BY <1>2, <2>2
  <2>4. row'[t].conf = row[t].conf /\ row'[t].status = row[t].status /\ row'[t].state = row[t].state
    BY <1>2, <2>2 DEF Row
  <2>5. row'[t].key
    BY <1>2, <2>2 DEF Row
  <2>6. QED
    BY <2>1, <2>2, <2>3, <2>4, <2>5
<1>8. ASSUME Calm, Calm', Pending(a, t) PROVE HasOne(t)' /\ Live(t)'
  <2>1. PICK w : w = [id |-> started + 1, task |-> t, conf |-> c, open |-> TRUE]
    OBVIOUS
  <2>2. w.conf = c /\ w.id = started + 1
    BY <2>1
  <2>3. /\ Open(t)' = {w} /\ reg'[t] = w.id /\ row'[t].key /\ w.conf = row'[t].conf
        /\ row'[t].state = row[t].state
    BY <1>7, <1>8, <2>1, <2>2
  <2>4. Live(t)
    BY <1>6, <1>8
  <2>5. QED
    BY <2>3, <2>4 DEF HasOne, Live
<1>9. ASSUME Calm, Calm', Pending(a, t)
      PROVE  \/ pc'[a] = "idle" /\ Watched(t)'
             \/ pc'[a] # "idle" /\ loc'[a].task = t /\ Pending(a, t)'
  <2>1. HasOne(t)' /\ Live(t)' /\ row'[t].status = row[t].status
    BY <1>7, <1>8, <1>9
  <2>2. AfterRegister(a) /\ loc[a].op \in {"create", "update", "enable"} /\ Agrees(a, t)
        /\ (loc[a].op # "enable" => row[t].status = "enable")
    BY <1>6, <1>9
  <2>3. loc[a].op # "enable" => Watched(t)'
    BY <2>1, <2>2 DEF Watched, Enabled
  <2>4. CASE loc[a].op = "update"
    <3>1. pc'[a] = "prune" /\ loc' = loc
      BY <1>2, <2>2, <2>4 DEF AfterRegister, Goto
    <3>2. QED
      BY <1>1, <2>3, <2>4, <3>1 DEF Pending
  <2>5. CASE loc[a].op = "enable"
    <3>1. pc'[a] = "write" /\ loc' = loc
      BY <1>2, <2>2, <2>5 DEF AfterRegister, Goto
    <3>2. Agrees(a, t)'
      BY <2>1, <2>2, <3>1 DEF Agrees
    <3>3. QED
      BY <1>1, <2>1, <2>5, <3>1, <3>2 DEF Pending
  <2>6. CASE loc[a].op = "create"
    <3>1. pc'[a] = "idle"
      BY <1>2, <2>2, <2>6 DEF AfterRegister, Return, Goto
    <3>2. QED
      BY <2>3, <2>6, <3>1
  <2>7. QED
    BY <2>2, <2>4, <2>5, <2>6
<1>10. pc[a] # "idle" /\ loc[a].task = t
  BY <1>1, <1>4
<1>11. QED
  BY <1>4, <1>5, <1>7, <1>9, <1>10, SoloStep

\* Stop takes the watcher out of the map.
LEMMA ForgetRequest ==
  ASSUME TypeOK, RequestInv, NEW a \in Admins, Forget(a) PROVE RequestInv'
<1>1. PICK t \in Tasks : t = loc[a].task
  BY DEF TypeOK, Locals
<1>2. pc \in [Admins -> Label] /\ loc \in [Admins -> Locals] /\ reg \in [Tasks -> Nat]
  BY DEF TypeOK
<1>3. /\ pc[a] = "forget" /\ pc'[a] = "close" /\ UNCHANGED <<phase, alone, faults, clashes>>
      /\ \A b \in Admins \ {a} : pc'[b] = pc[b]
  BY <1>2 DEF Forget, Goto, proc, table
<1>4. row' = row /\ \A u \in Tasks : Open(u)' = Open(u)
  BY DEF Forget, table, Open
<1>5. \A u \in Tasks \ {t} : reg'[u] = reg[u]
  BY <1>1, <1>2 DEF Forget
<1>6. /\ loc'[a].op = loc[a].op /\ loc'[a].task = t /\ loc'[a].status = loc[a].status
      /\ loc'[a].wid = reg[t]
  BY <1>1, <1>2 DEF Forget, Locals
<1>7. ASSUME Pending(a, t) PROVE Pending(a, t)'
  <2>1. /\ Live(t) /\ Registered(t) /\ Agrees(a, t)
        /\ loc[a].op \in {"update", "disable", "delete"}
    BY <1>3, <1>7 DEF Pending
  <2>2. Live(t)' /\ Agrees(a, t)' /\ \A w \in Open(t)' : w.id = loc'[a].wid
    BY <1>4, <1>6, <2>1 DEF Live, Agrees, Registered
  <2>3. QED
    BY <1>3, <1>6, <2>1, <2>2 DEF Pending
<1>8. pc[a] # "idle" /\ loc[a].task = t /\ pc'[a] # "idle"
  BY <1>1, <1>3
<1>9. QED
  BY <1>3, <1>4, <1>5, <1>6, <1>7, <1>8, SoloStep

\* Stop closes it.
LEMMA CloseRequest ==
  ASSUME TypeOK, WatcherIds, RequestInv, NEW a \in Admins, Close(a) PROVE RequestInv'
<1>1. PICK t \in Tasks : t = loc[a].task
  BY DEF TypeOK, Locals
<1>2. pc \in [Admins -> Label] /\ loc \in [Admins -> Locals] /\ watchers \subseteq Watcher
  BY DEF TypeOK
<1>3. /\ pc[a] = "close" /\ UNCHANGED <<phase, alone, faults, clashes>>
      /\ pc'[a] = IF loc[a].op = "delete" THEN "clean" ELSE "write"
      /\ \A b \in Admins \ {a} : pc'[b] = pc[b]
  BY <1>2 DEF Close, Goto, proc, table
<1>4. row' = row /\ reg' = reg
  BY DEF Close, table
<1>5. /\ \A u \in Tasks \ {t} : Open(u)' = Open(u)
      /\ (\A w \in Open(t) : w.id = loc[a].wid) => Open(t)' = {}
  <2>1. PICK i : i = loc[a].wid
    OBVIOUS
  <2>2. watchers' = Closed(i) /\ \A w \in watchers : w.id = i => w.task = t
    BY <1>1, <2>1 DEF Close, WatcherIds
  <2>3. /\ \A u \in Tasks \ {t} : {w \in Closed(i) : w.task = u /\ w.open} = Open(u)
        /\ (\A w \in Open(t) : w.id = i) => {w \in Closed(i) : w.task = t /\ w.open} = {}
    BY <1>2, <2>2, ClosedOpen
  <2>4. \A u : Open(u)' = {w \in Closed(i) : w.task = u /\ w.open}
    BY <2>2 DEF Open
  <2>5. QED
    BY <2>1, <2>3, <2>4
<1>6. loc'[a].op = loc[a].op /\ loc'[a].task = t /\ loc'[a].status = loc[a].status
  BY <1>1, <1>2 DEF Close, Locals
<1>7. ASSUME Pending(a, t) PROVE Pending(a, t)'
  <2>1. /\ Live(t) /\ Agrees(a, t) /\ Open(t)' = {}
        /\ loc[a].op \in {"update", "disable", "delete"}
    BY <1>3, <1>5, <1>7 DEF Pending
  <2>2. Live(t)' /\ Agrees(a, t)'
    BY <1>4, <1>6, <2>1 DEF Live, Agrees
  <2>3. QED
    BY <1>3, <1>6, <2>1, <2>2 DEF Pending
<1>8. pc[a] # "idle" /\ loc[a].task = t /\ pc'[a] # "idle"
  BY <1>1, <1>3
<1>9. QED
  BY <1>3, <1>4, <1>5, <1>6, <1>7, <1>8, SoloStep

\* The row of an Update is written while its watcher is stopped.
LEMMA WriteConfRequest ==
  ASSUME TypeOK, RequestInv, NEW a \in Admins, WriteConf(a) PROVE RequestInv'
<1>1. PICK t \in Tasks : t = loc[a].task
  BY DEF TypeOK, Locals
<1>2. /\ row \in [Tasks -> Row] /\ pc \in [Admins -> Label] /\ loc \in [Admins -> Locals]
      /\ faults \in Nat /\ clashes \in Nat
  BY DEF TypeOK
<1>3. /\ pc[a] = "write" /\ loc[a].op = "update" /\ UNCHANGED <<phase, alone>>
      /\ UNCHANGED <<watchers, reg>>
      /\ \A b \in Admins \ {a} : pc'[b] = pc[b]
      /\ (faults' = 0 => faults = 0) /\ (clashes' = 0 => clashes = 0)
  BY <1>2 DEF WriteConf, Return, Goto, Ok, Fails, proc, manager
<1>4. \A u \in Tasks : Open(u)' = Open(u)
  BY <1>3 DEF Open
<1>5. \A u \in Tasks \ {t} : row'[u] = row[u]
  BY <1>1, <1>2 DEF WriteConf
<1>6. ASSUME Calm, Calm', Pending(a, t)
      PROVE  pc'[a] # "idle" /\ loc'[a].task = t /\ Pending(a, t)'
  <2>1. Live(t) /\ Agrees(a, t) /\ Open(t) = {}
    BY <1>3, <1>6 DEF Pending
  <2>2. faults' # faults + 1 /\ clashes' # clashes + 1
    BY <1>2, <1>6 DEF Calm
  <2>3. /\ row' = [row EXCEPT ![t].conf = IF Live(t) THEN loc[a].conf ELSE row[t].conf]
        /\ Goto(a, IF loc[a].status = "enable" THEN "start" ELSE "prune") /\ loc' = loc
    BY <1>1, <2>2 DEF WriteConf, Fails
  <2>4. /\ row'[t].conf = loc[a].conf /\ row'[t].status = row[t].status /\ row'[t].state = "live"
    BY <1>2, <2>1, <2>3 DEF Row, Live
  <2>5. Live(t)' /\ Agrees(a, t)' /\ Registered(t)' /\ Open(t)' = {}
    BY <1>4, <2>1, <2>3, <2>4 DEF Live, Agrees, Registered
  <2>6. loc[a].status = row[t].status
    BY <1>3, <2>1 DEF Agrees
  <2>7. CASE loc[a].status = "enable"
    <3>1. pc'[a] = "start"
      BY <1>2, <2>3, <2>7 DEF Goto
    <3>2. QED
      BY <1>1, <1>3, <2>3, <2>4, <2>5, <2>6, <2>7, <3>1 DEF Pending
  <2>8. CASE loc[a].status # "enable"
    <3>1. pc'[a] = "prune"
      BY <1>2, <2>3, <2>8 DEF Goto
    <3>2. Watched(t)'
      BY <2>4, <2>5, <2>6, <2>8 DEF Watched, Enabled
    <3>3. QED
      BY <1>1, <2>3, <3>1, <3>2 DEF Pending
  <2>9. QED
    BY <2>7, <2>8
<1>7. pc[a] # "idle" /\ loc[a].task = t
  BY <1>1, <1>3
<1>8. QED
  BY <1>3, <1>4, <1>5, <1>6, <1>7, SoloStep

\* The other steps end the request, or are on the way to the row's end.
LEMMA LastRequest ==
  ASSUME TypeOK, RequestInv, NEW a \in Admins,
         WriteStatus(a) \/ Prune(a) \/ CleanRecords(a) \/ DeleteRow(a)
  PROVE  RequestInv'
<1>1. PICK t \in Tasks : t = loc[a].task
  BY DEF TypeOK, Locals
<1>2. /\ row \in [Tasks -> Row] /\ pc \in [Admins -> Label] /\ loc \in [Admins -> Locals]
      /\ faults \in Nat
  BY DEF TypeOK
<1>3. /\ pc[a] # "idle" /\ loc[a].task = t /\ UNCHANGED <<phase, alone, watchers, reg, clashes>>
      /\ \A b \in Admins \ {a} : pc'[b] = pc[b]
      /\ (faults' = 0 => faults = 0)
  BY <1>1, <1>2 DEF WriteStatus, Prune, CleanRecords, DeleteRow, Return, Goto, Ok, Fails, proc, manager, table
<1>4. \A u \in Tasks : Open(u)' = Open(u)
  BY <1>3 DEF Open
<1>5. \A u \in Tasks \ {t} : row'[u] = row[u]
  BY <1>1, <1>2 DEF WriteStatus, Prune, CleanRecords, DeleteRow, table
<1>6. ASSUME Calm, Calm' PROVE ~Fails
  BY <1>2, <1>6 DEF Calm, Fails
<1>7. ASSUME Return(a) PROVE pc'[a] = "idle"
  BY <1>2, <1>7 DEF Return, Goto
<1>8. ASSUME Calm, Calm', Pending(a, t), WriteStatus(a) PROVE pc'[a] = "idle" /\ Watched(t)'
  <2>1. /\ Live(t) /\ Agrees(a, t) /\ loc[a].op \in StatusEnum
        /\ (loc[a].op = "enable" => HasOne(t)) /\ (loc[a].op # "enable" => Open(t) = {})
    BY <1>8 DEF Pending, WriteStatus
  <2>2. loc[a].status = loc[a].op /\ Return(a) /\ row' = [row EXCEPT ![t].status = loc[a].op]
    BY <1>1, <1>6, <1>8, <2>1 DEF WriteStatus, Agrees
  <2>3. /\ row'[t].status = loc[a].op /\ row'[t].state = row[t].state /\ row'[t].conf = row[t].conf
        /\ row'[t].key = row[t].key
    BY <1>2, <2>2 DEF Row
  <2>4. CASE loc[a].op = "enable"
    <3>1. HasOne(t)'
      BY <1>3, <1>4, <2>1, <2>3, <2>4 DEF HasOne
    <3>2. Enabled(t)'
      BY <2>1, <2>3, <2>4 DEF Enabled, Live
    <3>3. QED
      BY <1>7, <2>2, <3>1, <3>2 DEF Watched
  <2>5. CASE loc[a].op # "enable"
    <3>1. ~Enabled(t)' /\ Open(t)' = {}
      BY <1>4, <2>1, <2>3, <2>5 DEF Enabled
    <3>2. QED
      BY <1>7, <2>2, <3>1 DEF Watched
  <2>6. QED
    BY <2>4, <2>5
<1>9. ASSUME Calm, Calm', Pending(a, t), Prune(a) PROVE pc'[a] = "idle" /\ Watched(t)'
  <2>1. Watched(t) /\ Return(a) /\ row' = row
    BY <1>9 DEF Pending, Prune, table
  <2>2. QED
    BY <1>3, <1>4, <1>7, <2>1, SameTask
<1>10. ASSUME Calm, Calm', Pending(a, t), CleanRecords(a)
       PROVE  pc'[a] # "idle" /\ loc'[a].task = t /\ Pending(a, t)'
  <2>1. Open(t) = {} /\ Goto(a, "delete") /\ loc' = loc
    BY <1>6, <1>10 DEF Pending, CleanRecords
  <2>2. pc'[a] = "delete"
    BY <1>2, <2>1 DEF Goto
  <2>3. QED
    BY <1>3, <1>4, <2>1, <2>2 DEF Pending
<1>11. ASSUME Calm, Calm', Pending(a, t), DeleteRow(a) PROVE pc'[a] = "idle" /\ Watched(t)'
  <2>1. Open(t) = {} /\ Return(a) /\ row' = [row EXCEPT ![t].state = "deleted"]
    BY <1>1, <1>6, <1>11 DEF Pending, DeleteRow
  <2>2. ~Enabled(t)'
    BY <1>2, <2>1 DEF Enabled, Live, Row
  <2>3. QED
    BY <1>4, <1>7, <2>1, <2>2 DEF Watched
<1>12. QED
  BY <1>3, <1>4, <1>5, <1>8, <1>9, <1>10, <1>11, SoloStep

\* Requests come only when the process serves.
LEMMA EnabledStep == ASSUME EnabledInv, [Next]_vars PROVE RequestInv' /\ BootInv'
<1>1. TypeOK /\ WatcherIds /\ RequestInv /\ BootInv
  BY DEF EnabledInv
<1>2. /\ row \in [Tasks -> Row] /\ pc \in [Admins -> Label] /\ faults \in Nat
  BY <1>1 DEF TypeOK
<1>3. ASSUME NEW a \in Admins, Ask(a) \/ Step(a) PROVE RequestInv' /\ BootInv'
  <2>1. (phase = "up" /\ phase' = "up") \/ UNCHANGED <<pc, watchers, row, reg, todo, faults, phase>>
    <3>1. CASE Ask(a)
      BY <3>1 DEF Ask, Create, Update, UpdateStatus, Delete, ClearRecords, HandleOnce, Begin, proc
    <3>2. CASE Step(a)
      <4>1. pc[a] # "idle" /\ phase' = phase
        BY <3>2 DEF Step, Register, Forget, Close, WriteConf, WriteStatus, Prune, CleanRecords, DeleteRow, proc
      <4>2. QED
        BY <1>1, <4>1 DEF BootInv
    <3>3. QED
      BY <1>3, <3>1, <3>2
  <2>2. BootInv'
    BY <1>1, <2>1 DEF BootInv, Watched, HasOne, Enabled, Live, Open
  <2>3. RequestInv'
    BY <1>1, <1>3, AskRequest, RegisterRequest, ForgetRequest, CloseRequest, WriteConfRequest, LastRequest DEF Step
  <2>4. QED
    BY <2>2, <2>3
<1>4. CASE Watching
  <2>1. /\ UNCHANGED <<row, reg, pc, loc, alone, phase, todo, clashes>> /\ (faults' = 0 => faults = 0)
        /\ watchers' \subseteq watchers /\ \A w \in watchers : w.open => w \in watchers'
    BY <1>2, <1>4 DEF Watching, Event, LoopEnds, HandleGet, HandleCreate, RunEnds, RunPrunes,
                      table, manager, request, proc, Ok, Fails
  <2>2. \A u \in Tasks : Open(u)' = Open(u)
    BY <2>1 DEF Open
  <2>3. \A u \in Tasks : Watched(u)' = Watched(u) /\ Enabled(u)' = Enabled(u)
    BY <2>1, <2>2 DEF Watched, HasOne, Enabled, Live
  <2>4. BootInv'
    BY <1>1, <2>1, <2>2, <2>3 DEF BootInv
  <2>5. QED
    BY <1>1, <2>1, <2>2, <2>4, QuietRequests
<1>5. CASE Crash
  BY <1>5 DEF Crash, RequestInv, BootInv
<1>6. CASE Boot
  <2>1. phase = "down" /\ phase' = "boot" /\ watchers = {} /\ UNCHANGED <<watchers, pc>>
    BY <1>1, <1>6 DEF Boot, BootInv, manager, request
  <2>2. \A u \in Tasks : Open(u)' = {}
    BY <2>1 DEF Open
  <2>3. ASSUME NEW u \in Tasks PROVE Enabled(u)' <=> u \in ToRestore
    <3>1. row'[u].state = row[u].state /\ row'[u].status = row[u].status
      BY <1>2, <1>6 DEF Boot, Row
    <3>2. QED
      BY <3>1 DEF Enabled, Live, ToRestore
  <2>4. faults' = 0 => todo' = ToRestore
    BY <1>6 DEF Boot
  <2>5. BootInv'
    BY <1>1, <2>1, <2>2, <2>3, <2>4 DEF BootInv, Watched
  <2>6. QED
    BY <2>1, <2>5 DEF RequestInv
<1>7. CASE Serve
  <2>1. /\ phase = "boot" /\ todo = {} /\ phase' = "up"
        /\ UNCHANGED <<row, clashes, reg, watchers, pc, loc, alone, faults>>
    BY <1>7 DEF Serve, table, manager, request
  <2>2. \A a \in Admins : pc'[a] = "idle"
    BY <1>1, <2>1 DEF BootInv
  <2>3. ASSUME Calm' PROVE \A u \in Tasks : Watched(u)'
    <3>1. \A u \in Tasks : Watched(u)
      BY <1>1, <2>1, <2>3 DEF BootInv, Calm
    <3>2. \A u \in Tasks : Open(u)' = Open(u)
      BY <2>1 DEF Open
    <3>3. QED
      BY <2>1, <3>1, <3>2, SameTask
  <2>4. QED
    BY <2>1, <2>2, <2>3 DEF RequestInv, BootInv
<1>8. ASSUME NEW t \in Tasks, RestoreFilewatch(t) PROVE RequestInv' /\ BootInv'
  <2>1. /\ phase = "boot" /\ t \in todo /\ todo' = todo \ {t} /\ UNCHANGED <<phase, pc>>
    BY <1>8 DEF RestoreFilewatch, request
  <2>2. ASSUME faults' = 0
        PROVE  \A u \in Tasks : IF u \in todo' THEN Enabled(u)' /\ Open(u)' = {} ELSE Watched(u)'
    <3>1. faults = 0 /\ StartWatcher(t, row[t].conf) /\ row' = [row EXCEPT ![t].key = TRUE]
      BY <1>2, <1>8, <2>2 DEF RestoreFilewatch, Ok, Fails
    <3>2. \A u \in Tasks : IF u \in todo THEN Enabled(u) /\ Open(u) = {} ELSE Watched(u)
      BY <1>1, <2>1, <3>1 DEF BootInv
    <3>3. Enabled(t) /\ Registered(t) /\ row[t].conf \in Confs
      BY <1>2, <2>1, <3>2 DEF Registered, Row
    <3>4. /\ Open(t)' = {[id |-> started + 1, task |-> t, conf |-> row[t].conf, open |-> TRUE]}
          /\ reg'[t] = started + 1
          /\ \A u \in Tasks \ {t} : Open(u)' = Open(u) /\ reg'[u] = reg[u]
      BY <1>1, <3>1, <3>3, StartedOpen
    <3>5. /\ \A u \in Tasks \ {t} : row'[u] = row[u]
          /\ row'[t].key /\ row'[t].conf = row[t].conf
          /\ row'[t].state = row[t].state /\ row'[t].status = row[t].status
      BY <1>2, <3>1 DEF Row
    <3>6. HasOne(t)'
      <4>1. PICK w : w = [id |-> started + 1, task |-> t, conf |-> row[t].conf, open |-> TRUE]
        OBVIOUS
      <4>2. Open(t)' = {w} /\ reg'[t] = w.id /\ row'[t].key /\ w.conf = row'[t].conf
        BY <3>4, <3>5, <4>1
      <4>3. QED
        BY <4>2 DEF HasOne
    <3>7. Watched(t)'
      BY <3>3, <3>5, <3>6 DEF Watched, Enabled, Live
    <3>8. ASSUME NEW u \in Tasks \ {t}
          PROVE  IF u \in todo' THEN Enabled(u)' /\ Open(u)' = {} ELSE Watched(u)'
      <4>1. (Watched(u) => Watched(u)') /\ Enabled(u)' = Enabled(u) /\ Open(u)' = Open(u)
        BY <3>4, <3>5, SameTask
      <4>2. QED
        BY <2>1, <3>2, <4>1
    <3>9. QED
      BY <2>1, <3>7, <3>8
  <2>3. QED
    BY <1>1, <2>1, <2>2 DEF RequestInv, BootInv
<1>9. CASE UNCHANGED vars
  <2>1. /\ UNCHANGED <<row, reg, watchers, pc, loc, alone, phase, todo, clashes, faults>>
    BY <1>9 DEF vars, table, manager, request, proc
  <2>2. \A u \in Tasks : Open(u)' = Open(u)
    BY <2>1 DEF Open
  <2>3. \A u \in Tasks : Watched(u)' = Watched(u) /\ Enabled(u)' = Enabled(u)
    BY <2>1, <2>2 DEF Watched, HasOne, Enabled, Live
  <2>4. BootInv'
    BY <1>1, <2>1, <2>2, <2>3 DEF BootInv
  <2>5. QED
    BY <1>1, <2>1, <2>2, <2>4, QuietRequests
<1>10. QED
  BY <1>3, <1>4, <1>5, <1>6, <1>7, <1>8, <1>9 DEF Next

\* It holds when the process starts for the first time, with no task.
LEMMA EnabledInit == Init => EnabledInv
<1>. SUFFICES ASSUME Init PROVE EnabledInv
  OBVIOUS
<1>1. /\ watchers = {} /\ started = 0 /\ phase = "up"
      /\ \A t \in Tasks : reg[t] = 0 /\ row[t].state = "absent"
      /\ \A a \in Admins : pc[a] = "idle" /\ loc[a].wid = 0
  BY DEF Init, NoLocals
<1>2. \A t \in Tasks : Watched(t)
  BY <1>1 DEF Watched, Enabled, Live, Open
<1>3. RequestInv /\ BootInv /\ WatcherIds
  BY <1>1, <1>2 DEF RequestInv, BootInv, WatcherIds
<1>4. QED
  BY <1>3, TypeInit DEF EnabledInv

\* Each enabled task has one watcher, on the configuration of its row, and a
\* disabled or deleted task none, when no request is under way, none has
\* overlapped another, nothing failed and no update was refused
\* (scheduler/watcher.go:35).
THEOREM EnabledStaysWatched == Spec => []EnabledIsWatched
<1>1. EnabledInv /\ [Next]_vars => EnabledInv'
  BY TypeStep, WatcherIdsStep, EnabledStep DEF EnabledInv
<1>2. QED
  BY <1>1, EnabledInit, EnabledInvSuffices, PTL DEF Spec
=============================================================================
