------------------------- MODULE CronScheduleProofs -------------------------
(***************************************************************************)
(* Proofs about CronSchedule, for any set of cronjobs, requests and specs  *)
(* and any bounds: only entries of the own cronjob are ever removed, and   *)
(* without crashes and failing statements an enabled cronjob has an entry, *)
(* however the requests about it interleave.  With requests one at a time, *)
(* and any crashes and failures, a restart is exact and rows name their    *)
(* entries.                                                                *)
(***************************************************************************)
EXTENDS CronSchedule, TLAPS

----------------------------------------------------------------------------
\* The locals of a request that has returned are well-typed.
LEMMA NoLocalsType == NoLocals \in Locals
BY ScheduleAssumption DEF NoLocals, Locals, StatusEnum

\* A request that replaces one of its local variables keeps the types of all.
LEMMA LocalsType ==
  ASSUME NEW x \in Locals
  PROVE  /\ \A S \in SUBSET Nat : [x EXCEPT !.new = S] \in Locals /\ [x EXCEPT !.ids = S] \in Locals
         /\ \A j \in Jobs : [x EXCEPT !.job = j] \in Locals
         /\ \A n \in Nat : [x EXCEPT !.parts = n] \in Locals
<1>1. \A S \in SUBSET Nat : [x EXCEPT !.new = S] \in Locals
  BY DEF Locals
<1>2. \A S \in SUBSET Nat : [x EXCEPT !.ids = S] \in Locals
  BY DEF Locals
<1>3. \A j \in Jobs : [x EXCEPT !.job = j] \in Locals
  BY DEF Locals
<1>4. \A n \in Nat : [x EXCEPT !.parts = n] \in Locals
  BY DEF Locals
<1>5. QED
  BY <1>1, <1>2, <1>3, <1>4

\* The ids Register gives are numbers.
LEMMA FreshType ==
  ASSUME NEW n \in Nat, lastId \in Nat
  PROVE  FreshIds(n) \subseteq Nat
BY DEF FreshIds

\* Registering keeps the scheduler's types.
LEMMA RegisterType ==
  ASSUME NEW n \in Nat, NEW j \in Jobs, lastId \in Nat,
         entries \subseteq [id : Nat, job : Jobs], Register(j, n)
  PROVE  lastId' \in Nat /\ entries' \subseteq [id : Nat, job : Jobs]
BY FreshType DEF Register

\* Removing keeps them.
LEMMA WithoutType ==
  ASSUME NEW S, entries \subseteq [id : Nat, job : Jobs]
  PROVE  Without(S) \subseteq [id : Nat, job : Jobs]
BY DEF Without

\* The types are right in every initial state.
LEMMA TypeInit == Init => TypeOK
<1>1. NoLocals \in Locals
  BY NoLocalsType
<1>2. QED
  BY <1>1 DEF Init, TypeOK, Row, StatusEnum, Label

\* Every step keeps the types right.
LEMMA TypeStep == TypeOK /\ [Next]_vars => TypeOK'
<1>. SUFFICES ASSUME TypeOK PROVE [Next]_vars => TypeOK'
  OBVIOUS
<1>1. /\ row \in [Jobs -> Row] /\ entries \subseteq [id : Nat, job : Jobs]
      /\ lastId \in Nat /\ pc \in [Admins -> Label] /\ loc \in [Admins -> Locals]
      /\ phase \in {"up", "down", "boot"} /\ todo \subseteq Jobs
      /\ faults \in Nat /\ crashes \in Nat /\ alone \in BOOLEAN
  BY DEF TypeOK
<1>2. ASSUME NEW a \in Admins, NEW l \in Label, Goto(a, l) PROVE pc' \in [Admins -> Label]
  BY <1>1, <1>2 DEF Goto
<1>30. ASSUME NEW a \in Admins, Request(a) PROVE alone' \in BOOLEAN
  BY <1>1, <1>30 DEF Request
<1>3. ASSUME NEW a \in Admins, Return(a)
      PROVE  pc' \in [Admins -> Label] /\ loc' \in [Admins -> Locals]
  BY <1>1, <1>3, NoLocalsType DEF Return, Goto, Label
<1>4. ASSUME StmtOk \/ StmtFails PROVE faults' \in Nat
  BY <1>1, <1>4 DEF StmtOk, StmtFails
<1>5. ASSUME NEW a \in Admins
      PROVE  /\ loc[a] \in Locals /\ loc[a].job \in Jobs /\ loc[a].parts \in Nat
             /\ loc[a].status \in StatusEnum
             /\ loc[a].ids \subseteq Nat /\ loc[a].new \subseteq Nat
  BY <1>1 DEF Locals
<1>6. ASSUME NEW j \in Jobs
      PROVE  /\ row[j] \in Row /\ row[j].parts \in Nat /\ row[j].ids \subseteq Nat
             /\ row[j].status \in StatusEnum
  BY <1>1 DEF Row
<1>7. ASSUME NEW a \in Admins, NEW j \in Jobs, NEW n \in Specs, Create(a, j, n) PROVE TypeOK'
  <2>1. loc' \in [Admins -> Locals]
    <3>1. loc' = [loc EXCEPT ![a].job = j, ![a].parts = n] /\ n \in Nat
      BY <1>7, ScheduleAssumption DEF Create
    <3>2. [[loc[a] EXCEPT !.job = j] EXCEPT !.parts = n] \in Locals
      BY <1>5, <3>1, LocalsType
    <3>3. QED
      BY <1>1, <3>1, <3>2
  <2>2. pc' \in [Admins -> Label]
    BY <1>2, <1>7 DEF Create, Label
  <2>3. alone' \in BOOLEAN
    BY <1>30, <1>7 DEF Create
  <2>4. QED
    BY <1>1, <2>1, <2>2, <2>3, <1>7 DEF TypeOK, Create, sched, life
<1>8. ASSUME NEW a \in Admins, NEW j \in Jobs, NEW n \in Specs, Update(a, j, n) PROVE TypeOK'
  <2>1. loc' \in [Admins -> Locals]
    BY <1>1, <1>5, <1>6, <1>8, ScheduleAssumption DEF Update, Locals, StatusEnum
  <2>2. pc' \in [Admins -> Label]
    BY <1>2, <1>8 DEF Update, Label
  <2>3. alone' \in BOOLEAN
    BY <1>30, <1>8 DEF Update
  <2>4. QED
    BY <1>1, <2>1, <2>2, <2>3, <1>8 DEF TypeOK, Update, sched, life
<1>9. ASSUME NEW a \in Admins, NEW j \in Jobs, NEW s, UpdateStatus(a, j, s) PROVE TypeOK'
  <2>1. loc' \in [Admins -> Locals]
    BY <1>1, <1>5, <1>6, <1>9, ScheduleAssumption DEF UpdateStatus, Locals, StatusEnum
  <2>2. pc' \in [Admins -> Label]
    BY <1>2, <1>9 DEF UpdateStatus, Label
  <2>3. alone' \in BOOLEAN
    BY <1>30, <1>9 DEF UpdateStatus
  <2>4. QED
    BY <1>1, <2>1, <2>2, <2>3, <1>9 DEF TypeOK, UpdateStatus, sched, life
<1>10. ASSUME NEW a \in Admins, NEW j \in Jobs, Delete(a, j) PROVE TypeOK'
  <2>1. loc' \in [Admins -> Locals]
    <3>1. loc' = [loc EXCEPT ![a].job = j, ![a].ids = row[j].ids]
      BY <1>10 DEF Delete
    <3>2. [[loc[a] EXCEPT !.job = j] EXCEPT !.ids = row[j].ids] \in Locals
      BY <1>5, <1>6, LocalsType
    <3>3. QED
      BY <1>1, <3>1, <3>2
  <2>2. pc' \in [Admins -> Label]
    BY <1>2, <1>10 DEF Delete, Label
  <2>3. alone' \in BOOLEAN
    BY <1>30, <1>10 DEF Delete
  <2>4. QED
    BY <1>1, <2>1, <2>2, <2>3, <1>10 DEF TypeOK, Delete, sched, life
<1>11. ASSUME NEW a \in Admins, CreateRegister(a) PROVE TypeOK'
  <2>. DEFINE n == loc[a].parts
  <2>1. CASE n = 0
    BY <1>1, <1>3, <1>11, <2>1 DEF TypeOK, CreateRegister, sched, proc, life
  <2>2. CASE n # 0
    <3>1. FreshIds(n) \subseteq Nat
      BY <1>1, <1>5, FreshType
    <3>2. Register(loc[a].job, n)
      BY <1>11, <2>2 DEF CreateRegister
    <3>3. lastId' \in Nat /\ entries' \subseteq [id : Nat, job : Jobs]
      BY <1>1, <1>5, <3>2, RegisterType
    <3>4. loc' \in [Admins -> Locals]
      <4>1. loc' = [loc EXCEPT ![a].new = FreshIds(n)]
        BY <1>11, <2>2 DEF CreateRegister
      <4>2. [loc[a] EXCEPT !.new = FreshIds(n)] \in Locals
        BY <1>5, <3>1, LocalsType
      <4>3. QED
        BY <1>1, <4>1, <4>2
    <3>5. pc' \in [Admins -> Label]
      BY <1>2, <1>11, <2>2 DEF CreateRegister, Label
    <3>6. QED
      BY <1>1, <3>3, <3>4, <3>5, <1>11 DEF TypeOK, CreateRegister, proc, life
  <2>3. QED
    BY <2>1, <2>2
<1>12. ASSUME NEW a \in Admins, CreateRow(a) PROVE TypeOK'
  <2>1. row' \in [Jobs -> Row]
    BY <1>1, <1>5, <1>6, <1>12 DEF CreateRow, Row, StatusEnum
  <2>2. entries' \subseteq [id : Nat, job : Jobs]
    BY <1>1, <1>12, WithoutType DEF CreateRow, sched
  <2>3. pc' \in [Admins -> Label] /\ loc' \in [Admins -> Locals]
    BY <1>3, <1>12 DEF CreateRow
  <2>4. faults' \in Nat
    BY <1>4, <1>12 DEF CreateRow
  <2>5. QED
    BY <1>1, <2>1, <2>2, <2>3, <2>4, <1>12 DEF TypeOK, CreateRow, sched, proc, life
<1>13. ASSUME NEW a \in Admins, UpdateRegister(a) PROVE TypeOK'
  <2>. DEFINE n == loc[a].parts
  <2>1. CASE n = 0
    BY <1>1, <1>3, <1>13, <2>1 DEF TypeOK, UpdateRegister, sched, proc, life
  <2>2. CASE n # 0
    <3>1. FreshIds(n) \subseteq Nat
      BY <1>1, <1>5, FreshType
    <3>2. Register(loc[a].job, n)
      BY <1>13, <2>2 DEF UpdateRegister
    <3>3. lastId' \in Nat /\ entries' \subseteq [id : Nat, job : Jobs]
      BY <1>1, <1>5, <3>2, RegisterType
    <3>4. loc' \in [Admins -> Locals]
      <4>1. loc' = [loc EXCEPT ![a].new = FreshIds(n)]
        BY <1>13, <2>2 DEF UpdateRegister
      <4>2. [loc[a] EXCEPT !.new = FreshIds(n)] \in Locals
        BY <1>5, <3>1, LocalsType
      <4>3. QED
        BY <1>1, <4>1, <4>2
    <3>5. pc' \in [Admins -> Label]
      BY <1>2, <1>13, <2>2 DEF UpdateRegister, Label
    <3>6. QED
      BY <1>1, <3>3, <3>4, <3>5, <1>13 DEF TypeOK, UpdateRegister, proc, life
  <2>3. QED
    BY <2>1, <2>2
<1>14. ASSUME NEW a \in Admins, UpdateRemove(a) PROVE TypeOK'
  <2>1. entries' \subseteq [id : Nat, job : Jobs]
    BY <1>1, <1>14, WithoutType DEF UpdateRemove
  <2>2. loc' \in [Admins -> Locals]
    BY <1>1, <1>5, <1>14 DEF UpdateRemove, Locals
  <2>3. pc' \in [Admins -> Label]
    BY <1>2, <1>14 DEF UpdateRemove, Label
  <2>4. QED
    BY <1>1, <2>1, <2>2, <2>3, <1>14 DEF TypeOK, UpdateRemove, proc, life
<1>15. ASSUME NEW a \in Admins, UpdateRow(a) PROVE TypeOK'
  <2>1. row' \in [Jobs -> Row]
    <3>1. CASE row' = row
      BY <1>1, <3>1
    <3>2. CASE row' = [row EXCEPT ![loc[a].job].parts = loc[a].parts, ![loc[a].job].ids = loc[a].ids]
      BY <1>1, <1>5, <1>6, <3>2 DEF Row, StatusEnum
    <3>3. QED
      BY <1>15, <3>1, <3>2 DEF UpdateRow
  <2>2. entries' \subseteq [id : Nat, job : Jobs]
    BY <1>1, <1>15, WithoutType DEF UpdateRow, sched
  <2>3. pc' \in [Admins -> Label] /\ loc' \in [Admins -> Locals]
    BY <1>3, <1>15 DEF UpdateRow
  <2>4. faults' \in Nat
    BY <1>4, <1>15 DEF UpdateRow
  <2>5. refused' \subseteq Jobs
    BY <1>5, <1>15 DEF UpdateRow, TypeOK
  <2>6. QED
    BY <1>1, <2>1, <2>2, <2>3, <2>4, <2>5, <1>15 DEF TypeOK, UpdateRow, sched, life
<1>16. ASSUME NEW a \in Admins, EnableRegister(a) PROVE TypeOK'
  <2>. DEFINE n == loc[a].parts
  <2>1. CASE n = 0
    BY <1>1, <1>3, <1>16, <2>1 DEF TypeOK, EnableRegister, sched, proc, life
  <2>2. CASE n # 0
    <3>1. FreshIds(n) \subseteq Nat
      BY <1>1, <1>5, FreshType
    <3>2. Register(loc[a].job, n)
      BY <1>16, <2>2 DEF EnableRegister
    <3>3. lastId' \in Nat /\ entries' \subseteq [id : Nat, job : Jobs]
      BY <1>1, <1>5, <3>2, RegisterType
    <3>4. loc' \in [Admins -> Locals]
      BY <1>1, <1>5, <3>1, <1>16, <2>2 DEF EnableRegister, Locals
    <3>5. pc' \in [Admins -> Label]
      BY <1>2, <1>16, <2>2 DEF EnableRegister, Label
    <3>6. QED
      BY <1>1, <3>3, <3>4, <3>5, <1>16 DEF TypeOK, EnableRegister, proc, life
  <2>3. QED
    BY <2>1, <2>2
<1>17. ASSUME NEW a \in Admins, DisableRemove(a) PROVE TypeOK'
  <2>1. entries' \subseteq [id : Nat, job : Jobs]
    BY <1>1, <1>17, WithoutType DEF DisableRemove
  <2>2. loc' \in [Admins -> Locals]
    BY <1>1, <1>5, <1>17 DEF DisableRemove, Locals
  <2>3. pc' \in [Admins -> Label]
    BY <1>2, <1>17 DEF DisableRemove, Label
  <2>4. QED
    BY <1>1, <2>1, <2>2, <2>3, <1>17 DEF TypeOK, DisableRemove, proc, life
<1>18. ASSUME NEW a \in Admins, StatusRow(a) PROVE TypeOK'
  <2>1. row' \in [Jobs -> Row]
    BY <1>1, <1>5, <1>6, <1>18 DEF StatusRow, Row, StatusEnum
  <2>2. entries' \subseteq [id : Nat, job : Jobs]
    BY <1>1, <1>18, WithoutType DEF StatusRow, sched
  <2>3. pc' \in [Admins -> Label] /\ loc' \in [Admins -> Locals]
    BY <1>3, <1>18 DEF StatusRow
  <2>4. faults' \in Nat
    BY <1>4, <1>18 DEF StatusRow
  <2>5. QED
    BY <1>1, <2>1, <2>2, <2>3, <2>4, <1>18 DEF TypeOK, StatusRow, sched, proc, life
<1>19. ASSUME NEW a \in Admins, DeleteRemove(a) PROVE TypeOK'
  <2>1. entries' \subseteq [id : Nat, job : Jobs]
    BY <1>1, <1>19, WithoutType DEF DeleteRemove
  <2>2. loc' \in [Admins -> Locals]
    BY <1>1, <1>5, <1>19 DEF DeleteRemove, Locals
  <2>3. pc' \in [Admins -> Label]
    BY <1>2, <1>19 DEF DeleteRemove, Label
  <2>4. QED
    BY <1>1, <2>1, <2>2, <2>3, <1>19 DEF TypeOK, DeleteRemove, proc, life
<1>20. ASSUME NEW a \in Admins, DeleteClean(a) PROVE TypeOK'
  <2>1. pc' \in [Admins -> Label] /\ loc' \in [Admins -> Locals]
    BY <1>1, <1>2, <1>3, <1>20 DEF DeleteClean, Label
  <2>2. faults' \in Nat
    BY <1>4, <1>20 DEF DeleteClean
  <2>3. QED
    BY <1>1, <2>1, <2>2, <1>20 DEF TypeOK, DeleteClean, sched, proc, life
<1>21. ASSUME NEW a \in Admins, DeleteRow(a) PROVE TypeOK'
  <2>1. row' \in [Jobs -> Row]
    BY <1>1, <1>5, <1>6, <1>21 DEF DeleteRow, Row, StatusEnum
  <2>2. entries' \subseteq [id : Nat, job : Jobs]
    BY <1>1, <1>21, WithoutType DEF DeleteRow, sched
  <2>3. pc' \in [Admins -> Label] /\ loc' \in [Admins -> Locals]
    BY <1>3, <1>21 DEF DeleteRow
  <2>4. faults' \in Nat
    BY <1>4, <1>21 DEF DeleteRow
  <2>5. QED
    BY <1>1, <2>1, <2>2, <2>3, <2>4, <1>21 DEF TypeOK, DeleteRow, sched, proc, life
<1>22. CASE Crash
  BY <1>1, <1>22, NoLocalsType DEF TypeOK, Crash, Label
<1>23. CASE Boot
  <2>1. faults' \in Nat /\ todo' \subseteq Jobs
    BY <1>23 DEF Boot, ToRestore
  <2>2. QED
    BY <1>1, <2>1, <1>23 DEF TypeOK, Boot, sched
<1>24. CASE Serve
  BY <1>1, <1>24 DEF TypeOK, Serve, sched
<1>25. ASSUME NEW j \in Jobs, RestoreCronjob(j) PROVE TypeOK'
  <2>. DEFINE n == row[j].parts
  <2>1. n \in Nat /\ FreshIds(n) \subseteq Nat
    BY <1>1, <1>6, FreshType
  <2>2. lastId' \in Nat /\ entries' \subseteq [id : Nat, job : Jobs]
    BY <1>1, <2>1, <1>25, RegisterType DEF RestoreCronjob, sched
  <2>3. row' \in [Jobs -> Row]
    BY <1>1, <1>6, <2>1, <1>25 DEF RestoreCronjob, Row
  <2>4. faults' \in Nat
    BY <1>4, <1>25 DEF RestoreCronjob
  <2>5. QED
    BY <1>1, <2>2, <2>3, <2>4, <1>25 DEF TypeOK, RestoreCronjob
<1>26. CASE UNCHANGED vars
  BY <1>1, <1>26 DEF vars, TypeOK
<1>27. ASSUME NEW a \in Admins, Ask(a) PROVE TypeOK'
  BY <1>27, <1>7, <1>8, <1>9, <1>10, <1>26 DEF Ask, NotFound
<1>28. ASSUME NEW a \in Admins, Step(a) PROVE TypeOK'
  BY <1>28, <1>11, <1>12, <1>13, <1>14, <1>15, <1>16, <1>17, <1>18, <1>19, <1>20, <1>21
     DEF Step
<1>29. QED
  BY <1>27, <1>28, <1>22, <1>23, <1>24, <1>25, <1>26 DEF Next

\* Type correctness of the registry: rows, entries and requests have their types, and
\* the status of a row is never anything but enabled or disabled.
THEOREM ScheduleTypeCorrect == Spec => []TypeOK
BY TypeInit, TypeStep, PTL DEF Spec
----------------------------------------------------------------------------
\* A row, or a request on its behalf, names the entry id i for cronjob j.
Names(j, i) ==
  \/ i \in row[j].ids
  \/ \E a \in Admins : loc[a].job = j /\ i \in loc[a].ids \cup loc[a].new

\* Cron has given the id i, and no entry of another cronjob than j has it.
Owns(j, i) == i <= lastId /\ \A e \in entries : e.id = i => e.job = j

NothingHeld == \A a \in Admins : pc[a] = "idle" => loc[a].ids = {} /\ loc[a].new = {}

\* Until the first crash, every id that is named is an id of the cronjob it is named
\* for: the inductive invariant behind RemovesOwn.  A request that begins holds no
\* ids of the one before it in its slot.
OwnIds ==
  crashes = 0 =>
    /\ phase = "up"
    /\ \A e \in entries : e.id <= lastId
    /\ \A j \in Jobs, i \in Nat : Names(j, i) => Owns(j, i)
    /\ NothingHeld

\* Initially nothing is named.
LEMMA OwnInit == Init => OwnIds
<1>. SUFFICES ASSUME Init PROVE OwnIds
  OBVIOUS
<1>1. NoLocals.ids = {} /\ NoLocals.new = {}
  BY DEF NoLocals
<1>2. \A a \in Admins : loc[a].ids = {} /\ loc[a].new = {}
  BY <1>1 DEF Init
<1>3. \A j \in Jobs : row[j].ids = {}
  BY DEF Init
<1>4. \A j \in Jobs, i \in Nat : ~Names(j, i)
  BY <1>2, <1>3 DEF Names
<1>5. QED
  BY <1>2, <1>4 DEF Init, OwnIds, NothingHeld

\* A step that gives no id and names no new one keeps the ids apart.
LEMMA QuietOwn ==
  ASSUME TypeOK, OwnIds, crashes' = crashes, phase' = phase, lastId' = lastId,
         entries' \subseteq entries,
         \A j \in Jobs, i \in Nat : Names(j, i)' => Names(j, i),
         NothingHeld => NothingHeld'
  PROVE  OwnIds'
BY DEF OwnIds, Owns

\* So does a step that registers entries and names them for their cronjob: what was
\* named before is at most lastId, the new ids are above it.
LEMMA RegisterOwn ==
  ASSUME TypeOK, OwnIds, crashes' = crashes, phase' = phase,
         NEW k \in Jobs, NEW n \in Nat, Register(k, n),
         \A j \in Jobs, i \in Nat : Names(j, i)' => Names(j, i) \/ (j = k /\ i \in FreshIds(n)),
         NothingHeld => NothingHeld'
  PROVE  OwnIds'
<1>1. SUFFICES ASSUME crashes = 0 PROVE OwnIds'
  BY DEF OwnIds
<1>2. /\ phase = "up" /\ \A e \in entries : e.id <= lastId
      /\ \A j \in Jobs, i \in Nat : Names(j, i) => Owns(j, i)
      /\ NothingHeld
  BY <1>1 DEF OwnIds
<1>3. /\ lastId \in Nat /\ lastId' = lastId + n
      /\ \A e \in entries : e.id \in Nat
  BY DEF Register, TypeOK
<1>4. \A e \in entries' : e \in entries \/ (e.id \in FreshIds(n) /\ e.job = k)
  BY DEF Register
<1>5. \A i \in FreshIds(n) : i \in Nat /\ i > lastId /\ i <= lastId + n
  BY <1>3 DEF FreshIds
<1>6. \A e \in entries' : e.id <= lastId'
  BY <1>2, <1>3, <1>4, <1>5
<1>7. ASSUME NEW j \in Jobs, NEW i \in Nat, Names(j, i)' PROVE Owns(j, i)'
  <2>1. CASE Names(j, i)
    <3>1. i <= lastId /\ \A e \in entries : e.id = i => e.job = j
      BY <1>2, <2>1 DEF Owns
    <3>2. i <= lastId' /\ \A e \in entries' : e.id = i => e.job = j
      BY <1>3, <1>4, <1>5, <3>1
    <3>3. QED
      BY <3>2 DEF Owns
  <2>2. CASE j = k /\ i \in FreshIds(n)
    <3>1. \A e \in entries : e.id # i
      BY <1>2, <1>3, <1>5, <2>2
    <3>2. i <= lastId' /\ \A e \in entries' : e.id = i => e.job = j
      BY <1>3, <1>4, <1>5, <2>2, <3>1
    <3>3. QED
      BY <3>2 DEF Owns
  <2>3. QED
    BY <1>7, <2>1, <2>2
<1>8. QED
  BY <1>2, <1>6, <1>7 DEF OwnIds

\* Every step keeps the ids of different cronjobs apart.
LEMMA OwnStep == TypeOK /\ OwnIds /\ [Next]_vars => OwnIds'
<1>. SUFFICES ASSUME TypeOK, OwnIds PROVE [Next]_vars => OwnIds'
  OBVIOUS
<1>1. /\ row \in [Jobs -> Row] /\ pc \in [Admins -> Label] /\ loc \in [Admins -> Locals]
      /\ crashes \in Nat /\ lastId \in Nat
  BY DEF TypeOK
<1>2. ASSUME NEW a \in Admins
      PROVE  /\ loc[a].job \in Jobs /\ loc[a].parts \in Nat
  BY <1>1 DEF Locals
<1>3. \A S : Without(S) \subseteq entries
  BY DEF Without
<1>4. NoLocals.ids = {} /\ NoLocals.new = {}
  BY DEF NoLocals
<1>5. ASSUME NEW a \in Admins, Return(a)
      PROVE  /\ NothingHeld => NothingHeld'
             /\ \A b \in Admins : b # a => loc'[b] = loc[b]
             /\ loc'[a] = NoLocals
  BY <1>1, <1>4, <1>5 DEF Return, Goto, NothingHeld
<1>6. ASSUME NEW a \in Admins, NEW j \in Jobs, NEW n \in Specs, Create(a, j, n) PROVE OwnIds'
  <2>1. CASE crashes = 0
    <3>1. loc[a].ids = {} /\ loc[a].new = {}
      BY <2>1, <1>6 DEF OwnIds, NothingHeld, Create, Request
    <3>2. \A k \in Jobs, i \in Nat : Names(k, i)' => Names(k, i)
      BY <1>1, <3>1, <1>6 DEF Create, Names
    <3>3. NothingHeld => NothingHeld'
      BY <1>1, <1>6 DEF Create, NothingHeld, Goto
    <3>4. QED
      BY <3>2, <3>3, <1>6, QuietOwn DEF Create, sched, proc, life
  <2>2. CASE crashes # 0
    BY <2>2, <1>6 DEF OwnIds, Create, proc, life
  <2>3. QED
    BY <2>1, <2>2
<1>7. ASSUME NEW a \in Admins, NEW j \in Jobs, NEW n \in Specs, Update(a, j, n) PROVE OwnIds'
  <2>1. \A k \in Jobs, i \in Nat : Names(k, i)' => Names(k, i)
    BY <1>1, <1>7 DEF Update, Names, NothingHeld, Request
  <2>2. NothingHeld => NothingHeld'
    BY <1>1, <1>7 DEF Update, NothingHeld, Goto
  <2>3. QED
    BY <2>1, <2>2, <1>7, QuietOwn DEF Update, sched, proc, life
<1>8. ASSUME NEW a \in Admins, NEW j \in Jobs, NEW s, UpdateStatus(a, j, s) PROVE OwnIds'
  <2>1. \A k \in Jobs, i \in Nat : Names(k, i)' => Names(k, i)
    BY <1>1, <1>8 DEF UpdateStatus, Names, NothingHeld, Request
  <2>2. NothingHeld => NothingHeld'
    BY <1>1, <1>8 DEF UpdateStatus, NothingHeld, Goto
  <2>3. QED
    BY <2>1, <2>2, <1>8, QuietOwn DEF UpdateStatus, sched, proc, life
<1>9. ASSUME NEW a \in Admins, NEW j \in Jobs, Delete(a, j) PROVE OwnIds'
  <2>1. CASE crashes = 0
    <3>1. loc[a].ids = {} /\ loc[a].new = {}
      BY <2>1, <1>9 DEF OwnIds, NothingHeld, Delete, Request
    <3>2. \A k \in Jobs, i \in Nat : Names(k, i)' => Names(k, i)
      BY <1>1, <3>1, <1>9 DEF Delete, Names
    <3>3. NothingHeld => NothingHeld'
      BY <1>1, <1>9 DEF Delete, NothingHeld, Goto
    <3>4. QED
      BY <3>2, <3>3, <1>9, QuietOwn DEF Delete, sched, proc, life
  <2>2. CASE crashes # 0
    BY <2>2, <1>9 DEF OwnIds, Delete, proc, life
  <2>3. QED
    BY <2>1, <2>2
<1>10. ASSUME NEW a \in Admins, CreateRegister(a) PROVE OwnIds'
  <2>. DEFINE n == loc[a].parts
  <2>1. CASE n = 0
    <3>1. Return(a)
      BY <2>1, <1>10 DEF CreateRegister
    <3>2. \A k \in Jobs, i \in Nat : Names(k, i)' => Names(k, i)
      BY <1>4, <1>5, <3>1, <1>10 DEF CreateRegister, Names
    <3>3. QED
      BY <1>5, <2>1, <3>1, <3>2, <1>10, QuietOwn DEF CreateRegister, sched, proc, life
  <2>2. CASE n # 0
    <3>1. Register(loc[a].job, n)
      BY <2>2, <1>10 DEF CreateRegister
    <3>2. \A k \in Jobs, i \in Nat :
            Names(k, i)' => Names(k, i) \/ (k = loc[a].job /\ i \in FreshIds(n))
      <4>1. row' = row /\ \A b \in Admins : b # a => loc'[b] = loc[b]
        BY <1>1, <2>2, <1>10 DEF CreateRegister
      <4>2. /\ loc'[a].job = loc[a].job /\ loc'[a].new = FreshIds(n)
            /\ loc'[a].ids = loc[a].ids \/ loc'[a].ids = FreshIds(n)
        BY <1>1, <2>2, <1>10 DEF CreateRegister, Locals
      <4>. HIDE DEF n
      <4>3. QED
        BY <4>1, <4>2 DEF Names
    <3>3. NothingHeld => NothingHeld'
      BY <1>1, <2>2, <1>10 DEF CreateRegister, NothingHeld, Goto
    <3>4. QED
      BY <1>2, <3>1, <3>2, <3>3, <1>10, RegisterOwn DEF CreateRegister, proc, life
  <2>3. QED
    BY <2>1, <2>2
<1>11. ASSUME NEW a \in Admins, CreateRow(a) PROVE OwnIds'
  <2>1. Return(a)
    BY <1>11 DEF CreateRow
  <2>2. \A k \in Jobs, i \in Nat : Names(k, i)' => Names(k, i)
    BY <1>1, <1>2, <1>4, <1>5, <2>1, <1>11 DEF CreateRow, Names, Row
  <2>3. entries' \subseteq entries /\ lastId' = lastId /\ crashes' = crashes /\ phase' = phase
    BY <1>3, <1>11 DEF CreateRow, sched, proc, life
  <2>4. QED
    BY <1>5, <2>1, <2>2, <2>3, QuietOwn
<1>12. ASSUME NEW a \in Admins, UpdateRegister(a) PROVE OwnIds'
  <2>. DEFINE n == loc[a].parts
  <2>1. CASE n = 0
    <3>1. Return(a)
      BY <2>1, <1>12 DEF UpdateRegister
    <3>2. \A k \in Jobs, i \in Nat : Names(k, i)' => Names(k, i)
      BY <1>4, <1>5, <3>1, <1>12 DEF UpdateRegister, Names
    <3>3. QED
      BY <1>5, <2>1, <3>1, <3>2, <1>12, QuietOwn DEF UpdateRegister, sched, proc, life
  <2>2. CASE n # 0
    <3>1. Register(loc[a].job, n)
      BY <2>2, <1>12 DEF UpdateRegister
    <3>2. \A k \in Jobs, i \in Nat :
            Names(k, i)' => Names(k, i) \/ (k = loc[a].job /\ i \in FreshIds(n))
      <4>1. row' = row /\ \A b \in Admins : b # a => loc'[b] = loc[b]
        BY <1>1, <2>2, <1>12 DEF UpdateRegister
      <4>2. /\ loc'[a].job = loc[a].job /\ loc'[a].new = FreshIds(n)
            /\ loc'[a].ids = loc[a].ids \/ loc'[a].ids = FreshIds(n)
        BY <1>1, <2>2, <1>12 DEF UpdateRegister, Locals
      <4>. HIDE DEF n
      <4>3. QED
        BY <4>1, <4>2 DEF Names
    <3>3. NothingHeld => NothingHeld'
      BY <1>1, <2>2, <1>12 DEF UpdateRegister, NothingHeld, Goto
    <3>4. QED
      BY <1>2, <3>1, <3>2, <3>3, <1>12, RegisterOwn DEF UpdateRegister, proc, life
  <2>3. QED
    BY <2>1, <2>2
<1>13. ASSUME NEW a \in Admins, UpdateRemove(a) PROVE OwnIds'
  <2>1. \A k \in Jobs, i \in Nat : Names(k, i)' => Names(k, i)
    BY <1>1, <1>13 DEF UpdateRemove, Names
  <2>2. NothingHeld => NothingHeld'
    BY <1>1, <1>13 DEF UpdateRemove, NothingHeld, Goto
  <2>3. QED
    BY <1>3, <2>1, <2>2, <1>13, QuietOwn DEF UpdateRemove, sched, proc, life
<1>14. ASSUME NEW a \in Admins, UpdateRow(a) PROVE OwnIds'
  <2>1. Return(a)
    BY <1>14 DEF UpdateRow
  <2>2. \A k \in Jobs, i \in Nat : Names(k, i)' => Names(k, i)
    BY <1>1, <1>2, <1>4, <1>5, <2>1, <1>14 DEF UpdateRow, Names, Row
  <2>3. entries' \subseteq entries /\ lastId' = lastId /\ crashes' = crashes /\ phase' = phase
    BY <1>3, <1>14 DEF UpdateRow, sched, proc, life
  <2>4. QED
    BY <1>5, <2>1, <2>2, <2>3, QuietOwn
<1>15. ASSUME NEW a \in Admins, EnableRegister(a) PROVE OwnIds'
  <2>. DEFINE n == loc[a].parts
  <2>1. CASE n = 0
    <3>1. Return(a)
      BY <2>1, <1>15 DEF EnableRegister
    <3>2. \A k \in Jobs, i \in Nat : Names(k, i)' => Names(k, i)
      BY <1>4, <1>5, <3>1, <1>15 DEF EnableRegister, Names
    <3>3. QED
      BY <1>5, <2>1, <3>1, <3>2, <1>15, QuietOwn DEF EnableRegister, sched, proc, life
  <2>2. CASE n # 0
    <3>1. Register(loc[a].job, n)
      BY <2>2, <1>15 DEF EnableRegister
    <3>2. \A k \in Jobs, i \in Nat :
            Names(k, i)' => Names(k, i) \/ (k = loc[a].job /\ i \in FreshIds(n))
      <4>1. row' = row /\ \A b \in Admins : b # a => loc'[b] = loc[b]
        BY <1>1, <2>2, <1>15 DEF EnableRegister
      <4>2. /\ loc'[a].job = loc[a].job /\ loc'[a].new = FreshIds(n)
            /\ loc'[a].ids = loc[a].ids \/ loc'[a].ids = FreshIds(n)
        BY <1>1, <2>2, <1>15 DEF EnableRegister, Locals
      <4>. HIDE DEF n
      <4>3. QED
        BY <4>1, <4>2 DEF Names
    <3>3. NothingHeld => NothingHeld'
      BY <1>1, <2>2, <1>15 DEF EnableRegister, NothingHeld, Goto
    <3>4. QED
      BY <1>2, <3>1, <3>2, <3>3, <1>15, RegisterOwn DEF EnableRegister, proc, life
  <2>3. QED
    BY <2>1, <2>2
<1>16. ASSUME NEW a \in Admins, DisableRemove(a) PROVE OwnIds'
  <2>1. \A k \in Jobs, i \in Nat : Names(k, i)' => Names(k, i)
    BY <1>1, <1>16 DEF DisableRemove, Names
  <2>2. NothingHeld => NothingHeld'
    BY <1>1, <1>16 DEF DisableRemove, NothingHeld, Goto
  <2>3. QED
    BY <1>3, <2>1, <2>2, <1>16, QuietOwn DEF DisableRemove, sched, proc, life
<1>17. ASSUME NEW a \in Admins, StatusRow(a) PROVE OwnIds'
  <2>1. Return(a)
    BY <1>17 DEF StatusRow
  <2>2. \A k \in Jobs, i \in Nat : Names(k, i)' => Names(k, i)
    BY <1>1, <1>2, <1>4, <1>5, <2>1, <1>17 DEF StatusRow, Names, Row
  <2>3. entries' \subseteq entries /\ lastId' = lastId /\ crashes' = crashes /\ phase' = phase
    BY <1>3, <1>17 DEF StatusRow, sched, proc, life
  <2>4. QED
    BY <1>5, <2>1, <2>2, <2>3, QuietOwn
<1>18. ASSUME NEW a \in Admins, DeleteRemove(a) PROVE OwnIds'
  <2>1. \A k \in Jobs, i \in Nat : Names(k, i)' => Names(k, i)
    BY <1>1, <1>18 DEF DeleteRemove, Names
  <2>2. NothingHeld => NothingHeld'
    BY <1>1, <1>18 DEF DeleteRemove, NothingHeld, Goto
  <2>3. QED
    BY <1>3, <2>1, <2>2, <1>18, QuietOwn DEF DeleteRemove, sched, proc, life
<1>19. ASSUME NEW a \in Admins, DeleteClean(a) PROVE OwnIds'
  <2>1. \A k \in Jobs, i \in Nat : Names(k, i)' => Names(k, i)
    BY <1>1, <1>4, <1>5, <1>19 DEF DeleteClean, Names
  <2>2. NothingHeld => NothingHeld'
    BY <1>1, <1>5, <1>19 DEF DeleteClean, NothingHeld, Goto
  <2>3. QED
    BY <2>1, <2>2, <1>19, QuietOwn DEF DeleteClean, sched, proc, life
<1>20. ASSUME NEW a \in Admins, DeleteRow(a) PROVE OwnIds'
  <2>1. Return(a)
    BY <1>20 DEF DeleteRow
  <2>2. \A k \in Jobs, i \in Nat : Names(k, i)' => Names(k, i)
    BY <1>1, <1>2, <1>4, <1>5, <2>1, <1>20 DEF DeleteRow, Names, Row
  <2>3. entries' \subseteq entries /\ lastId' = lastId /\ crashes' = crashes /\ phase' = phase
    BY <1>3, <1>20 DEF DeleteRow, sched, proc, life
  <2>4. QED
    BY <1>5, <2>1, <2>2, <2>3, QuietOwn
<1>21. CASE Crash
  BY <1>1, <1>21 DEF OwnIds, Crash
<1>22. CASE Boot
  BY <1>22 DEF OwnIds, Boot
<1>23. CASE Serve
  BY <1>23 DEF OwnIds, Serve
<1>24. ASSUME NEW j \in Jobs, RestoreCronjob(j) PROVE OwnIds'
  BY <1>24 DEF OwnIds, RestoreCronjob
<1>25. CASE UNCHANGED vars
  BY <1>25 DEF vars, OwnIds, Names, Owns, NothingHeld
<1>26. ASSUME NEW a \in Admins, Ask(a) PROVE OwnIds'
  BY <1>26, <1>6, <1>7, <1>8, <1>9, <1>25 DEF Ask, NotFound
<1>27. ASSUME NEW a \in Admins, Step(a) PROVE OwnIds'
  BY <1>27, <1>10, <1>11, <1>12, <1>13, <1>14, <1>15, <1>16, <1>17, <1>18, <1>19, <1>20
     DEF Step
<1>28. QED
  BY <1>26, <1>27, <1>21, <1>22, <1>23, <1>24, <1>25 DEF Next

\* Until the first crash, the entries that Remove takes away are of the cronjob whose
\* ids it was given.
LEMMA RemoveOwn ==
  ASSUME TypeOK, OwnIds, crashes = 0, NEW a \in Admins, NEW S,
         S \subseteq loc[a].ids \cup loc[a].new, entries' = Without(S)
  PROVE  \A e \in entries \ entries' : loc[a].job = e.job
<1>1. SUFFICES ASSUME NEW e \in entries, e.id \in S PROVE loc[a].job = e.job
  BY DEF Without
<1>2. e.id \in Nat /\ loc[a].job \in Jobs
  BY DEF TypeOK, Locals
<1>3. Names(loc[a].job, e.id)
  BY <1>1 DEF Names
<1>4. Owns(loc[a].job, e.id)
  BY <1>2, <1>3 DEF OwnIds
<1>5. QED
  BY <1>1, <1>4 DEF Owns

\* Register takes nothing away.
LEMMA RegisterKeeps == ASSUME NEW j, NEW n, Register(j, n) PROVE entries \ entries' = {}
BY DEF Register

\* A step loses entries only by a request about their own cronjob.
LEMMA RemovesOwnStep ==
  ASSUME TypeOK, OwnIds, [Next]_vars, crashes' = 0
  PROVE  \A e \in entries \ entries' :
           \E a \in Admins : pc'[a] # pc[a] /\ loc[a].job = e.job
<1>. DEFINE Own == \A e \in entries \ entries' :
                     \E a \in Admins : pc'[a] # pc[a] /\ loc[a].job = e.job
<1>1. crashes \in Nat /\ pc \in [Admins -> Label] /\ loc \in [Admins -> Locals]
  BY DEF TypeOK
<1>2. ASSUME entries' = entries PROVE Own
  BY <1>2
<1>3. ASSUME NEW a \in Admins, Ask(a) PROVE Own
  BY <1>2, <1>3 DEF Ask, Create, Update, UpdateStatus, Delete, NotFound, vars, sched
<1>4. ASSUME NEW a \in Admins, CreateRegister(a) PROVE Own
  BY <1>2, <1>4, RegisterKeeps DEF CreateRegister, sched
<1>5. ASSUME NEW a \in Admins, UpdateRegister(a) PROVE Own
  BY <1>2, <1>5, RegisterKeeps DEF UpdateRegister, sched
<1>6. ASSUME NEW a \in Admins, EnableRegister(a) PROVE Own
  BY <1>2, <1>6, RegisterKeeps DEF EnableRegister, sched
<1>7. ASSUME NEW a \in Admins, NEW S, S \subseteq loc[a].ids \cup loc[a].new,
             entries' = Without(S), pc'[a] # pc[a], crashes' = crashes
      PROVE  Own
  BY <1>7, RemoveOwn
<1>8. ASSUME NEW a \in Admins, CreateRow(a) PROVE Own
  <2>1. pc'[a] # pc[a] /\ crashes' = crashes
    BY <1>1, <1>8 DEF CreateRow, Return, Goto, proc, life
  <2>2. entries' = entries \/ entries' = Without(loc[a].new)
    BY <1>8 DEF CreateRow
  <2>3. QED
    BY <1>2, <1>7, <2>1, <2>2
<1>9. ASSUME NEW a \in Admins, UpdateRemove(a) PROVE Own
  <2>1. pc'[a] # pc[a] /\ crashes' = crashes /\ entries' = Without(loc[a].ids)
    BY <1>1, <1>9 DEF UpdateRemove, Goto, proc, life
  <2>2. QED
    BY <1>7, <2>1
<1>10. ASSUME NEW a \in Admins, DisableRemove(a) PROVE Own
  <2>1. pc'[a] # pc[a] /\ crashes' = crashes /\ entries' = Without(loc[a].ids)
    BY <1>1, <1>10 DEF DisableRemove, Goto, proc, life
  <2>2. QED
    BY <1>7, <2>1
<1>11. ASSUME NEW a \in Admins, StatusRow(a) PROVE Own
  <2>1. pc'[a] # pc[a] /\ crashes' = crashes
    BY <1>1, <1>11 DEF StatusRow, Return, Goto, proc, life
  <2>2. entries' = entries \/ entries' = Without(loc[a].new)
    BY <1>11 DEF StatusRow
  <2>3. QED
    BY <1>2, <1>7, <2>1, <2>2
<1>12. ASSUME NEW a \in Admins, DeleteRemove(a) PROVE Own
  <2>1. pc'[a] # pc[a] /\ crashes' = crashes /\ entries' = Without(loc[a].ids)
    BY <1>1, <1>12 DEF DeleteRemove, Goto, proc, life
  <2>2. QED
    BY <1>7, <2>1
<1>13. ASSUME NEW a \in Admins, UpdateRow(a) \/ DeleteClean(a) \/ DeleteRow(a) PROVE Own
  BY <1>2, <1>13 DEF UpdateRow, DeleteClean, DeleteRow, sched
<1>14. CASE Crash
  BY <1>1, <1>14 DEF Crash
<1>15. CASE Boot \/ Serve
  BY <1>2, <1>15 DEF Boot, Serve, sched
<1>16. ASSUME NEW j \in Jobs, RestoreCronjob(j) PROVE Own
  BY <1>2, <1>16, RegisterKeeps DEF RestoreCronjob, sched
<1>17. CASE UNCHANGED vars
  BY <1>2, <1>17 DEF vars
<1>18. ASSUME NEW a \in Admins, Step(a) PROVE Own
  BY <1>18, <1>4, <1>5, <1>6, <1>8, <1>9, <1>10, <1>11, <1>12, <1>13 DEF Step
<1>19. QED
  BY <1>3, <1>18, <1>14, <1>15, <1>16, <1>17 DEF Next

\* The ids stay apart: the invariant that the next theorem rests on.
THEOREM OwnIdsInvariant == Spec => []OwnIds
<1>1. OwnIds /\ TypeOK /\ [Next]_vars => OwnIds'
  BY OwnStep
<1>2. QED
  BY <1>1, OwnInit, ScheduleTypeCorrect, PTL DEF Spec

\* Until the first crash no request takes away an entry of another cronjob than its
\* own, however many requests run and whichever statements fail.
THEOREM OnlyOwnEntriesRemoved == Spec => RemovesOwn
<1>1. TypeOK /\ OwnIds /\ [Next]_vars =>
        [crashes' = 0 =>
           \A e \in entries \ entries' :
             \E a \in Admins : pc'[a] # pc[a] /\ loc[a].job = e.job]_vars
  BY RemovesOwnStep
<1>2. QED
  BY <1>1, ScheduleTypeCorrect, OwnIdsInvariant, PTL DEF Spec, RemovesOwn

----------------------------------------------------------------------------
(* An enabled cronjob has an entry. *)

\* A request that has registered entries which no row names yet.
Registered(a) ==
  \/ pc[a] \in {"createRow", "updateRemove"}
  \/ pc[a] = "statusRow" /\ loc[a].status = "enabled"

\* Those entries exist, and nobody else knows their ids.
Private(a) ==
  /\ loc[a].new # {}
  /\ \A j \in Jobs : loc[a].job = j => loc[a].new \subseteq EntriesOf(j)
  /\ \A j \in Jobs : loc[a].new \cap row[j].ids = {}
  /\ \A b \in Admins \ {a} : loc[a].new \cap (loc[b].ids \cup loc[b].new) = {}
  /\ pc[a] = "updateRemove" => loc[a].new \cap loc[a].ids = {}

PrivateNew == \A a \in Admins : Registered(a) => Private(a)

\* A request that is going to disable or delete the cronjob.
Ends(a) ==
  \/ pc[a] \in {"disableRemove", "deleteRemove", "deleteClean", "deleteRow"}
  \/ pc[a] = "statusRow" /\ loc[a].status = "disabled"
Ending(j) == \E a \in Admins : Ends(a) /\ loc[a].job = j

\* An entry that does not hang on a Create, which may have to take it back.
Safe(j) == \E i \in EntriesOf(j) : \A a \in Admins : pc[a] = "createRow" => i \notin loc[a].new

Enabled(j) == Live(j) /\ row[j].status = "enabled"
Covered == \A j \in Jobs : Enabled(j) => Ending(j) \/ Safe(j)

Disables == \A a \in Admins : pc[a] = "disableRemove" => loc[a].status = "disabled"

\* The inductive invariant.
CoverInv == crashes = 0 /\ faults = 0 => PrivateNew /\ Covered /\ Disables

----------------------------------------------------------------------------
\* What the step of one request leaves to the others.
OthersStay(a) == \A b \in Admins \ {a} : pc'[b] = pc[b] /\ loc'[b] = loc[b]

\* An id is an id of cronjob j iff an entry of j has it.
LEMMA EntryIn == \A j, i : i \in EntriesOf(j) <=> \E e \in entries : e.job = j /\ e.id = i
BY DEF EntriesOf

\* Removing loses the ids it is told, and no other.
LEMMA WithoutLoses ==
  ASSUME NEW S, entries' = Without(S)
  PROVE  \A j : EntriesOf(j)' = EntriesOf(j) \ S
<1>1. \A j, i : i \in EntriesOf(j)' <=> \E e \in entries' : e.job = j /\ e.id = i
  BY DEF EntriesOf
<1>2. QED
  BY <1>1, EntryIn DEF Without

\* Registering adds the new ids to those of the cronjob.
LEMMA RegisterAdds ==
  ASSUME NEW k, NEW n, Register(k, n)
  PROVE  \A j : EntriesOf(j)' = EntriesOf(j) \cup (IF j = k THEN FreshIds(n) ELSE {})
<1>1. \A j, i : i \in EntriesOf(j)' <=> \E e \in entries' : e.job = j /\ e.id = i
  BY DEF EntriesOf
<1>2. \A e : e \in entries' <=> e \in entries \/ \E i \in FreshIds(n) : e = [id |-> i, job |-> k]
  BY DEF Register
<1>3. ASSUME NEW j, NEW i
      PROVE  i \in EntriesOf(j)' <=> i \in EntriesOf(j) \/ (j = k /\ i \in FreshIds(n))
  <2>1. CASE i \in EntriesOf(j)'
    <3>1. PICK e \in entries' : e.job = j /\ e.id = i
      BY <2>1, <1>1
    <3>2. QED
      BY <3>1, <1>2, <2>1, EntryIn
  <2>2. CASE i \in EntriesOf(j)
    <3>1. PICK e \in entries : e.job = j /\ e.id = i
      BY <2>2, EntryIn
    <3>2. QED
      BY <3>1, <1>1, <1>2, <2>2
  <2>3. CASE j = k /\ i \in FreshIds(n)
    <3>1. [id |-> i, job |-> k] \in entries'
      BY <2>3, <1>2
    <3>2. QED
      BY <3>1, <2>3, <1>1
  <2>4. QED
    BY <2>1, <2>2, <2>3
<1>4. QED
  BY <1>3

----------------------------------------------------------------------------
\* The ids of a request that registers nothing come from those it had and from the
\* rows; what it writes and removes is its own.  What others registered stays theirs.
LEMMA PrivateStays ==
  ASSUME TypeOK, PrivateNew, NEW a \in Admins, OthersStay(a), ~Registered(a)',
         \A j \in Jobs : row'[j].ids \subseteq row[j].ids \cup loc[a].ids \cup loc[a].new,
         \A i \in loc'[a].ids \cup loc'[a].new :
           i \in loc[a].ids \cup loc[a].new \/ \E j \in Jobs : i \in row[j].ids,
         \A j \in Jobs : EntriesOf(j) \subseteq EntriesOf(j)' \cup loc[a].ids \cup loc[a].new
  PROVE  PrivateNew'
<1>1. ASSUME NEW c \in Admins, Registered(c)' PROVE Private(c)'
  <2>1. c # a /\ pc'[c] = pc[c] /\ loc'[c] = loc[c] /\ loc[c].job \in Jobs
    BY <1>1 DEF OthersStay, TypeOK, Locals
  <2>2. Private(c)
    BY <1>1, <2>1 DEF Registered, PrivateNew
  <2>3. loc[c].new # {} /\ \A j \in Jobs : loc[c].job = j => loc[c].new \subseteq EntriesOf(j)
    BY <2>2 DEF Private
  <2>4. loc[c].new \cap (loc[a].ids \cup loc[a].new) = {}
    BY <2>1, <2>2 DEF Private
  <2>5. \A j \in Jobs : loc[c].job = j => loc[c].new \subseteq EntriesOf(j)'
    BY <2>3, <2>4
  <2>6. \A j \in Jobs : loc[c].new \cap row'[j].ids = {}
    BY <2>2, <2>4 DEF Private
  <2>7. ASSUME NEW b \in Admins \ {c} PROVE loc[c].new \cap (loc'[b].ids \cup loc'[b].new) = {}
    <3>1. CASE b = a
      BY <3>1, <2>2, <2>4 DEF Private
    <3>2. CASE b # a
      BY <3>2, <2>2 DEF Private, OthersStay
    <3>3. QED
      BY <3>1, <3>2
  <2>8. pc[c] = "updateRemove" => loc[c].new \cap loc[c].ids = {}
    BY <2>2 DEF Private
  <2>9. QED
    BY <2>1, <2>3, <2>5, <2>6, <2>7, <2>8 DEF Private
<1>2. QED
  BY <1>1 DEF PrivateNew

\* The ids Register gives are nobody else's: all that are known are at most lastId.
LEMMA FreshIsNew ==
  ASSUME TypeOK, OwnIds, crashes = 0, NEW n \in Nat
  PROVE  /\ \A j \in Jobs : FreshIds(n) \cap row[j].ids = {}
         /\ \A b \in Admins : FreshIds(n) \cap (loc[b].ids \cup loc[b].new) = {}
         /\ \A j \in Jobs : FreshIds(n) \cap EntriesOf(j) = {}
<1>1. lastId \in Nat
  BY DEF TypeOK
<1>2. \A i \in FreshIds(n) : i \in Nat /\ ~(i <= lastId)
  BY <1>1 DEF FreshIds
<1>3. \A j \in Jobs, i \in Nat : Names(j, i) => i <= lastId
  BY DEF OwnIds, Owns
<1>4. \A j \in Jobs : FreshIds(n) \cap row[j].ids = {}
  BY <1>2, <1>3 DEF Names
<1>5. \A b \in Admins : loc[b].job \in Jobs
  BY DEF TypeOK, Locals
<1>6. \A b \in Admins : FreshIds(n) \cap (loc[b].ids \cup loc[b].new) = {}
  BY <1>2, <1>3, <1>5 DEF Names
<1>7. \A e \in entries : e.id <= lastId
  BY DEF OwnIds
<1>8. \A j \in Jobs : FreshIds(n) \cap EntriesOf(j) = {}
  BY <1>2, <1>7, EntryIn
<1>9. QED
  BY <1>4, <1>6, <1>8

\* A request that registers gets ids of its own, and what others have registered stays.
LEMMA PrivateRegister ==
  ASSUME TypeOK, OwnIds, crashes = 0, PrivateNew, NEW a \in Admins, OthersStay(a), row' = row,
         NEW n \in Nat \ {0}, Register(loc[a].job, n),
         loc'[a].job = loc[a].job, loc'[a].new = FreshIds(n),
         \/ loc'[a].ids = loc[a].ids
         \/ loc'[a].ids = FreshIds(n) /\ pc'[a] # "updateRemove"
  PROVE  PrivateNew'
<1>. DEFINE F == FreshIds(n)
<1>1. /\ \A j \in Jobs : F \cap row[j].ids = {}
      /\ \A b \in Admins : F \cap (loc[b].ids \cup loc[b].new) = {}
  BY FreshIsNew
<1>2. F # {}
  <2>1. lastId + 1 \in F
    BY DEF FreshIds, TypeOK
  <2>2. QED
    BY <2>1
<1>3. \A j : EntriesOf(j) \subseteq EntriesOf(j)'
  BY RegisterAdds
<1>4. \A j \in Jobs : loc[a].job = j => F \subseteq EntriesOf(j)'
  BY RegisterAdds
<1>. HIDE DEF F
<1>5. loc'[a].new = F /\ (loc'[a].ids = loc[a].ids \/ (loc'[a].ids = F /\ pc'[a] # "updateRemove"))
  BY DEF F
<1>6. Private(a)'
  <2>1. \A j \in Jobs : loc'[a].job = j => loc'[a].new \subseteq EntriesOf(j)'
    BY <1>4, <1>5
  <2>2. \A b \in Admins \ {a} : loc'[a].new \cap (loc'[b].ids \cup loc'[b].new) = {}
    BY <1>1, <1>5 DEF OthersStay
  <2>3. pc'[a] = "updateRemove" => loc'[a].new \cap loc'[a].ids = {}
    BY <1>1, <1>5
  <2>4. QED
    BY <1>1, <1>2, <1>5, <2>1, <2>2, <2>3 DEF Private
<1>7. ASSUME NEW c \in Admins \ {a}, Registered(c)' PROVE Private(c)'
  <2>1. pc'[c] = pc[c] /\ loc'[c] = loc[c]
    BY DEF OthersStay
  <2>2. Private(c)
    BY <1>7, <2>1 DEF Registered, PrivateNew
  <2>3. \A j \in Jobs : loc'[c].job = j => loc'[c].new \subseteq EntriesOf(j)'
    BY <2>1, <2>2, <1>3 DEF Private
  <2>4. loc[c].new \cap F = {}
    BY <1>1
  <2>5. ASSUME NEW b \in Admins \ {c} PROVE loc[c].new \cap (loc'[b].ids \cup loc'[b].new) = {}
    <3>1. loc[c].new \cap (loc[b].ids \cup loc[b].new) = {}
      BY <2>2 DEF Private
    <3>2. CASE b = a
      BY <3>1, <3>2, <1>5, <2>4
    <3>3. CASE b # a
      BY <3>1, <3>3 DEF OthersStay
    <3>4. QED
      BY <3>2, <3>3
  <2>6. QED
    BY <2>1, <2>2, <2>3, <2>5 DEF Private
<1>8. QED
  BY <1>6, <1>7 DEF PrivateNew

----------------------------------------------------------------------------
\* A cronjob stays covered when it is enabled no further, those that end it go on,
\* and its entries stay but for what a Create takes back.
LEMMA StaysCovered ==
  ASSUME NEW j \in Jobs, Enabled(j) => Ending(j) \/ Safe(j), NEW a \in Admins, OthersStay(a),
         Enabled(j)' => Enabled(j),
         Ends(a) /\ loc[a].job = j /\ Enabled(j)' => Ends(a)' /\ loc'[a].job = j,
         \A i \in EntriesOf(j) : i \in EntriesOf(j)' \/ (pc[a] = "createRow" /\ i \in loc[a].new),
         pc'[a] = "createRow" => loc'[a].new \cap EntriesOf(j) = {}
  PROVE  Enabled(j)' => Ending(j)' \/ Safe(j)'
<1>. SUFFICES ASSUME Enabled(j)' PROVE Ending(j)' \/ Safe(j)'
  OBVIOUS
<1>1. CASE Ending(j)
  <2>1. PICK b \in Admins : Ends(b) /\ loc[b].job = j
    BY <1>1 DEF Ending
  <2>2. CASE b = a
    BY <2>1, <2>2 DEF Ending
  <2>3. CASE b # a
    BY <2>1, <2>3 DEF Ending, Ends, OthersStay
  <2>4. QED
    BY <2>2, <2>3
<1>2. CASE Safe(j)
  <2>1. PICK i \in EntriesOf(j) : \A b \in Admins : pc[b] = "createRow" => i \notin loc[b].new
    BY <1>2 DEF Safe
  <2>2. i \in EntriesOf(j)'
    BY <2>1
  <2>3. \A b \in Admins : pc'[b] = "createRow" => i \notin loc'[b].new
    BY <2>1 DEF OthersStay
  <2>4. QED
    BY <2>2, <2>3 DEF Safe
<1>3. QED
  BY <1>1, <1>2

\* The entries a request has registered cover its cronjob once it is past its row.
LEMMA OwnCover ==
  ASSUME PrivateNew, NEW a \in Admins, Registered(a), OthersStay(a), pc'[a] # "createRow",
         NEW j \in Jobs, loc[a].job = j, loc[a].new \cap EntriesOf(j) \subseteq EntriesOf(j)'
  PROVE  Safe(j)'
<1>1. Private(a)
  BY DEF PrivateNew
<1>2. PICK i : i \in loc[a].new
  BY <1>1 DEF Private
<1>3. \A b \in Admins \ {a} : i \notin loc[b].new
  BY <1>1, <1>2 DEF Private
<1>4. \A b \in Admins : pc'[b] = "createRow" => i \notin loc'[b].new
  BY <1>3 DEF OthersStay
<1>5. i \in EntriesOf(j)'
  BY <1>1, <1>2 DEF Private
<1>6. QED
  BY <1>4, <1>5 DEF Safe

\* What a request removes of another cronjob than its own is nothing.
LEMMA OthersEntries ==
  ASSUME TypeOK, OwnIds, crashes = 0, NEW a \in Admins, NEW S,
         S \subseteq loc[a].ids \cup loc[a].new, entries' = Without(S)
  PROVE  \A j \in Jobs \ {loc[a].job} : EntriesOf(j)' = EntriesOf(j)
<1>1. ASSUME NEW j \in Jobs \ {loc[a].job}, NEW i \in EntriesOf(j) PROVE i \notin S
  <2>1. PICK e \in entries : e.job = j /\ e.id = i
    BY <1>1, EntryIn
  <2>2. e \in entries'
    BY <2>1, RemoveOwn
  <2>3. QED
    BY <2>1, <2>2 DEF Without
<1>2. QED
  BY <1>1, WithoutLoses

\* A step that touches no entry and enables nothing, by a request that has then
\* nothing registered and goes on with what it was going to end.
LEMMA QuietCover ==
  ASSUME TypeOK, PrivateNew, Covered, NEW a \in Admins, OthersStay(a), entries' = entries,
         pc'[a] \notin {"createRow", "updateRemove", "statusRow"},
         \A j \in Jobs : row'[j].ids \subseteq row[j].ids \cup loc[a].ids \cup loc[a].new,
         \A i \in loc'[a].ids \cup loc'[a].new :
           i \in loc[a].ids \cup loc[a].new \/ \E j \in Jobs : i \in row[j].ids,
         \A j \in Jobs : Enabled(j)' => Enabled(j),
         \A j \in Jobs : Ends(a) /\ loc[a].job = j /\ Enabled(j)' => Ends(a)' /\ loc'[a].job = j
  PROVE  PrivateNew' /\ Covered'
<1>1. \A j : EntriesOf(j)' = EntriesOf(j)
  BY DEF EntriesOf
<1>2. ~Registered(a)'
  BY DEF Registered
<1>3. PrivateNew'
  BY <1>1, <1>2, PrivateStays
<1>4. ASSUME NEW j \in Jobs PROVE Enabled(j)' => Ending(j)' \/ Safe(j)'
  <2>1. Enabled(j) => Ending(j) \/ Safe(j)
    BY DEF Covered
  <2>2. QED
    BY <1>1, <2>1, StaysCovered
<1>5. QED
  BY <1>3, <1>4 DEF Covered

\* Registering entries of its own, a request uncovers nothing.
LEMMA RegisterCover ==
  ASSUME TypeOK, OwnIds, crashes = 0, PrivateNew, Covered, NEW a \in Admins, OthersStay(a),
         row' = row, NEW n \in Nat \ {0}, Register(loc[a].job, n), ~Ends(a),
         loc'[a].job = loc[a].job, loc'[a].new = FreshIds(n),
         \/ loc'[a].ids = loc[a].ids
         \/ loc'[a].ids = FreshIds(n) /\ pc'[a] # "updateRemove"
  PROVE  PrivateNew' /\ Covered'
<1>1. PrivateNew'
  BY PrivateRegister
<1>2. ASSUME NEW j \in Jobs PROVE Enabled(j)' => Ending(j)' \/ Safe(j)'
  <2>1. Enabled(j) => Ending(j) \/ Safe(j)
    BY DEF Covered
  <2>2. \A i \in EntriesOf(j) : i \in EntriesOf(j)'
    BY RegisterAdds
  <2>3. loc'[a].new \cap EntriesOf(j) = {}
    BY FreshIsNew
  <2>4. Enabled(j)' => Enabled(j)
    BY DEF Enabled, Live
  <2>5. QED
    BY <2>1, <2>2, <2>3, <2>4, StaysCovered
<1>3. QED
  BY <1>1, <1>2 DEF Covered

\* Removing the entries its row had, a request either has others registered or is
\* going to end the cronjob.
LEMMA RemoveCover ==
  ASSUME TypeOK, OwnIds, crashes = 0, PrivateNew, Covered, NEW a \in Admins, OthersStay(a),
         row' = row, entries' = Without(loc[a].ids), pc[a] # "createRow", pc'[a] # "createRow",
         ~Registered(a)',
         loc'[a].ids \cup loc'[a].new \subseteq loc[a].ids \cup loc[a].new,
         loc'[a].job = loc[a].job,
         Ends(a)' \/ pc[a] = "updateRemove"
  PROVE  PrivateNew' /\ Covered'
<1>1. \A j \in Jobs : EntriesOf(j)' = EntriesOf(j) \ loc[a].ids
  BY WithoutLoses
<1>2. PrivateNew'
  BY <1>1, PrivateStays
<1>3. ASSUME NEW j \in Jobs PROVE Enabled(j)' => Ending(j)' \/ Safe(j)'
  <2>1. CASE loc[a].job # j
    <3>1. Enabled(j) => Ending(j) \/ Safe(j)
      BY DEF Covered
    <3>2. EntriesOf(j)' = EntriesOf(j)
      BY <2>1, OthersEntries
    <3>3. Enabled(j)' => Enabled(j)
      BY DEF Enabled, Live
    <3>4. QED
      BY <2>1, <3>1, <3>2, <3>3, StaysCovered
  <2>2. CASE loc[a].job = j /\ Ends(a)'
    BY <2>2 DEF Ending
  <2>3. CASE loc[a].job = j /\ pc[a] = "updateRemove"
    <3>1. Registered(a)
      BY <2>3 DEF Registered
    <3>2. loc[a].new \cap loc[a].ids = {}
      BY <2>3, <3>1 DEF PrivateNew, Private
    <3>3. loc[a].new \cap EntriesOf(j) \subseteq EntriesOf(j)'
      BY <1>1, <3>2
    <3>4. Safe(j)'
      BY <2>3, <3>1, <3>3, OwnCover
    <3>5. QED
      BY <3>4
  <2>4. QED
    BY <2>1, <2>2, <2>3
<1>4. QED
  BY <1>2, <1>3 DEF Covered

\* Writing the row that names its entries, a request covers its cronjob with them.
LEMMA RowCover ==
  ASSUME TypeOK, PrivateNew, Covered, NEW a \in Admins, OthersStay(a), Registered(a),
         pc'[a] = "idle", loc'[a].ids = {}, loc'[a].new = {}, entries' = entries,
         \A j \in Jobs : row'[j].ids \subseteq row[j].ids \cup loc[a].ids \cup loc[a].new,
         \A j \in Jobs \ {loc[a].job} : Enabled(j)' => Enabled(j)
  PROVE  PrivateNew' /\ Covered'
<1>1. \A j : EntriesOf(j)' = EntriesOf(j)
  BY DEF EntriesOf
<1>2. PrivateNew'
  BY <1>1, PrivateStays DEF Registered
<1>3. ASSUME NEW j \in Jobs PROVE Enabled(j)' => Ending(j)' \/ Safe(j)'
  <2>1. CASE loc[a].job = j
    BY <1>1, <2>1, OwnCover
  <2>2. CASE loc[a].job # j
    <3>1. Enabled(j) => Ending(j) \/ Safe(j)
      BY DEF Covered
    <3>2. QED
      BY <1>1, <2>2, <3>1, StaysCovered
  <2>3. QED
    BY <2>1, <2>2
<1>4. QED
  BY <1>2, <1>3 DEF Covered

\* A Create whose name was taken takes back what it registered.
LEMMA TakeBackCover ==
  ASSUME TypeOK, PrivateNew, Covered, NEW a \in Admins, OthersStay(a), pc[a] = "createRow",
         pc'[a] = "idle", loc'[a].ids = {}, loc'[a].new = {}, row' = row,
         entries' = Without(loc[a].new)
  PROVE  PrivateNew' /\ Covered'
<1>1. \A j \in Jobs : EntriesOf(j)' = EntriesOf(j) \ loc[a].new
  BY WithoutLoses
<1>2. PrivateNew'
  BY <1>1, PrivateStays DEF Registered
<1>3. ASSUME NEW j \in Jobs PROVE Enabled(j)' => Ending(j)' \/ Safe(j)'
  <2>1. Enabled(j) => Ending(j) \/ Safe(j)
    BY DEF Covered
  <2>2. ~Ends(a) /\ (Enabled(j)' => Enabled(j))
    BY DEF Ends, Enabled, Live
  <2>3. QED
    BY <1>1, <2>1, <2>2, StaysCovered
<1>4. QED
  BY <1>2, <1>3 DEF Covered

----------------------------------------------------------------------------
\* Without a crash and a failure there are requests only.
LEMMA OnlyRequests ==
  ASSUME TypeOK, OwnIds, Next, crashes' = 0, faults' = 0
  PROVE  /\ crashes = 0 /\ faults = 0
         /\ \E a \in Admins : Ask(a) \/ Step(a)
<1>1. crashes \in Nat /\ faults \in Nat
  BY DEF TypeOK
<1>2. ~Crash
  BY <1>1 DEF Crash
<1>3. ASSUME NEW a \in Admins, Ask(a) PROVE crashes' = crashes /\ faults' = faults
  BY <1>3 DEF Ask, Create, Update, UpdateStatus, Delete, NotFound, vars, proc, life
<1>4. ASSUME NEW a \in Admins, Step(a)
      PROVE  crashes' = crashes /\ (StmtOk \/ StmtFails \/ faults' = faults)
  <2>1. CASE CreateRegister(a) \/ UpdateRegister(a) \/ EnableRegister(a)
    BY <2>1 DEF CreateRegister, UpdateRegister, EnableRegister, proc, life
  <2>2. CASE UpdateRemove(a) \/ DisableRemove(a) \/ DeleteRemove(a)
    BY <2>2 DEF UpdateRemove, DisableRemove, DeleteRemove, proc, life
  <2>3. CASE CreateRow(a) \/ UpdateRow(a) \/ StatusRow(a) \/ DeleteClean(a) \/ DeleteRow(a)
    BY <2>3 DEF CreateRow, UpdateRow, StatusRow, DeleteClean, DeleteRow, proc, life
  <2>4. QED
    BY <1>4, <2>1, <2>2, <2>3 DEF Step
<1>5. crashes = 0
  <2>1. Boot \/ Serve \/ (\E j \in Jobs : RestoreCronjob(j)) => crashes' = crashes
    BY DEF Boot, Serve, RestoreCronjob
  <2>2. QED
    BY <1>2, <1>3, <1>4, <2>1 DEF Next
<1>6. phase = "up"
  BY <1>5 DEF OwnIds
<1>7. ~Boot /\ ~Serve /\ \A j \in Jobs : ~RestoreCronjob(j)
  BY <1>6 DEF Boot, Serve, RestoreCronjob
<1>8. PICK a \in Admins : Ask(a) \/ Step(a)
  BY <1>2, <1>7 DEF Next
<1>9. faults = 0
  BY <1>1, <1>3, <1>4, <1>8 DEF StmtOk, StmtFails
<1>10. QED
  BY <1>5, <1>8, <1>9

\* There is no cronjob at first.
LEMMA CoverInit == Init => CoverInv
BY DEF Init, CoverInv, PrivateNew, Registered, Covered, Enabled, Live, Disables

\* Every step keeps enabled cronjobs covered.
LEMMA CoverStep == TypeOK /\ OwnIds /\ CoverInv /\ [Next]_vars => CoverInv'
<1>. SUFFICES ASSUME TypeOK, OwnIds, CoverInv, [Next]_vars, crashes' = 0, faults' = 0
              PROVE  PrivateNew' /\ Covered' /\ Disables'
  BY DEF CoverInv
<1>1. CASE UNCHANGED vars
  BY <1>1 DEF vars, CoverInv, PrivateNew, Registered, Private, Covered, Enabled, Live, Ending, Ends,
     Safe, EntriesOf, Disables
<1>. SUFFICES ASSUME crashes = 0, faults = 0, NEW a \in Admins, Ask(a) \/ Step(a)
              PROVE  PrivateNew' /\ Covered' /\ Disables'
  BY <1>1, OnlyRequests
<1>3. /\ PrivateNew /\ Covered /\ Disables
      /\ row \in [Jobs -> Row] /\ pc \in [Admins -> Label] /\ loc \in [Admins -> Locals]
      /\ loc[a] \in Locals /\ loc[a].job \in Jobs /\ loc[a].parts \in Nat
  BY DEF CoverInv, TypeOK, Locals
<1>4. ~StmtFails
  BY DEF StmtFails
<1>5. NoLocals.ids = {} /\ NoLocals.new = {}
  BY DEF NoLocals
<1>6. OthersStay(a) => (pc'[a] # "disableRemove" \/ loc'[a].status = "disabled" => Disables')
  BY <1>3 DEF OthersStay, Disables
<1>7. ASSUME Return(a)
      PROVE  /\ OthersStay(a) /\ pc'[a] = "idle" /\ loc'[a].ids = {} /\ loc'[a].new = {}
             /\ Disables'
  BY <1>3, <1>5, <1>6, <1>7 DEF Return, Goto, OthersStay
<1>8. ASSUME Return(a), ~Ends(a), row' = row, entries' = entries
      PROVE  PrivateNew' /\ Covered' /\ Disables'
  BY <1>3, <1>7, <1>8, QuietCover DEF Enabled, Live
<1>9. ASSUME NEW j \in Jobs, NEW n \in Specs, Create(a, j, n)
      PROVE  PrivateNew' /\ Covered' /\ Disables'
  <2>1. /\ OthersStay(a) /\ pc[a] = "idle" /\ pc'[a] = "createReg" /\ row' = row /\ entries' = entries
        /\ loc'[a].ids = loc[a].ids /\ loc'[a].new = loc[a].new
    BY <1>3, <1>9 DEF Create, Goto, OthersStay, Request, sched, Locals
  <2>2. QED
    BY <1>3, <1>6, <2>1, QuietCover DEF Enabled, Live, Ends
<1>10. ASSUME NEW j \in Jobs, NEW n \in Specs, Update(a, j, n)
       PROVE  PrivateNew' /\ Covered' /\ Disables'
  <2>1. /\ OthersStay(a) /\ pc[a] = "idle" /\ pc'[a] \in {"updateReg", "updateRow"}
        /\ row' = row /\ entries' = entries
        /\ loc'[a].ids = row[j].ids /\ loc'[a].new = {}
    BY <1>3, <1>10 DEF Update, Goto, OthersStay, Request, sched
  <2>2. QED
    BY <1>3, <1>6, <2>1, QuietCover DEF Enabled, Live, Ends
<1>11. ASSUME NEW j \in Jobs, NEW s, UpdateStatus(a, j, s)
       PROVE  PrivateNew' /\ Covered' /\ Disables'
  <2>1. /\ OthersStay(a) /\ pc[a] = "idle" /\ pc'[a] \in {"enableReg", "disableRemove"}
        /\ row' = row /\ entries' = entries
        /\ loc'[a].ids = row[j].ids /\ loc'[a].new = {}
        /\ pc'[a] = "disableRemove" => loc'[a].status = "disabled"
    BY <1>3, <1>11 DEF UpdateStatus, Goto, OthersStay, Request, sched, StatusEnum
  <2>2. QED
    BY <1>3, <1>6, <2>1, QuietCover DEF Enabled, Live, Ends
<1>12. ASSUME NEW j \in Jobs, Delete(a, j)
       PROVE  PrivateNew' /\ Covered' /\ Disables'
  <2>1. /\ OthersStay(a) /\ pc[a] = "idle" /\ pc'[a] = "deleteRemove" /\ row' = row /\ entries' = entries
        /\ loc'[a].ids = row[j].ids /\ loc'[a].new = loc[a].new
    BY <1>3, <1>12 DEF Delete, Goto, OthersStay, Request, sched, Locals
  <2>2. QED
    BY <1>3, <1>6, <2>1, QuietCover DEF Enabled, Live, Ends
<1>13. CASE Ask(a)
  BY <1>13, <1>1, <1>9, <1>10, <1>11, <1>12 DEF Ask, NotFound
<1>14. CASE CreateRegister(a)
  <2>1. CASE loc[a].parts = 0
    BY <1>8, <1>14, <2>1 DEF CreateRegister, sched, Ends
  <2>2. CASE loc[a].parts # 0
    <3>1. /\ OthersStay(a) /\ pc[a] = "createReg" /\ pc'[a] = "createRow" /\ row' = row
          /\ Register(loc[a].job, loc[a].parts)
          /\ loc'[a].job = loc[a].job /\ loc'[a].ids = loc[a].ids
          /\ loc'[a].new = FreshIds(loc[a].parts)
      BY <1>3, <1>14, <2>2 DEF CreateRegister, Goto, OthersStay, Locals
    <3>2. QED
      BY <1>3, <1>6, <2>2, <3>1, RegisterCover DEF Ends
  <2>3. QED
    BY <2>1, <2>2
<1>15. CASE CreateRow(a)
  <2>1. Return(a) /\ pc[a] = "createRow" /\ Registered(a)
    BY <1>15 DEF CreateRow, Registered
  <2>2. CASE entries' = Without(loc[a].new) /\ row' = row
    BY <1>3, <1>7, <2>1, <2>2, TakeBackCover
  <2>3. CASE entries' = entries /\ row' = [row EXCEPT ![loc[a].job] =
               [state |-> "live", status |-> "enabled", parts |-> loc[a].parts, ids |-> loc[a].new]]
    <3>1. /\ \A j \in Jobs : row'[j].ids \subseteq row[j].ids \cup loc[a].ids \cup loc[a].new
          /\ \A j \in Jobs \ {loc[a].job} : Enabled(j)' => Enabled(j)
      BY <1>3, <2>3 DEF Enabled, Live
    <3>2. QED
      BY <1>3, <1>7, <2>1, <2>3, <3>1, RowCover
  <2>4. QED
    BY <1>4, <1>15, <2>2, <2>3 DEF CreateRow
<1>16. CASE UpdateRegister(a)
  <2>1. CASE loc[a].parts = 0
    BY <1>8, <1>16, <2>1 DEF UpdateRegister, sched, Ends
  <2>2. CASE loc[a].parts # 0
    <3>1. /\ OthersStay(a) /\ pc[a] = "updateReg" /\ pc'[a] = "updateRemove" /\ row' = row
          /\ Register(loc[a].job, loc[a].parts)
          /\ loc'[a].job = loc[a].job /\ loc'[a].ids = loc[a].ids
          /\ loc'[a].new = FreshIds(loc[a].parts)
      BY <1>3, <1>16, <2>2 DEF UpdateRegister, Goto, OthersStay, Locals
    <3>2. QED
      BY <1>3, <1>6, <2>2, <3>1, RegisterCover DEF Ends
  <2>3. QED
    BY <2>1, <2>2
<1>17. CASE UpdateRemove(a)
  <2>1. /\ OthersStay(a) /\ pc[a] = "updateRemove" /\ pc'[a] = "updateRow" /\ row' = row
        /\ entries' = Without(loc[a].ids)
        /\ loc'[a].job = loc[a].job /\ loc'[a].ids = loc[a].new /\ loc'[a].new = loc[a].new
    BY <1>3, <1>17 DEF UpdateRemove, Goto, OthersStay, Locals
  <2>2. QED
    BY <1>3, <1>6, <2>1, RemoveCover DEF Registered
<1>18. CASE UpdateRow(a)
  <2>1. Return(a) /\ pc[a] = "updateRow" /\ entries' = entries
    BY <1>18 DEF UpdateRow, sched
  <2>2. /\ \A j \in Jobs : row'[j].ids \subseteq row[j].ids \cup loc[a].ids \cup loc[a].new
        /\ \A j \in Jobs : Enabled(j)' => Enabled(j)
    BY <1>3, <1>18 DEF UpdateRow, Enabled, Live, Row
  <2>3. QED
    BY <1>3, <1>7, <2>1, <2>2, QuietCover DEF Ends
<1>19. CASE EnableRegister(a)
  <2>1. CASE loc[a].parts = 0
    BY <1>8, <1>19, <2>1 DEF EnableRegister, sched, Ends
  <2>2. CASE loc[a].parts # 0
    <3>1. /\ OthersStay(a) /\ pc[a] = "enableReg" /\ pc'[a] = "statusRow" /\ row' = row
          /\ Register(loc[a].job, loc[a].parts)
          /\ loc'[a].job = loc[a].job /\ loc'[a].ids = FreshIds(loc[a].parts)
          /\ loc'[a].new = FreshIds(loc[a].parts)
      BY <1>3, <1>19, <2>2 DEF EnableRegister, Goto, OthersStay, Locals
    <3>2. QED
      BY <1>3, <1>6, <2>2, <3>1, RegisterCover DEF Ends
  <2>3. QED
    BY <2>1, <2>2
<1>20. CASE DisableRemove(a)
  <2>1. /\ OthersStay(a) /\ pc[a] = "disableRemove" /\ pc'[a] = "statusRow" /\ row' = row
        /\ entries' = Without(loc[a].ids) /\ loc'[a].status = "disabled"
        /\ loc'[a].job = loc[a].job /\ loc'[a].ids = {} /\ loc'[a].new = loc[a].new
    BY <1>3, <1>20 DEF DisableRemove, Goto, OthersStay, Locals, Disables
  <2>2. QED
    BY <1>3, <1>6, <2>1, RemoveCover DEF Registered, Ends
<1>21. CASE StatusRow(a)
  <2>1. Return(a) /\ pc[a] = "statusRow" /\ loc[a].status \in StatusEnum
    BY <1>3, <1>21 DEF StatusRow, Locals
  <2>2. entries' = entries
    BY <1>4, <1>21 DEF StatusRow
  <2>3. \A j \in Jobs : row'[j].ids \subseteq row[j].ids \cup loc[a].ids \cup loc[a].new
    BY <1>3, <1>4, <1>21 DEF StatusRow, Row
  <2>4. CASE loc[a].status = "enabled"
    <3>1. Registered(a)
      BY <2>1, <2>4 DEF Registered
    <3>2. \A j \in Jobs \ {loc[a].job} : Enabled(j)' => Enabled(j)
      BY <1>3, <1>4, <1>21 DEF StatusRow, Enabled, Live, Row
    <3>3. QED
      BY <1>3, <1>7, <2>1, <2>2, <2>3, <3>1, <3>2, RowCover
  <2>5. CASE loc[a].status = "disabled"
    <3>1. /\ \A j \in Jobs : Enabled(j)' => Enabled(j)
          /\ \A j \in Jobs : loc[a].job = j => ~Enabled(j)'
      BY <1>3, <1>4, <2>5, <1>21 DEF StatusRow, Enabled, Live, Row
    <3>2. QED
      BY <1>3, <1>7, <2>1, <2>2, <2>3, <3>1, QuietCover
  <2>6. QED
    BY <2>1, <2>4, <2>5 DEF StatusEnum
<1>22. CASE DeleteRemove(a)
  <2>1. /\ OthersStay(a) /\ pc[a] = "deleteRemove" /\ pc'[a] = "deleteClean" /\ row' = row
        /\ entries' = Without(loc[a].ids) /\ loc' = loc
    BY <1>3, <1>22 DEF DeleteRemove, Goto, OthersStay
  <2>2. QED
    BY <1>3, <1>6, <2>1, RemoveCover DEF Registered, Ends
<1>23. CASE DeleteClean(a)
  <2>1. /\ OthersStay(a) /\ pc[a] = "deleteClean" /\ pc'[a] = "deleteRow"
        /\ row' = row /\ entries' = entries /\ loc' = loc
    BY <1>3, <1>4, <1>23 DEF DeleteClean, Goto, OthersStay, sched
  <2>2. QED
    BY <1>3, <1>6, <2>1, QuietCover DEF Enabled, Live, Ends
<1>24. CASE DeleteRow(a)
  <2>1. Return(a) /\ pc[a] = "deleteRow" /\ entries' = entries
    BY <1>24 DEF DeleteRow, sched
  <2>2. /\ \A j \in Jobs : row'[j].ids \subseteq row[j].ids \cup loc[a].ids \cup loc[a].new
        /\ \A j \in Jobs : Enabled(j)' => Enabled(j)
        /\ \A j \in Jobs : loc[a].job = j => ~Enabled(j)'
    BY <1>3, <1>4, <1>24 DEF DeleteRow, Enabled, Live, Row
  <2>3. QED
    BY <1>3, <1>7, <2>1, <2>2, QuietCover
<1>25. QED
  BY <1>13, <1>14, <1>15, <1>16, <1>17, <1>18, <1>19, <1>20, <1>21, <1>22, <1>23, <1>24
     DEF Step

\* Without a crash and a failing statement an enabled cronjob is scheduled as soon as
\* no request is under way, for any number of requests and cronjobs and any specs.
THEOREM EnabledIsKept == Spec => [](crashes = 0 => EnabledIsScheduled)
<1>1. CoverInv /\ TypeOK /\ OwnIds /\ [Next]_vars => CoverInv'
  BY CoverStep
<1>2. CoverInv => (crashes = 0 => EnabledIsScheduled)
  <2>1. SUFFICES ASSUME CoverInv, crashes = 0, AtRest, faults = 0, NEW j \in Jobs, Enabled(j)
                 PROVE  EntriesOf(j) # {}
    BY DEF EnabledIsScheduled, Enabled
  <2>2. ~Ending(j)
    BY <2>1 DEF AtRest, Ending, Ends
  <2>3. Safe(j)
    BY <2>1, <2>2 DEF CoverInv, Covered
  <2>4. QED
    BY <2>3 DEF Safe
<1>3. QED
  BY <1>1, <1>2, CoverInit, ScheduleTypeCorrect, OwnIdsInvariant, PTL DEF Spec

----------------------------------------------------------------------------
(* One request at a time. *)

\* An entry id is given once in a process.
IdsUnique ==
  /\ \A e, f \in entries : e.id = f.id => e.job = f.job
  /\ \A e \in entries : e.id <= lastId

\* With requests one at a time an enabled cronjob has a spec that Register accepts, a
\* disabled one names no entries.
Sane(r) ==
  r.state = "live" => IF r.status = "enabled" THEN r.parts > 0 ELSE r.ids = {}

\* What a request has read is still so.
Current(l, x, r) ==
  /\ l \in {"createReg", "createRow"} => r.state = "absent"
  /\ l \notin {"idle", "createReg", "createRow"} => r.state = "live"
  /\ l \in {"updateReg", "updateRemove", "disableRemove", "deleteRemove"} => x.ids = r.ids
  /\ l \in {"updateReg", "updateRemove"} => r.status = "enabled"
  /\ l \in {"createRow", "updateRemove"} => x.parts > 0
  /\ l = "enableReg" => x.parts = r.parts /\ x.status = "enabled"
  /\ l = "disableRemove" => x.status = "disabled"
  /\ l = "updateRow" => IF r.status = "enabled" THEN x.parts > 0 ELSE x.ids = {}
  /\ l = "statusRow" => IF x.status = "enabled" THEN r.parts > 0 ELSE x.ids = {}

SoloInv ==
  /\ \A j \in Jobs : Sane(row[j])
  /\ \A a \in Admins : Current(pc[a], loc[a], row[loc[a].job])
  /\ phase # "up" => \A a \in Admins : pc[a] = "idle"

\* A restart goes from no entries to those of the enabled cronjobs.
Rebuilt(j) ==
  IF j \in todo \/ ~Enabled(j) THEN EntriesOf(j) = {}
  ELSE row[j].ids # {} /\ EntriesOf(j) = row[j].ids

RebuildInv ==
  /\ phase = "down" => entries = {}
  /\ phase = "boot" => todo \subseteq ToRestore
  /\ phase = "boot" /\ faults = 0 => \A j \in Jobs : Rebuilt(j)

\* The entries ids are entries of cronjob j.
Exist(S, j) == S # {} /\ S \subseteq EntriesOf(j)

\* While no statement has failed, the ids in the row of an enabled cronjob are no other
\* cronjob's, and they are entries it has, unless a write of the row was refused, or a
\* request that has removed them is going to write it, or to end the cronjob; and that
\* request has others for it.
Writes(l) == l \in {"updateRow", "statusRow", "deleteClean", "deleteRow"}
Brings(l, x, r) ==
  \/ l = "updateRow" /\ r.status = "enabled"
  \/ l = "statusRow" /\ x.status = "enabled"
Known(j) ==
  /\ \A i \in row[j].ids : Owns(j, i)
  /\ \/ Exist(row[j].ids, j)
     \/ j \in refused
     \/ \E a \in Admins : loc[a].job = j /\ Writes(pc[a])
Held(a) ==
  /\ pc[a] \in {"createRow", "updateRemove"} => Exist(loc[a].new, loc[a].job)
  /\ pc[a] = "updateRemove" => loc[a].new \cap loc[a].ids = {}
  /\ Brings(pc[a], loc[a], row[loc[a].job]) => Exist(loc[a].ids, loc[a].job)

RecordInv ==
  phase = "up" /\ faults = 0 =>
    /\ \A j \in Jobs : Enabled(j) => Known(j)
    /\ \A a \in Admins : Held(a)

----------------------------------------------------------------------------
\* An id that is registered is above those there are, and so the ids stay unique.
LEMMA UniqueRegister ==
  ASSUME TypeOK, IdsUnique, NEW k \in Jobs, NEW n \in Nat, Register(k, n)
  PROVE  IdsUnique'
<1>1. lastId \in Nat /\ lastId' = lastId + n /\ \A e \in entries : e.id \in Nat
  BY DEF TypeOK, Register
<1>2. \A i \in FreshIds(n) : i \in Nat /\ i > lastId /\ i <= lastId'
  BY <1>1 DEF FreshIds
<1>3. \A e \in entries' : e \in entries \/ (e.id \in FreshIds(n) /\ e.job = k)
  BY DEF Register
<1>4. \A e \in entries : e.id <= lastId /\ e.id <= lastId'
  BY <1>1 DEF IdsUnique
<1>5. \A e \in entries' : e.id <= lastId'
  BY <1>2, <1>3, <1>4
<1>6. ASSUME NEW e \in entries', NEW f \in entries', e.id = f.id PROVE e.job = f.job
  <2>1. CASE e \in entries /\ f \in entries
    BY <1>6, <2>1 DEF IdsUnique
  <2>2. CASE e \notin entries
    <3>1. e.id \in FreshIds(n) /\ e.job = k
      BY <1>3, <2>2
    <3>2. f \notin entries
      BY <1>1, <1>2, <1>4, <1>6, <3>1
    <3>3. QED
      BY <1>3, <3>1, <3>2
  <2>3. CASE f \notin entries
    <3>1. f.id \in FreshIds(n) /\ f.job = k
      BY <1>3, <2>3
    <3>2. e \notin entries
      BY <1>1, <1>2, <1>4, <1>6, <3>1
    <3>3. QED
      BY <1>3, <3>1, <3>2
  <2>4. QED
    BY <2>1, <2>2, <2>3
<1>7. QED
  BY <1>5, <1>6 DEF IdsUnique

\* What a step does to the entries of the scheduler: nothing, or it removes some, or it
\* registers some, or the process dies.
LEMMA EntriesStep ==
  ASSUME TypeOK, [Next]_vars
  PROVE  \/ entries' \subseteq entries /\ lastId' = lastId
         \/ \E k \in Jobs, n \in Nat : Register(k, n)
         \/ Crash
<1>. DEFINE Kind == \/ entries' \subseteq entries /\ lastId' = lastId
                    \/ \E k \in Jobs, n \in Nat : Register(k, n)
                    \/ Crash
<1>1. \A a \in Admins : loc[a].job \in Jobs /\ loc[a].parts \in Nat
  BY DEF TypeOK, Locals
<1>2. \A j \in Jobs : row[j].parts \in Nat
  BY DEF TypeOK, Row
<1>3. \A S : Without(S) \subseteq entries
  BY DEF Without
<1>4. ASSUME NEW a \in Admins, Ask(a) PROVE Kind
  BY <1>4 DEF Ask, Create, Update, UpdateStatus, Delete, NotFound, vars, sched
<1>5. ASSUME NEW a \in Admins, CreateRegister(a) \/ UpdateRegister(a) \/ EnableRegister(a) PROVE Kind
  <2>1. (entries' = entries /\ lastId' = lastId) \/ Register(loc[a].job, loc[a].parts)
    BY <1>5 DEF CreateRegister, UpdateRegister, EnableRegister, sched
  <2>2. QED
    BY <1>1, <2>1
<1>6. ASSUME NEW a \in Admins, UpdateRemove(a) \/ DisableRemove(a) \/ DeleteRemove(a) PROVE Kind
  BY <1>3, <1>6 DEF UpdateRemove, DisableRemove, DeleteRemove
<1>7. ASSUME NEW a \in Admins, CreateRow(a) \/ StatusRow(a) PROVE Kind
  BY <1>3, <1>7 DEF CreateRow, StatusRow
<1>8. ASSUME NEW a \in Admins, UpdateRow(a) \/ DeleteClean(a) \/ DeleteRow(a) PROVE Kind
  BY <1>8 DEF UpdateRow, DeleteClean, DeleteRow, sched
<1>9. CASE Boot \/ Serve
  BY <1>9 DEF Boot, Serve, sched
<1>10. ASSUME NEW j \in Jobs, RestoreCronjob(j) PROVE Kind
  <2>1. (entries' = entries /\ lastId' = lastId) \/ Register(j, row[j].parts)
    BY <1>10 DEF RestoreCronjob, sched
  <2>2. QED
    BY <1>2, <2>1
<1>11. CASE UNCHANGED vars
  BY <1>11 DEF vars, sched
<1>12. ASSUME NEW a \in Admins, Step(a) PROVE Kind
  BY <1>12, <1>5, <1>6, <1>7, <1>8 DEF Step
<1>13. QED
  BY <1>4, <1>12, <1>9, <1>10, <1>11 DEF Next

\* Every step keeps the ids unique.
LEMMA UniqueStep == TypeOK /\ IdsUnique /\ [Next]_vars => IdsUnique'
<1>. SUFFICES ASSUME TypeOK, IdsUnique, [Next]_vars PROVE IdsUnique'
  OBVIOUS
<1>1. CASE entries' \subseteq entries /\ lastId' = lastId
  BY <1>1 DEF IdsUnique
<1>2. ASSUME NEW k \in Jobs, NEW n \in Nat, Register(k, n) PROVE IdsUnique'
  BY <1>2, UniqueRegister
<1>3. CASE Crash
  BY <1>3 DEF Crash, IdsUnique
<1>4. QED
  BY <1>1, <1>2, <1>3, EntriesStep

----------------------------------------------------------------------------
\* A request, the only one there is, goes on and what it has read is still so; or it
\* ends, and leaves sane rows.
LEMMA SoloGoes ==
  ASSUME \A b, c \in Admins : b = c, SoloInv, NEW a \in Admins, phase = "up", phase' = phase,
         \/ row' = row
         \/ \A j \in Jobs : Sane(row'[j]),
         Current(pc'[a], loc'[a], row'[loc'[a].job])
  PROVE  SoloInv'
BY DEF SoloInv

\* Every step keeps what a request has read.
LEMMA SoloStep ==
  ASSUME \A b, c \in Admins : b = c, TypeOK, SoloInv, RebuildInv, [Next]_vars
  PROVE  SoloInv'
<1>1. /\ row \in [Jobs -> Row] /\ pc \in [Admins -> Label] /\ loc \in [Admins -> Locals]
  BY DEF TypeOK
<1>2. /\ \A j \in Jobs : Sane(row[j])
      /\ \A a \in Admins : Current(pc[a], loc[a], row[loc[a].job])
      /\ phase # "up" => \A a \in Admins : pc[a] = "idle"
  BY DEF SoloInv
<1>3. \A x, r : Current("idle", x, r)
  BY DEF Current
<1>4. ASSUME NEW a \in Admins
      PROVE  loc[a] \in Locals /\ loc[a].job \in Jobs /\ loc[a].parts \in Nat /\ row[loc[a].job] \in Row
  BY <1>1 DEF Locals
<1>5. ASSUME NEW a \in Admins, Return(a), phase = "up", phase' = phase, row' = row PROVE SoloInv'
  <2>1. pc'[a] = "idle"
    BY <1>1, <1>5 DEF Return, Goto
  <2>2. QED
    BY <1>3, <1>5, <2>1, SoloGoes
<1>6. ASSUME NEW a \in Admins, Return(a), phase = "up", phase' = phase, NEW j \in Jobs,
             Sane(row'[j]), \A k \in Jobs \ {j} : row'[k] = row[k]
      PROVE  SoloInv'
  <2>1. pc'[a] = "idle"
    BY <1>1, <1>6 DEF Return, Goto
  <2>2. \A k \in Jobs : Sane(row'[k])
    BY <1>2, <1>6
  <2>3. QED
    BY <1>3, <1>6, <2>1, <2>2, SoloGoes
<1>7. ASSUME NEW a \in Admins, NEW j \in Jobs, NEW n \in Specs, Create(a, j, n) PROVE SoloInv'
  <2>1. /\ pc'[a] = "createReg" /\ loc'[a].job = j /\ row[j].state = "absent" /\ row' = row
        /\ phase = "up" /\ phase' = phase
    BY <1>1, <1>4, <1>7 DEF Create, Request, Goto, proc, life, Locals
  <2>2. Current(pc'[a], loc'[a], row'[loc'[a].job])
    BY <2>1 DEF Current
  <2>3. QED
    BY <2>1, <2>2, SoloGoes
<1>8. ASSUME NEW a \in Admins, NEW j \in Jobs, NEW n \in Specs, Update(a, j, n) PROVE SoloInv'
  <2>1. /\ pc'[a] = IF row[j].status = "enabled" THEN "updateReg" ELSE "updateRow"
        /\ loc'[a].job = j /\ loc'[a].ids = row[j].ids /\ row[j].state = "live" /\ row' = row
        /\ phase = "up" /\ phase' = phase
    BY <1>1, <1>8 DEF Update, Request, Goto, proc, life, Live
  <2>2. Current(pc'[a], loc'[a], row'[loc'[a].job])
    BY <1>2, <2>1 DEF Current, Sane
  <2>3. QED
    BY <2>1, <2>2, SoloGoes
<1>9. ASSUME NEW a \in Admins, NEW j \in Jobs, NEW s, UpdateStatus(a, j, s) PROVE SoloInv'
  <2>1. /\ pc'[a] = IF s = "enabled" THEN "enableReg" ELSE "disableRemove"
        /\ s \in StatusEnum /\ loc'[a].status = s /\ loc'[a].parts = row[j].parts
        /\ loc'[a].job = j /\ loc'[a].ids = row[j].ids /\ row[j].state = "live" /\ row' = row
        /\ phase = "up" /\ phase' = phase
    BY <1>1, <1>9 DEF UpdateStatus, Request, Goto, proc, life, Live
  <2>2. Current(pc'[a], loc'[a], row'[loc'[a].job])
    BY <2>1 DEF Current, StatusEnum
  <2>3. QED
    BY <2>1, <2>2, SoloGoes
<1>10. ASSUME NEW a \in Admins, NEW j \in Jobs, Delete(a, j) PROVE SoloInv'
  <2>1. /\ pc'[a] = "deleteRemove" /\ loc'[a].job = j /\ loc'[a].ids = row[j].ids
        /\ row[j].state = "live" /\ row' = row /\ phase = "up" /\ phase' = phase
    BY <1>1, <1>4, <1>10 DEF Delete, Request, Goto, proc, life, Locals, Live
  <2>2. Current(pc'[a], loc'[a], row'[loc'[a].job])
    BY <2>1 DEF Current
  <2>3. QED
    BY <2>1, <2>2, SoloGoes
<1>11. ASSUME NEW a \in Admins, Step(a) PROVE phase = "up" /\ phase' = phase
  <2>1. pc[a] # "idle"
    BY <1>11 DEF Step, CreateRegister, CreateRow, UpdateRegister, UpdateRemove, UpdateRow,
       EnableRegister, DisableRemove, StatusRow, DeleteRemove, DeleteClean, DeleteRow
  <2>2. phase' = phase
    BY <1>11 DEF Step, CreateRegister, CreateRow, UpdateRegister, UpdateRemove, UpdateRow,
       EnableRegister, DisableRemove, StatusRow, DeleteRemove, DeleteClean, DeleteRow, proc, life
  <2>3. QED
    BY <1>2, <2>1, <2>2
<1>12. ASSUME NEW a \in Admins, Step(a), NEW l \in Label, Goto(a, l), row' = row,
              loc'[a].job = loc[a].job, Current(l, loc'[a], row[loc[a].job])
       PROVE  SoloInv'
  <2>1. pc'[a] = l
    BY <1>1, <1>12 DEF Goto
  <2>2. QED
    BY <1>11, <1>12, <2>1, SoloGoes
<1>13. ASSUME NEW a \in Admins, CreateRegister(a) PROVE SoloInv'
  <2>0. Step(a) /\ row' = row /\ pc[a] = "createReg"
    BY <1>13 DEF Step, CreateRegister
  <2>1. CASE loc[a].parts = 0
    BY <1>5, <1>11, <1>13, <2>0, <2>1 DEF CreateRegister
  <2>2. CASE loc[a].parts # 0
    <3>1. /\ Goto(a, "createRow") /\ loc'[a].job = loc[a].job /\ loc'[a].parts = loc[a].parts
      BY <1>1, <1>4, <1>13, <2>2 DEF CreateRegister, Locals
    <3>2. Current("createRow", loc'[a], row[loc[a].job])
      BY <1>2, <1>4, <2>0, <2>2, <3>1 DEF Current
    <3>3. QED
      BY <1>12, <2>0, <3>1, <3>2 DEF Label
  <2>3. QED
    BY <2>1, <2>2
<1>14. ASSUME NEW a \in Admins, CreateRow(a) PROVE SoloInv'
  <2>0. Step(a) /\ Return(a) /\ pc[a] = "createRow"
    BY <1>14 DEF Step, CreateRow
  <2>1. CASE row' = row
    BY <1>5, <1>11, <2>0, <2>1
  <2>2. CASE row' = [row EXCEPT ![loc[a].job] =
               [state |-> "live", status |-> "enabled", parts |-> loc[a].parts, ids |-> loc[a].new]]
    <3>1. loc[a].parts > 0
      BY <1>2, <2>0 DEF Current
    <3>2. /\ row'[loc[a].job].parts = loc[a].parts /\ row'[loc[a].job].status = "enabled"
          /\ \A k \in Jobs \ {loc[a].job} : row'[k] = row[k]
      BY <1>1, <1>4, <2>2
    <3>3. Sane(row'[loc[a].job])
      BY <3>1, <3>2 DEF Sane
    <3>4. QED
      BY <1>4, <1>6, <1>11, <2>0, <3>2, <3>3
  <2>3. QED
    BY <1>14, <2>1, <2>2 DEF CreateRow
<1>15. ASSUME NEW a \in Admins, UpdateRegister(a) PROVE SoloInv'
  <2>0. Step(a) /\ row' = row /\ pc[a] = "updateReg"
    BY <1>15 DEF Step, UpdateRegister
  <2>1. CASE loc[a].parts = 0
    BY <1>5, <1>11, <1>15, <2>0, <2>1 DEF UpdateRegister
  <2>2. CASE loc[a].parts # 0
    <3>1. /\ Goto(a, "updateRemove") /\ loc'[a].job = loc[a].job /\ loc'[a].parts = loc[a].parts
          /\ loc'[a].ids = loc[a].ids
      BY <1>1, <1>4, <1>15, <2>2 DEF UpdateRegister, Locals
    <3>2. Current("updateRemove", loc'[a], row[loc[a].job])
      BY <1>2, <1>4, <2>0, <2>2, <3>1 DEF Current
    <3>3. QED
      BY <1>12, <2>0, <3>1, <3>2 DEF Label
  <2>3. QED
    BY <2>1, <2>2
<1>16. ASSUME NEW a \in Admins, UpdateRemove(a) PROVE SoloInv'
  <2>1. /\ Step(a) /\ row' = row /\ pc[a] = "updateRemove" /\ Goto(a, "updateRow")
        /\ loc'[a].job = loc[a].job /\ loc'[a].parts = loc[a].parts
    BY <1>1, <1>4, <1>16 DEF Step, UpdateRemove, Locals
  <2>2. Current("updateRow", loc'[a], row[loc[a].job])
    BY <1>2, <1>4, <2>1 DEF Current
  <2>3. QED
    BY <1>12, <2>1, <2>2 DEF Label
<1>17. ASSUME NEW a \in Admins, UpdateRow(a) PROVE SoloInv'
  <2>0. Step(a) /\ Return(a) /\ pc[a] = "updateRow"
    BY <1>17 DEF Step, UpdateRow
  <2>1. CASE row' = row
    BY <1>5, <1>11, <2>0, <2>1
  <2>2. CASE row' = [row EXCEPT ![loc[a].job].parts = loc[a].parts, ![loc[a].job].ids = loc[a].ids]
    <3>1. IF row[loc[a].job].status = "enabled" THEN loc[a].parts > 0 ELSE loc[a].ids = {}
      BY <1>2, <2>0 DEF Current
    <3>2. /\ row'[loc[a].job].parts = loc[a].parts /\ row'[loc[a].job].ids = loc[a].ids
          /\ row'[loc[a].job].status = row[loc[a].job].status
          /\ \A k \in Jobs \ {loc[a].job} : row'[k] = row[k]
      BY <1>1, <1>4, <2>2 DEF Row
    <3>3. Sane(row'[loc[a].job])
      BY <3>1, <3>2 DEF Sane
    <3>4. QED
      BY <1>4, <1>6, <1>11, <2>0, <3>2, <3>3
  <2>3. QED
    BY <1>17, <2>1, <2>2 DEF UpdateRow
<1>18. ASSUME NEW a \in Admins, EnableRegister(a) PROVE SoloInv'
  <2>0. Step(a) /\ row' = row /\ pc[a] = "enableReg"
    BY <1>18 DEF Step, EnableRegister
  <2>1. CASE loc[a].parts = 0
    BY <1>5, <1>11, <1>18, <2>0, <2>1 DEF EnableRegister
  <2>2. CASE loc[a].parts # 0
    <3>1. /\ Goto(a, "statusRow") /\ loc'[a].job = loc[a].job /\ loc'[a].parts = loc[a].parts
          /\ loc'[a].status = loc[a].status
      BY <1>1, <1>4, <1>18, <2>2 DEF EnableRegister, Locals
    <3>2. Current("statusRow", loc'[a], row[loc[a].job])
      BY <1>2, <1>4, <2>0, <2>2, <3>1 DEF Current
    <3>3. QED
      BY <1>12, <2>0, <3>1, <3>2 DEF Label
  <2>3. QED
    BY <2>1, <2>2
<1>19. ASSUME NEW a \in Admins, DisableRemove(a) PROVE SoloInv'
  <2>1. /\ Step(a) /\ row' = row /\ pc[a] = "disableRemove" /\ Goto(a, "statusRow")
        /\ loc'[a].job = loc[a].job /\ loc'[a].ids = {} /\ loc'[a].status = loc[a].status
    BY <1>1, <1>4, <1>19 DEF Step, DisableRemove, Locals
  <2>2. Current("statusRow", loc'[a], row[loc[a].job])
    BY <1>2, <1>4, <2>1 DEF Current
  <2>3. QED
    BY <1>12, <2>1, <2>2 DEF Label
<1>20. ASSUME NEW a \in Admins, StatusRow(a) PROVE SoloInv'
  <2>0. Step(a) /\ Return(a) /\ pc[a] = "statusRow"
    BY <1>20 DEF Step, StatusRow
  <2>1. CASE row' = row
    BY <1>5, <1>11, <2>0, <2>1
  <2>2. CASE row' = [row EXCEPT ![loc[a].job].status = loc[a].status, ![loc[a].job].ids = loc[a].ids]
    <3>1. IF loc[a].status = "enabled" THEN row[loc[a].job].parts > 0 ELSE loc[a].ids = {}
      BY <1>2, <2>0 DEF Current
    <3>2. /\ row'[loc[a].job].parts = row[loc[a].job].parts /\ row'[loc[a].job].ids = loc[a].ids
          /\ row'[loc[a].job].status = loc[a].status
          /\ \A k \in Jobs \ {loc[a].job} : row'[k] = row[k]
      BY <1>1, <1>4, <2>2 DEF Row
    <3>3. Sane(row'[loc[a].job])
      BY <3>1, <3>2 DEF Sane
    <3>4. QED
      BY <1>4, <1>6, <1>11, <2>0, <3>2, <3>3
  <2>3. QED
    BY <1>20, <2>1, <2>2 DEF StatusRow
<1>21. ASSUME NEW a \in Admins, DeleteRemove(a) PROVE SoloInv'
  <2>1. /\ Step(a) /\ row' = row /\ pc[a] = "deleteRemove" /\ Goto(a, "deleteClean") /\ loc' = loc
    BY <1>21 DEF Step, DeleteRemove
  <2>2. Current("deleteClean", loc'[a], row[loc[a].job])
    BY <1>2, <1>4, <2>1 DEF Current
  <2>3. QED
    BY <1>12, <2>1, <2>2 DEF Label
<1>22. ASSUME NEW a \in Admins, DeleteClean(a) PROVE SoloInv'
  <2>0. Step(a) /\ row' = row /\ pc[a] = "deleteClean"
    BY <1>22 DEF Step, DeleteClean
  <2>1. CASE Return(a)
    BY <1>5, <1>11, <2>0, <2>1
  <2>2. CASE Goto(a, "deleteRow") /\ loc' = loc
    <3>1. Current("deleteRow", loc'[a], row[loc[a].job])
      BY <1>2, <1>4, <2>0, <2>2 DEF Current
    <3>2. QED
      BY <1>12, <2>0, <2>2, <3>1 DEF Label
  <2>3. QED
    BY <1>22, <2>1, <2>2 DEF DeleteClean
<1>23. ASSUME NEW a \in Admins, DeleteRow(a) PROVE SoloInv'
  <2>0. Step(a) /\ Return(a)
    BY <1>23 DEF Step, DeleteRow
  <2>1. CASE row' = row
    BY <1>5, <1>11, <2>0, <2>1
  <2>2. CASE row' = [row EXCEPT ![loc[a].job].state = "deleted", ![loc[a].job].ids = {}]
    <3>1. /\ row'[loc[a].job].state = "deleted"
          /\ \A k \in Jobs \ {loc[a].job} : row'[k] = row[k]
      BY <1>1, <1>4, <2>2 DEF Row
    <3>2. Sane(row'[loc[a].job])
      BY <3>1 DEF Sane
    <3>3. QED
      BY <1>4, <1>6, <1>11, <2>0, <3>1, <3>2
  <2>3. QED
    BY <1>23, <2>1, <2>2 DEF DeleteRow
<1>24. CASE Crash
  <2>1. row' = row /\ \A a \in Admins : pc'[a] = "idle"
    BY <1>24 DEF Crash
  <2>2. QED
    BY <1>2, <1>3, <2>1 DEF SoloInv
<1>25. CASE Boot \/ Serve
  BY <1>2, <1>25 DEF Boot, Serve, SoloInv
<1>26. ASSUME NEW j \in Jobs, RestoreCronjob(j) PROVE SoloInv'
  <2>1. /\ phase = "boot" /\ pc' = pc /\ loc' = loc /\ phase' = phase /\ j \in ToRestore
    BY <1>26 DEF RestoreCronjob, RebuildInv
  <2>2. row[j].status = "enabled" /\ row[j].parts > 0 /\ row[j].parts \in Nat
    BY <1>1, <1>2, <2>1 DEF ToRestore, Live, Sane, Row
  <2>3. \A k \in Jobs : row'[k] = row[k] \/ (row'[k].status = "enabled" /\ row'[k].parts > 0)
    BY <1>1, <1>26, <2>2 DEF RestoreCronjob, Row
  <2>4. \A k \in Jobs : Sane(row'[k])
    BY <1>2, <2>3 DEF Sane
  <2>5. QED
    BY <1>2, <1>3, <2>1, <2>4 DEF SoloInv
<1>27. CASE UNCHANGED vars
  BY <1>2, <1>27 DEF vars, SoloInv
<1>28. ASSUME NEW a \in Admins, Ask(a) PROVE SoloInv'
  BY <1>28, <1>7, <1>8, <1>9, <1>10, <1>27 DEF Ask, NotFound
<1>29. ASSUME NEW a \in Admins, Step(a) PROVE SoloInv'
  BY <1>29, <1>13, <1>14, <1>15, <1>16, <1>17, <1>18, <1>19, <1>20, <1>21, <1>22, <1>23 DEF Step
<1>30. QED
  BY <1>28, <1>29, <1>24, <1>25, <1>26, <1>27 DEF Next

----------------------------------------------------------------------------
\* Every step of the restart schedules enabled cronjobs, each once.
LEMMA RebuildStep ==
  ASSUME TypeOK, SoloInv, RebuildInv, [Next]_vars
  PROVE  RebuildInv'
<1>1. /\ row \in [Jobs -> Row] /\ faults \in Nat
      /\ \A j \in Jobs : Sane(row[j])
      /\ phase # "up" => \A a \in Admins : pc[a] = "idle"
  BY DEF TypeOK, SoloInv
<1>2. ASSUME phase' = "up" PROVE RebuildInv'
  BY <1>2 DEF RebuildInv
<1>3. ASSUME NEW a \in Admins, Ask(a), phase = "up" PROVE RebuildInv'
  BY <1>2, <1>3 DEF Ask, Create, Update, UpdateStatus, Delete, NotFound, vars, proc, life
<1>4. ASSUME NEW a \in Admins, Ask(a) PROVE RebuildInv'
  BY <1>3, <1>4 DEF Ask, Create, Update, UpdateStatus, Delete, NotFound, Request
<1>5. ASSUME NEW a \in Admins, Step(a) PROVE RebuildInv'
  <2>1. phase = "up"
    BY <1>1, <1>5 DEF Step, CreateRegister, CreateRow, UpdateRegister, UpdateRemove, UpdateRow,
       EnableRegister, DisableRemove, StatusRow, DeleteRemove, DeleteClean, DeleteRow
  <2>2. phase' = phase
    BY <1>5 DEF Step, CreateRegister, CreateRow, UpdateRegister, UpdateRemove, UpdateRow,
       EnableRegister, DisableRemove, StatusRow, DeleteRemove, DeleteClean, DeleteRow, proc, life
  <2>3. QED
    BY <1>2, <2>1, <2>2
<1>6. CASE Crash
  BY <1>6 DEF Crash, RebuildInv
<1>7. CASE Boot
  <2>1. phase' = "boot" /\ row' = row /\ entries' = {} /\ \A j \in Jobs : EntriesOf(j)' = {}
    BY <1>7 DEF Boot, RebuildInv, sched, EntriesOf
  <2>2. todo' \subseteq ToRestore /\ (faults' = 0 => todo' = ToRestore)
    BY <1>7 DEF Boot
  <2>3. \A j \in Jobs : j \in ToRestore <=> Enabled(j)
    BY DEF ToRestore, Enabled
  <2>4. ToRestore' = ToRestore /\ \A j \in Jobs : Enabled(j)' = Enabled(j)
    BY <2>1 DEF ToRestore, Enabled, Live
  <2>5. QED
    BY <2>1, <2>2, <2>3, <2>4 DEF RebuildInv, Rebuilt
<1>8. CASE Serve
  BY <1>2, <1>8 DEF Serve
<1>9. ASSUME NEW j \in Jobs, RestoreCronjob(j) PROVE RebuildInv'
  <2>1. /\ phase = "boot" /\ phase' = "boot" /\ todo \subseteq ToRestore /\ j \in todo
        /\ todo' = todo \ {j}
    BY <1>9 DEF RestoreCronjob, RebuildInv
  <2>2. Enabled(j) /\ row[j].parts > 0 /\ row[j].parts \in Nat
    BY <1>1, <2>1 DEF ToRestore, Enabled, Live, Sane, Row
  <2>3. /\ \A k \in Jobs : Live(k)' = Live(k) /\ row'[k].status = row[k].status
        /\ \A k \in Jobs \ {j} : row'[k].ids = row[k].ids
    BY <1>1, <1>9 DEF RestoreCronjob, Row, Live
  <2>4. todo' \subseteq ToRestore'
    BY <2>1, <2>3 DEF ToRestore
  <2>5. ASSUME faults' = 0, NEW k \in Jobs PROVE Rebuilt(k)'
    <3>1. ~StmtFails
      BY <1>1, <2>5 DEF StmtFails
    <3>2. /\ StmtOk /\ Register(j, row[j].parts)
          /\ row' = [row EXCEPT ![j].ids = FreshIds(row[j].parts)]
      BY <1>9, <2>2, <3>1 DEF RestoreCronjob
    <3>3. Rebuilt(k)
      BY <2>1, <2>5, <3>2 DEF RebuildInv, StmtOk
    <3>4. Enabled(k)' = Enabled(k)
      BY <2>3 DEF Enabled
    <3>5. CASE k = j
      <4>1. EntriesOf(k) = {}
        BY <2>1, <3>3, <3>5 DEF Rebuilt
      <4>2. EntriesOf(k)' = FreshIds(row[j].parts)
        BY <3>2, <3>5, <4>1, RegisterAdds
      <4>3. row'[k].ids = FreshIds(row[j].parts)
        BY <1>1, <3>2, <3>5
      <4>4. lastId + 1 \in FreshIds(row[j].parts)
        BY <2>2 DEF FreshIds, TypeOK
      <4>5. QED
        BY <2>1, <2>2, <3>4, <3>5, <4>2, <4>3, <4>4 DEF Rebuilt
    <3>6. CASE k # j
      <4>1. EntriesOf(k)' = EntriesOf(k)
        BY <3>2, <3>6, RegisterAdds
      <4>2. QED
        BY <2>1, <2>3, <3>3, <3>4, <3>6, <4>1 DEF Rebuilt
    <3>7. QED
      BY <3>5, <3>6
  <2>6. QED
    BY <2>1, <2>4, <2>5 DEF RebuildInv
<1>10. CASE UNCHANGED vars
  BY <1>10 DEF vars, sched, RebuildInv, Rebuilt, Enabled, Live, EntriesOf, ToRestore
<1>11. QED
  BY <1>4, <1>5, <1>6, <1>7, <1>8, <1>9, <1>10 DEF Next

----------------------------------------------------------------------------
\* An id stays with the cronjob that owns it while the process lives.
LEMMA OwnsStays ==
  ASSUME TypeOK, [Next]_vars, ~Crash
  PROVE  \A j \in Jobs, i \in Nat : Owns(j, i) => Owns(j, i)'
<1>1. lastId \in Nat
  BY DEF TypeOK
<1>2. CASE entries' \subseteq entries /\ lastId' = lastId
  BY <1>2 DEF Owns
<1>3. ASSUME NEW k \in Jobs, NEW n \in Nat, Register(k, n),
             NEW j \in Jobs, NEW i \in Nat, Owns(j, i)
      PROVE  Owns(j, i)'
  <2>1. i <= lastId /\ lastId' = lastId + n /\ i \notin FreshIds(n)
    BY <1>1, <1>3 DEF Owns, Register, FreshIds
  <2>2. \A e \in entries' : e \in entries \/ e.id \in FreshIds(n)
    BY <1>3 DEF Register
  <2>3. i <= lastId'
    BY <1>1, <2>1
  <2>4. QED
    BY <1>3, <2>1, <2>2, <2>3 DEF Owns
<1>4. QED
  BY <1>2, <1>3, EntriesStep

\* While a request changes no row and takes no entry away, what rows name stays there.
LEMMA KnownStays ==
  ASSUME \A b, c \in Admins : b = c, NEW a \in Admins, \A j \in Jobs : Enabled(j) => Known(j),
         row \in [Jobs -> Row], row' = row, refused' = refused,
         \A j \in Jobs : EntriesOf(j) \subseteq EntriesOf(j)',
         \A j \in Jobs, i \in Nat : Owns(j, i) => Owns(j, i)',
         Writes(pc[a]) => Writes(pc'[a]) /\ loc'[a].job = loc[a].job
  PROVE  \A j \in Jobs : Enabled(j)' => Known(j)'
<1>1. ASSUME NEW j \in Jobs, Enabled(j)' PROVE Known(j)'
  <2>1. Enabled(j) /\ Known(j)
    BY <1>1 DEF Enabled, Live
  <2>2. \A i \in row'[j].ids : Owns(j, i)'
    BY <2>1 DEF Known, Row
  <2>3. CASE Exist(row[j].ids, j)
    BY <2>2, <2>3 DEF Exist, Known
  <2>4. CASE j \in refused
    BY <2>2, <2>4 DEF Known
  <2>5. CASE loc[a].job = j /\ Writes(pc[a])
    BY <2>2, <2>5 DEF Known
  <2>6. QED
    BY <2>1, <2>3, <2>4, <2>5 DEF Known
<1>2. QED
  BY <1>1

\* Removing the entries its row names, a request takes none of another cronjob, and is
\* going to write the row.
LEMMA RemoveKnown ==
  ASSUME \A b, c \in Admins : b = c, TypeOK, NEW a \in Admins,
         \A j \in Jobs : Enabled(j) => Known(j), ~Writes(pc[a]), row' = row, refused' = refused,
         \A j \in Jobs, i \in Nat : Owns(j, i) => Owns(j, i)',
         NEW k \in Jobs, loc[a].job = k, Live(k), Sane(row[k]), entries' = Without(row[k].ids),
         Writes(pc'[a]), loc'[a].job = k
  PROVE  \A j \in Jobs : Enabled(j)' => Known(j)'
<1>1. ASSUME NEW j \in Jobs, Enabled(j)' PROVE Known(j)'
  <2>1. Enabled(j) /\ Known(j)
    BY <1>1 DEF Enabled, Live
  <2>2. \A i \in row'[j].ids : Owns(j, i)'
    BY <2>1 DEF Known, Row, TypeOK
  <2>3. CASE j = k
    BY <2>2, <2>3 DEF Known
  <2>4. CASE j \in refused
    BY <2>2, <2>4 DEF Known
  <2>5. CASE j # k /\ j \notin refused
    <3>1. Exist(row[j].ids, j)
      BY <2>1, <2>5 DEF Known
    <3>2. ASSUME NEW i \in row[j].ids, i \in row[k].ids PROVE FALSE
      <4>1. Enabled(k)
        BY <3>2 DEF Sane, Enabled, Live
      <4>2. Owns(k, i) /\ i \in EntriesOf(j)
        BY <3>1, <3>2, <4>1 DEF Known, Exist
      <4>3. PICK e \in entries : e.job = j /\ e.id = i
        BY <4>2, EntryIn
      <4>4. QED
        BY <2>5, <4>2, <4>3 DEF Owns
    <3>3. row[j].ids \subseteq EntriesOf(j)'
      BY <3>1, <3>2, WithoutLoses DEF Exist
    <3>4. QED
      BY <2>2, <3>1, <3>3 DEF Known, Exist
  <2>6. QED
    BY <2>3, <2>4, <2>5
<1>2. QED
  BY <1>1

\* Writing a row, a request leaves it naming entries there are, or not scheduled, or is
\* refused and leaves it as it is.
LEMMA WriteKnown ==
  ASSUME \A b, c \in Admins : b = c, NEW a \in Admins, \A j \in Jobs : Enabled(j) => Known(j),
         IdsUnique, entries' = entries, lastId' = lastId, NEW k \in Jobs, loc[a].job = k,
         \A j \in Jobs \ {k} : row'[j] = row[j] /\ (j \in refused => j \in refused'),
         Enabled(k)' => Exist(row'[k].ids, k) \/ (row' = row /\ k \in refused')
  PROVE  \A j \in Jobs : Enabled(j)' => Known(j)'
<1>1. /\ \A j : EntriesOf(j)' = EntriesOf(j)
      /\ \A j, i : Owns(j, i)' = Owns(j, i)
  BY DEF EntriesOf, Owns
<1>2. ASSUME NEW j \in Jobs, Enabled(j)' PROVE Known(j)'
  <2>1. CASE j = k /\ Exist(row'[k].ids, k)
    <3>1. ASSUME NEW i \in row'[k].ids PROVE Owns(k, i)
      <4>1. PICK e \in entries : e.job = k /\ e.id = i
        BY <2>1, EntryIn DEF Exist
      <4>2. QED
        BY <4>1 DEF Owns, IdsUnique
    <3>2. QED
      BY <1>1, <2>1, <3>1 DEF Known, Exist
  <2>2. CASE j = k /\ row' = row /\ k \in refused'
    BY <1>1, <1>2, <2>2 DEF Known, Enabled, Live
  <2>3. CASE j # k
    BY <1>1, <1>2, <2>3 DEF Known, Exist, Enabled, Live
  <2>4. QED
    BY <1>2, <2>1, <2>2, <2>3
<1>3. QED
  BY <1>2

\* Every step keeps what rows and requests know of the entries.
LEMMA RecordStep ==
  ASSUME \A b, c \in Admins : b = c, TypeOK, IdsUnique, SoloInv, RebuildInv, RecordInv, [Next]_vars
  PROVE  RecordInv'
<1>. DEFINE AllKnown == \A j \in Jobs : Enabled(j) => Known(j)
<1>1. /\ row \in [Jobs -> Row] /\ pc \in [Admins -> Label] /\ loc \in [Admins -> Locals]
      /\ lastId \in Nat /\ faults \in Nat
  BY DEF TypeOK
<1>2. /\ \A j \in Jobs : Sane(row[j])
      /\ \A a \in Admins : Current(pc[a], loc[a], row[loc[a].job])
      /\ phase # "up" => \A a \in Admins : pc[a] = "idle"
  BY DEF SoloInv
<1>3. ASSUME NEW a \in Admins
      PROVE  /\ loc[a] \in Locals /\ loc[a].job \in Jobs /\ loc[a].parts \in Nat
             /\ row[loc[a].job] \in Row
  BY <1>1 DEF Locals
<1>. SUFFICES ASSUME phase' = "up", faults' = 0 PROVE AllKnown' /\ \A a \in Admins : Held(a)'
  BY DEF RecordInv
<1>4. ~StmtFails
  BY <1>1 DEF StmtFails
<1>5. CASE Serve
  <2>1. /\ phase = "boot" /\ faults = 0 /\ todo = {} /\ row' = row /\ entries' = entries /\ pc' = pc
    BY <1>5 DEF Serve, sched
  <2>2. ASSUME NEW j \in Jobs, Enabled(j)' PROVE Known(j)'
    <3>1. Rebuilt(j) /\ Enabled(j)
      BY <2>1, <2>2 DEF RebuildInv, Enabled, Live
    <3>2. row[j].ids # {} /\ row[j].ids = EntriesOf(j) /\ EntriesOf(j)' = EntriesOf(j)
      BY <2>1, <3>1 DEF Rebuilt, EntriesOf
    <3>3. ASSUME NEW i \in row'[j].ids PROVE Owns(j, i)'
      <4>1. PICK e \in entries : e.job = j /\ e.id = i
        BY <2>1, <3>2, <3>3, EntryIn
      <4>2. QED
        BY <1>5, <2>1, <4>1 DEF Owns, IdsUnique, Serve, sched
    <3>4. QED
      BY <2>1, <3>2, <3>3 DEF Known, Exist
  <2>3. \A a \in Admins : Held(a)'
    BY <1>2, <2>1 DEF Held, Brings
  <2>4. QED
    BY <2>2, <2>3
<1>6. CASE UNCHANGED vars
  BY <1>6 DEF vars, sched, proc, life, RecordInv, Known, Owns, Exist, Enabled, Live, EntriesOf, Held
<1>7. CASE Crash \/ Boot \/ \E j \in Jobs : RestoreCronjob(j)
  BY <1>7 DEF Crash, Boot, RestoreCronjob
<1>8. ASSUME NEW a \in Admins, Ask(a) \/ Step(a), ~UNCHANGED vars
      PROVE  /\ phase = "up" /\ faults = 0 /\ AllKnown /\ Held(a)
             /\ \A j \in Jobs, i \in Nat : Owns(j, i) => Owns(j, i)'
  <2>1. phase = "up"
    <3>1. CASE Ask(a)
      BY <1>8, <3>1 DEF Ask, Create, Update, UpdateStatus, Delete, NotFound, Request
    <3>2. CASE Step(a)
      BY <1>2, <3>2 DEF Step, CreateRegister, CreateRow, UpdateRegister, UpdateRemove, UpdateRow,
         EnableRegister, DisableRemove, StatusRow, DeleteRemove, DeleteClean, DeleteRow
    <3>3. QED
      BY <1>8, <3>1, <3>2
  <2>2. faults = 0
    <3>1. CASE Ask(a)
      BY <1>8, <3>1 DEF Ask, Create, Update, UpdateStatus, Delete, NotFound
    <3>2. CASE Step(a)
      BY <1>4, <3>2 DEF Step, CreateRegister, CreateRow, UpdateRegister, UpdateRemove, UpdateRow,
         EnableRegister, DisableRemove, StatusRow, DeleteRemove, DeleteClean, DeleteRow, StmtOk
    <3>3. QED
      BY <1>8, <3>1, <3>2
  <2>3. ~Crash
    BY DEF Crash
  <2>4. QED
    BY <2>1, <2>2, <2>3, OwnsStays DEF RecordInv
<1>9. ASSUME NEW a \in Admins, Held(a)' PROVE \A b \in Admins : Held(b)'
  <2>1. \A b \in Admins : b = a
    OBVIOUS
  <2>2. QED
    BY <1>9, <2>1
<1>10. ASSUME NEW a \in Admins, pc'[a] \notin {"createRow", "updateRemove", "updateRow", "statusRow"}
       PROVE  Held(a)'
  BY <1>10 DEF Held, Brings
<1>11. ASSUME NEW a \in Admins, Return(a) PROVE \A b \in Admins : Held(b)'
  <2>1. pc'[a] = "idle"
    BY <1>1, <1>11 DEF Return, Goto
  <2>2. QED
    BY <1>9, <1>10, <2>1
<1>12. ASSUME entries' = entries PROVE \A j \in Jobs : EntriesOf(j)' = EntriesOf(j)
  BY <1>12 DEF EntriesOf
<1>13. ASSUME NEW a \in Admins, Ask(a), ~UNCHANGED vars
       PROVE  AllKnown' /\ \A b \in Admins : Held(b)'
  <2>1. row' = row /\ entries' = entries /\ refused' = refused /\ pc[a] = "idle"
    BY <1>13 DEF Ask, Create, Update, UpdateStatus, Delete, NotFound, Request, sched, proc
  <2>2. ~Writes(pc[a])
    BY <2>1 DEF Writes
  <2>3. AllKnown /\ \A j \in Jobs, i \in Nat : Owns(j, i) => Owns(j, i)'
    BY <1>8, <1>13
  <2>4. AllKnown'
    BY <1>1, <1>12, <2>1, <2>2, <2>3, KnownStays
  <2>5. Held(a)'
    <3>1. ASSUME NEW j \in Jobs, NEW n \in Specs, Update(a, j, n) PROVE Held(a)'
      <4>1. /\ pc'[a] = IF row[j].status = "enabled" THEN "updateReg" ELSE "updateRow"
            /\ loc'[a].job = j
        BY <1>1, <3>1 DEF Update, Goto
      <4>2. QED
        BY <2>1, <4>1 DEF Held, Brings
    <3>2. CASE ~\E j \in Jobs, n \in Specs : Update(a, j, n)
      <4>1. pc'[a] \in {"createReg", "enableReg", "disableRemove", "deleteRemove"}
        BY <1>1, <1>13, <3>2 DEF Ask, Create, UpdateStatus, Delete, NotFound, Goto
      <4>2. QED
        BY <1>10, <4>1
    <3>3. QED
      BY <3>1, <3>2
  <2>6. QED
    BY <1>9, <2>4, <2>5
<1>14. ASSUME NEW a \in Admins, Step(a) PROVE pc[a] # "idle" /\ (pc'[a] # pc[a] => ~UNCHANGED vars)
  BY <1>14 DEF Step, CreateRegister, CreateRow, UpdateRegister, UpdateRemove, UpdateRow, vars,
       EnableRegister, DisableRemove, StatusRow, DeleteRemove, DeleteClean, DeleteRow
<1>15. ASSUME NEW a \in Admins, NEW k \in Jobs, loc[a].job = k, NEW n \in Nat \ {0}, Step(a),
              ~UNCHANGED vars, ~Writes(pc[a]), row' = row, refused' = refused, Register(k, n)
       PROVE  /\ AllKnown'
              /\ FreshIds(n) # {} /\ FreshIds(n) \subseteq EntriesOf(k)'
              /\ FreshIds(n) \cap EntriesOf(k) = {}
  <2>1. AllKnown /\ \A j \in Jobs, i \in Nat : Owns(j, i) => Owns(j, i)'
    BY <1>8, <1>15
  <2>2. \A j \in Jobs : EntriesOf(j) \subseteq EntriesOf(j)'
    BY <1>15, RegisterAdds
  <2>3. AllKnown'
    BY <1>1, <1>15, <2>1, <2>2, KnownStays
  <2>4. FreshIds(n) \subseteq EntriesOf(k)'
    BY <1>15, RegisterAdds
  <2>5. lastId + 1 \in FreshIds(n) /\ \A i \in FreshIds(n) : i \in Nat /\ ~(i <= lastId)
    BY <1>1 DEF FreshIds
  <2>6. FreshIds(n) \cap EntriesOf(k) = {}
    BY <2>5, EntryIn DEF IdsUnique
  <2>7. QED
    BY <2>3, <2>4, <2>5, <2>6
<1>16. ASSUME NEW a \in Admins, Step(a), Return(a), ~UNCHANGED vars, ~Writes(pc[a]), row' = row,
              refused' = refused, entries' = entries
       PROVE  AllKnown' /\ \A b \in Admins : Held(b)'
  <2>1. AllKnown /\ \A j \in Jobs, i \in Nat : Owns(j, i) => Owns(j, i)'
    BY <1>8, <1>16
  <2>2. AllKnown'
    BY <1>1, <1>12, <1>16, <2>1, KnownStays
  <2>3. QED
    BY <1>11, <1>16, <2>2
<1>17. ASSUME NEW a \in Admins, NEW k \in Jobs, loc[a].job = k, Step(a), Return(a), ~UNCHANGED vars,
              entries' = entries, lastId' = lastId,
              \A j \in Jobs \ {k} : row'[j] = row[j] /\ (j \in refused => j \in refused'),
              AllKnown /\ Held(a) =>
                (Enabled(k)' => Exist(row'[k].ids, k) \/ (row' = row /\ k \in refused'))
       PROVE  AllKnown' /\ \A b \in Admins : Held(b)'
  <2>1. AllKnown /\ Held(a)
    BY <1>8, <1>17
  <2>2. AllKnown'
    BY <1>17, <2>1, WriteKnown
  <2>3. QED
    BY <1>11, <1>17, <2>2
<1>18. ASSUME NEW a \in Admins, NEW k \in Jobs, loc[a].job = k, Step(a), ~UNCHANGED vars,
              pc[a] \in {"updateRemove", "disableRemove", "deleteRemove"}, row' = row,
              refused' = refused, entries' = Without(loc[a].ids), Writes(pc'[a]), loc'[a].job = k
       PROVE  AllKnown'
  <2>1. loc[a].ids = row[k].ids /\ Live(k) /\ ~Writes(pc[a])
    BY <1>2, <1>18 DEF Current, Live, Writes
  <2>2. AllKnown /\ \A j \in Jobs, i \in Nat : Owns(j, i) => Owns(j, i)'
    BY <1>8, <1>18
  <2>3. QED
    BY <1>2, <1>18, <2>1, <2>2, RemoveKnown
<1>19. ASSUME NEW a \in Admins, NEW k \in Jobs, loc[a].job = k, CreateRegister(a), ~UNCHANGED vars
       PROVE  AllKnown' /\ \A b \in Admins : Held(b)'
  <2>1. Step(a) /\ ~Writes(pc[a]) /\ row' = row /\ refused' = refused
    BY <1>19 DEF Step, CreateRegister, Writes, proc
  <2>2. CASE loc[a].parts = 0
    BY <1>16, <1>19, <2>1, <2>2 DEF CreateRegister, sched
  <2>3. CASE loc[a].parts # 0
    <3>1. PICK n \in Nat \ {0} : n = loc[a].parts
      BY <1>3, <2>3
    <3>2. /\ Register(k, n) /\ pc'[a] = "createRow"
          /\ loc'[a].job = k /\ loc'[a].new = FreshIds(n)
      BY <1>1, <1>3, <1>19, <2>3, <3>1 DEF CreateRegister, Goto, Locals
    <3>3. AllKnown' /\ FreshIds(n) # {} /\ FreshIds(n) \subseteq EntriesOf(k)'
      BY <1>15, <1>19, <2>1, <3>2
    <3>4. Held(a)'
      BY <3>2, <3>3 DEF Held, Brings, Exist
    <3>5. QED
      BY <1>9, <3>3, <3>4
  <2>4. QED
    BY <2>2, <2>3
<1>20. ASSUME NEW a \in Admins, NEW k \in Jobs, loc[a].job = k, CreateRow(a), ~UNCHANGED vars
       PROVE  AllKnown' /\ \A b \in Admins : Held(b)'
  <2>1. Step(a) /\ Return(a) /\ pc[a] = "createRow"
    BY <1>20 DEF Step, CreateRow
  <2>2. row[k].state = "absent"
    BY <1>2, <1>20, <2>1 DEF Current
  <2>3. /\ entries' = entries /\ lastId' = lastId /\ refused' = refused
        /\ row' = [row EXCEPT ![k] =
             [state |-> "live", status |-> "enabled", parts |-> loc[a].parts, ids |-> loc[a].new]]
    BY <1>4, <1>20, <2>2 DEF CreateRow, proc
  <2>4. row'[k].ids = loc[a].new /\ \A j \in Jobs \ {k} : row'[j] = row[j]
    BY <1>1, <2>3
  <2>5. Held(a) => Exist(row'[k].ids, k)
    BY <1>20, <2>1, <2>4 DEF Held
  <2>6. QED
    BY <1>17, <1>20, <2>1, <2>3, <2>4, <2>5
<1>21. ASSUME NEW a \in Admins, NEW k \in Jobs, loc[a].job = k, UpdateRegister(a), ~UNCHANGED vars
       PROVE  AllKnown' /\ \A b \in Admins : Held(b)'
  <2>1. Step(a) /\ pc[a] = "updateReg" /\ ~Writes(pc[a]) /\ row' = row /\ refused' = refused
    BY <1>21 DEF Step, UpdateRegister, Writes, proc
  <2>2. CASE loc[a].parts = 0
    BY <1>16, <1>21, <2>1, <2>2 DEF UpdateRegister, sched
  <2>3. CASE loc[a].parts # 0
    <3>1. PICK n \in Nat \ {0} : n = loc[a].parts
      BY <1>3, <2>3
    <3>2. /\ Register(k, n) /\ pc'[a] = "updateRemove"
          /\ loc'[a].job = k /\ loc'[a].new = FreshIds(n) /\ loc'[a].ids = loc[a].ids
      BY <1>1, <1>3, <1>21, <2>3, <3>1 DEF UpdateRegister, Goto, Locals
    <3>3. /\ AllKnown' /\ FreshIds(n) # {} /\ FreshIds(n) \subseteq EntriesOf(k)'
          /\ FreshIds(n) \cap EntriesOf(k) = {}
      BY <1>15, <1>21, <2>1, <3>2
    <3>4. loc[a].ids = row[k].ids /\ Enabled(k)
      BY <1>2, <1>21, <2>1 DEF Current, Enabled, Live
    <3>5. Known(k)
      BY <1>8, <1>21, <2>1, <3>4
    <3>6. \A i \in loc[a].ids : i <= lastId
      BY <3>4, <3>5 DEF Known, Owns
    <3>7. loc'[a].new \cap loc'[a].ids = {}
      BY <1>1, <3>1, <3>2, <3>6 DEF FreshIds
    <3>8. Held(a)'
      BY <3>2, <3>3, <3>7 DEF Held, Brings, Exist
    <3>9. QED
      BY <1>9, <3>3, <3>8
  <2>4. QED
    BY <2>2, <2>3
<1>22. ASSUME NEW a \in Admins, NEW k \in Jobs, loc[a].job = k, UpdateRemove(a), ~UNCHANGED vars
       PROVE  AllKnown' /\ \A b \in Admins : Held(b)'
  <2>1. /\ Step(a) /\ pc[a] = "updateRemove" /\ row' = row /\ refused' = refused
        /\ entries' = Without(loc[a].ids) /\ pc'[a] = "updateRow"
        /\ loc'[a].job = k /\ loc'[a].ids = loc[a].new
    BY <1>1, <1>3, <1>22 DEF Step, UpdateRemove, Goto, Locals, proc
  <2>2. AllKnown'
    BY <1>18, <1>22, <2>1 DEF Writes
  <2>3. Held(a)
    BY <1>8, <1>22, <2>1
  <2>4. loc[a].new # {} /\ loc[a].new \subseteq EntriesOf(k) /\ loc[a].new \cap loc[a].ids = {}
    BY <1>22, <2>1, <2>3 DEF Held, Exist
  <2>5. loc[a].new \subseteq EntriesOf(k)'
    BY <2>1, <2>4, WithoutLoses
  <2>6. Held(a)'
    BY <2>1, <2>4, <2>5 DEF Held, Exist
  <2>7. QED
    BY <1>9, <2>2, <2>6
<1>23. ASSUME NEW a \in Admins, NEW k \in Jobs, loc[a].job = k, UpdateRow(a), ~UNCHANGED vars
       PROVE  AllKnown' /\ \A b \in Admins : Held(b)'
  <2>1. Step(a) /\ Return(a) /\ pc[a] = "updateRow" /\ entries' = entries /\ lastId' = lastId
    BY <1>23 DEF Step, UpdateRow, sched
  <2>2. Live(k)
    BY <1>2, <1>23, <2>1 DEF Current, Live
  <2>3. CASE /\ row' = [row EXCEPT ![k].parts = loc[a].parts, ![k].ids = loc[a].ids]
             /\ refused' = refused \ {k}
    <3>1. /\ row'[k].ids = loc[a].ids /\ row'[k].status = row[k].status
          /\ \A j \in Jobs \ {k} : row'[j] = row[j] /\ (j \in refused => j \in refused')
      BY <1>1, <2>3 DEF Row
    <3>2. Held(a) => (Enabled(k)' => Exist(row'[k].ids, k))
      BY <1>23, <2>1, <3>1 DEF Held, Brings, Enabled
    <3>3. QED
      BY <1>17, <1>23, <2>1, <3>1, <3>2
  <2>4. CASE row' = row /\ refused' = refused \cup {k}
    BY <1>17, <1>23, <2>1, <2>4
  <2>5. QED
    BY <1>4, <1>23, <2>2, <2>3, <2>4 DEF UpdateRow
<1>24. ASSUME NEW a \in Admins, NEW k \in Jobs, loc[a].job = k, EnableRegister(a), ~UNCHANGED vars
       PROVE  AllKnown' /\ \A b \in Admins : Held(b)'
  <2>1. Step(a) /\ ~Writes(pc[a]) /\ row' = row /\ refused' = refused
    BY <1>24 DEF Step, EnableRegister, Writes, proc
  <2>2. CASE loc[a].parts = 0
    BY <1>16, <1>24, <2>1, <2>2 DEF EnableRegister, sched
  <2>3. CASE loc[a].parts # 0
    <3>1. PICK n \in Nat \ {0} : n = loc[a].parts
      BY <1>3, <2>3
    <3>2. /\ Register(k, n) /\ pc'[a] = "statusRow"
          /\ loc'[a].job = k /\ loc'[a].ids = FreshIds(n)
      BY <1>1, <1>3, <1>24, <2>3, <3>1 DEF EnableRegister, Goto, Locals
    <3>3. AllKnown' /\ FreshIds(n) # {} /\ FreshIds(n) \subseteq EntriesOf(k)'
      BY <1>15, <1>24, <2>1, <3>2
    <3>4. Held(a)'
      BY <3>2, <3>3 DEF Held, Exist
    <3>5. QED
      BY <1>9, <3>3, <3>4
  <2>4. QED
    BY <2>2, <2>3
<1>25. ASSUME NEW a \in Admins, NEW k \in Jobs, loc[a].job = k, DisableRemove(a), ~UNCHANGED vars
       PROVE  AllKnown' /\ \A b \in Admins : Held(b)'
  <2>1. /\ Step(a) /\ pc[a] = "disableRemove" /\ row' = row /\ refused' = refused
        /\ entries' = Without(loc[a].ids) /\ pc'[a] = "statusRow"
        /\ loc'[a].job = k /\ loc'[a].status = loc[a].status
    BY <1>1, <1>3, <1>25 DEF Step, DisableRemove, Goto, Locals, proc
  <2>2. AllKnown'
    BY <1>18, <1>25, <2>1 DEF Writes
  <2>3. loc'[a].status = "disabled"
    BY <1>2, <2>1 DEF Current
  <2>4. Held(a)'
    BY <2>1, <2>3 DEF Held, Brings
  <2>5. QED
    BY <1>9, <2>2, <2>4
<1>26. ASSUME NEW a \in Admins, NEW k \in Jobs, loc[a].job = k, StatusRow(a), ~UNCHANGED vars
       PROVE  AllKnown' /\ \A b \in Admins : Held(b)'
  <2>1. Step(a) /\ Return(a) /\ pc[a] = "statusRow"
    BY <1>26 DEF Step, StatusRow
  <2>2. Live(k)
    BY <1>2, <1>26, <2>1 DEF Current, Live
  <2>3. /\ entries' = entries /\ lastId' = lastId /\ refused' = refused \ {k}
        /\ row' = [row EXCEPT ![k].status = loc[a].status, ![k].ids = loc[a].ids]
    BY <1>4, <1>26, <2>2 DEF StatusRow
  <2>4. /\ row'[k].ids = loc[a].ids /\ row'[k].status = loc[a].status
        /\ \A j \in Jobs \ {k} : row'[j] = row[j] /\ (j \in refused => j \in refused')
    BY <1>1, <2>3 DEF Row
  <2>5. Held(a) => (Enabled(k)' => Exist(row'[k].ids, k))
    BY <1>26, <2>1, <2>4 DEF Held, Brings, Enabled
  <2>6. QED
    BY <1>17, <1>26, <2>1, <2>3, <2>4, <2>5
<1>27. ASSUME NEW a \in Admins, NEW k \in Jobs, loc[a].job = k, DeleteRemove(a), ~UNCHANGED vars
       PROVE  AllKnown' /\ \A b \in Admins : Held(b)'
  <2>1. /\ Step(a) /\ pc[a] = "deleteRemove" /\ row' = row /\ refused' = refused
        /\ entries' = Without(loc[a].ids) /\ pc'[a] = "deleteClean" /\ loc' = loc
    BY <1>1, <1>27 DEF Step, DeleteRemove, Goto, proc
  <2>2. AllKnown'
    BY <1>18, <1>27, <2>1 DEF Writes
  <2>3. Held(a)'
    BY <1>10, <2>1
  <2>4. QED
    BY <1>9, <2>2, <2>3
<1>28. ASSUME NEW a \in Admins, DeleteClean(a), ~UNCHANGED vars
       PROVE  AllKnown' /\ \A b \in Admins : Held(b)'
  <2>1. /\ Step(a) /\ row' = row /\ entries' = entries /\ refused' = refused
        /\ pc'[a] = "deleteRow" /\ loc' = loc
    BY <1>1, <1>4, <1>28 DEF Step, DeleteClean, Goto, sched, proc
  <2>2. AllKnown /\ \A j \in Jobs, i \in Nat : Owns(j, i) => Owns(j, i)'
    BY <1>8, <1>28, <2>1
  <2>3. AllKnown'
    BY <1>1, <1>12, <2>1, <2>2, KnownStays DEF Writes
  <2>4. Held(a)'
    BY <1>10, <2>1
  <2>5. QED
    BY <1>9, <2>3, <2>4
<1>29. ASSUME NEW a \in Admins, NEW k \in Jobs, loc[a].job = k, DeleteRow(a), ~UNCHANGED vars
       PROVE  AllKnown' /\ \A b \in Admins : Held(b)'
  <2>1. Step(a) /\ Return(a) /\ entries' = entries /\ lastId' = lastId /\ refused' = refused
    BY <1>29 DEF Step, DeleteRow, sched, proc
  <2>2. row' = [row EXCEPT ![k].state = "deleted", ![k].ids = {}]
    BY <1>4, <1>29 DEF DeleteRow
  <2>3. row'[k].state = "deleted" /\ \A j \in Jobs \ {k} : row'[j] = row[j]
    BY <1>1, <2>2 DEF Row
  <2>4. ~Enabled(k)'
    BY <2>3 DEF Enabled, Live
  <2>5. QED
    BY <1>17, <1>29, <2>1, <2>3, <2>4
<1>30. ASSUME NEW a \in Admins, Step(a), ~UNCHANGED vars
       PROVE  AllKnown' /\ \A b \in Admins : Held(b)'
  <2>1. PICK k \in Jobs : loc[a].job = k
    BY <1>3
  <2>2. QED
    BY <1>30, <2>1, <1>19, <1>20, <1>21, <1>22, <1>23, <1>24, <1>25, <1>26, <1>27, <1>28, <1>29
       DEF Step
<1>31. QED
  BY <1>5, <1>6, <1>7, <1>13, <1>30 DEF Next

\* There is nothing at first.
LEMMA SoloInit == Init => IdsUnique /\ SoloInv /\ RebuildInv /\ RecordInv
<1>. SUFFICES ASSUME Init PROVE IdsUnique /\ SoloInv /\ RebuildInv /\ RecordInv
  OBVIOUS
<1>1. /\ \A j \in Jobs : row[j].state = "absent"
      /\ \A a \in Admins : pc[a] = "idle"
      /\ entries = {} /\ phase = "up"
  BY DEF Init
<1>2. IdsUnique /\ RebuildInv
  BY <1>1 DEF IdsUnique, RebuildInv
<1>3. SoloInv
  BY <1>1 DEF SoloInv, Sane, Current
<1>4. RecordInv
  BY <1>1 DEF RecordInv, Enabled, Live, Held, Brings
<1>5. QED
  BY <1>2, <1>3, <1>4

\* With requests one at a time, while no statement of the process has failed, the row of
\* an enabled cronjob whose last write was not refused for a taken name names entries
\* that exist and are its own, so that the next request finds them: after any crashes,
\* whatever failed before the last one, and whatever was refused before that write.
THEOREM RecordedStayLive ==
  ASSUME \A a, b \in Admins : a = b
  PROVE  Spec => []RecordedAreLive
<1>1. RecordInv => RecordedAreLive
  BY DEF RecordInv, RecordedAreLive, AtRest, Enabled, Known, Writes, Exist
<1>2. TypeOK /\ IdsUnique /\ SoloInv /\ RebuildInv /\ RecordInv /\ [Next]_vars
        => IdsUnique' /\ SoloInv' /\ RebuildInv' /\ RecordInv'
  BY UniqueStep, SoloStep, RebuildStep, RecordStep
<1>3. QED
  BY <1>1, <1>2, SoloInit, ScheduleTypeCorrect, PTL DEF Spec

\* With requests one at a time, a restart in which no statement failed ends with exactly
\* the entries of the enabled cronjobs, under the ids their rows then name, whatever
\* failed before the crash and wherever the crash came.
THEOREM RestartStaysExact ==
  ASSUME \A a, b \in Admins : a = b
  PROVE  Spec => RestartIsExact
<1>1. ASSUME TypeOK, RebuildInv, [Next]_vars, phase = "boot", phase' = "up", faults' = 0, NEW j \in Jobs
      PROVE  EntriesOf(j) = IF Live(j) /\ row[j].status = "enabled" THEN row[j].ids ELSE {}
  <2>1. Serve
    <3>1. ~UNCHANGED vars
      BY <1>1 DEF vars, proc, life
    <3>2. ASSUME NEW a \in Admins, Step(a) PROVE phase' = phase
      BY <3>2 DEF Step, CreateRegister, CreateRow, UpdateRegister, UpdateRemove, UpdateRow,
         EnableRegister, DisableRemove, StatusRow, DeleteRemove, DeleteClean, DeleteRow, proc, life
    <3>3. ASSUME NEW a \in Admins, Ask(a) PROVE phase = "up"
      BY <3>3 DEF Ask, Create, Update, UpdateStatus, Delete, NotFound, Request
    <3>4. ~Crash /\ ~Boot /\ \A k \in Jobs : ~RestoreCronjob(k)
      BY <1>1 DEF Crash, Boot, RestoreCronjob
    <3>5. QED
      BY <1>1, <3>1, <3>2, <3>3, <3>4 DEF Next
  <2>2. faults = 0 /\ todo = {}
    BY <1>1, <2>1 DEF Serve
  <2>3. Rebuilt(j)
    BY <1>1, <2>2 DEF RebuildInv
  <2>4. QED
    BY <2>2, <2>3 DEF Rebuilt, Enabled
<1>2. TypeOK /\ RebuildInv /\ [Next]_vars
        => [phase = "boot" /\ phase' = "up" /\ alone /\ faults' = 0 =>
              \A j \in Jobs :
                EntriesOf(j) = IF Live(j) /\ row[j].status = "enabled" THEN row[j].ids ELSE {}]_vars
  BY <1>1
<1>3. TypeOK /\ SoloInv /\ RebuildInv /\ [Next]_vars => SoloInv' /\ RebuildInv'
  BY SoloStep, RebuildStep
<1>4. QED
  BY <1>2, <1>3, SoloInit, ScheduleTypeCorrect, PTL DEF Spec, RestartIsExact
=============================================================================
