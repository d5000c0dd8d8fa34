--------------------------- MODULE RestoreProofs ----------------------------
(***************************************************************************)
(* Proofs about Restore, for any set of restores, kinds of data and bounds *)
(* on failures and crashes: all or nothing, nothing lost to two crashes,   *)
(* and no swap of the rows under a run that left its traces.               *)
(***************************************************************************)
EXTENDS Restore, FiniteSetTheorems, TLAPS

----------------------------------------------------------------------------
\* One restore at a time; none without a process, which leaves no run behind
\* either; files are set aside only while they are being replaced.  A crash leaves
\* one directory of files at most.
Early == {"idle", "reset", "check", "snapshot", "moveOut"}
LifeInv ==
  /\ faults <= MaxFaults
  /\ up \/ crashes # 0
  /\ IsFiniteSet(kept) /\ Cardinality(kept) <= crashes
  /\ lost => faults # 0
  /\ ~up => running = {} /\ ~lost /\ \A r \in Restorers : pc[r] = "idle"
  /\ \A r, q \in Restorers : pc[r] # "idle" /\ pc[q] # "idle" => r = q
  /\ \A r \in Restorers : pc[r] \in Early => backup[r] = Empty

\* Directory d has the files that go with the rows, but for those that a crash left
\* in a directory of an earlier restore.
Has(d) == \A p \in Parts : rows \in {d[p]} \cup {k.dir[p] : k \in kept}

\* Where the files are, by the place a restore has reached.  Before the files are
\* put in place, and after a failure until they are back, they are in its backup
\* directory; a directory that both have an entry of is the one thing that would be
\* in the way of MoveBack.
FilesAt(r) ==
  /\ pc[r] = "moveIn" => Has(backup[r]) /\ (faults = 0 => \A p \in Parts : data[p] = None)
  /\ pc[r] = "commit" => Has(backup[r]) /\ \A p \in Parts : data[p] = r
  /\ pc[r] = "undo" => Has(backup[r]) /\ faults # 0
  /\ pc[r] = "back" =>
       /\ faults # 0
       /\ \A p \in Parts : /\ rows \in {data[p], backup[r][p]} \cup {k.dir[p] : k \in kept}
                           /\ data[p] = None \/ backup[r][p] = None
  /\ pc[r] = "register" => rows = r /\ \A p \in Parts : data[p] = r

\* One thing has gone wrong at most, in this process and in those before it, and
\* there is no third directory that the pruning would make room for.
OneFault == faults <= 1 /\ crashes <= 2 /\ (crashes = 0 \/ MaxFaults <= 1)

FilesInv ==
  OneFault =>
    /\ (\A r \in Restorers : pc[r] \in Early) => Has(data)
    /\ \A r \in Restorers : FilesAt(r)

\* While nothing fails a run has its traces, but for those that were deleted under
\* it; and from ensureIdle to the end of the restore there is no other run than those.
SwapInv ==
  faults = 0 =>
    /\ running \ erased \subseteq pending
    /\ \A r \in Restorers :
         pc[r] \in {"snapshot", "moveOut", "moveIn", "commit", "register"} => running \subseteq erased

----------------------------------------------------------------------------
\* Moves between directories leave directories.
LEMMA MovedType ==
  ASSUME NEW from \in Dir, NEW to \in Dir, NEW ps
  PROVE  Moved(from, to, ps) \in Dir /\ Left(from, to, ps) \in Dir
BY DEF Moved, Left, Dir

\* As do the other changes of the data directory.
LEMMA DirTypes ==
  /\ Empty \in Dir
  /\ \A r \in Restorers : Staged(r) \in Dir
  /\ \A ps : \A d \in Dir : [p \in Parts |-> IF p \in ps THEN None ELSE d[p]] \in Dir
  /\ \A d \in Dir : [d EXCEPT ![LogDir] = IF @ = None THEN "run" ELSE @] \in Dir
BY RestoreAssumption DEF Empty, Staged, Dir, Versions

\* The types are right in every initial state.
LEMMA TypeInit == Init => TypeOK
<1>. SUFFICES ASSUME Init PROVE TypeOK
  OBVIOUS
<1>1. data \in Dir /\ backup \in [Restorers -> Dir] /\ pc \in [Restorers -> Label]
  BY DirTypes DEF Init, Dir, Versions, Label
<1>2. rows \in Versions /\ entries \subseteq Versions
  BY DEF Init, Versions
<1>3. QED
  BY <1>1, <1>2 DEF Init, TypeOK

\* Every step keeps the types right.
LEMMA TypeStep == TypeOK /\ [Next]_vars => TypeOK'
<1>. SUFFICES ASSUME TypeOK, [Next]_vars PROVE TypeOK'
  OBVIOUS
<1>1. /\ rows \in Versions /\ entries \subseteq Versions
      /\ pending \subseteq Kinds \cup {"left"} /\ running \subseteq Kinds /\ erased \subseteq Kinds
      /\ data \in Dir /\ backup \in [Restorers -> Dir]
      /\ kept \subseteq [crash : Nat, dir : Dir] /\ stagings \in Nat /\ lost \in BOOLEAN
      /\ pc \in [Restorers -> Label] /\ up \in BOOLEAN /\ faults \in Nat /\ crashes \in Nat
  BY DEF TypeOK
<1>2. Ok \/ Fails => faults' \in Nat
  BY <1>1 DEF Ok, Fails
<1>3. \A r \in Restorers, l \in Label : Goto(r, l) => pc' \in [Restorers -> Label]
  BY <1>1 DEF Goto
<1>4. /\ Settled \subseteq Kinds \cup {"left"}
      /\ \A S \in PendingInBackup : S \subseteq Kinds \cup {"left"}
  BY <1>1 DEF Settled, PendingInBackup, Kinds
<1>5. \A r \in Restorers, d \in Dir : [backup EXCEPT ![r] = d] \in [Restorers -> Dir]
  BY <1>1
<1>6. ASSUME NEW k \in Kinds, StartRun(k) PROVE TypeOK'
  <2>1. faults' \in Nat
    BY <1>2, <1>6 DEF StartRun
  <2>2. data' \in Dir
    BY <1>1, <1>6, DirTypes DEF StartRun
  <2>3. QED
    BY <1>1, <1>6, <2>1, <2>2 DEF StartRun, TypeOK, leftovers
<1>7. ASSUME NEW k \in Kinds, EndRun(k) \/ Erase(k) PROVE TypeOK'
  BY <1>1, <1>7 DEF EndRun, Erase, TypeOK, files, leftovers
<1>8. CASE Edit
  BY <1>1, <1>8 DEF Edit, TypeOK, runs, files, leftovers
<1>9. ASSUME NEW r \in Restorers, RestoreZip(r) PROVE TypeOK'
  BY <1>1, <1>3, <1>9 DEF RestoreZip, TypeOK, runs, Label
<1>10. ASSUME NEW r \in Restorers, Reset(r) PROVE TypeOK'
  BY <1>1, <1>3, <1>10 DEF Reset, TypeOK, runs, files, leftovers, Label
<1>11. ASSUME NEW r \in Restorers, EnsureIdle(r) PROVE TypeOK'
  <2>1. pc' \in [Restorers -> Label] /\ faults' \in Nat
    BY <1>2, <1>3, <1>11 DEF EnsureIdle, Label
  <2>2. QED
    BY <1>1, <1>11, <2>1 DEF EnsureIdle, TypeOK, runs, files, leftovers
<1>12. ASSUME NEW r \in Restorers, Snapshot(r) PROVE TypeOK'
  <2>1. pc' \in [Restorers -> Label] /\ faults' \in Nat
    BY <1>2, <1>3, <1>12 DEF Snapshot, Label, WithBackup
  <2>2. kept' \subseteq kept
    BY <1>12 DEF Snapshot, Pruned
  <2>3. stagings' \in Nat /\ lost' \in BOOLEAN
    <3>1. stagings' \in StagingsLeft \cup 2..stagings /\ lost' \in {lost, TRUE}
      BY <1>12 DEF Snapshot
    <3>2. StagingsLeft \subseteq Nat /\ 2..stagings \subseteq Nat
      BY <1>1 DEF StagingsLeft
    <3>3. QED
      BY <1>1, <3>1, <3>2
  <2>4. QED
    BY <1>1, <1>12, <2>1, <2>2, <2>3 DEF Snapshot, TypeOK, runs
<1>13. ASSUME NEW r \in Restorers, MoveOut(r) PROVE TypeOK'
  <2>1. pc' \in [Restorers -> Label] /\ faults' \in Nat
    BY <1>2, <1>3, <1>13 DEF MoveOut, Label, WithBackup
  <2>2. data' \in Dir /\ backup' \in [Restorers -> Dir]
    BY <1>1, <1>5, <1>13, DirTypes, MovedType DEF MoveOut
  <2>3. QED
    BY <1>1, <1>13, <2>1, <2>2 DEF MoveOut, TypeOK, runs, leftovers
<1>14. ASSUME NEW r \in Restorers, MoveIn(r) PROVE TypeOK'
  <2>1. pc' \in [Restorers -> Label] /\ faults' \in Nat
    BY <1>2, <1>3, <1>14 DEF MoveIn, Label, WithBackup
  <2>2. data' \in Dir
    BY <1>1, <1>14, DirTypes, MovedType DEF MoveIn
  <2>3. QED
    BY <1>1, <1>14, <2>1, <2>2 DEF MoveIn, TypeOK, runs, leftovers
<1>15. ASSUME NEW r \in Restorers, Commit(r) PROVE TypeOK'
  <2>1. pc' \in [Restorers -> Label] /\ faults' \in Nat
    BY <1>2, <1>3, <1>15 DEF Commit, Label, WithBackup
  <2>2. rows' \in Versions /\ pending' \subseteq Kinds \cup {"left"}
    BY <1>1, <1>4, <1>15 DEF Commit, Versions
  <2>3. QED
    BY <1>1, <1>15, <2>1, <2>2 DEF Commit, TypeOK, files, leftovers
<1>16. ASSUME NEW r \in Restorers, Undo(r) PROVE TypeOK'
  <2>1. pc' \in [Restorers -> Label] /\ faults' \in Nat
    BY <1>2, <1>3, <1>16 DEF Undo, Label, WithBackup
  <2>2. data' \in Dir
    BY <1>1, <1>16, DirTypes DEF Undo
  <2>3. QED
    BY <1>1, <1>16, <2>1, <2>2 DEF Undo, TypeOK, runs, leftovers
<1>17. ASSUME NEW r \in Restorers, MoveBack(r) PROVE TypeOK'
  <2>1. pc' \in [Restorers -> Label] /\ faults' \in Nat
    BY <1>2, <1>3, <1>17 DEF MoveBack, Label, WithBackup
  <2>2. data' \in Dir /\ backup' \in [Restorers -> Dir]
    BY <1>1, <1>5, <1>17, DirTypes, MovedType DEF MoveBack
  <2>3. QED
    BY <1>1, <1>17, <2>1, <2>2 DEF MoveBack, TypeOK, runs, leftovers
<1>18. ASSUME NEW r \in Restorers, Register(r) PROVE TypeOK'
  <2>1. pc' \in [Restorers -> Label] /\ backup' \in [Restorers -> Dir]
    BY <1>3, <1>5, <1>18, DirTypes DEF Register, Label
  <2>2. QED
    BY <1>1, <1>4, <1>18, <2>1 DEF Register, TypeOK, leftovers
<1>19. CASE Crash
  <2>1. /\ backup' \in [Restorers -> Dir] /\ pc' \in [Restorers -> Label]
    BY <1>19, DirTypes DEF Crash, Label
  <2>2. kept' \subseteq [crash : Nat, dir : Dir] /\ stagings' \in Nat /\ lost' \in BOOLEAN
    <3>1. \A r \in Restorers : [crash |-> crashes + 1, dir |-> backup[r]] \in [crash : Nat, dir : Dir]
      BY <1>1
    <3>2. kept' \subseteq [crash : Nat, dir : Dir]
      BY <1>1, <1>19, <3>1 DEF Crash
    <3>3. stagings' = stagings \/ stagings' = stagings + 1
      BY <1>19 DEF Crash
    <3>4. stagings' \in Nat
      BY <1>1, <3>3
    <3>6. lost' \in BOOLEAN
      BY <1>19 DEF Crash
    <3>5. QED
      BY <3>2, <3>4, <3>6
  <2>3. /\ rows' \in Versions /\ entries' \subseteq Versions /\ pending' \subseteq Kinds \cup {"left"}
        /\ running' \subseteq Kinds /\ erased' \subseteq Kinds /\ data' \in Dir /\ up' \in BOOLEAN
        /\ faults' \in Nat
    BY <1>1, <1>19 DEF Crash
  <2>4. crashes' \in Nat
    BY <1>1, <1>19 DEF Crash
  <2>5. QED
    BY <2>1, <2>2, <2>3, <2>4 DEF TypeOK
<1>20. CASE Restart
  <2>1. data' \in Dir
    BY <1>1, <1>20, DirTypes DEF Restart
  <2>2. QED
    BY <1>1, <1>4, <1>20, <2>1 DEF Restart, TypeOK, leftovers
<1>21. CASE UNCHANGED vars
  BY <1>1, <1>21 DEF vars, runs, files, leftovers, TypeOK
<1>22. QED
  BY <1>6, <1>7, <1>8, <1>9, <1>10, <1>11, <1>12, <1>13, <1>14, <1>15, <1>16, <1>17, <1>18,
     <1>19, <1>20, <1>21 DEF Next, Step, ClearRecords, DeleteCronjob, Kinds

\* Rows, files, records and restores keep their types, whatever fails and wherever
\* the process dies.
THEOREM RestoreTypes == Spec => []TypeOK
BY TypeInit, TypeStep, PTL DEF Spec

----------------------------------------------------------------------------
\* At first the server has its own data and no restore.
LEMMA LifeInit == Init => LifeInv
BY RestoreAssumption, FS_EmptySet DEF Init, LifeInv, Early

\* A step of a restore is alone; it ends it or takes it to another place.
LEMMA LifeRestore ==
  ASSUME TypeOK, LifeInv, NEW r \in Restorers, NEW l \in Label, Goto(r, l),
         pc[r] # "idle" \/ ~Restoring, up' = up, up, crashes' = crashes, kept' \subseteq kept,
         Ok \/ Fails, lost' => lost \/ faults' # 0, \A q \in Restorers \ {r} : backup'[q] = backup[q],
         l \in Early => backup'[r] = Empty
  PROVE  LifeInv' /\ (\A q \in Restorers \ {r} : pc[q] = "idle" /\ pc'[q] = "idle") /\ pc'[r] = l
<1>1. pc \in [Restorers -> Label] /\ faults \in Nat /\ MaxFaults \in Nat /\ crashes \in Nat
  BY RestoreAssumption DEF TypeOK
<1>2. faults' <= MaxFaults /\ (lost' => faults' # 0)
  BY <1>1 DEF Ok, Fails, LifeInv
<1>3. pc'[r] = l /\ \A q \in Restorers \ {r} : pc[q] = "idle" /\ pc'[q] = "idle"
  BY <1>1 DEF Goto, LifeInv, Restoring
<1>4. IsFiniteSet(kept') /\ Cardinality(kept') <= crashes'
  <2>1. IsFiniteSet(kept) /\ Cardinality(kept) <= crashes
    BY DEF LifeInv
  <2>2. IsFiniteSet(kept') /\ Cardinality(kept') <= Cardinality(kept)
    BY <2>1, FS_Subset
  <2>3. Cardinality(kept) \in Nat /\ Cardinality(kept') \in Nat
    BY <2>1, <2>2, FS_CardinalityType
  <2>4. QED
    BY <1>1, <2>1, <2>2, <2>3
<1>5. QED
  BY <1>2, <1>3, <1>4 DEF LifeInv, Early

\* Every step keeps restores apart.
LEMMA LifeStep == TypeOK /\ LifeInv /\ [Next]_vars => LifeInv'
<1>. SUFFICES ASSUME TypeOK, LifeInv, [Next]_vars PROVE LifeInv'
  OBVIOUS
<1>1. /\ pc \in [Restorers -> Label] /\ backup \in [Restorers -> Dir]
      /\ faults \in Nat /\ MaxFaults \in Nat /\ crashes \in Nat
  BY RestoreAssumption DEF TypeOK
<1>2. \A r \in Restorers : pc[r] # "idle" => up
  BY DEF LifeInv
<1>3. ASSUME NEW k \in Kinds, StartRun(k) PROVE LifeInv'
  <2>1. faults' <= MaxFaults
    BY <1>1, <1>3 DEF StartRun, Ok, Fails, LifeInv
  <2>2. lost' => faults' # 0
    BY <1>1, <1>3 DEF StartRun, leftovers, Ok, Fails, LifeInv
  <2>3. QED
    BY <1>3, <2>1, <2>2 DEF StartRun, leftovers, LifeInv
<1>4. ASSUME NEW k \in Kinds, EndRun(k) \/ Erase(k) PROVE LifeInv'
  BY <1>4 DEF EndRun, Erase, files, leftovers, LifeInv
<1>5. CASE Edit
  BY <1>5 DEF Edit, runs, files, leftovers, LifeInv
<1>6. ASSUME NEW r \in Restorers, RestoreZip(r) \/ Reset(r) \/ EnsureIdle(r) \/ Snapshot(r) PROVE LifeInv'
  <2>1. PICK l \in Label : Goto(r, l) /\ l \in Early
    BY <1>6 DEF RestoreZip, Reset, EnsureIdle, Snapshot, Label, WithBackup, Early
  <2>2. pc[r] \in Early /\ (pc[r] # "idle" \/ ~Restoring) /\ up
    BY <1>2, <1>6 DEF RestoreZip, Reset, EnsureIdle, Snapshot, Early
  <2>3. up' = up /\ crashes' = crashes /\ kept' \subseteq kept /\ backup' = backup
    BY <1>6 DEF RestoreZip, Reset, EnsureIdle, Snapshot, Pruned, files, leftovers
  <2>4. (Ok \/ Fails) /\ (lost' => lost \/ faults' # 0)
    BY <1>1, <1>6 DEF RestoreZip, Reset, EnsureIdle, Snapshot, files, leftovers, Ok, Fails
  <2>5. backup'[r] = Empty
    BY <2>2, <2>3 DEF LifeInv
  <2>6. QED
    BY <2>1, <2>2, <2>3, <2>4, <2>5, LifeRestore
<1>7. ASSUME NEW r \in Restorers, MoveOut(r) \/ MoveIn(r) \/ Commit(r) \/ Undo(r) PROVE LifeInv'
  <2>1. PICK l \in Label : Goto(r, l) /\ l \notin Early
    BY <1>7 DEF MoveOut, MoveIn, Commit, Undo, Label, WithBackup, Early
  <2>2. pc[r] # "idle" /\ up
    BY <1>2, <1>7 DEF MoveOut, MoveIn, Commit, Undo
  <2>3. up' = up /\ crashes' = crashes /\ kept' = kept /\ lost' = lost /\ (Ok \/ Fails)
    BY <1>7 DEF MoveOut, MoveIn, Commit, Undo, files, leftovers
  <2>4. \A q \in Restorers \ {r} : backup'[q] = backup[q]
    BY <1>1, <1>7 DEF MoveOut, MoveIn, Commit, Undo, files
  <2>5. QED
    BY <2>1, <2>2, <2>3, <2>4, LifeRestore
<1>8. ASSUME NEW r \in Restorers, MoveBack(r) \/ Register(r) PROVE LifeInv'
  <2>1. Goto(r, "idle") /\ pc[r] # "idle" /\ up /\ "idle" \in Label
    BY <1>2, <1>8 DEF MoveBack, Register, Label
  <2>2. up' = up /\ crashes' = crashes /\ kept' = kept /\ lost' = lost /\ (Ok \/ Fails)
    BY <1>8 DEF MoveBack, Register, leftovers, Ok
  <2>3. backup'[r] = Empty /\ \A q \in Restorers \ {r} : backup'[q] = backup[q]
    BY <1>1, <1>8 DEF MoveBack, Register
  <2>4. QED
    BY <2>1, <2>2, <2>3, LifeRestore
<1>9. CASE Crash
  <2>1. PICK k : kept' \subseteq kept \cup {k}
    <3>1. \A r, q \in Restorers : pc[r] \in WithBackup /\ pc[q] \in WithBackup => r = q
      BY DEF LifeInv, WithBackup
    <3>2. QED
      BY <1>9, <3>1 DEF Crash
  <2>2. IsFiniteSet(kept) /\ Cardinality(kept) <= crashes
    BY DEF LifeInv
  <2>3. /\ IsFiniteSet(kept \cup {k})
        /\ Cardinality(kept \cup {k}) = Cardinality(kept) \/ Cardinality(kept \cup {k}) = Cardinality(kept) + 1
    BY <2>2, FS_AddElement
  <2>4. IsFiniteSet(kept') /\ Cardinality(kept') <= Cardinality(kept \cup {k})
    BY <2>1, <2>3, FS_Subset
  <2>5. Cardinality(kept) \in Nat /\ Cardinality(kept \cup {k}) \in Nat /\ Cardinality(kept') \in Nat
    BY <2>2, <2>3, <2>4, FS_CardinalityType
  <2>6. crashes' = crashes + 1 /\ Cardinality(kept') <= crashes'
    BY <1>1, <1>9, <2>2, <2>3, <2>4, <2>5 DEF Crash
  <2>7. QED
    BY <1>1, <1>9, <2>4, <2>6 DEF Crash, LifeInv, Early
<1>10. CASE Restart
  BY <1>1, <1>10 DEF Restart, leftovers, LifeInv
<1>11. CASE UNCHANGED vars
  BY <1>11 DEF vars, runs, files, leftovers, LifeInv
<1>12. QED
  BY <1>3, <1>4, <1>5, <1>6, <1>7, <1>8, <1>9, <1>10, <1>11
     DEF Next, Step, ClearRecords, DeleteCronjob, Kinds

----------------------------------------------------------------------------
\* The files are where they belong at first.
LEMMA FilesInit == Init => FilesInv
BY DEF Init, FilesInv, FilesAt, Has

\* A step that moves no files, at a place where they are in the data directory.
LEMMA FilesStay ==
  ASSUME FilesInv, OneFault, NEW r \in Restorers, \A q \in Restorers \ {r} : pc[q] = "idle" /\ pc'[q] = "idle",
         pc[r] \in Early, pc'[r] \in Early, rows' = rows, data' = data, kept' = kept
  PROVE  FilesInv'
BY DEF FilesInv, FilesAt, Has, Early

\* An entry is moved once: it is there, or here.
LEMMA MovedOnce ==
  ASSUME NEW from \in Dir, NEW ps, NEW p \in Parts
  PROVE  /\ Moved(from, Empty, ps)[p] = from[p] \/ Left(from, Empty, ps)[p] = from[p]
         /\ Moved(from, Empty, ps)[p] = None \/ Left(from, Empty, ps)[p] = None
BY DEF Moved, Left, Empty, Dir

\* Before a failure nothing but the first may have gone wrong.
LEMMA FaultsGrow ==
  ASSUME TypeOK, LifeInv, [Next]_vars, OneFault'
  PROVE  OneFault
<1>1. /\ faults \in Nat /\ faults' \in Nat /\ crashes \in Nat /\ crashes' \in Nat
      /\ MaxFaults \in Nat /\ faults <= MaxFaults
  BY TypeStep, RestoreAssumption DEF TypeOK, LifeInv
<1>2. CASE Restart
  BY <1>1, <1>2 DEF Restart, OneFault, LifeInv
<1>3. CASE Crash
  BY <1>1, <1>3 DEF Crash, OneFault
<1>4. CASE UNCHANGED <<crashes, faults>>
  BY <1>4 DEF OneFault
<1>5. CASE crashes' = crashes /\ (Ok \/ Fails)
  BY <1>1, <1>5 DEF OneFault, Ok, Fails
<1>6. ASSUME NEW r \in Restorers, Step(r) PROVE crashes' = crashes /\ (Ok \/ Fails)
  <2>1. CASE RestoreZip(r) \/ Reset(r) \/ EnsureIdle(r) \/ Snapshot(r)
    BY <2>1 DEF RestoreZip, Reset, EnsureIdle, Snapshot, Ok
  <2>2. CASE MoveOut(r) \/ MoveIn(r) \/ Commit(r) \/ Undo(r)
    BY <2>2 DEF MoveOut, MoveIn, Commit, Undo
  <2>3. CASE MoveBack(r) \/ Register(r)
    BY <2>3 DEF MoveBack, Register, Ok
  <2>4. QED
    BY <1>6, <2>1, <2>2, <2>3 DEF Step
<1>7. ASSUME NEW k \in Kinds, StartRun(k) \/ EndRun(k) \/ Erase(k)
      PROVE  crashes' = crashes /\ (Ok \/ Fails)
  BY <1>7 DEF StartRun, EndRun, Erase, Ok
<1>8. QED
  BY <1>2, <1>3, <1>4, <1>5, <1>6, <1>7 DEF Next, Edit, ClearRecords, DeleteCronjob, Kinds, vars

\* Two directories are never pruned.
LEMMA PrunedKeepsTwo ==
  ASSUME NEW S, IsFiniteSet(S), Cardinality(S) <= 2, NEW K \in Pruned(S)
  PROVE  K = S
<1>1. K \in SUBSET S /\ (K = S \/ Cardinality(K) >= 2)
  BY DEF Pruned
<1>2. IsFiniteSet(K) /\ Cardinality(K) <= Cardinality(S) /\ (Cardinality(K) = Cardinality(S) => K = S)
  BY <1>1, FS_Subset
<1>3. Cardinality(K) \in Nat /\ Cardinality(S) \in Nat
  BY <1>2, FS_CardinalityType
<1>4. QED
  BY <1>1, <1>2, <1>3

\* Every step keeps the files where they belong.
LEMMA FilesStep == TypeOK /\ LifeInv /\ FilesInv /\ [Next]_vars => FilesInv'
<1>. SUFFICES ASSUME TypeOK, LifeInv, FilesInv, [Next]_vars, OneFault', OneFault PROVE FilesInv'
  BY FaultsGrow DEF FilesInv
<1>1. /\ pc \in [Restorers -> Label] /\ backup \in [Restorers -> Dir] /\ data \in Dir
      /\ kept \subseteq [crash : Nat, dir : Dir]
      /\ rows \in Versions /\ faults \in Nat /\ faults' \in Nat
      /\ None \notin Versions /\ LogDir \in Parts
  BY TypeStep, RestoreAssumption DEF TypeOK
<1>2. faults <= 1 /\ faults' <= 1
  BY DEF OneFault
<1>3. Fails => faults = 0 /\ faults' = 1
  BY <1>1, <1>2 DEF Fails
<1>4. LifeInv'
  BY LifeStep
<1>5. ASSUME NEW r \in Restorers, Step(r)
      PROVE  \A q \in Restorers \ {r} : pc[q] = "idle" /\ pc'[q] = "idle"
  <2>1. PICK l : Goto(r, l)
    BY <1>5 DEF Step, RestoreZip, Reset, EnsureIdle, Snapshot, MoveOut, MoveIn, Commit, Undo,
       MoveBack, Register
  <2>2. pc[r] # "idle" \/ ~Restoring
    BY <1>5 DEF Step, RestoreZip, Reset, EnsureIdle, Snapshot, MoveOut, MoveIn, Commit, Undo,
       MoveBack, Register
  <2>3. QED
    BY <1>1, <2>1, <2>2 DEF Goto, LifeInv, Restoring
<1>6. ASSUME NEW r \in Restorers, Step(r), FilesAt(r)', pc'[r] \notin Early PROVE FilesInv'
  BY <1>5, <1>6 DEF FilesInv, FilesAt
<1>7. ASSUME NEW r \in Restorers, Step(r), Has(data)', pc'[r] \in Early PROVE FilesInv'
  BY <1>5, <1>7 DEF FilesInv, FilesAt, Early
<1>8. ASSUME NEW r \in Restorers, Step(r), pc[r] \in Early PROVE Has(data)
  BY <1>5, <1>8 DEF FilesInv, Early
<1>9. ASSUME NEW r \in Restorers PROVE FilesAt(r)
  BY DEF FilesInv
<1>10. ASSUME NEW k \in Kinds, StartRun(k) PROVE FilesInv'
  <2>1. rows' = rows /\ kept' = kept /\ backup' = backup /\ pc' = pc
    BY <1>10 DEF StartRun, leftovers
  <2>2. \A p \in Parts : data'[p] = data[p] \/ data[p] = None
    BY <1>1, <1>10 DEF StartRun, Dir
  <2>3. Has(data) => Has(data)'
    BY <1>1, <2>1, <2>2 DEF Has
  <2>4. ASSUME NEW r \in Restorers PROVE FilesAt(r)'
    <3>1. CASE pc[r] = "idle"
      BY <2>1, <3>1 DEF FilesAt
    <3>2. CASE pc[r] # "idle"
      <4>1. faults = 0 /\ faults' = 1
        BY <1>3, <1>10, <3>2 DEF StartRun, Restoring
      <4>2. Has(backup[r]) => Has(backup[r])'
        BY <2>1 DEF Has
      <4>3. (\A p \in Parts : data[p] = r) => \A p \in Parts : data'[p] = r
        BY <1>1, <2>2 DEF Versions
      <4>4. QED
        BY <1>9, <2>1, <4>1, <4>2, <4>3 DEF FilesAt
    <3>3. QED
      BY <3>1, <3>2
  <2>5. QED
    BY <2>1, <2>3, <2>4 DEF FilesInv
<1>11. ASSUME NEW k \in Kinds, EndRun(k) \/ Erase(k) PROVE FilesInv'
  BY <1>11 DEF EndRun, Erase, files, leftovers, FilesInv, FilesAt, Has
<1>12. CASE Edit
  BY <1>12 DEF Edit, runs, files, leftovers, FilesInv, FilesAt, Has
<1>13. ASSUME NEW r \in Restorers, RestoreZip(r) \/ Reset(r) \/ EnsureIdle(r) \/ Snapshot(r) PROVE FilesInv'
  <2>1. Step(r) /\ pc[r] \in Early /\ rows' = rows /\ data' = data
    BY <1>13 DEF Step, RestoreZip, Reset, EnsureIdle, Snapshot, files, Early
  <2>5. kept' = kept
    <3>1. CASE Snapshot(r)
      <4>1. IsFiniteSet(kept) /\ Cardinality(kept) <= crashes /\ crashes \in Nat /\ crashes <= 2
        BY DEF TypeOK, LifeInv, OneFault
      <4>2. Cardinality(kept) <= 2
        BY <4>1, FS_CardinalityType
      <4>3. QED
        BY <3>1, <4>1, <4>2, PrunedKeepsTwo DEF Snapshot
    <3>2. CASE RestoreZip(r) \/ Reset(r) \/ EnsureIdle(r)
      BY <3>2 DEF RestoreZip, Reset, EnsureIdle, files, leftovers
    <3>3. QED
      BY <1>13, <3>1, <3>2
  <2>2. pc'[r] \in Early
    BY <1>1, <1>13 DEF RestoreZip, Reset, EnsureIdle, Snapshot, Goto, Early
  <2>3. Has(data)'
    BY <1>8, <2>1, <2>5 DEF Has
  <2>4. QED
    BY <1>7, <2>1, <2>2, <2>3
<1>14. ASSUME NEW r \in Restorers, MoveOut(r) PROVE FilesInv'
  <2>1. Step(r) /\ pc[r] = "moveOut" /\ rows' = rows /\ kept' = kept
    BY <1>14 DEF Step, MoveOut, leftovers
  <2>2. Has(data) /\ backup[r] = Empty
    BY <1>8, <2>1 DEF Early, LifeInv
  <2>3. CASE Ok /\ backup' = [backup EXCEPT ![r] = data] /\ data' = Empty /\ Goto(r, "moveIn")
    <3>1. pc'[r] = "moveIn" /\ backup'[r] = data /\ \A p \in Parts : data'[p] = None
      BY <1>1, <2>3 DEF Goto, Empty
    <3>2. FilesAt(r)'
      BY <2>1, <2>2, <3>1 DEF FilesAt, Has
    <3>3. QED
      BY <1>6, <2>1, <3>1, <3>2 DEF Early
  <2>4. ASSUME NEW ps \in SUBSET Parts, Fails, backup' = [backup EXCEPT ![r] = Moved(data, Empty, ps)],
               data' = Left(data, Empty, ps), Goto(r, "back")
        PROVE  FilesInv'
    <3>1. pc'[r] = "back" /\ faults' = 1 /\ backup'[r] = Moved(data, Empty, ps)
      BY <1>1, <1>3, <2>4 DEF Goto
    <3>2. \A p \in Parts : /\ backup'[r][p] = data[p] \/ data'[p] = data[p]
                           /\ backup'[r][p] = None \/ data'[p] = None
      BY <1>1, <2>4, <3>1, MovedOnce
    <3>3. FilesAt(r)'
      BY <2>1, <2>2, <3>1, <3>2 DEF FilesAt, Has
    <3>4. QED
      BY <1>6, <2>1, <3>1, <3>3 DEF Early
  <2>5. QED
    BY <1>14, <2>3, <2>4 DEF MoveOut
<1>15. ASSUME NEW r \in Restorers, MoveIn(r) PROVE FilesInv'
  <2>1. Step(r) /\ pc[r] = "moveIn" /\ rows' = rows /\ kept' = kept /\ backup' = backup
    BY <1>15 DEF Step, MoveIn, leftovers
  <2>2. Has(backup[r]) /\ (faults = 0 => ~lost /\ ~Blocked(data))
    BY <1>9, <2>1 DEF FilesAt, Blocked, LifeInv
  <2>3. CASE data' = Staged(r) /\ Goto(r, "commit")
    <3>1. pc'[r] = "commit" /\ \A p \in Parts : data'[p] = r
      BY <1>1, <2>3 DEF Goto, Staged
    <3>2. FilesAt(r)'
      BY <2>1, <2>2, <3>1 DEF FilesAt, Has
    <3>3. QED
      BY <1>6, <2>1, <3>1, <3>2 DEF Early
  <2>4. CASE (IF lost \/ Blocked(data) THEN Ok ELSE Fails) /\ Goto(r, "undo")
    <3>1. pc'[r] = "undo" /\ faults' # 0
      BY <1>1, <1>3, <2>2, <2>4 DEF Goto, Ok
    <3>2. FilesAt(r)'
      BY <2>1, <2>2, <3>1 DEF FilesAt, Has
    <3>3. QED
      BY <1>6, <2>1, <3>1, <3>2 DEF Early
  <2>5. QED
    BY <1>15, <2>3, <2>4 DEF MoveIn
<1>16. ASSUME NEW r \in Restorers, Commit(r) PROVE FilesInv'
  <2>1. Step(r) /\ pc[r] = "commit" /\ data' = data /\ kept' = kept /\ backup' = backup
    BY <1>16 DEF Step, Commit, files, leftovers
  <2>2. Has(backup[r]) /\ \A p \in Parts : data[p] = r
    BY <1>9, <2>1 DEF FilesAt
  <2>3. CASE rows' = r /\ Goto(r, "register")
    <3>1. pc'[r] = "register"
      BY <1>1, <2>3 DEF Goto
    <3>2. FilesAt(r)'
      BY <2>1, <2>2, <2>3, <3>1 DEF FilesAt
    <3>3. QED
      BY <1>6, <2>1, <3>1, <3>2 DEF Early
  <2>4. CASE Fails /\ Goto(r, "undo") /\ rows' = rows
    <3>1. pc'[r] = "undo" /\ faults' # 0
      BY <1>1, <1>3, <2>4 DEF Goto
    <3>2. FilesAt(r)'
      BY <2>1, <2>2, <2>4, <3>1 DEF FilesAt, Has
    <3>3. QED
      BY <1>6, <2>1, <3>1, <3>2 DEF Early
  <2>5. QED
    BY <1>16, <2>3, <2>4 DEF Commit
<1>17. ASSUME NEW r \in Restorers, Undo(r) PROVE FilesInv'
  <2>1. Step(r) /\ pc[r] = "undo" /\ rows' = rows /\ kept' = kept /\ backup' = backup /\ Goto(r, "back")
    BY <1>17 DEF Step, Undo, leftovers
  <2>2. Has(backup[r]) /\ faults # 0
    BY <1>9, <2>1 DEF FilesAt
  <2>3. data' = Empty /\ faults' = faults
    BY <1>3, <1>17, <2>2 DEF Undo, Ok
  <2>4. pc'[r] = "back" /\ \A p \in Parts : data'[p] = None
    BY <1>1, <2>1, <2>3 DEF Goto, Empty
  <2>5. FilesAt(r)'
    BY <2>1, <2>2, <2>3, <2>4 DEF FilesAt, Has
  <2>6. QED
    BY <1>6, <2>1, <2>4, <2>5 DEF Early
<1>18. ASSUME NEW r \in Restorers, MoveBack(r) PROVE FilesInv'
  <2>1. Step(r) /\ pc[r] = "back" /\ rows' = rows /\ kept' = kept /\ Goto(r, "idle")
    BY <1>18 DEF Step, MoveBack, leftovers
  <2>2. /\ faults # 0
        /\ \A p \in Parts : /\ rows \in {data[p], backup[r][p]} \cup {k.dir[p] : k \in kept}
                            /\ data[p] = None \/ backup[r][p] = None
    BY <1>9, <2>1 DEF FilesAt
  <2>3. data' = Moved(backup[r], data, Parts)
    BY <1>3, <1>18, <2>2 DEF MoveBack
  <2>4. \A p \in Parts : data'[p] = IF backup[r][p] # None /\ data[p] = None THEN backup[r][p] ELSE data[p]
    BY <2>3 DEF Moved
  <2>5. \A p \in Parts : rows \in {data'[p]} \cup {k.dir[p] : k \in kept}
    BY <1>1, <2>2, <2>4
  <2>6. pc'[r] = "idle" /\ Has(data)'
    BY <1>1, <2>1, <2>5 DEF Goto, Has
  <2>7. QED
    BY <1>7, <2>1, <2>6 DEF Early
<1>19. ASSUME NEW r \in Restorers, Register(r) PROVE FilesInv'
  <2>1. Step(r) /\ pc[r] = "register" /\ rows' = rows /\ data' = data /\ Goto(r, "idle")
    BY <1>19 DEF Step, Register
  <2>2. rows = r /\ \A p \in Parts : data[p] = r
    BY <1>9, <2>1 DEF FilesAt
  <2>3. pc'[r] = "idle" /\ Has(data)'
    BY <1>1, <2>1, <2>2 DEF Goto, Has
  <2>4. QED
    BY <1>7, <2>1, <2>3 DEF Early
<1>20. CASE Crash
  <2>1. /\ rows' = rows /\ data' = data /\ kept \subseteq kept'
        /\ \A r \in Restorers : pc'[r] = "idle"
    BY <1>20 DEF Crash
  <2>2. ASSUME NEW p \in Parts PROVE rows \in {data[p]} \cup {k.dir[p] : k \in kept'}
    <3>1. CASE \A r \in Restorers : pc[r] \in Early
      BY <2>1, <3>1 DEF FilesInv, Has
    <3>2. ASSUME NEW r \in Restorers, pc[r] \notin Early
          PROVE  rows \in {data[p]} \cup {k.dir[p] : k \in kept'}
      <4>1. pc[r] \in WithBackup
        BY <1>1, <3>2 DEF Label, Early
      <4>2. [crash |-> crashes + 1, dir |-> backup[r]] \in kept'
        BY <1>20, <4>1 DEF Crash
      <4>3. backup[r][p] \in {k.dir[p] : k \in kept'}
        BY <4>2
      <4>4. rows \in {data[p], backup[r][p]} \cup {k.dir[p] : k \in kept}
        BY <1>9, <3>2, <4>1 DEF FilesAt, Has, WithBackup, Early
      <4>5. QED
        BY <2>1, <4>3, <4>4
    <3>3. QED
      BY <3>1, <3>2
  <2>3. QED
    BY <2>1, <2>2 DEF FilesInv, FilesAt, Has
<1>21. CASE Restart
  <2>1. /\ rows' = rows /\ kept' = kept /\ \A r \in Restorers : pc[r] = "idle" /\ pc'[r] = "idle"
    BY <1>21 DEF Restart, leftovers, LifeInv
  <2>2. \A p \in Parts : data'[p] = data[p] \/ data[p] = None
    BY <1>1, <1>21 DEF Restart, Dir
  <2>3. Has(data)'
    BY <1>1, <2>1, <2>2 DEF FilesInv, Has, Early
  <2>4. QED
    BY <2>1, <2>3 DEF FilesInv, FilesAt
<1>22. CASE UNCHANGED vars
  BY <1>22 DEF vars, runs, files, leftovers, FilesInv, FilesAt, Has
<1>23. QED
  BY <1>10, <1>11, <1>12, <1>13, <1>14, <1>15, <1>16, <1>17, <1>18, <1>19, <1>20, <1>21, <1>22
     DEF Next, Step, ClearRecords, DeleteCronjob, Kinds

\* Restores are apart and the files where they belong: what the next two rest on.
LEMMA FilesInvariant == Spec => [](TypeOK /\ LifeInv /\ FilesInv)
<1>1. TypeOK /\ LifeInv /\ FilesInv /\ [Next]_vars => (TypeOK /\ LifeInv /\ FilesInv)'
  BY TypeStep, LifeStep, FilesStep
<1>2. Init => TypeOK /\ LifeInv /\ FilesInv
  BY TypeInit, LifeInit, FilesInit
<1>3. QED
  BY <1>1, <1>2, PTL DEF Spec

\* README.md:426, all or nothing: whatever one thing goes wrong, the rows and all the
\* files of the data directory are of the same data when no restore is under way.
THEOREM AllOrNothing == Spec => []WholeData
<1>1. TypeOK /\ LifeInv /\ FilesInv => WholeData
  <2>1. SUFFICES ASSUME TypeOK, LifeInv, FilesInv, AtRest, faults <= 1, crashes = 0
                 PROVE  data = [p \in Parts |-> rows]
    BY DEF WholeData
  <2>2. kept = {}
    <3>1. IsFiniteSet(kept) /\ Cardinality(kept) <= 0
      BY <2>1 DEF LifeInv
    <3>2. Cardinality(kept) = 0
      BY <3>1, FS_CardinalityType
    <3>3. QED
      BY <3>1, <3>2, FS_EmptySet
  <2>3. \A p \in Parts : data[p] = rows
    BY <2>1, <2>2 DEF AtRest, Restoring, FilesInv, OneFault, Has, Early
  <2>4. QED
    BY <2>1, <2>3 DEF TypeOK, Dir
<1>2. QED
  BY <1>1, FilesInvariant, PTL

\* With one failure at most in each process, the files that go with the rows are on the
\* disk wherever a restore is cut short, until the third crash: two directories that
\* earlier crashes left are never pruned.
THEOREM NothingIsLost == ASSUME MaxFaults <= 1 PROVE Spec => []NothingLost
<1>1. TypeOK /\ LifeInv /\ FilesInv => NothingLost
  <2>1. SUFFICES ASSUME TypeOK, FilesInv, faults <= 1, crashes <= 2, NEW p \in Parts
                 PROVE  rows \in {data[p]} \cup {k.dir[p] : k \in kept} \cup {backup[r][p] : r \in Restorers}
    BY DEF NothingLost
  <2>2. OneFault /\ pc \in [Restorers -> Label]
    BY <2>1 DEF OneFault, TypeOK
  <2>3. CASE \A r \in Restorers : pc[r] \in Early
    BY <2>1, <2>2, <2>3 DEF FilesInv, Has
  <2>4. ASSUME NEW r \in Restorers, pc[r] \notin Early
        PROVE  rows \in {data[p]} \cup {k.dir[p] : k \in kept} \cup {backup[r][p]}
    BY <2>1, <2>2, <2>4 DEF FilesInv, FilesAt, Has, Label, WithBackup, Early
  <2>5. QED
    BY <2>3, <2>4
<1>2. QED
  BY <1>1, FilesInvariant, PTL

----------------------------------------------------------------------------
\* Nothing runs at first.
LEMMA SwapInit == Init => SwapInv
BY DEF Init, SwapInv

\* No step lets a run that has its traces into the swap.
LEMMA SwapStep == TypeOK /\ LifeInv /\ SwapInv /\ [Next]_vars => SwapInv'
<1>. SUFFICES ASSUME TypeOK, LifeInv, SwapInv, [Next]_vars, faults' = 0 PROVE SwapInv'
  BY DEF SwapInv
<1>1. pc \in [Restorers -> Label] /\ faults \in Nat
  BY DEF TypeOK
<1>2. ~Fails /\ (Ok => faults = 0)
  BY <1>1 DEF Ok, Fails
<1>3. ASSUME NEW r \in Restorers, NEW l, Goto(r, l) PROVE pc'[r] = l /\ \A q \in Restorers \ {r} : pc'[q] = pc[q]
  BY <1>1, <1>3 DEF Goto
<1>4. ASSUME NEW k \in Kinds, StartRun(k) PROVE SwapInv'
  <2>1. /\ faults = 0 /\ ~Restoring /\ running' = running \cup {k} /\ pending' = pending \cup {k}
        /\ erased' = erased /\ pc' = pc
    BY <1>2, <1>4 DEF StartRun
  <2>2. QED
    BY <2>1 DEF SwapInv, Restoring
<1>5. ASSUME NEW k \in Kinds, EndRun(k) \/ Erase(k) PROVE SwapInv'
  <2>1. faults = 0 /\ pc' = pc
    BY <1>5 DEF EndRun, Erase
  <2>2. "left" \notin running
    BY DEF TypeOK, Kinds
  <2>3. CASE EndRun(k)
    BY <2>1, <2>3 DEF EndRun, SwapInv
  <2>4. CASE Erase(k)
    <3>1. running' \ erased' \subseteq pending'
      BY <2>1, <2>2, <2>4 DEF Erase, Traces, SwapInv
    <3>2. QED
      BY <2>1, <2>4, <3>1 DEF Erase, SwapInv
  <2>5. QED
    BY <1>5, <2>3, <2>4
<1>6. CASE Edit
  BY <1>6 DEF Edit, runs, SwapInv
<1>7. ASSUME NEW r \in Restorers, RestoreZip(r) \/ Reset(r) PROVE SwapInv'
  <2>1. PICK l \in {"reset", "check"} : Goto(r, l)
    BY <1>7 DEF RestoreZip, Reset
  <2>2. pc'[r] = l /\ \A q \in Restorers \ {r} : pc'[q] = pc[q]
    BY <1>3, <2>1
  <2>3. runs' = runs /\ faults' = faults
    BY <1>7 DEF RestoreZip, Reset
  <2>4. QED
    BY <2>1, <2>2, <2>3 DEF runs, SwapInv
<1>8. ASSUME NEW r \in Restorers, EnsureIdle(r) PROVE SwapInv'
  <2>1. faults = 0 /\ runs' = runs
    BY <1>2, <1>8 DEF EnsureIdle
  <2>2. Goto(r, "idle") \/ (Goto(r, "snapshot") /\ pending = {})
    BY <1>2, <1>8 DEF EnsureIdle
  <2>3. QED
    BY <1>3, <2>1, <2>2 DEF runs, SwapInv
<1>9. ASSUME NEW r \in Restorers, Snapshot(r) \/ MoveOut(r) \/ MoveIn(r) PROVE SwapInv'
  <2>1. pc[r] \in {"snapshot", "moveOut", "moveIn"} /\ runs' = runs
    BY <1>9 DEF Snapshot, MoveOut, MoveIn
  <2>2. faults = 0 /\ \E l : Goto(r, l)
    BY <1>2, <1>9 DEF Snapshot, MoveOut, MoveIn
  <2>3. QED
    BY <1>3, <2>1, <2>2 DEF runs, SwapInv
<1>10. ASSUME NEW r \in Restorers, Commit(r) PROVE SwapInv'
  <2>1. pc[r] = "commit" /\ faults = 0 /\ running' = running /\ erased' = erased /\ Goto(r, "register")
    BY <1>2, <1>10 DEF Commit
  <2>2. QED
    BY <1>3, <2>1 DEF SwapInv
<1>11. ASSUME NEW r \in Restorers, Undo(r) \/ MoveBack(r) PROVE SwapInv'
  <2>1. PICK l \in {"back", "idle"} : Goto(r, l)
    BY <1>11 DEF Undo, MoveBack
  <2>2. pc'[r] = l /\ \A q \in Restorers \ {r} : pc'[q] = pc[q]
    BY <1>3, <2>1
  <2>3. runs' = runs /\ faults = 0
    BY <1>2, <1>11 DEF Undo, MoveBack
  <2>4. QED
    BY <2>1, <2>2, <2>3 DEF runs, SwapInv
<1>12. ASSUME NEW r \in Restorers, Register(r) PROVE SwapInv'
  <2>1. pc[r] = "register" /\ faults = 0 /\ running' = running /\ erased' = erased /\ Goto(r, "idle")
    BY <1>12 DEF Register
  <2>2. QED
    BY <1>3, <2>1 DEF SwapInv
<1>13. CASE Crash
  BY <1>13 DEF Crash, SwapInv
<1>14. CASE Restart
  BY <1>14 DEF Restart, SwapInv, LifeInv
<1>15. CASE UNCHANGED vars
  BY <1>15 DEF vars, runs, SwapInv
<1>16. QED
  BY <1>4, <1>5, <1>6, <1>7, <1>8, <1>9, <1>10, <1>11, <1>12, <1>13, <1>14, <1>15
     DEF Next, Step, ClearRecords, DeleteCronjob, Kinds

\* service/backup.go:327: while nothing fails and no run begins during it, a restore
\* replaces the rows under no run but those whose record or row was deleted meanwhile.
THEOREM NoSwapUnderRun == Spec => NoSwapUnderRecordedRun
<1>1. TypeOK /\ LifeInv /\ SwapInv /\ [Next]_vars => SwapInv'
  BY SwapStep
<1>2. SwapInv /\ [Next]_vars => [rows' # rows /\ faults = 0 => running \subseteq erased]_vars
  <2>1. SUFFICES ASSUME SwapInv, Next, rows' # rows, faults = 0 PROVE running \subseteq erased
    BY DEF vars
  <2>2. PICK r \in Restorers : Commit(r)
    BY <2>1 DEF Next, StartRun, EndRun, ClearRecords, DeleteCronjob, Erase, Edit, Step, RestoreZip, Reset, EnsureIdle,
       Snapshot, MoveOut, MoveIn, Undo, MoveBack, Register, Crash, Restart
  <2>3. QED
    BY <2>1, <2>2 DEF Commit, SwapInv
<1>3. QED
  BY <1>1, <1>2, SwapInit, FilesInvariant, PTL DEF Spec, NoSwapUnderRecordedRun
=============================================================================
