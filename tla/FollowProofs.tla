---------------------------- MODULE FollowProofs ----------------------------
(***************************************************************************)
(* Proofs about what is followed while it changes: the records of script   *)
(* runs (ScriptRun), what the web page shows of a log that is being        *)
(* written (LogTail), and the paths of a watcher (WatchRoots).             *)
(***************************************************************************)
EXTENDS ScriptRun, LogTail, WatchRoots, FiniteSetTheorems, WellFoundedInduction, TLAPS

----------------------------------------------------------------------------
(* ScriptRun. *)

\* A set of natural numbers has a least one.
LEMMA LeastNumber ==
  ASSUME NEW T \in SUBSET Nat, T # {}
  PROVE  \E n \in T : \A m \in T : n <= m
<1>. DEFINE R == OpToRel(<, Nat)
<1>1. IsWellFoundedOn(R, Nat)
  BY NatLessThanWellFounded
<1>2. \A m, n \in Nat : m < n => <<m, n>> \in R
  BY DEF OpToRel
<1>3. PICK n \in T : \A m \in T : ~(<<m, n>> \in R)
  <2>. HIDE DEF R
  <2>. QED
    BY <1>1, WFMin
<1>4. QED
  <2>. HIDE DEF R
  <2>1. ASSUME NEW m \in T PROVE n <= m
    <3>1. m \in Nat /\ n \in Nat /\ ~(m < n)
      BY <1>2, <1>3
    <3>2. QED
      BY <3>1
  <2>2. QED
    BY <2>1

\* No two records have the same id.
DistinctIds(S) == \A r, s \in S : r.id = s.id => r = s

\* The records that fewer than m others are newer than are no more than m: the oldest
\* of them has all the others after it.
LEMMA NewestAreFew ==
  ASSUME NEW S \in SUBSET ScriptRecord, IsFiniteSet(S), DistinctIds(S), NEW m \in Nat
  PROVE  Cardinality({r \in S : Cardinality({s \in S : s.id > r.id}) < m}) <= m
<1>. DEFINE After(r) == {s \in S : s.id > r.id}
            K == {r \in S : Cardinality(After(r)) < m}
<1>1. IsFiniteSet(K) /\ Cardinality(K) \in Nat
  BY FS_Subset, FS_CardinalityType
<1>. SUFFICES Cardinality(K) <= m
  OBVIOUS
<1>2. CASE K = {}
  <2>. HIDE DEF K
  <2>1. Cardinality(K) = 0
    BY <1>2, FS_EmptySet
  <2>2. QED
    BY <2>1
<1>3. CASE K # {}
  <2>1. \A r \in S : r.id \in Nat
    BY DEF ScriptRecord
  <2>. DEFINE ids == {r.id : r \in K}
  <2>2. PICK n \in ids : \A i \in ids : n <= i
    <3>1. ids \in SUBSET Nat /\ ids # {}
      BY <1>3, <2>1
    <3>2. QED
      <4>. HIDE DEF ids
      <4>. QED
        BY <3>1, LeastNumber
  <2>3. PICK r \in K : r.id = n
    BY <2>2
  <2>4. ASSUME NEW s \in K \ {r} PROVE s \in After(r)
    <3>1. s \in S /\ r \in S /\ s.id # r.id /\ n <= s.id
      BY <2>2, <2>3, <2>4 DEF DistinctIds
    <3>2. QED
      BY <2>1, <2>3, <3>1
  <2>5. IsFiniteSet(After(r)) /\ K \ {r} \subseteq After(r)
    BY <2>4, FS_Subset
  <2>6. /\ Cardinality(K \ {r}) <= Cardinality(After(r)) /\ Cardinality(After(r)) \in Nat
        /\ Cardinality(K \ {r}) = Cardinality(K) - 1
    <3>. HIDE DEF K, After
    <3>1. Cardinality(K \ {r}) = Cardinality(K) - 1
      BY <1>1, FS_RemoveElement
    <3>2. QED
      BY <2>5, <3>1, FS_Subset, FS_CardinalityType
  <2>7. Cardinality(After(r)) < m
    OBVIOUS
  <2>8. QED
    <3>. HIDE DEF K, After
    <3>. QED
      BY <1>1, <2>6, <2>7
<1>4. QED
  BY <1>2, <1>3

\* Records keep their own ids, and the next one is new.
OwnIds ==
  /\ IsFiniteSet(scriptRecs) /\ DistinctIds(scriptRecs)
  /\ \A r \in scriptRecs : r.id <= lastRun

\* A record without a verdict has a run that has yet to give it.
Attended ==
  scriptUp /\ scriptFaults = 0 =>
    \A r \in scriptRecs : r.status \in {"waiting", "running"} =>
      \E g \in goroutines : g.id = r.id /\ g.at \notin {"list", "prune"}

\* What is left when a run that has listed the records has pruned them.
LeftBy(g) == {r \in scriptRecs : r.id \notin g.doomed}

\* As long as there are too many records, some run will still list them, or has listed
\* them as they are but for some that are gone since.
Bounded ==
  scriptFaults = 0 /\ scriptCrashes = 0 =>
    \/ Cardinality(scriptRecs) <= MaxKept
    \/ \E g \in goroutines : g.at # "prune" \/ Cardinality(LeftBy(g)) <= MaxKept

ScriptInv ==
  /\ ScriptTypeOK /\ OwnIds /\ Attended /\ Bounded
  /\ ~scriptUp => scriptCrashes # 0

\* The invariant holds at first.
LEMMA ScriptInvInit == MaxKept \in Nat /\ ScriptInit => ScriptInv
<1>. SUFFICES ASSUME MaxKept \in Nat, ScriptInit PROVE ScriptInv
  OBVIOUS
<1>1. ScriptTypeOK
  BY DEF ScriptInit, ScriptTypeOK
<1>2. IsFiniteSet(scriptRecs) /\ Cardinality(scriptRecs) = 0
  BY FS_EmptySet DEF ScriptInit
<1>3. OwnIds /\ Attended /\ Bounded
  BY <1>2 DEF ScriptInit, OwnIds, DistinctIds, Attended, Bounded
<1>4. QED
  BY <1>1, <1>3 DEF ScriptInit, ScriptInv

\* A goroutine that goes to another place is the same run.
LEMMA GotoSame ==
  ASSUME NEW g \in Goroutine, NEW l \in Stage
  PROVE  /\ [g EXCEPT !.at = l] \in Goroutine
         /\ [g EXCEPT !.at = l].id = g.id /\ [g EXCEPT !.at = l].at = l
BY DEF Goroutine

\* A run that goes on, in a step that may fail, before it lists the records.
GoesOn(g, h) ==
  /\ h \in Goroutine /\ h.id = g.id /\ h.at # "prune" /\ Becomes(g, h)
  /\ scriptFaults' = scriptFaults \/ scriptFaults' = scriptFaults + 1
  /\ UNCHANGED <<library, lastRun, cancelled, scriptUp, scriptCrashes>> /\ cancel' \subseteq Nat

\* Such a run is bound to see to its record and to the number of records.
LEMMA GoesOnKeeps ==
  ASSUME ScriptInv, NEW g \in goroutines, NEW h, GoesOn(g, h), h.at # "list", scriptRecs' = scriptRecs
  PROVE  ScriptInv'
<1>. USE DEF GoesOn, Becomes
<1>1. ScriptTypeOK'
  BY DEF ScriptInv, ScriptTypeOK
<1>2. OwnIds'
  BY DEF ScriptInv, OwnIds
<1>3. h \in goroutines' /\ \A k \in goroutines : k = g \/ k \in goroutines'
  OBVIOUS
<1>4. Bounded'
  BY <1>3 DEF Bounded
<1>5. Attended'
  <2>1. ASSUME NEW r \in scriptRecs, NEW k \in goroutines, k.id = r.id, k.at \notin {"list", "prune"}
        PROVE  \E j \in goroutines' : j.id = r.id /\ j.at \notin {"list", "prune"}
    BY <1>3, <2>1
  <2>2. scriptFaults' = 0 => scriptFaults = 0
    BY DEF ScriptInv, ScriptTypeOK
  <2>3. QED
    BY <2>1, <2>2 DEF ScriptInv, Attended
<1>6. QED
  BY <1>1, <1>2, <1>4, <1>5 DEF ScriptInv

\* A run that ends without a failure leaves no more than others will see to: only one
\* that has listed the records and pruned them does.
LEMMA EndsKeeps ==
  ASSUME MaxKept \in Nat, ScriptInv, NEW g \in goroutines, goroutines' = goroutines \ {g},
         scriptRecs' \subseteq scriptRecs,
         UNCHANGED <<library, lastRun, cancel, cancelled, scriptUp, scriptCrashes>>,
         \/ scriptFaults' = scriptFaults + 1
         \/ scriptFaults' = scriptFaults /\ g.at = "prune" /\ scriptRecs' = LeftBy(g)
  PROVE  ScriptInv'
<1>1. scriptFaults' \in Nat /\ (scriptFaults' = 0 => scriptFaults = 0 /\ g.at = "prune" /\ scriptRecs' = LeftBy(g))
  BY DEF ScriptInv, ScriptTypeOK
<1>2. ScriptTypeOK'
  BY <1>1 DEF ScriptInv, ScriptTypeOK
<1>3. IsFiniteSet(scriptRecs) /\ IsFiniteSet(scriptRecs') /\ Cardinality(scriptRecs') <= Cardinality(scriptRecs)
      /\ Cardinality(scriptRecs) \in Nat /\ Cardinality(scriptRecs') \in Nat
  BY FS_Subset, FS_CardinalityType DEF ScriptInv, OwnIds
<1>4. OwnIds'
  BY <1>3 DEF ScriptInv, OwnIds, DistinctIds
<1>5. Attended'
  BY <1>1 DEF ScriptInv, Attended
<1>6. Bounded'
  <2>. SUFFICES ASSUME scriptFaults' = 0, scriptCrashes' = 0
                PROVE  \/ Cardinality(scriptRecs') <= MaxKept
                       \/ \E k \in goroutines' : k.at # "prune" \/ Cardinality(LeftBy(k)') <= MaxKept
    BY DEF Bounded
  <2>1. scriptFaults = 0 /\ scriptCrashes = 0 /\ g.at = "prune" /\ scriptRecs' = LeftBy(g)
    BY <1>1
  <2>2. CASE Cardinality(scriptRecs) <= MaxKept
    BY <1>3, <2>2
  <2>3. ASSUME NEW k \in goroutines, k # g, k.at # "prune" \/ Cardinality(LeftBy(k)) <= MaxKept
        PROVE  k \in goroutines' /\ (k.at # "prune" \/ Cardinality(LeftBy(k)') <= MaxKept)
    <3>1. LeftBy(k)' \subseteq LeftBy(k) /\ LeftBy(k) \subseteq scriptRecs
      BY DEF LeftBy
    <3>2. IsFiniteSet(LeftBy(k)) /\ Cardinality(LeftBy(k)') <= Cardinality(LeftBy(k))
          /\ Cardinality(LeftBy(k)) \in Nat /\ Cardinality(LeftBy(k)') \in Nat
      BY <1>3, <3>1, FS_Subset, FS_CardinalityType
    <3>3. QED
      BY <2>3, <3>2
  <2>4. CASE Cardinality(LeftBy(g)) <= MaxKept
    BY <2>1, <2>4
  <2>5. QED
    BY <2>1, <2>2, <2>3, <2>4 DEF ScriptInv, Bounded
<1>7. QED
  BY <1>2, <1>4, <1>5, <1>6 DEF ScriptInv

\* A statement that gives a record its status touches no other.
LEMMA WithStatusRecords ==
  ASSUME ScriptInv, NEW i, NEW s \in {"waiting", "running"} \cup Outcome,
         scriptRecs' = WithStatus(i, s), lastRun' = lastRun
  PROVE  /\ scriptRecs' \subseteq ScriptRecord /\ OwnIds'
         /\ \A r \in scriptRecs' : IF r.id = i THEN r.status = s ELSE r \in scriptRecs
<1>. DEFINE f(r) == IF r.id = i THEN [r EXCEPT !.status = s] ELSE r
<1>1. ASSUME NEW r \in scriptRecs
      PROVE  f(r) \in ScriptRecord /\ f(r).id = r.id /\ (IF r.id = i THEN f(r).status = s ELSE f(r) = r)
  BY DEF ScriptInv, ScriptTypeOK, ScriptRecord
<1>2. scriptRecs' = {f(r) : r \in scriptRecs}
  BY DEF WithStatus
<1>. HIDE DEF f
<1>3. IsFiniteSet(scriptRecs')
  <2>. DEFINE F == [r \in scriptRecs |-> f(r)]
  <2>1. F \in Surjection(scriptRecs, scriptRecs')
    BY <1>2 DEF Surjection
  <2>2. QED
    BY <2>1, FS_Surjection DEF ScriptInv, OwnIds
<1>4. OwnIds'
  BY <1>1, <1>2, <1>3 DEF ScriptInv, OwnIds, DistinctIds
<1>5. QED
  BY <1>1, <1>2, <1>4

\* Before its verdict, a run keeps the invariant.
LEMMA EarlyStepsKeep ==
  ASSUME ScriptInv, NEW g \in goroutines,
         \/ OpenLog(g) /\ scriptFaults' = scriptFaults
         \/ RegisterCancel(g) \/ Start(g) \/ Exit(g) \/ Killed(g) \/ UnregisterCancel(g)
  PROVE  ScriptInv'
<1>. USE DEF CallOk, CallFails, env
<1>1. g \in Goroutine /\ cancel \subseteq Nat /\ g.id \in Nat
  BY DEF ScriptInv, ScriptTypeOK, Goroutine
<1>2. /\ UNCHANGED <<library, lastRun, cancelled, scriptUp, scriptCrashes, scriptRecs>>
      /\ cancel' = cancel \/ cancel' = cancel \cup {g.id} \/ cancel' = cancel \ {g.id}
  BY DEF OpenLog, RegisterCancel, Start, Exit, Killed, UnregisterCancel
<1>3. scriptFaults' = scriptFaults \/ scriptFaults' = scriptFaults + 1
  BY DEF OpenLog, RegisterCancel, Start, Exit, Killed, UnregisterCancel
<1>4. ASSUME NEW l \in {"running", "start", "wait", "verdict"}, Becomes(g, [g EXCEPT !.at = l]) PROVE ScriptInv'
  <2>. DEFINE h == [g EXCEPT !.at = l]
  <2>. l \in Stage
    BY DEF Stage
  <2>1. h \in Goroutine /\ h.id = g.id /\ h.at = l
    BY <1>1, GotoSame, Zenon
  <2>2. GoesOn(g, h)
    BY <1>1, <1>2, <1>3, <1>4, <2>1 DEF GoesOn
  <2>3. QED
    <3>. HIDE DEF h
    <3>. QED
      BY <1>2, <2>1, <2>2, GoesOnKeeps
<1>5. ASSUME NEW l \in Stage, NEW o \in Outcome
      PROVE  /\ [g EXCEPT !.at = l, !.outcome = o] \in Goroutine
             /\ [g EXCEPT !.at = l, !.outcome = o].id = g.id
             /\ [g EXCEPT !.at = l, !.outcome = o].at = l
  BY <1>1 DEF Goroutine
<1>6. ASSUME NEW l \in {"verdict", "unregister"}, NEW o \in Outcome,
             Becomes(g, [g EXCEPT !.at = l, !.outcome = o])
      PROVE  ScriptInv'
  <2>. DEFINE h == [g EXCEPT !.at = l, !.outcome = o]
  <2>. l \in Stage
    BY DEF Stage
  <2>1. h \in Goroutine /\ h.id = g.id /\ h.at = l
    BY <1>5, Zenon
  <2>2. GoesOn(g, h)
    BY <1>1, <1>2, <1>3, <1>6, <2>1 DEF GoesOn
  <2>3. QED
    <3>. HIDE DEF h
    <3>. QED
      BY <1>2, <2>1, <2>2, GoesOnKeeps
<1>7. "failed" \in Outcome
  BY DEF Outcome
<1>8. CASE OpenLog(g) /\ scriptFaults' = scriptFaults
  <2>1. Becomes(g, [g EXCEPT !.at = "running"])
    <3>1. scriptFaults' # scriptFaults + 1
      BY <1>8 DEF ScriptInv, ScriptTypeOK
    <3>2. QED
      BY <1>8, <3>1 DEF OpenLog, MovesTo
  <2>2. QED
    BY <1>4, <2>1
<1>9. CASE RegisterCancel(g)
  BY <1>4, <1>6, <1>7, <1>9 DEF RegisterCancel, MovesTo
<1>10. CASE Start(g)
  BY <1>4, <1>6, <1>7, <1>10 DEF Start, MovesTo
<1>11. CASE Exit(g)
  BY <1>6, <1>11 DEF Exit
<1>12. CASE Killed(g)
  BY <1>6, <1>7, <1>12 DEF Killed
<1>13. CASE UnregisterCancel(g)
  BY <1>4, <1>13 DEF UnregisterCancel, MovesTo
<1>14. QED
  BY <1>8, <1>9, <1>10, <1>11, <1>12, <1>13

\* The update that marks a record running keeps the invariant, ...
LEMMA MarkRunningKeeps ==
  ASSUME ScriptInv, NEW g \in goroutines, MarkRunning(g)
  PROVE  ScriptInv'
<1>. USE DEF CallOk, CallFails, env
<1>. DEFINE h == [g EXCEPT !.at = "register"]
<1>1. g \in Goroutine /\ "register" \in Stage
  BY DEF ScriptInv, ScriptTypeOK, Stage
<1>2. h \in Goroutine /\ h.id = g.id /\ h.at = "register"
  BY <1>1, GotoSame, Zenon
<1>3. GoesOn(g, h) /\ g.at = "running"
  <2>1. /\ UNCHANGED <<library, lastRun, cancel, cancelled, scriptUp, scriptCrashes>>
        /\ scriptFaults' = scriptFaults \/ scriptFaults' = scriptFaults + 1
        /\ Becomes(g, h) /\ g.at = "running"
    BY DEF MarkRunning, MovesTo, At
  <2>2. cancel' \subseteq Nat
    BY <2>1 DEF ScriptInv, ScriptTypeOK
  <2>3. QED
    <3>. HIDE DEF h
    <3>. QED
      BY <1>2, <2>1, <2>2 DEF GoesOn
<1>. HIDE DEF h
<1>4. CASE scriptRecs' = scriptRecs
  BY <1>2, <1>3, <1>4, GoesOnKeeps
<1>5. CASE scriptRecs' = WithStatus(g.id, "running")
  <2>1. /\ scriptRecs' \subseteq ScriptRecord /\ OwnIds'
        /\ \A r \in scriptRecs' : r.id = g.id \/ r \in scriptRecs
    BY <1>3, <1>5, WithStatusRecords DEF GoesOn
  <2>2. ScriptTypeOK'
    BY <1>3, <2>1 DEF GoesOn, Becomes, ScriptInv, ScriptTypeOK
  <2>3. h \in goroutines' /\ \A k \in goroutines : k = g \/ k \in goroutines'
    BY <1>3 DEF GoesOn, Becomes
  <2>4. Bounded'
    BY <1>2, <2>3 DEF Bounded
  <2>5. Attended'
    <3>. SUFFICES ASSUME scriptUp', scriptFaults' = 0, NEW r \in scriptRecs', r.status \in {"waiting", "running"}
                  PROVE  \E k \in goroutines' : k.id = r.id /\ k.at \notin {"list", "prune"}
      BY DEF Attended
    <3>1. CASE r.id = g.id
      BY <1>2, <2>3, <3>1
    <3>2. CASE r.id # g.id
      <4>1. scriptUp /\ scriptFaults = 0 /\ r \in scriptRecs
        BY <1>3, <2>1, <3>2 DEF GoesOn, ScriptInv, ScriptTypeOK
      <4>2. PICK k \in goroutines : k.id = r.id /\ k.at \notin {"list", "prune"}
        BY <4>1 DEF ScriptInv, Attended
      <4>3. QED
        BY <2>3, <3>2, <4>2
    <3>3. QED
      BY <3>1, <3>2
  <2>6. QED
    BY <1>3, <2>1, <2>2, <2>4, <2>5 DEF ScriptInv, GoesOn
<1>6. QED
  BY <1>4, <1>5 DEF MarkRunning

\* ... and so does the verdict: the record it is about is settled, the others have
\* other runs.
LEMMA VerdictKeeps ==
  ASSUME ScriptInv, NEW g \in goroutines, Verdict(g)
  PROVE  ScriptInv'
<1>. USE DEF CallOk, CallFails, env
<1>. DEFINE h == [g EXCEPT !.at = "list"]
<1>1. g \in Goroutine /\ "list" \in Stage /\ g.outcome \in Outcome
  BY DEF ScriptInv, ScriptTypeOK, Stage, Goroutine
<1>2. h \in Goroutine /\ h.id = g.id /\ h.at = "list"
  BY <1>1, GotoSame, Zenon
<1>3. GoesOn(g, h)
  <2>1. /\ UNCHANGED <<library, lastRun, cancel, cancelled, scriptUp, scriptCrashes>>
        /\ scriptFaults' = scriptFaults \/ scriptFaults' = scriptFaults + 1
        /\ Becomes(g, h)
    BY DEF Verdict, MovesTo
  <2>2. cancel' \subseteq Nat
    BY <2>1 DEF ScriptInv, ScriptTypeOK
  <2>3. QED
    <3>. HIDE DEF h
    <3>. QED
      BY <1>2, <2>1, <2>2 DEF GoesOn
<1>. HIDE DEF h
<1>4. /\ scriptRecs' \subseteq ScriptRecord /\ OwnIds'
      /\ \/ scriptFaults' = scriptFaults /\ scriptRecs' = WithStatus(g.id, g.outcome)
         \/ scriptFaults' = scriptFaults + 1
  <2>1. CASE scriptFaults' = scriptFaults /\ scriptRecs' = WithStatus(g.id, g.outcome)
    BY <1>1, <1>3, <2>1, WithStatusRecords DEF GoesOn
  <2>2. CASE scriptFaults' = scriptFaults + 1 /\ scriptRecs' = scriptRecs
    BY <1>3, <2>2 DEF GoesOn, ScriptInv, ScriptTypeOK, OwnIds
  <2>3. QED
    BY <2>1, <2>2 DEF Verdict
<1>5. ScriptTypeOK'
  BY <1>3, <1>4 DEF GoesOn, Becomes, ScriptInv, ScriptTypeOK
<1>6. h \in goroutines' /\ \A k \in goroutines : k = g \/ k \in goroutines'
  BY <1>3 DEF GoesOn, Becomes
<1>7. Bounded'
  BY <1>2, <1>6 DEF Bounded
<1>8. Attended'
  <2>. SUFFICES ASSUME scriptUp', scriptFaults' = 0, NEW r \in scriptRecs', r.status \in {"waiting", "running"}
                PROVE  \E k \in goroutines' : k.id = r.id /\ k.at \notin {"list", "prune"}
    BY DEF Attended
  <2>1. scriptUp /\ scriptFaults = 0 /\ scriptRecs' = WithStatus(g.id, g.outcome)
    BY <1>3, <1>4 DEF GoesOn, ScriptInv, ScriptTypeOK
  <2>2. IF r.id = g.id THEN r.status = g.outcome ELSE r \in scriptRecs
    BY <1>1, <1>3, <2>1, WithStatusRecords DEF GoesOn
  <2>3. r.id # g.id /\ r \in scriptRecs
    BY <1>1, <2>2 DEF Outcome
  <2>4. PICK k \in goroutines : k.id = r.id /\ k.at \notin {"list", "prune"}
    BY <2>1, <2>3 DEF ScriptInv, Attended
  <2>5. QED
    BY <1>6, <2>3, <2>4
<1>9. QED
  BY <1>3, <1>4, <1>5, <1>7, <1>8 DEF ScriptInv, GoesOn

\* A run that has listed the records will leave no more than MaxKept of them.
LEMMA ListKeeps ==
  ASSUME MaxKept \in Nat, ScriptInv, NEW g \in goroutines, ListRecords(g), scriptFaults' = scriptFaults
  PROVE  ScriptInv'
<1>. USE DEF CallOk, CallFails, env
<1>. DEFINE d == {r.id : r \in TooMany}
            h == [g EXCEPT !.at = "prune", !.doomed = d]
<1>1. g \in Goroutine /\ scriptRecs \subseteq ScriptRecord /\ scriptFaults \in Nat
  BY DEF ScriptInv, ScriptTypeOK
<1>2. d \in SUBSET Nat
  BY <1>1 DEF TooMany, ScriptRecord
<1>3. /\ h \in Goroutine /\ h.id = g.id /\ h.at = "prune" /\ h.doomed = d
  <2>. HIDE DEF d
  <2>. QED
    BY <1>1, <1>2 DEF Goroutine, Stage
<1>4. /\ goroutines' = (goroutines \ {g}) \cup {h} /\ g.at = "list"
      /\ UNCHANGED <<library, scriptRecs, lastRun, cancel, cancelled, scriptUp, scriptCrashes>>
  <2>1. scriptFaults' # scriptFaults + 1
    BY <1>1
  <2>2. QED
    BY <2>1 DEF ListRecords, Becomes, At
<1>5. {r \in scriptRecs : r.id \notin d} = {r \in scriptRecs : Cardinality(Newer(r)) < MaxKept}
  <2>1. ASSUME NEW r \in scriptRecs PROVE r.id \in d <=> r \in TooMany
    BY <2>1 DEF TooMany, ScriptInv, OwnIds, DistinctIds
  <2>2. ASSUME NEW r \in scriptRecs PROVE r \in TooMany <=> ~(Cardinality(Newer(r)) < MaxKept)
    <3>1. IsFiniteSet(Newer(r)) /\ Cardinality(Newer(r)) \in Nat
      BY FS_Subset, FS_CardinalityType DEF Newer, ScriptInv, OwnIds
    <3>2. QED
      BY <3>1 DEF TooMany
  <2>3. QED
    <3>. HIDE DEF d
    <3>. QED
      BY <2>1, <2>2
<1>. HIDE DEF h
<1>6. Cardinality(LeftBy(h)) <= MaxKept
  <2>1. LeftBy(h) = {r \in scriptRecs : Cardinality({s \in scriptRecs : s.id > r.id}) < MaxKept}
    <3>. HIDE DEF d
    <3>. QED
      BY <1>3, <1>5 DEF LeftBy, Newer
  <2>2. QED
    BY <1>1, <2>1, NewestAreFew DEF ScriptInv, OwnIds
<1>7. ScriptTypeOK'
  BY <1>1, <1>3, <1>4 DEF ScriptInv, ScriptTypeOK
<1>8. PICK k : k = h
  OBVIOUS
<1>9. OwnIds' /\ LeftBy(k)' = LeftBy(k)
  BY <1>4 DEF ScriptInv, OwnIds, LeftBy
<1>10. Bounded'
  <2>1. k \in goroutines' /\ Cardinality(LeftBy(k)') <= MaxKept
    BY <1>4, <1>6, <1>8, <1>9
  <2>2. QED
    BY <2>1 DEF Bounded
<1>11. Attended'
  BY <1>4 DEF ScriptInv, Attended
<1>12. QED
  BY <1>4, <1>7, <1>9, <1>10, <1>11 DEF ScriptInv

\* The steps of a run, all of them, keep the invariant.
LEMMA StepsKeep ==
  ASSUME MaxKept \in Nat, ScriptInv, NEW g \in goroutines, RunStep(g) \/ Exit(g)
  PROVE  ScriptInv'
<1>. USE DEF CallOk, CallFails, env
<1>1. CASE OpenLog(g)
  <2>1. CASE goroutines' = goroutines \ {g} /\ scriptFaults' = scriptFaults + 1
    BY <1>1, <2>1, EndsKeeps DEF OpenLog
  <2>2. QED
    BY <1>1, <2>1, EarlyStepsKeep DEF OpenLog
<1>2. CASE ListRecords(g)
  <2>1. CASE goroutines' = goroutines \ {g} /\ scriptFaults' = scriptFaults + 1
    BY <1>2, <2>1, EndsKeeps DEF ListRecords
  <2>2. QED
    BY <1>2, <2>1, ListKeeps DEF ListRecords
<1>3. CASE Prune(g)
  <2>1. scriptRecs' \subseteq scriptRecs
    BY <1>3 DEF Prune
  <2>2. QED
    BY <1>3, <2>1, EndsKeeps DEF Prune, At, LeftBy
<1>4. QED
  BY <1>1, <1>2, <1>3, EarlyStepsKeep, MarkRunningKeeps, VerdictKeeps DEF RunStep

\* A run that is asked for has its record and a goroutine that will see to it.
LEMMA RunKeepsInv ==
  ASSUME ScriptInv, NEW s \in Scripts, Run(s)
  PROVE  ScriptInv'
<1>. USE DEF CallOk, CallFails, env
<1>. DEFINE r == [id |-> lastRun + 1, script |-> s, status |-> "waiting"]
            g == [id |-> lastRun + 1, script |-> s, at |-> "log", outcome |-> "success", doomed |-> {}]
<1>1. /\ scriptFaults \in Nat /\ lastRun \in Nat /\ lastRun' = lastRun + 1
      /\ UNCHANGED <<library, cancel, cancelled, scriptUp, scriptCrashes>>
  BY DEF Run, ScriptInv, ScriptTypeOK
<1>2. CASE scriptFaults' = scriptFaults + 1 /\ UNCHANGED <<scriptRecs, goroutines>>
  <2>1. ScriptTypeOK'
    BY <1>1, <1>2 DEF ScriptInv, ScriptTypeOK
  <2>2. \A q \in scriptRecs : q.id \in Nat /\ q.id <= lastRun
    BY DEF ScriptInv, ScriptTypeOK, OwnIds, ScriptRecord
  <2>3. OwnIds'
    BY <1>1, <1>2, <2>2 DEF ScriptInv, OwnIds
  <2>4. Attended' /\ Bounded'
    BY <1>1, <1>2 DEF Attended, Bounded
  <2>5. QED
    BY <1>1, <2>1, <2>3, <2>4 DEF ScriptInv
<1>3. CASE /\ scriptFaults' = scriptFaults /\ scriptRecs' = scriptRecs \cup {r}
           /\ goroutines' = goroutines \cup {g}
  <2>1. /\ r \in ScriptRecord /\ r.id = lastRun + 1
        /\ g \in Goroutine /\ g.id = lastRun + 1 /\ g.at = "log"
    BY <1>1 DEF ScriptRecord, Goroutine, Stage, Outcome
  <2>. HIDE DEF r, g
  <2>2. ScriptTypeOK'
    BY <1>1, <1>3, <2>1 DEF ScriptInv, ScriptTypeOK
  <2>3. \A q \in scriptRecs : q.id \in Nat /\ q.id <= lastRun
    BY DEF ScriptInv, ScriptTypeOK, OwnIds, ScriptRecord
  <2>4. IsFiniteSet(scriptRecs')
    BY <1>3, FS_AddElement DEF ScriptInv, OwnIds
  <2>5. OwnIds'
    BY <1>1, <1>3, <2>1, <2>3, <2>4 DEF ScriptInv, OwnIds, DistinctIds
  <2>6. Bounded'
    BY <1>3, <2>1 DEF Bounded
  <2>7. Attended'
    BY <1>1, <1>3, <2>1 DEF ScriptInv, Attended
  <2>8. QED
    BY <1>1, <2>2, <2>5, <2>6, <2>7 DEF ScriptInv
<1>4. QED
  BY <1>2, <1>3 DEF Run

\* Records that are cleared or deleted are missed by nobody.
LEMMA RemovalKeeps ==
  ASSUME MaxKept \in Nat, ScriptInv, NEW s \in Scripts, ClearScriptRecords(s) \/ Delete(s)
  PROVE  ScriptInv'
<1>1. /\ scriptRecs' \subseteq scriptRecs /\ library' \subseteq library
      /\ UNCHANGED <<lastRun, goroutines, cancel, cancelled, scriptUp, scriptCrashes>>
      /\ scriptFaults' = scriptFaults \/ scriptFaults' = scriptFaults + 1
  BY DEF ClearScriptRecords, Delete, env, CallOk, CallFails
<1>2. ScriptTypeOK'
  BY <1>1 DEF ScriptInv, ScriptTypeOK
<1>3. scriptFaults' = 0 => scriptFaults = 0
  BY <1>1 DEF ScriptInv, ScriptTypeOK
<1>4. IsFiniteSet(scriptRecs) /\ OwnIds'
  BY <1>1, FS_Subset DEF ScriptInv, OwnIds, DistinctIds
<1>5. Attended'
  BY <1>1, <1>3 DEF ScriptInv, Attended
<1>6. ASSUME NEW S, NEW T, IsFiniteSet(S), T \subseteq S, Cardinality(S) <= MaxKept
      PROVE  Cardinality(T) <= MaxKept
  <2>1. Cardinality(T) <= Cardinality(S) /\ Cardinality(T) \in Nat /\ Cardinality(S) \in Nat
    BY <1>6, FS_Subset, FS_CardinalityType
  <2>2. QED
    BY <1>6, <2>1
<1>7. Bounded'
  <2>1. \A g \in goroutines : LeftBy(g)' \subseteq LeftBy(g) /\ IsFiniteSet(LeftBy(g))
    BY <1>1, <1>4, FS_Subset DEF LeftBy
  <2>2. QED
    BY <1>1, <1>3, <1>4, <1>6, <2>1 DEF ScriptInv, Bounded
<1>8. QED
  BY <1>1, <1>2, <1>4, <1>5, <1>7 DEF ScriptInv

\* A restart settles the records that no run is left for.
LEMMA RestoreRecordsKeeps ==
  ASSUME ScriptInv, RestoreScriptRecords
  PROVE  ScriptInv'
<1>1. /\ ~scriptUp /\ scriptCrashes' = scriptCrashes /\ scriptCrashes # 0 /\ scriptUp' = TRUE
      /\ UNCHANGED <<library, lastRun, goroutines, cancel, cancelled>>
  BY DEF RestoreScriptRecords, ScriptInv
<1>2. Bounded'
  BY <1>1 DEF Bounded
<1>3. CASE scriptFaults' = 1 /\ scriptRecs' = scriptRecs
  <2>1. ScriptTypeOK' /\ OwnIds'
    BY <1>1, <1>3 DEF ScriptInv, ScriptTypeOK, OwnIds
  <2>2. Attended'
    BY <1>3 DEF Attended
  <2>3. QED
    BY <1>1, <1>2, <2>1, <2>2 DEF ScriptInv
<1>4. CASE /\ scriptFaults' = 0
           /\ scriptRecs' = (scriptRecs \ Unsettled) \cup {[r EXCEPT !.status = "failed"] : r \in Unsettled}
  <2>. DEFINE f(r) == IF r.status \in {"waiting", "running"} THEN [r EXCEPT !.status = "failed"] ELSE r
  <2>1. ASSUME NEW r \in scriptRecs
        PROVE  f(r) \in ScriptRecord /\ f(r).id = r.id /\ f(r).status \notin {"waiting", "running"}
    BY DEF ScriptInv, ScriptTypeOK, ScriptRecord, Outcome
  <2>2. scriptRecs' = {f(r) : r \in scriptRecs}
    BY <1>4, Zenon DEF Unsettled
  <2>. HIDE DEF f
  <2>3. IsFiniteSet(scriptRecs')
    <3>. DEFINE F == [r \in scriptRecs |-> f(r)]
    <3>1. F \in Surjection(scriptRecs, scriptRecs')
      BY <2>2 DEF Surjection
    <3>2. QED
      BY <3>1, FS_Surjection DEF ScriptInv, OwnIds
  <2>4. OwnIds'
    BY <1>1, <2>1, <2>2, <2>3 DEF ScriptInv, OwnIds, DistinctIds
  <2>5. ScriptTypeOK'
    BY <1>1, <1>4, <2>1, <2>2 DEF ScriptInv, ScriptTypeOK
  <2>6. Attended'
    BY <2>1, <2>2 DEF Attended
  <2>7. QED
    BY <1>1, <1>2, <2>4, <2>5, <2>6 DEF ScriptInv
<1>5. QED
  BY <1>3, <1>4 DEF RestoreScriptRecords

\* Every step keeps the invariant.
LEMMA ScriptInvStep ==
  ASSUME MaxKept \in Nat, ScriptInv, [ScriptNext]_scriptVars
  PROVE  ScriptInv'
<1>1. ASSUME NEW i \in cancel, StopRun(i) PROVE ScriptInv'
  <2>1. /\ UNCHANGED <<library, scriptRecs, lastRun, goroutines, cancel, scriptUp, scriptCrashes, scriptFaults>>
        /\ cancelled' = cancelled \cup {i}
    BY <1>1 DEF StopRun, env
  <2>2. ScriptTypeOK'
    BY <2>1 DEF ScriptInv, ScriptTypeOK
  <2>3. OwnIds' /\ Attended' /\ Bounded'
    BY <2>1 DEF ScriptInv, OwnIds, Attended, Bounded, LeftBy
  <2>4. QED
    BY <2>1, <2>2, <2>3 DEF ScriptInv
<1>2. CASE ScriptCrash
  <2>1. /\ scriptUp' = FALSE /\ scriptCrashes' = scriptCrashes + 1 /\ goroutines' = {} /\ cancel' = {} /\ cancelled' = {}
        /\ UNCHANGED <<library, scriptRecs, lastRun, scriptFaults>>
    BY <1>2 DEF ScriptCrash
  <2>2. scriptCrashes' \in Nat /\ scriptCrashes' # 0
    BY <2>1 DEF ScriptInv, ScriptTypeOK
  <2>3. ScriptTypeOK'
    BY <2>1, <2>2 DEF ScriptInv, ScriptTypeOK
  <2>4. OwnIds' /\ Attended' /\ Bounded'
    BY <2>1, <2>2 DEF ScriptInv, OwnIds, Attended, Bounded
  <2>5. QED
    BY <2>2, <2>3, <2>4 DEF ScriptInv
<1>3. CASE UNCHANGED scriptVars
  <2>1. UNCHANGED <<library, scriptRecs, lastRun, goroutines, cancel, cancelled, scriptUp, scriptCrashes, scriptFaults>>
    BY <1>3 DEF scriptVars
  <2>2. QED
    BY <2>1 DEF ScriptInv, ScriptTypeOK, OwnIds, Attended, Bounded, LeftBy
<1>4. QED
  BY <1>1, <1>2, <1>3, StepsKeep, RunKeepsInv, RemovalKeeps, RestoreRecordsKeeps DEF ScriptNext

\* Script runs: every variable has its type, for any bounds.
THEOREM ScriptTypes ==
  ASSUME MaxKept \in Nat
  PROVE  ScriptSpec => []ScriptTypeOK
<1>1. ScriptInv => ScriptTypeOK
  BY DEF ScriptInv
<1>2. QED
  BY <1>1, ScriptInvInit, ScriptInvStep, PTL DEF ScriptSpec

\* Script runs: a record that waits or runs has a run that will give it its verdict,
\* in the process that began it and after a restart.
THEOREM ScriptPendingStaysRun ==
  ASSUME MaxKept \in Nat
  PROVE  ScriptSpec => []ScriptPendingIsRun
<1>1. ScriptInv => ScriptPendingIsRun
  BY DEF ScriptInv, Attended, ScriptPendingIsRun
<1>2. QED
  BY <1>1, ScriptInvInit, ScriptInvStep, PTL DEF ScriptSpec

\* Script runs: however their prunings overlap with each other, with new runs and with
\* removals, no more than MaxKept records are left when the runs have ended.
THEOREM ScriptHistoryStaysBounded ==
  ASSUME MaxKept \in Nat
  PROVE  ScriptSpec => []ScriptHistoryIsBounded
<1>1. ScriptInv => ScriptHistoryIsBounded
  BY DEF ScriptInv, Bounded, ScriptHistoryIsBounded
<1>2. QED
  BY <1>1, ScriptInvInit, ScriptInvStep, PTL DEF ScriptSpec

----------------------------------------------------------------------------
(* LogTail. *)

\* What a poll knows: the page has what is before from; a verdict that was read means
\* that the lines before it were written, to a log whose path was read with it; and
\* the answer reaches as far as the size it tells, and with the verdict as far as that.
Sound(r, lines, before, seen) ==
  /\ r.at # "none" => 1..r.from \subseteq seen
  /\ r.at \in {"stat", "read", "answer"} /\ r.done => r.path /\ before <= lines
  /\ r.at = "read" => r.from <= r.size /\ r.size <= lines
  /\ r.at = "answer" => r.from <= r.size /\ r.size <= r.to /\ (r.done => before <= r.to)

TailTypes ==
  /\ written \in Nat /\ settled \in BOOLEAN /\ named \in BOOLEAN
  /\ offset \in Nat /\ poll \in [Polls -> PollState] /\ timer \in BOOLEAN

\* The page has what is before its offset, and stops with all that precedes the verdict.
TailInv ==
  /\ TailTypes
  /\ settled => named /\ BeforeVerdict <= written
  /\ 1..offset \subseteq shown
  /\ \A p \in Polls : Sound(poll[p], written, BeforeVerdict, shown)
  /\ ~timer => 1..BeforeVerdict \subseteq shown

\* The verdict comes after a whole number of lines.
LEMMA BeforeVerdictType == Lines \in Nat => BeforeVerdict \in Int
BY DEF BeforeVerdict

\* The invariant holds at first.
LEMMA TailInvInit == TailInit => TailInv
<1>. SUFFICES ASSUME TailInit PROVE TailInv
  OBVIOUS
<1>1. NoPoll \in PollState /\ NoPoll.at = "none"
  BY DEF NoPoll, PollState
<1>2. poll \in [Polls -> PollState] /\ \A p \in Polls : poll[p].at = "none"
  BY <1>1 DEF TailInit
<1>3. TailTypes
  BY <1>2 DEF TailInit, TailTypes
<1>4. \A p \in Polls : Sound(poll[p], written, BeforeVerdict, shown)
  BY <1>2 DEF Sound
<1>5. settled = FALSE /\ timer = TRUE /\ offset = 0
  BY DEF TailInit
<1>6. QED
  BY <1>3, <1>4, <1>5 DEF TailInv

\* What is known stays known as lines are written and shown.
LEMMA SoundStays ==
  ASSUME NEW r \in PollState, NEW m \in Nat, NEW n \in Nat, m <= n, NEW b \in Int,
         NEW S, NEW T, S \subseteq T, Sound(r, m, b, S)
  PROVE  Sound(r, n, b, T)
BY DEF Sound, PollState

\* A poll that goes on leaves the others alone.
LEMMA PollGoes ==
  ASSUME TailTypes, NEW p \in Polls, NEW r \in PollState, Goes(p, r)
  PROVE  poll' \in [Polls -> PollState] /\ poll'[p] = r /\ \A q \in Polls \ {p} : poll'[q] = poll[q]
BY DEF Goes, TailTypes

\* A step of a poll before its answer keeps the invariant, if it is sound.
LEMMA PollKeeps ==
  ASSUME Lines \in Nat, TailInv, NEW p \in Polls, NEW r \in PollState, Goes(p, r),
         Sound(r, written, BeforeVerdict, shown), UNCHANGED <<run, offset, shown, timer>>
  PROVE  TailInv'
<1>1. /\ UNCHANGED <<written, settled, named, offset, shown, timer>> /\ BeforeVerdict' = BeforeVerdict
  BY DEF run, BeforeVerdict
<1>2. /\ poll' \in [Polls -> PollState] /\ poll'[p] = r
      /\ \A q \in Polls \ {p} : poll'[q] = poll[q]
  BY PollGoes DEF TailInv
<1>3. \A q \in Polls : Sound(poll'[q], written, BeforeVerdict, shown)
  BY <1>2 DEF TailInv
<1>4. TailTypes'
  BY <1>1, <1>2 DEF TailInv, TailTypes
<1>5. QED
  BY <1>1, <1>3, <1>4 DEF TailInv

\* So do the steps of the run, which only add.
LEMMA RunKeeps ==
  ASSUME Lines \in Nat, TailInv, Running
  PROVE  TailInv'
<1>1. UNCHANGED <<offset, poll, shown, timer>> /\ BeforeVerdict' = BeforeVerdict /\ BeforeVerdict \in Int
  BY BeforeVerdictType DEF Running, Name, Write, Settle, BeforeVerdict
<1>2. /\ written \in Nat /\ settled \in BOOLEAN /\ named \in BOOLEAN
      /\ settled => named /\ BeforeVerdict <= written
  BY DEF TailInv, TailTypes
<1>3. /\ written' \in Nat /\ written <= written' /\ settled' \in BOOLEAN /\ named' \in BOOLEAN
      /\ settled' => named' /\ BeforeVerdict <= written'
  <2>1. CASE Name
    BY <1>1, <1>2, <2>1 DEF Name
  <2>2. CASE Write
    BY <1>1, <1>2, <2>2 DEF Write
  <2>3. CASE Settle
    BY <1>1, <1>2, <2>3 DEF Settle
  <2>4. QED
    BY <2>1, <2>2, <2>3 DEF Running
<1>4. TailTypes'
  BY <1>1, <1>3 DEF TailInv, TailTypes
<1>5. ASSUME NEW p \in Polls PROVE Sound(poll[p], written', BeforeVerdict, shown)
  BY <1>1, <1>2, <1>3, SoundStays DEF TailInv, TailTypes
<1>6. QED
  BY <1>1, <1>3, <1>4, <1>5 DEF TailInv

\* Every step keeps the invariant.
LEMMA TailInvStep ==
  ASSUME Lines \in Nat, TailInv, [TailNext]_tailVars
  PROVE  TailInv'
<1>1. TailTypes /\ BeforeVerdict \in Int
  BY BeforeVerdictType DEF TailInv
<1>2. ASSUME NEW p \in Polls, Ask(p) PROVE TailInv'
  <2>. DEFINE r == [NoPoll EXCEPT !.at = "record", !.from = offset]
  <2>1. r \in PollState /\ r.at = "record" /\ r.from = offset
    BY <1>1 DEF NoPoll, PollState, TailTypes
  <2>2. Goes(p, r) /\ UNCHANGED <<run, offset, shown, timer>>
    BY <1>2 DEF Ask
  <2>3. Sound(r, written, BeforeVerdict, shown)
    BY <2>1 DEF Sound, TailInv
  <2>4. QED
    <3>. HIDE DEF r
    <3>. QED
      BY <2>1, <2>2, <2>3, PollKeeps
<1>3. ASSUME NEW p \in Polls, ReadRecord(p) PROVE TailInv'
  <2>. DEFINE r == [poll[p] EXCEPT !.at = "stat", !.done = settled, !.path = named]
  <2>1. /\ r \in PollState /\ r.at = "stat" /\ r.from = poll[p].from /\ r.done = settled /\ r.path = named
    BY <1>1 DEF PollState, TailTypes
  <2>2. poll[p].at = "record" /\ Goes(p, r) /\ UNCHANGED <<run, offset, shown, timer>>
    BY <1>3 DEF ReadRecord
  <2>3. Sound(r, written, BeforeVerdict, shown)
    BY <2>1, <2>2 DEF Sound, TailInv
  <2>4. QED
    <3>. HIDE DEF r
    <3>. QED
      BY <2>1, <2>2, <2>3, PollKeeps
<1>4. ASSUME NEW p \in Polls, Stat(p), poll[p].path PROVE TailInv'
  <2>. DEFINE f == IF poll[p].from > written THEN written ELSE poll[p].from
              r == [poll[p] EXCEPT !.at = "read", !.size = written, !.from = f]
  <2>1. f \in Nat /\ f <= written /\ f <= poll[p].from
    BY <1>1 DEF PollState, TailTypes
  <2>2. /\ r \in PollState /\ r.at = "read" /\ r.from = f /\ r.size = written
        /\ r.done = poll[p].done /\ r.path = poll[p].path
    BY <1>1, <2>1 DEF PollState, TailTypes
  <2>3. poll[p].at = "stat" /\ Goes(p, r) /\ UNCHANGED <<run, offset, shown, timer>>
    BY <1>4 DEF Stat
  <2>4. Sound(r, written, BeforeVerdict, shown)
    <3>. HIDE DEF r, f
    <3>1. 1..f \subseteq 1..poll[p].from /\ 1..poll[p].from \subseteq shown
      BY <1>1, <2>1, <2>3 DEF TailInv, Sound, PollState, TailTypes
    <3>2. QED
      BY <1>1, <2>1, <2>2, <2>3, <3>1 DEF TailInv, Sound, TailTypes
  <2>5. QED
    <3>. HIDE DEF r
    <3>. QED
      BY <2>2, <2>3, <2>4, PollKeeps
<1>5. ASSUME NEW p \in Polls, Stat(p), ~poll[p].path PROVE TailInv'
  <2>. DEFINE r == [poll[p] EXCEPT !.at = "answer", !.size = poll[p].from, !.to = poll[p].from]
  <2>1. /\ r \in PollState /\ r.at = "answer" /\ r.from = poll[p].from /\ r.size = r.from /\ r.to = r.from
        /\ r.done = poll[p].done /\ r.from \in Nat
    BY <1>1 DEF PollState, TailTypes
  <2>2. poll[p].at = "stat" /\ Goes(p, r) /\ UNCHANGED <<run, offset, shown, timer>>
    BY <1>5 DEF Stat
  <2>3. Sound(r, written, BeforeVerdict, shown)
    <3>. HIDE DEF r
    <3>. QED
      BY <1>5, <2>1, <2>2 DEF TailInv, Sound
  <2>4. QED
    <3>. HIDE DEF r
    <3>. QED
      BY <2>1, <2>2, <2>3, PollKeeps
<1>6. ASSUME NEW p \in Polls, ReadAll(p) PROVE TailInv'
  <2>. DEFINE r == [poll[p] EXCEPT !.at = "answer", !.to = written]
  <2>1. /\ r \in PollState /\ r.at = "answer" /\ r.from = poll[p].from /\ r.size = poll[p].size
        /\ r.to = written /\ r.done = poll[p].done /\ r.path = poll[p].path
    BY <1>1 DEF PollState, TailTypes
  <2>2. poll[p].at = "read" /\ Goes(p, r) /\ UNCHANGED <<run, offset, shown, timer>>
    BY <1>6 DEF ReadAll
  <2>3. Sound(r, written, BeforeVerdict, shown)
    <3>. HIDE DEF r
    <3>. QED
      BY <2>1, <2>2 DEF TailInv, Sound
  <2>4. QED
    <3>. HIDE DEF r
    <3>. QED
      BY <2>1, <2>2, <2>3, PollKeeps
<1>7. ASSUME NEW p \in Polls, Answer(p) PROVE TailInv'
  <2>. DEFINE a == poll[p]
  <2>1. /\ a.at = "answer" /\ shown' = shown \cup (a.from + 1)..a.to /\ offset' = a.size
        /\ timer' = (timer /\ ~a.done) /\ Goes(p, NoPoll)
        /\ UNCHANGED <<written, settled, named>> /\ BeforeVerdict' = BeforeVerdict
    BY <1>7 DEF Answer, run, BeforeVerdict
  <2>2. a.from \in Nat /\ a.to \in Nat /\ a.size \in Nat /\ a.done \in BOOLEAN /\ written \in Nat
    BY <1>1 DEF TailTypes, PollState
  <2>3. /\ 1..a.from \subseteq shown /\ a.from <= a.size /\ a.size <= a.to
        /\ a.done => BeforeVerdict <= a.to
    BY <2>1 DEF TailInv, Sound
  <2>4. 1..a.to \subseteq shown'
    <3>. HIDE DEF a
    <3>. QED
      BY <2>1, <2>2, <2>3
  <2>5. NoPoll \in PollState /\ Sound(NoPoll, written, BeforeVerdict, shown')
    BY DEF NoPoll, PollState, Sound
  <2>6. /\ poll' \in [Polls -> PollState] /\ poll'[p] = NoPoll
        /\ \A q \in Polls \ {p} : poll'[q] = poll[q]
    BY <1>1, <2>1, <2>5, PollGoes
  <2>7. ASSUME NEW q \in Polls PROVE Sound(poll'[q], written, BeforeVerdict, shown')
    <3>1. CASE q = p
      BY <2>5, <2>6, <3>1
    <3>2. CASE q # p
      <4>1. poll[q] \in PollState /\ Sound(poll[q], written, BeforeVerdict, shown)
        BY <1>1 DEF TailInv, TailTypes
      <4>2. shown \subseteq shown' /\ written <= written
        BY <2>1, <2>2
      <4>3. Sound(poll[q], written, BeforeVerdict, shown')
        BY <1>1, <2>2, <4>1, <4>2, SoundStays
      <4>4. QED
        BY <2>6, <3>2, <4>3
    <3>3. QED
      BY <3>1, <3>2
  <2>8. TailTypes'
    <3>1. timer' \in BOOLEAN
      BY <2>1
    <3>2. QED
      BY <1>1, <2>1, <2>2, <2>6, <3>1 DEF TailTypes
  <2>9. 1..offset' \subseteq shown'
    <3>. HIDE DEF a
    <3>. QED
      BY <2>1, <2>2, <2>3, <2>4
  <2>10. ~timer' => 1..BeforeVerdict \subseteq shown'
    <3>1. CASE ~timer
      BY <2>1, <3>1 DEF TailInv
    <3>2. CASE a.done
      <4>. HIDE DEF a
      <4>. QED
        BY <1>1, <2>2, <2>3, <2>4, <3>2
    <3>3. QED
      BY <2>1, <3>1, <3>2
  <2>11. QED
    BY <2>1, <2>7, <2>8, <2>9, <2>10 DEF TailInv
<1>8. CASE UNCHANGED tailVars
  BY <1>8 DEF tailVars, TailInv, TailTypes, BeforeVerdict
<1>9. QED
  BY <1>2, <1>3, <1>4, <1>5, <1>6, <1>7, <1>8, RunKeeps DEF TailNext, Polling

\* The live view of a log: a page that has stopped polling has shown every line before
\* the verdict, for any number of lines and of polls under way at the same time.
THEOREM TailAlwaysShowsAll ==
  ASSUME Lines \in Nat
  PROVE  TailSpec => []TailShowsAll
<1>1. TailInv => TailShowsAll
  BY DEF TailInv, TailShowsAll
<1>2. QED
  BY <1>1, TailInvInit, TailInvStep, PTL DEF TailSpec

----------------------------------------------------------------------------
(* WatchRoots: the queue of events. *)

Queued(r) == \E i \in DOMAIN queue : queue[i] = [path |-> r, op |-> "remove"]

\* An event that is emitted comes after those that wait, and none is lost.
LEMMA EmitKeeps ==
  ASSUME queue \in Seq(Event), NEW r \in Roots, NEW op \in {"write", "remove", "rename"}, Emit(r, op)
  PROVE  /\ queue' \in Seq(Event)
         /\ \A s \in Roots : Queued(s) => Queued(s)'
         /\ r \in watched /\ ~closed /\ op = "remove" => Queued(r)'
<1>1. CASE r \in watched /\ ~closed
  <2>1. [path |-> r, op |-> op] \in Event
    BY DEF Event
  <2>2. queue' = Append(queue, [path |-> r, op |-> op])
    BY <1>1 DEF Emit
  <2>3. /\ queue' \in Seq(Event) /\ Len(queue') = Len(queue) + 1
        /\ \A i \in 1..Len(queue) : queue'[i] = queue[i]
        /\ queue'[Len(queue) + 1] = [path |-> r, op |-> op]
    BY <2>1, <2>2
  <2>4. DOMAIN queue = 1..Len(queue) /\ DOMAIN queue' = 1..(Len(queue) + 1) /\ Len(queue) \in Nat
    BY <2>3
  <2>5. ASSUME NEW s \in Roots, Queued(s) PROVE Queued(s)'
    <3>1. PICK i \in 1..Len(queue) : queue[i] = [path |-> s, op |-> "remove"]
      BY <2>4, <2>5 DEF Queued
    <3>2. i \in DOMAIN queue' /\ queue'[i] = [path |-> s, op |-> "remove"]
      BY <2>3, <2>4, <3>1
    <3>3. QED
      BY <3>2 DEF Queued
  <2>6. ASSUME op = "remove" PROVE Queued(r)'
    <3>1. Len(queue) + 1 \in DOMAIN queue'
      BY <2>4
    <3>2. QED
      BY <2>3, <2>6, <3>1 DEF Queued
  <2>7. QED
    BY <2>3, <2>5, <2>6
<1>2. CASE ~(r \in watched /\ ~closed)
  BY <1>2 DEF Emit, Queued
<1>3. QED
  BY <1>1, <1>2

\* Taking an event takes only that one.
LEMMA TakeKeeps ==
  ASSUME queue \in Seq(Event), queue # << >>, queue' = Tail(queue)
  PROVE  /\ Head(queue) \in Event /\ queue' \in Seq(Event)
         /\ \A s \in Roots : Queued(s) => Queued(s)' \/ Head(queue) = [path |-> s, op |-> "remove"]
<1>1. /\ queue' \in Seq(Event) /\ Len(queue') = Len(queue) - 1 /\ Head(queue) = queue[1]
      /\ Len(queue) \in Nat /\ Len(queue) # 0
      /\ \A i \in 1..Len(queue') : queue'[i] = queue[i + 1]
  OBVIOUS
<1>2. DOMAIN queue = 1..Len(queue) /\ DOMAIN queue' = 1..(Len(queue) - 1)
  BY <1>1
<1>3. ASSUME NEW s \in Roots, Queued(s), Head(queue) # [path |-> s, op |-> "remove"] PROVE Queued(s)'
  <2>1. PICK i \in 1..Len(queue) : queue[i] = [path |-> s, op |-> "remove"]
    BY <1>2, <1>3 DEF Queued
  <2>2. i # 1
    BY <1>1, <1>3, <2>1
  <2>3. i - 1 \in 1..(Len(queue) - 1)
    BY <1>1, <2>1, <2>2
  <2>4. queue'[i - 1] = [path |-> s, op |-> "remove"]
    BY <1>1, <2>1, <2>3
  <2>5. QED
    BY <1>2, <2>3, <2>4 DEF Queued
<1>4. Head(queue) \in Event
  BY <1>1
<1>5. QED
  BY <1>1, <1>3, <1>4

----------------------------------------------------------------------------
(* WatchRoots: types. *)

\* The types are right in every initial state.
LEMMA RootsTypeInit == RootsInit => RootsTypeOK
<1>1. SUFFICES ASSUME RootsInit PROVE RootsTypeOK
  OBVIOUS
<1>2. queue \in Seq(Event)
  BY <1>1 DEF RootsInit
<1>3. retry \subseteq SUBSET Roots
  BY <1>1 DEF RootsInit
<1>4. QED
  BY <1>1, <1>2, <1>3 DEF RootsInit, RootsTypeOK

\* What happens to the paths keeps the types right.
LEMMA OutsideTypes == ASSUME RootsTypeOK, Outside PROVE RootsTypeOK'
<1>1. PICK r \in Roots :
        Appear(r) \/ Replace(r) \/ Change(r) \/ Vanish(r, "remove") \/ Vanish(r, "rename")
  BY DEF Outside
<1>2. queue' \in Seq(Event)
  BY <1>1, EmitKeeps DEF RootsTypeOK, Appear, Replace, Change, Vanish
<1>3. exists' \subseteq Roots /\ watched' \subseteq exists'
  BY <1>1 DEF RootsTypeOK, Appear, Replace, Change, Vanish
<1>4. QED
  BY <1>1, <1>2, <1>3 DEF RootsTypeOK, Appear, Replace, Change, Vanish, conf

\* Every step keeps the types right.
LEMMA RootsTypeStep == RootsTypeOK /\ [RootsNext]_rootVars => RootsTypeOK'
<1>. SUFFICES ASSUME RootsTypeOK, [RootsNext]_rootVars PROVE RootsTypeOK'
  OBVIOUS
<1>1. CASE Loop
  <2>1. Head(queue) \in Event /\ queue' \in Seq(Event)
    BY <1>1, TakeKeeps DEF Loop, RootsTypeOK
  <2>2. Head(queue).path \in Roots
    BY <2>1 DEF Event
  <2>3. lastSeen' \subseteq Roots /\ retry' \subseteq SUBSET Roots
    BY <1>1, <2>2 DEF Loop, AddAgain, RootsTypeOK
  <2>4. QED
    BY <1>1, <2>1, <2>3 DEF Loop, RootsTypeOK, conf
<1>2. CASE Close
  BY <1>2 DEF Close, RootsTypeOK, conf
<1>3. CASE LoopEnds
  BY <1>3 DEF LoopEnds, RootsTypeOK, conf
<1>4. ASSUME NEW r \in Roots, WindowEnds(r) PROVE RootsTypeOK'
  BY <1>4 DEF WindowEnds, RootsTypeOK, conf
<1>5. ASSUME NEW ps \in SUBSET Roots, RetryAdd(ps) PROVE RootsTypeOK'
  BY <1>5 DEF RetryAdd, RootsTypeOK, conf
<1>6. CASE UNCHANGED rootVars
  BY <1>6 DEF rootVars, RootsTypeOK, conf
<1>7. QED
  BY <1>1, <1>2, <1>3, <1>4, <1>5, <1>6, OutsideTypes DEF RootsNext

\* Every variable of a watcher has its type in every reachable state
\* (scheduler/watcher.go).
THEOREM RootsTypes == RootsSpec => []RootsTypeOK
BY RootsTypeInit, RootsTypeStep, PTL DEF RootsSpec

----------------------------------------------------------------------------
(* WatchRoots: UnwatchedIsKnown is inductive. *)

\* It holds after Start.
LEMMA KnownInit == RootsInit => UnwatchedIsKnown
BY DEF RootsInit, UnwatchedIsKnown

\* What happens to the paths either was known before or is told by an event.
LEMMA KnownOutside == ASSUME RootsTypeOK, UnwatchedIsKnown, Outside PROVE UnwatchedIsKnown'
<1>1. SUFFICES ASSUME Told', NEW s \in Roots \ watched', ~closed', ~\E ps \in retry' : s \in ps
               PROVE  Queued(s)'
  BY DEF UnwatchedIsKnown, Queued
<1>2. UNCHANGED <<events, debounces, moves, closed, retry>>
  BY DEF Outside, Appear, Replace, Change, Vanish, conf
<1>3. s \notin watched => Queued(s)
  BY <1>1, <1>2 DEF UnwatchedIsKnown, Queued, Told
<1>4. PICK r \in Roots : Appear(r) \/ Replace(r) \/ Change(r) \/ Vanish(r, "remove")
  BY <1>1, <1>2 DEF Outside, Told
<1>5. CASE Appear(r)
  BY <1>1, <1>3, <1>5 DEF Appear, Queued
<1>6. CASE Change(r)
  BY <1>1, <1>3, <1>6, EmitKeeps DEF Change, RootsTypeOK
<1>7. CASE Replace(r) \/ Vanish(r, "remove")
  <2>1. Emit(r, "remove") /\ watched' = watched \ {r}
    BY <1>7 DEF Replace, Vanish
  <2>2. (\A x \in Roots : Queued(x) => Queued(x)') /\ (r \in watched => Queued(r)')
    BY <1>1, <1>2, <2>1, EmitKeeps DEF RootsTypeOK
  <2>3. QED
    BY <1>1, <1>3, <2>1, <2>2
<1>8. QED
  BY <1>4, <1>5, <1>6, <1>7

\* Every step keeps it.
LEMMA KnownStep == RootsTypeOK /\ UnwatchedIsKnown /\ [RootsNext]_rootVars => UnwatchedIsKnown'
<1>. SUFFICES ASSUME RootsTypeOK, UnwatchedIsKnown, [RootsNext]_rootVars PROVE UnwatchedIsKnown'
  OBVIOUS
<1>1. CASE Loop
  <2>1. SUFFICES ASSUME Told', NEW s \in Roots \ watched', ~closed', ~Queued(s)'
                 PROVE  \E ps \in retry' : s \in ps
    BY DEF UnwatchedIsKnown, Queued
  <2>2. Told /\ s \notin watched /\ ~closed /\ retry \subseteq retry'
    BY <1>1, <2>1 DEF Loop, Told, conf, AddAgain
  <2>3. CASE Queued(s)
    <3>1. Head(queue) = [path |-> s, op |-> "remove"]
      BY <1>1, <2>1, <2>3, TakeKeeps DEF Loop, RootsTypeOK
    <3>2. TypeOf(Head(queue)) = "remove" /\ ~Debounced(s) /\ Head(queue).path = s
      BY <2>2, <3>1 DEF TypeOf, Debounced, Told
    <3>3. AddAgain(s)
      BY <1>1, <2>2, <3>2 DEF Loop, Told
    <3>4. QED
      BY <3>3 DEF AddAgain
  <2>4. CASE ~Queued(s)
    BY <2>1, <2>2, <2>4 DEF UnwatchedIsKnown, Queued
  <2>5. QED
    BY <2>3, <2>4
<1>2. CASE Close
  BY <1>2 DEF Close, UnwatchedIsKnown
<1>3. CASE LoopEnds
  BY <1>3 DEF LoopEnds, UnwatchedIsKnown, Told, conf
<1>4. ASSUME NEW r \in Roots, WindowEnds(r) PROVE UnwatchedIsKnown'
  BY <1>4 DEF WindowEnds, UnwatchedIsKnown, Told, conf
<1>5. ASSUME NEW ps \in SUBSET Roots, RetryAdd(ps) PROVE UnwatchedIsKnown'
  <2>1. SUFFICES ASSUME Told', NEW s \in Roots \ watched', ~closed', ~Queued(s)'
                 PROVE  \E qs \in retry' : s \in qs
    BY DEF UnwatchedIsKnown, Queued
  <2>2. Told /\ s \notin watched /\ ~closed /\ ~Queued(s)
    BY <1>5, <2>1 DEF RetryAdd, Told, conf, Queued
  <2>3. PICK qs \in retry : s \in qs
    BY <2>1, <2>2 DEF UnwatchedIsKnown, Queued
  <2>4. qs \in retry'
    BY <1>5, <2>1, <2>2, <2>3 DEF RetryAdd
  <2>5. QED
    BY <2>3, <2>4
<1>6. CASE UNCHANGED rootVars
  BY <1>6 DEF rootVars, UnwatchedIsKnown, Told, conf
<1>7. QED
  BY <1>1, <1>2, <1>3, <1>4, <1>5, <1>6, KnownOutside DEF RootsNext

\* A configured path that is not watched is being added again, or the event
\* that leads to it waits to be taken, for the tasks that are told of removals
\* (the loop and retryAdd in scheduler/watcher.go).
THEOREM UnwatchedIsAlwaysKnown == RootsSpec => []UnwatchedIsKnown
BY RootsTypeInit, RootsTypeStep, KnownInit, KnownStep, PTL DEF RootsSpec
=============================================================================
