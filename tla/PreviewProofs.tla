---------------------------- MODULE PreviewProofs ----------------------------
(***************************************************************************)
(* Proofs about Preview: the run times shown are the next ones.  What is   *)
(* recursive there (the library's times one after the other, the sum of    *)
(* tokens) is shown to exist, step by step, by induction on numbers, which *)
(* is stated on sets of numbers here.                                      *)
(***************************************************************************)
EXTENDS Preview, FiniteSetTheorems, WellFoundedInduction, TLAPS

----------------------------------------------------------------------------
(* Numbers. *)

\* A set of natural numbers has a least one.
LEMMA LeastOf ==
  ASSUME NEW T \in SUBSET Nat, T # {}
  PROVE  \E n \in T : \A m \in T : n <= m
<1>. DEFINE R == OpToRel(<, Nat)
<1>1. IsWellFoundedOn(R, Nat)
  BY NatLessThanWellFounded
<1>2. \A m, n \in Nat : m < n => <<m, n>> \in R
  BY DEF OpToRel
<1>. HIDE DEF R
<1>3. PICK n \in T : \A m \in T : ~(<<m, n>> \in R)
  BY <1>1, WFMin
<1>4. \A m \in T : m \in Nat
  OBVIOUS
<1>5. ASSUME NEW m \in T PROVE n <= m
  <2>1. n \in Nat /\ m \in Nat /\ ~(m < n)
    BY <1>2, <1>3, <1>4
  <2>2. QED
    BY <2>1
<1>6. QED
  BY <1>5

\* Induction: a set of numbers that has the first and, with each, the next has them all.
LEMMA SetInduction ==
  ASSUME NEW a \in Nat, NEW T, a \in T, \A n \in Nat : n >= a /\ n \in T => n + 1 \in T
  PROVE  \A n \in Nat : n >= a => n \in T
<1>. DEFINE Missing == {n \in Nat : n >= a /\ n \notin T}
<1>1. SUFFICES ASSUME Missing # {} PROVE FALSE
  OBVIOUS
<1>2. PICK n \in Missing : \A m \in Missing : n <= m
  <2>. HIDE DEF Missing
  <2>1. Missing \in SUBSET Nat
    BY DEF Missing
  <2>2. QED
    BY <1>1, <2>1, LeastOf
<1>3. n \in Nat /\ n > a /\ n - 1 \in Nat /\ n - 1 >= a
  BY <1>2
<1>4. n - 1 \in T
  BY <1>2, <1>3
<1>5. QED
  BY <1>2, <1>3, <1>4

\* Ticks and seconds: what \div and % are.
LEMMA DivMod ==
  ASSUME NEW a \in Nat, NEW b \in Nat \ {0}
  PROVE  a \div b \in Nat /\ a % b \in 0..b - 1 /\ a = b * (a \div b) + (a % b)
  OBVIOUS

\* ... and that nothing else is.
LEMMA DivModUnique ==
  ASSUME NEW b \in Nat \ {0}, NEW q \in Int, NEW r \in 0..b - 1
  PROVE  (b * q + r) \div b = q /\ (b * q + r) % b = r
  OBVIOUS

\* Multiples are in the order of their factors.
LEMMA MultiplesOrder ==
  ASSUME NEW b \in Nat, NEW i \in Int, NEW j \in Int, i <= j
  PROVE  i * b <= j * b
  OBVIOUS

----------------------------------------------------------------------------
(* Sets of numbers, in their order. *)

UpTo(F, m) == {f \in F : f <= m}

\* y is the first of F after x.
FirstAfter(F, x, y) == y \in F /\ x < y /\ \A z \in F : x < z => y <= z

\* What there is up to a number is finite.
LEMMA UpToFinite ==
  ASSUME NEW F \in SUBSET Nat, NEW m \in Nat
  PROVE  IsFiniteSet(UpTo(F, m)) /\ Cardinality(UpTo(F, m)) \in Nat
<1>1. UpTo(F, m) \in SUBSET Nat /\ \A s \in UpTo(F, m) : s <= m
  BY DEF UpTo
<1>2. IsFiniteSet(UpTo(F, m))
  BY <1>1, FS_BoundedSetOfNaturals
<1>3. QED
  BY <1>2, FS_CardinalityType

\* The first one after x adds one to what there is up to x.
LEMMA UpToNext ==
  ASSUME NEW F \in SUBSET Nat, NEW x \in Nat, NEW y, FirstAfter(F, x, y)
  PROVE  UpTo(F, y) = UpTo(F, x) \cup {y}
         /\ Cardinality(UpTo(F, y)) = Cardinality(UpTo(F, x)) + 1
<1>. \A f \in F : f \in Nat
  OBVIOUS
<1>1. y \in Nat /\ y \notin UpTo(F, x)
  BY DEF FirstAfter, UpTo
<1>2. UpTo(F, y) = UpTo(F, x) \cup {y}
  <2>1. ASSUME NEW f \in F PROVE f <= y <=> f <= x \/ f = y
    <3>1. f \in Nat /\ y \in Nat /\ x < y /\ (x < f => y <= f)
      BY <1>1 DEF FirstAfter
    <3>2. QED
      BY <3>1
  <2>2. y \in F
    BY DEF FirstAfter
  <2>3. QED
    BY <2>1, <2>2 DEF UpTo
<1>3. QED
  BY <1>1, <1>2, UpToFinite, FS_AddElement

\* A set without a bound has a first one after each number.
LEMMA HasFirst ==
  ASSUME NEW F \in SUBSET Nat, NEW x \in Nat, \E z \in F : x < z
  PROVE  \E y \in F : FirstAfter(F, x, y)
<1>. DEFINE Above == {z \in F : x < z}
<1>1. Above \in SUBSET Nat /\ Above # {}
  OBVIOUS
<1>2. PICK y \in Above : \A z \in Above : y <= z
  <2>. HIDE DEF Above
  <2>. QED
    BY <1>1, LeastOf
<1>3. QED
  BY <1>2 DEF FirstAfter

\* The n first of a set without a bound are those up to one of it.
LEMMA FirstOnes ==
  ASSUME NEW F \in SUBSET Nat, \A x \in Nat : \E z \in F : x < z, NEW n \in Nat \ {0}
  PROVE  \E m \in F : Cardinality(UpTo(F, m)) = n
<1>. \A f \in F : f \in Nat
  OBVIOUS
<1>. DEFINE T == {k \in Nat : \E m \in F : Cardinality(UpTo(F, m)) = k}
<1>1. 1 \in T
  <2>1. F # {}
    BY 0 \in Nat
  <2>2. PICK m \in F : \A z \in F : m <= z
    BY <2>1, LeastOf
  <2>3. UpTo(F, m) = {} \cup {m}
    <3>1. ASSUME NEW f \in F PROVE f <= m <=> f = m
      <4>1. f \in Nat /\ m \in Nat /\ m <= f
        BY <2>2
      <4>2. QED
        BY <4>1
    <3>2. QED
      BY <3>1 DEF UpTo
  <2>4. Cardinality({} \cup {m}) = 1
    <3>1. IsFiniteSet({}) /\ Cardinality({}) = 0 /\ m \notin {}
      BY FS_EmptySet
    <3>. HIDE DEF T
    <3>2. QED
      BY <3>1, FS_AddElement
  <2>5. QED
    BY <2>3, <2>4
<1>2. ASSUME NEW k \in Nat, k >= 1, k \in T PROVE k + 1 \in T
  <2>1. PICK m \in F : Cardinality(UpTo(F, m)) = k
    BY <1>2
  <2>2. PICK y \in F : FirstAfter(F, m, y)
    BY HasFirst
  <2>3. Cardinality(UpTo(F, y)) = k + 1
    BY <2>1, <2>2, UpToNext
  <2>4. QED
    BY <2>3
<1>3. n \in T
  <2>. HIDE DEF T
  <2>. QED
    BY <1>1, <1>2, SetInduction
<1>4. QED
  BY <1>3

\* Times that are each the first after the one before are those up to the last.
LEMMA Enumerated ==
  ASSUME NEW F \in SUBSET Nat, NEW a \in Nat, \A f \in F : a < f,
         NEW n \in Nat \ {0}, NEW h,
         FirstAfter(F, a, h[1]),
         \A k \in 1..n : k # n => (h[k] \in F => FirstAfter(F, h[k], h[k + 1]))
  PROVE  /\ h[n] \in F
         /\ {h[k] : k \in 1..n} = UpTo(F, h[n])
         /\ Cardinality(UpTo(F, h[n])) = n
<1>. \A f \in F : f \in Nat
  OBVIOUS
<1>. DEFINE Good(m) ==
              /\ h[m] \in F
              /\ {h[k] : k \in 1..m} = UpTo(F, h[m])
              /\ Cardinality(UpTo(F, h[m])) = m
            T == {m \in Nat : m <= n => Good(m)}
<1>1. 1 \in T
  <2>1. UpTo(F, a) = {}
    <3>1. ASSUME NEW f \in F PROVE ~(f <= a)
      <4>1. f \in Nat /\ a < f
        OBVIOUS
      <4>2. QED
        BY <4>1
    <3>2. QED
      BY <3>1 DEF UpTo
  <2>2. UpTo(F, h[1]) = {} \cup {h[1]} /\ Cardinality(UpTo(F, h[1])) = 0 + 1
    BY <2>1, UpToNext, FS_EmptySet
  <2>3. {h[k] : k \in 1..1} = {h[1]}
    OBVIOUS
  <2>4. h[1] \in F
    BY DEF FirstAfter
  <2>5. QED
    BY <2>2, <2>3, <2>4
<1>2. ASSUME NEW m \in Nat, m >= 1, m \in T PROVE m + 1 \in T
  <2>1. SUFFICES ASSUME m + 1 <= n PROVE Good(m + 1)
    OBVIOUS
  <2>2. Good(m)
    BY <1>2, <2>1
  <2>3. FirstAfter(F, h[m], h[m + 1])
    BY <1>2, <2>1, <2>2
  <2>4. UpTo(F, h[m + 1]) = UpTo(F, h[m]) \cup {h[m + 1]}
        /\ Cardinality(UpTo(F, h[m + 1])) = Cardinality(UpTo(F, h[m])) + 1
    BY <2>2, <2>3, UpToNext
  <2>5. {h[k] : k \in 1..m + 1} = {h[k] : k \in 1..m} \cup {h[m + 1]}
    BY <1>2
  <2>6. h[m + 1] \in F
    BY <2>3 DEF FirstAfter
  <2>7. QED
    BY <2>2, <2>4, <2>5, <2>6
<1>3. n \in T
  <2>. HIDE DEF T
  <2>. QED
    BY <1>1, <1>2, SetInduction
<1>4. QED
  BY <1>3

\* The earliest of a set are those up to the one that makes them as many as are shown.
LEMMA EarliestUpTo ==
  ASSUME NEW S \in SUBSET Nat, NEW m \in S, Cardinality(UpTo(S, m)) = Shown
  PROVE  Earliest(S) = UpTo(S, m)
<1>. \A r \in S : r \in Nat
  OBVIOUS
<1>1. ASSUME NEW s \in S PROVE Cardinality({r \in S : r < s}) < Shown <=> s <= m
  <2>. DEFINE B == {r \in S : r < s}
  <2>1. IsFiniteSet(UpTo(S, m)) /\ IsFiniteSet(UpTo(S, s)) /\ Shown \in Nat
    BY UpToFinite
  <2>2. ASSUME NEW r \in S PROVE /\ r < s => r <= s
                                 /\ s <= m /\ r < s => r <= m
                                 /\ ~(s <= m) /\ r <= m => r < s
                                 /\ ~(r < r)
    <3>1. r \in Nat /\ s \in Nat /\ m \in Nat
      OBVIOUS
    <3>2. QED
      BY <3>1
  <2>3. B \subseteq UpTo(S, s) /\ s \notin B /\ (s <= m => s \in UpTo(S, m))
    BY <2>2 DEF UpTo
  <2>4. (s <= m => B \subseteq UpTo(S, m)) /\ (~(s <= m) => UpTo(S, m) \subseteq B)
    BY <2>2 DEF UpTo
  <2>. HIDE DEF B
  <2>5. IsFiniteSet(B) /\ Cardinality(B) \in Nat
    BY <2>1, <2>3, FS_Subset, FS_CardinalityType
  <2>6. CASE s <= m
    <3>1. Cardinality(B) <= Shown /\ Cardinality(B) # Shown
      BY <2>1, <2>3, <2>4, <2>6, FS_Subset
    <3>2. Cardinality(B) < Shown
      BY <2>1, <2>5, <3>1
    <3>3. QED
      BY <2>6, <3>2 DEF B
  <2>7. CASE ~(s <= m)
    <3>1. Shown <= Cardinality(B)
      BY <2>4, <2>5, <2>7, FS_Subset
    <3>2. ~(Cardinality(B) < Shown)
      BY <2>1, <2>5, <3>1
    <3>3. QED
      BY <2>7, <3>2 DEF B
  <2>8. QED
    BY <2>6, <2>7
<1>2. QED
  BY <1>1 DEF Earliest, UpTo

----------------------------------------------------------------------------
(* The sum of the tokens of an interval. *)

Picked(S) == CHOOSE x \in S : TRUE

\* What the fold of SumSet, begun on D, gives for a set, from what f gives for smaller ones.
SumOf(f, S) == IF S = {} THEN 0 ELSE Picked(S) + f[S \ {Picked(S)}]

\* Without the element that is picked a set has one element less.
LEMMA PickedOut ==
  ASSUME NEW S, IsFiniteSet(S), S # {}
  PROVE  Picked(S) \in S /\ IsFiniteSet(S \ {Picked(S)})
         /\ Cardinality(S \ {Picked(S)}) = Cardinality(S) - 1
<1>1. Picked(S) \in S
  BY DEF Picked
<1>2. QED
  BY <1>1, FS_RemoveElement

\* The function by which SumSet is defined exists.
LEMMA SumExists ==
  ASSUME NEW D, IsFiniteSet(D)
  PROVE  \E f : f = [S \in SUBSET D |-> SumOf(f, S)]
<1>. DEFINE Small(n) == {S \in SUBSET D : Cardinality(S) <= n}
            T == {n \in Nat : \E f : f = [S \in Small(n) |-> SumOf(f, S)]}
<1>0. \A S \in SUBSET D : IsFiniteSet(S) /\ Cardinality(S) \in Nat /\ Cardinality(S) <= Cardinality(D)
  BY FS_Subset, FS_CardinalityType
<1>1. 0 \in T
  <2>1. ASSUME NEW S \in Small(0), NEW f PROVE SumOf(f, S) = 0
    <3>1. Cardinality(S) = 0
      BY <1>0
    <3>2. S = {}
      BY <1>0, <3>1, FS_EmptySet
    <3>3. QED
      BY <3>2 DEF SumOf
  <2>. DEFINE z == [S \in Small(0) |-> 0]
  <2>2. z = [S \in Small(0) |-> SumOf(z, S)]
    BY <2>1
  <2>3. QED
    BY <2>2
<1>2. ASSUME NEW n \in Nat, n >= 0, n \in T PROVE n + 1 \in T
  <2>1. PICK f : f = [S \in Small(n) |-> SumOf(f, S)]
    BY <1>2
  <2>. DEFINE g == [S \in Small(n + 1) |-> SumOf(f, S)]
  <2>2. ASSUME NEW S \in Small(n) PROVE S \in Small(n + 1) /\ g[S] = f[S]
    <3>1. S \in Small(n + 1)
      BY <1>0
    <3>2. g[S] = SumOf(f, S) /\ f[S] = SumOf(f, S)
      BY <2>1, <3>1
    <3>3. QED
      BY <3>1, <3>2
  <2>3. ASSUME NEW S \in Small(n + 1) PROVE SumOf(g, S) = SumOf(f, S)
    <3>1. CASE S = {}
      BY <3>1 DEF SumOf
    <3>2. CASE S # {}
      <4>1. S \ {Picked(S)} \in Small(n)
        BY <1>0, <3>2, PickedOut
      <4>2. g[S \ {Picked(S)}] = f[S \ {Picked(S)}]
        BY <2>2, <4>1
      <4>3. QED
        BY <4>2 DEF SumOf
    <3>3. QED
      BY <3>1, <3>2
  <2>4. g = [S \in Small(n + 1) |-> SumOf(g, S)]
    <3>1. [S \in Small(n + 1) |-> SumOf(g, S)] = [S \in Small(n + 1) |-> SumOf(f, S)]
      <4>. HIDE DEF g
      <4>. QED
        BY <2>3
    <3>2. QED
      BY <3>1
  <2>5. QED
    <3>. HIDE DEF g
    <3>. QED
      BY <2>4
<1>3. Cardinality(D) \in T
  <2>. HIDE DEF T
  <2>1. Cardinality(D) \in Nat
    BY FS_CardinalityType
  <2>2. QED
    BY <1>1, <1>2, <2>1, SetInduction
<1>4. Small(Cardinality(D)) = SUBSET D
  BY <1>0
<1>5. QED
  <2>1. \E f : f = [S \in Small(Cardinality(D)) |-> SumOf(f, S)]
    BY <1>3
  <2>2. QED
    BY <1>4, <2>1

\* The tokens of an interval, which are natural numbers, have a natural number as their sum.
LEMMA SumIsNat ==
  ASSUME NEW D \in SUBSET Nat, IsFiniteSet(D)
  PROVE  SumSet(D) \in Nat
<1>. DEFINE F == CHOOSE f : f = [S \in SUBSET D |-> SumOf(f, S)]
<1>1. SumSet(D) = F[D]
  BY DEF SumSet, FoldSet, MapThenFoldSet, SumOf, Picked
<1>2. F = [S \in SUBSET D |-> SumOf(F, S)]
  BY SumExists
<1>. HIDE DEF F
<1>. DEFINE T == {n \in Nat : \A S \in SUBSET D : Cardinality(S) = n => F[S] \in Nat}
<1>3. \A S \in SUBSET D : IsFiniteSet(S) /\ Cardinality(S) \in Nat /\ F[S] = SumOf(F, S)
  BY <1>2, FS_Subset, FS_CardinalityType
<1>4. 0 \in T
  <2>1. ASSUME NEW S \in SUBSET D, Cardinality(S) = 0 PROVE F[S] \in Nat
    <3>1. S = {}
      BY <1>3, <2>1, FS_EmptySet
    <3>2. SumOf(F, S) = 0
      BY <3>1 DEF SumOf
    <3>3. QED
      BY <1>3, <3>2
  <2>2. QED
    BY <2>1
<1>5. ASSUME NEW n \in Nat, n >= 0, n \in T PROVE n + 1 \in T
  <2>1. ASSUME NEW S \in SUBSET D, Cardinality(S) = n + 1 PROVE F[S] \in Nat
    <3>. HIDE DEF T
    <3>1. S # {}
      <4>1. n + 1 # 0
        BY <1>5
      <4>2. QED
        BY <2>1, <4>1, FS_EmptySet
    <3>2. Picked(S) \in S /\ Cardinality(S \ {Picked(S)}) = n
      BY <1>3, <2>1, <3>1, PickedOut
    <3>3. F[S \ {Picked(S)}] \in Nat
      BY <1>5, <3>2 DEF T
    <3>4. Picked(S) \in Nat
      BY <3>2
    <3>5. F[S] = Picked(S) + F[S \ {Picked(S)}]
      BY <1>3, <3>1 DEF SumOf
    <3>6. \A a, b \in Nat : a + b \in Nat
      OBVIOUS
    <3>7. QED
      BY <3>3, <3>4, <3>5, <3>6
  <2>2. QED
    BY <2>1
<1>6. Cardinality(D) \in T
  <2>. HIDE DEF T
  <2>1. Cardinality(D) \in Nat
    BY FS_CardinalityType
  <2>2. QED
    BY <1>4, <1>5, <2>1, SetInduction
<1>7. QED
  BY <1>1, <1>6

----------------------------------------------------------------------------
(* The times of one part. *)

\* The second in which one looks.
FirstSecond == moment \div Second

\* The interval of @every and of a bare number, in seconds.
Interval(p) == AtLeastSecond(Normalized(p)) \div Second

\* All the seconds from now on in which the library runs part p.
Fires(p) ==
  IF p.kind = "cron" THEN {s \in Nat : FirstSecond < s /\ s % Period \in p.at}
  ELSE {FirstSecond + k * Interval(p) : k \in Nat \ {0}}

\* A part whose interval is in whole seconds, or less than one.
Whole(p) ==
  p \in Part /\ (p.kind = "every" => SumSet(p.tokens) % Second = 0 \/ SumSet(p.tokens) < Second)

\* The second in which one looks, and the ticks since it began.
LEMMA StartIs ==
  ASSUME moment \in Nat
  PROVE  FirstSecond \in Nat /\ moment % Second \in 0..Second - 1
         /\ moment = Second * FirstSecond + (moment % Second)
  BY PreviewAssumption, DivMod DEF FirstSecond

\* The beginning of a second is in that second.
LEMMA BeginningOf ==
  ASSUME NEW s \in Nat
  PROVE  (s * Second) \div Second = s
<1>1. Second * s + 0 = s * Second /\ 0 \in 0..Second - 1
  BY PreviewAssumption
<1>2. QED
  BY <1>1, PreviewAssumption, DivModUnique

\* An interval is in whole seconds, and one at least.
LEMMA IntervalIs ==
  ASSUME NEW p, Whole(p), p.kind # "cron"
  PROVE  Interval(p) \in Nat \ {0} /\ AtLeastSecond(Normalized(p)) = Interval(p) * Second
<1>. DEFINE d == AtLeastSecond(Normalized(p))
<1>1. \E k \in Nat \ {0} : d = Second * k + 0
  <2>1. AtLeastSecond(Second) = Second * 1 + 0
    BY PreviewAssumption DEF AtLeastSecond
  <2>2. CASE p.kind = "bare"
    <3>1. p.n \in Int
      BY <2>2, PreviewAssumption DEF Whole, Part, Every, Cron
    <3>2. PICK q \in Nat : Minute = Second * q + 0
      BY PreviewAssumption, DivMod
    <3>3. p.n * Minute = Second * (p.n * q) + 0 /\ p.n * q \in Int
      BY <3>1, <3>2, PreviewAssumption
    <3>4. CASE p.n * Minute < Second
      BY <2>1, <2>2, <3>4 DEF Normalized, AtLeastSecond
    <3>5. CASE ~(p.n * Minute < Second)
      <4>1. p.n * q >= 1
        BY <3>3, <3>5, PreviewAssumption
      <4>2. d = p.n * Minute
        BY <2>2, <3>5 DEF Normalized, AtLeastSecond
      <4>3. QED
        BY <3>3, <4>1, <4>2
    <3>6. QED
      BY <3>4, <3>5
  <2>3. CASE p.kind = "every"
    <3>. DEFINE m == SumSet(p.tokens)
    <3>1. m \in Nat
      <4>1. p.tokens \in SUBSET Nat /\ IsFiniteSet(p.tokens)
        BY <2>3, PreviewAssumption, FS_Subset DEF Whole, Part, Every, Cron
      <4>2. QED
        BY <4>1, SumIsNat
    <3>2. m % Second = 0 \/ m < Second
      BY <2>3 DEF Whole
    <3>3. d = AtLeastSecond(AtLeastSecond(m))
      BY <2>3 DEF Normalized
    <3>. HIDE DEF m, d
    <3>4. CASE m < Second
      <4>1. d = Second
        BY <3>3, <3>4 DEF AtLeastSecond
      <4>2. QED
        BY <4>1, PreviewAssumption
    <3>5. CASE ~(m < Second)
      <4>1. d = m
        BY <3>3, <3>5 DEF AtLeastSecond
      <4>2. PICK k \in Nat : m = Second * k + 0
        BY <3>1, <3>2, <3>5, PreviewAssumption, DivMod
      <4>3. k # 0
        BY <3>1, <3>5, <4>2, PreviewAssumption
      <4>4. QED
        BY <4>1, <4>2, <4>3
    <3>6. QED
      BY <3>4, <3>5
  <2>4. QED
    BY <2>2, <2>3 DEF Whole, Part, Every, Cron
<1>2. QED
  <2>. HIDE DEF d
  <2>1. PICK k \in Nat \ {0} : d = Second * k + 0
    BY <1>1
  <2>2. d \div Second = k
    <3>1. 0 \in 0..Second - 1
      BY PreviewAssumption
    <3>2. QED
      BY <2>1, <3>1, PreviewAssumption, DivModUnique
  <2>3. d = k * Second
    BY <2>1, PreviewAssumption
  <2>4. QED
    BY <2>2, <2>3 DEF d, Interval

\* The library runs an interval's part at its multiples, each the first after the one before.
LEMMA EveryFires ==
  ASSUME moment \in Nat, NEW p, Whole(p), p.kind # "cron"
  PROVE  /\ Fires(p) \in SUBSET Nat
         /\ \A f \in Fires(p) : FirstSecond < f
         /\ FirstAfter(Fires(p), FirstSecond, NextFiring(p, moment))
         /\ \A x \in Fires(p) : FirstAfter(Fires(p), x, NextFiring(p, x * Second))
<1>. DEFINE q == Interval(p)
<1>1. FirstSecond \in Nat /\ q \in Nat \ {0} /\ AtLeastSecond(Normalized(p)) \div Second = q
  BY StartIs, IntervalIs DEF Interval
<1>2. Fires(p) = {FirstSecond + k * q : k \in Nat \ {0}}
  BY DEF Fires
<1>3. NextFiring(p, moment) = FirstSecond + q /\ \A x \in Nat : NextFiring(p, x * Second) = x + q
  BY <1>1, BeginningOf DEF NextFiring, EveryNext, FirstSecond
<1>. HIDE DEF q
<1>4. \A k \in Nat \ {0} : FirstSecond + k * q \in Nat /\ FirstSecond < FirstSecond + k * q
  BY <1>1
<1>5. Fires(p) \in SUBSET Nat /\ \A f \in Fires(p) : FirstSecond < f
  BY <1>2, <1>4
<1>6. ASSUME NEW j \in Nat
      PROVE  FirstAfter(Fires(p), FirstSecond + j * q, FirstSecond + (j + 1) * q)
  <2>1. ASSUME NEW k \in Nat \ {0}, FirstSecond + j * q < FirstSecond + k * q
        PROVE  FirstSecond + (j + 1) * q <= FirstSecond + k * q
    <3>1. ~(k <= j)
      <4>1. k <= j => k * q <= j * q
        BY <1>1, MultiplesOrder
      <4>2. QED
        BY <1>1, <2>1, <4>1
    <3>2. (j + 1) * q <= k * q
      BY <1>1, <3>1, MultiplesOrder
    <3>3. QED
      BY <1>1, <3>2
  <2>2. j + 1 \in Nat \ {0} /\ FirstSecond + j * q < FirstSecond + (j + 1) * q
    BY <1>1
  <2>3. QED
    BY <1>2, <2>1, <2>2 DEF FirstAfter
<1>7. FirstAfter(Fires(p), FirstSecond, NextFiring(p, moment))
  <2>1. FirstSecond + 0 * q = FirstSecond /\ FirstSecond + (0 + 1) * q = FirstSecond + q
    BY <1>1
  <2>2. QED
    BY <1>3, <1>6, <2>1
<1>8. ASSUME NEW x \in Fires(p) PROVE FirstAfter(Fires(p), x, NextFiring(p, x * Second))
  <2>1. PICK k \in Nat \ {0} : x = FirstSecond + k * q
    BY <1>2
  <2>2. FirstSecond + (k + 1) * q = x + q
    BY <1>1, <2>1
  <2>3. QED
    BY <1>3, <1>5, <1>6, <2>1, <2>2
<1>9. QED
  BY <1>5, <1>7, <1>8

\* A period from a second on holds each of its places.
LEMMA PeriodHolds ==
  ASSUME NEW x \in Nat, NEW r \in 0..Period - 1
  PROVE  \E s \in x + 1..x + Period : s % Period = r
<1>. DEFINE a == (x + 1) \div Period
            b == (x + 1) % Period
<1>1. a \in Nat /\ b \in 0..Period - 1 /\ x + 1 = Period * a + b
  <2>1. x + 1 \in Nat
    OBVIOUS
  <2>2. QED
    BY <2>1, PreviewAssumption, DivMod
<1>. HIDE DEF a, b
<1>2. CASE b <= r
  <2>0. Period \in Nat \ {0} /\ a \in Int
    BY <1>1, PreviewAssumption
  <2>1. Period * a + r \in x + 1..x + Period
    BY <1>1, <1>2, PreviewAssumption
  <2>2. (Period * a + r) % Period = r
    BY <1>1, <2>0, PreviewAssumption, DivModUnique
  <2>3. QED
    BY <2>1, <2>2
<1>3. CASE ~(b <= r)
  <2>0. Period \in Nat \ {0} /\ a + 1 \in Int
    BY <1>1, PreviewAssumption
  <2>1. Period * (a + 1) + r \in x + 1..x + Period
    BY <1>1, <1>3, PreviewAssumption
  <2>2. (Period * (a + 1) + r) % Period = r
    BY <1>1, <2>0, PreviewAssumption, DivModUnique
  <2>3. QED
    BY <2>1, <2>2
<1>4. QED
  BY <1>2, <1>3

\* The library looks for the next second of a cron expression in one period, and finds it.
LEMMA CronNextIsFirst ==
  ASSUME moment \in Nat, NEW p, Whole(p), p.kind = "cron", NEW t \in Nat, FirstSecond <= t \div Second
  PROVE  FirstAfter(Fires(p), t \div Second, CronNext(p, t))
<1>. DEFINE x == t \div Second
            W == {s \in x + 1..x + Period : s % Period \in p.at}
<1>1. x \in Nat /\ FirstSecond \in Nat
  BY PreviewAssumption, DivMod, StartIs
<1>2. p.at \in SUBSET (0..Period - 1) /\ p.at # {}
  <2>1. p \in Cron
    BY DEF Whole, Part, Every
  <2>2. QED
    BY <2>1 DEF Cron
<1>3. CronNext(p, t) = CHOOSE y \in W : \A z \in W : y <= z
  BY DEF CronNext, Min
<1>4. Fires(p) = {s \in Nat : FirstSecond < s /\ s % Period \in p.at} /\ FirstSecond <= x
  BY DEF Fires
<1>. HIDE DEF x
<1>5. W # {} /\ W \in SUBSET Nat
  <2>1. PICK r \in p.at : r \in 0..Period - 1
    BY <1>2
  <2>2. PICK s \in x + 1..x + Period : s % Period = r
    BY <1>1, <2>1, PeriodHolds
  <2>3. QED
    BY <1>1, <2>1, <2>2, PreviewAssumption
<1>. DEFINE y == CronNext(p, t)
<1>6. y \in W /\ \A z \in W : y <= z
  <2>. HIDE DEF W
  <2>1. \E m \in W : \A z \in W : m <= z
    BY <1>5, LeastOf
  <2>2. QED
    BY <1>3, <2>1
<1>. HIDE DEF y
<1>7. y \in Nat /\ x < y /\ y <= x + Period /\ y % Period \in p.at
  BY <1>1, <1>6, PreviewAssumption
<1>8. y \in Fires(p)
  BY <1>1, <1>4, <1>7
<1>9. ASSUME NEW z \in Fires(p), x < z PROVE y <= z
  <2>1. z \in Nat /\ z % Period \in p.at
    BY <1>4
  <2>2. CASE z <= x + Period
    BY <1>1, <1>6, <1>9, <2>1, <2>2, PreviewAssumption
  <2>3. CASE ~(z <= x + Period)
    BY <1>1, <1>7, <2>1, <2>3, PreviewAssumption
  <2>4. QED
    BY <2>2, <2>3
<1>10. QED
  BY <1>7, <1>8, <1>9 DEF FirstAfter, x, y

\* Of any part, the library's next time is the first there is.
LEMMA NextIsFirst ==
  ASSUME moment \in Nat, NEW p, Whole(p)
  PROVE  /\ FirstSecond \in Nat /\ Fires(p) \in SUBSET Nat
         /\ \A f \in Fires(p) : FirstSecond < f
         /\ FirstAfter(Fires(p), FirstSecond, NextFiring(p, moment))
         /\ \A x \in Fires(p) : FirstAfter(Fires(p), x, NextFiring(p, x * Second))
<1>1. FirstSecond \in Nat
  BY StartIs
<1>2. CASE p.kind = "cron"
  <2>1. Fires(p) \in SUBSET Nat /\ \A f \in Fires(p) : FirstSecond < f
    BY <1>2 DEF Fires
  <2>2. FirstAfter(Fires(p), FirstSecond, NextFiring(p, moment))
    BY <1>1, <1>2, CronNextIsFirst DEF NextFiring, FirstSecond
  <2>3. ASSUME NEW x \in Fires(p) PROVE FirstAfter(Fires(p), x, NextFiring(p, x * Second))
    <3>1. x \in Nat /\ FirstSecond < x /\ x * Second \in Nat /\ (x * Second) \div Second = x
      BY <2>1, BeginningOf, PreviewAssumption
    <3>2. FirstSecond <= x
      BY <1>1, <3>1
    <3>3. QED
      BY <1>2, <3>1, <3>2, CronNextIsFirst DEF NextFiring
  <2>4. QED
    BY <1>1, <2>1, <2>2, <2>3
<1>3. CASE p.kind # "cron"
  BY <1>1, <1>3, EveryFires
<1>4. QED
  BY <1>2, <1>3

\* A part has a time to run after each second.
LEMMA FiresForEver ==
  ASSUME moment \in Nat, NEW p, Whole(p)
  PROVE  \A x \in Nat : \E z \in Fires(p) : x < z
<1>. DEFINE T == {x \in Nat : \E z \in Fires(p) : x < z}
<1>1. 0 \in T
  <2>1. NextFiring(p, moment) \in Fires(p) /\ FirstSecond < NextFiring(p, moment)
    BY NextIsFirst DEF FirstAfter
  <2>2. FirstSecond \in Nat /\ NextFiring(p, moment) \in Nat
    BY <2>1, NextIsFirst
  <2>3. 0 < NextFiring(p, moment)
    BY <2>1, <2>2
  <2>4. QED
    BY <2>1, <2>3
<1>2. ASSUME NEW x \in Nat, x >= 0, x \in T PROVE x + 1 \in T
  <2>1. PICK z \in Fires(p) : x < z
    BY <1>2
  <2>. DEFINE y == NextFiring(p, z * Second)
  <2>2. y \in Fires(p) /\ z < y
    BY NextIsFirst DEF FirstAfter
  <2>3. z \in Nat /\ y \in Nat
    BY <2>2, NextIsFirst
  <2>. HIDE DEF y
  <2>4. x + 1 < y
    BY <2>1, <2>2, <2>3
  <2>5. QED
    BY <2>2, <2>4
<1>3. QED
  <2>. HIDE DEF T
  <2>1. \A x \in Nat : x \in T
    BY <1>1, <1>2, SetInduction
  <2>2. QED
    BY <2>1 DEF T

\* The times of a cron expression, one after the other, exist.
LEMMA CronTimesExist ==
  ASSUME NEW p, NEW t
  PROVE  \E f : f = [k \in 1..Shown |-> IF k = 1 THEN CronNext(p, t)
                                        ELSE CronNext(p, f[k - 1] * Second)]
<1>. DEFINE After(f, k) == IF k = 1 THEN CronNext(p, t) ELSE CronNext(p, f[k - 1] * Second)
            T == {n \in Nat : \E f : f = [k \in 1..n |-> After(f, k)]}
<1>1. 1 \in T
  <2>. DEFINE g == [k \in 1..1 |-> CronNext(p, t)]
  <2>1. g = [k \in 1..1 |-> After(g, k)]
    BY \A k \in 1..1 : k = 1
  <2>2. QED
    BY <2>1
<1>2. ASSUME NEW n \in Nat, n >= 1, n \in T PROVE n + 1 \in T
  <2>1. PICK f : f = [k \in 1..n |-> After(f, k)]
    BY <1>2
  <2>. DEFINE g == [k \in 1..n + 1 |-> After(f, k)]
  <2>2. ASSUME NEW k \in 1..n + 1 PROVE After(f, k) = After(g, k)
    <3>1. CASE k = 1
      BY <3>1
    <3>2. CASE k # 1
      <4>1. k - 1 \in 1..n /\ k - 1 \in 1..n + 1
        BY <1>2, <3>2
      <4>2. g[k - 1] = f[k - 1]
        BY <2>1, <4>1
      <4>3. QED
        BY <3>2, <4>2
    <3>3. QED
      BY <3>1, <3>2
  <2>3. g = [k \in 1..n + 1 |-> After(g, k)]
    BY <2>2
  <2>4. QED
    <3>. HIDE DEF g
    <3>. QED
      BY <2>3
<1>3. Shown \in T
  <2>. HIDE DEF T
  <2>1. QED
    BY <1>1, <1>2, PreviewAssumption, SetInduction
<1>4. QED
  BY <1>3

\* What nextRunTimeSingle gives for a part.
Times(p) == IF p.kind = "cron" THEN CronTimes(p, moment) ELSE EveryTimes(p, moment)

\* They are as many as are shown, and the first ones.
LEMMA TimesAreFirst ==
  ASSUME moment \in Nat, NEW p, Whole(p)
  PROVE  \E m \in Fires(p) : Times(p) = UpTo(Fires(p), m) /\ Cardinality(UpTo(Fires(p), m)) = Shown
<1>1. Shown \in Nat \ {0} /\ FirstSecond \in Nat /\ Fires(p) \in SUBSET Nat /\ \A f \in Fires(p) : FirstSecond < f
  BY NextIsFirst, PreviewAssumption
<1>. DEFINE Lists(h) ==
              /\ Times(p) = {h[k] : k \in 1..Shown}
              /\ FirstAfter(Fires(p), FirstSecond, h[1])
              /\ \A k \in 1..Shown : k # Shown
                   => (h[k] \in Fires(p) => FirstAfter(Fires(p), h[k], h[k + 1]))
<1>2. ASSUME p.kind = "cron" PROVE \E h : Lists(h)
  <2>. DEFINE Follows(f) == f = [k \in 1..Shown |-> IF k = 1 THEN CronNext(p, moment)
                                                    ELSE CronNext(p, f[k - 1] * Second)]
              h == CHOOSE f : Follows(f)
  <2>1. Times(p) = {h[k] : k \in 1..Shown}
    BY <1>2 DEF Times, CronTimes
  <2>2. Follows(h)
    <3>1. \E f : Follows(f)
      BY CronTimesExist
    <3>. HIDE DEF Follows
    <3>2. QED
      BY <3>1
  <2>. HIDE DEF h
  <2>3. h[1] = NextFiring(p, moment)
    BY <1>1, <1>2, <2>2 DEF NextFiring
  <2>4. ASSUME NEW k \in 1..Shown, k # Shown PROVE h[k + 1] = NextFiring(p, h[k] * Second)
    <3>1. k + 1 \in 1..Shown /\ k + 1 # 1 /\ (k + 1) - 1 = k
      BY <1>1, <2>4
    <3>2. QED
      BY <1>2, <2>2, <3>1 DEF NextFiring
  <2>5. Lists(h)
    BY <2>1, <2>3, <2>4, NextIsFirst
  <2>6. QED
    BY <2>5
<1>3. ASSUME p.kind # "cron" PROVE \E h : Lists(h)
  <2>. DEFINE q == Interval(p)
              h == [k \in 1..Shown |-> FirstSecond + k * q]
  <2>1. q \in Nat \ {0} /\ AtLeastSecond(Normalized(p)) = q * Second
    BY <1>3, IntervalIs
  <2>. HIDE DEF q
  <2>2. ASSUME NEW k \in 1..Shown
        PROVE  (moment + k * AtLeastSecond(Normalized(p))) \div Second = FirstSecond + k * q
    <3>1. moment + k * (q * Second) = Second * (FirstSecond + k * q) + (moment % Second)
      <4>1. \A a, b, c, d, e \in Int : e = c * d + b => e + k * (a * c) = c * (d + k * a) + b
        OBVIOUS
      <4>2. QED
        BY <1>1, <2>1, <4>1, StartIs, PreviewAssumption
    <3>2. FirstSecond + k * q \in Int /\ moment % Second \in 0..Second - 1 /\ Second \in Nat \ {0}
      BY <1>1, <2>1, StartIs, PreviewAssumption
    <3>3. (Second * (FirstSecond + k * q) + (moment % Second)) \div Second = FirstSecond + k * q
      BY <3>2, DivModUnique
    <3>4. QED
      BY <2>1, <3>1, <3>3
  <2>3. Times(p) = {h[k] : k \in 1..Shown}
    BY <1>3, <2>2 DEF Times, EveryTimes
  <2>4. \A x \in Nat : NextFiring(p, x * Second) = x + q
    BY <1>3, <2>1, BeginningOf DEF NextFiring, EveryNext, q, Interval
  <2>5. h[1] = NextFiring(p, moment)
    BY <1>1, <1>3, <2>1 DEF NextFiring, EveryNext, FirstSecond, q, Interval
  <2>6. ASSUME NEW k \in 1..Shown, k # Shown, h[k] \in Fires(p)
        PROVE  h[k + 1] = NextFiring(p, h[k] * Second)
    <3>1. k + 1 \in 1..Shown /\ h[k] \in Nat
      BY <1>1, <2>6
    <3>2. h[k + 1] = h[k] + q
      BY <1>1, <2>1, <3>1
    <3>3. QED
      BY <2>4, <3>1, <3>2
  <2>7. Lists(h)
    <3>. HIDE DEF h
    <3>. QED
      BY <2>3, <2>5, <2>6, NextIsFirst
  <2>8. QED
    BY <2>7
<1>4. PICK h : Lists(h)
  BY <1>2, <1>3
<1>5. QED
  <2>1. h[Shown] \in Fires(p) /\ {h[k] : k \in 1..Shown} = UpTo(Fires(p), h[Shown])
        /\ Cardinality(UpTo(Fires(p), h[Shown])) = Shown
    BY <1>1, <1>4, Enumerated
  <2>2. QED
    BY <1>4, <2>1

----------------------------------------------------------------------------
(* What the library runs, and what is shown. *)

\* The library's function of Firings, up to second s, from what f gives for the one before.
RunsOf(f, p, s) ==
  IF s = FirstSecond THEN {NextFiring(p, moment)}
  ELSE IF s \in f[s - 1] THEN f[s - 1] \cup {NextFiring(p, s * Second)} ELSE f[s - 1]

\* It exists.
LEMMA RunsExist ==
  ASSUME moment \in Nat, NEW p, NEW limit \in Nat, FirstSecond <= limit
  PROVE  \E f : f = [s \in FirstSecond..limit |-> RunsOf(f, p, s)]
<1>. DEFINE T == {n \in Nat : \E f : f = [s \in FirstSecond..n |-> RunsOf(f, p, s)]}
<1>0. FirstSecond \in Nat
  BY StartIs
<1>1. FirstSecond \in T
  <2>. DEFINE g == [s \in FirstSecond..FirstSecond |-> {NextFiring(p, moment)}]
  <2>1. \A s \in FirstSecond..FirstSecond : RunsOf(g, p, s) = {NextFiring(p, moment)}
    BY <1>0 DEF RunsOf
  <2>2. g = [s \in FirstSecond..FirstSecond |-> RunsOf(g, p, s)]
    BY <2>1
  <2>. HIDE DEF g
  <2>3. QED
    BY <1>0, <2>2
<1>2. ASSUME NEW n \in Nat, n >= FirstSecond, n \in T PROVE n + 1 \in T
  <2>1. PICK f : f = [s \in FirstSecond..n |-> RunsOf(f, p, s)]
    BY <1>2
  <2>. DEFINE g == [s \in FirstSecond..n + 1 |-> RunsOf(f, p, s)]
  <2>2. ASSUME NEW s \in FirstSecond..n + 1 PROVE RunsOf(f, p, s) = RunsOf(g, p, s)
    <3>1. CASE s = FirstSecond
      BY <3>1 DEF RunsOf
    <3>2. CASE s # FirstSecond
      <4>1. s - 1 \in FirstSecond..n /\ s - 1 \in FirstSecond..n + 1
        BY <1>0, <1>2, <3>2
      <4>2. g[s - 1] = f[s - 1]
        BY <2>1, <4>1
      <4>. HIDE DEF g
      <4>3. QED
        BY <3>2, <4>2 DEF RunsOf
    <3>3. QED
      BY <3>1, <3>2
  <2>3. g = [s \in FirstSecond..n + 1 |-> RunsOf(g, p, s)]
    BY <2>2
  <2>4. QED
    <3>. HIDE DEF g
    <3>. QED
      BY <2>3
<1>3. limit \in T
  <2>. HIDE DEF T
  <2>1. limit >= FirstSecond
    BY <1>0
  <2>2. QED
    BY <1>0, <1>1, <1>2, <2>1, SetInduction
<1>4. QED
  BY <1>3

\* Up to second s the library has what there is up to s, and the first one after.
LEMMA RunsAre ==
  ASSUME moment \in Nat, NEW p, Whole(p), NEW limit \in Nat, NEW f,
         f = [s \in FirstSecond..limit |-> RunsOf(f, p, s)], NEW s \in FirstSecond..limit
  PROVE  \E y : FirstAfter(Fires(p), s, y) /\ f[s] = UpTo(Fires(p), s) \cup {y}
<1>. DEFINE Good(n) == \E y : FirstAfter(Fires(p), n, y) /\ f[n] = UpTo(Fires(p), n) \cup {y}
            T == {n \in Nat : n <= limit => Good(n)}
<1>0. FirstSecond \in Nat /\ Fires(p) \in SUBSET Nat /\ \A r \in Fires(p) : FirstSecond < r /\ r \in Nat
  BY NextIsFirst
<1>1. FirstSecond \in T
  <2>1. SUFFICES ASSUME FirstSecond <= limit PROVE Good(FirstSecond)
    BY <1>0
  <2>2. FirstSecond \in FirstSecond..limit
    BY <1>0, <2>1
  <2>3. f[FirstSecond] = {NextFiring(p, moment)}
    BY <2>2 DEF RunsOf
  <2>4. UpTo(Fires(p), FirstSecond) = {}
    <3>1. ASSUME NEW r \in Fires(p) PROVE ~(r <= FirstSecond)
      <4>1. r \in Nat /\ FirstSecond < r
        BY <1>0
      <4>2. QED
        BY <1>0, <4>1
    <3>2. QED
      BY <3>1 DEF UpTo
  <2>5. QED
    BY <2>3, <2>4, NextIsFirst
<1>2. ASSUME NEW n \in Nat, n >= FirstSecond, n \in T PROVE n + 1 \in T
  <2>1. SUFFICES ASSUME n + 1 <= limit PROVE Good(n + 1)
    BY <1>2
  <2>2. PICK y : FirstAfter(Fires(p), n, y) /\ f[n] = UpTo(Fires(p), n) \cup {y}
    BY <1>2, <2>1
  <2>3. f[n + 1] = IF n + 1 \in f[n] THEN f[n] \cup {NextFiring(p, (n + 1) * Second)} ELSE f[n]
    <3>1. n + 1 \in FirstSecond..limit /\ n + 1 # FirstSecond /\ (n + 1) - 1 = n
      BY <1>0, <1>2, <2>1
    <3>2. QED
      BY <3>1 DEF RunsOf
  <2>4. y \in Nat /\ y \in Fires(p) /\ n < y /\ \A z \in Fires(p) : n < z => y <= z
    BY <1>0, <2>2 DEF FirstAfter
  <2>5. n + 1 \in f[n] <=> y = n + 1
    <3>1. n + 1 \notin UpTo(Fires(p), n)
      BY <1>2 DEF UpTo
    <3>2. QED
      BY <2>2, <3>1
  <2>6. CASE y = n + 1
    <3>1. FirstAfter(Fires(p), y, NextFiring(p, y * Second))
      BY <2>4, NextIsFirst
    <3>2. UpTo(Fires(p), n + 1) = UpTo(Fires(p), n) \cup {y}
      BY <1>0, <2>2, <2>6, UpToNext
    <3>3. f[n + 1] = UpTo(Fires(p), n + 1) \cup {NextFiring(p, y * Second)}
      BY <2>2, <2>3, <2>5, <2>6, <3>2
    <3>4. QED
      BY <2>6, <3>1, <3>3
  <2>7. CASE y # n + 1
    <3>1. n + 1 < y
      BY <1>2, <2>4, <2>7
    <3>2. ASSUME NEW z \in Fires(p) PROVE (z <= n + 1 <=> z <= n) /\ (n + 1 < z => y <= z)
      <4>1. z \in Nat /\ (n < z => y <= z)
        BY <1>0, <2>4
      <4>2. QED
        BY <1>2, <2>4, <3>1, <4>1
    <3>3. UpTo(Fires(p), n + 1) = UpTo(Fires(p), n) /\ FirstAfter(Fires(p), n + 1, y)
      BY <2>4, <3>1, <3>2 DEF UpTo, FirstAfter
    <3>4. QED
      BY <2>2, <2>3, <2>5, <2>7, <3>3
  <2>8. QED
    BY <2>6, <2>7
<1>3. s \in Nat /\ s >= FirstSecond /\ s <= limit
  BY <1>0
<1>4. s \in T
  <2>. HIDE DEF T
  <2>1. QED
    BY <1>0, <1>1, <1>2, <1>3, SetInduction
<1>5. QED
  BY <1>3, <1>4

\* The library runs a part whenever there is a time to, up to any second.
LEMMA FiringsAre ==
  ASSUME moment \in Nat, NEW p, Whole(p), NEW limit \in Nat, FirstSecond <= limit
  PROVE  Firings(p, limit) = UpTo(Fires(p), limit)
<1>. DEFINE Follows(f) == f = [s \in FirstSecond..limit |-> RunsOf(f, p, s)]
            runs == CHOOSE f : Follows(f)
<1>1. Firings(p, limit) = {s \in runs[limit] : s <= limit}
  BY DEF Firings, RunsOf, FirstSecond
<1>2. Follows(runs)
  <2>1. \E f : Follows(f)
    BY RunsExist
  <2>. HIDE DEF Follows
  <2>2. QED
    BY <2>1
<1>. HIDE DEF runs
<1>3. FirstSecond \in Nat /\ limit \in FirstSecond..limit
  BY StartIs
<1>4. PICK y : FirstAfter(Fires(p), limit, y) /\ runs[limit] = UpTo(Fires(p), limit) \cup {y}
  BY <1>2, <1>3, RunsAre
<1>5. y \in Nat /\ ~(y <= limit)
  <2>1. y \in Nat /\ limit < y
    BY <1>4, NextIsFirst DEF FirstAfter
  <2>2. QED
    BY <2>1
<1>6. QED
  BY <1>1, <1>4, <1>5 DEF UpTo

\* The times shown are those the library runs, for parts whose intervals it keeps.
LEMMA ShownAreNext ==
  ASSUME PreviewTypeOK, parts # {}
  PROVE  PreviewIsNextRuns
<1>. SUFFICES ASSUME \A p \in parts : p.kind = "every"
                       => SumSet(p.tokens) % Second = 0 \/ SumSet(p.tokens) < Second
              PROVE  LET shown == NextRunTime(parts, moment) IN
                     shown = UNION {Firings(p, Max(shown)) : p \in parts} /\ Cardinality(shown) = Shown
  BY DEF PreviewIsNextRuns
<1>. DEFINE G == UNION {Fires(p) : p \in parts}
            U == UNION {Times(p) : p \in parts}
            shown == NextRunTime(parts, moment)
<1>1. moment \in Nat /\ FirstSecond \in Nat /\ Shown \in Nat \ {0} /\ \A p \in parts : Whole(p)
  BY PreviewAssumption, StartIs DEF PreviewTypeOK, Whole
<1>2. shown = Earliest(U)
  BY DEF NextRunTime, Times
<1>. HIDE DEF shown
<1>3. /\ G \in SUBSET Nat
      /\ \A g \in G : g \in Nat /\ FirstSecond < g
      /\ \A x \in Nat : \E z \in G : x < z
  <2>1. \A p \in parts : Fires(p) \in SUBSET Nat /\ \A r \in Fires(p) : FirstSecond < r
    BY <1>1, NextIsFirst
  <2>2. \A p \in parts : \A x \in Nat : \E z \in Fires(p) : x < z
    BY <1>1, FiresForEver
  <2>3. QED
    BY <2>1, <2>2
<1>4. \A p \in parts : \E m \in Fires(p) : /\ Times(p) = UpTo(Fires(p), m)
                                          /\ Cardinality(UpTo(Fires(p), m)) = Shown
  BY <1>1, TimesAreFirst
<1>5. PICK M \in G : Cardinality(UpTo(G, M)) = Shown
  <2>. HIDE DEF G
  <2>. QED
    BY <1>1, <1>3, FirstOnes
<1>6. M \in Nat /\ FirstSecond <= M
  <2>1. M \in Nat /\ FirstSecond < M
    BY <1>3
  <2>2. QED
    BY <1>1, <2>1
<1>7. ASSUME NEW p \in parts PROVE Times(p) \subseteq Fires(p) /\ UpTo(Fires(p), M) \subseteq Times(p)
  <2>1. PICK m \in Fires(p) : Times(p) = UpTo(Fires(p), m) /\ Cardinality(UpTo(Fires(p), m)) = Shown
    BY <1>4
  <2>2. m \in Nat /\ Fires(p) \subseteq G /\ \A r \in Fires(p) : r \in Nat
    BY <1>1, NextIsFirst
  <2>3. M <= m
    <3>1. SUFFICES ASSUME m < M PROVE FALSE
      BY <1>6, <2>2
    <3>2. UpTo(Fires(p), m) \subseteq UpTo(G, M)
      <4>1. ASSUME NEW r \in Fires(p), r <= m PROVE r <= M
        <5>1. r \in Nat
          BY <2>2
        <5>2. QED
          BY <1>6, <2>2, <3>1, <4>1, <5>1
      <4>. HIDE DEF G
      <4>2. QED
        BY <2>2, <4>1 DEF UpTo
    <3>3. M \in UpTo(G, M) /\ M \notin UpTo(Fires(p), m)
      <4>1. ~(M <= m) /\ M <= M
        BY <1>6, <2>2, <3>1
      <4>. HIDE DEF G
      <4>2. QED
        BY <4>1 DEF UpTo
    <3>. HIDE DEF G
    <3>4. IsFiniteSet(UpTo(G, M))
      BY <1>3, <1>6, UpToFinite
    <3>5. QED
      BY <1>5, <2>1, <3>2, <3>3, <3>4, FS_Subset
  <2>4. ASSUME NEW r \in Fires(p), r <= M PROVE r <= m
    <3>1. r \in Nat
      BY <2>2
    <3>2. QED
      BY <1>6, <2>2, <2>3, <2>4, <3>1
  <2>5. QED
    BY <2>1, <2>4 DEF UpTo
<1>8. UpTo(U, M) = UpTo(G, M) /\ U \subseteq G
  BY <1>7 DEF UpTo
<1>9. shown = UpTo(G, M)
  <2>1. M \in UpTo(G, M)
    <3>. HIDE DEF G
    <3>. QED
      BY <1>6 DEF UpTo
  <2>. HIDE DEF G, U
  <2>2. M \in U
    BY <1>8, <2>1 DEF UpTo
  <2>3. U \in SUBSET Nat
    BY <1>3, <1>8
  <2>4. QED
    BY <1>2, <1>5, <1>8, <2>2, <2>3, EarliestUpTo
<1>10. Max(shown) = M
  <2>. HIDE DEF G
  <2>1. M \in shown /\ \A x \in shown : x \in Nat /\ x <= M
    BY <1>3, <1>6, <1>9 DEF UpTo
  <2>2. \A y \in shown : (\A x \in shown : y >= x) => y = M
    <3>1. ASSUME NEW y \in shown, \A x \in shown : y >= x PROVE y = M
      <4>1. y \in Nat /\ y <= M /\ y >= M
        BY <2>1, <3>1
      <4>2. QED
        BY <1>6, <4>1
    <3>2. QED
      BY <3>1
  <2>3. \A x \in shown : M >= x
    <3>1. ASSUME NEW x \in shown PROVE M >= x
      <4>1. x \in Nat /\ x <= M
        BY <2>1
      <4>2. QED
        BY <1>6, <4>1
    <3>2. QED
      BY <3>1
  <2>4. QED
    BY <2>1, <2>2, <2>3 DEF Max
<1>11. \A p \in parts : Firings(p, M) = UpTo(Fires(p), M)
  BY <1>1, <1>6, FiringsAre
<1>12. UpTo(G, M) = UNION {UpTo(Fires(p), M) : p \in parts}
  BY DEF UpTo
<1>13. shown = UNION {Firings(p, M) : p \in parts}
  BY <1>9, <1>11, <1>12
<1>14. QED
  <2>. HIDE DEF G, U
  <2>. QED
    BY <1>5, <1>9, <1>10, <1>13 DEF shown

\* The parts of a schedule keep their types and stay some while one looks.
LEMMA PartsStay == PreviewSpec => [](PreviewTypeOK /\ parts # {})
<1>1. PreviewInit => PreviewTypeOK /\ parts # {}
  BY PreviewAssumption DEF PreviewInit, PreviewTypeOK
<1>2. PreviewTypeOK /\ parts # {} /\ [PreviewNext]_previewVars => (PreviewTypeOK /\ parts # {})'
  BY PreviewAssumption DEF PreviewTypeOK, PreviewNext, previewVars
<1>3. QED
  BY <1>1, <1>2, PTL DEF PreviewSpec

\* The times the page shows for a schedule are the next ones at which the cron library
\* would run it, of all its parts together, none left out and none twice: for any
\* expressions, any intervals of whole seconds or less than one, any number of times
\* shown, and whenever one looks.
THEOREM PreviewShowsNextRuns == PreviewSpec => []PreviewIsNextRuns
  BY PartsStay, ShownAreNext, PTL
=============================================================================
