------------------------------ MODULE Preview ------------------------------
(***************************************************************************)
(* The next run times the web page shows for a schedule of several parts   *)
(* (nextRunTime in service/cronjob.go, NormalizeEverySpec in               *)
(* scheduler/scheduler.go), against the times at which the cron library    *)
(* would run a cronjob registered at this moment.                          *)
(***************************************************************************)
EXTENDS Integers, FiniteSets, FiniteSetsExt

CONSTANTS
  Second, Minute, \* in ticks of the clock: parts of a second matter
  Tokens,      \* durations in ticks that the tokens of an interval may have
  Bare,        \* numbers without a unit, which are minutes
  Period,      \* seconds after which a cron expression repeats
  Shown,       \* run times shown
  MaxNow       \* bound: moments at which one looks

ASSUME PreviewAssumption ==
  /\ Second \in Nat \ {0} /\ Minute \in Nat /\ Minute % Second = 0
  /\ Tokens \subseteq Nat /\ IsFiniteSet(Tokens) /\ Bare \subseteq Int
  /\ Period \in Nat \ {0} /\ Shown \in Nat \ {0} /\ MaxNow \in Nat

VARIABLES parts, moment
previewVars == <<parts, moment>>

Every == [kind : {"every"}, tokens : (SUBSET Tokens) \ {{}}] \cup [kind : {"bare"}, n : Bare]
Cron == [kind : {"cron"}, at : (SUBSET (0..Period - 1)) \ {{}}]
Part == Every \cup Cron

PreviewTypeOK == parts \subseteq Part /\ moment \in 0..MaxNow

----------------------------------------------------------------------------
AtLeastSecond(d) == IF d < Second THEN Second ELSE d

\* NormalizeEverySpec: the tokens add up, to a second at least; a number is minutes.
Normalized(p) ==
  IF p.kind = "bare" THEN p.n * Minute ELSE AtLeastSecond(SumSet(p.tokens))

\* The library: sched.Next of a cron expression, in seconds, after tick t.
CronNext(p, t) ==
  Min({s \in (t \div Second) + 1..(t \div Second) + Period : s % Period \in p.at})

\* The library: @every is cut to whole seconds, and counted from a whole second.
EveryNext(p, t) == (t \div Second) + (AtLeastSecond(Normalized(p)) \div Second)

\* nextRunTimeSingle: times in seconds, as they are formatted.
EveryTimes(p, t) == {(t + k * AtLeastSecond(Normalized(p))) \div Second : k \in 1..Shown}

CronTimes(p, t) ==
  LET next[k \in 1..Shown] ==
        IF k = 1 THEN CronNext(p, t) ELSE CronNext(p, next[k - 1] * Second)
  IN {next[k] : k \in 1..Shown}

Earliest(S) == {s \in S : Cardinality({r \in S : r < s}) < Shown}

\* nextRunTime: each part gives as many as are shown, merged and cut.
\* Mutant: cut before they are merged, not after.
NextRunTime_CutEarly(ps, t) ==
  UNION {Earliest(IF p.kind = "cron" THEN CronTimes(p, t) ELSE EveryTimes(p, t)) : p \in ps}
NextRunTime(ps, t) ==
  Earliest(UNION {IF p.kind = "cron" THEN CronTimes(p, t) ELSE EveryTimes(p, t) : p \in ps})

----------------------------------------------------------------------------
PreviewInit ==
  /\ parts \in {{p, q} : p, q \in Part}
  /\ moment = 0

PreviewNext == moment < MaxNow /\ moment' = moment + 1 /\ UNCHANGED parts

PreviewSpec == PreviewInit /\ [][PreviewNext]_previewVars

----------------------------------------------------------------------------
(* Properties. *)

NextFiring(p, t) == IF p.kind = "cron" THEN CronNext(p, t) ELSE EveryNext(p, t)

\* The seconds at which the library runs part p, up to second limit.
Firings(p, limit) ==
  LET runs[s \in (moment \div Second)..limit] ==
        IF s = moment \div Second THEN {NextFiring(p, moment)}
        ELSE IF s \in runs[s - 1] THEN runs[s - 1] \cup {NextFiring(p, s * Second)} ELSE runs[s - 1]
  IN {s \in runs[limit] : s <= limit}

\* service/cronjob.go:194: the times shown are the next ones at which the cronjob
\* would run, of all its parts together, none left out and none twice, for intervals
\* of whole seconds and those less than one.
PreviewIsNextRuns ==
  (\A p \in parts : p.kind = "every" => SumSet(p.tokens) % Second = 0 \/ SumSet(p.tokens) < Second) =>
    LET shown == NextRunTime(parts, moment) IN
    shown = UNION {Firings(p, Max(shown)) : p \in parts} /\ Cardinality(shown) = Shown
=============================================================================
