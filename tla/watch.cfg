\* One task: two requests at a time and one record, or one request at a time and three;
\* a failure per process lifetime, a crash.
SPECIFICATION MCSpec
CONSTANTS
  t1 = t1
  t2 = t2
  m1 = m1
  m2 = m2
  c1 = c1
  c2 = c2
  Tasks = {t1}
  Admins = {m1, m2}
  Confs = {c1, c2}
  Retain = 1
  MaxStarts = 2
  MaxRecords = 3
  MaxFaults = 1
  MaxClashes = 0
  MaxCrashes = 1
SYMMETRY Interchangeable
INVARIANTS
  TypeOK
  NoLeak
  EnabledIsWatched
  WaitingHasRun
