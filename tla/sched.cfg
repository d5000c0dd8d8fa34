\* Two cronjobs: two requests at a time and no crash, or one at a time and two
\* crashes; a failing statement per lifetime of the process.
SPECIFICATION MCSpec
CONSTANTS
  j1 = j1
  j2 = j2
  m1 = m1
  m2 = m2
  Jobs = {j1, j2}
  Admins = {m1, m2}
  Specs = {0, 1, 2}
  MaxEntries = 3
  MaxFaults = 1
  MaxCrashes = 2
SYMMETRY Interchangeable
INVARIANTS
  TypeOK
  EnabledIsScheduled
  RecordedAreLive
PROPERTIES
  RemovesOwn
  RestartIsExact
