\* Two requests at a time, then a restart.
SPECIFICATION Spec
CONSTANTS
  Jobs = {j1, j2}
  Admins = {m1, m2}
  Specs = {1}
  MaxEntries = 4
  MaxFaults = 0
  MaxCrashes = 1
INVARIANTS
  EnabledIsScheduled
