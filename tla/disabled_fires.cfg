\* One request at a time, no failure.
SPECIFICATION Spec
CONSTANTS
  Jobs = {j1}
  Admins = {m1}
  Specs = {1}
  MaxEntries = 4
  MaxFaults = 0
  MaxCrashes = 0
INVARIANTS
  DisabledIsSilent
