\* One request at a time on two tasks; an update may send a name that is taken.
SPECIFICATION Spec
CONSTANTS
  Tasks = {t1, t2}
  Admins = {m1}
  Confs = {c1}
  Retain = 1
  MaxStarts = 4
  MaxRecords = 1
  MaxFaults = 0
  MaxClashes = 1
  MaxCrashes = 0
INVARIANTS
  KeyTellsWatching
