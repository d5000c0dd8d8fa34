SPECIFICATION Spec
CONSTANTS
  r1 = r1
  r2 = r2
  now = now
  log = log
  task = task
  Restorers = {r1, r2}
  Now = now
  Parts = {log, task}
  LogDir = log
  MaxFaults = 1
  MaxCrashes = 1
INVARIANTS
  RefusedKeepsSchedule
