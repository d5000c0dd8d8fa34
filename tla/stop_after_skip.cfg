\* A stop asked for after a tick was skipped.
SPECIFICATION Spec
CONSTANTS
  j1 = j1
  j2 = j2
  w1 = w1
  w2 = w2
  w3 = w3
  m1 = m1
  Jobs = {j1}
  Workers = {w1, w2}
  Admins = {m1}
  Timed = {j1}
  Cmds <- OneCommand
  Copies = {0}
  MaxRecords = 3
  MaxFaults = 0
  MaxCrashes = 0
PROPERTIES
  StopReachesRun
