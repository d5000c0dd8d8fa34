\* No failing statement; two commands per run, a stop, a timeout, a crash.
SPECIFICATION FairSpec
CONSTANTS
  j1 = j1
  j2 = j2
  w1 = w1
  w2 = w2
  w3 = w3
  m1 = m1
  Jobs = {j1}
  Workers = {w1, w2}
  Admins = {m1}
  Timed = {j1}
  Cmds <- TwoCommands
  Copies = {1}
  MaxRecords = 2
  MaxFaults = 0
  MaxCrashes = 1
PROPERTIES
  RunEnds
  StopEnds
