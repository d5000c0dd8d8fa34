\* Two handlers and one request on one cronjob, retain_copies 0 or 1 and changed in
\* between; a failing statement per lifetime of the process and one crash.
SPECIFICATION Spec
CONSTANTS
  j1 = j1
  j2 = j2
  w1 = w1
  w2 = w2
  w3 = w3
  m1 = m1
  Jobs = {j1}
  Workers = {w1, w2}
  Admins = {m1}
  Timed = {j1}
  Cmds <- OneCommand
  Copies = {0, 1}
  MaxRecords = 2
  MaxFaults = 1
  MaxCrashes = 1
SYMMETRY Handlers
INVARIANTS
  TypeOK
  NoDoubleRun
  RunnerHasFlag
  FlagHasRunner
  WaitingHasRunner
PROPERTIES
  VerdictFinal
  ImplementsLedger
  PruneKeepsNewest
