\* The smaller components, one at a time.
SPECIFICATION ServicesSpec
CONSTANTS
  \* Restore: two requests, one after the other or again after a crash.
  r1 = r1
  r2 = r2
  now = now
  log = log
  task = task
  Restorers = {r1, r2}
  Now = now
  Parts = {log, task}
  LogDir = log
  MaxFaults = 1
  MaxCrashes = 2
  \* WatchRoots
  Roots = {"a", "b"}
  MaxQueue = 2
  \* ScriptRun
  Scripts = {"s"}
  MaxKept = 1
  MaxRuns = 2
  MaxScriptFaults = 1
  MaxScriptCrashes = 1
  \* LogTail: two polls at a time.
  Lines = 3
  Polls = {"p", "q"}
  Views = {"script", "cron"}
  \* Upgrade
  Upgraders = {"u", "v"}
  MaxRelease = 3
  MaxRestarts = 2
  MaxUpFaults = 1
  MaxUpCrashes = 1
  \* Auth
  Sessions = {"s", "t"}
  MaxAttempts = 2
  MaxPasswords = 3
  MaxAuthFaults = 1
  MaxAuthCrashes = 1
  \* Seeds
  later = later
  first = first
  Names = {later, first}
  Ships <- FirstShipped
  Revises <- FirstRevised
  MaxSeedRelease = 2
  MaxSeedFaults = 1
  MaxSeedCrashes = 3
  \* Settings
  Groups = {"g", "h", "i"}
  Savers = {"s", "t"}
  MaxConfigs = 1
  MaxSetFaults = 1
  MaxSetStarts = 1
  \* CliRestore: one file of the data directory is not in the archive.
  Files = {"db", "log", "other"}
  Packed = {"db", "log"}
  MaxVersion = 3
  MaxCliRuns = 2
  MaxCliFaults = 1
  \* Preview: a second has two ticks.
  Second = 2
  Minute = 8
  Tokens = {1, 2, 4}
  Bare <- BareMinutes
  Period = 5
  Shown = 3
  MaxNow = 5
INVARIANTS
  ServicesTypeOK
  WholeData
  NothingLost
  UnwatchedIsKnown
  ScriptPendingIsRun
  ScriptHistoryIsBounded
  TailShowsAll
  BusyIsUnderWay
  AccountIsSound
  FailuresAreBounded
  SeedingIsComplete
  DefaultIsUnique
  StoredIsEffective
  CliRestoreIsSafe
  PreviewIsNextRuns
PROPERTIES
  
  WatchedAgain
  ClosedEnds
  ScriptStopEnds
  ReplacedIsKept
  UsersChangesStay
CHECK_DEADLOCK FALSE
