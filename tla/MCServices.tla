----------------------------- MODULE MCServices -----------------------------
(***************************************************************************)
(* The smaller components for TLC, in one run.  They share no state, so    *)
(* that nothing is learnt from their product: each behaviour is one of the *)
(* component its focus names, and the others stay as they begin.           *)
(***************************************************************************)
EXTENDS Restore, WatchRoots, ScriptRun, LogTail, Services, Preview, TLC

CONSTANTS
  r1, r2, now, log, task,
  later, first

\* first comes with release 1 and is revised in 2, later comes with release 2.
FirstShipped == later :> 2 @@ first :> 1
FirstRevised == later :> 0 @@ first :> 2
BareMinutes == {-1, 0, 1}

VARIABLE focus

upgradeVars ==
  <<latest, binary, bak, current, checkCache, upgrading, status, upc, file, restarts, kill,
    serving, upFaults, upCrashes>>
accountVars ==
  <<user, password, default, initialized, passwords, initPc, request, failures, lockedAt, window,
    authFaults, authCrashes>>
seedingVars ==
  <<script, marked, release, seedPc, seeded, changed, toSeed, toRefresh, discarded, seedFaults, seedCrashes>>
configVars == <<groups, isDefault, stored, effective, configs, req, overlapped, several, setFaults, setStarts>>
commandVars == <<dataDir, aside, server, unit, findable, cli, rest, overwrote, newest, cliRuns, cliFaults>>
serviceVars ==
  <<focus, vars, rootVars, scriptVars, tailVars, upgradeVars, accountVars, seedingVars, configVars,
    commandVars, previewVars>>

----------------------------------------------------------------------------
Components ==
  {"restore", "roots", "runs", "view", "upgrade", "account", "seeding", "config", "cli", "times"}

\* A component that is not in the focus begins in one state only.
ServicesInit ==
  /\ focus \in Components
  /\ Init
  /\ RootsInit /\ (focus # "roots" => exists = Roots /\ events = {} /\ ~debounces /\ ~moves)
  /\ ScriptInit
  /\ TailInit /\ (focus # "view" => kind = "cron")
  /\ Up!UpInit
  /\ Account!AuthInit
  /\ Seeding!SeedInit /\ (focus # "seeding" => marked = {})
  /\ Config!SettingsInit /\ (focus # "config" => groups = {CHOOSE g \in Groups : TRUE})
  /\ Cli!CliInit /\ (focus # "cli" => unit = "started" /\ findable)
  /\ IF focus = "times" THEN PreviewInit
     ELSE moment = 0 /\ parts = {[kind |-> "bare", n |-> CHOOSE n \in Bare : TRUE]}

\* Bound: after the second crash there are restores alone, and no failure.
OnlyRestore ==
  focus = "restore" /\ Next /\ (crashes' = 2 => running' \cup pending' = {} /\ faults' = 0)
OnlyRoots == focus = "roots" /\ RootsNext
OnlyRuns == focus = "runs" /\ ScriptNext
OnlyView == focus = "view" /\ TailNext
OnlyUpgrade == focus = "upgrade" /\ Up!UpNext
OnlyAccount == focus = "account" /\ Account!AuthNext
OnlySeeding == focus = "seeding" /\ Seeding!SeedNext
OnlyConfig == focus = "config" /\ Config!SettingsNext
OnlyCli == focus = "cli" /\ Cli!CliNext
OnlyTimes == focus = "times" /\ PreviewNext

ServicesNext ==
  \/ OnlyRestore /\ UNCHANGED <<focus, rootVars, scriptVars, tailVars, upgradeVars,
       accountVars, seedingVars, configVars, commandVars, previewVars>>
  \/ OnlyRoots /\ UNCHANGED <<focus, vars, scriptVars, tailVars, upgradeVars,
       accountVars, seedingVars, configVars, commandVars, previewVars>>
  \/ OnlyRuns /\ UNCHANGED <<focus, vars, rootVars, tailVars, upgradeVars,
       accountVars, seedingVars, configVars, commandVars, previewVars>>
  \/ OnlyView /\ UNCHANGED <<focus, vars, rootVars, scriptVars, upgradeVars,
       accountVars, seedingVars, configVars, commandVars, previewVars>>
  \/ OnlyUpgrade /\ UNCHANGED <<focus, vars, rootVars, scriptVars, tailVars,
       accountVars, seedingVars, configVars, commandVars, previewVars>>
  \/ OnlyAccount /\ UNCHANGED <<focus, vars, rootVars, scriptVars, tailVars,
       upgradeVars, seedingVars, configVars, commandVars, previewVars>>
  \/ OnlySeeding /\ UNCHANGED <<focus, vars, rootVars, scriptVars, tailVars,
       upgradeVars, accountVars, configVars, commandVars, previewVars>>
  \/ OnlyConfig /\ UNCHANGED <<focus, vars, rootVars, scriptVars, tailVars,
       upgradeVars, accountVars, seedingVars, commandVars, previewVars>>
  \/ OnlyCli /\ UNCHANGED <<focus, vars, rootVars, scriptVars, tailVars,
       upgradeVars, accountVars, seedingVars, configVars, previewVars>>
  \/ OnlyTimes /\ UNCHANGED <<focus, vars, rootVars, scriptVars, tailVars,
       upgradeVars, accountVars, seedingVars, configVars, commandVars>>

\* Goroutines go on and timers fire; nothing is assumed of scripts and paths.
ServicesSpec ==
  /\ ServicesInit /\ [][ServicesNext]_serviceVars
  /\ RootsFairness
  /\ \A i \in 1..MaxRuns : WF_scriptVars(StepOf(i))

----------------------------------------------------------------------------
(* The properties of the components, under the names they have there. *)

\* Every variable of every component has its type.
ServicesTypeOK ==
  /\ TypeOK /\ RootsTypeOK
  /\ ScriptTypeOK /\ TailTypeOK /\ Up!UpTypeOK
  /\ Account!AuthTypeOK /\ Seeding!SeedTypeOK /\ Config!SettingsTypeOK
  /\ Cli!CliTypeOK /\ PreviewTypeOK
=============================================================================
