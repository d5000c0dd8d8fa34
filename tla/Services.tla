------------------------------ MODULE Services ------------------------------
(***************************************************************************)
(* The components of the server that keep state of their own, with the     *)
(* properties they promise under one name each: restore on the command     *)
(* line, groups and settings, the built-in scripts, the account and the    *)
(* online upgrade.                                                         *)
(***************************************************************************)
EXTENDS Naturals, FiniteSets

CONSTANTS
  Files, Packed, MaxVersion, MaxCliRuns, MaxCliFaults,
  Groups, Savers, MaxConfigs, MaxSetFaults, MaxSetStarts,
  Names, Ships, Revises, MaxSeedRelease, MaxSeedFaults, MaxSeedCrashes,
  Sessions, MaxAttempts, MaxPasswords, MaxAuthFaults, MaxAuthCrashes,
  Upgraders, MaxRelease, MaxRestarts, MaxUpFaults, MaxUpCrashes

ASSUME ServicesAssumption ==
  /\ Packed \subseteq Files /\ MaxVersion \in Nat /\ MaxVersion >= 2
  /\ MaxConfigs \in Nat /\ MaxSeedRelease \in Nat \ {0}
  /\ MaxPasswords \in Nat /\ MaxRelease \in Nat \ {0}

VARIABLES
  dataDir, aside, server, unit, findable, cli, rest, overwrote, newest, cliRuns, cliFaults,
  groups, isDefault, stored, effective, configs, req, overlapped, several, setFaults, setStarts,
  script, marked, release, seedPc, seeded, changed, toSeed, toRefresh, discarded, seedFaults, seedCrashes,
  user, password, default, initialized, passwords, initPc, request, failures, lockedAt, window,
  authFaults, authCrashes,
  latest, binary, bak, current, checkCache, upgrading, status, upc, file, restarts, kill,
  serving, upFaults, upCrashes

Cli == INSTANCE CliRestore
Config == INSTANCE Settings
Seeding == INSTANCE Seeds
Account == INSTANCE Auth WITH task <- request
Up == INSTANCE Upgrade WITH running <- upgrading

----------------------------------------------------------------------------
\* CliRestore: nothing is overwritten, and success means the archive's data.
CliRestoreIsSafe == Cli!CliRestoreIsSafe
\* Settings: one default group, as long as one at a time gives it.
DefaultIsUnique == Config!DefaultIsUnique
\* Settings: notifications use what is stored.
StoredIsEffective == Config!StoredIsEffective
\* Seeds: a start brings every built-in script up to its release.
SeedingIsComplete == Seeding!SeedingIsComplete
\* Seeds: a start leaves alone what users did to built-in scripts.
UsersChangesStay == Seeding!UsersChangesStay
\* Auth: an account that counts as created can be used, and with the password shown.
AccountIsSound == Account!AccountIsSound
\* Auth: failed logins beyond the limit are those that were past the lock.
FailuresAreBounded == Account!FailuresAreBounded
\* Upgrade: what refuses requests is under way, or has failed.
BusyIsUnderWay == Up!BusyIsUnderWay
\* Upgrade: the binary is replaced by a whole release, and kept whole itself.
ReplacedIsKept == Up!ReplacedIsKept
=============================================================================
