------------------------------ MODULE Upgrade ------------------------------
(***************************************************************************)
(* The online upgrade of a release build: the state Perform, Restart and   *)
(* doUpgrade share, the files they leave, and the restart that ends the    *)
(* process (upgrade/upgrade.go).  Releases are numbered in their order.    *)
(***************************************************************************)
EXTENDS Naturals

CONSTANTS
  Upgraders,   \* goroutines of Perform there may be at a time
  MaxRelease,  \* bound: releases published
  MaxRestarts, \* bound: goroutines of Restart at a time
  MaxUpFaults,   \* bound: failing calls per process lifetime
  MaxUpCrashes   \* bound: crashes of the process

VARIABLES
  latest,      \* the newest release published
  binary,      \* the release at BinPath
  bak,         \* the release at BinPath.bak, 0 if there is none or only part of one
  current,     \* currentVersion of the process
  checkCache,  \* what Check found in the last 10 minutes, 0 for nothing
  running, status, \* of upgradeState
  upc, file,   \* of each goroutine: where it is, the release in its temporary file (0: other bytes)
  restarts,    \* goroutines of Restart that have not reached restartService
  kill,        \* the command that ends and restarts the process is on its way
  serving, upFaults, upCrashes

disk == <<binary, bak>>
shared == <<running, status>>
life == <<current, serving, upCrashes>>
upVars == <<latest, disk, checkCache, shared, upc, file, restarts, kill, life, upFaults>>

Stage == {"none", "check", "download", "verify", "backup", "copying", "swap", "end"}

UpTypeOK ==
  /\ latest \in 1..MaxRelease /\ binary \in 0..MaxRelease
  /\ bak \in 0..MaxRelease /\ current \in 0..MaxRelease /\ checkCache \in 0..MaxRelease
  /\ running \in BOOLEAN
  /\ status \in {"", "downloading", "verifying", "swapping", "restarting", "error"}
  /\ upc \in [Upgraders -> Stage] /\ file \in [Upgraders -> 0..MaxRelease]
  /\ restarts \in Nat /\ kill \in BOOLEAN
  /\ serving \in BOOLEAN /\ upFaults \in Nat /\ upCrashes \in Nat

----------------------------------------------------------------------------
Ok == upFaults' = upFaults
Fails == upFaults < MaxUpFaults /\ upFaults' = upFaults + 1

UpInit ==
  /\ latest = 1 /\ binary = 1 /\ bak = 0 /\ current = 1
  /\ checkCache = 0 /\ running = FALSE /\ status = ""
  /\ upc = [u \in Upgraders |-> "none"] /\ file = [u \in Upgraders |-> 0]
  /\ restarts = 0 /\ kill = FALSE
  /\ serving = TRUE /\ upFaults = 0 /\ upCrashes = 0

Publish ==
  /\ latest < MaxRelease /\ latest' = latest + 1
  /\ UNCHANGED <<disk, checkCache, shared, upc, file, restarts, kill, life, upFaults>>

Goto(u, l) == upc' = [upc EXCEPT ![u] = l]

\* The end of a failed doUpgrade; the temporary file is removed on the way out.
\* Mutant: running is not reset.
GiveUp_StaysRunning(u) ==
  /\ Goto(u, "none") /\ status' = "error" /\ UNCHANGED running
GiveUp(u) ==
  /\ Goto(u, "none") /\ status' = "error" /\ running' = FALSE

----------------------------------------------------------------------------
(* Check. *)

\* The release Check reports: the cached one, or the latest, which is cached.
Found == IF checkCache # 0 THEN checkCache ELSE latest

\* The page asks too.
Check ==
  /\ serving /\ checkCache' = Found
  /\ UNCHANGED <<latest, disk, shared, upc, file, restarts, kill, life, upFaults>>

CacheExpires ==
  /\ checkCache # 0 /\ checkCache' = 0
  /\ UNCHANGED <<latest, disk, shared, upc, file, restarts, kill, life, upFaults>>

----------------------------------------------------------------------------
(* Perform, and the goroutine it starts. *)

\* Mutant: the status is tested instead of running.
Perform_ByStatus(u) ==
  /\ serving /\ upc[u] = "none" /\ status # "downloading"
  /\ running' = TRUE /\ status' = "downloading" /\ Goto(u, "check")
  /\ UNCHANGED <<latest, disk, checkCache, file, restarts, kill, life, upFaults>>
Perform(u) ==
  /\ serving /\ upc[u] = "none" /\ ~running
  /\ running' = TRUE /\ status' = "downloading" /\ Goto(u, "check")
  /\ UNCHANGED <<latest, disk, checkCache, file, restarts, kill, life, upFaults>>

CheckUpdate(u) ==
  /\ upc[u] = "check"
  /\ \/ /\ Ok /\ checkCache' = Found
        /\ IF Found > current THEN Goto(u, "download") /\ UNCHANGED shared ELSE GiveUp(u)
     \/ Fails /\ checkCache = 0 /\ GiveUp(u) /\ UNCHANGED checkCache
  /\ UNCHANGED <<latest, disk, file, restarts, kill, life>>

\* The asset of the release that is the latest by now, or a download that fails or
\* comes with other bytes.
Download(u) ==
  /\ upc[u] = "download"
  /\ \/ Ok /\ file' = [file EXCEPT ![u] = latest]
     \/ Fails /\ file' = [file EXCEPT ![u] = 0]
  /\ \/ Goto(u, "verify") /\ status' = "verifying" /\ UNCHANGED running
     \/ file'[u] = 0 /\ GiveUp(u)
  /\ UNCHANGED <<latest, disk, checkCache, restarts, kill, life>>

\* The published sum is that of the latest release, too.
\* Mutant: a sum that differs is only logged.
Verify_Logged(u) ==
  /\ upc[u] = "verify"
  /\ \/ Ok /\ Goto(u, "backup") /\ status' = "swapping" /\ UNCHANGED running
     \/ Fails /\ GiveUp(u)
  /\ UNCHANGED <<latest, disk, checkCache, file, restarts, kill, life>>
Verify(u) ==
  /\ upc[u] = "verify"
  /\ \/ /\ Ok
        /\ IF file[u] = latest THEN Goto(u, "backup") /\ status' = "swapping" /\ UNCHANGED running
           ELSE GiveUp(u)
     \/ Fails /\ GiveUp(u)
  /\ UNCHANGED <<latest, disk, checkCache, file, restarts, kill, life>>

\* copyFile truncates the .bak there is ...
OpenBak(u) ==
  /\ upc[u] = "backup"
  /\ \/ Ok /\ bak' = 0 /\ Goto(u, "copying") /\ UNCHANGED shared
     \/ Fails /\ GiveUp(u) /\ UNCHANGED bak
  /\ UNCHANGED <<latest, binary, checkCache, file, restarts, kill, life>>

\* ... and fills it.
CopyBak(u) ==
  /\ upc[u] = "copying"
  /\ \/ Ok /\ bak' = binary /\ Goto(u, "swap") /\ UNCHANGED shared
     \/ Fails /\ GiveUp(u) /\ UNCHANGED bak
  /\ UNCHANGED <<latest, binary, checkCache, file, restarts, kill, life>>

Rename(u) ==
  /\ upc[u] = "swap"
  /\ \/ Ok /\ binary' = file[u] /\ status' = "restarting" /\ Goto(u, "end") /\ UNCHANGED running
     \/ Fails /\ GiveUp(u) /\ UNCHANGED binary
  /\ UNCHANGED <<latest, bak, checkCache, file, restarts, kill, life>>

\* restartService at the end of an upgrade: running is left true.
RestartUpgraded(u) ==
  /\ upc[u] = "end" /\ Goto(u, "none")
  /\ \/ Ok /\ kill' = TRUE
     \/ Fails /\ UNCHANGED kill
  /\ UNCHANGED <<latest, disk, checkCache, shared, file, restarts, life>>

----------------------------------------------------------------------------
(* Restart, and the end of the process. *)

Restart ==
  /\ serving /\ ~running /\ status # "restarting" /\ restarts < MaxRestarts
  /\ status' = "restarting" /\ restarts' = restarts + 1
  /\ UNCHANGED <<latest, disk, checkCache, running, upc, file, kill, life, upFaults>>

RestartService ==
  /\ restarts > 0 /\ restarts' = restarts - 1
  /\ \/ Ok /\ kill' = TRUE
     \/ Fails /\ UNCHANGED kill
  /\ UNCHANGED <<latest, disk, checkCache, shared, upc, file, life>>

\* What the process knew is gone; its files stay as they are.
Gone ==
  /\ serving /\ serving' = FALSE
  /\ upc' = [u \in Upgraders |-> "none"] /\ file' = [u \in Upgraders |-> 0]
  /\ running' = FALSE /\ status' = "" /\ checkCache' = 0 /\ restarts' = 0

Killed ==
  /\ kill /\ kill' = FALSE /\ Gone
  /\ UNCHANGED <<latest, disk, current, upCrashes, upFaults>>

\* The outcome of systemctl restart is not looked at.
RestartFails ==
  /\ kill /\ kill' = FALSE /\ Fails
  /\ UNCHANGED <<latest, disk, checkCache, shared, upc, file, restarts, life>>

\* A crash, or a stop by hand.  The command that is on its way still comes, unless
\* it is one that ends this very process.
Crash ==
  /\ upCrashes < MaxUpCrashes /\ upCrashes' = upCrashes + 1 /\ Gone
  /\ kill' \in {kill, FALSE}
  /\ UNCHANGED <<latest, disk, current, upFaults>>

Boot ==
  /\ ~serving /\ serving' = TRUE
  /\ current' = binary /\ upFaults' = 0
  /\ UNCHANGED <<latest, disk, checkCache, shared, upc, file, restarts, kill, upCrashes>>

----------------------------------------------------------------------------
Upgrading(u) ==
  \/ CheckUpdate(u) \/ Download(u) \/ Verify(u) \/ OpenBak(u) \/ CopyBak(u)
  \/ Rename(u) \/ RestartUpgraded(u)

UpNext ==
  \/ Publish \/ Check \/ CacheExpires
  \/ \E u \in Upgraders : Perform(u) \/ Upgrading(u)
  \/ Restart \/ RestartService
  \/ Killed \/ RestartFails \/ Crash \/ Boot

UpSpec == UpInit /\ [][UpNext]_upVars

----------------------------------------------------------------------------
(* Properties. *)

\* doUpgrade (download, verify, back up, rename): what replaces the binary is a whole
\* published release, whatever the download brought and was published meanwhile,
\* and the one it replaces is whole in .bak: no second upgrade works on the same
\* files, in this process or after one that was stopped half way.
ReplacedIsKept == [][binary' # binary => bak = binary /\ binary' \in 1..latest]_upVars

\* Perform and Restart refuse for good only after a call that failed: otherwise the
\* upgrade or the restart they wait for is under way, and so is the end of the
\* process when that is over.
BusyIsUnderWay ==
  serving /\ upFaults = 0 /\ (running \/ status = "restarting") =>
    kill \/ restarts > 0 \/ \E u \in Upgraders : upc[u] # "none"
=============================================================================
