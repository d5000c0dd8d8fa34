----------------------------- MODULE CliRestore -----------------------------
(***************************************************************************)
(* Restore on the command line: the server is stopped, the data directory  *)
(* renamed away and a new one filled from the archive, file by file; any   *)
(* call may fail and the command may be interrupted (backup_restore.go).   *)
(* What a file holds is a number, 0 for no file; 1 is the archive's.       *)
(***************************************************************************)
EXTENDS Naturals, FiniteSets

CONSTANTS
  Files,       \* that may be in a data directory
  Packed,      \* those of them in the archive
  MaxVersion,  \* bound: contents the server writes
  MaxCliRuns,  \* bound: restores begun
  MaxCliFaults \* bound: failing calls, interruptions

VARIABLES
  dataDir,     \* the data directory: the content of each file
  aside,       \* directories renamed away
  server,      \* a server works on the directory
  unit,        \* the systemd service it may be: one that is started again when it dies
  findable,    \* its command line names the directory, in the text the restore uses
  cli, rest,   \* the restore: place, files still to be written
  overwrote,   \* history: a restore went on after its rename had failed
  newest,      \* the content the server wrote last, before the restores began
  cliRuns, cliFaults

cliVars == <<dataDir, aside, server, unit, findable, cli, rest, overwrote, newest, cliRuns, cliFaults>>

Dir == [Files -> 0..MaxVersion]
Empty == [f \in Files |-> 0]
Archive == [f \in Files |-> IF f \in Packed THEN 1 ELSE 0]

CliTypeOK ==
  /\ dataDir \in Dir /\ aside \subseteq Dir /\ newest \in Dir
  /\ server \in BOOLEAN /\ unit \in {"none", "started", "stopped"}
  /\ findable \in BOOLEAN /\ overwrote \in BOOLEAN
  /\ cli \in {"none", "stop", "kill", "rename", "mkdir", "unzip", "done"}
  /\ rest \subseteq Files /\ cliRuns \in Nat /\ cliFaults \in Nat

----------------------------------------------------------------------------
Ok == UNCHANGED cliFaults
Fails == cliFaults < MaxCliFaults /\ cliFaults' = cliFaults + 1

CliInit ==
  /\ dataDir = [f \in Files |-> 2] /\ newest = dataDir /\ aside = {}
  /\ server = TRUE /\ unit \in {"none", "started"} /\ findable \in BOOLEAN
  /\ cli = "none" /\ rest = {} /\ overwrote = FALSE
  /\ cliRuns = 0 /\ cliFaults = 0

\* The server writes whenever it runs; only its own data are looked at, not what one
\* that was missed adds to those of an archive.
ServerWrites(f) ==
  /\ server /\ dataDir[f] \in 2..MaxVersion - 1
  /\ dataDir' = [dataDir EXCEPT ![f] = @ + 1]
  /\ newest' = IF newest = dataDir THEN dataDir' ELSE newest
  /\ UNCHANGED <<aside, server, unit, findable, cli, rest, overwrote, cliRuns, cliFaults>>

\* The archive is checked and the user asked before anything is touched.
CmdRestore ==
  /\ cli \in {"none", "done"} /\ cliRuns < MaxCliRuns
  /\ cliRuns' = cliRuns + 1 /\ cli' = "stop"
  /\ UNCHANGED <<dataDir, aside, server, unit, findable, rest, overwrote, newest, cliFaults>>

\* systemctl stop, whose outcome is not looked at.
StopUnit ==
  /\ cli = "stop" /\ cli' = "kill"
  /\ \/ Ok /\ unit = "started" /\ unit' = "stopped" /\ server' = FALSE
     \/ Ok /\ unit # "started" /\ UNCHANGED <<unit, server>>
     \/ Fails /\ unit = "started" /\ UNCHANGED <<unit, server>>
  /\ UNCHANGED <<findable, dataDir, aside, rest, overwrote, newest, cliRuns>>

\* Processes are found by the text of the data directory on their command line, which
\* a server started without -data lacks, terminated, and killed if they are still
\* there after a second.
\* Mutant: they are only asked to end.
StopInstance_TermOnly ==
  /\ cli = "kill" /\ cli' = "rename"
  /\ Ok /\ server' \in {server /\ ~findable, server}
  /\ UNCHANGED <<findable, dataDir, aside, unit, rest, overwrote, newest, cliRuns>>
StopInstance ==
  /\ cli = "kill" /\ cli' = "rename"
  /\ \/ Ok /\ server' = (server /\ ~findable)
     \/ Fails /\ UNCHANGED server
  /\ UNCHANGED <<findable, dataDir, aside, unit, rest, overwrote, newest, cliRuns>>

\* systemd starts a service again that it was not told to stop.
UnitRestarts ==
  /\ unit = "started" /\ ~server /\ server' = TRUE
  /\ UNCHANGED <<findable, dataDir, aside, unit, cli, rest, overwrote, newest, cliRuns, cliFaults>>

\* A rename that fails is only warned of.
\* Mutant: the directory of an earlier restore is replaced.
RenameAway_OneOnly ==
  /\ cli = "rename" /\ cli' = "mkdir"
  /\ \/ Ok /\ aside' = {dataDir} /\ dataDir' = Empty /\ UNCHANGED overwrote
     \/ Fails /\ overwrote' = TRUE /\ UNCHANGED <<aside, dataDir>>
  /\ UNCHANGED <<server, unit, findable, rest, newest, cliRuns>>
RenameAway ==
  /\ cli = "rename" /\ cli' = "mkdir"
  /\ \/ Ok /\ aside' = aside \cup {dataDir} /\ dataDir' = Empty /\ UNCHANGED overwrote
     \/ Fails /\ overwrote' = TRUE /\ UNCHANGED <<aside, dataDir>>
  /\ UNCHANGED <<server, unit, findable, rest, newest, cliRuns>>

MakeDir ==
  /\ cli = "mkdir"
  /\ \/ Ok /\ cli' = "unzip" /\ rest' = Packed
     \/ Fails /\ cli' = "none" /\ UNCHANGED rest
  /\ UNCHANGED <<dataDir, aside, server, unit, findable, overwrote, newest, cliRuns>>

\* A failing file ends the restore with what was written until then.
UnzipFile(f) ==
  /\ cli = "unzip" /\ f \in rest
  /\ \/ Ok /\ dataDir' = [dataDir EXCEPT ![f] = 1] /\ rest' = rest \ {f} /\ UNCHANGED cli
     \/ Fails /\ cli' = "none" /\ rest' = {} /\ UNCHANGED dataDir
  /\ UNCHANGED <<aside, server, unit, findable, overwrote, newest, cliRuns>>

Restored ==
  /\ cli = "unzip" /\ rest = {} /\ cli' = "done"
  /\ UNCHANGED <<dataDir, aside, server, unit, findable, rest, overwrote, newest, cliRuns, cliFaults>>

Interrupted ==
  /\ cli \notin {"none", "done"} /\ Fails
  /\ cli' = "none" /\ rest' = {}
  /\ UNCHANGED <<dataDir, aside, server, unit, findable, overwrote, newest, cliRuns>>

----------------------------------------------------------------------------
CliNext ==
  \/ \E f \in Files : ServerWrites(f) \/ UnzipFile(f)
  \/ CmdRestore \/ StopUnit \/ StopInstance \/ UnitRestarts
  \/ RenameAway \/ MakeDir \/ Restored \/ Interrupted

CliSpec == CliInit /\ [][CliNext]_cliVars

----------------------------------------------------------------------------
(* Properties. *)

\* README.md:412: the data the server had are whole in the data directory or in one
\* renamed away, however often restores fail, are interrupted and begun again,
\* unless a rename failed.
NothingIsOverwritten == newest \in aside \cup {dataDir} \/ overwrote

\* README.md:373: a restore that reports success has left exactly what is in the
\* archive, and no server works on it, if no call failed and the server was the
\* systemd service or could be found.
RestoredIsArchive ==
  cli = "done" /\ cliFaults = 0 /\ (unit # "none" \/ findable) => dataDir = Archive /\ ~server

\* What the command line promises of a restore.
CliRestoreIsSafe == NothingIsOverwritten /\ RestoredIsArchive
=============================================================================
