------------------------------- MODULE Seeds -------------------------------
(***************************************************************************)
(* The built-in scripts: SeedScripts, which runs at every start before     *)
(* requests are served, against what users do with the library, across     *)
(* releases and crashes (service/script_seed.go).                          *)
(***************************************************************************)
EXTENDS Naturals

CONSTANTS
  Names,       \* names of built-in scripts
  Ships,       \* the release each of them first comes with
  Revises,     \* the release that ships another content (0: none does)
  MaxSeedRelease, \* bound: releases
  MaxSeedFaults,  \* bound: failing statements
  MaxSeedCrashes  \* bound: crashes and restarts

VARIABLES
  script,      \* library: for each name what the script is, if there is one
  marked,      \* the setting script_seed_version
  release,     \* of the binary that runs
  seedPc, seeded, changed, toSeed, toRefresh, \* SeedScripts: place and locals
  discarded,   \* history: names whose built-in script the user deleted
  seedFaults, seedCrashes

seedLocals == <<seeded, changed, toSeed, toRefresh>>
seedVars == <<script, marked, release, seedPc, seedLocals, discarded, seedFaults, seedCrashes>>

Content == {"none", "old", "new", "users"}
Builtin == {b \in Names : Ships[b] <= release}
Revised(b) == Revises[b] # 0 /\ Revises[b] <= release
Shipped(b) == IF Revised(b) THEN "new" ELSE "old"

SeedTypeOK ==
  /\ script \in [Names -> Content] /\ marked \subseteq Names
  /\ release \in 1..MaxSeedRelease
  /\ seedPc \in {"start", "seeding", "serving"}
  /\ seeded \subseteq Names /\ toSeed \subseteq Names /\ toRefresh \subseteq Names
  /\ changed \in BOOLEAN /\ discarded \subseteq Names
  /\ seedFaults \in Nat /\ seedCrashes \in Nat

----------------------------------------------------------------------------
Ok == UNCHANGED seedFaults
Fails == seedFaults < MaxSeedFaults /\ seedFaults' = seedFaults + 1

\* A new database, or one of the first release whose setting says "1" and stands
\* for legacySeedScripts: users may have deleted or edited some of them.
SeedInit ==
  /\ release = 1
  /\ \/ marked = {} /\ script = [b \in Names |-> "none"] /\ discarded = {}
     \/ /\ marked = Builtin
        /\ script \in [Names -> Content \ {"new"}]
        /\ \A b \in Names \ Builtin : script[b] = "none"
        /\ discarded = {b \in Builtin : script[b] = "none"}
  /\ seedPc = "start" /\ seeded = {} /\ changed = FALSE /\ toSeed = {} /\ toRefresh = {}
  /\ seedFaults = 0 /\ seedCrashes = 0

\* Mutant: what is marked is not refreshed, either.
ReadMarks_NoRefresh ==
  /\ seedPc = "start" /\ seedPc' = "seeding"
  /\ \/ Ok /\ seeded' = marked
     \/ Fails /\ seeded' = {}
  /\ changed' = FALSE /\ toSeed' = Builtin
  /\ toRefresh' = {b \in Builtin \ marked : Revised(b)}
  /\ UNCHANGED <<script, marked, release, discarded, seedCrashes>>

\* SeedScripts reads the setting; one that cannot be read is taken for none.
ReadMarks ==
  /\ seedPc = "start" /\ seedPc' = "seeding"
  /\ \/ Ok /\ seeded' = marked
     \/ Fails /\ seeded' = {}
  /\ changed' = FALSE /\ toSeed' = Builtin
  /\ toRefresh' = {b \in Builtin : Revised(b)}
  /\ UNCHANGED <<script, marked, release, discarded, seedCrashes>>

\* Mutant: a script that is there already is passed over without a mark.
SeedOne_Unmarked(b) ==
  /\ seedPc = "seeding" /\ b \in toSeed /\ toSeed' = toSeed \ {b}
  /\ \/ Ok /\ (b \in seeded \/ script[b] # "none") /\ UNCHANGED <<script, seeded, changed>>
     \/ /\ Ok /\ b \notin seeded /\ script[b] = "none"
        /\ seeded' = seeded \cup {b} /\ changed' = TRUE
        /\ script' = [script EXCEPT ![b] = Shipped(b)]
     \/ Fails /\ b \notin seeded /\ UNCHANGED <<script, seeded, changed>>
  /\ UNCHANGED <<marked, release, seedPc, toRefresh, discarded, seedCrashes>>

\* One name: marked, there already, created, or failing to be.
SeedOne(b) ==
  /\ seedPc = "seeding" /\ b \in toSeed /\ toSeed' = toSeed \ {b}
  /\ \/ Ok /\ b \in seeded /\ UNCHANGED <<script, seeded, changed>>
     \/ /\ Ok /\ b \notin seeded
        /\ seeded' = seeded \cup {b} /\ changed' = TRUE
        /\ script' = IF script[b] = "none" THEN [script EXCEPT ![b] = Shipped(b)] ELSE script
     \/ Fails /\ b \notin seeded /\ UNCHANGED <<script, seeded, changed>>
  /\ UNCHANGED <<marked, release, seedPc, toRefresh, discarded, seedCrashes>>

\* A built-in script whose content is exactly what an earlier release shipped gets
\* the content of this one.
\* Mutant: whatever its content.
RefreshOne_Any(b) ==
  /\ seedPc = "seeding" /\ toSeed = {} /\ b \in toRefresh /\ toRefresh' = toRefresh \ {b}
  /\ \/ Ok /\ script[b] \in {"old", "users"} /\ script' = [script EXCEPT ![b] = "new"] /\ changed' = TRUE
     \/ Ok /\ script[b] \notin {"old", "users"} /\ UNCHANGED <<script, changed>>
     \/ Fails /\ UNCHANGED <<script, changed>>
  /\ UNCHANGED <<marked, release, seedPc, seeded, toSeed, discarded, seedCrashes>>
RefreshOne(b) ==
  /\ seedPc = "seeding" /\ toSeed = {} /\ b \in toRefresh /\ toRefresh' = toRefresh \ {b}
  /\ \/ Ok /\ script[b] = "old" /\ script' = [script EXCEPT ![b] = "new"] /\ changed' = TRUE
     \/ Ok /\ script[b] # "old" /\ UNCHANGED <<script, changed>>
     \/ Fails /\ UNCHANGED <<script, changed>>
  /\ UNCHANGED <<marked, release, seedPc, seeded, toSeed, discarded, seedCrashes>>

\* The marks are written if there is something new; an error is dropped.
WriteMarks ==
  /\ seedPc = "seeding" /\ toSeed = {} /\ toRefresh = {} /\ seedPc' = "serving"
  /\ \/ Ok /\ marked' = IF changed THEN seeded ELSE marked
     \/ Fails /\ changed /\ UNCHANGED marked
  /\ UNCHANGED <<script, release, seedLocals, discarded, seedCrashes>>

----------------------------------------------------------------------------
(* Users, once requests are served. *)

DeleteScript(b) ==
  /\ seedPc = "serving" /\ script[b] # "none"
  /\ script' = [script EXCEPT ![b] = "none"]
  /\ discarded' = IF b \in Builtin THEN discarded \cup {b} ELSE discarded
  /\ UNCHANGED <<marked, release, seedPc, seedLocals, seedFaults, seedCrashes>>

\* Edited, or a script of the user's own under that name.
WriteScript(b) ==
  /\ seedPc = "serving"
  /\ script' = [script EXCEPT ![b] = "users"]
  /\ UNCHANGED <<marked, release, seedPc, seedLocals, discarded, seedFaults, seedCrashes>>

\* The process ends, in whatever state, and starts again, perhaps as a newer release.
RestartAs(k) ==
  /\ seedCrashes < MaxSeedCrashes /\ seedCrashes' = seedCrashes + 1
  /\ release' = k
  /\ seedPc' = "start" /\ seeded' = {} /\ changed' = FALSE /\ toSeed' = {} /\ toRefresh' = {}
  /\ UNCHANGED <<script, marked, discarded, seedFaults>>

SeedNext ==
  \/ ReadMarks \/ WriteMarks
  \/ \E b \in Names : SeedOne(b) \/ RefreshOne(b) \/ DeleteScript(b) \/ WriteScript(b)
  \/ \E k \in release..MaxSeedRelease : RestartAs(k)

SeedSpec == SeedInit /\ [][SeedNext]_seedVars

----------------------------------------------------------------------------
(* Properties. *)

\* service/script_seed.go:751 (deleted scripts stay deleted) and 764 (edits are left
\* alone): a start changes nothing of what the user did, in whatever release and
\* however earlier starts were cut short; a deleted script comes back only after a
\* statement has failed.
UsersChangesStay ==
  [][\A b \in Names : seedPc = "seeding" =>
       /\ script[b] = "users" => script'[b] = "users"
       /\ b \in discarded /\ script[b] = "none" /\ seedFaults' = 0 => script'[b] = "none"]_seedVars

\* Once the process serves, every built-in script of its release is in the library,
\* with the content of this release unless edited, or was deleted.
SeedingIsComplete ==
  seedPc = "serving" /\ seedFaults = 0 =>
    \A b \in Builtin :
      /\ script[b] = "none" => b \in discarded
      /\ script[b] = "old" => ~Revised(b)
=============================================================================
