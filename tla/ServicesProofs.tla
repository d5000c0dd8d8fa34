--------------------------- MODULE ServicesProofs ---------------------------
(***************************************************************************)
(* Proofs about the components of the server that work on state of their   *)
(* own: restore on the command line, the settings written in several       *)
(* steps, the built-in scripts, the account and the online upgrade; and    *)
(* that the variables of all smaller components keep their types.  Each    *)
(* holds for any constants, except where a statement names what it needs.  *)
(***************************************************************************)
EXTENDS MCServices, RestoreProofs, FollowProofs, PreviewProofs

----------------------------------------------------------------------------
(* CliRestore. *)

\* What the command touches has its type: the directories are functions on the files.
CliTypes ==
  /\ dataDir = [f \in Files |-> dataDir[f]]
  /\ unit \in {"none", "started", "stopped"} /\ cliFaults \in Nat

\* Until a rename has failed, the data of the server are in the data directory, or in
\* one renamed away, and then the data directory holds nothing the server would go on
\* writing: this is what makes a second restore harmless.
KeptInv ==
  \/ overwrote
  \/ newest = dataDir /\ cli \notin {"mkdir", "unzip"}
  \/ newest \in aside /\ \A f \in Files : dataDir[f] \in {0, 1}

\* While no call has failed, the unit stays stopped from the kill on, and so does a
\* server that can be found from the rename on; what was extracted so far is in the
\* data directory.
StoppedInv ==
  cliFaults = 0 =>
    /\ unit = "stopped" => ~server
    /\ cli \in {"kill", "rename", "mkdir", "unzip", "done"} => unit # "started"
    /\ cli \in {"rename", "mkdir", "unzip", "done"} /\ findable => ~server
    /\ cli = "mkdir" => dataDir = Cli!Empty
    /\ cli = "unzip" =>
         rest \subseteq Packed /\ dataDir = [f \in Files |-> IF f \in Packed \ rest THEN 1 ELSE 0]
    /\ cli = "done" => dataDir = Cli!Archive

CliInv == CliTypes /\ KeptInv /\ StoppedInv

\* The invariant holds at first.
LEMMA CliInvInit == Cli!CliInit => CliInv
BY DEF Cli!CliInit, CliInv, CliTypes, KeptInv, StoppedInv

\* Every step keeps it.
LEMMA CliInvStep == CliInv /\ [Cli!CliNext]_(Cli!cliVars) => CliInv'
<1>. SUFFICES ASSUME CliInv, [Cli!CliNext]_(Cli!cliVars) PROVE CliInv'
  OBVIOUS
<1>. USE DEF Cli!Ok, Cli!Fails
<1>1. ASSUME NEW f \in Files, Cli!ServerWrites(f) PROVE CliInv'
  <2>1. /\ dataDir' = [dataDir EXCEPT ![f] = dataDir[f] + 1]
        /\ newest' = IF newest = dataDir THEN dataDir' ELSE newest
        /\ server /\ UNCHANGED <<aside, server, unit, findable, cli, rest, overwrote, cliFaults>>
    BY <1>1 DEF Cli!ServerWrites
  <2>2. dataDir[f] \notin {0, 1}
    BY <1>1 DEF Cli!ServerWrites
  <2>3. CliTypes'
    BY <2>1 DEF CliInv, CliTypes
  <2>4. KeptInv'
    BY <2>1, <2>2 DEF CliInv, CliTypes, KeptInv
  <2>5. StoppedInv'
    <3>1. CASE cliFaults = 0
      <4>1. cli \notin {"mkdir", "unzip", "done"}
        BY <1>1, <2>2, <3>1 DEF CliInv, StoppedInv, Cli!Empty, Cli!Archive
      <4>2. QED
        BY <2>1, <3>1, <4>1 DEF CliInv, StoppedInv
    <3>2. CASE cliFaults # 0
      BY <2>1, <3>2 DEF StoppedInv
    <3>3. QED
      BY <3>1, <3>2
  <2>6. QED
    BY <2>3, <2>4, <2>5 DEF CliInv
<1>2. CASE Cli!CmdRestore
  <2>1. CliTypes'
    BY <1>2 DEF Cli!CmdRestore, CliInv, CliTypes
  <2>2. KeptInv'
    BY <1>2 DEF Cli!CmdRestore, CliInv, CliTypes, KeptInv
  <2>3. StoppedInv'
    BY <1>2 DEF Cli!CmdRestore, CliInv, CliTypes, StoppedInv
  <2>4. QED
    BY <2>1, <2>2, <2>3 DEF CliInv
<1>3. CASE Cli!StopUnit
  <2>1. CliTypes'
    BY <1>3 DEF Cli!StopUnit, CliInv, CliTypes
  <2>2. KeptInv'
    BY <1>3 DEF Cli!StopUnit, CliInv, CliTypes, KeptInv
  <2>3. StoppedInv'
    BY <1>3 DEF Cli!StopUnit, CliInv, CliTypes, StoppedInv
  <2>4. QED
    BY <2>1, <2>2, <2>3 DEF CliInv
<1>4. CASE Cli!StopInstance
  <2>1. CliTypes'
    BY <1>4 DEF Cli!StopInstance, CliInv, CliTypes
  <2>2. KeptInv'
    BY <1>4 DEF Cli!StopInstance, CliInv, CliTypes, KeptInv
  <2>3. StoppedInv'
    <3>1. /\ cli = "kill" /\ cli' = "rename" /\ UNCHANGED <<findable, unit>>
          /\ StoppedInv /\ cliFaults \in Nat
      BY <1>4 DEF Cli!StopInstance, CliInv, CliTypes
    <3>2. CASE cliFaults' = cliFaults /\ server' = (server /\ ~findable)
      <4>1. server' => server /\ ~findable
        BY <3>2
      <4>2. QED
        BY <3>1, <3>2, <4>1 DEF StoppedInv
    <3>3. CASE cliFaults' = cliFaults + 1
      BY <3>1, <3>3 DEF StoppedInv
    <3>4. QED
      BY <1>4, <3>2, <3>3 DEF Cli!StopInstance
  <2>4. QED
    BY <2>1, <2>2, <2>3 DEF CliInv
<1>5. CASE Cli!UnitRestarts
  <2>1. CliTypes'
    BY <1>5 DEF Cli!UnitRestarts, CliInv, CliTypes
  <2>2. KeptInv'
    BY <1>5 DEF Cli!UnitRestarts, CliInv, CliTypes, KeptInv
  <2>3. StoppedInv'
    BY <1>5 DEF Cli!UnitRestarts, CliInv, CliTypes, StoppedInv
  <2>4. QED
    BY <2>1, <2>2, <2>3 DEF CliInv
<1>6. CASE Cli!RenameAway
  <2>1. CliTypes'
    BY <1>6 DEF Cli!RenameAway, CliInv, CliTypes, Cli!Empty
  <2>2. KeptInv'
    BY <1>6 DEF Cli!RenameAway, CliInv, CliTypes, KeptInv, Cli!Empty
  <2>3. StoppedInv'
    BY <1>6 DEF Cli!RenameAway, CliInv, CliTypes, StoppedInv
  <2>4. QED
    BY <2>1, <2>2, <2>3 DEF CliInv
<1>7. CASE Cli!MakeDir
  BY <1>7 DEF Cli!MakeDir, Cli!Empty, CliInv, CliTypes, KeptInv, StoppedInv
<1>8. ASSUME NEW f \in Files, Cli!UnzipFile(f) PROVE CliInv'
  <2>1. CASE dataDir' = [dataDir EXCEPT ![f] = 1] /\ rest' = rest \ {f} /\ cli' = cli
             /\ cliFaults' = cliFaults
    <3>1. CliTypes'
      BY <1>8, <2>1 DEF Cli!UnzipFile, CliInv, CliTypes
    <3>2. KeptInv'
      BY <1>8, <2>1 DEF Cli!UnzipFile, CliInv, CliTypes, KeptInv
    <3>3. StoppedInv'
      BY <1>8, <2>1 DEF Cli!UnzipFile, CliInv, CliTypes, StoppedInv
    <3>4. QED
      BY <3>1, <3>2, <3>3 DEF CliInv
  <2>2. CASE cliFaults' = cliFaults + 1 /\ cli' = "none" /\ dataDir' = dataDir
    BY <1>8, <2>2 DEF Cli!UnzipFile, CliInv, CliTypes, KeptInv, StoppedInv
  <2>3. QED
    BY <1>8, <2>1, <2>2 DEF Cli!UnzipFile
<1>9. CASE Cli!Restored
  BY <1>9 DEF Cli!Restored, Cli!Archive, CliInv, CliTypes, KeptInv, StoppedInv
<1>10. CASE Cli!Interrupted
  BY <1>10 DEF Cli!Interrupted, CliInv, CliTypes, KeptInv, StoppedInv
<1>11. CASE UNCHANGED Cli!cliVars
  BY <1>11 DEF Cli!cliVars, CliInv, CliTypes, KeptInv, StoppedInv
<1>12. QED
  BY <1>1, <1>2, <1>3, <1>4, <1>5, <1>6, <1>7, <1>8, <1>9, <1>10, <1>11 DEF Cli!CliNext

\* Restore on the command line, however often it is begun, fails and is interrupted:
\* the data of the server are whole in some directory unless a rename failed, and a
\* success without a failed call means the data of the archive and no server on them,
\* if the server was the systemd service or could be found by its command line.
THEOREM CliRestoreKeepsData == Cli!CliSpec => []CliRestoreIsSafe
<1>1. CliInv => Cli!CliRestoreIsSafe
  BY DEF CliInv, KeptInv, StoppedInv, Cli!CliRestoreIsSafe, Cli!NothingIsOverwritten,
         Cli!RestoredIsArchive, CliTypes
<1>2. QED
  BY <1>1, CliInvInit, CliInvStep, PTL DEF Cli!CliSpec, CliRestoreIsSafe

----------------------------------------------------------------------------
(* Settings. *)

\* What a request is doing.
ConfigReq == [at : Config!ReqAt, group : Groups \cup {""}, wants : BOOLEAN, config : Nat]

\* The part of the types the arguments need.
SettingsTypes ==
  /\ req \in [Savers -> ConfigReq]
  /\ stored \in Nat /\ configs \in Nat /\ setFaults \in Nat

\* As long as no requests have overlapped there is one at a time.
OneRequest ==
  ~overlapped => \A s, t \in Savers : req[s].at # "none" /\ req[t].at # "none" => s = t

\* As long as one at a time gives the default, there is one request that wants to, and
\* no default between the step that takes it from all groups and the one that gives it.
DefaultInv ==
  ~several =>
    /\ \A g, h \in isDefault : g = h
    /\ \A s, t \in Savers : req[s].wants /\ req[t].wants => s = t
    /\ \A s \in Savers : req[s].at = "update" /\ req[s].wants => isDefault = {}

\* What notifications use is what is stored, or nothing after a failed read.
InEffect == effective = stored \/ (setFaults > 0 /\ effective = 0)

\* It holds but between the write of a configuration and the step that applies it,
\* which has the right one in hand.
EffectInv ==
  ~overlapped =>
    /\ (\A s \in Savers : req[s].at \notin {"apply", "read", "load"}) => InEffect
    /\ \A s \in Savers :
         /\ req[s].at = "apply" => req[s].config = stored
         /\ req[s].at = "load" => req[s].config = stored \/ (setFaults > 0 /\ req[s].config = 0)

\* What a request that begins may be doing has its type.
LEMMA NewReqType ==
  ASSUME NEW l \in Config!ReqAt, NEW g \in Groups \cup {""}, NEW w \in BOOLEAN, NEW c \in Nat
  PROVE  /\ [Config!NoReq EXCEPT !.at = l, !.group = g, !.wants = w] \in ConfigReq
         /\ [Config!NoReq EXCEPT !.at = l, !.group = g] \in ConfigReq
         /\ [Config!NoReq EXCEPT !.at = l, !.config = c] \in ConfigReq
BY DEF Config!NoReq, ConfigReq

\* A request that begins.
LEMMA BeginStep ==
  ASSUME SettingsTypes, NEW s \in Savers, NEW r \in ConfigReq, Config!Begin(s, r)
  PROVE  /\ req' \in [Savers -> ConfigReq] /\ OneRequest'
         /\ req'[s] = r /\ \A t \in Savers \ {s} : req'[t] = req[t]
         /\ ~overlapped' => ~overlapped /\ \A t \in Savers : req[t].at = "none"
BY DEF SettingsTypes, Config!Begin, OneRequest

\* A request that goes on.
LEMMA GotoStep ==
  ASSUME SettingsTypes, OneRequest, NEW s \in Savers, NEW l \in Config!ReqAt, req[s].at # "none",
         Config!Goto(s, l), overlapped' = overlapped
  PROVE  /\ req' \in [Savers -> ConfigReq] /\ OneRequest'
         /\ req'[s].at = l /\ req'[s].config = req[s].config /\ req'[s].wants = req[s].wants
         /\ \A t \in Savers \ {s} : req'[t] = req[t]
BY DEF SettingsTypes, ConfigReq, Config!Goto, OneRequest

\* A request that ends.
LEMMA EndStep ==
  ASSUME SettingsTypes, OneRequest, NEW s \in Savers, Config!End(s), overlapped' = overlapped
  PROVE  /\ req' \in [Savers -> ConfigReq] /\ OneRequest'
         /\ req'[s].at = "none" /\ ~req'[s].wants /\ \A t \in Savers \ {s} : req'[t] = req[t]
<1>1. Config!NoReq \in ConfigReq /\ Config!NoReq.at = "none" /\ ~Config!NoReq.wants
  BY DEF Config!NoReq, ConfigReq, Config!ReqAt
<1>2. QED
  BY <1>1 DEF SettingsTypes, Config!End, OneRequest

\* A step that adds no default, and after which no more requests want to give it.
LEMMA DefaultStays ==
  ASSUME DefaultInv, isDefault' \subseteq isDefault, ~several' => ~several,
         \A t \in Savers : req'[t].wants => req[t].wants /\ (req'[t].at = "update" => req[t].at = "update")
  PROVE  DefaultInv'
BY DEF DefaultInv

\* Together they are what the configurations and the default group rest on.
SettingsInv == SettingsTypes /\ OneRequest /\ DefaultInv /\ EffectInv

\* The invariant holds at first.
LEMMA SettingsInvInit == ASSUME Config!SettingsInit PROVE SettingsInv
<1>1. /\ req = [s \in Savers |-> Config!NoReq] /\ stored = 0 /\ effective = 0 /\ configs = 0
      /\ setFaults = 0
  BY DEF Config!SettingsInit
<1>2. Config!NoReq \in ConfigReq /\ Config!NoReq.at = "none" /\ ~Config!NoReq.wants
  BY DEF Config!NoReq, ConfigReq, Config!ReqAt
<1>3. SettingsTypes /\ OneRequest /\ EffectInv
  BY <1>1, <1>2 DEF SettingsTypes, OneRequest, EffectInv, InEffect
<1>4. PICK g \in Groups : isDefault = {g}
  BY DEF Config!SettingsInit
<1>5. DefaultInv
  BY <1>1, <1>2, <1>4 DEF DefaultInv
<1>6. QED
  BY <1>3, <1>5 DEF SettingsInv

\* A request that begins keeps it.
LEMMA BeginKeeps ==
  ASSUME SettingsInv, NEW s \in Savers, NEW r \in ConfigReq, Config!Begin(s, r),
         DefaultInv', r.at \notin {"apply", "load"}, UNCHANGED <<effective, setFaults>>,
         configs' \in Nat, stored' \in Nat, stored' = stored \/ r.at = "read"
  PROVE  SettingsInv'
<1>1. SettingsTypes /\ OneRequest /\ EffectInv
  BY DEF SettingsInv
<1>2. /\ req' \in [Savers -> ConfigReq] /\ OneRequest'
      /\ req'[s] = r /\ \A t \in Savers \ {s} : req'[t] = req[t]
      /\ ~overlapped' => ~overlapped /\ \A t \in Savers : req[t].at = "none"
  BY <1>1, BeginStep
<1>3. SettingsTypes'
  BY <1>1, <1>2 DEF SettingsTypes
<1>6. ASSUME ~overlapped' PROVE InEffect /\ \A t \in Savers \ {s} : req'[t].at = "none"
  BY <1>1, <1>2, <1>6 DEF EffectInv
<1>7. EffectInv'
  BY <1>2, <1>6 DEF EffectInv, InEffect
<1>8. QED
  BY <1>2, <1>3, <1>7 DEF SettingsInv

\* It keeps the default, too, when it is not one that wants to give it.
LEMMA BeginLeaves ==
  ASSUME SettingsInv, NEW s \in Savers, NEW r \in ConfigReq, Config!Begin(s, r), ~r.wants,
         isDefault' = isDefault, ~several' => ~several
  PROVE  DefaultInv'
<1>1. SettingsTypes /\ DefaultInv
  BY DEF SettingsInv
<1>2. req'[s] = r /\ \A t \in Savers \ {s} : req'[t] = req[t]
  BY <1>1, BeginStep
<1>3. QED
  BY <1>1, <1>2, DefaultStays

\* A request that ends, and leaves what is stored in effect, keeps it.
LEMMA EndKeeps ==
  ASSUME SettingsInv, NEW s \in Savers, req[s].at # "none", Config!End(s),
         DefaultInv', UNCHANGED <<overlapped, stored, configs>>, setFaults' \in Nat,
         ~overlapped => InEffect'
  PROVE  SettingsInv'
<1>1. SettingsTypes /\ OneRequest /\ EffectInv
  BY DEF SettingsInv
<1>2. /\ req' \in [Savers -> ConfigReq] /\ OneRequest'
      /\ req'[s].at = "none" /\ \A t \in Savers \ {s} : req'[t] = req[t]
  BY <1>1, EndStep
<1>3. SettingsTypes'
  BY <1>1, <1>2 DEF SettingsTypes
<1>4. ASSUME ~overlapped PROVE \A t \in Savers : req'[t].at = "none"
  BY <1>1, <1>2, <1>4 DEF OneRequest
<1>5. EffectInv'
  BY <1>4 DEF EffectInv
<1>6. QED
  BY <1>2, <1>3, <1>5 DEF SettingsInv

\* The cardinality Settings speaks of is that of the facts about finite sets.
LEMMA SameCardinality ==
  ASSUME NEW S
  PROVE  Config!Cardinality(S) = Cardinality(S)
BY DEF Config!Cardinality, Cardinality

\* The statements that fail at a start are counted.
LEMMA FailingStatements ==
  ASSUME NEW failing \in SUBSET {"config", "groups"}
  PROVE  /\ Config!Cardinality(failing) \in Nat
         /\ failing # {} => Config!Cardinality(failing) > 0
<1>1. IsFiniteSet({"config"}) /\ IsFiniteSet({"config"} \cup {"groups"})
  BY FS_Singleton, FS_AddElement
<1>2. failing \subseteq {"config"} \cup {"groups"}
  OBVIOUS
<1>3. IsFiniteSet(failing)
  BY <1>1, <1>2, FS_Subset
<1>4. Cardinality(failing) \in Nat /\ (Cardinality(failing) = 0 => failing = {})
  BY <1>3, FS_CardinalityType, FS_EmptySet
<1>5. Config!Cardinality(failing) = Cardinality(failing)
  BY SameCardinality, Zenon
<1>. DEFINE n == Cardinality(failing)
<1>6. failing # {} => n # 0
  BY <1>4, Zenon
<1>7. n \in Nat /\ Config!Cardinality(failing) = n
  BY <1>4, <1>5
<1>. HIDE DEF n
<1>8. QED
  BY <1>6, <1>7

\* Every step keeps it.
LEMMA SettingsInvStep ==
  ASSUME SettingsInv, [Config!SettingsNext]_(Config!setVars)
  PROVE  SettingsInv'
<1>. USE DEF Config!Ok, Config!Fails
<1>1. /\ SettingsTypes /\ OneRequest /\ DefaultInv /\ EffectInv
      /\ req \in [Savers -> ConfigReq] /\ setFaults \in Nat /\ stored \in Nat /\ configs \in Nat
  BY DEF SettingsInv, SettingsTypes
<1>2. \A s \in Savers : req[s] \in ConfigReq /\ req[s].config \in Nat
  BY <1>1 DEF ConfigReq
<1>3. {"none", "cancelDefault", "update", "delete", "set", "apply", "read", "load"} \subseteq Config!ReqAt
  BY DEF Config!ReqAt
<1>4. ASSUME NEW s \in Savers, req[s].at \notin {"none", "apply", "read", "load"}
      PROVE  ~overlapped => InEffect
  BY <1>1, <1>4 DEF EffectInv, OneRequest
<1>5. ASSUME NEW s \in Savers, Config!End(s), isDefault' \subseteq isDefault, several' = several
      PROVE  DefaultInv'
  <2>1. ~Config!NoReq.wants
    BY DEF Config!NoReq
  <2>2. \A t \in Savers : req'[t] = req[t] \/ ~req'[t].wants
    BY <1>1, <1>5, <2>1 DEF Config!End
  <2>3. QED
    BY <1>1, <1>5, <2>2, DefaultStays
<1>6. ASSUME NEW g \in Groups, Config!CreateGroup(g) PROVE SettingsInv'
  <2>1. UNCHANGED <<req, isDefault, stored, effective, configs, overlapped, several, setFaults>>
    BY <1>6 DEF Config!CreateGroup
  <2>2. QED
    BY <1>1, <2>1 DEF SettingsInv, SettingsTypes, OneRequest, DefaultInv, EffectInv, InEffect
<1>7. ASSUME NEW s \in Savers, NEW g \in Groups, Config!DeleteGroup(s, g) PROVE SettingsInv'
  <2>. DEFINE r == [Config!NoReq EXCEPT !.at = "delete", !.group = g]
  <2>1. Config!Begin(s, r) /\ UNCHANGED <<isDefault, several, effective, setFaults, stored, configs>>
    BY <1>7 DEF Config!DeleteGroup, Config!table
  <2>2. r \in ConfigReq /\ r.at = "delete" /\ ~r.wants
    BY <1>3, NewReqType DEF Config!NoReq
  <2>. HIDE DEF r
  <2>3. DefaultInv'
    BY <2>1, <2>2, BeginLeaves
  <2>4. QED
    BY <1>1, <2>1, <2>2, <2>3, BeginKeeps
<1>8. ASSUME NEW s \in Savers, NEW g \in Groups, NEW w \in BOOLEAN, Config!UpdateGroup(s, g, w)
      PROVE  SettingsInv'
  <2>. DEFINE l == IF w THEN "cancelDefault" ELSE "update"
              r == [Config!NoReq EXCEPT !.at = l, !.group = g, !.wants = w]
  <2>1. /\ Config!Begin(s, r) /\ several' = (several \/ (w /\ Config!Rival(s)))
        /\ UNCHANGED <<isDefault, effective, setFaults, stored, configs>>
    BY <1>8 DEF Config!UpdateGroup, Config!table
  <2>2. l \in Config!ReqAt /\ l \notin {"apply", "load"} /\ ~(l = "update" /\ w)
    BY <1>3
  <2>. HIDE DEF l
  <2>3. r \in ConfigReq /\ r.at = l /\ r.wants = w
    BY <2>2, NewReqType DEF Config!NoReq
  <2>. HIDE DEF r
  <2>4. req'[s] = r /\ \A t \in Savers \ {s} : req'[t] = req[t]
    BY <1>1, <2>1, <2>3, BeginStep
  <2>5. DefaultInv'
    <3>1. CASE w
      BY <1>1, <2>1, <2>2, <2>3, <2>4, <3>1 DEF DefaultInv, Config!Rival
    <3>2. CASE ~w
      <4>1. ~several' => ~several
        BY <2>1, <3>2
      <4>2. ~r.wants
        BY <2>3, <3>2
      <4>3. QED
        BY <2>1, <2>3, <4>1, <4>2, BeginLeaves
    <3>3. QED
      BY <3>1, <3>2
  <2>6. QED
    BY <1>1, <2>1, <2>2, <2>3, <2>5, BeginKeeps
<1>9. ASSUME NEW s \in Savers, Config!CancelDefault(s) PROVE SettingsInv'
  <2>1. req[s].at = "cancelDefault" /\ UNCHANGED <<overlapped, stored, effective, configs>>
    BY <1>9 DEF Config!CancelDefault
  <2>2. CASE /\ isDefault' = {} /\ several' = Config!Rival(s)
             /\ Config!Goto(s, "update") /\ setFaults' = setFaults
    <3>1. /\ req' \in [Savers -> ConfigReq] /\ OneRequest'
          /\ req'[s].at = "update" /\ \A t \in Savers \ {s} : req'[t] = req[t]
      BY <1>1, <1>3, <2>1, <2>2, GotoStep
    <3>2. DefaultInv'
      BY <2>2, <3>1 DEF DefaultInv, Config!Rival
    <3>3. EffectInv'
      BY <1>1, <1>4, <2>1, <2>2, <3>1 DEF EffectInv, InEffect
    <3>4. QED
      BY <1>1, <2>1, <2>2, <3>1, <3>2, <3>3 DEF SettingsInv, SettingsTypes
  <2>3. CASE /\ isDefault' = isDefault /\ several' = several
             /\ Config!End(s) /\ setFaults' = setFaults + 1
    <3>1. DefaultInv'
      BY <1>5, <2>3
    <3>2. (~overlapped => InEffect') /\ setFaults' \in Nat
      BY <1>1, <1>4, <2>1, <2>3 DEF InEffect
    <3>3. QED
      BY <2>1, <2>3, <3>1, <3>2, EndKeeps
  <2>4. QED
    BY <1>9, <2>2, <2>3 DEF Config!CancelDefault
<1>10. ASSUME NEW s \in Savers, Config!WriteGroup(s) PROVE SettingsInv'
  <2>1. /\ req[s].at = "update" /\ Config!End(s) /\ UNCHANGED <<overlapped, several, stored, effective, configs>>
        /\ setFaults' \in Nat /\ setFaults' >= setFaults
    BY <1>1, <1>10 DEF Config!WriteGroup
  <2>2. (~overlapped => InEffect')
    BY <1>1, <1>4, <2>1 DEF InEffect
  <2>3. CASE req[s].wants
    <3>1. /\ ~req'[s].wants /\ \A t \in Savers \ {s} : req'[t] = req[t]
      BY <1>1, <2>1, EndStep
    <3>2. PICK g : isDefault' \in {isDefault, isDefault \cup {g}}
      <4>1. isDefault' = isDefault \/ isDefault' = isDefault \cup ({req[s].group} \cap groups)
        BY <1>10, <2>3 DEF Config!WriteGroup
      <4>2. QED
        BY <4>1
    <3>3. DefaultInv'
      BY <1>1, <2>1, <2>3, <3>1, <3>2 DEF DefaultInv
    <3>4. QED
      BY <2>1, <2>2, <3>3, EndKeeps
  <2>4. CASE ~req[s].wants
    <3>1. isDefault' \subseteq isDefault
      BY <1>10, <2>4 DEF Config!WriteGroup
    <3>2. DefaultInv'
      BY <1>5, <2>1, <3>1
    <3>3. QED
      BY <2>1, <2>2, <3>2, EndKeeps
  <2>5. QED
    BY <2>3, <2>4
<1>11. ASSUME NEW s \in Savers, Config!RemoveGroup(s) PROVE SettingsInv'
  <2>1. /\ req[s].at = "delete" /\ Config!End(s) /\ UNCHANGED <<overlapped, several, stored, effective, configs>>
        /\ setFaults' \in Nat /\ setFaults' >= setFaults /\ isDefault' \subseteq isDefault
    BY <1>1, <1>11 DEF Config!RemoveGroup
  <2>2. (~overlapped => InEffect')
    BY <1>1, <1>4, <2>1 DEF InEffect
  <2>3. DefaultInv'
    BY <1>5, <2>1
  <2>4. QED
    BY <2>1, <2>2, <2>3, EndKeeps
<1>12. ASSUME NEW s \in Savers, Config!SaveConfig(s) PROVE SettingsInv'
  <2>. DEFINE r == [Config!NoReq EXCEPT !.at = "set", !.config = configs + 1]
  <2>1. /\ Config!Begin(s, r) /\ UNCHANGED <<isDefault, several, effective, setFaults, stored>>
        /\ configs' = configs + 1
    BY <1>12 DEF Config!SaveConfig, Config!table
  <2>2. configs + 1 \in Nat
    BY <1>1
  <2>3. r \in ConfigReq /\ r.at = "set" /\ ~r.wants
    BY <1>3, <2>2, NewReqType DEF Config!NoReq
  <2>. HIDE DEF r
  <2>4. DefaultInv'
    BY <2>1, <2>3, BeginLeaves
  <2>5. QED
    BY <1>1, <2>1, <2>2, <2>3, <2>4, BeginKeeps
<1>13. ASSUME NEW s \in Savers, Config!SetStored(s) PROVE SettingsInv'
  <2>1. req[s].at = "set" /\ UNCHANGED <<isDefault, several, overlapped, effective, configs>>
    BY <1>13 DEF Config!SetStored, Config!table
  <2>2. CASE stored' = req[s].config /\ Config!Goto(s, "apply") /\ setFaults' = setFaults
    <3>1. /\ req' \in [Savers -> ConfigReq] /\ OneRequest'
          /\ req'[s].at = "apply" /\ req'[s].config = stored' /\ req'[s].wants = req[s].wants
          /\ \A t \in Savers \ {s} : req'[t] = req[t]
      BY <1>1, <1>3, <2>1, <2>2, GotoStep
    <3>3. DefaultInv'
      BY <1>1, <2>1, <3>1, DefaultStays
    <3>4. ASSUME ~overlapped PROVE \A t \in Savers \ {s} : req[t].at = "none"
      BY <1>1, <2>1, <3>4 DEF OneRequest
    <3>5. EffectInv'
      BY <2>1, <3>1, <3>4 DEF EffectInv
    <3>6. QED
      BY <1>1, <1>2, <2>1, <2>2, <3>1, <3>3, <3>5 DEF SettingsInv, SettingsTypes
  <2>3. CASE stored' = stored /\ Config!End(s) /\ setFaults' = setFaults + 1
    <3>1. DefaultInv'
      BY <1>5, <2>1, <2>3
    <3>2. (~overlapped => InEffect') /\ setFaults' \in Nat
      BY <1>1, <1>4, <2>1, <2>3 DEF InEffect
    <3>3. QED
      BY <2>1, <2>3, <3>1, <3>2, EndKeeps
  <2>4. QED
    BY <1>13, <2>2, <2>3 DEF Config!SetStored
<1>14. ASSUME NEW s \in Savers, Config!SetConfig(s) PROVE SettingsInv'
  <2>1. /\ req[s].at = "apply" /\ Config!End(s) /\ effective' = req[s].config
        /\ UNCHANGED <<isDefault, several, overlapped, stored, configs, setFaults>>
    BY <1>14 DEF Config!SetConfig, Config!table
  <2>2. ~overlapped => InEffect'
    BY <1>1, <2>1 DEF EffectInv, InEffect
  <2>3. DefaultInv'
    BY <1>5, <2>1
  <2>4. QED
    BY <1>1, <2>1, <2>2, <2>3, EndKeeps
<1>15. ASSUME NEW s \in Savers, NEW old \in 0..MaxConfigs, Config!RestoreSettings(s, old)
       PROVE  SettingsInv'
  <2>. DEFINE r == [Config!NoReq EXCEPT !.at = "read", !.config = old]
  <2>1. /\ Config!Begin(s, r) /\ UNCHANGED <<effective, setFaults, configs>>
        /\ stored' = old /\ old \in Nat /\ several' = Config!Rival(s)
        /\ \A g, h \in isDefault' : g = h
    BY <1>15 DEF Config!RestoreSettings
  <2>2. r \in ConfigReq /\ r.at = "read" /\ ~r.wants
    BY <1>3, <2>1, NewReqType DEF Config!NoReq
  <2>. HIDE DEF r
  <2>3. req'[s] = r /\ \A t \in Savers \ {s} : req'[t] = req[t]
    BY <1>1, <2>1, <2>2, BeginStep
  <2>4. DefaultInv'
    BY <2>1, <2>2, <2>3 DEF DefaultInv, Config!Rival
  <2>5. QED
    BY <1>1, <2>1, <2>2, <2>4, BeginKeeps
<1>16. ASSUME NEW s \in Savers, Config!InitNotify(s) PROVE SettingsInv'
  <2>1. req[s].at = "read" /\ UNCHANGED <<isDefault, several, overlapped, stored, effective, configs>>
    BY <1>16 DEF Config!InitNotify, Config!table
  <2>2. PICK c \in Nat :
          /\ req' = [req EXCEPT ![s].at = "load", ![s].config = c]
          /\ (c = stored /\ setFaults' = setFaults) \/ (c = 0 /\ setFaults' = setFaults + 1)
    BY <1>1, <1>16 DEF Config!InitNotify
  <2>3. /\ req' \in [Savers -> ConfigReq] /\ req'[s].at = "load" /\ req'[s].config = c
        /\ req'[s].wants = req[s].wants /\ \A t \in Savers \ {s} : req'[t] = req[t]
    BY <1>1, <1>3, <2>2 DEF ConfigReq
  <2>4. OneRequest'
    BY <1>1, <2>1, <2>3 DEF OneRequest
  <2>5. DefaultInv'
    BY <1>1, <2>1, <2>3, DefaultStays
  <2>6. ASSUME ~overlapped PROVE \A t \in Savers \ {s} : req[t].at = "none"
    BY <1>1, <2>1, <2>6 DEF OneRequest
  <2>7. EffectInv'
    BY <1>1, <2>1, <2>2, <2>3, <2>6 DEF EffectInv
  <2>8. QED
    BY <1>1, <2>1, <2>2, <2>3, <2>4, <2>5, <2>7 DEF SettingsInv, SettingsTypes
<1>17. ASSUME NEW s \in Savers, Config!LoadConfig(s) PROVE SettingsInv'
  <2>1. /\ req[s].at = "load" /\ Config!End(s) /\ effective' = req[s].config
        /\ UNCHANGED <<isDefault, several, overlapped, stored, configs, setFaults>>
    BY <1>17 DEF Config!LoadConfig, Config!table
  <2>2. ~overlapped => InEffect'
    BY <1>1, <2>1 DEF EffectInv, InEffect
  <2>3. DefaultInv'
    BY <1>5, <2>1
  <2>4. QED
    BY <1>1, <2>1, <2>2, <2>3, EndKeeps
<1>18. CASE Config!RestartProcess
  <2>1. PICK failing \in SUBSET {"config", "groups"} :
          /\ req' = [s \in Savers |-> Config!NoReq] /\ UNCHANGED <<overlapped, stored, configs>>
          /\ setFaults' = Config!Cardinality(failing)
          /\ effective' = IF "config" \in failing THEN 0 ELSE stored
          /\ Config!SeedGroups("groups" \in failing)
    BY <1>18 DEF Config!RestartProcess
  <2>2. setFaults' \in Nat /\ ("config" \in failing => setFaults' > 0)
    BY <2>1, FailingStatements
  <2>3. Config!NoReq \in ConfigReq /\ Config!NoReq.at = "none" /\ ~Config!NoReq.wants
    BY DEF Config!NoReq, ConfigReq, Config!ReqAt
  <2>4. /\ req' \in [Savers -> ConfigReq] /\ OneRequest'
        /\ \A s \in Savers : req'[s].at = "none" /\ ~req'[s].wants
    BY <2>1, <2>3 DEF OneRequest
  <2>5. DefaultInv'
    <3>1. CASE UNCHANGED <<isDefault, several>>
      BY <1>1, <2>4, <3>1 DEF DefaultInv
    <3>2. ASSUME NEW g, isDefault' = isDefault \cup {g}, several' = (several \/ isDefault # {})
          PROVE  DefaultInv'
      BY <2>4, <3>2 DEF DefaultInv
    <3>3. QED
      BY <2>1, <3>1, <3>2 DEF Config!SeedGroups, Config!table
  <2>6. EffectInv'
    BY <2>1, <2>2, <2>4 DEF EffectInv, InEffect
  <2>7. QED
    BY <1>1, <2>1, <2>2, <2>4, <2>5, <2>6 DEF SettingsInv, SettingsTypes
<1>19. CASE UNCHANGED Config!setVars
  <2>1. UNCHANGED <<req, isDefault, stored, effective, configs, overlapped, several, setFaults>>
    BY <1>19 DEF Config!setVars, Config!table
  <2>2. QED
    BY <1>1, <2>1 DEF SettingsInv, SettingsTypes, OneRequest, DefaultInv, EffectInv, InEffect
<1>20. QED
  BY <1>6, <1>7, <1>8, <1>9, <1>10, <1>11, <1>12, <1>13, <1>14, <1>15, <1>16, <1>17, <1>18, <1>19
     DEF Config!SettingsNext

\* Groups: whatever fails or is cut short there is one default group at most, as long
\* as one at a time gives the default, and again from the next request that does.
THEOREM DefaultStaysUnique == Config!SettingsSpec => []DefaultIsUnique
<1>1. SettingsInv => Config!DefaultIsUnique
  <2>1. SUFFICES ASSUME SettingsInv, ~several PROVE Cardinality(isDefault) <= 1
    BY SameCardinality DEF Config!DefaultIsUnique
  <2>2. isDefault = {} \/ \E g \in isDefault : isDefault = {g}
    BY <2>1 DEF SettingsInv, DefaultInv
  <2>3. QED
    BY <2>2, FS_EmptySet, FS_Singleton
<1>2. QED
  BY <1>1, SettingsInvInit, SettingsInvStep, PTL DEF Config!SettingsSpec, DefaultIsUnique

\* Notifications: between requests they use the configuration that is stored, or none
\* after a read that failed, unless requests have overlapped.
THEOREM StoredStaysEffective == Config!SettingsSpec => []StoredIsEffective
<1>1. SettingsInv => Config!StoredIsEffective
  BY DEF SettingsInv, EffectInv, InEffect, Config!StoredIsEffective, Config!Quiet
<1>2. QED
  BY <1>1, SettingsInvInit, SettingsInvStep, PTL DEF Config!SettingsSpec, StoredIsEffective

----------------------------------------------------------------------------
(* Seeds. *)

\* The part of the types the arguments need.
SeedTypes ==
  /\ script \in [Names -> Seeding!Content] /\ release \in Nat /\ seedFaults \in Nat
  /\ seedPc \in {"start", "seeding", "serving"}

\* The marks are those of built-in scripts, which are there or were deleted by users;
\* and what users delete has its mark.
MarksInv ==
  /\ discarded \subseteq marked /\ marked \subseteq Seeding!Builtin
  /\ \A b \in marked : script[b] = "none" => b \in discarded

\* A start has its marks in hand, all the names to come in toSeed, and all the
\* contents to refresh in toRefresh.
StartInv ==
  seedPc = "seeding" =>
    /\ marked \subseteq seeded /\ seeded \subseteq Seeding!Builtin
    /\ toSeed \subseteq Seeding!Builtin
    /\ Seeding!Builtin \ toSeed \subseteq seeded
    /\ ~changed => seeded = marked
    /\ \A b \in seeded : script[b] = "none" => b \in discarded
    /\ \A b \in Seeding!Builtin : Seeding!Revised(b) /\ script[b] = "old" => b \in toRefresh

\* A server has started once.
StartedInv ==
  seedPc = "serving" =>
    /\ Seeding!Builtin \subseteq marked
    /\ \A b \in Seeding!Builtin : script[b] = "old" => ~Seeding!Revised(b)

\* A statement that fails may leave a script without its mark: from then on nothing
\* is claimed.
SeedInv == SeedTypes /\ (seedFaults = 0 => MarksInv /\ StartInv /\ StartedInv)

\* The invariant holds at first, for a new database and for one of the first release.
LEMMA SeedInvInit == Seeding!SeedInit => SeedInv
<1>. SUFFICES ASSUME Seeding!SeedInit PROVE SeedInv
  OBVIOUS
<1>1. SeedTypes /\ seedPc = "start"
  BY DEF Seeding!SeedInit, SeedTypes, Seeding!Content
<1>2. MarksInv
  BY DEF Seeding!SeedInit, MarksInv
<1>3. QED
  BY <1>1, <1>2 DEF SeedInv, StartInv, StartedInv

\* Every step keeps it.
LEMMA SeedInvStep ==
  ASSUME Ships \in [Names -> Nat], SeedInv, [Seeding!SeedNext]_(Seeding!seedVars)
  PROVE  SeedInv'
<1>. USE DEF Seeding!Ok, Seeding!Fails
<1>1. SeedTypes /\ script \in [Names -> Seeding!Content] /\ seedFaults \in Nat /\ release \in Nat
  BY DEF SeedInv, SeedTypes
<1>2. ASSUME release' = release
      PROVE  /\ Seeding!Builtin' = Seeding!Builtin
             /\ \A b \in Names : Seeding!Revised(b)' = Seeding!Revised(b)
  BY <1>2 DEF Seeding!Builtin, Seeding!Revised
<1>3. Seeding!Builtin \subseteq Names
  BY DEF Seeding!Builtin
<1>4. CASE Seeding!ReadMarks
  <2>1. SeedTypes' /\ release' = release /\ seedPc = "start" /\ seedPc' = "seeding"
        /\ UNCHANGED <<script, marked, discarded>>
    BY <1>1, <1>4 DEF Seeding!ReadMarks, SeedTypes
  <2>2. ASSUME seedFaults' = 0 PROVE MarksInv' /\ StartInv' /\ StartedInv'
    <3>1. seedFaults = 0 /\ seeded' = marked /\ ~changed' /\ toSeed' = Seeding!Builtin
          /\ toRefresh' = {b \in Seeding!Builtin : Seeding!Revised(b)}
      BY <1>1, <1>4, <2>2 DEF Seeding!ReadMarks
    <3>2. MarksInv
      BY <3>1 DEF SeedInv
    <3>3. QED
      BY <1>2, <1>3, <2>1, <3>1, <3>2 DEF MarksInv, StartInv, StartedInv
  <2>3. QED
    BY <2>1, <2>2 DEF SeedInv
<1>5. ASSUME NEW b \in Names, Seeding!SeedOne(b) PROVE SeedInv'
  <2>1. Seeding!Shipped(b) \in Seeding!Content \ {"none"}
    BY DEF Seeding!Shipped, Seeding!Content
  <2>2. SeedTypes'
    BY <1>1, <1>5, <2>1 DEF Seeding!SeedOne, SeedTypes
  <2>3. /\ release' = release /\ seedPc = "seeding" /\ seedPc' = "seeding" /\ toSeed' = toSeed \ {b}
        /\ b \in toSeed /\ UNCHANGED <<marked, toRefresh, discarded>>
    BY <1>5 DEF Seeding!SeedOne
  <2>4. ASSUME seedFaults' = 0 PROVE MarksInv' /\ StartInv' /\ StartedInv'
    <3>1. seedFaults = 0
      BY <1>1, <1>5, <2>4 DEF Seeding!SeedOne
    <3>2. MarksInv /\ StartInv
      BY <3>1 DEF SeedInv
    <3>3. CASE b \in seeded /\ UNCHANGED <<script, seeded, changed>>
      BY <1>2, <1>3, <2>3, <3>2, <3>3 DEF MarksInv, StartInv, StartedInv
    <3>4. CASE /\ b \notin seeded /\ seeded' = seeded \cup {b} /\ changed' = TRUE
               /\ script' = IF script[b] = "none" THEN [script EXCEPT ![b] = Seeding!Shipped(b)] ELSE script
      <4>1. \A c \in Names : script'[c] = script[c] \/ (c = b /\ script[b] = "none"
                                                          /\ script'[b] = Seeding!Shipped(b))
        <5>. DEFINE x == Seeding!Shipped(b)
        <5>. HIDE DEF x
        <5>1. script' = IF script[b] = "none" THEN [script EXCEPT ![b] = x] ELSE script
          BY <3>4 DEF x
        <5>2. \A c \in Names : script'[c] = script[c] \/ (c = b /\ script[b] = "none" /\ script'[b] = x)
          BY <1>1, <5>1
        <5>3. QED
          BY <5>2 DEF x
      <4>2. b \in Seeding!Builtin
        BY <2>3, <3>2, <3>4 DEF StartInv
      <4>3. script'[b] # "none"
        BY <1>1, <2>1, <3>4
      <4>4. Seeding!Shipped(b) = "old" => ~Seeding!Revised(b)
        BY DEF Seeding!Shipped
      <4>5. MarksInv'
        BY <1>2, <1>3, <2>3, <3>2, <4>1, <4>3 DEF MarksInv
      <4>6. StartInv'
        BY <1>2, <1>3, <2>3, <3>2, <3>4, <4>1, <4>2, <4>3, <4>4 DEF StartInv
      <4>7. QED
        BY <2>3, <4>5, <4>6 DEF StartedInv
    <3>5. ~Seeding!Fails
      BY <2>4, <3>1
    <3>6. \/ b \in seeded /\ UNCHANGED <<script, seeded, changed>>
          \/ /\ b \notin seeded /\ seeded' = seeded \cup {b} /\ changed' = TRUE
             /\ script' = IF script[b] = "none" THEN [script EXCEPT ![b] = Seeding!Shipped(b)] ELSE script
      BY <1>5, <3>5 DEF Seeding!SeedOne
    <3>7. QED
      BY <3>3, <3>4, <3>6
  <2>5. QED
    BY <2>2, <2>4 DEF SeedInv
<1>6. ASSUME NEW b \in Names, Seeding!RefreshOne(b) PROVE SeedInv'
  <2>1. /\ release' = release /\ seedPc = "seeding" /\ seedPc' = "seeding"
        /\ toRefresh' = toRefresh \ {b} /\ UNCHANGED <<marked, seeded, toSeed, discarded>>
        /\ \/ script[b] = "old" /\ script' = [script EXCEPT ![b] = "new"] /\ changed' = TRUE
           \/ script' = script /\ changed' = changed /\ (seedFaults' = seedFaults => script[b] # "old")
    BY <1>1, <1>6 DEF Seeding!RefreshOne
  <2>2. SeedTypes'
    BY <1>1, <1>6, <2>1 DEF SeedTypes, Seeding!Content, Seeding!RefreshOne
  <2>3. ASSUME seedFaults' = 0 PROVE MarksInv' /\ StartInv' /\ StartedInv'
    <3>1. seedFaults = 0
      BY <1>1, <1>6, <2>3 DEF Seeding!RefreshOne
    <3>2. MarksInv /\ StartInv
      BY <3>1 DEF SeedInv
    <3>3. /\ script'[b] # "old" /\ (script'[b] = "none" <=> script[b] = "none")
          /\ \A c \in Names \ {b} : script'[c] = script[c]
      BY <1>1, <2>1, <2>3, <3>1
    <3>4. MarksInv'
      BY <1>2, <1>3, <2>1, <3>2, <3>3 DEF MarksInv
    <3>5. StartInv'
      BY <1>2, <1>3, <2>1, <3>2, <3>3 DEF StartInv
    <3>6. QED
      BY <2>1, <3>4, <3>5 DEF StartedInv
  <2>4. QED
    BY <2>2, <2>3 DEF SeedInv
<1>7. CASE Seeding!WriteMarks
  <2>1. SeedTypes' /\ release' = release /\ seedPc = "seeding" /\ seedPc' = "serving"
        /\ toSeed = {} /\ toRefresh = {} /\ UNCHANGED <<script, discarded>>
    BY <1>1, <1>7 DEF Seeding!WriteMarks, SeedTypes
  <2>2. ASSUME seedFaults' = 0 PROVE MarksInv' /\ StartInv' /\ StartedInv'
    <3>1. seedFaults = 0 /\ marked' = IF changed THEN seeded ELSE marked
      BY <1>1, <1>7, <2>2 DEF Seeding!WriteMarks
    <3>2. MarksInv /\ StartInv
      BY <3>1 DEF SeedInv
    <3>3. marked' = seeded /\ marked \subseteq seeded /\ seeded \subseteq Seeding!Builtin
          /\ Seeding!Builtin \subseteq seeded
      BY <2>1, <3>1, <3>2 DEF StartInv
    <3>4. QED
      BY <1>2, <1>3, <2>1, <3>2, <3>3 DEF MarksInv, StartInv, StartedInv
  <2>3. QED
    BY <2>1, <2>2 DEF SeedInv
<1>8. ASSUME NEW b \in Names, Seeding!DeleteScript(b) PROVE SeedInv'
  <2>1. /\ release' = release /\ seedPc = "serving" /\ seedPc' = "serving" /\ seedFaults' = seedFaults
        /\ script' = [script EXCEPT ![b] = "none"] /\ marked' = marked
        /\ discarded' = IF b \in Seeding!Builtin THEN discarded \cup {b} ELSE discarded
    BY <1>8 DEF Seeding!DeleteScript
  <2>2. SeedTypes'
    BY <1>1, <2>1 DEF SeedTypes, Seeding!Content
  <2>3. ASSUME seedFaults = 0 PROVE MarksInv' /\ StartInv' /\ StartedInv'
    <3>1. MarksInv /\ StartedInv
      BY <2>3 DEF SeedInv
    <3>2. QED
      BY <1>1, <1>2, <1>3, <2>1, <3>1 DEF MarksInv, StartInv, StartedInv
  <2>4. QED
    BY <2>1, <2>2, <2>3 DEF SeedInv
<1>9. ASSUME NEW b \in Names, Seeding!WriteScript(b) PROVE SeedInv'
  <2>1. /\ release' = release /\ seedPc = "serving" /\ seedPc' = "serving" /\ seedFaults' = seedFaults
        /\ script' = [script EXCEPT ![b] = "users"] /\ marked' = marked /\ discarded' = discarded
    BY <1>9 DEF Seeding!WriteScript
  <2>2. SeedTypes'
    BY <1>1, <2>1 DEF SeedTypes, Seeding!Content
  <2>3. ASSUME seedFaults = 0 PROVE MarksInv' /\ StartInv' /\ StartedInv'
    <3>1. MarksInv /\ StartedInv
      BY <2>3 DEF SeedInv
    <3>2. QED
      BY <1>1, <1>2, <1>3, <2>1, <3>1 DEF MarksInv, StartInv, StartedInv
  <2>4. QED
    BY <2>1, <2>2, <2>3 DEF SeedInv
<1>10. ASSUME NEW k \in release..MaxSeedRelease, Seeding!RestartAs(k) PROVE SeedInv'
  <2>1. /\ release' = k /\ k \in Nat /\ k >= release /\ seedPc' = "start" /\ seedFaults' = seedFaults
        /\ UNCHANGED <<script, marked, discarded>>
    BY <1>1, <1>10 DEF Seeding!RestartAs
  <2>2. Seeding!Builtin \subseteq Seeding!Builtin'
    BY <1>1, <2>1 DEF Seeding!Builtin
  <2>3. QED
    BY <1>1, <2>1, <2>2 DEF SeedInv, SeedTypes, MarksInv, StartInv, StartedInv
<1>11. CASE UNCHANGED Seeding!seedVars
  <2>1. UNCHANGED <<script, marked, release, seedPc, seeded, changed, toSeed, toRefresh, discarded, seedFaults>>
    BY <1>11 DEF Seeding!seedVars, Seeding!seedLocals
  <2>2. QED
    BY <2>1 DEF SeedInv, SeedTypes, MarksInv, StartInv, StartedInv, Seeding!Builtin, Seeding!Revised
<1>12. QED
  BY <1>4, <1>5, <1>6, <1>7, <1>8, <1>9, <1>10, <1>11 DEF Seeding!SeedNext

\* Built-in scripts: once the server serves, each is there with the content of its
\* release, was edited, or was deleted by a user, however starts were cut short before.
THEOREM SeedingCompletes ==
  ASSUME Ships \in [Names -> Nat]
  PROVE  Seeding!SeedSpec => []SeedingIsComplete
<1>1. SeedInv => Seeding!SeedingIsComplete
  BY DEF SeedInv, MarksInv, StartedInv, Seeding!SeedingIsComplete
<1>2. QED
  BY <1>1, SeedInvInit, SeedInvStep, PTL DEF Seeding!SeedSpec, SeedingIsComplete

\* Built-in scripts: a start never overwrites what users have written, and brings back
\* no script they have deleted.
THEOREM UsersChangesAreKept ==
  ASSUME Ships \in [Names -> Nat]
  PROVE  Seeding!SeedSpec => UsersChangesStay
<1>. DEFINE Kept(b) == /\ script[b] = "users" => script'[b] = "users"
                       /\ b \in discarded /\ script[b] = "none" /\ seedFaults' = 0 => script'[b] = "none"
<1>1. ASSUME SeedInv, [Seeding!SeedNext]_(Seeding!seedVars), NEW b \in Names, seedPc = "seeding"
      PROVE  Kept(b)
  <2>. USE DEF Seeding!Ok, Seeding!Fails
  <2>1. script \in [Names -> Seeding!Content] /\ seedFaults \in Nat
    BY <1>1 DEF SeedInv, SeedTypes
  <2>2. ASSUME NEW c \in Names, Seeding!SeedOne(c) PROVE Kept(b)
    <3>1. \/ script' = script
          \/ /\ c \notin seeded /\ script[c] = "none" /\ seedFaults' = seedFaults
             /\ \A d \in Names \ {c} : script'[d] = script[d]
      BY <2>1, <2>2 DEF Seeding!SeedOne
    <3>2. seedFaults = 0 => discarded \subseteq seeded
      BY <1>1 DEF SeedInv, MarksInv, StartInv
    <3>3. QED
      BY <3>1, <3>2
  <2>3. ASSUME NEW c \in Names, Seeding!RefreshOne(c) PROVE Kept(b)
    BY <2>1, <2>3 DEF Seeding!RefreshOne
  <2>4. ASSUME NEW c \in Names, Seeding!DeleteScript(c) \/ Seeding!WriteScript(c) PROVE Kept(b)
    BY <1>1, <2>4 DEF Seeding!DeleteScript, Seeding!WriteScript
  <2>5. CASE script' = script
    BY <2>5
  <2>6. ASSUME NEW k \in release..MaxSeedRelease, Seeding!RestartAs(k) PROVE script' = script
    BY <2>6 DEF Seeding!RestartAs
  <2>7. CASE Seeding!ReadMarks \/ Seeding!WriteMarks \/ UNCHANGED Seeding!seedVars
    BY <2>5, <2>7 DEF Seeding!ReadMarks, Seeding!WriteMarks, Seeding!seedVars
  <2>8. QED
    BY <1>1, <2>2, <2>3, <2>4, <2>5, <2>6, <2>7 DEF Seeding!SeedNext
<1>2. SeedInv /\ [Seeding!SeedNext]_(Seeding!seedVars)
        => [\A b \in Names : seedPc = "seeding" => Kept(b)]_(Seeding!seedVars)
  BY <1>1
<1>3. QED
  BY <1>2, SeedInvInit, SeedInvStep, PTL DEF Seeding!SeedSpec, Seeding!UsersChangesStay, UsersChangesStay

----------------------------------------------------------------------------
(* Auth. *)

TaskSet == [at : Account!TaskAt, pwd : Nat]

\* The part of the types the arguments need.
AuthTypes ==
  /\ password \in Nat /\ default \in Nat /\ passwords \in Nat
  /\ initPc \in Account!InitStage /\ initialized \in BOOLEAN
  /\ request \in [Sessions -> TaskSet]
  /\ failures \in Nat /\ lockedAt \in BOOLEAN
  /\ authFaults \in Nat /\ authCrashes \in Nat

\* The flag comes after the user and the password, in this start or an earlier one;
\* requests are handled when InitAuth is over, and store passwords that were made up.
CreatedInv ==
  /\ initialized => user /\ password # 0
  /\ initPc \in {"password", "default", "flag"} => user
  /\ initPc \in {"default", "flag"} => password # 0
  /\ initPc # "start" /\ initPc # "serving" => passwords # 0
  /\ initPc # "serving" => \A s \in Sessions : request[s].at = "none"
  /\ \A s \in Sessions : request[s].at = "store" => request[s].pwd # 0

\* In a process that has neither failed nor crashed, the default password is the
\* password from the moment it is set, until a change of password that has yet to
\* forget it.
ShownInv ==
  authFaults = 0 /\ authCrashes = 0 =>
    /\ initPc \in {"start", "user", "password", "default"} => default = 0
    /\ initPc = "default" => password = passwords
    /\ initPc = "flag" => default = password
    /\ initPc = "serving" =>
         default = 0 \/ default = password \/ \E s \in Sessions : request[s].at = "forget"

\* The requests past the lock whose failure has yet to be counted.
Past == {s \in Sessions : request[s].at \in {"checking", "wrong"}}

\* Each of them may add one to the count, and only they: who comes to the lock when
\* the count is reached is refused or resets it.
LockInv ==
  /\ failures + Cardinality(Past) <= (MaxAttempts - 1) + Cardinality(Sessions)
  /\ lockedAt <=> failures >= MaxAttempts

AuthInv == AuthTypes /\ CreatedInv /\ ShownInv /\ LockInv

\* The step of a request: its place is l then, and the others stay where they are.
Moves(s, l) ==
  /\ request' \in [Sessions -> TaskSet] /\ request'[s].at = l
  /\ \A t \in Sessions \ {s} : request'[t] = request[t]

\* Goto is such a step.
LEMMA GotoMoves ==
  ASSUME request \in [Sessions -> TaskSet], NEW s \in Sessions, NEW l \in Account!TaskAt, Account!Goto(s, l)
  PROVE  Moves(s, l)
<1>. DEFINE r == [request[s] EXCEPT !.at = l]
<1>1. r \in TaskSet /\ r.at = l
  BY DEF TaskSet
<1>2. request' = [request EXCEPT ![s] = r]
  BY DEF Account!Goto
<1>3. QED
  <2>. HIDE DEF r
  <2>. QED
    BY <1>1, <1>2 DEF Moves

\* And so is one that gives the request a new record.
LEMMA RecordMoves ==
  ASSUME request \in [Sessions -> TaskSet], NEW s \in Sessions, NEW r \in TaskSet, request' = [request EXCEPT ![s] = r]
  PROVE  Moves(s, r.at) /\ request'[s] = r
BY DEF Moves

\* The invariant holds at first.
LEMMA AuthInvInit ==
  ASSUME IsFiniteSet(Sessions), MaxAttempts \in Nat \ {0}, Account!AuthInit
  PROVE  AuthInv
<1>1. Account!Idle \in TaskSet /\ Account!Idle.at = "none"
  BY DEF Account!Idle, TaskSet, Account!TaskAt
<1>2. request \in [Sessions -> TaskSet] /\ \A s \in Sessions : request[s].at = "none"
  BY <1>1 DEF Account!AuthInit
<1>3. AuthTypes /\ CreatedInv /\ ShownInv
  BY <1>2 DEF Account!AuthInit, AuthTypes, CreatedInv, ShownInv, Account!InitStage
<1>4. Past = {} /\ Cardinality({}) = 0 /\ Cardinality(Sessions) \in Nat
  BY <1>2, FS_EmptySet, FS_CardinalityType DEF Past
<1>5. LockInv
  BY <1>4 DEF Account!AuthInit, LockInv
<1>6. QED
  BY <1>3, <1>5 DEF AuthInv

\* What the lock bounds, in the steps that do not touch the attempts and let no new
\* request past the lock.
LEMMA LockStays ==
  ASSUME IsFiniteSet(Sessions), MaxAttempts \in Nat, AuthTypes, LockInv,
         Past' \subseteq Past, failures' = failures, lockedAt' = lockedAt
  PROVE  LockInv'
<1>1. IsFiniteSet(Past)
  BY FS_Subset DEF Past
<1>2. Cardinality(Past) \in Nat /\ Cardinality(Past') \in Nat /\ Cardinality(Past') <= Cardinality(Past)
  BY <1>1, FS_Subset, FS_CardinalityType
<1>3. QED
  BY <1>2, FS_CardinalityType DEF LockInv, AuthTypes

\* And when the count begins anew.
LEMMA LockResets ==
  ASSUME IsFiniteSet(Sessions), MaxAttempts \in Nat \ {0}, failures' = 0, lockedAt' = FALSE
  PROVE  LockInv'
<1>1. Past' \subseteq Sessions
  BY DEF Past
<1>2. Cardinality(Past') \in Nat /\ Cardinality(Past') <= Cardinality(Sessions) /\ Cardinality(Sessions) \in Nat
  BY <1>1, FS_Subset, FS_CardinalityType
<1>3. QED
  BY <1>2 DEF LockInv

\* InitAuth keeps the invariant: reading the flag, ...
LEMMA ReadFlagKeeps ==
  ASSUME IsFiniteSet(Sessions), MaxAttempts \in Nat \ {0}, AuthInv, Account!ReadInitialized
  PROVE  AuthInv'
<1>. USE DEF Account!Ok, Account!Fails
<1>1. /\ initPc = "start" /\ initPc' \in {"user", "serving"} /\ authCrashes' = authCrashes
      /\ UNCHANGED <<user, password, default, initialized, request, failures, lockedAt>>
      /\ initPc' = "user" => passwords' = passwords + 1
      /\ initPc' # "user" => passwords' = passwords
      /\ authFaults' = authFaults \/ authFaults' = authFaults + 1
  BY DEF Account!ReadInitialized, Account!account, Account!attempts
<1>2. AuthTypes'
  BY <1>1 DEF AuthInv, AuthTypes, Account!InitStage
<1>3. CreatedInv'
  BY <1>1 DEF AuthInv, AuthTypes, CreatedInv
<1>4. ShownInv'
  BY <1>1 DEF AuthInv, AuthTypes, ShownInv
<1>5. LockInv'
  BY <1>1, LockStays DEF AuthInv, Past
<1>6. QED
  BY <1>2, <1>3, <1>4, <1>5 DEF AuthInv

\* ... and setting one of the four settings.
LEMMA SetAccountKeeps ==
  ASSUME IsFiniteSet(Sessions), MaxAttempts \in Nat \ {0}, AuthInv, Account!SetAccount
  PROVE  AuthInv'
<1>. USE DEF Account!Ok, Account!Fails
<1>1. /\ initPc \in {"user", "password", "default", "flag"} /\ passwords # 0
      /\ UNCHANGED <<passwords, request, failures, lockedAt, authCrashes>>
  BY DEF Account!SetAccount, Account!attempts, AuthInv, CreatedInv
<1>2. LockInv'
  BY <1>1, LockStays DEF AuthInv, Past
<1>3. ASSUME initPc' \in Account!InitStage, authFaults' \in Nat, password' \in Nat, default' \in Nat,
             initialized' \in BOOLEAN
      PROVE  AuthTypes'
  BY <1>1, <1>3 DEF AuthInv, AuthTypes
<1>4. CASE initPc' = "serving" /\ authFaults' = authFaults + 1 /\ UNCHANGED Account!account
  <2>1. AuthTypes'
    BY <1>3, <1>4 DEF Account!account, AuthInv, AuthTypes, Account!InitStage
  <2>2. CreatedInv'
    BY <1>1, <1>4 DEF Account!account, AuthInv, CreatedInv
  <2>3. ShownInv'
    BY <1>4 DEF AuthInv, AuthTypes, ShownInv
  <2>4. QED
    BY <1>2, <2>1, <2>2, <2>3 DEF AuthInv
<1>5. CASE /\ initPc = "user" /\ user' = TRUE /\ initPc' = "password" /\ authFaults' = authFaults
           /\ UNCHANGED <<password, default, initialized>>
  <2>1. AuthTypes'
    BY <1>3, <1>5 DEF AuthInv, AuthTypes, Account!InitStage
  <2>2. CreatedInv' /\ ShownInv'
    BY <1>1, <1>5 DEF AuthInv, CreatedInv, ShownInv
  <2>3. QED
    BY <1>2, <2>1, <2>2 DEF AuthInv
<1>6. CASE /\ initPc = "password" /\ password' = passwords /\ initPc' = "default" /\ authFaults' = authFaults
           /\ UNCHANGED <<user, default, initialized>>
  <2>1. AuthTypes'
    BY <1>3, <1>6 DEF AuthInv, AuthTypes, Account!InitStage
  <2>2. CreatedInv' /\ ShownInv'
    BY <1>1, <1>6 DEF AuthInv, CreatedInv, ShownInv
  <2>3. QED
    BY <1>2, <2>1, <2>2 DEF AuthInv
<1>7. CASE /\ initPc = "default" /\ default' = passwords /\ initPc' = "flag" /\ authFaults' = authFaults
           /\ UNCHANGED <<user, password, initialized>>
  <2>1. AuthTypes'
    BY <1>3, <1>7 DEF AuthInv, AuthTypes, Account!InitStage
  <2>2. CreatedInv' /\ ShownInv'
    BY <1>1, <1>7 DEF AuthInv, CreatedInv, ShownInv
  <2>3. QED
    BY <1>2, <2>1, <2>2 DEF AuthInv
<1>8. CASE /\ initPc = "flag" /\ initialized' = TRUE /\ initPc' = "serving" /\ authFaults' = authFaults
           /\ UNCHANGED <<user, password, default>>
  <2>1. AuthTypes'
    BY <1>3, <1>8 DEF AuthInv, AuthTypes, Account!InitStage
  <2>2. CreatedInv' /\ ShownInv'
    BY <1>1, <1>8 DEF AuthInv, CreatedInv, ShownInv
  <2>3. QED
    BY <1>2, <2>1, <2>2 DEF AuthInv
<1>9. CASE initPc = "user"
  BY <1>4, <1>5, <1>9 DEF Account!SetAccount
<1>10. CASE initPc = "password"
  BY <1>4, <1>6, <1>10 DEF Account!SetAccount
<1>11. CASE initPc = "default"
  BY <1>4, <1>7, <1>11 DEF Account!SetAccount
<1>12. CASE initPc = "flag"
  BY <1>4, <1>8, <1>12 DEF Account!SetAccount
<1>13. QED
  BY <1>1, <1>9, <1>10, <1>11, <1>12

\* The steps of a request that leave the account alone keep what is said of it.
LEMMA AccountAlone ==
  ASSUME AuthInv, NEW s \in Sessions, NEW l, Moves(s, l), request[s].at # "forget",
         initPc = "serving", l = "store" => request'[s].pwd # 0, passwords' >= passwords,
         UNCHANGED <<user, password, default, initialized, initPc, authCrashes>>,
         authFaults' = authFaults \/ authFaults' = authFaults + 1
  PROVE  CreatedInv' /\ ShownInv'
<1>1. \A t \in Sessions \ {s} : request'[t] = request[t]
  BY DEF Moves
<1>2. CreatedInv'
  BY <1>1 DEF AuthInv, CreatedInv, Moves
<1>3. ShownInv'
  <2>1. ASSUME authFaults' = 0, authCrashes' = 0
        PROVE  default = 0 \/ default = password \/ \E t \in Sessions : request[t].at = "forget"
    BY <2>1 DEF AuthInv, AuthTypes, ShownInv
  <2>2. ASSUME NEW t \in Sessions, request[t].at = "forget" PROVE request'[t].at = "forget"
    BY <1>1, <2>2
  <2>3. QED
    BY <2>1, <2>2 DEF ShownInv
<1>4. QED
  BY <1>2, <1>3

\* Requests act when InitAuth is over.
LEMMA ActsWhenServing ==
  ASSUME AuthInv, NEW s \in Sessions, request[s].at # "none"
  PROVE  initPc = "serving"
BY DEF AuthInv, CreatedInv

\* A login keeps the invariant: the lock, ...
LEMMA LoginLockedKeeps ==
  ASSUME IsFiniteSet(Sessions), MaxAttempts \in Nat \ {0}, AuthInv, NEW s \in Sessions, Account!LoginLocked(s)
  PROVE  AuthInv'
<1>1. Moves(s, "checking")
  BY GotoMoves DEF Account!LoginLocked, AuthInv, AuthTypes, Account!TaskAt
<1>2. /\ initPc = "serving" /\ request[s].at = "none" /\ lockedAt' = FALSE
      /\ failures' = IF lockedAt THEN 0 ELSE failures
      /\ UNCHANGED <<user, password, default, initialized, passwords, initPc, authFaults, authCrashes>>
  BY DEF Account!LoginLocked, Account!account
<1>3. AuthTypes'
  BY <1>1, <1>2 DEF AuthInv, AuthTypes, Moves
<1>4. CreatedInv' /\ ShownInv'
  BY <1>1, <1>2, AccountAlone DEF AuthInv, AuthTypes
<1>5. LockInv'
  <2>1. Past' \subseteq Sessions
    BY DEF Past
  <2>2. Cardinality(Past') \in Nat /\ Cardinality(Past') <= Cardinality(Sessions) /\ Cardinality(Sessions) \in Nat
    BY <2>1, FS_Subset, FS_CardinalityType
  <2>3. failures' \in Nat /\ failures' < MaxAttempts
    BY <1>2 DEF AuthInv, AuthTypes, LockInv
  <2>4. QED
    BY <1>2, <2>2, <2>3 DEF LockInv
<1>6. QED
  BY <1>3, <1>4, <1>5 DEF AuthInv

\* ... the password, ...
LEMMA CheckPasswordKeeps ==
  ASSUME IsFiniteSet(Sessions), MaxAttempts \in Nat \ {0}, AuthInv, NEW s \in Sessions, Account!CheckPassword(s)
  PROVE  AuthInv'
<1>1. PICK l \in {"right", "wrong"} : Account!Goto(s, l)
  BY DEF Account!CheckPassword
<1>2. Moves(s, l)
  BY <1>1, GotoMoves DEF AuthInv, AuthTypes, Account!TaskAt
<1>3. /\ request[s].at = "checking"
      /\ authFaults' = authFaults \/ authFaults' = authFaults + 1
      /\ UNCHANGED <<user, password, default, initialized, passwords, initPc, failures, lockedAt, authCrashes>>
  BY DEF Account!CheckPassword, Account!account, Account!attempts, Account!Ok, Account!Fails
<1>4. AuthTypes'
  BY <1>2, <1>3 DEF AuthInv, AuthTypes, Moves
<1>5. CreatedInv' /\ ShownInv'
  BY <1>1, <1>2, <1>3, ActsWhenServing, AccountAlone DEF AuthInv, AuthTypes
<1>6. Past' \subseteq Past
  BY <1>2, <1>3 DEF Past, Moves
<1>7. LockInv'
  BY <1>3, <1>6, LockStays DEF AuthInv
<1>8. QED
  BY <1>4, <1>5, <1>7 DEF AuthInv

\* ... the count of a failure, ...
LEMMA RegisterFailureKeeps ==
  ASSUME IsFiniteSet(Sessions), MaxAttempts \in Nat \ {0}, AuthInv, NEW s \in Sessions, Account!RegisterFailure(s)
  PROVE  AuthInv'
<1>1. Moves(s, "none")
  BY GotoMoves DEF Account!RegisterFailure, AuthInv, AuthTypes, Account!TaskAt
<1>2. /\ request[s].at = "wrong" /\ failures' = failures + 1
      /\ IF failures' >= MaxAttempts THEN lockedAt' = TRUE ELSE lockedAt' = lockedAt
      /\ UNCHANGED <<user, password, default, initialized, passwords, initPc, authFaults, authCrashes>>
  BY DEF Account!RegisterFailure, Account!account
<1>3. AuthTypes'
  <2>1. lockedAt \in BOOLEAN /\ failures' \in Nat
    BY <1>2 DEF AuthInv, AuthTypes
  <2>2. lockedAt' = TRUE \/ lockedAt' = lockedAt
    BY <1>2, Zenon
  <2>3. lockedAt' \in BOOLEAN
    BY <2>1, <2>2, Zenon
  <2>4. QED
    BY <1>1, <1>2, <2>1, <2>3 DEF AuthInv, AuthTypes, Moves
<1>4. CreatedInv' /\ ShownInv'
  BY <1>1, <1>2, ActsWhenServing, AccountAlone DEF AuthInv, AuthTypes
<1>5. LockInv'
  <2>1. IsFiniteSet(Past) /\ s \in Past
    BY <1>2, FS_Subset DEF Past
  <2>2. Past' = Past \ {s}
    BY <1>1, <1>2 DEF Past, Moves
  <2>3. Cardinality(Past') = Cardinality(Past) - 1 /\ Cardinality(Past) \in Nat /\ Cardinality(Sessions) \in Nat
    BY <2>1, <2>2, FS_RemoveElement, FS_CardinalityType
  <2>4. failures \in Nat /\ (lockedAt <=> failures >= MaxAttempts)
    BY DEF AuthInv, AuthTypes, LockInv
  <2>5. lockedAt' <=> failures' >= MaxAttempts
    BY <1>2, <2>4
  <2>6. QED
    BY <1>2, <2>3, <2>4, <2>5 DEF AuthInv, LockInv
<1>6. QED
  BY <1>3, <1>4, <1>5 DEF AuthInv

\* ... and the end of the count with a success.
LEMMA ClearFailuresKeeps ==
  ASSUME IsFiniteSet(Sessions), MaxAttempts \in Nat \ {0}, AuthInv, NEW s \in Sessions, Account!ClearFailures(s)
  PROVE  AuthInv'
<1>1. Moves(s, "none")
  BY GotoMoves DEF Account!ClearFailures, AuthInv, AuthTypes, Account!TaskAt
<1>2. /\ request[s].at = "right" /\ failures' = 0 /\ lockedAt' = FALSE
      /\ UNCHANGED <<user, password, default, initialized, passwords, initPc, authFaults, authCrashes>>
  BY DEF Account!ClearFailures, Account!account
<1>3. AuthTypes'
  BY <1>1, <1>2 DEF AuthInv, AuthTypes, Moves
<1>4. CreatedInv' /\ ShownInv'
  BY <1>1, <1>2, ActsWhenServing, AccountAlone DEF AuthInv, AuthTypes
<1>5. LockInv'
  BY <1>2, LockResets
<1>6. QED
  BY <1>3, <1>4, <1>5 DEF AuthInv

\* A change of password keeps the invariant: the comparison, ...
LEMMA CompareOldKeeps ==
  ASSUME IsFiniteSet(Sessions), MaxAttempts \in Nat \ {0}, AuthInv, NEW s \in Sessions, Account!CompareOld(s)
  PROVE  AuthInv'
<1>. DEFINE r == [at |-> "store", pwd |-> passwords + 1]
<1>1. r \in TaskSet /\ r.at = "store" /\ r.pwd # 0
  BY DEF TaskSet, Account!TaskAt, AuthInv, AuthTypes
<1>2. request' = [request EXCEPT ![s] = r]
  BY DEF Account!CompareOld
<1>3. Moves(s, "store") /\ request'[s].pwd # 0
  <2>. HIDE DEF r
  <2>. QED
    BY <1>1, <1>2, RecordMoves DEF AuthInv, AuthTypes
<1>4. /\ initPc = "serving" /\ request[s].at = "none" /\ passwords' = passwords + 1
      /\ UNCHANGED <<user, password, default, initialized, initPc, failures, lockedAt, authFaults, authCrashes>>
  BY DEF Account!CompareOld, Account!account, Account!attempts
<1>5. AuthTypes'
  BY <1>3, <1>4 DEF AuthInv, AuthTypes, Moves
<1>6. CreatedInv' /\ ShownInv'
  BY <1>3, <1>4, AccountAlone DEF AuthInv, AuthTypes
<1>7. Past' \subseteq Past
  BY <1>3, <1>4 DEF Past, Moves
<1>8. LockInv'
  BY <1>4, <1>7, LockStays DEF AuthInv
<1>9. QED
  BY <1>5, <1>6, <1>8 DEF AuthInv

\* ... the new password, ...
LEMMA StoreNewKeeps ==
  ASSUME IsFiniteSet(Sessions), MaxAttempts \in Nat \ {0}, AuthInv, NEW s \in Sessions, Account!StoreNew(s)
  PROVE  AuthInv'
<1>. USE DEF Account!Ok, Account!Fails
<1>1. /\ request[s].at = "store" /\ initPc = "serving" /\ request[s].pwd \in Nat \ {0}
      /\ UNCHANGED <<user, default, initialized, passwords, initPc, failures, lockedAt, authCrashes>>
  BY ActsWhenServing DEF Account!StoreNew, Account!attempts, AuthInv, AuthTypes, CreatedInv, TaskSet
<1>2. CASE authFaults' = authFaults /\ password' = request[s].pwd /\ Account!Goto(s, "forget")
  <2>1. Moves(s, "forget")
    BY <1>2, GotoMoves DEF AuthInv, AuthTypes, Account!TaskAt
  <2>2. AuthTypes'
    BY <1>1, <1>2, <2>1 DEF AuthInv, AuthTypes, Moves
  <2>3. CreatedInv' /\ ShownInv'
    BY <1>1, <1>2, <2>1 DEF AuthInv, CreatedInv, ShownInv, Moves
  <2>4. Past' \subseteq Past
    BY <1>1, <2>1 DEF Past, Moves
  <2>5. QED
    BY <1>1, <2>2, <2>3, <2>4, LockStays DEF AuthInv
<1>3. CASE authFaults' = authFaults + 1 /\ request' = [request EXCEPT ![s] = Account!Idle] /\ password' = password
  <2>1. Account!Idle \in TaskSet /\ Account!Idle.at = "none"
    BY DEF TaskSet, Account!TaskAt, Account!Idle
  <2>2. Moves(s, "none")
    BY <1>3, <2>1, RecordMoves DEF AuthInv, AuthTypes
  <2>3. AuthTypes'
    BY <1>1, <1>3, <2>2 DEF AuthInv, AuthTypes, Moves
  <2>4. CreatedInv' /\ ShownInv'
    BY <1>1, <1>3, <2>2, AccountAlone DEF AuthInv, AuthTypes
  <2>5. Past' \subseteq Past
    BY <1>1, <2>2 DEF Past, Moves
  <2>6. QED
    BY <1>1, <2>3, <2>4, <2>5, LockStays DEF AuthInv
<1>4. QED
  BY <1>2, <1>3 DEF Account!StoreNew

\* ... and the default password that is forgotten.
LEMMA ForgetDefaultKeeps ==
  ASSUME IsFiniteSet(Sessions), MaxAttempts \in Nat \ {0}, AuthInv, NEW s \in Sessions, Account!ForgetDefault(s)
  PROVE  AuthInv'
<1>1. /\ request[s].at = "forget" /\ initPc = "serving" /\ request' = [request EXCEPT ![s] = Account!Idle]
      /\ UNCHANGED <<user, password, initialized, passwords, initPc, failures, lockedAt, authCrashes>>
      /\ \/ authFaults' = authFaults /\ default' = 0
         \/ authFaults' = authFaults + 1 /\ default' = default
  BY ActsWhenServing DEF Account!ForgetDefault, Account!attempts, Account!Ok, Account!Fails
<1>2. Account!Idle \in TaskSet /\ Account!Idle.at = "none"
  BY DEF TaskSet, Account!TaskAt, Account!Idle
<1>3. Moves(s, "none")
  BY <1>1, <1>2, RecordMoves DEF AuthInv, AuthTypes
<1>4. AuthTypes'
  BY <1>1, <1>3 DEF AuthInv, AuthTypes, Moves
<1>5. CreatedInv'
  BY <1>1, <1>3 DEF AuthInv, CreatedInv, Moves
<1>6. ShownInv'
  BY <1>1 DEF AuthInv, AuthTypes, ShownInv
<1>7. Past' \subseteq Past
  BY <1>1, <1>3 DEF Past, Moves
<1>8. QED
  BY <1>1, <1>4, <1>5, <1>6, <1>7, LockStays DEF AuthInv

\* Every step keeps the invariant.
LEMMA AuthInvStep ==
  ASSUME IsFiniteSet(Sessions), MaxAttempts \in Nat \ {0}, AuthInv, [Account!AuthNext]_(Account!authVars)
  PROVE  AuthInv'
<1>1. CASE Account!WindowEnds \/ UNCHANGED Account!authVars
  <2>1. UNCHANGED <<user, password, default, initialized, passwords, initPc, request, failures, lockedAt,
                    authFaults, authCrashes>>
    BY <1>1 DEF Account!WindowEnds, Account!authVars, Account!account, Account!attempts
  <2>2. QED
    BY <2>1 DEF AuthInv, AuthTypes, CreatedInv, ShownInv, LockInv, Past
<1>2. CASE Account!AuthCrash
  <2>1. Account!Idle \in TaskSet /\ Account!Idle.at = "none"
    BY DEF TaskSet, Account!TaskAt, Account!Idle
  <2>2. /\ authCrashes' = authCrashes + 1 /\ initPc' = "start" /\ request' = [s \in Sessions |-> Account!Idle]
        /\ failures' = 0 /\ lockedAt' = FALSE
        /\ UNCHANGED <<user, password, default, initialized, passwords, authFaults>>
    BY <1>2 DEF Account!AuthCrash, Account!account
  <2>3. request' \in [Sessions -> TaskSet] /\ \A s \in Sessions : request'[s].at = "none"
    BY <2>1, <2>2
  <2>4. AuthTypes'
    <3>1. /\ password' \in Nat /\ default' \in Nat /\ passwords' \in Nat /\ failures' \in Nat
          /\ authFaults' \in Nat /\ authCrashes' \in Nat
      BY <2>2 DEF AuthInv, AuthTypes
    <3>2. initialized' \in BOOLEAN /\ lockedAt' \in BOOLEAN /\ initPc' \in Account!InitStage
      BY <2>2 DEF AuthInv, AuthTypes, Account!InitStage
    <3>3. QED
      BY <2>3, <3>1, <3>2 DEF AuthTypes
  <2>5. CreatedInv'
    BY <2>2, <2>3 DEF AuthInv, CreatedInv
  <2>6. ShownInv'
    BY <2>2 DEF AuthInv, AuthTypes, ShownInv
  <2>7. QED
    BY <2>2, <2>4, <2>5, <2>6, LockResets DEF AuthInv
<1>3. QED
  BY <1>1, <1>2, ReadFlagKeeps, SetAccountKeeps, LoginLockedKeeps, CheckPasswordKeeps, RegisterFailureKeeps,
     ClearFailuresKeeps, CompareOldKeeps, StoreNewKeeps, ForgetDefaultKeeps
     DEF Account!AuthNext

\* The cardinality Auth speaks of is that of the facts about finite sets.
LEMMA SameCardinalityOfAuth ==
  ASSUME NEW S
  PROVE  Account!Cardinality(S) = Cardinality(S)
BY DEF Account!Cardinality, Cardinality

\* The account: once it counts as created it can be logged in to, however often its
\* creation was cut short, and without failures the default password that is shown is
\* the one that opens it.
THEOREM AccountStaysSound ==
  ASSUME IsFiniteSet(Sessions), MaxAttempts \in Nat \ {0}
  PROVE  Account!AuthSpec => []AccountIsSound
<1>1. AuthInv => Account!AccountIsSound
  BY DEF AuthInv, CreatedInv, ShownInv, Account!AccountIsSound, Account!InitializedIsWhole, Account!DefaultOpens
<1>2. QED
  BY <1>1, AuthInvInit, AuthInvStep, PTL DEF Account!AuthSpec, AccountIsSound

\* Logins: whatever the order of concurrent requests, fewer than MaxAttempts and the
\* number of requests are counted before the lock, and a lock means MaxAttempts were.
THEOREM FailuresStayBounded ==
  ASSUME IsFiniteSet(Sessions), MaxAttempts \in Nat \ {0}
  PROVE  Account!AuthSpec => []FailuresAreBounded
<1>1. AuthInv => Account!FailuresAreBounded
  <2>. SUFFICES ASSUME AuthInv PROVE Account!FailuresAreBounded
    OBVIOUS
  <2>1. IsFiniteSet(Past) /\ failures \in Nat
    BY FS_Subset DEF Past, AuthInv, AuthTypes
  <2>2. Cardinality(Past) \in Nat /\ Cardinality(Sessions) \in Nat
    BY <2>1, FS_CardinalityType
  <2>3. failures < MaxAttempts + Cardinality(Sessions)
    BY <2>1, <2>2 DEF AuthInv, LockInv
  <2>4. QED
    BY <2>3, SameCardinalityOfAuth DEF AuthInv, LockInv, Account!FailuresAreBounded
<1>2. QED
  BY <1>1, AuthInvInit, AuthInvStep, PTL DEF Account!AuthSpec, FailuresAreBounded
----------------------------------------------------------------------------
(* Upgrade. *)

\* The part of the types the arguments need.
UpTypes ==
  /\ latest \in Nat \ {0} /\ restarts \in Nat /\ upFaults \in Nat
  /\ upc \in [Upgraders -> Up!Stage] /\ file \in [Upgraders -> Nat]

Upgrades(u) == upc[u] # "none"

\* One upgrade at a time, in a server whose upgradeState says so; and nothing is left of it
\* in a server that has ended.
OneUpgrade ==
  /\ \A u \in Upgraders : Upgrades(u) => upgrading /\ serving
  /\ \A u, v \in Upgraders : Upgrades(u) /\ Upgrades(v) => u = v
  /\ ~serving => ~upgrading /\ status = ""

\* From its verification on, the file of an upgrade is a published release, and before
\* the swap .bak is what the swap replaces.
ReplacedFiles ==
  \A u \in Upgraders :
    /\ upc[u] \in {"backup", "copying", "swap"} => file[u] \in 1..latest
    /\ upc[u] = "swap" => bak = binary

UpInv == UpTypes /\ OneUpgrade /\ ReplacedFiles /\ Up!BusyIsUnderWay

\* The invariant holds at first.
LEMMA UpInvInit == Up!UpInit => UpInv
<1>. SUFFICES ASSUME Up!UpInit PROVE UpInv
  OBVIOUS
<1>1. UpTypes
  <2>1. latest = 1 /\ restarts = 0 /\ upFaults = 0
    BY DEF Up!UpInit
  <2>2. upc \in [Upgraders -> Up!Stage] /\ file \in [Upgraders -> Nat]
    BY DEF Up!UpInit, Up!Stage
  <2>3. QED
    BY <2>1, <2>2 DEF UpTypes
<1>2. \A u \in Upgraders : upc[u] = "none"
  BY DEF Up!UpInit
<1>3. OneUpgrade /\ ReplacedFiles
  BY <1>2 DEF Up!UpInit, OneUpgrade, ReplacedFiles, Upgrades
<1>4. Up!BusyIsUnderWay
  BY DEF Up!UpInit, Up!BusyIsUnderWay
<1>5. QED
  BY <1>1, <1>3, <1>4 DEF UpInv

\* The step of an upgrade: its place is l then, and the others stay where they are.
Reaches(u, l) ==
  /\ upc' \in [Upgraders -> Up!Stage] /\ upc'[u] = l
  /\ \A v \in Upgraders \ {u} : upc'[v] = upc[v]

\* Goto is such a step.
LEMMA UpGoto ==
  ASSUME upc \in [Upgraders -> Up!Stage], NEW u \in Upgraders, NEW l \in Up!Stage, Up!Goto(u, l)
  PROVE  Reaches(u, l)
BY DEF Up!Goto, Reaches

\* The upgrade that takes a step is the only one.
LEMMA UpgradesAlone ==
  ASSUME UpInv, NEW u \in Upgraders, Upgrades(u)
  PROVE  upgrading /\ serving /\ \A v \in Upgraders \ {u} : upc[v] = "none"
BY DEF UpInv, OneUpgrade, Upgrades

\* An upgrade that goes on, with the files it has come to, keeps the invariant.
LEMMA UpgradeGoesOn ==
  ASSUME UpInv, NEW u \in Upgraders, Upgrades(u), NEW l \in Up!Stage \ {"none"}, Reaches(u, l),
         upgrading' = upgrading, serving' = serving, latest' = latest, restarts' = restarts,
         upFaults' \in Nat, file' \in [Upgraders -> Nat],
         l \in {"backup", "copying", "swap"} => file'[u] \in 1..latest,
         l = "swap" => bak' = binary'
  PROVE  UpInv'
<1>1. upgrading /\ serving /\ \A v \in Upgraders \ {u} : upc'[v] = "none"
  BY UpgradesAlone DEF Reaches
<1>2. upc'[u] = l /\ l # "none" /\ upc' \in [Upgraders -> Up!Stage]
  BY DEF Reaches
<1>3. UpTypes'
  BY <1>2 DEF UpInv, UpTypes
<1>4. OneUpgrade'
  BY <1>1, <1>2 DEF OneUpgrade, Upgrades
<1>5. ReplacedFiles'
  BY <1>1, <1>2 DEF ReplacedFiles
<1>6. Up!BusyIsUnderWay'
  BY <1>2 DEF Up!BusyIsUnderWay
<1>7. QED
  BY <1>3, <1>4, <1>5, <1>6 DEF UpInv

\* And so does one that gives up.
LEMMA UpgradeGivesUp ==
  ASSUME UpInv, NEW u \in Upgraders, Upgrades(u), Up!GiveUp(u),
         serving' = serving, latest' = latest, restarts' = restarts,
         upFaults' \in Nat, file' \in [Upgraders -> Nat]
  PROVE  UpInv'
<1>1. Reaches(u, "none") /\ upgrading' = FALSE /\ status' = "error"
  BY UpGoto DEF Up!GiveUp, UpInv, UpTypes, Up!Stage
<1>2. serving' /\ \A v \in Upgraders : upc'[v] = "none"
  BY <1>1, UpgradesAlone DEF Reaches
<1>3. UpTypes'
  BY <1>1 DEF UpInv, UpTypes, Reaches
<1>4. OneUpgrade' /\ ReplacedFiles'
  BY <1>2 DEF OneUpgrade, ReplacedFiles, Upgrades
<1>5. Up!BusyIsUnderWay'
  BY <1>1 DEF Up!BusyIsUnderWay
<1>6. QED
  BY <1>3, <1>4, <1>5 DEF UpInv

\* Every step of an upgrade keeps the invariant.
LEMMA UpgradingKeeps ==
  ASSUME UpInv, NEW u \in Upgraders, Up!Upgrading(u)
  PROVE  UpInv'
<1>. USE DEF Up!Ok, Up!Fails
<1>1. /\ upFaults \in Nat /\ file \in [Upgraders -> Nat] /\ latest \in Nat \ {0}
      /\ upc \in [Upgraders -> Up!Stage]
  BY DEF UpInv, UpTypes
<1>2. {"check", "download", "verify", "backup", "copying", "swap", "end"} = Up!Stage \ {"none"}
  BY DEF Up!Stage
<1>3. CASE Up!CheckUpdate(u)
  <2>1. /\ Upgrades(u) /\ UNCHANGED <<latest, file, restarts, serving>> /\ upFaults' \in Nat
    BY <1>1, <1>3 DEF Up!CheckUpdate, Upgrades, Up!life
  <2>2. CASE Up!Goto(u, "download") /\ UNCHANGED Up!shared
    BY <1>1, <1>2, <2>1, <2>2, UpGoto, UpgradeGoesOn DEF Up!shared
  <2>3. CASE Up!GiveUp(u)
    BY <1>1, <2>1, <2>3, UpgradeGivesUp
  <2>4. QED
    BY <1>3, <2>2, <2>3 DEF Up!CheckUpdate
<1>4. CASE Up!Download(u)
  <2>1. /\ Upgrades(u) /\ UNCHANGED <<latest, restarts, serving>> /\ upFaults' \in Nat
        /\ file' \in [Upgraders -> Nat]
    BY <1>1, <1>4 DEF Up!Download, Upgrades, Up!life
  <2>2. CASE Up!Goto(u, "verify") /\ upgrading' = upgrading
    BY <1>1, <1>2, <2>1, <2>2, UpGoto, UpgradeGoesOn
  <2>3. CASE Up!GiveUp(u)
    BY <1>1, <2>1, <2>3, UpgradeGivesUp
  <2>4. QED
    BY <1>4, <2>2, <2>3 DEF Up!Download
<1>5. CASE Up!Verify(u)
  <2>1. /\ Upgrades(u) /\ UNCHANGED <<latest, file, restarts, serving>> /\ upFaults' \in Nat
    BY <1>1, <1>5 DEF Up!Verify, Upgrades, Up!life
  <2>2. CASE file[u] = latest /\ Up!Goto(u, "backup") /\ upgrading' = upgrading
    BY <1>1, <1>2, <2>1, <2>2, UpGoto, UpgradeGoesOn
  <2>3. CASE Up!GiveUp(u)
    BY <1>1, <2>1, <2>3, UpgradeGivesUp
  <2>4. QED
    BY <1>5, <2>2, <2>3 DEF Up!Verify
<1>6. CASE Up!OpenBak(u)
  <2>1. /\ Upgrades(u) /\ UNCHANGED <<latest, file, restarts, serving>> /\ upFaults' \in Nat
        /\ file[u] \in 1..latest
    BY <1>1, <1>6 DEF Up!OpenBak, Upgrades, Up!life, UpInv, ReplacedFiles
  <2>2. CASE Up!Goto(u, "copying") /\ UNCHANGED Up!shared
    BY <1>1, <1>2, <2>1, <2>2, UpGoto, UpgradeGoesOn DEF Up!shared
  <2>3. CASE Up!GiveUp(u)
    BY <1>1, <2>1, <2>3, UpgradeGivesUp
  <2>4. QED
    BY <1>6, <2>2, <2>3 DEF Up!OpenBak
<1>7. CASE Up!CopyBak(u)
  <2>1. /\ Upgrades(u) /\ UNCHANGED <<latest, binary, file, restarts, serving>> /\ upFaults' \in Nat
        /\ file[u] \in 1..latest
    BY <1>1, <1>7 DEF Up!CopyBak, Upgrades, Up!life, UpInv, ReplacedFiles
  <2>2. CASE bak' = binary /\ Up!Goto(u, "swap") /\ UNCHANGED Up!shared
    BY <1>1, <1>2, <2>1, <2>2, UpGoto, UpgradeGoesOn DEF Up!shared
  <2>3. CASE Up!GiveUp(u)
    BY <1>1, <2>1, <2>3, UpgradeGivesUp
  <2>4. QED
    BY <1>7, <2>2, <2>3 DEF Up!CopyBak
<1>8. CASE Up!Rename(u)
  <2>1. /\ Upgrades(u) /\ UNCHANGED <<latest, file, restarts, serving>> /\ upFaults' \in Nat
    BY <1>1, <1>8 DEF Up!Rename, Upgrades, Up!life
  <2>2. CASE Up!Goto(u, "end") /\ upgrading' = upgrading
    BY <1>1, <1>2, <2>1, <2>2, UpGoto, UpgradeGoesOn
  <2>3. CASE Up!GiveUp(u)
    BY <1>1, <2>1, <2>3, UpgradeGivesUp
  <2>4. QED
    BY <1>8, <2>2, <2>3 DEF Up!Rename
<1>9. CASE Up!RestartUpgraded(u)
  <2>1. /\ Upgrades(u) /\ Reaches(u, "none")
        /\ UNCHANGED <<latest, file, restarts, serving, upgrading, status, bak, binary>>
        /\ (upFaults' = upFaults /\ kill') \/ upFaults' = upFaults + 1
    BY <1>1, <1>9, UpGoto DEF Up!RestartUpgraded, Upgrades, Up!life, Up!shared, Up!disk, Up!Stage
  <2>2. upgrading /\ serving /\ \A v \in Upgraders : upc'[v] = "none"
    BY <2>1, UpgradesAlone DEF Reaches
  <2>3. UpTypes'
    BY <1>1, <2>1 DEF UpInv, UpTypes, Reaches
  <2>4. OneUpgrade' /\ ReplacedFiles'
    BY <2>1, <2>2 DEF OneUpgrade, ReplacedFiles, Upgrades
  <2>5. Up!BusyIsUnderWay'
    BY <1>1, <2>1 DEF Up!BusyIsUnderWay
  <2>6. QED
    BY <2>3, <2>4, <2>5 DEF UpInv
<1>10. QED
  BY <1>3, <1>4, <1>5, <1>6, <1>7, <1>8, <1>9 DEF Up!Upgrading

\* Requests for an upgrade and for a restart keep it.
LEMMA RequestsKeep ==
  ASSUME UpInv, Up!Restart \/ Up!RestartService \/ \E u \in Upgraders : Up!Perform(u)
  PROVE  UpInv'
<1>1. upc \in [Upgraders -> Up!Stage] /\ restarts \in Nat
  BY DEF UpInv, UpTypes
<1>2. ASSUME NEW u \in Upgraders, Up!Perform(u) PROVE UpInv'
  <2>1. /\ serving /\ ~upgrading /\ upgrading' = TRUE /\ Reaches(u, "check")
        /\ UNCHANGED <<latest, file, restarts, serving, bak, binary, upFaults>>
    BY <1>1, <1>2, UpGoto DEF Up!Perform, Up!life, Up!disk, Up!Stage
  <2>2. \A v \in Upgraders : upc[v] = "none"
    BY <2>1 DEF UpInv, OneUpgrade, Upgrades
  <2>3. UpTypes' /\ ReplacedFiles'
    BY <2>1, <2>2 DEF UpInv, UpTypes, ReplacedFiles, Reaches
  <2>4. OneUpgrade'
    BY <2>1, <2>2 DEF OneUpgrade, Reaches, Upgrades
  <2>5. Up!BusyIsUnderWay'
    BY <2>1 DEF Up!BusyIsUnderWay, Reaches
  <2>6. QED
    BY <2>3, <2>4, <2>5 DEF UpInv
<1>3. CASE Up!Restart
  <2>1. /\ serving /\ restarts' = restarts + 1
        /\ UNCHANGED <<latest, file, serving, upgrading, upc, bak, binary, upFaults>>
    BY <1>3 DEF Up!Restart, Up!life, Up!disk
  <2>2. UpTypes' /\ ReplacedFiles' /\ OneUpgrade'
    BY <1>1, <2>1 DEF UpInv, UpTypes, ReplacedFiles, OneUpgrade, Upgrades
  <2>3. Up!BusyIsUnderWay'
    BY <1>1, <2>1 DEF Up!BusyIsUnderWay
  <2>4. QED
    BY <2>2, <2>3 DEF UpInv
<1>4. CASE Up!RestartService
  <2>1. /\ restarts' \in Nat
        /\ UNCHANGED <<latest, file, serving, upgrading, status, upc, bak, binary>>
        /\ (upFaults' = upFaults /\ kill') \/ upFaults' = upFaults + 1
    BY <1>1, <1>4 DEF Up!RestartService, Up!life, Up!disk, Up!shared, Up!Ok, Up!Fails
  <2>2. UpTypes'
    BY <2>1 DEF UpInv, UpTypes
  <2>3. ReplacedFiles' /\ OneUpgrade'
    BY <2>1 DEF UpInv, ReplacedFiles, OneUpgrade, Upgrades
  <2>4. Up!BusyIsUnderWay'
    BY <2>1 DEF UpInv, UpTypes, Up!BusyIsUnderWay
  <2>5. QED
    BY <2>2, <2>3, <2>4 DEF UpInv
<1>5. QED
  BY <1>2, <1>3, <1>4

\* The end and the start of the process keep it.
LEMMA ProcessKeeps ==
  ASSUME UpInv, Up!Killed \/ Up!RestartFails \/ Up!Crash \/ Up!Boot
  PROVE  UpInv'
<1>1. CASE Up!Gone /\ latest' = latest /\ upFaults' = upFaults
  <2>1. UpTypes'
    BY <1>1 DEF UpInv, UpTypes, Up!Gone, Up!Stage
  <2>2. OneUpgrade' /\ ReplacedFiles' /\ Up!BusyIsUnderWay'
    BY <1>1 DEF OneUpgrade, ReplacedFiles, Upgrades, Up!BusyIsUnderWay, Up!Gone
  <2>3. QED
    BY <2>1, <2>2 DEF UpInv
<1>2. CASE Up!RestartFails
  <2>1. /\ UNCHANGED <<latest, file, serving, upgrading, status, upc, bak, binary, restarts>>
        /\ upFaults' = upFaults + 1
    BY <1>2 DEF Up!RestartFails, Up!Fails, Up!life, Up!disk, Up!shared
  <2>2. UpTypes'
    BY <2>1 DEF UpInv, UpTypes
  <2>3. ReplacedFiles' /\ OneUpgrade'
    BY <2>1 DEF UpInv, ReplacedFiles, OneUpgrade, Upgrades
  <2>4. Up!BusyIsUnderWay'
    BY <2>1 DEF UpInv, UpTypes, Up!BusyIsUnderWay
  <2>5. QED
    BY <2>2, <2>3, <2>4 DEF UpInv
<1>3. CASE Up!Boot
  <2>1. /\ ~serving /\ serving' = TRUE /\ upFaults' = 0
        /\ UNCHANGED <<latest, file, upgrading, status, upc, bak, binary, restarts>>
    BY <1>3 DEF Up!Boot, Up!disk, Up!shared
  <2>2. QED
    BY <2>1 DEF UpInv, UpTypes, OneUpgrade, ReplacedFiles, Upgrades, Up!BusyIsUnderWay
<1>4. QED
  BY <1>1, <1>2, <1>3 DEF Up!Killed, Up!Crash

\* Every step keeps the invariant.
LEMMA UpInvStep == UpInv /\ [Up!UpNext]_(Up!upVars) => UpInv'
<1>. SUFFICES ASSUME UpInv, [Up!UpNext]_(Up!upVars) PROVE UpInv'
  OBVIOUS
<1>1. CASE Up!Publish
  <2>1. /\ latest' = latest + 1
        /\ UNCHANGED <<file, serving, upgrading, status, upc, bak, binary, restarts, kill, upFaults>>
    BY <1>1 DEF Up!Publish, Up!disk, Up!shared, Up!life
  <2>2. UpTypes'
    BY <2>1 DEF UpInv, UpTypes
  <2>3. OneUpgrade'
    BY <2>1 DEF UpInv, OneUpgrade, Upgrades
  <2>4. ReplacedFiles'
    <3>1. latest \in Nat /\ ReplacedFiles
      BY DEF UpInv, UpTypes
    <3>2. \A x \in 1..latest : x \in 1..latest'
      BY <2>1, <3>1
    <3>3. QED
      BY <2>1, <3>1, <3>2 DEF ReplacedFiles
  <2>5. Up!BusyIsUnderWay'
    BY <2>1 DEF UpInv, Up!BusyIsUnderWay
  <2>6. QED
    BY <2>2, <2>3, <2>4, <2>5 DEF UpInv
<1>2. CASE Up!Check \/ Up!CacheExpires \/ UNCHANGED Up!upVars
  <2>1. UNCHANGED <<latest, file, serving, upgrading, status, upc, bak, binary, restarts, kill, upFaults>>
    BY <1>2 DEF Up!Check, Up!CacheExpires, Up!upVars, Up!disk, Up!shared, Up!life
  <2>2. QED
    BY <2>1 DEF UpInv, UpTypes, OneUpgrade, ReplacedFiles, Upgrades, Up!BusyIsUnderWay
<1>3. QED
  BY <1>1, <1>2, UpgradingKeeps, RequestsKeep, ProcessKeeps DEF Up!UpNext

\* Upgrade: what refuses requests is under way, or has failed.
THEOREM BusyUpgradeIsUnderWay == Up!UpSpec => []BusyIsUnderWay
<1>1. UpInv => Up!BusyIsUnderWay
  BY DEF UpInv
<1>2. QED
  BY <1>1, UpInvInit, UpInvStep, PTL DEF Up!UpSpec, BusyIsUnderWay

\* Upgrade: the binary is only ever replaced by a whole published release, and the one
\* it replaces is whole in .bak.
THEOREM ReplacedStaysKept == Up!UpSpec => ReplacedIsKept
<1>1. ASSUME UpInv, [Up!UpNext]_(Up!upVars)
      PROVE  binary' # binary => bak = binary /\ binary' \in 1..latest
  <2>1. ASSUME NEW u \in Upgraders, Up!Rename(u), binary' # binary
        PROVE  bak = binary /\ binary' \in 1..latest
    BY <1>1, <2>1 DEF Up!Rename, UpInv, ReplacedFiles
  <2>2. ASSUME NEW u \in Upgraders, Up!Perform(u) \/ (Up!Upgrading(u) /\ ~Up!Rename(u))
        PROVE  binary' = binary
    BY <2>2 DEF Up!Perform, Up!Upgrading, Up!CheckUpdate, Up!Download, Up!Verify, Up!OpenBak, Up!CopyBak,
                Up!RestartUpgraded, Up!disk
  <2>3. ASSUME Up!Publish \/ Up!Check \/ Up!CacheExpires \/ Up!Restart \/ Up!RestartService
               \/ Up!Killed \/ Up!RestartFails \/ Up!Crash \/ Up!Boot \/ UNCHANGED Up!upVars
        PROVE  binary' = binary
    BY <2>3 DEF Up!Publish, Up!Check, Up!CacheExpires, Up!Restart, Up!RestartService, Up!Killed,
                Up!RestartFails, Up!Crash, Up!Boot, Up!upVars, Up!disk
  <2>4. QED
    BY <1>1, <2>1, <2>2, <2>3 DEF Up!UpNext
<1>2. UpInv /\ [Up!UpNext]_(Up!upVars)
        => [binary' # binary => bak = binary /\ binary' \in 1..latest]_(Up!upVars)
  BY <1>1
<1>3. QED
  BY <1>2, UpInvInit, UpInvStep, PTL DEF Up!UpSpec, Up!ReplacedIsKept, ReplacedIsKept

----------------------------------------------------------------------------
(* Types: of each component, and of all together. *)

\* LogTail: the page is told of no more than was written, by polls that stay within it.
TailBounds ==
  /\ kind \in Views /\ written \in 0..Lines /\ offset \in 0..Lines /\ shown \subseteq 1..Lines
  /\ \A p \in Polls : poll[p].from <= Lines /\ poll[p].size <= Lines /\ poll[p].to <= Lines

\* It holds at first.
LEMMA TailBoundsInit == ASSUME Lines \in Nat, TailInit PROVE TailBounds
<1>1. \A p \in Polls : poll[p] = NoPoll
  BY DEF TailInit
<1>2. NoPoll.from = 0 /\ NoPoll.size = 0 /\ NoPoll.to = 0
  BY DEF NoPoll
<1>3. QED
  BY <1>1, <1>2 DEF TailInit, TailBounds

\* Every step keeps it.
LEMMA TailBoundsStep ==
  ASSUME Lines \in Nat, TailTypes, TailBounds, [TailNext]_tailVars
  PROVE  TailBounds'
<1>1. ASSUME NEW p \in Polls, NEW r, r.from <= Lines, r.size <= Lines, r.to <= Lines,
             Goes(p, r), UNCHANGED <<kind, written>>, offset' \in 0..Lines, shown' \subseteq 1..Lines
      PROVE  TailBounds'
  <2>1. poll'[p] = r /\ \A q \in Polls \ {p} : poll'[q] = poll[q]
    BY <1>1 DEF Goes, TailTypes
  <2>2. QED
    BY <1>1, <2>1 DEF TailBounds
<1>2. ASSUME NEW p \in Polls
      PROVE  /\ poll[p] \in PollState /\ poll[p].from \in Nat /\ poll[p].size \in Nat /\ poll[p].to \in Nat
             /\ poll[p].from <= Lines /\ poll[p].size <= Lines /\ poll[p].to <= Lines
             /\ offset \in 0..Lines /\ written \in 0..Lines /\ shown \subseteq 1..Lines
             /\ settled \in BOOLEAN /\ named \in BOOLEAN
  BY <1>2 DEF TailTypes, TailBounds, PollState
<1>3. ASSUME NEW p \in Polls, Ask(p) PROVE TailBounds'
  <2>. DEFINE r == [NoPoll EXCEPT !.at = "record", !.from = offset]
  <2>1. r.from = offset /\ r.size = 0 /\ r.to = 0
    BY DEF NoPoll
  <2>2. Goes(p, r) /\ UNCHANGED <<kind, written, offset, shown>>
    BY <1>3 DEF Ask, run
  <2>. HIDE DEF r
  <2>3. QED
    BY <1>1, <1>2, <2>1, <2>2
<1>4. ASSUME NEW p \in Polls, ReadRecord(p) PROVE TailBounds'
  <2>. DEFINE r == [poll[p] EXCEPT !.at = "stat", !.done = settled, !.path = named]
  <2>1. r.from = poll[p].from /\ r.size = poll[p].size /\ r.to = poll[p].to
    BY <1>2 DEF PollState
  <2>2. Goes(p, r) /\ UNCHANGED <<kind, written, offset, shown>>
    BY <1>4 DEF ReadRecord, run
  <2>. HIDE DEF r
  <2>3. QED
    BY <1>1, <1>2, <2>1, <2>2
<1>5. ASSUME NEW p \in Polls, Stat(p) PROVE TailBounds'
  <2>. DEFINE r == [poll[p] EXCEPT !.at = "read", !.size = written,
                                   !.from = IF @ > written THEN written ELSE @]
              q == [poll[p] EXCEPT !.at = "answer", !.size = poll[p].from, !.to = poll[p].from]
  <2>1. r.from <= Lines /\ r.size <= Lines /\ r.to <= Lines
    BY <1>2 DEF PollState
  <2>2. q.from <= Lines /\ q.size <= Lines /\ q.to <= Lines
    BY <1>2 DEF PollState
  <2>3. (Goes(p, r) \/ Goes(p, q)) /\ UNCHANGED <<run, offset, shown, timer>>
    BY <1>5 DEF Stat
  <2>4. QED
    <3>. HIDE DEF r, q
    <3>. QED
      BY <1>1, <1>2, <2>1, <2>2, <2>3 DEF run
<1>6. ASSUME NEW p \in Polls, ReadAll(p) PROVE TailBounds'
  <2>. DEFINE r == [poll[p] EXCEPT !.at = "answer", !.to = written]
  <2>1. r.from <= Lines /\ r.size <= Lines /\ r.to <= Lines
    BY <1>2 DEF PollState
  <2>2. Goes(p, r) /\ UNCHANGED <<kind, written, offset, shown>>
    BY <1>6 DEF ReadAll, run
  <2>. HIDE DEF r
  <2>3. QED
    BY <1>1, <1>2, <2>1, <2>2
<1>7. ASSUME NEW p \in Polls, Answer(p) PROVE TailBounds'
  <2>1. NoPoll.from = 0 /\ NoPoll.size = 0 /\ NoPoll.to = 0
    BY DEF NoPoll
  <2>2. /\ shown' = shown \cup (poll[p].from + 1)..poll[p].to /\ offset' = poll[p].size
        /\ Goes(p, NoPoll) /\ UNCHANGED <<kind, written>>
    BY <1>7 DEF Answer, run
  <2>3. shown' \subseteq 1..Lines /\ offset' \in 0..Lines
    BY <1>2, <2>2
  <2>4. QED
    BY <1>1, <2>1, <2>2, <2>3
<1>8. CASE Running
  <2>1. written' \in 0..Lines /\ UNCHANGED <<kind, offset, poll, shown>>
    BY <1>8 DEF Running, Name, Write, Settle, TailBounds
  <2>2. QED
    BY <2>1 DEF TailBounds
<1>9. CASE UNCHANGED tailVars
  BY <1>9 DEF tailVars, TailBounds
<1>10. QED
  BY <1>3, <1>4, <1>5, <1>6, <1>7, <1>8, <1>9 DEF TailNext, Polling

\* LogTail: what the arguments need and the bounds make the types.
LEMMA TailTypesAre == ASSUME Lines \in Nat, TailTypes, TailBounds PROVE TailTypeOK
  BY DEF TailTypes, TailBounds, TailTypeOK

----------------------------------------------------------------------------
\* CliRestore: at first ...
LEMMA CliTypeInit == Cli!CliInit => Cli!CliTypeOK
<1>. SUFFICES ASSUME Cli!CliInit PROVE Cli!CliTypeOK
  OBVIOUS
<1>1. dataDir \in Cli!Dir /\ newest \in Cli!Dir /\ aside \subseteq Cli!Dir
  BY ServicesAssumption DEF Cli!CliInit, Cli!Dir
<1>2. /\ server \in BOOLEAN /\ unit \in {"none", "started", "stopped"}
      /\ findable \in BOOLEAN /\ overwrote \in BOOLEAN
  BY DEF Cli!CliInit
<1>3. /\ cli = "none" /\ rest \subseteq Files /\ cliRuns \in Nat /\ cliFaults \in Nat
  BY DEF Cli!CliInit
<1>4. QED
  BY <1>1, <1>2, <1>3 DEF Cli!CliTypeOK

\* ... and in every step.
LEMMA CliTypeStep == Cli!CliTypeOK /\ [Cli!CliNext]_(Cli!cliVars) => Cli!CliTypeOK'
<1>. SUFFICES ASSUME Cli!CliTypeOK, [Cli!CliNext]_(Cli!cliVars) PROVE Cli!CliTypeOK'
  OBVIOUS
<1>1. /\ server' \in BOOLEAN /\ unit' \in {"none", "started", "stopped"}
      /\ findable' \in BOOLEAN /\ overwrote' \in BOOLEAN
  BY DEF Cli!CliNext, Cli!cliVars, Cli!Ok, Cli!Fails, Cli!ServerWrites, Cli!UnzipFile,
         Cli!CmdRestore, Cli!StopUnit, Cli!StopInstance, Cli!UnitRestarts, Cli!RenameAway,
         Cli!MakeDir, Cli!Restored, Cli!Interrupted, Cli!CliTypeOK
<1>2. /\ cli' \in {"none", "stop", "kill", "rename", "mkdir", "unzip", "done"}
      /\ rest' \subseteq Files /\ cliRuns' \in Nat /\ cliFaults' \in Nat
  BY ServicesAssumption
     DEF Cli!CliNext, Cli!cliVars, Cli!Ok, Cli!Fails, Cli!ServerWrites, Cli!UnzipFile,
         Cli!CmdRestore, Cli!StopUnit, Cli!StopInstance, Cli!UnitRestarts, Cli!RenameAway,
         Cli!MakeDir, Cli!Restored, Cli!Interrupted, Cli!CliTypeOK
<1>3. \/ dataDir' = dataDir \/ dataDir' = Cli!Empty
      \/ \E f \in Files : dataDir' = [dataDir EXCEPT ![f] = 1]
      \/ \E f \in Files : dataDir[f] \in 2..MaxVersion - 1 /\ dataDir' = [dataDir EXCEPT ![f] = @ + 1]
  BY DEF Cli!CliNext, Cli!cliVars, Cli!Ok, Cli!Fails, Cli!ServerWrites, Cli!UnzipFile,
         Cli!CmdRestore, Cli!StopUnit, Cli!StopInstance, Cli!UnitRestarts, Cli!RenameAway,
         Cli!MakeDir, Cli!Restored, Cli!Interrupted
<1>4. dataDir' \in Cli!Dir
  BY <1>3, ServicesAssumption DEF Cli!CliTypeOK, Cli!Dir, Cli!Empty
<1>5. newest' \in {newest, dataDir'} /\ (aside' = aside \/ aside' = aside \cup {dataDir})
  BY DEF Cli!CliNext, Cli!cliVars, Cli!Ok, Cli!Fails, Cli!ServerWrites, Cli!UnzipFile,
         Cli!CmdRestore, Cli!StopUnit, Cli!StopInstance, Cli!UnitRestarts, Cli!RenameAway,
         Cli!MakeDir, Cli!Restored, Cli!Interrupted
<1>6. newest' \in Cli!Dir /\ aside' \subseteq Cli!Dir
  BY <1>4, <1>5 DEF Cli!CliTypeOK
<1>7. QED
  BY <1>1, <1>2, <1>4, <1>6 DEF Cli!CliTypeOK

----------------------------------------------------------------------------
\* Settings: at first ...
LEMMA SettingsTypeInit == Config!SettingsInit => Config!SettingsTypeOK
<1>. SUFFICES ASSUME Config!SettingsInit PROVE Config!SettingsTypeOK
  OBVIOUS
<1>1. Config!NoReq \in [at : Config!ReqAt, group : Groups \cup {""}, wants : BOOLEAN, config : 0..MaxConfigs]
  BY ServicesAssumption DEF Config!NoReq, Config!ReqAt
<1>2. overlapped \in BOOLEAN /\ several \in BOOLEAN
  BY DEF Config!SettingsInit
<1>3. groups \subseteq Groups /\ isDefault \subseteq groups /\ req = [s \in Savers |-> Config!NoReq]
  BY DEF Config!SettingsInit
<1>4. /\ stored \in 0..MaxConfigs /\ effective \in 0..MaxConfigs /\ configs \in 0..MaxConfigs
      /\ setFaults \in Nat /\ setStarts \in Nat
  BY ServicesAssumption DEF Config!SettingsInit
<1>5. QED
  BY <1>1, <1>2, <1>3, <1>4 DEF Config!SettingsTypeOK

\* ... and in every step.  A default group is one that is there, since a group loses
\* the flag with its row and an update gives it to a row.
LEMMA SettingsTypeStep ==
  Config!SettingsTypeOK /\ [Config!SettingsNext]_(Config!setVars) => Config!SettingsTypeOK'
<1>. SUFFICES ASSUME Config!SettingsTypeOK, [Config!SettingsNext]_(Config!setVars)
              PROVE  Config!SettingsTypeOK'
  OBVIOUS
<1>. DEFINE Req == [at : Config!ReqAt, group : Groups \cup {""}, wants : BOOLEAN, config : 0..MaxConfigs]
<1>1. overlapped' \in BOOLEAN
  BY DEF Config!SettingsNext, Config!setVars, Config!table, Config!Ok, Config!Fails, Config!Begin,
         Config!Goto, Config!End, Config!CreateGroup, Config!UpdateGroup, Config!CancelDefault,
         Config!WriteGroup, Config!DeleteGroup, Config!RemoveGroup, Config!SaveConfig,
         Config!SetStored, Config!SetConfig, Config!RestoreSettings, Config!InitNotify,
         Config!LoadConfig, Config!RestartProcess, Config!SeedGroups, Config!SettingsTypeOK
<1>2. isDefault' \subseteq groups'
  <2>1. isDefault \subseteq groups
    BY DEF Config!SettingsTypeOK
  <2>2. ASSUME NEW s \in Savers, Config!CancelDefault(s) \/ Config!WriteGroup(s) \/ Config!RemoveGroup(s)
        PROVE  isDefault' \subseteq groups'
    BY <2>1, <2>2 DEF Config!CancelDefault, Config!WriteGroup, Config!RemoveGroup
  <2>3. ASSUME NEW s \in Savers, NEW old \in 0..MaxConfigs, Config!RestoreSettings(s, old)
        PROVE  isDefault' \subseteq groups'
    BY <2>3 DEF Config!RestoreSettings
  <2>4. ASSUME Config!RestartProcess PROVE isDefault' \subseteq groups'
    BY <2>1, <2>4 DEF Config!RestartProcess, Config!SeedGroups, Config!table
  <2>5. QED
    BY <2>1, <2>2, <2>3, <2>4
       DEF Config!SettingsNext, Config!setVars, Config!table, Config!CreateGroup,
           Config!UpdateGroup, Config!DeleteGroup, Config!SaveConfig, Config!SetStored,
           Config!SetConfig, Config!InitNotify, Config!LoadConfig
<1>2a. several' \in BOOLEAN
  <2>1. several \in BOOLEAN
    BY DEF Config!SettingsTypeOK
  <2>2. ASSUME NEW s \in Savers, Config!CancelDefault(s) PROVE several' \in BOOLEAN
    <3>1. several' = Config!Rival(s) \/ several' = several
      BY <2>2 DEF Config!CancelDefault
    <3>2. QED
      BY <2>1, <3>1 DEF Config!Rival
  <2>3. ASSUME NEW s \in Savers, NEW old \in 0..MaxConfigs, Config!RestoreSettings(s, old)
        PROVE  several' \in BOOLEAN
    BY <2>3 DEF Config!RestoreSettings, Config!Rival
  <2>4. ASSUME Config!RestartProcess PROVE several' \in BOOLEAN
    <3>1. several' = (several \/ isDefault # {}) \/ several' = several
      BY <2>4 DEF Config!RestartProcess, Config!SeedGroups
    <3>2. QED
      BY <2>1, <3>1
  <2>5. ASSUME NEW s \in Savers, NEW g \in Groups, NEW w \in BOOLEAN, Config!UpdateGroup(s, g, w)
        PROVE  several' \in BOOLEAN
    BY <2>5 DEF Config!UpdateGroup, Config!Rival
  <2>6. QED
    BY <2>1, <2>2, <2>3, <2>4, <2>5
       DEF Config!SettingsNext, Config!setVars, Config!CreateGroup, Config!WriteGroup,
           Config!RemoveGroup, Config!DeleteGroup, Config!SaveConfig, Config!SetStored,
           Config!SetConfig, Config!InitNotify, Config!LoadConfig
<1>3. groups' = groups \/ (\E g \in Groups : groups' = groups \cup {g}) \/ groups' \subseteq groups
      \/ groups' \subseteq Groups
  BY DEF Config!SettingsNext, Config!setVars, Config!table, Config!Ok, Config!Fails, Config!Begin,
         Config!Goto, Config!End, Config!CreateGroup, Config!UpdateGroup, Config!CancelDefault,
         Config!WriteGroup, Config!DeleteGroup, Config!RemoveGroup, Config!SaveConfig,
         Config!SetStored, Config!SetConfig, Config!RestoreSettings, Config!InitNotify,
         Config!LoadConfig, Config!RestartProcess, Config!SeedGroups
<1>4. /\ Config!RestartProcess \/ setFaults' \in {setFaults, setFaults + 1}
      /\ setStarts' \in {setStarts, setStarts + 1}
      /\ configs' = configs \/ (configs < MaxConfigs /\ configs' = configs + 1)
  BY DEF Config!SettingsNext, Config!setVars, Config!table, Config!Ok, Config!Fails, Config!Begin,
         Config!Goto, Config!End, Config!CreateGroup, Config!UpdateGroup, Config!CancelDefault,
         Config!WriteGroup, Config!DeleteGroup, Config!RemoveGroup, Config!SaveConfig,
         Config!SetStored, Config!SetConfig, Config!RestoreSettings, Config!InitNotify,
         Config!LoadConfig, Config!RestartProcess, Config!SeedGroups
<1>5. stored' = stored \/ stored' \in 0..MaxConfigs \/ \E s \in Savers : stored' = req[s].config
  BY DEF Config!SettingsNext, Config!setVars, Config!table, Config!Ok, Config!Fails, Config!Begin,
         Config!Goto, Config!End, Config!CreateGroup, Config!UpdateGroup, Config!CancelDefault,
         Config!WriteGroup, Config!DeleteGroup, Config!RemoveGroup, Config!SaveConfig,
         Config!SetStored, Config!SetConfig, Config!RestoreSettings, Config!InitNotify,
         Config!LoadConfig, Config!RestartProcess, Config!SeedGroups
<1>6. effective' \in {0, effective, stored} \/ \E s \in Savers : effective' = req[s].config
  BY DEF Config!SettingsNext, Config!setVars, Config!table, Config!Ok, Config!Fails, Config!Begin,
         Config!Goto, Config!End, Config!CreateGroup, Config!UpdateGroup, Config!CancelDefault,
         Config!WriteGroup, Config!DeleteGroup, Config!RemoveGroup, Config!SaveConfig,
         Config!SetStored, Config!SetConfig, Config!RestoreSettings, Config!InitNotify,
         Config!LoadConfig, Config!RestartProcess, Config!SeedGroups
<1>7. req' \in [Savers -> Req]
  <2>1. req \in [Savers -> Req] /\ Config!NoReq \in Req /\ stored \in 0..MaxConfigs /\ 0 \in 0..MaxConfigs
    <3>1. Config!NoReq \in Req
      BY ServicesAssumption DEF Config!NoReq, Config!ReqAt
    <3>2. req \in [Savers -> Req] /\ stored \in 0..MaxConfigs
      BY DEF Config!SettingsTypeOK
    <3>3. 0 \in 0..MaxConfigs
      BY ServicesAssumption
    <3>4. QED
      BY <3>1, <3>2, <3>3
  <2>2. ASSUME NEW s \in Savers, NEW r \in Req, req' = [req EXCEPT ![s] = r] PROVE req' \in [Savers -> Req]
    BY <2>1, <2>2
  <2>3. ASSUME NEW s \in Savers, NEW l \in Config!ReqAt, req' = [req EXCEPT ![s].at = l]
        PROVE  req' \in [Savers -> Req]
    BY <2>1, <2>3
  <2>4. ASSUME NEW s \in Savers, NEW l \in Config!ReqAt, NEW c \in 0..MaxConfigs,
               req' = [req EXCEPT ![s].at = l, ![s].config = c]
        PROVE  req' \in [Savers -> Req]
    BY <2>1, <2>4
  <2>5. ASSUME NEW l \in Config!ReqAt
        PROVE  /\ \A g \in Groups : [Config!NoReq EXCEPT !.at = l, !.group = g] \in Req
               /\ \A g \in Groups, w \in BOOLEAN :
                    [Config!NoReq EXCEPT !.at = l, !.group = g, !.wants = w] \in Req
               /\ \A c \in 0..MaxConfigs : [Config!NoReq EXCEPT !.at = l, !.config = c] \in Req
    BY <2>1, <2>5 DEF Config!NoReq
  <2>6. {"cancelDefault", "update", "delete", "set", "apply", "read", "load"} \subseteq Config!ReqAt
    BY DEF Config!ReqAt
  <2>. HIDE DEF Req
  <2>7. ASSUME NEW s \in Savers, NEW g \in Groups, NEW w \in BOOLEAN, Config!UpdateGroup(s, g, w)
        PROVE  req' \in [Savers -> Req]
    <3>. DEFINE l == IF w THEN "cancelDefault" ELSE "update"
                r == [Config!NoReq EXCEPT !.at = l, !.group = g, !.wants = w]
    <3>1. req' = [req EXCEPT ![s] = r]
      BY <2>7 DEF Config!UpdateGroup, Config!Begin
    <3>2. l \in Config!ReqAt
      BY <2>6
    <3>3. r \in Req
      <4>. HIDE DEF l
      <4>. QED
        BY <2>5, <3>2
    <3>. HIDE DEF r
    <3>4. QED
      BY <2>2, <3>1, <3>3
  <2>8. ASSUME NEW s \in Savers, NEW g \in Groups, Config!DeleteGroup(s, g) PROVE req' \in [Savers -> Req]
    BY <2>1, <2>2, <2>5, <2>6, <2>8 DEF Config!DeleteGroup, Config!Begin
  <2>9. ASSUME NEW s \in Savers, Config!CancelDefault(s) \/ Config!WriteGroup(s) \/ Config!RemoveGroup(s)
        PROVE  req' \in [Savers -> Req]
    BY <2>1, <2>2, <2>3, <2>6, <2>9
       DEF Config!CancelDefault, Config!WriteGroup, Config!RemoveGroup, Config!Goto, Config!End
  <2>10. ASSUME NEW s \in Savers, Config!SaveConfig(s) PROVE req' \in [Savers -> Req]
    <3>. DEFINE r == [Config!NoReq EXCEPT !.at = "set", !.config = configs + 1]
    <3>1. req' = [req EXCEPT ![s] = r] /\ configs < MaxConfigs
      BY <2>10 DEF Config!SaveConfig, Config!Begin
    <3>2. configs \in 0..MaxConfigs
      BY DEF Config!SettingsTypeOK
    <3>3. configs + 1 \in 0..MaxConfigs
      BY <3>1, <3>2, ServicesAssumption
    <3>4. r \in Req
      BY <2>5, <2>6, <3>3
    <3>. HIDE DEF r
    <3>5. QED
      BY <2>2, <3>1, <3>4
  <2>11. ASSUME NEW s \in Savers, Config!SetStored(s) \/ Config!SetConfig(s) \/ Config!LoadConfig(s)
         PROVE  req' \in [Savers -> Req]
    BY <2>1, <2>2, <2>3, <2>6, <2>11
       DEF Config!SetStored, Config!SetConfig, Config!LoadConfig, Config!Goto, Config!End
  <2>12. ASSUME NEW s \in Savers, NEW old \in 0..MaxConfigs, Config!RestoreSettings(s, old)
         PROVE  req' \in [Savers -> Req]
    <3>. DEFINE r == [Config!NoReq EXCEPT !.at = "read", !.config = old]
    <3>1. req' = [req EXCEPT ![s] = r]
      BY <2>12 DEF Config!RestoreSettings, Config!Begin
    <3>2. r \in Req
      BY <2>5, <2>6
    <3>. HIDE DEF r
    <3>3. QED
      BY <2>2, <3>1, <3>2
  <2>13. ASSUME NEW s \in Savers, Config!InitNotify(s) PROVE req' \in [Savers -> Req]
    BY <2>1, <2>4, <2>6, <2>13 DEF Config!InitNotify
  <2>14. CASE Config!RestartProcess
    BY <2>1, <2>14 DEF Config!RestartProcess
  <2>15. CASE (\E g \in Groups : Config!CreateGroup(g)) \/ UNCHANGED Config!setVars
    BY <2>1, <2>15 DEF Config!CreateGroup, Config!setVars
  <2>16. QED
    BY <2>7, <2>8, <2>9, <2>10, <2>11, <2>12, <2>13, <2>14, <2>15 DEF Config!SettingsNext
<1>8. groups' \subseteq Groups
  BY <1>3 DEF Config!SettingsTypeOK
<1>9. /\ stored' \in 0..MaxConfigs /\ effective' \in 0..MaxConfigs /\ configs' \in 0..MaxConfigs
      /\ setFaults' \in Nat /\ setStarts' \in Nat
  <2>1. /\ stored \in 0..MaxConfigs /\ effective \in 0..MaxConfigs /\ configs \in 0..MaxConfigs
        /\ \A s \in Savers : req[s].config \in 0..MaxConfigs
        /\ setFaults \in Nat /\ setStarts \in Nat
    BY DEF Config!SettingsTypeOK
  <2>2. Config!RestartProcess => setFaults' \in Nat
    BY FailingStatements DEF Config!RestartProcess
  <2>3. QED
    BY <1>4, <1>5, <1>6, <2>1, <2>2, ServicesAssumption
<1>10. QED
  BY <1>1, <1>2, <1>2a, <1>7, <1>8, <1>9 DEF Config!SettingsTypeOK

----------------------------------------------------------------------------
\* Seeds: at first ...
LEMMA SeedTypeInit == Seeding!SeedInit => Seeding!SeedTypeOK
<1>. SUFFICES ASSUME Seeding!SeedInit PROVE Seeding!SeedTypeOK
  OBVIOUS
<1>1. script \in [Names -> Seeding!Content] /\ marked \subseteq Names /\ discarded \subseteq Names
  BY DEF Seeding!SeedInit, Seeding!Content, Seeding!Builtin
<1>2. changed \in BOOLEAN
  BY DEF Seeding!SeedInit
<1>3. QED
  BY <1>1, <1>2, ServicesAssumption DEF Seeding!SeedInit, Seeding!SeedTypeOK

\* ... and in every step.
LEMMA SeedTypeStep == Seeding!SeedTypeOK /\ [Seeding!SeedNext]_(Seeding!seedVars) => Seeding!SeedTypeOK'
<1>. SUFFICES ASSUME Seeding!SeedTypeOK, [Seeding!SeedNext]_(Seeding!seedVars) PROVE Seeding!SeedTypeOK'
  OBVIOUS
<1>1. changed' \in BOOLEAN
  BY DEF Seeding!SeedNext, Seeding!seedVars, Seeding!seedLocals, Seeding!Ok, Seeding!Fails,
         Seeding!ReadMarks, Seeding!SeedOne, Seeding!RefreshOne, Seeding!WriteMarks,
         Seeding!DeleteScript, Seeding!WriteScript, Seeding!RestartAs, Seeding!SeedTypeOK
<1>2. /\ release' \in 1..MaxSeedRelease /\ seedPc' \in {"start", "seeding", "serving"}
      /\ seedFaults' \in Nat /\ seedCrashes' \in Nat
  BY ServicesAssumption
     DEF Seeding!SeedNext, Seeding!seedVars, Seeding!seedLocals, Seeding!Ok, Seeding!Fails,
         Seeding!ReadMarks, Seeding!SeedOne, Seeding!RefreshOne, Seeding!WriteMarks,
         Seeding!DeleteScript, Seeding!WriteScript, Seeding!RestartAs, Seeding!SeedTypeOK
<1>3. /\ seeded' \subseteq Names /\ toSeed' \subseteq Names /\ toRefresh' \subseteq Names
      /\ marked' \subseteq Names /\ discarded' \subseteq Names
  BY DEF Seeding!SeedNext, Seeding!seedVars, Seeding!seedLocals, Seeding!Ok, Seeding!Fails,
         Seeding!ReadMarks, Seeding!SeedOne, Seeding!RefreshOne, Seeding!WriteMarks,
         Seeding!DeleteScript, Seeding!WriteScript, Seeding!RestartAs, Seeding!SeedTypeOK,
         Seeding!Builtin
<1>4. script' = script \/ \E b \in Names : \E c \in {"none", "new", "users", Seeding!Shipped(b)} :
                            script' = [script EXCEPT ![b] = c]
  BY DEF Seeding!SeedNext, Seeding!seedVars, Seeding!seedLocals, Seeding!Ok, Seeding!Fails,
         Seeding!ReadMarks, Seeding!SeedOne, Seeding!RefreshOne, Seeding!WriteMarks,
         Seeding!DeleteScript, Seeding!WriteScript, Seeding!RestartAs
<1>5. script' \in [Names -> Seeding!Content]
  BY <1>4 DEF Seeding!SeedTypeOK, Seeding!Content, Seeding!Shipped
<1>6. QED
  BY <1>1, <1>2, <1>3, <1>5 DEF Seeding!SeedTypeOK

----------------------------------------------------------------------------
\* Auth: at first ...
LEMMA AuthTypeInit == Account!AuthInit => Account!AuthTypeOK
<1>. SUFFICES ASSUME Account!AuthInit PROVE Account!AuthTypeOK
  OBVIOUS
<1>1. user \in BOOLEAN /\ initialized \in BOOLEAN /\ lockedAt \in BOOLEAN /\ window \in BOOLEAN
  BY DEF Account!AuthInit
<1>2. Account!Idle \in [at : Account!TaskAt, pwd : 0..MaxPasswords]
  BY ServicesAssumption DEF Account!Idle, Account!TaskAt
<1>3. initPc \in Account!InitStage
  BY DEF Account!AuthInit, Account!InitStage
<1>4. QED
  BY <1>1, <1>2, <1>3, ServicesAssumption DEF Account!AuthInit, Account!AuthTypeOK

\* ... and in every step.
LEMMA AuthTypeStep == Account!AuthTypeOK /\ [Account!AuthNext]_(Account!authVars) => Account!AuthTypeOK'
<1>. SUFFICES ASSUME Account!AuthTypeOK, [Account!AuthNext]_(Account!authVars) PROVE Account!AuthTypeOK'
  OBVIOUS
<1>. DEFINE Task == [at : Account!TaskAt, pwd : 0..MaxPasswords]
<1>1. user' \in BOOLEAN /\ initialized' \in BOOLEAN /\ lockedAt' \in BOOLEAN /\ window' \in BOOLEAN
  BY DEF Account!AuthNext, Account!authVars, Account!account, Account!attempts, Account!Ok,
         Account!Fails, Account!ReadInitialized, Account!SetAccount, Account!LoginLocked,
         Account!Goto, Account!CheckPassword, Account!RegisterFailure, Account!ClearFailures,
         Account!WindowEnds, Account!CompareOld, Account!StoreNew, Account!ForgetDefault,
         Account!AuthCrash, Account!AuthTypeOK
<1>2. initPc' \in Account!InitStage
  BY DEF Account!AuthNext, Account!authVars, Account!account, Account!attempts, Account!Ok,
         Account!Fails, Account!ReadInitialized, Account!SetAccount, Account!LoginLocked,
         Account!Goto, Account!CheckPassword, Account!RegisterFailure, Account!ClearFailures,
         Account!WindowEnds, Account!CompareOld, Account!StoreNew, Account!ForgetDefault,
         Account!AuthCrash, Account!AuthTypeOK, Account!InitStage
<1>3. passwords' = passwords \/ (passwords < MaxPasswords /\ passwords' = passwords + 1)
  BY DEF Account!AuthNext, Account!authVars, Account!account, Account!attempts, Account!Ok,
         Account!Fails, Account!ReadInitialized, Account!SetAccount, Account!LoginLocked,
         Account!Goto, Account!CheckPassword, Account!RegisterFailure, Account!ClearFailures,
         Account!WindowEnds, Account!CompareOld, Account!StoreNew, Account!ForgetDefault,
         Account!AuthCrash
<1>4. /\ password' \in {password, passwords} \/ \E s \in Sessions : password' = request[s].pwd
      /\ default' \in {0, default, passwords}
  BY DEF Account!AuthNext, Account!authVars, Account!account, Account!attempts, Account!Ok,
         Account!Fails, Account!ReadInitialized, Account!SetAccount, Account!LoginLocked,
         Account!Goto, Account!CheckPassword, Account!RegisterFailure, Account!ClearFailures,
         Account!WindowEnds, Account!CompareOld, Account!StoreNew, Account!ForgetDefault,
         Account!AuthCrash
<1>5. /\ failures' \in {0, failures, failures + 1} /\ authFaults' \in {authFaults, authFaults + 1}
      /\ authCrashes' \in {authCrashes, authCrashes + 1}
  BY DEF Account!AuthNext, Account!authVars, Account!account, Account!attempts, Account!Ok,
         Account!Fails, Account!ReadInitialized, Account!SetAccount, Account!LoginLocked,
         Account!Goto, Account!CheckPassword, Account!RegisterFailure, Account!ClearFailures,
         Account!WindowEnds, Account!CompareOld, Account!StoreNew, Account!ForgetDefault,
         Account!AuthCrash
<1>6. request' \in [Sessions -> Task]
  <2>1. request \in [Sessions -> Task] /\ Account!Idle \in Task
    BY ServicesAssumption DEF Account!AuthTypeOK, Account!Idle, Account!TaskAt
  <2>2. Account!TaskAt = {"none", "checking", "wrong", "right", "store", "forget"}
    BY DEF Account!TaskAt
  <2>3. ASSUME NEW s \in Sessions, NEW t \in Task, request' = [request EXCEPT ![s] = t]
        PROVE  request' \in [Sessions -> Task]
    BY <2>1, <2>3
  <2>4. ASSUME NEW s \in Sessions, NEW l \in Account!TaskAt, Account!Goto(s, l)
        PROVE  request' \in [Sessions -> Task]
    BY <2>1, <2>4 DEF Account!Goto
  <2>5. ASSUME NEW s \in Sessions, Account!CompareOld(s) PROVE request' \in [Sessions -> Task]
    <3>1. [at |-> "store", pwd |-> passwords + 1] \in Task
      BY <2>2, <2>5, ServicesAssumption DEF Account!CompareOld, Account!AuthTypeOK
    <3>. HIDE DEF Task
    <3>2. QED
      BY <2>3, <2>5, <3>1 DEF Account!CompareOld
  <2>. HIDE DEF Task
  <2>6. ASSUME NEW s \in Sessions,
               \/ Account!LoginLocked(s) \/ Account!CheckPassword(s)
               \/ Account!RegisterFailure(s) \/ Account!ClearFailures(s)
        PROVE  request' \in [Sessions -> Task]
    BY <2>2, <2>4, <2>6
       DEF Account!LoginLocked, Account!CheckPassword, Account!RegisterFailure, Account!ClearFailures
  <2>7. ASSUME NEW s \in Sessions, Account!StoreNew(s) \/ Account!ForgetDefault(s)
        PROVE  request' \in [Sessions -> Task]
    BY <2>1, <2>2, <2>3, <2>4, <2>7 DEF Account!StoreNew, Account!ForgetDefault
  <2>8. CASE Account!AuthCrash
    BY <2>1, <2>8 DEF Account!AuthCrash
  <2>9. CASE \/ Account!ReadInitialized \/ Account!SetAccount \/ Account!WindowEnds
             \/ UNCHANGED Account!authVars
    <3>1. request' = request
      BY <2>9 DEF Account!ReadInitialized, Account!SetAccount, Account!WindowEnds, Account!authVars
    <3>2. QED
      BY <2>1, <3>1
  <2>10. QED
    BY <2>5, <2>6, <2>7, <2>8, <2>9 DEF Account!AuthNext
<1>7. /\ passwords' \in 0..MaxPasswords /\ password' \in 0..MaxPasswords /\ default' \in 0..MaxPasswords
      /\ failures' \in Nat /\ authFaults' \in Nat /\ authCrashes' \in Nat
  <2>1. /\ passwords \in 0..MaxPasswords /\ password \in 0..MaxPasswords /\ default \in 0..MaxPasswords
        /\ \A s \in Sessions : request[s].pwd \in 0..MaxPasswords
        /\ failures \in Nat /\ authFaults \in Nat /\ authCrashes \in Nat
    BY DEF Account!AuthTypeOK
  <2>2. QED
    BY <1>3, <1>4, <1>5, <2>1, ServicesAssumption
<1>8. QED
  BY <1>1, <1>2, <1>6, <1>7 DEF Account!AuthTypeOK

----------------------------------------------------------------------------
\* Upgrade: at first ...
LEMMA UpTypeInit == Up!UpInit => Up!UpTypeOK
<1>. SUFFICES ASSUME Up!UpInit PROVE Up!UpTypeOK
  OBVIOUS
<1>1. upgrading \in BOOLEAN /\ kill \in BOOLEAN /\ serving \in BOOLEAN
  BY DEF Up!UpInit
<1>2. upc \in [Upgraders -> Up!Stage] /\ status = ""
  BY DEF Up!UpInit, Up!Stage
<1>3. /\ latest = 1 /\ binary = 1 /\ bak = 0 /\ current = 1 /\ checkCache = 0
      /\ file = [u \in Upgraders |-> 0] /\ restarts = 0 /\ upFaults = 0 /\ upCrashes = 0
  BY DEF Up!UpInit
<1>4. /\ latest \in 1..MaxRelease /\ binary \in 0..MaxRelease /\ bak \in 0..MaxRelease
      /\ current \in 0..MaxRelease /\ checkCache \in 0..MaxRelease
      /\ file \in [Upgraders -> 0..MaxRelease]
      /\ restarts \in Nat /\ upFaults \in Nat /\ upCrashes \in Nat
  BY <1>3, ServicesAssumption
<1>5. QED
  BY <1>1, <1>2, <1>4 DEF Up!UpTypeOK

\* ... and in every step.
LEMMA UpTypeStep == Up!UpTypeOK /\ [Up!UpNext]_(Up!upVars) => Up!UpTypeOK'
<1>. SUFFICES ASSUME Up!UpTypeOK, [Up!UpNext]_(Up!upVars) PROVE Up!UpTypeOK'
  OBVIOUS
<1>1. upgrading' \in BOOLEAN /\ kill' \in BOOLEAN /\ serving' \in BOOLEAN
  BY DEF Up!UpNext, Up!upVars, Up!disk, Up!shared, Up!life, Up!Ok, Up!Fails, Up!Publish, Up!Goto,
         Up!GiveUp, Up!Check, Up!CacheExpires, Up!Perform, Up!CheckUpdate, Up!Download, Up!Verify,
         Up!OpenBak, Up!CopyBak, Up!Rename, Up!RestartUpgraded, Up!Restart, Up!RestartService,
         Up!Gone, Up!Killed, Up!RestartFails, Up!Crash, Up!Boot, Up!Upgrading, Up!UpTypeOK
<1>2. status' \in {"", "downloading", "verifying", "swapping", "restarting", "error"}
  BY DEF Up!UpNext, Up!upVars, Up!disk, Up!shared, Up!life, Up!Ok, Up!Fails, Up!Publish, Up!Goto,
         Up!GiveUp, Up!Check, Up!CacheExpires, Up!Perform, Up!CheckUpdate, Up!Download, Up!Verify,
         Up!OpenBak, Up!CopyBak, Up!Rename, Up!RestartUpgraded, Up!Restart, Up!RestartService,
         Up!Gone, Up!Killed, Up!RestartFails, Up!Crash, Up!Boot, Up!Upgrading, Up!UpTypeOK
<1>3. upc' \in [Upgraders -> Up!Stage]
  BY DEF Up!UpNext, Up!upVars, Up!disk, Up!shared, Up!life, Up!Ok, Up!Fails, Up!Publish, Up!Goto,
         Up!GiveUp, Up!Check, Up!CacheExpires, Up!Perform, Up!CheckUpdate, Up!Download, Up!Verify,
         Up!OpenBak, Up!CopyBak, Up!Rename, Up!RestartUpgraded, Up!Restart, Up!RestartService,
         Up!Gone, Up!Killed, Up!RestartFails, Up!Crash, Up!Boot, Up!Upgrading, Up!UpTypeOK,
         Up!Stage
<1>4. latest' = latest \/ (latest < MaxRelease /\ latest' = latest + 1)
  BY DEF Up!UpNext, Up!upVars, Up!disk, Up!shared, Up!life, Up!Ok, Up!Fails, Up!Publish, Up!Goto,
         Up!GiveUp, Up!Check, Up!CacheExpires, Up!Perform, Up!CheckUpdate, Up!Download, Up!Verify,
         Up!OpenBak, Up!CopyBak, Up!Rename, Up!RestartUpgraded, Up!Restart, Up!RestartService,
         Up!Gone, Up!Killed, Up!RestartFails, Up!Crash, Up!Boot, Up!Upgrading
<1>5. binary' = binary \/ \E u \in Upgraders : binary' = file[u]
  BY DEF Up!UpNext, Up!upVars, Up!disk, Up!shared, Up!life, Up!Ok, Up!Fails, Up!Publish, Up!Goto,
         Up!GiveUp, Up!Check, Up!CacheExpires, Up!Perform, Up!CheckUpdate, Up!Download, Up!Verify,
         Up!OpenBak, Up!CopyBak, Up!Rename, Up!RestartUpgraded, Up!Restart, Up!RestartService,
         Up!Gone, Up!Killed, Up!RestartFails, Up!Crash, Up!Boot, Up!Upgrading
<1>6. /\ bak' \in {0, bak, binary} /\ current' \in {current, binary}
      /\ checkCache' \in {0, checkCache, Up!Found}
  BY DEF Up!UpNext, Up!upVars, Up!disk, Up!shared, Up!life, Up!Ok, Up!Fails, Up!Publish, Up!Goto,
         Up!GiveUp, Up!Check, Up!CacheExpires, Up!Perform, Up!CheckUpdate, Up!Download, Up!Verify,
         Up!OpenBak, Up!CopyBak, Up!Rename, Up!RestartUpgraded, Up!Restart, Up!RestartService,
         Up!Gone, Up!Killed, Up!RestartFails, Up!Crash, Up!Boot, Up!Upgrading
<1>7. \/ file' = file \/ file' = [u \in Upgraders |-> 0]
      \/ \E u \in Upgraders : \E n \in {0, latest} : file' = [file EXCEPT ![u] = n]
  BY DEF Up!UpNext, Up!upVars, Up!disk, Up!shared, Up!life, Up!Ok, Up!Fails, Up!Publish, Up!Goto,
         Up!GiveUp, Up!Check, Up!CacheExpires, Up!Perform, Up!CheckUpdate, Up!Download, Up!Verify,
         Up!OpenBak, Up!CopyBak, Up!Rename, Up!RestartUpgraded, Up!Restart, Up!RestartService,
         Up!Gone, Up!Killed, Up!RestartFails, Up!Crash, Up!Boot, Up!Upgrading
<1>8. \/ restarts' \in {0, restarts, restarts + 1}
      \/ restarts > 0 /\ restarts' = restarts - 1
  BY DEF Up!UpNext, Up!upVars, Up!disk, Up!shared, Up!life, Up!Ok, Up!Fails, Up!Publish, Up!Goto,
         Up!GiveUp, Up!Check, Up!CacheExpires, Up!Perform, Up!CheckUpdate, Up!Download, Up!Verify,
         Up!OpenBak, Up!CopyBak, Up!Rename, Up!RestartUpgraded, Up!Restart, Up!RestartService,
         Up!Gone, Up!Killed, Up!RestartFails, Up!Crash, Up!Boot, Up!Upgrading
<1>9. upFaults' \in {0, upFaults, upFaults + 1} /\ upCrashes' \in {upCrashes, upCrashes + 1}
  BY DEF Up!UpNext, Up!upVars, Up!disk, Up!shared, Up!life, Up!Ok, Up!Fails, Up!Publish, Up!Goto,
         Up!GiveUp, Up!Check, Up!CacheExpires, Up!Perform, Up!CheckUpdate, Up!Download, Up!Verify,
         Up!OpenBak, Up!CopyBak, Up!Rename, Up!RestartUpgraded, Up!Restart, Up!RestartService,
         Up!Gone, Up!Killed, Up!RestartFails, Up!Crash, Up!Boot, Up!Upgrading
<1>10. /\ latest \in 1..MaxRelease /\ binary \in 0..MaxRelease /\ bak \in 0..MaxRelease
       /\ current \in 0..MaxRelease /\ checkCache \in 0..MaxRelease /\ Up!Found \in 0..MaxRelease
       /\ file \in [Upgraders -> 0..MaxRelease]
       /\ restarts \in Nat /\ upFaults \in Nat /\ upCrashes \in Nat
  <2>1. /\ latest \in 1..MaxRelease /\ binary \in 0..MaxRelease /\ bak \in 0..MaxRelease
        /\ current \in 0..MaxRelease /\ checkCache \in 0..MaxRelease
        /\ file \in [Upgraders -> 0..MaxRelease]
        /\ restarts \in Nat /\ upFaults \in Nat /\ upCrashes \in Nat
    BY DEF Up!UpTypeOK
  <2>2. Up!Found \in 0..MaxRelease
    BY <2>1, ServicesAssumption DEF Up!Found
  <2>3. QED
    BY <2>1, <2>2
<1>11. file' \in [Upgraders -> 0..MaxRelease]
  BY <1>7, <1>10, ServicesAssumption
<1>12. /\ latest' \in 1..MaxRelease /\ binary' \in 0..MaxRelease /\ bak' \in 0..MaxRelease
       /\ current' \in 0..MaxRelease /\ checkCache' \in 0..MaxRelease
       /\ restarts' \in Nat /\ upFaults' \in Nat /\ upCrashes' \in Nat
  BY <1>4, <1>5, <1>6, <1>8, <1>9, <1>10, ServicesAssumption
<1>13. QED
  BY <1>1, <1>2, <1>3, <1>11, <1>12 DEF Up!UpTypeOK

----------------------------------------------------------------------------
(* All components together, as MCServices runs them. *)

\* A step of the whole is one of a component, and leaves the others as they are.
LEMMA ServicesSteps ==
  ASSUME [ServicesNext]_serviceVars
  PROVE  /\ [Next]_vars /\ [RootsNext]_rootVars /\ [ScriptNext]_scriptVars /\ [TailNext]_tailVars
         /\ [Up!UpNext]_(Up!upVars) /\ [Account!AuthNext]_(Account!authVars)
         /\ [Seeding!SeedNext]_(Seeding!seedVars) /\ [Config!SettingsNext]_(Config!setVars)
         /\ [Cli!CliNext]_(Cli!cliVars) /\ [PreviewNext]_previewVars
<1>1. Next \/ UNCHANGED vars
  BY DEF ServicesNext, serviceVars, OnlyRestore
<1>2. RootsNext \/ UNCHANGED rootVars
  BY DEF ServicesNext, serviceVars, OnlyRoots
<1>3. ScriptNext \/ UNCHANGED scriptVars
  BY DEF ServicesNext, serviceVars, OnlyRuns
<1>4. TailNext \/ UNCHANGED tailVars
  BY DEF ServicesNext, serviceVars, OnlyView
<1>5. Up!UpNext \/ UNCHANGED Up!upVars
  <2>1. UNCHANGED upgradeVars => UNCHANGED Up!upVars
    BY DEF upgradeVars, Up!upVars, Up!disk, Up!shared, Up!life
  <2>2. QED
    BY <2>1 DEF ServicesNext, serviceVars, OnlyUpgrade
<1>6. Account!AuthNext \/ UNCHANGED Account!authVars
  <2>1. UNCHANGED accountVars => UNCHANGED Account!authVars
    BY DEF accountVars, Account!authVars, Account!account, Account!attempts
  <2>2. QED
    BY <2>1 DEF ServicesNext, serviceVars, OnlyAccount
<1>7. Seeding!SeedNext \/ UNCHANGED Seeding!seedVars
  <2>1. UNCHANGED seedingVars => UNCHANGED Seeding!seedVars
    BY DEF seedingVars, Seeding!seedVars, Seeding!seedLocals
  <2>2. QED
    BY <2>1 DEF ServicesNext, serviceVars, OnlySeeding
<1>8. Config!SettingsNext \/ UNCHANGED Config!setVars
  <2>1. UNCHANGED configVars => UNCHANGED Config!setVars
    BY DEF configVars, Config!setVars, Config!table
  <2>2. QED
    BY <2>1 DEF ServicesNext, serviceVars, OnlyConfig
<1>9. Cli!CliNext \/ UNCHANGED Cli!cliVars
  <2>1. UNCHANGED commandVars => UNCHANGED Cli!cliVars
    BY DEF commandVars, Cli!cliVars
  <2>2. QED
    BY <2>1 DEF ServicesNext, serviceVars, OnlyCli
<1>10. PreviewNext \/ UNCHANGED previewVars
  BY DEF ServicesNext, serviceVars, OnlyTimes
<1>11. QED
  BY <1>1, <1>2, <1>3, <1>4, <1>5, <1>6, <1>7, <1>8, <1>9, <1>10

\* At first, too, each component is where it begins.
LEMMA ServicesBegin ==
  ASSUME Bare # {}, ServicesInit
  PROVE  /\ Init /\ RootsInit /\ ScriptInit /\ TailInit /\ Up!UpInit /\ Account!AuthInit
         /\ Seeding!SeedInit /\ Config!SettingsInit /\ Cli!CliInit /\ PreviewInit
<1>1. PreviewInit
  <2>1. CASE focus # "times"
    <3>. DEFINE p == [kind |-> "bare", n |-> CHOOSE n \in Bare : TRUE]
    <3>1. moment = 0 /\ parts = {p}
      BY <2>1 DEF ServicesInit
    <3>2. (CHOOSE n \in Bare : TRUE) \in Bare
      OBVIOUS
    <3>3. p \in Part
      BY <3>2 DEF Part, Every
    <3>4. {p} = {p, p}
      OBVIOUS
    <3>. HIDE DEF p
    <3>5. QED
      BY <3>1, <3>3, <3>4 DEF PreviewInit
  <2>2. QED
    BY <2>1 DEF ServicesInit
<1>2. QED
  BY <1>1 DEF ServicesInit

\* A behaviour of the run is one of each component, so that what is proved of a
\* component holds of the run: scheduling, requests and crashes of one never reach
\* the state of another.
THEOREM ServicesAreComponents ==
  ASSUME Bare # {}
  PROVE  ServicesSpec =>
           /\ Spec /\ RootsSpec /\ ScriptSpec /\ TailSpec /\ PreviewSpec
           /\ Up!UpSpec /\ Account!AuthSpec /\ Seeding!SeedSpec /\ Config!SettingsSpec /\ Cli!CliSpec
BY ServicesBegin, ServicesSteps, PTL
   DEF ServicesSpec, Spec, RootsSpec, ScriptSpec, TailSpec, PreviewSpec,
       Up!UpSpec, Account!AuthSpec, Seeding!SeedSpec, Config!SettingsSpec, Cli!CliSpec

\* The types, with what those of script runs and of the live view rest on.
ServicesInv == ServicesTypeOK /\ ScriptInv /\ TailInv /\ TailBounds

\* They hold at first, in the focus and out of it.
LEMMA ServicesInvInit ==
  ASSUME Lines \in Nat, MaxKept \in Nat, Bare # {}, ServicesInit
  PROVE  ServicesInv
<1>1. /\ Init /\ RootsInit /\ ScriptInit /\ TailInit /\ Up!UpInit /\ Account!AuthInit
      /\ Seeding!SeedInit /\ Config!SettingsInit /\ Cli!CliInit
  BY ServicesBegin
<1>2. TypeOK /\ RootsTypeOK /\ ScriptInv /\ TailInv /\ TailBounds
  BY <1>1, TypeInit, RootsTypeInit, ScriptInvInit, TailInvInit, TailBoundsInit
<1>3. ScriptTypeOK /\ TailTypeOK
  BY <1>2, TailTypesAre DEF ScriptInv, TailInv
<1>4. /\ Up!UpTypeOK /\ Account!AuthTypeOK /\ Seeding!SeedTypeOK /\ Config!SettingsTypeOK /\ Cli!CliTypeOK
  BY <1>1, UpTypeInit, AuthTypeInit, SeedTypeInit, SettingsTypeInit, CliTypeInit
<1>5. PreviewTypeOK
  BY ServicesBegin, PreviewAssumption DEF PreviewInit, PreviewTypeOK
<1>6. QED
  BY <1>2, <1>3, <1>4, <1>5 DEF ServicesInv, ServicesTypeOK

\* Every step keeps them.
LEMMA ServicesInvStep ==
  ASSUME Lines \in Nat, MaxKept \in Nat, ServicesInv, [ServicesNext]_serviceVars
  PROVE  ServicesInv'
<1>1. TypeOK' /\ RootsTypeOK' /\ ScriptInv' /\ TailInv' /\ TailBounds'
  BY ServicesSteps, TypeStep, RootsTypeStep, ScriptInvStep, TailInvStep, TailBoundsStep
     DEF ServicesInv, ServicesTypeOK, TailInv
<1>2. ScriptTypeOK' /\ TailTypeOK'
  BY <1>1 DEF ScriptInv, TailInv, TailTypes, TailBounds, TailTypeOK
<1>3. /\ Up!UpTypeOK' /\ Account!AuthTypeOK' /\ Seeding!SeedTypeOK' /\ Config!SettingsTypeOK'
      /\ Cli!CliTypeOK'
  BY ServicesSteps, UpTypeStep, AuthTypeStep, SeedTypeStep, SettingsTypeStep, CliTypeStep
     DEF ServicesInv, ServicesTypeOK
<1>4. PreviewTypeOK'
  BY ServicesSteps, PreviewAssumption DEF ServicesInv, ServicesTypeOK, PreviewTypeOK, PreviewNext, previewVars
<1>5. QED
  BY <1>1, <1>2, <1>3, <1>4 DEF ServicesInv, ServicesTypeOK

\* Every variable of every smaller component has its type in every reachable state:
\* what is stored or remembered comes from where the code takes it, a default group is
\* one that is there, and the page of a live log is never ahead of its file.
THEOREM ServicesTypes ==
  ASSUME Lines \in Nat, MaxKept \in Nat, Bare # {}
  PROVE  ServicesSpec => []ServicesTypeOK
<1>1. ServicesInv => ServicesTypeOK
  BY DEF ServicesInv
<1>2. QED
  BY <1>1, ServicesInvInit, ServicesInvStep, PTL DEF ServicesSpec
=============================================================================
