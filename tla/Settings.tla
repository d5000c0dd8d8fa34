------------------------------ MODULE Settings ------------------------------
(***************************************************************************)
(* Two settings of the web page written in more than one step: the default *)
(* group of scripts (service/group.go) and the configuration of the        *)
(* notifications, in the database and in memory (service/notify.go,        *)
(* notify/bark.go).  No lock spans the steps of a request.                 *)
(***************************************************************************)
EXTENDS Naturals, FiniteSets

CONSTANTS
  Groups,      \* bound: the groups of scripts there may be
  Savers,      \* requests handled at a time
  MaxConfigs,  \* bound: configurations saved
  MaxSetFaults, MaxSetStarts \* bounds: failing statements, restarts

VARIABLES
  groups, isDefault, \* table groups: those there are, those with the default flag
  stored,      \* SettingBarkConfig, 0 for none
  effective,   \* notify.config, 0 for that of the environment
  configs,     \* configurations saved so far
  req,         \* what each request is doing
  overlapped,  \* history: two requests were under way together
  several,     \* history: since the default was last taken away, or the table restored,
               \* more than one came to give it
  setFaults, setStarts

table == <<groups, isDefault>>
setVars == <<table, stored, effective, configs, req, overlapped, several, setFaults, setStarts>>

NoReq == [at |-> "none", group |-> "", wants |-> FALSE, config |-> 0]
ReqAt == {"none", "cancelDefault", "update", "delete", "set", "apply", "read", "load"}

SettingsTypeOK ==
  /\ groups \subseteq Groups /\ isDefault \subseteq groups
  /\ stored \in 0..MaxConfigs /\ effective \in 0..MaxConfigs /\ configs \in 0..MaxConfigs
  /\ req \in [Savers -> [at : ReqAt, group : Groups \cup {""}, wants : BOOLEAN, config : 0..MaxConfigs]]
  /\ overlapped \in BOOLEAN /\ several \in BOOLEAN
  /\ setFaults \in Nat /\ setStarts \in Nat

----------------------------------------------------------------------------
Ok == UNCHANGED setFaults
Fails == setFaults < MaxSetFaults /\ setFaults' = setFaults + 1

\* SeedGroups has made the first group, the default one.
SettingsInit ==
  /\ \E g \in Groups : groups = {g} /\ isDefault = {g}
  /\ stored = 0 /\ effective = 0 /\ configs = 0
  /\ req = [s \in Savers |-> NoReq]
  /\ overlapped = FALSE /\ several = FALSE
  /\ setFaults = 0 /\ setStarts = 0

Begin(s, r) ==
  /\ req[s].at = "none" /\ req' = [req EXCEPT ![s] = r]
  /\ overlapped' = (overlapped \/ \E o \in Savers : req[o].at # "none")
Goto(s, l) == req' = [req EXCEPT ![s].at = l]
End(s) == req' = [req EXCEPT ![s] = NoReq]

\* Another request is going to make its group the default.
Rival(s) == \E o \in Savers \ {s} : req[o].wants

----------------------------------------------------------------------------
(* Groups. *)

CreateGroup(g) ==
  /\ g \notin groups /\ groups' = groups \cup {g}
  /\ UNCHANGED <<isDefault, stored, effective, configs, req, overlapped, several, setFaults, setStarts>>

\* Update reads the group; one that becomes the default takes it from the others first.
UpdateGroup(s, g, wants) ==
  /\ g \in groups
  /\ Begin(s, [NoReq EXCEPT !.at = IF wants THEN "cancelDefault" ELSE "update", !.group = g, !.wants = wants])
  /\ several' = (several \/ (wants /\ Rival(s)))
  /\ UNCHANGED <<table, stored, effective, configs, setFaults, setStarts>>

\* Mutant: the default is taken from this group only.
CancelDefault_Own(s) ==
  /\ req[s].at = "cancelDefault"
  /\ \/ Ok /\ isDefault' = isDefault \ {req[s].group} /\ several' = Rival(s) /\ Goto(s, "update")
     \/ Fails /\ UNCHANGED <<isDefault, several>> /\ End(s)
  /\ UNCHANGED <<groups, stored, effective, configs, overlapped, setStarts>>
CancelDefault(s) ==
  /\ req[s].at = "cancelDefault"
  /\ \/ Ok /\ isDefault' = {} /\ several' = Rival(s) /\ Goto(s, "update")
     \/ Fails /\ UNCHANGED <<isDefault, several>> /\ End(s)
  /\ UNCHANGED <<groups, stored, effective, configs, overlapped, setStarts>>

WriteGroup(s) ==
  /\ req[s].at = "update" /\ End(s)
  /\ \/ /\ Ok
        /\ isDefault' = IF req[s].wants THEN isDefault \cup ({req[s].group} \cap groups)
                        ELSE isDefault \ {req[s].group}
     \/ Fails /\ UNCHANGED isDefault
  /\ UNCHANGED <<groups, stored, effective, configs, overlapped, several, setStarts>>

\* Delete reads the group, refuses the default one (and one that scripts name) ...
DeleteGroup(s, g) ==
  /\ g \in groups /\ g \notin isDefault
  /\ Begin(s, [NoReq EXCEPT !.at = "delete", !.group = g])
  /\ UNCHANGED <<table, several, stored, effective, configs, setFaults, setStarts>>

\* ... and deletes it.
RemoveGroup(s) ==
  /\ req[s].at = "delete" /\ End(s)
  /\ \/ Ok /\ groups' = groups \ {req[s].group} /\ isDefault' = isDefault \ {req[s].group}
     \/ Fails /\ UNCHANGED <<groups, isDefault>>
  /\ UNCHANGED <<stored, effective, configs, overlapped, several, setStarts>>

----------------------------------------------------------------------------
(* Notifications. *)

SaveConfig(s) ==
  /\ configs < MaxConfigs /\ configs' = configs + 1
  /\ Begin(s, [NoReq EXCEPT !.at = "set", !.config = configs + 1])
  /\ UNCHANGED <<table, several, stored, effective, setFaults, setStarts>>

\* Mutant: an error of the database is passed over.
SetStored_Lenient(s) ==
  /\ req[s].at = "set"
  /\ \/ Ok /\ stored' = req[s].config
     \/ Fails /\ UNCHANGED stored
  /\ Goto(s, "apply")
  /\ UNCHANGED <<table, several, effective, configs, overlapped, setStarts>>
SetStored(s) ==
  /\ req[s].at = "set"
  /\ \/ Ok /\ stored' = req[s].config /\ Goto(s, "apply")
     \/ Fails /\ UNCHANGED stored /\ End(s)
  /\ UNCHANGED <<table, several, effective, configs, overlapped, setStarts>>

SetConfig(s) ==
  /\ req[s].at = "apply" /\ End(s)
  /\ effective' = req[s].config
  /\ UNCHANGED <<table, several, stored, configs, overlapped, setFaults, setStarts>>

\* RestoreZip: the groups (with one default at most) and the settings of the backup
\* replace these, then InitNotify reads the settings.
RestoreSettings(s, old) ==
  /\ old <= configs
  /\ Begin(s, [NoReq EXCEPT !.at = "read", !.config = old])
  /\ stored' = old
  /\ groups' \in SUBSET Groups /\ isDefault' \in {{}} \cup {{g} : g \in groups'}
  /\ several' = Rival(s)
  /\ UNCHANGED <<effective, configs, setFaults, setStarts>>

InitNotify(s) ==
  /\ req[s].at = "read"
  /\ \/ Ok /\ req' = [req EXCEPT ![s].at = "load", ![s].config = stored]
     \/ Fails /\ req' = [req EXCEPT ![s].at = "load", ![s].config = 0]
  /\ UNCHANGED <<table, several, stored, effective, configs, overlapped, setStarts>>

LoadConfig(s) ==
  /\ req[s].at = "load" /\ End(s)
  /\ effective' = req[s].config
  /\ UNCHANGED <<table, several, stored, configs, overlapped, setFaults, setStarts>>

----------------------------------------------------------------------------
(* Starts. *)

\* A default group is made when there is no group, or when reading them fails; making
\* it may fail, too.
SeedGroups(fails) ==
  \/ /\ groups = {} \/ fails
     /\ \E g \in Groups \ groups :
          groups' = groups \cup {g} /\ isDefault' = isDefault \cup {g}
     /\ several' = (several \/ isDefault # {})
  \/ (groups # {} \/ fails) /\ UNCHANGED <<table, several>>

\* The process ends, and starts again with InitNotify and SeedGroups.
RestartProcess ==
  /\ setStarts < MaxSetStarts /\ setStarts' = setStarts + 1
  /\ req' = [s \in Savers |-> NoReq]
  /\ \E failing \in SUBSET {"config", "groups"} :
       /\ setFaults' = Cardinality(failing) /\ setFaults' <= MaxSetFaults
       /\ effective' = IF "config" \in failing THEN 0 ELSE stored
       /\ SeedGroups("groups" \in failing)
  /\ UNCHANGED <<stored, configs, overlapped>>

----------------------------------------------------------------------------
SettingsNext ==
  \/ \E g \in Groups : CreateGroup(g)
  \/ \E s \in Savers :
       \/ \E g \in Groups : DeleteGroup(s, g) \/ \E w \in BOOLEAN : UpdateGroup(s, g, w)
       \/ CancelDefault(s) \/ WriteGroup(s) \/ RemoveGroup(s)
       \/ SaveConfig(s) \/ SetStored(s) \/ SetConfig(s)
       \/ \E old \in 0..MaxConfigs : RestoreSettings(s, old)
       \/ InitNotify(s) \/ LoadConfig(s)
  \/ RestartProcess

SettingsSpec == SettingsInit /\ [][SettingsNext]_setVars

----------------------------------------------------------------------------
(* Properties. *)

Quiet == \A s \in Savers : req[s].at = "none"

\* service/group.go:71: there is one default group for new scripts at most, whatever
\* failed or was cut short, unless a request that makes a group the default met
\* another one, or a restore, or a start added one; the next request that makes one
\* the default, alone, puts it right.
DefaultIsUnique == ~several => Cardinality(isDefault) <= 1

\* service/notify.go:20: notifications use the configuration that is stored, after
\* saving, restoring or starting, unless requests overlapped or the database failed
\* to be read.
StoredIsEffective ==
  Quiet /\ ~overlapped /\ effective # stored => setFaults > 0 /\ effective = 0
=============================================================================
