---------------------------- MODULE WatchRoots ----------------------------
(***************************************************************************)
(* One file watcher and the paths it is configured with: its event loop    *)
(* with the debounce window, and the goroutines that add paths again       *)
(* (scheduler/watcher.go).  inotify, through fsnotify, watches what is at  *)
(* a path when it is added, and no longer than that exists.                *)
(***************************************************************************)
EXTENDS Naturals, Sequences, FiniteSets

CONSTANTS
  Roots,       \* configured paths
  MaxQueue     \* bound: events not yet taken

EventNames == {"write", "create", "remove"}

ASSUME WatchRootsAssumption == MaxQueue \in Nat

VARIABLES
  events,      \* configured events
  debounces,   \* whether the task has a debounce window
  moves,       \* whether paths may be renamed away in this behaviour, or only deleted
  exists,      \* paths at which there is something
  watched,     \* paths where what is there now is watched
  queue,       \* events of fsnotify
  lastSeen,    \* paths with an event less than the debounce window ago
  retry,       \* goroutines of retryAdd, each the set of its paths
  closed,      \* e.done is closed
  loops        \* the event loop runs

conf == <<events, debounces, moves>>
rootVars == <<conf, exists, watched, queue, lastSeen, retry, closed, loops>>

Event == [path : Roots, op : {"write", "remove", "rename"}]

RootsTypeOK ==
  /\ events \subseteq EventNames /\ debounces \in BOOLEAN /\ moves \in BOOLEAN
  /\ exists \subseteq Roots /\ watched \subseteq exists
  /\ queue \in Seq(Event)
  /\ lastSeen \subseteq Roots /\ retry \subseteq SUBSET Roots
  /\ closed \in BOOLEAN /\ loops \in BOOLEAN

----------------------------------------------------------------------------
\* Start: paths that are not there yet are left to one goroutine.
RootsInit ==
  /\ events \in SUBSET EventNames /\ debounces \in BOOLEAN /\ moves \in BOOLEAN
  /\ exists \in SUBSET Roots /\ watched = exists
  /\ queue = << >> /\ lastSeen = {}
  /\ retry = IF exists = Roots THEN {} ELSE {Roots \ exists}
  /\ closed = FALSE /\ loops = TRUE

(* What happens to the paths. *)

Emit(r, op) == queue' = IF r \in watched /\ ~closed THEN Append(queue, [path |-> r, op |-> op]) ELSE queue
Room == Len(queue) < MaxQueue

Appear(r) ==
  /\ r \notin exists
  /\ exists' = exists \cup {r}
  /\ UNCHANGED <<conf, watched, queue, lastSeen, retry, closed, loops>>

Vanish(r, op) ==
  /\ r \in exists /\ Room
  /\ exists' = exists \ {r} /\ watched' = watched \ {r}
  /\ Emit(r, op)
  /\ UNCHANGED <<conf, lastSeen, retry, closed, loops>>

\* Another file is renamed over the path, as editors do.
Replace(r) ==
  /\ r \in watched /\ Room
  /\ watched' = watched \ {r}
  /\ Emit(r, "remove")
  /\ UNCHANGED <<conf, exists, lastSeen, retry, closed, loops>>

Change(r) ==
  /\ r \in watched /\ Room
  /\ Emit(r, "write")
  /\ UNCHANGED <<conf, exists, watched, lastSeen, retry, closed, loops>>

----------------------------------------------------------------------------
(* The watcher. *)

\* What a rename was is decided by whether there is something at the path now.
TypeOf(ev) == IF ev.op # "rename" THEN ev.op ELSE IF ev.path \in exists THEN "create" ELSE "remove"

Debounced(r) == debounces /\ r \in lastSeen
AddAgain(r) == retry' = retry \cup {{r}}

\* The loop: event type, debounce, add a root again that is gone, handle.
\* Mutant: a root that is gone is left to those that were missing at the start.
Loop_NotAgain ==
  /\ loops /\ queue # << >>
  /\ LET ev == Head(queue) IN
     lastSeen' = IF TypeOf(ev) \in events /\ debounces THEN lastSeen \cup {ev.path} ELSE lastSeen
  /\ queue' = Tail(queue)
  /\ UNCHANGED <<conf, exists, watched, retry, closed, loops>>
Loop ==
  /\ loops /\ queue # << >>
  /\ LET ev == Head(queue)
         accepted == TypeOf(ev) \in events /\ ~Debounced(ev.path)
     IN /\ lastSeen' = IF accepted /\ debounces THEN lastSeen \cup {ev.path} ELSE lastSeen
        /\ IF accepted /\ TypeOf(ev) = "remove" THEN AddAgain(ev.path) ELSE UNCHANGED retry
  /\ queue' = Tail(queue)
  /\ UNCHANGED <<conf, exists, watched, closed, loops>>

WindowEnds(r) ==
  /\ r \in lastSeen
  /\ lastSeen' = lastSeen \ {r}
  /\ UNCHANGED <<conf, exists, watched, queue, retry, closed, loops>>

\* retryAdd every 2 seconds: all its paths, and again until none is missing.
\* Mutant: the error of adding a path is dropped.
RetryAdd_Unchecked(ps) ==
  /\ ps \in retry
  /\ watched' = IF closed THEN watched ELSE watched \cup ps
  /\ retry' = retry \ {ps}
  /\ UNCHANGED <<conf, exists, queue, lastSeen, closed, loops>>
\* Mutant: done is not looked at.
RetryAdd_Deaf(ps) ==
  /\ ps \in retry
  /\ watched' = IF closed THEN watched ELSE watched \cup (ps \cap exists)
  /\ retry' = IF ~closed /\ ps \subseteq exists THEN retry \ {ps} ELSE retry
  /\ UNCHANGED <<conf, exists, queue, lastSeen, closed, loops>>
RetryAdd(ps) ==
  /\ ps \in retry
  /\ watched' = IF closed THEN watched ELSE watched \cup (ps \cap exists)
  /\ retry' = IF closed \/ ps \subseteq exists THEN retry \ {ps} ELSE retry
  /\ UNCHANGED <<conf, exists, queue, lastSeen, closed, loops>>

\* close(): done, then the fsnotify watcher, which forgets its events.
Close ==
  /\ ~closed /\ closed' = TRUE
  /\ watched' = {} /\ queue' = << >>
  /\ UNCHANGED <<conf, exists, lastSeen, retry, loops>>

LoopEnds ==
  /\ closed /\ loops
  /\ loops' = FALSE
  /\ UNCHANGED <<conf, exists, watched, queue, lastSeen, retry, closed>>

----------------------------------------------------------------------------
Outside ==
  \E r \in Roots :
    \/ Appear(r) \/ Replace(r) \/ Change(r)
    \/ Vanish(r, "remove")
    \/ moves /\ Vanish(r, "rename")

RootsNext ==
  \/ Outside
  \/ Loop \/ Close \/ LoopEnds
  \/ \E r \in Roots : WindowEnds(r)
  \/ \E ps \in SUBSET Roots : RetryAdd(ps)

\* Goroutines go on and the timer fires; nothing is assumed of the paths.
RootsFairness ==
  /\ WF_rootVars(Loop) /\ WF_rootVars(LoopEnds)
  /\ \A ps \in SUBSET Roots : WF_rootVars(RetryAdd(ps))

RootsSpec == RootsInit /\ [][RootsNext]_rootVars /\ RootsFairness

----------------------------------------------------------------------------
(* Properties. *)

\* The tasks whose watcher learns that a path is gone.
Told == "remove" \in events /\ ~debounces /\ ~moves

\* A path that is not watched is known to be: a goroutine is adding it, or the
\* event that tells is on its way.
UnwatchedIsKnown ==
  Told => \A r \in Roots \ watched :
    closed \/ (\E ps \in retry : r \in ps) \/ \E i \in DOMAIN queue : queue[i] = [path |-> r, op |-> "remove"]

\* scheduler/watcher.go:176: a root that is there again, and stays, is watched again,
\* and again whenever another file replaces it.
WatchedAgain ==
  Told => \A r \in Roots : <>[](r \in exists) => []<>(r \in watched \/ closed)

\* No goroutine outlives its watcher.
ClosedEnds == closed ~> ~loops /\ retry = {}
=============================================================================
