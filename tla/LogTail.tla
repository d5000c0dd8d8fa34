------------------------------ MODULE LogTail ------------------------------
(***************************************************************************)
(* The live view of a log: a run appends lines to its file and sets the    *)
(* status of its record; the web page polls for what was appended since    *)
(* the offset it has (LoadRunLog, ReadRecordLogTail; pollScriptRunLog and  *)
(* fetchLogTail in index.html).  The timer does not wait for answers.      *)
(***************************************************************************)
EXTENDS Integers, FiniteSets

CONSTANTS
  Lines,       \* lines a run writes, the last one after its commands have ended
  Polls,       \* slots for polls under way at the same time
  Views        \* "script": the verdict follows the last line; "cron": it precedes it

VARIABLES
  kind,        \* what is viewed
  written,     \* lines in the file
  settled,     \* the record has a verdict
  named,       \* the record has the path of the log, or it can be derived
  offset,      \* what the page has, by its own account
  poll,        \* polls under way
  shown,       \* the lines shown, some of them more than once
  timer        \* the page goes on polling

tailVars == <<kind, written, settled, named, offset, poll, shown, timer>>
run == <<kind, written, settled, named>>

NoPoll == [at |-> "none", from |-> 0, done |-> FALSE, path |-> FALSE, size |-> 0, to |-> 0]
PollState ==
  [at : {"none", "record", "stat", "read", "answer"}, from : Nat, done : BOOLEAN,
   path : BOOLEAN, size : Nat, to : Nat]

TailTypeOK ==
  /\ kind \in Views /\ written \in 0..Lines /\ settled \in BOOLEAN /\ named \in BOOLEAN
  /\ offset \in 0..Lines /\ poll \in [Polls -> PollState]
  /\ shown \subseteq 1..Lines /\ timer \in BOOLEAN

TailInit ==
  /\ kind \in Views
  /\ written = 0 /\ settled = FALSE /\ named = (kind = "cron")
  /\ offset = 0 /\ poll = [p \in Polls |-> NoPoll]
  /\ shown = {} /\ timer = TRUE

----------------------------------------------------------------------------
(* The run. *)

Name == ~named /\ named' = TRUE /\ UNCHANGED <<kind, written, settled, offset, poll, shown, timer>>

\* The lines before the verdict: all of them for a script, all but the last for a
\* cronjob or a file watch task.
BeforeVerdict == IF kind = "script" THEN Lines ELSE Lines - 1

Write ==
  /\ named /\ written < Lines /\ (written = BeforeVerdict => settled)
  /\ written' = written + 1
  /\ UNCHANGED <<kind, settled, named, offset, poll, shown, timer>>

Settle ==
  /\ named /\ ~settled /\ written = BeforeVerdict
  /\ settled' = TRUE
  /\ UNCHANGED <<kind, written, named, offset, poll, shown, timer>>

----------------------------------------------------------------------------
(* A poll: record, file size, content up to the end, answer. *)

Goes(p, r) == poll' = [poll EXCEPT ![p] = r]

Ask(p) ==
  /\ timer /\ poll[p].at = "none"
  /\ Goes(p, [NoPoll EXCEPT !.at = "record", !.from = offset])
  /\ UNCHANGED <<run, offset, shown, timer>>

ReadRecord(p) ==
  /\ poll[p].at = "record"
  /\ Goes(p, [poll[p] EXCEPT !.at = "stat", !.done = settled, !.path = named])
  /\ UNCHANGED <<run, offset, shown, timer>>

\* A record without a path is answered with no content.
Stat(p) ==
  /\ poll[p].at = "stat"
  /\ IF poll[p].path
     THEN Goes(p, [poll[p] EXCEPT !.at = "read", !.size = written,
                                  !.from = IF @ > written THEN written ELSE @])
     ELSE Goes(p, [poll[p] EXCEPT !.at = "answer", !.size = poll[p].from, !.to = poll[p].from])
  /\ UNCHANGED <<run, offset, shown, timer>>

\* Mutant: the status is that of the moment the content is read.
ReadAll_StatusLater(p) ==
  /\ poll[p].at = "read"
  /\ Goes(p, [poll[p] EXCEPT !.at = "answer", !.to = poll[p].size, !.done = settled])
  /\ UNCHANGED <<run, offset, shown, timer>>
ReadAll(p) ==
  /\ poll[p].at = "read"
  /\ Goes(p, [poll[p] EXCEPT !.at = "answer", !.to = written])
  /\ UNCHANGED <<run, offset, shown, timer>>

\* Answers may come in another order than the polls were sent.
Answer(p) ==
  /\ poll[p].at = "answer"
  /\ LET a == poll[p] IN
     /\ shown' = shown \cup (a.from + 1)..a.to
     /\ offset' = a.size
     /\ timer' = (timer /\ ~a.done)
  /\ Goes(p, NoPoll)
  /\ UNCHANGED run

----------------------------------------------------------------------------
Running == Name \/ Write \/ Settle
Polling(p) == Ask(p) \/ ReadRecord(p) \/ Stat(p) \/ ReadAll(p) \/ Answer(p)

TailNext == Running \/ \E p \in Polls : Polling(p)

TailSpec == TailInit /\ [][TailNext]_tailVars

----------------------------------------------------------------------------
(* Properties. *)

\* internal/service/script_library.go:367: when the page has stopped polling it
\* has shown every line written before the verdict, whatever the order in which
\* lines, verdict, the steps of overlapping polls and their answers came.
TailShowsAll ==
  ~timer /\ (\A p \in Polls : poll[p].at = "none") => 1..BeforeVerdict \subseteq shown
=============================================================================
