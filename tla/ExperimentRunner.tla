-------------------------- MODULE ExperimentRunner --------------------------
(***************************************************************************)
(* studio::ExperimentRunner: validates or runs the editor's buffer in a    *)
(* horusrf-run process of its own.  Handlers run on the GUI thread; the    *)
(* process, and the events QProcess queues about it, are external.         *)
(* Signals are synchronous calls: `completions` counts emissions of        *)
(* completed(), and a listener reacts in the step that changes it.         *)
(***************************************************************************)
EXTENDS Naturals

CONSTANTS
  Sources,    \* editor buffers
  NoSource,   \* no run yet
  MaxStarts   \* bound on the operations started

ASSUME RunnerAssumption == NoSource \notin Sources /\ MaxStarts \in Nat

VARIABLES
  active,       \* active_
  result,       \* last_result_
  capture,      \* current-buffer.hrf in the temporary directory
  json,         \* results.json in the temporary directory
  process,      \* the QProcess and the horusrf-run it stands for
  exit,         \* how that process ended
  produced,     \* source of the newest run that wrote a loadable results.json
                \* (history variable)
  starts,       \* operations started (history variable)
  completions   \* emissions of completed() (history variable)

runner == <<active, result, capture, json, process, exit, produced, starts,
            completions>>

Operations == {"Validate", "Run"}

\* Exit codes as the window tells them apart: -1, 0, 6 (a measurement failed
\* its qualification) and the errors; CrashExit is a status of its own.
Exits == {"notStarted", "ok", "unqualified", "failed", "crash"}

Results == [operation : Operations, exit : Exits]

RunnerTypeOK ==
  /\ active \in BOOLEAN
  /\ result \in Results
  /\ capture \in Sources \cup {NoSource}
  /\ json \in {"absent", "valid", "broken"}
  /\ process \in {"none", "running", "failed", "ended"}
  /\ exit \in Exits
  /\ produced \in Sources \cup {NoSource}
  /\ starts \in 0..MaxStarts /\ completions \in 0..MaxStarts

RunnerInit ==
  /\ active = FALSE /\ capture = NoSource /\ json = "absent"
  /\ result = [operation |-> "Validate", exit |-> "notStarted"]
  /\ process = "none" /\ exit = "notStarted"
  /\ produced = NoSource /\ starts = 0 /\ completions = 0

Succeeded(r) == r.exit = "ok"
ProducedResults(r) == r.operation = "Run" /\ r.exit \in {"ok", "unqualified"}

-----------------------------------------------------------------------------
\* finish
Finish(how) ==
  /\ active' = FALSE
  /\ result' = [result EXCEPT !.exit = how]
  /\ completions' = completions + 1

\* start: a new temporary directory replaces the old one and its results.json.
\* "refused": the directory or the source file cannot be written; completed()
\* is emitted and start returns false.  "failed": QProcess::start reports at
\* once that there is no such program; finish runs and start returns true.
StartOutcomes == {"refused", "failed", "running"}

Start(operation, source, outcome) ==
  /\ ~active /\ starts < MaxStarts
  /\ starts' = starts + 1
  /\ capture' = source /\ json' = "absent"
  /\ result' = [operation |-> operation, exit |-> "notStarted"]
  /\ exit' = "notStarted"
  /\ active' = (outcome = "running")
  /\ IF outcome = "running"
     THEN process' = "running" /\ UNCHANGED completions
     ELSE UNCHANGED process /\ completions' = completions + 1
  /\ UNCHANGED produced

\* cancel: active_ is reset first, so that what the killed process reports is
\* ignored, whether it dies within the second it is waited for or later.
Cancel ==
  /\ active' = FALSE
  /\ process' \in IF active THEN {"none", process} ELSE {process}
  /\ UNCHANGED <<result, capture, json, exit, starts, completions, produced>>

-----------------------------------------------------------------------------
(* The process and the events QProcess delivers about it.                  *)

\* horusrf-run ends.  A run that exits with 0 or 6 has written results.json,
\* which the window may still find unreadable; one that fails removes it.
ProcessEnds(how) ==
  /\ process = "running"
  /\ how = "unqualified" => result.operation = "Run"
  /\ process' = "ended" /\ exit' = how
  /\ json' \in IF result.operation = "Run" /\ how \in {"ok", "unqualified"}
               THEN {"valid", "broken"}
               ELSE IF result.operation = "Run" /\ how = "crash"
               THEN {"absent", "broken"} ELSE {"absent"}
  /\ produced' = IF json' = "valid" THEN capture ELSE produced
  /\ UNCHANGED <<active, result, capture, starts, completions>>

ProcessFailsToStart ==
  /\ process = "running"
  /\ process' = "failed"
  /\ UNCHANGED <<active, result, capture, json, exit, starts, completions, produced>>

DeliverFinishedTwice ==                          \* mutant: a crash is also an error
  /\ process = "ended" /\ process' = "none"
  /\ IF active
     THEN /\ active' = FALSE /\ result' = [result EXCEPT !.exit = exit]
          /\ completions' = completions + (IF exit = "crash" THEN 2 ELSE 1)
     ELSE UNCHANGED <<active, result, completions>>
  /\ UNCHANGED <<capture, json, exit, starts, produced>>

DeliverFinishedUnguarded ==                      \* mutant: active_ is not read
  /\ process = "ended" /\ process' = "none"
  /\ Finish(exit)
  /\ UNCHANGED <<capture, json, exit, starts, produced>>

\* The slots of QProcess::finished and QProcess::errorOccurred.
DeliverFinished ==
  /\ process = "ended" /\ process' = "none"
  /\ IF active THEN Finish(exit) ELSE UNCHANGED <<active, result, completions>>
  /\ UNCHANGED <<capture, json, exit, starts, produced>>

DeliverStartFailureIgnored ==                    \* mutant: only finished is handled
  /\ process = "failed" /\ process' = "none"
  /\ UNCHANGED <<active, result, completions, capture, json, exit, starts, produced>>

DeliverStartFailure ==
  /\ process = "failed" /\ process' = "none"
  /\ IF active THEN Finish("notStarted") ELSE UNCHANGED <<active, result, completions>>
  /\ UNCHANGED <<capture, json, exit, starts, produced>>

ProcessStep ==
  \/ \E how \in Exits \ {"notStarted"} : ProcessEnds(how)
  \/ ProcessFailsToStart

RunnerEvent == DeliverFinished \/ DeliverStartFailure
=============================================================================
