---------------------------- MODULE StudioWindow ----------------------------
(***************************************************************************)
(* studio::MainWindow: the document with its undo history and file, and    *)
(* the experiment actions with the results they show, over the process     *)
(* boundary of ExperimentRunner.                                           *)
(*                                                                         *)
(* Dialogs are modal: while one is open the user cannot reach the window   *)
(* and nothing else changes the document, so a handler with its dialogs is *)
(* one action with one disjunct per answer.                                *)
(***************************************************************************)
EXTENDS ExperimentRunner, Sequences

CONSTANTS
  Paths, NoPath,
  Contents,    \* contents of files on disk
  Shown,       \* [Contents -> Sources]: the text the editor has for contents -
               \* line ends become new lines, no-break spaces become spaces
  Templates,   \* the empty document and the packaged examples
  MaxHistory   \* bound on the undo history

ASSUME WindowAssumption ==
  /\ NoPath \notin Paths
  /\ Sources \subseteq Contents
  /\ Shown \in [Contents -> Sources] /\ \A s \in Sources : Shown[s] = s
  /\ Templates \subseteq Sources
  /\ MaxHistory \in Nat \ {0}

VARIABLES
  history,     \* texts of the document along its undo and redo stacks
  position,    \* undoState: which of them is in the editor
  clean,       \* modifiedState: which of them was last saved or loaded, 0 if gone
  path,        \* current_file_path_
  files,       \* the disk
  runEnabled,  \* validate_action_ and run_action_ are enabled
  results,     \* source whose results the results view shows
  window       \* "open" until closeEvent accepts

document == <<history, position, clean>>
disk == <<path, files>>
view == <<runEnabled, results>>

vars == <<runner, document, disk, view, window>>

Text == history[position]
Modified == clean # position

TypeOK ==
  /\ RunnerTypeOK
  /\ history \in Seq(Sources) /\ position \in DOMAIN history
  /\ clean \in 0..Len(history)
  /\ path \in Paths \cup {NoPath} /\ files \in [Paths -> Contents]
  /\ runEnabled \in BOOLEAN
  /\ results \in Sources \cup {NoSource}
  /\ window \in {"open", "closed"}

-----------------------------------------------------------------------------
(* The document (QTextDocument and its undo stack).                        *)

\* Typing, or applying a proposal: the redo stack is dropped, and the saved
\* text with it if it lay there.
Type(t) ==
  /\ position < MaxHistory
  /\ history' = Append(SubSeq(history, 1, position), t)
  /\ position' = position + 1
  /\ clean' = IF clean > position THEN 0 ELSE clean

Undo == position > 1 /\ position' = position - 1 /\ UNCHANGED <<history, clean>>

Redo == position < Len(history) /\ position' = position + 1 /\ UNCHANGED <<history, clean>>

Edit ==
  /\ window = "open"
  /\ (\E t \in Sources : Type(t)) \/ Undo \/ Redo
  /\ UNCHANGED <<runner, disk, view, window>>

ReplaceInUndoHistory(t, p) ==                    \* mutant: the position survives
  /\ history' = <<t>> /\ clean' = 1
  /\ path' = p
  /\ UNCHANGED position

\* setPlainText and setModified(false)
Replace(t, p) ==
  /\ history' = <<t>> /\ position' = 1 /\ clean' = 1
  /\ path' = p

-----------------------------------------------------------------------------
(* Files.                                                                  *)

WriteFailingClean(p) ==                          \* mutant: failure is not noticed
  /\ UNCHANGED files
  /\ clean' = position /\ path' = p
  /\ UNCHANGED <<history, position>>

\* writeDocument succeeds; a failed QSaveFile leaves the disk as it was.
Write(p) ==
  /\ files' = [files EXCEPT ![p] = Text]
  /\ clean' = position /\ path' = p
  /\ UNCHANGED <<history, position>>

\* saveDocument, which asks for a path only when there is none, and
\* saveDocumentAs.
Save ==
  /\ window = "open"
  /\ \/ path # NoPath /\ Write(path)
     \/ \E p \in Paths : Write(p)
  /\ UNCHANGED <<runner, view, window>>

\* confirmSaveIfModified lets the caller go on when there is nothing to lose,
\* when the user discards the changes, or with the disk as a successful save
\* leaves it.  In all other cases the caller returns.
DisksAfterConfirm ==
  {files} \cup
  IF Modified
  THEN {[files EXCEPT ![p] = Text] : p \in IF path = NoPath THEN Paths ELSE {path}}
  ELSE {}

\* newDocument and the examples leave the document without a file.
NewDocument ==
  /\ window = "open"
  /\ files' \in DisksAfterConfirm
  /\ \E t \in Templates : Replace(t, NoPath)
  /\ UNCHANGED <<runner, view, window>>

\* openDocument and loadDocument, of a file that can be read and is UTF-8.
OpenDocument ==
  /\ window = "open"
  /\ files' \in DisksAfterConfirm
  /\ \E p \in Paths : Replace(Shown[files'[p]], p)
  /\ UNCHANGED <<runner, view, window>>

-----------------------------------------------------------------------------
(* Experiments.                                                            *)

CompletedClearing ==                             \* mutant: a failed run clears the view
  /\ runEnabled' = TRUE
  /\ results' = IF ProducedResults(result') /\ json' = "valid" THEN capture' ELSE NoSource

\* experimentCompleted: only loadable results replace those on view.
Completed ==
  /\ runEnabled' = TRUE
  /\ results' = IF /\ Succeeded(result') \/ ProducedResults(result')
                   /\ result'.operation = "Run" /\ json' = "valid"
                THEN capture' ELSE results

\* The slot of completed() runs in the step that emits it.
Listen == IF completions' # completions THEN Completed ELSE UNCHANGED view

\* validateExperiment and runExperiment disable both actions before the call;
\* they are enabled again by completed(), or because the call returns false.
Release(outcome) ==
  IF completions' # completions \/ outcome = "refused"
  THEN Completed
  ELSE runEnabled' = FALSE /\ UNCHANGED results

StartExperiment(operation, outcome) ==
  /\ window = "open" /\ runEnabled
  /\ Start(operation, Text, outcome)
  /\ Release(outcome)
  /\ UNCHANGED <<document, disk, window>>

HandleProcess ==
  /\ RunnerEvent
  /\ Listen
  /\ UNCHANGED <<document, disk, window>>

Background == ProcessStep /\ UNCHANGED <<document, disk, view, window>>

\* closeEvent accepts: the run in progress is cancelled.
Close ==
  /\ window = "open" /\ window' = "closed"
  /\ \/ UNCHANGED <<document, disk>>
     \/ Modified /\ \E p \in IF path = NoPath THEN Paths ELSE {path} : Write(p)
  /\ Cancel
  /\ UNCHANGED view

-----------------------------------------------------------------------------
Init ==
  /\ RunnerInit
  /\ \E t \in Templates : history = <<t>>
  /\ position = 1 /\ clean = 1
  /\ path = NoPath /\ files \in [Paths -> Contents]
  /\ runEnabled = TRUE /\ results = NoSource
  /\ window = "open"

Next ==
  \/ Edit \/ Save \/ NewDocument \/ OpenDocument
  \/ \E operation \in Operations, outcome \in StartOutcomes :
       StartExperiment(operation, outcome)
  \/ HandleProcess \/ Background
  \/ Close

\* horusrf-run terminates, and the event loop delivers what QProcess reports.
Fairness == WF_vars(Background) /\ WF_vars(HandleProcess)

Spec == Init /\ [][Next]_vars
FairSpec == Spec /\ Fairness

-----------------------------------------------------------------------------
(* Properties.                                                             *)

\* A document shown as unmodified is what its file holds, through any order of
\* edits, undos past the last save, saves under other names and loads
\* (main_window.cpp:365-367, 392).
CleanMeansSaved == ~Modified /\ path # NoPath => Text = Shown[files[path]]

\* The experiment actions are usable exactly when the runner is idle: no way
\* for an operation to end - refused, failing to start within or after start(),
\* crashed - leaves the window without them (main_window.cpp:255-260, 277).
ActionsFollowRunner == window = "open" => (runEnabled <=> ~active)

\* Every operation is reported once, however it ends, also when the program
\* does not start within or after start() (experiment_runner.cpp:39, 43).
OneCompletionPerStart ==
  /\ completions <= starts
  /\ window = "open" /\ active => completions + 1 = starts
  /\ window = "open" /\ ~active => completions = starts

\* Together: an operation is never lost, reported twice or left without actions.
OperationsAreAccountedFor == ActionsFollowRunner /\ OneCompletionPerStart

\* Nothing is reported about a run that closing the window cancelled, when the
\* killed process is reaped within the wait and when it outlives it
\* (experiment_runner.cpp:130-133).
SilentAfterCancel == [][window = "closed" => completions' = completions]_vars

\* docs/architecture.md:366: "The most recent valid results remain visible if a
\* later run or result load fails."  Once the end of a run has been handled,
\* the view shows the newest loadable results, made from the source captured
\* when that run was started.
NewestResultsShown ==
  window = "open" /\ process # "ended" => results = produced

\* Every validation and every run ends, and the actions come back.
OperationsEnd == active ~> ~active
=============================================================================
