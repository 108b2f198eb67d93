------------------------ MODULE StudioWindow_proofs ------------------------
(***************************************************************************)
(* Theorems about StudioWindow for every set of texts and files, any undo  *)
(* history and any number of experiments.                                  *)
(***************************************************************************)
EXTENDS StudioWindow, TLAPS

(***************************************************************************)
(* The inductive invariant.  CleanMeansSaved speaks of the text in the     *)
(* editor; what is preserved is that the saved text, wherever it lies on   *)
(* the undo and redo stacks, is what the file holds.                       *)
(***************************************************************************)
SavedOnDisk == clean # 0 /\ path # NoPath => history[clean] = Shown[files[path]]

\* While the window is open nobody cancels: the runner is active exactly while
\* QProcess still has something to report.  Once it is closed it stays idle.
ActiveHasProcess ==
  /\ window = "open" => (active <=> process # "none")
  /\ window # "open" => ~active

\* Between the end of the process and its delivery.
PendingResults ==
  process = "ended" =>
    /\ json = "valid" => /\ result.operation = "Run" /\ exit \in {"ok", "unqualified"}
                         /\ produced = capture
    /\ json # "valid" /\ window = "open" => results = produced

IInv ==
  /\ TypeOK
  /\ SavedOnDisk /\ ActiveHasProcess /\ PendingResults
  /\ ActionsFollowRunner /\ OneCompletionPerStart /\ NewestResultsShown

USE RunnerAssumption, WindowAssumption

LEMMA InitInv == Init => IInv
  <1> SUFFICES ASSUME Init PROVE IInv
    OBVIOUS
  <1>1. TypeOK
    <2>1. PICK t \in Templates : history = <<t>>
      BY DEF Init
    <2>2. history \in Seq(Sources) /\ Len(history) = 1
      BY <2>1
    <2>3. RunnerTypeOK
      <3>1. active \in BOOLEAN
        BY Zenon DEF Init, RunnerInit
      <3>2. starts \in 0..MaxStarts /\ completions \in 0..MaxStarts
        BY DEF Init, RunnerInit
      <3>3. QED BY <3>1, <3>2
                DEF Init, RunnerInit, RunnerTypeOK, Results, Operations, Exits
    <2>4. position \in DOMAIN history /\ clean \in 0..Len(history)
      BY <2>1, <2>2 DEF Init
    <2>5. QED BY <2>2, <2>3, <2>4 DEF Init, TypeOK
  <1>2. SavedOnDisk /\ ActiveHasProcess /\ PendingResults
    BY DEF Init, RunnerInit, SavedOnDisk, ActiveHasProcess, PendingResults
  <1>3. ActionsFollowRunner /\ OneCompletionPerStart /\ NewestResultsShown
    BY DEF Init, RunnerInit, ActionsFollowRunner, OneCompletionPerStart, NewestResultsShown
  <1>4. QED BY <1>1, <1>2, <1>3 DEF IInv

\* Steps that only touch the document and the disk.
LEMMA DocumentInv ==
  ASSUME IInv, UNCHANGED <<runner, view, window>>,
         history' \in Seq(Sources), position' \in DOMAIN history', clean' \in 0..Len(history'),
         path' \in Paths \cup {NoPath}, files' \in [Paths -> Contents],
         SavedOnDisk'
  PROVE  IInv'
  <1>1. TypeOK'
    BY DEF IInv, TypeOK, RunnerTypeOK, runner, view
  <1>2. ActiveHasProcess' /\ PendingResults'
    BY DEF IInv, ActiveHasProcess, PendingResults, runner, view
  <1>3. ActionsFollowRunner' /\ OneCompletionPerStart' /\ NewestResultsShown'
    BY DEF IInv, ActionsFollowRunner, OneCompletionPerStart, NewestResultsShown, runner, view
  <1>4. QED BY <1>1, <1>2, <1>3 DEF IInv

LEMMA EditInv ==
  ASSUME IInv, Edit
  PROVE  IInv'
  <1> USE DEF IInv, TypeOK, disk
  <1>1. ASSUME NEW t \in Sources, Type(t) PROVE IInv'
    <2> DEFINE kept == SubSeq(history, 1, position)
    <2>1. /\ kept \in Seq(Sources) /\ Len(kept) = position
          /\ \A i \in 1..position : kept[i] = history[i]
      OBVIOUS
    <2>2. history' = Append(kept, t) /\ position' = position + 1
      BY <1>1 DEF Type
    <2> HIDE DEF kept
    <2>3. /\ history' \in Seq(Sources) /\ Len(history') = position + 1
          /\ \A i \in 1..position : history'[i] = history[i]
      BY <2>1, <2>2
    <2>4. position \in Nat /\ clean \in Nat
      OBVIOUS
    <2>5. clean' \in 0..position /\ (clean' # 0 => clean' = clean)
      BY <1>1, <2>4 DEF Type
    <2>6. SavedOnDisk'
      <3>1. path' = path /\ files' = files
        BY DEF Edit
      <3>2. clean' # 0 => clean' \in 1..position /\ history'[clean'] = history[clean]
        BY <2>3, <2>4, <2>5
      <3>3. QED BY <2>5, <3>1, <3>2 DEF SavedOnDisk
    <2>7. position' \in DOMAIN history' /\ clean' \in 0..Len(history')
      BY <2>2, <2>3, <2>4, <2>5
    <2>8. QED BY <2>3, <2>6, <2>7, DocumentInv DEF Edit
  <1>2. CASE Undo \/ Redo
    <2>1. position' \in DOMAIN history /\ history' = history /\ clean' = clean
      BY <1>2 DEF Undo, Redo
    <2>2. SavedOnDisk'
      BY <2>1 DEF Edit, SavedOnDisk
    <2>3. QED BY <2>1, <2>2, DocumentInv DEF Edit
  <1>3. QED BY <1>1, <1>2 DEF Edit

\* A successful write makes the text in the editor the saved one.
LEMMA WriteSaves ==
  ASSUME IInv, NEW p \in Paths, Write(p)
  PROVE  /\ SavedOnDisk' /\ files' \in [Paths -> Contents] /\ path' \in Paths
         /\ history' \in Seq(Sources) /\ position' \in DOMAIN history'
         /\ clean' \in 0..Len(history')
  <1>1. Text \in Sources /\ position \in 1..Len(history)
    BY DEF IInv, TypeOK, Text
  <1>2. files'[p] = Text /\ files' \in [Paths -> Contents]
    BY <1>1 DEF Write, IInv, TypeOK
  <1>3. SavedOnDisk'
    BY <1>1, <1>2 DEF Write, SavedOnDisk, Text
  <1>4. QED BY <1>1, <1>2, <1>3 DEF Write, IInv, TypeOK

LEMMA SaveInv ==
  ASSUME IInv, Save
  PROVE  IInv'
  <1>1. PICK p \in Paths : Write(p)
    BY DEF Save, IInv, TypeOK
  <1>2. QED BY <1>1, WriteSaves, DocumentInv DEF Save

LEMMA DisksTyped ==
  ASSUME IInv
  PROVE  DisksAfterConfirm \subseteq [Paths -> Contents]
  <1>1. Text \in Contents
    BY DEF IInv, TypeOK, Text
  <1>2. QED BY <1>1 DEF IInv, TypeOK, DisksAfterConfirm

LEMMA ReplaceInv ==
  ASSUME IInv, NewDocument \/ OpenDocument
  PROVE  IInv'
  <1>1. files' \in [Paths -> Contents] /\ UNCHANGED <<runner, view, window>>
    BY DisksTyped DEF NewDocument, OpenDocument
  <1>2. PICK t \in Sources, p \in Paths \cup {NoPath} :
          Replace(t, p) /\ (p # NoPath => t = Shown[files'[p]])
    <2>1. CASE NewDocument
      BY <2>1 DEF NewDocument
    <2>2. CASE OpenDocument
      <3>1. PICK p \in Paths : Replace(Shown[files'[p]], p)
        BY <2>2 DEF OpenDocument
      <3>2. Shown[files'[p]] \in Sources
        BY <1>1, <3>1
      <3>3. QED BY <3>1, <3>2
    <2>3. QED BY <2>1, <2>2
  <1>3. history' = <<t>> /\ history' \in Seq(Sources) /\ Len(history') = 1
    BY <1>2 DEF Replace
  <1>4. SavedOnDisk'
    BY <1>2, <1>3 DEF Replace, SavedOnDisk
  <1>5. QED BY <1>1, <1>2, <1>3, <1>4, DocumentInv DEF Replace

\* Steps that leave the document and the disk alone keep the saved text saved.
LEMMA ExperimentFrame ==
  ASSUME IInv, UNCHANGED <<document, disk>>,
         RunnerTypeOK', runEnabled' \in BOOLEAN, results' \in Sources \cup {NoSource},
         window' \in {"open", "closed"}
  PROVE  TypeOK' /\ SavedOnDisk'
  BY DEF IInv, TypeOK, SavedOnDisk, document, disk

LEMMA StartInv ==
  ASSUME IInv, NEW operation \in Operations, NEW outcome \in StartOutcomes,
         StartExperiment(operation, outcome)
  PROVE  IInv'
  <1> USE DEF IInv, StartExperiment
  <1>1. Text \in Sources /\ starts \in Nat /\ completions \in Nat
    BY DEF TypeOK, Text, RunnerTypeOK
  <1>2. ~active /\ process = "none" /\ completions = starts /\ results = produced
    BY <1>1 DEF Start, ActiveHasProcess, OneCompletionPerStart, NewestResultsShown
  <1>3. CASE outcome = "running"
    <2>0. starts' = starts + 1 /\ starts' \in 0..MaxStarts
      BY <1>1 DEF Start
    <2>1. active' = TRUE /\ process' = "running" /\ completions' = completions
          /\ starts' = starts + 1 /\ starts' \in 0..MaxStarts
      BY <1>3, <2>0, Zenon DEF Start
    <2>2. runEnabled' = FALSE /\ results' = results
      BY <1>3, <2>1 DEF Release
    <2>3. RunnerTypeOK'
      BY <1>1, <2>1 DEF TypeOK, RunnerTypeOK, Start, Results, Exits
    <2>4. TypeOK' /\ SavedOnDisk'
      BY <2>2, <2>3, ExperimentFrame DEF TypeOK
    <2>5. QED BY <1>1, <1>2, <2>1, <2>2, <2>4
              DEF Start, ActiveHasProcess, PendingResults, ActionsFollowRunner,
                  OneCompletionPerStart, NewestResultsShown
  <1>4. CASE outcome # "running"
    <2>1. active' = FALSE /\ process' = "none" /\ completions' = completions + 1
          /\ starts' = starts + 1 /\ starts' \in 0..MaxStarts
      BY <1>1, <1>2, <1>4 DEF Start, TypeOK, RunnerTypeOK
    <2>2. result'.exit = "notStarted"
      BY DEF Start
    <2>3. runEnabled' = TRUE /\ results' = results
      BY <1>1, <2>1, <2>2 DEF Release, Completed, Succeeded, ProducedResults
    <2>4. RunnerTypeOK'
      BY <1>1, <1>2, <2>1 DEF TypeOK, RunnerTypeOK, Start, Results, Exits
    <2>5. TypeOK' /\ SavedOnDisk'
      BY <2>3, <2>4, ExperimentFrame DEF TypeOK
    <2>6. QED BY <1>1, <1>2, <2>1, <2>3, <2>5
              DEF Start, ActiveHasProcess, PendingResults, ActionsFollowRunner,
                  OneCompletionPerStart, NewestResultsShown
  <1>5. QED BY <1>3, <1>4

LEMMA BackgroundInv ==
  ASSUME IInv, Background
  PROVE  IInv'
  <1> USE DEF IInv, Background, view
  <1>1. /\ UNCHANGED <<active, capture, starts, completions, result>>
        /\ process = "running" /\ process' \in {"failed", "ended"}
    BY DEF ProcessStep, ProcessEnds, ProcessFailsToStart
  <1>2. RunnerTypeOK'
    BY DEF TypeOK, RunnerTypeOK, ProcessStep, ProcessEnds, ProcessFailsToStart, Exits
  <1>3. TypeOK' /\ SavedOnDisk'
    BY <1>2, ExperimentFrame DEF TypeOK
  <1>4. ActiveHasProcess' /\ ActionsFollowRunner' /\ OneCompletionPerStart'
    BY <1>1 DEF ActiveHasProcess, ActionsFollowRunner, OneCompletionPerStart
  <1>5. PendingResults' /\ NewestResultsShown'
    BY <1>1 DEF ProcessStep, ProcessEnds, ProcessFailsToStart, PendingResults,
                NewestResultsShown, TypeOK, RunnerTypeOK, Results
  <1>6. QED BY <1>3, <1>4, <1>5

\* QProcess reports: the runner finishes if it is still active, and the window
\* reacts to completed().
LEMMA HandleInv ==
  ASSUME IInv, HandleProcess
  PROVE  IInv'
  <1> USE DEF IInv, HandleProcess
  <1>1. process \in {"ended", "failed"} /\ process' = "none"
        /\ UNCHANGED <<capture, json, exit, starts, produced>>
    BY DEF RunnerEvent, DeliverFinished, DeliverStartFailure
  <1>2. starts \in Nat /\ completions \in Nat
    BY DEF TypeOK, RunnerTypeOK
  <1>3. CASE ~active
    <2>1. UNCHANGED <<active, result, completions>>
      BY <1>3 DEF RunnerEvent, DeliverFinished, DeliverStartFailure
    <2>2. UNCHANGED view /\ window # "open"
      BY <1>1, <1>3, <2>1 DEF Listen, ActiveHasProcess
    <2>3. RunnerTypeOK'
      BY <1>1, <2>1 DEF TypeOK, RunnerTypeOK
    <2>4. TypeOK' /\ SavedOnDisk'
      BY <2>2, <2>3, ExperimentFrame DEF TypeOK, view
    <2>5. QED BY <1>1, <2>1, <2>2, <2>4
              DEF ActiveHasProcess, PendingResults, ActionsFollowRunner,
                  OneCompletionPerStart, NewestResultsShown
  <1>4. CASE active
    <2>1. /\ active' = FALSE /\ completions' = completions + 1
          /\ \E how \in Exits : /\ result' = [result EXCEPT !.exit = how]
                                /\ process = "ended" => how = exit
                                /\ process = "failed" => how = "notStarted"
      BY <1>4 DEF RunnerEvent, DeliverFinished, DeliverStartFailure, Finish, TypeOK,
                  RunnerTypeOK, Exits
    <2>2. Completed
      BY <1>2, <2>1 DEF Listen
    <2>3. completions' <= starts /\ completions' \in 0..MaxStarts
          /\ (window = "open" => completions' = starts)
      <3>1. window = "open"
        BY <1>4 DEF ActiveHasProcess
      <3>2. completions + 1 = starts
        BY <1>4, <3>1 DEF OneCompletionPerStart
      <3>3. QED BY <1>2, <2>1, <3>2 DEF TypeOK, RunnerTypeOK
    <2>4. RunnerTypeOK'
      BY <1>1, <2>1, <2>3 DEF TypeOK, RunnerTypeOK, Results
    <2>5. results' \in Sources \cup {NoSource} /\ runEnabled' = TRUE
      BY <1>1, <2>2 DEF Completed, TypeOK, RunnerTypeOK
    <2>6. TypeOK' /\ SavedOnDisk'
      BY <2>4, <2>5, ExperimentFrame DEF TypeOK
    <2>7. window = "open" => results' = produced
      <3>1. result.operation = result'.operation
        BY <2>1 DEF TypeOK, RunnerTypeOK, Results
      <3>2. CASE process = "failed"
        <4>1. result'.exit = "notStarted"
          BY <2>1, <3>2 DEF TypeOK, RunnerTypeOK, Results
        <4>2. QED BY <2>2, <3>2, <4>1 DEF Completed, Succeeded, ProducedResults,
                                          NewestResultsShown
      <3>3. CASE process = "ended"
        <4>1. result'.exit = exit
          BY <2>1, <3>3 DEF TypeOK, RunnerTypeOK, Results
        <4>2. QED BY <1>1, <2>2, <3>1, <3>3, <4>1 DEF Completed, Succeeded, ProducedResults,
                                                      PendingResults
      <3>4. QED BY <1>1, <3>2, <3>3
    <2>8. QED BY <1>1, <1>2, <2>1, <2>3, <2>5, <2>6, <2>7
              DEF ActiveHasProcess, PendingResults, ActionsFollowRunner,
                  OneCompletionPerStart, NewestResultsShown
  <1>5. QED BY <1>3, <1>4 DEF TypeOK, RunnerTypeOK

LEMMA CloseInv ==
  ASSUME IInv, Close
  PROVE  IInv'
  <1> USE DEF IInv, Close, view
  <1>1. RunnerTypeOK'
    BY DEF Cancel, TypeOK, RunnerTypeOK
  <1>2. /\ SavedOnDisk' /\ files' \in [Paths -> Contents] /\ path' \in Paths \cup {NoPath}
        /\ history' \in Seq(Sources) /\ position' \in DOMAIN history'
        /\ clean' \in 0..Len(history')
    <2>1. CASE UNCHANGED <<document, disk>>
      BY <2>1 DEF document, disk, TypeOK, SavedOnDisk
    <2>2. QED BY <2>1, WriteSaves DEF TypeOK
  <1>3. TypeOK'
    BY <1>1, <1>2 DEF TypeOK
  <1>4. completions' = completions /\ starts' = starts /\ window' # "open"
        /\ ~active'
        /\ UNCHANGED <<json, result, exit, produced, capture>>
        /\ (process' = "ended" => process = "ended")
    BY DEF Cancel
  <1>5. QED BY <1>2, <1>3, <1>4
            DEF ActiveHasProcess, PendingResults, ActionsFollowRunner,
                OneCompletionPerStart, NewestResultsShown

LEMMA StepInv == IInv /\ [Next]_vars => IInv'
  <1> SUFFICES ASSUME IInv, [Next]_vars PROVE IInv'
    OBVIOUS
  <1>1. CASE UNCHANGED vars
    <2>1. SavedOnDisk'
      BY <1>1 DEF vars, document, disk, IInv, SavedOnDisk
    <2>2. QED BY <1>1, <2>1, DocumentInv DEF vars, document, disk, IInv, TypeOK
  <1>2. QED BY <1>1, EditInv, SaveInv, ReplaceInv, StartInv, HandleInv, BackgroundInv,
               CloseInv DEF Next

THEOREM Invariance == Spec => []IInv
  BY InitInv, StepInv, PTL DEF Spec

\* Type correctness of the window, the runner and the document.
THEOREM TypeCorrect == Spec => []TypeOK
  BY Invariance, PTL DEF IInv

\* An unmodified document is what its file holds.
THEOREM SavedTextIsOnDisk == Spec => []CleanMeansSaved
  <1>1. IInv => CleanMeansSaved
    BY DEF IInv, TypeOK, SavedOnDisk, CleanMeansSaved, Modified, Text
  <1>2. QED BY <1>1, Invariance, PTL

\* However operations end, the experiment actions are usable exactly when the
\* runner is idle, and each operation is reported once.
THEOREM OperationsAreReported == Spec => []OperationsAreAccountedFor
  BY Invariance, PTL DEF IInv, OperationsAreAccountedFor

\* What the killed process reports after the window closed reaches nobody.
THEOREM CancelIsSilent == Spec => SilentAfterCancel
  <1>1. IInv /\ [Next]_vars => [window = "closed" => completions' = completions]_vars
    <2> SUFFICES ASSUME IInv, [Next]_vars, window = "closed"
                 PROVE  completions' = completions \/ UNCHANGED vars
      OBVIOUS
    <2>1. ~active
      BY DEF IInv, ActiveHasProcess
    <2>2. QED BY <2>1 DEF Next, Edit, Save, NewDocument, OpenDocument, StartExperiment,
                          HandleProcess, RunnerEvent, DeliverFinished, DeliverStartFailure,
                          Background, ProcessStep, ProcessEnds, ProcessFailsToStart,
                          Close, runner, vars
  <1>2. QED BY <1>1, Invariance, PTL DEF Spec, SilentAfterCancel

\* A failed, crashed or unreadable run never removes or replaces the newest
\* loadable results.
THEOREM ResultsSurvive == Spec => []NewestResultsShown
  BY Invariance, PTL DEF IInv
=============================================================================
