---------------------------- MODULE AgentSession ----------------------------
(***************************************************************************)
(* The synchronous authoring loop of src/ai/agent.cpp.  A session object   *)
(* is called again and again; each call builds a prompt, asks the          *)
(* provider, validates the answer with the compiler, verifies the          *)
(* requirements of the instruction, and either returns or asks again.      *)
(* Another thread may trigger the call's stop token between any two steps; *)
(* the steps are cut at the places where the code reads the token.         *)
(***************************************************************************)
EXTENDS Naturals, Sequences

CONSTANTS
  Scripts,      \* non-blank candidate scripts the provider can return
  NoScript,     \* the empty optional<Candidate>
  Diagnostics,  \* [Scripts -> set of compiler diagnostics]; {} is a valid script
  Violations,   \* [Scripts -> set of high-confidence requirement violations]
  MaxRepairs    \* AgentSettings::maximum_repair_attempts

ASSUME SessionAssumption ==
  /\ NoScript \notin Scripts
  /\ DOMAIN Diagnostics = Scripts
  /\ DOMAIN Violations = Scripts
  /\ MaxRepairs \in Nat

VARIABLES
  pc,         \* where the call is, between two readings of the stop token
  state,      \* state_: the AgentState another thread observes
  stop,       \* cancellation.stop_requested()
  purpose,    \* request.purpose of the prompt about to be sent
  calls,      \* provider calls of this request, saturating one above the
              \* budget (a history variable: the code does not keep it)
  attempts,   \* attempt_count
  candidate,  \* candidate: the answer being judged
  seen,       \* seen_candidates: every judged answer, in order
  previous,   \* previous (and with it previous_validation)
  previousViolations, \* previous_requirement_verification, {} when reset
  result      \* the AgentResult of the last finished call

vars == <<pc, state, stop, purpose, calls, attempts, candidate, seen, previous,
          previousViolations, result>>

Valid(s) == Diagnostics[s] = {}
ValidScripts == {s \in Scripts : Valid(s)}
CleanScripts == {s \in ValidScripts : Violations[s] = {}}

Contract == INSTANCE AuthoringContract WITH
  Budget  <- MaxRepairs + 1,
  phase   <- IF pc = "idle" THEN "idle" ELSE "working",
  spent   <- calls,
  outcome <- result

-----------------------------------------------------------------------------
Purposes == {"Generation", "CompilerRepair", "RequirementCorrection"}

\* The state shown while a prompt of each purpose is with the provider.
StateFor == [Generation |-> "Generating",
             CompilerRepair |-> "Repairing",
             RequirementCorrection |-> "CorrectingRequirements"]

\* What provider_.generate can do: throw, report an error, answer with text
\* that is no proposal or a proposal with a blank script, or answer a script.
ProviderFaults == {"throws", "error", "cancelled", "unusable", "blank"}

TypeOK ==
  /\ pc \in {"idle", "preflight", "loop", "provider", "candidate", "validating"}
  /\ state \in {"Idle", "Generating", "Validating", "Repairing",
                "CorrectingRequirements", "Unsupported", "Completed", "Failed",
                "Cancelled"}
  /\ stop \in BOOLEAN
  /\ purpose \in Purposes
  /\ calls \in Nat
  /\ attempts \in Nat
  /\ candidate \in Scripts \cup {NoScript}
  /\ seen \in Seq(Scripts)
  /\ previous \in Scripts \cup {NoScript}
  /\ previousViolations \in {{}} \cup {Violations[s] : s \in Scripts}
  /\ result \in {Contract!NoOutcome} \cup Contract!Outcomes

-----------------------------------------------------------------------------
(* Ways a call ends.  Locals of run() die with the call; the model keeps   *)
(* their last values until the next call resets them.                      *)

Return(newState, r) ==
  /\ pc' = "idle"
  /\ state' = newState
  /\ result' = r
  /\ UNCHANGED <<stop, purpose, calls>>

FailureWith(code, script, count) ==
  [kind |-> "failure", code |-> code, script |-> script, attempts |-> count]

\* failure_without_proposal
FailBare(newState, code) == Return(newState, FailureWith(code, NoScript, 0))

FailDroppingCandidate(newState, code, count) ==  \* mutant
  FailBare(newState, code)

\* The fail lambda: the previous candidate, if any, with the current count.
\* (count is passed because one caller has already incremented it.)
Fail(newState, code, count) ==
  Return(newState, FailureWith(code, previous, IF previous = NoScript THEN 0 ELSE count))

\* failure_with_proposal on the candidate just judged.
FailWithCandidate(code) ==
  Return("Failed", FailureWith(code, candidate, attempts))

-----------------------------------------------------------------------------
Init ==
  /\ pc = "idle" /\ state = "Idle"
  /\ stop \in BOOLEAN
  /\ purpose = "Generation"
  /\ calls = 0 /\ attempts = 0
  /\ candidate = NoScript /\ seen = <<>> /\ previous = NoScript
  /\ previousViolations = {}
  /\ result = Contract!NoOutcome

\* generate() or modify() is entered with a token that may already be
\* triggered.
Call ==
  /\ pc = "idle"
  /\ pc' = "preflight"
  /\ stop' \in BOOLEAN
  /\ purpose' = "Generation"
  /\ calls' = 0 /\ attempts' = 0
  /\ candidate' = NoScript /\ seen' = <<>> /\ previous' = NoScript
  /\ previousViolations' = {}
  /\ result' = Contract!NoOutcome
  /\ UNCHANGED state

\* The prompt builder rejects the request (InvalidRequest) or the retrieval
\* corpus it reads is inconsistent (Internal).
PromptRejected ==
  /\ pc = "preflight"
  /\ \E code \in {"InvalidRequest", "Internal"} : FailBare("Failed", code)
  /\ UNCHANGED <<attempts, candidate, seen, previous, previousViolations>>

\* The prompt is built; the token is read, then the instruction is assessed.
Preflight ==
  /\ pc = "preflight"
  /\ \/ stop /\ FailBare("Cancelled", "Cancelled")
     \/ ~stop /\ Return("Unsupported", Contract!Unsupported)
     \/ /\ ~stop
        /\ pc' = "loop"
        /\ UNCHANGED <<state, stop, purpose, calls, result>>
  /\ UNCHANGED <<attempts, candidate, seen, previous, previousViolations>>

CountCall == IF calls <= MaxRepairs + 1 THEN calls + 1 ELSE calls

AskProviderIgnoringStop ==                       \* mutant: no check at the head
  /\ pc = "loop"
  /\ pc' = "provider"
  /\ state' = StateFor[purpose]
  /\ calls' = CountCall
  /\ UNCHANGED <<stop, purpose, result, attempts, candidate, seen, previous,
                 previousViolations>>

\* Head of the loop: the token is read and the request handed to the provider.
AskProvider ==
  /\ pc = "loop"
  /\ IF stop
     THEN Fail("Cancelled", "Cancelled", attempts)
     ELSE /\ pc' = "provider"
          /\ state' = StateFor[purpose]
          /\ calls' = CountCall
          /\ UNCHANGED <<stop, purpose, result>>
  /\ UNCHANGED <<attempts, candidate, seen, previous, previousViolations>>

ProviderFaultRetried(fault) ==                   \* mutant: an uncounted retry
  /\ pc = "provider"
  /\ pc' = "loop"
  /\ UNCHANGED <<state, stop, purpose, calls, result, attempts, candidate, seen,
                 previous, previousViolations>>

\* The provider call ends without a usable script.
ProviderFault(fault) ==
  /\ pc = "provider"
  /\ IF fault # "throws" /\ (stop \/ fault = "cancelled")
     THEN Fail("Cancelled", "Cancelled", attempts)
     ELSE Fail("Failed", "ProviderFailure", attempts)
  /\ UNCHANGED <<attempts, candidate, seen, previous, previousViolations>>

\* The provider answers script s: the token is read before it is parsed.
ProviderAnswer(s) ==
  /\ pc = "provider"
  /\ IF stop
     THEN /\ Fail("Cancelled", "Cancelled", attempts)
          /\ UNCHANGED <<attempts, candidate>>
     ELSE /\ pc' = "candidate"
          /\ candidate' = s
          /\ attempts' = attempts + 1
          /\ UNCHANGED <<state, stop, purpose, calls, result>>
  /\ UNCHANGED <<seen, previous, previousViolations>>

\* The token is read once more before the compiler runs.
BeginValidation ==
  /\ pc = "candidate"
  /\ IF stop
     THEN Fail("Cancelled", "Cancelled", attempts)
     ELSE /\ pc' = "validating"
          /\ state' = "Validating"
          /\ UNCHANGED <<stop, purpose, calls, result>>
  /\ UNCHANGED <<attempts, candidate, seen, previous, previousViolations>>

\* The compiler throws: the previous candidate is not reported.
ValidationThrows ==
  /\ pc = "validating"
  /\ FailBare("Failed", "ValidationFailure")
  /\ UNCHANGED <<attempts, candidate, seen, previous, previousViolations>>

-----------------------------------------------------------------------------
(* The verdict on a candidate.                                             *)

RepeatedInARow == candidate = previous           \* mutant: only the last one

Repeated == \E i \in DOMAIN seen : seen[i] = candidate

SameDiagnostics ==
  /\ previous # NoScript /\ ~Valid(previous)
  /\ Diagnostics[candidate] = Diagnostics[previous]

SameViolations ==
  previousViolations # {} /\ Violations[candidate] = previousViolations

OverLimitByOne == attempts > MaxRepairs + 1      \* mutant

OverLimit == attempts > MaxRepairs

AskAgainAboutFirst(newPurpose, violations) ==    \* mutant: keeps the old candidate
  /\ pc' = "loop"
  /\ purpose' = newPurpose
  /\ previous' = IF previous = NoScript THEN candidate ELSE previous
  /\ previousViolations' = violations
  /\ UNCHANGED <<state, stop, calls, result>>

\* continue: remember the candidate and send it back for correction.
AskAgain(newPurpose, violations) ==
  /\ pc' = "loop"
  /\ purpose' = newPurpose
  /\ previous' = candidate
  /\ previousViolations' = violations
  /\ UNCHANGED <<state, stop, calls, result>>

JudgeInvalid ==
  /\ ~Valid(candidate)
  /\ IF SameDiagnostics
     THEN FailWithCandidate("NoProgress") /\ UNCHANGED <<previous, previousViolations>>
     ELSE IF OverLimit
     THEN FailWithCandidate("RepairLimitReached")
          /\ UNCHANGED <<previous, previousViolations>>
     ELSE AskAgain("CompilerRepair", {})

JudgeValidUnverified ==                          \* mutant: compiling is enough
  /\ Valid(candidate)
  /\ Return("Completed", [kind |-> "proposal", code |-> "none",
                          script |-> candidate, attempts |-> attempts])
  /\ UNCHANGED <<previous, previousViolations>>

JudgeValid ==
  /\ Valid(candidate)
  /\ IF Violations[candidate] = {}
     THEN /\ Return("Completed", [kind |-> "proposal", code |-> "none",
                                  script |-> candidate, attempts |-> attempts])
          /\ UNCHANGED <<previous, previousViolations>>
     ELSE IF SameViolations
     THEN FailWithCandidate("NoProgress") /\ UNCHANGED <<previous, previousViolations>>
     ELSE IF OverLimit
     THEN FailWithCandidate("RepairLimitReached")
          /\ UNCHANGED <<previous, previousViolations>>
     ELSE AskAgain("RequirementCorrection", Violations[candidate])

Judge ==
  /\ pc = "validating"
  /\ seen' = Append(seen, candidate)
  /\ IF Repeated
     THEN FailWithCandidate("NoProgress") /\ UNCHANGED <<previous, previousViolations>>
     ELSE JudgeInvalid \/ JudgeValid
  /\ UNCHANGED <<attempts, candidate>>

-----------------------------------------------------------------------------
\* The owner of the token triggers it, from another thread.
RequestStop ==
  /\ pc # "idle" /\ ~stop
  /\ stop' = TRUE
  /\ UNCHANGED <<pc, state, purpose, calls, attempts, candidate, seen, previous,
                 previousViolations, result>>

ProviderReturns == \/ \E fault \in ProviderFaults : ProviderFault(fault)
                   \/ \E s \in Scripts : ProviderAnswer(s)

\* Steps of the thread that runs the call, the provider included.
CallStep ==
  \/ PromptRejected
  \/ Preflight
  \/ AskProvider
  \/ ProviderReturns
  \/ BeginValidation
  \/ ValidationThrows
  \/ Judge

Next == Call \/ CallStep \/ RequestStop

\* The calling thread keeps running and the provider contract bounds every
\* call by the request timeout, so the thread never stays in one place.
Fairness == WF_vars(CallStep)

Spec == Init /\ [][Next]_vars
FairSpec == Spec /\ Fairness

-----------------------------------------------------------------------------
(* Safety.                                                                 *)

\* Repairs and requirement corrections share one budget: however compiler
\* errors and requirement violations alternate, a request makes at most one
\* call more than maximum_repair_attempts (agent.cpp:309, 345).
SharedBudget == calls <= MaxRepairs + 1

\* A failure shows the reviewer the newest candidate the compiler has seen,
\* and a candidate is lost only when the compiler itself throws
\* (agent.cpp:194-200, 276): "Retain the last candidate and its diagnostics".
FailureRetainsLastCandidate ==
  result.kind = "failure" /\ seen # <<>> =>
    \/ result.script = seen[Len(seen)]
    \/ result.code = "ValidationFailure" /\ result.script = NoScript

\* While a request keeps asking, it is making progress: no script was judged
\* twice, and no two consecutive answers failed in the same way
\* (agent.cpp:286-307, 335-343).
ProgressBetweenCalls ==
  pc \in {"loop", "provider", "candidate", "validating"} =>
    /\ \A i, j \in DOMAIN seen : i # j => seen[i] # seen[j]
    /\ \A i \in 1..(Len(seen) - 1) :
         \/ Diagnostics[seen[i]] # Diagnostics[seen[i + 1]]
         \/ Valid(seen[i]) /\ Violations[seen[i]] # Violations[seen[i + 1]]

\* What the provider is asked to correct is what the last verdict was: a
\* repair prompt is only built from a rejected candidate and a correction
\* prompt only from a valid one with violations, or the prompt builder throws
\* and the whole request turns into an internal error (prompt.cpp:655, 710).
PromptMatchesVerdict ==
  pc \in {"loop", "provider"} =>
    /\ purpose = "Generation" => seen = <<>> /\ previous = NoScript
    /\ purpose = "CompilerRepair" => previous # NoScript /\ ~Valid(previous)
    /\ purpose = "RequirementCorrection" =>
         /\ previous # NoScript /\ Valid(previous)
         /\ previousViolations = Violations[previous] /\ previousViolations # {}

\* Once the token is triggered the model is never asked again for this call.
NoCallAfterStop == [][stop /\ stop' => calls' = calls \/ pc = "idle"]_vars

\* Every call returns, however the provider answers and however compiler and
\* requirement failures alternate.
CallReturns == pc # "idle" ~> pc = "idle"

\* The session implements the contract the rest of the program relies on.
ImplementsContract == Contract!Spec

-----------------------------------------------------------------------------
\* docs/ai-assisted-authoring-architecture.md:198: a failure carries the last
\* validated-invalid proposal "so source and diagnostics remain reviewable
\* without becoming applicable".  The code also attaches valid candidates.
FailedCandidateNotApplicable ==
  result.kind = "failure" => ~Contract!EligibleToApply(result)
=============================================================================
