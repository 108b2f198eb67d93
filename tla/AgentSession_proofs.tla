------------------------ MODULE AgentSession_proofs ------------------------
(***************************************************************************)
(* Theorems about AgentSession for every set of scripts, every compiler    *)
(* verdict and every repair limit.                                         *)
(***************************************************************************)
EXTENDS AgentSession, TLAPS

(***************************************************************************)
(* The inductive invariant.  The budget is not inductive by itself: it     *)
(* holds because the attempt counter and the call counter move together,   *)
(* and because the loop is only re-entered at or below the limit.          *)
(***************************************************************************)
CountsAgree ==
  /\ pc \in {"preflight", "loop"} => calls = attempts
  /\ pc = "preflight" => attempts = 0
  /\ pc \in {"loop", "provider"} => attempts <= MaxRepairs
  /\ pc = "provider" => calls = attempts + 1
  /\ pc \in {"candidate", "validating"} =>
       calls = attempts /\ attempts \in 1..(MaxRepairs + 1)
  /\ calls <= MaxRepairs + 1

CandidateKnown ==
  /\ pc \in {"candidate", "validating"} => candidate \in Scripts
  /\ pc = "preflight" => previous = NoScript
  /\ pc \in {"loop", "provider"} /\ previous # NoScript => attempts >= 1

IInv == TypeOK /\ CountsAgree /\ CandidateKnown

LEMMA InitInv == Init => IInv
  BY SessionAssumption
  DEF Init, IInv, TypeOK, CountsAgree, CandidateKnown, Purposes, Contract!NoOutcome

(***************************************************************************)
(* Results: every way of ending a call yields a member of the contract's   *)
(* outcomes.                                                               *)
(***************************************************************************)
LEMMA BareFailureIsOutcome ==
  ASSUME NEW code \in Contract!ErrorCodes
  PROVE  FailureWith(code, NoScript, 0) \in Contract!Outcomes
  BY SessionAssumption DEF FailureWith, Contract!Outcomes, Contract!Failures

LEMMA FailureIsOutcome ==
  ASSUME NEW code \in Contract!ErrorCodes, NEW s \in Scripts,
         NEW n \in 0..(MaxRepairs + 1)
  PROVE  FailureWith(code, s, n) \in Contract!Outcomes
  BY SessionAssumption DEF FailureWith, Contract!Outcomes, Contract!Failures

LEMMA ProposalIsOutcome ==
  ASSUME NEW s \in CleanScripts, NEW n \in 1..(MaxRepairs + 1)
  PROVE  [kind |-> "proposal", code |-> "none", script |-> s, attempts |-> n]
           \in Contract!Outcomes
  BY SessionAssumption DEF Contract!Outcomes, Contract!Proposals

\* The fail lambda, from any point where the count is within the budget.
LEMMA FailIsOutcome ==
  ASSUME TypeOK, NEW code \in Contract!ErrorCodes, attempts <= MaxRepairs + 1
  PROVE  FailureWith(code, previous, IF previous = NoScript THEN 0 ELSE attempts)
           \in Contract!Outcomes
  <1>1. CASE previous = NoScript
    BY <1>1, BareFailureIsOutcome
  <1>2. CASE previous # NoScript
    <2>1. previous \in Scripts /\ attempts \in 0..(MaxRepairs + 1)
      BY <1>2, SessionAssumption DEF TypeOK
    <2>2. QED BY <1>2, <2>1, FailureIsOutcome
  <1>3. QED BY <1>1, <1>2

LEMMA CodesKnown ==
  {"InvalidRequest", "ProviderFailure", "ValidationFailure", "RepairLimitReached",
   "NoProgress", "Cancelled", "Internal"} \subseteq Contract!ErrorCodes
  BY DEF Contract!ErrorCodes

(***************************************************************************)
(* Ending a call keeps the invariant, whoever ends it.                     *)
(***************************************************************************)
LEMMA ReturnInv ==
  ASSUME IInv, pc # "idle",
         NEW newState \in {"Unsupported", "Completed", "Failed", "Cancelled"},
         NEW r \in Contract!Outcomes,
         Return(newState, r),
         attempts' = attempts, candidate' = candidate, previous' = previous,
         previousViolations' = previousViolations,
         seen' = seen \/ (pc = "validating" /\ seen' = Append(seen, candidate))
  PROVE  IInv'
  <1>1. seen' \in Seq(Scripts)
    BY DEF IInv, TypeOK, CandidateKnown
  <1>2. TypeOK'
    BY <1>1 DEF IInv, TypeOK, Return
  <1>3. CountsAgree'
    BY DEF IInv, CountsAgree, Return
  <1>4. CandidateKnown'
    BY DEF IInv, CandidateKnown, Return
  <1>5. QED BY <1>2, <1>3, <1>4 DEF IInv

LEMMA JudgeInv == IInv /\ Judge => IInv'
  <1> SUFFICES ASSUME IInv, Judge PROVE IInv'
    OBVIOUS
  <1> USE SessionAssumption
  <1>1. /\ pc = "validating" /\ seen' = Append(seen, candidate)
        /\ attempts' = attempts /\ candidate' = candidate
        /\ candidate \in Scripts /\ attempts \in 1..(MaxRepairs + 1)
        /\ calls = attempts
    BY DEF Judge, IInv, CandidateKnown, CountsAgree
  <1>2. ASSUME NEW code \in {"NoProgress", "RepairLimitReached"},
               FailWithCandidate(code),
               UNCHANGED <<previous, previousViolations>>
        PROVE  IInv'
    <2>1. FailureWith(code, candidate, attempts) \in Contract!Outcomes
      BY <1>1, CodesKnown, FailureIsOutcome
    <2>2. QED BY <1>1, <1>2, <2>1, ReturnInv DEF FailWithCandidate
  <1>3. ASSUME NEW p \in {"CompilerRepair", "RequirementCorrection"},
               NEW v, v = {} \/ v = Violations[candidate],
               AskAgain(p, v), ~OverLimit
        PROVE  IInv'
    <2>1. TypeOK'
      BY <1>1, <1>3 DEF AskAgain, IInv, TypeOK, Purposes
    <2>2. CountsAgree' /\ CandidateKnown'
      BY <1>1, <1>3
      DEF AskAgain, IInv, TypeOK, CountsAgree, CandidateKnown, OverLimit
    <2>3. QED BY <2>1, <2>2 DEF IInv
  <1>4. ASSUME ~Repeated, JudgeInvalid PROVE IInv'
    BY <1>2, <1>3, <1>4 DEF JudgeInvalid
  <1>5. ASSUME ~Repeated, JudgeValid PROVE IInv'
    <2>1. CASE Violations[candidate] = {}
      <3>1. candidate \in CleanScripts
        BY <1>1, <1>5, <2>1 DEF JudgeValid, CleanScripts, ValidScripts
      <3>2. [kind |-> "proposal", code |-> "none", script |-> candidate,
             attempts |-> attempts] \in Contract!Outcomes
        BY <1>1, <3>1, ProposalIsOutcome
      <3>3. QED BY <1>1, <1>5, <2>1, <3>2, ReturnInv DEF JudgeValid
    <2>2. CASE Violations[candidate] # {}
      BY <1>2, <1>3, <1>5, <2>2 DEF JudgeValid
    <2>3. QED BY <2>1, <2>2
  <1>6. QED BY <1>2, <1>4, <1>5 DEF Judge

LEMMA StepInv == IInv /\ [Next]_vars => IInv'
  <1> SUFFICES ASSUME IInv, [Next]_vars PROVE IInv'
    OBVIOUS
  <1> USE SessionAssumption
  <1>1. CASE Call
    BY <1>1 DEF Call, IInv, TypeOK, CountsAgree, CandidateKnown, Purposes
  <1>2. CASE PromptRejected
    <2>1. PICK code \in {"InvalidRequest", "Internal"} : FailBare("Failed", code)
      BY <1>2 DEF PromptRejected
    <2>2. QED BY <1>2, <2>1, CodesKnown, BareFailureIsOutcome, ReturnInv
              DEF PromptRejected, FailBare
  <1>3. CASE Preflight
    <2>1. CASE FailBare("Cancelled", "Cancelled")
      BY <1>3, <2>1, CodesKnown, BareFailureIsOutcome, ReturnInv DEF Preflight, FailBare
    <2>2. CASE Return("Unsupported", Contract!Unsupported)
      <3>1. Contract!Unsupported \in Contract!Outcomes
        BY DEF Contract!Outcomes
      <3>2. QED BY <1>3, <2>2, <3>1, ReturnInv DEF Preflight
    <2>3. CASE pc' = "loop" /\ UNCHANGED <<state, stop, purpose, calls, result>>
      BY <1>3, <2>3 DEF Preflight, IInv, TypeOK, CountsAgree, CandidateKnown
    <2>4. QED BY <1>3, <2>1, <2>2, <2>3 DEF Preflight
  <1>4. ASSUME NEW newState \in {"Failed", "Cancelled"}, NEW code \in Contract!ErrorCodes,
               pc \in {"loop", "provider", "candidate"},
               Fail(newState, code, attempts),
               UNCHANGED <<attempts, candidate, seen, previous, previousViolations>>
        PROVE  IInv'
    <2>1. attempts <= MaxRepairs + 1
      BY <1>4 DEF IInv, TypeOK, CountsAgree
    <2>2. QED BY <1>4, <2>1, FailIsOutcome, ReturnInv DEF Fail, IInv
  <1>5. CASE AskProvider
    <2>1. CASE stop
      BY <1>4, <1>5, <2>1, CodesKnown DEF AskProvider
    <2>2. CASE ~stop
      BY <1>5, <2>2
      DEF AskProvider, CountCall, StateFor, IInv, TypeOK, CountsAgree, CandidateKnown,
          Purposes
    <2>3. QED BY <2>1, <2>2
  <1>6. ASSUME NEW fault \in ProviderFaults, ProviderFault(fault) PROVE IInv'
    BY <1>4, <1>6, CodesKnown DEF ProviderFault
  <1>7. ASSUME NEW s \in Scripts, ProviderAnswer(s) PROVE IInv'
    <2>1. CASE stop
      BY <1>4, <1>7, <2>1, CodesKnown DEF ProviderAnswer
    <2>2. CASE ~stop
      BY <1>7, <2>2
      DEF ProviderAnswer, IInv, TypeOK, CountsAgree, CandidateKnown
    <2>3. QED BY <2>1, <2>2
  <1>8. CASE BeginValidation
    <2>1. CASE stop
      BY <1>4, <1>8, <2>1, CodesKnown DEF BeginValidation
    <2>2. CASE ~stop
      BY <1>8, <2>2
      DEF BeginValidation, IInv, TypeOK, CountsAgree, CandidateKnown
    <2>3. QED BY <2>1, <2>2
  <1>9. CASE ValidationThrows
    BY <1>9, CodesKnown, BareFailureIsOutcome, ReturnInv DEF ValidationThrows, FailBare
  <1>10. CASE Judge
    BY <1>10, JudgeInv
  <1>11. CASE RequestStop
    BY <1>11 DEF RequestStop, IInv, TypeOK, CountsAgree, CandidateKnown
  <1>12. CASE UNCHANGED vars
    BY <1>12 DEF vars, IInv, TypeOK, CountsAgree, CandidateKnown
  <1>13. QED
    BY <1>1, <1>2, <1>3, <1>5, <1>6, <1>7, <1>8, <1>9, <1>10, <1>11, <1>12
    DEF Next, CallStep, ProviderReturns

THEOREM Invariance == Spec => []IInv
  BY InitInv, StepInv, PTL DEF Spec

\* Type correctness: in particular every returned result is one of the
\* outcomes the contract lists, so a success is always a compiled script.
THEOREM TypeCorrect == Spec => []TypeOK
  BY Invariance, PTL DEF IInv

\* Compiler repairs and requirement corrections share one budget of provider
\* calls, for every limit.
THEOREM BudgetIsShared == Spec => []SharedBudget
  <1>1. IInv => SharedBudget
    BY DEF IInv, CountsAgree, SharedBudget
  <1>2. QED BY <1>1, Invariance, PTL

-----------------------------------------------------------------------------
(***************************************************************************)
(* Refinement.  A step that ends a call is the contract's Return of the    *)
(* result it leaves; handing a prompt to the provider is AskModel; every   *)
(* other step of the call is invisible to the caller.                      *)
(***************************************************************************)
LEMMA EndIsReturn ==
  ASSUME IInv', pc # "idle", NEW newState, NEW r, Return(newState, r),
         r.kind # "none", r.kind = "unsupported" => calls = 0, r.attempts <= calls
  PROVE  Contract!Next
  <1>1. r \in Contract!Outcomes
    BY DEF IInv, TypeOK, Return, Contract!NoOutcome
  <1>2. Contract!Return(r)
    BY DEF Contract!Return, Return
  <1>3. QED BY <1>1, <1>2 DEF Contract!Next

LEMMA StepRefines == IInv /\ [Next]_vars => [Contract!Next]_(Contract!cvars)
  <1> SUFFICES ASSUME IInv, [Next]_vars PROVE [Contract!Next]_(Contract!cvars)
    OBVIOUS
  <1> USE SessionAssumption
  <1>0. IInv'
    BY StepInv
  <1>1. CASE Call
    BY <1>1 DEF Call, Contract!Next, Contract!Submit
  <1>2. ASSUME NEW newState, NEW code, FailBare(newState, code), pc # "idle"
        PROVE  Contract!Next
    <2>1. 0 <= calls
      BY DEF IInv, TypeOK
    <2>2. QED BY <1>0, <1>2, <2>1, EndIsReturn DEF FailBare, FailureWith
  <1>3. CASE PromptRejected
    BY <1>2, <1>3 DEF PromptRejected
  <1>4. CASE Preflight
    <2>1. CASE FailBare("Cancelled", "Cancelled")
      BY <1>2, <1>4, <2>1 DEF Preflight
    <2>2. CASE Return("Unsupported", Contract!Unsupported)
      <3>1. calls = 0
        BY <1>4 DEF Preflight, IInv, CountsAgree
      <3>2. QED BY <1>0, <1>4, <2>2, <3>1, EndIsReturn
                DEF Preflight, Contract!Unsupported
    <2>3. CASE pc' = "loop" /\ UNCHANGED <<state, stop, purpose, calls, result>>
      BY <1>4, <2>3 DEF Preflight, Contract!cvars
    <2>4. QED BY <1>4, <2>1, <2>2, <2>3 DEF Preflight
  <1>5. ASSUME NEW newState, NEW code, Fail(newState, code, attempts),
               pc \in {"loop", "provider", "candidate"}
        PROVE  Contract!Next
    <2>1. attempts <= calls /\ 0 <= calls
      BY <1>5 DEF IInv, TypeOK, CountsAgree
    <2>2. (IF previous = NoScript THEN 0 ELSE attempts) <= calls
      BY <2>1
    <2>3. QED BY <1>0, <1>5, <2>2, EndIsReturn DEF Fail, FailureWith
  <1>6. CASE AskProvider
    <2>1. CASE stop
      BY <1>5, <1>6, <2>1 DEF AskProvider
    <2>2. CASE ~stop
      <3>1. Contract!AskModel
        BY <1>6, <2>2
        DEF AskProvider, CountCall, IInv, TypeOK, CountsAgree, Contract!AskModel
      <3>2. QED BY <3>1 DEF Contract!Next
    <2>3. QED BY <2>1, <2>2
  <1>7. ASSUME NEW fault \in ProviderFaults, ProviderFault(fault) PROVE Contract!Next
    BY <1>5, <1>7 DEF ProviderFault
  <1>8. ASSUME NEW s \in Scripts, ProviderAnswer(s) PROVE [Contract!Next]_(Contract!cvars)
    BY <1>5, <1>8 DEF ProviderAnswer, Contract!cvars
  <1>9. CASE BeginValidation
    BY <1>5, <1>9 DEF BeginValidation, Contract!cvars
  <1>10. CASE ValidationThrows
    BY <1>2, <1>10 DEF ValidationThrows
  <1>11. CASE Judge
    <2>1. pc = "validating" /\ attempts <= calls
      BY <1>11 DEF Judge, IInv, TypeOK, CountsAgree
    <2>2. ASSUME NEW code, FailWithCandidate(code) PROVE Contract!Next
      BY <1>0, <2>1, <2>2, EndIsReturn DEF FailWithCandidate, FailureWith
    <2>3. ASSUME NEW p, NEW v, AskAgain(p, v) PROVE UNCHANGED Contract!cvars
      BY <2>1, <2>3 DEF AskAgain, Contract!cvars
    <2>4. CASE Violations[candidate] = {} /\ JudgeValid
      BY <1>0, <2>1, <2>4, EndIsReturn DEF JudgeValid
    <2>5. QED BY <1>11, <2>2, <2>3, <2>4 DEF Judge, JudgeInvalid, JudgeValid
  <1>12. CASE RequestStop
    BY <1>12 DEF RequestStop, Contract!Next, Contract!RequestStop
  <1>13. CASE UNCHANGED vars
    BY <1>13 DEF vars, Contract!cvars
  <1>14. QED
    BY <1>1, <1>3, <1>4, <1>6, <1>7, <1>8, <1>9, <1>10, <1>11, <1>12, <1>13
    DEF Next, CallStep, ProviderReturns

\* The session implements the authoring contract: whatever the provider
\* answers, its caller sees one outcome per request, bought with at most
\* maximum_repair_attempts + 1 provider calls, none of them after a stop.
THEOREM SessionImplementsContract == Spec => Contract!Safety
  <1>1. Init => Contract!Init
    BY DEF Init, Contract!Init
  <1>2. QED BY <1>1, StepRefines, Invariance, PTL DEF Spec, Contract!Safety

-----------------------------------------------------------------------------
(***************************************************************************)
(* What a failure shows.  previous is the last judged candidate whenever   *)
(* the loop is running, so the fail lambda and the explicit failures       *)
(* report the same thing.                                                  *)
(***************************************************************************)
PreviousIsLastSeen ==
  /\ pc = "preflight" => seen = <<>>
  /\ pc \in {"preflight", "loop", "provider", "candidate", "validating"} =>
       /\ previous = (IF seen = <<>> THEN NoScript ELSE seen[Len(seen)])
       /\ result = Contract!NoOutcome

RetainInv == IInv /\ PreviousIsLastSeen /\ FailureRetainsLastCandidate

LEMMA RetainStep == RetainInv /\ [Next]_vars => RetainInv'
  <1> SUFFICES ASSUME RetainInv, [Next]_vars PROVE RetainInv'
    OBVIOUS
  <1> USE SessionAssumption DEF PreviousIsLastSeen, FailureRetainsLastCandidate
  <1>0. IInv /\ IInv' /\ seen \in Seq(Scripts)
    BY StepInv DEF RetainInv, IInv, TypeOK
  <1>1. CASE Call
    BY <1>0, <1>1 DEF Call, RetainInv, Contract!NoOutcome
  <1>2. ASSUME NEW newState, NEW r, Return(newState, r), seen' = seen,
               \/ r.kind # "failure" \/ seen = <<>> \/ r.script = seen[Len(seen)]
               \/ r.code = "ValidationFailure" /\ r.script = NoScript
        PROVE  RetainInv'
    BY <1>0, <1>2 DEF Return, RetainInv
  <1>3. CASE PromptRejected
    BY <1>2, <1>3 DEF PromptRejected, FailBare, RetainInv
  <1>4. CASE Preflight
    <2>1. seen = <<>> /\ seen' = seen
      BY <1>4 DEF Preflight, RetainInv
    <2>2. CASE pc' = "idle"
      BY <1>2, <1>4, <2>1, <2>2 DEF Preflight, FailBare
    <2>3. CASE pc' = "loop"
      BY <1>0, <1>4, <2>1, <2>3 DEF Preflight, RetainInv, FailBare, Return
    <2>4. QED BY <1>4, <2>2, <2>3 DEF Preflight, FailBare, Return
  <1>5. ASSUME NEW newState, NEW code, Fail(newState, code, attempts), seen' = seen,
               pc \in {"loop", "provider", "candidate"}
        PROVE  RetainInv'
    <2>1. seen = <<>> \/ previous = seen[Len(seen)]
      BY <1>5 DEF RetainInv
    <2>2. FailureWith(code, previous, IF previous = NoScript THEN 0 ELSE attempts).script
            = previous
      BY DEF FailureWith
    <2>3. QED BY <1>2, <1>5, <2>1, <2>2 DEF Fail
  <1>6. CASE AskProvider
    BY <1>0, <1>5, <1>6 DEF AskProvider, RetainInv, Contract!NoOutcome
  <1>7. ASSUME NEW fault \in ProviderFaults, ProviderFault(fault) PROVE RetainInv'
    BY <1>5, <1>7 DEF ProviderFault
  <1>8. ASSUME NEW s \in Scripts, ProviderAnswer(s) PROVE RetainInv'
    BY <1>0, <1>5, <1>8 DEF ProviderAnswer, RetainInv, Contract!NoOutcome
  <1>9. CASE BeginValidation
    BY <1>0, <1>5, <1>9 DEF BeginValidation, RetainInv, Contract!NoOutcome
  <1>10. CASE ValidationThrows
    BY <1>2, <1>10 DEF ValidationThrows, FailBare, FailureWith
  <1>11. CASE Judge
    <2>1. /\ seen' = Append(seen, candidate) /\ candidate \in Scripts
          /\ seen' # <<>> /\ seen'[Len(seen')] = candidate
      BY <1>0, <1>11 DEF Judge, IInv, CandidateKnown
    <2>2. ASSUME NEW code, FailWithCandidate(code) PROVE RetainInv'
      BY <1>0, <2>1, <2>2 DEF FailWithCandidate, FailureWith, Return, RetainInv
    <2>3. ASSUME NEW p, NEW v, AskAgain(p, v) PROVE RetainInv'
      BY <1>0, <1>11, <2>1, <2>3 DEF AskAgain, Judge, RetainInv, Contract!NoOutcome
    <2>4. CASE Violations[candidate] = {} /\ JudgeValid
      BY <1>0, <2>1, <2>4 DEF JudgeValid, Return, RetainInv
    <2>5. QED BY <1>11, <2>2, <2>3, <2>4 DEF Judge, JudgeInvalid, JudgeValid
  <1>12. CASE RequestStop
    BY <1>0, <1>12 DEF RequestStop, RetainInv
  <1>13. CASE UNCHANGED vars
    BY <1>0, <1>13 DEF vars, RetainInv
  <1>14. QED
    BY <1>1, <1>3, <1>4, <1>6, <1>7, <1>8, <1>9, <1>10, <1>11, <1>12, <1>13
    DEF Next, CallStep, ProviderReturns

\* A failure carries the newest candidate the compiler has judged, unless the
\* compiler itself threw; cancellation and provider errors lose nothing.
THEOREM FailureRetains == Spec => []FailureRetainsLastCandidate
  <1>1. Init => RetainInv
    BY InitInv
    DEF Init, RetainInv, PreviousIsLastSeen, FailureRetainsLastCandidate, Contract!NoOutcome
  <1>2. RetainInv => FailureRetainsLastCandidate
    BY DEF RetainInv
  <1>3. QED BY <1>1, <1>2, RetainStep, PTL DEF Spec

-----------------------------------------------------------------------------
\* Once the token is triggered no further prompt leaves the program, whatever
\* is being waited for at that moment (agent.cpp:204-262).
THEOREM StopIsFinal == Spec => NoCallAfterStop
  <1>1. ASSUME IInv, [Next]_vars PROVE stop /\ stop' => calls' = calls \/ pc = "idle"
    BY <1>1
    DEF Next, CallStep, Call, PromptRejected, Preflight, AskProvider, ProviderReturns,
        ProviderFault, ProviderAnswer, BeginValidation, ValidationThrows, Judge,
        JudgeInvalid, JudgeValid, AskAgain, FailBare, Fail, FailWithCandidate, Return,
        RequestStop, vars
  <1>2. QED BY <1>1, Invariance, PTL DEF Spec, NoCallAfterStop

(***************************************************************************)
(* The correction prompts.  A verdict on the previous candidate is kept    *)
(* from the moment the prompt about it is chosen until the next answer has *)
(* been judged against it.                                                 *)
(***************************************************************************)
VerdictKept ==
  /\ pc = "preflight" => purpose = "Generation"
  /\ pc \in {"loop", "provider", "candidate", "validating"} =>
       (previous # NoScript /\ Valid(previous) => previousViolations = Violations[previous])

ProgressInv == RetainInv /\ VerdictKept /\ PromptMatchesVerdict /\ ProgressBetweenCalls

\* A step that judges nothing and asks for nothing new.
LEMMA QuietKeepsProgress ==
  ASSUME ProgressInv, RetainInv', UNCHANGED <<purpose, seen, previous, previousViolations>>,
         \/ pc' = "idle"
         \/ pc' = pc
         \/ pc' = "loop" /\ pc = "preflight"
         \/ pc' = "provider" /\ pc = "loop"
         \/ pc' \in {"candidate", "validating"} /\ pc \in {"provider", "candidate"}
  PROVE  ProgressInv'
  <1>0. pc = "preflight" => seen = <<>> /\ previous = NoScript
    BY DEF ProgressInv, RetainInv, PreviousIsLastSeen
  <1>1. VerdictKept'
    BY <1>0 DEF ProgressInv, VerdictKept, Valid
  <1>2. PromptMatchesVerdict'
    BY <1>0 DEF ProgressInv, VerdictKept, PromptMatchesVerdict, Valid
  <1>3. ProgressBetweenCalls'
    <2>1. CASE pc = "preflight"
      BY <1>0, <2>1 DEF ProgressBetweenCalls
    <2>2. CASE pc' = "idle"
      BY <2>2 DEF ProgressBetweenCalls
    <2>3. CASE pc # "preflight" /\ pc' # "idle"
      BY <2>3 DEF ProgressInv, ProgressBetweenCalls, Valid
    <2>4. QED BY <2>1, <2>2, <2>3
  <1>4. QED BY <1>1, <1>2, <1>3 DEF ProgressInv

\* A judged candidate that is sent back is new, and differs from its
\* predecessor in the way it failed.
LEMMA AskAgainKeepsProgress ==
  ASSUME ProgressInv, Judge, pc' = "loop"
  PROVE  ProgressBetweenCalls' /\ VerdictKept' /\ PromptMatchesVerdict'
  <1>1. /\ pc = "validating" /\ ~Repeated /\ (JudgeInvalid \/ JudgeValid)
        /\ seen' = Append(seen, candidate) /\ candidate \in Scripts
        /\ seen \in Seq(Scripts)
    BY DEF Judge, FailWithCandidate, Return, ProgressInv, RetainInv, IInv, CandidateKnown,
           TypeOK
  <1>2. previous = IF seen = <<>> THEN NoScript ELSE seen[Len(seen)]
    BY <1>1 DEF ProgressInv, RetainInv, PreviousIsLastSeen
  <1>3. \/ /\ ~Valid(candidate) /\ ~SameDiagnostics /\ AskAgain("CompilerRepair", {})
        \/ /\ Valid(candidate) /\ Violations[candidate] # {} /\ ~SameViolations
           /\ AskAgain("RequirementCorrection", Violations[candidate])
    BY <1>1 DEF JudgeInvalid, JudgeValid, FailWithCandidate, Return
  <1>4. candidate # NoScript /\ previous' = candidate
    BY <1>1, <1>3, SessionAssumption DEF AskAgain
  <1>5. VerdictKept' /\ PromptMatchesVerdict'
    BY <1>3, <1>4 DEF AskAgain, VerdictKept, PromptMatchesVerdict, Valid
  <1>6. ASSUME seen # <<>>
        PROVE  \/ Diagnostics[previous] # Diagnostics[candidate]
               \/ Valid(previous) /\ Violations[previous] # Violations[candidate]
    <2>1. previous \in Scripts /\ previous # NoScript
      BY <1>1, <1>2, <1>6, SessionAssumption
    <2>2. Valid(previous) => previousViolations = Violations[previous]
      BY <1>1, <2>1 DEF ProgressInv, VerdictKept
    <2>3. QED BY <1>3, <2>1, <2>2 DEF SameDiagnostics, SameViolations, Valid
  <1>7. ASSUME NEW i \in DOMAIN seen', NEW j \in DOMAIN seen', i # j
        PROVE  seen'[i] # seen'[j]
    <2>1. \A k \in DOMAIN seen : seen[k] # candidate
      BY <1>1 DEF Repeated
    <2>2. \A k, l \in DOMAIN seen : k # l => seen[k] # seen[l]
      BY <1>1 DEF ProgressInv, ProgressBetweenCalls
    <2>3. QED BY <1>1, <1>7, <2>1, <2>2
  <1>8. ASSUME NEW i \in 1..(Len(seen') - 1)
        PROVE  \/ Diagnostics[seen'[i]] # Diagnostics[seen'[i + 1]]
               \/ Valid(seen'[i]) /\ Violations[seen'[i]] # Violations[seen'[i + 1]]
    <2>1. CASE i = Len(seen)
      <3>1. seen # <<>> /\ seen'[i] = previous /\ seen'[i + 1] = candidate
        BY <1>1, <1>2, <1>8, <2>1
      <3>2. QED BY <1>6, <3>1
    <2>2. CASE i # Len(seen)
      <3>1. i \in 1..(Len(seen) - 1) /\ seen'[i] = seen[i] /\ seen'[i + 1] = seen[i + 1]
        BY <1>1, <1>8, <2>2
      <3>2. QED BY <1>1, <3>1 DEF ProgressInv, ProgressBetweenCalls
    <2>3. QED BY <2>1, <2>2
  <1>9. ProgressBetweenCalls'
    BY <1>7, <1>8 DEF ProgressBetweenCalls, Valid
  <1>10. QED BY <1>5, <1>9

LEMMA ProgressStep == ProgressInv /\ [Next]_vars => ProgressInv'
  <1> SUFFICES ASSUME ProgressInv, [Next]_vars PROVE ProgressInv'
    OBVIOUS
  <1>0. RetainInv /\ RetainInv'
    BY RetainStep DEF ProgressInv
  <1>1. CASE Call
    BY <1>0, <1>1 DEF Call, ProgressInv, VerdictKept, PromptMatchesVerdict,
                      ProgressBetweenCalls
  <1>2. CASE PromptRejected \/ Preflight \/ AskProvider \/ ProviderReturns \/ BeginValidation
             \/ ValidationThrows \/ RequestStop
    BY <1>0, <1>2, QuietKeepsProgress
    DEF PromptRejected, Preflight, AskProvider, ProviderReturns, ProviderFault,
        ProviderAnswer, BeginValidation, ValidationThrows, RequestStop, FailBare, Fail,
        Return
  <1>3. CASE Judge /\ pc' = "loop"
    BY <1>0, <1>3, AskAgainKeepsProgress DEF ProgressInv
  <1>4. CASE Judge /\ pc' # "loop"
    <2>1. pc' = "idle"
      BY <1>4 DEF Judge, JudgeInvalid, JudgeValid, AskAgain, FailWithCandidate, Return
    <2>2. QED
      BY <1>0, <2>1 DEF ProgressInv, VerdictKept, PromptMatchesVerdict,
                        ProgressBetweenCalls
  <1>5. CASE UNCHANGED vars
    BY <1>0, <1>5, QuietKeepsProgress DEF vars
  <1>6. QED BY <1>1, <1>2, <1>3, <1>4, <1>5 DEF Next, CallStep

LEMMA ProgressHolds == Spec => []ProgressInv
  <1>1. Init => RetainInv
    BY InitInv
    DEF Init, RetainInv, PreviousIsLastSeen, FailureRetainsLastCandidate, Contract!NoOutcome
  <1>2. Init => ProgressInv
    BY <1>1 DEF Init, ProgressInv, VerdictKept, PromptMatchesVerdict, ProgressBetweenCalls
  <1>3. QED BY <1>2, ProgressStep, PTL DEF Spec

\* However compiler errors and requirement violations alternate, a request that
\* is still asking has never judged a script twice nor received two answers in
\* a row that fail alike, for every repair limit (agent.cpp:286-307, 335-343).
THEOREM AskingIsProgress == Spec => []ProgressBetweenCalls
  <1>1. ProgressInv => ProgressBetweenCalls
    BY DEF ProgressInv
  <1>2. QED BY <1>1, ProgressHolds, PTL

\* The prompt builder never receives a verdict of the wrong kind: a repair is
\* asked of a rejected script, a correction of a valid one with the very
\* violations it has (agent.cpp:309-354, prompt.cpp:655, 710).
THEOREM PromptsFitVerdicts == Spec => []PromptMatchesVerdict
  <1>1. ProgressInv => PromptMatchesVerdict
    BY DEF ProgressInv
  <1>2. QED BY <1>1, ProgressHolds, PTL
=============================================================================
