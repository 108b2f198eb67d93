------------------------ MODULE OllamaProvider_proofs ------------------------
(***************************************************************************)
(* Theorems about OllamaProvider for every timeout, every number of        *)
(* addresses and pieces, and every set of models and digests.              *)
(***************************************************************************)
EXTENDS OllamaProvider, TLAPS

(***************************************************************************)
(* The inductive invariant.  A slice is never longer than one unit of      *)
(* time, and after a stop request only the slice already begun is waited   *)
(* out: overdue time needs a stop request, and none is left to pass once a *)
(* unit of it has.                                                         *)
(***************************************************************************)
Deadlines ==
  /\ waiting => pc \in Waits /\ elapsed <= wake /\ wake <= elapsed + 1
  /\ waiting /\ elapsed < wake => overdue = 0
  /\ overdue <= 1
  /\ overdue = 1 => stop
  /\ pc = "connecting" => addresses > 0

\* What the transport reports has its cause, and is what was received.
Caused ==
  /\ http.kind = "response" =>
       /\ pc = "interpret" /\ reply # NoReply /\ http.reply = reply
       /\ http.whole => received = Pieces(reply)
  /\ reply # NoReply => reply.body \in Bodies
  /\ http = Failure("Cancelled") => stop
  /\ http = Failure("Timeout") => elapsed >= Timeout
  /\ pc # "idle" => outcome = NoOutcome

IInv == TypeOK /\ Deadlines /\ Caused /\ AnswersAreWhole

-----------------------------------------------------------------------------
LEMMA InitInv == Init => IInv
  <1> SUFFICES ASSUME Init PROVE IInv
    OBVIOUS
  <1> USE TransportAssumption, ProviderAssumption DEF Init
  <1>1. TypeOK
    <2>1. digests \in DigestMaps
      BY DEF NoDigests, DigestMaps
    <2>2. /\ pc \in {"idle", "check", "lookup", "address", "interpret"} \cup Waits
          /\ stop \in BOOLEAN /\ waiting \in BOOLEAN
      OBVIOUS
    <2>3. /\ elapsed \in 0..(Timeout + 2) /\ overdue \in 0..2 /\ wake \in 0..Timeout
          /\ addresses \in 0..MaxAddresses /\ sent \in 0..RequestPieces
          /\ received \in Nat
      BY DEF TransportAssumption
    <2>4. QED BY <2>1, <2>2, <2>3 DEF TypeOK
  <1>2. Deadlines
    BY DEF Deadlines
  <1>3. Caused
    BY DEF Caused, NoResult, Failure
  <1>4. AnswersAreWhole
    BY DEF AnswersAreWhole, NoOutcome
  <1>5. QED BY <1>1, <1>2, <1>3, <1>4 DEF IInv

\* The kinds of results do not overlap.
LEMMA HttpKinds ==
  ASSUME TypeOK
  PROVE  /\ http.kind = "none" => http = NoResult
         /\ http.kind = "error" => \E c \in TransportErrors : http = Failure(c)
         /\ http.kind = "response" =>
              http \in [kind : {"response"}, whole : BOOLEAN, reply : Replies]
         /\ http.kind \in {"none", "error", "response"}
  BY DEF TypeOK, NoResult, Failure

(***************************************************************************)
(* Steps of the exchange: only waiting, the wire and the transport's       *)
(* result change.                                                          *)
(***************************************************************************)
LEMMA FailKeepsInv ==
  ASSUME IInv, NEW code \in TransportErrors, Fail(code), pc \notin {"idle", "interpret"},
         code = "Cancelled" => stop,
         code = "Timeout" => elapsed >= Timeout,
         UNCHANGED <<stop, clocks, addresses, sent, reply, request, digests, outcome>>,
         received' \in Nat
  PROVE  IInv'
  <1> USE DEF Fail, clocks
  <1>1. http' = Failure(code) /\ http'.kind = "error"
    BY DEF Failure
  <1>2. TypeOK'
    BY <1>1 DEF IInv, TypeOK
  <1>3. Deadlines'
    BY DEF IInv, Deadlines
  <1>4. Caused'
    BY <1>1 DEF IInv, Caused, Failure, Bodies
  <1>5. AnswersAreWhole'
    BY <1>4 DEF IInv, Caused, AnswersAreWhole, NoOutcome
  <1>6. QED BY <1>2, <1>3, <1>4, <1>5 DEF IInv

\* A step that leaves the transport's result and the clocks alone.
LEMMA MoveKeepsInv ==
  ASSUME IInv, pc \notin {"idle", "interpret"},
         pc' \in {"lookup", "address"} \cup Waits,
         waiting' = FALSE, addresses' \in 0..MaxAddresses, sent' \in 0..RequestPieces,
         received' \in Nat, pc' = "connecting" => addresses' > 0,
         UNCHANGED <<stop, clocks, reply, http, request, digests, outcome>>
  PROVE  IInv'
  <1> USE DEF clocks
  <1>1. TypeOK'
    BY DEF IInv, TypeOK, Waits
  <1>2. Deadlines'
    BY DEF IInv, Deadlines
  <1>3. Caused'
    BY DEF IInv, Caused, Bodies, Waits
  <1>4. AnswersAreWhole'
    BY <1>3 DEF IInv, Caused, AnswersAreWhole, NoOutcome, Waits
  <1>5. QED BY <1>1, <1>2, <1>3, <1>4 DEF IInv

(***************************************************************************)
(* The steps of the exchange, one by one.                                  *)
(***************************************************************************)
LEMMA ExchangeKeepsInv ==
  ASSUME IInv, Exchange, UNCHANGED local
  PROVE  IInv'
  <1> USE TransportAssumption DEF TransportAssumption, wire, clocks, local
  <1>a. /\ elapsed \in Nat /\ wake \in Nat /\ Timeout \in Nat /\ RequestPieces \in Nat
        /\ addresses \in 0..MaxAddresses /\ sent \in 0..RequestPieces /\ received \in Nat
        /\ waiting => pc \in Waits
    BY DEF IInv, TypeOK, Deadlines
  <1>b. "Cancelled" \in TransportErrors /\ "Timeout" \in TransportErrors
        /\ "ConnectionFailure" \in TransportErrors /\ "InvalidResponse" \in TransportErrors
    BY DEF TransportErrors
  <1>1. CASE BeginWait
    <2>1. CASE stop
      BY <1>1, <1>a, <1>b, <2>1, FailKeepsInv DEF BeginWait, Waits
    <2>2. CASE ~stop /\ elapsed >= Timeout
      BY <1>1, <1>a, <1>b, <2>2, FailKeepsInv DEF BeginWait, Waits
    <2>3. CASE ~stop /\ ~(elapsed >= Timeout)
      <3>1. /\ pc \in Waits /\ waiting' = TRUE /\ elapsed < Timeout
            /\ wake' = elapsed + 1
            /\ UNCHANGED <<pc, http, elapsed, overdue, stop, wire>>
        BY <1>1, <1>a, <2>3 DEF BeginWait, Lesser
      <3>2. TypeOK'
        BY <3>1 DEF IInv, TypeOK
      <3>3. Deadlines'
        BY <3>1, <2>3, <1>a DEF IInv, Deadlines, TypeOK
      <3>4. Caused' /\ AnswersAreWhole'
        BY <3>1 DEF IInv, Caused, AnswersAreWhole, Bodies
      <3>5. QED BY <3>2, <3>3, <3>4 DEF IInv
    <2>4. QED BY <2>1, <2>2, <2>3
  <1>2. CASE Again
    BY <1>2, <1>a, MoveKeepsInv DEF Again, Waits, IInv, Deadlines
  <1>3. CASE Broken
    BY <1>3, <1>a, <1>b, FailKeepsInv DEF Broken, Waits
  <1>4. CASE GiveUp
    BY <1>4, <1>a, <1>b, FailKeepsInv DEF GiveUp
  <1>5. CASE TryAddress
    <2>1. waiting = FALSE
      BY <1>5, <1>a DEF TryAddress, Waits, IInv, TypeOK
    <2>2. addresses' \in 0..MaxAddresses
      BY <1>5, <1>a DEF TryAddress, NextAddress
    <2>3. pc' = "connecting" => addresses' > 0
      BY <1>5, <1>a DEF TryAddress, NextAddress
    <2>4. QED BY <1>5, <1>a, <2>1, <2>2, <2>3, MoveKeepsInv DEF TryAddress, NextAddress, Waits
  <1>6. CASE Connected
    <2>1. addresses > 0
      BY <1>6 DEF Connected, IInv, Deadlines
    <2>2. addresses' \in 0..MaxAddresses
      BY <1>6, <1>a, <2>1 DEF Connected, NextAddress
    <2>3. QED BY <1>6, <1>a, <2>2, MoveKeepsInv DEF Connected, NextAddress, Waits
  <1>7. CASE Send
    <2>1. sent' \in 0..RequestPieces
      BY <1>7, <1>a DEF Send
    <2>2. QED BY <1>7, <1>a, <2>1, MoveKeepsInv DEF Send, Waits
  <1>8. CASE Receive
    <2>1. received' \in Nat
      BY <1>8, <1>a DEF Receive
    <2>2. CASE received' > MaxReply
      BY <1>8, <1>a, <1>b, <2>1, <2>2, FailKeepsInv DEF Receive, Waits
    <2>3. CASE ~(received' > MaxReply)
      BY <1>8, <1>a, <2>1, <2>3, MoveKeepsInv DEF Receive, Waits
    <2>4. QED BY <2>2, <2>3
  <1>9. CASE EndOfReply
    <2>1. CASE http' = Failure("InvalidResponse")
      <3>1. Fail("InvalidResponse")
        BY <1>9, <2>1 DEF EndOfReply, Fail
      <3>2. QED BY <1>9, <1>a, <1>b, <3>1, FailKeepsInv DEF EndOfReply, Waits
    <2>2. CASE http' # Failure("InvalidResponse")
      <3>1. /\ reply # NoReply
            /\ http' = [kind |-> "response", whole |-> received = Pieces(reply),
                        reply |-> reply]
        BY <1>9, <2>2 DEF EndOfReply, Response
      <3>2. /\ reply \in Replies
            /\ http' \in [kind : {"response"}, whole : BOOLEAN, reply : Replies]
        BY <3>1 DEF IInv, TypeOK
      <3>3. TypeOK'
        BY <1>9, <3>2 DEF EndOfReply, IInv, TypeOK, Waits
      <3>4. Deadlines'
        BY <1>9 DEF EndOfReply, IInv, Deadlines
      <3>5. http'.whole => received' = Pieces(reply')
        <4>1. http'.whole <=> received = Pieces(reply)
          BY ONLY <3>1
        <4>2. received' = received /\ reply' = reply
          BY <1>9 DEF EndOfReply
        <4>3. QED BY <4>1, <4>2, Zenon
      <3>6. Caused'
        <4>1. /\ http'.kind = "response" /\ http'.reply = reply' /\ pc' = "interpret"
              /\ reply' # NoReply /\ reply' = reply
              /\ UNCHANGED <<stop, elapsed, outcome, request>>
          BY <1>9, <3>1 DEF EndOfReply
        <4>2. http' # Failure("Cancelled") /\ http' # Failure("Timeout")
          BY <4>1 DEF Failure
        <4>3. pc # "idle"
          BY <1>9 DEF EndOfReply
        <4>4. QED BY <3>5, <4>1, <4>2, <4>3 DEF IInv, Caused, Bodies
      <3>7. AnswersAreWhole'
        BY <1>9 DEF EndOfReply, IInv, AnswersAreWhole
      <3>8. QED BY <3>3, <3>4, <3>6, <3>7 DEF IInv
    <2>3. QED BY <2>1, <2>2
  <1>10. QED
    BY <1>1, <1>2, <1>3, <1>4, <1>5, <1>6, <1>7, <1>8, <1>9 DEF Exchange

\* The lookup, the clock, the caller's stop request and the server.
LEMMA OutsideKeepsInv ==
  ASSUME IInv, UNCHANGED local, Resolve \/ Tick \/ RequestStop
  PROVE  IInv'
  <1> USE TransportAssumption DEF TransportAssumption, wire, clocks, local
  <1>1. CASE Resolve
    <2>1. PICK n \in 0..MaxAddresses :
            IF n = 0 THEN Fail("ConnectionFailure") /\ UNCHANGED addresses
            ELSE pc' = "address" /\ addresses' = n /\ UNCHANGED <<waiting, http>>
      BY <1>1 DEF Resolve
    <2>2. /\ pc = "lookup" /\ waiting = FALSE /\ addresses \in 0..MaxAddresses
          /\ sent \in 0..RequestPieces /\ received \in Nat
      BY <1>1 DEF Resolve, IInv, TypeOK, Deadlines, Waits
    <2>3. CASE n = 0
      BY <1>1, <2>1, <2>2, <2>3, FailKeepsInv DEF Resolve, TransportErrors
    <2>4. CASE n # 0
      BY <1>1, <2>1, <2>2, <2>4, MoveKeepsInv DEF Resolve
    <2>5. QED BY <2>3, <2>4
  <1>2. CASE Tick
    <2>1. TypeOK'
      BY <1>2 DEF Tick, IInv, TypeOK, Deadlines, Lesser
    <2>2. Deadlines'
      <3>1. CASE waiting /\ elapsed < wake
        BY <1>2, <3>1 DEF Tick, IInv, TypeOK, Deadlines, Lesser
      <3>2. CASE pc = "lookup" /\ ~(waiting /\ elapsed < wake)
        BY <1>2, <3>2 DEF Tick, IInv, TypeOK, Deadlines, Waits
      <3>3. QED BY <1>2, <3>1, <3>2 DEF Tick
    <2>3. Caused' /\ AnswersAreWhole'
      BY <1>2 DEF Tick, IInv, TypeOK, Caused, AnswersAreWhole, Bodies
    <2>4. QED BY <2>1, <2>2, <2>3 DEF IInv
  <1>3. CASE RequestStop
    <2>1. TypeOK' /\ Deadlines'
      BY <1>3 DEF RequestStop, IInv, TypeOK, Deadlines
    <2>2. Caused' /\ AnswersAreWhole'
      BY <1>3 DEF RequestStop, IInv, Caused, AnswersAreWhole, Bodies
    <2>3. QED BY <2>1, <2>2 DEF IInv
  <1>4. QED BY <1>1, <1>2, <1>3

LEMMA ServerKeepsInv ==
  ASSUME IInv, ServerAnswers
  PROVE  IInv'
  <1> USE DEF ServerAnswers, clocks
  <1>1. reply' \in Replies /\ reply'.body \in Bodies /\ pc = "receiving"
    OBVIOUS
  <1>2. TypeOK' /\ Deadlines'
    BY <1>1 DEF IInv, TypeOK, Deadlines
  <1>3. Caused'
    BY <1>1 DEF IInv, Caused, Bodies
  <1>4. AnswersAreWhole'
    BY <1>1, <1>3 DEF IInv, Caused, AnswersAreWhole, NoOutcome
  <1>5. QED BY <1>2, <1>3, <1>4 DEF IInv

(***************************************************************************)
(* The start and the end of a call.                                        *)
(***************************************************************************)
LEMMA CallKeepsInv ==
  ASSUME IInv, NEW r \in Requests, Call(r)
  PROVE  IInv'
  <1> USE TransportAssumption DEF TransportAssumption, Call, clocks
  <1>1. TypeOK'
    BY DEF IInv, TypeOK
  <1>2. Deadlines'
    <2>1. waiting = FALSE
      BY DEF IInv, TypeOK, Deadlines, Waits
    <2>2. QED BY <2>1 DEF Deadlines
  <1>3. Caused'
    BY DEF Caused, NoResult, Failure
  <1>4. AnswersAreWhole'
    BY DEF AnswersAreWhole, NoOutcome
  <1>5. QED BY <1>1, <1>2, <1>3, <1>4 DEF IInv

\* An outcome is one of the contract, and blames the caller only with cause.
EndsWell(o) ==
  /\ o \in {Error(c) : c \in ProviderErrors} \cup Answers
  /\ o = Error("Cancelled") => stop
  /\ o = Error("Timeout") => elapsed >= Timeout
  /\ o.kind = "answer" =>
       request.op = "generate" /\ reply.body = "answer" /\ received = Pieces(reply)
  /\ o.kind = "models" =>
       request.op = "list" /\ reply.body = "listing" /\ received = Pieces(reply)

LEMMA ReturnKeepsInv ==
  ASSUME IInv, pc \in {"check", "interpret"}, NEW o, EndsWell(o), Return(o),
         digests' \in DigestMaps
  PROVE  IInv'
  <1> USE TransportAssumption DEF TransportAssumption, Return
  <1>1. TypeOK'
    BY DEF IInv, TypeOK, EndsWell
  <1>2. Deadlines'
    <2>1. waiting = FALSE
      BY DEF IInv, TypeOK, Deadlines, Waits
    <2>2. QED BY <2>1 DEF IInv, Deadlines
  <1>3. Caused'
    BY DEF IInv, Caused, NoResult, Failure, Bodies
  <1>4. AnswersAreWhole'
    BY DEF AnswersAreWhole, EndsWell, Pieces
  <1>5. QED BY <1>1, <1>2, <1>3, <1>4 DEF IInv

LEMMA ErrorEndsWell ==
  ASSUME NEW c \in ProviderErrors, c = "Cancelled" => stop,
         c = "Timeout" => elapsed >= Timeout
  PROVE  EndsWell(Error(c))
  BY DEF EndsWell, Error

LEMMA RefuseEndsWell ==
  ASSUME IInv, Refuse
  PROVE  \E o : EndsWell(o) /\ Return(o)
  <1>1. CASE stop
    BY <1>1, ErrorEndsWell DEF Refuse, ProviderErrors
  <1>2. CASE ~stop
    BY <1>2, ErrorEndsWell DEF Refuse, ProviderErrors
  <1>3. QED BY <1>1, <1>2

LEMMA ThrowEndsWell ==
  ASSUME Throw
  PROVE  EndsWell(Error("UnexpectedResponse")) /\ Return(Error("UnexpectedResponse"))
  BY ErrorEndsWell DEF Throw, ProviderErrors

\* Of the reply's kinds, every one that is not accepted has an error.
LEMMA RejectEndsWell ==
  ASSUME IInv, Reject
  PROVE  EndsWell(Error(Rejection))
  <1> SUFFICES /\ Rejection \in ProviderErrors
               /\ Rejection = "Cancelled" => stop
               /\ Rejection = "Timeout" => elapsed >= Timeout
    BY ErrorEndsWell
  <1>1. CASE http.kind = "error"
    <2>1. PICK c \in TransportErrors : http = Failure(c)
      BY <1>1, HttpKinds DEF IInv
    <2>2. Rejection = TransportError[c]
      BY <1>1, <2>1 DEF Rejection, Failure
    <2>3. /\ TransportError[c] \in ProviderErrors
          /\ TransportError[c] = "Cancelled" => c = "Cancelled"
          /\ TransportError[c] = "Timeout" => c = "Timeout"
      BY DEF TransportErrors, TransportError, ProviderErrors
    <2>4. QED BY <2>1, <2>2, <2>3 DEF IInv, Caused
  <1>2. CASE http.kind = "response"
    <2>1. /\ http.reply \in Replies /\ http.reply.body \in Bodies
          /\ http.reply.status \in {"ok"} \cup ErrorStatuses
      BY <1>2, HttpKinds DEF IInv, Caused, Replies
    <2>2. CASE Unreadable
      BY <1>2, <2>2 DEF Rejection, ProviderErrors
    <2>3. CASE ~Unreadable /\ http.reply.status # "ok"
      BY <1>2, <2>1, <2>3 DEF Rejection, HttpError, ErrorStatuses, ProviderErrors
    <2>4. CASE ~Unreadable /\ http.reply.status = "ok"
      <3>1. http.reply.body \notin {"answer", "listing"}
        BY <1>2, <2>4 DEF Reject, Accepted, Good
      <3>2. http.reply.body # "notJson"
        BY <2>4 DEF Unreadable, Parses
      <3>3. http.reply.body # "notObject"
        BY <2>1, <2>4 DEF Unreadable, Bodies, ListBodies
      <3>4. http.reply.body \in {"error", "incomplete", "blank", "outputLimit", "notDone",
                                 "unnamed"}
        BY <2>1, <3>1, <3>2, <3>3 DEF Bodies, ChatBodies, ListBodies
      <3>5. Rejection = BodyError[http.reply.body]
        BY <1>2, <2>4 DEF Rejection
      <3>6. QED BY <3>4, <3>5 DEF BodyError, ProviderErrors
    <2>5. QED BY <2>2, <2>3, <2>4
  <1>3. QED BY <1>1, <1>2, HttpKinds DEF Reject, IInv

\* What is accepted is whole, and is of the kind that was asked for.
LEMMA AcceptedIsWhole ==
  ASSUME IInv, NEW body \in {"answer", "listing"}, Accepted(body)
  PROVE  /\ http.reply \in Replies /\ reply.body = body /\ received = Pieces(reply)
         /\ request.op = IF body = "answer" THEN "generate" ELSE "list"
  <1>1. /\ http.kind = "response" /\ http.whole /\ http.reply.body = body
    BY DEF Accepted, Unreadable, Parses, Good
  <1>2. /\ http.reply \in Replies /\ http.reply = reply /\ received = Pieces(reply)
        /\ reply.body \in Bodies
    BY <1>1, HttpKinds DEF IInv, Caused
  <1>3. request.op \in {"generate", "list"}
    BY DEF IInv, TypeOK, Requests
  <1>4. QED BY <1>1, <1>2, <1>3 DEF Bodies, ChatBodies, ListBodies

LEMMA AnswerEndsWell ==
  ASSUME IInv, Answer
  PROVE  EndsWell([kind |-> "answer", model |-> http.reply.model,
                   digest |-> Digest(http.reply.model)])
  <1> DEFINE o == [kind |-> "answer", model |-> http.reply.model,
                   digest |-> Digest(http.reply.model)]
  <1>1. /\ http.reply \in Replies /\ reply.body = "answer" /\ received = Pieces(reply)
        /\ request.op = "generate"
    BY AcceptedIsWhole DEF Answer
  <1>2. http.reply.model \in Models /\ request.model \in Models
    BY <1>1 DEF Replies, IInv, TypeOK, Requests
  <1>3. Digest(http.reply.model) \in Digests \cup {Absent}
    BY <1>2 DEF Digest, IInv, TypeOK, DigestMaps
  <1>4. o \in Answers
    BY <1>2, <1>3 DEF Answers
  <1>5. o.kind = "answer" /\ \A c : o # Error(c)
    BY DEF Error
  <1>6. QED BY <1>1, <1>4, <1>5 DEF EndsWell

LEMMA ListEndsWell ==
  ASSUME IInv, List
  PROVE  /\ EndsWell([kind |-> "models",
                      models |-> {m \in Models : http.reply.listing[m] # NotListed}])
         /\ digests' \in DigestMaps
  <1> DEFINE o == [kind |-> "models",
                   models |-> {m \in Models : http.reply.listing[m] # NotListed}]
  <1>1. /\ http.reply \in Replies /\ reply.body = "listing" /\ received = Pieces(reply)
        /\ request.op = "list"
    BY AcceptedIsWhole DEF List
  <1>2. digests' \in DigestMaps
    <2>1. http.reply.listing \in Listings
      BY <1>1 DEF Replies
    <2>2. QED BY <2>1 DEF List, Listings, DigestMaps
  <1>3. o \in Answers
    BY DEF Answers
  <1>4. o.kind = "models" /\ \A c : o # Error(c)
    BY DEF Error
  <1>5. QED BY <1>1, <1>2, <1>3, <1>4 DEF EndsWell

LEMMA DispatchKeepsInv ==
  ASSUME IInv, Dispatch
  PROVE  IInv'
  <1> USE DEF Dispatch
  <1>1. CASE request.defect = "url"
    BY <1>1, FailKeepsInv DEF wire, TransportErrors, IInv, TypeOK
  <1>2. CASE request.defect # "url"
    <2>1. waiting = FALSE /\ waiting' = FALSE
      BY <1>2 DEF IInv, TypeOK, Deadlines, Waits
    <2>2. QED BY <1>2, <2>1, MoveKeepsInv DEF wire, IInv, TypeOK
  <1>3. QED BY <1>1, <1>2

\* Every way a call ends, ends it well.
LEMMA FinishEndsWell ==
  ASSUME IInv, Refuse \/ Reject \/ Answer \/ List \/ Throw
  PROVE  /\ \E o : EndsWell(o) /\ Return(o)
         /\ pc \in {"check", "interpret"}
         /\ digests' \in DigestMaps
  <1>0. digests \in DigestMaps
    BY DEF IInv, TypeOK
  <1>1. CASE Refuse
    BY <1>0, <1>1, RefuseEndsWell DEF Refuse
  <1>2. CASE Reject
    BY <1>0, <1>2, RejectEndsWell DEF Reject
  <1>3. CASE Answer
    BY <1>0, <1>3, AnswerEndsWell DEF Answer
  <1>4. CASE List
    BY <1>4, ListEndsWell DEF List
  <1>5. CASE Throw
    BY <1>0, <1>5, ThrowEndsWell DEF Throw
  <1>6. QED BY <1>1, <1>2, <1>3, <1>4, <1>5

LEMMA StepInv == IInv /\ [Next]_vars => IInv'
  <1> SUFFICES ASSUME IInv, [Next]_vars PROVE IInv'
    OBVIOUS
  <1>1. CASE \E r \in Requests : Call(r)
    BY <1>1, CallKeepsInv
  <1>2. CASE Refuse \/ Reject \/ Answer \/ List \/ Throw
    BY <1>2, FinishEndsWell, ReturnKeepsInv
  <1>3. CASE Dispatch
    BY <1>3, DispatchKeepsInv
  <1>4. CASE Exchange /\ UNCHANGED local
    BY <1>4, ExchangeKeepsInv
  <1>5. CASE (Resolve \/ Tick \/ RequestStop) /\ UNCHANGED local
    BY <1>5, OutsideKeepsInv
  <1>6. CASE ServerAnswers
    BY <1>6, ServerKeepsInv
  <1>7. CASE UNCHANGED vars
    <2> USE <1>7 DEF vars, transport, wire, clocks
    <2>1. TypeOK' /\ Deadlines'
      BY DEF IInv, TypeOK, Deadlines
    <2>2. Caused' /\ AnswersAreWhole'
      BY DEF IInv, Caused, AnswersAreWhole, Bodies
    <2>3. QED BY <2>1, <2>2 DEF IInv
  <1>8. QED
    BY <1>1, <1>2, <1>3, <1>4, <1>5, <1>6, <1>7 DEF Next, Program

-----------------------------------------------------------------------------
(***************************************************************************)
(* The invariant holds of every call, however the socket, the server, the  *)
(* clock and the caller interleave (ollama_provider.cpp:361-448,           *)
(* http_transport.cpp:186-443).                                            *)
(***************************************************************************)
THEOREM Invariance == Spec => []IInv
  <1>1. QED BY InitInv, StepInv, PTL DEF Spec

\* Every variable of the provider and its transport keeps its type
\* (ollama_provider.cpp:361-448, http_transport.cpp:186-443).
THEOREM TypeCorrect == Spec => []TypeOK
  <1>1. IInv => TypeOK
    BY DEF IInv
  <1>2. QED BY <1>1, Invariance, PTL

\* After the lookup a call outlives a stop request by at most one slice, and
\* its deadline by nothing, for every timeout (http_transport.cpp:186-211).
THEOREM StopsInTime == Spec => []StopsWithinASlice
  <1>1. IInv => StopsWithinASlice
    BY TransportAssumption
    DEF TransportAssumption, IInv, TypeOK, Deadlines, StopsWithinASlice
  <1>2. QED BY <1>1, Invariance, PTL

\* An answer or a listing is made of a reply received whole and of the kind
\* that was asked for, for every reply a server can give
\* (http_transport.cpp:377-443, ollama_provider.cpp:536-563).
THEOREM AnswersWhole == Spec => []AnswersAreWhole
  <1>1. IInv => AnswersAreWhole
    BY DEF IInv
  <1>2. QED BY <1>1, Invariance, PTL

-----------------------------------------------------------------------------
(***************************************************************************)
(* The safety part of the contract: the steps that begin and end a call,   *)
(* the stop request and the slice that passes the deadline are its actions;*)
(* every other step stutters.                                              *)
(***************************************************************************)
LEMMA QuietStep ==
  ASSUME IInv, pc # "idle", pc' # "idle", UNCHANGED <<stop, elapsed, outcome>>
  PROVE  UNCHANGED Contract!cvars
  BY DEF Contract!cvars

LEMMA ContractStep == IInv /\ [Next]_vars => [Contract!Next]_Contract!cvars
  <1> SUFFICES ASSUME IInv, [Next]_vars PROVE [Contract!Next]_Contract!cvars
    OBVIOUS
  <1> USE DEF clocks
  <1>t. Timeout \in Nat \ {0} /\ elapsed \in Nat /\ stop \in BOOLEAN
    BY TransportAssumption DEF TransportAssumption, IInv, TypeOK
  <1>1. CASE \E r \in Requests : Call(r)
    <2>1. Contract!Call
      BY <1>1, <1>t DEF Call, Contract!Call
    <2>2. QED BY <2>1 DEF Contract!Next
  <1>2. CASE Refuse \/ Reject \/ Answer \/ List \/ Throw
    <2>1. PICK o : EndsWell(o) /\ Return(o)
      BY <1>2, FinishEndsWell
    <2>2. pc # "idle" /\ pc' = "idle" /\ outcome' = o /\ UNCHANGED <<stop, elapsed>>
      BY <1>2, <2>1, FinishEndsWell DEF Return
    <2>3. /\ o \in Answers \cup {Contract!Error(c) : c \in ProviderErrors}
          /\ o = Contract!Error("Cancelled") => stop
          /\ o = Contract!Error("Timeout") => elapsed >= Timeout
      BY <2>1 DEF EndsWell, Error, Contract!Error
    <2>4. Contract!Return
      BY <2>2, <2>3 DEF Contract!Return
    <2>5. QED BY <2>4 DEF Contract!Next
  <1>3. CASE Dispatch
    BY <1>3, QuietStep DEF Dispatch, Fail
  <1>4. CASE Exchange /\ UNCHANGED local
    <2>1. pc # "idle" /\ pc' # "idle"
      <3>1. pc \in Waits \cup {"address"}
        BY <1>4 DEF Exchange, BeginWait, Again, Broken, GiveUp, TryAddress, Connected,
                    Send, Receive, EndOfReply, Waits, IInv, Deadlines
      <3>2. pc' \in Waits \cup {"address", "interpret"}
        BY <1>4, <3>1 DEF Exchange, BeginWait, Again, Broken, GiveUp, TryAddress,
                    Connected, Send, Receive, EndOfReply, NextAddress, Waits, Fail
      <3>3. QED BY <3>1, <3>2 DEF Waits
    <2>2. UNCHANGED <<stop, elapsed, outcome>>
      BY <1>4 DEF Exchange, BeginWait, Again, Broken, GiveUp, TryAddress, Connected,
                  Send, Receive, EndOfReply, local
    <2>3. QED BY <2>1, <2>2, QuietStep
  <1>5. CASE Resolve /\ UNCHANGED local
    BY <1>5, QuietStep DEF Resolve, Fail, local
  <1>6. CASE Tick /\ UNCHANGED local
    <2>1. pc # "idle" /\ UNCHANGED <<pc, stop, outcome>> /\ elapsed' = elapsed + 1
      BY <1>6 DEF Tick, local, IInv, Deadlines, Waits
    <2>2. CASE (elapsed' >= Timeout) = (elapsed >= Timeout)
      BY <2>1, <2>2 DEF Contract!cvars
    <2>3. CASE (elapsed' >= Timeout) # (elapsed >= Timeout)
      <3>1. elapsed' >= Timeout
        BY <1>t, <2>1, <2>3
      <3>2. Contract!Expire
        BY <2>1, <3>1 DEF Contract!Expire
      <3>3. QED BY <3>2 DEF Contract!Next
    <2>4. QED BY <2>2, <2>3
  <1>7. CASE RequestStop /\ UNCHANGED local
    <2>1. Contract!RequestStop
      BY <1>7 DEF RequestStop, local, Contract!RequestStop
    <2>2. QED BY <2>1 DEF Contract!Next
  <1>8. CASE ServerAnswers
    BY <1>8, QuietStep DEF ServerAnswers
  <1>9. CASE UNCHANGED vars
    BY <1>9 DEF vars, transport, Contract!cvars
  <1>10. QED
    BY <1>1, <1>2, <1>3, <1>4, <1>5, <1>6, <1>7, <1>8, <1>9 DEF Next, Program

\* The provider keeps the safety part of its contract, for every timeout and
\* every behaviour of the server: one outcome per call, Cancelled and Timeout
\* only with cause (provider.hpp:67-71, ollama_provider.cpp:361-398).  That a
\* call ends is liveness and is left to the run.
THEOREM ProviderKeepsContract == Spec => Contract!Safety
  <1>1. Init => Contract!Init
    BY TransportAssumption DEF TransportAssumption, Init, Contract!Init
  <1>2. QED BY <1>1, ContractStep, Invariance, PTL DEF Spec, Contract!Safety
=============================================================================
