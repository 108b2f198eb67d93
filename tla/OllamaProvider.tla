--------------------------- MODULE OllamaProvider ---------------------------
(***************************************************************************)
(* OllamaProvider of src/ai/ollama_provider.cpp on the native transport:   *)
(* checks of the request, the exchange, the reading of the reply, and the  *)
(* digests remembered from the last listing of the installed models.       *)
(***************************************************************************)
EXTENDS HttpTransport

CONSTANTS
  Models, Digests,
  Absent,    \* no digest is known
  NotListed, \* a model the server does not have
  Sizes      \* of reply bodies, in pieces

ASSUME ProviderAssumption ==
  /\ Absent \notin Digests /\ NotListed \notin Digests \cup {Absent}
  /\ Sizes \subseteq Nat \ {0}

VARIABLES
  request,   \* the call in progress or the last one
  digests,   \* model_digests_
  outcome    \* what the call returned

transport == <<pc, stop, clocks, waiting, wire, http>>
vars == <<transport, request, digests, outcome>>

\* "request": a check that ends in InvalidRequest fails; "endpoint": it does not
\* begin with http://; "url": it does, but parse_url rejects it.
Requests == [op : {"generate", "list"}, model : Models,
             defect : {"none", "request", "endpoint", "url"}]

\* Statuses other than "ok" are outside 200..299, told apart as http_error does.
ErrorStatuses == {"notFound", "contextLimit", "failed"}

\* Bodies of a chat reply; "answer" is the one to return.  "notJson" and
\* "notObject" are found before the status is looked at.
ChatBodies == {"answer", "error", "incomplete", "blank", "outputLimit", "notDone",
               "notJson", "notObject"}

ListBodies == {"listing", "unnamed", "incomplete", "notJson"}

\* Digests by model, and those of a provider that has listed nothing.
DigestMaps == [Models -> Digests \cup {Absent}]

NoDigests == [m \in Models |-> Absent]

\* What a listing says of each model; a listed model need not have a digest.
Listings == [Models -> Digests \cup {Absent, NotListed}]

NothingListed == [m \in Models |-> NotListed]

Replies == [framing : {"length", "chunked", "close", "invalid"}, size : Sizes,
            status : {"ok"} \cup ErrorStatuses, body : ChatBodies \cup ListBodies,
            model : Models, listing : Listings]

ProviderErrors == {"Cancelled", "InvalidRequest", "InvalidEndpoint", "Unavailable",
                   "Timeout", "MalformedResponse", "UnexpectedResponse",
                   "ModelUnavailable", "ContextLimit", "EmptyResponse", "OutputLimit"}

Error(code) == [kind |-> "error", code |-> code]
NoOutcome == [kind |-> "none"]

Answers == [kind : {"answer"}, model : Models, digest : Digests \cup {Absent}]
             \cup [kind : {"models"}, models : SUBSET Models]

TypeOK ==
  /\ pc \in {"idle", "check", "lookup", "address", "interpret"} \cup Waits
  /\ stop \in BOOLEAN /\ waiting \in BOOLEAN
  /\ elapsed \in 0..(Timeout + 2) /\ overdue \in 0..2 /\ wake \in 0..Timeout
  /\ addresses \in 0..MaxAddresses /\ sent \in 0..RequestPieces /\ received \in Nat
  /\ reply \in Replies \cup {NoReply}
  /\ http \in {NoResult} \cup {Failure(c) : c \in TransportErrors}
              \cup [kind : {"response"}, whole : BOOLEAN, reply : Replies]
  /\ request \in Requests /\ digests \in DigestMaps
  /\ outcome \in {NoOutcome} \cup {Error(c) : c \in ProviderErrors} \cup Answers

Contract == INSTANCE ProviderContract WITH
  Errors  <- ProviderErrors,
  calling <- pc # "idle",
  late    <- elapsed >= Timeout

-----------------------------------------------------------------------------
Init ==
  /\ pc = "idle" /\ stop = FALSE /\ waiting = FALSE
  /\ elapsed = 0 /\ overdue = 0 /\ wake = 0
  /\ addresses = 0 /\ sent = 0 /\ received = 0 /\ reply = NoReply
  /\ http = NoResult
  /\ request \in {r \in Requests : r.op = "list" /\ r.defect = "none"}
  /\ digests = NoDigests
  /\ outcome = NoOutcome

\* The caller calls generate or list_models, with a token that may have been
\* triggered already.
Call(r) ==
  /\ pc = "idle"
  /\ pc' = "check" /\ request' = r
  /\ stop' \in BOOLEAN
  /\ elapsed' = 0 /\ overdue' = 0 /\ wake' = 0
  /\ addresses' = 0 /\ sent' = 0 /\ received' = 0 /\ reply' = NoReply
  /\ http' = NoResult /\ outcome' = NoOutcome
  /\ UNCHANGED <<waiting, digests>>

\* The socket and the locals of the exchange are gone; received and reply stay
\* for the properties.
Return(o) == /\ pc' = "idle" /\ outcome' = o
             /\ addresses' = 0 /\ sent' = 0 /\ wake' = 0 /\ http' = NoResult
             /\ UNCHANGED <<stop, elapsed, overdue, waiting, received, reply, request>>

\* generate_checked and list_models_checked before the transport is asked.
Refuse ==
  /\ pc = "check"
  /\ \/ stop /\ Return(Error("Cancelled"))
     \/ ~stop /\ request.defect = "request" /\ Return(Error("InvalidRequest"))
     \/ ~stop /\ request.defect = "endpoint" /\ Return(Error("InvalidEndpoint"))
  /\ UNCHANGED digests

\* NativeTransport::send up to the lookup.
Dispatch ==
  /\ pc = "check" /\ ~stop /\ request.defect \in {"none", "url"}
  /\ IF request.defect = "url" THEN Fail("InvalidEndpoint")
     ELSE pc' = "lookup" /\ UNCHANGED <<waiting, http>>
  /\ UNCHANGED <<stop, clocks, wire, request, digests, outcome>>

-----------------------------------------------------------------------------
(* The reply.                                                              *)

TransportError == [InvalidEndpoint   |-> "InvalidEndpoint",
                   ConnectionFailure |-> "Unavailable",
                   Timeout           |-> "Timeout",
                   Cancelled         |-> "Cancelled",
                   InvalidResponse   |-> "MalformedResponse"]

HttpError == [notFound     |-> "ModelUnavailable",
              contextLimit |-> "ContextLimit",
              failed       |-> "UnexpectedResponse"]

BodyError == [error       |-> "UnexpectedResponse",
              incomplete  |-> "MalformedResponse",
              blank       |-> "EmptyResponse",
              outputLimit |-> "OutputLimit",
              notDone     |-> "UnexpectedResponse",
              unnamed     |-> "MalformedResponse"]

ParsesUnfinished == http.reply.body # "notJson"  \* mutant: the end is not required

\* JsonParser: the text is one JSON value, and text that stops short is none.
Parses == http.whole /\ http.reply.body # "notJson"

Unreadable ==
  \/ ~Parses
  \/ request.op = "generate" /\ http.reply.body = "notObject"

Good(body) == http.reply.status = "ok" /\ http.reply.body = body

Rejection ==
  IF http.kind = "error" THEN TransportError[http.code]
  ELSE IF Unreadable THEN "MalformedResponse"
  ELSE IF http.reply.status # "ok" THEN HttpError[http.reply.status]
  ELSE BodyError[http.reply.body]

\* Under the answering model's name, or else the requested one's.
Digest(model) == IF digests[model] # Absent THEN digests[model]
                 ELSE digests[request.model]

Accepted(body) == http.kind = "response" /\ ~Unreadable /\ Good(body)

Reject ==
  /\ pc = "interpret" /\ http.kind # "none"
  /\ ~Accepted("answer") /\ ~Accepted("listing")
  /\ Return(Error(Rejection))
  /\ UNCHANGED digests

Answer ==
  /\ pc = "interpret" /\ Accepted("answer")
  /\ Return([kind |-> "answer", model |-> http.reply.model,
             digest |-> Digest(http.reply.model)])
  /\ UNCHANGED digests

\* Every name is returned; a digest that is given replaces those known before.
List ==
  LET listing == http.reply.listing
  IN  /\ pc = "interpret" /\ Accepted("listing")
      /\ Return([kind |-> "models", models |-> {m \in Models : listing[m] # NotListed}])
      /\ digests' = [m \in Models |-> IF listing[m] = NotListed THEN Absent ELSE listing[m]]

\* An exception on the way becomes an error.
Throw ==
  /\ pc \in {"check", "interpret"}
  /\ Return(Error("UnexpectedResponse"))
  /\ UNCHANGED digests

-----------------------------------------------------------------------------
(* The server (external).                                                  *)

Bodies == IF request.op = "generate" THEN ChatBodies ELSE ListBodies

\* It begins to answer once it has the request.
ServerAnswers ==
  /\ pc = "receiving" /\ reply = NoReply
  /\ \E r \in Replies :
       /\ r.body \in Bodies
       /\ r.status # "ok" \/ r.body # "listing" => r.listing = NothingListed
       /\ r.status # "ok" \/ r.body # "answer" => r.model = request.model
       /\ r.framing = "invalid" => r.body = "notJson"
       /\ reply' = r
  /\ UNCHANGED <<pc, stop, clocks, waiting, addresses, sent, received, http, request,
                 digests, outcome>>

-----------------------------------------------------------------------------
local == <<request, digests, outcome>>

Program ==
  \/ Refuse \/ Dispatch \/ Reject \/ Answer \/ List
  \/ Exchange /\ UNCHANGED local

Next ==
  \/ \E r \in Requests : Call(r)
  \/ Program \/ Throw
  \/ (Resolve \/ Tick \/ RequestStop) /\ UNCHANGED local
  \/ ServerAnswers

Spec == Init /\ [][Next]_vars

\* The thread runs, the lookup returns, and the steps of the program do not stop
\* time: whenever a slice keeps being waited for, some slice passes.
Fairness ==
  /\ WF_vars(Program)
  /\ WF_vars(Resolve /\ UNCHANGED local)
  /\ SF_vars(Tick /\ UNCHANGED local)

FairSpec == Spec /\ Fairness

-----------------------------------------------------------------------------
(* Properties.                                                             *)

\* Once the name is resolved, a call outlives a stop request by at most one
\* slice and its deadline by nothing, however the socket behaves
\* (http_transport.cpp:186-211, architecture document :129).
StopsWithinASlice ==
  /\ overdue <= 1
  /\ waiting => elapsed <= Timeout

\* An answer or a listing is only ever made of a reply received to its last
\* piece, and of one that says it is finished: neither a connection lost in the
\* middle nor a model stopped by its output limit looks like an answer
\* (http_transport.cpp:377-443, ollama_provider.cpp:536-563).
AnswersAreWhole ==
  /\ outcome.kind = "answer" =>
       request.op = "generate" /\ reply.body = "answer" /\ received = Pieces(reply)
  /\ outcome.kind = "models" =>
       request.op = "list" /\ reply.body = "listing" /\ received = Pieces(reply)

\* The provider keeps the contract its callers rely on: one outcome per call,
\* Cancelled and Timeout only for cause, and an end whatever the server does
\* (provider.hpp:67-71, ollama_provider.cpp:361-398).
ImplementsProvider == Contract!Spec

\* include/horusrf/ai/provider.hpp:67: "This operation may block for at most
\* request.timeout."
BlocksAtMostTimeout == pc # "idle" => elapsed <= Timeout
=============================================================================
