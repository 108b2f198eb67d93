--------------------------- MODULE HttpTransport ---------------------------
(***************************************************************************)
(* NativeTransport::send of src/ai/http_transport.cpp: one HTTP exchange   *)
(* on a non-blocking socket, bounded by a deadline and a stop token.  Time *)
(* is counted in slices of 50 ms, the longest select() may last; steps of  *)
(* the program take none.  This module has the steps; OllamaProvider calls *)
(* them.                                                                   *)
(***************************************************************************)
EXTENDS Naturals

CONSTANTS
  Timeout,       \* HttpRequest::timeout, in slices
  MaxAddresses,  \* most addresses an endpoint resolves to
  RequestPieces, \* most pieces send() takes the request in
  MaxReply,      \* maximum_response_size, in pieces
  NoReply        \* the server has not answered

ASSUME TransportAssumption ==
  /\ Timeout \in Nat \ {0} /\ MaxAddresses \in Nat
  /\ RequestPieces \in Nat \ {0} /\ MaxReply \in Nat

VARIABLES
  pc,         \* where the call is
  stop,       \* cancellation.stop_requested()
  elapsed,    \* slices since the deadline was set, saturating
  overdue,    \* slices spent after the deadline or the stop request, the
              \* lookup aside, saturating (history variable)
  waiting,    \* inside select()
  wake,       \* when the slice of select() ends
  addresses,  \* addresses not tried yet, the current one included
  sent,       \* pieces of the request sent
  received,   \* pieces of the reply in the buffer; the head is the first
  reply,      \* what the server answers (external)
  http        \* HttpResult

wire == <<addresses, sent, received, reply>>
clocks == <<elapsed, overdue, wake>>

Waits == {"connecting", "sending", "receiving"}

TransportErrors == {"InvalidEndpoint", "ConnectionFailure", "Timeout", "Cancelled",
                    "InvalidResponse"}

Failure(code) == [kind |-> "error", code |-> code]

NoResult == [kind |-> "none"]

Fail(code) == /\ pc' = "interpret" /\ waiting' = FALSE
              /\ http' = Failure(code)

-----------------------------------------------------------------------------
(* wait_for.                                                               *)

Lesser(a, b) == IF a <= b THEN a ELSE b

BeginWaitForever ==                              \* mutant: the deadline is forgotten
  /\ pc \in Waits /\ ~waiting
  /\ IF stop THEN Fail("Cancelled") /\ UNCHANGED clocks
     ELSE /\ waiting' = TRUE /\ wake' = Lesser(elapsed + 1, Timeout)
          /\ UNCHANGED <<pc, http, elapsed, overdue>>
  /\ UNCHANGED <<stop, wire>>

BeginWaitWhole ==                                \* mutant: no slices
  /\ pc \in Waits /\ ~waiting
  /\ IF stop THEN Fail("Cancelled") /\ UNCHANGED clocks
     ELSE IF elapsed >= Timeout THEN Fail("Timeout") /\ UNCHANGED clocks
     ELSE /\ waiting' = TRUE /\ wake' = Timeout
          /\ UNCHANGED <<pc, http, elapsed, overdue>>
  /\ UNCHANGED <<stop, wire>>

BeginWait ==
  /\ pc \in Waits /\ ~waiting
  /\ IF stop THEN Fail("Cancelled") /\ UNCHANGED clocks
     ELSE IF elapsed >= Timeout THEN Fail("Timeout") /\ UNCHANGED clocks
     ELSE /\ waiting' = TRUE /\ wake' = Lesser(elapsed + 1, Timeout)
          /\ UNCHANGED <<pc, http, elapsed, overdue>>
  /\ UNCHANGED <<stop, wire>>

\* The slice is over, a signal interrupted it, or the socket would block after
\* all: wait again.
Again ==
  /\ waiting /\ waiting' = FALSE
  /\ UNCHANGED <<pc, stop, clocks, wire, http>>

\* select, send or recv report an error.
Broken ==
  /\ waiting /\ pc \in {"sending", "receiving"}
  /\ Fail("ConnectionFailure")
  /\ UNCHANGED <<stop, clocks, wire>>

-----------------------------------------------------------------------------
(* connect_to.                                                             *)

\* getaddrinfo returns; nothing bounds how long it takes.
Resolve ==
  /\ pc = "lookup"
  /\ \E n \in 0..MaxAddresses :
       IF n = 0 THEN Fail("ConnectionFailure") /\ UNCHANGED addresses
       ELSE pc' = "address" /\ addresses' = n /\ UNCHANGED <<waiting, http>>
  /\ UNCHANGED <<stop, clocks, sent, received, reply>>

NextAddress == pc' = "address" /\ addresses' = addresses - 1

GiveUp ==
  /\ pc = "address"
  /\ \/ addresses = 0 /\ Fail("ConnectionFailure")
     \/ addresses > 0 /\ stop /\ Fail("Cancelled")
  /\ UNCHANGED <<stop, clocks, wire>>

\* connect() succeeds at once, is under way, or is refused.
TryAddress ==
  /\ pc = "address" /\ addresses > 0 /\ ~stop
  /\ \/ pc' \in {"sending", "connecting"} /\ UNCHANGED addresses
     \/ NextAddress
  /\ UNCHANGED <<stop, clocks, waiting, sent, received, reply, http>>

Connected ==
  /\ waiting /\ pc = "connecting"
  /\ waiting' = FALSE
  /\ \/ pc' = "sending" /\ UNCHANGED addresses
     \/ NextAddress
  /\ UNCHANGED <<stop, clocks, sent, received, reply, http>>

-----------------------------------------------------------------------------
(* send_all, receive_all.                                                  *)

Send ==
  /\ waiting /\ pc = "sending"
  /\ waiting' = FALSE
  /\ \E k \in 1..(RequestPieces - sent) : sent' = sent + k
  /\ pc' = IF sent' = RequestPieces THEN "receiving" ELSE pc
  /\ UNCHANGED <<stop, clocks, addresses, received, reply, http>>

\* The head and the body.
Pieces(r) == r.size + 1

Receive ==
  /\ waiting /\ pc = "receiving" /\ reply # NoReply
  /\ \E k \in 1..(Pieces(reply) - received) : received' = received + k
  /\ IF received' > MaxReply THEN Fail("InvalidResponse")
     ELSE waiting' = FALSE /\ UNCHANGED <<pc, http>>
  /\ UNCHANGED <<stop, clocks, addresses, sent, reply>>

\* parse_http_response and decode_chunks: whether a reply cut short is noticed
\* depends on how its length is given.
Response ==
  LET whole == received = Pieces(reply)
  IN  IF \/ reply = NoReply \/ received = 0
         \/ reply.framing = "invalid"
         \/ reply.framing \in {"length", "chunked"} /\ ~whole
      THEN Failure("InvalidResponse")
      ELSE [kind |-> "response", whole |-> whole, reply |-> reply]

\* The server closed the connection.
EndOfReply ==
  /\ waiting /\ pc = "receiving"
  /\ pc' = "interpret" /\ waiting' = FALSE
  /\ http' = Response
  /\ UNCHANGED <<stop, clocks, wire>>

Exchange ==
  \/ BeginWait \/ Again \/ Broken \/ GiveUp \/ TryAddress \/ Connected \/ Send
  \/ Receive \/ EndOfReply

-----------------------------------------------------------------------------
(* The caller's thread, and time.                                          *)

RequestStop ==
  /\ pc # "idle" /\ ~stop
  /\ stop' = TRUE
  /\ UNCHANGED <<pc, waiting, clocks, wire, http>>

\* A slice passes.  select() returns when it ends; a lookup takes as long as it
\* likes, and what happens after two slices too many is not told apart.
Tick ==
  /\ \/ waiting /\ elapsed < wake
     \/ pc = "lookup" /\ elapsed < Timeout + 2
  /\ elapsed' = elapsed + 1
  /\ overdue' = IF waiting /\ (stop \/ elapsed >= Timeout)
                THEN Lesser(overdue + 1, 2) ELSE overdue
  /\ UNCHANGED <<pc, stop, waiting, wake, wire, http>>
=============================================================================
