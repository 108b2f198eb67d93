--------------------------- MODULE ProposalReview ---------------------------
(***************************************************************************)
(* What the user of Studio is promised about AI proposals: the document    *)
(* changes only by the user's own edits and by accepting an offer, and an  *)
(* offer can be accepted only if its candidate compiled and it was made    *)
(* for exactly the document it replaces.  AuthoringStudio implements this. *)
(***************************************************************************)
EXTENDS Naturals

CONSTANTS
  Texts,         \* document contents
  NoOffer

VARIABLES
  text,       \* the document
  revision,   \* grows with every change of the document
  offer       \* the proposal under review, or NoOffer

rvars == <<text, revision, offer>>

\* The text shown to the user, whether the candidate compiled, and the document
\* it was made for.
Offers == [script : Texts, compiled : BOOLEAN, source : Texts, base : Nat]

Init == /\ text \in Texts
        /\ revision = 0
        /\ offer = NoOffer

\* The user types, undoes, opens another file.
Edit == /\ text' \in Texts
        /\ revision' = revision + 1
        /\ UNCHANGED offer

\* An offer made for an older revision may appear; one made for the current
\* revision was made for the current text.
Offer == /\ offer = NoOffer
         /\ offer' \in Offers
         /\ offer'.base <= revision
         /\ offer'.base = revision => offer'.source = text
         /\ UNCHANGED <<text, revision>>

Withdraw == /\ offer # NoOffer
            /\ offer' = NoOffer
            /\ UNCHANGED <<text, revision>>

Accept == /\ offer # NoOffer
          /\ offer.compiled
          /\ offer.base = revision
          /\ offer.source = text
          /\ text' = offer.script
          /\ revision' = revision + 1
          /\ offer' = NoOffer

Next == Edit \/ Offer \/ Withdraw \/ Accept

Spec == Init /\ [][Next]_rvars
=============================================================================
