----------------------------- MODULE TicketSpec -----------------------------
(***************************************************************************)
(* What the ticket history of a credential session promises to the server  *)
(* interceptor, without saying how: a ticket is accepted at most once, and *)
(* a ticket that was never accepted is refused only when it has fallen     *)
(* more than Window places behind a ticket already accepted.               *)
(* Tickets.tla, the translation of src/src/ticket.c, implements it.        *)
(***************************************************************************)
EXTENDS Naturals

CONSTANTS MaxTicket,  \* the largest ticket a credential carries
          Window      \* how far a late ticket may lag behind

VARIABLES accepted,   \* the tickets accepted so far
          verdict     \* the last question put to the history and its answer

specVars == <<accepted, verdict>>

Ticket == 0..MaxTicket

Init == accepted = {} /\ verdict = [id |-> 0, ok |-> FALSE]

\* `id' lags more than Window behind an accepted ticket.
TooOld(id) == \E a \in accepted : id + Window < a

Accept(id) ==
  /\ id \notin accepted
  /\ accepted' = accepted \cup {id}
  /\ verdict' = [id |-> id, ok |-> TRUE]

Refuse(id) ==
  /\ id \in accepted \/ TooOld(id)
  /\ verdict' = [id |-> id, ok |-> FALSE]
  /\ UNCHANGED accepted

Next == \E id \in Ticket : Accept(id) \/ Refuse(id)

Spec == Init /\ [][Next]_specVars
=============================================================================
