------------------------------ MODULE Tickets -------------------------------
(***************************************************************************)
(* The ticket history of a credential session, src/src/ticket.c: a sliding *)
(* window over the ticket numbers, kept as a base (the smallest ticket not *)
(* yet seen), a bitmap and the slot of the bitmap that stands for base+1.  *)
(* The bitmap is the set of the slots whose bit is 1.  tickets_Value is an *)
(* unsigned long, so its sums are taken modulo ValueRange.                 *)
(***************************************************************************)
EXTENDS Naturals

CONSTANTS TICKETS_SIZE,   \* bits of a tickets_BitMap
          MaxTicket,      \* largest CORBA::ULong a credential carries
          ValueRange      \* 2^w, w the bits of a tickets_Value

\* An unsigned long wider than CORBA::ULong: the LP64 builds.
ASSUME TicketsAssumption ==
  /\ TICKETS_SIZE \in Nat \ {0}
  /\ MaxTicket \in Nat
  /\ ValueRange \in Nat
  /\ ValueRange > MaxTicket + 1

VARIABLES history,    \* the tickets_History of the session
          accepted,   \* history variable: every ticket answered with 1
          verdict     \* the last call of tickets_check and what it returned

historyVars == <<history, accepted, verdict>>

Ticket == 0..MaxTicket
Slots == 0..(TICKETS_SIZE - 1)
History == [base : 0..(ValueRange - 1), bits : SUBSET Slots, index : Slots]

\* The slot of the bitmap that stands for ticket base + 1 + shift.
Slot(h, shift) == (h.index + shift) % TICKETS_SIZE

\* How many consecutive bits are set from h.index on: the turns of the loop.
RunLength(h) ==
  CHOOSE k \in 0..TICKETS_SIZE :
    /\ \A j \in 0..(k - 1) : Slot(h, j) \in h.bits
    /\ k < TICKETS_SIZE => Slot(h, k) \notin h.bits

\* Mutant of discardBase: the index stays on the bit that ended the run.
discardToRun(h) ==
  IF h.bits = {}
  THEN [h EXCEPT !.base = (@ + 1) % ValueRange]
  ELSE LET k == RunLength(h) IN
       [base  |-> (h.base + 1 + k) % ValueRange,
        bits  |-> h.bits \ {Slot(h, j) : j \in 0..(k - 1)},
        index |-> Slot(h, k)]

discardBase(h) ==
  IF h.bits = {}
  THEN [h EXCEPT !.base = (@ + 1) % ValueRange]
  ELSE LET k == RunLength(h) IN
       [base  |-> (h.base + 1 + k) % ValueRange,
        bits  |-> h.bits \ {Slot(h, j) : j \in 0..(k - 1)},
        index |-> Slot(h, k + 1)]

tickets_init == [base |-> 0, bits |-> {}, index |-> 0]

\* The ticket is below the base, is the base, or has a bit in the bitmap.
Near(h, id) == id <= h.base + TICKETS_SIZE

\* Mutant of CheckNear: the bit of an accepted ticket is not set.
CheckUnmarked(h, id) ==
  LET slot == Slot(h, id - h.base - 1) IN
  CASE id < h.base -> [ok |-> FALSE, h |-> h]
    [] id = h.base -> [ok |-> TRUE, h |-> discardBase(h)]
    [] id > h.base -> [ok |-> slot \notin h.bits, h |-> h]

\* The branches of tickets_check that answer without moving the window.
CheckNear(h, id) ==
  LET slot == Slot(h, id - h.base - 1) IN
  CASE id < h.base -> [ok |-> FALSE, h |-> h]
    [] id = h.base -> [ok |-> TRUE, h |-> discardBase(h)]
    [] id > h.base /\ slot \in h.bits -> [ok |-> FALSE, h |-> h]
    [] id > h.base /\ slot \notin h.bits ->
         [ok |-> TRUE, h |-> [h EXCEPT !.bits = @ \cup {slot}]]

\* Mutant of Skip: the window moves one ticket too few.
SkipShort(h, id) ==
  LET extra == id - h.base - 2 - TICKETS_SIZE
  IN discardBase([base  |-> h.base + extra, bits |-> {}, index |-> 0])

\* The last branch: forget the oldest tickets so that id gets a slot.
Skip(h, id) ==
  LET extra == id - h.base - 1 - TICKETS_SIZE
      dropped == IF extra < TICKETS_SIZE
                 THEN {Slot(h, j) : j \in 0..(extra - 1)} ELSE Slots
  IN discardBase(
       [base  |-> (h.base + extra) % ValueRange,
        bits  |-> h.bits \ dropped,
        index |-> IF extra < TICKETS_SIZE THEN Slot(h, extra) ELSE 0])

\* The recursive call after a Skip finds a near ticket: see OneRecursiveCall.
tickets_check(h, id) ==
  IF Near(h, id) THEN CheckNear(h, id) ELSE CheckNear(Skip(h, id), id)

HistoryInit ==
  /\ history = tickets_init
  /\ accepted = {}
  /\ verdict = [id |-> 0, ok |-> FALSE]

\* A credential with ticket id reaches the server (server.cpp:328).
Check(id) ==
  LET answer == tickets_check(history, id) IN
  /\ history' = answer.h
  /\ accepted' = IF answer.ok THEN accepted \cup {id} ELSE accepted
  /\ verdict' = [id |-> id, ok |-> answer.ok]

HistoryNext == \E id \in Ticket : Check(id)

HistorySpec == HistoryInit /\ [][HistoryNext]_historyVars
-----------------------------------------------------------------------------
\* The history keeps the layout of a tickets_History.
HistoryTypeOK ==
  /\ history \in History
  /\ accepted \subseteq Ticket
  /\ verdict \in [id : Ticket, ok : BOOLEAN]

\* The bitmap records exactly which tickets of the window were accepted: bit
\* Slot(shift) is 1 iff ticket base+1+shift was answered with 1; the base
\* itself never was, nothing beyond the window was, and a ticket below the
\* base that was never accepted lags TICKETS_SIZE or more behind one that was.
WindowExact ==
  /\ history.base <= MaxTicket + 1
  /\ history.base \notin accepted
  /\ \A shift \in Slots :
       Slot(history, shift) \in history.bits
         <=> history.base + 1 + shift \in accepted
  /\ \A a \in accepted : a <= history.base + TICKETS_SIZE
  /\ \A id \in Ticket : id < history.base /\ id \notin accepted
       => \E a \in accepted : id + TICKETS_SIZE < a

\* tickets_check calls itself at most once: after the window has moved, the
\* ticket that made it move is within it (or is its base).
OneRecursiveCall ==
  \A id \in Ticket :
    ~Near(history, id) => /\ Near(Skip(history, id), id)
                          /\ id >= Skip(history, id).base

\* No ticket is accepted twice, and a ticket never accepted is refused only
\* when it lags more than TICKETS_SIZE behind an accepted one: the promise a
\* server makes to requests that overtake one another.
Promise == INSTANCE TicketSpec WITH Window <- TICKETS_SIZE
AtMostOnce == Promise!Spec
=============================================================================
