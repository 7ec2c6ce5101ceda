---------------------------- MODULE MCStructures ----------------------------
(***************************************************************************)
(* The two sequential structures that the interceptors share, the ticket   *)
(* window and the LRU cache, on small instances for TLC.  They have no     *)
(* state in common: a behaviour uses one of them, while the other is new.  *)
(***************************************************************************)
EXTENDS Tickets, CacheUse

CONSTANTS k1, k2, k3, k4, d1, d2, none

Init == HistoryInit /\ UseInit

UseTickets == UseInit /\ HistoryNext /\ UNCHANGED useVars
UseCache == HistoryInit /\ UseNext /\ UNCHANGED historyVars
Next == UseTickets \/ UseCache

Spec == Init /\ [][Next]_<<historyVars, useVars>>
=============================================================================
