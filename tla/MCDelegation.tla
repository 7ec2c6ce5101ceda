---------------------------- MODULE MCDelegation ----------------------------
(* Two programs of bill, who forwards to willian, and one of steve.           *)
EXTENDS Delegation

CONSTANTS b1, b2, s, none

MCEntity == {"bill", "willian", "steve"}
MCentity == [c \in {b1, b2, s} |-> IF c = s THEN "steve" ELSE "bill"]
MCoperations == [c \in {b1, b2, s} |->
  CASE c = b1 -> {"subscribe", "set", "cancel"}
    [] c = b2 -> {"unsubscribe", "receive", "cancel"}
    [] c = s -> {"subscribe", "post"}]
MCMaxCalls == [c \in {b1, b2, s} |-> CASE c = b1 -> 3 [] c = b2 -> 2 [] c = s -> 2]
=============================================================================
