----------------------------- MODULE MCServices -----------------------------
(* Every play of the demos whose programs have loops or forward a call, with *)
(* one thing that goes wrong, three short ones with two; two more plays of   *)
(* programs without loops, with nothing that goes wrong.                     *)
EXTENDS Services

Never == {"multiplexing", "chain_validation"}
Twice == {"simple", "sharing", "independent_clock"}
MCPlays == DOMAIN Cast
MCMaxFaults ==
  [n \in MCPlays |-> IF n \in Never THEN 0 ELSE IF n \in Twice THEN 2 ELSE 1]
=============================================================================
