--------------------------- MODULE MCSignedChains ---------------------------
\* Threads, logins and the chains of the small instance that TLC checks.
EXTENDS SignedChains, TLC

CONSTANTS t1, t2

EntityOf == [s \in ServerLogin |-> "entity of " \o s]

Symmetry == Permutations(Thread)
=============================================================================
