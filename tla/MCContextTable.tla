--------------------------- MODULE MCContextTable ---------------------------
\* Threads, connections and chains of the small instances that TLC checks.
EXTENDS ContextTable, TLC

CONSTANTS user, server, c1, c2, new, none, empty, unset

Symmetry == Permutations(Connection)
=============================================================================
