--------------------------- MODULE MCConnection ---------------------------
\* Threads and logins of the small instances that TLC checks.
EXTENDS Connection, TLC

CONSTANTS a, b, l1, l2, none

Symmetry == Permutations(LoginId)
=============================================================================
