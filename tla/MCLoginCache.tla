---------------------------- MODULE MCLoginCache ----------------------------
\* Threads and logins of the small instances that TLC checks.
EXTENDS LoginCache

CONSTANTS t1, t2, c1, none

Symmetry == Permutations(Thread) \cup Permutations(LoginId)
=============================================================================
