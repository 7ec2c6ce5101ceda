------------------------ MODULE MCCredentialSession -------------------------
\* Threads, logins and sessions of the small instances that TLC checks.
EXTENDS CredentialSession, TLC

CONSTANTS t1, t2, l1, l2, l3, none, profile

Symmetry == Permutations(Caller) \cup Permutations(ClientLogin)
=============================================================================
