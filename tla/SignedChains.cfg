\* Two threads of a client that log out and in, a server that does too.
CONSTANTS
  t1 = t1
  t2 = t2
  Thread = {t1, t2}
  ClientLogin = {"c1", "c2"}
  ServerLogin = {"s1", "s2"}
  NoLogin = "none"
  entity <- EntityOf
  Lineage = {"lineage"}
  Garbage = "garbage"
  LegacySupport = TRUE
  Id = {1, 2, 3}
  MaxLogins = 3
  MaxCalls = 1
  MaxRedirects = 1
  Current = "2.1"
  Legacy = "2.0"
  Unsigned = "unsigned"
  NoStream = NoStream
  InvalidEncodedStream = InvalidEncodedStream
  CodecFailure = CodecFailure
SPECIFICATION Spec
INVARIANTS
  TypeOK
  TableOfRequests
  ChainOfItsLogin
  TargetedAtServer
  JoinedChainCarried
SYMMETRY Symmetry
\* The calls are over, or a process is gone.
CHECK_DEADLOCK FALSE
