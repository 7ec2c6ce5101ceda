\* Two threads of a client, and as many dispatches at once in the server; three
\* logins for either of them, and caches that keep one datum.
CONSTANTS
  t1 = t1
  t2 = t2
  l1 = l1
  l2 = l2
  l3 = l3
  none = none
  profile = profile
  Caller = {t1, t2}
  ClientLogin = {l1, l2, l3}
  ServerLogin = {l1, l2, l3}
  NoLogin = none
  NoData = none
  Profile = profile
  Session = {1, 2, 3, 4, 5}
  MaxSize = 1
  MaxCalls = 1
SPECIFICATION Spec
INVARIANTS
  TypeOK
  OneDispatchUnlessRaced
  DispatchedForItsLogin
  SessionOfItsServer
SYMMETRY Symmetry
\* The calls are over, or a process is gone.
CHECK_DEADLOCK FALSE
