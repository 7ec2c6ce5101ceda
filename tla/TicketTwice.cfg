\* Two threads that may take the same ticket, two dispatches that check it.
CONSTANTS
  t1 = t1
  t2 = t2
  l1 = l1
  l2 = l2
  l3 = l3
  none = none
  profile = profile
  Caller = {t1, t2}
  ClientLogin = {l1, l2, l3}
  ServerLogin = {l1, l2, l3}
  NoLogin = none
  NoData = none
  Profile = profile
  Session = {1, 2, 3, 4, 5}
  MaxSize = 1
  MaxCalls = 1
SPECIFICATION Spec
INVARIANT
  OneDispatchPerTicket
SYMMETRY Symmetry
\* The calls are over, or a process is gone.
CHECK_DEADLOCK FALSE
