\* A thread's unlocked reads of an entry, with the writes of another between them.
CONSTANTS
  t1 = t1
  t2 = t2
  c1 = c1
  none = none
  Thread = {t1, t2}
  LoginId = {c1}
  Entry = {1, 2, 3}
  NoLogin = none
  NoData = none
  MaxSize = 1
  Lease = 2
  Delay = 1
  MaxTime = 6
SPECIFICATION Spec
PROPERTIES
  StaleWithinThriceDelay
SYMMETRY Symmetry
