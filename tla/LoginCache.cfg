\* Two threads look up a login at once and validate it while its leases of two
\* seconds run out and are renewed or not.
CONSTANTS
  t1 = t1
  t2 = t2
  c1 = c1
  none = none
  Thread = {t1, t2}
  LoginId = {c1}
  Entry = {1, 2, 3}
  NoLogin = none
  NoData = none
  MaxSize = 1
  Lease = 2
  Delay = 1
  MaxTime = 6
SPECIFICATION Spec
PROPERTIES
  StaleOnlyIfTorn
  EntryNotReplaced
SYMMETRY Symmetry
