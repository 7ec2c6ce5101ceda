\* A window of three bits with twelve tickets: every branch of tickets_check,
\* with the window full, partly full, shifted by less and by more than its size.
\* Four keys in a cache of three: it fills up, evicts, and is cleared while it
\* holds anything between nothing and three entries.
CONSTANTS
  TICKETS_SIZE = 3
  MaxTicket = 11
  ValueRange = 16
  k1 = k1
  k2 = k2
  k3 = k3
  k4 = k4
  d1 = d1
  d2 = d2
  none = none
  Key = {k1, k2, k3, k4}
  Data = {d1, d2}
  NoData = none
  MaxSize = 3
SPECIFICATION Spec
INVARIANTS
  WindowExact
  OneRecursiveCall
  ListIndexAndSize
  LeastRecentlyUsedGoes
PROPERTIES
  AtMostOnce
  NothingStale
