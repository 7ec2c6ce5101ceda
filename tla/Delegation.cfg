\* Two programs of one user set, cancel and subscribe, another user posts.
CONSTANTS
  b1 = b1
  b2 = b2
  s = s
  none = none
  Client = {b1, b2, s}
  Entity <- MCEntity
  entity <- MCentity
  forwarder = forwarder
  broadcaster = broadcaster
  ForwardTo = {"willian"}
  NoClient = none
  operations <- MCoperations
  MaxCalls <- MCMaxCalls
  MaxPosts = 1
  MaxThreads = 2
  MaxFaults = 1
SPECIFICATION FairSpec
INVARIANTS
  TypeOK
  PostsKept
  SubscribersReached
  ThreadsInHand
PROPERTIES CallsReturn CanceledEnd
\* The calls are over.
CHECK_DEADLOCK FALSE
