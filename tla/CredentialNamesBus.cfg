\* After a logout, a thread sends requests with no bus in their credentials.
CONSTANTS
  user = user
  server = server
  c1 = c1
  c2 = c2
  new = new
  none = none
  empty = empty
  unset = unset
  Thread = {user, server}
  Dispatcher = {server}
  Connection = {c1, c2}
  Chain = {new}
  LegacyChain = {}
  Id = {1, 2, 3, 4}
  NoConnection = none
  NoChain = none
  NoId = none
  EmptyBus = empty
  UnsetBus = unset
SPECIFICATION Spec
INVARIANT
  CredentialNamesBus
SYMMETRY Symmetry
\* The process may abort.
CHECK_DEADLOCK FALSE
