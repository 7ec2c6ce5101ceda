\* Threads a and b log in at once and a logs out; the renewers of both logins
\* make calls, whose callbacks do whatever they like.
CONSTANTS
  a = a
  b = b
  l1 = l1
  l2 = l2
  none = none
  App = {a, b}
  LoginId = {l1, l2}
  NoLogin = none
  LoginThread = {a, b}
  LogoutThread = {a}
  CallThread = {}
  Renewing = {l1, l2}
  Misreports = TRUE
  Callbacks = {"nothing", "login", "logout"}
SPECIFICATION Spec
INVARIANTS
  CallbackForInvalidLogins
  NoStaleCredential
  StateMatchesLogin
  RenewerPerLogin
PROPERTIES
  LoginsNeverReplaced
SYMMETRY Symmetry
\* The process may be at rest, or aborted, with nobody left to act.
CHECK_DEADLOCK FALSE
