\* Thread a logs in and out and makes calls, the renewer of its first login
\* makes calls, the callback does whatever it likes.
CONSTANTS
  a = a
  b = b
  l1 = l1
  l2 = l2
  none = none
  App = {a}
  LoginId = {l1, l2}
  NoLogin = none
  LoginThread = {a}
  LogoutThread = {a}
  CallThread = {a}
  Renewing = {l1}
  Misreports = TRUE
  Callbacks = {"nothing", "login", "logout"}
SPECIFICATION FairSpec
PROPERTIES
  CallsEnd
  RenewersEnd
\* The process may be at rest, or aborted, with nobody left to act.
CHECK_DEADLOCK FALSE
