----------------------------- MODULE Connection -----------------------------
(***************************************************************************)
(* One connection of the SDK, src/src/connection.cpp, shared by the        *)
(* threads of a process: application threads that log in, log out and make *)
(* remote calls, and one renewer thread per login.  A remote call runs the *)
(* client interceptor, src/src/interceptors/client.cpp, which asks the     *)
(* connection for its login before the request and, when the answer is     *)
(* NO_PERMISSION{InvalidLogin}, drops the login and sends the request      *)
(* again.  A section under Connection::_mutex is one action; what the code *)
(* does between two sections is interleaved with every other thread.       *)
(*                                                                         *)
(* Abstracted: what a credential carries besides the login (sessions,      *)
(* tickets, chains) and the contents of the remote references: `facets'    *)
(* says whether _access_control, _login_registry, _offer_registry, _busid, *)
(* _buskey and _loginCache are set; all are set together by login_init and *)
(* cleared together by _logout.  Logins are never issued twice by the bus. *)
(***************************************************************************)
EXTENDS Naturals

CONSTANTS App,          \* application threads
          LoginId,      \* the logins the bus may issue: bounds their number
          NoLogin,      \* the empty LoginInfo
          LoginThread,  \* application threads that log in
          LogoutThread, \* application threads that log out
          CallThread,   \* application threads that make remote calls
          Renewing,     \* logins held for so long that a renewal falls due
          Misreports,   \* whether servers may refuse a login that is valid
          Callbacks     \* what the InvalidLogin callback may do

ASSUME ConnectionAssumption ==
  /\ App \cap LoginId = {}
  /\ NoLogin \notin LoginId
  /\ LoginThread \subseteq App
  /\ LogoutThread \subseteq App
  /\ CallThread \subseteq App
  /\ Renewing \subseteq LoginId
  /\ Misreports \in BOOLEAN
  /\ Callbacks \subseteq {"nothing", "login", "logout"}

VARIABLES
  state,           \* _state
  loginInfo,       \* _loginInfo
  invalid_login,   \* _invalid_login
  facets,          \* the remote references, _busid, _buskey and _loginCache
  onInvalidLogin,  \* whether an InvalidLogin callback is registered
  interrupted,     \* renewers whose boost::thread was interrupted
  pc,              \* where each thread is
  login,           \* get_login: the local `login'
  invalid,         \* get_login: the local `invalid_login'
  nested,          \* get_login serves the request, or the nested
                   \* getLoginValidity of receive_exception
  cred,            \* the login the request of a thread was sent with
  reported,        \* receive_exception: the local `invalid_login'
  inCallback,      \* the thread executes the InvalidLogin callback
  granted,         \* login: the loginInfo returned by the bus; _logout: the
                   \* copy of the login it dropped
  access_control,  \* the reference a thread copied: of a renewer and _logout
  valid,           \* external: the logins the bus holds valid
  issued,          \* external: the logins the bus issued
  held,            \* history: every login _loginInfo ever was
  stale            \* history: the logins dropped before the request of a
                   \* thread was sent for the first time, or the last

connVars == <<state, loginInfo, invalid_login, facets, onInvalidLogin,
              interrupted>>
callVars == <<login, invalid, nested, cred, reported, stale>>
opVars == <<granted, access_control>>
busVars == <<valid, issued>>
history == held
vars == <<connVars, pc, callVars, inCallback, opVars, busVars, history>>

\* The renewer of a login is named by the login.
Thread == App \cup LoginId
OptLogin == LoginId \cup {NoLogin}

CallStep == {"get_login", "on_invalid", "forget", "callback", "in_callback",
             "after_callback", "sent", "invalid_login", "registry",
             "validity", "compare", "drop", "set_invalid"}
LoginStep == {"login_init", "login_remote", "login", "login_log"}
Step == CallStep \cup LoginStep \cup {"idle", "unborn", "sleep", "ended",
                                    "logout_remote", "aborted"}

Init ==
  /\ state = "LOGGED_OUT"
  /\ loginInfo = NoLogin
  /\ invalid_login = NoLogin
  /\ facets = FALSE
  /\ onInvalidLogin \in BOOLEAN
  /\ interrupted = {}
  /\ pc = [t \in Thread |-> IF t \in LoginId THEN "unborn" ELSE "idle"]
  /\ login = [t \in Thread |-> NoLogin]
  /\ invalid = [t \in Thread |-> NoLogin]
  /\ nested = [t \in Thread |-> FALSE]
  /\ cred = [t \in Thread |-> NoLogin]
  /\ reported = [t \in Thread |-> NoLogin]
  /\ inCallback = [t \in Thread |-> FALSE]
  /\ granted = [t \in Thread |-> NoLogin]
  /\ access_control = [t \in Thread |-> FALSE]
  /\ valid = {} /\ issued = {} /\ held = {}
  /\ stale = [t \in Thread |-> {}]
-----------------------------------------------------------------------------
\* assert(), a null pointer: the process ends and no thread takes a step.
Running == \A t \in Thread : pc[t] # "aborted"

At(t, step) == Running /\ pc[t] = step

Goto(t, step) == pc' = [pc EXCEPT ![t] = step]

\* An operation of the API returns or throws; one that the callback called
\* ends the callback, whose outcome nobody sees, and get_login goes on.
EndOperation(t) ==
  /\ Goto(t, IF inCallback[t] THEN "after_callback" ELSE "idle")
  /\ inCallback' = [inCallback EXCEPT ![t] = FALSE]

\* Where a thread goes on when its remote call returns or throws: a renewer
\* swallows whatever is thrown and sleeps.
AfterCall(t) == IF t \in LoginId THEN "sleep" ELSE "idle"

\* The remote call of t returns or throws, and its locals are gone.
EndCall(t) ==
  /\ Goto(t, AfterCall(t))
  /\ login' = [login EXCEPT ![t] = NoLogin]
  /\ invalid' = [invalid EXCEPT ![t] = NoLogin]
  /\ nested' = [nested EXCEPT ![t] = FALSE]
  /\ cred' = [cred EXCEPT ![t] = NoLogin]
  /\ reported' = [reported EXCEPT ![t] = NoLogin]
  /\ stale' = [stale EXCEPT ![t] = {}]

\* The request of t is sent, with no credential yet.
Send(t) ==
  /\ Goto(t, "get_login")
  /\ stale' = [stale EXCEPT ![t] = held \ {loginInfo}]

\* Mutant of Retry: the request is sent again as it is.
RetryUnchanged(t) ==
  /\ Goto(t, "sent")
  /\ stale' = [stale EXCEPT ![t] = held \ {loginInfo}]
  /\ UNCHANGED <<login, invalid, nested, cred, reported>>

\* throw ForwardRequest(r->target()): the ORB sends the request again.
Retry(t) ==
  /\ Send(t)
  /\ login' = [login EXCEPT ![t] = NoLogin]
  /\ nested' = [nested EXCEPT ![t] = FALSE]
  /\ cred' = [cred EXCEPT ![t] = NoLogin]
  /\ reported' = [reported EXCEPT ![t] = NoLogin]
  /\ UNCHANGED invalid
-----------------------------------------------------------------------------
\* Mutants of LocalLogout: the renewer is never interrupted; _state is left as
\* it was.
LogoutForgetsRenewer ==
  IF state = "LOGGED_OUT"
  THEN UNCHANGED connVars
  ELSE /\ loginInfo' = NoLogin
       /\ invalid_login' = NoLogin
       /\ facets' = FALSE
       /\ state' = "LOGGED_OUT"
       /\ UNCHANGED <<onInvalidLogin, interrupted>>

LogoutForgetsState ==
  IF state = "LOGGED_OUT"
  THEN UNCHANGED connVars
  ELSE /\ interrupted' = interrupted \cup {loginInfo}
       /\ loginInfo' = NoLogin
       /\ invalid_login' = NoLogin
       /\ facets' = FALSE
       /\ UNCHANGED <<state, onInvalidLogin>>

\* The section of _logout under the lock.
LocalLogout ==
  IF state = "LOGGED_OUT"
  THEN UNCHANGED connVars
  ELSE /\ interrupted' = interrupted \cup {loginInfo}
       /\ loginInfo' = NoLogin
       /\ invalid_login' = NoLogin
       /\ facets' = FALSE
       /\ state' = "LOGGED_OUT"
       /\ UNCHANGED onInvalidLogin

\* loginByPassword, loginByCertificate or loginBySharedAuth: the check.
BeginLogin(t) ==
  /\ \/ state = "LOGGED" /\ EndOperation(t)
     \/ state = "LOGGED_OUT" /\ Goto(t, "login_init") /\ UNCHANGED inCallback
  /\ UNCHANGED <<connVars, callVars, opVars, busVars, history>>

\* login_init: the references are fetched from the bus and set together.
LoginInit(t) ==
  /\ At(t, "login_init")
  /\ \/ facets' = TRUE /\ Goto(t, "login_remote") /\ UNCHANGED inCallback
     \/ EndOperation(t) /\ UNCHANGED facets
  /\ UNCHANGED <<state, loginInfo, invalid_login, onInvalidLogin, interrupted,
                 callVars, opVars, busVars, history>>

\* The remote login, through _access_control and _buskey as they are now.  It
\* may fail; loginBySharedAuth refuses the secret of another bus before it.
LoginRemote(t) ==
  /\ At(t, "login_remote")
  /\ \/ /\ facets
        /\ \E id \in LoginId \ issued :
             /\ issued' = issued \cup {id}
             /\ valid' = valid \cup {id}
             /\ granted' = [granted EXCEPT ![t] = id]
        /\ Goto(t, "login") /\ UNCHANGED inCallback
     \/ EndOperation(t) /\ UNCHANGED <<busVars, granted>>
     \/ /\ ~facets
        /\ Goto(t, "aborted")
        /\ UNCHANGED <<inCallback, busVars, granted>>
  /\ UNCHANGED <<connVars, callVars, access_control, history>>

\* Mutant of Login: _state is not checked again.
LoginUnchecked(t) ==
  /\ At(t, "login")
  /\ granted' = [granted EXCEPT ![t] = NoLogin]
  /\ loginInfo' = granted[t]
  /\ invalid_login' = NoLogin
  /\ state' = "LOGGED"
  /\ held' = held \cup {granted[t]}
  /\ access_control' = [access_control EXCEPT ![granted[t]] = facets]
  /\ pc' = [pc EXCEPT ![t] = "login_log", ![granted[t]] = "sleep"]
  /\ UNCHANGED <<facets, onInvalidLogin, interrupted, inCallback, callVars,
                 busVars>>

\* Connection::login: the login becomes the connection's and gets its renewer.
Login(t) ==
  /\ At(t, "login")
  /\ granted' = [granted EXCEPT ![t] = NoLogin]
  /\ \/ /\ state = "LOGGED"
        /\ EndOperation(t)
        /\ UNCHANGED <<connVars, access_control, held>>
     \/ /\ state = "LOGGED_OUT"
        /\ loginInfo' = granted[t]
        /\ invalid_login' = NoLogin
        /\ state' = "LOGGED"
        /\ held' = held \cup {granted[t]}
        /\ access_control' = [access_control EXCEPT ![granted[t]] = facets]
        /\ pc' = [pc EXCEPT ![t] = "login_log", ![granted[t]] = "sleep"]
        /\ UNCHANGED <<facets, onInvalidLogin, interrupted, inCallback>>
  /\ UNCHANGED <<callVars, busVars>>

\* The last line of a login reads _loginInfo->id without the lock.
LoginLog(t) ==
  /\ At(t, "login_log")
  /\ \/ loginInfo = NoLogin /\ Goto(t, "aborted") /\ UNCHANGED inCallback
     \/ loginInfo # NoLogin /\ EndOperation(t)
  /\ UNCHANGED <<connVars, callVars, opVars, busVars, history>>

\* logout(): the local part; when logged out already it returns false at once.
BeginLogout(t) ==
  /\ LocalLogout
  /\ \/ state = "LOGGED_OUT" /\ EndOperation(t) /\ UNCHANGED opVars
     \/ /\ state = "LOGGED"
        /\ Goto(t, "logout_remote")
        /\ granted' = [granted EXCEPT ![t] = loginInfo]
        /\ access_control' = [access_control EXCEPT ![t] = facets]
        /\ UNCHANGED inCallback
  /\ UNCHANGED <<callVars, busVars, history>>

\* The remote logout, sent with the login that was dropped.  InvalidLogin is
\* success; a failed call may have reached the bus or not.
LogoutRemote(t) ==
  /\ At(t, "logout_remote")
  /\ granted' = [granted EXCEPT ![t] = NoLogin]
  /\ access_control' = [access_control EXCEPT ![t] = FALSE]
  /\ \/ /\ access_control[t]
        /\ valid' \in {valid, valid \ {granted[t]}}
        /\ EndOperation(t)
     \/ /\ ~access_control[t]
        /\ Goto(t, "aborted")
        /\ UNCHANGED <<valid, inCallback>>
  /\ UNCHANGED <<connVars, callVars, issued, held>>
-----------------------------------------------------------------------------
\* get_login has returned `id': the request or the nested call is sent with it,
\* or send_request throws NoLogin, which ends the call (as UnavailableBus when
\* it was the nested call that had no login).
GotLogin(t, id) ==
  \/ id = NoLogin /\ EndCall(t)
  \/ /\ id # NoLogin
     /\ Goto(t, IF nested[t] THEN "validity" ELSE "sent")
     /\ login' = [login EXCEPT ![t] = id]
     /\ cred' = IF nested[t] THEN cred ELSE [cred EXCEPT ![t] = id]
     /\ invalid' = [invalid EXCEPT ![t] = NoLogin]
     /\ UNCHANGED <<nested, reported, stale>>

\* get_login goes through its loop (again) for the invalid login `bad'.
CallbackLoop(t, id, bad) ==
  /\ Goto(t, "on_invalid")
  /\ login' = [login EXCEPT ![t] = id]
  /\ invalid' = [invalid EXCEPT ![t] = bad]
  /\ UNCHANGED <<nested, cred, reported, stale>>

\* get_login reads _loginInfo and _invalid_login.
GetLogin(t) ==
  /\ At(t, "get_login")
  /\ IF loginInfo # NoLogin \/ invalid_login = NoLogin
     THEN GotLogin(t, loginInfo)
     ELSE CallbackLoop(t, NoLogin, invalid_login)
  /\ UNCHANGED <<connVars, inCallback, opVars, busVars, history>>

\* `if (!onInvalidLogin())': with no callback the invalid login is forgotten,
\* in a lock section of its own.
OnInvalid(t) ==
  /\ At(t, "on_invalid")
  /\ Goto(t, IF onInvalidLogin THEN "callback" ELSE "forget")
  /\ UNCHANGED <<connVars, callVars, inCallback, opVars, busVars, history>>

Forget(t) ==
  /\ At(t, "forget")
  /\ invalid_login' = NoLogin
  /\ GotLogin(t, login[t])
  /\ UNCHANGED <<state, loginInfo, facets, onInvalidLogin, interrupted,
                 inCallback, opVars, busVars, history>>

\* The callback is read again without the lock: one that was unregistered
\* since throws bad_function_call, which is swallowed like any exception.
Callback(t) ==
  /\ At(t, "callback")
  /\ Goto(t, IF onInvalidLogin THEN "in_callback" ELSE "after_callback")
  /\ inCallback' = [inCallback EXCEPT ![t] = onInvalidLogin]
  /\ UNCHANGED <<connVars, callVars, opVars, busVars, history>>

\* The user's callback returns or throws without using the connection, ...
CallbackReturns(t) ==
  /\ At(t, "in_callback")
  /\ "nothing" \in Callbacks
  /\ EndOperation(t)
  /\ UNCHANGED <<connVars, callVars, opVars, busVars, history>>

\* ... or calls one of its operations.
CallbackLogsIn(t) ==
  At(t, "in_callback") /\ "login" \in Callbacks /\ BeginLogin(t)

CallbackLogsOut(t) ==
  At(t, "in_callback") /\ "logout" \in Callbacks /\ BeginLogout(t)

\* Mutant of AfterCallback: _invalid_login is not reset after the callback.
AfterCallbackAgain(t) ==
  /\ At(t, "after_callback")
  /\ IF invalid_login = NoLogin
     THEN GotLogin(t, loginInfo)
     ELSE CallbackLoop(t, loginInfo, invalid_login)
  /\ UNCHANGED <<connVars, inCallback, opVars, busVars, history>>

\* The loop's last section: another invalid login, or the same, or none.
AfterCallback(t) ==
  /\ At(t, "after_callback")
  /\ IF invalid_login \in {NoLogin, invalid[t]}
     THEN invalid_login' = NoLogin /\ GotLogin(t, loginInfo)
     ELSE /\ CallbackLoop(t, loginInfo, invalid_login)
          /\ UNCHANGED invalid_login
  /\ UNCHANGED <<state, loginInfo, facets, onInvalidLogin, interrupted,
                 inCallback, opVars, busVars, history>>
-----------------------------------------------------------------------------
\* The answer to a request, or NO_PERMISSION{InvalidLogin}.  A login the bus
\* holds invalid may still be accepted from a server's cache, and a server may
\* report one that is valid.
Reply(t) ==
  /\ At(t, "sent")
  /\ \/ EndCall(t)
     \/ /\ Misreports \/ cred[t] \notin valid
        /\ Goto(t, "invalid_login")
        /\ UNCHANGED callVars
  /\ UNCHANGED <<connVars, inCallback, opVars, busVars, history>>

\* receive_exception, InvalidLogin: the login is read from the connection.
ReportedLogin(t) ==
  /\ At(t, "invalid_login")
  /\ reported' = [reported EXCEPT ![t] = loginInfo]
  /\ Goto(t, "registry")
  /\ UNCHANGED <<connVars, login, invalid, nested, cred, stale, inCallback,
                 opVars, busVars, history>>

\* getLoginRegistry: with a reference the nested getLoginValidity starts, and
\* asks for the login again; without one the ForwardRequest is thrown inside
\* the try, whose last handler makes it UnavailableBus.
Registry(t) ==
  /\ At(t, "registry")
  /\ \/ /\ facets
        /\ Goto(t, "get_login")
        /\ nested' = [nested EXCEPT ![t] = TRUE]
        /\ login' = [login EXCEPT ![t] = NoLogin]
        /\ UNCHANGED <<invalid, cred, reported, stale>>
     \/ ~facets /\ EndCall(t)
  /\ UNCHANGED <<connVars, inCallback, opVars, busVars, history>>

\* The nested call succeeds and says the reported login is valid: the
\* interceptor throws InvalidRemote.
BlamesRemote(t) ==
  pc[t] = "validity" /\ login[t] \in valid /\ reported[t] \in valid

\* Mutant of Validity: any NO_PERMISSION counts as InvalidLogin.
ValidityAnyMinor(t) ==
  /\ At(t, "validity")
  /\ \/ Goto(t, "compare") /\ UNCHANGED callVars
     \/ BlamesRemote(t) /\ EndCall(t)
     \/ login[t] \in valid /\ reported[t] \notin valid /\ Retry(t)
     \/ EndCall(t)
  /\ UNCHANGED <<connVars, inCallback, opVars, busVars, history>>

\* The bus answers getLoginValidity(reported): it refuses a credential with an
\* invalid login and says 0 of one.  Any failure becomes UnavailableBus.
Validity(t) ==
  /\ At(t, "validity")
  /\ \/ login[t] \notin valid /\ Goto(t, "compare") /\ UNCHANGED callVars
     \/ BlamesRemote(t) /\ EndCall(t)
     \/ login[t] \in valid /\ reported[t] \notin valid /\ Retry(t)
     \/ EndCall(t)
  /\ UNCHANGED <<connVars, inCallback, opVars, busVars, history>>

\* Is the reported login still the connection's?
Compare(t) ==
  /\ At(t, "compare")
  /\ \/ loginInfo = reported[t] /\ Goto(t, "drop") /\ UNCHANGED callVars
     \/ loginInfo # reported[t] /\ Retry(t)
  /\ UNCHANGED <<connVars, inCallback, opVars, busVars, history>>

\* conn->_logout(true)
Drop(t) ==
  /\ At(t, "drop")
  /\ LocalLogout
  /\ Goto(t, "set_invalid")
  /\ UNCHANGED <<callVars, inCallback, opVars, busVars, history>>

\* _invalid_login is set, in a lock section of its own; then ForwardRequest.
SetInvalid(t) ==
  /\ At(t, "set_invalid")
  /\ invalid_login' = reported[t]
  /\ Retry(t)
  /\ UNCHANGED <<state, loginInfo, facets, onInvalidLogin, interrupted,
                 inCallback, opVars, busVars, history>>
-----------------------------------------------------------------------------
\* Mutant of Renew: the interruption is swallowed with the other exceptions.
RenewInterrupted(id) ==
  /\ At(id, "sleep")
  /\ id \in Renewing
  /\ \/ access_control[id] /\ Send(id)
     \/ ~access_control[id] /\ Goto(id, "aborted") /\ UNCHANGED stale
  /\ UNCHANGED <<connVars, login, invalid, nested, cred, reported, inCallback,
                 opVars, busVars, history>>

\* renewLogin: the thread wakes up and renews, or finds it was interrupted.
Renew(id) ==
  /\ At(id, "sleep")
  /\ id \in Renewing \ interrupted
  /\ \/ access_control[id] /\ Send(id)
     \/ ~access_control[id] /\ Goto(id, "aborted") /\ UNCHANGED stale
  /\ UNCHANGED <<connVars, login, invalid, nested, cred, reported, inCallback,
                 opVars, busVars, history>>

RenewerEnds(id) ==
  /\ At(id, "sleep")
  /\ id \in interrupted
  /\ Goto(id, "ended")
  /\ access_control' = [access_control EXCEPT ![id] = FALSE]
  /\ UNCHANGED <<connVars, callVars, inCallback, granted, busVars, history>>

\* Operations an application thread starts.
AppLogsIn(t) == At(t, "idle") /\ t \in LoginThread /\ BeginLogin(t)

AppLogsOut(t) == At(t, "idle") /\ t \in LogoutThread /\ BeginLogout(t)

AppCalls(t) ==
  /\ At(t, "idle")
  /\ t \in CallThread
  /\ Send(t)
  /\ UNCHANGED <<connVars, login, invalid, nested, cred, reported, inCallback,
                 opVars, busVars, history>>

\* onInvalidLogin(p): the callback is registered or unregistered.
SetOnInvalidLogin ==
  /\ Running
  /\ onInvalidLogin' = ~onInvalidLogin
  /\ UNCHANGED <<state, loginInfo, invalid_login, facets, interrupted, pc,
                 callVars, inCallback, opVars, busVars, history>>

\* The administrator, or a lease that was not renewed in time.
BusInvalidates(id) ==
  /\ Running
  /\ id \in valid
  /\ valid' = valid \ {id}
  /\ UNCHANGED <<connVars, pc, callVars, inCallback, opVars, issued, history>>

\* What thread t does next inside an operation it has begun.
Continue(t) ==
  \/ LoginInit(t) \/ LoginRemote(t) \/ Login(t) \/ LoginLog(t)
  \/ LogoutRemote(t)
  \/ GetLogin(t) \/ OnInvalid(t) \/ Forget(t) \/ Callback(t)
  \/ CallbackReturns(t) \/ CallbackLogsIn(t) \/ CallbackLogsOut(t)
  \/ AfterCallback(t)
  \/ Reply(t) \/ ReportedLogin(t) \/ Registry(t) \/ Validity(t)
  \/ Compare(t) \/ Drop(t) \/ SetInvalid(t)

Begin(t) == AppLogsIn(t) \/ AppLogsOut(t) \/ AppCalls(t)

Next ==
  \/ \E t \in Thread : Continue(t)
  \/ \E t \in App : Begin(t)
  \/ \E id \in LoginId : Renew(id) \/ RenewerEnds(id) \/ BusInvalidates(id)
  \/ SetOnInvalidLogin

Spec == Init /\ [][Next]_vars

\* Threads are scheduled, remote calls return or fail, callbacks return.
Fairness ==
  /\ \A t \in Thread : WF_vars(Continue(t))
  /\ \A id \in LoginId : WF_vars(RenewerEnds(id))

FairSpec == Spec /\ Fairness
-----------------------------------------------------------------------------
\* The variables keep their types.
TypeOK ==
  /\ state \in {"LOGGED", "LOGGED_OUT"}
  /\ loginInfo \in OptLogin /\ invalid_login \in OptLogin
  /\ facets \in BOOLEAN /\ onInvalidLogin \in BOOLEAN
  /\ interrupted \subseteq LoginId
  /\ pc \in [Thread -> Step]
  /\ login \in [Thread -> OptLogin] /\ invalid \in [Thread -> OptLogin]
  /\ nested \in [Thread -> BOOLEAN] /\ inCallback \in [Thread -> BOOLEAN]
  /\ cred \in [Thread -> OptLogin] /\ reported \in [Thread -> OptLogin]
  /\ granted \in [Thread -> OptLogin]
  /\ access_control \in [Thread -> BOOLEAN]
  /\ valid \subseteq LoginId /\ issued \subseteq LoginId
  /\ stale \in [Thread -> SUBSET LoginId]
  /\ held \subseteq LoginId

\* _state says LOGGED exactly while there is a login: connection.cpp:426
\* asserts it before _logout copies *_loginInfo.
StateMatchesLogin == state = "LOGGED" <=> loginInfo # NoLogin

\* The login in use has a renewer thread that nobody interrupted, and every
\* other renewer that was started and has not ended was interrupted: no login
\* lapses for want of a renewer, no renewer outlives its login.
RenewerPerLogin ==
  \A id \in LoginId :
    LET running == pc[id] \notin {"unborn", "ended"} IN
    /\ loginInfo = id => running /\ id \notin interrupted
    /\ loginInfo # id /\ running => id \in interrupted

\* The InvalidLogin callback is called only for a login the bus has declared
\* invalid: neither _invalid_login nor the copies of it in get_login ever name
\* one that is still valid.
CallbackForInvalidLogins ==
  /\ invalid_login \notin valid
  /\ \A t \in Thread : invalid[t] \notin valid

\* A request never carries a login that was dropped before it was sent, the
\* first time or again: the interceptor asks for the login anew each time.
NoStaleCredential ==
  \A t \in Thread : pc[t] = "sent" => cred[t] \notin stale[t]

\* A login is dropped before another takes its place, and none comes back:
\* of two threads that log in at once, the second gets AlreadyLoggedIn.
LoginsNeverReplaced ==
  [][loginInfo' # loginInfo /\ loginInfo' # NoLogin
       => loginInfo = NoLogin /\ loginInfo' \notin held]_vars

\* A remote call returns or throws: however its login is dropped, replaced or
\* declared invalid meanwhile, the interceptor does not retry for ever.
InCall(t) == pc[t] \in CallStep \/ inCallback[t]
CallsEnd == \A t \in Thread : InCall(t) ~> ~InCall(t) \/ ~Running

\* The renewer of a login that was dropped ends, whatever it was doing.
RenewersEnd ==
  \A id \in LoginId : id \in interrupted ~> pc[id] = "ended" \/ ~Running
=============================================================================
