-------------------------- MODULE ConnectionProofs --------------------------
(***************************************************************************)
(* Safety of Connection for any number of threads and logins.  The inv-    *)
(* ariants that TLC checks are not inductive; IInv strengthens them with   *)
(* what the threads remember: which logins they know, what a pending login *)
(* was granted, and what get_login may assume of the login it asks for.    *)
(***************************************************************************)
EXTENDS Connection, TLAPS

Known == held \cup {NoLogin}

\* The bus issues a login before the connection holds it, and the renewers of
\* all the logins that were dropped, and no other, are interrupted.
Logins ==
  /\ held \subseteq issued
  /\ valid \subseteq issued
  /\ loginInfo \in Known
  /\ interrupted = held \ {loginInfo}
  /\ invalid_login \in Known \ valid

\* A login granted to a thread and not yet the connection's is its alone; the
\* login a thread is ending at the bus is one the connection held.
Granted ==
  \A t \in Thread :
    /\ pc[t] = "login" =>
         /\ granted[t] \in issued \ held
         /\ \A u \in Thread : pc[u] = "login" /\ granted[u] = granted[t] => u = t
    /\ pc[t] = "logout_remote" => granted[t] \in held

\* A login has a renewer from when the connection holds it; only interrupted
\* renewers end.
Renewers ==
  \A id \in LoginId :
    /\ id \in held <=> pc[id] # "unborn"
    /\ pc[id] = "ended" => id \in interrupted

\* A thread knows no login that the connection did not hold.
RememberedBy(t) ==
  /\ login[t] \in Known
  /\ cred[t] \in Known
  /\ reported[t] \in Known
  /\ invalid[t] \in Known \ valid
  /\ stale[t] \subseteq interrupted

\* What get_login returns while the login reported invalid is still in use is
\* that login.
SameOrDropped(t) ==
  \/ login[t] \in {reported[t], NoLogin}
  \/ reported[t] \in interrupted \cup {NoLogin}

\* Where the call of t stands, and what it knows there.
RequestOf(t) ==
  /\ pc[t] \in {"on_invalid", "forget"} => login[t] \notin stale[t]
  /\ pc[t] \in {"on_invalid", "forget"} /\ nested[t] => SameOrDropped(t)
  /\ pc[t] = "sent" => cred[t] \notin stale[t]
  /\ pc[t] = "validity" => SameOrDropped(t) /\ login[t] # NoLogin
  /\ pc[t] = "compare" => reported[t] \notin valid \/ reported[t] \in interrupted
  /\ pc[t] \in {"drop", "set_invalid"} => reported[t] \notin valid

Requests == \A t \in Thread : RememberedBy(t) /\ RequestOf(t)

IInv ==
  /\ TypeOK
  /\ StateMatchesLogin
  /\ Logins
  /\ Granted
  /\ Renewers
  /\ Requests
-----------------------------------------------------------------------------
(* Type correctness. *)

CallTypes ==
  /\ pc \in [Thread -> Step]
  /\ login \in [Thread -> OptLogin] /\ invalid \in [Thread -> OptLogin]
  /\ nested \in [Thread -> BOOLEAN]
  /\ cred \in [Thread -> OptLogin] /\ reported \in [Thread -> OptLogin]
  /\ stale \in [Thread -> SUBSET LoginId]

ConnTypes ==
  /\ state \in {"LOGGED", "LOGGED_OUT"}
  /\ loginInfo \in OptLogin /\ invalid_login \in OptLogin
  /\ facets \in BOOLEAN /\ onInvalidLogin \in BOOLEAN
  /\ interrupted \subseteq LoginId

LEMMA StepNames ==
  /\ {"idle", "sleep", "ended", "logout_remote", "aborted"} \subseteq Step
  /\ CallStep \subseteq Step
  /\ LoginStep \subseteq Step
  /\ NoLogin \in OptLogin
  /\ LoginId \subseteq OptLogin
  /\ LoginId \subseteq Thread
BY DEF Step, OptLogin, Thread

\* A thread may go to any step of the program.
LEMMA GotoType ==
  ASSUME TypeOK, NEW t \in Thread, NEW step \in Step, Goto(t, step)
  PROVE  pc' \in [Thread -> Step]
BY DEF TypeOK, Goto

\* An operation ends at rest, or in the callback that called it.
LEMMA EndOperationType ==
  ASSUME TypeOK, NEW t \in Thread, EndOperation(t)
  PROVE  pc' \in [Thread -> Step] /\ inCallback' \in [Thread -> BOOLEAN]
BY StepNames DEF TypeOK, EndOperation, Goto, CallStep

\* The ends of a call keep the types of what the call remembers.
LEMMA EndCallType ==
  ASSUME TypeOK, NEW t \in Thread, EndCall(t)
  PROVE  CallTypes'
<1>1. NoLogin \in OptLogin /\ AfterCall(t) \in Step
  BY DEF OptLogin, AfterCall, Step
<1> QED BY <1>1 DEF TypeOK, CallTypes, EndCall, Goto

LEMMA SendType ==
  ASSUME TypeOK, NEW t \in Thread, Send(t)
  PROVE  pc' \in [Thread -> Step] /\ stale' \in [Thread -> SUBSET LoginId]
BY DEF TypeOK, Send, Goto, Step, CallStep

LEMMA RetryType ==
  ASSUME TypeOK, NEW t \in Thread, Retry(t)
  PROVE  CallTypes'
<1>1. NoLogin \in OptLogin
  BY DEF OptLogin
<1> QED BY <1>1, SendType DEF TypeOK, CallTypes, Retry

LEMMA GotLoginType ==
  ASSUME TypeOK, NEW t \in Thread, NEW id \in OptLogin, GotLogin(t, id)
  PROVE  CallTypes'
<1>1. CASE EndCall(t)
  BY <1>1, EndCallType
<1>2. CASE ~EndCall(t)
  <2>1. NoLogin \in OptLogin /\ "validity" \in Step /\ "sent" \in Step
    BY DEF OptLogin, Step, CallStep
  <2> QED BY <1>2, <2>1 DEF TypeOK, CallTypes, GotLogin, Goto
<1> QED BY <1>1, <1>2

LEMMA CallbackLoopType ==
  ASSUME TypeOK, NEW t \in Thread, NEW id \in OptLogin, NEW bad \in OptLogin,
         CallbackLoop(t, id, bad)
  PROVE  CallTypes'
<1>1. "on_invalid" \in Step
  BY DEF Step, CallStep
<1> QED BY <1>1 DEF TypeOK, CallTypes, CallbackLoop, Goto

\* _logout never interrupts a renewer that is none.
LEMMA LocalLogoutType ==
  ASSUME TypeOK, StateMatchesLogin, LocalLogout
  PROVE  ConnTypes'
BY DEF TypeOK, StateMatchesLogin, ConnTypes, LocalLogout, OptLogin, connVars

\* Every step of the program keeps the types.
LEMMA TypeNext ==
  ASSUME IInv, [Next]_vars
  PROVE  TypeOK'
<1> USE StepNames
<1>0. TypeOK /\ StateMatchesLogin /\ Granted
  BY DEF IInv
<1>1. ASSUME NEW t \in Thread, LoginInit(t) PROVE TypeOK'
  BY <1>0, <1>1, EndOperationType DEF LoginInit, TypeOK, Goto, CallStep,
        LoginStep, connVars, callVars, opVars, busVars, history
<1>2. ASSUME NEW t \in Thread, LoginRemote(t) PROVE TypeOK'
  BY <1>0, <1>2, EndOperationType DEF LoginRemote, TypeOK, Goto, CallStep,
        LoginStep, connVars, callVars, opVars, busVars, history
<1>3. ASSUME NEW t \in Thread, Login(t) PROVE TypeOK'
  <2>1. granted[t] \in LoginId
    BY <1>0, <1>3 DEF Login, At, Granted, TypeOK
  <2>2. CASE state = "LOGGED"
    BY <1>0, <1>3, <2>2, EndOperationType DEF Login, TypeOK, connVars, callVars,
       busVars
  <2>3. CASE state = "LOGGED_OUT"
    <3>1. pc' \in [Thread -> Step]
      BY <1>0, <1>3, <2>1, <2>3 DEF Login, TypeOK, LoginStep
    <3> QED BY <1>0, <1>3, <2>1, <2>3, <3>1 DEF Login, TypeOK, callVars, busVars
  <2> QED BY <1>0, <2>2, <2>3 DEF TypeOK
<1>4. ASSUME NEW t \in Thread, LoginLog(t) PROVE TypeOK'
  BY <1>0, <1>4, EndOperationType DEF LoginLog, TypeOK, Goto, CallStep,
        LoginStep, connVars, callVars, opVars, busVars, history
<1>5. ASSUME NEW t \in Thread, LogoutRemote(t) PROVE TypeOK'
  BY <1>0, <1>5, EndOperationType DEF LogoutRemote, TypeOK, Granted, At, Goto,
        CallStep, LoginStep, connVars, callVars, opVars, busVars, history
<1>6. ASSUME NEW t \in Thread, GetLogin(t) PROVE TypeOK'
  BY <1>0, <1>6, GotLoginType, CallbackLoopType DEF GetLogin, TypeOK,
        CallTypes, Goto, CallStep, LoginStep, connVars, callVars, opVars,
        busVars, history
<1>7. ASSUME NEW t \in Thread, OnInvalid(t) PROVE TypeOK'
  BY <1>0, <1>7 DEF OnInvalid, TypeOK, Goto, CallStep, LoginStep, connVars,
        callVars, opVars, busVars, history
<1>8. ASSUME NEW t \in Thread, Forget(t) PROVE TypeOK'
  BY <1>0, <1>8, GotLoginType DEF Forget, TypeOK, CallTypes, Goto, CallStep,
        LoginStep, connVars, callVars, opVars, busVars, history
<1>9. ASSUME NEW t \in Thread, Callback(t) PROVE TypeOK'
  BY <1>0, <1>9 DEF Callback, TypeOK, Goto, CallStep, LoginStep, connVars,
        callVars, opVars, busVars, history
<1>10. ASSUME NEW t \in Thread, CallbackReturns(t) PROVE TypeOK'
  BY <1>0, <1>10, EndOperationType DEF CallbackReturns, TypeOK, Goto,
        CallStep, LoginStep, connVars, callVars, opVars, busVars, history
<1>11. ASSUME NEW t \in Thread, BeginLogin(t) PROVE TypeOK'
  BY <1>0, <1>11, EndOperationType DEF BeginLogin, TypeOK, Goto, CallStep,
        LoginStep, connVars, callVars, opVars, busVars, history
<1>12. ASSUME NEW t \in Thread, BeginLogout(t) PROVE TypeOK'
  BY <1>0, <1>12, EndOperationType, LocalLogoutType DEF BeginLogout, TypeOK,
        ConnTypes, Goto, CallStep, LoginStep, connVars, callVars, opVars,
        busVars, history
<1>13. ASSUME NEW t \in Thread, AfterCallback(t) PROVE TypeOK'
  BY <1>0, <1>13, GotLoginType, CallbackLoopType DEF AfterCallback, TypeOK,
        CallTypes, Goto, CallStep, LoginStep, connVars, callVars, opVars,
        busVars, history
<1>14. ASSUME NEW t \in Thread, Reply(t) PROVE TypeOK'
  BY <1>0, <1>14, EndCallType DEF Reply, TypeOK, CallTypes, Goto, CallStep,
        LoginStep, connVars, callVars, opVars, busVars, history
<1>15. ASSUME NEW t \in Thread, ReportedLogin(t) PROVE TypeOK'
  BY <1>0, <1>15 DEF ReportedLogin, TypeOK, Goto, CallStep, LoginStep,
        connVars, callVars, opVars, busVars, history
<1>16. ASSUME NEW t \in Thread, Registry(t) PROVE TypeOK'
  <2>1. CASE Goto(t, "get_login") /\ nested' = [nested EXCEPT ![t] = TRUE]
               /\ login' = [login EXCEPT ![t] = NoLogin]
               /\ UNCHANGED <<invalid, cred, reported, stale>>
    <3>1. pc' \in [Thread -> Step]
      BY <1>0, <2>1, GotoType DEF CallStep
    <3> QED BY <1>0, <1>16, <2>1, <3>1 DEF Registry, TypeOK, connVars, opVars,
               busVars, history
  <2>2. CASE EndCall(t)
    BY <1>0, <1>16, <2>2, EndCallType DEF Registry, TypeOK, CallTypes,
       connVars, opVars, busVars, history
  <2> QED BY <1>16, <2>1, <2>2 DEF Registry
<1>17. ASSUME NEW t \in Thread, Validity(t) PROVE TypeOK'
  BY <1>0, <1>17, EndCallType, RetryType DEF Validity, TypeOK, CallTypes,
        Goto, CallStep, LoginStep, connVars, callVars, opVars, busVars,
        history
<1>18. ASSUME NEW t \in Thread, Compare(t) PROVE TypeOK'
  BY <1>0, <1>18, RetryType DEF Compare, TypeOK, CallTypes, Goto, CallStep,
        LoginStep, connVars, callVars, opVars, busVars, history
<1>19. ASSUME NEW t \in Thread, Drop(t) PROVE TypeOK'
  BY <1>0, <1>19, LocalLogoutType DEF Drop, TypeOK, ConnTypes, Goto, CallStep,
        LoginStep, connVars, callVars, opVars, busVars, history
<1>20. ASSUME NEW t \in Thread, SetInvalid(t) PROVE TypeOK'
  BY <1>0, <1>20, RetryType DEF SetInvalid, TypeOK, CallTypes, Goto, CallStep,
        LoginStep, connVars, callVars, opVars, busVars, history
<1>21. ASSUME NEW t \in Thread, AppCalls(t) PROVE TypeOK'
  BY <1>0, <1>21, SendType DEF AppCalls, TypeOK, Goto, CallStep, LoginStep,
        connVars, callVars, opVars, busVars, history
<1>22. ASSUME NEW t \in LoginId, Renew(t) PROVE TypeOK'
  BY <1>0, <1>22, SendType DEF Renew, TypeOK, Goto, CallStep, LoginStep,
        connVars, callVars, opVars, busVars, history
<1>23. ASSUME NEW t \in LoginId, RenewerEnds(t) PROVE TypeOK'
  BY <1>0, <1>23 DEF RenewerEnds, TypeOK, Goto, CallStep, LoginStep, connVars,
        callVars, opVars, busVars, history
<1>24. ASSUME NEW t \in LoginId, BusInvalidates(t) PROVE TypeOK'
  BY <1>0, <1>24 DEF BusInvalidates, TypeOK, Goto, CallStep, LoginStep,
        connVars, callVars, opVars, busVars, history
<1>25. ASSUME SetOnInvalidLogin PROVE TypeOK'
  BY <1>0, <1>25 DEF SetOnInvalidLogin, TypeOK, Goto, CallStep, LoginStep,
        connVars, callVars, opVars, busVars, history
<1>26. CASE UNCHANGED vars
  BY <1>0, <1>26 DEF TypeOK, vars, connVars, callVars, opVars, busVars,
        history
<1> QED BY <1>1, <1>2, <1>3, <1>4, <1>5, <1>6, <1>7, <1>8, <1>9, <1>10, <1>11,
        <1>12, <1>13, <1>14, <1>15, <1>16, <1>17, <1>18, <1>19, <1>20, <1>21,
        <1>22, <1>23, <1>24, <1>25, <1>26 DEF Next, Continue, Begin,
        CallbackLogsIn, CallbackLogsOut, AppLogsIn, AppLogsOut, Thread
-----------------------------------------------------------------------------
(* The logins of the connection.  Most actions leave them alone. *)

LoginVars == <<state, loginInfo, invalid_login, interrupted, valid, issued, held>>

\* An application thread, or the callback that a thread runs, may act.
Starts(t) == At(t, "idle") \/ At(t, "in_callback")

\* The actions that change none of LoginVars.
Quiet(t) ==
  \/ LoginInit(t) \/ LoginLog(t) \/ GetLogin(t) \/ OnInvalid(t) \/ Callback(t)
  \/ CallbackReturns(t) \/ Reply(t) \/ ReportedLogin(t) \/ Registry(t)
  \/ Validity(t) \/ Compare(t) \/ AppCalls(t)
  \/ Starts(t) /\ BeginLogin(t)
  \/ t \in LoginId /\ (Renew(t) \/ RenewerEnds(t))

\* The others, where only _logout's local section is shared by two of them.
Loud(t) ==
  \/ LoginRemote(t) \/ Login(t) \/ LogoutRemote(t)
  \/ Starts(t) /\ BeginLogout(t)
  \/ Forget(t) \/ AfterCallback(t) \/ Drop(t) \/ SetInvalid(t)

\* Every step is one of these.
LEMMA StepCases ==
  ASSUME [Next]_vars
  PROVE  \/ UNCHANGED vars
         \/ SetOnInvalidLogin
         \/ \E id \in LoginId : BusInvalidates(id)
         \/ \E t \in Thread : Quiet(t)
         \/ \E t \in Thread : Loud(t)
<1>1. ASSUME NEW t \in Thread, Continue(t) PROVE Quiet(t) \/ Loud(t)
  BY <1>1 DEF Continue, Quiet, Loud, Starts, CallbackLogsIn, CallbackLogsOut
<1>2. ASSUME NEW t \in App, Begin(t) PROVE Quiet(t) \/ Loud(t)
  BY <1>2 DEF Begin, Quiet, Loud, Starts, AppLogsIn, AppLogsOut
<1>3. ASSUME NEW id \in LoginId, Renew(id) \/ RenewerEnds(id) PROVE Quiet(id)
  BY <1>3 DEF Quiet
<1> QED BY <1>1, <1>2, <1>3 DEF Next, Thread

LEMMA QuietLogins ==
  ASSUME NEW t \in Thread, Quiet(t)
  PROVE  UNCHANGED LoginVars
BY DEF Quiet, LoginVars, LoginInit, LoginLog, GetLogin, OnInvalid, Callback,
       CallbackReturns, BeginLogin, Reply, ReportedLogin, Registry, Validity,
       Compare, AppCalls, Renew, RenewerEnds, connVars, busVars, history

\* _logout drops the login and has its renewer interrupted.
LEMMA LocalLogoutWorks ==
  ASSUME IInv, LocalLogout
  PROVE  /\ loginInfo' = NoLogin
         /\ state' = "LOGGED_OUT"
         /\ interrupted' = held
         /\ invalid_login' \in {NoLogin, invalid_login}
<1>0. StateMatchesLogin /\ Logins
  BY DEF IInv
<1>1. CASE state = "LOGGED_OUT"
  <2>1. loginInfo = NoLogin /\ interrupted = held
    <3>1. NoLogin \notin held
      BY ConnectionAssumption DEF IInv, TypeOK
    <3>2. loginInfo = NoLogin
      BY <1>0, <1>1 DEF StateMatchesLogin
    <3> QED BY <1>0, <3>1, <3>2 DEF Logins
  <2> QED BY <1>1, <2>1 DEF LocalLogout, connVars
<1>2. CASE state # "LOGGED_OUT"
  <2>1. loginInfo \in held
    BY <1>0, <1>2 DEF IInv, TypeOK, StateMatchesLogin, Logins, Known
  <2> QED BY <1>0, <1>2, <2>1 DEF LocalLogout, Logins
<1> QED BY <1>1, <1>2

LEMMA LoginsNext ==
  ASSUME IInv, [Next]_vars, TypeOK'
  PROVE  StateMatchesLogin' /\ Logins'
<1> DEFINE Goal == StateMatchesLogin' /\ Logins'
<1>0. /\ TypeOK /\ StateMatchesLogin /\ Logins /\ Granted /\ Requests
      /\ NoLogin \notin LoginId
  BY ConnectionAssumption DEF IInv
<1>1. ASSUME UNCHANGED LoginVars PROVE Goal
  BY <1>0, <1>1 DEF LoginVars, StateMatchesLogin, Logins, Known
<1>2. ASSUME NEW t \in Thread, LoginRemote(t) PROVE Goal
  BY <1>0, <1>2 DEF LoginRemote, StateMatchesLogin, Logins, Known, connVars,
     busVars, history, TypeOK, OptLogin
<1>3. ASSUME NEW t \in Thread, Login(t) PROVE Goal
  <2>1. granted[t] \in issued \ held /\ granted[t] \in LoginId
    BY <1>0, <1>3 DEF Login, At, Granted, TypeOK
  <2> QED BY <1>0, <1>3, <2>1 DEF Login, StateMatchesLogin, Logins, Known,
             connVars, busVars, TypeOK
<1>4. ASSUME NEW t \in Thread, BeginLogout(t) PROVE Goal
  BY <1>0, <1>4, LocalLogoutWorks DEF BeginLogout, StateMatchesLogin, Logins,
     Known, busVars, history, TypeOK
<1>5. ASSUME NEW t \in Thread, LogoutRemote(t) PROVE Goal
  BY <1>0, <1>5 DEF LogoutRemote, StateMatchesLogin, Logins, Known, connVars
<1>6. ASSUME NEW t \in Thread, Forget(t) \/ AfterCallback(t) PROVE Goal
  BY <1>0, <1>6 DEF Forget, AfterCallback, StateMatchesLogin, Logins, Known,
     busVars, history, TypeOK
<1>7. ASSUME NEW t \in Thread, Drop(t) PROVE Goal
  BY <1>0, <1>7, LocalLogoutWorks DEF Drop, StateMatchesLogin, Logins, Known,
     busVars, history, TypeOK
<1>8. ASSUME NEW t \in Thread, SetInvalid(t) PROVE Goal
  BY <1>0, <1>8 DEF SetInvalid, At, StateMatchesLogin, Logins, Known, Requests,
     RememberedBy, RequestOf, busVars, history
<1>9. ASSUME NEW id \in LoginId, BusInvalidates(id) PROVE Goal
  BY <1>0, <1>9 DEF BusInvalidates, StateMatchesLogin, Logins, Known, connVars,
     history
<1>10. ASSUME SetOnInvalidLogin PROVE UNCHANGED LoginVars
  BY <1>10 DEF SetOnInvalidLogin, LoginVars, busVars, history
<1>11. ASSUME UNCHANGED vars PROVE UNCHANGED LoginVars
  BY <1>11 DEF vars, LoginVars, connVars, busVars, history
<1> HIDE DEF Goal
<1>12. Goal
  BY <1>1, <1>2, <1>3, <1>4, <1>5, <1>6, <1>7, <1>8, <1>9, <1>10, <1>11,
     StepCases, QuietLogins DEF Loud
<1> QED BY <1>12 DEF Goal

\* Logins are never forgotten, dropped logins stay dropped, and a login that
\* becomes valid is one nobody has heard of.
LEMMA Growth ==
  ASSUME IInv, [Next]_vars
  PROVE  /\ held \subseteq held'
         /\ interrupted \subseteq interrupted'
         /\ valid' \cap held \subseteq valid
         /\ loginInfo' # loginInfo /\ loginInfo' # NoLogin
              => loginInfo = NoLogin /\ loginInfo' \notin held
<1> DEFINE Goal == /\ held \subseteq held'
                   /\ interrupted \subseteq interrupted'
                   /\ valid' \cap held \subseteq valid
                   /\ loginInfo' # loginInfo /\ loginInfo' # NoLogin
                        => loginInfo = NoLogin /\ loginInfo' \notin held
<1>0. TypeOK /\ StateMatchesLogin /\ Logins /\ Granted
  BY DEF IInv
<1>1. ASSUME UNCHANGED LoginVars PROVE Goal
  BY <1>0, <1>1 DEF LoginVars
<1>2. ASSUME NEW t \in Thread, LoginRemote(t) PROVE Goal
  BY <1>0, <1>2 DEF LoginRemote, Logins, connVars, busVars, history
<1>3. ASSUME NEW t \in Thread, Login(t) PROVE Goal
  <2>1. granted[t] \in issued \ held
    BY <1>0, <1>3 DEF Login, At, Granted
  <2> QED BY <1>0, <1>3, <2>1 DEF Login, StateMatchesLogin, connVars, busVars
<1>4. ASSUME NEW t \in Thread, BeginLogout(t) \/ Drop(t) PROVE Goal
  BY <1>0, <1>4, LocalLogoutWorks DEF BeginLogout, Drop, Logins, busVars, history
<1>5. ASSUME NEW t \in Thread, LogoutRemote(t) PROVE Goal
  BY <1>0, <1>5 DEF LogoutRemote, connVars
<1>6. ASSUME NEW t \in Thread, Forget(t) \/ AfterCallback(t) \/ SetInvalid(t)
      PROVE  Goal
  BY <1>0, <1>6 DEF Forget, AfterCallback, SetInvalid, busVars, history
<1>7. ASSUME NEW id \in LoginId, BusInvalidates(id) PROVE Goal
  BY <1>0, <1>7 DEF BusInvalidates, connVars, history
<1>8. ASSUME SetOnInvalidLogin PROVE UNCHANGED LoginVars
  BY <1>8 DEF SetOnInvalidLogin, LoginVars, busVars, history
<1>9. ASSUME UNCHANGED vars PROVE UNCHANGED LoginVars
  BY <1>9 DEF vars, LoginVars, connVars, busVars, history
<1> HIDE DEF Goal
<1>10. Goal
  BY <1>1, <1>2, <1>3, <1>4, <1>5, <1>6, <1>7, <1>8, <1>9, StepCases,
     QuietLogins DEF Loud
<1> QED BY <1>10 DEF Goal

-----------------------------------------------------------------------------
(* Pending logins and renewers. *)

\* The steps a thread reaches without taking part in a login or a logout.
PlainStep == Step \ {"login", "logout_remote", "unborn", "ended"}

\* Thread t, which exists, goes on; nobody is granted a login or gets one.
Plain(t) ==
  /\ \E step \in PlainStep : Goto(t, step)
  /\ pc[t] # "unborn"
  /\ UNCHANGED <<granted, issued, held>>

LEMMA PlainSteps ==
  /\ {"idle", "sleep", "aborted"} \subseteq PlainStep
  /\ CallStep \subseteq PlainStep
  /\ {"login_init", "login_remote", "login_log"} \subseteq PlainStep
BY DEF PlainStep, Step, CallStep, LoginStep

LEMMA EndsArePlain ==
  ASSUME NEW t \in Thread
  PROVE  /\ EndOperation(t) => \E step \in PlainStep : Goto(t, step)
         /\ EndCall(t) => \E step \in PlainStep : Goto(t, step)
         /\ Send(t) => \E step \in PlainStep : Goto(t, step)
         /\ Retry(t) => \E step \in PlainStep : Goto(t, step)
BY PlainSteps DEF EndOperation, EndCall, AfterCall, Send, Retry, CallStep

LEMMA GetsArePlain ==
  ASSUME NEW t \in Thread, NEW id, NEW bad
  PROVE  /\ GotLogin(t, id) => \E step \in PlainStep : Goto(t, step)
         /\ CallbackLoop(t, id, bad) => \E step \in PlainStep : Goto(t, step)
BY PlainSteps, EndsArePlain DEF GotLogin, CallbackLoop, CallStep

\* Every action of a call is plain.
LEMMA CallsArePlain ==
  ASSUME NEW t \in Thread,
         \/ GetLogin(t) \/ OnInvalid(t) \/ Forget(t) \/ Callback(t)
         \/ AfterCallback(t) \/ Reply(t) \/ ReportedLogin(t) \/ Registry(t)
         \/ Validity(t) \/ Compare(t) \/ Drop(t) \/ SetInvalid(t)
  PROVE  Plain(t)
<1>1. pc[t] # "unborn" /\ UNCHANGED <<granted, issued, held>>
  BY DEF GetLogin, OnInvalid, Forget, Callback, AfterCallback, Reply,
     ReportedLogin, Registry, Validity, Compare, Drop, SetInvalid, At, opVars,
     busVars, history
<1>2. CASE GetLogin(t) \/ Forget(t) \/ AfterCallback(t)
  BY <1>1, <1>2, GetsArePlain DEF GetLogin, Forget, AfterCallback, Plain
<1>3. CASE OnInvalid(t) \/ Callback(t) \/ ReportedLogin(t) \/ Drop(t)
  BY <1>1, <1>3, PlainSteps DEF OnInvalid, Callback, ReportedLogin, Drop, Plain,
     CallStep
<1>4. CASE Reply(t) \/ Registry(t) \/ Validity(t) \/ Compare(t) \/ SetInvalid(t)
  BY <1>1, <1>4, PlainSteps, EndsArePlain DEF Reply, Registry, Validity,
     Compare, SetInvalid, Plain, CallStep
<1> QED BY <1>2, <1>3, <1>4

\* So are the other actions that do not move a login, but the renewer's end.
LEMMA QuietIsPlain ==
  ASSUME NEW t \in Thread,
         \/ LoginInit(t) \/ LoginLog(t) \/ CallbackReturns(t) \/ AppCalls(t)
         \/ Renew(t)
         \/ Starts(t) /\ BeginLogin(t)
  PROVE  Plain(t)
<1>1. pc[t] # "unborn" /\ UNCHANGED <<granted, issued, held>>
  BY DEF LoginInit, LoginLog, CallbackReturns, AppCalls, Renew, BeginLogin,
     Starts, At, opVars, busVars, history
<1>2. CASE LoginInit(t) \/ LoginLog(t) \/ CallbackReturns(t) \/ BeginLogin(t)
  BY <1>1, <1>2, PlainSteps, EndsArePlain DEF LoginInit, LoginLog,
     CallbackReturns, BeginLogin, Plain
<1>3. CASE AppCalls(t) \/ Renew(t)
  BY <1>1, <1>3, PlainSteps, EndsArePlain DEF AppCalls, Renew, Plain
<1> QED BY <1>2, <1>3

\* A plain step neither grants a login nor starts or ends a renewer.
LEMMA PlainKeeps ==
  ASSUME IInv, NEW t \in Thread, Plain(t), interrupted \subseteq interrupted'
  PROVE  Granted' /\ Renewers'
<1>0. TypeOK /\ Granted /\ Renewers
  BY DEF IInv
<1>1. PICK step \in PlainStep : pc' = [pc EXCEPT ![t] = step]
  BY DEF Plain, Goto
<1>2. step \notin {"login", "logout_remote", "unborn", "ended"} /\ pc[t] # "unborn"
  BY DEF PlainStep, Plain
<1>3. Granted'
  <2>1. ASSUME NEW u \in Thread, pc'[u] \in {"login", "logout_remote"}
        PROVE  pc'[u] = pc[u]
    BY <1>0, <1>1, <1>2, <2>1 DEF TypeOK
  <2> QED BY <1>0, <2>1 DEF Plain, Granted
<1>4. Renewers'
  BY <1>0, <1>1, <1>2 DEF Plain, Renewers, TypeOK, Thread
<1> QED BY <1>3, <1>4

LEMMA GrantedNext ==
  ASSUME IInv, [Next]_vars
  PROVE  Granted' /\ Renewers'
<1> DEFINE Goal == Granted' /\ Renewers'
<1>0. /\ TypeOK /\ StateMatchesLogin /\ Logins /\ Granted /\ Renewers
      /\ interrupted \subseteq interrupted'
  BY Growth DEF IInv
<1>1. ASSUME UNCHANGED <<pc, granted, issued, held>> PROVE Goal
  BY <1>0, <1>1 DEF Granted, Renewers
<1>2. ASSUME NEW t \in Thread, Plain(t) PROVE Goal
  BY <1>0, <1>2, PlainKeeps
<1>3. ASSUME NEW t \in LoginId, RenewerEnds(t) PROVE Goal
  <2>1. Granted'
    BY <1>0, <1>3 DEF RenewerEnds, Goto, Granted, TypeOK, Thread, busVars, history
  <2>2. Renewers'
    BY <1>0, <1>3 DEF RenewerEnds, At, Goto, Renewers, TypeOK, Thread, history,
       connVars
  <2> QED BY <2>1, <2>2
<1>4. ASSUME NEW t \in Thread, LoginRemote(t) PROVE Goal
  <2>1. CASE Plain(t)
    BY <1>2, <2>1
  <2>2. CASE \E id \in LoginId \ issued :
               /\ issued' = issued \cup {id}
               /\ granted' = [granted EXCEPT ![t] = id]
               /\ Goto(t, "login")
    <3>1. PICK id \in LoginId \ issued :
            /\ issued' = issued \cup {id}
            /\ granted' = [granted EXCEPT ![t] = id]
            /\ Goto(t, "login")
      BY <2>2
    <3>2. held' = held /\ pc[t] = "login_remote"
      BY <1>4 DEF LoginRemote, At, history
    <3>3. Granted'
      BY <1>0, <3>1, <3>2 DEF Granted, Goto, TypeOK, Logins
    <3>4. Renewers'
      BY <1>0, <3>1, <3>2 DEF Renewers, Goto, TypeOK, Thread
    <3> QED BY <3>3, <3>4
  <2> QED BY <1>4, <2>1, <2>2, PlainSteps, EndsArePlain
          DEF LoginRemote, Plain, At, busVars, history
<1>5. ASSUME NEW t \in Thread, Login(t) PROVE Goal
  <2>1. CASE EndOperation(t) /\ held' = held
    <3>1. PICK step \in PlainStep : Goto(t, step)
      BY <2>1, EndsArePlain
    <3>2. /\ pc[t] = "login" /\ issued' = issued
          /\ granted' = [granted EXCEPT ![t] = NoLogin]
      BY <1>5 DEF Login, At, busVars
    <3>3. Granted'
      BY <1>0, <2>1, <3>1, <3>2 DEF Granted, Goto, TypeOK, PlainStep
    <3>4. Renewers'
      BY <1>0, <2>1, <3>1, <3>2 DEF Renewers, Goto, TypeOK, PlainStep, Thread
    <3> QED BY <3>3, <3>4
  <2>2. CASE /\ held' = held \cup {granted[t]}
             /\ pc' = [pc EXCEPT ![t] = "login_log", ![granted[t]] = "sleep"]
    <3>1. /\ pc[t] = "login" /\ issued' = issued
          /\ granted' = [granted EXCEPT ![t] = NoLogin]
          /\ granted[t] \in LoginId \ held
      BY <1>0, <1>5 DEF Login, At, busVars, Granted, TypeOK
    <3>2. pc[granted[t]] = "unborn" /\ granted[t] \in Thread
      BY <1>0, <3>1 DEF Renewers, Thread
    <3>3. \A u \in Thread : pc'[u] = IF u = granted[t] THEN "sleep"
                                     ELSE IF u = t THEN "login_log" ELSE pc[u]
      BY <1>0, <2>2, <3>1, <3>2 DEF TypeOK
    <3>4. \A u \in Thread : u # t => granted'[u] = granted[u]
      BY <1>0, <3>1 DEF TypeOK
    <3>5. held' = held \cup {granted[t]}
      BY <2>2
    <3>6. Granted'
      <4>1. ASSUME NEW u \in Thread, pc'[u] = "login"
            PROVE  u # t /\ pc[u] = "login" /\ granted'[u] = granted[u]
        BY <3>3, <3>4, <4>1
      <4>2. ASSUME NEW u \in Thread, pc'[u] = "login"
            PROVE  granted'[u] \in issued' \ held'
        BY <1>0, <3>1, <3>5, <4>1, <4>2 DEF Granted
      <4>3. ASSUME NEW u \in Thread, pc'[u] = "logout_remote"
            PROVE  granted'[u] \in held'
        BY <1>0, <3>3, <3>4, <3>5, <4>3 DEF Granted
      <4> QED BY <1>0, <4>1, <4>2, <4>3 DEF Granted
    <3>7. Renewers'
      BY <1>0, <3>1, <3>2, <3>3, <3>5 DEF Renewers, Thread
    <3> QED BY <3>6, <3>7
  <2> QED BY <1>5, <2>1, <2>2 DEF Login
<1>6. ASSUME NEW t \in Thread, Starts(t), BeginLogout(t) PROVE Goal
  <2>0. pc[t] # "unborn" /\ UNCHANGED <<issued, held>>
    BY <1>6 DEF BeginLogout, Starts, At, busVars, history
  <2>1. CASE EndOperation(t) /\ UNCHANGED opVars
    BY <1>2, <2>0, <2>1, EndsArePlain DEF Plain, opVars
  <2>2. CASE /\ state = "LOGGED" /\ Goto(t, "logout_remote")
             /\ granted' = [granted EXCEPT ![t] = loginInfo]
    <3>1. loginInfo \in held
      BY <1>0, <2>2 DEF StateMatchesLogin, Logins, Known
    <3>2. Granted'
      BY <1>0, <2>0, <2>2, <3>1 DEF Granted, Goto, TypeOK
    <3>3. Renewers'
      BY <1>0, <2>0, <2>2 DEF Renewers, Goto, TypeOK, Thread
    <3> QED BY <3>2, <3>3
  <2> QED BY <1>6, <2>1, <2>2 DEF BeginLogout
<1>7. ASSUME NEW t \in Thread, LogoutRemote(t) PROVE Goal
  <2>1. /\ pc[t] = "logout_remote" /\ UNCHANGED <<issued, held>>
        /\ granted' = [granted EXCEPT ![t] = NoLogin]
    BY <1>7 DEF LogoutRemote, At
  <2>2. PICK step \in PlainStep : Goto(t, step)
    BY <1>7, PlainSteps, EndsArePlain DEF LogoutRemote
  <2>3. Granted'
    BY <1>0, <2>1, <2>2 DEF Granted, Goto, TypeOK, PlainStep
  <2>4. Renewers'
    BY <1>0, <2>1, <2>2 DEF Renewers, Goto, TypeOK, PlainStep, Thread
  <2> QED BY <2>3, <2>4
<1>8. ASSUME \/ UNCHANGED vars
             \/ SetOnInvalidLogin
             \/ \E id \in LoginId : BusInvalidates(id)
      PROVE  UNCHANGED <<pc, granted, issued, held>>
  BY <1>8 DEF SetOnInvalidLogin, BusInvalidates, vars, opVars, busVars, history
<1>9. ASSUME NEW t \in Thread, Quiet(t) PROVE Goal
  BY <1>2, <1>3, <1>9, CallsArePlain, QuietIsPlain DEF Quiet
<1>10. ASSUME NEW t \in Thread, Loud(t) PROVE Goal
  BY <1>2, <1>4, <1>5, <1>6, <1>7, <1>10, CallsArePlain DEF Loud
<1> HIDE DEF Goal
<1>11. Goal
  BY <1>1, <1>8, <1>9, <1>10, StepCases
<1> QED BY <1>11 DEF Goal

-----------------------------------------------------------------------------
(* What the threads remember of their calls. *)

\* Nothing happens to the call of u; a renewer may be started.
Untouched(u) ==
  /\ pc'[u] \in {pc[u], "sleep"}
  /\ login'[u] = login[u] /\ invalid'[u] = invalid[u]
  /\ nested'[u] = nested[u] /\ cred'[u] = cred[u]
  /\ reported'[u] = reported[u] /\ stale'[u] = stale[u]

\* What the other threads do to the connection and the bus while u looks away.
Meanwhile ==
  /\ IInv /\ TypeOK'
  /\ held \subseteq held'
  /\ interrupted \subseteq interrupted'
  /\ valid' \cap held \subseteq valid

\* A login that u knows to be invalid stays so.
LEMMA StaysInvalid ==
  ASSUME Meanwhile, NEW id \in Known, id \notin valid
  PROVE  id \in Known' /\ id \notin valid'
BY ConnectionAssumption DEF Meanwhile, Known, TypeOK

LEMMA UntouchedKept ==
  ASSUME Meanwhile, NEW u \in Thread, Untouched(u)
  PROVE  RememberedBy(u)' /\ RequestOf(u)'
<1>1. RememberedBy(u) /\ RequestOf(u)
  BY DEF Meanwhile, IInv, Requests
<1>2. RememberedBy(u)'
  BY <1>1, StaysInvalid DEF RememberedBy, Untouched, Meanwhile, Known
<1>3. reported[u] \in Known
  BY <1>1 DEF RememberedBy
<1>4. SameOrDropped(u) => SameOrDropped(u)'
  BY DEF SameOrDropped, Untouched, Meanwhile
<1>5. CASE pc'[u] = "sleep"
  BY <1>2, <1>5 DEF RequestOf
<1>6. CASE pc'[u] = pc[u]
  BY <1>1, <1>2, <1>3, <1>4, <1>6, StaysInvalid DEF RequestOf, Untouched, Meanwhile
<1> QED BY <1>2, <1>5, <1>6 DEF Untouched

\* What a step of t owes: its own call keeps the invariant, and it touches
\* nobody else's.
Kept(t) ==
  /\ RememberedBy(t)' /\ RequestOf(t)'
  /\ \A u \in Thread \ {t} : Untouched(u)

\* The steps at which RequestOf says something of a call.
CriticalStep == {"on_invalid", "forget", "sent", "validity", "compare", "drop",
                 "set_invalid"}

\* A thread that leaves what it remembers alone and goes to another step.
LEMMA FreeKept ==
  ASSUME Meanwhile, NEW t \in Thread, UNCHANGED callVars,
         pc'[t] \notin CriticalStep,
         \A u \in Thread \ {t} : pc'[u] \in {pc[u], "sleep"}
  PROVE  Kept(t)
<1>1. RememberedBy(t)
  BY DEF Meanwhile, IInv, Requests
<1>2. RememberedBy(t)'
  BY <1>1, StaysInvalid DEF RememberedBy, Meanwhile, Known, callVars
<1>3. RequestOf(t)'
  BY DEF RequestOf, CriticalStep
<1> QED BY <1>2, <1>3 DEF Kept, Untouched, callVars

LEMMA EndCallKept ==
  ASSUME Meanwhile, NEW t \in Thread, EndCall(t)
  PROVE  Kept(t)
<1>1. pc'[t] \in {"sleep", "idle"} /\ stale'[t] = {}
  BY DEF EndCall, AfterCall, Goto, Meanwhile, IInv, TypeOK
<1>2. /\ login'[t] = NoLogin /\ cred'[t] = NoLogin /\ reported'[t] = NoLogin
      /\ invalid'[t] = NoLogin
  BY DEF EndCall, Meanwhile, IInv, TypeOK
<1>3. NoLogin \in Known' \ valid'
  BY ConnectionAssumption DEF Known, Meanwhile, TypeOK
<1>4. RememberedBy(t)' /\ RequestOf(t)'
  BY <1>1, <1>2, <1>3 DEF RememberedBy, RequestOf, Known
<1>5. \A u \in Thread \ {t} : Untouched(u)
  BY DEF Untouched, EndCall, Goto, Meanwhile, IInv, TypeOK
<1> QED BY <1>4, <1>5 DEF Kept

LEMMA SendKept ==
  ASSUME Meanwhile, NEW t \in Thread, Send(t),
         UNCHANGED <<login, invalid, nested, cred, reported>>
  PROVE  Kept(t)
<1>1. pc'[t] = "get_login" /\ stale'[t] = held \ {loginInfo}
  BY DEF Send, Goto, Meanwhile, IInv, TypeOK
<1>2. RememberedBy(t) /\ interrupted = held \ {loginInfo}
  BY DEF Meanwhile, IInv, Requests, Logins
<1>3. RememberedBy(t)'
  BY <1>1, <1>2, StaysInvalid DEF RememberedBy, Meanwhile, Known
<1>4. RequestOf(t)'
  BY <1>1 DEF RequestOf
<1>5. \A u \in Thread \ {t} : Untouched(u)
  BY DEF Untouched, Send, Goto, Meanwhile, IInv, TypeOK
<1> QED BY <1>3, <1>4, <1>5 DEF Kept

LEMMA RetryKept ==
  ASSUME Meanwhile, NEW t \in Thread, Retry(t)
  PROVE  Kept(t)
<1>1. pc'[t] = "get_login" /\ stale'[t] = held \ {loginInfo}
  BY DEF Retry, Send, Goto, Meanwhile, IInv, TypeOK
<1>2. /\ login'[t] = NoLogin /\ cred'[t] = NoLogin /\ reported'[t] = NoLogin
      /\ invalid'[t] = invalid[t]
  BY DEF Retry, Meanwhile, IInv, TypeOK
<1>3. RememberedBy(t) /\ interrupted = held \ {loginInfo}
  BY DEF Meanwhile, IInv, Requests, Logins
<1>4. RememberedBy(t)'
  BY <1>1, <1>2, <1>3, StaysInvalid DEF RememberedBy, Meanwhile, Known
<1>5. RequestOf(t)'
  BY <1>1 DEF RequestOf
<1>6. \A u \in Thread \ {t} : Untouched(u)
  BY DEF Untouched, Retry, Send, Goto, Meanwhile, IInv, TypeOK
<1> QED BY <1>4, <1>5, <1>6 DEF Kept

\* What get_login may return to t, and what it may loop with.
MayReturn(t, id) ==
  /\ id \in Known
  /\ id \notin stale[t]
  /\ nested[t] => \/ id \in {reported[t], NoLogin}
                  \/ reported[t] \in interrupted \cup {NoLogin}

LEMMA GotLoginKept ==
  ASSUME Meanwhile, NEW t \in Thread, NEW id, MayReturn(t, id), GotLogin(t, id)
  PROVE  Kept(t)
<1>1. CASE EndCall(t)
  BY <1>1, EndCallKept
<1>2. CASE /\ id # NoLogin
           /\ Goto(t, IF nested[t] THEN "validity" ELSE "sent")
           /\ login' = [login EXCEPT ![t] = id]
           /\ cred' = IF nested[t] THEN cred ELSE [cred EXCEPT ![t] = id]
           /\ invalid' = [invalid EXCEPT ![t] = NoLogin]
           /\ UNCHANGED <<nested, reported, stale>>
  <2>1. /\ pc'[t] = IF nested[t] THEN "validity" ELSE "sent"
        /\ login'[t] = id
        /\ cred'[t] = IF nested[t] THEN cred[t] ELSE id
        /\ invalid'[t] = NoLogin
        /\ UNCHANGED <<nested, reported, stale>>
    BY <1>2 DEF Goto, Meanwhile, IInv, TypeOK
  <2>2. RememberedBy(t)
    BY DEF Meanwhile, IInv, Requests
  <2>3. NoLogin \in Known' \ valid'
    BY ConnectionAssumption DEF Known, Meanwhile, TypeOK
  <2>4. RememberedBy(t)'
    BY <2>1, <2>2, <2>3 DEF RememberedBy, Meanwhile, Known, MayReturn
  <2>5. RequestOf(t)'
    BY <1>2, <2>1 DEF RequestOf, SameOrDropped, MayReturn, Meanwhile
  <2>6. \A u \in Thread \ {t} : Untouched(u)
    BY <1>2 DEF Untouched, Goto, Meanwhile, IInv, TypeOK
  <2> QED BY <2>4, <2>5, <2>6 DEF Kept
<1> QED BY <1>1, <1>2 DEF GotLogin

LEMMA CallbackLoopKept ==
  ASSUME Meanwhile, NEW t \in Thread, NEW id, NEW bad \in Known \ valid,
         MayReturn(t, id), CallbackLoop(t, id, bad)
  PROVE  Kept(t)
<1>1. /\ pc'[t] = "on_invalid" /\ login'[t] = id /\ invalid'[t] = bad
      /\ UNCHANGED <<nested, cred, reported, stale>>
  BY DEF CallbackLoop, Goto, Meanwhile, IInv, TypeOK
<1>2. RememberedBy(t)
  BY DEF Meanwhile, IInv, Requests
<1>3. RememberedBy(t)'
  BY <1>1, <1>2, StaysInvalid DEF RememberedBy, Meanwhile, Known, MayReturn
<1>4. RequestOf(t)'
  BY <1>1 DEF RequestOf, SameOrDropped, MayReturn, Meanwhile
<1>5. \A u \in Thread \ {t} : Untouched(u)
  BY DEF Untouched, CallbackLoop, Goto, Meanwhile, IInv, TypeOK
<1> QED BY <1>3, <1>4, <1>5 DEF Kept

\* The login in use may be returned at any time.
LEMMA MayReturnLogin ==
  ASSUME Meanwhile, NEW t \in Thread
  PROVE  MayReturn(t, loginInfo)
BY DEF Meanwhile, IInv, Requests, RememberedBy, Logins, Known, MayReturn

\* No login may be returned to a call that is not over yet.
LEMMA MayReturnNone ==
  ASSUME Meanwhile, NEW t \in Thread
  PROVE  MayReturn(t, NoLogin)
BY ConnectionAssumption
   DEF Meanwhile, IInv, TypeOK, Requests, RememberedBy, Logins, Known, MayReturn

\* The steps of get_login.
LEMMA GetLoginKept ==
  ASSUME Meanwhile, NEW t \in Thread,
         \/ GetLogin(t) \/ OnInvalid(t) \/ Forget(t) \/ Callback(t)
         \/ CallbackReturns(t) \/ AfterCallback(t)
  PROVE  Kept(t)
<1>0. TypeOK /\ Logins /\ RememberedBy(t) /\ RequestOf(t)
  BY DEF Meanwhile, IInv, Requests
<1>1. CASE GetLogin(t)
  <2>1. CASE GotLogin(t, loginInfo)
    BY <2>1, MayReturnLogin, GotLoginKept
  <2>2. CASE CallbackLoop(t, NoLogin, invalid_login)
    BY <1>0, <2>2, MayReturnNone, CallbackLoopKept DEF Logins
  <2> QED BY <1>1, <2>1, <2>2 DEF GetLogin
<1>2. CASE OnInvalid(t)
  <2>1. /\ pc[t] = "on_invalid" /\ UNCHANGED callVars
        /\ pc'[t] \in {"callback", "forget"}
        /\ \A u \in Thread \ {t} : pc'[u] = pc[u]
    BY <1>0, <1>2 DEF OnInvalid, At, Goto, TypeOK
  <2>2. CASE pc'[t] = "callback"
    BY <2>1, <2>2, FreeKept DEF CriticalStep
  <2>3. CASE pc'[t] = "forget"
    <3>1. RememberedBy(t)'
      BY <1>0, <2>1, StaysInvalid DEF RememberedBy, Meanwhile, Known, callVars
    <3>2. RequestOf(t)'
      BY <1>0, <2>1, <2>3 DEF RequestOf, SameOrDropped, Meanwhile, callVars
    <3> QED BY <2>1, <3>1, <3>2 DEF Kept, Untouched, callVars
  <2> QED BY <2>1, <2>2, <2>3
<1>3. CASE Forget(t)
  <2>1. MayReturn(t, login[t])
    BY <1>0, <1>3 DEF Forget, At, MayReturn, RequestOf, RememberedBy,
       SameOrDropped
  <2> QED BY <1>3, <2>1, GotLoginKept DEF Forget
<1>4. CASE Callback(t) \/ CallbackReturns(t)
  <2>1. /\ pc'[t] \in {"in_callback", "after_callback", "idle"}
        /\ UNCHANGED callVars
        /\ \A u \in Thread \ {t} : pc'[u] = pc[u]
    BY <1>0, <1>4 DEF Callback, CallbackReturns, EndOperation, Goto, TypeOK
  <2> QED BY <2>1, FreeKept DEF CriticalStep
<1>5. CASE AfterCallback(t)
  <2>1. CASE GotLogin(t, loginInfo)
    BY <2>1, MayReturnLogin, GotLoginKept
  <2>2. CASE CallbackLoop(t, loginInfo, invalid_login)
    BY <1>0, <2>2, MayReturnLogin, CallbackLoopKept DEF Logins
  <2> QED BY <1>5, <2>1, <2>2 DEF AfterCallback
<1> QED BY <1>1, <1>2, <1>3, <1>4, <1>5

\* The steps of receive_exception.
LEMMA ExceptionKept ==
  ASSUME Meanwhile, NEW t \in Thread,
         \/ Reply(t) \/ ReportedLogin(t) \/ Registry(t) \/ Validity(t)
         \/ Compare(t) \/ Drop(t) \/ SetInvalid(t)
  PROVE  Kept(t)
<1>0. TypeOK /\ Logins /\ RememberedBy(t) /\ RequestOf(t)
  BY DEF Meanwhile, IInv, Requests
<1>1. CASE Reply(t)
  <2>1. CASE Goto(t, "invalid_login") /\ UNCHANGED callVars
    BY <1>0, <2>1, FreeKept DEF Goto, TypeOK, CriticalStep
  <2> QED BY <1>1, <2>1, EndCallKept DEF Reply
<1>2. CASE ReportedLogin(t)
  <2>1. /\ reported'[t] = loginInfo /\ pc'[t] = "registry"
        /\ UNCHANGED <<login, invalid, nested, cred, stale>>
        /\ \A u \in Thread \ {t} : pc'[u] = pc[u] /\ reported'[u] = reported[u]
    BY <1>0, <1>2 DEF ReportedLogin, Goto, TypeOK
  <2>2. RememberedBy(t)'
    BY <1>0, <2>1, StaysInvalid DEF RememberedBy, Meanwhile, Known, Logins
  <2> QED BY <2>1, <2>2 DEF Kept, Untouched, RequestOf
<1>3. CASE Registry(t)
  <2>1. CASE Goto(t, "get_login") /\ nested' = [nested EXCEPT ![t] = TRUE]
               /\ login' = [login EXCEPT ![t] = NoLogin]
               /\ UNCHANGED <<invalid, cred, reported, stale>>
    <3>1. /\ pc'[t] = "get_login" /\ login'[t] = NoLogin
          /\ \A u \in Thread \ {t} : Untouched(u)
      BY <1>0, <2>1 DEF Goto, TypeOK, Untouched
    <3>2. RememberedBy(t)'
      BY <1>0, <2>1, <3>1, StaysInvalid DEF RememberedBy, Meanwhile, Known
    <3> QED BY <3>1, <3>2 DEF Kept, RequestOf
  <2> QED BY <1>3, <2>1, EndCallKept DEF Registry
<1>4. CASE Validity(t)
  <2>1. CASE login[t] \notin valid /\ Goto(t, "compare") /\ UNCHANGED callVars
    <3>1. /\ pc[t] = "validity" /\ pc'[t] = "compare"
          /\ \A u \in Thread \ {t} : Untouched(u)
      BY <1>0, <1>4, <2>1 DEF Validity, At, Goto, TypeOK, Untouched, callVars
    <3>2. RememberedBy(t)'
      BY <1>0, <2>1, StaysInvalid DEF RememberedBy, Meanwhile, Known, callVars
    <3>3. NoLogin \notin valid
      BY <1>0, ConnectionAssumption DEF TypeOK
    <3>4. reported[t] \notin valid \/ reported[t] \in interrupted
      BY <1>0, <2>1, <3>1, <3>3 DEF RequestOf, SameOrDropped
    <3>5. RequestOf(t)'
      BY <1>0, <2>1, <3>1, <3>4, StaysInvalid
         DEF RequestOf, RememberedBy, Meanwhile, callVars
    <3> QED BY <3>1, <3>2, <3>5 DEF Kept
  <2> QED BY <1>4, <2>1, EndCallKept, RetryKept DEF Validity
<1>5. CASE Compare(t)
  <2>1. CASE loginInfo = reported[t] /\ Goto(t, "drop") /\ UNCHANGED callVars
    <3>1. /\ pc[t] = "compare" /\ pc'[t] = "drop"
          /\ \A u \in Thread \ {t} : Untouched(u)
      BY <1>0, <1>5, <2>1 DEF Compare, At, Goto, TypeOK, Untouched, callVars
    <3>2. RememberedBy(t)'
      BY <1>0, <2>1, StaysInvalid DEF RememberedBy, Meanwhile, Known, callVars
    <3>3. reported[t] \notin valid
      BY <1>0, <2>1, <3>1 DEF RequestOf, Logins
    <3>4. RequestOf(t)'
      BY <1>0, <2>1, <3>1, <3>3, StaysInvalid
         DEF RequestOf, RememberedBy, callVars
    <3> QED BY <3>1, <3>2, <3>4 DEF Kept
  <2> QED BY <1>5, <2>1, RetryKept DEF Compare
<1>6. CASE Drop(t)
  <2>1. /\ pc[t] = "drop" /\ pc'[t] = "set_invalid" /\ UNCHANGED callVars
        /\ \A u \in Thread \ {t} : Untouched(u)
    BY <1>0, <1>6 DEF Drop, At, Goto, TypeOK, Untouched, callVars
  <2>2. RememberedBy(t)'
    BY <1>0, <2>1, StaysInvalid DEF RememberedBy, Meanwhile, Known, callVars
  <2>3. RequestOf(t)'
    BY <1>0, <2>1, StaysInvalid DEF RequestOf, RememberedBy, callVars
  <2> QED BY <2>1, <2>2, <2>3 DEF Kept
<1>7. CASE SetInvalid(t)
  BY <1>7, RetryKept DEF SetInvalid
<1> QED BY <1>1, <1>2, <1>3, <1>4, <1>5, <1>6, <1>7

\* Logging in and out touches no call.
LEMMA LoginKept ==
  ASSUME Meanwhile, NEW t \in Thread,
         \/ LoginInit(t) \/ LoginRemote(t) \/ Login(t) \/ LoginLog(t)
         \/ BeginLogin(t) \/ BeginLogout(t) \/ LogoutRemote(t)
         \/ RenewerEnds(t)
  PROVE  Kept(t)
<1>0. TypeOK
  BY DEF Meanwhile, IInv
<1>1. UNCHANGED callVars
  BY DEF LoginInit, LoginRemote, Login, LoginLog, BeginLogin, BeginLogout,
     LogoutRemote, RenewerEnds
<1> DEFINE Free == {"idle", "after_callback", "login_init", "login_remote",
                    "login", "login_log", "logout_remote", "ended", "aborted"}
<1>2. ASSUME NEW step \in Free, Goto(t, step) PROVE Kept(t)
  BY <1>0, <1>1, <1>2, FreeKept DEF Goto, TypeOK, CriticalStep
<1>3. ASSUME EndOperation(t) PROVE Kept(t)
  BY <1>2, <1>3 DEF EndOperation
<1>4. CASE Login(t)
  <2>1. ASSUME pc' = [pc EXCEPT ![t] = "login_log", ![granted[t]] = "sleep"]
        PROVE  Kept(t)
    BY <1>0, <1>1, <2>1, FreeKept DEF TypeOK, CriticalStep
  <2> QED BY <1>3, <1>4, <2>1 DEF Login
<1>5. CASE \/ LoginInit(t) \/ LoginRemote(t) \/ LoginLog(t) \/ BeginLogin(t)
           \/ BeginLogout(t) \/ LogoutRemote(t) \/ RenewerEnds(t)
  BY <1>2, <1>3, <1>5 DEF LoginInit, LoginRemote, LoginLog, BeginLogin,
     BeginLogout, LogoutRemote, RenewerEnds
<1> QED BY <1>4, <1>5

LEMMA RequestsNext ==
  ASSUME IInv, [Next]_vars, TypeOK'
  PROVE  Requests'
<1>1. Meanwhile
  BY Growth DEF Meanwhile
<1>2. ASSUME NEW t \in Thread, Kept(t) PROVE Requests'
  BY <1>1, <1>2, UntouchedKept DEF Kept, Requests
<1>3. ASSUME UNCHANGED <<pc, callVars>> PROVE Requests'
  BY <1>1, <1>3, UntouchedKept DEF Untouched, Requests, callVars
<1>4. ASSUME NEW t \in Thread, AppCalls(t) \/ Renew(t) PROVE Kept(t)
  <2>1. CASE Send(t)
    BY <1>1, <1>4, <2>1, SendKept DEF AppCalls, Renew
  <2>2. CASE Goto(t, "aborted") /\ UNCHANGED stale
    BY <1>1, <1>4, <2>2, FreeKept DEF AppCalls, Renew, Send, Goto, callVars,
       CriticalStep, Meanwhile, IInv, TypeOK
  <2> QED BY <1>4, <2>1, <2>2 DEF AppCalls, Renew
<1>5. ASSUME NEW t \in Thread, Quiet(t) \/ Loud(t) PROVE Kept(t)
  BY <1>1, <1>4, <1>5, GetLoginKept, ExceptionKept, LoginKept DEF Quiet, Loud
<1>6. ASSUME \/ UNCHANGED vars
             \/ SetOnInvalidLogin
             \/ \E id \in LoginId : BusInvalidates(id)
      PROVE  UNCHANGED <<pc, callVars>>
  BY <1>6 DEF vars, SetOnInvalidLogin, BusInvalidates, callVars
<1> QED BY <1>2, <1>3, <1>5, <1>6, StepCases
-----------------------------------------------------------------------------
(* The theorems. *)

LEMMA InitInv == Init => IInv
<1> SUFFICES ASSUME Init PROVE IInv
  OBVIOUS
<1>1. \A t \in Thread : pc[t] \in {"unborn", "idle"}
  BY DEF Init
<1>2. TypeOK
  BY StepNames DEF Init, TypeOK, Step
<1>3. StateMatchesLogin /\ Logins /\ Granted /\ Renewers
  BY <1>1, StepNames DEF Init, StateMatchesLogin, Logins, Known, Granted, Renewers
<1>4. Requests
  BY <1>1 DEF Init, Requests, RememberedBy, RequestOf, Known
<1> QED BY <1>2, <1>3, <1>4 DEF IInv

LEMMA NextInv == IInv /\ [Next]_vars => IInv'
BY TypeNext, LoginsNext, GrantedNext, RequestsNext DEF IInv

\* IInv is an invariant.
THEOREM Inductive == Spec => []IInv
BY InitInv, NextInv, PTL DEF Spec

\* The types hold, however many threads and logins there are.
THEOREM TypeCorrect == Spec => []TypeOK
<1>1. IInv => TypeOK
  BY DEF IInv
<1> QED BY <1>1, Inductive, PTL

\* The assertion of _logout (connection.cpp:426) never fails: _state and
\* _loginInfo agree.
THEOREM LogoutAssertionHolds == Spec => []StateMatchesLogin
<1>1. IInv => StateMatchesLogin
  BY DEF IInv
<1> QED BY <1>1, Inductive, PTL

\* No login lapses for want of a renewer and no renewer outlives its login.
THEOREM RenewersFollowLogins == Spec => []RenewerPerLogin
<1>1. IInv => RenewerPerLogin
  BY ConnectionAssumption DEF IInv, TypeOK, Logins, Known, Renewers,
     RenewerPerLogin
<1> QED BY <1>1, Inductive, PTL

\* The application's callback hears only of logins the bus declared invalid.
THEOREM CallbacksAreRight == Spec => []CallbackForInvalidLogins
<1>1. IInv => CallbackForInvalidLogins
  BY DEF IInv, Logins, Requests, RememberedBy, CallbackForInvalidLogins
<1> QED BY <1>1, Inductive, PTL

\* No request goes out with a login that was dropped before it was sent.
THEOREM CredentialsAreFresh == Spec => []NoStaleCredential
<1>1. IInv => NoStaleCredential
  BY DEF IInv, Requests, RequestOf, NoStaleCredential
<1> QED BY <1>1, Inductive, PTL

\* A login is dropped before another takes its place, and none comes back.
THEOREM LoginsAreNotReplaced == Spec => LoginsNeverReplaced
<1>1. IInv /\ [Next]_vars =>
        [loginInfo' # loginInfo /\ loginInfo' # NoLogin
           => loginInfo = NoLogin /\ loginInfo' \notin held]_vars
  BY Growth
<1> QED BY <1>1, Inductive, PTL DEF Spec, LoginsNeverReplaced
=============================================================================
