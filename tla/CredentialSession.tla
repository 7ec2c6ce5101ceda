-------------------------- MODULE CredentialSession --------------------------
(***************************************************************************)
(* The credential session of the two interceptors, interceptors/client.cpp *)
(* and interceptors/server.cpp.  The threads of a client process call one  *)
(* server.  A request without a session, or with one the server refuses,   *)
(* is answered InvalidCredential with a new session, under which the       *)
(* client sends it again, counting the session's ticket up.  Both sides    *)
(* log out and in again, which clears their caches, at any moment.  The    *)
(* server's ORB dispatches as many requests at once as there are callers.  *)
(*                                                                         *)
(* A session is named by its id; a secret is shared exactly by the session *)
(* of that id, so a hash is right iff the id is.  The window of tickets is *)
(* the set of those accepted, as Tickets.tla implements it (TicketSpec),   *)
(* with a window that none of the few tickets lags behind.  The single     *)
(* operations of a cache are atomic, and so is a logout: its sections hold *)
(* the connection's mutex, which every reader of the login needs.          *)
(***************************************************************************)
EXTENDS Naturals, FiniteSets, LRUCache

CONSTANTS Caller,       \* threads of the client process
          ClientLogin,  \* logins the client may get: bounds their number
          ServerLogin,  \* logins the server may get
          NoLogin,
          Session,      \* the sessions, reused when nothing refers to them
          Profile,      \* the profile of the server, as the client sees it
          MaxCalls      \* bounds the calls of each thread

\* Session 0, of a credential without a session: a fetch finds none.
NoSession == NoData

ASSUME SessionAssumption ==
  /\ NoLogin \notin ClientLogin \cup ServerLogin
  /\ NoSession \notin Session \cup ServerLogin
  /\ MaxCalls \in Nat
  /\ IsFiniteSet(Session) /\ IsFiniteSet(Caller)
  /\ Cardinality(Session) > 2 * MaxSize + Cardinality(Caller)

VARIABLES
  up,             \* the processes that have not crashed
  clientLogin,    \* the login of the client's connection
  profile2login,  \* its _profile2login
  login2session,  \* its _login2session: the sessions by their remote_id
  clientTicket,   \* the ticket of each SecretSession
  serverLogin,    \* the login of the server's connection
  sessions,       \* _sessionLRUCache of the server
  remote_id,      \* the login a session of the server was made for
  tickets,        \* the tickets a session of the server has accepted
  target,         \* the login of the server named in a session's reset
  pc,             \* where the request of each thread is
  cred,           \* its credential: login, session and ticket
  seen,           \* the tickets that a dispatch read before it marks its own
  calls,          \* calls each thread has begun
  used,           \* external: logins the bus has issued
  dispatched,     \* history: the tickets of each session dispatched
  raced           \* history: the sessions whose window one dispatch read
                  \* before another had written it

clientVars == <<clientLogin, profile2login, login2session, clientTicket>>
serverVars == <<serverLogin, sessions, remote_id, tickets, target>>
requestVars == <<pc, cred, seen>>
traceVars == <<dispatched, raced>>
vars == <<up, clientVars, serverVars, requestVars, calls, used, traceVars>>

ClientStep == {"get_login", "get_session", "ticket", "store",
               "invalid_credential"}
ServerStep ==
  {"sent", "validate", "fetch", "tickets", "mark", "reset", "attach", "chain"}
NoCredential == [login |-> NoLogin, session |-> NoSession, ticket |-> 0]

Init ==
  /\ up = {"client", "server"}
  /\ clientLogin = NoLogin /\ serverLogin = NoLogin
  /\ profile2login = Empty /\ login2session = Empty
  /\ clientTicket = [s \in Session |-> 0]
  /\ sessions = Empty
  /\ remote_id = [s \in Session |-> NoLogin]
  /\ tickets = [s \in Session |-> {}]
  /\ pc = [t \in Caller |-> "idle"]
  /\ cred = [t \in Caller |-> NoCredential]
  /\ seen = [t \in Caller |-> {}]
  /\ target = [s \in Session |-> NoLogin]
  /\ calls = [t \in Caller |-> 0]
  /\ used = {}
  /\ dispatched = [s \in Session |-> {}]
  /\ raced = {}
-----------------------------------------------------------------------------
AtClient(t, step) == "client" \in up /\ pc[t] = step
AtServer(t, step) == "server" \in up /\ pc[t] = step

Goto(t, step) == pc' = [pc EXCEPT ![t] = step]

\* The call returns or throws, or is sent again; its credential is gone.
Leave(t, step) ==
  /\ Goto(t, step)
  /\ cred' = [cred EXCEPT ![t] = NoCredential]
  /\ seen' = [seen EXCEPT ![t] = {}]

EndCall(t) == Leave(t, "idle")
Retry(t) == Leave(t, "get_login")

\* A failed assertion, a null pointer: the process is gone.
Crash(process) == up' = up \ {process}
-----------------------------------------------------------------------------
\* send_request and fill_credential.

Call(t) ==
  /\ AtClient(t, "idle")
  /\ calls[t] < MaxCalls
  /\ calls' = [calls EXCEPT ![t] = @ + 1]
  /\ Goto(t, "get_login")
  /\ UNCHANGED <<up, clientVars, serverVars, cred, seen, used, traceVars>>

\* Mutant of GetLogin: a connection without a login sends the request.
GetLoginUnchecked(t) ==
  /\ AtClient(t, "get_login")
  /\ Goto(t, "get_session")
  /\ cred' = [cred EXCEPT ![t].login = clientLogin]
  /\ UNCHANGED <<up, clientVars, serverVars, seen, calls, used, traceVars>>

\* A connection without a login refuses the request.
GetLogin(t) ==
  /\ AtClient(t, "get_login")
  /\ \/ clientLogin = NoLogin /\ EndCall(t)
     \/ /\ clientLogin # NoLogin
        /\ Goto(t, "get_session")
        /\ cred' = [cred EXCEPT ![t].login = clientLogin]
        /\ UNCHANGED seen
  /\ UNCHANGED <<up, clientVars, serverVars, calls, used, traceVars>>

\* get_session: a pointer to the session in the cache, used without the lock.
GetSession(t) ==
  /\ AtClient(t, "get_session")
  /\ LET remote == datum(profile2login, Profile)
         session == datum(login2session, remote) IN
     /\ profile2login' = touch(profile2login, Profile)
     /\ login2session' = touch(login2session, remote)
     /\ cred' = [cred EXCEPT ![t].session = session]
     /\ Goto(t, IF session = NoSession THEN "sent" ELSE "ticket")
  /\ UNCHANGED <<up, clientLogin, clientTicket, serverVars, seen, calls, used,
                 traceVars>>

\* Whether a cache holds a session.
Holds(cache, s) == \E i \in DOMAIN cache.list : cache.list[i].data = s

\* The session that a thread's pointer leads to.  One that was replaced or
\* cleared since was freed: the memory has the old values still, or those of a
\* session allocated there since.
PointsTo(s) ==
  {s} \cup (IF Holds(login2session, s) THEN {}
           ELSE {other \in Session : Holds(login2session, other)})

\* ++session->ticket reads the ticket, ...  Freed memory may also hold what no
\* server takes for a session, or be gone.
TakeTicket(t) ==
  /\ AtClient(t, "ticket")
  /\ \/ /\ \E s \in PointsTo(cred[t].session) :
             cred' = [cred EXCEPT ![t].session = s,
                                  ![t].ticket = clientTicket[s] + 1]
        /\ Goto(t, "store")
        /\ UNCHANGED up
     \/ /\ ~Holds(login2session, cred[t].session)
        /\ cred' = [cred EXCEPT ![t].session = NoSession]
        /\ Goto(t, "sent")
        /\ UNCHANGED up
     \/ /\ ~Holds(login2session, cred[t].session)
        /\ Crash("client")
        /\ UNCHANGED <<cred, pc>>
  /\ UNCHANGED <<clientVars, serverVars, seen, calls, used, traceVars>>

\* ... and writes it back, without a lock; the request is sent.
StoreTicket(t) ==
  /\ AtClient(t, "store")
  /\ clientTicket' = [clientTicket EXCEPT ![cred[t].session] = cred[t].ticket]
  /\ Goto(t, "sent")
  /\ UNCHANGED <<up, clientLogin, profile2login, login2session, serverVars,
                 cred, seen, calls, used, traceVars>>
-----------------------------------------------------------------------------
\* handle_credential.

\* get_dispatcher_connection: a connection that has a login, or UnknownBus.
Choose(t) ==
  /\ AtServer(t, "sent")
  /\ \/ serverLogin = NoLogin /\ EndCall(t)
     \/ /\ serverLogin # NoLogin
        /\ Goto(t, "validate")
        /\ UNCHANGED <<cred, seen>>
  /\ UNCHANGED <<up, clientVars, serverVars, calls, used, traceVars>>

\* validateLogin: assert(_loginCache) fails when the server has logged out.  A
\* login the client has left may still be accepted from the cache; refused, it
\* is renewed by the client (Connection.tla).  Or the bus cannot be asked.
Validate(t) ==
  /\ AtServer(t, "validate")
  /\ \/ serverLogin = NoLogin /\ Crash("server") /\ UNCHANGED requestVars
     \/ /\ serverLogin # NoLogin
        /\ \/ Goto(t, "fetch") /\ UNCHANGED <<cred, seen>>
           \/ cred[t].login # clientLogin /\ Retry(t)
           \/ EndCall(t)
        /\ UNCHANGED up
  /\ UNCHANGED <<clientVars, serverVars, calls, used, traceVars>>

\* The mutex of the interceptor, which send_credential_reset keeps until it has
\* asked for the connection's login.
Locked == \E t \in Caller : pc[t] = "attach"

\* Mutant of FetchSession: the login is not compared with the session's.
FetchAnyones(t) ==
  /\ AtServer(t, "fetch")
  /\ ~Locked
  /\ LET s == cred[t].session IN
     /\ sessions' = touch(sessions, s)
     /\ Goto(t, IF exists(sessions, s) THEN "tickets" ELSE "reset")
  /\ UNCHANGED <<up, clientVars, serverLogin, remote_id, tickets, target, cred,
                 seen, calls, used, traceVars>>

\* The session is fetched under the mutex and kept by a shared_ptr; its hash
\* and its login are compared.
FetchSession(t) ==
  /\ AtServer(t, "fetch")
  /\ ~Locked
  /\ LET s == cred[t].session
         good == exists(sessions, s) /\ remote_id[s] = cred[t].login IN
     /\ sessions' = touch(sessions, s)
     /\ Goto(t, IF good THEN "tickets" ELSE "reset")
  /\ UNCHANGED <<up, clientVars, serverLogin, remote_id, tickets, target, cred,
                 seen, calls, used, traceVars>>

\* Another dispatch has read the window of s and not written it yet.
MarksToo(t, s) ==
  \E u \in Caller \ {t} : pc[u] = "mark" /\ cred[u].session = s

\* tickets_check without a lock: the window is read, ...
ReadTickets(t) ==
  /\ AtServer(t, "tickets")
  /\ LET s == cred[t].session IN
     /\ seen' = [seen EXCEPT ![t] = tickets[s]]
     /\ raced' = IF MarksToo(t, s) THEN raced \cup {s} ELSE raced
     /\ Goto(t, IF cred[t].ticket \in tickets[s] THEN "reset" ELSE "mark")
  /\ UNCHANGED <<up, clientVars, serverVars, cred, calls, used, dispatched>>

\* Mutant of MarkTicket: the ticket is not marked.
MarkNothing(t) ==
  /\ AtServer(t, "mark")
  /\ Goto(t, "chain")
  /\ seen' = [seen EXCEPT ![t] = {}]
  /\ UNCHANGED <<up, clientVars, serverVars, cred, calls, used, traceVars>>

\* ... and written with the ticket in it.
MarkTicket(t) ==
  /\ AtServer(t, "mark")
  /\ tickets' = [tickets EXCEPT ![cred[t].session] =
                   seen[t] \cup {cred[t].ticket}]
  /\ seen' = [seen EXCEPT ![t] = {}]
  /\ Goto(t, "chain")
  /\ UNCHANGED <<up, clientVars, serverLogin, sessions, remote_id, target, cred,
                 calls, used, traceVars>>

\* Nothing refers to s: neither a cache nor a request.
Unused(s) ==
  /\ ~Holds(sessions, s) /\ ~Holds(login2session, s)
  /\ \A t \in Caller : cred[t].session # s

\* send_credential_reset: a new session, in the cache whatever has become of the
\* server's login, ...
Reset(t) ==
  /\ AtServer(t, "reset")
  /\ ~Locked
  /\ LET s == CHOOSE s \in Session : Unused(s) IN
     /\ sessions' = insert(sessions, s, s)
     /\ remote_id' = [remote_id EXCEPT ![s] = cred[t].login]
     /\ tickets' = [tickets EXCEPT ![s] = {}]
     /\ target' = [target EXCEPT ![s] = NoLogin]
     /\ dispatched' = [dispatched EXCEPT ![s] = {}]
     /\ raced' = raced \ {s}
     /\ cred' = [cred EXCEPT ![t].session = s, ![t].ticket = 0]
  /\ seen' = [seen EXCEPT ![t] = {}]
  /\ Goto(t, "attach")
  /\ UNCHANGED <<up, clientVars, serverLogin, calls, used>>

\* ... and InvalidCredential with it, for the login of now: a null pointer
\* without one.
AttachReset(t) ==
  /\ AtServer(t, "attach")
  /\ \/ /\ serverLogin # NoLogin
        /\ target' = [target EXCEPT ![cred[t].session] = serverLogin]
        /\ Goto(t, "invalid_credential")
        /\ UNCHANGED <<up, cred, seen>>
     \/ /\ serverLogin = NoLogin
        /\ Crash("server")
        /\ UNCHANGED <<target, requestVars>>
  /\ UNCHANGED <<clientVars, serverLogin, sessions, remote_id, tickets, calls,
                 used, traceVars>>

\* The request is dispatched.
Dispatched(t) ==
  /\ dispatched' = [dispatched EXCEPT ![cred[t].session] =
                      @ \cup {cred[t].ticket}]
  /\ EndCall(t)

\* validate_chain: an empty chain is invalid before anything else is read, then
\* assert(_buskey), and the null pointer of the login, fail when the server has
\* logged out.  A legacy chain for another server than the one of now is reset
\* like a bad session.
Chain(t) ==
  /\ AtServer(t, "chain")
  /\ \/ EndCall(t) /\ UNCHANGED <<up, dispatched>>
     \/ /\ serverLogin = NoLogin
        /\ Crash("server")
        /\ UNCHANGED <<requestVars, dispatched>>
     \/ /\ serverLogin # NoLogin
        /\ Dispatched(t)
        /\ UNCHANGED up
     \/ /\ serverLogin \notin {NoLogin, target[cred[t].session]}
        /\ Goto(t, "reset")
        /\ UNCHANGED <<up, cred, seen, dispatched>>
  /\ UNCHANGED <<clientVars, serverVars, calls, used, raced>>

\* The server is gone: the request fails.
NoServer(t) ==
  /\ "client" \in up
  /\ pc[t] \in ServerStep
  /\ "server" \notin up
  /\ EndCall(t)
  /\ UNCHANGED <<up, clientVars, serverVars, calls, used, traceVars>>
-----------------------------------------------------------------------------
\* receive_exception: the session is kept, whatever the client has done since
\* it sent the request, and the request is sent again.
InvalidCredential(t) ==
  /\ AtClient(t, "invalid_credential")
  /\ LET remote == target[cred[t].session] IN
     /\ profile2login' = insert(profile2login, Profile, remote)
     /\ login2session' = insert(login2session, remote, cred[t].session)
  /\ clientTicket' = [clientTicket EXCEPT ![cred[t].session] = 0]
  /\ Retry(t)
  /\ UNCHANGED <<up, clientLogin, serverVars, calls, used, traceVars>>

\* Connection::_logout and a login, of the client ...
ClientLogsOut ==
  /\ "client" \in up
  /\ clientLogin # NoLogin
  /\ clientLogin' = NoLogin
  /\ profile2login' = clear(profile2login)
  /\ login2session' = clear(login2session)
  /\ UNCHANGED <<up, clientTicket, serverVars, requestVars, calls, used,
                 traceVars>>

ClientLogsIn ==
  /\ "client" \in up
  /\ clientLogin = NoLogin
  /\ clientLogin' \in ClientLogin \ used
  /\ used' = used \cup {clientLogin'}
  /\ UNCHANGED <<up, profile2login, login2session, clientTicket, serverVars,
                 requestVars, calls, traceVars>>

\* Mutant of ServerLogsOut: the sessions outlive the login.
ServerKeepsSessions ==
  /\ "server" \in up
  /\ serverLogin # NoLogin
  /\ serverLogin' = NoLogin
  /\ UNCHANGED <<up, clientVars, sessions, remote_id, tickets, target,
                 requestVars, calls, used, traceVars>>

\* ... and of the server.
ServerLogsOut ==
  /\ "server" \in up
  /\ serverLogin # NoLogin
  /\ serverLogin' = NoLogin
  /\ sessions' = clear(sessions)
  /\ UNCHANGED <<up, clientVars, remote_id, tickets, target, requestVars, calls,
                 used, traceVars>>

ServerLogsIn ==
  /\ "server" \in up
  /\ serverLogin = NoLogin
  /\ serverLogin' \in ServerLogin \ used
  /\ used' = used \cup {serverLogin'}
  /\ UNCHANGED <<up, clientVars, sessions, remote_id, tickets, target,
                 requestVars, calls, traceVars>>

Continue(t) ==
  \/ GetLogin(t) \/ GetSession(t) \/ TakeTicket(t) \/ StoreTicket(t)
  \/ Choose(t) \/ Validate(t) \/ FetchSession(t) \/ ReadTickets(t)
  \/ MarkTicket(t) \/ Reset(t) \/ AttachReset(t) \/ Chain(t) \/ NoServer(t)
  \/ InvalidCredential(t)

Next ==
  \/ \E t \in Caller : Call(t) \/ Continue(t)
  \/ ClientLogsOut \/ ClientLogsIn \/ ServerLogsOut \/ ServerLogsIn

Spec == Init /\ [][Next]_vars
-----------------------------------------------------------------------------
Credential == [login : ClientLogin \cup {NoLogin},
               session : Session \cup {NoSession}, ticket : Nat]

\* The types of the variables, tickets without a bound; a request has a login
\* from get_login on.
TypeOK ==
  /\ up \subseteq {"client", "server"}
  /\ clientLogin \in ClientLogin \cup {NoLogin}
  /\ serverLogin \in ServerLogin \cup {NoLogin}
  /\ used \subseteq ClientLogin \cup ServerLogin
  /\ clientTicket \in [Session -> Nat]
  /\ remote_id \in [Session -> ClientLogin \cup {NoLogin}]
  /\ tickets \in [Session -> SUBSET Nat]
  /\ target \in [Session -> ServerLogin \cup {NoLogin}]
  /\ dispatched \in [Session -> SUBSET Nat]
  /\ raced \subseteq Session
  /\ pc \in [Caller -> {"idle"} \cup ClientStep \cup ServerStep]
  /\ cred \in [Caller -> Credential]
  /\ seen \in [Caller -> SUBSET Nat]
  /\ calls \in [Caller -> 0 .. MaxCalls]
  /\ \A t \in Caller :
       (cred[t].login = NoLogin) <=> pc[t] \in {"idle", "get_login"}

\* What a ticket is for, a counter that only grows: none of a session's tickets
\* is dispatched twice.
OneDispatchPerTicket ==
  \A t \in Caller :
    pc[t] = "chain" => cred[t].ticket \notin dispatched[cred[t].session]

\* No ticket is dispatched twice, even when threads of the client race for one
\* and whatever session a dangling pointer led them to, unless two dispatches
\* of the server were in tickets_check with the session's window at once.
OneDispatchUnlessRaced ==
  \A t \in Caller :
    pc[t] = "chain" =>
      \/ cred[t].ticket \notin dispatched[cred[t].session]
      \/ cred[t].session \in raced

\* No session outlives the login it was made under, although one may be put into
\* the cache while the server logs out and in: what the server still holds was
\* named to the client with the login the server has now.
SessionOfItsServer ==
  \A s \in Session :
    Holds(sessions, s) /\ serverLogin # NoLogin =>
      \/ target[s] = serverLogin
      \/ \E t \in Caller : pc[t] = "attach" /\ cred[t].session = s

\* A request is dispatched only under the login its session was made for: one
\* made for the client's last login, which a late answer has put back into the
\* cache after the logout, does not authenticate the next.
DispatchedForItsLogin ==
  \A t \in Caller :
    pc[t] = "chain" => remote_id[cred[t].session] = cred[t].login
=============================================================================
