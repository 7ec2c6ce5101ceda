---------------------------- MODULE SignedChains ----------------------------
(***************************************************************************)
(* The signed chain of a credential: get_joined_chain, fill_credential and *)
(* get_signed_chain of interceptors/client.cpp with the caches of signed   *)
(* chains, validate_chain of interceptors/server.cpp, and _request_id2conn,*)
(* the table in which the client finds the connection of a request again.  *)
(*                                                                         *)
(* The threads of a client process call one server by one connection.  A   *)
(* chain that is not cached is signed by the bus, by a remote call in the  *)
(* middle of send_request that goes through the interceptors itself.  Both *)
(* sides log out and in again meanwhile.  Tickets and the hash are in      *)
(* CredentialSession.tla, the callbacks of an InvalidLogin and the nested  *)
(* getLoginValidity in Connection.tla; the server keeps every session of   *)
(* its current login.                                                      *)
(***************************************************************************)
EXTENDS ExportedData, FiniteSets

CONSTANTS Thread,       \* threads of the client process
          ClientLogin,  \* logins the client may get: bounds their number
          ServerLogin,  \* logins the server may get
          NoLogin,
          entity,       \* the entity of each login of the server
          Lineage,      \* calls that a chain continues, as the bus signed them
          Garbage,      \* a signature that was never written
          LegacySupport,
          Id,           \* random ids: each thread's, reused when nothing holds one
          MaxLogins,    \* bounds the logins of both sides together
          MaxCalls,     \* bounds the calls of each thread
          MaxRedirects  \* bounds the requests that are redirected

ASSUME ChainAssumption ==
  /\ NoLogin \notin ClientLogin \cup ServerLogin
  /\ DOMAIN entity = ServerLogin
  /\ Unsigned \notin Lineage /\ Garbage \notin Lineage \cup {Unsigned}
  /\ Lineage \cap Failure = {}
  /\ LegacySupport \in BOOLEAN
  /\ MaxLogins \in Nat /\ MaxCalls \in Nat /\ MaxRedirects \in Nat
  /\ Id \subseteq Nat \ {0}
  /\ Cardinality(Id) > 1 + MaxRedirects

NoSession == [login |-> NoLogin, remote |-> NoLogin, is_legacy |-> FALSE]
Session ==
  [login : ClientLogin, remote : ServerLogin, is_legacy : BOOLEAN]

\* A chain as bus and server see it: who calls, in which chain, and whom.
Chain == [caller : ClientLogin, origin : Lineage \cup {Unsigned},
          target : {entity[s] : s \in ServerLogin}]
NoChain == [caller |-> NoLogin, origin |-> Unsigned, target |-> NoLogin]

\* What the hash of a cached chain is made from; a cache per protocol.
Key == [protocol : Protocol, login : ClientLogin, remote : ServerLogin,
        signature : Lineage \cup {Unsigned, Garbage}]
NoKey == [protocol |-> Current, login |-> NoLogin, remote |-> NoLogin,
          signature |-> Unsigned]
NoRequest ==
  [login |-> NoLogin, session |-> NoSession, key |-> NoKey, nested |-> NoLogin,
   chain |-> NoChain]

Nil == 0  \* boost::uuids::nil_generator

VARIABLES
  up,           \* the processes that have not crashed
  clientLogin,  \* the login of the client's connection
  session,      \* its session with the server: _profile2login, _login2session
  cache,        \* _callChainLRUCache and _legacy_callChainLRUCache
  table,        \* the ids in _request_id2conn
  serverLogin,  \* the login of the server's connection
  joined,       \* slot joined_call_chain of each thread
  slot,         \* slot request_id of each thread
  pc,           \* where the request of each thread is
  req,          \* what it has read: login, session, key, chain
  calls,        \* calls each thread has begun
  redirects,    \* external: requests redirected
  used,         \* external: logins the bus has issued
  leaked        \* history: the ids of redirected requests

clientVars == <<clientLogin, session, cache>>
requestVars == <<pc, req, slot, table>>
boundVars == <<calls, redirects, used, leaked>>
vars == <<up, clientVars, serverLogin, joined, requestVars, boundVars>>

\* Steps at which the id of the thread's last request is in use.
Waiting == {"signing", "sent", "check", "reset", "dispatched"}
Step == Waiting \cup
  {"idle", "get_login", "get_session", "lookup", "sign", "insert"}

Init ==
  /\ up = {"client", "server"}
  /\ clientLogin = NoLogin /\ serverLogin = NoLogin
  /\ session = NoSession
  /\ cache = [k \in Key |-> NoChain]
  /\ table = {}
  /\ joined = [t \in Thread |-> [p \in Protocol |-> Unsigned]]
  /\ slot = [t \in Thread |-> Nil]
  /\ pc = [t \in Thread |-> "idle"]
  /\ req = [t \in Thread |-> NoRequest]
  /\ calls = [t \in Thread |-> 0] /\ redirects = 0
  /\ used = {} /\ leaked = {}
-----------------------------------------------------------------------------
AtClient(t, step) == "client" \in up /\ pc[t] = step
AtServer(t, step) == up = {"client", "server"} /\ pc[t] = step

Goto(t, step) == pc' = [pc EXCEPT ![t] = step]

\* The call returns or throws, or is sent again: its credential is gone, and so
\* is its id for the model.  The slot keeps it, but nobody reads it before the
\* next request writes it.
Leave(t, step) ==
  /\ Goto(t, step)
  /\ req' = [req EXCEPT ![t] = NoRequest]
  /\ slot' = [slot EXCEPT ![t] = Nil]

\* A null reference or a failed assertion: the process is gone.
Crash(process) == up' = up \ {process}

\* receive_reply and receive_exception: the id in the slot leaves the table.
Erase(t) == table' = table \ {<<t, slot[t]>>}

\* A random id that nothing else has.
NewId(t, id) ==
  LET free == {i \in Id : <<t, i>> \notin table /\ slot[t] # i} IN
  id \in free /\ \A i \in free : id <= i

\* A request is entered under a new id, which the thread's slot gets.
Enter(t, id) ==
  /\ NewId(t, id)
  /\ table' = table \cup {<<t, id>>}
  /\ slot' = [slot EXCEPT ![t] = id]
-----------------------------------------------------------------------------
\* Chains that a thread may join.

\* makeChainFor: signed in both protocols if the bus supports the old one.
makeChainFor(lineage) ==
  [p \in Protocol |->
    IF p = Legacy /\ ~LegacySupport THEN Unsigned ELSE lineage]

\* importChain, and extract_call_chain of a caller of protocol 2.1.
importChain(lineage) == OnlyIn(Current, lineage)

\* extract_legacy_call_chain.
legacyCallChain(lineage) == OnlyIn(Legacy, lineage)

\* Chains made, imported or received; each may come through a stream of bytes.
ChainsOf(lineage) ==
  LET signed == {makeChainFor(lineage), importChain(lineage),
                 legacyCallChain(lineage)} IN
  signed \cup ({decodeChain(encodeChain(c)) : c \in signed} \ Failure)

\* Mutant of joinChain: both protocols are kept.
joinWhole(chain) == chain

\* joinChain keeps one protocol, the new one if the chain has it.
joinChain(chain) ==
  IF chain[Current] # Unsigned THEN OnlyIn(Current, chain[Current])
                               ELSE OnlyIn(Legacy, chain[Legacy])

NoneJoined == [p \in Protocol |-> Unsigned]
is_legacy(chain) == chain[Legacy] # Unsigned
LineageOf(chain) == IF is_legacy(chain) THEN chain[Legacy] ELSE chain[Current]

\* joinChain and exitChain of a thread between two calls.
Join(t) ==
  /\ AtClient(t, "idle")
  /\ calls[t] < MaxCalls
  /\ \/ \E lineage \in Lineage : \E chain \in ChainsOf(lineage) :
          joined' = [joined EXCEPT ![t] = joinChain(chain)]
     \/ joined' = [joined EXCEPT ![t] = NoneJoined]
  /\ UNCHANGED <<up, clientVars, serverLogin, requestVars, boundVars>>
-----------------------------------------------------------------------------
\* send_request.

Call(t) ==
  /\ AtClient(t, "idle")
  /\ calls[t] < MaxCalls
  /\ calls' = [calls EXCEPT ![t] = @ + 1]
  /\ Goto(t, "get_login")
  /\ UNCHANGED <<up, clientVars, serverLogin, joined, req, slot, table,
                 redirects, used, leaked>>

\* A connection without a login refuses the request.
GetLogin(t) ==
  /\ AtClient(t, "get_login")
  /\ \/ clientLogin = NoLogin /\ Leave(t, "idle")
     \/ /\ clientLogin # NoLogin
        /\ Goto(t, "get_session")
        /\ req' = [req EXCEPT ![t].login = clientLogin]
        /\ UNCHANGED slot
  /\ UNCHANGED <<up, clientVars, serverLogin, joined, table, boundVars>>

\* Mutant of Register: the slot keeps the id of the nested request.
RegisterIdOnly(t, r) ==
  /\ \E id \in Id : NewId(t, id) /\ table' = table \cup {<<t, id>>}
  /\ req' = [req EXCEPT ![t] = [r EXCEPT !.key = NoKey, !.nested = NoLogin]]
  /\ Goto(t, "sent")
  /\ UNCHANGED slot

\* The credential is attached; the request gets its id and is sent.
Register(t, r) ==
  /\ \E id \in Id : Enter(t, id)
  /\ req' = [req EXCEPT ![t] = [r EXCEPT !.key = NoKey, !.nested = NoLogin]]
  /\ Goto(t, "sent")

\* get_session; without one the credential carries no chain.
GetSession(t) ==
  /\ AtClient(t, "get_session")
  /\ LET r == [req[t] EXCEPT !.session = session] IN
     \/ session = NoSession /\ Register(t, r)
     \/ /\ session # NoSession
        /\ req' = [req EXCEPT ![t] = r]
        /\ Goto(t, "lookup")
        /\ UNCHANGED <<slot, table>>
  /\ UNCHANGED <<up, clientVars, serverLogin, joined, boundVars>>

\* attach_credential: the protocol of the credential.
ProtocolOf(t) ==
  IF req[t].session.is_legacy \/ is_legacy(joined[t]) THEN Legacy ELSE Current

\* The signature that fill_credential copies from the joined chain.  A chain of
\* the other protocol has one that was never written.
SignaturesRead(t) ==
  IF joined[t] # NoneJoined /\ joined[t][ProtocolOf(t)] = Unsigned
  THEN Lineage \cup {Unsigned, Garbage}
  ELSE {joined[t][ProtocolOf(t)]}

\* Mutants of KeyFor: a part of the key is forgotten.
KeyForAnyLogin(t, signature) ==
  [protocol |-> ProtocolOf(t), login |-> CHOOSE l \in ClientLogin : TRUE,
   remote |-> req[t].session.remote, signature |-> signature]
KeyForAnyRemote(t, signature) ==
  [protocol |-> ProtocolOf(t), login |-> req[t].login,
   remote |-> CHOOSE s \in ServerLogin : TRUE, signature |-> signature]
KeyForAnyChain(t, signature) ==
  [protocol |-> ProtocolOf(t), login |-> req[t].login,
   remote |-> req[t].session.remote, signature |-> Unsigned]

\* The hash of the login, of the session's remote_id and of the signature.
KeyFor(t, signature) ==
  [protocol |-> ProtocolOf(t), login |-> req[t].login,
   remote |-> req[t].session.remote, signature |-> signature]

\* get_signed_chain looks for the chain under the lock.  A full cache may have
\* lost what was kept in it.
Lookup(t) ==
  /\ AtClient(t, "lookup")
  /\ \E signature \in SignaturesRead(t) :
       LET k == KeyFor(t, signature) IN
       \/ /\ cache[k] # NoChain
          /\ Register(t, [req[t] EXCEPT !.chain = cache[k]])
       \/ /\ req' = [req EXCEPT ![t].key = k]
          /\ Goto(t, "sign")
          /\ UNCHANGED <<slot, table>>
  /\ UNCHANGED <<up, clientVars, serverLogin, joined, boundVars>>

\* The bus is asked to sign one: a request of its own, with its own get_login
\* and id.  The reference is null without the old protocol or after a logout; a
\* logout after it was read makes get_login refuse, reported as UnavailableBus.
Sign(t) ==
  /\ AtClient(t, "sign")
  /\ \/ /\ clientLogin = NoLogin \/ (ProtocolOf(t) = Legacy /\ ~LegacySupport)
        /\ Crash("client")
        /\ UNCHANGED requestVars
     \/ /\ clientLogin = NoLogin
        /\ Leave(t, "idle")
        /\ UNCHANGED <<up, table>>
     \/ /\ clientLogin # NoLogin
        /\ ProtocolOf(t) = Legacy => LegacySupport
        /\ \E id \in Id : Enter(t, id)
        /\ req' = [req EXCEPT ![t].nested = clientLogin]
        /\ Goto(t, "signing")
        /\ UNCHANGED up
  /\ UNCHANGED <<clientVars, serverLogin, joined, boundVars>>

\* The chain that the bus signs: for the entity of the session, or for the
\* login it has, which comes to the same.
SignedChain(t) ==
  [caller |-> req[t].nested, origin |-> LineageOf(joined[t]),
   target |-> entity[req[t].session.remote]]

\* The bus signs; or refuses the login, and the request is sent again with
\* another; or it fails or refuses the joined chain: UnavailableBus.  Of the old
\* protocol, it also refuses a server's login that is gone, and the profiles of
\* that login are forgotten, without a lock.
BusAnswers(t) ==
  /\ AtClient(t, "signing")
  /\ Erase(t)
  /\ \/ /\ req[t].nested = clientLogin
        /\ ProtocolOf(t) = Legacy => req[t].session.remote = serverLogin
        /\ req' = [req EXCEPT ![t].chain = SignedChain(t)]
        /\ Goto(t, "insert")
        /\ UNCHANGED <<session, slot>>
     \/ /\ req[t].nested # clientLogin
        /\ Goto(t, "sign")
        /\ UNCHANGED <<req, session, slot>>
     \/ /\ req[t].nested = clientLogin
        /\ ProtocolOf(t) = Legacy
        /\ req[t].session.remote # serverLogin
        /\ session' = IF session.remote = req[t].session.remote
                      THEN NoSession ELSE session
        /\ Leave(t, "idle")
     \/ Leave(t, "idle") /\ UNCHANGED session
  /\ UNCHANGED <<up, clientLogin, cache, serverLogin, joined, boundVars>>

\* The chain is kept under the hash, whatever has happened since the lookup.
Insert(t) ==
  /\ AtClient(t, "insert")
  /\ cache' = [cache EXCEPT ![req[t].key] = req[t].chain]
  /\ Register(t, req[t])
  /\ UNCHANGED <<up, clientLogin, session, serverLogin, joined, boundVars>>
-----------------------------------------------------------------------------
\* The server: handle_credential and validate_chain.

\* InvalidCredential with a new session, in the protocol of the credential; one
\* without a session is in both, and the server takes the new one.
Reset(t) ==
  /\ req' = [req EXCEPT ![t].session =
               [login |-> req[t].login, remote |-> serverLogin,
                is_legacy |-> /\ req[t].session # NoSession
                              /\ ProtocolOf(t) = Legacy]]
  /\ Goto(t, "reset")

\* A server without a login, or which cannot ask the bus, refuses.  A login the
\* client has left may still be known, or is refused, and the request is sent
\* again.  The session must be of the server's login, and of the client's.
Authenticate(t) ==
  /\ AtServer(t, "sent")
  /\ LET good == /\ req[t].session.remote = serverLogin
                 /\ req[t].session.login = req[t].login IN
     \/ Leave(t, "idle") /\ Erase(t)
     \/ req[t].login # clientLogin /\ Leave(t, "get_login") /\ Erase(t)
     \/ serverLogin # NoLogin /\ good /\ Goto(t, "check")
        /\ UNCHANGED <<req, slot, table>>
     \/ serverLogin # NoLogin /\ ~good /\ Reset(t) /\ UNCHANGED <<slot, table>>
  /\ UNCHANGED <<up, clientVars, serverLogin, joined, boundVars>>

\* validate_chain.  The target is compared in the old protocol only.
CheckChain(t) ==
  /\ AtServer(t, "check")
  /\ LET wrong_target == /\ ProtocolOf(t) = Legacy
                         /\ req[t].chain.target # entity[serverLogin] IN
     \/ serverLogin = NoLogin /\ Crash("server") /\ UNCHANGED requestVars
     \/ /\ serverLogin # NoLogin /\ wrong_target
        /\ Reset(t)
        /\ UNCHANGED <<up, slot, table>>
     \/ /\ serverLogin # NoLogin /\ ~wrong_target
        /\ req[t].chain.caller = req[t].login
        /\ Goto(t, "dispatched")
        /\ UNCHANGED <<up, req, slot, table>>
     \/ /\ serverLogin # NoLogin /\ ~wrong_target
        /\ req[t].chain.caller # req[t].login
        /\ Leave(t, "idle") /\ Erase(t)
        /\ UNCHANGED up
  /\ UNCHANGED <<clientVars, serverLogin, joined, boundVars>>
-----------------------------------------------------------------------------
\* Answers.

\* The servant has answered, or the server is gone and the ORB answers.
Answered(t) ==
  /\ "client" \in up
  /\ \/ pc[t] = "dispatched"
     \/ pc[t] \in {"sent", "check", "reset"} /\ "server" \notin up

\* receive_reply, or receive_exception of an exception that ends the call.
Answer(t) ==
  /\ Answered(t)
  /\ Leave(t, "idle")
  /\ Erase(t)
  /\ UNCHANGED <<up, clientVars, serverLogin, joined, boundVars>>

\* receive_exception of InvalidCredential: the session is kept, and the request
\* is sent again.
InvalidCredential(t) ==
  /\ AtClient(t, "reset")
  /\ Erase(t)
  /\ session' = req[t].session
  /\ Leave(t, "get_login")
  /\ UNCHANGED <<up, clientLogin, cache, serverLogin, joined, boundVars>>

\* receive_other: the object has moved.  The request is sent again, its id stays
\* in the table.
Redirect(t) ==
  /\ AtClient(t, "sent")
  /\ redirects < MaxRedirects
  /\ redirects' = redirects + 1
  /\ leaked' = leaked \cup {<<t, slot[t]>>}
  /\ Leave(t, "get_login")
  /\ UNCHANGED <<up, clientVars, serverLogin, joined, table, calls, used>>
-----------------------------------------------------------------------------
\* Logouts, which clear the caches of the process, and logins.  A side
\* logs out while the bounds have a login left and nobody has crashed.
LoginsLeft == Cardinality(used) < MaxLogins

ClientLogsOut ==
  /\ up = {"client", "server"} /\ LoginsLeft
  /\ clientLogin # NoLogin
  /\ clientLogin' = NoLogin
  /\ session' = NoSession
  /\ cache' = [k \in Key |-> NoChain]
  /\ UNCHANGED <<up, serverLogin, joined, requestVars, boundVars>>

ClientLogsIn ==
  /\ up = {"client", "server"} /\ LoginsLeft
  /\ clientLogin = NoLogin
  /\ clientLogin' \in ClientLogin \ used
  /\ used' = used \cup {clientLogin'}
  /\ UNCHANGED <<up, session, cache, serverLogin, joined, requestVars, calls,
                 redirects, leaked>>

ServerLogsOut ==
  /\ up = {"client", "server"} /\ LoginsLeft
  /\ serverLogin # NoLogin
  /\ serverLogin' = NoLogin
  /\ UNCHANGED <<up, clientVars, joined, requestVars, boundVars>>

ServerLogsIn ==
  /\ up = {"client", "server"} /\ LoginsLeft
  /\ serverLogin = NoLogin
  /\ serverLogin' \in ServerLogin \ used
  /\ used' = used \cup {serverLogin'}
  /\ UNCHANGED <<up, clientVars, joined, requestVars, calls, redirects, leaked>>

Continue(t) ==
  \/ GetLogin(t) \/ GetSession(t) \/ Lookup(t) \/ Sign(t) \/ BusAnswers(t)
  \/ Insert(t) \/ Authenticate(t) \/ CheckChain(t)
  \/ Answer(t) \/ InvalidCredential(t)

Next ==
  \/ \E t \in Thread : Join(t) \/ Call(t) \/ Continue(t) \/ Redirect(t)
  \/ ClientLogsOut \/ ClientLogsIn \/ ServerLogsOut \/ ServerLogsIn

Spec == Init /\ [][Next]_vars
-----------------------------------------------------------------------------
Request ==
  [login : ClientLogin \cup {NoLogin}, session : Session \cup {NoSession},
   key : Key \cup {NoKey}, nested : ClientLogin \cup {NoLogin},
   chain : Chain \cup {NoChain}]

\* The types of the variables.  A joined chain is of one protocol at most, and
\* between the bus and the cache there is a chain to keep.
TypeOK ==
  /\ up \subseteq {"client", "server"}
  /\ clientLogin \in ClientLogin \cup {NoLogin}
  /\ serverLogin \in ServerLogin \cup {NoLogin}
  /\ session \in Session \cup {NoSession}
  /\ cache \in [Key -> Chain \cup {NoChain}]
  /\ table \subseteq Thread \X Id /\ leaked \subseteq Thread \X Id
  /\ joined \in [Thread -> [Protocol -> Lineage \cup {Unsigned}]]
  /\ \A t \in Thread : \E p \in Protocol : joined[t][p] = Unsigned
  /\ slot \in [Thread -> Id \cup {Nil}]
  /\ pc \in [Thread -> Step]
  /\ req \in [Thread -> Request]
  /\ \A t \in Thread :
       pc[t] = "insert" => req[t].chain \in Chain /\ req[t].key \in Key
  /\ calls \in [Thread -> 0 .. MaxCalls] /\ redirects \in 0 .. MaxRedirects
  /\ used \subseteq ClientLogin \cup ServerLogin

\* An answer finds its request in the table (client.cpp:512 takes what find
\* returns without a look), although the nested request for a chain uses the
\* slot of the thread too.
RequestFound ==
  \A t \in Thread : pc[t] \in Waiting => <<t, slot[t]>> \in table \ leaked

\* An answer finds its request, and the table holds no other requests than those
\* under way and those that were redirected, which it never loses.
TableOfRequests ==
  /\ RequestFound
  /\ table = leaked \cup {<<t, slot[t]>> : t \in {u \in Thread : pc[u] \in Waiting}}

\* A chain that was signed for another login than the one it is kept or sent
\* under, because of a login between the two requests, is only kept or sent
\* under a login that is over: a server answers InvalidChain to no other.
ChainOfItsLogin ==
  /\ \A k \in Key : cache[k] # NoChain /\ k.login = clientLogin =>
       cache[k].caller = clientLogin
  /\ \A t \in Thread : req[t].chain # NoChain /\ req[t].login = clientLogin =>
       req[t].chain.caller = clientLogin

\* Whatever logs in where the server was, a request is dispatched with a chain
\* for the entity whose login made the session, though only the old protocol
\* compares.
TargetedAtServer ==
  \A t \in Thread : pc[t] \in {"check", "dispatched"} =>
    req[t].chain.target = entity[req[t].session.remote]

\* A request of protocol 2.1 is dispatched in the chain that its thread has
\* joined, and in none if it has joined none, also with a chain that another
\* thread has had signed.
JoinedChainCarried ==
  \A t \in Thread : pc[t] = "dispatched" /\ ProtocolOf(t) = Current =>
    req[t].chain.origin = LineageOf(joined[t])
=============================================================================
