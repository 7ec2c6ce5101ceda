----------------------- MODULE CredentialSessionProofs -----------------------
(***************************************************************************)
(* What a dispatch may rely on: its session was made for the login of its  *)
(* credential, and its ticket was not used before, unless two dispatches   *)
(* had the session's window at once; and no session of the server outlives *)
(* its login.  For any number of callers, logins and sessions, any size of *)
(* the caches, and whatever freed memory holds.                            *)
(*                                                                         *)
(* The second half is about the tickets of one session: for every window   *)
(* size, every range of tickets and every tickets_Value wider than a       *)
(* ticket, the history of src/src/ticket.c implements TicketSpec.          *)
(***************************************************************************)
EXTENDS CredentialSession, Tickets, LRUCacheProofs, FiniteSetTheorems,
        WellFoundedInduction

Steps == {"idle"} \cup ClientStep \cup ServerStep

\* From these steps on a session is used without a look at whether there is one.
WithSession ==
  {"ticket", "store", "tickets", "mark", "attach", "chain",
   "invalid_credential"}

\* The caches are in step, and tickets are numbers without a bound.
CacheInv ==
  /\ sessions \in Cache(Session, Session)
  /\ sessions.currSize <= MaxSize
  /\ login2session \in Cache(ServerLogin, Session)
  /\ login2session.currSize <= MaxSize
StateTypes ==
  /\ clientLogin \in ClientLogin \cup {NoLogin}
  /\ serverLogin \in ServerLogin \cup {NoLogin}
  /\ clientTicket \in [Session -> Nat]
  /\ remote_id \in [Session -> ClientLogin \cup {NoLogin}]
  /\ tickets \in [Session -> SUBSET Nat]
  /\ target \in [Session -> ServerLogin \cup {NoLogin}]
  /\ dispatched \in [Session -> SUBSET Nat]
  /\ raced \subseteq Session
RequestTypes ==
  /\ pc \in [Caller -> Steps]
  /\ cred \in [Caller -> Credential]
  /\ seen \in [Caller -> SUBSET Nat]
  /\ \A t \in Caller : pc[t] \in WithSession => cred[t].session \in Session
TypeInv == StateTypes /\ RequestTypes

\* Once its session is fetched, a request is one of the session's login.
LoginInv ==
  \A t \in Caller :
    pc[t] \in {"tickets", "mark", "chain"}
      => remote_id[cred[t].session] = cred[t].login

\* A session that a client is given has a target.
TargetInv ==
  \A t \in Caller :
    pc[t] = "invalid_credential" => target[cred[t].session] \in ServerLogin

\* Unless two dispatches had the window of a session at once, what was read of
\* it is still true when it is written; the ticket of a request about to be
\* dispatched is marked, for that request alone.
MarkInv ==
  /\ \A t, u \in Caller :
       pc[t] = "mark" /\ pc[u] = "mark" /\ cred[t].session = cred[u].session
         => t = u \/ cred[t].session \in raced
  /\ \A t \in Caller : pc[t] = "mark" /\ cred[t].session \notin raced =>
       /\ seen[t] = tickets[cred[t].session]
       /\ cred[t].ticket \notin tickets[cred[t].session]
ChainInv ==
  /\ \A s \in Session \ raced : dispatched[s] \subseteq tickets[s]
  /\ \A t \in Caller : pc[t] = "chain" /\ cred[t].session \notin raced =>
       /\ cred[t].ticket \in tickets[cred[t].session]
       /\ cred[t].ticket \notin dispatched[cred[t].session]
  /\ \A t, u \in Caller :
       pc[t] = "chain" /\ pc[u] = "chain" /\ cred[t].session = cred[u].session
         /\ cred[t].ticket = cred[u].ticket
         => t = u \/ cred[t].session \in raced
TicketInv == MarkInv /\ ChainInv

\* The inductive invariants.
IInv == CacheInv /\ TypeInv /\ LoginInv /\ TargetInv
-----------------------------------------------------------------------------
\* There are sessions enough for both caches and every request.
LEMMA UnusedSession ==
  ASSUME CacheInv
  PROVE  \E s \in Session : Unused(s)
  <1> DEFINE L == Len(sessions.list)
             M == Len(login2session.list)
             f == [i \in 1 .. L |-> sessions.list[i].data]
             g == [i \in 1 .. M |-> login2session.list[i].data]
             h == [t \in Caller |-> cred[t].session]
             A == {sessions.list[i].data : i \in 1 .. L}
             B == {login2session.list[i].data : i \in 1 .. M}
             C == {cred[t].session : t \in Caller}
  <1>1. /\ L \in Nat /\ L <= MaxSize /\ DOMAIN sessions.list = 1 .. L
        /\ M \in Nat /\ M <= MaxSize /\ DOMAIN login2session.list = 1 .. M
    BY CacheFacts, MaxSizeAssumption DEF CacheInv
  <1>2. /\ f \in Surjection(1 .. L, A) /\ g \in Surjection(1 .. M, B)
        /\ h \in Surjection(Caller, C)
    BY DEF Surjection
  <1>3. SUFFICES ASSUME \A s \in Session : ~Unused(s)
                 PROVE  FALSE
    OBVIOUS
  <1>4. Session \in SUBSET ((A \cup B) \cup C)
    BY <1>1, <1>3 DEF Unused, Holds
  <1> HIDE DEF A, B, C, f, g, h, L, M
  <1>5. /\ IsFiniteSet(1 .. L) /\ Cardinality(1 .. L) = L
        /\ IsFiniteSet(1 .. M) /\ Cardinality(1 .. M) = M
    <2>1. ASSUME NEW n \in Nat
          PROVE  IsFiniteSet(1 .. n) /\ Cardinality(1 .. n) = n
      <3>1. IsFiniteSet(1 .. n)  BY FS_Interval
      <3>2. Cardinality(1 .. n) = IF 1 > n THEN 0 ELSE n - 1 + 1  BY FS_Interval
      <3> QED  BY <3>1, <3>2
    <2> QED  BY <1>1, <2>1
  <1>6. IsFiniteSet(A) /\ Cardinality(A) <= Cardinality(1 .. L)
    BY <1>2, <1>5, FS_Surjection
  <1>7. IsFiniteSet(B) /\ Cardinality(B) <= Cardinality(1 .. M)
    BY <1>2, <1>5, FS_Surjection
  <1>8. IsFiniteSet(C) /\ Cardinality(C) <= Cardinality(Caller)
    BY <1>2, FS_Surjection, SessionAssumption
  <1>9. /\ IsFiniteSet(A \cup B)
        /\ Cardinality(A \cup B) =
             Cardinality(A) + Cardinality(B) - Cardinality(A \cap B)
    BY <1>6, <1>7, FS_Union
  <1>10. /\ IsFiniteSet((A \cup B) \cup C)
         /\ Cardinality((A \cup B) \cup C) =
              Cardinality(A \cup B) + Cardinality(C)
                - Cardinality((A \cup B) \cap C)
    BY <1>8, <1>9, FS_Union
  <1>11. /\ Cardinality(A \cap B) \in Nat
         /\ Cardinality((A \cup B) \cap C) \in Nat
    <2>1. IsFiniteSet(A \cap B)
      <3>1. A \cap B \in SUBSET A  OBVIOUS
      <3> QED  BY <3>1, <1>6, FS_Subset
    <2>2. IsFiniteSet((A \cup B) \cap C)
      <3>1. (A \cup B) \cap C \in SUBSET C  OBVIOUS
      <3> QED  BY <3>1, <1>8, FS_Subset
    <2> QED  BY <2>1, <2>2, FS_CardinalityType
  <1>12. Cardinality(Session) <= Cardinality((A \cup B) \cup C)
    BY <1>4, <1>10, FS_Subset
  <1>13. /\ Cardinality(A) \in Nat /\ Cardinality(B) \in Nat
         /\ Cardinality(C) \in Nat /\ Cardinality(A \cup B) \in Nat
         /\ Cardinality(Session) \in Nat /\ Cardinality(Caller) \in Nat
    BY <1>6, <1>7, <1>8, <1>9, FS_CardinalityType, SessionAssumption
  <1>14. Cardinality(Session) > 2 * MaxSize + Cardinality(Caller)
    BY SessionAssumption
  <1>15. MaxSize \in Nat  BY MaxSizeAssumption
  <1> QED
    BY <1>1, <1>5, <1>6, <1>7, <1>8, <1>9, <1>10, <1>11, <1>12, <1>13, <1>14,
       <1>15

\* The session that send_credential_reset makes.
NewSession == CHOOSE s \in Session : Unused(s)

LEMMA NewSessionUnused ==
  ASSUME CacheInv
  PROVE  NewSession \in Session /\ \A t \in Caller : cred[t].session # NewSession
  <1>1. \E s \in Session : Unused(s)  BY UnusedSession
  <1>2. NewSession \in Session /\ Unused(NewSession)  BY <1>1 DEF NewSession
  <1> QED  BY <1>2 DEF Unused
-----------------------------------------------------------------------------
\* The effects of every action on the caches, ...
LEMMA CacheNext ==
  ASSUME CacheInv, TypeInv, TargetInv, [Next]_vars
  PROVE  CacheInv'
  <1>1. ASSUME NEW t \in Caller, GetSession(t)
        PROVE  CacheInv'
    <2>1. PICK remote : login2session' = touch(login2session, remote)
      BY <1>1 DEF GetSession
    <2>2. /\ touch(login2session, remote) \in Cache(ServerLogin, Session)
          /\ touch(login2session, remote).currSize = login2session.currSize
          /\ Pairs(touch(login2session, remote)) = Pairs(login2session)
      BY TouchKeeps DEF CacheInv
    <2>3. UNCHANGED sessions  BY <1>1 DEF GetSession, serverVars
    <2> QED  BY <2>1, <2>2, <2>3 DEF CacheInv
  <1>2. ASSUME NEW t \in Caller, FetchSession(t)
        PROVE  CacheInv'
    <2>1. PICK s : sessions' = touch(sessions, s)  BY <1>2 DEF FetchSession
    <2>2. /\ touch(sessions, s) \in Cache(Session, Session)
          /\ touch(sessions, s).currSize = sessions.currSize
          /\ Pairs(touch(sessions, s)) = Pairs(sessions)
      BY TouchKeeps DEF CacheInv
    <2>3. UNCHANGED login2session  BY <1>2 DEF FetchSession, clientVars
    <2> QED  BY <2>1, <2>2, <2>3 DEF CacheInv
  <1>3. ASSUME NEW t \in Caller, Reset(t)
        PROVE  CacheInv'
    <2>1. UNCHANGED login2session  BY <1>3 DEF Reset, clientVars
    <2>2. sessions' = insert(sessions, NewSession, NewSession)
      BY <1>3, Zenon DEF Reset, NewSession
    <2>3. NewSession \in Session  BY NewSessionUnused
    <2>4. /\ insert(sessions, NewSession, NewSession) \in Cache(Session, Session)
          /\ insert(sessions, NewSession, NewSession).currSize <= MaxSize
      BY <2>3, InsertInStep DEF CacheInv
    <2> QED  BY <2>1, <2>2, <2>4 DEF CacheInv
  <1>4. ASSUME NEW t \in Caller, InvalidCredential(t)
        PROVE  CacheInv'
    <2> DEFINE s == cred[t].session
               remote == target[s]
    <2>1. /\ login2session' = insert(login2session, remote, s)
          /\ UNCHANGED sessions
      BY <1>4 DEF InvalidCredential, serverVars
    <2>2. remote \in ServerLogin /\ s \in Session
      BY <1>4 DEF InvalidCredential, AtClient, TypeInv, RequestTypes, WithSession,
                  TargetInv
    <2> HIDE DEF remote, s
    <2>3. /\ insert(login2session, remote, s) \in Cache(ServerLogin, Session)
          /\ insert(login2session, remote, s).currSize <= MaxSize
      BY <2>2, InsertInStep DEF CacheInv
    <2> QED  BY <2>1, <2>3 DEF CacheInv
  <1>5. CASE ClientLogsOut
    <2>1. login2session' = clear(login2session) /\ UNCHANGED sessions
      BY <1>5 DEF ClientLogsOut, serverVars
    <2>2. /\ clear(login2session) \in Cache(ServerLogin, Session)
          /\ clear(login2session).currSize = login2session.currSize
      BY ClearInStep DEF CacheInv
    <2> QED  BY <2>1, <2>2 DEF CacheInv
  <1>6. CASE ServerLogsOut
    <2>1. sessions' = clear(sessions) /\ UNCHANGED login2session
      BY <1>6 DEF ServerLogsOut, clientVars
    <2>2. /\ clear(sessions) \in Cache(Session, Session)
          /\ clear(sessions).currSize = sessions.currSize
      BY ClearInStep DEF CacheInv
    <2> QED  BY <2>1, <2>2 DEF CacheInv
  <1>7. ASSUME NEW t \in Caller,
               \/ Call(t) \/ GetLogin(t) \/ TakeTicket(t) \/ StoreTicket(t)
               \/ Choose(t) \/ Validate(t) \/ ReadTickets(t) \/ MarkTicket(t)
               \/ AttachReset(t) \/ Chain(t) \/ NoServer(t)
        PROVE  UNCHANGED <<sessions, login2session>>
    BY <1>7 DEF Call, GetLogin, TakeTicket, StoreTicket, Choose, Validate,
                ReadTickets, MarkTicket, AttachReset, Chain, NoServer,
                clientVars, serverVars
  <1>8. ClientLogsIn \/ ServerLogsIn \/ UNCHANGED vars
          => UNCHANGED <<sessions, login2session>>
    BY DEF ClientLogsIn, ServerLogsIn, vars, clientVars, serverVars
  <1>9. CASE UNCHANGED <<sessions, login2session>>  BY <1>9 DEF CacheInv
  <1> QED
    BY <1>1, <1>2, <1>3, <1>4, <1>5, <1>6, <1>7, <1>8, <1>9
       DEF Next, Continue
-----------------------------------------------------------------------------
\* ... on the types, ...
Becomes(t, step, c, window) ==
  /\ pc' = [pc EXCEPT ![t] = step]
  /\ cred' = [cred EXCEPT ![t] = c]
  /\ seen' = [seen EXCEPT ![t] = window]

LEMMA RequestNext ==
  ASSUME RequestTypes, NEW t \in Caller, NEW step \in Steps,
         NEW c \in Credential, NEW window \in SUBSET Nat,
         Becomes(t, step, c, window), step \in WithSession => c.session \in Session
  PROVE  RequestTypes'
  BY DEF RequestTypes, Becomes

LEMMA LeaveBecomes ==
  ASSUME NEW t \in Caller, NEW step, Leave(t, step)
  PROVE  Becomes(t, step, NoCredential, {})
  BY DEF Leave, Goto, Becomes

LEMMA GotoBecomes ==
  ASSUME RequestTypes, NEW t \in Caller, NEW step, Goto(t, step),
         UNCHANGED <<cred, seen>>
  PROVE  Becomes(t, step, cred[t], seen[t])
  BY DEF RequestTypes, Goto, Becomes

LEMMA Known ==
  ASSUME RequestTypes, NEW t \in Caller
  PROVE  /\ pc[t] \in Steps /\ cred[t] \in Credential
         /\ seen[t] \in SUBSET Nat
         /\ pc[t] \in WithSession => cred[t].session \in Session
  BY DEF RequestTypes

LEMMA LeaveTypes ==
  ASSUME RequestTypes, NEW t \in Caller, EndCall(t) \/ Retry(t)
  PROVE  RequestTypes'
  <1>1. NoCredential \in Credential  BY DEF NoCredential, Credential
  <1>2. PICK step \in {"idle", "get_login"} : Leave(t, step)
    BY DEF EndCall, Retry
  <1>3. Becomes(t, step, NoCredential, {})  BY <1>2, LeaveBecomes
  <1>4. step \in Steps /\ step \notin WithSession
    BY <1>2 DEF Steps, WithSession, ClientStep
  <1> QED  BY <1>1, <1>3, <1>4, RequestNext

LEMMA GotoTypes ==
  ASSUME RequestTypes, NEW t \in Caller, NEW step \in Steps, Goto(t, step),
         UNCHANGED <<cred, seen>>,
         step \in WithSession => cred[t].session \in Session
  PROVE  RequestTypes'
  BY DEF RequestTypes, Goto

LEMMA TypeNext ==
  ASSUME IInv, [Next]_vars
  PROVE  TypeInv'
  <1>0. /\ StateTypes /\ RequestTypes /\ CacheInv
        /\ NoLogin \notin ClientLogin \cup ServerLogin
        /\ NoSession \notin Session
    BY SessionAssumption DEF IInv, TypeInv
  <1>1. UNCHANGED <<clientLogin, serverLogin, clientTicket, remote_id, tickets,
                    target, dispatched, raced>> => StateTypes'
    BY <1>0 DEF StateTypes
  <1>2. UNCHANGED <<pc, cred, seen>> => RequestTypes'
    BY <1>0 DEF RequestTypes
  <1>3. ASSUME NEW t \in Caller, Call(t)
        PROVE  TypeInv'
    <2>1. RequestTypes'
      BY <1>0, <1>3, GotoTypes DEF Call, Steps, ClientStep, WithSession
    <2> QED  BY <1>1, <1>3, <2>1
                DEF Call, TypeInv, clientVars, serverVars, traceVars
  <1>4. ASSUME NEW t \in Caller, GetLogin(t)
        PROVE  TypeInv'
    <2>1. RequestTypes'
      <3>1. CASE EndCall(t)  BY <1>0, <3>1, LeaveTypes
      <3>2. CASE /\ Goto(t, "get_session")
                 /\ cred' = [cred EXCEPT ![t].login = clientLogin]
                 /\ UNCHANGED seen
        <4> DEFINE c == [cred[t] EXCEPT !.login = clientLogin]
        <4>1. c \in Credential
          BY <1>0, Known DEF Credential, StateTypes
        <4>2. cred' = [cred EXCEPT ![t] = c]  BY <3>2
        <4> HIDE DEF c
        <4>3. Becomes(t, "get_session", c, seen[t])
          BY <1>0, <3>2, <4>2 DEF Becomes, Goto, RequestTypes
        <4> QED
          BY <1>0, <4>1, <4>3, Known, RequestNext
             DEF Steps, ClientStep, WithSession
      <3> QED  BY <1>4, <3>1, <3>2 DEF GetLogin
    <2> QED  BY <1>1, <1>4, <2>1
                DEF GetLogin, TypeInv, clientVars, serverVars, traceVars
  <1>5. ASSUME NEW t \in Caller, GetSession(t)
        PROVE  TypeInv'
    <2> DEFINE remote == datum(profile2login, Profile)
               s == datum(login2session, remote)
               c == [cred[t] EXCEPT !.session = s]
               step == IF s = NoSession THEN "sent" ELSE "ticket"
    <2>1. s \in Session \cup {NoSession}
      <3> HIDE DEF remote
      <3>1. CASE exists(login2session, remote)
        BY <1>0, <3>1, PairOfDatum DEF CacheInv
      <3>2. CASE ~exists(login2session, remote)
        BY <3>2 DEF datum, NoSession
      <3> QED  BY <3>1, <3>2
    <2>2. /\ Goto(t, step) /\ cred' = [cred EXCEPT ![t] = c]
          /\ UNCHANGED seen
      BY <1>5 DEF GetSession
    <2> HIDE DEF remote, s
    <2>3. c \in Credential /\ c.session = s
      BY <1>0, <2>1, Known DEF Credential
    <2> HIDE DEF c
    <2>4. step \in Steps /\ (step \in WithSession => s \in Session)
      BY <2>1 DEF Steps, ClientStep, ServerStep, WithSession
    <2> HIDE DEF step
    <2>5. Becomes(t, step, c, seen[t])
      BY <1>0, <2>2 DEF Becomes, Goto, RequestTypes
    <2>6. RequestTypes'  BY <1>0, <2>3, <2>4, <2>5, Known, RequestNext
    <2> QED  BY <1>1, <1>5, <2>6 DEF GetSession, TypeInv, serverVars, traceVars
  <1>6. ASSUME NEW t \in Caller, TakeTicket(t)
        PROVE  TypeInv'
    <2>0. UNCHANGED seen  BY <1>6, Zenon DEF TakeTicket
    <2>1. CASE UNCHANGED <<cred, pc>>
      BY <1>1, <1>2, <1>6, <2>1
         DEF TakeTicket, TypeInv, clientVars, serverVars, traceVars
    <2>2. ASSUME NEW s \in PointsTo(cred[t].session), Goto(t, "store"),
                 cred' = [cred EXCEPT ![t].session = s,
                                      ![t].ticket = clientTicket[s] + 1]
          PROVE  RequestTypes'
      <3>1. s \in Session
        BY <1>0, <1>6, Known DEF TakeTicket, AtClient, WithSession, PointsTo
      <3> DEFINE k == clientTicket[s] + 1
                 c == [cred[t] EXCEPT !.session = s, !.ticket = k]
      <3>2. k \in Nat  BY <1>0, <3>1 DEF StateTypes
      <3>3. cred' = [cred EXCEPT ![t] = c]
        BY <1>0, <2>2 DEF RequestTypes
      <3> HIDE DEF k
      <3>4. c \in Credential /\ c.session = s
        BY <1>0, <3>1, <3>2, Known DEF Credential
      <3> HIDE DEF c
      <3>5. Becomes(t, "store", c, seen[t])
        BY <1>0, <2>0, <2>2, <3>3 DEF Becomes, Goto, RequestTypes
      <3> QED
        BY <1>0, <3>1, <3>4, <3>5, Known, RequestNext DEF Steps, ClientStep
    <2>3. CASE /\ Goto(t, "sent")
               /\ cred' = [cred EXCEPT ![t].session = NoSession]
      <3> DEFINE c == [cred[t] EXCEPT !.session = NoSession]
      <3>1. c \in Credential  BY <1>0, Known DEF Credential
      <3>2. cred' = [cred EXCEPT ![t] = c]  BY <2>3
      <3> HIDE DEF c
      <3>3. Becomes(t, "sent", c, seen[t])
        BY <1>0, <2>0, <2>3, <3>2 DEF Becomes, Goto, RequestTypes
      <3>4. RequestTypes'
        BY <1>0, <3>1, <3>3, Known, RequestNext
           DEF Steps, ServerStep, WithSession
      <3> QED
        BY <1>1, <1>6, <3>4
           DEF TakeTicket, TypeInv, clientVars, serverVars, traceVars
    <2>4. StateTypes'  BY <1>1, <1>6
                          DEF TakeTicket, clientVars, serverVars, traceVars
    <2> QED  BY <1>6, <2>1, <2>2, <2>3, <2>4 DEF TakeTicket, TypeInv
  <1>7. ASSUME NEW t \in Caller, StoreTicket(t)
        PROVE  TypeInv'
    <2>1. RequestTypes'
      BY <1>0, <1>7, GotoTypes DEF StoreTicket, Steps, ServerStep, WithSession
    <2>2. cred[t].ticket \in Nat  BY <1>0, Known DEF Credential
    <2>3. clientTicket' \in [Session -> Nat]
      BY <1>0, <1>7, <2>2 DEF StoreTicket, StateTypes
    <2> QED
      BY <1>0, <1>7, <2>1, <2>3 DEF StoreTicket, TypeInv, StateTypes, serverVars,
                                traceVars
  <1>8. ASSUME NEW t \in Caller, Choose(t)
        PROVE  TypeInv'
    <2>1. CASE EndCall(t)
      BY <1>0, <1>1, <1>8, <2>1, LeaveTypes
         DEF Choose, TypeInv, clientVars, serverVars, traceVars
    <2>2. CASE Goto(t, "validate") /\ UNCHANGED <<cred, seen>>
      <3>1. RequestTypes'
        BY <1>0, <2>2, GotoTypes DEF Steps, ServerStep, WithSession
      <3> QED  BY <1>1, <1>8, <3>1
                  DEF Choose, TypeInv, clientVars, serverVars, traceVars
    <2> QED  BY <1>8, <2>1, <2>2 DEF Choose
  <1>9. ASSUME NEW t \in Caller, Validate(t)
        PROVE  TypeInv'
    <2>1. StateTypes'  BY <1>1, <1>9
                          DEF Validate, clientVars, serverVars, traceVars
    <2>2. CASE UNCHANGED requestVars
      BY <1>2, <2>1, <2>2 DEF requestVars, TypeInv
    <2>3. CASE EndCall(t) \/ Retry(t)
      BY <1>0, <2>1, <2>3, LeaveTypes DEF TypeInv
    <2>4. CASE Goto(t, "fetch") /\ UNCHANGED <<cred, seen>>
      <3>1. RequestTypes'
        BY <1>0, <2>4, GotoTypes DEF Steps, ServerStep, WithSession
      <3> QED  BY <2>1, <3>1 DEF TypeInv
    <2> QED  BY <1>9, <2>2, <2>3, <2>4 DEF Validate
  <1>10. ASSUME NEW t \in Caller, FetchSession(t)
         PROVE  TypeInv'
    <2> DEFINE good == /\ exists(sessions, cred[t].session)
                       /\ remote_id[cred[t].session] = cred[t].login
               step == IF good THEN "tickets" ELSE "reset"
    <2>1. Goto(t, step) /\ UNCHANGED <<cred, seen>>
      BY <1>10 DEF FetchSession
    <2>2. good => cred[t].session \in Session
      BY <1>0, CacheFacts DEF CacheInv, exists
    <2>3. /\ step \in Steps
          /\ step \in WithSession => cred[t].session \in Session
      BY <2>2 DEF Steps, ServerStep, WithSession
    <2> HIDE DEF step
    <2>4. RequestTypes'  BY <1>0, <2>1, <2>3, GotoTypes
    <2> QED  BY <1>1, <1>10, <2>4
                DEF FetchSession, TypeInv, clientVars, traceVars
  <1>11. ASSUME NEW t \in Caller, ReadTickets(t)
         PROVE  TypeInv'
    <2> DEFINE s == cred[t].session
               step == IF cred[t].ticket \in tickets[s] THEN "reset" ELSE "mark"
    <2>1. s \in Session
      BY <1>0, <1>11, Known DEF ReadTickets, AtServer, WithSession
    <2>2. tickets[s] \in SUBSET Nat  BY <1>0, <2>1 DEF StateTypes
    <2>3. /\ Goto(t, step) /\ UNCHANGED cred
          /\ seen' = [seen EXCEPT ![t] = tickets[s]]
      BY <1>11 DEF ReadTickets
    <2>4. step \in Steps
      BY DEF Steps, ServerStep
    <2> HIDE DEF step
    <2>5. Becomes(t, step, cred[t], tickets[s])
      BY <1>0, <2>3 DEF Becomes, Goto, RequestTypes
    <2>6. RequestTypes'
      BY <1>0, <2>1, <2>2, <2>4, <2>5, Known, RequestNext
    <2>7. raced' \subseteq Session
      BY <1>0, <1>11, <2>1 DEF ReadTickets, StateTypes
    <2>8. StateTypes'
      BY <1>0, <1>11, <2>7 DEF ReadTickets, StateTypes, clientVars, serverVars
    <2> QED  BY <2>6, <2>8 DEF TypeInv
  <1>12. ASSUME NEW t \in Caller, MarkTicket(t)
         PROVE  TypeInv'
    <2>1. cred[t].session \in Session /\ cred[t].ticket \in Nat
          /\ seen[t] \in SUBSET Nat
      BY <1>0, <1>12, Known
         DEF MarkTicket, AtServer, WithSession, Credential
    <2>2. /\ Goto(t, "chain") /\ UNCHANGED cred
          /\ seen' = [seen EXCEPT ![t] = {}]
          /\ tickets' = [tickets EXCEPT ![cred[t].session] =
                           seen[t] \cup {cred[t].ticket}]
          /\ UNCHANGED <<clientLogin, serverLogin, clientTicket, remote_id,
                         target, dispatched, raced>>
      BY <1>12 DEF MarkTicket, clientVars, traceVars
    <2>3. tickets' \in [Session -> SUBSET Nat]
      BY <1>0, <2>1, <2>2 DEF StateTypes
    <2>4. Becomes(t, "chain", cred[t], {})
      BY <1>0, <2>2 DEF Becomes, Goto, RequestTypes
    <2>5. RequestTypes'
      BY <1>0, <2>1, <2>4, Known, RequestNext DEF Steps, ServerStep
    <2> QED  BY <1>0, <2>2, <2>3, <2>5 DEF TypeInv, StateTypes
  <1>13. ASSUME NEW t \in Caller, Reset(t)
         PROVE  TypeInv'
    <2> DEFINE s == NewSession
               c == [cred[t] EXCEPT !.session = s, !.ticket = 0]
    <2>1. s \in Session  BY <1>0, NewSessionUnused
    <2>2. /\ remote_id' = [remote_id EXCEPT ![s] = cred[t].login]
          /\ tickets' = [tickets EXCEPT ![s] = {}]
          /\ target' = [target EXCEPT ![s] = NoLogin]
          /\ dispatched' = [dispatched EXCEPT ![s] = {}]
          /\ raced' = raced \ {s}
          /\ cred' = [cred EXCEPT ![t].session = s, ![t].ticket = 0]
          /\ seen' = [seen EXCEPT ![t] = {}]
          /\ Goto(t, "attach")
          /\ UNCHANGED <<clientLogin, serverLogin, clientTicket>>
      BY <1>13, Zenon DEF Reset, NewSession, clientVars
    <2> HIDE DEF s
    <2>3. cred' = [cred EXCEPT ![t] = c]  BY <1>0, <2>2 DEF RequestTypes
    <2>4. c \in Credential /\ c.session = s
      BY <1>0, <2>1, Known DEF Credential
    <2> HIDE DEF c
    <2>5. Becomes(t, "attach", c, {})
      BY <2>2, <2>3 DEF Becomes, Goto
    <2>6. RequestTypes'
      BY <1>0, <2>1, <2>4, <2>5, RequestNext DEF Steps, ServerStep
    <2>7. cred[t].login \in ClientLogin \cup {NoLogin}
      BY <1>0, Known DEF Credential
    <2>8. StateTypes'  BY <1>0, <2>1, <2>2, <2>7 DEF StateTypes
    <2> QED  BY <2>6, <2>8 DEF TypeInv
  <1>14. ASSUME NEW t \in Caller, Chain(t)
         PROVE  TypeInv'
    <2>1. cred[t].session \in Session /\ cred[t].ticket \in Nat
      BY <1>0, <1>14, Known DEF Chain, AtServer, WithSession, Credential
    <2>2. dispatched' \in [Session -> SUBSET Nat]
      BY <1>0, <1>14, <2>1 DEF Chain, Dispatched, StateTypes
    <2>3. StateTypes'
      BY <1>0, <1>14, <2>2 DEF Chain, StateTypes, clientVars, serverVars
    <2>4. CASE EndCall(t)  BY <1>0, <2>3, <2>4, LeaveTypes DEF TypeInv
    <2>5. CASE UNCHANGED requestVars
      BY <1>2, <2>3, <2>5 DEF TypeInv, requestVars
    <2>6. CASE Goto(t, "reset") /\ UNCHANGED <<cred, seen>>
      <3>1. RequestTypes'
        BY <1>0, <2>6, GotoTypes DEF Steps, ServerStep, WithSession
      <3> QED  BY <2>3, <3>1 DEF TypeInv
    <2> QED  BY <1>14, <2>4, <2>5, <2>6 DEF Chain, Dispatched
  <1>15. ASSUME NEW t \in Caller, NoServer(t)
         PROVE  TypeInv'
    BY <1>0, <1>1, <1>15, LeaveTypes
       DEF NoServer, TypeInv, clientVars, serverVars, traceVars
  <1>16. ASSUME NEW t \in Caller, InvalidCredential(t)
         PROVE  TypeInv'
    <2>1. RequestTypes'  BY <1>0, <1>16, LeaveTypes DEF InvalidCredential
    <2>2. clientTicket' \in [Session -> Nat]
      BY <1>0, <1>16 DEF InvalidCredential, StateTypes
    <2> QED
      BY <1>0, <1>16, <2>1, <2>2
         DEF InvalidCredential, TypeInv, StateTypes, serverVars, traceVars
  <1>17. CASE ClientLogsOut \/ ClientLogsIn \/ ServerLogsOut \/ ServerLogsIn
    BY <1>0, <1>2, <1>17
       DEF ClientLogsOut, ClientLogsIn, ServerLogsOut, ServerLogsIn, TypeInv,
           StateTypes, clientVars, serverVars, requestVars, traceVars
  <1>18. CASE UNCHANGED vars
    BY <1>1, <1>2, <1>18
       DEF vars, clientVars, serverVars, requestVars, traceVars, TypeInv
  <1>19. ASSUME NEW t \in Caller, AttachReset(t)
         PROVE  TypeInv'
    <2>1. cred[t].session \in Session
      BY <1>0, <1>19, Known DEF AttachReset, AtServer, WithSession
    <2>2. target' \in [Session -> ServerLogin \cup {NoLogin}]
      BY <1>0, <1>19, <2>1 DEF AttachReset, StateTypes
    <2>3. StateTypes'
      BY <1>0, <1>19, <2>2 DEF AttachReset, StateTypes, clientVars, traceVars
    <2>4. CASE UNCHANGED requestVars
      BY <1>2, <2>3, <2>4 DEF TypeInv, requestVars
    <2>5. CASE Goto(t, "invalid_credential") /\ UNCHANGED <<cred, seen>>
      <3>1. RequestTypes'
        BY <1>0, <2>1, <2>5, GotoTypes DEF Steps, ClientStep
      <3> QED  BY <2>3, <3>1 DEF TypeInv
    <2> QED  BY <1>19, <2>4, <2>5 DEF AttachReset
  <1> QED
    BY <1>3, <1>4, <1>5, <1>6, <1>7, <1>8, <1>9, <1>10, <1>11, <1>12, <1>13,
       <1>14, <1>15, <1>16, <1>17, <1>18, <1>19
       DEF Next, Continue
-----------------------------------------------------------------------------
\* ... and on the requests at the steps that the properties are about.
Checked == {"tickets", "mark", "chain", "invalid_credential"}
sessionVars == <<remote_id, tickets, target, dispatched, raced>>
Others(t) ==
  \A u \in Caller \ {t} :
    pc'[u] = pc[u] /\ cred'[u] = cred[u] /\ seen'[u] = seen[u]
Elsewhere(t) ==
  /\ Others(t) /\ pc'[t] \notin Checked
  /\ UNCHANGED <<remote_id, tickets, target, dispatched>> /\ raced \subseteq raced'
Resting == UNCHANGED <<pc, cred, seen, sessionVars>>

\* What the steps of a dispatch do.
Fetches(t) ==
  /\ Others(t) /\ UNCHANGED <<cred, sessionVars>>
  /\ pc'[t] = "tickets" /\ remote_id[cred[t].session] = cred[t].login
Reads(t) ==
  /\ Others(t) /\ UNCHANGED <<cred, remote_id, tickets, target, dispatched>>
  /\ pc[t] = "tickets" /\ pc'[t] = "mark"
  /\ raced \subseteq raced'
  /\ \A u \in Caller \ {t} :
       pc[u] = "mark" /\ cred[u].session = cred[t].session
         => cred[t].session \in raced'
  /\ cred[t].ticket \notin tickets[cred[t].session]
  /\ seen'[t] = tickets[cred[t].session]
Marks(t) ==
  /\ Others(t) /\ UNCHANGED <<cred, remote_id, target, dispatched, raced>>
  /\ pc[t] = "mark" /\ pc'[t] = "chain"
  /\ tickets' = [tickets EXCEPT ![cred[t].session] =
                   seen[t] \cup {cred[t].ticket}]
Resets(t) ==
  /\ Others(t) /\ pc'[t] = "attach"
  /\ remote_id' = [remote_id EXCEPT ![NewSession] = cred[t].login]
  /\ tickets' = [tickets EXCEPT ![NewSession] = {}]
  /\ target' = [target EXCEPT ![NewSession] = NoLogin]
  /\ dispatched' = [dispatched EXCEPT ![NewSession] = {}]
  /\ raced' = raced \ {NewSession}
Attaches(t) ==
  /\ Others(t) /\ UNCHANGED <<cred, remote_id, tickets, dispatched, raced>>
  /\ pc[t] = "attach" /\ pc'[t] = "invalid_credential"
  /\ serverLogin \in ServerLogin
  /\ target' = [target EXCEPT ![cred[t].session] = serverLogin]
Dispatches(t) ==
  /\ Others(t) /\ UNCHANGED <<remote_id, tickets, target, raced>>
  /\ pc[t] = "chain" /\ pc'[t] = "idle"
  /\ dispatched' = [dispatched EXCEPT ![cred[t].session] =
                      @ \cup {cred[t].ticket}]

LEMMA LeavesElsewhere ==
  ASSUME RequestTypes, NEW t \in Caller, EndCall(t) \/ Retry(t)
  PROVE  Others(t) /\ pc'[t] \in {"idle", "get_login"}
  <1>1. PICK step \in {"idle", "get_login"} : Leave(t, step)
    BY DEF EndCall, Retry
  <1> QED  BY <1>1 DEF Leave, Goto, Others, RequestTypes

LEMMA GoesElsewhere ==
  ASSUME RequestTypes, NEW t \in Caller, NEW step, Goto(t, step),
         NEW c, NEW window, cred' = [cred EXCEPT ![t] = c],
         seen' = [seen EXCEPT ![t] = window]
  PROVE  Others(t) /\ pc'[t] = step
  BY DEF Goto, Others, RequestTypes

LEMMA StepCases ==
  ASSUME IInv, [Next]_vars
  PROVE  \/ Resting
         \/ \E t \in Caller : \/ Elsewhere(t) \/ Fetches(t) \/ Reads(t)
                              \/ Marks(t) \/ Resets(t) \/ Attaches(t)
                              \/ Dispatches(t)
  <1>0. RequestTypes /\ StateTypes /\ CacheInv  BY DEF IInv, TypeInv
  <1>1. ASSUME NEW t \in Caller, EndCall(t) \/ Retry(t),
               UNCHANGED sessionVars
        PROVE  Elsewhere(t)
    BY <1>0, <1>1, LeavesElsewhere DEF Elsewhere, Checked, sessionVars
  <1>2. ASSUME NEW t \in Caller, NEW step, step \notin Checked, Goto(t, step),
               UNCHANGED sessionVars,
               NEW c, cred' = [cred EXCEPT ![t] = c], UNCHANGED seen
        PROVE  Elsewhere(t)
    <2>1. seen' = [seen EXCEPT ![t] = seen[t]]
      BY <1>0, <1>2 DEF RequestTypes
    <2>2. Others(t) /\ pc'[t] = step  BY <1>0, <1>2, <2>1, GoesElsewhere
    <2> QED  BY <1>2, <2>2 DEF Elsewhere, sessionVars
  <1>3. ASSUME NEW t \in Caller, NEW step, Goto(t, step), UNCHANGED cred
        PROVE  /\ cred' = [cred EXCEPT ![t] = cred[t]]
               /\ pc'[t] = step
               /\ \A u \in Caller \ {t} : pc'[u] = pc[u] /\ cred'[u] = cred[u]
    BY <1>0, <1>3 DEF Goto, RequestTypes
  <1>4. ASSUME NEW t \in Caller, Call(t) \/ Choose(t) \/ StoreTicket(t)
        PROVE  Elsewhere(t)
    <2>1. UNCHANGED sessionVars
      BY <1>4 DEF Call, Choose, StoreTicket, serverVars, traceVars, sessionVars
    <2>2. CASE EndCall(t)  BY <1>1, <2>1, <2>2
    <2>3. ASSUME ~EndCall(t)
          PROVE  \E step \in {"get_login", "validate", "sent"} :
                   Goto(t, step) /\ UNCHANGED <<cred, seen>>
      BY <1>4, <2>3 DEF Call, Choose, StoreTicket
    <2> QED  BY <1>2, <1>3, <2>1, <2>2, <2>3 DEF Checked
  <1>5. ASSUME NEW t \in Caller, GetLogin(t)
        PROVE  Elsewhere(t)
    <2>1. UNCHANGED sessionVars
      BY <1>5 DEF GetLogin, serverVars, traceVars, sessionVars
    <2>2. CASE EndCall(t)  BY <1>1, <2>1, <2>2
    <2>3. ASSUME ~EndCall(t)
          PROVE  /\ Goto(t, "get_session") /\ UNCHANGED seen
                 /\ \E c : cred' = [cred EXCEPT ![t] = c]
      BY <1>5, <2>3, Zenon DEF GetLogin
    <2> QED  BY <1>2, <2>1, <2>2, <2>3 DEF Checked
  <1>6. ASSUME NEW t \in Caller, GetSession(t)
        PROVE  Elsewhere(t)
    <2>1. UNCHANGED <<sessionVars, seen>>
      BY <1>6 DEF GetSession, serverVars, traceVars, sessionVars
    <2>2. PICK step \in {"sent", "ticket"} : Goto(t, step)
      BY <1>6 DEF GetSession
    <2>3. \E c : cred' = [cred EXCEPT ![t] = c]
      BY <1>6, Zenon DEF GetSession
    <2> QED  BY <1>2, <2>1, <2>2, <2>3 DEF Checked
  <1>7. ASSUME NEW t \in Caller, TakeTicket(t)
        PROVE  Resting \/ Elsewhere(t)
    <2>1. UNCHANGED <<sessionVars, seen>>
      BY <1>7, Zenon DEF TakeTicket, serverVars, traceVars, sessionVars
    <2>2. CASE UNCHANGED <<cred, pc>>  BY <2>1, <2>2 DEF Resting
    <2>3. ASSUME NEW s, Goto(t, "store"),
                 cred' = [cred EXCEPT ![t].session = s,
                                      ![t].ticket = clientTicket[s] + 1]
          PROVE  Elsewhere(t)
      <3> DEFINE c == [cred[t] EXCEPT !.session = s,
                                      !.ticket = clientTicket[s] + 1]
      <3>1. cred' = [cred EXCEPT ![t] = c]
        BY <1>0, <2>3 DEF RequestTypes
      <3> HIDE DEF c
      <3> QED  BY <1>2, <2>1, <2>3, <3>1 DEF Checked
    <2>4. ASSUME Goto(t, "sent"),
                 cred' = [cred EXCEPT ![t].session = NoSession]
          PROVE  Elsewhere(t)
      BY <1>2, <2>1, <2>4 DEF Checked
    <2> QED  BY <1>7, <2>2, <2>3, <2>4 DEF TakeTicket
  <1>8. ASSUME NEW t \in Caller, Validate(t)
        PROVE  Resting \/ Elsewhere(t)
    <2>1. UNCHANGED sessionVars
      BY <1>8 DEF Validate, serverVars, traceVars, sessionVars
    <2>2. CASE UNCHANGED requestVars
      BY <2>1, <2>2 DEF Resting, requestVars
    <2>3. CASE EndCall(t) \/ Retry(t)  BY <1>1, <2>1, <2>3
    <2>4. CASE Goto(t, "fetch") /\ UNCHANGED <<cred, seen>>
      BY <1>2, <1>3, <2>1, <2>4 DEF Checked
    <2> QED  BY <1>8, <2>2, <2>3, <2>4 DEF Validate
  <1>9. ASSUME NEW t \in Caller, FetchSession(t)
        PROVE  Elsewhere(t) \/ Fetches(t)
    <2>1. UNCHANGED <<cred, seen, sessionVars>>
      BY <1>9 DEF FetchSession, traceVars, sessionVars
    <2>2. CASE Goto(t, "reset")  BY <1>2, <1>3, <2>1, <2>2 DEF Checked
    <2>3. CASE Goto(t, "tickets") /\ remote_id[cred[t].session] = cred[t].login
      BY <1>3, <2>1, <2>3 DEF Fetches, Others
    <2> QED  BY <1>9, <2>2, <2>3 DEF FetchSession
  <1>10. ASSUME NEW t \in Caller, ReadTickets(t)
         PROVE  Elsewhere(t) \/ Reads(t)
    <2>1. /\ UNCHANGED <<cred, remote_id, tickets, target, dispatched>>
          /\ pc[t] = "tickets"
          /\ seen' = [seen EXCEPT ![t] = tickets[cred[t].session]]
          /\ raced \subseteq raced'
          /\ MarksToo(t, cred[t].session) => cred[t].session \in raced'
      BY <1>10 DEF ReadTickets, AtServer, serverVars
    <2>2. /\ seen'[t] = tickets[cred[t].session]
          /\ \A u \in Caller \ {t} : seen'[u] = seen[u]
      BY <1>0, <2>1 DEF RequestTypes
    <2>3. CASE Goto(t, "reset")
      BY <1>3, <2>1, <2>2, <2>3 DEF Elsewhere, Others, Checked
    <2>4. CASE Goto(t, "mark") /\ cred[t].ticket \notin tickets[cred[t].session]
      <3>1. Others(t) /\ pc'[t] = "mark"  BY <1>3, <2>1, <2>2, <2>4 DEF Others
      <3> QED  BY <2>1, <2>2, <2>4, <3>1 DEF Reads, MarksToo
    <2> QED  BY <1>10, <2>3, <2>4 DEF ReadTickets
  <1>11. ASSUME NEW t \in Caller, MarkTicket(t)
         PROVE  Marks(t)
    <2>1. /\ UNCHANGED <<cred, remote_id, target, dispatched, raced>>
          /\ pc[t] = "mark" /\ Goto(t, "chain")
          /\ seen' = [seen EXCEPT ![t] = {}]
          /\ tickets' = [tickets EXCEPT ![cred[t].session] =
                           seen[t] \cup {cred[t].ticket}]
      BY <1>11 DEF MarkTicket, AtServer, traceVars
    <2>2. \A u \in Caller \ {t} : seen'[u] = seen[u]
      BY <1>0, <2>1 DEF RequestTypes
    <2> QED  BY <1>3, <2>1, <2>2 DEF Marks, Others
  <1>12. ASSUME NEW t \in Caller, Reset(t)
         PROVE  Resets(t)
    <2>1. /\ remote_id' = [remote_id EXCEPT ![NewSession] = cred[t].login]
          /\ tickets' = [tickets EXCEPT ![NewSession] = {}]
          /\ target' = [target EXCEPT ![NewSession] = NoLogin]
          /\ dispatched' = [dispatched EXCEPT ![NewSession] = {}]
          /\ raced' = raced \ {NewSession}
          /\ seen' = [seen EXCEPT ![t] = {}]
          /\ Goto(t, "attach")
          /\ cred' = [cred EXCEPT ![t].session = NewSession, ![t].ticket = 0]
      BY <1>12, Zenon DEF Reset, NewSession
    <2> DEFINE c == [cred[t] EXCEPT !.session = NewSession, !.ticket = 0]
    <2>2. cred' = [cred EXCEPT ![t] = c]  BY <1>0, <2>1 DEF RequestTypes
    <2> HIDE DEF c
    <2>3. Others(t) /\ pc'[t] = "attach"  BY <1>0, <2>1, <2>2, GoesElsewhere
    <2> QED  BY <2>1, <2>3 DEF Resets
  <1>13. ASSUME NEW t \in Caller, Chain(t)
         PROVE  Resting \/ Elsewhere(t) \/ Dispatches(t)
    <2>1. UNCHANGED <<remote_id, tickets, target, raced>> /\ pc[t] = "chain"
      BY <1>13 DEF Chain, serverVars, AtServer
    <2>2. CASE UNCHANGED <<requestVars, dispatched>>
      BY <2>1, <2>2 DEF Resting, requestVars, sessionVars
    <2>3. CASE EndCall(t) /\ UNCHANGED dispatched
      BY <1>1, <2>1, <2>3 DEF sessionVars
    <2>4. CASE /\ EndCall(t)
               /\ dispatched' = [dispatched EXCEPT ![cred[t].session] =
                                   @ \cup {cred[t].ticket}]
      <3>1. Others(t)  BY <1>0, <2>4, LeavesElsewhere
      <3>2. pc'[t] = "idle"
        BY <1>0, <2>4 DEF EndCall, Leave, Goto, RequestTypes
      <3> QED  BY <2>1, <2>4, <3>1, <3>2 DEF Dispatches
    <2>5. CASE Goto(t, "reset") /\ UNCHANGED <<cred, seen, dispatched>>
      BY <1>2, <1>3, <2>1, <2>5 DEF Checked, sessionVars
    <2> QED  BY <1>13, <2>2, <2>3, <2>4, <2>5 DEF Chain, Dispatched
  <1>14. ASSUME NEW t \in Caller, NoServer(t) \/ InvalidCredential(t)
         PROVE  Elsewhere(t)
    BY <1>1, <1>14 DEF NoServer, InvalidCredential, serverVars, traceVars,
                      sessionVars
  <1>15. CASE \/ ClientLogsOut \/ ClientLogsIn \/ ServerLogsOut \/ ServerLogsIn
              \/ UNCHANGED vars
    BY <1>15 DEF ClientLogsOut, ClientLogsIn, ServerLogsOut, ServerLogsIn,
                 vars, requestVars, serverVars, traceVars, sessionVars, Resting
  <1>16. ASSUME NEW t \in Caller, AttachReset(t)
         PROVE  Resting \/ Attaches(t)
    <2>1. UNCHANGED <<remote_id, tickets, dispatched, raced>> /\ pc[t] = "attach"
      BY <1>16 DEF AttachReset, traceVars, AtServer
    <2>2. CASE UNCHANGED <<target, requestVars>>
      BY <2>1, <2>2 DEF Resting, requestVars, sessionVars
    <2>3. CASE /\ serverLogin # NoLogin
               /\ target' = [target EXCEPT ![cred[t].session] = serverLogin]
               /\ Goto(t, "invalid_credential")
               /\ UNCHANGED <<cred, seen>>
      <3>1. serverLogin \in ServerLogin  BY <1>0, <2>3 DEF StateTypes
      <3> QED  BY <1>3, <2>1, <2>3, <3>1 DEF Attaches, Others
    <2> QED  BY <1>16, <2>2, <2>3 DEF AttachReset
  <1> QED
    BY <1>4, <1>5, <1>6, <1>7, <1>8, <1>9, <1>10, <1>11, <1>12, <1>13, <1>14,
       <1>15, <1>16
       DEF Next, Continue
-----------------------------------------------------------------------------
\* The credential that a checked request has, and nobody's new session.
LEMMA CheckedSession ==
  ASSUME IInv, NEW t \in Caller, pc[t] \in Checked
  PROVE  /\ cred[t].session \in Session /\ cred[t].session # NewSession
         /\ cred[t].ticket \in Nat
  <1>1. RequestTypes /\ CacheInv  BY DEF IInv, TypeInv
  <1>2. cred[t].session \in Session /\ cred[t].ticket \in Nat
    BY <1>1, Known DEF Checked, WithSession, Credential
  <1> QED  BY <1>1, <1>2, NewSessionUnused

LEMMA LoginNext ==
  ASSUME IInv, [Next]_vars
  PROVE  LoginInv' /\ TargetInv'
  <1>0. LoginInv /\ TargetInv /\ StateTypes  BY DEF IInv, TypeInv
  <1>1. CASE Resting
    BY <1>0, <1>1 DEF Resting, sessionVars, LoginInv, TargetInv
  <1>2. ASSUME NEW t \in Caller, Elsewhere(t)
        PROVE  LoginInv' /\ TargetInv'
    BY <1>0, <1>2 DEF Elsewhere, Others, Checked, LoginInv, TargetInv
  <1>3. ASSUME NEW t \in Caller, Fetches(t)
        PROVE  LoginInv' /\ TargetInv'
    BY <1>0, <1>3 DEF Fetches, Others, sessionVars, LoginInv, TargetInv
  <1>4. ASSUME NEW t \in Caller, Reads(t)
        PROVE  LoginInv' /\ TargetInv'
    BY <1>0, <1>4 DEF Reads, Others, LoginInv, TargetInv
  <1>5. ASSUME NEW t \in Caller, Marks(t)
        PROVE  LoginInv' /\ TargetInv'
    BY <1>0, <1>5 DEF Marks, Others, LoginInv, TargetInv
  <1>6. ASSUME NEW t \in Caller, Resets(t)
        PROVE  LoginInv' /\ TargetInv'
    <2>1. ASSUME NEW u \in Caller, pc'[u] \in Checked
          PROVE  /\ pc[u] = pc'[u] /\ cred'[u] = cred[u]
                 /\ remote_id'[cred[u].session] = remote_id[cred[u].session]
                 /\ target'[cred[u].session] = target[cred[u].session]
      <3>1. pc[u] = pc'[u] /\ cred'[u] = cred[u]
        BY <1>6, <2>1 DEF Resets, Others, Checked
      <3>2. cred[u].session \in Session /\ cred[u].session # NewSession
        BY <2>1, <3>1, CheckedSession
      <3> QED  BY <1>0, <1>6, <3>1, <3>2 DEF Resets, StateTypes
    <2> QED  BY <1>0, <2>1 DEF LoginInv, TargetInv, Checked
  <1>7. ASSUME NEW t \in Caller, Attaches(t)
        PROVE  LoginInv' /\ TargetInv'
    <2>1. LoginInv'  BY <1>0, <1>7 DEF Attaches, Others, LoginInv
    <2>2. ASSUME NEW u \in Caller, pc'[u] = "invalid_credential"
          PROVE  target'[cred[u].session] \in ServerLogin
      <3>1. RequestTypes  BY DEF IInv, TypeInv
      <3>2. cred[u].session \in Session
        BY <1>7, <2>2, <3>1, Known DEF Attaches, Others, WithSession
      <3>3. u = t \/ target[cred[u].session] \in ServerLogin
        BY <1>0, <1>7, <2>2 DEF Attaches, Others, TargetInv
      <3> QED  BY <1>0, <1>7, <3>2, <3>3 DEF Attaches, StateTypes
    <2> QED  BY <1>7, <2>1, <2>2 DEF Attaches, TargetInv
  <1>8. ASSUME NEW t \in Caller, Dispatches(t)
        PROVE  LoginInv' /\ TargetInv'
    <2>1. pc[t] = "chain" /\ pc'[t] = "idle" /\ Others(t)
          /\ UNCHANGED <<remote_id, target>>
      BY <1>8 DEF Dispatches
    <2> QED  BY <1>0, <2>1 DEF Others, LoginInv, TargetInv
  <1> QED  BY <1>1, <1>2, <1>3, <1>4, <1>5, <1>6, <1>7, <1>8, StepCases

LEMMA TicketNext ==
  ASSUME IInv, TicketInv, [Next]_vars
  PROVE  TicketInv'
  <1>0. StateTypes /\ MarkInv /\ ChainInv  BY DEF IInv, TypeInv, TicketInv
  <1>1. CASE Resting
    BY <1>0, <1>1 DEF Resting, sessionVars, TicketInv, MarkInv, ChainInv
  <1>2. ASSUME NEW t \in Caller, Elsewhere(t)
        PROVE  TicketInv'
    <2>1. MarkInv'
      BY <1>0, <1>2 DEF Elsewhere, Others, Checked, MarkInv
    <2>2. ChainInv'
      BY <1>0, <1>2 DEF Elsewhere, Others, Checked, ChainInv
    <2> QED  BY <2>1, <2>2 DEF TicketInv
  <1>3. ASSUME NEW t \in Caller, Fetches(t)
        PROVE  TicketInv'
    <2>1. MarkInv'  BY <1>0, <1>3 DEF Fetches, Others, sessionVars, MarkInv
    <2>2. ChainInv'  BY <1>0, <1>3 DEF Fetches, Others, sessionVars, ChainInv
    <2> QED  BY <2>1, <2>2 DEF TicketInv
  <1>4. ASSUME NEW t \in Caller, Reads(t)
        PROVE  TicketInv'
    <2>1. MarkInv'  BY <1>0, <1>4 DEF Reads, Others, MarkInv
    <2>2. ChainInv'  BY <1>0, <1>4 DEF Reads, Others, ChainInv
    <2> QED  BY <2>1, <2>2 DEF TicketInv
  <1>5. ASSUME NEW t \in Caller, Marks(t)
        PROVE  TicketInv'
    <2> DEFINE s == cred[t].session
               k == cred[t].ticket
    <2>1. s \in Session /\ k \in Nat
      BY <1>5, CheckedSession DEF Marks, Checked
    <2>2. s \notin raced => seen[t] = tickets[s] /\ k \notin tickets[s]
      BY <1>0, <1>5 DEF Marks, MarkInv
    <2>3. /\ s \notin raced => tickets'[s] = tickets[s] \cup {k}
          /\ \A r \in Session \ {s} : tickets'[r] = tickets[r]
      BY <1>0, <1>5, <2>1, <2>2 DEF Marks, StateTypes
    <2>4. pc'[t] = "chain" /\ cred' = cred /\ UNCHANGED <<dispatched, raced>>
      BY <1>5 DEF Marks
    <2>5. ASSUME NEW u \in Caller, pc'[u] = "mark", cred[u].session \notin raced
          PROVE  /\ u # t /\ pc[u] = "mark" /\ seen'[u] = seen[u]
                 /\ cred[u].session \in Session \ {s}
      <3>1. u # t /\ pc[u] = "mark" /\ seen'[u] = seen[u]
        BY <1>5, <2>5 DEF Marks, Others
      <3>2. cred[u].session \in Session
        BY <3>1, CheckedSession DEF Checked
      <3>3. pc[t] = "mark"  BY <1>5 DEF Marks
      <3> QED  BY <1>0, <2>5, <3>1, <3>2, <3>3 DEF MarkInv
    <2>6. MarkInv'
      <3>1. \A u, v \in Caller :
              pc'[u] = "mark" /\ pc'[v] = "mark"
                /\ cred'[u].session = cred'[v].session
                => u = v \/ cred'[u].session \in raced'
        BY <1>0, <2>4, <2>5 DEF MarkInv
      <3>2. ASSUME NEW u \in Caller, pc'[u] = "mark",
                   cred'[u].session \notin raced'
            PROVE  /\ seen'[u] = tickets'[cred'[u].session]
                   /\ cred'[u].ticket \notin tickets'[cred'[u].session]
        BY <1>0, <2>3, <2>4, <2>5, <3>2 DEF MarkInv
      <3> QED  BY <3>1, <3>2 DEF MarkInv
    <2>7. ASSUME NEW u \in Caller, pc'[u] = "chain", u # t,
                 cred[u].session \notin raced
          PROVE  /\ pc[u] = "chain"
                 /\ cred[u].session \in Session
                 /\ cred[u].ticket \in tickets[cred[u].session]
                 /\ cred[u].ticket \notin dispatched[cred[u].session]
                 /\ cred[u].session = s => cred[u].ticket # k
      <3>1. pc[u] = "chain"  BY <1>5, <2>7 DEF Marks, Others
      <3>2. cred[u].session \in Session
        BY <3>1, CheckedSession DEF Checked
      <3> QED  BY <1>0, <2>2, <2>7, <3>1, <3>2 DEF ChainInv
    <2>8. \A r \in Session \ raced : dispatched'[r] \subseteq tickets'[r]
      BY <1>0, <2>3, <2>4 DEF ChainInv
    <2>9. s \notin raced => k \notin dispatched[s]
      BY <1>0, <2>1, <2>2 DEF ChainInv
    <2> HIDE DEF s, k
    <2>10. ASSUME NEW u \in Caller, pc'[u] = "chain",
                  cred[u].session \notin raced
           PROVE  /\ cred[u].ticket \in tickets'[cred[u].session]
                  /\ cred[u].ticket \notin dispatched[cred[u].session]
      <3>1. CASE u = t  BY <2>3, <2>9, <2>10, <3>1 DEF s, k
      <3>2. CASE u # t  BY <2>3, <2>7, <2>10, <3>2 DEF s, k
      <3> QED  BY <3>1, <3>2
    <2>11. ASSUME NEW u \in Caller, NEW v \in Caller,
                  pc'[u] = "chain", pc'[v] = "chain",
                  cred[u].session = cred[v].session,
                  cred[u].ticket = cred[v].ticket,
                  cred[u].session \notin raced
           PROVE  u = v
      <3>1. CASE u # t /\ v # t
        BY <1>0, <2>7, <2>11, <3>1 DEF ChainInv
      <3>2. CASE u = t /\ v # t  BY <2>7, <2>11, <3>2 DEF s, k
      <3>3. CASE u # t /\ v = t  BY <2>7, <2>11, <3>3 DEF s, k
      <3> QED  BY <3>1, <3>2, <3>3
    <2>12. ChainInv'  BY <2>4, <2>8, <2>10, <2>11 DEF ChainInv
    <2> QED  BY <2>6, <2>12 DEF TicketInv
  <1>6. ASSUME NEW t \in Caller, Resets(t)
        PROVE  TicketInv'
    <2>1. ASSUME NEW u \in Caller, pc'[u] \in Checked
          PROVE  /\ pc[u] = pc'[u] /\ cred'[u] = cred[u] /\ seen'[u] = seen[u]
                 /\ tickets'[cred[u].session] = tickets[cred[u].session]
                 /\ dispatched'[cred[u].session] = dispatched[cred[u].session]
                 /\ cred[u].session \in raced' <=> cred[u].session \in raced
      <3>1. pc[u] = pc'[u] /\ cred'[u] = cred[u] /\ seen'[u] = seen[u]
        BY <1>6, <2>1 DEF Resets, Others, Checked
      <3>2. cred[u].session \in Session /\ cred[u].session # NewSession
        BY <2>1, <3>1, CheckedSession
      <3> QED  BY <1>0, <1>6, <3>1, <3>2 DEF Resets, StateTypes
    <2>2. MarkInv'  BY <1>0, <2>1 DEF MarkInv, Checked
    <2>3. \A r \in Session \ raced' : dispatched'[r] \subseteq tickets'[r]
      BY <1>0, <1>6 DEF Resets, StateTypes, ChainInv
    <2>4. ChainInv'  BY <1>0, <2>1, <2>3 DEF ChainInv, Checked
    <2> QED  BY <2>2, <2>4 DEF TicketInv
  <1>7. ASSUME NEW t \in Caller, Attaches(t)
        PROVE  TicketInv'
    <2>1. MarkInv'  BY <1>0, <1>7 DEF Attaches, Others, MarkInv
    <2>2. ChainInv'  BY <1>0, <1>7 DEF Attaches, Others, ChainInv
    <2> QED  BY <2>1, <2>2 DEF TicketInv
  <1>8. ASSUME NEW t \in Caller, Dispatches(t)
        PROVE  TicketInv'
    <2> DEFINE s == cred[t].session
               k == cred[t].ticket
    <2>0. /\ pc[t] = "chain" /\ pc'[t] = "idle" /\ Others(t)
          /\ UNCHANGED <<tickets, raced>>
          /\ dispatched' = [dispatched EXCEPT ![s] = @ \cup {k}]
      BY <1>8 DEF Dispatches
    <2>1. s \in Session /\ k \in Nat  BY <2>0, CheckedSession DEF Checked
    <2>2. /\ dispatched'[s] = dispatched[s] \cup {k}
          /\ \A r \in Session \ {s} : dispatched'[r] = dispatched[r]
      BY <1>0, <2>0, <2>1 DEF StateTypes
    <2>3. s \notin raced => k \in tickets[s]  BY <1>0, <2>0 DEF ChainInv
    <2>4. MarkInv'  BY <1>0, <2>0 DEF Others, MarkInv
    <2>5. \A r \in Session \ raced : dispatched'[r] \subseteq tickets'[r]
      BY <1>0, <2>0, <2>2, <2>3 DEF ChainInv
    <2>6. ASSUME NEW u \in Caller, pc'[u] = "chain"
          PROVE  /\ pc[u] = "chain" /\ cred'[u] = cred[u]
                 /\ cred[u].session \in Session
                 /\ cred[u].session = s /\ s \notin raced => cred[u].ticket # k
      <3>1. u # t /\ pc[u] = "chain" /\ cred'[u] = cred[u]
        BY <2>0, <2>6 DEF Others
      <3>2. cred[u].session \in Session
        BY <3>1, CheckedSession DEF Checked
      <3> QED  BY <1>0, <2>0, <3>1, <3>2 DEF ChainInv
    <2> HIDE DEF s, k
    <2>7. ChainInv'
      BY <1>0, <2>0, <2>2, <2>5, <2>6 DEF ChainInv
    <2> QED  BY <2>4, <2>7 DEF TicketInv
  <1> QED  BY <1>1, <1>2, <1>3, <1>4, <1>5, <1>6, <1>7, <1>8, StepCases
-----------------------------------------------------------------------------
\* What is left of the type invariant: the calls and the logins are counted, and
\* a request has a login from get_login on.
Unnamed == {"idle", "get_login"}
NamedInv ==
  \A t \in Caller : cred[t].login = NoLogin <=> pc[t] \in Unnamed
CountTypes ==
  /\ up \subseteq {"client", "server"}
  /\ used \subseteq ClientLogin \cup ServerLogin
  /\ calls \in [Caller -> 0 .. MaxCalls]

LEMMA CountNext ==
  ASSUME CountTypes, [Next]_vars
  PROVE  CountTypes'
  <1>1. ASSUME NEW t \in Caller, Call(t)
        PROVE  CountTypes'
    <2>1. calls' = [calls EXCEPT ![t] = calls[t] + 1] /\ calls[t] < MaxCalls
          /\ UNCHANGED <<up, used>>
      BY <1>1 DEF Call
    <2> QED  BY <2>1, SessionAssumption DEF CountTypes
  <1>2. ASSUME NEW t \in Caller, Continue(t)
        PROVE  UNCHANGED <<used, calls>> /\ (up' = up \/ \E p : Crash(p))
    <2>1. CASE GetLogin(t)  BY <2>1 DEF GetLogin
    <2>2. CASE GetSession(t)  BY <2>2 DEF GetSession
    <2>3. CASE TakeTicket(t)  BY <2>3 DEF TakeTicket
    <2>4. CASE StoreTicket(t)  BY <2>4 DEF StoreTicket
    <2>5. CASE Choose(t)  BY <2>5 DEF Choose
    <2>6. CASE Validate(t)  BY <2>6 DEF Validate
    <2>7. CASE FetchSession(t)  BY <2>7 DEF FetchSession
    <2>8. CASE ReadTickets(t)  BY <2>8 DEF ReadTickets
    <2>9. CASE MarkTicket(t)  BY <2>9 DEF MarkTicket
    <2>10. CASE Reset(t)  BY <2>10, Zenon DEF Reset
    <2>11. CASE Chain(t)  BY <2>11 DEF Chain
    <2>12. CASE NoServer(t)  BY <2>12 DEF NoServer
    <2>14. CASE AttachReset(t)  BY <2>14 DEF AttachReset
    <2>13. CASE InvalidCredential(t)  BY <2>13 DEF InvalidCredential
    <2> QED
      BY <1>2, <2>1, <2>2, <2>3, <2>4, <2>5, <2>6, <2>7, <2>8, <2>9, <2>10,
         <2>11, <2>12, <2>13, <2>14
         DEF Continue
  <1>3. ASSUME NEW t \in Caller, Continue(t)
        PROVE  CountTypes'
    BY <1>2, <1>3 DEF Crash, CountTypes
  <1>4. CASE \/ ClientLogsOut \/ ClientLogsIn \/ ServerLogsOut \/ ServerLogsIn
             \/ UNCHANGED vars
    BY <1>4 DEF ClientLogsOut, ClientLogsIn, ServerLogsOut, ServerLogsIn, vars,
                CountTypes
  <1> QED  BY <1>1, <1>3, <1>4 DEF Next

\* A step of one request that keeps its login, or loses it with its credential.
KeepsLogin(t) ==
  /\ \A u \in Caller \ {t} : pc'[u] = pc[u] /\ cred'[u] = cred[u]
  /\ cred'[t].login = cred[t].login
  /\ pc'[t] \in Unnamed <=> pc[t] \in Unnamed
Leaves(t) ==
  /\ \A u \in Caller \ {t} : pc'[u] = pc[u] /\ cred'[u] = cred[u]
  /\ cred'[t].login = NoLogin /\ pc'[t] \in Unnamed

LEMMA LoginLeaves ==
  ASSUME RequestTypes, NEW t \in Caller, EndCall(t) \/ Retry(t)
  PROVE  Leaves(t)
  BY DEF RequestTypes, EndCall, Retry, Leave, Goto, NoCredential, Leaves, Unnamed

LEMMA LoginKept ==
  ASSUME RequestTypes, NEW t \in Caller, NEW step, Goto(t, step),
         step \in Unnamed <=> pc[t] \in Unnamed,
         \/ UNCHANGED cred
         \/ \E s \in Session \cup {NoSession} :
              cred' = [cred EXCEPT ![t].session = s]
         \/ \E s \in Session \cup {NoSession}, n \in Nat :
              cred' = [cred EXCEPT ![t].session = s, ![t].ticket = n]
  PROVE  KeepsLogin(t)
  BY DEF RequestTypes, Credential, Goto, KeepsLogin

LEMMA NamedNext ==
  ASSUME IInv, NamedInv, [Next]_vars
  PROVE  NamedInv'
  <1>0. /\ RequestTypes /\ StateTypes /\ CacheInv
        /\ NoLogin \notin ClientLogin \cup ServerLogin
    BY SessionAssumption DEF IInv, TypeInv
  <1>1. ASSUME NEW t \in Caller, KeepsLogin(t) \/ Leaves(t)
        PROVE  NamedInv'
    <2>1. CASE KeepsLogin(t)  BY <2>1 DEF KeepsLogin, NamedInv
    <2>2. CASE Leaves(t)  BY <2>2 DEF Leaves, NamedInv
    <2> QED  BY <1>1, <2>1, <2>2
  <1>2. CASE UNCHANGED <<pc, cred>>  BY <1>2 DEF NamedInv
  <1>3. ASSUME NEW t \in Caller, EndCall(t) \/ Retry(t)
        PROVE  NamedInv'
    BY <1>0, <1>1, <1>3, LoginLeaves
  <1>4. ASSUME NEW t \in Caller, NEW step, Goto(t, step), UNCHANGED cred,
               step \in Unnamed <=> pc[t] \in Unnamed
        PROVE  NamedInv'
    BY <1>0, <1>1, <1>4, LoginKept
  <1>5. ASSUME NEW t \in Caller, Call(t) \/ StoreTicket(t)
        PROVE  NamedInv'
    BY <1>4, <1>5 DEF Call, StoreTicket, AtClient, Unnamed
  <1>6. ASSUME NEW t \in Caller, GetLogin(t)
        PROVE  NamedInv'
    <2>1. CASE EndCall(t)  BY <1>3, <2>1
    <2>2. CASE clientLogin # NoLogin /\ Goto(t, "get_session")
               /\ cred' = [cred EXCEPT ![t].login = clientLogin]
      <3>1. /\ cred'[t].login # NoLogin /\ pc'[t] \notin Unnamed
            /\ \A u \in Caller \ {t} : cred'[u] = cred[u] /\ pc'[u] = pc[u]
        BY <1>0, <2>2 DEF RequestTypes, Credential, Goto, Unnamed
      <3> QED  BY <3>1 DEF NamedInv
    <2> QED  BY <1>6, <2>1, <2>2 DEF GetLogin
  <1>7. ASSUME NEW t \in Caller, GetSession(t)
        PROVE  NamedInv'
    <2> DEFINE remote == datum(profile2login, Profile)
               s == datum(login2session, remote)
    <2>1. s \in Session \cup {NoSession}
      <3> HIDE DEF remote
      <3>1. CASE exists(login2session, remote)
        BY <1>0, <3>1, PairOfDatum DEF CacheInv
      <3>2. CASE ~exists(login2session, remote)
        BY <3>2 DEF datum, NoSession
      <3> QED  BY <3>1, <3>2
    <2>2. /\ cred' = [cred EXCEPT ![t].session = s]
          /\ pc[t] = "get_session"
          /\ \E step \in {"sent", "ticket"} : Goto(t, step)
      BY <1>7 DEF GetSession, AtClient
    <2> HIDE DEF remote, s
    <2>3. KeepsLogin(t)  BY <1>0, <2>1, <2>2, LoginKept DEF Unnamed
    <2> QED  BY <1>1, <2>3
  <1>8. ASSUME NEW t \in Caller, TakeTicket(t)
        PROVE  NamedInv'
    <2>1. pc[t] = "ticket" /\ pc[t] \notin Unnamed
      BY <1>8 DEF TakeTicket, AtClient, Unnamed
    <2>2. CASE UNCHANGED <<cred, pc>>  BY <1>2, <2>2
    <2>3. ASSUME NEW s \in PointsTo(cred[t].session), Goto(t, "store"),
                 cred' = [cred EXCEPT ![t].session = s,
                                      ![t].ticket = clientTicket[s] + 1]
          PROVE  NamedInv'
      <3>1. s \in Session
        BY <1>0, <2>1, Known DEF PointsTo, WithSession
      <3>2. clientTicket[s] + 1 \in Nat  BY <1>0, <3>1 DEF StateTypes
      <3>3. KeepsLogin(t)
        BY <1>0, <2>1, <2>3, <3>1, <3>2, LoginKept DEF Unnamed
      <3> QED  BY <1>1, <3>3
    <2>4. ASSUME Goto(t, "sent"),
                 cred' = [cred EXCEPT ![t].session = NoSession]
          PROVE  NamedInv'
      <3>1. KeepsLogin(t)  BY <1>0, <2>1, <2>4, LoginKept DEF Unnamed
      <3> QED  BY <1>1, <3>1
    <2> QED  BY <1>8, <2>2, <2>3, <2>4 DEF TakeTicket
  <1>9. ASSUME NEW t \in Caller, Choose(t)
        PROVE  NamedInv'
    BY <1>3, <1>4, <1>9 DEF Choose, AtServer, Unnamed
  <1>10. ASSUME NEW t \in Caller, Validate(t)
         PROVE  NamedInv'
    <2>1. pc[t] = "validate"  BY <1>10 DEF Validate, AtServer
    <2>2. CASE EndCall(t) \/ Retry(t)  BY <1>3, <2>2
    <2>3. CASE UNCHANGED requestVars  BY <1>2, <2>3 DEF requestVars
    <2>4. CASE Goto(t, "fetch") /\ UNCHANGED cred
      BY <1>4, <2>1, <2>4 DEF Unnamed
    <2> QED  BY <1>10, <2>2, <2>3, <2>4 DEF Validate
  <1>11. ASSUME NEW t \in Caller, FetchSession(t)
         PROVE  NamedInv'
    BY <1>4, <1>11 DEF FetchSession, AtServer, Unnamed
  <1>12. ASSUME NEW t \in Caller, ReadTickets(t)
         PROVE  NamedInv'
    BY <1>4, <1>12 DEF ReadTickets, AtServer, Unnamed
  <1>13. ASSUME NEW t \in Caller, MarkTicket(t)
         PROVE  NamedInv'
    BY <1>4, <1>13 DEF MarkTicket, AtServer, Unnamed
  <1>14. ASSUME NEW t \in Caller, Reset(t)
         PROVE  NamedInv'
    <2>1. /\ Goto(t, "attach") /\ pc[t] = "reset"
          /\ cred' = [cred EXCEPT ![t].session = NewSession, ![t].ticket = 0]
      BY <1>14, Zenon DEF Reset, AtServer, NewSession
    <2>2. NewSession \in Session  BY <1>0, NewSessionUnused
    <2>3. KeepsLogin(t)  BY <1>0, <2>1, <2>2, LoginKept DEF Unnamed
    <2> QED  BY <1>1, <2>3
  <1>15. ASSUME NEW t \in Caller, Chain(t)
         PROVE  NamedInv'
    <2>1. pc[t] = "chain"  BY <1>15 DEF Chain, AtServer
    <2>2. CASE EndCall(t)  BY <1>3, <2>2
    <2>3. CASE UNCHANGED requestVars  BY <1>2, <2>3 DEF requestVars
    <2>4. CASE Goto(t, "reset") /\ UNCHANGED cred
      BY <1>4, <2>1, <2>4 DEF Unnamed
    <2> QED  BY <1>15, <2>2, <2>3, <2>4 DEF Chain, Dispatched
  <1>16. ASSUME NEW t \in Caller, NoServer(t) \/ InvalidCredential(t)
         PROVE  NamedInv'
    BY <1>3, <1>16 DEF NoServer, InvalidCredential
  <1>17. CASE \/ ClientLogsOut \/ ClientLogsIn \/ ServerLogsOut \/ ServerLogsIn
              \/ UNCHANGED vars
    BY <1>2, <1>17 DEF ClientLogsOut, ClientLogsIn, ServerLogsOut, ServerLogsIn,
                       vars, requestVars
  <1>18. ASSUME NEW t \in Caller, AttachReset(t)
         PROVE  NamedInv'
    <2>1. pc[t] = "attach"  BY <1>18 DEF AttachReset, AtServer
    <2>2. CASE UNCHANGED requestVars  BY <1>2, <2>2 DEF requestVars
    <2>3. CASE Goto(t, "invalid_credential") /\ UNCHANGED cred
      BY <1>4, <2>1, <2>3 DEF Unnamed
    <2> QED  BY <1>18, <2>2, <2>3 DEF AttachReset
  <1> QED
    BY <1>5, <1>6, <1>7, <1>8, <1>9, <1>10, <1>11, <1>12, <1>13, <1>14, <1>15,
       <1>16, <1>17, <1>18
       DEF Next, Continue
-----------------------------------------------------------------------------
\* What a session of the server's cache was made for: the login of now, or it is
\* being sent, or the process is gone, which it is only without a login.
AttachedBy(t, s) == pc[t] = "attach" /\ cred[t].session = s
HeldInv ==
  /\ "server" \notin up => serverLogin = NoLogin
  /\ \A s \in Session : Holds(sessions, s) =>
       \/ "server" \notin up
       \/ serverLogin # NoLogin /\ target[s] = serverLogin
       \/ \E t \in Caller : AttachedBy(t, s)

LEMMA HoldsPairs ==
  ASSUME NEW K, NEW D, NEW c \in Cache(K, D), NEW s
  PROVE  Holds(c, s) <=> \E p \in Pairs(c) : p.data = s
  BY CacheFacts DEF Holds, Pairs

\* A reset that is about to be sent waits for its own step.
LEMMA AttachStays ==
  ASSUME RequestTypes, NEW t \in Caller, Call(t) \/ Continue(t), ~AttachReset(t),
         NEW u \in Caller, pc[u] = "attach", "server" \in up
  PROVE  pc'[u] = "attach" /\ cred'[u] = cred[u]
  <1>1. ASSUME NEW step, Leave(t, step), u # t
        PROVE  pc'[u] = "attach" /\ cred'[u] = cred[u]
    BY <1>1 DEF Leave, Goto, RequestTypes
  <1>2. ASSUME NEW step, Goto(t, step), u # t
        PROVE  pc'[u] = "attach"
    BY <1>2 DEF Goto, RequestTypes
  <1>3. ASSUME NEW c, cred' = [cred EXCEPT ![t] = c], u # t
        PROVE  cred'[u] = cred[u]
    BY <1>3 DEF RequestTypes
  <1>4. CASE UNCHANGED <<pc, cred>>  BY <1>4
  <1>5. CASE Call(t)  BY <1>2, <1>5 DEF Call, AtClient
  <1>6. CASE GetLogin(t)
    BY <1>1, <1>2, <1>3, <1>6 DEF GetLogin, AtClient, EndCall
  <1>7. CASE GetSession(t)
    <2>1. /\ u # t /\ \E step : Goto(t, step)
          /\ \E c : cred' = [cred EXCEPT ![t] = c]
      BY <1>7, Zenon DEF GetSession, AtClient
    <2> QED  BY <1>2, <1>3, <2>1
  <1>8. CASE TakeTicket(t)
    <2>1. u # t  BY <1>8 DEF TakeTicket, AtClient
    <2>2. ASSUME NEW s, Goto(t, "store"),
                 cred' = [cred EXCEPT ![t].session = s,
                                      ![t].ticket = clientTicket[s] + 1]
          PROVE  pc'[u] = "attach" /\ cred'[u] = cred[u]
      BY <1>2, <2>1, <2>2 DEF RequestTypes
    <2>3. ASSUME Goto(t, "sent"),
                 cred' = [cred EXCEPT ![t].session = NoSession]
          PROVE  pc'[u] = "attach" /\ cred'[u] = cred[u]
      BY <1>2, <2>1, <2>3 DEF RequestTypes
    <2> QED  BY <1>4, <1>8, <2>2, <2>3 DEF TakeTicket
  <1>9. CASE StoreTicket(t)  BY <1>2, <1>9 DEF StoreTicket, AtClient
  <1>10. CASE Choose(t)
    BY <1>1, <1>2, <1>10 DEF Choose, AtServer, EndCall
  <1>11. CASE Validate(t)
    BY <1>1, <1>2, <1>4, <1>11
       DEF Validate, AtServer, EndCall, Retry, requestVars
  <1>12. CASE FetchSession(t)  BY <1>2, <1>12 DEF FetchSession, AtServer
  <1>13. CASE ReadTickets(t)  BY <1>2, <1>13 DEF ReadTickets, AtServer
  <1>14. CASE MarkTicket(t)  BY <1>2, <1>14 DEF MarkTicket, AtServer
  <1>15. CASE Reset(t)
    <2>1. /\ u # t /\ Goto(t, "attach")
          /\ cred' = [cred EXCEPT ![t].session = NewSession, ![t].ticket = 0]
      BY <1>15, Zenon DEF Reset, AtServer, NewSession
    <2> QED  BY <1>2, <2>1 DEF RequestTypes
  <1>16. CASE Chain(t)
    BY <1>1, <1>2, <1>4, <1>16
       DEF Chain, Dispatched, AtServer, EndCall, requestVars
  <1>17. CASE InvalidCredential(t)
    BY <1>1, <1>17 DEF InvalidCredential, AtClient, Retry
  <1>18. ~NoServer(t)  BY DEF NoServer
  <1> QED
    BY <1>5, <1>6, <1>7, <1>8, <1>9, <1>10, <1>11, <1>12, <1>13, <1>14, <1>15,
       <1>16, <1>17, <1>18
       DEF Continue

LEMMA HeldNext ==
  ASSUME IInv, HeldInv, [Next]_vars
  PROVE  HeldInv'
  <1>0. RequestTypes /\ StateTypes /\ CacheInv /\ CacheInv'
    <2>1. CacheInv'  BY CacheNext DEF IInv
    <2> QED  BY <2>1 DEF IInv, TypeInv
  \* A step that leaves the login and the targets alone, and adds no session.
  <1>1. ASSUME UNCHANGED <<serverLogin, target>>,
               \A s \in Session : Holds(sessions', s) => Holds(sessions, s),
               "server" \in up' => "server" \in up,
               "server" \in up /\ "server" \notin up' => serverLogin = NoLogin,
               \A u \in Caller : pc[u] = "attach" /\ "server" \in up =>
                 pc'[u] = "attach" /\ cred'[u] = cred[u]
        PROVE  HeldInv'
    BY <1>1 DEF HeldInv, AttachedBy
  <1>2. ASSUME NEW t \in Caller, Reset(t)
        PROVE  HeldInv'
    <2>1. /\ sessions' = insert(sessions, NewSession, NewSession)
          /\ target' = [target EXCEPT ![NewSession] = NoLogin]
          /\ pc[t] = "reset" /\ Goto(t, "attach")
          /\ cred' = [cred EXCEPT ![t].session = NewSession, ![t].ticket = 0]
          /\ UNCHANGED <<up, serverLogin>>
      BY <1>2, Zenon DEF Reset, AtServer, NewSession
    <2>2. NewSession \in Session  BY <1>0, NewSessionUnused
    <2>3. ASSUME NEW s \in Session, Holds(sessions', s)
          PROVE  s = NewSession \/ Holds(sessions, s)
      <3>1. PICK p \in Pairs(sessions') : p.data = s
        BY <1>0, <2>3, HoldsPairs DEF CacheInv
      <3>2. p \in Pairs(sessions) \/ p = [key |-> NewSession, data |-> NewSession]
        BY <1>0, <2>1, <2>2, <3>1, InsertInStep
           DEF CacheInv, PairsWith, PairsBut
      <3> QED  BY <1>0, <3>1, <3>2, HoldsPairs DEF CacheInv
    <2>4. pc'[t] = "attach" /\ cred'[t].session = NewSession
      BY <1>0, <2>1 DEF Goto, RequestTypes, Credential
    <2>5. ASSUME NEW u \in Caller, pc[u] = "attach"
          PROVE  pc'[u] = "attach" /\ cred'[u] = cred[u]
      BY <1>0, <2>1, <2>5 DEF Goto, RequestTypes
    <2>6. \A s \in Session : s # NewSession => target'[s] = target[s]
      BY <1>0, <2>1 DEF StateTypes
    <2>7. ASSUME NEW s \in Session, Holds(sessions', s)
          PROVE  \/ "server" \notin up
                 \/ serverLogin # NoLogin /\ target'[s] = serverLogin
                 \/ \E u \in Caller : pc'[u] = "attach" /\ cred'[u].session = s
      <3>1. CASE s = NewSession  BY <2>4, <3>1
      <3>2. CASE s # NewSession
        <4>1. \/ "server" \notin up
              \/ serverLogin # NoLogin /\ target[s] = serverLogin
              \/ \E u \in Caller : pc[u] = "attach" /\ cred[u].session = s
          BY <2>3, <2>7, <3>2 DEF HeldInv, AttachedBy
        <4> QED  BY <2>5, <2>6, <3>2, <4>1
      <3> QED  BY <3>1, <3>2
    <2>8. "server" \notin up' => serverLogin' = NoLogin
      BY <2>1 DEF HeldInv
    <2> QED  BY <2>1, <2>7, <2>8 DEF HeldInv, AttachedBy
  <1>3. ASSUME NEW t \in Caller, AttachReset(t)
        PROVE  HeldInv'
    <2> DEFINE s == cred[t].session
    <2>1. s \in Session /\ UNCHANGED <<serverLogin, sessions>> /\ pc[t] = "attach"
      BY <1>0, <1>3, Known DEF AttachReset, AtServer, WithSession
    <2>2. CASE serverLogin = NoLogin /\ Crash("server")
      BY <2>1, <2>2 DEF HeldInv, Crash
    <2>3. CASE /\ serverLogin # NoLogin
               /\ target' = [target EXCEPT ![s] = serverLogin]
               /\ Goto(t, "invalid_credential")
               /\ UNCHANGED <<up, cred, seen>>
      <3>1. ASSUME NEW u \in Caller, u # t
            PROVE  pc'[u] = pc[u] /\ cred'[u] = cred[u]
        BY <1>0, <2>3, <3>1 DEF Goto, RequestTypes
      <3>2. /\ target'[s] = serverLogin
            /\ \A r \in Session : r # s => target'[r] = target[r]
        BY <1>0, <2>1, <2>3 DEF StateTypes
      <3>3. "server" \notin up' => serverLogin' = NoLogin
        BY <2>1, <2>3 DEF HeldInv
      <3>4. ASSUME NEW r \in Session, Holds(sessions', r)
            PROVE  \/ "server" \notin up'
                   \/ serverLogin' # NoLogin /\ target'[r] = serverLogin'
                   \/ \E u \in Caller : AttachedBy(u, r)'
        <4>1. CASE r = s  BY <2>1, <2>3, <3>2, <4>1
        <4>2. CASE r # s
          <5>1. \/ "server" \notin up
                \/ serverLogin # NoLogin /\ target[r] = serverLogin
                \/ \E u \in Caller : AttachedBy(u, r)
            BY <2>1, <3>4 DEF HeldInv
          <5>2. ASSUME NEW u \in Caller, AttachedBy(u, r)
                PROVE  AttachedBy(u, r)'
            BY <3>1, <4>2, <5>2 DEF AttachedBy
          <5> QED  BY <2>1, <2>3, <3>2, <4>2, <5>1, <5>2
        <4> QED  BY <4>1, <4>2
      <3> QED  BY <3>3, <3>4 DEF HeldInv
    <2> QED  BY <1>3, <2>2, <2>3 DEF AttachReset
  <1>4. CASE ServerLogsOut
    BY <1>4 DEF ServerLogsOut, HeldInv, clear, Holds
  <1>5. CASE ServerLogsIn
    BY <1>5 DEF ServerLogsIn, HeldInv, AttachedBy, requestVars
  <1>6. ASSUME NEW t \in Caller, FetchSession(t)
        PROVE  HeldInv'
    <2>1. UNCHANGED <<up, serverLogin, target>>  BY <1>6 DEF FetchSession
    <2>2. PICK s : sessions' = touch(sessions, s)  BY <1>6 DEF FetchSession
    <2>3. \A r : Holds(sessions', r) => Holds(sessions, r)
      BY <1>0, <2>2, TouchKeeps, HoldsPairs DEF CacheInv
    <2>4. ~AttachReset(t)  BY <1>6 DEF FetchSession, AttachReset, AtServer
    <2> QED  BY <1>0, <1>1, <1>6, <2>1, <2>3, <2>4, AttachStays DEF Continue
  <1>7. ASSUME NEW t \in Caller,
               \/ Call(t) \/ GetLogin(t) \/ GetSession(t) \/ TakeTicket(t)
               \/ StoreTicket(t) \/ Choose(t) \/ Validate(t) \/ ReadTickets(t)
               \/ MarkTicket(t) \/ Chain(t) \/ NoServer(t)
               \/ InvalidCredential(t)
        PROVE  HeldInv'
    <2>1. UNCHANGED <<serverLogin, target, sessions>>
      BY <1>7
         DEF Call, GetLogin, GetSession, TakeTicket, StoreTicket, Choose,
             Validate, ReadTickets, MarkTicket, Chain, NoServer,
             InvalidCredential, serverVars
    <2>2. /\ "server" \in up' => "server" \in up
          /\ "server" \in up /\ "server" \notin up' => serverLogin = NoLogin
      BY <1>7
         DEF Call, GetLogin, GetSession, TakeTicket, StoreTicket, Choose,
             Validate, ReadTickets, MarkTicket, Chain, NoServer,
             InvalidCredential, Crash
    <2>3. "server" \in up => ~AttachReset(t)
      BY <1>7
         DEF Call, GetLogin, GetSession, TakeTicket, StoreTicket, Choose,
             Validate, ReadTickets, MarkTicket, Chain, NoServer,
             InvalidCredential, AttachReset, AtServer, AtClient
    <2> QED  BY <1>0, <1>1, <1>7, <2>1, <2>2, <2>3, AttachStays DEF Continue
  <1>8. CASE ClientLogsOut \/ ClientLogsIn \/ UNCHANGED vars
    <2>1. UNCHANGED <<up, serverLogin, target, sessions, pc, cred>>
      BY <1>8 DEF ClientLogsOut, ClientLogsIn, vars, serverVars, requestVars
    <2> QED  BY <1>1, <2>1
  <1> QED
    BY <1>2, <1>3, <1>4, <1>5, <1>6, <1>7, <1>8 DEF Next, Continue
-----------------------------------------------------------------------------
LEMMA InitHolds ==
  ASSUME Init
  PROVE  IInv /\ TicketInv /\ HeldInv
  <1>1. CacheInv
    BY EmptyInStep, MaxSizeAssumption DEF Init, CacheInv, Empty
  <1>2. TypeInv
    <2>1. NoCredential \in Credential  BY DEF NoCredential, Credential
    <2> QED
      BY <2>1 DEF Init, TypeInv, StateTypes, RequestTypes, Steps, WithSession
  <1>3. LoginInv /\ TargetInv  BY DEF Init, LoginInv, TargetInv
  <1>4. TicketInv  BY DEF Init, TicketInv, MarkInv, ChainInv
  <1>5. HeldInv  BY DEF Init, HeldInv, Empty, Holds
  <1> QED  BY <1>1, <1>2, <1>3, <1>4, <1>5 DEF IInv

LEMMA NextHolds ==
  ASSUME IInv, [Next]_vars
  PROVE  IInv'
  <1>1. CacheInv'  BY CacheNext DEF IInv
  <1>2. TypeInv'  BY TypeNext
  <1>3. LoginInv' /\ TargetInv'  BY LoginNext
  <1> QED  BY <1>1, <1>2, <1>3 DEF IInv

\* The caches are in step, the types are right, and the session of a checked
\* request belongs to its login.
THEOREM SessionsInOrder == Spec => []IInv
  <1>1. Init => IInv  BY InitHolds
  <1>2. IInv /\ [Next]_vars => IInv'  BY NextHolds
  <1> QED  BY <1>1, <1>2, PTL DEF Spec

\* The variables have their types, with tickets of any size, and a request has a
\* login from get_login on: no step of client or server puts one on the way
\* without.
THEOREM TypeCorrect == Spec => []TypeOK
  <1>1. Init => CountTypes /\ NamedInv
    BY SessionAssumption DEF Init, CountTypes, NamedInv, Unnamed, NoCredential
  <1>2. CountTypes /\ [Next]_vars => CountTypes'  BY CountNext
  <1>3. IInv /\ NamedInv /\ [Next]_vars => NamedInv'  BY NamedNext
  <1>4. ASSUME IInv, CountTypes, NamedInv
        PROVE  TypeOK
    BY <1>4 DEF IInv, TypeInv, StateTypes, RequestTypes, CountTypes, NamedInv,
                Unnamed, Steps, TypeOK
  <1> QED  BY <1>1, <1>2, <1>3, <1>4, SessionsInOrder, PTL DEF Spec

\* A request is dispatched only under the login its session was made for,
\* whatever pointer the client followed into freed memory.
THEOREM DispatchedForItsLoginHolds == Spec => []DispatchedForItsLogin
  <1>1. ASSUME IInv
        PROVE  DispatchedForItsLogin
    BY <1>1 DEF IInv, LoginInv, DispatchedForItsLogin
  <1> QED  BY <1>1, SessionsInOrder, PTL

\* However many dispatches the server runs at once, the only way to dispatch a
\* ticket of a session twice is that two of them were in tickets_check with the
\* session's window at the same time.
THEOREM OneDispatchUnlessRacedHolds == Spec => []OneDispatchUnlessRaced
  <1>1. Init => TicketInv  BY InitHolds
  <1>2. IInv /\ TicketInv /\ [Next]_vars => TicketInv'  BY TicketNext
  <1>3. TicketInv => OneDispatchUnlessRaced
    BY DEF TicketInv, ChainInv, OneDispatchUnlessRaced
  <1> QED  BY <1>1, <1>2, <1>3, SessionsInOrder, PTL DEF Spec

\* No session of the server's cache outlives the login it was made under, in
\* whatever order resets, logouts and logins come.
THEOREM SessionOfItsServerHolds == Spec => []SessionOfItsServer
  <1>1. Init => HeldInv  BY InitHolds
  <1>2. IInv /\ HeldInv /\ [Next]_vars => HeldInv'  BY HeldNext
  <1>3. HeldInv => SessionOfItsServer
    BY DEF HeldInv, AttachedBy, SessionOfItsServer
  <1> QED  BY <1>1, <1>2, <1>3, SessionsInOrder, PTL DEF Spec
-----------------------------------------------------------------------------
(* The ticket history.  WindowExact is the inductive invariant; the lemmas   *)
(* say how discardBase and the skip of tickets_check keep it.                *)
USE TicketsAssumption

\* What the bitmap of h means for the set A of accepted tickets.
Exact(h, A) ==
  /\ \A shift \in Slots : Slot(h, shift) \in h.bits <=> h.base + 1 + shift \in A
  /\ \A a \in A : a <= h.base + TICKETS_SIZE
-----------------------------------------------------------------------------
\* The remainder by n of a number below 2n.
LEMMA Remainder ==
  ASSUME NEW n \in Nat \ {0}, NEW x \in Nat
  PROVE  /\ x < n => x % n = x
         /\ x >= n /\ x < 2 * n => x % n = x - n
  <1>1. x < n => x % n = x  OBVIOUS
  <1>2. x >= n /\ x < 2 * n => x % n = x - n
    <2> SUFFICES ASSUME x \in n..(2 * n - 1)  PROVE x % n = x - n
      OBVIOUS
    <2> QED  OBVIOUS
  <1> QED  BY <1>1, <1>2

\* A sum of the index and a shift wraps around the bitmap at most once.
LEMMA SlotValue ==
  ASSUME NEW h \in History, NEW s \in Nat, s <= TICKETS_SIZE
  PROVE  /\ h.index \in Slots
         /\ Slot(h, s) \in Slots
         /\ h.index + s < TICKETS_SIZE => Slot(h, s) = h.index + s
         /\ h.index + s >= TICKETS_SIZE
              => Slot(h, s) = h.index + s - TICKETS_SIZE
  <1>1. h.index \in Slots  BY DEF History
  <1>2. h.index + s \in Nat /\ h.index + s < 2 * TICKETS_SIZE
    BY <1>1 DEF Slots
  <1>3. Slot(h, s) = (h.index + s) % TICKETS_SIZE  BY DEF Slot
  <1>4. /\ h.index + s < TICKETS_SIZE => Slot(h, s) = h.index + s
        /\ h.index + s >= TICKETS_SIZE
             => Slot(h, s) = h.index + s - TICKETS_SIZE
    <2> DEFINE x == h.index + s
    <2>1. x \in Nat /\ x < 2 * TICKETS_SIZE /\ Slot(h, s) = x % TICKETS_SIZE
      BY <1>2, <1>3
    <2> HIDE DEF x
    <2>2. /\ x < TICKETS_SIZE => x % TICKETS_SIZE = x
          /\ x >= TICKETS_SIZE => x % TICKETS_SIZE = x - TICKETS_SIZE
      BY <2>1, Remainder
    <2> QED  BY <1>1, <2>1, <2>2 DEF x, Slots
  <1> QED  BY <1>1, <1>2, <1>4 DEF Slots

\* Different shifts of the window have different slots.
LEMMA SlotInjective ==
  ASSUME NEW h \in History, NEW s \in Slots, NEW t \in Slots,
         Slot(h, s) = Slot(h, t)
  PROVE  s = t
  <1>1. s \in Nat /\ t \in Nat /\ s < TICKETS_SIZE /\ t < TICKETS_SIZE
    BY DEF Slots
  <1>2. h.index \in Nat /\ h.index < TICKETS_SIZE  BY SlotValue DEF Slots
  <1>3. ASSUME NEW e \in Nat, e < TICKETS_SIZE
        PROVE  \/ h.index + e < TICKETS_SIZE /\ Slot(h, e) = h.index + e
               \/ /\ h.index + e >= TICKETS_SIZE
                  /\ Slot(h, e) = h.index + e - TICKETS_SIZE
    BY <1>2, <1>3, SlotValue
  <1>4. \/ h.index + s < TICKETS_SIZE /\ Slot(h, s) = h.index + s
        \/ h.index + s >= TICKETS_SIZE /\ Slot(h, s) = h.index + s - TICKETS_SIZE
    BY <1>1, <1>3
  <1>5. \/ h.index + t < TICKETS_SIZE /\ Slot(h, t) = h.index + t
        \/ h.index + t >= TICKETS_SIZE /\ Slot(h, t) = h.index + t - TICKETS_SIZE
    BY <1>1, <1>3
  <1> QED  BY <1>1, <1>2, <1>4, <1>5

\* Moving the index by d slots moves the window by d shifts, around the end.
LEMMA SlotShift ==
  ASSUME NEW h \in History, NEW g \in History,
         NEW d \in Nat, d <= TICKETS_SIZE + 1,
         g.index = Slot(h, d), NEW s \in Slots
  PROVE  /\ d + s < TICKETS_SIZE => Slot(g, s) = Slot(h, d + s)
         /\ /\ d + s >= TICKETS_SIZE
            /\ d + s < 2 * TICKETS_SIZE
            => Slot(g, s) = Slot(h, d + s - TICKETS_SIZE)
         /\ d + s >= 2 * TICKETS_SIZE => Slot(g, s) = Slot(h, 0)
  <1> DEFINE N == TICKETS_SIZE
  <1>1. /\ h.index \in Nat /\ h.index < N
        /\ g.index \in Nat /\ g.index < N
        /\ s \in Nat /\ s < N
    BY SlotValue DEF Slots
  <1>2. /\ h.index + d < N => g.index = h.index + d
        /\ h.index + d >= N /\ h.index + d < 2 * N => g.index = h.index + d - N
        /\ h.index + d = 2 * N => g.index = 0
    <2>1. g.index = (h.index + d) % N  BY DEF Slot
    <2>2. (2 * N) % N = 0  OBVIOUS
    <2> DEFINE x == h.index + d
    <2>3. x \in Nat /\ g.index = x % N  BY <1>1, <2>1
    <2> HIDE DEF x
    <2>4. /\ x < N => x % N = x
          /\ x >= N /\ x < 2 * N => x % N = x - N
      BY <2>3, Remainder
    <2> QED  BY <1>1, <2>2, <2>3, <2>4 DEF x
  <1>3. /\ g.index + s < N => Slot(g, s) = g.index + s
        /\ g.index + s >= N => Slot(g, s) = g.index + s - N
    BY <1>1, SlotValue
  <1>4. ASSUME NEW e \in Nat, e < N
        PROVE  /\ h.index + e < N => Slot(h, e) = h.index + e
               /\ h.index + e >= N => Slot(h, e) = h.index + e - N
    BY <1>1, <1>4, SlotValue
  <1>5. CASE d + s < N
    BY <1>1, <1>2, <1>3, <1>4, <1>5
  <1>6. CASE d + s >= N /\ d + s < 2 * N
    <2>1. d + s - N \in Nat /\ d + s - N < N  BY <1>1, <1>6
    <2>2. /\ h.index + (d + s - N) < N
               => Slot(h, d + s - N) = h.index + (d + s - N)
          /\ h.index + (d + s - N) >= N
               => Slot(h, d + s - N) = h.index + (d + s - N) - N
      BY <2>1, <1>4
    <2> QED  BY <1>1, <1>2, <1>3, <1>6, <2>2
  <1>7. CASE d + s >= 2 * N
    <2>1. d = N + 1 /\ s = N - 1  BY <1>1, <1>7
    <2>2. Slot(h, 0) = h.index  BY <1>1, <1>4
    <2> QED  BY <1>1, <1>2, <1>3, <2>1, <2>2
  <1> QED  BY <1>1, <1>5, <1>6, <1>7

\* A nonempty set of naturals has a least element.
LEMMA LeastElement ==
  ASSUME NEW T, T \subseteq Nat, T # {}
  PROVE  \E m \in T : \A k \in T : m <= k
  <1> DEFINE R == {ss \in Nat \X Nat : ss[1] < ss[2]}
  <1>1. IsWellFoundedOn(R, Nat)
    BY NatLessThanWellFounded, Zenon DEF OpToRel
  <1> HIDE DEF R
  <1>2. PICK m \in T : \A k \in T : <<k, m>> \notin R
    BY <1>1, WFMin
  <1>3. \A k \in T : ~(k < m)
    BY <1>2 DEF R
  <1> QED  BY <1>3

\* The loop of discardBase ends: RunLength(h) is the length of the run of set
\* bits that starts at the index.
LEMMA RunLengthWorks ==
  ASSUME NEW h \in History
  PROVE  LET k == RunLength(h) IN
         /\ k \in 0..TICKETS_SIZE
         /\ \A j \in 0..(k - 1) : Slot(h, j) \in h.bits
         /\ k < TICKETS_SIZE => Slot(h, k) \notin h.bits
  <1> DEFINE Unset == {k \in 0..TICKETS_SIZE :
                         k < TICKETS_SIZE => Slot(h, k) \notin h.bits}
  <1>1. TICKETS_SIZE \in Unset /\ Unset \subseteq Nat  OBVIOUS
  <1>2. PICK m \in Unset : \A k \in Unset : m <= k  BY <1>1, LeastElement
  <1>3. \A j \in 0..(m - 1) : Slot(h, j) \in h.bits
    <2> SUFFICES ASSUME NEW j \in 0..(m - 1), Slot(h, j) \notin h.bits
                 PROVE  FALSE
      OBVIOUS
    <2>1. j \in 0..TICKETS_SIZE /\ j < m  BY <1>1
    <2>2. j \in Unset  BY <2>1
    <2> QED  BY <1>1, <1>2, <2>1, <2>2
  <1> DEFINE P(k) == /\ \A j \in 0..(k - 1) : Slot(h, j) \in h.bits
                     /\ k < TICKETS_SIZE => Slot(h, k) \notin h.bits
  <1>4. \E k \in 0..TICKETS_SIZE : P(k)  BY <1>3
  <1>5. RunLength(h) = CHOOSE k \in 0..TICKETS_SIZE : P(k)  BY DEF RunLength
  <1> HIDE DEF P
  <1>6. RunLength(h) \in 0..TICKETS_SIZE /\ P(RunLength(h))  BY <1>4, <1>5
  <1> QED  BY <1>6 DEF P

\* discardBase moves the base past itself and past the run of accepted tickets
\* after it, and the bitmap goes on saying which tickets of the window are in A.
LEMMA DiscardBase ==
  ASSUME NEW h \in History, NEW A, A \subseteq Ticket, Exact(h, A),
         h.base <= MaxTicket
  PROVE  LET g == discardBase(h) IN
         /\ g \in History
         /\ h.base < g.base /\ g.base <= MaxTicket + 1
         /\ g.base \notin A
         /\ Exact(g, A)
         /\ \A id \in Nat : h.base < id /\ id < g.base => id \in A
  <1> DEFINE g == discardBase(h)
             N == TICKETS_SIZE
  <1>1. /\ h.base \in Nat /\ h.base <= MaxTicket
        /\ h.bits \subseteq Slots
        /\ h.index \in Slots
        /\ h = [base |-> h.base, bits |-> h.bits, index |-> h.index]
    BY DEF History
  <1>2. \A a \in A : a \in Nat /\ a <= MaxTicket /\ a <= h.base + N
    BY DEF Ticket, Exact
  <1>3. \A s \in Slots : Slot(h, s) \in h.bits <=> h.base + 1 + s \in A
    BY DEF Exact
  <1> HIDE DEF g
  <1>4. CASE h.bits = {}
    <2>1. (h.base + 1) % ValueRange = h.base + 1  BY <1>1
    <2>2. g = [base |-> h.base + 1, bits |-> {}, index |-> h.index]
      BY <1>1, <1>4, <2>1 DEF discardBase, g
    <2>3. g \in History  BY <1>1, <2>2 DEF History
    <2>4. \A a \in A : a <= h.base
      <3> SUFFICES ASSUME NEW a \in A, a > h.base  PROVE FALSE
        BY <1>1, <1>2
      <3>1. a - h.base - 1 \in Slots /\ h.base + 1 + (a - h.base - 1) = a
        BY <1>1, <1>2 DEF Slots
      <3> QED  BY <1>3, <1>4, <3>1
    <2>5. Exact(g, A)
      <3>1. \A s \in Slots : g.base + 1 + s \notin A
        BY <1>1, <2>2, <2>4 DEF Slots
      <3>2. \A a \in A : a <= g.base + N  BY <1>1, <1>2, <2>2, <2>4
      <3> QED  BY <2>2, <3>1, <3>2 DEF Exact
    <2> QED  BY <1>1, <2>2, <2>3, <2>4, <2>5 DEF g
  <1>5. CASE h.bits # {}
    <2> DEFINE k == RunLength(h)
    <2>1. /\ k \in 0..N
          /\ \A j \in 0..(k - 1) : Slot(h, j) \in h.bits
          /\ k < N => Slot(h, k) \notin h.bits
      BY RunLengthWorks
    <2>2. g = [base  |-> (h.base + 1 + k) % ValueRange,
               bits  |-> h.bits \ {Slot(h, j) : j \in 0..(k - 1)},
               index |-> Slot(h, k + 1)]
      BY <1>5 DEF discardBase, g
    <2> HIDE DEF k
    <2>3. \A j \in 0..(k - 1) : h.base + 1 + j \in A
      BY <1>3, <2>1 DEF Slots
    <2>4. h.base + k <= MaxTicket
      <3>1. CASE k = 0  BY <1>1, <3>1
      <3>2. CASE k > 0
        <4>1. h.base + 1 + (k - 1) \in A  BY <2>1, <2>3, <3>2
        <4> QED  BY <1>1, <1>2, <2>1, <4>1
      <3> QED  BY <2>1, <3>1, <3>2
    <2>5. g.base = h.base + 1 + k
      BY <1>1, <2>1, <2>2, <2>4
    <2>6. Slot(h, k + 1) \in Slots
      BY <1>1, <2>1 DEF Slot, Slots
    <2>7. g \in History
      BY <1>1, <2>1, <2>2, <2>4, <2>5, <2>6 DEF History
    <2>8. ASSUME NEW s \in Slots
          PROVE  Slot(g, s) \in g.bits <=> g.base + 1 + s \in A
      <3>1. s \in Nat /\ s < N  BY DEF Slots
      <3>2. \A e \in Slots : e < k => Slot(h, e) \notin g.bits
        BY <2>1, <2>2 DEF Slots
      <3>3. \A e \in Slots : e > k =>
              (Slot(h, e) \in g.bits <=> h.base + 1 + e \in A)
        <4> SUFFICES ASSUME NEW e \in Slots, e > k
                     PROVE  Slot(h, e) \in g.bits <=> Slot(h, e) \in h.bits
          BY <1>3
        <4>1. \A j \in 0..(k - 1) : j \in Slots /\ j # e
          BY <2>1 DEF Slots
        <4>2. \A j \in 0..(k - 1) : Slot(h, j) # Slot(h, e)
          BY <4>1, SlotInjective
        <4> QED  BY <2>2, <4>2
      <3>4. CASE k + 1 + s < N
        <4>1. Slot(g, s) = Slot(h, k + 1 + s)
          BY <2>1, <2>2, <2>7, <3>1, <3>4, SlotShift
        <4>2. k + 1 + s \in Slots  BY <2>1, <3>1, <3>4 DEF Slots
        <4>3. g.base + 1 + s = h.base + 1 + (k + 1 + s)
          BY <1>1, <2>1, <2>5, <3>1
        <4> QED  BY <2>1, <3>1, <3>3, <4>1, <4>2, <4>3
      <3>5. CASE k + 1 + s >= N
        <4>1. g.base + 1 + s > h.base + N
          BY <1>1, <2>1, <2>5, <3>1, <3>5
        <4>2. g.base + 1 + s \notin A
          BY <1>1, <1>2, <2>1, <2>5, <3>1, <4>1
        <4>3. Slot(g, s) \notin g.bits
          <5>1. CASE k + 1 + s >= 2 * N
            <6>1. Slot(g, s) = Slot(h, 0)
              BY <2>1, <2>2, <2>7, <3>1, <5>1, SlotShift
            <6>2. 0 \in Slots /\ k > 0  BY <2>1, <3>1, <5>1 DEF Slots
            <6> QED  BY <3>2, <6>1, <6>2, <2>1
          <5>2. CASE k + 1 + s < 2 * N
            <6> DEFINE e == k + 1 + s - N
            <6>1. Slot(g, s) = Slot(h, e)
              BY <2>1, <2>2, <2>7, <3>1, <3>5, <5>2, SlotShift
            <6>2. e \in Slots /\ e <= k
              BY <2>1, <3>1, <3>5, <5>2 DEF Slots
            <6> HIDE DEF e
            <6>3. CASE e < k  BY <3>2, <6>1, <6>2, <6>3
            <6>4. CASE e = k
              <7>1. k < N  BY <2>1, <6>2, <6>4 DEF Slots
              <7> QED  BY <2>1, <2>2, <6>1, <6>4, <7>1
            <6> QED  BY <2>1, <6>2, <6>3, <6>4 DEF Slots
          <5> QED  BY <2>1, <3>1, <5>1, <5>2
        <4> QED  BY <4>2, <4>3
      <3> QED  BY <2>1, <3>1, <3>4, <3>5
    <2>9. \A a \in A : a <= g.base + N
      BY <1>1, <1>2, <2>1, <2>5
    <2>10. g.base \notin A
      <3>1. CASE k < N
        <4>1. k \in Slots  BY <2>1, <3>1 DEF Slots
        <4>2. h.base + 1 + k \notin A  BY <1>3, <2>1, <3>1, <4>1
        <4> QED  BY <2>5, <4>2
      <3>2. CASE k = N  BY <1>1, <1>2, <2>5, <3>2
      <3> QED  BY <2>1, <3>1, <3>2
    <2>11. ASSUME NEW id \in Nat, h.base < id, id < g.base
           PROVE  id \in A
      <3>1. id - h.base - 1 \in 0..(k - 1) /\ h.base + 1 + (id - h.base - 1) = id
        BY <1>1, <2>1, <2>5, <2>11
      <3> QED  BY <2>3, <3>1
    <2>12. h.base < g.base /\ g.base <= MaxTicket + 1
      BY <1>1, <2>1, <2>4, <2>5
    <2> QED  BY <2>7, <2>8, <2>9, <2>10, <2>11, <2>12 DEF Exact, g
  <1> QED  BY <1>4, <1>5

\* Skip moves the window until id has a slot; it forgets only tickets more
\* than TICKETS_SIZE behind id, and keeps the rest of the window.
LEMMA SkipMovesWindow ==
  ASSUME NEW h \in History, NEW A, A \subseteq Ticket, Exact(h, A),
         NEW id \in Ticket, ~Near(h, id)
  PROVE  LET g == Skip(h, id) IN
         /\ g \in History
         /\ g.base <= MaxTicket
         /\ g.base \notin A
         /\ Exact(g, A)
         /\ g.base <= id /\ Near(g, id) /\ id \notin A
         /\ \A i \in Nat : i < g.base /\ i \notin A => i + TICKETS_SIZE < id
  <1> DEFINE N == TICKETS_SIZE
             g == Skip(h, id)
             extra == id - h.base - 1 - N
             dropped == IF extra < N THEN {Slot(h, j) : j \in 0..(extra - 1)}
                        ELSE Slots
             m == [base  |-> (h.base + extra) % ValueRange,
                   bits  |-> h.bits \ dropped,
                   index |-> IF extra < N THEN Slot(h, extra) ELSE 0]
  <1>1. /\ h.base \in Nat /\ h.bits \subseteq Slots /\ h.index \in Slots
        /\ id \in Nat /\ id <= MaxTicket
    BY DEF History, Ticket
  <1>2. extra \in Nat /\ h.base + extra = id - 1 - N /\ id > h.base + N
    BY <1>1 DEF Near
  <1>3. m.base = id - 1 - N /\ m.base \in 0..(ValueRange - 1)
    <2>1. h.base + extra \in 0..(ValueRange - 1)  BY <1>1, <1>2
    <2> QED  BY <1>2, <2>1
  <1>4. \A a \in A : a \in Nat /\ a <= MaxTicket /\ a <= h.base + N
    BY DEF Ticket, Exact
  <1>5. \A s \in Slots : Slot(h, s) \in h.bits <=> h.base + 1 + s \in A
    BY DEF Exact
  <1>6. m.index \in Slots /\ m.index = (IF extra < N THEN Slot(h, extra) ELSE 0)
    <2>1. CASE extra < N  BY <1>2, <2>1, SlotValue
    <2>2. CASE ~(extra < N)  BY <2>2 DEF Slots
    <2> QED  BY <2>1, <2>2
  <1>7. m \in History /\ m.bits = h.bits \ dropped
    BY <1>1, <1>3, <1>6 DEF History
  <1>8. g = discardBase(m)  BY DEF Skip
  <1> HIDE DEF g, m
  <1>9. ASSUME NEW s \in Slots
        PROVE  Slot(m, s) \in m.bits <=> m.base + 1 + s \in A
    <2>1. s \in Nat /\ s < N  BY DEF Slots
    <2>2. m.base + 1 + s = h.base + 1 + (extra + s)  BY <1>1, <1>2, <1>3, <2>1
    <2>3. CASE extra + s < N
      <3>1. Slot(m, s) = Slot(h, extra + s)
        BY <1>2, <1>6, <1>7, <2>1, <2>3, SlotShift
      <3>2. extra + s \in Slots  BY <1>2, <2>1, <2>3 DEF Slots
      <3>3. dropped = {Slot(h, j) : j \in 0..(extra - 1)}
        BY <1>2, <2>1, <2>3
      <3>4. \A j \in 0..(extra - 1) : j \in Slots /\ j # extra + s
        BY <1>2, <2>1, <2>3 DEF Slots
      <3>5. \A j \in 0..(extra - 1) : Slot(h, j) # Slot(h, extra + s)
        BY <3>2, <3>4, SlotInjective
      <3>6. Slot(h, extra + s) \notin dropped  BY <3>3, <3>5
      <3> QED  BY <1>5, <1>7, <2>2, <3>1, <3>2, <3>6
    <2>4. CASE extra + s >= N
      <3>1. m.base + 1 + s \notin A
        BY <1>1, <1>2, <1>4, <2>1, <2>2, <2>4
      <3>2. Slot(m, s) \notin m.bits
        <4>1. CASE extra < N
          <5> DEFINE e == extra + s - N
          <5>1. Slot(m, s) = Slot(h, e)
            BY <1>2, <1>6, <1>7, <2>1, <2>4, <4>1, SlotShift
          <5>2. e \in 0..(extra - 1)  BY <1>2, <2>1, <2>4, <4>1
          <5>3. Slot(m, s) \in dropped  BY <4>1, <5>1, <5>2
          <5> QED  BY <1>7, <5>3
        <4>2. CASE ~(extra < N)
          <5>1. m.bits = {}  BY <1>1, <1>7, <4>2
          <5> QED  BY <5>1
        <4> QED  BY <4>1, <4>2
      <3> QED  BY <3>1, <3>2
    <2> QED  BY <1>2, <2>1, <2>3, <2>4
  <1>10. \A a \in A : a <= m.base + N
    BY <1>1, <1>2, <1>3, <1>4
  <1>11. Exact(m, A)  BY <1>9, <1>10 DEF Exact
  <1>12. m.base <= MaxTicket  BY <1>1, <1>3
  <1>13. /\ g \in History
         /\ m.base < g.base /\ g.base <= MaxTicket + 1
         /\ g.base \notin A
         /\ Exact(g, A)
         /\ \A i \in Nat : m.base < i /\ i < g.base => i \in A
    BY <1>7, <1>8, <1>11, <1>12, DiscardBase
  <1>14. id \notin A  BY <1>1, <1>2, <1>4
  <1>15. g.base \in Nat  BY <1>13 DEF History
  <1>16. g.base <= id
    BY <1>1, <1>2, <1>3, <1>13, <1>14, <1>15
  <1>17. Near(g, id)  BY <1>1, <1>3, <1>13, <1>15 DEF Near
  <1>18. ASSUME NEW i \in Nat, i < g.base, i \notin A
         PROVE  i + N < id
    BY <1>1, <1>3, <1>13, <1>15, <1>18
  <1> QED  BY <1>1, <1>13, <1>14, <1>15, <1>16, <1>17, <1>18 DEF g

\* The answer to a ticket at or above the base of a window that holds it: it
\* is accepted iff it was not before, and the window stays exact.
LEMMA CheckNearAnswers ==
  ASSUME NEW h \in History, NEW A, A \subseteq Ticket, Exact(h, A),
         h.base <= MaxTicket + 1, h.base \notin A,
         NEW id \in Ticket, Near(h, id), h.base <= id
  PROVE  LET r == CheckNear(h, id)
             B == IF r.ok THEN A \cup {id} ELSE A IN
         /\ r.ok = (id \notin A)
         /\ r.h \in History
         /\ r.h.base <= MaxTicket + 1
         /\ r.h.base \notin B
         /\ Exact(r.h, B)
         /\ \A i \in Nat : i < r.h.base /\ i \notin B => i < h.base
  <1> DEFINE N == TICKETS_SIZE
             r == CheckNear(h, id)
             shift == id - h.base - 1
             slot == Slot(h, shift)
             B == IF r.ok THEN A \cup {id} ELSE A
             Goal == /\ r.ok = (id \notin A)
                     /\ r.h \in History
                     /\ r.h.base <= MaxTicket + 1
                     /\ r.h.base \notin B
                     /\ Exact(r.h, B)
                     /\ \A i \in Nat : i < r.h.base /\ i \notin B => i < h.base
  <1> SUFFICES Goal  OBVIOUS
  <1>1. /\ h.base \in Nat /\ h.bits \subseteq Slots /\ h.index \in Slots
        /\ h = [base |-> h.base, bits |-> h.bits, index |-> h.index]
        /\ id \in Nat /\ id <= MaxTicket /\ id <= h.base + N
    BY DEF History, Ticket, Near
  <1>2. \A a \in A : a \in Nat /\ a <= h.base + N
    <2>1. \A a \in A : a \in Nat  BY DEF Ticket
    <2> QED  BY <2>1 DEF Exact
  <1>3. \A s \in Slots : Slot(h, s) \in h.bits <=> h.base + 1 + s \in A
    BY DEF Exact
  <1> HIDE DEF r
  <1>4. CASE id = h.base
    <2> DEFINE g == discardBase(h)
    <2>1. r = [ok |-> TRUE, h |-> g]
      BY <1>1, <1>4 DEF CheckNear, r
    <2>2. /\ g \in History
          /\ h.base < g.base /\ g.base <= MaxTicket + 1
          /\ g.base \notin A
          /\ Exact(g, A)
          /\ \A i \in Nat : h.base < i /\ i < g.base => i \in A
      BY <1>1, <1>4, DiscardBase
    <2> HIDE DEF g
    <2>8. r.ok = TRUE /\ r.h = g /\ B = A \cup {id}  BY <2>1
    <2>3. g.base \in Nat  BY <2>2 DEF History
    <2>4. \A s \in Slots : g.base + 1 + s # id
      BY <1>1, <1>4, <2>2, <2>3 DEF Slots
    <2> HIDE DEF B
    <2>5. Exact(g, B)
      <3>1. \A s \in Slots : g.base + 1 + s \in B <=> g.base + 1 + s \in A
        BY <2>4, <2>8
      <3>2. id <= g.base + N  BY <1>1, <1>4, <2>2, <2>3
      <3> QED  BY <2>2, <2>8, <3>1, <3>2 DEF Exact
    <2>6. g.base \notin B  BY <2>8, <1>1, <1>4, <2>2, <2>3
    <2>7. ASSUME NEW i \in Nat, i < g.base, i \notin B
          PROVE  i < h.base
      BY <1>1, <1>4, <2>2, <2>3, <2>7, <2>8
    <2>9. id \notin A  BY <1>4
    <2> QED  BY <2>2, <2>5, <2>6, <2>7, <2>8, <2>9
  <1>5. CASE id > h.base
    <2>1. shift \in Slots /\ h.base + 1 + shift = id
      BY <1>1, <1>5 DEF Slots
    <2>2. slot \in h.bits <=> id \in A  BY <1>3, <2>1
    <2>3. CASE id \in A
      <3>1. r = [ok |-> FALSE, h |-> h]
        BY <1>1, <1>5, <2>2, <2>3 DEF CheckNear, r
      <3>2. r.ok = FALSE /\ r.h = h /\ B = A  BY <3>1
      <3> HIDE DEF B
      <3> QED  BY <1>1, <2>3, <3>2
    <2>4. CASE id \notin A
      <3> DEFINE g == [h EXCEPT !.bits = @ \cup {slot}]
      <3>1. r = [ok |-> TRUE, h |-> g]
        BY <1>1, <1>5, <2>2, <2>4 DEF CheckNear, r
      <3>2. slot \in Slots  BY <2>1, SlotValue DEF Slots
      <3>3. g = [base |-> h.base, bits |-> h.bits \cup {slot}, index |-> h.index]
        BY <1>1
      <3>4. g \in History  BY <1>1, <3>2, <3>3 DEF History
      <3> HIDE DEF g
      <3>9. r.ok = TRUE /\ r.h = g /\ B = A \cup {id}  BY <3>1
      <3> HIDE DEF B
      <3>5. ASSUME NEW s \in Slots
            PROVE  Slot(g, s) \in g.bits <=> g.base + 1 + s \in B
        <4>1. Slot(g, s) = Slot(h, s)  BY <3>3 DEF Slot
        <4>2. Slot(h, s) = slot <=> s = shift  BY <2>1, SlotInjective
        <4>3. h.base + 1 + s = id <=> s = shift  BY <1>1, <2>1 DEF Slots
        <4> QED  BY <1>3, <3>3, <3>9, <4>1, <4>2, <4>3
      <3>6. \A a \in B : a <= g.base + N  BY <1>1, <1>2, <3>3, <3>9
      <3>7. Exact(g, B)  BY <3>5, <3>6 DEF Exact
      <3>8. g.base \notin B  BY <1>1, <1>5, <3>3, <3>9
      <3>10. g.base = h.base /\ g.base <= MaxTicket + 1  BY <3>3
      <3> QED  BY <2>4, <3>4, <3>7, <3>8, <3>9, <3>10
    <2> QED  BY <2>3, <2>4
  <1> QED  BY <1>1, <1>4, <1>5
-----------------------------------------------------------------------------
\* The inductive invariant: the layout and the exact window.
WindowInv == HistoryTypeOK /\ WindowExact

\* The parts of WindowExact in the form the lemmas take them.
LEMMA WindowExactIsExact ==
  WindowExact <=>
    /\ history.base <= MaxTicket + 1
    /\ history.base \notin accepted
    /\ Exact(history, accepted)
    /\ \A id \in Ticket : id < history.base /\ id \notin accepted
         => \E a \in accepted : id + TICKETS_SIZE < a
  BY DEF WindowExact, Exact

\* What one call of tickets_check does from a state of the invariant.
LEMMA CheckAnswers ==
  ASSUME WindowInv, NEW id \in Ticket
  PROVE  LET r == tickets_check(history, id)
             B == IF r.ok THEN accepted \cup {id} ELSE accepted IN
         /\ r.ok \in BOOLEAN
         /\ r.ok => id \notin accepted
         /\ ~r.ok => \/ id \in accepted
                     \/ \E a \in accepted : id + TICKETS_SIZE < a
         /\ r.h \in History
         /\ r.h.base <= MaxTicket + 1
         /\ r.h.base \notin B
         /\ Exact(r.h, B)
         /\ \A i \in Ticket : i < r.h.base /\ i \notin B
              => \E a \in B : i + TICKETS_SIZE < a
  <1> DEFINE h == history
             A == accepted
             r == tickets_check(h, id)
             B == IF r.ok THEN A \cup {id} ELSE A
             Goal == /\ r.ok \in BOOLEAN
                     /\ r.ok => id \notin A
                     /\ ~r.ok => \/ id \in A
                                 \/ \E a \in A : id + TICKETS_SIZE < a
                     /\ r.h \in History
                     /\ r.h.base <= MaxTicket + 1
                     /\ r.h.base \notin B
                     /\ Exact(r.h, B)
                     /\ \A i \in Ticket : i < r.h.base /\ i \notin B
                          => \E a \in B : i + TICKETS_SIZE < a
  <1> SUFFICES Goal  OBVIOUS
  <1>1. /\ h \in History /\ A \subseteq Ticket
        /\ h.base <= MaxTicket + 1
        /\ h.base \notin A
        /\ Exact(h, A)
        /\ \A i \in Ticket : i < h.base /\ i \notin A
             => \E a \in A : i + TICKETS_SIZE < a
    BY WindowExactIsExact DEF WindowInv, HistoryTypeOK
  <1>2. h.base \in Nat /\ id \in Nat /\ id <= MaxTicket
    BY <1>1 DEF History, Ticket
  <1> HIDE DEF h, A, r
  <1>3. CASE ~Near(h, id)
    <2> DEFINE g == Skip(h, id)
    <2>1. /\ g \in History
          /\ g.base <= MaxTicket
          /\ g.base \notin A
          /\ Exact(g, A)
          /\ g.base <= id /\ Near(g, id) /\ id \notin A
          /\ \A i \in Nat : i < g.base /\ i \notin A => i + TICKETS_SIZE < id
      BY <1>1, <1>3, SkipMovesWindow
    <2>2. r = CheckNear(g, id)  BY <1>3 DEF tickets_check, r
    <2> HIDE DEF g
    <2>3. g.base \in Nat  BY <2>1 DEF History
    <2>4. g.base <= MaxTicket + 1  BY <2>1, <2>3
    <2>5. /\ r.ok = (id \notin A)
          /\ r.h \in History
          /\ r.h.base <= MaxTicket + 1
          /\ r.h.base \notin B
          /\ Exact(r.h, B)
          /\ \A i \in Nat : i < r.h.base /\ i \notin B => i < g.base
      BY <1>1, <2>1, <2>2, <2>4, CheckNearAnswers
    <2>6. r.ok = TRUE /\ B = A \cup {id}  BY <2>1, <2>5
    <2> HIDE DEF B
    <2>7. ASSUME NEW i \in Ticket, i < r.h.base, i \notin B
          PROVE  \E a \in B : i + TICKETS_SIZE < a
      <3>1. i \in Nat  BY DEF Ticket
      <3>2. i < g.base /\ i \notin A  BY <2>5, <2>6, <2>7, <3>1
      <3>3. i + TICKETS_SIZE < id  BY <2>1, <3>1, <3>2
      <3> QED  BY <2>6, <3>3
    <2> QED  BY <2>1, <2>5, <2>6, <2>7
  <1>4. CASE Near(h, id) /\ id < h.base
    <2>1. r = [ok |-> FALSE, h |-> h]
      BY <1>2, <1>4 DEF tickets_check, CheckNear, r
    <2>2. r.ok = FALSE /\ r.h = h /\ B = A  BY <2>1
    <2> HIDE DEF B
    <2>3. id \in A \/ \E a \in A : id + TICKETS_SIZE < a  BY <1>1, <1>4
    <2> QED  BY <1>1, <2>2, <2>3
  <1>5. CASE Near(h, id) /\ h.base <= id
    <2>1. r = CheckNear(h, id)  BY <1>5 DEF tickets_check, r
    <2>2. /\ r.ok = (id \notin A)
          /\ r.h \in History
          /\ r.h.base <= MaxTicket + 1
          /\ r.h.base \notin B
          /\ Exact(r.h, B)
          /\ \A i \in Nat : i < r.h.base /\ i \notin B => i < h.base
      BY <1>1, <1>5, <2>1, CheckNearAnswers
    <2>3. A \subseteq B  OBVIOUS
    <2> HIDE DEF B
    <2>4. ASSUME NEW i \in Ticket, i < r.h.base, i \notin B
          PROVE  \E a \in B : i + TICKETS_SIZE < a
      <3>1. i \in Nat  BY DEF Ticket
      <3>2. i < h.base /\ i \notin A  BY <2>2, <2>3, <2>4, <3>1
      <3> QED  BY <1>1, <2>3, <3>2
    <2> QED  BY <2>2, <2>4
  <1> QED  BY <1>2, <1>3, <1>4, <1>5

\* The initial history is an exact window of no ticket.
LEMMA WindowInit == HistoryInit => WindowInv
  <1> SUFFICES ASSUME HistoryInit  PROVE WindowInv  OBVIOUS
  <1>1. HistoryTypeOK
    BY DEF HistoryInit, tickets_init, HistoryTypeOK, History, Slots, Ticket
  <1>2. WindowExact
    BY DEF HistoryInit, tickets_init, WindowExact, Ticket
  <1> QED  BY <1>1, <1>2 DEF WindowInv

\* Every call of tickets_check keeps the window exact.
LEMMA WindowNext == WindowInv /\ [HistoryNext]_historyVars => WindowInv'
  <1> SUFFICES ASSUME WindowInv, [HistoryNext]_historyVars  PROVE WindowInv'  OBVIOUS
  <1>1. ASSUME NEW id \in Ticket, Check(id)  PROVE WindowInv'
    <2> DEFINE r == tickets_check(history, id)
    <2>1. /\ history' = r.h
          /\ accepted' = IF r.ok THEN accepted \cup {id} ELSE accepted
          /\ verdict' = [id |-> id, ok |-> r.ok]
      BY <1>1 DEF Check
    <2>2. /\ r.ok \in BOOLEAN
          /\ history' \in History
          /\ history'.base <= MaxTicket + 1
          /\ history'.base \notin accepted'
          /\ Exact(history', accepted')
          /\ \A i \in Ticket : i < history'.base /\ i \notin accepted'
               => \E a \in accepted' : i + TICKETS_SIZE < a
      <3> HIDE DEF r
      <3> QED  BY <2>1, CheckAnswers DEF r
    <2> HIDE DEF r
    <2>3. HistoryTypeOK'
      <3>1. accepted' \subseteq Ticket
        BY <2>1 DEF WindowInv, HistoryTypeOK
      <3>2. verdict' \in [id : Ticket, ok : BOOLEAN]
        BY <2>1, <2>2
      <3> QED  BY <2>2, <3>1, <3>2 DEF HistoryTypeOK
    <2>4. WindowExact'
      BY <2>2 DEF WindowExact, Exact, Slot, Ticket, Slots
    <2> QED  BY <2>3, <2>4 DEF WindowInv
  <1>2. CASE UNCHANGED historyVars
    BY <1>2 DEF WindowInv, HistoryTypeOK, WindowExact, historyVars, History, Slot, Slots, Ticket
  <1> QED  BY <1>1, <1>2 DEF HistoryNext

\* The history keeps its layout and its bitmap is exact, whatever the order in
\* which tickets arrive.
THEOREM WindowExactHolds == HistorySpec => [](HistoryTypeOK /\ WindowExact)
  <1>1. WindowInv => HistoryTypeOK /\ WindowExact  BY DEF WindowInv
  <1> QED  BY WindowInit, WindowNext, <1>1, PTL DEF HistorySpec

\* tickets_check recurs at most once on any reachable history.
THEOREM OneRecursiveCallHolds == HistorySpec => []OneRecursiveCall
  <1>1. WindowInv => OneRecursiveCall
    <2> SUFFICES ASSUME WindowInv, NEW id \in Ticket, ~Near(history, id)
                 PROVE  /\ Near(Skip(history, id), id)
                        /\ id >= Skip(history, id).base
      BY DEF OneRecursiveCall
    <2>1. /\ history \in History /\ accepted \subseteq Ticket
          /\ Exact(history, accepted)
      BY WindowExactIsExact DEF WindowInv, HistoryTypeOK
    <2> DEFINE g == Skip(history, id)
    <2>2. g \in History /\ g.base <= id /\ Near(g, id)
      BY <2>1, SkipMovesWindow
    <2> HIDE DEF g
    <2>3. g.base \in Nat /\ id \in Nat  BY <2>2 DEF History, Ticket
    <2>4. Near(g, id) /\ id >= g.base  BY <2>2, <2>3
    <2> QED  BY <2>4 DEF g
  <1> QED  BY WindowInit, WindowNext, <1>1, PTL DEF HistorySpec

\* The ticket history implements its promise: no ticket is accepted twice, and
\* a fresh ticket is refused only when it lags more than TICKETS_SIZE behind.
THEOREM AtMostOnceHolds == HistorySpec => AtMostOnce
  <1>1. HistoryInit => Promise!Init  BY DEF HistoryInit, Promise!Init
  <1>2. WindowInv /\ [HistoryNext]_historyVars => [Promise!Next]_<<accepted, verdict>>
    <2> SUFFICES ASSUME WindowInv, [HistoryNext]_historyVars
                 PROVE  [Promise!Next]_<<accepted, verdict>>
      OBVIOUS
    <2>1. ASSUME NEW id \in Ticket, Check(id)
          PROVE  Promise!Next
      <3> DEFINE r == tickets_check(history, id)
      <3>1. /\ accepted' = IF r.ok THEN accepted \cup {id} ELSE accepted
            /\ verdict' = [id |-> id, ok |-> r.ok]
        BY <2>1 DEF Check
      <3>2. /\ r.ok \in BOOLEAN
            /\ r.ok => id \notin accepted
            /\ ~r.ok => \/ id \in accepted
                        \/ \E a \in accepted : id + TICKETS_SIZE < a
        BY CheckAnswers
      <3> HIDE DEF r
      <3>3. CASE r.ok = TRUE
        <4>1. Promise!Accept(id)  BY <3>1, <3>2, <3>3 DEF Promise!Accept
        <4> QED  BY <4>1 DEF Promise!Next, Promise!Ticket, Ticket
      <3>4. CASE r.ok = FALSE
        <4>1. Promise!Refuse(id)
          BY <3>1, <3>2, <3>4 DEF Promise!Refuse, Promise!TooOld
        <4> QED  BY <4>1 DEF Promise!Next, Promise!Ticket, Ticket
      <3> QED  BY <3>2, <3>3, <3>4
    <2>2. CASE UNCHANGED historyVars  BY <2>2 DEF historyVars
    <2> QED  BY <2>1, <2>2 DEF HistoryNext
  <1> QED
    BY WindowInit, WindowNext, <1>1, <1>2, PTL
    DEF HistorySpec, AtMostOnce, Promise!Spec, Promise!specVars
=============================================================================
