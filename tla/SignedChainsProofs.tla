------------------------- MODULE SignedChainsProofs -------------------------
(***************************************************************************)
(* The chains that requests carry and the table in which answers find      *)
(* their requests: every run's invariants of SignedChains.tla, for any     *)
(* number of threads, logins, chains and ids.                              *)
(***************************************************************************)
EXTENDS SignedChains, TLAPS

\* What a thread may have joined: of one protocol at most.
Joinable ==
  {j \in [Protocol -> Lineage \cup {Unsigned}] :
     \E p \in Protocol : j[p] = Unsigned}

\* Steps before a request has its chain, at which a chain is looked for, and at
\* which one is carried.
Unsigning == {"idle", "get_login", "get_session", "lookup", "sign", "signing"}
Keyed == {"sign", "signing", "insert"}
Carrying == {"insert", "sent", "check", "dispatched"}

\* ProtocolOf, of a request r in a thread that has joined j.
ProtocolFor(r, j) ==
  IF r.session.is_legacy \/ is_legacy(j) THEN Legacy ELSE Current

\* What a request knows of itself, by step: its login, its session and the key
\* under which its chain is looked for.
Formed(step, r, j) ==
  /\ step \notin {"idle", "get_login"} => r.login \in ClientLogin
  /\ step \in Unsigning => r.chain = NoChain
  /\ step \in Keyed \cup {"lookup"} => r.session \in Session
  /\ step \in Keyed =>
       /\ r.key \in Key
       /\ r.key.protocol = ProtocolFor(r, j)
       /\ r.key.login = r.login /\ r.key.remote = r.session.remote
       /\ r.key.protocol = Current => r.key.signature = LineageOf(j)
  /\ step = "signing" => r.nested \in ClientLogin
  /\ step = "insert" => r.chain \in Chain

\* Its chain is for the entity of its session and continues what is joined.
Chained(step, r, j) ==
  /\ step = "sent" /\ r.session # NoSession => r.chain # NoChain
  /\ step \in {"check", "dispatched"} => r.chain # NoChain
  /\ step \in Carrying /\ r.chain # NoChain =>
       /\ r.chain.target = entity[r.session.remote]
       /\ ProtocolFor(r, j) = Current => r.chain.origin = LineageOf(j)

\* Its login was issued, and while it is the connection's the chain is signed
\* for it.
Dated(step, r) ==
  /\ r.login \in used \cup {NoLogin}
  /\ step = "signing" /\ r.login = clientLogin => r.nested = clientLogin
  /\ r.chain # NoChain /\ r.login = clientLogin => r.chain.caller = clientLogin

Fits(step, r, j) ==
  /\ step \in Step /\ r \in Request
  /\ Formed(step, r, j) /\ Chained(step, r, j) /\ Dated(step, r)

RequestInv ==
  /\ joined \in [Thread -> Joinable]
  /\ pc \in [Thread -> Step] /\ req \in [Thread -> Request]
  /\ \A t \in Thread : Fits(pc[t], req[t], joined[t])

\* What is kept was signed for the login, the entity and the chain of its key.
Kept(k, c) ==
  c # NoChain =>
    /\ k.login \in used
    /\ k.login = clientLogin => c.caller = clientLogin
    /\ c.target = entity[k.remote]
    /\ k.protocol = Current => c.origin = k.signature
CacheInv ==
  /\ cache \in [Key -> Chain \cup {NoChain}]
  /\ \A k \in Key : Kept(k, cache[k])

StateTypes ==
  /\ up \subseteq {"client", "server"}
  /\ clientLogin \in ClientLogin \cup {NoLogin}
  /\ serverLogin \in ServerLogin \cup {NoLogin}
  /\ session \in Session \cup {NoSession}
  /\ calls \in [Thread -> 0 .. MaxCalls] /\ redirects \in 0 .. MaxRedirects
  /\ used \subseteq ClientLogin \cup ServerLogin
  /\ clientLogin \in used \cup {NoLogin}

TableInv ==
  /\ table \subseteq Thread \X Id /\ leaked \subseteq Thread \X Id
  /\ slot \in [Thread -> Id \cup {Nil}]
  /\ \A t \in Thread : pc[t] \in Waiting => <<t, slot[t]>> \in table \ leaked
  /\ \A e \in table \ leaked :
       \E t \in Thread : pc[t] \in Waiting /\ e = <<t, slot[t]>>
  /\ leaked \subseteq table

\* The inductive invariant.
IInv == StateTypes /\ RequestInv /\ CacheInv /\ TableInv
-----------------------------------------------------------------------------
\* The chains that a thread can join.
LEMMA DecodedChain ==
  ASSUME NEW c \in [Protocol -> Lineage \cup {Unsigned}],
         decodeChain(encodeChain(c)) \notin Failure
  PROVE  decodeChain(encodeChain(c)) \in [Protocol -> Lineage \cup {Unsigned}]
  <1> DEFINE versions == << [version |-> Legacy, encoded |-> c[Legacy]],
                            [version |-> Current, encoded |-> c[Current]] >>
             i == CHOOSE n \in Known(versions) :
                    \A m \in Known(versions) : n <= m
  <1>1. Reads(encodeChain(c), ChainTag) \in {versions} \cup Failure
    BY DEF Reads, encodeChain, encode_exported_versions, Failure
  <1>2. CASE Reads(encodeChain(c), ChainTag) \in Failure
    BY <1>2 DEF decodeChain
  <1>3. CASE Reads(encodeChain(c), ChainTag) = versions /\ versions \notin Failure
    <2>1. Known(versions) = {1, 2}  BY DEF Known, Protocol
    <2>2. i \in {1, 2}  BY <2>1
    <2>3. /\ versions[i].version \in Protocol
          /\ versions[i].encoded \in Lineage \cup {Unsigned}
      <3> HIDE DEF i
      <3> QED  BY <2>2 DEF Protocol
    <2>4. decodeChain(encodeChain(c))
            \in {CodecFailure, OnlyIn(versions[i].version, versions[i].encoded)}
      <3> HIDE DEF versions
      <3> QED  BY <1>3, <2>1 DEF decodeChain
    <2> HIDE DEF versions, i
    <2> QED  BY <2>3, <2>4 DEF OnlyIn, Failure
  <1> QED  BY <1>1, <1>2, <1>3

LEMMA JoinedChain ==
  ASSUME NEW lineage \in Lineage, NEW chain \in ChainsOf(lineage)
  PROVE  joinChain(chain) \in Joinable
  <1>1. /\ makeChainFor(lineage) \in [Protocol -> Lineage \cup {Unsigned}]
        /\ importChain(lineage) \in [Protocol -> Lineage \cup {Unsigned}]
        /\ legacyCallChain(lineage) \in [Protocol -> Lineage \cup {Unsigned}]
    BY DEF makeChainFor, importChain, legacyCallChain, OnlyIn
  <1>2. chain \in [Protocol -> Lineage \cup {Unsigned}]
    BY <1>1, DecodedChain DEF ChainsOf
  <1>3. ASSUME NEW p \in Protocol, NEW data \in Lineage \cup {Unsigned}
        PROVE  OnlyIn(p, data) \in Joinable
    BY ExportAssumption DEF OnlyIn, Joinable, Protocol
  <1>4. Current \in Protocol /\ Legacy \in Protocol  BY DEF Protocol
  <1> QED  BY <1>2, <1>3, <1>4 DEF joinChain

LEMMA NoneJoinable == NoneJoined \in Joinable
  BY DEF NoneJoined, Joinable, Protocol

LEMMA NoChainKept == NoChain \notin Chain /\ NoSession \notin Session
  <1>1. NoLogin \notin ClientLogin \cup ServerLogin  BY ChainAssumption
  <1> QED  BY <1>1 DEF NoChain, Chain, NoSession, Session
-----------------------------------------------------------------------------
\* A step of a thread: where it goes, and what its request becomes.
Moves(t, step, r) ==
  /\ pc' = [pc EXCEPT ![t] = step]
  /\ req' = [req EXCEPT ![t] = r]

LEMMA MovesFits ==
  ASSUME RequestInv, NEW t \in Thread, NEW step, NEW r, Moves(t, step, r),
         Fits(step, r, joined[t]), UNCHANGED <<joined, clientLogin, used>>
  PROVE  RequestInv'
  <1>1. step \in Step /\ r \in Request  BY DEF Fits
  <1>2. ASSUME NEW u \in Thread
        PROVE  Fits(pc[u], req[u], joined[u])'
    <2>1. CASE u = t
      BY <2>1 DEF RequestInv, Moves, Fits, Dated
    <2>2. CASE u # t
      BY <2>2 DEF RequestInv, Moves, Fits, Dated
    <2> QED  BY <2>1, <2>2
  <1> QED  BY <1>1, <1>2 DEF RequestInv, Moves

LEMMA StaysFits ==
  ASSUME RequestInv, UNCHANGED <<pc, req, joined, clientLogin, used>>
  PROVE  RequestInv'
  BY DEF RequestInv, Fits, Dated

LEMMA Own ==
  ASSUME RequestInv, NEW t \in Thread
  PROVE  /\ Fits(pc[t], req[t], joined[t]) /\ joined[t] \in Joinable
         /\ pc[t] \in Step /\ req[t] \in Request
         /\ ProtocolOf(t) = ProtocolFor(req[t], joined[t])
  BY DEF RequestInv, ProtocolOf, ProtocolFor

\* A request that is over, or has only begun.
LEMMA NothingFits ==
  ASSUME NEW j, NEW step \in {"idle", "get_login"}
  PROVE  Fits(step, NoRequest, j)
  <1>1. NoRequest \in Request
    BY DEF NoRequest, Request
  <1> QED
    BY <1>1 DEF Fits, Formed, Chained, Dated, NoRequest, Step, Waiting,
                Unsigning, Keyed, Carrying

LEMMA LeaveMoves ==
  ASSUME NEW t, NEW step, Leave(t, step)
  PROVE  Moves(t, step, NoRequest)
  BY DEF Leave, Goto, Moves

LEMMA GotoMoves ==
  ASSUME RequestInv, NEW t \in Thread, NEW step, Goto(t, step), UNCHANGED req
  PROVE  Moves(t, step, req[t])
  BY DEF Goto, Moves, RequestInv

LEMMA LeaveFits ==
  ASSUME RequestInv, NEW t \in Thread, NEW step \in {"idle", "get_login"},
         Leave(t, step), UNCHANGED <<joined, clientLogin, used>>
  PROVE  RequestInv'
  BY LeaveMoves, NothingFits, MovesFits

\* What is registered has its session and, in a session, its chain.
LEMMA RegisterFits ==
  ASSUME RequestInv, NEW t \in Thread, NEW r \in Request, Register(t, r),
         r.login \in ClientLogin, Chained("sent", r, joined[t]),
         r.login \in used \cup {NoLogin},
         r.chain # NoChain /\ r.login = clientLogin
           => r.chain.caller = clientLogin,
         UNCHANGED <<joined, clientLogin, used>>
  PROVE  RequestInv'
  <1> DEFINE q == [r EXCEPT !.key = NoKey, !.nested = NoLogin]
  <1>1. Moves(t, "sent", q)  BY DEF Register, Goto, Moves
  <1>2. /\ q \in Request
        /\ q.login = r.login /\ q.session = r.session /\ q.chain = r.chain
    BY DEF Request
  <1> HIDE DEF q
  <1>3. Fits("sent", q, joined[t])
    BY <1>2 DEF Fits, Formed, Chained, Dated, Step, Waiting, Unsigning, Keyed,
                Carrying, ProtocolFor
  <1> QED  BY <1>1, <1>3, MovesFits
-----------------------------------------------------------------------------
\* The requests, through every action: in the client, ...
LEMMA BeginFits ==
  ASSUME StateTypes, RequestInv, NEW t \in Thread, Call(t) \/ GetLogin(t)
  PROVE  RequestInv'
  <1>0. /\ Fits(pc[t], req[t], joined[t]) /\ req[t] \in Request
        /\ UNCHANGED <<joined, clientLogin, used>>
    BY Own DEF Call, GetLogin, clientVars, boundVars
  <1>1. CASE Call(t)
    <2>1. Moves(t, "get_login", req[t]) /\ pc[t] = "idle"
      BY <1>1, GotoMoves DEF Call, AtClient
    <2>2. Fits("get_login", req[t], joined[t])
      BY <1>0, <2>1 DEF Fits, Formed, Chained, Dated, Step, Unsigning, Keyed,
                        Carrying
    <2> QED  BY <1>0, <2>1, <2>2, MovesFits
  <1>2. CASE GetLogin(t) /\ Leave(t, "idle")  BY <1>0, <1>2, LeaveFits
  <1>3. CASE /\ pc[t] = "get_login" /\ clientLogin # NoLogin
             /\ Goto(t, "get_session")
             /\ req' = [req EXCEPT ![t].login = clientLogin]
    <2> DEFINE r == [req[t] EXCEPT !.login = clientLogin]
    <2>1. req' = [req EXCEPT ![t] = r]  BY <1>3
    <2>2. /\ r \in Request /\ r.login = clientLogin /\ r.chain = req[t].chain
      BY <1>0 DEF Request, StateTypes
    <2> HIDE DEF r
    <2>3. Moves(t, "get_session", r)  BY <1>3, <2>1 DEF Moves, Goto
    <2>4. r.chain = NoChain
      BY <1>0, <1>3, <2>2 DEF Fits, Formed, Unsigning
    <2>5. Fits("get_session", r, joined[t])
      BY <1>3, <2>2, <2>4 DEF Fits, Formed, Chained, Dated, Step, Unsigning,
                              Keyed, Carrying, StateTypes
    <2> QED  BY <1>0, <2>3, <2>5, MovesFits
  <1> QED  BY <1>1, <1>2, <1>3 DEF GetLogin, AtClient

LEMMA GetSessionFits ==
  ASSUME StateTypes, RequestInv, NEW t \in Thread, GetSession(t)
  PROVE  RequestInv'
  <1> DEFINE r == [req[t] EXCEPT !.session = session]
  <1>0. /\ Fits("get_session", req[t], joined[t]) /\ req[t] \in Request
        /\ UNCHANGED <<joined, clientLogin, used>>
    BY Own DEF GetSession, AtClient, clientVars, boundVars
  <1>1. /\ r \in Request /\ r.session = session /\ r.login = req[t].login
        /\ r.chain = req[t].chain
    BY <1>0 DEF Request, StateTypes
  <1>2. /\ r.chain = NoChain /\ r.login \in ClientLogin
        /\ r.login \in used \cup {NoLogin}
    BY <1>0, <1>1 DEF Fits, Formed, Dated, Unsigning
  <1>3. \/ session = NoSession /\ Register(t, r)
        \/ session # NoSession /\ Moves(t, "lookup", r)
    BY DEF GetSession, Moves, Goto
  <1> HIDE DEF r
  <1>4. CASE session = NoSession /\ Register(t, r)
    <2>1. Chained("sent", r, joined[t])
      BY <1>1, <1>2, <1>4 DEF Chained
    <2> QED  BY <1>0, <1>1, <1>2, <1>4, <2>1, RegisterFits
  <1>5. CASE session # NoSession /\ Moves(t, "lookup", r)
    <2>1. Fits("lookup", r, joined[t])
      BY <1>1, <1>2, <1>5 DEF Fits, Formed, Chained, Dated, Step, Unsigning,
                              Keyed, Carrying, StateTypes
    <2> QED  BY <1>0, <1>5, <2>1, MovesFits
  <1> QED  BY <1>3, <1>4, <1>5

\* The key under which a chain is looked for.
LEMMA KeyOfRequest ==
  ASSUME RequestInv, NEW t \in Thread, req[t].login \in ClientLogin,
         req[t].session \in Session, NEW signature \in SignaturesRead(t)
  PROVE  /\ KeyFor(t, signature) \in Key
         /\ KeyFor(t, signature).protocol = ProtocolFor(req[t], joined[t])
         /\ KeyFor(t, signature).login = req[t].login
         /\ KeyFor(t, signature).remote = req[t].session.remote
         /\ KeyFor(t, signature).signature = signature
         /\ ProtocolFor(req[t], joined[t]) = Current
              => signature = LineageOf(joined[t])
  <1>1. /\ ProtocolOf(t) = ProtocolFor(req[t], joined[t])
        /\ ProtocolOf(t) \in Protocol /\ joined[t] \in Joinable
    BY Own DEF ProtocolFor, Protocol
  <1>2. signature \in Lineage \cup {Unsigned, Garbage}
    BY <1>1 DEF SignaturesRead, Joinable
  <1>3. ASSUME ProtocolOf(t) = Current
        PROVE  signature = LineageOf(joined[t])
    <2>1. ~is_legacy(joined[t])
      BY <1>1, <1>3, ExportAssumption DEF ProtocolFor
    <2>2. joined[t][Legacy] = Unsigned  BY <2>1 DEF is_legacy
    <2>3. joined[t][Current] = Unsigned => joined[t] = NoneJoined
      BY <1>1, <2>2 DEF Joinable, NoneJoined, Protocol
    <2> QED  BY <1>3, <2>1, <2>3 DEF SignaturesRead, LineageOf
  <1>4. req[t].session.remote \in ServerLogin  BY DEF Session
  <1> QED  BY <1>1, <1>2, <1>3, <1>4 DEF KeyFor, Key

LEMMA LookupFits ==
  ASSUME StateTypes, RequestInv, CacheInv, NEW t \in Thread, Lookup(t)
  PROVE  RequestInv'
  <1>0. /\ Fits("lookup", req[t], joined[t]) /\ req[t] \in Request
        /\ UNCHANGED <<joined, clientLogin, used>>
    BY Own DEF Lookup, AtClient, clientVars, boundVars
  <1>1. /\ req[t].login \in ClientLogin /\ req[t].session \in Session
        /\ req[t].chain = NoChain /\ req[t].login \in used \cup {NoLogin}
    BY <1>0 DEF Fits, Formed, Dated, Unsigning, Keyed
  <1>2. PICK signature \in SignaturesRead(t) :
          \/ /\ cache[KeyFor(t, signature)] # NoChain
             /\ Register(t, [req[t] EXCEPT !.chain = cache[KeyFor(t, signature)]])
          \/ /\ req' = [req EXCEPT ![t].key = KeyFor(t, signature)]
             /\ Goto(t, "sign")
    BY DEF Lookup
  <1> DEFINE k == KeyFor(t, signature)
             c == cache[k]
             found == [req[t] EXCEPT !.chain = c]
             sought == [req[t] EXCEPT !.key = k]
  <1>3. /\ k \in Key /\ k.protocol = ProtocolFor(req[t], joined[t])
        /\ k.login = req[t].login /\ k.remote = req[t].session.remote
        /\ k.protocol = Current => k.signature = LineageOf(joined[t])
    BY <1>1, KeyOfRequest
  <1>4. Moves(t, "sign", sought) \/ (c # NoChain /\ Register(t, found))
    <2>1. CASE /\ req' = [req EXCEPT ![t].key = KeyFor(t, signature)]
               /\ Goto(t, "sign")
      <3>1. req' = [req EXCEPT ![t] = sought]  BY <2>1
      <3> QED  BY <2>1, <3>1 DEF Moves, Goto
    <2> QED  BY <1>2, <2>1
  <1> HIDE DEF k
  <1>5. c \in Chain \cup {NoChain} /\ Kept(k, c)  BY <1>3 DEF CacheInv
  <1> HIDE DEF c
  <1>6. /\ found \in Request /\ found.chain = c
        /\ found.login = req[t].login /\ found.session = req[t].session
    BY <1>0, <1>5 DEF Request
  <1>7. /\ sought \in Request /\ sought.key = k /\ sought.chain = req[t].chain
        /\ sought.login = req[t].login /\ sought.session = req[t].session
    BY <1>0, <1>3 DEF Request
  <1> HIDE DEF found, sought
  <1>8. CASE c # NoChain /\ Register(t, found)
    <2>1. Chained("sent", found, joined[t])
      BY <1>3, <1>5, <1>6, <1>8 DEF Chained, Kept, ProtocolFor
    <2>2. found.login = clientLogin => found.chain.caller = clientLogin
      BY <1>3, <1>5, <1>6, <1>8 DEF Kept
    <2> QED  BY <1>0, <1>1, <1>6, <1>8, <2>1, <2>2, RegisterFits
  <1>9. CASE Moves(t, "sign", sought)
    <2>1. Fits("sign", sought, joined[t])
      BY <1>1, <1>3, <1>7 DEF Fits, Formed, Chained, Dated, Step, Unsigning,
                              Keyed, Carrying, ProtocolFor
    <2> QED  BY <1>0, <1>9, <2>1, MovesFits
  <1> QED  BY <1>4, <1>8, <1>9

LEMMA SignFits ==
  ASSUME StateTypes, RequestInv, NEW t \in Thread, Sign(t)
  PROVE  RequestInv'
  <1>0. /\ Fits("sign", req[t], joined[t]) /\ req[t] \in Request
        /\ UNCHANGED <<joined, clientLogin, used>>
    BY Own DEF Sign, AtClient, clientVars, boundVars
  <1>1. CASE UNCHANGED requestVars
    BY <1>0, <1>1, StaysFits DEF requestVars
  <1>2. CASE Leave(t, "idle")  BY <1>0, <1>2, LeaveFits
  <1>3. CASE /\ clientLogin # NoLogin /\ Goto(t, "signing")
             /\ req' = [req EXCEPT ![t].nested = clientLogin]
    <2> DEFINE r == [req[t] EXCEPT !.nested = clientLogin]
    <2>1. req' = [req EXCEPT ![t] = r]  BY <1>3
    <2>2. /\ r \in Request /\ r.nested = clientLogin /\ r.chain = req[t].chain
          /\ r.login = req[t].login /\ r.session = req[t].session
          /\ r.key = req[t].key
      BY <1>0 DEF Request, StateTypes
    <2> HIDE DEF r
    <2>3. Moves(t, "signing", r)  BY <1>3, <2>1 DEF Moves, Goto
    <2>4. Fits("signing", r, joined[t])
      BY <1>0, <1>3, <2>2 DEF Fits, Formed, Chained, Dated, Step, Waiting,
           Unsigning, Keyed, Carrying, StateTypes, ProtocolFor
    <2> QED  BY <1>0, <2>3, <2>4, MovesFits
  <1> QED  BY <1>1, <1>2, <1>3 DEF Sign

LEMMA BusAnswersFits ==
  ASSUME StateTypes, RequestInv, NEW t \in Thread, BusAnswers(t)
  PROVE  RequestInv'
  <1>0. /\ Fits("signing", req[t], joined[t]) /\ req[t] \in Request
        /\ joined[t] \in Joinable
        /\ UNCHANGED <<joined, clientLogin, used>>
    BY Own DEF BusAnswers, AtClient, boundVars
  <1>1. CASE Leave(t, "idle")  BY <1>0, <1>1, LeaveFits
  <1>2. CASE Goto(t, "sign") /\ UNCHANGED req
    <2>1. Fits("sign", req[t], joined[t])
      BY <1>0 DEF Fits, Formed, Chained, Dated, Step, Unsigning, Keyed, Carrying
    <2> QED  BY <1>0, <1>2, <2>1, GotoMoves, MovesFits
  <1>3. CASE /\ req[t].nested = clientLogin /\ Goto(t, "insert")
             /\ req' = [req EXCEPT ![t].chain = SignedChain(t)]
    <2> DEFINE c == SignedChain(t)
               r == [req[t] EXCEPT !.chain = c]
    <2>1. req' = [req EXCEPT ![t] = r]  BY <1>3
    <2>2. /\ c \in Chain /\ c.caller = clientLogin
          /\ c.origin = LineageOf(joined[t])
          /\ c.target = entity[req[t].session.remote]
      <3>1. /\ req[t].nested \in ClientLogin
            /\ req[t].session.remote \in ServerLogin
        BY <1>0 DEF Fits, Formed, Keyed, Session
      <3>2. LineageOf(joined[t]) \in Lineage \cup {Unsigned}
        BY <1>0 DEF LineageOf, Joinable, Protocol
      <3> QED  BY <1>3, <3>1, <3>2 DEF SignedChain, Chain
    <2> HIDE DEF c
    <2>3. /\ r \in Request /\ r.chain = c
          /\ r.login = req[t].login /\ r.session = req[t].session
          /\ r.key = req[t].key
      BY <1>0, <2>2 DEF Request
    <2> HIDE DEF r
    <2>4. Moves(t, "insert", r)  BY <1>3, <2>1 DEF Moves, Goto
    <2>5. Fits("insert", r, joined[t])
      BY <1>0, <1>3, <2>2, <2>3 DEF Fits, Formed, Chained, Dated, Step,
           Waiting, Unsigning, Keyed, Carrying, ProtocolFor
    <2> QED  BY <1>0, <2>4, <2>5, MovesFits
  <1> QED  BY <1>1, <1>2, <1>3 DEF BusAnswers

LEMMA InsertFits ==
  ASSUME StateTypes, RequestInv, NEW t \in Thread, Insert(t)
  PROVE  RequestInv'
  <1>0. /\ Fits("insert", req[t], joined[t]) /\ req[t] \in Request
        /\ UNCHANGED <<joined, clientLogin, used>>
    BY Own DEF Insert, AtClient, boundVars
  <1>1. /\ Register(t, req[t]) /\ req[t].login \in ClientLogin
        /\ req[t].chain \in Chain /\ req[t].login \in used \cup {NoLogin}
        /\ req[t].login = clientLogin => req[t].chain.caller = clientLogin
    BY <1>0, NoChainKept DEF Insert, Fits, Formed, Dated
  <1>2. Chained("sent", req[t], joined[t])
    BY <1>0, <1>1, NoChainKept DEF Fits, Chained, Carrying
  <1> QED  BY <1>0, <1>1, <1>2, RegisterFits
-----------------------------------------------------------------------------
\* ... in the server, and in the client again.
LEMMA ResetFits ==
  ASSUME StateTypes, RequestInv, NEW t \in Thread, Reset(t),
         pc[t] \in {"sent", "check"}, serverLogin # NoLogin,
         UNCHANGED <<joined, clientLogin, used>>
  PROVE  RequestInv'
  <1> DEFINE s == [login |-> req[t].login, remote |-> serverLogin,
                   is_legacy |-> /\ req[t].session # NoSession
                                 /\ ProtocolOf(t) = Legacy]
             r == [req[t] EXCEPT !.session = s]
  <1>0. Fits(pc[t], req[t], joined[t]) /\ req[t] \in Request  BY Own
  <1>1. req' = [req EXCEPT ![t] = r]  BY DEF Reset
  <1>2. req[t].login \in ClientLogin  BY <1>0 DEF Fits, Formed
  <1>3. s \in Session  BY <1>2 DEF Session, StateTypes
  <1> HIDE DEF s
  <1>4. /\ r \in Request /\ r.login = req[t].login /\ r.chain = req[t].chain
    BY <1>0, <1>3 DEF Request
  <1> HIDE DEF r
  <1>5. Moves(t, "reset", r)  BY <1>1 DEF Moves, Reset, Goto
  <1>6. Fits("reset", r, joined[t])
    BY <1>0, <1>2, <1>4 DEF Fits, Formed, Chained, Dated, Step, Waiting,
         Unsigning, Keyed, Carrying
  <1> QED  BY <1>5, <1>6, MovesFits

LEMMA ServerFits ==
  ASSUME StateTypes, RequestInv, NEW t \in Thread,
         Authenticate(t) \/ CheckChain(t)
  PROVE  RequestInv'
  <1>0. /\ Fits(pc[t], req[t], joined[t]) /\ req[t] \in Request
        /\ UNCHANGED <<joined, clientLogin, used>>
        /\ pc[t] \in {"sent", "check"}
    BY Own DEF Authenticate, CheckChain, AtServer, clientVars, boundVars
  <1>1. CASE UNCHANGED requestVars
    BY <1>0, <1>1, StaysFits DEF requestVars
  <1>2. CASE Leave(t, "idle") \/ Leave(t, "get_login")
    BY <1>0, <1>2, LeaveFits
  <1>3. CASE serverLogin # NoLogin /\ Reset(t)  BY <1>0, <1>3, ResetFits
  <1>4. CASE /\ pc[t] = "sent" /\ serverLogin # NoLogin
             /\ req[t].session.remote = serverLogin
             /\ Goto(t, "check") /\ UNCHANGED req
    <2>1. req[t].session # NoSession  BY <1>4 DEF NoSession
    <2>2. Fits("check", req[t], joined[t])
      BY <1>0, <1>4, <2>1 DEF Fits, Formed, Chained, Dated, Step, Waiting,
           Unsigning, Keyed, Carrying
    <2> QED  BY <1>0, <1>4, <2>2, GotoMoves, MovesFits
  <1>5. CASE pc[t] = "check" /\ Goto(t, "dispatched") /\ UNCHANGED req
    <2>1. Fits("dispatched", req[t], joined[t])
      BY <1>0, <1>5 DEF Fits, Formed, Chained, Dated, Step, Waiting,
           Unsigning, Keyed, Carrying
    <2> QED  BY <1>0, <1>5, <2>1, GotoMoves, MovesFits
  <1>6. CASE Authenticate(t)
    BY <1>2, <1>3, <1>4, <1>6 DEF Authenticate, AtServer
  <1>7. CASE CheckChain(t)
    BY <1>1, <1>2, <1>3, <1>5, <1>7 DEF CheckChain, AtServer
  <1> QED  BY <1>6, <1>7

LEMMA EndFits ==
  ASSUME RequestInv, NEW t \in Thread,
         Answer(t) \/ InvalidCredential(t) \/ Redirect(t)
  PROVE  RequestInv'
  <1>1. UNCHANGED <<joined, clientLogin, used>>
    BY DEF Answer, InvalidCredential, Redirect, clientVars, boundVars
  <1>2. Leave(t, "idle") \/ Leave(t, "get_login")
    BY DEF Answer, InvalidCredential, Redirect
  <1> QED  BY <1>1, <1>2, LeaveFits

LEMMA JoinFits ==
  ASSUME RequestInv, NEW t \in Thread, Join(t)
  PROVE  RequestInv'
  <1>1. PICK j \in Joinable : joined' = [joined EXCEPT ![t] = j]
    BY JoinedChain, NoneJoinable DEF Join
  <1>2. /\ UNCHANGED <<pc, req, clientLogin, used>> /\ pc[t] = "idle"
    BY DEF Join, AtClient, requestVars, clientVars, boundVars
  <1>3. ASSUME NEW u \in Thread
        PROVE  Fits(pc[u], req[u], joined[u])'
    <2>1. CASE u = t
      <3>1. Fits("idle", req[t], joined[t])  BY <1>2, Own
      <3>2. Fits("idle", req[t], j)
        BY <3>1 DEF Fits, Formed, Chained, Keyed, Carrying, Unsigning
      <3> QED  BY <1>1, <1>2, <2>1, <3>2 DEF RequestInv, Fits, Dated
    <2>2. CASE u # t  BY <1>1, <1>2, <2>2 DEF RequestInv, Fits, Dated
    <2> QED  BY <2>1, <2>2
  <1> QED  BY <1>1, <1>2, <1>3 DEF RequestInv

\* A login is never issued twice: no request has the new one.
LEMMA LoginFits ==
  ASSUME StateTypes, RequestInv, ClientLogsOut \/ ClientLogsIn
  PROVE  RequestInv'
  <1>0. NoLogin \notin ClientLogin \cup ServerLogin  BY ChainAssumption
  <1>1. UNCHANGED <<pc, req, joined>>
    BY DEF ClientLogsOut, ClientLogsIn, requestVars
  <1>2. /\ used \subseteq used'
        /\ clientLogin' \notin used \/ clientLogin' = NoLogin
    BY <1>0 DEF ClientLogsOut, ClientLogsIn, boundVars
  <1>3. clientLogin' \in ClientLogin \cup {NoLogin}
    BY DEF ClientLogsOut, ClientLogsIn
  <1>4. ASSUME NEW u \in Thread
        PROVE  Fits(pc[u], req[u], joined[u])'
    <2>1. Fits(pc[u], req[u], joined[u])  BY Own
    <2>2. Dated(pc[u], req[u])'
      <3>1. CASE req[u].login = NoLogin
        <4>1. pc[u] \in {"idle", "get_login"}
          BY <1>0, <2>1, <3>1 DEF Fits, Formed
        <4>2. req[u].chain = NoChain /\ pc[u] # "signing"
          BY <2>1, <4>1 DEF Fits, Formed, Unsigning
        <4> QED  BY <1>1, <3>1, <4>2 DEF Dated
      <3>2. CASE req[u].login \in used /\ req[u].login # NoLogin
        BY <1>1, <1>2, <3>2 DEF Dated
      <3> QED  BY <2>1, <3>1, <3>2 DEF Fits, Dated
    <2> QED  BY <1>1, <2>1, <2>2 DEF Fits
  <1> QED  BY <1>1, <1>4 DEF RequestInv

LEMMA RequestNext ==
  ASSUME IInv, [Next]_vars
  PROVE  RequestInv'
  <1>0. StateTypes /\ RequestInv /\ CacheInv  BY DEF IInv
  <1>1. ASSUME NEW t \in Thread,
               Join(t) \/ Call(t) \/ Continue(t) \/ Redirect(t)
        PROVE  RequestInv'
    BY <1>0, <1>1, JoinFits, BeginFits, GetSessionFits, LookupFits, SignFits,
       BusAnswersFits, InsertFits, ServerFits, EndFits DEF Continue
  <1>2. CASE ServerLogsOut \/ ServerLogsIn
    <2>1. UNCHANGED <<pc, req, joined, clientLogin>> /\ used \subseteq used'
      BY <1>2 DEF ServerLogsOut, ServerLogsIn, requestVars, clientVars, boundVars
    <2> QED  BY <1>0, <2>1 DEF RequestInv, Fits, Dated
  <1>3. CASE UNCHANGED vars
    <2>1. UNCHANGED <<pc, req, joined, clientLogin, used>>
      BY <1>3 DEF vars, requestVars, clientVars, boundVars
    <2> QED  BY <1>0, <2>1, StaysFits
  <1> QED  BY <1>0, <1>1, <1>2, <1>3, LoginFits DEF Next
-----------------------------------------------------------------------------
\* The cache of chains.
LEMMA CacheNext ==
  ASSUME IInv, [Next]_vars
  PROVE  CacheInv'
  <1>0. /\ StateTypes /\ RequestInv /\ CacheInv
        /\ NoLogin \notin ClientLogin \cup ServerLogin
    BY ChainAssumption DEF IInv
  <1>1. ASSUME NEW t \in Thread, Insert(t)
        PROVE  CacheInv'
    <2> DEFINE k == req[t].key
               c == req[t].chain
    <2>1. Fits("insert", req[t], joined[t])
      BY <1>0, <1>1, Own DEF Insert, AtClient
    <2>2. /\ cache' = [cache EXCEPT ![k] = c]
          /\ UNCHANGED <<clientLogin, used>>
      BY <1>1 DEF Insert, boundVars
    <2>3. /\ k \in Key /\ c \in Chain
          /\ k.login = req[t].login /\ k.remote = req[t].session.remote
          /\ k.protocol = ProtocolFor(req[t], joined[t])
          /\ k.protocol = Current => k.signature = LineageOf(joined[t])
          /\ k.login \in ClientLogin
      BY <2>1 DEF Fits, Formed, Keyed
    <2>4. Kept(k, c)
      BY <1>0, <2>1, <2>3 DEF Fits, Chained, Dated, Carrying, Kept
    <2> HIDE DEF k, c
    <2>5. ASSUME NEW m \in Key
          PROVE  Kept(m, cache[m])'
      <3>1. cache'[m] = IF m = k THEN c ELSE cache[m]
        BY <1>0, <2>2, <2>3 DEF CacheInv
      <3>2. Kept(m, cache'[m])
        BY <1>0, <2>4, <3>1 DEF CacheInv
      <3> QED  BY <2>2, <3>2 DEF Kept
    <2> QED  BY <1>0, <2>2, <2>3, <2>5 DEF CacheInv
  <1>2. CASE ClientLogsOut
    <2>1. cache' = [k \in Key |-> NoChain]  BY <1>2 DEF ClientLogsOut
    <2> QED  BY <2>1 DEF CacheInv, Kept
  <1>3. CASE ClientLogsIn
    <2>1. /\ UNCHANGED cache /\ used \subseteq used'
          /\ clientLogin' \notin used
      BY <1>3 DEF ClientLogsIn
    <2> QED  BY <1>0, <2>1 DEF CacheInv, Kept
  <1>4. CASE /\ UNCHANGED <<cache, clientLogin>> /\ used \subseteq used'
    BY <1>0, <1>4 DEF CacheInv, Kept
  <1>5. ASSUME NEW t \in Thread,
               \/ Join(t) \/ Call(t) \/ GetLogin(t) \/ GetSession(t)
               \/ Lookup(t) \/ Sign(t) \/ BusAnswers(t) \/ Authenticate(t)
               \/ CheckChain(t) \/ Answer(t) \/ InvalidCredential(t)
               \/ Redirect(t)
        PROVE  UNCHANGED <<cache, clientLogin, used>>
    BY <1>5 DEF Join, Call, GetLogin, GetSession, Lookup, Sign, BusAnswers,
                Authenticate, CheckChain, Answer, InvalidCredential, Redirect,
                clientVars, boundVars
  <1>6. ServerLogsOut \/ ServerLogsIn \/ UNCHANGED vars
          => UNCHANGED <<cache, clientLogin>> /\ used \subseteq used'
    BY DEF ServerLogsOut, ServerLogsIn, vars, clientVars, boundVars
  <1> QED
    BY <1>1, <1>2, <1>3, <1>4, <1>5, <1>6 DEF Next, Continue

\* The other variables.
LEMMA StateNext ==
  ASSUME IInv, [Next]_vars
  PROVE  StateTypes'
  <1>0. /\ StateTypes /\ RequestInv
        /\ NoLogin \notin ClientLogin \cup ServerLogin
        /\ MaxCalls \in Nat /\ MaxRedirects \in Nat
    BY ChainAssumption DEF IInv
  <1>1. ASSUME NEW t \in Thread, Call(t)
        PROVE  StateTypes'
    <2>1. calls' = [calls EXCEPT ![t] = calls[t] + 1] /\ calls[t] < MaxCalls
      BY <1>1 DEF Call
    <2>2. calls[t] + 1 \in 0 .. MaxCalls  BY <1>0, <2>1 DEF StateTypes
    <2> QED
      BY <1>0, <1>1, <2>1, <2>2 DEF Call, StateTypes, clientVars
  <1>2. ASSUME NEW t \in Thread, Redirect(t)
        PROVE  StateTypes'
    BY <1>0, <1>2 DEF Redirect, StateTypes, clientVars
  <1>3. ASSUME NEW t \in Thread, InvalidCredential(t)
        PROVE  StateTypes'
    <2>1. req[t] \in Request  BY <1>0, Own
    <2>2. session' \in Session \cup {NoSession}
      BY <1>3, <2>1 DEF InvalidCredential, Request
    <2> QED
      BY <1>0, <1>3, <2>2 DEF InvalidCredential, StateTypes, boundVars
  <1>4. ASSUME NEW t \in Thread, BusAnswers(t)
        PROVE  StateTypes'
    <2>1. session' \in {session, NoSession}  BY <1>4 DEF BusAnswers
    <2> QED  BY <1>0, <1>4, <2>1 DEF BusAnswers, StateTypes, boundVars
  <1>5. ASSUME NEW t \in Thread, Sign(t) \/ CheckChain(t)
        PROVE  StateTypes'
    <2>1. up' \in SUBSET up
      BY <1>5 DEF Sign, CheckChain, Crash
    <2> QED
      BY <1>0, <1>5, <2>1 DEF Sign, CheckChain, StateTypes, clientVars, boundVars
  <1>6. ASSUME NEW t \in Thread,
               \/ Join(t) \/ GetLogin(t) \/ GetSession(t) \/ Lookup(t)
               \/ Insert(t) \/ Authenticate(t) \/ Answer(t)
        PROVE  UNCHANGED <<up, clientLogin, serverLogin, session, boundVars>>
    BY <1>6 DEF Join, GetLogin, GetSession, Lookup, Insert, Authenticate,
                Answer, clientVars, boundVars
  <1>7. CASE UNCHANGED <<up, clientLogin, serverLogin, session, boundVars>>
    BY <1>0, <1>7 DEF StateTypes, boundVars
  <1>8. CASE ClientLogsOut \/ ClientLogsIn \/ ServerLogsOut \/ ServerLogsIn
    BY <1>0, <1>8 DEF ClientLogsOut, ClientLogsIn, ServerLogsOut, ServerLogsIn,
                      StateTypes, clientVars, boundVars
  <1>9. UNCHANGED vars
          => UNCHANGED <<up, clientLogin, serverLogin, session, boundVars>>
    BY DEF vars, clientVars
  <1> QED
    BY <1>1, <1>2, <1>3, <1>4, <1>5, <1>6, <1>7, <1>8, <1>9
       DEF Next, Continue
-----------------------------------------------------------------------------
\* The table of requests.  A request is entered, ...
LEMMA EnterTable ==
  ASSUME TableInv, pc \in [Thread -> Step], NEW t \in Thread,
         NEW step \in Waiting, pc[t] \notin Waiting,
         pc' = [pc EXCEPT ![t] = step],
         \E id \in Id : Enter(t, id), UNCHANGED leaked
  PROVE  TableInv'
  <1>1. PICK id \in Id : Enter(t, id)  OBVIOUS
  <1>2. /\ <<t, id>> \notin table
        /\ table' = table \cup {<<t, id>>}
        /\ slot' = [slot EXCEPT ![t] = id]
    BY <1>1 DEF Enter, NewId
  <1>3. /\ table' \subseteq Thread \X Id /\ leaked' \subseteq table'
        /\ slot' \in [Thread -> Id \cup {Nil}]
    BY <1>2 DEF TableInv
  <1>4. slot'[t] = id /\ pc'[t] = step  BY <1>2 DEF TableInv
  <1>5. \A u \in Thread : u # t => slot'[u] = slot[u] /\ pc'[u] = pc[u]
    BY <1>2 DEF TableInv
  <1>6. ASSUME NEW u \in Thread, pc'[u] \in Waiting
        PROVE  <<u, slot'[u]>> \in table' \ leaked'
    BY <1>2, <1>4, <1>5, <1>6 DEF TableInv
  <1>7. ASSUME NEW e \in table' \ leaked'
        PROVE  \E u \in Thread : pc'[u] \in Waiting /\ e = <<u, slot'[u]>>
    <2>1. CASE e = <<t, id>>  BY <1>4, <2>1
    <2>2. CASE e \in table \ leaked
      <3>1. PICK u \in Thread : pc[u] \in Waiting /\ e = <<u, slot[u]>>
        BY <2>2 DEF TableInv
      <3> QED  BY <1>5, <3>1
    <2> QED  BY <1>2, <1>7, <2>1, <2>2
  <1> QED  BY <1>3, <1>6, <1>7 DEF TableInv

\* ... erased when its answer has come, ...
LEMMA EraseTable ==
  ASSUME TableInv, pc \in [Thread -> Step], NEW t \in Thread,
         NEW step, step \notin Waiting, pc[t] \in Waiting,
         pc' = [pc EXCEPT ![t] = step], Erase(t),
         NEW id \in Id \cup {Nil}, slot' = [slot EXCEPT ![t] = id],
         UNCHANGED leaked
  PROVE  TableInv'
  <1>1. table' = table \ {<<t, slot[t]>>}  BY DEF Erase
  <1>2. <<t, slot[t]>> \notin leaked  BY DEF TableInv
  <1>3. /\ table' \subseteq Thread \X Id /\ leaked' \subseteq table'
        /\ slot' \in [Thread -> Id \cup {Nil}]
    BY <1>1, <1>2 DEF TableInv
  <1>4. pc'[t] \notin Waiting  OBVIOUS
  <1>5. \A u \in Thread : u # t => slot'[u] = slot[u] /\ pc'[u] = pc[u]
    BY DEF TableInv
  <1>6. ASSUME NEW u \in Thread, pc'[u] \in Waiting
        PROVE  <<u, slot'[u]>> \in table' \ leaked'
    <2>1. u # t  BY <1>4, <1>6
    <2>2. <<u, slot[u]>> \in table \ leaked  BY <1>5, <1>6, <2>1 DEF TableInv
    <2>3. <<u, slot[u]>> # <<t, slot[t]>>  BY <2>1
    <2> QED  BY <1>1, <1>5, <2>1, <2>2, <2>3
  <1>7. ASSUME NEW e \in table' \ leaked'
        PROVE  \E u \in Thread : pc'[u] \in Waiting /\ e = <<u, slot'[u]>>
    <2>1. e \in table \ leaked /\ e # <<t, slot[t]>>  BY <1>1, <1>7
    <2>2. PICK u \in Thread : pc[u] \in Waiting /\ e = <<u, slot[u]>>
      BY <2>1 DEF TableInv
    <2>3. u # t  BY <2>1, <2>2
    <2> QED  BY <1>5, <2>2, <2>3
  <1> QED  BY <1>3, <1>6, <1>7 DEF TableInv

\* ... or stays as it is while the request goes on.
LEMMA SameTable ==
  ASSUME TableInv, pc \in [Thread -> Step], NEW t \in Thread, NEW step,
         pc' = [pc EXCEPT ![t] = step], UNCHANGED <<table, leaked>>,
         \/ pc[t] \in Waiting /\ step \in Waiting /\ UNCHANGED slot
         \/ /\ pc[t] \notin Waiting /\ step \notin Waiting
            /\ UNCHANGED slot \/ slot' = [slot EXCEPT ![t] = Nil]
  PROVE  TableInv'
  <1>1. /\ table' \subseteq Thread \X Id /\ leaked' \subseteq table'
        /\ slot' \in [Thread -> Id \cup {Nil}]
    BY DEF TableInv
  <1>2. \A u \in Thread :
          /\ pc'[u] \in Waiting <=> pc[u] \in Waiting
          /\ pc[u] \in Waiting => slot'[u] = slot[u]
    BY DEF TableInv
  <1>3. ASSUME NEW e \in table' \ leaked'
        PROVE  \E u \in Thread : pc'[u] \in Waiting /\ e = <<u, slot'[u]>>
    <2>1. PICK u \in Thread : pc[u] \in Waiting /\ e = <<u, slot[u]>>
      BY <1>3 DEF TableInv
    <2> QED  BY <1>2, <2>1
  <1> QED  BY <1>1, <1>2, <1>3 DEF TableInv

LEMMA RegisterTable ==
  ASSUME TableInv, pc \in [Thread -> Step], NEW t \in Thread, NEW r,
         pc[t] \notin Waiting, Register(t, r), UNCHANGED leaked
  PROVE  TableInv'
  BY EnterTable DEF Register, Goto, Waiting

LEMMA EndTable ==
  ASSUME TableInv, pc \in [Thread -> Step], NEW t \in Thread,
         NEW step \in {"idle", "get_login"}, pc[t] \in Waiting,
         Leave(t, step), Erase(t), UNCHANGED leaked
  PROVE  TableInv'
  BY EraseTable DEF Leave, Goto, Waiting

LEMMA RedirectTable ==
  ASSUME TableInv, pc \in [Thread -> Step], NEW t \in Thread, Redirect(t)
  PROVE  TableInv'
  <1>1. /\ pc[t] \in Waiting /\ pc' = [pc EXCEPT ![t] = "get_login"]
        /\ slot' = [slot EXCEPT ![t] = Nil] /\ UNCHANGED table
        /\ leaked' = leaked \cup {<<t, slot[t]>>}
    BY DEF Redirect, Leave, Goto, AtClient, Waiting
  <1>2. /\ table' \subseteq Thread \X Id /\ leaked' \subseteq table'
        /\ slot' \in [Thread -> Id \cup {Nil}]
    BY <1>1 DEF TableInv
  <1>3. pc'[t] \notin Waiting  BY <1>1 DEF Waiting
  <1>4. \A u \in Thread : u # t => slot'[u] = slot[u] /\ pc'[u] = pc[u]
    BY <1>1 DEF TableInv
  <1>5. ASSUME NEW u \in Thread, pc'[u] \in Waiting
        PROVE  <<u, slot'[u]>> \in table' \ leaked'
    <2>1. u # t  BY <1>3, <1>5
    <2>2. <<u, slot[u]>> \in table \ leaked  BY <1>4, <1>5, <2>1 DEF TableInv
    <2>3. <<u, slot[u]>> # <<t, slot[t]>>  BY <2>1
    <2> QED  BY <1>1, <1>4, <2>1, <2>2, <2>3
  <1>6. ASSUME NEW e \in table' \ leaked'
        PROVE  \E u \in Thread : pc'[u] \in Waiting /\ e = <<u, slot'[u]>>
    <2>1. e \in table \ leaked /\ e # <<t, slot[t]>>  BY <1>1, <1>6
    <2>2. PICK u \in Thread : pc[u] \in Waiting /\ e = <<u, slot[u]>>
      BY <2>1 DEF TableInv
    <2>3. u # t  BY <2>1, <2>2
    <2> QED  BY <1>4, <2>2, <2>3
  <1> QED  BY <1>2, <1>5, <1>6 DEF TableInv

LEMMA TableNext ==
  ASSUME IInv, [Next]_vars
  PROVE  TableInv'
  <1>0. TableInv /\ pc \in [Thread -> Step]  BY DEF IInv, RequestInv
  <1>1. ASSUME NEW t \in Thread,
               GetSession(t) \/ Lookup(t) \/ Sign(t) \/ Insert(t)
        PROVE  TableInv'
    <2>1. UNCHANGED leaked /\ pc[t] \notin Waiting
      BY <1>1 DEF GetSession, Lookup, Sign, Insert, AtClient, Waiting, boundVars
    <2>2. CASE \E r : Register(t, r)  BY <1>0, <2>1, <2>2, RegisterTable
    <2>3. CASE /\ Goto(t, "lookup") \/ Goto(t, "sign")
               /\ UNCHANGED <<slot, table>>
      BY <1>0, <2>1, <2>3, SameTable DEF Goto, Waiting
    <2>4. CASE UNCHANGED requestVars
      BY <1>0, <2>1, <2>4 DEF TableInv, requestVars
    <2>5. CASE Leave(t, "idle") /\ UNCHANGED table
      BY <1>0, <2>1, <2>5, SameTable DEF Leave, Goto, Waiting
    <2>6. CASE (\E id \in Id : Enter(t, id)) /\ Goto(t, "signing")
      BY <1>0, <2>1, <2>6, EnterTable DEF Goto, Waiting
    <2>7. CASE GetSession(t)  BY <2>2, <2>3, <2>7 DEF GetSession
    <2>8. CASE Lookup(t)
      <3>1. (\E r : Register(t, r))
              \/ (Goto(t, "sign") /\ UNCHANGED <<slot, table>>)
        BY <2>8 DEF Lookup
      <3> QED  BY <2>2, <2>3, <3>1
    <2>9. CASE Sign(t)  BY <2>4, <2>5, <2>6, <2>9 DEF Sign
    <2>10. CASE Insert(t)  BY <2>2, <2>10 DEF Insert
    <2> QED  BY <1>1, <2>7, <2>8, <2>9, <2>10
  <1>2. ASSUME NEW t \in Thread, BusAnswers(t)
        PROVE  TableInv'
    <2>1. UNCHANGED leaked /\ pc[t] \in Waiting /\ Erase(t)
      BY <1>2 DEF BusAnswers, AtClient, Waiting, boundVars
    <2>2. CASE Leave(t, "idle")  BY <1>0, <2>1, <2>2, EndTable
    <2>3. CASE (Goto(t, "insert") \/ Goto(t, "sign")) /\ UNCHANGED slot
      <3>1. /\ slot' = [slot EXCEPT ![t] = slot[t]]
            /\ slot[t] \in Id \cup {Nil}
        BY <1>0, <2>3 DEF TableInv
      <3>2. "insert" \notin Waiting /\ "sign" \notin Waiting  BY DEF Waiting
      <3> QED  BY <1>0, <2>1, <2>3, <3>1, <3>2, EraseTable DEF Goto
    <2> QED  BY <1>2, <2>2, <2>3 DEF BusAnswers
  <1>3. ASSUME NEW t \in Thread,
               \/ Authenticate(t) \/ CheckChain(t) \/ Answer(t)
               \/ InvalidCredential(t)
        PROVE  TableInv'
    <2>1. UNCHANGED leaked /\ pc[t] \in Waiting
      BY <1>3 DEF Authenticate, CheckChain, Answer, Answered, InvalidCredential,
                  AtClient, AtServer, Waiting, boundVars
    <2>2. CASE (Leave(t, "idle") \/ Leave(t, "get_login")) /\ Erase(t)
      BY <1>0, <2>1, <2>2, EndTable
    <2>3. CASE /\ Goto(t, "check") \/ Goto(t, "dispatched") \/ Goto(t, "reset")
               /\ UNCHANGED <<slot, table>>
      BY <1>0, <2>1, <2>3, SameTable DEF Goto, Waiting
    <2>4. CASE UNCHANGED requestVars
      BY <1>0, <2>1, <2>4 DEF TableInv, requestVars
    <2>5. CASE Authenticate(t)  BY <2>2, <2>3, <2>5 DEF Authenticate, Reset
    <2>6. CASE CheckChain(t)  BY <2>2, <2>3, <2>4, <2>6 DEF CheckChain, Reset
    <2>7. CASE Answer(t) \/ InvalidCredential(t)
      BY <2>2, <2>7 DEF Answer, InvalidCredential
    <2> QED  BY <1>3, <2>5, <2>6, <2>7
  <1>4. ASSUME NEW t \in Thread, Join(t) \/ Call(t) \/ GetLogin(t)
        PROVE  TableInv'
    <2>1. UNCHANGED <<leaked, table>>
      BY <1>4 DEF Join, Call, GetLogin, requestVars, boundVars
    <2>2. CASE Join(t)
      BY <1>0, <2>2 DEF Join, requestVars, boundVars, TableInv
    <2>3. CASE Call(t)
      <3>1. pc[t] \notin Waiting /\ Goto(t, "get_login") /\ UNCHANGED slot
        BY <2>3 DEF Call, AtClient, Waiting
      <3> QED  BY <1>0, <2>1, <3>1, SameTable DEF Goto, Waiting
    <2>4. CASE GetLogin(t)
      <3>1. /\ pc[t] \notin Waiting
            /\ \/ Leave(t, "idle")
               \/ Goto(t, "get_session") /\ UNCHANGED slot
        BY <2>4 DEF GetLogin, AtClient, Waiting
      <3> QED  BY <1>0, <2>1, <3>1, SameTable DEF Goto, Leave, Waiting
    <2> QED  BY <1>4, <2>2, <2>3, <2>4
  <1>5. CASE \/ ClientLogsOut \/ ClientLogsIn \/ ServerLogsOut \/ ServerLogsIn
             \/ UNCHANGED vars
    BY <1>0, <1>5 DEF ClientLogsOut, ClientLogsIn, ServerLogsOut, ServerLogsIn,
                      vars, requestVars, boundVars, TableInv
  <1> QED
    BY <1>0, <1>1, <1>2, <1>3, <1>4, <1>5, RedirectTable DEF Next, Continue
-----------------------------------------------------------------------------
LEMMA InitHolds ==
  ASSUME Init
  PROVE  IInv
  <1>0. MaxCalls \in Nat /\ MaxRedirects \in Nat  BY ChainAssumption
  <1>1. StateTypes  BY <1>0 DEF Init, StateTypes
  <1>2. RequestInv
    <2>1. NoRequest \in Request  BY DEF NoRequest, Request
    <2>2. joined \in [Thread -> Joinable]
      BY NoneJoinable DEF Init, NoneJoined
    <2> QED  BY <2>1, <2>2, NothingFits DEF Init, RequestInv, Step
  <1>3. CacheInv  BY DEF Init, CacheInv, Kept
  <1>4. TableInv  BY DEF Init, TableInv, Waiting
  <1> QED  BY <1>1, <1>2, <1>3, <1>4 DEF IInv

\* Every request fits its step, every chain its key, and the table its requests.
THEOREM ChainsInOrder == Spec => []IInv
  <1>1. Init => IInv  BY InitHolds
  <1>2. IInv /\ [Next]_vars => IInv'
    BY StateNext, RequestNext, CacheNext, TableNext DEF IInv
  <1> QED  BY <1>1, <1>2, PTL DEF Spec

\* The types of the variables.
THEOREM TypeCorrect == Spec => []TypeOK
  <1>1. ASSUME IInv
        PROVE  TypeOK
    <2>1. StateTypes /\ RequestInv /\ CacheInv /\ TableInv
      BY <1>1 DEF IInv
    <2>2. /\ joined \in [Thread -> [Protocol -> Lineage \cup {Unsigned}]]
          /\ \A t \in Thread : \E p \in Protocol : joined[t][p] = Unsigned
      BY <2>1 DEF RequestInv, Joinable
    <2>3. \A t \in Thread :
            pc[t] = "insert" => req[t].chain \in Chain /\ req[t].key \in Key
      BY <2>1 DEF RequestInv, Fits, Formed, Keyed
    <2> QED
      BY <2>1, <2>2, <2>3 DEF TypeOK, StateTypes, RequestInv, CacheInv, TableInv
  <1> QED  BY <1>1, ChainsInOrder, PTL

\* An answer finds its request, and only redirected requests leak.
THEOREM TableOfRequestsHolds == Spec => []TableOfRequests
  <1>1. ASSUME IInv
        PROVE  TableOfRequests
    <2>1. TableInv  BY <1>1 DEF IInv
    <2>2. RequestFound  BY <2>1 DEF TableInv, RequestFound
    <2> DEFINE W == {<<t, slot[t]>> : t \in {u \in Thread : pc[u] \in Waiting}}
    <2>3. W \subseteq table /\ leaked \subseteq table
      BY <2>1 DEF TableInv
    <2>4. table \ leaked \subseteq W  BY <2>1 DEF TableInv
    <2>5. table = leaked \cup W
      <3> HIDE DEF W
      <3> QED  BY <2>3, <2>4
    <2> QED  BY <2>2, <2>5 DEF TableOfRequests
  <1> QED  BY <1>1, ChainsInOrder, PTL

\* A chain is kept and sent under the login it was signed for, while that login
\* is the connection's.
THEOREM ChainOfItsLoginHolds == Spec => []ChainOfItsLogin
  <1>1. ASSUME IInv
        PROVE  ChainOfItsLogin
    BY <1>1 DEF IInv, CacheInv, Kept, RequestInv, Fits, Dated, ChainOfItsLogin
  <1> QED  BY <1>1, ChainsInOrder, PTL

\* A request is dispatched with a chain for the entity of the server's login.
THEOREM TargetedAtServerHolds == Spec => []TargetedAtServer
  <1>1. ASSUME IInv
        PROVE  TargetedAtServer
    BY <1>1 DEF IInv, RequestInv, Fits, Chained, Carrying, TargetedAtServer
  <1> QED  BY <1>1, ChainsInOrder, PTL

\* A request of protocol 2.1 is dispatched in the chain that its thread joined.
THEOREM JoinedChainCarriedHolds == Spec => []JoinedChainCarried
  <1>1. ASSUME IInv
        PROVE  JoinedChainCarried
    <2>1. \A t \in Thread : ProtocolOf(t) = ProtocolFor(req[t], joined[t])
      BY DEF ProtocolOf, ProtocolFor
    <2> QED
      BY <1>1, <2>1 DEF IInv, RequestInv, Fits, Chained, Carrying,
                        JoinedChainCarried
  <1> QED  BY <1>1, ChainsInOrder, PTL
=============================================================================
