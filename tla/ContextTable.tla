---------------------------- MODULE ContextTable ----------------------------
(***************************************************************************)
(* The context of the calls, openbus_context.cpp: the default connection,  *)
(* the table id2conn and the slots of PICurrent that threads and dispatched *)
(* calls have of their own, with every operation that saves, replaces and  *)
(* restores them: logout (struct save_state in connection.cpp), the start  *)
(* of a shared authentication, the dispatch of a call, and the choice of   *)
(* the connection, the bus and the chain that a request carries.           *)
(*                                                                         *)
(* Each connection is on a bus of its own, named like the connection.  An  *)
(* id that no slot holds is never looked up again: its entry is dropped    *)
(* and it serves as a new one.  An entry without a pointer is as good as   *)
(* none.  A null pointer that the code follows ends the process (aborted). *)
(***************************************************************************)
EXTENDS Naturals, FiniteSets

CONSTANTS Thread,
          Dispatcher,    \* the threads that only serve calls of the ORB
          Connection,    \* the connections, all created at the start
          Chain,         \* signed chains
          LegacyChain,   \* those of protocol 2.0
          Id,            \* the UUIDs of the table
          NoConnection, NoChain, NoId,
          EmptyBus,      \* the bus id ""
          UnsetBus       \* a slot never set

ASSUME ContextAssumption ==
  /\ Dispatcher \subseteq Thread /\ LegacyChain \subseteq Chain
  /\ NoConnection \notin Connection /\ NoChain \notin Chain /\ NoId \notin Id
  /\ {EmptyBus, UnsetBus} \cap Connection = {} /\ EmptyBus # UnsetBus
  /\ IsFiniteSet(Thread) /\ IsFiniteSet(Id)
  /\ Cardinality(Id) >= 2 * Cardinality(Thread)

VARIABLES
  aborted,    \* the process has followed a null pointer
  alive,      \* connections not destroyed
  loggedIn,   \* connections with a login
  def_conn,   \* _def_conn, a weak pointer
  id2conn,    \* weak pointers by id
  current,    \* slot current_connection of the thread or its dispatch
  own,        \* the same slot of a dispatcher, outside of its dispatches
  signed,     \* slot signed_call_chain: a dispatch has one
  joined,     \* slot joined_call_chain
  busid,      \* slot busid
  pc,         \* where the thread is in an operation of several steps
  conn,       \* the connection of that operation
  previous,   \* previous_conn (a strong pointer) and previous_chain
  chosen,     \* history: the connection last set by the user or the dispatch
  asked       \* history: the chain last joined by the user

table == <<def_conn, id2conn>>
slots == <<current, own, signed, joined, busid>>
steps == <<pc, conn, previous>>
history == <<chosen, asked>>
vars == <<aborted, alive, loggedIn, table, slots, steps, history>>

NothingSaved == [conn |-> NoConnection, chain |-> NoChain]

Init ==
  /\ aborted = FALSE
  /\ alive = Connection /\ loggedIn = {}
  /\ def_conn = NoConnection
  /\ id2conn = [id \in Id |-> NoConnection]
  /\ current = [t \in Thread |-> NoId] /\ own = [t \in Thread |-> NoId]
  /\ signed = [t \in Thread |-> NoChain] /\ joined = [t \in Thread |-> NoChain]
  /\ busid = [t \in Thread |-> UnsetBus]
  /\ pc = [t \in Thread |-> "run"]
  /\ conn = [t \in Thread |-> NoConnection]
  /\ previous = [t \in Thread |-> NothingSaved]
  /\ chosen = [t \in Thread |-> NoConnection]
  /\ asked = [t \in Thread |-> NoChain]
-----------------------------------------------------------------------------
\* weak_ptr::lock.
Lock(c) == IF c \in alive THEN c ELSE NoConnection

\* What the id in the slot of t leads to.
Found(t) ==
  IF current[t] = NoId THEN NoConnection ELSE Lock(id2conn[current[t]])

\* getCurrentConnection: the default only if the slot was never set.
CurrentConnection(t) ==
  IF current[t] = NoId THEN Lock(def_conn) ELSE Found(t)

\* ClientInterceptor::get_current_connection: the default if nothing is found.
RequestConnection(t) ==
  IF Found(t) = NoConnection THEN Lock(def_conn) ELSE Found(t)

\* The bus id a request by conn[t] carries: that of the slot, even if empty, or
\* that of the connection, empty without a login.
CredentialBus(t) ==
  CASE busid[t] # UnsetBus     -> busid[t]
    [] conn[t] \in loggedIn /\ busid[t] = UnsetBus -> conn[t]
    [] OTHER                   -> EmptyBus

\* A thread in the user's code.
Ready(t) ==
  /\ ~aborted /\ pc[t] = "run"
  /\ t \in Dispatcher => signed[t] # NoChain

At(t, step) == ~aborted /\ pc[t] = step

\* The ids of the other threads.  Any other serves as a new UUID in a slot of
\* t, whose old one is erased with this.
OtherIds(t) == UNION {{current[u], own[u]} : u \in Thread \ {t}}

Erase(id) ==
  IF id = NoId THEN id2conn ELSE [id2conn EXCEPT ![id] = NoConnection]

\* setCurrentConnection: without a connection the erased id stays in the slot.
SetSlot(t, c) ==
  IF c = NoConnection
  THEN id2conn' = Erase(current[t]) /\ UNCHANGED current
  ELSE LET id == CHOOSE id \in Id \ OtherIds(t) : id # own[t] IN
       /\ id2conn' = [Erase(current[t]) EXCEPT ![id] = c]
       /\ current' = [current EXCEPT ![t] = id]

\* joinChain, where c is the current connection: an empty chain stands for the
\* caller's, which cannot be had from a connection without a login.
Joins(t, c, chain) ==
  LET callers == IF c = NoConnection THEN NoChain ELSE signed[t] IN
  \/ /\ chain = NoChain /\ callers # NoChain /\ c \notin loggedIn
     /\ aborted' = TRUE /\ UNCHANGED joined
  \/ /\ chain # NoChain \/ callers = NoChain \/ c \in loggedIn
     /\ joined' = [joined EXCEPT ![t] =
          CASE chain # NoChain -> chain
            [] chain = NoChain /\ callers # NoChain -> callers
            [] OTHER -> @]
     /\ UNCHANGED aborted
-----------------------------------------------------------------------------
\* Connections: a login, a logout without the bus (an invalid login), the end.

Login(c) ==
  /\ ~aborted /\ c \in alive \ loggedIn
  /\ loggedIn' = loggedIn \cup {c}
  /\ UNCHANGED <<aborted, alive, table, slots, steps, history>>

LoginDropped(c) ==
  /\ ~aborted /\ c \in loggedIn
  /\ loggedIn' = loggedIn \ {c}
  /\ UNCHANGED <<aborted, alive, table, slots, steps, history>>

\* Mutant of Destroy: the destructor does not log out.
DestroyOnly(c) ==
  /\ ~aborted /\ c \in alive
  /\ \A t \in Thread : conn[t] # c /\ previous[t].conn # c
  /\ alive' = alive \ {c}
  /\ UNCHANGED <<aborted, loggedIn, table, slots, steps, history>>

\* The user's last pointer is gone; operations in progress hold their own.
Destroy(c) ==
  /\ ~aborted /\ c \in alive
  /\ \A t \in Thread : conn[t] # c /\ previous[t].conn # c
  /\ alive' = alive \ {c}
  /\ loggedIn' = loggedIn \ {c}
  /\ UNCHANGED <<aborted, table, slots, steps, history>>
-----------------------------------------------------------------------------
SetDefaultConnection(t, c) ==
  /\ Ready(t)
  /\ def_conn' = c
  /\ UNCHANGED <<aborted, alive, loggedIn, id2conn, slots, steps, history>>

SetCurrentConnection(t, c) ==
  /\ Ready(t)
  /\ SetSlot(t, c)
  /\ chosen' = [chosen EXCEPT ![t] = c]
  /\ UNCHANGED <<aborted, alive, loggedIn, def_conn, own, signed, joined,
                 busid, steps, asked>>

JoinChain(t, chain) ==
  /\ Ready(t)
  /\ Joins(t, CurrentConnection(t), chain)
  /\ asked' = [asked EXCEPT ![t] = joined'[t]]
  /\ UNCHANGED <<alive, loggedIn, table, current, own, signed, busid, steps,
                 chosen>>

ExitChain(t) ==
  /\ Ready(t)
  /\ joined' = [joined EXCEPT ![t] = NoChain]
  /\ asked' = [asked EXCEPT ![t] = NoChain]
  /\ UNCHANGED <<aborted, alive, loggedIn, table, current, own, signed, busid,
                 steps, chosen>>
-----------------------------------------------------------------------------
\* Connection::logout.  The login is dropped under the connection's lock, ...
Logout(t, c) ==
  /\ Ready(t)
  /\ c \in alive \cap loggedIn
  /\ loggedIn' = loggedIn \ {c}
  /\ pc' = [pc EXCEPT ![t] = "save_connection"]
  /\ conn' = [conn EXCEPT ![t] = c]
  /\ UNCHANGED <<aborted, alive, table, slots, previous, history>>

\* ... the context is saved: first the connection, ...
SaveConnection(t) ==
  /\ At(t, "save_connection")
  /\ pc' = [pc EXCEPT ![t] = "save_chain"]
  /\ previous' = [previous EXCEPT ![t].conn = CurrentConnection(t)]
  /\ UNCHANGED <<aborted, alive, loggedIn, table, slots, conn, history>>

\* getJoinedChain sees no legacy chain, and none without a current connection.
SeenChain(t) ==
  IF CurrentConnection(t) = NoConnection \/ joined[t] \in LegacyChain
  THEN NoChain ELSE joined[t]

\* Mutant of SaveChain: the chain is not left.
SaveChainAndStay(t) ==
  /\ At(t, "save_chain")
  /\ SeenChain(t) # NoChain => CurrentConnection(t) \in loggedIn
  /\ previous' = [previous EXCEPT ![t].chain = SeenChain(t)]
  /\ SetSlot(t, conn[t])
  /\ busid' = [busid EXCEPT ![t] = conn[t]]
  /\ pc' = [pc EXCEPT ![t] = "logout"]
  /\ UNCHANGED <<aborted, alive, loggedIn, def_conn, own, signed, joined, conn,
                 history>>

\* ... then the chain, which needs a login of the current connection; the
\* context of the remote logout takes its place.
SaveChain(t) ==
  /\ At(t, "save_chain")
  /\ \/ /\ SeenChain(t) # NoChain /\ CurrentConnection(t) \notin loggedIn
        /\ aborted' = TRUE
        /\ UNCHANGED <<id2conn, current, joined, busid, pc, previous, asked>>
     \/ /\ SeenChain(t) # NoChain => CurrentConnection(t) \in loggedIn
        /\ previous' = [previous EXCEPT ![t].chain = SeenChain(t)]
        /\ joined' = [joined EXCEPT ![t] = NoChain]
        /\ SetSlot(t, conn[t])
        /\ busid' = [busid EXCEPT ![t] = conn[t]]
        /\ pc' = [pc EXCEPT ![t] = "logout"]
        /\ asked' = [asked EXCEPT ![t] = SeenChain(t)]
        /\ UNCHANGED aborted
  /\ UNCHANGED <<alive, loggedIn, def_conn, own, signed, conn, chosen>>

EndOperation(t) ==
  /\ pc' = [pc EXCEPT ![t] = "run"]
  /\ conn' = [conn EXCEPT ![t] = NoConnection]
  /\ previous' = [previous EXCEPT ![t] = NothingSaved]

\* Mutant of Restore: the connection is not set again.
RestoreChainOnly(t) ==
  /\ At(t, "logout")
  /\ busid' = [busid EXCEPT ![t] = EmptyBus]
  /\ Joins(t, previous[t].conn, previous[t].chain)
  /\ EndOperation(t)
  /\ UNCHANGED <<alive, loggedIn, table, current, own, signed, history>>

\* The remote logout ends, well or not; struct busid leaves "" in its slot, and
\* ~save_state restores the connection and joins the chain.
Restore(t) ==
  /\ At(t, "logout")
  /\ busid' = [busid EXCEPT ![t] = EmptyBus]
  /\ SetSlot(t, previous[t].conn)
  /\ Joins(t, previous[t].conn, previous[t].chain)
  /\ EndOperation(t)
  /\ UNCHANGED <<alive, loggedIn, def_conn, own, signed, history>>
-----------------------------------------------------------------------------
\* startSharedAuth.  Without a login _access_control is a null pointer.
StartSharedAuth(t, c) ==
  /\ Ready(t)
  /\ c \in alive
  /\ \/ /\ c \notin loggedIn
        /\ aborted' = TRUE
        /\ UNCHANGED <<id2conn, current, steps>>
     \/ /\ c \in loggedIn
        /\ previous' = [previous EXCEPT ![t].conn = CurrentConnection(t)]
        /\ SetSlot(t, c)
        /\ pc' = [pc EXCEPT ![t] = "auth"]
        /\ conn' = [conn EXCEPT ![t] = c]
        /\ UNCHANGED aborted
  /\ UNCHANGED <<alive, loggedIn, def_conn, own, signed, joined, busid,
                 history>>

\* The answer, or an exception: then cancel() is called through a pointer that
\* may never have been set.
EndSharedAuth(t) ==
  /\ At(t, "auth")
  /\ \/ aborted' = TRUE /\ UNCHANGED <<id2conn, current, steps>>
     \/ /\ SetSlot(t, previous[t].conn)
        /\ EndOperation(t)
        /\ UNCHANGED aborted
  /\ UNCHANGED <<alive, loggedIn, def_conn, own, signed, joined, busid,
                 history>>
-----------------------------------------------------------------------------
\* A request: the connection and its login, NoLogin without one, ...
SendRequest(t) ==
  /\ Ready(t)
  /\ RequestConnection(t) \in loggedIn
  /\ pc' = [pc EXCEPT ![t] = "credential"]
  /\ conn' = [conn EXCEPT ![t] = RequestConnection(t)]
  /\ UNCHANGED <<aborted, alive, loggedIn, table, slots, previous, history>>

\* ... then the credential, with CredentialBus(t).
FillCredential(t) ==
  /\ At(t, "credential")
  /\ EndOperation(t)
  /\ UNCHANGED <<aborted, alive, loggedIn, table, slots, history>>

\* A call arrives by c, onCallDispatch's or the default connection: one id for
\* the slot of the request, which becomes that of the dispatch, another for the
\* slot of the thread.
Dispatch(t, c, chain) ==
  /\ ~aborted
  /\ t \in Dispatcher /\ signed[t] = NoChain
  /\ c \in alive \cap loggedIn
  /\ LET other == CHOOSE other \in Id : other \notin OtherIds(t)
         id == CHOOSE id \in Id \ OtherIds(t) : id # other IN
     /\ id2conn' = [Erase(own[t]) EXCEPT ![id] = c, ![other] = c]
     /\ current' = [current EXCEPT ![t] = id]
     /\ own' = [own EXCEPT ![t] = other]
  /\ signed' = [signed EXCEPT ![t] = chain]
  /\ chosen' = [chosen EXCEPT ![t] = c]
  /\ UNCHANGED <<aborted, alive, loggedIn, def_conn, joined, busid, steps,
                 asked>>

\* The slots of the dispatch are gone.  The code leaves its entry in the
\* table for good, where nothing looks it up.
EndDispatch(t) ==
  /\ Ready(t)
  /\ t \in Dispatcher
  /\ id2conn' = Erase(current[t])
  /\ current' = [current EXCEPT ![t] = NoId]
  /\ signed' = [signed EXCEPT ![t] = NoChain]
  /\ joined' = [joined EXCEPT ![t] = NoChain]
  /\ busid' = [busid EXCEPT ![t] = UnsetBus]
  /\ chosen' = [chosen EXCEPT ![t] = NoConnection]
  /\ asked' = [asked EXCEPT ![t] = NoChain]
  /\ UNCHANGED <<aborted, alive, loggedIn, def_conn, own, steps>>
-----------------------------------------------------------------------------
Next ==
  \/ \E c \in Connection : Login(c) \/ LoginDropped(c) \/ Destroy(c)
  \/ \E t \in Thread :
       \/ \E c \in alive \cup {NoConnection} :
            SetDefaultConnection(t, c) \/ SetCurrentConnection(t, c)
       \/ \E chain \in Chain \cup {NoChain} : JoinChain(t, chain)
       \/ \E c \in Connection : Logout(t, c) \/ StartSharedAuth(t, c)
       \/ \E c \in Connection, chain \in Chain : Dispatch(t, c, chain)
       \/ ExitChain(t) \/ SaveConnection(t) \/ SaveChain(t) \/ Restore(t)
       \/ EndSharedAuth(t) \/ SendRequest(t) \/ FillCredential(t)
       \/ EndDispatch(t)

Spec == Init /\ [][Next]_vars
-----------------------------------------------------------------------------
\* The types of the variables; only an operation in progress holds pointers.
TypeOK ==
  /\ aborted \in BOOLEAN
  /\ loggedIn \subseteq alive /\ alive \subseteq Connection
  /\ def_conn \in Connection \cup {NoConnection}
  /\ id2conn \in [Id -> Connection \cup {NoConnection}]
  /\ current \in [Thread -> Id \cup {NoId}]
  /\ own \in [Thread -> Id \cup {NoId}]
  /\ signed \in [Thread -> Chain \cup {NoChain}]
  /\ joined \in [Thread -> Chain \cup {NoChain}]
  /\ busid \in [Thread -> Connection \cup {EmptyBus, UnsetBus}]
  /\ pc \in [Thread -> {"run", "save_connection", "save_chain", "logout",
                        "auth", "credential"}]
  /\ conn \in [Thread -> Connection \cup {NoConnection}]
  /\ previous \in [Thread -> [conn : Connection \cup {NoConnection},
                              chain : Chain \cup {NoChain}]]
  /\ chosen \in [Thread -> Connection \cup {NoConnection}]
  /\ asked \in [Thread -> Chain \cup {NoChain}]
  /\ \A t \in Thread : (conn[t] = NoConnection) <=> (pc[t] = "run")

\* A thread, or a dispatch, goes on with the connection it chose as long as
\* that exists: through its own logouts of any connection and shared
\* authentications, and whatever the others set, join, serve or destroy.
ConnectionKept ==
  \A t \in Thread :
    pc[t] \in {"run", "credential"} /\ chosen[t] \in alive =>
      CurrentConnection(t) = chosen[t] /\ RequestConnection(t) = chosen[t]

\* A thread goes on in the chain it joined, through its own logouts as well:
\* the code saves and restores it.  Known exceptions, which asked records: a
\* legacy chain, and any chain without a current connection, are lost.
ChainKept ==
  \A t \in Thread :
    pc[t] \in {"run", "credential"} /\ asked[t] # NoChain =>
      joined[t] = asked[t]

\* What a thread has set in its context is what its requests go out with.
ContextKept == ConnectionKept /\ ChainKept

\* The remote logout goes out by the connection that logs out, on its bus and
\* in no chain, though it has no login any more and other threads may have
\* changed the default connection and the table since.
LogoutRequest ==
  \A t \in Thread :
    pc[t] = "logout" =>
      /\ RequestConnection(t) = conn[t]
      /\ CredentialBus(t) = conn[t]
      /\ joined[t] = NoChain

\* A request names the bus of its connection (openbus_creden-2.1.idl:43), at
\* least while that has a login.
CredentialNamesBus ==
  \A t \in Thread :
    pc[t] = "credential" /\ conn[t] \in loggedIn => CredentialBus(t) = conn[t]
=============================================================================
