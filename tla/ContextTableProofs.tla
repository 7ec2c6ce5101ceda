------------------------- MODULE ContextTableProofs -------------------------
(***************************************************************************)
(* Every thread keeps the connection and the chain it chose, and a logout  *)
(* goes out by its own connection: for any number of threads, dispatchers, *)
(* connections and chains, legacy ones too.                                *)
(***************************************************************************)
EXTENDS ContextTable, FiniteSetTheorems, TLAPS

\* Steps at which the slot of the thread has its own connection, and at which
\* it has that of the operation.
Home == {"run", "credential", "save_connection", "save_chain"}
Away == {"logout", "auth"}

StateTypes ==
  /\ aborted \in BOOLEAN
  /\ loggedIn \subseteq alive /\ alive \subseteq Connection
  /\ def_conn \in Connection \cup {NoConnection}
  /\ signed \in [Thread -> Chain \cup {NoChain}]
  /\ joined \in [Thread -> Chain \cup {NoChain}]
  /\ busid \in [Thread -> Connection \cup {EmptyBus, UnsetBus}]
  /\ chosen \in [Thread -> Connection \cup {NoConnection}]
  /\ asked \in [Thread -> Chain \cup {NoChain}]

Saved == [conn : Connection \cup {NoConnection}, chain : Chain \cup {NoChain}]
StepTypes ==
  /\ pc \in [Thread -> Home \cup Away]
  /\ conn \in [Thread -> Connection \cup {NoConnection}]
  /\ previous \in [Thread -> Saved]
  /\ \A t \in Thread : (conn[t] = NoConnection) <=> (pc[t] = "run")

TableTypes ==
  /\ id2conn \in [Id -> Connection \cup {NoConnection}]
  /\ current \in [Thread -> Id \cup {NoId}]
  /\ own \in [Thread -> Id \cup {NoId}]

\* An id is in one slot only.
SlotInv ==
  \A t \in Thread :
    /\ current[t] # NoId => current[t] # own[t]
    /\ \A u \in Thread \ {t} :
         /\ current[t] # NoId => current[t] # current[u] /\ current[t] # own[u]
         /\ own[t] # NoId => own[t] # own[u] /\ own[t] # current[u]
TableInv == TableTypes /\ SlotInv

\* The slot of t leads to c.
Tied(t, c) == current[t] \in Id /\ id2conn[current[t]] = c

\* The connection that t chose is in its slot, or kept for it; while it is, the
\* slot has that of the operation.  Operations end within their dispatch.
KeepsConnection(t) ==
  /\ conn[t] \in alive \cup {NoConnection}
  /\ previous[t].conn \in alive \cup {NoConnection}
  /\ chosen[t] \in alive /\ pc[t] \in Home => Tied(t, chosen[t])
  /\ chosen[t] \in alive /\ pc[t] \in Away \cup {"save_chain"}
       => previous[t].conn = chosen[t]
  /\ pc[t] \in Away => Tied(t, conn[t])
  /\ t \in Dispatcher /\ signed[t] = NoChain => pc[t] = "run"

\* So with the chain.
KeepsChain(t) ==
  /\ pc[t] # "logout" /\ asked[t] # NoChain => joined[t] = asked[t]
  /\ pc[t] = "logout" =>
       /\ previous[t].chain = asked[t]
       /\ joined[t] = NoChain /\ busid[t] = conn[t]

KeptInv == \A t \in Thread : KeepsConnection(t) /\ KeepsChain(t)

\* The inductive invariant.
IInv == StateTypes /\ StepTypes /\ TableInv /\ KeptInv
-----------------------------------------------------------------------------
\* New ids.  The slots of the other threads leave two.
LEMMA TwoFree ==
  ASSUME TableTypes, NEW t \in Thread
  PROVE  \E a, b \in Id \ OtherIds(t) : a # b
  <1> DEFINE T == Thread \ {t}
             f == [u \in T |-> current[u]]
             g == [u \in T |-> own[u]]
             A == {current[u] : u \in T}
             B == {own[u] : u \in T}
             x == CHOOSE x \in Id \ (A \cup B) : TRUE
  <1>1. f \in Surjection(T, A) /\ g \in Surjection(T, B)  BY DEF Surjection
  <1>2. OtherIds(t) = A \cup B  BY DEF OtherIds
  <1>3. SUFFICES ASSUME \A a, b \in Id \ (A \cup B) : a = b
                 PROVE  FALSE
    BY <1>2
  <1>4. IsFiniteSet(T) /\ Cardinality(T) = Cardinality(Thread) - 1
    BY ContextAssumption, FS_RemoveElement
  <1> HIDE DEF A, B, T, f, g
  <1>5. IsFiniteSet(A) /\ Cardinality(A) <= Cardinality(T)
    BY <1>1, <1>4, FS_Surjection
  <1>6. IsFiniteSet(B) /\ Cardinality(B) <= Cardinality(T)
    BY <1>1, <1>4, FS_Surjection
  <1>7. /\ IsFiniteSet(A \cup B)
        /\ Cardinality(A \cup B) =
             Cardinality(A) + Cardinality(B) - Cardinality(A \cap B)
    BY <1>5, <1>6, FS_Union
  <1>8. IsFiniteSet(A \cap B)
    <2>1. A \cap B \in SUBSET A  OBVIOUS
    <2> QED  BY <2>1, <1>5, FS_Subset
  <1>9. /\ IsFiniteSet((A \cup B) \cup {x})
        /\ \/ Cardinality((A \cup B) \cup {x}) = Cardinality(A \cup B)
           \/ Cardinality((A \cup B) \cup {x}) = Cardinality(A \cup B) + 1
    BY <1>7, FS_AddElement
  <1>10. Id \in SUBSET ((A \cup B) \cup {x})  BY <1>3
  <1>11. Cardinality(Id) <= Cardinality((A \cup B) \cup {x})
    BY <1>9, <1>10, FS_Subset
  <1>12. /\ Cardinality(A) \in Nat /\ Cardinality(B) \in Nat
         /\ Cardinality(A \cap B) \in Nat /\ Cardinality(A \cup B) \in Nat
         /\ Cardinality(Id) \in Nat /\ Cardinality(Thread) \in Nat
    BY <1>5, <1>6, <1>7, <1>8, FS_CardinalityType, ContextAssumption
  <1>13. Cardinality(Id) >= 2 * Cardinality(Thread)  BY ContextAssumption
  <1> HIDE DEF x
  <1> QED  BY <1>4, <1>5, <1>6, <1>7, <1>9, <1>11, <1>12, <1>13

\* The id that setCurrentConnection makes.
NewId(t) == CHOOSE id \in Id \ OtherIds(t) : id # own[t]

LEMMA NewIdFree ==
  ASSUME TableTypes, NEW t \in Thread
  PROVE  /\ NewId(t) \in Id /\ NewId(t) # own[t]
         /\ \A u \in Thread \ {t} : NewId(t) # current[u] /\ NewId(t) # own[u]
  <1>1. \E id \in Id \ OtherIds(t) : id # own[t]  BY TwoFree
  <1>2. NewId(t) \in Id \ OtherIds(t) /\ NewId(t) # own[t]
    BY <1>1 DEF NewId
  <1> QED  BY <1>2 DEF OtherIds

\* What is in the slots of the others stays there.
Others(t) ==
  \A u \in Thread \ {t} :
    /\ current'[u] = current[u]
    /\ current[u] \in Id => id2conn'[current[u]] = id2conn[current[u]]

LEMMA SlotSet ==
  ASSUME TableInv, NEW t \in Thread, NEW c \in Connection \cup {NoConnection},
         SetSlot(t, c), UNCHANGED own
  PROVE  /\ TableInv' /\ Others(t)
         /\ c # NoConnection => Tied(t, c)'
  <1>0. TableTypes /\ SlotInv /\ NoId \notin Id
    BY ContextAssumption DEF TableInv
  <1>1. /\ Erase(current[t]) \in [Id -> Connection \cup {NoConnection}]
        /\ \A id \in Id : id # current[t] => Erase(current[t])[id] = id2conn[id]
    BY <1>0 DEF Erase, TableTypes
  <1>2. CASE c = NoConnection
    <2>1. id2conn' = Erase(current[t]) /\ current' = current
      BY <1>2 DEF SetSlot
    <2>2. TableInv'  BY <1>0, <1>1, <2>1 DEF TableInv, TableTypes, SlotInv
    <2>3. Others(t)
      BY <1>0, <1>1, <2>1 DEF Others, TableTypes, SlotInv
    <2> QED  BY <1>2, <2>2, <2>3
  <1>3. CASE c # NoConnection
    <2>1. /\ id2conn' = [Erase(current[t]) EXCEPT ![NewId(t)] = c]
          /\ current' = [current EXCEPT ![t] = NewId(t)]
      BY <1>3 DEF SetSlot, NewId
    <2> DEFINE id == NewId(t)
    <2>2. /\ id \in Id /\ id # own[t]
          /\ \A u \in Thread \ {t} : id # current[u] /\ id # own[u]
      BY <1>0, NewIdFree
    <2> HIDE DEF id
    <2>3. TableTypes'  BY <1>0, <1>1, <2>1, <2>2 DEF TableTypes, id
    <2>4. current'[t] = id /\ \A u \in Thread \ {t} : current'[u] = current[u]
      BY <1>0, <2>1 DEF TableTypes, id
    <2>5. SlotInv'  BY <1>0, <2>2, <2>4 DEF SlotInv
    <2>6. id2conn'[id] = c /\ current'[t] \in Id
      BY <1>1, <2>1, <2>2, <2>4 DEF id
    <2>7. Others(t)
      BY <1>0, <1>1, <2>1, <2>2, <2>4 DEF Others, SlotInv, id
    <2> QED  BY <2>3, <2>4, <2>5, <2>6, <2>7 DEF TableInv, Tied
  <1> QED  BY <1>2, <1>3

LEMMA DispatchSet ==
  ASSUME TableInv, NEW t \in Thread, NEW c \in Connection, NEW chain \in Chain,
         Dispatch(t, c, chain)
  PROVE  TableInv' /\ Others(t) /\ Tied(t, c)'
  <1>0. TableTypes /\ SlotInv /\ NoId \notin Id
    BY ContextAssumption DEF TableInv
  <1> DEFINE other == CHOOSE other \in Id : other \notin OtherIds(t)
             id == CHOOSE id \in Id \ OtherIds(t) : id # other
  <1>1. /\ id2conn' = [Erase(own[t]) EXCEPT ![id] = c, ![other] = c]
        /\ current' = [current EXCEPT ![t] = id]
        /\ own' = [own EXCEPT ![t] = other]
    BY DEF Dispatch
  <1>2. /\ Erase(own[t]) \in [Id -> Connection \cup {NoConnection}]
        /\ \A i \in Id : i # own[t] => Erase(own[t])[i] = id2conn[i]
    BY <1>0 DEF Erase, TableTypes
  <1>3. PICK a, b \in Id \ OtherIds(t) : a # b  BY <1>0, TwoFree
  <1>4. other \in Id /\ other \notin OtherIds(t)  BY <1>3
  <1> HIDE DEF other
  <1>5. id \in Id \ OtherIds(t) /\ id # other  BY <1>3
  <1> HIDE DEF id
  <1>6. \A u \in Thread \ {t} :
          /\ id # current[u] /\ id # own[u]
          /\ other # current[u] /\ other # own[u]
    BY <1>4, <1>5 DEF OtherIds
  <1>7. TableTypes'  BY <1>0, <1>1, <1>2, <1>4, <1>5 DEF TableTypes
  <1>8. /\ current'[t] = id /\ own'[t] = other
        /\ \A u \in Thread \ {t} : current'[u] = current[u] /\ own'[u] = own[u]
    BY <1>0, <1>1 DEF TableTypes
  <1>9. SlotInv'  BY <1>0, <1>5, <1>6, <1>8 DEF SlotInv
  <1>10. id2conn'[id] = c  BY <1>1, <1>2, <1>4, <1>5
  <1>11. Others(t)
    BY <1>0, <1>1, <1>2, <1>4, <1>5, <1>6, <1>8 DEF Others, SlotInv
  <1> QED  BY <1>5, <1>7, <1>8, <1>9, <1>10, <1>11 DEF TableInv, Tied

LEMMA EndDispatchSet ==
  ASSUME TableInv, NEW t \in Thread, EndDispatch(t)
  PROVE  TableInv' /\ Others(t)
  <1>0. TableTypes /\ SlotInv /\ NoId \notin Id
    BY ContextAssumption DEF TableInv
  <1>1. /\ id2conn' = Erase(current[t]) /\ UNCHANGED own
        /\ current' = [current EXCEPT ![t] = NoId]
    BY DEF EndDispatch
  <1>2. /\ Erase(current[t]) \in [Id -> Connection \cup {NoConnection}]
        /\ \A id \in Id : id # current[t] => Erase(current[t])[id] = id2conn[id]
    BY <1>0 DEF Erase, TableTypes
  <1>3. TableTypes'  BY <1>0, <1>1, <1>2 DEF TableTypes
  <1>4. current'[t] = NoId /\ \A u \in Thread \ {t} : current'[u] = current[u]
    BY <1>0, <1>1 DEF TableTypes
  <1>5. SlotInv'  BY <1>0, <1>1, <1>4 DEF SlotInv
  <1>6. Others(t)  BY <1>0, <1>1, <1>2, <1>4 DEF Others, SlotInv
  <1> QED  BY <1>3, <1>5, <1>6 DEF TableInv
-----------------------------------------------------------------------------
\* A step of t, as the other threads see it.
Alone(t) ==
  /\ Others(t) /\ UNCHANGED alive
  /\ \A u \in Thread \ {t} :
       /\ pc'[u] = pc[u] /\ conn'[u] = conn[u] /\ previous'[u] = previous[u]
       /\ joined'[u] = joined[u] /\ busid'[u] = busid[u]
       /\ signed'[u] = signed[u]
       /\ chosen'[u] = chosen[u] /\ asked'[u] = asked[u]

LEMMA AloneKeeps ==
  ASSUME KeptInv, NEW t \in Thread, Alone(t),
         KeepsConnection(t)', KeepsChain(t)'
  PROVE  KeptInv'
  <1>1. ASSUME NEW u \in Thread \ {t}
        PROVE  KeepsConnection(u)' /\ KeepsChain(u)'
    <2>1. KeepsConnection(u) /\ KeepsChain(u)  BY DEF KeptInv
    <2>2. ASSUME NEW c, Tied(u, c)
          PROVE  Tied(u, c)'
      BY <2>2 DEF Tied, Alone, Others
    <2>3. KeepsConnection(u)'
      BY <2>1, <2>2 DEF KeepsConnection, Alone
    <2>4. KeepsChain(u)'  BY <2>1 DEF KeepsChain, Alone
    <2> QED  BY <2>3, <2>4
  <1> QED  BY <1>1 DEF KeptInv

\* The table does not change for anybody.
LEMMA SameTable ==
  ASSUME TableInv, UNCHANGED <<id2conn, current, own>>, NEW t
  PROVE  TableInv' /\ Others(t) /\ \A c : Tied(t, c)' <=> Tied(t, c)
  BY DEF TableInv, TableTypes, SlotInv, Others, Tied

\* What the thread finds in its slot.
LEMMA FoundChosen ==
  ASSUME StateTypes, NEW t, NEW c \in alive, Tied(t, c)
  PROVE  CurrentConnection(t) = c /\ RequestConnection(t) = c
  <1>1. c # NoConnection /\ current[t] # NoId
    BY ContextAssumption DEF StateTypes, Tied
  <1> QED
    BY <1>1 DEF CurrentConnection, RequestConnection, Found, Lock, Tied

LEMMA FoundAlive ==
  ASSUME StateTypes, NEW t
  PROVE  /\ CurrentConnection(t) \in alive \cup {NoConnection}
         /\ RequestConnection(t) \in alive \cup {NoConnection}
  BY DEF CurrentConnection, RequestConnection, Found, Lock

LEMMA SeenChains ==
  ASSUME StateTypes, NEW t \in Thread
  PROVE  /\ SeenChain(t) \in Chain \cup {NoChain}
         /\ SeenChain(t) # NoChain => SeenChain(t) = joined[t]
  BY DEF SeenChain, StateTypes

\* joinChain of a chain gives that chain; of none, it never takes one away.
LEMMA ChainJoined ==
  ASSUME StateTypes, NEW t \in Thread, NEW c,
         NEW chain \in Chain \cup {NoChain}, Joins(t, c, chain)
  PROVE  /\ aborted' \in BOOLEAN
         /\ joined' \in [Thread -> Chain \cup {NoChain}]
         /\ \A u \in Thread \ {t} : joined'[u] = joined[u]
         /\ chain # NoChain => joined'[t] = chain
  <1> DEFINE callers == IF c = NoConnection THEN NoChain ELSE signed[t]
             next == IF chain # NoChain THEN chain
                     ELSE IF callers # NoChain THEN callers ELSE joined[t]
  <1>1. \/ chain = NoChain /\ aborted' = TRUE /\ UNCHANGED joined
        \/ joined' = [joined EXCEPT ![t] = next] /\ UNCHANGED aborted
    BY DEF Joins
  <1>2. next \in Chain \cup {NoChain} /\ (chain # NoChain => next = chain)
    BY DEF StateTypes
  <1> HIDE DEF next
  <1> QED  BY <1>1, <1>2 DEF StateTypes

\* The end of an operation.
LEMMA Ended ==
  ASSUME StepTypes, NEW t \in Thread, EndOperation(t)
  PROVE  /\ StepTypes'
         /\ pc'[t] = "run" /\ conn'[t] = NoConnection
         /\ previous'[t].conn = NoConnection
         /\ \A u \in Thread \ {t} :
              /\ pc'[u] = pc[u] /\ conn'[u] = conn[u]
              /\ previous'[u] = previous[u]
  <1>1. NothingSaved \in Saved  BY DEF NothingSaved, Saved
  <1>2. NothingSaved.conn = NoConnection  BY DEF NothingSaved
  <1> QED  BY <1>1, <1>2 DEF EndOperation, StepTypes, Home
-----------------------------------------------------------------------------
\* Every action, by what it does to the thread that takes it.
Good == StateTypes' /\ StepTypes' /\ TableInv' /\ KeptInv'

LEMMA StateActions ==
  ASSUME IInv, NEW c \in Connection, Login(c) \/ LoginDropped(c) \/ Destroy(c)
  PROVE  Good
  <1>0. StateTypes /\ StepTypes /\ TableInv /\ KeptInv  BY DEF IInv
  <1>1. /\ UNCHANGED <<table, slots, steps, history, aborted>>
        /\ alive' \subseteq alive /\ loggedIn' \subseteq alive'
        /\ \A t \in Thread : conn[t] \in alive => conn[t] \in alive'
        /\ \A t \in Thread :
             previous[t].conn \in alive => previous[t].conn \in alive'
    BY <1>0 DEF Login, LoginDropped, Destroy, StateTypes
  <1>2. StateTypes' /\ StepTypes'
    BY <1>0, <1>1 DEF StateTypes, StepTypes, table, slots, steps, history
  <1>3. TableInv' /\ \A t \in Thread : \A c2 : Tied(t, c2)' <=> Tied(t, c2)
    BY <1>0, <1>1, SameTable DEF table, slots
  <1>4. ASSUME NEW t \in Thread
        PROVE  KeepsConnection(t)' /\ KeepsChain(t)'
    <2>1. KeepsConnection(t) /\ KeepsChain(t)  BY <1>0 DEF KeptInv
    <2>2. KeepsConnection(t)'
      BY <1>1, <1>3, <2>1 DEF KeepsConnection, steps, slots, history
    <2>3. KeepsChain(t)'
      BY <1>1, <2>1 DEF KeepsChain, steps, history, slots
    <2> QED  BY <2>2, <2>3
  <1> QED  BY <1>2, <1>3, <1>4 DEF Good, KeptInv

LEMMA SetActions ==
  ASSUME IInv, NEW t \in Thread, NEW c \in alive \cup {NoConnection},
         SetDefaultConnection(t, c) \/ SetCurrentConnection(t, c)
  PROVE  Good
  <1>0. /\ StateTypes /\ StepTypes /\ TableInv /\ KeptInv
        /\ KeepsConnection(t) /\ KeepsChain(t)
        /\ c \in Connection \cup {NoConnection} /\ NoConnection \notin alive
        /\ pc[t] = "run"
    BY ContextAssumption
       DEF IInv, KeptInv, StateTypes, SetDefaultConnection,
           SetCurrentConnection, Ready
  <1>1. CASE SetDefaultConnection(t, c)
    <2>1. /\ UNCHANGED <<aborted, alive, loggedIn, id2conn, slots, steps, history>>
          /\ def_conn' = c
      BY <1>1 DEF SetDefaultConnection
    <2>2. StateTypes' /\ StepTypes'
      BY <1>0, <2>1 DEF StateTypes, StepTypes, slots, steps, history
    <2>3. TableInv' /\ Others(t) /\ \A d : Tied(t, d)' <=> Tied(t, d)
      BY <1>0, <2>1, SameTable DEF slots
    <2>4. Alone(t)  BY <2>1, <2>3 DEF Alone, steps, slots, history
    <2>5. KeepsConnection(t)'
      BY <1>0, <2>1, <2>3 DEF KeepsConnection, steps, slots, history
    <2>6. KeepsChain(t)'
      BY <1>0, <2>1 DEF KeepsChain, steps, history, slots
    <2> QED  BY <1>0, <2>2, <2>3, <2>4, <2>5, <2>6, AloneKeeps DEF Good
  <1>2. CASE SetCurrentConnection(t, c)
    <2>1. /\ SetSlot(t, c) /\ UNCHANGED own
          /\ chosen' = [chosen EXCEPT ![t] = c]
          /\ UNCHANGED <<aborted, alive, loggedIn, def_conn, signed, joined,
                         busid, pc, conn, previous, asked>>
      BY <1>2 DEF SetCurrentConnection, steps
    <2>2. TableInv' /\ Others(t) /\ (c # NoConnection => Tied(t, c)')
      BY <1>0, <2>1, SlotSet
    <2>3. StateTypes' /\ StepTypes'
      BY <1>0, <2>1 DEF StateTypes, StepTypes
    <2>4. /\ chosen'[t] = c
          /\ \A u \in Thread \ {t} : chosen'[u] = chosen[u]
      BY <1>0, <2>1 DEF StateTypes
    <2>5. Alone(t)  BY <2>1, <2>2, <2>4 DEF Alone
    <2>6. KeepsConnection(t)'
      BY <1>0, <2>1, <2>2, <2>4 DEF KeepsConnection, Away
    <2>7. KeepsChain(t)'  BY <1>0, <2>1 DEF KeepsChain
    <2> QED  BY <1>0, <2>2, <2>3, <2>5, <2>6, <2>7, AloneKeeps DEF Good
  <1> QED  BY <1>1, <1>2

LEMMA ChainActions ==
  ASSUME IInv, NEW t \in Thread,
         \/ \E chain \in Chain \cup {NoChain} : JoinChain(t, chain)
         \/ ExitChain(t)
  PROVE  Good
  <1>0. /\ StateTypes /\ StepTypes /\ TableInv /\ KeptInv
        /\ KeepsConnection(t) /\ KeepsChain(t) /\ pc[t] = "run"
    BY DEF IInv, KeptInv, JoinChain, ExitChain, Ready
  <1>1. /\ UNCHANGED <<alive, loggedIn, def_conn, id2conn, current, own, signed,
                       busid, pc, conn, previous, chosen>>
        /\ aborted' \in BOOLEAN
        /\ joined' \in [Thread -> Chain \cup {NoChain}]
        /\ \A u \in Thread \ {t} : joined'[u] = joined[u]
        /\ asked' = [asked EXCEPT ![t] = joined'[t]]
    <2>1. ASSUME NEW chain \in Chain \cup {NoChain}, JoinChain(t, chain)
          PROVE  /\ aborted' \in BOOLEAN
                 /\ joined' \in [Thread -> Chain \cup {NoChain}]
                 /\ \A u \in Thread \ {t} : joined'[u] = joined[u]
      BY <1>0, <2>1, ChainJoined DEF JoinChain
    <2>2. ASSUME NEW chain \in Chain \cup {NoChain}, JoinChain(t, chain)
          PROVE  /\ UNCHANGED <<alive, loggedIn, def_conn, id2conn, current, own,
                                signed, busid, pc, conn, previous, chosen>>
                 /\ asked' = [asked EXCEPT ![t] = joined'[t]]
      BY <2>2 DEF JoinChain, table, steps
    <2>3. CASE ExitChain(t)
      BY <1>0, <2>3 DEF ExitChain, StateTypes, table, steps
    <2> QED  BY <2>1, <2>2, <2>3
  <1>2. asked' \in [Thread -> Chain \cup {NoChain}] /\ asked'[t] = joined'[t]
          /\ \A u \in Thread \ {t} : asked'[u] = asked[u]
    BY <1>0, <1>1 DEF StateTypes
  <1>3. StateTypes' /\ StepTypes'
    BY <1>0, <1>1, <1>2 DEF StateTypes, StepTypes
  <1>4. TableInv' /\ Others(t) /\ \A d : Tied(t, d)' <=> Tied(t, d)
    BY <1>0, <1>1, SameTable
  <1>5. Alone(t)  BY <1>1, <1>2, <1>4 DEF Alone
  <1>6. KeepsConnection(t)'  BY <1>0, <1>1, <1>4 DEF KeepsConnection
  <1>7. KeepsChain(t)'  BY <1>0, <1>1, <1>2 DEF KeepsChain
  <1> QED  BY <1>0, <1>3, <1>4, <1>5, <1>6, <1>7, AloneKeeps DEF Good

\* An operation begins that leaves the slots alone: a logout, a request.
LEMMA BeginActions ==
  ASSUME IInv, NEW t \in Thread,
         (\E c \in Connection : Logout(t, c)) \/ SendRequest(t)
  PROVE  Good
  <1>0. /\ StateTypes /\ StepTypes /\ TableInv /\ KeptInv
        /\ KeepsConnection(t) /\ KeepsChain(t) /\ pc[t] = "run"
        /\ NoConnection \notin Connection
        /\ t \in Dispatcher => signed[t] # NoChain
    BY ContextAssumption DEF IInv, KeptInv, Logout, SendRequest, Ready
  <1>1. PICK c \in loggedIn, step \in {"save_connection", "credential"} :
          /\ pc' = [pc EXCEPT ![t] = step] /\ conn' = [conn EXCEPT ![t] = c]
    BY DEF Logout, SendRequest
  <1>2. /\ UNCHANGED <<aborted, alive, table, slots, previous, history>>
        /\ loggedIn' \subseteq loggedIn
    BY DEF Logout, SendRequest
  <1>3. c \in alive /\ c \in Connection  BY <1>0, <1>1 DEF StateTypes
  <1>4. /\ pc'[t] = step /\ conn'[t] = c
        /\ \A u \in Thread \ {t} : pc'[u] = pc[u] /\ conn'[u] = conn[u]
    BY <1>0, <1>1 DEF StepTypes
  <1>5. StateTypes'
    BY <1>0, <1>2 DEF StateTypes, table, slots, history
  <1>6. StepTypes'
    BY <1>0, <1>1, <1>2, <1>3, <1>4 DEF StepTypes, Home
  <1>7. TableInv' /\ Others(t) /\ \A d : Tied(t, d)' <=> Tied(t, d)
    BY <1>0, <1>2, SameTable DEF table, slots
  <1>8. Alone(t)  BY <1>2, <1>4, <1>7 DEF Alone, slots, history
  <1>9. KeepsConnection(t)'
    BY <1>0, <1>1, <1>2, <1>3, <1>4, <1>7
       DEF KeepsConnection, slots, history, Home, Away
  <1>10. KeepsChain(t)'
    BY <1>0, <1>1, <1>2, <1>4 DEF KeepsChain, history, slots
  <1> QED  BY <1>0, <1>5, <1>6, <1>7, <1>8, <1>9, <1>10, AloneKeeps DEF Good

LEMMA FillActions ==
  ASSUME IInv, NEW t \in Thread, FillCredential(t)
  PROVE  Good
  <1>0. /\ StateTypes /\ StepTypes /\ TableInv /\ KeptInv
        /\ KeepsConnection(t) /\ KeepsChain(t) /\ pc[t] = "credential"
    BY DEF IInv, KeptInv, FillCredential, At
  <1>1. /\ UNCHANGED <<aborted, alive, loggedIn, table, slots, history>>
        /\ EndOperation(t)
    BY DEF FillCredential
  <1>2. /\ StepTypes' /\ pc'[t] = "run" /\ conn'[t] = NoConnection
        /\ previous'[t].conn = NoConnection
        /\ \A u \in Thread \ {t} :
             pc'[u] = pc[u] /\ conn'[u] = conn[u] /\ previous'[u] = previous[u]
    BY <1>0, <1>1, Ended
  <1>3. StateTypes'
    BY <1>0, <1>1 DEF StateTypes, table, slots, history
  <1>4. TableInv' /\ Others(t) /\ \A d : Tied(t, d)' <=> Tied(t, d)
    BY <1>0, <1>1, SameTable DEF table, slots
  <1>5. Alone(t)  BY <1>1, <1>2, <1>4 DEF Alone, slots, history
  <1>6. KeepsConnection(t)'
    BY <1>0, <1>1, <1>2, <1>4 DEF KeepsConnection, slots, history, Home, Away
  <1>7. KeepsChain(t)'
    BY <1>0, <1>1, <1>2 DEF KeepsChain, history, slots
  <1> QED  BY <1>0, <1>2, <1>3, <1>4, <1>5, <1>6, <1>7, AloneKeeps DEF Good

\* save_state: the connection, ...
LEMMA SaveConnectionActions ==
  ASSUME IInv, NEW t \in Thread, SaveConnection(t)
  PROVE  Good
  <1>0. /\ StateTypes /\ StepTypes /\ TableInv /\ KeptInv
        /\ KeepsConnection(t) /\ KeepsChain(t) /\ pc[t] = "save_connection"
        /\ NoConnection \notin alive /\ previous[t] \in Saved
    BY ContextAssumption
       DEF IInv, KeptInv, SaveConnection, At, StateTypes, StepTypes
  <1> DEFINE p == [previous[t] EXCEPT !.conn = CurrentConnection(t)]
  <1>1. /\ UNCHANGED <<aborted, alive, loggedIn, table, slots, conn, history>>
        /\ pc' = [pc EXCEPT ![t] = "save_chain"]
        /\ previous' = [previous EXCEPT ![t] = p]
    BY DEF SaveConnection
  <1>2. CurrentConnection(t) \in alive \cup {NoConnection}
    BY <1>0, FoundAlive
  <1>3. p \in Saved /\ p.conn = CurrentConnection(t)
    BY <1>0, <1>2 DEF Saved, StateTypes
  <1> HIDE DEF p
  <1>4. chosen[t] \in alive => p.conn = chosen[t]
    BY <1>0, <1>3, FoundChosen DEF KeepsConnection, Home
  <1>5. /\ pc'[t] = "save_chain" /\ previous'[t] = p
        /\ \A u \in Thread \ {t} :
             pc'[u] = pc[u] /\ previous'[u] = previous[u]
    BY <1>0, <1>1 DEF StepTypes
  <1>6. StateTypes'
    BY <1>0, <1>1 DEF StateTypes, table, slots, history
  <1>7. StepTypes'
    BY <1>0, <1>1, <1>3, <1>5 DEF StepTypes, Home
  <1>8. TableInv' /\ Others(t) /\ \A d : Tied(t, d)' <=> Tied(t, d)
    BY <1>0, <1>1, SameTable DEF table, slots
  <1>9. Alone(t)  BY <1>1, <1>5, <1>8 DEF Alone, slots, history
  <1>10. KeepsConnection(t)'
    BY <1>0, <1>1, <1>2, <1>3, <1>4, <1>5, <1>8
       DEF KeepsConnection, slots, history, Home, Away
  <1>11. KeepsChain(t)'
    BY <1>0, <1>1, <1>5 DEF KeepsChain, history, slots
  <1> QED
    BY <1>0, <1>6, <1>7, <1>8, <1>9, <1>10, <1>11, AloneKeeps DEF Good

\* ... the chain, with the change to the context of the logout, ...
LEMMA SaveChainActions ==
  ASSUME IInv, NEW t \in Thread, SaveChain(t)
  PROVE  Good
  <1>0. /\ StateTypes /\ StepTypes /\ TableInv /\ KeptInv
        /\ KeepsConnection(t) /\ KeepsChain(t) /\ pc[t] = "save_chain"
        /\ NoConnection \notin alive /\ previous[t] \in Saved
        /\ conn[t] \in Connection /\ conn[t] \in alive
    BY ContextAssumption
       DEF IInv, KeptInv, SaveChain, At, StateTypes, StepTypes, KeepsConnection
  <1>1. /\ UNCHANGED <<alive, loggedIn, def_conn, own, signed, conn, chosen>>
    BY DEF SaveChain
  <1>2. CASE /\ aborted' = TRUE
             /\ UNCHANGED <<id2conn, current, joined, busid, pc, previous, asked>>
    <2>1. StateTypes' /\ StepTypes'
      BY <1>0, <1>1, <1>2 DEF StateTypes, StepTypes
    <2>2. TableInv' /\ Others(t) /\ \A d : Tied(t, d)' <=> Tied(t, d)
      BY <1>0, <1>1, <1>2, SameTable
    <2>3. Alone(t)  BY <1>1, <1>2, <2>2 DEF Alone
    <2>4. KeepsConnection(t)'
      BY <1>0, <1>1, <1>2, <2>2 DEF KeepsConnection
    <2>5. KeepsChain(t)'  BY <1>0, <1>1, <1>2 DEF KeepsChain
    <2> QED  BY <1>0, <2>1, <2>2, <2>3, <2>4, <2>5, AloneKeeps DEF Good
  <1>3. CASE /\ previous' = [previous EXCEPT ![t].chain = SeenChain(t)]
             /\ joined' = [joined EXCEPT ![t] = NoChain]
             /\ SetSlot(t, conn[t])
             /\ busid' = [busid EXCEPT ![t] = conn[t]]
             /\ pc' = [pc EXCEPT ![t] = "logout"]
             /\ asked' = [asked EXCEPT ![t] = SeenChain(t)]
             /\ UNCHANGED aborted
    <2> DEFINE p == [previous[t] EXCEPT !.chain = SeenChain(t)]
    <2>1. previous' = [previous EXCEPT ![t] = p]  BY <1>3
    <2>2. SeenChain(t) \in Chain \cup {NoChain}  BY <1>0, SeenChains
    <2>3. p \in Saved /\ p.chain = SeenChain(t) /\ p.conn = previous[t].conn
      BY <1>0, <2>2 DEF Saved
    <2> HIDE DEF p
    <2>4. PICK c \in Connection : c = conn[t]  BY <1>0
    <2>5. TableInv' /\ Others(t) /\ Tied(t, c)'
      BY <1>0, <1>1, <1>3, <2>4, SlotSet
    <2>6. StateTypes'
      BY <1>0, <1>1, <1>3, <2>2 DEF StateTypes
    <2>7. /\ pc'[t] = "logout" /\ previous'[t] = p /\ joined'[t] = NoChain
          /\ busid'[t] = conn[t] /\ asked'[t] = SeenChain(t)
          /\ \A u \in Thread \ {t} :
               /\ pc'[u] = pc[u] /\ previous'[u] = previous[u]
               /\ joined'[u] = joined[u] /\ busid'[u] = busid[u]
               /\ asked'[u] = asked[u]
      BY <1>0, <1>3, <2>1 DEF StateTypes, StepTypes
    <2>8. StepTypes'
      BY <1>0, <1>1, <1>3, <2>1, <2>3, <2>7 DEF StepTypes, Away
    <2>9. Alone(t)  BY <1>1, <2>5, <2>7 DEF Alone
    <2>10. KeepsConnection(t)'
      BY <1>0, <1>1, <2>3, <2>4, <2>5, <2>7
         DEF KeepsConnection, Home, Away, Tied
    <2>11. KeepsChain(t)'  BY <1>1, <2>3, <2>7 DEF KeepsChain
    <2> QED
      BY <1>0, <2>5, <2>6, <2>8, <2>9, <2>10, <2>11, AloneKeeps DEF Good
  <1> QED  BY <1>2, <1>3 DEF SaveChain

\* ... and ~save_state.
LEMMA RestoreActions ==
  ASSUME IInv, NEW t \in Thread, Restore(t)
  PROVE  Good
  <1>0. /\ StateTypes /\ StepTypes /\ TableInv /\ KeptInv
        /\ KeepsConnection(t) /\ KeepsChain(t) /\ pc[t] = "logout"
        /\ NoConnection \notin alive /\ previous[t] \in Saved
    BY ContextAssumption
       DEF IInv, KeptInv, Restore, At, StateTypes, StepTypes
  <1>1. /\ UNCHANGED <<alive, loggedIn, def_conn, own, signed, history>>
        /\ busid' = [busid EXCEPT ![t] = EmptyBus]
        /\ SetSlot(t, previous[t].conn)
        /\ Joins(t, previous[t].conn, previous[t].chain) /\ EndOperation(t)
    BY DEF Restore
  <1>2. PICK c \in Connection \cup {NoConnection}, chain \in Chain \cup {NoChain} :
          /\ c = previous[t].conn /\ chain = previous[t].chain
          /\ chain = asked[t]
          /\ chosen[t] \in alive => c = chosen[t]
    BY <1>0 DEF Saved, KeepsConnection, KeepsChain, Away
  <1>3. TableInv' /\ Others(t) /\ (c # NoConnection => Tied(t, c)')
    BY <1>0, <1>1, <1>2, SlotSet
  <1>4. /\ aborted' \in BOOLEAN
        /\ joined' \in [Thread -> Chain \cup {NoChain}]
        /\ \A u \in Thread \ {t} : joined'[u] = joined[u]
        /\ chain # NoChain => joined'[t] = chain
    BY <1>0, <1>1, <1>2, ChainJoined
  <1>5. /\ StepTypes' /\ pc'[t] = "run" /\ conn'[t] = NoConnection
        /\ previous'[t].conn = NoConnection
        /\ \A u \in Thread \ {t} :
             pc'[u] = pc[u] /\ conn'[u] = conn[u] /\ previous'[u] = previous[u]
    BY <1>0, <1>1, Ended
  <1>6. StateTypes'
    BY <1>0, <1>1, <1>4 DEF StateTypes, history
  <1>7. Alone(t)
    BY <1>0, <1>1, <1>3, <1>4, <1>5 DEF Alone, slots, history, StateTypes
  <1>8. KeepsConnection(t)'
    BY <1>0, <1>1, <1>2, <1>3, <1>5 DEF KeepsConnection, slots, history, Home, Away
  <1>9. KeepsChain(t)'
    BY <1>1, <1>2, <1>4, <1>5 DEF KeepsChain, history
  <1> QED  BY <1>0, <1>3, <1>5, <1>6, <1>7, <1>8, <1>9, AloneKeeps DEF Good

\* startSharedAuth.
LEMMA StartSharedAuthActions ==
  ASSUME IInv, NEW t \in Thread, NEW c \in Connection, StartSharedAuth(t, c)
  PROVE  Good
  <1>0. /\ StateTypes /\ StepTypes /\ TableInv /\ KeptInv
        /\ KeepsConnection(t) /\ KeepsChain(t) /\ pc[t] = "run"
        /\ NoConnection \notin alive /\ previous[t] \in Saved
        /\ c \in alive /\ c # NoConnection
        /\ t \in Dispatcher => signed[t] # NoChain
    BY ContextAssumption
       DEF IInv, KeptInv, StartSharedAuth, Ready, StateTypes, StepTypes
  <1>1. /\ UNCHANGED <<alive, loggedIn, def_conn, own, signed, joined, busid,
                       history>>
    BY DEF StartSharedAuth
  <1>2. CASE aborted' = TRUE /\ UNCHANGED <<id2conn, current, steps>>
    <2>1. StateTypes' /\ StepTypes'
      BY <1>0, <1>1, <1>2 DEF StateTypes, StepTypes, steps, history
    <2>2. TableInv' /\ Others(t) /\ \A d : Tied(t, d)' <=> Tied(t, d)
      BY <1>0, <1>1, <1>2, SameTable
    <2>3. Alone(t)  BY <1>1, <1>2, <2>2 DEF Alone, steps, history
    <2>4. KeepsConnection(t)'
      BY <1>0, <1>1, <1>2, <2>2 DEF KeepsConnection, steps, slots, history
    <2>5. KeepsChain(t)'
      BY <1>0, <1>1, <1>2 DEF KeepsChain, steps, history
    <2> QED  BY <1>0, <2>1, <2>2, <2>3, <2>4, <2>5, AloneKeeps DEF Good
  <1>3. CASE /\ previous' = [previous EXCEPT ![t].conn = CurrentConnection(t)]
             /\ SetSlot(t, c)
             /\ pc' = [pc EXCEPT ![t] = "auth"]
             /\ conn' = [conn EXCEPT ![t] = c]
             /\ UNCHANGED aborted
    <2> DEFINE p == [previous[t] EXCEPT !.conn = CurrentConnection(t)]
    <2>1. previous' = [previous EXCEPT ![t] = p]  BY <1>3
    <2>2. CurrentConnection(t) \in alive \cup {NoConnection}
      BY <1>0, FoundAlive
    <2>3. p \in Saved /\ p.conn = CurrentConnection(t)
      BY <1>0, <2>2 DEF Saved, StateTypes
    <2> HIDE DEF p
    <2>4. chosen[t] \in alive => p.conn = chosen[t]
      BY <1>0, <2>3, FoundChosen DEF KeepsConnection, Home
    <2>5. TableInv' /\ Others(t) /\ Tied(t, c)'
      BY <1>0, <1>1, <1>3, SlotSet
    <2>6. StateTypes'
      BY <1>0, <1>1, <1>3 DEF StateTypes, history
    <2>7. /\ pc'[t] = "auth" /\ previous'[t] = p /\ conn'[t] = c
          /\ \A u \in Thread \ {t} :
               /\ pc'[u] = pc[u] /\ previous'[u] = previous[u]
               /\ conn'[u] = conn[u]
      BY <1>0, <1>3, <2>1 DEF StepTypes
    <2>8. StepTypes'
      BY <1>0, <1>3, <2>1, <2>3, <2>7 DEF StepTypes, Away
    <2>9. Alone(t)  BY <1>1, <2>5, <2>7 DEF Alone, slots, history
    <2>10. KeepsConnection(t)'
      BY <1>0, <1>1, <2>2, <2>3, <2>4, <2>5, <2>7
         DEF KeepsConnection, history, slots, Home, Away, Tied
    <2>11. KeepsChain(t)'
      BY <1>0, <1>1, <2>7 DEF KeepsChain, history
    <2> QED
      BY <1>0, <2>5, <2>6, <2>8, <2>9, <2>10, <2>11, AloneKeeps DEF Good
  <1> QED  BY <1>2, <1>3 DEF StartSharedAuth

LEMMA EndSharedAuthActions ==
  ASSUME IInv, NEW t \in Thread, EndSharedAuth(t)
  PROVE  Good
  <1>0. /\ StateTypes /\ StepTypes /\ TableInv /\ KeptInv
        /\ KeepsConnection(t) /\ KeepsChain(t) /\ pc[t] = "auth"
        /\ NoConnection \notin alive /\ previous[t] \in Saved
    BY ContextAssumption
       DEF IInv, KeptInv, EndSharedAuth, At, StateTypes, StepTypes
  <1>1. /\ UNCHANGED <<alive, loggedIn, def_conn, own, signed, joined, busid,
                       history>>
    BY DEF EndSharedAuth
  <1>2. CASE aborted' = TRUE /\ UNCHANGED <<id2conn, current, steps>>
    <2>1. StateTypes' /\ StepTypes'
      BY <1>0, <1>1, <1>2 DEF StateTypes, StepTypes, steps, history
    <2>2. TableInv' /\ Others(t) /\ \A d : Tied(t, d)' <=> Tied(t, d)
      BY <1>0, <1>1, <1>2, SameTable
    <2>3. Alone(t)  BY <1>1, <1>2, <2>2 DEF Alone, steps, history
    <2>4. KeepsConnection(t)'
      BY <1>0, <1>1, <1>2, <2>2 DEF KeepsConnection, steps, slots, history
    <2>5. KeepsChain(t)'
      BY <1>0, <1>1, <1>2 DEF KeepsChain, steps, history
    <2> QED  BY <1>0, <2>1, <2>2, <2>3, <2>4, <2>5, AloneKeeps DEF Good
  <1>3. CASE SetSlot(t, previous[t].conn) /\ EndOperation(t) /\ UNCHANGED aborted
    <2>1. PICK c \in Connection \cup {NoConnection} :
            /\ c = previous[t].conn
            /\ chosen[t] \in alive => c = chosen[t]
      BY <1>0 DEF Saved, KeepsConnection, Away
    <2>2. SetSlot(t, c)  BY <1>3, <2>1
    <2>3. TableInv' /\ Others(t) /\ (c # NoConnection => Tied(t, c)')
      BY <1>0, <1>1, <2>1, <2>2, SlotSet
    <2>4. /\ StepTypes' /\ pc'[t] = "run" /\ conn'[t] = NoConnection
          /\ previous'[t].conn = NoConnection
          /\ \A u \in Thread \ {t} :
               /\ pc'[u] = pc[u] /\ conn'[u] = conn[u]
               /\ previous'[u] = previous[u]
      BY <1>0, <1>3, Ended
    <2>5. StateTypes'  BY <1>0, <1>1, <1>3 DEF StateTypes, history
    <2>6. Alone(t)  BY <1>1, <2>3, <2>4 DEF Alone, slots, history
    <2>7. KeepsConnection(t)'
      BY <1>0, <1>1, <2>1, <2>3, <2>4 DEF KeepsConnection, slots, history, Home, Away
    <2>8. KeepsChain(t)'
      BY <1>0, <1>1, <2>4 DEF KeepsChain, history
    <2> QED  BY <1>0, <2>3, <2>4, <2>5, <2>6, <2>7, <2>8, AloneKeeps DEF Good
  <1> QED  BY <1>2, <1>3 DEF EndSharedAuth

\* The dispatch of a call, which brings its own connection and no chain.
LEMMA DispatchActions ==
  ASSUME IInv, NEW t \in Thread, NEW c \in Connection, NEW chain \in Chain,
         Dispatch(t, c, chain)
  PROVE  Good
  <1>0. /\ StateTypes /\ StepTypes /\ TableInv /\ KeptInv
        /\ KeepsConnection(t) /\ KeepsChain(t) /\ pc[t] = "run"
    BY DEF IInv, KeptInv, KeepsConnection, Dispatch
  <1>1. /\ UNCHANGED <<aborted, alive, loggedIn, def_conn, joined, busid, steps,
                       asked>>
        /\ signed' = [signed EXCEPT ![t] = chain]
        /\ chosen' = [chosen EXCEPT ![t] = c]
    BY DEF Dispatch
  <1>2. TableInv' /\ Others(t) /\ Tied(t, c)'  BY <1>0, DispatchSet
  <1>3. StateTypes' /\ StepTypes'
    BY <1>0, <1>1 DEF StateTypes, StepTypes, steps
  <1>4. /\ chosen'[t] = c
        /\ \A u \in Thread \ {t} :
             chosen'[u] = chosen[u] /\ signed'[u] = signed[u]
    BY <1>0, <1>1 DEF StateTypes
  <1>5. Alone(t)  BY <1>1, <1>2, <1>4 DEF Alone, steps
  <1>6. KeepsConnection(t)'
    BY <1>0, <1>1, <1>2, <1>4 DEF KeepsConnection, steps, Away
  <1>7. KeepsChain(t)'  BY <1>0, <1>1 DEF KeepsChain, steps
  <1> QED  BY <1>0, <1>2, <1>3, <1>5, <1>6, <1>7, AloneKeeps DEF Good

LEMMA EndDispatchActions ==
  ASSUME IInv, NEW t \in Thread, EndDispatch(t)
  PROVE  Good
  <1>0. /\ StateTypes /\ StepTypes /\ TableInv /\ KeptInv
        /\ KeepsConnection(t) /\ KeepsChain(t) /\ pc[t] = "run"
        /\ NoConnection \notin alive
    BY ContextAssumption DEF IInv, KeptInv, EndDispatch, Ready, StateTypes
  <1>1. /\ UNCHANGED <<aborted, alive, loggedIn, def_conn, steps>>
        /\ signed' = [signed EXCEPT ![t] = NoChain]
        /\ joined' = [joined EXCEPT ![t] = NoChain]
        /\ busid' = [busid EXCEPT ![t] = UnsetBus]
        /\ chosen' = [chosen EXCEPT ![t] = NoConnection]
        /\ asked' = [asked EXCEPT ![t] = NoChain]
    BY DEF EndDispatch
  <1>2. TableInv' /\ Others(t)  BY <1>0, EndDispatchSet
  <1>3. StateTypes' /\ StepTypes'
    BY <1>0, <1>1 DEF StateTypes, StepTypes, steps
  <1>4. /\ chosen'[t] = NoConnection /\ asked'[t] = NoChain
        /\ \A u \in Thread \ {t} :
             /\ chosen'[u] = chosen[u] /\ asked'[u] = asked[u]
             /\ joined'[u] = joined[u] /\ busid'[u] = busid[u]
             /\ signed'[u] = signed[u]
    BY <1>0, <1>1 DEF StateTypes
  <1>5. Alone(t)  BY <1>1, <1>2, <1>4 DEF Alone, steps
  <1>6. KeepsConnection(t)'
    BY <1>0, <1>1, <1>4 DEF KeepsConnection, steps, Away
  <1>7. KeepsChain(t)'  BY <1>0, <1>1, <1>4 DEF KeepsChain, steps
  <1> QED  BY <1>0, <1>2, <1>3, <1>5, <1>6, <1>7, AloneKeeps DEF Good
-----------------------------------------------------------------------------
LEMMA InitHolds ==
  ASSUME Init
  PROVE  IInv
  <1>0. /\ NoConnection \notin Connection /\ NoChain \notin Chain
        /\ NoId \notin Id
    BY ContextAssumption
  <1>1. StateTypes  BY DEF Init, StateTypes
  <1>2. NothingSaved \in Saved /\ NothingSaved.conn = NoConnection
    BY DEF NothingSaved, Saved
  <1>3. StepTypes  BY <1>2 DEF Init, StepTypes, Home
  <1>4. TableInv  BY <1>0 DEF Init, TableInv, TableTypes, SlotInv
  <1>5. ASSUME NEW t \in Thread
        PROVE  KeepsConnection(t) /\ KeepsChain(t)
    BY <1>0, <1>2 DEF Init, KeepsConnection, KeepsChain, Home, Away
  <1> QED  BY <1>1, <1>3, <1>4, <1>5 DEF IInv, KeptInv

LEMMA NextHolds ==
  ASSUME IInv, [Next]_vars
  PROVE  IInv'
  <1>1. CASE UNCHANGED vars
    BY <1>1 DEF IInv, StateTypes, StepTypes, TableInv, TableTypes, SlotInv,
                KeptInv, KeepsConnection, KeepsChain, Tied, vars, table, slots,
                steps, history
  <1>2. ASSUME NEW t \in Thread,
               \/ \E c \in alive \cup {NoConnection} :
                    SetDefaultConnection(t, c) \/ SetCurrentConnection(t, c)
               \/ \E chain \in Chain \cup {NoChain} : JoinChain(t, chain)
               \/ \E c \in Connection : Logout(t, c) \/ StartSharedAuth(t, c)
               \/ \E c \in Connection, chain \in Chain : Dispatch(t, c, chain)
               \/ ExitChain(t) \/ SaveConnection(t) \/ SaveChain(t) \/ Restore(t)
               \/ EndSharedAuth(t) \/ SendRequest(t) \/ FillCredential(t)
               \/ EndDispatch(t)
        PROVE  Good
    BY <1>2, SetActions, ChainActions, BeginActions, StartSharedAuthActions,
       DispatchActions, SaveConnectionActions, SaveChainActions, RestoreActions,
       EndSharedAuthActions, FillActions, EndDispatchActions
  <1>3. ASSUME NEW c \in Connection, Login(c) \/ LoginDropped(c) \/ Destroy(c)
        PROVE  Good
    BY <1>3, StateActions
  <1>4. CASE Good  BY <1>4 DEF Good, IInv
  <1> QED  BY <1>1, <1>2, <1>3, <1>4 DEF Next

\* Every slot has an id of its own, which leads to the connection of its thread.
THEOREM ContextInOrder == Spec => []IInv
  <1> QED  BY InitHolds, NextHolds, PTL DEF Spec

\* The types of the variables.
THEOREM TypeCorrect == Spec => []TypeOK
  <1>1. IInv => TypeOK
    BY DEF IInv, StateTypes, StepTypes, TableInv, TableTypes, Home, Away, Saved,
           TypeOK
  <1> QED  BY <1>1, ContextInOrder, PTL

\* What a thread has set in its context is what its requests go out with.
THEOREM ContextKeptHolds == Spec => []ContextKept
  <1>1. ASSUME IInv
        PROVE  ContextKept
    <2>1. ASSUME NEW t \in Thread
          PROVE  KeepsConnection(t) /\ KeepsChain(t)
      BY <1>1 DEF IInv, KeptInv
    <2>2. StateTypes  BY <1>1 DEF IInv
    <2>3. ConnectionKept
      BY <2>1, <2>2, FoundChosen DEF ConnectionKept, KeepsConnection, Home
    <2>4. ChainKept  BY <2>1 DEF ChainKept, KeepsChain
    <2> QED  BY <2>3, <2>4 DEF ContextKept
  <1> QED  BY <1>1, ContextInOrder, PTL

\* The remote logout goes out by its connection, on its bus and in no chain.
THEOREM LogoutRequestHolds == Spec => []LogoutRequest
  <1>1. ASSUME IInv
        PROVE  LogoutRequest
    <2>1. SUFFICES ASSUME NEW t \in Thread, pc[t] = "logout"
                   PROVE  /\ RequestConnection(t) = conn[t]
                          /\ CredentialBus(t) = conn[t]
                          /\ joined[t] = NoChain
      BY DEF LogoutRequest
    <2>2. StateTypes /\ StepTypes /\ KeepsConnection(t) /\ KeepsChain(t)
      BY <1>1 DEF IInv, KeptInv
    <2>3. /\ conn[t] \in Connection /\ conn[t] \in alive /\ conn[t] # UnsetBus
          /\ Tied(t, conn[t])
      BY <2>1, <2>2, ContextAssumption
         DEF StepTypes, KeepsConnection, Away
    <2>4. RequestConnection(t) = conn[t]  BY <2>2, <2>3, FoundChosen
    <2>5. joined[t] = NoChain /\ busid[t] = conn[t]
      BY <2>1, <2>2 DEF KeepsChain
    <2>6. CredentialBus(t) = conn[t]
      BY <2>3, <2>5 DEF CredentialBus
    <2> QED  BY <2>4, <2>5, <2>6
  <1> QED  BY <1>1, ContextInOrder, PTL
=============================================================================
