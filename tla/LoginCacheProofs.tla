-------------------------- MODULE LoginCacheProofs --------------------------
(***************************************************************************)
(* How stale a login accepted by reads that are not torn may be, and that  *)
(* concurrent lookups do not replace one another's entries: for any number *)
(* of threads, logins and entries, any lease and any delay.                *)
(***************************************************************************)
EXTENDS LoginCache, LRUCacheProofs, FiniteSetTheorems

Steps == {"idle", "info", "insert", "check", "validity", "store", "stamp",
          "answer", "valid"}

\* The cache is in step and holds entries under logins.
CacheInv == cache \in Cache(LoginId, Entry) /\ cache.currSize <= MaxSize

TypeInv ==
  /\ now \in Nat
  /\ entry \in [Entry -> [time2live : Int, timeUpdated : Nat]]
  /\ pc \in [Thread -> Steps]
  /\ id \in [Thread -> LoginId \cup {NoLogin}]
  /\ login \in [Thread -> Entry \cup {NoData}]
  /\ validity \in [Thread -> Nat]
  /\ answered \in [Thread -> Nat]
  /\ read \in [Thread -> SUBSET Operands]
  /\ seen \in [Thread -> [time2live : Int, clock : Nat, timeUpdated : Nat]]
  /\ torn \in [Thread -> BOOLEAN]
  /\ expires \in [LoginId -> Nat]
  /\ known \in [LoginId -> Nat]
  /\ \A e \in Entry : entry[e].timeUpdated <= now
  /\ \A t \in Thread :
       /\ pc[t] = "idle" => login[t] = NoData
       /\ pc[t] # "idle" => id[t] \in LoginId /\ login[t] \in Entry
       /\ pc[t] # "check" => read[t] = {}

\* An entry that two refer to, threads or pairs of the cache, is of one login,
\* and nobody else has a new entry that is not in the cache yet.
Fresh(t) == pc[t] \in {"info", "insert"}
OneLogin ==
  /\ \A t, u \in Thread :
       login[t] = login[u] /\ login[t] # NoData => id[t] = id[u]
  /\ \A t \in Thread : \A p \in Pairs(cache) : login[t] = p.data => id[t] = p.key
  /\ \A p, q \in Pairs(cache) : p.data = q.data => p.key = q.key
NewIsOwn ==
  \A t \in Thread : Fresh(t) =>
    /\ \A p \in Pairs(cache) : p.data # login[t]
    /\ \A u \in Thread \ {t} : login[u] # login[t]
OwnerInv == OneLogin /\ NewIsOwn

\* A validity in an entry ends at most twice the delay after the time until
\* which the bus has said that the login is valid; once the delay, counted from
\* the answers that are not stamped yet.  What a thread has read of an entry is
\* what the entry holds until all is read, unless the reads are torn.
Within(e, i) ==
  entry[e].time2live > 0 =>
    entry[e].time2live + entry[e].timeUpdated <= known[i] + 2 * Delay
InDelay(t) ==
  pc[t] \in {"store", "stamp", "answer"} =>
    answered[t] <= now /\ now <= answered[t] + Delay
ClockInDelay(t) ==
  "clock" \in read[t] => seen[t].clock <= now /\ now <= seen[t].clock + Delay
AnswerKnown(t) ==
  pc[t] = "store" /\ validity[t] > 0 => answered[t] + validity[t] <= known[id[t]]
StoredInDelay(t) ==
  pc[t] \in {"stamp", "answer"} /\ entry[login[t]].time2live > 0 =>
    answered[t] + entry[login[t]].time2live <= known[id[t]] + Delay
EntryWithin(t) ==
  pc[t] \in {"check", "validity", "store", "stamp", "answer"} =>
    Within(login[t], id[t])
SeenOfEntry(t) ==
  pc[t] = "check" /\ ~torn[t] /\ read[t] # Operands =>
    /\ "time2live" \in read[t] => seen[t].time2live = entry[login[t]].time2live
    /\ "timeUpdated" \in read[t] =>
         seen[t].timeUpdated = entry[login[t]].timeUpdated
    /\ "clock" \in read[t] => entry[login[t]].timeUpdated <= seen[t].clock
SeenWithin(t) ==
  pc[t] = "check" /\ ~torn[t] /\ read[t] = Operands =>
    /\ seen[t].timeUpdated <= seen[t].clock
    /\ seen[t].time2live > 0 =>
         seen[t].time2live + seen[t].timeUpdated <= known[id[t]] + 2 * Delay
ThreadTimes(t) ==
  /\ InDelay(t) /\ AnswerKnown(t) /\ StoredInDelay(t) /\ EntryWithin(t)
  /\ ClockInDelay(t) /\ SeenOfEntry(t) /\ SeenWithin(t)
TimeInv ==
  /\ \A t \in Thread : ThreadTimes(t)
  /\ \A p \in Pairs(cache) : Within(p.data, p.key)

\* The inductive invariant.
IInv == CacheInv /\ TypeInv /\ OwnerInv /\ TimeInv
-----------------------------------------------------------------------------
\* There are entries enough for the cache and every thread but the one that asks.
LEMMA UnusedEntry ==
  ASSUME CacheInv, TypeInv, NEW t \in Thread, login[t] = NoData
  PROVE  \E e \in Entry : Unused(e)
  <1> DEFINE L == Len(cache.list)
             A == {cache.list[i].data : i \in 1 .. L}
             B == {login[u] : u \in Thread \ {t}}
             f == [i \in 1 .. L |-> cache.list[i].data]
             g == [u \in Thread \ {t} |-> login[u]]
  <1>1. /\ L \in Nat /\ L <= MaxSize /\ MaxSize \in Nat
        /\ DOMAIN cache.list = 1 .. L
    BY CacheFacts, MaxSizeAssumption DEF CacheInv
  <1>2. IsFiniteSet(A) /\ Cardinality(A) <= L /\ Cardinality(A) \in Nat
    <2>1. f \in Surjection(1 .. L, A)  BY DEF Surjection
    <2>2. IsFiniteSet(1 .. L) /\ Cardinality(1 .. L) = L
      BY <1>1, FS_Interval
    <2> HIDE DEF A, f, L
    <2>3. IsFiniteSet(A) /\ Cardinality(A) <= Cardinality(1 .. L)
      BY <2>1, <2>2, FS_Surjection
    <2> QED  BY <2>2, <2>3, FS_CardinalityType
  <1>3. /\ IsFiniteSet(Thread \ {t})
        /\ Cardinality(Thread \ {t}) = Cardinality(Thread) - 1
        /\ Cardinality(Thread) \in Nat
    BY FS_RemoveElement, FS_CardinalityType, LoginCacheAssumption
  <1>4. /\ IsFiniteSet(B) /\ Cardinality(B) <= Cardinality(Thread) - 1
        /\ Cardinality(B) \in Nat
    <2>1. g \in Surjection(Thread \ {t}, B)  BY DEF Surjection
    <2> HIDE DEF B, g
    <2>2. IsFiniteSet(B) /\ Cardinality(B) <= Cardinality(Thread \ {t})
      BY <2>1, <1>3, FS_Surjection
    <2> QED  BY <2>2, <1>3, FS_CardinalityType
  <1>5. SUFFICES ASSUME \A e \in Entry : ~Unused(e)
                 PROVE  FALSE
    OBVIOUS
  <1>6. Entry \in SUBSET (A \cup B)
    <2> SUFFICES ASSUME NEW e \in Entry
                 PROVE  e \in A \cup B
      OBVIOUS
    <2>1. Cached(e) => e \in A  BY <1>1 DEF Cached
    <2>2. ASSUME NEW u \in Thread, login[u] = e
          PROVE  e \in B
      BY <2>2, LoginCacheAssumption
    <2> QED  BY <1>5, <2>1, <2>2 DEF Unused
  <1> HIDE DEF A, B, L
  <1>7. /\ IsFiniteSet(A \cup B)
        /\ Cardinality(A \cup B) =
             Cardinality(A) + Cardinality(B) - Cardinality(A \cap B)
    BY <1>2, <1>4, FS_Union
  <1>8. Cardinality(A \cap B) \in Nat
    <2>1. IsFiniteSet(A \cap B)
      <3>1. A \cap B \in SUBSET A  OBVIOUS
      <3> QED  BY <3>1, <1>2, FS_Subset
    <2> QED  BY <2>1, FS_CardinalityType
  <1>9. Cardinality(Entry) <= Cardinality(A \cup B)
    BY <1>6, <1>7, FS_Subset
  <1>10. Cardinality(Entry) \in Nat
    BY FS_CardinalityType, LoginCacheAssumption
  <1>11. Cardinality(Entry) >= MaxSize + Cardinality(Thread)
    BY LoginCacheAssumption
  <1> QED  BY <1>1, <1>2, <1>3, <1>4, <1>7, <1>8, <1>9, <1>10, <1>11
-----------------------------------------------------------------------------
(* Who refers to an entry.                                                   *)

\* Another thread than t is as it was.
Same(u) == pc'[u] = pc[u] /\ id'[u] = id[u] /\ login'[u] = login[u]

\* What a thread may come to refer to while the cache holds the same pairs:
\* nothing, what it has, an entry of the cache, one that nobody has.
GivesUp(t) == login'[t] = NoData /\ ~Fresh(t)'
Keeps(t) == login'[t] = login[t] /\ id'[t] = id[t] /\ (Fresh(t)' => Fresh(t))
Takes(t) == ~Fresh(t)' /\ \E p \in Pairs(cache) : p.key = id'[t] /\ p.data = login'[t]
Creates(t) ==
  /\ \A p \in Pairs(cache) : p.data # login'[t]
  /\ \A u \in Thread : login[u] # login'[t]

LEMMA OwnersAfter ==
  ASSUME TypeInv, CacheInv, OwnerInv, NEW t \in Thread, \A u \in Thread \ {t} : Same(u),
         Pairs(cache') = Pairs(cache),
         GivesUp(t) \/ Keeps(t) \/ Takes(t) \/ Creates(t)
  PROVE  OwnerInv'
  <1>1. \A p \in Pairs(cache) : p.data # NoData
    <2>1. \A p \in Pairs(cache) : p.data \in Entry
      BY CacheFacts DEF CacheInv, Pairs
    <2> QED  BY <2>1, LoginCacheAssumption
  <1>2. \A u \in Thread \ {t} : login'[u] = login[u] /\ id'[u] = id[u]
                                /\ (Fresh(u)' <=> Fresh(u))
    BY DEF Same, Fresh
  <1>3. OneLogin /\ NewIsOwn  BY DEF OwnerInv
  <1>4. CASE GivesUp(t)
    <2>1. OneLogin'  BY <1>1, <1>2, <1>3, <1>4 DEF GivesUp, OneLogin
    <2>2. NewIsOwn'
      <3> SUFFICES ASSUME NEW u \in Thread, Fresh(u)'
                   PROVE  /\ \A p \in Pairs(cache) : p.data # login'[u]
                          /\ \A v \in Thread \ {u} : login'[v] # login'[u]
        BY DEF NewIsOwn
      <3>1. u # t /\ Fresh(u)  BY <1>2, <1>4 DEF GivesUp
      <3>2. login[u] # NoData  BY <3>1, LoginCacheAssumption DEF TypeInv, Fresh
      <3> QED  BY <3>1, <3>2, <1>2, <1>3, <1>4 DEF GivesUp, NewIsOwn
    <2> QED  BY <2>1, <2>2 DEF OwnerInv
  <1>5. CASE Keeps(t)
    BY <1>2, <1>3, <1>5 DEF Keeps, OneLogin, NewIsOwn, OwnerInv
  <1>6. CASE Takes(t)
    BY <1>1, <1>2, <1>3, <1>6 DEF Takes, OneLogin, NewIsOwn, OwnerInv
  <1>7. CASE Creates(t)
    BY <1>2, <1>3, <1>7 DEF Creates, OneLogin, NewIsOwn, OwnerInv
  <1> QED  BY <1>4, <1>5, <1>6, <1>7
-----------------------------------------------------------------------------
Seens == [time2live : Int, clock : Nat, timeUpdated : Nat]
LEMMA UnseenType == Unseen \in [time2live : Int, clock : Nat, timeUpdated : Nat]
  BY DEF Unseen

\* The operand that a thread reads is a number.
LEMMA SeenType ==
  ASSUME TypeInv, NEW t \in Thread, NEW o \in Operands, Read(t, o)
  PROVE  seen' \in [Thread -> Seens]
  <1>1. pc[t] = "check" /\ login[t] \in Entry  BY DEF Read, TypeInv
  <1>2. /\ now \in Nat /\ entry[login[t]].time2live \in Int
        /\ entry[login[t]].timeUpdated \in Nat
        /\ seen \in [Thread -> Seens]
    BY <1>1 DEF TypeInv, Seens
  <1>3. CASE o = "clock"  BY <1>2, <1>3 DEF Read, Operand, Seens
  <1>4. CASE o = "time2live"  BY <1>2, <1>4 DEF Read, Operand, Seens
  <1>5. CASE o = "timeUpdated"  BY <1>2, <1>5 DEF Read, Operand, Seens
  <1> QED  BY <1>3, <1>4, <1>5 DEF Operands

LEMMA TypeNext ==
  ASSUME IInv, [Next]_vars, CacheInv'
  PROVE  TypeInv'
  <1>0. TypeInv /\ CacheInv /\ LoginCacheAssumption /\ MaxSizeAssumption
    BY LoginCacheAssumption, MaxSizeAssumption DEF IInv
  <1>13. ASSUME NEW t \in Thread, Refuse(t),
                UNCHANGED <<now, cache, entry, expires, known>>
         PROVE  TypeInv'
    BY <1>0, <1>13, UnseenType DEF TypeInv, Goto, Refuse, Forget, Steps
  <1>14. ASSUME NEW t \in Thread, Accept(t), pc[t] # "idle",
                UNCHANGED <<now, cache, entry, expires, known>>
         PROVE  TypeInv'
    BY <1>0, <1>14, UnseenType DEF TypeInv, Goto, Accept, Forget, Steps
  <1>1. ASSUME NEW t \in Thread, NEW i \in LoginId, Lookup(t, i)
        PROVE  TypeInv'
    <2>1. login[t] = NoData  BY <1>0, <1>1 DEF Lookup, TypeInv
    <2>2. \E e \in Entry : Unused(e)  BY <1>0, <2>1, UnusedEntry
    <2>3. (CHOOSE e \in Entry : Unused(e)) \in Entry  BY <2>2
    <2>4. exists(cache, i) => datum(cache, i) \in Entry
      BY <1>0, PairOfDatum DEF CacheInv
    <2>5. PICK e \in Entry : login' = [login EXCEPT ![t] = e]
                             /\ (Goto(t, "check") \/ Goto(t, "info"))
      BY <1>1, <2>3, <2>4 DEF Lookup
    <2> QED  BY <1>0, <1>1, <2>5 DEF Lookup, TypeInv, Goto, Steps, operandVars
  <1>2. ASSUME NEW t \in Thread, Info(t)
        PROVE  TypeInv'
    <2>1. CASE Goto(t, "insert") /\ UNCHANGED <<id, login, validity, answered,
                                                operandVars>>
      BY <1>0, <1>2, <2>1 DEF Info, TypeInv, Goto, Steps, operandVars
    <2>2. CASE Refuse(t)  BY <1>2, <2>2, <1>13 DEF Info
    <2> QED  BY <1>2, <2>1, <2>2 DEF Info
  <1>3. ASSUME NEW t \in Thread, Insert(t)
        PROVE  TypeInv'
    <2>1. exists(cache, id[t]) => datum(cache, id[t]) \in Entry
      BY <1>0, PairOfDatum DEF CacheInv
    <2>2. id[t] \in LoginId /\ login[t] \in Entry
      BY <1>0, <1>3 DEF Insert, TypeInv
    <2>3. CASE exists(cache, id[t])
      BY <1>0, <1>3, <2>1, <2>2, <2>3 DEF Insert, TypeInv, Goto, Steps,
                                          operandVars
    <2>4. CASE ~exists(cache, id[t])
      <3> DEFINE new == [time2live |-> -1, timeUpdated |-> now]
      <3>1. entry' = [entry EXCEPT ![login[t]] = new]
        BY <1>3, <2>4 DEF Insert
      <3>2. new \in [time2live : Int, timeUpdated : Nat]
            /\ new.timeUpdated = now
        BY <1>0 DEF TypeInv
      <3> HIDE DEF new
      <3>3. entry' \in [Entry -> [time2live : Int, timeUpdated : Nat]]
            /\ \A e \in Entry : entry'[e].timeUpdated <= now
        BY <1>0, <2>2, <3>1, <3>2 DEF TypeInv
      <3> QED
        BY <1>0, <1>3, <2>2, <2>4, <3>3 DEF Insert, TypeInv, Goto, Steps,
                                            operandVars
    <2> QED  BY <2>3, <2>4
  <1>4. ASSUME NEW t \in Thread, Check(t)
        PROVE  TypeInv'
    <2>1. CASE Accept(t)  BY <1>4, <2>1, <1>14 DEF Check
    <2>2. CASE /\ Goto(t, "validity") /\ Forget(t)
               /\ UNCHANGED <<id, login, validity, answered>>
      BY <1>0, <1>4, <2>2, UnseenType DEF Check, TypeInv, Goto, Forget, Steps
    <2> QED  BY <1>4, <2>1, <2>2 DEF Check
  <1>5. ASSUME NEW t \in Thread, Validity(t)
        PROVE  TypeInv'
    <2>1. id[t] \in LoginId  BY <1>0, <1>5 DEF Validity, TypeInv
    <2>2. Latest(expires[id[t]] - now, 0) \in Nat
      BY <1>0, <2>1 DEF Latest, TypeInv
    <2>3. \A left \in Nat : Latest(known[id[t]], now + left) \in Nat
      BY <1>0, <2>1 DEF Latest, TypeInv
    <2>4. CASE Refuse(t) /\ UNCHANGED known
      BY <1>0, <1>5, <2>4, UnseenType
         DEF Validity, TypeInv, Goto, Refuse, Forget, Steps
    <2>5. ASSUME NEW left \in Nat,
                 validity' = [validity EXCEPT ![t] = left],
                 answered' = [answered EXCEPT ![t] = now],
                 known' = IF left > 0
                   THEN [known EXCEPT ![id[t]] = Latest(known[id[t]], now + left)]
                   ELSE known,
                 Goto(t, "store"), UNCHANGED <<id, login, operandVars>>
          PROVE  TypeInv'
      <3>1. known' \in [LoginId -> Nat]  BY <1>0, <2>1, <2>3, <2>5 DEF TypeInv
      <3> QED  BY <1>0, <1>5, <2>5, <3>1 DEF Validity, TypeInv, Goto, Steps,
                                             operandVars
    <2> QED  BY <1>5, <2>2, <2>4, <2>5 DEF Validity
  <1>6. ASSUME NEW t \in Thread, Store(t)
        PROVE  TypeInv'
    BY <1>0, <1>6 DEF Store, TypeInv, Goto, Steps, Tears
  <1>7. ASSUME NEW t \in Thread, Stamp(t)
        PROVE  TypeInv'
    BY <1>0, <1>7 DEF Stamp, TypeInv, Goto, Steps, Tears
  <1>8. ASSUME NEW t \in Thread, Answer(t) \/ Release(t)
        PROVE  TypeInv'
    <2>1. CASE Accept(t)  BY <1>8, <2>1, <1>14 DEF Answer, Release, Refuse, Accept
    <2>2. CASE Refuse(t)  BY <1>8, <2>2, <1>13 DEF Answer, Release
    <2> QED  BY <1>8, <2>1, <2>2 DEF Answer, Release
  <1>9. ASSUME NEW i \in LoginId, BusRenews(i) \/ BusInvalidates(i)
        PROVE  TypeInv'
    BY <1>0, <1>9 DEF BusRenews, BusInvalidates, TypeInv, threadVars,
                      operandVars, LoginCacheAssumption
  <1>10. CASE Tick
    BY <1>0, <1>10 DEF Tick, TypeInv, threadVars, operandVars
  <1>11. CASE UNCHANGED vars
    BY <1>0, <1>11 DEF vars, threadVars, operandVars, TypeInv
  <1>12. ASSUME NEW t \in Thread, NEW o \in Operands, Read(t, o)
         PROVE  TypeInv'
    <2>1. seen' \in [Thread -> [time2live : Int, clock : Nat, timeUpdated : Nat]]
      BY <1>0, <1>12, SeenType DEF Seens
    <2> QED  BY <1>0, <1>12, <2>1 DEF Read, TypeInv
  <1> QED
    BY <1>1, <1>2, <1>3, <1>4, <1>5, <1>6, <1>7, <1>8, <1>9, <1>10, <1>11, <1>12
       DEF Next
-----------------------------------------------------------------------------
\* What a thread that inserts does to the cache.
NewPair(t) == [key |-> id[t], data |-> login[t]]

LEMMA InsertedPairs ==
  ASSUME IInv, NEW t \in Thread, pc[t] = "insert",
         cache' = insert(cache, id[t], login[t])
  PROVE  /\ CacheInv'
         /\ Pairs(cache') \subseteq Pairs(cache) \cup {NewPair(t)}
         /\ \E k \in LoginId :
              \/ Pairs(cache') = PairsWith(cache, id[t], login[t])
              \/ Pairs(cache') =
                   {p \in PairsWith(cache, id[t], login[t]) : p.key # k}
  <1>1. id[t] \in LoginId /\ login[t] \in Entry  BY DEF IInv, TypeInv
  <1>2. cache \in Cache(LoginId, Entry) /\ cache.currSize <= MaxSize
    BY DEF IInv, CacheInv
  <1> DEFINE new == insert(cache, id[t], login[t])
  <1>3. /\ new \in Cache(LoginId, Entry) /\ new.currSize <= MaxSize
        /\ \/ Pairs(new) = PairsWith(cache, id[t], login[t])
           \/ \E k \in LoginId : Pairs(new) =
                {p \in PairsWith(cache, id[t], login[t]) : p.key # k}
    BY <1>1, <1>2, InsertInStep
  <1>4. cache' = new  OBVIOUS
  <1> HIDE DEF new
  <1>5. \E k \in LoginId :
          \/ Pairs(new) = PairsWith(cache, id[t], login[t])
          \/ Pairs(new) = {p \in PairsWith(cache, id[t], login[t]) : p.key # k}
    BY <1>1, <1>3
  <1>6. Pairs(new) \subseteq PairsWith(cache, id[t], login[t])  BY <1>5
  <1>7. PairsWith(cache, id[t], login[t]) \subseteq Pairs(cache) \cup {NewPair(t)}
    BY DEF PairsWith, PairsBut, NewPair
  <1> QED  BY <1>3, <1>4, <1>5, <1>6, <1>7 DEF CacheInv

\* The cache after a lookup, and after anything else.
LEMMA TouchedCache ==
  ASSUME IInv, NEW i, cache' = touch(cache, i) \/ UNCHANGED cache
  PROVE  CacheInv' /\ Pairs(cache') = Pairs(cache)
  <1>1. /\ touch(cache, i) \in Cache(LoginId, Entry)
        /\ touch(cache, i).currSize = cache.currSize
        /\ Pairs(touch(cache, i)) = Pairs(cache)
    BY TouchKeeps DEF IInv, CacheInv
  <1> QED  BY <1>1 DEF IInv, CacheInv

\* A step either inserts a new pair or leaves the pairs as they are.
Inserts(t) ==
  /\ Insert(t)
  /\ ~exists(cache, id[t])
  /\ cache' = insert(cache, id[t], login[t])

LEMMA CacheNext ==
  ASSUME IInv, [Next]_vars
  PROVE  /\ CacheInv'
         /\ Pairs(cache') = Pairs(cache) \/ \E t \in Thread : Inserts(t)
  <1>1. ASSUME NEW t \in Thread, NEW i \in LoginId, Lookup(t, i)
        PROVE  CacheInv' /\ Pairs(cache') = Pairs(cache)
    BY <1>1, TouchedCache DEF Lookup
  <1>2. ASSUME NEW t \in Thread, Insert(t)
        PROVE  CacheInv' /\ (Pairs(cache') = Pairs(cache) \/ Inserts(t))
    <2>1. CASE exists(cache, id[t])
      <3>1. cache' = touch(cache, id[t])  BY <1>2, <2>1 DEF Insert
      <3> QED  BY <3>1, TouchedCache
    <2>2. CASE ~exists(cache, id[t])
      <3>1. Inserts(t) /\ pc[t] = "insert" BY <1>2, <2>2 DEF Insert, Inserts
      <3>2. cache' = insert(cache, id[t], login[t])  BY <3>1 DEF Inserts
      <3> QED  BY <3>1, <3>2, InsertedPairs
    <2> QED  BY <2>1, <2>2
  <1>3. ASSUME UNCHANGED cache
        PROVE  CacheInv' /\ Pairs(cache') = Pairs(cache)
    BY <1>3, TouchedCache
  <1>4. ASSUME NEW t \in Thread,
               \/ Info(t) \/ Check(t) \/ Validity(t) \/ Store(t)
               \/ Stamp(t) \/ Answer(t) \/ Release(t)
               \/ \E o \in Operands : Read(t, o)
        PROVE  UNCHANGED cache
    BY <1>4 DEF Info, Check, Validity, Store, Stamp, Answer, Release, Read
  <1>5. (\E i \in LoginId : BusRenews(i) \/ BusInvalidates(i)) \/ Tick
          \/ UNCHANGED vars => UNCHANGED cache
    BY DEF BusRenews, BusInvalidates, Tick, vars
  <1> QED  BY <1>1, <1>2, <1>3, <1>4, <1>5 DEF Next
\* A key of the index has a pair, which a fetch finds.
LEMMA CachedPair ==
  ASSUME CacheInv, NEW i, exists(cache, i)
  PROVE  /\ i \in LoginId /\ datum(cache, i) \in Entry
         /\ \E p \in Pairs(cache) : p.key = i /\ p.data = datum(cache, i)
  <1>1. cache \in Cache(LoginId, Entry)  BY DEF CacheInv
  <1>2. /\ i \in LoginId /\ datum(cache, i) \in Entry
        /\ [key |-> i, data |-> datum(cache, i)] \in Pairs(cache)
    BY <1>1, PairOfDatum
  <1> QED  BY <1>2
-----------------------------------------------------------------------------
LEMMA OwnerNext ==
  ASSUME IInv, [Next]_vars
  PROVE  OwnerInv'
  <1>0. /\ TypeInv /\ CacheInv /\ OwnerInv
        /\ Pairs(cache') = Pairs(cache) \/ \E t \in Thread : Inserts(t)
    BY CacheNext DEF IInv
  <1>1. ASSUME NEW t \in Thread, Refuse(t)
        PROVE  GivesUp(t) /\ \A u \in Thread \ {t} : Same(u)
    BY <1>0, <1>1 DEF Refuse, Goto, GivesUp, Fresh, Same, TypeInv
  <1>2. ASSUME NEW t \in Thread, NEW step \in Steps,
               Goto(t, step), UNCHANGED <<id, login>>,
               step \in {"info", "insert"} => Fresh(t)
        PROVE  Keeps(t) /\ \A u \in Thread \ {t} : Same(u)
    BY <1>0, <1>2 DEF Goto, Keeps, Fresh, Same, TypeInv
  <1>3. ASSUME NEW t \in Thread, NEW i \in LoginId, Lookup(t, i)
        PROVE  OwnerInv'
    <2>1. Pairs(cache') = Pairs(cache)
      <3>1. cache' = touch(cache, i)  BY <1>3 DEF Lookup
      <3> QED  BY <3>1, TouchedCache
    <2>2. /\ \A u \in Thread \ {t} : Same(u)
          /\ id'[t] = i
      BY <1>0, <1>3 DEF Lookup, Goto, Same, TypeInv
    <2>3. CASE exists(cache, i)
      <3>1. \E p \in Pairs(cache) : p.key = i /\ p.data = datum(cache, i)
        BY <1>0, <2>3, CachedPair
      <3>2. login'[t] = datum(cache, i) /\ pc'[t] = "check"
        BY <1>0, <1>3, <2>3 DEF Lookup, Goto, TypeInv
      <3>3. Takes(t)  BY <2>2, <3>1, <3>2 DEF Takes, Fresh
      <3> QED  BY <1>0, <2>1, <2>2, <3>3, OwnersAfter
    <2>4. CASE ~exists(cache, i)
      <3>1. login[t] = NoData  BY <1>0, <1>3 DEF Lookup, TypeInv
      <3>2. \E e \in Entry : Unused(e)  BY <1>0, <3>1, UnusedEntry
      <3> DEFINE e == CHOOSE x \in Entry : Unused(x)
      <3>3. e \in Entry /\ Unused(e)  BY <3>2
      <3>4. login'[t] = e
        BY <1>0, <1>3, <2>4 DEF Lookup, TypeInv
      <3> HIDE DEF e
      <3>5. \A p \in Pairs(cache) : p.data # e
        BY <1>0, <3>3, CacheFacts DEF Unused, Cached, Pairs, CacheInv
      <3>6. Creates(t)  BY <3>3, <3>4, <3>5 DEF Creates, Unused
      <3> QED  BY <1>0, <2>1, <2>2, <3>6, OwnersAfter
    <2> QED  BY <2>3, <2>4
  <1>4. ASSUME NEW t \in Thread, Insert(t)
        PROVE  OwnerInv'
    <2>0. /\ pc[t] = "insert" /\ pc'[t] = "check" /\ id' = id
          /\ \A u \in Thread \ {t} : pc'[u] = pc[u]
      BY <1>0, <1>4 DEF Insert, Goto, TypeInv
    <2>1. CASE exists(cache, id[t])
      <3>1. cache' = touch(cache, id[t])  BY <1>4, <2>1 DEF Insert
      <3>2. Pairs(cache') = Pairs(cache)  BY <3>1, TouchedCache
      <3>3. \E p \in Pairs(cache) : p.key = id[t] /\ p.data = datum(cache, id[t])
        BY <1>0, <2>1, CachedPair
      <3>4. /\ login'[t] = datum(cache, id[t])
            /\ \A u \in Thread \ {t} : login'[u] = login[u]
        BY <1>0, <1>4, <2>1 DEF Insert, TypeInv
      <3>5. Takes(t)  BY <2>0, <3>3, <3>4 DEF Takes, Fresh
      <3>6. \A u \in Thread \ {t} : Same(u)  BY <2>0, <3>4 DEF Same
      <3> QED  BY <1>0, <3>2, <3>5, <3>6, OwnersAfter
    <2>2. CASE ~exists(cache, id[t])
      <3>1. /\ cache' = insert(cache, id[t], login[t]) /\ login' = login
        BY <1>4, <2>2 DEF Insert
      <3>2. Pairs(cache') \subseteq Pairs(cache) \cup {NewPair(t)}
        BY <2>0, <3>1, InsertedPairs
      <3>3. NewPair(t).key = id[t] /\ NewPair(t).data = login[t]
        BY DEF NewPair
      <3>4. /\ Fresh(t) /\ ~Fresh(t)' /\ login[t] \in Entry
            /\ \A u \in Thread \ {t} : Fresh(u)' <=> Fresh(u)
        BY <1>0, <2>0 DEF Fresh, TypeInv
      <3>5. OneLogin /\ NewIsOwn  BY <1>0 DEF OwnerInv
      <3>6. /\ \A p \in Pairs(cache) : p.data # login[t]
            /\ \A u \in Thread \ {t} : login[u] # login[t]
        BY <3>4, <3>5 DEF NewIsOwn
      <3>7. OneLogin'
        BY <2>0, <3>1, <3>2, <3>3, <3>5, <3>6 DEF OneLogin
      <3>8. NewIsOwn'
        BY <2>0, <3>1, <3>2, <3>3, <3>4, <3>5, <3>6 DEF NewIsOwn
      <3> QED  BY <3>7, <3>8 DEF OwnerInv
    <2> QED  BY <2>1, <2>2
  <1>5. ASSUME NEW t \in Thread,
               \/ Info(t) \/ Check(t) \/ Validity(t) \/ Store(t)
               \/ Stamp(t) \/ Answer(t) \/ Release(t)
        PROVE  OwnerInv'
    <2>1. UNCHANGED cache
      BY <1>5 DEF Info, Check, Validity, Store, Stamp, Answer, Release
    <2>2. \/ Refuse(t)
          \/ /\ UNCHANGED <<id, login>>
             /\ \E step \in Steps :
                  /\ Goto(t, step)
                  /\ step \in {"info", "insert"} => Fresh(t)
      BY <1>5 DEF Info, Check, Validity, Store, Stamp, Answer, Release, Accept,
                  Fresh, Steps
    <2>3. (GivesUp(t) \/ Keeps(t)) /\ \A u \in Thread \ {t} : Same(u)
      BY <2>2, <1>1, <1>2
    <2> QED  BY <1>0, <2>1, <2>3, OwnersAfter
  <1>6. ASSUME UNCHANGED <<pc, id, login, cache>>
        PROVE  OwnerInv'
    BY <1>0, <1>6 DEF OwnerInv, OneLogin, NewIsOwn, Fresh
  <1>7. \/ (\E i \in LoginId : BusRenews(i) \/ BusInvalidates(i)) \/ Tick
        \/ (\E t \in Thread, o \in Operands : Read(t, o)) \/ UNCHANGED vars
        => UNCHANGED <<pc, id, login, cache>>
    BY DEF BusRenews, BusInvalidates, Tick, Read, vars, threadVars
  <1> QED  BY <1>3, <1>4, <1>5, <1>6, <1>7 DEF Next
-----------------------------------------------------------------------------
Busy == {"check", "validity", "store", "stamp", "answer"}

\* A thread whose locals and entry a step leaves alone.
SameLocals(u) ==
  /\ Same(u) /\ validity'[u] = validity[u] /\ answered'[u] = answered[u]
  /\ read'[u] = read[u] /\ seen'[u] = seen[u]
Undisturbed(u) ==
  /\ SameLocals(u)
  /\ torn'[u] = torn[u]
  /\ pc[u] \in Busy => entry'[login[u]] = entry[login[u]]

LEMMA Bystander ==
  ASSUME TypeInv, TypeInv', TimeInv, NEW u \in Thread, Undisturbed(u),
         now' = now, \A i \in LoginId : known[i] <= known'[i]
  PROVE  ThreadTimes(u)'
  <1>0. Delay \in Nat  BY LoginCacheAssumption
  <1>1. /\ pc'[u] = pc[u] /\ id'[u] = id[u] /\ login'[u] = login[u]
        /\ validity'[u] = validity[u] /\ answered'[u] = answered[u]
        /\ read'[u] = read[u] /\ seen'[u] = seen[u] /\ torn'[u] = torn[u]
    BY DEF Undisturbed, SameLocals, Same
  <1>2. ThreadTimes(u)  BY DEF TimeInv
  <1>3. pc[u] \in Busy =>
          /\ id[u] \in LoginId /\ login[u] \in Entry
          /\ known[id[u]] \in Nat /\ known'[id[u]] \in Nat
          /\ known[id[u]] <= known'[id[u]]
          /\ entry'[login[u]] = entry[login[u]]
          /\ entry[login[u]].time2live \in Int
          /\ entry[login[u]].timeUpdated \in Nat
    BY DEF Undisturbed, TypeInv, Busy
  <1>4. validity[u] \in Nat /\ answered[u] \in Nat /\ now \in Nat
    BY DEF TypeInv
  <1>5. InDelay(u)'  BY <1>1, <1>2 DEF InDelay, ThreadTimes
  <1>6. AnswerKnown(u)'
    BY <1>0, <1>1, <1>2, <1>3, <1>4 DEF AnswerKnown, ThreadTimes, Busy
  <1>7. StoredInDelay(u)'
    BY <1>0, <1>1, <1>2, <1>3, <1>4 DEF StoredInDelay, ThreadTimes, Busy
  <1>8. EntryWithin(u)'
    BY <1>0, <1>1, <1>2, <1>3 DEF EntryWithin, Within, ThreadTimes, Busy
  <1>9. ClockInDelay(u)'  BY <1>1, <1>2 DEF ClockInDelay, ThreadTimes
  <1>10. SeenOfEntry(u)'
    BY <1>1, <1>2, <1>3 DEF SeenOfEntry, ThreadTimes, Busy
  <1>11. SeenWithin(u)'
    <2> SUFFICES ASSUME pc[u] = "check", ~torn[u], read[u] = Operands
                 PROVE  /\ seen[u].timeUpdated <= seen[u].clock
                        /\ seen[u].time2live > 0 =>
                             seen[u].time2live + seen[u].timeUpdated
                               <= known'[id[u]] + 2 * Delay
      BY <1>1 DEF SeenWithin
    <2>1. seen[u].time2live \in Int /\ seen[u].timeUpdated \in Nat
      BY DEF TypeInv
    <2> QED  BY <1>0, <1>2, <1>3, <2>1 DEF SeenWithin, ThreadTimes, Busy
  <1> QED  BY <1>5, <1>6, <1>7, <1>8, <1>9, <1>10, <1>11 DEF ThreadTimes

\* A thread that is at none of the steps that TimeInv is about.
LEMMA NotBusy ==
  ASSUME TypeInv', NEW t \in Thread, pc'[t] \notin Busy
  PROVE  ThreadTimes(t)'
  BY DEF Busy, ThreadTimes, InDelay, AnswerKnown, StoredInDelay, EntryWithin,
         ClockInDelay, SeenOfEntry, SeenWithin, TypeInv

\* The steps that change neither an entry nor what the bus has said.
LEMMA SameEntries ==
  ASSUME IInv, TypeInv', NEW t \in Thread, UNCHANGED <<now, entry, known>>,
         Pairs(cache') = Pairs(cache),
         \A u \in Thread \ {t} : Undisturbed(u),
         ThreadTimes(t)'
  PROVE  TimeInv'
  <1>1. TypeInv /\ TimeInv  BY DEF IInv
  <1>2. \A i \in LoginId : known[i] <= known'[i]  BY <1>1 DEF TypeInv
  <1>3. \A u \in Thread \ {t} : ThreadTimes(u)'  BY <1>1, <1>2, Bystander
  <1>4. \A p \in Pairs(cache') : Within(p.data, p.key)'
    BY <1>1 DEF TimeInv, Within
  <1> QED  BY <1>3, <1>4 DEF TimeInv

\* A thread comes to refer to an entry of the cache.
LEMMA TakesWithin ==
  ASSUME TimeInv, NEW t \in Thread, UNCHANGED <<entry, known>>,
         pc'[t] = "check", read'[t] = {}, Takes(t)
  PROVE  ThreadTimes(t)'
  <1>1. PICK p \in Pairs(cache) : p.key = id'[t] /\ p.data = login'[t]
    BY DEF Takes
  <1>2. Within(p.data, p.key)  BY DEF TimeInv
  <1>3. EntryWithin(t)'  BY <1>1, <1>2 DEF EntryWithin, Within
  <1> QED  BY <1>3 DEF ThreadTimes, InDelay, AnswerKnown, StoredInDelay,
                       ClockInDelay, SeenOfEntry, SeenWithin, Operands

\* Store, and Stamp: whoever else uses the entry is of the same login.
LEMMA SharedEntry ==
  ASSUME IInv, TypeInv', NEW t \in Thread,
         UNCHANGED <<now, known, cache, id, login, validity, answered, read, seen>>,
         \A u \in Thread \ {t} : pc'[u] = pc[u], Tears(t),
         id[t] \in LoginId, login[t] \in Entry,
         \A e \in Entry \ {login[t]} : entry'[e] = entry[e],
         Within(login[t], id[t])',
         ThreadTimes(t)',
         \A u \in Thread \ {t} : login[u] = login[t] => StoredInDelay(u)'
  PROVE  TimeInv'
  <1>1. TypeInv /\ TimeInv /\ OneLogin  BY DEF IInv, OwnerInv
  <1>2. ASSUME NEW u \in Thread \ {t}
        PROVE  ThreadTimes(u)'
    <2>1. CASE login[u] = login[t]
      <3>1. id[u] = id[t]
        BY <1>1, <2>1, LoginCacheAssumption DEF OneLogin
      <3>2. ThreadTimes(u)  BY <1>1 DEF TimeInv
      <3>3. InDelay(u)'  BY <3>2 DEF ThreadTimes, InDelay
      <3>4. AnswerKnown(u)'  BY <3>2 DEF ThreadTimes, AnswerKnown
      <3>5. EntryWithin(u)'  BY <2>1, <3>1 DEF EntryWithin, Within
      <3>6. ClockInDelay(u)'  BY <3>2 DEF ThreadTimes, ClockInDelay
      <3>7. /\ torn'[u] = (torn[u] \/ read[u] \notin {{}, Operands})
            /\ pc'[u] = pc[u] /\ seen'[u] = seen[u] /\ read'[u] = read[u]
            /\ id'[u] = id[u] /\ known' = known
        BY <1>1, <2>1 DEF Tears, TypeInv
      <3>8. SeenOfEntry(u)'  BY <3>7 DEF SeenOfEntry
      <3>9. SeenWithin(u)'  BY <3>2, <3>7 DEF ThreadTimes, SeenWithin
      <3> QED  BY <2>1, <3>3, <3>4, <3>5, <3>6, <3>8, <3>9 DEF ThreadTimes
    <2>2. CASE login[u] # login[t]
      <3>1. Undisturbed(u)
        BY <1>1, <2>2 DEF Undisturbed, SameLocals, Same, Busy, TypeInv, Tears
      <3>2. \A i \in LoginId : known[i] <= known'[i]  BY <1>1 DEF TypeInv
      <3> QED  BY <1>1, <3>1, <3>2, Bystander
    <2> QED  BY <2>1, <2>2
  <1>3. ASSUME NEW p \in Pairs(cache)
        PROVE  Within(p.data, p.key)'
    <2>1. CASE p.data = login[t]
      <3>1. p.key = id[t]  BY <1>1, <2>1 DEF OneLogin
      <3> QED  BY <2>1, <3>1
    <2>2. CASE p.data # login[t]
      <3>1. p.data \in Entry
        BY CacheFacts DEF IInv, CacheInv, Pairs
      <3>2. Within(p.data, p.key)  BY <1>1 DEF TimeInv
      <3> QED  BY <2>2, <3>1, <3>2 DEF Within
    <2> QED  BY <2>1, <2>2
  <1> QED  BY <1>2, <1>3 DEF TimeInv
-----------------------------------------------------------------------------
\* What a step of t does not touch of the other threads.
LocalsOfOthers(t) ==
  \A u \in Thread \ {t} : SameLocals(u) /\ torn'[u] = torn[u]

LEMMA TimeNext ==
  ASSUME IInv, [Next]_vars, TypeInv'
  PROVE  TimeInv'
  <1>0. /\ TypeInv /\ CacheInv /\ OneLogin /\ NewIsOwn /\ TimeInv
        /\ Delay \in Nat /\ NoData \notin Entry
    BY LoginCacheAssumption DEF IInv, OwnerInv
  <1>1. ASSUME NEW t \in Thread, UNCHANGED <<now, entry, known>>,
               Pairs(cache') = Pairs(cache), LocalsOfOthers(t), ThreadTimes(t)'
        PROVE  TimeInv'
    <2>1. \A u \in Thread \ {t} : Undisturbed(u)
      BY <1>1 DEF LocalsOfOthers, Undisturbed
    <2> QED  BY <2>1, <1>1, SameEntries
  <1>2. ASSUME NEW t \in Thread, Refuse(t) \/ Accept(t),
               UNCHANGED <<now, cache, entry, known>>
        PROVE  TimeInv'
    <2>1. pc'[t] \in {"idle", "valid"}
      BY <1>0, <1>2 DEF Refuse, Accept, Goto, TypeInv
    <2>2. ThreadTimes(t)'  BY <2>1, NotBusy DEF Busy
    <2>3. LocalsOfOthers(t)
      BY <1>0, <1>2 DEF Refuse, Accept, Forget, Goto, LocalsOfOthers, SameLocals,
                         Same, TypeInv
    <2> QED  BY <2>2, <2>3, <1>1, <1>2
  <1>3. ASSUME NEW t \in Thread, NEW i \in LoginId, Lookup(t, i)
        PROVE  TimeInv'
    <2>1. Pairs(cache') = Pairs(cache)
      <3>1. cache' = touch(cache, i)  BY <1>3 DEF Lookup
      <3> QED  BY <3>1, TouchedCache
    <2>2. /\ LocalsOfOthers(t) /\ UNCHANGED <<now, entry, known>>
          /\ id'[t] = i /\ read'[t] = {}
      BY <1>0, <1>3 DEF Lookup, Goto, LocalsOfOthers, SameLocals, Same,
                         TypeInv, operandVars
    <2>3. CASE exists(cache, i)
      <3>1. \E p \in Pairs(cache) : p.key = i /\ p.data = datum(cache, i)
        BY <1>0, <2>3, CachedPair
      <3>2. login'[t] = datum(cache, i) /\ pc'[t] = "check"
        BY <1>0, <1>3, <2>3 DEF Lookup, Goto, TypeInv
      <3>3. Takes(t)  BY <2>2, <3>1, <3>2 DEF Takes, Fresh
      <3>4. ThreadTimes(t)'  BY <1>0, <2>2, <3>2, <3>3, TakesWithin
      <3> QED  BY <2>1, <2>2, <3>4, <1>1
    <2>4. CASE ~exists(cache, i)
      <3>1. pc'[t] = "info"  BY <1>0, <1>3, <2>4 DEF Lookup, Goto, TypeInv
      <3>2. ThreadTimes(t)'  BY <3>1, NotBusy DEF Busy
      <3> QED  BY <2>1, <2>2, <3>2, <1>1
    <2> QED  BY <2>3, <2>4
  <1>4. ASSUME NEW t \in Thread, Info(t)
        PROVE  TimeInv'
    <2>1. CASE Refuse(t)  BY <1>2, <1>4, <2>1 DEF Info
    <2>2. CASE Goto(t, "insert") /\ UNCHANGED <<id, login, validity, answered,
                                                operandVars>>
      <3>1. pc'[t] = "insert"  BY <1>0, <2>2 DEF Goto, TypeInv
      <3>2. ThreadTimes(t)'  BY <3>1, NotBusy DEF Busy
      <3>3. LocalsOfOthers(t) /\ UNCHANGED <<now, cache, entry, known>>
        BY <1>0, <1>4, <2>2 DEF Info, Goto, LocalsOfOthers, SameLocals, Same,
                                TypeInv, operandVars
      <3> QED  BY <3>2, <3>3, <1>1
    <2> QED  BY <1>4, <2>1, <2>2 DEF Info
  <1>5. ASSUME NEW t \in Thread, Insert(t)
        PROVE  TimeInv'
    <2>1. /\ pc[t] = "insert" /\ pc'[t] = "check" /\ read'[t] = {}
          /\ UNCHANGED <<now, id, validity, answered, read, seen, torn, known>>
          /\ \A u \in Thread \ {t} : pc'[u] = pc[u]
      BY <1>0, <1>5 DEF Insert, Goto, TypeInv, operandVars
    <2>2. CASE exists(cache, id[t])
      <3>1. cache' = touch(cache, id[t]) /\ UNCHANGED entry
        BY <1>5, <2>2 DEF Insert
      <3>2. Pairs(cache') = Pairs(cache)  BY <3>1, TouchedCache
      <3>3. \E p \in Pairs(cache) : p.key = id[t] /\ p.data = datum(cache, id[t])
        BY <1>0, <2>2, CachedPair
      <3>4. /\ login'[t] = datum(cache, id[t])
            /\ \A u \in Thread \ {t} : login'[u] = login[u]
        BY <1>0, <1>5, <2>2 DEF Insert, TypeInv
      <3>5. Takes(t)  BY <2>1, <3>3, <3>4 DEF Takes, Fresh
      <3>6. LocalsOfOthers(t)  BY <2>1, <3>4 DEF LocalsOfOthers, SameLocals, Same
      <3>7. ThreadTimes(t)'  BY <1>0, <2>1, <3>1, <3>5, TakesWithin
      <3> QED  BY <2>1, <3>1, <3>2, <3>6, <3>7, <1>1
    <2>3. CASE ~exists(cache, id[t])
      <3>1. /\ cache' = insert(cache, id[t], login[t]) /\ login' = login
            /\ entry' = [entry EXCEPT ![login[t]] =
                           [time2live |-> -1, timeUpdated |-> now]]
        BY <1>5, <2>3 DEF Insert
      <3>2. Pairs(cache') \subseteq Pairs(cache) \cup {NewPair(t)}
        BY <2>1, <3>1, InsertedPairs
      <3>3. NewPair(t).key = id[t] /\ NewPair(t).data = login[t]
        BY DEF NewPair
      <3>4. login[t] \in Entry /\ Fresh(t)  BY <1>0, <2>1 DEF TypeInv, Fresh
      <3>5. /\ entry'[login[t]].time2live = -1
            /\ \A e \in Entry \ {login[t]} : entry'[e] = entry[e]
        BY <1>0, <3>1, <3>4 DEF TypeInv
      <3>6. /\ \A p \in Pairs(cache) : p.data # login[t]
            /\ \A u \in Thread \ {t} : login[u] # login[t]
        BY <1>0, <3>4 DEF NewIsOwn
      <3>7. ASSUME NEW u \in Thread \ {t}
            PROVE  ThreadTimes(u)'
        <4>1. pc[u] \in Busy => login[u] \in Entry  BY <1>0 DEF TypeInv, Busy
        <4>2. Undisturbed(u)
          BY <2>1, <3>1, <3>5, <3>6, <4>1 DEF Undisturbed, SameLocals, Same
        <4>3. \A i \in LoginId : known[i] <= known'[i]
          BY <1>0, <2>1 DEF TypeInv
        <4> QED  BY <1>0, <2>1, <4>2, <4>3, Bystander
      <3>8. Within(login[t], id[t])'  BY <3>5, <3>1 DEF Within
      <3>9. ThreadTimes(t)'
        BY <2>1, <3>8 DEF ThreadTimes, InDelay, AnswerKnown, StoredInDelay,
                          EntryWithin, ClockInDelay, SeenOfEntry, SeenWithin,
                          Operands
      <3>10. ASSUME NEW p \in Pairs(cache')
             PROVE  Within(p.data, p.key)'
        <4>1. CASE p = NewPair(t)  BY <4>1, <2>1, <3>1, <3>3, <3>8
        <4>2. CASE p \in Pairs(cache)
          <5>1. p.data \in Entry  BY <1>0, <4>2, CacheFacts DEF CacheInv, Pairs
          <5>2. entry'[p.data] = entry[p.data]  BY <3>5, <3>6, <4>2, <5>1
          <5>3. Within(p.data, p.key)  BY <1>0, <4>2 DEF TimeInv
          <5> QED  BY <2>1, <5>2, <5>3 DEF Within
        <4> QED  BY <3>2, <4>1, <4>2
      <3> QED  BY <3>7, <3>9, <3>10 DEF TimeInv
    <2> QED  BY <2>2, <2>3
  <1>6. ASSUME NEW t \in Thread, Check(t)
        PROVE  TimeInv'
    <2>1. CASE Accept(t)  BY <1>2, <1>6, <2>1 DEF Check
    <2>2. CASE /\ Goto(t, "validity") /\ Forget(t)
               /\ UNCHANGED <<id, login, validity, answered>>
      <3>1. pc[t] = "check" /\ pc'[t] = "validity"
            /\ LocalsOfOthers(t) /\ UNCHANGED <<now, cache, entry, known>>
        BY <1>0, <1>6, <2>2 DEF Check, Goto, Forget, LocalsOfOthers, SameLocals,
                                Same, TypeInv
      <3>2. EntryWithin(t)  BY <1>0 DEF TimeInv, ThreadTimes
      <3>3. EntryWithin(t)'
        BY <2>2, <3>1, <3>2 DEF EntryWithin, Within
      <3>4. ThreadTimes(t)'
        <4>1. read'[t] = {}  BY <3>1 DEF TypeInv
        <4> QED
          BY <3>1, <3>3, <4>1
             DEF ThreadTimes, InDelay, AnswerKnown, StoredInDelay, ClockInDelay,
                 SeenOfEntry, SeenWithin
      <3> QED  BY <3>1, <3>4, <1>1
    <2> QED  BY <1>6, <2>1, <2>2 DEF Check
  <1>7. ASSUME NEW t \in Thread, Validity(t)
        PROVE  TimeInv'
    <2>1. CASE Refuse(t) /\ UNCHANGED known  BY <1>2, <1>7, <2>1 DEF Validity
    <2>2. ASSUME NEW left \in Nat,
                 validity' = [validity EXCEPT ![t] = left],
                 answered' = [answered EXCEPT ![t] = now],
                 known' = IF left > 0
                   THEN [known EXCEPT ![id[t]] = Latest(known[id[t]], now + left)]
                   ELSE known,
                 Goto(t, "store"), UNCHANGED <<id, login, operandVars>>
          PROVE  TimeInv'
      <3>1. /\ pc[t] = "validity" /\ pc'[t] = "store"
            /\ validity'[t] = left /\ answered'[t] = now
            /\ LocalsOfOthers(t) /\ UNCHANGED <<now, cache, entry>>
        BY <1>0, <1>7, <2>2 DEF Validity, Goto, LocalsOfOthers, SameLocals, Same,
                                TypeInv, operandVars
      <3>2. id[t] \in LoginId /\ login[t] \in Entry /\ now \in Nat
        BY <1>0, <3>1 DEF TypeInv
      <3>3. /\ left > 0 => now + left <= known'[id[t]]
            /\ \A i \in LoginId : /\ known[i] \in Nat /\ known'[i] \in Nat
                                  /\ known[i] <= known'[i]
        BY <1>0, <2>2, <3>2 DEF Latest, TypeInv
      <3>4. ASSUME NEW e \in Entry, NEW i \in LoginId, Within(e, i)
            PROVE  entry'[e].time2live > 0 =>
                     entry'[e].time2live + entry'[e].timeUpdated
                       <= known'[i] + 2 * Delay
        <4>1. entry[e].time2live \in Int /\ entry[e].timeUpdated \in Nat
          BY <1>0 DEF TypeInv
        <4> QED  BY <1>0, <3>1, <3>3, <3>4, <4>1 DEF Within
      <3>5. \A u \in Thread \ {t} : ThreadTimes(u)'
        BY <1>0, <3>1, <3>3, Bystander DEF LocalsOfOthers, Undisturbed
      <3>6. ThreadTimes(t)'
        <4>1. Within(login[t], id[t])
          BY <1>0, <3>1 DEF TimeInv, ThreadTimes, EntryWithin
        <4>2. Within(login[t], id[t])'
          BY <2>2, <3>2, <3>4, <4>1 DEF Within
        <4>3. EntryWithin(t)'  BY <2>2, <4>2 DEF EntryWithin
        <4>4. InDelay(t)'  BY <1>0, <3>1, <3>2 DEF InDelay
        <4>5. AnswerKnown(t)'  BY <2>2, <3>1, <3>3 DEF AnswerKnown
        <4>6. StoredInDelay(t)'  BY <3>1 DEF StoredInDelay
        <4>7. ClockInDelay(t)' /\ SeenOfEntry(t)' /\ SeenWithin(t)'
          <5>1. read'[t] = {}  BY <3>1 DEF TypeInv
          <5> QED  BY <3>1, <5>1 DEF ClockInDelay, SeenOfEntry, SeenWithin
        <4> QED  BY <4>3, <4>4, <4>5, <4>6, <4>7 DEF ThreadTimes
      <3>7. \A p \in Pairs(cache) : p.data \in Entry /\ p.key \in LoginId
        BY <1>0, CacheFacts DEF CacheInv, Pairs
      <3>8. \A p \in Pairs(cache') : Within(p.data, p.key)'
        BY <1>0, <3>1, <3>4, <3>7 DEF TimeInv, Within
      <3> QED  BY <3>5, <3>6, <3>8 DEF TimeInv
    <2>3. Latest(expires[id[t]] - now, 0) \in Nat
      <3>1. id[t] \in LoginId  BY <1>0, <1>7 DEF Validity, TypeInv
      <3> QED  BY <1>0, <3>1 DEF Latest, TypeInv
    <2> QED  BY <1>7, <2>1, <2>2, <2>3 DEF Validity
  \* What a thread between the answer of the bus and its own knows.
  <1>8. ASSUME NEW t \in Thread, pc[t] \in {"store", "stamp", "answer"}
        PROVE  /\ id[t] \in LoginId /\ login[t] \in Entry
               /\ known[id[t]] \in Nat /\ now \in Nat
               /\ validity[t] \in Nat /\ answered[t] \in Nat
               /\ entry[login[t]].time2live \in Int
               /\ entry[login[t]].timeUpdated \in Nat
               /\ entry[login[t]].timeUpdated <= now
               /\ answered[t] <= now /\ now <= answered[t] + Delay
    <2>1. id[t] \in LoginId /\ login[t] \in Entry
      BY <1>0, <1>8 DEF TypeInv
    <2>2. InDelay(t)  BY <1>0 DEF TimeInv, ThreadTimes
    <2> QED  BY <1>0, <1>8, <2>1, <2>2 DEF TypeInv, InDelay
  <1>9. ASSUME NEW t \in Thread, Store(t)
        PROVE  TimeInv'
    <2>1. /\ pc[t] = "store" /\ pc'[t] = "stamp"
          /\ UNCHANGED <<now, known, cache, id, login, validity, answered, read,
                         seen>>
          /\ \A u \in Thread \ {t} : pc'[u] = pc[u]
          /\ Tears(t)
      BY <1>0, <1>9 DEF Store, Goto, TypeInv
    <2>2. id[t] \in LoginId /\ login[t] \in Entry  BY <2>1, <1>8
    <2>3. /\ entry'[login[t]].time2live = validity[t]
          /\ entry'[login[t]].timeUpdated = entry[login[t]].timeUpdated
          /\ \A e \in Entry \ {login[t]} : entry'[e] = entry[e]
      BY <1>0, <1>9, <2>2 DEF Store, TypeInv
    <2>4. validity[t] > 0 => answered[t] + validity[t] <= known[id[t]]
      BY <1>0, <2>1 DEF TimeInv, ThreadTimes, AnswerKnown
    <2>5. Within(login[t], id[t])'
      BY <1>0, <1>8, <2>1, <2>3, <2>4 DEF Within
    <2>6. ThreadTimes(t)'
      <3>1. InDelay(t)'  BY <1>8, <2>1 DEF InDelay
      <3>2. AnswerKnown(t)'  BY <2>1 DEF AnswerKnown
      <3>3. StoredInDelay(t)'
        BY <1>0, <1>8, <2>1, <2>3, <2>4 DEF StoredInDelay
      <3>4. EntryWithin(t)'  BY <2>5 DEF EntryWithin
      <3>5. ClockInDelay(t)' /\ SeenOfEntry(t)' /\ SeenWithin(t)'
        <4>1. read'[t] = {}  BY <2>1 DEF TypeInv
        <4> QED  BY <2>1, <4>1 DEF ClockInDelay, SeenOfEntry, SeenWithin
      <3> QED  BY <3>1, <3>2, <3>3, <3>4, <3>5 DEF ThreadTimes
    <2>7. ASSUME NEW u \in Thread \ {t}, login[u] = login[t]
          PROVE  StoredInDelay(u)'
      <3>1. id[u] = id[t]  BY <1>0, <2>2, <2>7 DEF OneLogin
      <3>2. CASE pc[u] \in {"stamp", "answer"}
        <4>1. answered[u] \in Nat /\ answered[u] <= now  BY <3>2, <1>8
        <4>2. /\ now \in Nat /\ answered[t] \in Nat /\ validity[t] \in Nat
              /\ known[id[t]] \in Nat /\ now <= answered[t] + Delay
          BY <2>1, <1>8
        <4>3. validity[t] > 0 => answered[u] + validity[t] <= known[id[t]] + Delay
          BY <1>0, <2>4, <4>1, <4>2
        <4> QED  BY <2>1, <2>3, <2>7, <3>1, <4>3 DEF StoredInDelay
      <3>3. CASE pc[u] \notin {"stamp", "answer"}
        BY <2>1, <3>3 DEF StoredInDelay
      <3> QED  BY <3>2, <3>3
    <2> QED  BY <2>1, <2>2, <2>3, <2>5, <2>6, <2>7, SharedEntry
  <1>10. ASSUME NEW t \in Thread, Stamp(t)
         PROVE  TimeInv'
    <2>1. /\ pc[t] = "stamp" /\ pc'[t] = "answer"
          /\ UNCHANGED <<now, known, cache, id, login, validity, answered, read,
                         seen>>
          /\ \A u \in Thread \ {t} : pc'[u] = pc[u]
          /\ Tears(t)
      BY <1>0, <1>10 DEF Stamp, Goto, TypeInv
    <2>2. id[t] \in LoginId /\ login[t] \in Entry  BY <2>1, <1>8
    <2>3. /\ entry'[login[t]].time2live = entry[login[t]].time2live
          /\ entry'[login[t]].timeUpdated = now
          /\ \A e \in Entry \ {login[t]} : entry'[e] = entry[e]
      BY <1>0, <1>10, <2>2 DEF Stamp, TypeInv
    <2>4. StoredInDelay(t)  BY <1>0 DEF TimeInv, ThreadTimes
    <2>5. Within(login[t], id[t])'
      BY <1>0, <1>8, <2>1, <2>3, <2>4 DEF Within, StoredInDelay
    <2>6. ThreadTimes(t)'
      <3>1. InDelay(t)'  BY <1>8, <2>1 DEF InDelay
      <3>2. AnswerKnown(t)'  BY <2>1 DEF AnswerKnown
      <3>3. StoredInDelay(t)'  BY <2>1, <2>3, <2>4 DEF StoredInDelay
      <3>4. EntryWithin(t)'  BY <2>5 DEF EntryWithin
      <3>5. ClockInDelay(t)' /\ SeenOfEntry(t)' /\ SeenWithin(t)'
        <4>1. read'[t] = {}  BY <2>1 DEF TypeInv
        <4> QED  BY <2>1, <4>1 DEF ClockInDelay, SeenOfEntry, SeenWithin
      <3> QED  BY <3>1, <3>2, <3>3, <3>4, <3>5 DEF ThreadTimes
    <2>7. ASSUME NEW u \in Thread \ {t}, login[u] = login[t]
          PROVE  StoredInDelay(u)'
      <3>1. StoredInDelay(u)  BY <1>0 DEF TimeInv, ThreadTimes
      <3> QED  BY <2>1, <2>3, <2>7, <3>1 DEF StoredInDelay
    <2> QED  BY <2>1, <2>2, <2>3, <2>5, <2>6, <2>7, SharedEntry
  <1>11. ASSUME NEW t \in Thread, Answer(t) \/ Release(t)
         PROVE  TimeInv'
    BY <1>2, <1>11 DEF Answer, Release
  <1>12. ASSUME UNCHANGED <<cache, entry, threadVars, known>>,
                \A t \in Thread : InDelay(t)' /\ ClockInDelay(t)'
         PROVE  TimeInv'
    <2>1. ASSUME NEW t \in Thread
          PROVE  ThreadTimes(t)'
      <3>1. ThreadTimes(t)  BY <1>0 DEF TimeInv
      <3> QED
        BY <1>12, <3>1 DEF ThreadTimes, AnswerKnown, StoredInDelay, EntryWithin,
                           SeenOfEntry, SeenWithin, Within, threadVars,
                           operandVars
    <2>2. \A p \in Pairs(cache') : Within(p.data, p.key)'
      BY <1>0, <1>12 DEF TimeInv, Within
    <2> QED  BY <2>1, <2>2 DEF TimeInv
  <1>13. ASSUME \/ \E i \in LoginId : BusRenews(i) \/ BusInvalidates(i)
                \/ UNCHANGED vars
         PROVE  TimeInv'
    <2>1. UNCHANGED <<now, cache, entry, threadVars, known>>
      BY <1>13 DEF BusRenews, BusInvalidates, vars
    <2>2. \A t \in Thread : InDelay(t)' /\ ClockInDelay(t)'
      BY <1>0, <2>1 DEF TimeInv, ThreadTimes, InDelay, ClockInDelay, threadVars,
                        operandVars
    <2> QED  BY <2>1, <2>2, <1>12
  <1>14. ASSUME Tick
         PROVE  TimeInv'
    <2>1. \A t \in Thread : InDelay(t)'
      BY <1>0, <1>8, <1>14 DEF Tick, InDelay, threadVars
    <2>2. UNCHANGED <<cache, entry, threadVars, known>>  BY <1>14 DEF Tick
    <2>3. ASSUME NEW t \in Thread
          PROVE  ClockInDelay(t)'
      <3>1. seen[t].clock \in Nat /\ now \in Nat  BY <1>0 DEF TypeInv
      <3>2. ClockInDelay(t)  BY <1>0 DEF TimeInv, ThreadTimes
      <3> QED
        BY <1>0, <1>14, <3>1, <3>2
           DEF Tick, ClockInDelay, threadVars, operandVars
    <2> QED  BY <2>1, <2>2, <2>3, <1>12
  <1>15. ASSUME NEW t \in Thread, NEW o \in Operands, Read(t, o)
         PROVE  TimeInv'
    <2>1. /\ pc[t] = "check" /\ o \notin read[t]
          /\ read'[t] = read[t] \cup {o} /\ torn' = torn
          /\ UNCHANGED <<now, cache, entry, pc, id, login, validity, answered,
                         known>>
          /\ LocalsOfOthers(t)
      BY <1>0, <1>15 DEF Read, LocalsOfOthers, SameLocals, Same, TypeInv
    <2>2. login[t] \in Entry /\ id[t] \in LoginId  BY <1>0, <2>1 DEF TypeInv
    <2>3. /\ seen'[t][o] = Operand(t, o)
          /\ \A x \in Operands \ {o} : seen'[t][x] = seen[t][x]
      BY <1>0, <1>15 DEF Read, TypeInv, Operands
    <2>4. /\ now \in Nat /\ entry[login[t]].time2live \in Int
          /\ entry[login[t]].timeUpdated \in Nat
          /\ entry[login[t]].timeUpdated <= now
          /\ known[id[t]] \in Nat
      BY <1>0, <2>2 DEF TypeInv
    <2>5. ThreadTimes(t)  BY <1>0 DEF TimeInv
    <2>6. /\ InDelay(t)' /\ AnswerKnown(t)' /\ StoredInDelay(t)'
      BY <2>1 DEF InDelay, AnswerKnown, StoredInDelay
    <2>7. EntryWithin(t)'  BY <2>1, <2>5 DEF ThreadTimes, EntryWithin, Within
    <2>8. ClockInDelay(t)'
      BY <1>0, <2>1, <2>3, <2>4, <2>5
         DEF ThreadTimes, ClockInDelay, Operand, Operands
    <2>9. read[t] # Operands  BY <2>1
    <2>10. ~torn[t] =>
             /\ "time2live" \in read'[t] =>
                  seen'[t].time2live = entry[login[t]].time2live
             /\ "timeUpdated" \in read'[t] =>
                  seen'[t].timeUpdated = entry[login[t]].timeUpdated
             /\ "clock" \in read'[t] =>
                  entry[login[t]].timeUpdated <= seen'[t].clock
      <3> SUFFICES ASSUME ~torn[t]
                   PROVE  /\ "time2live" \in read'[t] =>
                               seen'[t].time2live = entry[login[t]].time2live
                          /\ "timeUpdated" \in read'[t] =>
                               seen'[t].timeUpdated = entry[login[t]].timeUpdated
                          /\ "clock" \in read'[t] =>
                               entry[login[t]].timeUpdated <= seen'[t].clock
        OBVIOUS
      <3>1. /\ "time2live" \in read[t] =>
                 seen[t].time2live = entry[login[t]].time2live
            /\ "timeUpdated" \in read[t] =>
                 seen[t].timeUpdated = entry[login[t]].timeUpdated
            /\ "clock" \in read[t] => entry[login[t]].timeUpdated <= seen[t].clock
        BY <2>1, <2>5, <2>9 DEF ThreadTimes, SeenOfEntry
      <3>2. CASE o = "clock"
        BY <3>1, <3>2, <2>1, <2>3, <2>4 DEF Operand, Operands
      <3>3. CASE o = "time2live"
        BY <3>1, <3>3, <2>1, <2>3 DEF Operand, Operands
      <3>4. CASE o = "timeUpdated"
        BY <3>1, <3>4, <2>1, <2>3 DEF Operand, Operands
      <3> QED  BY <3>2, <3>3, <3>4 DEF Operands
    <2>11. SeenOfEntry(t)'  BY <2>1, <2>10 DEF SeenOfEntry
    <2>12. SeenWithin(t)'
      <3> SUFFICES ASSUME ~torn[t], read'[t] = Operands
                   PROVE  /\ seen'[t].timeUpdated <= seen'[t].clock
                          /\ seen'[t].time2live > 0 =>
                               seen'[t].time2live + seen'[t].timeUpdated
                                 <= known[id[t]] + 2 * Delay
        BY <2>1 DEF SeenWithin
      <3>1. /\ seen'[t].time2live = entry[login[t]].time2live
            /\ seen'[t].timeUpdated = entry[login[t]].timeUpdated
            /\ entry[login[t]].timeUpdated <= seen'[t].clock
        BY <2>10 DEF Operands
      <3>2. Within(login[t], id[t])
        BY <2>1, <2>5 DEF ThreadTimes, EntryWithin
      <3> QED  BY <3>1, <3>2 DEF Within
    <2>13. ThreadTimes(t)'
      BY <2>6, <2>7, <2>8, <2>11, <2>12 DEF ThreadTimes
    <2> QED  BY <2>1, <2>13, <1>1
  <1> QED
    BY <1>3, <1>4, <1>5, <1>6, <1>7, <1>9, <1>10, <1>11, <1>13, <1>14, <1>15
       DEF Next
-----------------------------------------------------------------------------
LEMMA InitHolds ==
  ASSUME Init
  PROVE  IInv
  <1>1. CacheInv /\ Pairs(cache) = {}
    BY EmptyInStep, MaxSizeAssumption DEF Init, CacheInv, Empty
  <1>2. TypeInv
    <2>1. expires \in [LoginId -> Nat]
      BY LoginCacheAssumption DEF Init
    <2> QED  BY <2>1, UnseenType DEF Init, TypeInv, Steps
  <1>3. OwnerInv  BY <1>1 DEF Init, OwnerInv, OneLogin, NewIsOwn, Fresh
  <1>4. TimeInv
    BY <1>1 DEF Init, TimeInv, ThreadTimes, InDelay, AnswerKnown,
                StoredInDelay, EntryWithin, ClockInDelay, SeenOfEntry, SeenWithin
  <1> QED  BY <1>1, <1>2, <1>3, <1>4 DEF IInv

LEMMA NextHolds ==
  ASSUME IInv, [Next]_vars
  PROVE  IInv'
  <1>1. CacheInv'  BY CacheNext
  <1>2. TypeInv'  BY <1>1, TypeNext
  <1>3. OwnerInv'  BY OwnerNext
  <1>4. TimeInv'  BY <1>2, TimeNext
  <1> QED  BY <1>1, <1>2, <1>3, <1>4 DEF IInv

\* The cache, the entries, who refers to them and the times are in order.
THEOREM EntriesInOrder == Spec => []IInv
  <1>1. Init => IInv  BY InitHolds
  <1>2. IInv /\ [Next]_vars => IInv'  BY NextHolds
  <1> QED  BY <1>1, <1>2, PTL DEF Spec

\* A login is accepted by what a thread has read of an entry, whose times TimeInv
\* bounds.
LEMMA AcceptedInTime ==
  ASSUME IInv, [Next]_vars, NEW t \in Thread, Accepts(t), ~torn[t]
  PROVE  now < known[id[t]] + 3 * Delay
  <1>0. TypeInv /\ ThreadTimes(t) /\ Delay \in Nat
    BY LoginCacheAssumption DEF IInv, TimeInv
  <1>1. ASSUME NEW u \in Thread, NEW step \in Steps, Goto(u, step)
        PROVE  u = t /\ step = "valid"
    BY <1>0, <1>1 DEF Goto, Accepts, TypeInv
  <1>2. Check(t) \/ Answer(t)
    <2>1. ASSUME NEW u \in Thread, NEW i \in LoginId, Lookup(u, i)
          PROVE  FALSE
      BY <2>1, <1>1 DEF Lookup, Steps
    <2>2. ASSUME NEW u \in Thread,
                 \/ Info(u) \/ Insert(u) \/ Validity(u) \/ Store(u)
                 \/ Stamp(u) \/ Release(u)
          PROVE  FALSE
      BY <2>2, <1>1
         DEF Info, Insert, Validity, Store, Stamp, Release, Refuse, Steps
    <2>3. ASSUME NEW u \in Thread, Check(u) \/ Answer(u)
          PROVE  u = t
      BY <2>3, <1>1 DEF Check, Answer, Accept, Refuse, Steps
    <2>4. \/ (\E i \in LoginId : BusRenews(i) \/ BusInvalidates(i)) \/ Tick
          \/ (\E u \in Thread, o \in Operands : Read(u, o)) \/ UNCHANGED vars
          => UNCHANGED pc
      BY DEF BusRenews, BusInvalidates, Tick, Read, vars, threadVars
    <2>5. ~UNCHANGED pc  BY DEF Accepts
    <2> QED  BY <2>1, <2>2, <2>3, <2>4, <2>5 DEF Next
  <1>3. CASE Check(t)
    <2>1. /\ pc[t] = "check" /\ read[t] = Operands
          /\ seen[t].time2live > seen[t].clock - seen[t].timeUpdated
      BY <1>0, <1>3 DEF Check, StillRuns, Accepts, Goto, TypeInv
    <2>2. /\ id[t] \in LoginId /\ login[t] \in Entry
      BY <1>0, <2>1 DEF TypeInv
    <2>3. /\ known[id[t]] \in Nat /\ now \in Nat
          /\ seen[t].time2live \in Int /\ seen[t].clock \in Nat
          /\ seen[t].timeUpdated \in Nat
      BY <1>0, <2>2 DEF TypeInv
    <2>4. SeenWithin(t) /\ ClockInDelay(t)  BY <1>0 DEF ThreadTimes
    <2>5. now <= seen[t].clock + Delay
      BY <2>1, <2>4 DEF ClockInDelay, Operands
    <2>6. /\ seen[t].timeUpdated <= seen[t].clock
          /\ seen[t].time2live > 0 =>
               seen[t].time2live + seen[t].timeUpdated <= known[id[t]] + 2 * Delay
      BY <2>1, <2>4 DEF SeenWithin
    <2> QED  BY <1>0, <2>1, <2>3, <2>5, <2>6
  <1>4. CASE Answer(t)
    <2>1. pc[t] = "answer" /\ entry[login[t]].time2live > 0
      BY <1>0, <1>4 DEF Answer, Accepts, Refuse, Goto, TypeInv
    <2>2. /\ id[t] \in LoginId /\ login[t] \in Entry
      BY <1>0, <2>1 DEF TypeInv
    <2>3. /\ known[id[t]] \in Nat /\ now \in Nat /\ answered[t] \in Nat
          /\ entry[login[t]].time2live \in Int
      BY <1>0, <2>2 DEF TypeInv
    <2>4. StoredInDelay(t) /\ InDelay(t)  BY <1>0 DEF ThreadTimes
    <2> QED  BY <1>0, <2>1, <2>3, <2>4 DEF StoredInDelay, InDelay
  <1> QED  BY <1>2, <1>3, <1>4

\* Whatever the threads write over one another, a login is accepted less than
\* three delays after the time until which the bus has said it is valid, unless
\* another thread wrote to the entry between two of the unlocked reads of the
\* comparison of line 51.
THEOREM StaleOnlyIfTornHolds == Spec => StaleOnlyIfTorn
  <1>1. IInv /\ [Next]_vars =>
          [\A t \in Thread :
             Accepts(t) /\ ~torn[t] => now < known[id[t]] + 3 * Delay]_vars
    BY AcceptedInTime
  <1> QED  BY <1>1, EntriesInOrder, PTL DEF Spec, StaleOnlyIfTorn

LEMMA DatumStays ==
  ASSUME IInv, IInv', [Next]_vars, NEW i \in LoginId,
         exists(cache, i), exists(cache', i)
  PROVE  datum(cache', i) = datum(cache, i)
  <1>1. cache \in Cache(LoginId, Entry) /\ cache' \in Cache(LoginId, Entry)
    BY DEF IInv, CacheInv
  <1>2. CASE Pairs(cache') = Pairs(cache)  BY <1>1, <1>2, SameDatum
  <1>3. ASSUME NEW t \in Thread, Inserts(t)
        PROVE  datum(cache', i) = datum(cache, i)
    <2>1. /\ cache' = insert(cache, id[t], login[t]) /\ pc[t] = "insert"
          /\ ~exists(cache, id[t])
      BY <1>3 DEF Inserts, Insert
    <2>2. Pairs(cache') \subseteq Pairs(cache) \cup {NewPair(t)}
      BY <2>1, InsertedPairs
    <2> DEFINE p == [key |-> i, data |-> datum(cache', i)]
    <2>3. p \in Pairs(cache') /\ p.key = i /\ p.data = datum(cache', i)
      BY <1>1, PairOfDatum
    <2> HIDE DEF p
    <2>4. p # NewPair(t)
      <3>1. exists(cache, i) /\ ~exists(cache, id[t])  BY <2>1
      <3>2. i # id[t]  BY <3>1
      <3>3. NewPair(t).key = id[t]  BY DEF NewPair
      <3> QED  BY <2>3, <3>2, <3>3
    <2>5. p \in Pairs(cache)  BY <2>2, <2>3, <2>4
    <2>6. datum(cache, p.key) = p.data  BY <1>1, <2>5, DatumOfPair
    <2> QED  BY <2>3, <2>6
  <1> QED  BY <1>2, <1>3, CacheNext

\* Threads that look up an absent login at once do not replace one another's
\* entry: the one in the cache stays until it is evicted.
THEOREM EntryNotReplacedHolds == Spec => EntryNotReplaced
  <1>1. IInv /\ IInv' /\ [Next]_vars =>
          [\A i \in LoginId : exists(cache, i) /\ exists(cache', i)
             => datum(cache', i) = datum(cache, i)]_vars
    <2> SUFFICES ASSUME IInv, IInv', [Next]_vars, NEW i \in LoginId,
                        exists(cache, i), exists(cache', i)
                 PROVE  datum(cache', i) = datum(cache, i)
      OBVIOUS
    <2> QED  BY DatumStays
  <1> QED  BY <1>1, EntriesInOrder, PTL DEF Spec, EntryNotReplaced
=============================================================================
