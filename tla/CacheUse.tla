------------------------------ MODULE CacheUse ------------------------------
(***************************************************************************)
(* An LRUCache in use: any sequence of its operations, as the interceptors *)
(* and LoginCache call them under their mutexes.                           *)
(***************************************************************************)
EXTENDS LRUCache

CONSTANTS Key, Data

ASSUME DataAssumption == NoData \notin Data

VARIABLES lru,     \* the LRUCache
          last,    \* the last call: its key, the datum given or returned
          recent   \* history: the keys by their last use, the latest first,
                   \* those that were evicted included

useVars == <<lru, last, recent>>

Called(op, key, data) == [op |-> op, key |-> key, data |-> data]

UseInit ==
  /\ lru = Empty
  /\ last = Called("clear", NoData, NoData)
  /\ recent = <<>>

\* The key becomes the most recently used one.
Used(key) == recent' = <<key>> \o RemoveFirst(recent, key)

InsertPair(key, data) ==
  /\ lru' = insert(lru, key, data)
  /\ last' = Called("insert", key, data)
  /\ Used(key)

\* fetch with touch_data, or fetch_ptr, which touches whatever it is told.
Fetch(key) ==
  /\ last' = Called("fetch", key, datum(lru, key))
  /\ lru' = touch(lru, key)
  /\ IF exists(lru, key) THEN Used(key) ELSE UNCHANGED recent

\* fetch without touch_data.
Peek(key) ==
  last' = Called("fetch", key, datum(lru, key)) /\ UNCHANGED <<lru, recent>>

Touch(key) ==
  /\ lru' = touch(lru, key)
  /\ IF exists(lru, key) THEN Used(key) ELSE UNCHANGED recent
  /\ UNCHANGED last

Discard(key) ==
  /\ lru' = remove(lru, key)
  /\ recent' = IF exists(lru, key) THEN RemoveFirst(recent, key) ELSE recent
  /\ last' = Called("remove", key, NoData)

Clear ==
  /\ lru' = clear(lru)
  /\ recent' = <<>>
  /\ last' = Called("clear", NoData, NoData)

UseNext ==
  \/ \E key \in Key :
       \/ Fetch(key) \/ Peek(key) \/ Touch(key) \/ Discard(key)
       \/ \E data \in Data : InsertPair(key, data)
  \/ Clear

UseSpec == UseInit /\ [][UseNext]_useVars
-----------------------------------------------------------------------------
\* The index has exactly the keys of the list, each once: no iterator dangles
\* and no pair is lost to the index.
IndexMatchesList ==
  /\ lru.list \in Seq([key : Key, data : Data])
  /\ lru.index = {lru.list[i].key : i \in DOMAIN lru.list}
  /\ \A i, j \in DOMAIN lru.list :
       lru.list[i].key = lru.list[j].key => i = j

\* The loop of insert stops after one turn, on a list that is not empty, and
\* the cache never holds more than it may: its sizes never underflow.  The size
\* may exceed the list's length, by what clear() has thrown away.
SizeWithinBounds ==
  /\ lru.currSize <= MaxSize
  /\ Len(lru.list) <= lru.currSize

\* After any sequence of operations list and index agree, and the size counts at
\* least what the list holds and at most what it may hold.
ListIndexAndSize == IndexMatchesList /\ SizeWithinBounds

\* Whatever was evicted, and by whatever order of uses, what the cache still
\* holds was used after everything it has discarded, in the list's order.
LeastRecentlyUsedGoes ==
  /\ Len(lru.list) <= Len(recent)
  /\ \A i \in DOMAIN lru.list : lru.list[i].key = recent[i]

\* The cache never answers with anything but the last datum inserted.
Abstract == INSTANCE CacheSpec
            WITH content <- [key \in Key |-> datum(lru, key)]
NothingStale == Abstract!Spec
=============================================================================
