------------------------------ MODULE LRUCache ------------------------------
(***************************************************************************)
(* The operations of LRUCache, include/openbus/detail/lru_cache.hpp, as    *)
(* functions of the cache's contents: the list of pairs, most recently     *)
(* used first, the keys of the index, whose iterators point to the pair of *)
(* the same key, and _curr_size.  Sizefn is Countfn: every datum counts 1. *)
(***************************************************************************)
EXTENDS Naturals, Sequences, SequencesExt

CONSTANTS MaxSize,  \* _max_size, LRUSize in every use
          NoData    \* Data(): what a fetch returns of an absent key

ASSUME MaxSizeAssumption == MaxSize \in Nat \ {0}

Empty == [list |-> <<>>, index |-> {}, currSize |-> 0]

exists(c, key) == key \in c.index

\* Where the iterator of an indexed key points.
Position(c, key) == CHOOSE i \in DOMAIN c.list : c.list[i].key = key

\* Mutant of touch: the pair stays where it is.
touchNothing(c, key) == c

\* _touch: the pair of an indexed key moves to the head of the list.
touch(c, key) ==
  IF ~exists(c, key) THEN c
  ELSE LET i == Position(c, key) IN
       [list |-> <<c.list[i]>> \o RemoveAt(c.list, i),
        index |-> c.index, currSize |-> c.currSize]

\* Mutant of erase: _curr_size is not decremented.
eraseUncounted(c, key) ==
  [c EXCEPT !.list = RemoveAt(c.list, Position(c, key)),
            !.index = c.index \ {key}]

\* _remove of an indexed key.
erase(c, key) ==
  [list |-> RemoveAt(c.list, Position(c, key)),
   index |-> c.index \ {key},
   currSize |-> c.currSize - 1]

remove(c, key) == IF exists(c, key) THEN erase(c, key) ELSE c

\* fetch and fetch_ptr: the datum, which the caller asks for before a touch.
datum(c, key) ==
  IF exists(c, key) THEN c.list[Position(c, key)].data ELSE NoData

\* The loop that discards the least recently used pair while the size exceeds
\* _max_size.  One turn is enough, says SizeWithinBounds.
evict(c) ==
  IF c.currSize > MaxSize THEN erase(c, Last(c.list).key) ELSE c

\* Mutant of insert: the datum of a key that exists is not replaced.
insertOnce(c, key, data) ==
  IF exists(c, key) THEN touch(c, key)
  ELSE evict([list |-> <<[key |-> key, data |-> data]>> \o c.list,
              index |-> c.index \cup {key},
              currSize |-> c.currSize + 1])

insert(c, key, data) ==
  LET old == remove(touch(c, key), key) IN
  evict([list |-> <<[key |-> key, data |-> data]>> \o old.list,
         index |-> old.index \cup {key},
         currSize |-> old.currSize + 1])

\* clear empties the list and the index, and leaves _curr_size alone.
clear(c) == [list |-> <<>>, index |-> {}, currSize |-> c.currSize]
=============================================================================
