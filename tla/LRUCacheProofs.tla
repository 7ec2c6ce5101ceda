--------------------------- MODULE LRUCacheProofs ---------------------------
(***************************************************************************)
(* What the operations of LRUCache.tla do to a cache whose list, index and *)
(* size are in step, for every size: they keep it so, and they change the  *)
(* pairs it holds and their order as the lemmas say.                       *)
(***************************************************************************)
EXTENDS CacheUse, SequenceTheorems, TLAPS

USE MaxSizeAssumption

Pair(K, D) == [key : K, data : D]

\* The caches of keys K and data D whose list, index and size are in step.
Cache(K, D) ==
  {c \in [list : Seq(Pair(K, D)), index : SUBSET K, currSize : Nat] :
     /\ c.index = {c.list[i].key : i \in 1 .. Len(c.list)}
     /\ \A i, j \in 1 .. Len(c.list) : c.list[i].key = c.list[j].key => i = j
     /\ Len(c.list) <= c.currSize}

Pairs(c) == {c.list[i] : i \in 1 .. Len(c.list)}
PairsBut(c, key) == {p \in Pairs(c) : p.key # key}

\* e is c without the pair of an indexed key.
Erased(c, key, e) ==
  /\ e.index = c.index \ {key}
  /\ e.currSize = c.currSize - 1
  /\ Len(e.list) = Len(c.list) - 1
  /\ \A i \in 1 .. Len(c.list) - 1 : e.list[i] =
       IF i < Position(c, key) THEN c.list[i] ELSE c.list[i + 1]
  /\ Pairs(e) = PairsBut(c, key)

\* t is c with the pair of an indexed key at the head.
Touched(c, key, t) ==
  /\ t.index = c.index
  /\ t.currSize = c.currSize
  /\ Len(t.list) = Len(c.list)
  /\ \A i \in 1 .. Len(c.list) : t.list[i] =
       IF i = 1 THEN c.list[Position(c, key)]
       ELSE IF i <= Position(c, key) THEN c.list[i - 1] ELSE c.list[i]
  /\ Pairs(t) = Pairs(c)

\* p is c with a pair of a new key at the head, as insert makes it.
push(c, key, data) ==
  [list |-> <<[key |-> key, data |-> data]>> \o c.list,
   index |-> c.index \cup {key},
   currSize |-> c.currSize + 1]
Pushed(c, key, data, p) ==
  /\ p.index = c.index \cup {key}
  /\ p.currSize = c.currSize + 1
  /\ Len(p.list) = Len(c.list) + 1
  /\ \A i \in 1 .. Len(c.list) + 1 : p.list[i] =
       IF i = 1 THEN [key |-> key, data |-> data] ELSE c.list[i - 1]
  /\ Pairs(p) = Pairs(c) \cup {[key |-> key, data |-> data]}

\* e is c, or c without its last pair, and no larger than a cache may be.
Evicted(K, c, e) ==
  /\ e.currSize <= MaxSize
  /\ Len(e.list) <= Len(c.list)
  /\ \A i \in 1 .. Len(e.list) : e.list[i] = c.list[i]
  /\ \/ Pairs(e) = Pairs(c)
     \/ \E k \in K : Pairs(e) = PairsBut(c, k)
-----------------------------------------------------------------------------
\* A sequence with an element put in front, and one with an element taken out.
LEMMA PushValue ==
  ASSUME NEW S, NEW s \in Seq(S), NEW e \in S
  PROVE  /\ <<e>> \o s \in Seq(S)
         /\ Len(<<e>> \o s) = Len(s) + 1
         /\ \A i \in 1 .. Len(s) + 1 :
              (<<e>> \o s)[i] = IF i = 1 THEN e ELSE s[i - 1]
  <1>1. <<e>> \in Seq(S) /\ Len(<<e>>) = 1 /\ <<e>>[1] = e  OBVIOUS
  <1>2. Len(s) \in Nat  BY LenProperties
  <1>3. /\ <<e>> \o s \in Seq(S)
        /\ Len(<<e>> \o s) = 1 + Len(s)
        /\ \A i \in 1 .. 1 + Len(s) :
             (<<e>> \o s)[i] = IF i <= 1 THEN <<e>>[i] ELSE s[i - 1]
    BY <1>1, ConcatProperties
  <1> QED  BY <1>1, <1>2, <1>3

LEMMA RemoveAtValue ==
  ASSUME NEW S, NEW s \in Seq(S), NEW n \in 1 .. Len(s)
  PROVE  /\ RemoveAt(s, n) \in Seq(S)
         /\ Len(RemoveAt(s, n)) = Len(s) - 1
         /\ \A i \in 1 .. Len(s) - 1 :
              RemoveAt(s, n)[i] = IF i < n THEN s[i] ELSE s[i + 1]
  <1> DEFINE before == SubSeq(s, 1, n - 1)
             after == SubSeq(s, n + 1, Len(s))
  <1>1. Len(s) \in Nat /\ n \in Nat /\ 1 <= n /\ n <= Len(s)
    BY LenProperties
  <1>2. /\ before \in Seq(S) /\ Len(before) = n - 1
        /\ \A i \in 1 .. n - 1 : before[i] = s[i]
    BY <1>1, SubSeqProperties
  <1>3. /\ after \in Seq(S) /\ Len(after) = Len(s) - n
        /\ \A i \in 1 .. Len(s) - n : after[i] = s[n + i]
    BY <1>1, SubSeqProperties
  <1> HIDE DEF before, after
  <1>4. /\ before \o after \in Seq(S)
        /\ Len(before \o after) = Len(s) - 1
        /\ \A i \in 1 .. Len(s) - 1 : (before \o after)[i] =
             IF i <= n - 1 THEN before[i] ELSE after[i - (n - 1)]
    <2>1. /\ before \o after \in Seq(S)
          /\ Len(before \o after) = Len(before) + Len(after)
          /\ \A i \in 1 .. Len(before) + Len(after) : (before \o after)[i] =
               IF i <= Len(before) THEN before[i] ELSE after[i - Len(before)]
      BY <1>2, <1>3, ConcatProperties
    <2>2. Len(before) + Len(after) = Len(s) - 1  BY <1>1, <1>2, <1>3
    <2> QED  BY <2>1, <2>2, <1>2
  <1>5. ASSUME NEW i \in 1 .. Len(s) - 1
        PROVE  (before \o after)[i] = IF i < n THEN s[i] ELSE s[i + 1]
    <2>1. CASE i < n  BY <2>1, <1>1, <1>2, <1>4
    <2>2. CASE ~(i < n)
      <3>1. i - (n - 1) \in 1 .. Len(s) - n /\ n + (i - (n - 1)) = i + 1
        BY <2>2, <1>1
      <3> QED  BY <3>1, <2>2, <1>1, <1>3, <1>4
    <2> QED  BY <2>1, <2>2
  <1>6. RemoveAt(s, n) = before \o after  BY DEF RemoveAt, before, after
  <1> QED  BY <1>4, <1>5, <1>6
-----------------------------------------------------------------------------
LEMMA CacheFacts ==
  ASSUME NEW K, NEW D, NEW c \in Cache(K, D)
  PROVE  /\ c.list \in Seq(Pair(K, D)) /\ c.currSize \in Nat
         /\ Len(c.list) \in Nat /\ DOMAIN c.list = 1 .. Len(c.list)
         /\ \A i \in 1 .. Len(c.list) :
              c.list[i].key \in K /\ c.list[i].data \in D
         /\ c.index \subseteq K
         /\ c.index = {c.list[i].key : i \in 1 .. Len(c.list)}
         /\ \A i, j \in 1 .. Len(c.list) :
              c.list[i].key = c.list[j].key => i = j
         /\ Len(c.list) <= c.currSize
         /\ c = [list |-> c.list, index |-> c.index, currSize |-> c.currSize]
  <1>1. c.list \in Seq(Pair(K, D))  BY DEF Cache
  <1>2. \A i \in 1 .. Len(c.list) : c.list[i] \in Pair(K, D)
    BY <1>1, ElementOfSeq
  <1>3. Len(c.list) \in Nat /\ DOMAIN c.list = 1 .. Len(c.list)
    BY <1>1, LenProperties
  <1>4. \A i \in 1 .. Len(c.list) :
          c.list[i].key \in K /\ c.list[i].data \in D
    BY <1>2 DEF Pair
  <1> QED  BY <1>1, <1>3, <1>4 DEF Cache

\* A record of such parts is a cache in step.
LEMMA InStep ==
  ASSUME NEW K, NEW D, NEW l \in Seq(Pair(K, D)), NEW n \in Nat,
         NEW index, index = {l[i].key : i \in 1 .. Len(l)},
         \A i, j \in 1 .. Len(l) : l[i].key = l[j].key => i = j,
         Len(l) <= n
  PROVE  [list |-> l, index |-> index, currSize |-> n] \in Cache(K, D)
  <1>1. \A i \in 1 .. Len(l) : l[i].key \in K
    <2>1. \A i \in 1 .. Len(l) : l[i] \in Pair(K, D)  BY ElementOfSeq
    <2> QED  BY <2>1 DEF Pair
  <1>2. index \in SUBSET K  BY <1>1
  <1> DEFINE c == [list |-> l, index |-> index, currSize |-> n]
  <1>3. c \in [list : Seq(Pair(K, D)), index : SUBSET K, currSize : Nat]
    BY <1>2
  <1>4. c.list = l /\ c.index = index /\ c.currSize = n  OBVIOUS
  <1> HIDE DEF c
  <1>5. c \in Cache(K, D)  BY <1>3, <1>4 DEF Cache
  <1> QED  BY <1>5 DEF c

\* The iterator of an indexed key points to the only pair of that key.
LEMMA PositionValue ==
  ASSUME NEW K, NEW D, NEW c \in Cache(K, D), NEW key, exists(c, key)
  PROVE  /\ Position(c, key) \in 1 .. Len(c.list)
         /\ c.list[Position(c, key)].key = key
         /\ \A i \in 1 .. Len(c.list) : c.list[i].key = key
                                          => i = Position(c, key)
  <1>1. \E i \in DOMAIN c.list : c.list[i].key = key
    BY CacheFacts DEF exists
  <1>2. /\ Position(c, key) \in DOMAIN c.list
        /\ c.list[Position(c, key)].key = key
    BY <1>1 DEF Position
  <1> QED  BY <1>2, CacheFacts

\* The empty cache is in step, and clear leaves a cache in step.
LEMMA EmptyInStep ==
  ASSUME NEW K, NEW D
  PROVE  Empty \in Cache(K, D) /\ Pairs(Empty) = {}
  <1>1. <<>> \in Seq(Pair(K, D)) /\ Len(<<>>) = 0  BY EmptySeq
  <1> QED  BY <1>1 DEF Cache, Empty, Pairs

LEMMA ClearInStep ==
  ASSUME NEW K, NEW D, NEW c \in Cache(K, D)
  PROVE  /\ clear(c) \in Cache(K, D) /\ Pairs(clear(c)) = {}
         /\ clear(c).currSize = c.currSize /\ Len(clear(c).list) = 0
  <1>1. <<>> \in Seq(Pair(K, D)) /\ Len(<<>>) = 0  BY EmptySeq
  <1>2. clear(c) = [list |-> <<>>, index |-> {}, currSize |-> c.currSize]  BY DEF clear
  <1>3. c.currSize \in Nat  BY CacheFacts
  <1> QED  BY <1>1, <1>2, <1>3 DEF Cache, Pairs

\* erase takes the pair of an indexed key out of the list.
LEMMA EraseInStep ==
  ASSUME NEW K, NEW D, NEW c \in Cache(K, D), NEW key, exists(c, key)
  PROVE  erase(c, key) \in Cache(K, D) /\ Erased(c, key, erase(c, key))
  <1> DEFINE n == Position(c, key)
             l == RemoveAt(c.list, n)
  <1>1. /\ n \in 1 .. Len(c.list) /\ c.list[n].key = key
        /\ \A i \in 1 .. Len(c.list) : c.list[i].key = key => i = n
    <2>1. /\ Position(c, key) \in 1 .. Len(c.list)
          /\ c.list[Position(c, key)].key = key
          /\ \A i \in 1 .. Len(c.list) : c.list[i].key = key
                                           => i = Position(c, key)
      BY PositionValue
    <2> QED  BY <2>1
  <1>2. erase(c, key) = [list |-> l, index |-> c.index \ {key},
                         currSize |-> c.currSize - 1]
    BY DEF erase
  <1> HIDE DEF n
  <1>3. /\ l \in Seq(Pair(K, D)) /\ Len(l) = Len(c.list) - 1
        /\ \A i \in 1 .. Len(c.list) - 1 :
             l[i] = IF i < n THEN c.list[i] ELSE c.list[i + 1]
    BY <1>1, CacheFacts, RemoveAtValue
  <1> HIDE DEF l
  <1>4. Len(c.list) \in Nat /\ c.currSize \in Nat /\ Len(c.list) <= c.currSize
    BY CacheFacts
  <1>5. ASSUME NEW i \in 1 .. Len(l)
        PROVE  \E j \in 1 .. Len(c.list) : j # n /\ l[i] = c.list[j]
    <2>1. CASE i < n  BY <2>1, <1>1, <1>3, <1>4
    <2>2. CASE ~(i < n)  BY <2>2, <1>1, <1>3, <1>4
    <2> QED  BY <2>1, <2>2
  <1>6. ASSUME NEW j \in 1 .. Len(c.list), j # n
        PROVE  \E i \in 1 .. Len(l) : l[i] = c.list[j]
    <2>1. CASE j < n  BY <2>1, <1>1, <1>3, <1>4
    <2>2. CASE j > n
      <3>1. j - 1 \in 1 .. Len(c.list) - 1 /\ ~(j - 1 < n) /\ (j - 1) + 1 = j
        BY <2>2, <1>1, <1>4
      <3> QED  BY <3>1, <1>3
    <2> QED  BY <2>1, <2>2, <1>6, <1>1, <1>4
  <1>7. ASSUME NEW i \in 1 .. Len(l), NEW j \in 1 .. Len(l),
               l[i].key = l[j].key
        PROVE  i = j
    <2> DEFINE at(x) == IF x < n THEN x ELSE x + 1
    <2>1. /\ at(i) \in 1 .. Len(c.list) /\ l[i] = c.list[at(i)]
          /\ at(j) \in 1 .. Len(c.list) /\ l[j] = c.list[at(j)]
      BY <1>1, <1>3, <1>4
    <2>2. at(i) = at(j)
      <3> HIDE DEF at
      <3> QED  BY <2>1, <1>7, CacheFacts
    <2> QED  BY <2>2, <1>1, <1>3, <1>4
  <1>8. c.index \ {key} = {l[i].key : i \in 1 .. Len(l)}
    <2>1. c.index = {c.list[i].key : i \in 1 .. Len(c.list)}  BY CacheFacts
    <2>2. ASSUME NEW k \in c.index \ {key}
          PROVE  \E i \in 1 .. Len(l) : l[i].key = k
      <3>1. PICK j \in 1 .. Len(c.list) : c.list[j].key = k  BY <2>1
      <3>2. j # n  BY <3>1, <1>1
      <3> QED  BY <3>1, <3>2, <1>6
    <2>3. ASSUME NEW i \in 1 .. Len(l)
          PROVE  l[i].key \in c.index \ {key}
      <3>1. PICK j \in 1 .. Len(c.list) : j # n /\ l[i] = c.list[j]
        BY <1>5
      <3> QED  BY <3>1, <2>1, <1>1
    <2> QED  BY <2>2, <2>3
  <1>9. {l[i] : i \in 1 .. Len(l)} = PairsBut(c, key)
    <2>1. ASSUME NEW i \in 1 .. Len(l)
          PROVE  l[i] \in Pairs(c) /\ l[i].key # key
      <3>1. PICK j \in 1 .. Len(c.list) : j # n /\ l[i] = c.list[j]
        BY <1>5
      <3> QED  BY <3>1, <1>1 DEF Pairs
    <2>2. ASSUME NEW p \in Pairs(c), p.key # key
          PROVE  \E i \in 1 .. Len(l) : l[i] = p
      <3>1. PICK j \in 1 .. Len(c.list) : p = c.list[j]  BY DEF Pairs
      <3>2. j # n  BY <2>2, <3>1, <1>1
      <3> QED  BY <3>1, <3>2, <1>6
    <2> QED  BY <2>1, <2>2 DEF PairsBut
  <1>10. erase(c, key) \in Cache(K, D)
    <2>1. c.currSize - 1 \in Nat /\ Len(l) <= c.currSize - 1
      BY <1>1, <1>3, <1>4
    <2>2. [list |-> l, index |-> c.index \ {key},
           currSize |-> c.currSize - 1] \in Cache(K, D)
      BY <2>1, <1>3, <1>7, <1>8, InStep
    <2> QED  BY <2>2, <1>2
  <1>11. \A i \in 1 .. Len(c.list) - 1 : l[i] =
           IF i < Position(c, key) THEN c.list[i] ELSE c.list[i + 1]
    BY <1>3 DEF n
  <1>12. /\ erase(c, key).list = l /\ erase(c, key).index = c.index \ {key}
         /\ erase(c, key).currSize = c.currSize - 1
    BY <1>2
  <1>13. Pairs(erase(c, key)) = PairsBut(c, key)
    <2>1. Pairs(erase(c, key)) = {l[i] : i \in 1 .. Len(l)}
      BY <1>12 DEF Pairs
    <2> QED  BY <2>1, <1>9
  <1> QED  BY <1>3, <1>10, <1>11, <1>12, <1>13 DEF Erased

\* remove does so, or nothing.
LEMMA RemoveInStep ==
  ASSUME NEW K, NEW D, NEW c \in Cache(K, D), NEW key
  PROVE  /\ remove(c, key) \in Cache(K, D)
         /\ remove(c, key).index = c.index \ {key}
         /\ remove(c, key).currSize <= c.currSize
         /\ Pairs(remove(c, key)) = PairsBut(c, key)
  <1>1. CASE exists(c, key)
    <2>1. remove(c, key) = erase(c, key)  BY <1>1 DEF remove
    <2>2. c.currSize - 1 <= c.currSize  BY CacheFacts
    <2>3. erase(c, key) \in Cache(K, D) /\ Erased(c, key, erase(c, key))
      BY <1>1, EraseInStep
    <2> QED  BY <2>1, <2>2, <2>3 DEF Erased
  <1>2. CASE ~exists(c, key)
    <2>1. remove(c, key) = c  BY <1>2 DEF remove
    <2>2. c.index \ {key} = c.index  BY <1>2 DEF exists
    <2>3. ASSUME NEW p \in Pairs(c)
          PROVE  p.key # key
      <3>1. p.key \in c.index  BY CacheFacts DEF Pairs
      <3> QED  BY <3>1, <1>2 DEF exists
    <2>4. c.currSize \in Nat  BY CacheFacts
    <2> QED  BY <2>1, <2>2, <2>3, <2>4 DEF PairsBut
  <1> QED  BY <1>1, <1>2

\* touch moves the pair of an indexed key to the head, and changes no pair.
LEMMA TouchInStep ==
  ASSUME NEW K, NEW D, NEW c \in Cache(K, D), NEW key, exists(c, key)
  PROVE  touch(c, key) \in Cache(K, D) /\ Touched(c, key, touch(c, key))
  <1> DEFINE n == Position(c, key)
             l == <<c.list[n]>> \o RemoveAt(c.list, n)
  <1>1. /\ n \in 1 .. Len(c.list) /\ c.list[n].key = key
        /\ \A i \in 1 .. Len(c.list) : c.list[i].key = key => i = n
    <2>1. /\ Position(c, key) \in 1 .. Len(c.list)
          /\ c.list[Position(c, key)].key = key
          /\ \A i \in 1 .. Len(c.list) : c.list[i].key = key
                                           => i = Position(c, key)
      BY PositionValue
    <2> QED  BY <2>1
  <1>2. touch(c, key) =
          [list |-> l, index |-> c.index, currSize |-> c.currSize]
    BY DEF touch
  <1> HIDE DEF n
  <1>3. Len(c.list) \in Nat /\ c.currSize \in Nat /\ Len(c.list) <= c.currSize
        /\ c.list \in Seq(Pair(K, D))
    BY CacheFacts
  <1>4. /\ l \in Seq(Pair(K, D)) /\ Len(l) = Len(c.list)
        /\ \A i \in 1 .. Len(c.list) :
             l[i] = IF i = 1 THEN c.list[n]
                    ELSE IF i <= n THEN c.list[i - 1] ELSE c.list[i]
    <2> DEFINE rest == RemoveAt(c.list, n)
    <2>1. /\ rest \in Seq(Pair(K, D)) /\ Len(rest) = Len(c.list) - 1
          /\ \A i \in 1 .. Len(c.list) - 1 :
               rest[i] = IF i < n THEN c.list[i] ELSE c.list[i + 1]
      BY <1>1, <1>3, RemoveAtValue
    <2>2. c.list[n] \in Pair(K, D)  BY <1>1, <1>3, ElementOfSeq
    <2> HIDE DEF rest
    <2>3. /\ <<c.list[n]>> \o rest \in Seq(Pair(K, D))
          /\ Len(<<c.list[n]>> \o rest) = Len(rest) + 1
          /\ \A i \in 1 .. Len(rest) + 1 : (<<c.list[n]>> \o rest)[i] =
               IF i = 1 THEN c.list[n] ELSE rest[i - 1]
      BY <2>1, <2>2, PushValue
    <2>4. Len(rest) + 1 = Len(c.list)  BY <2>1, <1>3
    <2>5. ASSUME NEW i \in 1 .. Len(c.list), i # 1
          PROVE  rest[i - 1] = IF i <= n THEN c.list[i - 1] ELSE c.list[i]
      <3>1. i - 1 \in 1 .. Len(c.list) - 1 /\ (i - 1) + 1 = i
            /\ (i - 1 < n <=> i <= n)
        BY <2>5, <1>1, <1>3
      <3> QED  BY <3>1, <2>1
    <2>6. l = <<c.list[n]>> \o rest  BY DEF rest
    <2> HIDE DEF l
    <2> QED  BY <2>3, <2>4, <2>5, <2>6
  <1> HIDE DEF l
  \* Where each element went.
  <1> DEFINE at(i) == IF i = 1 THEN n ELSE IF i <= n THEN i - 1 ELSE i
             to(j) == IF j = n THEN 1 ELSE IF j < n THEN j + 1 ELSE j
  <1>5. ASSUME NEW i \in 1 .. Len(l)
        PROVE  at(i) \in 1 .. Len(c.list) /\ l[i] = c.list[at(i)]
    BY <1>1, <1>3, <1>4
  <1>6. ASSUME NEW j \in 1 .. Len(c.list)
        PROVE  to(j) \in 1 .. Len(l) /\ at(to(j)) = j
    BY <1>1, <1>3, <1>4
  <1>7. ASSUME NEW i \in 1 .. Len(l), NEW j \in 1 .. Len(l),
               at(i) = at(j)
        PROVE  i = j
    BY <1>7, <1>1, <1>3, <1>4
  <1> HIDE DEF at, to
  <1>8. ASSUME NEW i \in 1 .. Len(l), NEW j \in 1 .. Len(l),
               l[i].key = l[j].key
        PROVE  i = j
    <2>1. at(i) = at(j)  BY <1>5, <1>8, CacheFacts
    <2> QED  BY <2>1, <1>7
  <1>9. {l[i] : i \in 1 .. Len(l)} = Pairs(c)
    <2>1. ASSUME NEW j \in 1 .. Len(c.list)
          PROVE  \E i \in 1 .. Len(l) : l[i] = c.list[j]
      BY <1>5, <1>6
    <2>2. ASSUME NEW i \in 1 .. Len(l)
          PROVE  l[i] \in Pairs(c)
      BY <1>5 DEF Pairs
    <2>3. ASSUME NEW p \in Pairs(c)
          PROVE  \E i \in 1 .. Len(l) : l[i] = p
      BY <2>1 DEF Pairs
    <2> QED  BY <2>2, <2>3
  <1>10. c.index = {l[i].key : i \in 1 .. Len(l)}
    <2>1. c.index = {c.list[i].key : i \in 1 .. Len(c.list)}  BY CacheFacts
    <2>2. ASSUME NEW j \in 1 .. Len(c.list)
          PROVE  \E i \in 1 .. Len(l) : l[i] = c.list[j]
      BY <1>5, <1>6
    <2>3. ASSUME NEW i \in 1 .. Len(l)
          PROVE  l[i].key \in c.index
      BY <2>1, <1>5
    <2>4. ASSUME NEW k \in c.index
          PROVE  \E i \in 1 .. Len(l) : l[i].key = k
      <3>1. PICK j \in 1 .. Len(c.list) : c.list[j].key = k  BY <2>1
      <3> QED  BY <3>1, <2>2
    <2> QED  BY <2>3, <2>4
  <1>11. [list |-> l, index |-> c.index, currSize |-> c.currSize]
           \in Cache(K, D)
    <2>1. Len(l) <= c.currSize  BY <1>3, <1>4
    <2> QED  BY <2>1, <1>3, <1>4, <1>8, <1>10, InStep
  <1>12. /\ touch(c, key).list = l /\ touch(c, key).index = c.index
         /\ touch(c, key).currSize = c.currSize
    BY <1>2
  <1>13. Pairs(touch(c, key)) = Pairs(c)
    <2>1. Pairs(touch(c, key)) = {l[i] : i \in 1 .. Len(l)}
      BY <1>12 DEF Pairs
    <2> QED  BY <2>1, <1>9
  <1>14. \A i \in 1 .. Len(c.list) : l[i] =
           IF i = 1 THEN c.list[Position(c, key)]
           ELSE IF i <= Position(c, key) THEN c.list[i - 1] ELSE c.list[i]
    BY <1>4 DEF n
  <1> QED  BY <1>2, <1>4, <1>11, <1>12, <1>13, <1>14 DEF Touched

\* touch of any key changes neither the pairs nor the size.
LEMMA TouchKeeps ==
  ASSUME NEW K, NEW D, NEW c \in Cache(K, D), NEW key
  PROVE  /\ touch(c, key) \in Cache(K, D)
         /\ touch(c, key).currSize = c.currSize
         /\ Pairs(touch(c, key)) = Pairs(c)
  <1>1. CASE exists(c, key)
    <2>1. touch(c, key) \in Cache(K, D) /\ Touched(c, key, touch(c, key))
      BY <1>1, TouchInStep
    <2> QED  BY <2>1 DEF Touched
  <1>2. CASE ~exists(c, key)  BY <1>2 DEF touch
  <1> QED  BY <1>1, <1>2

\* A pair of a key that is not indexed goes to the head.
LEMMA PushInStep ==
  ASSUME NEW K, NEW D, NEW c \in Cache(K, D), NEW key \in K, NEW data \in D,
         ~exists(c, key)
  PROVE  /\ push(c, key, data) \in Cache(K, D)
         /\ Pushed(c, key, data, push(c, key, data))
  <1> DEFINE p == push(c, key, data)
             new == [key |-> key, data |-> data]
             l == <<new>> \o c.list
  <1>1. p = [list |-> l, index |-> c.index \cup {key},
             currSize |-> c.currSize + 1]
    BY DEF push
  <1> HIDE DEF p
  <1>2. new \in Pair(K, D) /\ new.key = key  BY DEF Pair
  <1> HIDE DEF new
  <1>3. /\ Len(c.list) \in Nat /\ c.currSize \in Nat
        /\ Len(c.list) <= c.currSize
        /\ c.list \in Seq(Pair(K, D))
        /\ c.index = {c.list[i].key : i \in 1 .. Len(c.list)}
    BY CacheFacts
  <1>4. /\ l \in Seq(Pair(K, D)) /\ Len(l) = Len(c.list) + 1
        /\ \A i \in 1 .. Len(c.list) + 1 :
             l[i] = IF i = 1 THEN new ELSE c.list[i - 1]
    BY <1>2, <1>3, PushValue
  <1> HIDE DEF l
  <1>5. l[1] = new /\ 1 \in 1 .. Len(l)  BY <1>3, <1>4
  <1>6. ASSUME NEW i \in 1 .. Len(l), i # 1
        PROVE  i - 1 \in 1 .. Len(c.list) /\ l[i] = c.list[i - 1]
    BY <1>6, <1>3, <1>4
  <1>7. ASSUME NEW i \in 1 .. Len(c.list)
        PROVE  i + 1 \in 1 .. Len(l) /\ l[i + 1] = c.list[i]
    <2>1. i + 1 \in 1 .. Len(c.list) + 1 /\ i + 1 # 1 /\ (i + 1) - 1 = i
      BY <1>3
    <2> QED  BY <2>1, <1>4
  <1>8. \A i \in 1 .. Len(c.list) : c.list[i].key # key
    BY <1>3 DEF exists
  <1>9. ASSUME NEW i \in 1 .. Len(l), NEW j \in 1 .. Len(l),
               l[i].key = l[j].key
        PROVE  i = j
    <2>1. CASE i = 1
      <3>1. l[i].key = key  BY <2>1, <1>2, <1>5
      <3> QED  BY <3>1, <2>1, <1>6, <1>8, <1>9
    <2>2. CASE j = 1
      <3>1. l[j].key = key  BY <2>2, <1>2, <1>5
      <3> QED  BY <3>1, <2>2, <1>6, <1>8, <1>9
    <2>3. CASE i # 1 /\ j # 1
      <3>1. /\ i - 1 \in 1 .. Len(c.list) /\ j - 1 \in 1 .. Len(c.list)
            /\ c.list[i - 1].key = c.list[j - 1].key
        BY <2>3, <1>6, <1>9
      <3>2. i - 1 = j - 1  BY <3>1, CacheFacts
      <3> QED  BY <3>2, <1>3, <1>4
    <2> QED  BY <2>1, <2>2, <2>3
  <1>10. {l[i] : i \in 1 .. Len(l)} = Pairs(c) \cup {new}
    <2>1. ASSUME NEW i \in 1 .. Len(l)
          PROVE  l[i] \in Pairs(c) \cup {new}
      BY <1>5, <1>6 DEF Pairs
    <2>2. ASSUME NEW q \in Pairs(c) \cup {new}
          PROVE  \E i \in 1 .. Len(l) : l[i] = q
      BY <1>5, <1>7 DEF Pairs
    <2> QED  BY <2>1, <2>2
  <1>11. c.index \cup {key} = {l[i].key : i \in 1 .. Len(l)}
    <2>1. ASSUME NEW i \in 1 .. Len(l)
          PROVE  l[i].key \in c.index \cup {key}
      BY <1>2, <1>3, <1>5, <1>6
    <2>2. ASSUME NEW k \in c.index \cup {key}
          PROVE  \E i \in 1 .. Len(l) : l[i].key = k
      <3>1. CASE k = key  BY <3>1, <1>2, <1>5
      <3>2. CASE k \in c.index
        <4>1. PICK i \in 1 .. Len(c.list) : c.list[i].key = k  BY <3>2, <1>3
        <4> QED  BY <4>1, <1>7
      <3> QED  BY <3>1, <3>2
    <2> QED  BY <2>1, <2>2
  <1>12. p \in Cache(K, D)
    <2>1. c.currSize + 1 \in Nat /\ Len(l) <= c.currSize + 1
      BY <1>3, <1>4
    <2>2. [list |-> l, index |-> c.index \cup {key},
           currSize |-> c.currSize + 1] \in Cache(K, D)
      BY <2>1, <1>4, <1>9, <1>11, InStep
    <2> QED  BY <2>2, <1>1
  <1>13. p.list = l /\ p.index = c.index \cup {key}
         /\ p.currSize = c.currSize + 1
    BY <1>1
  <1>14. Pairs(p) = Pairs(c) \cup {new}
    <2>1. Pairs(p) = {l[i] : i \in 1 .. Len(l)}  BY <1>13 DEF Pairs
    <2> QED  BY <2>1, <1>10
  <1>15. \A i \in 1 .. Len(c.list) + 1 : l[i] =
           IF i = 1 THEN [key |-> key, data |-> data] ELSE c.list[i - 1]
    BY <1>4 DEF new
  <1>16. Pairs(p) = Pairs(c) \cup {[key |-> key, data |-> data]}
    BY <1>14 DEF new
  <1>17. Pushed(c, key, data, p)
    BY <1>4, <1>13, <1>15, <1>16 DEF Pushed
  <1> QED  BY <1>12, <1>17 DEF p

\* One turn of the eviction loop is enough: it takes the last pair.
LEMMA EvictInStep ==
  ASSUME NEW K, NEW D, NEW c \in Cache(K, D),
         c.currSize <= MaxSize + 1, Len(c.list) # 0
  PROVE  evict(c) \in Cache(K, D) /\ Evicted(K, c, evict(c))
  <1>1. Len(c.list) \in Nat /\ Len(c.list) \in 1 .. Len(c.list)
        /\ c.currSize \in Nat /\ MaxSize \in Nat
    BY CacheFacts
  <1>2. CASE c.currSize > MaxSize
    <2> DEFINE key == c.list[Len(c.list)].key
    <2>1. evict(c) = erase(c, key)  BY <1>2 DEF evict, Last
    <2>2. exists(c, key) /\ key \in K  BY <1>1, CacheFacts DEF exists
    <2>3. Position(c, key) = Len(c.list)  BY <2>2, <1>1, PositionValue
    <2> HIDE DEF key
    <2>4. erase(c, key) \in Cache(K, D) /\ Erased(c, key, erase(c, key))
      BY <2>2, EraseInStep
    <2>5. \A i \in 1 .. Len(c.list) - 1 : i < Position(c, key)
      BY <2>3, <1>1
    <2>6. c.currSize - 1 <= MaxSize /\ Len(c.list) - 1 <= Len(c.list)
      BY <1>1
    <2> QED  BY <2>1, <2>2, <2>4, <2>5, <2>6 DEF Erased, Evicted
  <1>3. CASE ~(c.currSize > MaxSize)
    <2>1. evict(c) = c  BY <1>3 DEF evict
    <2> QED  BY <2>1, <1>1, <1>3 DEF Evicted
  <1> QED  BY <1>2, <1>3

\* An insertion drops the old pair of the key, puts the new one in, and drops at
\* most one other.
PairsWith(c, key, data) == PairsBut(c, key) \cup {[key |-> key, data |-> data]}

LEMMA InsertInStep ==
  ASSUME NEW K, NEW D, NEW c \in Cache(K, D), NEW key \in K, NEW data \in D,
         c.currSize <= MaxSize
  PROVE  /\ insert(c, key, data) \in Cache(K, D)
         /\ insert(c, key, data).currSize <= MaxSize
         /\ \/ Pairs(insert(c, key, data)) = PairsWith(c, key, data)
            \/ \E k \in K : Pairs(insert(c, key, data)) =
                              {p \in PairsWith(c, key, data) : p.key # k}
  <1> DEFINE t == touch(c, key)
             old == remove(t, key)
             p == push(old, key, data)
  <1>1. t \in Cache(K, D) /\ t.currSize = c.currSize /\ Pairs(t) = Pairs(c)
    BY TouchKeeps
  <1> HIDE DEF t
  <1>2. /\ old \in Cache(K, D) /\ old.index = t.index \ {key}
        /\ old.currSize <= t.currSize /\ Pairs(old) = PairsBut(t, key)
    BY <1>1, RemoveInStep
  <1> HIDE DEF old
  <1>3. ~exists(old, key) /\ Pairs(old) = PairsBut(c, key)
    BY <1>1, <1>2 DEF exists, PairsBut
  <1>4. p \in Cache(K, D) /\ Pushed(old, key, data, p)
    BY <1>2, <1>3, PushInStep
  <1> HIDE DEF p
  <1>5. p.currSize <= MaxSize + 1 /\ Len(p.list) # 0
    <2>1. old.currSize \in Nat /\ c.currSize \in Nat /\ Len(old.list) \in Nat
      BY <1>1, <1>2, CacheFacts
    <2> QED  BY <2>1, <1>1, <1>2, <1>4 DEF Pushed
  <1>6. evict(p) \in Cache(K, D) /\ Evicted(K, p, evict(p))
    BY <1>4, <1>5, EvictInStep
  <1>7. Pairs(p) = PairsWith(c, key, data)
    BY <1>3, <1>4 DEF Pushed, PairsWith
  <1>8. insert(c, key, data) = evict(p)  BY DEF insert, push, p, old, t
  <1> QED  BY <1>6, <1>7, <1>8 DEF Evicted, PairsBut
-----------------------------------------------------------------------------
\* What a cache answers depends on its pairs only.
LEMMA DatumOfPair ==
  ASSUME NEW K, NEW D, NEW c \in Cache(K, D), NEW p \in Pairs(c)
  PROVE  datum(c, p.key) = p.data
  <1>1. PICK i \in 1 .. Len(c.list) : p = c.list[i]  BY DEF Pairs
  <1>2. exists(c, p.key)  BY <1>1, CacheFacts DEF exists
  <1>3. i = Position(c, p.key)  BY <1>1, <1>2, PositionValue
  <1> QED  BY <1>1, <1>2, <1>3 DEF datum

LEMMA PairOfDatum ==
  ASSUME NEW K, NEW D, NEW c \in Cache(K, D), NEW key, exists(c, key)
  PROVE  /\ key \in K /\ datum(c, key) \in D
         /\ [key |-> key, data |-> datum(c, key)] \in Pairs(c)
  <1> DEFINE p == c.list[Position(c, key)]
  <1>1. Position(c, key) \in 1 .. Len(c.list) /\ p.key = key
    <2>1. /\ Position(c, key) \in 1 .. Len(c.list)
          /\ c.list[Position(c, key)].key = key
          /\ \A i \in 1 .. Len(c.list) : c.list[i].key = key
                                           => i = Position(c, key)
      BY PositionValue
    <2> QED  BY <2>1
  <1>2. datum(c, key) = p.data  BY DEF datum
  <1>3. p \in Pairs(c)  BY <1>1 DEF Pairs
  <1>4. p \in Pair(K, D)  BY <1>1, CacheFacts, ElementOfSeq
  <1> HIDE DEF p
  <1>5. p = [key |-> key, data |-> p.data] /\ key \in K /\ p.data \in D
    BY <1>1, <1>4 DEF Pair
  <1> QED  BY <1>2, <1>3, <1>5

LEMMA DatumOfNone ==
  ASSUME NEW K, NEW D, NEW c \in Cache(K, D), NEW key,
         \A p \in Pairs(c) : p.key # key
  PROVE  datum(c, key) = NoData
  <1>1. ~exists(c, key)  BY CacheFacts DEF exists, Pairs
  <1> QED  BY <1>1 DEF datum

LEMMA SameDatum ==
  ASSUME NEW K, NEW D, NEW c \in Cache(K, D), NEW e \in Cache(K, D), NEW key,
         {p \in Pairs(e) : p.key = key} = {p \in Pairs(c) : p.key = key}
  PROVE  datum(e, key) = datum(c, key)
  <1>1. CASE \E p \in Pairs(c) : p.key = key
    <2>1. PICK p \in Pairs(c) : p.key = key  BY <1>1
    <2>2. p \in Pairs(e)  BY <2>1
    <2> QED  BY <2>1, <2>2, DatumOfPair
  <1>2. CASE \A p \in Pairs(c) : p.key # key
    <2>1. \A p \in Pairs(e) : p.key # key  BY <1>2
    <2> QED  BY <1>2, <2>1, DatumOfNone
  <1> QED  BY <1>1, <1>2
-----------------------------------------------------------------------------
\* The inductive invariant of CacheUse.
UseInv == lru \in Cache(Key, Data) /\ lru.currSize <= MaxSize

LEMMA InitInStep == UseInit => UseInv
  <1>1. Empty \in Cache(Key, Data)  BY EmptyInStep
  <1>2. Empty.currSize = 0 /\ 0 <= MaxSize
    BY MaxSizeAssumption DEF Empty
  <1> QED  BY <1>1, <1>2 DEF UseInit, UseInv

\* insert of any key.
LEMMA InsertKeeps ==
  ASSUME UseInv, NEW key \in Key, NEW data \in Data
  PROVE  /\ insert(lru, key, data) \in Cache(Key, Data)
         /\ insert(lru, key, data).currSize <= MaxSize
  BY InsertInStep DEF UseInv

LEMMA NextInStep == UseInv /\ [UseNext]_useVars => UseInv'
  <1> SUFFICES ASSUME UseInv, [UseNext]_useVars
               PROVE  UseInv'
    OBVIOUS
  <1>1. lru.currSize \in Nat /\ MaxSize \in Nat
    BY CacheFacts, MaxSizeAssumption DEF UseInv
  <1>2. ASSUME NEW key \in Key, NEW data \in Data, InsertPair(key, data)
        PROVE  UseInv'
    BY <1>2, InsertKeeps DEF InsertPair, UseInv
  <1>3. ASSUME NEW key \in Key, Fetch(key) \/ Touch(key)
        PROVE  UseInv'
    <2>1. /\ touch(lru, key) \in Cache(Key, Data)
          /\ touch(lru, key).currSize = lru.currSize
          /\ Pairs(touch(lru, key)) = Pairs(lru)
      BY TouchKeeps DEF UseInv
    <2>2. lru' = touch(lru, key)  BY <1>3 DEF Fetch, Touch
    <2> QED  BY <2>1, <2>2 DEF UseInv
  <1>4. ASSUME NEW key \in Key, Discard(key)
        PROVE  UseInv'
    <2>1. /\ remove(lru, key) \in Cache(Key, Data)
          /\ remove(lru, key).currSize <= lru.currSize
      BY RemoveInStep DEF UseInv
    <2>2. remove(lru, key).currSize \in Nat  BY <2>1, CacheFacts
    <2> QED  BY <1>1, <1>4, <2>1, <2>2 DEF Discard, UseInv
  <1>5. CASE Clear  BY <1>5, ClearInStep DEF Clear, UseInv
  <1>6. CASE UNCHANGED lru  BY <1>6 DEF UseInv
  <1>7. (\E key \in Key : Peek(key)) \/ UNCHANGED useVars => UNCHANGED lru
    BY DEF Peek, useVars
  <1> QED  BY <1>2, <1>3, <1>4, <1>5, <1>6, <1>7 DEF UseNext

LEMMA InStepInvariant == UseSpec => []UseInv
  BY InitInStep, NextInStep, PTL DEF UseSpec

\* The index has the keys of the list, each once, and the size is never below the
\* list's length nor above the bound: LRUCache::insert, _remove, _touch, clear.
THEOREM ListIndexAndSizeHolds == UseSpec => []ListIndexAndSize
  <1>1. ASSUME UseInv
        PROVE  ListIndexAndSize
    <2>1. IndexMatchesList
      <3>1. lru \in Cache(Key, Data)  BY <1>1 DEF UseInv
      <3>2. /\ lru.list \in Seq(Pair(Key, Data)) /\ DOMAIN lru.list = 1 .. Len(lru.list)
            /\ lru.index = {lru.list[i].key : i \in 1 .. Len(lru.list)}
            /\ \A i, j \in 1 .. Len(lru.list) :
                 lru.list[i].key = lru.list[j].key => i = j
        BY <3>1, CacheFacts
      <3> QED  BY <3>2 DEF IndexMatchesList, Pair
    <2>2. SizeWithinBounds
      BY <1>1, CacheFacts DEF UseInv, SizeWithinBounds
    <2> QED  BY <2>1, <2>2 DEF ListIndexAndSize
  <1> QED  BY <1>1, InStepInvariant, PTL
-----------------------------------------------------------------------------
content == [key \in Key |-> datum(lru, key)]

LEMMA InsertImplements ==
  ASSUME UseInv, UseInv', NEW key \in Key, NEW data \in Data, InsertPair(key, data)
  PROVE  Abstract!Insert(key, data)
  <1> DEFINE new == insert(lru, key, data)
             full == [content EXCEPT ![key] = data]
  <1>1. /\ lru' = new /\ last' = Called("insert", key, data)
        /\ lru \in Cache(Key, Data) /\ new \in Cache(Key, Data)
    BY DEF InsertPair, UseInv
  <1>2. \/ Pairs(new) = PairsWith(lru, key, data)
        \/ \E k \in Key : Pairs(new) =
                            {p \in PairsWith(lru, key, data) : p.key # k}
    BY InsertInStep DEF UseInv
  <1>3. content' = [k \in Key |-> datum(new, k)]  BY <1>1 DEF content
  <1> HIDE DEF new
  <1>4. ASSUME NEW k \in Key, k # key,
               {p \in Pairs(new) : p.key = k}
                 = {p \in PairsWith(lru, key, data) : p.key = k}
        PROVE  datum(new, k) = full[k]
    <2>1. {p \in Pairs(new) : p.key = k} = {p \in Pairs(lru) : p.key = k}
      BY <1>4 DEF PairsWith, PairsBut
    <2>2. datum(new, k) = datum(lru, k)  BY <1>1, <2>1, SameDatum
    <2> QED  BY <1>4, <2>2 DEF content
  <1>5. ASSUME [key |-> key, data |-> data] \in Pairs(new)
        PROVE  datum(new, key) = full[key]
    <2> DEFINE p == [key |-> key, data |-> data]
    <2>1. p.key = key /\ p.data = data  OBVIOUS
    <2>2. p \in Pairs(new)  BY <1>5
    <2> HIDE DEF p
    <2>3. datum(new, p.key) = p.data  BY <1>1, <2>2, DatumOfPair
    <2> QED  BY <2>1, <2>3 DEF content
  <1>6. CASE Pairs(new) = PairsWith(lru, key, data)
    <2>1. [key |-> key, data |-> data] \in Pairs(new)
      BY <1>6 DEF PairsWith
    <2>2. ASSUME NEW k \in Key
          PROVE  datum(new, k) = full[k]
      <3>1. CASE k = key  BY <3>1, <2>1, <1>5
      <3>2. CASE k # key  BY <3>2, <1>4, <1>6
      <3> QED  BY <3>1, <3>2
    <2>3. content' = full  BY <2>2, <1>3 DEF content
    <2> QED  BY <2>3, <1>1 DEF Abstract!Insert, Abstract!Call, Called, content
  <1>7. ASSUME NEW victim \in Key,
               Pairs(new) = {p \in PairsWith(lru, key, data) : p.key # victim}
        PROVE  content' = [full EXCEPT ![victim] = NoData]
    <2>1. datum(new, victim) = NoData
      <3>1. \A p \in Pairs(new) : p.key # victim  BY <1>7
      <3> QED  BY <3>1, <1>1, DatumOfNone
    <2>2. ASSUME NEW k \in Key, k # victim
          PROVE  datum(new, k) = full[k]
      <3>1. CASE k = key
        <4>1. [key |-> key, data |-> data] \in Pairs(new)
          BY <1>7, <2>2, <3>1 DEF PairsWith
        <4> QED  BY <3>1, <4>1, <1>5
      <3>2. CASE k # key
        <4>1. {p \in Pairs(new) : p.key = k}
                = {p \in PairsWith(lru, key, data) : p.key = k}
          BY <1>7, <2>2
        <4> QED  BY <3>2, <4>1, <1>4
      <3> QED  BY <3>1, <3>2
    <2> QED  BY <2>1, <2>2, <1>3 DEF content
  <1>8. CASE \E k \in Key : Pairs(new) =
                              {p \in PairsWith(lru, key, data) : p.key # k}
    <2>1. \E victim \in Key : content' = [full EXCEPT ![victim] = NoData]
      BY <1>7, <1>8
    <2> QED  BY <2>1, <1>1 DEF Abstract!Insert, Abstract!Call, Called, content
  <1> QED  BY <1>2, <1>6, <1>8

LEMMA SamePairs ==
  ASSUME UseInv, UseInv', Pairs(lru') = Pairs(lru)
  PROVE  content' = content
  <1>1. lru \in Cache(Key, Data) /\ lru' \in Cache(Key, Data)
    BY DEF UseInv
  <1>2. ASSUME NEW k \in Key
        PROVE  datum(lru', k) = datum(lru, k)
    BY <1>1, SameDatum
  <1> QED  BY <1>2 DEF content

LEMMA DiscardImplements ==
  ASSUME UseInv, UseInv', NEW key \in Key, Discard(key)
  PROVE  Abstract!Remove(key)
  <1>1. /\ lru' = remove(lru, key) /\ last' = Called("remove", key, NoData)
        /\ lru \in Cache(Key, Data) /\ lru' \in Cache(Key, Data)
    BY DEF Discard, UseInv
  <1>2. Pairs(lru') = PairsBut(lru, key)  BY <1>1, RemoveInStep
  <1>3. datum(lru', key) = NoData
    <2>1. \A p \in Pairs(lru') : p.key # key  BY <1>2 DEF PairsBut
    <2> QED  BY <2>1, <1>1, DatumOfNone
  <1>4. ASSUME NEW k \in Key, k # key
        PROVE  datum(lru', k) = datum(lru, k)
    <2>1. {p \in Pairs(lru') : p.key = k} = {p \in Pairs(lru) : p.key = k}
      BY <1>2, <1>4 DEF PairsBut
    <2> QED  BY <2>1, <1>1, SameDatum
  <1>5. content' = [content EXCEPT ![key] = NoData]
    BY <1>3, <1>4 DEF content
  <1> QED  BY <1>1, <1>5 DEF Abstract!Remove, Abstract!Call, Called, content

LEMMA ClearImplements ==
  ASSUME UseInv, UseInv', Clear
  PROVE  Abstract!Clear
  <1>1. Pairs(lru') = {}  BY ClearInStep DEF Clear, UseInv
  <1>2. ASSUME NEW k \in Key
        PROVE  datum(lru', k) = NoData
    <2>1. \A p \in Pairs(lru') : p.key # k  BY <1>1
    <2> QED  BY <2>1, DatumOfNone DEF UseInv
  <1>3. content' = [key \in Key |-> NoData]  BY <1>2 DEF content
  <1> QED  BY <1>3 DEF Clear, Abstract!Clear, Abstract!Call, Called, content

\* Every operation of the cache does what CacheSpec promises: a fetch answers with
\* the last datum inserted, and an insertion drops one entry at most.
THEOREM NothingStaleHolds == UseSpec => NothingStale
  <1>1. UseInit => Abstract!Init
    <2> SUFFICES ASSUME UseInit
                 PROVE  Abstract!Init
      OBVIOUS
    <2>1. \A k \in Key : datum(lru, k) = NoData
      BY DEF UseInit, Empty, datum, exists
    <2> QED  BY <2>1 DEF UseInit, Abstract!Init, Abstract!Call, Called
  <1>2. UseInv /\ UseInv' /\ [UseNext]_useVars => [Abstract!Next]_(Abstract!cacheVars)
    <2> SUFFICES ASSUME UseInv, UseInv', [UseNext]_useVars
                 PROVE  Abstract!Next \/ UNCHANGED Abstract!cacheVars
      OBVIOUS
    <2>1. ASSUME NEW key \in Key, NEW data \in Data, InsertPair(key, data)
          PROVE  Abstract!Next
      BY <2>1, InsertImplements DEF Abstract!Next
    <2>2. ASSUME NEW key \in Key, Fetch(key) \/ Peek(key)
          PROVE  Abstract!Next
      <3>1. Pairs(lru') = Pairs(lru)
        <4>1. CASE Fetch(key)  BY <4>1, TouchKeeps DEF Fetch, UseInv
        <4>2. CASE Peek(key)  BY <4>2 DEF Peek
        <4> QED  BY <2>2, <4>1, <4>2
      <3>2. content' = content  BY <3>1, SamePairs
      <3>3. last' = Called("fetch", key, content[key])
        BY <2>2 DEF Fetch, Peek, content
      <3>4. Abstract!Fetch(key)
        BY <3>2, <3>3 DEF Abstract!Fetch, Abstract!Call, Called, content
      <3> QED  BY <3>4 DEF Abstract!Next
    <2>3. ASSUME NEW key \in Key, Touch(key)
          PROVE  UNCHANGED Abstract!cacheVars
      <3>1. Pairs(lru') = Pairs(lru)  BY <2>3, TouchKeeps DEF Touch, UseInv
      <3>2. content' = content  BY <3>1, SamePairs
      <3> QED  BY <2>3, <3>2 DEF Touch, Abstract!cacheVars, content
    <2>4. ASSUME NEW key \in Key, Discard(key)
          PROVE  Abstract!Next
      BY <2>4, DiscardImplements DEF Abstract!Next
    <2>5. CASE Clear  BY <2>5, ClearImplements DEF Abstract!Next
    <2>6. CASE UNCHANGED useVars  BY <2>6 DEF useVars, Abstract!cacheVars
    <2> QED  BY <2>1, <2>2, <2>3, <2>4, <2>5, <2>6 DEF UseNext
  <1> QED  BY <1>1, <1>2, InStepInvariant, PTL DEF UseSpec, NothingStale, Abstract!Spec
-----------------------------------------------------------------------------
(* The order of uses.                                                        *)
Distinct(r) == \A i, j \in 1 .. Len(r) : r[i] = r[j] => i = j

\* The keys of the list are the latest used ones, in their order.
Follows(c, r) ==
  /\ Len(c.list) <= Len(r)
  /\ \A i \in 1 .. Len(c.list) : c.list[i].key = r[i]

LEMMA RemoveFirstAt ==
  ASSUME NEW S, NEW r \in Seq(S), Distinct(r), NEW n \in 1 .. Len(r)
  PROVE  RemoveFirst(r, r[n]) = RemoveAt(r, n)
  <1> DEFINE I == {i \in 1 .. Len(r) : r[i] = r[n]}
  <1>1. I = {n}  BY DEF Distinct
  <1>2. Len(r) \in Nat  BY LenProperties
  <1>3. Min({n}) = n  BY <1>2 DEF Min
  <1>4. SelectInSeq(r, LAMBDA v : v = r[n]) = n
    BY <1>1, <1>3 DEF SelectInSeq
  <1> QED  BY <1>4 DEF RemoveFirst

LEMMA RemoveFirstNone ==
  ASSUME NEW S, NEW r \in Seq(S), NEW e, \A i \in 1 .. Len(r) : r[i] # e
  PROVE  RemoveFirst(r, e) = r
  BY DEF RemoveFirst

\* An element taken out of a sequence without repetitions.
LEMMA TakenOut ==
  ASSUME NEW S, NEW r \in Seq(S), Distinct(r), NEW n \in 1 .. Len(r)
  PROVE  /\ RemoveAt(r, n) \in Seq(S) /\ Distinct(RemoveAt(r, n))
         /\ \A i \in 1 .. Len(RemoveAt(r, n)) : RemoveAt(r, n)[i] # r[n]
  <1> DEFINE q == RemoveAt(r, n)
             at(i) == IF i < n THEN i ELSE i + 1
  <1>1. /\ q \in Seq(S) /\ Len(q) = Len(r) - 1
        /\ \A i \in 1 .. Len(r) - 1 : q[i] = IF i < n THEN r[i] ELSE r[i + 1]
    BY RemoveAtValue
  <1> HIDE DEF q
  <1>2. Len(r) \in Nat  BY LenProperties
  <1>3. ASSUME NEW i \in 1 .. Len(q)
        PROVE  at(i) \in 1 .. Len(r) /\ at(i) # n /\ q[i] = r[at(i)]
    BY <1>1, <1>2
  <1>4. ASSUME NEW i \in 1 .. Len(q), NEW j \in 1 .. Len(q), at(i) = at(j)
        PROVE  i = j
    BY <1>1, <1>2, <1>4
  <1> HIDE DEF at
  <1>5. Distinct(q)  BY <1>3, <1>4 DEF Distinct
  <1>6. \A i \in 1 .. Len(q) : q[i] # r[n]  BY <1>3 DEF Distinct
  <1> QED  BY <1>1, <1>5, <1>6 DEF q

LEMMA WithoutKey ==
  ASSUME NEW S, NEW r \in Seq(S), Distinct(r), NEW e
  PROVE  /\ RemoveFirst(r, e) \in Seq(S) /\ Distinct(RemoveFirst(r, e))
         /\ \A i \in 1 .. Len(RemoveFirst(r, e)) : RemoveFirst(r, e)[i] # e
  <1>1. CASE \A i \in 1 .. Len(r) : r[i] # e
    <2>1. RemoveFirst(r, e) = r  BY <1>1, RemoveFirstNone
    <2> QED  BY <1>1, <2>1
  <1>2. CASE \E n \in 1 .. Len(r) : r[n] = e
    <2>1. PICK n \in 1 .. Len(r) : r[n] = e  BY <1>2
    <2>2. RemoveFirst(r, e) = RemoveAt(r, n)  BY <2>1, RemoveFirstAt
    <2>3. /\ RemoveAt(r, n) \in Seq(S) /\ Distinct(RemoveAt(r, n))
          /\ \A i \in 1 .. Len(RemoveAt(r, n)) : RemoveAt(r, n)[i] # r[n]
      BY TakenOut
    <2> QED  BY <2>1, <2>2, <2>3
  <1> QED  BY <1>1, <1>2

\* A part at the head without the key stays as it is.
LEMMA HeadStays ==
  ASSUME NEW S, NEW r \in Seq(S), Distinct(r), NEW e,
         NEW m \in 0 .. Len(r), \A i \in 1 .. m : r[i] # e
  PROVE  /\ m <= Len(RemoveFirst(r, e))
         /\ \A i \in 1 .. m : RemoveFirst(r, e)[i] = r[i]
  <1>0. Len(r) \in Nat  BY LenProperties
  <1>1. CASE \A i \in 1 .. Len(r) : r[i] # e
    <2>1. RemoveFirst(r, e) = r  BY <1>1, RemoveFirstNone
    <2> QED  BY <1>0, <2>1
  <1>2. CASE \E n \in 1 .. Len(r) : r[n] = e
    <2>1. PICK n \in 1 .. Len(r) : r[n] = e  BY <1>2
    <2>2. RemoveFirst(r, e) = RemoveAt(r, n)  BY <2>1, RemoveFirstAt
    <2>3. m < n  BY <1>0, <2>1
    <2>4. /\ Len(RemoveAt(r, n)) = Len(r) - 1
          /\ \A i \in 1 .. Len(r) - 1 :
               RemoveAt(r, n)[i] = IF i < n THEN r[i] ELSE r[i + 1]
      BY RemoveAtValue
    <2> QED  BY <1>0, <2>2, <2>3, <2>4
  <1> QED  BY <1>1, <1>2

\* The key in front of the others: Used.
UsedNow(r, key) == <<key>> \o RemoveFirst(r, key)

LEMMA UsedDistinct ==
  ASSUME NEW S, NEW r \in Seq(S), Distinct(r), NEW key \in S
  PROVE  UsedNow(r, key) \in Seq(S) /\ Distinct(UsedNow(r, key))
  <1> DEFINE q == RemoveFirst(r, key)
             u == UsedNow(r, key)
  <1>1. /\ q \in Seq(S) /\ Distinct(q)
        /\ \A i \in 1 .. Len(q) : q[i] # key
    BY WithoutKey
  <1> HIDE DEF q
  <1>2. Len(q) \in Nat  BY <1>1, LenProperties
  <1>3. u = <<key>> \o q  BY DEF UsedNow, q
  <1> HIDE DEF u
  <1>4. /\ u \in Seq(S) /\ Len(u) = Len(q) + 1
        /\ \A i \in 1 .. Len(q) + 1 : u[i] = IF i = 1 THEN key ELSE q[i - 1]
    BY <1>1, <1>3, PushValue
  <1>5. ASSUME NEW i \in 1 .. Len(u), i # 1
        PROVE  i - 1 \in 1 .. Len(q) /\ u[i] = q[i - 1]
    BY <1>2, <1>4, <1>5
  <1>6. ASSUME NEW i \in 1 .. Len(u), NEW j \in 1 .. Len(u), u[i] = u[j]
        PROVE  i = j
    <2>1. 1 \in 1 .. Len(u) /\ u[1] = key  BY <1>2, <1>4
    <2>2. CASE i = 1 \/ j = 1  BY <2>1, <2>2, <1>1, <1>5, <1>6
    <2>3. CASE i # 1 /\ j # 1
      <3>1. i - 1 = j - 1  BY <2>3, <1>1, <1>5, <1>6 DEF Distinct
      <3> QED  BY <3>1, <1>2, <1>4
    <2> QED  BY <2>2, <2>3
  <1> QED  BY <1>4, <1>6 DEF Distinct, u

\* What a cache that follows an order holds of a key is at its place there.
LEMMA PlaceOfKey ==
  ASSUME NEW K, NEW D, NEW c \in Cache(K, D), NEW r \in Seq(K),
         Follows(c, r), NEW key, exists(c, key)
  PROVE  /\ Position(c, key) \in 1 .. Len(r)
         /\ r[Position(c, key)] = key
  <1>1. /\ Position(c, key) \in 1 .. Len(c.list)
        /\ c.list[Position(c, key)].key = key
        /\ \A i \in 1 .. Len(c.list) : c.list[i].key = key
                                         => i = Position(c, key)
    BY PositionValue
  <1>2. Len(c.list) \in Nat /\ Len(r) \in Nat  BY CacheFacts, LenProperties
  <1> QED  BY <1>1, <1>2 DEF Follows

LEMMA RemoveFollows ==
  ASSUME NEW K, NEW D, NEW c \in Cache(K, D), NEW r \in Seq(K), Distinct(r),
         Follows(c, r), NEW key, exists(c, key)
  PROVE  Follows(remove(c, key), RemoveFirst(r, key))
  <1> DEFINE n == Position(c, key)
             e == erase(c, key)
  <1>1. n \in 1 .. Len(r) /\ r[n] = key  BY PlaceOfKey
  <1>2. n \in 1 .. Len(c.list)  BY PositionValue
  <1>3. e \in Cache(K, D) /\ Erased(c, key, e)  BY EraseInStep
  <1>4. remove(c, key) = e  BY DEF remove
  <1> HIDE DEF e
  <1>5. /\ Len(e.list) = Len(c.list) - 1
        /\ \A i \in 1 .. Len(c.list) - 1 : e.list[i] =
             IF i < n THEN c.list[i] ELSE c.list[i + 1]
    BY <1>3 DEF Erased
  <1> HIDE DEF n
  <1>6. RemoveFirst(r, key) = RemoveAt(r, n)  BY <1>1, RemoveFirstAt
  <1>7. /\ Len(RemoveAt(r, n)) = Len(r) - 1
        /\ \A i \in 1 .. Len(r) - 1 :
             RemoveAt(r, n)[i] = IF i < n THEN r[i] ELSE r[i + 1]
    BY <1>1, RemoveAtValue
  <1>8. Len(c.list) \in Nat /\ Len(r) \in Nat /\ Len(c.list) <= Len(r)
        /\ \A i \in 1 .. Len(c.list) : c.list[i].key = r[i]
    BY CacheFacts, LenProperties DEF Follows
  <1>9. ASSUME NEW i \in 1 .. Len(e.list)
        PROVE  e.list[i].key = RemoveAt(r, n)[i]
    <2>1. i \in 1 .. Len(c.list) - 1 /\ i \in 1 .. Len(r) - 1
          /\ i \in 1 .. Len(c.list) /\ i + 1 \in 1 .. Len(c.list)
      BY <1>5, <1>8
    <2>2. CASE i < n  BY <2>1, <2>2, <1>5, <1>7, <1>8
    <2>3. CASE ~(i < n)  BY <2>1, <2>3, <1>5, <1>7, <1>8
    <2> QED  BY <2>2, <2>3
  <1>10. Len(e.list) <= Len(RemoveAt(r, n))  BY <1>5, <1>7, <1>8
  <1> QED  BY <1>4, <1>6, <1>9, <1>10 DEF Follows

\* m is a list l with a pair of a key in front.
InFront(m, key, l) ==
  /\ Len(m) = Len(l) + 1
  /\ m[1].key = key
  /\ \A i \in 2 .. Len(m) : m[i] = l[i - 1]

LEMMA PushFollows ==
  ASSUME NEW K, NEW D, NEW e \in Cache(K, D), NEW t, NEW r \in Seq(K),
         NEW key \in K, Follows(e, r), InFront(t.list, key, e.list)
  PROVE  Follows(t, <<key>> \o r)
  <1> DEFINE l == e.list
             m == t.list
             u == <<key>> \o r
  <1>1. Len(l) \in Nat /\ Len(r) \in Nat  BY CacheFacts, LenProperties
  <1>2. /\ Len(u) = Len(r) + 1
        /\ \A i \in 1 .. Len(r) + 1 : u[i] = IF i = 1 THEN key ELSE r[i - 1]
    BY PushValue
  <1>3. Len(l) <= Len(r) /\ \A i \in 1 .. Len(l) : l[i].key = r[i]
    BY DEF Follows
  <1>4. /\ Len(m) = Len(l) + 1 /\ m[1].key = key
        /\ \A i \in 2 .. Len(m) : m[i] = l[i - 1]
    BY DEF InFront
  <1> HIDE DEF l, m, u
  <1>5. ASSUME NEW i \in 1 .. Len(m)
        PROVE  m[i].key = u[i]
    <2>1. i \in 1 .. Len(r) + 1  BY <1>1, <1>3, <1>4
    <2>2. CASE i = 1  BY <2>1, <2>2, <1>2, <1>4
    <2>3. CASE i # 1
      <3>1. i \in 2 .. Len(m) /\ i - 1 \in 1 .. Len(l)
        BY <2>3, <1>1, <1>4
      <3> QED  BY <2>1, <2>3, <3>1, <1>2, <1>3, <1>4
    <2> QED  BY <2>2, <2>3
  <1>6. Len(m) <= Len(u)  BY <1>1, <1>2, <1>3, <1>4
  <1> QED  BY <1>5, <1>6 DEF Follows, m, u

LEMMA TouchFollows ==
  ASSUME NEW K, NEW D, NEW c \in Cache(K, D), NEW r \in Seq(K), Distinct(r),
         Follows(c, r), NEW key \in K, exists(c, key)
  PROVE  Follows(touch(c, key), UsedNow(r, key))
  <1> DEFINE n == Position(c, key)
             t == touch(c, key)
             q == RemoveFirst(r, key)
             e == erase(c, key)
  <1>1. n \in 1 .. Len(c.list) /\ c.list[n].key = key
    <2>1. /\ Position(c, key) \in 1 .. Len(c.list)
          /\ c.list[Position(c, key)].key = key
          /\ \A i \in 1 .. Len(c.list) : c.list[i].key = key
                                           => i = Position(c, key)
      BY PositionValue
    <2> QED  BY <2>1
  <1>2. t \in Cache(K, D) /\ Touched(c, key, t)  BY TouchInStep
  <1>3. e \in Cache(K, D) /\ Erased(c, key, e)  BY EraseInStep
  <1>4. Follows(e, q)
    <2>1. e = remove(c, key)  BY DEF remove
    <2> QED  BY <2>1, RemoveFollows
  <1>5. q \in Seq(K)  BY WithoutKey
  <1> HIDE DEF t, q, e
  <1>6. /\ Len(t.list) = Len(c.list)
        /\ \A i \in 1 .. Len(c.list) : t.list[i] =
             IF i = 1 THEN c.list[n]
             ELSE IF i <= n THEN c.list[i - 1] ELSE c.list[i]
    BY <1>2 DEF Touched
  <1>7. /\ Len(e.list) = Len(c.list) - 1
        /\ \A i \in 1 .. Len(c.list) - 1 : e.list[i] =
             IF i < n THEN c.list[i] ELSE c.list[i + 1]
    BY <1>3 DEF Erased
  <1> HIDE DEF n
  <1>8. Len(c.list) \in Nat  BY CacheFacts
  <1>9. ASSUME NEW i \in 2 .. Len(t.list)
        PROVE  t.list[i] = e.list[i - 1]
    <2>1. i \in 1 .. Len(c.list) /\ i - 1 \in 1 .. Len(c.list) - 1 /\ i # 1
          /\ (i - 1) + 1 = i /\ (i - 1 < n <=> i <= n)
      BY <1>1, <1>6, <1>8
    <2> QED  BY <2>1, <1>6, <1>7
  <1>10. Len(t.list) = Len(e.list) + 1 /\ t.list[1].key = key
    BY <1>1, <1>6, <1>7, <1>8
  <1>11. InFront(t.list, key, e.list)  BY <1>9, <1>10 DEF InFront
  <1>12. Follows(t, <<key>> \o q)
    BY <1>3, <1>4, <1>5, <1>11, PushFollows
  <1> QED  BY <1>12 DEF UsedNow, t, q

\* An insertion takes the key out, puts it in front and drops the last pair.
LEMMA InsertFollows ==
  ASSUME NEW K, NEW D, NEW c \in Cache(K, D), c.currSize <= MaxSize,
         NEW r \in Seq(K), Distinct(r), Follows(c, r),
         NEW key \in K, NEW data \in D
  PROVE  Follows(insert(c, key, data), UsedNow(r, key))
  <1> DEFINE q == RemoveFirst(r, key)
             t == touch(c, key)
             old == remove(t, key)
             p == push(old, key, data)
  <1>1. /\ q \in Seq(K) /\ Distinct(q)
        /\ \A i \in 1 .. Len(q) : q[i] # key
    BY WithoutKey
  <1>2. t \in Cache(K, D) /\ t.currSize = c.currSize  BY TouchKeeps
  <1>3. Follows(old, q)
    <2>1. CASE exists(c, key)
      <3> DEFINE u == UsedNow(r, key)
      <3>1. Follows(t, u)  BY <2>1, TouchFollows
      <3>2. u \in Seq(K) /\ Distinct(u)  BY UsedDistinct
      <3>3. exists(t, key)
        <4>1. touch(c, key) \in Cache(K, D) /\ Touched(c, key, touch(c, key))
          BY <2>1, TouchInStep
        <4> QED  BY <2>1, <4>1 DEF Touched, exists
      <3>4. RemoveFirst(u, key) = q
        <4> HIDE DEF q
        <4>1. u = <<key>> \o q  BY DEF UsedNow, q
        <4>2. Len(q) \in Nat  BY <1>1, LenProperties
        <4>3. /\ Len(u) = Len(q) + 1
              /\ \A i \in 1 .. Len(q) + 1 :
                   u[i] = IF i = 1 THEN key ELSE q[i - 1]
          BY <1>1, <4>1, PushValue
        <4> HIDE DEF u
        <4>4. 1 \in 1 .. Len(u) /\ u[1] = key  BY <4>2, <4>3
        <4>5. RemoveFirst(u, key) = RemoveAt(u, 1)
          BY <3>2, <4>4, RemoveFirstAt
        <4>6. /\ RemoveAt(u, 1) \in Seq(K) /\ Len(RemoveAt(u, 1)) = Len(q)
              /\ \A i \in 1 .. Len(q) : RemoveAt(u, 1)[i] = q[i]
          <5>1. /\ RemoveAt(u, 1) \in Seq(K)
                /\ Len(RemoveAt(u, 1)) = Len(u) - 1
                /\ \A i \in 1 .. Len(u) - 1 : RemoveAt(u, 1)[i] =
                     IF i < 1 THEN u[i] ELSE u[i + 1]
            BY <3>2, <4>4, RemoveAtValue
          <5>2. ASSUME NEW i \in 1 .. Len(q)
                PROVE  RemoveAt(u, 1)[i] = q[i]
            <6>1. /\ i \in 1 .. Len(u) - 1 /\ ~(i < 1) /\ i + 1 # 1
                  /\ i + 1 \in 1 .. Len(q) + 1 /\ (i + 1) - 1 = i
              BY <4>2, <4>3
            <6> QED  BY <6>1, <4>3, <5>1
          <5> QED  BY <5>1, <5>2, <4>2, <4>3
        <4>7. RemoveAt(u, 1) = q  BY <1>1, <4>6, SeqEqual
        <4> QED  BY <4>5, <4>7
      <3> HIDE DEF t, u, q
      <3>5. Follows(remove(t, key), RemoveFirst(u, key))
        BY <1>2, <3>1, <3>2, <3>3, RemoveFollows
      <3> QED  BY <3>4, <3>5
    <2>2. CASE ~exists(c, key)
      <3>1. old = c  BY <2>2 DEF touch, remove
      <3>2. /\ Len(c.list) \in Nat /\ Len(r) \in Nat
            /\ c.index = {c.list[i].key : i \in 1 .. Len(c.list)}
        BY CacheFacts, LenProperties
      <3>3. /\ Len(c.list) \in 0 .. Len(r)
            /\ \A i \in 1 .. Len(c.list) : c.list[i].key = r[i]
        BY <3>2 DEF Follows
      <3>4. \A i \in 1 .. Len(c.list) : r[i] # key
        BY <2>2, <3>2, <3>3 DEF exists
      <3>5. /\ Len(c.list) <= Len(RemoveFirst(r, key))
            /\ \A i \in 1 .. Len(c.list) : RemoveFirst(r, key)[i] = r[i]
        BY <3>3, <3>4, HeadStays
      <3> QED  BY <3>1, <3>3, <3>5 DEF Follows
    <2> QED  BY <2>1, <2>2
  <1> HIDE DEF q, t
  <1>4. /\ old \in Cache(K, D) /\ old.index = t.index \ {key}
        /\ old.currSize <= t.currSize /\ Pairs(old) = PairsBut(t, key)
    BY <1>2, RemoveInStep
  <1> HIDE DEF old
  <1>5. ~exists(old, key)  BY <1>4 DEF exists
  <1>6. p \in Cache(K, D) /\ Pushed(old, key, data, p)
    BY <1>4, <1>5, PushInStep
  <1> HIDE DEF p
  <1>7. Len(old.list) \in Nat /\ old.currSize \in Nat /\ c.currSize \in Nat
        /\ MaxSize \in Nat
    BY <1>4, CacheFacts, MaxSizeAssumption
  <1>8. p.currSize <= MaxSize + 1 /\ Len(p.list) = Len(old.list) + 1
    BY <1>2, <1>4, <1>6, <1>7 DEF Pushed
  <1>9. InFront(p.list, key, old.list)
    <2>1. \A i \in 1 .. Len(old.list) + 1 : p.list[i] =
            IF i = 1 THEN [key |-> key, data |-> data] ELSE old.list[i - 1]
      BY <1>6 DEF Pushed
    <2> QED  BY <2>1, <1>7, <1>8 DEF InFront
  <1>10. Follows(p, <<key>> \o q)  BY <1>1, <1>3, <1>4, <1>9, PushFollows
  <1>11. evict(p) \in Cache(K, D) /\ Evicted(K, p, evict(p))
    <2>1. Len(p.list) # 0  BY <1>7, <1>8
    <2> QED  BY <2>1, <1>6, <1>8, EvictInStep
  <1>12. Follows(evict(p), <<key>> \o q)
    <2> DEFINE u == <<key>> \o q
               e == evict(p)
    <2>1. u \in Seq(K)  BY <1>1, PushValue
    <2>2. Len(u) \in Nat /\ Len(p.list) \in Nat /\ Len(e.list) \in Nat
      BY <1>6, <1>11, <2>1, CacheFacts, LenProperties
    <2>3. /\ Len(e.list) <= Len(p.list)
          /\ \A i \in 1 .. Len(e.list) : e.list[i] = p.list[i]
      BY <1>11 DEF Evicted
    <2>4. /\ Len(p.list) <= Len(u)
          /\ \A i \in 1 .. Len(p.list) : p.list[i].key = u[i]
      BY <1>10 DEF Follows
    <2> HIDE DEF u, e
    <2>5. Follows(e, u)  BY <2>2, <2>3, <2>4 DEF Follows
    <2> QED  BY <2>5 DEF u, e
  <1>13. insert(c, key, data) = evict(p)  BY DEF insert, push, p, old, t
  <1> QED  BY <1>12, <1>13 DEF UsedNow, q
-----------------------------------------------------------------------------
\* The inductive invariant of the order.
OInv ==
  /\ recent \in Seq(Key)
  /\ Distinct(recent)
  /\ Follows(lru, recent)

LEMMA NextInOrder == UseInv /\ OInv /\ [UseNext]_useVars => OInv'
  <1> SUFFICES ASSUME UseInv, OInv, [UseNext]_useVars
               PROVE  OInv'
    OBVIOUS
  <1>1. /\ lru \in Cache(Key, Data) /\ lru.currSize <= MaxSize
        /\ recent \in Seq(Key) /\ Distinct(recent) /\ Follows(lru, recent)
    BY DEF UseInv, OInv
  <1>2. ASSUME NEW key \in Key
        PROVE  UsedNow(recent, key) \in Seq(Key) /\ Distinct(UsedNow(recent, key))
    BY <1>1, UsedDistinct
  <1>3. ASSUME NEW key \in Key, NEW data \in Data, InsertPair(key, data)
        PROVE  OInv'
    <2>1. Follows(insert(lru, key, data), UsedNow(recent, key))
      BY <1>1, InsertFollows
    <2>2. lru' = insert(lru, key, data) /\ recent' = UsedNow(recent, key)
      BY <1>3 DEF InsertPair, Used, UsedNow
    <2> QED  BY <2>1, <2>2, <1>2 DEF OInv
  <1>4. ASSUME NEW key \in Key, Fetch(key) \/ Touch(key)
        PROVE  OInv'
    <2>1. CASE exists(lru, key)
      <3>1. Follows(touch(lru, key), UsedNow(recent, key))
        BY <2>1, <1>1, TouchFollows
      <3>2. lru' = touch(lru, key) /\ recent' = UsedNow(recent, key)
        BY <1>4, <2>1 DEF Fetch, Touch, Used, UsedNow
      <3> QED  BY <3>1, <3>2, <1>2 DEF OInv
    <2>2. CASE ~exists(lru, key)
      <3>1. lru' = lru /\ recent' = recent
        BY <1>4, <2>2 DEF Fetch, Touch, touch
      <3> QED  BY <3>1 DEF OInv
    <2> QED  BY <2>1, <2>2
  <1>5. ASSUME NEW key \in Key, Discard(key)
        PROVE  OInv'
    <2>1. CASE exists(lru, key)
      <3>1. Follows(remove(lru, key), RemoveFirst(recent, key))
        BY <2>1, <1>1, RemoveFollows
      <3>2. /\ RemoveFirst(recent, key) \in Seq(Key)
            /\ Distinct(RemoveFirst(recent, key))
            /\ \A i \in 1 .. Len(RemoveFirst(recent, key)) :
                 RemoveFirst(recent, key)[i] # key
        BY <1>1, WithoutKey
      <3>3. /\ lru' = remove(lru, key)
            /\ recent' = RemoveFirst(recent, key)
        BY <1>5, <2>1 DEF Discard
      <3> QED  BY <3>1, <3>2, <3>3 DEF OInv
    <2>2. CASE ~exists(lru, key)
      <3>1. lru' = lru /\ recent' = recent
        BY <1>5, <2>2 DEF Discard, remove
      <3> QED  BY <3>1 DEF OInv
    <2> QED  BY <2>1, <2>2
  <1>6. CASE Clear
    <2>1. <<>> \in Seq(Key) /\ Len(<<>>) = 0  BY EmptySeq
    <2>2. Len(clear(lru).list) = 0  BY <2>1 DEF clear
    <2>3. lru' = clear(lru) /\ recent' = <<>>  BY <1>6 DEF Clear
    <2> QED  BY <2>1, <2>2, <2>3 DEF OInv, Distinct, Follows
  <1>7. CASE UNCHANGED <<lru, recent>>  BY <1>7 DEF OInv
  <1>8. (\E key \in Key : Peek(key)) \/ UNCHANGED useVars
          => UNCHANGED <<lru, recent>>
    BY DEF Peek, useVars
  <1> QED  BY <1>3, <1>4, <1>5, <1>6, <1>7, <1>8 DEF UseNext

\* What the cache still holds was used after everything it has discarded, in the
\* order of its list: LRUCache::insert, _touch, _remove.
THEOREM LeastRecentlyUsedGoesHolds == UseSpec => []LeastRecentlyUsedGoes
  <1>1. UseInit => OInv
    <2>1. <<>> \in Seq(Key) /\ Len(<<>>) = 0  BY EmptySeq
    <2> QED  BY <2>1 DEF UseInit, Empty, OInv, Distinct, Follows
  <1>2. UseSpec => []OInv  BY <1>1, NextInOrder, InStepInvariant, PTL DEF UseSpec
  <1>3. ASSUME UseInv, OInv
        PROVE  LeastRecentlyUsedGoes
    BY <1>3, CacheFacts DEF UseInv, OInv, Follows, LeastRecentlyUsedGoes
  <1> QED  BY <1>2, <1>3, InStepInvariant, PTL
=============================================================================
