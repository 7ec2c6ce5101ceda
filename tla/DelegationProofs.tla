-------------------------- MODULE DelegationProofs --------------------------
(***************************************************************************)
(* The invariants of the services of interop/delegation, for any number of *)
(* programs, entities, posts and threads, and any faults: the broadcaster  *)
(* reaches who was subscribed, cancelForward stops the thread it finds, and*)
(* no post is lost or doubled but those of a call or a process that failed.*)
(***************************************************************************)
EXTENDS Delegation, FiniteSetTheorems, SequenceTheorems, TLAPS

ThreadStep == {"start", "wait", "ended"} \cup Holding
Thread == [of : Entity, to : ForwardTo, canceled : BOOLEAN, pc : ThreadStep,
           posts : Seq(Letter), joined : Seq(Entity)]
PostCall == [to : SUBSET Entity, over : BOOLEAN]
Canceled == {"cancel_thread", "erase"}

\* Types.
ServiceTypes ==
  /\ inbox \in [Entity -> Seq(Letter)]
  /\ subscribers \in Seq(Entity)
  /\ mutex \in Client \cup {NoClient}
  /\ threads \in [Entity -> {None} \cup ThreadId]
  /\ thread \in Seq(Thread)
  /\ up \in BOOLEAN
ClientTypes ==
  /\ pc \in [Client -> Step]
  /\ DOMAIN local = Client /\ DOMAIN done = Client
  /\ \A c \in Client : done[c] \in 0..MaxCalls[c]
  /\ faults \in 0..MaxFaults
HistoryTypes ==
  /\ posted \in Seq(PostCall)
  /\ sent \subseteq Name
  /\ received \in [Name -> Nat]
Types == ServiceTypes /\ ClientTypes /\ HistoryTypes

\* The calls of post are numbered within the bound.
NumberInv == Len(posted) + Pending("post") <= MaxPosts

\* A thread is in the chain of its user when it receives, and in none when it
\* forwards; it has posts only then, and a canceled one is at neither.
InOrder(t) ==
  /\ t.pc = "receive" => t.joined = <<t.of>>
  /\ t.pc = "forward" => t.joined = <<>>
  /\ t.joined \in {<<>>, <<t.of>>}
  /\ t.posts # <<>> => t.pc = "forward"
  /\ t.canceled => t.pc \notin Holding
ThreadInv == \A f \in ThreadId : InOrder(thread[f])

\* Who is between the two sections of cancelForward has a thread; unless two
\* overlapped it is the one of the entity, canceled before it is erased, and
\* any other thread of the entity is canceled.
CancelInv ==
  /\ \A c \in Client : pc[c] \in Canceled => local[c][1] \in ThreadId
  /\ up => \A c \in Client : pc[c] \in Canceled /\ entity[c] \notin raced =>
       /\ local[c][1] = threads[entity[c]]
       /\ pc[c] = "erase" => thread[local[c][1]].canceled
       /\ \A d \in Client : pc[d] \in Canceled /\ entity[d] = entity[c] => d = c
  /\ ThreadsCanBeCanceled

\* Nobody is subscribed twice.
Distinct(q) == \A i, j \in 1..Len(q) : q[i] = q[j] => i = j

\* The call of post that has the mutex has reached the subscribers before its
\* turn, and a call that has returned all of its own.
InTurn(c) ==
  /\ DOMAIN local[c] = 1..2
  /\ Number(c) \in 1..Len(posted)
  /\ Turn(c) \in 1..(Len(subscribers) + 1)
  /\ ~posted[Number(c)].over
  /\ posted[Number(c)].to = ToSet(subscribers)
  /\ \A e \in Entity :
       <<Number(c), e>> \in sent
         <=> \E i \in 1..(Turn(c) - 1) : subscribers[i] = e
PostInv ==
  /\ Distinct(subscribers)
  /\ \A c \in Client : pc[c] = "posting" <=> mutex = c
  /\ \A n \in Nat, e \in Entity : <<n, e>> \in sent => n \in 1..Len(posted)
  /\ \A c \in Client : pc[c] = "posting" => InTurn(c)
  /\ SubscribersReached

DistinctNames(posts) ==
  \A i, j \in 1..Len(posts) : posts[i].name = posts[j].name => i = j
BoxesDistinct == \A e \in Entity : DistinctNames(inbox[e])
HandsDistinct == up => \A f \in ThreadId : DistinctNames(thread[f].posts)

\* The inboxes that a post is in, and the threads that have it in their hands.
Box(n) == {e \in Entity : n \in Names(inbox[e])}
Hand(n) == {f \in ThreadId : up /\ n \in Names(thread[f].posts)}

\* A post that was sent is in one place, until it has been received or lost.
Once(n) ==
  /\ \A d, e \in Box(n) : d = e
  /\ \A f, g \in Hand(n) : f = g
  /\ Box(n) = {} \/ Hand(n) = {}
  /\ Box(n) # {} \/ Hand(n) # {} <=> n \in sent \ lost /\ received[n] = 0
  /\ received[n] \in {0, 1}
  /\ received[n] = 1 => n \in sent \ lost
KeptInv ==
  /\ BoxesDistinct /\ HandsDistinct
  /\ lost \subseteq sent
  /\ \A n \in Name : Once(n)

IInv == Types /\ NumberInv /\ ThreadInv /\ CancelInv /\ PostInv /\ KeptInv
-----------------------------------------------------------------------------
\* What append and tail do to the names of the posts of a sequence.
LEMMA NamesOf ==
  ASSUME NEW q \in Seq(Letter)
  PROVE  /\ Len(q) \in Nat /\ DOMAIN q = 1..Len(q)
         /\ \A i \in 1..Len(q) : q[i] \in Letter /\ q[i].name \in Name
         /\ \A n : n \in Names(q) <=> \E i \in 1..Len(q) : q[i].name = n
         /\ Names(q) \subseteq Name
  <1>1. Len(q) \in Nat /\ DOMAIN q = 1..Len(q)  BY LenProperties
  <1>2. \A i \in 1..Len(q) : q[i] \in Letter  BY ElementOfSeq
  <1>3. \A i \in 1..Len(q) : q[i].name \in Name  BY <1>2 DEF Letter
  <1> QED  BY <1>1, <1>2, <1>3 DEF Names

LEMMA NamesEmpty ==
  /\ <<>> \in Seq(Letter) /\ Names(<<>>) = {} /\ DistinctNames(<<>>)
  <1> DEFINE q == <<>>
  <1>1. q \in Seq(Letter) /\ Len(q) = 0  BY EmptySeq
  <1> HIDE DEF q
  <1>2. 1..Len(q) = {}  BY <1>1
  <1>3. \A n : n \notin Names(q)  BY <1>1, <1>2, NamesOf
  <1>4. DistinctNames(q)  BY <1>2 DEF DistinctNames
  <1> QED  BY <1>1, <1>3, <1>4 DEF q

LEMMA NamesAppend ==
  ASSUME NEW q \in Seq(Letter), NEW l \in Letter
  PROVE  /\ Append(q, l) \in Seq(Letter)
         /\ Names(Append(q, l)) = Names(q) \cup {l.name}
         /\ DistinctNames(q) /\ l.name \notin Names(q)
              => DistinctNames(Append(q, l))
  <1> DEFINE r == Append(q, l)
  <1>1. /\ r \in Seq(Letter) /\ Len(r) = Len(q) + 1
        /\ \A i \in 1..Len(q) : r[i] = q[i]
        /\ r[Len(q) + 1] = l
    BY AppendProperties
  <1> HIDE DEF r
  <1>2. Len(q) \in Nat  BY NamesOf
  <1>3. 1..Len(r) = 1..Len(q) \cup {Len(q) + 1}  BY <1>1, <1>2
  <1>4. \A n : n \in Names(r) <=> n \in Names(q) \/ n = l.name
    BY <1>1, <1>3, NamesOf
  <1>5. ASSUME DistinctNames(q), l.name \notin Names(q)
        PROVE  DistinctNames(r)
    <2>1. \A i \in 1..Len(q) : r[i].name # l.name  BY <1>1, <1>5, NamesOf
    <2> QED  BY <1>1, <1>3, <1>5, <2>1 DEF DistinctNames
  <1> QED  BY <1>1, <1>4, <1>5 DEF r

LEMMA NamesTail ==
  ASSUME NEW q \in Seq(Letter), q # <<>>, DistinctNames(q)
  PROVE  /\ Tail(q) \in Seq(Letter) /\ DistinctNames(Tail(q))
         /\ Names(Tail(q)) = Names(q) \ {Head(q).name}
         /\ Head(q).name \in Names(q) /\ Head(q).name \in Name
  <1> DEFINE r == Tail(q)
  <1>1. /\ r \in Seq(Letter) /\ Len(r) = Len(q) - 1
        /\ \A i \in 1..Len(r) : r[i] = q[i + 1]
    BY HeadTailProperties
  <1> HIDE DEF r
  <1>2. Len(q) \in Nat \ {0}  BY EmptySeq
  <1>3. Head(q) = q[1] /\ 1 \in 1..Len(q)  BY <1>2
  <1>4. ASSUME NEW i \in 1..Len(r)
        PROVE  i + 1 \in 1..Len(q) /\ i + 1 # 1 /\ r[i] = q[i + 1]
    BY <1>1, <1>2
  <1>5. ASSUME NEW j \in 1..Len(q), j # 1
        PROVE  j - 1 \in 1..Len(r) /\ q[j] = r[j - 1]
    BY <1>1, <1>2, <1>5
  <1>6. DistinctNames(r)
    <2> SUFFICES ASSUME NEW i \in 1..Len(r), NEW j \in 1..Len(r),
                        r[i].name = r[j].name
                 PROVE  i = j
      BY DEF DistinctNames
    <2>1. i + 1 = j + 1  BY <1>4 DEF DistinctNames
    <2> QED  BY <2>1
  <1>7. Names(r) \subseteq Names(q) \ {q[1].name}
    <2> SUFFICES ASSUME NEW i \in 1..Len(r)
                 PROVE  r[i].name \in Names(q) \ {q[1].name}
      BY <1>1, NamesOf
    <2> QED  BY <1>3, <1>4, NamesOf DEF DistinctNames
  <1>8. Names(q) \ {q[1].name} \subseteq Names(r)
    <2> SUFFICES ASSUME NEW j \in 1..Len(q), q[j].name # q[1].name
                 PROVE  q[j].name \in Names(r)
      BY NamesOf
    <2> QED  BY <1>1, <1>5, NamesOf
  <1>9. q[1].name \in Names(q)  BY <1>3, NamesOf
  <1> QED  BY <1>1, <1>3, <1>6, <1>7, <1>8, <1>9, NamesOf DEF r

LEMMA CopiesOne ==
  ASSUME NEW q \in Seq(Letter), DistinctNames(q), NEW n
  PROVE  Copies(q, n) = IF n \in Names(q) THEN 1 ELSE 0
  <1> DEFINE I == {i \in DOMAIN q : q[i].name = n}
  <1>1. CASE n \in Names(q)
    <2>1. PICK i \in 1..Len(q) : q[i].name = n  BY <1>1, NamesOf
    <2>2. I = {i}  BY <2>1, NamesOf DEF DistinctNames
    <2> HIDE DEF I
    <2>3. Cardinality(I) = 1  BY <2>2, FS_Singleton
    <2> QED  BY <1>1, <2>3 DEF Copies, I
  <1>2. CASE n \notin Names(q)
    <2>1. I = {}  BY <1>2, NamesOf
    <2> HIDE DEF I
    <2>2. Cardinality(I) = 0  BY <2>1, FS_EmptySet
    <2> QED  BY <1>2, <2>2 DEF Copies, I
  <1> QED  BY <1>1, <1>2

\* unsubscribe leaves the others as they were: in a sequence without
\* repetitions the first occurrence is the only one.
LEMMA RemoveAtValue ==
  ASSUME NEW S, NEW q \in Seq(S), NEW n \in 1..Len(q)
  PROVE  /\ RemoveAt(q, n) \in Seq(S)
         /\ Len(RemoveAt(q, n)) = Len(q) - 1
         /\ \A i \in 1..Len(q) - 1 :
              RemoveAt(q, n)[i] = IF i < n THEN q[i] ELSE q[i + 1]
  <1> DEFINE before == SubSeq(q, 1, n - 1)
             after == SubSeq(q, n + 1, Len(q))
  <1>1. Len(q) \in Nat /\ n \in Nat /\ 1 <= n /\ n <= Len(q)
    BY LenProperties
  <1>2. /\ before \in Seq(S) /\ Len(before) = n - 1
        /\ \A i \in 1..n - 1 : before[i] = q[i]
    BY <1>1, SubSeqProperties
  <1>3. /\ after \in Seq(S) /\ Len(after) = Len(q) - n
        /\ \A i \in 1..Len(q) - n : after[i] = q[n + i]
    BY <1>1, SubSeqProperties
  <1>4. RemoveAt(q, n) = before \o after  BY DEF RemoveAt
  <1> HIDE DEF before, after
  <1>5. /\ before \o after \in Seq(S)
        /\ Len(before \o after) = Len(before) + Len(after)
        /\ \A i \in 1..Len(before) + Len(after) : (before \o after)[i] =
             IF i <= Len(before) THEN before[i] ELSE after[i - Len(before)]
    BY <1>2, <1>3, ConcatProperties
  <1>6. Len(before) + Len(after) = Len(q) - 1  BY <1>1, <1>2, <1>3
  <1>7. ASSUME NEW i \in 1..Len(q) - 1
        PROVE  (before \o after)[i] = IF i < n THEN q[i] ELSE q[i + 1]
    <2>1. CASE i < n  BY <2>1, <1>1, <1>2, <1>5, <1>6
    <2>2. CASE ~(i < n)
      <3>1. i - (n - 1) \in 1..Len(q) - n /\ n + (i - (n - 1)) = i + 1
        BY <2>2, <1>1
      <3>2. (before \o after)[i] = after[i - (n - 1)]
        BY <2>2, <1>1, <1>2, <1>5, <1>6
      <3> QED  BY <3>1, <3>2, <2>2, <1>3
    <2> QED  BY <2>1, <2>2
  <1> QED  BY <1>4, <1>5, <1>6, <1>7

LEMMA RemoveFirstDistinct ==
  ASSUME NEW S, NEW q \in Seq(S), Distinct(q), NEW e
  PROVE  RemoveFirst(q, e) \in Seq(S) /\ Distinct(RemoveFirst(q, e))
  <1>1. CASE \A i \in 1..Len(q) : q[i] # e
    <2>1. RemoveFirst(q, e) = q  BY <1>1 DEF RemoveFirst
    <2> QED  BY <2>1
  <1>2. CASE \E n \in 1..Len(q) : q[n] = e
    <2>1. PICK n \in 1..Len(q) : q[n] = e  BY <1>2
    <2> DEFINE I == {i \in 1..Len(q) : q[i] = e}
               r == RemoveAt(q, n)
    <2>2. I = {n}  BY <2>1 DEF Distinct
    <2>3. Len(q) \in Nat /\ Min({n}) = n  BY LenProperties DEF Min
    <2>4. SelectInSeq(q, LAMBDA v : v = e) = n  BY <2>2, <2>3 DEF SelectInSeq
    <2>5. RemoveFirst(q, e) = r  BY <2>1, <2>4 DEF RemoveFirst
    <2>6. /\ r \in Seq(S) /\ Len(r) = Len(q) - 1
          /\ \A i \in 1..Len(q) - 1 : r[i] = IF i < n THEN q[i] ELSE q[i + 1]
      BY RemoveAtValue
    <2> HIDE DEF r, I
    <2> DEFINE at(i) == IF i < n THEN i ELSE i + 1
    <2>7. ASSUME NEW i \in 1..Len(r)
          PROVE  at(i) \in 1..Len(q) /\ r[i] = q[at(i)]
      BY <2>3, <2>6
    <2>8. ASSUME NEW i \in 1..Len(r), NEW j \in 1..Len(r), at(i) = at(j)
          PROVE  i = j
      BY <2>3, <2>6, <2>8
    <2> HIDE DEF at
    <2>9. Distinct(r)  BY <2>7, <2>8 DEF Distinct
    <2> QED  BY <2>5, <2>6, <2>9
  <1> QED  BY <1>1, <1>2
-----------------------------------------------------------------------------
LEMMA Assumed ==
  /\ \A c \in Client : entity[c] \in Entity /\ MaxCalls[c] \in Nat /\ c # NoClient
  /\ ForwardTo \subseteq Entity
  /\ MaxPosts \in Nat /\ MaxFaults \in Nat /\ None \notin Nat \ {0}
  BY DelegationAssumption DEF None

\* The threads of the forwarder, by their numbers.
LEMMA ThreadFacts ==
  ASSUME ServiceTypes
  PROVE  /\ Len(thread) \in Nat
         /\ \A f \in ThreadId :
              /\ thread[f] \in Thread
              /\ thread[f].of \in Entity /\ thread[f].to \in ForwardTo
              /\ thread[f].canceled \in BOOLEAN /\ thread[f].pc \in ThreadStep
              /\ thread[f].posts \in Seq(Letter)
              /\ f \in Nat /\ f # None
  <1>1. Len(thread) \in Nat  BY LenProperties DEF ServiceTypes
  <1>2. \A f \in ThreadId : thread[f] \in Thread
    BY ElementOfSeq DEF ServiceTypes, ThreadId
  <1> QED  BY <1>1, <1>2 DEF Thread, ThreadId, None

LEMMA ThreadSet ==
  ASSUME ServiceTypes, NEW f \in ThreadId, NEW t \in Thread,
         thread' = [thread EXCEPT ![f] = t]
  PROVE  /\ thread' \in Seq(Thread) /\ ThreadId' = ThreadId
         /\ thread'[f] = t
         /\ \A g \in ThreadId \ {f} : thread'[g] = thread[g]
  <1>1. thread \in Seq(Thread) /\ f \in 1..Len(thread)
    BY DEF ServiceTypes, ThreadId
  <1>2. /\ thread' \in Seq(Thread) /\ Len(thread') = Len(thread)
        /\ \A j \in 1..Len(thread) : thread'[j] = IF j = f THEN t ELSE thread[j]
    BY <1>1, ExceptSeq
  <1> QED  BY <1>1, <1>2 DEF ThreadId

LEMMA ThreadSame ==
  ASSUME ServiceTypes, NEW f \in ThreadId, NEW t, t = thread[f], UNCHANGED thread
  PROVE  thread' = [thread EXCEPT ![f] = t]
  <1>1. thread \in Seq(Thread) /\ DOMAIN thread = 1..Len(thread)
    BY LenProperties DEF ServiceTypes
  <1>2. thread \in [1..Len(thread) -> Thread]  BY LenProperties DEF ServiceTypes
  <1> QED  BY <1>2 DEF ThreadId

\* Whose inbox a thread asks for, and the chain its posts come in.
LEMMA ChainOfThread ==
  ASSUME ServiceTypes, ThreadInv, NEW f \in ThreadId
  PROVE  /\ thread[f].pc = "receive" => Owner(ChainOf(f)) = thread[f].of
         /\ thread[f].pc = "forward" => ChainOf(f) \in Chain
  <1>1. CASE thread[f].pc = "receive"
    <2>1. thread[f].joined = <<thread[f].of>> /\ thread[f].of \in Entity
      BY <1>1, ThreadFacts DEF ThreadInv, InOrder
    <2> DEFINE of == thread[f].of
    <2>2. <<of>> \in Seq(Entity) /\ <<of>> # <<>> /\ Head(<<of>>) = of
      BY <2>1
    <2>3. Head(Append(<<of>>, forwarder)) = of
      BY <2>2, HeadTailAppend
    <2> QED  BY <1>1, <2>1, <2>3 DEF Owner, ChainOf
  <1>2. CASE thread[f].pc = "forward"
    <2>1. thread[f].joined = <<>>  BY <1>2 DEF ThreadInv, InOrder
    <2>2. Append(<<>>, forwarder) = <<forwarder>>  OBVIOUS
    <2> QED  BY <1>2, <2>1, <2>2 DEF ChainOf, Chain
  <1> QED  BY <1>1, <1>2

\* A step of a thread: it stays whose it is and canceled or not, and in order.
Steps(f, t) ==
  /\ t \in Thread /\ thread' = [thread EXCEPT ![f] = t]
  /\ t.of = thread[f].of /\ t.canceled = thread[f].canceled
  /\ InOrder(t) /\ thread[f].pc # "ended"

LEMMA RunSteps ==
  ASSUME ServiceTypes, ThreadInv,
         NEW f \in ThreadId, Run(f) \/ ReceiveFails(f) \/ ForwardFails(f)
  PROVE  \E t : Steps(f, t)
  <1> DEFINE old == thread[f]
  <1>0. /\ old \in Thread /\ InOrder(old) /\ old.of \in Entity
        /\ DOMAIN thread = 1..Len(thread) /\ f \in DOMAIN thread
    BY ThreadFacts, LenProperties DEF ThreadInv, ServiceTypes, ThreadId
  <1>1. CASE Start(f)
    <2> DEFINE t == [old EXCEPT !.pc = IF old.canceled THEN "ended" ELSE "wait"]
    <2>1. thread' = [thread EXCEPT ![f] = t] /\ old.pc = "start"
      BY <1>1 DEF Start, Running
    <2>2. t \in Thread /\ InOrder(t) /\ t.of = old.of /\ t.canceled = old.canceled
      BY <1>0, <2>1 DEF Thread, ThreadStep, Holding, InOrder
    <2> QED  BY <2>1, <2>2 DEF Steps
  <1>2. CASE Wake(f)
    <2> DEFINE t == IF old.canceled THEN [old EXCEPT !.pc = "ended"]
                    ELSE [old EXCEPT !.pc = "receive", !.joined = <<old.of>>]
    <2>1. thread' = [thread EXCEPT ![f] = t] /\ old.pc = "wait"
      BY <1>2 DEF Wake, Running, JoinChain
    <2>2. <<old.of>> \in Seq(Entity)  BY <1>0
    <2>3. t \in Thread /\ InOrder(t) /\ t.of = old.of /\ t.canceled = old.canceled
      BY <1>0, <2>1, <2>2 DEF Thread, ThreadStep, Holding, InOrder
    <2> QED  BY <2>1, <2>3 DEF Steps
  <1>3. CASE Receive(f)
    <2> DEFINE posts == inbox[Owner(ChainOf(f))]
               t == [old EXCEPT !.pc = "forward", !.posts = posts, !.joined = <<>>]
    <2>1. thread' = [thread EXCEPT ![f] = t] /\ old.pc = "receive"
      BY <1>3 DEF Receive, Running, ExitChain
    <2>2. posts \in Seq(Letter)
      BY <1>0, <2>1, ChainOfThread DEF ServiceTypes
    <2> HIDE DEF posts
    <2>3. <<>> \in Seq(Entity)  BY EmptySeq
    <2>4. t \in Thread /\ InOrder(t) /\ t.of = old.of /\ t.canceled = old.canceled
      BY <1>0, <2>1, <2>2, <2>3 DEF Thread, ThreadStep, Holding, InOrder
    <2> QED  BY <2>1, <2>4 DEF Steps
  <1>4. ASSUME Running(f, "forward"), thread' = [thread EXCEPT ![f].pc = "wait"],
               old.posts = <<>>
        PROVE  \E t : Steps(f, t)
    <2> DEFINE t == [old EXCEPT !.pc = "wait"]
    <2>1. thread' = [thread EXCEPT ![f] = t] /\ old.pc = "forward"
      BY <1>4 DEF Running
    <2>2. t \in Thread /\ InOrder(t) /\ t.of = old.of /\ t.canceled = old.canceled
      BY <1>0, <1>4, <2>1 DEF Thread, ThreadStep, Holding, InOrder
    <2> QED  BY <2>1, <2>2 DEF Steps
  <1>5. ASSUME Running(f, "forward"), old.posts # <<>>,
               thread' = [thread EXCEPT ![f].posts = Tail(@)]
        PROVE  \E t : Steps(f, t)
    <2> DEFINE t == [old EXCEPT !.posts = Tail(old.posts)]
    <2>1. thread' = [thread EXCEPT ![f] = t] /\ old.pc = "forward"
      BY <1>5 DEF Running
    <2>2. Tail(old.posts) \in Seq(Letter)
      BY <1>0, <1>5, HeadTailProperties DEF Thread
    <2>3. t \in Thread /\ InOrder(t) /\ t.of = old.of /\ t.canceled = old.canceled
      BY <1>0, <2>1, <2>2 DEF Thread, ThreadStep, Holding, InOrder
    <2> QED  BY <2>1, <2>3 DEF Steps
  <1>6. ASSUME UNCHANGED thread, old.pc # "ended"
        PROVE  \E t : Steps(f, t)
    <2>1. thread' = [thread EXCEPT ![f] = old]  BY <1>6, ThreadSame
    <2> QED  BY <1>0, <1>6, <2>1 DEF Steps
  <1>7. CASE ReceiveFails(f)  BY <1>6, <1>7 DEF ReceiveFails, Running
  <1>8. CASE Forward(f)  BY <1>4, <1>5, <1>8 DEF Forward
  <1>9. CASE ForwardFails(f)  BY <1>5, <1>6, <1>9 DEF ForwardFails, Running
  <1> QED  BY <1>1, <1>2, <1>3, <1>7, <1>8, <1>9 DEF Run
-----------------------------------------------------------------------------
\* The messenger.
LEMMA PostTypes ==
  ASSUME ServiceTypes, NEW to \in Entity, NEW name \in Name,
         NEW chain \in Chain, Post(to, name, chain)
  PROVE  inbox' \in [Entity -> Seq(Letter)]
  <1> DEFINE l == [name |-> name, from |-> chain]
             q == Append(inbox[to], l)
  <1>1. l \in Letter  BY DEF Letter
  <1>2. inbox[to] \in Seq(Letter)  BY DEF ServiceTypes
  <1>3. inbox' = [inbox EXCEPT ![to] = q]  BY DEF Post
  <1> HIDE DEF l
  <1>4. q \in Seq(Letter)  BY <1>1, <1>2, AppendProperties
  <1> HIDE DEF q
  <1> QED  BY <1>3, <1>4 DEF ServiceTypes

LEMMA EmptiedTypes ==
  ASSUME ServiceTypes, NEW e, Emptied(e)
  PROVE  inbox' \in [Entity -> Seq(Letter)]
  <1>1. <<>> \in Seq(Letter)  BY EmptySeq
  <1> QED  BY <1>1 DEF ServiceTypes, Emptied

\* What a call of post sends: a new name, in the chain of its caller.
LEMMA BroadcastFacts ==
  ASSUME Types, NumberInv, PostInv, NEW c \in Client,
         At(c, "posting"), Turn(c) <= Len(subscribers)
  PROVE  LET to == subscribers[Turn(c)] IN
         /\ to \in Entity /\ <<Number(c), to>> \in Name \ sent
         /\ <<entity[c], broadcaster>> \in Chain
         /\ Number(c) \in 1..Len(posted) /\ Turn(c) \in 1..Len(subscribers)
         /\ Len(posted) \in Nat /\ Len(subscribers) \in Nat
         /\ Len(posted) <= MaxPosts
  <1>1. Len(subscribers) \in Nat /\ Len(posted) \in Nat
    BY LenProperties DEF Types, ServiceTypes, HistoryTypes
  <1>2. /\ Number(c) \in 1..Len(posted) /\ Turn(c) \in 1..(Len(subscribers) + 1)
        /\ \A e \in Entity :
             <<Number(c), e>> \in sent
               <=> \E i \in 1..(Turn(c) - 1) : subscribers[i] = e
    BY DEF At, PostInv, InTurn
  <1>3. Turn(c) \in 1..Len(subscribers)  BY <1>1, <1>2
  <1>4. subscribers[Turn(c)] \in Entity
    BY <1>3, ElementOfSeq DEF Types, ServiceTypes
  <1>5. ASSUME NEW i \in 1..(Turn(c) - 1)
        PROVE  subscribers[i] # subscribers[Turn(c)]
    <2>1. i \in 1..Len(subscribers) /\ i # Turn(c)  BY <1>1, <1>3
    <2> QED  BY <1>3, <2>1 DEF PostInv, Distinct
  <1>6. <<Number(c), subscribers[Turn(c)]>> \notin sent  BY <1>2, <1>4, <1>5
  <1>7. Pending("post") \in Nat
    <2>1. IsFiniteSet({d \in Client : pc[d] = "post"})
      BY FS_Subset, DelegationAssumption
    <2> QED  BY <2>1, FS_CardinalityType DEF Pending
  <1>8. Len(posted) <= MaxPosts  BY <1>1, <1>7, Assumed DEF NumberInv
  <1>9. Number(c) \in 1..MaxPosts  BY <1>1, <1>2, <1>8, Assumed
  <1> QED  BY <1>1, <1>2, <1>3, <1>4, <1>6, <1>8, <1>9, Assumed DEF Name, Chain

LEMMA ServiceNext ==
  ASSUME Types, NumberInv, ThreadInv, PostInv, [Next]_vars
  PROVE  ServiceTypes'
  <1>0. ServiceTypes /\ ClientTypes  BY DEF Types
  <1>1. ASSUME inbox' \in [Entity -> Seq(Letter)],
               subscribers' \in Seq(Entity), mutex' \in Client \cup {NoClient},
               UNCHANGED <<threads, thread>>, up' \in BOOLEAN
        PROVE  ServiceTypes'
    BY <1>0, <1>1 DEF ServiceTypes, ThreadId
  <1>2. UNCHANGED <<inbox, subscribers, mutex, threads, thread, up>>
          => ServiceTypes'
    BY <1>0 DEF ServiceTypes, ThreadId
  <1>3. ASSUME NEW c \in Client,
               Call(c) \/ BeginCancel(c) \/ ForwarderGone(c)
        PROVE  ServiceTypes'
    BY <1>2, <1>3 DEF Call, BeginCancel, ForwarderGone, forwarderVars
  <1>4. ASSUME NEW c \in Client, receivePosts(c)
        PROVE  ServiceTypes'
    BY <1>0, <1>1, <1>4, EmptiedTypes
       DEF receivePosts, ServiceTypes, forwarderVars
  <1>5. ASSUME NEW c \in Client, BeginPost(c) \/ EndPost(c)
        PROVE  ServiceTypes'
    BY <1>0, <1>1, <1>5
       DEF BeginPost, LockForPost, EndPost, ServiceTypes, forwarderVars
  <1>6. ASSUME NEW c \in Client, At(c, "posting"), Turn(c) <= Len(subscribers),
               Broadcast(c)
        PROVE  inbox' \in [Entity -> Seq(Letter)]
    BY <1>0, <1>6, BroadcastFacts, PostTypes DEF Broadcast
  <1>7. ASSUME NEW c \in Client, PostToNext(c)
        PROVE  ServiceTypes'
    BY <1>0, <1>1, <1>6, <1>7 DEF PostToNext, ServiceTypes, forwarderVars
  <1>8. ASSUME NEW c \in Client, PostFails(c)
        PROVE  ServiceTypes'
    <2>1. inbox' \in [Entity -> Seq(Letter)]
      BY <1>0, <1>6, <1>8 DEF PostFails, ServiceTypes
    <2> QED
      BY <1>0, <1>1, <1>8, <2>1 DEF PostFails, Unlock, ServiceTypes, forwarderVars
  <1>9. ASSUME NEW c \in Client, subscribe(c)
        PROVE  ServiceTypes'
    <2>1. Append(subscribers, entity[c]) \in Seq(Entity)
      BY <1>0, Assumed, AppendProperties DEF ServiceTypes
    <2> QED
      BY <1>0, <1>1, <1>9, <2>1 DEF subscribe, ServiceTypes, forwarderVars
  <1>10. ASSUME NEW c \in Client, unsubscribe(c)
         PROVE  ServiceTypes'
    <2>1. RemoveFirst(subscribers, entity[c]) \in Seq(Entity)
      BY <1>0, RemoveFirstDistinct DEF ServiceTypes, PostInv
    <2> QED
      BY <1>0, <1>1, <1>10, <2>1 DEF unsubscribe, ServiceTypes, forwarderVars
  <1>11. ASSUME NEW c \in Client, setForward(c)
         PROVE  ServiceTypes'
    <2>1. UNCHANGED <<inbox, subscribers, mutex, up>>
      BY <1>11 DEF setForward
    <2>2. CASE StartsThread(c)
      <3>1. PICK to \in ForwardTo : thread' = Append(thread, NewThread(c, to))
        BY <1>11, <2>2 DEF setForward
      <3>2. NewThread(c, to) \in Thread
        BY <3>1, Assumed, EmptySeq DEF NewThread, Thread, ThreadStep
      <3>3. thread' \in Seq(Thread) /\ Len(thread') = Len(thread) + 1
        BY <1>0, <3>1, <3>2, AppendProperties DEF ServiceTypes
      <3>4. threads' = [threads EXCEPT ![entity[c]] = Len(thread) + 1]
        BY <1>11, <2>2 DEF setForward
      <3>5. threads' \in [Entity -> {None} \cup ThreadId']
        <4>1. ThreadId \subseteq ThreadId' /\ Len(thread) + 1 \in ThreadId'
          BY <1>0, <3>3, ThreadFacts DEF ThreadId
        <4>2. threads \in [Entity -> {None} \cup ThreadId]
          BY <1>0 DEF ServiceTypes
        <4> QED  BY <3>4, <4>1, <4>2
      <3> QED  BY <1>0, <2>1, <3>3, <3>5 DEF ServiceTypes
    <2>3. CASE ~StartsThread(c)  BY <1>2, <1>11, <2>1, <2>3 DEF setForward
    <2> QED  BY <2>2, <2>3
  <1>12. ASSUME thread' \in Seq(Thread), ThreadId' = ThreadId,
                threads' \in [Entity -> {None} \cup ThreadId],
                inbox' \in [Entity -> Seq(Letter)], up' \in BOOLEAN,
                UNCHANGED <<subscribers, mutex>>
         PROVE  ServiceTypes'
    BY <1>0, <1>12 DEF ServiceTypes
  <1>13. ASSUME NEW c \in Client, CancelThread(c), local[c][1] \in ThreadId
         PROVE  ServiceTypes'
    <2> DEFINE f == local[c][1]
               t == [thread[f] EXCEPT !.canceled = TRUE]
    <2>1. thread' = [thread EXCEPT ![f] = t]
      BY <1>0, <1>13 DEF CancelThread
    <2>2. t \in Thread  BY <1>0, <1>13, ThreadFacts DEF Thread
    <2>3. thread' \in Seq(Thread) /\ ThreadId' = ThreadId
      BY <1>0, <1>13, <2>1, <2>2, ThreadSet
    <2> QED  BY <1>0, <1>12, <1>13, <2>3 DEF CancelThread, ServiceTypes
  <1>14. ASSUME NEW c \in Client, CancelThread(c), local[c][1] \notin ThreadId
         PROVE  ServiceTypes'
    <2>1. thread' = thread
      BY <1>0, <1>14, LenProperties DEF CancelThread, ThreadId, ServiceTypes
    <2> QED  BY <1>0, <1>2, <1>14, <2>1 DEF CancelThread
  <1>15. ASSUME NEW c \in Client, EraseThread(c)
         PROVE  ServiceTypes'
    BY <1>0, <1>12, <1>15 DEF EraseThread, ServiceTypes, ThreadId
  <1>16. ASSUME NEW f \in ThreadId, Run(f) \/ ReceiveFails(f) \/ ForwardFails(f)
         PROVE  ServiceTypes'
    <2>1. PICK t : Steps(f, t)  BY <1>0, <1>16, RunSteps
    <2>2. thread' \in Seq(Thread) /\ ThreadId' = ThreadId
      BY <1>0, <2>1, ThreadSet DEF Steps
    <2>3. UNCHANGED <<subscribers, mutex, threads>> /\ (up' = up \/ up' = FALSE)
      BY <1>16 DEF Run, Start, Wake, Receive, Forward, ReceiveFails, ForwardFails,
                   Exit
    <2>4. ASSUME thread[f].pc = "forward", thread[f].posts # <<>>,
                 Post(thread[f].to, Head(thread[f].posts).name, ChainOf(f))
          PROVE  inbox' \in [Entity -> Seq(Letter)]
      <3>1. Head(thread[f].posts) \in Letter
        BY <1>0, <2>4, ThreadFacts, HeadTailProperties
      <3>2. Head(thread[f].posts).name \in Name  BY <3>1 DEF Letter
      <3>3. ChainOf(f) \in Chain /\ thread[f].to \in Entity
        BY <1>0, <2>4, ChainOfThread, ThreadFacts, Assumed
      <3> QED  BY <1>0, <2>4, <3>2, <3>3, PostTypes
    <2>5. inbox' \in [Entity -> Seq(Letter)]
      <3>1. CASE UNCHANGED inbox  BY <1>0, <3>1 DEF ServiceTypes
      <3>2. CASE Start(f) \/ Wake(f)  BY <3>1, <3>2 DEF Start, Wake
      <3>3. CASE Receive(f)  BY <1>0, <3>3, EmptiedTypes DEF Receive
      <3>4. CASE ReceiveFails(f)
        BY <1>0, <3>1, <3>4, EmptiedTypes DEF ReceiveFails
      <3>5. CASE Forward(f)  BY <2>4, <3>1, <3>5 DEF Forward, Running
      <3>6. CASE ForwardFails(f)  BY <2>4, <3>1, <3>6 DEF ForwardFails, Running
      <3> QED  BY <1>16, <3>2, <3>3, <3>4, <3>5, <3>6 DEF Run
    <2> QED  BY <1>0, <1>12, <2>2, <2>3, <2>5 DEF ServiceTypes
  <1>17. CASE UNCHANGED vars  BY <1>2, <1>17 DEF vars, forwarderVars
  <1> QED
    BY <1>3, <1>4, <1>5, <1>7, <1>8, <1>9, <1>10, <1>11, <1>13, <1>14, <1>15,
       <1>16, <1>17
       DEF Next, Dispatch
-----------------------------------------------------------------------------
\* The clients.  A step of a client takes it to another step, or leaves it.
Moves(c, step) ==
  /\ Goto(c, step) /\ step \in Step
  /\ DOMAIN local' = DOMAIN local

LEMMA ReturnMoves ==
  ASSUME NEW c, Return(c)
  PROVE  Moves(c, "idle")
  BY DEF Return, Moves, Step

LEMMA MovesTypes ==
  ASSUME ClientTypes, NEW c \in Client, NEW step, Moves(c, step)
  PROVE  /\ pc' \in [Client -> Step] /\ DOMAIN local' = Client
         /\ pc'[c] = step /\ \A d \in Client \ {c} : pc'[d] = pc[d]
  BY DEF ClientTypes, Moves, Goto

LEMMA FaultTypes ==
  ASSUME ClientTypes, Fault
  PROVE  faults' \in 0..MaxFaults
  BY Assumed DEF ClientTypes, Fault

\* The steps of the clients; where each comes from and goes to.
ClientMoves ==
  \/ UNCHANGED <<pc, local>>
  \/ \E c \in Client : Call(c) /\ \E step \in Operation :
       /\ Moves(c, step) /\ step \in operations[c] /\ pc[c] = "idle"
       /\ step = "post" => Len(posted) + Pending("post") < MaxPosts
       /\ UNCHANGED local
  \/ \E c \in Client : BeginPost(c) /\ Moves(c, "posting") /\ pc[c] = "post"
  \/ \E c \in Client : PostToNext(c) /\ Moves(c, "posting") /\ pc[c] = "posting"
  \/ \E c \in Client :
       /\ EndPost(c) \/ PostFails(c)
       /\ Return(c) /\ pc[c] = "posting"
  \/ \E c \in Client :
       /\ \/ receivePosts(c) \/ subscribe(c) \/ unsubscribe(c) \/ setForward(c)
          \/ BeginCancel(c) \/ EraseThread(c) \/ ForwarderGone(c)
       /\ Return(c) /\ pc[c] \notin {"idle", "post", "posting"}
  \/ \E c \in Client :
       BeginCancel(c) /\ Moves(c, "cancel_thread") /\ pc[c] = "cancel"
         /\ local' = [local EXCEPT ![c] = <<threads[entity[c]]>>]
         /\ threads[entity[c]] # None
  \/ \E c \in Client :
       CancelThread(c) /\ Moves(c, "erase") /\ pc[c] = "cancel_thread"
         /\ UNCHANGED local

LEMMA ClientCases ==
  ASSUME ClientTypes, [Next]_vars
  PROVE  ClientMoves
  <1>0. pc \in [Client -> Step] /\ DOMAIN local = Client  BY DEF ClientTypes
  <1>1. ASSUME NEW c \in Client, Call(c)
        PROVE  ClientMoves
    <2>1. PICK step \in operations[c] :
            /\ step = "post" => Len(posted) + Pending("post") < MaxPosts
            /\ Goto(c, step)
      BY <1>1 DEF Call
    <2>2. step \in Operation  BY <1>1, DelegationAssumption
    <2>3. Moves(c, step) /\ pc[c] = "idle" /\ UNCHANGED local
      BY <1>1, <2>1, <2>2 DEF Moves, Call, At, Step
    <2> QED  BY <1>1, <2>1, <2>2, <2>3 DEF ClientMoves
  <1>2. ASSUME NEW c \in Client, BeginPost(c)
        PROVE  ClientMoves
    <2>1. Moves(c, "posting") /\ pc[c] = "post"
      BY <1>2 DEF BeginPost, Moves, Step, At
    <2> QED  BY <1>2, <2>1 DEF ClientMoves
  <1>3. ASSUME NEW c \in Client, PostToNext(c)
        PROVE  ClientMoves
    <2>1. Moves(c, "posting") /\ pc[c] = "posting"
      BY <1>0, <1>3 DEF PostToNext, Moves, Step, At, Goto
    <2> QED  BY <1>3, <2>1 DEF ClientMoves
  <1>4. ASSUME NEW c \in Client, EndPost(c) \/ PostFails(c)
        PROVE  ClientMoves
    <2>1. Return(c) /\ pc[c] = "posting"  BY <1>4 DEF EndPost, PostFails, At
    <2> QED  BY <1>4, <2>1 DEF ClientMoves
  <1>5. ASSUME NEW c \in Client,
               \/ receivePosts(c) \/ subscribe(c) \/ unsubscribe(c)
               \/ setForward(c) \/ EraseThread(c) \/ ForwarderGone(c)
        PROVE  ClientMoves
    <2>1. Return(c) /\ pc[c] \notin {"idle", "post", "posting"}
      BY <1>5 DEF receivePosts, subscribe, unsubscribe, setForward, EraseThread,
                  ForwarderGone, At
    <2> QED  BY <1>5, <2>1 DEF ClientMoves
  <1>6. ASSUME NEW c \in Client, BeginCancel(c)
        PROVE  ClientMoves
    <2>1. pc[c] = "cancel"  BY <1>6 DEF BeginCancel, At
    <2>2. CASE Return(c)  BY <1>6, <2>1, <2>2 DEF ClientMoves
    <2>3. CASE /\ local' = [local EXCEPT ![c] = <<threads[entity[c]]>>]
               /\ Goto(c, "cancel_thread") /\ threads[entity[c]] # None
      <3>1. Moves(c, "cancel_thread")  BY <2>3 DEF Moves, Step
      <3> QED  BY <1>6, <2>1, <2>3, <3>1 DEF ClientMoves
    <2> QED  BY <1>6, <2>2, <2>3 DEF BeginCancel
  <1>7. ASSUME NEW c \in Client, CancelThread(c)
        PROVE  ClientMoves
    <2>1. Moves(c, "erase") /\ pc[c] = "cancel_thread" /\ UNCHANGED local
      BY <1>7 DEF CancelThread, Moves, Step, At
    <2> QED  BY <1>7, <2>1 DEF ClientMoves
  <1>8. ASSUME NEW f \in ThreadId, Run(f) \/ ReceiveFails(f) \/ ForwardFails(f)
        PROVE  ClientMoves
    BY <1>8 DEF Run, Start, Wake, Receive, Forward, ReceiveFails, ForwardFails,
                clientVars, ClientMoves
  <1>9. CASE UNCHANGED vars  BY <1>9 DEF vars, clientVars, ClientMoves
  <1> QED
    BY <1>1, <1>2, <1>3, <1>4, <1>5, <1>6, <1>7, <1>8, <1>9 DEF Next, Dispatch

LEMMA ClientNext ==
  ASSUME ClientTypes, [Next]_vars
  PROVE  ClientTypes'
  <1>1. pc' \in [Client -> Step] /\ DOMAIN local' = Client
    <2>1. CASE UNCHANGED <<pc, local>>  BY <2>1 DEF ClientTypes
    <2>2. CASE \E c \in Client : \E step : Moves(c, step)  BY <2>2, MovesTypes
    <2> QED  BY <2>1, <2>2, ClientCases, ReturnMoves DEF ClientMoves
  <1>2. faults' \in 0..MaxFaults
    <2>1. CASE UNCHANGED faults  BY <2>1 DEF ClientTypes
    <2>2. UNCHANGED faults \/ Fault
      BY DEF Next, Dispatch, Call, receivePosts, BeginPost, PostToNext, EndPost,
             PostFails, subscribe, unsubscribe, setForward, BeginCancel,
             CancelThread, EraseThread, ForwarderGone, Run, Start, Wake, Receive,
             Forward, ReceiveFails, ForwardFails, vars
    <2> QED  BY <2>1, <2>2, FaultTypes
  <1>3. DOMAIN done' = Client /\ \A c \in Client : done'[c] \in 0..MaxCalls[c]
    <2>1. CASE UNCHANGED done  BY <2>1 DEF ClientTypes
    <2>2. ASSUME NEW c \in Client, Call(c)
          PROVE  /\ DOMAIN done' = Client
                 /\ \A d \in Client : done'[d] \in 0..MaxCalls[d]
      BY <2>2, Assumed DEF Call, ClientTypes
    <2>3. UNCHANGED done \/ \E c \in Client : Call(c)
      BY DEF Next, Dispatch, receivePosts, BeginPost, PostToNext, EndPost,
             PostFails, subscribe, unsubscribe, setForward, BeginCancel,
             CancelThread, EraseThread, ForwarderGone, Run, Start, Wake, Receive,
             Forward, ReceiveFails, ForwardFails, vars, clientVars
    <2> QED  BY <2>1, <2>2, <2>3
  <1> QED  BY <1>1, <1>2, <1>3 DEF ClientTypes
-----------------------------------------------------------------------------
\* The calls of post are counted.
LEMMA PendingGoto ==
  ASSUME ClientTypes, NEW c \in Client, NEW step, Goto(c, step), NEW operation
  PROVE  /\ Pending(operation) \in Nat
         /\ Pending(operation)' =
              Pending(operation)
                + (IF step = operation /\ pc[c] # operation THEN 1 ELSE 0)
                - (IF step # operation /\ pc[c] = operation THEN 1 ELSE 0)
  <1> DEFINE S == {d \in Client : pc[d] = operation}
             T == {d \in Client : pc'[d] = operation}
  <1>1. /\ pc'[c] = step /\ \A d \in Client \ {c} : pc'[d] = pc[d]
    BY DEF ClientTypes, Goto
  <1>2. IsFiniteSet(S)  BY FS_Subset, DelegationAssumption
  <1>3. /\ c \in S <=> pc[c] = operation
        /\ step = operation => T = S \cup {c}
        /\ step # operation => T = S \ {c}
    BY <1>1
  <1>4. Pending(operation) = Cardinality(S) /\ Pending(operation)' = Cardinality(T)
    BY DEF Pending
  <1> HIDE DEF S, T
  <1>5. Cardinality(S) \in Nat  BY <1>2, FS_CardinalityType
  <1>6. CASE step = operation
    <2>1. Cardinality(S \cup {c}) =
            IF c \in S THEN Cardinality(S) ELSE Cardinality(S) + 1
      BY <1>2, FS_AddElement
    <2>2. Cardinality(T) =
            IF pc[c] = operation THEN Cardinality(S) ELSE Cardinality(S) + 1
      BY <1>3, <1>6, <2>1
    <2> QED  BY <1>4, <1>5, <1>6, <2>2
  <1>7. CASE step # operation
    <2>1. Cardinality(S \ {c}) =
            IF c \in S THEN Cardinality(S) - 1 ELSE Cardinality(S)
      BY <1>2, FS_RemoveElement
    <2> QED  BY <1>3, <1>4, <1>5, <1>7, <2>1
  <1> QED  BY <1>6, <1>7

\* What happens to the history of post.
LEMMA PostedCases ==
  ASSUME [Next]_vars
  PROVE  \/ UNCHANGED posted
         \/ \E c \in Client : BeginPost(c) \/ EndPost(c)
  BY DEF Next, Dispatch, Call, receivePosts, PostToNext,
         PostFails, subscribe, unsubscribe, setForward, BeginCancel,
         CancelThread, EraseThread, ForwarderGone, Run, Start, Wake, Receive,
         Forward, ReceiveFails, ForwardFails, vars, historyVars

LEMMA PostedTypes ==
  ASSUME Types, PostInv, [Next]_vars
  PROVE  /\ posted' \in Seq(PostCall)
         /\ Len(posted') \in Nat /\ Len(posted) \in Nat
         /\ UNCHANGED posted \/ \E c \in Client : BeginPost(c) \/ EndPost(c)
         /\ \A c \in Client : BeginPost(c) =>
              /\ Len(posted') = Len(posted) + 1
              /\ posted'[Len(posted) + 1] =
                   [to |-> ToSet(subscribers), over |-> FALSE]
              /\ \A n \in 1..Len(posted) : posted'[n] = posted[n]
         /\ \A c \in Client : EndPost(c) =>
              /\ Len(posted') = Len(posted)
              /\ posted'[Number(c)] = [posted[Number(c)] EXCEPT !.over = TRUE]
              /\ \A n \in 1..Len(posted) \ {Number(c)} : posted'[n] = posted[n]
  <1>0. /\ posted \in Seq(PostCall) /\ Len(posted) \in Nat
        /\ DOMAIN posted = 1..Len(posted)
    BY LenProperties DEF Types, HistoryTypes
  <1>1. ASSUME NEW c \in Client, BeginPost(c)
        PROVE  /\ posted' \in Seq(PostCall) /\ Len(posted') = Len(posted) + 1
               /\ posted'[Len(posted) + 1] =
                    [to |-> ToSet(subscribers), over |-> FALSE]
               /\ \A n \in 1..Len(posted) : posted'[n] = posted[n]
    <2> DEFINE p == [to |-> ToSet(subscribers), over |-> FALSE]
    <2>1. ToSet(subscribers) \subseteq Entity
      <3>1. subscribers \in Seq(Entity) /\ DOMAIN subscribers = 1..Len(subscribers)
        BY LenProperties DEF Types, ServiceTypes
      <3>2. \A i \in 1..Len(subscribers) : subscribers[i] \in Entity
        BY <3>1, ElementOfSeq
      <3> QED  BY <3>1, <3>2 DEF ToSet
    <2>2. p \in PostCall  BY <2>1 DEF PostCall
    <2>3. posted' = Append(posted, p)  BY <1>1 DEF BeginPost
    <2> HIDE DEF p
    <2>4. /\ posted' \in Seq(PostCall) /\ Len(posted') = Len(posted) + 1
          /\ posted'[Len(posted) + 1] = p
          /\ \A n \in 1..Len(posted) : posted'[n] = posted[n]
      BY <1>0, <2>2, <2>3, AppendProperties
    <2> QED  BY <2>4 DEF p
  <1>2. ASSUME NEW c \in Client, EndPost(c)
        PROVE  /\ posted' \in Seq(PostCall) /\ Len(posted') = Len(posted)
               /\ posted'[Number(c)] = [posted[Number(c)] EXCEPT !.over = TRUE]
               /\ \A n \in 1..Len(posted) \ {Number(c)} : posted'[n] = posted[n]
    <2> DEFINE n == Number(c)
               p == [posted[n] EXCEPT !.over = TRUE]
    <2>1. n \in 1..Len(posted)  BY <1>2 DEF EndPost, At, PostInv, InTurn
    <2>2. posted' = [posted EXCEPT ![n] = p]  BY <1>0, <1>2, <2>1 DEF EndPost
    <2>3. posted[n] \in PostCall  BY <1>0, <2>1, ElementOfSeq
    <2>4. p \in PostCall  BY <2>3 DEF PostCall
    <2> HIDE DEF p
    <2>5. /\ posted' \in Seq(PostCall) /\ Len(posted') = Len(posted)
          /\ \A j \in 1..Len(posted) : posted'[j] = IF j = n THEN p ELSE posted[j]
      BY <1>0, <2>1, <2>2, <2>4, ExceptSeq
    <2> QED  BY <2>1, <2>5 DEF p
  <1> QED  BY <1>0, <1>1, <1>2, PostedCases, LenProperties

LEMMA NumberNext ==
  ASSUME Types, NumberInv, PostInv, [Next]_vars
  PROVE  NumberInv'
  <1>0. ClientTypes /\ MaxPosts \in Nat  BY Assumed DEF Types
  <1>1. CASE UNCHANGED <<pc, posted>>  BY <1>1 DEF NumberInv, Pending
  <1>2. ASSUME NEW c \in Client, NEW step, Goto(c, step), step # "post",
               Len(posted') = Len(posted)
        PROVE  NumberInv'
    <2>1. Pending("post")' <= Pending("post") /\ Pending("post") \in Nat
          /\ Pending("post")' \in Nat
      <3>1. /\ Pending("post") \in Nat
            /\ Pending("post")' = Pending("post")
                                    - (IF pc[c] = "post" THEN 1 ELSE 0)
        BY <1>0, <1>2, PendingGoto
      <3>2. Pending("post")' \in Nat
        <4>1. IsFiniteSet({d \in Client : pc'[d] = "post"})
          BY FS_Subset, DelegationAssumption
        <4> QED  BY <4>1, FS_CardinalityType DEF Pending
      <3> QED  BY <3>1, <3>2
    <2>2. Len(posted) \in Nat  BY PostedTypes
    <2> QED  BY <1>0, <1>2, <2>1, <2>2 DEF NumberInv
  <1>3. ASSUME NEW c \in Client, BeginPost(c)
        PROVE  NumberInv'
    <2>1. Goto(c, "posting") /\ pc[c] = "post"  BY <1>3 DEF BeginPost, At
    <2>2. Pending("post")' = Pending("post") - 1 /\ Pending("post") \in Nat
      BY <1>0, <2>1, PendingGoto
    <2>3. Len(posted') = Len(posted) + 1 /\ Len(posted) \in Nat
      BY <1>3, PostedTypes
    <2> QED  BY <1>0, <2>2, <2>3 DEF NumberInv
  <1>4. ASSUME NEW c \in Client, EndPost(c)
        PROVE  NumberInv'
    <2>1. Goto(c, "idle")  BY <1>4 DEF EndPost, Return
    <2> QED  BY <1>2, <1>4, <2>1, PostedTypes
  <1>5. ASSUME UNCHANGED posted, NEW c \in Client, Goto(c, "post"),
               Len(posted) + Pending("post") < MaxPosts
        PROVE  NumberInv'
    <2>1. /\ Pending("post") \in Nat
          /\ Pending("post")' = Pending("post")
                                  + (IF pc[c] # "post" THEN 1 ELSE 0)
      BY <1>0, <1>5, PendingGoto
    <2>2. Len(posted) \in Nat  BY PostedTypes
    <2> QED  BY <1>0, <1>5, <2>1, <2>2 DEF NumberInv
  <1>6. ASSUME UNCHANGED posted, NEW c \in Client, NEW step,
               Moves(c, step), step # "post"
        PROVE  NumberInv'
    BY <1>2, <1>6 DEF Moves
  <1>7. ASSUME UNCHANGED posted, NEW c \in Client, Return(c)
        PROVE  NumberInv'
    BY <1>6, <1>7, ReturnMoves
  <1>8. CASE UNCHANGED posted
    BY <1>1, <1>5, <1>6, <1>7, <1>8, <1>0, ClientCases DEF ClientMoves, Moves
  <1> QED  BY <1>3, <1>4, <1>8, PostedTypes

\* The rest of the history of posts.
LEMMA HistoryNext ==
  ASSUME Types, NumberInv, PostInv, KeptInv, [Next]_vars
  PROVE  HistoryTypes'
  <1>0. sent \subseteq Name /\ received \in [Name -> Nat]
    BY DEF Types, HistoryTypes
  <1>1. sent' \subseteq Name
    <2>1. ASSUME NEW c \in Client, At(c, "posting"), Turn(c) <= Len(subscribers),
                 Broadcast(c)
          PROVE  sent' \subseteq Name
      BY <1>0, <2>1, BroadcastFacts DEF Broadcast
    <2>2. \/ UNCHANGED sent
          \/ \E c \in Client : /\ At(c, "posting") /\ Turn(c) <= Len(subscribers)
                               /\ Broadcast(c)
      BY DEF Next, Dispatch, Call, receivePosts, BeginPost, PostToNext, EndPost,
             PostFails, subscribe, unsubscribe, setForward, BeginCancel,
             CancelThread, EraseThread, ForwarderGone, Run, Start, Wake, Receive,
             Forward, ReceiveFails, ForwardFails, vars, historyVars
    <2> QED  BY <1>0, <2>1, <2>2
  <1>2. received' \in [Name -> Nat]
    <2>1. ASSUME NEW c \in Client,
                 received' = [n \in Name |->
                                received[n] + Copies(inbox[Owner(<<entity[c]>>)], n)]
          PROVE  received' \in [Name -> Nat]
      <3> DEFINE q == inbox[Owner(<<entity[c]>>)]
      <3>1. Owner(<<entity[c]>>) \in Entity  BY Assumed DEF Owner
      <3>2. q \in Seq(Letter) /\ DistinctNames(q)
        BY <3>1 DEF Types, ServiceTypes, KeptInv, BoxesDistinct
      <3> HIDE DEF q
      <3>3. \A n : Copies(q, n) \in Nat  BY <3>2, CopiesOne
      <3> QED  BY <1>0, <2>1, <3>3 DEF q
    <2>2. ASSUME NEW c \in Client, receivePosts(c)
          PROVE  received' \in [Name -> Nat]
      BY <1>0, <2>1, <2>2 DEF receivePosts
    <2>3. UNCHANGED received \/ \E c \in Client : receivePosts(c)
      BY DEF Next, Dispatch, Call, BeginPost, PostToNext, EndPost,
             PostFails, subscribe, unsubscribe, setForward, BeginCancel,
             CancelThread, EraseThread, ForwarderGone, Run, Start, Wake, Receive,
             Forward, ReceiveFails, ForwardFails, vars, historyVars
    <2> QED  BY <1>0, <2>2, <2>3
  <1> QED  BY <1>1, <1>2, PostedTypes DEF HistoryTypes
-----------------------------------------------------------------------------
\* The broadcaster.  Who posts has the mutex: everybody else leaves what it
\* relies on alone.
OthersQuiet(c) ==
  \A d \in Client \ {c} :
    /\ pc'[d] = "posting" <=> pc[d] = "posting"
    /\ pc[d] = "posting" => local'[d] = local[d]
Quiet ==
  /\ UNCHANGED <<posted, sent, mutex>>
  /\ \A c \in Client : /\ pc'[c] = "posting" <=> pc[c] = "posting"
                       /\ pc[c] = "posting" => local'[c] = local[c]

LEMMA QuietCases ==
  ASSUME ClientTypes, [Next]_vars
  PROVE  \/ Quiet /\ UNCHANGED subscribers
         \/ Quiet /\ \E c \in Client : subscribe(c) \/ unsubscribe(c)
         \/ \E c \in Client : \/ BeginPost(c) \/ PostToNext(c)
                              \/ EndPost(c) \/ PostFails(c)
  <1> DEFINE Posts(c) == BeginPost(c) \/ PostToNext(c) \/ EndPost(c) \/ PostFails(c)
  <1>1. SUFFICES ASSUME \A c \in Client : ~Posts(c)
                 PROVE  /\ Quiet
                        /\ UNCHANGED subscribers
                             \/ \E c \in Client : subscribe(c) \/ unsubscribe(c)
    OBVIOUS
  <1>2. UNCHANGED <<posted, sent, mutex>>
    BY <1>1
       DEF Next, Dispatch, Call, receivePosts, subscribe, unsubscribe, setForward,
           BeginCancel, CancelThread, EraseThread, ForwarderGone, Run, Start, Wake,
           Receive, Forward, ReceiveFails, ForwardFails, vars, historyVars
  <1>3. UNCHANGED subscribers \/ \E c \in Client : subscribe(c) \/ unsubscribe(c)
    BY <1>1
       DEF Next, Dispatch, Call, receivePosts, setForward,
           BeginCancel, CancelThread, EraseThread, ForwarderGone, Run, Start, Wake,
           Receive, Forward, ReceiveFails, ForwardFails, vars
  <1>4. ASSUME NEW c \in Client, NEW step, Goto(c, step), step # "posting",
               pc[c] # "posting",
               UNCHANGED local \/ \E l : local' = [local EXCEPT ![c] = l]
        PROVE  Quiet
    BY <1>2, <1>4 DEF ClientTypes, Goto, Quiet
  <1>5. UNCHANGED <<pc, local>> => Quiet  BY <1>2 DEF Quiet
  <1>6. ASSUME NEW c \in Client, Return(c), pc[c] # "posting"
        PROVE  Quiet
    BY <1>4, <1>6 DEF Return
  <1>7. ASSUME NEW c \in Client, NEW step, Moves(c, step), step # "posting",
               pc[c] # "posting",
               UNCHANGED local \/ \E l : local' = [local EXCEPT ![c] = l]
        PROVE  Quiet
    BY <1>4, <1>7 DEF Moves
  <1>8. Quiet
    <2>1. \A step \in Operation : step # "posting"  BY DEF Operation
    <2> QED
      BY <1>1, <1>5, <1>6, <1>7, <2>1, ClientCases DEF ClientMoves
  <1> QED  BY <1>3, <1>8

LEMMA PostNext ==
  ASSUME Types, NumberInv, PostInv, [Next]_vars
  PROVE  PostInv'
  <1>0. /\ ClientTypes /\ subscribers \in Seq(Entity) /\ Len(subscribers) \in Nat
        /\ DOMAIN subscribers = 1..Len(subscribers)
        /\ \A i \in 1..Len(subscribers) : subscribers[i] \in Entity
        /\ Len(posted) \in Nat /\ DOMAIN posted = 1..Len(posted)
        /\ posted' \in Seq(PostCall) /\ DOMAIN posted' = 1..Len(posted')
        /\ sent \subseteq Name /\ NoClient \notin Client
        /\ DOMAIN local = Client
    BY LenProperties, ElementOfSeq, PostedTypes, DelegationAssumption
       DEF Types, ServiceTypes, HistoryTypes, ClientTypes
  <1>1. CASE Quiet /\ UNCHANGED subscribers
    <2>1. \A c \in Client : pc'[c] = "posting" => InTurn(c)'
      BY <1>1 DEF Quiet, PostInv, InTurn, Number, Turn
    <2> QED  BY <1>1, <2>1 DEF Quiet, PostInv, Distinct, SubscribersReached
  <1>2. ASSUME Quiet, NEW c \in Client, subscribe(c) \/ unsubscribe(c)
        PROVE  PostInv'
    <2>1. \A d \in Client : pc'[d] # "posting"
      BY <1>0, <1>2 DEF subscribe, unsubscribe, Quiet, PostInv
    <2>2. Distinct(subscribers')
      <3>0. Distinct(subscribers)  BY DEF PostInv
      <3>1. CASE UNCHANGED subscribers  BY <3>0, <3>1
      <3>2. CASE subscribers' = RemoveFirst(subscribers, entity[c])
        BY <1>0, <3>2, RemoveFirstDistinct DEF PostInv
      <3>3. CASE /\ entity[c] \notin ToSet(subscribers)
                 /\ subscribers' = Append(subscribers, entity[c])
        <4>1. \A i \in 1..Len(subscribers) : subscribers[i] # entity[c]
          BY <1>0, <3>3 DEF ToSet
        <4>2. /\ Len(subscribers') = Len(subscribers) + 1
              /\ \A i \in 1..Len(subscribers) : subscribers'[i] = subscribers[i]
              /\ subscribers'[Len(subscribers) + 1] = entity[c]
          BY <1>0, <3>3, Assumed, AppendProperties
        <4> QED  BY <1>0, <4>1, <4>2 DEF PostInv, Distinct
      <3> QED  BY <1>2, <3>1, <3>2, <3>3 DEF subscribe, unsubscribe
    <2>3. UNCHANGED <<posted, sent, mutex>>  BY <1>2 DEF Quiet
    <2>4. SubscribersReached'  BY <2>3 DEF PostInv, SubscribersReached
    <2>5. \A d \in Client : pc'[d] = "posting" <=> mutex' = d
      BY <1>2, <2>3 DEF Quiet, PostInv
    <2> QED  BY <2>1, <2>2, <2>3, <2>4, <2>5 DEF PostInv
  <1>3. ASSUME NEW c \in Client, BeginPost(c)
        PROVE  PostInv'
    <2>1. /\ mutex = NoClient /\ mutex' = c /\ UNCHANGED <<subscribers, sent>>
          /\ local' = [local EXCEPT ![c] = <<Len(posted) + 1, 1>>]
          /\ Goto(c, "posting")
      BY <1>3 DEF BeginPost, LockForPost
    <2>2. /\ Len(posted') = Len(posted) + 1
          /\ posted'[Len(posted) + 1] =
               [to |-> ToSet(subscribers), over |-> FALSE]
          /\ \A n \in 1..Len(posted) : posted'[n] = posted[n]
      BY <1>3, PostedTypes
    <2>3. /\ pc'[c] = "posting"
          /\ \A d \in Client \ {c} : pc'[d] # "posting"
      BY <1>0, <2>1 DEF Goto, ClientTypes, PostInv
    <2>4. \A d \in Client : pc'[d] = "posting" <=> mutex' = d  BY <2>1, <2>3
    <2>5. \A n \in Nat, e \in Entity : <<n, e>> \in sent' => n \in 1..Len(posted')
      BY <1>0, <2>1, <2>2 DEF PostInv
    <2>6. InTurn(c)'
      <3>1. local'[c] = <<Len(posted) + 1, 1>>  BY <1>0, <2>1
      <3>2. DOMAIN local'[c] = 1..2 /\ local'[c][1] = Len(posted) + 1
            /\ local'[c][2] = 1
        BY <3>1
      <3>3. \A e \in Entity : <<Len(posted) + 1, e>> \notin sent'
        BY <1>0, <2>1 DEF PostInv
      <3> QED
        BY <1>0, <2>1, <2>2, <3>2, <3>3 DEF InTurn, Number, Turn
    <2>7. SubscribersReached'
      <3> SUFFICES ASSUME NEW n \in 1..Len(posted'), posted'[n].over
                   PROVE  {e \in Entity : <<n, e>> \in sent'} = posted'[n].to
        BY <1>0 DEF SubscribersReached
      <3>1. n \in 1..Len(posted)
        <4>1. n # Len(posted) + 1  BY <2>2
        <4> QED  BY <1>0, <2>2, <4>1
      <3> QED  BY <1>0, <2>1, <2>2, <3>1 DEF PostInv, SubscribersReached
    <2> QED
      BY <2>1, <2>3, <2>4, <2>5, <2>6, <2>7 DEF PostInv, Distinct
  <1>4. ASSUME NEW c \in Client, At(c, "posting"), Turn(c) <= Len(subscribers),
               Broadcast(c)
        PROVE  /\ \A n \in Nat, e \in Entity :
                    <<n, e>> \in sent'
                      <=> \/ <<n, e>> \in sent
                          \/ n = Number(c) /\ e = subscribers[Turn(c)]
               /\ \A n \in 1..Len(posted) : n # Number(c) =>
                    \A e \in Entity : <<n, e>> \in sent' <=> <<n, e>> \in sent
               /\ Number(c) \in 1..Len(posted) /\ Turn(c) \in 1..Len(subscribers)
               /\ subscribers[Turn(c)] \in Entity
    BY <1>4, BroadcastFacts DEF Broadcast
  <1>5. ASSUME NEW c \in Client, At(c, "posting"), Turn(c) <= Len(subscribers),
               Broadcast(c) \/ UNCHANGED sent, UNCHANGED posted
        PROVE  /\ \A n \in Nat, e \in Entity :
                    <<n, e>> \in sent' => n \in 1..Len(posted')
               /\ SubscribersReached'
    <2>1. ~posted[Number(c)].over  BY <1>5 DEF At, PostInv, InTurn
    <2>2. CASE UNCHANGED sent  BY <1>5, <2>2 DEF PostInv, SubscribersReached
    <2>3. CASE Broadcast(c)
      <3>1. SubscribersReached'
        <4> SUFFICES ASSUME NEW n \in 1..Len(posted), posted[n].over
                     PROVE  {e \in Entity : <<n, e>> \in sent'} = posted[n].to
          BY <1>0, <1>5 DEF SubscribersReached
        <4>1. \A e \in Entity : <<n, e>> \in sent' <=> <<n, e>> \in sent
          BY <1>4, <1>5, <2>1, <2>3
        <4> QED  BY <1>0, <4>1 DEF PostInv, SubscribersReached
      <3> QED  BY <1>4, <1>5, <2>3, <3>1 DEF PostInv
    <2> QED  BY <1>5, <2>2, <2>3
  <1>6. ASSUME NEW c \in Client, PostToNext(c)
        PROVE  PostInv'
    <2>1. /\ At(c, "posting") /\ Turn(c) <= Len(subscribers) /\ Broadcast(c)
          /\ local' = [local EXCEPT ![c][2] = @ + 1]
          /\ UNCHANGED <<subscribers, mutex, pc, posted>>
      BY <1>6 DEF PostToNext
    <2>2. InTurn(c)  BY <2>1 DEF At, PostInv
    <2>3. /\ DOMAIN local'[c] = 1..2 /\ local'[c][1] = Number(c)
          /\ local'[c][2] = Turn(c) + 1
      BY <1>0, <2>1, <2>2 DEF InTurn, Number, Turn
    <2>4. \A d \in Client : pc[d] = "posting" => d = c
      BY <2>1 DEF At, PostInv
    <2>5. InTurn(c)'
      <3> DEFINE k == Turn(c)
      <3>1. k \in 1..Len(subscribers) /\ k + 1 \in 1..(Len(subscribers) + 1)
        BY <1>0, <1>4, <2>1
      <3>2. ASSUME NEW e \in Entity
            PROVE  <<Number(c), e>> \in sent'
                     <=> \E i \in 1..((k + 1) - 1) : subscribers[i] = e
        <4>1. <<Number(c), e>> \in sent'
                <=> <<Number(c), e>> \in sent \/ e = subscribers[k]
          BY <1>0, <1>4, <2>1
        <4>2. <<Number(c), e>> \in sent
                <=> \E i \in 1..(k - 1) : subscribers[i] = e
          BY <2>2 DEF InTurn
        <4>3. 1..((k + 1) - 1) = 1..(k - 1) \cup {k}  BY <1>0, <3>1
        <4> QED  BY <4>1, <4>2, <4>3
      <3> HIDE DEF k
      <3> QED
        BY <2>1, <2>2, <2>3, <3>1, <3>2 DEF InTurn, Number, Turn, k
    <2>6. \A d \in Client : pc'[d] = "posting" => InTurn(d)'  BY <2>1, <2>4, <2>5
    <2>7. /\ \A n \in Nat, e \in Entity : <<n, e>> \in sent' => n \in 1..Len(posted')
          /\ SubscribersReached'
      BY <1>5, <2>1
    <2> QED  BY <2>1, <2>6, <2>7 DEF PostInv, Distinct
  <1>7. ASSUME NEW c \in Client, At(c, "posting"), mutex' = NoClient, Return(c),
               UNCHANGED subscribers
        PROVE  /\ \A d \in Client : pc'[d] # "posting"
               /\ \A d \in Client : pc'[d] = "posting" <=> mutex' = d
    BY <1>0, <1>7 DEF At, Return, Goto, ClientTypes, PostInv
  <1>8. ASSUME NEW c \in Client, PostFails(c)
        PROVE  PostInv'
    <2>1. /\ At(c, "posting") /\ Turn(c) <= Len(subscribers)
          /\ Broadcast(c) \/ UNCHANGED sent
          /\ mutex' = NoClient /\ Return(c) /\ UNCHANGED <<subscribers, posted>>
      BY <1>8 DEF PostFails, Unlock
    <2> QED  BY <1>5, <1>7, <2>1 DEF PostInv, Distinct
  <1>9. ASSUME NEW c \in Client, EndPost(c)
        PROVE  PostInv'
    <2>1. /\ At(c, "posting") /\ Turn(c) > Len(subscribers)
          /\ mutex' = NoClient /\ Return(c) /\ UNCHANGED <<subscribers, sent>>
      BY <1>9 DEF EndPost
    <2> DEFINE n == Number(c)
    <2>2. InTurn(c)  BY <2>1 DEF At, PostInv
    <2>3. n \in 1..Len(posted) /\ posted[n].to = ToSet(subscribers)
          /\ Turn(c) = Len(subscribers) + 1
      BY <1>0, <2>1, <2>2 DEF InTurn
    <2>4. /\ Len(posted') = Len(posted)
          /\ posted'[n] = [posted[n] EXCEPT !.over = TRUE]
          /\ \A m \in 1..Len(posted) \ {n} : posted'[m] = posted[m]
      BY <1>9, PostedTypes
    <2>5. posted[n] \in PostCall  BY <1>0, <2>3, ElementOfSeq DEF Types, HistoryTypes
    <2>6. posted'[n].to = ToSet(subscribers)  BY <2>3, <2>4, <2>5 DEF PostCall
    <2>7. {e \in Entity : <<n, e>> \in sent'} = ToSet(subscribers)
      <3>1. (Len(subscribers) + 1) - 1 = Len(subscribers)  BY <1>0
      <3>2. \A e \in Entity :
              <<n, e>> \in sent <=> \E i \in 1..Len(subscribers) : subscribers[i] = e
        BY <2>2, <2>3, <3>1 DEF InTurn
      <3> QED  BY <1>0, <2>1, <3>2 DEF ToSet
    <2> HIDE DEF n
    <2>8. SubscribersReached'
      <3> SUFFICES ASSUME NEW m \in 1..Len(posted), posted'[m].over
                   PROVE  {e \in Entity : <<m, e>> \in sent'} = posted'[m].to
        BY <1>0, <2>4 DEF SubscribersReached
      <3>1. CASE m = n  BY <2>6, <2>7, <3>1
      <3>2. CASE m # n
        BY <1>0, <2>1, <2>4, <3>2 DEF PostInv, SubscribersReached
      <3> QED  BY <3>1, <3>2
    <2>9. \A m \in Nat, e \in Entity : <<m, e>> \in sent' => m \in 1..Len(posted')
      BY <2>1, <2>4 DEF PostInv
    <2> QED  BY <1>7, <2>1, <2>8, <2>9 DEF PostInv, Distinct
  <1> QED  BY <1>0, <1>1, <1>2, <1>3, <1>6, <1>8, <1>9, QuietCases
-----------------------------------------------------------------------------
\* The forwarder.  Steps that leave its threads alone, and put nobody into
\* cancelForward.
Elsewhere ==
  /\ UNCHANGED <<threads, thread, up, raced>>
  /\ \A c \in Client : pc'[c] \in Canceled =>
       pc[c] = pc'[c] /\ local'[c] = local[c]
Cancels(c) ==
  /\ BeginCancel(c) /\ Moves(c, "cancel_thread") /\ pc[c] = "cancel"
  /\ local' = [local EXCEPT ![c] = <<threads[entity[c]]>>]
  /\ threads[entity[c]] # None

LEMMA ForwarderCases ==
  ASSUME ClientTypes, [Next]_vars
  PROVE  \/ Elsewhere
         \/ \E c \in Client : \/ Cancels(c) \/ CancelThread(c) \/ EraseThread(c)
                              \/ setForward(c) /\ StartsThread(c)
         \/ \E f \in ThreadId : Run(f) \/ ReceiveFails(f) \/ ForwardFails(f)
  <1> DEFINE Runs(f) == Run(f) \/ ReceiveFails(f) \/ ForwardFails(f)
             Sets(c) == setForward(c) /\ StartsThread(c)
  <1>1. SUFFICES ASSUME \A f \in ThreadId : ~Runs(f),
                        \A c \in Client : /\ ~Cancels(c) /\ ~CancelThread(c)
                                          /\ ~EraseThread(c) /\ ~Sets(c)
                 PROVE  Elsewhere
    OBVIOUS
  <1>2. UNCHANGED <<threads, thread, up>>
    BY <1>1
       DEF Next, Dispatch, Call, receivePosts, BeginPost, PostToNext, EndPost,
           PostFails, subscribe, unsubscribe, setForward, BeginCancel,
           ForwarderGone, vars, forwarderVars
  <1>3. ASSUME NEW c \in Client, BeginCancel(c)
        PROVE  UNCHANGED raced /\ Return(c)
    <2>1. CASE threads[entity[c]] = None  BY <1>3, <2>1 DEF BeginCancel
    <2>2. CASE threads[entity[c]] # None
      <3>1. Cancels(c)
        BY <1>3, <2>2 DEF BeginCancel, Cancels, Moves, Step, At
      <3> QED  BY <1>1, <3>1
    <2> QED  BY <2>1, <2>2
  <1>4. UNCHANGED raced
    BY <1>1, <1>3
       DEF Next, Dispatch, Call, receivePosts, BeginPost, PostToNext, EndPost,
           PostFails, subscribe, unsubscribe, setForward,
           ForwarderGone, vars, historyVars
  <1>5. ASSUME NEW c \in Client, NEW step, Moves(c, step), step \notin Canceled,
               \/ UNCHANGED local \/ \E l : local' = [local EXCEPT ![c] = l]
        PROVE  Elsewhere
    BY <1>2, <1>4, <1>5 DEF ClientTypes, Moves, Goto, Elsewhere
  <1>6. ASSUME NEW c \in Client, Return(c)
        PROVE  Elsewhere
    BY <1>5, <1>6, ReturnMoves DEF Return, Canceled
  <1>7. UNCHANGED <<pc, local>> => Elsewhere  BY <1>2, <1>4 DEF Elsewhere
  <1>8. ASSUME NEW c \in Client, BeginPost(c) \/ PostToNext(c)
        PROVE  Elsewhere
    <2>1. \E l : local' = [local EXCEPT ![c] = l]
      <3>1. CASE BeginPost(c)  BY <3>1 DEF BeginPost
      <3>2. CASE PostToNext(c)
        <4> DEFINE l == [local[c] EXCEPT ![2] = @ + 1]
        <4>1. local' = [local EXCEPT ![c] = l]
          BY <3>2 DEF PostToNext, ClientTypes
        <4> QED  BY <4>1
      <3> QED  BY <1>8, <3>1, <3>2
    <2>2. Moves(c, "posting")
      BY <1>8 DEF BeginPost, PostToNext, Moves, Step, At, Goto, ClientTypes
    <2> QED  BY <1>5, <2>1, <2>2 DEF Canceled
  <1>9. \A step \in Operation : step \notin Canceled  BY DEF Operation, Canceled
  <1> QED
    BY <1>1, <1>5, <1>6, <1>7, <1>8, <1>9, ClientCases DEF ClientMoves, Cancels

LEMMA ThreadNext ==
  ASSUME Types, ThreadInv, CancelInv, [Next]_vars
  PROVE  ThreadInv'
  <1>0. ServiceTypes /\ ClientTypes  BY DEF Types
  <1>1. CASE UNCHANGED thread  BY <1>1 DEF ThreadInv, ThreadId
  <1>2. ASSUME NEW f \in ThreadId, NEW t \in Thread, InOrder(t),
               thread' = [thread EXCEPT ![f] = t]
        PROVE  ThreadInv'
    BY <1>0, <1>2, ThreadSet DEF ThreadInv
  <1>3. ASSUME NEW c \in Client, CancelThread(c)
        PROVE  ThreadInv'
    <2> DEFINE f == local[c][1]
               t == [thread[f] EXCEPT !.canceled = TRUE]
    <2>1. f \in ThreadId  BY <1>3 DEF CancelInv, CancelThread, At, Canceled
    <2>2. thread[f].pc \notin Holding /\ thread' = [thread EXCEPT ![f] = t]
      BY <1>0, <1>3 DEF CancelThread, Free
    <2>3. t \in Thread /\ InOrder(t)
      BY <1>0, <2>1, <2>2, ThreadFacts DEF Thread, ThreadInv, InOrder
    <2> QED  BY <1>2, <2>1, <2>2, <2>3
  <1>4. ASSUME NEW c \in Client, setForward(c), StartsThread(c)
        PROVE  ThreadInv'
    <2>1. PICK to \in ForwardTo : thread' = Append(thread, NewThread(c, to))
      BY <1>4 DEF setForward
    <2>2. NewThread(c, to) \in Thread /\ InOrder(NewThread(c, to))
      BY <2>1, Assumed, EmptySeq
         DEF NewThread, Thread, ThreadStep, Holding, InOrder
    <2>3. /\ Len(thread') = Len(thread) + 1 /\ Len(thread) \in Nat
          /\ \A f \in 1..Len(thread) : thread'[f] = thread[f]
          /\ thread'[Len(thread) + 1] = NewThread(c, to)
      BY <1>0, <2>1, <2>2, AppendProperties, LenProperties DEF ServiceTypes
    <2>4. 1..Len(thread') = 1..Len(thread) \cup {Len(thread) + 1}  BY <2>3
    <2> QED  BY <2>2, <2>3, <2>4 DEF ThreadInv, ThreadId
  <1>5. ASSUME NEW f \in ThreadId, Run(f) \/ ReceiveFails(f) \/ ForwardFails(f)
        PROVE  ThreadInv'
    <2>1. PICK t : Steps(f, t)  BY <1>0, <1>5, RunSteps
    <2> QED  BY <1>2, <2>1 DEF Steps
  <1> QED
    BY <1>0, <1>1, <1>3, <1>4, <1>5, ForwarderCases
       DEF Elsewhere, Cancels, BeginCancel, EraseThread, forwarderVars

LEMMA CancelNext ==
  ASSUME Types, ThreadInv, CancelInv, [Next]_vars
  PROVE  CancelInv'
  <1>0. ServiceTypes /\ ClientTypes /\ threads \in [Entity -> {None} \cup ThreadId]
    BY DEF Types, ServiceTypes
  <1>1. CASE Elsewhere
    <2>1. \A c \in Client : pc'[c] \in Canceled =>
            pc[c] \in Canceled /\ pc'[c] = pc[c] /\ local'[c] = local[c]
      BY <1>1 DEF Elsewhere
    <2> QED
      BY <1>1, <2>1 DEF Elsewhere, CancelInv, ThreadsCanBeCanceled, ThreadId
  <1>2. ASSUME NEW c \in Client, Cancels(c)
        PROVE  CancelInv'
    <2> DEFINE e == entity[c]
    <2>1. /\ local'[c] = <<threads[e]>> /\ pc'[c] = "cancel_thread"
          /\ \A d \in Client \ {c} : pc'[d] = pc[d] /\ local'[d] = local[d]
          /\ UNCHANGED <<threads, thread, up>>
      BY <1>0, <1>2
         DEF Cancels, Moves, Goto, BeginCancel, ClientTypes, forwarderVars
    <2>2. raced \subseteq raced' /\ (Canceling(e) # {} => e \in raced')
      BY <1>2 DEF Cancels, BeginCancel
    <2>3. local'[c][1] = threads[e] /\ threads[e] \in ThreadId
      BY <1>0, <1>2, <2>1, Assumed DEF Cancels
    <2>4. \A d \in Client : pc'[d] \in Canceled => local'[d][1] \in ThreadId'
      BY <2>1, <2>3 DEF CancelInv, ThreadId
    <2>5. ASSUME up, NEW d \in Client, pc'[d] \in Canceled, entity[d] \notin raced'
          PROVE  /\ local'[d][1] = threads'[entity[d]]
                 /\ pc'[d] = "erase" => thread'[local'[d][1]].canceled
                 /\ \A b \in Client : pc'[b] \in Canceled /\ entity[b] = entity[d]
                                        => b = d
      <3>1. CASE d = c
        <4>1. \A b \in Client : entity[b] = e => pc[b] \notin Canceled
          BY <2>2, <2>5, <3>1 DEF Canceling, Canceled
        <4> QED  BY <2>1, <2>3, <3>1, <4>1
      <3>2. CASE d # c
        <4>1. pc[d] \in Canceled /\ entity[d] # e
          BY <2>1, <2>2, <2>5, <3>2 DEF Canceling, Canceled
        <4> QED  BY <2>1, <2>2, <2>5, <3>2, <4>1 DEF CancelInv
      <3> QED  BY <3>1, <3>2
    <2>6. ThreadsCanBeCanceled'
      BY <2>1, <2>2 DEF CancelInv, ThreadsCanBeCanceled, ThreadId
    <2> QED  BY <2>1, <2>4, <2>5, <2>6 DEF CancelInv
  <1>3. ASSUME NEW c \in Client, CancelThread(c)
        PROVE  CancelInv'
    <2> DEFINE f == local[c][1]
               t == [thread[f] EXCEPT !.canceled = TRUE]
    <2>1. f \in ThreadId  BY <1>3 DEF CancelInv, CancelThread, At, Canceled
    <2>2. /\ thread' = [thread EXCEPT ![f] = t]
          /\ UNCHANGED <<threads, up, local, raced>>
          /\ pc[c] = "cancel_thread" /\ pc'[c] = "erase"
          /\ \A d \in Client \ {c} : pc'[d] = pc[d]
      BY <1>0, <1>3 DEF CancelThread, At, Goto, ClientTypes, historyVars
    <2>3. t \in Thread /\ t.canceled = TRUE /\ t.of = thread[f].of
          /\ t.pc = thread[f].pc
      BY <1>0, <2>1, ThreadFacts DEF Thread
    <2>4. /\ ThreadId' = ThreadId /\ thread'[f] = t
          /\ \A g \in ThreadId \ {f} : thread'[g] = thread[g]
      BY <1>0, <2>1, <2>2, <2>3, ThreadSet
    <2> HIDE DEF t, f
    <2>5. \A d \in Client : pc'[d] \in Canceled <=> pc[d] \in Canceled
      BY <2>2 DEF Canceled
    <2>6. \A d \in Client : pc'[d] \in Canceled => local'[d][1] \in ThreadId'
      BY <2>2, <2>4, <2>5 DEF CancelInv
    <2>7. ASSUME up, NEW d \in Client, pc'[d] \in Canceled, entity[d] \notin raced
          PROVE  /\ local[d][1] = threads[entity[d]]
                 /\ pc'[d] = "erase" => thread'[local[d][1]].canceled
                 /\ \A b \in Client : pc'[b] \in Canceled /\ entity[b] = entity[d]
                                        => b = d
      <3>1. local[d][1] \in ThreadId  BY <2>5, <2>7 DEF CancelInv
      <3>2. pc'[d] = "erase" => thread'[local[d][1]].canceled
        BY <2>2, <2>3, <2>4, <2>5, <2>7, <3>1 DEF CancelInv, f
      <3> QED  BY <2>5, <2>7, <3>2 DEF CancelInv
    <2>8. ThreadsCanBeCanceled'
      BY <2>2, <2>3, <2>4 DEF CancelInv, ThreadsCanBeCanceled
    <2> QED  BY <2>2, <2>6, <2>7, <2>8 DEF CancelInv
  <1>4. ASSUME NEW c \in Client, EraseThread(c)
        PROVE  CancelInv'
    <2> DEFINE e == entity[c]
    <2>1. /\ threads' = [threads EXCEPT ![e] = None]
          /\ UNCHANGED <<thread, up, raced>> /\ up
          /\ pc[c] = "erase" /\ pc'[c] = "idle"
          /\ \A d \in Client \ {c} : pc'[d] = pc[d] /\ local'[d] = local[d]
      BY <1>0, <1>4
         DEF EraseThread, At, Return, Goto, ClientTypes, historyVars
    <2>2. e \in Entity  BY Assumed
    <2>3. \A d \in Entity \ {e} : threads'[d] = threads[d]  BY <1>0, <2>1
    <2>4. \A d \in Client : pc'[d] \in Canceled =>
            d # c /\ pc[d] \in Canceled /\ local'[d][1] \in ThreadId'
      BY <2>1 DEF CancelInv, Canceled, ThreadId
    <2>5. ASSUME NEW d \in Client, pc'[d] \in Canceled, entity[d] \notin raced
          PROVE  entity[d] # e /\ entity[d] \in Entity
      BY <2>1, <2>4, <2>5, Assumed DEF CancelInv, Canceled
    <2>6. ThreadsCanBeCanceled'
      <3> SUFFICES ASSUME NEW f \in ThreadId, thread[f].pc # "ended",
                          ~thread[f].canceled, thread[f].of \notin raced
                   PROVE  threads'[thread[f].of] = f
        BY <2>1 DEF ThreadsCanBeCanceled, ThreadId
      <3>1. threads[thread[f].of] = f
        BY <2>1 DEF CancelInv, ThreadsCanBeCanceled
      <3>2. thread[f].of # e
        BY <2>1, <3>1 DEF CancelInv, Canceled
      <3> QED  BY <1>0, <2>3, <3>1, <3>2, ThreadFacts
    <2> QED
      BY <2>1, <2>3, <2>4, <2>5, <2>6 DEF CancelInv, Canceled
  <1>5. ASSUME NEW c \in Client, setForward(c), StartsThread(c)
        PROVE  CancelInv'
    <2> DEFINE e == entity[c]
               new == Len(thread) + 1
    <2>1. PICK to \in ForwardTo : thread' = Append(thread, NewThread(c, to))
      BY <1>5 DEF setForward
    <2>2. NewThread(c, to) \in Thread
      BY <2>1, Assumed, EmptySeq DEF NewThread, Thread, ThreadStep
    <2>3. /\ Len(thread') = new /\ Len(thread) \in Nat
          /\ \A f \in 1..Len(thread) : thread'[f] = thread[f]
          /\ thread'[new] = NewThread(c, to)
      BY <1>0, <2>1, <2>2, AppendProperties, LenProperties DEF ServiceTypes
    <2>4. /\ threads[e] = None /\ threads' = [threads EXCEPT ![e] = new]
          /\ UNCHANGED <<up, raced>> /\ up
          /\ pc[c] = "set" /\ pc'[c] = "idle"
          /\ \A d \in Client \ {c} : pc'[d] = pc[d] /\ local'[d] = local[d]
      BY <1>0, <1>5
         DEF setForward, StartsThread, At, Return, Goto, ClientTypes, historyVars
    <2>5. /\ ThreadId' = ThreadId \cup {new} /\ new \notin ThreadId
          /\ \A f \in ThreadId : thread'[f] = thread[f] /\ f # None
          /\ thread'[new].of = e
      BY <2>3 DEF ThreadId, NewThread, None
    <2>6. threads'[e] = new /\ \A d \in Entity \ {e} : threads'[d] = threads[d]
      BY <1>0, <2>4, Assumed
    <2> HIDE DEF new, e
    <2>7. \A d \in Client : pc'[d] \in Canceled =>
            /\ d # c /\ pc[d] \in Canceled /\ local'[d] = local[d]
            /\ local[d][1] \in ThreadId
      BY <2>4 DEF CancelInv, Canceled
    <2>8. ASSUME NEW d \in Client, pc'[d] \in Canceled, entity[d] \notin raced
          PROVE  /\ local[d][1] = threads'[entity[d]]
                 /\ pc'[d] = "erase" => thread'[local[d][1]].canceled
                 /\ \A b \in Client : pc'[b] \in Canceled /\ entity[b] = entity[d]
                                        => b = d
      <3>1. /\ local[d][1] = threads[entity[d]] /\ local[d][1] \in ThreadId
            /\ pc[d] = "erase" => thread[local[d][1]].canceled
            /\ \A b \in Client : pc[b] \in Canceled /\ entity[b] = entity[d]
                                   => b = d
        BY <2>4, <2>7, <2>8 DEF CancelInv
      <3>2. entity[d] # e /\ entity[d] \in Entity
        BY <2>4, <2>5, <3>1, Assumed
      <3> QED  BY <2>4, <2>5, <2>6, <2>7, <2>8, <3>1, <3>2
    <2>9. ThreadsCanBeCanceled'
      <3> SUFFICES ASSUME NEW f \in ThreadId', thread'[f].pc # "ended",
                          ~thread'[f].canceled, thread'[f].of \notin raced
                   PROVE  threads'[thread'[f].of] = f
        BY <2>4 DEF ThreadsCanBeCanceled
      <3>1. CASE f = new  BY <2>5, <2>6, <3>1
      <3>2. CASE f \in ThreadId
        <4>1. threads[thread[f].of] = f /\ thread'[f] = thread[f] /\ f # None
              /\ thread[f].of \in Entity
          BY <1>0, <2>4, <2>5, <3>2, ThreadFacts
             DEF CancelInv, ThreadsCanBeCanceled
        <4> QED  BY <2>4, <2>6, <4>1
      <3> QED  BY <2>5, <3>1, <3>2
    <2> QED  BY <2>4, <2>5, <2>7, <2>8, <2>9 DEF CancelInv
  <1>6. ASSUME NEW f \in ThreadId, Run(f) \/ ReceiveFails(f) \/ ForwardFails(f)
        PROVE  CancelInv'
    <2>1. PICK t : Steps(f, t)  BY <1>0, <1>6, RunSteps
    <2>2. UNCHANGED <<pc, local, threads, raced>> /\ up /\ up' \in BOOLEAN
      BY <1>0, <1>6
         DEF Run, Start, Wake, Receive, Forward, ReceiveFails, ForwardFails,
             Running, Exit, clientVars, historyVars, ServiceTypes
    <2>3. /\ ThreadId' = ThreadId
          /\ \A g \in ThreadId : /\ thread'[g].canceled = thread[g].canceled
                                 /\ thread'[g].of = thread[g].of
                                 /\ thread'[g].pc # "ended" => thread[g].pc # "ended"
      BY <1>0, <2>1, ThreadSet DEF Steps
    <2>4. \A c \in Client : pc[c] \in Canceled => local[c][1] \in ThreadId
      BY DEF CancelInv
    <2> QED
      BY <2>2, <2>3, <2>4 DEF CancelInv, ThreadsCanBeCanceled
  <1> QED
    BY <1>0, <1>1, <1>2, <1>3, <1>4, <1>5, <1>6, ForwarderCases
-----------------------------------------------------------------------------
\* Where the posts are after a step: of the messenger, ...
LEMMA BoxPost ==
  ASSUME ServiceTypes, NEW to \in Entity, NEW name \in Name,
         NEW chain \in Chain, Post(to, name, chain)
  PROVE  /\ \A n : Box(n)' = IF n = name THEN Box(n) \cup {to} ELSE Box(n)
         /\ BoxesDistinct /\ Box(name) = {} => BoxesDistinct'
  <1> DEFINE l == [name |-> name, from |-> chain]
             q == Append(inbox[to], l)
  <1>1. l \in Letter /\ l.name = name  BY DEF Letter
  <1>2. inbox[to] \in Seq(Letter)  BY DEF ServiceTypes
  <1>3. inbox' = [inbox EXCEPT ![to] = q]  BY DEF Post
  <1> HIDE DEF l
  <1>4. /\ Names(q) = Names(inbox[to]) \cup {name}
        /\ DistinctNames(inbox[to]) /\ name \notin Names(inbox[to])
             => DistinctNames(q)
    BY <1>1, <1>2, NamesAppend
  <1> HIDE DEF q
  <1>5. inbox'[to] = q /\ \A e \in Entity \ {to} : inbox'[e] = inbox[e]
    BY <1>3 DEF ServiceTypes
  <1>6. ASSUME NEW n
        PROVE  Box(n)' = IF n = name THEN Box(n) \cup {to} ELSE Box(n)
    <2>1. \A e \in Entity : n \in Names(inbox'[e])
                              <=> n \in Names(inbox[e]) \/ (n = name /\ e = to)
      BY <1>4, <1>5
    <2>2. Box(n)' = {e \in Entity : n \in Names(inbox'[e])}  BY DEF Box, Names
    <2> QED  BY <2>1, <2>2 DEF Box
  <1>7. ASSUME BoxesDistinct, Box(name) = {}
        PROVE  BoxesDistinct'
    <2>1. \A e \in Entity : DistinctNames(inbox'[e])
      BY <1>4, <1>5, <1>7 DEF Box, BoxesDistinct
    <2> QED  BY <2>1 DEF BoxesDistinct, DistinctNames
  <1> QED  BY <1>6, <1>7

LEMMA BoxEmptied ==
  ASSUME ServiceTypes, NEW owner \in Entity, Emptied(owner)
  PROVE  /\ \A n : Box(n)' = Box(n) \ {owner}
         /\ BoxesDistinct => BoxesDistinct'
  <1>1. inbox'[owner] = <<>> /\ \A e \in Entity \ {owner} : inbox'[e] = inbox[e]
    BY DEF ServiceTypes, Emptied
  <1>2. Names(<<>>) = {} /\ DistinctNames(<<>>)  BY NamesEmpty
  <1>3. ASSUME NEW n
        PROVE  Box(n)' = Box(n) \ {owner}
    <2>1. \A e \in Entity : n \in Names(inbox'[e])
                              <=> n \in Names(inbox[e]) /\ e # owner
      BY <1>1, <1>2
    <2>2. Box(n)' = {e \in Entity : n \in Names(inbox'[e])}  BY DEF Box, Names
    <2> QED  BY <2>1, <2>2 DEF Box
  <1>4. ASSUME BoxesDistinct
        PROVE  BoxesDistinct'
    <2>1. \A e \in Entity : DistinctNames(inbox'[e])
      BY <1>1, <1>2, <1>4 DEF BoxesDistinct
    <2> QED  BY <2>1 DEF BoxesDistinct, DistinctNames
  <1> QED  BY <1>3, <1>4

LEMMA BoxSame ==
  ASSUME UNCHANGED inbox
  PROVE  /\ \A n : Box(n)' = Box(n)
         /\ BoxesDistinct => BoxesDistinct'
  BY DEF Box, Names, BoxesDistinct, DistinctNames

\* ... and of the forwarder.
LEMMA HandSame ==
  ASSUME ServiceTypes, UNCHANGED up,
         \A f \in ThreadId : f \in ThreadId' /\ thread'[f].posts = thread[f].posts,
         \A f \in ThreadId' : f \in ThreadId \/ thread'[f].posts = <<>>
  PROVE  /\ \A n : Hand(n)' = Hand(n)
         /\ HandsDistinct => HandsDistinct'
  <1>1. Names(<<>>) = {} /\ DistinctNames(<<>>)  BY NamesEmpty
  <1>2. ASSUME NEW n
        PROVE  Hand(n)' = Hand(n)
    <2>1. Hand(n)' = {f \in ThreadId' : up' /\ n \in Names(thread'[f].posts)}
      BY DEF Hand, Names
    <2> QED  BY <1>1, <2>1 DEF Hand
  <1>3. ASSUME HandsDistinct
        PROVE  HandsDistinct'
    <2>1. up' => \A f \in ThreadId' : DistinctNames(thread'[f].posts)
      BY <1>1, <1>3 DEF HandsDistinct
    <2> QED  BY <2>1 DEF HandsDistinct, DistinctNames
  <1> QED  BY <1>2, <1>3

LEMMA HandGone ==
  ASSUME up' = FALSE
  PROVE  /\ \A n : Hand(n)' = {}
         /\ HandsDistinct'
  BY DEF Hand, HandsDistinct

LEMMA HandSet ==
  ASSUME ServiceTypes, UNCHANGED up, up, NEW f \in ThreadId, NEW t \in Thread,
         thread' = [thread EXCEPT ![f] = t]
  PROVE  /\ \A n : Hand(n)' = IF n \in Names(t.posts) THEN Hand(n) \cup {f}
                              ELSE Hand(n) \ {f}
         /\ HandsDistinct /\ DistinctNames(t.posts) => HandsDistinct'
  <1>1. /\ ThreadId' = ThreadId /\ thread'[f] = t
        /\ \A g \in ThreadId \ {f} : thread'[g] = thread[g]
    BY ThreadSet
  <1>2. ASSUME NEW n
        PROVE  Hand(n)' = IF n \in Names(t.posts) THEN Hand(n) \cup {f}
                          ELSE Hand(n) \ {f}
    <2>1. Hand(n)' = {g \in ThreadId' : up' /\ n \in Names(thread'[g].posts)}
      BY DEF Hand, Names
    <2> QED  BY <1>1, <2>1 DEF Hand
  <1>3. ASSUME HandsDistinct, DistinctNames(t.posts)
        PROVE  HandsDistinct'
    <2>1. \A g \in ThreadId' : DistinctNames(thread'[g].posts)
      BY <1>1, <1>3 DEF HandsDistinct
    <2> QED  BY <2>1 DEF HandsDistinct, DistinctNames
  <1> QED  BY <1>2, <1>3

LEMMA NamesInBox ==
  ASSUME ServiceTypes, NEW e \in Entity
  PROVE  /\ inbox[e] \in Seq(Letter) /\ Names(inbox[e]) \subseteq Name
         /\ \A n : n \in Names(inbox[e]) <=> e \in Box(n)
  <1>1. inbox[e] \in Seq(Letter)  BY DEF ServiceTypes
  <1> QED  BY <1>1, NamesOf DEF Box

LEMMA NamesInHand ==
  ASSUME ServiceTypes, NEW f \in ThreadId
  PROVE  /\ thread[f].posts \in Seq(Letter) /\ Names(thread[f].posts) \subseteq Name
         /\ up => \A n : n \in Names(thread[f].posts) <=> f \in Hand(n)
  <1>1. thread[f].posts \in Seq(Letter)  BY ThreadFacts
  <1> QED  BY <1>1, NamesOf DEF Hand

\* Steps that move no post.
LEMMA KeptSame ==
  ASSUME ServiceTypes, KeptInv, UNCHANGED <<inbox, up, sent, received, lost>>,
         \A f \in ThreadId : f \in ThreadId' /\ thread'[f].posts = thread[f].posts,
         \A f \in ThreadId' : f \in ThreadId \/ thread'[f].posts = <<>>
  PROVE  KeptInv'
  <1>1. BoxesDistinct' /\ HandsDistinct' /\ lost' \subseteq sent'
    BY BoxSame, HandSame DEF KeptInv
  <1>2. \A n : Box(n)' = Box(n) /\ Hand(n)' = Hand(n)  BY BoxSame, HandSame
  <1>3. \A n \in Name : Once(n)'  BY <1>2 DEF KeptInv, Once
  <1> QED  BY <1>1, <1>3 DEF KeptInv

LEMMA KeptThreads ==
  ASSUME KeptInv, UNCHANGED <<inbox, up, thread, sent, received, lost>>
  PROVE  KeptInv'
  BY DEF KeptInv, BoxesDistinct, HandsDistinct, Once, Box, Hand, Names,
         DistinctNames, ThreadId

\* A post is sent: it is new, and in one inbox.
LEMMA KeptBroadcast ==
  ASSUME Types, NumberInv, PostInv, KeptInv, NEW c \in Client,
         At(c, "posting"), Turn(c) <= Len(subscribers), Broadcast(c),
         UNCHANGED <<thread, up, received, lost>>
  PROVE  KeptInv'
  <1> DEFINE to == subscribers[Turn(c)]
             name == <<Number(c), to>>
  <1>0. ServiceTypes  BY DEF Types
  <1>1. /\ to \in Entity /\ name \in Name /\ name \notin sent
        /\ <<entity[c], broadcaster>> \in Chain
    BY BroadcastFacts
  <1>2. Post(to, name, <<entity[c], broadcaster>>) /\ sent' = sent \cup {name}
    BY DEF Broadcast
  <1> HIDE DEF to, name
  <1>3. Once(name) /\ lost \subseteq sent  BY <1>1 DEF KeptInv
  <1>4. Box(name) = {} /\ Hand(name) = {} /\ received[name] = 0
    BY <1>1, <1>3 DEF Once
  <1>5. /\ \A n : Box(n)' = IF n = name THEN Box(n) \cup {to} ELSE Box(n)
        /\ BoxesDistinct'
    BY <1>0, <1>1, <1>2, <1>4, BoxPost DEF KeptInv
  <1>6. (\A n : Hand(n)' = Hand(n)) /\ HandsDistinct'
    BY DEF Hand, HandsDistinct, Names, DistinctNames, ThreadId, KeptInv
  <1>7. ASSUME NEW n \in Name
        PROVE  Once(n)'
    <2>1. CASE n = name
      <3>1. Box(n)' = {to} /\ Hand(n)' = {} /\ received'[n] = 0
        BY <1>4, <1>5, <1>6, <2>1
      <3>2. n \in sent' \ lost'  BY <1>1, <1>2, <1>3, <2>1
      <3> QED  BY <3>1, <3>2 DEF Once
    <2>2. CASE n # name
      <3>1. Once(n) /\ Box(n)' = Box(n) /\ Hand(n)' = Hand(n)
            /\ (n \in sent' <=> n \in sent)
        BY <1>2, <1>5, <1>6, <2>2 DEF KeptInv
      <3> QED  BY <3>1 DEF Once
    <2> QED  BY <2>1, <2>2
  <1> QED  BY <1>2, <1>3, <1>5, <1>6, <1>7 DEF KeptInv

\* A client receives what is in an inbox, or a call that fails loses it.
LEMMA KeptReceivePosts ==
  ASSUME Types, KeptInv, NEW c \in Client, receivePosts(c)
  PROVE  KeptInv'
  <1> DEFINE owner == Owner(<<entity[c]>>)
             q == inbox[owner]
  <1>0. ServiceTypes /\ received \in [Name -> Nat]  BY DEF Types, HistoryTypes
  <1>1. owner \in Entity /\ Emptied(owner) /\ UNCHANGED <<thread, up, sent>>
    BY Assumed DEF receivePosts, Owner, forwarderVars
  <1>2. /\ \/ /\ received' = [n \in Name |-> received[n] + Copies(q, n)]
              /\ UNCHANGED lost
           \/ lost' = lost \cup Names(q) /\ UNCHANGED received
    BY DEF receivePosts
  <1> HIDE DEF owner
  <1>3. /\ q \in Seq(Letter) /\ Names(q) \subseteq Name
        /\ \A n : n \in Names(q) <=> owner \in Box(n)
    BY <1>0, <1>1, NamesInBox
  <1>4. (\A n : Box(n)' = Box(n) \ {owner}) /\ BoxesDistinct'
    BY <1>0, <1>1, BoxEmptied DEF KeptInv
  <1>5. (\A n : Hand(n)' = Hand(n)) /\ HandsDistinct'
    BY <1>1 DEF Hand, HandsDistinct, Names, DistinctNames, ThreadId, KeptInv
  <1>6. \A n : Copies(q, n) = IF n \in Names(q) THEN 1 ELSE 0
    BY <1>1, <1>3, CopiesOne DEF KeptInv, BoxesDistinct
  <1> HIDE DEF q
  <1>7. ASSUME NEW n \in Name
        PROVE  Once(n)'
    <2>0. Once(n) /\ lost \subseteq sent  BY DEF KeptInv
    <2>1. CASE owner \in Box(n)
      <3>1. /\ Box(n)' = {} /\ Hand(n)' = {} /\ n \in Names(q)
            /\ n \in sent \ lost /\ received[n] = 0
        BY <1>3, <1>4, <1>5, <2>0, <2>1 DEF Once
      <3>2. CASE lost' = lost \cup Names(q) /\ UNCHANGED received
        BY <1>1, <3>1, <3>2 DEF Once
      <3>3. CASE /\ received' = [m \in Name |-> received[m] + Copies(q, m)]
                 /\ UNCHANGED lost
        <4>1. received'[n] = 1  BY <1>6, <3>1, <3>3
        <4> QED  BY <1>1, <3>1, <3>3, <4>1 DEF Once
      <3> QED  BY <1>2, <3>2, <3>3
    <2>2. CASE owner \notin Box(n)
      <3>1. Box(n)' = Box(n) /\ Hand(n)' = Hand(n) /\ n \notin Names(q)
        BY <1>3, <1>4, <1>5, <2>2
      <3>2. received'[n] = received[n] /\ (n \in lost' <=> n \in lost)
        BY <1>0, <1>2, <1>6, <3>1
      <3> QED  BY <1>1, <2>0, <3>1, <3>2 DEF Once
    <2> QED  BY <2>1, <2>2
  <1>8. lost' \subseteq sent'
    <2>1. \A n \in Names(q) : n \in sent  BY <1>3 DEF KeptInv, Once
    <2> QED  BY <1>1, <1>2, <2>1 DEF KeptInv
  <1> QED  BY <1>4, <1>5, <1>7, <1>8 DEF KeptInv

\* A thread receives what is in the inbox of its user.
LEMMA KeptReceive ==
  ASSUME Types, ThreadInv, KeptInv, NEW f \in ThreadId, Receive(f)
  PROVE  KeptInv'
  <1> DEFINE owner == Owner(ChainOf(f))
             q == inbox[owner]
             old == thread[f]
             t == [old EXCEPT !.pc = "forward", !.posts = q, !.joined = <<>>]
  <1>0. ServiceTypes  BY DEF Types
  <1>1. /\ up /\ old.pc = "receive" /\ Emptied(owner)
        /\ thread' = [thread EXCEPT ![f] = t]
        /\ UNCHANGED <<up, sent, received, lost>>
    BY DEF Receive, Running, ExitChain, historyVars
  <1>2. owner \in Entity  BY <1>0, <1>1, ChainOfThread, ThreadFacts
  <1>3. /\ q \in Seq(Letter) /\ Names(q) \subseteq Name
        /\ \A n : n \in Names(q) <=> owner \in Box(n)
    BY <1>0, <1>2, NamesInBox
  <1>4. t \in Thread /\ t.posts = q
    <2>1. old \in Thread  BY <1>0, ThreadFacts
    <2>2. <<>> \in Seq(Entity)  BY EmptySeq
    <2> QED  BY <1>3, <2>1, <2>2 DEF Thread, ThreadStep, Holding
  <1>5. old.posts = <<>>  BY <1>1 DEF ThreadInv, InOrder
  <1> HIDE DEF owner
  <1>6. (\A n : Box(n)' = Box(n) \ {owner}) /\ BoxesDistinct'
    BY <1>0, <1>1, <1>2, BoxEmptied DEF KeptInv
  <1>7. DistinctNames(q)  BY <1>2 DEF KeptInv, BoxesDistinct
  <1> HIDE DEF t, q
  <1>8. /\ \A n : Hand(n)' = IF n \in Names(q) THEN Hand(n) \cup {f}
                             ELSE Hand(n) \ {f}
        /\ HandsDistinct'
    BY <1>0, <1>1, <1>4, <1>7, HandSet DEF KeptInv
  <1>9. \A n : f \notin Hand(n)  BY <1>5, NamesEmpty DEF Hand
  <1>10. ASSUME NEW n \in Name
         PROVE  Once(n)'
    <2>0. Once(n)  BY DEF KeptInv
    <2>1. CASE owner \in Box(n)
      <3>1. /\ Box(n)' = {} /\ Hand(n)' = {f}
            /\ n \in sent \ lost /\ received[n] = 0
        BY <1>3, <1>6, <1>8, <2>0, <2>1 DEF Once
      <3> QED  BY <1>1, <3>1 DEF Once
    <2>2. CASE owner \notin Box(n)
      <3>1. Box(n)' = Box(n) /\ Hand(n)' = Hand(n)
        BY <1>3, <1>6, <1>8, <1>9, <2>2
      <3> QED  BY <1>1, <2>0, <3>1 DEF Once
    <2> QED  BY <2>1, <2>2
  <1> QED  BY <1>1, <1>6, <1>8, <1>10 DEF KeptInv

\* A thread posts the first of its posts to somebody else, and goes on or not.
LEMMA KeptForward ==
  ASSUME Types, ThreadInv, KeptInv, NEW f \in ThreadId,
         Running(f, "forward"), thread[f].posts # <<>>,
         Post(thread[f].to, Head(thread[f].posts).name, ChainOf(f)),
         thread' = [thread EXCEPT ![f].posts = Tail(@)],
         UNCHANGED <<sent, received>>,
         \/ UNCHANGED <<up, lost>>
         \/ /\ up' = FALSE
            /\ lost' = lost \cup UNION {Names(thread'[g].posts) : g \in ThreadId}
  PROVE  KeptInv'
  <1> DEFINE old == thread[f]
             to == old.to
             name == Head(old.posts).name
             t == [old EXCEPT !.posts = Tail(old.posts)]
  <1>0. ServiceTypes /\ up  BY DEF Types, Running
  <1>1. /\ old \in Thread /\ to \in Entity /\ old.posts \in Seq(Letter)
        /\ DistinctNames(old.posts) /\ ChainOf(f) \in Chain
    BY <1>0, ThreadFacts, ChainOfThread, Assumed
       DEF KeptInv, HandsDistinct, Running
  <1>2. /\ Tail(old.posts) \in Seq(Letter) /\ DistinctNames(Tail(old.posts))
        /\ Names(Tail(old.posts)) = Names(old.posts) \ {name}
        /\ name \in Names(old.posts) /\ name \in Name
    BY <1>1, NamesTail
  <1>3. /\ t \in Thread /\ t.posts = Tail(old.posts)
        /\ thread' = [thread EXCEPT ![f] = t]
    <2>1. thread' = [thread EXCEPT ![f] = t]  OBVIOUS
    <2> QED  BY <1>1, <1>2, <2>1 DEF Thread
  <1>4. f \in Hand(name)  BY <1>0, <1>2 DEF Hand
  <1>5. /\ Once(name) /\ Box(name) = {} /\ Hand(name) = {f}
        /\ name \in sent \ lost /\ received[name] = 0
    BY <1>2, <1>4 DEF KeptInv, Once
  <1> HIDE DEF t
  <1>6. Post(to, name, ChainOf(f))  OBVIOUS
  <1> HIDE DEF to, name
  <1>7. /\ \A n : Box(n)' = IF n = name THEN Box(n) \cup {to} ELSE Box(n)
        /\ BoxesDistinct'
    BY <1>0, <1>1, <1>2, <1>5, <1>6, BoxPost DEF KeptInv
  <1>8. /\ ThreadId' = ThreadId /\ thread'[f] = t
        /\ \A g \in ThreadId \ {f} : thread'[g] = thread[g]
    BY <1>0, <1>3, ThreadSet
  <1>9. \A n, g : g \in ThreadId /\ n \in Names(thread'[g].posts)
                    <=> g \in Hand(n) /\ n # name
    <2>1. ASSUME NEW n, NEW g \in ThreadId
          PROVE  n \in Names(thread'[g].posts) <=> g \in Hand(n) /\ n # name
      <3>1. CASE g = f
        <4>1. n \in Names(thread'[f].posts) <=> n \in Names(old.posts) \ {name}
          BY <1>2, <1>3, <1>8
        <4> QED  BY <1>0, <3>1, <4>1 DEF Hand
      <3>2. CASE g # f
        <4>1. n \in Names(thread'[g].posts) <=> g \in Hand(n)
          BY <1>0, <1>8, <3>2 DEF Hand
        <4>2. n = name => g \notin Hand(n)  BY <1>5, <3>2
        <4> QED  BY <4>1, <4>2
      <3> QED  BY <3>1, <3>2
    <2> QED  BY <2>1 DEF Hand
  <1>10. CASE UNCHANGED <<up, lost>>
    <2>1. \A n : Hand(n)' = IF n = name THEN {} ELSE Hand(n)
      <3>1. ASSUME NEW n
            PROVE  Hand(n)' = IF n = name THEN {} ELSE Hand(n)
        <4>1. Hand(n)' = {g \in ThreadId' : up' /\ n \in Names(thread'[g].posts)}
          BY DEF Hand, Names
        <4>2. \A g : g \in Hand(n)' <=> g \in Hand(n) /\ n # name
          BY <1>0, <1>8, <1>9, <1>10, <4>1
        <4> QED  BY <4>2
      <3> QED  BY <3>1
    <2>2. HandsDistinct'
      BY <1>0, <1>2, <1>3, <1>10, HandSet DEF KeptInv
    <2>3. ASSUME NEW n \in Name
          PROVE  Once(n)'
      <3>1. CASE n = name
        <4>1. Box(n)' = {to} /\ Hand(n)' = {}  BY <1>5, <1>7, <2>1, <3>1
        <4> QED  BY <1>5, <1>10, <3>1, <4>1 DEF Once
      <3>2. CASE n # name
        <4>1. Box(n)' = Box(n) /\ Hand(n)' = Hand(n) /\ Once(n)
          BY <1>7, <2>1, <3>2 DEF KeptInv
        <4> QED  BY <1>10, <4>1 DEF Once
      <3> QED  BY <3>1, <3>2
    <2> QED  BY <1>7, <1>10, <2>2, <2>3 DEF KeptInv
  <1>11. CASE /\ up' = FALSE
              /\ lost' = lost \cup UNION {Names(thread'[g].posts) : g \in ThreadId}
    <2>1. (\A n : Hand(n)' = {}) /\ HandsDistinct'  BY <1>11, HandGone
    <2>2. \A n : n \in lost' <=> n \in lost \/ (Hand(n) # {} /\ n # name)
      <3>1. \A n : n \in lost' <=>
              n \in lost \/ \E g \in ThreadId : n \in Names(thread'[g].posts)
        BY <1>11
      <3> QED  BY <1>9, <3>1
    <2>3. ASSUME NEW n \in Name
          PROVE  Once(n)'
      <3>1. CASE n = name
        <4>1. Box(n)' = {to} /\ Hand(n)' = {} /\ n \notin lost'
          BY <1>5, <1>7, <2>1, <2>2, <3>1
        <4> QED  BY <1>5, <3>1, <4>1 DEF Once
      <3>2. CASE n # name
        <4>1. Box(n)' = Box(n) /\ Hand(n)' = {} /\ Once(n)
              /\ (n \in lost' <=> n \in lost \/ Hand(n) # {})
          BY <1>7, <2>1, <2>2, <3>2 DEF KeptInv
        <4> QED  BY <4>1 DEF Once
      <3> QED  BY <3>1, <3>2
    <2>4. lost' \subseteq sent'
      <3>1. ASSUME NEW n, Hand(n) # {}
            PROVE  n \in sent
        <4>1. n \in Name  BY <1>0, <3>1, NamesInHand DEF Hand
        <4> QED  BY <3>1, <4>1 DEF KeptInv, Once
      <3> QED  BY <2>2, <3>1 DEF KeptInv
    <2> QED  BY <1>7, <2>1, <2>3, <2>4 DEF KeptInv
  <1> QED  BY <1>10, <1>11

\* The process of the forwarder ends: what its threads have is lost, and what
\* the call that failed took from an inbox.
LEMMA KeptExit ==
  ASSUME ServiceTypes, KeptInv, up, NEW held \in SUBSET Name, Exit(held),
         UNCHANGED <<sent, received>>,
         \A n : Box(n)' = IF n \in held THEN {} ELSE Box(n), BoxesDistinct',
         \A n \in held : Box(n) # {}
  PROVE  KeptInv'
  <1>1. (\A n : Hand(n)' = {}) /\ HandsDistinct'  BY HandGone DEF Exit
  <1>2. \A n : n \in lost' <=> n \in lost \/ n \in held \/ Hand(n) # {}
    BY DEF Exit, Hand
  <1>3. ASSUME NEW n \in Name
        PROVE  Once(n)'
    <2>0. Once(n)  BY DEF KeptInv
    <2>1. CASE n \in held
      <3>1. Box(n)' = {} /\ received[n] = 0 /\ n \in lost'
        BY <1>2, <2>0, <2>1 DEF Once
      <3> QED  BY <1>1, <3>1 DEF Once
    <2>2. CASE n \notin held /\ Hand(n) # {}
      <3>1. Box(n)' = {} /\ received[n] = 0 /\ n \in lost'
        BY <1>2, <2>0, <2>2 DEF Once
      <3> QED  BY <1>1, <3>1 DEF Once
    <2>3. CASE n \notin held /\ Hand(n) = {}
      <3>1. Box(n)' = Box(n) /\ Hand(n)' = Hand(n) /\ (n \in lost' <=> n \in lost)
        BY <1>1, <1>2, <2>3
      <3> QED  BY <2>0, <3>1 DEF Once
    <2> QED  BY <2>1, <2>2, <2>3
  <1>4. lost' \subseteq sent'
    <2>1. \A n \in held : n \in sent  BY DEF KeptInv, Once
    <2>2. ASSUME NEW n, Hand(n) # {}
          PROVE  n \in sent
      <3>1. n \in Name  BY <2>2, NamesInHand DEF Hand
      <3> QED  BY <2>2, <3>1 DEF KeptInv, Once
    <2> QED  BY <1>2, <2>1, <2>2 DEF KeptInv
  <1> QED  BY <1>1, <1>3, <1>4 DEF KeptInv

LEMMA KeptReceiveFails ==
  ASSUME Types, ThreadInv, KeptInv, NEW f \in ThreadId, ReceiveFails(f)
  PROVE  KeptInv'
  <1> DEFINE owner == Owner(ChainOf(f))
             q == inbox[owner]
  <1>0. ServiceTypes /\ up /\ UNCHANGED <<sent, received>>
    BY DEF Types, ReceiveFails, Running
  <1>1. CASE UNCHANGED inbox /\ Exit({})
    <2>1. (\A n : Box(n)' = Box(n)) /\ BoxesDistinct'  BY <1>1, BoxSame DEF KeptInv
    <2> QED  BY <1>0, <1>1, <2>1, KeptExit
  <1>2. CASE Emptied(owner) /\ Exit(Names(q))
    <2>1. owner \in Entity
      BY <1>0, ChainOfThread, ThreadFacts DEF ReceiveFails, Running
    <2> HIDE DEF owner
    <2>2. Names(q) \subseteq Name /\ \A n : n \in Names(q) <=> owner \in Box(n)
      BY <1>0, <2>1, NamesInBox
    <2>3. (\A n : Box(n)' = Box(n) \ {owner}) /\ BoxesDistinct'
      BY <1>0, <1>2, <2>1, BoxEmptied DEF KeptInv
    <2> HIDE DEF q
    <2>4. ASSUME NEW n
          PROVE  Box(n)' = IF n \in Names(q) THEN {} ELSE Box(n)
      <3>1. CASE n \in Names(q)
        <4>1. Once(n)  BY <2>2, <3>1 DEF KeptInv
        <4> QED  BY <2>2, <2>3, <3>1, <4>1 DEF Once
      <3>2. CASE n \notin Names(q)  BY <2>2, <2>3, <3>2
      <3> QED  BY <3>1, <3>2
    <2> QED  BY <1>0, <1>2, <2>2, <2>3, <2>4, KeptExit
  <1> QED  BY <1>1, <1>2 DEF ReceiveFails

LEMMA KeptForwardFails ==
  ASSUME Types, ThreadInv, KeptInv, NEW f \in ThreadId, ForwardFails(f)
  PROVE  KeptInv'
  <1>0. ServiceTypes /\ up /\ UNCHANGED <<sent, received>>
    BY DEF Types, ForwardFails, Running
  <1>1. CASE UNCHANGED <<inbox, thread>> /\ Exit({})
    <2>1. (\A n : Box(n)' = Box(n)) /\ BoxesDistinct'  BY <1>1, BoxSame DEF KeptInv
    <2> QED  BY <1>0, <1>1, <2>1, KeptExit
  <1>2. CASE ~(UNCHANGED <<inbox, thread>> /\ Exit({}))
    BY <1>0, <1>2, KeptForward DEF ForwardFails
  <1> QED  BY <1>1, <1>2

\* Steps of the forwarder that change its threads and move no post.
LEMMA KeptThreadSet ==
  ASSUME ServiceTypes, KeptInv, UNCHANGED <<inbox, up, sent, received, lost>>,
         NEW f \in ThreadId, NEW t \in Thread, t.posts = thread[f].posts,
         thread' = [thread EXCEPT ![f] = t]
  PROVE  KeptInv'
  <1>1. /\ ThreadId' = ThreadId
        /\ \A g \in ThreadId : thread'[g].posts = thread[g].posts
    BY ThreadSet
  <1> QED  BY <1>1, KeptSame

LEMMA KeptClient ==
  ASSUME Types, CancelInv, KeptInv, NEW c \in Client,
         \/ setForward(c) \/ CancelThread(c)
  PROVE  KeptInv'
  <1>0. ServiceTypes  BY DEF Types
  <1>1. CASE setForward(c) /\ ~StartsThread(c)
    BY <1>1, KeptThreads DEF setForward, historyVars
  <1>2. CASE setForward(c) /\ StartsThread(c)
    <2>1. PICK to \in ForwardTo : thread' = Append(thread, NewThread(c, to))
      BY <1>2 DEF setForward
    <2>2. NewThread(c, to) \in Thread /\ NewThread(c, to).posts = <<>>
      BY <2>1, Assumed, EmptySeq DEF NewThread, Thread, ThreadStep, Holding
    <2>3. /\ Len(thread') = Len(thread) + 1 /\ Len(thread) \in Nat
          /\ \A f \in 1..Len(thread) : thread'[f] = thread[f]
          /\ thread'[Len(thread) + 1] = NewThread(c, to)
      BY <1>0, <2>1, <2>2, AppendProperties, LenProperties DEF ServiceTypes
    <2>4. 1..Len(thread') = 1..Len(thread) \cup {Len(thread) + 1}  BY <2>3
    <2>5. UNCHANGED <<inbox, up, sent, received, lost>>
      BY <1>2 DEF setForward, historyVars
    <2>6. /\ \A f \in ThreadId :
               f \in ThreadId' /\ thread'[f].posts = thread[f].posts
          /\ \A f \in ThreadId' : f \in ThreadId \/ thread'[f].posts = <<>>
      BY <2>2, <2>3, <2>4 DEF ThreadId
    <2> QED  BY <1>0, <2>5, <2>6, KeptSame
  <1>3. CASE CancelThread(c)
    <2> DEFINE f == local[c][1]
               t == [thread[f] EXCEPT !.canceled = TRUE]
    <2>1. f \in ThreadId  BY <1>3 DEF CancelInv, CancelThread, At, Canceled
    <2>2. /\ thread' = [thread EXCEPT ![f] = t]
          /\ UNCHANGED <<inbox, up, sent, received, lost>>
      BY <1>3 DEF CancelThread, historyVars
    <2>3. t \in Thread /\ t.posts = thread[f].posts
      BY <1>0, <2>1, ThreadFacts DEF Thread
    <2> HIDE DEF f, t
    <2> QED  BY <1>0, <2>1, <2>2, <2>3, KeptThreadSet
  <1> QED  BY <1>1, <1>2, <1>3

LEMMA KeptRun ==
  ASSUME Types, ThreadInv, KeptInv, NEW f \in ThreadId, Run(f)
  PROVE  KeptInv'
  <1> DEFINE old == thread[f]
  <1>0. ServiceTypes /\ old \in Thread /\ old.of \in Entity
    BY ThreadFacts DEF Types
  <1>1. CASE Start(f)
    <2> DEFINE t == [old EXCEPT !.pc = IF old.canceled THEN "ended" ELSE "wait"]
    <2>1. /\ thread' = [thread EXCEPT ![f] = t]
          /\ UNCHANGED <<inbox, up, sent, received, lost>>
      BY <1>1 DEF Start, historyVars
    <2>2. t \in Thread /\ t.posts = old.posts  BY <1>0 DEF Thread, ThreadStep
    <2> HIDE DEF t
    <2> QED  BY <1>0, <2>1, <2>2, KeptThreadSet
  <1>2. CASE Wake(f)
    <2> DEFINE t == IF old.canceled THEN [old EXCEPT !.pc = "ended"]
                    ELSE [old EXCEPT !.pc = "receive", !.joined = <<old.of>>]
    <2>1. /\ thread' = [thread EXCEPT ![f] = t]
          /\ UNCHANGED <<inbox, up, sent, received, lost>>
      BY <1>2 DEF Wake, JoinChain, historyVars
    <2>2. <<old.of>> \in Seq(Entity)  BY <1>0
    <2>3. t \in Thread /\ t.posts = old.posts
      BY <1>0, <2>2 DEF Thread, ThreadStep, Holding
    <2> HIDE DEF t
    <2> QED  BY <1>0, <2>1, <2>3, KeptThreadSet
  <1>3. CASE Receive(f)  BY <1>3, KeptReceive
  <1>4. CASE Forward(f) /\ old.posts = <<>>
    <2> DEFINE t == [old EXCEPT !.pc = "wait"]
    <2>1. /\ thread' = [thread EXCEPT ![f] = t]
          /\ UNCHANGED <<inbox, up, sent, received, lost>>
      BY <1>4 DEF Forward, historyVars
    <2>2. t \in Thread /\ t.posts = old.posts  BY <1>0 DEF Thread, ThreadStep
    <2> HIDE DEF t
    <2> QED  BY <1>0, <2>1, <2>2, KeptThreadSet
  <1>5. CASE Forward(f) /\ old.posts # <<>>
    BY <1>5, KeptForward DEF Forward, historyVars
  <1> QED  BY <1>1, <1>2, <1>3, <1>4, <1>5 DEF Run

LEMMA KeptNext ==
  ASSUME Types, NumberInv, ThreadInv, CancelInv, PostInv, KeptInv, [Next]_vars
  PROVE  KeptInv'
  <1>1. ASSUME NEW c \in Client, PostToNext(c)
        PROVE  KeptInv'
    BY <1>1, KeptBroadcast DEF PostToNext, forwarderVars
  <1>2. ASSUME NEW c \in Client, PostFails(c)
        PROVE  KeptInv'
    <2>1. CASE Broadcast(c)
      BY <1>2, <2>1, KeptBroadcast DEF PostFails, forwarderVars
    <2>2. CASE UNCHANGED <<inbox, sent>>
      BY <1>2, <2>2, KeptThreads DEF PostFails, forwarderVars
    <2> QED  BY <1>2, <2>1, <2>2 DEF PostFails
  <1>3. ASSUME NEW c \in Client, receivePosts(c)
        PROVE  KeptInv'
    BY <1>3, KeptReceivePosts
  <1>4. ASSUME NEW c \in Client, setForward(c) \/ CancelThread(c)
        PROVE  KeptInv'
    BY <1>4, KeptClient
  <1>5. ASSUME NEW f \in ThreadId, Run(f) \/ ReceiveFails(f) \/ ForwardFails(f)
        PROVE  KeptInv'
    BY <1>5, KeptRun, KeptReceiveFails, KeptForwardFails
  <1>6. ASSUME NEW c \in Client,
               \/ Call(c) \/ BeginPost(c) \/ EndPost(c) \/ subscribe(c)
               \/ unsubscribe(c) \/ BeginCancel(c) \/ EraseThread(c)
               \/ ForwarderGone(c)
        PROVE  KeptInv'
    <2>1. UNCHANGED <<inbox, up, thread, sent, received, lost>>
      BY <1>6 DEF Call, BeginPost, EndPost, subscribe, unsubscribe, BeginCancel,
                  EraseThread, ForwarderGone, forwarderVars, historyVars
    <2> QED  BY <2>1, KeptThreads
  <1>7. CASE UNCHANGED vars
    BY <1>7, KeptThreads DEF vars, forwarderVars, historyVars
  <1> QED
    BY <1>1, <1>2, <1>3, <1>4, <1>5, <1>6, <1>7 DEF Next, Dispatch
-----------------------------------------------------------------------------
\* Nothing has been called, no thread is there and no post.
LEMMA InitHolds == Init => IInv
  <1> SUFFICES ASSUME Init PROVE IInv
    OBVIOUS
  <1>1. /\ subscribers \in Seq(Entity) /\ Len(subscribers) = 0
        /\ thread \in Seq(Thread) /\ Len(thread) = 0
        /\ posted \in Seq(PostCall) /\ Len(posted) = 0 /\ DOMAIN posted = {}
        /\ 1..0 = {}
    BY EmptySeq DEF Init
  <1>2. ThreadId = {}  BY <1>1 DEF ThreadId
  <1>3. <<>> \in Seq(Letter) /\ Names(<<>>) = {} /\ DistinctNames(<<>>)
    BY NamesEmpty
  <1>4. ServiceTypes  BY <1>1, <1>3 DEF Init, ServiceTypes
  <1>5. ClientTypes  BY Assumed DEF Init, ClientTypes, Step
  <1>6. HistoryTypes  BY <1>1 DEF Init, HistoryTypes
  <1>7. NumberInv
    <2>1. {c \in Client : pc[c] = "post"} = {}  BY DEF Init
    <2>2. Pending("post") = 0  BY <2>1, FS_EmptySet DEF Pending
    <2> QED  BY <1>1, <2>2, Assumed DEF NumberInv
  <1>8. ThreadInv /\ CancelInv
    BY <1>2 DEF Init, ThreadInv, CancelInv, Canceled, ThreadsCanBeCanceled
  <1>9. PostInv
    BY <1>1, Assumed DEF Init, PostInv, Distinct, SubscribersReached
  <1>10. KeptInv
    <2>1. \A n : Box(n) = {} /\ Hand(n) = {}
      BY <1>2, <1>3 DEF Init, Box, Hand
    <2>2. BoxesDistinct /\ HandsDistinct
      BY <1>2, <1>3 DEF Init, BoxesDistinct, HandsDistinct
    <2>3. \A n \in Name : Once(n)  BY <2>1 DEF Init, Once
    <2> QED  BY <2>2, <2>3 DEF Init, KeptInv
  <1> QED  BY <1>4, <1>5, <1>6, <1>7, <1>8, <1>9, <1>10 DEF IInv, Types

LEMMA NextHolds == IInv /\ [Next]_vars => IInv'
  <1> SUFFICES ASSUME IInv, [Next]_vars PROVE IInv'
    OBVIOUS
  <1> USE DEF IInv
  <1>1. ServiceTypes /\ ClientTypes  BY DEF Types
  <1>2. Types'
    <2>1. ServiceTypes'  BY ServiceNext
    <2>2. ClientTypes'  BY <1>1, ClientNext
    <2>3. HistoryTypes'  BY HistoryNext
    <2> QED  BY <2>1, <2>2, <2>3 DEF Types
  <1>3. NumberInv'  BY NumberNext
  <1>4. ThreadInv'  BY ThreadNext
  <1>5. CancelInv'  BY CancelNext
  <1>6. PostInv'  BY PostNext
  <1>7. KeptInv'  BY KeptNext
  <1> QED  BY <1>2, <1>3, <1>4, <1>5, <1>6, <1>7

\* In every state the services are in order: who is subscribed, who is between
\* the sections of cancelForward, and where each post is.
THEOREM ServicesInOrder == Spec => []IInv
  <1>1. Init => IInv  BY InitHolds
  <1>2. IInv /\ [Next]_vars => IInv'  BY NextHolds
  <1> QED  BY <1>1, <1>2, PTL DEF Spec

\* The variables of the services keep their types: a post has come in the chain
\* of a caller of the broadcaster or from the forwarder, a thread is in no chain
\* or in that of its user, and only one that forwards has posts.
THEOREM TypeCorrect == Spec => []TypeOK
  <1>1. IInv => TypeOK
    <2> SUFFICES ASSUME IInv PROVE TypeOK
      OBVIOUS
    <2>1. ServiceTypes /\ ClientTypes /\ HistoryTypes /\ lost \subseteq sent
      BY DEF IInv, Types, KeptInv
    <2>2. ASSUME NEW f \in ThreadId
          PROVE  /\ thread[f].of \in Entity /\ thread[f].to \in ForwardTo
                 /\ thread[f].canceled \in BOOLEAN
                 /\ thread[f].pc \in {"start", "wait", "ended"} \cup Holding
                 /\ thread[f].joined \in {<<>>, <<thread[f].of>>}
                 /\ thread[f].posts # <<>> => thread[f].pc = "forward"
      BY <2>1, ThreadFacts DEF ThreadStep, IInv, ThreadInv, InOrder
    <2> QED  BY <2>1, <2>2 DEF TypeOK, ServiceTypes, ClientTypes, HistoryTypes
  <1> QED  BY <1>1, ServicesInOrder, PTL

\* The sequences of q that have a name, and the places it has in them.
Having(q, n) == {e \in DOMAIN q : n \in Names(q[e])}
Places(q, n) ==
  {x \in UNION {{e} \X DOMAIN q[e] : e \in DOMAIN q} : q[x[1]][x[2]].name = n}

LEMMA OnePlace ==
  ASSUME NEW q, \A e \in DOMAIN q : q[e] \in Seq(Letter) /\ DistinctNames(q[e]),
         NEW n, \A d, e \in Having(q, n) : d = e
  PROVE  Cardinality(Places(q, n)) = IF Having(q, n) = {} THEN 0 ELSE 1
  <1> DEFINE S == Having(q, n)
             W == Places(q, n)
  <1>0. \A e : e \in S <=> e \in DOMAIN q /\ n \in Names(q[e])  BY DEF Having
  <1>1. ASSUME NEW x
        PROVE  x \in W <=> \E e \in DOMAIN q : \E i \in DOMAIN q[e] :
                             x = <<e, i>> /\ q[e][i].name = n
    BY DEF Places
  <1> HIDE DEF S, W
  <1>2. CASE S = {}
    <2>1. W = {}  BY <1>0, <1>1, <1>2, NamesOf
    <2> QED  BY <1>2, <2>1, FS_EmptySet DEF S, W
  <1>3. CASE S # {}
    <2>1. PICK e \in S : TRUE  BY <1>3
    <2>2. e \in DOMAIN q /\ DOMAIN q[e] = 1..Len(q[e]) /\ n \in Names(q[e])
      BY <1>0, <2>1, NamesOf
    <2>3. PICK i \in 1..Len(q[e]) : q[e][i].name = n  BY <2>2, NamesOf
    <2>4. <<e, i>> \in W  BY <1>1, <2>2, <2>3
    <2>5. ASSUME NEW x \in W
          PROVE  x = <<e, i>>
      <3>1. PICK d \in DOMAIN q : \E j \in DOMAIN q[d] :
                   x = <<d, j>> /\ q[d][j].name = n
        BY <1>1
      <3>2. PICK j \in DOMAIN q[d] : x = <<d, j>> /\ q[d][j].name = n  BY <3>1
      <3>3. d = e
        <4>1. n \in Names(q[d])  BY <3>2, NamesOf
        <4> QED  BY <1>0, <4>1 DEF S
      <3> QED  BY <2>2, <2>3, <3>2, <3>3 DEF DistinctNames
    <2>6. W = {<<e, i>>}  BY <2>4, <2>5
    <2> QED  BY <1>3, <2>6, FS_Singleton DEF S, W
  <1> QED  BY <1>2, <1>3

\* Messenger, threads and clients have together one copy of each post that was
\* taken, and of one that was with a call or a process that failed none:
\* receivePosts empties what it returns, and run posts what it has received.
THEOREM PostsKeptHolds == Spec => []PostsKept
  <1>1. IInv => PostsKept
    <2> SUFFICES ASSUME IInv, NEW name \in Name
                 PROVE  received[name] + Cardinality(InInboxes(name))
                          + Cardinality(InHands(name))
                          = IF name \in sent \ lost THEN 1 ELSE 0
      BY DEF PostsKept
    <2>1. ServiceTypes /\ Once(name) /\ BoxesDistinct /\ HandsDistinct
      BY DEF IInv, Types, KeptInv
    <2>2. Cardinality(InInboxes(name)) = IF Box(name) = {} THEN 0 ELSE 1
      <3>1. /\ DOMAIN inbox = Entity
            /\ \A e \in Entity :
                 inbox[e] \in Seq(Letter) /\ DistinctNames(inbox[e])
        BY <2>1 DEF ServiceTypes, BoxesDistinct
      <3>2. /\ Box(name) = Having(inbox, name)
            /\ InInboxes(name) = Places(inbox, name)
        BY <3>1 DEF Box, Having, InInboxes, Places
      <3>3. \A d, e \in Having(inbox, name) : d = e  BY <2>1, <3>2 DEF Once
      <3> QED  BY <3>1, <3>2, <3>3, OnePlace
    <2>3. Cardinality(InHands(name)) = IF Hand(name) = {} THEN 0 ELSE 1
      <3> DEFINE q == [f \in ThreadId |-> thread[f].posts]
      <3>1. CASE up
        <4>1. \A f \in DOMAIN q : q[f] \in Seq(Letter) /\ DistinctNames(q[f])
          BY <2>1, <3>1, ThreadFacts DEF HandsDistinct
        <4>2. Hand(name) = Having(q, name)  BY <3>1 DEF Hand, Having
        <4>3. InHands(name) = Places(q, name)
          <5>1. \A x : x \in InHands(name) <=>
                  \E f \in ThreadId : \E i \in DOMAIN q[f] :
                    x = <<f, i>> /\ q[f][i].name = name
            BY <3>1 DEF InHands
          <5>2. \A x : x \in Places(q, name) <=>
                  \E f \in ThreadId : \E i \in DOMAIN q[f] :
                    x = <<f, i>> /\ q[f][i].name = name
            BY DEF Places
          <5> QED  BY <5>1, <5>2
        <4>4. \A f, g \in Having(q, name) : f = g  BY <2>1, <4>2 DEF Once
        <4> HIDE DEF q
        <4> QED  BY <4>1, <4>2, <4>3, <4>4, OnePlace
      <3>2. CASE ~up
        <4>1. InHands(name) = {} /\ Hand(name) = {}  BY <3>2 DEF InHands, Hand
        <4> QED  BY <4>1, FS_EmptySet
      <3> QED  BY <3>1, <3>2
    <2> QED  BY <2>1, <2>2, <2>3 DEF Once
  <1> QED  BY <1>1, ServicesInOrder, PTL

\* A call of post that has returned has reached who was subscribed when it took
\* the mutex, and nobody else: the mutex is held until it returns.
THEOREM SubscribersReachedHolds == Spec => []SubscribersReached
  <1>1. IInv => SubscribersReached  BY DEF IInv, PostInv
  <1> QED  BY <1>1, ServicesInOrder, PTL

\* A thread that goes on is the one cancelForward finds, unless two calls of it
\* overlapped, and a canceled thread is not between receiving and forwarding.
THEOREM ThreadsInHandHolds == Spec => []ThreadsInHand
  <1>1. IInv => ThreadsInHand
    BY DEF IInv, CancelInv, ThreadInv, InOrder, ThreadsInHand, CanceledIsQuiet
  <1> QED  BY <1>1, ServicesInOrder, PTL
=============================================================================
