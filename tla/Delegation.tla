----------------------------- MODULE Delegation -----------------------------
(***************************************************************************)
(* The services of interop/delegation: a messenger keeps posts in inboxes, *)
(* a broadcaster posts to its subscribers in the chain of its caller, and a*)
(* forwarder has a thread for each user that takes the posts of the user,  *)
(* in the chain of the call that set the forward, and posts them to        *)
(* somebody else.                                                          *)
(*                                                                         *)
(* Clients are programs that call one operation after the other under the  *)
(* entity they log in with; two may use the same one.  The ORB lends each  *)
(* request a thread: the locks of broadcaster and forwarder are real.  The *)
(* servants of the messenger have no lock; they run one at a time.  A      *)
(* remote call that fails, executed or not, is bounded by MaxFaults.       *)
(***************************************************************************)
EXTENDS Naturals, FiniteSets, SequencesExt

CONSTANTS Client,     \* programs that use the services
          Entity,
          entity,     \* what each client logs in as
          forwarder, broadcaster,  \* the entities of the two services
          ForwardTo,  \* entities that posts are forwarded to
          NoClient,
          operations, \* what each client calls
          MaxCalls,   \* bounds the calls of each client, for each
          MaxPosts,   \* bounds the calls of post
          MaxThreads, \* bounds the calls of setForward that start a thread
          MaxFaults   \* bounds the remote calls that fail

Operation == {"post", "subscribe", "unsubscribe", "receive", "set", "cancel"}

ASSUME DelegationAssumption ==
  /\ entity \in [Client -> Entity]
  /\ ForwardTo \subseteq Entity
  /\ {forwarder, broadcaster} \cap Entity = {} /\ forwarder # broadcaster
  /\ NoClient \notin Client /\ IsFiniteSet(Client)
  /\ operations \in [Client -> SUBSET Operation]
  /\ MaxCalls \in [Client -> Nat]
  /\ MaxPosts \in Nat /\ MaxThreads \in Nat /\ MaxFaults \in Nat

VARIABLES
  inbox,        \* Messenger: the posts to each entity
  subscribers,  \* Broadcaster: in the order of their subscriptions
  mutex,        \* Broadcaster: the client whose dispatch holds it
  threads,      \* Forwarder: the thread of each entity
  thread,       \* Forwarder: every forwarding_thread that was made
  up,           \* whether the forwarder is up
  pc,           \* where the call of each client is
  local,        \* of a dispatch: subscribers left, or the thread to cancel
  done,         \* calls each client has made
  faults,
  posted,       \* history: calls of post: subscribers, whether it returned
  sent,         \* history: posts that the messenger took from the broadcaster
  received,     \* history: how often each post reached a client
  lost,         \* history: posts that were with a call or a process that failed
  raced         \* history: entities with two calls of cancelForward at once

forwarderVars == <<threads, thread, up>>
clientVars == <<pc, local, done>>
historyVars == <<posted, sent, received, lost, raced>>
vars == <<inbox, subscribers, mutex, forwarderVars, clientVars, faults,
          historyVars>>

None == 0
Name == (1..MaxPosts) \X Entity
ThreadId == 1..Len(thread)

\* Steps of a thread between timed_waits, in which it holds its mutex.
Holding == {"receive", "forward"}

Init ==
  /\ inbox = [e \in Entity |-> <<>>]
  /\ subscribers = <<>>
  /\ mutex = NoClient
  /\ threads = [e \in Entity |-> None]
  /\ thread = <<>>
  /\ up = TRUE
  /\ pc = [c \in Client |-> "idle"]
  /\ local = [c \in Client |-> <<>>]
  /\ done = [c \in Client |-> 0]
  /\ faults = 0
  /\ posted = <<>>
  /\ sent = {} /\ received = [n \in Name |-> 0] /\ lost = {} /\ raced = {}
-----------------------------------------------------------------------------
At(c, step) == pc[c] = step
Goto(c, step) == pc' = [pc EXCEPT ![c] = step]
Return(c) == Goto(c, "idle") /\ local' = [local EXCEPT ![c] = <<>>]

Pending(operation) == Cardinality({c \in Client : pc[c] = operation})

\* A client that has logged in calls an operation.
Call(c) ==
  /\ At(c, "idle")
  /\ done[c] < MaxCalls[c]
  /\ \E operation \in operations[c] :
       /\ operation = "post" => Len(posted) + Pending("post") < MaxPosts
       /\ operation = "set" => Len(thread) + Pending("set") < MaxThreads
       /\ Goto(c, operation)
  /\ done' = [done EXCEPT ![c] = @ + 1]
  /\ UNCHANGED <<inbox, subscribers, mutex, forwarderVars, local, faults,
                 historyVars>>

Fault == faults < MaxFaults /\ faults' = faults + 1

\* The posts of a sequence, without the chains they came in.
Copies(posts, name) == Cardinality({i \in DOMAIN posts : posts[i].name = name})
Names(posts) == {posts[i].name : i \in DOMAIN posts}
-----------------------------------------------------------------------------
(* Messenger.                                                                *)

\* post in a chain: what is kept says who is in it.
Post(to, name, chain) ==
  inbox' = [inbox EXCEPT ![to] = Append(@, [name |-> name, from |-> chain])]

\* Mutant of Emptied: the range is not erased.
NotEmptied(e) == UNCHANGED inbox
Emptied(e) == inbox' = [inbox EXCEPT ![e] = <<>>]

\* receivePosts in a chain: those of the first originator, or the caller.
Owner(chain) == Head(chain)

receivePosts(c) ==
  /\ At(c, "receive")
  /\ LET owner == Owner(<<entity[c]>>) IN
     /\ Emptied(owner)
     /\ \/ /\ received' = [n \in Name |-> received[n] + Copies(inbox[owner], n)]
           /\ UNCHANGED <<faults, lost>>
        \/ Fault /\ lost' = lost \cup Names(inbox[owner]) /\ UNCHANGED received
  /\ Return(c)
  /\ UNCHANGED <<subscribers, mutex, forwarderVars, done, posted, sent, raced>>
-----------------------------------------------------------------------------
(* Broadcaster.                                                              *)

\* Mutant of LockForPost: the lock is not taken.
NoLockForPost(c) == UNCHANGED mutex
LockForPost(c) == mutex = NoClient /\ mutex' = c

\* post takes the mutex and begins with its subscribers.
BeginPost(c) ==
  /\ At(c, "post")
  /\ LockForPost(c)
  /\ posted' = Append(posted, [to |-> ToSet(subscribers), over |-> FALSE])
  /\ local' = [local EXCEPT ![c] = <<Len(posted) + 1, 1>>]
  /\ Goto(c, "posting")
  /\ UNCHANGED <<inbox, subscribers, forwarderVars, done, faults, sent, received,
                 lost, raced>>

Number(c) == local[c][1]
Turn(c) == local[c][2]

\* The chain that joinChain makes of the caller's, with the broadcaster in it.
Broadcast(c) ==
  LET to == subscribers[Turn(c)]
      name == <<Number(c), to>> IN
  Post(to, name, <<entity[c], broadcaster>>) /\ sent' = sent \cup {name}

\* The messenger takes the post to the next subscriber.
PostToNext(c) ==
  /\ At(c, "posting") /\ Turn(c) <= Len(subscribers)
  /\ Broadcast(c)
  /\ local' = [local EXCEPT ![c][2] = @ + 1]
  /\ UNCHANGED <<subscribers, mutex, forwarderVars, pc, done, faults, posted,
                 received, lost, raced>>

EndPost(c) ==
  /\ At(c, "posting") /\ Turn(c) > Len(subscribers)
  /\ mutex' = NoClient
  /\ posted' = [posted EXCEPT ![Number(c)].over = TRUE]
  /\ Return(c)
  /\ UNCHANGED <<inbox, subscribers, forwarderVars, done, faults, sent, received,
                 lost, raced>>

\* Mutant of Unlock: an exception leaves the mutex locked.
StayLocked == UNCHANGED mutex
Unlock == mutex' = NoClient

\* The exception of a call to the messenger leaves post, and the lock with it.
PostFails(c) ==
  /\ At(c, "posting") /\ Turn(c) <= Len(subscribers)
  /\ Fault
  /\ Broadcast(c) \/ UNCHANGED <<inbox, sent>>
  /\ Unlock
  /\ Return(c)
  /\ UNCHANGED <<subscribers, forwarderVars, done, posted, received, lost, raced>>

subscribe(c) ==
  /\ At(c, "subscribe")
  /\ mutex = NoClient
  /\ subscribers' = IF entity[c] \in ToSet(subscribers) THEN subscribers
                    ELSE Append(subscribers, entity[c])
  /\ Return(c)
  /\ UNCHANGED <<inbox, mutex, forwarderVars, done, faults, historyVars>>

unsubscribe(c) ==
  /\ At(c, "unsubscribe")
  /\ mutex = NoClient
  /\ subscribers' = RemoveFirst(subscribers, entity[c])
  /\ Return(c)
  /\ UNCHANGED <<inbox, mutex, forwarderVars, done, faults, historyVars>>
-----------------------------------------------------------------------------
(* Forwarder.  Its mutex is never held while a dispatch waits: each section  *)
(* under it is one step.                                                     *)
NewThread(c, to) ==
  [of |-> entity[c], to |-> to, canceled |-> FALSE, pc |-> "start", posts |-> <<>>,
   joined |-> <<>>]

StartsThread(c) == threads[entity[c]] = None

\* setForward: a thread for the entity, unless it has one.
setForward(c) ==
  /\ At(c, "set") /\ up
  /\ IF StartsThread(c)
     THEN /\ \E to \in ForwardTo : thread' = Append(thread, NewThread(c, to))
          /\ threads' = [threads EXCEPT ![entity[c]] = Len(thread) + 1]
     ELSE UNCHANGED <<threads, thread>>
  /\ Return(c)
  /\ UNCHANGED <<inbox, subscribers, mutex, up, done, faults, historyVars>>

Canceling(e) == {c \in Client : entity[c] = e /\ pc[c] \in {"cancel_thread", "erase"}}

\* cancelForward finds the thread and releases the mutex.
BeginCancel(c) ==
  /\ At(c, "cancel") /\ up
  /\ IF threads[entity[c]] = None THEN Return(c) /\ UNCHANGED raced
     ELSE /\ local' = [local EXCEPT ![c] = <<threads[entity[c]]>>]
          /\ Goto(c, "cancel_thread")
          /\ raced' = IF Canceling(entity[c]) = {} THEN raced
                      ELSE raced \cup {entity[c]}
  /\ UNCHANGED <<inbox, subscribers, mutex, forwarderVars, done, faults, posted,
                 sent, received, lost>>

\* Mutant of Free: the mutex of the thread is not taken.
AlwaysFree(f) == TRUE
Free(f) == thread[f].pc \notin Holding

\* Under the mutex of the thread: canceled, and notify_one.
CancelThread(c) ==
  /\ At(c, "cancel_thread") /\ up
  /\ LET f == local[c][1] IN
     Free(f) /\ thread' = [thread EXCEPT ![f].canceled = TRUE]
  /\ Goto(c, "erase")
  /\ UNCHANGED <<inbox, subscribers, mutex, threads, up, local, done, faults,
                 historyVars>>

\* The mutex is taken again, the entity looked up again, and erased.
EraseThread(c) ==
  /\ At(c, "erase") /\ up
  /\ threads' = [threads EXCEPT ![entity[c]] = None]
  /\ Return(c)
  /\ UNCHANGED <<inbox, subscribers, mutex, thread, up, done, faults, historyVars>>

\* The process of the forwarder is gone: an exception for whoever calls it.
ForwarderGone(c) ==
  /\ ~up /\ pc[c] \in {"set", "cancel", "cancel_thread", "erase"}
  /\ Return(c)
  /\ UNCHANGED <<inbox, subscribers, mutex, forwarderVars, done, faults,
                 historyVars>>
-----------------------------------------------------------------------------
(* forwarding_thread::run                                                    *)
Running(f, step) == up /\ thread[f].pc = step

\* run has the mutex of the thread: it waits, or is canceled already.
Start(f) ==
  /\ Running(f, "start")
  /\ thread' = [thread EXCEPT ![f].pc = IF thread[f].canceled THEN "ended" ELSE "wait"]
  /\ UNCHANGED <<inbox, subscribers, mutex, threads, up, clientVars, faults,
                 historyVars>>

JoinChain(t) == [t EXCEPT !.pc = "receive", !.joined = <<t.of>>]

\* Mutant of Wake: canceled is not looked at again.
WakeAnyway(f) ==
  /\ Running(f, "wait")
  /\ thread' = [thread EXCEPT ![f] = JoinChain(@)]
  /\ UNCHANGED <<inbox, subscribers, mutex, threads, up, clientVars, faults,
                 historyVars>>

\* timed_wait ends by its time or by notify_one; the thread has its mutex again
\* and joins the chain of the call that set the forward.
Wake(f) ==
  /\ Running(f, "wait")
  /\ thread' = [thread EXCEPT ![f] = IF @.canceled THEN [@ EXCEPT !.pc = "ended"]
                                     ELSE JoinChain(@)]
  /\ UNCHANGED <<inbox, subscribers, mutex, threads, up, clientVars, faults,
                 historyVars>>

\* Mutant of ExitChain: the chain stays joined.
StayInChain(t) == t
ExitChain(t) == [t EXCEPT !.joined = <<>>]

\* The chain of a request of a thread, as the messenger sees it.
ChainOf(f) == Append(thread[f].joined, forwarder)

\* receivePosts in the name of the user, and exitChain.
Receive(f) ==
  /\ Running(f, "receive")
  /\ LET owner == Owner(ChainOf(f)) IN
     /\ Emptied(owner)
     /\ thread' = [thread EXCEPT ![f] =
          ExitChain([@ EXCEPT !.pc = "forward", !.posts = inbox[owner]])]
  /\ UNCHANGED <<subscribers, mutex, threads, up, clientVars, faults, historyVars>>

\* Each post goes to the entity that was set; after the last the thread waits.
Forward(f) ==
  /\ Running(f, "forward")
  /\ IF thread[f].posts = <<>>
     THEN thread' = [thread EXCEPT ![f].pc = "wait"] /\ UNCHANGED inbox
     ELSE /\ Post(thread[f].to, Head(thread[f].posts).name, ChainOf(f))
          /\ thread' = [thread EXCEPT ![f].posts = Tail(@)]
  /\ UNCHANGED <<subscribers, mutex, threads, up, clientVars, faults, historyVars>>

\* std::exit, or std::terminate for any other exception: the posts that any
\* thread has in its hands are gone.
Exit(held) ==
  /\ up' = FALSE
  /\ lost' = lost \cup held
               \cup UNION {Names(thread[f].posts) : f \in ThreadId}

ReceiveFails(f) ==
  /\ Running(f, "receive")
  /\ Fault
  /\ LET owner == Owner(ChainOf(f)) IN
     \/ UNCHANGED inbox /\ Exit({})
     \/ Emptied(owner) /\ Exit(Names(inbox[owner]))
  /\ UNCHANGED <<subscribers, mutex, threads, thread, clientVars, posted, sent,
                 received, raced>>

\* An answer that is lost: the post has been made.
ForwardFails(f) ==
  /\ Running(f, "forward") /\ thread[f].posts # <<>>
  /\ Fault
  /\ \/ UNCHANGED <<inbox, thread>> /\ Exit({})
     \/ /\ Post(thread[f].to, Head(thread[f].posts).name, ChainOf(f))
        /\ thread' = [thread EXCEPT ![f].posts = Tail(@)]
        /\ up' = FALSE
        /\ lost' = lost \cup UNION {Names(thread'[g].posts) : g \in ThreadId}
  /\ UNCHANGED <<subscribers, mutex, threads, clientVars, posted, sent, received,
                 raced>>
-----------------------------------------------------------------------------
Dispatch(c) ==
  \/ receivePosts(c) \/ BeginPost(c) \/ PostToNext(c) \/ EndPost(c)
  \/ subscribe(c) \/ unsubscribe(c) \/ setForward(c)
  \/ BeginCancel(c) \/ CancelThread(c) \/ EraseThread(c) \/ ForwarderGone(c)
Run(f) == Start(f) \/ Wake(f) \/ Receive(f) \/ Forward(f)

Next ==
  \/ \E c \in Client : Call(c) \/ Dispatch(c) \/ PostFails(c)
  \/ \E f \in 1..MaxThreads :
       f \in ThreadId /\ (Run(f) \/ ReceiveFails(f) \/ ForwardFails(f))

Spec == Init /\ [][Next]_vars

\* Every thread is scheduled and remote calls end.  A thread that forwards takes
\* its mutex again and again; cancelForward gets it in the end.
Fairness ==
  /\ \A c \in Client : WF_vars(Dispatch(c)) /\ SF_vars(CancelThread(c))
  /\ \A f \in 1..MaxThreads : WF_vars(f \in ThreadId /\ Run(f))
FairSpec == Spec /\ Fairness
-----------------------------------------------------------------------------
Chain == {<<e, broadcaster>> : e \in Entity} \cup {<<forwarder>>}
Letter == [name : Name, from : Chain]
Step == Operation \cup {"idle", "posting", "cancel_thread", "erase"}

\* The types of the variables.  A post came in the chain of a caller of the
\* broadcaster, or from the forwarder in no chain: the checks of client.cpp:130
\* and 141.
TypeOK ==
  /\ inbox \in [Entity -> Seq(Letter)]
  /\ subscribers \in Seq(Entity)
  /\ mutex \in Client \cup {NoClient}
  /\ threads \in [Entity -> {None} \cup ThreadId]
  /\ \A f \in ThreadId :
       /\ thread[f].of \in Entity /\ thread[f].to \in ForwardTo
       /\ thread[f].canceled \in BOOLEAN
       /\ thread[f].pc \in {"start", "wait", "ended"} \cup Holding
       /\ thread[f].joined \in {<<>>, <<thread[f].of>>}
       /\ thread[f].posts # <<>> => thread[f].pc = "forward"
  /\ up \in BOOLEAN
  /\ pc \in [Client -> Step] /\ \A c \in Client : done[c] \in 0..MaxCalls[c]
  /\ faults \in 0..MaxFaults
  /\ sent \subseteq Name /\ lost \subseteq sent

\* Where the copies of a post are, in the messenger and in the forwarder.
InInboxes(name) ==
  {x \in UNION {{e} \X DOMAIN inbox[e] : e \in Entity} :
     inbox[x[1]][x[2]].name = name}
InHands(name) ==
  {x \in UNION {{f} \X DOMAIN thread[f].posts : f \in ThreadId} :
     up /\ thread[x[1]].posts[x[2]].name = name}

\* The messenger, the forwarder's threads and the clients have together one copy
\* of each post that was taken, and none only of one that was with a call or a
\* process that failed: receivePosts empties what it returns, and run posts what
\* it has received.
PostsKept ==
  \A name \in Name :
    received[name] + Cardinality(InInboxes(name)) + Cardinality(InHands(name))
      = IF name \in sent \ lost THEN 1 ELSE 0

\* A call of post that has returned has reached who was subscribed when it took
\* the mutex, and nobody else, whoever subscribed or unsubscribed meanwhile.
SubscribersReached ==
  \A n \in DOMAIN posted :
    posted[n].over => {e \in Entity : <<n, e>> \in sent} = posted[n].to

\* A thread that goes on forwarding is the one cancelForward finds, unless two
\* calls of it overlapped: the second of them erases whatever thread it finds.
ThreadsCanBeCanceled ==
  \A f \in ThreadId :
    LET t == thread[f] IN
    up /\ t.pc # "ended" /\ ~t.canceled /\ t.of \notin raced =>
      threads[t.of] = f

\* When cancelForward has gone through the mutex of the thread, the thread is not
\* between receiving and forwarding posts, and never will be.
CanceledIsQuiet ==
  \A f \in ThreadId : thread[f].canceled => thread[f].pc \notin Holding

\* cancelForward reaches the threads there are, and what it has reached is over.
ThreadsInHand == ThreadsCanBeCanceled /\ CanceledIsQuiet

\* Every call of a client returns, though post and run hold a mutex during remote
\* calls, which may fail.
CallsReturn == \A c \in Client : pc[c] # "idle" ~> pc[c] = "idle"

\* A canceled thread ends, unless its process does.
CanceledEnd ==
  \A f \in 1..MaxThreads :
    f \in ThreadId /\ thread[f].canceled
      ~> ~up \/ (f \in ThreadId /\ thread[f].pc = "ended")
=============================================================================
