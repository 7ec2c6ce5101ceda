----------------------------- MODULE LoginCache -----------------------------
(***************************************************************************)
(* The login cache of a connection, src/src/login_cache.cpp: the dispatch  *)
(* threads of a server validate the logins of their callers through it.    *)
(* Only the lookup and the insertion hold the mutex: the bus is asked, and *)
(* the validity and its time are written to the shared entry, without it.  *)
(*                                                                         *)
(* Time is counted in the seconds of time(0).  Delay is an assumption on   *)
(* the environment: how many seconds may pass from a thread's reading of   *)
(* the clock in the comparison of line 51, or from an answer of the bus to *)
(* its getLoginValidity, until it has returned.                            *)
(***************************************************************************)
EXTENDS Integers, FiniteSets, LRUCache

CONSTANTS Thread,   \* dispatch threads
          LoginId,  \* logins of callers
          Entry,    \* the Login objects, reused when nothing refers to them
          NoLogin,  \* the argument of a thread that validates nothing
          Lease,    \* how long the bus holds a login without a renewal
          Delay,
          MaxTime   \* bounds the clock

ASSUME LoginCacheAssumption ==
  /\ NoLogin \notin LoginId
  /\ NoData \notin Entry
  /\ IsFiniteSet(Entry) /\ IsFiniteSet(Thread)
  /\ Cardinality(Entry) >= MaxSize + Cardinality(Thread)
  /\ Lease \in Nat /\ Delay \in Nat /\ MaxTime \in Nat

VARIABLES
  now,       \* time(0)
  cache,     \* _loginLRUCache
  entry,     \* time2live and timeUpdated of every Login object
  pc,        \* where each thread is in validateLogin
  id,        \* the argument of validateLogin
  login,     \* the local `login': the entry a thread refers to
  validity,  \* what getLoginValidity returned to a thread, not stored yet
  answered,  \* when it did
  read,      \* what a thread has read of the comparison's operands, ...
  seen,      \* ... and the values it read
  torn,      \* history: another thread wrote the entry between two such reads
  expires,   \* external: when the bus stops holding a login valid
  known      \* history: until when the bus has said that a login is valid

operandVars == <<read, seen, torn>>
threadVars == <<pc, id, login, validity, answered, operandVars>>
vars == <<now, cache, entry, threadVars, expires, known>>

Latest(s, t) == IF s > t THEN s ELSE t

Operands == {"time2live", "clock", "timeUpdated"}
Unseen == [time2live |-> 0, clock |-> 0, timeUpdated |-> 0]

Init ==
  /\ now = 0
  /\ cache = Empty
  /\ entry = [e \in Entry |-> [time2live |-> 0, timeUpdated |-> 0]]
  /\ pc = [t \in Thread |-> "idle"]
  /\ id = [t \in Thread |-> NoLogin]
  /\ login = [t \in Thread |-> NoData]
  /\ validity = [t \in Thread |-> 0]
  /\ answered = [t \in Thread |-> 0]
  /\ read = [t \in Thread |-> {}]
  /\ seen = [t \in Thread |-> Unseen]
  /\ torn = [t \in Thread |-> FALSE]
  /\ expires \in [LoginId -> {0, Lease}]
  /\ known = [i \in LoginId |-> 0]
-----------------------------------------------------------------------------
Goto(t, step) == pc' = [pc EXCEPT ![t] = step]

\* What a thread read for the comparison is of no more use.
Forget(t) ==
  /\ read' = [read EXCEPT ![t] = {}]
  /\ seen' = [seen EXCEPT ![t] = Unseen]
  /\ torn' = [torn EXCEPT ![t] = FALSE]

\* validateLogin returns a null pointer or throws.
Refuse(t) ==
  /\ Goto(t, "idle")
  /\ id' = [id EXCEPT ![t] = NoLogin]
  /\ login' = [login EXCEPT ![t] = NoData]
  /\ validity' = [validity EXCEPT ![t] = 0]
  /\ answered' = [answered EXCEPT ![t] = 0]
  /\ Forget(t)

\* validateLogin returns the login: the thread goes on with the dispatch.
Accept(t) ==
  /\ Goto(t, "valid")
  /\ validity' = [validity EXCEPT ![t] = 0]
  /\ answered' = [answered EXCEPT ![t] = 0]
  /\ Forget(t)
  /\ UNCHANGED <<id, login>>

Cached(e) == \E i \in DOMAIN cache.list : cache.list[i].data = e
Unused(e) == ~Cached(e) /\ \A t \in Thread : login[t] # e

\* The first section under the mutex: the entry found, or a new one, which
\* nobody else can see yet.
Lookup(t, i) ==
  /\ pc[t] = "idle"
  /\ id' = [id EXCEPT ![t] = i]
  /\ cache' = touch(cache, i)
  /\ \/ /\ exists(cache, i)
        /\ login' = [login EXCEPT ![t] = datum(cache, i)]
        /\ Goto(t, "check")
     \/ /\ ~exists(cache, i)
        /\ login' = [login EXCEPT ![t] = CHOOSE e \in Entry : Unused(e)]
        /\ Goto(t, "info")
  /\ UNCHANGED <<now, entry, validity, answered, operandVars, expires, known>>

\* getLoginInfo: the login, InvalidLogins, or another exception.
Info(t) ==
  /\ pc[t] = "info"
  /\ \/ /\ expires[id[t]] > now
        /\ Goto(t, "insert")
        /\ UNCHANGED <<id, login, validity, answered, operandVars>>
     \/ Refuse(t)
  /\ UNCHANGED <<now, cache, entry, expires, known>>

\* Mutant of Insert: the cache is not looked up again.
InsertBlindly(t) ==
  /\ pc[t] = "insert"
  /\ Goto(t, "check")
  /\ cache' = insert(cache, id[t], login[t])
  /\ entry' = [entry EXCEPT ![login[t]] =
                 [time2live |-> -1, timeUpdated |-> now]]
  /\ UNCHANGED <<now, id, login, validity, answered, operandVars, expires,
                 known>>

\* The second section: another thread's entry is taken, or the new one goes
\* into the cache with a validity that no time is within.
Insert(t) ==
  /\ pc[t] = "insert"
  /\ Goto(t, "check")
  /\ \/ /\ exists(cache, id[t])
        /\ login' = [login EXCEPT ![t] = datum(cache, id[t])]
        /\ cache' = touch(cache, id[t])
        /\ UNCHANGED entry
     \/ /\ ~exists(cache, id[t])
        /\ cache' = insert(cache, id[t], login[t])
        /\ entry' = [entry EXCEPT ![login[t]] =
                       [time2live |-> -1, timeUpdated |-> now]]
        /\ UNCHANGED login
  /\ UNCHANGED <<now, id, validity, answered, operandVars, expires, known>>

\* The operands of the comparison, read from the shared entry without the
\* mutex, and the clock: one by one, in an order that C++ leaves open.
Operand(t, o) ==
  IF o = "clock" THEN now ELSE entry[login[t]][o]

Read(t, o) ==
  /\ pc[t] = "check" /\ o \notin read[t]
  /\ read' = [read EXCEPT ![t] = @ \cup {o}]
  /\ seen' = [seen EXCEPT ![t][o] = Operand(t, o)]
  /\ UNCHANGED <<now, cache, entry, pc, id, login, validity, answered, torn,
                 expires, known>>

\* Mutant of StillRuns: the second in which the validity ends counts as valid.
StillRunsLate(t) == seen[t].time2live >= seen[t].clock - seen[t].timeUpdated

\* The validity that a thread has read goes on beyond the clock it has read.
StillRuns(t) == seen[t].time2live > seen[t].clock - seen[t].timeUpdated

\* Is the entry's validity still running?
Check(t) ==
  /\ pc[t] = "check" /\ read[t] = Operands
  /\ \/ StillRuns(t) /\ Accept(t)
     \/ /\ ~StillRuns(t)
        /\ Goto(t, "validity")
        /\ Forget(t)
        /\ UNCHANGED <<id, login, validity, answered>>
  /\ UNCHANGED <<now, cache, entry, expires, known>>

\* The bus answers getLoginValidity, or the call fails.
Validity(t) ==
  /\ pc[t] = "validity"
  /\ \/ LET left == Latest(expires[id[t]] - now, 0) IN
        /\ validity' = [validity EXCEPT ![t] = left]
        /\ answered' = [answered EXCEPT ![t] = now]
        /\ known' = IF left > 0
                    THEN [known EXCEPT ![id[t]] = Latest(@, now + left)]
                    ELSE known
        /\ Goto(t, "store")
        /\ UNCHANGED <<id, login, operandVars>>
     \/ Refuse(t) /\ UNCHANGED known
  /\ UNCHANGED <<now, cache, entry, expires>>

\* A write of t to its entry comes between two reads of the others.
Tears(t) ==
  torn' = [u \in Thread |-> \/ torn[u]
                             \/ /\ u # t /\ login[u] = login[t]
                                /\ read[u] \notin {{}, Operands}]

\* The answer is written to the entry, ...
Store(t) ==
  /\ pc[t] = "store"
  /\ entry' = [entry EXCEPT ![login[t]].time2live = validity[t]]
  /\ Goto(t, "stamp")
  /\ Tears(t)
  /\ UNCHANGED <<now, cache, id, login, validity, answered, read, seen, expires,
                 known>>

\* ... then the time, ...
Stamp(t) ==
  /\ pc[t] = "stamp"
  /\ entry' = [entry EXCEPT ![login[t]].timeUpdated = now]
  /\ Goto(t, "answer")
  /\ Tears(t)
  /\ UNCHANGED <<now, cache, id, login, validity, answered, read, seen, expires,
                 known>>

\* ... and the entry is read again, whoever wrote to it last.
Answer(t) ==
  /\ pc[t] = "answer"
  /\ \/ entry[login[t]].time2live > 0 /\ Accept(t)
     \/ entry[login[t]].time2live <= 0 /\ Refuse(t)
  /\ UNCHANGED <<now, cache, entry, expires, known>>

\* The dispatch is over and its reference to the entry is gone.
Release(t) ==
  /\ pc[t] = "valid"
  /\ Refuse(t)
  /\ UNCHANGED <<now, cache, entry, expires, known>>

\* The caller renews its login, or the bus invalidates it.
BusRenews(i) ==
  /\ expires[i] > now
  /\ expires' = [expires EXCEPT ![i] = now + Lease]
  /\ UNCHANGED <<now, cache, entry, threadVars, known>>

BusInvalidates(i) ==
  /\ expires[i] > now
  /\ expires' = [expires EXCEPT ![i] = 0]
  /\ UNCHANGED <<now, cache, entry, threadVars, known>>

\* The clock, which waits for the threads that Delay binds.
Tick ==
  /\ now < MaxTime
  /\ \A t \in Thread :
       /\ pc[t] \in {"store", "stamp", "answer"} => now < answered[t] + Delay
       /\ "clock" \in read[t] => now < seen[t].clock + Delay
  /\ now' = now + 1
  /\ UNCHANGED <<cache, entry, threadVars, expires, known>>

Next ==
  \/ \E t \in Thread :
       \/ \E i \in LoginId : Lookup(t, i)
       \/ \E o \in Operands : Read(t, o)
       \/ Info(t) \/ Insert(t) \/ Check(t) \/ Validity(t)
       \/ Store(t) \/ Stamp(t) \/ Answer(t) \/ Release(t)
  \/ \E i \in LoginId : BusRenews(i) \/ BusInvalidates(i)
  \/ Tick

Spec == Init /\ [][Next]_vars
-----------------------------------------------------------------------------
\* The variables keep their types.
TypeOK ==
  /\ now \in 0..MaxTime
  /\ cache.index \subseteq LoginId /\ cache.currSize \in 0..MaxSize
  /\ cache.list \in Seq([key : LoginId, data : Entry])
  /\ entry \in [Entry -> [time2live : -1..Lease, timeUpdated : 0..MaxTime]]
  /\ pc \in [Thread -> {"idle", "info", "insert", "check", "validity",
                        "store", "stamp", "answer", "valid"}]
  /\ id \in [Thread -> LoginId \cup {NoLogin}]
  /\ login \in [Thread -> Entry \cup {NoData}]
  /\ validity \in [Thread -> 0..Lease]
  /\ answered \in [Thread -> 0..MaxTime]
  /\ read \in [Thread -> SUBSET Operands]
  /\ seen \in [Thread -> [time2live : -1..Lease, clock : 0..MaxTime,
                          timeUpdated : 0..MaxTime]]
  /\ torn \in [Thread -> BOOLEAN]
  /\ expires \in [LoginId -> 0..(MaxTime + Lease)]
  /\ known \in [LoginId -> 0..(MaxTime + Lease)]

\* Some thread accepts a login in this step.
Accepts(t) == pc[t] # "valid" /\ pc'[t] = "valid"

\* Whatever the threads write over one another, a login is accepted less than
\* three delays after the time until which the bus has said it is valid, unless
\* another thread wrote to the entry between two of the unlocked reads of the
\* comparison of line 51.
StaleOnlyIfTorn ==
  [][\A t \in Thread :
       Accepts(t) /\ ~torn[t] => now < known[id[t]] + 3 * Delay]_vars

\* What the interface promises of the validity that the cache counts down: no
\* login is accepted once the time for which the bus said it is valid is over,
\* with the same three delays allowed for.
StaleWithinThriceDelay ==
  [][\A t \in Thread : Accepts(t) => now < known[id[t]] + 3 * Delay]_vars

\* Threads that look up an absent login at once do not replace one another's
\* entry: the one in the cache stays until it is evicted, so that what any of
\* them learns is seen by all.
EntryNotReplaced ==
  [][\A i \in LoginId : exists(cache, i) /\ exists(cache', i)
       => datum(cache', i) = datum(cache, i)]_vars
=============================================================================
