------------------------------ MODULE Services ------------------------------
(***************************************************************************)
(* Programs on one bus: the processes of a play run the scripts of         *)
(* Programs.tla by the SDK.  In every process the main thread logs in,     *)
(* offers services, finds offers and calls them; another thread, the one   *)
(* that renews the login, may find that the login is invalid and run the   *)
(* callback of onInvalidLogin at any moment, and so does a call of the     *)
(* main thread that the bus refuses.                                       *)
(*                                                                         *)
(* The bus is external: it issues logins, holds the offers of the logins   *)
(* that are valid, and hands out the secret of a shared authentication for *)
(* one login.  What goes wrong is bounded by MaxFaults: a remote call that *)
(* fails, executed or not, a login that the bus invalidates, a process     *)
(* that is killed, a file that is not written to its end.                  *)
(***************************************************************************)
EXTENDS Programs, ExportedData, FiniteSets

CONSTANTS Plays,     \* the casts of programs that are run
          MaxFaults  \* by play, bounds what goes wrong

ASSUME ServicesAssumption ==
  Plays \subseteq DOMAIN Cast /\ MaxFaults \in [Plays -> Nat]

VARIABLES
  play,       \* the programs that run
  pc,         \* the statement main is at; past the last one: main is done
  status,     \* "running", or how the process ended
  conn,       \* by entity: login, registry reference, _invalid_login
  reference,  \* whether main holds the registry of its statement
  found,      \* the offers of the statement still to try, several or not
  facet,      \* the offer whose facet main has taken
  peer,       \* the offer whose facet the servant calls
  inside,     \* threads that drop a login or are in a callback: step, and the
              \* requests suspended in other callbacks
  logins,     \* external: logins issued: process, entity, validity
  offers,     \* external: registered offers: login, service
  secrets,    \* external: login processes of shared authentications
  file,       \* the file of the secret
  faults,     \* what went wrong
  works,      \* history: calls executed, by process and statement
  repeats,    \* history: reasons for requests to be executed twice, by process
  unoffered,  \* history: processes that lost the login of offers they had made
  calls       \* history: calls executed: servant and chain of callers

busVars == <<logins, offers, secrets, file, faults>>
mainVars == <<pc, status, reference, found, facet, peer>>
historyVars == <<works, repeats, unoffered, calls>>
vars == <<play, mainVars, conn, inside, busVars, historyVars>>

Process == 1..Len(Cast[play])
Script(p) == Cast[play][p].script
relogin(p) == Cast[play][p].relogin
servant(p) == Cast[play][p].servant
At(p) == Script(p)[pc[p]]

Thread == {"main", "other"}
None == 0
NoConn == [login |-> None, registry |-> FALSE, pending |-> FALSE]
NotFound == [offers |-> <<>>, several |-> FALSE, listed |-> FALSE]
Outside == [step |-> "outside", suspended |-> 0]

Entities(p) == {Script(p)[i].as : i \in {j \in DOMAIN Script(p) :
                  Script(p)[j].do \in {"login", "login_shared"}}}

Init ==
  /\ play \in Plays
  /\ pc = [p \in Process |-> 1]
  /\ status = [p \in Process |-> "running"]
  /\ conn = [p \in Process |-> [e \in Entities(p) |-> NoConn]]
  /\ reference = [p \in Process |-> FALSE]
  /\ found = [p \in Process |-> NotFound]
  /\ facet = [p \in Process |-> None] /\ peer = [p \in Process |-> None]
  /\ inside = [p \in Process |-> [t \in Thread |-> Outside]]
  /\ logins = <<>> /\ offers = <<>> /\ secrets = <<>>
  /\ file = NoStream
  /\ faults = 0
  /\ works = [p \in Process |-> [i \in DOMAIN Script(p) |-> 0]]
  /\ repeats = [p \in Process |-> 0]
  /\ unoffered = {}
  /\ calls = {}
-----------------------------------------------------------------------------
Running(p) == status[p] = "running"
\* Main is at a statement of a kind, and not inside the callback.
AtOneOf(p, kinds) ==
  Running(p) /\ inside[p]["main"] = Outside /\ At(p).do \in kinds
Main(p, kind) == AtOneOf(p, {kind})

Valid(l) == l # None /\ logins[l].valid
Login(p) == conn[p][At(p).as].login

\* Main leaves the statement for another: its local variables are gone.
Goto(p, i) ==
  /\ pc' = [pc EXCEPT ![p] = i]
  /\ reference' = [reference EXCEPT ![p] = FALSE]
  /\ found' = [found EXCEPT ![p] = NotFound]
  /\ facet' = [facet EXCEPT ![p] = None]

\* main returns after its last statement, and the process ends.
Ends(p, how) == status' = [status EXCEPT ![p] = how]
Advance(p) ==
  IF pc[p] = Len(Script(p))
  THEN Ends(p, "returned") /\ UNCHANGED <<pc, reference, found, facet>>
  ELSE Goto(p, pc[p] + 1) /\ UNCHANGED status

\* Where a statement goes without an exception.
Go(p, where) ==
  CASE where = "next" -> Advance(p)
    [] where = "again" -> Goto(p, pc[p]) /\ UNCHANGED status
    [] where = "return" ->
         Ends(p, "returned") /\ UNCHANGED <<pc, reference, found, facet>>

\* Mutants of Throw: the loop is left on an exception, and the offers that were
\* found are not looked for again.
ThrowLeaves(p, e) ==
  IF e \in At(p).again THEN Advance(p)
  ELSE Ends(p, "terminated") /\ UNCHANGED <<pc, reference, found, facet>>
ThrowKeepsFound(p, e) ==
  IF e \in At(p).again THEN UNCHANGED <<pc, status, reference, found, facet>>
  ELSE Ends(p, "terminated") /\ UNCHANGED <<pc, reference, found, facet>>

\* An exception leaves the statement: it is repeated, main returns, or the
\* exception has no handler and std::terminate ends the process.  The loops of
\* greetings keep the reference to the registry, the others ask for it again.
Throw(p, e) ==
  IF e \in At(p).again
  THEN /\ found' = [found EXCEPT ![p] = NotFound]
       /\ facet' = [facet EXCEPT ![p] = None]
       /\ reference' = [reference EXCEPT ![p] =
            At(p).do = "register" /\ At(p).reference = "once"]
       /\ UNCHANGED <<pc, status>>
  ELSE /\ Ends(p, IF e \in At(p).returns THEN "returned" ELSE "terminated")
       /\ UNCHANGED <<pc, reference, found, facet>>

Fault == faults < MaxFaults[play] /\ faults' = faults + 1
Repeats(p, n) == repeats' = [repeats EXCEPT ![p] = @ + n]
-----------------------------------------------------------------------------
(* External: the bus.                                                        *)
Issue(p, e) ==
  logins' = Append(logins, [process |-> p, entity |-> e, valid |-> TRUE])
Issued == Len(logins) + 1

Visible(entity, service) ==
  {o \in DOMAIN offers : /\ offers[o].service = service
                         /\ Valid(offers[o].login)
                         /\ logins[offers[o].login].entity = entity}
Offer(l, service) == offers' = Append(offers, [login |-> l, service |-> service])
Server(o) == logins[offers[o].login].process

\* A login matters to somebody: its process uses it, or others find its offers.
Held(l) == LET p == logins[l].process IN
  Running(p) /\ \E e \in DOMAIN conn[p] : conn[p][e].login = l
Offering(l) == \E o \in DOMAIN offers : offers[o].login = l

\* The administrator, or a lease the bus believes over, ends a login.
Invalidate(l) ==
  /\ Fault
  /\ Valid(l) /\ (Held(l) \/ Offering(l))
  /\ logins' = [logins EXCEPT ![l].valid = FALSE]
  /\ UNCHANGED <<play, mainVars, conn, inside, offers, secrets, file, historyVars>>

\* The leases of logins that their process does not renew end, all at once.
Lapse(p) ==
  LET expired == {l \in DOMAIN logins : logins[l].process = p /\ ~Held(l)} IN
  /\ \E o \in DOMAIN offers : Server(o) = p /\ offers[o].login \in expired
                              /\ Valid(offers[o].login)
  /\ logins' = [l \in DOMAIN logins |->
                 [logins[l] EXCEPT !.valid = @ /\ l \notin expired]]
  /\ UNCHANGED <<play, mainVars, conn, inside, offers, secrets, file, faults,
                 historyVars>>

Kill(p) ==
  /\ Fault
  /\ Running(p)
  /\ Ends(p, "killed")
  /\ UNCHANGED <<play, pc, reference, found, facet, peer, conn, inside, logins,
                 offers, secrets, file, historyVars>>
-----------------------------------------------------------------------------
(* Logging in: connectByAddress, onInvalidLogin, login and                   *)
(* setDefaultConnection in one try block.  Each attempt has a new connection. *)
LoggedIn(l) == [login |-> l, registry |-> TRUE, pending |-> FALSE]

DoLogin(p) ==
  /\ Main(p, "login")
  /\ Issue(p, At(p).as)
  /\ conn' = [conn EXCEPT ![p][At(p).as] = LoggedIn(Issued)]
  /\ Advance(p)
  /\ UNCHANGED <<play, peer, inside, offers, secrets, file, faults, historyVars>>

\* The login may have been made when its answer is lost: nobody renews it.
LoginFails(p, e) ==
  /\ Main(p, "login")
  /\ Fault
  /\ e \in {"AccessDenied", "ServiceFailure"} \cup Communication
  /\ \/ UNCHANGED logins
     \/ e = "COMM_FAILURE" /\ Issue(p, At(p).as)
  /\ Throw(p, e)
  /\ UNCHANGED <<play, peer, conn, inside, offers, secrets, file, historyVars>>
-----------------------------------------------------------------------------
(* A request of main through the interceptors.  The registry is asked for in *)
(* the expression that calls it, and a request that is sent again keeps it.  *)
HasCallback(p) == relogin(p).as # "none"
Requests(p) == AtOneOf(p, {"register", "use", "share"})
AsksRegistry(p) == Requests(p) /\ ~reference[p] /\ ~found[p].listed
Ready(p) == Requests(p) /\ (AsksRegistry(p) => conn[p][At(p).as].registry)

\* getOfferRegistry() and _access_control are nil while nobody is logged in.
NilReference(p) ==
  /\ AsksRegistry(p) /\ ~conn[p][At(p).as].registry
  /\ Ends(p, "crashed")
  /\ UNCHANGED <<play, pc, reference, found, facet, peer, conn, inside, busVars,
                 historyVars>>

\* An InvalidLogin: the local logout.  The invalid login is recorded later, and
\* the callback runs when the request is sent again and looks for a login; without
\* a callback nothing is recorded.
Logout(p, e) == conn' = [conn EXCEPT ![p][e] = NoConn]
Dropping(p, t, suspended) ==
  inside' = [inside EXCEPT ![p][t] = [step |-> "dropped", suspended |-> suspended]]
Enter(p, t, suspended) ==
  /\ inside' = [inside EXCEPT ![p][t] = [step |-> "login", suspended |-> suspended]]
  /\ IF At(p).do = "register" THEN Repeats(p, Len(relogin(p).registers))
                              ELSE UNCHANGED repeats
Forget(p) ==
  unoffered' = IF \E i \in 1..(pc[p] - 1) : Script(p)[i].do = "register"
               THEN unoffered \cup {p} ELSE unoffered

\* The bus or the process that is called refuses the login of main's request,
\* which drops it; or the connection has none, and get_login runs the callback if
\* one is due.  The request is sent again with the reference it has.
Refused(p) ==
  /\ Ready(p) /\ ~Valid(Login(p))
  /\ IF Login(p) # None THEN Logout(p, At(p).as) /\ Forget(p)
                        ELSE UNCHANGED <<conn, unoffered>>
  /\ IF HasCallback(p) /\ (Login(p) # None \/ conn[p][At(p).as].pending)
     THEN /\ IF Login(p) # None THEN Dropping(p, "main", 0) /\ UNCHANGED repeats
                                ELSE Enter(p, "main", 0)
          /\ reference' = [reference EXCEPT ![p] = TRUE]
          /\ UNCHANGED <<pc, status, found, facet>>
     ELSE Throw(p, "NO_PERMISSION") /\ UNCHANGED <<inside, repeats>>
  /\ UNCHANGED <<play, peer, busVars, works, calls>>

\* renewLogin, or a request of a dispatched call, finds the login invalid.
OtherFinds(p, e) ==
  /\ Running(p) /\ inside[p]["other"] = Outside
  /\ conn[p][e].login # None /\ ~Valid(conn[p][e].login)
  /\ Logout(p, e) /\ Forget(p)
  /\ IF HasCallback(p) THEN Dropping(p, "other", 0) ELSE UNCHANGED inside
  /\ UNCHANGED <<play, mainVars, busVars, works, repeats, calls>>

\* The thread that dropped the login records it as the invalid one, whatever has
\* happened since, and its request is sent again.
InCallback(p, t, step) == Running(p) /\ inside[p][t].step = step

Records(p, t) ==
  /\ InCallback(p, t, "dropped")
  /\ conn' = [conn EXCEPT ![p][relogin(p).as].pending = TRUE]
  /\ inside' = [inside EXCEPT ![p][t] =
       IF @.suspended = 0 THEN [step |-> "recorded", suspended |-> 0]
       ELSE [step |-> "resend", suspended |-> @.suspended - 1]]
  /\ UNCHANGED <<play, mainVars, busVars, historyVars>>

\* get_login of the request that is sent again: it finds the login another thread
\* made, runs the callback if it is still due, or has no login.
Resends(p, t) ==
  LET c == conn[p][relogin(p).as] IN
  /\ InCallback(p, t, "recorded")
  /\ IF c.login = None /\ c.pending THEN Enter(p, t, 0)
     ELSE inside' = [inside EXCEPT ![p][t] = Outside] /\ UNCHANGED repeats
  /\ UNCHANGED <<play, mainVars, conn, busVars, works, unoffered, calls>>
-----------------------------------------------------------------------------
(* The callback.  One that also offers a service makes requests of its own,  *)
(* which are refused and suspended in turn.                                  *)
LeaveCallback(p, t) ==
  inside' = [inside EXCEPT ![p][t] =
    IF @.suspended = 0 THEN Outside
    ELSE [step |-> "resend", suspended |-> @.suspended - 1]]

\* Another thread's callback may have logged in: AlreadyLoggedIn, silenced.
CallbackLogin(p, t) ==
  /\ InCallback(p, t, "login")
  /\ IF conn[p][relogin(p).as].login # None
     THEN LeaveCallback(p, t) /\ UNCHANGED <<conn, logins>>
     ELSE /\ Issue(p, relogin(p).as)
          /\ conn' = [conn EXCEPT ![p][relogin(p).as] = LoggedIn(Issued)]
          /\ IF relogin(p).registers = <<>> THEN LeaveCallback(p, t)
             ELSE inside' = [inside EXCEPT ![p][t].step = "register"]
  /\ UNCHANGED <<play, mainVars, offers, secrets, file, faults, historyVars>>

\* The callback gives up: every suspended request gets NO_PERMISSION.  That
\* get_login runs it once more for a login another thread has recorded meanwhile
\* is left to Connection.tla.
GiveUp(p, t) ==
  /\ inside' = [inside EXCEPT ![p][t] = Outside]
  /\ IF t = "main" THEN Throw(p, "NO_PERMISSION")
     ELSE UNCHANGED <<pc, status, reference, found, facet>>

\* Mutant of CallbackLoginFails: the callback has no loop.
CallbackLoginFailsOnce(p, t, e) ==
  /\ InCallback(p, t, "login")
  /\ conn[p][relogin(p).as].login = None
  /\ Fault
  /\ e \in Communication
  /\ conn' = [conn EXCEPT ![p][relogin(p).as] = NoConn]
  /\ GiveUp(p, t)
  /\ UNCHANGED <<play, peer, logins, offers, secrets, file, historyVars>>

\* login_init may have set the references before the login fails.
CallbackLoginFails(p, t, e) ==
  /\ InCallback(p, t, "login")
  /\ conn[p][relogin(p).as].login = None
  /\ Fault
  /\ e \in {"AccessDenied", "ServiceFailure"} \cup Communication
  /\ \/ UNCHANGED logins
     \/ e = "COMM_FAILURE" /\ Issue(p, relogin(p).as)
  /\ \E registry \in BOOLEAN :
       conn' = [conn EXCEPT ![p][relogin(p).as] =
                 [login |-> None, registry |-> registry,
                  pending |-> @.pending /\ e \in relogin(p).again]]
  /\ IF e \in relogin(p).again
     THEN UNCHANGED <<inside, pc, status, reference, found, facet>>
     ELSE GiveUp(p, t)
  /\ UNCHANGED <<play, peer, offers, secrets, file, historyVars>>

CallbackRegisters(p, t) ==
  LET c == conn[p][relogin(p).as] IN
  /\ InCallback(p, t, "register") \/ InCallback(p, t, "resend")
  /\ IF inside[p][t].step = "register" /\ ~c.registry
     THEN /\ Ends(p, "crashed")
          /\ UNCHANGED <<pc, reference, found, facet, conn, inside, offers,
                         repeats, unoffered>>
     ELSE IF Valid(c.login)
     THEN /\ Offer(c.login, Head(relogin(p).registers))
          /\ unoffered' = unoffered \ {p}
          /\ LeaveCallback(p, t)
          /\ UNCHANGED <<pc, status, reference, found, facet, conn, repeats>>
     ELSE IF c.login = None /\ ~c.pending
     THEN GiveUp(p, t) /\ UNCHANGED <<conn, offers, repeats, unoffered>>
     ELSE /\ IF c.login # None
             THEN /\ Logout(p, relogin(p).as) /\ Forget(p)
                  /\ Dropping(p, t, inside[p][t].suspended + 1)
                  /\ UNCHANGED repeats
             ELSE /\ inside' = [inside EXCEPT ![p][t] =
                       [step |-> "login", suspended |-> @.suspended + 1]]
                  /\ Repeats(p, 1)
                  /\ UNCHANGED <<conn, unoffered>>
          /\ UNCHANGED <<pc, status, reference, found, facet, offers>>
  /\ UNCHANGED <<play, peer, logins, secrets, file, faults, works, calls>>

\* An exception is reported and forgotten: the callback returns as if it had
\* offered the service, and nobody offers it later.
CallbackRegisterFails(p, t) ==
  LET c == conn[p][relogin(p).as] IN
  /\ InCallback(p, t, "register") /\ Valid(c.login)
  /\ Fault
  /\ UNCHANGED offers \/ Offer(c.login, Head(relogin(p).registers))
  /\ LeaveCallback(p, t)
  /\ UNCHANGED <<play, mainVars, conn, logins, secrets, file, historyVars>>
-----------------------------------------------------------------------------
(* Offering a service.                                                       *)
\* Mutant of DoRegister: without its break.
DoRegisterAgain(p) ==
  /\ Main(p, "register") /\ Ready(p) /\ Valid(Login(p))
  /\ Offer(Login(p), At(p).service)
  /\ Len(offers) < 4
  /\ UNCHANGED <<play, mainVars, conn, inside, logins, secrets, file, faults,
                 historyVars>>

DoRegister(p) ==
  /\ Main(p, "register") /\ Ready(p) /\ Valid(Login(p))
  /\ Offer(Login(p), At(p).service)
  /\ Advance(p)
  /\ UNCHANGED <<play, peer, conn, inside, logins, secrets, file, faults,
                 historyVars>>

\* The offer may have been made when its answer is lost.
RegisterFails(p, e) ==
  /\ Main(p, "register") /\ Ready(p) /\ Valid(Login(p))
  /\ Fault
  /\ e \in {"ServiceFailure", "UnauthorizedFacets", "InvalidService",
            "InvalidProperties"} \cup Communication
  /\ \/ UNCHANGED <<offers, repeats>>
     \/ /\ e = "COMM_FAILURE"
        /\ Offer(Login(p), At(p).service)
        /\ Repeats(p, 1)
  /\ Throw(p, e)
  /\ UNCHANGED <<play, peer, conn, inside, logins, secrets, file, works,
                 unoffered, calls>>
-----------------------------------------------------------------------------
(* Finding offers and calling the service of one.                            *)
Listed(p) == Main(p, "use") /\ found[p].listed

\* The offers in the order the bus lists them, _non_existent asked for where it
\* is.
Listing(p) ==
  SetToSeq({o \in Visible(At(p).entity, At(p).service) :
              At(p).checked => Running(Server(o))})

FindServices(p) ==
  /\ Main(p, "use") /\ ~found[p].listed /\ Ready(p) /\ Valid(Login(p))
  /\ IF Listing(p) = <<>> THEN Go(p, At(p).none)
     ELSE /\ found' = [found EXCEPT ![p] = [offers |-> Listing(p),
                          several |-> Len(Listing(p)) > 1, listed |-> TRUE]]
          /\ reference' = [reference EXCEPT ![p] = FALSE]
          /\ UNCHANGED <<pc, status, facet>>
  /\ UNCHANGED <<play, peer, conn, inside, busVars, historyVars>>

FindFails(p, e) ==
  /\ Main(p, "use") /\ ~found[p].listed /\ Ready(p) /\ Valid(Login(p))
  /\ Fault
  /\ e \in {"ServiceFailure"} \cup Communication
  /\ Throw(p, e)
  /\ UNCHANGED <<play, peer, conn, inside, logins, offers, secrets, file,
                 historyVars>>

\* Mutants of TryNext: the facet is still the one of the last offer, and the
\* loop is left after the last offer.
TryNextKeepsFacet(p, e, skips) ==
  IF Len(found[p].offers) = 1 THEN Throw(p, e)
  ELSE /\ found' = [found EXCEPT ![p].offers = Tail(@)]
       /\ UNCHANGED <<pc, status, reference, facet>>
TryNextLeaves(p, e, skips) ==
  IF ~found[p].several \/ e \notin skips THEN Throw(p, e)
  ELSE IF Len(found[p].offers) = 1 THEN Advance(p)
  ELSE /\ found' = [found EXCEPT ![p].offers = Tail(@)]
       /\ facet' = [facet EXCEPT ![p] = None]
       /\ UNCHANGED <<pc, status, reference>>

\* What an exception of the request to a found offer leads to.
TryNext(p, e, skips) ==
  IF ~found[p].several \/ e \notin skips THEN Throw(p, e)
  ELSE IF Len(found[p].offers) = 1 THEN Go(p, At(p).none)
  ELSE /\ found' = [found EXCEPT ![p].offers = Tail(@)]
       /\ facet' = [facet EXCEPT ![p] = None]
       /\ UNCHANGED <<pc, status, reference>>

\* What the process of an offer answers to a request: a connection without a
\* login is UnknownBus.
Answers(q) ==
  IF ~Running(q) THEN Communication
  ELSE IF conn[q][servant(q).as].login = None THEN {"NO_PERMISSION"} ELSE {"ok"}
Target(p) == Server(Head(found[p].offers))

GetFacet(p) ==
  /\ Listed(p) /\ facet[p] = None /\ Valid(Login(p))
  /\ Answers(Target(p)) = {"ok"}
  /\ IF At(p).keep
     THEN peer' = [peer EXCEPT ![p] = Head(found[p].offers)] /\ Go(p, At(p).done)
     ELSE /\ facet' = [facet EXCEPT ![p] = Head(found[p].offers)]
          /\ UNCHANGED <<peer, pc, status, reference, found>>
  /\ UNCHANGED <<play, conn, inside, busVars, historyVars>>

GetFacetFails(p, e) ==
  /\ Listed(p) /\ facet[p] = None /\ Valid(Login(p))
  /\ \/ e \in Answers(Target(p)) \ {"ok"} /\ UNCHANGED faults
     \/ e \in Communication /\ Answers(Target(p)) = {"ok"} /\ Fault
  /\ TryNext(p, e, At(p).skips)
  /\ UNCHANGED <<play, peer, conn, inside, logins, offers, secrets, file,
                 historyVars>>
-----------------------------------------------------------------------------
(* The call.  A servant that forwards joins the chain of its caller, and its *)
(* request goes out and comes back inside the call.                          *)
Accepts(q, chain) ==
  "anyone" \in servant(q).accepts \/ Last(chain) \in servant(q).accepts

\* The chain that arrives where the call is executed, and what comes of it.
Forwarded(p) == servant(Target(p)).kind = "forwards"
Executor(p) == IF Forwarded(p) THEN Server(peer[Target(p)]) ELSE Target(p)
ChainOfServant(p) == << IF Forwarded(p) THEN servant(Target(p)).as ELSE At(p).as >>
ChainOf(p) ==
  IF Forwarded(p) THEN << At(p).as, servant(Target(p)).as >> ELSE << At(p).as >>
Outcome(p) ==
  IF Answers(Target(p)) # {"ok"} THEN Answers(Target(p))
  ELSE IF Forwarded(p) /\ ~Valid(conn[Target(p)][servant(Target(p)).as].login)
       THEN {"NO_PERMISSION"}
  ELSE IF Answers(Executor(p)) # {"ok"} THEN Answers(Executor(p))
  ELSE IF Accepts(Executor(p), ChainOf(p)) THEN {"ok"} ELSE {"Unavailable"}

Executed(p) ==
  calls' = calls \cup {[at |-> servant(Executor(p)).as, chain |-> ChainOf(p)]}

Calls(p) == Listed(p) /\ facet[p] # None /\ Valid(Login(p))

\* The call returns: *try_again = false, or the next offer is called.
DoCall(p) ==
  /\ Calls(p) /\ Outcome(p) = {"ok"}
  /\ Executed(p)
  /\ works' = [works EXCEPT ![p][pc[p]] =
                 IF At(p).done \in {"again", "rest"} THEN 0 ELSE @ + 1]
  /\ IF At(p).done # "rest" THEN Go(p, At(p).done)
     ELSE IF Len(found[p].offers) = 1 THEN Advance(p)
     ELSE /\ found' = [found EXCEPT ![p].offers = Tail(@)]
          /\ facet' = [facet EXCEPT ![p] = None]
          /\ UNCHANGED <<pc, status, reference>>
  /\ UNCHANGED <<play, peer, conn, inside, busVars, repeats, unoffered>>

\* The call fails; it may have been executed when its answer is lost.
CallFails(p, e) ==
  /\ Calls(p)
  /\ \/ /\ e \in Outcome(p) \ {"ok"}
        /\ UNCHANGED <<faults, works, repeats, calls>>
     \/ /\ Outcome(p) = {"ok"} /\ Fault
        /\ e \in Communication
        /\ \/ UNCHANGED <<works, repeats, calls>>
           \/ /\ e = "COMM_FAILURE"
              /\ works' = [works EXCEPT ![p][pc[p]] = @ + 1]
              /\ Repeats(p, 1) /\ Executed(p)
  /\ IF e = "Unavailable" /\ At(p).refused THEN Go(p, "return")
     ELSE TryNext(p, e, IF At(p).guarded THEN At(p).skips ELSE {})
  /\ UNCHANGED <<play, peer, conn, inside, logins, offers, secrets, file,
                 unoffered>>
-----------------------------------------------------------------------------
(* Shared authentication: startSharedAuth, the file and loginBySharedAuth.   *)
SecretOf(id, legacy) ==
  [bus |-> "bus", secret |-> id,
   attempt |-> [v \in Protocol |-> IF v = Current \/ legacy THEN id ELSE Unsigned]]

\* With a fault the file is seen before its end is written.
ShareSecret(p) ==
  /\ Main(p, "share") /\ Ready(p) /\ Valid(Login(p))
  /\ secrets' = Append(secrets, [entity |-> At(p).as, used |-> FALSE])
  /\ \E legacy \in BOOLEAN :
       LET stream == encodeSharedAuthSecret(SecretOf(Len(secrets) + 1, legacy)) IN
       \/ file' = stream /\ UNCHANGED faults
       \/ file' = NoStream /\ Fault
  /\ Advance(p)
  /\ UNCHANGED <<play, peer, conn, inside, logins, offers, historyVars>>

\* The handler of startSharedAuth cancels the login process by a reference that
\* is not initialised unless startLoginBySharedAuth has returned.
ShareFails(p, e) ==
  /\ Main(p, "share") /\ Ready(p) /\ Valid(Login(p))
  /\ Fault
  /\ e \in {"ServiceFailure"} \cup Communication
  /\ \/ Throw(p, e)
     \/ Ends(p, "crashed") /\ UNCHANGED <<pc, reference, found, facet>>
  /\ UNCHANGED <<play, peer, conn, inside, logins, offers, secrets, file,
                 historyVars>>

ReadSecret == decodeSharedAuthSecret(file)
Attempt(secret) ==
  IF secret.attempt[Current] = Unsigned THEN secret.attempt[Legacy]
  ELSE secret.attempt[Current]
Usable == ReadSecret \notin Failure /\ ~secrets[Attempt(ReadSecret)].used
Spend == secrets' = [secrets EXCEPT ![Attempt(ReadSecret)].used = TRUE]

loginBySharedAuth(p) ==
  /\ Main(p, "login_shared")
  /\ IF Usable
     THEN /\ Spend
          /\ Issue(p, secrets[Attempt(ReadSecret)].entity)
          /\ conn' = [conn EXCEPT ![p][At(p).as] = LoggedIn(Issued)]
          /\ Advance(p)
     ELSE /\ Throw(p, IF ReadSecret \in Failure THEN ReadSecret
                      ELSE "InvalidLoginProcess")
          /\ UNCHANGED <<secrets, logins, conn>>
  /\ UNCHANGED <<play, peer, inside, offers, file, faults, historyVars>>

\* A login that is made without the program knowing has used the secret up.
LoginBySharedAuthFails(p, e) ==
  /\ Main(p, "login_shared")
  /\ Usable
  /\ Fault
  /\ e \in {"AccessDenied", "ServiceFailure"} \cup Communication
  /\ \/ UNCHANGED <<secrets, logins>>
     \/ /\ e = "COMM_FAILURE"
        /\ Spend /\ Issue(p, secrets[Attempt(ReadSecret)].entity)
  /\ Throw(p, e)
  /\ UNCHANGED <<play, peer, conn, inside, offers, file, historyVars>>
-----------------------------------------------------------------------------
(* What the threads of a process do without anything going wrong meanwhile.  *)
MainStep(p) ==
  \/ AtOneOf(p, {"login", "login_shared"}) /\ (DoLogin(p) \/ loginBySharedAuth(p))
  \/ Requests(p) /\ ( \/ NilReference(p) \/ Refused(p)
                      \/ DoRegister(p) \/ FindServices(p) \/ ShareSecret(p))
  \/ Listed(p) /\ ( \/ GetFacet(p) \/ DoCall(p)
                    \/ \E e \in Answers(Target(p)) : GetFacetFails(p, e)
                    \/ Calls(p) /\ \E e \in Outcome(p) : CallFails(p, e))
CallbackStep(p, t) ==
  Records(p, t) \/ Resends(p, t) \/ CallbackLogin(p, t) \/ CallbackRegisters(p, t)

\* A remote call of either thread fails.
RemoteFails(p) ==
  \/ Main(p, "login") /\ \E e \in AnyException : LoginFails(p, e)
  \/ Main(p, "login_shared") /\ \E e \in AnyException : LoginBySharedAuthFails(p, e)
  \/ Main(p, "register") /\ \E e \in AnyException : RegisterFails(p, e)
  \/ Main(p, "share") /\ \E e \in AnyException : ShareFails(p, e)
  \/ Listed(p) /\ \E e \in AnyException : GetFacetFails(p, e) \/ CallFails(p, e)
  \/ Main(p, "use") /\ ~found[p].listed /\ \E e \in AnyException : FindFails(p, e)
  \/ \E t \in Thread : InCallback(p, t, "login") /\
       \E e \in AnyException : CallbackLoginFails(p, t, e)

Next ==
  \/ \E p \in Process : Running(p) /\
       ( \/ MainStep(p)
         \/ \E t \in Thread : inside[p][t] # Outside /\
              (CallbackStep(p, t) \/ CallbackRegisterFails(p, t))
         \/ \E e \in DOMAIN conn[p] : OtherFinds(p, e)
         \/ faults < MaxFaults[play] /\ RemoteFails(p)
         \/ Kill(p))
  \/ \E p \in Process : Lapse(p)
  \/ \E l \in DOMAIN logins : Invalidate(l)

\* The main thread of a process is scheduled, and its sleeps and the requests it
\* waits for end.  Nothing makes a fault happen, or the other thread go on.
Fairness ==
  \A p \in UNION {DOMAIN Cast[n] : n \in Plays} :
    WF_vars(p \in Process /\ Running(p) /\ At(p).do # "serve" /\
              (MainStep(p) \/ CallbackStep(p, "main")))

Spec == Init /\ [][Next]_vars /\ Fairness
-----------------------------------------------------------------------------
TypeOK ==
  /\ play \in Plays
  /\ pc \in [Process -> Nat]
  /\ status \in [Process -> {"running", "returned", "terminated", "crashed", "killed"}]
  /\ \A p \in Process :
       /\ pc[p] \in DOMAIN Script(p)
       /\ \A e \in Entities(p) :
            /\ conn[p][e].login \in {None} \cup DOMAIN logins
            /\ {conn[p][e].registry, conn[p][e].pending} \subseteq BOOLEAN
       /\ facet[p] # None => facet[p] = Head(found[p].offers)
       /\ peer[p] \in {None} \cup DOMAIN offers
       /\ \A t \in Thread :
            /\ inside[p][t].step \in
                 {"outside", "dropped", "recorded", "login", "register", "resend"}
            /\ inside[p][t].suspended \in 0..MaxFaults[play]
  /\ works \in [Process -> Seq(Nat)]
  /\ reference \in [Process -> BOOLEAN]
  /\ repeats \in [Process -> Nat]
  /\ unoffered \subseteq Process
  /\ faults \in 0..MaxFaults[play]

Serving(p) == Running(p) /\ At(p).do = "serve"
OffersOf(l, service) ==
  {o \in DOMAIN offers : offers[o] = [login |-> l, service |-> service]}
Registers(p) ==
  {Script(p)[i] : i \in {j \in DOMAIN Script(p) : Script(p)[j].do = "register"}}

\* A program that has come to serve calls has an offer of each of its services,
\* whatever failed on the way, unless it has lost the login it offered them with
\* (main of each server, registerService of greetings, the callback of simple).
ServingIsOffered ==
  \A p \in Process : Serving(p) /\ p \notin unoffered =>
    \A r \in Registers(p) :
      Valid(conn[p][r.as].login) => OffersOf(conn[p][r.as].login, r.service) # {}

\* A program offers a service once, but for an answer that was lost and for a
\* registration that was suspended while the callback made it too.
NoSpareOffers ==
  \A p \in Process : \A r \in Registers(p) :
    LET l == conn[p][r.as].login IN
    l # None => Cardinality(OffersOf(l, r.service)) <= 1 + repeats[p]

Past(p, i) == i < pc[p] \/ (i = pc[p] /\ status[p] = "returned")

\* A client that goes on after a loop around a call has made the call, and an
\* extra one only if an answer was lost: try_again of the demos' clients.
CalledInTheEnd ==
  \A p \in Process : \A i \in DOMAIN Script(p) : Script(p)[i].do = "use" =>
    /\ works[p][i] <= 1 + repeats[p]
    /\ Script(p)[i].none = "again" /\ Past(p, i) /\ ~Script(p)[i].checked
         => works[p][i] >= 1

\* The executive executes calls that the secretary makes for its own caller, and
\* a forwarded call names the client first: joinChain of the two servants.
OnlyThroughSecretary ==
  \A c \in calls :
    c.at \in {"executive", "server"} =>
      Len(c.chain) = 2 /\ Head(c.chain) = "demo"

\* A server or client that retries its login dereferences a nil registry only
\* while another thread relogs it: from its local logout, over the recording of
\* the invalid login and the resending of its request, to the end of the callback
\* that logs in (client.cpp:649 to connection.cpp:583).
NilOnlyDuringRelogin ==
  \A p \in Process :
    status[p] = "crashed" /\ At(p).do # "share" /\ relogin(p).again # {} =>
      inside[p]["other"].step \in {"dropped", "recorded", "login"}

\* A server that retries comes to serve or ends, and a client ends when the
\* service it looks for is offered for good by a live server: the loops around
\* login, registerService and findServices.
Offered(p) ==
  At(p).do = "use" =>
    \E o \in Visible(At(p).entity, At(p).service) : Answers(Server(o)) = {"ok"}
Endless(p) ==
  \E i \in DOMAIN Script(p) : Script(p)[i].do = "use" /\ Script(p)[i].done = "again"

LoopsEnd ==
  []<>(\A p \in Process :
         ~Running(p) \/ Serving(p) \/ Endless(p) \/ ~Offered(p))
=============================================================================
