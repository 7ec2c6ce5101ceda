------------------------------ MODULE Programs ------------------------------
(***************************************************************************)
(* The main functions of demo/ and interop/ as data: what a program asks of*)
(* the bus and of other programs, in order, and what it does about each    *)
(* exception.  Services.tla runs them.                                     *)
(*                                                                         *)
(* A statement is a remote call, or a loop around one, with                *)
(*   as      the entity of the connection that makes the call,             *)
(*   again   the exceptions after which it sleeps and starts over,         *)
(*   returns the exceptions that make main return.                         *)
(* No other exception is caught: it terminates the program.                *)
(***************************************************************************)
EXTENDS Sequences

Communication == {"TRANSIENT", "COMM_FAILURE", "OBJECT_NOT_EXIST"}

\* What the catch clauses of the loops around a login have in common.
Retried == {"AccessDenied", "ServiceFailure"} \cup Communication

\* What the catch clauses around the main function of some demos have.
Reported == {"ServiceFailure", "TRANSIENT", "OBJECT_NOT_EXIST"}

\* catch (CORBA::Exception) around the main function of the tests.
AnyException == Retried \cup
  {"NO_PERMISSION", "UnauthorizedFacets", "InvalidService", "InvalidProperties",
   "Unavailable"}

LogIn(as, again, returns) ==
  [do |-> "login", as |-> as, again |-> again, returns |-> returns]

\* reference: whether the registry is asked for "each" time or "once".
Register(as, service, reference, again, returns) ==
  [do |-> "register", as |-> as, service |-> service, reference |-> reference,
   again |-> again, returns |-> returns]

\* Finds offers, takes the facet of one of them and calls it.  With several
\* offers, an exception of skips goes on to the next one: one of getFacetByName
\* or, with guarded, one of the call too.  none and done are where main goes
\* without an offer that works and after the call: "again", "next", "return" or
\* "rest", the call of the next offer.  checked: _non_existent filters offers.
\* keep: the facet is kept for the servant and not called.
Use(as, entity, service, again, returns) ==
  [do |-> "use", as |-> as, entity |-> entity, service |-> service,
   reference |-> "each", again |-> again, returns |-> returns,
   skips |-> {"TRANSIENT", "OBJECT_NOT_EXIST"}, guarded |-> FALSE,
   checked |-> FALSE, keep |-> FALSE, refused |-> FALSE,
   none |-> "return", done |-> "return"]

\* A loop that ends when a call has returned, *try_again = false.
UseUntilCalled(as, entity, service, again) ==
  [Use(as, entity, service, again, {}) EXCEPT
     !.skips = Communication, !.guarded = TRUE, !.none = "again", !.done = "next"]

Share(as, returns) == [do |-> "share", as |-> as, again |-> {}, returns |-> returns]
LogInShared(as, again, returns) ==
  [do |-> "login_shared", as |-> as, again |-> again, returns |-> returns]
Serve == [do |-> "serve"]

\* onInvalidLogin: what the callback retries and the services it offers again.
NoRelogin == [as |-> "none", again |-> {}, registers |-> <<>>]
Relogin(as, again, registers) ==
  [as |-> as, again |-> again, registers |-> registers]

\* What a servant does with a call: it accepts callers and executes the call,
\* or makes it again elsewhere as part of the chain it was called in.
NoServant == [kind |-> "none", as |-> "none", accepts |-> {}]
Executes(as) == [kind |-> "executes", as |-> as, accepts |-> {"anyone"}]
Forwards(as) == [kind |-> "forwards", as |-> as, accepts |-> {"anyone"}]

Program(relogin, servant, script) ==
  [relogin |-> relogin, servant |-> servant, script |-> script]
-----------------------------------------------------------------------------
(* demo/hello *)
HelloServerRelogin == Relogin("demo", Retried, <<>>)
RegisterRetried(service) ==
  Register("demo", service, "each", Retried \cup {"UnauthorizedFacets"},
           {"InvalidService", "InvalidProperties"})
HelloServer ==
  Program(HelloServerRelogin, Executes("demo"),
    << LogIn("demo", Retried, {}), RegisterRetried("hello"), Serve >>)

HelloClientRelogin == Relogin("demo", Retried, <<>>)
call_with_found_hello ==
  UseUntilCalled("demo", "demo", "hello", Retried \ {"AccessDenied"})
HelloClient ==
  Program(HelloClientRelogin, NoServant,
    << LogIn("demo", Retried, {}), call_with_found_hello >>)

(* demo/greetings: one offer by language *)
GreetingsServerRelogin == Relogin("demo", Retried, <<>>)
registerService(service) ==
  Register("demo", service, "once", Retried \cup {"UnauthorizedFacets"},
           {"InvalidService", "InvalidProperties"})
GreetingsServer ==
  Program(GreetingsServerRelogin, Executes("demo"),
    << LogIn("demo", Retried, {}), registerService("english"),
       registerService("portuguese"), registerService("german"), Serve >>)

GreetingsClientRelogin == Relogin("demo", Retried, <<>>)
try_call_with_found_reference(language) ==
  UseUntilCalled("demo", "demo", language, Retried \ {"AccessDenied"})
GreetingsClient ==
  Program(GreetingsClientRelogin, NoServant,
    << LogIn("demo", Retried, {}), try_call_with_found_reference("english"),
       try_call_with_found_reference("portuguese"),
       try_call_with_found_reference("german") >>)

(* demo/independent_clock: the client goes on without the server *)
IndependentClockServerRelogin == Relogin("demo", Retried, <<>>)
IndependentClockServer ==
  Program(IndependentClockServerRelogin, Executes("demo"),
    << LogIn("demo", Retried, {}), RegisterRetried("clock"), Serve >>)

IndependentClockClientRelogin == Relogin("demo", Retried, <<>>)
call_with_found_clock ==
  [UseUntilCalled("demo", "demo", "clock", Retried \ {"AccessDenied"})
     EXCEPT !.done = "again"]
IndependentClockClient ==
  Program(IndependentClockClientRelogin, NoServant,
    << LogIn("demo", Retried, {}), call_with_found_clock >>)

(* demo/dedicated_clock: the client's loop catches nothing *)
DedicatedClockServerRelogin == Relogin("demo", Retried, <<>>)
DedicatedClockServer ==
  Program(DedicatedClockServerRelogin, Executes("demo"),
    << LogIn("demo", Retried, {}), RegisterRetried("clock"), Serve >>)

DedicatedClockClientRelogin == Relogin("demo", Retried, <<>>)
get_clock ==
  [Use("demo", "demo", "clock", {}, {}) EXCEPT !.none = "again", !.done = "again"]
DedicatedClockClient ==
  Program(DedicatedClockClientRelogin, NoServant,
    << LogIn("demo", Retried, {}), get_clock >>)
-----------------------------------------------------------------------------
(* demo/sharedauth: the client shares its login by a file.  The program that *)
(* takes the secret defines a callback for invalid logins, but installs none. *)
SharedAuthServerRelogin == Relogin("demo", Retried, <<>>)
SharedAuthServer ==
  Program(SharedAuthServerRelogin, Executes("demo"),
    << LogIn("demo", Retried, {}), RegisterRetried("hello"), Serve >>)

SharedAuthClientRelogin == Relogin("demo", Retried, <<>>)
SharedAuthClientCall ==
  UseUntilCalled("demo", "demo", "hello", Retried \ {"AccessDenied"})
SharedAuthClient ==
  Program(SharedAuthClientRelogin, NoServant,
    << LogIn("demo", Retried, {}), SharedAuthClientCall, Share("demo", {}) >>)

SharedAuthCall ==
  UseUntilCalled("demo", "demo", "hello", Retried \ {"AccessDenied"})
SharedAuth ==
  Program(NoRelogin, NoServant, << LogInShared("demo", Retried, {}), SharedAuthCall >>)

(* interop/sharedauth: any exception makes main return *)
Anything == AnyException \cup {"InvalidLoginProcess", "CodecFailure"}
Sharing ==
  Program(NoRelogin, NoServant, << LogIn("interop", {}, Anything), Share("interop", Anything) >>)
Consuming ==
  Program(NoRelogin, NoServant, << LogInShared("interop", {}, Anything) >>)
-----------------------------------------------------------------------------
(* demo/audit: the proxy calls the server in the chain of its own caller *)
AuditServer ==
  Program(NoRelogin, Executes("server"),
    << LogIn("server", {}, Reported \cup {"AccessDenied"}),
       Register("server", "hello", "each", {}, Reported), Serve >>)

get_hello ==
  [Use("proxy", "server", "hello", {}, Reported) EXCEPT
     !.skips = Communication, !.keep = TRUE, !.done = "next"]
AuditProxy ==
  Program(NoRelogin, Forwards("proxy"),
    << LogIn("proxy", {}, Reported \cup {"AccessDenied"}), get_hello,
       Register("proxy", "hello", "each", {}, Reported), Serve >>)

AuditClient ==
  Program(NoRelogin, NoServant,
    << LogIn("demo", {}, Reported \cup {"AccessDenied"}),
       Use("demo", "proxy", "hello", {}, Reported) >>)

(* demo/multiplexing: three connections, one of which takes every call *)
MultiplexingServer ==
  LET Logins == {"AccessDenied"} \cup Reported
      Offer(as, language) == Register(as, language, "each", {}, Reported) IN
  Program(NoRelogin, Executes("demo2"),
    << LogIn("demo1", {}, Logins), LogIn("demo2", {}, Logins),
       LogIn("demo3", {}, Logins), Offer("demo1", "english"),
       Offer("demo2", "portuguese"), Offer("demo3", "german"), Serve >>)

MultiplexingClient ==
  LET Greet(entity, language) ==
        [Use("demo", entity, language, {}, Reported) EXCEPT
           !.none = "next", !.done = "next"] IN
  Program(NoRelogin, NoServant,
    << LogIn("demo", {}, Reported \cup {"AccessDenied"}), Greet("demo1", "english"),
       Greet("demo2", "portuguese"), Greet("demo3", "german") >>)

(* demo/chain_validation: the executive only takes calls of the secretary *)
ExecutiveServant == [Executes("executive") EXCEPT !.accepts = {"secretary"}]
Executive ==
  Program(NoRelogin, ExecutiveServant,
    << LogIn("executive", {}, Reported \cup {"AccessDenied"}),
       Register("executive", "message", "each", {}, Reported), Serve >>)

SecretaryServant == Forwards("secretary")
get_message ==
  [Use("secretary", "executive", "message", {}, Reported) EXCEPT
     !.keep = TRUE, !.done = "next"]
Secretary ==
  Program(NoRelogin, SecretaryServant,
    << LogIn("secretary", {}, Reported \cup {"AccessDenied"}), get_message,
       Register("secretary", "message", "each", {}, Reported),
       Register("secretary", "meeting", "each", {}, Reported), Serve >>)

ChainValidationClient ==
  Program(NoRelogin, NoServant,
    << LogIn("demo", {}, Reported \cup {"AccessDenied"}),
       [Use("demo", "secretary", "message", {}, Reported) EXCEPT !.none = "next"],
       [Use("demo", "executive", "message", {}, Reported) EXCEPT !.refused = TRUE] >>)
-----------------------------------------------------------------------------
(* interop/simple: the callback of an invalid login offers the service again *)
on_invalid_login == Relogin("interop", {}, << "hello" >>)
SimpleServer ==
  Program(on_invalid_login, Executes("interop"),
    << LogIn("interop", {}, AnyException),
       Register("interop", "hello", "each", {}, AnyException), Serve >>)

\* find_offers asks until an offer exists; the client calls them all.
find_offers(as, entity, service) ==
  [Use(as, entity, service, {}, AnyException) EXCEPT
     !.checked = TRUE, !.none = "again", !.done = "rest"]
SimpleClient ==
  Program(NoRelogin, NoServant,
    << LogIn("tester", {}, AnyException), find_offers("tester", "interop", "hello") >>)
-----------------------------------------------------------------------------
\* The programs that are run together.
Cast ==
  [ hello |-> << HelloServer, HelloServer, HelloClient >>,
    greetings |-> << GreetingsServer, GreetingsClient >>,
    independent_clock |-> << IndependentClockServer, IndependentClockClient >>,
    dedicated_clock |-> << DedicatedClockServer, DedicatedClockClient >>,
    sharedauth |-> << SharedAuthServer, SharedAuthClient, SharedAuth >>,
    sharing |-> << Sharing, Consuming >>,
    audit |-> << AuditServer, AuditProxy, AuditClient >>,
    multiplexing |-> << MultiplexingServer, MultiplexingClient >>,
    chain_validation |-> << Executive, Secretary, ChainValidationClient >>,
    simple |-> << SimpleServer, SimpleClient >> ]
=============================================================================
