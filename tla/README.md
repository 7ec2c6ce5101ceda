# OpenBus SDK for C++: a TLA+ development

This directory models the parts of the SDK (`src/src`, `src/include/openbus`)
whose correctness depends on the order in which threads, remote answers and
callbacks come: the connection to a bus, the retries of the client interceptor,
the sessions that it shares with servers, the validation of callers, the ticket
window and the caches they all use, the context that calls run in, and the signed
chains that calls carry; and the programs of `src/demo` and `src/interop` that use
the SDK, as processes on one bus. TLC checks the models on small instances; TLAPS
proves the most important results for every instance. Paths below are relative to the repository, with `src/` in
front, as in `PROJECT.json`.

## The system

A process has one `OpenBusContext` per ORB. It holds `Connection`s, each with
at most one login on a bus. The client interceptor puts a credential into every
request: the login of the current connection, the session shared with the
server, a ticket, the signed chain. The server interceptor checks it. What goes
wrong is answered with `NO_PERMISSION` and a minor code, which the client
interceptor turns into another attempt (`ForwardRequest`) or another exception.

| Component | State | Operations | Interacts with |
|---|---|---|---|
| `Connection` (`connection.cpp`) | `_state`, `_loginInfo`, `_invalid_login`, the remote references, `_loginCache`, `_buskey`, one renewer thread per login, the `InvalidLogin` callback; all under `_mutex`, mostly | the three logins, `startSharedAuth`, `logout`, `get_login`, `onInvalidLogin`, `renewLogin` | both interceptors, whose caches it clears on logout; the bus; the user's callback, which calls it back |
| Client interceptor (`interceptors/client.cpp`) | `_request_id2conn`, the caches of signed chains; each connection's `_profile2login` and `_login2session` | `send_request`, `receive_reply`, `receive_exception` | `Connection::get_login`, `_logout(true)`, the bus (nested calls) |
| Server interceptor (`interceptors/server.cpp`) | `_sessionLRUCache`: id, secret and tickets of each session | `receive_request_service_contexts` | the connection chosen for the dispatch, its login cache and bus key |
| Login cache (`login_cache.cpp`) | an LRU cache of callers' logins, each with its validity | `validateLogin` | the bus |
| Ticket window (`ticket.c`) | base, bitmap, index | `tickets_init`, `tickets_check` | server interceptor |
| LRU cache (`detail/lru_cache.hpp`) | list, index, size | `insert`, `fetch`, `fetch_ptr`, `touch`, `remove`, `clear` | all of the above |
| `OpenBusContext` (`openbus_context.cpp`) | the default connection, `id2conn`, the slots of the thread (current connection, joined chain) | set/get connections, join/exit/make/import chains, encode/decode | both interceptors, logout |
| Exported data (`openbus_context.cpp`, `shared_auth_secret.cpp`) | none: streams of bytes | `encodeChain`, `decodeChain`, `encodeSharedAuthSecret`, `decodeSharedAuthSecret` | joined chains; the file that two programs share a login by |
| Demos and tests (`src/demo`, `src/interop`) | a connection and its callback, the offers made and found, a facet | `main`: log in, `registerService`, `findServices`, call, serve, each in its retry loop; servants that forward calls | the SDK, the bus, one another |
| Delegation test (`src/interop/delegation`) | inboxes of the messenger, subscribers of the broadcaster, threads of the forwarder | `post`, `receivePosts`, `subscribe`, `unsubscribe`, `setForward`, `cancelForward`, `forwarding_thread::run` | one another, in the chains of their callers |
| Start-up, OpenSSL, logging | none that changes later | | |

Hard behaviours. *Concurrency*: application threads, dispatch threads and
renewers share a connection; the code often takes the mutex, drops it for a
remote call and takes it again, believing what it read before. *Failure*: the
bus and servers may fail or refuse at every call. *Ordering*: replies, and
therefore logins, logouts and tickets, overtake one another. *Time*: leases
expire while answers travel. `PROJECT.json` lists each hazard at its line.

What makes each component correct:

* Connection: one login at a time; the login in use has a live renewer and no
  other renewer goes on; the callback is only for logins that are really
  invalid; every call and every renewer of a dropped login ends.
* Interceptors: a request carries the login of the moment it is sent, also when
  it is sent again; the right side is blamed.
* Login cache: no login is accepted long after the bus stopped vouching for it.
* Ticket window: no ticket twice, none refused without reason.
* LRU cache: index and list agree and the size bounds them; nothing stale is ever
  returned.
* Sessions: a ticket is dispatched once, and for the login its session was made for;
  no session outlives the server's login.
* Context: every thread keeps the connection and the chain it chose.
* Signed chains: an answer finds its request; a chain is sent under the login and
  to the server it was signed for, and continues what its thread joined.
* Programs: a server that serves has offered its services, once; a client that
  goes on has made its call, once; loops end; calls are forwarded in their chain.
* Delegation: no post is lost or doubled; a canceled forward falls silent and ends;
  no lock is kept by a call that failed.

## Modules

| Module | Models |
|---|---|
| `Connection` | one connection, the threads that use it, its renewers and the `InvalidLogin` part of the client interceptor |
| `ConnectionProofs` | its inductive invariant and six safety theorems |
| `TicketSpec` | what a ticket window promises (abstract) |
| `Tickets` | `ticket.c` |
| `LRUCache` | the operations of the cache template, as functions |
| `CacheSpec` | what a cache promises (abstract) |
| `CacheUse` | any sequence of cache operations; implements `CacheSpec` |
| `LRUCacheProofs` | what those functions do to a cache that is in step, the invariants of `CacheUse` and the refinement, for every size |
| `LoginCache` | `validateLogin` by several threads; composed with `LRUCache` |
| `LoginCacheProofs` | its inductive invariant and two action properties |
| `CredentialSession` | the handshake of the two interceptors: the client's and the server's sessions, over `LRUCache`, and their tickets |
| `CredentialSessionProofs` | its inductive invariants, three safety theorems and the types; `Tickets` implements `TicketSpec`, for every window size |
| `ContextTable` | the context: default and current connections, the table of ids, joined chains; what a request takes from them |
| `ContextTableProofs` | its inductive invariant, two safety theorems and the types |
| `ExportedData` | the encoding of chains and secrets, as functions of the versions in a stream |
| `SignedChains` | the signed chain of a request, the caches of chains, the table of requests, the server's check; over `ExportedData` |
| `SignedChainsProofs` | its inductive invariant, four safety theorems and the types |
| `Programs` | the programs of `src/demo` and `src/interop` as data: statements, handlers, callbacks, servants |
| `Services` | processes that run those programs on one bus; over `Programs` and `ExportedData` |
| `ServicesProofs` | its inductive invariant, five safety theorems and the types, for every play of `Cast` |
| `Delegation` | the three servants of `src/interop/delegation`, the forwarder's threads, their clients |
| `DelegationProofs` | its inductive invariant, three safety theorems and the types |
| `MCStructures` | `Tickets` and `CacheUse` for TLC, which have no state in common: a behaviour uses one of them |
| `MC*`, the others | model values and symmetry sets for TLC |

### Connection

A section under `Connection::_mutex` is one action; between two sections every
other thread may act. `pc` names where a thread is:

* a login: `BeginLogin` (the check), `LoginInit`, `LoginRemote`, `Login`
  (`Connection::login`), `LoginLog` (the log line that reads `_loginInfo`);
* a logout: `BeginLogout` (the section of `_logout` under the lock, which also
  resets the references and interrupts the renewer), `LogoutRemote`;
* a remote call: `Send`, `GetLogin` and the callback loop of `get_login`
  (`OnInvalid`, `Forget`, `Callback`, `CallbackReturns`, `CallbackLogsIn`,
  `CallbackLogsOut`, `AfterCallback`), `Reply`, and the handling of
  `InvalidLogin` in `receive_exception` (`ReportedLogin`, `Registry`, the
  nested `getLoginValidity` with its own `GetLogin`, `Validity`, `Compare`,
  `Drop`, `SetInvalid`), which ends or sends again (`Retry`);
* a renewer, named by its login: `Renew` makes a remote call like any other,
  `RenewerEnds` is the interruption that arrives while it sleeps.

`facets` stands for all the references that `login_init` sets together and
`_logout` resets together. A null pointer or reference used by the code leads
to `aborted`, where the whole process stops. The bus is external: `issued` and
`valid` logins, `BusInvalidates` for the administrator and expired leases.
`held` and `stale` are history variables for the properties.

Abstractions: what credentials carry besides the login (sessions and tickets
are in `CredentialSession`, bus and chain in `ContextTable`); the callback may do nothing, log in or log out, but makes
no remote call of its own through the bus (it would recur into `get_login`);
construction and destruction of the connection, and with it
`conn_.unique()` in `renewLogin`; the bus never issues a login id twice.
`login_init` assembles what it needs by remote calls and writes the members under the
mutex (`connection.cpp:197`): the writes are one action, with the last of the calls.

### Ticket window

`history` is the `tickets_History`; the bitmap is the set of slots with bit 1.
`discardBase` and the branches of `tickets_check` are operators (`CheckNear`,
`Skip`); the recursion is unfolded once, which `OneRecursiveCall` justifies.
Sums of `tickets_Value` are modulo `ValueRange`. `TicketsAssumption` asks for
an unsigned long wider than a ticket, as in LP64 builds; where they are of the
same width the window may wrap, and nothing is claimed.

### LRU cache and login cache

`LRUCache` translates the template with `Countfn`; `insert` runs its eviction
loop once, which `SizeWithinBounds` justifies (the list is never empty there
and the size comes back to the bound). `CacheUse` keeps the order of uses in
`recent`, evicted keys included, to say which pair must go.

`LoginCache` splits `validateLogin` at every point where another thread may
come between: the two locked sections (`Lookup`, `Insert`), the two remote calls
(`Info`, `Validity`), the two unlocked writes to the shared entry (`Store`,
`Stamp`), the unlocked reads of the comparison of line 51 and the last one (`Answer`).
The comparison has three operands, two fields of the entry and `time(0)`. C++ leaves
their order open, so `Read` takes them one by one in any order, and `Check` decides
on the values read. Reads and writes of one field are atomic. Entries are reused when
neither the cache nor a thread refers to them, as the shared pointers allow. `known` is
how long the bus has said that a login is valid: an answer of 0 says nothing of the kind
and leaves it alone. `torn` is a history variable: another thread wrote to the entry
between two of a thread's reads.

### Sessions

`CredentialSession` has one client process with several threads, one server, and
both sides' connections, which log out and in at any moment. `pc[t]` is where
the request of a thread is, `cred[t]` its credential:

* in the client: `GetLogin`, `GetSession` (`get_session`), `TakeTicket` and
  `StoreTicket`, the two halves of `++session->ticket` (`client.cpp:321`), which
  happens without a lock; `InvalidCredential` is that branch of
  `receive_exception`;
* in the server: `Choose` (`get_dispatcher_connection`), `Validate`,
  `FetchSession`, `ReadTickets` and `MarkTicket`, the two halves of
  `tickets_check`, `Reset` and `AttachReset` (`send_credential_reset`: the new
  session, and then the login that is sent with it) and `Chain` (`validate_chain` and
  the dispatch).

`get_session` returns a pointer into the cache. When the session has been
replaced or cleared since, the pointer is dangling, and what it leads to is a
nondeterministic choice (`PointsTo`, and the other disjuncts of `TakeTicket`):
the old values, another session, no session that a server knows, or a crash.
Assertions and null pointers of the server, which logged out after it was chosen
(`server.cpp:237`, `285`), end its process (`Crash`), after which requests fail
(`NoServer`).

Abstractions: a hash is right exactly when the session is, so session and secret
are one name; the window is the set of accepted tickets, as `Tickets` is proved
to implement it, and wider than the tickets of an instance; a single operation of
a cache is atomic, although `clear_caches` runs under another mutex than the
rest; the login of the client is good, stale or refused as `Connection` and
`LoginCache` say.

Nothing in the SDK limits the dispatches of a server, so every request may be at any
step of the server at once. `FetchSession` and `Reset` hold the interceptor's mutex;
`send_credential_reset` keeps it until it has asked the connection for its login, which
a logout may change in between, and `Locked` says so. `tickets_check` runs after the
mutex was released (`server.cpp:328`): `raced` is a history variable with the sessions
whose window one dispatch has read while another had read it and not written it yet.
`Chain` follows the order of the code: an empty chain is refused before the bus key is
asserted, and a legacy chain for another target than the login of now is answered with a
new session (`check_legacy_chain`). Which of the two protocols a request has, and what is
in its chain, is left open here.

### Context

`ContextTable` has the slots of `PICurrent` as variables by thread: `current`,
`joined`, `signed` and `busid`. A dispatcher thread has `own` as well, the slot
of the thread that the ORB puts aside during a dispatch. `def_conn` and
`id2conn` hold weak pointers: `Lock` is null for a destroyed connection.
`Logout`, `SaveConnection`, `SaveChain` and `Restore` are `_logout(false)` with
the constructor and destructor of its `save_state`; `StartSharedAuth` and
`EndSharedAuth` the two sides of that remote call; `SendRequest` and
`FillCredential` the two moments at which a request reads its connection and its
bus; `Dispatch` and `EndDispatch` surround a call served. The functions that
answer "which connection?" are separate, because the code has two:
`CurrentConnection` is `getCurrentConnection`, `RequestConnection` the client
interceptor's.

Abstractions: the entry that a dispatch leaves in `id2conn` for good is dropped,
as is that of any id which no slot holds, so that ids can be used again; every
connection is on a bus of its own, which makes "the wrong bus" visible; a
dispatcher thread runs user code only inside dispatches; the contents of a chain
are its name. `chosen` and `asked` are history variables: what the thread last
asked for. `LegacyChain` is empty in the configurations; the proofs are for any.

### Signed chains

`SignedChains` follows a request through `send_request` (`GetLogin`, `GetSession`,
`Lookup`, `Sign`, `BusAnswers`, `Insert`, the end of which registers the request),
the server (`Authenticate`, `CheckChain`) and the interception points of its answer
(`Answer`, `InvalidCredential`, `Redirect`). `Sign` and `BusAnswers` are the nested
request to the bus, which runs through the interceptors itself: it writes its own id
into the thread's slot and the table, and takes the login of that moment. `Join` is
`joinChain` or `exitChain` with any chain that the functions of the context make, also
one that went through `encodeChain` and `decodeChain`. A chain is who calls, what it
continues and for whom it was signed; the key of a cached one is what its hash is made
from. In a legacy session the signature of a chain joined with protocol 2.1 is one
that was never written: `Garbage`, or whatever the memory held.

Abstractions: a session is a value (the dangling pointer of `get_session` is in
`CredentialSession`); a full cache is a lookup that finds nothing; the slot of the id
is reset when a request is over, since nobody reads it before the next one writes it,
and ids are per thread, so that few are enough; the server keeps all sessions of its
login; a logout is one step, with its clearing of the caches.

### Programs and services

`Programs` translates each `main` into a sequence of statements: a login, an offer, a
use of an offer, a shared authentication, or serving. A statement has the exceptions
after which its loop starts over and those that make `main` return; any other ends the
process, as `std::terminate` does. A `Use` also says what the program does with
several offers, after a call and without a call. The callback of `onInvalidLogin` and
the servant are data as well. `Cast` names the plays: which programs run together.

`Services` runs a play. Each process has a main thread (`pc`, the statement) and another
that renews the login, either of which may be inside the callback, nested when a
request of the callback is refused in turn (`inside`). One action is one remote call
with its outcome: `DoLogin` or `LoginFails`, `DoRegister` or `RegisterFails`,
`FindServices`, `TryNext` (one offer of the list that was found), `GetFacet`, `DoCall`
with the calls that servants forward, `ShareSecret`, `ReadSecret`, `loginBySharedAuth`,
and their failures. A call that fails may have been executed. A request that is refused
because its login is gone brings about four steps of its thread: the local logout
(`Refused` for main, `OtherFinds` for the other thread; `client.cpp:649`), the record of
the invalid login (`Records`; `client.cpp:650-659`), `get_login` of the request that is
sent again (`Resends`; `connection.cpp:558-583`), which runs the callback if it is still
due, and the callback's own steps. The references are nil from the first to the login of
the callback, and the steps of the other thread may come between any two. The bus is
external: logins, offers, which go with their login, and the login process of a shared
authentication, good for one login.

Abstractions: what is not in the script of a program (the text it prints, its
arguments); calls of servants are one step; a program whose threads could both be in
the SDK's own steps at once is the business of `Connection`. A login that its process
does not use and that has no offers stays valid (`Held`, `Offering`): nobody would see
it end.

### Delegation

In `Delegation` the sections of `forwarder.cpp` under a mutex are single actions, with
two locks that are held across remote calls: `mutex` of the broadcaster, while `post`
goes through its subscribers, and that of a forwarding thread, which is held at the
steps in `Holding`. `cancelForward` is three actions, `BeginCancel`, `CancelThread` and
`EraseThread`, since it releases the forwarder's mutex to take the thread's. A chain is
the sequence of entities that the messenger sees: `receivePosts` takes the posts of the
first. A failed call of a thread ends the forwarder's process (`Exit`) with the posts it
had. `posted`, `sent`, `received`, `lost` and `raced` are history variables.

Abstractions: the messenger's operations do not overlap (it has no lock and is right only
with one dispatch thread); the broadcaster's process and the messenger's do not fail;
clients keep their logins; the client's script is any sequence of calls within
`operations`, of which the script of `client.cpp` is one.

## Runs

| Run | Question | Bounds |
|---|---|---|
| `structures` | Is the window exact, does it promise what `TicketSpec` says? Do list and index of the cache agree, within the size? Do pairs go in the order of use, is an answer ever old? | 3 bits, tickets 0..11: full, partly full and empty windows, moves by less and by more than the window; a cache of 3 with 4 keys, 2 data |
| `connection` | One login at a time, each with its renewer? Are callbacks and credentials right while logins come and go under a call? | 2 threads that log in, one of which logs out; 2 logins (symmetric) whose renewers call; every callback |
| `connection_ends` | Does every call end, and the renewer of every dropped login? | 1 thread that logs in, out and calls, 2 logins, 1 renewer that calls; every callback |
| `login_cache` | Is an entry ever replaced behind its users? How stale may an accepted login be when no reads are torn? | 2 threads, 1 login, lease 2, delay 1, 7 moments |
| `credential_session` | Is a ticket dispatched once, but for a race in `tickets_check`, and each session for its login only? Does a session outlive the server's login? | 2 threads with a call each and as many dispatches at once, 3 logins of client and server together (symmetric), caches of 1, 5 sessions |
| `context_table` | Does each thread keep its connection and chain? Does a logout go out by its own connection? | a thread of the user and a dispatcher, 2 connections (symmetric), 1 chain, 4 ids |
| `chains` | Does an answer find its request, and what stays in the table? Is the chain the one joined, signed for the login and the server it is sent with? | 2 threads (symmetric) with a call each, 3 logins of client and server together, 1 lineage in both protocols, 1 redirected request, 3 ids |
| `services` | Do the retry loops of the programs offer and call what they should, once, and end, whatever fails? | the plays of `Cast` with loops or a forwarded call with 1 fault, of these `simple`, `sharing` and `independent_clock` with 2; `multiplexing` and `chain_validation` without |
| `delegation` | Are posts kept? Does a post reach the subscribers of its moment? Is every thread cancelable, silent when canceled, and over in the end? Does every call return? | 2 programs of one user, 1 of another, with 3, 2 and 2 calls, 1 post, 2 forwarding threads, 1 fault |

Two logins are enough for the races of a connection: one that is dropped and
one that takes its place; a third repeats the second (logins are only compared
for equality, and proofs cover any number of them). Two application threads and
a renewer are the actors of the races on a connection: one that changes the login,
one that calls. In `connection` the calls are the renewers', which take the same
path as an application's; `connection_ends` has both. The runs of a connection check no deadlock: a process whose
threads are all at rest, or that aborted, legitimately stops. Renewers renew
only the logins in `Renewing`, the others sleep until interrupted.

Each property has a mutant: a form of one definition with a plausible bug,
kept next to that definition and marked as such, under which TLC finds the property
violated.

Three runs end with a counterexample and show where the code and what is written
about it disagree:

| Run | Property | What it shows |
|---|---|---|
| `bus_forgotten` | `CredentialNamesBus` | after a logout the requests of that thread carry an empty bus id, which servers answer with `UnknownBus` |
| `login_torn` | `StaleWithinThriceDelay` | a thread reads the validity before, and its time after, the answer 0 is written, and accepts the login for a lease more |
| `ticket_twice` | `OneDispatchPerTicket` | two threads of a client take one ticket, two dispatches accept it |

A session is always to be had (`SessionAssumption`): there are more than two full caches
and the requests can refer to at once; the same holds of four ids with two threads
(`ContextAssumption`). A cache of 1 is full with its first session: the next one evicts it,
or replaces it, and a logout clears a full cache, which keeps nothing afterwards. The
sessions that could outlive a login are those that were in the cache when the server logged
out, and those that a reset puts into one that was still empty then. The three logins are given to the two sides as they need them: two
for one of them and one for the other. In `login_cache` there is one login, so that time
can pass; nothing is evicted there, and it is the theorem that covers evictions, with any
number of logins and any size.

Three logins are one that is dropped and one that follows it on either side of a signed
chain. One fault is enough to leave every retry loop once by each of its exits and to
come back to it; two let a callback fail that another fault brought about, and were given
to short plays that have such a callback or depend on one answer. The programs of
`multiplexing` and `chain_validation` have no loops: they end by the first exception, and a
forwarded call with a fault is in `audit`. In `delegation` the
first program has the three calls that it takes to have a thread erased by an
overlapping cancel; operations that a program does not call another one does.

`StaleOnlyIfTorn`: a validity counts from the moment it is stored
(`login_cache.cpp:57`), which is up to `Delay` seconds after the bus gave it; another
thread, whose own answer it overwrites, may stamp it as new up to `Delay` seconds later;
and a thread that compared them may take `Delay` seconds to return. That is the bound
when no write comes between the reads of a comparison. With one, the validity of an old
answer may be counted from the time of the next: the login is accepted for as long as
the old answer said, however long that is, and no multiple of `Delay` bounds it
(`login_torn`). `Delay` is an assumption on the environment. The lease of 2 in both runs is
longer than the delay, and 7 moments let a lease end, be renewed and end again.

### Fairness

`FairSpec` (run `connection_ends`) asks for weak fairness of
`Continue(t)`, one formula per thread: the operating system schedules every
thread, remote calls return or fail (the ORB reports a broken connection), the
user's callback returns. `RenewerEnds` is weakly fair because `boost::thread`
delivers an interruption at the next `sleep`. Nothing is assumed of the
application (it may stop logging in, or calling), nor of the bus, nor of
renewals. Calls still end because a retry needs a login that was dropped or
invalidated meanwhile and logins are finite: `LoginId` bounds them. A bus that
goes on issuing logins which it invalidates at once can keep a call retrying.

No liveness is claimed of the handshake of `CredentialSession`, and its `Spec` has no
fairness: calls need not end. A server's cache that was full when a logout cleared it keeps
no session (see below), and a client that is offered one after another sends its request
again for ever; two threads of a client can go on replacing the session that the other was
offered. Nothing in the code bounds the attempts (`client.cpp:602-603`).

`Spec` of `Services` has weak fairness of the main thread of each process only: its
sleeps end and its remote calls return or fail. Nothing makes the other thread run or a
fault happen, and faults are finite. `LoopsEnd` then says that from some point on every
program serves or has ended, or lacks an offer that answers; the programs whose loop has
no end, the clock clients, are left out by name (`Endless`).

`FairSpec` of `Delegation` asks for weak fairness of every dispatch and every
forwarding thread. `CancelThread` competes for a mutex that the thread gives up only
in `timed_wait` and takes again: strong fairness of it says that the operating system
lets a waiting thread have a mutex that is free again and again. Without it
`cancelForward` may starve, in the model and in principle.

## What else the models show of the code

These came up while modelling. They are part of the models, as the code does
them, and no property forbids them.

*Connection.* A logout resets the remote references, which `connection.hpp`
lists as changed only in the constructor, under a thread that is still logging
in (`connection.cpp:429-438`). Between `Compare` and `Drop` another thread may
log out and in again: `_logout(true)` drops the login that is there by then, a
valid one too (`client.cpp:649`). The login blamed in `receive_exception` is read when the
exception arrives, not when the request was sent: a server that refused the old
login rightly is reported as `InvalidRemote` (`client.cpp:614`, `664`). The
retry announced when the registry is gone (`client.cpp:629`) is thrown inside
the `try` whose handler turns it into `UnavailableBus`. Each login's log line
reads `_loginInfo` without the mutex (`connection.cpp:271`). `_renew_threads` gets an
element per login and loses none before the connection is destroyed
(`connection.cpp:220`). With no callback `_invalid_login` is reset without a look at which
login it names by now (`connection.cpp:577`).

A call that was comparing logins while `logout()` ran records an invalid login after
it (`client.cpp:653-656`), and the next call runs the callback for a login that
`logout()` had ended, which `src/tests/connection/loginByPassword/logout_on_invalid_login.cpp:60`
calls wrong ('Callback onInvalidLogin executada indevidamente.').

*Sessions and caches.* `++session->ticket` is done without a lock (`client.cpp:321`): two
threads may send the same ticket, although `openbus_creden-2.1.idl:46` calls it a counter
that only grows; a server that checks one after the other refuses the second and makes a
new session. `clear_caches` runs under the mutex of the connection while other threads use
the caches under the interceptor's (`client.cpp:437`). `LRUCache::clear()` leaves
`_curr_size` as it was (`lru_cache.hpp:125-129`), although the comment of the template
(73-75) says that the collection grows until its size is reached: after a logout the cache
discards pairs before it is full, and if it was cleared when full, the pair just inserted.
With such a cache of sessions a server answers every attempt of a call with a new session,
without end. A logout between the choice of a dispatch's connection (`server.cpp:184`) and
the validation of the caller fails the assertion on `_loginCache` (285), or the one on
`_buskey` (237). A late answer may put a session of the last login back into the client's
cache after a logout, and a reset one into the server's: the session of the client's does
not authenticate the next login (`DispatchedForItsLogin`), and that of the server's was told
with the next login already, or not told at all (`SessionOfItsServer`), as
`send_credential_reset` crashes when there is none. A `NO_PERMISSION` of the server's own
call to the bus, whatever its minor code, is told to the caller as its login being invalid
(`server.cpp:288`).

*Signed chains.* The server of protocol 2.1 never compares the target of a chain with
itself (`server.cpp:209-220`); `TargetedAtServer` holds all the same, because a session
belongs to one login of the server (`SessionOfItsServer`). A chain signed after another thread has logged out and
in is kept under the key of the login before (`client.cpp:264-276`): it is found by nobody
but the request that had it signed, which gets `InvalidChain`. A session that is once
`is_legacy` stays so until a logout. In such a session the hash of a chain joined with
protocol 2.1 is made from an uninitialised signature (`client.cpp:354-359`). A joined
chain that the bus refuses is reported as `UnavailableBus` (`client.cpp:266-272`). The two
halves of `makeChainFor` may be signed for different logins (`openbus_context.cpp:305-340`).
A redirected request leaves its id in `_request_id2conn` (`client.cpp:711`). A chain of
protocol 2.1 only, encoded and decoded, makes the codec throw `FormatMismatch` from the
empty legacy version, where `openbus_context.hpp` announces only `InvalidEncodedStream`.

*Programs.* No server of the demos offers its services again after the callback has
logged in again: the offers of the login before are gone (`unoffered`). The callback of
`interop/simple` does, also while the main thread's registration waits to be sent
again, and offers twice. An answer of `registerService` that is lost makes the loop
offer twice. A registration of that callback which fails is printed and forgotten: the
server serves without an offer (`interop/simple/src/server.cpp:66`). From the local logout of one thread until
its callback has logged in again, `getOfferRegistry()` is nil for the main thread
(`demo/hello/src/server.cpp:222`). A server between two logins answers
`UnknownBus`, a `NO_PERMISSION` that the clients of the demos do not handle and end by.
A shared secret is good for one login: after a lost answer the retry ends the program
with `InvalidLoginProcess`, and so does a reference that is gone, as
`loginBySharedAuth` reports `OBJECT_NOT_EXIST` in that way. A file of the secret that is
read before it is written to its end ends the program too (`sharedauth.cpp:205`). `demo/sharedauth/src/sharedauth.cpp`
defines a callback and never installs it; `call_with_found_clock` of the independent clock
always answers false; the clients of hello do not sleep when no offer is found.

*Delegation.* Two overlapping calls of `cancelForward` and a `setForward` between them
leave a thread that nobody can cancel (`forwarder.cpp:142-145`; `raced`). A `setForward`
between the cancellation and the erasure of a thread is answered as 'Already setup' and
lost. Posts that are with the forwarder when a remote call fails are lost, as
`receivePosts` has erased them. `client.cpp` logs out and in and goes on calling in one
thread, which `bus_forgotten` concerns. The messenger has no lock: two dispatches at once
change and iterate one multimap (`messenger.cpp:48`).

*Context.* `setCurrentConnection(null)` erases the entry and leaves its id in the
slot. From then on `getCurrentConnection` answers null and the client interceptor
takes the default connection. Logout and `startSharedAuth` save the connection that
`getCurrentConnection` answers, the default one if the thread had none of its own, and set it:
the thread is tied to it afterwards. A thread that has joined a chain cannot log
out its own connection: `save_state` asks for the chain when the login is gone,
and `getJoinedChain` follows a null pointer (`openbus_context.cpp:302`). A
servant that has joined no chain comes back from a logout in its caller's chain, or
crashes when its connection has no login by then (`openbus_context.cpp:195`). A
joined chain of protocol 2.0, and any joined by a thread without a current connection,
is lost. The bus id is read after the login (`client.cpp:309`), and is empty when a
logout comes between. When `startLoginBySharedAuth` throws, `cancel()` is called
through a pointer that was never set (`connection.cpp:344`). Every dispatch
adds an entry to `id2conn` that nothing erases (`server.cpp:138`).

## Proofs

*Ticket window* (the second part of `CredentialSessionProofs`). `WindowInv`, which is
`HistoryTypeOK /\ WindowExact`, is inductive. A
sequence of lemmas states what `discardBase` and `Skip` do to the tickets the
slots stand for: slots are distinct within a window, the run is followed by a
clear bit or fills the bitmap, and the window moves by exactly one more than
the run. From these follow that a check answers as `TicketSpec` allows
(`AtMostOnceHolds`) and that the recursive call finds the ticket near
(`OneRecursiveCallHolds`). They rest on `TicketsAssumption` only.

*Connection* (`ConnectionProofs`). The properties are not inductive as they
stand: that a renewer is uninterrupted depends on which logins may still become the
connection's, and that a callback is right on what the local copies of each
thread may hold. `IInv` adds: every login held was issued, a login in the
hands of a logging-in thread (`granted`) is held by no other thread and was
never the connection's, its renewer is unborn, every dropped login is
interrupted, and at each step of `receive_exception` the reported login is
either no longer valid or already dropped. TLC agrees on the instances
above; TLAPS proves that it is inductive and gives the five invariants and
the action property, for any number of threads and logins, under
`ConnectionAssumption`.

*LRU cache* (`LRUCacheProofs`). `Cache(K, D)` is the set of caches
whose list and index agree and whose size is at least the length of the list. A lemma per
function says that it maps such a cache to such a cache, what it does to the pairs (`Pairs`)
and to their order (`Erased`, `Touched`, `Pushed`, `Evicted`); what a fetch answers depends
on the pairs only (`SameDatum`). `ListIndexAndSize` follows at once, and `NothingStale` step by step.
`LeastRecentlyUsedGoes` needs more: `recent` names no key twice, and its first keys are
those of the list (`OInv`); a use moves a key to the front of both. The only assumption
is `MaxSizeAssumption`. The list need not be as long as `_curr_size` says (`clear`), so
the invariant bounds its length and does not fix it. The names of `CacheUse` begin with
`Use` where the modules that take these lemmas have the same ones (`UseSpec`); its variables
do not occur in their proofs.

*Login cache* (`LoginCacheProofs`), over the same lemmas. How late a login is accepted
depends on what may be in its entry, and entries are shared and reused. `IInv`
therefore says first who refers to an entry: two references, of threads or of the cache,
are of one login, and one that is not in the cache yet belongs to one thread
(`OwnerInv`). An entry to reuse is always to be had: the proof counts entries
(`UnusedEntry`), from the cardinalities in `LoginCacheAssumption`. Then it bounds the times
(`TimeInv`): a validity stored but not stamped is counted from the answer of the bus and is
at most `Delay` too late; the stamp adds at most `Delay` again, whichever thread's validity
it dates. What a thread has read of the entry is what the entry still holds, until it has
read all (`SeenOfEntry`); then the sum of the two fields keeps that bound (`SeenWithin`),
both unless the reads are torn. `StaleOnlyIfTorn` is read off at the two steps that accept,
`Check` and `Answer`, where the clock has moved by at most `Delay` since it was read
(`AcceptedInTime`), and `EntryNotReplaced` from the pairs. `Delay` and `Lease` may be any
numbers.

*Sessions* (`CredentialSessionProofs`), again over the lemmas of the LRU cache. `IInv`
says that both caches are in step, that a request which has passed `get_session` names a
session, and that a request past `FetchSession` is one of its session's login. A new
session is always to be had: `UnusedSession` counts what two caches and the requests may
refer to, from the cardinalities in `SessionAssumption`. `DispatchedForItsLogin` follows
at once, whatever a dangling pointer leads to. `OneDispatchUnlessRaced` is proved for any
number of dispatches at once. It needs `TicketInv`: unless the session is in `raced`, what
was read of the window is still true when it is written (`MarkInv`), and a marked ticket is
in the hands of one request or dispatched, never both (`ChainInv`). `SessionOfItsServer`
needs `HeldInv`: a session in the server's cache names the login of now, or is at `attach`,
or the process is gone; a logout clears the cache, but not the session that a reset has put
into it and not named yet, whose dispatch keeps that step to itself (`AttachStays`). Tickets
have no bound in the proofs, nor in `TypeOK`. The types need of a request what `IInv` leaves
out: from `GetLogin` on its login is one (`LoginKept`).

*Context* (`ContextTableProofs`). `ContextKept` says where a thread is at home; the
invariant must say where its connection is while an operation has put another in its slot:
in `previous`, and the slot leads to the operation's (`KeepsConnection`, `KeepsChain`).
Steps of other threads keep this because an id is in one slot only (`SlotInv`), so that the
entry which `setCurrentConnection` erases is nobody else's, and because an operation keeps
its connections alive. `TwoFree` counts ids for the two that a dispatch makes; it is the
only use of `ContextAssumption` beyond names.

*Signed chains* (`SignedChainsProofs`). What a request may be at each step depends on its
record, on what its thread has joined and on the connection's login, never on another
thread; `Fits` says it as a predicate of these, so that a step of one thread is one
obligation about its new record (`MovesFits`). `Formed` gives the types by step, `Chained`
the entity and the lineage, `Dated` the login: while a request's login is the connection's,
so was it when the chain was signed, since the bus issues none twice. `CacheInv` says the
same of a cached chain and its key. `TableInv` is about ids alone. That a thread has never
joined chains of two protocols goes through `encodeChain` and `decodeChain`
(`DecodedChain`); with it, the signature that a request of protocol 2.1 reads is the
joined one, although one of protocol 2.0 may read garbage (`KeyOfRequest`).

*Delegation* (`DelegationProofs`). `PostsKept` counts copies; the invariant says where the
one copy is. `Once` names the inboxes and the threads that have a post (`Box`, `Hand`): at
most one of all, none after it was received or lost, and neither inboxes nor threads name a
post twice, so that what `receivePosts` empties and what `run` posts one by one is what
disappears. That a post is new when the broadcaster sends it comes from `PostInv`: the call
that has the mutex has reached the subscribers before its turn and no other (`InTurn`),
nobody is subscribed twice, and nobody else changes the subscribers meanwhile. With it
`SubscribersReached` follows when the call ends. A thread asks for the inbox of its own user
and posts in no chain because it is in the chain of its user at `receive` and in none at
`forward` (`InOrder`). `ThreadsInHand` needs `CancelInv`: what a call of `cancelForward` has
found is still the entity's thread when it is erased, and canceled by then, unless a second
call overlapped (`raced`). The numbers of posts stay in `Name` because calls that wait for
the mutex are counted (`NumberInv`), which needs finitely many clients, in
`DelegationAssumption`. TLC agrees that the invariant holds on the instance of `delegation`
and on one with two posts and two faults.

*Programs* (`ServicesProofs`). The proof does not go play by play. A first part shows that
every program of `Cast` is `Good` (`CastGood`): logins before offers, each service offered
by one statement, serving at the end, a callback only for the one entity of a program, no
way out of a call that is looked for until it is made (`GoodUse`), and who may call a
servant that forwards (`GoodCaller`). What follows is about good programs only, for any
set of plays, any number of processes and faults. `IInv` has a part per process
(`ProcessInv`), and a step of one process keeps those of the others because their logins
are their own (`LoginInv`; `ProcessKept`, `StepKeeps`):

* `OfferInv`: the services of the statements that main has passed are offered by the login
  in use, unless `unoffered` says that it was lost. As serving comes last, this is
  `ServingIsOffered`.
* `CountInv`: the offers of a service, the one that main may still make (`Past`) and those
  that suspended requests of a callback may still make (`Due`) are together no more than
  `1 + repeats`. `NoSpareOffers` alone is not inductive: a request that is suspended is an
  offer still to come. A thread that enters the callback while main registers pays for it
  in `repeats`; one that enters while main serves has just lost the offers.
* `SuspendInv`: a thread has at most as many requests suspended as there were faults, and
  one less while the login is gone, since each login of a process that runs ends by a fault
  (`LostKept`). With it the nesting of callbacks has the bound of `TypeOK`.
* `WorkInv`: a statement main is still at has made as many calls as it is to repeat, and
  one that was left without being looked for in vain has made one: `CalledInTheEnd`.
* `NilInv`: with the login gone and no registry some thread relogs the program (`Relogs`):
  it has dropped the login, has recorded it and will find the callback due, or is in the
  callback. Main itself is at none of these when it asks for the registry, so it is the
  other thread.
* `FoundInv`: offers that main tries are of logins of the entity it looked for, so that
  `GoodCaller` says who executes the call: `OnlyThroughSecretary` (`ExecutedWell`).
* `ThreadInv`: who can be in the callback, at which statement and with what suspended.

TLC agrees that the invariant holds on the plays of `services` with up to four faults. In
`Listing` the order of the offers found is the bus's choice, and the proof uses none.

The types of `Tickets`, `Connection`, the login cache, the context, the signed chains, the
programs and delegation are part of the inductive invariants and are proved there.

Every safety property of a passing run is a theorem. Only
model-checked: the liveness properties (`CallsEnd`, `RenewersEnd`, `LoopsEnd`,
`CallsReturn`, `CanceledEnd`; fairness and `ENABLED` are out of the prover's reach). The
properties of the violation runs are refuted, and no theorem states them.

## Plan

Modelled, in this order: the connection and the ticket window, with their proofs; the LRU
cache and the login cache over it, with theirs; the sessions of the two interceptors, the
context, exported data and signed chains, with theirs; the programs on one bus and the
delegation test, with theirs. Next:

1. Legacy chains in the configurations of `ContextTable`, with a smaller instance (the
   theorems cover them).
2. `interop/reloggedjoin` and `interop/chaining` as plays of `Services`: their programs
   would only have to be shown `Good`.

## Not modelled

ORB start-up (sequential, before any thread), OpenSSL (its results are
outcomes), logging, the fields of a credential one by one, the bus itself
(external in every module), the construction of connections by address and by
reference, the programs `interop/chaining`, `interop/reloggedjoin`,
`interop/multiplexing` and `interop/protocol` (the first three have the scripts and
servants of programs in `Services`, the last sends malformed credentials by hand), the
unit tests, which are sequential. The self-deadlock of an ORB that dispatches a call on a
thread that waits for an answer, with a lock of a servant held, depends on the ORB's
configuration and is not modelled. The sleeps of `interop/delegation/src/client.cpp`, by
which it expects forwards to be over, are not either: time in `Delegation` only passes.
