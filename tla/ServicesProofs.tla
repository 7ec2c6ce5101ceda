--------------------------- MODULE ServicesProofs ---------------------------
(***************************************************************************)
(* What the programs on one bus keep to, in every play of Cast and for any *)
(* number of faults: the inductive invariant of Services, and the safety   *)
(* invariants that follow from it.                                         *)
(***************************************************************************)
EXTENDS Services, FiniteSetTheorems, SequenceTheorems, TLAPS
-----------------------------------------------------------------------------
(* What the programs of Cast have in common.                                 *)
Entity == {"demo", "demo1", "demo2", "demo3", "interop", "tester", "server", "proxy",
           "executive", "secretary"}
Service == {"hello", "english", "portuguese", "german", "clock", "message", "meeting"}
LogsIn(s) == s.do \in {"login", "login_shared"}
EntitiesOf(g) == {g.script[i].as : i \in {j \in DOMAIN g.script : LogsIn(g.script[j])}}

\* A statement but the last is made by a connection that logs in; a call that is
\* looked for until it is made leaves its statement in no other way.
GoodUse(s) ==
  /\ s.none \in {"again", "next", "return"}
  /\ s.done \in {"again", "next", "return", "rest"}
  /\ {s.keep, s.checked, s.refused} \subseteq BOOLEAN
  /\ s.keep => s.done # "rest"
  /\ s.none = "again" /\ ~s.checked =>
       s.returns = {} /\ ~s.refused /\ ~s.keep /\ s.done # "rest"
GoodStatement(s, entities) ==
  /\ s.do \in {"login", "login_shared", "register", "use", "share", "serve"}
  /\ s.do # "serve" => s.as \in entities /\ s.as \in Entity
  /\ s.do = "register" => s.service \in Service
  /\ s.do = "use" => GoodUse(s)

\* Offers come after the logins, each of a service of its own, and all else
\* before main serves calls.
GoodScript(g) ==
  /\ Len(g.script) \in Nat \ {0} /\ DOMAIN g.script = 1..Len(g.script)
  /\ \A i \in DOMAIN g.script : g.script[i].do = "serve" => i = Len(g.script)
  /\ \A i \in DOMAIN g.script : GoodStatement(g.script[i], EntitiesOf(g))
  /\ \A i, j \in DOMAIN g.script :
       g.script[i].do = "register" /\ LogsIn(g.script[j]) => j < i
  /\ \A i, j \in DOMAIN g.script :
       /\ g.script[i].do = "register" /\ g.script[j].do = "register"
       /\ g.script[i].service = g.script[j].service
       => i = j

\* A program with a callback has one connection and logs in first.  A callback
\* that makes offers makes the one of the script, and is not tried again.
GoodRelogin(g) ==
  /\ g.relogin.as = "none" => g.relogin.registers = <<>> /\ g.relogin.again = {}
  /\ g.relogin.as # "none" =>
       /\ EntitiesOf(g) = {g.relogin.as}
       /\ \A i \in DOMAIN g.script : LogsIn(g.script[i]) <=> i = 1
  /\ g.relogin.again # {} => g.relogin.registers = <<>> /\ g.relogin.again = Retried
  /\ g.relogin.registers # <<>> =>
       /\ Len(g.relogin.registers) = 1
       /\ Head(g.relogin.registers) \in Service
       /\ Len(g.script) = 3
       /\ g.script[2].do = "register"
       /\ g.script[2].service = Head(g.relogin.registers)
       /\ g.script[3].do = "serve"

Good(g) == GoodScript(g) /\ GoodRelogin(g)

\* Who calls a servant that forwards, or a servant of the last in a chain.
GoodCaller(g, h) ==
  \A i \in DOMAIN g.script :
    LET s == g.script[i] IN
    s.do = "use" /\ ~s.keep /\ s.entity \in EntitiesOf(h) =>
      /\ h.servant.kind = "forwards" => s.as = "demo"
      /\ h.servant.as \in {"executive", "server"} /\ h.servant.kind = "executes" =>
           "anyone" \notin h.servant.accepts /\ s.as \notin h.servant.accepts
GoodServant(h) ==
  /\ h.servant.kind = "none" => h.servant.as = "none"
  /\ h.servant.kind \in {"none", "executes", "forwards"}
  /\ h.servant.kind # "none" =>
       \A i \in DOMAIN h.script : h.script[i].do # "login_shared"
-----------------------------------------------------------------------------
(* The programs of Cast are good.                                            *)

\* Each kind of statement is a good one.
LEMMA GoodStatements ==
  ASSUME NEW a \in Entity, NEW E, a \in E, NEW again, NEW returns, NEW v, NEW r, NEW e
  PROVE  /\ GoodStatement(LogIn(a, again, returns), E)
         /\ GoodStatement(LogInShared(a, again, returns), E)
         /\ v \in Service => GoodStatement(Register(a, v, r, again, returns), E)
         /\ GoodStatement(Use(a, e, v, again, returns), E)
         /\ GoodStatement(UseUntilCalled(a, e, v, again), E)
         /\ GoodStatement(Share(a, returns), E)
         /\ GoodStatement(Serve, E)
  <1>1. /\ GoodStatement(LogIn(a, again, returns), E)
        /\ GoodStatement(LogInShared(a, again, returns), E)
    BY DEF GoodStatement, LogIn, LogInShared
  <1>2. v \in Service => GoodStatement(Register(a, v, r, again, returns), E)
    BY DEF GoodStatement, Register
  <1>3. GoodStatement(Use(a, e, v, again, returns), E)
    BY DEF GoodStatement, GoodUse, Use
  <1>4. GoodStatement(UseUntilCalled(a, e, v, again), E)
    BY DEF GoodStatement, GoodUse, Use, UseUntilCalled
  <1>5. GoodStatement(Share(a, returns), E) /\ GoodStatement(Serve, E)
    BY DEF GoodStatement, Share, Serve
  <1> QED  BY <1>1, <1>2, <1>3, <1>4, <1>5

\* What each kind of statement is, and by which entity.
LEMMA Kinds ==
  ASSUME NEW a, NEW again, NEW returns, NEW v, NEW r, NEW e
  PROVE  /\ LogsIn(LogIn(a, again, returns)) /\ LogIn(a, again, returns).as = a
         /\ LogIn(a, again, returns).do = "login"
         /\ LogsIn(LogInShared(a, again, returns))
         /\ LogInShared(a, again, returns).as = a
         /\ LogInShared(a, again, returns).do = "login_shared"
         /\ Register(a, v, r, again, returns).do = "register"
         /\ Register(a, v, r, again, returns).service = v
         /\ ~LogsIn(Register(a, v, r, again, returns))
         /\ ~LogsIn(Use(a, e, v, again, returns))
         /\ Use(a, e, v, again, returns).do = "use"
         /\ ~LogsIn(UseUntilCalled(a, e, v, again))
         /\ UseUntilCalled(a, e, v, again).do = "use"
         /\ ~LogsIn(Share(a, returns)) /\ Share(a, returns).do = "share"
         /\ ~LogsIn(Serve) /\ Serve.do = "serve"
  BY DEF LogsIn, LogIn, LogInShared, Register, Use, UseUntilCalled, Share, Serve

\* A script of n statements of one entity, which logs in first.
OneEntity(g, a, n) ==
  /\ Len(g.script) = n /\ DOMAIN g.script = 1..n
  /\ LogsIn(g.script[1]) /\ g.script[1].as = a
  /\ \A i \in 2..n : ~LogsIn(g.script[i])
  /\ \A i \in 1..n : g.script[i].do = "serve" => i = n
  /\ \A i \in 1..n : GoodStatement(g.script[i], {a})
  /\ \A i, j \in 1..n :
       /\ g.script[i].do = "register" /\ g.script[j].do = "register"
       /\ g.script[i].service = g.script[j].service
       => i = j

LEMMA OneEntityGood ==
  ASSUME NEW g, NEW a, NEW n \in Nat \ {0}, OneEntity(g, a, n)
  PROVE  /\ GoodScript(g) /\ EntitiesOf(g) = {a}
         /\ \A i \in DOMAIN g.script : LogsIn(g.script[i]) <=> i = 1
  <1> USE DEF OneEntity
  <1>1. \A i \in DOMAIN g.script : LogsIn(g.script[i]) <=> i = 1
    OBVIOUS
  <1>2. EntitiesOf(g) = {a}
    <2>1. {j \in DOMAIN g.script : LogsIn(g.script[j])} = {1}
      BY <1>1
    <2> QED  BY <2>1 DEF EntitiesOf
  <1>3. \A i, j \in DOMAIN g.script :
          g.script[i].do = "register" /\ LogsIn(g.script[j]) => j < i
    BY <1>1 DEF LogsIn
  <1> QED  BY <1>1, <1>2, <1>3 DEF GoodScript

\* The callbacks: none, one that logs in, one that makes the offer of main too.
LEMMA GoodRelogins ==
  ASSUME NEW g, NEW a,
         g.relogin = NoRelogin
         \/ /\ g.relogin = Relogin(a, Retried, <<>>)
            /\ EntitiesOf(g) = {a} /\ a # "none"
            /\ \A i \in DOMAIN g.script : LogsIn(g.script[i]) <=> i = 1
  PROVE  GoodRelogin(g)
  BY DEF GoodRelogin, NoRelogin, Relogin

LEMMA GoodServants ==
  ASSUME NEW g, NEW a,
         \/ g.servant = NoServant
         \/ /\ g.servant \in {Executes(a), Forwards(a)}
            /\ \A i \in DOMAIN g.script : g.script[i].do # "login_shared"
  PROVE  GoodServant(g)
  BY DEF GoodServant, NoServant, Executes, Forwards

\* A script of one entity, its callback and its servant make a program.
LEMMA OneEntityProgram ==
  ASSUME NEW g, NEW a, NEW n \in Nat \ {0}, OneEntity(g, a, n), a # "none",
         g.relogin \in {NoRelogin, Relogin(a, Retried, <<>>)},
         \/ g.servant = NoServant
         \/ /\ g.servant \in {Executes(a), Forwards(a)}
            /\ \A i \in DOMAIN g.script : g.script[i].do # "login_shared"
  PROVE  Good(g) /\ GoodServant(g) /\ EntitiesOf(g) = {a}
  <1>1. /\ GoodScript(g) /\ EntitiesOf(g) = {a}
        /\ \A i \in DOMAIN g.script : LogsIn(g.script[i]) <=> i = 1
    BY OneEntityGood
  <1>2. GoodRelogin(g)
    BY <1>1, GoodRelogins
  <1>3. GoodServant(g)
    BY GoodServants
  <1> QED  BY <1>1, <1>2, <1>3 DEF Good

\* A servant that takes calls of anybody, and executes them, but those of the
\* server of demo/audit, says nothing of its callers.
LEMMA AnyCaller ==
  ASSUME NEW g, NEW h, NEW a,
         h.servant = NoServant \/ (h.servant = Executes(a) /\ a \notin {"executive", "server"})
  PROVE  GoodCaller(g, h)
  BY DEF GoodCaller, NoServant, Executes

LEMMA HelloServerGood ==
  /\ Good(HelloServer) /\ GoodServant(HelloServer)
  /\ HelloServer.servant = Executes("demo") /\ EntitiesOf(HelloServer) = {"demo"}
  <1>1. /\ Len(HelloServer.script) = 3 /\ DOMAIN HelloServer.script = 1..3
        /\ HelloServer.script[1] = LogIn("demo", Retried, {})
        /\ HelloServer.script[2] = Register("demo", "hello", "each", Retried \cup {"UnauthorizedFacets"},
                  {"InvalidService", "InvalidProperties"})
        /\ HelloServer.script[3] = Serve
    BY DEF HelloServer, Program, HelloServerRelogin, RegisterRetried
  <1>2. OneEntity(HelloServer, "demo", 3)
    <2>1. \A i \in 1..3 : GoodStatement(HelloServer.script[i], {"demo"})
      BY <1>1, GoodStatements DEF Entity, Service
    <2>2. /\ LogsIn(HelloServer.script[1]) /\ HelloServer.script[1].as = "demo"
          /\ HelloServer.script[2].do = "register" /\ HelloServer.script[3].do = "serve"
      BY <1>1, Kinds
    <2> QED  BY <1>1, <2>1, <2>2 DEF OneEntity, LogsIn
  <1>3. /\ HelloServer.relogin = Relogin("demo", Retried, <<>>)
        /\ HelloServer.servant = Executes("demo")
    BY DEF HelloServer, Program, HelloServerRelogin, RegisterRetried
  <1>4. \A i \in DOMAIN HelloServer.script : HelloServer.script[i].do # "login_shared"
    BY <1>1, Kinds
  <1> QED  BY <1>2, <1>3, <1>4, OneEntityProgram

LEMMA HelloClientGood ==
  /\ Good(HelloClient) /\ GoodServant(HelloClient)
  /\ HelloClient.servant = NoServant /\ EntitiesOf(HelloClient) = {"demo"}
  <1>1. /\ Len(HelloClient.script) = 2 /\ DOMAIN HelloClient.script = 1..2
        /\ HelloClient.script[1] = LogIn("demo", Retried, {})
        /\ HelloClient.script[2] = UseUntilCalled("demo", "demo", "hello", Retried \ {"AccessDenied"})
    BY DEF HelloClient, Program, HelloClientRelogin, call_with_found_hello
  <1>2. OneEntity(HelloClient, "demo", 2)
    BY <1>1, GoodStatements, Kinds DEF OneEntity, Entity, Service, LogsIn
  <1>3. /\ HelloClient.relogin = Relogin("demo", Retried, <<>>)
        /\ HelloClient.servant = NoServant
    BY DEF HelloClient, Program, HelloClientRelogin, call_with_found_hello
  <1> QED  BY <1>2, <1>3, OneEntityProgram

LEMMA GreetingsServerGood ==
  /\ Good(GreetingsServer) /\ GoodServant(GreetingsServer)
  /\ GreetingsServer.servant = Executes("demo") /\ EntitiesOf(GreetingsServer) = {"demo"}
  <1>1. /\ Len(GreetingsServer.script) = 5 /\ DOMAIN GreetingsServer.script = 1..5
        /\ GreetingsServer.script[1] = LogIn("demo", Retried, {})
        /\ GreetingsServer.script[2] = Register("demo", "english", "once", Retried \cup {"UnauthorizedFacets"},
                  {"InvalidService", "InvalidProperties"})
        /\ GreetingsServer.script[3] = Register("demo", "portuguese", "once", Retried \cup {"UnauthorizedFacets"},
                  {"InvalidService", "InvalidProperties"})
        /\ GreetingsServer.script[4] = Register("demo", "german", "once", Retried \cup {"UnauthorizedFacets"},
                  {"InvalidService", "InvalidProperties"})
        /\ GreetingsServer.script[5] = Serve
    BY DEF GreetingsServer, Program, GreetingsServerRelogin, registerService
  <1>2. \A i \in 1..5 : GoodStatement(GreetingsServer.script[i], {"demo"})
    BY <1>1, GoodStatements DEF Entity, Service
  <1>3. OneEntity(GreetingsServer, "demo", 5)
    BY <1>1, <1>2, Kinds DEF OneEntity, LogsIn
  <1>4. /\ GreetingsServer.relogin = Relogin("demo", Retried, <<>>)
        /\ GreetingsServer.servant = Executes("demo")
    BY DEF GreetingsServer, Program, GreetingsServerRelogin, registerService
  <1>5. \A i \in DOMAIN GreetingsServer.script : GreetingsServer.script[i].do # "login_shared"
    BY <1>1, Kinds
  <1> QED  BY <1>3, <1>4, <1>5, OneEntityProgram

LEMMA GreetingsClientGood ==
  /\ Good(GreetingsClient) /\ GoodServant(GreetingsClient)
  /\ GreetingsClient.servant = NoServant /\ EntitiesOf(GreetingsClient) = {"demo"}
  <1>1. /\ Len(GreetingsClient.script) = 4 /\ DOMAIN GreetingsClient.script = 1..4
        /\ GreetingsClient.script[1] = LogIn("demo", Retried, {})
        /\ GreetingsClient.script[2] = UseUntilCalled("demo", "demo", "english", Retried \ {"AccessDenied"})
        /\ GreetingsClient.script[3] = UseUntilCalled("demo", "demo", "portuguese", Retried \ {"AccessDenied"})
        /\ GreetingsClient.script[4] = UseUntilCalled("demo", "demo", "german", Retried \ {"AccessDenied"})
    BY DEF GreetingsClient, Program, GreetingsClientRelogin, try_call_with_found_reference
  <1>2. OneEntity(GreetingsClient, "demo", 4)
    <2>1. \A i \in 1..4 : GoodStatement(GreetingsClient.script[i], {"demo"})
      BY <1>1, GoodStatements DEF Entity, Service
    <2>2. \A i \in 2..4 : GreetingsClient.script[i].do = "use"
      BY <1>1, Kinds
    <2> QED  BY <1>1, <2>1, <2>2, Kinds DEF OneEntity, LogsIn
  <1>3. /\ GreetingsClient.relogin = Relogin("demo", Retried, <<>>)
        /\ GreetingsClient.servant = NoServant
    BY DEF GreetingsClient, Program, GreetingsClientRelogin, try_call_with_found_reference
  <1> QED  BY <1>2, <1>3, OneEntityProgram

LEMMA IndependentClockServerGood ==
  /\ Good(IndependentClockServer) /\ GoodServant(IndependentClockServer)
  /\ IndependentClockServer.servant = Executes("demo") /\ EntitiesOf(IndependentClockServer) = {"demo"}
  <1>1. /\ Len(IndependentClockServer.script) = 3 /\ DOMAIN IndependentClockServer.script = 1..3
        /\ IndependentClockServer.script[1] = LogIn("demo", Retried, {})
        /\ IndependentClockServer.script[2] = Register("demo", "clock", "each", Retried \cup {"UnauthorizedFacets"},
                  {"InvalidService", "InvalidProperties"})
        /\ IndependentClockServer.script[3] = Serve
    BY DEF IndependentClockServer, Program, IndependentClockServerRelogin, RegisterRetried
  <1>2. OneEntity(IndependentClockServer, "demo", 3)
    <2>1. \A i \in 1..3 : GoodStatement(IndependentClockServer.script[i], {"demo"})
      BY <1>1, GoodStatements DEF Entity, Service
    <2>2. /\ LogsIn(IndependentClockServer.script[1]) /\ IndependentClockServer.script[1].as = "demo"
          /\ IndependentClockServer.script[2].do = "register" /\ IndependentClockServer.script[3].do = "serve"
      BY <1>1, Kinds
    <2> QED  BY <1>1, <2>1, <2>2 DEF OneEntity, LogsIn
  <1>3. /\ IndependentClockServer.relogin = Relogin("demo", Retried, <<>>)
        /\ IndependentClockServer.servant = Executes("demo")
    BY DEF IndependentClockServer, Program, IndependentClockServerRelogin, RegisterRetried
  <1>4. \A i \in DOMAIN IndependentClockServer.script : IndependentClockServer.script[i].do # "login_shared"
    BY <1>1, Kinds
  <1> QED  BY <1>2, <1>3, <1>4, OneEntityProgram

LEMMA IndependentClockClientGood ==
  /\ Good(IndependentClockClient) /\ GoodServant(IndependentClockClient)
  /\ IndependentClockClient.servant = NoServant /\ EntitiesOf(IndependentClockClient) = {"demo"}
  <1>1. /\ Len(IndependentClockClient.script) = 2 /\ DOMAIN IndependentClockClient.script = 1..2
        /\ IndependentClockClient.script[1] = LogIn("demo", Retried, {})
    BY DEF IndependentClockClient, Program, IndependentClockClientRelogin, call_with_found_clock
  <1>2. /\ GoodStatement(IndependentClockClient.script[2], {"demo"})
        /\ IndependentClockClient.script[2].do = "use"
    BY DEF GoodStatement, GoodUse, Entity, Use, UseUntilCalled, IndependentClockClient, Program, IndependentClockClientRelogin, call_with_found_clock
  <1>3. OneEntity(IndependentClockClient, "demo", 2)
    BY <1>1, <1>2, GoodStatements, Kinds DEF OneEntity, Entity, Service, LogsIn
  <1>4. /\ IndependentClockClient.relogin = Relogin("demo", Retried, <<>>)
        /\ IndependentClockClient.servant = NoServant
    BY DEF IndependentClockClient, Program, IndependentClockClientRelogin, call_with_found_clock
  <1> QED  BY <1>3, <1>4, OneEntityProgram

LEMMA DedicatedClockServerGood ==
  /\ Good(DedicatedClockServer) /\ GoodServant(DedicatedClockServer)
  /\ DedicatedClockServer.servant = Executes("demo") /\ EntitiesOf(DedicatedClockServer) = {"demo"}
  <1>1. /\ Len(DedicatedClockServer.script) = 3 /\ DOMAIN DedicatedClockServer.script = 1..3
        /\ DedicatedClockServer.script[1] = LogIn("demo", Retried, {})
        /\ DedicatedClockServer.script[2] = Register("demo", "clock", "each", Retried \cup {"UnauthorizedFacets"},
                  {"InvalidService", "InvalidProperties"})
        /\ DedicatedClockServer.script[3] = Serve
    BY DEF DedicatedClockServer, Program, DedicatedClockServerRelogin, RegisterRetried
  <1>2. OneEntity(DedicatedClockServer, "demo", 3)
    <2>1. \A i \in 1..3 : GoodStatement(DedicatedClockServer.script[i], {"demo"})
      BY <1>1, GoodStatements DEF Entity, Service
    <2>2. /\ LogsIn(DedicatedClockServer.script[1]) /\ DedicatedClockServer.script[1].as = "demo"
          /\ DedicatedClockServer.script[2].do = "register" /\ DedicatedClockServer.script[3].do = "serve"
      BY <1>1, Kinds
    <2> QED  BY <1>1, <2>1, <2>2 DEF OneEntity, LogsIn
  <1>3. /\ DedicatedClockServer.relogin = Relogin("demo", Retried, <<>>)
        /\ DedicatedClockServer.servant = Executes("demo")
    BY DEF DedicatedClockServer, Program, DedicatedClockServerRelogin, RegisterRetried
  <1>4. \A i \in DOMAIN DedicatedClockServer.script : DedicatedClockServer.script[i].do # "login_shared"
    BY <1>1, Kinds
  <1> QED  BY <1>2, <1>3, <1>4, OneEntityProgram

LEMMA DedicatedClockClientGood ==
  /\ Good(DedicatedClockClient) /\ GoodServant(DedicatedClockClient)
  /\ DedicatedClockClient.servant = NoServant /\ EntitiesOf(DedicatedClockClient) = {"demo"}
  <1>1. /\ Len(DedicatedClockClient.script) = 2 /\ DOMAIN DedicatedClockClient.script = 1..2
        /\ DedicatedClockClient.script[1] = LogIn("demo", Retried, {})
    BY DEF DedicatedClockClient, Program, DedicatedClockClientRelogin, get_clock
  <1>2. /\ GoodStatement(DedicatedClockClient.script[2], {"demo"})
        /\ DedicatedClockClient.script[2].do = "use"
    BY DEF GoodStatement, GoodUse, Entity, Use, UseUntilCalled, DedicatedClockClient, Program, DedicatedClockClientRelogin, get_clock
  <1>3. OneEntity(DedicatedClockClient, "demo", 2)
    BY <1>1, <1>2, GoodStatements, Kinds DEF OneEntity, Entity, Service, LogsIn
  <1>4. /\ DedicatedClockClient.relogin = Relogin("demo", Retried, <<>>)
        /\ DedicatedClockClient.servant = NoServant
    BY DEF DedicatedClockClient, Program, DedicatedClockClientRelogin, get_clock
  <1> QED  BY <1>3, <1>4, OneEntityProgram

LEMMA SharedAuthServerGood ==
  /\ Good(SharedAuthServer) /\ GoodServant(SharedAuthServer)
  /\ SharedAuthServer.servant = Executes("demo") /\ EntitiesOf(SharedAuthServer) = {"demo"}
  <1>1. /\ Len(SharedAuthServer.script) = 3 /\ DOMAIN SharedAuthServer.script = 1..3
        /\ SharedAuthServer.script[1] = LogIn("demo", Retried, {})
        /\ SharedAuthServer.script[2] = Register("demo", "hello", "each", Retried \cup {"UnauthorizedFacets"},
                  {"InvalidService", "InvalidProperties"})
        /\ SharedAuthServer.script[3] = Serve
    BY DEF SharedAuthServer, Program, SharedAuthServerRelogin, RegisterRetried
  <1>2. OneEntity(SharedAuthServer, "demo", 3)
    <2>1. \A i \in 1..3 : GoodStatement(SharedAuthServer.script[i], {"demo"})
      BY <1>1, GoodStatements DEF Entity, Service
    <2>2. /\ LogsIn(SharedAuthServer.script[1]) /\ SharedAuthServer.script[1].as = "demo"
          /\ SharedAuthServer.script[2].do = "register" /\ SharedAuthServer.script[3].do = "serve"
      BY <1>1, Kinds
    <2> QED  BY <1>1, <2>1, <2>2 DEF OneEntity, LogsIn
  <1>3. /\ SharedAuthServer.relogin = Relogin("demo", Retried, <<>>)
        /\ SharedAuthServer.servant = Executes("demo")
    BY DEF SharedAuthServer, Program, SharedAuthServerRelogin, RegisterRetried
  <1>4. \A i \in DOMAIN SharedAuthServer.script : SharedAuthServer.script[i].do # "login_shared"
    BY <1>1, Kinds
  <1> QED  BY <1>2, <1>3, <1>4, OneEntityProgram

LEMMA SharedAuthClientGood ==
  /\ Good(SharedAuthClient) /\ GoodServant(SharedAuthClient)
  /\ SharedAuthClient.servant = NoServant /\ EntitiesOf(SharedAuthClient) = {"demo"}
  <1>1. /\ Len(SharedAuthClient.script) = 3 /\ DOMAIN SharedAuthClient.script = 1..3
        /\ SharedAuthClient.script[1] = LogIn("demo", Retried, {})
        /\ SharedAuthClient.script[2] = UseUntilCalled("demo", "demo", "hello", Retried \ {"AccessDenied"})
        /\ SharedAuthClient.script[3] = Share("demo", {})
    BY DEF SharedAuthClient, Program, SharedAuthClientRelogin, SharedAuthClientCall
  <1>2. OneEntity(SharedAuthClient, "demo", 3)
    BY <1>1, GoodStatements, Kinds DEF OneEntity, Entity, Service, LogsIn
  <1>3. /\ SharedAuthClient.relogin = Relogin("demo", Retried, <<>>)
        /\ SharedAuthClient.servant = NoServant
    BY DEF SharedAuthClient, Program, SharedAuthClientRelogin, SharedAuthClientCall
  <1> QED  BY <1>2, <1>3, OneEntityProgram

LEMMA SharedAuthGood ==
  /\ Good(SharedAuth) /\ GoodServant(SharedAuth)
  /\ SharedAuth.servant = NoServant /\ EntitiesOf(SharedAuth) = {"demo"}
  <1>1. /\ Len(SharedAuth.script) = 2 /\ DOMAIN SharedAuth.script = 1..2
        /\ SharedAuth.script[1] = LogInShared("demo", Retried, {})
        /\ SharedAuth.script[2] = UseUntilCalled("demo", "demo", "hello", Retried \ {"AccessDenied"})
    BY DEF SharedAuth, Program, SharedAuthCall
  <1>2. OneEntity(SharedAuth, "demo", 2)
    BY <1>1, GoodStatements, Kinds DEF OneEntity, Entity, Service, LogsIn
  <1>3. /\ SharedAuth.relogin = NoRelogin
        /\ SharedAuth.servant = NoServant
    BY DEF SharedAuth, Program, SharedAuthCall
  <1> QED  BY <1>2, <1>3, OneEntityProgram

LEMMA SharingGood ==
  /\ Good(Sharing) /\ GoodServant(Sharing)
  /\ Sharing.servant = NoServant /\ EntitiesOf(Sharing) = {"interop"}
  <1>1. /\ Len(Sharing.script) = 2 /\ DOMAIN Sharing.script = 1..2
        /\ Sharing.script[1] = LogIn("interop", {}, Anything)
        /\ Sharing.script[2] = Share("interop", Anything)
    BY DEF Sharing, Program
  <1>2. OneEntity(Sharing, "interop", 2)
    BY <1>1, GoodStatements, Kinds DEF OneEntity, Entity, Service, LogsIn
  <1>3. /\ Sharing.relogin = NoRelogin
        /\ Sharing.servant = NoServant
    BY DEF Sharing, Program
  <1> QED  BY <1>2, <1>3, OneEntityProgram

LEMMA ConsumingGood ==
  /\ Good(Consuming) /\ GoodServant(Consuming)
  /\ Consuming.servant = NoServant /\ EntitiesOf(Consuming) = {"interop"}
  <1>1. /\ Len(Consuming.script) = 1 /\ DOMAIN Consuming.script = 1..1
        /\ Consuming.script[1] = LogInShared("interop", {}, Anything)
    BY DEF Consuming, Program
  <1>2. OneEntity(Consuming, "interop", 1)
    BY <1>1, GoodStatements, Kinds DEF OneEntity, Entity, Service, LogsIn
  <1>3. /\ Consuming.relogin = NoRelogin
        /\ Consuming.servant = NoServant
    BY DEF Consuming, Program
  <1> QED  BY <1>2, <1>3, OneEntityProgram

LEMMA AuditServerGood ==
  /\ Good(AuditServer) /\ GoodServant(AuditServer)
  /\ AuditServer.servant = Executes("server") /\ EntitiesOf(AuditServer) = {"server"}
  <1>1. /\ Len(AuditServer.script) = 3 /\ DOMAIN AuditServer.script = 1..3
        /\ AuditServer.script[1] = LogIn("server", {}, Reported \cup {"AccessDenied"})
        /\ AuditServer.script[2] = Register("server", "hello", "each", {}, Reported)
        /\ AuditServer.script[3] = Serve
    BY DEF AuditServer, Program
  <1>2. OneEntity(AuditServer, "server", 3)
    BY <1>1, GoodStatements, Kinds DEF OneEntity, Entity, Service, LogsIn
  <1>3. /\ AuditServer.relogin = NoRelogin
        /\ AuditServer.servant = Executes("server")
    BY DEF AuditServer, Program
  <1>4. \A i \in DOMAIN AuditServer.script : AuditServer.script[i].do # "login_shared"
    BY <1>1, Kinds
  <1> QED  BY <1>2, <1>3, <1>4, OneEntityProgram

LEMMA AuditProxyGood ==
  /\ Good(AuditProxy) /\ GoodServant(AuditProxy)
  /\ AuditProxy.servant = Forwards("proxy") /\ EntitiesOf(AuditProxy) = {"proxy"}
  <1>1. /\ Len(AuditProxy.script) = 4 /\ DOMAIN AuditProxy.script = 1..4
        /\ AuditProxy.script[1] = LogIn("proxy", {}, Reported \cup {"AccessDenied"})
        /\ AuditProxy.script[3] = Register("proxy", "hello", "each", {}, Reported)
        /\ AuditProxy.script[4] = Serve
    BY DEF AuditProxy, Program, get_hello
  <1>2. /\ GoodStatement(AuditProxy.script[2], {"proxy"})
        /\ AuditProxy.script[2].do = "use"
    BY DEF GoodStatement, GoodUse, Entity, Use, UseUntilCalled, AuditProxy, Program, get_hello
  <1>3. OneEntity(AuditProxy, "proxy", 4)
    BY <1>1, <1>2, GoodStatements, Kinds DEF OneEntity, Entity, Service, LogsIn
  <1>4. /\ AuditProxy.relogin = NoRelogin
        /\ AuditProxy.servant = Forwards("proxy")
    BY DEF AuditProxy, Program, get_hello
  <1>5. \A i \in DOMAIN AuditProxy.script : AuditProxy.script[i].do # "login_shared"
    BY <1>1, <1>2, Kinds
  <1> QED  BY <1>3, <1>4, <1>5, OneEntityProgram

LEMMA AuditClientGood ==
  /\ Good(AuditClient) /\ GoodServant(AuditClient)
  /\ AuditClient.servant = NoServant /\ EntitiesOf(AuditClient) = {"demo"}
  <1>1. /\ Len(AuditClient.script) = 2 /\ DOMAIN AuditClient.script = 1..2
        /\ AuditClient.script[1] = LogIn("demo", {}, Reported \cup {"AccessDenied"})
        /\ AuditClient.script[2] = Use("demo", "proxy", "hello", {}, Reported)
    BY DEF AuditClient, Program
  <1>2. OneEntity(AuditClient, "demo", 2)
    BY <1>1, GoodStatements, Kinds DEF OneEntity, Entity, Service, LogsIn
  <1>3. /\ AuditClient.relogin = NoRelogin
        /\ AuditClient.servant = NoServant
    BY DEF AuditClient, Program
  <1> QED  BY <1>2, <1>3, OneEntityProgram

LEMMA MultiplexingClientGood ==
  /\ Good(MultiplexingClient) /\ GoodServant(MultiplexingClient)
  /\ MultiplexingClient.servant = NoServant /\ EntitiesOf(MultiplexingClient) = {"demo"}
  <1>1. /\ Len(MultiplexingClient.script) = 4 /\ DOMAIN MultiplexingClient.script = 1..4
        /\ MultiplexingClient.script[1] = LogIn("demo", {}, Reported \cup {"AccessDenied"})
    BY DEF MultiplexingClient, Program
  <1>2. /\ GoodStatement(MultiplexingClient.script[2], {"demo"})
        /\ MultiplexingClient.script[2].do = "use"
    BY DEF GoodStatement, GoodUse, Entity, Use, UseUntilCalled, MultiplexingClient, Program
  <1>3. /\ GoodStatement(MultiplexingClient.script[3], {"demo"})
        /\ MultiplexingClient.script[3].do = "use"
    BY DEF GoodStatement, GoodUse, Entity, Use, UseUntilCalled, MultiplexingClient, Program
  <1>4. /\ GoodStatement(MultiplexingClient.script[4], {"demo"})
        /\ MultiplexingClient.script[4].do = "use"
    BY DEF GoodStatement, GoodUse, Entity, Use, UseUntilCalled, MultiplexingClient, Program
  <1>5. OneEntity(MultiplexingClient, "demo", 4)
    BY <1>1, <1>2, <1>3, <1>4, GoodStatements, Kinds DEF OneEntity, Entity, Service, LogsIn
  <1>6. /\ MultiplexingClient.relogin = NoRelogin
        /\ MultiplexingClient.servant = NoServant
    BY DEF MultiplexingClient, Program
  <1> QED  BY <1>5, <1>6, OneEntityProgram

LEMMA ExecutiveGood ==
  /\ Good(Executive) /\ GoodServant(Executive)
  /\ Executive.servant = ExecutiveServant /\ EntitiesOf(Executive) = {"executive"}
  <1>1. /\ Len(Executive.script) = 3 /\ DOMAIN Executive.script = 1..3
        /\ Executive.script[1] = LogIn("executive", {}, Reported \cup {"AccessDenied"})
        /\ Executive.script[2] = Register("executive", "message", "each", {}, Reported)
        /\ Executive.script[3] = Serve
    BY DEF Executive, Program
  <1>2. OneEntity(Executive, "executive", 3)
    BY <1>1, GoodStatements, Kinds DEF OneEntity, Entity, Service, LogsIn
  <1>3. /\ Executive.relogin = NoRelogin
        /\ Executive.servant = ExecutiveServant
    BY DEF Executive, Program
  <1>4. \A i \in DOMAIN Executive.script : Executive.script[i].do # "login_shared"
    BY <1>1, Kinds
  <1>5. GoodScript(Executive) /\ EntitiesOf(Executive) = {"executive"}
    BY <1>2, OneEntityGood
  <1>6. GoodRelogin(Executive)
    BY <1>3, GoodRelogins
  <1>7. GoodServant(Executive)
    BY <1>3, <1>4 DEF GoodServant, ExecutiveServant, Executes
  <1> QED  BY <1>3, <1>5, <1>6, <1>7 DEF Good

LEMMA SecretaryGood ==
  /\ Good(Secretary) /\ GoodServant(Secretary)
  /\ Secretary.servant = Forwards("secretary") /\ EntitiesOf(Secretary) = {"secretary"}
  <1>1. /\ Len(Secretary.script) = 5 /\ DOMAIN Secretary.script = 1..5
        /\ Secretary.script[1] = LogIn("secretary", {}, Reported \cup {"AccessDenied"})
        /\ Secretary.script[3] = Register("secretary", "message", "each", {}, Reported)
        /\ Secretary.script[4] = Register("secretary", "meeting", "each", {}, Reported)
        /\ Secretary.script[5] = Serve
    BY DEF Secretary, Program, get_message, SecretaryServant
  <1>2. /\ GoodStatement(Secretary.script[2], {"secretary"})
        /\ Secretary.script[2].do = "use"
    BY DEF GoodStatement, GoodUse, Entity, Use, UseUntilCalled, Secretary, Program, get_message, SecretaryServant
  <1>3. OneEntity(Secretary, "secretary", 5)
    BY SMTT(30), <1>1, <1>2, GoodStatements, Kinds DEF OneEntity, Entity, Service, LogsIn
  <1>4. /\ Secretary.relogin = NoRelogin
        /\ Secretary.servant = Forwards("secretary")
    BY DEF Secretary, Program, get_message, SecretaryServant
  <1>5. \A i \in DOMAIN Secretary.script : Secretary.script[i].do # "login_shared"
    BY <1>1, <1>2, Kinds
  <1> QED  BY <1>3, <1>4, <1>5, OneEntityProgram

LEMMA ChainValidationClientGood ==
  /\ Good(ChainValidationClient) /\ GoodServant(ChainValidationClient)
  /\ ChainValidationClient.servant = NoServant /\ EntitiesOf(ChainValidationClient) = {"demo"}
  <1>1. /\ Len(ChainValidationClient.script) = 3 /\ DOMAIN ChainValidationClient.script = 1..3
        /\ ChainValidationClient.script[1] = LogIn("demo", {}, Reported \cup {"AccessDenied"})
    BY DEF ChainValidationClient, Program
  <1>2. /\ GoodStatement(ChainValidationClient.script[2], {"demo"})
        /\ ChainValidationClient.script[2].do = "use"
    BY DEF GoodStatement, GoodUse, Entity, Use, UseUntilCalled, ChainValidationClient, Program
  <1>3. /\ GoodStatement(ChainValidationClient.script[3], {"demo"})
        /\ ChainValidationClient.script[3].do = "use"
    BY DEF GoodStatement, GoodUse, Entity, Use, UseUntilCalled, ChainValidationClient, Program
  <1>4. OneEntity(ChainValidationClient, "demo", 3)
    BY <1>1, <1>2, <1>3, GoodStatements, Kinds DEF OneEntity, Entity, Service, LogsIn
  <1>5. /\ ChainValidationClient.relogin = NoRelogin
        /\ ChainValidationClient.servant = NoServant
    BY DEF ChainValidationClient, Program
  <1> QED  BY <1>4, <1>5, OneEntityProgram

LEMMA SimpleServerGood ==
  /\ Good(SimpleServer) /\ GoodServant(SimpleServer)
  /\ SimpleServer.servant = Executes("interop") /\ EntitiesOf(SimpleServer) = {"interop"}
  <1>1. /\ Len(SimpleServer.script) = 3 /\ DOMAIN SimpleServer.script = 1..3
        /\ SimpleServer.script[1] = LogIn("interop", {}, AnyException)
        /\ SimpleServer.script[2] = Register("interop", "hello", "each", {}, AnyException)
        /\ SimpleServer.script[3] = Serve
    BY DEF SimpleServer, Program
  <1>2. OneEntity(SimpleServer, "interop", 3)
    BY <1>1, GoodStatements, Kinds DEF OneEntity, Entity, Service, LogsIn
  <1>3. /\ SimpleServer.relogin = on_invalid_login
        /\ SimpleServer.servant = Executes("interop")
    BY DEF SimpleServer, Program
  <1>4. \A i \in DOMAIN SimpleServer.script : SimpleServer.script[i].do # "login_shared"
    BY <1>1, Kinds
  <1>5. GoodRelogin(SimpleServer)
    BY <1>1, <1>2, <1>3, OneEntityGood, Kinds DEF GoodRelogin, on_invalid_login, Relogin, Service
  <1>6. GoodScript(SimpleServer) /\ EntitiesOf(SimpleServer) = {"interop"}
    BY <1>2, OneEntityGood
  <1>7. GoodServant(SimpleServer)
    BY <1>3, <1>4, GoodServants
  <1> QED  BY <1>3, <1>5, <1>6, <1>7 DEF Good

LEMMA SimpleClientGood ==
  /\ Good(SimpleClient) /\ GoodServant(SimpleClient)
  /\ SimpleClient.servant = NoServant /\ EntitiesOf(SimpleClient) = {"tester"}
  <1>1. /\ Len(SimpleClient.script) = 2 /\ DOMAIN SimpleClient.script = 1..2
        /\ SimpleClient.script[1] = LogIn("tester", {}, AnyException)
    BY DEF SimpleClient, Program, find_offers
  <1>2. /\ GoodStatement(SimpleClient.script[2], {"tester"})
        /\ SimpleClient.script[2].do = "use"
    BY DEF GoodStatement, GoodUse, Entity, Use, UseUntilCalled, SimpleClient, Program, find_offers
  <1>3. OneEntity(SimpleClient, "tester", 2)
    BY <1>1, <1>2, GoodStatements, Kinds DEF OneEntity, Entity, Service, LogsIn
  <1>4. /\ SimpleClient.relogin = NoRelogin
        /\ SimpleClient.servant = NoServant
    BY DEF SimpleClient, Program, find_offers
  <1> QED  BY <1>3, <1>4, OneEntityProgram

LEMMA MultiplexingServerGood ==
  Good(MultiplexingServer) /\ GoodServant(MultiplexingServer)
  /\ MultiplexingServer.servant = Executes("demo2")
  <1> DEFINE g == MultiplexingServer
             Logins == {"AccessDenied"} \cup Reported
             E == {"demo1", "demo2", "demo3"}
  <1>1. /\ Len(g.script) = 7 /\ DOMAIN g.script = 1..7
        /\ g.script[1] = LogIn("demo1", {}, Logins)
        /\ g.script[2] = LogIn("demo2", {}, Logins)
        /\ g.script[3] = LogIn("demo3", {}, Logins)
        /\ g.script[4] = Register("demo1", "english", "each", {}, Reported)
        /\ g.script[5] = Register("demo2", "portuguese", "each", {}, Reported)
        /\ g.script[6] = Register("demo3", "german", "each", {}, Reported)
        /\ g.script[7] = Serve
        /\ g.relogin = NoRelogin /\ g.servant = Executes("demo2")
    BY DEF MultiplexingServer, Program
  <1> HIDE DEF g
  <1>2. \A i \in 1..7 : LogsIn(g.script[i]) <=> i \in 1..3
    <2>1. LogsIn(g.script[1]) /\ LogsIn(g.script[2]) /\ LogsIn(g.script[3])
      BY <1>1, Kinds
    <2>2. /\ ~LogsIn(g.script[4]) /\ ~LogsIn(g.script[5]) /\ ~LogsIn(g.script[6])
          /\ ~LogsIn(g.script[7])
      BY SMTT(30), <1>1, Kinds
    <2> QED  BY <2>1, <2>2
  <1>3. EntitiesOf(g) = E
    <2>1. {j \in DOMAIN g.script : LogsIn(g.script[j])} = {1, 2, 3}
      BY <1>1, <1>2
    <2>2. /\ g.script[1].as = "demo1" /\ g.script[2].as = "demo2"
          /\ g.script[3].as = "demo3"
      BY <1>1, Kinds
    <2> QED  BY <2>1, <2>2 DEF EntitiesOf
  <1>4. \A i \in 1..7 : GoodStatement(g.script[i], E)
    BY <1>1, GoodStatements DEF Entity, Service
  <1>5. \A i \in 1..7 : g.script[i].do = "register" => i \in 4..6
    BY <1>1, Kinds DEF LogIn
  <1>6. \A i, j \in 4..6 : g.script[i].service = g.script[j].service => i = j
    <2>1. /\ g.script[4].service = "english" /\ g.script[5].service = "portuguese"
          /\ g.script[6].service = "german"
      BY <1>1 DEF Register
    <2> QED  BY <2>1
  <1>11. \A i \in 1..7 : g.script[i].do = "serve" => i = 7
    <2>1. \A i \in 1..3 : g.script[i].do = "login"
      BY <1>1 DEF LogIn
    <2>2. \A i \in 4..6 : g.script[i].do = "register"
      BY <1>1, Kinds
    <2> QED  BY <2>1, <2>2
  <1>7. GoodScript(g)
    BY <1>1, <1>2, <1>3, <1>4, <1>5, <1>6, <1>11 DEF GoodScript
  <1>8. GoodRelogin(g)
    BY <1>1, GoodRelogins
  <1>9. \A i \in DOMAIN g.script : g.script[i].do # "login_shared"
    <2>1. \A i \in 1..3 : g.script[i].do = "login"
      BY <1>1 DEF LogIn
    <2> QED  BY <1>1, <1>2, <2>1 DEF LogsIn
  <1>10. GoodServant(g)
    BY <1>1, <1>9, GoodServants
  <1> QED  BY <1>1, <1>7, <1>8, <1>10 DEF Good, g

\* Calls of demo/audit and demo/chain_validation.
LEMMA AuditCallers ==
  \A g \in {AuditServer, AuditProxy, AuditClient}, h \in {AuditServer, AuditProxy} :
    GoodCaller(g, h)
  <1>1. \A i \in DOMAIN AuditServer.script : AuditServer.script[i].do # "use"
    BY DEF AuditServer, Program, LogIn, Register, Serve
  <1>2. \A i \in DOMAIN AuditProxy.script :
          AuditProxy.script[i].do = "use" => AuditProxy.script[i].keep = TRUE
    <2>1. AuditProxy.script[2] = get_hello /\ get_hello.keep = TRUE
      BY DEF AuditProxy, Program, get_hello, Use
    <2>2. \A i \in DOMAIN AuditProxy.script : i # 2 => AuditProxy.script[i].do # "use"
      BY DEF AuditProxy, Program, LogIn, Register, Serve
    <2> QED  BY <2>1, <2>2
  <1>3. \A i \in DOMAIN AuditClient.script :
          AuditClient.script[i].do = "use" =>
            AuditClient.script[i].as = "demo" /\ AuditClient.script[i].entity = "proxy"
    BY DEF AuditClient, Program, LogIn, Use
  <1>4. AuditProxy.servant.as = "proxy"
    BY AuditProxyGood DEF Forwards
  <1> QED
    BY <1>1, <1>2, <1>3, <1>4, AuditServerGood DEF GoodCaller, Executes

LEMMA ChainCallers ==
  \A g \in {Executive, Secretary, ChainValidationClient}, h \in {Executive, Secretary} :
    GoodCaller(g, h)
  <1>1. \A i \in DOMAIN Executive.script : Executive.script[i].do # "use"
    BY DEF Executive, Program, LogIn, Register, Serve
  <1>2. \A i \in DOMAIN Secretary.script :
          Secretary.script[i].do = "use" => Secretary.script[i].keep = TRUE
    <2>1. Secretary.script[2] = get_message /\ get_message.keep = TRUE
      BY DEF Secretary, Program, get_message, Use
    <2>2. \A i \in DOMAIN Secretary.script : i # 2 => Secretary.script[i].do # "use"
      BY DEF Secretary, Program, LogIn, Register, Serve
    <2> QED  BY <2>1, <2>2
  <1>3. \A i \in DOMAIN ChainValidationClient.script :
          ChainValidationClient.script[i].do = "use" =>
            ChainValidationClient.script[i].as = "demo"
    BY DEF ChainValidationClient, Program, LogIn, Use
  <1>4. Secretary.servant.as = "secretary"
    BY SecretaryGood DEF Forwards
  <1>5. ExecutiveServant.accepts = {"secretary"}
    BY DEF ExecutiveServant, Executes
  <1> QED
    BY <1>1, <1>2, <1>3, <1>4, <1>5, ExecutiveGood DEF GoodCaller, Executes

\* Every play is of good programs, whose calls get to good servants.
LEMMA CastGood ==
  ASSUME NEW n \in DOMAIN Cast
  PROVE  /\ Len(Cast[n]) \in Nat
         /\ \A p \in 1..Len(Cast[n]) : Good(Cast[n][p]) /\ GoodServant(Cast[n][p])
         /\ \A p, q \in 1..Len(Cast[n]) : GoodCaller(Cast[n][p], Cast[n][q])
  <1> DEFINE Goal(c) ==
        /\ Len(c) \in Nat
        /\ \A p \in 1..Len(c) : Good(c[p]) /\ GoodServant(c[p])
        /\ \A p, q \in 1..Len(c) : GoodCaller(c[p], c[q])
  <1> HIDE DEF Goal
  <1>1. Goal(<<HelloServer, HelloServer, HelloClient>>)
    BY HelloServerGood, HelloClientGood, AnyCaller DEF Goal
  <1>2. Goal(<<GreetingsServer, GreetingsClient>>)
    BY GreetingsServerGood, GreetingsClientGood, AnyCaller DEF Goal
  <1>3. Goal(<<IndependentClockServer, IndependentClockClient>>)
    BY IndependentClockServerGood, IndependentClockClientGood, AnyCaller DEF Goal
  <1>4. Goal(<<DedicatedClockServer, DedicatedClockClient>>)
    BY DedicatedClockServerGood, DedicatedClockClientGood, AnyCaller DEF Goal
  <1>5. Goal(<<SharedAuthServer, SharedAuthClient, SharedAuth>>)
    BY SharedAuthServerGood, SharedAuthClientGood, SharedAuthGood, AnyCaller DEF Goal
  <1>6. Goal(<<Sharing, Consuming>>)
    BY SharingGood, ConsumingGood, AnyCaller DEF Goal
  <1>7. Goal(<<AuditServer, AuditProxy, AuditClient>>)
    BY AuditServerGood, AuditProxyGood, AuditClientGood, AuditCallers, AnyCaller
    DEF Goal
  <1>8. Goal(<<MultiplexingServer, MultiplexingClient>>)
    BY MultiplexingServerGood, MultiplexingClientGood, AnyCaller DEF Goal
  <1>9. Goal(<<Executive, Secretary, ChainValidationClient>>)
    BY ExecutiveGood, SecretaryGood, ChainValidationClientGood, ChainCallers, AnyCaller
    DEF Goal
  <1>10. Goal(<<SimpleServer, SimpleClient>>)
    BY SimpleServerGood, SimpleClientGood, AnyCaller DEF Goal
  <1>11. Goal(Cast[n])
    BY <1>1, <1>2, <1>3, <1>4, <1>5, <1>6, <1>7, <1>8, <1>9, <1>10 DEF Cast
  <1> QED  BY <1>11 DEF Goal
-----------------------------------------------------------------------------
(* The inductive invariant.                                                  *)
Statuses == {"running", "returned", "terminated", "crashed", "killed"}
Steps == {"outside", "dropped", "recorded", "login", "register", "resend"}
LoginRecord == [process : Process, entity : Entity, valid : BOOLEAN]
OfferRecord == [login : Nat, service : Service]
SecretRecord == [entity : Entity, used : BOOLEAN]
FoundRecord == [offers : Seq(Nat), several : BOOLEAN, listed : BOOLEAN]
InsideRecord == [step : Steps, suspended : Nat]
ConnRecord == [login : Nat, registry : BOOLEAN, pending : BOOLEAN]

ProcessTypes ==
  /\ pc \in [Process -> Nat] /\ status \in [Process -> Statuses]
  /\ reference \in [Process -> BOOLEAN] /\ found \in [Process -> FoundRecord]
  /\ facet \in [Process -> Nat] /\ peer \in [Process -> Nat]
  /\ inside \in [Process -> [Thread -> InsideRecord]]
  /\ works \in [Process -> Seq(Nat)] /\ repeats \in [Process -> Nat]
  /\ unoffered \subseteq Process
  /\ DOMAIN conn = Process
  /\ \A p \in Process :
       /\ pc[p] \in DOMAIN Script(p)
       /\ Len(works[p]) = Len(Script(p))
       /\ conn[p] \in [Entities(p) -> ConnRecord]

BusTypes ==
  /\ play \in Plays
  /\ faults \in 0..MaxFaults[play]
  /\ logins \in Seq(LoginRecord) /\ offers \in Seq(OfferRecord)
  /\ \A o \in DOMAIN offers : offers[o].login \in DOMAIN logins
  /\ secrets \in Seq(SecretRecord)
  /\ \/ file = NoStream
     \/ \E id \in DOMAIN secrets, legacy \in BOOLEAN :
          file = encodeSharedAuthSecret(SecretOf(id, legacy))

\* A login is of an entity of its process; one in use is of the process that uses
\* it, which has the references to the bus then.
LoginInv ==
  /\ \A l \in DOMAIN logins : LET q == logins[l].process IN
       servant(q).kind # "none" => logins[l].entity \in Entities(q)
  /\ \A p \in Process : \A e \in Entities(p) : conn[p][e].login # None =>
       /\ conn[p][e].login \in DOMAIN logins
       /\ logins[conn[p][e].login].process = p
       /\ conn[p][e].registry

\* The offers that main tries are of the entity it looked for.
FoundInv(p) ==
  /\ ~found[p].listed => facet[p] = None
  /\ found[p].listed =>
       /\ At(p).do = "use" /\ found[p].offers # <<>>
       /\ \A i \in DOMAIN found[p].offers : LET o == found[p].offers[i] IN
            o \in DOMAIN offers /\ logins[offers[o].login].entity = At(p).entity
  /\ facet[p] # None => facet[p] = Head(found[p].offers) /\ ~At(p).keep
  /\ peer[p] \in {None} \cup DOMAIN offers

\* Who drops a login or is in the callback: nobody without one, or before the
\* first login.
ReloginSteps == {"outside", "dropped", "recorded", "login"}
ThreadInv(p) ==
  /\ ~HasCallback(p) \/ (pc[p] = 1 /\ conn[p][relogin(p).as].login = None)
       => \A t \in Thread : inside[p][t] = Outside
  /\ HasCallback(p) /\ pc[p] = 1 /\ Running(p) => conn[p][relogin(p).as].login = None
  /\ inside[p]["main"] # Outside => At(p).do \in {"register", "use", "share"}
  /\ relogin(p).registers = <<>> =>
       \A t \in Thread : inside[p][t].step \in ReloginSteps
                         /\ inside[p][t].suspended = 0

\* Every request that is suspended has had a fault, and one more is due when the
\* login is gone.
Lost(c) == c.login # None => ~logins[c.login].valid
SuspendInv(p) ==
  \A t \in Thread :
    /\ inside[p][t].step = "outside" => inside[p][t] = Outside
    /\ inside[p][t].step = "recorded" => inside[p][t].suspended = 0
    /\ inside[p][t].suspended <= faults
    /\ /\ Running(p) /\ inside[p][t].step \in {"register", "resend"}
       /\ Lost(conn[p][relogin(p).as])
       => inside[p][t].suspended + 1 <= faults

\* The registry is nil after the login only while a thread has dropped the login
\* and not recorded it, will find it recorded, or logs in again.
Relogs(p) ==
  \E t \in Thread :
    \/ inside[p][t].step \in {"dropped", "login"}
    \/ inside[p][t].step = "recorded" /\ conn[p][relogin(p).as].pending
NilInv(p) ==
  relogin(p).again # {} =>
    /\ pc[p] > 1 /\ ~conn[p][relogin(p).as].registry => Relogs(p)
    /\ status[p] = "crashed" /\ At(p).do # "share" =>
         inside[p]["other"].step \in {"dropped", "recorded", "login"}

\* The services of the statements main has passed are offered.
OfferInv(p) ==
  p \notin unoffered =>
    \A i \in 1..(pc[p] - 1) : Script(p)[i].do = "register" =>
      LET l == conn[p][Script(p)[i].as].login IN
      l # None /\ (Valid(l) => OffersOf(l, Script(p)[i].service) # {})

\* How often each offer was made, and may still be made by suspended requests.
Due(p, t) ==
  inside[p][t].suspended
    + (IF inside[p][t].step \in {"login", "register", "resend"} THEN 1 ELSE 0)
Made(p, i) ==
  LET l == conn[p][Script(p)[i].as].login IN
  IF l = None THEN 0 ELSE Cardinality(OffersOf(l, Script(p)[i].service))
CountInv(p) ==
  \A i \in DOMAIN Script(p) : Script(p)[i].do = "register" =>
    Made(p, i) + (IF Past(p, i) THEN 0 ELSE 1)
      + (IF relogin(p).registers = <<>> THEN 0 ELSE Due(p, "main") + Due(p, "other"))
      <= 1 + repeats[p]

\* What a statement that main has not passed did, it did once for every repeat.
WorkInv(p) ==
  \A i \in DOMAIN Script(p) : Script(p)[i].do = "use" =>
    /\ works[p][i] <= (IF Past(p, i) THEN 1 ELSE 0) + repeats[p]
    /\ Script(p)[i].none = "again" /\ Past(p, i) /\ ~Script(p)[i].checked
         => works[p][i] >= 1

ProcessInv(p) ==
  /\ FoundInv(p) /\ ThreadInv(p) /\ SuspendInv(p) /\ NilInv(p)
  /\ OfferInv(p) /\ CountInv(p) /\ WorkInv(p)

IInv ==
  /\ ProcessTypes /\ BusTypes /\ LoginInv /\ OnlyThroughSecretary
  /\ \A p \in Process : ProcessInv(p)
-----------------------------------------------------------------------------
(* The programs of the play.                                                 *)
LEMMA ScriptFacts ==
  ASSUME BusTypes, NEW p \in Process
  PROVE  /\ Len(Script(p)) \in Nat \ {0}
         /\ DOMAIN Script(p) = 1..Len(Script(p))
         /\ \A i \in DOMAIN Script(p) : Script(p)[i].do = "serve" => i = Len(Script(p))
         /\ \A i \in DOMAIN Script(p) : GoodStatement(Script(p)[i], Entities(p))
         /\ \A i, j \in DOMAIN Script(p) :
              Script(p)[i].do = "register" /\ LogsIn(Script(p)[j]) => j < i
         /\ \A i, j \in DOMAIN Script(p) :
              /\ Script(p)[i].do = "register" /\ Script(p)[j].do = "register"
              /\ Script(p)[i].service = Script(p)[j].service
              => i = j
  <1>1. GoodScript(Cast[play][p])
    BY CastGood, ServicesAssumption DEF BusTypes, Process, Good
  <1>2. EntitiesOf(Cast[play][p]) = Entities(p)
    BY DEF EntitiesOf, Entities, LogsIn, Script
  <1> QED  BY <1>1, <1>2 DEF GoodScript, Script

LEMMA ReloginFacts ==
  ASSUME BusTypes, NEW p \in Process
  PROVE  /\ HasCallback(p) =>
              /\ Entities(p) = {relogin(p).as}
              /\ \A i \in DOMAIN Script(p) : LogsIn(Script(p)[i]) <=> i = 1
         /\ ~HasCallback(p) => relogin(p).registers = <<>> /\ relogin(p).again = {}
         /\ relogin(p).again # {} =>
              /\ HasCallback(p) /\ relogin(p).registers = <<>>
              /\ relogin(p).again = Retried
         /\ relogin(p).registers # <<>> =>
              /\ HasCallback(p)
              /\ Len(relogin(p).registers) = 1
              /\ Head(relogin(p).registers) \in Service
              /\ Len(Script(p)) = 3
              /\ Script(p)[2].do = "register"
              /\ Script(p)[2].service = Head(relogin(p).registers)
              /\ Script(p)[3].do = "serve"
  <1>1. GoodRelogin(Cast[play][p])
    BY CastGood, ServicesAssumption DEF BusTypes, Process, Good
  <1>2. EntitiesOf(Cast[play][p]) = Entities(p)
    BY DEF EntitiesOf, Entities, LogsIn, Script
  <1> QED  BY <1>1, <1>2 DEF GoodRelogin, Script, relogin, HasCallback

LEMMA ServantFacts ==
  ASSUME BusTypes, NEW p \in Process
  PROVE  /\ servant(p).kind \in {"none", "executes", "forwards"}
         /\ servant(p).kind = "none" => servant(p).as = "none"
         /\ servant(p).kind # "none" =>
              \A i \in DOMAIN Script(p) : Script(p)[i].do # "login_shared"
         /\ \A q \in Process : GoodCaller(Cast[play][p], Cast[play][q])
  <1>1. /\ GoodServant(Cast[play][p])
        /\ \A q \in Process : GoodCaller(Cast[play][p], Cast[play][q])
    BY CastGood, ServicesAssumption DEF BusTypes, Process
  <1> QED  BY <1>1 DEF GoodServant, Script, servant

\* The play goes on.
LEMMA SamePlay ==
  ASSUME play' = play
  PROVE  /\ Process' = Process
         /\ \A p : /\ Script(p)' = Script(p) /\ relogin(p)' = relogin(p)
                   /\ servant(p)' = servant(p) /\ Entities(p)' = Entities(p)
                   /\ HasCallback(p)' <=> HasCallback(p)
  <1>1. Process' = Process  BY DEF Process
  <1>2. \A p : Script(p)' = Script(p)  BY DEF Script
  <1>3. \A p : Entities(p)' = Entities(p)  BY DEF Entities, Script
  <1>4. \A p : relogin(p)' = relogin(p) /\ servant(p)' = servant(p)
    BY DEF relogin, servant
  <1>5. \A p : HasCallback(p)' <=> HasCallback(p)  BY <1>4 DEF HasCallback
  <1> QED  BY <1>1, <1>2, <1>3, <1>4, <1>5
-----------------------------------------------------------------------------
(* Steps that leave a process, or what a part of the invariant says of it,   *)
(* alone.  The bus only grows, but that logins end.                          *)
BusGrows ==
  /\ play' = play
  /\ logins' \in Seq(LoginRecord) /\ offers' \in Seq(OfferRecord)
  /\ faults' \in {faults, faults + 1}
  /\ \A l \in DOMAIN logins :
       /\ l \in DOMAIN logins'
       /\ logins'[l].process = logins[l].process
       /\ logins'[l].entity = logins[l].entity
       /\ logins'[l].valid => logins[l].valid
       /\ logins[l].valid /\ ~logins'[l].valid => faults' = faults + 1 \/ ~Held(l)
  /\ \A o \in DOMAIN offers : o \in DOMAIN offers' /\ offers'[o] = offers[o]

\* No offer is made by a login of p.
NoOfferOf(p) ==
  \A o \in DOMAIN offers' : o \notin DOMAIN offers =>
    /\ offers'[o].login \in DOMAIN logins
    /\ logins[offers'[o].login].process # p

MainKept(p) ==
  pc'[p] = pc[p] /\ status'[p] = status[p] /\ found'[p] = found[p] /\ facet'[p] = facet[p]
ThreadsKept(p) == conn'[p] = conn[p] /\ inside'[p] = inside[p]
HistoryKept(p) ==
  /\ works'[p] = works[p] /\ repeats'[p] = repeats[p]
  /\ p \in unoffered' <=> p \in unoffered
Kept(p) == MainKept(p) /\ peer'[p] = peer[p] /\ ThreadsKept(p) /\ HistoryKept(p)

LEMMA FoundKept ==
  ASSUME IInv, BusGrows, NEW p \in Process,
         pc'[p] = pc[p], found'[p] = found[p], facet'[p] = facet[p], peer'[p] = peer[p]
  PROVE  FoundInv(p)'
  <1>1. FoundInv(p)  BY DEF IInv, ProcessInv
  <1>2. At(p)' = At(p)  BY SamePlay DEF At, BusGrows
  <1>3. \A o \in DOMAIN offers : offers[o].login \in DOMAIN logins
    BY DEF IInv, BusTypes
  <1> QED  BY <1>1, <1>2, <1>3 DEF FoundInv, BusGrows

LEMMA ThreadKept ==
  ASSUME IInv, BusGrows, NEW p \in Process, pc'[p] = pc[p], ThreadsKept(p),
         Running(p)' => Running(p)
  PROVE  ThreadInv(p)'
  <1>1. ThreadInv(p)  BY DEF IInv, ProcessInv
  <1>2. /\ At(p)' = At(p) /\ relogin(p)' = relogin(p)
        /\ HasCallback(p)' <=> HasCallback(p)
    BY SamePlay DEF At, BusGrows
  <1> QED  BY <1>1, <1>2 DEF ThreadInv, ThreadsKept

LEMMA NilKept ==
  ASSUME IInv, BusGrows, NEW p \in Process,
         pc'[p] = pc[p], status'[p] = status[p], ThreadsKept(p)
  PROVE  NilInv(p)'
  <1>1. NilInv(p)  BY DEF IInv, ProcessInv
  <1>2. At(p)' = At(p) /\ relogin(p)' = relogin(p)
    BY SamePlay DEF At, BusGrows
  <1> QED  BY <1>1, <1>2 DEF NilInv, Relogs, ThreadsKept

LEMMA WorkKept ==
  ASSUME IInv, BusGrows, NEW p \in Process, pc'[p] = pc[p], status'[p] = status[p],
         works'[p] = works[p], repeats'[p] \in Nat, repeats[p] <= repeats'[p]
  PROVE  WorkInv(p)'
  <1>1. WorkInv(p)  BY DEF IInv, ProcessInv
  <1>2. Script(p)' = Script(p)  BY SamePlay DEF BusGrows
  <1>3. \A i : Past(p, i)' <=> Past(p, i)  BY DEF Past
  <1>4. repeats[p] \in Nat /\ works[p] \in Seq(Nat) /\ Len(works[p]) = Len(Script(p))
    BY DEF IInv, ProcessTypes
  <1>5. DOMAIN Script(p) = 1..Len(Script(p))
    BY ScriptFacts DEF IInv
  <1>6. \A i \in DOMAIN Script(p) : works[p][i] \in Nat
    BY <1>4, <1>5
  <1> QED  BY <1>1, <1>2, <1>3, <1>4, <1>6 DEF WorkInv

\* The services that a connection of p has been used to offer, and its login.
LEMMA UsedLogins ==
  ASSUME IInv, NEW p \in Process, NEW i \in DOMAIN Script(p), Script(p)[i].do # "serve"
  PROVE  LET l == conn[p][Script(p)[i].as].login IN
         /\ Script(p)[i].as \in Entities(p) /\ l \in Nat
         /\ l # None => l \in DOMAIN logins /\ logins[l].process = p
  <1>1. Script(p)[i].as \in Entities(p)
    BY ScriptFacts DEF GoodStatement, IInv
  <1> QED  BY <1>1 DEF IInv, LoginInv, ProcessTypes, ConnRecord

LEMMA OfferKept ==
  ASSUME IInv, BusGrows, NEW p \in Process,
         pc'[p] = pc[p], p \notin unoffered' => p \notin unoffered,
         \A e \in Entities(p) : conn'[p][e].login = conn[p][e].login
  PROVE  OfferInv(p)'
  <1>1. OfferInv(p)  BY DEF IInv, ProcessInv
  <1>2. Script(p)' = Script(p)  BY SamePlay DEF BusGrows
  <1>3. \A l, s : OffersOf(l, s) \subseteq OffersOf(l, s)'
    BY DEF OffersOf, BusGrows
  <1>7. \A i \in 1..(pc[p] - 1) : i \in DOMAIN Script(p)
    BY ScriptFacts DEF IInv, ProcessTypes
  <1>8. \A i \in 1..(pc[p] - 1) : Script(p)[i].do = "register" =>
          conn'[p][Script(p)[i].as].login = conn[p][Script(p)[i].as].login
    BY <1>7, UsedLogins
  <1> SUFFICES ASSUME p \notin unoffered', NEW i \in 1..(pc[p] - 1),
                      Script(p)[i].do = "register",
                      NEW l, l = conn[p][Script(p)[i].as].login
               PROVE  l # None /\ (Valid(l)' => OffersOf(l, Script(p)[i].service)' # {})
    BY <1>2, <1>8 DEF OfferInv
  <1>4. l # None /\ (Valid(l) => OffersOf(l, Script(p)[i].service) # {})
    BY <1>1 DEF OfferInv
  <1>5. Valid(l)' => Valid(l)
    BY <1>7, <1>4, UsedLogins DEF Valid, BusGrows
  <1>6. OffersOf(l, Script(p)[i].service) \subseteq OffersOf(l, Script(p)[i].service)'
    BY <1>2, <1>3
  <1> QED  BY <1>4, <1>5, <1>6

\* Offers are counted.
LEMMA OffersFinite ==
  ASSUME offers \in Seq(OfferRecord), NEW l, NEW s
  PROVE  IsFiniteSet(OffersOf(l, s)) /\ Cardinality(OffersOf(l, s)) \in Nat
  <1>1. OffersOf(l, s) \subseteq 1..Len(offers)  BY DEF OffersOf
  <1>2. IsFiniteSet(1..Len(offers))  BY FS_Interval
  <1> QED  BY <1>1, <1>2, FS_Subset, FS_CardinalityType

LEMMA Numbers ==
  ASSUME IInv, NEW p \in Process
  PROVE  /\ \A i : Made(p, i) \in Nat
         /\ \A t \in Thread : Due(p, t) \in Nat
         /\ repeats[p] \in Nat /\ pc[p] \in 1..Len(Script(p))
         /\ Len(Script(p)) \in Nat
  <1>1. \A i : Made(p, i) \in Nat
    BY OffersFinite DEF Made, IInv, BusTypes
  <1>2. \A t \in Thread : Due(p, t) \in Nat
    BY DEF Due, IInv, ProcessTypes, InsideRecord
  <1>3. pc[p] \in 1..Len(Script(p)) /\ Len(Script(p)) \in Nat
    BY ScriptFacts DEF IInv, ProcessTypes
  <1> QED  BY <1>1, <1>2, <1>3 DEF IInv, ProcessTypes

LEMMA MadeKept ==
  ASSUME IInv, BusGrows, NEW p \in Process, conn'[p] = conn[p], NoOfferOf(p),
         NEW i \in DOMAIN Script(p), Script(p)[i].do = "register"
  PROVE  Made(p, i)' = Made(p, i)
  <1>1. Script(p)' = Script(p)
    BY SamePlay DEF BusGrows
  <1>2. ASSUME NEW l, NEW s, l = conn[p][Script(p)[i].as].login, l # None
        PROVE  OffersOf(l, s)' = OffersOf(l, s)
    <2>1. l \in DOMAIN logins /\ logins[l].process = p
      BY <1>2, UsedLogins
    <2>2. OffersOf(l, s)' = OffersOf(l, s)
      BY <2>1 DEF OffersOf, BusGrows, NoOfferOf
    <2> QED  BY <2>2
  <1>3. Made(p, i)' = IF conn[p][Script(p)[i].as].login = None THEN 0
          ELSE Cardinality({o \in DOMAIN offers' : offers'[o] =
            [login |-> conn[p][Script(p)[i].as].login,
             service |-> Script(p)[i].service]})
    BY <1>1 DEF Made, OffersOf
  <1> QED  BY <1>2, <1>3 DEF Made, OffersOf

LEMMA CountKept ==
  ASSUME IInv, BusGrows, NEW p \in Process, ThreadsKept(p), NoOfferOf(p),
         \A i \in DOMAIN Script(p) : Past(p, i) => Past(p, i)',
         repeats'[p] \in Nat, repeats[p] <= repeats'[p]
  PROVE  CountInv(p)'
  <1>1. CountInv(p)  BY DEF IInv, ProcessInv
  <1>2. Script(p)' = Script(p) /\ relogin(p)' = relogin(p)
    BY SamePlay DEF BusGrows
  <1>3. \A t \in Thread : Due(p, t)' = Due(p, t)
    BY DEF Due, ThreadsKept
  <1>4. ASSUME NEW i \in DOMAIN Script(p), Script(p)[i].do = "register"
        PROVE  Made(p, i)' = Made(p, i)
    BY <1>4, MadeKept DEF ThreadsKept
  <1> SUFFICES ASSUME NEW i \in DOMAIN Script(p), Script(p)[i].do = "register"
               PROVE  Made(p, i) + (IF Past(p, i)' THEN 0 ELSE 1)
                        + (IF relogin(p).registers = <<>> THEN 0
                           ELSE Due(p, "main") + Due(p, "other"))
                        <= 1 + repeats'[p]
    BY <1>2, <1>3, <1>4 DEF CountInv, Thread
  <1>5. Made(p, i) + (IF Past(p, i) THEN 0 ELSE 1)
          + (IF relogin(p).registers = <<>> THEN 0
             ELSE Due(p, "main") + Due(p, "other"))
          <= 1 + repeats[p]
    BY <1>1 DEF CountInv
  <1> QED  BY SMTT(30), <1>5, Numbers DEF Thread

\* A login in use ends by a fault.
LEMMA LostKept ==
  ASSUME IInv, BusGrows, NEW p \in Process, Running(p), HasCallback(p),
         conn'[p] = conn[p], Lost(conn[p][relogin(p).as])'
  PROVE  Lost(conn[p][relogin(p).as]) \/ faults' = faults + 1
  <1>1. relogin(p).as \in Entities(p)
    BY ReloginFacts DEF IInv
  <1>2. relogin(p)' = relogin(p)
    BY SamePlay DEF BusGrows
  <1> SUFFICES ASSUME NEW c, c = conn[p][relogin(p).as], Lost(c)', ~Lost(c)
               PROVE  faults' = faults + 1
    BY <1>2
  <1>3. c.login # None /\ logins[c.login].valid /\ ~logins'[c.login].valid
    BY DEF Lost
  <1>4. c.login \in DOMAIN logins /\ logins[c.login].process = p
    BY <1>1, <1>3 DEF IInv, LoginInv
  <1>5. Held(c.login)
    BY <1>1, <1>4 DEF Held, IInv, ProcessTypes
  <1> QED  BY <1>3, <1>4, <1>5 DEF BusGrows

LEMMA SuspendKept ==
  ASSUME IInv, BusGrows, NEW p \in Process, ThreadsKept(p),
         Running(p)' => Running(p)
  PROVE  SuspendInv(p)'
  <1>1. SuspendInv(p) /\ ThreadInv(p)  BY DEF IInv, ProcessInv
  <1>2. relogin(p)' = relogin(p)  BY SamePlay DEF BusGrows
  <1>3. faults \in Nat /\ faults' \in Nat /\ faults <= faults'
    BY ServicesAssumption DEF BusGrows, IInv, BusTypes
  <1>4. \A t \in Thread : inside[p][t].suspended \in Nat
    BY DEF IInv, ProcessTypes, InsideRecord
  <1>5. ASSUME NEW t \in Thread, Running(p)', inside[p][t].step \in {"register", "resend"},
               Lost(conn[p][relogin(p).as])'
        PROVE  inside[p][t].suspended + 1 <= faults'
    <2>1. HasCallback(p)
      BY <1>1, <1>5 DEF ThreadInv, Outside
    <2>2. Lost(conn[p][relogin(p).as]) \/ faults' = faults + 1
      BY <1>5, <2>1, LostKept DEF ThreadsKept
    <2> QED  BY <1>1, <1>3, <1>4, <1>5, <2>2 DEF SuspendInv
  <1>6. conn'[p][relogin(p)'.as] = conn[p][relogin(p).as]
    BY <1>2 DEF ThreadsKept
  <1>7. Lost(conn[p][relogin(p).as])' <=>
          (conn'[p][relogin(p).as].login # None =>
             ~logins'[conn'[p][relogin(p).as].login].valid)
    BY <1>2 DEF Lost
  <1> QED  BY <1>1, <1>2, <1>3, <1>4, <1>5, <1>6 DEF SuspendInv, ThreadsKept

LEMMA ProcessKept ==
  ASSUME IInv, BusGrows, NEW p \in Process, Kept(p), NoOfferOf(p)
  PROVE  ProcessInv(p)'
  <1> USE DEF Kept, MainKept, HistoryKept
  <1>1. repeats[p] \in Nat /\ repeats'[p] \in Nat /\ repeats[p] <= repeats'[p]
    BY DEF IInv, ProcessTypes
  <1>2. FoundInv(p)'  BY FoundKept
  <1>3. ThreadInv(p)'  BY ThreadKept DEF Running
  <1>4. SuspendInv(p)'  BY SuspendKept DEF Running
  <1>5. NilInv(p)'  BY NilKept
  <1>6. OfferInv(p)'  BY OfferKept DEF ThreadsKept
  <1>7. CountInv(p)'  BY <1>1, CountKept DEF Past
  <1>8. WorkInv(p)'  BY <1>1, WorkKept
  <1> QED  BY <1>2, <1>3, <1>4, <1>5, <1>6, <1>7, <1>8 DEF ProcessInv
-----------------------------------------------------------------------------
(* How main leaves a statement, or starts it over.                           *)
MainVars == <<pc, status, reference, found, facet>>
MainTypes ==
  /\ pc \in [Process -> Nat] /\ status \in [Process -> Statuses]
  /\ reference \in [Process -> BOOLEAN] /\ found \in [Process -> FoundRecord]
  /\ facet \in [Process -> Nat]
  /\ \A p \in Process : pc[p] \in DOMAIN Script(p)

\* Main of p moves, and no other: it looks for no offer, or is where it was.
Moves(p) ==
  /\ play' = play => MainTypes'
  /\ \A q \in Process \ {p} : MainKept(q)
  /\ \/ found'[p] = NotFound /\ facet'[p] = None
     \/ found'[p] = found[p] /\ facet'[p] = facet[p] /\ pc'[p] = pc[p]

Thrown(p, e) ==
  /\ pc'[p] = pc[p]
  /\ \/ status'[p] = status[p] /\ e \in At(p).again
     \/ status'[p] = "terminated" /\ e \notin At(p).again
     \/ status'[p] = "returned" /\ e \in At(p).returns /\ e \notin At(p).again
Advanced(p) ==
  \/ status'[p] = status[p] /\ pc'[p] = pc[p] + 1
  \/ status'[p] = "returned" /\ pc'[p] = pc[p]
Gone(p, where) ==
  \/ where = "next" /\ Advanced(p)
  \/ where = "again" /\ pc'[p] = pc[p] /\ status'[p] = status[p]
  \/ where = "return" /\ pc'[p] = pc[p] /\ status'[p] = "returned"

LEMMA MainHasTypes == IInv => MainTypes
  BY DEF IInv, ProcessTypes, MainTypes

LEMMA EndsMoves ==
  ASSUME IInv, NEW p \in Process, NEW how \in Statuses, Ends(p, how),
         UNCHANGED <<pc, reference, found, facet>>
  PROVE  Moves(p) /\ status'[p] = how /\ pc'[p] = pc[p]
  <1>1. MainTypes  BY MainHasTypes
  <1>2. play' = play => MainTypes'
    BY <1>1, SamePlay DEF MainTypes, Ends
  <1> QED  BY <1>1, <1>2 DEF Moves, MainKept, Ends, MainTypes

LEMMA GotoMoves ==
  ASSUME IInv, NEW p \in Process, NEW i \in DOMAIN Script(p), Goto(p, i),
         UNCHANGED status
  PROVE  Moves(p) /\ status'[p] = status[p] /\ pc'[p] = i
  <1>1. MainTypes  BY MainHasTypes
  <1>2. NotFound \in FoundRecord /\ None \in Nat /\ i \in Nat
    BY ScriptFacts DEF NotFound, FoundRecord, None, IInv
  <1>3. play' = play => MainTypes'
    BY <1>1, <1>2, SamePlay DEF MainTypes, Goto
  <1> QED  BY <1>1, <1>3 DEF Moves, MainKept, Goto, MainTypes

LEMMA AdvanceMoves ==
  ASSUME IInv, NEW p \in Process, Advance(p)
  PROVE  Moves(p) /\ Advanced(p)
  <1>1. pc[p] \in 1..Len(Script(p)) /\ Len(Script(p)) \in Nat
    BY Numbers
  <1>2. CASE pc[p] = Len(Script(p))
    BY <1>2, EndsMoves DEF Advance, Statuses, Advanced
  <1>3. CASE pc[p] # Len(Script(p))
    <2>1. pc[p] + 1 \in DOMAIN Script(p)
      BY <1>1, <1>3, ScriptFacts DEF IInv
    <2> QED  BY <1>3, <2>1, GotoMoves DEF Advance, Advanced
  <1> QED  BY <1>2, <1>3

LEMMA GoMoves ==
  ASSUME IInv, NEW p \in Process, NEW where \in {"again", "next", "return"},
         Go(p, where)
  PROVE  Moves(p) /\ Gone(p, where)
  <1>1. pc[p] \in DOMAIN Script(p)
    BY Numbers, ScriptFacts DEF IInv
  <1>2. CASE where = "next"
    BY <1>2, AdvanceMoves DEF Go, Gone
  <1>3. CASE where = "again"
    BY <1>1, <1>3, GotoMoves DEF Go, Gone
  <1>4. CASE where = "return"
    BY <1>4, EndsMoves DEF Go, Gone, Statuses
  <1> QED  BY <1>2, <1>3, <1>4

LEMMA ThrowMoves ==
  ASSUME IInv, NEW p \in Process, NEW e, Throw(p, e)
  PROVE  Moves(p) /\ Thrown(p, e)
  <1>1. CASE e \in At(p).again
    <2>1. MainTypes  BY MainHasTypes
    <2>2. NotFound \in FoundRecord /\ None \in Nat
      BY DEF NotFound, FoundRecord, None
    <2>3. play' = play => MainTypes'
      BY <1>1, <2>1, <2>2, SamePlay DEF MainTypes, Throw
    <2> QED  BY <1>1, <2>1, <2>3 DEF Moves, MainKept, Throw, MainTypes, Thrown
  <1>2. CASE e \notin At(p).again
    BY <1>2, EndsMoves DEF Throw, Thrown, Statuses
  <1> QED  BY <1>1, <1>2

\* Where main is after a step of a process that runs.
Onward(p) ==
  \/ pc'[p] = pc[p]
  \/ pc'[p] = pc[p] + 1 /\ status'[p] = status[p] /\ inside[p]["main"] = Outside

\* Whether main leaves its statement behind.
Leaves(p) == pc'[p] # pc[p] \/ status'[p] = "returned"

LEMMA PastMoves ==
  ASSUME IInv, NEW p \in Process, Running(p), Onward(p), NEW i \in Nat
  PROVE  /\ Past(p, i) <=> i < pc[p]
         /\ Past(p, i)' <=> i < pc[p] \/ (i = pc[p] /\ Leaves(p))
  <1>1. pc[p] \in Nat  BY Numbers
  <1>2. status[p] = "running"  BY DEF Running
  <1>3. Past(p, i) <=> i < pc[p]  BY <1>2 DEF Past
  <1>4. Past(p, i)' <=> i < pc'[p] \/ (i = pc'[p] /\ status'[p] = "returned")
    BY DEF Past
  <1>5. CASE pc'[p] = pc[p]
    BY <1>3, <1>4, <1>5 DEF Leaves
  <1>6. CASE pc'[p] = pc[p] + 1 /\ status'[p] = status[p]
    <2>1. status'[p] # "returned"  BY <1>2, <1>6
    <2>2. pc'[p] # pc[p]  BY <1>1, <1>6
    <2>3. i < pc'[p] <=> i < pc[p] \/ i = pc[p]  BY <1>1, <1>6
    <2> QED  BY <1>3, <1>4, <2>1, <2>2, <2>3 DEF Leaves
  <1> QED  BY <1>5, <1>6 DEF Onward

LEMMA FoundMoves ==
  ASSUME IInv, NEW p \in Process, Moves(p), peer'[p] \in {None} \cup DOMAIN offers',
         BusGrows
  PROVE  FoundInv(p)'
  <1>1. FoundInv(p)  BY DEF IInv, ProcessInv
  <1>2. CASE found'[p] = NotFound /\ facet'[p] = None
    BY <1>2 DEF FoundInv, NotFound
  <1>3. CASE found'[p] = found[p] /\ facet'[p] = facet[p] /\ pc'[p] = pc[p]
    <2>1. At(p)' = At(p)  BY <1>3, SamePlay DEF At, BusGrows
    <2>2. \A o \in DOMAIN offers : offers[o].login \in DOMAIN logins
      BY DEF IInv, BusTypes
    <2> QED  BY <1>1, <1>3, <2>1, <2>2 DEF FoundInv, BusGrows
  <1> QED  BY <1>2, <1>3 DEF Moves

LEMMA ThreadMoves ==
  ASSUME IInv, BusGrows, NEW p \in Process, Running(p), Onward(p), ThreadsKept(p)
  PROVE  ThreadInv(p)'
  <1>1. CASE pc'[p] = pc[p]  BY <1>1, ThreadKept
  <1>2. CASE pc'[p] = pc[p] + 1 /\ inside[p]["main"] = Outside
    <2>1. ThreadInv(p)  BY DEF IInv, ProcessInv
    <2>2. /\ relogin(p)' = relogin(p)
          /\ HasCallback(p)' <=> HasCallback(p)
      BY SamePlay DEF BusGrows
    <2>3. pc'[p] # 1  BY <1>2, Numbers
    <2> QED  BY <1>2, <2>1, <2>2, <2>3 DEF ThreadInv, ThreadsKept
  <1> QED  BY <1>1, <1>2 DEF Onward

LEMMA NilMoves ==
  ASSUME IInv, BusGrows, NEW p \in Process, ThreadsKept(p), Onward(p),
         pc'[p] = pc[p] \/ ~LogsIn(At(p)), status'[p] # "crashed"
  PROVE  NilInv(p)'
  <1>1. NilInv(p)  BY DEF IInv, ProcessInv
  <1>2. relogin(p)' = relogin(p)  BY SamePlay DEF BusGrows
  <1>3. pc[p] \in 1..Len(Script(p)) /\ Len(Script(p)) \in Nat  BY Numbers
  <1>4. relogin(p).again # {} /\ pc'[p] > 1 => pc[p] > 1
    <2>1. relogin(p).again # {} => LogsIn(Script(p)[1])
      BY ReloginFacts, ScriptFacts DEF IInv
    <2> QED  BY <1>3, <2>1 DEF At, Onward
  <1> QED  BY <1>1, <1>2, <1>4 DEF NilInv, Relogs, ThreadsKept

LEMMA OfferMoves ==
  ASSUME IInv, BusGrows, NEW p \in Process, Onward(p), conn'[p] = conn[p],
         p \notin unoffered' => p \notin unoffered,
         pc'[p] = pc[p] \/ At(p).do # "register"
  PROVE  OfferInv(p)'
  <1>1. OfferInv(p)  BY DEF IInv, ProcessInv
  <1>2. Script(p)' = Script(p)  BY SamePlay DEF BusGrows
  <1>3. \A l, s : OffersOf(l, s) \subseteq OffersOf(l, s)'
    BY DEF OffersOf, BusGrows
  <1>4. \A i \in 1..(pc'[p] - 1) : Script(p)[i].do = "register" =>
          i \in 1..(pc[p] - 1) /\ i \in DOMAIN Script(p)
    BY Numbers, ScriptFacts DEF IInv, Onward, At
  <1> SUFFICES ASSUME p \notin unoffered', NEW i \in 1..(pc'[p] - 1),
                      Script(p)[i].do = "register",
                      NEW l, l = conn[p][Script(p)[i].as].login
               PROVE  l # None /\ (Valid(l)' => OffersOf(l, Script(p)[i].service)' # {})
    BY <1>2 DEF OfferInv
  <1>5. l # None /\ (Valid(l) => OffersOf(l, Script(p)[i].service) # {})
    BY <1>1, <1>4 DEF OfferInv
  <1>6. Valid(l)' => Valid(l)
    BY <1>4, <1>5, UsedLogins DEF Valid, BusGrows
  <1>7. OffersOf(l, Script(p)[i].service) \subseteq OffersOf(l, Script(p)[i].service)'
    BY <1>2, <1>3
  <1> QED  BY <1>5, <1>6, <1>7

LEMMA CountMoves ==
  ASSUME IInv, BusGrows, NEW p \in Process, Running(p), Onward(p), ThreadsKept(p),
         NoOfferOf(p), repeats'[p] \in Nat, repeats[p] <= repeats'[p]
  PROVE  CountInv(p)'
  <1>1. \A i \in DOMAIN Script(p) : i \in Nat
    BY ScriptFacts DEF IInv
  <1>2. \A i \in DOMAIN Script(p) : Past(p, i) => Past(p, i)'
    BY <1>1, PastMoves
  <1> QED  BY <1>2, CountKept

\* A statement that a call has to leave is not left without one.
Unfinished(s) == s.do # "use" \/ s.none # "again" \/ s.checked
LEMMA WorkSteps ==
  ASSUME IInv, BusGrows, NEW p \in Process, Running(p), Onward(p),
         \A i \in DOMAIN Script(p) : i # pc[p] => works'[p][i] = works[p][i],
         repeats'[p] \in Nat, repeats[p] <= repeats'[p],
         At(p).do = "use" =>
           /\ works'[p][pc[p]] <= (IF Leaves(p) THEN 1 ELSE 0) + repeats'[p]
           /\ Leaves(p) => works'[p][pc[p]] >= 1 \/ Unfinished(At(p))
  PROVE  WorkInv(p)'
  <1>1. WorkInv(p)  BY DEF IInv, ProcessInv
  <1>2. Script(p)' = Script(p)  BY SamePlay DEF BusGrows
  <1>3. pc[p] \in Nat /\ repeats[p] \in Nat /\ DOMAIN Script(p) = 1..Len(Script(p))
    BY Numbers, ScriptFacts DEF IInv
  <1>4. \A i \in DOMAIN Script(p) : works[p][i] \in Nat /\ i \in Nat
    BY <1>3, ScriptFacts DEF IInv, ProcessTypes
  <1> SUFFICES ASSUME NEW i \in DOMAIN Script(p), Script(p)[i].do = "use"
               PROVE  /\ works'[p][i] <= (IF Past(p, i)' THEN 1 ELSE 0) + repeats'[p]
                      /\ Script(p)[i].none = "again" /\ Past(p, i)'
                           /\ ~Script(p)[i].checked => works'[p][i] >= 1
    BY <1>2 DEF WorkInv
  <1>5. /\ works[p][i] <= (IF Past(p, i) THEN 1 ELSE 0) + repeats[p]
        /\ Script(p)[i].none = "again" /\ Past(p, i) /\ ~Script(p)[i].checked
             => works[p][i] >= 1
    BY <1>1 DEF WorkInv
  <1>6. CASE i = pc[p]
    <2>1. Past(p, i)' <=> Leaves(p)  BY <1>3, <1>6, PastMoves
    <2> QED  BY <1>6, <2>1 DEF Unfinished, At
  <1>7. CASE i # pc[p]
    <2>1. Past(p, i)' <=> Past(p, i)  BY <1>3, <1>4, <1>7, PastMoves
    <2> QED  BY <1>3, <1>4, <1>5, <1>7, <2>1
  <1> QED  BY <1>6, <1>7

LEMMA WorkMoves ==
  ASSUME IInv, BusGrows, NEW p \in Process, Running(p), Onward(p),
         works'[p] = works[p], repeats'[p] \in Nat, repeats[p] <= repeats'[p],
         Leaves(p) => Unfinished(At(p))
  PROVE  WorkInv(p)'
  <1>1. WorkInv(p)  BY DEF IInv, ProcessInv
  <1>2. pc[p] \in DOMAIN Script(p) /\ pc[p] \in Nat /\ repeats[p] \in Nat
    BY Numbers, ScriptFacts DEF IInv
  <1>3. works[p][pc[p]] \in Nat
    BY <1>2, ScriptFacts DEF IInv, ProcessTypes
  <1>4. At(p).do = "use" => works[p][pc[p]] <= repeats[p]
    BY <1>1, <1>2, <1>3, PastMoves DEF WorkInv, At
  <1> QED  BY <1>2, <1>3, <1>4, WorkSteps
-----------------------------------------------------------------------------
(* What a step of a process has to show.                                     *)
RestTypes ==
  /\ peer \in [Process -> Nat] /\ inside \in [Process -> [Thread -> InsideRecord]]
  /\ works \in [Process -> Seq(Nat)] /\ repeats \in [Process -> Nat]
  /\ unoffered \subseteq Process /\ DOMAIN conn = Process
  /\ \A p \in Process : /\ Len(works[p]) = Len(Script(p))
                        /\ conn[p] \in [Entities(p) -> ConnRecord]

LEMMA AllTypes == ProcessTypes <=> MainTypes /\ RestTypes
  BY DEF ProcessTypes, MainTypes, RestTypes

\* The rest of the process that a step of p may change.
OthersKept(p) ==
  /\ \A q \in Process \ {p} : Kept(q) /\ NoOfferOf(q)

LEMMA StepKeeps ==
  ASSUME IInv, NEW p \in Process, BusGrows, OthersKept(p), MainTypes', RestTypes',
         BusTypes', LoginInv', OnlyThroughSecretary', ProcessInv(p)'
  PROVE  IInv'
  <1>1. Process' = Process  BY SamePlay DEF BusGrows
  <1>2. \A q \in Process \ {p} : ProcessInv(q)'
    BY ProcessKept DEF OthersKept
  <1>3. ProcessTypes'
    <2>1. (ProcessTypes <=> MainTypes /\ RestTypes)'
      BY DEF ProcessTypes, MainTypes, RestTypes
    <2> QED  BY <2>1
  <1> QED  BY <1>1, <1>2, <1>3 DEF IInv

\* The steps of the bus.
LEMMA BusStays ==
  ASSUME IInv, UNCHANGED <<play, logins, offers>>, faults' = faults \/ Fault
  PROVE  BusGrows /\ \A q : NoOfferOf(q)
  <1>1. logins \in Seq(LoginRecord) /\ offers \in Seq(OfferRecord)
    BY DEF IInv, BusTypes
  <1> QED  BY <1>1 DEF BusGrows, NoOfferOf, Fault

LEMMA IssueGrows ==
  ASSUME IInv, NEW p \in Process, NEW e \in Entity, Issue(p, e),
         UNCHANGED <<play, offers>>, faults' = faults \/ Fault
  PROVE  /\ BusGrows /\ \A q : NoOfferOf(q)
         /\ Issued \in Nat /\ Issued # None /\ Issued \notin DOMAIN logins
         /\ DOMAIN logins' = DOMAIN logins \cup {Issued}
         /\ logins'[Issued] = [process |-> p, entity |-> e, valid |-> TRUE]
         /\ \A l \in DOMAIN logins : logins'[l] = logins[l]
  <1>1. logins \in Seq(LoginRecord) /\ offers \in Seq(OfferRecord)
    BY DEF IInv, BusTypes
  <1>2. [process |-> p, entity |-> e, valid |-> TRUE] \in LoginRecord
    BY DEF LoginRecord
  <1> DEFINE r == [process |-> p, entity |-> e, valid |-> TRUE]
  <1>3. /\ Append(logins, r) \in Seq(LoginRecord) /\ Len(logins) \in Nat
        /\ DOMAIN logins = 1..Len(logins)
        /\ Len(Append(logins, r)) = Len(logins) + 1
        /\ DOMAIN Append(logins, r) = 1..(Len(logins) + 1)
        /\ Append(logins, r)[Len(logins) + 1] = r
        /\ \A l \in 1..Len(logins) : Append(logins, r)[l] = logins[l]
    BY <1>1, <1>2
  <1>4. logins' = Append(logins, r)  BY DEF Issue
  <1> HIDE DEF r
  <1>5. /\ Issued \in Nat /\ Issued # None /\ Issued \notin DOMAIN logins
        /\ DOMAIN logins' = DOMAIN logins \cup {Issued}
        /\ logins'[Issued] = r
        /\ \A l \in DOMAIN logins : logins'[l] = logins[l]
    BY <1>3, <1>4 DEF Issued, None
  <1>6. BusGrows
    BY <1>1, <1>3, <1>4, <1>5 DEF BusGrows, Fault
  <1>7. \A q : NoOfferOf(q)  BY DEF NoOfferOf
  <1> QED  BY <1>5, <1>6, <1>7 DEF r

LEMMA OfferGrows ==
  ASSUME IInv, NEW l \in DOMAIN logins, NEW s \in Service, Offer(l, s),
         UNCHANGED <<play, logins>>, faults' = faults \/ Fault
  PROVE  /\ BusGrows
         /\ \A q : q # logins[l].process => NoOfferOf(q)
         /\ \A o \in DOMAIN offers' : offers'[o].login \in DOMAIN logins
         /\ \A m, r : IF m = l /\ r = s
                      THEN \E n : /\ n \notin OffersOf(m, r)
                                  /\ OffersOf(m, r)' = OffersOf(m, r) \cup {n}
                      ELSE OffersOf(m, r)' = OffersOf(m, r)
  <1>1. logins \in Seq(LoginRecord) /\ offers \in Seq(OfferRecord)
    BY DEF IInv, BusTypes
  <1> DEFINE r == [login |-> l, service |-> s]
             n == Len(offers) + 1
  <1>2. r \in OfferRecord
    BY <1>1 DEF OfferRecord
  <1>3. /\ Append(offers, r) \in Seq(OfferRecord) /\ Len(offers) \in Nat
        /\ DOMAIN offers = 1..Len(offers)
        /\ DOMAIN Append(offers, r) = 1..(Len(offers) + 1)
        /\ Append(offers, r)[Len(offers) + 1] = r
        /\ \A o \in 1..Len(offers) : Append(offers, r)[o] = offers[o]
    BY <1>1, <1>2
  <1>4. offers' = Append(offers, r)  BY DEF Offer
  <1>5. /\ n \notin DOMAIN offers /\ DOMAIN offers' = DOMAIN offers \cup {n}
        /\ offers'[n] = r /\ \A o \in DOMAIN offers : offers'[o] = offers[o]
    BY <1>3, <1>4
  <1>6. BusGrows
    BY <1>1, <1>3, <1>4, <1>5 DEF BusGrows, Fault
  <1>7. \A q : q # logins[l].process => NoOfferOf(q)
    BY <1>5 DEF NoOfferOf
  <1>8. \A o \in DOMAIN offers' : offers'[o].login \in DOMAIN logins
    BY <1>5 DEF IInv, BusTypes
  <1>9. ASSUME NEW m, NEW v
        PROVE  IF m = l /\ v = s
               THEN \E k : /\ k \notin OffersOf(m, v)
                           /\ OffersOf(m, v)' = OffersOf(m, v) \cup {k}
               ELSE OffersOf(m, v)' = OffersOf(m, v)
    <2>1. CASE m = l /\ v = s
      <3>1. n \notin OffersOf(m, v) /\ OffersOf(m, v)' = OffersOf(m, v) \cup {n}
        BY <1>5, <2>1 DEF OffersOf
      <3> QED  BY <2>1, <3>1
    <2>2. CASE ~(m = l /\ v = s)
      <3>1. r # [login |-> m, service |-> v]  BY <2>2
      <3> HIDE DEF r, n
      <3> QED  BY <1>5, <2>2, <3>1 DEF OffersOf
    <2> QED  BY <2>1, <2>2
  <1> QED  BY <1>6, <1>7, <1>8, <1>9

LEMMA BusHasTypes ==
  ASSUME IInv, BusGrows, faults' = faults \/ Fault, UNCHANGED <<secrets, file>>,
         \A o \in DOMAIN offers' : offers'[o].login \in DOMAIN logins'
  PROVE  BusTypes'
  <1>1. BusTypes  BY DEF IInv
  <1>2. Process' = Process /\ LoginRecord' = LoginRecord
    BY SamePlay DEF BusGrows, LoginRecord
  <1>3. faults' \in 0..MaxFaults[play]
    BY <1>1, ServicesAssumption DEF BusTypes, Fault
  <1>4. \A id \in DOMAIN secrets, legacy \in BOOLEAN :
          encodeSharedAuthSecret(SecretOf(id, legacy))'
            = encodeSharedAuthSecret(SecretOf(id, legacy))
    BY DEF encodeSharedAuthSecret, SecretOf, encode_exported_versions
  <1> QED  BY <1>1, <1>2, <1>3, <1>4 DEF BusTypes, BusGrows, OfferRecord, SecretRecord

\* Logins that are issued are of entities of their process, if it serves calls,
\* and those in use are of the process.
LEMMA LoginsKept ==
  ASSUME IInv, NEW p \in Process, BusGrows, OthersKept(p),
         \A l \in DOMAIN logins' : l \notin DOMAIN logins =>
           /\ logins'[l].process = p
           /\ servant(p).kind # "none" => logins'[l].entity \in Entities(p),
         \A e \in Entities(p) : conn'[p][e].login # None =>
           /\ conn'[p][e].login \in DOMAIN logins'
           /\ logins'[conn'[p][e].login].process = p
           /\ conn'[p][e].registry
  PROVE  LoginInv'
  <1>1. LoginInv  BY DEF IInv
  <1>2. Process' = Process
    BY SamePlay DEF BusGrows
  <1>3. \A q : servant(q)' = servant(q) /\ Entities(q)' = Entities(q)
    BY SamePlay DEF BusGrows
  <1>4. \A l \in DOMAIN logins' : LET q == logins'[l].process IN
          servant(q).kind # "none" => logins'[l].entity \in Entities(q)
    BY <1>1 DEF LoginInv, BusGrows
  <1>5. ASSUME NEW q \in Process \ {p}, NEW e \in Entities(q), conn'[q][e].login # None
        PROVE  /\ conn'[q][e].login \in DOMAIN logins'
               /\ logins'[conn'[q][e].login].process = q
               /\ conn'[q][e].registry
    <2>1. conn'[q] = conn[q]  BY DEF OthersKept, Kept, ThreadsKept
    <2> QED  BY <1>1, <1>5, <2>1 DEF LoginInv, BusGrows
  <1> QED  BY <1>2, <1>3, <1>4, <1>5 DEF LoginInv
-----------------------------------------------------------------------------
(* Steps of main that use the connections as they are.                       *)
PeerMoves(p) ==
  /\ peer' \in [Process -> Nat] /\ peer'[p] \in {None} \cup DOMAIN offers
  /\ \A q \in Process \ {p} : peer'[q] = peer[q]
HistoryMoves(p) ==
  /\ works' \in [Process -> Seq(Nat)] /\ Len(works'[p]) = Len(works[p])
  /\ repeats' \in [Process -> Nat] /\ repeats[p] <= repeats'[p]
  /\ \A q \in Process \ {p} : works'[q] = works[q] /\ repeats'[q] = repeats[q]

LEMMA SameHistory ==
  ASSUME IInv, NEW p \in Process, UNCHANGED <<works, repeats>>
  PROVE  HistoryMoves(p) /\ works'[p] = works[p]
  BY DEF HistoryMoves, IInv, ProcessTypes

LEMMA SamePeer ==
  ASSUME IInv, NEW p \in Process, UNCHANGED peer
  PROVE  PeerMoves(p)
  BY DEF PeerMoves, IInv, ProcessTypes, ProcessInv, FoundInv

LEMMA MainOnly ==
  ASSUME IInv, NEW p \in Process, Running(p), Onward(p), BusGrows,
         \A q \in Process \ {p} : MainKept(q) /\ NoOfferOf(q),
         MainTypes', BusTypes', OnlyThroughSecretary',
         PeerMoves(p), HistoryMoves(p), UNCHANGED <<conn, inside, unoffered>>,
         \A l \in DOMAIN logins' : l \notin DOMAIN logins =>
           /\ logins'[l].process = p
           /\ servant(p).kind # "none" => logins'[l].entity \in Entities(p),
         FoundInv(p)', NilInv(p)', OfferInv(p)', CountInv(p)', WorkInv(p)'
  PROVE  IInv'
  <1>1. Process' = Process /\ \A q : Script(q)' = Script(q) /\ Entities(q)' = Entities(q)
    BY SamePlay DEF BusGrows
  <1>2. OthersKept(p)
    BY DEF OthersKept, Kept, ThreadsKept, HistoryKept, PeerMoves, HistoryMoves
  <1>3. RestTypes'
    <2>1. RestTypes  BY DEF IInv, ProcessTypes, RestTypes
    <2>2. \A q \in Process : Len(works'[q]) = Len(Script(q))
      BY <2>1 DEF RestTypes, HistoryMoves
    <2> QED  BY <1>1, <2>1, <2>2 DEF RestTypes, PeerMoves, HistoryMoves
  <1>4. LoginInv'
    <2>1. \A e \in Entities(p) : conn'[p][e].login # None =>
            /\ conn'[p][e].login \in DOMAIN logins'
            /\ logins'[conn'[p][e].login].process = p
            /\ conn'[p][e].registry
      BY DEF IInv, LoginInv, BusGrows
    <2> QED  BY <1>2, <2>1, LoginsKept
  <1>5. ThreadsKept(p)  BY DEF ThreadsKept
  <1>6. ThreadInv(p)'  BY <1>5, ThreadMoves
  <1>7. SuspendInv(p)'  BY <1>5, SuspendKept
  <1>8. ProcessInv(p)'  BY <1>6, <1>7 DEF ProcessInv
  <1> QED  BY <1>2, <1>3, <1>4, <1>8, StepKeeps

\* The same for steps that make no offers, and leave no statement undone.
LEMMA MainQuiet ==
  ASSUME IInv, NEW p \in Process, Running(p), Onward(p), BusGrows,
         \A q : NoOfferOf(q), \A q \in Process \ {p} : MainKept(q),
         MainTypes', BusTypes', OnlyThroughSecretary',
         PeerMoves(p), HistoryMoves(p), UNCHANGED <<conn, inside, unoffered>>,
         \A l \in DOMAIN logins' : l \notin DOMAIN logins =>
           /\ logins'[l].process = p
           /\ servant(p).kind # "none" => logins'[l].entity \in Entities(p),
         FoundInv(p)', WorkInv(p)',
         NilInv(p)' \/ status'[p] # "crashed",
         pc'[p] = pc[p] \/ (~LogsIn(At(p)) /\ At(p).do # "register")
  PROVE  IInv'
  <1>1. ThreadsKept(p)  BY DEF ThreadsKept
  <1>2. NilInv(p)'  BY <1>1, NilMoves
  <1>3. OfferInv(p)'  BY OfferMoves
  <1>4. repeats'[p] \in Nat  BY DEF HistoryMoves
  <1>5. CountInv(p)'  BY <1>1, <1>4, CountMoves DEF HistoryMoves
  <1> QED  BY <1>2, <1>3, <1>5, MainOnly

\* A step that only moves main, on a bus that issues a login at most.
NewLogins(p) ==
  \/ UNCHANGED logins
  \/ \E e \in Entity : Issue(p, e) /\ (servant(p).kind # "none" => e \in Entities(p))
LEMMA LoginsGrow ==
  ASSUME IInv, NEW p \in Process, UNCHANGED <<play, offers>>, NewLogins(p),
         faults' = faults \/ Fault
  PROVE  /\ BusGrows /\ \A q : NoOfferOf(q)
         /\ DOMAIN logins \subseteq DOMAIN logins'
         /\ \A l \in DOMAIN logins' : l \notin DOMAIN logins =>
              /\ logins'[l].process = p
              /\ servant(p).kind # "none" => logins'[l].entity \in Entities(p)
  <1>1. CASE UNCHANGED logins
    BY <1>1, BusStays
  <1>2. ASSUME NEW e \in Entity, Issue(p, e), servant(p).kind # "none" => e \in Entities(p)
        PROVE  /\ BusGrows /\ \A q : NoOfferOf(q)
               /\ DOMAIN logins \subseteq DOMAIN logins'
               /\ \A l \in DOMAIN logins' : l \notin DOMAIN logins =>
                    /\ logins'[l].process = p
                    /\ servant(p).kind # "none" => logins'[l].entity \in Entities(p)
    <2>1. /\ BusGrows /\ \A q : NoOfferOf(q)
          /\ DOMAIN logins' = DOMAIN logins \cup {Issued}
          /\ logins'[Issued] = [process |-> p, entity |-> e, valid |-> TRUE]
      BY <1>2, IssueGrows
    <2> QED  BY <1>2, <2>1
  <1> QED  BY <1>1, <1>2 DEF NewLogins

LEMMA MovesOnly ==
  ASSUME IInv, NEW p \in Process, Running(p), Onward(p), Moves(p),
         UNCHANGED <<play, offers, conn, inside, historyVars>>,
         PeerMoves(p), NewLogins(p), faults' = faults \/ Fault,
         UNCHANGED <<secrets, file>> \/ BusTypes',
         Leaves(p) => Unfinished(At(p)),
         NilInv(p)' \/ status'[p] # "crashed",
         pc'[p] = pc[p] \/ (~LogsIn(At(p)) /\ At(p).do # "register")
  PROVE  IInv'
  <1> USE DEF historyVars
  <1>1. /\ BusGrows /\ \A q : NoOfferOf(q)
        /\ DOMAIN logins \subseteq DOMAIN logins'
        /\ \A l \in DOMAIN logins' : l \notin DOMAIN logins =>
             /\ logins'[l].process = p
             /\ servant(p).kind # "none" => logins'[l].entity \in Entities(p)
    BY LoginsGrow
  <1>2. BusTypes'
    BY <1>1, BusHasTypes DEF IInv, BusTypes
  <1>3. HistoryMoves(p) /\ works'[p] = works[p]
    BY SameHistory
  <1>4. FoundInv(p)'  BY <1>1, FoundMoves DEF PeerMoves
  <1>5. WorkInv(p)'  BY <1>1, <1>3, WorkMoves DEF HistoryMoves
  <1>6. OnlyThroughSecretary'
    BY DEF IInv, OnlyThroughSecretary
  <1>7. MainTypes' /\ \A q \in Process \ {p} : MainKept(q)
    BY DEF Moves
  <1> QED  BY <1>1, <1>2, <1>3, <1>4, <1>5, <1>6, <1>7, MainQuiet
-----------------------------------------------------------------------------
(* The statement main is at, and how it leaves it.                           *)
LEMMA AtFacts ==
  ASSUME IInv, NEW p \in Process
  PROVE  /\ pc[p] \in DOMAIN Script(p) /\ At(p) = Script(p)[pc[p]]
         /\ GoodStatement(At(p), Entities(p))
         /\ At(p).do # "serve" =>
              /\ At(p).as \in Entities(p) /\ At(p).as \in Entity
              /\ Login(p) \in Nat
              /\ Login(p) # None => Login(p) \in DOMAIN logins /\ logins[Login(p)].process = p
  <1>1. pc[p] \in DOMAIN Script(p)  BY DEF IInv, ProcessTypes
  <1>2. At(p) = Script(p)[pc[p]]  BY DEF At
  <1>3. GoodStatement(At(p), Entities(p))
    BY <1>1, <1>2, ScriptFacts DEF IInv
  <1> QED  BY <1>1, <1>2, <1>3, UsedLogins DEF GoodStatement, Login

\* An exception leaves no call undone.
LEMMA Throws ==
  ASSUME IInv, NEW p \in Process, Running(p), NEW e, Throw(p, e)
  PROVE  /\ Moves(p) /\ pc'[p] = pc[p] /\ Onward(p) /\ status'[p] # "crashed"
         /\ Leaves(p) => Unfinished(At(p))
  <1>1. Moves(p) /\ Thrown(p, e)  BY ThrowMoves
  <1>2. pc'[p] = pc[p] /\ Onward(p) /\ status'[p] # "crashed"
    BY <1>1 DEF Thrown, Onward, Running
  <1>3. Leaves(p) => e \in At(p).returns
    BY <1>1 DEF Thrown, Leaves, Running
  <1>4. At(p).do = "use" => GoodUse(At(p))
    BY AtFacts DEF GoodStatement
  <1> QED  BY <1>1, <1>2, <1>3, <1>4 DEF GoodUse, Unfinished

\* So does a return of a call that main does not look for until it is made.
LEMMA Goes ==
  ASSUME IInv, NEW p \in Process, Running(p), inside[p]["main"] = Outside,
         NEW where \in {"again", "next", "return"}, Go(p, where)
  PROVE  /\ Moves(p) /\ Onward(p) /\ status'[p] # "crashed"
         /\ Leaves(p) <=> where # "again"
  <1>1. Moves(p) /\ Gone(p, where)  BY GoMoves
  <1>2. pc[p] \in Nat  BY Numbers
  <1> QED  BY <1>1, <1>2 DEF Gone, Advanced, Onward, Leaves, Running

LEMMA Advances ==
  ASSUME IInv, NEW p \in Process, Running(p), inside[p]["main"] = Outside, Advance(p)
  PROVE  Moves(p) /\ Onward(p) /\ status'[p] # "crashed" /\ Leaves(p)
  <1>1. Go(p, "next")  BY DEF Go
  <1> QED  BY <1>1, Goes

\* The secret in the file is of a login process of the bus.
LEMMA BusHasSecrets ==
  ASSUME IInv, BusGrows, faults' = faults \/ Fault, UNCHANGED offers,
         DOMAIN logins \subseteq DOMAIN logins', secrets' \in Seq(SecretRecord),
         \/ file' = NoStream
         \/ \E id \in DOMAIN secrets', legacy \in BOOLEAN :
              file' = encodeSharedAuthSecret(SecretOf(id, legacy))
  PROVE  BusTypes'
  <1>1. BusTypes  BY DEF IInv
  <1>2. Process' = Process /\ LoginRecord' = LoginRecord
    BY SamePlay DEF BusGrows, LoginRecord
  <1>3. faults' \in 0..MaxFaults[play]
    BY <1>1, ServicesAssumption DEF BusTypes, Fault
  <1>4. \A id \in DOMAIN secrets', legacy \in BOOLEAN :
          encodeSharedAuthSecret(SecretOf(id, legacy))'
            = encodeSharedAuthSecret(SecretOf(id, legacy))
    BY DEF encodeSharedAuthSecret, SecretOf, encode_exported_versions
  <1> QED  BY <1>1, <1>2, <1>3, <1>4 DEF BusTypes, BusGrows, OfferRecord, SecretRecord

LEMMA Decoded ==
  ASSUME NEW id, NEW legacy \in BOOLEAN,
         NEW stream, stream = encodeSharedAuthSecret(SecretOf(id, legacy)),
         decodeSharedAuthSecret(stream) \notin Failure
  PROVE  Attempt(decodeSharedAuthSecret(stream)) = id
  <1> DEFINE s == SecretOf(id, legacy)
             v == << [version |-> Current, bus |-> s.bus,
                      attempt |-> s.attempt[Current], secret |-> s.secret],
                     [version |-> Legacy, bus |-> s.bus,
                      attempt |-> s.attempt[Legacy], secret |-> s.secret] >>
             Of(p) == {i \in Known(v) : v[i].version = p}
             Latest(S) == v[CHOOSE i \in S : \A j \in S : j <= i]
  <1>1. s.attempt[Current] = id /\ s.attempt[Legacy] \in {id, Unsigned}
    BY DEF SecretOf, Protocol
  <1>2. stream.tag = SharedAuthTag /\ stream.versions = v
    BY DEF encodeSharedAuthSecret, encode_exported_versions
  <1>3. /\ DOMAIN v = {1, 2} /\ v[1].version = Current /\ v[2].version = Legacy
        /\ v[1].attempt = s.attempt[Current] /\ v[2].attempt = s.attempt[Legacy]
    OBVIOUS
  <1> HIDE DEF s, v
  <1>4. Known(v) = {1, 2}  BY <1>3 DEF Known, Protocol
  <1>5. Of(Current) = {1} /\ Of(Legacy) = {2}
    BY <1>3, <1>4, ExportAssumption
  <1>6. Latest({1}) = v[1] /\ Latest({2}) = v[2]
    <2>1. (CHOOSE i \in {1} : \A j \in {1} : j <= i) = 1  OBVIOUS
    <2>2. (CHOOSE i \in {2} : \A j \in {2} : j <= i) = 2  OBVIOUS
    <2> QED  BY <2>1, <2>2
  <1>7. Reads(stream, SharedAuthTag) \in {v, CodecFailure}
    BY <1>2 DEF Reads
  <1>8. /\ decodeSharedAuthSecret(stream).attempt[Current] = v[1].attempt
        /\ decodeSharedAuthSecret(stream).attempt[Legacy] = v[2].attempt
    <2>1. Reads(stream, SharedAuthTag) = v /\ v \notin Failure
      BY <1>7 DEF decodeSharedAuthSecret, Failure
    <2>2. decodeSharedAuthSecret(stream)
            = [bus |-> Latest(Known(v)).bus, secret |-> Latest(Known(v)).secret,
               attempt |-> [p \in Protocol |->
                 IF Of(p) = {} THEN Unsigned ELSE Latest(Of(p)).attempt]]
      BY <2>1, <1>4 DEF decodeSharedAuthSecret
    <2> HIDE DEF Latest, Of
    <2> QED  BY <2>2, <1>5, <1>6 DEF Protocol
  <1> QED  BY <1>1, <1>3, <1>8 DEF Attempt

LEMMA SecretIsKnown ==
  ASSUME IInv, Usable
  PROVE  Attempt(ReadSecret) \in DOMAIN secrets
  <1>1. ReadSecret \notin Failure  BY DEF Usable
  <1>2. CASE file = NoStream
    BY <1>1, <1>2 DEF ReadSecret, decodeSharedAuthSecret, Reads, Failure
  <1>3. CASE file # NoStream
    <2>1. PICK id \in DOMAIN secrets, legacy \in BOOLEAN :
            file = encodeSharedAuthSecret(SecretOf(id, legacy))
      BY <1>3 DEF IInv, BusTypes
    <2> QED  BY <1>1, <2>1, Decoded DEF ReadSecret
  <1> QED  BY <1>2, <1>3

LEMMA SpendsSecret ==
  ASSUME IInv, Usable, Spend
  PROVE  /\ secrets[Attempt(ReadSecret)].entity \in Entity
         /\ secrets' \in Seq(SecretRecord) /\ DOMAIN secrets' = DOMAIN secrets
  <1>1. Attempt(ReadSecret) \in DOMAIN secrets  BY SecretIsKnown
  <1>2. secrets \in Seq(SecretRecord)  BY DEF IInv, BusTypes
  <1> DEFINE a == Attempt(ReadSecret)
  <1>3. secrets[a] \in SecretRecord  BY <1>1, <1>2
  <1>4. secrets' = [secrets EXCEPT ![a] = [secrets[a] EXCEPT !.used = TRUE]]
    BY DEF Spend
  <1>5. [secrets[a] EXCEPT !.used = TRUE] \in SecretRecord
    BY <1>3 DEF SecretRecord
  <1>6. a \in 1..Len(secrets)  BY <1>1, <1>2
  <1> HIDE DEF a
  <1>7. secrets' \in Seq(SecretRecord) /\ Len(secrets') = Len(secrets)
    BY <1>2, <1>4, <1>5, <1>6, ExceptSeq
  <1>8. DOMAIN secrets' = DOMAIN secrets  BY <1>2, <1>7
  <1> QED  BY <1>3, <1>7, <1>8 DEF SecretRecord, a
-----------------------------------------------------------------------------
(* The steps of main that only move it.                                      *)
LEMMA ThrowHolds ==
  ASSUME IInv, NEW p \in Process, NEW e, Running(p), Throw(p, e),
         UNCHANGED <<play, peer, offers, conn, inside, historyVars>>,
         NewLogins(p), faults' = faults \/ Fault,
         UNCHANGED <<secrets, file>> \/ BusTypes'
  PROVE  IInv'
  <1>1. /\ Moves(p) /\ pc'[p] = pc[p] /\ Onward(p) /\ status'[p] # "crashed"
        /\ Leaves(p) => Unfinished(At(p))
    BY Throws
  <1>2. PeerMoves(p)  BY SamePeer
  <1> QED  BY <1>1, <1>2, MovesOnly

LEMMA EndHolds ==
  ASSUME IInv, NEW p \in Process, Running(p), NEW how \in {"killed", "crashed"},
         Ends(p, how), UNCHANGED <<pc, reference, found, facet>>,
         UNCHANGED <<play, peer, conn, inside, logins, offers, secrets, file, historyVars>>,
         faults' = faults \/ Fault, NilInv(p)' \/ how # "crashed"
  PROVE  IInv'
  <1>1. Moves(p) /\ status'[p] = how /\ pc'[p] = pc[p]
    BY EndsMoves DEF Statuses
  <1>2. PeerMoves(p)  BY SamePeer
  <1>3. Onward(p) /\ ~Leaves(p)  BY <1>1 DEF Onward, Leaves
  <1> QED  BY <1>1, <1>2, <1>3, MovesOnly DEF NewLogins

LEMMA LoginFailsHolds ==
  ASSUME IInv, NEW p \in Process, NEW e, LoginFails(p, e)
  PROVE  IInv'
  <1>1. Running(p) /\ At(p).do = "login"
    BY DEF LoginFails, Main, AtOneOf
  <1>2. NewLogins(p)
    BY <1>1, AtFacts DEF LoginFails, NewLogins
  <1> QED  BY <1>1, <1>2, ThrowHolds DEF LoginFails

LEMMA FindFailsHolds ==
  ASSUME IInv, NEW p \in Process, NEW e, FindFails(p, e)
  PROVE  IInv'
  <1>1. Running(p)
    BY DEF FindFails, Main, AtOneOf
  <1> QED  BY <1>1, ThrowHolds DEF FindFails, NewLogins

LEMMA KillHolds ==
  ASSUME IInv, NEW p \in Process, Kill(p)
  PROVE  IInv'
  BY EndHolds DEF Kill

LEMMA ShareFailsHolds ==
  ASSUME IInv, NEW p \in Process, NEW e, ShareFails(p, e)
  PROVE  IInv'
  <1>1. Running(p) /\ At(p).do = "share"
    BY DEF ShareFails, Main, AtOneOf
  <1>2. CASE Throw(p, e)
    BY <1>1, <1>2, ThrowHolds DEF ShareFails, NewLogins
  <1>3. CASE Ends(p, "crashed") /\ UNCHANGED <<pc, reference, found, facet>>
    <2>1. NilInv(p)'
      <3>1. NilInv(p)  BY DEF IInv, ProcessInv
      <3>2. relogin(p)' = relogin(p) /\ At(p)' = At(p)
        BY <1>3, SamePlay DEF ShareFails, At
      <3>3. UNCHANGED <<conn, inside, pc>>  BY <1>3 DEF ShareFails
      <3> QED  BY <1>1, <3>1, <3>2, <3>3 DEF NilInv, Relogs
    <2> QED  BY <1>1, <1>3, <2>1, EndHolds DEF ShareFails
  <1> QED  BY <1>2, <1>3 DEF ShareFails

\* The registry is nil after the login while the other thread logs in again.
LEMMA NilReferenceHolds ==
  ASSUME IInv, NEW p \in Process, NilReference(p)
  PROVE  IInv'
  <1>1. /\ Running(p) /\ inside[p]["main"] = Outside
        /\ At(p).do \in {"register", "use", "share"}
        /\ ~conn[p][At(p).as].registry
    BY DEF NilReference, AsksRegistry, Requests, AtOneOf
  <1>2. ASSUME relogin(p).again # {}
        PROVE  inside[p]["other"].step \in {"dropped", "recorded", "login"}
    <2>1. /\ HasCallback(p) /\ Entities(p) = {relogin(p).as}
          /\ LogsIn(Script(p)[1])
      BY <1>2, ReloginFacts, ScriptFacts DEF IInv
    <2>2. At(p).as = relogin(p).as
      BY <1>1, <2>1, AtFacts
    <2>3. pc[p] > 1
      BY <1>1, <2>1, AtFacts, Numbers DEF LogsIn
    <2>4. Relogs(p)
      BY <1>1, <1>2, <2>2, <2>3 DEF IInv, ProcessInv, NilInv
    <2> QED  BY <1>1, <2>4 DEF Relogs, Thread, Outside
  <1>3. NilInv(p)'
    <2>1. NilInv(p)  BY DEF IInv, ProcessInv
    <2>2. relogin(p)' = relogin(p)
      BY SamePlay DEF NilReference
    <2>3. UNCHANGED <<conn, inside, pc>>  BY DEF NilReference
    <2> QED  BY <1>2, <2>1, <2>2, <2>3 DEF NilInv, Relogs
  <1> QED  BY <1>1, <1>3, EndHolds DEF NilReference, busVars

LEMMA LoginBySharedAuthFailsHolds ==
  ASSUME IInv, NEW p \in Process, NEW e, LoginBySharedAuthFails(p, e)
  PROVE  IInv'
  <1>1. Running(p) /\ At(p).do = "login_shared"
    BY DEF LoginBySharedAuthFails, Main, AtOneOf
  <1>2. servant(p).kind = "none"
    BY <1>1, AtFacts, ServantFacts DEF IInv
  <1>3. CASE UNCHANGED <<secrets, logins>>
    BY <1>1, <1>3, ThrowHolds DEF LoginBySharedAuthFails, NewLogins
  <1>4. CASE Spend /\ Issue(p, secrets[Attempt(ReadSecret)].entity)
    <2>1. /\ secrets[Attempt(ReadSecret)].entity \in Entity
          /\ secrets' \in Seq(SecretRecord) /\ DOMAIN secrets' = DOMAIN secrets
      BY <1>4, SpendsSecret DEF LoginBySharedAuthFails
    <2>2. NewLogins(p)
      BY <1>2, <1>4, <2>1 DEF NewLogins
    <2>3. BusGrows /\ DOMAIN logins \subseteq DOMAIN logins'
      BY <2>2, LoginsGrow DEF LoginBySharedAuthFails
    <2>4. BusTypes'
      <3>1. \/ file' = NoStream
            \/ \E id \in DOMAIN secrets', legacy \in BOOLEAN :
                 file' = encodeSharedAuthSecret(SecretOf(id, legacy))
        BY <2>1 DEF IInv, BusTypes, LoginBySharedAuthFails
      <3> QED  BY <2>1, <2>3, <3>1, BusHasSecrets DEF LoginBySharedAuthFails
    <2> QED  BY <1>1, <2>2, <2>4, ThrowHolds DEF LoginBySharedAuthFails
  <1> QED  BY <1>3, <1>4 DEF LoginBySharedAuthFails

LEMMA ShareSecretHolds ==
  ASSUME IInv, NEW p \in Process, ShareSecret(p)
  PROVE  IInv'
  <1>1. Running(p) /\ At(p).do = "share" /\ inside[p]["main"] = Outside
    BY DEF ShareSecret, Main, AtOneOf
  <1>2. Moves(p) /\ Onward(p) /\ status'[p] # "crashed" /\ Unfinished(At(p))
    BY <1>1, Advances DEF ShareSecret, Unfinished
  <1>3. faults' = faults \/ Fault
    BY DEF ShareSecret
  <1>4. NewLogins(p) /\ UNCHANGED <<play, offers, logins>>
    BY DEF ShareSecret, NewLogins
  <1>5. BusGrows  BY <1>3, <1>4, BusStays
  <1>6. BusTypes'
    <2>1. secrets \in Seq(SecretRecord)  BY DEF IInv, BusTypes
    <2> DEFINE r == [entity |-> At(p).as, used |-> FALSE]
    <2>2. r \in SecretRecord
      BY <1>1, AtFacts DEF SecretRecord
    <2>3. secrets' = Append(secrets, r)  BY DEF ShareSecret
    <2> HIDE DEF r
    <2>4. /\ secrets' \in Seq(SecretRecord)
          /\ Len(secrets) + 1 \in DOMAIN secrets'
      BY <2>1, <2>2, <2>3
    <2>5. \/ file' = NoStream
          \/ \E id \in DOMAIN secrets', legacy \in BOOLEAN :
               file' = encodeSharedAuthSecret(SecretOf(id, legacy))
      BY <2>4 DEF ShareSecret
    <2> QED  BY <1>3, <1>4, <1>5, <2>4, <2>5, BusHasSecrets
  <1>7. PeerMoves(p)  BY SamePeer DEF ShareSecret
  <1>8. ~LogsIn(At(p)) /\ At(p).do # "register"
    BY <1>1 DEF LogsIn
  <1> QED
    BY <1>1, <1>2, <1>3, <1>4, <1>6, <1>7, <1>8, MovesOnly DEF ShareSecret
-----------------------------------------------------------------------------
(* The steps of main through the offers it finds.                            *)
UseMoves(p) ==
  /\ MainTypes' /\ \A q \in Process \ {p} : MainKept(q)
  /\ FoundInv(p)' /\ Onward(p) /\ status'[p] # "crashed"

LEMMA UseKeeps ==
  ASSUME IInv, NEW p \in Process, Running(p), At(p).do = "use", UseMoves(p),
         UNCHANGED <<play, conn, inside, logins, offers, secrets, file, unoffered>>,
         faults' = faults \/ Fault, PeerMoves(p), HistoryMoves(p),
         OnlyThroughSecretary', WorkInv(p)'
  PROVE  IInv'
  <1>1. BusGrows /\ \A q : NoOfferOf(q)  BY BusStays
  <1>2. BusTypes'  BY <1>1, BusHasTypes DEF IInv, BusTypes
  <1>3. ~LogsIn(At(p)) /\ At(p).do # "register"  BY DEF LogsIn
  <1> QED  BY <1>1, <1>2, <1>3, MainQuiet DEF UseMoves

\* A call that is not made.
LEMMA UseHolds ==
  ASSUME IInv, NEW p \in Process, Running(p), At(p).do = "use", UseMoves(p),
         UNCHANGED <<play, conn, inside, logins, offers, secrets, file, historyVars>>,
         faults' = faults \/ Fault, PeerMoves(p), Leaves(p) => Unfinished(At(p))
  PROVE  IInv'
  <1> USE DEF historyVars
  <1>1. HistoryMoves(p) /\ works'[p] = works[p]  BY SameHistory
  <1>2. BusGrows  BY BusStays
  <1>3. WorkInv(p)'  BY <1>1, <1>2, WorkMoves DEF HistoryMoves, UseMoves
  <1>4. OnlyThroughSecretary'  BY DEF IInv, OnlyThroughSecretary
  <1> QED  BY <1>1, <1>3, <1>4, UseKeeps

\* The offer main has at hand.
LEMMA FoundOffers ==
  ASSUME IInv, NEW p \in Process, Listed(p)
  PROVE  /\ Running(p) /\ At(p).do = "use" /\ inside[p]["main"] = Outside
         /\ GoodUse(At(p)) /\ At(p).as \in Entities(p)
         /\ found[p].offers \in Seq(Nat) /\ found[p].offers # <<>>
         /\ Head(found[p].offers) \in DOMAIN offers /\ Target(p) \in Process
         /\ logins[offers[Head(found[p].offers)].login].entity = At(p).entity
         /\ offers[Head(found[p].offers)].login \in DOMAIN logins
  <1>1. Running(p) /\ At(p).do = "use" /\ inside[p]["main"] = Outside /\ found[p].listed
    BY DEF Listed, Main, AtOneOf
  <1>2. GoodUse(At(p)) /\ At(p).as \in Entities(p)
    BY <1>1, AtFacts DEF GoodStatement
  <1>3. found[p].offers \in Seq(Nat)
    BY DEF IInv, ProcessTypes, FoundRecord
  <1>4. FoundInv(p)  BY DEF IInv, ProcessInv
  <1>5. found[p].offers # <<>>  BY <1>1, <1>4 DEF FoundInv
  <1>6. 1 \in DOMAIN found[p].offers /\ Head(found[p].offers) = found[p].offers[1]
    BY <1>3, <1>5
  <1>7. /\ Head(found[p].offers) \in DOMAIN offers
        /\ logins[offers[Head(found[p].offers)].login].entity = At(p).entity
    BY <1>1, <1>4, <1>6 DEF FoundInv
  <1>8. offers[Head(found[p].offers)].login \in DOMAIN logins /\ logins \in Seq(LoginRecord)
    BY <1>7 DEF IInv, BusTypes
  <1>9. Target(p) \in Process
    <2>1. logins[offers[Head(found[p].offers)].login] \in LoginRecord
      BY <1>8
    <2> QED  BY <2>1 DEF Target, Server, LoginRecord
  <1> QED  BY <1>1, <1>2, <1>3, <1>5, <1>7, <1>8, <1>9

\* Main changes what it has found of its statement.
LEMMA FoundChanges ==
  ASSUME IInv, NEW p \in Process, Running(p), At(p).do = "use", UNCHANGED <<play, pc, status>>,
         NEW f \in FoundRecord, found' = [found EXCEPT ![p] = f],
         NEW n \in Nat, facet' = [facet EXCEPT ![p] = n],
         reference' \in [Process -> BOOLEAN]
  PROVE  /\ MainTypes' /\ \A q \in Process \ {p} : MainKept(q)
         /\ Onward(p) /\ status'[p] # "crashed" /\ ~Leaves(p)
         /\ found'[p] = f /\ facet'[p] = n
  <1>1. MainTypes  BY MainHasTypes
  <1>2. Process' = Process /\ \A q : Script(q)' = Script(q)
    BY SamePlay
  <1>3. MainTypes'  BY <1>1, <1>2 DEF MainTypes
  <1> QED  BY <1>1, <1>3 DEF MainTypes, MainKept, Onward, Leaves, Running

LEMMA NextOffer ==
  ASSUME IInv, NEW p \in Process, Listed(p), Len(found[p].offers) # 1,
         found' = [found EXCEPT ![p].offers = Tail(@)],
         facet' = [facet EXCEPT ![p] = None],
         UNCHANGED <<play, pc, status, reference, logins, offers>>,
         peer'[p] \in {None} \cup DOMAIN offers
  PROVE  UseMoves(p) /\ ~Leaves(p)
  <1> DEFINE s == found[p].offers
             f == [found[p] EXCEPT !.offers = Tail(s)]
  <1>1. FoundInv(p) /\ found \in [Process -> FoundRecord]
        /\ reference \in [Process -> BOOLEAN]
    BY DEF IInv, ProcessInv, ProcessTypes
  <1>2. Listed(p) => found[p].listed
    BY DEF Listed
  <1>3. s \in Seq(Nat) /\ s # <<>> /\ Running(p) /\ At(p).do = "use"
    BY FoundOffers
  <1>4. /\ Tail(s) \in Seq(Nat) /\ Tail(s) # <<>>
        /\ \A i \in DOMAIN Tail(s) : i + 1 \in DOMAIN s /\ Tail(s)[i] = s[i + 1]
    <2> HIDE DEF s
    <2>1. Len(s) \in Nat \ {0, 1}  BY <1>3 DEF s
    <2>2. Tail(s) \in Seq(Nat) /\ Len(Tail(s)) = Len(s) - 1
      BY <1>3, <2>1
    <2>3. Tail(s) # <<>>
      <3>1. Len(Tail(s)) # 0 /\ Len(<<>>) = 0  BY <2>1, <2>2
      <3> QED  BY <3>1
    <2>4. \A i \in 1..(Len(s) - 1) : i + 1 \in DOMAIN s /\ Tail(s)[i] = s[i + 1]
      BY <1>3, <2>1
    <2> QED  BY <2>2, <2>3, <2>4
  <1>5. f \in FoundRecord /\ f.listed /\ f.offers = Tail(s)
    BY <1>1, <1>2, <1>4 DEF FoundRecord
  <1>6. found' = [found EXCEPT ![p] = f]  OBVIOUS
  <1> HIDE DEF f
  <1>7. None \in Nat  BY DEF None
  <1>8. /\ MainTypes' /\ \A q \in Process \ {p} : MainKept(q)
        /\ Onward(p) /\ status'[p] # "crashed" /\ ~Leaves(p)
        /\ found'[p] = f /\ facet'[p] = None
    BY <1>1, <1>3, <1>5, <1>6, <1>7, FoundChanges
  <1>9. At(p)' = At(p)  BY SamePlay DEF At
  <1>10. \A i \in DOMAIN f.offers :
           /\ f.offers[i] \in DOMAIN offers
           /\ logins[offers[f.offers[i]].login].entity = At(p).entity
    BY <1>1, <1>2, <1>4, <1>5 DEF FoundInv
  <1>11. FoundInv(p)'
    BY <1>3, <1>4, <1>5, <1>8, <1>9, <1>10 DEF FoundInv
  <1> QED  BY <1>8, <1>11 DEF UseMoves

LEMMA MovesUse ==
  ASSUME IInv, NEW p \in Process, BusGrows, Moves(p), Onward(p), status'[p] # "crashed",
         peer'[p] \in {None} \cup DOMAIN offers
  PROVE  UseMoves(p)
  <1>1. FoundInv(p)'  BY FoundMoves DEF BusGrows
  <1> QED  BY <1>1 DEF UseMoves, Moves, BusGrows

LEMMA TriesNext ==
  ASSUME IInv, NEW p \in Process, Listed(p), NEW e, NEW skips, TryNext(p, e, skips),
         UNCHANGED <<play, peer, logins, offers>>, faults' = faults \/ Fault
  PROVE  UseMoves(p) /\ (Leaves(p) => Unfinished(At(p)))
  <1>1. /\ Running(p) /\ At(p).do = "use" /\ inside[p]["main"] = Outside
        /\ GoodUse(At(p))
    BY FoundOffers
  <1>2. BusGrows  BY BusStays
  <1>3. peer'[p] \in {None} \cup DOMAIN offers
    BY SamePeer DEF PeerMoves
  <1>4. CASE Throw(p, e)
    BY <1>1, <1>2, <1>3, <1>4, Throws, MovesUse
  <1>5. CASE Go(p, At(p).none)
    <2>1. At(p).none \in {"again", "next", "return"}  BY <1>1 DEF GoodUse
    <2> QED  BY <1>1, <1>2, <1>3, <1>5, <2>1, Goes, MovesUse DEF Unfinished
  <1>6. CASE /\ Len(found[p].offers) # 1
             /\ found' = [found EXCEPT ![p].offers = Tail(@)]
             /\ facet' = [facet EXCEPT ![p] = None]
             /\ UNCHANGED <<pc, status, reference>>
    BY <1>3, <1>6, NextOffer
  <1> QED  BY <1>4, <1>5, <1>6 DEF TryNext

\* The offers a search of main lists are those of the entity it looks for.
LEMMA Ordered ==
  ASSUME NEW S, IsFiniteSet(S)
  PROVE  SetToSeq(S) \in Seq(S) /\ DOMAIN SetToSeq(S) = 1..Len(SetToSeq(S))
  <1> DEFINE n == Cardinality(S)
  <1>1. n \in Nat /\ ExistsBijection(1..n, S)  BY FS_CardinalityType
  <1>2. \E f \in [1..n -> S] : IsInjective(f)
    BY <1>1 DEF ExistsBijection, Bijection, Injection
  <1>3. SetToSeq(S) \in [1..n -> S]  BY <1>2 DEF SetToSeq
  <1> HIDE DEF n
  <1>4. SetToSeq(S) \in Seq(S)  BY <1>1, <1>3, SeqDef
  <1> QED  BY <1>4

LEMMA Listings ==
  ASSUME IInv, NEW p \in Process
  PROVE  /\ Listing(p) \in Seq(Nat)
         /\ \A i \in DOMAIN Listing(p) :
              /\ Listing(p)[i] \in DOMAIN offers
              /\ logins[offers[Listing(p)[i]].login].entity = At(p).entity
  <1> DEFINE S == {o \in Visible(At(p).entity, At(p).service) :
                     At(p).checked => Running(Server(o))}
  <1>1. /\ S \subseteq 1..Len(offers) /\ Len(offers) \in Nat
        /\ \A o \in S : o \in DOMAIN offers
             /\ logins[offers[o].login].entity = At(p).entity
    BY DEF Visible, IInv, BusTypes
  <1>2. Listing(p) = SetToSeq(S)  BY DEF Listing
  <1> HIDE DEF S
  <1>3. IsFiniteSet(S)
    <2>1. IsFiniteSet(1..Len(offers))  BY <1>1, FS_Interval
    <2> QED  BY <1>1, <2>1, FS_Subset
  <1>4. Listing(p) \in Seq(S)  BY <1>2, <1>3, Ordered
  <1>5. \A i \in DOMAIN Listing(p) : Listing(p)[i] \in S  BY <1>4
  <1>6. Listing(p) \in Seq(Nat)
    <2>1. S \subseteq Nat  BY <1>1
    <2> QED  BY <1>4, <2>1, SeqMonotonic
  <1> QED  BY <1>1, <1>5, <1>6

LEMMA FindServicesHolds ==
  ASSUME IInv, NEW p \in Process, FindServices(p)
  PROVE  IInv'
  <1>1. /\ Running(p) /\ At(p).do = "use" /\ inside[p]["main"] = Outside
        /\ ~found[p].listed
    BY DEF FindServices, Main, AtOneOf
  <1>2. /\ UNCHANGED <<play, peer, conn, inside, logins, offers, secrets, file, faults,
                       historyVars>>
    BY DEF FindServices, busVars
  <1>3. PeerMoves(p)  BY <1>2, SamePeer
  <1>4. BusGrows  BY <1>2, BusStays
  <1>5. At(p).none \in {"again", "next", "return"}
    BY <1>1, AtFacts DEF GoodStatement, GoodUse
  <1>6. CASE Go(p, At(p).none)
    <2>1. UseMoves(p) /\ (Leaves(p) => Unfinished(At(p)))
      BY <1>1, <1>3, <1>4, <1>5, <1>6, Goes, MovesUse DEF Unfinished, PeerMoves
    <2> QED  BY <1>1, <1>2, <1>3, <2>1, UseHolds
  <1>7. CASE /\ Listing(p) # <<>>
             /\ found' = [found EXCEPT ![p] = [offers |-> Listing(p),
                            several |-> Len(Listing(p)) > 1, listed |-> TRUE]]
             /\ reference' = [reference EXCEPT ![p] = FALSE]
             /\ UNCHANGED <<pc, status, facet>>
    <2> DEFINE f == [offers |-> Listing(p), several |-> Len(Listing(p)) > 1,
                     listed |-> TRUE]
    <2>1. f \in FoundRecord /\ f.offers = Listing(p) /\ f.listed /\ f.offers # <<>>
      BY <1>7, Listings DEF FoundRecord
    <2>2. found' = [found EXCEPT ![p] = f]  BY <1>7
    <2> HIDE DEF f
    <2>3. FoundInv(p) /\ facet[p] = None /\ facet \in [Process -> Nat]
          /\ reference \in [Process -> BOOLEAN]
      BY <1>1 DEF IInv, ProcessInv, FoundInv, ProcessTypes
    <2>4. facet' = [facet EXCEPT ![p] = None] /\ None \in Nat
          /\ reference' \in [Process -> BOOLEAN]
      BY <1>7, <2>3 DEF None
    <2>5. /\ MainTypes' /\ \A q \in Process \ {p} : MainKept(q)
          /\ Onward(p) /\ status'[p] # "crashed" /\ ~Leaves(p)
          /\ found'[p] = f /\ facet'[p] = None
      <3>1. UNCHANGED <<play, pc, status>>  BY <1>2, <1>7
      <3> QED  BY <1>1, <2>1, <2>2, <2>4, <3>1, FoundChanges
    <2>6. At(p)' = At(p)  BY <1>2, <1>7, SamePlay DEF At
    <2>7. FoundInv(p)'
      BY <1>1, <1>2, <2>1, <2>3, <2>5, <2>6, Listings DEF FoundInv
    <2>8. UseMoves(p)  BY <2>5, <2>7 DEF UseMoves
    <2> QED  BY <1>1, <1>2, <1>3, <2>5, <2>8, UseHolds
  <1> QED  BY <1>6, <1>7 DEF FindServices

LEMMA GetFacetHolds ==
  ASSUME IInv, NEW p \in Process, GetFacet(p)
  PROVE  IInv'
  <1> DEFINE h == Head(found[p].offers)
  <1>1. /\ Running(p) /\ At(p).do = "use" /\ inside[p]["main"] = Outside
        /\ GoodUse(At(p)) /\ h \in DOMAIN offers /\ found[p].listed
    BY FoundOffers DEF GetFacet, Listed
  <1>2. UNCHANGED <<play, conn, inside, logins, offers, secrets, file, faults, historyVars>>
    BY DEF GetFacet, busVars
  <1>3. BusGrows  BY <1>2, BusStays
  <1>4. h \in Nat
    BY <1>1 DEF IInv, BusTypes
  <1> HIDE DEF h
  <1>5. CASE At(p).keep /\ peer' = [peer EXCEPT ![p] = h] /\ Go(p, At(p).done)
    <2>1. At(p).done \in {"again", "next", "return"} /\ Unfinished(At(p))
      BY <1>1, <1>5 DEF GoodUse, Unfinished
    <2>2. PeerMoves(p)
      <3>1. peer \in [Process -> Nat]  BY DEF IInv, ProcessTypes
      <3> QED  BY <1>1, <1>4, <1>5, <3>1 DEF PeerMoves
    <2>3. UseMoves(p)
      BY <1>1, <1>3, <1>5, <2>1, <2>2, Goes, MovesUse DEF PeerMoves
    <2> QED  BY <1>1, <1>2, <2>1, <2>2, <2>3, UseHolds
  <1>6. CASE /\ ~At(p).keep /\ facet' = [facet EXCEPT ![p] = h]
             /\ UNCHANGED <<peer, pc, status, reference, found>>
    <2>1. PeerMoves(p)  BY <1>6, SamePeer
    <2>2. found[p] \in FoundRecord /\ found' = [found EXCEPT ![p] = found[p]]
          /\ reference' \in [Process -> BOOLEAN] /\ FoundInv(p)
      BY <1>6 DEF IInv, ProcessTypes, ProcessInv
    <2>3. /\ MainTypes' /\ \A q \in Process \ {p} : MainKept(q)
          /\ Onward(p) /\ status'[p] # "crashed" /\ ~Leaves(p)
          /\ found'[p] = found[p] /\ facet'[p] = h
      BY <1>1, <1>2, <1>4, <1>6, <2>2, FoundChanges
    <2>4. At(p)' = At(p)  BY <1>2, <1>6, SamePlay DEF At
    <2>5. FoundInv(p)'
      BY <1>1, <1>2, <1>6, <2>2, <2>3, <2>4 DEF FoundInv, h
    <2>6. UseMoves(p)  BY <2>3, <2>5 DEF UseMoves
    <2> QED  BY <1>1, <1>2, <2>1, <2>3, <2>6, UseHolds
  <1> QED  BY <1>5, <1>6 DEF GetFacet, h

LEMMA GetFacetFailsHolds ==
  ASSUME IInv, NEW p \in Process, NEW e, GetFacetFails(p, e)
  PROVE  IInv'
  <1>1. Listed(p) /\ Running(p) /\ At(p).do = "use"
    BY FoundOffers DEF GetFacetFails
  <1>2. faults' = faults \/ Fault  BY DEF GetFacetFails
  <1>3. UseMoves(p) /\ (Leaves(p) => Unfinished(At(p)))
    BY <1>1, <1>2, TriesNext DEF GetFacetFails
  <1>4. PeerMoves(p)  BY SamePeer DEF GetFacetFails
  <1> QED  BY <1>1, <1>2, <1>3, <1>4, UseHolds DEF GetFacetFails

\* A call that is executed.
LEMMA WorksSoFar ==
  ASSUME IInv, NEW p \in Process, Running(p), At(p).do = "use"
  PROVE  /\ pc[p] \in 1..Len(works[p]) /\ works[p] \in Seq(Nat)
         /\ works[p][pc[p]] \in Nat /\ works[p][pc[p]] <= repeats[p]
  <1>1. WorkInv(p)  BY DEF IInv, ProcessInv
  <1>2. pc[p] \in 1..Len(works[p]) /\ works[p] \in Seq(Nat) /\ repeats[p] \in Nat
    BY Numbers DEF IInv, ProcessTypes
  <1>3. works[p][pc[p]] \in Nat
    BY <1>2
  <1> QED  BY <1>1, <1>2, <1>3, PastMoves, AtFacts DEF WorkInv, Past, Running

LEMMA WorkCounted ==
  ASSUME IInv, NEW p \in Process, Running(p), At(p).do = "use", NEW n \in Nat,
         works' = [works EXCEPT ![p][pc[p]] = n],
         UNCHANGED repeats \/ Repeats(p, 1)
  PROVE  /\ HistoryMoves(p) /\ works'[p][pc[p]] = n
         /\ \A i \in DOMAIN Script(p) : i # pc[p] => works'[p][i] = works[p][i]
         /\ repeats'[p] \in Nat
  <1> DEFINE w == [works[p] EXCEPT ![pc[p]] = n]
  <1>1. pc[p] \in 1..Len(works[p]) /\ works[p] \in Seq(Nat)
    BY WorksSoFar
  <1>2. /\ w \in Seq(Nat) /\ Len(w) = Len(works[p])
        /\ \A i \in 1..Len(works[p]) : w[i] = IF i = pc[p] THEN n ELSE works[p][i]
    BY <1>1, ExceptSeq
  <1>3. works' = [works EXCEPT ![p] = w]  OBVIOUS
  <1> HIDE DEF w
  <1>4. works \in [Process -> Seq(Nat)] /\ repeats \in [Process -> Nat]
        /\ DOMAIN Script(p) = 1..Len(works[p])
    BY ScriptFacts DEF IInv, ProcessTypes
  <1>5. /\ repeats' \in [Process -> Nat] /\ repeats[p] <= repeats'[p]
        /\ \A q \in Process \ {p} : repeats'[q] = repeats[q]
    <2>1. repeats[p] \in Nat /\ repeats[p] + 1 \in Nat  BY <1>4
    <2>2. CASE UNCHANGED repeats  BY <1>4, <2>1, <2>2
    <2>3. CASE repeats' = [repeats EXCEPT ![p] = repeats[p] + 1]
      BY <1>4, <2>1, <2>3
    <2> QED  BY <2>2, <2>3 DEF Repeats
  <1>6. works'[p] = w /\ works' \in [Process -> Seq(Nat)]
    BY <1>2, <1>3, <1>4
  <1>7. \A q \in Process \ {p} : works'[q] = works[q]
    BY <1>3, <1>4
  <1>8. HistoryMoves(p)
    BY <1>2, <1>5, <1>6, <1>7 DEF HistoryMoves
  <1> QED  BY <1>1, <1>2, <1>4, <1>5, <1>6, <1>8

LEMMA CountedHolds ==
  ASSUME IInv, NEW p \in Process, Running(p), At(p).do = "use", NEW n \in Nat,
         works' = [works EXCEPT ![p][pc[p]] = n],
         UNCHANGED repeats \/ Repeats(p, 1), UseMoves(p), PeerMoves(p),
         UNCHANGED <<play, conn, inside, logins, offers, secrets, file, unoffered>>,
         faults' = faults \/ Fault, OnlyThroughSecretary',
         n <= (IF Leaves(p) THEN 1 ELSE 0) + repeats'[p],
         Leaves(p) => n >= 1 \/ Unfinished(At(p))
  PROVE  IInv'
  <1>1. BusGrows  BY BusStays
  <1>2. /\ HistoryMoves(p) /\ works'[p][pc[p]] = n /\ repeats'[p] \in Nat
        /\ \A i \in DOMAIN Script(p) : i # pc[p] => works'[p][i] = works[p][i]
    BY WorkCounted
  <1>3. repeats[p] <= repeats'[p]  BY <1>2 DEF HistoryMoves
  <1>4. WorkInv(p)'
    BY <1>1, <1>2, <1>3, WorkSteps DEF UseMoves
  <1> QED  BY <1>2, <1>4, UseKeeps

\* Who is called: the executive or the server of the chain by the secretary only.
LEMMA ExecutedWell ==
  ASSUME IInv, NEW p \in Process, Calls(p), Outcome(p) = {"ok"}, Executed(p)
  PROVE  OnlyThroughSecretary'
  <1> DEFINE h == servant(Target(p))
  <1>1. /\ At(p).do = "use" /\ Target(p) \in Process
        /\ logins[offers[Head(found[p].offers)].login].entity = At(p).entity
        /\ offers[Head(found[p].offers)].login \in DOMAIN logins
    BY FoundOffers DEF Calls
  <1>2. ~At(p).keep
    BY DEF Calls, IInv, ProcessInv, FoundInv
  <1>3. h.kind # "none" => At(p).entity \in Entities(Target(p))
    BY <1>1 DEF IInv, LoginInv, Target, Server
  <1>4. h.kind # "none" =>
          /\ h.kind = "forwards" => At(p).as = "demo"
          /\ h.as \in {"executive", "server"} /\ h.kind = "executes" =>
               "anyone" \notin h.accepts /\ At(p).as \notin h.accepts
    <2>1. GoodCaller(Cast[play][p], Cast[play][Target(p)])
      BY <1>1, ServantFacts DEF IInv
    <2>2. EntitiesOf(Cast[play][Target(p)]) = Entities(Target(p))
      BY DEF EntitiesOf, Entities, LogsIn, Script
    <2>3. pc[p] \in DOMAIN Script(p) /\ At(p) = Script(p)[pc[p]]
      BY AtFacts
    <2> QED  BY <1>1, <1>2, <1>3, <2>1, <2>2, <2>3 DEF GoodCaller, Script, servant
  <1>5. h.kind \in {"none", "executes", "forwards"} /\ (h.kind = "none" => h.as = "none")
    BY <1>1, ServantFacts DEF IInv
  <1> DEFINE c == [at |-> servant(Executor(p)).as, chain |-> ChainOf(p)]
  <1>6. c.at \in {"executive", "server"} => Len(c.chain) = 2 /\ Head(c.chain) = "demo"
    <2>1. CASE Forwarded(p)
      <3>1. h.kind = "forwards"  BY <2>1 DEF Forwarded
      <3>2. ChainOf(p) = << "demo", h.as >>
        BY <1>4, <2>1, <3>1 DEF ChainOf
      <3> QED  BY <3>2
    <2>2. CASE ~Forwarded(p)
      <3>1. c.at = h.as /\ h.kind # "forwards" /\ ChainOf(p) = << At(p).as >>
        BY <2>2 DEF Executor, Forwarded, ChainOf
      <3>2. Accepts(Target(p), << At(p).as >>)
        BY <2>2, <3>1 DEF Outcome, Executor
      <3>3. "anyone" \in h.accepts \/ At(p).as \in h.accepts
        BY <3>2 DEF Accepts, Last
      <3> QED  BY <1>4, <1>5, <3>1, <3>3
    <2> QED  BY <2>1, <2>2
  <1>7. OnlyThroughSecretary  BY DEF IInv
  <1>8. calls' = calls \cup {c}  BY DEF Executed
  <1> HIDE DEF c
  <1> QED  BY <1>6, <1>7, <1>8 DEF OnlyThroughSecretary

LEMMA DoCallHolds ==
  ASSUME IInv, NEW p \in Process, DoCall(p)
  PROVE  IInv'
  <1>1. /\ Running(p) /\ At(p).do = "use" /\ inside[p]["main"] = Outside
        /\ GoodUse(At(p)) /\ Listed(p) /\ facet[p] # None
    BY FoundOffers DEF DoCall, Calls
  <1>2. UNCHANGED <<play, peer, conn, inside, logins, offers, secrets, file, faults,
                    repeats, unoffered>>
    BY DEF DoCall, busVars
  <1>3. OnlyThroughSecretary'  BY ExecutedWell DEF DoCall
  <1>4. BusGrows /\ PeerMoves(p)  BY <1>2, BusStays, SamePeer
  <1> DEFINE n == IF At(p).done \in {"again", "rest"} THEN 0 ELSE works[p][pc[p]] + 1
  <1>5. works' = [works EXCEPT ![p][pc[p]] = n]
    BY DEF DoCall
  <1>6. works[p][pc[p]] \in Nat /\ works[p][pc[p]] <= repeats[p] /\ repeats[p] \in Nat
    BY <1>1, WorksSoFar, Numbers
  <1>7. n \in Nat  BY <1>6
  <1>8. /\ UseMoves(p) /\ n <= (IF Leaves(p) THEN 1 ELSE 0) + repeats[p]
        /\ Leaves(p) => n >= 1 \/ Unfinished(At(p))
    <2>1. CASE At(p).done # "rest" /\ Go(p, At(p).done)
      <3>1. At(p).done \in {"again", "next", "return"}
        BY <1>1, <2>1 DEF GoodUse
      <3>2. UseMoves(p) /\ (Leaves(p) <=> At(p).done # "again")
        BY <1>1, <1>4, <2>1, <3>1, Goes, MovesUse DEF PeerMoves
      <3> QED  BY <1>6, <3>1, <3>2
    <2>2. CASE At(p).done = "rest" /\ Advance(p)
      <3>1. UseMoves(p)
        BY <1>1, <1>4, <2>2, Advances, MovesUse DEF PeerMoves
      <3>2. Unfinished(At(p))
        BY <1>1, <2>2 DEF GoodUse, Unfinished
      <3> QED  BY <1>6, <2>2, <3>1, <3>2
    <2>3. CASE /\ At(p).done = "rest" /\ Len(found[p].offers) # 1
               /\ found' = [found EXCEPT ![p].offers = Tail(@)]
               /\ facet' = [facet EXCEPT ![p] = None]
               /\ UNCHANGED <<pc, status, reference>>
      <3>1. UseMoves(p) /\ ~Leaves(p)
        BY <1>1, <1>2, <1>4, <2>3, NextOffer DEF PeerMoves
      <3> QED  BY <1>6, <2>3, <3>1
    <2> QED  BY <2>1, <2>2, <2>3 DEF DoCall
  <1> HIDE DEF n
  <1> QED  BY <1>1, <1>2, <1>3, <1>4, <1>5, <1>7, <1>8, CountedHolds

LEMMA CallFailsHolds ==
  ASSUME IInv, NEW p \in Process, NEW e, CallFails(p, e)
  PROVE  IInv'
  <1>1. /\ Running(p) /\ At(p).do = "use" /\ inside[p]["main"] = Outside
        /\ GoodUse(At(p)) /\ Listed(p)
    BY FoundOffers DEF CallFails, Calls
  <1>2. /\ UNCHANGED <<play, peer, conn, inside, logins, offers, secrets, file, unoffered>>
        /\ faults' = faults \/ Fault
    BY DEF CallFails
  <1>3. BusGrows /\ PeerMoves(p)  BY <1>2, BusStays, SamePeer
  <1>4. UseMoves(p) /\ (Leaves(p) => Unfinished(At(p)))
    <2>1. CASE At(p).refused /\ Go(p, "return")
      <3>1. UseMoves(p)
        BY <1>1, <1>3, <2>1, Goes, MovesUse DEF PeerMoves
      <3>2. Unfinished(At(p))
        BY <1>1, <2>1 DEF GoodUse, Unfinished
      <3> QED  BY <3>1, <3>2
    <2>2. CASE TryNext(p, e, IF At(p).guarded THEN At(p).skips ELSE {})
      BY <1>1, <1>2, <2>2, TriesNext
    <2> QED  BY <2>1, <2>2 DEF CallFails
  <1>5. CASE UNCHANGED <<works, repeats, calls>>
    BY <1>1, <1>2, <1>3, <1>4, <1>5, UseHolds DEF historyVars
  <1>6. CASE /\ works' = [works EXCEPT ![p][pc[p]] = @ + 1]
             /\ Repeats(p, 1) /\ Executed(p) /\ Outcome(p) = {"ok"}
    <2> DEFINE n == works[p][pc[p]] + 1
    <2>1. works[p][pc[p]] \in Nat /\ works[p][pc[p]] <= repeats[p] /\ repeats[p] \in Nat
      BY <1>1, WorksSoFar, Numbers
    <2>2. n \in Nat /\ works' = [works EXCEPT ![p][pc[p]] = n]
      BY <1>6, <2>1
    <2>3. repeats'[p] = repeats[p] + 1
      BY <1>6 DEF Repeats, IInv, ProcessTypes
    <2>4. n <= (IF Leaves(p) THEN 1 ELSE 0) + repeats'[p]
      BY <2>1, <2>3
    <2>5. OnlyThroughSecretary'
      BY <1>6, ExecutedWell DEF CallFails
    <2> HIDE DEF n
    <2> QED
      BY <1>1, <1>2, <1>3, <1>4, <1>6, <2>2, <2>4, <2>5, CountedHolds
  <1> QED  BY <1>5, <1>6 DEF CallFails
-----------------------------------------------------------------------------
(* The steps that offer a service.                                           *)
LEMMA OfferCounted ==
  ASSUME IInv, NEW p \in Process, NEW j \in DOMAIN Script(p),
         Script(p)[j].do = "register",
         NEW l, l = conn[p][Script(p)[j].as].login, l # None,
         NEW s, s = Script(p)[j].service, Offer(l, s), UNCHANGED <<play, logins>>,
         conn'[p] = conn[p], faults' = faults \/ Fault
  PROVE  /\ BusGrows /\ \A q \in Process \ {p} : NoOfferOf(q)
         /\ \A o \in DOMAIN offers' : offers'[o].login \in DOMAIN logins
         /\ \A m, r : OffersOf(m, r) \subseteq OffersOf(m, r)'
         /\ OffersOf(l, s)' # {}
         /\ \A i \in DOMAIN Script(p) : Script(p)[i].do = "register" =>
              Made(p, i)' = Made(p, i) + (IF i = j THEN 1 ELSE 0)
  <1>1. l \in DOMAIN logins /\ logins[l].process = p /\ s \in Service
    BY UsedLogins, ScriptFacts DEF IInv, GoodStatement
  <1>3. /\ BusGrows /\ \A q : q # logins[l].process => NoOfferOf(q)
        /\ \A o \in DOMAIN offers' : offers'[o].login \in DOMAIN logins
        /\ \A m, r : IF m = l /\ r = s
                     THEN \E n : /\ n \notin OffersOf(m, r)
                                 /\ OffersOf(m, r)' = OffersOf(m, r) \cup {n}
                     ELSE OffersOf(m, r)' = OffersOf(m, r)
    BY <1>1, OfferGrows
  <1>4. Script(p)' = Script(p)  BY SamePlay
  <1>5. PICK n : n \notin OffersOf(l, s) /\ OffersOf(l, s)' = OffersOf(l, s) \cup {n}
    BY <1>3
  <1>6. \A m, r : OffersOf(m, r) \subseteq OffersOf(m, r)'
    BY <1>3
  <1>7. ASSUME NEW i \in DOMAIN Script(p), Script(p)[i].do = "register"
        PROVE  Made(p, i)' = Made(p, i) + (IF i = j THEN 1 ELSE 0)
    <2>1. Made(p, i) \in Nat  BY Numbers
    <2>2. ASSUME NEW m, m = conn[p][Script(p)[i].as].login,
                 NEW r, r = Script(p)[i].service
          PROVE  /\ Made(p, i) = IF m = None THEN 0 ELSE Cardinality(OffersOf(m, r))
                 /\ Made(p, i)' = IF m = None THEN 0 ELSE Cardinality(OffersOf(m, r)')
      BY <1>4, <2>2 DEF Made, OffersOf
    <2>3. CASE i = j
      <3>1. offers \in Seq(OfferRecord)  BY DEF IInv, BusTypes
      <3>2. IsFiniteSet(OffersOf(l, s)) /\ Cardinality(OffersOf(l, s)) \in Nat
        BY <3>1, OffersFinite
      <3>3. Cardinality(OffersOf(l, s) \cup {n}) = Cardinality(OffersOf(l, s)) + 1
        BY <1>5, <3>2, FS_AddElement
      <3> QED  BY <1>5, <2>2, <2>3, <3>3
    <2>4. CASE i # j
      <3>1. Script(p)[i].service # s  BY <1>7, <2>4, ScriptFacts DEF IInv
      <3>2. \A m, r : r # s => OffersOf(m, r)' = OffersOf(m, r)
        BY <1>3
      <3>3. Made(p, i)' = Made(p, i)
        BY <2>2, <3>1, <3>2
      <3> QED  BY <2>1, <2>4, <3>3
    <2> QED  BY <2>3, <2>4
  <1> QED  BY <1>1, <1>3, <1>5, <1>6, <1>7

LEMMA RegisterOffers ==
  ASSUME IInv, NEW p \in Process, Main(p, "register"), Valid(Login(p)),
         Offer(Login(p), At(p).service), Moves(p), Onward(p), status'[p] # "crashed",
         UNCHANGED <<play, peer, conn, inside, logins, secrets, file, works, unoffered,
                     calls>>,
         faults' = faults \/ Fault,
         \/ Leaves(p) /\ UNCHANGED repeats
         \/ pc'[p] = pc[p] /\ Repeats(p, 1)
  PROVE  IInv'
  <1>1. Running(p) /\ At(p).do = "register" /\ inside[p]["main"] = Outside
    BY DEF Main, AtOneOf
  <1>2. pc[p] \in DOMAIN Script(p) /\ At(p) = Script(p)[pc[p]] /\ pc[p] \in Nat
    BY AtFacts, Numbers
  <1> SUFFICES ASSUME NEW l, l = Login(p), NEW s, s = At(p).service
               PROVE  IInv'
    OBVIOUS
  <1>3. l # None /\ Offer(l, s) /\ l = conn[p][At(p).as].login
    BY DEF Valid, Login
  <1>4. /\ BusGrows /\ \A q \in Process \ {p} : NoOfferOf(q)
        /\ \A o \in DOMAIN offers' : offers'[o].login \in DOMAIN logins
        /\ \A m, r : OffersOf(m, r) \subseteq OffersOf(m, r)'
        /\ OffersOf(l, s)' # {}
        /\ \A i \in DOMAIN Script(p) : Script(p)[i].do = "register" =>
             Made(p, i)' = Made(p, i) + (IF i = pc[p] THEN 1 ELSE 0)
    BY <1>1, <1>2, <1>3, OfferCounted
  <1>5. Script(p)' = Script(p) /\ relogin(p)' = relogin(p)
    BY SamePlay
  <1>6. BusTypes'  BY <1>4, BusHasTypes
  <1>7. PeerMoves(p)  BY SamePeer
  <1>8. /\ repeats \in [Process -> Nat] /\ works \in [Process -> Seq(Nat)]
        /\ repeats[p] \in Nat
    BY DEF IInv, ProcessTypes
  <1>9. /\ HistoryMoves(p) /\ repeats'[p] \in Nat
        /\ repeats'[p] = repeats[p] + (IF UNCHANGED repeats THEN 0 ELSE 1)
    <2>1. CASE UNCHANGED repeats  BY <1>8, <2>1 DEF HistoryMoves
    <2>2. CASE repeats' = [repeats EXCEPT ![p] = repeats[p] + 1]
      <3>1. repeats'[p] = repeats[p] + 1 /\ repeats' \in [Process -> Nat]
        BY <1>8, <2>2
      <3>2. repeats'[p] # repeats[p]  BY <1>8, <3>1
      <3> QED  BY <1>8, <2>2, <3>1, <3>2 DEF HistoryMoves
    <2> QED  BY <2>1, <2>2 DEF Repeats
  <1>10. FoundInv(p)'
    BY <1>4, <1>7, FoundMoves DEF PeerMoves, BusGrows
  <1>11. ThreadsKept(p)  BY DEF ThreadsKept
  <1>12. ~LogsIn(At(p)) /\ Unfinished(At(p))  BY <1>1 DEF LogsIn, Unfinished
  <1>13. NilInv(p)'  BY <1>4, <1>11, <1>12, NilMoves
  <1>14. WorkInv(p)'
    BY <1>1, <1>4, <1>9, <1>12, WorkMoves DEF HistoryMoves
  <1>15. OfferInv(p)'
    <2> SUFFICES ASSUME p \notin unoffered', NEW i \in 1..(pc'[p] - 1),
                        Script(p)[i].do = "register",
                        NEW m, m = conn[p][Script(p)[i].as].login,
                        NEW v, v = Script(p)[i].service
                 PROVE  m # None /\ (Valid(m)' => OffersOf(m, v)' # {})
      BY <1>5 DEF OfferInv
    <2>1. CASE i < pc[p]
      <3>1. i \in 1..(pc[p] - 1)  BY <1>2, <2>1
      <3>2. OfferInv(p)  BY DEF IInv, ProcessInv
      <3>3. m # None /\ (Valid(m) => OffersOf(m, v) # {})
        BY <3>1, <3>2 DEF OfferInv
      <3>4. Valid(m)' => Valid(m)  BY DEF Valid
      <3>5. OffersOf(m, v) \subseteq OffersOf(m, v)'  BY <1>4
      <3> QED  BY <3>3, <3>4, <3>5
    <2>2. CASE i = pc[p]
      BY <1>2, <1>3, <1>4, <2>2
    <2>3. i < pc[p] \/ i = pc[p]
      BY <1>2 DEF Onward
    <2> QED  BY <2>1, <2>2, <2>3
  <1>16. CountInv(p)'
    <2>1. \A t \in Thread : Due(p, t)' = Due(p, t)
      BY DEF Due
    <2> SUFFICES ASSUME NEW i \in DOMAIN Script(p), Script(p)[i].do = "register"
                 PROVE  Made(p, i) + (IF i = pc[p] THEN 1 ELSE 0)
                          + (IF Past(p, i)' THEN 0 ELSE 1)
                          + (IF relogin(p).registers = <<>> THEN 0
                             ELSE Due(p, "main") + Due(p, "other"))
                          <= 1 + repeats'[p]
      BY <1>4, <1>5, <2>1 DEF CountInv, Thread
    <2>2. Made(p, i) + (IF Past(p, i) THEN 0 ELSE 1)
            + (IF relogin(p).registers = <<>> THEN 0
               ELSE Due(p, "main") + Due(p, "other"))
            <= 1 + repeats[p]
      BY DEF CountInv, IInv, ProcessInv
    <2>3. i \in Nat  BY ScriptFacts DEF IInv
    <2>4. /\ Past(p, i) <=> i < pc[p]
          /\ Past(p, i)' <=> i < pc[p] \/ (i = pc[p] /\ Leaves(p))
      BY <1>1, <2>3, PastMoves
    <2>5. Leaves(p) \/ repeats'[p] = repeats[p] + 1
      BY <1>8 DEF Repeats
    <2>6. Made(p, i) \in Nat /\ Due(p, "main") \in Nat /\ Due(p, "other") \in Nat
      BY Numbers DEF Thread
    <2>7. repeats[p] <= repeats'[p]  BY <1>9 DEF HistoryMoves
    <2> QED  BY <1>2, <1>8, <1>9, <2>2, <2>3, <2>4, <2>5, <2>6, <2>7
  <1>17. OnlyThroughSecretary'  BY DEF IInv, OnlyThroughSecretary
  <1>18. MainTypes' /\ \A q \in Process \ {p} : MainKept(q)
    BY DEF Moves
  <1> QED
    BY <1>1, <1>4, <1>6, <1>7, <1>9, <1>10, <1>13, <1>14, <1>15, <1>16, <1>17, <1>18,
       MainOnly

LEMMA DoRegisterHolds ==
  ASSUME IInv, NEW p \in Process, DoRegister(p)
  PROVE  IInv'
  <1>1. Running(p) /\ inside[p]["main"] = Outside
    BY DEF DoRegister, Main, AtOneOf
  <1>2. Moves(p) /\ Onward(p) /\ status'[p] # "crashed" /\ Leaves(p)
    BY <1>1, Advances DEF DoRegister
  <1> QED  BY <1>2, RegisterOffers DEF DoRegister, historyVars

LEMMA RegisterFailsHolds ==
  ASSUME IInv, NEW p \in Process, NEW e, RegisterFails(p, e)
  PROVE  IInv'
  <1>1. Running(p) /\ inside[p]["main"] = Outside
    BY DEF RegisterFails, Main, AtOneOf
  <1>2. CASE UNCHANGED <<offers, repeats>>
    BY <1>1, <1>2, ThrowHolds DEF RegisterFails, NewLogins, historyVars
  <1>3. CASE Offer(Login(p), At(p).service) /\ Repeats(p, 1)
    <2>1. Moves(p) /\ pc'[p] = pc[p] /\ Onward(p) /\ status'[p] # "crashed"
      BY <1>1, Throws DEF RegisterFails
    <2> QED  BY <1>3, <2>1, RegisterOffers DEF RegisterFails
  <1> QED  BY <1>2, <1>3 DEF RegisterFails
-----------------------------------------------------------------------------
(* Steps that change a connection or what a thread does in the callback.     *)
LEMMA StaysMoves ==
  ASSUME IInv, NEW p \in Process, Running(p), UNCHANGED MainVars
  PROVE  /\ Moves(p) /\ pc'[p] = pc[p] /\ Onward(p) /\ status'[p] # "crashed"
         /\ ~Leaves(p) /\ Running(p)'
  <1>1. MainTypes  BY MainHasTypes
  <1>2. play' = play => MainTypes'
    BY <1>1, SamePlay DEF MainTypes, MainVars
  <1> QED  BY <1>2 DEF Moves, MainKept, MainVars, Onward, Leaves, Running

LEMMA ConnSteps ==
  ASSUME IInv, NEW p \in Process, BusGrows, BusTypes', Moves(p),
         \A q \in Process \ {p} :
           NoOfferOf(q) /\ ThreadsKept(q) /\ (q \in unoffered' <=> q \in unoffered),
         DOMAIN conn' = Process, conn'[p] \in [Entities(p) -> ConnRecord],
         inside' \in [Process -> [Thread -> InsideRecord]], unoffered' \subseteq Process,
         UNCHANGED <<peer, works, calls>>, HistoryMoves(p),
         \A l \in DOMAIN logins' : l \notin DOMAIN logins =>
           /\ logins'[l].process = p
           /\ servant(p).kind # "none" => logins'[l].entity \in Entities(p),
         \A e \in Entities(p) : conn'[p][e].login # None =>
           /\ conn'[p][e].login \in DOMAIN logins'
           /\ logins'[conn'[p][e].login].process = p
           /\ conn'[p][e].registry,
         ThreadInv(p)', SuspendInv(p)', NilInv(p)', OfferInv(p)', CountInv(p)', WorkInv(p)'
  PROVE  IInv'
  <1>1. Process' = Process /\ \A q : Script(q)' = Script(q) /\ Entities(q)' = Entities(q)
    BY SamePlay DEF BusGrows
  <1>2. OthersKept(p)
    BY DEF OthersKept, Kept, HistoryKept, HistoryMoves, Moves
  <1>3. RestTypes'
    <2>1. RestTypes  BY DEF IInv, ProcessTypes, RestTypes
    <2>2. \A q \in Process : conn'[q] \in [Entities(q) -> ConnRecord]
      BY <2>1 DEF RestTypes, ThreadsKept
    <2> QED  BY <1>1, <2>1, <2>2 DEF RestTypes, HistoryMoves
  <1>4. LoginInv'  BY <1>2, LoginsKept
  <1>5. FoundInv(p)'
    BY SamePeer, FoundMoves DEF PeerMoves, BusGrows
  <1>6. OnlyThroughSecretary'  BY DEF IInv, OnlyThroughSecretary
  <1>7. ProcessInv(p)'  BY <1>5 DEF ProcessInv
  <1>8. MainTypes'  BY DEF Moves, BusGrows
  <1> QED  BY <1>2, <1>3, <1>4, <1>6, <1>7, <1>8, StepKeeps

LEMMA OneConn ==
  ASSUME IInv, NEW p \in Process, NEW e \in Entities(p), NEW c \in ConnRecord,
         conn' = [conn EXCEPT ![p][e] = c]
  PROVE  /\ DOMAIN conn' = Process /\ conn'[p] \in [Entities(p) -> ConnRecord]
         /\ conn'[p][e] = c
         /\ \A f \in Entities(p) : f # e => conn'[p][f] = conn[p][f]
         /\ \A q \in Process \ {p} : conn'[q] = conn[q]
  <1>1. DOMAIN conn = Process /\ conn[p] \in [Entities(p) -> ConnRecord]
    BY DEF IInv, ProcessTypes
  <1> QED  BY <1>1

LEMMA OneThread ==
  ASSUME IInv, NEW p \in Process, NEW t \in Thread, NEW r \in InsideRecord,
         inside' = [inside EXCEPT ![p][t] = r]
  PROVE  /\ inside' \in [Process -> [Thread -> InsideRecord]] /\ inside'[p][t] = r
         /\ \A u \in Thread : u # t => inside'[p][u] = inside[p][u]
         /\ \A q \in Process \ {p} : inside'[q] = inside[q]
  <1>1. inside \in [Process -> [Thread -> InsideRecord]]
    BY DEF IInv, ProcessTypes
  <1>2. [inside[p] EXCEPT ![t] = r] \in [Thread -> InsideRecord]
    BY <1>1
  <1> QED  BY <1>1, <1>2

\* A new login has no offers, and a connection without one has none.
LEMMA MadeLess ==
  ASSUME IInv, NEW p \in Process, UNCHANGED <<play, offers>>,
         NEW i \in DOMAIN Script(p),
         NEW a, a = conn[p][Script(p)[i].as].login,
         NEW b, b = conn'[p][Script(p)[i].as].login,
         b \in {a, None} \/ b \notin DOMAIN logins
  PROVE  Made(p, i)' \in Nat /\ Made(p, i)' <= Made(p, i)
  <1>1. Script(p)' = Script(p)  BY SamePlay
  <1> SUFFICES ASSUME NEW s, s = Script(p)[i].service
               PROVE  Made(p, i)' \in Nat /\ Made(p, i)' <= Made(p, i)
    OBVIOUS
  <1>2. \A l : OffersOf(l, s)' = OffersOf(l, s)  BY DEF OffersOf
  <1>3. /\ Made(p, i) = IF a = None THEN 0 ELSE Cardinality(OffersOf(a, s))
        /\ Made(p, i)' = IF b = None THEN 0 ELSE Cardinality(OffersOf(b, s)')
    BY <1>1 DEF Made, OffersOf
  <1>4. Made(p, i) \in Nat  BY Numbers
  <1>5. ASSUME b \notin DOMAIN logins
        PROVE  Cardinality(OffersOf(b, s)) = 0
    <2>1. OffersOf(b, s) = {}  BY <1>5 DEF OffersOf, IInv, BusTypes
    <2> QED  BY <2>1, FS_EmptySet
  <1> QED  BY <1>2, <1>3, <1>4, <1>5

LEMMA CountLess ==
  ASSUME IInv, NEW p \in Process, Running(p), Onward(p), UNCHANGED <<play, offers>>,
         \A i \in DOMAIN Script(p) : Script(p)[i].do = "register" =>
           \/ conn'[p][Script(p)[i].as].login \in {conn[p][Script(p)[i].as].login, None}
           \/ conn'[p][Script(p)[i].as].login \notin DOMAIN logins,
         repeats'[p] \in Nat, repeats[p] <= repeats'[p],
         Due(p, "main")' \in Nat, Due(p, "other")' \in Nat,
         relogin(p).registers # <<>> =>
           Due(p, "main")' + Due(p, "other")' + repeats[p]
             <= Due(p, "main") + Due(p, "other") + repeats'[p]
  PROVE  CountInv(p)'
  <1>1. CountInv(p)  BY DEF IInv, ProcessInv
  <1>2. Script(p)' = Script(p) /\ relogin(p)' = relogin(p)
    BY SamePlay
  <1> SUFFICES ASSUME NEW i \in DOMAIN Script(p), Script(p)[i].do = "register"
               PROVE  Made(p, i)' + (IF Past(p, i)' THEN 0 ELSE 1)
                        + (IF relogin(p).registers = <<>> THEN 0
                           ELSE Due(p, "main")' + Due(p, "other")')
                        <= 1 + repeats'[p]
    BY <1>2 DEF CountInv
  <1>3. Made(p, i) + (IF Past(p, i) THEN 0 ELSE 1)
          + (IF relogin(p).registers = <<>> THEN 0
             ELSE Due(p, "main") + Due(p, "other"))
          <= 1 + repeats[p]
    BY <1>1 DEF CountInv
  <1>4. Made(p, i)' \in Nat /\ Made(p, i)' <= Made(p, i)
    BY MadeLess
  <1>5. Past(p, i) => Past(p, i)'
    <2>1. i \in Nat  BY ScriptFacts DEF IInv
    <2> QED  BY <2>1, PastMoves
  <1>6. /\ Made(p, i) \in Nat /\ repeats[p] \in Nat
        /\ Due(p, "main") \in Nat /\ Due(p, "other") \in Nat
    BY Numbers DEF Thread
  <1>7. (IF Past(p, i)' THEN 0 ELSE 1) <= (IF Past(p, i) THEN 0 ELSE 1)
    BY <1>5
  <1>8. CASE relogin(p).registers = <<>>
    BY <1>3, <1>4, <1>6, <1>7, <1>8
  <1>9. CASE relogin(p).registers # <<>>
    <2>1. PICK x \in Nat, y \in Nat :
            /\ x = (IF Past(p, i) THEN 0 ELSE 1) /\ y = (IF Past(p, i)' THEN 0 ELSE 1)
            /\ y <= x
      BY <1>5
    <2>2. Made(p, i) + x + (Due(p, "main") + Due(p, "other")) <= 1 + repeats[p]
      BY <1>3, <1>9, <2>1
    <2>3. ASSUME NEW m \in Nat, NEW n \in Nat, NEW c \in Nat, NEW d \in Nat,
                 NEW u \in Nat, NEW v \in Nat,
                 m + x + c <= 1 + u, n <= m, d + u <= c + v
          PROVE  n + y + d <= 1 + v
      BY <2>1, <2>3
    <2>4. /\ Due(p, "main") + Due(p, "other") \in Nat
          /\ Due(p, "main")' + Due(p, "other")' \in Nat
          /\ Due(p, "main")' + Due(p, "other")' + repeats[p]
               <= Due(p, "main") + Due(p, "other") + repeats'[p]
      BY <1>6, <1>9
    <2>5. Made(p, i)' + y + (Due(p, "main")' + Due(p, "other")') <= 1 + repeats'[p]
      <3>1. PICK m \in Nat, n \in Nat, c \in Nat, d \in Nat, u \in Nat, v \in Nat :
              /\ m = Made(p, i) /\ n = Made(p, i)' /\ u = repeats[p] /\ v = repeats'[p]
              /\ c = Due(p, "main") + Due(p, "other")
              /\ d = Due(p, "main")' + Due(p, "other")'
        BY <1>4, <1>6, <2>4
      <3>2. m + x + c <= 1 + u /\ n <= m /\ d + u <= c + v
        BY <1>4, <2>2, <2>4, <3>1
      <3>3. n + y + d <= 1 + v
        BY <2>3, <3>2
      <3> QED  BY <3>1, <3>3
    <2> QED  BY <1>9, <2>1, <2>5
  <1> QED  BY <1>8, <1>9

LEMMA OfferLost ==
  ASSUME IInv, NEW p \in Process, play' = play, pc'[p] = pc[p],
         p \in unoffered' \/ \A i \in 1..(pc[p] - 1) : Script(p)[i].do # "register"
  PROVE  OfferInv(p)'
  BY SamePlay DEF OfferInv

LEMMA NoLoginNoOffers ==
  ASSUME IInv, NEW p \in Process, HasCallback(p), conn[p][relogin(p).as].login = None
  PROVE  p \in unoffered \/ \A i \in 1..(pc[p] - 1) : Script(p)[i].do # "register"
  <1>1. \A i \in 1..(pc[p] - 1) : Script(p)[i].do = "register" =>
          Script(p)[i].as = relogin(p).as
    <2>1. \A i \in 1..(pc[p] - 1) : i \in DOMAIN Script(p)
      BY Numbers, ScriptFacts DEF IInv
    <2> QED  BY <2>1, UsedLogins, ReloginFacts DEF IInv
  <1>2. OfferInv(p)  BY DEF IInv, ProcessInv
  <1> QED  BY <1>1, <1>2 DEF OfferInv

\* A login of main: nobody is in the callback, and nothing is offered yet.
LEMMA LogsInHolds ==
  ASSUME IInv, NEW p \in Process, Running(p), inside[p]["main"] = Outside,
         LogsIn(At(p)), NEW n \in Entity, Issue(p, n),
         servant(p).kind # "none" => n \in Entities(p),
         conn' = [conn EXCEPT ![p][At(p).as] = LoggedIn(Issued)], Advance(p),
         UNCHANGED <<play, peer, inside, offers, faults, historyVars>>, BusTypes'
  PROVE  IInv'
  <1> USE DEF historyVars
  <1>1. /\ BusGrows /\ \A q : NoOfferOf(q)
        /\ Issued \in Nat /\ Issued # None /\ Issued \notin DOMAIN logins
        /\ DOMAIN logins' = DOMAIN logins \cup {Issued}
        /\ logins'[Issued] = [process |-> p, entity |-> n, valid |-> TRUE]
        /\ \A l \in DOMAIN logins : logins'[l] = logins[l]
    BY IssueGrows
  <1>2. Moves(p) /\ Onward(p) /\ status'[p] # "crashed" /\ Leaves(p)
    BY Advances
  <1>3. /\ At(p).as \in Entities(p) /\ pc[p] \in DOMAIN Script(p)
        /\ At(p) = Script(p)[pc[p]] /\ At(p).do \notin {"use", "serve"}
    BY AtFacts DEF LogsIn
  <1>4. LoggedIn(Issued) \in ConnRecord /\ LoggedIn(Issued).login = Issued
        /\ LoggedIn(Issued).registry
    BY <1>1 DEF LoggedIn, ConnRecord
  <1>5. /\ DOMAIN conn' = Process /\ conn'[p] \in [Entities(p) -> ConnRecord]
        /\ conn'[p][At(p).as] = LoggedIn(Issued)
        /\ \A f \in Entities(p) : f # At(p).as => conn'[p][f] = conn[p][f]
        /\ \A q \in Process \ {p} : conn'[q] = conn[q]
    BY <1>3, <1>4, OneConn
  <1>6. pc[p] \in Nat /\ faults \in Nat /\ ThreadInv(p)
    BY Numbers DEF IInv, ProcessInv, BusTypes
  <1>7. HasCallback(p) => pc[p] = 1 /\ At(p).as = relogin(p).as
    BY <1>3, ReloginFacts DEF IInv
  <1>8. \A t \in Thread : inside[p][t] = Outside
    BY <1>6, <1>7 DEF ThreadInv
  <1>9. /\ relogin(p)' = relogin(p) /\ Script(p)' = Script(p)
        /\ HasCallback(p)' <=> HasCallback(p)
    BY SamePlay
  <1>10. pc'[p] # 1 \/ ~Running(p)' \/ ~HasCallback(p)
    BY <1>2, <1>6, <1>7 DEF Leaves, Onward, Running
  <1>11. ThreadInv(p)'
    <2>1. \A t \in Thread : inside'[p][t] = Outside  BY <1>8
    <2> QED  BY <1>9, <1>10, <2>1 DEF ThreadInv, ReloginSteps, Thread, Outside
  <1>12. SuspendInv(p)'
    <2>1. \A t \in Thread : inside'[p][t] = Outside  BY <1>8
    <2> QED  BY <1>6, <2>1 DEF SuspendInv, Outside
  <1>13. NilInv(p)'
    <2>1. relogin(p).again # {} => conn'[p][relogin(p).as].registry
      BY <1>4, <1>5, <1>7, ReloginFacts DEF IInv
    <2> QED  BY <1>2, <1>9, <2>1 DEF NilInv
  <1>14. OfferInv(p)'
    <2>1. \A i \in 1..(pc'[p] - 1) : i \in DOMAIN Script(p) /\ ~(pc[p] < i)
      BY <1>2, <1>3, <1>6, ScriptFacts DEF Onward, IInv
    <2>2. \A i \in 1..(pc'[p] - 1) : Script(p)[i].do # "register"
      BY <1>3, <2>1, ScriptFacts DEF IInv
    <2> QED  BY <1>9, <2>2 DEF OfferInv
  <1>15. CountInv(p)'
    <2>1. \A i \in DOMAIN Script(p) : Script(p)[i].do = "register" =>
            \/ conn'[p][Script(p)[i].as].login \in {conn[p][Script(p)[i].as].login, None}
            \/ conn'[p][Script(p)[i].as].login \notin DOMAIN logins
      BY <1>1, <1>4, <1>5, UsedLogins
    <2>2. Due(p, "main")' = Due(p, "main") /\ Due(p, "other")' = Due(p, "other")
      BY DEF Due
    <2> QED  BY <1>2, <2>1, <2>2, Numbers, CountLess DEF Thread
  <1>16. WorkInv(p)'
    BY <1>1, <1>2, <1>3, Numbers, WorkMoves DEF Unfinished
  <1>17. HistoryMoves(p)  BY SameHistory
  <1>18. /\ inside' \in [Process -> [Thread -> InsideRecord]]
         /\ unoffered' \subseteq Process
    BY DEF IInv, ProcessTypes
  <1>19. \A e \in Entities(p) : conn'[p][e].login # None =>
           /\ conn'[p][e].login \in DOMAIN logins'
           /\ logins'[conn'[p][e].login].process = p
           /\ conn'[p][e].registry
    BY <1>1, <1>4, <1>5 DEF IInv, LoginInv
  <1>20. \A l \in DOMAIN logins' : l \notin DOMAIN logins =>
           /\ logins'[l].process = p
           /\ servant(p).kind # "none" => logins'[l].entity \in Entities(p)
    BY <1>1
  <1> QED
    BY <1>1, <1>2, <1>5, <1>11, <1>12, <1>13, <1>14, <1>15, <1>16, <1>17, <1>18, <1>19,
       <1>20, ConnSteps DEF ThreadsKept

LEMMA DoLoginHolds ==
  ASSUME IInv, NEW p \in Process, DoLogin(p)
  PROVE  IInv'
  <1>1. Running(p) /\ inside[p]["main"] = Outside /\ At(p).do = "login"
    BY DEF DoLogin, Main, AtOneOf
  <1>2. At(p).as \in Entity /\ At(p).as \in Entities(p)
    BY <1>1, AtFacts
  <1>3. BusGrows /\ DOMAIN logins' = DOMAIN logins \cup {Issued}
    BY <1>2, IssueGrows DEF DoLogin
  <1>4. BusTypes'
    BY <1>3, BusHasTypes DEF DoLogin, IInv, BusTypes
  <1> QED  BY <1>1, <1>2, <1>4, LogsInHolds DEF DoLogin, LogsIn

LEMMA loginBySharedAuthHolds ==
  ASSUME IInv, NEW p \in Process, loginBySharedAuth(p)
  PROVE  IInv'
  <1>1. Running(p) /\ inside[p]["main"] = Outside /\ At(p).do = "login_shared"
    BY DEF loginBySharedAuth, Main, AtOneOf
  <1>2. servant(p).kind = "none"
    BY <1>1, AtFacts, ServantFacts DEF IInv
  <1>3. CASE Usable
    <2> SUFFICES ASSUME NEW n, n = secrets[Attempt(ReadSecret)].entity
                 PROVE  IInv'
      OBVIOUS
    <2>1. Spend /\ Issue(p, n)
      BY <1>3 DEF loginBySharedAuth
    <2>2. n \in Entity /\ secrets' \in Seq(SecretRecord) /\ DOMAIN secrets' = DOMAIN secrets
      BY <1>3, <2>1, SpendsSecret
    <2>3. BusGrows /\ DOMAIN logins' = DOMAIN logins \cup {Issued}
      BY <2>1, <2>2, IssueGrows DEF loginBySharedAuth
    <2>4. BusTypes'
      <3>1. \/ file' = NoStream
            \/ \E id \in DOMAIN secrets', legacy \in BOOLEAN :
                 file' = encodeSharedAuthSecret(SecretOf(id, legacy))
        BY <2>2 DEF IInv, BusTypes, loginBySharedAuth
      <3> QED  BY <2>2, <2>3, <3>1, BusHasSecrets DEF loginBySharedAuth
    <2> QED
      BY <1>1, <1>2, <1>3, <2>1, <2>2, <2>4, LogsInHolds DEF loginBySharedAuth, LogsIn
  <1>4. CASE ~Usable
    BY <1>1, <1>4, ThrowHolds DEF loginBySharedAuth, NewLogins
  <1> QED  BY <1>3, <1>4
-----------------------------------------------------------------------------
(* Steps that make no offers, and forget logins at most.                     *)
LEMMA QuietSteps ==
  ASSUME IInv, NEW p \in Process, Running(p), Moves(p), Onward(p),
         UNCHANGED <<play, peer, offers, secrets, file, works, calls>>, NewLogins(p),
         faults' = faults \/ Fault, pc'[p] = pc[p], Leaves(p) => Unfinished(At(p)),
         \A q \in Process \ {p} :
           ThreadsKept(q) /\ (q \in unoffered' <=> q \in unoffered),
         DOMAIN conn' = Process, conn'[p] \in [Entities(p) -> ConnRecord],
         inside' \in [Process -> [Thread -> InsideRecord]], unoffered' \subseteq Process,
         HistoryMoves(p),
         \A e \in Entities(p) : conn'[p][e].login # None =>
           /\ conn'[p][e].login = conn[p][e].login
           /\ conn[p][e].registry => conn'[p][e].registry,
         relogin(p).registers # <<>> =>
           Due(p, "main")' + Due(p, "other")' + repeats[p]
             <= Due(p, "main") + Due(p, "other") + repeats'[p],
         ThreadInv(p)', SuspendInv(p)', NilInv(p)', OfferInv(p)'
  PROVE  IInv'
  <1>1. /\ BusGrows /\ \A q : NoOfferOf(q)
        /\ DOMAIN logins \subseteq DOMAIN logins'
        /\ \A l \in DOMAIN logins' : l \notin DOMAIN logins =>
             /\ logins'[l].process = p
             /\ servant(p).kind # "none" => logins'[l].entity \in Entities(p)
    BY LoginsGrow
  <1>2. BusTypes'
    BY <1>1, BusHasTypes DEF IInv, BusTypes
  <1>3. repeats'[p] \in Nat /\ repeats[p] <= repeats'[p]
    BY DEF HistoryMoves
  <1>4. WorkInv(p)'  BY <1>1, <1>3, WorkMoves
  <1>5. Due(p, "main")' \in Nat /\ Due(p, "other")' \in Nat
    BY DEF Due, Thread, InsideRecord
  <1>6. \A i \in DOMAIN Script(p) : Script(p)[i].do = "register" =>
          conn'[p][Script(p)[i].as].login \in {conn[p][Script(p)[i].as].login, None}
    BY UsedLogins
  <1>7. CountInv(p)'  BY <1>3, <1>5, <1>6, CountLess
  <1>8. \A e \in Entities(p) : conn'[p][e].login # None =>
          /\ conn'[p][e].login \in DOMAIN logins'
          /\ logins'[conn'[p][e].login].process = p
          /\ conn'[p][e].registry
    BY <1>1 DEF IInv, LoginInv, BusGrows
  <1> QED  BY <1>1, <1>2, <1>4, <1>7, <1>8, ConnSteps

\* A local logout.
LEMMA LoggedOut ==
  ASSUME IInv, NEW p \in Process, NEW e \in Entities(p), Logout(p, e), Forget(p),
         UNCHANGED <<play, logins>>
  PROVE  /\ DOMAIN conn' = Process /\ conn'[p] \in [Entities(p) -> ConnRecord]
         /\ conn'[p][e] = NoConn
         /\ \A f \in Entities(p) : conn'[p][f].login # None => conn'[p][f] = conn[p][f]
         /\ \A q \in Process \ {p} :
              conn'[q] = conn[q] /\ (q \in unoffered' <=> q \in unoffered)
         /\ unoffered' \subseteq Process
         /\ pc'[p] = pc[p] => OfferInv(p)'
  <1>1. NoConn \in ConnRecord
    BY DEF ConnRecord, NoConn, None
  <1>2. /\ DOMAIN conn' = Process /\ conn'[p] \in [Entities(p) -> ConnRecord]
        /\ conn'[p][e] = NoConn
        /\ \A f \in Entities(p) : f # e => conn'[p][f] = conn[p][f]
        /\ \A q \in Process \ {p} : conn'[q] = conn[q]
    BY <1>1, OneConn DEF Logout
  <1>3. unoffered' \subseteq Process
        /\ \A q \in Process \ {p} : q \in unoffered' <=> q \in unoffered
    BY DEF Forget, IInv, ProcessTypes
  <1>4. p \in unoffered' \/ \A i \in 1..(pc[p] - 1) : Script(p)[i].do # "register"
    BY DEF Forget
  <1>5. NoConn.login = None  BY DEF NoConn
  <1> QED  BY <1>2, <1>3, <1>4, <1>5, OfferLost

\* A login that is not valid was already lost for the callback.
LEMMA LostStays ==
  ASSUME IInv, NEW p \in Process, NEW e \in Entities(p), HasCallback(p),
         conn[p][e].login # None, ~Valid(conn[p][e].login)
  PROVE  e = relogin(p).as /\ Lost(conn[p][relogin(p).as])
  <1>1. e = relogin(p).as  BY ReloginFacts DEF IInv
  <1> QED  BY <1>1 DEF Lost, Valid

\* A thread drops a login.
LEMMA Drops ==
  ASSUME IInv, NEW p \in Process, NEW t \in Thread, NEW n \in Nat, Dropping(p, t, n)
  PROVE  /\ inside' \in [Process -> [Thread -> InsideRecord]]
         /\ inside'[p][t] = [step |-> "dropped", suspended |-> n]
         /\ \A u \in Thread : u # t => inside'[p][u] = inside[p][u]
         /\ \A q \in Process \ {p} : inside'[q] = inside[q]
         /\ Due(p, t)' = n
         /\ \A u \in Thread : u # t => Due(p, u)' = Due(p, u)
  <1>1. [step |-> "dropped", suspended |-> n] \in InsideRecord
    BY DEF InsideRecord, Steps
  <1>2. /\ inside' \in [Process -> [Thread -> InsideRecord]]
        /\ inside'[p][t] = [step |-> "dropped", suspended |-> n]
        /\ \A u \in Thread : u # t => inside'[p][u] = inside[p][u]
        /\ \A q \in Process \ {p} : inside'[q] = inside[q]
    BY <1>1, OneThread DEF Dropping
  <1>3. Due(p, t)' = n
    BY <1>2 DEF Due
  <1>4. \A u \in Thread : u # t => Due(p, u)' = Due(p, u)
    BY <1>2 DEF Due
  <1> QED  BY <1>2, <1>3, <1>4

\* A thread enters the callback.
LEMMA Enters ==
  ASSUME IInv, NEW p \in Process, NEW t \in Thread, inside[p][t].suspended = 0,
         inside[p][t].step \in {"outside", "recorded"}, Enter(p, t, 0)
  PROVE  /\ inside' \in [Process -> [Thread -> InsideRecord]]
         /\ inside'[p][t] = [step |-> "login", suspended |-> 0]
         /\ \A u \in Thread : u # t => inside'[p][u] = inside[p][u]
         /\ \A q \in Process \ {p} : inside'[q] = inside[q]
         /\ repeats' \in [Process -> Nat] /\ repeats[p] <= repeats'[p]
         /\ \A q \in Process \ {p} : repeats'[q] = repeats[q]
         /\ Due(p, t) = 0 /\ Due(p, t)' = 1
         /\ \A u \in Thread : u # t => Due(p, u)' = Due(p, u)
         /\ At(p).do = "register" => repeats'[p] = repeats[p] + Len(relogin(p).registers)
  <1>1. [step |-> "login", suspended |-> 0] \in InsideRecord
    BY DEF InsideRecord, Steps
  <1>2. /\ inside' \in [Process -> [Thread -> InsideRecord]]
        /\ inside'[p][t] = [step |-> "login", suspended |-> 0]
        /\ \A u \in Thread : u # t => inside'[p][u] = inside[p][u]
        /\ \A q \in Process \ {p} : inside'[q] = inside[q]
    BY ZenonT(40), <1>1, OneThread DEF Enter
  <1>3. Len(relogin(p).registers) \in Nat
    BY ReloginFacts DEF IInv
  <1>4. repeats \in [Process -> Nat] /\ repeats[p] \in Nat
    BY DEF IInv, ProcessTypes
  <1>5. \/ At(p).do = "register"
           /\ repeats' = [repeats EXCEPT ![p] = repeats[p] + Len(relogin(p).registers)]
        \/ At(p).do # "register" /\ repeats' = repeats
    BY DEF Enter, Repeats
  <1>6. /\ repeats' \in [Process -> Nat] /\ repeats[p] <= repeats'[p]
        /\ \A q \in Process \ {p} : repeats'[q] = repeats[q]
        /\ At(p).do = "register" => repeats'[p] = repeats[p] + Len(relogin(p).registers)
    BY <1>3, <1>4, <1>5
  <1>7. Due(p, t) = 0 /\ Due(p, t)' = 1
    BY <1>2 DEF Due
  <1>8. \A u \in Thread : u # t => Due(p, u)' = Due(p, u)
    BY <1>2 DEF Due
  <1> QED  BY <1>2, <1>6, <1>7, <1>8

\* A callback that makes offers is of a program of three statements.
LEMMA ThreeStatements ==
  ASSUME IInv, NEW p \in Process, relogin(p).registers # <<>>
  PROVE  /\ HasCallback(p) /\ Len(relogin(p).registers) = 1
         /\ DOMAIN Script(p) = 1..3 /\ pc[p] \in 1..3
         /\ \A i \in DOMAIN Script(p) : Script(p)[i].do = "register" <=> i = 2
         /\ Script(p)[2].as = relogin(p).as
         /\ Script(p)[2].service = Head(relogin(p).registers)
         /\ LogsIn(Script(p)[1]) /\ Script(p)[3].do = "serve"
         /\ relogin(p).again = {}
  <1>1. /\ HasCallback(p) /\ Len(relogin(p).registers) = 1
        /\ Len(Script(p)) = 3 /\ Script(p)[2].do = "register"
        /\ Script(p)[2].service = Head(relogin(p).registers)
        /\ Script(p)[3].do = "serve"
        /\ Entities(p) = {relogin(p).as}
        /\ \A i \in DOMAIN Script(p) : LogsIn(Script(p)[i]) <=> i = 1
        /\ relogin(p).again = {}
    BY ReloginFacts DEF IInv
  <1>2. DOMAIN Script(p) = 1..3 /\ pc[p] \in 1..3
    BY <1>1, ScriptFacts, Numbers DEF IInv
  <1>3. LogsIn(Script(p)[1])  BY <1>1, <1>2
  <1>4. \A i \in DOMAIN Script(p) : Script(p)[i].do = "register" <=> i = 2
    BY <1>1, <1>2, <1>3 DEF LogsIn
  <1>5. Script(p)[2].as = relogin(p).as
    BY <1>1, <1>2, UsedLogins
  <1> QED  BY <1>1, <1>2, <1>3, <1>4, <1>5

LEMMA RefusedHolds ==
  ASSUME IInv, NEW p \in Process, Refused(p)
  PROVE  IInv'
  <1>1. /\ Running(p) /\ inside[p]["main"] = Outside
        /\ At(p).do \in {"register", "use", "share"} /\ ~Valid(Login(p))
    BY DEF Refused, Ready, Requests, AtOneOf
  <1>2. /\ At(p).as \in Entities(p) /\ Login(p) = conn[p][At(p).as].login
        /\ pc[p] \in DOMAIN Script(p) /\ At(p) = Script(p)[pc[p]]
    BY <1>1, AtFacts DEF Login
  <1> SUFFICES ASSUME NEW e \in Entities(p), e = At(p).as
               PROVE  IInv'
    BY <1>2
  <1>3. HasCallback(p) => pc[p] # 1
    BY <1>1, <1>2, ReloginFacts DEF LogsIn, IInv
  <1>4. ThreadInv(p) /\ SuspendInv(p) /\ NilInv(p)
    BY DEF IInv, ProcessInv
  <1>5. /\ DOMAIN conn' = Process /\ conn'[p] \in [Entities(p) -> ConnRecord]
        /\ \A f \in Entities(p) : conn'[p][f].login # None => conn'[p][f] = conn[p][f]
        /\ \A q \in Process \ {p} :
             conn'[q] = conn[q] /\ (q \in unoffered' <=> q \in unoffered)
        /\ unoffered' \subseteq Process
        /\ pc'[p] = pc[p] => OfferInv(p)'
        /\ \/ UNCHANGED conn
           \/ Login(p) # None /\ Logout(p, e)
    <2>1. CASE Logout(p, e) /\ Forget(p) /\ Login(p) # None
      BY <2>1, LoggedOut DEF Refused, busVars
    <2>2. CASE UNCHANGED <<conn, unoffered>>
      <3>1. BusGrows  BY BusStays DEF Refused, busVars
      <3>2. pc'[p] = pc[p] => OfferInv(p)'  BY <2>2, <3>1, OfferKept
      <3> QED  BY <2>2, <3>2 DEF IInv, ProcessTypes
    <2> QED  BY <2>1, <2>2 DEF Refused
  <1>6. /\ relogin(p)' = relogin(p) /\ (HasCallback(p)' <=> HasCallback(p))
        /\ Script(p)' = Script(p)
    BY SamePlay DEF Refused
  <1>7. faults' = faults /\ logins' = logins
    BY DEF Refused, busVars
  <1>8. Lost(conn[p][relogin(p).as])' /\ HasCallback(p) => Lost(conn[p][relogin(p).as])
    <2>1. CASE UNCHANGED conn  BY <1>6, <1>7, <2>1 DEF Lost
    <2>2. CASE Login(p) # None  BY <1>1, <1>2, <2>2, LostStays
    <2> QED  BY <1>5, <2>1, <2>2
  <1>9. "main" \in Thread /\ "other" \in Thread  BY DEF Thread
  <1>10. ASSUME HasCallback(p), NEW step \in {"dropped", "login"},
                reference' = [reference EXCEPT ![p] = TRUE],
                UNCHANGED <<pc, status, found, facet>>,
                inside' \in [Process -> [Thread -> InsideRecord]],
                inside'[p]["main"] = [step |-> step, suspended |-> 0],
                inside'[p]["other"] = inside[p]["other"],
                \A q \in Process \ {p} : inside'[q] = inside[q],
                HistoryMoves(p),
                relogin(p).registers # <<>> =>
                  Due(p, "main")' + Due(p, "other")' + repeats[p]
                    <= Due(p, "main") + Due(p, "other") + repeats'[p]
         PROVE  IInv'
    <2>1. Moves(p) /\ pc'[p] = pc[p] /\ Onward(p) /\ status'[p] # "crashed" /\ ~Leaves(p)
      <3>1. MainTypes  BY MainHasTypes
      <3>2. play' = play => MainTypes'
        BY <1>10, <3>1, SamePlay DEF MainTypes
      <3> QED  BY <1>1, <1>10, <3>2 DEF Moves, MainKept, Onward, Leaves, Running
    <2>2. At(p)' = At(p)  BY <1>6, <1>10 DEF At
    <2>3. ThreadInv(p)'
      <3>1. pc'[p] # 1  BY <1>3, <1>10
      <3>2. relogin(p).registers = <<>> =>
              \A t \in Thread : inside'[p][t].step \in ReloginSteps
                                /\ inside'[p][t].suspended = 0
        BY <1>4, <1>10 DEF ThreadInv, Thread, ReloginSteps
      <3> QED  BY <1>1, <1>6, <1>10, <2>2, <3>1, <3>2 DEF ThreadInv
    <2>4. SuspendInv(p)'
      <3>1. Running(p)' => Running(p)  BY <1>1
      <3>2. faults \in Nat  BY DEF IInv, BusTypes
      <3> QED
        BY <1>4, <1>6, <1>7, <1>8, <1>10, <3>1, <3>2 DEF SuspendInv, Thread
    <2>5. NilInv(p)'
      BY <1>9, <1>10, <2>1 DEF NilInv, Relogs
    <2> QED
      BY <1>1, <1>5, <1>10, <2>1, <2>3, <2>4, <2>5, QuietSteps
         DEF Refused, ThreadsKept, busVars, NewLogins
  <1>11. CASE /\ HasCallback(p) /\ Dropping(p, "main", 0) /\ UNCHANGED repeats
              /\ reference' = [reference EXCEPT ![p] = TRUE]
              /\ UNCHANGED <<pc, status, found, facet>>
    <2>1. /\ inside' \in [Process -> [Thread -> InsideRecord]]
          /\ inside'[p]["main"] = [step |-> "dropped", suspended |-> 0]
          /\ inside'[p]["other"] = inside[p]["other"]
          /\ \A q \in Process \ {p} : inside'[q] = inside[q]
          /\ Due(p, "main")' = 0 /\ Due(p, "other")' = Due(p, "other")
      BY <1>9, <1>11, Drops
    <2>2. HistoryMoves(p)  BY <1>11, SameHistory DEF Refused
    <2>3. /\ Due(p, "main") \in Nat /\ Due(p, "other") \in Nat /\ repeats[p] \in Nat
          /\ repeats'[p] = repeats[p]
      BY <1>9, <1>11, Numbers
    <2>4. Due(p, "main")' + Due(p, "other")' + repeats[p]
            <= Due(p, "main") + Due(p, "other") + repeats'[p]
      BY <2>1, <2>3
    <2> QED  BY <1>10, <1>11, <2>1, <2>2, <2>4
  <1>12. CASE /\ HasCallback(p) /\ Enter(p, "main", 0)
              /\ reference' = [reference EXCEPT ![p] = TRUE]
              /\ UNCHANGED <<pc, status, found, facet>>
    <2>1. /\ inside' \in [Process -> [Thread -> InsideRecord]]
          /\ inside'[p]["main"] = [step |-> "login", suspended |-> 0]
          /\ inside'[p]["other"] = inside[p]["other"]
          /\ \A q \in Process \ {p} : inside'[q] = inside[q]
          /\ repeats' \in [Process -> Nat] /\ repeats[p] <= repeats'[p]
          /\ \A q \in Process \ {p} : repeats'[q] = repeats[q]
          /\ Due(p, "main") = 0 /\ Due(p, "main")' = 1
          /\ Due(p, "other")' = Due(p, "other")
          /\ At(p).do = "register" => repeats'[p] = repeats[p] + Len(relogin(p).registers)
      BY <1>1, <1>9, <1>12, Enters DEF Outside
    <2>2. HistoryMoves(p)
      BY <2>1 DEF HistoryMoves, Refused, IInv, ProcessTypes
    <2>3. relogin(p).registers # <<>> =>
            Due(p, "main")' + Due(p, "other")' + repeats[p]
              <= Due(p, "main") + Due(p, "other") + repeats'[p]
      <3>1. relogin(p).registers # <<>> => repeats'[p] = repeats[p] + 1
        <4>1. relogin(p).registers # <<>> => At(p).do = "register"
          BY <1>1, <1>2, <1>3, ThreeStatements
        <4> QED  BY <2>1, <4>1, ThreeStatements
      <3>2. repeats[p] \in Nat /\ Due(p, "other") \in Nat  BY <1>9, Numbers
      <3> QED  BY <2>1, <3>1, <3>2
    <2> QED  BY <1>10, <1>12, <2>1, <2>2, <2>3
  <1>13. CASE /\ ~(HasCallback(p) /\ (Login(p) # None \/ conn[p][e].pending))
              /\ Throw(p, "NO_PERMISSION") /\ UNCHANGED <<inside, repeats>>
    <2>1. /\ Moves(p) /\ pc'[p] = pc[p] /\ Onward(p) /\ status'[p] # "crashed"
          /\ Leaves(p) => Unfinished(At(p))
      BY <1>1, <1>13, Throws
    <2>2. At(p)' = At(p)  BY <1>6, <2>1 DEF At
    <2>3. HistoryMoves(p)  BY <1>13, SameHistory DEF Refused
    <2>4. HasCallback(p) => UNCHANGED conn
      BY <1>5, <1>13
    <2>5. ThreadInv(p)'
      BY <1>1, <1>3, <1>4, <1>6, <1>13, <2>1, <2>2, <2>4 DEF ThreadInv
    <2>6. SuspendInv(p)'
      <3>1. Running(p)' => Running(p)  BY <1>1
      <3>2. CASE HasCallback(p)
        BY <1>4, <1>6, <1>7, <1>8, <1>13, <3>1, <3>2 DEF SuspendInv
      <3>3. CASE ~HasCallback(p)
        <4>1. \A t \in Thread : inside'[p][t] = Outside
          BY <1>4, <1>13, <3>3 DEF ThreadInv
        <4>2. faults' \in Nat  BY <1>7 DEF IInv, BusTypes
        <4> QED  BY <4>1, <4>2 DEF SuspendInv, Outside
      <3> QED  BY <3>2, <3>3
    <2>7. NilInv(p)'
      <3>1. relogin(p).again # {} => HasCallback(p)
        BY ReloginFacts DEF IInv
      <3> QED  BY <1>4, <1>6, <1>13, <2>1, <2>2, <2>4, <3>1 DEF NilInv, Relogs
    <2>8. Due(p, "main")' = Due(p, "main") /\ Due(p, "other")' = Due(p, "other")
      BY <1>13 DEF Due
    <2>9. Due(p, "main")' + Due(p, "other")' + repeats[p]
            <= Due(p, "main") + Due(p, "other") + repeats'[p]
      BY <1>13, <2>8, Numbers DEF Thread
    <2>10. inside' \in [Process -> [Thread -> InsideRecord]]
      BY <1>13 DEF IInv, ProcessTypes
    <2> QED
      BY <1>1, <1>5, <1>13, <2>1, <2>3, <2>5, <2>6, <2>7, <2>9, <2>10, QuietSteps
         DEF Refused, ThreadsKept, busVars, NewLogins
  <1> QED  BY <1>11, <1>12, <1>13 DEF Refused

LEMMA OtherFindsHolds ==
  ASSUME IInv, NEW p \in Process, NEW e \in DOMAIN conn[p], OtherFinds(p, e)
  PROVE  IInv'
  <1>1. /\ Running(p) /\ inside[p]["other"] = Outside
        /\ conn[p][e].login # None /\ ~Valid(conn[p][e].login)
        /\ Logout(p, e) /\ Forget(p) /\ e \in Entities(p)
        /\ UNCHANGED <<play, mainVars, logins, offers, secrets, file, faults, works, calls,
                       repeats>>
    BY DEF OtherFinds, IInv, ProcessTypes, busVars
  <1>2. /\ Moves(p) /\ pc'[p] = pc[p] /\ Onward(p) /\ status'[p] # "crashed" /\ ~Leaves(p)
    BY <1>1, StaysMoves DEF mainVars, MainVars
  <1>3. /\ DOMAIN conn' = Process /\ conn'[p] \in [Entities(p) -> ConnRecord]
        /\ \A f \in Entities(p) : conn'[p][f].login # None => conn'[p][f] = conn[p][f]
        /\ \A q \in Process \ {p} :
             conn'[q] = conn[q] /\ (q \in unoffered' <=> q \in unoffered)
        /\ unoffered' \subseteq Process
        /\ OfferInv(p)'
    BY <1>1, <1>2, LoggedOut
  <1>4. /\ relogin(p)' = relogin(p) /\ (HasCallback(p)' <=> HasCallback(p))
        /\ Script(p)' = Script(p) /\ At(p)' = At(p)
    BY <1>1, SamePlay DEF At, mainVars
  <1>5. ThreadInv(p) /\ SuspendInv(p) /\ NilInv(p)
    BY DEF IInv, ProcessInv
  <1>6. HasCallback(p) => pc[p] # 1 /\ Lost(conn[p][relogin(p).as])
    BY <1>1, <1>5, LostStays DEF ThreadInv
  <1>7. faults' = faults /\ faults \in Nat  BY <1>1 DEF IInv, BusTypes
  <1>8. CASE ~HasCallback(p) /\ UNCHANGED inside
    <2>1. HistoryMoves(p)  BY <1>1, <1>8, SameHistory
    <2>2. \A t \in Thread : inside'[p][t] = Outside
      BY <1>5, <1>8 DEF ThreadInv
    <2>3. ThreadInv(p)'
      BY <1>4, <1>8, <2>2 DEF ThreadInv, Outside, Thread, ReloginSteps
    <2>4. SuspendInv(p)'  BY <1>7, <2>2 DEF SuspendInv, Outside
    <2>5. relogin(p).again = {} /\ relogin(p).registers = <<>>
      BY <1>8, ReloginFacts DEF IInv
    <2>6. NilInv(p)'  BY <1>4, <2>5 DEF NilInv
    <2>7. inside' \in [Process -> [Thread -> InsideRecord]]
      BY <1>8 DEF IInv, ProcessTypes
    <2> QED
      BY <1>1, <1>2, <1>3, <1>8, <2>1, <2>3, <2>4, <2>5, <2>6, <2>7, QuietSteps
         DEF ThreadsKept, mainVars, NewLogins
  <1>9. CASE HasCallback(p) /\ Dropping(p, "other", 0)
    <2>1. "main" \in Thread /\ "other" \in Thread  BY DEF Thread
    <2>2. /\ inside' \in [Process -> [Thread -> InsideRecord]]
          /\ inside'[p]["other"] = [step |-> "dropped", suspended |-> 0]
          /\ inside'[p]["main"] = inside[p]["main"]
          /\ \A q \in Process \ {p} : inside'[q] = inside[q]
          /\ Due(p, "other")' = 0 /\ Due(p, "main")' = Due(p, "main")
      BY <1>9, <2>1, Drops
    <2>3. HistoryMoves(p)  BY <1>1, SameHistory
    <2>4. ThreadInv(p)'
      <3>1. relogin(p).registers = <<>> =>
              \A t \in Thread : inside'[p][t].step \in ReloginSteps
                                /\ inside'[p][t].suspended = 0
        BY <1>5, <2>2 DEF ThreadInv, Thread, ReloginSteps
      <3> QED  BY <1>2, <1>4, <1>5, <1>6, <1>9, <2>2, <3>1 DEF ThreadInv
    <2>5. SuspendInv(p)'
      BY <1>1, <1>4, <1>5, <1>6, <1>7, <1>9, <2>2 DEF SuspendInv, Thread
    <2>6. NilInv(p)'
      BY <1>2, <2>1, <2>2 DEF NilInv, Relogs
    <2>7. Due(p, "main")' + Due(p, "other")' + repeats[p]
            <= Due(p, "main") + Due(p, "other") + repeats'[p]
      <3>1. /\ Due(p, "main") \in Nat /\ Due(p, "other") \in Nat /\ repeats[p] \in Nat
            /\ repeats'[p] = repeats[p]
        BY <1>1, <2>1, Numbers
      <3> QED  BY <2>2, <3>1
    <2> QED
      BY <1>1, <1>2, <1>3, <1>9, <2>2, <2>3, <2>4, <2>5, <2>6, <2>7, QuietSteps
         DEF ThreadsKept, mainVars, NewLogins
  <1> QED  BY <1>8, <1>9 DEF OtherFinds

-----------------------------------------------------------------------------
(* Steps in the callback.                                                    *)
LEMMA CallbackFacts ==
  ASSUME IInv, NEW p \in Process, NEW t \in Thread, Running(p),
         inside[p][t].step # "outside"
  PROVE  /\ HasCallback(p) /\ pc[p] # 1 /\ inside[p][t] # Outside
         /\ relogin(p).as \in Entities(p) /\ relogin(p).as \in Entity
         /\ Entities(p) = {relogin(p).as}
         /\ inside[p][t].step \in {"register", "resend"} =>
              relogin(p).registers # <<>> /\ relogin(p).again = {}
  <1>1. ThreadInv(p) /\ inside[p][t] # Outside
    BY DEF IInv, ProcessInv, Outside
  <1>2. HasCallback(p) /\ pc[p] # 1
    BY <1>1 DEF ThreadInv
  <1>3. Entities(p) = {relogin(p).as}
    BY <1>2, ReloginFacts DEF IInv
  <1>4. relogin(p).as \in Entity
    <2>1. 1 \in DOMAIN Script(p)  BY ScriptFacts DEF IInv
    <2>2. LogsIn(Script(p)[1])  BY <1>2, <2>1, ReloginFacts DEF IInv
    <2>3. Script(p)[1].as \in Entities(p) /\ Script(p)[1].as \in Entity
      BY <2>1, <2>2, ScriptFacts DEF IInv, GoodStatement, LogsIn
    <2> QED  BY <1>3, <2>3
  <1>5. inside[p][t].step \in {"register", "resend"} => relogin(p).registers # <<>>
    BY <1>1 DEF ThreadInv, ReloginSteps
  <1> QED  BY <1>1, <1>2, <1>3, <1>4, <1>5, ThreeStatements

\* The login that was dropped is recorded.
LEMMA RecordsHolds ==
  ASSUME IInv, NEW p \in Process, NEW t \in Thread, Records(p, t)
  PROVE  IInv'
  <1>1. /\ Running(p) /\ inside[p][t].step = "dropped"
        /\ UNCHANGED <<play, mainVars, logins, offers, secrets, file, faults, works, calls,
                       repeats, unoffered>>
    BY DEF Records, InCallback, busVars, historyVars
  <1>2. /\ Moves(p) /\ pc'[p] = pc[p] /\ Onward(p) /\ status'[p] # "crashed" /\ ~Leaves(p)
    BY <1>1, StaysMoves DEF mainVars, MainVars
  <1>3. /\ HasCallback(p) /\ pc[p] # 1 /\ relogin(p).as \in Entities(p)
        /\ Entities(p) = {relogin(p).as} /\ inside[p][t] # Outside
    BY <1>1, CallbackFacts
  <1> SUFFICES ASSUME NEW a \in Entities(p), a = relogin(p).as
               PROVE  IInv'
    BY <1>3
  <1>4. /\ DOMAIN conn' = Process /\ conn'[p] \in [Entities(p) -> ConnRecord]
        /\ conn'[p][a].login = conn[p][a].login
        /\ conn'[p][a].registry = conn[p][a].registry
        /\ conn'[p][a].pending
        /\ \A q \in Process \ {p} : conn'[q] = conn[q]
    <2>1. /\ conn[p][a] \in ConnRecord /\ DOMAIN conn = Process
          /\ conn[p] \in [Entities(p) -> ConnRecord]
      BY DEF IInv, ProcessTypes
    <2> DEFINE c == [conn[p][a] EXCEPT !.pending = TRUE]
    <2>2. /\ c \in ConnRecord /\ c.pending
          /\ c.login = conn[p][a].login /\ c.registry = conn[p][a].registry
      BY <2>1 DEF ConnRecord
    <2>3. conn' = [conn EXCEPT ![p][a] = c]
      BY DEF Records
    <2> HIDE DEF c
    <2> QED  BY <2>2, <2>3, OneConn
  <1>5. /\ relogin(p)' = relogin(p) /\ (HasCallback(p)' <=> HasCallback(p))
        /\ Script(p)' = Script(p) /\ At(p)' = At(p)
    BY <1>1, SamePlay DEF At, mainVars
  <1>6. ThreadInv(p) /\ SuspendInv(p) /\ NilInv(p)
    BY DEF IInv, ProcessInv
  <1>7. inside[p][t].suspended \in Nat /\ faults \in Nat
    BY DEF IInv, BusTypes, ProcessTypes, InsideRecord
  <1> SUFFICES ASSUME NEW r, r = IF inside[p][t].suspended = 0
                                 THEN [step |-> "recorded", suspended |-> 0]
                                 ELSE [step |-> "resend",
                                       suspended |-> inside[p][t].suspended - 1]
               PROVE  IInv'
    OBVIOUS
  <1>8. /\ r \in InsideRecord
        /\ r.suspended + (IF r.step \in {"login", "register", "resend"} THEN 1 ELSE 0)
             = inside[p][t].suspended
    BY <1>7 DEF InsideRecord, Steps
  <1>9. /\ inside' \in [Process -> [Thread -> InsideRecord]]
        /\ inside'[p][t] = r
        /\ \A u \in Thread : u # t => inside'[p][u] = inside[p][u]
        /\ \A q \in Process \ {p} : inside'[q] = inside[q]
        /\ Due(p, t)' = inside[p][t].suspended
        /\ \A u \in Thread : u # t => Due(p, u)' = Due(p, u)
    <2>1. inside' = [inside EXCEPT ![p][t] = r]
      BY DEF Records
    <2>2. /\ inside' \in [Process -> [Thread -> InsideRecord]]
          /\ inside'[p][t] = r
          /\ \A u \in Thread : u # t => inside'[p][u] = inside[p][u]
          /\ \A q \in Process \ {p} : inside'[q] = inside[q]
      BY ZenonT(40), <1>8, <2>1, OneThread
    <2> QED  BY <1>8, <2>2 DEF Due
  <1>10. ThreadInv(p)'
    <2>1. relogin(p).registers = <<>> =>
            \A u \in Thread : inside'[p][u].step \in ReloginSteps
                              /\ inside'[p][u].suspended = 0
      BY <1>6, <1>9 DEF ThreadInv, ReloginSteps
    <2>2. inside[p]["main"] = Outside => inside'[p]["main"] = Outside
      BY <1>1, <1>9 DEF Thread, Outside
    <2> QED  BY <1>2, <1>3, <1>5, <1>6, <2>1, <2>2 DEF ThreadInv
  <1>11. SuspendInv(p)'
    <2>1. Lost(conn[p][relogin(p).as])' <=> Lost(conn[p][relogin(p).as])
      BY <1>1, <1>4, <1>5 DEF Lost
    <2>2. /\ r.step \in {"recorded", "resend"}
          /\ r.step = "recorded" => r.suspended = 0
          /\ r.suspended <= inside[p][t].suspended
          /\ r.step = "resend" => r.suspended + 1 = inside[p][t].suspended
      BY <1>7
    <2>3. inside[p][t].suspended <= faults
      BY <1>6 DEF SuspendInv
    <2>4. /\ inside'[p][t].step # "outside" /\ inside'[p][t].suspended <= faults
          /\ inside'[p][t].step = "recorded" => inside'[p][t].suspended = 0
          /\ inside'[p][t].step = "resend" => inside'[p][t].suspended + 1 <= faults
          /\ inside'[p][t].step # "register"
      BY <1>7, <1>8, <1>9, <2>2, <2>3 DEF InsideRecord
    <2>5. faults' = faults /\ (Running(p)' => Running(p))  BY <1>1
    <2> QED  BY <1>5, <1>6, <1>9, <2>1, <2>4, <2>5 DEF SuspendInv
  <1>12. NilInv(p)'
    <2>1. relogin(p).again # {} => inside'[p][t].step = "recorded"
      <3>1. relogin(p).again # {} => relogin(p).registers = <<>>
        BY ReloginFacts DEF IInv
      <3> QED  BY <1>6, <1>9, <3>1 DEF ThreadInv
    <2> QED  BY <1>2, <1>4, <1>5, <2>1 DEF NilInv, Relogs
  <1>13. HistoryMoves(p)  BY <1>1, SameHistory
  <1>14. Due(p, "main")' = Due(p, "main") /\ Due(p, "other")' = Due(p, "other")
    BY <1>1, <1>7, <1>9 DEF Due, Thread
  <1>15. OfferInv(p)'
    <2>1. BusGrows  BY <1>1, BusStays
    <2> QED  BY <1>1, <1>2, <1>3, <1>4, <2>1, OfferKept DEF mainVars
  <1>16. /\ \A q \in Process \ {p} :
               ThreadsKept(q) /\ (q \in unoffered' <=> q \in unoffered)
         /\ unoffered' \subseteq Process
         /\ NewLogins(p) /\ UNCHANGED <<play, peer, offers, secrets, file, works, calls>>
    BY <1>1, <1>4, <1>9 DEF ThreadsKept, NewLogins, mainVars, IInv, ProcessTypes
  <1>17. Due(p, "main")' + Due(p, "other")' + repeats[p]
           <= Due(p, "main") + Due(p, "other") + repeats'[p]
    BY <1>1, <1>14, Numbers DEF Thread
  <1>18. \A e \in Entities(p) : conn'[p][e].login # None =>
           /\ conn'[p][e].login = conn[p][e].login
           /\ conn[p][e].registry => conn'[p][e].registry
    BY <1>3, <1>4
  <1>19. faults' = faults  BY <1>1
  <1> QED
    BY <1>1, <1>2, <1>4, <1>9, <1>10, <1>11, <1>12, <1>13, <1>15, <1>16, <1>17, <1>18,
       <1>19, QuietSteps

\* The callback returns to the request that was suspended last, or to the thread.
LEMMA LeavesCallback ==
  ASSUME IInv, NEW p \in Process, NEW t \in Thread,
         inside[p][t].step \in {"login", "register", "resend"}, LeaveCallback(p, t)
  PROVE  /\ inside' \in [Process -> [Thread -> InsideRecord]]
         /\ inside'[p][t] = IF inside[p][t].suspended = 0 THEN Outside
                ELSE [step |-> "resend", suspended |-> inside[p][t].suspended - 1]
         /\ \A u \in Thread : u # t => inside'[p][u] = inside[p][u]
         /\ \A q \in Process \ {p} : inside'[q] = inside[q]
         /\ Due(p, t) = Due(p, t)' + 1
         /\ Due(p, t)' \in Nat
         /\ \A u \in Thread : u # t => Due(p, u)' = Due(p, u)
  <1>1. inside[p][t] \in InsideRecord /\ inside[p][t].suspended \in Nat
    BY DEF IInv, ProcessTypes, InsideRecord
  <1> SUFFICES ASSUME NEW r, r = IF inside[p][t].suspended = 0 THEN Outside
                   ELSE [step |-> "resend", suspended |-> inside[p][t].suspended - 1]
               PROVE  /\ inside' \in [Process -> [Thread -> InsideRecord]]
                      /\ inside'[p][t] = r
                      /\ \A u \in Thread : u # t => inside'[p][u] = inside[p][u]
                      /\ \A q \in Process \ {p} : inside'[q] = inside[q]
                      /\ Due(p, t) = Due(p, t)' + 1
                      /\ Due(p, t)' \in Nat
                      /\ \A u \in Thread : u # t => Due(p, u)' = Due(p, u)
    OBVIOUS
  <1>2. r \in InsideRecord
    BY <1>1 DEF InsideRecord, Steps, Outside
  <1>3. inside' = [inside EXCEPT ![p][t] = r]
    BY DEF LeaveCallback
  <1>4. /\ inside' \in [Process -> [Thread -> InsideRecord]]
        /\ inside'[p][t] = r
        /\ \A u \in Thread : u # t => inside'[p][u] = inside[p][u]
        /\ \A q \in Process \ {p} : inside'[q] = inside[q]
    BY ZenonT(40), <1>2, <1>3, OneThread
  <1>5. Due(p, t)' = inside[p][t].suspended
    <2>1. r.suspended + (IF r.step \in {"login", "register", "resend"} THEN 1 ELSE 0)
            = inside[p][t].suspended
      BY <1>1 DEF Outside
    <2> QED  BY <1>4, <2>1 DEF Due
  <1>6. Due(p, t) = inside[p][t].suspended + 1
    BY DEF Due
  <1>7. \A u \in Thread : u # t => Due(p, u)' = Due(p, u)
    BY <1>4 DEF Due
  <1> QED  BY <1>1, <1>4, <1>5, <1>6, <1>7

\* Who is in the callback after a step in it.
LEMMA CallbackThreads ==
  ASSUME IInv, NEW p \in Process, NEW t \in Thread, Running(p),
         inside[p][t].step # "outside", play' = play, pc'[p] = pc[p],
         \A u \in Thread : u # t => inside'[p][u] = inside[p][u],
         relogin(p).registers = <<>> =>
           inside'[p][t].step \in ReloginSteps /\ inside'[p][t].suspended = 0
  PROVE  ThreadInv(p)'
  <1>1. HasCallback(p) /\ pc[p] # 1 /\ inside[p][t] # Outside
    BY CallbackFacts
  <1>2. ThreadInv(p)  BY DEF IInv, ProcessInv
  <1>3. /\ relogin(p)' = relogin(p) /\ (HasCallback(p)' <=> HasCallback(p))
        /\ At(p)' = At(p)
    BY SamePlay DEF At
  <1>4. inside'[p]["main"] # Outside => At(p).do \in {"register", "use", "share"}
    BY <1>1, <1>2 DEF ThreadInv, Thread
  <1>5. relogin(p).registers = <<>> =>
          \A u \in Thread : inside'[p][u].step \in ReloginSteps
                            /\ inside'[p][u].suspended = 0
    BY <1>2 DEF ThreadInv
  <1> QED  BY <1>1, <1>3, <1>4, <1>5 DEF ThreadInv

\* What is suspended when the callback returns has had its fault already.
LEMMA CallbackSuspends ==
  ASSUME IInv, NEW p \in Process, NEW t \in Thread, Running(p), play' = play,
         faults' = faults \/ Fault, inside' \in [Process -> [Thread -> InsideRecord]],
         \A u \in Thread : u # t => inside'[p][u] = inside[p][u],
         inside'[p][t].step = "outside" => inside'[p][t] = Outside,
         inside'[p][t].step # "recorded",
         \/ inside'[p][t].suspended <= inside[p][t].suspended
         \/ inside'[p][t].step \in {"dropped", "login"} /\ inside'[p][t].suspended <= faults,
         \/ ~Lost(conn[p][relogin(p).as])'
         \/ /\ inside'[p][t].suspended + 1 <= inside[p][t].suspended
               \/ inside'[p][t].step \in {"outside", "dropped", "login"}
            /\ Lost(conn[p][relogin(p).as])
  PROVE  SuspendInv(p)'
  <1>1. SuspendInv(p)  BY DEF IInv, ProcessInv
  <1>2. relogin(p)' = relogin(p)  BY SamePlay
  <1>3. faults \in Nat /\ faults' \in Nat /\ faults <= faults'
    BY DEF IInv, BusTypes, Fault
  <1>4. \A u \in Thread : inside[p][u].suspended \in Nat /\ inside'[p][u].suspended \in Nat
    BY DEF IInv, ProcessTypes, InsideRecord
  <1>5. ASSUME NEW u \in Thread
        PROVE  /\ inside'[p][u].step = "outside" => inside'[p][u] = Outside
               /\ inside'[p][u].step = "recorded" => inside'[p][u].suspended = 0
               /\ inside'[p][u].suspended <= faults'
               /\ /\ inside'[p][u].step \in {"register", "resend"}
                  /\ Lost(conn[p][relogin(p).as])'
                  => inside'[p][u].suspended + 1 <= faults'
    <2>1. /\ inside[p][u].step = "outside" => inside[p][u] = Outside
          /\ inside[p][u].step = "recorded" => inside[p][u].suspended = 0
          /\ inside[p][u].suspended <= faults
          /\ inside[p][u].step \in {"register", "resend"} /\ Lost(conn[p][relogin(p).as])
             => inside[p][u].suspended + 1 <= faults
      BY <1>1 DEF SuspendInv
    <2>2. CASE u = t
      BY <1>3, <1>4, <2>1, <2>2
    <2>3. CASE u # t
      BY <1>3, <1>4, <2>1, <2>3
    <2> QED  BY <2>2, <2>3
  <1> QED  BY <1>2, <1>5 DEF SuspendInv, Lost

LEMMA CallbackLoginHolds ==
  ASSUME IInv, NEW p \in Process, NEW t \in Thread, CallbackLogin(p, t)
  PROVE  IInv'
  <1>1. /\ Running(p) /\ inside[p][t].step = "login"
        /\ UNCHANGED <<play, mainVars, offers, secrets, file, faults, historyVars>>
    BY DEF CallbackLogin, InCallback
  <1>2. /\ Moves(p) /\ pc'[p] = pc[p] /\ Onward(p) /\ status'[p] # "crashed" /\ ~Leaves(p)
    BY <1>1, StaysMoves DEF mainVars, MainVars
  <1>3. /\ HasCallback(p) /\ inside[p][t] # Outside /\ Entities(p) = {relogin(p).as}
        /\ relogin(p).as \in Entities(p) /\ relogin(p).as \in Entity
    BY <1>1, CallbackFacts
  <1>4. HistoryMoves(p) /\ unoffered' \subseteq Process
    BY <1>1, SameHistory DEF historyVars, IInv, ProcessTypes
  <1>5. ThreadInv(p) /\ SuspendInv(p) /\ inside[p][t].suspended \in Nat /\ faults \in Nat
        /\ inside[p][t].suspended <= faults
    BY DEF IInv, ProcessInv, ProcessTypes, InsideRecord, BusTypes, SuspendInv
  <1>6. relogin(p)' = relogin(p)  BY <1>1, SamePlay
  <1>7. CASE conn[p][relogin(p).as].login # None /\ LeaveCallback(p, t)
             /\ UNCHANGED <<conn, logins>>
    <2>1. /\ inside' \in [Process -> [Thread -> InsideRecord]]
          /\ inside'[p][t] = IF inside[p][t].suspended = 0 THEN Outside
                ELSE [step |-> "resend", suspended |-> inside[p][t].suspended - 1]
          /\ \A u \in Thread : u # t => inside'[p][u] = inside[p][u]
          /\ \A q \in Process \ {p} : inside'[q] = inside[q]
          /\ Due(p, t) = Due(p, t)' + 1 /\ Due(p, t)' \in Nat
          /\ \A u \in Thread : u # t => Due(p, u)' = Due(p, u)
      BY <1>1, <1>7, LeavesCallback
    <2>2. ThreadInv(p)'
      BY <1>1, <1>2, <1>5, <2>1, CallbackThreads DEF ThreadInv, ReloginSteps, Outside
    <2>3. SuspendInv(p)'
      <3>1. /\ inside'[p][t].suspended <= inside[p][t].suspended
            /\ inside'[p][t].step = "outside" => inside'[p][t] = Outside
            /\ inside'[p][t].suspended + 1 <= inside[p][t].suspended
               \/ inside'[p][t].step \in {"outside", "dropped", "login"}
            /\ inside'[p][t].step # "recorded"
        BY <1>5, <2>1 DEF Outside
      <3>2. Lost(conn[p][relogin(p).as])' => Lost(conn[p][relogin(p).as])
        BY <1>6, <1>7 DEF Lost
      <3> QED  BY <1>1, <2>1, <3>1, <3>2, CallbackSuspends
    <2>4. NilInv(p)'
      <3>1. conn[p][relogin(p).as].registry
        BY <1>3, <1>7 DEF IInv, LoginInv
      <3> QED  BY <1>2, <1>6, <1>7, <3>1 DEF NilInv
    <2>5. OfferInv(p)'
      <3>1. BusGrows  BY <1>1, <1>7, BusStays
      <3> QED  BY <1>1, <1>2, <1>7, <3>1, OfferKept DEF historyVars
    <2>6. Due(p, "main")' + Due(p, "other")' + repeats[p]
            <= Due(p, "main") + Due(p, "other") + repeats'[p]
      <3>1. /\ Due(p, "main") \in Nat /\ Due(p, "other") \in Nat /\ repeats[p] \in Nat
            /\ t \in {"main", "other"} /\ repeats'[p] = repeats[p]
        BY <1>1, Numbers DEF Thread, historyVars
      <3>2. CASE t = "main"
        BY <2>1, <3>1, <3>2 DEF Thread
      <3>3. CASE t = "other"
        BY <2>1, <3>1, <3>3 DEF Thread
      <3> QED  BY <3>1, <3>2, <3>3
    <2>7. DOMAIN conn' = Process /\ conn'[p] \in [Entities(p) -> ConnRecord]
      BY <1>7 DEF IInv, ProcessTypes
    <2> QED
      BY <1>1, <1>2, <1>4, <1>7, <2>1, <2>2, <2>3, <2>4, <2>5, <2>6, <2>7, QuietSteps
         DEF ThreadsKept, mainVars, historyVars, NewLogins
  <1>8. CASE /\ conn[p][relogin(p).as].login = None
             /\ Issue(p, relogin(p).as)
             /\ conn' = [conn EXCEPT ![p][relogin(p).as] = LoggedIn(Issued)]
             /\ IF relogin(p).registers = <<>> THEN LeaveCallback(p, t)
                ELSE inside' = [inside EXCEPT ![p][t].step = "register"]
    <2>1. /\ BusGrows /\ \A q : NoOfferOf(q)
          /\ Issued \in Nat /\ Issued # None /\ Issued \notin DOMAIN logins
          /\ DOMAIN logins' = DOMAIN logins \cup {Issued}
          /\ logins'[Issued] = [process |-> p, entity |-> relogin(p).as, valid |-> TRUE]
      BY <1>1, <1>3, <1>8, IssueGrows
    <2>2. LoggedIn(Issued) \in ConnRecord /\ LoggedIn(Issued).login = Issued
          /\ LoggedIn(Issued).registry
      BY <2>1 DEF LoggedIn, ConnRecord
    <2>3. /\ DOMAIN conn' = Process /\ conn'[p] \in [Entities(p) -> ConnRecord]
          /\ conn'[p][relogin(p).as] = LoggedIn(Issued)
          /\ \A q \in Process \ {p} : conn'[q] = conn[q]
      BY <1>3, <1>8, <2>2, OneConn
    <2>4. /\ inside' \in [Process -> [Thread -> InsideRecord]]
          /\ \A u \in Thread : u # t => inside'[p][u] = inside[p][u]
          /\ \A q \in Process \ {p} : inside'[q] = inside[q]
          /\ inside'[p][t].step = "outside" => inside'[p][t] = Outside
          /\ inside'[p][t].step # "recorded"
          /\ inside'[p][t].suspended <= inside[p][t].suspended
          /\ relogin(p).registers = <<>> => inside'[p][t] = Outside
          /\ Due(p, t)' \in Nat /\ Due(p, t)' <= Due(p, t)
          /\ \A u \in Thread : u # t => Due(p, u)' = Due(p, u)
      <3>1. CASE relogin(p).registers = <<>>
        <4>1. LeaveCallback(p, t) /\ inside[p][t].suspended = 0
          BY <1>5, <1>8, <3>1 DEF ThreadInv
        <4>2. Due(p, t) \in Nat  BY Numbers
        <4>3. /\ inside' \in [Process -> [Thread -> InsideRecord]]
              /\ inside'[p][t] = Outside
              /\ \A u \in Thread : u # t => inside'[p][u] = inside[p][u]
              /\ \A q \in Process \ {p} : inside'[q] = inside[q]
              /\ Due(p, t) = Due(p, t)' + 1 /\ Due(p, t)' \in Nat
              /\ \A u \in Thread : u # t => Due(p, u)' = Due(p, u)
          BY <1>1, <4>1, LeavesCallback
        <4> QED  BY <1>5, <4>2, <4>3 DEF Outside
      <3>2. CASE relogin(p).registers # <<>>
        <4>1. inside[p][t] \in InsideRecord  BY DEF IInv, ProcessTypes
        <4> SUFFICES ASSUME NEW r, r = [inside[p][t] EXCEPT !.step = "register"]
                     PROVE  /\ inside' \in [Process -> [Thread -> InsideRecord]]
                            /\ \A u \in Thread : u # t => inside'[p][u] = inside[p][u]
                            /\ \A q \in Process \ {p} : inside'[q] = inside[q]
                            /\ inside'[p][t].step = "outside" => inside'[p][t] = Outside
                            /\ inside'[p][t].step # "recorded"
                            /\ inside'[p][t].suspended <= inside[p][t].suspended
                            /\ Due(p, t)' \in Nat /\ Due(p, t)' <= Due(p, t)
                            /\ \A u \in Thread : u # t => Due(p, u)' = Due(p, u)
          BY <3>2
        <4>2. /\ r \in InsideRecord /\ r.step = "register" /\ r # Outside
              /\ r.suspended = inside[p][t].suspended
          BY <4>1 DEF InsideRecord, Steps, Outside
        <4>3. inside' = [inside EXCEPT ![p][t] = r]
          BY <1>8, <3>2
        <4>4. /\ inside' \in [Process -> [Thread -> InsideRecord]] /\ inside'[p][t] = r
              /\ \A u \in Thread : u # t => inside'[p][u] = inside[p][u]
              /\ \A q \in Process \ {p} : inside'[q] = inside[q]
          BY ZenonT(40), <4>2, <4>3, OneThread
        <4> QED  BY <1>1, <1>5, <4>2, <4>4 DEF Due
      <3> QED  BY <3>1, <3>2
    <2>5. ThreadInv(p)'
      BY <1>1, <1>2, <2>4, CallbackThreads DEF Outside, ReloginSteps
    <2>6. SuspendInv(p)'
      <3>1. ~Lost(conn[p][relogin(p).as])'
        BY <1>6, <2>1, <2>2, <2>3 DEF Lost
      <3> QED  BY <1>1, <2>4, <3>1, CallbackSuspends
    <2>7. NilInv(p)'
      BY <1>2, <1>6, <2>2, <2>3 DEF NilInv
    <2>8. OfferInv(p)'
      BY <1>1, <1>2, <1>3, <1>8, NoLoginNoOffers, OfferLost DEF historyVars
    <2>9. CountInv(p)'
      <3>1. \A i \in DOMAIN Script(p) : Script(p)[i].do = "register" =>
              conn'[p][Script(p)[i].as].login \notin DOMAIN logins
        BY <1>3, <2>1, <2>2, <2>3, UsedLogins
      <3>2. /\ Due(p, "main") \in Nat /\ Due(p, "other") \in Nat /\ repeats[p] \in Nat
            /\ repeats'[p] = repeats[p]
        BY <1>1, Numbers DEF Thread, historyVars
      <3>3. /\ Due(p, "main")' \in Nat /\ Due(p, "other")' \in Nat
            /\ Due(p, "main")' <= Due(p, "main") /\ Due(p, "other")' <= Due(p, "other")
        BY <2>4, <3>2 DEF Thread
      <3> QED  BY <1>1, <1>2, <3>1, <3>2, <3>3, CountLess
    <2>10. WorkInv(p)'
      BY <1>1, <1>2, <1>4, <2>1, WorkMoves DEF HistoryMoves, historyVars
    <2>11. BusTypes'
      BY <1>1, <2>1, BusHasTypes DEF IInv, BusTypes
    <2>12. \A l \in DOMAIN logins' : l \notin DOMAIN logins =>
             /\ logins'[l].process = p
             /\ servant(p).kind # "none" => logins'[l].entity \in Entities(p)
      BY <1>3, <2>1
    <2>13. \A e \in Entities(p) : conn'[p][e].login # None =>
             /\ conn'[p][e].login \in DOMAIN logins'
             /\ logins'[conn'[p][e].login].process = p
             /\ conn'[p][e].registry
      BY <1>3, <2>1, <2>2, <2>3
    <2>14. \A q \in Process \ {p} :
             NoOfferOf(q) /\ ThreadsKept(q) /\ (q \in unoffered' <=> q \in unoffered)
      BY <1>1, <2>1, <2>3, <2>4 DEF ThreadsKept, historyVars
    <2>15. UNCHANGED <<peer, works, calls>>
      BY <1>1 DEF mainVars, historyVars
    <2> QED
      BY <1>2, <1>4, <2>1, <2>3, <2>4, <2>5, <2>6, <2>7, <2>8, <2>9, <2>10, <2>11, <2>12,
         <2>13, <2>14, <2>15, ConnSteps
  <1> QED  BY <1>7, <1>8 DEF CallbackLogin

\* The requests of a thread that are suspended are lost.
LEMMA GivesUp ==
  ASSUME IInv, NEW p \in Process, NEW t \in Thread, Running(p), GiveUp(p, t)
  PROVE  /\ Moves(p) /\ pc'[p] = pc[p] /\ Onward(p) /\ status'[p] # "crashed"
         /\ Leaves(p) => Unfinished(At(p))
         /\ inside' \in [Process -> [Thread -> InsideRecord]]
         /\ inside'[p][t] = Outside
         /\ \A u \in Thread : u # t => inside'[p][u] = inside[p][u]
         /\ \A q \in Process \ {p} : inside'[q] = inside[q]
         /\ Due(p, t)' = 0
         /\ \A u \in Thread : u # t => Due(p, u)' = Due(p, u)
         /\ Due(p, "main")' + Due(p, "other")' <= Due(p, "main") + Due(p, "other")
  <1>1. Outside \in InsideRecord  BY DEF InsideRecord, Outside, Steps
  <1>2. /\ inside' \in [Process -> [Thread -> InsideRecord]]
        /\ inside'[p][t] = Outside
        /\ \A u \in Thread : u # t => inside'[p][u] = inside[p][u]
        /\ \A q \in Process \ {p} : inside'[q] = inside[q]
    BY <1>1, OneThread DEF GiveUp
  <1>3. Due(p, t)' = 0 /\ \A u \in Thread : u # t => Due(p, u)' = Due(p, u)
    BY <1>2 DEF Due, Outside
  <1>4. /\ Due(p, "main")' + Due(p, "other")' <= Due(p, "main") + Due(p, "other")
    <2>1. Due(p, "main") \in Nat /\ Due(p, "other") \in Nat  BY Numbers DEF Thread
    <2>2. CASE t = "main"  BY <1>3, <2>1, <2>2 DEF Thread
    <2>3. CASE t = "other"  BY <1>3, <2>1, <2>3 DEF Thread
    <2> QED  BY <2>2, <2>3 DEF Thread
  <1>5. CASE Throw(p, "NO_PERMISSION")
    BY <1>2, <1>3, <1>4, <1>5, Throws
  <1>6. CASE UNCHANGED <<pc, status, reference, found, facet>>
    BY <1>2, <1>3, <1>4, <1>6, StaysMoves DEF MainVars
  <1> QED  BY <1>5, <1>6 DEF GiveUp

LEMMA CallbackLoginFailsHolds ==
  ASSUME IInv, NEW p \in Process, NEW t \in Thread, NEW e, CallbackLoginFails(p, t, e)
  PROVE  IInv'
  <1>1. /\ Running(p) /\ inside[p][t].step = "login"
        /\ conn[p][relogin(p).as].login = None
        /\ e \in {"AccessDenied", "ServiceFailure"} \cup Communication
        /\ UNCHANGED <<play, peer, offers, secrets, file, historyVars>>
        /\ faults' = faults \/ Fault
    BY DEF CallbackLoginFails, InCallback
  <1>2. /\ HasCallback(p) /\ inside[p][t] # Outside /\ Entities(p) = {relogin(p).as}
        /\ relogin(p).as \in Entities(p) /\ relogin(p).as \in Entity
    BY <1>1, CallbackFacts
  <1>3. NewLogins(p)
    BY <1>2 DEF CallbackLoginFails, NewLogins
  <1>4. HistoryMoves(p) /\ unoffered' \subseteq Process
    BY <1>1, SameHistory DEF historyVars, IInv, ProcessTypes
  <1>5. ThreadInv(p) /\ SuspendInv(p) /\ inside[p][t].suspended \in Nat /\ faults \in Nat
        /\ inside[p][t].suspended <= faults
    BY DEF IInv, ProcessInv, ProcessTypes, InsideRecord, BusTypes, SuspendInv
  <1>6. relogin(p)' = relogin(p)  BY <1>1, SamePlay
  <1>7. PICK registry \in BOOLEAN : conn' = [conn EXCEPT ![p][relogin(p).as] =
                 [login |-> None, registry |-> registry,
                  pending |-> @.pending /\ e \in relogin(p).again]]
    BY DEF CallbackLoginFails
  <1>8. PICK pending \in BOOLEAN : conn' = [conn EXCEPT ![p][relogin(p).as] =
                 [login |-> None, registry |-> registry, pending |-> pending]]
    <2>1. (conn[p][relogin(p).as].pending /\ e \in relogin(p).again) \in BOOLEAN
      OBVIOUS
    <2>2. conn' = [conn EXCEPT ![p][relogin(p).as] =
                 [login |-> None, registry |-> registry,
                  pending |-> (conn[p][relogin(p).as].pending /\ e \in relogin(p).again)]]
      BY <1>2, <1>7 DEF IInv, ProcessTypes
    <2> QED  BY Zenon, <2>1, <2>2
  <1>9. /\ DOMAIN conn' = Process /\ conn'[p] \in [Entities(p) -> ConnRecord]
        /\ conn'[p][relogin(p).as] =
              [login |-> None, registry |-> registry, pending |-> pending]
        /\ \A q \in Process \ {p} : conn'[q] = conn[q]
    <2>1. [login |-> None, registry |-> registry, pending |-> pending] \in ConnRecord
      BY DEF ConnRecord, None
    <2> QED  BY <1>2, <1>8, <2>1, OneConn
  <1>10. \A f \in Entities(p) : conn'[p][f].login = None
    BY <1>2, <1>9
  <1>11. CASE /\ e \in relogin(p).again
              /\ UNCHANGED <<inside, pc, status, reference, found, facet>>
    <2>1. /\ Moves(p) /\ pc'[p] = pc[p] /\ Onward(p) /\ status'[p] # "crashed"
          /\ ~Leaves(p)
      BY <1>1, <1>11, StaysMoves DEF MainVars
    <2>2. relogin(p).registers = <<>>
      BY <1>11, ReloginFacts DEF IInv
    <2>3. ThreadInv(p)'
      BY <1>1, <1>5, <1>11, <2>1, CallbackThreads DEF ThreadInv, ReloginSteps
    <2>4. SuspendInv(p)'
      <3>1. \A u \in Thread :
              /\ inside'[p][u].step \in ReloginSteps
              /\ inside'[p][u].suspended = 0
              /\ inside'[p][u].step = "outside" => inside'[p][u] = Outside
        BY <1>5, <1>11, <2>2 DEF ThreadInv, SuspendInv
      <3>2. faults' \in Nat  BY <1>1, <1>5 DEF Fault
      <3> QED  BY <3>1, <3>2 DEF SuspendInv, ReloginSteps
    <2>5. NilInv(p)'
      BY <1>1, <1>11, <2>1 DEF NilInv, Relogs
    <2>6. OfferInv(p)'
      BY <1>1, <1>2, <2>1, NoLoginNoOffers, OfferLost DEF historyVars
    <2>7. inside' \in [Process -> [Thread -> InsideRecord]]
      BY <1>11 DEF IInv, ProcessTypes
    <2> QED
      BY <1>1, <1>3, <1>4, <1>9, <1>10, <1>11, <2>1, <2>2, <2>3, <2>4, <2>5, <2>6, <2>7,
         QuietSteps DEF ThreadsKept, historyVars
  <1>12. CASE e \notin relogin(p).again /\ GiveUp(p, t)
    <2>1. /\ Moves(p) /\ pc'[p] = pc[p] /\ Onward(p) /\ status'[p] # "crashed"
          /\ Leaves(p) => Unfinished(At(p))
          /\ inside' \in [Process -> [Thread -> InsideRecord]]
          /\ inside'[p][t] = Outside
          /\ \A u \in Thread : u # t => inside'[p][u] = inside[p][u]
          /\ \A q \in Process \ {p} : inside'[q] = inside[q]
          /\ Due(p, "main")' + Due(p, "other")' <= Due(p, "main") + Due(p, "other")
          /\ Due(p, "main")' \in Nat /\ Due(p, "other")' \in Nat
      <3>1. /\ Due(p, t)' = 0
            /\ \A u \in Thread : u # t => Due(p, u)' = Due(p, u)
        BY <1>1, <1>12, GivesUp
      <3>2. Due(p, "main")' \in Nat /\ Due(p, "other")' \in Nat
        BY <3>1, Numbers DEF Thread
      <3> QED  BY <1>1, <1>12, <3>2, GivesUp
    <2>2. relogin(p).again = {}
      BY <1>1, <1>12, ReloginFacts DEF Retried, IInv
    <2>3. ThreadInv(p)'
      BY <1>1, <2>1, CallbackThreads DEF Outside, ReloginSteps
    <2>4. SuspendInv(p)'
      <3>1. Lost(conn[p][relogin(p).as]) /\ inside'[p][t].step = "outside"
        BY <1>1, <2>1 DEF Lost, Outside
      <3>2. inside'[p][t].suspended <= inside[p][t].suspended
        BY <1>5, <2>1 DEF Outside
      <3> QED  BY <1>1, <2>1, <3>1, <3>2, CallbackSuspends
    <2>5. NilInv(p)'
      BY <1>6, <2>2 DEF NilInv
    <2>6. OfferInv(p)'
      BY <1>1, <1>2, <2>1, NoLoginNoOffers, OfferLost DEF historyVars
    <2>7. Due(p, "main")' + Due(p, "other")' + repeats[p]
            <= Due(p, "main") + Due(p, "other") + repeats'[p]
      <3>1. /\ Due(p, "main") \in Nat /\ Due(p, "other") \in Nat /\ repeats[p] \in Nat
            /\ repeats'[p] = repeats[p]
        BY <1>1, Numbers DEF Thread, historyVars
      <3> QED  BY <2>1, <3>1
    <2>8. \A q \in Process \ {p} :
            ThreadsKept(q) /\ (q \in unoffered' <=> q \in unoffered)
      BY <1>1, <1>9, <2>1 DEF ThreadsKept, historyVars
    <2>9. UNCHANGED <<works, calls>>  BY <1>1 DEF historyVars
    <2> QED
      BY <1>1, <1>3, <1>4, <1>9, <1>10, <2>1, <2>3, <2>4, <2>5, <2>6, <2>7, <2>8, <2>9,
         QuietSteps
  <1> QED  BY <1>11, <1>12 DEF CallbackLoginFails

\* The request of a login that was dropped is sent again.
LEMMA ResendsHolds ==
  ASSUME IInv, NEW p \in Process, NEW t \in Thread, Resends(p, t)
  PROVE  IInv'
  <1>1. /\ Running(p) /\ inside[p][t].step = "recorded"
        /\ UNCHANGED <<play, mainVars, conn, logins, offers, secrets, file, faults, works,
                       unoffered, calls>>
    BY DEF Resends, InCallback, busVars
  <1>2. /\ Moves(p) /\ pc'[p] = pc[p] /\ Onward(p) /\ status'[p] # "crashed" /\ ~Leaves(p)
    BY <1>1, StaysMoves DEF mainVars, MainVars
  <1>3. /\ HasCallback(p) /\ pc[p] # 1 /\ relogin(p).as \in Entities(p)
        /\ inside[p][t] # Outside
    BY <1>1, CallbackFacts
  <1> SUFFICES ASSUME NEW a \in Entities(p), a = relogin(p).as
               PROVE  IInv'
    BY <1>3
  <1>4. /\ relogin(p)' = relogin(p) /\ Script(p)' = Script(p) /\ At(p)' = At(p)
    BY <1>1, SamePlay DEF At, mainVars
  <1>5. /\ ThreadInv(p) /\ SuspendInv(p) /\ NilInv(p) /\ inside[p][t].suspended = 0
        /\ faults \in Nat
    BY <1>1 DEF IInv, ProcessInv, SuspendInv, BusTypes
  <1>6. BusGrows /\ (\A q : NoOfferOf(q)) /\ BusTypes'
    <2>1. BusGrows /\ \A q : NoOfferOf(q)  BY <1>1, BusStays
    <2> QED  BY <1>1, <2>1, BusHasTypes DEF IInv, BusTypes
  <1>7. ASSUME NEW r \in InsideRecord, r.step \in {"outside", "login"}, r.suspended = 0,
               r.step = "outside" => r = Outside,
               inside' \in [Process -> [Thread -> InsideRecord]], inside'[p][t] = r,
               \A u \in Thread : u # t => inside'[p][u] = inside[p][u],
               \A q \in Process \ {p} : inside'[q] = inside[q],
               HistoryMoves(p), NilInv(p)', CountInv(p)'
        PROVE  IInv'
    <2>1. ThreadInv(p)'
      BY <1>1, <1>2, <1>7, CallbackThreads DEF ReloginSteps
    <2>2. SuspendInv(p)'
      <3>1. Lost(conn[p][relogin(p).as])' => Lost(conn[p][relogin(p).as])
        BY <1>1, <1>4 DEF Lost
      <3> QED  BY <1>1, <1>5, <1>7, <3>1, CallbackSuspends
    <2>3. OfferInv(p)'
      BY <1>1, <1>2, <1>6, OfferKept
    <2>4. WorkInv(p)'
      BY <1>1, <1>2, <1>6, <1>7, WorkMoves DEF HistoryMoves
    <2>5. /\ DOMAIN conn' = Process /\ conn'[p] \in [Entities(p) -> ConnRecord]
          /\ unoffered' \subseteq Process /\ UNCHANGED <<peer, works, calls>>
      BY <1>1 DEF IInv, ProcessTypes, mainVars
    <2>6. \A e \in Entities(p) : conn'[p][e].login # None =>
            /\ conn'[p][e].login \in DOMAIN logins'
            /\ logins'[conn'[p][e].login].process = p
            /\ conn'[p][e].registry
      BY <1>1 DEF IInv, LoginInv
    <2>7. \A q \in Process \ {p} :
            NoOfferOf(q) /\ ThreadsKept(q) /\ (q \in unoffered' <=> q \in unoffered)
      BY <1>1, <1>6, <1>7 DEF ThreadsKept
    <2>8. \A l \in DOMAIN logins' : l \in DOMAIN logins  BY <1>1
    <2> QED
      BY <1>2, <1>6, <1>7, <2>1, <2>2, <2>3, <2>4, <2>5, <2>6, <2>7, <2>8, ConnSteps
  <1>8. \A i \in DOMAIN Script(p) : Script(p)[i].do = "register" =>
          conn'[p][Script(p)[i].as].login \in {conn[p][Script(p)[i].as].login, None}
    BY <1>1
  <1>9. CASE /\ conn[p][a].login = None /\ conn[p][a].pending /\ Enter(p, t, 0)
    <2>1. /\ inside' \in [Process -> [Thread -> InsideRecord]]
          /\ inside'[p][t] = [step |-> "login", suspended |-> 0]
          /\ \A u \in Thread : u # t => inside'[p][u] = inside[p][u]
          /\ \A q \in Process \ {p} : inside'[q] = inside[q]
          /\ repeats' \in [Process -> Nat] /\ repeats[p] <= repeats'[p]
          /\ \A q \in Process \ {p} : repeats'[q] = repeats[q]
          /\ Due(p, t) = 0 /\ Due(p, t)' = 1
          /\ \A u \in Thread : u # t => Due(p, u)' = Due(p, u)
          /\ At(p).do = "register" => repeats'[p] = repeats[p] + Len(relogin(p).registers)
      BY <1>1, <1>5, <1>9, Enters
    <2>2. HistoryMoves(p)
      BY <1>1, <2>1 DEF HistoryMoves, IInv, ProcessTypes
    <2>3. NilInv(p)'
      BY <1>2, <2>1 DEF NilInv, Relogs
    <2>4. /\ Due(p, "main") \in Nat /\ Due(p, "other") \in Nat
          /\ Due(p, "main")' \in Nat /\ Due(p, "other")' \in Nat
          /\ repeats[p] \in Nat /\ repeats'[p] \in Nat
          /\ Due(p, "main")' + Due(p, "other")' = Due(p, "main") + Due(p, "other") + 1
      <3>1. Due(p, "main") \in Nat /\ Due(p, "other") \in Nat /\ repeats[p] \in Nat
        BY Numbers DEF Thread
      <3>2. CASE t = "main"  BY <2>1, <3>1, <3>2 DEF Thread
      <3>3. CASE t = "other"  BY <2>1, <3>1, <3>3 DEF Thread
      <3> QED  BY <3>2, <3>3 DEF Thread
    <2>5. CASE relogin(p).registers = <<>> \/ At(p).do = "register"
      <3>1. relogin(p).registers # <<>> =>
              Due(p, "main")' + Due(p, "other")' + repeats[p]
                <= Due(p, "main") + Due(p, "other") + repeats'[p]
        <4>1. relogin(p).registers # <<>> => repeats'[p] = repeats[p] + 1
          BY <2>1, <2>5, ThreeStatements
        <4> QED  BY <2>4, <4>1
      <3>2. CountInv(p)'
        BY <1>1, <1>2, <1>8, <2>1, <2>4, <3>1, CountLess
      <3> QED  BY <1>7, <2>1, <2>2, <2>3, <3>2
    <2>6. CASE relogin(p).registers # <<>> /\ At(p).do # "register"
      <3>1. pc[p] = 3 /\ At(p).do = "serve"
        BY <1>3, <2>6, ThreeStatements DEF At
      <3>2. inside[p]["main"] = Outside /\ t = "other"
        BY <1>3, <1>5, <3>1 DEF ThreadInv, Thread
      <3>3. Due(p, "main")' = 0 /\ Due(p, "other")' = 1
        BY <2>1, <3>2 DEF Due, Outside, Thread
      <3>4. ASSUME NEW i \in DOMAIN Script(p), Script(p)[i].do = "register"
            PROVE  Made(p, i)' = 0 /\ Past(p, i)'
        <4>1. i = 2 /\ Script(p)[i].as = a
          BY <2>6, <3>4, ThreeStatements
        <4>2. Past(p, i)'  BY <1>2, <3>1, <4>1 DEF Past
        <4>3. conn'[p][Script(p)[i].as].login = None
          BY <1>1, <1>9, <4>1
        <4> QED  BY <1>4, <4>2, <4>3 DEF Made
      <3>5. CountInv(p)'
        BY <1>4, <2>4, <3>3, <3>4 DEF CountInv
      <3> QED  BY <1>7, <2>1, <2>2, <2>3, <3>5
    <2> QED  BY <2>5, <2>6
  <1>10. CASE /\ ~(conn[p][a].login = None /\ conn[p][a].pending)
              /\ inside' = [inside EXCEPT ![p][t] = Outside] /\ UNCHANGED repeats
    <2>1. Outside \in InsideRecord  BY DEF InsideRecord, Outside, Steps
    <2>2. /\ inside' \in [Process -> [Thread -> InsideRecord]]
          /\ inside'[p][t] = Outside
          /\ \A u \in Thread : u # t => inside'[p][u] = inside[p][u]
          /\ \A q \in Process \ {p} : inside'[q] = inside[q]
      BY ZenonT(40), <1>10, <2>1, OneThread
    <2>3. HistoryMoves(p)  BY <1>1, <1>10, SameHistory
    <2>4. NilInv(p)'
      <3>1. conn[p][a].login # None => conn[p][a].registry
        BY DEF IInv, LoginInv
      <3>2. ~conn[p][a].registry /\ Relogs(p) => Relogs(p)'
        BY <1>1, <1>4, <1>10, <2>2, <3>1 DEF Relogs
      <3> QED  BY <1>1, <1>2, <1>4, <1>5, <3>2 DEF NilInv
    <2>5. \A u \in Thread : Due(p, u)' = Due(p, u)
      BY <1>1, <1>5, <2>2 DEF Due, Outside
    <2>6. CountInv(p)'
      BY <1>1, <1>2, <1>8, <1>10, <2>5, CountLess, Numbers DEF Thread
    <2> QED  BY <1>7, <2>1, <2>2, <2>3, <2>4, <2>6 DEF Outside
  <1> QED  BY <1>9, <1>10 DEF Resends

\* The callback has made its offer, or has not, and returns.
LEMMA CallbackReturns ==
  ASSUME IInv, NEW p \in Process, NEW t \in Thread, Running(p),
         inside[p][t].step \in {"register", "resend"},
         NEW l, l = conn[p][relogin(p).as].login, Valid(l),
         LeaveCallback(p, t), UNCHANGED <<play, mainVars, conn, logins, secrets, file,
                                          works, repeats, calls>>,
         faults' = faults \/ Fault,
         \/ UNCHANGED <<offers, unoffered>>
         \/ /\ Offer(l, Head(relogin(p).registers))
            /\ unoffered' \in {unoffered, unoffered \ {p}}
  PROVE  IInv'
  <1>1. /\ Moves(p) /\ pc'[p] = pc[p] /\ Onward(p) /\ status'[p] # "crashed" /\ ~Leaves(p)
    BY StaysMoves DEF mainVars, MainVars
  <1>2. /\ HasCallback(p) /\ inside[p][t] # Outside /\ Entities(p) = {relogin(p).as}
        /\ relogin(p).registers # <<>> /\ relogin(p).again = {}
    BY CallbackFacts
  <1>3. /\ DOMAIN Script(p) = 1..3 /\ Script(p)[2].do = "register"
        /\ \A i \in DOMAIN Script(p) : Script(p)[i].do = "register" <=> i = 2
        /\ Script(p)[2].as = relogin(p).as
        /\ Script(p)[2].service = Head(relogin(p).registers)
    BY <1>2, ThreeStatements
  <1>4. /\ inside' \in [Process -> [Thread -> InsideRecord]]
        /\ inside'[p][t] = IF inside[p][t].suspended = 0 THEN Outside
              ELSE [step |-> "resend", suspended |-> inside[p][t].suspended - 1]
        /\ \A u \in Thread : u # t => inside'[p][u] = inside[p][u]
        /\ \A q \in Process \ {p} : inside'[q] = inside[q]
        /\ Due(p, t) = Due(p, t)' + 1 /\ Due(p, t)' \in Nat
        /\ \A u \in Thread : u # t => Due(p, u)' = Due(p, u)
    BY LeavesCallback
  <1>5. Due(p, "main")' + Due(p, "other")' + 1 = Due(p, "main") + Due(p, "other")
    <2>1. Due(p, "main") \in Nat /\ Due(p, "other") \in Nat  BY Numbers DEF Thread
    <2>2. CASE t = "main"  BY <1>4, <2>1, <2>2 DEF Thread
    <2>3. CASE t = "other"  BY <1>4, <2>1, <2>3 DEF Thread
    <2> QED  BY <2>2, <2>3 DEF Thread
  <1>6. HistoryMoves(p)  BY SameHistory
  <1>7. ThreadInv(p)'
    BY <1>1, <1>2, <1>4, CallbackThreads
  <1>8. SuspendInv(p)'
    <2>1. relogin(p)' = relogin(p)  BY SamePlay
    <2>2. ~Lost(conn[p][relogin(p).as])'
      BY <2>1 DEF Lost, Valid
    <2>3. inside[p][t].suspended \in Nat  BY DEF IInv, ProcessTypes, InsideRecord
    <2>4. /\ inside'[p][t].suspended <= inside[p][t].suspended
          /\ inside'[p][t].step = "outside" => inside'[p][t] = Outside
          /\ inside'[p][t].step # "recorded"
      BY <1>4, <2>3 DEF Outside
    <2> QED  BY <1>4, <2>2, <2>4, CallbackSuspends
  <1>9. NilInv(p)'
    BY <1>2, SamePlay DEF NilInv
  <1>10. /\ DOMAIN conn' = Process /\ conn'[p] \in [Entities(p) -> ConnRecord]
         /\ \A q \in Process : conn'[q] = conn[q]
         /\ UNCHANGED <<peer, works, calls>>
    BY DEF IInv, ProcessTypes, mainVars
  <1>11. CASE UNCHANGED <<offers, unoffered>>
    <2>1. BusGrows  BY <1>11, BusStays
    <2>2. OfferInv(p)'  BY <1>1, <1>11, <2>1, OfferKept
    <2>3. Due(p, "main")' + Due(p, "other")' + repeats[p]
            <= Due(p, "main") + Due(p, "other") + repeats'[p]
      <3>1. Due(p, "main")' \in Nat /\ Due(p, "other")' \in Nat /\ repeats[p] \in Nat
        BY <1>4, Numbers DEF Thread
      <3> QED  BY <1>5, <3>1
    <2>4. unoffered' \subseteq Process  BY <1>11 DEF IInv, ProcessTypes
    <2> QED
      BY <1>1, <1>4, <1>6, <1>7, <1>8, <1>9, <1>10, <1>11, <2>2, <2>3, <2>4, QuietSteps
         DEF ThreadsKept, NewLogins
  <1>12. CASE /\ Offer(l, Head(relogin(p).registers))
              /\ unoffered' \in {unoffered, unoffered \ {p}}
    <2> SUFFICES ASSUME NEW s, s = Script(p)[2].service
                 PROVE  IInv'
      OBVIOUS
    <2>1. l # None /\ Offer(l, s) /\ l = conn[p][Script(p)[2].as].login
          /\ 2 \in DOMAIN Script(p)
      BY <1>3, <1>12 DEF Valid
    <2>2. /\ BusGrows /\ \A q \in Process \ {p} : NoOfferOf(q)
          /\ \A o \in DOMAIN offers' : offers'[o].login \in DOMAIN logins
          /\ OffersOf(l, s)' # {}
          /\ \A i \in DOMAIN Script(p) : Script(p)[i].do = "register" =>
               Made(p, i)' = Made(p, i) + (IF i = 2 THEN 1 ELSE 0)
      BY <1>3, <2>1, OfferCounted
    <2>3. BusTypes'
      BY <2>2, BusHasTypes
    <2>4. OfferInv(p)'
      <3>1. Script(p)' = Script(p)  BY SamePlay
      <3>2. \A i \in 1..(pc[p] - 1) : i \in DOMAIN Script(p)
        BY Numbers, ScriptFacts DEF IInv
      <3> QED  BY <1>1, <1>3, <2>1, <2>2, <3>1, <3>2 DEF OfferInv
    <2>5. CountInv(p)'
      <3>1. Script(p)' = Script(p) /\ relogin(p)' = relogin(p)  BY SamePlay
      <3>2. \A i \in DOMAIN Script(p) : Past(p, i)' <=> Past(p, i)
        BY DEF Past, mainVars
      <3>3. Made(p, 2)' = Made(p, 2) + 1  BY <1>3, <2>1, <2>2
      <3>4. Made(p, 2) + (IF Past(p, 2) THEN 0 ELSE 1)
              + (Due(p, "main") + Due(p, "other")) <= 1 + repeats[p]
        BY <1>2, <1>3, <2>1 DEF CountInv, IInv, ProcessInv
      <3>5. /\ Made(p, 2) \in Nat /\ repeats[p] \in Nat
            /\ Due(p, "main")' \in Nat /\ Due(p, "other")' \in Nat
        BY <1>4, Numbers DEF Thread
      <3>6. Made(p, 2)' + (IF Past(p, 2) THEN 0 ELSE 1)
              + (Due(p, "main")' + Due(p, "other")') <= 1 + repeats[p]
        BY <1>5, <3>3, <3>4, <3>5
      <3>7. repeats'[p] = repeats[p]  OBVIOUS
      <3>8. Past(p, 2)' <=> Past(p, 2)  BY <2>1, <3>2
      <3> SUFFICES Made(p, 2)' + (IF Past(p, 2)' THEN 0 ELSE 1)
                     + (Due(p, "main")' + Due(p, "other")') <= 1 + repeats'[p]
        BY <1>2, <1>3, <3>1 DEF CountInv
      <3> QED  BY <3>6, <3>7, <3>8
    <2>6. WorkInv(p)'
      BY <1>1, <1>6, <2>2, WorkMoves DEF HistoryMoves
    <2>7. unoffered' \subseteq Process
          /\ \A q \in Process \ {p} : q \in unoffered' <=> q \in unoffered
      BY <1>12 DEF IInv, ProcessTypes
    <2>8. \A e \in Entities(p) : conn'[p][e].login # None =>
            /\ conn'[p][e].login \in DOMAIN logins'
            /\ logins'[conn'[p][e].login].process = p
            /\ conn'[p][e].registry
      BY DEF IInv, LoginInv
    <2>9. \A q \in Process \ {p} :
            NoOfferOf(q) /\ ThreadsKept(q) /\ (q \in unoffered' <=> q \in unoffered)
      BY <1>4, <1>10, <2>2, <2>7 DEF ThreadsKept
    <2> QED
      BY <1>1, <1>4, <1>6, <1>7, <1>8, <1>9, <1>10, <2>2, <2>3, <2>4, <2>5, <2>6, <2>7,
         <2>8, <2>9, ConnSteps
  <1> QED  BY <1>11, <1>12

LEMMA CallbackRegisterFailsHolds ==
  ASSUME IInv, NEW p \in Process, NEW t \in Thread, Running(p), CallbackRegisterFails(p, t)
  PROVE  IInv'
  <1>1. inside[p][t].step = "register"
    BY DEF CallbackRegisterFails, InCallback
  <1> QED  BY <1>1, CallbackReturns DEF CallbackRegisterFails, historyVars

LEMMA CallbackRegistersHolds ==
  ASSUME IInv, NEW p \in Process, NEW t \in Thread, CallbackRegisters(p, t)
  PROVE  IInv'
  <1>1. /\ Running(p) /\ inside[p][t].step \in {"register", "resend"}
        /\ UNCHANGED <<play, peer, logins, secrets, file, faults, works, calls>>
    BY DEF CallbackRegisters, InCallback
  <1> SUFFICES ASSUME NEW a \in Entities(p), a = relogin(p).as, NEW c, c = conn[p][a]
               PROVE  IInv'
    BY <1>1, CallbackFacts
  <1>2. /\ HasCallback(p) /\ inside[p][t] # Outside /\ Entities(p) = {a}
        /\ relogin(p).registers # <<>> /\ relogin(p).again = {}
    BY <1>1, CallbackFacts
  <1>3. NilInv(p)'
    BY <1>1, <1>2, SamePlay DEF NilInv
  <1>4. /\ ThreadInv(p) /\ SuspendInv(p) /\ inside[p][t].suspended \in Nat
        /\ faults \in Nat /\ faults' = faults
    BY <1>1 DEF IInv, ProcessInv, ProcessTypes, InsideRecord, BusTypes
  <1>5. relogin(p)' = relogin(p)  BY <1>1, SamePlay
  <1>6. CASE /\ Ends(p, "crashed")
             /\ UNCHANGED <<pc, reference, found, facet, conn, inside, offers,
                            repeats, unoffered>>
    BY <1>1, <1>3, <1>6, EndHolds DEF historyVars
  <1>7. CASE /\ Valid(c.login) /\ Offer(c.login, Head(relogin(p).registers))
             /\ unoffered' = unoffered \ {p} /\ LeaveCallback(p, t)
             /\ UNCHANGED <<pc, status, reference, found, facet, conn, repeats>>
    BY <1>1, <1>7, CallbackReturns DEF mainVars
  <1>8. CASE /\ c.login = None /\ ~c.pending /\ GiveUp(p, t)
             /\ UNCHANGED <<conn, offers, repeats, unoffered>>
    <2>1. /\ Moves(p) /\ pc'[p] = pc[p] /\ Onward(p) /\ status'[p] # "crashed"
          /\ Leaves(p) => Unfinished(At(p))
          /\ inside' \in [Process -> [Thread -> InsideRecord]]
          /\ inside'[p][t] = Outside
          /\ \A u \in Thread : u # t => inside'[p][u] = inside[p][u]
          /\ \A q \in Process \ {p} : inside'[q] = inside[q]
          /\ Due(p, t)' = 0
          /\ \A u \in Thread : u # t => Due(p, u)' = Due(p, u)
          /\ Due(p, "main")' + Due(p, "other")' <= Due(p, "main") + Due(p, "other")
      BY <1>1, <1>8, GivesUp
    <2>2. HistoryMoves(p)  BY <1>1, <1>8, SameHistory
    <2>3. ThreadInv(p)'
      BY <1>1, <1>2, <2>1, CallbackThreads
    <2>4. SuspendInv(p)'
      <3>1. Lost(conn[p][relogin(p).as]) /\ inside'[p][t].step = "outside"
        BY <1>8, <2>1 DEF Lost, Outside
      <3>2. inside'[p][t].suspended <= inside[p][t].suspended
        BY <1>4, <2>1 DEF Outside
      <3> QED  BY <1>1, <2>1, <3>1, <3>2, CallbackSuspends
    <2>5. OfferInv(p)'
      <3>1. BusGrows  BY <1>1, <1>8, BusStays
      <3> QED  BY <1>8, <2>1, <3>1, OfferKept
    <2>6. Due(p, "main")' + Due(p, "other")' + repeats[p]
            <= Due(p, "main") + Due(p, "other") + repeats'[p]
      <3>1. /\ Due(p, "main") \in Nat /\ Due(p, "other") \in Nat /\ repeats[p] \in Nat
            /\ repeats'[p] = repeats[p]
        BY <1>8, Numbers DEF Thread
      <3>2. Due(p, "main")' \in Nat /\ Due(p, "other")' \in Nat
        BY <2>1, Numbers DEF Thread
      <3> QED  BY <2>1, <3>1, <3>2
    <2>7. /\ DOMAIN conn' = Process /\ conn'[p] \in [Entities(p) -> ConnRecord]
          /\ unoffered' \subseteq Process
      BY <1>8 DEF IInv, ProcessTypes
    <2> QED
      BY <1>1, <1>3, <1>8, <2>1, <2>2, <2>3, <2>4, <2>5, <2>6, <2>7, QuietSteps
         DEF ThreadsKept, NewLogins
  <1>9. ASSUME ~Valid(c.login), UNCHANGED <<pc, status, reference, found, facet, offers>>,
               \/ Logout(p, a) /\ Forget(p)
               \/ UNCHANGED <<conn, unoffered>>,
               NEW step \in {"dropped", "login"},
               NEW r, r = [step |-> step, suspended |-> inside[p][t].suspended + 1],
               inside' = [inside EXCEPT ![p][t] = r],
               repeats' \in [Process -> Nat],
               repeats'[p] = repeats[p] + (IF step = "login" THEN 1 ELSE 0),
               \A q \in Process \ {p} : repeats'[q] = repeats[q]
        PROVE  IInv'
    <2>1. /\ Moves(p) /\ pc'[p] = pc[p] /\ Onward(p) /\ status'[p] # "crashed"
          /\ ~Leaves(p)
      BY <1>1, <1>9, StaysMoves DEF MainVars
    <2>2. /\ DOMAIN conn' = Process /\ conn'[p] \in [Entities(p) -> ConnRecord]
          /\ \A f \in Entities(p) : conn'[p][f].login # None => conn'[p][f] = conn[p][f]
          /\ \A q \in Process \ {p} :
               conn'[q] = conn[q] /\ (q \in unoffered' <=> q \in unoffered)
          /\ unoffered' \subseteq Process
          /\ OfferInv(p)'
      <3>1. CASE Logout(p, a) /\ Forget(p)
        BY <1>1, <2>1, <3>1, LoggedOut
      <3>2. CASE UNCHANGED <<conn, unoffered>>
        <4>1. BusGrows  BY <1>1, <1>9, BusStays
        <4>2. OfferInv(p)'  BY <2>1, <3>2, <4>1, OfferKept
        <4> QED  BY <3>2, <4>2 DEF IInv, ProcessTypes
      <3> QED  BY <1>9, <3>1, <3>2
    <2>3. Lost(conn[p][relogin(p).as])
      BY <1>9 DEF Lost, Valid
    <2>4. inside[p][t].suspended + 1 <= faults
      BY <1>1, <1>4, <2>3 DEF SuspendInv
    <2>5. r \in InsideRecord /\ r.step = step /\ r.suspended = inside[p][t].suspended + 1
      BY <1>4, <1>9 DEF InsideRecord, Steps
    <2>6. /\ inside' \in [Process -> [Thread -> InsideRecord]]
          /\ inside'[p][t] = r
          /\ \A u \in Thread : u # t => inside'[p][u] = inside[p][u]
          /\ \A q \in Process \ {p} : inside'[q] = inside[q]
      BY ZenonT(40), <1>9, <2>5, OneThread
    <2>7. repeats[p] \in Nat /\ repeats[p] <= repeats'[p]
      BY <1>9 DEF IInv, ProcessTypes
    <2>8. HistoryMoves(p)
      BY <1>1, <1>9, <2>7 DEF HistoryMoves, IInv, ProcessTypes
    <2>9. /\ Due(p, t)' = Due(p, t) + (IF step = "login" THEN 1 ELSE 0)
          /\ \A u \in Thread : u # t => Due(p, u)' = Due(p, u)
      <3>1. Due(p, t) = inside[p][t].suspended + 1
        BY <1>1 DEF Due
      <3>2. Due(p, t)' = inside[p][t].suspended + 1 + (IF step = "login" THEN 1 ELSE 0)
        BY <1>4, <1>9, <2>5, <2>6 DEF Due
      <3> QED  BY <2>6, <3>1, <3>2 DEF Due
    <2>10. Due(p, "main")' + Due(p, "other")' + repeats[p]
             <= Due(p, "main") + Due(p, "other") + repeats'[p]
      <3>1. Due(p, "main") \in Nat /\ Due(p, "other") \in Nat
        BY Numbers DEF Thread
      <3>2. PICK n \in {0, 1} : n = IF step = "login" THEN 1 ELSE 0
        OBVIOUS
      <3>3. Due(p, t)' = Due(p, t) + n /\ repeats'[p] = repeats[p] + n
        BY <1>9, <2>9, <3>2
      <3>4. CASE t = "main"  BY <2>7, <2>9, <3>1, <3>3, <3>4 DEF Thread
      <3>5. CASE t = "other"  BY <2>7, <2>9, <3>1, <3>3, <3>5 DEF Thread
      <3> QED  BY <3>4, <3>5 DEF Thread
    <2>11. ThreadInv(p)'
      BY <1>1, <1>2, <2>1, <2>6, CallbackThreads
    <2>12. SuspendInv(p)'
      BY <1>1, <2>3, <2>4, <2>5, <2>6, CallbackSuspends
    <2> QED
      BY <1>1, <1>3, <1>9, <2>1, <2>2, <2>6, <2>8, <2>10, <2>11, <2>12, QuietSteps
         DEF ThreadsKept, NewLogins
  <1>10. CASE /\ c.login # None /\ ~Valid(c.login)
              /\ Logout(p, a) /\ Forget(p)
              /\ Dropping(p, t, inside[p][t].suspended + 1) /\ UNCHANGED repeats
              /\ UNCHANGED <<pc, status, reference, found, facet, offers>>
    <2>1. repeats' \in [Process -> Nat] /\ repeats'[p] = repeats[p] + 0
      BY <1>10 DEF IInv, ProcessTypes
    <2> QED  BY <1>9, <1>10, <2>1 DEF Dropping
  <1>11. CASE /\ c.login = None /\ UNCHANGED <<conn, unoffered>>
              /\ inside' = [inside EXCEPT ![p][t] =
                   [step |-> "login", suspended |-> @.suspended + 1]]
              /\ Repeats(p, 1)
              /\ UNCHANGED <<pc, status, reference, found, facet, offers>>
    <2>1. ~Valid(c.login)  BY <1>11 DEF Valid
    <2>2. /\ repeats' \in [Process -> Nat] /\ repeats'[p] = repeats[p] + 1
          /\ \A q \in Process \ {p} : repeats'[q] = repeats[q]
      BY <1>11 DEF IInv, ProcessTypes, Repeats
    <2>3. inside' = [inside EXCEPT ![p][t] =
            [step |-> "login", suspended |-> inside[p][t].suspended + 1]]
      BY <1>11 DEF IInv, ProcessTypes
    <2> QED  BY <1>9, <1>11, <2>1, <2>2, <2>3
  <1> QED  BY <1>6, <1>7, <1>8, <1>10, <1>11 DEF CallbackRegisters
-----------------------------------------------------------------------------
(* Logins that end.                                                          *)
LEMMA LoginsEnd ==
  ASSUME IInv, NEW L \in SUBSET DOMAIN logins,
         logins' = [l \in DOMAIN logins |->
                     [logins[l] EXCEPT !.valid = @ /\ l \notin L]],
         faults' = faults \/ Fault, faults' = faults + 1 \/ \A l \in L : ~Held(l),
         UNCHANGED <<play, mainVars, conn, inside, offers, secrets, file, historyVars>>
  PROVE  IInv'
  <1> USE DEF mainVars, historyVars
  <1>1. logins \in Seq(LoginRecord) /\ offers \in Seq(OfferRecord) /\ faults \in Nat
    BY DEF IInv, BusTypes
  <1>2. \A l \in DOMAIN logins : logins[l] \in LoginRecord
    BY <1>1
  <1>3. DOMAIN logins' = DOMAIN logins
    OBVIOUS
  <1>4. \A l \in DOMAIN logins :
          /\ logins'[l].process = logins[l].process /\ logins'[l].process \in Process
          /\ logins'[l].entity = logins[l].entity /\ logins'[l].entity \in Entity
          /\ logins'[l].valid <=> logins[l].valid /\ l \notin L
          /\ logins'[l] \in LoginRecord
    BY <1>2 DEF LoginRecord
  <1>5. logins' \in Seq(LoginRecord)
    <2>1. Len(logins) \in Nat /\ DOMAIN logins = 1..Len(logins)  BY <1>1
    <2>2. logins' \in [1..Len(logins) -> LoginRecord]  BY <1>4, <2>1
    <2> QED  BY <2>1, <2>2, SeqDef
  <1>6. BusGrows
    <2>1. faults' \in {faults, faults + 1} /\ play' = play /\ offers' = offers
      BY DEF Fault
    <2>2. \A l \in DOMAIN logins :
            /\ logins'[l].valid => logins[l].valid
            /\ logins[l].valid /\ ~logins'[l].valid => faults' = faults + 1 \/ ~Held(l)
      BY <1>4
    <2> QED  BY <1>1, <1>3, <1>4, <1>5, <2>1, <2>2 DEF BusGrows
  <1>7. \A q \in Process : NoOfferOf(q) /\ Kept(q)
    BY DEF NoOfferOf, Kept, MainKept, ThreadsKept, HistoryKept
  <1>8. \A q \in Process : ProcessInv(q)'
    BY <1>6, <1>7, ProcessKept
  <1>9. BusTypes'
    BY <1>3, <1>6, BusHasTypes DEF IInv, BusTypes
  <1>10. /\ Process' = Process
         /\ \A q : Script(q)' = Script(q) /\ Entities(q)' = Entities(q)
                   /\ servant(q)' = servant(q)
    BY SamePlay
  <1>11. ProcessTypes'
    BY <1>10 DEF IInv, ProcessTypes
  <1>12. LoginInv'
    <2>1. LoginInv  BY DEF IInv
    <2>2. \A l \in DOMAIN logins' : LET q == logins'[l].process IN
            servant(q).kind # "none" => logins'[l].entity \in Entities(q)
      BY ZenonT(40), <1>3, <1>4, <2>1 DEF LoginInv
    <2>3. \A q \in Process : \A e \in Entities(q) : conn[q][e].login # None =>
            /\ conn[q][e].login \in DOMAIN logins'
            /\ logins'[conn[q][e].login].process = q
            /\ conn[q][e].registry
      BY <1>3, <1>4, <2>1 DEF LoginInv
    <2>4. Process' = Process /\ conn' = conn  BY <1>10
    <2>5. \A q : servant(q)' = servant(q) /\ Entities(q)' = Entities(q)
      BY <1>10
    <2> QED  BY <2>2, <2>3, <2>4, <2>5 DEF LoginInv
  <1>13. OnlyThroughSecretary'
    BY DEF IInv, OnlyThroughSecretary
  <1> QED  BY <1>8, <1>9, <1>10, <1>11, <1>12, <1>13 DEF IInv

LEMMA LapseHolds ==
  ASSUME IInv, NEW p, Lapse(p)
  PROVE  IInv'
  BY LoginsEnd DEF Lapse

LEMMA InvalidateHolds ==
  ASSUME IInv, NEW l \in DOMAIN logins, Invalidate(l)
  PROVE  IInv'
  <1>1. logins \in Seq(LoginRecord)  BY DEF IInv, BusTypes
  <1>2. \A m \in DOMAIN logins : logins[m] \in LoginRecord  BY <1>1
  <1>3. logins' = [m \in DOMAIN logins |->
                    [logins[m] EXCEPT !.valid = @ /\ m \notin {l}]]
    <2>1. logins' = [logins EXCEPT ![l].valid = FALSE]  BY DEF Invalidate
    <2>2. \A m \in DOMAIN logins :
            logins'[m] = [logins[m] EXCEPT !.valid = logins[m].valid /\ m \notin {l}]
      BY <1>2, <2>1 DEF LoginRecord
    <2>3. DOMAIN logins' = DOMAIN logins /\ logins' = [m \in DOMAIN logins |-> logins'[m]]
      BY <1>1, <2>1
    <2> QED  BY <2>2, <2>3
  <1>4. {l} \in SUBSET DOMAIN logins /\ Fault /\ faults' = faults + 1
    BY DEF Invalidate, Fault
  <1>5. UNCHANGED <<play, mainVars, conn, inside, offers, secrets, file, historyVars>>
    BY DEF Invalidate
  <1> QED  BY <1>3, <1>4, <1>5, LoginsEnd
-----------------------------------------------------------------------------
(* The invariant holds at first and is kept by every step.                   *)
LEMMA InitHolds == Init => IInv
  <1> SUFFICES ASSUME Init PROVE IInv
    OBVIOUS
  <1> USE DEF Init
  <1>1. MaxFaults[play] \in Nat  BY ServicesAssumption
  <1>2. BusTypes
    BY <1>1 DEF BusTypes
  <1>3. \A p \in Process :
          /\ Len(Script(p)) \in Nat \ {0} /\ DOMAIN Script(p) = 1..Len(Script(p))
          /\ 1 \in DOMAIN Script(p)
          /\ \A i \in DOMAIN Script(p) : GoodStatement(Script(p)[i], Entities(p))
          /\ HasCallback(p) => relogin(p).as \in Entities(p)
    BY <1>2, ScriptFacts, ReloginFacts
  <1>4. \A p \in Process : \A e \in Entities(p) :
          conn[p][e] = NoConn /\ conn[p][e].login = None
    BY DEF NoConn
  <1>5. ProcessTypes
    <2>1. /\ NotFound \in FoundRecord /\ Outside \in InsideRecord /\ NoConn \in ConnRecord
          /\ None \in Nat
      BY DEF NotFound, FoundRecord, Outside, InsideRecord, Steps, NoConn, ConnRecord, None
    <2>2. ASSUME NEW p \in Process
          PROVE  works[p] \in Seq(Nat) /\ Len(works[p]) = Len(Script(p))
      <3>1. works[p] = [i \in 1..Len(Script(p)) |-> 0]  BY <1>3
      <3>2. works[p] \in [1..Len(Script(p)) -> Nat]  BY <3>1
      <3>3. works[p] \in Seq(Nat)  BY <1>3, <3>2, SeqDef
      <3> QED  BY <1>3, <3>1, <3>3
    <2>3. works \in [Process -> Seq(Nat)]
      BY <2>2
    <2>4. /\ pc \in [Process -> Nat] /\ status \in [Process -> Statuses]
          /\ reference \in [Process -> BOOLEAN] /\ found \in [Process -> FoundRecord]
          /\ facet \in [Process -> Nat] /\ peer \in [Process -> Nat]
          /\ inside \in [Process -> [Thread -> InsideRecord]]
          /\ repeats \in [Process -> Nat] /\ unoffered \subseteq Process
          /\ DOMAIN conn = Process
      BY <2>1 DEF Statuses
    <2>5. \A p \in Process : pc[p] \in DOMAIN Script(p) /\ conn[p] \in [Entities(p) -> ConnRecord]
      BY <1>3, <2>1
    <2> QED  BY <2>2, <2>3, <2>4, <2>5 DEF ProcessTypes
  <1>6. LoginInv
    BY <1>4 DEF LoginInv
  <1>7. OnlyThroughSecretary  BY DEF OnlyThroughSecretary
  <1>8. ASSUME NEW p \in Process
        PROVE  ProcessInv(p)
    <2>1. FoundInv(p)  BY DEF FoundInv, NotFound
    <2>2. \A t \in Thread : inside[p][t] = Outside  OBVIOUS
    <2>3. ThreadInv(p)  BY <1>3, <1>4, <2>2 DEF ThreadInv, ReloginSteps, Outside, Thread
    <2>4. SuspendInv(p)  BY <2>2 DEF SuspendInv, Outside
    <2>5. NilInv(p)  BY DEF NilInv
    <2>6. OfferInv(p)  BY DEF OfferInv
    <2>7. \A i : ~Past(p, i) \/ i < 1  BY DEF Past
    <2>8. CountInv(p)
      <3>1. Due(p, "main") = 0 /\ Due(p, "other") = 0  BY <2>2 DEF Due, Outside, Thread
      <3>2. \A i \in DOMAIN Script(p) : Script(p)[i].do = "register" => Made(p, i) = 0
        BY <1>3, <1>4 DEF Made, GoodStatement
      <3>3. repeats[p] = 0  OBVIOUS
      <3> QED  BY <3>1, <3>2, <3>3 DEF CountInv
    <2>9. WorkInv(p)
      <3>1. \A i \in DOMAIN Script(p) : works[p][i] = 0 /\ ~Past(p, i)
        BY <1>3, <2>7
      <3> QED  BY <3>1 DEF WorkInv
    <2> QED  BY <2>1, <2>3, <2>4, <2>5, <2>6, <2>8, <2>9 DEF ProcessInv
  <1> QED  BY <1>2, <1>5, <1>6, <1>7, <1>8 DEF IInv

LEMMA StutterHolds ==
  ASSUME IInv, UNCHANGED vars
  PROVE  IInv'
  <1> USE DEF vars, mainVars, busVars, historyVars
  <1>1. BusGrows /\ \A q : NoOfferOf(q)
    BY BusStays
  <1>2. \A q \in Process : Kept(q)
    BY DEF Kept, MainKept, ThreadsKept, HistoryKept
  <1>3. \A q \in Process : ProcessInv(q)'
    BY <1>1, <1>2, ProcessKept
  <1>4. BusTypes'
    BY <1>1, BusHasTypes DEF IInv, BusTypes
  <1>5. /\ Process' = Process
        /\ \A q : Script(q)' = Script(q) /\ Entities(q)' = Entities(q)
                  /\ servant(q)' = servant(q)
    BY SamePlay
  <1>6. ProcessTypes'
    BY <1>5 DEF IInv, ProcessTypes
  <1>7. LoginInv'
    BY <1>5 DEF IInv, LoginInv
  <1>8. OnlyThroughSecretary'
    BY DEF IInv, OnlyThroughSecretary
  <1> QED  BY <1>3, <1>4, <1>5, <1>6, <1>7, <1>8 DEF IInv

LEMMA MainStepHolds ==
  ASSUME IInv, NEW p \in Process, MainStep(p)
  PROVE  IInv'
  BY DoLoginHolds, loginBySharedAuthHolds, NilReferenceHolds, RefusedHolds,
     DoRegisterHolds, FindServicesHolds, ShareSecretHolds, GetFacetHolds, DoCallHolds,
     GetFacetFailsHolds, CallFailsHolds DEF MainStep

LEMMA RemoteFailsHolds ==
  ASSUME IInv, NEW p \in Process, RemoteFails(p)
  PROVE  IInv'
  BY LoginFailsHolds, LoginBySharedAuthFailsHolds, RegisterFailsHolds, ShareFailsHolds,
     GetFacetFailsHolds, CallFailsHolds, FindFailsHolds, CallbackLoginFailsHolds
     DEF RemoteFails

LEMMA NextHolds == IInv /\ [Next]_vars => IInv'
  <1> SUFFICES ASSUME IInv, [Next]_vars PROVE IInv'
    OBVIOUS
  <1>1. ASSUME NEW p \in Process, Running(p), MainStep(p)  PROVE IInv'
    BY <1>1, MainStepHolds
  <1>2. ASSUME NEW p \in Process, Running(p), NEW t \in Thread,
               CallbackStep(p, t) \/ CallbackRegisterFails(p, t)
        PROVE  IInv'
    BY <1>2, RecordsHolds, ResendsHolds, CallbackLoginHolds, CallbackRegistersHolds,
       CallbackRegisterFailsHolds DEF CallbackStep
  <1>3. ASSUME NEW p \in Process, NEW e \in DOMAIN conn[p], OtherFinds(p, e)  PROVE IInv'
    BY <1>3, OtherFindsHolds
  <1>4. ASSUME NEW p \in Process, RemoteFails(p)  PROVE IInv'
    BY <1>4, RemoteFailsHolds
  <1>5. ASSUME NEW p \in Process, Kill(p)  PROVE IInv'
    BY <1>5, KillHolds
  <1>6. ASSUME NEW p \in Process, Lapse(p)  PROVE IInv'
    BY <1>6, LapseHolds
  <1>7. ASSUME NEW l \in DOMAIN logins, Invalidate(l)  PROVE IInv'
    BY <1>7, InvalidateHolds
  <1>8. CASE UNCHANGED vars
    BY <1>8, StutterHolds
  <1> QED  BY <1>1, <1>2, <1>3, <1>4, <1>5, <1>6, <1>7, <1>8 DEF Next

\* The inductive invariant of the programs: their logins, the requests suspended in
\* callbacks, what they offered and what they called, by the statement main is at
\* (main, its loops and the callback of onInvalidLogin in src/demo and src/interop).
THEOREM ProgramsInOrder == Spec => []IInv
  BY InitHolds, NextHolds, PTL DEF Spec

\* Every variable keeps its type, and no thread has more requests suspended than
\* there were faults (the callback that registers, of simple/server.cpp).
THEOREM TypeCorrect == Spec => []TypeOK
  <1>1. IInv => TypeOK
    <2> SUFFICES ASSUME IInv PROVE TypeOK
      OBVIOUS
    <2>1. faults \in Nat /\ faults <= MaxFaults[play] /\ MaxFaults[play] \in Nat
      BY ServicesAssumption DEF IInv, BusTypes
    <2>2. ASSUME NEW p \in Process
          PROVE  /\ pc[p] \in DOMAIN Script(p)
                 /\ \A e \in Entities(p) :
                      /\ conn[p][e].login \in {None} \cup DOMAIN logins
                      /\ {conn[p][e].registry, conn[p][e].pending} \subseteq BOOLEAN
                 /\ facet[p] # None => facet[p] = Head(found[p].offers)
                 /\ peer[p] \in {None} \cup DOMAIN offers
                 /\ \A t \in Thread :
                      /\ inside[p][t].step \in Steps
                      /\ inside[p][t].suspended \in 0..MaxFaults[play]
      <3>1. FoundInv(p) /\ SuspendInv(p)  BY DEF IInv, ProcessInv
      <3>2. \A t \in Thread :
              /\ inside[p][t].step \in Steps
              /\ inside[p][t].suspended \in 0..MaxFaults[play]
        BY <2>1, <3>1 DEF SuspendInv, IInv, ProcessTypes, InsideRecord
      <3>3. \A e \in Entities(p) :
              /\ conn[p][e].login \in {None} \cup DOMAIN logins
              /\ {conn[p][e].registry, conn[p][e].pending} \subseteq BOOLEAN
        BY DEF IInv, LoginInv, ProcessTypes, ConnRecord
      <3> QED  BY <3>1, <3>2, <3>3 DEF FoundInv, IInv, ProcessTypes
    <2> QED  BY <2>2 DEF TypeOK, IInv, ProcessTypes, BusTypes, Statuses, Steps
  <1> QED  BY <1>1, ProgramsInOrder, PTL

\* A program that has come to serve calls offers each of its services, unless it
\* lost the login of the offers: main and registerService of the servers, the
\* callback of simple/server.cpp.
THEOREM ServingIsOfferedHolds == Spec => []ServingIsOffered
  <1>1. IInv => ServingIsOffered
    <2> SUFFICES ASSUME IInv, NEW p \in Process, Serving(p), p \notin unoffered,
                        NEW r \in Registers(p), Valid(conn[p][r.as].login)
                 PROVE  OffersOf(conn[p][r.as].login, r.service) # {}
      BY DEF ServingIsOffered
    <2>1. PICK i \in DOMAIN Script(p) : Script(p)[i].do = "register" /\ r = Script(p)[i]
      BY DEF Registers
    <2>2. pc[p] = Len(Script(p)) /\ i # pc[p] /\ i \in 1..Len(Script(p))
      BY <2>1, AtFacts, ScriptFacts DEF Serving, At, IInv
    <2>3. i \in 1..(pc[p] - 1)
      BY <2>2, Numbers
    <2> QED  BY <2>1, <2>3 DEF IInv, ProcessInv, OfferInv
  <1> QED  BY <1>1, ProgramsInOrder, PTL

\* A program offers a service once, but for an answer that was lost and for a
\* registration suspended while the callback made it too (simple/server.cpp).
THEOREM NoSpareOffersHolds == Spec => []NoSpareOffers
  <1>1. IInv => NoSpareOffers
    <2> SUFFICES ASSUME IInv, NEW p \in Process, NEW r \in Registers(p),
                        conn[p][r.as].login # None
                 PROVE  Cardinality(OffersOf(conn[p][r.as].login, r.service))
                          <= 1 + repeats[p]
      BY DEF NoSpareOffers
    <2>1. PICK i \in DOMAIN Script(p) : Script(p)[i].do = "register" /\ r = Script(p)[i]
      BY DEF Registers
    <2>2. Made(p, i) + (IF Past(p, i) THEN 0 ELSE 1)
            + (IF relogin(p).registers = <<>> THEN 0
               ELSE Due(p, "main") + Due(p, "other"))
            <= 1 + repeats[p]
      BY <2>1 DEF IInv, ProcessInv, CountInv
    <2>3. /\ Made(p, i) \in Nat /\ repeats[p] \in Nat
          /\ Due(p, "main") \in Nat /\ Due(p, "other") \in Nat
      BY Numbers DEF Thread
    <2>4. Made(p, i) <= 1 + repeats[p]  BY <2>2, <2>3
    <2> QED  BY <2>1, <2>4 DEF Made
  <1> QED  BY <1>1, ProgramsInOrder, PTL

\* A client that goes on after a loop around a call has made the call, and a spare
\* one only when an answer was lost: try_again of the clients.
THEOREM CalledInTheEndHolds == Spec => []CalledInTheEnd
  <1>1. IInv => CalledInTheEnd
    <2> SUFFICES ASSUME IInv, NEW p \in Process, NEW i \in DOMAIN Script(p),
                        Script(p)[i].do = "use"
                 PROVE  /\ works[p][i] <= 1 + repeats[p]
                        /\ Script(p)[i].none = "again" /\ Past(p, i)
                             /\ ~Script(p)[i].checked => works[p][i] >= 1
      BY DEF CalledInTheEnd
    <2>1. /\ works[p][i] <= (IF Past(p, i) THEN 1 ELSE 0) + repeats[p]
          /\ Script(p)[i].none = "again" /\ Past(p, i) /\ ~Script(p)[i].checked
               => works[p][i] >= 1
      BY DEF IInv, ProcessInv, WorkInv
    <2>2. works[p][i] \in Nat /\ repeats[p] \in Nat
      BY Numbers, ScriptFacts DEF IInv, ProcessTypes
    <2> QED  BY <2>1, <2>2
  <1> QED  BY <1>1, ProgramsInOrder, PTL

\* The executive of demo/chain_validation and the server of demo/audit only execute
\* calls that the secretary and the proxy make for the client: joinChain of theirs.
THEOREM OnlyThroughSecretaryHolds == Spec => []OnlyThroughSecretary
  <1>1. IInv => OnlyThroughSecretary  BY DEF IInv
  <1> QED  BY <1>1, ProgramsInOrder, PTL

\* A program that retries its login only dereferences a nil registry while the
\* other thread relogs it, from the local logout of its request to the end of the
\* callback (client.cpp:649 to connection.cpp:583): getOfferRegistry meanwhile.
THEOREM NilOnlyDuringReloginHolds == Spec => []NilOnlyDuringRelogin
  <1>1. IInv => NilOnlyDuringRelogin
    BY DEF IInv, ProcessInv, NilInv, NilOnlyDuringRelogin
  <1> QED  BY <1>1, ProgramsInOrder, PTL
=============================================================================
