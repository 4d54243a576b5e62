---------------------------- MODULE GatewayProofs ----------------------------
(***************************************************************************)
(* Proofs about the gateway process, for any number of threads, servers,   *)
(* loads, relays and registrations. Six invariants carry them: Typed; and, *)
(* from it, RegInv of the registry of identities, LogInv of the metrics    *)
(* logger, RelayInv of the messages and their counts, and ServerInv of the *)
(* server: who is about which server, which one the runtime state names,   *)
(* and what _server_process remembers while no two threads were inside     *)
(* _start_a2a_server.                                                      *)
(***************************************************************************)
EXTENDS Gateway, Sequences, FiniteSetTheorems, TLAPS

ServerStages == {"unmade", "failed", "bound", "serving", "asked", "stopped", "draining", "ended"}
ServerRecords == [stage : ServerStages, port : 0 .. Retries - 1, sweeping : BOOLEAN]
Metrics == [successes : Nat, failures : Nat]
Answers == {"none", "raised", "not found", "refused", "failed", "delivered"}
RelayRecords == [posts : Nat, copies : Nat, inits : Nat, answer : Answers]

RuntimeTyped ==
  /\ runtime \in [inits : Nat, server : Servers \cup {None}, metrics : Metrics]
  /\ fillers \subseteq Threads
  /\ runtime.inits = 0 => runtime.server = None /\ runtime.metrics = NoMetrics

PluginTyped ==
  /\ servers \in [Servers -> ServerRecords]
  /\ process \in Servers \cup {None}
  /\ attempt \in [Starters -> 0 .. Retries] /\ mine \in [Starters -> Servers \cup {None}]
  /\ clashed \in BOOLEAN /\ hasty \in BOOLEAN

RelayTyped ==
  /\ relays \in [Relays -> RelayRecords]
  /\ file \in {"absent", "empty", "mixed", Own} \cup Registrars
  /\ broken \subseteq Registrars /\ together \in BOOLEAN

Holding == {"thread", "remember", "publish"}
Downing == {"compare", "clear", "sweeper", "ask", "await"}

\* What a thread has made, or is shutting down, by how far it is.
Held(t) ==
  /\ mine[t] = None <=> pc[t] \notin Holding \cup Downing
  /\ pc[t] = "bind" => attempt[t] < Retries

Typed ==
  /\ pc \in [Threads -> Stages] /\ RuntimeTyped /\ PluginTyped /\ RelayTyped
  /\ \A t \in Starters : Held(t)
  /\ \A t \in Relays : pc[t] \in {"post", "count success", "count failure"} => relays[t].inits > 0

-----------------------------------------------------------------------------
\* The steps that are taken on behalf of the plugin, and those that ask for the
\* runtime state first.
FillAny == \E t \in Threads : FillStep(t)
PluginStep ==
  \/ Begin \/ BootStep \/ LogStep \/ DownStep \/ ShutdownStep
  \/ \E t \in Starters : StartStep(t)

\* Every step is of one of these kinds.
LEMMA Kinds ==
  Next => \/ FillAny \/ PluginStep \/ LoopStep
          \/ \E t \in Relays : RelayStep(t)
          \/ \E r \in Registrars : RegisterStep(r)
          \/ \E s \in Servers : ServeStep(s)
BY RuntimeAssumption, PluginAssumption, RelayAssumption
   DEF Next, MainStep, FillAny, PluginStep, Starters

\* Who starts servers, relays messages, and registers: three kinds of threads.
LEMMA StartersAreThreads ==
  /\ Main \in Starters /\ Starters \subseteq Threads /\ Main \notin Announcers
  /\ Starters \cap (Relays \cup Registrars) = {} /\ Relays \cup Registrars \subseteq Threads
  /\ Relays \cap Registrars = {}
BY RuntimeAssumption, PluginAssumption, RelayAssumption, GatewayAssumption DEF Starters

\* The two numbers of the configuration.
LEMMA Limits == Retries \in Nat /\ Retries > 0 /\ Deliveries \in Nat /\ Deliveries > 0
<1>1. Retries \in Nat \ {0} /\ Deliveries \in Nat \ {0}
  BY PluginAssumption, RelayAssumption, Zenon
<1> QED BY <1>1

\* The plugin leaves relays and registrations alone.
LEMMA PluginFrame ==
  ASSUME Typed, PluginStep
  PROVE  UNCHANGED relayVars /\ \A t \in Threads \ Starters : pc'[t] = pc[t]
<1> USE StartersAreThreads DEF Typed, Go, GoFrom
<1>1. CASE Begin
  BY <1>1 DEF Begin, Load, Announce, Starters
<1>2. CASE BootStep
  BY <1>2 DEF BootStep, Boot
<1>3. CASE LogStep
  BY <1>3 DEF LogStep, StopLogger, JoinLogger, StartLogger
<1>4. CASE DownStep
  BY <1>4 DEF DownStep, Compare, Clear, StopSweeper, AskToStop, Down
<1>5. CASE ShutdownStep
  BY <1>5 DEF ShutdownStep, Shutdown
<1>6. CASE \E t \in Starters : StartStep(t)
  BY <1>6 DEF StartStep, Check, Bind, StartThread, Remember, Publish
<1> QED BY <1>1, <1>2, <1>3, <1>4, <1>5, <1>6 DEF PluginStep

\* record_webhook_result changes one of the two counts, of the metrics it was given.
LEMMA RecordCounts ==
  ASSUME RuntimeTyped, NEW n, NEW outcome \in {"successes", "failures"}, Record(n, outcome)
  PROVE  /\ runtime' \in [inits : Nat, server : Servers \cup {None}, metrics : Metrics]
         /\ runtime'.inits = runtime.inits /\ runtime'.server = runtime.server
         /\ n # runtime.inits => runtime'.metrics = runtime.metrics
         /\ n = runtime.inits /\ outcome = "successes" =>
              /\ runtime'.metrics.successes = runtime.metrics.successes + 1
              /\ runtime'.metrics.failures = runtime.metrics.failures
         /\ n = runtime.inits /\ outcome = "failures" =>
              /\ runtime'.metrics.successes = runtime.metrics.successes
              /\ runtime'.metrics.failures = runtime.metrics.failures + 1
<1>1. CASE n # runtime.inits
  BY <1>1 DEF Record, RuntimeTyped
<1>2. CASE n = runtime.inits
  <2> DEFINE m == [runtime.metrics EXCEPT ![outcome] = @ + 1]
  <2>1. runtime' = [runtime EXCEPT !.metrics = m]
    BY <1>2 DEF Record
  <2>2. /\ outcome = "successes" => m = [runtime.metrics EXCEPT !.successes = @ + 1]
        /\ outcome = "failures" => m = [runtime.metrics EXCEPT !.failures = @ + 1]
    OBVIOUS
  <2>3. /\ m \in Metrics
        /\ outcome = "successes" => m.successes = runtime.metrics.successes + 1 /\ m.failures = runtime.metrics.failures
        /\ outcome = "failures" => m.successes = runtime.metrics.successes /\ m.failures = runtime.metrics.failures + 1
    BY <2>2 DEF RuntimeTyped, Metrics
  <2> HIDE DEF m
  <2>4. [runtime EXCEPT !.metrics = m] \in [inits : Nat, server : Servers \cup {None}, metrics : Metrics]
    BY <2>3 DEF RuntimeTyped
  <2>5. /\ [runtime EXCEPT !.metrics = m].metrics = m
        /\ [runtime EXCEPT !.metrics = m].inits = runtime.inits
        /\ [runtime EXCEPT !.metrics = m].server = runtime.server
    BY DEF RuntimeTyped
  <2> QED BY <2>1, <2>3, <2>4, <2>5, <1>2
<1> QED BY <1>1, <1>2

\* A relay moves itself and nobody else, and leaves the plugin and the registry alone.
LEMMA RelayFrame ==
  ASSUME Typed, NEW t \in Relays, RelayStep(t)
  PROVE  /\ UNCHANGED <<fillers, logging, pluginVars, registry>>
         /\ runtime'.inits = runtime.inits /\ runtime'.server = runtime.server
         /\ \A u \in Threads : u # t => pc'[u] = pc[u]
<1>1. UNCHANGED <<fillers, logging, pluginVars, registry>>
  BY DEF RelayStep, Resolve, ReadRaw, GetMetrics, Post, Float, CountSuccess, CountFailure
<1>2. runtime'.inits = runtime.inits /\ runtime'.server = runtime.server
  <2>1. CASE UNCHANGED runtime
    BY <2>1
  <2>2. CASE Record(relays[t].inits, "successes") \/ Record(relays[t].inits, "failures")
    BY <2>2, RecordCounts DEF Typed
  <2> QED BY <2>1, <2>2 DEF RelayStep, CountSuccess, CountFailure
<1>3. PICK there : pc' = [pc EXCEPT ![t] = there]
  BY DEF RelayStep, Resolve, ReadRaw, GetMetrics, Post, Float, CountSuccess, CountFailure, Say, Go, GoFrom
<1>4. \A u \in Threads : u # t => pc'[u] = pc[u]
  BY <1>3 DEF Typed
<1> QED BY <1>1, <1>2, <1>4

\* So does a registration, and it leaves the messages alone.
LEMMA RegisterFrame ==
  ASSUME Typed, NEW r \in Registrars, RegisterStep(r)
  PROVE  /\ UNCHANGED <<state, logging, pluginVars, relays>>
         /\ \A u \in Threads : u # r => pc'[u] = pc[u]
BY StartersAreThreads
   DEF Typed, Go, GoFrom, RegisterStep, CheckFile, Truncate, Write, WriteFails, registry

-----------------------------------------------------------------------------
(* Types *)
\* The types hold at the start,
LEMMA InitTyped == Init => Typed
<1> SUFFICES ASSUME Init PROVE Typed
  OBVIOUS
<1>1. pc \in [Threads -> Stages]
  BY DEF Init, Stages, Outcomes
<1>2. RuntimeTyped
  BY DEF Init, RInit, RuntimeTyped, NoMetrics, Metrics
<1>3. PluginTyped
  <2>1. Unmade \in ServerRecords
    BY Limits DEF Unmade, ServerRecords, ServerStages
  <2>2. attempt \in [Starters -> 0 .. Retries]
    BY Limits DEF Init, PluginInit
  <2> QED BY <2>1, <2>2 DEF Init, PluginInit, PluginTyped
<1>4. RelayTyped
  BY DEF Init, RelayInit, RelayTyped, Unread, RelayRecords, Answers
<1>5. \A t \in Starters : Held(t)
  BY StartersAreThreads DEF Init, PluginInit, Held, Holding, Downing
<1>6. \A t \in Relays : pc[t] = "idle"
  BY StartersAreThreads DEF Init
<1> QED BY <1>1, <1>2, <1>3, <1>4, <1>5, <1>6 DEF Typed

\* whatever __init__ stores,
LEMMA FillTyped ==
  ASSUME Typed, FillAny
  PROVE  Typed'
<1>1. PICK t \in Threads : FillStep(t)
  BY DEF FillAny
<1>2. UNCHANGED <<pc, logging, pluginVars, relayVars>>
  BY <1>1 DEF FillStep, Find, Fill
<1>3. RuntimeTyped'
  <2> USE DEF Typed, RuntimeTyped
  <2>1. CASE fillers' = fillers \cup {t} /\ UNCHANGED runtime
    BY <2>1
  <2>2. CASE Fill(t)
    <3>1. NoMetrics \in Metrics
      BY DEF NoMetrics, Metrics
    <3>2. /\ runtime' = [inits |-> runtime.inits + 1, server |-> None, metrics |-> NoMetrics]
          /\ fillers' \subseteq fillers
      BY <2>2 DEF Fill
    <3> HIDE DEF Typed, RuntimeTyped
    <3>3. runtime.inits + 1 \in Nat /\ runtime.inits + 1 # 0
      <4>1. runtime.inits \in Nat
        BY DEF Typed, RuntimeTyped
      <4> QED BY <4>1
    <3>4. runtime' \in [inits : Nat, server : Servers \cup {None}, metrics : Metrics]
      BY <3>1, <3>2, <3>3
    <3>5. runtime'.inits = runtime.inits + 1
      BY <3>2, Zenon
    <3>6. runtime'.inits # 0
      BY <3>3, <3>5, Zenon
    <3> QED BY <3>2, <3>4, <3>6 DEF Typed, RuntimeTyped
  <2> QED BY <1>1, <2>1, <2>2 DEF FillStep, Find
<1> QED BY <1>2, <1>3 DEF Typed, PluginTyped, RelayTyped, Held, pluginVars, relayVars, server, ghosts, registry

\* whatever becomes of a server,
LEMMA ServeTyped ==
  ASSUME Typed, NEW s \in Servers, ServeStep(s)
  PROVE  Typed'
<1>1. servers' \in [Servers -> ServerRecords]
  BY DEF Typed, PluginTyped, ServeStep, ServerStep, LoopEnds, ThreadEnds, PortFreed, ServerRecords, ServerStages
<1> QED BY <1>1 DEF Typed, PluginTyped, RuntimeTyped, RelayTyped, Held, ServeStep, ServerStep, LoopEnds, ThreadEnds, PortFreed,
       state, relayVars, registry, ghosts, places

\* of a logger,
LEMMA LoopTyped ==
  ASSUME Typed, LoopStep
  PROVE  Typed'
BY DEF Typed, LoopStep, RuntimeTyped, PluginTyped, RelayTyped, Held, state, pluginVars, relayVars,
       places, server, ghosts, registry

\* and of an identity.
LEMMA RegisterTyped ==
  ASSUME Typed, NEW r \in Registrars, RegisterStep(r)
  PROVE  Typed'
<1> USE StartersAreThreads
<1>1. pc' \in [Threads -> Stages]
  BY DEF Typed, RegisterStep, CheckFile, Truncate, Write, WriteFails, Go, GoFrom, Stages, Outcomes
<1>2. RelayTyped'
  BY DEF Typed, RelayTyped, RegisterStep, CheckFile, Truncate, Write, WriteFails, registry, Over
<1>3. RuntimeTyped' /\ PluginTyped'
  BY RegisterFrame DEF Typed, RuntimeTyped, PluginTyped, state, pluginVars, server, ghosts, places
<1>4. \A t \in Starters : Held(t)'
  BY RegisterFrame DEF Typed, Held, pluginVars, server
<1>5. \A t \in Relays : pc'[t] = pc[t] /\ relays'[t] = relays[t]
  BY RegisterFrame
<1> QED BY <1>1, <1>2, <1>3, <1>4, <1>5 DEF Typed

\* What a relay says, and what a post does to what it knows.
LEMMA Answered ==
  ASSUME Typed, NEW t \in Relays, NEW answer \in Answers, Say(t, answer)
  PROVE  /\ relays' \in [Relays -> RelayRecords] /\ pc' = [pc EXCEPT ![t] = "done"]
         /\ relays'[t].answer = answer /\ relays'[t].inits = relays[t].inits
         /\ relays'[t].posts = relays[t].posts /\ relays'[t].copies = relays[t].copies
         /\ \A u \in Relays : u # t => relays'[u] = relays[u]
<1>1. /\ relays \in [Relays -> RelayRecords]
      /\ relays' = [relays EXCEPT ![t] = [relays[t] EXCEPT !.answer = answer]]
  BY DEF Typed, RelayTyped, Say
<1>2. relays[t] \in RelayRecords
  BY <1>1
<1> DEFINE r == [relays[t] EXCEPT !.answer = answer]
<1>3. /\ r \in RelayRecords /\ r.answer = answer /\ r.inits = relays[t].inits
      /\ r.posts = relays[t].posts /\ r.copies = relays[t].copies
  BY <1>2 DEF RelayRecords
<1>4. relays' = [relays EXCEPT ![t] = r]
  BY <1>1
<1> HIDE DEF r
<1>5. /\ relays' \in [Relays -> RelayRecords] /\ relays'[t] = r
      /\ \A u \in Relays : u # t => relays'[u] = relays[u]
  BY <1>1, <1>3, <1>4
<1> QED BY <1>3, <1>5 DEF Say, Go

\* A post may arrive without being answered, but not the other way round.
LEMMA Posted ==
  ASSUME Typed, NEW t \in Relays, Post(t)
  PROVE  \E arrives, answered \in BOOLEAN :
           /\ answered => arrives
           /\ pc' = [pc EXCEPT ![t] = IF answered THEN "count success"
                                      ELSE IF LastPost(t) THEN "count failure" ELSE "post"]
           /\ relays' \in [Relays -> RelayRecords]
           /\ relays'[t].posts = relays[t].posts + 1
           /\ relays'[t].copies = relays[t].copies + IF arrives THEN 1 ELSE 0
           /\ relays'[t].inits = relays[t].inits /\ relays'[t].answer = relays[t].answer
           /\ \A u \in Relays : u # t => relays'[u] = relays[u]
<1>1. PICK arrives \in BOOLEAN, answered \in BOOLEAN :
        /\ answered => arrives
        /\ relays' = [relays EXCEPT ![t].posts = @ + 1, ![t].copies = @ + IF arrives THEN 1 ELSE 0]
        /\ pc' = [pc EXCEPT ![t] = IF answered THEN "count success"
                                   ELSE IF LastPost(t) THEN "count failure" ELSE "post"]
  BY DEF Post, Go
<1>2. relays \in [Relays -> RelayRecords] /\ relays[t] \in RelayRecords
  BY DEF Typed, RelayTyped
<1> DEFINE n == IF arrives THEN 1 ELSE 0
           r == [relays[t] EXCEPT !.posts = @ + 1, !.copies = @ + n]
<1>3. n \in Nat
  OBVIOUS
<1>4. relays' = [relays EXCEPT ![t] = r]
  BY <1>1, <1>2 DEF RelayRecords
<1>5. /\ r \in RelayRecords /\ r.answer = relays[t].answer /\ r.inits = relays[t].inits
      /\ r.posts = relays[t].posts + 1 /\ r.copies = relays[t].copies + n
  <2> HIDE DEF n
  <2> DEFINE q == relays[t]
             c == q.copies + n
             p == q.posts + 1
  <2>1. q \in RelayRecords /\ c \in Nat /\ p \in Nat
    BY <1>2, <1>3 DEF RelayRecords
  <2>2. r = [q EXCEPT !.posts = p, !.copies = c]
    BY <2>1 DEF RelayRecords
  <2> HIDE DEF q, c, p
  <2>3. /\ [q EXCEPT !.posts = p, !.copies = c] \in RelayRecords
        /\ [q EXCEPT !.posts = p, !.copies = c].answer = q.answer
        /\ [q EXCEPT !.posts = p, !.copies = c].inits = q.inits
        /\ [q EXCEPT !.posts = p, !.copies = c].posts = p
        /\ [q EXCEPT !.posts = p, !.copies = c].copies = c
    BY <2>1 DEF RelayRecords
  <2> HIDE DEF r
  <2>4. r \in RelayRecords /\ r.answer = q.answer /\ r.inits = q.inits /\ r.posts = p /\ r.copies = c
    BY <2>2, <2>3
  <2> QED BY <2>4 DEF q, c, p
<1> HIDE DEF r
<1>6. /\ relays' \in [Relays -> RelayRecords] /\ relays'[t] = r
      /\ \A u \in Relays : u # t => relays'[u] = relays[u]
  BY <1>2, <1>4, <1>5
<1> QED BY <1>1, <1>5, <1>6

\* A relay keeps the types.
LEMMA RelayStepTyped ==
  ASSUME Typed, NEW t \in Relays, RelayStep(t)
  PROVE  Typed'
<1> USE StartersAreThreads
<1>1. pc' \in [Threads -> Stages]
  BY DEF Typed, RelayStep, Resolve, ReadRaw, GetMetrics, Post, Float, CountSuccess, CountFailure, Say, Go, GoFrom, Stages, Outcomes
<1>2. relays' \in [Relays -> RelayRecords]
  <2>1. CASE UNCHANGED relays
    BY <2>1 DEF Typed, RelayTyped
  <2>2. CASE \E answer \in Answers : Say(t, answer)
    BY <2>2, Answered
  <2>3. CASE GetMetrics(t)
    BY <2>3 DEF Typed, RelayTyped, RuntimeTyped, GetMetrics, RelayRecords
  <2>4. CASE Post(t)
    BY <2>4, Posted
  <2> QED BY <2>1, <2>2, <2>3, <2>4
          DEF RelayStep, Resolve, ReadRaw, Float, CountSuccess, CountFailure, Answers
<1>3. RuntimeTyped'
  <2>1. CASE UNCHANGED runtime
    BY <2>1, RelayFrame DEF Typed, RuntimeTyped
  <2>2. CASE CountSuccess(t) \/ CountFailure(t)
    <3>1. runtime.inits > 0 \/ relays[t].inits # runtime.inits
      BY <2>2 DEF Typed, RuntimeTyped, CountSuccess, CountFailure, GoFrom
    <3>2. Record(relays[t].inits, "successes") \/ Record(relays[t].inits, "failures")
      BY <2>2 DEF CountSuccess, CountFailure
    <3>3. /\ runtime' \in [inits : Nat, server : Servers \cup {None}, metrics : Metrics]
          /\ runtime'.inits = runtime.inits /\ runtime'.server = runtime.server
          /\ runtime.inits = 0 => runtime'.metrics = runtime.metrics
      <4>1. RuntimeTyped
        BY DEF Typed
      <4>2. CASE Record(relays[t].inits, "successes")
        BY <3>1, <4>1, <4>2, RecordCounts DEF RuntimeTyped
      <4>3. CASE Record(relays[t].inits, "failures")
        BY <3>1, <4>1, <4>3, RecordCounts DEF RuntimeTyped
      <4> QED BY <3>2, <4>2, <4>3
    <3> QED BY <3>3, RelayFrame DEF Typed, RuntimeTyped
  <2> QED BY <2>1, <2>2 DEF RelayStep
<1>4. RelayTyped'
  BY <1>2, RelayFrame DEF Typed, RelayTyped, registry
<1>5. PluginTyped' /\ \A u \in Starters : Held(u)'
  BY RelayFrame DEF Typed, PluginTyped, Held, pluginVars, places, server, ghosts
<1>6. \A u \in Relays : pc'[u] \in {"post", "count success", "count failure"} => relays'[u].inits > 0
  <2> SUFFICES ASSUME NEW u \in Relays, pc'[u] \in {"post", "count success", "count failure"}
               PROVE  relays'[u].inits > 0
    OBVIOUS
  <2>1. CASE u # t
    <3>1. relays'[u] = relays[u]
      BY <2>1 DEF Typed, RelayTyped, RelayStep, Resolve, ReadRaw, GetMetrics, Post, Float, CountSuccess, CountFailure, Say
    <3> QED BY <3>1, <2>1, RelayFrame DEF Typed
  <2>2. CASE u = t
    <3> USE <2>2 DEF Typed, RelayTyped, RelayRecords, Go, GoFrom, Say
    <3>1. CASE GetMetrics(t)
      BY <3>1 DEF GetMetrics, Ready
    <3>2. CASE Post(t)
      BY <3>2, Posted DEF Post
    <3>3. CASE Resolve(t) \/ ReadRaw(t)
      BY <3>3 DEF Resolve, ReadRaw
    <3>4. CASE Float(t) \/ CountSuccess(t) \/ CountFailure(t)
      BY <3>4 DEF Float, CountSuccess, CountFailure
    <3> QED BY <3>1, <3>2, <3>3, <3>4 DEF RelayStep
  <2> QED BY <2>1, <2>2
<1> QED BY <1>1, <1>3, <1>4, <1>5, <1>6 DEF Typed

\* set_runtime_server changes one field.
LEMMA ServerNamed ==
  ASSUME RuntimeTyped, NEW s \in Servers \cup {None}, SetServer(s)
  PROVE  /\ runtime' \in [inits : Nat, server : Servers \cup {None}, metrics : Metrics]
         /\ runtime'.inits = runtime.inits /\ runtime'.server = s /\ runtime'.metrics = runtime.metrics
BY DEF RuntimeTyped, SetServer

\* Of the threads that start or stop a server, one goes on in a step of the plugin.
LEMMA PluginMoves ==
  ASSUME Typed, PluginStep
  PROVE  \E t \in Starters : \E there \in Stages : pc' = [pc EXCEPT ![t] = there]
<1> USE StartersAreThreads DEF Go, GoFrom, Stages, Starting, Outcomes
<1>1. CASE Begin
  BY <1>1 DEF Begin, Load, Announce, Starters
<1>2. CASE BootStep
  BY <1>2 DEF BootStep, Boot
<1>3. CASE LogStep
  BY <1>3 DEF LogStep, StopLogger, JoinLogger, StartLogger
<1>4. CASE DownStep
  BY <1>4 DEF DownStep, Compare, Clear, StopSweeper, AskToStop, Down
<1>5. CASE ShutdownStep
  BY <1>5 DEF ShutdownStep, Shutdown
<1>6. CASE \E t \in Starters : StartStep(t)
  BY <1>6 DEF StartStep, Check, Bind, StartThread, Remember, Publish, Leave, Raise
<1> QED BY <1>1, <1>2, <1>3, <1>4, <1>5, <1>6 DEF PluginStep

\* _start_a2a_server keeps the types of the servers, and of who holds them.
LEMMA StartTyped ==
  ASSUME Typed, NEW t \in Starters, StartStep(t)
  PROVE  /\ RuntimeTyped' /\ PluginTyped' /\ \A u \in Starters : Held(u)'
<1> USE StartersAreThreads, Limits DEF Typed
<1>1. CASE Check(t) /\ UNCHANGED state
  <2>1. RuntimeTyped'
    BY <1>1 DEF state, RuntimeTyped
  <2>2. PluginTyped'
    <3>1. clashed' \in BOOLEAN /\ hasty' \in BOOLEAN
      BY <1>1, Zenon DEF Check, PluginTyped
    <3>2. attempt' \in [Starters -> 0 .. Retries]
      <4>1. attempt' = [attempt EXCEPT ![t] = 0] /\ attempt \in [Starters -> 0 .. Retries]
        BY <1>1 DEF Check, PluginTyped
      <4> HIDE DEF Typed
      <4>2. 0 \in 0 .. Retries
        OBVIOUS
      <4> QED BY <4>1, <4>2
    <3> QED BY <1>1, <3>1, <3>2 DEF Check, PluginTyped
  <2>3. ASSUME NEW u \in Starters PROVE Held(u)'
    BY <1>1 DEF Check, Held, Go, Leave, PluginTyped, Holding, Downing
  <2> QED BY <2>1, <2>2, <2>3
<1>2. CASE Bind(t) /\ UNCHANGED state
  <2>1. RuntimeTyped'
    BY <1>2 DEF state, RuntimeTyped
  <2>2. PICK s \in Servers : \E taken \in BOOLEAN :
          LET stage == IF taken THEN "failed" ELSE "bound"
          IN /\ servers[s] = Unmade /\ \A r \in 1 .. s - 1 : servers[r] # Unmade
             /\ servers' = [servers EXCEPT ![s] = [stage |-> stage, port |-> attempt[t], sweeping |-> TRUE]]
             /\ IF taken
                THEN /\ Go(t, IF LastTry(t) THEN Raise(t) ELSE "bind")
                     /\ attempt' = [attempt EXCEPT ![t] = @ + 1]
                     /\ UNCHANGED mine
                ELSE /\ Go(t, "thread") /\ mine' = [mine EXCEPT ![t] = s] /\ UNCHANGED attempt
    BY <1>2 DEF Bind
  <2>3. attempt[t] \in 0 .. Retries - 1
    <3>1. attempt[t] \in 0 .. Retries /\ attempt[t] < Retries
      BY <1>2 DEF Bind, Held, PluginTyped
    <3> HIDE DEF Typed
    <3> QED BY <3>1
  <2>4. servers' \in [Servers -> ServerRecords]
    <3>1. PICK stage \in {"failed", "bound"} :
            servers' = [servers EXCEPT ![s] = [stage |-> stage, port |-> attempt[t], sweeping |-> TRUE]]
      BY <2>2
    <3>2. servers \in [Servers -> ServerRecords]
      BY DEF PluginTyped
    <3>3. [stage |-> stage, port |-> attempt[t], sweeping |-> TRUE] \in ServerRecords
      BY <2>3 DEF ServerRecords, ServerStages
    <3> HIDE DEF Typed
    <3> QED BY <3>1, <3>2, <3>3
  <2>5. attempt' \in [Starters -> 0 .. Retries]
    <3>1. attempt \in [Starters -> 0 .. Retries]
      BY DEF PluginTyped
    <3>2. attempt' = [attempt EXCEPT ![t] = attempt[t] + 1] \/ attempt' = attempt
      BY <2>2
    <3> HIDE DEF Typed
    <3>3. attempt[t] + 1 \in 0 .. Retries
      BY <2>3
    <3> QED BY <3>1, <3>2, <3>3
  <2>6. mine' \in [Starters -> Servers \cup {None}]
    BY <2>2 DEF PluginTyped
  <2>7. PluginTyped'
    BY <1>2, <2>4, <2>5, <2>6 DEF PluginTyped, Bind, ghosts
  <2>8. ASSUME NEW u \in Starters PROVE Held(u)'
    <3>1. CASE u # t
      <4>1. pc'[u] = pc[u] /\ mine'[u] = mine[u] /\ attempt'[u] = attempt[u]
        BY <3>1, <2>2 DEF Go, PluginTyped
      <4> QED BY <4>1 DEF Held
    <3>2. CASE u = t
      <4>1. CASE mine' = [mine EXCEPT ![t] = s] /\ pc' = [pc EXCEPT ![t] = "thread"]
        BY <4>1, <3>2, RuntimeAssumption DEF Held, PluginTyped, Holding
      <4>2. CASE UNCHANGED mine /\ LastTry(t) /\ pc' = [pc EXCEPT ![t] = Raise(t)]
        BY <4>2, <3>2, <1>2 DEF Held, PluginTyped, Holding, Downing, Raise, Bind
      <4>3. CASE UNCHANGED mine /\ ~LastTry(t) /\ pc' = [pc EXCEPT ![t] = "bind"] /\ attempt' = [attempt EXCEPT ![t] = @ + 1]
        <5>1. attempt'[t] < Retries
          <6>1. attempt'[t] = attempt[t] + 1 /\ attempt[t] # Retries - 1
            BY <4>3 DEF LastTry, PluginTyped
          <6> HIDE DEF Typed
          <6> QED BY <6>1, <2>3
        <5> QED BY <4>3, <3>2, <1>2, <5>1 DEF Held, PluginTyped, Holding, Downing, Bind
      <4> QED BY <2>2, <4>1, <4>2, <4>3 DEF Go
    <3> QED BY <3>1, <3>2
  <2> QED BY <2>1, <2>7, <2>8
<1>3. CASE StartThread(t) /\ UNCHANGED state
  <2>1. mine[t] \in Servers
    BY <1>3 DEF StartThread, GoFrom, Held, Holding, PluginTyped
  <2>2. servers' \in [Servers -> ServerRecords]
    BY <1>3, <2>1 DEF StartThread, PluginTyped, ServerRecords, ServerStages
  <2>3. RuntimeTyped' /\ PluginTyped'
    BY <1>3, <2>2 DEF StartThread, PluginTyped, RuntimeTyped, ghosts, state
  <2>4. ASSUME NEW u \in Starters PROVE Held(u)'
    BY <1>3 DEF StartThread, Held, GoFrom, Go, Holding, Downing
  <2> QED BY <2>3, <2>4
<1>4. CASE Remember(t) /\ UNCHANGED state
  <2>1. RuntimeTyped' /\ PluginTyped'
    BY <1>4 DEF Remember, PluginTyped, RuntimeTyped, ghosts, state
  <2>2. ASSUME NEW u \in Starters PROVE Held(u)'
    BY <1>4 DEF Remember, Held, GoFrom, Go, Holding, Downing
  <2> QED BY <2>1, <2>2
<1>5. CASE Publish(t) /\ UNCHANGED fillers
  <2>1. mine[t] \in Servers \cup {None} /\ fillers' = fillers
    BY <1>5 DEF Publish, PluginTyped
  <2>2. RuntimeTyped'
    <3>1. SetServer(mine[t]) /\ runtime.inits > 0 /\ RuntimeTyped
      BY <1>5 DEF Publish, Ready
    <3>2. /\ runtime' \in [inits : Nat, server : Servers \cup {None}, metrics : Metrics]
          /\ runtime'.inits = runtime.inits
      BY <3>1, <2>1, ServerNamed
    <3> HIDE DEF Typed
    <3>3. runtime'.inits # 0
      BY <3>1, <3>2 DEF RuntimeTyped
    <3> QED BY <2>1, <3>1, <3>2, <3>3 DEF RuntimeTyped
  <2>3. PluginTyped'
    BY <1>5 DEF Publish, PluginTyped, ghosts
  <2>4. ASSUME NEW u \in Starters PROVE Held(u)'
    BY <1>5 DEF Publish, Held, GoFrom, Go, Holding, Downing, Leave, PluginTyped
  <2> QED BY <2>2, <2>3, <2>4
<1> QED BY <1>1, <1>2, <1>3, <1>4, <1>5 DEF StartStep, state

\* So does on_shutdown.
LEMMA DownTyped ==
  ASSUME Typed, DownStep \/ ShutdownStep
  PROVE  /\ RuntimeTyped' /\ PluginTyped' /\ \A u \in Starters : Held(u)'
<1> USE StartersAreThreads DEF Typed
<1>1. RuntimeTyped'
  <2>1. CASE UNCHANGED state
    BY <2>1 DEF state, RuntimeTyped
  <2>2. CASE DownStep /\ Clear
    BY <2>2, ServerNamed DEF DownStep, Clear, RuntimeTyped
  <2> QED BY <2>1, <2>2 DEF DownStep, ShutdownStep, state
<1>2. CASE Compare
  BY <1>1, <1>2 DEF Compare, PluginTyped, server, ghosts, Held, GoFrom, Go, Holding, Downing
<1>3. CASE Clear
  BY <1>1, <1>3 DEF Clear, PluginTyped, server, ghosts, Held, GoFrom, Go, Holding, Downing
<1>4. CASE StopSweeper \/ AskToStop
  <2>1. mine[Main] \in Servers
    BY <1>4 DEF StopSweeper, AskToStop, GoFrom, Held, Downing, PluginTyped
  <2>2. servers' \in [Servers -> ServerRecords]
    <3> DEFINE r == servers[mine[Main]]
               q == [r EXCEPT !.sweeping = FALSE]
               p == [r EXCEPT !.stage = IF r.stage = "serving" THEN "asked" ELSE r.stage]
    <3>1. servers \in [Servers -> ServerRecords] /\ r \in ServerRecords
      BY <2>1 DEF PluginTyped
    <3>2. q \in ServerRecords /\ p \in ServerRecords
      BY <3>1 DEF ServerRecords, ServerStages
    <3>3. servers' = [servers EXCEPT ![mine[Main]] = q] \/ servers' = [servers EXCEPT ![mine[Main]] = p]
      BY <1>4, <3>1 DEF StopSweeper, AskToStop
    <3> HIDE DEF q, p
    <3> QED BY <2>1, <3>1, <3>2, <3>3
  <2>3. PluginTyped'
    BY <1>4, <2>2 DEF StopSweeper, AskToStop, PluginTyped, ghosts
  <2>4. ASSUME NEW u \in Starters PROVE Held(u)'
    BY <1>4 DEF StopSweeper, AskToStop, Held, GoFrom, Go, Holding, Downing
  <2> QED BY <1>1, <2>3, <2>4
<1>5. CASE Down
  BY <1>1, <1>5 DEF Down, PluginTyped, ghosts, Held, GoFrom, Go, Holding, Downing
<1>6. CASE ShutdownStep
  <2>1. runtime.server \in Servers \cup {None}
    BY DEF RuntimeTyped
  <2>2. PluginTyped'
    BY <1>6, <2>1 DEF ShutdownStep, Shutdown, PluginTyped, ghosts
  <2>3. ASSUME NEW u \in Starters PROVE Held(u)'
    BY <1>6 DEF ShutdownStep, Shutdown, Held, Go, Holding, Downing, PluginTyped
  <2> QED BY <1>1, <2>2, <2>3
<1> QED BY <1>2, <1>3, <1>4, <1>5, <1>6 DEF DownStep

\* And so does everything else the plugin does.
LEMMA PluginStepTyped ==
  ASSUME Typed, PluginStep
  PROVE  Typed'
<1> USE StartersAreThreads
<1>1. pc' \in [Threads -> Stages]
  BY PluginMoves DEF Typed
<1>2. RelayTyped' /\ \A t \in Relays : pc'[t] = pc[t] /\ relays'[t] = relays[t]
  BY PluginFrame DEF Typed, RelayTyped, relayVars, registry
<1>3. RuntimeTyped' /\ PluginTyped' /\ \A u \in Starters : Held(u)'
  <2> USE DEF Typed
  <2>1. CASE Begin
    BY <2>1 DEF Begin, Load, Announce, state, RuntimeTyped, PluginTyped, server, ghosts, Held, Go, GoFrom, Holding, Downing
  <2>2. CASE BootStep
    BY <2>2 DEF BootStep, Boot, state, RuntimeTyped, PluginTyped, server, ghosts, Held, Go, GoFrom, Holding, Downing
  <2>3. CASE LogStep
    <3>1. UNCHANGED <<state, pluginVars>>
      BY <2>3 DEF LogStep
    <3>2. RuntimeTyped' /\ PluginTyped'
      BY <3>1 DEF state, pluginVars, server, ghosts, RuntimeTyped, PluginTyped
    <3>3. ASSUME NEW u \in Starters PROVE Held(u)'
      <4>1. CASE u # Main
        BY <2>3, <3>1, <4>1
           DEF LogStep, StopLogger, JoinLogger, StartLogger, pluginVars, server, Held, Go, GoFrom
      <4>2. CASE u = Main
        <5>1. /\ pc[Main] \in {"stop logger", "join logger", "start logger"}
              /\ pc'[Main] \in {"join logger", "start logger", "up"}
          BY <2>3 DEF LogStep, StopLogger, JoinLogger, StartLogger, Go, GoFrom
        <5> QED BY <3>1, <4>2, <5>1 DEF pluginVars, server, Held, Holding, Downing
      <4> QED BY <4>1, <4>2
    <3> QED BY <3>2, <3>3
  <2>4. CASE DownStep \/ ShutdownStep
    BY <2>4, DownTyped
  <2>5. CASE \E t \in Starters : StartStep(t)
    BY <2>5, StartTyped
  <2> QED BY <2>1, <2>2, <2>3, <2>4, <2>5 DEF PluginStep
<1> QED BY <1>1, <1>2, <1>3 DEF Typed

\* So types are kept by every step.
LEMMA NextTyped == Typed /\ [Next]_vars => Typed'
<1> SUFFICES ASSUME Typed, [Next]_vars PROVE Typed'
  OBVIOUS
<1>1. CASE UNCHANGED vars
  BY <1>1 DEF vars, Typed, RuntimeTyped, PluginTyped, RelayTyped, Held, state, pluginVars, relayVars, server, ghosts, registry
<1>2. CASE Next
  BY <1>2, Kinds, FillTyped, PluginStepTyped, LoopTyped, RelayStepTyped, RegisterTyped, ServeTyped
<1> QED BY <1>1, <1>2

\* Every field of the gateway has its type, whatever threads do.
THEOREM TypesKept == Spec => []Typed
BY InitTyped, NextTyped, PTL DEF Spec

-----------------------------------------------------------------------------
(* The registry of identities *)

\* Unless two registrations met, only one has the file open, and it is empty then.
RegInv ==
  /\ ~together =>
       /\ \A r \in Registrars : pc[r] = "write" => file = "empty"
       /\ \A r, q \in Registrars : pc[r] = "write" /\ pc[q] = "write" => r = q
  /\ RegistryReadable

\* Nobody else touches the file, or moves a registration.
LEMMA RegistryFrame ==
  ASSUME Typed, [Next]_vars, ~ \E r \in Registrars : RegisterStep(r)
  PROVE  UNCHANGED registry /\ \A r \in Registrars : pc'[r] = pc[r]
<1> USE StartersAreThreads
<1>1. CASE FillAny
  BY <1>1 DEF FillAny, FillStep, Find, Fill, relayVars
<1>2. CASE PluginStep
  BY <1>2, PluginFrame DEF relayVars
<1>3. CASE LoopStep \/ \E s \in Servers : ServeStep(s)
  BY <1>3 DEF LoopStep, ServeStep, ServerStep, LoopEnds, ThreadEnds, PortFreed, relayVars
<1>4. CASE \E t \in Relays : RelayStep(t)
  BY <1>4, RelayFrame
<1>5. CASE UNCHANGED vars
  BY <1>5 DEF vars, relayVars
<1> QED BY <1>1, <1>2, <1>3, <1>4, <1>5, Kinds

\* RegInv is kept: a write finds the file empty unless two had it open.
LEMMA RegistryStep ==
  ASSUME Typed, RegInv, [Next]_vars
  PROVE  RegInv'
<1> USE StartersAreThreads
<1>1. CASE ~ \E r \in Registrars : RegisterStep(r)
  BY <1>1, RegistryFrame DEF RegInv, RegistryReadable, registry
<1>2. ASSUME NEW r \in Registrars, RegisterStep(r) PROVE RegInv'
  <2> USE <1>2, RegisterFrame DEF RegInv, RegistryReadable, Go, GoFrom
  <2>1. pc \in [Threads -> Stages] /\ r \in Threads
    BY DEF Typed
  <2>2. CASE CheckFile(r)
    BY <2>1, <2>2 DEF CheckFile, registry
  <2>3. CASE Truncate(r)
    <3>1. /\ pc' = [pc EXCEPT ![r] = "write"] /\ file' = "empty"
          /\ together' = (together \/ \E q \in Registrars \ {r} : pc[q] = "write")
      BY <2>3 DEF Truncate
    <3> QED BY <2>1, <3>1
  <2>4. CASE Write(r)
    <3>1. /\ pc[r] = "write" /\ pc' = [pc EXCEPT ![r] = "registered"] /\ file' \in {r, "mixed"}
          /\ file = "empty" => file' = r
          /\ UNCHANGED <<broken, together>>
      BY <2>4 DEF Write, Over
    <3>2. r \notin {"empty", "mixed"}
      BY RelayAssumption
    <3> QED BY <2>1, <3>1, <3>2
  <2>5. CASE WriteFails(r)
    BY <2>1, <2>5 DEF WriteFails
  <2> QED BY <2>2, <2>3, <2>4, <2>5 DEF RegisterStep
<1> QED BY <1>1, <1>2

\* It holds for a registry that is empty, or as the operator wrote it.
LEMMA RegistryBegins == Init => RegInv
BY StartersAreThreads, RelayAssumption DEF Init, RelayInit, RegInv, RegistryReadable

\* a2a_discover leaves an identity unreadable only if its write failed, or met another.
THEOREM RegistryStaysReadable == Spec => []RegistryReadable
<1>1. Typed /\ RegInv /\ [Next]_vars => RegInv'
  BY RegistryStep
<1>2. RegInv => RegistryReadable
  BY DEF RegInv
<1> QED BY TypesKept, RegistryBegins, <1>1, <1>2, PTL DEF Spec

-----------------------------------------------------------------------------
(* The metrics logger *)
LoopRecords == [at : {"test", "wait", "over"}, on : Nat]
Last == Len(loops)
Earlier == {l \in LoggersAlive : l # Last}

LogTyped == loops \in Seq(LoopRecords) /\ event \in {0} \cup DOMAIN loops /\ missed \in Nat

\* Between the join and the start, all that still run were missed.
LogInv ==
  /\ Cardinality(Earlier) <= missed
  /\ pc[Main] = "start logger" => Cardinality(LoggersAlive) <= missed /\ missed <= Last
  /\ pc[Main] # "start logger" => missed = 0 \/ missed < Last

\* The loggers are numbered from 1, and all but at most one of those alive are earlier ones.
LEMMA LoopsCounted ==
  ASSUME LogTyped
  PROVE  /\ DOMAIN loops = 1 .. Last /\ Last \in Nat /\ Cardinality(DOMAIN loops) = Last
         /\ IsFiniteSet(LoggersAlive) /\ IsFiniteSet(Earlier)
         /\ Cardinality(LoggersAlive) \in Nat /\ Cardinality(Earlier) \in Nat
         /\ Cardinality(LoggersAlive) <= Cardinality(Earlier) + 1
         /\ Last \notin LoggersAlive => Cardinality(LoggersAlive) = Cardinality(Earlier)
<1>1. DOMAIN loops = 1 .. Last /\ Last \in Nat
  BY DEF LogTyped, Last
<1>2. IsFiniteSet(1 .. Last) /\ Cardinality(1 .. Last) = Last
  BY <1>1, FS_Interval
<1>3. LoggersAlive \subseteq DOMAIN loops /\ Earlier \subseteq LoggersAlive
  BY DEF LoggersAlive, Earlier
<1>4. IsFiniteSet(LoggersAlive) /\ IsFiniteSet(Earlier)
  BY <1>1, <1>2, <1>3, FS_Subset
<1>5. Cardinality(LoggersAlive) \in Nat /\ Cardinality(Earlier) \in Nat
  BY <1>4, FS_CardinalityType
<1>6. Last \notin LoggersAlive => LoggersAlive = Earlier
  BY DEF Earlier
<1>7. Last \in LoggersAlive => LoggersAlive = Earlier \cup {Last} /\ Last \notin Earlier
  BY DEF Earlier
<1>8. Last \in LoggersAlive => Cardinality(LoggersAlive) = Cardinality(Earlier) + 1
  BY <1>4, <1>7, FS_AddElement
<1> QED BY <1>1, <1>2, <1>4, <1>5, <1>6, <1>8

\* Nobody else touches the logger, or takes the thread that loads to its start.
LEMMA LogFrame ==
  ASSUME Typed, [Next]_vars, ~ LogStep, ~ LoopStep
  PROVE  UNCHANGED logging /\ (pc'[Main] = "start logger" <=> pc[Main] = "start logger")
<1> USE StartersAreThreads DEF Typed
<1>1. CASE FillAny
  BY <1>1 DEF FillAny, FillStep, Find, Fill
<1>2. CASE PluginStep
  <2> USE DEF Go, GoFrom
  <2>1. CASE Begin
    BY <2>1 DEF Begin, Load, Announce
  <2>2. CASE BootStep
    BY <2>2 DEF BootStep, Boot
  <2>3. CASE DownStep
    BY <2>3 DEF DownStep, Compare, Clear, StopSweeper, AskToStop, Down
  <2>4. CASE ShutdownStep
    BY <2>4 DEF ShutdownStep, Shutdown
  <2>5. CASE \E t \in Starters : StartStep(t)
    BY <2>5 DEF StartStep, Check, Bind, StartThread, Remember, Publish, Leave, Raise
  <2> QED BY <1>2, <2>1, <2>2, <2>3, <2>4, <2>5 DEF PluginStep
<1>3. CASE \E s \in Servers : ServeStep(s)
  BY <1>3 DEF ServeStep, ServerStep, LoopEnds, ThreadEnds, PortFreed
<1>4. CASE \E t \in Relays : RelayStep(t)
  BY <1>4, RelayFrame, RuntimeAssumption, RelayAssumption
<1>5. CASE \E r \in Registrars : RegisterStep(r)
  BY <1>5, RegisterFrame, RuntimeAssumption, RelayAssumption
<1>6. CASE UNCHANGED vars
  BY <1>6 DEF vars
<1> QED BY <1>1, <1>2, <1>3, <1>4, <1>5, <1>6, Kinds

JoinStep == JoinLogger(Main, "join logger", "start logger")
RestartStep == StartLogger(Main, "start logger", "up")

\* The join in register adds to missed if the latest logger has not ended,
LEMMA JoinBounded ==
  ASSUME Typed, LogTyped, LogInv, JoinStep
  PROVE  (LogTyped /\ LogInv)'
<1> DEFINE waiting == loops # <<>> /\ loops[Cardinality(DOMAIN loops)].at # "over"
<1>1. /\ pc[Main] = "join logger" /\ pc'[Main] = "start logger" /\ UNCHANGED <<event, loops>>
      /\ missed' = missed + IF waiting THEN 1 ELSE 0
  BY RuntimeAssumption DEF JoinStep, JoinLogger, GoFrom, Go, Typed
<1>2. waiting => Last > 0
  <2>1. loops \in Seq(LoopRecords)
    BY DEF LogTyped
  <2>2. \A q \in Seq(LoopRecords) : q # <<>> => Len(q) > 0
    OBVIOUS
  <2> QED BY <2>1, <2>2 DEF Last
<1>3. ~ waiting => Last \notin LoggersAlive
  <2>1. loops = <<>> => LoggersAlive = {}
    BY DEF LoggersAlive
  <2>2. Cardinality(DOMAIN loops) = Last
    BY LoopsCounted
  <2>3. Last \in LoggersAlive => loops[Last].at # "over"
    BY DEF LoggersAlive
  <2> QED BY <2>1, <2>2, <2>3
<1>4. missed' \in Nat /\ (waiting => missed' = missed + 1) /\ (~ waiting => missed' = missed)
  <2>1. missed \in Nat
    BY DEF LogTyped
  <2>2. CASE waiting
    <3>1. missed' = missed + 1
      BY <1>1, <2>2
    <3> HIDE DEF waiting
    <3> QED BY <2>1, <2>2, <3>1
  <2>3. CASE ~ waiting
    <3>1. missed' = missed + 0
      BY <1>1, <2>3
    <3> HIDE DEF waiting
    <3> QED BY <2>1, <2>3, <3>1
  <2> QED BY <2>2, <2>3
<1> HIDE DEF waiting
<1>5. UNCHANGED <<LoggersAlive, Earlier, Last>>
  BY <1>1 DEF LoggersAlive, Earlier, Last
<1>6. LogTyped'
  BY <1>1, <1>4 DEF LogTyped
<1>7. Cardinality(Earlier) <= missed /\ (missed = 0 \/ missed < Last) /\ missed \in Nat
  BY <1>1 DEF LogInv, LogTyped
<1>8. Cardinality(LoggersAlive) <= missed' /\ missed' <= Last /\ Cardinality(Earlier) <= missed'
  <2> DEFINE a == Cardinality(LoggersAlive)
             b == Cardinality(Earlier)
             n == Last
  <2>1. /\ a \in Nat /\ b \in Nat /\ n \in Nat /\ a <= b + 1 /\ (~ waiting => a = b)
        /\ b <= missed /\ (missed = 0 \/ missed < n) /\ missed \in Nat
        /\ waiting => n > 0
    BY <1>2, <1>3, <1>7, LoopsCounted, Zenon
  <2> HIDE DEF a, b, n
  <2>2. a <= missed' /\ missed' <= n /\ b <= missed'
    BY <1>4, <2>1
  <2> QED BY <2>2 DEF a, b, n
<1> QED BY <1>1, <1>5, <1>6, <1>8 DEF LogInv

\* so the new one that is started next finds only missed ones.
LEMMA StartBounded ==
  ASSUME Typed, LogTyped, LogInv, RestartStep
  PROVE  (LogTyped /\ LogInv)'
<1> DEFINE e == Last + 1
           new == [at |-> "test", on |-> 0]
<1>1. Cardinality(DOMAIN loops) = Last /\ Last \in Nat /\ DOMAIN loops = 1 .. Last
  BY LoopsCounted
<1>2. /\ pc[Main] = "start logger" /\ pc'[Main] = "up" /\ UNCHANGED missed
      /\ event' = e /\ loops' = [i \in 1 .. e |-> IF i = e THEN new ELSE loops[i]]
  BY <1>1, RuntimeAssumption DEF RestartStep, StartLogger, GoFrom, Go, Typed
<1>3. e \in Nat /\ e = Last + 1 /\ new \in LoopRecords
  BY <1>1 DEF LoopRecords
<1>4. loops \in Seq(LoopRecords) /\ Last = Len(loops)
  BY DEF LogTyped, Last
<1> HIDE DEF e, new
<1>5. \A i \in 1 .. e : i # e => i \in 1 .. Last
  BY <1>1, <1>3
<1>6. \A i \in 1 .. Last : i \in 1 .. e /\ i # e
  BY <1>1, <1>3
<1>7. loops' \in [1 .. e -> LoopRecords] /\ \A i \in 1 .. Last : loops'[i] = loops[i]
  <2>1. \A i \in 1 .. Last : loops[i] \in LoopRecords
    BY <1>1, <1>4
  <2>2. loops' = [i \in 1 .. e |-> IF i = e THEN new ELSE loops[i]]
    BY <1>2
  <2>3. \A i \in 1 .. e : (IF i = e THEN new ELSE loops[i]) \in LoopRecords
    BY <1>3, <1>5, <2>1
  <2> QED BY <1>6, <2>2, <2>3, Zenon
<1>8. loops' \in Seq(LoopRecords) /\ Last' = e
  BY <1>3, <1>7 DEF Last
<1>9. Earlier' = LoggersAlive
  <2>1. Earlier' = {l \in 1 .. e : loops'[l].at # "over" /\ l # e}
    BY <1>7, <1>8 DEF Earlier, LoggersAlive
  <2>2. LoggersAlive = {l \in 1 .. Last : loops[l].at # "over"}
    BY <1>1 DEF LoggersAlive
  <2> QED BY <2>1, <2>2, <1>5, <1>6, <1>7
<1>10. LogTyped'
  <2>1. e \in DOMAIN loops'
    BY <1>1, <1>3, <1>7
  <2> QED BY <1>2, <1>8, <2>1 DEF LogTyped
<1>11. /\ Cardinality(LoggersAlive) <= missed /\ missed' < Last' /\ missed' = missed
  <2>1. Cardinality(LoggersAlive) <= missed /\ missed <= Last /\ missed \in Nat
    BY <1>2 DEF LogInv, LogTyped
  <2> DEFINE n == Last
  <2>2. n \in Nat /\ e = n + 1 /\ missed <= n /\ missed \in Nat
    BY <1>1, <1>3, <2>1
  <2> HIDE DEF n
  <2>3. missed < e
    BY <2>2
  <2> QED BY <1>2, <1>8, <2>1, <2>3
<1> QED BY <1>2, <1>9, <1>10, <1>11 DEF LogInv

\* A loop that ends is one fewer.
LEMMA LoopBounded ==
  ASSUME Typed, LogTyped, LogInv, LoopStep
  PROVE  (LogTyped /\ LogInv)'
<1>1. PICK l \in DOMAIN loops : (LoopTest(l) \/ LoopWake(l)) /\ UNCHANGED <<event, missed>>
  BY DEF LoopStep, LoggerStep
<1>2. \E r \in LoopRecords : loops[l].at # "over" /\ loops' = [loops EXCEPT ![l] = r]
  BY <1>1, LoopsCounted DEF LoopTest, LoopWake, LoopGoes, LogTyped, LoopRecords
<1>3. loops' \in Seq(LoopRecords) /\ DOMAIN loops' = DOMAIN loops /\ Last' = Last
  BY <1>2 DEF LogTyped, Last
<1>4. LoggersAlive' \subseteq LoggersAlive
  BY <1>2, <1>3 DEF LoggersAlive
<1>5. Earlier' \subseteq Earlier
  BY <1>3, <1>4 DEF Earlier
<1>6. /\ Cardinality(LoggersAlive') <= Cardinality(LoggersAlive) /\ Cardinality(LoggersAlive') \in Nat
      /\ Cardinality(Earlier') <= Cardinality(Earlier) /\ Cardinality(Earlier') \in Nat
  BY <1>4, <1>5, LoopsCounted, FS_Subset, FS_CardinalityType
<1>7. LogTyped'
  BY <1>1, <1>3 DEF LogTyped
<1>8. pc'[Main] = pc[Main] /\ missed' = missed
  BY <1>1 DEF LoopStep
<1>9. LogInv'
  <2> DEFINE a == Cardinality(LoggersAlive)
             b == Cardinality(Earlier)
             c == Cardinality(LoggersAlive')
             d == Cardinality(Earlier')
             starting == pc[Main] = "start logger"
  <2>1. /\ b <= missed /\ (starting => a <= missed)
        /\ a \in Nat /\ b \in Nat /\ c \in Nat /\ d \in Nat /\ c <= a /\ d <= b /\ missed \in Nat
    BY <1>6, LoopsCounted DEF LogInv, LogTyped
  <2> HIDE DEF a, b, c, d, starting
  <2>2. d <= missed /\ (starting => c <= missed)
    BY <2>1
  <2>3. Cardinality(Earlier)' <= missed' /\ (pc'[Main] = "start logger" => Cardinality(LoggersAlive)' <= missed')
    BY <1>8, <2>2 DEF c, d, starting
  <2> QED BY <1>3, <1>8, <2>3 DEF LogInv
<1> QED BY <1>7, <1>9

\* No logger runs at the start.
LEMMA LoggerBegins == Init => LogTyped /\ LogInv
<1> SUFFICES ASSUME Init PROVE LogTyped /\ LogInv
  OBVIOUS
<1>1. LogTyped /\ Last = 0 /\ missed = 0
  BY DEF Init, RInit, LogTyped, Last
<1>2. LoggersAlive = {} /\ Earlier = {}
  BY <1>1, LoopsCounted DEF LoggersAlive, Earlier
<1>3. Cardinality(LoggersAlive) = 0 /\ Cardinality(Earlier) = 0
  BY <1>2, FS_EmptySet
<1>4. pc[Main] = "idle"
  BY RuntimeAssumption DEF Init
<1> QED BY <1>1, <1>3, <1>4 DEF LogInv

\* LogInv is kept by every step,
LEMMA LogStepKept ==
  ASSUME Typed, LogTyped, LogInv, [Next]_vars
  PROVE  (LogTyped /\ LogInv)'
<1>1. CASE LoopStep
  BY <1>1, LoopBounded
<1>2. CASE ~ LogStep /\ ~ LoopStep
  BY <1>2, LogFrame DEF LogTyped, LogInv, logging, LoggersAlive, Earlier, Last
<1>3. CASE LogStep
  <2>1. CASE UNCHANGED <<loops, missed>> /\ event' \in {0, event} /\ {pc[Main], pc'[Main]} \cap {"start logger"} = {}
    BY <2>1 DEF LogTyped, LogInv, LoggersAlive, Earlier, Last
  <2>2. CASE JoinStep
    BY <2>2, JoinBounded
  <2>3. CASE RestartStep
    BY <2>3, StartBounded
  <2>4. LogStep => \/ UNCHANGED <<loops, missed>> /\ event' \in {0, event} /\ {pc[Main], pc'[Main]} \cap {"start logger"} = {}
                   \/ JoinStep \/ RestartStep
    BY RuntimeAssumption DEF LogStep, JoinStep, RestartStep, StopLogger, GoFrom, Go, logging, Typed
  <2> QED BY <1>3, <2>1, <2>2, <2>3, <2>4
<1> QED BY <1>1, <1>2, <1>3

\* and so always holds.
LEMMA LogKept == Spec => [](LogTyped /\ LogInv)
<1>1. Typed /\ (LogTyped /\ LogInv) /\ [Next]_vars => (LogTyped /\ LogInv)'
  BY LogStepKept
<1> QED BY TypesKept, LoggerBegins, <1>1, PTL DEF Spec

\* However often register is called, only loggers that outlived their join run beside the last.
THEOREM LoggersAreBounded == Spec => []LoggersBounded
<1>1. LogTyped /\ LogInv => LoggersBounded
  <2> SUFFICES ASSUME LogTyped, LogInv PROVE LoggersBounded
    OBVIOUS
  <2>1. Cardinality(LoggersAlive) <= Cardinality(Earlier) + 1 /\ Cardinality(Earlier) <= missed /\ missed \in Nat
    BY LoopsCounted DEF LogInv, LogTyped
  <2> QED BY <2>1, LoopsCounted DEF LoggersBounded
<1> QED BY LogKept, <1>1, PTL

-----------------------------------------------------------------------------
(* Messages to other agents' sessions *)
RelayStages == {"idle", "read", "metrics", "post", "count success", "count failure", "float", "done"}
Unsent == {"not found", "refused", "raised"}

\* What one relay has done, by how far it is.
Told(t) ==
  /\ pc[t] \in RelayStages
  /\ relays[t].copies <= relays[t].posts /\ relays[t].posts <= Deliveries
  /\ pc[t] \in {"idle", "read", "metrics"} => relays[t].posts = 0
  /\ pc[t] = "post" => relays[t].posts < Deliveries
  /\ pc[t] \in {"count success", "float"} => relays[t].copies > 0
  /\ pc[t] # "done" => relays[t].answer = "none"
  /\ relays[t].answer = "delivered" => relays[t].copies > 0
  /\ relays[t].answer \in Unsent => relays[t].copies = 0

\* A relay that has been counted was given metrics by an __init__ that has run.
Given(t) ==
  /\ relays[t].inits <= runtime.inits
  /\ pc[t] = "float" \/ relays[t].answer \in {"delivered", "failed"} => runtime.inits > 0

Delivered == {t \in Relays : pc[t] = "float" \/ relays[t].answer = "delivered"}
Failed == {t \in Relays : relays[t].answer = "failed"}

Counted ==
  runtime.inits <= 1 =>
    /\ runtime.metrics.successes = Cardinality(Delivered)
    /\ runtime.metrics.failures = Cardinality(Failed)

RelayInv == (\A t \in Relays : Told(t) /\ Given(t)) /\ Counted

\* What RelayInv says of each relay and of the counts is what is to be shown.
LEMMA ToldMeans ==
  ASSUME Typed, RelayInv
  PROVE  RelaysTold
<1>1. \A t \in Relays : pc[t] \notin {"delivered", "failed"} /\ relays[t].answer # "float"
  BY DEF RelayInv, Told, RelayStages, Typed, RelayTyped, RelayRecords, Answers
<1>2. Delivered = {t \in Relays : pc[t] \in {"float", "delivered"} \/ relays[t].answer \in {"float", "delivered"}}
  BY <1>1 DEF Delivered
<1>3. Failed = {t \in Relays : pc[t] \in {"failed"} \/ relays[t].answer \in {"failed"}}
  BY <1>1 DEF Failed
<1>4. MetricsTrue
  BY <1>2, <1>3, Zenon DEF MetricsTrue, Relayed, RelayInv, Counted
<1>5. DeliveryTold
  <2> SUFFICES ASSUME NEW t \in Relays
               PROVE  /\ relays[t].copies <= Deliveries
                      /\ relays[t].answer = "delivered" => relays[t].copies > 0
                      /\ relays[t].answer \in Unsent => relays[t].copies = 0
    BY DEF DeliveryTold, Unsent
  <2>1. Told(t) /\ relays[t].copies \in Nat /\ relays[t].posts \in Nat
    BY DEF RelayInv, Typed, RelayTyped, RelayRecords
  <2>2. relays[t].copies <= Deliveries
    <3>1. relays[t].copies <= relays[t].posts /\ relays[t].posts <= Deliveries
      BY <2>1 DEF Told
    <3> QED BY <2>1, <3>1, Limits
  <2> QED BY <2>1, <2>2 DEF Told
<1> QED BY <1>4, <1>5 DEF RelaysTold

\* There are finitely many relays.
LEMMA RelaySetsFinite ==
  /\ IsFiniteSet(Delivered) /\ IsFiniteSet(Failed)
  /\ Cardinality(Delivered) \in Nat /\ Cardinality(Failed) \in Nat
<1>1. IsFiniteSet(Relays) /\ Delivered \subseteq Relays /\ Failed \subseteq Relays
  BY RelayAssumption DEF Delivered, Failed
<1> QED BY <1>1, FS_Subset, FS_CardinalityType

\* Only a relay moves a relay, and only __init__ replaces the metrics.
LEMMA CountsFrame ==
  ASSUME Typed, [Next]_vars, ~ FillAny, ~ \E t \in Relays : RelayStep(t)
  PROVE  /\ runtime'.inits = runtime.inits /\ runtime'.metrics = runtime.metrics
         /\ UNCHANGED relays /\ \A t \in Relays : pc'[t] = pc[t]
<1> USE StartersAreThreads
<1>1. CASE PluginStep
  <2>1. runtime'.inits = runtime.inits /\ runtime'.metrics = runtime.metrics
    <3>1. PluginStep => UNCHANGED runtime \/ DownStep \/ \E t \in Starters : StartStep(t)
      BY DEF PluginStep, Begin, BootStep, LogStep, ShutdownStep, state
    <3>2. CASE DownStep
      <4>1. UNCHANGED runtime \/ SetServer(None)
        BY <3>2 DEF DownStep, Clear
      <4> QED BY <4>1, ServerNamed DEF Typed
    <3>3. ASSUME NEW t \in Starters, StartStep(t)
          PROVE  runtime'.inits = runtime.inits /\ runtime'.metrics = runtime.metrics
      <4>1. UNCHANGED runtime \/ SetServer(mine[t])
        BY <3>3 DEF StartStep, Publish
      <4>2. mine[t] \in Servers \cup {None}
        BY DEF Typed, PluginTyped
      <4> QED BY <4>1, <4>2, ServerNamed DEF Typed
    <3> QED BY <1>1, <3>1, <3>2, <3>3
  <2> QED BY <1>1, <2>1, PluginFrame DEF relayVars
<1>2. CASE LoopStep \/ \E s \in Servers : ServeStep(s)
  BY <1>2 DEF LoopStep, ServeStep, ServerStep, LoopEnds, ThreadEnds, PortFreed, relayVars, state
<1>3. CASE \E r \in Registrars : RegisterStep(r)
  BY <1>3, RegisterFrame DEF state
<1>4. CASE UNCHANGED vars
  BY <1>4 DEF vars, relayVars, state
<1> QED BY <1>1, <1>2, <1>3, <1>4, Kinds

\* The step of a relay keeps what holds of it.
LEMMA ToldKept ==
  ASSUME Typed, RelayInv, NEW t \in Relays, RelayStep(t)
  PROVE  Told(t)'
<1> USE StartersAreThreads, Limits
<1>1. /\ pc \in [Threads -> Stages] /\ t \in Threads /\ Told(t)
      /\ relays \in [Relays -> RelayRecords] /\ relays[t].copies \in Nat /\ relays[t].posts \in Nat
  BY DEF Typed, RelayTyped, RelayRecords, RelayInv
<1>10. pc[t] \in {"idle", "read"} => relays[t].copies = 0
  <2>1. relays[t].posts = 0 => relays[t].copies = 0
    <3>1. relays[t].copies <= relays[t].posts /\ relays[t].copies \in Nat
      BY <1>1 DEF Told
    <3> QED BY <3>1
  <2> QED BY <1>1, <2>1 DEF Told
<1>2. ASSUME NEW answer \in Answers, Say(t, answer),
             answer = "delivered" => relays[t].copies > 0,
             answer \in Unsent => relays[t].copies = 0
      PROVE  Told(t)'
  <2>1. /\ pc'[t] = "done" /\ relays'[t].answer = answer
        /\ relays'[t].posts = relays[t].posts /\ relays'[t].copies = relays[t].copies
    BY <1>1, <1>2, Answered
  <2> QED BY <1>1, <1>2, <2>1 DEF Told, RelayStages
<1>3. CASE Resolve(t)
  <2>1. relays[t].copies = 0 /\ pc[t] = "idle"
    BY <1>3, <1>10 DEF Resolve
  <2>2. CASE UNCHANGED relays /\ pc' = [pc EXCEPT ![t] = "read"]
    BY <1>1, <2>1, <2>2 DEF Told, RelayStages
  <2>3. CASE \E answer \in Unsent : Say(t, answer)
    BY <2>1, <2>3, <1>2 DEF Unsent, Answers
  <2> QED BY <1>3, <2>2, <2>3 DEF Resolve, Go, Unsent
<1>4. CASE ReadRaw(t)
  <2>1. relays[t].copies = 0 /\ pc[t] = "read"
    BY <1>4, <1>10 DEF ReadRaw
  <2>2. CASE UNCHANGED relays /\ pc' = [pc EXCEPT ![t] = "metrics"]
    BY <1>1, <2>1, <2>2 DEF Told, RelayStages
  <2>3. CASE \E answer \in Unsent : Say(t, answer)
    BY <2>1, <2>3, <1>2 DEF Unsent, Answers
  <2> QED BY <1>4, <2>2, <2>3 DEF ReadRaw, Go, Unsent
<1>5. CASE GetMetrics(t)
  <2>1. /\ pc[t] = "metrics" /\ pc'[t] = "post" /\ relays'[t].posts = relays[t].posts
        /\ relays'[t].copies = relays[t].copies /\ relays'[t].answer = relays[t].answer
    BY <1>1, <1>5 DEF GetMetrics, GoFrom, Go, RelayRecords
  <2> QED BY <1>1, <2>1 DEF Told, RelayStages, Unsent
<1>6. CASE Post(t)
  <2>1. PICK arrives \in BOOLEAN, answered \in BOOLEAN :
           /\ answered => arrives
           /\ pc' = [pc EXCEPT ![t] = IF answered THEN "count success"
                                      ELSE IF LastPost(t) THEN "count failure" ELSE "post"]
           /\ relays'[t].posts = relays[t].posts + 1
           /\ relays'[t].copies = relays[t].copies + IF arrives THEN 1 ELSE 0
           /\ relays'[t].answer = relays[t].answer
    BY <1>6, Posted
  <2>2. pc[t] = "post" /\ relays[t].posts < Deliveries /\ relays[t].answer = "none" /\ relays[t].copies <= relays[t].posts
    BY <1>1, <1>6 DEF Post, Told
  <2>3. /\ relays'[t].copies <= relays'[t].posts /\ relays'[t].posts <= Deliveries
        /\ arrives => relays'[t].copies > 0
        /\ ~ LastPost(t) => relays'[t].posts < Deliveries
    <3>1. /\ relays'[t].posts = relays[t].posts + 1
          /\ relays'[t].copies = relays[t].copies + IF arrives THEN 1 ELSE 0
          /\ relays[t].posts < Deliveries /\ relays[t].copies <= relays[t].posts
      BY <2>1, <2>2, Zenon
    <3>2. relays[t].copies \in Nat /\ relays[t].posts \in Nat
      BY <1>1
    <3> QED BY <3>1, <3>2 DEF LastPost
  <2> QED BY <1>1, <2>1, <2>2, <2>3 DEF Told, RelayStages, Unsent
<1>7. CASE CountSuccess(t)
  <2>1. pc[t] = "count success" /\ pc'[t] = "float" /\ relays'[t] = relays[t]
    BY <1>1, <1>7 DEF CountSuccess, GoFrom, Go
  <2> QED BY <1>1, <2>1 DEF Told, RelayStages
<1>8. CASE CountFailure(t)
  BY <1>8, <1>2 DEF CountFailure, Answers, Unsent
<1>9. CASE Float(t)
  BY <1>1, <1>9, <1>2 DEF Float, Answers, Unsent, Told
<1> QED BY <1>3, <1>4, <1>5, <1>6, <1>7, <1>8, <1>9 DEF RelayStep

\* A relay keeps what it was given, and is counted only once it was given something.
LEMMA GivenKept ==
  ASSUME Typed, RelayInv, NEW t \in Relays, RelayStep(t)
  PROVE  /\ Given(t)'
         /\ relays' \in [Relays -> RelayRecords] /\ \A u \in Relays : u # t => relays'[u] = relays[u]
<1> USE StartersAreThreads
<1>1. /\ pc \in [Threads -> Stages] /\ t \in Threads /\ Told(t) /\ Given(t) /\ relays \in [Relays -> RelayRecords]
      /\ relays[t] \in RelayRecords /\ runtime.inits \in Nat /\ runtime'.inits = runtime.inits
  BY RelayFrame DEF Typed, RelayTyped, RelayInv, RuntimeTyped
<1>2. CASE UNCHANGED relays /\ (CountSuccess(t) => relays[t].inits > 0)
  <2>1. pc'[t] = "float" => runtime.inits > 0
    <3>1. pc'[t] = "float" => CountSuccess(t)
      BY <1>1, <1>2 DEF RelayStep, Resolve, ReadRaw, GetMetrics, Post, CountSuccess, CountFailure, Float, Say, Go, GoFrom
    <3>2. relays[t].inits > 0 => runtime.inits > 0
      BY <1>1 DEF Given, RelayRecords
    <3> QED BY <1>2, <3>1, <3>2
  <2> QED BY <1>1, <1>2, <2>1 DEF Given
<1>3. ASSUME NEW answer \in Answers, Say(t, answer), answer \in {"delivered", "failed"} => runtime.inits > 0
      PROVE  Given(t)' /\ relays' \in [Relays -> RelayRecords] /\ \A u \in Relays : u # t => relays'[u] = relays[u]
  <2>1. /\ pc'[t] = "done" /\ relays'[t].answer = answer /\ relays'[t].inits = relays[t].inits
        /\ relays' \in [Relays -> RelayRecords] /\ \A u \in Relays : u # t => relays'[u] = relays[u]
    BY <1>1, <1>3, Answered
  <2> QED BY <1>1, <1>3, <2>1 DEF Given
<1>4. pc[t] \in {"count success", "count failure"} => relays[t].inits > 0 /\ runtime.inits > 0
  <2>1. relays[t].inits > 0 => runtime.inits > 0
    BY <1>1 DEF Given, RelayRecords
  <2> QED BY <2>1 DEF Typed
<1>5. CASE Resolve(t) \/ ReadRaw(t)
  <2>1. CASE UNCHANGED relays
    BY <1>1, <1>5, <2>1, <1>2 DEF Resolve, ReadRaw, CountSuccess, GoFrom
  <2>2. CASE \E answer \in Unsent : Say(t, answer)
    BY <2>2, <1>3 DEF Unsent, Answers
  <2> QED BY <1>5, <2>1, <2>2 DEF Resolve, ReadRaw, Unsent
<1>6. CASE GetMetrics(t)
  <2>1. /\ pc'[t] = "post" /\ relays'[t].inits = runtime.inits /\ relays'[t].answer = relays[t].answer
        /\ relays' \in [Relays -> RelayRecords] /\ \A u \in Relays : u # t => relays'[u] = relays[u]
    BY <1>1, <1>6 DEF GetMetrics, GoFrom, Go, RelayRecords
  <2>2. runtime.inits <= runtime.inits
    BY <1>1
  <2> QED BY <1>1, <2>1, <2>2 DEF Given
<1>7. CASE Post(t)
  <2>1. /\ pc'[t] # "float" /\ relays'[t].inits = relays[t].inits /\ relays'[t].answer = relays[t].answer
        /\ relays' \in [Relays -> RelayRecords] /\ \A u \in Relays : u # t => relays'[u] = relays[u]
    <3>1. PICK there \in {"count success", "count failure", "post"} : pc' = [pc EXCEPT ![t] = there]
      BY <1>7, Posted
    <3>2. pc'[t] # "float"
      BY <1>1, <3>1
    <3> QED BY <1>7, <3>2, Posted
  <2> QED BY <1>1, <2>1 DEF Given
<1>8. CASE CountSuccess(t)
  BY <1>1, <1>2, <1>4, <1>8 DEF CountSuccess, GoFrom
<1>9. CASE CountFailure(t)
  BY <1>3, <1>4, <1>9 DEF CountFailure, Answers
<1>10. CASE Float(t)
  BY <1>1, <1>3, <1>10 DEF Float, Answers, Given
<1> QED BY <1>5, <1>6, <1>7, <1>8, <1>9, <1>10 DEF RelayStep

\* record_webhook_result counts a relay in the step that changes what is known of it.
LEMMA CountedKept ==
  ASSUME Typed, RelayInv, NEW t \in Relays, RelayStep(t)
  PROVE  Counted'
<1> USE StartersAreThreads
<1>1. /\ pc \in [Threads -> Stages] /\ t \in Threads /\ Told(t) /\ Given(t)
      /\ runtime.inits \in Nat /\ runtime'.inits = runtime.inits /\ Counted
      /\ \A u \in Relays : u # t => pc'[u] = pc[u] /\ relays'[u] = relays[u]
  BY RelayFrame, GivenKept DEF Typed, RuntimeTyped, RelayInv
<1>2. CASE CountSuccess(t)
  <2>1. pc[t] = "count success" /\ pc'[t] = "float" /\ UNCHANGED relays /\ relays[t].answer = "none"
    BY <1>1, <1>2 DEF CountSuccess, GoFrom, Go, Told
  <2>2. Delivered' = Delivered \cup {t} /\ t \notin Delivered /\ Failed' = Failed
    BY <1>1, <2>1 DEF Delivered, Failed
  <2>3. Cardinality(Delivered') = Cardinality(Delivered) + 1
    BY <2>2, RelaySetsFinite, FS_AddElement
  <2>4. runtime.inits <= 1 => relays[t].inits = runtime.inits
    <3>1. relays[t].inits > 0 /\ relays[t].inits <= runtime.inits /\ relays[t].inits \in Nat
      BY <1>1, <2>1 DEF Typed, RelayTyped, RelayRecords, Given
    <3>2. runtime.inits \in Nat
      BY <1>1
    <3> QED BY <3>1, <3>2
  <2>5. relays[t].inits = runtime.inits =>
          /\ runtime'.metrics.successes = runtime.metrics.successes + 1
          /\ runtime'.metrics.failures = runtime.metrics.failures
    BY <1>2, RecordCounts DEF Typed, CountSuccess
  <2> QED BY <1>1, <2>2, <2>3, <2>4, <2>5 DEF Counted
<1>3. CASE CountFailure(t)
  <2>1. pc[t] = "count failure" /\ pc'[t] = "done" /\ relays'[t].answer = "failed" /\ relays[t].answer = "none"
    BY <1>1, <1>3, Answered DEF CountFailure, Told, Answers
  <2>2. Failed' = Failed \cup {t} /\ t \notin Failed /\ Delivered' = Delivered
    BY <1>1, <2>1 DEF Delivered, Failed
  <2>3. Cardinality(Failed') = Cardinality(Failed) + 1
    BY <2>2, RelaySetsFinite, FS_AddElement
  <2>4. runtime.inits <= 1 => relays[t].inits = runtime.inits
    <3>1. relays[t].inits > 0 /\ relays[t].inits <= runtime.inits /\ relays[t].inits \in Nat
      BY <1>1, <2>1 DEF Typed, RelayTyped, RelayRecords, Given
    <3>2. runtime.inits \in Nat
      BY <1>1
    <3> QED BY <3>1, <3>2
  <2>5. relays[t].inits = runtime.inits =>
          /\ runtime'.metrics.successes = runtime.metrics.successes
          /\ runtime'.metrics.failures = runtime.metrics.failures + 1
    BY <1>3, RecordCounts DEF Typed, CountFailure
  <2> QED BY <1>1, <2>2, <2>3, <2>4, <2>5 DEF Counted
<1>4. CASE UNCHANGED runtime /\ ~ CountSuccess(t) /\ ~ CountFailure(t)
  <2>1. Delivered' = Delivered /\ Failed' = Failed
    <3>1. ASSUME pc[t] = "float" \/ relays[t].answer = "delivered" <=> pc'[t] = "float" \/ relays'[t].answer = "delivered",
                 relays[t].answer = "failed" <=> relays'[t].answer = "failed"
          PROVE  Delivered' = Delivered /\ Failed' = Failed
      BY <1>1, <3>1 DEF Delivered, Failed
    <3>2. ASSUME NEW answer \in Unsent, Say(t, answer), pc[t] \in {"idle", "read"}
          PROVE  Delivered' = Delivered /\ Failed' = Failed
      <4>1. pc'[t] = "done" /\ relays'[t].answer = answer /\ relays[t].answer = "none"
        BY <1>1, <3>2, Answered DEF Unsent, Answers, Told
      <4> QED BY <3>1, <3>2, <4>1 DEF Unsent
    <3>3. CASE Resolve(t)
      <4>1. CASE UNCHANGED relays
        BY <1>1, <3>1, <3>3, <4>1 DEF Resolve, Go, Say
      <4> QED BY <3>2, <3>3, <4>1 DEF Resolve, Unsent
    <3>4. CASE ReadRaw(t)
      <4>1. CASE UNCHANGED relays /\ Go(t, "metrics")
        BY <1>1, <3>1, <3>4, <4>1 DEF ReadRaw, Go
      <4> QED BY <3>2, <3>4, <4>1 DEF ReadRaw, Unsent
    <3>5. CASE GetMetrics(t)
      <4>1. pc[t] = "metrics" /\ pc'[t] = "post" /\ relays'[t].answer = relays[t].answer
        <5>1. relays \in [Relays -> RelayRecords] /\ relays' = [relays EXCEPT ![t] = [relays[t] EXCEPT !.inits = runtime.inits]]
          BY <3>5 DEF GetMetrics, Typed, RelayTyped
        <5>2. relays'[t].answer = relays[t].answer
          BY <5>1 DEF RelayRecords
        <5> QED BY <1>1, <3>5, <5>2 DEF GetMetrics, GoFrom, Go
      <4> QED BY <3>1, <4>1
    <3>6. CASE Post(t)
      <4>1. pc[t] = "post" /\ pc'[t] # "float" /\ relays'[t].answer = relays[t].answer
        BY <1>1, <3>6, Posted DEF Post
      <4> QED BY <3>1, <4>1
    <3>7. CASE Float(t)
      <4>1. pc[t] = "float" /\ relays'[t].answer = "delivered" /\ relays[t].answer = "none"
        BY <1>1, <3>7, Answered DEF Float, Answers, Told
      <4> QED BY <3>1, <4>1
    <3> QED BY <1>4, <3>3, <3>4, <3>5, <3>6, <3>7 DEF RelayStep
  <2> QED BY <1>1, <1>4, <2>1 DEF Counted
<1> QED BY <1>2, <1>3, <1>4 DEF RelayStep

\* Nothing has been relayed at the start.
LEMMA RelaysBegin == Init => RelayInv
<1> SUFFICES ASSUME Init PROVE RelayInv
  OBVIOUS
<1>1. \A t \in Relays : pc[t] = "idle" /\ relays[t] = Unread
  BY StartersAreThreads DEF Init, RelayInit
<1>2. Unread.posts = 0 /\ Unread.copies = 0 /\ Unread.inits = 0 /\ Unread.answer = "none"
  BY DEF Unread
<1>3. runtime.inits = 0 /\ runtime.metrics.successes = 0 /\ runtime.metrics.failures = 0
  BY DEF Init, RInit, NoMetrics
<1>4. \A t \in Relays : Told(t)
  <2>1. 0 <= 0 /\ 0 <= Deliveries
    BY Limits
  <2> QED BY <1>1, <1>2, <2>1 DEF Told, RelayStages, Unsent
<1>5. \A t \in Relays : Given(t)
  BY <1>1, <1>2, <1>3 DEF Given
<1>6. Delivered = {} /\ Failed = {}
  BY <1>1, <1>2 DEF Delivered, Failed
<1>7. Counted
  BY <1>3, <1>6, FS_EmptySet DEF Counted
<1> QED BY <1>4, <1>5, <1>7 DEF RelayInv

\* RelayInv is kept by every step.
LEMMA RelayKept ==
  ASSUME Typed, RelayInv, [Next]_vars
  PROVE  RelayInv'
<1>1. ASSUME NEW t \in Relays, RelayStep(t) PROVE RelayInv'
  <2>1. ASSUME NEW u \in Relays, u # t PROVE Told(u)' /\ Given(u)'
    <3>1. pc'[u] = pc[u] /\ relays'[u] = relays[u] /\ runtime'.inits = runtime.inits
      BY <1>1, <2>1, RelayFrame, GivenKept, StartersAreThreads
    <3> QED BY <3>1 DEF RelayInv, Told, Given
  <2>2. Told(t)' /\ Given(t)'
    BY <1>1, ToldKept, GivenKept
  <2>3. Counted'
    BY <1>1, CountedKept
  <2> QED BY <2>1, <2>2, <2>3 DEF RelayInv
<1>2. CASE FillAny
  <2>1. PICK t \in Threads : FillStep(t)
    BY <1>2 DEF FillAny
  <2>2. UNCHANGED <<pc, relays>>
    BY <2>1 DEF FillStep, Find, Fill, relayVars
  <2>3. CASE UNCHANGED runtime
    BY <2>2, <2>3 DEF RelayInv, Told, Given, Counted, Delivered, Failed
  <2>4. CASE Fill(t)
    <3>1. runtime'.inits = runtime.inits + 1 /\ runtime'.metrics = NoMetrics
      BY <2>4 DEF Fill
    <3>2. runtime.inits \in Nat
      BY DEF Typed, RuntimeTyped
    <3>3. \A u \in Relays : Told(u)'
      BY <2>2 DEF RelayInv, Told
    <3>4. ASSUME NEW u \in Relays PROVE Given(u)'
      <4>1. relays[u].inits \in Nat /\ relays[u].inits <= runtime.inits
        BY DEF RelayInv, Given, Typed, RelayTyped, RelayRecords
      <4>2. relays[u].inits <= runtime.inits + 1 /\ runtime.inits + 1 > 0
        BY <3>2, <4>1
      <4> QED BY <2>2, <3>1, <4>2 DEF Given
    <3>5. Counted'
      <4> SUFFICES ASSUME runtime'.inits <= 1
                   PROVE  /\ runtime'.metrics.successes = Cardinality(Delivered')
                          /\ runtime'.metrics.failures = Cardinality(Failed')
        BY DEF Counted
      <4>1. ~ (runtime.inits > 0)
        BY <3>1, <3>2
      <4>2. Delivered' = {} /\ Failed' = {}
        BY <2>2, <4>1 DEF RelayInv, Given, Delivered, Failed
      <4>3. Cardinality(Delivered') = 0 /\ Cardinality(Failed') = 0
        BY <4>2, FS_EmptySet
      <4> QED BY <3>1, <4>3 DEF NoMetrics
    <3> QED BY <3>3, <3>4, <3>5 DEF RelayInv
  <2> QED BY <2>1, <2>3, <2>4 DEF FillStep, Find
<1>3. CASE ~ FillAny /\ ~ \E t \in Relays : RelayStep(t)
  BY <1>3, CountsFrame DEF RelayInv, Told, Given, Counted, Delivered, Failed
<1> QED BY <1>1, <1>2, <1>3

\* What a2a_send_session_message answers, and what is counted of it, is what was sent.
THEOREM RelaysAreTold == Spec => []RelaysTold
<1>1. Typed /\ RelayInv /\ [Next]_vars => RelayInv'
  BY RelayKept
<1>2. Typed /\ RelayInv => RelaysTold
  BY ToldMeans
<1> QED BY TypesKept, RelaysBegin, <1>1, <1>2, PTL DEF Spec

-----------------------------------------------------------------------------
(* The server *)
Loaded == {"stop logger", "join logger", "start logger", "up"}
Calm == Stages \ (Starting \cup Downing)
Once == {"serving", "asked", "stopped", "draining", "ended"}
Stage(s) == servers[s].stage
Made(s) == Stage(s) # "unmade"

\* Servers are made one after the other, and each has its port to itself.
Ordered ==
  /\ \A s, r \in Servers : r < s /\ Made(s) => Made(r)
  /\ \A s \in Servers : ~ Made(s) => servers[s] = Unmade
PortsApart ==
  \A s, r \in Servers : s # r /\ Listening(s) /\ Listening(r) => servers[s].port # servers[r].port

\* What a server is about, somebody is about.
Accounted ==
  \A s \in Servers :
    /\ Stage(s) = "bound" => \E t \in Starters : pc[t] = "thread" /\ mine[t] = s
    /\ Stage(s) = "asked" => pc[Main] = "await" /\ mine[Main] = s
    /\ Stage(s) \in Once \ {"serving"} => ~ servers[s].sweeping

\* What somebody is about, is so.
Hands ==
  /\ \A t \in Starters : pc[t] \in Downing \cup Loaded => t = Main
  /\ \A t \in Starters : pc[t] = "thread" => Stage(mine[t]) = "bound"
  /\ \A t \in Starters : pc[t] \in {"remember", "publish"} => Stage(mine[t]) = "serving"
  /\ pc[Main] \in Downing => Stage(mine[Main]) \in Once
  /\ pc[Main] = "ask" => ~ servers[mine[Main]].sweeping
  /\ runtime.server # None => Stage(runtime.server) \in Once
  /\ process # None => Stage(process) \in Once

\* No two threads are about the same server, and one that is not published is not named.
Apart ==
  /\ \A t, u \in Starters : t # u /\ mine[t] # None => mine[t] # mine[u]
  /\ \A t \in Starters : pc[t] \in Holding => mine[t] # runtime.server

StillServed == pc[Main] \in Loaded /\ ~ hasty => Serving # {}

\* While no two threads were inside _start_a2a_server, what runs is remembered.
Remembered ==
  /\ \A t, u \in Starters : pc[t] \in Starting /\ pc[u] \in Starting => t = u
  /\ \A s \in Servers : Alive(s) => s = process \/ \E t \in Starters : pc[t] = "remember" /\ mine[t] = s
  /\ \A t \in Starters : pc[t] \in {"bind", "thread", "remember"} => ~ Alive(process)
  /\ \A t \in Starters : pc[t] = "publish" => process = mine[t]

\* If __init__ ran once, besides, the state names what serves, and during on_shutdown
\* the server it is for, or a later one.
Named ==
  /\ runtime.server # None => Stage(runtime.server) = "serving"
  /\ pc[Main] \in {"compare", "clear"} => runtime.server = mine[Main]
  /\ pc[Main] \in {"sweeper", "ask", "await"} =>
       /\ runtime.server # None => runtime.server > mine[Main]
       /\ \A t \in Starters : pc[t] \in Holding => mine[t] > mine[Main]
  /\ \A s \in Servers : Stage(s) = "serving" => runtime.server = s \/ \E t \in Starters : mine[t] = s

ServerInv ==
  /\ Ordered /\ PortsApart /\ Accounted /\ Hands /\ Apart /\ StillServed
  /\ ~ clashed => Remembered
  /\ OneAtATime => Named

\* None is no server.
LEMMA ServersAreNumbers == Servers \subseteq Nat \ {0} /\ None \notin Servers
<1> DEFINE n == Cardinality(Servers)
<1>1. Servers = 1 .. n /\ None \notin Servers
  BY RuntimeAssumption, Zenon
<1> HIDE DEF n
<1>2. \A s \in 1 .. n : s \in Nat \ {0}
  OBVIOUS
<1> QED BY <1>1, <1>2, Zenon

\* The next server to be made has a larger number than any that was.
LEMMA NewestIsLast ==
  ASSUME Ordered, NEW s \in Servers, NEW r \in Servers, ~ Made(s), Made(r)
  PROVE  s > r
<1>1. s # r /\ ~ (s < r)
  BY DEF Ordered
<1>2. s \in Nat /\ r \in Nat
  BY ServersAreNumbers
<1> QED BY <1>1, <1>2

\* What a thread has in its hands is a server.
LEMMA InHand ==
  ASSUME Typed
  PROVE  /\ \A t \in Starters : pc[t] \in Holding \cup Downing <=> mine[t] \in Servers
         /\ \A t \in Starters : pc[t] \notin Holding \cup Downing <=> mine[t] = None
         /\ runtime.server \in Servers \cup {None} /\ process \in Servers \cup {None}
         /\ runtime.inits \in Nat /\ clashed \in BOOLEAN
BY RuntimeAssumption DEF Typed, Held, PluginTyped, RuntimeTyped

\* While on_shutdown compares and clears, nobody starts a server.
LEMMA NobodyStarts ==
  ASSUME Typed, ServerInv, OneAtATime, pc[Main] \in {"compare", "clear"}
  PROVE  \A t \in Starters : pc[t] \notin Starting
<1>1. Remembered /\ Named /\ Apart /\ Main \in Starters
  BY StartersAreThreads DEF ServerInv, OneAtATime
<1>2. mine[Main] \in Servers /\ runtime.server = mine[Main] /\ Stage(mine[Main]) = "serving"
  BY <1>1, InHand, ServersAreNumbers DEF Named, Downing
<1>3. Alive(mine[Main])
  BY <1>2, ServersAreNumbers DEF Alive, Stage
<1>4. mine[Main] = process
  <2>1. ASSUME NEW t \in Starters, pc[t] = "remember", mine[t] = mine[Main] PROVE FALSE
    BY <1>1, <1>2, <2>1, ServersAreNumbers DEF Apart
  <2> QED BY <1>1, <1>2, <1>3, <2>1 DEF Remembered
<1>5. \A t \in Starters : pc[t] # "publish"
  BY <1>1, <1>2, <1>4, ServersAreNumbers DEF Remembered, Apart
<1> QED BY <1>1, <1>3, <1>4, <1>5 DEF Remembered, Starting

\* When a server is about to be published, the state names none.
LEMMA NoneNamed ==
  ASSUME Typed, ServerInv, OneAtATime, NEW t \in Starters, pc[t] = "publish"
  PROVE  runtime.server = None
<1>1. Remembered /\ Named /\ Apart
  BY DEF ServerInv, OneAtATime
<1> SUFFICES ASSUME runtime.server # None PROVE FALSE
  OBVIOUS
<1>2. runtime.server \in Servers /\ Alive(runtime.server)
  BY <1>1, InHand DEF Named, Alive, Stage
<1>3. runtime.server # process
  BY <1>1 DEF Remembered, Apart, Holding
<1>4. \A u \in Starters : pc[u] # "remember"
  BY <1>1 DEF Remembered, Starting
<1> QED BY <1>1, <1>2, <1>3, <1>4 DEF Remembered

-----------------------------------------------------------------------------
(* Steps that do not make, move, or name a server *)
\* A step elsewhere, of a thread that neither starts nor stops a server.
LEMMA ElsewhereKept ==
  ASSUME ServerInv, UNCHANGED <<servers, process, mine, clashed, hasty>>,
         \A t \in Starters : pc'[t] = pc[t],
         runtime'.server = runtime.server, runtime'.inits = runtime.inits
  PROVE  ServerInv'
<1>1. (Ordered /\ PortsApart)'
  BY DEF ServerInv, Ordered, PortsApart, Made, Stage, Listening
<1>2. (Accounted /\ Hands /\ Apart)'
  BY StartersAreThreads DEF ServerInv, Accounted, Hands, Apart, Stage
<1>3. StillServed'
  BY StartersAreThreads DEF ServerInv, StillServed, Serving
<1>4. ~ clashed' => Remembered'
  BY DEF ServerInv, Remembered, Alive
<1>5. OneAtATime' => Named'
  BY StartersAreThreads DEF ServerInv, Named, OneAtATime, Stage
<1> QED BY <1>1, <1>2, <1>3, <1>4, <1>5 DEF ServerInv

\* A step of a thread that has no server in its hands, to a place where it has none.
LEMMA CalmKept ==
  ASSUME Typed, ServerInv, UNCHANGED <<servers, process, mine, clashed, hasty, runtime>>,
         NEW t \in Starters, NEW there \in Calm, pc' = [pc EXCEPT ![t] = there], pc[t] \in Calm,
         there \in Loaded => t = Main /\ pc[t] \in Loaded
  PROVE  ServerInv'
<1>1. /\ pc'[t] = there /\ \A u \in Starters : u # t => pc'[u] = pc[u]
  BY StartersAreThreads DEF Typed
<1>2. /\ Calm \cap (Starting \cup Downing \cup Holding) = {}
      /\ Holding \subseteq Starting
  BY DEF Calm, Holding, Starting
<1>3. (Ordered /\ PortsApart)'
  BY DEF ServerInv, Ordered, PortsApart, Made, Stage, Listening
<1>4. Accounted'
  BY <1>1, <1>2 DEF ServerInv, Accounted, Stage, Starting, Downing
<1>5. Hands'
  BY <1>1, <1>2 DEF ServerInv, Hands, Stage, Starting, Downing
<1>6. Apart'
  BY <1>1, <1>2 DEF ServerInv, Apart
<1>7. StillServed'
  BY <1>1 DEF ServerInv, StillServed, Serving
<1>8. ~ clashed' => Remembered'
  BY <1>1, <1>2 DEF ServerInv, Remembered, Alive, Starting
<1>9. OneAtATime' => Named'
  BY <1>1, <1>2 DEF ServerInv, Named, OneAtATime, Stage, Downing
<1> QED BY <1>3, <1>4, <1>5, <1>6, <1>7, <1>8, <1>9 DEF ServerInv

\* A second __init__ forgets the server that the state named.
LEMMA FillKept ==
  ASSUME Typed, ServerInv, FillAny
  PROVE  ServerInv'
<1>1. PICK t \in Threads : FillStep(t)
  BY DEF FillAny
<1>2. UNCHANGED <<pc, servers, process, mine, clashed, hasty>>
  BY <1>1 DEF FillStep, Find, Fill, pluginVars, server, ghosts
<1>3. CASE UNCHANGED runtime
  BY <1>2, <1>3, ElsewhereKept
<1>4. CASE Fill(t)
  <2>1. runtime'.server = None /\ runtime'.inits = runtime.inits + 1
    BY <1>4 DEF Fill
  <2>2. (Ordered /\ PortsApart /\ Accounted)'
    BY <1>2 DEF ServerInv, Ordered, PortsApart, Made, Stage, Listening, Accounted
  <2>3. Hands' /\ StillServed' /\ (~ clashed' => Remembered')
    BY <1>2, <2>1 DEF ServerInv, Hands, Stage, StillServed, Serving, Remembered, Alive
  <2>4. Apart'
    BY <1>2, <2>1, InHand, ServersAreNumbers DEF ServerInv, Apart
  <2>5. OneAtATime' => Named'
    <3>1. OneAtATime' => runtime.inits = 0 /\ OneAtATime
      BY <1>2, <2>1, InHand DEF OneAtATime
    <3>2. runtime.inits = 0 => runtime.server = None
      BY DEF Typed, RuntimeTyped
    <3>3. OneAtATime' => runtime'.server = runtime.server /\ Named
      BY <2>1, <3>1, <3>2 DEF ServerInv
    <3> QED BY <1>2, <3>3 DEF Named, Stage
  <2> QED BY <2>2, <2>3, <2>4, <2>5 DEF ServerInv
<1> QED BY <1>1, <1>3, <1>4 DEF FillStep, Find

-----------------------------------------------------------------------------
(* _start_a2a_server *)
\* The test at the head: a server is found, or the thread goes on to make one.
LEMMA CheckKept ==
  ASSUME Typed, ServerInv, NEW t \in Starters, Check(t), UNCHANGED runtime
  PROVE  ServerInv'
<1> USE StartersAreThreads
<1>1. /\ UNCHANGED <<servers, process, mine>>
      /\ pc[t] = "check" /\ pc'[t] \in {"bind", Leave(t)} /\ \A u \in Starters : u # t => pc'[u] = pc[u]
      /\ pc'[t] = "bind" => /\ ~ Alive(process) /\ UNCHANGED hasty
                            /\ ~ clashed' => ~ clashed /\ \A u \in Starters \ {t} : pc[u] \notin Starting
      /\ pc'[t] # "bind" => /\ Alive(process) /\ UNCHANGED clashed
                            /\ ~ hasty' => ~ hasty /\ (t = Main => Stage(process) # "stopped")
  BY DEF Check, Found, Go, Typed, Leave, Stage
<1>2. Leave(t) \in {"stop logger", "done"} /\ (Leave(t) = "stop logger" => t = Main)
  BY DEF Leave
<1>3. (Ordered /\ PortsApart)'
  BY <1>1 DEF ServerInv, Ordered, PortsApart, Made, Stage, Listening
<1>4. Accounted'
  <2> SUFFICES ASSUME NEW s \in Servers
               PROVE  /\ (Stage(s) = "bound" => \E u \in Starters : pc[u] = "thread" /\ mine[u] = s)'
                      /\ (Stage(s) = "asked" => pc[Main] = "await" /\ mine[Main] = s)'
                      /\ (Stage(s) \in Once \ {"serving"} => ~ servers[s].sweeping)'
    BY DEF Accounted
  <2>1. Stage(s)' = Stage(s) /\ servers'[s] = servers[s]
    BY <1>1 DEF Stage
  <2>2. \A u \in Starters : pc[u] # "check" => pc'[u] = pc[u]
    BY <1>1
  <2> QED BY <1>1, <2>1, <2>2 DEF ServerInv, Accounted
<1>5. Hands'
  BY <1>1, <1>2 DEF ServerInv, Hands, Stage, Downing, Loaded
<1>6. Apart'
  BY <1>1, <1>2 DEF ServerInv, Apart, Holding
<1>7. StillServed'
  <2>1. CASE t = Main /\ pc'[t] # "bind" /\ ~ hasty'
    <3>1. Stage(process) \in {"serving", "asked"} /\ process \in Servers
      BY <1>1, <2>1, InHand DEF Alive, Stage
    <3>2. Stage(process) # "asked"
      BY <1>1, <2>1, <3>1 DEF ServerInv, Accounted
    <3>3. process \in Serving
      BY <3>1, <3>2 DEF Serving, Stage
    <3> QED BY <1>1, <3>3 DEF StillServed, Serving
  <2>2. CASE t = Main /\ pc'[t] = "bind"
    BY <1>1, <2>2 DEF StillServed, Loaded
  <2>3. CASE t # Main
    BY <1>1, <2>3 DEF ServerInv, StillServed, Serving
  <2> QED BY <2>1, <2>2, <2>3 DEF StillServed
<1>8. ~ clashed' => Remembered'
  <2> SUFFICES ASSUME ~ clashed' PROVE Remembered'
    OBVIOUS
  <2>1. Remembered
    BY <1>1 DEF ServerInv
  <2> QED BY <1>1, <1>2, <2>1 DEF Remembered, Alive, Starting
<1>9. OneAtATime' => Named'
  <2> SUFFICES ASSUME OneAtATime' PROVE Named'
    OBVIOUS
  <2>1. Named
    BY <1>1 DEF ServerInv, OneAtATime
  <2> QED BY <1>1, <1>2, <2>1 DEF Named, Stage, Holding
<1> QED BY <1>3, <1>4, <1>5, <1>6, <1>7, <1>8, <1>9 DEF ServerInv

\* What an attempt to bind does to the server it makes, and to the thread that makes it.
LEMMA BindDoes ==
  ASSUME Typed, NEW t \in Starters, Bind(t)
  PROVE  /\ UNCHANGED <<process, clashed, hasty>> /\ pc[t] = "bind" /\ mine[t] = None
         /\ \A u \in Starters : u # t => pc'[u] = pc[u] /\ mine'[u] = mine[u]
         /\ \E s \in Servers :
              /\ servers[s] = Unmade /\ \A r \in Servers : r < s => servers[r] # Unmade
              /\ \A r \in Servers : r # s => servers'[r] = servers[r]
              /\ servers'[s].port = attempt[t]
              /\ \/ /\ servers'[s].stage = "failed" /\ mine'[t] = None
                    /\ pc'[t] \in {"bind", "refused", "done"}
                 \/ /\ servers'[s].stage = "bound" /\ mine'[t] = s /\ pc'[t] = "thread"
                    /\ \A r \in Servers : Listening(r) => servers[r].port # attempt[t]
<1> USE StartersAreThreads
<1>1. UNCHANGED <<process, clashed, hasty>> /\ pc[t] = "bind"
  BY DEF Bind, ghosts
<1>2. mine[t] = None
  BY <1>1, InHand DEF Holding, Downing
<1>3. PICK s \in Servers :
        /\ servers[s] = Unmade /\ \A r \in 1 .. s - 1 : servers[r] # Unmade
        /\ LET taken == \/ attempt[t] \in foreign
                        \/ \E r \in Servers : Listening(r) /\ servers[r].port = attempt[t]
               stage == IF taken THEN "failed" ELSE "bound"
           IN /\ servers' = [servers EXCEPT ![s] = [stage |-> stage, port |-> attempt[t], sweeping |-> TRUE]]
              /\ IF taken
                 THEN /\ Go(t, IF LastTry(t) THEN Raise(t) ELSE "bind")
                      /\ attempt' = [attempt EXCEPT ![t] = @ + 1]
                      /\ UNCHANGED mine
                 ELSE /\ Go(t, "thread") /\ mine' = [mine EXCEPT ![t] = s] /\ UNCHANGED attempt
  BY DEF Bind
<1>4. \A r \in Servers : r < s => r \in 1 .. s - 1
  BY ServersAreNumbers
<1>5. /\ \A u \in Starters : u # t => pc'[u] = pc[u] /\ mine'[u] = mine[u]
      /\ \A r \in Servers : r # s => servers'[r] = servers[r]
      /\ servers'[s].port = attempt[t]
      /\ \/ /\ servers'[s].stage = "failed" /\ mine'[t] = None
            /\ pc'[t] \in {"bind", "refused", "done"}
         \/ /\ servers'[s].stage = "bound" /\ mine'[t] = s /\ pc'[t] = "thread"
            /\ \A r \in Servers : Listening(r) => servers[r].port # attempt[t]
  <2>1. /\ pc \in [Threads -> Stages] /\ mine \in [Starters -> Servers \cup {None}]
        /\ servers \in [Servers -> ServerRecords]
    BY DEF Typed, PluginTyped
  <2> QED BY <1>2, <1>3, <2>1 DEF Go, Raise
<1> QED BY <1>1, <1>2, <1>3, <1>4, <1>5

\* A2AServer(): a new server, with a port of its own or failed.
LEMMA BindKept ==
  ASSUME Typed, ServerInv, NEW t \in Starters, Bind(t), UNCHANGED runtime
  PROVE  ServerInv'
<1> USE StartersAreThreads
<1>1. /\ UNCHANGED <<process, clashed, hasty>> /\ pc[t] = "bind" /\ mine[t] = None
      /\ \A u \in Starters : u # t => pc'[u] = pc[u] /\ mine'[u] = mine[u]
  BY BindDoes
<1>2. PICK s \in Servers :
        /\ servers[s] = Unmade /\ \A r \in Servers : r < s => servers[r] # Unmade
        /\ \A r \in Servers : r # s => servers'[r] = servers[r]
        /\ servers'[s].port = attempt[t]
        /\ \/ /\ servers'[s].stage = "failed" /\ mine'[t] = None
              /\ pc'[t] \in {"bind", "refused", "done"}
           \/ /\ servers'[s].stage = "bound" /\ mine'[t] = s /\ pc'[t] = "thread"
              /\ \A r \in Servers : Listening(r) => servers[r].port # attempt[t]
  BY BindDoes
<1>3. Stage(s) = "unmade" /\ Stage(s)' \in {"failed", "bound"} /\ \A r \in Servers : r # s => Stage(r)' = Stage(r)
  BY <1>2 DEF Stage, Unmade
<1>4. /\ \A u \in Starters : pc[u] \in {"remember", "publish", "thread"} \cup Downing => mine[u] # s
      /\ process # s /\ runtime.server # s /\ \A u \in Starters : mine[u] # s
  <2>1. \A u \in Starters : mine[u] # s
    <3> SUFFICES ASSUME NEW u \in Starters, mine[u] = s PROVE FALSE
      OBVIOUS
    <3>1. pc[u] \in Holding \cup Downing
      BY InHand
    <3>2. pc[u] \in Downing => u = Main
      BY DEF ServerInv, Hands
    <3> QED BY <1>3, <3>1, <3>2 DEF ServerInv, Hands, Holding, Once
  <2>2. process # s /\ runtime.server # s
    BY <1>3, ServersAreNumbers DEF ServerInv, Hands, Once
  <2> QED BY <2>1, <2>2
<1>5. Ordered'
  <2>1. \A r, q \in Servers : q < r /\ Made(r)' => Made(q)'
    <3> SUFFICES ASSUME NEW r \in Servers, NEW q \in Servers, q < r, Made(r)', q # s
                 PROVE  Made(q)'
      BY <1>3 DEF Made
    <3>1. CASE r = s
      BY <1>2, <1>3, <3>1 DEF ServerInv, Ordered, Made
    <3>2. CASE r # s
      BY <1>3, <3>2 DEF ServerInv, Ordered, Made
    <3> QED BY <3>1, <3>2
  <2> QED BY <1>2, <1>3, <2>1 DEF ServerInv, Ordered, Made, Stage
<1>6. PortsApart'
  BY <1>2, <1>3 DEF ServerInv, PortsApart, Listening, Stage
<1>7. Accounted'
  BY <1>1, <1>2, <1>3 DEF ServerInv, Accounted, Stage, Once
<1>8. Hands'
  <2>1. \A u \in Starters : pc'[u] \in Downing \cup Loaded => u = Main
    BY <1>1, <1>2 DEF ServerInv, Hands, Downing, Loaded
  <2>2. \A u \in Starters : pc'[u] = "thread" => Stage(mine[u])' = "bound"
    BY <1>1, <1>2, <1>3, <1>4, InHand DEF ServerInv, Hands, Stage, Holding
  <2>3. \A u \in Starters : pc'[u] \in {"remember", "publish"} => Stage(mine[u])' = "serving"
    BY <1>1, <1>2, <1>3, <1>4, InHand DEF ServerInv, Hands, Stage, Holding
  <2>4. pc'[Main] \in Downing => pc[Main] \in Downing /\ mine'[Main] = mine[Main] /\ mine[Main] \in Servers /\ mine[Main] # s
    BY <1>1, <1>2, <1>4, InHand DEF Downing
  <2>5. (pc[Main] \in Downing => Stage(mine[Main]) \in Once)' /\ (pc[Main] = "ask" => ~ servers[mine[Main]].sweeping)'
    BY <1>1, <1>2, <1>3, <2>4 DEF ServerInv, Hands, Stage, Downing
  <2>6. (runtime.server # None => Stage(runtime.server) \in Once)' /\ (process # None => Stage(process) \in Once)'
    BY <1>1, <1>3, <1>4, InHand DEF ServerInv, Hands, Stage
  <2> QED BY <2>1, <2>2, <2>3, <2>5, <2>6 DEF Hands
<1>9. Apart'
  BY <1>1, <1>2, <1>4, ServersAreNumbers DEF ServerInv, Apart, Holding
<1>10. StillServed'
  <2>1. Serving' = Serving
    BY <1>3 DEF Serving, Stage
  <2> QED BY <1>1, <1>2, <2>1 DEF ServerInv, StillServed, Loaded
<1>11. ~ clashed' => Remembered'
  <2> SUFFICES ASSUME ~ clashed' PROVE Remembered'
    OBVIOUS
  <2>1. Remembered
    BY <1>1 DEF ServerInv
  <2>2. \A r \in Servers : Alive(r)' <=> Alive(r)
    BY <1>3 DEF Alive, Stage
  <2>3. Alive(process)' <=> Alive(process)
    BY <1>1, <2>2, InHand DEF Alive
  <2> QED BY <1>1, <1>2, <2>1, <2>2, <2>3 DEF Remembered, Starting
<1>12. OneAtATime' => Named'
  <2> SUFFICES ASSUME OneAtATime' PROVE Named'
    OBVIOUS
  <2>1. Named
    BY <1>1 DEF ServerInv, OneAtATime
  <2>2. pc[Main] \in Downing => s > mine[Main]
    <3> SUFFICES ASSUME pc[Main] \in Downing PROVE s > mine[Main]
      OBVIOUS
    <3>1. mine[Main] \in Servers /\ Made(mine[Main])
      BY InHand DEF ServerInv, Hands, Once, Made
    <3> QED BY <1>3, <3>1, NewestIsLast DEF Made, ServerInv
  <2>3. (runtime.server # None => Stage(runtime.server) = "serving")'
    BY <1>3, <1>4, <2>1, InHand DEF Named, Stage
  <2>4. pc'[Main] \in Downing => pc[Main] = pc'[Main] /\ mine'[Main] = mine[Main] /\ t # Main
    BY <1>1, <1>2 DEF Downing
  <2>5. (pc[Main] \in {"compare", "clear"} => runtime.server = mine[Main])'
    BY <2>1, <2>4 DEF Named, Downing
  <2>6. (pc[Main] \in {"sweeper", "ask", "await"} =>
         /\ runtime.server # None => runtime.server > mine[Main]
         /\ \A u \in Starters : pc[u] \in Holding => mine[u] > mine[Main])'
    BY <1>1, <1>2, <2>1, <2>2, <2>4 DEF Named, Downing, Holding
  <2>7. (\A r \in Servers : Stage(r) = "serving" => runtime.server = r \/ \E u \in Starters : mine[u] = r)'
    BY <1>1, <1>3, <2>1, ServersAreNumbers DEF Named
  <2> QED BY <2>3, <2>5, <2>6, <2>7 DEF Named
<1> QED BY <1>5, <1>6, <1>7, <1>8, <1>9, <1>10, <1>11, <1>12 DEF ServerInv

\* The thread of the server is started.
LEMMA StartThreadKept ==
  ASSUME Typed, ServerInv, NEW t \in Starters, StartThread(t), UNCHANGED runtime
  PROVE  ServerInv'
<1> USE StartersAreThreads
<1>1. /\ UNCHANGED <<process, mine, clashed, hasty>> /\ pc[t] = "thread" /\ pc'[t] = "remember"
      /\ \A u \in Starters : u # t => pc'[u] = pc[u]
  BY DEF StartThread, GoFrom, Go, Typed, ghosts
<1>2. PICK s \in Servers : s = mine[t] /\ Stage(s) = "bound"
  BY <1>1, InHand DEF Holding, ServerInv, Hands
<1>3. /\ \A r \in Servers : r # s => servers'[r] = servers[r]
      /\ servers'[s].stage = "serving" /\ servers'[s].port = servers[s].port
      /\ servers'[s].sweeping = servers[s].sweeping
  BY <1>2 DEF StartThread, Typed, PluginTyped, ServerRecords
<1>4. Stage(s)' = "serving" /\ \A r \in Servers : r # s => Stage(r)' = Stage(r)
  BY <1>1, <1>3 DEF Stage
<1>5. \A u \in Starters : u # t => mine[u] # s
  BY <1>2, ServersAreNumbers DEF ServerInv, Apart
<1>6. process # s /\ runtime.server # s
  BY <1>2, ServersAreNumbers DEF ServerInv, Hands, Once
<1>7. s = mine[t]
  BY <1>2
<1>8. Ordered'
  <2>1. \A r \in Servers : (Made(r)' <=> Made(r)) /\ (~ Made(r) => servers'[r] = servers[r])
    BY <1>2, <1>3, <1>4 DEF Made
  <2> QED BY <2>1 DEF ServerInv, Ordered
<1>9. PortsApart'
  BY <1>2, <1>3, <1>4 DEF ServerInv, PortsApart, Listening, Stage
<1>10. Accounted'
  <2> SUFFICES ASSUME NEW r \in Servers
               PROVE  /\ (Stage(r) = "bound" => \E u \in Starters : pc[u] = "thread" /\ mine[u] = r)'
                      /\ (Stage(r) = "asked" => pc[Main] = "await" /\ mine[Main] = r)'
                      /\ (Stage(r) \in Once \ {"serving"} => ~ servers[r].sweeping)'
    BY DEF Accounted
  <2>1. CASE r = s
    BY <1>4, <2>1
  <2>2. CASE r # s
    <3>1. Stage(r)' = Stage(r) /\ servers'[r] = servers[r]
      BY <1>3, <1>4, <2>2
    <3>2. \A u \in Starters : u # t => pc'[u] = pc[u] /\ mine'[u] = mine[u]
      BY <1>1
    <3>3. pc[Main] = "await" => pc'[Main] = "await" /\ mine'[Main] = mine[Main]
      BY <1>1
    <3> QED BY <1>7, <2>2, <3>1, <3>2, <3>3 DEF ServerInv, Accounted
  <2> QED BY <2>1, <2>2
<1>11. Hands'
  <2>1. \A u \in Starters : pc'[u] \in Downing \cup Loaded => u = Main
    BY <1>1 DEF ServerInv, Hands, Downing, Loaded
  <2>2. \A u \in Starters : pc'[u] = "thread" => Stage(mine[u])' = "bound"
    BY <1>1, <1>4, <1>5, InHand DEF ServerInv, Hands, Stage, Holding
  <2>3. \A u \in Starters : pc'[u] \in {"remember", "publish"} => Stage(mine[u])' = "serving"
    <3> SUFFICES ASSUME NEW u \in Starters, pc'[u] \in {"remember", "publish"} PROVE Stage(mine[u])' = "serving"
      OBVIOUS
    <3>1. CASE u = t
      BY <1>1, <1>4, <1>7, <3>1 DEF Stage
    <3>2. CASE u # t
      <4>1. pc[u] \in {"remember", "publish"} /\ mine[u] # s /\ mine[u] \in Servers /\ Stage(mine[u]) = "serving"
        BY <1>1, <1>5, <3>2, InHand DEF ServerInv, Hands, Holding
      <4> QED BY <1>1, <1>4, <4>1 DEF Stage
    <3> QED BY <3>1, <3>2
  <2>4. pc'[Main] \in Downing => pc[Main] = pc'[Main] /\ mine[Main] \in Servers /\ mine[Main] # s
    BY <1>1, <1>5, InHand DEF Downing
  <2>5. (pc[Main] \in Downing => Stage(mine[Main]) \in Once)' /\ (pc[Main] = "ask" => ~ servers[mine[Main]].sweeping)'
    BY <1>1, <1>3, <1>4, <2>4 DEF ServerInv, Hands, Stage, Downing
  <2>6. (runtime.server # None => Stage(runtime.server) \in Once)' /\ (process # None => Stage(process) \in Once)'
    BY <1>1, <1>4, <1>6, InHand DEF ServerInv, Hands, Stage
  <2> QED BY <2>1, <2>2, <2>3, <2>5, <2>6 DEF Hands
<1>12. Apart'
  BY <1>1 DEF ServerInv, Apart, Holding
<1>13. StillServed'
  <2>1. Serving \subseteq Serving'
    <3>1. \A r \in Servers : Stage(r) = "serving" => Stage(r)' = "serving"
      BY <1>4
    <3> QED BY <3>1 DEF Serving, Stage
  <2> QED BY <1>1, <2>1 DEF ServerInv, StillServed, Loaded
<1>14. ~ clashed' => Remembered'
  <2> SUFFICES ASSUME ~ clashed' PROVE Remembered'
    OBVIOUS
  <2>1. Remembered
    BY <1>1 DEF ServerInv
  <2>2. \A r \in Servers : r # s => (Alive(r)' <=> Alive(r))
    BY <1>4 DEF Alive, Stage
  <2>3. Alive(process)' <=> Alive(process)
    BY <1>1, <1>6, <2>2, InHand DEF Alive
  <2> QED BY <1>1, <1>7, <2>1, <2>2, <2>3 DEF Remembered, Starting
<1>15. OneAtATime' => Named'
  <2> SUFFICES ASSUME OneAtATime' PROVE Named'
    OBVIOUS
  <2>1. Named
    BY <1>1 DEF ServerInv, OneAtATime
  <2>2. (runtime.server # None => Stage(runtime.server) = "serving")'
    BY <1>4, <1>6, <2>1, InHand DEF Named, Stage
  <2>3. pc'[Main] \in Downing => pc[Main] = pc'[Main]
    BY <1>1 DEF Downing
  <2>4. (pc[Main] \in {"compare", "clear"} => runtime.server = mine[Main])'
    BY <1>1, <2>1, <2>3 DEF Named, Downing
  <2>5. (pc[Main] \in {"sweeper", "ask", "await"} =>
         /\ runtime.server # None => runtime.server > mine[Main]
         /\ \A u \in Starters : pc[u] \in Holding => mine[u] > mine[Main])'
    BY <1>1, <2>1, <2>3 DEF Named, Downing, Holding
  <2>6. (\A r \in Servers : Stage(r) = "serving" => runtime.server = r \/ \E u \in Starters : mine[u] = r)'
    BY <1>1, <1>4, <1>7, <2>1 DEF Named
  <2> QED BY <2>2, <2>4, <2>5, <2>6 DEF Named
<1> QED BY <1>8, <1>9, <1>10, <1>11, <1>12, <1>13, <1>14, <1>15 DEF ServerInv

\* _server_process is assigned.
LEMMA RememberKept ==
  ASSUME Typed, ServerInv, NEW t \in Starters, Remember(t), UNCHANGED runtime
  PROVE  ServerInv'
<1> USE StartersAreThreads
<1>1. /\ UNCHANGED <<servers, mine, clashed, hasty>> /\ pc[t] = "remember" /\ pc'[t] = "publish" /\ process' = mine[t]
      /\ \A u \in Starters : u # t => pc'[u] = pc[u]
  BY DEF Remember, GoFrom, Go, Typed, ghosts
<1>2. Stage(mine[t]) = "serving"
  BY <1>1 DEF ServerInv, Hands
<1>3. \A u \in Starters : pc'[u] \in Downing \cup Loaded => pc'[u] = pc[u]
  BY <1>1 DEF Downing, Loaded
<1>4. (Ordered /\ PortsApart)'
  BY <1>1 DEF ServerInv, Ordered, PortsApart, Made, Stage, Listening
<1>5. Accounted'
  <2> SUFFICES ASSUME NEW s \in Servers
               PROVE  /\ (Stage(s) = "bound" => \E u \in Starters : pc[u] = "thread" /\ mine[u] = s)'
                      /\ (Stage(s) = "asked" => pc[Main] = "await" /\ mine[Main] = s)'
                      /\ (Stage(s) \in Once \ {"serving"} => ~ servers[s].sweeping)'
    BY DEF Accounted
  <2>1. Stage(s)' = Stage(s)
    BY <1>1 DEF Stage
  <2>2. \A u \in Starters : pc[u] # "remember" => pc'[u] = pc[u]
    BY <1>1
  <2> QED BY <1>1, <2>1, <2>2 DEF ServerInv, Accounted
<1>6. Hands'
  BY <1>1, <1>2, <1>3 DEF ServerInv, Hands, Stage, Once
<1>7. Apart'
  BY <1>1 DEF ServerInv, Apart, Holding
<1>8. StillServed'
  BY <1>1, <1>3 DEF ServerInv, StillServed, Serving
<1>9. ~ clashed' => Remembered'
  <2> SUFFICES ASSUME ~ clashed' PROVE Remembered'
    OBVIOUS
  <2>1. Remembered
    BY <1>1 DEF ServerInv
  <2>2. \A u \in Starters : u # t => pc[u] \notin Starting
    BY <1>1, <2>1 DEF Remembered, Starting
  <2>3. ~ Alive(process)
    BY <1>1, <2>1 DEF Remembered
  <2>4. \A s \in Servers : Alive(s)' => s = process'
    <3> SUFFICES ASSUME NEW s \in Servers, Alive(s) PROVE s = mine[t]
      BY <1>1 DEF Alive
    <3>1. PICK u \in Starters : pc[u] = "remember" /\ mine[u] = s
      BY <2>1, <2>3 DEF Remembered
    <3>2. u = t
      BY <2>2, <3>1 DEF Starting
    <3> QED BY <3>1, <3>2
  <2> QED BY <1>1, <2>2, <2>4 DEF Remembered, Starting
<1>10. OneAtATime' => Named'
  <2> SUFFICES ASSUME OneAtATime' PROVE Named'
    OBVIOUS
  <2>1. Named
    BY <1>1 DEF ServerInv, OneAtATime
  <2>2. \A u \in Starters : pc'[u] \in Holding => pc[u] \in Holding
    BY <1>1 DEF Holding
  <2> QED BY <1>1, <1>3, <2>1, <2>2 DEF Named, Stage, Downing
<1> QED BY <1>4, <1>5, <1>6, <1>7, <1>8, <1>9, <1>10 DEF ServerInv

\* set_runtime_server, when the state names no server unless threads met.
LEMMA PublishKept ==
  ASSUME Typed, ServerInv, NEW t \in Starters, Publish(t)
  PROVE  ServerInv'
<1> USE StartersAreThreads
<1> DEFINE s == mine[t]
<1>1. /\ UNCHANGED <<servers, process, clashed, hasty>> /\ pc[t] = "publish" /\ pc'[t] = Leave(t) /\ mine'[t] = None
      /\ \A u \in Starters : u # t => pc'[u] = pc[u] /\ mine'[u] = mine[u]
  BY DEF Publish, GoFrom, Go, Typed, PluginTyped, ghosts
<1>2. s \in Servers /\ Stage(s) = "serving"
  BY <1>1, InHand DEF Holding, ServerInv, Hands
<1>3. runtime'.server = s /\ runtime'.inits = runtime.inits
  BY <1>2, ServerNamed DEF Publish, Typed
<1>4. Leave(t) \in {"stop logger", "done"} /\ (Leave(t) = "stop logger" => t = Main)
  BY DEF Leave
<1>5. \A u \in Starters : u # t => mine[u] # s
  BY <1>2, ServersAreNumbers DEF ServerInv, Apart
<1>6. /\ \A u \in Starters : pc'[u] \in Holding => u # t /\ pc[u] = pc'[u]
      /\ pc'[Main] \in Downing => t # Main /\ pc[Main] = pc'[Main]
  BY <1>1, <1>4 DEF Holding, Downing
<1>7. (Ordered /\ PortsApart)'
  BY <1>1 DEF ServerInv, Ordered, PortsApart, Made, Stage, Listening
<1>8. Accounted'
  <2> SUFFICES ASSUME NEW r \in Servers
               PROVE  /\ (Stage(r) = "bound" => \E u \in Starters : pc[u] = "thread" /\ mine[u] = r)'
                      /\ (Stage(r) = "asked" => pc[Main] = "await" /\ mine[Main] = r)'
                      /\ (Stage(r) \in Once \ {"serving"} => ~ servers[r].sweeping)'
    BY DEF Accounted
  <2>1. Stage(r)' = Stage(r)
    BY <1>1 DEF Stage
  <2>2. \A u \in Starters : pc[u] # "publish" => pc'[u] = pc[u] /\ mine'[u] = mine[u]
    BY <1>1
  <2> QED BY <1>1, <2>1, <2>2 DEF ServerInv, Accounted
<1>9. Hands'
  <2>1. \A u \in Starters : pc'[u] \in Downing \cup Loaded => u = Main
    <3>1. \A u \in Starters : pc[u] \in Downing \cup Loaded => u = Main
      BY DEF ServerInv, Hands
    <3>2. "done" \notin Downing \cup Loaded
      BY DEF Downing, Loaded
    <3> QED BY <1>1, <1>4, <3>1, <3>2
  <2>2. /\ \A u \in Starters : pc'[u] = "thread" => Stage(mine[u])' = "bound"
        /\ \A u \in Starters : pc'[u] \in {"remember", "publish"} => Stage(mine[u])' = "serving"
    BY <1>1, <1>6 DEF ServerInv, Hands, Stage, Holding
  <2>3. (pc[Main] \in Downing => Stage(mine[Main]) \in Once)' /\ (pc[Main] = "ask" => ~ servers[mine[Main]].sweeping)'
    BY <1>1, <1>6 DEF ServerInv, Hands, Stage, Downing
  <2>4. (runtime.server # None => Stage(runtime.server) \in Once)' /\ (process # None => Stage(process) \in Once)'
    BY <1>1, <1>2, <1>3 DEF ServerInv, Hands, Stage, Once
  <2> QED BY <2>1, <2>2, <2>3, <2>4 DEF Hands
<1>10. Apart'
  BY <1>1, <1>3, <1>5, <1>6 DEF ServerInv, Apart
<1>11. StillServed'
  <2>1. s \in Serving' /\ UNCHANGED hasty
    BY <1>1, <1>2 DEF Serving, Stage
  <2> QED BY <2>1 DEF StillServed
<1>12. ~ clashed' => Remembered'
  <2> SUFFICES ASSUME ~ clashed' PROVE Remembered'
    OBVIOUS
  <2>1. Remembered
    BY <1>1 DEF ServerInv
  <2>2. \A u \in Starters : pc'[u] \in Starting => u # t /\ pc'[u] = pc[u] /\ mine'[u] = mine[u]
    BY <1>1, <1>4 DEF Starting
  <2>3. \A r \in Servers \cup {None} : Alive(r)' <=> Alive(r)
    BY <1>1 DEF Alive
  <2>4. \A r \in Servers : Alive(r)' => r = process' \/ \E u \in Starters : pc'[u] = "remember" /\ mine'[u] = r
    BY <1>1, <2>1, <2>3 DEF Remembered
  <2>5. \A u, v \in Starters : pc'[u] \in Starting /\ pc'[v] \in Starting => u = v
    BY <2>1, <2>2 DEF Remembered
  <2>6. \A u \in Starters : pc'[u] \in {"bind", "thread", "remember"} => ~ Alive(process)'
    BY <1>1, <2>1, <2>2 DEF Remembered, Starting, Alive
  <2>7. \A u \in Starters : pc'[u] = "publish" => process' = mine'[u]
    BY <1>1, <2>1, <2>2 DEF Remembered, Starting
  <2> QED BY <2>4, <2>5, <2>6, <2>7 DEF Remembered
<1>13. OneAtATime' => Named'
  <2> SUFFICES ASSUME OneAtATime' PROVE Named'
    OBVIOUS
  <2>1. OneAtATime /\ Named
    BY <1>1, <1>3 DEF ServerInv, OneAtATime
  <2>2. runtime.server = None /\ pc[Main] \notin {"compare", "clear"}
    BY <1>1, <2>1, NoneNamed, NobodyStarts DEF Starting
  <2>3. (pc[Main] \in {"sweeper", "ask", "await"} =>
         /\ runtime.server # None => runtime.server > mine[Main]
         /\ \A u \in Starters : pc[u] \in Holding => mine[u] > mine[Main])'
    BY <1>1, <1>3, <1>6, <2>1 DEF Named, Downing, Holding
  <2>4. (\A r \in Servers : Stage(r) = "serving" => runtime.server = r \/ \E u \in Starters : mine[u] = r)'
    <3> SUFFICES ASSUME NEW r \in Servers, Stage(r) = "serving", r # s
                 PROVE  \E u \in Starters : mine'[u] = r
      BY <1>1, <1>3 DEF Stage
    <3>1. PICK u \in Starters : mine[u] = r
      BY <2>1, <2>2, ServersAreNumbers DEF Named
    <3> QED BY <1>1, <3>1
  <2>5. (runtime.server # None => Stage(runtime.server) = "serving")'
    BY <1>1, <1>2, <1>3 DEF Stage
  <2>6. (pc[Main] \in {"compare", "clear"} => runtime.server = mine[Main])'
    BY <1>1, <1>6, <2>2 DEF Downing
  <2> QED BY <2>3, <2>4, <2>5, <2>6 DEF Named
<1> QED BY <1>7, <1>8, <1>9, <1>10, <1>11, <1>12, <1>13 DEF ServerInv

-----------------------------------------------------------------------------
(* on_shutdown *)

\* What the steps of it do that change no server.
MainGoes ==
  /\ UNCHANGED <<servers, process, clashed, hasty>>
  /\ runtime'.inits = runtime.inits /\ runtime'.server \in {runtime.server, None}
  /\ \A u \in Starters : u # Main => pc'[u] = pc[u] /\ mine'[u] = mine[u]
  /\ pc[Main] \in Downing \cup {"up"} /\ (pc[Main] # "await" \/ Stage(mine[Main]) # "asked")
  /\ pc'[Main] \in Downing \cup {"idle"} /\ pc'[Main] # "ask"
  /\ pc'[Main] \in Downing => mine'[Main] \in {mine[Main], runtime.server} \ {None}
  /\ pc'[Main] \notin Downing => mine'[Main] = None
  /\ pc[Main] = "up" => mine'[Main] = runtime.server

\* Such steps keep ServerInv, if the names are right after them.
LEMMA MainMoves ==
  ASSUME Typed, ServerInv, MainGoes, OneAtATime => Named'
  PROVE  ServerInv'
<1> USE StartersAreThreads DEF MainGoes
<1>1. /\ \A u \in Starters : pc[u] \in Holding \cup Starting => u # Main
      /\ \A u \in Starters : pc'[u] \in Holding \cup Starting => u # Main
  BY DEF Holding, Starting, Downing
<1>2. \A r \in Servers : Stage(r)' = Stage(r)
  BY DEF Stage
<1>3. (Ordered /\ PortsApart)'
  BY DEF ServerInv, Ordered, PortsApart, Made, Stage, Listening
<1>4. Accounted'
  <2> SUFFICES ASSUME NEW r \in Servers
               PROVE  /\ (Stage(r) = "bound" => \E u \in Starters : pc[u] = "thread" /\ mine[u] = r)'
                      /\ (Stage(r) = "asked" => pc[Main] = "await" /\ mine[Main] = r)'
                      /\ (Stage(r) \in Once \ {"serving"} => ~ servers[r].sweeping)'
    BY DEF Accounted
  <2>1. Stage(r) # "asked"
    BY DEF ServerInv, Accounted
  <2>2. \A u \in Starters : pc[u] = "thread" => u # Main
    BY <1>1 DEF Holding
  <2> QED BY <1>2, <2>1, <2>2 DEF ServerInv, Accounted
<1>5. Hands'
  <2>1. \A u \in Starters : pc'[u] \in Downing \cup Loaded => u = Main
    BY DEF ServerInv, Hands
  <2>2. /\ \A u \in Starters : pc'[u] = "thread" => Stage(mine[u])' = "bound"
        /\ \A u \in Starters : pc'[u] \in {"remember", "publish"} => Stage(mine[u])' = "serving"
    BY <1>1 DEF ServerInv, Hands, Stage, Holding
  <2>3. (pc[Main] \in Downing => Stage(mine[Main]) \in Once)'
    <3> SUFFICES ASSUME pc'[Main] \in Downing PROVE Stage(mine'[Main]) \in Once
      BY DEF Stage
    <3>1. CASE mine'[Main] = runtime.server
      BY <3>1 DEF ServerInv, Hands
    <3>2. CASE mine'[Main] = mine[Main] /\ pc[Main] \in Downing
      BY <3>2 DEF ServerInv, Hands
    <3> QED BY <3>1, <3>2
  <2>4. (runtime.server # None => Stage(runtime.server) \in Once)' /\ (process # None => Stage(process) \in Once)'
    BY DEF ServerInv, Hands, Stage
  <2> QED BY <2>1, <2>2, <2>3, <2>4 DEF Hands
<1>6. Apart'
  <2>1. \A u \in Starters : pc'[u] \in Holding => mine'[u] # runtime'.server
    <3> SUFFICES ASSUME NEW u \in Starters, pc'[u] \in Holding PROVE mine'[u] # runtime'.server
      OBVIOUS
    <3>1. mine'[u] = mine[u] /\ pc[u] \in Holding
      BY <1>1
    <3> QED BY <3>1, InHand, ServersAreNumbers DEF ServerInv, Apart
  <2>2. \A u \in Starters : u # Main => mine[u] = None \/ (mine[u] # mine[Main] /\ mine[u] # runtime.server)
    <3> SUFFICES ASSUME NEW u \in Starters, u # Main, mine[u] # None PROVE mine[u] # mine[Main] /\ mine[u] # runtime.server
      OBVIOUS
    <3>1. pc[u] \in Holding
      BY InHand DEF ServerInv, Hands
    <3> QED BY <3>1 DEF ServerInv, Apart
  <2>3. \A u \in Starters : u # Main => mine'[u] = None \/ mine'[u] # mine'[Main]
    BY <2>2, InHand DEF Downing
  <2> QED BY <2>1, <2>3 DEF ServerInv, Apart
<1>7. StillServed'
  BY DEF StillServed, Loaded, Downing
<1>8. ~ clashed' => Remembered'
  <2> SUFFICES ASSUME ~ clashed' PROVE Remembered'
    OBVIOUS
  <2>1. Remembered
    BY DEF ServerInv
  <2>2. \A u \in Starters : pc[u] \in Starting \/ pc'[u] \in Starting => pc'[u] = pc[u] /\ mine'[u] = mine[u]
    BY <1>1
  <2> QED BY <2>1, <2>2 DEF Remembered, Starting, Alive
<1>9. OneAtATime' => Named'
  BY DEF OneAtATime
<1> QED BY <1>3, <1>4, <1>5, <1>6, <1>7, <1>8, <1>9 DEF ServerInv

\* get_server() names a server that serves, or none.
LEMMA ShutdownKept ==
  ASSUME Typed, ServerInv, ShutdownStep
  PROVE  ServerInv'
<1> USE StartersAreThreads
<1>1. /\ UNCHANGED <<servers, process, clashed, hasty, runtime>> /\ pc[Main] = "up"
      /\ pc'[Main] = (IF runtime.server = None THEN "idle" ELSE "compare") /\ mine'[Main] = runtime.server
      /\ \A u \in Starters : u # Main => pc'[u] = pc[u] /\ mine'[u] = mine[u]
  BY DEF ShutdownStep, Shutdown, Go, Typed, PluginTyped, ghosts, state
<1>2. mine[Main] = None
  BY <1>1, InHand DEF Holding, Downing
<1>3. OneAtATime' => Named'
  <2> SUFFICES ASSUME OneAtATime' PROVE Named'
    OBVIOUS
  <2>1. Named
    BY <1>1 DEF ServerInv, OneAtATime
  <2> QED BY <1>1, <1>2, <2>1, ServersAreNumbers DEF Named, Stage
<1>9. MainGoes
  BY <1>1, <1>3 DEF MainGoes, Downing
<1>10. OneAtATime => Named'
  BY <1>1, <1>3 DEF OneAtATime
<1> QED BY <1>9, <1>10, MainMoves

\* While it is compared nobody can have published another,
LEMMA CompareKept ==
  ASSUME Typed, ServerInv, Compare, UNCHANGED runtime
  PROVE  ServerInv'
<1> USE StartersAreThreads
<1>1. /\ UNCHANGED <<servers, process, mine, clashed, hasty>> /\ pc[Main] = "compare"
      /\ pc'[Main] = (IF runtime.server = mine[Main] THEN "clear" ELSE "sweeper")
      /\ \A u \in Starters : u # Main => pc'[u] = pc[u]
  BY DEF Compare, GoFrom, Go, Typed, server, ghosts
<1>2. OneAtATime' => Named'
  <2> SUFFICES ASSUME OneAtATime' PROVE Named'
    OBVIOUS
  <2>1. Named
    BY <1>1 DEF ServerInv, OneAtATime
  <2> QED BY <1>1, <2>1 DEF Named, Stage
<1>3. mine[Main] # None
  BY <1>1, InHand, ServersAreNumbers DEF Downing
<1>9. MainGoes
  BY <1>1, <1>2, <1>3 DEF MainGoes, Downing
<1>10. OneAtATime => Named'
  BY <1>1, <1>2, <1>3 DEF OneAtATime
<1> QED BY <1>9, <1>10, MainMoves

\* and none is published before it is cleared.
LEMMA ClearKept ==
  ASSUME Typed, ServerInv, Clear
  PROVE  ServerInv'
<1> USE StartersAreThreads
<1>1. /\ UNCHANGED <<servers, process, mine, clashed, hasty>> /\ pc[Main] = "clear" /\ pc'[Main] = "sweeper"
      /\ \A u \in Starters : u # Main => pc'[u] = pc[u]
  BY DEF Clear, GoFrom, Go, Typed, server, ghosts
<1>2. runtime'.server = None /\ runtime'.inits = runtime.inits
  BY ServerNamed DEF Clear, Typed
<1>3. mine[Main] # None
  BY <1>1, InHand, ServersAreNumbers DEF Downing
<1>4. OneAtATime' => Named'
  <2> SUFFICES ASSUME OneAtATime' PROVE Named'
    OBVIOUS
  <2>1. OneAtATime /\ Named
    BY <1>1, <1>2 DEF ServerInv, OneAtATime
  <2>2. runtime.server = mine[Main] /\ \A u \in Starters : pc'[u] \notin Holding
    BY <1>1, <2>1, NobodyStarts DEF Named, Starting, Holding
  <2> QED BY <1>1, <1>2, <2>1, <2>2 DEF Named, Stage
<1>9. MainGoes
  BY <1>1, <1>2, <1>3, <1>4 DEF MainGoes, Downing
<1>10. OneAtATime => Named'
  BY <1>1, <1>2, <1>3, <1>4 DEF OneAtATime
<1> QED BY <1>9, <1>10, MainMoves

\* shutdown() has returned: the loop is over.
LEMMA DownKept ==
  ASSUME Typed, ServerInv, Down, UNCHANGED runtime
  PROVE  ServerInv'
<1> USE StartersAreThreads
<1>1. /\ UNCHANGED <<servers, process, clashed, hasty>> /\ pc[Main] = "await" /\ pc'[Main] = "idle"
      /\ mine'[Main] = None /\ Stage(mine[Main]) \in {"stopped", "draining", "ended"}
      /\ \A u \in Starters : u # Main => pc'[u] = pc[u] /\ mine'[u] = mine[u]
  BY DEF Down, GoFrom, Go, Typed, PluginTyped, ghosts, Stage
<1>2. OneAtATime' => Named'
  <2> SUFFICES ASSUME OneAtATime' PROVE Named'
    OBVIOUS
  <2>1. Named
    BY <1>1 DEF ServerInv, OneAtATime
  <2>2. ASSUME NEW r \in Servers, Stage(r)' = "serving", runtime.server # r
        PROVE  \E u \in Starters : mine'[u] = r
    <3>1. Stage(r) = "serving"
      BY <1>1, <2>2 DEF Stage
    <3>2. PICK u \in Starters : mine[u] = r
      BY <2>1, <2>2, <3>1 DEF Named
    <3>3. u # Main
      BY <1>1, <3>1, <3>2
    <3> QED BY <1>1, <3>2, <3>3
  <2> QED BY <1>1, <2>1, <2>2 DEF Named, Stage
<1>9. MainGoes
  BY <1>1, <1>2 DEF MainGoes, Downing
<1>10. OneAtATime => Named'
  BY <1>1, <1>2 DEF OneAtATime
<1> QED BY <1>9, <1>10, MainMoves

\* The thread of the limiter is stopped.
LEMMA StopSweeperKept ==
  ASSUME Typed, ServerInv, StopSweeper, UNCHANGED runtime
  PROVE  ServerInv'
<1> USE StartersAreThreads
<1>1. /\ UNCHANGED <<process, mine, clashed, hasty>> /\ pc[Main] = "sweeper" /\ pc'[Main] = "ask"
      /\ \A u \in Starters : u # Main => pc'[u] = pc[u]
  BY DEF StopSweeper, GoFrom, Go, Typed, ghosts
<1>2. PICK s \in Servers : s = mine[Main] /\ Stage(s) \in Once
  BY <1>1, InHand DEF Downing, ServerInv, Hands
<1>3. /\ \A r \in Servers : r # s => servers'[r] = servers[r]
      /\ servers'[s].stage = servers[s].stage /\ servers'[s].port = servers[s].port /\ servers'[s].sweeping = FALSE
  BY <1>2 DEF StopSweeper, Typed, PluginTyped, ServerRecords
<1>4. /\ \A r \in Servers : Stage(r)' = Stage(r) /\ servers'[r].port = servers[r].port
      /\ \A r \in Servers : Listening(r)' <=> Listening(r)
      /\ \A r \in Servers : Alive(r)' <=> Alive(r)
  BY <1>3 DEF Stage, Listening, Alive
<1>5. Ordered'
  <2>1. \A r \in Servers : (Made(r)' <=> Made(r)) /\ (~ Made(r) => servers'[r] = servers[r])
    BY <1>2, <1>3, <1>4 DEF Made, Once
  <2> QED BY <2>1 DEF ServerInv, Ordered
<1>6. PortsApart'
  BY <1>4 DEF ServerInv, PortsApart
<1>7. Accounted'
  <2> SUFFICES ASSUME NEW r \in Servers
               PROVE  /\ (Stage(r) = "bound" => \E u \in Starters : pc[u] = "thread" /\ mine[u] = r)'
                      /\ (Stage(r) = "asked" => pc[Main] = "await" /\ mine[Main] = r)'
                      /\ (Stage(r) \in Once \ {"serving"} => ~ servers[r].sweeping)'
    BY DEF Accounted
  <2>1. Stage(r)' = Stage(r) /\ (servers'[r].sweeping = FALSE \/ servers'[r] = servers[r])
    BY <1>3, <1>4
  <2>2. \A u \in Starters : pc[u] = "thread" => pc'[u] = "thread"
    BY <1>1
  <2>3. Stage(r) # "asked"
    BY <1>1 DEF ServerInv, Accounted
  <2> QED BY <1>1, <2>1, <2>2, <2>3 DEF ServerInv, Accounted
<1>8. Hands'
  <2>1. \A u \in Starters : pc'[u] \in Downing \cup Loaded => u = Main
    BY <1>1 DEF ServerInv, Hands
  <2>2. \A u \in Starters : pc'[u] \in Holding => pc[u] = pc'[u] /\ mine[u] \in Servers
    BY <1>1, InHand DEF Holding
  <2>3. /\ \A u \in Starters : pc'[u] = "thread" => Stage(mine[u])' = "bound"
        /\ \A u \in Starters : pc'[u] \in {"remember", "publish"} => Stage(mine[u])' = "serving"
    BY <1>1, <1>3, <2>2 DEF ServerInv, Hands, Stage, Holding
  <2>4. (pc[Main] \in Downing => Stage(mine[Main]) \in Once)' /\ (pc[Main] = "ask" => ~ servers[mine[Main]].sweeping)'
    BY <1>1, <1>2, <1>3 DEF Stage
  <2>5. (runtime.server # None => Stage(runtime.server) \in Once)' /\ (process # None => Stage(process) \in Once)'
    BY <1>1, <1>3, InHand DEF ServerInv, Hands, Stage
  <2> QED BY <2>1, <2>3, <2>4, <2>5 DEF Hands
<1>9. Apart'
  BY <1>1 DEF ServerInv, Apart, Holding
<1>10. StillServed'
  BY <1>1 DEF StillServed, Loaded
<1>11. ~ clashed' => Remembered'
  <2> SUFFICES ASSUME ~ clashed' PROVE Remembered'
    OBVIOUS
  <2>1. Remembered
    BY <1>1 DEF ServerInv
  <2>2. Alive(process)' <=> Alive(process)
    BY <1>1, <1>4, InHand DEF Alive
  <2>3. \A u \in Starters : pc[u] \in Starting \/ pc'[u] \in Starting => pc'[u] = pc[u]
    BY <1>1 DEF Starting
  <2> QED BY <1>1, <1>4, <2>1, <2>2, <2>3 DEF Remembered, Starting
<1>12. OneAtATime' => Named'
  <2> SUFFICES ASSUME OneAtATime' PROVE Named'
    OBVIOUS
  <2>1. Named
    BY <1>1 DEF ServerInv, OneAtATime
  <2>2. (runtime.server # None => Stage(runtime.server) = "serving")'
    BY <1>3, <2>1, InHand DEF Named, Stage
  <2>3. \A u \in Starters : pc'[u] \in Holding => pc[u] \in Holding
    BY <1>1 DEF Holding
  <2> QED BY <1>1, <1>4, <2>1, <2>2, <2>3 DEF Named
<1> QED BY <1>5, <1>6, <1>7, <1>8, <1>9, <1>10, <1>11, <1>12 DEF ServerInv

\* The one server that serves is asked to stop, and is no longer named.
LEMMA AskToStopKept ==
  ASSUME Typed, ServerInv, AskToStop, UNCHANGED runtime
  PROVE  ServerInv'
<1> USE StartersAreThreads
<1>1. /\ UNCHANGED <<process, mine, clashed, hasty>> /\ pc[Main] = "ask" /\ pc'[Main] = "await"
      /\ \A u \in Starters : u # Main => pc'[u] = pc[u]
  BY DEF AskToStop, GoFrom, Go, Typed, ghosts
<1>2. PICK s \in Servers : s = mine[Main] /\ Stage(s) \in Once /\ ~ servers[s].sweeping
  BY <1>1, InHand DEF Downing, ServerInv, Hands
<1>3. /\ \A r \in Servers : r # s => servers'[r] = servers[r]
      /\ servers'[s].stage = (IF servers[s].stage = "serving" THEN "asked" ELSE servers[s].stage)
      /\ servers'[s].port = servers[s].port /\ servers'[s].sweeping = servers[s].sweeping
  BY <1>2 DEF AskToStop, Typed, PluginTyped, ServerRecords
<1>4. /\ \A r \in Servers : Stage(r)' = Stage(r) \/ (r = s /\ Stage(r) = "serving" /\ Stage(r)' = "asked")
      /\ \A r \in Servers : servers'[r].port = servers[r].port /\ servers'[r].sweeping = servers[r].sweeping
      /\ \A r \in Servers : Listening(r)' <=> Listening(r)
      /\ \A r \in Servers : Alive(r)' <=> Alive(r)
  BY <1>3 DEF Stage, Listening, Alive
<1>5. Ordered'
  <2>1. \A r \in Servers : (Made(r)' <=> Made(r)) /\ (~ Made(r) => servers'[r] = servers[r])
    BY <1>2, <1>3, <1>4 DEF Made, Once
  <2> QED BY <2>1 DEF ServerInv, Ordered
<1>6. PortsApart'
  BY <1>4 DEF ServerInv, PortsApart
<1>7. Accounted'
  <2> SUFFICES ASSUME NEW r \in Servers
               PROVE  /\ (Stage(r) = "bound" => \E u \in Starters : pc[u] = "thread" /\ mine[u] = r)'
                      /\ (Stage(r) = "asked" => pc[Main] = "await" /\ mine[Main] = r)'
                      /\ (Stage(r) \in Once \ {"serving"} => ~ servers[r].sweeping)'
    BY DEF Accounted
  <2>1. \A u \in Starters : pc[u] = "thread" => pc'[u] = "thread"
    BY <1>1
  <2>2. Stage(r) # "asked"
    BY <1>1 DEF ServerInv, Accounted
  <2> QED BY <1>1, <1>2, <1>4, <2>1, <2>2 DEF ServerInv, Accounted
<1>8. Hands'
  <2>1. \A u \in Starters : pc'[u] \in Downing \cup Loaded => u = Main
    BY <1>1 DEF ServerInv, Hands
  <2>2. \A u \in Starters : pc'[u] \in Holding => pc[u] = pc'[u] /\ mine[u] \in Servers /\ mine[u] # s
    BY <1>1, <1>2, InHand, ServersAreNumbers DEF Holding, ServerInv, Apart
  <2>3. /\ \A u \in Starters : pc'[u] = "thread" => Stage(mine[u])' = "bound"
        /\ \A u \in Starters : pc'[u] \in {"remember", "publish"} => Stage(mine[u])' = "serving"
    BY <1>1, <1>3, <2>2 DEF ServerInv, Hands, Stage, Holding
  <2>4. \A r \in Servers : Stage(r) \in Once => Stage(r)' \in Once
    BY <1>4 DEF Once
  <2>5. (pc[Main] \in Downing => Stage(mine[Main]) \in Once)' /\ (pc[Main] = "ask" => ~ servers[mine[Main]].sweeping)'
    BY <1>1, <1>2, <2>4 DEF Stage
  <2>6. (runtime.server # None => Stage(runtime.server) \in Once)' /\ (process # None => Stage(process) \in Once)'
    BY <1>1, <2>4, InHand DEF ServerInv, Hands, Stage
  <2> QED BY <2>1, <2>3, <2>5, <2>6 DEF Hands
<1>9. Apart'
  BY <1>1 DEF ServerInv, Apart, Holding
<1>10. StillServed'
  BY <1>1 DEF StillServed, Loaded
<1>11. ~ clashed' => Remembered'
  <2> SUFFICES ASSUME ~ clashed' PROVE Remembered'
    OBVIOUS
  <2>1. Remembered
    BY <1>1 DEF ServerInv
  <2>2. Alive(process)' <=> Alive(process)
    BY <1>1, <1>4, InHand DEF Alive
  <2>3. \A u \in Starters : pc[u] \in Starting \/ pc'[u] \in Starting => pc'[u] = pc[u]
    BY <1>1 DEF Starting
  <2> QED BY <1>1, <1>4, <2>1, <2>2, <2>3 DEF Remembered, Starting
<1>12. OneAtATime' => Named'
  <2> SUFFICES ASSUME OneAtATime' PROVE Named'
    OBVIOUS
  <2>1. Named
    BY <1>1 DEF ServerInv, OneAtATime
  <2>2. runtime.server # None => runtime.server # s
    <3>1. runtime.server # None => runtime.server > s
      BY <1>1, <1>2, <2>1 DEF Named
    <3>2. ~ (s > s)
      BY ServersAreNumbers
    <3> QED BY <3>1, <3>2
  <2>3. (runtime.server # None => Stage(runtime.server) = "serving")'
    BY <1>3, <2>1, <2>2, InHand DEF Named, Stage
  <2>4. \A u \in Starters : pc'[u] \in Holding => pc[u] \in Holding
    BY <1>1 DEF Holding
  <2>5. \A r \in Servers : Stage(r)' = "serving" => Stage(r) = "serving"
    BY <1>4
  <2> QED BY <1>1, <2>1, <2>3, <2>4, <2>5 DEF Named
<1> QED BY <1>5, <1>6, <1>7, <1>8, <1>9, <1>10, <1>11, <1>12 DEF ServerInv

\* The loop ends, the thread, and the use of the port.
LEMMA ServeKept ==
  ASSUME Typed, ServerInv, NEW s \in Servers, ServeStep(s)
  PROVE  ServerInv'
<1>1. /\ UNCHANGED <<runtime, pc, process, mine, clashed, hasty>>
  BY DEF ServeStep, ServerStep, LoopEnds, ThreadEnds, PortFreed, state, ghosts
<1>2. /\ \A r \in Servers : r # s => servers'[r] = servers[r]
      /\ servers[s].stage \in {"asked", "stopped", "draining"} /\ servers'[s].stage \in {"stopped", "draining", "ended"}
      /\ servers'[s].stage = "stopped" => servers[s].stage = "asked"
      /\ servers'[s].stage = "draining" => servers[s].stage = "stopped"
      /\ servers'[s].port = servers[s].port /\ servers'[s].sweeping = servers[s].sweeping
  BY DEF ServeStep, ServerStep, LoopEnds, ThreadEnds, PortFreed, Typed, PluginTyped, ServerRecords
<1>3. /\ \A r \in Servers : Stage(r)' = Stage(r) \/ (r = s /\ Stage(r) \in Once \ {"serving"} /\ Stage(r)' \in Once \ {"serving", "asked"})
      /\ \A r \in Servers : servers'[r].port = servers[r].port /\ servers'[r].sweeping = servers[r].sweeping
      /\ \A r \in Servers : Listening(r)' => Listening(r)
      /\ \A r \in Servers : Alive(r)' => Alive(r)
  BY <1>2 DEF Stage, Listening, Alive, Once
<1>4. Ordered'
  <2>1. \A r \in Servers : (Made(r)' <=> Made(r)) /\ (~ Made(r) => servers'[r] = servers[r])
    <3> SUFFICES ASSUME NEW r \in Servers PROVE (Made(r)' <=> Made(r)) /\ (~ Made(r) => servers'[r] = servers[r])
      OBVIOUS
    <3>1. CASE r = s
      BY <1>2, <3>1 DEF Made, Stage
    <3>2. CASE r # s
      BY <1>2, <3>2 DEF Made, Stage
    <3> QED BY <3>1, <3>2
  <2> QED BY <2>1 DEF ServerInv, Ordered
<1>5. PortsApart'
  BY <1>3 DEF ServerInv, PortsApart
<1>6. Accounted'
  <2> SUFFICES ASSUME NEW r \in Servers
               PROVE  /\ (Stage(r) = "bound" => \E u \in Starters : pc[u] = "thread" /\ mine[u] = r)'
                      /\ (Stage(r) = "asked" => pc[Main] = "await" /\ mine[Main] = r)'
                      /\ (Stage(r) \in Once \ {"serving"} => ~ servers[r].sweeping)'
    BY DEF Accounted
  <2> QED BY <1>1, <1>3 DEF ServerInv, Accounted, Once
<1>7. /\ \A r \in Servers : Stage(r) \in Once => Stage(r)' \in Once
      /\ \A r \in Servers : Stage(r) = "serving" <=> Stage(r)' = "serving"
      /\ \A r \in Servers : Stage(r) = "bound" => Stage(r)' = "bound"
  BY <1>3 DEF Once
<1>8. Hands'
  <2>1. \A u \in Starters : pc'[u] \in Downing \cup Loaded => u = Main
    BY <1>1 DEF ServerInv, Hands
  <2>2. \A u \in Starters : pc[u] \in Holding \cup Downing => mine[u] \in Servers
    BY InHand
  <2>3. /\ \A u \in Starters : pc'[u] = "thread" => Stage(mine[u])' = "bound"
        /\ \A u \in Starters : pc'[u] \in {"remember", "publish"} => Stage(mine[u])' = "serving"
    BY <1>1, <1>7, <2>2 DEF ServerInv, Hands, Stage, Holding
  <2>4. (pc[Main] \in Downing => Stage(mine[Main]) \in Once)' /\ (pc[Main] = "ask" => ~ servers[mine[Main]].sweeping)'
    BY <1>1, <1>3, <1>7, <2>2, StartersAreThreads DEF ServerInv, Hands, Stage, Downing
  <2>5. (runtime.server # None => Stage(runtime.server) \in Once)' /\ (process # None => Stage(process) \in Once)'
    BY <1>1, <1>7, InHand DEF ServerInv, Hands, Stage
  <2> QED BY <2>1, <2>3, <2>4, <2>5 DEF Hands
<1>9. Apart'
  BY <1>1 DEF ServerInv, Apart
<1>10. StillServed'
  <2>1. Serving' = Serving
    BY <1>7 DEF Serving, Stage
  <2> QED BY <1>1, <2>1 DEF ServerInv, StillServed
<1>11. ~ clashed' => Remembered'
  <2>1. Alive(process)' => Alive(process)
    BY <1>1, <1>3, InHand DEF Alive
  <2> QED BY <1>1, <1>3, <2>1 DEF ServerInv, Remembered
<1>12. OneAtATime' => Named'
  <2>1. (runtime.server # None => Stage(runtime.server) = "serving") => (runtime.server # None => Stage(runtime.server) = "serving")'
    BY <1>1, <1>7, InHand DEF Stage
  <2> QED BY <1>1, <1>7, <2>1 DEF ServerInv, Named, OneAtATime
<1> QED BY <1>4, <1>5, <1>6, <1>8, <1>9, <1>10, <1>11, <1>12 DEF ServerInv

\* The steps of register and a2a_announce before and after _start_a2a_server.
LEMMA CalmSteps ==
  ASSUME Typed, ServerInv, Begin \/ BootStep \/ LogStep
  PROVE  ServerInv'
<1> USE StartersAreThreads
<1>1. /\ UNCHANGED <<servers, process, mine, clashed, hasty, runtime>>
  BY DEF Begin, Load, Announce, BootStep, Boot, LogStep, server, ghosts, state, pluginVars
<1>2. \E t \in Starters : \E there \in Calm :
        /\ pc' = [pc EXCEPT ![t] = there] /\ pc[t] \in Calm
        /\ there \in Loaded => t = Main /\ pc[t] \in Loaded
  <2> USE DEF Calm, Stages, Outcomes, Starting, Downing, Loaded, Go, GoFrom
  <2>1. CASE Begin
    BY <2>1 DEF Begin, Load, Announce, Starters
  <2>2. CASE BootStep
    <3>1. PICK there \in {"check", "refused"} : pc' = [pc EXCEPT ![Main] = there] /\ pc[Main] = "boot"
      BY <2>2 DEF BootStep, Boot
    <3> QED BY <3>1
  <2>3. CASE LogStep
    BY <2>3 DEF LogStep, StopLogger, JoinLogger, StartLogger
  <2> QED BY <2>1, <2>2, <2>3
<1> QED BY <1>1, <1>2, CalmKept

\* ServerInv is kept by every step,
LEMMA ServersKept ==
  ASSUME Typed, ServerInv, [Next]_vars
  PROVE  ServerInv'
<1>1. CASE PluginStep
  <2>1. CASE DownStep
    BY <2>1, CompareKept, ClearKept, StopSweeperKept, AskToStopKept, DownKept DEF DownStep
  <2>2. ASSUME NEW t \in Starters, StartStep(t) PROVE ServerInv'
    BY <2>2, CheckKept, BindKept, StartThreadKept, RememberKept, PublishKept DEF StartStep
  <2> QED BY <1>1, <2>1, <2>2, CalmSteps, ShutdownKept DEF PluginStep
<1>2. CASE \E t \in Relays : RelayStep(t)
  <2>1. PICK t \in Relays : RelayStep(t)
    BY <1>2
  <2>2. \A u \in Starters : pc'[u] = pc[u]
    BY <2>1, RelayFrame, StartersAreThreads
  <2> QED BY <2>1, <2>2, RelayFrame, ElsewhereKept DEF pluginVars, server, ghosts
<1>3. CASE \E r \in Registrars : RegisterStep(r)
  <2>1. PICK r \in Registrars : RegisterStep(r)
    BY <1>3
  <2>2. \A u \in Starters : pc'[u] = pc[u]
    BY <2>1, RegisterFrame, StartersAreThreads
  <2> QED BY <2>1, <2>2, RegisterFrame, ElsewhereKept DEF pluginVars, server, ghosts, state
<1>4. CASE LoopStep \/ UNCHANGED vars
  BY <1>4, ElsewhereKept DEF LoopStep, vars, pluginVars, server, ghosts, state
<1>5. CASE \E s \in Servers : ServeStep(s)
  BY <1>5, ServeKept
<1> QED BY <1>1, <1>2, <1>3, <1>4, <1>5, FillKept, Kinds

\* holds at the start,
LEMMA ServersBegin == Init => ServerInv
<1> SUFFICES ASSUME Init PROVE ServerInv
  OBVIOUS
<1>1. /\ \A t \in Starters : pc[t] = "idle" /\ mine[t] = None
      /\ \A s \in Servers : servers[s] = Unmade /\ Stage(s) = "unmade"
      /\ process = None /\ runtime.server = None
  BY StartersAreThreads DEF Init, PluginInit, RInit, Stage, Unmade
<1>2. Ordered /\ PortsApart /\ Accounted
  BY <1>1 DEF Ordered, PortsApart, Accounted, Made, Listening, Stage, Once
<1>3. Hands /\ Apart /\ StillServed
  BY <1>1, StartersAreThreads DEF Hands, Apart, StillServed, Downing, Loaded, Holding
<1>4. Remembered /\ Named
  BY <1>1, StartersAreThreads DEF Remembered, Named, Starting, Alive, Stage
<1> QED BY <1>2, <1>3, <1>4 DEF ServerInv

\* and so always holds.
LEMMA ServersSound == Spec => [](Typed /\ ServerInv)
<1>1. Typed /\ ServerInv /\ [Next]_vars => ServerInv'
  BY ServersKept
<1> QED BY TypesKept, ServersBegin, <1>1, PTL DEF Spec

-----------------------------------------------------------------------------
(* What it comes to *)
\* The types, ports and counts together.
LEMMA TypesMean ==
  ASSUME Typed, ServerInv, LogTyped, LogInv
  PROVE  TypeOK
<1>1. pc \in [Threads -> Stages] /\ fillers \subseteq Threads
  BY DEF Typed, RuntimeTyped
<1>2. runtime.server \in Servers \cup {None} /\ process \in Servers \cup {None}
  BY InHand
<1>3. runtime.inits = 0 => runtime.server = None /\ runtime.metrics = NoMetrics
  BY DEF Typed, RuntimeTyped
<1>4. event \in {0} \cup DOMAIN loops /\ missed <= Cardinality(DOMAIN loops)
  <2>1. Cardinality(DOMAIN loops) = Last /\ Last \in Nat
    BY LoopsCounted
  <2>2. missed \in Nat /\ (missed <= Last \/ missed = 0 \/ missed < Last)
    BY DEF LogTyped, LogInv
  <2>3. missed <= Last
    BY <2>1, <2>2
  <2> QED BY <2>1, <2>3 DEF LogTyped
<1>5. attempt \in [Starters -> 0 .. Retries] /\ mine \in [Starters -> Servers \cup {None}]
  BY DEF Typed, PluginTyped
<1>6. \A s \in Servers : servers[s].port \in 0 .. Retries - 1
  BY DEF Typed, PluginTyped, ServerRecords
<1>7. \A s, r \in Servers : s # r /\ Listening(s) /\ Listening(r) => servers[s].port # servers[r].port
  BY DEF ServerInv, PortsApart
<1>8. file \in {"absent", "empty", "mixed", Own} \cup Registrars
  BY DEF Typed, RelayTyped
<1> QED BY <1>1, <1>2, <1>3, <1>4, <1>5, <1>6, <1>7, <1>8 DEF TypeOK

\* Two that serve would both be the remembered one; and what serves is named or held.
LEMMA ServingMeans ==
  ASSUME Typed, ServerInv
  PROVE  ServerKnown /\ Served
<1>1. Served
  BY DEF ServerInv, StillServed, Loaded, Served
<1>2. ASSUME OneAtATime PROVE Cardinality(Serving) <= 1
  <2>1. Remembered
    BY <1>2 DEF ServerInv, OneAtATime
  <2>2. \A s, r \in Serving : s = r
    <3> SUFFICES ASSUME NEW s \in Serving, NEW r \in Serving PROVE s = r
      OBVIOUS
    <3>1. s \in Servers /\ r \in Servers /\ Alive(s) /\ Alive(r)
      BY ServersAreNumbers DEF Serving, Alive
    <3>2. CASE \A t \in Starters : pc[t] # "remember"
      BY <2>1, <3>1, <3>2 DEF Remembered
    <3>3. CASE \E t \in Starters : pc[t] = "remember"
      <4>1. PICK t \in Starters : pc[t] = "remember" /\ \A u \in Starters : pc[u] = "remember" => u = t
        BY <2>1, <3>3 DEF Remembered, Starting
      <4>2. ~ Alive(process)
        BY <2>1, <4>1 DEF Remembered
      <4> QED BY <2>1, <3>1, <4>1, <4>2 DEF Remembered
    <3> QED BY <3>2, <3>3
  <2>3. CASE Serving = {}
    <3>1. Cardinality(Serving) = 0
      BY <2>3, FS_EmptySet
    <3> QED BY <3>1
  <2>4. CASE Serving # {}
    <3>1. PICK s : Serving = {s}
      BY <2>2, <2>4
    <3>2. Cardinality(Serving) = 1
      BY <3>1, FS_Singleton
    <3> QED BY <3>2
  <2> QED BY <2>3, <2>4
<1>3. ASSUME OneAtATime PROVE \A s \in Serving : runtime.server = s \/ \E t \in Starters : mine[t] = s
  BY <1>3 DEF ServerInv, Named, Serving, Stage
<1> QED BY <1>1, <1>2, <1>3 DEF ServerKnown

\* On a loaded plugin a server runs, one only, and it is the one on_shutdown will find,
\* unless threads met inside _start_a2a_server or __init__.
THEOREM OneServerRuns == Spec => []OneServer
<1>1. Typed /\ ServerInv /\ LogTyped /\ LogInv => OneServer
  BY TypesMean, ServingMeans DEF OneServer
<1> QED BY ServersSound, LogKept, <1>1, PTL

\* on_shutdown returns in one of two steps.
LEMMA ReachedBy ==
  ASSUME Typed, ServerInv, Next, pc[Main] \in {"up", "await"}, pc'[Main] = "idle"
  PROVE  ShutdownStep \/ (Down /\ UNCHANGED runtime)
<1> USE StartersAreThreads DEF Typed
<1>1. CASE PluginStep
  <2> USE DEF Go, GoFrom
  <2>1. CASE Begin
    BY <2>1 DEF Begin, Load, Announce
  <2>2. CASE BootStep
    BY <2>2 DEF BootStep, Boot
  <2>3. CASE LogStep
    BY <2>3 DEF LogStep, StopLogger, JoinLogger, StartLogger
  <2>4. CASE DownStep
    BY <2>4 DEF DownStep, Compare, Clear, StopSweeper, AskToStop
  <2>5. CASE \E t \in Starters : StartStep(t)
    BY <2>5 DEF StartStep, Check, Bind, StartThread, Remember, Publish, Leave, Raise
  <2> QED BY <1>1, <2>1, <2>2, <2>3, <2>4, <2>5 DEF PluginStep
<1>2. CASE \E t \in Relays : RelayStep(t)
  BY <1>2, RelayFrame
<1>3. CASE \E r \in Registrars : RegisterStep(r)
  BY <1>3, RegisterFrame
<1>4. CASE FillAny
  BY <1>4 DEF FillAny, FillStep, Find, Fill
<1>5. CASE LoopStep \/ \E s \in Servers : ServeStep(s)
  BY <1>5 DEF LoopStep, ServeStep, ServerStep, LoopEnds, ThreadEnds, PortFreed
<1> QED BY <1>1, <1>2, <1>3, <1>4, <1>5, Kinds

\* What is left running is in the hands of a thread, or named.
LEMMA RunningIsHeld ==
  ASSUME Typed, ServerInv, OneAtATime, NEW s \in Running
  PROVE  /\ s \in Servers
         /\ \/ Stage(s) = "serving" /\ runtime.server = s
            \/ \E t \in Starters : mine[t] = s /\ (Stage(s) = "serving" \/ pc[t] = "thread")
<1>1. s \in Servers /\ (Stage(s) = "serving" \/ (servers[s].sweeping /\ Stage(s) # "failed"))
  BY DEF Running, Stage
<1>2. Stage(s) \in ServerStages
  BY <1>1 DEF Typed, PluginTyped, ServerRecords, Stage
<1>3. Stage(s) # "unmade" \/ ~ servers[s].sweeping
  BY <1>1 DEF ServerInv, Ordered, Made, Unmade
<1>4. Stage(s) \in {"serving", "bound"}
  BY <1>1, <1>2, <1>3 DEF ServerInv, Accounted, ServerStages, Once
<1>5. CASE Stage(s) = "serving"
  BY <1>1, <1>5 DEF ServerInv, Named
<1>6. CASE Stage(s) = "bound"
  BY <1>1, <1>6 DEF ServerInv, Accounted
<1> QED BY <1>1, <1>4, <1>5, <1>6

\* When it does, all that runs is in other hands, or newer.
LEMMA ShutdownStepReaches ==
  ASSUME Typed, ServerInv, [Next]_vars,
         pc[Main] \in {"up", "await"}, pc'[Main] = "idle", OneAtATime
  PROVE  \/ \E t \in Announcers : pc[t] \in Starting
         \/ mine[Main] # None /\ \A s \in Running' : s > mine[Main]
         \/ Running' = {}
<1> USE StartersAreThreads
<1>1. Next
  BY DEF vars
<1>2. CASE ShutdownStep
  <2>1. pc[Main] = "up" /\ runtime.server = None /\ Running' = Running /\ mine[Main] = None
    BY <1>2, InHand DEF ShutdownStep, Shutdown, Go, Typed, Running, Holding, Downing
  <2>2. SUFFICES ASSUME NEW s \in Running PROVE \E t \in Announcers : pc[t] \in Starting
    BY <2>1
  <2>3. s \in Servers /\ \E t \in Starters : mine[t] = s
    BY <2>1, RunningIsHeld, ServersAreNumbers
  <2>4. PICK t \in Starters : mine[t] = s
    BY <2>3
  <2>5. t # Main /\ pc[t] \in Holding
    BY <2>1, <2>3, <2>4, InHand, ServersAreNumbers DEF ServerInv, Hands
  <2> QED BY <2>4, <2>5 DEF Starters, Holding, Starting
<1>3. CASE Down /\ UNCHANGED runtime
  <2>1. pc[Main] = "await" /\ Running' = Running /\ Stage(mine[Main]) \notin {"serving", "bound"} /\ mine[Main] # None
    BY <1>3, InHand, ServersAreNumbers DEF Down, GoFrom, Running, Stage, Downing
  <2>2. SUFFICES ASSUME NEW s \in Running PROVE s > mine[Main]
    BY <2>1
  <2>3. Named
    BY DEF ServerInv
  <2>4. CASE runtime.server = s
    BY <2>1, <2>3, <2>4, RunningIsHeld, ServersAreNumbers DEF Named
  <2>5. CASE \E t \in Starters : mine[t] = s /\ (Stage(s) = "serving" \/ pc[t] = "thread")
    <3>1. PICK t \in Starters : mine[t] = s /\ (Stage(s) = "serving" \/ pc[t] = "thread")
      BY <2>5
    <3>2. t # Main
      BY <2>1, <3>1
    <3>3. pc[t] \in Holding
      BY <3>1, <3>2, RunningIsHeld, InHand, ServersAreNumbers DEF ServerInv, Hands
    <3> QED BY <2>1, <2>3, <3>1, <3>3 DEF Named
  <2> QED BY <2>4, <2>5, RunningIsHeld
<1> QED BY <1>1, <1>2, <1>3, ReachedBy

\* on_shutdown leaves running only what was begun after the server it stopped.
THEOREM ShutdownReachesAll == Spec => ShutdownReaches
<1>1. Typed /\ ServerInv /\ [Next]_vars =>
        [pc[Main] \in {"up", "await"} /\ pc'[Main] = "idle" /\ OneAtATime
           => \/ \E t \in Announcers : pc[t] \in Starting
              \/ mine[Main] # None /\ \A s \in Running' : s > mine[Main]
              \/ Running' = {}]_vars
  BY ShutdownStepReaches
<1> QED BY ServersSound, <1>1, PTL DEF Spec, ShutdownReaches

=============================================================================
