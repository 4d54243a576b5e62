------------------------------- MODULE Gateway -------------------------------
(***************************************************************************)
(* The gateway process: the plugin and its reloads, a2a_announce, relays   *)
(* and registrations, around the one runtime state.                        *)
(***************************************************************************)
EXTENDS Plugin, Relay

\* A thread is one call of one tool.
ASSUME GatewayAssumption == Announcers \cap (Relays \cup Registrars) = {}

pluginVars == <<places, server, ghosts>>
relayVars == <<registry, relays>>
vars == <<state, pc, logging, pluginVars, relayVars>>

Init ==
  /\ RInit /\ PluginInit /\ RelayInit
  /\ pc = [t \in Threads |-> "idle"]

\* The first use of the singleton by each thread.
FillStep(t) ==
  /\ Find(t, "bind") \/ Find(t, "metrics") \/ Fill(t)
  /\ UNCHANGED <<logging, pluginVars, relayVars>>

StartStep(t) ==
  /\ \/ (Check(t) \/ Bind(t) \/ StartThread(t) \/ Remember(t)) /\ UNCHANGED runtime
     \/ Publish(t)
  /\ UNCHANGED <<fillers, logging, relayVars>>

\* register begins, and goes on; a2a_announce is called.
Begin ==
  /\ Load \/ \E t \in Announcers : Announce(t)
  /\ UNCHANGED <<state, logging, relayVars>>

LogStep ==
  /\ IF LoggerOn
     THEN \/ StopLogger(Main, "stop logger", "join logger")
          \/ JoinLogger(Main, "join logger", "start logger")
          \/ StartLogger(Main, "start logger", "up")
     ELSE GoFrom(Main, "stop logger", "up") /\ UNCHANGED logging
  /\ UNCHANGED <<state, pluginVars, relayVars>>

DownStep ==
  /\ \/ (Compare \/ StopSweeper \/ AskToStop \/ Down) /\ UNCHANGED runtime
     \/ Clear
  /\ UNCHANGED <<fillers, logging, relayVars>>

ShutdownStep == Shutdown /\ UNCHANGED <<state, logging, relayVars>>

BootStep == Boot /\ UNCHANGED <<state, logging, relayVars>>

MainStep == FillStep(Main) \/ BootStep \/ StartStep(Main) \/ LogStep \/ DownStep

RelayStep(t) ==
  /\ \/ (Resolve(t) \/ ReadRaw(t) \/ GetMetrics(t) \/ Post(t) \/ Float(t)) /\ UNCHANGED runtime
     \/ CountSuccess(t)
     \/ CountFailure(t)
  /\ UNCHANGED <<fillers, logging, pluginVars>>

RegisterStep(r) ==
  /\ CheckFile(r) \/ Truncate(r) \/ Write(r) \/ WriteFails(r)
  /\ UNCHANGED <<state, logging, pluginVars>>

ServeStep(s) == ServerStep(s) /\ UNCHANGED <<state, logging, tools, home, foreign, relayVars, ghosts>>

LoopStep == LoggerStep /\ UNCHANGED <<state, pc, pluginVars, relayVars>>

Next ==
  \/ Begin \/ MainStep \/ ShutdownStep \/ LoopStep
  \/ \E t \in Announcers : FillStep(t) \/ StartStep(t)
  \/ \E t \in Relays : FillStep(t) \/ RelayStep(t)
  \/ \E r \in Registrars : RegisterStep(r)
  \/ \E s \in Servers : ServeStep(s)

Spec == Init /\ [][Next]_vars

\* Threads that have begun go on, and a server's loop looks at the request to stop
\* it twice a second. Nobody has to load, to announce or to shut down, no relay
\* has to begin, and requests may hold a port for ever.
Fairness ==
  /\ WF_vars(MainStep)
  /\ \A t \in Announcers : WF_vars(FillStep(t) \/ StartStep(t))
  /\ \A t \in Relays : WF_vars(FillStep(t) \/ (pc[t] # "idle" /\ RelayStep(t)))
  /\ \A s \in Servers : WF_vars(LoopEnds(s) /\ ServeStep(s))
FairSpec == Spec /\ Fairness

-----------------------------------------------------------------------------
Outcomes == {"done", "refused", "failed", "registered", "idle", "up"}
Stages ==
  Outcomes \cup Starting
  \cup {"boot", "check", "stop logger", "join logger", "start logger", "compare", "clear", "sweeper", "ask", "await"}
  \cup {"open", "write", "read", "metrics", "post", "count success", "count failure", "float"}

TypeOK ==
  /\ pc \in [Threads -> Stages] /\ fillers \subseteq Threads
  /\ runtime.server \in Servers \cup {None} /\ process \in Servers \cup {None}
  /\ runtime.inits = 0 => runtime.server = None /\ runtime.metrics = NoMetrics
  /\ event \in {0} \cup DOMAIN loops /\ missed <= Cardinality(DOMAIN loops)
  /\ attempt \in [Starters -> 0 .. Retries] /\ mine \in [Starters -> Servers \cup {None}]
  /\ \A s \in Servers : servers[s].port \in 0 .. Retries - 1
  /\ \A s, r \in Servers : s # r /\ Listening(s) /\ Listening(r) => servers[s].port # servers[r].port
  /\ file \in {"absent", "empty", "mixed", Own} \cup Registrars

\* Only two threads inside _start_a2a_server, or inside __init__ of the singleton,
\* can make more than one server run, or one that the runtime state does not name
\* and on_shutdown would not find.
OneAtATime == ~clashed /\ runtime.inits <= 1

ServerKnown ==
  OneAtATime =>
    /\ Cardinality(Serving) <= 1
    /\ \A s \in Serving : runtime.server = s \/ \E t \in Starters : mine[t] = s

\* Once on_shutdown is over the server it was for has stopped, and its limiter's
\* thread with it; what runs now was begun since, or is being begun.
Running == {s \in Servers : servers[s].stage = "serving" \/ (servers[s].sweeping /\ servers[s].stage # "failed")}

ShutdownReaches ==
  [][pc[Main] \in {"up", "await"} /\ pc'[Main] = "idle" /\ OneAtATime
       => \/ \E t \in Announcers : pc[t] \in Starting
          \/ mine[Main] # None /\ \A s \in Running' : s > mine[Main]
          \/ Running' = {}]_vars

\* When register has returned a server runs until the plugin is shut down, also if
\* ports were taken, another thread started it, or the plugin was loaded before;
\* but not if the thread of the last one was just ending.
Served == pc[Main] = "up" /\ ~hasty => Serving # {}

\* Both: on a loaded plugin exactly one server runs, and it is the one that
\* on_shutdown will find; and every field has its type.
OneServer == TypeOK /\ ServerKnown /\ Served

\* However often the plugin is loaded, a second metrics logger runs only where the
\* first did not end while it was waited for.
LoggersBounded == Cardinality(LoggersAlive) <= 1 + missed

\* The metrics count each relay once, by what it answered, although any thread may
\* be the one that makes them, unless two did.
Relayed(answers) == Cardinality({t \in Relays : pc[t] \in answers \/ relays[t].answer \in answers})

MetricsTrue ==
  runtime.inits <= 1 =>
    /\ runtime.metrics.successes = Relayed({"float", "delivered"})
    /\ runtime.metrics.failures = Relayed({"failed"})

\* A one-way message that is reported as delivered has arrived, at most Deliveries
\* times; nothing was sent for an agent that is reported unknown or unusable.
DeliveryTold ==
  \A t \in Relays :
    /\ relays[t].copies <= Deliveries
    /\ relays[t].answer = "delivered" => relays[t].copies > 0
    /\ relays[t].answer \in {"not found", "refused", "raised"} => relays[t].copies = 0

\* Both: what relays report, and what is counted of them, is what was sent.
RelaysTold == MetricsTrue /\ DeliveryTold

\* The identity of an agent is left unreadable only by a registration that could
\* not write it, or by two that wrote it at once.
RegistryReadable ==
  file \in {"empty", "mixed"} => broken # {} \/ together \/ \E r \in Registrars : pc[r] = "write"

\* Whatever is called ends: register and on_shutdown, with requests still open, and
\* the tools.
EverythingEnds ==
  /\ pc[Main] \in {"boot", "compare"} ~> pc[Main] \in {"up", "refused", "idle"}
  /\ \A t \in Announcers : pc[t] = "check" ~> pc[t] = "done"
  /\ \A t \in Relays : pc[t] # "idle" ~> pc[t] = "done"
=============================================================================
