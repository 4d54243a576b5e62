------------------------------- MODULE Plugin -------------------------------
(***************************************************************************)
(* The life of the plugin (plugin.py): register, the start of the server,  *)
(* on_shutdown, a reload; and a2a_announce, which asks for the server from *)
(* other threads. A port is in use as long as anything refers to the       *)
(* server object: nobody closes its socket.                                *)
(***************************************************************************)
EXTENDS RuntimeState

CONSTANTS
  Announcers,   \* threads that call a2a_announce
  Retries,      \* A2A_PORT_RETRY_MAX
  Homes,        \* the homes of the instance
  MaxLoads      \* bound: calls of register

\* A place has nothing, YAML that does not parse, an identity without a token or a
\* chat id, or a good one.
Holds == {"absent", "malformed", "unusable", "usable"}

ASSUME PluginAssumption ==
  /\ Announcers \subseteq Threads \ {Main}
  /\ Retries \in Nat \ {0} /\ MaxLoads \in Nat
  /\ Homes \subseteq [agent : Holds, profile : Holds, env : Holds, config : Holds,
                     files : BOOLEAN, telegram : {"ok", "rejected", "http error", "unreachable"}]

VARIABLES
  home,         \* what each place an identity may come from holds, and Telegram's answer
  tools,        \* the tools are registered
  foreign,      \* ports that other programs listen on
  servers,      \* the A2AServer objects, their ports, and the threads of their limiters
  process,      \* _server_process, by its server
  attempt,      \* the port each starter tries, from the configured one
  mine,         \* the server each starter has made, or main is shutting down
  loads,        \* how often register was called
  clashed,      \* two threads were inside _start_a2a_server at once
  hasty         \* register met a thread whose loop was over, and took it for a server

places == <<home, tools, foreign>>
server == <<servers, process, attempt, mine>>
ghosts == <<loads, clashed, hasty>>

Starters == Announcers \cup {Main}
Unmade == [stage |-> "unmade", port |-> 0, sweeping |-> FALSE]
Starting == {"bind", "thread", "remember", "publish"}
Alive(s) == s # None /\ servers[s].stage \in {"serving", "asked", "stopped"}
Listening(s) == servers[s].stage \in {"bound", "serving", "asked", "stopped", "draining"}

PluginInit ==
  /\ home \in Homes
  /\ foreign \in SUBSET (0 .. Retries - 1)
  /\ tools = FALSE
  /\ servers = [s \in Servers |-> Unmade] /\ process = None
  /\ attempt = [t \in Starters |-> 0] /\ mine = [t \in Starters |-> None]
  /\ loads = 0 /\ clashed = FALSE /\ hasty = FALSE

-----------------------------------------------------------------------------
(* The identity: the first source that has one, and what BootValidator says. *)
Priority == <<"agent", "profile", "env", "config">>

\* The first source that is not empty, whatever it holds; a malformed file raises.
\* With a2a.vault: none only config.yaml counts.
Resolved ==
  LET held == {i \in 1 .. 4 : home[Priority[i]] # "absent" /\ (home.files \/ Priority[i] = "config")}
  IN IF held = {} THEN "absent" ELSE home[Priority[Min(held)]]

\* Only an HTTP answer other than 401 lets the boot go on.
Valid == Resolved = "usable" /\ home.telegram \in {"ok", "http error"}

-----------------------------------------------------------------------------
(* register *)
Load ==
  /\ pc[Main] \in {"idle", "refused"} /\ Go(Main, "boot") /\ loads < MaxLoads
  /\ tools' = TRUE /\ loads' = loads + 1
  /\ UNCHANGED <<home, foreign, server, clashed, hasty>>

Boot ==
  /\ GoFrom(Main, "boot", IF Valid THEN "check" ELSE "refused")
  /\ UNCHANGED <<places, server, ghosts>>

\* a2a_announce: the tool says that the server is not running, whatever happens here.
Announce(t) ==
  /\ tools /\ GoFrom(t, "idle", "check")
  /\ UNCHANGED <<places, server, ghosts>>

Leave(t) == IF t = Main THEN "stop logger" ELSE "done"

\* Whoever raises in _start_a2a_server: register does, and announce reports it.
Raise(t) == IF t = Main THEN "refused" ELSE "done"

\* As a bug would be: each caller looks at the server that it made itself.
FoundOwn(t) == Alive(mine[t])

\* The test at the head of _start_a2a_server: is_alive() of the thread.
Found(t) == Alive(process)

Check(t) ==
  /\ pc[t] = "check"
  /\ IF Found(t)
     THEN /\ Go(t, Leave(t))
          /\ hasty' = (hasty \/ (t = Main /\ servers[process].stage = "stopped"))
          /\ UNCHANGED clashed
     ELSE /\ Go(t, "bind")
          /\ clashed' = (clashed \/ \E u \in Starters \ {t} : pc[u] \in Starting)
          /\ UNCHANGED hasty
  /\ attempt' = [attempt EXCEPT ![t] = 0]
  /\ UNCHANGED <<places, servers, process, mine, loads>>

LastTry(t) == attempt[t] = Retries - 1

\* A2AServer(): the limiter's thread runs, and the queue's watchdog, before the
\* socket is bound; an attempt that fails leaves them behind.
Bind(t) ==
  /\ pc[t] = "bind" /\ Ready(t)
  /\ \E s \in Servers :
       /\ servers[s] = Unmade /\ \A r \in 1 .. s - 1 : servers[r] # Unmade
       /\ LET taken == \/ attempt[t] \in foreign
                       \/ \E r \in Servers : Listening(r) /\ servers[r].port = attempt[t]
              stage == IF taken THEN "failed" ELSE "bound"
          IN /\ servers' = [servers EXCEPT ![s] = [stage |-> stage, port |-> attempt[t], sweeping |-> TRUE]]
             /\ IF taken
                THEN /\ Go(t, IF LastTry(t) THEN Raise(t) ELSE "bind")
                     /\ attempt' = [attempt EXCEPT ![t] = @ + 1]
                     /\ UNCHANGED mine
                ELSE /\ Go(t, "thread") /\ mine' = [mine EXCEPT ![t] = s] /\ UNCHANGED attempt
  /\ UNCHANGED <<places, process, ghosts>>

StartThread(t) ==
  /\ GoFrom(t, "thread", "remember")
  /\ servers' = [servers EXCEPT ![mine[t]].stage = "serving"]
  /\ UNCHANGED <<places, process, attempt, mine, ghosts>>

Remember(t) ==
  /\ GoFrom(t, "remember", "publish")
  /\ process' = mine[t]
  /\ UNCHANGED <<places, servers, attempt, mine, ghosts>>

\* set_runtime_server.
Publish(t) ==
  /\ GoFrom(t, "publish", Leave(t)) /\ Ready(t)
  /\ SetServer(mine[t])
  /\ mine' = [mine EXCEPT ![t] = None]
  /\ UNCHANGED <<places, servers, process, attempt, ghosts>>

-----------------------------------------------------------------------------
(* on_shutdown *)

\* get_server(); without one there is nothing to stop.
Shutdown ==
  /\ pc[Main] = "up" /\ Ready(Main)
  /\ Go(Main, IF runtime.server = None THEN "idle" ELSE "compare")
  /\ mine' = [mine EXCEPT ![Main] = runtime.server]
  /\ UNCHANGED <<places, servers, process, attempt, ghosts>>

\* clear_runtime_server: the test and the assignment are two calls.
Compare ==
  /\ GoFrom(Main, "compare", IF runtime.server = mine[Main] THEN "clear" ELSE "sweeper")
  /\ UNCHANGED <<places, server, ghosts>>

Clear ==
  /\ GoFrom(Main, "clear", "sweeper")
  /\ SetServer(None)
  /\ UNCHANGED <<places, server, ghosts>>

\* As a bug would be: the limiter is that of the server the state names, after the
\* state has been cleared.
StopSweeperOfState ==
  /\ GoFrom(Main, "sweeper", "ask")
  /\ servers' = [s \in Servers |-> IF s = runtime.server THEN [servers[s] EXCEPT !.sweeping = FALSE] ELSE servers[s]]
  /\ UNCHANGED <<places, process, attempt, mine, ghosts>>

StopSweeper ==
  /\ GoFrom(Main, "sweeper", "ask")
  /\ servers' = [servers EXCEPT ![mine[Main]].sweeping = FALSE]
  /\ UNCHANGED <<places, process, attempt, mine, ghosts>>

\* As a bug would be: the server to stop is that of the state, which has been cleared.
AskToStopNamed ==
  /\ GoFrom(Main, "ask", "await")
  /\ servers' = [s \in Servers |-> IF s = runtime.server THEN [servers[s] EXCEPT !.stage = "asked"] ELSE servers[s]]
  /\ UNCHANGED <<places, process, attempt, mine, ghosts>>

\* shutdown() asks the loop of serve_forever to end, and waits until it has.
AskToStop ==
  /\ GoFrom(Main, "ask", "await")
  /\ servers' = [servers EXCEPT ![mine[Main]].stage = IF @ = "serving" THEN "asked" ELSE @]
  /\ UNCHANGED <<places, process, attempt, mine, ghosts>>

LoopEnds(s) ==
  /\ servers[s].stage = "asked"
  /\ servers' = [servers EXCEPT ![s].stage = "stopped"]
  /\ UNCHANGED <<pc, places, process, attempt, mine, ghosts>>

Down ==
  /\ GoFrom(Main, "await", "idle")
  /\ servers[mine[Main]].stage \in {"stopped", "draining", "ended"}
  /\ mine' = [mine EXCEPT ![Main] = None]
  /\ UNCHANGED <<places, servers, process, attempt, ghosts>>

\* The thread ends a moment after its loop. Requests that are still being answered
\* hold the server object, and with it the port, until they end.
ThreadEnds(s) ==
  /\ servers[s].stage = "stopped"
  /\ servers' = [servers EXCEPT ![s].stage = "draining"]
  /\ UNCHANGED <<pc, places, process, attempt, mine, ghosts>>

PortFreed(s) ==
  /\ servers[s].stage = "draining" /\ \A t \in Starters : mine[t] # s
  /\ servers' = [servers EXCEPT ![s].stage = "ended"]
  /\ UNCHANGED <<pc, places, process, attempt, mine, ghosts>>

ServerStep(s) == LoopEnds(s) \/ ThreadEnds(s) \/ PortFreed(s)

Serving == {s \in Servers : servers[s].stage = "serving"}
=============================================================================
