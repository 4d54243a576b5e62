---------------------------- MODULE RuntimeState ----------------------------
(***************************************************************************)
(* The singleton that the server thread, the hooks and the tools share     *)
(* (runtime_state.py): made by whichever thread asks for it first, with a  *)
(* flag that __init__ tests without a lock. It names the server and the    *)
(* metrics. The metrics logger is a thread whose loop reads the event it   *)
(* waits for from a module global.                                         *)
(***************************************************************************)
EXTENDS Naturals, FiniteSets, FiniteSetsExt

CONSTANTS
  Threads,      \* the threads of the gateway that enter the package
  Main,         \* the one that loads and shuts down the plugin
  Servers,      \* the A2AServer objects ever made, in the order they are: 1 .. n
  None,
  LoggerOn      \* A2A_METRICS_LOG_ENABLED

ASSUME RuntimeAssumption ==
  /\ Main \in Threads
  /\ LoggerOn \in BOOLEAN
  /\ Servers = 1 .. Cardinality(Servers) /\ None \notin Servers

VARIABLES
  runtime,      \* the singleton: how often its fields were set, its server, its metrics
  fillers,      \* the threads inside __init__ that saw it was not done
  pc,           \* what each thread does next
  event,        \* _metrics_logger_event: a number, or 0 for None
  loops,        \* what each metrics logger thread does, by the event it was made with
  missed        \* how many of those did not end within the two seconds of join()

state == <<runtime, fillers>>
logging == <<event, loops, missed>>

NoMetrics == [successes |-> 0, failures |-> 0]

RInit ==
  /\ runtime = [inits |-> 0, server |-> None, metrics |-> NoMetrics]
  /\ fillers = {}
  /\ event = 0 /\ loops = <<>> /\ missed = 0

Go(t, there) == pc' = [pc EXCEPT ![t] = there]
GoFrom(t, here, there) == pc[t] = here /\ Go(t, there)

\* get_runtime_state() has come back to t.
Ready(t) == runtime.inits > 0 /\ t \notin fillers

\* It has not been filled in yet: __new__ made it, or another thread is about to.
Find(t, here) ==
  /\ pc[t] = here /\ runtime.inits = 0 /\ t \notin fillers
  /\ fillers' = fillers \cup {t}
  /\ UNCHANGED <<runtime, pc>>

\* The assignments of __init__, whatever has been stored since the test.
Fill(t) ==
  /\ t \in fillers
  /\ runtime' = [inits |-> runtime.inits + 1, server |-> None, metrics |-> NoMetrics]
  /\ fillers' = fillers \ {t}
  /\ UNCHANGED pc

SetServer(s) == runtime' = [runtime EXCEPT !.server = s]

\* record_webhook_result on the metrics object that t was given by the inits-th
\* __init__: one that has been replaced is no longer read.
Record(inits, outcome) ==
  runtime' = IF inits # runtime.inits THEN runtime
             ELSE [runtime EXCEPT !.metrics[outcome] = @ + 1]

-----------------------------------------------------------------------------
(* The metrics logger.                                                      *)

\* A loop waits for an event that is set once it is no longer the module's:
\* _stop_metrics_logger sets it and forgets it.
Fired(e) == e # event

\* _stop_metrics_logger, up to the join.
StopLogger(t, here, there) ==
  GoFrom(t, here, there) /\ event' = 0 /\ UNCHANGED <<loops, missed>>

\* As a bug would be: the thread is forgotten before it is waited for.
JoinForgotten(t, here, there) == GoFrom(t, here, there) /\ UNCHANGED <<event, loops, missed>>

\* The join comes back when the latest thread has ended, or after two seconds.
JoinLogger(t, here, there) ==
  /\ GoFrom(t, here, there)
  /\ LET waiting == loops # <<>> /\ loops[Cardinality(DOMAIN loops)].at # "over"
     IN missed' = missed + IF waiting THEN 1 ELSE 0
  /\ UNCHANGED <<event, loops>>

StartLogger(t, here, there) ==
  /\ GoFrom(t, here, there)
  /\ LET e == Cardinality(DOMAIN loops) + 1
     IN event' = e /\ loops' = [i \in 1 .. e |-> IF i = e THEN [at |-> "test", on |-> 0] ELSE loops[i]]
  /\ UNCHANGED missed

LoopGoes(l, at, on) == loops' = [loops EXCEPT ![l] = [at |-> at, on |-> on]]

\* The head of the loop evaluates the global; None has no wait(), and ends the thread.
LoopTest(l) ==
  /\ loops[l].at = "test"
  /\ IF event = 0 THEN LoopGoes(l, "over", 0) ELSE LoopGoes(l, "wait", event)

\* wait() comes back: set, or the interval is over and the metrics are logged.
LoopWake(l) ==
  /\ loops[l].at = "wait"
  /\ IF Fired(loops[l].on) THEN LoopGoes(l, "over", 0) ELSE LoopGoes(l, "test", 0)

LoggerStep == \E l \in DOMAIN loops : (LoopTest(l) \/ LoopWake(l)) /\ UNCHANGED <<event, missed>>

LoggersAlive == {l \in DOMAIN loops : loops[l].at # "over"}
=============================================================================
