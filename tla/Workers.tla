------------------------------ MODULE Workers ------------------------------
(***************************************************************************)
(* Ephemeral workers: the subprocess a "local" call runs on this machine   *)
(* (mode 2) and a "remote" one makes the target server run on its own      *)
(* (mode 3), the registry of running workers of each machine               *)
(* (worker_registry.py), and the cancel tool that looks into it.           *)
(*                                                                         *)
(* A worker is named after the call it runs for.                           *)
(***************************************************************************)
EXTENDS ToolCalls, Functions

VARIABLES
  job,       \* how far _run_worker_subprocess is for each call
  proc,      \* the subprocess, and what came of it
  registry,  \* _processes on each machine: the worker under each task id
  held       \* the worker a cancel has looked up, and whether it ended it

workers == <<job, proc, registry, held>>

Sites == {"here", "there"}
None == "none"
Free == [worker |-> None, ended |-> FALSE]

WInit ==
  /\ job = [c \in Calls |-> "none"]
  /\ proc = [c \in Calls |-> "none"]
  /\ registry = [s \in Sites |-> <<>>]
  /\ held = [c \in Calls |-> Free]

Runs(c) == Asks(c, "local") \/ Asks(c, "remote")
Site(c) == IF Asks(c, "local") THEN "here" ELSE "there"

Advance(c, to) == job' = [job EXCEPT ![c] = to]
Becomes(c, fate) == proc' = [proc EXCEPT ![c] = fate]
Alone(others) == UNCHANGED <<limits, others>>

-----------------------------------------------------------------------------
(***************************************************************************)
(* _run_worker_subprocess, in the calling thread of a mode 2 call or in    *)
(* the handler of the target's server.                                     *)
(***************************************************************************)
\* A mode 3 request that is lost leaves the caller with an error: Reject.
Launch(c) ==
  /\ stage[c] = "start" /\ Runs(c)
  /\ Goto(c, "await") /\ Advance(c, "spawn")
  /\ Alone(<<proc, registry, held>>)

\* If Popen raises there is nothing to register, and the rest is done all the same.
Spawn(c) ==
  /\ job[c] = "spawn"
  /\ \/ Becomes(c, "running") /\ Advance(c, "register")
     \/ Advance(c, "unregister") /\ UNCHANGED proc
  /\ Alone(<<calls, registry, held>>)

\* register_worker: the last one under an id is the one that is found.
Register(c) ==
  /\ job[c] = "register"
  /\ registry' = [registry EXCEPT ![Site(c)] = [i \in DOMAIN @ \cup {Id(c)} |-> IF i = Id(c) THEN c ELSE @[i]]]
  /\ Advance(c, "talk")
  /\ Alone(<<calls, proc, held>>)

\* _mode2_worker.main: prints the result as JSON, which other output may spoil,
\* or exits with 1 on any exception, SIGALRM's TimeoutError included.
Exit(c) ==
  /\ proc[c] = "running"
  /\ \E fate \in {"ok", "garbled", "failed"} :
       (job[c] # "talk" => fate = "failed") /\ Becomes(c, fate)
  /\ Alone(<<calls, job, registry, held>>)

\* communicate returns ...
Collect(c) ==
  /\ job[c] = "talk" /\ proc[c] # "running"
  /\ Advance(c, "unregister")
  /\ Alone(<<calls, proc, registry, held>>)

\* Mutants: communicate without its timeout; the timeout is passed on at once.
ExpireNever(c) == FALSE /\ job' = job
ExpireUnkilled(c) ==
  /\ job[c] = "talk" /\ proc[c] = "running"
  /\ Advance(c, "unregister")
  /\ Alone(<<calls, proc, registry, held>>)

\* ... or raises TimeoutExpired, and the worker is killed.
Expire(c) ==
  /\ job[c] = "talk" /\ proc[c] = "running"
  /\ Advance(c, "kill")
  /\ Alone(<<calls, proc, registry, held>>)

\* Whatever a worker that ends in between has printed is not looked at.
Kill(c) ==
  /\ job[c] = "kill"
  /\ Becomes(c, "killed") /\ Advance(c, "unregister")
  /\ Alone(<<calls, registry, held>>)

\* unregister_worker: by id, whichever worker is found there.
Unregister(c) ==
  /\ job[c] = "unregister"
  /\ registry' = [registry EXCEPT ![Site(c)] = Restrict(@, DOMAIN @ \ {Id(c)})]
  /\ Advance(c, "clean")
  /\ Alone(<<calls, proc, held>>)

\* Mutant: running processes are taken for finished ones.
CleanupAll(c) ==
  /\ job[c] = "clean"
  /\ registry' = [registry EXCEPT ![Site(c)] = Restrict(@, {i \in DOMAIN @ : proc[@[i]] # "running"})]
  /\ Advance(c, "over")
  /\ Alone(<<calls, proc, held>>)

\* cleanup_zombie_processes
Cleanup(c) ==
  /\ job[c] = "clean"
  /\ registry' = [registry EXCEPT ![Site(c)] = Restrict(@, {i \in DOMAIN @ : proc[@[i]] = "running"})]
  /\ Advance(c, "over")
  /\ Alone(<<calls, proc, held>>)

\* The answer of a call whose worker is over.
Verdict(c) ==
  IF proc[c] = "ok" THEN "completed" ELSE IF Asks(c, "remote") /\ proc[c] # "none" THEN "failed" ELSE "error"

Answer(c) ==
  /\ stage[c] = "await" /\ job[c] = "over"
  /\ Return(c, Verdict(c))
  /\ Alone(workers)

\* The caller of a remote worker times out, or its connection breaks; nobody
\* tells the handler.
GiveUp(c) ==
  /\ stage[c] = "await" /\ Asks(c, "remote")
  /\ Return(c, "error")
  /\ Alone(workers)

-----------------------------------------------------------------------------
(***************************************************************************)
(* cancel_worker, called by the cancel tool; it looks at this machine only. *)
(***************************************************************************)
\* The lock is held while the worker is looked up ...
Lookup(c) ==
  /\ stage[c] = "start" /\ Asks(c, "cancel")
  /\ LET mine == registry["here"]
     IN held' = [held EXCEPT ![c].worker = IF Id(c) \in DOMAIN mine THEN mine[Id(c)] ELSE None]
  /\ Goto(c, "poll")
  /\ Alone(<<job, proc, registry>>)

Running(w) == w # None /\ proc[w] = "running"

\* ... and released when its process is looked at ...
PollWorker(c) ==
  /\ stage[c] = "poll" /\ Asks(c, "cancel")
  /\ Goto(c, IF Running(held[c].worker) THEN "terminate" ELSE "tell")
  /\ Alone(workers)

\* ... and terminated, if it has not ended since.  It may take its time over it.
Terminate(c) ==
  /\ stage[c] = "terminate"
  /\ \/ Running(held[c].worker) /\ Becomes(held[c].worker, "killed")
     \/ UNCHANGED proc
  /\ Goto(c, "wait")
  /\ Alone(<<job, registry, held>>)

\* The wait ends with the process, or runs out and the process is killed.
Reap(c) ==
  /\ stage[c] = "wait"
  /\ IF Running(held[c].worker) THEN Becomes(held[c].worker, "killed") ELSE UNCHANGED proc
  /\ held' = [held EXCEPT ![c].ended = TRUE]
  /\ Goto(c, "tell")
  /\ Alone(<<job, registry>>)

\* Without a remote agent this is all.
TellCanceled(c) ==
  /\ stage[c] = "tell" /\ ~request[c].away
  /\ Return(c, IF held[c].ended THEN "canceled" ELSE "unknown")
  /\ Alone(workers)

WorkerStep(c) ==
  \/ Launch(c) \/ Answer(c) \/ GiveUp(c)
  \/ Lookup(c) \/ PollWorker(c) \/ Terminate(c) \/ Reap(c) \/ TellCanceled(c)

JobStep(c) ==
  \/ Spawn(c) \/ Register(c) \/ Collect(c) \/ Expire(c) \/ Kill(c) \/ Unregister(c) \/ Cleanup(c)

-----------------------------------------------------------------------------
\* No worker outlives the handler that runs it, whether it was collected, ran out
\* of time or was canceled by another call; and a cancel that reports success has
\* ended the worker it found, even one that ignored the first signal.
NoOrphan ==
  /\ \A c \in Calls : job[c] \in {"unregister", "clean", "over"} => proc[c] # "running"
  /\ \A c \in Calls : held[c].ended => proc[held[c].worker] \notin {"running", "none"}

\* A running worker can be canceled while its handler waits for it, whatever
\* other calls register, remove and clean up, if none uses its id on its machine.
Findable ==
  \A c \in Calls :
    /\ job[c] = "talk" /\ proc[c] = "running"
    /\ \A d \in Calls \ {c} : Runs(d) /\ Site(d) = Site(c) => Id(d) # Id(c)
    => Id(c) \in DOMAIN registry[Site(c)] /\ registry[Site(c)][Id(c)] = c

=============================================================================
