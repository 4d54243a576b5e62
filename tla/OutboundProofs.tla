--------------------------- MODULE OutboundProofs ---------------------------
(***************************************************************************)
(* What holds of the outbound side for any number of calls on any number   *)
(* of task ids: no worker outlives its handler, calls are admitted within  *)
(* the limit, what a send reports is true, and a running worker is found.  *)
(***************************************************************************)
EXTENDS Outbound, SequenceTheorems, TLAPS

Jobs == {"none", "spawn", "register", "talk", "kill", "unregister", "clean", "over"}
Fates == {"none", "running", "ok", "garbled", "failed", "killed"}

StageTyped == DOMAIN stage = Calls /\ stage = [c \in Calls |-> stage[c]]

Typed ==
  /\ job \in [Calls -> Jobs]
  /\ proc \in [Calls -> Fates]
  /\ StageTyped
  /\ DOMAIN held = Calls /\ held = [c \in Calls |-> held[c]]
  /\ \A c \in Calls : held[c] = [worker |-> held[c].worker, ended |-> held[c].ended]
  /\ DOMAIN registry = Sites /\ registry = [s \in Sites |-> registry[s]]

\* A worker is there from its start on, and is over when its handler is done with it.
Owned ==
  \A c \in Calls :
    /\ job[c] \in {"none", "spawn"} => proc[c] = "none"
    /\ job[c] \in {"register", "talk", "kill"} => proc[c] # "none"
    /\ job[c] \in {"unregister", "clean", "over"} => proc[c] # "running"

Started(w) == w \in Calls /\ proc[w] # "none"

\* What is registered, and what a cancel holds, has been started.
Registered == \A s \in Sites : \A i \in DOMAIN registry[s] : Started(registry[s][i])

Holding ==
  \A c \in Calls :
    /\ held[c].worker # None => Started(held[c].worker)
    /\ stage[c] \in {"terminate", "wait"} => held[c].worker # None /\ Started(held[c].worker)
    /\ held[c].ended => Started(held[c].worker) /\ proc[held[c].worker] # "running"

\* A call that has not begun its work has no worker and has ended none.
Before == {"idle", "limit", "start"}
Fresh == \A c \in Calls : stage[c] \in Before => job[c] = "none" /\ ~held[c].ended

Inv == Typed /\ Owned /\ Registered /\ Holding /\ Fresh

-----------------------------------------------------------------------------
\* A worker that has been started has been for good, and does not run again.
Forward ==
  \A c \in Calls : proc[c] # "none" =>
    proc'[c] # "none" /\ (proc[c] # "running" => proc'[c] # "running")

\* No call gets to where a cancel acts on a worker, or back to its beginning.
Aside ==
  /\ StageTyped'
  /\ \A c \in Calls : stage'[c] \in Before => stage[c] \in Before
  /\ \A c \in Calls : stage'[c] \in {"terminate", "wait"} => stage'[c] = stage[c]

LEMMA GoAside ==
  ASSUME StageTyped, NEW c \in Calls, NEW to, to \notin {"terminate", "wait"},
         to \in Before => stage[c] \in Before, stage' = [stage EXCEPT ![c] = to]
  PROVE  Aside
BY DEF StageTyped, Aside

LEMMA FreshStays ==
  ASSUME Fresh, Aside,
         \A c \in Calls : (job[c] = "none" => job'[c] = "none") /\ held'[c].ended = held[c].ended
  PROVE  Fresh'
BY DEF Fresh, Aside

LEMMA StayAside == ASSUME StageTyped, UNCHANGED stage PROVE Aside
BY DEF StageTyped, Aside

LEMMA StartedStays ==
  ASSUME Forward, NEW w, Started(w) PROVE Started(w)'
BY DEF Forward, Started

LEMMA RegisteredStays ==
  ASSUME Registered, Forward, UNCHANGED registry PROVE Registered'
BY StartedStays DEF Registered

LEMMA HoldingStays ==
  ASSUME Holding, Forward, Aside, UNCHANGED held PROVE Holding'
BY StartedStays DEF Holding, Aside, Forward, Started

\* Steps that leave the workers alone.
LEMMA QuietKeeps == ASSUME Inv, UNCHANGED workers, Aside PROVE Inv'
<1>1. /\ Forward /\ UNCHANGED registry /\ UNCHANGED held
      /\ \A c \in Calls : job[c] = "none" => job'[c] = "none"
  BY DEF Forward, workers
<1>2. Typed' BY DEF Inv, Typed, workers, Aside
<1>3. Owned' BY DEF Inv, Owned, workers
<1> QED BY <1>1, <1>2, <1>3, RegisteredStays, HoldingStays, FreshStays DEF Inv

LEMMA InitOwned == Init => Inv
<1> SUFFICES ASSUME Init PROVE Inv OBVIOUS
<1> USE DEF Init, TInit, WInit, Inv
<1>1. Typed BY DEF Typed, StageTyped, Jobs, Fates, Free
<1>2. Owned BY DEF Owned
<1>3. Registered BY DEF Registered
<1>0. \A c \in Calls : held[c].worker = None /\ held[c].ended = FALSE /\ stage[c] = "idle"
  BY DEF Free
<1>4. Holding BY <1>0 DEF Holding
<1>5. Fresh BY <1>0 DEF Fresh
<1> QED BY <1>1, <1>2, <1>3, <1>4, <1>5

-----------------------------------------------------------------------------
(* The handler of a worker, and the worker.                                 *)
LEMMA SpawnKeeps == ASSUME Inv, NEW c \in Calls, Spawn(c) PROVE Inv'
<1> USE DEF Spawn, Becomes, Advance, Alone, calls
<1>1. Forward BY DEF Inv, Typed, Owned, Forward, Jobs, Fates
<1>2. Typed'
  <2>1. job' \in [Calls -> Jobs] BY DEF Inv, Typed, Jobs
  <2>2. proc' \in [Calls -> Fates] BY DEF Inv, Typed, Fates
  <2> QED BY <2>1, <2>2 DEF Inv, Typed, StageTyped
<1>3. Owned' BY DEF Inv, Owned, Typed, Jobs, Fates
<1>4. Aside BY StayAside DEF Inv, Typed
<1>6. \A d \in Calls : job[d] = "none" => job'[d] = "none" BY DEF Inv, Typed, Jobs
<1> QED BY <1>1, <1>2, <1>3, <1>4, <1>6, RegisteredStays, HoldingStays, FreshStays DEF Inv

LEMMA RegisterKeeps == ASSUME Inv, NEW c \in Calls, Register(c) PROVE Inv'
<1> USE DEF Register, Advance, Alone, calls
<1>1. Forward BY DEF Forward
<1>2. Typed' BY DEF Inv, Typed, StageTyped, Jobs
<1>3. Owned' BY DEF Inv, Owned, Typed, Jobs
<1>4. Aside BY StayAside DEF Inv, Typed
<1>5. Registered'
  <2>1. Started(c) BY DEF Inv, Owned, Started
  <2>2. proc' = proc OBVIOUS
  <2> SUFFICES ASSUME NEW s \in Sites, NEW i \in DOMAIN registry'[s]
               PROVE  registry'[s][i] \in Calls /\ proc[registry'[s][i]] # "none"
    BY <2>2 DEF Registered, Started
  <2>3. Site(c) \in Sites BY DEF Site, Sites
  <2>4. CASE s = Site(c)
    BY <2>1, <2>3, <2>4 DEF Inv, Typed, Registered, Started
  <2>5. CASE s # Site(c)
    BY <2>3, <2>5 DEF Inv, Typed, Registered, Started
  <2> QED BY <2>4, <2>5
<1>6. \A d \in Calls : job[d] = "none" => job'[d] = "none" BY DEF Inv, Typed, Jobs
<1> QED BY <1>1, <1>2, <1>3, <1>4, <1>5, <1>6, HoldingStays, FreshStays DEF Inv

LEMMA RemovalKeeps ==
  ASSUME Inv, NEW c \in Calls, NEW left, UNCHANGED proc,
         registry' = [registry EXCEPT ![Site(c)] = Restrict(@, left)],
         left \subseteq DOMAIN registry[Site(c)]
  PROVE  Registered' /\ (DOMAIN registry = Sites /\ registry = [s \in Sites |-> registry[s]])'
<1>1. Site(c) \in Sites BY DEF Site, Sites
<1>2. (DOMAIN registry = Sites /\ registry = [s \in Sites |-> registry[s]])'
  BY <1>1 DEF Inv, Typed
<1>3. ASSUME NEW s \in Sites, NEW i \in DOMAIN registry'[s]
      PROVE  registry'[s][i] \in Calls /\ proc[registry'[s][i]] # "none"
  <2>1. CASE s = Site(c)
    BY <1>1, <1>3, <2>1 DEF Inv, Typed, Registered, Started, Restrict
  <2>2. CASE s # Site(c)
    BY <1>1, <1>3, <2>2 DEF Inv, Typed, Registered, Started
  <2> QED BY <2>1, <2>2
<1> QED BY <1>2, <1>3 DEF Registered, Started

LEMMA UnregisterKeeps == ASSUME Inv, NEW c \in Calls, Unregister(c) PROVE Inv'
<1> USE DEF Unregister, Advance, Alone, calls
<1>1. Forward BY DEF Forward
<1>2. Registered' /\ (DOMAIN registry = Sites /\ registry = [s \in Sites |-> registry[s]])'
  <2> DEFINE left == DOMAIN registry[Site(c)] \ {Id(c)}
  <2>1. left \subseteq DOMAIN registry[Site(c)] OBVIOUS
  <2>2. registry' = [registry EXCEPT ![Site(c)] = Restrict(@, left)] /\ proc' = proc
    BY DEF Inv, Typed
  <2> QED BY <2>1, <2>2, RemovalKeeps
<1>3. Typed' BY <1>2 DEF Inv, Typed, StageTyped, Jobs
<1>4. Owned' BY DEF Inv, Owned, Typed, Jobs
<1>5. Aside BY StayAside DEF Inv, Typed
<1>6. \A d \in Calls : job[d] = "none" => job'[d] = "none" BY DEF Inv, Typed, Jobs
<1> QED BY <1>1, <1>2, <1>3, <1>4, <1>5, <1>6, HoldingStays, FreshStays DEF Inv

LEMMA CleanupKeeps == ASSUME Inv, NEW c \in Calls, Cleanup(c) PROVE Inv'
<1> USE DEF Cleanup, Advance, Alone, calls
<1>1. Forward BY DEF Forward
<1>2. Registered' /\ (DOMAIN registry = Sites /\ registry = [s \in Sites |-> registry[s]])'
  <2> DEFINE mine == registry[Site(c)]
             left == {i \in DOMAIN mine : proc[mine[i]] = "running"}
  <2>1. left \subseteq DOMAIN registry[Site(c)] OBVIOUS
  <2>2. Site(c) \in Sites BY DEF Site, Sites
  <2>3. registry' = [registry EXCEPT ![Site(c)] = Restrict(@, left)] /\ proc' = proc
    BY <2>2 DEF Inv, Typed
  <2> QED BY <2>1, <2>3, RemovalKeeps
<1>3. Typed' BY <1>2 DEF Inv, Typed, StageTyped, Jobs
<1>4. Owned' BY DEF Inv, Owned, Typed, Jobs
<1>5. Aside BY StayAside DEF Inv, Typed
<1>6. \A d \in Calls : job[d] = "none" => job'[d] = "none" BY DEF Inv, Typed, Jobs
<1> QED BY <1>1, <1>2, <1>3, <1>4, <1>5, <1>6, HoldingStays, FreshStays DEF Inv

\* The handler waits for the worker, or kills it; the worker ends.
LEMMA WaitKeeps ==
  ASSUME Inv, NEW c \in Calls, Collect(c) \/ Expire(c) \/ Kill(c) \/ Exit(c) PROVE Inv'
<1> USE DEF Collect, Expire, Kill, Exit, Becomes, Advance, Alone, calls
<1>1. Forward BY DEF Inv, Typed, Owned, Forward, Jobs, Fates
<1>2. Typed'
  <2>1. job' \in [Calls -> Jobs] BY DEF Inv, Typed, Jobs
  <2>2. proc' \in [Calls -> Fates] BY DEF Inv, Typed, Fates
  <2>3. UNCHANGED <<stage, registry, held>> OBVIOUS
  <2> QED BY <2>1, <2>2, <2>3 DEF Inv, Typed, StageTyped
<1>3. Owned' BY DEF Inv, Owned, Typed, Jobs, Fates
<1>4. Aside BY StayAside DEF Inv, Typed
<1>5. UNCHANGED <<registry, held>> OBVIOUS
<1>6. \A d \in Calls : job[d] = "none" => job'[d] = "none" BY DEF Inv, Typed, Jobs
<1> QED BY <1>1, <1>2, <1>3, <1>4, <1>5, <1>6, RegisteredStays, HoldingStays, FreshStays DEF Inv

\* The workers' own steps.
LEMMA JobKeeps == ASSUME Inv, NEW c \in Calls, JobStep(c) PROVE Inv'
BY SpawnKeeps, RegisterKeeps, UnregisterKeeps, CleanupKeeps, WaitKeeps DEF JobStep

-----------------------------------------------------------------------------
(* The calls.                                                               *)
LEMMA LaunchKeeps == ASSUME Inv, NEW c \in Calls, Launch(c) PROVE Inv'
<1> USE DEF Launch, Advance, Alone
<1>1. Forward BY DEF Forward
<1>2. Aside BY GoAside DEF Goto, Inv, Typed, Before
<1>3. Typed' BY <1>2 DEF Inv, Typed, Jobs, Aside
<1>4. Owned' BY DEF Inv, Owned, Typed, Fresh, Before
<1>5. Fresh'
  <2>1. stage'[c] = "await" BY DEF Goto, Inv, Typed, StageTyped
  <2>2. \A d \in Calls \ {c} : job'[d] = job[d] BY DEF Inv, Typed
  <2>3. held' = held OBVIOUS
  <2> QED BY <1>2, <2>1, <2>2, <2>3 DEF Inv, Fresh, Before, Aside
<1>6. UNCHANGED <<registry, held>> OBVIOUS
<1> QED BY <1>1, <1>2, <1>3, <1>4, <1>5, <1>6, RegisteredStays, HoldingStays DEF Inv

LEMMA LookupKeeps == ASSUME Inv, NEW c \in Calls, Lookup(c) PROVE Inv'
<1> USE DEF Lookup, Alone
<1>1. Forward /\ UNCHANGED <<job, proc, registry>> BY DEF Forward
<1>2. Aside BY GoAside DEF Goto, Inv, Typed, Before
<1>7. PICK w : /\ held' = [held EXCEPT ![c].worker = w]
               /\ w # None => Started(w)
  <2>1. "here" \in Sites BY DEF Sites
  <2>2. CASE Id(c) \in DOMAIN registry["here"]
    BY <2>1, <2>2 DEF Inv, Registered
  <2>3. CASE Id(c) \notin DOMAIN registry["here"]
    BY <2>3
  <2> QED BY <2>2, <2>3
<1>0. /\ \A d \in Calls \ {c} : held'[d] = held[d]
      /\ held'[c] = [worker |-> w, ended |-> held[c].ended]
      /\ held' = [d \in Calls |-> held'[d]]
      /\ DOMAIN held' = Calls
  BY <1>7 DEF Inv, Typed
<1>3. Typed' BY <1>0, <1>1, <1>2 DEF Inv, Typed, Aside
<1>4. Owned' BY <1>1 DEF Inv, Owned
<1>5. Holding'
  <2>1. \A d \in Calls \ {c} : stage'[d] = stage[d] BY DEF Goto, Inv, Typed, StageTyped
  <2>2. stage'[c] = "poll" BY DEF Goto, Inv, Typed, StageTyped
  <2>3. ~held[c].ended BY DEF Inv, Fresh, Before
  <2> QED BY <1>7, <1>0, <1>1, <2>1, <2>2, <2>3 DEF Inv, Holding, Started
<1>6. Fresh'
  <2>0. held'[c].ended = held[c].ended
    <3> HIDE DEF Lookup
    <3> QED BY <1>0
  <2>1. \A d \in Calls : held'[d].ended = held[d].ended BY <1>0, <2>0
  <2> QED BY <1>1, <1>2, <2>1, FreshStays DEF Inv
<1> QED BY <1>1, <1>2, <1>3, <1>4, <1>5, <1>6, RegisteredStays DEF Inv

\* A worker that runs and is held is not None, and has been started.
LEMMA PollWorkerKeeps == ASSUME Inv, NEW c \in Calls, PollWorker(c) PROVE Inv'
<1> USE DEF PollWorker, Alone, workers
<1>1. Forward /\ UNCHANGED <<job, proc, registry, held>> BY DEF Forward
<1>2. /\ StageTyped'
      /\ \A d \in Calls \ {c} : stage'[d] = stage[d]
      /\ stage'[c] \in {"terminate", "tell"}
      /\ stage'[c] = "terminate" => Running(held[c].worker)
  BY DEF Goto, Inv, Typed, StageTyped
<1>3. Typed' BY <1>1, <1>2 DEF Inv, Typed
<1>4. Owned' BY <1>1 DEF Inv, Owned
<1>5. Holding' BY <1>1, <1>2 DEF Inv, Holding, Started, Running
<1>6. Fresh' BY <1>1, <1>2 DEF Inv, Fresh, Before
<1> QED BY <1>1, <1>3, <1>4, <1>5, <1>6, RegisteredStays DEF Inv

\* The worker that a cancel ends may belong to any handler, at any point of it.
LEMMA EndKeeps ==
  ASSUME Typed, Owned, NEW w, Started(w), UNCHANGED job,
         \/ proc' = [proc EXCEPT ![w] = "killed"]
         \/ UNCHANGED proc
  PROVE  Forward /\ Owned' /\ proc' \in [Calls -> Fates]
<1>1. CASE UNCHANGED proc BY <1>1 DEF Forward, Owned, Typed
<1>2. CASE proc' = [proc EXCEPT ![w] = "killed"]
  BY <1>2 DEF Forward, Owned, Typed, Started, Fates, Jobs
<1> QED BY <1>1, <1>2

LEMMA TerminateKeeps == ASSUME Inv, NEW c \in Calls, Terminate(c) PROVE Inv'
<1> USE DEF Terminate, Alone, Becomes
<1>0. held[c].worker # None /\ Started(held[c].worker) BY DEF Inv, Holding
<1>1. UNCHANGED <<job, registry, held>> OBVIOUS
<1>2. Forward /\ Owned' /\ proc' \in [Calls -> Fates] BY <1>0, <1>1, EndKeeps DEF Inv
<1>3. /\ StageTyped'
      /\ \A d \in Calls \ {c} : stage'[d] = stage[d]
      /\ stage'[c] = "wait"
  BY DEF Goto, Inv, Typed, StageTyped
<1>4. Typed' BY <1>1, <1>2, <1>3 DEF Inv, Typed
<1>5. Holding'
  <2>1. \A d \in Calls : Started(held[d].worker) => Started(held[d].worker)'
    BY <1>1, <1>2, StartedStays
  <2> QED BY <1>0, <1>1, <1>2, <1>3, <2>1 DEF Inv, Holding, Forward, Started
<1>6. Fresh' BY <1>1, <1>3 DEF Inv, Fresh, Before
<1> QED BY <1>1, <1>2, <1>4, <1>5, <1>6, RegisteredStays DEF Inv

LEMMA ReapKeeps == ASSUME Inv, NEW c \in Calls, Reap(c) PROVE Inv'
<1> USE DEF Reap, Alone, Becomes
<1> DEFINE w == held[c].worker
<1>0. w # None /\ Started(w) BY DEF Inv, Holding
<1>1. UNCHANGED <<job, registry>> OBVIOUS
<1>2. Forward /\ Owned' /\ proc' \in [Calls -> Fates] BY <1>0, <1>1, EndKeeps DEF Inv
<1>3. proc'[w] # "running" BY <1>0 DEF Inv, Typed, Started, Running
<1>4. /\ \A d \in Calls \ {c} : held'[d] = held[d]
      /\ held'[c] = [worker |-> w, ended |-> TRUE]
      /\ held' = [d \in Calls |-> held'[d]]
      /\ DOMAIN held' = Calls
  <2>1. held' = [held EXCEPT ![c].ended = TRUE] OBVIOUS
  <2>2. DOMAIN held = Calls /\ held[c] = [worker |-> w, ended |-> held[c].ended]
    BY DEF Inv, Typed
  <2> QED BY <2>1, <2>2
<1>5. /\ StageTyped'
      /\ \A d \in Calls \ {c} : stage'[d] = stage[d]
      /\ stage'[c] = "tell"
  BY DEF Goto, Inv, Typed, StageTyped
<1>6. Typed' BY <1>1, <1>2, <1>4, <1>5 DEF Inv, Typed
<1>7. Holding'
  <2>1. \A d \in Calls : Started(held[d].worker) => Started(held[d].worker)'
    BY <1>2, StartedStays
  <2> QED BY <1>0, <1>2, <1>3, <1>4, <1>5, <2>1 DEF Inv, Holding, Forward, Started
<1>8. Fresh' BY <1>1, <1>4, <1>5 DEF Inv, Fresh, Before
<1> QED BY <1>1, <1>2, <1>6, <1>7, <1>8, RegisteredStays DEF Inv

LEMMA WorkerKeeps == ASSUME Inv, NEW c \in Calls, WorkerStep(c) PROVE Inv'
<1>1. CASE Answer(c) \/ GiveUp(c) \/ TellCanceled(c)
  <2>1. UNCHANGED workers /\ stage' = [stage EXCEPT ![c] = "done"]
    BY <1>1 DEF Answer, GiveUp, TellCanceled, Return, Alone
  <2> QED BY <2>1, GoAside, QuietKeeps DEF Inv, Typed, Before
<1> QED
  BY <1>1, LaunchKeeps, LookupKeeps, PollWorkerKeeps, TerminateKeeps, ReapKeeps DEF WorkerStep

\* Admission, and the tools that talk to the remote server, leave the workers alone.
LEMMA ClientKeeps ==
  ASSUME Inv, NEW c \in Calls,
         \/ (Begin(c) \/ Admit(c) \/ Reject(c)) /\ UNCHANGED workers
         \/ ClientStep(c)
  PROVE  Inv'
<1>1. UNCHANGED workers
  BY DEF ClientStep, Send, Sent, Poll, CancelAway
<1>2. \/ UNCHANGED stage
      \/ stage' = [stage EXCEPT ![c] = "done"]
      \/ stage' = [stage EXCEPT ![c] = "sent"]
      \/ stage' = [stage EXCEPT ![c] = "poll"]
      \/ stage[c] \in Before /\ stage' = [stage EXCEPT ![c] = "limit"]
      \/ stage[c] \in Before /\ stage' = [stage EXCEPT ![c] = "start"]
  BY DEF Begin, Admit, Reject, ClientStep, Send, Sent, Poll, CancelAway, Goto, Return, Before, calls
<1>3. Aside BY <1>2, GoAside, StayAside DEF Inv, Typed, Before
<1> QED BY <1>1, <1>3, QuietKeeps

LEMMA NextKeeps == ASSUME Inv, [Next]_vars PROVE Inv'
<1>1. CASE \/ Tick /\ UNCHANGED <<workers, server, client>>
           \/ Restart
           \/ \E i \in TaskIds : Progress(i)
           \/ UNCHANGED vars
  <2>1. UNCHANGED workers /\ UNCHANGED stage
    BY <1>1 DEF Tick, Restart, Progress, vars, calls
  <2> QED BY <2>1, StayAside, QuietKeeps DEF Inv, Typed
<1>2. ASSUME NEW c \in Calls,
             \/ (Begin(c) \/ Admit(c) \/ Reject(c)) /\ UNCHANGED workers
             \/ ClientStep(c)
      PROVE  Inv'
  BY <1>2, ClientKeeps
<1>3. ASSUME NEW c \in Calls, WorkerStep(c) PROVE Inv'
  BY <1>3, WorkerKeeps
<1>4. ASSUME NEW c \in Calls, JobStep(c) \/ Exit(c) PROVE Inv'
  BY <1>4, JobKeeps, WaitKeeps
<1> QED BY <1>1, <1>2, <1>3, <1>4 DEF Next, CallStep, RunStep

-----------------------------------------------------------------------------
\* A worker runs only while the handler that started it waits for it or is about
\* to kill it, and one that a cancel says it has ended has ended: whatever calls
\* share an id, and whichever worker the registry gives a cancel.
THEOREM WorkersAreOwned == Spec => []NoOrphan
<1>1. Inv => NoOrphan
  BY DEF Inv, Owned, Holding, NoOrphan, Started
<1> QED BY InitOwned, NextKeeps, <1>1, PTL DEF Spec

-----------------------------------------------------------------------------
(***************************************************************************)
(* The sliding window.  The clock is read before the lock is taken, so     *)
(* timestamps are appended out of order, and only old ones at the head are *)
(* dropped.                                                                *)
(***************************************************************************)
Dropped == Len(grants) - Len(stamps)

\* A call that is about to take the lock has read the clock at most MaxLag ago.
Lagging ==
  \A c \in Calls : stage[c] = "limit" => read[c] <= clock /\ clock <= read[c] + MaxLag

\* Grants are the timestamps that have been dropped, long ago by now, and then
\* those that are there, each no more than MaxLag older than its grant.
Stamped ==
  /\ Len(stamps) <= Len(grants)
  /\ \A k \in 1 .. Len(stamps) : grants[Dropped + k] <= stamps[k] + MaxLag
  /\ \A j \in 1 .. Dropped : grants[j] + Window < clock + MaxLag

Numbers ==
  /\ clock \in Nat /\ read \in [Calls -> Nat]
  /\ stamps \in Seq(Nat) /\ grants \in Seq(Nat)
  /\ DOMAIN stage = Calls

WindowInv == Numbers /\ Lagging /\ Stamped /\ GrantsSpaced

-----------------------------------------------------------------------------
\* A grant that is at most MaxLag after its timestamp is old when that is.
LEMMA Chain ==
  ASSUME NEW grant \in Nat, NEW stamp \in Nat, NEW now \in Nat, NEW later \in Nat,
         NEW window \in Nat, NEW lag \in Nat,
         grant <= stamp + lag, stamp + window < now, now <= later
  PROVE  grant + window < later + lag
OBVIOUS

-----------------------------------------------------------------------------
LEMMA InitWindow == Init => WindowInv
<1> SUFFICES ASSUME Init PROVE WindowInv
  OBVIOUS
<1>1. Numbers
  BY DEF Init, TInit, Numbers
<1>2. Lagging
  BY DEF Init, TInit, Lagging
<1>3. Stamped
  BY DEF Init, TInit, Stamped, Dropped
<1>4. GrantsSpaced
  BY DEF Init, TInit, GrantsSpaced
<1> QED
  BY <1>1, <1>2, <1>3, <1>4 DEF WindowInv

LEMMA TickWindow == ASSUME WindowInv, Tick PROVE WindowInv'
<1>0. MaxLag \in Nat /\ Window \in Nat
  BY ToolCallsAssumption
<1>1. Numbers'
  BY DEF WindowInv, Numbers, Tick, calls
<1>2. Lagging'
  BY <1>0 DEF WindowInv, Numbers, Lagging, Tick, calls
<1>3. Stamped'
  BY <1>0 DEF WindowInv, Numbers, Stamped, Dropped, Tick
<1>4. GrantsSpaced'
  BY DEF WindowInv, GrantsSpaced, Tick
<1> QED
  BY <1>1, <1>2, <1>3, <1>4 DEF WindowInv

LEMMA BeginWindow == ASSUME WindowInv, NEW c \in Calls, Begin(c) PROVE WindowInv'
<1>0. MaxLag \in Nat
  BY ToolCallsAssumption
<1>1. Numbers'
  BY DEF WindowInv, Numbers, Begin, Goto
<1>2. Lagging'
  <2> SUFFICES ASSUME NEW d \in Calls, stage'[d] = "limit"
               PROVE  read'[d] <= clock' /\ clock' <= read'[d] + MaxLag
    BY DEF Lagging
  <2>1. CASE d = c
    BY <1>0, <2>1 DEF WindowInv, Numbers, Begin
  <2>2. CASE d # c
    BY <2>2 DEF WindowInv, Numbers, Lagging, Begin, Goto
  <2> QED
    BY <2>1, <2>2
<1>3. Stamped' /\ GrantsSpaced'
  BY DEF WindowInv, Stamped, Dropped, GrantsSpaced, Begin
<1> QED
  BY <1>1, <1>2, <1>3 DEF WindowInv

\* The heart of it: a call is admitted only if the grant MaxCalls before it has
\* been dropped.
LEMMA AdmitWindow == ASSUME WindowInv, NEW c \in Calls, Admit(c) PROVE WindowInv'
<1>0. /\ MaxLag \in Nat /\ Window \in Nat /\ MaxCalls \in Nat \ {0}
      /\ clock \in Nat /\ read[c] \in Nat /\ read[c] <= clock /\ clock <= read[c] + MaxLag
      /\ stamps \in Seq(Nat) /\ grants \in Seq(Nat)
      /\ clock' = clock /\ read' = read
  BY ToolCallsAssumption DEF WindowInv, Numbers, Lagging, Admit
<1> DEFINE rest(m) == SubSeq(stamps, m + 1, Len(stamps))
<1>a. PICK m \in 0 .. Len(stamps) :
        /\ Drops(m, read[c])
        /\ IF Full(rest(m))
           THEN Return(c, "limited") /\ stamps' = rest(m) /\ UNCHANGED grants
           ELSE Goto(c, "start") /\ stamps' = Append(rest(m), read[c]) /\ grants' = Append(grants, clock)
  BY DEF Admit
<1> DEFINE kept == rest(m)
           gone == Len(grants) - Len(kept)
<1>1. /\ kept \in Seq(Nat) /\ Len(kept) = Len(stamps) - m
      /\ \A k \in 1 .. (Len(stamps) - m) : kept[k] = stamps[m + k]
      /\ \A j \in 1 .. m : stamps[j] + Window < read[c]
  <2>1. Len(stamps) \in Nat /\ m \in Nat /\ m <= Len(stamps)
    BY <1>0
  <2>2. \A j \in 1 .. m : stamps[j] + Window < read[c]
    BY <1>a DEF Drops
  <2>3. kept \in Seq(Nat) /\ Len(kept) = Len(stamps) - m
    BY <1>0, <2>1
  <2>4. \A k \in 1 .. (Len(stamps) - m) : kept[k] = stamps[m + k]
    BY <1>0, <2>1
  <2> QED
    BY <2>2, <2>3, <2>4
<1>2. /\ Len(kept) <= Len(grants)
      /\ \A k \in 1 .. Len(kept) : grants[gone + k] <= kept[k] + MaxLag
      /\ \A j \in 1 .. gone : grants[j] + Window < clock + MaxLag
  <2> HIDE DEF kept
  <2>0. Len(stamps) \in Nat /\ Len(grants) \in Nat /\ Len(kept) \in Nat /\ Len(stamps) <= Len(grants)
    BY <1>0, <1>1 DEF WindowInv, Stamped
  <2>1. gone = Dropped + m /\ Dropped \in Nat
    BY <1>1, <2>0 DEF Dropped
  <2>2. ASSUME NEW k \in 1 .. Len(kept)
        PROVE  grants[gone + k] <= kept[k] + MaxLag
    <3>1. m + k \in 1 .. Len(stamps) /\ kept[k] = stamps[m + k]
      BY <1>1, <2>0
    <3>2. Dropped + (m + k) = gone + k
      <4> HIDE DEF gone
      <4> QED
        BY <2>1
    <3> QED
      BY <3>1, <3>2 DEF WindowInv, Stamped
  <2>3. ASSUME NEW j \in 1 .. gone
        PROVE  grants[j] + Window < clock + MaxLag
    <3>1. CASE j <= Dropped
      BY <2>1, <3>1 DEF WindowInv, Stamped
    <3>2. CASE j > Dropped
      <4>1. j - Dropped \in 1 .. m /\ Dropped + (j - Dropped) = j
        BY <2>1, <3>2
      <4>2. stamps[j - Dropped] + Window < read[c]
        BY <1>1, <4>1
      <4>3. grants[j] <= stamps[j - Dropped] + MaxLag
        <5>1. j - Dropped \in 1 .. Len(stamps)
          BY <4>1, <2>0
        <5> QED
          BY <4>1, <5>1 DEF WindowInv, Stamped
      <4>4. grants[j] \in Nat /\ stamps[j - Dropped] \in Nat
        <5>1. j \in 1 .. Len(grants) /\ j - Dropped \in 1 .. Len(stamps)
          BY <2>0, <4>1
        <5> QED
          BY <1>0, <5>1, ElementOfSeq
      <4> QED
        BY <1>0, <4>2, <4>3, <4>4, Chain
    <3> QED
      BY <2>1, <3>1, <3>2
  <2> QED
    BY <1>1, <2>0, <2>1, <2>2, <2>3
<1>3. \A d \in Calls : stage'[d] = "limit" => stage[d] = "limit"
  BY DEF WindowInv, Numbers, Admit, Goto, Return
<1>4. DOMAIN stage' = Calls
  BY DEF WindowInv, Numbers, Admit, Goto, Return
<1>5. Lagging'
  BY <1>0, <1>3 DEF WindowInv, Lagging
<1>6. CASE Full(kept)
  <2>1. stamps' = kept /\ grants' = grants
    BY <1>6, <1>a
  <2> HIDE DEF kept
  <2>2. Numbers'
    BY <1>0, <1>1, <1>4, <2>1 DEF Numbers, WindowInv
  <2>3. Stamped'
    BY <1>0, <1>2, <2>1 DEF Stamped, Dropped
  <2>4. GrantsSpaced'
    BY <2>1 DEF GrantsSpaced, WindowInv
  <2> QED
    BY <1>5, <2>2, <2>3, <2>4 DEF WindowInv
<1>7. CASE ~Full(kept)
  <2>1. stamps' = Append(kept, read[c]) /\ grants' = Append(grants, clock)
    BY <1>7, <1>a
  <2>2. Len(kept) < MaxCalls
    <3>1. Len(kept) \in Nat BY <1>1
    <3> QED BY <1>0, <1>7, <3>1 DEF Full
  <2> HIDE DEF kept
  <2>3. Numbers'
    BY <1>0, <1>1, <1>4, <2>1 DEF Numbers, WindowInv
  <2>4. /\ Len(kept) \in Nat /\ Len(grants) \in Nat
        /\ Len(stamps') = Len(kept) + 1 /\ Len(grants') = Len(grants) + 1
        /\ \A k \in 1 .. Len(kept) : stamps'[k] = kept[k]
        /\ \A k \in 1 .. Len(grants) : grants'[k] = grants[k]
        /\ stamps'[Len(kept) + 1] = read[c] /\ grants'[Len(grants) + 1] = clock
    BY <1>0, <1>1, <2>1
  <2>5. Dropped' = gone /\ gone \in Nat
    BY <1>2, <2>4 DEF Dropped
  <2>6. Stamped'
    <3>1. ASSUME NEW k \in 1 .. (Len(kept) + 1)
          PROVE  grants'[gone + k] <= stamps'[k] + MaxLag
      <4>1. CASE k = Len(kept) + 1
        BY <1>0, <2>4, <4>1
      <4>2. CASE k \in 1 .. Len(kept)
        <5>1. gone + k \in 1 .. Len(grants)
          BY <2>4, <2>5, <4>2
        <5> QED
          BY <1>2, <2>4, <4>2, <5>1
      <4> QED
        BY <2>4, <4>1, <4>2
    <3>2. \A j \in 1 .. gone : grants'[j] + Window < clock + MaxLag
      <4>1. \A j \in 1 .. gone : j \in 1 .. Len(grants)
        BY <2>4, <2>5
      <4> QED
        BY <1>2, <2>4, <4>1
    <3> QED
      BY <1>0, <1>2, <2>4, <2>5, <3>1, <3>2 DEF Stamped
  <2>7. GrantsSpaced'
    <3> SUFFICES ASSUME NEW k \in 1 .. (Len(grants) + 1), k > MaxCalls
                 PROVE  grants'[k] + MaxLag > grants'[k - MaxCalls] + Window
      BY <2>3, <2>4 DEF GrantsSpaced, Numbers
    <3>1. k - MaxCalls \in 1 .. Len(grants)
      BY <1>0, <2>4
    <3>2. CASE k = Len(grants) + 1
      <4>1. k - MaxCalls \in 1 .. gone
        BY <1>0, <2>2, <2>4, <3>1, <3>2
      <4>2. grants[k - MaxCalls] + Window < clock + MaxLag
        BY <1>2, <4>1
      <4>3. grants[k - MaxCalls] \in Nat
        BY <1>0, <3>1
      <4> QED
        BY <1>0, <2>4, <3>1, <3>2, <4>2, <4>3
    <3>3. CASE k \in 1 .. Len(grants)
      <4>1. grants[k] + MaxLag > grants[k - MaxCalls] + Window
        <5>1. k \in DOMAIN grants
          BY <1>0, <3>3
        <5> QED
          BY <5>1 DEF WindowInv, GrantsSpaced
      <4> QED
        BY <2>4, <3>1, <3>3, <4>1
    <3> QED
      BY <2>4, <3>2, <3>3
  <2> QED
    BY <1>5, <2>3, <2>6, <2>7 DEF WindowInv
<1> QED
  BY <1>6, <1>7

\* No other step has to do with the window.
LEMMA OtherWindow ==
  ASSUME WindowInv, UNCHANGED limits,
         \/ UNCHANGED stage
         \/ \E c \in Calls : \E to \in {"start", "await", "poll", "terminate", "wait", "tell", "sent", "done"} :
              stage' = [stage EXCEPT ![c] = to]
  PROVE  WindowInv'
<1>1. DOMAIN stage' = Calls /\ \A d \in Calls : stage'[d] = "limit" => stage[d] = "limit"
  BY DEF WindowInv, Numbers
<1>2. Numbers'
  BY <1>1 DEF WindowInv, Numbers, limits
<1>3. Lagging'
  BY <1>1 DEF WindowInv, Lagging, limits
<1>4. Stamped' /\ GrantsSpaced'
  BY DEF WindowInv, Stamped, Dropped, GrantsSpaced, limits
<1> QED
  BY <1>2, <1>3, <1>4 DEF WindowInv

LEMMA StepWindow == ASSUME WindowInv, [Next]_vars PROVE WindowInv'
<1>1. CASE Tick
  BY <1>1, TickWindow
<1>2. ASSUME NEW c \in Calls, Begin(c) PROVE WindowInv'
  BY <1>2, BeginWindow
<1>3. ASSUME NEW c \in Calls, Admit(c) PROVE WindowInv'
  BY <1>3, AdmitWindow
<1>4. CASE Restart \/ (\E i \in TaskIds : Progress(i)) \/ UNCHANGED vars
  <2>1. UNCHANGED limits /\ UNCHANGED stage
    BY <1>4 DEF Restart, Progress, vars, calls
  <2> QED
    BY <2>1, OtherWindow
<1>5. ASSUME NEW c \in Calls, JobStep(c) \/ Exit(c) PROVE WindowInv'
  <2>1. UNCHANGED limits /\ UNCHANGED stage
    BY <1>5 DEF JobStep, Exit, Spawn, Register, Collect, Expire, Kill, Unregister, Cleanup, Alone, calls
  <2> QED
    BY <2>1, OtherWindow
<1>6. ASSUME NEW c \in Calls, Reject(c) \/ WorkerStep(c) PROVE WindowInv'
  <2>1. UNCHANGED limits
    BY <1>6 DEF Reject, WorkerStep, Launch, Answer, GiveUp, Lookup, PollWorker, Terminate, Reap, TellCanceled, Alone
  <2>2. \E to \in {"await", "poll", "terminate", "wait", "tell", "done"} : stage' = [stage EXCEPT ![c] = to]
    BY <1>6 DEF Reject, WorkerStep, Launch, Answer, GiveUp, Lookup, PollWorker, Terminate, Reap, TellCanceled, Goto, Return
  <2> QED
    BY <2>1, <2>2, OtherWindow
<1>7. ASSUME NEW c \in Calls, ClientStep(c) PROVE WindowInv'
  <2>1. UNCHANGED limits
    BY <1>7 DEF ClientStep, Send, Sent, Poll, CancelAway
  <2>2. UNCHANGED stage \/ \E to \in {"poll", "sent", "done"} : stage' = [stage EXCEPT ![c] = to]
    BY <1>7 DEF ClientStep, Send, Sent, Poll, CancelAway, Goto, Return, calls
  <2> QED
    BY <2>1, <2>2, OtherWindow
<1> QED
  BY <1>1, <1>2, <1>3, <1>4, <1>5, <1>6, <1>7 DEF Next, CallStep, RunStep

-----------------------------------------------------------------------------
\* More than MaxCalls calls are never admitted within a window, less what their
\* clocks lag: in whatever order they read the clock and take the lock of
\* _consume_rate_limit, and whatever timestamps are dropped when.
THEOREM CallsAreSpaced == Spec => []GrantsSpaced
<1>1. WindowInv => GrantsSpaced
  BY DEF WindowInv
<1> QED
  BY InitWindow, StepWindow, <1>1, PTL DEF Spec

-----------------------------------------------------------------------------
(***************************************************************************)
(* What a send reports of the task on the remote server.                   *)
(***************************************************************************)
Stages == {"idle", "limit", "start", "await", "poll", "terminate", "wait", "tell", "sent", "done"}
States == Statuses \cup {"unknown"}
Answers == {"none", "limited", "error", "lost", "unknown"} \cup Statuses

CallsTyped ==
  /\ request \in [Calls -> Requests]
  /\ stage \in [Calls -> Stages]
  /\ answer \in [Calls -> Answers]
  /\ \A c \in Calls : stage[c] = "done" <=> answer[c] # "none"

ServerTyped ==
  /\ remote \in [TaskIds -> States]
  /\ past \in [TaskIds -> SUBSET Statuses]
  /\ restarts \in Nat
  /\ \A i \in TaskIds : remote[i] # "unknown" => remote[i] \in past[i]

\* Polls that failed are polls that were made.
ClientTyped ==
  /\ seen \in [Calls -> States]
  /\ polls \in [Calls -> 0 .. Attempts] /\ errors \in [Calls -> 0 .. Attempts]
  /\ heard \in [Calls -> SUBSET Statuses]
  /\ \A c \in Calls : errors[c] + polls[c] <= Attempts

\* Where a send can be, and what it has been told by then.  Once a poll was answered
\* the errors cannot add up to all the polls.
Polling(c) ==
  /\ stage[c] \in {"idle", "limit", "start", "sent", "poll", "done"}
  /\ stage[c] \in {"idle", "limit", "start", "sent"} =>
       seen[c] = "unknown" /\ heard[c] = {} /\ polls[c] = Attempts
  /\ stage[c] = "poll" =>
       /\ seen[c] \in {"submitted", "working"} /\ polls[c] > 0
       /\ heard[c] # {} => errors[c] + polls[c] < Attempts
  /\ answer[c] \in Statuses => answer[c] = seen[c]
  /\ answer[c] = "lost" => heard[c] = {}

Known(c) == seen[c] # "unknown" => seen[c] \in past[Id(c)]

\* The task has got at least as far as any answer told of, and the last told of the
\* furthest.
Tracks(c) ==
  LET now == remote[Id(c)]
  IN /\ now = "unknown" => seen[c] = "unknown" /\ heard[c] = {}
     /\ seen[c] = "submitted" => heard[c] \subseteq {"submitted"}
     /\ seen[c] = "working" => heard[c] \cap Outcomes = {} /\ now \in {"working"} \cup Outcomes
     /\ seen[c] \in Outcomes => now = seen[c]
     /\ "working" \in heard[c] => now \in {"working"} \cup Outcomes
     /\ \A o \in heard[c] \cap Outcomes : now = o

Honest(c) == Polling(c) /\ Known(c) /\ (restarts = 0 => Tracks(c))

ReportInv ==
  /\ CallsTyped /\ ServerTyped /\ ClientTyped
  /\ \A c \in Calls : Asks(c, "send") => Honest(c)

-----------------------------------------------------------------------------
LEMMA Constants ==
  /\ Attempts \in Nat
  /\ \A r \in Requests : r.id \in TaskIds
BY ProtocolClientAssumption, ToolCallsAssumption DEF RequestFields

LEMMA InitReport == Init => ReportInv
<1> SUFFICES ASSUME Init PROVE ReportInv
  OBVIOUS
<1> USE DEF Init, TInit, PInit
<1>0. Attempts \in Nat
  BY Constants
<1>1. CallsTyped
  BY DEF CallsTyped, Stages, Answers
<1>2. ServerTyped
  BY DEF ServerTyped, States
<1>3. ClientTyped
  BY <1>0 DEF ClientTyped, States
<1>4. ASSUME NEW c \in Calls PROVE Honest(c)
  BY DEF Honest, Polling, Known, Tracks, Outcomes, Statuses
<1> QED
  BY <1>1, <1>2, <1>3, <1>4 DEF ReportInv

\* A task goes on by itself, or is sent or canceled.
Follows(status, last) ==
  \/ last = "unknown" /\ status = "submitted"
  \/ last = "submitted" /\ status = "working"
  \/ last \in {"submitted", "working"} /\ status \in Outcomes

LEMMA EnterReport ==
  ASSUME ServerTyped, ClientTyped, CallsTyped, NEW i \in TaskIds, NEW s, Enter(i, s), Follows(s, remote[i]),
         UNCHANGED <<request, seen, heard>>
  PROVE  /\ ServerTyped'
         /\ \A c \in Calls : Known(c) => Known(c)'
         /\ \A c \in Calls : (restarts = 0 => Tracks(c)) => (restarts = 0 => Tracks(c))'
<1>1. /\ s \in Statuses
      /\ remote' = [remote EXCEPT ![i] = s] /\ past' = [past EXCEPT ![i] = @ \cup {s}]
      /\ restarts' = restarts
  BY DEF Enter, Follows, Statuses
<1>2. ServerTyped'
  BY <1>1 DEF ServerTyped, States, Statuses, Outcomes
<1> SUFFICES ASSUME NEW c \in Calls
             PROVE  /\ Known(c) => Known(c)'
                    /\ Tracks(c) => Tracks(c)'
  BY <1>1, <1>2
<1>3. Id(c) \in TaskIds /\ Id(c)' = Id(c)
  BY Constants DEF CallsTyped, Id
<1>4. Known(c) => Known(c)'
  BY <1>1, <1>3 DEF Known, ServerTyped
<1>5. CASE Id(c) = i
  <2>1. remote'[Id(c)] = s
    BY <1>1, <1>5 DEF ServerTyped
  <2> QED
    BY <1>3, <1>4, <1>5, <2>1 DEF Tracks, Follows, Outcomes
<1>6. CASE Id(c) # i
  <2>1. remote'[Id(c)] = remote[Id(c)]
    BY <1>1, <1>3, <1>6 DEF ServerTyped
  <2> QED
    BY <1>3, <1>4, <2>1 DEF Tracks
<1> QED
  BY <1>5, <1>6

LEMMA ServerReport ==
  ASSUME ReportInv, Restart \/ (\E i \in TaskIds : Progress(i)) PROVE ReportInv'
<1>1. UNCHANGED <<calls, client>>
  BY DEF Restart, Progress
<1>2. /\ UNCHANGED <<request, stage, answer>> /\ UNCHANGED <<seen, polls, errors, heard>>
      /\ CallsTyped' /\ ClientTyped'
      /\ \A c \in Calls : Asks(c, "send")' = Asks(c, "send") /\ Id(c)' = Id(c) /\ Polling(c)' = Polling(c)
  BY <1>1 DEF calls, client, ReportInv, CallsTyped, ClientTyped, Asks, Id, Polling
<1>3. CASE Restart
  <2>1. restarts' \in Nat \ {0} /\ past' = past /\ remote' = [i \in TaskIds |-> "unknown"]
    BY <1>3 DEF Restart, ReportInv, ServerTyped
  <2>2. ServerTyped'
    BY <2>1 DEF ReportInv, ServerTyped, States
  <2> QED
    BY <1>2, <2>1, <2>2 DEF ReportInv, Honest, Known
<1>4. ASSUME NEW i \in TaskIds, Progress(i) PROVE ReportInv'
  <2>1. PICK s : Enter(i, s) /\ Follows(s, remote[i])
    BY <1>4 DEF Progress, Follows
  <2>2. /\ ServerTyped'
        /\ \A c \in Calls : Known(c) => Known(c)'
        /\ \A c \in Calls : (restarts = 0 => Tracks(c)) => (restarts = 0 => Tracks(c))'
    BY <1>2, <2>1, EnterReport DEF ReportInv
  <2> QED
    BY <1>2, <2>2 DEF ReportInv, Honest
<1> QED
  BY <1>3, <1>4

\* A step that neither the server nor a send that waits for it has to do with.
Early == {"idle", "limit", "start", "sent"}

LEMMA CallsMove ==
  ASSUME CallsTyped, NEW c \in Calls, stage[c] # "done",
         \/ \E to \in Stages \ {"done"} : Goto(c, to)
         \/ \E with \in Answers \ {"none"} : Return(c, with)
  PROVE  /\ CallsTyped' /\ request' = request
         /\ \A d \in Calls \ {c} : stage'[d] = stage[d] /\ answer'[d] = answer[d]
         /\ \A d \in Calls : \A tool : Asks(d, tool)' = Asks(d, tool) /\ Id(d)' = Id(d)
<1>1. CASE \E to \in Stages \ {"done"} : Goto(c, to)
  BY <1>1 DEF CallsTyped, Goto, Asks, Id
<1>2. CASE \E with \in Answers \ {"none"} : Return(c, with)
  BY <1>2 DEF CallsTyped, Return, Asks, Id, Stages
<1> QED
  BY <1>1, <1>2

LEMMA AloneReport ==
  ASSUME ReportInv, NEW c \in Calls, stage[c] # "done", UNCHANGED <<server, client>>,
         \/ \E to \in Stages \ {"done"} :
              Goto(c, to) /\ (Asks(c, "send") => stage[c] \in Early /\ to \in Early)
         \/ \E with \in Answers \ {"none"} :
              Return(c, with) /\ (Asks(c, "send") => with \in {"limited", "error"})
  PROVE  ReportInv'
<1>1. /\ CallsTyped' /\ request' = request
      /\ \A d \in Calls \ {c} : stage'[d] = stage[d] /\ answer'[d] = answer[d]
      /\ \A d \in Calls : Asks(d, "send")' = Asks(d, "send") /\ Id(d)' = Id(d)
  BY CallsMove DEF ReportInv
<1>2. /\ UNCHANGED <<remote, past, restarts, seen, polls, errors, heard>>
      /\ ServerTyped' /\ ClientTyped'
  BY DEF server, client, ReportInv, ServerTyped, ClientTyped
<1>3. ASSUME NEW d \in Calls, Honest(d)
      PROVE  (Known(d) /\ (restarts = 0 => Tracks(d)))' /\ (d # c => Polling(d)')
  BY <1>1, <1>2, <1>3 DEF Honest, Polling, Known, Tracks
<1>4. ASSUME Asks(c, "send"), Honest(c) PROVE Polling(c)'
  <2>1. CASE \E to \in Stages \ {"done"} : Goto(c, to) /\ stage[c] \in Early /\ to \in Early
    BY <1>2, <1>4, <2>1 DEF Honest, Polling, Goto, ReportInv, CallsTyped, Early
  <2>2. CASE \E with \in {"limited", "error"} : Return(c, with)
    BY <1>2, <1>4, <2>2 DEF Honest, Polling, Return, ReportInv, CallsTyped, Statuses, Outcomes
  <2> QED
    BY <1>4, <2>1, <2>2
<1> QED
  BY <1>1, <1>2, <1>3, <1>4 DEF ReportInv, Honest

LEMMA JobReport ==
  ASSUME ReportInv, UNCHANGED <<calls, server, client>> PROVE ReportInv'
<1>1. UNCHANGED <<request, stage, answer, remote, past, restarts, seen, polls, errors, heard>>
  BY DEF calls, server, client
<1>2. CallsTyped' /\ ServerTyped' /\ ClientTyped'
  BY <1>1 DEF ReportInv, CallsTyped, ServerTyped, ClientTyped
<1> QED
  BY <1>1, <1>2 DEF ReportInv, Honest, Polling, Known, Tracks, Asks, Id

LEMMA ToolReport ==
  ASSUME ReportInv, NEW c \in Calls, UNCHANGED <<server, client>>,
         Begin(c) \/ Admit(c) \/ Reject(c) \/ WorkerStep(c)
  PROVE  ReportInv'
<1>1. stage[c] # "done"
  BY DEF Begin, Admit, Reject, WorkerStep, Launch, Answer, GiveUp, Lookup, PollWorker, Terminate, Reap, TellCanceled
<1>2. CASE Begin(c)
  BY <1>1, <1>2, AloneReport DEF Begin, Stages, Early
<1>3. CASE Admit(c) \/ Reject(c)
  <2>1. Goto(c, "start") \/ Return(c, "limited") \/ Return(c, "error")
    BY <1>3 DEF Admit, Reject
  <2>2. stage[c] \in Early
    BY <1>3 DEF Admit, Reject, Early
  <2> QED
    BY <1>1, <2>1, <2>2, AloneReport DEF Stages, Answers, Early
<1>4. CASE WorkerStep(c)
  <2>1. ~Asks(c, "send")
    <3>1. Asks(c, "send") => stage[c] \in {"idle", "limit", "start", "sent", "poll", "done"}
      BY DEF ReportInv, Honest, Polling
    <3> QED
      BY <1>4, <3>1 DEF WorkerStep, Launch, Answer, GiveUp, Lookup, PollWorker, Terminate, Reap, TellCanceled,
                        Asks, Runs
  <2>2. \/ \E to \in {"await", "poll", "terminate", "tell", "wait"} : Goto(c, to)
        \/ \E with \in {"completed", "failed", "error", "canceled", "unknown"} : Return(c, with)
    BY <1>4 DEF WorkerStep, Launch, Answer, GiveUp, Lookup, PollWorker, Terminate, Reap, TellCanceled, Verdict
  <2> QED
    BY <1>1, <2>1, <2>2, AloneReport DEF Stages, Answers, Statuses, Outcomes
<1> QED
  BY <1>2, <1>3, <1>4

-----------------------------------------------------------------------------
LEMMA SendReport == ASSUME ReportInv, NEW c \in Calls, Send(c) PROVE ReportInv'
<1> USE DEF Send
<1>0. stage[c] # "done" /\ Id(c) \in TaskIds
  BY Constants DEF ReportInv, CallsTyped, Id
<1>1. CASE remote[Id(c)] = "unknown"
  <2>1. Enter(Id(c), "submitted") /\ Goto(c, "sent") /\ UNCHANGED client
    BY <1>1
  <2>2. /\ CallsTyped' /\ request' = request
        /\ \A d \in Calls \ {c} : stage'[d] = stage[d] /\ answer'[d] = answer[d]
        /\ \A d \in Calls : Asks(d, "send")' = Asks(d, "send")
    BY <1>0, <2>1, CallsMove DEF ReportInv, Stages
  <2>3. /\ UNCHANGED <<seen, polls, errors, heard>> /\ ClientTyped'
    BY <2>1 DEF client, ReportInv, ClientTyped
  <2>4. /\ ServerTyped'
        /\ \A d \in Calls : Known(d) => Known(d)'
        /\ \A d \in Calls : (restarts = 0 => Tracks(d)) => (restarts = 0 => Tracks(d))'
    BY <1>0, <1>1, <2>1, <2>2, <2>3, EnterReport DEF ReportInv, Follows
  <2>5. \A d \in Calls : Asks(d, "send") => Polling(d)'
    BY <2>1, <2>2, <2>3 DEF ReportInv, Honest, Polling, Goto, CallsTyped
  <2> QED
    BY <2>2, <2>3, <2>4, <2>5 DEF ReportInv, Honest
<1>2. CASE remote[Id(c)] # "unknown"
  BY <1>0, <1>2, AloneReport DEF Answers
<1> QED
  BY <1>1, <1>2

LEMMA SentReport == ASSUME ReportInv, NEW c \in Calls, Sent(c) PROVE ReportInv'
<1> USE DEF Sent
<1> DEFINE now == remote[Id(c)]
<1>0. stage[c] # "done" /\ Id(c) \in TaskIds /\ now \in States /\ Attempts \in Nat
  BY Constants DEF ReportInv, CallsTyped, ServerTyped, Id
<1>1. CASE UNCHANGED seen /\ Return(c, "error")
  BY <1>0, <1>1, AloneReport DEF Answers, client
<1>2. CASE /\ seen' = [seen EXCEPT ![c] = now]
           /\ IF Settled(now) \/ Attempts = 0 THEN Return(c, now) ELSE Goto(c, "poll")
  <2>1. /\ CallsTyped' /\ request' = request
        /\ \A d \in Calls \ {c} : stage'[d] = stage[d] /\ answer'[d] = answer[d]
        /\ \A d \in Calls : Asks(d, "send")' = Asks(d, "send") /\ Id(d)' = Id(d)
    <3>1. now \in Answers \ {"none"} /\ "poll" \in Stages \ {"done"}
      BY <1>0 DEF Answers, Stages, States, Statuses, Outcomes
    <3>2. \/ \E to \in Stages \ {"done"} : Goto(c, to)
          \/ \E with \in Answers \ {"none"} : Return(c, with)
      BY <1>2, <3>1
    <3> QED
      BY <1>0, <3>2, CallsMove DEF ReportInv
  <2>2. UNCHANGED <<remote, past, restarts, polls, errors, heard>> /\ ServerTyped' /\ ClientTyped'
    BY <1>0, <1>2 DEF server, ReportInv, ServerTyped, ClientTyped
  <2>3. seen'[c] = now /\ \A d \in Calls \ {c} : seen'[d] = seen[d]
    BY <1>2 DEF ReportInv, ClientTyped
  <2>4. ASSUME NEW d \in Calls \ {c}, Honest(d) PROVE Honest(d)'
    BY <2>1, <2>2, <2>3, <2>4 DEF Honest, Polling, Known, Tracks
  <2>5. ASSUME Asks(c, "send") PROVE Honest(c)'
    <3>1. heard[c] = {} /\ polls[c] = Attempts /\ answer[c] = "none"
      BY <2>5 DEF ReportInv, Honest, Polling, CallsTyped
    <3>2. Polling(c)'
      <4>1. CASE Settled(now) \/ Attempts = 0
        <5>1. stage'[c] = "done" /\ answer'[c] = now
          BY <1>2, <4>1 DEF Return, ReportInv, CallsTyped
        <5> QED
          BY <2>2, <2>3, <3>1, <5>1 DEF Polling
      <4>2. CASE ~(Settled(now) \/ Attempts = 0)
        <5>1. stage'[c] = "poll" /\ answer'[c] = "none"
          BY <1>2, <3>1, <4>2 DEF Goto, ReportInv, CallsTyped
        <5>2. now \in {"submitted", "working"} /\ Attempts > 0
          BY <1>0, <4>2 DEF Settled, States, Statuses
        <5> QED
          BY <2>2, <2>3, <3>1, <5>1, <5>2 DEF Polling, Statuses, Outcomes
      <4> QED
        BY <4>1, <4>2
    <3>3. Known(c)'
      BY <1>0, <2>1, <2>2, <2>3 DEF Known, ReportInv, ServerTyped
    <3>4. Tracks(c)'
      BY <1>0, <2>1, <2>2, <2>3, <3>1 DEF Tracks, Outcomes
    <3> QED
      BY <3>2, <3>3, <3>4 DEF Honest
  <2> QED
    BY <2>1, <2>2, <2>4, <2>5 DEF ReportInv
<1> QED
  BY <1>1, <1>2

\* Where a poll ends a send.
LEMMA PollReport == ASSUME ReportInv, NEW c \in Calls, Poll(c) PROVE ReportInv'
<1> USE DEF Poll
<1> DEFINE now == remote[Id(c)]
<1>0. /\ stage[c] = "poll" /\ answer[c] = "none" /\ Asks(c, "send") /\ Honest(c)
      /\ Id(c) \in TaskIds /\ now \in States /\ Attempts \in Nat
      /\ polls[c] \in 1 .. Attempts /\ errors[c] \in 0 .. Attempts /\ errors[c] + polls[c] <= Attempts
      /\ seen[c] \in {"submitted", "working"} /\ heard[c] \subseteq Statuses
  BY Constants DEF ReportInv, CallsTyped, ServerTyped, ClientTyped, Id, Honest, Polling
<1>1. PICK told, err, hear :
        /\ seen' = [seen EXCEPT ![c] = told]
        /\ errors' = [errors EXCEPT ![c] = err]
        /\ heard' = [heard EXCEPT ![c] = hear]
        /\ \/ now # "unknown" /\ told = now /\ err = errors[c] /\ hear = heard[c] \cup {now}
           \/ told = seen[c] /\ err \in {errors[c], errors[c] + 1} /\ hear = heard[c]
  <2>1. CASE Told(c)
    BY <2>1 DEF Told, ReportInv, ClientTyped
  <2>2. CASE Evaded
    BY <2>2 DEF Evaded, ReportInv, ClientTyped
  <2>3. CASE Raised(c)
    BY <2>3 DEF Raised, ReportInv, ClientTyped
  <2> QED
    BY <2>1, <2>2, <2>3
<1>2. told \in Statuses /\ err \in 0 .. Attempts /\ hear \subseteq Statuses /\ err + (polls[c] - 1) <= Attempts
  BY <1>0, <1>1 DEF States, Statuses
<1>3. /\ seen'[c] = told /\ errors'[c] = err /\ heard'[c] = hear /\ polls'[c] = polls[c] - 1
      /\ \A d \in Calls \ {c} :
           seen'[d] = seen[d] /\ errors'[d] = errors[d] /\ heard'[d] = heard[d] /\ polls'[d] = polls[d]
  BY <1>1 DEF ReportInv, ClientTyped
<1>4. UNCHANGED <<remote, past, restarts>> /\ ServerTyped'
  BY DEF server, ReportInv, ServerTyped
<1>5. ClientTyped'
  <2>1. seen' \in [Calls -> States] /\ heard' \in [Calls -> SUBSET Statuses]
    BY <1>1, <1>2 DEF ReportInv, ClientTyped, States
  <2>2. errors' \in [Calls -> 0 .. Attempts]
    BY <1>1, <1>2 DEF ReportInv, ClientTyped
  <2>3. polls' \in [Calls -> 0 .. Attempts]
    BY <1>0 DEF ReportInv, ClientTyped
  <2>4. \A d \in Calls : errors'[d] + polls'[d] <= Attempts
    BY <1>2, <1>3 DEF ReportInv, ClientTyped
  <2> QED
    BY <2>1, <2>2, <2>3, <2>4 DEF ClientTyped
\* It ends with an outcome, or with the last poll.
<1>6. \/ UNCHANGED calls /\ told \notin Outcomes /\ polls[c] > 1
      \/ Return(c, told)
      \/ Return(c, "lost") /\ err = Attempts /\ polls[c] = 1
  <2>1. Blind(c) <=> err = Attempts
    BY <1>3 DEF Blind
  <2>2. polls[c] > 1 \/ polls[c] = 1
    BY <1>0
  <2> QED
    BY <1>3, <2>1, <2>2
<1>7. /\ CallsTyped' /\ request' = request
      /\ \A d \in Calls \ {c} : stage'[d] = stage[d] /\ answer'[d] = answer[d]
      /\ \A d \in Calls : Asks(d, "send")' = Asks(d, "send") /\ Id(d)' = Id(d)
  <2>1. told \in Answers \ {"none"} /\ "lost" \in Answers \ {"none"}
    BY <1>2 DEF Answers, Statuses, Outcomes
  <2>2. CASE UNCHANGED calls
    BY <2>2 DEF ReportInv, CallsTyped, calls, Asks, Id
  <2>3. CASE \E with \in Answers \ {"none"} : Return(c, with)
    BY <1>0, <2>3, CallsMove DEF ReportInv
  <2> QED
    BY <1>6, <2>1, <2>2, <2>3
<1>8. ASSUME NEW d \in Calls \ {c}, Honest(d) PROVE Honest(d)'
  BY <1>3, <1>4, <1>7, <1>8 DEF Honest, Polling, Known, Tracks
<1>9. Honest(c)'
  <2>1. Polling(c)'
    <3>1. CASE UNCHANGED calls /\ told \notin Outcomes /\ polls[c] > 1
      <4>1. stage'[c] = "poll" /\ answer'[c] = "none"
        BY <1>0, <3>1 DEF calls
      <4>2. told \in {"submitted", "working"} /\ polls[c] - 1 > 0
        BY <1>0, <1>2, <3>1 DEF Statuses
      <4>3. err + (polls[c] - 1) < Attempts \/ hear = {}
        BY <1>0, <1>1 DEF Honest, Polling
      <4> QED
        BY <1>3, <4>1, <4>2, <4>3 DEF Polling, Statuses, Outcomes
    <3>2. CASE Return(c, told)
      BY <1>2, <1>3, <3>2 DEF Polling, Return, ReportInv, CallsTyped, Statuses, Outcomes
    <3>3. CASE Return(c, "lost") /\ err = Attempts /\ polls[c] = 1
      <4>1. hear = {}
        BY <1>0, <1>1, <3>3 DEF Honest, Polling
      <4> QED
        BY <1>3, <3>3, <4>1 DEF Polling, Return, ReportInv, CallsTyped, Statuses, Outcomes
    <3> QED
      BY <1>6, <3>1, <3>2, <3>3
  <2>2. Known(c)'
    BY <1>0, <1>1, <1>3, <1>4, <1>7 DEF Honest, Known, ReportInv, ServerTyped
  <2>3. restarts = 0 => Tracks(c)'
    BY <1>0, <1>1, <1>3, <1>4, <1>7 DEF Honest, Tracks, States, Statuses, Outcomes
  <2> QED
    BY <1>4, <2>1, <2>2, <2>3 DEF Honest
<1> QED
  BY <1>4, <1>5, <1>7, <1>8, <1>9 DEF ReportInv

LEMMA CancelReport == ASSUME ReportInv, NEW c \in Calls, CancelAway(c) PROVE ReportInv'
<1> USE DEF CancelAway
<1>0. stage[c] = "tell" /\ ~Asks(c, "send") /\ Id(c) \in TaskIds
  BY Constants DEF ReportInv, CallsTyped, Id, Honest, Polling
<1>1. CASE UNCHANGED server
  <2>1. Return(c, "error") \/ Return(c, "canceled")
    BY <1>1
  <2> QED
    BY <1>0, <1>1, <2>1, AloneReport DEF Answers, Statuses, Outcomes
<1>2. CASE remote[Id(c)] \in {"submitted", "working"} /\ Enter(Id(c), "canceled")
  <2>1. UNCHANGED client /\ (Return(c, "canceled") \/ Return(c, "error"))
    BY <1>2 DEF Enter
  <2>2. /\ CallsTyped' /\ request' = request
        /\ \A d \in Calls \ {c} : stage'[d] = stage[d] /\ answer'[d] = answer[d]
        /\ \A d \in Calls : Asks(d, "send")' = Asks(d, "send")
    BY <1>0, <2>1, CallsMove DEF ReportInv, Answers, Statuses, Outcomes
  <2>3. UNCHANGED <<seen, polls, errors, heard>> /\ ClientTyped'
    BY <2>1 DEF client, ReportInv, ClientTyped
  <2>4. /\ ServerTyped'
        /\ \A d \in Calls : Known(d) => Known(d)'
        /\ \A d \in Calls : (restarts = 0 => Tracks(d)) => (restarts = 0 => Tracks(d))'
    BY <1>0, <1>2, <2>2, <2>3, EnterReport DEF ReportInv, Follows, Outcomes
  <2>5. \A d \in Calls : Asks(d, "send") => Polling(d)'
    BY <1>0, <2>2, <2>3 DEF ReportInv, Honest, Polling
  <2> QED
    BY <1>0, <2>2, <2>3, <2>4, <2>5 DEF ReportInv, Honest
<1> QED
  BY <1>1, <1>2

LEMMA StepReport == ASSUME ReportInv, [Next]_vars PROVE ReportInv'
<1>1. CASE Restart \/ (\E i \in TaskIds : Progress(i))
  BY <1>1, ServerReport
<1>2. CASE UNCHANGED <<calls, server, client>>
  BY <1>2, JobReport
<1>3. CASE Tick /\ UNCHANGED <<workers, server, client>>
  BY <1>3, JobReport DEF Tick
<1>4. ASSUME NEW c \in Calls, JobStep(c) \/ Exit(c), UNCHANGED <<server, client>> PROVE ReportInv'
  BY <1>4, JobReport
     DEF JobStep, Exit, Spawn, Register, Collect, Expire, Kill, Unregister, Cleanup, Alone
<1>5. ASSUME NEW c \in Calls, UNCHANGED <<server, client>>,
             Begin(c) \/ Admit(c) \/ Reject(c) \/ WorkerStep(c)
      PROVE  ReportInv'
  BY <1>5, ToolReport
<1>6. ASSUME NEW c \in Calls, ClientStep(c) PROVE ReportInv'
  BY <1>6, SendReport, SentReport, PollReport, CancelReport DEF ClientStep
<1> QED
  BY <1>1, <1>2, <1>3, <1>4, <1>5, <1>6 DEF Next, CallStep, RunStep, vars

\* A send reports a state the task was in, and unless the server has restarted the
\* furthest it was told of and no outcome but the task's own, for any number of
\* polls, whichever of them fail, of sends and cancels of one task, and of calls.
THEOREM ReportsAreTrue == Spec => []ReportTrue
<1>1. ReportInv => ReportTrue
  <2> SUFFICES ASSUME ReportInv, NEW c \in Calls, Asks(c, "send"), answer[c] # "none"
               PROVE  /\ answer[c] \in Statuses => answer[c] \in past[Id(c)]
                      /\ answer[c] = "lost" => heard[c] = {}
                      /\ restarts = 0 =>
                           /\ answer[c] \in Outcomes => remote[Id(c)] = answer[c]
                           /\ answer[c] = "submitted" => heard[c] \subseteq {"submitted"}
                           /\ answer[c] = "working" => heard[c] \cap Outcomes = {}
    BY DEF ReportTrue
  <2>1. Honest(c)
    BY DEF ReportInv
  <2> QED
    BY <2>1 DEF Honest, Polling, Known, Tracks, Statuses, Outcomes
<1> QED
  BY InitReport, StepReport, <1>1, PTL DEF Spec

-----------------------------------------------------------------------------
(***************************************************************************)
(* Types, and that a running worker is found.                              *)
(***************************************************************************)
\* The window keeps no more timestamps than calls it lets through.
Bounded ==
  /\ clock \in 0 .. MaxClock /\ read \in [Calls -> 0 .. MaxClock]
  /\ stamps \in Seq(0 .. MaxClock) /\ grants \in Seq(0 .. MaxClock)
  /\ Len(stamps) <= MaxCalls

Named ==
  /\ \A s \in Sites : DOMAIN registry[s] \subseteq TaskIds
  /\ \A c \in Calls : held[c].ended \in BOOLEAN
  /\ \A c \in Calls : job[c] # "none" => Runs(c)

SoundInv == Bounded /\ Named /\ Findable

LEMMA InitSound == Init => SoundInv
<1> SUFFICES ASSUME Init PROVE SoundInv
  OBVIOUS
<1>0. MaxClock \in Nat /\ MaxCalls \in Nat
  BY ToolCallsAssumption
<1>1. Bounded
  BY <1>0 DEF Init, TInit, Bounded
<1>2. \A c \in Calls : held[c].ended = FALSE /\ job[c] = "none"
  BY DEF Init, WInit, Free
<1>3. \A s \in Sites : DOMAIN registry[s] = {}
  BY DEF Init, WInit
<1>4. Named /\ Findable
  BY <1>2, <1>3 DEF Named, Findable
<1> QED
  BY <1>1, <1>4 DEF SoundInv

LEMMA AdmitBounded == ASSUME Bounded, NEW c \in Calls, Admit(c) PROVE Bounded'
<1>0. /\ MaxCalls \in Nat \ {0} /\ clock \in 0 .. MaxClock /\ read[c] \in 0 .. MaxClock
      /\ stamps \in Seq(0 .. MaxClock) /\ grants \in Seq(0 .. MaxClock)
      /\ Len(stamps) \in Nat /\ Len(stamps) <= MaxCalls
      /\ clock' = clock /\ read' = read
  BY ToolCallsAssumption DEF Bounded, Admit
<1> DEFINE rest(m) == SubSeq(stamps, m + 1, Len(stamps))
<1>1. PICK m \in 0 .. Len(stamps) :
        IF Full(rest(m))
        THEN stamps' = rest(m) /\ UNCHANGED grants
        ELSE stamps' = Append(rest(m), read[c]) /\ grants' = Append(grants, clock)
  BY DEF Admit
<1>2. rest(m) \in Seq(0 .. MaxClock) /\ Len(rest(m)) \in Nat /\ Len(rest(m)) <= MaxCalls
  <2>1. m \in Nat /\ m <= Len(stamps)
    BY <1>0
  <2>2. rest(m) \in Seq(0 .. MaxClock) /\ Len(rest(m)) = Len(stamps) - m
    <3> DEFINE Times == 0 .. MaxClock
    <3>1. stamps \in Seq(Times) /\ m + 1 \in 1 .. Len(stamps) + 1 /\ Len(stamps) \in m .. Len(stamps)
      BY <1>0, <2>1
    <3> HIDE DEF Times
    <3>2. SubSeq(stamps, m + 1, Len(stamps)) \in Seq(Times)
      BY <3>1, <2>1, <1>0
    <3>3. Len(SubSeq(stamps, m + 1, Len(stamps))) = Len(stamps) - m
      BY <3>1, <2>1, <1>0
    <3> QED
      BY <3>2, <3>3 DEF Times
  <2> HIDE DEF rest
  <2> QED
    BY <1>0, <2>1, <2>2
<1>3. CASE Full(rest(m))
  <2> HIDE DEF rest
  <2> QED
    BY <1>0, <1>1, <1>2, <1>3 DEF Bounded
<1>4. CASE ~Full(rest(m))
  <2> HIDE DEF rest
  <2>1. Len(rest(m)) + 1 <= MaxCalls
    BY <1>0, <1>2, <1>4 DEF Full
  <2>2. stamps' \in Seq(0 .. MaxClock) /\ grants' \in Seq(0 .. MaxClock) /\ Len(stamps') = Len(rest(m)) + 1
    <3> DEFINE Times == 0 .. MaxClock
    <3>1. /\ rest(m) \in Seq(Times) /\ read[c] \in Times /\ grants \in Seq(Times) /\ clock \in Times
          /\ stamps' = Append(rest(m), read[c]) /\ grants' = Append(grants, clock)
      BY <1>0, <1>1, <1>2, <1>4
    <3> HIDE DEF Times
    <3>2. stamps' \in Seq(Times) /\ grants' \in Seq(Times) /\ Len(stamps') = Len(rest(m)) + 1
      BY <3>1
    <3> QED
      BY <3>2 DEF Times
  <2> QED
    BY <1>0, <2>1, <2>2 DEF Bounded
<1> QED
  BY <1>3, <1>4

LEMMA StepBounded == ASSUME Bounded, [Next]_vars PROVE Bounded'
<1>0. MaxClock \in Nat
  BY ToolCallsAssumption
<1>1. CASE Tick
  BY <1>0, <1>1 DEF Bounded, Tick
<1>2. ASSUME NEW c \in Calls, Begin(c) PROVE Bounded'
  BY <1>2 DEF Bounded, Begin
<1>3. ASSUME NEW c \in Calls, Admit(c) PROVE Bounded'
  BY <1>3, AdmitBounded
<1>4. CASE UNCHANGED limits
  BY <1>4 DEF Bounded, limits
<1>5. CASE Restart \/ (\E i \in TaskIds : Progress(i)) \/ UNCHANGED vars
  BY <1>4, <1>5 DEF Restart, Progress, vars
<1>6. ASSUME NEW c \in Calls, JobStep(c) \/ Exit(c) PROVE Bounded'
  BY <1>4, <1>6 DEF JobStep, Exit, Spawn, Register, Collect, Expire, Kill, Unregister, Cleanup, Alone
<1>7. ASSUME NEW c \in Calls, Reject(c) \/ WorkerStep(c) PROVE Bounded'
  BY <1>4, <1>7
     DEF Reject, WorkerStep, Launch, Answer, GiveUp, Lookup, PollWorker, Terminate, Reap, TellCanceled, Alone
<1>8. ASSUME NEW c \in Calls, ClientStep(c) PROVE Bounded'
  BY <1>4, <1>8 DEF ClientStep, Send, Sent, Poll, CancelAway
<1> QED
  BY <1>1, <1>2, <1>3, <1>5, <1>6, <1>7, <1>8 DEF Next, CallStep, RunStep

-----------------------------------------------------------------------------
\* A step that leaves the registries alone, begins no wait for a worker and starts
\* none that is waited for.
LEMMA FoundStays ==
  ASSUME Named, Findable, UNCHANGED <<request, registry>>,
         \A c \in Calls :
           /\ job'[c] # "none" => job[c] # "none" \/ Runs(c)
           /\ job'[c] = "talk" => job[c] = "talk" /\ (proc'[c] = "running" => proc[c] = "running")
           /\ held'[c].ended \in BOOLEAN
  PROVE  Named' /\ Findable'
<1>0. \A c \in Calls : Runs(c)' = Runs(c) /\ Site(c)' = Site(c) /\ Id(c)' = Id(c)
  BY DEF Runs, Asks, Site, Id
<1>1. Named'
  BY <1>0 DEF Named
<1>2. Findable'
  <2> SUFFICES ASSUME NEW c \in Calls, job[c] = "talk", proc[c] = "running",
                      \A d \in Calls \ {c} : Runs(d) /\ Site(d) = Site(c) => Id(d) # Id(c)
               PROVE  Id(c) \in DOMAIN registry[Site(c)] /\ registry[Site(c)][Id(c)] = c
    BY <1>0 DEF Findable
  <2> QED
    BY DEF Findable
<1> QED
  BY <1>1, <1>2

LEMMA QuietFound ==
  ASSUME Named, Findable, UNCHANGED workers, UNCHANGED request PROVE Named' /\ Findable'
BY FoundStays DEF workers, Named

\* Only workers with an id of their own on their machine are sure to be found.
Sole(c) == \A d \in Calls \ {c} : Runs(d) /\ Site(d) = Site(c) => Id(d) # Id(c)

LEMMA RegisterFound ==
  ASSUME Inv, CallsTyped, Named, Findable, NEW c \in Calls, Register(c) PROVE Named' /\ Findable'
<1> USE DEF Register, Advance, Alone, calls
<1>0. Site(c) \in Sites /\ Id(c) \in TaskIds /\ Runs(c)
  BY Constants DEF Site, Sites, Id, CallsTyped, Named
<1>1. /\ request' = request /\ proc' = proc /\ held' = held
      /\ job'[c] = "talk" /\ \A d \in Calls \ {c} : job'[d] = job[d]
      /\ \A s \in Sites \ {Site(c)} : registry'[s] = registry[s]
      /\ registry'[Site(c)] =
           [i \in DOMAIN registry[Site(c)] \cup {Id(c)} |-> IF i = Id(c) THEN c ELSE registry[Site(c)][i]]
  BY <1>0 DEF Inv, Typed
<1>2. Named'
  BY <1>0, <1>1 DEF Named, Runs, Asks, Site
<1>3. Findable'
  <2> SUFFICES ASSUME NEW d \in Calls, job'[d] = "talk", proc[d] = "running", Sole(d)
               PROVE  Id(d) \in DOMAIN registry'[Site(d)] /\ registry'[Site(d)][Id(d)] = d
    <3>1. \A d \in Calls : Runs(d)' = Runs(d) /\ Site(d)' = Site(d) /\ Id(d)' = Id(d)
      BY <1>1 DEF Runs, Asks, Site, Id
    <3>2. proc' = proc
      BY <1>1
    <3> QED
      BY <3>1, <3>2 DEF Findable, Sole
  <2>1. Site(d) \in Sites
    BY DEF Site, Sites
  <2>2. CASE d = c
    BY <1>1, <2>2
  <2>3. CASE d # c
    <3>1. Id(d) \in DOMAIN registry[Site(d)] /\ registry[Site(d)][Id(d)] = d
      BY <1>1, <2>3 DEF Findable, Sole
    <3>2. CASE Site(d) = Site(c)
      <4>1. Id(d) # Id(c)
        BY <1>0, <2>3, <3>2 DEF Sole
      <4> QED
        BY <1>1, <3>1, <3>2, <4>1
    <3>3. CASE Site(d) # Site(c)
      BY <1>1, <2>1, <3>1, <3>3
    <3> QED
      BY <3>2, <3>3
  <2> QED
    BY <2>2, <2>3
<1> QED
  BY <1>2, <1>3

\* What is left in a registry is found as before.
LEMMA RemovalFound ==
  ASSUME Inv, Named, Findable, NEW c \in Calls, NEW to, to \notin {"none", "talk"}, NEW left,
         UNCHANGED <<request, proc, held>>, job[c] # "none", job' = [job EXCEPT ![c] = to],
         registry' = [registry EXCEPT ![Site(c)] = Restrict(@, left)],
         left \subseteq DOMAIN registry[Site(c)],
         \A d \in Calls \ {c} :
           /\ proc[d] = "running" /\ Sole(d) /\ Site(d) = Site(c)
           /\ Id(d) \in DOMAIN registry[Site(c)] /\ registry[Site(c)][Id(d)] = d
           => Id(d) \in left
  PROVE  Named' /\ Findable'
<1>0. /\ Site(c) \in Sites
      /\ job'[c] = to /\ \A d \in Calls \ {c} : job'[d] = job[d]
      /\ \A s \in Sites \ {Site(c)} : registry'[s] = registry[s]
      /\ registry'[Site(c)] = [i \in left |-> registry[Site(c)][i]]
  BY DEF Inv, Typed, Site, Sites, Restrict
<1>1. Named'
  BY <1>0 DEF Named, Runs, Asks, Site
<1>2. Findable'
  <2> SUFFICES ASSUME NEW d \in Calls, job'[d] = "talk", proc[d] = "running", Sole(d)
               PROVE  Id(d) \in DOMAIN registry'[Site(d)] /\ registry'[Site(d)][Id(d)] = d
    BY <1>0 DEF Findable, Sole, Runs, Asks, Site, Id
  <2>1. Site(d) \in Sites /\ d # c /\ job[d] = "talk"
    BY <1>0 DEF Site, Sites
  <2>2. Id(d) \in DOMAIN registry[Site(d)] /\ registry[Site(d)][Id(d)] = d
    BY <2>1 DEF Findable, Sole
  <2>3. CASE Site(d) = Site(c)
    <3>1. Id(d) \in left
      BY <2>1, <2>2, <2>3
    <3> QED
      BY <1>0, <2>2, <2>3, <3>1
  <2>4. CASE Site(d) # Site(c)
    BY <1>0, <2>1, <2>2, <2>4
  <2> QED
    BY <2>3, <2>4
<1> QED
  BY <1>1, <1>2

LEMMA JobFound ==
  ASSUME Inv, CallsTyped, Named, Findable, NEW c \in Calls, JobStep(c) \/ Exit(c)
  PROVE  Named' /\ Findable'
<1> USE DEF Alone, calls, Advance, Becomes
<1>1. CASE Register(c)
  BY <1>1, RegisterFound
<1>2. CASE Unregister(c)
  <2> DEFINE left == DOMAIN registry[Site(c)] \ {Id(c)}
  <2>1. Site(c) \in Sites /\ Runs(c)
    BY <1>2 DEF Site, Sites, Unregister, Named
  <2>2. /\ registry' = [registry EXCEPT ![Site(c)] = Restrict(@, left)]
        /\ job' = [job EXCEPT ![c] = "clean"] /\ job[c] # "none"
        /\ UNCHANGED <<request, proc, held>>
    BY <1>2, <2>1 DEF Unregister, Inv, Typed
  <2>3. ASSUME NEW d \in Calls \ {c}, Sole(d), Site(d) = Site(c), Id(d) \in DOMAIN registry[Site(c)]
        PROVE  Id(d) \in left
    BY <2>1, <2>3 DEF Sole
  <2>4. left \subseteq DOMAIN registry[Site(c)]
    OBVIOUS
  <2> HIDE DEF left
  <2> QED
    BY <2>2, <2>3, <2>4, RemovalFound
<1>3. CASE Cleanup(c)
  <2> DEFINE mine == registry[Site(c)]
             left == {i \in DOMAIN mine : proc[mine[i]] = "running"}
  <2>1. Site(c) \in Sites
    BY DEF Site, Sites
  <2>2. /\ registry' = [registry EXCEPT ![Site(c)] = Restrict(@, left)]
        /\ job' = [job EXCEPT ![c] = "over"] /\ job[c] # "none"
        /\ UNCHANGED <<request, proc, held>>
    BY <1>3, <2>1 DEF Cleanup, Inv, Typed
  <2>3. \A d \in Calls \ {c} :
          proc[d] = "running" /\ Id(d) \in DOMAIN registry[Site(c)] /\ registry[Site(c)][Id(d)] = d
          => Id(d) \in left
    OBVIOUS
  <2>4. left \subseteq DOMAIN registry[Site(c)]
    OBVIOUS
  <2> HIDE DEF left
  <2> QED
    BY <2>2, <2>3, <2>4, RemovalFound
<1>4. CASE Spawn(c) \/ Collect(c) \/ Expire(c) \/ Kill(c) \/ Exit(c)
  <2>1. UNCHANGED <<request, registry, held>>
    BY <1>4 DEF Spawn, Collect, Expire, Kill, Exit
  <2>2. ASSUME NEW d \in Calls
        PROVE  /\ job'[d] # "none" => job[d] # "none"
               /\ job'[d] = "talk" => job[d] = "talk" /\ (proc'[d] = "running" => proc[d] = "running")
    BY <1>4 DEF Spawn, Collect, Expire, Kill, Exit, Inv, Typed
  <2> QED
    BY <2>1, <2>2, FoundStays DEF Named
<1> QED
  BY <1>1, <1>2, <1>3, <1>4 DEF JobStep

LEMMA WorkerFound ==
  ASSUME Inv, CallsTyped, Named, Findable, NEW c \in Calls, WorkerStep(c)
  PROVE  Named' /\ Findable'
<1> USE DEF Alone, workers, Goto, Return
<1>1. UNCHANGED <<request, registry>>
  BY DEF WorkerStep, Launch, Answer, GiveUp, Lookup, PollWorker, Terminate, Reap, TellCanceled
<1>2. ASSUME NEW d \in Calls
      PROVE  /\ job'[d] # "none" => job[d] # "none" \/ Runs(d)
             /\ job'[d] = "talk" => job[d] = "talk"
  BY DEF WorkerStep, Launch, Answer, GiveUp, Lookup, PollWorker, Terminate, Reap, TellCanceled,
         Advance, Inv, Typed
<1>3. ASSUME NEW d \in Calls
      PROVE  proc'[d] = "running" => proc[d] = "running"
  BY DEF WorkerStep, Launch, Answer, GiveUp, Lookup, PollWorker, Terminate, Reap, TellCanceled,
         Becomes, Inv, Typed
<1>4. ASSUME NEW d \in Calls
      PROVE  held'[d].ended = held[d].ended \/ held'[d].ended = TRUE
  <2>1. CASE UNCHANGED held
    BY <2>1
  <2>2. CASE Lookup(c)
    <3>1. PICK w : held' = [held EXCEPT ![c].worker = w]
      BY <2>2 DEF Lookup
    <3>2. held'[d].ended = held[d].ended
      BY <3>1 DEF Inv, Typed
    <3> QED
      BY <3>2
  <2>3. CASE Reap(c)
    <3>1. held' = [held EXCEPT ![c].ended = TRUE]
      BY <2>3 DEF Reap
    <3>2. CASE d = c
      <4>1. held'[c] = [held[c] EXCEPT !.ended = TRUE] /\ "ended" \in DOMAIN held[c]
        BY <3>1 DEF Inv, Typed
      <4>2. held'[c].ended = TRUE
        BY <4>1
      <4> QED
        BY <3>2, <4>2
    <3>3. CASE d # c
      <4>1. held'[d] = held[d]
        BY <3>1, <3>3 DEF Inv, Typed
      <4> QED
        BY <4>1
    <3> QED
      BY <3>2, <3>3
  <2> QED
    BY <2>1, <2>2, <2>3 DEF WorkerStep, Launch, Answer, GiveUp, PollWorker, Terminate, TellCanceled
<1>5. \A d \in Calls : held'[d].ended \in BOOLEAN
  BY <1>4 DEF Named
<1> QED
  BY <1>1, <1>2, <1>3, <1>5, FoundStays

LEMMA StepFound ==
  ASSUME Inv, CallsTyped, Named, Findable, [Next]_vars PROVE Named' /\ Findable'
<1>1. CASE \/ Tick /\ UNCHANGED <<workers, server, client>>
           \/ Restart
           \/ \E i \in TaskIds : Progress(i)
           \/ UNCHANGED vars
  BY <1>1, QuietFound DEF Tick, Restart, Progress, vars, calls
<1>2. ASSUME NEW c \in Calls,
             \/ (Begin(c) \/ Admit(c) \/ Reject(c)) /\ UNCHANGED workers
             \/ ClientStep(c)
      PROVE  Named' /\ Findable'
  <2>1. UNCHANGED workers /\ UNCHANGED request
    BY <1>2 DEF Begin, Admit, Reject, ClientStep, Send, Sent, Poll, CancelAway, Goto, Return, calls
  <2> QED
    BY <2>1, QuietFound
<1>3. ASSUME NEW c \in Calls, WorkerStep(c) \/ JobStep(c) \/ Exit(c) PROVE Named' /\ Findable'
  BY <1>3, WorkerFound, JobFound
<1> QED
  BY <1>1, <1>2, <1>3 DEF Next, CallStep, RunStep

\* The state stays within its types: no more timestamps than MaxCalls, no more errors
\* than polls, answers exactly from the calls that are done.  And a running worker
\* whose handler waits for it is the one the registry of its machine gives for its
\* id, whatever is registered, removed and cleaned up there at the same time under
\* other ids.  Nothing is said of two runs that share an id on one machine: handlers
\* unregister by id, so that the first to end takes away the entry of the other.
THEOREM WorkersAreSound == Spec => []WorkersSound
<1>1. Init => Inv /\ ReportInv /\ SoundInv
  BY InitOwned, InitReport, InitSound
<1>2. ASSUME Inv, ReportInv, SoundInv, [Next]_vars PROVE Inv' /\ ReportInv' /\ SoundInv'
  BY <1>2, NextKeeps, StepReport, StepBounded, StepFound DEF SoundInv, ReportInv
<1>3. ASSUME Inv, ReportInv, SoundInv PROVE WorkersSound
  <2>1. \A s \in Sites : DOMAIN registry[s] \subseteq TaskIds /\ Range(registry[s]) \subseteq Calls
    BY <1>3 DEF SoundInv, Named, Inv, Registered, Started, Range
  <2>2. held \in [Calls -> [worker : Calls \cup {None}, ended : BOOLEAN]]
    <3>1. ASSUME NEW c \in Calls PROVE held[c] \in [worker : Calls \cup {None}, ended : BOOLEAN]
      <4>1. held[c] = [worker |-> held[c].worker, ended |-> held[c].ended]
        BY <1>3 DEF Inv, Typed
      <4>2. held[c].worker \in Calls \cup {None}
        BY <1>3 DEF Inv, Holding, Started
      <4>3. held[c].ended \in BOOLEAN
        BY <1>3 DEF SoundInv, Named
      <4> QED
        BY <4>1, <4>2, <4>3
    <3>2. held = [c \in Calls |-> held[c]]
      BY <1>3 DEF Inv, Typed
    <3> QED
      BY <3>1, <3>2
  <2>3. job \in [Calls -> Jobs] /\ proc \in [Calls -> Fates]
    BY <1>3 DEF Inv, Typed
  <2> QED
    BY <1>3, <2>1, <2>2, <2>3
       DEF WorkersSound, TypeOK, SoundInv, Bounded, ReportInv, CallsTyped, ServerTyped, ClientTyped,
           Stages, States, Answers, Jobs, Fates
<1> QED
  BY <1>1, <1>2, <1>3, PTL DEF Spec
=============================================================================
