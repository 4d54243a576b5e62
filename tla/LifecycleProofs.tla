--------------------------- MODULE LifecycleProofs ----------------------------
(***************************************************************************)
(* The running server keeps its types and is a caller that TaskQueue       *)
(* allows, for any number of requests, sessions, ids and tasks: what is    *)
(* proved of the queue holds of the server.  Under the conditions named    *)
(* OneSession, OwnIds and TurnsFindTask it hands every task over once and  *)
(* gives every client its own answer.                                      *)
(***************************************************************************)
EXTENDS TaskLifecycle, TaskQueueProofs

\* Every task that was created has an id a client asked for.
NamedTasks == \A t \in 1 .. created : idOf[t] \in TaskIds

\* A session in the middle of pre_llm_call holds the task it drained.
HoldsWork ==
  \A s \in Sessions : spc[s] \in {"drained", "working", "marked"} => held[s] # <<>>

\* A request that waits, waits for a task.
WaitsForTask ==
  \A r \in Requests : rpc[r] \in {"waiting", "late", "completed", "working"} => rtask[r] # 0

\* Only writers that exist are about to write, each into a task.
WritersExist ==
  /\ \A t \in Task : webhook[t] \in {"delivering", "failing"} => WebhookFailed \in FailTexts
  /\ \A t \in Task : webhook[t] = "failing" => hit[t] # 0
  /\ aged # 0 \/ scan # 0 => Orphaned \in FailTexts

LInv ==
  /\ LTypeOK
  /\ NamedTasks
  /\ HoldsWork
  /\ WaitsForTask
  /\ WritersExist

-----------------------------------------------------------------------------
(***************************************************************************)
(* Every step is a step of the queue's most general caller.                *)
(***************************************************************************)

\* The task at the head of a drained list is one that was created.
LEMMA HeadIsTask ==
  ASSUME LInv, NEW s \in Sessions, held[s] # <<>>
  PROVE  Head(held[s]) \in 1 .. created /\ idOf[Head(held[s])] \in TaskIds
<1>1. held[s] \in Seq(1 .. created)
  BY LifecycleAssumption DEF LifecycleAssumption, LInv, LTypeOK, TypeOK
<1>2. Head(held[s]) \in 1 .. created
  BY <1>1, HeadTailProperties
<1> QED
  BY <1>2 DEF LInv, NamedTasks

\* What is pending has an id a client asked for.
LEMMA PendingIsNamed ==
  ASSUME LInv, NEW i \in PendingIds
  PROVE  i \in TaskIds
<1>1. ToSet(pending) \subseteq 1 .. created
  BY MembersTyped DEF LInv, LTypeOK, TypeOK
<1> QED
  BY <1>1 DEF PendingIds, IdsOf, LInv, NamedTasks

\* A step of a request or of a CancelTask call.
LEMMA RequestsUseQueue ==
  ASSUME LInv,
         \/ \E r \in Requests : SendMessage(r)
         \/ \E c \in Cancels : CancelCheck(c) \/ CancelTask(c)
  PROVE  Next \/ UNCHANGED qvars
<1> USE LifecycleAssumption DEF LifecycleAssumption
<1>1. ASSUME NEW r \in Requests, Accept(r)
      PROVE  Next
  BY <1>1 DEF Accept, Next
<1>2. ASSUME NEW r \in Requests, Abandon(r)
      PROVE  Next
  <2>1. rtask[r] \in 0 .. created /\ rtask[r] # 0 /\ TypeOK
    BY <1>2 DEF Abandon, RequestMoves, LInv, WaitsForTask, LTypeOK
  <2>2. rtask[r] \in Task
    BY <2>1, CreatedAreTasks DEF Task
  <2> QED
    BY <1>2, <2>2 DEF Abandon, Next
<1>3. ASSUME NEW r \in Requests, CheckCollision(r) \/ Busy(r) \/ Reply(r) \/ TimeOut(r)
      PROVE  UNCHANGED qvars
  BY <1>3 DEF CheckCollision, Busy, Reply, TimeOut
<1>4. ASSUME NEW c \in Cancels, CancelTask(c)
      PROVE  Next \/ UNCHANGED qvars
  BY <1>4 DEF CancelTask, Next
<1>5. ASSUME NEW c \in Cancels, CancelCheck(c)
      PROVE  UNCHANGED qvars
  BY <1>5 DEF CancelCheck
<1> QED
  BY <1>1, <1>2, <1>3, <1>4, <1>5 DEF SendMessage

\* A step of an agent session's turn.
LEMMA TurnsUseQueue ==
  ASSUME LInv, NEW s \in Sessions, Turn(s)
  PROVE  Next \/ UNCHANGED qvars
<1> USE LifecycleAssumption DEF LifecycleAssumption
<1>1. CASE PreDrain(s)
  BY <1>1 DEF PreDrain, Next
<1>2. CASE PreTransition(s)
  <2>1. idOf[Head(held[s])] \in TaskIds
    BY <1>2, HeadIsTask DEF PreTransition, SessionMoves, LInv, HoldsWork
  <2> QED
    BY <1>2, <2>1 DEF PreTransition, Next
<1>3. CASE PreMark(s)
  <2>1. idOf[Head(held[s])] \in TaskIds
    BY <1>3, HeadIsTask DEF PreMark, SessionMoves, LInv, HoldsWork
  <2> QED
    BY <1>3, <2>1 DEF PreMark, Next
<1>4. CASE PreInject(s)
  BY <1>4 DEF PreInject, Next
<1>5. CASE Skip(s) \/ PostTarget(s) \/ PostNoTarget(s)
  BY <1>5 DEF Skip, PostTarget, PostNoTarget
<1>6. CASE PostComplete(s)
  <2>1. TextOf(s) \in Answers
    <3>1. injected[s] \in 0 .. created /\ TypeOK
      BY DEF LInv, LTypeOK
    <3> QED
      BY <3>1, CreatedAreTasks DEF TextOf, Task
  <2> QED
    BY <1>6, <2>1, PendingIsNamed DEF PostComplete, Next
<1> QED
  BY <1>1, <1>2, <1>3, <1>4, <1>5, <1>6 DEF Turn

\* Every step of the server.
LEMMA ServerStep ==
  ASSUME LInv, [LNext]_vars
  PROVE  [Next]_qvars
<1>1. ASSUME NEW t \in Task, Delivered(t) \/ DeliveryFailed(t) \/ ScanFinds(t)
      PROVE  UNCHANGED qvars
  BY <1>1 DEF Delivered, DeliveryFailed, ScanFinds
<1>2. CASE Age \/ UNCHANGED vars
  BY <1>2 DEF Age, vars
<1>3. ASSUME NEW t \in Task, WriteFailure(t)
      PROVE  Next
  <2>1. hit[t] \in 0 .. created /\ hit[t] # 0 /\ WebhookFailed \in FailTexts /\ TypeOK
    BY <1>3 DEF WriteFailure, LInv, WritersExist, LTypeOK
  <2>2. hit[t] \in Task
    BY <2>1, CreatedAreTasks DEF Task
  <2> QED
    BY <1>3, <2>1, <2>2 DEF WriteFailure, Next
<1>4. CASE MarkOrphaned
  <2>1. scan \in 0 .. created /\ scan # 0 /\ Orphaned \in FailTexts /\ TypeOK
    BY <1>4 DEF MarkOrphaned, LInv, WritersExist, LTypeOK
  <2>2. scan \in Task
    BY <2>1, CreatedAreTasks DEF Task
  <2> QED
    BY <1>4, <2>1, <2>2 DEF MarkOrphaned, Next
<1> QED
  BY <1>1, <1>2, <1>3, <1>4, RequestsUseQueue, TurnsUseQueue DEF LNext

-----------------------------------------------------------------------------
(***************************************************************************)
(* The invariant is inductive.                                             *)
(***************************************************************************)

\* Tasks are only ever added to, and keep their ids.
LEMMA TasksStay ==
  ASSUME TypeOK, NamedTasks, [Next]_qvars
  PROVE  created \in Nat /\ created' \in Nat /\ created <= created' /\ NamedTasks'
<1>1. TypeOK' /\ created \in Nat /\ created' \in Nat
  BY TypeStep DEF TypeOK
<1>2. ASSUME NEW i \in TaskIds, Enqueue(i)
      PROVE  created' = created + 1 /\ NamedTasks'
  <2>1. created' = created + 1 /\ idOf' = [idOf EXCEPT ![created + 1] = i]
    BY <1>2 DEF Enqueue
  <2>2. idOf \in [Task -> TaskIds \cup {NoId}] /\ 1 .. created' \subseteq Task
    BY <1>1, <2>1, CreatedAreTasks, QueueAssumption
       DEF TypeOK, Task, QueueAssumption
  <2> QED
    BY <1>1, <2>1, <2>2 DEF NamedTasks
<1>3. ASSUME UNCHANGED <<created, idOf>>
      PROVE  created' = created /\ NamedTasks'
  BY <1>3 DEF NamedTasks
<1>4. ASSUME NEW i \in TaskIds,
             MarkProcessing(i) \/ Cancel(i) \/ (\E a \in Answers : Complete(i, a))
               \/ \E to \in Targets : Transition(i, to) \/ SetAuth(i, to)
      PROVE  UNCHANGED <<created, idOf>>
  BY <1>4 DEF MarkProcessing, Cancel, Complete, Retire, Transition, SetAuth, objects
<1>5. ASSUME NEW d \in Drainers, Drain(d) \/ Requeue(d)
      PROVE  UNCHANGED <<created, idOf>>
  BY <1>5 DEF Drain, Requeue, objects
<1>6. ASSUME NEW t \in Task, GiveUp(t) \/ \E r \in FailTexts : FailResponse(t, r)
      PROVE  UNCHANGED <<created, idOf>>
  BY <1>6 DEF GiveUp, FailResponse
<1>7. ASSUME UNCHANGED qvars
      PROVE  UNCHANGED <<created, idOf>>
  BY <1>7 DEF qvars, objects
<1> QED
  BY <1>1, <1>2, <1>3, <1>4, <1>5, <1>6, <1>7 DEF Next

\* What every step gives: the queue's types, and registers that still point to
\* created tasks.
Grown ==
  /\ TypeOK' /\ NamedTasks'
  /\ created \in Nat /\ created' \in Nat /\ created <= created'

LEMMA ServerGrows ==
  ASSUME LInv, [LNext]_vars
  PROVE  Grown
<1>1. [Next]_qvars /\ TypeOK /\ NamedTasks
  BY ServerStep DEF LInv, LTypeOK
<1> QED
  BY <1>1, TypeStep, TasksStay DEF Grown

\* A step of a request.
LEMMA RequestInv ==
  ASSUME LInv, Grown, NEW r \in Requests, SendMessage(r)
  PROVE  LInv'
<1> USE LifecycleAssumption DEF LifecycleAssumption
<1>1. CASE Accept(r)
  <2>1. /\ rpc' = [rpc EXCEPT ![r] = "waiting"] /\ held' = held
        /\ rtask' = [rtask EXCEPT ![r] = created + 1] /\ created' = created + 1
        /\ webhook' = [webhook EXCEPT ![created + 1] =
                         IF WebhookFailed \in FailTexts THEN "delivering" ELSE "done"]
        /\ UNCHANGED <<reply, cpc, sessionVars, hit, watchdogVars>>
    BY <1>1 DEF Accept, RequestMoves, Enqueue
  <2>2. LTypeOK'
    <3>1. rtask' \in [Requests -> 0 .. created']
      BY <2>1 DEF Grown, LInv, LTypeOK
    <3>2. webhook' \in [Task -> {"none", "delivering", "failing", "done"}]
      BY <2>1 DEF LInv, LTypeOK
    <3>3. /\ injected' \in [Sessions -> 0 .. created'] /\ hit' \in [Task -> 0 .. created']
          /\ aged' \in 0 .. created' /\ scan' \in 0 .. created'
      BY <2>1 DEF Grown, LInv, LTypeOK, sessionVars, watchdogVars
    <3> QED
      BY <2>1, <3>1, <3>2, <3>3 DEF Grown, LInv, LTypeOK, sessionVars
  <2>3. HoldsWork' /\ WaitsForTask'
    BY <2>1 DEF Grown, LInv, LTypeOK, HoldsWork, WaitsForTask, sessionVars
  <2>4. WritersExist'
    BY <2>1 DEF LInv, LTypeOK, WritersExist, watchdogVars
  <2> QED
    BY <2>2, <2>3, <2>4 DEF Grown, LInv
<1>2. CASE CheckCollision(r) \/ Busy(r) \/ Reply(r) \/ TimeOut(r) \/ Abandon(r)
  <2>1. held' = held /\ UNCHANGED <<rtask, cpc, sessionVars, webhookVars, watchdogVars>>
    BY <1>2 DEF CheckCollision, Busy, Reply, TimeOut, Abandon, GiveUp, qvars
  <2>2. \/ rpc' = [rpc EXCEPT ![r] = "conflict"] \/ rpc' = [rpc EXCEPT ![r] = "checked"]
        \/ rpc' = [rpc EXCEPT ![r] = "busy"]
        \/ /\ rpc[r] \in {"waiting", "late"}
           /\ \E to \in {"completed", "late", "working"} : rpc' = [rpc EXCEPT ![r] = to]
    BY <1>2 DEF CheckCollision, Busy, Reply, TimeOut, Abandon, RequestMoves
  <2>3. reply' \in [Requests -> Response]
    <3>1. CASE Reply(r)
      <4>1. rtask[r] \in 0 .. created /\ rtask[r] # 0 /\ TypeOK
        BY <3>1 DEF Reply, RequestMoves, LInv, WaitsForTask, LTypeOK
      <4>2. response[rtask[r]] \in Response
        BY <4>1, CreatedAreTasks DEF TypeOK, Task
      <4> QED
        BY <3>1, <4>2 DEF Reply, LInv, LTypeOK
    <3>2. CASE ~Reply(r)
      BY <1>2, <3>2 DEF CheckCollision, Busy, TimeOut, Abandon, LInv, LTypeOK
    <3> QED
      BY <3>1, <3>2
  <2>4. LTypeOK'
    BY <2>1, <2>2, <2>3 DEF Grown, LInv, LTypeOK, sessionVars, webhookVars, watchdogVars
  <2>5. HoldsWork' /\ WaitsForTask'
    BY <2>1, <2>2 DEF LInv, LTypeOK, HoldsWork, WaitsForTask, sessionVars
  <2>6. WritersExist'
    BY <2>1 DEF LInv, WritersExist, webhookVars, watchdogVars
  <2> QED
    BY <2>4, <2>5, <2>6 DEF Grown, LInv
<1> QED
  BY <1>1, <1>2 DEF SendMessage

\* A step of a CancelTask call.
LEMMA CancelInv ==
  ASSUME LInv, Grown, NEW c \in Cancels, CancelCheck(c) \/ CancelTask(c)
  PROVE  LInv'
<1>1. held' = held /\ UNCHANGED <<requestVars, sessionVars, webhookVars, watchdogVars>>
  BY DEF CancelCheck, CancelTask, Cancel, Retire, qvars
<1>2. \E to \in {"checked", "not_found", "not_cancelable", "canceled"} :
        cpc' = [cpc EXCEPT ![c] = to]
  BY DEF CancelCheck, CancelTask
<1>3. LTypeOK'
  BY <1>1, <1>2
     DEF Grown, LInv, LTypeOK, requestVars, sessionVars, webhookVars, watchdogVars
<1>4. HoldsWork' /\ WaitsForTask' /\ WritersExist'
  BY <1>1 DEF LInv, HoldsWork, WaitsForTask, WritersExist,
              requestVars, sessionVars, webhookVars, watchdogVars
<1> QED
  BY <1>3, <1>4 DEF Grown, LInv

SessionPhase == {"idle", "drained", "working", "marked", "thinking", "rereading", "answering"}

\* A step of a turn that keeps its registers typed and, in the middle of
\* pre_llm_call, its drained list.
LEMMA TurnKeepsInv ==
  ASSUME LInv, Grown, NEW s \in Sessions, NEW to \in SessionPhase,
         spc' = [spc EXCEPT ![s] = to],
         injected' \in [Sessions -> 0 .. created],
         target' \in [Sessions -> TaskIds \cup {NoId}],
         handed' \in [Task -> Nat],
         \A u \in Sessions \ {s} : held'[u] = held[u],
         to \in {"drained", "working", "marked"} => held'[s] # <<>>,
         UNCHANGED <<requestVars, cpc, webhookVars, watchdogVars>>
  PROVE  LInv'
<1>1. spc' \in [Sessions -> SessionPhase]
  BY DEF LInv, LTypeOK, SessionPhase
<1>2. LTypeOK'
  BY <1>1 DEF Grown, LInv, LTypeOK, SessionPhase, requestVars, webhookVars, watchdogVars
<1>3. HoldsWork'
  BY DEF LInv, LTypeOK, HoldsWork
<1>4. WaitsForTask' /\ WritersExist'
  BY DEF LInv, WaitsForTask, WritersExist, requestVars, webhookVars, watchdogVars
<1> QED
  BY <1>2, <1>3, <1>4 DEF Grown, LInv

\* A step of an agent session's turn.
LEMMA TurnInv ==
  ASSUME LInv, Grown, NEW s \in Sessions, Turn(s)
  PROVE  LInv'
<1> USE LifecycleAssumption DEF LifecycleAssumption
<1>1. /\ injected \in [Sessions -> 0 .. created]
      /\ target \in [Sessions -> TaskIds \cup {NoId}]
      /\ handed \in [Task -> Nat]
      /\ spc \in [Sessions -> SessionPhase]
      /\ TypeOK /\ held \in [Sessions -> Seq(1 .. created)]
  BY DEF LInv, LTypeOK, TypeOK, SessionPhase
<1>2. CASE PreDrain(s)
  <2>1. PICK q : held' = [held EXCEPT ![s] = q]
    BY <1>2 DEF PreDrain, Drain
  <2>2. /\ \A u \in Sessions \ {s} : held'[u] = held[u]
        /\ UNCHANGED <<injected, target, handed, requestVars, cpc, webhookVars, watchdogVars>>
    BY <1>1, <1>2, <2>1 DEF PreDrain
  <2>3. \/ held'[s] # <<>> /\ spc' = [spc EXCEPT ![s] = "drained"]
        \/ spc' = [spc EXCEPT ![s] = "thinking"]
    BY <1>2 DEF PreDrain, SessionMoves
  <2>4. CASE held'[s] # <<>> /\ spc' = [spc EXCEPT ![s] = "drained"]
    BY <1>1, <2>2, <2>4, TurnKeepsInv DEF SessionPhase
  <2>5. CASE spc' = [spc EXCEPT ![s] = "thinking"]
    BY <1>1, <2>2, <2>5, TurnKeepsInv DEF SessionPhase
  <2> QED
    BY <2>3, <2>4, <2>5
<1>3. CASE PreTransition(s) \/ PreMark(s)
  <2>1. PICK to \in {"working", "marked"} :
          spc[s] \in {"drained", "working"} /\ spc' = [spc EXCEPT ![s] = to]
    BY <1>3 DEF PreTransition, PreMark, SessionMoves
  <2>2. /\ held' = held
        /\ UNCHANGED <<injected, target, handed, requestVars, cpc, webhookVars, watchdogVars>>
    BY <1>3 DEF PreTransition, PreMark, Transition, MarkProcessing, qvars
  <2>3. held'[s] # <<>>
    BY <2>1, <2>2 DEF LInv, HoldsWork
  <2> QED
    BY <1>1, <2>1, <2>2, <2>3, TurnKeepsInv DEF SessionPhase
<1>4. CASE PreInject(s)
  <2>1. /\ spc' = [spc EXCEPT ![s] = "thinking"] /\ held' = [held EXCEPT ![s] = <<>>]
        /\ injected' = [injected EXCEPT ![s] = Head(held[s])]
        /\ handed' = [handed EXCEPT ![Head(held[s])] = @ + 1]
        /\ UNCHANGED <<target, requestVars, cpc, webhookVars, watchdogVars>>
    BY <1>4 DEF PreInject, SessionMoves, Requeue
  <2>2. Head(held[s]) \in 1 .. created /\ created \in Nat
    BY <1>4, HeadIsTask DEF PreInject, Requeue, Grown
  <2>3. injected' \in [Sessions -> 0 .. created]
    BY <1>1, <2>1, <2>2
  <2>4. Head(held[s]) \in Task
    BY <1>1, <2>2, CreatedAreTasks DEF Task
  <2>5. handed' \in [Task -> Nat]
    BY <1>1, <2>1, <2>4
  <2>6. \A u \in Sessions \ {s} : held'[u] = held[u]
    BY <1>1, <2>1
  <2> QED
    BY <1>1, <2>1, <2>3, <2>5, <2>6, TurnKeepsInv DEF SessionPhase
<1>5. CASE Skip(s) \/ PostTarget(s) \/ PostNoTarget(s)
  <2>1. held' = held /\ UNCHANGED <<handed, requestVars, cpc, webhookVars, watchdogVars>>
    BY <1>5 DEF Skip, PostTarget, PostNoTarget, qvars
  <2>2. PICK to \in {"idle", "rereading", "answering"} : spc' = [spc EXCEPT ![s] = to]
    BY <1>5 DEF Skip, PostTarget, PostNoTarget, SessionMoves
  <2>3. injected' \in [Sessions -> 0 .. created]
    BY <1>1, <1>5 DEF Skip, PostTarget, PostNoTarget, Grown
  <2>4. target' \in [Sessions -> TaskIds \cup {NoId}]
    <3>1. CASE PostTarget(s)
      <4>1. PICK i \in Candidates(s) : target' = [target EXCEPT ![s] = i]
        BY <3>1 DEF PostTarget
      <4>2. i \in TaskIds \cup {NoId}
        <5>1. ASSUME injected[s] # 0
              PROVE  idOf[injected[s]] \in TaskIds \cup {NoId}
          BY <1>1, <5>1 DEF Grown, LInv, NamedTasks
        <5> QED
          BY <1>1, <5>1 DEF Candidates, TypeOK
      <4> QED
        BY <1>1, <4>1, <4>2
    <3>2. CASE ~PostTarget(s)
      BY <1>1, <1>5, <3>2 DEF Skip, PostNoTarget
    <3> QED
      BY <3>1, <3>2
  <2> QED
    BY <1>1, <2>1, <2>2, <2>3, <2>4, TurnKeepsInv DEF SessionPhase
<1>6. CASE PostComplete(s)
  <2>1. /\ spc' = [spc EXCEPT ![s] = "idle"]
        /\ injected' = [injected EXCEPT ![s] = 0]
        /\ target' = [target EXCEPT ![s] = NoId]
        /\ UNCHANGED <<handed, requestVars, cpc, webhookVars, watchdogVars>>
    BY <1>6 DEF PostComplete, SessionMoves
  <2>2. held' = held
    BY <1>6 DEF PostComplete, Complete, Retire, qvars
  <2>3. injected' \in [Sessions -> 0 .. created] /\ target' \in [Sessions -> TaskIds \cup {NoId}]
    BY <1>1, <2>1 DEF Grown
  <2> QED
    BY <1>1, <2>1, <2>2, <2>3, TurnKeepsInv DEF SessionPhase
<1> QED
  BY <1>2, <1>3, <1>4, <1>5, <1>6 DEF Turn

\* A step of a delivery thread.
LEMMA DeliveryInv ==
  ASSUME LInv, Grown, NEW t \in Task, Delivered(t) \/ DeliveryFailed(t) \/ WriteFailure(t)
  PROVE  LInv'
<1>1. held' = held /\ UNCHANGED <<requestVars, cpc, sessionVars, watchdogVars>>
  BY DEF Delivered, DeliveryFailed, WriteFailure, FailResponse, qvars
<1>2. /\ webhook \in [Task -> {"none", "delivering", "failing", "done"}]
      /\ hit \in [Task -> 0 .. created] /\ TypeOK
  BY DEF LInv, LTypeOK
<1>3. \/ webhook' = [webhook EXCEPT ![t] = "done"] /\ hit' = hit
      \/ /\ webhook[t] = "delivering" /\ webhook' = [webhook EXCEPT ![t] = "failing"]
         /\ hit' = [hit EXCEPT ![t] = FindTaskById(idOf[t])]
         /\ FindTaskById(idOf[t]) # 0
  BY DEF Delivered, DeliveryFailed, WriteFailure
<1>4. FindTaskById(idOf[t]) \in 0 .. created
  <2>1. ToSet(pending) \subseteq 1 .. created /\ ToSet(completed) \subseteq 1 .. created
    BY <1>2, MembersTyped DEF TypeOK
  <2>2. ASSUME NEW q, ToSet(q) \subseteq 1 .. created, NEW i \in IdsOf(q)
        PROVE  Find(q, i) \in 0 .. created
    <3>1. \E u \in ToSet(q) : idOf[u] = i
      BY <2>2 DEF IdsOf
    <3>2. Find(q, i) \in ToSet(q)
      BY <3>1 DEF Find
    <3> QED
      BY <2>2, <3>2 DEF Grown
  <2> QED
    BY <2>1, <2>2 DEF FindTaskById, PendingIds, Grown
<1>5. hit' \in [Task -> 0 .. created]
  BY <1>2, <1>3, <1>4
<1>6. LTypeOK'
  BY <1>1, <1>2, <1>3, <1>5
     DEF Grown, LInv, LTypeOK, requestVars, sessionVars, watchdogVars
<1>7. HoldsWork' /\ WaitsForTask'
  BY <1>1 DEF LInv, HoldsWork, WaitsForTask, requestVars, sessionVars
<1>8. WritersExist'
  BY <1>1, <1>2, <1>3 DEF LInv, WritersExist, watchdogVars
<1> QED
  BY <1>6, <1>7, <1>8 DEF Grown, LInv

\* A step of the watchdog, or of the clock it looks at.
LEMMA WatchdogInv ==
  ASSUME LInv, Grown, Age \/ MarkOrphaned \/ \E t \in Task : ScanFinds(t)
  PROVE  LInv'
<1>1. held' = held /\ UNCHANGED <<requestVars, cpc, sessionVars, webhookVars>>
  BY DEF Age, MarkOrphaned, ScanFinds, FailResponse, qvars
<1>2. aged \in 0 .. created /\ scan \in 0 .. created /\ TypeOK
  BY DEF LInv, LTypeOK
<1>3. aged' \in 0 .. created /\ scan' \in 0 .. created
  BY <1>2 DEF Age, MarkOrphaned, ScanFinds, Task, Grown, watchdogVars
<1>4. aged' # 0 \/ scan' # 0 => Orphaned \in FailTexts
  BY <1>2 DEF Age, MarkOrphaned, ScanFinds, LInv, WritersExist, Grown, Task
<1>5. LTypeOK'
  BY <1>1, <1>3 DEF Grown, LInv, LTypeOK, requestVars, sessionVars, webhookVars
<1>6. HoldsWork' /\ WaitsForTask' /\ WritersExist'
  BY <1>1, <1>4 DEF LInv, HoldsWork, WaitsForTask, WritersExist,
                    requestVars, sessionVars, webhookVars
<1> QED
  BY <1>5, <1>6 DEF Grown, LInv

\* Every step of the server keeps the invariant.
LEMMA LInvStep ==
  ASSUME LInv, [LNext]_vars
  PROVE  LInv'
<1>1. Grown
  BY ServerGrows
<1>2. CASE UNCHANGED vars
  <2>1. held' = held /\ UNCHANGED <<requestVars, cpc, sessionVars, webhookVars, watchdogVars>>
    BY <1>2 DEF vars, qvars
  <2>2. LTypeOK'
    BY <1>1, <2>1
       DEF Grown, LInv, LTypeOK, requestVars, sessionVars, webhookVars, watchdogVars
  <2>3. HoldsWork' /\ WaitsForTask' /\ WritersExist'
    BY <2>1 DEF LInv, HoldsWork, WaitsForTask, WritersExist,
                requestVars, sessionVars, webhookVars, watchdogVars
  <2> QED
    BY <1>1, <2>2, <2>3 DEF Grown, LInv
<1>3. CASE LNext
  BY <1>1, <1>3, RequestInv, CancelInv, TurnInv, DeliveryInv, WatchdogInv DEF LNext
<1> QED
  BY <1>2, <1>3

-----------------------------------------------------------------------------
\* The inductive invariant holds of every behaviour of the server.
THEOREM ServerSafe == LSpec => []LInv
<1>1. LInit => LInv
  <2> SUFFICES ASSUME LInit PROVE LInv
    OBVIOUS
  <2> USE LifecycleAssumption DEF LifecycleAssumption
  <2>1. TypeOK /\ created = 0
    BY EmptySeq, QueueAssumption
       DEF QueueAssumption, LInit, Init, TypeOK, Response
  <2>2. NoResponse \in Response
    BY DEF Response
  <2>3. LTypeOK
    BY <2>1, <2>2 DEF LInit, LTypeOK
  <2> QED
    BY <2>1, <2>3
       DEF LInit, LInv, NamedTasks, HoldsWork, WaitsForTask, WritersExist
<1>2. LInv /\ [LNext]_vars => LInv'
  BY LInvStep
<1> QED
  BY <1>1, <1>2, PTL DEF LSpec

\* Every field of the running server keeps its type, however many threads run.
THEOREM ServerTyped == LSpec => []LTypeOK
<1>1. LInv => LTypeOK
  BY DEF LInv
<1> QED
  BY <1>1, ServerSafe, PTL

\* The server never uses the queue in a way its most general caller may not:
\* request threads, sessions, deliveries and the watchdog pass it created
\* tasks, ids that were asked for, and texts that exist.
THEOREM ServerUsesQueue == LSpec => UsesQueue
<1>1. LInit => Init
  BY DEF LInit
<1>2. LInv /\ [LNext]_vars => [Next]_qvars
  BY ServerStep
<1> QED
  BY <1>1, <1>2, ServerSafe, PTL DEF LSpec, Spec, UsesQueue

\* On the running server no task is dropped while a request thread waits for it,
\* and the watchdog's shortcut hides none.
THEOREM ServerLosesNoWaiter == LSpec => [](NoStrandedWaiter /\ WatchdogShortcutSafe)
<1>1. LSpec => Spec
  BY ServerUsesQueue DEF UsesQueue
<1> QED
  BY <1>1, NoWaiterLost, ShortcutIsSafe, PTL

-----------------------------------------------------------------------------
(***************************************************************************)
(* Ids in the queue: each is pending once.                                 *)
(***************************************************************************)

\* Each id occurs once in a list.
OnceIn(s, id) == \A j, k \in DOMAIN s : id[s[j]] = id[s[k]] => j = k

\* No id is pending twice, as _pending is a dictionary, nor drained twice.
Apart == OnceIn(pending, idOf) /\ \A d \in Drainers : OnceIn(held[d], idOf)

\* What is behind a popped entry moves up by one.
LEMMA RemoveAtElements ==
  ASSUME NEW A, NEW s \in Seq(A), NEW k \in 1 .. Len(s), NEW j \in 1 .. Len(s) - 1
  PROVE  RemoveAt(s, k)[j] = IF j < k THEN s[j] ELSE s[j + 1]
<1> DEFINE front == SubSeq(s, 1, k - 1)
           back == SubSeq(s, k + 1, Len(s))
<1>1. Len(s) \in Nat /\ DOMAIN s = 1 .. Len(s) /\ \A i \in 1 .. Len(s) : s[i] \in A
  BY LenProperties, ElementOfSeq
<1>2. /\ front \in Seq(A)
      /\ Len(front) = k - 1
      /\ \A i \in 1 .. (k - 1) : front[i] = s[i]
  BY <1>1, SubSeqProperties
<1>3. /\ back \in Seq(A)
      /\ Len(back) = IF k + 1 <= Len(s) THEN Len(s) - (k + 1) + 1 ELSE 0
      /\ \A i \in 1 .. (Len(s) - (k + 1) + 1) : back[i] = s[(k + 1) + i - 1]
  <2>1. k + 1 \in Int /\ Len(s) \in Int /\ \A i \in (k + 1) .. Len(s) : s[i] \in A
    BY <1>1
  <2> QED
    BY <2>1, SubSeqProperties
<1> HIDE DEF front, back
<1>4. \A i \in 1 .. Len(front) + Len(back) :
        (front \o back)[i] = IF i <= Len(front) THEN front[i] ELSE back[i - Len(front)]
  BY <1>2, <1>3, ConcatProperties
<1>5. RemoveAt(s, k) = front \o back
  BY DEF RemoveAt, front, back
<1> DEFINE n == Len(s)  f == Len(front)  b == Len(back)
<1>6. n \in Nat /\ k \in 1 .. n /\ j \in 1 .. n - 1 /\ f = k - 1 /\ b = n - k
  <2>1. \A m \in Nat : \A i \in 1 .. m : m - (i + 1) + 1 = m - i /\ (~ (i + 1 <= m) => m - i = 0)
    OBVIOUS
  <2>2. b = n - k
    BY <1>1, <1>3, <2>1
  <2> QED
    BY <1>1, <1>2, <2>2
<1>7. \A i \in 1 .. (n - k) : back[i] = s[k + i]
  <2>1. \A i \in 1 .. (n - k) : i \in 1 .. (n - (k + 1) + 1) /\ (k + 1) + i - 1 = k + i
    BY <1>6
  <2> QED
    BY <1>3, <2>1
<1> HIDE DEF n, f, b
<1>8. /\ j < k => j \in 1 .. (k - 1) /\ j \in 1 .. f + b /\ j <= f
      /\ ~ (j < k) => /\ j - (k - 1) \in 1 .. (n - k) /\ j \in 1 .. f + b /\ ~ (j <= f)
                     /\ k + (j - (k - 1)) = j + 1 /\ j - f = j - (k - 1)
  BY <1>6
<1> QED
  BY <1>2, <1>4, <1>5, <1>7, <1>8 DEF f, b

\* Popping keeps a list free of repeats, and takes the popped task away.
LEMMA OnceRemoved ==
  ASSUME NEW A, NEW id, NEW s \in Seq(A), OnceIn(s, id), NEW k \in 1 .. Len(s)
  PROVE  OnceIn(RemoveAt(s, k), id) /\ ToSet(RemoveAt(s, k)) = ToSet(s) \ {s[k]}
<1> DEFINE r == RemoveAt(s, k)
           from(j) == IF j < k THEN j ELSE j + 1
<1>1. Len(s) \in Nat /\ DOMAIN s = 1 .. Len(s)
  BY LenProperties
<1>2. r \in Seq(A) /\ Len(r) = Len(s) - 1 /\ ToSet(r) \subseteq ToSet(s) /\ ToSet(s) \ {s[k]} \subseteq ToSet(r)
  BY RemoveAtMembers
<1>3. DOMAIN r = 1 .. Len(s) - 1
  BY <1>2, LenProperties
<1>4. \A j \in 1 .. Len(s) - 1 : r[j] = s[from(j)]
  BY RemoveAtElements
<1>5. \A j, l \in 1 .. Len(s) - 1 :
         from(j) \in 1 .. Len(s) /\ from(j) # k /\ (from(j) = from(l) => j = l)
  BY <1>1
<1> HIDE DEF r, from
<1>6. OnceIn(r, id)
  BY <1>1, <1>3, <1>4, <1>5 DEF OnceIn
<1>7. s[k] \notin ToSet(r)
  <2>1. SUFFICES ASSUME NEW j \in DOMAIN r, r[j] = s[k] PROVE FALSE
    BY DEF ToSet
  <2> QED
    BY <1>1, <1>3, <1>4, <1>5, <2>1 DEF OnceIn
<1> QED
  BY <1>2, <1>6, <1>7 DEF r

\* So does appending what has other ids.
LEMMA OnceJoined ==
  ASSUME NEW A, NEW id, NEW s \in Seq(A), NEW q \in Seq(A), OnceIn(s, id), OnceIn(q, id),
         \A a \in ToSet(s), b \in ToSet(q) : id[a] # id[b]
  PROVE  OnceIn(s \o q, id)
<1>1. /\ Len(s) \in Nat /\ DOMAIN s = 1 .. Len(s) /\ Len(q) \in Nat /\ DOMAIN q = 1 .. Len(q)
      /\ s \o q \in Seq(A) /\ Len(s \o q) = Len(s) + Len(q)
      /\ \A i \in 1 .. Len(s) + Len(q) : (s \o q)[i] = IF i <= Len(s) THEN s[i] ELSE q[i - Len(s)]
  BY LenProperties, ConcatProperties
<1>2. DOMAIN (s \o q) = 1 .. Len(s) + Len(q)
  BY <1>1, LenProperties
<1>3. \A i \in 1 .. Len(s) : s[i] \in ToSet(s)
  BY <1>1 DEF ToSet
<1>4. \A i \in 1 .. Len(q) : q[i] \in ToSet(q)
  BY <1>1 DEF ToSet
<1> SUFFICES ASSUME NEW j \in 1 .. Len(s) + Len(q), NEW k \in 1 .. Len(s) + Len(q),
                    id[(s \o q)[j]] = id[(s \o q)[k]]
             PROVE  j = k
  BY <1>2 DEF OnceIn
<1>5. CASE j <= Len(s) /\ k <= Len(s)
  <2>1. j \in DOMAIN s /\ k \in DOMAIN s /\ id[s[j]] = id[s[k]]
    BY <1>1, <1>5
  <2> QED
    BY <2>1 DEF OnceIn
<1>6. CASE ~ (j <= Len(s)) /\ ~ (k <= Len(s))
  <2>1. j - Len(s) \in DOMAIN q /\ k - Len(s) \in DOMAIN q /\ id[q[j - Len(s)]] = id[q[k - Len(s)]]
    BY <1>1, <1>6
  <2>2. j - Len(s) = k - Len(s)
    BY <2>1 DEF OnceIn
  <2> QED
    BY <1>1, <2>2
<1>7. CASE j <= Len(s) /\ ~ (k <= Len(s))
  <2>1. j \in 1 .. Len(s) /\ k - Len(s) \in 1 .. Len(q) /\ id[s[j]] = id[q[k - Len(s)]]
    BY <1>1, <1>7
  <2> QED
    BY <1>3, <1>4, <2>1
<1>8. CASE ~ (j <= Len(s)) /\ k <= Len(s)
  <2>1. k \in 1 .. Len(s) /\ j - Len(s) \in 1 .. Len(q) /\ id[s[k]] = id[q[j - Len(s)]]
    BY <1>1, <1>8
  <2> QED
    BY <1>3, <1>4, <2>1
<1> QED
  BY <1>5, <1>6, <1>7, <1>8

\* And listing tasks of different ids in any order.
LEMMA OnceListed ==
  ASSUME NEW n \in Nat, NEW id, NEW S \in SUBSET (1 .. n), NEW s, NEW q \in InOrder(s, S),
         \A a, b \in S : id[a] = id[b] => a = b
  PROVE  OnceIn(q, id)
<1>1. /\ q \in [1 .. Cardinality(S) -> S]
      /\ \A j, k \in 1 .. Cardinality(S) : j # k => q[j] # q[k]
  BY DEF InOrder, SetToSeqs
<1> QED
  BY <1>1 DEF OnceIn

\* Two tasks of such a list have different ids.
LEMMA OnceMeans ==
  ASSUME NEW s, NEW id, OnceIn(s, id)
  PROVE  \A a, b \in ToSet(s) : id[a] = id[b] => a = b
BY DEF OnceIn, ToSet

\* The head of a drained list is not among the others.
LEMMA HeadIsNotBehind ==
  ASSUME NEW A, NEW id, NEW s \in Seq(A), s # <<>>, OnceIn(s, id)
  PROVE  /\ Head(s) \in ToSet(s) /\ ToSet(Tail(s)) \subseteq ToSet(s) /\ Head(s) \notin ToSet(Tail(s))
<1>1. /\ Len(s) \in Nat \ {0} /\ DOMAIN s = 1 .. Len(s)
      /\ Head(s) = s[1] /\ Tail(s) \in Seq(A) /\ Len(Tail(s)) = Len(s) - 1
      /\ \A i \in 1 .. Len(Tail(s)) : Tail(s)[i] = s[i + 1]
  BY LenProperties, EmptySeq, HeadTailProperties
<1>2. DOMAIN Tail(s) = 1 .. Len(s) - 1
  BY <1>1, LenProperties
<1>3. \A i \in 1 .. Len(s) - 1 : i + 1 \in 1 .. Len(s) /\ i + 1 # 1 /\ Tail(s)[i] = s[i + 1]
  BY <1>1
<1>4. 1 \in 1 .. Len(s)
  BY <1>1
<1> QED
  BY <1>1, <1>2, <1>3, <1>4 DEF ToSet, OnceIn

\* No operation of the queue makes an id pending twice.
LEMMA ApartStep ==
  ASSUME TypeOK, Apart, [Next]_qvars
  PROVE  Apart'
<1>1. /\ created \in Nat /\ 1 .. created \subseteq Task /\ pending \in Seq(1 .. created)
      /\ held \in [Drainers -> Seq(1 .. created)] /\ ToSet(pending) \subseteq 1 .. created
      /\ DOMAIN pending = 1 .. Len(pending)
  BY CreatedAreTasks DEF TypeOK
<1>2. ASSUME NEW i \in TaskIds, Enqueue(i)
      PROVE  Apart'
  <2>1. /\ idOf' = [idOf EXCEPT ![created + 1] = i] /\ i \notin PendingIds
        /\ pending' = Append(pending, created + 1) /\ held' = held /\ created < MaxTasks
    BY <1>2 DEF Enqueue, CanEnqueue
  <2>2. /\ \A t \in 1 .. created : idOf'[t] = idOf[t]
        /\ idOf'[created + 1] = i
    <3>1. created + 1 \in Task /\ idOf \in [Task -> TaskIds \cup {NoId}]
      BY <1>1, <2>1, QueueAssumption DEF QueueAssumption, Task, TypeOK
    <3> QED
      BY <1>1, <2>1, <3>1
  <2>3. \A d \in Drainers : OnceIn(held[d], idOf')
    <3>1. \A d \in Drainers : \A j \in DOMAIN held[d] : held[d][j] \in 1 .. created
      BY <1>1, LenProperties, ElementOfSeq
    <3> QED
      BY <2>2, <3>1 DEF Apart, OnceIn
  <2>4. OnceIn(pending, idOf')
    <3>1. \A j \in DOMAIN pending : pending[j] \in 1 .. created
      BY CreatedAreTasks
    <3> QED
      BY <2>2, <3>1 DEF Apart, OnceIn
  <2>5. \A t \in ToSet(pending) : idOf'[t] # i
    BY <1>1, <2>1, <2>2 DEF PendingIds, IdsOf
  <2>6. OnceIn(pending \o <<created + 1>>, idOf')
    <3>1. pending \in Seq(Nat) /\ <<created + 1>> \in Seq(Nat)
      BY <1>1, SeqMonotonic
    <3>2. ToSet(<<created + 1>>) = {created + 1} /\ OnceIn(<<created + 1>>, idOf')
      BY DEF ToSet, OnceIn
    <3> QED
      BY <2>2, <2>4, <2>5, <3>1, <3>2, OnceJoined
  <2>7. Append(pending, created + 1) = pending \o <<created + 1>>
    BY <1>1, SeqMonotonic
  <2> QED
    BY <2>1, <2>3, <2>6, <2>7 DEF Apart
<1>3. ASSUME NEW i \in TaskIds, Cancel(i) \/ \E a \in Answers : Complete(i, a)
      PROVE  Apart'
  <2>1. PICK k \in 1 .. Len(pending) : pending' = RemoveAt(pending, k) /\ UNCHANGED <<idOf, held>>
    BY <1>1, <1>3 DEF Cancel, Complete, Retire
  <2>2. OnceIn(RemoveAt(pending, k), idOf)
    BY <1>1, OnceRemoved DEF Apart
  <2> QED
    BY <2>1, <2>2 DEF Apart
<1>4. ASSUME NEW d \in Drainers, Drain(d)
      PROVE  Apart'
  <2> DEFINE idle == {t \in ToSet(pending) : idOf[t] \notin processing}
  <2>1. PICK q \in InOrder(pending, idle) : held' = [held EXCEPT ![d] = q] /\ UNCHANGED <<idOf, pending>>
    BY <1>4 DEF Drain, objects
  <2>2. \A a, b \in idle : idOf[a] = idOf[b] => a = b
    BY OnceMeans DEF Apart
  <2>3. OnceIn(q, idOf)
    BY <1>1, <2>2, OnceListed
  <2>4. \A e \in Drainers : held'[e] = IF e = d THEN q ELSE held[e]
    BY <1>1, <2>1
  <2>5. \A e \in Drainers : OnceIn(held'[e], idOf)
    BY <2>3, <2>4 DEF Apart
  <2> QED
    BY <2>1, <2>5 DEF Apart
<1>5. ASSUME NEW d \in Drainers, Requeue(d)
      PROVE  Apart'
  <2> DEFINE gone == {t \in ToSet(Tail(held[d])) : idOf[t] \notin PendingIds /\ idOf[t] \notin processing}
  <2>1. PICK q \in InOrder(held[d], gone) :
           /\ pending' = pending \o q /\ held' = [held EXCEPT ![d] = <<>>] /\ idOf' = idOf
    BY <1>5 DEF Requeue, objects
  <2>2. held[d] \in Seq(1 .. created) /\ held[d] # <<>> /\ OnceIn(held[d], idOf)
    BY <1>1, <1>5 DEF Requeue, Apart
  <2>3. ToSet(Tail(held[d])) \subseteq ToSet(held[d]) /\ ToSet(held[d]) \subseteq 1 .. created
    BY <2>2, HeadIsNotBehind, MembersTyped
  <2>4. gone \in SUBSET (1 .. created) /\ \A a, b \in gone : idOf[a] = idOf[b] => a = b
    BY <2>2, <2>3, OnceMeans
  <2>5. OnceIn(q, idOf)
    BY <1>1, <2>4, OnceListed
  <2>6. q \in Seq(1 .. created) /\ ToSet(q) \subseteq gone
    BY <1>1, <2>4, InOrderTyped
  <2>7. \A a \in ToSet(pending), b \in ToSet(q) : idOf[a] # idOf[b]
    BY <2>6 DEF PendingIds, IdsOf
  <2>8. OnceIn(pending \o q, idOf)
    BY <1>1, <2>5, <2>6, <2>7, OnceJoined DEF Apart
  <2>9. \A e \in Drainers : OnceIn(held'[e], idOf)
    BY <1>1, <2>1 DEF Apart, OnceIn
  <2> QED
    BY <2>1, <2>8, <2>9 DEF Apart
<1>6. ASSUME UNCHANGED <<idOf, pending, held>>
      PROVE  Apart'
  BY <1>6 DEF Apart
<1>7. ASSUME NEW i \in TaskIds,
             MarkProcessing(i) \/ \E to \in Targets : Transition(i, to) \/ SetAuth(i, to)
      PROVE  Apart'
  BY <1>6, <1>7 DEF MarkProcessing, Transition, SetAuth, objects
<1>8. ASSUME NEW t \in Task, GiveUp(t) \/ \E r \in FailTexts : FailResponse(t, r)
      PROVE  Apart'
  BY <1>6, <1>8 DEF GiveUp, FailResponse
<1>9. ASSUME UNCHANGED qvars
      PROVE  Apart'
  BY <1>6, <1>9 DEF qvars, objects
<1> QED
  BY <1>2, <1>3, <1>4, <1>5, <1>7, <1>8, <1>9 DEF Next

-----------------------------------------------------------------------------
(***************************************************************************)
(* No text is handed over twice, if one session runs turns.  That a task is *)
(* in the queue and not marked says nothing of whether it was handed over; *)
(* what is invariant is that a task that was, and is pending still, is     *)
(* marked, and that nothing that was drained has been.                     *)
(***************************************************************************)

\* At most one session runs turns.
OneSession == \A s, u \in Sessions : s = u

\* What was handed to the session and is pending still is marked, and so not drained again.
HandedInv ==
  /\ \A t \in Task : t > created => handed[t] = 0
  /\ \A t \in Task : handed[t] <= 1
  /\ \A t \in ToSet(pending) : handed[t] > 0 => idOf[t] \in processing
  /\ \A s \in Sessions : \A t \in ToSet(held[s]) : handed[t] = 0
  /\ \A s \in Sessions :
       spc[s] = "marked" /\ Head(held[s]) \in ToSet(pending) => idOf[Head(held[s])] \in processing

\* Nothing happens to what was handed over, or may be.
HandedAlone ==
  /\ UNCHANGED <<created, idOf, held, handed>>
  /\ \A s \in Sessions : spc'[s] = "marked" => spc[s] = "marked"

\* A step that leaves the queue alone, too, changes nothing of this.
LEMMA HandedFrame ==
  ASSUME HandedInv, HandedAlone, UNCHANGED <<pending, processing>>
  PROVE  HandedInv'
BY DEF HandedInv, HandedAlone

\* A mark goes with its task.
LEMMA HandedRetired ==
  ASSUME TypeOK, Apart, HandedInv, HandedAlone, NEW i \in TaskIds, NEW k \in DOMAIN pending,
         NEW filed, NEW state, Retire(i, k, filed, state)
  PROVE  HandedInv'
<1>1. /\ pending' = RemoveAt(pending, k) /\ processing' = processing \ {i} /\ idOf[pending[k]] = i
      /\ pending \in Seq(1 .. created) /\ k \in 1 .. Len(pending) /\ pending[k] \in ToSet(pending)
  BY CreatedAreTasks DEF Retire, MarkDiscarded, TypeOK, ToSet
<1>2. ToSet(pending') = ToSet(pending) \ {pending[k]}
  BY <1>1, OnceRemoved DEF Apart
<1>3. \A t \in ToSet(pending') : t \in ToSet(pending) /\ idOf[t] # i
  BY <1>1, <1>2, OnceMeans DEF Apart
<1> QED
  BY <1>1, <1>3 DEF HandedInv, HandedAlone

\* The steps of requests, cancels, deliveries and the watchdog.
LEMMA HandedByOthers ==
  ASSUME LInv, Apart, HandedInv, LNext, ~ \E s \in Sessions : Turn(s)
  PROVE  HandedInv'
<1> USE LifecycleAssumption DEF LifecycleAssumption
<1>0. TypeOK /\ created \in Nat
  BY CreatedAreTasks DEF LInv, LTypeOK
<1>1. ASSUME NEW r \in Requests, Accept(r)
      PROVE  HandedInv'
  <2>1. /\ created' = created + 1 /\ idOf' = [idOf EXCEPT ![created + 1] = Wants[r]]
        /\ pending' = Append(pending, created + 1) /\ created < MaxTasks
        /\ UNCHANGED <<processing, held, handed, spc>>
    BY <1>1 DEF Accept, Enqueue, sessionVars
  <2>2. /\ pending \in Seq(1 .. created) /\ ToSet(pending) \subseteq 1 .. created /\ 1 .. created \subseteq Task
        /\ created + 1 \in Task /\ \A t \in 1 .. created : idOf'[t] = idOf[t]
    BY <1>0, <2>1, CreatedAreTasks, QueueAssumption DEF QueueAssumption, TypeOK, Task
  <2>3. ToSet(pending') = ToSet(pending) \cup {created + 1}
    <3>1. pending \in Seq(Nat) /\ created + 1 \in Nat
      BY <1>0, <2>2, SeqMonotonic
    <3> QED
      BY <2>1, <3>1, AppendMembers
  <2>4. handed[created + 1] = 0
    BY <1>0, <2>2 DEF HandedInv
  <2>5. \A t \in ToSet(pending') : handed[t] > 0 => idOf'[t] \in processing
    BY <2>2, <2>3, <2>4 DEF HandedInv
  <2>6. ASSUME NEW s \in Sessions, spc[s] = "marked", Head(held[s]) \in ToSet(pending')
        PROVE  idOf'[Head(held[s])] \in processing
    <3>1. Head(held[s]) \in 1 .. created
      BY <2>6, HeadIsTask DEF LInv, HoldsWork
    <3> QED
      BY <1>0, <2>2, <2>3, <2>6, <3>1 DEF HandedInv
  <2>7. \A t \in Task : t > created' => handed[t] = 0
    BY <1>0, <2>1 DEF HandedInv, Task
  <2> QED
    BY <2>1, <2>5, <2>6, <2>7 DEF HandedInv
<1>2. ASSUME NEW c \in Cancels, CancelTask(c)
      PROVE  HandedInv'
  <2>1. HandedAlone
    BY <1>2 DEF CancelTask, Cancel, Retire, HandedAlone, sessionVars, qvars, objects
  <2>2. CASE UNCHANGED qvars
    BY <2>1, <2>2, HandedFrame DEF qvars
  <2>3. CASE Cancel(Kills[c])
    BY <1>0, <2>1, <2>3, HandedRetired DEF Cancel
  <2> QED
    BY <1>2, <2>2, <2>3 DEF CancelTask
<1>3. ASSUME NEW r \in Requests, CheckCollision(r) \/ Busy(r) \/ Reply(r) \/ TimeOut(r) \/ Abandon(r)
      PROVE  HandedAlone /\ UNCHANGED <<pending, processing>>
  BY <1>3 DEF CheckCollision, Busy, Reply, TimeOut, Abandon, GiveUp, HandedAlone, sessionVars, qvars, objects
<1>4. ASSUME NEW c \in Cancels, CancelCheck(c)
      PROVE  HandedAlone /\ UNCHANGED <<pending, processing>>
  BY <1>4 DEF CancelCheck, HandedAlone, sessionVars, qvars, objects
<1>5. ASSUME NEW t \in Task, Delivered(t) \/ DeliveryFailed(t) \/ WriteFailure(t)
      PROVE  HandedAlone /\ UNCHANGED <<pending, processing>>
  BY <1>5 DEF Delivered, DeliveryFailed, WriteFailure, FailResponse, HandedAlone, sessionVars, qvars, objects
<1>6. ASSUME Age \/ MarkOrphaned \/ \E t \in Task : ScanFinds(t)
      PROVE  HandedAlone /\ UNCHANGED <<pending, processing>>
  BY <1>6 DEF Age, MarkOrphaned, ScanFinds, FailResponse, HandedAlone, sessionVars, qvars, objects
<1> QED
  BY <1>1, <1>2, <1>3, <1>4, <1>5, <1>6, HandedFrame DEF LNext, SendMessage

\* The steps of a turn.
LEMMA HandedByTurn ==
  ASSUME OneSession, LInv, Apart, HandedInv, NEW s \in Sessions, Turn(s)
  PROVE  HandedInv'
<1> USE LifecycleAssumption DEF LifecycleAssumption
<1>0. /\ TypeOK /\ created \in Nat /\ \A u \in Sessions : u = s
      /\ held \in [Sessions -> Seq(1 .. created)] /\ spc \in [Sessions -> SessionPhase]
      /\ handed \in [Task -> Nat] /\ 1 .. created \subseteq Task
  BY CreatedAreTasks DEF OneSession, LInv, LTypeOK, TypeOK, SessionPhase
<1>1. CASE PreDrain(s)
  <2> DEFINE idle == {t \in ToSet(pending) : idOf[t] \notin processing}
  <2>1. PICK q \in InOrder(pending, idle) :
           /\ held' = [held EXCEPT ![s] = q]
           /\ UNCHANGED <<created, idOf, pending, processing, handed>>
    BY <1>1 DEF PreDrain, Drain, objects
  <2>2. idle \in SUBSET (1 .. created)
    BY <1>0, CreatedAreTasks
  <2>3. ToSet(q) \subseteq idle
    BY <1>0, <2>2, InOrderTyped
  <2>4. ASSUME NEW t \in ToSet(q)
        PROVE  handed[t] = 0
    <3>1. t \in ToSet(pending) /\ idOf[t] \notin processing
      BY <2>3
    <3>2. handed[t] \in Nat
      BY <1>0, <2>2, <2>3
    <3> QED
      BY <3>1, <3>2 DEF HandedInv
  <2>5. held'[s] = q /\ spc'[s] # "marked"
    BY <1>0, <1>1, <2>1 DEF PreDrain, SessionMoves
  <2> QED
    BY <1>0, <2>1, <2>4, <2>5 DEF HandedInv
<1>2. CASE PreMark(s)
  <2> DEFINE t == Head(held[s])
  <2>1. UNCHANGED <<created, idOf, pending, held, handed>>
    BY <1>2 DEF PreMark, MarkProcessing, qvars, objects
  <2>2. processing \subseteq processing' /\ (idOf[t] \in PendingIds => idOf[t] \in processing')
    BY <1>2 DEF PreMark, MarkProcessing, qvars
  <2>3. t \in ToSet(pending) => idOf[t] \in PendingIds
    BY DEF PendingIds, IdsOf
  <2> QED
    BY <1>0, <2>1, <2>2, <2>3 DEF HandedInv
<1>3. CASE PreInject(s)
  <2> DEFINE t == Head(held[s])
             gone == {u \in ToSet(Tail(held[s])) : idOf[u] \notin PendingIds /\ idOf[u] \notin processing}
  <2>1. PICK q \in InOrder(held[s], gone) :
           /\ pending' = pending \o q /\ held' = [held EXCEPT ![s] = <<>>]
           /\ UNCHANGED <<created, idOf, processing>>
           /\ handed' = [handed EXCEPT ![t] = @ + 1]
           /\ spc[s] = "marked" /\ spc' = [spc EXCEPT ![s] = "thinking"]
    BY <1>3 DEF PreInject, Requeue, objects, SessionMoves
  <2>2. held[s] \in Seq(1 .. created) /\ held[s] # <<>> /\ OnceIn(held[s], idOf)
    BY <1>0, <1>3 DEF PreInject, Requeue, Apart
  <2>3. /\ ToSet(Tail(held[s])) \subseteq ToSet(held[s]) /\ ToSet(held[s]) \subseteq 1 .. created
        /\ t \in ToSet(held[s]) /\ t \notin ToSet(Tail(held[s]))
    BY <2>2, HeadIsNotBehind, MembersTyped
  <2>4. gone \in SUBSET (1 .. created)
    BY <2>3
  <2>5. q \in Seq(1 .. created) /\ ToSet(q) \subseteq gone
    BY <1>0, <2>4, InOrderTyped
  <2>6. ToSet(pending') = ToSet(pending) \cup ToSet(q)
    BY <1>0, <2>1, <2>5, ConcatMembers DEF TypeOK
  <2>7. t \in Task /\ handed[t] = 0 /\ t <= created
    BY <1>0, <2>3 DEF HandedInv
  <2>8. handed'[t] = 1 /\ \A u \in Task : u # t => handed'[u] = handed[u]
    BY <1>0, <2>1, <2>7
  <2>9. t \in ToSet(pending) => idOf[t] \in processing
    BY <2>1 DEF HandedInv
  <2>10. ASSUME NEW u \in ToSet(pending'), handed'[u] > 0
         PROVE  idOf[u] \in processing
    <3>1. u \in Task
      BY <1>0, <2>3, <2>5, <2>6, CreatedAreTasks
    <3>2. CASE u = t
      BY <2>3, <2>5, <2>6, <2>9, <3>2
    <3>3. CASE u # t
      BY <2>3, <2>5, <2>6, <2>8, <2>10, <3>1, <3>3 DEF HandedInv
    <3> QED
      BY <3>2, <3>3
  <2>11. \A v \in Sessions : held'[v] = <<>> /\ spc'[v] # "marked"
    BY <1>0, <2>1
  <2>12. ToSet(<<>>) = {}
    BY DEF ToSet
  <2>13. \A u \in Task : (u > created => handed'[u] = 0) /\ handed'[u] <= 1
    BY <1>0, <2>7, <2>8 DEF HandedInv, Task
  <2> QED
    BY <2>1, <2>10, <2>11, <2>12, <2>13 DEF HandedInv
<1>4. CASE PostComplete(s)
  <2>1. HandedAlone
    BY <1>0, <1>4 DEF PostComplete, SessionMoves, Complete, Retire, HandedAlone, qvars, objects
  <2>2. CASE UNCHANGED qvars
    BY <2>1, <2>2, HandedFrame DEF qvars
  <2>3. CASE target[s] \in PendingIds /\ Complete(target[s], TextOf(s))
    BY <1>0, <2>1, <2>3, HandedRetired, PendingIsNamed DEF Complete
  <2> QED
    BY <1>4, <2>2, <2>3 DEF PostComplete
<1>5. CASE PreTransition(s) \/ Skip(s) \/ PostTarget(s) \/ PostNoTarget(s)
  <2>1. UNCHANGED <<created, idOf, pending, processing, held, handed>>
    BY <1>5 DEF PreTransition, Transition, Skip, PostTarget, PostNoTarget, qvars, objects
  <2>2. spc'[s] # "marked"
    BY <1>0, <1>5 DEF PreTransition, Skip, PostTarget, PostNoTarget, SessionMoves
  <2> QED
    BY <1>0, <2>1, <2>2 DEF HandedInv
<1> QED
  BY <1>1, <1>2, <1>3, <1>4, <1>5 DEF Turn

\* Every step of the server keeps it.
LEMMA HandedStep ==
  ASSUME OneSession, LInv, Apart, HandedInv, [LNext]_vars
  PROVE  HandedInv'
<1>1. CASE UNCHANGED vars
  BY <1>1, HandedFrame DEF vars, qvars, objects, sessionVars, HandedAlone
<1> QED
  BY <1>1, HandedByOthers, HandedByTurn

\* No task's text is given to the agent twice if one session runs its turns, whatever
\* is cancelled, put back or enqueued again under the same id meanwhile.
THEOREM TasksAreHandedOnce == ASSUME OneSession PROVE LSpec => []HandedOnce
<1>1. LInit => Apart /\ HandedInv
  BY LifecycleAssumption DEF LifecycleAssumption, LInit, Init, Apart, OnceIn, HandedInv, ToSet
<1>2. LInv /\ Apart /\ HandedInv /\ [LNext]_vars => (Apart /\ HandedInv)'
  BY ServerStep, ApartStep, HandedStep DEF LInv, LTypeOK
<1>3. HandedInv => HandedOnce
  BY DEF HandedInv, HandedOnce
<1> QED
  BY <1>1, <1>2, <1>3, ServerSafe, PTL DEF LSpec

-----------------------------------------------------------------------------
(***************************************************************************)
(* An answer is the task's own, if post_llm_call finds the task its turn is *)
(* about and no id is used twice.                                          *)
(***************************************************************************)

\* Every request asks for an id of its own.
OwnIds == \A r, q \in Requests : Wants[r] = Wants[q] => r = q

\* post_llm_call finds the task of its turn: it is told, or only one task can be marked.
TurnsFindTask == PassesTaskId \/ (OneSession /\ ~ MaySkip)

\* Every task is the one some request enqueued, under the id it asked for.
Asked ==
  /\ \A r \in Requests : rtask[r] # 0 <=> rpc[r] \in {"waiting", "late", "completed", "working"}
  /\ \A r \in Requests : rtask[r] # 0 => idOf[rtask[r]] = Wants[r]
  /\ \A t \in 1 .. created : \E r \in Requests : rtask[r] = t

\* The watchdog gets to a task when nobody waits for it any more.
InTime ==
  /\ \A t \in Task : response[t] = Orphaned => t <= aged
  /\ \A r \in Requests : rtask[r] <= aged => rpc[r] \notin {"waiting", "late"}
  /\ scan <= aged

\* What post_llm_call is about to complete is what its turn was about.
Aimed ==
  \A s \in Sessions : spc[s] = "answering" =>
    \/ PassesTaskId /\ target[s] = NoId
    \/ injected[s] # 0 /\ target[s] = idOf[injected[s]]

\* Unless the host names the task: the only mark is that of the turn's task.
Marked ==
  ~ PassesTaskId =>
    \A s \in Sessions :
      /\ spc[s] \in {"idle", "drained", "working"} => processing = {}
      /\ spc[s] = "marked" => \A i \in processing : i = idOf[Head(held[s])]
      /\ spc[s] \in {"idle", "drained", "working", "marked"} => injected[s] = 0
      /\ spc[s] \in {"thinking", "rereading", "answering"} =>
           \A i \in processing : injected[s] # 0 /\ i = idOf[injected[s]]

\* Answers are for the task they were prompted by.
Texts == \A t \in Task : response[t] \in Answers => response[t] = t

AnswerInv == Asked /\ InTime /\ Aimed /\ Marked /\ Texts /\ AnswerIsMine

-----------------------------------------------------------------------------
\* Different tasks have different ids then.
LEMMA IdsApart ==
  ASSUME OwnIds, Asked
  PROVE  \A t, u \in 1 .. created : idOf[t] = idOf[u] => t = u
<1> SUFFICES ASSUME NEW t \in 1 .. created, NEW u \in 1 .. created, idOf[t] = idOf[u]
             PROVE  t = u
  OBVIOUS
<1>1. PICK r \in Requests : rtask[r] = t
  BY DEF Asked
<1>2. PICK q \in Requests : rtask[q] = u
  BY DEF Asked
<1>3. t # 0 /\ u # 0
  OBVIOUS
<1> QED
  BY <1>1, <1>2, <1>3 DEF Asked, OwnIds

\* Only requests ask.
LEMMA OthersAskNothing ==
  ASSUME LInv, [LNext]_vars, ~ \E r \in Requests : SendMessage(r)
  PROVE  UNCHANGED <<requestVars, created, idOf>>
<1>1. ASSUME NEW s \in Sessions, Turn(s)
      PROVE  UNCHANGED <<requestVars, created, idOf>>
  BY <1>1 DEF Turn, PreDrain, Drain, PreTransition, Transition, PreMark, MarkProcessing, PreInject, Requeue,
              Skip, PostTarget, PostNoTarget, PostComplete, Complete, Retire, qvars, objects
<1>2. ASSUME NEW c \in Cancels, CancelCheck(c) \/ CancelTask(c)
      PROVE  UNCHANGED <<requestVars, created, idOf>>
  BY <1>2 DEF CancelCheck, CancelTask, Cancel, Retire, qvars, objects
<1>3. ASSUME NEW t \in Task, Delivered(t) \/ DeliveryFailed(t) \/ WriteFailure(t)
      PROVE  UNCHANGED <<requestVars, created, idOf>>
  BY <1>3 DEF Delivered, DeliveryFailed, WriteFailure, FailResponse, qvars, objects
<1>4. ASSUME Age \/ MarkOrphaned \/ \E t \in Task : ScanFinds(t)
      PROVE  UNCHANGED <<requestVars, created, idOf>>
  BY <1>4 DEF Age, MarkOrphaned, ScanFinds, FailResponse, qvars, objects
<1>5. CASE UNCHANGED vars
  BY <1>5 DEF vars, qvars, objects
<1> QED
  BY <1>1, <1>2, <1>3, <1>4, <1>5 DEF LNext

\* What requests do besides Accept.
LEMMA RequestGoes ==
  ASSUME LInv, NEW r \in Requests, SendMessage(r), ~ Accept(r)
  PROVE  /\ UNCHANGED <<created, idOf, response, pending, processing, held, rtask, sessionVars, watchdogVars>>
         /\ \/ /\ rpc[r] \in {"received", "checked"}
               /\ \E to \in {"conflict", "checked", "busy"} : rpc' = [rpc EXCEPT ![r] = to]
               /\ reply' = reply
            \/ /\ rpc[r] \in {"waiting", "late"}
               /\ \E to \in {"late", "working"} : rpc' = [rpc EXCEPT ![r] = to]
               /\ reply' = reply
            \/ Reply(r)
BY DEF SendMessage, CheckCollision, Busy, Reply, TimeOut, Abandon, GiveUp, RequestMoves, qvars, objects

\* What Accept does.
LEMMA AcceptDoes ==
  ASSUME LInv, NEW r \in Requests, Accept(r)
  PROVE  /\ created \in Nat /\ created' = created + 1 /\ 1 .. created \subseteq Task /\ created + 1 \in Task
         /\ idOf' = [idOf EXCEPT ![created + 1] = Wants[r]]
         /\ idOf'[created + 1] = Wants[r] /\ \A t \in 1 .. created : idOf'[t] = idOf[t]
         /\ rpc[r] = "checked" /\ rpc' = [rpc EXCEPT ![r] = "waiting"]
         /\ rtask' = [rtask EXCEPT ![r] = created + 1]
         /\ UNCHANGED <<response, processing, held, reply, sessionVars, watchdogVars>>
<1>1. /\ rpc[r] = "checked" /\ rpc' = [rpc EXCEPT ![r] = "waiting"]
      /\ idOf' = [idOf EXCEPT ![created + 1] = Wants[r]] /\ created' = created + 1 /\ created < MaxTasks
      /\ rtask' = [rtask EXCEPT ![r] = created + 1]
      /\ UNCHANGED <<response, processing, held, reply, sessionVars, watchdogVars>>
  BY DEF Accept, RequestMoves, Enqueue
<1>2. created \in Nat /\ 1 .. created \subseteq Task /\ idOf \in [Task -> TaskIds \cup {NoId}]
  BY CreatedAreTasks DEF LInv, LTypeOK, TypeOK
<1>3. created + 1 \in Task
  BY <1>1, <1>2, QueueAssumption DEF QueueAssumption, Task
<1> QED
  BY <1>1, <1>2, <1>3

\* Accept adds one task for the one request that had none.
LEMMA AskedStep ==
  ASSUME LInv, Asked, [LNext]_vars
  PROVE  Asked'
<1>0. rpc \in [Requests -> {"received", "checked", "waiting", "late", "conflict", "busy", "working", "completed"}]
      /\ rtask \in [Requests -> 0 .. created]
  BY DEF LInv, LTypeOK
<1>1. CASE ~ \E r \in Requests : SendMessage(r)
  BY <1>1, OthersAskNothing DEF Asked, requestVars
<1>2. ASSUME NEW r \in Requests, Accept(r)
      PROVE  Asked'
  <2>1. rtask[r] = 0 /\ rpc'[r] = "waiting" /\ rtask'[r] = created + 1 /\ created + 1 # 0
    BY <1>0, <1>2, AcceptDoes DEF Asked
  <2>2. \A q \in Requests \ {r} : rpc'[q] = rpc[q] /\ rtask'[q] = rtask[q]
    BY <1>0, <1>2, AcceptDoes
  <2>3. \A q \in Requests : rtask'[q] # 0 => idOf'[rtask'[q]] = Wants[q]
    BY <1>0, <1>2, <2>1, <2>2, AcceptDoes DEF Asked
  <2>4. ASSUME NEW t \in 1 .. created'
        PROVE  \E q \in Requests : rtask'[q] = t
    <3>1. CASE t = created + 1
      BY <2>1, <3>1
    <3>2. CASE t # created + 1
      <4>1. t \in 1 .. created
        BY <1>2, <3>2, AcceptDoes
      <4>2. PICK q \in Requests : rtask[q] = t
        BY <4>1 DEF Asked
      <4> QED
        BY <2>1, <2>2, <4>1, <4>2
    <3> QED
      BY <3>1, <3>2
  <2> QED
    BY <2>1, <2>2, <2>3, <2>4 DEF Asked
<1>3. ASSUME NEW r \in Requests, SendMessage(r), ~ Accept(r)
      PROVE  Asked'
  BY <1>0, <1>3, RequestGoes DEF Asked, Reply, RequestMoves
<1> QED
  BY <1>1, <1>2, <1>3

-----------------------------------------------------------------------------
\* What is written into tasks: by complete and cancel, and without the lock.
Writes(t, a) == t \in 1 .. created /\ response' = [response EXCEPT ![t] = a]

\* An answer is written only by a turn, the watchdog's text only by the watchdog.
LEMMA ResponseStep ==
  ASSUME LInv, [LNext]_vars
  PROVE  \/ response' = response
         \/ \E t \in Task : Writes(t, Canceled) \/ Writes(t, WebhookFailed)
         \/ scan # 0 /\ Writes(scan, Orphaned) /\ aged' = aged
         \/ \E s \in Sessions : \E t \in Task :
              PostComplete(s) /\ Writes(t, TextOf(s)) /\ idOf[t] = target[s] /\ target[s] \in PendingIds
<1> USE LifecycleAssumption DEF LifecycleAssumption
<1>0. /\ TypeOK /\ 1 .. created \subseteq Task /\ \A k \in DOMAIN pending : pending[k] \in 1 .. created
      /\ created \in Nat
  BY CreatedAreTasks DEF LInv, LTypeOK
<1>1. ASSUME NEW c \in Cancels, CancelTask(c), response' # response
      PROVE  \E t \in Task : Writes(t, Canceled)
  BY <1>0, <1>1 DEF CancelTask, Cancel, Writes, qvars, objects
<1>2. ASSUME NEW s \in Sessions, PostComplete(s), response' # response
      PROVE  \E t \in Task : Writes(t, TextOf(s)) /\ idOf[t] = target[s] /\ target[s] \in PendingIds
  <2>1. target[s] \in PendingIds /\ Complete(target[s], TextOf(s))
    BY <1>2 DEF PostComplete, qvars, objects
  <2>2. PICK k \in DOMAIN pending :
           /\ response' = Answered(pending[k], TextOf(s)) /\ idOf[pending[k]] = target[s]
    BY <2>1 DEF Complete, Retire
  <2> QED
    BY <1>0, <1>2, <2>1, <2>2 DEF Answered, Writes
<1>3. ASSUME NEW s \in Sessions, Turn(s), ~ PostComplete(s)
      PROVE  response' = response
  BY <1>3 DEF Turn, PreDrain, Drain, PreTransition, Transition, PreMark, MarkProcessing, PreInject, Requeue,
              Skip, PostTarget, PostNoTarget, qvars, objects
<1>4. ASSUME NEW t \in Task, WriteFailure(t)
      PROVE  Writes(hit[t], WebhookFailed) /\ hit[t] \in Task
  <2>1. hit[t] \in 1 .. created /\ response' = [response EXCEPT ![hit[t]] = WebhookFailed]
    BY <1>4 DEF WriteFailure, FailResponse
  <2> QED
    BY <1>0, <2>1 DEF Writes
<1>5. ASSUME MarkOrphaned
      PROVE  scan # 0 /\ Writes(scan, Orphaned) /\ aged' = aged
  BY <1>5 DEF MarkOrphaned, FailResponse, Writes
<1>6. ASSUME NEW t \in Task, Delivered(t) \/ DeliveryFailed(t) \/ ScanFinds(t)
      PROVE  response' = response
  BY <1>6 DEF Delivered, DeliveryFailed, ScanFinds, qvars, objects
<1>7. ASSUME NEW r \in Requests, SendMessage(r)
      PROVE  response' = response
  BY <1>7, RequestGoes, AcceptDoes
<1>8. ASSUME NEW c \in Cancels, CancelCheck(c)
      PROVE  response' = response
  BY <1>8 DEF CancelCheck, qvars, objects
<1>9. CASE Age \/ UNCHANGED vars
  BY <1>9 DEF Age, vars, qvars, objects
<1> QED
  BY <1>1, <1>2, <1>3, <1>4, <1>5, <1>6, <1>7, <1>8, <1>9 DEF LNext

\* The numbers that stand for failures are no answers.
LEMMA NoAnswers ==
  /\ Canceled \notin Answers /\ WebhookFailed \notin Answers /\ Orphaned \notin Answers
  /\ Canceled # Orphaned /\ WebhookFailed # Orphaned /\ NoResponse # Orphaned /\ NoResponse \notin Answers
BY QueueAssumption DEF QueueAssumption, Canceled, WebhookFailed, Orphaned, NoResponse

\* No request waits for a task that is old, and only old ones are written.
LEMMA InTimeStep ==
  ASSUME LInv, InTime, [LNext]_vars
  PROVE  InTime'
<1>0. /\ aged \in Nat /\ aged <= created /\ created \in Nat /\ scan \in Nat
      /\ rpc \in [Requests -> {"received", "checked", "waiting", "late", "conflict", "busy", "working", "completed"}]
      /\ rtask \in [Requests -> 0 .. created] /\ response \in [Task -> Response]
  BY DEF LInv, LTypeOK, TypeOK
<1>1. /\ aged' \in Nat /\ aged <= aged' /\ scan' <= aged'
      /\ \A r \in Requests : rtask[r] <= aged' => rpc[r] \notin {"waiting", "late"}
  <2>1. CASE Age
    <3>1. /\ aged' = aged + 1 /\ scan' = scan
          /\ \A r \in Requests : rtask[r] = aged + 1 => rpc[r] \notin {"waiting", "late"}
      BY <2>1 DEF Age
    <3>2. \A r \in Requests : rtask[r] <= aged' => rtask[r] <= aged \/ rtask[r] = aged + 1
      BY <1>0, <3>1
    <3> QED
      BY <1>0, <3>1, <3>2 DEF InTime
  <2>2. CASE MarkOrphaned
    BY <1>0, <2>2 DEF MarkOrphaned, InTime
  <2>3. ASSUME NEW t \in Task, ScanFinds(t)
        PROVE  aged' = aged /\ scan' <= aged
    BY <2>3 DEF ScanFinds
  <2>4. CASE UNCHANGED watchdogVars
    BY <1>0, <2>4 DEF watchdogVars, InTime
  <2>5. Age \/ MarkOrphaned \/ (\E t \in Task : ScanFinds(t)) \/ UNCHANGED watchdogVars
    <3>1. ASSUME NEW r \in Requests, SendMessage(r)
          PROVE  UNCHANGED watchdogVars
      BY <3>1, RequestGoes, AcceptDoes
    <3>2. ASSUME NEW c \in Cancels, CancelCheck(c) \/ CancelTask(c)
          PROVE  UNCHANGED watchdogVars
      BY <3>2 DEF CancelCheck, CancelTask
    <3>3. ASSUME NEW s \in Sessions, Turn(s)
          PROVE  UNCHANGED watchdogVars
      BY <3>3 DEF Turn, PreDrain, PreTransition, PreMark, PreInject, Skip, PostTarget, PostNoTarget, PostComplete
    <3>4. ASSUME NEW t \in Task, Delivered(t) \/ DeliveryFailed(t) \/ WriteFailure(t)
          PROVE  UNCHANGED watchdogVars
      BY <3>4 DEF Delivered, DeliveryFailed, WriteFailure
    <3> QED
      BY <3>1, <3>2, <3>3, <3>4 DEF LNext, vars
  <2> QED
    BY <1>0, <2>1, <2>2, <2>3, <2>4, <2>5 DEF InTime
<1>2. \A r \in Requests : rtask'[r] <= aged' => rpc'[r] \notin {"waiting", "late"}
  <2>1. ASSUME NEW r \in Requests, SendMessage(r)
        PROVE  aged' = aged
    BY <2>1, RequestGoes, AcceptDoes DEF watchdogVars
  <2>2. ASSUME NEW r \in Requests, Accept(r), NEW q \in Requests, rtask'[q] <= aged'
        PROVE  rpc'[q] \notin {"waiting", "late"}
    <3>1. aged' = aged
      BY <2>1, <2>2 DEF SendMessage
    <3>2. CASE q = r
      BY <1>0, <2>2, <3>1, <3>2, AcceptDoes
    <3>3. CASE q # r
      BY <1>0, <1>1, <2>2, <3>3, AcceptDoes
    <3> QED
      BY <3>2, <3>3
  <2>3. ASSUME NEW r \in Requests, SendMessage(r), ~ Accept(r), NEW q \in Requests, rtask'[q] <= aged'
        PROVE  rpc'[q] \notin {"waiting", "late"}
    BY <1>0, <1>1, <2>3, RequestGoes DEF Reply, RequestMoves
  <2>4. CASE ~ \E r \in Requests : SendMessage(r)
    BY <1>1, <2>4, OthersAskNothing DEF requestVars
  <2> QED
    BY <2>2, <2>3, <2>4 DEF SendMessage
<1>3. \A t \in Task : response'[t] = Orphaned => t <= aged'
  <2>1. ASSUME NEW u \in Task, NEW a, Writes(u, a), a # Orphaned, NEW t \in Task, response'[t] = Orphaned
        PROVE  response[t] = Orphaned
    BY <1>0, <2>1 DEF Writes
  <2>2. ASSUME scan # 0, Writes(scan, Orphaned), NEW t \in Task, response'[t] = Orphaned
        PROVE  response[t] = Orphaned \/ t <= aged
    BY <1>0, <2>2 DEF Writes, InTime
  <2>3. ASSUME NEW s \in Sessions
        PROVE  TextOf(s) # Orphaned
    <3>1. injected[s] \in 0 .. created /\ MaxTasks \in Nat
      BY <2>3, QueueAssumption DEF QueueAssumption, LInv, LTypeOK
    <3> QED
      BY <1>0, <3>1 DEF TextOf, UserText, Orphaned
  <2>4. ASSUME NEW t \in Task, response[t] = Orphaned
        PROVE  t <= aged'
    <3>1. t \in Nat /\ t <= aged
      BY <2>4, QueueAssumption DEF QueueAssumption, InTime, Task
    <3> QED
      BY <1>0, <1>1, <3>1
  <2>5. ASSUME NEW t \in Task, response'[t] = Orphaned
        PROVE  response[t] = Orphaned \/ (t <= aged /\ aged' = aged)
    BY <2>1, <2>2, <2>3, <2>5, ResponseStep, NoAnswers
  <2> QED
    BY <2>4, <2>5
<1> QED
  BY <1>1, <1>2, <1>3 DEF InTime

\* Marks may go, and the sessions stay where they are.
MarksOnlyGo ==
  /\ processing' \subseteq processing /\ UNCHANGED <<held, injected, target, spc>>
  /\ \A t \in 1 .. created : idOf'[t] = idOf[t]

\* Others take marks away, at most.
LEMMA OthersMarkNothing ==
  ASSUME LInv, [LNext]_vars, ~ \E s \in Sessions : Turn(s)
  PROVE  MarksOnlyGo
<1>1. ASSUME NEW r \in Requests, Accept(r)
      PROVE  MarksOnlyGo
  BY <1>1, AcceptDoes DEF MarksOnlyGo, sessionVars
<1>2. ASSUME NEW r \in Requests, SendMessage(r), ~ Accept(r)
      PROVE  MarksOnlyGo
  BY <1>2, RequestGoes DEF MarksOnlyGo, sessionVars
<1>3. ASSUME NEW c \in Cancels, CancelCheck(c) \/ CancelTask(c)
      PROVE  MarksOnlyGo
  BY <1>3 DEF CancelCheck, CancelTask, Cancel, Retire, MarkDiscarded, qvars, objects, MarksOnlyGo, sessionVars
<1>4. ASSUME NEW t \in Task, Delivered(t) \/ DeliveryFailed(t) \/ WriteFailure(t) \/ ScanFinds(t)
      PROVE  MarksOnlyGo
  BY <1>4 DEF Delivered, DeliveryFailed, WriteFailure, ScanFinds, FailResponse, qvars, objects, MarksOnlyGo, sessionVars
<1>5. CASE Age \/ MarkOrphaned
  BY <1>5 DEF Age, MarkOrphaned, FailResponse, qvars, objects, MarksOnlyGo, sessionVars
<1>6. CASE UNCHANGED vars
  BY <1>6 DEF vars, qvars, objects, MarksOnlyGo, sessionVars
<1> QED
  BY <1>1, <1>2, <1>3, <1>4, <1>5, <1>6 DEF LNext

\* What a turn is about to complete was read as its task's id.
LEMMA AimedStep ==
  ASSUME TurnsFindTask, LInv, Aimed, Marked, [LNext]_vars
  PROVE  Aimed'
<1>0. /\ spc \in [Sessions -> SessionPhase] /\ injected \in [Sessions -> 0 .. created]
      /\ target \in [Sessions -> TaskIds \cup {NoId}] /\ created \in Nat
  BY CreatedAreTasks DEF LInv, LTypeOK, SessionPhase
<1>1. CASE ~ \E s \in Sessions : Turn(s)
  <2>1. \A s \in Sessions : injected[s] # 0 => idOf'[injected[s]] = idOf[injected[s]]
    BY <1>0, <1>1, OthersMarkNothing DEF MarksOnlyGo
  <2> QED
    BY <1>1, <2>1, OthersMarkNothing DEF Aimed, MarksOnlyGo
<1>2. ASSUME NEW s \in Sessions, PostTarget(s)
      PROVE  Aimed'
  <2>1. PICK i \in Candidates(s) :
           /\ spc[s] \in {"thinking", "rereading"}
           /\ spc' = [spc EXCEPT ![s] = "answering"] /\ target' = [target EXCEPT ![s] = i]
           /\ UNCHANGED <<idOf, injected>>
    BY <1>2 DEF PostTarget, SessionMoves, qvars, objects
  <2>2. \/ PassesTaskId /\ i = NoId
        \/ injected[s] # 0 /\ i = idOf[injected[s]]
    BY <2>1 DEF Candidates, Marked
  <2> QED
    BY <1>0, <2>1, <2>2 DEF Aimed
<1>3. ASSUME NEW s \in Sessions, Turn(s), ~ PostTarget(s)
      PROVE  Aimed'
  <2>1. /\ UNCHANGED idOf /\ spc'[s] # "answering"
        /\ \A u \in Sessions \ {s} : spc'[u] = spc[u] /\ injected'[u] = injected[u] /\ target'[u] = target[u]
    BY <1>0, <1>3 DEF Turn, PreDrain, Drain, PreTransition, Transition, PreMark, MarkProcessing, PreInject, Requeue,
              Skip, PostNoTarget, PostComplete, Complete, Retire, SessionMoves, qvars, objects
  <2> QED
    BY <2>1 DEF Aimed
<1> QED
  BY <1>1, <1>2, <1>3 DEF Turn

\* A turn's text is marked, the mark is kept for its turn, and goes with its answer.
LEMMA MarkedStep ==
  ASSUME TurnsFindTask, LInv, ProcessingIsPending, Aimed, Marked, [LNext]_vars
  PROVE  Marked'
<1> SUFFICES ASSUME ~ PassesTaskId
             PROVE  Marked'
  BY DEF Marked
<1> USE LifecycleAssumption DEF LifecycleAssumption
<1>0. /\ spc \in [Sessions -> SessionPhase] /\ injected \in [Sessions -> 0 .. created]
      /\ held \in [Sessions -> Seq(1 .. created)] /\ created \in Nat
      /\ \A s, u \in Sessions : s = u /\ ~ MaySkip
  BY CreatedAreTasks DEF LInv, LTypeOK, TypeOK, SessionPhase, TurnsFindTask, OneSession
<1>1. CASE ~ \E s \in Sessions : Turn(s)
  <2>1. \A s \in Sessions : injected[s] # 0 => idOf'[injected[s]] = idOf[injected[s]]
    BY <1>0, <1>1, OthersMarkNothing DEF MarksOnlyGo
  <2>2. \A s \in Sessions : spc[s] = "marked" => idOf'[Head(held[s])] = idOf[Head(held[s])]
    BY <1>1, OthersMarkNothing, HeadIsTask DEF LInv, HoldsWork, MarksOnlyGo
  <2> QED
    BY <1>1, <2>1, <2>2, OthersMarkNothing DEF Marked, MarksOnlyGo
<1>2. ASSUME NEW s \in Sessions, PreDrain(s)
      PROVE  Marked'
  <2>1. /\ spc[s] = "idle" /\ UNCHANGED <<processing, injected>>
        /\ spc'[s] \in {"drained", "thinking"}
    BY <1>0, <1>2 DEF PreDrain, Drain, SessionMoves
  <2> QED
    BY <1>0, <2>1 DEF Marked
<1>3. ASSUME NEW s \in Sessions, PreTransition(s)
      PROVE  Marked'
  <2>1. spc[s] = "drained" /\ spc'[s] = "working" /\ UNCHANGED <<processing, injected>>
    BY <1>0, <1>3 DEF PreTransition, Transition, SessionMoves, qvars
  <2> QED
    BY <1>0, <2>1 DEF Marked
<1>4. ASSUME NEW s \in Sessions, PreMark(s)
      PROVE  Marked'
  <2> DEFINE i == idOf[Head(held[s])]
  <2>1. /\ spc[s] = "working" /\ spc'[s] = "marked" /\ UNCHANGED <<idOf, held, injected>>
        /\ processing' \subseteq processing \cup {i}
    BY <1>0, <1>4 DEF PreMark, MarkProcessing, SessionMoves, qvars, objects
  <2> QED
    BY <1>0, <2>1 DEF Marked
<1>5. ASSUME NEW s \in Sessions, PreInject(s)
      PROVE  Marked'
  <2> DEFINE t == Head(held[s])
  <2>1. /\ spc[s] = "marked" /\ spc'[s] = "thinking" /\ UNCHANGED <<idOf, processing>>
        /\ injected'[s] = t
    BY <1>0, <1>5 DEF PreInject, Requeue, SessionMoves, objects
  <2>2. t # 0
    BY <1>5, HeadIsTask DEF PreInject, Requeue
  <2> QED
    BY <1>0, <2>1, <2>2 DEF Marked
<1>6. ASSUME NEW s \in Sessions, PostTarget(s)
      PROVE  Marked'
  <2>1. /\ spc[s] \in {"thinking", "rereading"} /\ spc'[s] = "answering" /\ UNCHANGED <<idOf, processing, injected>>
    BY <1>0, <1>6 DEF PostTarget, SessionMoves, qvars, objects
  <2> QED
    BY <1>0, <2>1 DEF Marked
<1>7. ASSUME NEW s \in Sessions, PostNoTarget(s)
      PROVE  Marked'
  <2>1. /\ processing = {} /\ UNCHANGED <<idOf, processing>>
        /\ \/ spc'[s] = "rereading"
           \/ spc'[s] = "idle" /\ injected'[s] = 0
    BY <1>0, <1>7 DEF PostNoTarget, Candidates, SessionMoves, qvars, objects
  <2> QED
    BY <1>0, <2>1 DEF Marked
<1>8. ASSUME NEW s \in Sessions, PostComplete(s)
      PROVE  Marked'
  <2>1. /\ spc[s] = "answering" /\ spc'[s] = "idle" /\ injected'[s] = 0
        /\ \/ processing' = processing \ {target[s]}
           \/ target[s] \notin PendingIds /\ processing' = processing
    BY <1>0, <1>8 DEF PostComplete, Complete, Retire, MarkDiscarded, SessionMoves, qvars
  <2>2. processing \subseteq {target[s]}
    BY <2>1 DEF Marked, Aimed
  <2>3. processing' = {}
    BY <2>1, <2>2 DEF ProcessingIsPending
  <2> QED
    BY <1>0, <2>1, <2>3 DEF Marked
<1> QED
  BY <1>0, <1>1, <1>2, <1>3, <1>4, <1>5, <1>6, <1>7, <1>8 DEF Turn, Skip

\* An answer goes to the task of its turn, as no other has its id.
LEMMA TextsStep ==
  ASSUME OwnIds, LInv, Asked, Aimed, Texts, [LNext]_vars
  PROVE  Texts'
<1>0. /\ response \in [Task -> Response] /\ 1 .. created \subseteq Task
      /\ injected \in [Sessions -> 0 .. created]
  BY CreatedAreTasks DEF LInv, LTypeOK, TypeOK
<1>1. ASSUME NEW s \in Sessions, NEW t \in Task, PostComplete(s), Writes(t, TextOf(s)),
             idOf[t] = target[s], target[s] \in PendingIds
      PROVE  TextOf(s) = t
  <2>1. target[s] # NoId
    BY <1>1, PendingIsNamed, QueueAssumption DEF QueueAssumption
  <2>2. injected[s] # 0 /\ target[s] = idOf[injected[s]]
    BY <1>1, <2>1 DEF PostComplete, SessionMoves, Aimed
  <2>3. injected[s] \in 1 .. created /\ t \in 1 .. created
    BY <1>0, <1>1, <2>2 DEF Writes
  <2>4. injected[s] = t
    BY <1>1, <2>2, <2>3, IdsApart
  <2> QED
    BY <2>2, <2>4 DEF TextOf
<1>2. ASSUME NEW u \in Task, NEW a, Writes(u, a), a \in Answers => a = u
      PROVE  Texts'
  BY <1>0, <1>2 DEF Writes, Texts
<1>3. CASE response' = response
  BY <1>3 DEF Texts
<1>4. CASE scan # 0 /\ Writes(scan, Orphaned)
  BY <1>0, <1>2, <1>4, NoAnswers DEF Writes
<1> QED
  BY <1>1, <1>2, <1>3, <1>4, ResponseStep, NoAnswers

\* What a request answers with is what its task holds then.
LEMMA MineStep ==
  ASSUME LInv, Asked, InTime, Texts, AnswerIsMine, [LNext]_vars
  PROVE  AnswerIsMine'
<1>0. /\ rpc \in [Requests -> {"received", "checked", "waiting", "late", "conflict", "busy", "working", "completed"}]
      /\ rtask \in [Requests -> 0 .. created] /\ reply \in [Requests -> Response]
      /\ 1 .. created \subseteq Task /\ aged \in Nat /\ created \in Nat
  BY CreatedAreTasks DEF LInv, LTypeOK
<1>1. CASE ~ \E r \in Requests : SendMessage(r)
  BY <1>1, OthersAskNothing DEF AnswerIsMine, requestVars
<1>2. ASSUME NEW r \in Requests, Accept(r)
      PROVE  AnswerIsMine'
  <2>1. rpc'[r] = "waiting" /\ reply' = reply
        /\ \A q \in Requests \ {r} : rpc'[q] = rpc[q] /\ rtask'[q] = rtask[q]
    BY <1>0, <1>2, AcceptDoes
  <2> QED
    BY <2>1 DEF AnswerIsMine
<1>3. ASSUME NEW r \in Requests, Reply(r)
      PROVE  AnswerIsMine'
  <2>1. /\ rpc[r] = "waiting" /\ rtask' = rtask /\ reply'[r] = response[rtask[r]]
        /\ \A q \in Requests \ {r} : rpc'[q] = rpc[q] /\ reply'[q] = reply[q]
    BY <1>0, <1>3 DEF Reply, RequestMoves
  <2>2. rtask[r] # 0
    BY <2>1 DEF Asked
  <2>3. rtask[r] \in Task /\ ~ (rtask[r] <= aged)
    BY <1>0, <2>1, <2>2 DEF InTime
  <2>4. reply'[r] # Orphaned /\ (reply'[r] \in Answers => reply'[r] = rtask[r])
    BY <2>1, <2>3 DEF InTime, Texts
  <2> QED
    BY <2>1, <2>4 DEF AnswerIsMine
<1>4. ASSUME NEW r \in Requests, SendMessage(r), ~ Accept(r), ~ Reply(r)
      PROVE  AnswerIsMine'
  <2>1. reply' = reply /\ rtask' = rtask /\ \A q \in Requests : rpc'[q] = "completed" => rpc[q] = "completed"
    BY <1>0, <1>4, RequestGoes
  <2> QED
    BY <2>1 DEF AnswerIsMine
<1> QED
  BY <1>1, <1>2, <1>3, <1>4

\* An answer a client receives was produced for the task it sent, and is not the
\* watchdog's text, if no id is used twice and either the host names the task to
\* post_llm_call, or one session runs turns that all end with an answer.
THEOREM AnswersAreMine == ASSUME OwnIds, TurnsFindTask PROVE LSpec => []AnswerIsMine
<1>1. LInit => AnswerInv
  BY NoAnswers, LifecycleAssumption
     DEF LifecycleAssumption, LInit, Init, AnswerInv, Asked, InTime, Aimed, Marked, Texts, AnswerIsMine, Task
<1>2. LInv /\ QueueInv /\ AnswerInv /\ [LNext]_vars => AnswerInv'
  BY AskedStep, InTimeStep, AimedStep, MarkedStep, TextsStep, MineStep DEF AnswerInv, QueueInv
<1>3. AnswerInv => AnswerIsMine
  BY DEF AnswerInv
<1>4. LSpec => []QueueInv
  <2>1. LSpec => Spec
    BY ServerUsesQueue DEF UsesQueue
  <2> QED
    BY <2>1, QueueSafe, PTL
<1> QED
  BY <1>1, <1>2, <1>3, <1>4, ServerSafe, PTL DEF LSpec

===============================================================================
