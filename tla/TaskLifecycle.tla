---------------------------- MODULE TaskLifecycle ----------------------------
(***************************************************************************)
(* Everything that acts on the task queue of a running A2A server, as      *)
(* threads that interleave at the queue's lock:                            *)
(*                                                                         *)
(*   - request threads serving SendMessage (server.py), each waiting for   *)
(*     its task with a timeout;                                            *)
(*   - request threads serving CancelTask;                                 *)
(*   - agent sessions, one turn at a time each: pre_llm_call, the LLM,     *)
(*     post_llm_call (hooks.py);                                           *)
(*   - one webhook-delivery thread per accepted task (webhook_delivery.py  *)
(*     and its failure callback in server.py);                             *)
(*   - the orphan watchdog (server.py).                                    *)
(*                                                                         *)
(* The queue is the one of module TaskQueue; every step here is a step of  *)
(* TaskQueue!Next or leaves the queue alone.  An answer is the number of   *)
(* the task whose text prompted it.                                        *)
(***************************************************************************)
EXTENDS TaskQueue

CONSTANTS
  Requests,      \* SendMessage calls, each served by a thread of its own
  Wants,         \* Wants[r]: the task id SendMessage call r asks for
  Cancels,       \* CancelTask calls
  Kills,         \* Kills[c]: the task id CancelTask call c names
  Sessions,      \* agent sessions that run turns
  MaySkip,       \* whether a turn may end without an assistant response
  UserTurns,     \* whether sessions also run turns that no task triggered
  PassesTaskId   \* whether the host names the task in post_llm_call

\* The text of a turn that no task was injected into.
UserText == MaxTasks + 1

ASSUME LifecycleAssumption ==
  /\ Drainers = Sessions
  /\ Answers = Task \cup {UserText}
  /\ Wants \in [Requests -> TaskIds]
  /\ Kills \in [Cancels -> TaskIds]
  /\ "working" \in Targets
  /\ MaySkip \in BOOLEAN /\ UserTurns \in BOOLEAN /\ PassesTaskId \in BOOLEAN

VARIABLES
  rpc,       \* where each SendMessage thread is
  rtask,     \* the task object it enqueued, 0 before
  reply,     \* the text of the Task object it answered with
  cpc,       \* where each CancelTask thread is
  spc,       \* where each session is in its turn
  injected,  \* the task whose text the session's turn is about
  target,    \* the id post_llm_call is about to complete
  webhook,   \* where each task's delivery thread is
  hit,       \* the object its failure callback found
  aged,      \* tasks 1..aged are older than 2 * _RESPONSE_TIMEOUT
  scan,      \* the task the watchdog is about to write, 0 for none
  handed     \* history: how often a task's text was given to a session

requestVars == <<rpc, rtask, reply>>
sessionVars == <<spc, injected, target, handed>>
webhookVars == <<webhook, hit>>
watchdogVars == <<aged, scan>>
vars == <<qvars, requestVars, cpc, sessionVars, webhookVars, watchdogVars>>

LInit ==
  /\ Init
  /\ rpc = [r \in Requests |-> "received"]
  /\ rtask = [r \in Requests |-> 0]
  /\ reply = [r \in Requests |-> NoResponse]
  /\ cpc = [c \in Cancels |-> "received"]
  /\ spc = [s \in Sessions |-> "idle"]
  /\ injected = [s \in Sessions |-> 0]
  /\ target = [s \in Sessions |-> NoId]
  /\ webhook = [t \in Task |-> "none"]
  /\ hit = [t \in Task |-> 0]
  /\ aged = 0
  /\ scan = 0
  /\ handed = [t \in Task |-> 0]

-----------------------------------------------------------------------------
(***************************************************************************)
(* SendMessage: _prepare_and_enqueue and _enqueue_and_await_task.          *)
(***************************************************************************)
RequestMoves(r, from, to) ==
  /\ rpc[r] = from
  /\ rpc' = [rpc EXCEPT ![r] = to]

\* The collision check takes and releases the queue's lock ...
CheckCollision(r) ==
  /\ IF FindTaskById(Wants[r]) # 0
     THEN RequestMoves(r, "received", "conflict")
     ELSE RequestMoves(r, "received", "checked")
  /\ UNCHANGED <<qvars, rtask, reply, cpc, sessionVars, webhookVars, watchdogVars>>

\* ... and enqueue takes it again; an accepted task gets a delivery thread
\* (which is followed only where it can fail).
Accept(r) ==
  /\ RequestMoves(r, "checked", "waiting")
  /\ Enqueue(Wants[r])
  /\ rtask' = [rtask EXCEPT ![r] = created + 1]
  /\ webhook' = [webhook EXCEPT ![created + 1] =
                   IF WebhookFailed \in FailTexts THEN "delivering" ELSE "done"]
  /\ UNCHANGED <<reply, cpc, sessionVars, hit, watchdogVars>>

Busy(r) ==
  /\ RequestMoves(r, "checked", "busy")
  /\ ~CanEnqueue(Wants[r])
  /\ UNCHANGED <<qvars, rtask, reply, cpc, sessionVars, webhookVars, watchdogVars>>

\* ready is set: the reply says "completed" with whatever response there is.
Reply(r) ==
  /\ RequestMoves(r, "waiting", "completed")
  /\ response[rtask[r]] # NoResponse
  /\ reply' = [reply EXCEPT ![r] = response[rtask[r]]]
  /\ UNCHANGED <<qvars, rtask, cpc, sessionVars, webhookVars, watchdogVars>>

\* Mutant: wait() without a timeout.
TimeOutNever(r) == FALSE /\ UNCHANGED vars

\* wait() timed out and task.response was still None ...
TimeOut(r) ==
  /\ RequestMoves(r, "waiting", "late")
  /\ response[rtask[r]] = NoResponse
  /\ UNCHANGED <<qvars, rtask, reply, cpc, sessionVars, webhookVars, watchdogVars>>

\* Mutant: the late request also takes its task out of the queue, unlocked.
AbandonDropping(r) ==
  /\ RequestMoves(r, "late", "working")
  /\ returned' = [returned EXCEPT ![rtask[r]] = TRUE]
  /\ pending' = SelectSeq(pending, LAMBDA t : t # rtask[r])
  /\ UNCHANGED <<created, idOf, response, completed, processing, states, counters,
                 oldest, held, rtask, reply, cpc, sessionVars, webhookVars, watchdogVars>>

\* ... so _returned is set, without looking again, and the reply is "working".
Abandon(r) ==
  /\ RequestMoves(r, "late", "working")
  /\ GiveUp(rtask[r])
  /\ UNCHANGED <<rtask, reply, cpc, sessionVars, webhookVars, watchdogVars>>

-----------------------------------------------------------------------------
(***************************************************************************)
(* CancelTask: _cancel_task_core reads the status, then cancels.           *)
(***************************************************************************)
CancelCheck(c) ==
  /\ cpc[c] = "received"
  /\ LET state == GetStatus(Kills[c]) IN
     cpc' = [cpc EXCEPT ![c] =
               IF state = Unknown THEN "not_found"
               ELSE IF state \in {"completed", "failed", "canceled"} THEN "not_cancelable"
               ELSE "checked"]
  /\ UNCHANGED <<qvars, requestVars, sessionVars, webhookVars, watchdogVars>>

\* cancel does nothing to an id that is no longer pending, but the reply is
\* "canceled" all the same.
CancelTask(c) ==
  /\ cpc[c] = "checked"
  /\ IF Kills[c] \in PendingIds THEN Cancel(Kills[c]) ELSE UNCHANGED qvars
  /\ cpc' = [cpc EXCEPT ![c] = "canceled"]
  /\ UNCHANGED <<requestVars, sessionVars, webhookVars, watchdogVars>>

-----------------------------------------------------------------------------
(***************************************************************************)
(* A turn of an agent session: pre_llm_call takes the lock four times,     *)
(* post_llm_call twice.                                                    *)
(***************************************************************************)
SessionMoves(s, from, to) ==
  /\ spc[s] = from
  /\ spc' = [spc EXCEPT ![s] = to]

\* A turn starts with drain_pending.  With nothing drained the turn goes on
\* without a task.
PreDrain(s) ==
  /\ Drain(s)
  /\ IF held'[s] # <<>>
     THEN SessionMoves(s, "idle", "drained")
     ELSE UserTurns /\ SessionMoves(s, "idle", "thinking")
  /\ UNCHANGED <<injected, target, handed, requestVars, cpc, webhookVars, watchdogVars>>

\* queue.transition(task_id, "working"), its verdict ignored.
PreTransition(s) ==
  LET i == idOf[Head(held[s])] IN
  /\ SessionMoves(s, "drained", "working")
  /\ IF CanTransition(i, "working") THEN Transition(i, "working") ELSE UNCHANGED qvars
  /\ UNCHANGED <<injected, target, handed, requestVars, cpc, webhookVars, watchdogVars>>

\* Mutant: the task is not marked as processing.
PreMarkForgotten(s) ==
  /\ SessionMoves(s, "working", "marked")
  /\ UNCHANGED <<qvars, injected, target, handed, requestVars, cpc, webhookVars, watchdogVars>>

\* mark_processing(task_id)
PreMark(s) ==
  LET i == idOf[Head(held[s])] IN
  /\ SessionMoves(s, "working", "marked")
  /\ IF i \in PendingIds THEN MarkProcessing(i) ELSE UNCHANGED qvars
  /\ UNCHANGED <<injected, target, handed, requestVars, cpc, webhookVars, watchdogVars>>

\* requeue_tasks(pending[1:]), then the text of pending[0] goes to the agent.
PreInject(s) ==
  LET t == Head(held[s]) IN
  /\ SessionMoves(s, "marked", "thinking")
  /\ Requeue(s)
  /\ injected' = [injected EXCEPT ![s] = t]
  /\ handed' = [handed EXCEPT ![t] = @ + 1]
  /\ UNCHANGED <<target, requestVars, cpc, webhookVars, watchdogVars>>

\* The turn produced no text: post_llm_call returns at once.
Skip(s) ==
  /\ MaySkip
  /\ SessionMoves(s, "thinking", "idle")
  /\ injected' = [injected EXCEPT ![s] = 0]
  /\ UNCHANGED <<qvars, target, handed, requestVars, cpc, webhookVars, watchdogVars>>

\* Mutant: any pending task will do.
AnyPending(s) == PendingIds

\* The ids post_llm_call may settle on: the one the host names (not one of the
\* queue's when no task was injected), or else any processing one: the first
\* of list(_processing), a set.
Candidates(s) ==
  IF ~PassesTaskId THEN processing
  ELSE IF injected[s] = 0 THEN {NoId} ELSE {idOf[injected[s]]}

\* With none processing the set is read once more.
PostTarget(s) ==
  /\ \E from \in {"thinking", "rereading"} :
       \E i \in Candidates(s) :
         /\ SessionMoves(s, from, "answering")
         /\ target' = [target EXCEPT ![s] = i]
  /\ UNCHANGED <<qvars, injected, handed, requestVars, cpc, webhookVars, watchdogVars>>

PostNoTarget(s) ==
  /\ Candidates(s) = {}
  /\ \/ /\ SessionMoves(s, "thinking", "rereading")
        /\ UNCHANGED injected
     \/ /\ SessionMoves(s, "rereading", "idle")
        /\ injected' = [injected EXCEPT ![s] = 0]
  /\ UNCHANGED <<qvars, target, handed, requestVars, cpc, webhookVars, watchdogVars>>

TextOf(s) == IF injected[s] = 0 THEN UserText ELSE injected[s]

\* queue.complete(target, assistant_response)
PostComplete(s) ==
  /\ SessionMoves(s, "answering", "idle")
  /\ IF target[s] \in PendingIds THEN Complete(target[s], TextOf(s)) ELSE UNCHANGED qvars
  /\ injected' = [injected EXCEPT ![s] = 0]
  /\ target' = [target EXCEPT ![s] = NoId]
  /\ UNCHANGED <<handed, requestVars, cpc, webhookVars, watchdogVars>>

-----------------------------------------------------------------------------
(***************************************************************************)
(* The delivery thread of a task (trigger_async) and _on_webhook_failure.  *)
(***************************************************************************)
Delivered(t) ==
  /\ webhook[t] = "delivering"
  /\ webhook' = [webhook EXCEPT ![t] = "done"]
  /\ UNCHANGED <<qvars, hit, requestVars, cpc, sessionVars, watchdogVars>>

\* The callback looks the id up, not the object, and tests its response ...
DeliveryFailed(t) ==
  LET u == FindTaskById(idOf[t]) IN
  /\ webhook[t] = "delivering"
  /\ IF u # 0 /\ response[u] = NoResponse
     THEN /\ webhook' = [webhook EXCEPT ![t] = "failing"]
          /\ hit' = [hit EXCEPT ![t] = u]
     ELSE /\ webhook' = [webhook EXCEPT ![t] = "done"]
          /\ UNCHANGED hit
  /\ UNCHANGED <<qvars, requestVars, cpc, sessionVars, watchdogVars>>

\* ... and writes it without the lock.
WriteFailure(t) ==
  /\ webhook[t] = "failing"
  /\ FailResponse(hit[t], WebhookFailed)
  /\ webhook' = [webhook EXCEPT ![t] = "done"]
  /\ UNCHANGED <<hit, requestVars, cpc, sessionVars, watchdogVars>>

-----------------------------------------------------------------------------
(***************************************************************************)
(* _start_orphaned_task_watchdog.                                          *)
(***************************************************************************)
\* Time passes (only observed where the watchdog is among the writers).  A
\* request waits for one _RESPONSE_TIMEOUT only, so no request is still waiting
\* for a task older than two.
Age ==
  /\ Orphaned \in FailTexts
  /\ aged < created
  /\ \A r \in Requests : rtask[r] = aged + 1 => rpc[r] \notin {"waiting", "late"}
  /\ aged' = aged + 1
  /\ UNCHANGED <<qvars, scan, requestVars, cpc, sessionVars, webhookVars>>

\* The shortcut, then the scan finds an old task without a response ...
ScanFinds(t) ==
  /\ scan = 0
  /\ oldest = 0 \/ oldest <= aged
  /\ t \in ToSet(pending) /\ t <= aged /\ response[t] = NoResponse
  /\ scan' = t
  /\ UNCHANGED <<qvars, aged, requestVars, cpc, sessionVars, webhookVars>>

\* ... and writes it without the lock.
MarkOrphaned ==
  /\ scan # 0
  /\ FailResponse(scan, Orphaned)
  /\ scan' = 0
  /\ UNCHANGED <<aged, requestVars, cpc, sessionVars, webhookVars>>

-----------------------------------------------------------------------------
SendMessage(r) ==
  CheckCollision(r) \/ Accept(r) \/ Busy(r) \/ Reply(r) \/ TimeOut(r) \/ Abandon(r)

Turn(s) ==
  \/ PreDrain(s) \/ PreTransition(s) \/ PreMark(s) \/ PreInject(s)
  \/ Skip(s) \/ PostTarget(s) \/ PostNoTarget(s) \/ PostComplete(s)

LNext ==
  \/ \E r \in Requests : SendMessage(r)
  \/ \E c \in Cancels : CancelCheck(c) \/ CancelTask(c)
  \/ \E s \in Sessions : Turn(s)
  \/ \E t \in Task : Delivered(t) \/ DeliveryFailed(t) \/ WriteFailure(t)
  \/ Age \/ MarkOrphaned \/ \E t \in Task : ScanFinds(t)

LSpec == LInit /\ [][LNext]_vars

\* The request threads are scheduled: a handler that can go on does.  Nothing
\* is assumed of sessions, deliveries or the watchdog.
LFairSpec == LSpec /\ \A r \in Requests : WF_vars(SendMessage(r))

-----------------------------------------------------------------------------
(***************************************************************************)
(* Properties of the running server.                                       *)
(***************************************************************************)

\* Every field has its type.
LTypeOK ==
  /\ TypeOK
  /\ rpc \in [Requests -> {"received", "checked", "waiting", "late", "conflict",
                           "busy", "working", "completed"}]
  /\ rtask \in [Requests -> 0 .. created]
  /\ reply \in [Requests -> Response]
  /\ cpc \in [Cancels -> {"received", "checked", "not_found", "not_cancelable", "canceled"}]
  /\ spc \in [Sessions -> {"idle", "drained", "working", "marked", "thinking",
                           "rereading", "answering"}]
  /\ injected \in [Sessions -> 0 .. created]
  /\ target \in [Sessions -> TaskIds \cup {NoId}]
  /\ webhook \in [Task -> {"none", "delivering", "failing", "done"}]
  /\ hit \in [Task -> 0 .. created]
  /\ aged \in 0 .. created
  /\ scan \in 0 .. created
  /\ handed \in [Task -> Nat]

\* The server uses the queue as its most general caller may: what is proved of
\* TaskQueue holds of the server.
UsesQueue == Spec

\* The state GetTask reports for an id follows TaskStatus.
Client == INSTANCE TaskStatus WITH status <- [i \in TaskIds |-> GetStatus(i)]
StatusPromise == Client!Spec

\* No task's text is given to the agent twice, not even after its turn has
\* ended or the task was cancelled and put back by requeue_tasks (the purpose
\* of _processing in pre_llm_call).
HandedOnce == \A t \in Task : handed[t] <= 1

\* An answer a client receives was produced for the task it sent, although
\* post_llm_call has only a text that does not name it; and it is never the text
\* the watchdog writes, which comes when the request has been answered.
AnswerIsMine ==
  \A r \in Requests :
    /\ rpc[r] = "completed" /\ reply[r] \in Answers => reply[r] = rtask[r]
    /\ reply[r] # Orphaned

\* Every SendMessage call is answered, even if the agent never runs, the task is
\* canceled, or its id is taken by another call: no wake-up is lost between
\* ready.set() and wait(timeout).
EveryRequestAnswered ==
  \A r \in Requests :
    rpc[r] = "received" ~> rpc[r] \in {"conflict", "busy", "working", "completed"}

=============================================================================
