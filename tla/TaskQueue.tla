------------------------------ MODULE TaskQueue ------------------------------
(***************************************************************************)
(* The in-memory task queue of the A2A server (task_queue.py).  Every      *)
(* operation of the class runs under TaskQueue._lock, so each is one       *)
(* action here.  The two writes that bypass the lock (the webhook-failure  *)
(* callback and the orphan watchdog write task.response, the request       *)
(* thread writes task._returned) are actions of their own.                 *)
(*                                                                         *)
(* A _PendingTask object is a number: tasks are numbered in the order they *)
(* are created, so the number also stands for created_at.  The same        *)
(* task_id may be carried by several objects over time.                    *)
(*                                                                         *)
(* Next is the most general caller: any operation, at any time, with any   *)
(* argument the code base passes.  TaskLifecycle restricts it to the real  *)
(* callers.                                                                *)
(***************************************************************************)
EXTENDS Sublists

CONSTANTS
  TaskIds,      \* the task ids a client may use
  NoId,         \* the id of an object that has not been created
  MaxTasks,     \* bound: how many _PendingTask objects are ever created
  MaxEnqueues,  \* bound: how many insertions into _pending, requeues included
  MaxPending,   \* _MAX_PENDING
  CacheMax,     \* _TASK_CACHE_MAX
  Drainers,     \* the callers that hold a drained list
  Targets,      \* the states callers pass to transition or set by an auth call
  Answers,      \* the texts a worker may answer with
  FailTexts     \* the texts the failure writers that bypass the lock may use

\* The values of _PendingTask.response.
NoResponse    == 0    \* None
Canceled      == -1   \* "(canceled)"
WebhookFailed == -2   \* "(webhook delivery failed)"
Orphaned      == -3   \* "(orphaned - no response)"
Response == {NoResponse, Canceled, WebhookFailed, Orphaned} \cup Answers

ASSUME QueueAssumption ==
  /\ NoId \notin TaskIds
  /\ MaxTasks \in Nat \ {0}
  /\ MaxEnqueues \in Nat
  /\ MaxPending \in Nat \ {0}
  /\ CacheMax \in Nat
  /\ MaxPending <= CacheMax   \* both are 100000 (task_queue.py:20-21)
  /\ Answers \subseteq Nat \ {0}
  /\ FailTexts \subseteq {WebhookFailed, Orphaned}

Task == 1 .. MaxTasks

Terminal == {"completed", "failed", "canceled", "rejected"}
TaskState == {"submitted", "working", "auth_required", "authenticated"} \cup Terminal
Unknown == "unknown"

\* Mutant: a finished task may be put back to work.
ReopeningTransitions(from) == {"working"}

\* TaskQueue._TRANSITIONS
Transitions(from) ==
  CASE from = "submitted"     -> {"working", "completed", "failed", "canceled"}
    [] from = "working"       -> {"completed", "failed", "canceled"}
    [] from = "auth_required" -> {"authenticated", "rejected"}
    [] from = "authenticated" -> {"working", "failed"}
    [] OTHER                  -> {}

VARIABLES
  created,      \* number of _PendingTask objects created so far
  idOf,         \* task.task_id
  response,     \* task.response; task.ready is set exactly when it is not None
  returned,     \* task._returned
  pending,      \* _pending, in insertion order
  completed,    \* _completed, in insertion order
  processing,   \* _processing, a set of ids
  states,       \* _states, Unknown where the dict has no key
  enqueueCount, completeCount, cancelCount,   \* _enqueue_count, ...
  oldest,       \* _oldest_pending_time: the number of a task, 0 for None
  held          \* the list each drainer got from drain_pending

objects == <<created, idOf, response, returned>>
counters == <<enqueueCount, completeCount, cancelCount>>
qvars == <<objects, pending, completed, processing, states, counters, oldest, held>>

(***************************************************************************)
(* Views of the dictionaries.                                              *)
(***************************************************************************)
IdsOf(s) == {idOf[t] : t \in ToSet(s)}
PendingIds == IdsOf(pending)

\* Mutant: the minimum has a wrong default.
OldestDefaulted(S) == IF S = {} THEN -1 ELSE CHOOSE t \in S : \A u \in S : t <= u

\* min((t.created_at for t in S), default=None)
OldestIn(S) == IF S = {} THEN 0 ELSE CHOOSE t \in S : \A u \in S : t <= u

\* _completed[task_id] = task: a key keeps its place when it is overwritten.
Stored(s, t) ==
  IF \E k \in DOMAIN s : idOf[s[k]] = idOf[t]
  THEN [k \in DOMAIN s |-> IF idOf[s[k]] = idOf[t] THEN t ELSE s[k]]
  ELSE Append(s, t)

\* while len(_completed) > _TASK_CACHE_MAX: popitem(last=False)
Trimmed(s) ==
  IF Len(s) > CacheMax THEN SubSeq(s, Len(s) - CacheMax + 1, Len(s)) ELSE s

Find(s, i) == CHOOSE t \in ToSet(s) : idOf[t] = i

\* find_task_by_id: 0 stands for None.
FindTaskById(i) ==
  IF i \in PendingIds THEN Find(pending, i)
  ELSE IF i \in IdsOf(completed) THEN Find(completed, i)
  ELSE 0

\* get_status(i)["state"].  _states never loses a key, so the branch that
\* answers with the response is not reached once a task has been enqueued.
GetStatus(i) ==
  IF i \in PendingIds THEN (IF states[i] = Unknown THEN "working" ELSE states[i])
  ELSE IF i \in IdsOf(completed) /\ response[Find(completed, i)] = Canceled THEN "canceled"
  ELSE IF states[i] = Unknown /\ i \in IdsOf(completed) THEN "completed"
  ELSE states[i]

\* pending_count()
PendingCount ==
  LET n == enqueueCount - completeCount - cancelCount IN IF n < 0 THEN 0 ELSE n

-----------------------------------------------------------------------------
Init ==
  /\ created = 0
  /\ idOf = [t \in Task |-> NoId]
  /\ response = [t \in Task |-> NoResponse]
  /\ returned = [t \in Task |-> FALSE]
  /\ pending = <<>>
  /\ completed = <<>>
  /\ processing = {}
  /\ states = [i \in TaskIds |-> Unknown]
  /\ enqueueCount = 0
  /\ completeCount = 0
  /\ cancelCount = 0
  /\ oldest = 0
  /\ held = [d \in Drainers |-> <<>>]

\* Mutant: the latest instead of the oldest.
LatestWith(t) == t

\* The oldest time after an insertion of t by enqueue.
OldestWith(t) == IF oldest = 0 \/ t < oldest THEN t ELSE oldest

\* enqueue answers None, and changes nothing, unless this holds.
CanEnqueue(i) == Len(pending) < MaxPending /\ i \notin PendingIds

\* enqueue.  Its eviction loop cannot run: an insertion leaves at most
\* MaxPending tasks, and MaxPending <= CacheMax.
Enqueue(i) ==
  /\ created < MaxTasks /\ enqueueCount < MaxEnqueues
  /\ CanEnqueue(i)
  /\ created' = created + 1
  /\ idOf' = [idOf EXCEPT ![created + 1] = i]
  /\ pending' = Append(pending, created + 1)
  /\ states' = [states EXCEPT ![i] = "submitted"]
  /\ oldest' = OldestWith(created + 1)
  /\ enqueueCount' = enqueueCount + 1
  /\ UNCHANGED <<response, returned, completed, processing,
                 completeCount, cancelCount, held>>

\* drain_pending: the tasks stay in _pending, the caller gets those that are
\* not being processed.
Drain(d) ==
  LET idle == {t \in ToSet(pending) : idOf[t] \notin processing} IN
  /\ \E q \in InOrder(pending, idle) : held' = [held EXCEPT ![d] = q]
  /\ UNCHANGED <<objects, pending, completed, processing, states, counters, oldest>>

\* Mutant: what requeue_tasks puts back is not counted.
UncountedRequeue(q) == 0

\* requeue_tasks: one count per task put back.
RequeueCount(q) == Len(q)

\* requeue_tasks(drained[1:]), the only list the code base passes: those that
\* have left _pending meanwhile are appended again, whatever became of them.
Requeue(d) ==
  /\ held[d] # <<>>
  /\ LET gone == {t \in ToSet(Tail(held[d])) :
                    idOf[t] \notin PendingIds /\ idOf[t] \notin processing}
     IN \E q \in InOrder(held[d], gone) :
          /\ enqueueCount + Len(q) <= MaxEnqueues
          /\ pending' = pending \o q
          /\ enqueueCount' = enqueueCount + RequeueCount(q)
  /\ held' = [held EXCEPT ![d] = <<>>]
  /\ UNCHANGED <<objects, completed, processing, states, completeCount,
                 cancelCount, oldest>>

\* mark_processing: a no-op unless the id is pending.
MarkProcessing(i) ==
  /\ i \in PendingIds
  /\ processing' = processing \cup {i}
  /\ UNCHANGED <<objects, pending, completed, states, counters, oldest, held>>

\* transition(i, to): an id without a state counts as submitted.
CanTransition(i, to) ==
  to \in Transitions(IF states[i] = Unknown THEN "submitted" ELSE states[i])

Transition(i, to) ==
  /\ CanTransition(i, to)
  /\ states' = [states EXCEPT ![i] = to]
  /\ UNCHANGED <<objects, pending, completed, processing, counters, oldest, held>>

\* Mutant: the processing mark outlives the task.
MarkKept(i) == processing

\* _processing.discard(i)
MarkDiscarded(i) == processing \ {i}

\* Mutant: the state is dropped together with the pending entry.
StateDropped(i, state) == [states EXCEPT ![i] = Unknown]

\* _states[i] = state
StateSet(i, state) == [states EXCEPT ![i] = state]

\* What complete and cancel share: pop the id from _pending and _processing,
\* file the task under _completed, set the state, refresh the oldest time.
Retire(i, k, filed, state) ==
  LET t == pending[k] IN
  /\ idOf[t] = i
  /\ processing' = MarkDiscarded(i)
  /\ pending' = RemoveAt(pending, k)
  /\ completed' = filed
  /\ states' = StateSet(i, state)
  /\ oldest' = IF t = oldest THEN OldestIn(ToSet(pending) \ {t}) ELSE oldest
  /\ UNCHANGED <<created, idOf, returned, enqueueCount, held>>

\* Mutant: the test of _returned is inverted.
AnsweredLate(t, a) == IF returned[t] THEN [response EXCEPT ![t] = a] ELSE response

\* The response is kept from a caller that has already given up.
Answered(t, a) == IF returned[t] THEN response ELSE [response EXCEPT ![t] = a]

\* complete(i, a): nothing but a metric happens unless the id is pending.
Complete(i, a) ==
  \E k \in DOMAIN pending :
    LET t == pending[k] IN
    /\ Retire(i, k, Trimmed(Stored(completed, t)), "completed")
    /\ response' = Answered(t, a)
    /\ completeCount' = completeCount + 1
    /\ UNCHANGED cancelCount

\* cancel(i): overwrites whatever response the task has, and does not trim
\* _completed.
Cancel(i) ==
  \E k \in DOMAIN pending :
    LET t == pending[k] IN
    /\ Retire(i, k, Stored(completed, t), "canceled")
    /\ response' = [response EXCEPT ![t] = Canceled]
    /\ cancelCount' = cancelCount + 1
    /\ UNCHANGED completeCount

\* set_auth_required and set_authenticated write the state of any id.
SetAuth(i, s) ==
  /\ s \in {"auth_required", "authenticated"}
  /\ states' = [states EXCEPT ![i] = s]
  /\ UNCHANGED <<objects, pending, completed, processing, counters, oldest, held>>

\* task.response = r; task.ready.set(), outside the lock: the webhook-failure
\* callback and the watchdog.  Each tested for None before, not atomically.
FailResponse(t, r) ==
  /\ t \in 1 .. created
  /\ response' = [response EXCEPT ![t] = r]
  /\ UNCHANGED <<created, idOf, returned, pending, completed, processing,
                 states, counters, oldest, held>>

\* task._returned = True, outside the lock: the request thread timed out.
GiveUp(t) ==
  /\ t \in 1 .. created
  /\ returned' = [returned EXCEPT ![t] = TRUE]
  /\ UNCHANGED <<created, idOf, response, pending, completed, processing,
                 states, counters, oldest, held>>

Next ==
  \/ \E i \in TaskIds :
       \/ Enqueue(i)
       \/ MarkProcessing(i)
       \/ Cancel(i)
       \/ \E a \in Answers : Complete(i, a)
       \/ \E to \in Targets : Transition(i, to) \/ SetAuth(i, to)
  \/ \E d \in Drainers : Drain(d) \/ Requeue(d)
  \/ \E t \in Task : GiveUp(t) \/ \E r \in FailTexts : FailResponse(t, r)

Spec == Init /\ [][Next]_qvars

-----------------------------------------------------------------------------
(***************************************************************************)
(* What the queue guarantees to every caller.                              *)
(***************************************************************************)

\* Every field has its type and stays within its bound.
TypeOK ==
  /\ created \in 0 .. MaxTasks
  /\ idOf \in [Task -> TaskIds \cup {NoId}]
  /\ response \in [Task -> Response]
  /\ returned \in [Task -> BOOLEAN]
  /\ pending \in Seq(1 .. created)
  /\ completed \in Seq(1 .. created)
  /\ processing \subseteq TaskIds
  /\ states \in [TaskIds -> TaskState \cup {Unknown}]
  /\ enqueueCount \in 0 .. MaxEnqueues
  /\ completeCount \in Nat
  /\ cancelCount \in Nat
  /\ oldest \in 0 .. created
  /\ held \in [Drainers -> Seq(1 .. created)]

\* Only pending tasks are being processed: complete and cancel clear the mark
\* with the entry, requeue_tasks never brings back a marked id, and a mark is
\* never put on an id that has gone.  A mark that outlived its task would hide
\* a later task with the same id from drain_pending for good.
ProcessingIsPending == processing \subseteq PendingIds

\* The three counters give the queue depth exactly (pending_count), through
\* every mix of enqueue, requeue, complete and cancel: max(0, ...) never hides
\* a drift.
CounterExact == PendingCount = Len(pending) /\ enqueueCount >= completeCount + cancelCount

\* A request thread that still waits on a task nobody has answered waits on a
\* task that is in the queue: no interleaving of drain, requeue, complete and
\* cancel drops a task together with its waiter.
NoStrandedWaiter ==
  \A t \in 1 .. created :
    response[t] = NoResponse /\ ~returned[t] => t \in ToSet(pending)

\* The watchdog skips its scan while _oldest_pending_time is recent.  The
\* shortcut never hides an unanswered task that someone waits for, although
\* requeue_tasks does not maintain the oldest time.
WatchdogShortcutSafe ==
  \A t \in ToSet(pending) :
    response[t] = NoResponse /\ ~returned[t] => oldest = 0 \/ oldest <= t

\* A late complete, cancel or transition never replaces the outcome of a task
\* that has left the queue; only a new enqueue or an explicit auth call gives
\* its id another state.
FinishedStays ==
  [][\A i \in TaskIds :
       states[i] \in Terminal /\ i \notin PendingIds =>
         states'[i] \in {states[i], "submitted", "auth_required", "authenticated"}]_qvars

\* A client that was once told a state for an id never gets "unknown" later,
\* not even after the bounded _completed cache has dropped the task.
NeverForgotten ==
  [][\A i \in TaskIds : GetStatus(i) # Unknown => GetStatus(i)' # Unknown]_qvars
=============================================================================
