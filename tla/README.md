# Verification of hermes-agent-a2a

`hermes_agent_a2a` is a plugin that gives an agent gateway an A2A server: remote
agents post tasks to it over HTTP (JSON-RPC or REST), the gateway's agent
sessions pick the tasks up through two hooks, and the answers go back to the
waiting request, to event streams and to webhooks. It also holds the tools with
which the local agent calls other agents. This directory holds TLA+ models of
its parts, the TLC runs that check them and TLAPS proofs about them. Paths and
line numbers are relative to `src/hermes_agent_a2a/`.

Everything runs in one process with many threads: `ThreadingHTTPServer` starts a
thread per request, the gateway calls the hooks and the tools from its own
threads, and there is a thread per webhook delivery, one orphan watchdog, one
metrics logger and several cleanup threads. Each store has a lock of its own and
every method takes it for itself, so what spans two calls is not atomic. That is
where this code can go wrong and what most of the models are about.

## 1. Inventory

| Component | State | Operations | Talks to | Hard behaviour | Correct when |
|---|---|---|---|---|---|
| Task queue (`task_queue.py`) | pending, completed, processing, states, three counters, oldest time | enqueue, drain, requeue, mark, complete, cancel, transition, auth states, queries | called by all of the following | drained tasks stay pending; requeue brings back what has gone; counters and a cached minimum are maintained by hand; two writers bypass the lock | no waiter is lost, marks and counters never drift, outcomes are final, known ids stay known |
| Request handling (`server.py`) | one thread per request, waiting on a task's Event | SendMessage, CancelTask | queue, idempotency, streams, webhook trigger | collision check, enqueue, wait with timeout, give up; check then cancel | every request is answered, with its own answer; replies are true |
| REST and JSON-RPC surface (`server.py`) | none | routes, authentication, checks of the body, GetTask, ListTasks | limiter, request handling | handlers that answer for themselves, REST and JSON-RPC side by side; pages of a list that changes | one response per request, a refusal changes nothing, no task skipped |
| Rate limiter (`rate_limiter.py`) | a token bucket per caller | allow, evict, sweep | the surface | clock read outside the lock, entry limit | no caller gets more than its burst and rate; Retry-After is true |
| Agent hooks (`hooks.py`) | none of their own | pre_llm_call, post_llm_call | queue, streams, push, conversations | four and two critical sections per turn, several sessions | a task is handed over once and completed by its own turn |
| Orphan watchdog (`server.py:142`) | none | scan with a shortcut | queue | writes without the lock | never touches a request that is still waited for |
| Webhook trigger (`webhook_delivery.py`, `a2a_direct.py`) | none | deliver with retries, failure callback | gateway, queue | runs beside the request it belongs to | failure wakes the right request |
| Event streams (`sse_handler.py`) | streams, per-task index, cleanup thread | open, push, flush, close, idle cleanup, shutdown | request threads, hooks | polling and pushing side by side; clients leave; threads die | a client hears the outcome, in order, once; nothing leaks |
| Idempotency store (`persistence.py:38`) | key to (task, hash, result, expiry) | check_conflict, get, set, evict | request handling | filled only after the wait | one key, one execution, one result |
| Conversation store (`persistence.py:162`) | one file per peer and day | save_exchange | hooks | rotation, temporary file, replace, crash | nothing saved is lost or doubled |
| Push (`subscription_store.py`, `push_delivery.py`) | subscriptions, configurations | add, remove, get, expire; deliver with retry | hooks, REST handlers | slow deliveries against unsubscribe; late requests | active subscribers are told, in order |
| Workers (`worker_registry.py`, `_mode2_worker.py`) | task id to subprocess | register, unregister, cancel, cleanup | tools | id reuse, look up then act, timeout | no worker is left behind; cancel finds the one it names |
| Outbound tools (`tool_handlers.py`, `a2a_spec/`) | a sliding window of call times | send and poll, cancel | other servers | polls that fail, restarts of the other side | what is reported was so |
| Relay and discovery (`tool_handlers.py`) | identity files | relay a message, register a discovered agent | other gateways, identity | files written in place; answers lost | delivered means arrived; identities stay readable |
| Runtime state and plugin (`runtime_state.py`, `plugin.py`) | the singleton with server and metrics; `_server_process`; the metrics logger | register, start, shutdown, reload, announce | everything | lazy creation by several threads, ports, reload | one server, which shutdown finds; one logger |
| Identity (`identity.py`, `validators.py`) | none (files, environment, Telegram's answer) | resolve, validate | plugin, tools | order of precedence | the first source decides whether the plugin boots |
| Security helpers, schemas, package surface | audit log | filters, definitions | all | none | not modelled, see section 8 |

## 2. Modules

| Module | Models | Kind |
|---|---|---|
| `TaskQueue` | the queue, under its most general caller | component |
| `TaskQueueProofs` | its inductive invariant and eight theorems | proofs |
| `TaskStatus` | what a polling client may rely on | abstract specification |
| `TaskLifecycle` | all threads that act on the queue: SendMessage, CancelTask, agent turns, delivery threads, watchdog | composition, EXTENDS `TaskQueue` |
| `LifecycleProofs` | that the server keeps its types and refines `TaskQueue`; that texts are handed over once, and answers to the right client, where they are | proofs, EXTENDS `TaskQueueProofs` |
| `Sublists` | what is left of a list when members are taken out | operator |
| `SSEStreams` | the stream registry, the threads serving streams, the threads broadcasting to them | component and composition |
| `SSEProofs` | that what a client reads is in order, and outcomes are told | proofs |
| `Idempotency` | SendMessage calls with an idempotency key, between the store and the queue | composition, EXTENDS `TaskQueue` |
| `IdempotencyProofs` | its inductive invariant and six theorems | proofs, EXTENDS `TaskQueueProofs` |
| `RateLimiter` | the token buckets, under any request threads, and the sweep | component |
| `FrontDoor` | request threads from the route to the response | composition, EXTENDS `RateLimiter` |
| `FrontDoorProofs` | that grants are bounded and Retry-After is honoured, replies sound, and pages skip nothing | proofs |
| `Push`, `Conversations` | subscriptions and deliveries; the conversation file | components |
| `Aftermath` | what a session does after the agent's answer, with a crash | composition of both |
| `AftermathProofs` | that what is saved stays, and subscribers are told in order and not too often | proofs |
| `ToolCalls` | the outbound tools and their sliding window | component |
| `Workers` | runs of workers here and on a target, the registries, the cancel tool | component, EXTENDS `ToolCalls` |
| `ProtocolClient` | sending, polling and cancelling tasks on a remote server | component, EXTENDS `Workers` |
| `Outbound` | the outbound side as a whole | composition |
| `OutboundProofs` | that no worker is left behind or lost to cancel, the sliding window spaces calls, and reports are true | proofs |
| `RuntimeState` | the singleton, its metrics, the metrics logger | component |
| `Plugin` | register, start, on_shutdown, reload, a2a_announce | component, EXTENDS `RuntimeState` |
| `Relay` | relays, and registrations of identities | component, EXTENDS `RuntimeState` |
| `Gateway` | the gateway process around one runtime state | composition of both |
| `GatewayProofs` | that one server runs and shutdown reaches it, counts are true, loggers bounded, identities readable | proofs |
| `MC...` | instances for TLC | |

Operators marked "Mutant" or "As a bug would be" are not part of any
specification: each is a plausible mistake in the definition after it, with
which one of the checked properties fails.

### How state and actions correspond to the code

`TaskQueue`. One action per method of the class, since each holds
`TaskQueue._lock` throughout; `GiveUp` and `FailResponse` are the two places that
write a task without it. A `_PendingTask` object is a number in creation order,
which also stands for `created_at`; `idOf` gives the id it carries, so that the
same id may be used by several objects over time. `ready` is set exactly when
`response` is not None, so one variable stands for both. The eviction loop of
`enqueue` cannot run as long as `_MAX_PENDING <= _TASK_CACHE_MAX` (both are
100000), which is the named assumption. Requeue takes `Tail(held[d])` because the
code requeues `drained[1:]` only. The order in which a dictionary lists its
entries is kept (`InOrder`, `Stored`).

`TaskLifecycle`. Program counters per thread: `rpc` for SendMessage, `cpc` for
CancelTask, `spc` for a session's turn, `webhook` for a delivery thread, `scan`
for the watchdog. Each step between two lock acquisitions is one action and
contains the whole critical section, by calling the queue's action. `aged`
abstracts the clock: tasks `1..aged` are older than twice the response timeout,
which cannot be while a request is still in its first.

`SSEStreams`. One task; a client opens at most one stream and also names it.
`stream[c]` is the `_Stream` record. `telling` is a broadcast under way: the ids
of the streams were read once, and `push_event` is called for one after the
other with the same event object, whose id the first call sets. A serving thread
reads the state, opens the stream, writes the first event, then repeats flush,
test for closed, test for an outcome; `TimeOut` is the deadline test at the head
of the loop. The queue is reduced to the state that `get_status` reports of the one
task and to its `entry`: pending, marked, or gone. A session's two hooks are one action
per critical section or broadcast: `Drain`, `StartWork` (transition), `Mark`,
`TellWorking`; `DrainBehind` and `Requeue` when the task came second; `Target`,
`Complete`, `TellCompleted`. Any number of sessions may be in them at once, so the task
may be handed over twice, answered by another session than it was handed to, or
cancelled, put back and completed. Four history variables record that (`turnOf`,
`crossed`, `revived`) and what was broadcast (`told`); no step looks at them. That a task's state is eventually
forgotten is not modelled (`NeverForgotten` of `TaskQueue` shows it is not). Of the three
broadcasters the one of `GetTaskArtifacts` (`server.py:903`) is left out: it pushes
what the artifact broadcaster pushes.

`Idempotency`. `rpc` follows a call through `_prepare_and_enqueue` and
`_enqueue_and_await_task`, one action per critical section of the store or the
queue: `CheckConflict`, `LookUp` (get), `CheckCollision`, `Accept` or `Busy`, then
`Answer` or `TimeOut`, then `Save` (set) or `Abandon`. `store[k]` is an entry, with
the clock reduced to whether it is `live`; both look-ups drop an entry they find
expired, as the code does. `Hash[r]` is the hash of the call's parameters as they
are after `_resolve_sender_name` has written into them. A call to message:stream
takes the same path as far as `Accept` and stores nothing. The agent, CancelTask
and the failure callback act on the queue as `TaskQueue` allows (`OthersAct`).
`seen` is a history variable: what was stored when a call came in.

`RateLimiter`. `allow` is two actions: `ReadClock`, before the lock, and `Allow`,
under it, with the value read (`now`). Tokens are counted in the clock ticks it
takes to accrue them, which makes the refill rate one and needs no fractions.
`spent` and `since` are history: what a caller was granted since a moment that
`Observe` may choose at any time and that an eviction sets, because an evicted
caller starts again with a full bucket. A caller evicts another only when the
dictionary is full; a bucket the sweep removes would long be full.

`FrontDoor`. A thread receives a request, a record of what matters to the gates
(`RequestFields`), and `stage` says where it is; `reply` collects the status of
every response written for it, so that two or none show. `order` and `state` are
what the handlers see of the queue (`snapshot` and `get_status`), which `Finish`
and `Forget` change from outside. An id that two requests take past the collision check
may be enqueued again once the first task is over; `snapshot` then has both, until the
second retires into the first one's place (`Older`, `Retire`). A GET that subscribes to
an unknown task is answered 404, a JSON-RPC one with an error inside a 200; a refused
SendMessage of JSON-RPC with its refusal and a 200 (`Refusal`, `RefusedSend`). Entries are in the order
of their enqueues; `created_at` is read just before the lock. `walk` is one client that
follows `nextPageToken`.

`Push` and `Conversations`, joined in `Aftermath`. `telling[b]` is a thread inside
`_push_notifications`: the event, the subscribers it read once, the one it is at
and the attempt. A failed request is lost, or arrived and its answer was lost, or
goes to `inflight` and may arrive later. `saving[t]` is how far `save_exchange` has
come: read the time, lock, rotate, read and open, write and sync, replace. A
`Crash` empties what is in memory and keeps what is on disk. The order of
`Aftermath` is that of `hooks.py`: mark, tell "working", take a marked task, complete it,
tell "completed", save. `WorksOn[t]` is the task a session is handed, `answers[t]` the one
it answers, any that is in `processing` at the time, as `post_llm_call` does when the host
does not name the task. Left out are the artifact push of a request thread and the
second look of a turn that found no task marked (`hooks.py:141-148`), which may answer one
without saving it.

`ToolCalls`, `Workers`, `ProtocolClient`, joined in `Outbound`. A call is one
invocation of a tool: `Begin` reads the clock, `Admit` is `_consume_rate_limit`
under its lock, and the rest depends on the tool. `job[c]` is
`_run_worker_subprocess` for a call, in the caller for mode 2 and in a handler of
the target for mode 3, `proc[c]` the subprocess and what came of it, and `registry`
the dictionaries of the two machines. `cancel_worker` is `Lookup` under the lock,
then `PollWorker`, `Terminate` and `Reap` outside it. A `Send` is received by the
remote server in one step and answered in another (`Sent`), a turn of the poll loop
is one step (`Poll`) with all the ways it can fail; the remote server is an
abstraction whose tasks go through the states of `TaskStatus`, with final outcomes (this
package's own server keeps that as long as nothing is cancelled), and which may restart
and forget them.

`RuntimeState`, `Plugin`, `Relay`, joined in `Gateway`. `Find` and `Fill` are the
unlocked test and the assignments of the singleton's `__init__`; threads that need
the state wait for neither (`Ready` only says that their own call has come back).
A metrics logger's loop reads the event it waits for from the module (`LoopTest`),
so a loop is tied to no event. `servers[s].stage` follows an `A2AServer` from the
attempt to bind through serving, asked to stop, stopped (the loop is over and the
thread still alive), draining (requests hold the object, and nobody closes the
socket) to ended. `pc` is what each thread does next. `home` is what each source of
an identity holds, and Telegram's answer to the boot check. `file` is the identity
file of one agent, by who wrote it last; "empty" between `open` and the write,
"mixed" when two have written over each other.

## 3. Runs

| Run | Asks | Bounds |
|---|---|---|
| `MCTaskQueue` | marks, counters, waiters, watchdog shortcut, known ids under every mix of operations | 3 ids, 3 objects, 4 insertions, queue and cache of 2 |
| `MCTaskQueueStates` | types; outcomes stay under every transition and both unlocked writers | 2 ids, 2 objects, 3 insertions |
| `MCSerial` | with one session: handed over once, own answer and never the watchdog's text, every request answered, the server stays within `TaskQueue` | 2 clients with distinct ids, 1 cancel |
| `MCParallel` | two sessions without cancels implement `TaskStatus` | 3 clients (2 tasks, the third finds the queue full or waits), 2 sessions, queue of 2 |
| `MCStreams` | clients read in order and without repeats unless sessions cross, and are told the outcome | 2 clients that leave, one may have posted with message:stream, with 1 session, and 1 client with 2 sessions; cancel, requeue, artifact |
| `MCStreamsLive` | the outcome is heard, serving ends, streams do not leak | 1 client, 1 session, everything that may happen |
| `MCIdempotency` | a stored result is replayed word for word, spares the repetition the work, goes to no other payload; expired entries leave | 3 calls with one key, 2 payloads, 2 ids, one call streaming |
| `MCFrontDoor` | grants bounded, Retry-After honoured; one response per request and none that refuses what it did; ListTasks skips nothing | 2 request threads, 2 callers for 1 bucket entry, a bucket of 2 requests, 5 ticks, 2 tasks, pages of 1, a request for each check that may refuse it |
| `MCAftermath` | events told in order, in turn and not too often; exchanges saved exactly once; the session gets that far | 1 session with 2 subscribers that come and go; 1 with 1, beside a second session that may answer its task; 3 sessions that save, each save rotating; 2 failed deliveries of 2 attempts, 2 seconds, 1 crash |
| `MCOutbound` | no worker left behind or lost to cancel, reports true, calls spaced, every call ends | groups of up to 3 calls on a task id or two and a fourth that only asks to be admitted; window of 2 ticks and 3 calls; 2 polls, 1 restart |
| `MCGateway` | one server, which shutdown reaches; loggers, metrics and identities; everything ends | 2 loads beside 1 announcer; 2 relays during the first load; 1 relay and 2 registrations of one agent; 2 ports, any of them taken; 2 posts |

Why the bounds are enough.

- A queue of two is full while one task is processed and one waits; a cache of two
  evicts at the third object; three objects over two or three ids give both
  distinct ids and reuse; four insertions allow a requeue after both were first
  inserted. The races of `TaskLifecycle` need two actors on one task, or two tasks
  and one actor. `MCSerial`'s clients have distinct ids; two with one id are in
  `MCTaskQueue`, `MCIdempotency` and `MCFrontDoor`.
- Two streams are needed for what a shared event object can do; a third behaves
  like the second. What two sessions do to one another shows in the stream of one
  client, so `Groups` lets both clients read only while one session has to do with the
  task. A task that was handed over twice and put back once is not put back again: that
  could go on for ever, and nothing is claimed of its order. The liveness run has one
  client because clients do not wait for each other, and one session because serving
  waits for none. Keys share nothing but the sweep of `evict_expired`, so one key is
  enough; three calls are the one that does the work, its repetition and one that
  disagrees.
- Two callers and one entry make every first request of one an eviction of the
  other. Five ticks are two and a half times what fills a bucket. `MaxLag` says how
  stale a clock value may be when the lock is taken; with 1 the order of two
  threads' values can already be the reverse of the order they get the lock in.
  `Budget` serves the requests that compete for tasks, and the faulty ones, in the
  first tick, since they do not look at the clock; the clock runs while plain
  requests are served. A walk through ListTasks is followed until an entry before its
  place is gone, when nothing is promised any more, or a caller is refused. Request threads are symmetric, as are the clients of
  `MCParallel` together with the ids they want.
- Subscribers do not share anything but the order they are served in, and sessions
  nothing but the file and the marked tasks, so a session with two subscribers, one with
  one and a second session, and three that only save are enough; `Starts` names the
  three groups. The second session is of a task without subscribers, since what it
  could tell of its own is what the first tells of its. `MaxSize = 0` rotates at each save but
  the first; a second passes at any point, so that two rotations may or may not
  have the same name.
- The calls that have to do with each other are those on one id: two runs and a
  cancel, a run and two cancels, runs here and there, two sends, a send and a
  cancel. Spacing calls needs one call more than the window holds. The clock only
  runs before the admitted calls start to work, because what they do does not look
  at it.
- Two loads are a reload; a third starts from a state the second may start from.
  Two servers can be alive at once, and six objects allow for failed attempts.
  `Homes` are the cases `BootValidator` tells apart. Relays and registrations meet the
  plugin only in the runtime state, so they run beside the first load only.

`CONSTRAINT`s are used where groups of actors are independent. They cut where an
actor of another group would begin, which no fairness requires, with one
exception: relays run beside `register` up to the point where it has the runtime
state, and only its first steps are followed there. `MCStreamsLive` has none, and
`Groups` of `MCStreams` is about safety only.

Deadlock checking is off in all runs but `MCFrontDoor`: with its clients served and
no new request the system is idle for good, which is a proper end, calls of tools are
finite in number, and bounded counters stop the general caller.

### The run that finds a disagreement

`HandedTwice`: two sessions drain the same task before either marks it, and both
hand it to the agent. `hooks.py:44` says "The task is marked as processing so
subsequent calls don't double-inject". `MCSerial` and `MCParallel` are restricted
accordingly: handing over once and the right answer hold with one session at a
time, the promise of `TaskStatus` holds without cancels. Those are the conditions
under which the code is right. The models of what follows do not assume them:
`SSEStreams` and `Aftermath` let any number of sessions be handed a task and answer it,
and their properties say what of it they except.

### What is plain from the lines

These need no search, and the steps are in the models; where a property would
fail for them, it names the exception.

Tasks and replies

- A cancelled task that a session had drained is put back by requeue and completed
  (`task_queue.py:173`), although "canceled" has no transition (`task_queue.py:66`). A
  late answer is dropped (`task_queue.py:190`), although the client was told to poll
  (`server.py:622`).
- Without `A2A_WEBHOOK_HOST` the host is 127.0.0.1 (`webhook_delivery.py:106`, 176), which
  `validate_host` refuses (`security.py:249`): each request then fails at once by the
  failure callback, as it does without `A2A_WEBHOOK_SECRET`. `Delivered` and
  `DeliveryFailed` cover both outcomes.
- CancelTask answers with a canceled task whatever `cancel` did (`server.py:900`), and
  the announcement does not look at what `complete` did (`hooks.py:123`).
- `post_llm_call` takes the first element of a set where its comment says the oldest
  (`hooks.py:95`, 111); the watchdog writes a text but not the state "failed"
  (`server.py:142`); an id that leaves the queue between the collision check and
  `enqueue` is accepted again (`server.py:699-702`).
- With return_immediately nothing is enqueued (`server.py:606-610`), so that polling
  finds no task.
- A refused SendMessage is answered twice over JSON-RPC: `_handle_task_send` has
  answered when it returns None, which is sent as a result (`server.py:931-935`; CancelTask
  uses `_RPC_HANDLED`, 858). A REST handler that raises is not answered at all.
- The result of another payload is replayed if it is stored between `check_conflict`
  and `get` (`server.py:692`; `persistence.py:43` says it raises). Calls with one key that
  overlap all do the work; the last to answer owns the entry. The sender's name is
  written into what is hashed (`server.py:226`), so one client's repetition under
  another address is a conflict.
- ListTasks pages by offset into a list that is newest first (`server.py:179`): when a
  task is added the next page repeats one, and when one is forgotten, or an id that is
  listed twice is answered, it skips one.
- With authentication required a request from localhost is refused whatever token it
  bears. The handlers that subscribe to push notifications are not among
  `_RPC_METHODS`.

Streams, files, workers

- `pre_llm_call` marks a task and then tells of it (`hooks.py:68-71`), and `post_llm_call`
  takes any marked task: a session may complete what another one was handed, and tell
  "completed" before the other tells "working". `ReadInOrder` excepts it by `crossed`,
  `ToldInOrder` by `OneTells`.
- A cancelled task that is put back and completed (see above) gets an outcome other than
  the "canceled" a stream has ended with. `OutcomeTold` excepts it by `revived`.
- `close_stream` drops what is pending where its comment says it flushes
  (`sse_handler.py:193`); no cleanup thread starts again after a `shutdown`, and its
  comment says one does (`sse_handler.py:250`); one event object goes to every stream,
  so that after the first stream goes away the others are sent ids again
  (`sse_handler.py:183`); empty lists stay in `_by_task` (`sse_handler.py:205`).
- Two rotations in one second overwrite each other (`persistence.py:206`);
  `update_exchange` tests for its file outside the lock and has no caller
  (`persistence.py:230`); the lock is one process's while temporary names foresee more.
- Of two workers with one id the first to end unregisters the other
  (`worker_registry.py:23`). The worker of a mode 3 call runs for its own 300 seconds
  whatever the caller's timeout, and CancelTask cannot reach it: the queue does not know
  its id, and that is looked up first (`server.py:893-899`).
- A2A cancel with an agent that is not known does not say that the local worker was
  canceled (`tool_handlers.py:1209-1215`). An error inside a 200 is not counted as a
  failed poll, so "working" may be reported of a task nobody has seen
  (`tool_handlers.py:1137`).

Plugin and identities

- `__init__` of the singleton is not guarded (`runtime_state.py:136`; lines 3-4 and 125 say
  it is thread-safe): two first users can each reset what the other has stored.
- register and a2a_announce can each start a server (`plugin.py:61`); a plugin that is
  loaded again at once takes the ending thread for a running server and starts none.
  Sockets are never closed, so that a reload while requests are open moves to the next
  port. A failed attempt to bind leaves the threads of `A2AServer.__init__` behind.
- a2a_announce always says that the server is not running (`tool_handlers.py:816`). A
  failed boot leaves the tools registered, and with them a way to start the server.
- With `A2A_WEBHOOK_DELIVERY_RETRIES` at 0 the loop over the attempts is not entered, and
  "delivered" is reported of a message that nobody was sent (`tool_handlers.py:1382-1421`).
- `BootValidator` lets an HTTP error of Telegram pass but not a timeout or a lack of
  network (`validators.py:22-24` against 81-91). The profile's vault comes before the
  environment, which the docstring of the resolver has the other way round
  (`identity.py:198`); a vault file without a token hides the environment.
- Two registrations of one agent can both pass the test for the file and write over
  each other; one that fails leaves an empty file which blocks the next
  (`tool_handlers.py:549`, 587).

## 4. Fairness

`LFairSpec` assumes weak fairness of each SendMessage thread only: the
interpreter schedules a request thread whose wait has ended or timed out. The
timeout counts as able to happen at any time while waiting, and must happen
eventually because `wait(timeout=...)` returns. Nothing is assumed of the
agent, the deliveries or the watchdog, so `EveryRequestAnswered` does not rest on
them.

`FairSpec` of `SSEStreams` assumes weak fairness of each serving thread, of a
broadcast under way, of the passing of `A2A_SSE_TIMEOUT` and of the idle time, and
of the cleanup thread, which wakes every `cleanup_interval`. Nobody is assumed to
run the agent, cancel or disconnect.

`IFairSpec` of `Idempotency` assumes weak fairness of `Evict` only: the cleanup
thread is started by the first look-up, which precedes the first entry, wakes every
`cleanup_interval`, and survives exceptions (`persistence.py:58-77`).

`FairSpec` of `Aftermath` assumes it of sessions that have begun and of deliveries,
which time out. Nobody has to subscribe, crash or begin. `Save` contains failures of
the disk, so it is not assumed to succeed.

`FairSpec` of `Outbound` assumes it of each call's and of each handler's steps. Workers
need not end and remote tasks need not progress; `communicate`, `wait` and the
requests have timeouts, which is why their steps are always possible.

`FairSpec` of `Gateway` assumes it of main once `register` or `on_shutdown` has begun, of
announcers and relays that have begun, and of a server's loop that was asked to stop,
which polls. Loading, announcing and shutting down are not assumed, nor that requests
that hold a port ever end. The metrics logger needs no fairness since it is joined
with a timeout.

## 5. Proofs

`TaskQueueProofs` proves, for any number of ids, tasks and drainers and any
bounds, from `QueueAssumption` alone:

- `TypeCorrect`: `Spec => []TypeOK`.
- `QueueSafe`: `Spec => []QueueInv`, where `QueueInv` adds to the types that marks
  are on pending ids only; that the number of entries is exactly enqueues minus
  completions minus cancels (`CountsPending`, of which `CounterExact` is the part
  callers see through `max(0, ...)`); that an unanswered task somebody waits for is
  pending; that the oldest time covers each such task (`OldestCovers`); and that
  every id of a created task has a state.
- From it `MarksAreClean`, `CountIsExact`, `NoWaiterLost`, `ShortcutIsSafe`, and the
  action properties `OutcomeKept` and `StatusKept`.

The strengthening is needed in three places. `CounterExact` speaks of a
difference cut off at zero, and a step preserves only the equation behind it.
`requeue_tasks` re-inserts tasks without maintaining the oldest time, so
"oldest is the minimum" is false; what is inductive is that it is no later than
any task still waited for, since only tasks that were answered or given up can
come back younger than it. And `NeverForgotten` holds because every task in
either dictionary has a state, which no operation removes. The lemmas about
`OldestIn`, `InOrder`, `Stored` and `Trimmed` say what those operators preserve;
`RetireKeepsInv` is the common part of complete and cancel.

`LifecycleProofs` proves, from `QueueAssumption` and `LifecycleAssumption`, that the
server with any number of requests, cancels, sessions, deliveries and tasks
implements the queue under its most general caller (`ServerUsesQueue`:
`LSpec => UsesQueue`; `MCSerial` checks it too), which carries the queue's theorems
over (`ServerLosesNoWaiter` states two of them for the server), and `ServerTyped`. The
refinement mapping is the identity on the queue's variables; what has to be shown
is that the arguments are ones the general caller may pass: a session in the
middle of `pre_llm_call` holds a task (`HoldsWork`), every created task has an id
that was asked for (`NamedTasks`), a waiting request has a task (`WaitsForTask`), and
a thread that is about to write a failure found a task and is one of the
writers of the instance (`WritersExist`). `LInvStep` goes through the threads one
by one; `TurnKeepsInv` is what the steps of a turn have in common.

Two properties hold only where the code is right (section 3), and are proved there:

- `HandedOnce` (`TasksAreHandedOnce`) for one session, with any requests, cancels and
  ids. What is invariant (`HandedInv`) is that a task that was handed over and is pending
  still is marked, and that nothing drained has been handed over. A mark is on an id and
  goes when a task of that id leaves the queue, so this needs `Apart`: no id is pending
  twice. `_pending` is a dictionary in the code; that the sequence which stands for it stays
  one through `requeue_tasks` is `ApartStep`.
- `AnswerIsMine` (`AnswersAreMine`) where no id is used twice and `post_llm_call` finds the
  task its turn is about (`TurnsFindTask`): the host names it, with any number of sessions,
  or there is one session and no turn ends without an answer, for a skipped turn leaves
  its mark to the next. Then the only mark is that of the turn's task (`Marked`), the id
  that is completed is that task's (`Aimed`), and no other task has it (`Asked`). That no client
  is answered with the watchdog's text needs no condition: a task that is old enough is one
  nobody waits for (`InTime`).

`IdempotencyProofs` proves, for any number of calls, keys, ids and tasks, from
`QueueAssumption` and `IdempotencyAssumption`: `KeysTyped`, `ReplayRepeats`,
`ReplayIsMine`, `RepeatsDoNoWork` and, behind them, `KeysSafe`: `ISpec => []IInv`. The
properties speak of a reply and an entry, and only what lies between makes them
inductive: every entry, and every entry a call saw, has an author, a call that has
completed with that key, payload and result (`Authors`); no two calls have the same
task (`OwnTask`), so an entry stored later differs from the one seen; and a call
between the two look-ups either no longer finds what it saw or has its payload
(`Passed`). `QueueUnderKeys` (`ISpec => Spec`) carries the queue's theorems over.

`SSEProofs` proves, for any number of streams and sessions:

- `ReadInOrder` (`ReadingIsInOrder`): what a client has read is in order, without
  repeats, and does not go back from an outcome, as long as the task was handed over once
  and is answered by the session it was handed to (`~crossed`). The order of what was read says
  nothing of what comes next, so the invariant is about the whole line of events a
  stream has: read, then pending (`Reads`). Only what was told is in it; what a
  broadcaster is telling is not yet in the streams it has still to reach, and fits where
  the work on the task is (`Telling`); and while a stream is open its request thread has
  written nothing beyond "working" itself. That `open_stream` and `close_stream` keep one
  entry per stream (`Listed`) is what makes a broadcast over a copied list of ids reach
  a stream at most once.
- `OutcomeTold` (`OutcomesAreTold`): a request thread that ended a stream because it saw
  an outcome has told it. It sees the state by polling, possibly after the broadcaster has
  gone, so the invariant follows what it saw (`Ends`). That it is the state the task still
  has needs that `requeue_tasks` has not put it back after it had left the queue
  (`~revived`); that an outcome is the last the client was told does not.
- `OneSessionReadsInOrder`: with one session, as where the gateway runs one agent,
  the sessions cannot cross (`Alone`: what was handed over is marked before that session
  does anything else), so that order and no repeats hold without the condition,
  whatever is cancelled and put back.

`FrontDoorProofs` proves, from `LimiterAssumption` and `FrontDoorAssumption`, for any number
of callers, threads, tasks and requests, any size of bucket and of page:

- `GrantsBounded` (`GrantsAreBounded`). A thread may refill with a time older than the
  last refill, and the bucket may then go below zero, by `MaxLag` at most; what never
  grows is `spent + tokens - last_refill` (`Paid`), so that tokens are neither accrued
  twice nor lost. A bucket that is not there must not have been worth more than a full
  one: the sweep removes only what has not been touched for longer than a bucket takes to
  fill, and an eviction opens a new window (`Account`). The assumption
  `2 * MaxLag <= Burst` is what makes the sweep safe when it uses an old clock value too.
- `RetryHonoured` (`RetryIsHonoured`), an action property. When a caller is refused its
  bucket is worth nothing less than zero at that time (`Waits`), and a refusal in between
  moves tokens and time together: it could only lose tokens by filling up, and a bucket
  that fills up grants. A bucket that was swept or evicted grants at once.
- `ServerUsesLimiter`: `Spec => RSpec`. A step of the server is one of the limiter's most
  general callers or leaves it alone, so both hold of the server (`LimitsHold`).
- `RepliesSound` (`RepliesAreSound`): until a request is done nothing is written for it, and
  only one that waits for its answer has changed anything (`Open`); what is written at the
  end is one response, and a refusal only where nothing was changed (`Closed`). The two
  exceptions are part of the property: a REST handler that raises writes nothing, and a
  SendMessage of JSON-RPC that is refused is answered by exactly its refusal, 409 or 503,
  and a 200. One that is accepted is answered once.
- `NoTaskSkipped` (`NoTaskIsSkipped`). What a walk was promised and has not told is listed
  behind its offset, and still there (`Passed`). An enqueue moves entries away from
  the walk and a removal towards it, so that only one on the pages already passed can carry
  an untold task past the offset. The proof is why `shifted` is about the place of what
  is removed: with three tasks, one that was added meanwhile and never told can be
  forgotten too. That an id has two entries only while a task of it is pending
  (`Entries`) bounds what is removed to one entry at a time.

`OutboundProofs` proves `NoOrphan` for any number of calls and ids, calls that share an
id included (`WorkersAreOwned`). Without the rest of the invariant it is not inductive,
since a cancel acts on a process it looked up earlier: everything a registry or a
cancel holds has been started (`Registered`, `Holding`), and a process that was
started never runs again once it has ended (`Forward`), so that a signal sent late
changes nothing for the worse (`EndKeeps`); a handler past its wait has no running worker
(`Owned`), whichever call ended it.

It also proves

- `GrantsSpaced`, for any window, limit and lag, and whatever else the calls do
  (`CallsAreSpaced`). `Drops` drops timestamps from the head only, and timestamps are
  appended out of order, so an old one may stay behind a recent one; what is invariant is
  that the grants are those of dropped timestamps, all of them a window ago less the lag,
  followed by one for each timestamp that is kept (`Stamped`), and that a call about to
  take the lock has read the clock at most `MaxLag` ago (`Lagging`);
- `ReportTrue` (`ReportsAreTrue`), for any number of polls and restarts. What a send
  returns is what it saw last, so the invariant follows the send through its polls
  (`Polling`): what it has seen was the case on the server (`Known`), and while the server
  has not restarted, the task has got at least as far as any answer told of (`Tracks`). That
  "lost" is only said when no poll was answered rests on a count: failed and remaining
  polls together stay below `Attempts` once one was answered;
- `WorkersSound` (`WorkersAreSound`): the types, the bound on timestamps, and that a
  running worker is registered under its id while its handler waits, unless another call
  runs one under that id on its machine; of two with one id the first to end unregisters
  the other, and nothing is claimed.

`AftermathProofs` proves, from `PushAssumption`, `ConversationsAssumption` and
`AftermathAssumption`, for any number of sessions and subscribers:

- `SavedExactly` (`SavedIsKept`): whatever fails, and wherever the process dies, what was
  saved is on disk, as long as no rotated file was overwritten by another of the same
  second, and nothing is there twice. Nothing is said of the order of the exchanges. What
  is on disk does not say why the file may be replaced: the
  holder of the lock has read the file as it still is (`Prepared`), only one thread is
  between lock and replacement, and nobody's exchange is on disk before its save is done
  (`NothingElse`), so that no save can add a second copy.
- `TypeOK` (`TypesHold`), with what a thread that tells is about to do (`Turns`).
- `CopiesBounded` (`CopiesAreBounded`). Copies that have arrived or are in flight are
  charged to attempts: a pair of a session and an attempt number is spent once it was made
  or can no longer be made (`Spent`), and there are never more copies than pairs spent
  (`Counted`). A late arrival moves a copy from in flight to heard and spends nothing.
- `ToldInOrder` (`TellingIsInOrder`), for the subscribers that at most one session tells
  (`OneTells`): the one that was handed their task, if no other answers it. For the others
  it fails: without the condition TLC finds a session that completes and tells the task
  of another between that one's mark and its telling. Which task a session answers
  is known only when it answers, so the condition is about the state; once it fails it
  fails for good (`OneTold`).

`GatewayProofs` proves, for any number of threads, servers, ports, loads, relays and
registrations, and from the types of its state (`TypesKept`):

- `OneServer` (`OneServerRuns`) and the action property `ShutdownReaches`
  (`ShutdownReachesAll`). They speak of what serves, and starting and shutting down
  each pass through half a dozen states in which a server is bound, remembered or
  asked to stop but not yet, or no longer, named. So `ServerInv` says of each such server
  which thread is about it (`Accounted`), of each thread what its server is doing (`Hands`),
  and that no two are about the same one (`Apart`). That much holds of every run, and that a
  loaded plugin is served of every one in which no ending thread was taken for a
  running server (`hasty`). While no two threads were inside `_start_a2a_server` at once,
  what runs is what `_server_process` remembers (`Remembered`). While `__init__` of the
  singleton ran once, too, the runtime state names what serves, and during `on_shutdown`
  the server it is for or one that is younger (`Named`): servers are made in order, so
  "younger" is what "begun since" means. The exceptions are hazards of the code
  (section 3, "Plugin and identities").
- `RelaysTold` (`RelaysAreTold`): the metrics are compared with the set of relays that got
  so far (`Delivered`, `Failed`). A relay may hold metrics that a second `__init__` has
  replaced; `Given` says that the number of `__init__`s it saw was reached, so that with one
  of them what it counts in is what the state has.
- `LoggersBounded` (`LoggersAreBounded`): all loggers alive but the last one were missed by a
  join (`Earlier`), and between the join and the start the last one is such a logger too.
- `RegistryReadable` (`RegistryStaysReadable`): unless two registrations met, only one has
  the file open.

Beyond the types of the constants the proofs assume that servers are numbered from 1 as
they are made; that a thread is one call of one tool; that the authors of an identity are
none of the words for a file without one; that there are finitely many relays, since
they are counted; and that `Deliveries` is at least 1. The last is a condition on the
setting `A2A_WEBHOOK_DELIVERY_RETRIES`, 3 by default (`tool_handlers.py:1370`), and
`DeliveryTold` needs it: with 0 no post is made and the message is reported delivered
(section 3). The others are how the model names things.

## 6. Only model-checked

Liveness (`EveryRequestAnswered`, `OutcomeHeard`, `StreamsEnd`, `ExpiredLeaves`,
`SessionsGoOn`, `EveryCallEnds`, `EverythingEnds`) is beyond the prover. The refinement
`StatusPromise` of `TaskLifecycle` is checked on the instance above. The types of
`TaskLifecycle` and `Idempotency` are only proved.

## 7. Plan

Done: `TaskQueue`, `TaskLifecycle`, `TaskStatus`, `SSEStreams`, `Idempotency`,
`RateLimiter`, `FrontDoor`, `Push`, `Conversations`, `Aftermath`, `ToolCalls`, `Workers`,
`ProtocolClient`, `Outbound`, `RuntimeState`, `Plugin`, `Relay`, `Gateway`, and the proofs of section 5.

Next, in this order:

1. Proofs: `StatusPromise` under the conditions of `MCParallel`.
2. `ProtocolClient` against `TaskStatus` as its remote server, by refinement.
3. Several processes that share a conversation file.

## 8. Not modelled

- The text filters and host checks of `security.py`, rendering and parsing of
  messages, agent cards, schemas and tool definitions, Telegram formatting: functions
  of strings without state. The audit log only appends.
- The store of push configurations (`push_delivery.py:184`): a dictionary behind a lock,
  from which nothing is delivered. The artifact push of a request thread: a second
  fan-out like the one in `Aftermath`.
- `update_exchange` and `clear()` of the runtime state, which nothing in the package calls.
- The attempts of a webhook delivery, which are inside its one outcome: one that arrives
  twice starts another turn, and `TaskLifecycle` lets a turn start at any time.
- A disabled rate limiter, which has no state. SIGKILL is taken to end a worker
  within the last wait.
- The agent itself, its gateway and the programs of remote servers are external.
