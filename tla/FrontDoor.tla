----------------------------- MODULE FrontDoor -----------------------------
(***************************************************************************)
(* The HTTP surface of the server (server.py): routing, authentication,    *)
(* the rate limiter, the checks of the body, and the handlers of the REST  *)
(* and JSON-RPC routes, up to what each writes back.                       *)
(*                                                                         *)
(* A request thread serves one request after another.  The task table is   *)
(* what the handlers see of the queue; how a task is worked on is in       *)
(* TaskLifecycle, streams are in SSEStreams, push configurations in Push.  *)
(***************************************************************************)
EXTENDS RateLimiter, SequencesExt

CONSTANTS
  Requests,     \* records: what clients may send, see RequestFields
  Tasks,
  RequireAuth,  \* A2A_REQUIRE_AUTH
  TokenSet,     \* whether A2A_AUTH_TOKEN is set
  PageSize      \* page size of the client that lists tasks

\* via: GET, or POST to a REST route or to JSON-RPC.  "send" is SendMessage and
\* message:stream.  body: what is wrong with it; a "malformed" one makes the
\* handler raise, an "idle" one has no text or says return_immediately.
RequestFields ==
  [via : {"get", "rest", "rpc"}, op : {"send", "get", "cancel", "list", "subscribe", "health"},
   task : Tasks, name : Names, remote : BOOLEAN, bearer : BOOLEAN,
   body : {"ok", "length", "long", "parse", "version", "method", "unknown", "malformed", "idle"}]

ASSUME FrontDoorAssumption ==
  /\ Requests \subseteq RequestFields /\ Requests # {} /\ PageSize \in Nat \ {0}
  /\ RequireAuth \in BOOLEAN /\ TokenSet \in BOOLEAN

VARIABLES
  request,  \* the one each thread serves or served last
  stage,    \* how far it is with it
  reply,    \* the HTTP status of each response written for it
  changed,  \* whether it has changed a task
  state,    \* get_status of each task
  order,    \* the snapshot of _pending and _completed, newest first
  walk      \* the client that follows ListTasks from page to page

gate == <<request, stage, reply, changed>>
vars == <<limiter, gate, state, order, walk>>

Terminal == {"completed", "canceled"}
NoWalk == [offset |-> 0, told |-> {}, began |-> {}, shifted |-> FALSE, over |-> FALSE]

Init ==
  /\ RInit
  /\ request \in [Threads -> {CHOOSE q \in Requests : TRUE}]
  /\ stage = [t \in Threads |-> "done"]
  /\ reply = [t \in Threads |-> <<200>>]
  /\ changed = [t \in Threads |-> FALSE]
  /\ state = [i \in Tasks |-> "unknown"]
  /\ order = <<>>
  /\ walk = NoWalk

-----------------------------------------------------------------------------
(***************************************************************************)
(* Routing and the gates in front of the handlers.                         *)
(***************************************************************************)
\* _check_auth: a local peer needs no token, and is refused whatever it sends
\* when authentication is required.
Authorised(q) == IF q.remote THEN TokenSet /\ q.bearer ELSE ~RequireAuth

\* GET routes ask for it only if it is required, /health never.
Admitted(q) ==
  IF q.via = "get" THEN q.op = "health" \/ ~RequireAuth \/ Authorised(q) ELSE Authorised(q)

\* Where a request goes first.
Gate(q) == IF ~Admitted(q) THEN "refuse" ELSE IF q.via = "get" THEN "handle" ELSE "limit"

Go(t, to, statuses, changes) ==
  /\ stage' = [stage EXCEPT ![t] = to]
  /\ reply' = [reply EXCEPT ![t] = @ \o statuses]
  /\ changed' = [changed EXCEPT ![t] = @ \/ changes]
  /\ UNCHANGED request

Answer(t, status) == Go(t, "done", <<status>>, FALSE)

Listing(t) == stage[t] # "done" /\ request[t].op = "list"

Receive(t, q) ==
  /\ stage[t] = "done"
  /\ q.op = "list" => \A u \in Threads : ~Listing(u)
  /\ request' = [request EXCEPT ![t] = q]
  /\ stage' = [stage EXCEPT ![t] = IF Gate(q) = "refuse" THEN "done" ELSE Gate(q)]
  /\ reply' = [reply EXCEPT ![t] = IF Gate(q) = "refuse" THEN <<401>> ELSE <<>>]
  /\ changed' = [changed EXCEPT ![t] = FALSE]
  /\ UNCHANGED <<limiter, state, order, walk>>

\* limiter.allow reads the clock ...
AskLimiter(t) ==
  /\ stage[t] = "limit"
  /\ ReadClock(t)
  /\ UNCHANGED <<gate, state, order, walk>>

\* What the checks of length, JSON, version and method answer; the last two are
\* made of JSON-RPC only.
Faults == {"length", "long", "parse"}
RpcFaults == Faults \cup {"version", "method", "unknown"}
Faulty(q) == q.body \in (IF q.via = "rpc" THEN RpcFaults ELSE Faults)
FaultStatus(q) == CASE q.body = "long" -> 413 [] q.body = "unknown" -> 404 [] OTHER -> 400

\* ... and counts the request; then the body is checked.
Limit(t) ==
  /\ stage[t] = "limit"
  /\ Allow(t, request[t].name)
  /\ IF ~Granted(request[t].name, now[t]) THEN Answer(t, 429)
     ELSE IF Faulty(request[t]) THEN Go(t, "done", <<FaultStatus(request[t])>>, FALSE)
     ELSE Go(t, "handle", <<>>, FALSE)
  /\ UNCHANGED <<state, order, walk>>

-----------------------------------------------------------------------------
(***************************************************************************)
(* The handlers.                                                           *)
(***************************************************************************)
Handles(t, op) == stage[t] = "handle" /\ request[t].op = op /\ request[t].body # "malformed"

\* A handler raises: GET and JSON-RPC answer for it, a REST route does not.
Raise(t) ==
  /\ stage[t] = "handle" /\ request[t].body = "malformed"
  /\ Go(t, "done", IF request[t].via = "rest" THEN <<>> ELSE <<500>>, FALSE)
  /\ UNCHANGED <<limiter, state, order, walk>>

Task(t) == request[t].task

\* A send that is refused has been answered when _handle_task_send returns None,
\* and _rpc_send_message answers again.
Refusal(t, status) == IF request[t].via = "rpc" THEN <<status, 200>> ELSE <<status>>

Taken(i) == i \in ToSet(order)

\* A message without text, or one to return at once for, is answered without being
\* enqueued.  _prepare_and_enqueue: the collision check ...
SendCheck(t) ==
  /\ Handles(t, "send")
  /\ IF request[t].body = "idle" THEN Answer(t, 200)
     ELSE IF Taken(Task(t)) THEN Go(t, "done", Refusal(t, 409), FALSE)
     ELSE Go(t, "enqueue", <<>>, FALSE)
  /\ UNCHANGED <<limiter, state, order, walk>>

\* ... and the enqueue, or the queue is full.  A task that another request has
\* enqueued since is refused while it is pending, and enqueued anew when it is over.
SendEnqueue(t) ==
  /\ stage[t] = "enqueue"
  /\ \/ Go(t, "done", Refusal(t, 503), FALSE) /\ UNCHANGED <<state, order, walk>>
     \/ /\ state[Task(t)] # "submitted"
        /\ Go(t, "wait", <<>>, TRUE)
        /\ state' = [state EXCEPT ![Task(t)] = "submitted"]
        /\ order' = <<Task(t)>> \o order
        /\ walk' = [walk EXCEPT !.began = @ \ {Task(t)}]
  /\ UNCHANGED limiter

\* Answered with the result or, after a timeout, with an offer to poll.
SendAnswer(t) ==
  /\ stage[t] = "wait"
  /\ Answer(t, 200)
  /\ UNCHANGED <<limiter, state, order, walk>>

GetTask(t) ==
  /\ Handles(t, "get")
  /\ Answer(t, IF state[Task(t)] = "unknown" THEN 404 ELSE 200)
  /\ UNCHANGED <<limiter, state, order, walk>>

\* Mutant: the state is not looked at.
CancelCheckBlind(t) ==
  /\ Handles(t, "cancel")
  /\ state' = [state EXCEPT ![Task(t)] = IF @ = "unknown" THEN @ ELSE "canceled"]
  /\ Go(t, "done", <<IF state[Task(t)] \in Terminal THEN 409 ELSE 404>>, TRUE)
  /\ UNCHANGED <<limiter, order, walk>>

\* _cancel_task_core looks at the state ...
CancelCheck(t) ==
  /\ Handles(t, "cancel")
  /\ IF state[Task(t)] = "unknown" THEN Answer(t, 404)
     ELSE IF state[Task(t)] \in Terminal THEN Answer(t, 409)
     ELSE Go(t, "cancel", <<>>, FALSE)
  /\ UNCHANGED <<limiter, state, order, walk>>

\* An entry leaves the list; all behind it move up, past a walk that has gone by.
Leaves(k) ==
  /\ order' = RemoveAt(order, k)
  /\ walk' = [walk EXCEPT !.began = @ \cap ToSet(RemoveAt(order, k)),
                         !.shifted = @ \/ (~walk.over /\ k <= walk.offset)]

\* The entry of a task that was over when its id was enqueued anew.
Older(i) == {k \in DOMAIN order : \E j \in DOMAIN order : j < k /\ order[j] = i /\ order[k] = i}

\* From _pending to _completed, where it takes the place of an older one.
Retire(i, outcome) ==
  /\ state' = [state EXCEPT ![i] = outcome]
  /\ \/ Older(i) = {} /\ UNCHANGED <<order, walk>>
     \/ \E k \in Older(i) : Leaves(k)

\* ... and cancels, a no-op for a task that is over by then.
Cancel(t) ==
  /\ stage[t] = "cancel"
  /\ Go(t, "done", <<200>>, TRUE)
  /\ \/ state[Task(t)] = "submitted" /\ Retire(Task(t), "canceled")
     \/ state[Task(t)] # "submitted" /\ UNCHANGED <<state, order, walk>>
  /\ UNCHANGED limiter

\* A stream answers 200 whatever comes of it, but for the GET of an unknown task;
\* JSON-RPC has looked at the task before, and reports an unknown one inside a 200.
\* /health and the cards are 200 too.
Subscribe(t) ==
  /\ Handles(t, "subscribe") \/ Handles(t, "health")
  /\ IF request[t].op = "subscribe" /\ request[t].via = "get" /\ state[Task(t)] = "unknown"
     THEN Answer(t, 404)
     ELSE Answer(t, 200)
  /\ UNCHANGED <<limiter, state, order, walk>>

\* Mutant: off by one.
HasMoreLate(offset) == Len(order) > offset + PageSize + 1

\* _build_paginated_task_list: the token is an offset into the list as it is now.
Page(offset) == SubSeq(order, offset + 1, Lesser(Len(order), offset + PageSize))
HasMore(offset) == Len(order) > offset + PageSize

\* The client begins with no token, follows nextPageToken, and begins anew.
List(t) ==
  /\ Handles(t, "list")
  /\ LET w == IF walk.over THEN NoWalk ELSE walk
     IN walk' = [offset |-> w.offset + PageSize,
                 told |-> w.told \cup ToSet(Page(w.offset)),
                 began |-> IF w.offset = 0 THEN ToSet(order) ELSE w.began,
                 shifted |-> w.shifted,
                 over |-> ~HasMore(w.offset)]
  /\ Answer(t, 200)
  /\ UNCHANGED <<limiter, state, order>>

-----------------------------------------------------------------------------
\* What the agent and the cache of completed tasks do to the table.
Finish(i) ==
  /\ state[i] = "submitted"
  /\ Retire(i, "completed")
  /\ UNCHANGED <<limiter, gate>>

\* get_status still knows a task that the cache has dropped.
Forget(k) ==
  /\ state[order[k]] \in Terminal \/ k \in Older(order[k])
  /\ Leaves(k)
  /\ UNCHANGED <<limiter, gate, state>>

Handle(t) ==
  \/ Raise(t) \/ SendCheck(t) \/ SendEnqueue(t) \/ SendAnswer(t) \/ GetTask(t)
  \/ CancelCheck(t) \/ Cancel(t) \/ Subscribe(t) \/ List(t)

Housekeeping ==
  /\ Tick \/ ReadClock(Sweeper) \/ Sweep \/ \E c \in Names : Observe(c)
  /\ UNCHANGED <<gate, state, order, walk>>

Next ==
  \/ Housekeeping
  \/ \E t \in Threads :
       \/ \E q \in Requests : Receive(t, q)
       \/ AskLimiter(t) \/ Limit(t) \/ Handle(t)
  \/ \E i \in Tasks : Finish(i)
  \/ \E k \in DOMAIN order : Forget(k)

Spec == Init /\ [][Next]_vars

-----------------------------------------------------------------------------
(***************************************************************************)
(* Properties; GrantsBounded and RetryHonoured of RateLimiter besides.     *)
(***************************************************************************)
\* A task is listed once, and twice while it is pending and an older one is kept.
ListedOnce ==
  \A k \in DOMAIN order :
    /\ state[order[k]] # "unknown"
    /\ k \in Older(order[k]) => /\ state[order[k]] = "submitted"
                               /\ \A j \in Older(order[k]) : j = k

TypeOK ==
  /\ RTypeOK
  /\ request \in [Threads -> Requests]
  /\ stage \in [Threads -> {"done", "limit", "handle", "enqueue", "wait", "cancel"}]
  /\ \A t \in Threads : reply[t] \in Seq(200 .. 503) /\ changed[t] \in BOOLEAN
  /\ state \in [Tasks -> {"unknown", "submitted"} \cup Terminal]
  /\ order \in Seq(Tasks) /\ ListedOnce
  /\ walk.told \subseteq Tasks /\ walk.began \subseteq Tasks

\* A request that is answered with a client error or with "busy" has changed no
\* task, whatever others did to the task between the checks it was refused by.
RefusedWithoutTrace ==
  \A t \in Threads : reply[t] # <<>> /\ Head(reply[t]) \in {400, 401, 404, 409, 413, 429, 503}
    => ~changed[t]

\* A SendMessage of JSON-RPC that was refused has been told so, and then 200.
RefusedSend(q, statuses) ==
  q.via = "rpc" /\ q.op = "send" /\ statuses \in {<<409, 200>>, <<503, 200>>}

\* Every request is answered once, also across checks that answer for themselves;
\* but for a REST handler that raises, and a SendMessage of JSON-RPC that is refused
\* (one that is enqueued is answered once, after it has waited).
AnsweredOnce ==
  \A t \in Threads : stage[t] = "done" =>
    \/ Len(reply[t]) = 1
    \/ request[t].via = "rest" /\ request[t].body = "malformed" /\ reply[t] = <<>>
    \/ RefusedSend(request[t], reply[t])

\* Both hold of every reply; and every field has its type.
RepliesSound == TypeOK /\ RefusedWithoutTrace /\ AnsweredOnce

\* A client that follows nextPageToken to the end has been told every task there
\* was when it began and is still there, while others are added, finish and are
\* forgotten, unless one on the pages it has passed was forgotten meanwhile.
NoTaskSkipped == walk.over /\ ~walk.shifted => walk.began \subseteq walk.told
=============================================================================
