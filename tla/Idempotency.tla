---------------------------- MODULE Idempotency ------------------------------
(***************************************************************************)
(* SendMessage calls that carry an idempotency key: the request threads of *)
(* server.py between IdempotencyStore (persistence.py) and the task queue. *)
(* The store's lock and the queue's are taken and released several times   *)
(* on the way, and minutes lie between the look-up of a key and the moment *)
(* its result is stored, so every critical section is an action.           *)
(*                                                                         *)
(* The queue is that of module TaskQueue; the agent, CancelTask and the    *)
(* webhook callback act on it as its most general caller would.  Calls     *)
(* without a key are in TaskLifecycle.                                     *)
(*                                                                         *)
(* Time is two facts: a wait may time out, and a stored entry may grow     *)
(* older than its TTL.                                                     *)
(***************************************************************************)
EXTENDS TaskQueue

CONSTANTS
  Requests,    \* SendMessage calls, each served by a thread of its own
  Streaming,   \* those posted to message:stream
  Wants,       \* Wants[r]: the task id call r asks for, or is given as a uuid
  Keys,        \* idempotency keys
  Key,         \* Key[r]: the key of call r
  Hash,        \* Hash[r]: _payload_hash of its parameters
  NoEntry      \* an absent entry

ASSUME IdempotencyAssumption ==
  /\ Streaming \subseteq Requests
  /\ Wants \in [Requests -> TaskIds]
  /\ Key \in [Requests -> Keys]
  /\ DOMAIN Hash = Requests
  /\ NoEntry \notin [hash : {Hash[r] : r \in Requests},
                     result : [task : Task, text : Response], live : BOOLEAN]

\* A Task object as a client gets it: whose task, and its text.
Result == [task : Task, text : Response]
NoResult == [task |-> 0, text |-> NoResponse]

\* _store[key] without the id; live is time.time() <= expires_at.
Entry == [hash : {Hash[r] : r \in Requests}, result : Result, live : BOOLEAN]

Phase == {"unsent", "received", "checked", "conflict", "replayed", "missed", "unused",
          "busy", "waiting", "streaming", "answered", "completed", "late", "working"}

VARIABLES
  store,   \* IdempotencyStore._store
  rpc,     \* where each request thread is
  rtask,   \* the task object it enqueued, 0 before
  reply,   \* the result it answers with
  seen     \* history: the entry of its key when the call was received

requestVars == <<rpc, rtask, reply, seen>>
vars == <<qvars, store, requestVars>>

IInit ==
  /\ Init
  /\ store = [k \in Keys |-> NoEntry]
  /\ rpc = [r \in Requests |-> "unsent"]
  /\ rtask = [r \in Requests |-> 0]
  /\ reply = [r \in Requests |-> NoResult]
  /\ seen = [r \in Requests |-> NoEntry]

-----------------------------------------------------------------------------
(***************************************************************************)
(* IdempotencyStore, each operation under its lock.                        *)
(***************************************************************************)
Has(k) == store[k] # NoEntry
Live(k) == Has(k) /\ store[k].live

\* Both look-ups delete the entry they find expired.
DropIfExpired(k) ==
  store' = IF Has(k) /\ ~Live(k) THEN [store EXCEPT ![k] = NoEntry] ELSE store

\* Mutant: the hashes are not compared.
ConflictIgnored(k, h) == FALSE

\* check_conflict answers True.
Conflict(k, h) == Live(k) /\ store[k].hash # h

\* Mutant: only live entries are removed.
EvictLive(S) == {k \in S : Live(k)}

\* The keys evict_expired removes.
Evicted(S) == {k \in S : Has(k) /\ ~Live(k)}

\* evict_expired, from the cleanup thread.
Evict ==
  /\ Evicted(Keys) # {}
  /\ store' = [k \in Keys |-> IF k \in Evicted(Keys) THEN NoEntry ELSE store[k]]
  /\ UNCHANGED <<qvars, requestVars>>

Aged(e) == [hash |-> e.hash, result |-> e.result, live |-> FALSE]

\* The TTL of an entry passes.
Expire(k) ==
  /\ Live(k)
  /\ store' = [store EXCEPT ![k] = Aged(@)]
  /\ UNCHANGED <<qvars, requestVars>>

-----------------------------------------------------------------------------
(***************************************************************************)
(* A request thread: _prepare_and_enqueue ...                              *)
(***************************************************************************)
Moves(r, from, to) ==
  /\ rpc[r] = from
  /\ rpc' = [rpc EXCEPT ![r] = to]

\* A client sends the call; sanitizing and the sender's name are done before
\* the key is looked at, so Hash[r] is final.
Receive(r) ==
  /\ Moves(r, "unsent", "received")
  /\ seen' = [seen EXCEPT ![r] = store[Key[r]]]
  /\ UNCHANGED <<qvars, store, rtask, reply>>

\* check_conflict
CheckConflict(r) ==
  /\ Moves(r, "received", IF Conflict(Key[r], Hash[r]) THEN "conflict" ELSE "checked")
  /\ DropIfExpired(Key[r])
  /\ UNCHANGED <<qvars, rtask, reply, seen>>

\* Mutant: the entry of the first answer is not found.
LookUpBlind(r) ==
  /\ Moves(r, "checked", "missed")
  /\ UNCHANGED <<qvars, store, rtask, reply, seen>>

\* get: whatever entry is there by now is replayed.
LookUp(r) ==
  /\ IF Live(Key[r])
     THEN /\ Moves(r, "checked", "replayed")
          /\ reply' = [reply EXCEPT ![r] = store[Key[r]].result]
     ELSE Moves(r, "checked", "missed") /\ UNCHANGED reply
  /\ DropIfExpired(Key[r])
  /\ UNCHANGED <<qvars, rtask, seen>>

\* find_task_by_id
CheckCollision(r) ==
  /\ Moves(r, "missed", IF FindTaskById(Wants[r]) # 0 THEN "conflict" ELSE "unused")
  /\ UNCHANGED <<qvars, store, rtask, reply, seen>>

\* enqueue.  A stream is served without waiting for ready, and stores nothing:
\* what follows is in SSEStreams.
Accept(r) ==
  /\ Moves(r, "unused", IF r \in Streaming THEN "streaming" ELSE "waiting")
  /\ Enqueue(Wants[r])
  /\ rtask' = [rtask EXCEPT ![r] = created + 1]
  /\ UNCHANGED <<store, reply, seen>>

Busy(r) ==
  /\ Moves(r, "unused", "busy")
  /\ ~CanEnqueue(Wants[r])
  /\ UNCHANGED <<qvars, store, rtask, reply, seen>>

(***************************************************************************)
(* ... and _enqueue_and_await_task.                                        *)
(***************************************************************************)

\* ready is set, or the wait ended just after the response came: the response
\* is read and the result built from it.
Answer(r) ==
  /\ Moves(r, "waiting", "answered")
  /\ response[rtask[r]] # NoResponse
  /\ reply' = [reply EXCEPT ![r] = [task |-> rtask[r], text |-> response[rtask[r]]]]
  /\ UNCHANGED <<qvars, store, rtask, seen>>

\* Mutant: the result is built anew from the task.
RereadResult(r) == [task |-> rtask[r], text |-> response[rtask[r]]]

\* The result that is stored is the one that is returned.
ResultOf(r) == reply[r]

\* set, whatever entry is there by now; then the reply is sent.
Save(r) ==
  /\ Moves(r, "answered", "completed")
  /\ store' = [store EXCEPT ![Key[r]] =
                 [hash |-> Hash[r], result |-> ResultOf(r), live |-> TRUE]]
  /\ UNCHANGED <<qvars, rtask, reply, seen>>

\* wait() timed out and task.response was still None ...
TimeOut(r) ==
  /\ Moves(r, "waiting", "late")
  /\ response[rtask[r]] = NoResponse
  /\ UNCHANGED <<qvars, store, rtask, reply, seen>>

\* ... so the reply is "working" and nothing is stored.
Abandon(r) ==
  /\ Moves(r, "late", "working")
  /\ GiveUp(rtask[r])
  /\ UNCHANGED <<store, rtask, reply, seen>>

-----------------------------------------------------------------------------
\* The agent answers, CancelTask cancels, a delivery fails: the failure callback
\* tests for None and writes later, so it may overwrite an answer.
OthersAct ==
  /\ \/ \E i \in TaskIds : Cancel(i) \/ \E a \in Answers : Complete(i, a)
     \/ \E t \in Task, f \in FailTexts : FailResponse(t, f)
  /\ UNCHANGED <<store, requestVars>>

RequestStep(r) ==
  \/ CheckConflict(r) \/ LookUp(r) \/ CheckCollision(r) \/ Accept(r) \/ Busy(r)
  \/ Answer(r) \/ Save(r) \/ TimeOut(r) \/ Abandon(r)

INext ==
  \/ \E r \in Requests : Receive(r) \/ RequestStep(r)
  \/ \E k \in Keys : Expire(k)
  \/ Evict
  \/ OthersAct

ISpec == IInit /\ [][INext]_vars

\* The cleanup thread starts with the first look-up and wakes up every
\* cleanup interval; its loop survives exceptions.
IFairSpec == ISpec /\ WF_vars(Evict)

-----------------------------------------------------------------------------
(***************************************************************************)
(* What the key promises.                                                  *)
(***************************************************************************)

\* Every field has its type.
ITypeOK ==
  /\ TypeOK
  /\ store \in [Keys -> Entry \cup {NoEntry}]
  /\ rpc \in [Requests -> Phase]
  /\ rtask \in [Requests -> 0 .. created]
  /\ reply \in [Requests -> Result \cup {NoResult}]
  /\ seen \in [Requests -> Entry \cup {NoEntry}]

\* A call that is received after its key has a result does no work as long as
\* that entry is there, on whichever transport it comes: no expiry, eviction or
\* later answer between the two look-ups lets a repetition through to the queue.
RepeatNeverWorks ==
  [][\A r \in Requests :
       rpc[r] = "unused" /\ rpc'[r] \in {"waiting", "streaming"} =>
         ~Has(Key[r]) \/ store[Key[r]] # seen[r]]_vars

\* A replayed result is, word for word, what the call that did the work answered
\* with, although the task's response may have been overwritten since by a failed
\* delivery, a cancel or a late answer.
ReplayIsFirstReply ==
  \A r \in Requests : rpc[r] = "replayed" =>
    \E q \in Requests :
      rpc[q] = "completed" /\ Key[q] = Key[r] /\ reply[q] = reply[r]

\* A call is replayed the result of another payload at most if that result was
\* stored while the call was under way.
ReplayNotOthers ==
  \A r, q \in Requests :
    /\ rpc[r] = "replayed"
    /\ rtask[q] = reply[r].task
    /\ seen[r] # NoEntry /\ seen[r].result = reply[r]
    => Hash[q] = Hash[r]

\* An entry whose TTL has passed leaves the store, even if nobody asks for its
\* key again: it is evicted, found expired, or replaced by a newer result.
ExpiredLeaves == \A k \in Keys : Has(k) /\ ~Live(k) ~> ~Has(k) \/ Live(k)

\* "On replay with the same key + different payload, raises KeyConflictError"
\* (persistence.py:43): nobody is replayed the result of another payload.
ReplayIsSamePayload ==
  \A r, q \in Requests :
    rpc[r] = "replayed" /\ rtask[q] = reply[r].task => Hash[q] = Hash[r]
=============================================================================
