-------------------------------- MODULE Push --------------------------------
(***************************************************************************)
(* Push notifications: the store of subscriptions (subscription_store.py), *)
(* and threads that tell the subscribers of a task of an event, each with  *)
(* retries (push_delivery.py; the callers are in hooks.py and server.py).  *)
(* Subscription ids are new ones each time, so one names its subscriber;   *)
(* it is for one task.                                                     *)
(***************************************************************************)
EXTENDS Integers, FiniteSets

CONSTANTS
  Tasks,
  Subs,          \* subscriptions
  TaskOf,        \* the task each is for
  Tellers,       \* threads that tell
  MaxAttempts,   \* _DEFAULT_MAX_ATTEMPTS
  CleanupAbove,  \* add cleans up when there are more subscriptions than this
  MaxFailures    \* bound of the model: deliveries that fail

Nobody == "nobody"

ASSUME PushAssumption ==
  /\ Nobody \notin Subs /\ TaskOf \in [Subs -> Tasks]
  /\ MaxAttempts \in Nat \ {0} /\ CleanupAbove \in Nat /\ MaxFailures \in Nat

VARIABLES
  store,      \* the keys of _store
  by_task,    \* _by_task
  issued,     \* ids given out so far
  telling,    \* per thread: the event, who is still to be told, the one being told
  inflight,   \* requests that timed out and may still arrive
  heard,      \* how often each subscriber's endpoint received which event
  misled,     \* endpoints that heard "working" after "completed"
  failures,   \* how many deliveries failed
  delayed     \* subscribers of whose requests one was given up while under way

subscriptions == <<store, by_task, issued>>
network == <<inflight, heard, misled, delayed, failures>>

Events == {"working", "completed"}
pushing == <<subscriptions, telling, network>>

Idle == [event |-> "none", to |-> {}, sub |-> Nobody, attempt |-> 0]

\* Some subscriptions may have come and gone.
PInit ==
  /\ store = {} /\ issued \in SUBSET Subs
  /\ by_task = [i \in Tasks |-> {}]
  /\ telling = [b \in Tellers |-> Idle]
  /\ inflight = {} /\ delayed = {} /\ failures = 0
  /\ heard = [s \in Subs |-> [e \in Events |-> 0]] /\ misled = {}

-----------------------------------------------------------------------------
\* What add may remove first: any that are older than max_age by then.
Cleaned == IF Cardinality(store) > CleanupAbove THEN SUBSET store ELSE {{}}

\* _handle_push_subscribe and add.
Subscribe(s) ==
  /\ s \notin issued
  /\ issued' = issued \cup {s}
  /\ \E gone \in Cleaned :
       /\ store' = (store \ gone) \cup {s}
       /\ by_task' = [i \in Tasks |-> (by_task[i] \ gone) \cup (IF TaskOf[s] = i THEN {s} ELSE {})]
  /\ UNCHANGED <<telling, network>>

\* Mutant: the index of the task is left as it is.
RemoveFromStore(s) == store' = store \ {s} /\ by_task' = by_task

\* remove
Withdraw(s) ==
  /\ store' = store \ {s}
  /\ by_task' = [by_task EXCEPT ![TaskOf[s]] = @ \ {s}]

\* _handle_push_unsubscribe
Unsubscribe(s) ==
  /\ s \in store
  /\ Withdraw(s)
  /\ UNCHANGED <<issued, telling, network>>

\* get: age is not looked at.
Subscribed(i) == by_task[i] \cap store

Quiet(b) == telling[b] = Idle

\* _push_notifications reads the subscribers once ...
Tell(b, i, event) ==
  /\ Quiet(b)
  /\ telling' = [telling EXCEPT ![b] =
                   IF Subscribed(i) = {} THEN Idle ELSE [Idle EXCEPT !.event = event, !.to = Subscribed(i)]]

\* ... and serves them one after the other, in the order of a set.
Turn(b, s) ==
  /\ telling[b].sub = Nobody /\ s \in telling[b].to
  /\ telling' = [telling EXCEPT ![b].sub = s, ![b].attempt = 1, ![b].to = @ \ {s}]
  /\ UNCHANGED <<subscriptions, network>>

\* Mutant: a failed delivery ends the fan-out.
DoneStops(b) == Idle

\* What a thread goes on with when it is done with a subscriber.
Done(b) == IF telling[b].to = {} THEN Idle ELSE [telling[b] EXCEPT !.sub = Nobody, !.attempt = 0]

Again(b) == [telling[b] EXCEPT !.attempt = @ + 1]

Heard(s, event) ==
  /\ heard' = [heard EXCEPT ![s][event] = @ + 1]
  /\ misled' = IF event = "working" /\ heard[s]["completed"] > 0 THEN misled \cup {s} ELSE misled

\* deliver succeeds ...
Deliver(b) ==
  /\ telling[b].sub # Nobody
  /\ Heard(telling[b].sub, telling[b].event)
  /\ telling' = [telling EXCEPT ![b] = Done(b)]
  /\ UNCHANGED <<subscriptions, inflight, delayed, failures>>

\* Mutant: one attempt too many.
OutOfAttemptsLate(b) == telling[b].attempt > MaxAttempts

OutOfAttempts(b) == telling[b].attempt = MaxAttempts

\* Mutant: a background thread tries again.
FailDeferring(b) ==
  /\ telling[b].sub # Nobody
  /\ failures < MaxFailures /\ failures' = failures + 1
  /\ inflight' = inflight \cup
       {[by |-> b, sub |-> telling[b].sub, event |-> telling[b].event, attempt |-> telling[b].attempt]}
  /\ telling' = [telling EXCEPT ![b] = Done(b)]
  /\ UNCHANGED <<subscriptions, heard, misled, delayed>>

\* ... or fails: the request is lost, arrives and its answer is lost, or may still
\* arrive.  deliver_with_retry tries again, and gives up in the end.
Fail(b) ==
  /\ telling[b].sub # Nobody
  /\ failures < MaxFailures /\ failures' = failures + 1
  /\ LET s == telling[b].sub
         m == [by |-> b, sub |-> s, event |-> telling[b].event, attempt |-> telling[b].attempt]
     IN \/ UNCHANGED <<inflight, heard, misled, delayed>>
        \/ Heard(s, m.event) /\ UNCHANGED <<inflight, delayed>>
        \/ inflight' = inflight \cup {m} /\ delayed' = delayed \cup {s} /\ UNCHANGED <<heard, misled>>
  /\ telling' = [telling EXCEPT ![b] = IF OutOfAttempts(b) THEN Done(b) ELSE Again(b)]
  /\ UNCHANGED subscriptions

Arrive(m) ==
  /\ inflight' = inflight \ {m}
  /\ Heard(m.sub, m.event)
  /\ UNCHANGED <<subscriptions, telling, delayed, failures>>

Telling(b) == Deliver(b) \/ Fail(b) \/ \E s \in Subs : Turn(b, s)

Push ==
  \/ \E s \in Subs : Subscribe(s) \/ Unsubscribe(s)
  \/ \E b \in Tellers : Telling(b)
  \/ \E m \in inflight : Arrive(m)

-----------------------------------------------------------------------------
(***************************************************************************)
(* Properties.                                                             *)
(***************************************************************************)
\* The two dictionaries of the store agree, however subscriptions are removed.
StoreAgrees == \A i \in Tasks : by_task[i] = {s \in store : TaskOf[s] = i}

PTypeOK ==
  /\ store \subseteq issued /\ issued \subseteq Subs
  /\ by_task \in [Tasks -> SUBSET Subs]
  /\ \A b \in Tellers :
       /\ telling[b].to \subseteq Subs /\ telling[b].sub \in Subs \cup {Nobody}
       /\ telling[b].attempt \in Nat
  /\ heard \in [Subs -> [Events -> Nat]] /\ misled \subseteq Subs
  /\ StoreAgrees
=============================================================================
