---------------------------- MODULE MCFrontDoor ----------------------------
(* An instance of FrontDoor for TLC.                                        *)
EXTENDS FrontDoor

CONSTANTS t1, t2, n1, n2, i1, i2

Plain == [via |-> "rpc", op |-> "get", task |-> i1, name |-> n1,
          remote |-> TRUE, bearer |-> TRUE, body |-> "ok"]
Other == [Plain EXCEPT !.name = n2]
From(via, op, task) == [Plain EXCEPT !.via = via, !.op = op, !.task = task]

\* Requests that compete for tasks, and one of each fault.
Competing ==
  {From("get", "list", i1), From("rpc", "send", i1), From("rest", "send", i2), From("rest", "cancel", i1)}
Faulted ==
  {[Other EXCEPT !.bearer = FALSE], From("rpc", "subscribe", i1), From("get", "subscribe", i1)}
  \cup {[Plain EXCEPT !.body = b] : b \in {"unknown", "malformed"}}
  \cup {[From("rest", "send", i2) EXCEPT !.body = b] : b \in {"parse", "idle", "malformed"}}
MCRequests == {Plain, Other} \cup Competing \cup Faulted

Symmetry == Permutations(Threads)

\* Bound: the clock runs while plain requests are served, one past the limiter at a
\* time, and the second caller is there for evictions.  The other requests are
\* served in the first tick, before the sweeper wakes up; the faulty ones while
\* no task has been sent.  A walk is followed until it is shifted or a caller refused.
Fresh == \A i \in Tasks : state[i] = "unknown"
Mixed ==
  /\ clock = 0 /\ now[Sweeper] = NoTime
  /\ \A c \in Names : spent[c] = IF c \in DOMAIN buckets THEN Burst - buckets[c].tokens ELSE 0
  /\ ~walk.shifted
  /\ walk # NoWalk => /\ \A t \in Threads : request[t] \in Competing
                      /\ \A c \in Names : refused[c] = NoTime
  /\ (\E t \in Threads : request[t] \in Faulted) => Fresh
Plainly ==
  /\ \A t \in Threads : request[t] \in {Plain, Other}
  /\ Cardinality({t \in Threads : stage[t] = "handle"}) <= 1
  /\ spent[n2] <= 1 /\ refused[n2] = NoTime
  /\ Fresh /\ walk = NoWalk
Budget == Mixed \/ Plainly
=============================================================================
