----------------------------- MODULE ToolCalls -----------------------------
(***************************************************************************)
(* The outbound tools of an agent (tool_handlers.py) and the sliding       *)
(* window in front of them (_rate_limited, _consume_rate_limit).  A call   *)
(* is one invocation of a tool by the gateway; calls run concurrently.     *)
(* What a tool does once it is admitted is in Workers and ProtocolClient.  *)
(***************************************************************************)
EXTENDS Naturals, Sequences

CONSTANTS
  Calls,     \* tool calls, each made once
  TaskIds,   \* the ids callers choose for tasks
  Requests,  \* what is asked: see RequestFields
  Window,    \* _RATE_LIMIT_WINDOW, in ticks of the clock
  MaxCalls,  \* _RATE_LIMIT_MAX_CALLS
  MaxLag,    \* bound: ticks between reading the clock and taking _rate_lock
  MaxClock   \* bound on the clock

\* away: whether a cancel names a remote agent besides the task.
RequestFields ==
  [tool : {"send", "local", "remote", "cancel"}, id : TaskIds, away : BOOLEAN]

ASSUME ToolCallsAssumption ==
  /\ Requests \subseteq RequestFields
  /\ Window \in Nat /\ MaxCalls \in Nat \ {0} /\ MaxLag \in Nat /\ MaxClock \in Nat

VARIABLES
  request,  \* what each call asks
  stage,    \* how far it is
  answer,   \* the state, or the kind of error, it was answered with
  clock,
  read,     \* "now" of the calls that are about to take _rate_lock
  stamps,   \* _call_timestamps
  grants    \* history: when calls were admitted

limits == <<clock, read, stamps, grants>>
calls == <<request, stage, answer>>

TInit ==
  /\ request \in [Calls -> Requests]
  /\ stage = [c \in Calls |-> "idle"]
  /\ answer = [c \in Calls |-> "none"]
  /\ clock = 0
  /\ read = [c \in Calls |-> 0]
  /\ stamps = <<>>
  /\ grants = <<>>

Asks(c, tool) == request[c].tool = tool
Id(c) == request[c].id

Goto(c, to) ==
  /\ stage' = [stage EXCEPT ![c] = to]
  /\ UNCHANGED <<request, answer>>

Return(c, with) ==
  /\ stage' = [stage EXCEPT ![c] = "done"]
  /\ answer' = [answer EXCEPT ![c] = with]
  /\ UNCHANGED request

-----------------------------------------------------------------------------
Tick ==
  /\ clock < MaxClock
  /\ \A c \in Calls : stage[c] = "limit" => clock - read[c] < MaxLag
  /\ clock' = clock + 1
  /\ UNCHANGED <<calls, read, stamps, grants>>

\* The clock is read before the lock is taken.
Begin(c) ==
  /\ stage[c] = "idle"
  /\ Goto(c, "limit")
  /\ read' = [read EXCEPT ![c] = clock]
  /\ UNCHANGED <<clock, stamps, grants>>

\* Mutant: a timestamp is dropped when it is Window old.
DropsMore(m, now) ==
  /\ \A k \in 1 .. m : stamps[k] + Window <= now
  /\ m < Len(stamps) => stamps[m + 1] + Window > now

\* Timestamps are dropped from the head only, m of them, up to the first that is recent.
Drops(m, now) ==
  /\ \A k \in 1 .. m : stamps[k] + Window < now
  /\ m < Len(stamps) => stamps[m + 1] + Window >= now

Full(kept) == Len(kept) >= MaxCalls

\* Under _rate_lock.
Admit(c) ==
  /\ stage[c] = "limit"
  /\ \E m \in 0 .. Len(stamps) :
       LET kept == SubSeq(stamps, m + 1, Len(stamps))
       IN /\ Drops(m, read[c])
          /\ IF Full(kept)
             THEN Return(c, "limited") /\ stamps' = kept /\ UNCHANGED grants
             ELSE /\ Goto(c, "start")
                  /\ stamps' = Append(kept, read[c])
                  /\ grants' = Append(grants, clock)
  /\ UNCHANGED <<clock, read>>

\* An argument is missing, the agent or its profile is not known, or its URL is
\* refused.  A cancel looks for a local worker before it looks at the rest.
Reject(c) ==
  /\ stage[c] = "start" /\ ~Asks(c, "cancel")
  /\ Return(c, "error")
  /\ UNCHANGED limits

-----------------------------------------------------------------------------
\* MaxCalls + 1 calls in a row are admitted over more than the window, less what
\* their clocks lag behind, although timestamps are appended out of order.
GrantsSpaced ==
  \A k \in DOMAIN grants :
    k > MaxCalls => grants[k] + MaxLag > grants[k - MaxCalls] + Window
=============================================================================
