--------------------------- MODULE ProtocolClient ---------------------------
(***************************************************************************)
(* Tasks on a remote agent: the "send" tool sends one and polls it, the    *)
(* "cancel" tool cancels it.  What the remote server does with the task is *)
(* an abstraction (TaskLifecycle has the details of this one): a task runs *)
(* through TaskStatus, an outcome is final, and a restart forgets all.     *)
(***************************************************************************)
EXTENDS Workers

CONSTANTS
  Attempts,    \* poll_attempts
  MaxRestarts  \* bound on the restarts of the remote server

ASSUME ProtocolClientAssumption == Attempts \in Nat /\ MaxRestarts \in Nat

VARIABLES
  remote,    \* what GetTask at the remote server says of each id
  past,      \* history: every state a task under each id has been in
  restarts,
  seen,      \* task_state of each send: the last state it was told
  polls,     \* polls left
  errors,    \* poll_errors
  heard      \* history: the states that polls were answered with

server == <<remote, past, restarts>>
client == <<seen, polls, errors, heard>>

Outcomes == {"completed", "failed", "canceled"}
Statuses == {"submitted", "working"} \cup Outcomes

PInit ==
  /\ remote = [i \in TaskIds |-> "unknown"]
  /\ past = [i \in TaskIds |-> {}]
  /\ restarts = 0
  /\ seen = [c \in Calls |-> "unknown"]
  /\ polls = [c \in Calls |-> Attempts]
  /\ errors = [c \in Calls |-> 0]
  /\ heard = [c \in Calls |-> {}]

-----------------------------------------------------------------------------
(***************************************************************************)
(* The remote server.                                                      *)
(***************************************************************************)
Enter(i, status) ==
  /\ remote' = [remote EXCEPT ![i] = status]
  /\ past' = [past EXCEPT ![i] = @ \cup {status}]
  /\ UNCHANGED restarts

Progress(i) ==
  /\ \/ remote[i] = "submitted" /\ Enter(i, "working")
     \/ remote[i] \in {"submitted", "working"} /\ \E o \in Outcomes : Enter(i, o)
  /\ UNCHANGED <<limits, calls, workers, client>>

Restart ==
  /\ restarts < MaxRestarts /\ \E i \in TaskIds : remote[i] # "unknown"
  /\ remote' = [i \in TaskIds |-> "unknown"]
  /\ restarts' = restarts + 1
  /\ UNCHANGED <<past, limits, calls, workers, client>>

-----------------------------------------------------------------------------
(***************************************************************************)
(* handle_send_protocol_task                                               *)
(***************************************************************************)
\* _rpc_call: SendMessage gets to the server, which has the task unless it holds
\* one with this id already ...
Send(c) ==
  /\ stage[c] = "start" /\ Asks(c, "send")
  /\ IF remote[Id(c)] = "unknown"
     THEN Enter(Id(c), "submitted") /\ Goto(c, "sent")
     ELSE UNCHANGED server /\ Return(c, "error")
  /\ UNCHANGED <<limits, workers, client>>

Settled(status) == status \in Outcomes \cup {"unknown"}

\* ... and its answer gets back, or is lost, late or an error.  A task that is
\* not settled is polled.
Sent(c) ==
  /\ stage[c] = "sent"
  /\ \/ /\ seen' = [seen EXCEPT ![c] = remote[Id(c)]]
        /\ IF Settled(remote[Id(c)]) \/ Attempts = 0 THEN Return(c, remote[Id(c)]) ELSE Goto(c, "poll")
     \/ Return(c, "error") /\ UNCHANGED seen
  /\ UNCHANGED <<limits, workers, server, polls, errors, heard>>

\* One turn of the poll loop: GetTask tells the state, ...
Told(c) ==
  /\ remote[Id(c)] # "unknown"
  /\ seen' = [seen EXCEPT ![c] = remote[Id(c)]]
  /\ heard' = [heard EXCEPT ![c] = @ \cup {remote[Id(c)]}]
  /\ UNCHANGED errors

\* ... answers with an error of the protocol or no state, which is not counted, ...
Evaded == UNCHANGED <<seen, heard, errors>>

\* ... or raises: no connection, a timeout, too long, not JSON, an HTTP error.
Raised(c) ==
  /\ errors' = [errors EXCEPT ![c] = @ + 1]
  /\ UNCHANGED <<seen, heard>>

\* Mutant: one failed poll is enough to give up.
BlindAny(c) == errors'[c] > 0

Blind(c) == errors'[c] = Attempts

Poll(c) ==
  /\ stage[c] = "poll" /\ Asks(c, "send")
  /\ Told(c) \/ Evaded \/ Raised(c)
  /\ polls' = [polls EXCEPT ![c] = @ - 1]
  /\ IF seen'[c] \in Outcomes THEN Return(c, seen'[c])
     ELSE IF polls[c] > 1 THEN UNCHANGED calls
     ELSE Return(c, IF Blind(c) THEN "lost" ELSE seen'[c])
  /\ UNCHANGED <<limits, workers, server>>

-----------------------------------------------------------------------------
\* handle_cancel_protocol_task, once the local worker has been seen to.  If the
\* agent is not known the answer leaves out whether there was one.  The server
\* refuses to cancel what is unknown or over; otherwise it answers "canceled".
CancelAway(c) ==
  /\ stage[c] = "tell" /\ request[c].away
  /\ \/ Return(c, "error") /\ UNCHANGED server
     \/ /\ remote[Id(c)] \in {"submitted", "working"}
        /\ Enter(Id(c), "canceled")
        /\ Return(c, "canceled") \/ Return(c, "error")
  /\ UNCHANGED <<limits, workers, client>>

ClientStep(c) == Send(c) \/ Sent(c) \/ Poll(c) \/ CancelAway(c)

-----------------------------------------------------------------------------
\* What a send reports is a state the task was in.  Unless the server has restarted
\* it is the furthest that any answer told of, and an outcome is the task's outcome,
\* whatever polls failed in between.  It gives up only if no poll was answered.
ReportTrue ==
  \A c \in Calls : Asks(c, "send") /\ answer[c] # "none" =>
    /\ answer[c] \in Statuses => answer[c] \in past[Id(c)]
    /\ answer[c] = "lost" => heard[c] = {}
    /\ restarts = 0 =>
         /\ answer[c] \in Outcomes => remote[Id(c)] = answer[c]
         /\ answer[c] = "submitted" => heard[c] \subseteq {"submitted"}
         /\ answer[c] = "working" => heard[c] \cap Outcomes = {}
=============================================================================
