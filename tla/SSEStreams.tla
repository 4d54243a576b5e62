----------------------------- MODULE SSEStreams -----------------------------
(***************************************************************************)
(* Server-sent event streams about one task: the registry of streams       *)
(* (sse_handler.py), the request threads that serve them by polling        *)
(* (server.py), and the threads that broadcast to them: the agent sessions *)
(* through TaskStateChangeHook (hooks.py) and the SendMessage request that *)
(* publishes the artifact of its answer (server.py).                       *)
(*                                                                         *)
(* A client opens at most one stream, so a client also names its stream.   *)
(* The queue is reduced to the entry of the one task and the state that    *)
(* get_status reports for it; its other tasks show only in that a session  *)
(* may find the task behind another, and may leave it to other sessions.   *)
(* The task has its id for itself, and the host does not name the task a   *)
(* turn is about: post_llm_call looks among the processing ones.           *)
(***************************************************************************)
EXTENDS Sublists

CONSTANTS
  Sessions, \* agent sessions
  Clients,  \* clients that open a stream
  Poster,   \* the one among them that may have posted the task with message:stream
  May       \* what may happen besides: see StreamsAssumption

\* "stream": the poster used message:stream, not SendMessage.
\* "cancel": the task is cancelled.  "publish": a SendMessage request publishes
\* an artifact.  "leave": clients disconnect.  "expire": A2A_SSE_TIMEOUT passes.
\* "idle": streams go idle.  "reload": the plugin is shut down meanwhile.
ASSUME StreamsAssumption ==
  /\ {"sender", "nobody"} \cap Sessions = {}
  /\ Poster \in Clients
  /\ May \subseteq {"stream", "cancel", "publish", "leave", "expire", "idle", "reload"}

Terminal == {"completed", "canceled"}
Broadcasters == Sessions \cup {"sender"}

\* An event a client reads: the state it tells, and its SSE id (0 for None and
\* for the random ids of events a request thread emits itself).
Event(state, id) == [state |-> state, id |-> id]
Events == [state : {"submitted", "working", "artifact", "error"} \cup Terminal, id : Nat]

VARIABLES
  status,     \* queue.get_status(task)["state"]
  streams,    \* _by_task[task], in the order opened; _streams has the same keys
  stream,     \* the _Stream of each open one, Fresh for the others
  streaming,  \* whether the task was posted with message:stream; never changes
  cleaner,    \* the cleanup thread: none before _started is set
  entry,      \* the task in the queue: "pending", "processing" (pending and marked), "gone"
  agent,      \* where each session is
  sender,     \* whether the SendMessage thread has published its artifact
  telling,    \* per broadcaster: the event, and the stream ids still to push to
  handler,    \* where each client's request thread is
  seen,       \* the state it read before opening the stream
  expired,    \* whether its A2A_SSE_TIMEOUT has passed
  connected,  \* whether the client still reads
  got,        \* what the client has read
  \* History: what has happened, which no step looks at.
  turnOf,     \* the session the task was handed to last, or "nobody"
  crossed,    \* whether it was handed over again, or answered by another session
  revived,    \* whether requeue_tasks put it back after it had left the queue
  told        \* what has been broadcast

registry == <<streams, stream, cleaner>>
history == <<turnOf, crossed, revived, told>>
work == <<status, entry, agent, sender, telling, streaming, history>>
serving == <<handler, seen, expired, connected, got>>
vars == <<registry, work, serving>>

Open(c) == c \in ToSet(streams)

\* A _Stream: its pending lines, its sequence_counter, and whether its
\* _last_activity is longer ago than idle_timeout.
Fresh == [pending |-> <<>>, counter |-> 0, idle |-> FALSE]

Init ==
  /\ status = "submitted"
  /\ streams = <<>>
  /\ stream = [c \in Clients |-> Fresh]
  /\ cleaner = "none"
  /\ streaming \in (IF "stream" \in May THEN BOOLEAN ELSE {FALSE})
  /\ entry = "pending"
  /\ agent = [s \in Sessions |-> "idle"]
  /\ sender = "waiting"
  /\ telling = [b \in Broadcasters |-> [event |-> Event("working", 0), to |-> <<>>]]
  /\ handler = [c \in Clients |-> "new"]
  /\ seen = [c \in Clients |-> "working"]
  /\ expired = [c \in Clients |-> FALSE]
  /\ connected = [c \in Clients |-> TRUE]
  /\ got = [c \in Clients |-> <<>>]
  /\ turnOf = "nobody" /\ crossed = FALSE /\ revived = FALSE /\ told = {}

-----------------------------------------------------------------------------
(***************************************************************************)
(* The threads that change the task and tell the streams.                  *)
(***************************************************************************)
Quiet(b) == telling[b].to = <<>>

\* One SSEEvent object is built and the ids of the open streams are read ...
Announce(b, state) ==
  /\ telling' = [telling EXCEPT ![b] = [event |-> Event(state, 0), to |-> streams]]
  /\ told' = told \cup {state}

\* push_event: an event without an id takes the next one of this stream, and
\* keeps it when it is pushed to the next stream.
EventId(c, event) == IF event.id = 0 THEN stream[c].counter + 1 ELSE event.id

\* The stream after an event was pushed to it.
Receiving(c, event, pushed) ==
  [pending |-> Append(stream[c].pending, pushed),
   counter |-> stream[c].counter + (IF event.id = 0 THEN 1 ELSE 0), idle |-> FALSE]

\* ... and push_event is called for each: a no-op for a stream closed since.
Push(b) ==
  /\ ~Quiet(b)
  /\ LET c == Head(telling[b].to)
         event == telling[b].event
         pushed == Event(event.state, EventId(c, event))
         rest == Tail(telling[b].to)
     IN IF Open(c)
        THEN /\ stream' = [stream EXCEPT ![c] = Receiving(c, event, pushed)]
             /\ telling' = [telling EXCEPT ![b] = [event |-> pushed, to |-> rest]]
        ELSE telling' = [telling EXCEPT ![b].to = rest] /\ UNCHANGED stream
  /\ UNCHANGED <<status, entry, agent, sender, streaming, history, streams, cleaner, serving>>

\* A session goes on once it has told the streams what it announced.
Step(s, from, to) ==
  /\ agent[s] = from /\ (from = "idle" => Quiet(s))
  /\ agent' = [agent EXCEPT ![s] = to]

\* pre_llm_call drains the task as the first: it will be handed over.  Another
\* session may have drained it, too, and not have marked it yet.
Drain(s) ==
  /\ entry = "pending"
  /\ Step(s, "idle", "drained")
  /\ turnOf' = s /\ crossed' = (crossed \/ turnOf # "nobody")
  /\ UNCHANGED <<status, entry, sender, telling, streaming, revived, told, registry, serving>>

\* It drains it behind another task ...
DrainBehind(s) ==
  /\ entry = "pending"
  /\ Step(s, "idle", "behind")
  /\ UNCHANGED <<status, entry, sender, telling, streaming, history, registry, serving>>

\* ... and requeues it, whatever has become of it meanwhile.
Requeue(s) ==
  /\ Step(s, "behind", "idle")
  /\ entry' = IF entry = "gone" THEN "pending" ELSE entry
  /\ revived' = (revived \/ entry = "gone")
  /\ UNCHANGED <<status, sender, telling, streaming, turnOf, crossed, told, registry, serving>>

\* The transition is refused unless the task is still as it was submitted ...
StartWork(s) ==
  /\ Step(s, "drained", "started")
  /\ status' = IF status = "submitted" THEN "working" ELSE status
  /\ UNCHANGED <<entry, sender, telling, streaming, history, registry, serving>>

\* ... and mark_processing does nothing once the task is gone.
Mark(s) ==
  /\ Step(s, "started", "marked")
  /\ entry' = IF entry = "pending" THEN "processing" ELSE entry
  /\ UNCHANGED <<status, sender, telling, streaming, history, registry, serving>>

\* The hook fires whether or not they did anything.
TellWorking(s) ==
  /\ Step(s, "marked", "idle")
  /\ Announce(s, "working")
  /\ UNCHANGED <<status, entry, sender, streaming, turnOf, crossed, revived, registry, serving>>

\* post_llm_call, of whatever turn, takes the first task it finds marked.
Target(s) ==
  /\ entry = "processing"
  /\ Step(s, "idle", "answering")
  /\ crossed' = (crossed \/ turnOf # s)
  /\ UNCHANGED <<status, entry, sender, telling, streaming, turnOf, revived, told, registry, serving>>

\* complete() does nothing to a task that has gone since.  One that was cancelled
\* and put back becomes completed, unless its caller has been answered: then the
\* response, and with it what get_status says, stays that of the cancel.
Complete(s) ==
  /\ Step(s, "answering", "completed")
  /\ entry' = "gone"
  /\ \/ status' = "completed" /\ entry # "gone"
     \/ status' = status /\ (entry = "gone" \/ status = "canceled")
  /\ UNCHANGED <<sender, telling, streaming, history, registry, serving>>

\* The hook fires all the same.
TellCompleted(s) ==
  /\ Step(s, "completed", "idle")
  /\ Announce(s, "completed")
  /\ UNCHANGED <<status, entry, sender, streaming, turnOf, crossed, revived, registry, serving>>

\* CancelTask, which looked at the state of the task before: no hook.
Cancel ==
  /\ "cancel" \in May /\ entry # "gone"
  /\ status' = "canceled" /\ entry' = "gone"
  /\ UNCHANGED <<agent, sender, telling, streaming, history, registry, serving>>

\* The SendMessage thread wakes up with a response, of whatever wrote it, and
\* publishes an artifact.  A task posted with message:stream has no such thread.
TellArtifact ==
  /\ "publish" \in May /\ ~streaming /\ sender = "waiting"
  /\ Announce("sender", "artifact")
  /\ sender' = "published"
  /\ UNCHANGED <<status, entry, agent, streaming, turnOf, crossed, revived, registry, serving>>

-----------------------------------------------------------------------------
(***************************************************************************)
(* A request thread that serves a stream.                                  *)
(***************************************************************************)
Handler(c, from, to) ==
  /\ handler[c] = from
  /\ handler' = [handler EXCEPT ![c] = to]

\* What a client reads while it is connected.
Read(c, events) == got' = IF connected[c] THEN [got EXCEPT ![c] = @ \o events] ELSE got

\* close_stream: what was pending goes with the stream.
Close(c) ==
  /\ streams' = RemoveFirst(streams, c)
  /\ stream' = [stream EXCEPT ![c] = Fresh]

\* _stream_task_sse reads the state before it opens the stream; message:stream
\* takes the task to be working.
ReadStatus(c) ==
  /\ Handler(c, "new", "read")
  /\ seen' = [seen EXCEPT ![c] = IF streaming /\ c = Poster THEN "working" ELSE status]
  /\ UNCHANGED <<expired, connected, got, registry, work>>

\* open_stream, after _ensure_cleanup_thread: _started is never reset.
OpenStream(c) ==
  /\ Handler(c, "read", "opened")
  /\ cleaner' = IF cleaner = "none" THEN "running" ELSE cleaner
  /\ streams' = Append(streams, c)
  /\ UNCHANGED <<stream, seen, expired, connected, got, work>>

\* Writing the headers raises when the client has gone: nobody closes the
\* stream.
HeadersFail(c) ==
  /\ ~connected[c]
  /\ Handler(c, "opened", "dead")
  /\ UNCHANGED <<seen, expired, connected, got, registry, work>>

\* The first event.  The stream ends with it if the client has gone or the
\* task has finished.
EmitFirst(c) ==
  /\ Read(c, <<Event(seen[c], 0)>>)
  /\ IF ~connected[c] THEN Handler(c, "opened", "dropped") /\ Close(c)
     ELSE IF seen[c] \in Terminal THEN Handler(c, "opened", "finished") /\ Close(c)
     ELSE Handler(c, "opened", "polling") /\ UNCHANGED <<streams, stream>>
  /\ UNCHANGED <<cleaner, seen, expired, connected, work>>

\* Mutant: the buffer is not cleared.
FlushKept(c) == stream' = stream

\* get_pending returns the buffer and clears it.
ClearPending(c) == stream' = [stream EXCEPT ![c].pending = <<>>]

\* A turn of the polling loop: flush the buffer ...
Flush(c) ==
  /\ ~expired[c]
  /\ Read(c, stream[c].pending)
  /\ IF ~connected[c] /\ stream[c].pending # <<>>
     THEN Handler(c, "polling", "dropped") /\ Close(c)
     ELSE Handler(c, "polling", "flushed") /\ ClearPending(c) /\ UNCHANGED streams
  /\ UNCHANGED <<cleaner, seen, expired, connected, work>>

\* ... leave without a word if the stream has been closed ...
CheckClosed(c) ==
  /\ Handler(c, "flushed", IF Open(c) THEN "checked" ELSE "dropped")
  /\ UNCHANGED <<seen, expired, connected, got, registry, work>>

\* Mutant: leaves it to the broadcast to tell the outcome.
EndQuietly(c) ==
  /\ Handler(c, "checked", IF status \in Terminal THEN "finished" ELSE "polling")
  /\ IF status \in Terminal THEN Close(c) ELSE UNCHANGED <<streams, stream>>
  /\ UNCHANGED <<got, cleaner, seen, expired, connected, work>>

\* ... and end with the outcome of the task, or sleep.
CheckStatus(c) ==
  /\ IF status \in Terminal
     THEN /\ Handler(c, "checked", "finished")
          /\ Read(c, <<Event(status, 0)>>)
          /\ Close(c)
     ELSE Handler(c, "checked", "polling") /\ UNCHANGED <<got, streams, stream>>
  /\ UNCHANGED <<cleaner, seen, expired, connected, work>>

\* Mutant: does not tell the client.
TimeOutQuietly(c) ==
  /\ expired[c]
  /\ Handler(c, "polling", "timed_out")
  /\ Close(c)
  /\ UNCHANGED <<got, cleaner, seen, expired, connected, work>>

\* The deadline is tested before each turn.
TimeOut(c) ==
  /\ expired[c]
  /\ Handler(c, "polling", "timed_out")
  /\ Read(c, <<Event("error", 0)>>)
  /\ Close(c)
  /\ UNCHANGED <<cleaner, seen, expired, connected, work>>

-----------------------------------------------------------------------------
(***************************************************************************)
(* Time, clients that leave, the cleanup thread, the plugin's shutdown.    *)
(***************************************************************************)
\* A2A_SSE_TIMEOUT seconds have passed since polling began.
Expire(c) ==
  /\ "expire" \in May
  /\ handler[c] \in {"polling", "flushed", "checked"} /\ ~expired[c]
  /\ expired' = [expired EXCEPT ![c] = TRUE]
  /\ UNCHANGED <<handler, seen, connected, got, registry, work>>

Disconnect(c) ==
  /\ "leave" \in May /\ connected[c]
  /\ handler[c] \in {"read", "opened", "polling", "flushed", "checked"}
  /\ connected' = [connected EXCEPT ![c] = FALSE]
  /\ UNCHANGED <<handler, seen, expired, got, registry, work>>

GrowIdle(c) ==
  /\ "idle" \in May /\ Open(c)
  /\ stream' = [stream EXCEPT ![c].idle = TRUE]
  /\ UNCHANGED <<streams, cleaner, work, serving>>

\* Mutant: only streams with nothing to read count as idle.
IdleAndEmpty(c) == stream[c].idle /\ stream[c].pending = <<>>

\* Whether the cleanup thread takes a stream for idle.
IsIdle(c) == stream[c].idle

\* _close_idle_streams
CloseIdleStreams ==
  /\ cleaner = "running"
  /\ \E c \in ToSet(streams) : IsIdle(c)
  /\ streams' \in InOrder(streams, {c \in ToSet(streams) : ~IsIdle(c)})
  /\ stream' = [c \in Clients |-> IF IsIdle(c) THEN Fresh ELSE stream[c]]
  /\ UNCHANGED <<cleaner, work, serving>>

\* SSEStreamer.shutdown, called when the plugin is shut down.  Requests under way
\* are served on, and a server started again in the process keeps the streamer.
Shutdown ==
  /\ "reload" \in May /\ cleaner = "running"
  /\ cleaner' = "stopped"
  /\ UNCHANGED <<streams, stream, work, serving>>

-----------------------------------------------------------------------------
Serve(c) ==
  \/ ReadStatus(c) \/ OpenStream(c) \/ HeadersFail(c) \/ EmitFirst(c)
  \/ Flush(c) \/ CheckClosed(c) \/ CheckStatus(c) \/ TimeOut(c)

Turn(s) ==
  \/ Drain(s) \/ DrainBehind(s) \/ Requeue(s) \/ StartWork(s) \/ Mark(s) \/ TellWorking(s)
  \/ Target(s) \/ Complete(s) \/ TellCompleted(s)

Next ==
  \/ \E s \in Sessions : Turn(s)
  \/ Cancel \/ TellArtifact \/ \E b \in Broadcasters : Push(b)
  \/ \E c \in Clients : Serve(c) \/ Expire(c) \/ Disconnect(c) \/ GrowIdle(c)
  \/ CloseIdleStreams \/ Shutdown

Spec == Init /\ [][Next]_vars

\* Request threads and broadcasts under way run on, time passes, the cleanup
\* thread wakes up.  Nobody has to run the agent, cancel or disconnect.
Fairness ==
  /\ \A c \in Clients : WF_vars(Serve(c)) /\ WF_vars(Expire(c)) /\ WF_vars(GrowIdle(c))
  /\ \A b \in Broadcasters : WF_vars(Push(b))
  /\ WF_vars(CloseIdleStreams)

FairSpec == Spec /\ Fairness

-----------------------------------------------------------------------------
(***************************************************************************)
(* Properties.                                                             *)
(***************************************************************************)

\* Every field has its type.
TypeOK ==
  /\ status \in {"submitted", "working"} \cup Terminal
  /\ streams \in Seq(Clients) /\ streaming \in BOOLEAN
  /\ \A c \in Clients :
       stream[c] \in [pending : Seq(Events), counter : Nat, idle : BOOLEAN] /\ got[c] \in Seq(Events)
  /\ cleaner \in {"none", "running", "stopped"}
  /\ entry \in {"pending", "processing", "gone"}
  /\ agent \in [Sessions -> {"idle", "behind", "drained", "started", "marked", "answering", "completed"}]
  /\ sender \in {"waiting", "published"}
  /\ \A b \in Broadcasters : telling[b].event \in Events /\ telling[b].to \in Seq(Clients)
  /\ handler \in [Clients -> {"new", "read", "opened", "dead", "polling", "flushed",
                              "checked", "finished", "dropped", "timed_out"}]
  /\ seen \in [Clients -> {"submitted", "working"} \cup Terminal]
  /\ expired \in [Clients -> BOOLEAN]
  /\ connected \in [Clients -> BOOLEAN]
  /\ turnOf \in Sessions \cup {"nobody"} /\ crossed \in BOOLEAN /\ revived \in BOOLEAN
  /\ told \subseteq {"working", "completed", "artifact"}

Stage(state) ==
  CASE state = "submitted" -> 1 [] state = "working" -> 2
    [] state \in Terminal -> 3 [] OTHER -> 4

\* What a client is told about the state of the task only moves forward,
\* although the state it is told first is read before its stream is opened,
\* and its later ones come from several threads, by push and by polling.
StatesForward ==
  \A c \in Clients :
    LET states == {i \in DOMAIN got[c] : got[c][i].state \notin {"artifact", "error"}} IN
    \A i, j \in states : i < j => Stage(got[c][i].state) <= Stage(got[c][j].state)

\* No broadcast reaches a client twice, whether the stream is being flushed,
\* closed or pushed to at the time.
NoEventTwice ==
  \A c \in Clients : \A i, j \in DOMAIN got[c] :
    got[c][i].id # 0 /\ got[c][j].id # 0 /\ got[c][i].state = got[c][j].state => i = j

\* What a client reads is in order and without repeats, as long as the task is not
\* handed over a second time (two sessions may drain it before either marks it, and
\* one may after it was put back) and is not answered by another session than the
\* one it was handed to (post_llm_call takes any processing task).  Every field has
\* its type.
ReadInOrder == TypeOK /\ (~crossed => StatesForward /\ NoEventTwice)

\* A connected client whose stream was ended by the server as finished has last
\* been told an outcome, and it is the one the task has now, unless the task was
\* put back after it had left the queue: then a cancelled one may yet complete.
OutcomeTold ==
  \A c \in Clients :
    handler[c] = "finished" /\ connected[c] =>
      /\ got[c] # <<>> /\ Last(got[c]).state \in Terminal
      /\ ~revived => Last(got[c]).state = status

\* Once the task has finished, a client that stays connected hears of it, or
\* that its stream timed out, unless the stream is dropped as idle: it never
\* waits for an event that was broadcast before its stream was opened.
OutcomeHeard ==
  \A c \in Clients :
    (status \in Terminal /\ handler[c] = "opened")
      ~> (\/ ~connected[c] \/ handler[c] = "dropped"
          \/ got[c] # <<>> /\ Last(got[c]).state \in Terminal \cup {"error"})

\* Every request thread that serves a stream comes to an end.
ServingEnds ==
  \A c \in Clients :
    handler[c] = "read" ~> handler[c] \in {"dead", "finished", "dropped", "timed_out"}

\* As long as the streamer has not been shut down no stream stays in the registry
\* for good, not even one whose request thread died before it could close it.
NoStreamLeaks == \A c \in Clients : Open(c) ~> ~Open(c) \/ cleaner = "stopped"

\* Neither threads nor registry entries are left of a stream.
StreamsEnd == ServingEnds /\ NoStreamLeaks
=============================================================================
