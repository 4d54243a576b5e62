----------------------------- MODULE Aftermath -----------------------------
(***************************************************************************)
(* What follows the agent's answer to a task (hooks.py): the session tells *)
(* the subscribers that the task is being worked on and that it is         *)
(* completed, and only then saves the exchange.  The task a session answers *)
(* is one that is marked as being processed, not always the one it was      *)
(* handed.  The process may crash and start again.  The request that waited *)
(* for the task tells its subscribers of the artifact in the same way at    *)
(* the same time; it is left out, and so is a turn that finds no task at    *)
(* first and looks again, which answers one without saving the exchange.    *)
(***************************************************************************)
EXTENDS Push, Conversations

CONSTANTS
  WorksOn,   \* the task each session is handed; sessions are the savers
  Starts     \* bound of the model: records of where each session is at first and of
             \* the subscriptions that are still to come, in one behaviour

NoTask == "none"

ASSUME AftermathAssumption ==
  /\ NoTask \notin Tasks
  /\ WorksOn \in [Savers -> Tasks] /\ Tellers = Savers /\ IsFiniteSet(Savers)
  /\ Starts \subseteq [stages : [Savers -> {"idle", "working", "told", "dead"}], subs : SUBSET Subs]

VARIABLES
  stage,       \* where each session is
  processing,  \* the tasks marked as being processed
  answers,     \* the task each session answers
  crashed      \* whether the process has crashed

turns == <<processing, answers>>
vars == <<pushing, conversations, stage, turns, crashed>>

Init ==
  /\ PInit /\ CInit
  /\ \E start \in Starts :
       /\ issued = Subs \ start.subs
       /\ stage = start.stages
       /\ answers = [t \in Savers |-> IF start.stages[t] = "told" THEN WorksOn[t] ELSE NoTask]
  /\ processing = {} /\ crashed = FALSE

Advance(t, from, to) == stage[t] = from /\ stage' = [stage EXCEPT ![t] = to]

\* pre_llm_call marks the task it hands over, unless the task has gone since it was
\* drained: another session has answered it, or it was cancelled ...
Mark(t) ==
  /\ Advance(t, "idle", "marked")
  /\ processing' \in {processing, processing \cup {WorksOn[t]}}
  /\ UNCHANGED <<pushing, conversations, answers, crashed>>

\* ... and tells of it all the same.
TellWorking(t) ==
  /\ Advance(t, "marked", "working")
  /\ Tell(t, WorksOn[t], "working")
  /\ UNCHANGED <<subscriptions, network, conversations, turns, crashed>>

\* A turn that brings no response, or finds no task marked, ends with that: what it
\* marked stays marked.
Skip(t) ==
  /\ Quiet(t)
  /\ Advance(t, "working", "over")
  /\ UNCHANGED <<pushing, conversations, turns, crashed>>

\* The agent answers: post_llm_call takes any task that is marked, ...
Target(t) ==
  /\ Quiet(t)
  /\ Advance(t, "working", "answering")
  /\ \E i \in processing : answers' = [answers EXCEPT ![t] = i]
  /\ UNCHANGED <<pushing, conversations, processing, crashed>>

\* ... completes it, which does nothing if another has since, ...
Complete(t) ==
  /\ Advance(t, "answering", "completed")
  /\ processing' = processing \ {answers[t]}
  /\ UNCHANGED <<pushing, conversations, answers, crashed>>

\* ... tells of it ...
TellCompleted(t) ==
  /\ Advance(t, "completed", "told")
  /\ Tell(t, answers[t], "completed")
  /\ UNCHANGED <<subscriptions, network, conversations, turns, crashed>>

\* ... and saves the exchange.
SaveExchange(t) ==
  /\ stage[t] = "told" /\ Quiet(t)
  /\ Save(t)
  /\ UNCHANGED <<pushing, stage, turns, crashed>>

\* CancelTask takes a task out of the queue.
Cancel(i) ==
  /\ processing' = processing \ {i}
  /\ UNCHANGED <<pushing, conversations, stage, answers, crashed>>

\* The process dies: what is in memory goes, what is on disk or under way stays.
\* Sessions that have not begun run in the process started next.
Crash ==
  /\ ~crashed /\ crashed' = TRUE
  /\ stage' = [t \in Savers |-> IF stage[t] = "idle" THEN "idle" ELSE "dead"]
  /\ saving' = [t \in Savers |-> IF saving[t] \in {"done", "failed"} \/ stage[t] = "idle"
                                 THEN saving[t] ELSE "dead"]
  /\ lock' = Free /\ existing' = <<>>
  /\ store' = {} /\ by_task' = [i \in Tasks |-> {}]
  /\ telling' = [b \in Tellers |-> Idle] /\ processing' = {}
  /\ UNCHANGED <<answers, issued, network, second, stamp, disk, saved>>

Session(t) ==
  \/ Mark(t) \/ TellWorking(t) \/ Skip(t) \/ Target(t)
  \/ Complete(t) \/ TellCompleted(t) \/ SaveExchange(t)

Next ==
  \/ \E t \in Savers : Session(t)
  \/ Crash \/ \E i \in processing : Cancel(i)
  \/ Push /\ UNCHANGED <<conversations, stage, turns, crashed>>
  \/ Second /\ UNCHANGED <<pushing, stage, turns, crashed>>

Spec == Init /\ [][Next]_vars

\* Threads run on, and what they push to answers or times out: httpx has a timeout.
\* Only a session that has begun has to go on.
Fairness ==
  /\ \A t \in Savers : WF_vars(stage[t] # "idle" /\ Session(t))
  /\ \A b \in Tellers : WF_vars(Telling(b) /\ UNCHANGED <<conversations, stage, turns, crashed>>)

FairSpec == Spec /\ Fairness

-----------------------------------------------------------------------------
\* Every field has its type, and the store's two dictionaries agree.
TypeOK ==
  /\ PTypeOK /\ CTypeOK
  /\ stage \in [Savers ->
       {"idle", "marked", "working", "over", "answering", "completed", "told", "dead"}]
  /\ processing \subseteq Tasks /\ answers \in [Savers -> Tasks \cup {NoTask}]

\* The task a session tells an event of.
About(t, e) == IF e = "working" THEN WorksOn[t] ELSE answers[t]

\* No endpoint gets more copies of an event than the sessions that tell it of the task
\* have attempts, counting the requests that may still arrive.
CopiesBounded ==
  \A s \in Subs : \A e \in Events :
    heard[s][e] + Cardinality({m \in inflight : m.sub = s /\ m.event = e})
      <= Cardinality({t \in Savers : About(t, e) = TaskOf[s]}) * MaxAttempts

\* Whether at most one session tells a subscriber: the one that was handed its task, if
\* no other answers it.
OneTells(s) ==
  \A t, u \in Savers :
    TaskOf[s] \in {WorksOn[t], answers[t]} /\ TaskOf[s] \in {WorksOn[u], answers[u]} => t = u

\* Such an endpoint is not told that its task is being worked on after it was told that
\* it is completed, unless a request to it had been given up while it was under way.
\* If another session answers the task it may be: the one that was handed it marks it
\* and only then begins to tell.
ToldInOrder == \A s \in misled : OneTells(s) => s \in delayed

\* Every subscriber that was there when a session began to tell is told in its
\* turn, however slow or dead those before it are, unless the process crashes.
EveryoneServed ==
  \A t \in Savers : \A s \in Subs : s \in telling[t].to ~> telling[t].sub = s \/ crashed

\* The exchange of a completed task is saved in the end, or saving it failed or the
\* process crashed; no subscriber, however slow or dead, keeps it from being saved.
ExchangeSaved ==
  \A t \in Savers : stage[t] = "completed" ~> saving[t] \in {"done", "failed", "dead"}

\* Both: what a session does for subscribers, slow or dead ones too, comes to its end.
SessionsGoOn == EveryoneServed /\ ExchangeSaved
=============================================================================
