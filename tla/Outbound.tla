------------------------------ MODULE Outbound ------------------------------
(***************************************************************************)
(* The outbound side of an agent: concurrent tool calls, the workers they  *)
(* run here and on a target, and the remote server they send tasks to.     *)
(***************************************************************************)
EXTENDS ProtocolClient

vars == <<limits, calls, workers, server, client>>

Init == TInit /\ WInit /\ PInit

\* The gateway calls a tool.
CallStep(c) ==
  \/ (Admit(c) \/ Reject(c)) /\ UNCHANGED <<workers, server, client>>
  \/ WorkerStep(c) /\ UNCHANGED <<server, client>>
  \/ ClientStep(c)

RunStep(c) == JobStep(c) /\ UNCHANGED <<server, client>>

Next ==
  \/ Tick /\ UNCHANGED <<workers, server, client>>
  \/ Restart
  \/ \E i \in TaskIds : Progress(i)
  \/ \E c \in Calls :
       \/ Begin(c) /\ UNCHANGED <<workers, server, client>>
       \/ CallStep(c)
       \/ RunStep(c)
       \/ Exit(c) /\ UNCHANGED <<server, client>>

Spec == Init /\ [][Next]_vars

\* The thread of a call, and of a handler of the target, goes on; a worker or a
\* remote task need not ever end.
Fairness == \A c \in Calls : WF_vars(CallStep(c)) /\ WF_vars(RunStep(c))
FairSpec == Spec /\ Fairness

-----------------------------------------------------------------------------
TypeOK ==
  /\ request \in [Calls -> Requests]
  /\ stage \in [Calls -> {"idle", "limit", "start", "await", "poll", "terminate", "wait", "tell", "sent", "done"}]
  /\ answer \in [Calls -> {"none", "limited", "error", "lost", "unknown"} \cup Statuses]
  /\ \A c \in Calls : stage[c] = "done" <=> answer[c] # "none"
  /\ clock \in 0 .. MaxClock /\ read \in [Calls -> 0 .. MaxClock]
  /\ stamps \in Seq(0 .. MaxClock) /\ grants \in Seq(0 .. MaxClock) /\ Len(stamps) <= MaxCalls
  /\ job \in [Calls -> {"none", "spawn", "register", "talk", "kill", "unregister", "clean", "over"}]
  /\ proc \in [Calls -> {"none", "running", "ok", "garbled", "failed", "killed"}]
  /\ \A s \in Sites : DOMAIN registry[s] \subseteq TaskIds /\ Range(registry[s]) \subseteq Calls
  /\ held \in [Calls -> [worker : Calls \cup {None}, ended : BOOLEAN]]
  /\ remote \in [TaskIds -> Statuses \cup {"unknown"}] /\ past \in [TaskIds -> SUBSET Statuses]
  /\ seen \in [Calls -> Statuses \cup {"unknown"}] /\ polls \in [Calls -> 0 .. Attempts]
  /\ errors \in [Calls -> 0 .. Attempts] /\ heard \in [Calls -> SUBSET Statuses]

\* What the registries hold is sound, and no running worker is lost from them.
WorkersSound == TypeOK /\ Findable

\* Every call is answered, and the handlers it has set to work are done, although
\* workers hang, remote tasks never end and answers are lost.
EveryCallEnds ==
  \A c \in Calls : stage[c] = "limit" ~> stage[c] = "done" /\ job[c] \in {"none", "over"}
=============================================================================
