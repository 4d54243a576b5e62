------------------------------ MODULE TaskStatus ------------------------------
(***************************************************************************)
(* What a polling client may rely on: the state GetTask reports for each   *)
(* task id (TaskQueue.get_status and the table TaskQueue._TRANSITIONS).    *)
(* A task is submitted once, is worked on at most once, and its outcome is *)
(* final.                                                                  *)
(***************************************************************************)
CONSTANT TaskIds

VARIABLE status

Init == status = [i \in TaskIds |-> "unknown"]

Submit(i) ==
  /\ status[i] = "unknown"
  /\ status' = [status EXCEPT ![i] = "submitted"]

Start(i) ==
  /\ status[i] = "submitted"
  /\ status' = [status EXCEPT ![i] = "working"]

Finish(i) ==
  /\ status[i] \in {"submitted", "working"}
  /\ \E outcome \in {"completed", "canceled"} :
       status' = [status EXCEPT ![i] = outcome]

Next == \E i \in TaskIds : Submit(i) \/ Start(i) \/ Finish(i)

Spec == Init /\ [][Next]_status
=============================================================================
