----------------------------- MODULE MCTaskQueue -----------------------------
(* Instances of TaskQueue for TLC: the most general caller of the queue.    *)
EXTENDS TaskQueue

\* Ids are interchangeable.
Symmetry == Permutations(TaskIds)

\* Every state transition() and the auth calls may be asked for.
AllTargets == TaskState

\* The only state the code base asks transition() for.
WorkingOnly == {"working"}

AllFailTexts == {WebhookFailed, Orphaned}
WebhookOnly == {WebhookFailed}
=============================================================================
