---------------------------- MODULE MCSSEStreams ----------------------------
(* Instances of SSEStreams for TLC.                                         *)
EXTENDS SSEStreams

CONSTANTS c1, c2, s1, s2

\* Sessions differ in nothing.
Alike == Permutations(Sessions)

\* Two clients and one session, or one client and two sessions, which may cross each
\* other; a task that was handed over again is not put back again, for that may go on.
Groups ==
  /\ (\A c \in Clients : handler[c] # "new") =>
       ~crossed /\ ~revived /\ \A s \in Sessions : s = turnOf \/ (agent[s] = "idle" /\ Quiet(s))
  /\ crossed /\ revived => \A s \in Sessions : agent[s] # "behind"
=============================================================================
