----------------------------- MODULE MCOutbound -----------------------------
(* An instance of Outbound for TLC.                                         *)
EXTENDS Outbound, TLC

CONSTANTS c1, c2, c3, c4, i1, i2

Ask(tool, id) == [tool |-> tool, id |-> id, away |-> FALSE]
CancelAt(id) == [Ask("cancel", id) EXCEPT !.away = TRUE]
Idler == Ask("cancel", i2)

\* Bound: up to three calls that have to do with each other, a fourth that has
\* little to do.
Local == Ask("local", i1)
Away == Ask("remote", i1)
Cancel == Ask("cancel", i1)
Canceled2 == <<Local, Cancel, Cancel>>
Triples ==
  {Canceled2, <<Local, Local, Cancel>>, <<Local, Ask("local", i2), CancelAt(i1)>>,
   <<Local, Away, Cancel>>, <<Away, Away, Cancel>>,
   <<Ask("send", i1), Ask("send", i1), Idler>>, <<Ask("send", i1), CancelAt(i1), Idler>>}
MCRequests == {Idler} \cup UNION {Range(p) : p \in Triples}
Grouped == request[c4] = Idler /\ <<request[c1], request[c2], request[c3]>> \in Triples

\* Bound: the fourth call comes, and the clock runs, before calls that are admitted
\* start on their work; those that do are admitted in the first tick.
Waiting ==
  /\ \A c \in Calls : stage[c] \in {"idle", "limit", "start", "done"} /\ job[c] = "none"
  /\ <<request[c1], request[c2], request[c3]>> = Canceled2
Working == clock = 0 /\ \A c \in Calls : request[c] = Idler => stage[c] = "idle"
Budget == Grouped /\ (Waiting \/ Working)
=============================================================================
