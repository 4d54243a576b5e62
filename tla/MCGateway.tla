----------------------------- MODULE MCGateway -----------------------------
(* An instance of Gateway for TLC.                                          *)
EXTENDS Gateway, TLC

CONSTANTS m, a1, t1, t2, r1, r2

Good == [agent |-> "absent", profile |-> "usable", env |-> "malformed", config |-> "absent",
         files |-> TRUE, telegram |-> "ok"]
MCHomes ==
  {Good, [Good EXCEPT !.telegram = "http error"], [Good EXCEPT !.agent = "unusable"],
   [Good EXCEPT !.telegram = "rejected"]}
MCServers == 1 .. 6

\* Bound: the plugin's life with the tools' threads idle; or two relays while the
\* plugin is loaded for the first time; or a relay and two registrations.
Idle(T) == \A t \in T : pc[t] = "idle"
Undecided == file = Own /\ vault = None
Kept == \A r \in Registrars : ~overwrite[r]

Loading == Idle(Relays \cup Registrars) /\ Undecided /\ Kept
Fresh == home = Good /\ foreign = {} /\ loads <= 1 /\ Idle(Announcers)
Relaying == Fresh /\ Idle(Registrars) /\ Undecided /\ Kept /\ pc[m] \in {"idle", "boot", "check", "bind"}
Registering == Fresh /\ Idle({m, t2})
Budget == Loading \/ Relaying \/ Registering
=============================================================================
