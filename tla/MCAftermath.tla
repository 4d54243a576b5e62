---------------------------- MODULE MCAftermath ----------------------------
(* An instance of Aftermath for TLC.                                        *)
EXTENDS Aftermath

CONSTANTS t1, t2, t3, i1, i2, a, b

\* Both subscribers are for the task of the first session.
MCTaskOf == [s \in Subs |-> i1]
MCWorksOn == [t \in Savers |-> IF t = t1 THEN i1 ELSE i2]

At(p, q, r) == [t \in Savers |-> CASE t = t1 -> p [] t = t2 -> q [] OTHER -> r]

\* One session and two subscribers; one and one, with a session that may answer the
\* task of the other; three sessions that save, and no subscriber.
MCStarts ==
  {[stages |-> At("idle", "dead", "dead"), subs |-> {a, b}],
   [stages |-> At("idle", "working", "dead"), subs |-> {a}],
   [stages |-> At("idle", "told", "told"), subs |-> {}]}
=============================================================================
