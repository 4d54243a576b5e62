--------------------------- MODULE MCTaskLifecycle ---------------------------
(* Instances of TaskLifecycle for TLC.                                      *)
EXTENDS TaskLifecycle

CONSTANTS s1, s2, r1, r2, r3, c1, i1, i2, i3

MCAnswers == Task \cup {UserText}
NoFailTexts == {}
MCFailTexts == {WebhookFailed, Orphaned}

Symmetry == Permutations({s1, s2})

\* Clients may be exchanged together with the ids they want.
ThreeIds == (r1 :> i1) @@ (r2 :> i2) @@ (r3 :> i3)
Exchanged(p) == [x \in {r1, r2, r3, i1, i2, i3} |->
                   IF x \in DOMAIN p THEN p[x] ELSE ThreeIds[p[CHOOSE r \in DOMAIN p : ThreeIds[r] = x]]]
ClientSymmetry == {s @@ Exchanged(p) : s \in Symmetry, p \in Permutations({r1, r2, r3})}

\* Two clients with ids of their own; the first one's task may be cancelled.
DistinctIds == (r1 :> i1) @@ (r2 :> i2)
KillSecond == (c1 :> i2)
NoKills == <<>>
=============================================================================
