------------------------------ MODULE Sublists ------------------------------
(***************************************************************************)
(* What is left of a list or a dictionary when some members are taken out. *)
(***************************************************************************)
EXTENDS Integers, SequencesExt

\* The sequences that list the members of S in the order they have in s.
InOrder(s, S) ==
  {q \in SetToSeqs(S) :
     \A i, j \in DOMAIN q : i < j =>
       \E m, n \in DOMAIN s : m < n /\ s[m] = q[i] /\ s[n] = q[j]}
=============================================================================
