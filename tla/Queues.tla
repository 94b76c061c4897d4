------------------------------- MODULE Queues -------------------------------
(* What it means for a sequence to hold a set of entries, each of them once. *)
EXTENDS Naturals, Sequences

\* Sequence q holds each element of set S once, and nothing else.
HoldsOnce(q, S) ==
  /\ \A i, j \in DOMAIN q : q[i] = q[j] => i = j
  /\ {q[i] : i \in DOMAIN q} = S
=============================================================================
