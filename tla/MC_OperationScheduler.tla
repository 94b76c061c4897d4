----------------------- MODULE MC_OperationScheduler -----------------------
(* Small instances of OperationScheduler.                                  *)
EXTENDS OperationScheduler, TLC

CONSTANTS u1, u2, s1, s2

MCUserOperations == {u1, u2}
MCSystemOperations == {s1, s2}
MCOneSystemOperation == {s1}
MCFaults == {"post", "abort", "dequeue", "drain"}
MCQueueFaults == {"post", "dequeue"}

Symmetry == Permutations(MCUserOperations) \cup Permutations(MCSystemOperations)
=============================================================================
