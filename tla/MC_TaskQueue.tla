---------------------------- MODULE MC_TaskQueue ----------------------------
(* Small instances of TaskQueue.                                           *)
EXTENDS TaskQueue

CONSTANTS t1, t2, t3, t4

MCTasks == {t1, t2, t3, t4}
=============================================================================
