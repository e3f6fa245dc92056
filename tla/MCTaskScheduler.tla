--------------------------- MODULE MCTaskScheduler -------------------------
(* Small instances of TaskScheduler.                                       *)
EXTENDS TaskScheduler

CONSTANTS t1, t2, t3, a1

OneAccount == [t \in Tasks |-> a1]
=============================================================================
