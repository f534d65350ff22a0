--------------------------- MODULE MCKafkaCatchup ---------------------------
(* A small instance of KafkaCatchup: the threads start with different       *)
(* backlogs, the first one below the catch-up threshold.                    *)
EXTENDS KafkaCatchup

MCInitial == [t \in ThreadId |-> IF t = 0 THEN 2 ELSE 4]
=============================================================================
