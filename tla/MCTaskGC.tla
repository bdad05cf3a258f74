------------------------------ MODULE MCTaskGC ------------------------------
(* Instances of TaskGC: a task and one of another kind, or two tasks.      *)
EXTENDS TaskGC

CONSTANTS t1, t2, c, d

Pairs == {[t \in Tasks |-> IF t = t1 THEN "task" ELSE k] : k \in Kinds}
Sizes == [t \in Tasks |-> IF t = t1 THEN 5 ELSE 4]
=============================================================================
