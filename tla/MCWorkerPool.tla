---------------------------- MODULE MCWorkerPool ----------------------------
(* Instances of WorkerPool for TLC.                                          *)
EXTENDS WorkerPool, TLC

CONSTANTS t1, t2, t3, t4

(* Every task is submitted from outside the pool.                            *)
MCFlat == [t \in Tasks |-> NoTask]

(* t2 is submitted from within t1: with t3 and t4, enough for a pool of one  *)
(* worker and a queue of one to be stuck.                                    *)
MCNested == [t \in Tasks |-> IF t = t2 THEN t1 ELSE NoTask]

MCSizes == {0, 1, 2}
MCTwo   == {1, 2}
MCOne   == {1}

MCSymmetry == Permutations(Tasks)
=============================================================================
