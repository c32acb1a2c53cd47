----------------------------- MODULE MCTaskSync -----------------------------
(* Instances of TaskSync for TLC: who may wait for which tasks.            *)
EXTENDS TaskSyncInv

CONSTANTS t1, t2, t3, n1, n2, m1

(* A diamond: t1 waits for t2 and t3, t2 for t3, a native thread for t1    *)
(* and t3.  Every list names its tasks in the order t1, t2, t3.            *)
DiamondLists ==
    [s \in Syncs |->
        CASE s = t1 -> {<<t2, t3>>}
          [] s = t2 -> {<<t3>>}
          [] s = n1 -> {<<t1, t3>>}
          [] OTHER -> {}]

(* Nobody waits for tasks: the mutex is the only synchronisation.          *)
NoLists == [s \in Syncs |-> {}]

(* Two waiters that name the same two tasks in opposite orders.            *)
CrossedLists ==
    [s \in Syncs |->
        CASE s = n1 -> {<<t1, t2>>}
          [] s = n2 -> {<<t2, t1>>}
          [] OTHER -> {}]
=============================================================================
