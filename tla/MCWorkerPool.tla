---------------------------- MODULE MCWorkerPool ----------------------------
(* A pool that is used by a native thread and then destroyed, and a pool   *)
(* that shrinks and grows while two tasks run on it.                       *)
EXTENDS WorkerPool, TLC

CONSTANTS t1, t2, n1

MCSetups ==
    {[counts |-> {2}, destructible |-> TRUE, natives |-> {n1},
      tasks |-> t1 :> "NEW" @@ t2 :> "COMPLETED",
      does |-> t1 :> {"wait", "ids"} @@ t2 :> {}, maxWaits |-> 2],
     [counts |-> {1, 2}, destructible |-> FALSE, natives |-> {},
      tasks |-> t1 :> "READY" @@ t2 :> "READY",
      does |-> t1 :> {"yield"} @@ t2 :> {"yield"}, maxWaits |-> 0]}
=============================================================================
