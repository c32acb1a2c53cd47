------------------------- MODULE MCSchedulingDomain -------------------------
(* Two concurrent puts of different priorities while a worker thread comes *)
(* and goes, and two workers after two tasks of the same priority.         *)
EXTENDS SchedulingDomain, TLC

CONSTANTS a, b, p1, p2, g1, g2

MCSetups == {[priority |-> a :> 1 @@ b :> 2, threads |-> {p1, p2, g1},
              resizable |-> {1}],
             [priority |-> a :> 0 @@ b :> 0, threads |-> {p1, g1, g2},
              resizable |-> {}]}
=============================================================================
