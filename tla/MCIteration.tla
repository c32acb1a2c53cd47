---------------------------- MODULE MCIteration -----------------------------
(* Machines of two to four nodes (ids with gaps, a node without CPUs, a    *)
(* distance file that cannot be read) and the calls made on them.          *)
EXTENDS Iteration, TLC

Dist3 == (0 :> <<10, 20, 15>>) @@ (1 :> <<20, 10, 12>>) @@ (3 :> <<15, 12, 10>>)
Dist2 == (0 :> <<10, 20>>) @@ (1 :> <<20, 10>>)

Small == [cpus |-> (0 :> <<0, 2>>) @@ (1 :> <<1>>), distance |-> Dist2]
Blind == [cpus |-> (0 :> <<0>>) @@ (1 :> <<1>>), distance |-> (0 :> <<>>) @@ (1 :> <<>>)]
Gap == [cpus |-> (0 :> <<0>>) @@ (1 :> <<>>) @@ (3 :> <<1, 2>>), distance |-> Dist3]

Base == [machine |-> Small, envNodes |-> None, envThreads |-> 0, nodes |-> <<>>,
         call |-> "once", minUnits |-> 1, elems |-> <<>>, ignore |-> FALSE, bins |-> <<>>,
         bytes |-> 0]

(* NUMA_NODES on a machine with the nodes 0, 1 and 3                       *)
Requests ==
    {None, <<<<Malformed>>>>, <<<<0, Malformed>>>>, <<<<2>>>>, <<<<0, 3>>>>, <<<<5>>>>,
     <<<<1, 0>>>>, <<<<3, Empty>>>>}
    \cup {<<r>> : r \in {<<0>>, <<3>>, <<0, 1>>, <<3, 3>>}}
    \cup {<<r, s>> : r, s \in {<<0>>, <<0, 1>>, <<3>>}}
Numbering ==
    {[Base EXCEPT !.machine = Gap, !.envNodes = e, !.call = c] :
        e \in Requests, c \in {"once", "exec"}}

StdCalls ==
    {[Base EXCEPT !.call = "std", !.elems = x, !.minUnits = u] :
        x \in {<<0, 0, 1>>, <<1, -1, 1>>}, u \in {1, 2, 4}}
    \cup {[Base EXCEPT !.call = "std", !.elems = <<0, 1, 0, 0>>, !.ignore = TRUE, !.minUnits = 2,
                       !.envThreads = 1],
          [Base EXCEPT !.call = "std"],
          [Base EXCEPT !.machine = Blind, !.call = "std", !.elems = <<1, 0, 1>>]}

HashCalls ==
    {[Base EXCEPT !.call = "hash", !.bins = <<<<<<1>>, <<2, 3>>, <<>>>>, <<<<>>, <<4>>>>>>,
                  !.minUnits = u, !.envThreads = 1] : u \in {1, 3}}
    \cup {[Base EXCEPT !.call = "hash", !.minUnits = 4, !.envNodes = <<<<1>>>>,
                       !.bins = <<<<<<1>>, <<>>, <<2>>>>, <<<<3>>, <<>>>>>>]}

Prefaults == {[Base EXCEPT !.call = "prefault", !.bytes = 1],
              [Base EXCEPT !.call = "prefault", !.machine = Gap, !.envThreads = 1]}

MCSetups == Numbering \cup StdCalls \cup HashCalls \cup Prefaults
=============================================================================
