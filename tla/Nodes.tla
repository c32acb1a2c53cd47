------------------------------- MODULE Nodes --------------------------------
(***************************************************************************)
(* Physical and logical nodes: what the machine reports (topology.cpp) and *)
(* what NUMA_NODES and NUMA_THREADS make of it (node.cpp).                 *)
(* A machine is a record: cpus, the CPUs of each physical node; distance,  *)
(* the numbers in the node's distance file, <<>> if it cannot be read.     *)
(* NUMA_NODES is None or a sequence of ranges; a range is the sequence of  *)
(* its tokens, each a number, Malformed (not a number) or Empty.           *)
(***************************************************************************)
EXTENDS Integers, FiniteSetsExt, SequencesExt, Functions

CONSTANTS None, Malformed, Empty

Less(a, b) == a < b

(***************************************************************************)
(* Topology.                                                               *)
(***************************************************************************)
node_ids(machine) == SetToSortSeq(DOMAIN machine.cpus, Less)

(* The k-th number of the file is the distance to the k-th node; the       *)
(* neighbours of a node, itself included, are sorted by distance, then id. *)
Nearer(p, q) == p[1] < q[1] \/ (p[1] = q[1] /\ p[2] < q[2])
nearestOf(machine, n) ==
    LET ids == node_ids(machine)
        file == machine.distance[n]
    IN  SetToSortSeq({<<file[i], ids[i]>> : i \in DOMAIN ids \cap DOMAIN file}, Nearer)

cpuCount(machine, n) == Len(machine.cpus[n])
core_of(machine, n, cpu) ==
    LET at == {i \in DOMAIN machine.cpus[n] : machine.cpus[n][i] = cpu}
    IN  IF at = {} THEN -1 ELSE Min(at) - 1
node_of_cpuid(machine, cpu) ==
    CHOOSE n \in DOMAIN machine.cpus : core_of(machine, n, cpu) >= 0

(***************************************************************************)
(* NUMA_NODES.                                                             *)
(***************************************************************************)
(* sscanf of nothing returns EOF and leaves the -1 the variable had.       *)
Scanned(token) == IF token = Empty THEN -1 ELSE token
Bounds(range) == <<Scanned(range[1]), Scanned(IF Len(range) = 2 THEN range[2] ELSE range[1])>>

get_sorted_elements_from_string(ranges) ==
    LET bad == \E i \in DOMAIN ranges :
                  \/ Len(ranges[i]) < 1 \/ ranges[i][1] = Malformed
                  \/ Len(ranges[i]) = 2 /\ ranges[i][2] = Malformed
        Numbers(range) == [k \in 1..(Bounds(range)[2] - Bounds(range)[1] + 1) |->
                              Bounds(range)[1] + k - 1]
        all == FlattenSeq([i \in DOMAIN ranges |-> Numbers(ranges[i])])
    IN  IF bad THEN <<>> ELSE SortSeq(all, Less)

(* Every node in use, numbered in order.                                   *)
setToUseAllNodes(machine) ==
    LET ids == node_ids(machine)
    IN  [n \in 0..Last(ids) |->
            IF n \in ToSet(ids) THEN IndexFirstSubSeq(<<n>>, ids) - 1 ELSE -2]

(* Faulty: a node that is asked for again is numbered again.               *)
UseAgain(m, n) ==
    IF ~m.okay \/ m.result[n] = -2 THEN [m EXCEPT !.okay = FALSE]
    ELSE [m EXCEPT !.result[n] = m.next, !.next = @ + 1]

(* One requested node: unknown, repeated, or the next logical id.          *)
UseNode(m, n) ==
    IF ~m.okay \/ m.result[n] = -2 THEN [m EXCEPT !.okay = FALSE]
    ELSE IF m.result[n] >= 0 THEN m
    ELSE [m EXCEPT !.result[n] = m.next, !.next = @ + 1]

getPhysicalToLogicalMapping(machine, envNodes) ==
    LET ids == node_ids(machine)
        requested == get_sorted_elements_from_string(envNodes)
        unused == [n \in 0..Last(ids) |-> IF n \in ToSet(ids) THEN -1 ELSE -2]
        used == FoldLeft(UseNode, [result |-> unused, next |-> 0, okay |-> TRUE],
                         requested)
    IN  IF envNodes # None /\ requested # <<>> /\ Last(requested) <= Last(ids) /\ used.okay
        THEN used.result
        ELSE setToUseAllNodes(machine)

physicalToLogicalId(mapping, n) == IF n \in DOMAIN mapping THEN mapping[n] ELSE -1

(***************************************************************************)
(* Logical nodes, given by their physical ids in the order of logical ids. *)
(***************************************************************************)
logicalNodes(mapping) ==
    SetToSortSeq({n \in DOMAIN mapping : mapping[n] >= 0}, Less)
logicalNodesWithCPUs(machine, mapping) ==
    LET HasCPUs(n) == cpuCount(machine, n) > 0
    IN  SelectSeq(logicalNodes(mapping), HasCPUs)

(* NUMA_THREADS: 0 if it is not set or no number.                          *)
threadCount(machine, env, n) ==
    IF env = 0 THEN cpuCount(machine, n) ELSE Min({env, cpuCount(machine, n)})

nearestNeighbors(machine, mapping, n, withCPUsOnly) ==
    LET Counts(p) == mapping[p[2]] >= 0 /\ (withCPUsOnly => cpuCount(machine, p[2]) > 0)
        near == SelectSeq(nearestOf(machine, n), Counts)
    IN  [i \in DOMAIN near |-> near[i][2]]
=============================================================================
