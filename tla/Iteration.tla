----------------------------- MODULE Iteration ------------------------------
(***************************************************************************)
(* One collective call and the worker threads that serve it:               *)
(*   for_each_distr / std_for_each_distr (hashtable/containers.hpp),       *)
(*   prefaultWorkerThreadStorages and onceForEachNode                      *)
(*   (tasking/task_interface.cpp), distributedExec (tasking/tasking.hpp).  *)
(*                                                                         *)
(* The caller puts one task after another and waits for all of them.  A    *)
(* queued task is taken by any worker of its node: which one is up to the  *)
(* scheduling domain (SchedulingDomain), how a worker is woken to WorkerPool*)
(* and how the caller waits to TaskSync.                                   *)
(***************************************************************************)
EXTENDS Nodes

CONSTANT Setups   \* the machines, environments, containers and calls

(***************************************************************************)
(* A setup: machine, envNodes, envThreads (see Nodes); nodes, the NodeList *)
(* passed by the user (<<>>: all logical nodes); call; minUnits; elems,    *)
(* the physical node of each element of a std container, -1 if no          *)
(* MemSource owns it; ignore, whether the policy is IgnorePlacement; bins, *)
(* the buckets of each bin of a hash table, a bucket being a sequence of   *)
(* elements; bytes, what is asked from prefault.                           *)
(* Two things are left out because the code does not survive them: memory  *)
(* of a logical node without CPUs, for which no iteration exists, and a    *)
(* hash table that has no bin on some logical node.                        *)
(***************************************************************************)
VARIABLES
    setup,
    mapping,      \* the static physicalToLogical() of node.cpp
    iterations,   \* the iterators of a node's ParallelIteration; Global's
    currIndex,    \* their currIndex / _counter
    caller,       \* "call", "spawn", "wait", "returned"
    todo,         \* the nodes of the tasks that are still to be put
    tasks,        \* the state of each task: its node, "queued", "running", "done"
    worker,       \* what a worker does
    ret,          \* the thread data collected by for_each; who ran the other tasks
    counter, semaphore, minPrefault   \* the barrier of prefault

vars == <<setup, mapping, iterations, currIndex, caller, todo, tasks, worker, ret,
          counter, semaphore, minPrefault>>
barrier == <<counter, semaphore, minPrefault>>
lists == <<iterations, currIndex>>

Global == -1             \* the iteration for Node()
SizeMax == 2^30           \* (size_t) -1: more than any request
MaxAsked == 8            \* bound: NUMA_NODES names no higher node

withCPUs == logicalNodesWithCPUs(setup.machine, mapping)
threads(n) == threadCount(setup.machine, setup.envThreads, n)
Workers == UNION {{n} \X (1..threads(n)) : n \in ToSet(withCPUs)}

-----------------------------------------------------------------------------
(* StdContainerWrapper                                                     *)

(* IgnorePlacement, MemSourceCreationPlacement                             *)
policy(i) == IF ~setup.ignore /\ physicalToLogicalId(mapping, setup.elems[i]) >= 0
             THEN setup.elems[i] ELSE Global

maxChunk == Len(setup.elems) \div setup.minUnits

(* One turn of the loop of iterate(): a chunk ends where the node changes, *)
(* at the end, or when it is full.                                         *)
ExtendChunk(c, i) ==
    LET atEnd == i = Len(setup.elems)
        node == IF atEnd THEN c.node ELSE policy(i + 1)
    IN  IF node # c.node \/ atEnd \/ c.size + 1 >= maxChunk
        THEN [iters |-> [c.iters EXCEPT ![c.node] =
                            Append(@, [bin |-> 0, curr |-> c.last, end |-> i + 1, sub |-> 0])],
              last |-> i + 1, node |-> node, size |-> 0]
        ELSE [c EXCEPT !.size = @ + 1]

StdIterations ==
    LET none == [k \in ToSet(withCPUs) \cup {Global} |-> <<>>]
        first == IF setup.elems = <<>> THEN Global ELSE policy(1)
    IN  FoldLeft(ExtendChunk, [iters |-> none, last |-> 1, node |-> first, size |-> 0],
                 [i \in DOMAIN setup.elems |-> i]).iters

-----------------------------------------------------------------------------
(* HashTable::ParallelIteration                                            *)

BinCount == Len(setup.bins)
nodesGiven == IF setup.nodes = <<>> THEN logicalNodes(mapping) ELSE setup.nodes
bin_nodes == [b \in 1..BinCount |-> nodesGiven[((b - 1) * Len(nodesGiven)) \div BinCount + 1]]

(* HashTable::nodes: std::unique of the bins' nodes                        *)
hashNodes ==
    LET IsFirst(b) == b = 1 \/ bin_nodes[b] # bin_nodes[b - 1]
        firsts == SelectSeq([b \in 1..BinCount |-> b], IsFirst)
    IN  [k \in DOMAIN firsts |-> bin_nodes[firsts[k]]]

(* RecursiveIterator over the buckets curr .. end - 1 of a bin             *)
find_next(it) ==
    LET ahead == {b \in it.curr..(it.end - 1) : setup.bins[it.bin][b] # <<>>}
    IN  IF ahead = {} THEN [it EXCEPT !.curr = it.end]
        ELSE [it EXCEPT !.curr = Min(ahead), !.sub = 1]

(* Faulty: the end of a range is rounded up.                               *)
UnitRangeRoundedUp(size, units, i) ==
    <<(i * size) \div units, ((i + 1) * size + units - 1) \div units>>
UnitRange(size, units, i) == <<(i * size) \div units, ((i + 1) * size) \div units>>

BinIters(b, min_bin_units) ==
    LET size == Len(setup.bins[b])
        units == Min({min_bin_units, size})
    IN  [i \in 1..units |->
            find_next([bin |-> b, curr |-> UnitRange(size, units, i - 1)[1] + 1,
                       end |-> UnitRange(size, units, i - 1)[2] + 1, sub |-> 0])]

HashIterations ==
    LET min_units == (Len(hashNodes) + setup.minUnits) \div Len(hashNodes)
        BinsOf(n) == SelectSeq([b \in 1..BinCount |-> b], LAMBDA b : bin_nodes[b] = n)
        Iters(n) == LET bins == BinsOf(n)
                        each == (Len(bins) + min_units - 1) \div Len(bins)
                    IN  FlattenSeq([k \in DOMAIN bins |-> BinIters(bins[k], each)])
    IN  [k \in ToSet(withCPUs) \cup {Global} |-> IF k = Global THEN <<>> ELSE Iters(k)]

-----------------------------------------------------------------------------
(* The iterators of a task                                                 *)

is_end(it) == it.curr >= it.end
elem(it) == IF it.bin = 0 THEN it.curr ELSE setup.bins[it.bin][it.curr][it.sub]
next(it) ==
    IF it.bin = 0 THEN [it EXCEPT !.curr = @ + 1]
    ELSE IF it.sub < Len(setup.bins[it.bin][it.curr]) THEN [it EXCEPT !.sub = @ + 1]
    ELSE find_next([it EXCEPT !.curr = @ + 1, !.sub = 0])

AtEnd == [bin |-> 0, curr |-> 0, end |-> 0, sub |-> 0]
Elements == IF setup.call = "std" THEN DOMAIN setup.elems
            ELSE UNION {UNION {ToSet(setup.bins[b][i]) : i \in DOMAIN setup.bins[b]} :
                           b \in 1..BinCount}

-----------------------------------------------------------------------------
(* The caller                                                              *)

forEachThread(nodes) ==
    FlattenSeq([k \in DOMAIN nodes |-> [i \in 1..threads(nodes[k]) |-> nodes[k]]])
onceForEachNode(nodes) == SelectSeq(nodes, LAMBDA n : cpuCount(setup.machine, n) # 0)
DistributedExec(nodes) ==
    FlattenSeq([k \in DOMAIN nodes |-> [i \in 1..cpuCount(setup.machine, nodes[k]) |-> nodes[k]]])

Idle == [pc |-> "idle", task |-> 0, keys |-> <<>>, it |-> AtEnd, arg |-> <<>>, pf |-> 0]

Init ==
    /\ setup \in Setups
    /\ mapping = getPhysicalToLogicalMapping(setup.machine, setup.envNodes)
    /\ iterations = <<>> /\ currIndex = <<>>
    /\ caller = "call" /\ todo = <<>> /\ tasks = <<>>
    /\ worker \in [Workers -> {Idle, [Idle EXCEPT !.pc = "busy"]}]
    /\ ret = <<>>
    /\ counter = 0 /\ semaphore = 0 /\ minPrefault = SizeMax

(* Each call up to its first task.                                         *)
Call ==
    /\ caller = "call"
    /\ caller' = "spawn"
    /\ iterations' = CASE setup.call = "std" -> StdIterations
                       [] setup.call = "hash" -> HashIterations
                       [] OTHER -> <<>>
    /\ currIndex' = [k \in DOMAIN iterations' |-> 0]
    /\ todo' = CASE setup.call \in {"std", "prefault"} -> forEachThread(withCPUs)
                 [] setup.call = "hash" -> forEachThread(hashNodes)
                 [] setup.call = "once" -> onceForEachNode(nodesGiven)
                 [] setup.call = "exec" -> DistributedExec(nodesGiven)
    /\ UNCHANGED <<setup, mapping, tasks, worker, ret, barrier>>

(* Scheduler::put_task                                                     *)
put_task ==
    /\ caller = "spawn" /\ todo # <<>>
    /\ tasks' = Append(tasks, [node |-> Head(todo), state |-> "queued"])
    /\ todo' = Tail(todo)
    /\ UNCHANGED <<setup, mapping, lists, caller, worker, ret, barrier>>

(* numa::wait on the list of all tasks                                     *)
wait ==
    /\ caller = "spawn" /\ todo = <<>>
    /\ \A k \in DOMAIN tasks : tasks[k].state = "done"
    /\ caller' = "returned"
    /\ UNCHANGED <<setup, mapping, lists, todo, tasks, worker, ret, barrier>>

-----------------------------------------------------------------------------
(* The workers                                                             *)

At(w, l) == worker[w].pc = l
Becomes(w, r) == worker' = [worker EXCEPT ![w] = r]
TaskDone(w) ==
    /\ tasks' = [tasks EXCEPT ![worker[w].task].state = "done"]
    /\ Becomes(w, Idle)

(* A task of someone else ends.                                            *)
finishOther(w) ==
    /\ At(w, "busy") /\ Becomes(w, Idle)
    /\ UNCHANGED <<setup, mapping, lists, caller, todo, tasks, ret, barrier>>

(* Node::curr: the node of the CPU that the worker is pinned to            *)
curr(w) == node_of_cpuid(setup.machine, setup.machine.cpus[w[1]][w[2]])

(* The task starts: a task of for_each first walks over its own node, then *)
(* over the neighbours, nearest first, then over what belongs to no node.  *)
try_get_task(w) ==
    \E k \in DOMAIN tasks :
        /\ At(w, "idle") /\ tasks[k].state = "queued" /\ tasks[k].node = w[1]
        /\ tasks' = [tasks EXCEPT ![k].state = "running"]
        /\ Becomes(w, [Idle EXCEPT
              !.task = k,
              !.pc = CASE setup.call \in {"std", "hash"} -> "iterate"
                       [] setup.call = "prefault" -> "prefault"
                       [] OTHER -> "function",
              !.keys = IF setup.call \in {"std", "hash"}
                       THEN <<curr(w)>> \o nearestNeighbors(setup.machine, mapping, curr(w), TRUE)
                               \o <<Global>>
                       ELSE <<>>])
        /\ UNCHANGED <<setup, mapping, lists, caller, todo, ret, barrier>>

(* ParallelIteration::get on the first of the lists that are left          *)
get(w) ==
    /\ At(w, "iterate") /\ is_end(worker[w].it) /\ worker[w].keys # <<>>
    /\ LET key == Head(worker[w].keys)
           idx == currIndex[key] + 1
       IN  /\ currIndex' = [currIndex EXCEPT ![key] = idx]
           /\ IF idx \in DOMAIN iterations[key]
              THEN Becomes(w, [worker[w] EXCEPT !.it = iterations[key][idx]])
              ELSE Becomes(w, [worker[w] EXCEPT !.keys = Tail(@)])
    /\ UNCHANGED <<setup, mapping, iterations, caller, todo, tasks, ret, barrier>>

(* The function is called for the element, the iterator moves on.          *)
visit(w) ==
    /\ At(w, "iterate") /\ ~is_end(worker[w].it)
    /\ Becomes(w, [worker[w] EXCEPT !.arg = Append(@, elem(worker[w].it)), !.it = next(@)])
    /\ UNCHANGED <<setup, mapping, lists, caller, todo, tasks, ret, barrier>>

(* The thread data is collected under the mutex.                           *)
collect(w) ==
    /\ At(w, "iterate") /\ is_end(worker[w].it) /\ worker[w].keys = <<>>
    /\ ret' = Append(ret, worker[w].arg)
    /\ TaskDone(w)
    /\ UNCHANGED <<setup, mapping, lists, caller, todo, barrier>>

(* The function of onceForEachNode, distributedExec                        *)
function(w) ==
    /\ At(w, "function")
    /\ ret' = Append(ret, <<w>>)
    /\ TaskDone(w)
    /\ UNCHANGED <<setup, mapping, lists, caller, todo, barrier>>

-----------------------------------------------------------------------------
(* The task of prefaultWorkerThreadStorages                                *)

count == FoldLeft(+, 0, [k \in DOMAIN withCPUs |-> threads(withCPUs[k])])

(* What can be prefaulted depends on the free memory of the worker's source.*)
prefault(w) ==
    /\ At(w, "prefault")
    /\ \E pf \in 0..setup.bytes :
          /\ Becomes(w, [worker[w] EXCEPT !.pc = "arrive", !.pf = pf])
          /\ ret' = Append(ret, <<w, pf>>)
    /\ UNCHANGED <<setup, mapping, lists, caller, todo, tasks, barrier>>

(* Faulty: the barrier is open before the last one has come.               *)
ArriveEarly(w) ==
    /\ At(w, "arrive")
    /\ counter' = counter + 1
    /\ semaphore' = IF counter + 1 >= count - 1 THEN semaphore + 1 ELSE semaphore
    /\ Becomes(w, [worker[w] EXCEPT !.pc = "wait"])
    /\ UNCHANGED <<setup, mapping, lists, caller, todo, tasks, ret, minPrefault>>

(* counter.fetch_add; the last one posts.                                  *)
arrive(w) ==
    /\ At(w, "arrive")
    /\ counter' = counter + 1
    /\ semaphore' = IF counter = count - 1 THEN semaphore + 1 ELSE semaphore
    /\ Becomes(w, [worker[w] EXCEPT !.pc = "wait"])
    /\ UNCHANGED <<setup, mapping, lists, caller, todo, tasks, ret, minPrefault>>

sem_wait(w) ==
    /\ At(w, "wait") /\ semaphore > 0
    /\ semaphore' = semaphore - 1
    /\ Becomes(w, [worker[w] EXCEPT !.pc = "post"])
    /\ UNCHANGED <<setup, mapping, lists, caller, todo, tasks, ret, counter, minPrefault>>

(* Faulty: whoever leaves the barrier lets nobody else out.                *)
PassOnNothing(w) ==
    /\ At(w, "post")
    /\ Becomes(w, [worker[w] EXCEPT !.pc = "update"])
    /\ UNCHANGED <<setup, mapping, lists, caller, todo, tasks, ret, barrier>>

sem_post(w) ==
    /\ At(w, "post")
    /\ semaphore' = semaphore + 1
    /\ Becomes(w, [worker[w] EXCEPT !.pc = "update"])
    /\ UNCHANGED <<setup, mapping, lists, caller, todo, tasks, ret, counter, minPrefault>>

(* minPrefault under the mutex; the task is done.                          *)
update(w) ==
    /\ At(w, "update")
    /\ minPrefault' = Min({minPrefault, worker[w].pf})
    /\ TaskDone(w)
    /\ UNCHANGED <<setup, mapping, lists, caller, todo, ret, counter, semaphore>>

WorkerStep(w) ==
    \/ finishOther(w) \/ try_get_task(w)
    \/ get(w) \/ visit(w) \/ collect(w) \/ function(w)
    \/ prefault(w) \/ arrive(w) \/ sem_wait(w) \/ sem_post(w) \/ update(w)

CallerStep == Call \/ put_task \/ wait
Next == CallerStep \/ \E w \in DOMAIN worker : WorkerStep(w)
Spec == Init /\ [][Next]_vars

(* Threads are scheduled, and the functions of the tasks return.           *)
Everyone == UNION {(DOMAIN s.machine.cpus) \X
                      (1..Max({cpuCount(s.machine, n) : n \in DOMAIN s.machine.cpus})) :
                   s \in Setups}
FairSpec == Spec /\ WF_vars(CallerStep)
                 /\ \A w \in Everyone : WF_vars(w \in DOMAIN worker /\ WorkerStep(w))

-----------------------------------------------------------------------------

(* node.cpp gives the nodes in use the numbers 0, 1, ... in the order of   *)
(* their physical ids: those NUMA_NODES asks for, each once however often  *)
(* it is named, or all nodes when it asks for one that does not exist or   *)
(* cannot be read.  logicalNodes() is indexed by these numbers, and the    *)
(* neighbours of a node are all nodes in use whose distance is known, the  *)
(* nearer before the farther.                                              *)
NodesAreNumbered ==
    LET all == DOMAIN setup.machine.cpus
        readable == /\ setup.envNodes # None
                    /\ \A i \in DOMAIN setup.envNodes : Malformed \notin ToSet(setup.envNodes[i])
        Asked(range) == {n \in 0..MaxAsked :
                           CASE Len(range) = 1 -> n = range[1]
                             [] Empty \in ToSet(range) -> FALSE
                             [] OTHER -> range[1] <= n /\ n <= range[2]}
        asked == IF readable THEN UNION {Asked(setup.envNodes[i]) : i \in DOMAIN setup.envNodes}
                 ELSE {}
        used == IF asked # {} /\ asked \subseteq all THEN asked ELSE all
    IN  /\ \A n \in all : physicalToLogicalId(mapping, n) =
               IF n \in used THEN Cardinality({m \in used : m < n}) ELSE -1
        /\ \A n \in used : logicalNodes(mapping)[mapping[n] + 1] = n
        /\ \A n \in used : \A withCPU \in BOOLEAN :
               LET near == nearestNeighbors(setup.machine, mapping, n, withCPU)
                   Dist(m) == setup.machine.distance[n][Cardinality({k \in all : k <= m})]
               IN  /\ setup.machine.distance[n] # <<>> =>
                         /\ ToSet(near) = {m \in used : withCPU => setup.machine.cpus[m] # <<>>}
                         /\ Len(near) = Cardinality(ToSet(near))
                   /\ \A i, j \in DOMAIN near : i < j => Dist(near[i]) <= Dist(near[j])

(* When a call has returned, its tasks are done.  for_each has called the  *)
(* function exactly once for each element, whatever the chunks, and each   *)
(* call is in the data of exactly one thread; onceForEachNode and          *)
(* distributedExec have run their function on each of the nodes, as often  *)
(* as they promise, and prefault reports the smallest of the results.      *)
CallIsComplete ==
    caller = "returned" =>
        /\ \A k \in DOMAIN tasks : tasks[k].state = "done"
        /\ CASE setup.call \in {"std", "hash"} ->
                   LET visits == FlattenSeq(ret)
                   IN  ToSet(visits) = Elements /\ Len(visits) = Cardinality(Elements)
             [] setup.call = "prefault" ->
                   minPrefault = Min({ret[k][2] : k \in DOMAIN ret})
             [] OTHER ->
                   \A n \in ToSet(nodesGiven) :
                      Cardinality({k \in DOMAIN ret : ret[k][1][1] = n}) =
                         IF setup.call = "once" THEN Min({1, cpuCount(setup.machine, n)})
                         ELSE cpuCount(setup.machine, n)

(* What the barrier of prefaultWorkerThreadStorages is for: no worker runs *)
(* two of the tasks, so that in the end each has prefaulted its own        *)
(* storage.                                                                *)
EveryWorkerPrefaults ==
    setup.call = "prefault" =>
        /\ \A j, k \in DOMAIN ret : j # k => ret[j][1] # ret[k][1]
        /\ caller = "returned" => {ret[k][1] : k \in DOMAIN ret} = DOMAIN worker

(* A collective call returns: with one task per worker the barrier opens   *)
(* as soon as the workers have finished what they were doing, and every    *)
(* task that waits in it gets out.                                         *)
CallReturns == <>(caller = "returned")
=============================================================================
