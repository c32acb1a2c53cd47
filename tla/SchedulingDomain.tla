--------------------------- MODULE SchedulingDomain --------------------------
(***************************************************************************)
(* The queues of one scheduling domain: SchedulingDomain (one task         *)
(* collection, task counter and lazy constructor per priority, and the     *)
(* index of the highest priority ever used, task_scheduler.cpp) over       *)
(* TaskCollection (a global queue and one queue per worker thread id,      *)
(* task_collection.cpp).                                                   *)
(*                                                                         *)
(* put_task and try_get_task take no lock around their accesses to the     *)
(* queue pointers, the queues, the counter and the priority index, so each *)
(* of those accesses is a step of its own.  add_thread and remove_thread   *)
(* hold every lock of the domain, which excludes only the construction of  *)
(* a collection.                                                           *)
(***************************************************************************)
EXTENDS Integers, Sequences, FiniteSets, Functions

CONSTANTS
    Tasks,       \* the tasks, each put once
    MaxPriority, \* Priority::max_index()
    NumThreads,  \* worker thread ids are 0 .. NumThreads - 1
    Active,      \* the thread ids registered initially
    Putters,     \* threads that call put_task
    Getters,     \* worker threads that call try_get_task
    Setups,      \* the tasks' priorities, the threads there are, and the thread ids
                 \* that are added and removed
    MaxQueues,   \* bound: how often the queue of a thread id may be created
    CountMod,    \* modulus of the task counters (2^64 in the code)
    None         \* no task, no queue

Prios == 0 .. MaxPriority
ThreadIds == 0 .. NumThreads - 1
Procs == Putters \cup Getters

(* A TaskQueue object: the global one, or the g-th one made for a thread.  *)
Global == <<-1, 0>>
Queues == {Global} \cup (ThreadIds \X (1 .. MaxQueues))

ASSUME DomainConstants ==
    /\ MaxPriority \in Nat /\ NumThreads \in Nat \ {0} /\ MaxQueues \in Nat \ {0}
    /\ CountMod \in Nat \ {0}
    /\ Setups \subseteq [priority : [Tasks -> Prios], threads : SUBSET Procs,
                         resizable : SUBSET ThreadIds]
    /\ Active \subseteq ThreadIds 
    /\ Putters \cap Getters = {}
    /\ None \notin Tasks \cup Queues

VARIABLES
    setup,     \* one of Setups
    created,   \* PriorityTasks::tasks is not null
    count,     \* PriorityTasks::count
    queue,     \* queue[p][q]: contents of a TaskQueue of priority p
    ptr,       \* ptr[p][i]: TaskQueueEntry::queue of thread id i
    made,      \* made[i]: how many queues thread id i has had
    active,    \* _active_thread_ids
    top,       \* _topPriorityIdx
    pc,        \* where a putter or getter is
    task,      \* the task in its hands
    dst,       \* the queue it has loaded
    idx,       \* the priority it works on
    tid,       \* the thread id it was called with
    scan,      \* stealing: <<next thread id, thread ids left>>
    seen,      \* put_task: the local variable expected
    admin,     \* add_thread / remove_thread in progress
    fresh,     \* the tasks nobody has put yet
    taken      \* the tasks that try_get_task has returned

shared == <<created, count, queue, ptr, made, active, top>>
locals == <<pc, task, dst, idx, tid, scan, seen>>
vars == <<setup, shared, locals, admin, fresh, taken>>

Idle == [op |-> "none", id |-> 0, prio |-> 0, task |-> None, queue |-> None]

(* The tasks in the queues of priority p.                                  *)
Contents(p) == UNION {Range(queue[p][q]) : q \in Queues}

TypeOK ==
    /\ setup \in Setups
    /\ created \in [Prios -> BOOLEAN]
    /\ count \in [Prios -> 0 .. CountMod - 1]
    /\ queue \in [Prios -> [Queues -> Seq(Tasks)]]
    /\ ptr \in [Prios -> [ThreadIds -> Queues \cup {None}]]
    /\ made \in [ThreadIds -> 0 .. MaxQueues]
    /\ active \subseteq ThreadIds
    /\ top \in Prios
    /\ pc \in [Procs -> {"absent", "idle", "create", "load", "push", "count", "top", "cas",
                         "check", "own", "popown", "global", "steal", "popsteal",
                         "uncount", "ret"}]
    /\ task \in [Procs -> Tasks \cup {None}]
    /\ dst \in [Procs -> Queues \cup {None}]
    /\ idx \in [Procs -> Prios \cup {-1}]
    /\ tid \in [Procs -> ThreadIds \cup {-1}]
    /\ scan \in [Procs -> ThreadIds \X (0 .. NumThreads)]
    /\ seen \in [Procs -> Prios]
    /\ fresh \subseteq Tasks /\ taken \subseteq Tasks
    /\ admin \in [op : {"none", "add", "remove", "drain"}, id : ThreadIds,
                  prio : Prios \cup {MaxPriority + 1},
                  task : Tasks \cup {None}, queue : Queues \cup {None}]

Init ==
    /\ setup \in Setups
    /\ created = [p \in Prios |-> FALSE]
    /\ count = [p \in Prios |-> 0]
    /\ queue = [p \in Prios |-> [q \in Queues |-> <<>>]]
    /\ ptr = [p \in Prios |-> [i \in ThreadIds |-> None]]
    /\ made = [i \in ThreadIds |-> IF i \in Active THEN 1 ELSE 0]
    /\ active = Active
    /\ top = 0
    /\ pc = [u \in Procs |-> IF u \in setup.threads THEN "idle" ELSE "absent"]
    /\ task = [u \in Procs |-> None]
    /\ dst = [u \in Procs |-> None]
    /\ idx = [u \in Procs |-> 0]
    /\ tid = [u \in Procs |-> -1]
    /\ scan = [u \in Procs |-> <<0, 0>>]
    /\ seen = [u \in Procs |-> 0]
    /\ admin = Idle
    /\ fresh = Tasks
    /\ taken = {}

-----------------------------------------------------------------------------

(* The queue a thread id of this collection owns now, if registered.       *)
QueueOf(i) == <<i, made[i]>>

(* get_thread_queue                                                        *)
ThreadQueue(p, i) == IF i \in ThreadIds THEN ptr[p][i] ELSE None

PushBack(p, q, t) == queue' = [queue EXCEPT ![p][q] = Append(@, t)]
PopFront(p, q) == queue' = [queue EXCEPT ![p][q] = Tail(@)]

Goto(u, l) == pc' = [pc EXCEPT ![u] = l]

-----------------------------------------------------------------------------
(* put_task                                                                *)

PutTask(u, t, i) ==
    /\ pc[u] = "idle" /\ t \in fresh
    /\ fresh' = fresh \ {t}
    /\ task' = [task EXCEPT ![u] = t]
    /\ idx' = [idx EXCEPT ![u] = setup.priority[t]]
    /\ tid' = [tid EXCEPT ![u] = i]
    /\ Goto(u, "create")
    /\ UNCHANGED <<shared, dst, scan, seen, admin, taken>>

(* The locks that add_thread and remove_thread hold are free.              *)
NoLock == TRUE   \* faulty variant
LocksFree == admin.op = "none"

(* Construct the collection, unless somebody has: under the priority's     *)
(* lock and the lock of the thread ids, so not during add or remove.       *)
Create(u) ==
    /\ pc[u] = "create"
    /\ LET p == idx[u] IN
        \/ /\ created[p]
           /\ UNCHANGED shared
        \/ /\ ~created[p] /\ LocksFree
           /\ created' = [created EXCEPT ![p] = TRUE]
           /\ count' = [count EXCEPT ![p] = 0]
           /\ ptr' = [ptr EXCEPT ![p] =
                        [i \in ThreadIds |-> IF i \in active THEN QueueOf(i) ELSE None]]
           /\ UNCHANGED <<queue, made, active, top>>
    /\ Goto(u, "load")
    /\ UNCHANGED <<task, dst, idx, tid, scan, seen, admin, fresh, taken>>

(* TaskCollection::put: load the queue pointer, then push.                 *)
LoadQueue(u) ==
    /\ pc[u] = "load"
    /\ dst' = [dst EXCEPT ![u] = IF ThreadQueue(idx[u], tid[u]) = None THEN Global
                                 ELSE ThreadQueue(idx[u], tid[u])]
    /\ Goto(u, "push")
    /\ UNCHANGED <<shared, task, idx, tid, scan, seen, admin, fresh, taken>>

Push(u) ==
    /\ pc[u] = "push"
    /\ PushBack(idx[u], dst[u], task[u])
    /\ Goto(u, "count")
    /\ UNCHANGED <<created, count, ptr, made, active, top, task, dst, idx, tid, scan,
                   seen, admin, fresh, taken>>

(* The task is counted after it was pushed.                                *)
Uncounted(c) == c   \* faulty variant: the task is never counted
Increment(c) == (c + 1) % CountMod
Count(u) ==
    /\ pc[u] = "count"
    /\ count' = [count EXCEPT ![idx[u]] = Increment(@)]
    /\ Goto(u, "top")
    /\ UNCHANGED <<created, queue, ptr, made, active, top, task, dst, idx, tid, scan,
                   seen, admin, fresh, taken>>

(* put_task and try_get_task return: their local variables are gone.       *)
Return(u) ==
    /\ Goto(u, "idle")
    /\ task' = [task EXCEPT ![u] = None]
    /\ dst' = [dst EXCEPT ![u] = None]
    /\ idx' = [idx EXCEPT ![u] = 0]
    /\ tid' = [tid EXCEPT ![u] = -1]
    /\ scan' = [scan EXCEPT ![u] = <<0, 0>>]
    /\ seen' = [seen EXCEPT ![u] = 0]

(* Load expected, initially and after a failed exchange, and compare.      *)
CompareTop(u) ==
    \/ /\ idx[u] > top
       /\ seen' = [seen EXCEPT ![u] = top]
       /\ Goto(u, "cas")
       /\ UNCHANGED <<task, dst, idx, tid, scan>>
    \/ /\ idx[u] <= top
       /\ Return(u)

ReadTop(u) ==
    /\ pc[u] = "top"
    /\ CompareTop(u)
    /\ UNCHANGED <<shared, admin, fresh, taken>>

(* compare_exchange_weak: exchange, or fail and reload expected.           *)
AlwaysStore(u) == TRUE   \* faulty variant: no comparison
CasSucceeds(u) == top = seen[u]

CasTop(u) ==
    /\ pc[u] = "cas"
    /\ \/ CasSucceeds(u) /\ top' = idx[u] /\ Return(u)
       \/ ~CasSucceeds(u) /\ top' = top /\ CompareTop(u)
    /\ UNCHANGED <<created, count, queue, ptr, made, active, admin, fresh, taken>>

-----------------------------------------------------------------------------
(* try_get_task                                                            *)

GetTask(u, i) ==
    /\ pc[u] = "idle"
    /\ idx' = [idx EXCEPT ![u] = top]
    /\ tid' = [tid EXCEPT ![u] = i]
    /\ Goto(u, "check")
    /\ UNCHANGED <<shared, task, dst, scan, seen, admin, fresh, taken>>

(* Is there a task of this priority?  If not, go on with the next lower.   *)
Check(u) ==
    /\ pc[u] = "check"
    /\ \/ /\ idx[u] < 0
          /\ Goto(u, "ret") /\ UNCHANGED idx
       \/ /\ idx[u] >= 0 /\ count[idx[u]] = 0
          /\ idx' = [idx EXCEPT ![u] = @ - 1] /\ UNCHANGED pc
       \/ /\ idx[u] >= 0 /\ count[idx[u]] > 0
          /\ Goto(u, "own") /\ UNCHANGED idx
    /\ UNCHANGED <<shared, task, dst, tid, scan, seen, admin, fresh, taken>>

(* try_get_thread_task for the caller's own queue: load the pointer ...    *)
LoadOwn(u) ==
    /\ pc[u] = "own"
    /\ dst' = [dst EXCEPT ![u] = ThreadQueue(idx[u], tid[u])]
    /\ Goto(u, "popown")
    /\ UNCHANGED <<shared, task, idx, tid, scan, seen, admin, fresh, taken>>

(* try_pop_front: take the front and go to hit, or find nothing and go to  *)
(* miss.                                                                   *)
TryPop(u, q, hit, miss) ==
    LET p == idx[u]
        found == q # None /\ queue[p][q] # <<>>
    IN  \/ /\ found
           /\ task' = [task EXCEPT ![u] = Head(queue[p][q])]
           /\ PopFront(p, q)
           /\ Goto(u, hit)
        \/ /\ ~found
           /\ Goto(u, miss)
           /\ UNCHANGED <<queue, task>>

PopOwn(u) ==
    /\ pc[u] = "popown"
    /\ TryPop(u, dst[u], "uncount", "global")
    /\ UNCHANGED <<created, count, ptr, made, active, top, dst, idx, tid, scan, seen,
                   admin, fresh, taken>>

(* Then the global queue; after that steal, from a random thread onwards.  *)
PopGlobal(u) ==
    /\ pc[u] = "global"
    /\ TryPop(u, Global, "uncount", "steal")
    /\ \/ pc'[u] = "uncount" /\ UNCHANGED scan
       \/ pc'[u] = "steal" /\ \E i \in ThreadIds :
                                 scan' = [scan EXCEPT ![u] = <<i, NumThreads>>]
    /\ UNCHANGED <<created, count, ptr, made, active, top, dst, idx, tid, seen,
                   admin, fresh, taken>>

LoadSteal(u) ==
    /\ pc[u] = "steal"
    /\ \/ /\ scan[u][2] > 0
          /\ dst' = [dst EXCEPT ![u] = ThreadQueue(idx[u], scan[u][1])]
          /\ scan' = [scan EXCEPT ![u] = <<(@[1] + 1) % NumThreads, @[2] - 1>>]
          /\ Goto(u, "popsteal")
          /\ UNCHANGED idx
       \/ /\ scan[u][2] = 0
          /\ idx' = [idx EXCEPT ![u] = @ - 1]
          /\ Goto(u, "check")
          /\ UNCHANGED <<dst, scan>>
    /\ UNCHANGED <<shared, task, tid, seen, admin, fresh, taken>>

PopSteal(u) ==
    /\ pc[u] = "popsteal"
    /\ TryPop(u, dst[u], "uncount", "steal")
    /\ UNCHANGED <<created, count, ptr, made, active, top, dst, idx, tid, scan, seen,
                   admin, fresh, taken>>

Decrement(c) == (c - 1) % CountMod

Uncount(u) ==
    /\ pc[u] = "uncount"
    /\ count' = [count EXCEPT ![idx[u]] = Decrement(@)]
    /\ Goto(u, "ret")
    /\ UNCHANGED <<created, queue, ptr, made, active, top, task, dst, idx, tid, scan,
                   seen, admin, fresh, taken>>

(* try_get_task returns a task, or null.                                   *)
GetReturns(u) ==
    /\ pc[u] = "ret"
    /\ taken' = taken \cup ({task[u]} \ {None})
    /\ Return(u)
    /\ UNCHANGED <<shared, admin, fresh>>

-----------------------------------------------------------------------------
(* add_thread and remove_thread, called under Scheduler::_workers_lock:    *)
(* one at a time, one priority after the other.                            *)

AddThread(i) ==
    /\ admin.op = "none" /\ i \notin active /\ made[i] < MaxQueues
    /\ made' = [made EXCEPT ![i] = @ + 1]
    /\ admin' = [Idle EXCEPT !.op = "add", !.id = i]
    /\ UNCHANGED <<created, count, queue, ptr, active, top, locals, fresh, taken>>

(* register_thread in the collection of the next priority.                 *)
Register ==
    /\ admin.op = "add" /\ admin.prio \in Prios
    /\ ptr' = IF created[admin.prio] /\ ptr[admin.prio][admin.id] = None
              THEN [ptr EXCEPT ![admin.prio][admin.id] = QueueOf(admin.id)] ELSE ptr
    /\ admin' = [admin EXCEPT !.prio = @ + 1]
    /\ UNCHANGED <<created, count, queue, made, active, top, locals, fresh, taken>>

AddReturns ==
    /\ admin.op = "add" /\ admin.prio \notin Prios
    /\ active' = active \cup {admin.id}
    /\ admin' = Idle
    /\ UNCHANGED <<created, count, queue, ptr, made, top, locals, fresh, taken>>

RemoveThread(i) ==
    /\ admin.op = "none" /\ i \in active
    /\ admin' = [Idle EXCEPT !.op = "remove", !.id = i]
    /\ UNCHANGED <<shared, locals, fresh, taken>>

(* deregister_thread: reset the queue pointer ...                          *)
Detach ==
    /\ admin.op = "remove" /\ admin.prio \in Prios
    /\ IF created[admin.prio]
       THEN /\ admin' = [admin EXCEPT !.op = "drain",
                                     !.queue = ptr[admin.prio][admin.id]]
            /\ ptr' = [ptr EXCEPT ![admin.prio][admin.id] = None]
       ELSE /\ admin' = [admin EXCEPT !.prio = @ + 1]
            /\ UNCHANGED ptr
    /\ UNCHANGED <<created, count, queue, made, active, top, locals, fresh, taken>>

(* ... and move the tasks to the global queue, one by one.                 *)
DrainPop ==
    /\ admin.op = "drain" /\ admin.task = None
    /\ queue[admin.prio][admin.queue] # <<>>
    /\ admin' = [admin EXCEPT !.task = Head(queue[admin.prio][admin.queue])]
    /\ PopFront(admin.prio, admin.queue)
    /\ UNCHANGED <<created, count, ptr, made, active, top, locals, fresh, taken>>

DrainPush ==
    /\ admin.op = "drain" /\ admin.task # None
    /\ PushBack(admin.prio, Global, admin.task)
    /\ admin' = [admin EXCEPT !.task = None]
    /\ UNCHANGED <<created, count, ptr, made, active, top, locals, fresh, taken>>

DrainEnds ==
    /\ admin.op = "drain" /\ admin.task = None
    /\ queue[admin.prio][admin.queue] = <<>>
    /\ admin' = [admin EXCEPT !.op = "remove", !.queue = None, !.prio = @ + 1]
    /\ UNCHANGED <<shared, locals, fresh, taken>>

RemoveReturns ==
    /\ admin.op = "remove" /\ admin.prio \notin Prios
    /\ active' = active \ {admin.id}
    /\ admin' = Idle
    /\ UNCHANGED <<created, count, queue, ptr, made, top, locals, fresh, taken>>

-----------------------------------------------------------------------------

PutStep(u) ==
    /\ Create(u) \/ LoadQueue(u) \/ Push(u) \/ Count(u) \/ ReadTop(u) \/ CasTop(u)
    /\ UNCHANGED setup

GetStep(u) ==
    /\ \/ \E i \in ThreadIds : GetTask(u, i)
       \/ Check(u) \/ LoadOwn(u) \/ PopOwn(u) \/ PopGlobal(u) \/ LoadSteal(u)
       \/ PopSteal(u) \/ Uncount(u) \/ GetReturns(u)
    /\ UNCHANGED setup

AdminStep ==
    /\ \/ Register \/ AddReturns \/ Detach \/ DrainPop \/ DrainPush \/ DrainEnds
       \/ RemoveReturns
    /\ UNCHANGED setup

Begin ==
    /\ \/ \E u \in Putters, t \in Tasks, i \in ThreadIds \cup {-1} : PutTask(u, t, i)
       \/ \E i \in setup.resizable : AddThread(i) \/ RemoveThread(i)
    /\ UNCHANGED setup

Next ==
    \/ Begin \/ AdminStep
    \/ \E u \in Putters : PutStep(u)
    \/ \E u \in Getters : GetStep(u)

Spec == Init /\ [][Next]_vars

(* A call that has begun goes on, and a worker without a task polls: the   *)
(* kernel schedules the threads fairly.  Nobody has to call put_task or to *)
(* change the number of threads.                                           *)
Fairness ==
    /\ \A u \in Putters : WF_vars(PutStep(u))
    /\ \A u \in Getters : WF_vars(GetStep(u))
    /\ WF_vars(AdminStep)

FairSpec == Spec /\ Fairness

-----------------------------------------------------------------------------
(* Properties.                                                             *)

(* The places of a queue where task t is.                                  *)
Slots(t, p, q) == {<<"queue", p, q, n>> : n \in {k \in DOMAIN queue[p][q] :
                                                   queue[p][q][k] = t}}

(* Where task t is: waiting to be put, in the hands of a caller, at a place*)
(* of a queue, being moved to the global queue, or returned to a worker.   *)
Places(t) ==
    {<<"fresh">> : x \in fresh \cap {t}}
    \cup {<<"hand", u>> : u \in {v \in Procs : task[v] = t
                                             /\ pc[v] \notin {"count", "top", "cas"}}}
    \cup (UNION {Slots(t, p, q) : p \in Prios, q \in Queues})
    \cup {<<"moving">> : x \in {admin.task} \cap {t}}
    \cup {<<"taken">> : x \in taken \cap {t}}

(* No task is lost, duplicated or handed to two workers by the accesses of *)
(* put_task, try_get_task and deregister_thread that no lock protects.     *)
ExactlyOnePlace == \A t \in Tasks : Cardinality(Places(t)) = 1

(* The calls between pushing and counting, and between popping and         *)
(* uncounting, a task of priority p.                                       *)
Counting(p) == {u \in Putters : pc[u] = "count" /\ idx[u] = p}
Uncounting(p) == {u \in Getters : pc[u] = "uncount" /\ idx[u] = p}
Moving(p) == IF admin.task # None /\ admin.prio = p THEN 1 ELSE 0

(* What the counter of priority p stands for.                              *)
Balance(p) == Cardinality(Contents(p)) + Moving(p)
              - Cardinality(Counting(p)) + Cardinality(Uncounting(p))

(* The counter of a priority differs from the number of its tasks only by  *)
(* the calls between pushing and counting, and between popping and         *)
(* uncounting; it may wrap below zero meanwhile, and is exact when no call *)
(* is in progress.                                                         *)
CountConsistent == \A p \in Prios : count[p] = Balance(p) % CountMod

(* try_get_task starts its search high enough: concurrent put_task calls   *)
(* never leave the index below the priority of a task whose put returned.  *)
TopCoversQueued ==
    \A p \in Prios : Contents(p) \ {task[u] : u \in Putters} # {} => p <= top

(* Whenever no add or remove is in progress, each collection has a queue   *)
(* exactly for the active threads, also when it was constructed late: so   *)
(* deregister_thread always finds the queue it dereferences.               *)
QueuesOfActiveThreads ==
    admin.op = "none" =>
        \A p \in Prios : created[p] => {i \in ThreadIds : ptr[p][i] # None} = active

(* The types and the three properties above: what put_task, try_get_task,  *)
(* add_thread and remove_thread keep true together, in every state.        *)
DomainConsistent ==
    TypeOK /\ ExactlyOnePlace /\ CountConsistent /\ QueuesOfActiveThreads

(* A put_task that had loaded the queue of a thread pushed to it after     *)
(* deregister_thread had moved the tasks away: try_get_task looks there no *)
(* more.                                                                   *)
Stranded(t) ==
    \E p \in Prios, q \in Queues \ {Global} :
        /\ t \in Range(queue[p][q])
        /\ ptr[p][q[1]] # q /\ admin.queue # q

(* Every task that is put is eventually returned by try_get_task, as long  *)
(* as some worker keeps polling, unless its queue was taken away under the *)
(* hands of put_task; add_thread and remove_thread lose no other task.     *)
PutIsTaken == \A t \in Tasks : (t \notin fresh) ~> (t \in taken \/ Stranded(t))
=============================================================================
