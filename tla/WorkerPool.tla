----------------------------- MODULE WorkerPool -----------------------------
(***************************************************************************)
(* One Scheduler and its worker threads: how workers fetch, run, drop and  *)
(* resume tasks on switchable contexts (worker_thread.cpp, context.hpp),   *)
(* how idle workers sleep and are woken (Scheduler::waitForTask and        *)
(* taskAvailable), and how workers are created, stopped and joined         *)
(* (Scheduler::set_thread_count and ~Scheduler in task_scheduler.cpp,      *)
(* thread_manager.cpp).                                                    *)
(*                                                                         *)
(* The task queues are a set here; SchedulingDomain looks inside.  Whether *)
(* a wait() blocks and who notifies is left open here and is the subject   *)
(* of TaskSync.                                                            *)
(***************************************************************************)
EXTENDS Integers, FiniteSets, SequencesExt

CONSTANTS
    NumCores,     \* Scheduler::_cores
    Tasks,
    Natives,      \* threads outside the pool that spawn and notify tasks
    Setups,       \* how the pool is used, see below
    MaxCalls,     \* bound: yields, waits and worker_ids calls of one task
    MaxContexts,  \* bound: contexts in existence
    Admin,        \* the thread that created the scheduler
    None

Cores == 0 .. NumCores - 1
Contexts == 1 .. MaxContexts
Callers == Natives \cup Cores \cup {Admin}

(* A setup: the arguments of set_thread_count; whether the scheduler is    *)
(* destroyed; the native threads there are; the state of each task when    *)
(* the scheduler is created (READY: in the global queues); what a task     *)
(* does (yield, wait, or call worker_ids as forEachThread does); and a     *)
(* bound, how many waitForTask calls are not yet consumed by a wakeup.     *)
ASSUME PoolConstants ==
    /\ NumCores \in Nat \ {0} /\ MaxCalls \in Nat /\ MaxContexts \in Nat
    /\ Setups \subseteq [counts : SUBSET (0 .. NumCores), destructible : BOOLEAN,
                         natives : SUBSET Natives,
                         tasks : [Tasks -> {"NEW", "READY", "COMPLETED"}],
                         does : [Tasks -> SUBSET {"yield", "wait", "ids"}],
                         maxWaits : 0 .. NumCores]
    /\ Natives \cap (Cores \cup {Admin}) = {} /\ Admin \notin Cores
    /\ None \notin Tasks \cup Contexts \cup Callers

VARIABLES
    setup,      \* one of Setups
    registered, \* the cores whose entry in _workers is not null
    thread,     \* ThreadBase::_state of the worker object of a core
    done,       \* WorkerThread::_done
    wpc,        \* where the worker is
    cur,        \* WorkerThread::_curr_task
    drop,       \* how the current task was dropped: _task_waits empty or not
    curCtx,     \* WorkerThread::_curr_ctx
    ready,      \* WorkerThread::_ready_contexes
    cache,      \* Scheduler::_ctx_cache
    ctx,        \* Task::_context; set when the task has started
    tstate,     \* Task::state(), or NEW when the task does not exist yet
    queue,      \* the tasks in the scheduler's queues
    calls,      \* how often a task has yielded, waited or asked for ids
    call,       \* the put_task or taskAvailable call of a thread
    count,      \* Scheduler::_waitingThreadsCount
    sem,        \* Scheduler::_waitingThreadsSemaphore
    lock,       \* owner of Scheduler::_workers_lock
    admin       \* set_thread_count or ~Scheduler in progress

workers  == <<registered, thread, done>>
loop     == <<wpc, cur, drop>>
contexts == <<curCtx, ready, cache, ctx>>
tasks    == <<tstate, queue, calls>>
sleep    == <<count, sem>>
vars     == <<setup, workers, loop, contexts, tasks, call, sleep, lock, admin>>

NoCall == [step |-> "none", task |-> None, left |-> 0]
Idle   == [op |-> "idle", n |-> 0, core |-> 0]

TypeOK ==
    /\ setup \in Setups
    /\ registered \subseteq Cores
    /\ thread \in [Cores -> {"NONE", "RUNNING", "TERMINATED"}]
    /\ done \in [Cores -> BOOLEAN]
    /\ wpc \in [Cores -> {"off", "run", "loop", "yielding", "get", "backoff", "sleep",
                          "sched", "exec", "spawning", "ids", "exit"}]
    /\ cur \in [Cores -> Tasks \cup {None}]
    /\ drop \in [Cores -> {"yield", "wait"}]
    /\ curCtx \in [Cores -> Contexts \cup {None}]
    /\ ready \in [Cores -> Seq(Contexts)]
    /\ cache \in Seq(Contexts)
    /\ ctx \in [Tasks -> Contexts \cup {None}]
    /\ tstate \in [Tasks -> {"NEW", "READY", "RUNNING", "WAITING", "SUSPENDED",
                             "COMPLETED"}]
    /\ queue \subseteq Tasks
    /\ calls \in [Tasks -> 0 .. MaxCalls]
    /\ call \in [Callers -> [step : {"none", "load", "exchange", "post", "put"},
                             task : Tasks \cup {None}, left : 0 .. setup.maxWaits]]
    /\ count \in 0 .. setup.maxWaits /\ sem \in 0 .. setup.maxWaits
    /\ lock \in Cores \cup {Admin, None}
    /\ admin \in [op : {"idle", "resize", "join", "wake", "joinall", "destruct", "dead"},
                  n : 0 .. NumCores, core : Cores]

(* The scheduler is constructed and creates its workers: set_thread_count, *)
(* called by the constructor.                                              *)
Init ==
    /\ setup \in Setups
    /\ registered = {}
    /\ thread = [c \in Cores |-> "NONE"]
    /\ done = [c \in Cores |-> FALSE]
    /\ wpc = [c \in Cores |-> "off"]
    /\ cur = [c \in Cores |-> None]
    /\ drop = [c \in Cores |-> "yield"]
    /\ curCtx = [c \in Cores |-> None]
    /\ ready = [c \in Cores |-> <<>>]
    /\ cache = <<>>
    /\ ctx = [t \in Tasks |-> None]
    /\ tstate = setup.tasks
    /\ queue = {t \in Tasks : tstate[t] = "READY"}
    /\ calls = [t \in Tasks |-> 0]
    /\ call = [u \in Callers |-> NoCall]
    /\ count = 0 /\ sem = 0
    /\ lock = Admin
    /\ admin \in {[Idle EXCEPT !.op = "resize", !.n = n] : n \in setup.counts \ {0}}

-----------------------------------------------------------------------------
(* put_task: taskAvailable, then the insertion into the queues.            *)

BeginPut(u, t) == call' = [call EXCEPT ![u] = [step |-> "load", task |-> t, left |-> 0]]

(* taskAvailable: is anybody waiting?                                      *)
Load(u) ==
    /\ call[u].step = "load"
    /\ call' = [call EXCEPT ![u].step = IF count > 0 THEN "exchange" ELSE "put"]
    /\ UNCHANGED <<workers, loop, contexts, tasks, sleep, lock, admin>>

(* exchange(0): how many to wake.                                          *)
WakeOne(n) == IF n = 0 THEN 0 ELSE 1   \* faulty variant
WakeAll(n) == n

Exchange(u) ==
    /\ call[u].step = "exchange"
    /\ call' = [call EXCEPT ![u] = [step |-> "post", task |-> @.task, left |-> WakeAll(count)]]
    /\ count' = 0
    /\ UNCHANGED <<workers, loop, contexts, tasks, sem, lock, admin>>

Post(u) ==
    /\ call[u].step = "post"
    /\ \/ /\ call[u].left > 0
          /\ sem' = sem + 1
          /\ call' = [call EXCEPT ![u].left = @ - 1]
       \/ /\ call[u].left = 0
          /\ call' = [call EXCEPT ![u].step = "put"]
          /\ UNCHANGED sem
    /\ UNCHANGED <<workers, loop, contexts, tasks, count, lock, admin>>

(* The insertion (of nothing, after a bare taskAvailable).                 *)
Put(u) ==
    /\ call[u].step = "put"
    /\ queue' = queue \cup ({call[u].task} \ {None})
    /\ call' = [call EXCEPT ![u] = NoCall]
    /\ UNCHANGED <<workers, loop, contexts, tstate, calls, sleep, lock, admin>>

-----------------------------------------------------------------------------
(* What user code does, in a native thread or in a running task.           *)

BeingDestroyed == admin.op \in {"wake", "joinall", "destruct", "dead"}

(* u executes user code that is not inside a call.                         *)
InUserCode(u) ==
    /\ call[u] = NoCall
    /\ u \in Natives => u \in setup.natives /\ ~BeingDestroyed
    /\ u \in Cores => wpc[u] = "exec"

(* A worker goes on in its task when the call has returned.                *)
AwaitCall(u) ==
    IF u \in Cores THEN wpc' = [wpc EXCEPT ![u] = "spawning"] ELSE UNCHANGED wpc

(* Spawn a task on this node, or notify a waiting one: both put_task.      *)
SpawnLocal(u, t) ==
    /\ InUserCode(u)
    /\ \/ tstate[t] = "NEW" /\ tstate' = [tstate EXCEPT ![t] = "READY"]
       \/ tstate[t] = "WAITING" /\ tstate' = [tstate EXCEPT ![t] = "SUSPENDED"]
    /\ BeginPut(u, t) /\ AwaitCall(u)
    /\ UNCHANGED <<workers, cur, drop, contexts, queue, calls, sleep, lock, admin>>

(* Spawn a task into the global domain: insert, then taskAvailable.        *)
SpawnGlobal(u, t) ==
    /\ InUserCode(u) /\ tstate[t] = "NEW"
    /\ tstate' = [tstate EXCEPT ![t] = "READY"]
    /\ queue' = queue \cup {t}
    /\ BeginPut(u, None) /\ AwaitCall(u)
    /\ UNCHANGED <<workers, cur, drop, contexts, calls, sleep, lock, admin>>

SpawnReturns(c) ==
    /\ wpc[c] = "spawning" /\ call[c] = NoCall
    /\ wpc' = [wpc EXCEPT ![c] = "exec"]
    /\ UNCHANGED <<workers, cur, drop, contexts, tasks, call, sleep, lock, admin>>

(* worker_ids, called by the task: it needs _workers_lock for a moment.    *)
CallIds(c) ==
    /\ InUserCode(c) /\ "ids" \in setup.does[cur[c]] /\ calls[cur[c]] < MaxCalls
    /\ calls' = [calls EXCEPT ![cur[c]] = @ + 1]
    /\ wpc' = [wpc EXCEPT ![c] = "ids"]
    /\ UNCHANGED <<workers, cur, drop, contexts, tstate, queue, call, sleep, lock, admin>>

WorkerIds(c) ==
    /\ wpc[c] = "ids" /\ lock = None
    /\ wpc' = [wpc EXCEPT ![c] = "exec"]
    /\ UNCHANGED <<workers, cur, drop, contexts, tasks, call, sleep, lock, admin>>

-----------------------------------------------------------------------------
(* Contexts.                                                               *)

KeepBack(s) == s   \* faulty variant
PopBack(s) == Front(s)

(* No pointer to x is left: x is a new context, or one that a worker       *)
(* abandoned when it jumped back to its native context.                    *)
Unused(x) ==
    /\ \A c \in Cores : curCtx[c] # x /\ x \notin Range(ready[c])
    /\ x \notin Range(cache)
    /\ \A t \in Tasks : ctx[t] = x => tstate[t] = "COMPLETED"

(* get_neutral_context: from the worker, else from the cache, else new.    *)
TakeNeutral(c) ==
    \/ /\ ready[c] # <<>>
       /\ curCtx' = [curCtx EXCEPT ![c] = Last(ready[c])]
       /\ ready' = [ready EXCEPT ![c] = PopBack(@)]
       /\ UNCHANGED cache
    \/ /\ ready[c] = <<>> /\ cache # <<>>
       /\ curCtx' = [curCtx EXCEPT ![c] = Last(cache)]
       /\ cache' = PopBack(cache)
       /\ UNCHANGED ready
    \/ /\ ready[c] = <<>> /\ cache = <<>>
       /\ \E x \in Contexts :
            /\ Unused(x) /\ \A y \in Contexts : y < x => ~Unused(y)
            /\ curCtx' = [curCtx EXCEPT ![c] = x]
       /\ UNCHANGED <<ready, cache>>

(* WorkerThread::run: leave the native context.                            *)
Run(c) ==
    /\ wpc[c] = "run"
    /\ TakeNeutral(c)
    /\ wpc' = [wpc EXCEPT ![c] = "loop"]
    /\ UNCHANGED <<workers, cur, drop, ctx, tasks, call, sleep, lock, admin>>

(* curr_task_wait and drop_task: the task gives up the worker, which goes  *)
(* on at the top of the loop in a neutral context.                         *)
DropTask(c, how) ==
    /\ InUserCode(c) /\ how \in setup.does[cur[c]] /\ calls[cur[c]] < MaxCalls
    /\ TakeNeutral(c)
    /\ calls' = [calls EXCEPT ![cur[c]] = @ + 1]
    /\ drop' = [drop EXCEPT ![c] = how]
    /\ wpc' = [wpc EXCEPT ![c] = "loop"]
    /\ UNCHANGED <<workers, cur, ctx, tstate, queue, call, sleep, lock, admin>>

-----------------------------------------------------------------------------
(* start_new_context: the loop of a worker.                                *)

(* get_new_task polls while the thread is not commanded to stop.           *)
PollForever(c) == FALSE   \* faulty variant
StopPolling(c) == done[c]

(* The loop ends when the thread was commanded to stop, whatever the       *)
(* current task.                                                           *)
LeaveLoop(c) ==
    /\ \/ wpc[c] = "loop" /\ done[c]
       \/ wpc[c] = "get" /\ StopPolling(c)
    /\ wpc' = [wpc EXCEPT ![c] = "exit"]
    /\ UNCHANGED <<workers, cur, drop, contexts, tasks, call, sleep, lock, admin>>

LoopIdle(c) ==
    /\ wpc[c] = "loop" /\ ~done[c] /\ cur[c] = None
    /\ wpc' = [wpc EXCEPT ![c] = "get"]
    /\ UNCHANGED <<workers, cur, drop, contexts, tasks, call, sleep, lock, admin>>

(* The current task was dropped to yield: put it back.                     *)
LoopYield(c) ==
    /\ wpc[c] = "loop" /\ ~done[c] /\ cur[c] # None /\ drop[c] = "yield"
    /\ tstate' = [tstate EXCEPT ![cur[c]] = "SUSPENDED"]
    /\ BeginPut(c, cur[c])
    /\ wpc' = [wpc EXCEPT ![c] = "yielding"]
    /\ UNCHANGED <<workers, cur, drop, contexts, queue, calls, sleep, lock, admin>>

YieldReturns(c) ==
    /\ wpc[c] = "yielding" /\ call[c] = NoCall
    /\ cur' = [cur EXCEPT ![c] = None]
    /\ wpc' = [wpc EXCEPT ![c] = "get"]
    /\ UNCHANGED <<workers, drop, contexts, tasks, call, sleep, lock, admin>>

(* The current task was dropped to wait: it becomes a waiting task, or is  *)
(* resumed at once because there is nothing left to wait for.              *)
LoopWait(c) ==
    /\ wpc[c] = "loop" /\ ~done[c] /\ cur[c] # None /\ drop[c] = "wait"
    /\ \/ /\ tstate' = [tstate EXCEPT ![cur[c]] = "WAITING"]
          /\ cur' = [cur EXCEPT ![c] = None]
          /\ wpc' = [wpc EXCEPT ![c] = "get"]
       \/ /\ wpc' = [wpc EXCEPT ![c] = "sched"]
          /\ UNCHANGED <<tstate, cur>>
    /\ UNCHANGED <<workers, drop, contexts, queue, calls, call, sleep, lock, admin>>

(* get_new_task: take a task, or back off and poll again or sleep.         *)
GetNewTask(c) ==
    /\ wpc[c] = "get" /\ ~StopPolling(c)
    /\ \/ \E t \in queue :
            /\ queue' = queue \ {t}
            /\ cur' = [cur EXCEPT ![c] = t]
            /\ wpc' = [wpc EXCEPT ![c] = "sched"]
       \/ /\ queue = {}
          /\ wpc' = [wpc EXCEPT ![c] = "backoff"]
          /\ UNCHANGED <<queue, cur>>
    /\ UNCHANGED <<workers, drop, contexts, tstate, calls, call, sleep, lock, admin>>

PollAgain(c) ==
    /\ wpc[c] = "backoff"
    /\ wpc' = [wpc EXCEPT ![c] = "get"]
    /\ UNCHANGED <<workers, cur, drop, contexts, tasks, call, sleep, lock, admin>>

(* The wakeups that are under way.                                         *)
Wakeups == UNION {{u} \X (1 .. call[u].left) : u \in Callers}
Pending == Cardinality(Wakeups)

(* waitForTask: register as waiting, then sleep on the semaphore ...       *)
WaitForTask(c) ==
    /\ wpc[c] = "backoff" /\ count + sem + Pending < setup.maxWaits
    /\ count' = count + 1
    /\ wpc' = [wpc EXCEPT ![c] = "sleep"]
    /\ UNCHANGED <<workers, cur, drop, contexts, tasks, call, sem, lock, admin>>

(* ... until it is posted or 10 ms have passed; a timeout leaves count and *)
(* semaphore alone.                                                        *)
NoTimeout(n) == {n - 1} \cap Nat   \* faulty variant
TimedWait(n) == {n, n - 1} \cap Nat

WakeUp(c) ==
    /\ wpc[c] = "sleep"
    /\ sem' \in TimedWait(sem)
    /\ wpc' = [wpc EXCEPT ![c] = "get"]
    /\ UNCHANGED <<workers, cur, drop, contexts, tasks, call, count, lock, admin>>

(* Start the task in the current context, or resume it in its own; the     *)
(* neutral context becomes ready for the next drop.                        *)
RunTask(c) ==
    /\ wpc[c] = "sched"
    /\ tstate' = [tstate EXCEPT ![cur[c]] = "RUNNING"]
    /\ \/ /\ ctx[cur[c]] = None
          /\ ctx' = [ctx EXCEPT ![cur[c]] = curCtx[c]]
          /\ UNCHANGED <<curCtx, ready>>
       \/ /\ ctx[cur[c]] # None
          /\ curCtx' = [curCtx EXCEPT ![c] = ctx[cur[c]]]
          /\ ready' = [ready EXCEPT ![c] = Append(@, curCtx[c])]
          /\ UNCHANGED ctx
    /\ wpc' = [wpc EXCEPT ![c] = "exec"]
    /\ UNCHANGED <<workers, cur, drop, cache, queue, calls, call, sleep, lock,
                   admin>>

(* The task's function returns; the worker stays in the task's context.    *)
FinishTask(c) ==
    /\ InUserCode(c)
    /\ tstate' = [tstate EXCEPT ![cur[c]] = "COMPLETED"]
    /\ cur' = [cur EXCEPT ![c] = None]
    /\ wpc' = [wpc EXCEPT ![c] = "loop"]
    /\ UNCHANGED <<workers, drop, contexts, queue, calls, call, sleep, lock, admin>>

(* Back in the native context the thread terminates.                       *)
Exit(c) ==
    /\ wpc[c] = "exit"
    /\ thread' = [thread EXCEPT ![c] = "TERMINATED"]
    /\ curCtx' = [curCtx EXCEPT ![c] = None]
    /\ wpc' = [wpc EXCEPT ![c] = "off"]
    /\ UNCHANGED <<registered, done, cur, drop, ready, cache, ctx, tasks, call,
                   sleep, lock, admin>>

-----------------------------------------------------------------------------
(* Creating, stopping and joining workers.                                 *)

Smallest(S) == CHOOSE c \in S : \A d \in S : c <= d
Largest(S) == CHOOSE c \in S : \A d \in S : c >= d

(* register_thread: the thread is associated with its core and started.    *)
RegisterThread(c) == thread' = [thread EXCEPT ![c] = "RUNNING"]

(* join() returns.                                                         *)
Joined(c) == thread[c] = "TERMINATED"

(* deregister_thread releases the thread, and the worker is destroyed.     *)
DeregisterThread(c) == thread' = [thread EXCEPT ![c] = "NONE"]

(* set_thread_count takes _workers_lock for all it does.                   *)
SetThreadCount(n) ==
    /\ admin.op = "idle" /\ lock = None
    /\ lock' = Admin
    /\ admin' = [Idle EXCEPT !.op = "resize", !.n = n]
    /\ UNCHANGED <<workers, loop, contexts, tasks, call, sleep>>

(* create_thread: a new worker on the first core that has none.            *)
CreateThread ==
    /\ admin.op = "resize" /\ Cardinality(registered) < admin.n
    /\ LET c == Smallest(Cores \ registered) IN
        /\ registered' = registered \cup {c}
        /\ RegisterThread(c)
        /\ done' = [done EXCEPT ![c] = FALSE]
        /\ cur' = [cur EXCEPT ![c] = None]
        /\ wpc' = [wpc EXCEPT ![c] = "run"]
    /\ UNCHANGED <<drop, contexts, tasks, call, sleep, lock, admin>>

(* stop_wait_thread: withdraw the worker, tell it to stop ...              *)
StopThread ==
    /\ admin.op = "resize" /\ Cardinality(registered) > admin.n
    /\ LET c == Largest(registered) IN
        /\ registered' = registered \ {c}
        /\ done' = [done EXCEPT ![c] = TRUE]
        /\ admin' = [admin EXCEPT !.op = "join", !.core = c]
    /\ UNCHANGED <<thread, loop, contexts, tasks, call, sleep, lock>>

(* ... and wait for its termination, still holding the lock; the worker is *)
(* destroyed, its contexes go to the cache.                                *)
JoinThread ==
    /\ admin.op = "join" /\ Joined(admin.core)
    /\ DeregisterThread(admin.core)
    /\ cache' = cache \o ready[admin.core]
    /\ ready' = [ready EXCEPT ![admin.core] = <<>>]
    /\ admin' = [admin EXCEPT !.op = "resize"]
    /\ UNCHANGED <<registered, done, loop, curCtx, ctx, tasks, call, sleep, lock>>

ResizeReturns ==
    /\ admin.op = "resize" /\ Cardinality(registered) = admin.n
    /\ lock' = None
    /\ admin' = Idle
    /\ UNCHANGED <<workers, loop, contexts, tasks, call, sleep>>

(* ~Scheduler: stop all workers, under the lock ...                        *)
Destroy ==
    /\ setup.destructible /\ admin.op = "idle" /\ lock = None
    /\ \A u \in Natives : call[u] = NoCall
    /\ registered' = {}
    /\ done' = [c \in Cores |-> done[c] \/ c \in registered]
    /\ admin' = [Idle EXCEPT !.op = "wake", !.n = NumCores]
    /\ UNCHANGED <<thread, loop, contexts, tasks, call, sleep, lock>>

(* ... wake the sleeping ones, taskAvailable once per core ...             *)
DestroyWakes ==
    /\ admin.op = "wake" /\ call[Admin] = NoCall
    /\ \/ /\ admin.n > 0
          /\ BeginPut(Admin, None)
          /\ admin' = [admin EXCEPT !.n = @ - 1]
       \/ /\ admin.n = 0
          /\ admin' = [admin EXCEPT !.op = "joinall"]
          /\ UNCHANGED call
    /\ UNCHANGED <<workers, loop, contexts, tasks, sleep, lock>>

(* ... wait for the termination of all (deregister_all) ...                *)
AllTerminated == \A c \in Cores : thread[c] # "RUNNING"

JoinAll ==
    /\ admin.op = "joinall" /\ AllTerminated
    /\ thread' = [c \in Cores |-> "NONE"]
    /\ admin' = [admin EXCEPT !.op = "destruct"]
    /\ UNCHANGED <<registered, done, loop, contexts, tasks, call, sleep, lock>>

(* ... and destroy one after the other; ~WorkerThread stores its contexes  *)
(* in the cache.                                                           *)
DestroyWorker ==
    /\ admin.op = "destruct" /\ admin.n < NumCores
    /\ cache' = cache \o ready[admin.n]
    /\ ready' = [ready EXCEPT ![admin.n] = <<>>]
    /\ admin' = [admin EXCEPT !.n = @ + 1]
    /\ UNCHANGED <<workers, loop, curCtx, ctx, tasks, call, sleep, lock>>

DestroyReturns ==
    /\ admin.op = "destruct" /\ admin.n = NumCores
    /\ admin' = [admin EXCEPT !.op = "dead"]
    /\ UNCHANGED <<workers, loop, contexts, tasks, call, sleep, lock>>

-----------------------------------------------------------------------------

CallStep(u) == (Load(u) \/ Exchange(u) \/ Post(u) \/ Put(u)) /\ UNCHANGED setup

WorkerStep(c) ==
    /\ \/ Run(c) \/ LeaveLoop(c) \/ LoopIdle(c) \/ LoopYield(c) \/ YieldReturns(c)
       \/ LoopWait(c) \/ GetNewTask(c) \/ PollAgain(c) \/ WaitForTask(c) \/ WakeUp(c)
       \/ RunTask(c) \/ FinishTask(c) \/ Exit(c) \/ SpawnReturns(c) \/ CallIds(c)
       \/ WorkerIds(c) \/ DropTask(c, "yield") \/ DropTask(c, "wait")
    /\ UNCHANGED setup

UserStep(u) ==
    /\ \E t \in Tasks : SpawnLocal(u, t) \/ SpawnGlobal(u, t)
    /\ UNCHANGED setup

AdminStep ==
    /\ \/ CreateThread \/ StopThread \/ JoinThread \/ ResizeReturns \/ DestroyWakes
       \/ JoinAll \/ DestroyWorker \/ DestroyReturns
    /\ UNCHANGED setup

AdminCall ==
    /\ Destroy \/ \E n \in setup.counts : SetThreadCount(n)
    /\ UNCHANGED setup

(* The scheduler is gone.                                                  *)
Destroyed == admin.op = "dead" /\ UNCHANGED vars

Next ==
    \/ \E u \in Callers : CallStep(u)
    \/ \E c \in Cores : WorkerStep(c)
    \/ \E u \in Natives \cup Cores : UserStep(u)
    \/ AdminStep \/ AdminCall \/ Destroyed

Spec == Init /\ [][Next]_vars

(* The kernel schedules every thread, a sleep ends at the latest with its  *)
(* timeout, the function of a task returns after at most MaxCalls calls,   *)
(* and a call of the administrator goes on.                                *)
Fairness ==
    /\ \A u \in Callers : WF_vars(CallStep(u))
    /\ \A c \in Cores : WF_vars(WorkerStep(c))
    /\ WF_vars(AdminStep)

FairSpec == Spec /\ Fairness

-----------------------------------------------------------------------------
(* Properties.                                                             *)

(* The task is executing: its context is the current one of a worker.      *)
Executing(t) ==
    \E c \in Cores : cur[c] = t /\ wpc[c] \in {"exec", "spawning", "ids"}

(* The task will be resumed on context x.                                  *)
Holds(t, x) == ctx[t] = x /\ ~Executing(t) /\ tstate[t] # "COMPLETED"

(* Who may run on context x next.                                          *)
Owners(x) ==
    {<<"worker", c>> : c \in {d \in Cores : curCtx[d] = x}}
    \cup {<<"task", t>> : t \in {s \in Tasks : Holds(s, x)}}
    \cup (UNION {{<<"ready", c, i>> : i \in {j \in DOMAIN ready[c] : ready[c][j] = x}}
               : c \in Cores})
    \cup {<<"cache", i>> : i \in {j \in DOMAIN cache : cache[j] = x}}

(* A stack is never in use twice: however tasks are dropped, stolen by     *)
(* other workers, resumed and completed, and however workers come and go,  *)
(* a context is the current one of one worker, or holds one interrupted    *)
(* task, or lies in one list of neutral contexts (this also implies the    *)
(* assertion of drop_task, worker_thread.cpp:233).                         *)
ContextsNotShared == \A x \in Contexts : Cardinality(Owners(x)) <= 1

(* taskAvailable forgets no sleeper: whoever sleeps in waitForTask is      *)
(* still counted, or a post for it is under way or has been made, although *)
(* the counter is not decremented by timeouts.                             *)
SleepersAreCounted ==
    Cardinality({c \in Cores : wpc[c] = "sleep"}) <= count + Pending + sem

(* The types, and SleepersAreCounted: what put_task, waitForTask and the   *)
(* resizing calls keep true of the pool in every state.                    *)
PoolConsistent == TypeOK /\ SleepersAreCounted

(* A task put into the queues is executed, also when its taskAvailable ran *)
(* before the insertion and woke nobody, unless the scheduler is destroyed *)
(* first.                                                                  *)
QueuedTaskRuns ==
    \A t \in Tasks : (t \in queue) ~> (Executing(t) \/ BeingDestroyed)

(* ~Scheduler returns: every worker notices _done, in whatever state it    *)
(* is, and terminates; the tasks it runs may still ask for worker_ids.     *)
DestructorReturns == (admin.op = "wake") ~> (admin.op = "dead")
=============================================================================
