------------------------------ MODULE TaskSync ------------------------------
(***************************************************************************)
(* Waiting and signalling between tasks, native threads and mutexes: the   *)
(* classes Triggerable, TwoPhaseTriggerable and Synchronizer               *)
(* (synchronizable.hpp), Task (task_base.cpp), NativeThreadWait            *)
(* (task_interface.cpp), Mutex::WaitObject (mutex.hpp) and the task loop   *)
(* of WorkerThread (worker_thread.cpp).                                    *)
(*                                                                         *)
(* Every class has a spin lock of its own.  A waiter takes Task -> Sync -> *)
(* Trigger, a completer Task -> Trigger -> Sync -> Task (of the client),   *)
(* so the steps below are cut where one of those locks is acquired.        *)
(*                                                                         *)
(* A thread of control is a task, running on whichever worker fetched it,  *)
(* or a native thread inside one call of numa::wait (its NativeThreadWait  *)
(* lives on the stack for that one call).  Locks are therefore owned by    *)
(* members of Syncs; the workers appear only as the number of tasks that   *)
(* may be in execution at once.  The scheduler's queues are abstracted to  *)
(* "t is in some queue" here and are the subject of SchedulingDomain.      *)
(***************************************************************************)
EXTENDS Integers, Sequences, FiniteSets, Functions

CONSTANTS
    Tasks,       \* numa::tasking::Task objects
    Natives,     \* calls of numa::wait made outside the worker threads
    Mutexes,     \* numa::Mutex objects, i.e. their WaitObject
    WaitLists,   \* WaitLists[s]: the lists of tasks that s may wait for
    NumWorkers,  \* number of worker threads
    MaxDrops,    \* bound: how often one task may yield or wait
    None         \* no owner, no object

Triggerables == Tasks \cup Mutexes
Syncs == Tasks \cup Natives

ASSUME DistinctObjects ==
    /\ Tasks \cap Natives = {}
    /\ Tasks \cap Mutexes = {}
    /\ Natives \cap Mutexes = {}
    /\ None \notin Tasks \cup Natives \cup Mutexes

ASSUME WaitListsType == WaitLists \in [Syncs -> SUBSET Seq(Tasks)]

ASSUME BoundsType == NumWorkers \in Nat /\ MaxDrops \in Nat

VARIABLES
    state,     \* Task::_state_flags without the flag bits
    signaled,  \* TwoPhaseTriggerable::_state
    locked,    \* Mutex::WaitObject::locked
    clients,   \* Triggerable::_clients
    deps,      \* Synchronizer::_dependancies, as the set of its elements
    sem,       \* NativeThreadWait::_semaphore
    taskLock,  \* owner of Task::_mutex
    syncLock,  \* owner of Synchronizer::_mutex
    trigLock,  \* owner of Triggerable::_mutex
    pc,        \* where a thread of control is
    refs,      \* the rest of the list that synchronize() iterates over
    trig,      \* the Triggerable whose clients are being signalled
    tgt,       \* the client that is being notified
    drops,     \* how often the task has yielded or waited
    waiting,   \* history: what the wait in progress is for
    obtained,  \* history: what the finished waits were for
    failed     \* an assert() has failed: the program has aborted

objects == <<state, signaled, locked, clients, deps, sem>>
locks   == <<taskLock, syncLock, trigLock>>
control == <<pc, refs, trig, tgt, drops>>
history == <<waiting, obtained>>
vars    == <<objects, locks, control, history, failed>>

States == {"READY", "RUNNING", "WAITING", "SUSPENDED", "COMPLETED"}

(* new: not created yet; queued: in a scheduler queue; sched: fetched by a *)
(* worker; run: executing its function; sync, reg, park: inside wait();    *)
(* waiting, sem: given up the CPU until notified; done: inside done();     *)
(* trigger, notify, signal: inside trigger_all() or trigger_one();         *)
(* released: about to leave WaitObject::release(); end: completed.         *)
TaskPcs == {"new", "queued", "sched", "run", "sync", "reg", "park", "waiting",
            "done", "trigger", "notify", "signal", "released", "end"}
NativePcs == {"run", "sync", "reg", "sem", "trigger", "notify", "signal", "released"}

OnWorker == TaskPcs \ {"new", "queued", "waiting", "end"}

TypeOK ==
    /\ state \in [Tasks -> States]
    /\ signaled \in [Tasks -> BOOLEAN]
    /\ locked \in [Mutexes -> BOOLEAN]
    /\ clients \in [Triggerables -> Seq(Syncs)]
    /\ deps \in [Syncs -> SUBSET Triggerables]
    /\ sem \in [Natives -> Nat]
    /\ taskLock \in [Tasks -> Syncs \cup {None}]
    /\ syncLock \in [Syncs -> Syncs \cup {None}]
    /\ trigLock \in [Triggerables -> Syncs \cup {None}]
    /\ pc \in [Syncs -> TaskPcs \cup NativePcs]
    /\ \A t \in Tasks : pc[t] \in TaskPcs
    /\ \A n \in Natives : pc[n] \in NativePcs
    /\ refs \in [Syncs -> Seq(Triggerables)]
    /\ trig \in [Syncs -> Triggerables \cup {None}]
    /\ tgt \in [Syncs -> Syncs \cup {None}]
    /\ drops \in [Syncs -> Nat]
    /\ waiting \in [Syncs -> SUBSET Triggerables]
    /\ obtained \in [Syncs -> SUBSET Triggerables]
    /\ failed \in BOOLEAN

Init ==
    /\ state = [t \in Tasks |-> "READY"]
    /\ signaled = [t \in Tasks |-> FALSE]
    /\ locked = [m \in Mutexes |-> FALSE]
    /\ clients = [d \in Triggerables |-> <<>>]
    /\ deps = [s \in Syncs |-> {}]
    /\ sem = [n \in Natives |-> 0]
    /\ taskLock = [t \in Tasks |-> None]
    /\ syncLock = [s \in Syncs |-> None]
    /\ trigLock = [d \in Triggerables |-> None]
    /\ pc = [s \in Syncs |-> IF s \in Tasks THEN "new" ELSE "run"]
    /\ refs = [s \in Syncs |-> <<>>]
    /\ trig = [s \in Syncs |-> None]
    /\ tgt = [s \in Syncs |-> None]
    /\ drops = [s \in Syncs |-> 0]
    /\ waiting = [s \in Syncs |-> {}]
    /\ obtained = [s \in Syncs |-> {}]
    /\ failed = FALSE

-----------------------------------------------------------------------------
(* Helpers.                                                                *)

Holds(s) == obtained[s] \cap Mutexes     \* the mutexes s has locked

Asserts(P) == failed' = ~P

(* A call of numa::wait returns to s.                                      *)
WaitReturns(s) ==
    /\ obtained' = [obtained EXCEPT ![s] = @ \cup waiting[s]]
    /\ waiting' = [waiting EXCEPT ![s] = {}]

-----------------------------------------------------------------------------
(* The life of a task on the workers.                                      *)

(* async: create the task and put it into a queue.                         *)
Spawn(s, t) ==
    /\ pc[s] = "run" /\ pc[t] = "new"
    /\ state' = [state EXCEPT ![t] = "READY"]
    /\ pc' = [pc EXCEPT ![t] = "queued"]
    /\ UNCHANGED <<signaled, locked, clients, deps, sem, locks, refs, trig, tgt,
                   drops, history, failed>>

(* A worker without a current task fetches t.                              *)
GetNewTask(t) ==
    /\ pc[t] = "queued"
    /\ Cardinality({u \in Tasks : pc[u] \in OnWorker}) < NumWorkers
    /\ pc' = [pc EXCEPT ![t] = "sched"]
    /\ UNCHANGED <<objects, locks, refs, trig, tgt, drops, history, failed>>

(* Task::schedule, then run() or the jump into the task's context.         *)
Schedule(t) ==
    /\ pc[t] = "sched" /\ taskLock[t] = None
    /\ state' = [state EXCEPT ![t] = "RUNNING"]
    /\ pc' = [pc EXCEPT ![t] = "run"]
    /\ WaitReturns(t)
    /\ UNCHANGED <<signaled, locked, clients, deps, sem, locks, refs, trig, tgt,
                   drops, failed>>

(* numa::yield: wait() with an empty list.                                 *)
Yield(t) ==
    /\ pc[t] = "run" /\ drops[t] < MaxDrops
    /\ taskLock[t] = None
    /\ Asserts(state[t] = "RUNNING")
    /\ state' = [state EXCEPT ![t] = "SUSPENDED"]
    /\ pc' = [pc EXCEPT ![t] = "queued"]
    /\ drops' = [drops EXCEPT ![t] = @ + 1]
    /\ UNCHANGED <<signaled, locked, clients, deps, sem, locks, refs, trig, tgt,
                   history>>

-----------------------------------------------------------------------------
(* Waiting: Task::wait and NativeThreadWait around synchronize().          *)

(* Task::wait holds the task's lock; a native thread has none to take.     *)
NoTaskLock(s) == taskLock   \* faulty variant
TakeTaskLock(s) == IF s \in Tasks THEN [taskLock EXCEPT ![s] = s] ELSE taskLock

(* Both callers of synchronize(list).                                      *)
StartWait(s, list) ==
    /\ pc[s] = "run"
    /\ s \in Tasks => drops[s] < MaxDrops /\ taskLock[s] = None
    /\ s \in Natives => drops[s] = 0
    /\ taskLock' = TakeTaskLock(s)
    /\ refs' = [refs EXCEPT ![s] = list]
    /\ waiting' = [waiting EXCEPT ![s] = Range(list)]
    /\ drops' = [drops EXCEPT ![s] = @ + 1]
    /\ pc' = [pc EXCEPT ![s] = "sync"]
    /\ UNCHANGED <<objects, syncLock, trigLock, trig, tgt, obtained, failed>>

(* numa::wait(list) for tasks that exist.                                  *)
Wait(s) ==
    \E list \in WaitLists[s] :
        /\ list # <<>>
        /\ \A d \in Range(list) : pc[d] # "new"
        /\ StartWait(s, list)

(* Mutex::lock: wait for the mutex's WaitObject.                           *)
Lock(s, m) ==
    /\ m \notin Holds(s)
    /\ StartWait(s, <<m>>)

(* synchronize() takes the Synchronizer's lock.                            *)
BeginSync(s) ==
    /\ pc[s] = "sync" /\ syncLock[s] = None
    /\ syncLock' = [syncLock EXCEPT ![s] = s]
    /\ pc' = [pc EXCEPT ![s] = "reg"]
    /\ UNCHANGED <<objects, taskLock, trigLock, refs, trig, tgt, drops, history,
                   failed>>

(* must_wait: an unsignalled task, a locked mutex.                         *)
AlwaysWait(d) == TRUE   \* faulty variant
MustWait(d) == IF d \in Tasks THEN ~signaled[d] ELSE locked[d]

(* A mutex that nobody holds is taken by must_wait itself.                 *)
NoGrab(d) == locked   \* faulty variant
Grab(d) == [m \in Mutexes |-> locked[m] \/ m = d]

(* register_wait of the next element, under the Triggerable's lock.        *)
Register(s) ==
    /\ pc[s] = "reg" /\ refs[s] # <<>>
    /\ LET d == Head(refs[s]) IN
        /\ trigLock[d] = None
        /\ IF MustWait(d)
           THEN /\ clients' = [clients EXCEPT ![d] = Append(@, s)]
                /\ deps' = [deps EXCEPT ![s] = @ \cup {d}]
                /\ locked' = locked
           ELSE /\ locked' = Grab(d)
                /\ UNCHANGED <<clients, deps>>
    /\ refs' = [refs EXCEPT ![s] = Tail(@)]
    /\ UNCHANGED <<state, signaled, sem, locks, pc, trig, tgt, drops, history,
                   failed>>

(* synchronize() returns false: wait() returns without giving up the CPU.  *)
(* A task goes through schedule() once more before it continues.           *)
EndSyncNoWait(s) ==
    /\ pc[s] = "reg" /\ refs[s] = <<>> /\ deps[s] = {}
    /\ syncLock' = [syncLock EXCEPT ![s] = None]
    /\ taskLock' = IF s \in Tasks THEN [taskLock EXCEPT ![s] = None] ELSE taskLock
    /\ pc' = [pc EXCEPT ![s] = IF s \in Tasks THEN "sched" ELSE "run"]
    /\ WaitReturns(s)
    /\ UNCHANGED <<objects, trigLock, refs, trig, tgt, drops, failed>>

(* synchronize() returns true.                                             *)
EndSyncMustWait(s) ==
    /\ pc[s] = "reg" /\ refs[s] = <<>> /\ deps[s] # {}
    /\ syncLock' = [syncLock EXCEPT ![s] = None]
    /\ pc' = [pc EXCEPT ![s] = IF s \in Tasks THEN "park" ELSE "sem"]
    /\ UNCHANGED <<objects, taskLock, trigLock, refs, trig, tgt, drops, history,
                   failed>>

(* The rest of Task::wait: the worker is free for another task.            *)
Park(t) ==
    /\ pc[t] = "park"
    /\ Asserts(state[t] = "RUNNING")
    /\ state' = [state EXCEPT ![t] = "WAITING"]
    /\ taskLock' = [taskLock EXCEPT ![t] = None]
    /\ pc' = [pc EXCEPT ![t] = "waiting"]
    /\ UNCHANGED <<signaled, locked, clients, deps, sem, syncLock, trigLock, refs,
                   trig, tgt, drops, history>>

(* NativeThreadWait::wait.                                                 *)
SemTryWait(n) ==   \* faulty variant
    /\ pc[n] = "sem"
    /\ sem' = [sem EXCEPT ![n] = @ - 1]
    /\ pc' = [pc EXCEPT ![n] = "run"]
    /\ WaitReturns(n)
    /\ UNCHANGED <<state, signaled, locked, clients, deps, locks, refs, trig, tgt,
                   drops, failed>>

SemWait(n) ==
    /\ pc[n] = "sem" /\ sem[n] > 0
    /\ sem' = [sem EXCEPT ![n] = @ - 1]
    /\ pc' = [pc EXCEPT ![n] = "run"]
    /\ WaitReturns(n)
    /\ UNCHANGED <<state, signaled, locked, clients, deps, locks, refs, trig, tgt,
                   drops, failed>>

-----------------------------------------------------------------------------
(* Signalling: Task::done, Mutex::unlock, trigger_all and trigger_one.     *)

(* The task's function has returned; done() takes the task's lock.  The    *)
(* user's code is assumed to have unlocked its mutexes.                    *)
Finish(t) ==
    /\ pc[t] = "run" /\ taskLock[t] = None
    /\ Holds(t) = {}
    /\ Asserts(state[t] = "RUNNING")
    /\ taskLock' = [taskLock EXCEPT ![t] = t]
    /\ state' = [state EXCEPT ![t] = "COMPLETED"]
    /\ pc' = [pc EXCEPT ![t] = "done"]
    /\ UNCHANGED <<signaled, locked, clients, deps, sem, syncLock, trigLock, refs,
                   trig, tgt, drops, history>>

(* set_signaled() takes the Triggerable's lock.                            *)
SetSignaled(t) ==
    /\ pc[t] = "done" /\ trigLock[t] = None
    /\ Asserts(~signaled[t])
    /\ trigLock' = [trigLock EXCEPT ![t] = t]
    /\ signaled' = [signaled EXCEPT ![t] = TRUE]
    /\ trig' = [trig EXCEPT ![t] = t]
    /\ pc' = [pc EXCEPT ![t] = "trigger"]
    /\ UNCHANGED <<state, locked, clients, deps, sem, taskLock, syncLock, refs, tgt,
                   drops, history>>

(* Mutex::unlock by the owner; release() takes the WaitObject's lock.      *)
Unlock(s, m) ==
    /\ pc[s] = "run" /\ m \in Holds(s) /\ trigLock[m] = None
    /\ trigLock' = [trigLock EXCEPT ![m] = s]
    /\ trig' = [trig EXCEPT ![s] = m]
    /\ obtained' = [obtained EXCEPT ![s] = @ \ {m}]
    /\ pc' = [pc EXCEPT ![s] = "trigger"]
    /\ UNCHANGED <<objects, taskLock, syncLock, refs, tgt, drops, waiting, failed>>

(* trigger_one() ends after one client, trigger_all() after the last.      *)
AfterSignal(s) == IF trig[s] \in Mutexes THEN "released" ELSE "trigger"

(* signal() removes d and notifies when nothing is left.                   *)
AnyDependency(c, d) == TRUE   \* faulty variant
NoDependencyBefore(c, d) == deps[c] = {}   \* faulty variant
LastDependency(c, d) == deps[c] \ {d} = {}

(* Synchronizer::signal for the next client.  When that was the client's   *)
(* last dependency its lock is kept while notify() runs.                   *)
Signal(s) ==
    /\ pc[s] = "trigger" /\ clients[trig[s]] # <<>>
    /\ LET d == trig[s]
           c == Head(clients[d])
       IN  /\ syncLock[c] = None
           /\ Asserts(deps[c] # {})
           /\ deps' = [deps EXCEPT ![c] = @ \ {d}]
           /\ clients' = [clients EXCEPT ![d] = Tail(@)]
           /\ IF LastDependency(c, d)
              THEN /\ syncLock' = [syncLock EXCEPT ![c] = s]
                   /\ tgt' = [tgt EXCEPT ![s] = c]
                   /\ pc' = [pc EXCEPT ![s] = "notify"]
              ELSE /\ pc' = [pc EXCEPT ![s] = AfterSignal(s)]
                   /\ UNCHANGED <<syncLock, tgt>>
    /\ UNCHANGED <<state, signaled, locked, sem, taskLock, trigLock, refs, trig,
                   drops, history>>

(* Task::notify: the client goes back into a queue.                        *)
NotifyTask(s) ==
    /\ pc[s] = "notify" /\ tgt[s] \in Tasks
    /\ taskLock[tgt[s]] = None
    /\ Asserts(state[tgt[s]] = "WAITING")
    /\ state' = [state EXCEPT ![tgt[s]] = "SUSPENDED"]
    /\ pc' = [pc EXCEPT ![tgt[s]] = "queued", ![s] = "signal"]
    /\ UNCHANGED <<signaled, locked, clients, deps, sem, locks, refs, trig, tgt,
                   drops, history>>

(* NativeThreadWait::notify.                                               *)
NotifyNative(s) ==
    /\ pc[s] = "notify" /\ tgt[s] \in Natives
    /\ sem' = [sem EXCEPT ![tgt[s]] = @ + 1]
    /\ pc' = [pc EXCEPT ![s] = "signal"]
    /\ UNCHANGED <<state, signaled, locked, clients, deps, locks, refs, trig, tgt,
                   drops, history, failed>>

(* signal() returns.                                                       *)
EndSignal(s) ==
    /\ pc[s] = "signal"
    /\ syncLock' = [syncLock EXCEPT ![tgt[s]] = None]
    /\ tgt' = [tgt EXCEPT ![s] = None]
    /\ pc' = [pc EXCEPT ![s] = AfterSignal(s)]
    /\ UNCHANGED <<objects, taskLock, trigLock, refs, trig, drops, history, failed>>

(* trigger_all() has signalled every client; done() and the task end.      *)
EndDone(t) ==
    /\ pc[t] = "trigger" /\ trig[t] = t /\ clients[t] = <<>>
    /\ trigLock' = [trigLock EXCEPT ![t] = None]
    /\ taskLock' = [taskLock EXCEPT ![t] = None]
    /\ trig' = [trig EXCEPT ![t] = None]
    /\ pc' = [pc EXCEPT ![t] = "end"]
    /\ UNCHANGED <<objects, syncLock, refs, tgt, drops, history, failed>>

(* release() found no client: the mutex becomes free.                      *)
ReleaseFree(s) ==
    /\ pc[s] = "trigger" /\ trig[s] \in Mutexes /\ clients[trig[s]] = <<>>
    /\ locked' = [locked EXCEPT ![trig[s]] = FALSE]
    /\ pc' = [pc EXCEPT ![s] = "released"]
    /\ UNCHANGED <<state, signaled, clients, deps, sem, locks, refs, trig, tgt,
                   drops, history, failed>>

(* release() returns.                                                      *)
EndRelease(s) ==
    /\ pc[s] = "released"
    /\ trigLock' = [trigLock EXCEPT ![trig[s]] = None]
    /\ trig' = [trig EXCEPT ![s] = None]
    /\ pc' = [pc EXCEPT ![s] = "run"]
    /\ UNCHANGED <<objects, taskLock, syncLock, refs, tgt, drops, history, failed>>

-----------------------------------------------------------------------------

(* What the user's code may do next.                                       *)
Call(s) ==
    \/ \E t \in Tasks : Spawn(s, t)
    \/ Wait(s)
    \/ \E m \in Mutexes : Lock(s, m) \/ Unlock(s, m)

(* The steps of the library in the thread of control s.                    *)
Step(s) ==
    \/ BeginSync(s) \/ Register(s) \/ EndSyncNoWait(s) \/ EndSyncMustWait(s)
    \/ Signal(s) \/ NotifyTask(s) \/ NotifyNative(s) \/ EndSignal(s)
    \/ ReleaseFree(s) \/ EndRelease(s)

TaskStep(t) ==
    \/ GetNewTask(t) \/ Schedule(t) \/ Yield(t) \/ Park(t)
    \/ Finish(t) \/ SetSignaled(t) \/ EndDone(t)

Running == ~failed /\ \E s \in Syncs :
    \/ Call(s) \/ Step(s)
    \/ s \in Tasks /\ TaskStep(s)
    \/ s \in Natives /\ SemWait(s)

(* Every task has completed and every native thread is back in its code.   *)
Quiescent ==
    /\ \A t \in Tasks : pc[t] = "end"
    /\ \A n \in Natives : pc[n] = "run"

Terminated == Quiescent /\ UNCHANGED vars

Next == Running \/ Terminated

Spec == Init /\ [][Next]_vars

(* Each thread of control keeps running: the kernel schedules the workers  *)
(* and native threads, a worker without a task polls the queues, and the   *)
(* function of a task returns after at most MaxDrops interruptions.  What  *)
(* a native thread does outside the library is left to it, except that it  *)
(* unlocks a mutex it has locked.                                          *)
Fairness ==
    /\ \A s \in Syncs : WF_vars(~failed /\ Step(s))
    /\ \A t \in Tasks : WF_vars(~failed /\ (TaskStep(t) \/ Call(t)))
    /\ \A n \in Natives : WF_vars(~failed /\ SemWait(n))
    /\ \A n \in Natives, m \in Mutexes : WF_vars(~failed /\ Unlock(n, m))

FairSpec == Spec /\ Fairness

-----------------------------------------------------------------------------
(* Properties.                                                             *)

(* No assert() of the protocol fails: signal() finds a dependency, notify()*)
(* a task that is WAITING, wait(), yield() and done() one that is RUNNING, *)
(* set_signaled() one that was not signalled (synchronizable.hpp:122,      *)
(* task_base.cpp:80, :116, :135, :151, :167, synchronizable.hpp:88).       *)
NoAssertFails == ~failed

(* What numa::wait promises: when it has returned, every task of the list  *)
(* has been signalled, however registration and completion interleaved.    *)
WaitContract ==
    \A s \in Syncs : \A t \in obtained[s] \cap Tasks :
        signaled[t] /\ state[t] = "COMPLETED"

(* What numa::Mutex promises: at most one thread of control is between the *)
(* return of lock() and its call of unlock().                              *)
MutualExclusion ==
    \A m \in Mutexes : \A s, u \in Syncs :
        m \in Holds(s) /\ m \in Holds(u) => s = u

(* No lost wakeup: who has given up the CPU in wait() is still a client of *)
(* each of its dependencies, and if it has none left then its notify() is  *)
(* under way or its semaphore has been posted.                             *)
NoLostWakeup ==
    \A s \in Syncs : pc[s] \in {"waiting", "sem"} =>
        /\ \A d \in deps[s] : s \in Range(clients[d])
        /\ \/ deps[s] # {}
           \/ \E u \in Syncs : pc[u] = "notify" /\ tgt[u] = s
           \/ s \in Natives /\ sem[s] > 0

(* A mutex that is free has no clients: release() hands the mutex to a     *)
(* waiter or clears locked, and no waiter slips in between.                *)
NoClientOfFreeMutex ==
    \A m \in Mutexes : ~locked[m] => clients[m] = <<>>

(* A task that has completed can be destroyed: it has no client left (the  *)
(* assertion of ~Triggerable, synchronizable.hpp:33), never gets another   *)
(* one, and nobody depends on it any more.                                 *)
CompletedHasNoClients ==
    \A t \in Tasks : pc[t] = "end" =>
        /\ clients[t] = <<>>
        /\ \A s \in Syncs : t \notin deps[s]

(* "Clients wanting to synchronize with this object will be registered and *)
(* notified, when the objet has finally triggered"                         *)
(* (synchronizable.hpp:18-19): a triggered task is eventually removed from *)
(* the dependencies of each of its clients.                                *)
ClientsAreNotified ==
    \A s \in Syncs, t \in Tasks :
        (t \in deps[s] /\ signaled[t]) ~> (t \notin deps[s])

(* Every task that was spawned completes.                                  *)
SpawnedTasksComplete ==
    \A t \in Tasks : (pc[t] # "new") ~> (pc[t] = "end")

(* Every call of lock() returns, provided that owners unlock.              *)
LockReturns ==
    \A s \in Syncs, m \in Mutexes : (m \in waiting[s]) ~> (m \in Holds(s))

(* The protocol implements the service its users rely on: the history      *)
(* variables are the service's state, and a task is finished once it is    *)
(* signalled.                                                              *)
Service == INSTANCE WaitService WITH finished <- {t \in Tasks : signaled[t]}

ImplementsWaitService == Service!ServiceSpec

=============================================================================
