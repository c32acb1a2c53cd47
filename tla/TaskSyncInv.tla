---------------------------- MODULE TaskSyncInv -----------------------------
(***************************************************************************)
(* The inductive invariant behind the safety properties of TaskSync, in    *)
(* named parts.  It holds when no wait list names a task twice.            *)
(***************************************************************************)
EXTENDS TaskSync

(* No list passed to numa::wait names a task twice.                        *)
DistinctLists == \A s \in Syncs : \A list \in WaitLists[s] : IsInjective(list)

Triggering == {"trigger", "notify", "signal", "released"}

(* What the program counter says about the task's state word and about its *)
(* signal.                                                                 *)
StateInv ==
    \A t \in Tasks :
        /\ pc[t] \in {"run", "sync", "reg", "park"} => state[t] = "RUNNING"
        /\ pc[t] = "waiting" => state[t] = "WAITING"
        /\ pc[t] = "done" => state[t] = "COMPLETED"
        /\ pc[t] \in Triggering /\ trig[t] # t => state[t] = "RUNNING"
        /\ signaled[t] <=> (pc[t] = "end" \/ trig[t] = t)
        /\ signaled[t] => state[t] = "COMPLETED"

(* Who holds which lock.                                                   *)
LockInv ==
    /\ \A t \in Tasks : taskLock[t] =
        IF pc[t] \in {"sync", "reg", "park", "done"} \/ trig[t] = t THEN t ELSE None
    /\ \A s \in Syncs :
        /\ pc[s] = "reg" => syncLock[s] = s
        /\ pc[s] \in {"notify", "signal"} => tgt[s] \in Syncs /\ syncLock[tgt[s]] = s
        /\ pc[s] \in Triggering <=> trig[s] # None
        /\ trig[s] # None => trigLock[trig[s]] = s
        /\ trig[s] \in Tasks => trig[s] = s
        /\ pc[s] = "released" => trig[s] \in Mutexes

(* clients and deps are each other's inverse, without repetitions, and a   *)
(* thread of control has dependencies only inside wait().                  *)
ClientInv ==
    /\ \A d \in Triggerables : IsInjective(clients[d])
    /\ \A s \in Syncs, d \in Triggerables : s \in Range(clients[d]) <=> d \in deps[s]
    /\ \A s \in Syncs :
        /\ deps[s] # {} => pc[s] \in {"reg", "park", "waiting", "sem"}
        /\ IsInjective(refs[s])
        /\ deps[s] \cap Range(refs[s]) = {}
        /\ refs[s] # <<>> => pc[s] \in {"sync", "reg"}
    /\ \A t \in Tasks : pc[t] = "end" => clients[t] = <<>>

(* A client that is being notified has no dependency left and is still     *)
(* inside wait(); a semaphore is posted at most once.                      *)
NotifyInv ==
    /\ \A u \in Syncs : pc[u] = "notify" =>
        /\ deps[tgt[u]] = {}
        /\ pc[tgt[u]] \in {"park", "waiting", "sem"}
        /\ tgt[u] \in Natives => sem[tgt[u]] = 0
    /\ \A n \in Natives : sem[n] # 0 => sem[n] = 1 /\ pc[n] = "sem" /\ deps[n] = {}

(* Who has given up the CPU, or is about to, without a dependency left is  *)
(* being notified by the holder of its lock or has been notified.          *)
WakeupInv ==
    \A s \in Syncs : pc[s] \in {"park", "waiting", "sem"} /\ deps[s] = {} =>
        \/ /\ syncLock[s] \in Syncs
           /\ pc[syncLock[s]] = "notify"
           /\ tgt[syncLock[s]] = s
        \/ s \in Natives /\ sem[s] # 0

(* What a wait in progress is for has been signalled, is a dependency, or  *)
(* has still to be registered.                                             *)
WaitInv ==
    /\ \A s \in Syncs : waiting[s] # {} =>
        pc[s] \in {"sync", "reg", "park", "waiting", "sem", "queued", "sched"}
    /\ \A s \in Syncs : \A t \in Tasks :
        /\ t \in obtained[s] => signaled[t]
        /\ t \in waiting[s] => signaled[t] \/ t \in deps[s] \/ t \in Range(refs[s])

(* s holds m or, not knowing yet, has been given it.                       *)
Granted(s, m) ==
    \/ m \in obtained[s]
    \/ m \in waiting[s] /\ m \notin deps[s] /\ m \notin Range(refs[s])

(* At most one thread of control is granted a mutex, none while it is      *)
(* being released.                                                         *)
MutexInv ==
    \A m \in Mutexes :
        /\ \A s, u \in Syncs : Granted(s, m) /\ Granted(u, m) => s = u
        /\ \A s \in Syncs : Granted(s, m) => locked[m]
        /\ \A u \in Syncs : pc[u] = "trigger" /\ trig[u] = m =>
            locked[m] /\ \A s \in Syncs : ~Granted(s, m)
        /\ ~locked[m] => clients[m] = <<>>

IndInv ==
    /\ TypeOK
    /\ StateInv
    /\ LockInv
    /\ ClientInv
    /\ NotifyInv
    /\ WakeupInv
    /\ WaitInv
    /\ MutexInv
    /\ ~failed

(* What the history variables add for the refinement: nobody waits for a   *)
(* mutex it holds, and a task inside done() holds none.                    *)
HistoryInv ==
    /\ \A s \in Syncs, m \in Mutexes : m \in waiting[s] => m \notin obtained[s]
    /\ \A t \in Tasks : pc[t] = "done" => obtained[t] \cap Mutexes = {}
=============================================================================
