---------------------------- MODULE WaitService -----------------------------
(***************************************************************************)
(* What the tasking interface (tasking.hpp, mutex.hpp) promises to its     *)
(* users, without queues, locks, clients or semaphores: a call of          *)
(* numa::wait returns only when every task of its list has finished, and   *)
(* Mutex::lock only when nobody else holds the mutex.                      *)
(***************************************************************************)
CONSTANTS Tasks, Natives, Mutexes

VARIABLES
    finished,  \* the tasks that have been signalled
    waiting,   \* waiting[s]: what the call of wait() in progress is for
    obtained   \* obtained[s]: tasks waited for, and mutexes held

svars == <<finished, waiting, obtained>>

Waiters == Tasks \cup Natives

ServiceInit ==
    /\ finished = {}
    /\ waiting = [s \in Waiters |-> {}]
    /\ obtained = [s \in Waiters |-> {}]

(* wait(list), or lock() of one mutex.                                     *)
CallWait(s, D) ==
    /\ waiting[s] = {} /\ D # {} /\ s \notin finished
    /\ D \subseteq Tasks \/ \E m \in Mutexes \ obtained[s] : D = {m}
    /\ waiting' = [waiting EXCEPT ![s] = D]
    /\ UNCHANGED <<finished, obtained>>

(* The call returns.                                                       *)
ReturnWait(s) ==
    /\ waiting[s] # {}
    /\ waiting[s] \cap Tasks \subseteq finished
    /\ \A m \in waiting[s] \cap Mutexes, u \in Waiters : m \notin obtained[u]
    /\ obtained' = [obtained EXCEPT ![s] = @ \cup waiting[s]]
    /\ waiting' = [waiting EXCEPT ![s] = {}]
    /\ UNCHANGED finished

ReleaseMutex(s, m) ==
    /\ waiting[s] = {} /\ m \in obtained[s]
    /\ obtained' = [obtained EXCEPT ![s] = @ \ {m}]
    /\ UNCHANGED <<finished, waiting>>

(* A task finishes outside of any wait and without a mutex.                *)
FinishTask(t) ==
    /\ t \notin finished /\ waiting[t] = {} /\ obtained[t] \cap Mutexes = {}
    /\ finished' = finished \cup {t}
    /\ UNCHANGED <<waiting, obtained>>

ServiceNext ==
    \/ \E s \in Waiters :
        \/ \E D \in SUBSET (Tasks \cup Mutexes) : CallWait(s, D)
        \/ ReturnWait(s)
        \/ \E m \in Mutexes : ReleaseMutex(s, m)
    \/ \E t \in Tasks : FinishTask(t)

ServiceSpec == ServiceInit /\ [][ServiceNext]_svars
=============================================================================
