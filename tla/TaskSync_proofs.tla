--------------------------- MODULE TaskSync_proofs --------------------------
(***************************************************************************)
(* Machine-checked proofs about TaskSync, for any numbers of tasks, native *)
(* threads, mutexes and workers and any wait lists.                        *)
(***************************************************************************)
EXTENDS TaskSyncInv, SequenceFacts, TLAPS

-----------------------------------------------------------------------------
(* Every step keeps the inductive invariant.                               *)

(* Creating and queueing a task (async) touches nobody's locks.            *)
LEMMA SpawnKeepsInv ==
    ASSUME IndInv, NEW s \in Syncs, NEW t \in Tasks, Spawn(s, t)
    PROVE  IndInv'
<1> USE DistinctObjects DEF IndInv, Spawn, objects, locks, control, history, Triggerables, Syncs
<1>0a. trig[t] = None /\ t # s
  BY DEF LockInv, Triggering
<1>0b. ~signaled[t]
  BY <1>0a DEF StateInv
<1>1. TypeOK'
  BY DEF TypeOK, TaskPcs, NativePcs, States
<1>2. StateInv'
  BY <1>0a, <1>0b DEF TypeOK, StateInv, LockInv, TaskPcs, NativePcs, States, Triggering
<1>3. LockInv'
  BY DEF TypeOK, LockInv, StateInv, TaskPcs, NativePcs, States, Triggering
<1>4. ClientInv'
  BY DEF TypeOK, ClientInv, LockInv, TaskPcs, NativePcs, States, Triggering
<1>5. NotifyInv'
  BY DEF TypeOK, NotifyInv, LockInv, ClientInv, TaskPcs, NativePcs, States, Triggering
<1>6. WakeupInv'
  BY DEF TypeOK, WakeupInv, NotifyInv, LockInv, ClientInv, TaskPcs, NativePcs, States, Triggering
<1>7. WaitInv'
  BY DEF TypeOK, WaitInv, ClientInv, StateInv, TaskPcs, NativePcs, States, Triggering
<1>8. MutexInv'
  BY DEF TypeOK, MutexInv, LockInv, ClientInv, TaskPcs, NativePcs, States, Triggering, Granted
<1>9. ~failed'
  OBVIOUS
<1>10. QED  BY <1>1, <1>2, <1>3, <1>4, <1>5, <1>6, <1>7, <1>8, <1>9 DEF IndInv

(* A worker that fetches a queued task.                                    *)
LEMMA GetNewTaskKeepsInv ==
    ASSUME IndInv, NEW t \in Tasks, GetNewTask(t)
    PROVE  IndInv'
<1> USE DistinctObjects DEF IndInv, GetNewTask, objects, locks, control, history, Triggerables, Syncs
<1>1. TypeOK'
  BY DEF TypeOK, TaskPcs, NativePcs, States
<1>2. StateInv'
  BY DEF TypeOK, StateInv, LockInv, TaskPcs, NativePcs, States, Triggering
<1>3. LockInv'
  BY DEF TypeOK, LockInv, StateInv, TaskPcs, NativePcs, States, Triggering
<1>4. ClientInv'
  BY DEF TypeOK, ClientInv, LockInv, TaskPcs, NativePcs, States, Triggering
<1>5. NotifyInv'
  BY DEF TypeOK, NotifyInv, LockInv, ClientInv, TaskPcs, NativePcs, States, Triggering
<1>6. WakeupInv'
  BY DEF TypeOK, WakeupInv, NotifyInv, LockInv, ClientInv, TaskPcs, NativePcs, States, Triggering
<1>7. WaitInv'
  BY DEF TypeOK, WaitInv, ClientInv, StateInv, TaskPcs, NativePcs, States, Triggering
<1>8. MutexInv'
  BY DEF TypeOK, MutexInv, LockInv, ClientInv, TaskPcs, NativePcs, States, Triggering, Granted
<1>9. ~failed'
  OBVIOUS
<1>10. QED  BY <1>1, <1>2, <1>3, <1>4, <1>5, <1>6, <1>7, <1>8, <1>9 DEF IndInv

(* Task::schedule: a resumed task has no dependency left, so every task it *)
(* waited for is signalled.                                                *)
LEMMA ScheduleKeepsInv ==
    ASSUME IndInv, NEW t \in Tasks, Schedule(t)
    PROVE  IndInv'
<1> USE DistinctObjects DEF IndInv, Schedule, WaitReturns, objects, locks, control, history, Triggerables, Syncs
<1>0a. refs[t] = <<>> /\ deps[t] = {}
  BY DEF ClientInv
<1>0b. Range(refs[t]) = {}
  BY <1>0a, EmptyList
<1>1. TypeOK'
  BY DEF TypeOK, TaskPcs, NativePcs, States
<1>2. StateInv'
  BY DEF TypeOK, StateInv, LockInv, TaskPcs, NativePcs, States, Triggering
<1>3. LockInv'
  BY DEF TypeOK, LockInv, StateInv, TaskPcs, NativePcs, States, Triggering
<1>4. ClientInv'
  BY DEF TypeOK, ClientInv, LockInv, TaskPcs, NativePcs, States, Triggering
<1>5. NotifyInv'
  BY DEF TypeOK, NotifyInv, LockInv, ClientInv, TaskPcs, NativePcs, States, Triggering
<1>6. WakeupInv'
  BY DEF TypeOK, WakeupInv, NotifyInv, LockInv, ClientInv, TaskPcs, NativePcs, States, Triggering
<1>7. WaitInv'
  BY <1>0a, <1>0b DEF TypeOK, WaitInv, ClientInv, StateInv, TaskPcs, NativePcs, States, Triggering
<1>8. MutexInv'
  BY <1>0a, <1>0b DEF TypeOK, MutexInv, LockInv, ClientInv, TaskPcs, NativePcs, States, Triggering, Granted
<1>9. ~failed'
  OBVIOUS
<1>10. QED  BY <1>1, <1>2, <1>3, <1>4, <1>5, <1>6, <1>7, <1>8, <1>9 DEF IndInv

(* Task::yield finds the task RUNNING.                                     *)
LEMMA YieldKeepsInv ==
    ASSUME IndInv, NEW t \in Tasks, Yield(t)
    PROVE  IndInv'
<1> USE DistinctObjects DEF IndInv, Yield, Asserts, objects, locks, control, history, Triggerables, Syncs
<1>1. TypeOK'
  BY DEF TypeOK, TaskPcs, NativePcs, States
<1>2. StateInv'
  BY DEF TypeOK, StateInv, LockInv, TaskPcs, NativePcs, States, Triggering
<1>3. LockInv'
  BY DEF TypeOK, LockInv, StateInv, TaskPcs, NativePcs, States, Triggering
<1>4. ClientInv'
  BY DEF TypeOK, ClientInv, LockInv, TaskPcs, NativePcs, States, Triggering
<1>5. NotifyInv'
  BY DEF TypeOK, NotifyInv, LockInv, ClientInv, TaskPcs, NativePcs, States, Triggering
<1>6. WakeupInv'
  BY DEF TypeOK, WakeupInv, NotifyInv, LockInv, ClientInv, TaskPcs, NativePcs, States, Triggering
<1>7. WaitInv'
  BY DEF TypeOK, WaitInv, ClientInv, StateInv, TaskPcs, NativePcs, States, Triggering
<1>8. MutexInv'
  BY DEF TypeOK, MutexInv, LockInv, ClientInv, TaskPcs, NativePcs, States, Triggering, Granted
<1>9. ~failed'
  BY DEF StateInv, Triggering
<1>10. QED  BY <1>1, <1>2, <1>3, <1>4, <1>5, <1>6, <1>7, <1>8, <1>9 DEF IndInv

(* The start of a wait, given a list without repetitions and no mutex the  *)
(* caller already holds.                                                   *)
LEMMA StartWaitKeepsInv ==
    ASSUME IndInv, NEW s \in Syncs, NEW list \in Seq(Triggerables),
           IsInjective(list), StartWait(s, list),
           \A m \in Mutexes : m \notin obtained[s] \/ m \notin Range(list)
    PROVE  IndInv'
<1>1. pc[s] = "run" /\ pc' = [pc EXCEPT ![s] = "sync"]
  BY DEF StartWait
<1>2. /\ refs' = [refs EXCEPT ![s] = list]
      /\ waiting' = [waiting EXCEPT ![s] = Range(list)]
      /\ drops' = [drops EXCEPT ![s] = @ + 1]
      /\ taskLock' = IF s \in Tasks THEN [taskLock EXCEPT ![s] = s] ELSE taskLock
  BY DEF StartWait, TakeTaskLock
<1>3. /\ UNCHANGED <<state, signaled, locked, clients, deps, sem, syncLock, trigLock>>
      /\ UNCHANGED <<trig, tgt, obtained, failed>>
  BY DEF StartWait, objects
<1>4. Range(list) \subseteq Triggerables
  BY DEF Range
<1>5. deps[s] = {}
  BY <1>1 DEF IndInv, ClientInv
<1>6. trig[s] = None
  BY <1>1 DEF IndInv, LockInv, Triggering
<1>11. TypeOK'
  BY <1>1, <1>2, <1>3, <1>4 DEF IndInv, TypeOK, Syncs, TaskPcs, NativePcs
<1>12. StateInv'
  BY <1>1, <1>3 DEF IndInv, TypeOK, StateInv, Triggering, Syncs
<1>13. LockInv'
  BY <1>1, <1>2, <1>3, <1>6, DistinctObjects DEF IndInv, TypeOK, LockInv, Triggering, Syncs
<1>14. ClientInv'
  BY <1>1, <1>2, <1>3, <1>5 DEF IndInv, TypeOK, ClientInv, Syncs
<1>15. NotifyInv'
  BY <1>1, <1>3 DEF IndInv, TypeOK, NotifyInv, LockInv, Syncs
<1>16. WakeupInv'
  BY <1>1, <1>3 DEF IndInv, TypeOK, WakeupInv
<1>17. WaitInv'
  BY <1>1, <1>2, <1>3 DEF IndInv, TypeOK, WaitInv
<1>18. MutexInv'
  <2>1. \A u \in Syncs, m \in Mutexes : Granted(u, m)' => Granted(u, m)
    BY <1>2, <1>3 DEF IndInv, TypeOK, Granted
  <2>2. \A u \in Syncs : pc'[u] = "trigger" => pc[u] = "trigger"
    BY <1>1 DEF IndInv, TypeOK
  <2>3. QED  BY <2>1, <2>2, <1>3 DEF IndInv, MutexInv
<1>19. QED  BY <1>3, <1>11, <1>12, <1>13, <1>14, <1>15, <1>16, <1>17, <1>18 DEF IndInv

(* synchronize() takes the Synchronizer's lock, which no signaller holds.  *)
LEMMA BeginSyncKeepsInv ==
    ASSUME IndInv, NEW s \in Syncs, BeginSync(s)
    PROVE  IndInv'
<1> USE DistinctObjects DEF IndInv, BeginSync, objects, locks, control, history, Triggerables, Syncs
<1>0a. \A u \in Syncs : pc[u] \in {"notify", "signal"} => tgt[u] # s
  BY DEF LockInv
<1>1. TypeOK'
  BY DEF TypeOK, TaskPcs, NativePcs, States
<1>2. StateInv'
  BY DEF TypeOK, StateInv, LockInv, TaskPcs, NativePcs, States, Triggering
<1>3. LockInv'
  <2>1. \A t \in Tasks : pc'[t] \in {"sync", "reg", "park", "done"} <=>
                          pc[t] \in {"sync", "reg", "park", "done"}
    BY DEF TypeOK
  <2>2. \A u \in Syncs : pc'[u] = "reg" => syncLock'[u] = u
    BY DEF TypeOK, LockInv
  <2>3. \A u \in Syncs : pc'[u] \in {"notify", "signal"} =>
          tgt[u] \in Syncs /\ syncLock'[tgt[u]] = u
    BY <1>0a DEF TypeOK, LockInv
  <2>4. \A u \in Syncs : pc'[u] \in Triggering <=> pc[u] \in Triggering
    BY DEF TypeOK, Triggering
  <2>5. \A u \in Syncs : pc'[u] = "released" => pc[u] = "released"
    BY DEF TypeOK
  <2>6. QED  BY <2>1, <2>2, <2>3, <2>4, <2>5 DEF LockInv
<1>4. ClientInv'
  BY DEF TypeOK, ClientInv, LockInv, TaskPcs, NativePcs, States, Triggering
<1>5. NotifyInv'
  BY DEF TypeOK, NotifyInv, LockInv, ClientInv, TaskPcs, NativePcs, States, Triggering
<1>6. WakeupInv'
  BY DEF TypeOK, WakeupInv, NotifyInv, LockInv, ClientInv, TaskPcs, NativePcs, States, Triggering
<1>7. WaitInv'
  BY DEF TypeOK, WaitInv, ClientInv, StateInv, TaskPcs, NativePcs, States, Triggering
<1>8. MutexInv'
  BY DEF TypeOK, MutexInv, LockInv, ClientInv, TaskPcs, NativePcs, States, Triggering, Granted
<1>9. ~failed'
  OBVIOUS
<1>10. QED  BY <1>1, <1>2, <1>3, <1>4, <1>5, <1>6, <1>7, <1>8, <1>9 DEF IndInv

(* register_wait: a client enters clients and deps together, or its        *)
(* dependency is already satisfied.                                        *)
LEMMA RegisterKeepsInv ==
    ASSUME IndInv, NEW s \in Syncs, Register(s)
    PROVE  IndInv'
<1> DEFINE d == Head(refs[s])
<1>1. /\ pc[s] = "reg" /\ refs[s] # <<>> /\ trigLock[d] = None
      /\ refs' = [refs EXCEPT ![s] = Tail(@)]
      /\ UNCHANGED <<state, signaled, sem, taskLock, syncLock, trigLock, pc>>
      /\ UNCHANGED <<trig, tgt, drops, waiting, obtained, failed>>
  BY DEF Register, locks, history
<1>2. \/ /\ MustWait(d)
         /\ clients' = [clients EXCEPT ![d] = Append(@, s)]
         /\ deps' = [deps EXCEPT ![s] = @ \cup {d}]
         /\ locked' = locked
      \/ /\ ~MustWait(d)
         /\ locked' = [m \in Mutexes |-> locked[m] \/ m = d]
         /\ UNCHANGED <<clients, deps>>
  BY DEF Register, Grab
<1>3. refs[s] \in Seq(Triggerables) /\ IsInjective(refs[s])
  BY DEF IndInv, TypeOK, ClientInv
<1>4. /\ d \in Triggerables
      /\ Tail(refs[s]) \in Seq(Triggerables)
      /\ Range(refs[s]) = {d} \cup Range(Tail(refs[s]))
  BY <1>1, <1>3, RangeHeadTail
<1>5. IsInjective(Tail(refs[s])) /\ d \notin Range(Tail(refs[s]))
  BY <1>1, <1>3, InjectiveTail
<1>6. d \notin deps[s] /\ s \notin Range(clients[d])
  BY <1>4 DEF IndInv, ClientInv
<1>7. clients[d] \in Seq(Syncs) /\ IsInjective(clients[d])
  BY <1>4 DEF IndInv, TypeOK, ClientInv
<1>8. /\ Range(Append(clients[d], s)) = Range(clients[d]) \cup {s}
      /\ IsInjective(Append(clients[d], s))
      /\ Append(clients[d], s) \in Seq(Syncs)
  BY <1>6, <1>7, RangeAppend, InjectiveAppend
<1>9. \A u \in Syncs : trig[u] # d
  BY <1>1, <1>4, DistinctObjects DEF IndInv, LockInv, Triggerables, Syncs
<1>10. refs'[s] = Tail(refs[s]) /\ \A u \in Syncs : u # s => refs'[u] = refs[u]
  BY <1>1 DEF IndInv, TypeOK
<1> HIDE DEF d
<1>11. TypeOK'
  <2>1. refs' \in [Syncs -> Seq(Triggerables)]
    BY <1>1, <1>4 DEF IndInv, TypeOK
  <2>2. clients' \in [Triggerables -> Seq(Syncs)] /\ deps' \in [Syncs -> SUBSET Triggerables]
    <3>1. CASE MustWait(d)
      <4>1. clients' = [clients EXCEPT ![d] = Append(@, s)]
        BY <1>2, <3>1
      <4>2. deps' = [deps EXCEPT ![s] = @ \cup {d}]
        BY <1>2, <3>1
      <4>3. QED  BY <1>4, <1>8, <4>1, <4>2 DEF IndInv, TypeOK
    <3>2. CASE ~MustWait(d)
      BY <1>2, <3>2 DEF IndInv, TypeOK
    <3>3. QED  BY <3>1, <3>2
  <2>3. locked' \in [Mutexes -> BOOLEAN]
    BY <1>2 DEF IndInv, TypeOK
  <2>4. QED  BY <1>1, <2>1, <2>2, <2>3 DEF IndInv, TypeOK
<1>12. StateInv'
  BY <1>1 DEF IndInv, StateInv
<1>13. LockInv'
  BY <1>1 DEF IndInv, LockInv
<1>14. ClientInv'
  <2>1. CASE MustWait(d)
    <3>1. /\ clients'[d] = Append(clients[d], s)
          /\ \A e \in Triggerables : e # d => clients'[e] = clients[e]
          /\ deps'[s] = deps[s] \cup {d}
          /\ \A u \in Syncs : u # s => deps'[u] = deps[u]
      BY <1>2, <1>4, <2>1 DEF IndInv, TypeOK
    <3>2. \A e \in Triggerables : IsInjective(clients'[e])
      BY <1>8, <3>1 DEF IndInv, ClientInv
    <3>3. \A u \in Syncs, e \in Triggerables : u \in Range(clients'[e]) <=> e \in deps'[u]
      <4>1. SUFFICES ASSUME NEW u \in Syncs, NEW e \in Triggerables
                     PROVE  u \in Range(clients'[e]) <=> e \in deps'[u]
        OBVIOUS
      <4>2. u \in Range(clients[e]) <=> e \in deps[u]
        BY DEF IndInv, ClientInv
      <4>3. CASE e = d
        BY <1>8, <3>1, <4>2, <4>3
      <4>4. CASE e # d
        BY <3>1, <4>2, <4>4
      <4>5. QED  BY <4>3, <4>4
    <3>4. \A u \in Syncs :
            /\ deps'[u] # {} => pc'[u] \in {"reg", "park", "waiting", "sem"}
            /\ IsInjective(refs'[u])
            /\ deps'[u] \cap Range(refs'[u]) = {}
            /\ refs'[u] # <<>> => pc'[u] \in {"sync", "reg"}
      BY <1>1, <1>4, <1>5, <1>10, <3>1 DEF IndInv, ClientInv
    <3>5. \A t \in Tasks : pc[t] = "end" => signaled[t]
      BY DEF IndInv, StateInv
    <3>6. \A t \in Tasks : pc'[t] = "end" => clients'[t] = <<>>
      BY <1>1, <2>1, <3>1, <3>5 DEF IndInv, ClientInv, MustWait, Triggerables
    <3>7. QED  BY <3>2, <3>3, <3>4, <3>6 DEF ClientInv
  <2>2. CASE ~MustWait(d)
    BY <1>1, <1>2, <1>4, <1>5, <1>10, <2>2 DEF IndInv, ClientInv
  <2>3. QED  BY <2>1, <2>2
<1>15. NotifyInv'
  <2>1. \A u \in Syncs : pc[u] = "notify" => tgt[u] # s
    BY <1>1 DEF IndInv, NotifyInv
  <2>2. \A u \in Syncs : u # s => deps'[u] = deps[u]
    BY <1>2 DEF IndInv, TypeOK
  <2>3. QED  BY <1>1, <2>1, <2>2, DistinctObjects DEF IndInv, NotifyInv, LockInv, Syncs
<1>16. WakeupInv'
  <2>1. \A u \in Syncs : u # s => deps'[u] = deps[u]
    BY <1>2 DEF IndInv, TypeOK
  <2>2. QED  BY <1>1, <2>1 DEF IndInv, WakeupInv
<1>17. WaitInv'
  <2>1. d \in deps'[s] \/ d \notin Tasks \/ signaled[d]
    BY <1>2 DEF IndInv, TypeOK, MustWait
  <2>2. \A u \in Syncs : \A t \in deps[u] : t \in deps'[u]
    <3>1. CASE MustWait(d)
      <4>1. deps' = [deps EXCEPT ![s] = @ \cup {d}]
        BY <1>2, <3>1
      <4>2. QED  BY <4>1 DEF IndInv, TypeOK
    <3>2. CASE ~MustWait(d)
      BY <1>2, <3>2
    <3>3. QED  BY <3>1, <3>2
  <2>3. QED  BY <1>1, <1>4, <1>10, <2>1, <2>2 DEF IndInv, WaitInv
<1>18. MutexInv'
  <2>1. \A u \in Syncs, m \in Mutexes : u # s \/ m # d => (Granted(u, m)' <=> Granted(u, m))
    BY <1>1, <1>2, <1>4, <1>10 DEF IndInv, TypeOK, Granted
  <2>2. CASE MustWait(d)
    <3>1. d \in Mutexes => locked[d]
      BY <2>2, DistinctObjects DEF MustWait
    <3>2. \A m \in Mutexes : m # d => clients'[m] = clients[m]
      BY <1>2, <1>4, <2>2 DEF IndInv, TypeOK, Triggerables
    <3>3. d \in deps'[s]
      BY <1>2, <2>2 DEF IndInv, TypeOK
    <3>4. \A m \in Mutexes : m = d /\ Granted(s, m)' => Granted(s, m)
      BY <1>1, <3>3 DEF Granted
    <3>5. \A u \in Syncs, m \in Mutexes : Granted(u, m)' => Granted(u, m)
      BY <2>1, <3>4
    <3>6. UNCHANGED <<pc, trig, locked>>
      BY <1>1, <1>2, <2>2
    <3>7. QED  BY <3>1, <3>2, <3>5, <3>6 DEF IndInv, MutexInv
  <2>3. CASE ~MustWait(d)
    <3>1. d \in Mutexes => ~locked[d]
      BY <2>3, DistinctObjects DEF MustWait
    <3>2. \A m \in Mutexes : locked'[m] <=> (locked[m] \/ m = d)
      BY <1>2, <2>3
    <3>3. \A m \in Mutexes, u \in Syncs : m = d => ~Granted(u, m)
      BY <3>1 DEF IndInv, MutexInv
    <3>4. UNCHANGED <<clients, pc, trig>>
      BY <1>1, <1>2, <2>3
    <3>5. QED  BY <1>9, <2>1, <3>1, <3>2, <3>3, <3>4 DEF IndInv, MutexInv
  <2>4. QED  BY <2>2, <2>3
<1>19. QED  BY <1>1, <1>11, <1>12, <1>13, <1>14, <1>15, <1>16, <1>17, <1>18 DEF IndInv

(* synchronize() returns false: every task of the list is signalled.       *)
LEMMA EndSyncNoWaitKeepsInv ==
    ASSUME IndInv, NEW s \in Syncs, EndSyncNoWait(s)
    PROVE  IndInv'
<1> USE DistinctObjects DEF IndInv, EndSyncNoWait, WaitReturns, objects, locks, control, history, Triggerables, Syncs
<1>0a. Range(refs[s]) = {}
  BY EmptyList
<1>1. TypeOK'
  BY DEF TypeOK, TaskPcs, NativePcs, States
<1>2. StateInv'
  BY DEF TypeOK, StateInv, LockInv, TaskPcs, NativePcs, States, Triggering
<1>3. LockInv'
  <2>1. \A t \in Tasks : taskLock'[t] =
          IF pc'[t] \in {"sync", "reg", "park", "done"} \/ trig'[t] = t THEN t ELSE None
    <3>1. trig[s] = None
      BY DEF LockInv, Triggering
    <3>2. \A t \in Tasks : t # s => taskLock'[t] = taskLock[t] /\ pc'[t] = pc[t]
      BY DEF TypeOK
    <3>3. s \in Tasks => taskLock'[s] = None /\ pc'[s] = "sched"
      BY DEF TypeOK
    <3>4. QED  BY <3>1, <3>2, <3>3 DEF LockInv
  <2>2. \A u \in Syncs : pc'[u] = "reg" => syncLock'[u] = u
    BY DEF TypeOK, LockInv
  <2>3. \A u \in Syncs : pc'[u] \in {"notify", "signal"} =>
          tgt[u] \in Syncs /\ syncLock'[tgt[u]] = u
    BY DEF TypeOK, LockInv
  <2>4. \A u \in Syncs : pc'[u] \in Triggering <=> pc[u] \in Triggering
    BY DEF TypeOK, Triggering
  <2>5. \A u \in Syncs : pc'[u] = "released" => pc[u] = "released"
    BY DEF TypeOK
  <2>6. QED  BY <2>1, <2>2, <2>3, <2>4, <2>5 DEF LockInv
<1>4. ClientInv'
  BY DEF TypeOK, ClientInv, LockInv, TaskPcs, NativePcs, States, Triggering
<1>5. NotifyInv'
  BY DEF TypeOK, NotifyInv, LockInv, ClientInv, TaskPcs, NativePcs, States, Triggering
<1>6. WakeupInv'
  BY DEF TypeOK, WakeupInv, NotifyInv, LockInv, ClientInv, TaskPcs, NativePcs, States, Triggering
<1>7. WaitInv'
  BY <1>0a DEF TypeOK, WaitInv, ClientInv, StateInv, TaskPcs, NativePcs, States, Triggering
<1>8. MutexInv'
  BY <1>0a DEF TypeOK, MutexInv, LockInv, ClientInv, TaskPcs, NativePcs, States, Triggering, Granted
<1>9. ~failed'
  OBVIOUS
<1>10. QED  BY <1>1, <1>2, <1>3, <1>4, <1>5, <1>6, <1>7, <1>8, <1>9 DEF IndInv

(* synchronize() returns true.                                             *)
LEMMA EndSyncMustWaitKeepsInv ==
    ASSUME IndInv, NEW s \in Syncs, EndSyncMustWait(s)
    PROVE  IndInv'
<1> USE DistinctObjects DEF IndInv, EndSyncMustWait, objects, locks, control, history, Triggerables, Syncs
<1>0a. \A u \in Syncs : pc[u] \in {"notify", "signal"} => tgt[u] # s
  BY DEF LockInv
<1>1. TypeOK'
  BY DEF TypeOK, TaskPcs, NativePcs, States
<1>2. StateInv'
  BY DEF TypeOK, StateInv, LockInv, TaskPcs, NativePcs, States, Triggering
<1>3. LockInv'
  <2>1. \A t \in Tasks : pc'[t] \in {"sync", "reg", "park", "done"} <=>
                          pc[t] \in {"sync", "reg", "park", "done"}
    BY DEF TypeOK
  <2>2. \A u \in Syncs : pc'[u] = "reg" => syncLock'[u] = u
    BY DEF TypeOK, LockInv
  <2>3. \A u \in Syncs : pc'[u] \in {"notify", "signal"} =>
          tgt[u] \in Syncs /\ syncLock'[tgt[u]] = u
    BY <1>0a DEF TypeOK, LockInv
  <2>4. \A u \in Syncs : pc'[u] \in Triggering <=> pc[u] \in Triggering
    BY DEF TypeOK, Triggering
  <2>5. \A u \in Syncs : pc'[u] = "released" => pc[u] = "released"
    BY DEF TypeOK
  <2>6. QED  BY <2>1, <2>2, <2>3, <2>4, <2>5 DEF LockInv
<1>4. ClientInv'
  BY DEF TypeOK, ClientInv, LockInv, TaskPcs, NativePcs, States, Triggering
<1>5. NotifyInv'
  BY DEF TypeOK, NotifyInv, LockInv, ClientInv, TaskPcs, NativePcs, States, Triggering
<1>6. WakeupInv'
  BY DEF TypeOK, WakeupInv, NotifyInv, LockInv, ClientInv, TaskPcs, NativePcs, States, Triggering
<1>7. WaitInv'
  BY DEF TypeOK, WaitInv, ClientInv, StateInv, TaskPcs, NativePcs, States, Triggering
<1>8. MutexInv'
  BY DEF TypeOK, MutexInv, LockInv, ClientInv, TaskPcs, NativePcs, States, Triggering, Granted
<1>9. ~failed'
  OBVIOUS
<1>10. QED  BY <1>1, <1>2, <1>3, <1>4, <1>5, <1>6, <1>7, <1>8, <1>9 DEF IndInv

(* Task::wait sets WAITING on a RUNNING task.                              *)
LEMMA ParkKeepsInv ==
    ASSUME IndInv, NEW t \in Tasks, Park(t)
    PROVE  IndInv'
<1> USE DistinctObjects DEF IndInv, Park, Asserts, objects, locks, control, history, Triggerables, Syncs
<1>1. TypeOK'
  BY DEF TypeOK, TaskPcs, NativePcs, States
<1>2. StateInv'
  BY DEF TypeOK, StateInv, LockInv, TaskPcs, NativePcs, States, Triggering
<1>3. LockInv'
  BY DEF TypeOK, LockInv, StateInv, TaskPcs, NativePcs, States, Triggering
<1>4. ClientInv'
  BY DEF TypeOK, ClientInv, LockInv, TaskPcs, NativePcs, States, Triggering
<1>5. NotifyInv'
  BY DEF TypeOK, NotifyInv, LockInv, ClientInv, TaskPcs, NativePcs, States, Triggering
<1>6. WakeupInv'
  BY DEF TypeOK, WakeupInv, NotifyInv, LockInv, ClientInv, TaskPcs, NativePcs, States, Triggering
<1>7. WaitInv'
  BY DEF TypeOK, WaitInv, ClientInv, StateInv, TaskPcs, NativePcs, States, Triggering
<1>8. MutexInv'
  BY DEF TypeOK, MutexInv, LockInv, ClientInv, TaskPcs, NativePcs, States, Triggering, Granted
<1>9. ~failed'
  BY DEF StateInv, Triggering
<1>10. QED  BY <1>1, <1>2, <1>3, <1>4, <1>5, <1>6, <1>7, <1>8, <1>9 DEF IndInv

(* NativeThreadWait::wait returns after exactly one post, without          *)
(* dependencies.                                                           *)
LEMMA SemWaitKeepsInv ==
    ASSUME IndInv, NEW n \in Natives, SemWait(n)
    PROVE  IndInv'
<1> USE DistinctObjects DEF IndInv, SemWait, WaitReturns, objects, locks, control, history, Triggerables, Syncs
<1>0a. sem[n] # 0 /\ n \in Syncs
  BY DEF TypeOK
<1>0b. sem[n] = 1 /\ deps[n] = {}
  BY <1>0a DEF NotifyInv
<1>0c. refs[n] = <<>>
  BY <1>0a DEF ClientInv
<1>0d. Range(refs[n]) = {}
  BY <1>0c, EmptyList
<1>1. TypeOK'
  BY DEF TypeOK, TaskPcs, NativePcs, States
<1>2. StateInv'
  BY DEF TypeOK, StateInv, LockInv, TaskPcs, NativePcs, States, Triggering
<1>3. LockInv'
  BY DEF TypeOK, LockInv, StateInv, TaskPcs, NativePcs, States, Triggering
<1>4. ClientInv'
  BY <1>0a, <1>0b, <1>0c, <1>0d DEF TypeOK, ClientInv, LockInv, NotifyInv, TaskPcs, NativePcs, States, Triggering
<1>5. NotifyInv'
  BY <1>0a, <1>0b, <1>0c, <1>0d DEF TypeOK, NotifyInv, LockInv, ClientInv, TaskPcs, NativePcs, States, Triggering
<1>6. WakeupInv'
  BY <1>0a, <1>0b, <1>0c, <1>0d DEF TypeOK, WakeupInv, NotifyInv, LockInv, ClientInv, TaskPcs, NativePcs, States, Triggering
<1>7. WaitInv'
  BY <1>0a, <1>0b, <1>0c, <1>0d DEF TypeOK, WaitInv, ClientInv, StateInv, NotifyInv, TaskPcs, NativePcs, States, Triggering
<1>8. MutexInv'
  BY <1>0a, <1>0b, <1>0c, <1>0d DEF TypeOK, MutexInv, LockInv, ClientInv, NotifyInv, TaskPcs, NativePcs, States, Triggering, Granted
<1>9. ~failed'
  OBVIOUS
<1>10. QED  BY <1>1, <1>2, <1>3, <1>4, <1>5, <1>6, <1>7, <1>8, <1>9 DEF IndInv

(* Task::done finds the task RUNNING.                                      *)
LEMMA FinishKeepsInv ==
    ASSUME IndInv, NEW t \in Tasks, Finish(t)
    PROVE  IndInv'
<1> USE DistinctObjects DEF IndInv, Finish, Asserts, objects, locks, control, history, Triggerables, Syncs
<1>1. TypeOK'
  BY DEF TypeOK, TaskPcs, NativePcs, States
<1>2. StateInv'
  BY DEF TypeOK, StateInv, LockInv, TaskPcs, NativePcs, States, Triggering
<1>3. LockInv'
  BY DEF TypeOK, LockInv, StateInv, TaskPcs, NativePcs, States, Triggering
<1>4. ClientInv'
  BY DEF TypeOK, ClientInv, LockInv, TaskPcs, NativePcs, States, Triggering
<1>5. NotifyInv'
  BY DEF TypeOK, NotifyInv, LockInv, ClientInv, TaskPcs, NativePcs, States, Triggering
<1>6. WakeupInv'
  BY DEF TypeOK, WakeupInv, NotifyInv, LockInv, ClientInv, TaskPcs, NativePcs, States, Triggering
<1>7. WaitInv'
  BY DEF TypeOK, WaitInv, ClientInv, StateInv, TaskPcs, NativePcs, States, Triggering
<1>8. MutexInv'
  BY DEF TypeOK, MutexInv, LockInv, ClientInv, TaskPcs, NativePcs, States, Triggering, Granted
<1>9. ~failed'
  BY DEF StateInv, Triggering
<1>10. QED  BY <1>1, <1>2, <1>3, <1>4, <1>5, <1>6, <1>7, <1>8, <1>9 DEF IndInv

(* set_signaled is called once per task.                                   *)
LEMMA SetSignaledKeepsInv ==
    ASSUME IndInv, NEW t \in Tasks, SetSignaled(t)
    PROVE  IndInv'
<1> USE DistinctObjects DEF IndInv, SetSignaled, Asserts, objects, locks, control, history, Triggerables, Syncs
<1>0a. trig[t] = None
  BY DEF LockInv, Triggering
<1>0b. ~signaled[t]
  BY <1>0a DEF StateInv
<1>1. TypeOK'
  BY DEF TypeOK, TaskPcs, NativePcs, States
<1>2. StateInv'
  BY <1>0a, <1>0b DEF TypeOK, StateInv, LockInv, TaskPcs, NativePcs, States, Triggering
<1>3. LockInv'
  BY DEF TypeOK, LockInv, StateInv, TaskPcs, NativePcs, States, Triggering
<1>4. ClientInv'
  BY DEF TypeOK, ClientInv, LockInv, TaskPcs, NativePcs, States, Triggering
<1>5. NotifyInv'
  BY DEF TypeOK, NotifyInv, LockInv, ClientInv, TaskPcs, NativePcs, States, Triggering
<1>6. WakeupInv'
  BY DEF TypeOK, WakeupInv, NotifyInv, LockInv, ClientInv, TaskPcs, NativePcs, States, Triggering
<1>7. WaitInv'
  BY DEF TypeOK, WaitInv, ClientInv, StateInv, TaskPcs, NativePcs, States, Triggering
<1>8. MutexInv'
  BY DEF TypeOK, MutexInv, LockInv, ClientInv, TaskPcs, NativePcs, States, Triggering, Granted
<1>9. ~failed'
  BY <1>0a, <1>0b DEF StateInv, LockInv, Triggering
<1>10. QED  BY <1>1, <1>2, <1>3, <1>4, <1>5, <1>6, <1>7, <1>8, <1>9 DEF IndInv

(* Mutex::unlock: while the mutex is being released nobody holds it.       *)
LEMMA UnlockKeepsInv ==
    ASSUME IndInv, NEW s \in Syncs, NEW m \in Mutexes, Unlock(s, m)
    PROVE  IndInv'
<1> USE DistinctObjects DEF IndInv, Unlock, Holds, objects, locks, control, history, Triggerables, Syncs
<1>0a. \A u \in Syncs : m \in obtained[u] => u = s
  BY DEF MutexInv, Granted
<1>0b. waiting[s] = {}
  BY DEF WaitInv
<1>1. TypeOK'
  BY DEF TypeOK, TaskPcs, NativePcs, States
<1>2. StateInv'
  BY DEF TypeOK, StateInv, LockInv, TaskPcs, NativePcs, States, Triggering
<1>3. LockInv'
  BY DEF TypeOK, LockInv, StateInv, TaskPcs, NativePcs, States, Triggering
<1>4. ClientInv'
  BY DEF TypeOK, ClientInv, LockInv, TaskPcs, NativePcs, States, Triggering
<1>5. NotifyInv'
  BY DEF TypeOK, NotifyInv, LockInv, ClientInv, TaskPcs, NativePcs, States, Triggering
<1>6. WakeupInv'
  BY DEF TypeOK, WakeupInv, NotifyInv, LockInv, ClientInv, TaskPcs, NativePcs, States, Triggering
<1>7. WaitInv'
  BY <1>0a, <1>0b DEF TypeOK, WaitInv, ClientInv, StateInv, TaskPcs, NativePcs, States, Triggering
<1>8. MutexInv'
  BY <1>0a, <1>0b DEF TypeOK, MutexInv, LockInv, ClientInv, TaskPcs, NativePcs, States, Triggering, Granted
<1>9. ~failed'
  OBVIOUS
<1>10. QED  BY <1>1, <1>2, <1>3, <1>4, <1>5, <1>6, <1>7, <1>8, <1>9 DEF IndInv

(* Synchronizer::signal finds the dependency it removes; a mutex is handed *)
(* to one client.                                                          *)
LEMMA SignalKeepsInv ==
    ASSUME IndInv, NEW s \in Syncs, Signal(s)
    PROVE  IndInv'
<1> DEFINE d == trig[s]
           c == Head(clients[d])
           last == deps[c] \ {d} = {}
<1>1. /\ pc[s] = "trigger" /\ clients[d] # <<>> /\ syncLock[c] = None
      /\ deps' = [deps EXCEPT ![c] = @ \ {d}]
      /\ clients' = [clients EXCEPT ![d] = Tail(@)]
      /\ UNCHANGED <<state, signaled, locked, sem, taskLock, trigLock, refs, trig>>
      /\ UNCHANGED <<drops, waiting, obtained>>
  BY DEF Signal, history
<1>2. /\ last => /\ syncLock' = [syncLock EXCEPT ![c] = s]
                 /\ tgt' = [tgt EXCEPT ![s] = c]
                 /\ pc' = [pc EXCEPT ![s] = "notify"]
      /\ ~last => /\ pc' = [pc EXCEPT ![s] = AfterSignal(s)]
                  /\ UNCHANGED <<syncLock, tgt>>
  BY DEF Signal, LastDependency
<1>3. d \in Triggerables /\ trigLock[d] = s
  BY <1>1 DEF IndInv, LockInv, TypeOK, Triggering
<1>4. clients[d] \in Seq(Syncs) /\ IsInjective(clients[d])
  BY <1>3 DEF IndInv, TypeOK, ClientInv
<1>5. c \in Syncs /\ Tail(clients[d]) \in Seq(Syncs)
      /\ Range(clients[d]) = {c} \cup Range(Tail(clients[d]))
  BY <1>1, <1>4, RangeHeadTail
<1>6. IsInjective(Tail(clients[d])) /\ c \notin Range(Tail(clients[d]))
  BY <1>1, <1>4, InjectiveTail
<1>7. d \in deps[c]
  BY <1>3, <1>5 DEF IndInv, ClientInv
<1>8. pc[c] \in {"park", "waiting", "sem"} /\ c # s
  BY <1>1, <1>5, <1>7, DistinctObjects DEF IndInv, ClientInv, LockInv, Syncs
<1>9. failed' = FALSE
  BY <1>7 DEF Signal, Asserts
<1>10. d \in Tasks => d = s /\ signaled[d]
  BY <1>1 DEF IndInv, LockInv, StateInv
<1>11. AfterSignal(s) = IF d \in Mutexes THEN "released" ELSE "trigger"
  BY DEF AfterSignal
<1>12. /\ clients'[d] = Tail(clients[d])
       /\ \A e \in Triggerables : e # d => clients'[e] = clients[e]
       /\ deps'[c] = deps[c] \ {d}
       /\ \A u \in Syncs : u # c => deps'[u] = deps[u]
  BY <1>1, <1>3, <1>5 DEF IndInv, TypeOK
<1>13. /\ pc'[s] \in {"notify", "released", "trigger"}
       /\ pc'[s] = "notify" <=> last
       /\ pc'[s] = "released" => d \in Mutexes
       /\ pc'[s] = "trigger" => d \notin Mutexes
       /\ \A u \in Syncs : u # s => pc'[u] = pc[u]
       /\ pc' \in [Syncs -> TaskPcs \cup NativePcs]
  BY <1>2, <1>11 DEF IndInv, TypeOK, TaskPcs, NativePcs
<1>14. /\ last => syncLock'[c] = s /\ tgt'[s] = c
       /\ ~last => syncLock'[c] = syncLock[c] /\ tgt'[s] = tgt[s]
       /\ \A u \in Syncs : u # c => syncLock'[u] = syncLock[u]
       /\ \A u \in Syncs : u # s => tgt'[u] = tgt[u]
       /\ syncLock' \in [Syncs -> Syncs \cup {None}]
       /\ tgt' \in [Syncs -> Syncs \cup {None}]
  <2>1. CASE last
    <3>1. syncLock' = [syncLock EXCEPT ![c] = s] /\ tgt' = [tgt EXCEPT ![s] = c]
      BY <1>2, <2>1
    <3>2. syncLock \in [Syncs -> Syncs \cup {None}] /\ tgt \in [Syncs -> Syncs \cup {None}]
      BY DEF IndInv, TypeOK
    <3> HIDE DEF c, d, last
    <3>3. QED  BY <1>5, <2>1, <3>1, <3>2
  <2>2. CASE ~last
    BY <1>2, <2>2 DEF IndInv, TypeOK
  <2>3. QED  BY <2>1, <2>2
<1>15. \A u \in Syncs : pc[u] \in {"notify", "signal"} => tgt[u] # c
  BY <1>1, DistinctObjects DEF IndInv, LockInv, Syncs
<1>16. last <=> deps'[c] = {}
  BY <1>12
<1> HIDE DEF d, c, last
<1>21. TypeOK'
  <2>1. /\ clients' \in [Triggerables -> Seq(Syncs)]
        /\ deps' \in [Syncs -> SUBSET Triggerables]
    BY <1>1, <1>3, <1>5 DEF IndInv, TypeOK
  <2>2. /\ \A t \in Tasks : pc'[t] \in TaskPcs
        /\ \A n \in Natives : pc'[n] \in NativePcs
    BY <1>13 DEF IndInv, TypeOK, TaskPcs, NativePcs, Syncs
  <2>3. QED  BY <1>1, <1>9, <1>13, <1>14, <2>1, <2>2 DEF IndInv, TypeOK
<1>22. StateInv'
  BY <1>1, <1>13 DEF IndInv, StateInv, Triggering, Syncs
<1>23. LockInv'
  <2>1. \A t \in Tasks : pc'[t] \in {"sync", "reg", "park", "done"} <=>
                          pc[t] \in {"sync", "reg", "park", "done"}
    BY <1>1, <1>13 DEF Syncs
  <2>2. \A t \in Tasks : taskLock'[t] =
          IF pc'[t] \in {"sync", "reg", "park", "done"} \/ trig'[t] = t THEN t ELSE None
    BY <1>1, <2>1 DEF IndInv, LockInv
  <2>3. \A u \in Syncs : pc'[u] = "reg" => syncLock'[u] = u
    BY <1>8, <1>13, <1>14 DEF IndInv, LockInv
  <2>4. \A u \in Syncs : pc'[u] \in {"notify", "signal"} =>
          tgt'[u] \in Syncs /\ syncLock'[tgt'[u]] = u
    <3>1. pc'[s] \in {"notify", "signal"} => tgt'[s] = c /\ syncLock'[c] = s
      BY <1>13, <1>14
    <3>2. \A u \in Syncs : u # s /\ pc'[u] \in {"notify", "signal"} =>
            tgt'[u] = tgt[u] /\ tgt[u] \in Syncs /\ tgt[u] # c /\ syncLock[tgt[u]] = u
      BY <1>13, <1>14, <1>15 DEF IndInv, LockInv
    <3>3. QED  BY <1>5, <1>14, <3>1, <3>2
  <2>5. \A u \in Syncs :
          /\ pc'[u] \in Triggering <=> trig'[u] # None
          /\ trig'[u] # None => trigLock'[trig'[u]] = u
          /\ trig'[u] \in Tasks => trig'[u] = u
          /\ pc'[u] = "released" => trig'[u] \in Mutexes
    BY <1>1, <1>13 DEF IndInv, LockInv, Triggering, d
  <2>6. QED  BY <2>2, <2>3, <2>4, <2>5 DEF LockInv
<1>24. ClientInv'
  <2>1. \A e \in Triggerables : IsInjective(clients'[e])
    BY <1>6, <1>12 DEF IndInv, ClientInv
  <2>2. \A u \in Syncs, e \in Triggerables : u \in Range(clients'[e]) <=> e \in deps'[u]
    <3>1. SUFFICES ASSUME NEW u \in Syncs, NEW e \in Triggerables
                   PROVE  u \in Range(clients'[e]) <=> e \in deps'[u]
      OBVIOUS
    <3>2. u \in Range(clients[e]) <=> e \in deps[u]
      BY DEF IndInv, ClientInv
    <3>3. CASE e = d
      BY <1>5, <1>6, <1>12, <3>2, <3>3
    <3>4. CASE e # d
      BY <1>12, <3>2, <3>4
    <3>5. QED  BY <3>3, <3>4
  <2>3. \A u \in Syncs : \A e \in deps'[u] : e \in deps[u]
    BY <1>5, <1>12
  <2>4. \A u \in Syncs :
          /\ deps'[u] # {} => pc'[u] \in {"reg", "park", "waiting", "sem"}
          /\ IsInjective(refs'[u])
          /\ deps'[u] \cap Range(refs'[u]) = {}
          /\ refs'[u] # <<>> => pc'[u] \in {"sync", "reg"}
    BY <1>1, <1>13, <2>3 DEF IndInv, ClientInv
  <2>5. \A t \in Tasks : pc'[t] = "end" => clients'[t] = <<>>
    BY <1>1, <1>10, <1>12, <1>13 DEF IndInv, ClientInv, Triggerables, Syncs
  <2>6. QED  BY <2>1, <2>2, <2>4, <2>5 DEF ClientInv
<1>25. NotifyInv'
  <2>1. \A n \in Natives : sem[n] # 0 => n # c
    BY <1>7 DEF IndInv, NotifyInv
  <2>2. \A u \in Syncs : pc'[u] = "notify" =>
          /\ deps'[tgt'[u]] = {}
          /\ pc'[tgt'[u]] \in {"park", "waiting", "sem"}
          /\ tgt'[u] \in Natives => sem'[tgt'[u]] = 0
    <3>1. SUFFICES ASSUME NEW u \in Syncs, pc'[u] = "notify"
                   PROVE  /\ deps'[tgt'[u]] = {}
                          /\ pc'[tgt'[u]] \in {"park", "waiting", "sem"}
                          /\ tgt'[u] \in Natives => sem'[tgt'[u]] = 0
      OBVIOUS
    <3>2. CASE u = s
      BY <1>1, <1>5, <1>8, <1>13, <1>14, <1>16, <2>1, <3>1, <3>2
    <3>3. CASE u # s
      <4>1. pc[u] = "notify" /\ tgt'[u] = tgt[u] /\ tgt[u] # c
        BY <1>13, <1>14, <1>15, <3>1, <3>3
      <4>2. tgt[u] \in Syncs
        BY <4>1 DEF IndInv, LockInv
      <4>3. /\ deps[tgt[u]] = {}
            /\ pc[tgt[u]] \in {"park", "waiting", "sem"}
            /\ tgt[u] \in Natives => sem[tgt[u]] = 0
        BY <4>1 DEF IndInv, NotifyInv
      <4>4. QED  BY <1>1, <1>12, <1>13, <4>1, <4>2, <4>3
    <3>4. QED  BY <3>2, <3>3
  <2>3. \A n \in Natives : sem'[n] # 0 => sem'[n] = 1 /\ pc'[n] = "sem" /\ deps'[n] = {}
    BY <1>1, <1>12, <1>13, <2>1 DEF IndInv, NotifyInv, Syncs
  <2>4. QED  BY <2>2, <2>3 DEF NotifyInv
<1>26. WakeupInv'
  <2>1. SUFFICES ASSUME NEW u \in Syncs, pc'[u] \in {"park", "waiting", "sem"}, deps'[u] = {}
                 PROVE  \/ /\ syncLock'[u] \in Syncs
                           /\ pc'[syncLock'[u]] = "notify"
                           /\ tgt'[syncLock'[u]] = u
                        \/ u \in Natives /\ sem'[u] # 0
    BY DEF WakeupInv
  <2>2. CASE u = c
    BY <1>5, <1>13, <1>14, <1>16, <2>1, <2>2
  <2>3. CASE u # c
    BY <1>1, <1>12, <1>13, <1>14, <2>1, <2>3 DEF IndInv, WakeupInv
  <2>4. QED  BY <2>2, <2>3
<1>27. WaitInv'
  <2>1. \A u \in Syncs : \A t \in Tasks : t \in deps[u] => t \in deps'[u] \/ signaled[t]
    BY <1>10, <1>12
  <2>2. QED  BY <1>1, <1>13, <2>1 DEF IndInv, WaitInv
<1>28. MutexInv'
  <2>1. \A u \in Syncs, m \in Mutexes : u # c \/ m # d => (Granted(u, m)' <=> Granted(u, m))
    BY <1>1, <1>5, <1>12 DEF Granted
  <2>2. \A m \in Mutexes : m = d => locked[m] /\ \A u \in Syncs : ~Granted(u, m)
    BY <1>1 DEF IndInv, MutexInv, d
  <2>3. \A m \in Mutexes : \A u \in Syncs : pc'[u] = "trigger" /\ trig'[u] = m =>
            m # d /\ pc[u] = "trigger" /\ trig[u] = m
    <3>1. SUFFICES ASSUME NEW m \in Mutexes, NEW u \in Syncs, pc'[u] = "trigger", trig[u] = m
                   PROVE  m # d /\ pc[u] = "trigger"
      BY <1>1
    <3>2. u # s
      BY <1>13, <3>1 DEF d
    <3>3. trigLock[m] = u
      BY <3>1, DistinctObjects DEF IndInv, LockInv
    <3>4. QED  BY <1>3, <1>13, <3>1, <3>2, <3>3
  <2>4. \A m \in Mutexes : ~locked'[m] => clients'[m] = <<>>
    BY <1>1, <1>12, <2>2 DEF IndInv, MutexInv, Triggerables
  <2>5. \A m \in Mutexes : \A u, v \in Syncs : Granted(u, m)' /\ Granted(v, m)' => u = v
    BY <2>1, <2>2 DEF IndInv, MutexInv
  <2>6. \A m \in Mutexes : \A u \in Syncs : Granted(u, m)' => locked'[m]
    BY <1>1, <2>1, <2>2 DEF IndInv, MutexInv
  <2>7. \A m \in Mutexes : \A u \in Syncs : pc'[u] = "trigger" /\ trig'[u] = m =>
            locked'[m] /\ \A v \in Syncs : ~Granted(v, m)'
    BY <1>1, <2>1, <2>3 DEF IndInv, MutexInv
  <2>8. QED  BY <2>4, <2>5, <2>6, <2>7 DEF MutexInv
<1>29. QED  BY <1>9, <1>21, <1>22, <1>23, <1>24, <1>25, <1>26, <1>27, <1>28 DEF IndInv

(* Task::notify finds the client WAITING, although it may be called while  *)
(* the client is still inside wait().                                      *)
LEMMA NotifyTaskKeepsInv ==
    ASSUME IndInv, NEW s \in Syncs, NotifyTask(s)
    PROVE  IndInv'
<1> DEFINE c == tgt[s]
<1>1. /\ c \in Tasks /\ c \in Syncs
      /\ pc[s] = "notify" /\ taskLock[c] = None
  BY DEF NotifyTask, Syncs
<1>2. pc[c] \in {"park", "waiting", "sem"} /\ deps[c] = {}
  BY <1>1 DEF IndInv, NotifyInv
<1>3. pc[c] = "waiting"
  BY ZenonT(30), <1>1, <1>2, DistinctObjects DEF IndInv, LockInv, TypeOK, TaskPcs
<1>4. state[c] = "WAITING" /\ c # s
  BY <1>1, <1>3 DEF IndInv, StateInv
<1>5. \A u \in Syncs : pc[u] \in {"notify", "signal"} /\ tgt[u] = c => u = s
  BY <1>1 DEF IndInv, LockInv
<1>6. /\ state' = [state EXCEPT ![c] = "SUSPENDED"]
      /\ pc' = [u \in Syncs |-> IF u = s THEN "signal"
                                ELSE IF u = c THEN "queued" ELSE pc[u]]
      /\ failed' = FALSE
  BY <1>1, <1>4 DEF NotifyTask, IndInv, TypeOK, Asserts
<1>7. /\ UNCHANGED <<signaled, locked, clients, deps, sem, taskLock, syncLock, trigLock>>
      /\ UNCHANGED <<refs, trig, tgt, drops, waiting, obtained>>
  BY DEF NotifyTask, locks, history
<1> HIDE DEF c
<1>8. trig[c] # c
  BY <1>1, <1>3, DistinctObjects DEF IndInv, LockInv, Triggering
<1>11. TypeOK'
  BY ZenonT(30), <1>1, <1>6, <1>7, DistinctObjects DEF IndInv, TypeOK, Syncs, TaskPcs, NativePcs, States
<1>12. StateInv'
  BY <1>1, <1>3, <1>6, <1>7, <1>8 DEF IndInv, TypeOK, StateInv, LockInv, Triggering, Syncs
<1>13. LockInv'
  BY <1>1, <1>3, <1>6, <1>7, <1>8 DEF IndInv, LockInv, Triggering, Syncs
<1>14. ClientInv'
  BY <1>1, <1>2, <1>3, <1>6, <1>7, DistinctObjects DEF IndInv, ClientInv, Syncs
<1>15. NotifyInv'
  BY <1>1, <1>3, <1>5, <1>6, <1>7, DistinctObjects DEF IndInv, NotifyInv, LockInv, Syncs
<1>16. WakeupInv'
  BY <1>1, <1>3, <1>4, <1>6, <1>7 DEF IndInv, WakeupInv, c
<1>17. WaitInv'
  BY <1>1, <1>3, <1>6, <1>7 DEF IndInv, WaitInv
<1>18. MutexInv'
  BY <1>1, <1>3, <1>6, <1>7 DEF IndInv, MutexInv, Granted
<1>19. QED  BY <1>6, <1>11, <1>12, <1>13, <1>14, <1>15, <1>16, <1>17, <1>18 DEF IndInv

(* NativeThreadWait::notify posts a semaphore that is zero.                *)
LEMMA NotifyNativeKeepsInv ==
    ASSUME IndInv, NEW s \in Syncs, NotifyNative(s)
    PROVE  IndInv'
<1> USE DistinctObjects DEF IndInv, NotifyNative, objects, locks, control, history, Triggerables, Syncs
<1>0a. sem[tgt[s]] = 0 /\ pc[tgt[s]] = "sem" /\ tgt[s] # s /\ deps[tgt[s]] = {}
  BY DEF TypeOK, LockInv, NotifyInv, NativePcs
<1>0b. \A u \in Syncs : pc[u] \in {"notify", "signal"} /\ u # s => tgt[u] # tgt[s]
  BY DEF TypeOK, LockInv
<1>1. TypeOK'
  BY DEF TypeOK, TaskPcs, NativePcs, States
<1>2. StateInv'
  BY DEF TypeOK, StateInv, LockInv, TaskPcs, NativePcs, States, Triggering
<1>3. LockInv'
  BY <1>0a, <1>0b DEF TypeOK, LockInv, StateInv, TaskPcs, NativePcs, States, Triggering
<1>4. ClientInv'
  BY DEF TypeOK, ClientInv, LockInv, TaskPcs, NativePcs, States, Triggering
<1>5. NotifyInv'
  BY <1>0a, <1>0b DEF TypeOK, NotifyInv, LockInv, ClientInv, TaskPcs, NativePcs, States, Triggering
<1>6. WakeupInv'
  BY <1>0a, <1>0b DEF TypeOK, WakeupInv, NotifyInv, LockInv, ClientInv, TaskPcs, NativePcs, States, Triggering
<1>7. WaitInv'
  BY DEF TypeOK, WaitInv, ClientInv, StateInv, TaskPcs, NativePcs, States, Triggering
<1>8. MutexInv'
  BY DEF TypeOK, MutexInv, LockInv, ClientInv, TaskPcs, NativePcs, States, Triggering, Granted
<1>9. ~failed'
  OBVIOUS
<1>10. QED  BY <1>1, <1>2, <1>3, <1>4, <1>5, <1>6, <1>7, <1>8, <1>9 DEF IndInv

(* signal() releases the client's lock.                                    *)
LEMMA EndSignalKeepsInv ==
    ASSUME IndInv, NEW s \in Syncs, EndSignal(s)
    PROVE  IndInv'
<1> USE DistinctObjects DEF IndInv, EndSignal, AfterSignal, objects, locks, control, history, Triggerables, Syncs
<1>1. TypeOK'
  BY DEF TypeOK, TaskPcs, NativePcs, States
<1>2. StateInv'
  BY DEF TypeOK, StateInv, LockInv, TaskPcs, NativePcs, States, Triggering
<1>3. LockInv'
  BY DEF TypeOK, LockInv, StateInv, TaskPcs, NativePcs, States, Triggering
<1>4. ClientInv'
  BY DEF TypeOK, ClientInv, LockInv, TaskPcs, NativePcs, States, Triggering
<1>5. NotifyInv'
  BY DEF TypeOK, NotifyInv, LockInv, ClientInv, TaskPcs, NativePcs, States, Triggering
<1>6. WakeupInv'
  BY DEF TypeOK, WakeupInv, NotifyInv, LockInv, ClientInv, TaskPcs, NativePcs, States, Triggering
<1>7. WaitInv'
  BY DEF TypeOK, WaitInv, ClientInv, StateInv, TaskPcs, NativePcs, States, Triggering
<1>8. MutexInv'
  BY SMTT(30) DEF TypeOK, MutexInv, LockInv, ClientInv, TaskPcs, NativePcs, States, Triggering, Granted
<1>9. ~failed'
  OBVIOUS
<1>10. QED  BY <1>1, <1>2, <1>3, <1>4, <1>5, <1>6, <1>7, <1>8, <1>9 DEF IndInv

(* done() returns with no client left.                                     *)
LEMMA EndDoneKeepsInv ==
    ASSUME IndInv, NEW t \in Tasks, EndDone(t)
    PROVE  IndInv'
<1> USE DistinctObjects DEF IndInv, EndDone, objects, locks, control, history, Triggerables, Syncs
<1>1. TypeOK'
  BY DEF TypeOK, TaskPcs, NativePcs, States
<1>2. StateInv'
  BY DEF TypeOK, StateInv, LockInv, TaskPcs, NativePcs, States, Triggering
<1>3. LockInv'
  BY DEF TypeOK, LockInv, StateInv, TaskPcs, NativePcs, States, Triggering
<1>4. ClientInv'
  BY DEF TypeOK, ClientInv, LockInv, TaskPcs, NativePcs, States, Triggering
<1>5. NotifyInv'
  BY DEF TypeOK, NotifyInv, LockInv, ClientInv, TaskPcs, NativePcs, States, Triggering
<1>6. WakeupInv'
  BY DEF TypeOK, WakeupInv, NotifyInv, LockInv, ClientInv, TaskPcs, NativePcs, States, Triggering
<1>7. WaitInv'
  BY DEF TypeOK, WaitInv, ClientInv, StateInv, TaskPcs, NativePcs, States, Triggering
<1>8. MutexInv'
  BY DEF TypeOK, MutexInv, LockInv, ClientInv, TaskPcs, NativePcs, States, Triggering, Granted
<1>9. ~failed'
  OBVIOUS
<1>10. QED  BY <1>1, <1>2, <1>3, <1>4, <1>5, <1>6, <1>7, <1>8, <1>9 DEF IndInv

(* release() without clients frees the mutex.                              *)
LEMMA ReleaseFreeKeepsInv ==
    ASSUME IndInv, NEW s \in Syncs, ReleaseFree(s)
    PROVE  IndInv'
<1> USE DistinctObjects DEF IndInv, ReleaseFree, objects, locks, control, history, Triggerables, Syncs
<1>1. TypeOK'
  BY DEF TypeOK, TaskPcs, NativePcs, States
<1>2. StateInv'
  BY DEF TypeOK, StateInv, LockInv, TaskPcs, NativePcs, States, Triggering
<1>3. LockInv'
  BY DEF TypeOK, LockInv, StateInv, TaskPcs, NativePcs, States, Triggering
<1>4. ClientInv'
  BY DEF TypeOK, ClientInv, LockInv, TaskPcs, NativePcs, States, Triggering
<1>5. NotifyInv'
  BY DEF TypeOK, NotifyInv, LockInv, ClientInv, TaskPcs, NativePcs, States, Triggering
<1>6. WakeupInv'
  BY DEF TypeOK, WakeupInv, NotifyInv, LockInv, ClientInv, TaskPcs, NativePcs, States, Triggering
<1>7. WaitInv'
  BY DEF TypeOK, WaitInv, ClientInv, StateInv, TaskPcs, NativePcs, States, Triggering
<1>8. MutexInv'
  BY DEF TypeOK, MutexInv, LockInv, ClientInv, TaskPcs, NativePcs, States, Triggering, Granted
<1>9. ~failed'
  OBVIOUS
<1>10. QED  BY <1>1, <1>2, <1>3, <1>4, <1>5, <1>6, <1>7, <1>8, <1>9 DEF IndInv

(* release() returns.                                                      *)
LEMMA EndReleaseKeepsInv ==
    ASSUME IndInv, NEW s \in Syncs, EndRelease(s)
    PROVE  IndInv'
<1> USE DistinctObjects DEF IndInv, EndRelease, objects, locks, control, history, Triggerables, Syncs
<1>1. TypeOK'
  BY DEF TypeOK, TaskPcs, NativePcs, States
<1>2. StateInv'
  BY DEF TypeOK, StateInv, LockInv, TaskPcs, NativePcs, States, Triggering
<1>3. LockInv'
  BY DEF TypeOK, LockInv, StateInv, TaskPcs, NativePcs, States, Triggering
<1>4. ClientInv'
  BY DEF TypeOK, ClientInv, LockInv, TaskPcs, NativePcs, States, Triggering
<1>5. NotifyInv'
  BY DEF TypeOK, NotifyInv, LockInv, ClientInv, TaskPcs, NativePcs, States, Triggering
<1>6. WakeupInv'
  BY DEF TypeOK, WakeupInv, NotifyInv, LockInv, ClientInv, TaskPcs, NativePcs, States, Triggering
<1>7. WaitInv'
  BY DEF TypeOK, WaitInv, ClientInv, StateInv, TaskPcs, NativePcs, States, Triggering
<1>8. MutexInv'
  BY DEF TypeOK, MutexInv, LockInv, ClientInv, TaskPcs, NativePcs, States, Triggering, Granted
<1>9. ~failed'
  OBVIOUS
<1>10. QED  BY <1>1, <1>2, <1>3, <1>4, <1>5, <1>6, <1>7, <1>8, <1>9 DEF IndInv

-----------------------------------------------------------------------------
(* The invariant holds initially.                                          *)
LEMMA InitInv == Init => IndInv
<1>1. SUFFICES ASSUME Init PROVE IndInv
  OBVIOUS
<1>2. <<>> \in Seq(Syncs) /\ <<>> \in Seq(Triggerables)
  OBVIOUS
<1>3. TypeOK
  BY <1>1, <1>2, DistinctObjects
     DEF Init, TypeOK, Syncs, Triggerables, TaskPcs, NativePcs, States
<1>4. StateInv /\ LockInv
  BY <1>1, DistinctObjects DEF Init, StateInv, LockInv, Triggering, Syncs
<1>5. ClientInv /\ NotifyInv /\ WakeupInv /\ WaitInv
  BY <1>1, EmptyList, DistinctObjects
     DEF Init, ClientInv, NotifyInv, WakeupInv, WaitInv, Syncs, Triggerables
<1>6. MutexInv /\ ~failed
  BY <1>1, EmptyList, DistinctObjects DEF Init, MutexInv, Granted, Syncs, Triggerables
<1>7. QED  BY <1>3, <1>4, <1>5, <1>6 DEF IndInv

(* Every step keeps it, provided that no wait list repeats a task.         *)
LEMMA NextKeepsInv ==
    ASSUME DistinctLists, IndInv, [Next]_vars
    PROVE  IndInv'
<1>1. CASE UNCHANGED vars
  BY <1>1 DEF vars, objects, locks, control, history, IndInv, TypeOK, StateInv, LockInv,
     ClientInv, NotifyInv, WakeupInv, WaitInv, MutexInv, Granted
<1>2. CASE Running
  <2>1. PICK s \in Syncs : \/ Call(s) \/ Step(s)
                           \/ s \in Tasks /\ TaskStep(s)
                           \/ s \in Natives /\ SemWait(s)
    BY <1>2 DEF Running
  <2>2. CASE Call(s)
    <3>1. CASE \E t \in Tasks : Spawn(s, t)
      BY <3>1, SpawnKeepsInv
    <3>2. CASE Wait(s)
      <4>1. PICK list \in WaitLists[s] : StartWait(s, list)
        BY <3>2 DEF Wait
      <4>2. list \in Seq(Tasks) /\ IsInjective(list)
        BY WaitListsType DEF DistinctLists
      <4>3. list \in Seq(Triggerables) /\ Range(list) \subseteq Tasks
        BY <4>2 DEF Triggerables, Range
      <4>4. QED  BY <4>1, <4>2, <4>3, StartWaitKeepsInv, DistinctObjects
    <3>3. CASE \E m \in Mutexes : Lock(s, m)
      <4>1. PICK m \in Mutexes : m \notin obtained[s] /\ StartWait(s, <<m>>)
        BY <3>3 DEF Lock, Holds
      <4>2. /\ <<m>> \in Seq(Triggerables)
            /\ Range(<<m>>) = {m} /\ IsInjective(<<m>>)
        BY OneElementList DEF Triggerables
      <4>3. QED  BY <4>1, <4>2, StartWaitKeepsInv
    <3>4. CASE \E m \in Mutexes : Unlock(s, m)
      BY <3>4, UnlockKeepsInv
    <3>5. QED  BY <2>2, <3>1, <3>2, <3>3, <3>4 DEF Call
  <2>3. CASE Step(s)
    BY <2>3, BeginSyncKeepsInv, RegisterKeepsInv, EndSyncNoWaitKeepsInv,
       EndSyncMustWaitKeepsInv, SignalKeepsInv, NotifyTaskKeepsInv,
       NotifyNativeKeepsInv, EndSignalKeepsInv, ReleaseFreeKeepsInv,
       EndReleaseKeepsInv DEF Step
  <2>4. CASE s \in Tasks /\ TaskStep(s)
    BY <2>4, GetNewTaskKeepsInv, ScheduleKeepsInv, YieldKeepsInv, ParkKeepsInv,
       FinishKeepsInv, SetSignaledKeepsInv, EndDoneKeepsInv DEF TaskStep
  <2>5. CASE s \in Natives /\ SemWait(s)
    BY <2>5, SemWaitKeepsInv
  <2>6. QED  BY <2>1, <2>2, <2>3, <2>4, <2>5
<1>3. QED  BY <1>1, <1>2 DEF Next, Terminated

(* The inductive invariant is an invariant.                                *)
THEOREM Inductive ==
    ASSUME DistinctLists
    PROVE  Spec => []IndInv
<1>1. IndInv /\ [Next]_vars => IndInv'
  BY NextKeepsInv
<1>2. QED  BY <1>1, InitInv, PTL DEF Spec

-----------------------------------------------------------------------------
(* The properties, for every instance without repetitions in a list.       *)

(* Every variable of the protocol keeps its type.                          *)
THEOREM TypeCorrect ==
    ASSUME DistinctLists
    PROVE  Spec => []TypeOK
<1>1. IndInv => TypeOK
  BY DEF IndInv
<1>2. QED  BY <1>1, Inductive, PTL

(* No assert() of synchronizable.hpp and task_base.cpp ever fails.         *)
THEOREM AssertionsHold ==
    ASSUME DistinctLists
    PROVE  Spec => []NoAssertFails
<1>1. IndInv => NoAssertFails
  BY DEF IndInv, NoAssertFails
<1>2. QED  BY <1>1, Inductive, PTL

(* When numa::wait has returned, every task it was called for has completed*)
(* and been signalled.                                                     *)
THEOREM WaitIsSound ==
    ASSUME DistinctLists
    PROVE  Spec => []WaitContract
<1>1. IndInv => WaitContract
  BY DEF IndInv, WaitContract, WaitInv, StateInv
<1>2. QED  BY <1>1, Inductive, PTL

(* At most one thread of control holds a numa::Mutex.                      *)
THEOREM MutexExcludes ==
    ASSUME DistinctLists
    PROVE  Spec => []MutualExclusion
<1>1. IndInv => MutualExclusion
  BY DEF IndInv, MutualExclusion, MutexInv, Granted, Holds
<1>2. QED  BY <1>1, Inductive, PTL

(* release() never leaves a waiter behind on a free mutex.                 *)
THEOREM FreeMutexHasNoClients ==
    ASSUME DistinctLists
    PROVE  Spec => []NoClientOfFreeMutex
<1>1. IndInv => NoClientOfFreeMutex
  BY DEF IndInv, NoClientOfFreeMutex, MutexInv
<1>2. QED  BY <1>1, Inductive, PTL

(* Whoever has given up the CPU in wait() is a client of its dependencies  *)
(* or is being notified.                                                   *)
THEOREM WakeupsNotLost ==
    ASSUME DistinctLists
    PROVE  Spec => []NoLostWakeup
<1>1. ASSUME IndInv PROVE NoLostWakeup
  <2>1. SUFFICES ASSUME NEW s \in Syncs, pc[s] \in {"waiting", "sem"}
                 PROVE  /\ \A d \in deps[s] : s \in Range(clients[d])
                        /\ \/ deps[s] # {}
                           \/ \E u \in Syncs : pc[u] = "notify" /\ tgt[u] = s
                           \/ s \in Natives /\ sem[s] > 0
    BY DEF NoLostWakeup
  <2>2. \A d \in deps[s] : s \in Range(clients[d])
    BY <1>1 DEF IndInv, TypeOK, ClientInv
  <2>3. s \in Natives /\ sem[s] # 0 => sem[s] > 0
    BY <1>1 DEF IndInv, TypeOK
  <2>4. QED  BY <1>1, <2>1, <2>2, <2>3 DEF IndInv, WakeupInv
<1>2. QED  BY <1>1, Inductive, PTL

(* A completed task has no client and is nobody's dependency: it can be    *)
(* destroyed.                                                              *)
THEOREM CompletedCanBeDestroyed ==
    ASSUME DistinctLists
    PROVE  Spec => []CompletedHasNoClients
<1>1. ASSUME IndInv PROVE CompletedHasNoClients
  <2>1. \A t \in Tasks : pc[t] = "end" => clients[t] = <<>>
    BY <1>1 DEF IndInv, ClientInv
  <2>2. \A t \in Tasks, s \in Syncs : clients[t] = <<>> => t \notin deps[s]
    BY <1>1, EmptyList DEF IndInv, ClientInv, Triggerables
  <2>3. QED  BY <2>1, <2>2 DEF CompletedHasNoClients
<1>2. QED  BY <1>1, Inductive, PTL

-----------------------------------------------------------------------------
(* The refinement of WaitService.                                          *)

(* A step that leaves the service's state alone.                           *)
Silent ==
    /\ UNCHANGED <<signaled, waiting, obtained>>
    /\ \A t \in Tasks : pc'[t] = "done" => pc[t] = "done"

(* Which steps of the protocol are steps of the service.                   *)
LEMMA StepKinds ==
    ASSUME IndInv, [Next]_vars
    PROVE  \/ Silent
           \/ \E s \in Syncs : Wait(s)
           \/ \E s \in Syncs, m \in Mutexes : Lock(s, m) \/ Unlock(s, m)
           \/ \E t \in Tasks : Schedule(t) \/ Finish(t) \/ SetSignaled(t)
           \/ \E s \in Syncs : EndSyncNoWait(s)
           \/ \E n \in Natives : SemWait(n)
<1>1. CASE UNCHANGED vars
  BY <1>1 DEF vars, objects, control, history, Silent
<1>2. CASE Running
  <2>1. PICK s \in Syncs : \/ Call(s) \/ Step(s)
                           \/ s \in Tasks /\ TaskStep(s)
                           \/ s \in Natives /\ SemWait(s)
    BY <1>2 DEF Running
  <2>2. CASE \E t \in Tasks : Spawn(s, t)
    BY <2>2 DEF Spawn, history, Silent, IndInv, TypeOK
  <2>3. pc \in [Syncs -> TaskPcs \cup NativePcs] /\ Tasks \subseteq Syncs
    BY DEF IndInv, TypeOK, Syncs
  <2>10. CASE BeginSync(s)
    BY <2>10, <2>3 DEF BeginSync, objects, history, Silent
  <2>11. CASE Register(s)
    BY <2>11, <2>3 DEF Register, history, Silent
  <2>12. CASE EndSyncMustWait(s)
    BY <2>12, <2>3 DEF EndSyncMustWait, objects, history, Silent
  <2>13. CASE Signal(s)
    BY <2>13, <2>3 DEF Signal, AfterSignal, history, Silent
  <2>14. CASE NotifyTask(s)
    BY <2>14, <2>3 DEF NotifyTask, history, Silent
  <2>15. CASE NotifyNative(s)
    BY <2>15, <2>3 DEF NotifyNative, history, Silent
  <2>16. CASE EndSignal(s)
    BY <2>16, <2>3 DEF EndSignal, AfterSignal, objects, history, Silent
  <2>17. CASE ReleaseFree(s)
    BY <2>17, <2>3 DEF ReleaseFree, history, Silent
  <2>18. CASE EndRelease(s)
    BY <2>18, <2>3 DEF EndRelease, objects, history, Silent
  <2>19. CASE s \in Tasks /\ GetNewTask(s)
    BY <2>19, <2>3 DEF GetNewTask, objects, history, Silent
  <2>20. CASE s \in Tasks /\ Yield(s)
    BY <2>20, <2>3 DEF Yield, history, Silent
  <2>21. CASE s \in Tasks /\ Park(s)
    BY <2>21, <2>3 DEF Park, history, Silent
  <2>22. CASE s \in Tasks /\ EndDone(s)
    BY <2>22, <2>3 DEF EndDone, objects, history, Silent
  <2>23. QED
    BY <2>1, <2>2, <2>10, <2>11, <2>12, <2>13, <2>14, <2>15, <2>16, <2>17, <2>18, <2>19, <2>20, <2>21, <2>22
       DEF Call, Step, TaskStep
<1>3. QED  BY <1>1, <1>2 DEF Next, Terminated

(* The history part of the invariant is kept by every step.                *)
LEMMA HistoryInvKept ==
    ASSUME IndInv, HistoryInv, [Next]_vars
    PROVE  HistoryInv'
<1>1. CASE Silent
  BY <1>1 DEF Silent, HistoryInv
<1>2. ASSUME NEW s \in Syncs, Wait(s) PROVE HistoryInv'
  <2>1. PICK list \in WaitLists[s] : StartWait(s, list)
    BY <1>2 DEF Wait
  <2>2. Range(list) \subseteq Tasks
    BY WaitListsType DEF Range
  <2>3. QED  BY <2>1, <2>2, DistinctObjects DEF StartWait, HistoryInv, IndInv, TypeOK
<1>3. ASSUME NEW s \in Syncs, NEW m \in Mutexes, Lock(s, m) PROVE HistoryInv'
  <2>1. StartWait(s, <<m>>) /\ m \notin obtained[s] /\ Range(<<m>>) = {m}
    BY <1>3, OneElementList DEF Lock, Holds
  <2>2. waiting' = [waiting EXCEPT ![s] = {m}] /\ UNCHANGED obtained
        /\ pc' = [pc EXCEPT ![s] = "sync"]
    BY <2>1 DEF StartWait
  <2>3. QED  BY <2>1, <2>2 DEF HistoryInv, IndInv, TypeOK
<1>4. ASSUME NEW s \in Syncs, NEW m \in Mutexes, Unlock(s, m) PROVE HistoryInv'
  BY <1>4 DEF Unlock, HistoryInv, IndInv, TypeOK
<1>5. ASSUME NEW t \in Tasks, Schedule(t) PROVE HistoryInv'
  BY <1>5 DEF Schedule, WaitReturns, HistoryInv, IndInv, TypeOK, Syncs
<1>6. ASSUME NEW t \in Tasks, Finish(t) PROVE HistoryInv'
  BY <1>6 DEF Finish, Holds, history, HistoryInv, IndInv, TypeOK, Syncs
<1>7. ASSUME NEW t \in Tasks, SetSignaled(t) PROVE HistoryInv'
  BY <1>7 DEF SetSignaled, history, HistoryInv, IndInv, TypeOK, Syncs
<1>8. ASSUME NEW s \in Syncs, EndSyncNoWait(s) PROVE HistoryInv'
  BY <1>8 DEF EndSyncNoWait, WaitReturns, HistoryInv, IndInv, TypeOK
<1>9. ASSUME NEW n \in Natives, SemWait(n) PROVE HistoryInv'
  BY <1>9 DEF SemWait, WaitReturns, HistoryInv, IndInv, TypeOK, Syncs
<1>10. QED  BY <1>1, <1>2, <1>3, <1>4, <1>5, <1>6, <1>7, <1>8, <1>9, StepKinds

(* A return from numa::wait is a step of the service, or invisible when    *)
(* the task was not waiting.                                               *)
LEMMA ReturnRefines ==
    ASSUME IndInv, HistoryInv, NEW s \in Syncs, WaitReturns(s), UNCHANGED signaled,
           deps[s] = {}, refs[s] = <<>>
    PROVE  Service!ServiceNext \/ UNCHANGED Service!svars
<1>1. CASE waiting[s] = {}
  <2>1. obtained' = obtained /\ waiting' = waiting
    BY <1>1 DEF WaitReturns, IndInv, TypeOK
  <2>2. QED  BY <2>1 DEF Service!svars
<1>2. CASE waiting[s] # {}
  <2>1. Range(refs[s]) = {}
    BY EmptyList
  <2>2. waiting[s] \cap Tasks \subseteq {t \in Tasks : signaled[t]}
    BY <2>1 DEF IndInv, WaitInv
  <2>3. \A m \in waiting[s] \cap Mutexes : Granted(s, m) /\ m \notin obtained[s]
    BY <2>1 DEF Granted, HistoryInv
  <2>4. \A m \in waiting[s] \cap Mutexes, u \in Syncs : m \notin obtained[u]
    BY <2>3 DEF IndInv, MutexInv, Granted
  <2>5. Service!ReturnWait(s)
    BY <1>2, <2>2, <2>4 DEF Service!ReturnWait, WaitReturns, Service!Waiters, Syncs
  <2>6. QED  BY <2>5 DEF Service!ServiceNext, Service!Waiters, Syncs
<1>3. QED  BY <1>1, <1>2

(* A call of numa::wait or Mutex::lock is a step of the service.           *)
LEMMA CallRefines ==
    ASSUME IndInv, NEW s \in Syncs, NEW list, StartWait(s, list), Range(list) # {},
           \/ Range(list) \subseteq Tasks
           \/ \E m \in Mutexes : m \notin obtained[s] /\ Range(list) = {m}
    PROVE  Service!ServiceNext
<1>1. pc[s] = "run" /\ waiting[s] = {}
  BY DEF StartWait, IndInv, WaitInv
<1>2. s \notin {t \in Tasks : signaled[t]}
  BY <1>1, DistinctObjects DEF IndInv, StateInv, LockInv, Triggering
<1>3. waiting' = [waiting EXCEPT ![s] = Range(list)] /\ UNCHANGED <<signaled, obtained>>
  BY DEF StartWait, objects
<1>4. Service!CallWait(s, Range(list))
  BY <1>1, <1>2, <1>3 DEF Service!CallWait
<1>5. Range(list) \in SUBSET (Tasks \cup Mutexes)
  OBVIOUS
<1>6. QED  BY <1>4, <1>5 DEF Service!ServiceNext, Service!Waiters, Syncs

(* Every step of the protocol is a step of the service or invisible to it. *)
LEMMA NextRefines ==
    ASSUME IndInv, HistoryInv, [Next]_vars
    PROVE  Service!ServiceNext \/ UNCHANGED Service!svars
<1>1. CASE Silent
  BY <1>1 DEF Silent, Service!svars
<1>2. ASSUME NEW s \in Syncs, Wait(s) PROVE Service!ServiceNext
  <2>1. PICK list \in WaitLists[s] : list # <<>> /\ StartWait(s, list)
    BY <1>2 DEF Wait
  <2>2. list \in Seq(Tasks) /\ Range(list) \subseteq Tasks
    BY WaitListsType DEF Range
  <2>3. Range(list) # {}
    BY <2>1, <2>2, RangeHeadTail
  <2>4. QED  BY <2>1, <2>2, <2>3, CallRefines
<1>3. ASSUME NEW s \in Syncs, NEW m \in Mutexes, Lock(s, m) PROVE Service!ServiceNext
  <2>1. StartWait(s, <<m>>) /\ m \notin obtained[s] /\ Range(<<m>>) = {m}
    BY <1>3, OneElementList DEF Lock, Holds
  <2>2. QED  BY <2>1, CallRefines
<1>4. ASSUME NEW s \in Syncs, NEW m \in Mutexes, Unlock(s, m) PROVE Service!ServiceNext
  <2>1. Service!ReleaseMutex(s, m)
    BY <1>4 DEF Unlock, Holds, objects, Service!ReleaseMutex, IndInv, WaitInv
  <2>2. QED  BY <2>1 DEF Service!ServiceNext, Service!Waiters, Syncs
<1>5. ASSUME NEW t \in Tasks, Schedule(t) PROVE Service!ServiceNext \/ UNCHANGED Service!svars
  <2>1. t \in Syncs /\ WaitReturns(t) /\ UNCHANGED signaled /\ pc[t] = "sched"
    BY <1>5 DEF Schedule, Syncs
  <2>2. deps[t] = {} /\ refs[t] = <<>>
    BY <2>1 DEF IndInv, ClientInv
  <2>3. QED  BY <2>1, <2>2, ReturnRefines
<1>6. ASSUME NEW t \in Tasks, Finish(t) PROVE UNCHANGED Service!svars
  BY <1>6 DEF Finish, history, Service!svars
<1>7. ASSUME NEW t \in Tasks, SetSignaled(t) PROVE Service!ServiceNext
  <2>1. pc[t] = "done" /\ signaled' = [signaled EXCEPT ![t] = TRUE]
        /\ UNCHANGED <<waiting, obtained>>
    BY <1>7 DEF SetSignaled, history
  <2>2. trig[t] = None
    BY <2>1 DEF IndInv, LockInv, Triggering, Syncs
  <2>3. ~signaled[t]
    BY <2>1, <2>2, DistinctObjects DEF IndInv, StateInv
  <2>4. waiting[t] = {} /\ obtained[t] \cap Mutexes = {}
    BY <2>1 DEF IndInv, WaitInv, HistoryInv, Syncs
  <2>5. {u \in Tasks : signaled'[u]} = {u \in Tasks : signaled[u]} \cup {t}
    BY <2>1 DEF IndInv, TypeOK
  <2>6. Service!FinishTask(t)
    BY <2>1, <2>3, <2>4, <2>5 DEF Service!FinishTask
  <2>7. QED  BY <2>6 DEF Service!ServiceNext
<1>8. ASSUME NEW s \in Syncs, EndSyncNoWait(s)
      PROVE  Service!ServiceNext \/ UNCHANGED Service!svars
  BY <1>8, ReturnRefines DEF EndSyncNoWait, objects
<1>9. ASSUME NEW n \in Natives, SemWait(n) PROVE Service!ServiceNext \/ UNCHANGED Service!svars
  <2>1. n \in Syncs /\ WaitReturns(n) /\ UNCHANGED signaled /\ pc[n] = "sem" /\ sem[n] > 0
    BY <1>9 DEF SemWait, Syncs
  <2>2. sem[n] # 0
    BY <2>1 DEF IndInv, TypeOK
  <2>3. deps[n] = {}
    BY <2>2 DEF IndInv, NotifyInv
  <2>4. refs[n] = <<>>
    BY <2>1 DEF IndInv, ClientInv
  <2>5. QED  BY <2>1, <2>3, <2>4, ReturnRefines
<1>10. QED  BY <1>1, <1>2, <1>3, <1>4, <1>5, <1>6, <1>7, <1>8, <1>9, StepKinds

(* The protocol of locks, client lists and queues implements the service   *)
(* that tasking.hpp and mutex.hpp offer.                                   *)
THEOREM Refinement ==
    ASSUME DistinctLists
    PROVE  Spec => ImplementsWaitService
<1>1. Init => HistoryInv
  BY DistinctObjects DEF Init, HistoryInv, Syncs
<1>2. Init => Service!ServiceInit
  BY DEF Init, Service!ServiceInit, Service!Waiters, Syncs
<1>3. IndInv /\ HistoryInv /\ [Next]_vars => HistoryInv'
  BY HistoryInvKept
<1>4. IndInv /\ HistoryInv /\ [Next]_vars => [Service!ServiceNext]_(Service!svars)
  BY NextRefines
<1>5. QED  BY <1>1, <1>2, <1>3, <1>4, Inductive, PTL
     DEF Spec, ImplementsWaitService, Service!ServiceSpec
=============================================================================
