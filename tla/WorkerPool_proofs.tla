-------------------------- MODULE WorkerPool_proofs -------------------------
(***************************************************************************)
(* The proofs about WorkerPool: no context is in use twice, and no sleeper *)
(* of waitForTask is forgotten, for any number of cores, tasks, contexts   *)
(* and native threads, and for every way to resize and destroy the pool.   *)
(***************************************************************************)
EXTENDS WorkerPool, SequenceFacts, FiniteSetTheorems, TLAPS

-----------------------------------------------------------------------------
(* The inductive invariant.                                                *)

(* A worker calls put_task and taskAvailable at two places only, and       *)
(* taskAvailable owes wakeups only after its exchange.                     *)
CallInv ==
    \A u \in Callers :
        /\ call[u].left > 0 => call[u].step = "post"
        /\ u \in Cores /\ call[u].step # "none" => wpc[u] \in {"spawning", "yielding"}

(* The workers inside sem_timedwait.                                       *)
Sleepers == {c \in Cores : wpc[c] = "sleep"}

(* The counter, the semaphore and the wakeups under way together are       *)
(* within the bound, and enough for all who sleep.                         *)
WakeInv ==
    /\ IsFiniteSet(Wakeups)
    /\ count + sem + Pending <= setup.maxWaits
    /\ Cardinality(Sleepers) <= count + Pending + sem

(* Which workers are there: a core without a registered worker has no      *)
(* running one, except while the pool joins it.                            *)
LifeInv ==
    \A c \in Cores :
        /\ wpc[c] # "off" =>
               c \in registered \/ (admin.op = "join" /\ admin.core = c) \/ BeingDestroyed
        /\ thread[c] = "TERMINATED" => wpc[c] = "off"
        /\ curCtx[c] = None <=> wpc[c] \in {"off", "run"}
        /\ wpc[c] = "run" => cur[c] = None
        /\ wpc[c] \in {"yielding", "sched", "exec", "spawning", "ids"} => cur[c] # None

(* The worker executes its task.                                           *)
Busy(c) == wpc[c] \in {"exec", "spawning", "ids"}

(* The task belongs to the worker: it runs on it, has just been dropped by *)
(* it, or is going to run.                                                 *)
Has(c, t) == cur[c] = t /\ wpc[c] \in {"loop", "sched", "exec", "spawning", "ids"}

(* The task is on its way into the queues.                                 *)
Putting(u, t) == call[u].step # "none" /\ call[u].task = t

(* A task is with one worker, or in one put_task, or in the queues.        *)
TaskInv ==
    /\ \A c, d \in Cores, t \in Tasks : Has(c, t) /\ Has(d, t) => c = d
    /\ \A c \in Cores, t \in Tasks : Has(c, t) =>
           /\ t \notin queue
           /\ tstate[t] = "RUNNING" \/ (wpc[c] = "sched" /\ tstate[t] \in {"READY", "SUSPENDED"})
    /\ \A c \in Cores, u \in Callers, t \in Tasks : ~(Has(c, t) /\ Putting(u, t))
    /\ \A u, v \in Callers, t \in Tasks : Putting(u, t) /\ Putting(v, t) => u = v
    /\ \A u \in Callers, t \in Tasks : Putting(u, t) =>
           t \notin queue /\ tstate[t] \in {"READY", "SUSPENDED"}
    /\ \A t \in queue : tstate[t] \in {"READY", "SUSPENDED"}

(* Where a context is: the current one of one worker, or with one          *)
(* interrupted task, or once in one of the lists of neutral contexts.      *)
ContextInv ==
    /\ \A c \in Cores : Busy(c) => ctx[cur[c]] = curCtx[c]
    /\ \A c, d \in Cores : curCtx[c] # None /\ curCtx[c] = curCtx[d] => c = d
    /\ \A c, d \in Cores : curCtx[c] \notin Range(ready[d])
    /\ \A c \in Cores : curCtx[c] \notin Range(cache)
    /\ \A c \in Cores : IsInjective(ready[c])
    /\ \A c, d \in Cores : Range(ready[c]) \cap Range(ready[d]) # {} => c = d
    /\ \A c \in Cores : Range(ready[c]) \cap Range(cache) = {}
    /\ IsInjective(cache)
    /\ \A t \in Tasks, x \in Contexts : Holds(t, x) =>
           /\ \A c \in Cores : curCtx[c] # x /\ x \notin Range(ready[c])
           /\ x \notin Range(cache)
    /\ \A s, t \in Tasks, x \in Contexts : Holds(s, x) /\ Holds(t, x) => s = t

(* The inductive invariant, TLC-checked on the instance of the run pool.   *)
IndInv == TypeOK /\ CallInv /\ WakeInv /\ LifeInv /\ TaskInv /\ ContextInv

-----------------------------------------------------------------------------
(* What a step leaves alone.                                               *)

(* There are finitely many cores.                                          *)
LEMMA CoresAreFinite == IsFiniteSet(Cores) /\ Cardinality(Cores) = NumCores
BY PoolConstants, FS_Interval DEF Cores

(* A step that registers nobody as waiting and wakes nobody.               *)
LEMMA SameWakeups ==
    ASSUME TypeOK, WakeInv, setup' = setup, count' = count, sem' = sem,
           \A u \in Callers : call'[u].left = call[u].left,
           \A c \in Cores : wpc'[c] = "sleep" => wpc[c] = "sleep"
    PROVE  WakeInv'
<1>1. Wakeups' = Wakeups
  BY DEF Wakeups
<1>2. Cardinality(Sleepers') <= Cardinality(Sleepers)
  <2>1. Sleepers' \subseteq Sleepers /\ Sleepers \subseteq Cores
    BY DEF Sleepers
  <2>2. QED  BY <2>1, CoresAreFinite, FS_Subset
<1>3. Cardinality(Sleepers) \in Nat /\ Cardinality(Sleepers') \in Nat
  BY CoresAreFinite, FS_Subset, FS_CardinalityType DEF Sleepers
<1>4. Pending \in Nat
  BY FS_CardinalityType DEF WakeInv, Pending
<1>5. count \in Nat /\ sem \in Nat
  BY PoolConstants DEF TypeOK
<1>6. Pending' = Pending
  BY <1>1 DEF Pending
<1>7. QED  BY <1>1, <1>2, <1>3, <1>4, <1>5, <1>6 DEF WakeInv

(* A step in which no worker starts or stops executing a task, and no      *)
(* context changes hands.                                                  *)
LEMMA SameContexts ==
    ASSUME ContextInv, UNCHANGED contexts,
           \A c \in Cores : Busy(c)' <=> Busy(c),
           \A c \in Cores : Busy(c) => cur'[c] = cur[c],
           \A t \in Tasks : tstate'[t] = "COMPLETED" <=> tstate[t] = "COMPLETED"
    PROVE  ContextInv'
<1>1. \A t \in Tasks : Executing(t)' <=> Executing(t)
  BY DEF Executing, Busy
<1>2. \A t \in Tasks, x \in Contexts : Holds(t, x)' <=> Holds(t, x)
  BY <1>1 DEF Holds, contexts
<1>3. QED  BY <1>2 DEF ContextInv, contexts

(* A step that moves no task.                                              *)
LEMMA SameTasks ==
    ASSUME TaskInv, UNCHANGED <<tstate, queue>>,
           \A c \in Cores, t \in Tasks : Has(c, t)' =>
               Has(c, t) /\ (wpc[c] = "sched" => wpc'[c] = "sched"),
           \A u \in Callers, t \in Tasks : Putting(u, t)' => Putting(u, t)
    PROVE  TaskInv'
BY DEF TaskInv

(* A step of one worker that only goes on in the loop or in its task.      *)
LEMMA WorkerGoesOn ==
    ASSUME IndInv, setup' = setup, NEW c \in Cores, NEW to,
           wpc' = [wpc EXCEPT ![c] = to],
           \/ wpc[c] = "loop" /\ to \in {"exit", "get"}
           \/ wpc[c] = "get" /\ to = "exit"
           \/ wpc[c] = "backoff" /\ to = "get"
           \/ wpc[c] = "spawning" /\ call[c] = NoCall /\ to = "exec"
           \/ wpc[c] = "exec" /\ to = "ids"
           \/ wpc[c] = "ids" /\ to = "exec",
           calls' \in [Tasks -> 0 .. MaxCalls],
           UNCHANGED <<workers, cur, drop, contexts, tstate, queue, call, sleep, lock, admin>>
    PROVE  IndInv'
<1> USE PoolConstants DEF IndInv, workers, contexts, sleep
<1>1. TypeOK'
  BY DEF TypeOK
<1>2. CallInv'
  BY DEF TypeOK, CallInv, NoCall
<1>3. WakeInv'
  <2>1. \A d \in Cores : wpc'[d] = "sleep" => wpc[d] = "sleep"
    BY DEF TypeOK
  <2>2. QED  BY <2>1, SameWakeups
<1>4. LifeInv'
  BY SMTT(30) DEF TypeOK, LifeInv, BeingDestroyed
<1>5. TaskInv'
  <2>1. \A d \in Cores, t \in Tasks : Has(d, t)' =>
            Has(d, t) /\ (wpc[d] = "sched" => wpc'[d] = "sched")
    BY DEF TypeOK, Has
  <2>2. \A u \in Callers, t \in Tasks : Putting(u, t)' => Putting(u, t)
    BY DEF Putting
  <2>3. QED  BY <2>1, <2>2, SameTasks
<1>6. ContextInv'
  <2>1. \A d \in Cores : Busy(d)' <=> Busy(d)
    BY DEF TypeOK, Busy
  <2>2. QED  BY <2>1, SameContexts
<1>7. QED  BY <1>1, <1>2, <1>3, <1>4, <1>5, <1>6

-----------------------------------------------------------------------------
(* put_task and taskAvailable.                                             *)

(* Where a worker may be.                                                  *)
Points == {"off", "run", "loop", "yielding", "get", "backoff", "sleep",
           "sched", "exec", "spawning", "ids", "exit"}

(* Where a task may be.                                                    *)
TaskStates == {"NEW", "READY", "RUNNING", "WAITING", "SUSPENDED", "COMPLETED"}

(* The type of the calls of put_task, which most steps leave alone.        *)
CallType ==
    call \in [Callers -> [step : {"none", "load", "exchange", "post", "put"},
                          task : Tasks \cup {None}, left : 0 .. setup.maxWaits]]

(* taskAvailable looks at the counter.                                     *)
LEMMA LoadKeepsInv ==
    ASSUME IndInv, setup' = setup, NEW u \in Callers, Load(u)
    PROVE  IndInv'
<1> USE PoolConstants DEF IndInv, Load, workers, loop, contexts, tasks, sleep
<1>0. /\ call \in [Callers -> [step : {"none", "load", "exchange", "post", "put"},
                              task : Tasks \cup {None}, left : 0 .. setup.maxWaits]]
      /\ \A v \in Callers : call'[v].left = call[v].left /\ call'[v].task = call[v].task
      /\ \A v \in Callers : v # u => call'[v] = call[v]
      /\ call[u].step = "load" /\ call'[u].step \in {"exchange", "put"}
  BY DEF TypeOK
<1>1. TypeOK'
  <2>1. CallType'
    BY <1>0 DEF CallType
  <2>2. QED  BY <2>1 DEF TypeOK, CallType
<1>2. CallInv'
  BY <1>0 DEF CallInv
<1>3. WakeInv'
  BY <1>0, SameWakeups
<1>4. LifeInv'
  BY DEF LifeInv, BeingDestroyed
<1>5. TaskInv'
  <2>1. \A v \in Callers, t \in Tasks : Putting(v, t)' => Putting(v, t)
    BY <1>0 DEF Putting
  <2>2. \A c \in Cores, t \in Tasks : Has(c, t)' => Has(c, t)
    BY DEF Has
  <2>3. QED  BY <2>1, <2>2, SameTasks
<1>6. ContextInv'
  BY SameContexts DEF Busy
<1>7. QED  BY <1>1, <1>2, <1>3, <1>4, <1>5, <1>6

(* The wakeups that the calls k owe.                                       *)
WakeupsIn(k) == UNION {{v} \X (1 .. k[v].left) : v \in Callers}

(* The wakeups that one caller owes.                                       *)
LEMMA WakeupsOf ==
    ASSUME NEW u, NEW n \in Nat
    PROVE  IsFiniteSet({u} \X (1 .. n)) /\ Cardinality({u} \X (1 .. n)) = n
<1>1. IsFiniteSet({u}) /\ Cardinality({u}) = 1
  BY FS_Singleton
<1>2. IsFiniteSet(1 .. n) /\ Cardinality(1 .. n) = n
  BY FS_Interval
<1> DEFINE I == 1 .. n
<1> HIDE DEF I
<1>3. IsFiniteSet({u} \X I) /\ Cardinality({u} \X I) = Cardinality({u}) * Cardinality(I)
  BY <1>1, <1>2, FS_Product DEF I
<1>4. QED  BY <1>1, <1>2, <1>3 DEF I

(* When one caller owes more or fewer wakeups than before, there are as    *)
(* many more or fewer under way.                                           *)
LEMMA WakeupsChange ==
    ASSUME NEW k1, NEW k2, NEW u \in Callers,
           k1[u].left \in Nat, k2[u].left \in Nat,
           \A v \in Callers : v # u => k2[v].left = k1[v].left,
           IsFiniteSet(WakeupsIn(k1))
    PROVE  /\ IsFiniteSet(WakeupsIn(k2))
           /\ Cardinality(WakeupsIn(k2)) =
                  Cardinality(WakeupsIn(k1)) - k1[u].left + k2[u].left
<1> DEFINE Others == UNION {{v} \X (1 .. k1[v].left) : v \in Callers \ {u}}
           Mine(n) == {u} \X (1 .. n)
<1>1. WakeupsIn(k1) = Others \cup Mine(k1[u].left)
  BY DEF WakeupsIn
<1>2. WakeupsIn(k2) = Others \cup Mine(k2[u].left)
  BY DEF WakeupsIn
<1>3. \A n \in Nat : Others \cap Mine(n) = {}
  OBVIOUS
<1>4. \A n \in Nat : IsFiniteSet(Mine(n)) /\ Cardinality(Mine(n)) = n
  BY WakeupsOf
<1> HIDE DEF Others, Mine
<1>5. IsFiniteSet(Others)
  BY <1>1, FS_Subset
<1>6. \A n \in Nat : /\ IsFiniteSet(Others \cup Mine(n))
                     /\ Cardinality(Others \cup Mine(n)) = Cardinality(Others) + n
  <2>1. Cardinality(Others) \in Nat
    BY <1>5, FS_CardinalityType
  <2>2. SUFFICES ASSUME NEW n \in Nat
                 PROVE  /\ IsFiniteSet(Others \cup Mine(n))
                        /\ Cardinality(Others \cup Mine(n)) = Cardinality(Others) + n
    OBVIOUS
  <2>3. /\ IsFiniteSet(Others \cup Mine(n))
        /\ Cardinality(Others \cup Mine(n)) =
               Cardinality(Others) + Cardinality(Mine(n)) - Cardinality(Others \cap Mine(n))
    BY <1>4, <1>5, FS_Union
  <2>4. Cardinality(Others \cap Mine(n)) = 0
    BY <1>3, FS_EmptySet
  <2>5. QED  BY <1>4, <2>1, <2>3, <2>4
<1>7. Cardinality(Others) \in Nat
  BY <1>5, FS_CardinalityType
<1>8. /\ Cardinality(WakeupsIn(k1)) = Cardinality(Others) + k1[u].left
      /\ IsFiniteSet(WakeupsIn(k2))
      /\ Cardinality(WakeupsIn(k2)) = Cardinality(Others) + k2[u].left
  BY <1>1, <1>2, <1>6
<1>9. QED  BY <1>7, <1>8

(* The sleepers are finitely many.                                         *)
LEMMA SleepersCounted ==
    IsFiniteSet(Sleepers) /\ Cardinality(Sleepers) \in Nat
BY CoresAreFinite, FS_Subset, FS_CardinalityType DEF Sleepers

(* A step of taskAvailable: what the counter loses, the wakeups under way  *)
(* gain, and what they lose, the semaphore gains.                          *)
LEMMA WakeupsPassedOn ==
    ASSUME TypeOK, WakeInv, setup' = setup, NEW u \in Callers,
           call[u].left \in Nat, call'[u].left \in Nat, count' \in Nat, sem' \in Nat,
           \A v \in Callers : v # u => call'[v].left = call[v].left,
           count' + sem' + call'[u].left = count + sem + call[u].left,
           wpc' = wpc
    PROVE  WakeInv'
<1>1. Wakeups = WakeupsIn(call) /\ Wakeups' = WakeupsIn(call')
  BY DEF Wakeups, WakeupsIn
<1>2. IsFiniteSet(Wakeups') /\ Pending' = Pending - call[u].left + call'[u].left
  BY <1>1, WakeupsChange DEF WakeInv, Pending
<1>3. Sleepers' = Sleepers
  BY DEF Sleepers
<1>4. Pending \in Nat /\ count \in Nat /\ sem \in Nat /\ setup.maxWaits \in Nat
  BY PoolConstants, FS_CardinalityType DEF WakeInv, Pending, TypeOK
<1>5. count' + Pending' + sem' = count + Pending + sem
  BY <1>2, <1>4
<1>6. QED  BY <1>2, <1>3, <1>4, <1>5, SleepersCounted DEF WakeInv

(* taskAvailable takes over the whole counter and owes as many wakeups.    *)
LEMMA ExchangeKeepsInv ==
    ASSUME IndInv, setup' = setup, NEW u \in Callers, Exchange(u)
    PROVE  IndInv'
<1> USE PoolConstants DEF IndInv, Exchange, WakeAll, workers, loop, contexts, tasks
<1>0. /\ CallType /\ call[u].step = "exchange" /\ call[u].left = 0
      /\ call'[u].step = "post" /\ call'[u].left = count /\ call'[u].task = call[u].task
      /\ \A v \in Callers : v # u => call'[v] = call[v]
      /\ call' = [call EXCEPT ![u] = [step |-> "post", task |-> call[u].task, left |-> count]]
      /\ count \in 0 .. setup.maxWaits /\ sem \in Nat /\ setup.maxWaits \in Nat
  <2>1. CallType /\ count \in 0 .. setup.maxWaits /\ sem \in Nat /\ setup.maxWaits \in Nat
    BY DEF TypeOK, CallType
  <2>2. call[u].step = "exchange" /\ call[u].left = 0
    BY <2>1 DEF CallInv, CallType
  <2>3. call' = [call EXCEPT ![u] = [step |-> "post", task |-> call[u].task, left |-> count]]
    BY <2>1 DEF CallType
  <2>4. QED  BY <2>1, <2>2, <2>3 DEF CallType
<1>1. TypeOK'
  <2>1. CallType'
    <3>1. call' = [call EXCEPT ![u] = [step |-> "post", task |-> call[u].task, left |-> count]]
      BY <1>0
    <3>2. [step |-> "post", task |-> call[u].task, left |-> count] \in
              [step : {"none", "load", "exchange", "post", "put"},
               task : Tasks \cup {None}, left : 0 .. setup.maxWaits]
      BY <1>0 DEF CallType
    <3>3. QED  BY <1>0, <3>1, <3>2 DEF CallType
  <2>2. QED  BY <1>0, <2>1 DEF TypeOK, CallType
<1>2. CallInv'
  BY <1>0 DEF CallInv
<1>3. WakeInv'
  <2>1. count' = 0 /\ sem' = sem /\ wpc' = wpc
    OBVIOUS
  <2> HIDE DEF Exchange
  <2>2. count' + sem' + call'[u].left = count + sem + call[u].left
    BY <1>0, <2>1
  <2>3. QED  BY <1>0, <2>1, <2>2, WakeupsPassedOn
<1>4. LifeInv'
  BY DEF LifeInv, BeingDestroyed
<1>5. TaskInv'
  <2>1. \A v \in Callers, t \in Tasks : Putting(v, t)' => Putting(v, t)
    BY <1>0 DEF Putting
  <2>2. \A c \in Cores, t \in Tasks : Has(c, t)' => Has(c, t)
    BY DEF Has
  <2>3. QED  BY <2>1, <2>2, SameTasks
<1>6. ContextInv'
  BY SameContexts DEF Busy
<1>7. QED  BY <1>1, <1>2, <1>3, <1>4, <1>5, <1>6

(* It posts the semaphore, or has done so often enough.                    *)
LEMMA PostKeepsInv ==
    ASSUME IndInv, setup' = setup, NEW u \in Callers, Post(u)
    PROVE  IndInv'
<1> USE PoolConstants DEF IndInv, Post, workers, loop, contexts, tasks
<1>0. /\ CallType /\ call[u].step = "post"
      /\ call'[u].task = call[u].task
      /\ \A v \in Callers : v # u => call'[v] = call[v]
      /\ count \in Nat /\ sem \in Nat /\ setup.maxWaits \in Nat
      /\ call[u].left \in Nat /\ count' = count
      /\ \/ call[u].left > 0 /\ call'[u].left = call[u].left - 1 /\ sem' = sem + 1
            /\ call'[u].step = "post"
         \/ call[u].left = 0 /\ call'[u].left = 0 /\ sem' = sem /\ call'[u].step = "put"
  BY DEF TypeOK, CallType
<1>3. WakeInv'
  BY <1>0, WakeupsPassedOn
<1>1. TypeOK'
  <2>1. CallType'
    <3>1. call' = [call EXCEPT ![u] = [step |-> call'[u].step, task |-> call[u].task,
                                       left |-> call'[u].left]]
      BY <1>0 DEF CallType
    <3>2. call'[u].left \in 0 .. setup.maxWaits /\ call'[u].step \in {"post", "put"}
      BY <1>0 DEF CallType
    <3>3. QED  BY <1>0, <3>1, <3>2 DEF CallType
  <2>2. sem' \in 0 .. setup.maxWaits
    <3>1. sem' \in Nat /\ setup' \in Setups
      BY <1>0 DEF TypeOK
    <3>2. Pending' \in Nat
      BY <1>3, FS_CardinalityType DEF WakeInv, Pending
    <3>3. QED  BY <1>0, <1>3, <3>1, <3>2 DEF WakeInv
  <2>3. QED  BY <1>0, <2>1, <2>2 DEF TypeOK, CallType
<1>2. CallInv'
  BY <1>0 DEF CallInv
<1>4. LifeInv'
  BY DEF LifeInv, BeingDestroyed
<1>5. TaskInv'
  <2>1. \A v \in Callers, t \in Tasks : Putting(v, t)' => Putting(v, t)
    BY <1>0 DEF Putting
  <2>2. \A c \in Cores, t \in Tasks : Has(c, t)' => Has(c, t)
    BY DEF Has
  <2>3. QED  BY <2>1, <2>2, SameTasks
<1>6. ContextInv'
  BY SameContexts DEF Busy
<1>7. QED  BY <1>1, <1>2, <1>3, <1>4, <1>5, <1>6

(* The task of the call is now in the queues, and in no call.              *)
LEMMA PutKeepsInv ==
    ASSUME IndInv, setup' = setup, NEW u \in Callers, Put(u)
    PROVE  IndInv'
<1> USE PoolConstants DEF IndInv, Put, workers, loop, contexts, sleep
<1>0. /\ CallType /\ call[u].step = "put" /\ call[u].left = 0
      /\ call[u].task \in Tasks \cup {None} /\ None \notin Tasks
      /\ call'[u] = NoCall /\ \A v \in Callers : v # u => call'[v] = call[v]
  <2>1. CallType
    BY DEF TypeOK, CallType
  <2>2. call[u].step = "put" /\ call[u].left = 0
    BY <2>1 DEF CallInv, CallType
  <2>3. QED  BY <2>1, <2>2 DEF CallType
<1>1. TypeOK'
  <2>1. CallType'
    <3>1. NoCall \in [step : {"none", "load", "exchange", "post", "put"},
                      task : Tasks \cup {None}, left : 0 .. setup.maxWaits]
      BY DEF NoCall, TypeOK
    <3>2. QED  BY <1>0, <3>1 DEF CallType
  <2>2. queue' \subseteq Tasks
    BY <1>0 DEF TypeOK
  <2>3. QED  BY <2>1, <2>2 DEF TypeOK, CallType
<1>2. CallInv'
  BY <1>0 DEF CallInv, NoCall
<1>3. WakeInv'
  BY <1>0, SameWakeups DEF NoCall
<1>4. LifeInv'
  BY DEF LifeInv, BeingDestroyed
<1>5. TaskInv'
  <2>1. \A t \in Tasks : ~Putting(u, t)'
    BY <1>0 DEF Putting, NoCall
  <2>2. \A v \in Callers, t \in Tasks : v # u => (Putting(v, t)' <=> Putting(v, t))
    BY <1>0 DEF Putting
  <2>3. \A c \in Cores, t \in Tasks : Has(c, t)' <=> Has(c, t)
    BY DEF Has
  <2>4. \A t \in Tasks : t \in queue' <=> t \in queue \/ Putting(u, t)
    BY <1>0 DEF Putting
  <2>5. tstate' = tstate /\ wpc' = wpc /\ queue' \subseteq Tasks
    BY <1>1 DEF TypeOK
  <2> HIDE DEF Put
  <2>6. QED  BY <2>1, <2>2, <2>3, <2>4, <2>5 DEF TaskInv
<1>6. ContextInv'
  BY SameContexts DEF Busy
<1>7. QED  BY <1>1, <1>2, <1>3, <1>4, <1>5, <1>6

(* A call of put_task begins.                                              *)
LEMMA BeginPutEffect ==
    ASSUME TypeOK, setup' = setup, NEW u \in Callers, NEW t \in Tasks \cup {None},
           BeginPut(u, t)
    PROVE  /\ CallType'
           /\ call'[u].step = "load" /\ call'[u].task = t /\ call'[u].left = 0
           /\ \A v \in Callers : v # u => call'[v] = call[v]
<1>1. call' = [call EXCEPT ![u] = [step |-> "load", task |-> t, left |-> 0]]
  BY DEF BeginPut, NoCall
<1>2. setup.maxWaits \in Nat /\ CallType
  BY PoolConstants DEF TypeOK, CallType
<1>3. QED  BY <1>1, <1>2 DEF CallType

(* User code only calls the pool when it is in no other call of it.        *)
LEMMA UserCode ==
    ASSUME IndInv, NEW u \in Natives \cup Cores, InUserCode(u)
    PROVE  /\ u \in Callers /\ call[u].step = "none" /\ call[u].left = 0
           /\ u \in Cores => /\ wpc[u] = "exec" /\ cur[u] \in Tasks /\ Has(u, cur[u])
                             /\ curCtx[u] \in Contexts /\ ctx[cur[u]] = curCtx[u]
                             /\ tstate[cur[u]] = "RUNNING"
<1> USE DEF IndInv
<1>1. u \in Callers /\ call[u].step = "none" /\ call[u].left = 0
  BY DEF Callers, InUserCode, NoCall
<1>2. ASSUME u \in Cores
      PROVE  wpc[u] = "exec" /\ cur[u] \in Tasks /\ Has(u, cur[u]) /\ curCtx[u] \in Contexts
  BY <1>2 DEF InUserCode, TypeOK, LifeInv, Has
<1>3. ASSUME u \in Cores
      PROVE  ctx[cur[u]] = curCtx[u] /\ tstate[cur[u]] = "RUNNING"
  BY <1>2, <1>3 DEF ContextInv, TaskInv, Busy
<1>4. QED  BY <1>1, <1>2, <1>3

(* A worker that spawns or notifies a task waits for the call to return;   *)
(* it goes on executing its task.                                          *)
LEMMA AwaitCallEffect ==
    ASSUME IndInv, NEW u \in Natives \cup Cores, InUserCode(u), AwaitCall(u)
    PROVE  /\ wpc' \in [Cores -> Points]
           /\ \A c \in Cores : c # u => wpc'[c] = wpc[c]
           /\ u \in Cores => wpc[u] = "exec" /\ wpc'[u] = "spawning"
BY ZenonT(30), PoolConstants DEF IndInv, TypeOK, Points, AwaitCall, InUserCode

(* A new task, or one whose dependencies are satisfied, is with nobody;    *)
(* spawn_task and notify put it into one call.                             *)
LEMMA SpawnLocalKeepsInv ==
    ASSUME IndInv, setup' = setup, NEW u \in Natives \cup Cores, NEW t \in Tasks,
           SpawnLocal(u, t)
    PROVE  IndInv'
<1> USE PoolConstants DEF IndInv, SpawnLocal, Points, TaskStates, workers, contexts, sleep
<1>0. /\ CallType'
      /\ call'[u].step = "load" /\ call'[u].task = t /\ call'[u].left = 0
      /\ \A v \in Callers : v # u => call'[v] = call[v]
      /\ u \in Callers /\ call[u].step = "none" /\ call[u].left = 0
  BY BeginPutEffect, UserCode
<1>w. /\ wpc' \in [Cores -> Points]
      /\ \A c \in Cores : c # u => wpc'[c] = wpc[c]
      /\ u \in Cores => wpc[u] = "exec" /\ wpc'[u] = "spawning"
  BY AwaitCallEffect
<1>t. /\ tstate \in [Tasks -> TaskStates]
      /\ tstate[t] \in {"NEW", "WAITING"} /\ tstate'[t] \in {"READY", "SUSPENDED"}
      /\ \A s \in Tasks : s # t => tstate'[s] = tstate[s]
      /\ tstate' \in [Tasks -> TaskStates]
  <2>1. tstate \in [Tasks -> TaskStates]
    BY DEF TypeOK
  <2>2. \/ tstate[t] = "NEW" /\ tstate' = [tstate EXCEPT ![t] = "READY"]
        \/ tstate[t] = "WAITING" /\ tstate' = [tstate EXCEPT ![t] = "SUSPENDED"]
    OBVIOUS
  <2>3. "READY" \in TaskStates /\ "SUSPENDED" \in TaskStates
    OBVIOUS
  <2> HIDE DEF TaskStates
  <2>4. QED  BY ONLY <2>1, <2>2, <2>3, t \in Tasks
<1> HIDE DEF SpawnLocal
<1>f. UNCHANGED <<workers, cur, drop, contexts, queue, calls, sleep, lock, admin>>
  BY DEF SpawnLocal
<1>1. TypeOK'
  BY <1>0, <1>w, <1>t, <1>f DEF TypeOK, CallType
<1>2. CallInv'
  BY <1>0, <1>w DEF CallInv
<1>3. WakeInv'
  BY <1>0, <1>w, <1>f, SameWakeups
<1>4. LifeInv'
  BY <1>w, <1>f DEF LifeInv, BeingDestroyed
<1>5. TaskInv'
  <2>1. \A c \in Cores, s \in Tasks : Has(c, s)' <=> Has(c, s)
    BY <1>w, <1>f DEF Has
  <2>2. \A v \in Callers, s \in Tasks : v # u => (Putting(v, s)' <=> Putting(v, s))
    BY <1>0 DEF Putting
  <2>3. \A s \in Tasks : ~Putting(u, s) /\ (Putting(u, s)' <=> s = t)
    BY <1>0 DEF Putting
  <2>4. /\ \A c \in Cores : ~Has(c, t)
        /\ \A v \in Callers : ~Putting(v, t)
        /\ t \notin queue
    BY <1>t DEF TaskInv
  <2>5. \A c \in Cores : wpc[c] = "sched" => wpc'[c] = "sched"
    BY <1>w
  <2>6. queue' = queue /\ queue \subseteq Tasks /\ TaskInv
    BY <1>f DEF TypeOK
  <2> HIDE DEF IndInv
  <2>7. QED  BY <1>t, <2>1, <2>2, <2>3, <2>4, <2>5, <2>6 DEF TaskInv
<1>6. ContextInv'
  BY <1>w, <1>t, <1>f, SameContexts DEF Busy
<1>7. QED  BY <1>1, <1>2, <1>3, <1>4, <1>5, <1>6

(* A task for the global domain is in the queues before anybody is woken.  *)
LEMMA SpawnGlobalKeepsInv ==
    ASSUME IndInv, setup' = setup, NEW u \in Natives \cup Cores, NEW t \in Tasks,
           SpawnGlobal(u, t)
    PROVE  IndInv'
<1> USE PoolConstants DEF IndInv, SpawnGlobal, Points, TaskStates, workers, contexts, sleep
<1>0. /\ CallType'
      /\ call'[u].step = "load" /\ call'[u].task = None /\ call'[u].left = 0
      /\ \A v \in Callers : v # u => call'[v] = call[v]
      /\ u \in Callers /\ call[u].step = "none" /\ call[u].left = 0
  BY BeginPutEffect, UserCode
<1>w. /\ wpc' \in [Cores -> Points]
      /\ \A c \in Cores : c # u => wpc'[c] = wpc[c]
      /\ u \in Cores => wpc[u] = "exec" /\ wpc'[u] = "spawning"
  BY AwaitCallEffect
<1>t. /\ tstate \in [Tasks -> TaskStates]
      /\ tstate[t] = "NEW" /\ tstate'[t] = "READY"
      /\ \A s \in Tasks : s # t => tstate'[s] = tstate[s]
      /\ tstate' \in [Tasks -> TaskStates]
      /\ queue' = queue \cup {t}
  BY DEF TypeOK
<1> HIDE DEF SpawnGlobal
<1>f. UNCHANGED <<workers, cur, drop, contexts, calls, sleep, lock, admin>>
  BY DEF SpawnGlobal
<1>1. TypeOK'
  BY <1>0, <1>w, <1>t, <1>f DEF TypeOK, CallType
<1>2. CallInv'
  BY <1>0, <1>w DEF CallInv
<1>3. WakeInv'
  BY <1>0, <1>w, <1>f, SameWakeups
<1>4. LifeInv'
  BY <1>w, <1>f DEF LifeInv, BeingDestroyed
<1>5. TaskInv'
  <2>1. \A c \in Cores, s \in Tasks : Has(c, s)' <=> Has(c, s)
    BY <1>w, <1>f DEF Has
  <2>2. \A v \in Callers, s \in Tasks : v # u => (Putting(v, s)' <=> Putting(v, s))
    BY <1>0 DEF Putting
  <2>3. \A s \in Tasks : ~Putting(u, s) /\ ~Putting(u, s)'
    BY <1>0 DEF Putting
  <2>4. /\ \A c \in Cores : ~Has(c, t)
        /\ \A v \in Callers : ~Putting(v, t)
    BY <1>t DEF TaskInv
  <2>5. \A c \in Cores : wpc[c] = "sched" => wpc'[c] = "sched"
    BY <1>w
  <2>6. queue \subseteq Tasks /\ TaskInv
    BY DEF TypeOK
  <2> HIDE DEF IndInv
  <2>7. QED  BY <1>t, <2>1, <2>2, <2>3, <2>4, <2>5, <2>6 DEF TaskInv
<1>6. ContextInv'
  BY <1>w, <1>t, <1>f, SameContexts DEF Busy
<1>7. QED  BY <1>1, <1>2, <1>3, <1>4, <1>5, <1>6

-----------------------------------------------------------------------------
(* The loop of a worker.                                                   *)

(* A task that was dropped to yield goes from its worker into put_task.    *)
LEMMA LoopYieldKeepsInv ==
    ASSUME IndInv, setup' = setup, NEW c \in Cores, LoopYield(c)
    PROVE  IndInv'
<1> USE PoolConstants DEF IndInv, LoopYield, Points, TaskStates, workers, contexts, sleep
<1> DEFINE t == cur[c]
<1>0. /\ t \in Tasks /\ Has(c, t) /\ tstate[t] = "RUNNING" /\ c \in Callers
      /\ call[c].step = "none" /\ call[c].left = 0
  <2>1. t \in Tasks /\ Has(c, t) /\ c \in Callers
    BY DEF TypeOK, Has, Callers
  <2>2. tstate[t] = "RUNNING"
    BY <2>1 DEF TaskInv
  <2>3. call[c].step = "none"
    BY <2>1 DEF CallInv
  <2>4. call[c].left = 0
    <3>1. call[c].left \in 0 .. setup.maxWaits /\ setup.maxWaits \in Nat
      BY <2>1 DEF TypeOK
    <3>2. ~(call[c].left > 0)
      BY <2>1, <2>3 DEF CallInv
    <3>3. QED  BY <3>1, <3>2
  <2>5. QED  BY <2>1, <2>2, <2>3, <2>4
<1>c. /\ CallType'
      /\ call'[c].step = "load" /\ call'[c].task = t /\ call'[c].left = 0
      /\ \A v \in Callers : v # c => call'[v] = call[v]
  BY <1>0, BeginPutEffect
<1>w. /\ wpc' \in [Cores -> Points] /\ wpc[c] = "loop" /\ wpc'[c] = "yielding"
      /\ \A d \in Cores : d # c => wpc'[d] = wpc[d]
  BY DEF TypeOK
<1>t. /\ tstate' \in [Tasks -> TaskStates] /\ tstate'[t] = "SUSPENDED"
      /\ \A s \in Tasks : s # t => tstate'[s] = tstate[s]
  BY <1>0 DEF TypeOK
<1>f. UNCHANGED <<workers, cur, drop, contexts, queue, calls, sleep, lock, admin>>
  OBVIOUS
<1> HIDE DEF LoopYield, t
<1>1. TypeOK'
  BY <1>c, <1>w, <1>t, <1>f DEF TypeOK, CallType
<1>2. CallInv'
  BY <1>c, <1>w DEF CallInv
<1>3. WakeInv'
  BY <1>0, <1>c, <1>w, <1>f, SameWakeups
<1>4. LifeInv'
  BY <1>0, <1>w, <1>f DEF LifeInv, BeingDestroyed, t, TypeOK
<1>5. TaskInv'
  <2>1. \A d \in Cores, s \in Tasks : Has(d, s)' <=> Has(d, s) /\ d # c
    BY <1>w, <1>f DEF Has
  <2>2. \A v \in Callers, s \in Tasks : v # c => (Putting(v, s)' <=> Putting(v, s))
    BY <1>c DEF Putting
  <2>3. \A s \in Tasks : ~Putting(c, s) /\ (Putting(c, s)' <=> s = t)
    BY <1>0, <1>c DEF Putting
  <2>4. t \notin queue /\ \A v \in Callers : ~Putting(v, t)
    BY <1>0 DEF TaskInv
  <2>5. \A d \in Cores : Has(d, t) => d = c
    BY <1>0 DEF TaskInv
  <2>6. \A d \in Cores : wpc[d] = "sched" => wpc'[d] = "sched"
    BY <1>w
  <2>7. queue' = queue /\ queue \subseteq Tasks /\ TaskInv
    BY <1>f DEF TypeOK
  <2> HIDE DEF IndInv
  <2>8. QED  BY <1>0, <1>t, <2>1, <2>2, <2>3, <2>4, <2>5, <2>6, <2>7 DEF TaskInv
<1>6. ContextInv'
  BY <1>0, <1>w, <1>t, <1>f, SameContexts DEF Busy
<1>7. QED  BY <1>1, <1>2, <1>3, <1>4, <1>5, <1>6

(* When put_task has returned, the worker forgets the task.                *)
LEMMA YieldReturnsKeepsInv ==
    ASSUME IndInv, setup' = setup, NEW c \in Cores, YieldReturns(c)
    PROVE  IndInv'
<1> USE PoolConstants DEF IndInv, YieldReturns, Points, workers, contexts, tasks, sleep
<1>w. /\ wpc' \in [Cores -> Points] /\ wpc[c] = "yielding" /\ wpc'[c] = "get"
      /\ \A d \in Cores : d # c => wpc'[d] = wpc[d] /\ cur'[d] = cur[d]
      /\ cur' \in [Cores -> Tasks \cup {None}]
  BY DEF TypeOK
<1>1. TypeOK'
  BY <1>w DEF TypeOK
<1>2. CallInv'
  BY <1>w DEF CallInv, NoCall
<1>3. WakeInv'
  BY <1>w, SameWakeups
<1>4. LifeInv'
  BY <1>w DEF LifeInv, BeingDestroyed
<1>5. TaskInv'
  <2>1. \A d \in Cores, s \in Tasks : Has(d, s)' =>
            Has(d, s) /\ (wpc[d] = "sched" => wpc'[d] = "sched")
    BY <1>w DEF Has
  <2>2. \A v \in Callers, s \in Tasks : Putting(v, s)' => Putting(v, s)
    BY DEF Putting
  <2>3. QED  BY <2>1, <2>2, SameTasks
<1>6. ContextInv'
  BY <1>w, SameContexts DEF Busy
<1>7. QED  BY <1>1, <1>2, <1>3, <1>4, <1>5, <1>6

(* A task that was dropped to wait is now with nobody, or resumed at once. *)
LEMMA LoopWaitKeepsInv ==
    ASSUME IndInv, setup' = setup, NEW c \in Cores, LoopWait(c)
    PROVE  IndInv'
<1> USE PoolConstants DEF IndInv, LoopWait, Points, TaskStates, workers, contexts, sleep
<1> DEFINE t == cur[c]
<1>0. t \in Tasks /\ Has(c, t) /\ tstate[t] = "RUNNING"
  <2>1. t \in Tasks /\ Has(c, t)
    BY DEF TypeOK, Has
  <2>2. QED  BY <2>1 DEF TaskInv
<1>w. /\ wpc' \in [Cores -> Points] /\ wpc[c] = "loop"
      /\ \A d \in Cores : d # c => wpc'[d] = wpc[d] /\ cur'[d] = cur[d]
      /\ cur' \in [Cores -> Tasks \cup {None}]
      /\ \/ wpc'[c] = "get" /\ tstate'[t] \in TaskStates \ {"COMPLETED"}
         \/ wpc'[c] = "sched" /\ tstate'[t] = "RUNNING" /\ cur'[c] = t
      /\ tstate' \in [Tasks -> TaskStates]
      /\ \A s \in Tasks : s # t => tstate'[s] = tstate[s]
  <2>1. wpc[c] = "loop" /\ TypeOK /\ None \notin Tasks
    OBVIOUS
  <2>2. CASE /\ tstate' = [tstate EXCEPT ![cur[c]] = "WAITING"]
             /\ cur' = [cur EXCEPT ![c] = None]
             /\ wpc' = [wpc EXCEPT ![c] = "get"]
    BY <1>0, <2>1, <2>2 DEF TypeOK
  <2>3. CASE wpc' = [wpc EXCEPT ![c] = "sched"] /\ UNCHANGED <<tstate, cur>>
    BY <1>0, <2>1, <2>3 DEF TypeOK
  <2>4. QED  BY <2>2, <2>3
<1>f. UNCHANGED <<workers, drop, contexts, queue, calls, call, sleep, lock, admin>>
  OBVIOUS
<1> HIDE DEF LoopWait, t
<1>1. TypeOK'
  BY <1>w, <1>f DEF TypeOK
<1>2. CallInv'
  BY <1>w, <1>f DEF CallInv
<1>3. WakeInv'
  BY <1>w, <1>f, SameWakeups
<1>4. LifeInv'
  BY <1>0, <1>w, <1>f DEF LifeInv, BeingDestroyed
<1>5. TaskInv'
  <2>1. \A d \in Cores, s \in Tasks : Has(d, s)' =>
            Has(d, s) /\ (d = c => wpc'[c] = "sched" /\ s = t)
    BY <1>0, <1>w DEF Has
  <2>2. \A v \in Callers, s \in Tasks : Putting(v, s)' <=> Putting(v, s)
    BY <1>f DEF Putting
  <2>3. t \notin queue /\ \A v \in Callers : ~Putting(v, t)
    BY <1>0 DEF TaskInv
  <2>4. \A d \in Cores : Has(d, t) => d = c
    BY <1>0 DEF TaskInv
  <2>5. \A d \in Cores : d # c => wpc'[d] = wpc[d]
    BY <1>w
  <2>6. queue' = queue /\ queue \subseteq Tasks /\ TaskInv
    BY <1>f DEF TypeOK
  <2>7. /\ \A s \in Tasks : s # t => tstate'[s] = tstate[s]
        /\ wpc'[c] = "sched" => tstate'[t] = "RUNNING"
    BY <1>w
  <2> HIDE DEF IndInv
  <2>8. QED  BY <1>0, <2>1, <2>2, <2>3, <2>4, <2>5, <2>6, <2>7 DEF TaskInv
<1>6. ContextInv'
  BY <1>0, <1>w, <1>f, SameContexts DEF Busy
<1>7. QED  BY <1>1, <1>2, <1>3, <1>4, <1>5, <1>6

(* A task goes from the queues to one worker.                              *)
LEMMA GetNewTaskKeepsInv ==
    ASSUME IndInv, setup' = setup, NEW c \in Cores, GetNewTask(c)
    PROVE  IndInv'
<1> USE PoolConstants DEF IndInv, Points, TaskStates, workers, contexts, sleep
<1> DEFINE Moved ==
      /\ wpc' \in [Cores -> Points] /\ wpc[c] = "get" /\ wpc'[c] \in {"sched", "backoff"}
      /\ \A d \in Cores : d # c => wpc'[d] = wpc[d] /\ cur'[d] = cur[d]
      /\ cur' \in [Cores -> Tasks \cup {None}]
      /\ queue' \subseteq queue /\ queue \subseteq Tasks
      /\ wpc'[c] = "sched" =>
             cur'[c] \in queue /\ cur'[c] \in Tasks /\ queue' = queue \ {cur'[c]}
<1>w. Moved
  <2>1. TypeOK /\ wpc[c] = "get" /\ None \notin Tasks
    BY DEF GetNewTask
  <2>2. ASSUME NEW t \in queue, queue' = queue \ {t}, cur' = [cur EXCEPT ![c] = t],
               wpc' = [wpc EXCEPT ![c] = "sched"]
        PROVE  Moved
    BY <2>1, <2>2 DEF TypeOK
  <2>3. CASE wpc' = [wpc EXCEPT ![c] = "backoff"] /\ UNCHANGED <<queue, cur>>
    BY <2>1, <2>3 DEF TypeOK
  <2> HIDE DEF Moved, IndInv
  <2>4. QED  BY <2>2, <2>3 DEF GetNewTask
<1>f. UNCHANGED <<workers, drop, contexts, tstate, calls, call, sleep, lock, admin>>
  BY DEF GetNewTask
<1>1. TypeOK'
  BY <1>w, <1>f DEF TypeOK
<1>2. CallInv'
  BY <1>w, <1>f DEF CallInv
<1>3. WakeInv'
  BY <1>w, <1>f, SameWakeups
<1>4. LifeInv'
  BY <1>w, <1>f DEF LifeInv, BeingDestroyed
<1>5. TaskInv'
  <2>1. \A d \in Cores, s \in Tasks : d # c => (Has(d, s)' <=> Has(d, s))
    BY <1>w DEF Has
  <2>2. \A s \in Tasks : Has(c, s)' =>
            wpc'[c] = "sched" /\ s \in queue /\ queue' = queue \ {s}
    BY <1>w DEF Has
  <2>3. \A v \in Callers, s \in Tasks : Putting(v, s)' <=> Putting(v, s)
    BY <1>f DEF Putting
  <2>4. \A d \in Cores : d # c => wpc'[d] = wpc[d]
    BY <1>w
  <2>5. queue' \subseteq queue /\ queue \subseteq Tasks /\ tstate' = tstate /\ TaskInv
    BY <1>w, <1>f
  <2>6. \A s \in Tasks : cur[c] = s => ~Has(c, s)
    BY <1>w DEF Has
  <2> HIDE DEF IndInv
  <2>7. QED  BY <2>1, <2>2, <2>3, <2>4, <2>5, <2>6 DEF TaskInv
<1>6. ContextInv'
  BY <1>w, <1>f, SameContexts DEF Busy
<1>7. QED  BY <1>1, <1>2, <1>3, <1>4, <1>5, <1>6

(* waitForTask: one more sleeper, and one more in the counter.             *)
LEMMA WaitForTaskKeepsInv ==
    ASSUME IndInv, setup' = setup, NEW c \in Cores, WaitForTask(c)
    PROVE  IndInv'
<1> USE PoolConstants DEF IndInv, WaitForTask, Points, workers, contexts, tasks
<1>w. /\ wpc' \in [Cores -> Points] /\ wpc[c] = "backoff" /\ wpc'[c] = "sleep"
      /\ \A d \in Cores : d # c => wpc'[d] = wpc[d]
  BY DEF TypeOK
<1>n. /\ Pending \in Nat /\ count \in Nat /\ sem \in Nat /\ setup.maxWaits \in Nat
      /\ count' = count + 1 /\ count + sem + Pending < setup.maxWaits
  BY FS_CardinalityType DEF WakeInv, Pending, TypeOK
<1>1. TypeOK'
  <2>1. count' \in 0 .. setup.maxWaits
    BY <1>n
  <2>2. QED  BY <1>w, <2>1 DEF TypeOK
<1>2. CallInv'
  BY <1>w DEF CallInv
<1>3. WakeInv'
  <2>1. Wakeups' = Wakeups
    BY DEF Wakeups
  <2>2. Pending' = Pending /\ IsFiniteSet(Wakeups')
    BY <2>1 DEF Pending, WakeInv
  <2>3. Sleepers' = Sleepers \cup {c} /\ c \notin Sleepers
    BY <1>w DEF Sleepers
  <2>4. Cardinality(Sleepers') = Cardinality(Sleepers) + 1
    BY <2>3, SleepersCounted, FS_AddElement
  <2>5. Cardinality(Sleepers) <= count + Pending + sem
    BY DEF WakeInv
  <2> HIDE DEF IndInv
  <2>6. Cardinality(Sleepers') <= count' + Pending' + sem
    BY <1>n, <2>2, <2>4, <2>5, SleepersCounted
  <2>7. QED  BY <1>n, <2>2, <2>6 DEF WakeInv
<1>4. LifeInv'
  BY <1>w DEF LifeInv, BeingDestroyed
<1>5. TaskInv'
  <2>1. \A d \in Cores, s \in Tasks : Has(d, s)' =>
            Has(d, s) /\ (wpc[d] = "sched" => wpc'[d] = "sched")
    BY <1>w DEF Has
  <2>2. \A v \in Callers, s \in Tasks : Putting(v, s)' => Putting(v, s)
    BY DEF Putting
  <2>3. QED  BY <2>1, <2>2, SameTasks
<1>6. ContextInv'
  BY <1>w, SameContexts DEF Busy
<1>7. QED  BY <1>1, <1>2, <1>3, <1>4, <1>5, <1>6

(* The sleeper goes, and takes at most one post of the semaphore.          *)
LEMMA WakeUpKeepsInv ==
    ASSUME IndInv, setup' = setup, NEW c \in Cores, WakeUp(c)
    PROVE  IndInv'
<1> USE PoolConstants DEF IndInv, WakeUp, TimedWait, Points, workers, contexts, tasks
<1>w. /\ wpc' \in [Cores -> Points] /\ wpc[c] = "sleep" /\ wpc'[c] = "get"
      /\ \A d \in Cores : d # c => wpc'[d] = wpc[d]
  BY DEF TypeOK
<1>n. /\ Pending \in Nat /\ count \in Nat /\ sem \in Nat /\ setup.maxWaits \in Nat
      /\ count + sem + Pending <= setup.maxWaits
      /\ sem' \in Nat /\ (sem' = sem \/ sem' = sem - 1)
  BY FS_CardinalityType DEF WakeInv, Pending, TypeOK
<1>1. TypeOK'
  <2>1. sem' \in 0 .. setup.maxWaits
    BY <1>n
  <2>2. QED  BY <1>w, <2>1 DEF TypeOK
<1>2. CallInv'
  BY <1>w DEF CallInv
<1>3. WakeInv'
  <2>1. Wakeups' = Wakeups
    BY DEF Wakeups
  <2>2. Pending' = Pending /\ IsFiniteSet(Wakeups') /\ count' = count
    BY <2>1 DEF Pending, WakeInv
  <2>3. Sleepers' = Sleepers \ {c} /\ c \in Sleepers
    BY <1>w DEF Sleepers
  <2>4. Cardinality(Sleepers') = Cardinality(Sleepers) - 1
    BY <2>3, SleepersCounted, FS_RemoveElement
  <2>5. Cardinality(Sleepers) <= count + Pending + sem
    BY DEF WakeInv
  <2> HIDE DEF IndInv, WakeUp
  <2>6. Cardinality(Sleepers') <= count + Pending + sem'
    BY <1>n, <2>4, <2>5, SleepersCounted
  <2>7. QED  BY <1>n, <2>2, <2>6 DEF WakeInv
<1>4. LifeInv'
  BY <1>w DEF LifeInv, BeingDestroyed
<1>5. TaskInv'
  <2>1. \A d \in Cores, s \in Tasks : Has(d, s)' =>
            Has(d, s) /\ (wpc[d] = "sched" => wpc'[d] = "sched")
    BY <1>w DEF Has
  <2>2. \A v \in Callers, s \in Tasks : Putting(v, s)' => Putting(v, s)
    BY DEF Putting
  <2>3. QED  BY <2>1, <2>2, SameTasks
<1>6. ContextInv'
  BY <1>w, SameContexts DEF Busy
<1>7. QED  BY <1>1, <1>2, <1>3, <1>4, <1>5, <1>6

-----------------------------------------------------------------------------
(* Switching contexts.                                                     *)

(* What get_neutral_context returns, and what it leaves.                   *)
TookNeutral(c) ==
    /\ curCtx' \in [Cores -> Contexts \cup {None}] /\ ready' \in [Cores -> Seq(Contexts)]
    /\ cache' \in Seq(Contexts) /\ curCtx'[c] \in Contexts
    /\ \A d \in Cores : d # c => curCtx'[d] = curCtx[d] /\ ready'[d] = ready[d]
    /\ Range(ready'[c]) \subseteq Range(ready[c]) /\ IsInjective(ready'[c])
    /\ Range(cache') \subseteq Range(cache) /\ IsInjective(cache')
    /\ \A d \in Cores : curCtx[d] # curCtx'[c] /\ curCtx'[c] \notin Range(ready'[d])
    /\ curCtx'[c] \notin Range(cache')
    /\ \A t \in Tasks : ~Holds(t, curCtx'[c])

(* The neutral context that a worker gets is nobody's current context, no  *)
(* task is interrupted on it, and it is in no list any more.               *)
LEMMA NeutralIsFree ==
    ASSUME TypeOK, ContextInv, NEW c \in Cores, TakeNeutral(c)
    PROVE  TookNeutral(c)
<1>0. /\ curCtx \in [Cores -> Contexts \cup {None}] /\ ready \in [Cores -> Seq(Contexts)]
      /\ cache \in Seq(Contexts)
  BY DEF TypeOK
<1>1. ASSUME ready[c] # <<>>, curCtx' = [curCtx EXCEPT ![c] = Last(ready[c])],
             ready' = [ready EXCEPT ![c] = PopBack(@)], UNCHANGED cache
      PROVE  TookNeutral(c)
  <2> DEFINE q == ready[c]
             front == SubSeq(q, 1, Len(q) - 1)
             x == q[Len(q)]
  <2>1. curCtx' = [curCtx EXCEPT ![c] = x] /\ ready' = [ready EXCEPT ![c] = front]
    BY <1>1 DEF Last, PopBack, Front
  <2>2. q \in Seq(Contexts) /\ q # <<>> /\ IsInjective(q)
    BY <1>0, <1>1 DEF ContextInv
  <2> HIDE DEF q
  <2>3. /\ x \in Contexts /\ front \in Seq(Contexts) /\ Range(q) = Range(front) \cup {x}
        /\ IsInjective(front) /\ x \notin Range(front)
    BY <2>2, RangeFrontLast, InjectiveFront
  <2> HIDE DEF front, x
  <2>4. /\ curCtx'[c] = x /\ ready'[c] = front
        /\ \A d \in Cores : d # c => curCtx'[d] = curCtx[d] /\ ready'[d] = ready[d]
        /\ curCtx' \in [Cores -> Contexts \cup {None}] /\ ready' \in [Cores -> Seq(Contexts)]
    BY <1>0, <2>1, <2>3
  <2>5. x \in Range(ready[c])
    BY <2>3 DEF q
  <2>6. /\ \A d \in Cores : curCtx[d] # x
        /\ \A d \in Cores : d # c => x \notin Range(ready[d])
        /\ x \notin Range(cache) /\ \A t \in Tasks : ~Holds(t, x)
    BY <2>3, <2>5 DEF ContextInv
  <2>7. IsInjective(cache)
    BY DEF ContextInv
  <2>8. QED  BY <1>0, <1>1, <2>3, <2>4, <2>6, <2>7 DEF TookNeutral, q
<1>2. ASSUME cache # <<>>, curCtx' = [curCtx EXCEPT ![c] = Last(cache)],
             cache' = PopBack(cache), UNCHANGED ready
      PROVE  TookNeutral(c)
  <2> DEFINE front == SubSeq(cache, 1, Len(cache) - 1)
             x == cache[Len(cache)]
  <2>1. curCtx' = [curCtx EXCEPT ![c] = x] /\ cache' = front
    BY <1>2 DEF Last, PopBack, Front
  <2>2. IsInjective(cache) /\ \A d \in Cores : IsInjective(ready[d])
    BY DEF ContextInv
  <2>3. /\ x \in Contexts /\ front \in Seq(Contexts) /\ Range(cache) = Range(front) \cup {x}
        /\ IsInjective(front) /\ x \notin Range(front)
    BY <1>0, <1>2, <2>2, RangeFrontLast, InjectiveFront
  <2> HIDE DEF front, x
  <2>4. /\ curCtx'[c] = x
        /\ \A d \in Cores : d # c => curCtx'[d] = curCtx[d]
        /\ curCtx' \in [Cores -> Contexts \cup {None}]
    BY <1>0, <2>1, <2>3
  <2>5. x \in Range(cache)
    BY <2>3
  <2>6. /\ \A d \in Cores : curCtx[d] # x /\ x \notin Range(ready[d])
        /\ \A t \in Tasks : ~Holds(t, x)
    BY <2>3, <2>5 DEF ContextInv
  <2>7. QED  BY <1>0, <1>2, <2>1, <2>2, <2>3, <2>4, <2>6 DEF TookNeutral
<1>3. ASSUME NEW x \in Contexts, Unused(x), curCtx' = [curCtx EXCEPT ![c] = x],
             UNCHANGED <<ready, cache>>
      PROVE  TookNeutral(c)
  <2>1. \A t \in Tasks : ~Holds(t, x)
    BY <1>3 DEF Unused, Holds
  <2>2. IsInjective(cache) /\ \A d \in Cores : IsInjective(ready[d])
    BY DEF ContextInv
  <2>3. QED  BY <1>0, <1>3, <2>1, <2>2 DEF TookNeutral, Unused
<1>4. QED  BY <1>1, <1>2, <1>3 DEF TakeNeutral

(* A worker that takes a neutral context leaves its current one to the     *)
(* task that it has been executing, if any.                                *)
LEMMA NeutralKeepsContexts ==
    ASSUME TypeOK, ContextInv, NEW c \in Cores, TakeNeutral(c), ctx' = ctx,
           ~Busy(c)',
           \A d \in Cores : d # c => (Busy(d)' <=> Busy(d)) /\ cur'[d] = cur[d],
           \A s \in Tasks, x \in Contexts :
               Holds(s, x)' => Holds(s, x) \/ (s = cur[c] /\ x = curCtx[c])
    PROVE  ContextInv'
<1>0. TookNeutral(c)
  BY NeutralIsFree
<1>1. \A d \in Cores : Busy(d)' => ctx'[cur'[d]] = curCtx'[d]
  BY <1>0 DEF ContextInv, TookNeutral
<1>2. \A d, e \in Cores : curCtx'[d] # None /\ curCtx'[d] = curCtx'[e] => d = e
  BY <1>0 DEF ContextInv, TookNeutral
<1>3. \A d \in Cores : Range(ready'[d]) \subseteq Range(ready[d]) /\ IsInjective(ready'[d])
  BY <1>0 DEF ContextInv, TookNeutral
<1>4. \A d, e \in Cores : curCtx'[d] \notin Range(ready'[e])
  BY <1>0, <1>3 DEF ContextInv, TookNeutral
<1>5. \A d \in Cores : curCtx'[d] \notin Range(cache')
  BY <1>0 DEF ContextInv, TookNeutral
<1>6. /\ \A d, e \in Cores : Range(ready'[d]) \cap Range(ready'[e]) # {} => d = e
      /\ \A d \in Cores : Range(ready'[d]) \cap Range(cache') = {}
      /\ IsInjective(cache')
  <2>1. /\ \A d, e \in Cores : Range(ready[d]) \cap Range(ready[e]) # {} => d = e
        /\ \A d \in Cores : Range(ready[d]) \cap Range(cache) = {}
    BY DEF ContextInv
  <2>2. QED  BY <1>0, <1>3, <2>1 DEF TookNeutral
<1>7. ASSUME NEW s \in Tasks, NEW x \in Contexts, Holds(s, x)'
      PROVE  /\ \A d \in Cores : curCtx'[d] # x /\ x \notin Range(ready'[d])
             /\ x \notin Range(cache')
  <2>1. CASE Holds(s, x)
    <3>1. /\ \A d \in Cores : curCtx[d] # x /\ x \notin Range(ready[d])
          /\ x \notin Range(cache)
      BY <2>1 DEF ContextInv
    <3>2. x # curCtx'[c]
      BY <1>0, <2>1 DEF TookNeutral
    <3>3. QED  BY <1>0, <1>3, <3>1, <3>2 DEF TookNeutral
  <2>2. CASE x = curCtx[c]
    <3>1. /\ \A d \in Cores : x \notin Range(ready[d])
          /\ x \notin Range(cache)
          /\ \A d \in Cores : d # c => curCtx[d] # x
      <4>1. x # None
        BY PoolConstants
      <4>2. QED  BY <2>2, <4>1 DEF ContextInv
    <3>2. x # curCtx'[c]
      BY <1>0, <2>2 DEF TookNeutral
    <3>3. QED  BY <1>0, <1>3, <3>1, <3>2 DEF TookNeutral
  <2>3. QED  BY <1>7, <2>1, <2>2
<1>8. \A s, t \in Tasks, x \in Contexts : Holds(s, x)' /\ Holds(t, x)' => s = t
  <2>1. \A s, t \in Tasks, x \in Contexts : Holds(s, x) /\ Holds(t, x) => s = t
    BY DEF ContextInv
  <2>2. \A s \in Tasks, x \in Contexts : Holds(s, x) => x # curCtx[c]
    BY DEF ContextInv
  <2>3. QED  BY <2>1, <2>2
<1>9. QED  BY <1>1, <1>2, <1>3, <1>4, <1>5, <1>6, <1>7, <1>8 DEF ContextInv

(* A worker starts: it takes a neutral context.                            *)
LEMMA RunKeepsInv ==
    ASSUME IndInv, setup' = setup, NEW c \in Cores, Run(c)
    PROVE  IndInv'
<1> USE PoolConstants DEF IndInv, Run, Points, workers, tasks, sleep
<1>w. /\ wpc' \in [Cores -> Points] /\ wpc[c] = "run" /\ wpc'[c] = "loop"
      /\ \A d \in Cores : d # c => wpc'[d] = wpc[d]
      /\ cur[c] = None /\ None \notin Tasks
  BY DEF TypeOK, LifeInv
<1>c. TookNeutral(c)
  BY NeutralIsFree
<1>1. TypeOK'
  BY <1>w, <1>c DEF TypeOK, TookNeutral
<1>2. CallInv'
  BY <1>w DEF CallInv
<1>3. WakeInv'
  BY <1>w, SameWakeups
<1>4. LifeInv'
  BY SMTT(30), <1>w, <1>c DEF LifeInv, BeingDestroyed, TookNeutral
<1>5. TaskInv'
  <2>1. \A d \in Cores, s \in Tasks : Has(d, s)' =>
            Has(d, s) /\ (wpc[d] = "sched" => wpc'[d] = "sched")
    BY <1>w DEF Has
  <2>2. \A v \in Callers, s \in Tasks : Putting(v, s)' => Putting(v, s)
    BY DEF Putting
  <2>3. QED  BY <2>1, <2>2, SameTasks
<1>6. ContextInv'
  <2>1. \A d \in Cores : (Busy(d)' <=> Busy(d)) /\ cur'[d] = cur[d]
    BY <1>w DEF Busy
  <2>2. ~Busy(c)'
    BY <1>w DEF Busy
  <2>3. \A s \in Tasks : Executing(s)' <=> Executing(s)
    BY <2>1 DEF Executing, Busy
  <2>4. \A s \in Tasks, x \in Contexts : Holds(s, x)' => Holds(s, x)
    BY <2>3 DEF Holds
  <2>5. TypeOK /\ ContextInv /\ TakeNeutral(c) /\ ctx' = ctx
    OBVIOUS
  <2> HIDE DEF IndInv, Run
  <2>6. QED  BY <2>1, <2>2, <2>4, <2>5, NeutralKeepsContexts
<1>7. QED  BY <1>1, <1>2, <1>3, <1>4, <1>5, <1>6

(* drop_task: the task keeps its context, its worker goes on in another.   *)
LEMMA DropTaskKeepsInv ==
    ASSUME IndInv, setup' = setup, NEW c \in Cores, NEW how \in {"yield", "wait"},
           DropTask(c, how)
    PROVE  IndInv'
<1> USE PoolConstants DEF IndInv, DropTask, Points, workers, sleep
<1>u. /\ wpc[c] = "exec" /\ cur[c] \in Tasks /\ Has(c, cur[c]) /\ call[c].step = "none"
      /\ ctx[cur[c]] = curCtx[c]
  BY UserCode
<1>w. /\ wpc' \in [Cores -> Points] /\ wpc'[c] = "loop"
      /\ \A d \in Cores : d # c => wpc'[d] = wpc[d]
      /\ calls' \in [Tasks -> 0 .. MaxCalls]
      /\ drop' \in [Cores -> {"yield", "wait"}]
  BY <1>u, SMTT(60) DEF TypeOK
<1>c. TookNeutral(c)
  BY NeutralIsFree
<1>1. TypeOK'
  BY <1>w, <1>c DEF TypeOK, TookNeutral
<1>2. CallInv'
  BY <1>u, <1>w DEF CallInv
<1>3. WakeInv'
  BY <1>w, SameWakeups
<1>4. LifeInv'
  BY <1>u, <1>w, <1>c DEF LifeInv, BeingDestroyed, TookNeutral
<1>5. TaskInv'
  <2>1. \A d \in Cores, s \in Tasks : Has(d, s)' =>
            Has(d, s) /\ (wpc[d] = "sched" => wpc'[d] = "sched")
    BY <1>u, <1>w DEF Has
  <2>2. \A v \in Callers, s \in Tasks : Putting(v, s)' => Putting(v, s)
    BY DEF Putting
  <2>3. QED  BY <2>1, <2>2, SameTasks
<1>6. ContextInv'
  <2>1. \A d \in Cores : d # c => (Busy(d)' <=> Busy(d)) /\ cur'[d] = cur[d]
    BY <1>w DEF Busy
  <2>2. ~Busy(c)' /\ Busy(c)
    BY <1>u, <1>w DEF Busy
  <2>3. \A s \in Tasks : s # cur[c] => (Executing(s)' <=> Executing(s))
    BY <2>1, <2>2 DEF Executing, Busy
  <2>4. \A s \in Tasks, x \in Contexts :
            Holds(s, x)' => Holds(s, x) \/ (s = cur[c] /\ x = curCtx[c])
    BY <1>u, <2>3 DEF Holds
  <2>5. TypeOK /\ ContextInv /\ TakeNeutral(c) /\ ctx' = ctx
    OBVIOUS
  <2> HIDE DEF IndInv, DropTask
  <2>6. QED  BY <2>1, <2>2, <2>4, <2>5, NeutralKeepsContexts
<1>7. QED  BY <1>1, <1>2, <1>3, <1>4, <1>5, <1>6

(* A completed task needs no context; its worker keeps it.                 *)
LEMMA FinishTaskKeepsInv ==
    ASSUME IndInv, setup' = setup, NEW c \in Cores, FinishTask(c)
    PROVE  IndInv'
<1> USE PoolConstants DEF IndInv, FinishTask, Points, TaskStates, workers, contexts, sleep
<1> DEFINE t == cur[c]
<1>u. wpc[c] = "exec" /\ t \in Tasks /\ Has(c, t) /\ call[c].step = "none"
  BY UserCode
<1>w. /\ wpc' \in [Cores -> Points] /\ wpc'[c] = "loop"
      /\ \A d \in Cores : d # c => wpc'[d] = wpc[d] /\ cur'[d] = cur[d]
      /\ cur' \in [Cores -> Tasks \cup {None}] /\ cur'[c] = None /\ None \notin Tasks
  BY DEF TypeOK
<1>t. /\ tstate' \in [Tasks -> TaskStates] /\ tstate'[t] = "COMPLETED"
      /\ \A s \in Tasks : s # t => tstate'[s] = tstate[s]
  BY <1>u DEF TypeOK
<1>f. UNCHANGED <<workers, drop, contexts, queue, calls, call, sleep, lock, admin>>
  OBVIOUS
<1> HIDE DEF FinishTask, t
<1>1. TypeOK'
  BY <1>w, <1>t, <1>f DEF TypeOK
<1>2. CallInv'
  BY <1>u, <1>w, <1>f DEF CallInv
<1>3. WakeInv'
  BY <1>w, <1>f, SameWakeups
<1>4. LifeInv'
  BY <1>u, <1>w, <1>f DEF LifeInv, BeingDestroyed
<1>5. TaskInv'
  <2>1. \A d \in Cores, s \in Tasks : Has(d, s)' => Has(d, s) /\ d # c
    BY <1>w DEF Has
  <2>2. \A v \in Callers, s \in Tasks : Putting(v, s)' <=> Putting(v, s)
    BY <1>f DEF Putting
  <2>3. t \notin queue /\ \A v \in Callers : ~Putting(v, t)
    BY <1>u DEF TaskInv
  <2>4. \A d \in Cores : Has(d, t) => d = c
    BY <1>u DEF TaskInv
  <2>5. \A d \in Cores : d # c => wpc'[d] = wpc[d]
    BY <1>w
  <2>6. queue' = queue /\ queue \subseteq Tasks /\ TaskInv
    BY <1>f DEF TypeOK
  <2> HIDE DEF IndInv
  <2>7. QED  BY <1>t, <2>1, <2>2, <2>3, <2>4, <2>5, <2>6 DEF TaskInv
<1>6. ContextInv'
  <2>1. \A d \in Cores : Busy(d)' => Busy(d) /\ d # c /\ cur'[d] = cur[d]
    BY <1>w DEF Busy
  <2>2. \A s \in Tasks : s # t => (Executing(s)' <=> Executing(s))
    BY <1>u, <1>w DEF Executing, t
  <2>3. \A s \in Tasks, x \in Contexts : Holds(s, x)' => Holds(s, x)
    BY <1>t, <1>f, <2>2 DEF Holds
  <2>4. ContextInv
    OBVIOUS
  <2> HIDE DEF IndInv
  <2>5. QED  BY <1>f, <2>1, <2>3, <2>4 DEF ContextInv
<1>7. QED  BY <1>1, <1>2, <1>3, <1>4, <1>5, <1>6

(* A worker that terminates abandons its context.                          *)
LEMMA ExitKeepsInv ==
    ASSUME IndInv, setup' = setup, NEW c \in Cores, Exit(c)
    PROVE  IndInv'
<1> USE PoolConstants DEF IndInv, Exit, Points, tasks, sleep
<1>w. /\ wpc' \in [Cores -> Points] /\ wpc[c] = "exit" /\ wpc'[c] = "off"
      /\ \A d \in Cores : d # c => /\ wpc'[d] = wpc[d] /\ curCtx'[d] = curCtx[d]
                                   /\ thread'[d] = thread[d]
      /\ curCtx' \in [Cores -> Contexts \cup {None}] /\ curCtx'[c] = None
      /\ thread' \in [Cores -> {"NONE", "RUNNING", "TERMINATED"}]
  BY DEF TypeOK
<1>1. TypeOK'
  BY <1>w DEF TypeOK
<1>2. CallInv'
  BY <1>w DEF CallInv
<1>3. WakeInv'
  BY <1>w, SameWakeups
<1>4. LifeInv'
  BY <1>w DEF LifeInv, BeingDestroyed
<1>5. TaskInv'
  <2>1. \A d \in Cores, s \in Tasks : Has(d, s)' =>
            Has(d, s) /\ (wpc[d] = "sched" => wpc'[d] = "sched")
    BY <1>w DEF Has
  <2>2. \A v \in Callers, s \in Tasks : Putting(v, s)' => Putting(v, s)
    BY DEF Putting
  <2>3. QED  BY <2>1, <2>2, SameTasks
<1>6. ContextInv'
  <2>1. \A d \in Cores : Busy(d)' <=> Busy(d) /\ d # c
    BY <1>w DEF Busy
  <2>2. \A s \in Tasks : Executing(s)' <=> Executing(s)
    BY <1>w DEF Executing
  <2>3. \A s \in Tasks, x \in Contexts : Holds(s, x)' <=> Holds(s, x)
    BY <2>2 DEF Holds
  <2>4. ContextInv /\ UNCHANGED <<cur, ready, cache, ctx>>
    OBVIOUS
  <2>5. None \notin Contexts /\ \A d \in Cores : ready[d] \in Seq(Contexts)
    BY DEF TypeOK
  <2>6. cache \in Seq(Contexts)
    BY DEF TypeOK
  <2>7. None \notin Range(cache) /\ \A d \in Cores : None \notin Range(ready[d])
    BY <2>5, <2>6 DEF Range
  <2> HIDE DEF IndInv, Exit
  <2>8. \A d \in Cores : curCtx'[d] # None => d # c /\ curCtx'[d] = curCtx[d]
    BY <1>w
  <2>9. \A d \in Cores : Busy(d)' => ctx'[cur'[d]] = curCtx'[d]
    BY <1>w, <2>1, <2>4 DEF ContextInv
  <2>10. /\ \A d, e \in Cores : curCtx'[d] # None /\ curCtx'[d] = curCtx'[e] => d = e
         /\ \A d, e \in Cores : curCtx'[d] \notin Range(ready'[e])
         /\ \A d \in Cores : curCtx'[d] \notin Range(cache')
    BY <2>4, <2>7, <2>8 DEF ContextInv
  <2>11. \A s \in Tasks, x \in Contexts : Holds(s, x)' =>
             /\ \A d \in Cores : curCtx'[d] # x /\ x \notin Range(ready'[d])
             /\ x \notin Range(cache')
    BY <2>3, <2>4, <2>5, <2>8 DEF ContextInv
  <2>12. QED  BY <2>3, <2>4, <2>9, <2>10, <2>11 DEF ContextInv
<1>7. QED  BY <1>1, <1>2, <1>3, <1>4, <1>5, <1>6

(* A task starts in the worker's context, or is resumed in its own, which  *)
(* nobody else has; then the neutral context becomes ready.                *)
LEMMA RunTaskKeepsInv ==
    ASSUME IndInv, setup' = setup, NEW c \in Cores, RunTask(c)
    PROVE  IndInv'
<1> USE PoolConstants DEF IndInv, Points, TaskStates, workers, sleep
<1> DEFINE t == cur[c]
<1>u. /\ wpc[c] = "sched" /\ t \in Tasks /\ Has(c, t) /\ tstate[t] # "COMPLETED"
      /\ curCtx[c] \in Contexts
  <2>1. wpc[c] = "sched" /\ t \in Tasks /\ Has(c, t) /\ curCtx[c] \in Contexts
    BY DEF RunTask, TypeOK, LifeInv, Has
  <2>2. QED  BY <2>1 DEF TaskInv
<1>w. /\ wpc' \in [Cores -> Points] /\ wpc'[c] = "exec"
      /\ \A d \in Cores : d # c => wpc'[d] = wpc[d]
      /\ tstate' \in [Tasks -> TaskStates] /\ tstate'[t] = "RUNNING"
      /\ \A s \in Tasks : s # t => tstate'[s] = tstate[s]
  BY <1>u DEF RunTask, TypeOK
<1>f. UNCHANGED <<workers, cur, drop, cache, queue, calls, call, sleep, lock, admin>>
  BY DEF RunTask
<1>a. ASSUME ctx[t] = None
      PROVE  ctx' = [ctx EXCEPT ![t] = curCtx[c]] /\ UNCHANGED <<curCtx, ready>>
  BY <1>a DEF RunTask
<1>b. ASSUME ctx[t] # None
      PROVE  /\ ctx' = ctx /\ ctx[t] \in Contexts
             /\ curCtx' = [curCtx EXCEPT ![c] = ctx[t]]
             /\ ready' = [ready EXCEPT ![c] = Append(@, curCtx[c])]
  BY <1>b, <1>u DEF RunTask, TypeOK
<1> HIDE DEF t
<1>1. TypeOK'
  <2>1. /\ ctx' \in [Tasks -> Contexts \cup {None}]
        /\ curCtx' \in [Cores -> Contexts \cup {None}]
        /\ ready' \in [Cores -> Seq(Contexts)]
    <3>1. CASE ctx[t] = None
      BY <1>u, <1>a, <3>1 DEF TypeOK
    <3>2. CASE ctx[t] # None
      <4>1. Append(ready[c], curCtx[c]) \in Seq(Contexts)
        BY <1>u DEF TypeOK
      <4>2. /\ ctx \in [Tasks -> Contexts \cup {None}]
            /\ curCtx \in [Cores -> Contexts \cup {None}]
            /\ ready \in [Cores -> Seq(Contexts)]
        BY DEF TypeOK
      <4> HIDE DEF IndInv
      <4>3. QED  BY <1>b, <3>2, <4>1, <4>2
    <3>3. QED  BY <3>1, <3>2
  <2>2. QED  BY <1>w, <1>f, <2>1 DEF TypeOK
<1>2. CallInv'
  BY <1>u, <1>w, <1>f DEF CallInv
<1>3. WakeInv'
  BY <1>w, <1>f, SameWakeups
<1>4. LifeInv'
  <2>1. \A d \in Cores : curCtx'[d] = None <=> curCtx[d] = None
    BY <1>a, <1>b, <1>u DEF TypeOK
  <2>2. QED  BY <1>u, <1>w, <1>f, <2>1 DEF LifeInv, BeingDestroyed
<1>5. TaskInv'
  <2>1. \A d \in Cores, s \in Tasks : Has(d, s)' <=> Has(d, s)
    BY <1>u, <1>w, <1>f DEF Has
  <2>2. \A v \in Callers, s \in Tasks : Putting(v, s)' <=> Putting(v, s)
    BY <1>f DEF Putting
  <2>3. t \notin queue /\ \A v \in Callers : ~Putting(v, t)
    BY <1>u DEF TaskInv
  <2>4. \A d \in Cores : Has(d, t) => d = c
    BY <1>u DEF TaskInv
  <2>5. queue' = queue /\ queue \subseteq Tasks /\ TaskInv
    BY <1>f DEF TypeOK
  <2>6. \A s \in Tasks : Has(c, s) => s = t
    BY DEF Has, t
  <2> HIDE DEF IndInv
  <2>7. QED  BY <1>w, <2>1, <2>2, <2>3, <2>4, <2>5, <2>6 DEF TaskInv
<1>6. ContextInv'
  <2>1. \A d \in Cores : Busy(d)' <=> Busy(d) \/ d = c
    BY <1>w DEF Busy
  <2>2. \A s \in Tasks : s # t => (Executing(s)' <=> Executing(s))
    BY <1>u, <1>w, <1>f DEF Executing, t
  <2>3. \A s \in Tasks : s = t => Executing(s)' /\ ~Executing(s)
    <3>1. \A d \in Cores : Has(d, t) => d = c
      BY <1>u DEF TaskInv
    <3>2. QED  BY <1>u, <1>w, <1>f, <3>1 DEF Executing, Has, t
  <2>4. \A s \in Tasks, x \in Contexts : Holds(s, x)' => Holds(s, x) /\ s # t
    <3>1. \A s \in Tasks : s # t => ctx'[s] = ctx[s]
      BY <1>a, <1>b, <1>u DEF TypeOK
    <3>2. ASSUME NEW s \in Tasks, NEW x \in Contexts, Holds(s, x)'
          PROVE  Holds(s, x) /\ s # t
      <4>1. ctx'[s] = x /\ ~Executing(s)' /\ tstate'[s] # "COMPLETED"
        BY <3>2 DEF Holds
      <4>2. s # t
        BY <2>3, <4>1
      <4>3. QED  BY <1>w, <2>2, <3>1, <4>1, <4>2 DEF Holds
    <3>3. QED  BY <3>2
  <2>5. \A d \in Cores : Busy(d) => cur[d] \in Tasks /\ (d # c => cur[d] # t)
    <3>1. \A d \in Cores : Has(d, t) => d = c
      BY <1>u DEF TaskInv
    <3>2. QED  BY <3>1 DEF Busy, Has, LifeInv, TypeOK
  <2>6. ContextInv /\ cur' = cur /\ cache' = cache
    BY <1>f
  <2>7. CASE ctx[t] = None
    <3>1. \A d \in Cores : Busy(d)' => ctx'[cur'[d]] = curCtx'[d]
      <4>1. ctx'[t] = curCtx[c] /\ \A s \in Tasks : s # t => ctx'[s] = ctx[s]
        BY <1>a, <1>u, <2>7 DEF TypeOK
      <4>2. QED  BY <1>a, <2>1, <2>5, <2>6, <2>7, <4>1 DEF ContextInv, t
    <3>2. UNCHANGED <<curCtx, ready>>
      BY <1>a, <2>7
    <3> HIDE DEF IndInv
    <3>3. QED  BY <2>4, <2>6, <3>1, <3>2 DEF ContextInv
  <2>8. CASE ctx[t] # None
    <3> DEFINE x == ctx[t]
               old == curCtx[c]
               grown == Append(ready[c], old)
    <3>1. /\ x \in Contexts /\ old \in Contexts /\ ctx' = ctx
          /\ curCtx'[c] = x /\ ready'[c] = grown
          /\ \A d \in Cores : d # c => curCtx'[d] = curCtx[d] /\ ready'[d] = ready[d]
      BY <1>b, <1>u, <2>8 DEF TypeOK
    <3>2. Holds(t, x)
      BY <1>u, <2>3 DEF Holds, x
    <3>3. /\ \A d \in Cores : curCtx[d] # x /\ x \notin Range(ready[d])
          /\ x \notin Range(cache)
          /\ \A s \in Tasks : Holds(s, x) => s = t
      BY <1>u, <3>1, <3>2 DEF ContextInv
    <3>4. /\ \A d \in Cores : old \notin Range(ready[d])
          /\ old \notin Range(cache) /\ old # x
          /\ \A d \in Cores : d # c => curCtx[d] # old
          /\ \A s \in Tasks : ~Holds(s, old)
      BY <3>1, <3>3 DEF ContextInv
    <3>5. Range(grown) = Range(ready[c]) \cup {old} /\ IsInjective(grown)
      <4>1. ready[c] \in Seq(Contexts) /\ IsInjective(ready[c])
        BY DEF TypeOK, ContextInv
      <4> HIDE DEF old
      <4>2. QED  BY <3>1, <3>4, <4>1, RangeAppend, InjectiveAppend
    <3> HIDE DEF x, old, grown, IndInv
    <3>6. \A d \in Cores : Busy(d)' => ctx'[cur'[d]] = curCtx'[d]
      BY <2>1, <2>6, <3>1 DEF ContextInv, t, x
    <3>7. \A d, e \in Cores : curCtx'[d] # None /\ curCtx'[d] = curCtx'[e] => d = e
      BY <2>6, <3>1, <3>3 DEF ContextInv
    <3>8. \A d, e \in Cores : curCtx'[d] \notin Range(ready'[e])
      BY <2>6, <3>1, <3>3, <3>4, <3>5 DEF ContextInv
    <3>9. \A d \in Cores : curCtx'[d] \notin Range(cache') /\ IsInjective(ready'[d])
      BY <2>6, <3>1, <3>3, <3>5 DEF ContextInv
    <3>10. /\ \A d, e \in Cores : Range(ready'[d]) \cap Range(ready'[e]) # {} => d = e
           /\ \A d \in Cores : Range(ready'[d]) \cap Range(cache') = {}
      BY <2>6, <3>1, <3>4, <3>5 DEF ContextInv
    <3>11. \A s \in Tasks, y \in Contexts : Holds(s, y)' =>
               /\ \A d \in Cores : curCtx'[d] # y /\ y \notin Range(ready'[d])
               /\ y \notin Range(cache')
      BY <2>4, <2>6, <3>1, <3>3, <3>4, <3>5 DEF ContextInv
    <3>12. QED  BY <2>4, <2>6, <3>6, <3>7, <3>8, <3>9, <3>10, <3>11 DEF ContextInv
  <2>9. QED  BY <2>7, <2>8
<1>7. QED  BY <1>1, <1>2, <1>3, <1>4, <1>5, <1>6

-----------------------------------------------------------------------------
(* Creating, stopping and joining workers.                                 *)

(* A step of the administrator that leaves calls, tasks and contexts alone.*)
LEMMA AdminKeepsOthers ==
    ASSUME IndInv, setup' = setup, UNCHANGED <<loop, contexts, tasks, call, sleep>>
    PROVE  CallInv' /\ WakeInv' /\ TaskInv' /\ ContextInv'
<1> USE DEF IndInv, loop, contexts, tasks, sleep
<1>1. CallInv'
  BY DEF CallInv
<1>2. WakeInv'
  BY SameWakeups
<1>3. TaskInv'
  BY SameTasks DEF Has, Putting
<1>4. ContextInv'
  BY SameContexts DEF Busy
<1>5. QED  BY <1>1, <1>2, <1>3, <1>4

(* set_thread_count begins and ends, ~Scheduler begins and ends.           *)
LEMMA AdminGoesOn ==
    ASSUME IndInv, setup' = setup,
           \/ \E n \in setup.counts : SetThreadCount(n)
           \/ ResizeReturns \/ Destroy \/ JoinAll \/ DestroyReturns
    PROVE  IndInv'
<1> USE PoolConstants DEF IndInv, Idle
<1>0. /\ UNCHANGED <<loop, contexts, tasks, call, sleep>>
      /\ \/ admin.op = "idle" /\ admin'.op = "resize"
         \/ admin.op = "resize" /\ admin'.op = "idle"
         \/ BeingDestroyed'
  <2> USE DEF BeingDestroyed, TypeOK, workers
  <2>1. CASE \E n \in setup.counts : SetThreadCount(n)
    BY <2>1 DEF SetThreadCount
  <2>2. CASE ResizeReturns
    BY <2>2 DEF ResizeReturns
  <2>3. CASE Destroy
    BY <2>3 DEF Destroy
  <2>4. CASE JoinAll
    BY <2>4 DEF JoinAll
  <2>5. CASE DestroyReturns
    BY <2>5 DEF DestroyReturns
  <2>6. QED  BY <2>1, <2>2, <2>3, <2>4, <2>5
<1>1. TypeOK'
  <2>1. 0 \in 0 .. NumCores /\ NumCores \in 0 .. NumCores /\ 0 \in Cores
        /\ setup.counts \subseteq 0 .. NumCores
    BY DEF TypeOK, Cores
  <2>2. CASE \E n \in setup.counts : SetThreadCount(n)
    <3>1. PICK n \in setup.counts : SetThreadCount(n)
      BY <2>2
    <3>2. n \in 0 .. NumCores
      BY <2>1, <3>1
    <3>3. admin' = [op |-> "resize", n |-> n, core |-> 0]
      BY <3>1 DEF SetThreadCount
    <3>4. QED  BY <2>1, <3>1, <3>2, <3>3 DEF SetThreadCount, TypeOK, workers, loop, contexts, tasks, sleep
  <2>3. CASE ResizeReturns
    BY <2>1, <2>3 DEF ResizeReturns, TypeOK, workers, loop, contexts, tasks, sleep
  <2>4. CASE Destroy
    BY <2>1, <2>4 DEF Destroy, TypeOK, loop, contexts, tasks, sleep
  <2>5. CASE JoinAll
    BY <2>5 DEF JoinAll, TypeOK, loop, contexts, tasks, sleep
  <2>6. CASE DestroyReturns
    BY <2>6 DEF DestroyReturns, TypeOK, workers, loop, contexts, tasks, sleep
  <2>7. QED  BY <2>2, <2>3, <2>4, <2>5, <2>6
<1>2. LifeInv'
  <2>1. \A c \in Cores : thread'[c] = "TERMINATED" => thread[c] = "TERMINATED"
    BY DEF SetThreadCount, ResizeReturns, Destroy, JoinAll, DestroyReturns, workers
  <2>2. BeingDestroyed' \/ registered' = registered
    BY DEF SetThreadCount, ResizeReturns, Destroy, JoinAll, DestroyReturns, BeingDestroyed,
           TypeOK, workers
  <2>3. BeingDestroyed => BeingDestroyed'
    BY DEF SetThreadCount, ResizeReturns, Destroy, JoinAll, DestroyReturns, BeingDestroyed,
           TypeOK, workers
  <2>4. BeingDestroyed' \/ (admin.op # "join" /\ ~BeingDestroyed)
    BY <1>0 DEF BeingDestroyed
  <2>5. QED  BY <1>0, <2>1, <2>2, <2>4 DEF LifeInv, loop, contexts
<1>3. QED  BY <1>0, <1>1, <1>2, AdminKeepsOthers

(* create_thread finds a core that has no worker, not even one that is     *)
(* still terminating.                                                      *)
LEMMA CreateThreadKeepsInv ==
    ASSUME IndInv, setup' = setup, CreateThread
    PROVE  IndInv'
<1> USE PoolConstants DEF IndInv, Points, contexts, tasks, sleep
<1> DEFINE c == Smallest(Cores \ registered)
<1>0. c \in Cores \ registered
  <2>1. Cores \ registered # {}
    <3>1. registered \subseteq Cores /\ admin.n <= NumCores /\ admin.n \in Nat
          /\ Cardinality(registered) < admin.n
      BY DEF CreateThread, TypeOK
    <3>2. Cores # registered
      <4>1. SUFFICES ASSUME Cores = registered PROVE FALSE
        OBVIOUS
      <4>2. QED  BY <3>1, <4>1, CoresAreFinite
    <3>3. QED  BY <3>1, <3>2
  <2>2. Cores \ registered \in SUBSET Nat
    BY DEF Cores
  <2>3. \E d \in Cores \ registered : \A e \in Cores \ registered : d <= e
    BY <2>1, <2>2, LeastElement
  <2>4. QED  BY <2>3 DEF Smallest
<1> HIDE DEF c
<1>1. /\ admin.op = "resize" /\ registered' = registered \cup {c}
      /\ thread' = [thread EXCEPT ![c] = "RUNNING"] /\ done' = [done EXCEPT ![c] = FALSE]
      /\ cur' = [cur EXCEPT ![c] = None] /\ wpc' = [wpc EXCEPT ![c] = "run"]
  BY DEF CreateThread, RegisterThread, c
<1>f. UNCHANGED <<drop, contexts, tasks, call, sleep, lock, admin>>
  BY DEF CreateThread
<1>w. /\ wpc' \in [Cores -> Points] /\ wpc[c] = "off" /\ wpc'[c] = "run" /\ cur'[c] = None
      /\ \A d \in Cores : d # c => /\ wpc'[d] = wpc[d] /\ cur'[d] = cur[d]
                                   /\ thread'[d] = thread[d]
      /\ thread'[c] = "RUNNING"
  BY <1>0, <1>1 DEF TypeOK, LifeInv, BeingDestroyed
<1>2. TypeOK'
  BY <1>0, <1>1, <1>f DEF TypeOK
<1>3. CallInv'
  BY <1>w, <1>f DEF CallInv
<1>4. WakeInv'
  BY <1>w, <1>f, SameWakeups
<1>5. LifeInv'
  BY <1>0, <1>1, <1>w, <1>f DEF LifeInv, BeingDestroyed
<1>6. TaskInv'
  <2>1. \A d \in Cores, s \in Tasks : Has(d, s)' =>
            Has(d, s) /\ (wpc[d] = "sched" => wpc'[d] = "sched")
    BY <1>w DEF Has
  <2>2. \A v \in Callers, s \in Tasks : Putting(v, s)' => Putting(v, s)
    BY <1>f DEF Putting
  <2>3. QED  BY <1>f, <2>1, <2>2, SameTasks
<1>7. ContextInv'
  BY <1>w, <1>f, SameContexts DEF Busy
<1>8. QED  BY <1>2, <1>3, <1>4, <1>5, <1>6, <1>7

(* stop_wait_thread withdraws a worker; the administrator waits for it.    *)
LEMMA StopThreadKeepsInv ==
    ASSUME IndInv, setup' = setup, StopThread
    PROVE  IndInv'
<1> USE PoolConstants DEF IndInv, loop, contexts, tasks, sleep
<1> DEFINE c == Largest(registered)
<1>0. c \in registered /\ c \in Cores
  <2>1. registered \subseteq Cores /\ registered # {}
    <3>1. registered \subseteq Cores /\ admin.n \in Nat /\ Cardinality(registered) > admin.n
      BY DEF StopThread, TypeOK
    <3>2. QED  BY <3>1, FS_EmptySet
  <2>2. \A d \in registered : d \in 0 .. NumCores - 1
    BY <2>1 DEF Cores
  <2>3. \E d \in registered : \A e \in registered : d >= e
    <3> DEFINE S == {NumCores - d : d \in registered}
    <3>1. S \in SUBSET Nat /\ S # {}
      BY <2>1, <2>2
    <3>2. PICK n \in S : \A m \in S : n <= m
      BY <3>1, LeastElement
    <3>3. PICK d \in registered : n = NumCores - d
      BY <3>2
    <3>4. \A e \in registered : NumCores - d <= NumCores - e
      BY <3>2, <3>3
    <3>5. \A e \in registered : d >= e
      BY <2>2, <3>3, <3>4
    <3>6. QED  BY <3>5
  <2>4. QED  BY <2>1, <2>3 DEF Largest
<1> HIDE DEF c
<1>1. /\ admin.op = "resize" /\ registered' = registered \ {c}
      /\ done' = [done EXCEPT ![c] = TRUE]
      /\ admin' = [admin EXCEPT !.op = "join", !.core = c]
      /\ UNCHANGED <<thread, loop, contexts, tasks, call, sleep, lock>>
  BY DEF StopThread, c
<1>2. admin'.op = "join" /\ admin'.core = c
  BY <1>1 DEF TypeOK
<1>3. TypeOK'
  BY <1>0, <1>1 DEF TypeOK
<1>4. LifeInv'
  BY <1>0, <1>1, <1>2 DEF LifeInv, BeingDestroyed
<1>5. QED  BY <1>1, <1>3, <1>4, AdminKeepsOthers

(* ~WorkerThread: the neutral contexts of the worker move to the cache.    *)
LEMMA StoreKeepsContexts ==
    ASSUME TypeOK, ContextInv, NEW c \in Cores,
           cache' = cache \o ready[c], ready' = [ready EXCEPT ![c] = <<>>],
           UNCHANGED <<loop, curCtx, ctx, tasks>>
    PROVE  /\ ContextInv'
           /\ cache' \in Seq(Contexts) /\ ready' \in [Cores -> Seq(Contexts)]
<1>0. /\ ready \in [Cores -> Seq(Contexts)] /\ cache \in Seq(Contexts)
      /\ ready[c] \in Seq(Contexts)
  BY DEF TypeOK
<1>1. /\ ready' \in [Cores -> Seq(Contexts)] /\ ready'[c] = <<>>
      /\ \A d \in Cores : d # c => ready'[d] = ready[d]
  BY <1>0
<1>2. /\ cache' \in Seq(Contexts) /\ Range(cache') = Range(cache) \cup Range(ready[c])
      /\ IsInjective(cache')
  <2>1. IsInjective(cache) /\ IsInjective(ready[c]) /\ Range(cache) \cap Range(ready[c]) = {}
    BY DEF ContextInv
  <2>2. QED  BY <1>0, <2>1, RangeConcat, InjectiveConcat
<1>3. Range(ready'[c]) = {} /\ IsInjective(ready'[c])
  BY <1>1, EmptyList
<1>4. \A s \in Tasks, x \in Contexts : Holds(s, x)' <=> Holds(s, x)
  BY DEF Holds, Executing, loop, tasks
<1>5. \A d \in Cores : Busy(d)' => ctx'[cur'[d]] = curCtx'[d]
  BY DEF ContextInv, Busy, loop
<1>6. \A d, e \in Cores : /\ curCtx'[d] # None /\ curCtx'[d] = curCtx'[e] => d = e
                          /\ curCtx'[d] \notin Range(ready'[e])
  BY <1>1, <1>3 DEF ContextInv
<1>7. \A d \in Cores : curCtx'[d] \notin Range(cache') /\ IsInjective(ready'[d])
  BY <1>1, <1>2, <1>3 DEF ContextInv
<1>8. /\ \A d, e \in Cores : Range(ready'[d]) \cap Range(ready'[e]) # {} => d = e
      /\ \A d \in Cores : Range(ready'[d]) \cap Range(cache') = {}
  <2>1. /\ \A d, e \in Cores : Range(ready[d]) \cap Range(ready[e]) # {} => d = e
        /\ \A d \in Cores : Range(ready[d]) \cap Range(cache) = {}
    BY DEF ContextInv
  <2>2. QED  BY <1>1, <1>2, <1>3, <2>1
<1>9. \A s \in Tasks, x \in Contexts : Holds(s, x)' =>
          /\ \A d \in Cores : curCtx'[d] # x /\ x \notin Range(ready'[d])
          /\ x \notin Range(cache')
  <2>1. \A s \in Tasks, x \in Contexts : Holds(s, x) =>
            /\ \A d \in Cores : curCtx[d] # x /\ x \notin Range(ready[d])
            /\ x \notin Range(cache)
    BY DEF ContextInv
  <2>2. QED  BY <1>1, <1>2, <1>3, <1>4, <2>1
<1>10. \A s, t \in Tasks, x \in Contexts : Holds(s, x)' /\ Holds(t, x)' => s = t
  BY <1>4 DEF ContextInv
<1>11. QED  BY <1>1, <1>2, <1>5, <1>6, <1>7, <1>8, <1>9, <1>10 DEF ContextInv

(* A step of the administrator that leaves calls and tasks alone.          *)
LEMMA StoreKeepsOthers ==
    ASSUME IndInv, setup' = setup, UNCHANGED <<loop, tasks, call, sleep>>
    PROVE  CallInv' /\ WakeInv' /\ TaskInv'
<1> USE DEF IndInv, loop, tasks, sleep
<1>1. CallInv'
  BY DEF CallInv
<1>2. WakeInv'
  BY SameWakeups
<1>3. TaskInv'
  BY SameTasks DEF Has, Putting
<1>4. QED  BY <1>1, <1>2, <1>3

(* The terminated worker is destroyed, then another core may follow.       *)
LEMMA JoinThreadKeepsInv ==
    ASSUME IndInv, setup' = setup, JoinThread
    PROVE  IndInv'
<1> USE PoolConstants DEF IndInv, JoinThread, Joined, DeregisterThread
<1> DEFINE c == admin.core
<1>0. /\ c \in Cores /\ admin.op = "join" /\ thread[c] = "TERMINATED" /\ wpc[c] = "off"
      /\ cache' = cache \o ready[c] /\ ready' = [ready EXCEPT ![c] = <<>>]
      /\ UNCHANGED <<registered, done, loop, curCtx, ctx, tasks, call, sleep, lock>>
      /\ thread' = [thread EXCEPT ![c] = "NONE"] /\ admin' = [admin EXCEPT !.op = "resize"]
  BY DEF TypeOK, LifeInv
<1> HIDE DEF c, JoinThread
<1>1. /\ ContextInv' /\ cache' \in Seq(Contexts) /\ ready' \in [Cores -> Seq(Contexts)]
  BY <1>0, StoreKeepsContexts
<1>2. TypeOK'
  BY <1>0, <1>1 DEF TypeOK, loop, tasks, sleep
<1>3. LifeInv'
  <2>1. \A d \in Cores : thread'[d] = "TERMINATED" => thread[d] = "TERMINATED"
    BY <1>0 DEF TypeOK
  <2>2. wpc' = wpc /\ cur' = cur /\ curCtx' = curCtx /\ registered' = registered
    BY <1>0 DEF loop
  <2>3. \A d \in Cores : wpc[d] # "off" => d \in registered
    BY <1>0 DEF LifeInv, BeingDestroyed, c
  <2>4. QED  BY <2>1, <2>2, <2>3 DEF LifeInv
<1>4. QED  BY <1>0, <1>1, <1>2, <1>3, StoreKeepsOthers

(* ~Scheduler destroys the workers one after the other.                    *)
LEMMA DestroyWorkerKeepsInv ==
    ASSUME IndInv, setup' = setup, DestroyWorker
    PROVE  IndInv'
<1> USE PoolConstants DEF IndInv, DestroyWorker, workers
<1> DEFINE c == admin.n
<1>0. /\ c \in Cores /\ admin.op = "destruct" /\ c \in Nat /\ c < NumCores
      /\ cache' = cache \o ready[c] /\ ready' = [ready EXCEPT ![c] = <<>>]
      /\ UNCHANGED <<workers, loop, curCtx, ctx, tasks, call, sleep, lock>>
      /\ admin' = [admin EXCEPT !.n = c + 1]
  BY DEF TypeOK, Cores
<1> HIDE DEF c, DestroyWorker
<1>1. /\ ContextInv' /\ cache' \in Seq(Contexts) /\ ready' \in [Cores -> Seq(Contexts)]
  BY <1>0, StoreKeepsContexts
<1>2. TypeOK'
  <2>1. c + 1 \in 0 .. NumCores
    BY <1>0
  <2>2. QED  BY <1>0, <1>1, <2>1 DEF TypeOK, loop, tasks, sleep
<1>3. LifeInv'
  <2>1. BeingDestroyed'
    BY <1>0 DEF BeingDestroyed, TypeOK
  <2>2. QED  BY <1>0, <2>1 DEF LifeInv, loop
<1>4. QED  BY <1>0, <1>1, <1>2, <1>3, StoreKeepsOthers

(* ~Scheduler calls taskAvailable.                                         *)
LEMMA DestroyWakesKeepsInv ==
    ASSUME IndInv, setup' = setup, DestroyWakes
    PROVE  IndInv'
<1> USE PoolConstants DEF IndInv, workers, loop, contexts, tasks, sleep
<1>0. /\ admin.op = "wake" /\ call[Admin] = NoCall /\ Admin \in Callers /\ Admin \notin Cores
      /\ call[Admin].step = "none" /\ call[Admin].left = 0
      /\ UNCHANGED <<workers, loop, contexts, tasks, sleep, lock>>
  BY DEF DestroyWakes, Callers, NoCall
<1>1. CASE admin.n > 0 /\ BeginPut(Admin, None) /\ admin' = [admin EXCEPT !.n = @ - 1]
  <2>1. /\ CallType'
        /\ call'[Admin].step = "load" /\ call'[Admin].task = None /\ call'[Admin].left = 0
        /\ \A v \in Callers : v # Admin => call'[v] = call[v]
    BY <1>0, <1>1, BeginPutEffect
  <2>2. /\ admin' \in [op : {"idle", "resize", "join", "wake", "joinall", "destruct", "dead"},
                       n : 0 .. NumCores, core : Cores]
        /\ BeingDestroyed'
    <3>1. admin.n - 1 \in 0 .. NumCores
      BY <1>1 DEF TypeOK
    <3>2. QED  BY <1>0, <1>1, <3>1 DEF TypeOK, BeingDestroyed
  <2>3. TypeOK'
    BY <1>0, <2>1, <2>2 DEF TypeOK, CallType
  <2>4. CallInv'
    BY <1>0, <2>1 DEF CallInv
  <2>5. WakeInv'
    BY <1>0, <2>1, SameWakeups
  <2>6. LifeInv'
    BY <1>0, <2>2 DEF LifeInv
  <2>7. TaskInv'
    <3>1. \A v \in Callers, s \in Tasks : Putting(v, s)' => Putting(v, s)
      BY <2>1 DEF Putting
    <3>2. QED  BY <1>0, <3>1, SameTasks DEF Has
  <2>8. ContextInv'
    BY <1>0, SameContexts DEF Busy
  <2>9. QED  BY <2>3, <2>4, <2>5, <2>6, <2>7, <2>8
<1>2. CASE admin' = [admin EXCEPT !.op = "joinall"] /\ UNCHANGED call
  <2>1. TypeOK'
    BY <1>0, <1>2 DEF TypeOK
  <2>2. LifeInv'
    <3>1. BeingDestroyed'
      BY <1>2 DEF BeingDestroyed, TypeOK
    <3>2. QED  BY <1>0, <3>1 DEF LifeInv
  <2>3. QED  BY <1>0, <1>2, <2>1, <2>2, AdminKeepsOthers
<1>3. QED  BY <1>1, <1>2 DEF DestroyWakes

-----------------------------------------------------------------------------

(* The pool starts without workers; READY tasks are in the queues.         *)
LEMMA InitInv == Init => IndInv
<1> SUFFICES ASSUME Init PROVE IndInv
  OBVIOUS
<1>0. /\ setup \in Setups /\ registered = {}
      /\ thread = [c \in Cores |-> "NONE"] /\ done = [c \in Cores |-> FALSE]
      /\ wpc = [c \in Cores |-> "off"] /\ cur = [c \in Cores |-> None]
      /\ drop = [c \in Cores |-> "yield"] /\ curCtx = [c \in Cores |-> None]
      /\ ready = [c \in Cores |-> <<>>] /\ cache = <<>> /\ ctx = [t \in Tasks |-> None]
      /\ tstate = setup.tasks /\ queue = {t \in Tasks : tstate[t] = "READY"}
      /\ calls = [t \in Tasks |-> 0]
      /\ call = [u \in Callers |-> [step |-> "none", task |-> None, left |-> 0]]
      /\ count = 0 /\ sem = 0 /\ lock = Admin
  BY DEF Init, NoCall
<1>1. TypeOK
  <2>1. /\ 0 \in Cores /\ setup.maxWaits \in 0 .. NumCores /\ setup.counts \subseteq 0 .. NumCores
        /\ setup.tasks \in [Tasks -> {"NEW", "READY", "COMPLETED"}] /\ NumCores \in Nat
    BY <1>0, PoolConstants DEF Cores
  <2>2. 0 \in 0 .. setup.maxWaits /\ 0 \in 0 .. MaxCalls
    BY <2>1, PoolConstants
  <2>3. PICK n \in setup.counts : admin = [Idle EXCEPT !.op = "resize", !.n = n]
    BY DEF Init
  <2>4. admin = [op |-> "resize", n |-> n, core |-> 0] /\ n \in 0 .. NumCores
    BY <2>1, <2>3 DEF Idle
  <2>5. admin \in [op : {"idle", "resize", "join", "wake", "joinall", "destruct", "dead"},
                  n : 0 .. NumCores, core : Cores]
    BY <2>1, <2>4
  <2>6. QED  BY <1>0, <2>1, <2>2, <2>5 DEF TypeOK
<1>2. CallInv
  BY <1>0 DEF CallInv
<1>3. WakeInv
  <2>1. Wakeups = {}
    <3>1. \A u \in Callers : 1 .. call[u].left = {}
      BY <1>0
    <3>2. \A u \in Callers : {u} \X (1 .. call[u].left) = {}
      BY <3>1
    <3>3. QED  BY <3>2 DEF Wakeups
  <2>2. Sleepers = {}
    BY <1>0 DEF Sleepers
  <2>3. setup.maxWaits \in Nat
    BY <1>0, PoolConstants
  <2>4. QED  BY <1>0, <2>1, <2>2, <2>3, FS_EmptySet DEF WakeInv, Pending
<1> USE <1>0, PoolConstants
<1>4. LifeInv
  BY DEF LifeInv, BeingDestroyed
<1>5. TaskInv
  BY DEF TaskInv, Has, Putting, NoCall
<1>6. ContextInv
  <2>1. \A c \in Cores : Range(ready[c]) = {} /\ IsInjective(ready[c])
    BY EmptyList
  <2>2. Range(cache) = {} /\ IsInjective(cache)
    BY EmptyList
  <2>3. \A t \in Tasks, x \in Contexts : ~Holds(t, x)
    BY DEF Holds
  <2>4. QED  BY <2>1, <2>2, <2>3 DEF ContextInv, Busy
<1>7. QED  BY <1>1, <1>2, <1>3, <1>4, <1>5, <1>6 DEF IndInv

(* Every step keeps it.                                                    *)
LEMMA NextInv == IndInv /\ [Next]_vars => IndInv'
<1> SUFFICES ASSUME IndInv, [Next]_vars PROVE IndInv'
  OBVIOUS
<1>1. CASE UNCHANGED vars
  <2> USE <1>1 DEF IndInv, vars, workers, loop, contexts, tasks, sleep
  <2>1. TypeOK'
    BY DEF TypeOK
  <2>2. LifeInv'
    BY DEF LifeInv, BeingDestroyed
  <2>3. QED  BY <2>1, <2>2, AdminKeepsOthers
<1>2. ASSUME NEW u \in Callers, CallStep(u) PROVE IndInv'
  BY <1>2, LoadKeepsInv, ExchangeKeepsInv, PostKeepsInv, PutKeepsInv DEF CallStep
<1>3. ASSUME NEW c \in Cores, WorkerStep(c) PROVE IndInv'
  <2> USE DEF workers, contexts, tasks, sleep
  <2>0. setup' = setup /\ IndInv
    BY <1>3 DEF WorkerStep
  <2>t. UNCHANGED calls => calls' \in [Tasks -> 0 .. MaxCalls]
    BY DEF IndInv, TypeOK
  <2>1. CASE LeaveLoop(c)
    BY <2>0, <2>t, <2>1, WorkerGoesOn DEF LeaveLoop
  <2>2. CASE LoopIdle(c)
    BY <2>0, <2>t, <2>2, WorkerGoesOn DEF LoopIdle
  <2>3. CASE PollAgain(c)
    BY <2>0, <2>t, <2>3, WorkerGoesOn DEF PollAgain
  <2>4. CASE SpawnReturns(c)
    BY <2>0, <2>t, <2>4, WorkerGoesOn DEF SpawnReturns
  <2>5. CASE WorkerIds(c)
    BY <2>0, <2>t, <2>5, WorkerGoesOn DEF WorkerIds
  <2>6. CASE CallIds(c)
    <3>1. wpc[c] = "exec" /\ cur[c] \in Tasks
      BY <2>6, UserCode DEF CallIds
    <3>2. calls' \in [Tasks -> 0 .. MaxCalls]
      BY <2>6, <3>1, PoolConstants DEF CallIds, IndInv, TypeOK
    <3>3. /\ wpc' = [wpc EXCEPT ![c] = "ids"]
          /\ UNCHANGED <<workers, cur, drop, contexts, tstate, queue, call, sleep, lock, admin>>
      BY <2>6 DEF CallIds
    <3>4. QED  BY <2>0, <3>1, <3>2, <3>3, WorkerGoesOn
  <2>7. CASE \/ Run(c) \/ LoopYield(c) \/ YieldReturns(c) \/ LoopWait(c) \/ GetNewTask(c)
             \/ WaitForTask(c) \/ WakeUp(c) \/ RunTask(c) \/ FinishTask(c) \/ Exit(c)
    BY <2>0, <2>7, RunKeepsInv, LoopYieldKeepsInv, YieldReturnsKeepsInv, LoopWaitKeepsInv,
       GetNewTaskKeepsInv, WaitForTaskKeepsInv, WakeUpKeepsInv, RunTaskKeepsInv,
       FinishTaskKeepsInv, ExitKeepsInv
  <2>8. CASE DropTask(c, "yield") \/ DropTask(c, "wait")
    BY <2>0, <2>8, DropTaskKeepsInv
  <2>9. QED  BY <1>3, <2>1, <2>2, <2>3, <2>4, <2>5, <2>6, <2>7, <2>8 DEF WorkerStep
<1>4. ASSUME NEW u \in Natives \cup Cores, UserStep(u) PROVE IndInv'
  BY <1>4, SpawnLocalKeepsInv, SpawnGlobalKeepsInv DEF UserStep
<1>5. CASE AdminStep
  BY <1>5, CreateThreadKeepsInv, StopThreadKeepsInv, JoinThreadKeepsInv, AdminGoesOn,
     DestroyWakesKeepsInv, DestroyWorkerKeepsInv DEF AdminStep
<1>6. CASE AdminCall
  BY <1>6, AdminGoesOn DEF AdminCall
<1>7. CASE Destroyed
  BY <1>1, <1>7 DEF Destroyed
<1>8. QED  BY <1>1, <1>2, <1>3, <1>4, <1>5, <1>6, <1>7 DEF Next

(* The workers, their contexts, the calls of put_task and the sleepers of  *)
(* a pool keep the inductive invariant.                                    *)
THEOREM Inductive == Spec => []IndInv
BY InitInv, NextInv, PTL DEF Spec

(* put_task, waitForTask, resizing and destruction keep the types, and     *)
(* taskAvailable forgets no sleeper: whoever sleeps is still counted, or a *)
(* post for it is under way or has been made.                              *)
THEOREM SleepersAreNotForgotten == Spec => []PoolConsistent
<1>1. IndInv => PoolConsistent
  BY DEF IndInv, WakeInv, PoolConsistent, SleepersAreCounted, Sleepers
<1>2. QED  BY <1>1, Inductive, PTL

(* In a state of the invariant a context has at most one owner.            *)
LEMMA OneOwner ==
    ASSUME IndInv, NEW x \in Contexts, NEW a \in Owners(x), NEW b \in Owners(x)
    PROVE  a = b
<1> USE DEF IndInv
<1>0. /\ x # None
      /\ \A c \in Cores : ready[c] \in Seq(Contexts)
      /\ cache \in Seq(Contexts)
  BY PoolConstants DEF TypeOK
<1>1. ASSUME NEW e \in Owners(x)
      PROVE  \/ \E c \in Cores : e = <<"worker", c>> /\ curCtx[c] = x
             \/ \E t \in Tasks : e = <<"task", t>> /\ Holds(t, x)
             \/ \E c \in Cores : \E i \in DOMAIN ready[c] :
                    e = <<"ready", c, i>> /\ ready[c][i] = x
             \/ \E i \in DOMAIN cache : e = <<"cache", i>> /\ cache[i] = x
  BY DEF Owners
<1>2. CASE \E c \in Cores : a = <<"worker", c>> /\ curCtx[c] = x
  <2>1. PICK c \in Cores : a = <<"worker", c>> /\ curCtx[c] = x
    BY <1>2
  <2>2. /\ \A d \in Cores : curCtx[d] = x => d = c
        /\ \A d \in Cores : x \notin Range(ready[d])
        /\ x \notin Range(cache) /\ \A t \in Tasks : ~Holds(t, x)
    BY <1>0, <2>1 DEF ContextInv
  <2>3. QED  BY <1>1, <2>1, <2>2 DEF Range
<1>3. CASE \E t \in Tasks : a = <<"task", t>> /\ Holds(t, x)
  <2>1. PICK t \in Tasks : a = <<"task", t>> /\ Holds(t, x)
    BY <1>3
  <2>2. /\ \A d \in Cores : curCtx[d] # x /\ x \notin Range(ready[d])
        /\ x \notin Range(cache) /\ \A s \in Tasks : Holds(s, x) => s = t
    BY <2>1 DEF ContextInv
  <2>3. QED  BY <1>1, <2>1, <2>2 DEF Range
<1>4. CASE \E c \in Cores : \E i \in DOMAIN ready[c] :
               a = <<"ready", c, i>> /\ ready[c][i] = x
  <2>1. PICK c \in Cores : \E i \in DOMAIN ready[c] :
            a = <<"ready", c, i>> /\ ready[c][i] = x
    BY <1>4
  <2>2. PICK i \in DOMAIN ready[c] : a = <<"ready", c, i>> /\ ready[c][i] = x
    BY <2>1
  <2>3. x \in Range(ready[c])
    BY <2>2 DEF Range
  <2>4. /\ \A d \in Cores : curCtx[d] # x
        /\ \A d \in Cores : x \in Range(ready[d]) => d = c
        /\ x \notin Range(cache) /\ \A t \in Tasks : ~Holds(t, x)
        /\ IsInjective(ready[c])
    BY <2>3 DEF ContextInv
  <2>5. \A j \in DOMAIN ready[c] : ready[c][j] = x => j = i
    BY <2>2, <2>4 DEF IsInjective
  <2>6. QED  BY <1>1, <2>2, <2>4, <2>5 DEF Range
<1>5. CASE \E i \in DOMAIN cache : a = <<"cache", i>> /\ cache[i] = x
  <2>1. PICK i \in DOMAIN cache : a = <<"cache", i>> /\ cache[i] = x
    BY <1>5
  <2>2. x \in Range(cache)
    BY <2>1 DEF Range
  <2>3. /\ \A d \in Cores : curCtx[d] # x /\ x \notin Range(ready[d])
        /\ \A t \in Tasks : ~Holds(t, x) /\ IsInjective(cache)
    BY <2>2 DEF ContextInv
  <2>4. \A j \in DOMAIN cache : cache[j] = x => j = i
    BY <2>1, <2>3 DEF IsInjective, ContextInv
  <2>5. QED  BY <1>1, <2>1, <2>3, <2>4 DEF Range
<1>6. QED  BY <1>1, <1>2, <1>3, <1>4, <1>5

(* A stack is never in use twice: however tasks are dropped, stolen by     *)
(* other workers, resumed and completed, and however workers come and go.  *)
THEOREM StacksAreNotShared == Spec => []ContextsNotShared
<1>1. IndInv => ContextsNotShared
  <2>1. SUFFICES ASSUME IndInv, NEW x \in Contexts
                 PROVE  Cardinality(Owners(x)) <= 1
    BY DEF ContextsNotShared
  <2>2. CASE Owners(x) = {}
    BY <2>2, FS_EmptySet
  <2>3. CASE Owners(x) # {}
    <3>1. PICK a \in Owners(x) : TRUE
      BY <2>3
    <3>2. Owners(x) = {a}
      BY <2>1, <3>1, OneOwner
    <3>3. Cardinality({a}) = 1
      BY FS_Singleton
    <3>4. QED  BY <3>2, <3>3
  <2>4. QED  BY <2>2, <2>3
<1>2. QED  BY <1>1, Inductive, PTL
=============================================================================
