----------------------- MODULE SchedulingDomain_proofs ----------------------
(***************************************************************************)
(* Machine-checked proofs about SchedulingDomain, for any tasks,           *)
(* priorities, worker threads and callers: the accesses of put_task,       *)
(* try_get_task, add_thread and remove_thread to the collections lose and  *)
(* duplicate no task, the task counters account for every task, and the    *)
(* priority index covers every queued task.                                *)
(***************************************************************************)
EXTENDS SchedulingDomain, SequenceFacts, FiniteSetTheorems, SequenceTheorems, TLAPS

-----------------------------------------------------------------------------
(* The inductive invariant.                                                *)

(* The caller has its task to itself: before put_task pushes it, and after *)
(* try_get_task has popped it.                                             *)
Holding(u) == task[u] # None /\ pc[u] \notin {"count", "top", "cas"}

(* What a putter has in its local variables at each program point.         *)
PutInv ==
    \A u \in Putters :
        /\ pc[u] \in {"absent", "idle", "create", "load", "push", "count", "top", "cas"}
        /\ pc[u] \in {"absent", "idle"} <=> task[u] = None
        /\ pc[u] \notin {"absent", "idle"} => idx[u] \in Prios
        /\ pc[u] \in {"load", "push", "count", "top", "cas"} => created[idx[u]]
        /\ pc[u] = "push" => dst[u] # None
        /\ pc[u] = "cas" => seen[u] < idx[u]

(* The same of a getter.                                                   *)
GetInv ==
    \A u \in Getters :
        /\ pc[u] \in {"absent", "idle", "check", "own", "popown", "global", "steal",
                      "popsteal", "uncount", "ret"}
        /\ pc[u] \in {"own", "popown", "global", "steal", "popsteal", "uncount"} =>
               idx[u] \in Prios
        /\ pc[u] \notin {"uncount", "ret"} => task[u] = None
        /\ pc[u] = "uncount" => task[u] # None /\ created[idx[u]]

(* add_thread and remove_thread: whom they work on, and what a drain has.  *)
AdminInv ==
    /\ \A i \in active : made[i] > 0
    /\ admin.op = "add" => admin.id \notin active /\ made[admin.id] > 0
    /\ admin.op \in {"remove", "drain"} => admin.id \in active
    /\ admin.op = "drain" =>
           admin.prio \in Prios /\ created[admin.prio] /\ admin.queue # None
    /\ admin.op # "drain" => admin.task = None

(* The thread ids that the collection of priority p has a queue for.       *)
Served(p) ==
    CASE admin.op = "add" /\ p < admin.prio -> active \cup {admin.id}
      [] admin.op = "remove" /\ p < admin.prio -> active \ {admin.id}
      [] admin.op = "drain" /\ p <= admin.prio -> active \ {admin.id}
      [] OTHER -> active

(* A collection holds a queue pointer of each thread that is active or that  *)
(* a registration has already reached, and of no other; add_thread makes a   *)
(* new queue for every registration.                                         *)
PointerInv ==
    \A p \in Prios : created[p] => {i \in ThreadIds : ptr[p][i] # None} = Served(p)

(* The queues share no task, and there are tasks in created collections    *)
(* only.                                                                   *)
QueueInv ==
    /\ \A p \in Prios, q \in Queues : IsInjective(queue[p][q])
    /\ \A p1, p2 \in Prios, q1, q2 \in Queues :
           Range(queue[p1][q1]) \cap Range(queue[p2][q2]) # {} => p1 = p2 /\ q1 = q2
    /\ \A p \in Prios : Contents(p) # {} => created[p]

(* No task is in two places.                                               *)
ApartInv ==
    /\ \A u, v \in Procs : Holding(u) /\ Holding(v) /\ task[u] = task[v] => u = v
    /\ \A u \in Procs : Holding(u) => task[u] \notin fresh \cup taken \cup {admin.task}
    /\ \A u \in Procs, p \in Prios : Holding(u) => task[u] \notin Contents(p)
    /\ admin.task \notin fresh \cup taken
    /\ \A p \in Prios : admin.task \notin Contents(p)
    /\ fresh \cap taken = {}
    /\ \A p \in Prios : Contents(p) \cap (fresh \cup taken) = {}

(* Every task is somewhere.                                                *)
SomewhereInv ==
    \A t \in Tasks :
        \/ t \in fresh \cup taken \cup {admin.task}
        \/ \E u \in Procs : Holding(u) /\ task[u] = t
        \/ \E p \in Prios : t \in Contents(p)

(* The atomic task counter of a collection, and that the tasks it counts are *)
(* finitely many.                                                            *)
CountInv ==
    \A p \in Prios :
        /\ IsFiniteSet(Contents(p))
        /\ IsFiniteSet(Counting(p))
        /\ IsFiniteSet(Uncounting(p))
        /\ count[p] = Balance(p) % CountMod

(* A put_task that has pushed a task of priority p, and not yet returned.  *)
Raising(u, t, p) == pc[u] \in {"count", "top", "cas"} /\ task[u] = t /\ idx[u] = p

(* The index covers each queued task, unless its put_task is still going   *)
(* to raise it.                                                            *)
Covered(t, p) == p <= top \/ \E u \in Putters : Raising(u, t, p)

(* _highest_prio is never below a stored task that nobody is still raising   *)
(* it for.                                                                   *)
TopInv ==
    \A p \in Prios :
        /\ \A t \in Contents(p) : Covered(t, p)
        /\ admin.task # None /\ admin.prio = p => Covered(admin.task, p)

(* The inductive invariant.                                                  *)
IndInv == TypeOK /\ PutInv /\ GetInv /\ AdminInv /\ PointerInv /\ QueueInv
          /\ ApartInv /\ SomewhereInv /\ CountInv /\ TopInv

-----------------------------------------------------------------------------
(* The counters wrap.                                                      *)

(* A remainder is determined by any decomposition of the number.           *)
LEMMA ModUnique ==
    ASSUME NEW m \in Nat \ {0}, NEW k \in Int, NEW q \in Int, NEW r \in 0 .. m - 1, k = m * q + r
    PROVE  k % m = r
<1> DEFINE d == k \div m
<1>1. d \in Int /\ k = m * d + (k % m) /\ k % m \in 0 .. m - 1
  OBVIOUS
<1>2. m * (q - d) = (k % m) - r
  BY <1>1
<1>3. CASE q = d
  BY <1>1, <1>3
<1>4. CASE q > d
  <2>1. q - d >= 1
    BY <1>1, <1>4
  <2>2. m * (q - d) >= m
    BY <2>1, <1>1
  <2>3. QED  BY <2>2, <1>2, <1>1
<1>5. CASE q < d
  <2>1. d - q >= 1
    BY <1>1, <1>5
  <2>2. m * (d - q) >= m
    BY <2>1, <1>1
  <2>3. QED  BY <2>2, <1>2, <1>1
<1>6. QED  BY <1>1, <1>3, <1>4, <1>5

(* Counting modulo the width of the counter: adding before or after taking *)
(* the remainder is the same, also below zero.                             *)
LEMMA ModAdd ==
    ASSUME NEW m \in Nat \ {0}, NEW k \in Int, NEW j \in Int
    PROVE  ((k % m) + j) % m = (k + j) % m
<1> DEFINE d == k \div m
           s == (k % m) + j
           e == s \div m
<1>1. d \in Int /\ k = m * d + (k % m) /\ k % m \in 0 .. m - 1
  OBVIOUS
<1>2. e \in Int /\ s = m * e + (s % m) /\ s % m \in 0 .. m - 1
  BY <1>1
<1>3. k + j = m * (d + e) + (s % m)
  BY <1>1, <1>2
<1>4. (k + j) % m = s % m
  <2>1. d + e \in Int /\ k + j \in Int /\ s % m \in 0 .. m - 1
    BY <1>1, <1>2
  <2> DEFINE x == k + j
             q == d + e
             r == s % m
  <2>2. x \in Int /\ q \in Int /\ r \in 0 .. m - 1 /\ x = m * q + r
    BY <1>3, <2>1
  <2> HIDE DEF x, q, r
  <2>3. x % m = r
    BY <2>2, ModUnique
  <2>4. QED  BY <2>3 DEF x, r
<1>5. QED  BY <1>4

-----------------------------------------------------------------------------
(* The operations on the queues.                                           *)

(* A task is in a collection when it is in one of its queues.              *)
LEMMA ContentsMember ==
    ASSUME NEW p \in Prios, NEW t
    PROVE  t \in Contents(p) <=> \E q \in Queues : t \in Range(queue[p][q])
BY DEF Contents

(* TaskQueue::push_back of a task that is in no queue: afterwards it is in *)
(* this collection only, and the queues still share nothing.               *)
LEMMA PushEffect ==
    ASSUME TypeOK, QueueInv, NEW p \in Prios, NEW q \in Queues, NEW t \in Tasks,
           PushBack(p, q, t), \A r \in Prios : t \notin Contents(r),
           created[p], created' = created
    PROVE  /\ queue' \in [Prios -> [Queues -> Seq(Tasks)]]
           /\ QueueInv'
           /\ \A r \in Prios : Contents(r)' = IF r = p THEN Contents(p) \cup {t}
                                              ELSE Contents(r)
<1>1. /\ queue' \in [Prios -> [Queues -> Seq(Tasks)]]
      /\ queue'[p][q] = Append(queue[p][q], t)
      /\ \A r \in Prios, s \in Queues : r # p \/ s # q => queue'[r][s] = queue[r][s]
  BY DEF PushBack, TypeOK
<1>2. queue[p][q] \in Seq(Tasks)
  BY DEF TypeOK
<1>3. Range(queue'[p][q]) = Range(queue[p][q]) \cup {t}
  BY <1>1, <1>2, RangeAppend
<1>4. \A r \in Prios, s \in Queues : t \notin Range(queue[r][s])
  BY DEF Contents
<1>5. IsInjective(queue'[p][q])
  BY <1>1, <1>2, <1>4, InjectiveAppend DEF QueueInv
<1>6. \A r \in Prios : Contents(r)' = IF r = p THEN Contents(p) \cup {t} ELSE Contents(r)
  <2>1. ASSUME NEW r \in Prios, r # p PROVE Contents(r)' = Contents(r)
    BY <1>1, <2>1 DEF Contents
  <2>2. Contents(p)' = Contents(p) \cup {t}
    <3>1. \A x : x \in Contents(p)' <=> \E s \in Queues : x \in Range(queue'[p][s])
      BY DEF Contents
    <3>2. \A s \in Queues : Range(queue'[p][s]) =
              IF s = q THEN Range(queue[p][q]) \cup {t} ELSE Range(queue[p][s])
      BY <1>1, <1>3
    <3>3. \A x : x \in Contents(p)' <=> x = t \/ x \in Contents(p)
      BY <3>1, <3>2, ContentsMember
    <3>4. QED  BY <3>3
  <2>3. QED  BY <2>1, <2>2
<1>7. QueueInv'
  <2>1. \A r \in Prios, s \in Queues : IsInjective(queue'[r][s])
    BY <1>1, <1>5 DEF QueueInv
  <2>2. \A p1, p2 \in Prios, q1, q2 \in Queues :
            Range(queue'[p1][q1]) \cap Range(queue'[p2][q2]) # {} => p1 = p2 /\ q1 = q2
    <3> SUFFICES ASSUME NEW p1 \in Prios, NEW p2 \in Prios, NEW q1 \in Queues,
                        NEW q2 \in Queues, NEW x, x \in Range(queue'[p1][q1]),
                        x \in Range(queue'[p2][q2])
                 PROVE  p1 = p2 /\ q1 = q2
      OBVIOUS
    <3>1. \A r \in Prios, s \in Queues : x \in Range(queue'[r][s]) =>
              x \in Range(queue[r][s]) \/ (r = p /\ s = q /\ x = t)
      BY <1>1, <1>3
    <3>2. QED  BY <3>1, <1>4 DEF QueueInv
  <2>3. \A r \in Prios : Contents(r)' # {} => created'[r]
    BY <1>6 DEF QueueInv
  <2>4. QED  BY <2>1, <2>2, <2>3 DEF QueueInv
<1>8. QED  BY <1>1, <1>6, <1>7

(* TaskQueue::try_pop_front takes its first task out of the collection.    *)
LEMMA PopEffect ==
    ASSUME TypeOK, QueueInv, NEW p \in Prios, NEW q \in Queues, queue[p][q] # <<>>,
           PopFront(p, q), created' = created
    PROVE  /\ queue' \in [Prios -> [Queues -> Seq(Tasks)]]
           /\ Head(queue[p][q]) \in Tasks
           /\ Head(queue[p][q]) \in Contents(p)
           /\ created[p]
           /\ QueueInv'
           /\ \A r \in Prios : Contents(r)' =
                  IF r = p THEN Contents(p) \ {Head(queue[p][q])} ELSE Contents(r)
           /\ \A r \in Prios : Head(queue[p][q]) \notin Contents(r)'
<1> DEFINE t == Head(queue[p][q])
<1>0. queue[p][q] \in Seq(Tasks)
  BY DEF TypeOK
<1>1. /\ t \in Tasks
      /\ Tail(queue[p][q]) \in Seq(Tasks)
      /\ Range(queue[p][q]) = {t} \cup Range(Tail(queue[p][q]))
  BY <1>0, RangeHeadTail
<1>2. IsInjective(Tail(queue[p][q])) /\ t \notin Range(Tail(queue[p][q]))
  BY <1>0, InjectiveTail DEF QueueInv
<1> HIDE DEF t
<1>3. /\ queue' \in [Prios -> [Queues -> Seq(Tasks)]]
      /\ queue'[p][q] = Tail(queue[p][q])
      /\ \A r \in Prios, s \in Queues : r # p \/ s # q => queue'[r][s] = queue[r][s]
  BY <1>1 DEF PopFront, TypeOK
<1>4. t \in Contents(p) /\ created[p]
  <2>1. t \in Range(queue[p][q])
    BY <1>1
  <2>2. t \in Contents(p)
    BY <2>1, ContentsMember
  <2>3. QED  BY <2>2 DEF QueueInv
<1>5. \A r \in Prios, s \in Queues : t \in Range(queue[r][s]) => r = p /\ s = q
  BY <1>1 DEF QueueInv
<1>6. \A r \in Prios, s \in Queues : Range(queue'[r][s]) = Range(queue[r][s]) \ {t}
  <2>1. Range(queue'[p][q]) = Range(queue[p][q]) \ {t}
    BY <1>1, <1>2, <1>3 DEF t
  <2>2. ASSUME NEW r \in Prios, NEW s \in Queues, r # p \/ s # q
        PROVE  Range(queue'[r][s]) = Range(queue[r][s]) \ {t}
    <3>1. t \notin Range(queue[r][s]) /\ queue'[r][s] = queue[r][s]
      BY <1>3, <1>5, <2>2
    <3>2. QED  BY <3>1
  <2>3. QED  BY <2>1, <2>2
<1>7. \A r \in Prios : Contents(r)' = Contents(r) \ {t}
  <2> SUFFICES ASSUME NEW r \in Prios PROVE Contents(r)' = Contents(r) \ {t}
    OBVIOUS
  <2>1. \A x : x \in Contents(r)' <=> \E s \in Queues : x \in Range(queue'[r][s])
    BY DEF Contents
  <2>2. ASSUME NEW x PROVE x \in Contents(r)' <=> x \in Contents(r) /\ x # t
    <3>1. \A s \in Queues : x \in Range(queue'[r][s]) <=> x \in Range(queue[r][s]) /\ x # t
      BY <1>6
    <3>2. x \in Contents(r) <=> \E s \in Queues : x \in Range(queue[r][s])
      BY ContentsMember
    <3>3. QED  BY <2>1, <3>1, <3>2
  <2>3. QED  BY <2>2
<1>8. \A r \in Prios : r # p => t \notin Contents(r)
  <2>1. \A r \in Prios : t \in Contents(r) => \E s \in Queues : t \in Range(queue[r][s])
    BY ContentsMember
  <2>2. QED  BY <1>5, <2>1
<1>9. QueueInv'
  <2>1. \A r \in Prios, s \in Queues : IsInjective(queue'[r][s])
    BY <1>2, <1>3 DEF QueueInv
  <2>2. \A p1, p2 \in Prios, q1, q2 \in Queues :
            Range(queue'[p1][q1]) \cap Range(queue'[p2][q2]) # {} => p1 = p2 /\ q1 = q2
    <3>1. \A p1, p2 \in Prios, q1, q2 \in Queues :
              Range(queue[p1][q1]) \cap Range(queue[p2][q2]) # {} => p1 = p2 /\ q1 = q2
      BY DEF QueueInv
    <3>2. \A r \in Prios, s \in Queues : Range(queue'[r][s]) \subseteq Range(queue[r][s])
      BY <1>6
    <3>3. QED  BY ONLY <3>1, <3>2
  <2>3. \A r \in Prios : Contents(r)' # {} => created'[r]
    BY <1>7 DEF QueueInv
  <2>4. QED  BY <2>1, <2>2, <2>3 DEF QueueInv
<1>10. QED  BY <1>1, <1>3, <1>4, <1>7, <1>8, <1>9 DEF t

(* One element more, one element less.                                     *)
LEMMA GrowsByOne ==
    ASSUME NEW S, NEW T, NEW x, IsFiniteSet(S), x \notin S, T = S \cup {x}
    PROVE  IsFiniteSet(T) /\ Cardinality(T) = Cardinality(S) + 1
BY FS_AddElement

(* The same for a task that is taken out.                                    *)
LEMMA ShrinksByOne ==
    ASSUME NEW S, NEW T, NEW x, IsFiniteSet(S), x \in S, T = S \ {x}
    PROVE  IsFiniteSet(T) /\ Cardinality(T) = Cardinality(S) - 1
BY FS_RemoveElement

-----------------------------------------------------------------------------
(* What a step leaves alone.                                               *)

(* A step that touches no queue changes no collection.                     *)
LEMMA SameContents ==
    ASSUME queue' = queue
    PROVE  \A p \in Prios : Contents(p)' = Contents(p)
BY DEF Contents

(* Where no collection and no queue changes, QueueInv stays.                 *)
LEMMA SameQueues ==
    ASSUME QueueInv, queue' = queue, created' = created
    PROVE  QueueInv'
<1>1. \A p \in Prios : Contents(p)' = Contents(p)
  BY SameContents
<1>2. QED  BY <1>1 DEF QueueInv

(* A step that moves no task keeps every task at its one place.            *)
LEMMA SamePlaces ==
    ASSUME ApartInv, SomewhereInv, \A p \in Prios : Contents(p)' = Contents(p),
           UNCHANGED <<fresh, taken>>, admin'.task = admin.task,
           \A u \in Procs : Holding(u)' <=> Holding(u),
           \A u \in Procs : Holding(u) => task'[u] = task[u]
    PROVE  ApartInv' /\ SomewhereInv'
<1>1. ApartInv'
  BY DEF ApartInv
<1>2. SomewhereInv'
  BY DEF SomewhereInv
<1>3. QED  BY <1>1, <1>2

(* A step that neither stores nor counts a task keeps the counters.        *)
LEMMA SameCounts ==
    ASSUME CountInv, count' = count, \A p \in Prios : Contents(p)' = Contents(p),
           admin'.task = admin.task, admin.task # None => admin'.prio = admin.prio,
           \A u \in Putters : pc'[u] = "count" <=> pc[u] = "count",
           \A u \in Putters : pc[u] = "count" => idx'[u] = idx[u],
           \A u \in Getters : pc'[u] = "uncount" <=> pc[u] = "uncount",
           \A u \in Getters : pc[u] = "uncount" => idx'[u] = idx[u]
    PROVE  CountInv'
<1> SUFFICES ASSUME NEW p \in Prios
             PROVE  /\ Contents(p)' = Contents(p) /\ Moving(p)' = Moving(p)
                    /\ Counting(p)' = Counting(p) /\ Uncounting(p)' = Uncounting(p)
  BY DEF CountInv, Balance
<1>1. Moving(p)' = Moving(p)
  BY DEF Moving
<1>2. Counting(p)' = Counting(p)
  BY DEF Counting
<1>3. Uncounting(p)' = Uncounting(p)
  BY DEF Uncounting
<1>4. QED  BY <1>1, <1>2, <1>3

(* The same for the index of the highest priority.                         *)
LEMMA SameTop ==
    ASSUME TopInv, \A p \in Prios : Contents(p)' = Contents(p), top' = top,
           admin'.task = admin.task, admin.task # None => admin'.prio = admin.prio,
           \A u \in Putters : pc[u] \in {"count", "top", "cas"} =>
               \/ UNCHANGED <<task[u], idx[u]>> /\ pc'[u] \in {"count", "top", "cas"}
               \/ idx[u] <= top
    PROVE  TopInv'
<1>1. \A t, p : Covered(t, p) => Covered(t, p)'
  BY DEF Covered, Raising
<1>2. QED  BY <1>1 DEF TopInv

-----------------------------------------------------------------------------
(* Every step keeps the inductive invariant.                               *)

(* put_task takes a task that nobody has.                                  *)
LEMMA PutTaskKeepsInv ==
    ASSUME IndInv, setup' = setup, NEW u \in Putters, NEW t \in Tasks,
           NEW i \in ThreadIds \cup {-1}, PutTask(u, t, i)
    PROVE  IndInv'
<1> USE DomainConstants DEF IndInv, PutTask, Goto, shared, Procs
<1>0. setup.priority[t] \in Prios
  BY DEF TypeOK
<1>1. TypeOK'
  BY <1>0 DEF TypeOK
<1>2. PutInv'
  BY DEF TypeOK, PutInv
<1>3. GetInv'
  BY DEF TypeOK, GetInv
<1>4. AdminInv' /\ PointerInv' /\ QueueInv'
  BY SameContents DEF AdminInv, PointerInv, Served, QueueInv
<1>5. ApartInv' /\ SomewhereInv'
  <2>1. /\ ~Holding(u)
        /\ \A v \in Procs : Holding(v)' <=> Holding(v) \/ v = u
        /\ \A v \in Procs : task'[v] = IF v = u THEN t ELSE task[v]
    BY DEF TypeOK, PutInv, Holding
  <2>2. \A p \in Prios : Contents(p)' = Contents(p)
    BY SameContents
  <2>3. t # admin.task /\ t \notin taken /\ \A p \in Prios : t \notin Contents(p)
    BY DEF ApartInv
  <2>4. \A v \in Procs : Holding(v) => task[v] # t
    BY DEF ApartInv
  <2>5. ApartInv'
    BY <2>1, <2>2, <2>3, <2>4 DEF ApartInv
  <2>6. SomewhereInv'
    BY <2>1, <2>2 DEF SomewhereInv
  <2>7. QED  BY <2>5, <2>6
<1>6. CountInv'
  BY SameContents, SameCounts DEF TypeOK, PutInv, GetInv
<1>7. TopInv'
  BY SameContents, SameTop DEF TypeOK, PutInv
<1>8. QED  BY <1>1, <1>2, <1>3, <1>4, <1>5, <1>6, <1>7

(* A collection that does not exist yet counts no task.                    *)
LEMMA NothingBeforeCreation ==
    ASSUME IndInv, NEW p \in Prios, ~created[p]
    PROVE  count[p] = 0
<1> USE DomainConstants DEF IndInv
<1>1. Contents(p) = {}
  BY DEF QueueInv
<1>2. Moving(p) = 0
  BY DEF Moving, AdminInv
<1>3. Counting(p) = {}
  BY DEF Counting, PutInv
<1>4. Uncounting(p) = {}
  BY DEF Uncounting, GetInv
<1>5. Balance(p) = 0
  BY <1>1, <1>2, <1>3, <1>4, FS_EmptySet DEF Balance
<1>6. 0 % CountMod = 0
  OBVIOUS
<1>7. QED  BY <1>5, <1>6 DEF CountInv

(* The collection of a priority is constructed at most once, with a queue  *)
(* for each active thread, and never during add_thread or remove_thread.   *)
LEMMA CreateKeepsInv ==
    ASSUME IndInv, setup' = setup, NEW u \in Putters, Create(u)
    PROVE  IndInv'
<1> USE DomainConstants DEF IndInv, Create, Goto, shared, Procs
<1>0. idx[u] \in Prios /\ pc[u] = "create" /\ count' = count /\ queue' = queue
  <2>1. idx[u] \in Prios /\ pc[u] = "create"
    BY DEF PutInv
  <2>2. ~created[idx[u]] => count[idx[u]] = 0
    BY <2>1, NothingBeforeCreation
  <2>3. QED  BY <2>1, <2>2 DEF TypeOK
<1>0a. created' \in [Prios -> BOOLEAN] /\ created'[idx[u]]
       /\ \A p \in Prios : created[p] => created'[p]
  BY ZenonT(30), <1>0 DEF TypeOK
<1>1. TypeOK'
  <2>1. ptr' \in [Prios -> [ThreadIds -> Queues \cup {None}]]
    <3>1. \A i \in active : QueueOf(i) \in Queues
      BY DEF TypeOK, AdminInv, QueueOf, Queues
    <3> DEFINE new == [i \in ThreadIds |-> IF i \in active THEN QueueOf(i) ELSE None]
    <3>2. new \in [ThreadIds -> Queues \cup {None}]
      BY <3>1
    <3>3. ptr' = ptr \/ ptr' = [ptr EXCEPT ![idx[u]] = new]
      OBVIOUS
    <3>4. ptr \in [Prios -> [ThreadIds -> Queues \cup {None}]]
      BY DEF TypeOK
    <3> HIDE DEF new, Create, IndInv
    <3>5. QED  BY <1>0, <3>2, <3>3, <3>4
  <2>2. QED  BY ZenonT(30), <1>0, <2>1, <1>0a DEF TypeOK
<1>2. PutInv'
  BY <1>0, <1>0a DEF TypeOK, PutInv
<1>3. GetInv'
  BY ZenonT(30), <1>0 DEF TypeOK, GetInv
<1>4. AdminInv' /\ QueueInv'
  <2>1. AdminInv'
    BY <1>0, <1>0a DEF AdminInv
  <2>2. QueueInv'
    BY <1>0, <1>0a, SameContents DEF QueueInv
  <2>3. QED  BY <2>1, <2>2
<1>5. PointerInv'
  <2>1. CASE created[idx[u]]
    BY <2>1, <1>0 DEF PointerInv, Served
  <2>2. CASE ~created[idx[u]]
    <3>1. \A p \in Prios : Served(p)' = active /\ Served(p) = active
      BY <2>2 DEF LocksFree, Served
    <3>2. {i \in ThreadIds : ptr'[idx[u]][i] # None} = active
      <4>1. \A i \in active : QueueOf(i) # None
        BY DEF TypeOK, AdminInv, QueueOf, Queues
      <4>2. QED  BY <1>0, <2>2, <4>1, SMTT(60) DEF TypeOK
    <3>3. \A p \in Prios : p # idx[u] => ptr'[p] = ptr[p] /\ created'[p] = created[p]
      BY <1>0, <2>2 DEF TypeOK
    <3>4. QED  BY <3>1, <3>2, <3>3 DEF PointerInv
  <2>3. QED  BY <2>1, <2>2
<1>6. ApartInv' /\ SomewhereInv'
  BY <1>0, SameContents, SamePlaces DEF TypeOK, Holding
<1>7. CountInv'
  BY <1>0, SameContents, SameCounts DEF TypeOK, GetInv
<1>8. TopInv'
  BY <1>0, SameContents, SameTop DEF TypeOK
<1>9. QED  BY <1>1, <1>2, <1>3, <1>4, <1>5, <1>6, <1>7, <1>8

(* TaskCollection::put loads a queue pointer.                              *)
LEMMA LoadQueueKeepsInv ==
    ASSUME IndInv, setup' = setup, NEW u \in Putters, LoadQueue(u)
    PROVE  IndInv'
<1> USE DomainConstants DEF IndInv, LoadQueue, Goto, shared, Procs
<1>0. idx[u] \in Prios /\ pc[u] = "load"
  BY DEF PutInv
<1>1. TypeOK'
  <2>1. ThreadQueue(idx[u], tid[u]) \in Queues \cup {None} /\ Global \in Queues
    BY <1>0 DEF TypeOK, ThreadQueue, Queues
  <2>2. QED  BY <2>1 DEF TypeOK
<1>2. PutInv'
  BY <1>0 DEF TypeOK, PutInv, ThreadQueue, Queues
<1>3. GetInv'
  BY <1>0 DEF TypeOK, GetInv
<1>4. AdminInv' /\ QueueInv' /\ PointerInv'
  BY SameContents DEF AdminInv, QueueInv, PointerInv, Served
<1>5. ApartInv' /\ SomewhereInv'
  BY <1>0, SameContents, SamePlaces DEF TypeOK, Holding
<1>6. CountInv'
  BY <1>0, SameContents, SameCounts DEF TypeOK, GetInv
<1>7. TopInv'
  BY <1>0, SameContents, SameTop DEF TypeOK
<1>8. QED  BY <1>1, <1>2, <1>3, <1>4, <1>5, <1>6, <1>7

(* Pushing a task makes one more task stored, and one more to be counted.  *)
LEMMA PushKeepsInv ==
    ASSUME IndInv, setup' = setup, NEW u \in Putters, Push(u)
    PROVE  IndInv'
<1> USE DomainConstants DEF IndInv, Push, Goto, Procs
<1>0. /\ idx[u] \in Prios /\ pc[u] = "push" /\ dst[u] \in Queues /\ task[u] \in Tasks
      /\ created[idx[u]] /\ Holding(u)
  BY DEF PutInv, TypeOK, Holding
<1>1. \A p \in Prios : task[u] \notin Contents(p)
  BY <1>0 DEF ApartInv
<1>2. /\ queue' \in [Prios -> [Queues -> Seq(Tasks)]]
      /\ QueueInv'
      /\ \A p \in Prios : Contents(p)' = IF p = idx[u] THEN Contents(p) \cup {task[u]}
                                         ELSE Contents(p)
  BY <1>0, <1>1, PushEffect
<1>3. TypeOK'
  BY <1>2 DEF TypeOK
<1>4. PutInv' /\ GetInv'
  BY <1>0 DEF TypeOK, PutInv, GetInv
<1>5. AdminInv' /\ PointerInv'
  BY DEF AdminInv, PointerInv, Served
<1>6. ApartInv' /\ SomewhereInv'
  <2>1. \A v \in Procs : Holding(v)' <=> Holding(v) /\ v # u
    BY <1>0 DEF TypeOK, Holding
  <2>2. UNCHANGED <<task, fresh, taken, admin>>
    OBVIOUS
  <2>3. task[u] \notin fresh \cup taken \cup {admin.task}
    BY <1>0 DEF ApartInv
  <2>4. \A v \in Procs : Holding(v) /\ v # u => task[v] # task[u]
    BY <1>0 DEF ApartInv
  <2>5. ApartInv /\ SomewhereInv /\ u \in Procs
    OBVIOUS
  <2> HIDE DEF IndInv, Push
  <2>6. ApartInv'
    <3>1. \A v \in Procs, p \in Prios : Holding(v)' => task'[v] \notin Contents(p)'
      BY <1>2, <2>1, <2>2, <2>4, <2>5 DEF ApartInv
    <3>2. \A p \in Prios : admin'.task \notin Contents(p)'
      BY <1>2, <2>2, <2>3, <2>5 DEF ApartInv
    <3>3. \A p \in Prios : Contents(p)' \cap (fresh' \cup taken') = {}
      BY <1>2, <2>2, <2>3, <2>5 DEF ApartInv
    <3>4. \A v, w \in Procs : Holding(v)' /\ Holding(w)' /\ task'[v] = task'[w] => v = w
      BY <2>1, <2>2, <2>5 DEF ApartInv
    <3>5. \A v \in Procs : Holding(v)' => task'[v] \notin fresh' \cup taken' \cup {admin'.task}
      BY <2>1, <2>2, <2>5 DEF ApartInv
    <3>6. admin'.task \notin fresh' \cup taken' /\ fresh' \cap taken' = {}
      BY <2>2, <2>5 DEF ApartInv
    <3>7. QED  BY <3>1, <3>2, <3>3, <3>4, <3>5, <3>6 DEF ApartInv
  <2>7. SomewhereInv'
    BY <1>0, <1>2, <2>1, <2>2, <2>5 DEF SomewhereInv
  <2>8. QED  BY <2>6, <2>7
<1>7. CountInv'
  <2> SUFFICES ASSUME NEW p \in Prios
               PROVE  /\ IsFiniteSet(Contents(p)') /\ IsFiniteSet(Counting(p)')
                      /\ IsFiniteSet(Uncounting(p)') /\ Balance(p)' = Balance(p)
    BY DEF CountInv
  <2>1. Moving(p)' = Moving(p) /\ Uncounting(p)' = Uncounting(p)
    BY <1>0 DEF Moving, Uncounting, GetInv, TypeOK
  <2>2. Counting(p)' = IF p = idx[u] THEN Counting(p) \cup {u} ELSE Counting(p)
    BY ZenonT(30), <1>0 DEF Counting, TypeOK
  <2>3. IsFiniteSet(Contents(p)) /\ IsFiniteSet(Counting(p)) /\ IsFiniteSet(Uncounting(p))
    BY DEF CountInv
  <2>4. CASE p = idx[u]
    <3>1. task[u] \notin Contents(p) /\ u \notin Counting(p)
      BY <1>0, <1>1, <2>4 DEF Counting
    <3>2. IsFiniteSet(Contents(p)') /\ Cardinality(Contents(p)') = Cardinality(Contents(p)) + 1
      BY <1>2, <2>3, <2>4, <3>1, GrowsByOne
    <3>3. IsFiniteSet(Counting(p)') /\ Cardinality(Counting(p)') = Cardinality(Counting(p)) + 1
      BY <2>2, <2>3, <2>4, <3>1, GrowsByOne
    <3>4. /\ Cardinality(Contents(p)) \in Int /\ Cardinality(Counting(p)) \in Int
          /\ Cardinality(Uncounting(p)) \in Int /\ Moving(p) \in Int
      BY <2>3, FS_CardinalityType DEF Moving
    <3>5. QED  BY <2>1, <2>3, <3>2, <3>3, <3>4 DEF Balance
  <2>5. CASE p # idx[u]
    BY <1>2, <2>1, <2>2, <2>3, <2>5 DEF Balance
  <2>6. QED  BY <2>4, <2>5
<1>8. TopInv'
  <2>1. Raising(u, task[u], idx[u])'
    BY <1>0 DEF TypeOK, Raising
  <2>2. \A t, p : \A v \in Putters : Raising(v, t, p) => Raising(v, t, p)'
    BY <1>0 DEF TypeOK, Raising
  <2>3. \A t, p : Covered(t, p) => Covered(t, p)'
    BY <2>2 DEF Covered
  <2>4. Covered(task[u], idx[u])'
    BY <2>1 DEF Covered
  <2>5. \A p \in Prios : \A t \in Contents(p)' : Covered(t, p)'
    BY <1>2, <2>3, <2>4 DEF TopInv
  <2>6. QED  BY <2>3, <2>5 DEF TopInv
<1>9. QED  BY <1>2, <1>3, <1>4, <1>5, <1>6, <1>7, <1>8

(* The counter follows, modulo its width.                                  *)
LEMMA CountKeepsInv ==
    ASSUME IndInv, setup' = setup, NEW u \in Putters, Count(u)
    PROVE  IndInv'
<1> USE DomainConstants DEF IndInv, Count, Goto, Procs
<1>0. idx[u] \in Prios /\ pc[u] = "count"
  BY DEF PutInv
<1>1. TypeOK'
  <2>1. \A c \in 0 .. CountMod - 1 : Increment(c) \in 0 .. CountMod - 1
    BY DEF Increment
  <2>2. QED  BY <1>0, <2>1 DEF TypeOK
<1>2. PutInv' /\ GetInv'
  BY <1>0 DEF TypeOK, PutInv, GetInv
<1>3. AdminInv' /\ PointerInv' /\ QueueInv'
  BY SameContents DEF AdminInv, PointerInv, Served, QueueInv
<1>4. ApartInv' /\ SomewhereInv'
  BY <1>0, SameContents, SamePlaces DEF TypeOK, Holding
<1>5. CountInv'
  <2> SUFFICES ASSUME NEW p \in Prios
               PROVE  /\ IsFiniteSet(Contents(p)') /\ IsFiniteSet(Counting(p)')
                      /\ IsFiniteSet(Uncounting(p)') /\ count'[p] = (Balance(p)') % CountMod
    BY DEF CountInv
  <2>1. Moving(p)' = Moving(p) /\ Uncounting(p)' = Uncounting(p) /\ Contents(p)' = Contents(p)
    BY <1>0, SameContents DEF Moving, Uncounting, GetInv, TypeOK
  <2>2. Counting(p)' = IF p = idx[u] THEN Counting(p) \ {u} ELSE Counting(p)
    BY <1>0 DEF Counting, TypeOK
  <2>3. /\ IsFiniteSet(Contents(p)) /\ IsFiniteSet(Counting(p)) /\ IsFiniteSet(Uncounting(p))
        /\ count[p] = Balance(p) % CountMod
    BY DEF CountInv
  <2>4. CASE p = idx[u]
    <3>1. u \in Counting(p)
      BY <1>0, <2>4 DEF Counting
    <3>2. IsFiniteSet(Counting(p)') /\ Cardinality(Counting(p)') = Cardinality(Counting(p)) - 1
      BY <2>2, <2>3, <2>4, <3>1, ShrinksByOne
    <3>3. /\ Cardinality(Contents(p)) \in Int /\ Cardinality(Counting(p)) \in Int
          /\ Cardinality(Uncounting(p)) \in Int /\ Moving(p) \in Int
      BY <2>3, FS_CardinalityType DEF Moving
    <3>4. Balance(p) \in Int /\ Balance(p)' = Balance(p) + 1
      BY <2>1, <3>2, <3>3 DEF Balance
    <3>5. count'[p] = (count[p] + 1) % CountMod
      BY <1>0, <2>4 DEF TypeOK, Increment
    <3>6. count'[p] = (Balance(p) + 1) % CountMod
      BY <2>3, <3>4, <3>5, ModAdd
    <3>7. QED  BY <2>1, <2>3, <3>2, <3>4, <3>6
  <2>5. CASE p # idx[u]
    BY <1>0, <2>1, <2>2, <2>3, <2>5 DEF Balance, TypeOK
  <2>6. QED  BY <2>4, <2>5
<1>6. TopInv'
  BY <1>0, SameContents, SameTop DEF TypeOK
<1>7. QED  BY <1>1, <1>2, <1>3, <1>4, <1>5, <1>6

(* The conjuncts of TypeOK about the local variables of the callers.       *)
LocalTypes ==
    /\ pc \in [Procs -> {"absent", "idle", "create", "load", "push", "count", "top", "cas",
                         "check", "own", "popown", "global", "steal", "popsteal",
                         "uncount", "ret"}]
    /\ task \in [Procs -> Tasks \cup {None}]
    /\ dst \in [Procs -> Queues \cup {None}]
    /\ idx \in [Procs -> Prios \cup {-1}]
    /\ tid \in [Procs -> ThreadIds \cup {-1}]
    /\ scan \in [Procs -> ThreadIds \X (0 .. NumThreads)]
    /\ seen \in [Procs -> Prios]

(* A call that returns is idle and owns no task.                             *)
LEMMA ReturnEffect ==
    ASSUME TypeOK, NEW u \in Procs, Return(u)
    PROVE  /\ LocalTypes'
           /\ pc'[u] = "idle" /\ task'[u] = None
           /\ \A v \in Procs : v # u => UNCHANGED <<pc[v], task[v], dst[v], idx[v], seen[v]>>
<1>1. 0 \in ThreadIds /\ 0 \in Prios /\ 0 \in 0 .. NumThreads
  BY DomainConstants DEF ThreadIds, Prios
<1>2. LocalTypes'
  BY <1>1 DEF TypeOK, LocalTypes, Return, Goto
<1>3. QED  BY <1>2 DEF TypeOK, Return, Goto

(* put_task returns only when the index has reached its priority.          *)
LEMMA CompareTopKeepsInv ==
    ASSUME IndInv, setup' = setup, NEW u \in Putters, pc[u] \in {"top", "cas"},
           CompareTop(u), UNCHANGED <<shared, admin, fresh, taken>>
    PROVE  IndInv'
<1> USE DomainConstants DEF IndInv, CompareTop, Return, Goto, shared, Procs
<1>0. idx[u] \in Prios /\ top \in Prios /\ u \notin Getters
  BY DEF PutInv, TypeOK
<1>0a. /\ LocalTypes'
       /\ \A v \in Procs : v # u => UNCHANGED <<pc[v], task[v], dst[v], idx[v], seen[v]>>
       /\ \/ pc'[u] = "cas" /\ seen'[u] = top /\ idx[u] > top /\ UNCHANGED <<task, idx>>
          \/ pc'[u] = "idle" /\ task'[u] = None /\ idx[u] <= top
  <2>1. CASE idx[u] <= top
    <3>1. Return(u)
      BY <1>0, <2>1 DEF Prios
    <3>2. QED  BY <2>1, <3>1, ReturnEffect
  <2>2. CASE idx[u] > top
    <3>1. /\ seen' = [seen EXCEPT ![u] = top] /\ pc' = [pc EXCEPT ![u] = "cas"]
          /\ UNCHANGED <<task, dst, idx, tid, scan>>
      BY <1>0, <2>2 DEF Prios
    <3> HIDE DEF CompareTop
    <3>2. QED  BY <1>0, <2>2, <3>1 DEF TypeOK, LocalTypes
  <2>3. QED  BY <1>0, <2>1, <2>2 DEF Prios
<1> HIDE DEF CompareTop
<1>1. TypeOK'
  BY <1>0a DEF TypeOK, LocalTypes
<1>2. PutInv' /\ GetInv'
  <2>1. PutInv'
    BY <1>0, <1>0a DEF PutInv, Prios
  <2>2. GetInv'
    BY <1>0, <1>0a DEF GetInv
  <2>3. QED  BY <2>1, <2>2
<1>3. AdminInv' /\ PointerInv' /\ QueueInv'
  BY SameContents DEF AdminInv, PointerInv, Served, QueueInv
<1>4. ApartInv' /\ SomewhereInv'
  BY <1>0a, SameContents, SamePlaces DEF Holding
<1>5. CountInv'
  BY <1>0, <1>0a, SameContents, SameCounts
<1>6. TopInv'
  BY <1>0a, SameContents, SameTop
<1>7. QED  BY <1>1, <1>2, <1>3, <1>4, <1>5, <1>6

(* put_task reads _highest_prio before it compares.                          *)
LEMMA ReadTopKeepsInv ==
    ASSUME IndInv, setup' = setup, NEW u \in Putters, ReadTop(u)
    PROVE  IndInv'
BY CompareTopKeepsInv DEF ReadTop

(* The exchange raises the index: it succeeds only where the index is      *)
(* still the lower value that was compared.                                *)
LEMMA CasTopKeepsInv ==
    ASSUME IndInv, setup' = setup, NEW u \in Putters, CasTop(u)
    PROVE  IndInv'
<1>1. CASE ~CasSucceeds(u)
  BY <1>1, CompareTopKeepsInv DEF CasTop, shared
<1>2. CASE CasSucceeds(u)
  <2> USE DomainConstants DEF IndInv, CasTop, CasSucceeds, Return, Goto, Procs
  <2>0. /\ idx[u] \in Prios /\ pc[u] = "cas" /\ top < idx[u] /\ top \in Prios
        /\ top' = idx[u] /\ Return(u) /\ u \notin Getters
    BY <1>2 DEF PutInv, TypeOK
  <2>0a. /\ LocalTypes'
         /\ pc'[u] = "idle" /\ task'[u] = None
         /\ \A v \in Procs : v # u => UNCHANGED <<pc[v], task[v], dst[v], idx[v], seen[v]>>
    BY <2>0, ReturnEffect
  <2> HIDE DEF Return
  <2>1. TypeOK'
    BY <2>0, <2>0a DEF TypeOK, LocalTypes
  <2>2. PutInv' /\ GetInv'
    BY <2>0, <2>0a DEF PutInv, GetInv
  <2>3. AdminInv' /\ PointerInv' /\ QueueInv'
    BY SameContents DEF AdminInv, PointerInv, Served, QueueInv
  <2>4. ApartInv' /\ SomewhereInv'
    BY <2>0, <2>0a, SameContents, SamePlaces DEF Holding
  <2>5. CountInv'
    BY <2>0, <2>0a, SameContents, SameCounts
  <2>6. TopInv'
    <3>1. \A t, p : \A v \in Putters : v # u /\ Raising(v, t, p) => Raising(v, t, p)'
      BY <2>0, <2>0a DEF Raising
    <3>2. \A t : \A p \in Prios : Covered(t, p) => Covered(t, p)'
      BY <2>0, <3>1 DEF Covered, Raising, Prios
    <3>3. QED  BY <3>2, SameContents DEF TopInv
  <2>7. QED  BY <2>1, <2>2, <2>3, <2>4, <2>5, <2>6
<1>3. QED  BY <1>1, <1>2

(* A step of try_get_task that only looks: no task moves.                  *)
LEMMA LookingKeepsInv ==
    ASSUME IndInv, setup' = setup, NEW u \in Getters, UNCHANGED <<shared, task, seen>>,
           UNCHANGED <<admin, fresh, taken>>, LocalTypes', pc[u] # "uncount", task[u] = None,
           pc'[u] \in {"check", "own", "popown", "steal", "popsteal", "ret"},
           pc'[u] \notin {"check", "ret"} => idx'[u] \in Prios,
           \A v \in Procs : v # u => UNCHANGED <<pc[v], dst[v], idx[v]>>
    PROVE  IndInv'
<1> USE DomainConstants DEF IndInv, shared, Procs
<1>1. TypeOK'
  BY DEF TypeOK, LocalTypes
<1>2. PutInv'
  BY DEF PutInv
<1>3. GetInv'
  BY DEF GetInv
<1>4. AdminInv' /\ PointerInv' /\ QueueInv'
  <2>1. AdminInv' /\ PointerInv'
    BY DEF AdminInv, PointerInv, Served
  <2>2. queue' = queue /\ created' = created
    OBVIOUS
  <2>3. QueueInv'
    BY <2>2, SameQueues
  <2>4. QED  BY <2>1, <2>3
<1>5. ApartInv' /\ SomewhereInv'
  BY SameContents, SamePlaces DEF Holding
<1>6. CountInv'
  BY SameContents, SameCounts
<1>7. TopInv'
  BY SameContents, SameTop
<1>8. QED  BY <1>1, <1>2, <1>3, <1>4, <1>5, <1>6, <1>7

(* try_get_task starts its search at _highest_prio.                          *)
LEMMA GetTaskKeepsInv ==
    ASSUME IndInv, setup' = setup, NEW u \in Getters, NEW i \in ThreadIds, GetTask(u, i)
    PROVE  IndInv'
<1> USE DEF IndInv, GetTask, Goto, Procs
<1>1. pc[u] # "uncount" /\ task[u] = None
  BY DEF GetInv
<1>2. LocalTypes'
  BY DEF TypeOK, LocalTypes
<1>3. QED  BY <1>1, <1>2, LookingKeepsInv DEF TypeOK

(* It looks at the counter of a priority and goes on with the next lower one *)
(* when there is nothing to take.                                            *)
LEMMA CheckKeepsInv ==
    ASSUME IndInv, setup' = setup, NEW u \in Getters, Check(u)
    PROVE  IndInv'
<1> USE DEF IndInv, Check, Goto, Procs
<1>1. pc[u] # "uncount" /\ task[u] = None
  BY DEF GetInv
<1>2. idx'[u] \in Prios \cup {-1} /\ (pc'[u] = "own" => idx'[u] \in Prios)
      /\ pc'[u] \in {"check", "own", "ret"}
  <2>1. idx[u] \in Prios \cup {-1} /\ idx \in [Procs -> Prios \cup {-1}]
        /\ pc' \in {[pc EXCEPT ![u] = l] : l \in {"ret", "own"}} \cup {pc}
        /\ pc[u] = "check" /\ u \in DOMAIN pc
    BY DEF TypeOK
  <2>2. CASE idx[u] < 0
    <3>1. pc' = [pc EXCEPT ![u] = "ret"] /\ idx' = idx
      BY <2>1, <2>2, DomainConstants DEF Prios
    <3> HIDE DEF Check
    <3>2. QED  BY <2>1, <3>1
  <2>3. CASE idx[u] >= 0
    <3>1. idx[u] \in Prios /\ idx[u] - 1 \in Prios \cup {-1}
      BY <2>1, <2>3, DomainConstants DEF Prios
    <3>2. idx'[u] \in {idx[u], idx[u] - 1} /\ (idx' = idx \/ pc' = pc)
      BY <2>1, <2>3
    <3>3. QED  BY <2>1, <3>1, <3>2
  <2>4. QED  BY <2>1, <2>2, <2>3, DomainConstants DEF Prios
<1>3. LocalTypes'
  BY ZenonT(30), <1>2 DEF TypeOK, LocalTypes
<1>4. \A v \in Procs : v # u => UNCHANGED <<pc[v], dst[v], idx[v]>>
  BY DEF TypeOK
<1>5. QED  BY <1>1, <1>2, <1>3, <1>4, LookingKeepsInv

(* It loads the pointer of its own queue.                                    *)
LEMMA LoadOwnKeepsInv ==
    ASSUME IndInv, setup' = setup, NEW u \in Getters, LoadOwn(u)
    PROVE  IndInv'
<1> USE DEF IndInv, LoadOwn, Goto, Procs
<1>1. pc[u] # "uncount" /\ task[u] = None /\ idx[u] \in Prios
  BY DEF GetInv
<1>2. ThreadQueue(idx[u], tid[u]) \in Queues \cup {None}
  BY <1>1 DEF TypeOK, ThreadQueue
<1>3. LocalTypes'
  BY <1>2 DEF TypeOK, LocalTypes
<1>4. \A v \in Procs : v # u => UNCHANGED <<pc[v], dst[v], idx[v]>>
  BY DEF TypeOK
<1>5. QED  BY <1>1, <1>3, <1>4, LookingKeepsInv DEF TypeOK

(* It loads the queue pointer of another thread, to steal from.              *)
LEMMA LoadStealKeepsInv ==
    ASSUME IndInv, setup' = setup, NEW u \in Getters, LoadSteal(u)
    PROVE  IndInv'
<1> USE DEF IndInv, LoadSteal, Goto, Procs
<1>1. pc[u] # "uncount" /\ task[u] = None /\ idx[u] \in Prios
  BY DEF GetInv
<1>2. ThreadQueue(idx[u], scan[u][1]) \in Queues \cup {None}
  BY <1>1 DEF TypeOK, ThreadQueue
<1>3. scan[u] \in ThreadIds \X (0 .. NumThreads)
  BY DEF TypeOK
<1>4. /\ (scan[u][1] + 1) % NumThreads \in ThreadIds
      /\ scan[u][2] > 0 => scan[u][2] - 1 \in 0 .. NumThreads
  BY <1>3, DomainConstants DEF ThreadIds
<1>5. idx[u] - 1 \in Prios \cup {-1}
  BY <1>1, DomainConstants DEF Prios
<1>6. LocalTypes'
  <2>1. scan' \in [Procs -> ThreadIds \X (0 .. NumThreads)]
    <3>1. \/ scan' = scan
          \/ scan' = [scan EXCEPT ![u] = <<(scan[u][1] + 1) % NumThreads, scan[u][2] - 1>>]
             /\ scan[u][2] > 0
      BY DEF TypeOK
    <3>2. scan \in [Procs -> ThreadIds \X (0 .. NumThreads)]
      BY DEF TypeOK
    <3>3. scan[u][2] > 0 =>
              <<(scan[u][1] + 1) % NumThreads, scan[u][2] - 1>> \in ThreadIds \X (0 .. NumThreads)
      BY <1>4
    <3> HIDE DEF LoadSteal, IndInv
    <3>4. QED  BY <3>1, <3>2, <3>3
  <2>1a. dst' \in [Procs -> Queues \cup {None}]
    BY <1>2 DEF TypeOK
  <2>2. idx' \in [Procs -> Prios \cup {-1}]
    BY <1>5 DEF TypeOK
  <2>3. QED  BY ZenonT(30), <2>1, <2>1a, <2>2 DEF TypeOK, LocalTypes
<1>7. \A v \in Procs : v # u => UNCHANGED <<pc[v], dst[v], idx[v]>>
  BY DEF TypeOK
<1>8. pc'[u] \in {"check", "popsteal"} /\ (pc'[u] = "popsteal" => idx'[u] \in Prios)
  BY <1>1 DEF TypeOK
<1>9. QED  BY <1>1, <1>6, <1>7, <1>8, LookingKeepsInv

(* try_pop_front hands the popped task to its caller alone; an empty queue *)
(* or a missing one leaves everything as it was.                           *)
LEMMA TryPopKeepsInv ==
    ASSUME IndInv, setup' = setup, NEW u \in Getters, NEW q \in Queues \cup {None},
           NEW miss \in {"global", "steal"}, pc[u] \in {"popown", "global", "popsteal"},
           TryPop(u, q, "uncount", miss),
           UNCHANGED <<created, count, ptr, made, active, top>>,
           UNCHANGED <<dst, idx, tid, seen, admin, fresh, taken>>,
           scan' \in [Procs -> ThreadIds \X (0 .. NumThreads)]
    PROVE  IndInv'
<1> USE DomainConstants DEF IndInv, Procs
<1>0. idx[u] \in Prios /\ u \notin Putters /\ ~Holding(u) /\ task[u] = None
  BY DEF GetInv, Holding
<1>1. CASE ~(q # None /\ queue[idx[u]][q] # <<>>)
  <2>1. queue' = queue /\ task' = task /\ pc' = [pc EXCEPT ![u] = miss]
    BY <1>1 DEF TryPop, Goto
  <2>2. TypeOK'
    BY <2>1 DEF TypeOK
  <2>3. PutInv' /\ GetInv'
    BY <1>0, <2>1 DEF TypeOK, PutInv, GetInv
  <2>4. AdminInv' /\ PointerInv' /\ QueueInv'
    BY <2>1, SameQueues DEF AdminInv, PointerInv, Served
  <2>5. ApartInv' /\ SomewhereInv'
    BY <2>1, SameContents, SamePlaces DEF TypeOK, Holding
  <2>6. CountInv'
    BY <1>0, <2>1, SameContents, SameCounts DEF TypeOK
  <2>7. TopInv'
    BY <1>0, <2>1, SameContents, SameTop DEF TypeOK
  <2>8. QED  BY <2>2, <2>3, <2>4, <2>5, <2>6, <2>7
<1>2. CASE q # None /\ queue[idx[u]][q] # <<>>
  <2> DEFINE t == Head(queue[idx[u]][q])
  <2>1. /\ q \in Queues
        /\ PopFront(idx[u], q)
        /\ task' = [task EXCEPT ![u] = t] /\ pc' = [pc EXCEPT ![u] = "uncount"]
    BY <1>2 DEF TryPop, Goto
  <2>2. /\ queue' \in [Prios -> [Queues -> Seq(Tasks)]]
        /\ t \in Tasks /\ t \in Contents(idx[u]) /\ created[idx[u]] /\ QueueInv'
        /\ \A p \in Prios : Contents(p)' = IF p = idx[u] THEN Contents(p) \ {t} ELSE Contents(p)
        /\ \A p \in Prios : t \notin Contents(p)'
    BY <1>0, <1>2, <2>1, PopEffect
  <2> HIDE DEF t
  <2>3. TypeOK'
    BY <2>1, <2>2 DEF TypeOK
  <2>4. PutInv' /\ GetInv'
    BY ZenonT(30), <1>0, <2>1, <2>2 DEF TypeOK, PutInv, GetInv
  <2>5. AdminInv' /\ PointerInv'
    BY DEF AdminInv, PointerInv, Served
  <2>6. ApartInv' /\ SomewhereInv'
    <3>1. /\ \A v \in Procs : Holding(v)' <=> Holding(v) \/ v = u
          /\ \A v \in Procs : task'[v] = IF v = u THEN t ELSE task[v]
      BY <1>0, <2>1, <2>2 DEF TypeOK, Holding
    <3>2. t # admin.task /\ t \notin fresh \cup taken
      BY <2>2, <1>0 DEF ApartInv
    <3>3. \A v \in Procs : Holding(v) => task[v] # t
      BY <2>2, <1>0 DEF ApartInv
    <3>4. \A p \in Prios : Contents(p)' \subseteq Contents(p)
      BY <2>2
    <3>5. UNCHANGED <<admin, fresh, taken>> /\ ApartInv /\ SomewhereInv /\ u \in Procs
      OBVIOUS
    <3> HIDE DEF IndInv
    <3>6. ApartInv'
      <4>1. \A v \in Procs, p \in Prios : Holding(v)' => task'[v] \notin Contents(p)'
        <5> SUFFICES ASSUME NEW v \in Procs, NEW p \in Prios, Holding(v)'
                     PROVE  task'[v] \notin Contents(p)'
          OBVIOUS
        <5>1. CASE v = u
          BY <2>2, <3>1, <5>1
        <5>2. CASE v # u
          <6>1. Holding(v) /\ task'[v] = task[v]
            BY <3>1, <5>2
          <6>2. QED  BY <3>4, <3>5, <6>1 DEF ApartInv
        <5>3. QED  BY <5>1, <5>2
      <4>2. \A p \in Prios : admin'.task \notin Contents(p)'
        BY <3>4, <3>5 DEF ApartInv
      <4>3. \A p \in Prios : Contents(p)' \cap (fresh' \cup taken') = {}
        BY <3>4, <3>5 DEF ApartInv
      <4>4. \A v, w \in Procs : Holding(v)' /\ Holding(w)' /\ task'[v] = task'[w] => v = w
        BY <3>1, <3>3, <3>5 DEF ApartInv
      <4>5. \A v \in Procs : Holding(v)' => task'[v] \notin fresh' \cup taken' \cup {admin'.task}
        BY <3>1, <3>2, <3>5 DEF ApartInv
      <4>6. admin'.task \notin fresh' \cup taken' /\ fresh' \cap taken' = {}
        BY <3>5 DEF ApartInv
      <4>7. QED  BY <4>1, <4>2, <4>3, <4>4, <4>5, <4>6 DEF ApartInv
    <3>7. SomewhereInv'
      <4>1. \A s \in Tasks : s # t => \A p \in Prios : s \in Contents(p) => s \in Contents(p)'
        BY <2>2
      <4>2. \A v \in Procs : Holding(v) => Holding(v)' /\ task'[v] = task[v]
        BY <1>0, <3>1
      <4>3. Holding(u)' /\ task'[u] = t
        BY <3>1, <3>5
      <4>4. QED  BY <4>1, <4>2, <4>3, <3>5 DEF SomewhereInv
    <3>8. QED  BY <3>6, <3>7
  <2>7. CountInv'
    <3> SUFFICES ASSUME NEW p \in Prios
                 PROVE  /\ IsFiniteSet(Contents(p)') /\ IsFiniteSet(Counting(p)')
                        /\ IsFiniteSet(Uncounting(p)') /\ Balance(p)' = Balance(p)
      BY DEF CountInv
    <3>1. Moving(p)' = Moving(p) /\ Counting(p)' = Counting(p)
      BY <1>0, <2>1 DEF Moving, Counting, TypeOK
    <3>2. Uncounting(p)' = IF p = idx[u] THEN Uncounting(p) \cup {u} ELSE Uncounting(p)
      <4>1. /\ idx' = idx /\ pc'[u] = "uncount" /\ pc[u] # "uncount"
            /\ \A v \in Procs : v # u => pc'[v] = pc[v]
        BY <2>1 DEF TypeOK
      <4>2. QED  BY <4>1 DEF Uncounting
    <3>3. IsFiniteSet(Contents(p)) /\ IsFiniteSet(Counting(p)) /\ IsFiniteSet(Uncounting(p))
      BY DEF CountInv
    <3>4. CASE p = idx[u]
      <4>1. t \in Contents(p) /\ u \notin Uncounting(p)
        BY <2>2, <3>4 DEF Uncounting
      <4>2. IsFiniteSet(Contents(p)') /\ Cardinality(Contents(p)') = Cardinality(Contents(p)) - 1
        BY <2>2, <3>3, <3>4, <4>1, ShrinksByOne
      <4>3. /\ IsFiniteSet(Uncounting(p)')
            /\ Cardinality(Uncounting(p)') = Cardinality(Uncounting(p)) + 1
        BY <3>2, <3>3, <3>4, <4>1, GrowsByOne
      <4>4. /\ Cardinality(Contents(p)) \in Int /\ Cardinality(Counting(p)) \in Int
            /\ Cardinality(Uncounting(p)) \in Int /\ Moving(p) \in Int
        BY <3>3, FS_CardinalityType DEF Moving
      <4>5. QED  BY <3>1, <3>3, <4>2, <4>3, <4>4 DEF Balance
    <3>5. CASE p # idx[u]
      BY <2>2, <3>1, <3>2, <3>3, <3>5 DEF Balance
    <3>6. QED  BY <3>4, <3>5
  <2>8. TopInv'
    <3>1. \A v \in Putters : UNCHANGED <<pc[v], task[v], idx[v]>>
      BY <1>0, <2>1 DEF TypeOK
    <3>2. \A s, p : Covered(s, p) => Covered(s, p)'
      BY <3>1 DEF Covered, Raising
    <3>3. QED  BY <2>2, <3>2 DEF TopInv
  <2>9. QED  BY <2>2, <2>3, <2>4, <2>5, <2>6, <2>7, <2>8
<1>3. QED  BY <1>1, <1>2

(* It pops from its own queue,                                               *)
LEMMA PopOwnKeepsInv ==
    ASSUME IndInv, setup' = setup, NEW u \in Getters, PopOwn(u)
    PROVE  IndInv'
<1>1. dst[u] \in Queues \cup {None} /\ scan' \in [Procs -> ThreadIds \X (0 .. NumThreads)]
  BY DEF IndInv, TypeOK, Procs, PopOwn
<1>2. QED  BY <1>1, TryPopKeepsInv DEF PopOwn

(* from the global queue of the priority,                                    *)
LEMMA PopGlobalKeepsInv ==
    ASSUME IndInv, setup' = setup, NEW u \in Getters, PopGlobal(u)
    PROVE  IndInv'
<1>1. Global \in Queues /\ scan' \in [Procs -> ThreadIds \X (0 .. NumThreads)]
  <2>1. scan \in [Procs -> ThreadIds \X (0 .. NumThreads)] /\ NumThreads \in 0 .. NumThreads
    BY DomainConstants DEF IndInv, TypeOK
  <2>2. \/ scan' = scan
        \/ \E i \in ThreadIds : scan' = [scan EXCEPT ![u] = <<i, NumThreads>>]
    BY DEF PopGlobal
  <2>3. QED  BY <2>1, <2>2 DEF Queues
<1>2. QED  BY <1>1, TryPopKeepsInv DEF PopGlobal

(* or from the queue of another thread.                                      *)
LEMMA PopStealKeepsInv ==
    ASSUME IndInv, setup' = setup, NEW u \in Getters, PopSteal(u)
    PROVE  IndInv'
<1>1. dst[u] \in Queues \cup {None} /\ scan' \in [Procs -> ThreadIds \X (0 .. NumThreads)]
  BY DEF IndInv, TypeOK, Procs, PopSteal
<1>2. QED  BY <1>1, TryPopKeepsInv DEF PopSteal

(* The task is popped, and now counted off.                                *)
LEMMA UncountKeepsInv ==
    ASSUME IndInv, setup' = setup, NEW u \in Getters, Uncount(u)
    PROVE  IndInv'
<1> USE DomainConstants DEF IndInv, Uncount, Goto, Procs
<1>0. idx[u] \in Prios /\ pc[u] = "uncount" /\ u \notin Putters
  BY DEF GetInv
<1>1. TypeOK'
  <2>1. \A c \in 0 .. CountMod - 1 : Decrement(c) \in 0 .. CountMod - 1
    BY DEF Decrement
  <2>2. QED  BY <1>0, <2>1 DEF TypeOK
<1>2. PutInv' /\ GetInv'
  BY <1>0 DEF TypeOK, PutInv, GetInv
<1>3. AdminInv' /\ PointerInv' /\ QueueInv'
  BY SameQueues DEF AdminInv, PointerInv, Served
<1>4. ApartInv' /\ SomewhereInv'
  BY <1>0, SameContents, SamePlaces DEF TypeOK, Holding
<1>5. CountInv'
  <2> SUFFICES ASSUME NEW p \in Prios
               PROVE  /\ IsFiniteSet(Contents(p)') /\ IsFiniteSet(Counting(p)')
                      /\ IsFiniteSet(Uncounting(p)') /\ count'[p] = (Balance(p)') % CountMod
    BY DEF CountInv
  <2>1. Moving(p)' = Moving(p) /\ Counting(p)' = Counting(p) /\ Contents(p)' = Contents(p)
    BY <1>0, SameContents DEF Moving, Counting, TypeOK
  <2>2. Uncounting(p)' = IF p = idx[u] THEN Uncounting(p) \ {u} ELSE Uncounting(p)
    BY <1>0 DEF Uncounting, TypeOK
  <2>3. /\ IsFiniteSet(Contents(p)) /\ IsFiniteSet(Counting(p)) /\ IsFiniteSet(Uncounting(p))
        /\ count[p] = Balance(p) % CountMod
    BY DEF CountInv
  <2>4. CASE p = idx[u]
    <3>1. u \in Uncounting(p)
      BY <1>0, <2>4 DEF Uncounting
    <3>2. /\ IsFiniteSet(Uncounting(p)')
          /\ Cardinality(Uncounting(p)') = Cardinality(Uncounting(p)) - 1
      BY <2>2, <2>3, <2>4, <3>1, ShrinksByOne
    <3>3. /\ Cardinality(Contents(p)) \in Int /\ Cardinality(Counting(p)) \in Int
          /\ Cardinality(Uncounting(p)) \in Int /\ Moving(p) \in Int
      BY <2>3, FS_CardinalityType DEF Moving
    <3>4. Balance(p) \in Int /\ Balance(p)' = Balance(p) + (-1)
      BY <2>1, <3>2, <3>3 DEF Balance
    <3>5. count[p] \in Int /\ count'[p] = (count[p] + (-1)) % CountMod
      BY <1>0, <2>4 DEF TypeOK, Decrement
    <3>6. count'[p] = (Balance(p) + (-1)) % CountMod
      BY <2>3, <3>4, <3>5, ModAdd
    <3>7. QED  BY <2>1, <2>3, <3>2, <3>4, <3>6
  <2>5. CASE p # idx[u]
    BY <1>0, <2>1, <2>2, <2>3, <2>5 DEF Balance, TypeOK
  <2>6. QED  BY <2>4, <2>5
<1>6. TopInv'
  BY <1>0, SameContents, SameTop DEF TypeOK
<1>7. QED  BY <1>1, <1>2, <1>3, <1>4, <1>5, <1>6

(* try_get_task hands its task over to the worker.                         *)
LEMMA GetReturnsKeepsInv ==
    ASSUME IndInv, setup' = setup, NEW u \in Getters, GetReturns(u)
    PROVE  IndInv'
<1> USE DomainConstants DEF IndInv, GetReturns, shared, Procs
<1>0. /\ LocalTypes' /\ pc'[u] = "idle" /\ task'[u] = None /\ u \notin Putters /\ pc[u] = "ret"
      /\ \A v \in Procs : v # u => UNCHANGED <<pc[v], task[v], dst[v], idx[v], seen[v]>>
  BY ReturnEffect
<1>1. TypeOK'
  <2>1. taken' \subseteq Tasks
    BY DEF TypeOK
  <2>2. QED  BY <1>0, <2>1 DEF TypeOK, LocalTypes
<1>2. PutInv' /\ GetInv'
  BY <1>0 DEF PutInv, GetInv
<1>3. AdminInv' /\ PointerInv' /\ QueueInv'
  BY SameQueues DEF AdminInv, PointerInv, Served
<1>4. ApartInv' /\ SomewhereInv'
  <2>1. /\ Holding(u) <=> task[u] # None
        /\ \A v \in Procs : Holding(v)' <=> Holding(v) /\ v # u
    BY <1>0 DEF Holding
  <2>2. UNCHANGED <<admin, fresh>> /\ taken' = taken \cup ({task[u]} \ {None})
    OBVIOUS
  <2>3. \A p \in Prios : Contents(p)' = Contents(p)
    BY SameContents
  <2>4. None \notin fresh \cup taken
    BY DEF TypeOK
  <2>5. ApartInv /\ SomewhereInv /\ u \in Procs
    OBVIOUS
  <2> HIDE DEF IndInv, GetReturns
  <2>6. ApartInv'
    BY <1>0, <2>1, <2>2, <2>3, <2>4, <2>5 DEF ApartInv
  <2>7. SomewhereInv'
    BY <1>0, <2>1, <2>2, <2>3, <2>5 DEF SomewhereInv
  <2>8. QED  BY <2>6, <2>7
<1>5. CountInv'
  BY <1>0, SameContents, SameCounts
<1>6. TopInv'
  BY <1>0, SameContents, SameTop
<1>7. QED  BY <1>1, <1>2, <1>3, <1>4, <1>5, <1>6

(* add_thread and remove_thread: steps that only change pointers, the set  *)
(* of active threads and their own progress.                               *)
LEMMA AdminKeepsOthers ==
    ASSUME IndInv, setup' = setup, UNCHANGED <<created, count, queue, top>>,
           UNCHANGED locals, UNCHANGED <<fresh, taken>>,
           admin'.task = admin.task, admin.task # None => admin'.prio = admin.prio
    PROVE  /\ PutInv' /\ GetInv' /\ QueueInv' /\ ApartInv' /\ SomewhereInv' /\ CountInv'
           /\ TopInv'
<1> USE DEF IndInv, locals
<1>1. PutInv'
  BY DEF PutInv
<1>2. GetInv'
  BY DEF GetInv
<1>3. QueueInv'
  BY SameQueues
<1>4. ApartInv' /\ SomewhereInv'
  BY SameContents, SamePlaces DEF Holding
<1>5. CountInv'
  BY SameContents, SameCounts
<1>6. TopInv'
  BY SameContents, SameTop
<1>7. QED  BY <1>1, <1>2, <1>3, <1>4, <1>5, <1>6

(* The conjunct of TypeOK about add_thread and remove_thread.                *)
AdminType ==
    admin \in [op : {"none", "add", "remove", "drain"}, id : ThreadIds,
               prio : Prios \cup {MaxPriority + 1},
               task : Tasks \cup {None}, queue : Queues \cup {None}]

(* Their steps keep the types when they write well-typed pointers only.      *)
LEMMA AdminTypes ==
    ASSUME TypeOK, setup' = setup, UNCHANGED <<created, count, queue, top>>,
           UNCHANGED locals, UNCHANGED <<fresh, taken>>,
           ptr' \in [Prios -> [ThreadIds -> Queues \cup {None}]],
           made' \in [ThreadIds -> 0 .. MaxQueues], active' \subseteq ThreadIds, AdminType'
    PROVE  TypeOK'
BY DEF TypeOK, locals, AdminType

(* No call in progress is a possible value of admin.                         *)
LEMMA IdleType ==
    /\ Idle \in [op : {"none", "add", "remove", "drain"}, id : ThreadIds,
                 prio : Prios \cup {MaxPriority + 1},
                 task : Tasks \cup {None}, queue : Queues \cup {None}]
    /\ 0 \in ThreadIds /\ 0 \in Prios
BY DomainConstants DEF Idle, ThreadIds, Prios

(* add_thread makes the thread active, before it has any queue.              *)
LEMMA AddThreadKeepsInv ==
    ASSUME IndInv, setup' = setup, NEW i \in ThreadIds, AddThread(i)
    PROVE  IndInv'
<1> USE DomainConstants DEF IndInv, AddThread, Idle
<1>0. admin.op = "none" /\ admin.task = None /\ admin'.task = None
  BY DEF AdminInv
<1>1. TypeOK'
  <2>1. made' \in [ThreadIds -> 0 .. MaxQueues]
    BY SMTT(30) DEF TypeOK
  <2>2. admin' = [op |-> "add", id |-> i, prio |-> 0, task |-> None, queue |-> None]
    OBVIOUS
  <2>3. AdminType'
    BY <2>2, IdleType DEF AdminType
  <2>4. QED  BY <2>1, <2>3, AdminTypes DEF TypeOK
<1>2. AdminInv'
  BY <1>0 DEF TypeOK, AdminInv
<1>3. PointerInv'
  <2>1. \A p \in Prios : Served(p) = active /\ Served(p)' = active
    BY <1>0 DEF Served, Prios
  <2>2. QED  BY <2>1 DEF PointerInv
<1>4. QED  BY <1>0, <1>1, <1>2, <1>3, AdminKeepsOthers

(* register_thread gives the thread its queue in one more collection.      *)
LEMMA RegisterKeepsInv ==
    ASSUME IndInv, setup' = setup, Register
    PROVE  IndInv'
<1> USE DomainConstants DEF IndInv, Register
<1>0. /\ admin.op = "add" /\ admin.prio \in Prios /\ admin.id \in ThreadIds
      /\ admin.id \notin active /\ admin.task = None /\ admin'.task = None
      /\ admin' = [admin EXCEPT !.prio = @ + 1]
      /\ QueueOf(admin.id) \in Queues
  <2>1. QueueOf(admin.id) \in Queues
    BY DEF TypeOK, AdminInv, QueueOf, Queues
  <2>2. QED  BY <2>1 DEF TypeOK, AdminInv
<1>1. TypeOK'
  <2>1. ptr' \in [Prios -> [ThreadIds -> Queues \cup {None}]]
    BY <1>0 DEF TypeOK
  <2>2. admin.prio + 1 \in Prios \cup {MaxPriority + 1}
    BY <1>0 DEF Prios
  <2>3. QED  BY <1>0, <2>1, <2>2 DEF TypeOK, locals
<1>2. AdminInv'
  BY <1>0 DEF TypeOK, AdminInv
<1>3. PointerInv'
  <2> SUFFICES ASSUME NEW p \in Prios, created[p]
               PROVE  {i \in ThreadIds : ptr'[p][i] # None} = Served(p)'
    BY DEF PointerInv
  <2>1. {i \in ThreadIds : ptr[p][i] # None} = Served(p)
    BY DEF PointerInv
  <2>2. CASE p = admin.prio
    <3>1. Served(p) = active /\ Served(p)' = active \cup {admin.id}
      BY SMTT(30), <1>0, <2>2 DEF Served, Prios, TypeOK
    <3>2. ptr[p][admin.id] = None
      BY <1>0, <2>1, <3>1
    <3>3. ptr'[p] = [ptr[p] EXCEPT ![admin.id] = QueueOf(admin.id)]
      BY <1>0, <2>2, <3>2 DEF TypeOK
    <3>4. ptr[p] \in [ThreadIds -> Queues \cup {None}]
      BY DEF TypeOK
    <3>5. QED  BY <1>0, <2>1, <3>1, <3>3, <3>4
  <2>3. CASE p # admin.prio
    <3>1. Served(p)' = Served(p)
      <4>1. /\ admin'.op = "add" /\ admin'.id = admin.id /\ admin'.prio = admin.prio + 1
            /\ active' = active
        BY <1>0 DEF TypeOK
      <4>2. p < admin.prio + 1 <=> p < admin.prio
        BY <1>0, <2>3 DEF Prios
      <4>3. QED  BY <1>0, <4>1, <4>2 DEF Served
    <3>2. ptr'[p] = ptr[p]
      BY <1>0, <2>3 DEF TypeOK
    <3>3. QED  BY <2>1, <3>1, <3>2
  <2>4. QED  BY <2>2, <2>3
<1>4. QED  BY <1>0, <1>1, <1>2, <1>3, AdminKeepsOthers

(* add_thread returns when every collection has the queue.                   *)
LEMMA AddReturnsKeepsInv ==
    ASSUME IndInv, setup' = setup, AddReturns
    PROVE  IndInv'
<1> USE DomainConstants DEF IndInv, AddReturns, Idle
<1>0. /\ admin.op = "add" /\ admin.prio = MaxPriority + 1 /\ admin.id \in ThreadIds
      /\ admin.task = None /\ admin'.task = None /\ admin'.op = "none"
  BY DEF TypeOK, AdminInv
<1>1. TypeOK'
  <2>1. AdminType' /\ active' \subseteq ThreadIds
    BY <1>0, IdleType DEF AdminType, TypeOK
  <2>2. QED  BY <2>1, AdminTypes DEF TypeOK
<1>2. AdminInv'
  BY <1>0 DEF TypeOK, AdminInv
<1>3. PointerInv'
  <2>1. \A p \in Prios : Served(p) = active \cup {admin.id} /\ Served(p)' = active'
    BY <1>0 DEF Served, Prios
  <2>2. QED  BY <2>1 DEF PointerInv
<1>4. QED  BY <1>0, <1>1, <1>2, <1>3, AdminKeepsOthers

(* remove_thread starts; the thread has no more workers.                     *)
LEMMA RemoveThreadKeepsInv ==
    ASSUME IndInv, setup' = setup, NEW i \in ThreadIds, RemoveThread(i)
    PROVE  IndInv'
<1> USE DomainConstants DEF IndInv, RemoveThread, Idle, shared
<1>0. /\ admin.op = "none" /\ admin.task = None /\ admin'.task = None
      /\ admin' = [op |-> "remove", id |-> i, prio |-> 0, task |-> None, queue |-> None]
  BY DEF AdminInv
<1>1. TypeOK'
  <2>1. AdminType'
    BY <1>0, IdleType DEF AdminType
  <2>2. QED  BY <2>1, AdminTypes DEF TypeOK
<1>2. AdminInv'
  BY <1>0 DEF TypeOK, AdminInv
<1>3. PointerInv'
  <2>1. \A p \in Prios : Served(p) = active /\ Served(p)' = active
    BY <1>0 DEF Served, Prios
  <2>2. QED  BY <2>1 DEF PointerInv
<1>4. QED  BY <1>0, <1>1, <1>2, <1>3, AdminKeepsOthers

(* deregister_thread finds the queue pointer that it dereferences.         *)
LEMMA DetachKeepsInv ==
    ASSUME IndInv, setup' = setup, Detach
    PROVE  IndInv'
<1> USE DomainConstants DEF IndInv, Detach
<1>0. /\ admin.op = "remove" /\ admin.prio \in Prios /\ admin.id \in active
      /\ admin.id \in ThreadIds /\ admin.task = None /\ admin'.task = None
      /\ admin'.id = admin.id /\ active' = active
  <2>1. AdminType
    BY DEF TypeOK, AdminType
  <2>2. admin.op = "remove" /\ admin.prio \in Prios /\ active' = active
    OBVIOUS
  <2>3. admin.id \in active /\ admin.task = None
    BY <2>2 DEF AdminInv
  <2>4. \/ admin' = [admin EXCEPT !.op = "drain", !.queue = ptr[admin.prio][admin.id]]
        \/ admin' = [admin EXCEPT !.prio = @ + 1]
    OBVIOUS
  <2> HIDE DEF IndInv, Detach
  <2>5. admin.id \in ThreadIds /\ admin'.task = admin.task /\ admin'.id = admin.id
    BY <2>1, <2>4 DEF AdminType
  <2>6. QED  BY <2>2, <2>3, <2>5
<1>1. ASSUME created[admin.prio]
      PROVE  /\ admin' = [admin EXCEPT !.op = "drain", !.queue = ptr[admin.prio][admin.id]]
             /\ ptr' = [ptr EXCEPT ![admin.prio][admin.id] = None]
             /\ ptr[admin.prio][admin.id] \in Queues \ {None}
  <2>1. Served(admin.prio) = active
    BY <1>0 DEF Served, Prios
  <2>2. ptr[admin.prio][admin.id] # None
    BY <1>0, <1>1, <2>1 DEF PointerInv
  <2>3. QED  BY <1>0, <1>1, <2>2 DEF TypeOK
<1>2. ASSUME ~created[admin.prio]
      PROVE  /\ admin' = [admin EXCEPT !.prio = @ + 1] /\ ptr' = ptr
             /\ admin.prio + 1 \in Prios \cup {MaxPriority + 1}
  BY <1>0, <1>2 DEF Prios
<1>3. TypeOK'
  <2>1. ptr' \in [Prios -> [ThreadIds -> Queues \cup {None}]]
    <3>1. ptr \in [Prios -> [ThreadIds -> Queues \cup {None}]]
      BY DEF TypeOK
    <3>2. ptr' = ptr \/ ptr' = [ptr EXCEPT ![admin.prio][admin.id] = None]
      BY <1>1, <1>2
    <3> HIDE DEF IndInv, Detach
    <3>3. QED  BY <1>0, <3>1, <3>2
  <2>2. AdminType'
    BY ZenonT(30), <1>0, <1>1, <1>2 DEF TypeOK, AdminType
  <2>3. QED  BY <2>1, <2>2, AdminTypes DEF TypeOK
<1>4. AdminInv'
  <2>1. CASE created[admin.prio]
    BY <1>0, <1>1, <2>1 DEF TypeOK, AdminInv
  <2>2. CASE ~created[admin.prio]
    BY <1>0, <1>2, <2>2 DEF TypeOK, AdminInv
  <2>3. QED  BY <2>1, <2>2
<1>5. PointerInv'
  <2> SUFFICES ASSUME NEW p \in Prios, created[p]
               PROVE  {i \in ThreadIds : ptr'[p][i] # None} = Served(p)'
    BY DEF PointerInv
  <2>1. {i \in ThreadIds : ptr[p][i] # None} = Served(p)
    BY DEF PointerInv
  <2>2. ptr[p] \in [ThreadIds -> Queues \cup {None}]
    BY DEF TypeOK
  <2>3. CASE created[admin.prio]
    <3>1. admin'.op = "drain" /\ admin'.prio = admin.prio
      BY ZenonT(30), <1>0, <1>1, <2>3 DEF TypeOK
    <3>2. CASE p = admin.prio
      <4>1. Served(p) = active /\ Served(p)' = active \ {admin.id}
        BY <1>0, <3>1, <3>2 DEF Served, Prios
      <4>2. ptr'[p] = [ptr[p] EXCEPT ![admin.id] = None]
        BY <1>0, <1>1, <2>3, <3>2 DEF TypeOK
      <4>3. QED  BY <1>0, <2>1, <2>2, <4>1, <4>2
    <3>3. CASE p # admin.prio
      <4>1. p <= admin.prio <=> p < admin.prio
        BY <1>0, <3>3 DEF Prios
      <4>2. Served(p)' = Served(p)
        BY <1>0, <3>1, <4>1 DEF Served
      <4>3. ptr'[p] = ptr[p]
        BY <1>0, <1>1, <2>3, <3>3 DEF TypeOK
      <4>4. QED  BY <2>1, <4>2, <4>3
    <3>4. QED  BY <3>2, <3>3
  <2>4. CASE ~created[admin.prio]
    <3>1. admin'.op = "remove" /\ admin'.prio = admin.prio + 1 /\ p # admin.prio
      BY <1>0, <1>2, <2>4 DEF TypeOK
    <3>2. p < admin.prio + 1 <=> p < admin.prio
      BY <1>0, <3>1 DEF Prios
    <3>3. Served(p)' = Served(p)
      BY <1>0, <3>1, <3>2 DEF Served
    <3>4. QED  BY <1>2, <2>1, <2>4, <3>3
  <2>5. QED  BY <2>3, <2>4
<1>6. QED  BY <1>0, <1>3, <1>4, <1>5, AdminKeepsOthers

(* The drain goes on to the next collection when the thread's queue is       *)
(* empty.                                                                    *)
LEMMA DrainEndsKeepsInv ==
    ASSUME IndInv, setup' = setup, DrainEnds
    PROVE  IndInv'
<1> USE DomainConstants DEF IndInv, DrainEnds, shared
<1>0. /\ admin.op = "drain" /\ admin.prio \in Prios /\ admin.id \in active
      /\ admin.task = None /\ admin'.task = None
      /\ admin'.op = "remove" /\ admin'.prio = admin.prio + 1 /\ admin'.id = admin.id
      /\ admin.prio + 1 \in Prios \cup {MaxPriority + 1} /\ active' = active
  <2>1. admin.prio \in Prios
    BY DEF AdminInv
  <2>2. admin.prio + 1 \in Prios \cup {MaxPriority + 1}
    BY <2>1 DEF Prios
  <2>3. QED  BY <2>1, <2>2 DEF TypeOK, AdminInv
<1>1. TypeOK'
  <2>1. AdminType'
    BY <1>0 DEF AdminType, TypeOK
  <2>2. QED  BY <2>1, AdminTypes DEF TypeOK
<1>2. AdminInv'
  BY <1>0 DEF AdminInv
<1>3. PointerInv'
  <2>1. \A p \in Prios : Served(p)' = Served(p)
    <3>1. \A p \in Prios : p <= admin.prio <=> p < admin.prio + 1
      BY <1>0 DEF Prios
    <3>2. QED  BY <1>0, <3>1 DEF Served
  <2>2. QED  BY <2>1 DEF PointerInv
<1>4. QED  BY <1>0, <1>1, <1>2, <1>3, AdminKeepsOthers

(* remove_thread returns when every collection has been drained.             *)
LEMMA RemoveReturnsKeepsInv ==
    ASSUME IndInv, setup' = setup, RemoveReturns
    PROVE  IndInv'
<1> USE DomainConstants DEF IndInv, RemoveReturns
<1>0. /\ admin.op = "remove" /\ admin.prio = MaxPriority + 1 /\ admin.id \in ThreadIds
      /\ admin.task = None /\ admin'.task = None /\ admin'.op = "none"
  BY DEF TypeOK, AdminInv, Idle
<1>1. TypeOK'
  <2>1. AdminType' /\ active' \subseteq ThreadIds
    BY <1>0, IdleType DEF AdminType, TypeOK
  <2>2. QED  BY <2>1, AdminTypes DEF TypeOK
<1>2. AdminInv'
  BY <1>0 DEF TypeOK, AdminInv
<1>3. PointerInv'
  <2>1. \A p \in Prios : Served(p) = active \ {admin.id} /\ Served(p)' = active'
    BY <1>0 DEF Served, Prios
  <2>2. QED  BY <2>1 DEF PointerInv
<1>4. QED  BY <1>0, <1>1, <1>2, <1>3, AdminKeepsOthers

(* The drain takes a task out of the thread's queue into its own hands ... *)
LEMMA DrainPopKeepsInv ==
    ASSUME IndInv, setup' = setup, DrainPop
    PROVE  IndInv'
<1> USE DomainConstants DEF IndInv, DrainPop, locals
<1> DEFINE p0 == admin.prio
           q0 == admin.queue
           t == Head(queue[p0][q0])
<1>0. /\ admin.op = "drain" /\ p0 \in Prios /\ q0 \in Queues /\ admin.task = None
      /\ created[p0]
  BY DEF TypeOK, AdminInv
<1>1. /\ queue' \in [Prios -> [Queues -> Seq(Tasks)]]
      /\ t \in Tasks /\ t \in Contents(p0) /\ QueueInv'
      /\ \A p \in Prios : Contents(p)' = IF p = p0 THEN Contents(p) \ {t} ELSE Contents(p)
      /\ \A p \in Prios : t \notin Contents(p)'
  BY <1>0, PopEffect
<1>2. /\ admin' = [admin EXCEPT !.task = t]
      /\ admin'.task = t /\ admin'.op = admin.op /\ admin'.prio = p0 /\ admin'.id = admin.id
      /\ admin'.queue = q0
  BY DEF TypeOK
<1> HIDE DEF p0, q0, t
<1>3. TypeOK'
  BY <1>1, <1>2 DEF TypeOK
<1>4. PutInv' /\ GetInv'
  BY DEF PutInv, GetInv
<1>5. AdminInv' /\ PointerInv'
  BY <1>0, <1>2 DEF AdminInv, PointerInv, Served, p0, q0
<1>6. ApartInv' /\ SomewhereInv'
  <2>1. \A v \in Procs : Holding(v)' <=> Holding(v)
    BY DEF Holding
  <2>2. UNCHANGED <<task, fresh, taken>> /\ ApartInv /\ SomewhereInv
    OBVIOUS
  <2>3. t \notin fresh \cup taken /\ \A v \in Procs : Holding(v) => task[v] # t
    BY <1>0, <1>1 DEF ApartInv
  <2>4. \A p \in Prios : Contents(p)' \subseteq Contents(p)
    BY <1>1
  <2> HIDE DEF IndInv, DrainPop
  <2>5. ApartInv'
    BY <1>1, <1>2, <2>1, <2>2, <2>3, <2>4 DEF ApartInv
  <2>6. SomewhereInv'
    <3>1. \A s \in Tasks : s # t => \A p \in Prios : s \in Contents(p) => s \in Contents(p)'
      BY <1>1
    <3>2. None \notin Tasks
      OBVIOUS
    <3>3. QED  BY <1>0, <1>2, <2>1, <2>2, <3>1, <3>2 DEF SomewhereInv
  <2>7. QED  BY <2>5, <2>6
<1>7. CountInv'
  <2> SUFFICES ASSUME NEW p \in Prios
               PROVE  /\ IsFiniteSet(Contents(p)') /\ IsFiniteSet(Counting(p)')
                      /\ IsFiniteSet(Uncounting(p)') /\ Balance(p)' = Balance(p)
    BY DEF CountInv
  <2>1. Counting(p)' = Counting(p) /\ Uncounting(p)' = Uncounting(p)
    BY DEF Counting, Uncounting
  <2>2. IsFiniteSet(Contents(p)) /\ IsFiniteSet(Counting(p)) /\ IsFiniteSet(Uncounting(p))
    BY DEF CountInv
  <2>3. /\ Cardinality(Contents(p)) \in Int /\ Cardinality(Counting(p)) \in Int
        /\ Cardinality(Uncounting(p)) \in Int
    BY <2>2, FS_CardinalityType
  <2>4. Moving(p) = 0 /\ Moving(p)' = IF p = p0 THEN 1 ELSE 0
    BY <1>0, <1>1, <1>2 DEF Moving, p0
  <2>5. CASE p = p0
    <3>1. IsFiniteSet(Contents(p)') /\ Cardinality(Contents(p)') = Cardinality(Contents(p)) - 1
      BY <1>1, <2>2, <2>5, ShrinksByOne
    <3>2. QED  BY <2>1, <2>2, <2>3, <2>4, <2>5, <3>1 DEF Balance
  <2>6. CASE p # p0
    BY <1>1, <2>1, <2>2, <2>4, <2>6 DEF Balance
  <2>7. QED  BY <2>5, <2>6
<1>8. TopInv'
  <2>1. \A s, p : Covered(s, p)' <=> Covered(s, p)
    BY DEF Covered, Raising
  <2>2. QED  BY <1>0, <1>1, <1>2, <2>1 DEF TopInv
<1>9. QED  BY <1>1, <1>3, <1>4, <1>5, <1>6, <1>7, <1>8

(* ... and puts it into the global queue of the same collection.           *)
LEMMA DrainPushKeepsInv ==
    ASSUME IndInv, setup' = setup, DrainPush
    PROVE  IndInv'
<1> USE DomainConstants DEF IndInv, DrainPush, locals
<1> DEFINE p0 == admin.prio
           t == admin.task
<1>0. /\ admin.op = "drain" /\ p0 \in Prios /\ Global \in Queues /\ t \in Tasks /\ t # None
      /\ created[p0] /\ \A p \in Prios : t \notin Contents(p)
  BY DEF TypeOK, AdminInv, ApartInv, Queues
<1>1. /\ queue' \in [Prios -> [Queues -> Seq(Tasks)]]
      /\ QueueInv'
      /\ \A p \in Prios : Contents(p)' = IF p = p0 THEN Contents(p) \cup {t} ELSE Contents(p)
  BY <1>0, PushEffect
<1>2. /\ admin' = [admin EXCEPT !.task = None]
      /\ admin'.task = None /\ admin'.op = admin.op /\ admin'.prio = p0 /\ admin'.id = admin.id
      /\ admin'.queue = admin.queue
  BY DEF TypeOK
<1> HIDE DEF p0, t
<1>3. TypeOK'
  BY <1>1, <1>2 DEF TypeOK
<1>4. PutInv' /\ GetInv'
  BY DEF PutInv, GetInv
<1>5. AdminInv' /\ PointerInv'
  BY <1>0, <1>2 DEF AdminInv, PointerInv, Served, p0
<1>6. ApartInv' /\ SomewhereInv'
  <2>1. \A v \in Procs : Holding(v)' <=> Holding(v)
    BY DEF Holding
  <2>2. UNCHANGED <<task, fresh, taken>> /\ ApartInv /\ SomewhereInv
    OBVIOUS
  <2>3. t \notin fresh \cup taken /\ \A v \in Procs : Holding(v) => task[v] # t
    BY DEF ApartInv, t
  <2>4. None \notin fresh \cup taken /\ \A p \in Prios : None \notin Contents(p)
    <3>1. \A p \in Prios, q \in Queues : Range(queue[p][q]) \subseteq Tasks
      BY RangeOfSeq DEF TypeOK
    <3>2. QED  BY <3>1 DEF TypeOK, Contents
  <2>5. \A v \in Procs : Holding(v) => task[v] # None
    BY DEF Holding
  <2>6. t = admin.task /\ None \notin Tasks
    BY DEF t
  <2> HIDE DEF IndInv, DrainPush
  <2>7. ApartInv'
    <3>1. \A v \in Procs, p \in Prios : Holding(v)' => task'[v] \notin Contents(p)'
      BY <1>1, <2>1, <2>2, <2>3 DEF ApartInv
    <3>2. \A p \in Prios : admin'.task \notin Contents(p)'
      <4>1. ASSUME NEW p \in Prios PROVE None \notin Contents(p)'
        <5>1. None \notin Contents(p) /\ t # None
          BY <1>0, <2>4
        <5>2. QED  BY <1>1, <5>1
      <4>2. QED  BY <1>2, <4>1
    <3>3. \A p \in Prios : Contents(p)' \cap (fresh' \cup taken') = {}
      BY <1>1, <2>2, <2>3 DEF ApartInv
    <3>4. \A v, w \in Procs : Holding(v)' /\ Holding(w)' /\ task'[v] = task'[w] => v = w
      BY <2>1, <2>2 DEF ApartInv
    <3>5. \A v \in Procs : Holding(v)' => task'[v] \notin fresh' \cup taken' \cup {admin'.task}
      BY <1>2, <2>1, <2>2, <2>5 DEF ApartInv
    <3>6. admin'.task \notin fresh' \cup taken' /\ fresh' \cap taken' = {}
      BY <1>2, <2>2, <2>4 DEF ApartInv
    <3>7. QED  BY <3>1, <3>2, <3>3, <3>4, <3>5, <3>6 DEF ApartInv
  <2>8. SomewhereInv'
    <3>1. \A p \in Prios : Contents(p) \subseteq Contents(p)'
      BY <1>1
    <3>2. \E p \in Prios : t \in Contents(p)'
      <4>1. \A p \in Prios : p = p0 => t \in Contents(p)'
        BY <1>1
      <4>2. QED  BY <1>0, <4>1
    <3>3. \A s \in Tasks : s # t => s # admin.task
      BY <2>6
    <3>4. QED  BY <2>1, <2>2, <3>1, <3>2, <3>3 DEF SomewhereInv
  <2>9. QED  BY <2>7, <2>8
<1>7. CountInv'
  <2> SUFFICES ASSUME NEW p \in Prios
               PROVE  /\ IsFiniteSet(Contents(p)') /\ IsFiniteSet(Counting(p)')
                      /\ IsFiniteSet(Uncounting(p)') /\ Balance(p)' = Balance(p)
    BY DEF CountInv
  <2>1. Counting(p)' = Counting(p) /\ Uncounting(p)' = Uncounting(p)
    BY DEF Counting, Uncounting
  <2>2. IsFiniteSet(Contents(p)) /\ IsFiniteSet(Counting(p)) /\ IsFiniteSet(Uncounting(p))
    BY DEF CountInv
  <2>3. /\ Cardinality(Contents(p)) \in Int /\ Cardinality(Counting(p)) \in Int
        /\ Cardinality(Uncounting(p)) \in Int
    BY <2>2, FS_CardinalityType
  <2>4. Moving(p)' = 0 /\ Moving(p) = IF p = p0 THEN 1 ELSE 0
    BY <1>0, <1>1, <1>2 DEF Moving, p0, t
  <2>5. CASE p = p0
    <3>1. IsFiniteSet(Contents(p)') /\ Cardinality(Contents(p)') = Cardinality(Contents(p)) + 1
      BY <1>0, <1>1, <2>2, <2>5, GrowsByOne
    <3>2. QED  BY <2>1, <2>2, <2>3, <2>4, <2>5, <3>1 DEF Balance
  <2>6. CASE p # p0
    BY <1>1, <2>1, <2>2, <2>4, <2>6 DEF Balance
  <2>7. QED  BY <2>5, <2>6
<1>8. TopInv'
  <2>1. \A s, p : Covered(s, p)' <=> Covered(s, p)
    BY DEF Covered, Raising
  <2>2. Covered(t, p0)
    BY <1>0 DEF TopInv, t, p0
  <2>3. QED  BY <1>0, <1>1, <1>2, <2>1, <2>2 DEF TopInv
<1>9. QED  BY <1>1, <1>3, <1>4, <1>5, <1>6, <1>7, <1>8

-----------------------------------------------------------------------------
(* The invariant, and what follows from it.                                *)

(* The domain starts without collections and tasks.                        *)
LEMMA InitInv == Init => IndInv
<1> SUFFICES ASSUME Init PROVE IndInv
  OBVIOUS
<1> USE DomainConstants DEF Init, Idle
<1>0. 0 \in Prios /\ 0 \in ThreadIds /\ 0 \in 0 .. NumThreads /\ 1 \in 0 .. MaxQueues
      /\ 0 \in 0 .. CountMod - 1 /\ 0 \in 0 .. MaxQueues
  BY DEF Prios, ThreadIds
<1>1. TypeOK
  <2>1. pc \in [Procs -> {"absent", "idle"}]
    OBVIOUS
  <2>2. queue \in [Prios -> [Queues -> Seq(Tasks)]]
    OBVIOUS
  <2>3. AdminType
    BY <1>0 DEF AdminType
  <2>4. QED  BY <1>0, <2>1, <2>2, <2>3 DEF TypeOK, AdminType
<1>2. \A p \in Prios : Contents(p) = {}
  <2>1. \A p \in Prios, q \in Queues : Range(queue[p][q]) = {}
    BY EmptyList
  <2>2. QED  BY <2>1 DEF Contents
<1>3. PutInv /\ GetInv /\ AdminInv
  BY DEF PutInv, GetInv, AdminInv, Procs
<1>4. PointerInv
  BY DEF PointerInv
<1>5. QueueInv
  BY <1>2, EmptyList DEF QueueInv
<1>6. ApartInv /\ SomewhereInv
  BY <1>2 DEF ApartInv, SomewhereInv, Holding
<1>7. CountInv
  <2> SUFFICES ASSUME NEW p \in Prios
               PROVE  /\ IsFiniteSet(Contents(p)) /\ IsFiniteSet(Counting(p))
                      /\ IsFiniteSet(Uncounting(p)) /\ 0 = Balance(p) % CountMod
    BY DEF CountInv
  <2>1. Contents(p) = {} /\ Counting(p) = {} /\ Uncounting(p) = {} /\ Moving(p) = 0
    BY <1>2 DEF Counting, Uncounting, Moving, Procs
  <2>2. Balance(p) = 0
    BY <2>1, FS_EmptySet DEF Balance
  <2>3. 0 % CountMod = 0
    OBVIOUS
  <2>4. QED  BY <2>1, <2>2, <2>3, FS_EmptySet
<1>8. TopInv
  BY <1>2 DEF TopInv
<1>9. QED  BY <1>1, <1>3, <1>4, <1>5, <1>6, <1>7, <1>8 DEF IndInv

(* Every step of every caller keeps it.                                    *)
LEMMA NextInv == IndInv /\ [Next]_vars => IndInv'
<1> SUFFICES ASSUME IndInv, [Next]_vars PROVE IndInv'
  OBVIOUS
<1>1. CASE Begin
  <2>1. ASSUME NEW u \in Putters, NEW t \in Tasks, NEW i \in ThreadIds \cup {-1},
               PutTask(u, t, i), setup' = setup
        PROVE  IndInv'
    BY <2>1, PutTaskKeepsInv
  <2>2. ASSUME NEW i \in setup.resizable, AddThread(i) \/ RemoveThread(i), setup' = setup
        PROVE  IndInv'
    <3>1. i \in ThreadIds
      BY DomainConstants DEF IndInv, TypeOK
    <3>2. QED  BY <2>2, <3>1, AddThreadKeepsInv, RemoveThreadKeepsInv
  <2>3. QED  BY <1>1, <2>1, <2>2 DEF Begin
<1>2. CASE AdminStep
  BY <1>2, RegisterKeepsInv, AddReturnsKeepsInv, DetachKeepsInv, DrainPopKeepsInv,
     DrainPushKeepsInv, DrainEndsKeepsInv, RemoveReturnsKeepsInv DEF AdminStep
<1>3. ASSUME NEW u \in Putters, PutStep(u) PROVE IndInv'
  BY <1>3, CreateKeepsInv, LoadQueueKeepsInv, PushKeepsInv, CountKeepsInv, ReadTopKeepsInv,
     CasTopKeepsInv DEF PutStep
<1>4. ASSUME NEW u \in Getters, GetStep(u) PROVE IndInv'
  BY <1>4, GetTaskKeepsInv, CheckKeepsInv, LoadOwnKeepsInv, PopOwnKeepsInv,
     PopGlobalKeepsInv, LoadStealKeepsInv, PopStealKeepsInv, UncountKeepsInv,
     GetReturnsKeepsInv DEF GetStep
<1>5. CASE UNCHANGED vars
  <2> USE <1>5 DEF vars, shared, locals, IndInv
  <2>1. TypeOK' /\ AdminInv' /\ PointerInv'
    BY DEF TypeOK, AdminInv, PointerInv, Served
  <2>2. PutInv' /\ GetInv' /\ QueueInv' /\ ApartInv' /\ SomewhereInv' /\ CountInv' /\ TopInv'
    BY AdminKeepsOthers
  <2>3. QED  BY <2>1, <2>2
<1>6. QED  BY <1>1, <1>2, <1>3, <1>4, <1>5 DEF Next

(* The queues, counters and pointers of a scheduling domain keep the       *)
(* inductive invariant, whatever number of tasks, priorities and threads.  *)
THEOREM Inductive == Spec => []IndInv
BY InitInv, NextInv, PTL DEF Spec

(* In a state of the invariant a task is at one of the five kinds of       *)
(* places, and at one of them only.                                        *)
LEMMA OnePlace ==
    ASSUME IndInv
    PROVE  ExactlyOnePlace
<1> SUFFICES ASSUME NEW t \in Tasks PROVE Cardinality(Places(t)) = 1
  BY DEF ExactlyOnePlace
<1> DEFINE F == {<<"fresh">> : x \in fresh \cap {t}}
           H == {<<"hand", u>> : u \in {v \in Procs : task[v] = t
                                             /\ pc[v] \notin {"count", "top", "cas"}}}
           Q == UNION {Slots(t, p, q) : p \in Prios, q \in Queues}
           M == {<<"moving">> : x \in {admin.task} \cap {t}}
           T == {<<"taken">> : x \in taken \cap {t}}
<1>0. Places(t) = F \cup H \cup Q \cup M \cup T
  BY DEF Places
<1>1. t # None
  BY DomainConstants
<1>2. \A v \in Procs : task[v] = t /\ pc[v] \notin {"count", "top", "cas"}
                       <=> Holding(v) /\ task[v] = t
  BY <1>1 DEF Holding
<1>3. (t \notin fresh => F = {}) /\ (t \in fresh => F = {<<"fresh">>})
  OBVIOUS
<1>4. (t \notin taken => T = {}) /\ (t \in taken => T = {<<"taken">>})
  OBVIOUS
<1>5. (t # admin.task => M = {}) /\ (t = admin.task => M = {<<"moving">>})
  OBVIOUS
<1>6. /\ ~(\E u \in Procs : Holding(u) /\ task[u] = t) => H = {}
      /\ (\E u \in Procs : Holding(u) /\ task[u] = t) => \E x : H = {x}
  <2>1. ASSUME NEW u \in Procs, Holding(u), task[u] = t PROVE H = {<<"hand", u>>}
    <3>1. \A v \in Procs : Holding(v) /\ task[v] = t <=> v = u
      BY <2>1 DEF IndInv, ApartInv
    <3>2. QED  BY <1>2, <3>1
  <2>2. QED  BY <1>2, <2>1
<1>7. /\ ~(\E p \in Prios : t \in Contents(p)) => Q = {}
      /\ (\E p \in Prios : t \in Contents(p)) => \E x : Q = {x}
  <2>0. \A x : x \in Q <=> \E p \in Prios, q \in Queues : \E n \in DOMAIN queue[p][q] :
                             queue[p][q][n] = t /\ x = <<"queue", p, q, n>>
    <3>1. \A x : x \in Q <=> \E p \in Prios, q \in Queues : x \in Slots(t, p, q)
      OBVIOUS
    <3>2. \A p \in Prios, q \in Queues : \A x :
              x \in Slots(t, p, q) <=> \E n \in DOMAIN queue[p][q] :
                                       queue[p][q][n] = t /\ x = <<"queue", p, q, n>>
      BY DEF Slots
    <3> HIDE DEF Q
    <3>3. QED  BY <3>1, <3>2
  <2> HIDE DEF Q
  <2>1. \A p \in Prios, q \in Queues : t \in Range(queue[p][q]) =>
            t \in Contents(p) /\ \E n \in DOMAIN queue[p][q] : queue[p][q][n] = t
    BY ContentsMember DEF Range
  <2>2. \A p \in Prios, q \in Queues : \A n \in DOMAIN queue[p][q] :
            queue[p][q][n] = t => t \in Range(queue[p][q])
    BY DEF Range
  <2>3. ASSUME NEW p \in Prios, NEW q \in Queues, NEW n \in DOMAIN queue[p][q],
               queue[p][q][n] = t
        PROVE  Q = {<<"queue", p, q, n>>}
    <3>1. ASSUME NEW r \in Prios, NEW s \in Queues, NEW k \in DOMAIN queue[r][s],
                 queue[r][s][k] = t
          PROVE  r = p /\ s = q /\ k = n
      <4>1. r = p /\ s = q
        BY <2>2, <2>3, <3>1 DEF IndInv, QueueInv
      <4>2. QED  BY <2>3, <3>1, <4>1 DEF IndInv, QueueInv, IsInjective
    <3>2. QED  BY <2>0, <2>3, <3>1
  <2>4. ASSUME NEW r \in Prios, t \in Contents(r) PROVE \E x : Q = {x}
    <3>1. PICK q \in Queues : t \in Range(queue[r][q])
      BY <2>4, ContentsMember
    <3>2. PICK n \in DOMAIN queue[r][q] : queue[r][q][n] = t
      BY <2>1, <3>1
    <3>3. QED  BY <2>3, <3>2
  <2>5. ASSUME ~(\E p \in Prios : t \in Contents(p)) PROVE Q = {}
    BY <2>0, <2>1, <2>2, <2>5
  <2>6. QED  BY <2>4, <2>5
<1> HIDE DEF F, H, Q, M, T
<1>8. \E x : Places(t) = {x}
  <2>1. CASE t \in fresh
    <3>1. t \notin taken /\ t # admin.task /\ ~(\E p \in Prios : t \in Contents(p))
          /\ ~(\E u \in Procs : Holding(u) /\ task[u] = t)
      BY <2>1 DEF IndInv, ApartInv
    <3>2. QED  BY <1>0, <1>3, <1>4, <1>5, <1>6, <1>7, <2>1, <3>1
  <2>2. CASE t \in taken
    <3>1. t \notin fresh /\ t # admin.task /\ ~(\E p \in Prios : t \in Contents(p))
          /\ ~(\E u \in Procs : Holding(u) /\ task[u] = t)
      BY <2>2 DEF IndInv, ApartInv
    <3>2. QED  BY <1>0, <1>3, <1>4, <1>5, <1>6, <1>7, <2>2, <3>1
  <2>3. CASE t = admin.task
    <3>1. t \notin fresh /\ t \notin taken /\ ~(\E p \in Prios : t \in Contents(p))
          /\ ~(\E u \in Procs : Holding(u) /\ task[u] = t)
      BY <2>3 DEF IndInv, ApartInv
    <3>2. QED  BY <1>0, <1>3, <1>4, <1>5, <1>6, <1>7, <2>3, <3>1
  <2>4. CASE \E u \in Procs : Holding(u) /\ task[u] = t
    <3>1. t \notin fresh /\ t \notin taken /\ t # admin.task
          /\ ~(\E p \in Prios : t \in Contents(p))
      BY <2>4 DEF IndInv, ApartInv
    <3>2. QED  BY <1>0, <1>3, <1>4, <1>5, <1>6, <1>7, <2>4, <3>1
  <2>5. CASE \E p \in Prios : t \in Contents(p)
    <3>1. t \notin fresh /\ t \notin taken /\ t # admin.task
          /\ ~(\E u \in Procs : Holding(u) /\ task[u] = t)
      BY <2>5 DEF IndInv, ApartInv
    <3>2. QED  BY <1>0, <1>3, <1>4, <1>5, <1>6, <1>7, <2>5, <3>1
  <2>6. QED  BY <2>1, <2>2, <2>3, <2>4, <2>5 DEF IndInv, SomewhereInv
<1>9. QED  BY <1>8, FS_Singleton

(* The calls in progress account for the difference between a counter and  *)
(* the tasks that are stored.                                              *)
LEMMA CountersAgree ==
    ASSUME IndInv
    PROVE  CountConsistent
BY DEF IndInv, CountInv, CountConsistent

(* put_task, try_get_task, add_thread and remove_thread keep the types,    *)
(* lose and duplicate no task, account for every task in the counters, and *)
(* give each collection a queue for exactly the active threads.            *)
THEOREM DomainIsConsistent == Spec => []DomainConsistent
<1>1. IndInv => QueuesOfActiveThreads
  BY DEF IndInv, PointerInv, QueuesOfActiveThreads, Served
<1>2. IndInv => DomainConsistent
  BY <1>1, OnePlace, CountersAgree DEF IndInv, DomainConsistent
<1>3. QED  BY <1>2, Inductive, PTL

(* The index from which try_get_task starts its search is never below the  *)
(* priority of a task whose put_task has returned.                         *)
THEOREM TopIsHighEnough == Spec => []TopCoversQueued
<1>1. IndInv => TopCoversQueued
  BY DEF IndInv, TopInv, TopCoversQueued, Covered, Raising
<1>2. QED  BY <1>1, Inductive, PTL
=============================================================================
