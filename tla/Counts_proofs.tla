---------------------------- MODULE Counts_proofs ----------------------------
(* Theorems about the reference counts of sources: the word of a source
   counts its handles and its blocks.                                      *)
EXTENDS Places_proofs

(* A handle belongs to the operation that writes it; it refers to nothing  *)
(* while a source is being made for it.                                    *)
ClientInv ==
    /\ \A t, u \in Thread : (t # u /\ todo[t] # <<>> /\ todo[u] # <<>>) =>
           ~Conflict(doing[t], doing[u])
    /\ \A t \in Thread : \A c \in Pending(t, "bind") :
           c.h \in Writes(doing[t]) /\ hold[c.h] = None

(* Two operations that conflict do so in either order.                     *)
LEMMA ConflictSymmetric == \A o, p : Conflict(o, p) => Conflict(p, o)
BY DEF Conflict

(* Two operations that write the same handle are in conflict.              *)
LEMMA WritersConflict == \A o, p, h : h \in Writes(o) /\ h \in Writes(p) => Conflict(o, p)
BY DEF Conflict

(* What is pending is in the list, and of its type.                        *)
LEMMA PendingTyped ==
    ASSUME BaseInv, NEW t \in Thread, NEW op, NEW c \in Pending(t, op)
    PROVE  /\ todo[t] # <<>> /\ c.op = op /\ c \in Range(todo[t])
           /\ c \in CallType(Born, DOMAIN chunk)
<1>1. todo[t] \in Seq(CallType(Born, DOMAIN chunk))
  BY DEF BaseInv, TypeInv, Typed
<1>2. QED  BY <1>1 DEF Pending, Range

(* No call comes after some.                                               *)
LEMMA LastCall ==
    ASSUME BaseInv, NEW t \in Thread, todo[t] # <<>>, AfterCall(Call(t).op) = {}
    PROVE  Tail(todo[t]) = <<>> /\ Range(todo[t]) = {Call(t)}
<1>1. Tail(todo[t]) \in Seq(AnyCall) /\ Ops(Tail(todo[t])) = {}
  BY HeadAndTail DEF BaseInv
<1>2. Tail(todo[t]) = <<>>
  BY <1>1, NoOps
<1>3. QED  BY <1>2, CallsOfList, RangeShort

(* Handles in use by operations that are under way stay theirs: Begins
   waits for the operations that conflict, and bind is the last to write.  *)
LEMMA StepKeepsClients ==
    ASSUME BaseInv, ClientInv, NEW t \in Thread, Step(t)
    PROVE  ClientInv'
<1>a. \A u \in Thread \ {t} : todo'[u] = todo[u] /\ doing'[u] = doing[u] /\ Pending(u, "bind")' = Pending(u, "bind")
  BY OthersKeep DEF BaseInv, Pending
<1>b. ASSUME NEW u \in Thread \ {t}, todo[u] # <<>>, todo'[t] # <<>>
      PROVE  ~Conflict(doing'[t], doing[u])
  <2>1. CASE todo[t] # <<>> /\ doing'[t] = doing[t]
    BY <1>b, <2>1 DEF ClientInv
  <2>2. CASE doing'[t] = Setup
    <3>1. Reads(Setup) = {} /\ Writes(Setup) = {}
      BY DEF Reads, Writes, Setup
    <3>2. QED  BY <2>2, <3>1 DEF Conflict
  <2>3. CASE \E op : Begins(t, op) /\ doing'[t] = Op(t)
    BY <1>b, <2>3 DEF Begins
  <2>4. QED  BY <2>1, <2>2, <2>3, DoingChange
<1>1. ASSUME NEW v \in Thread, NEW u \in Thread, v # u, todo'[v] # <<>>, todo'[u] # <<>>
      PROVE  ~Conflict(doing'[v], doing'[u])
  <2>1. CASE v = t
    BY <1>1, <1>a, <1>b, <2>1
  <2>2. CASE u = t
    BY <1>1, <1>a, <1>b, <2>2, ConflictSymmetric
  <2>3. CASE v # t /\ u # t
    BY <1>1, <1>a, <2>3 DEF ClientInv
  <2>4. QED  BY <2>1, <2>2, <2>3
<1>2. ASSUME NEW v \in Thread, NEW c \in Pending(v, "bind")'
      PROVE  c.h \in Writes(doing'[v]) /\ hold'[c.h] = None
  <2>1. CASE v # t
    <3>1. c \in Pending(v, "bind") /\ todo[v] # <<>> /\ c.h \in Handle
      BY <1>2, <1>a, <2>1, PendingTyped, CallFields
    <3>2. c.h \in Writes(doing[v]) /\ hold[c.h] = None /\ doing'[v] = doing[v]
      BY <1>a, <2>1, <3>1 DEF ClientInv
    <3>3. CASE bind(t)
      <4>1. todo[t] # <<>> /\ Call(t).op = "bind" /\ hold' = [hold EXCEPT ![Call(t).h] = Call(t).s]
        BY <3>3 DEF bind, At
      <4>2. Call(t) \in Pending(t, "bind")
        BY <4>1, CallsOfList DEF Pending
      <4>3. Call(t).h \in Writes(doing[t]) /\ ~Conflict(doing[t], doing[v])
        BY <2>1, <3>1, <4>1, <4>2 DEF ClientInv
      <4>4. c.h # Call(t).h
        BY <3>2, <4>3, WritersConflict
      <4>5. QED  BY <3>1, <3>2, <4>1, <4>4 DEF BaseInv, TypeInv, Typed
    <3>4. CASE assign(t) \/ move(t) \/ drop(t)
      <4>1. ~Conflict(Op(t), doing[v])
        BY <2>1, <3>1, <3>4 DEF assign, move, drop, Begins
      <4>2. c.h \notin Writes(Op(t))
        BY <3>2, <4>1, WritersConflict
      <4>3. ~bind(t)
        BY <3>4 DEF bind, At, assign, move, drop, Begins
      <4>4. QED  BY <3>1, <3>2, <4>2, <4>3, HoldChange
    <3>5. QED  BY <3>2, <3>3, <3>4, HoldChange
  <2>2. CASE v = t /\ c \in Pending(t, "bind")
    <3>1. todo[t] # <<>> /\ c.h \in Handle
      BY <2>2, PendingTyped, CallFields
    <3>2. c.h \in Writes(doing[t]) /\ hold[c.h] = None
      BY <2>2 DEF ClientInv
    <3>3. doing'[t] = doing[t] /\ ~(assign(t) \/ move(t) \/ drop(t))
      BY <3>1, DoingChange DEF Begins, getTls, assign, move, drop
    <3>4. ~bind(t)
      <4> SUFFICES ASSUME bind(t) PROVE FALSE
        OBVIOUS
      <4>1. todo'[t] = Tail(todo[t]) /\ Call(t).op = "bind"
        BY PlainShapes DEF BaseInv, bind, At
      <4>2. AfterCall("bind") = {}
        BY DEF AfterCall
      <4>3. todo'[t] = <<>>
        BY <3>1, <4>1, <4>2, LastCall
      <4>4. QED  BY <1>2, <2>2, <4>3, RangeShort DEF Pending
    <3>5. QED  BY <2>2, <3>2, <3>3, <3>4, HoldChange
  <2>3. CASE v = t /\ c \notin Pending(t, "bind")
    <3>1. \/ create(t) /\ c = Bind(Op(t).h, Fresh)
          \/ copy(t) /\ c = Bind(Op(t).h, hold[Op(t).from])
      BY <1>2, <2>3, PendingNew
    <3>2. c.h = Op(t).h /\ hold[Op(t).h] = None /\ Op(t).op \in {"create", "copy"} /\ todo[t] = <<>> /\ hold' = hold
      BY <3>1 DEF create, copy, Begins, Bind
    <3>3. Writes(Op(t)) = {Op(t).h}
      BY <3>2 DEF Writes
    <3>4. doing'[t] = Op(t)
      BY <3>1, <3>2, DoingChange DEF create, copy, getTls, Begin, BaseInv, TypeInv, Typed
    <3>5. QED  BY <2>3, <3>2, <3>3, <3>4
  <2>4. QED  BY <2>1, <2>2, <2>3
<1>3. QED  BY <1>1, <1>2 DEF ClientInv

(* A task's places belong to the thread that works on it.                  *)
TaskInv ==
    /\ \A t \in Thread : \A c \in Pending(t, "keep") :
           saved[c.task].worker = t /\ saved[c.task].stack = <<>>
    /\ \A t \in Thread : \A c \in Pending(t, "unlock_task") : saved[c.task].worker = t
    /\ \A k \in Task, t \in Thread : (saved[k].worker = t /\ saved[k].stack # <<>>) =>
           \E c \in Pending(t, "unlock_task") : c.task = k

(* The step of a call is that of its name.                                 *)
LEMMA UnlockStep ==
    ASSUME BaseInv, NEW t \in Thread, Step(t), todo[t] # <<>>, Call(t).op = "unlock_task"
    PROVE  unlockTask(t)
<1>1. ~SourceStep(t)
  BY SourceStepShape DEF BaseInv, SourceOps
<1>2. ~(getTls(t) \/ push(t) \/ pop(t) \/ pop_all(t) \/ push_all(t) \/ tlsDestructionFunc(t)
        \/ malloc(t) \/ memalign(t) \/ free(t) \/ realloc(t) \/ create(t) \/ copy(t) \/ assign(t)
        \/ move(t) \/ drop(t) \/ migrate(t) \/ get(t))
  BY DEF getTls, push, pop, pop_all, push_all, tlsDestructionFunc, malloc, memalign, free, realloc,
     create, copy, assign, move, drop, migrate, get, Begins
<1>3. ~(construct(t) \/ init(t) \/ setCurrent(t) \/ lockLocal(t) \/ recheckLocal(t)
        \/ publishLocal(t) \/ unlockLocal(t) \/ keep(t) \/ freeOld(t) \/ bind(t)
        \/ lockReplica(t) \/ recheckReplica(t) \/ publishReplica(t) \/ unlockReplica(t))
  BY DEF construct, init, setCurrent, lockLocal, recheckLocal, publishLocal, unlockLocal, keep,
     freeOld, bind, lockReplica, recheckReplica, publishReplica, unlockReplica, At
<1>4. QED  BY <1>1, <1>2, <1>3 DEF Step, PlaceStep

(* A task whose places are being saved or restored belongs to the worker
   that does so.                                                           *)
LEMMA StepKeepsTasks ==
    ASSUME BaseInv, TaskInv, NEW t \in Thread, Step(t)
    PROVE  TaskInv'
<1>a. \A u \in Thread \ {t} : \A op : Pending(u, op)' = Pending(u, op)
  BY OthersKeep DEF BaseInv, Pending
<1>b. \A k \in Task : saved[k] \in SavedType(Born, DOMAIN chunk)
  BY DEF BaseInv, TypeInv, Typed
<1>c. saved \in [Task -> SavedType(Born, DOMAIN chunk)]
  BY DEF BaseInv, TypeInv, Typed
<1>d. None \notin Thread
  BY CountAssumption
<1>1. CASE keep(t)
  <2> DEFINE k == Call(t).task
  <2>1. k \in Task /\ todo[t] # <<>> /\ Call(t).op = "keep" /\ Call(t) \in Pending(t, "keep")
    BY <1>1, KeepList, CallsOfList DEF keep, At, Pending
  <2>2. saved[k].worker = t /\ saved[k].stack = <<>>
    BY <2>1 DEF TaskInv
  <2>3. \E q, b : saved' = [saved EXCEPT ![k].stack = q, ![k].block = b]
    BY <1>1 DEF keep
  <2>4. /\ \A j \in Task \ {k} : saved'[j] = saved[j]
        /\ saved'[k].worker = t
    <3>1. PICK q, b : saved' = [saved EXCEPT ![k].stack = q, ![k].block = b]
      BY <2>3
    <3> HIDE DEF k
    <3>2. \A j \in Task \ {k} : saved'[j] = saved[j]
      BY <1>c, <3>1
    <3>3. saved'[k].worker = t
      BY <1>b, <1>c, <2>1, <2>2, <3>1 DEF SavedType
    <3>4. QED  BY <3>2, <3>3
  <2>5. Pending(t, "keep")' = {} /\ Unlock(k) \in Pending(t, "unlock_task")'
        /\ \A c \in Pending(t, "unlock_task")' : c.task = k
    <3>1. AfterCall("keep") = {}
      BY DEF AfterCall
    <3>2. Range(todo[t]) = {Call(t)}
      BY <2>1, <3>1, LastCall
    <3>3. todo'[t] = KeepCalls(t) \o <<Unlock(k)>> /\ KeepCalls(t) \in Seq(AnyCall) /\ <<Unlock(k)>> \in Seq(AnyCall)
          /\ Ops(KeepCalls(t)) \subseteq {"ref", "unref", "curr", "free"}
      BY <1>1, KeepList
    <3>4. Range(todo'[t]) = Range(KeepCalls(t)) \cup Range(<<Unlock(k)>>)
      BY ONLY <3>3, RangeConcat
    <3>5. \A c \in Range(KeepCalls(t)) : c.op \in Ops(KeepCalls(t))
      BY RangeOps
    <3>6. Range(<<Unlock(k)>>) = {Unlock(k)}
      BY RangeShort
    <3>7. Unlock(k).op = "unlock_task" /\ Unlock(k).task = k
      BY DEF Unlock
    <3> HIDE DEF k
    <3>8. Range(todo'[t]) = Range(KeepCalls(t)) \cup {Unlock(k)}
      BY <3>4, <3>6
    <3>9. \A c \in Range(KeepCalls(t)) : c.op \notin {"keep", "unlock_task"}
      BY <3>3, <3>5
    <3>10. QED  BY <3>7, <3>8, <3>9 DEF Pending
  <2> HIDE DEF k
  <2>6. \A u \in Thread \ {t} : /\ \A c \in Pending(u, "keep") : c.task # k
                                /\ \A c \in Pending(u, "unlock_task") : c.task # k
    BY <1>d, <2>2 DEF TaskInv
  <2>7. \A u \in Thread, op \in {"keep", "unlock_task"} : \A c \in Pending(u, op) : c.task \in Task
    BY PendingTyped, CallFields
  <2>8. ASSUME NEW u \in Thread, NEW c \in Pending(u, "keep")'
        PROVE  saved'[c.task].worker = u /\ saved'[c.task].stack = <<>>
    BY <1>a, <2>4, <2>5, <2>6, <2>7, <2>8 DEF TaskInv
  <2>9. ASSUME NEW u \in Thread, NEW c \in Pending(u, "unlock_task")'
        PROVE  saved'[c.task].worker = u
    BY <1>a, <2>4, <2>5, <2>6, <2>7, <2>9 DEF TaskInv
  <2>10. ASSUME NEW j \in Task, NEW u \in Thread, saved'[j].worker = u, saved'[j].stack # <<>>
         PROVE  \E c \in Pending(u, "unlock_task")' : c.task = j
    <3>1. CASE j = k
      <4>1. u = t
        BY <2>4, <2>10, <3>1
      <4>2. Unlock(k).task = k
        BY DEF Unlock
      <4>3. QED  BY <2>5, <3>1, <4>1, <4>2
    <3>2. CASE j # k
      <4>1. \E c \in Pending(u, "unlock_task") : c.task = j
        BY <2>4, <2>10, <3>2 DEF TaskInv
      <4>2. u # t
        <5>1. AfterCall("keep") = {}
          BY DEF AfterCall
        <5>2. Range(todo[t]) = {Call(t)}
          BY <2>1, <5>1, LastCall
        <5>3. QED  BY <2>1, <4>1, <5>2 DEF Pending
      <4>3. QED  BY <1>a, <4>1, <4>2
    <3>3. QED  BY <3>1, <3>2
  <2>11. QED  BY <2>8, <2>9, <2>10 DEF TaskInv
<1>2. CASE unlockTask(t)
  <2> DEFINE k == Call(t).task
  <2>1. todo[t] # <<>> /\ Call(t).op = "unlock_task" /\ Call(t) \in Pending(t, "unlock_task")
    BY <1>2, CallsOfList DEF unlockTask, At, Pending
  <2>2. k \in Task /\ saved[k].worker = t
    BY <2>1, CallInHand, CallFields DEF TaskInv, BaseInv
  <2>3. saved' = [saved EXCEPT ![k].worker = None] /\ todo'[t] = <<>>
    <3>1. AfterCall("unlock_task") = {}
      BY DEF AfterCall
    <3>2. todo'[t] = Tail(todo[t])
      BY <1>2, PlainShapes DEF BaseInv
    <3>3. QED  BY <1>2, <2>1, <3>1, <3>2, LastCall DEF unlockTask
  <2>4. Range(todo[t]) = {Call(t)}
    <3>1. AfterCall("unlock_task") = {}
      BY DEF AfterCall
    <3>2. QED  BY <2>1, <3>1, LastCall
  <2> HIDE DEF k
  <2>5. \A j \in Task : /\ j # k => saved'[j] = saved[j]
                        /\ saved'[k].worker = None
    BY <1>b, <1>c, <2>2, <2>3 DEF SavedType
  <2>6. \A op : Pending(t, op)' = {}
    BY <2>3, RangeShort DEF Pending
  <2>7. \A u \in Thread \ {t} : /\ \A c \in Pending(u, "keep") : c.task # k
                                /\ \A c \in Pending(u, "unlock_task") : c.task # k
    BY <1>d, <2>2 DEF TaskInv
  <2>8. \A u \in Thread, op \in {"keep", "unlock_task"} : \A c \in Pending(u, op) : c.task \in Task
    BY PendingTyped, CallFields
  <2>9. ASSUME NEW u \in Thread
        PROVE  /\ \A c \in Pending(u, "keep")' : saved'[c.task].worker = u /\ saved'[c.task].stack = <<>>
               /\ \A c \in Pending(u, "unlock_task")' : saved'[c.task].worker = u
    BY <1>a, <2>5, <2>6, <2>7, <2>8 DEF TaskInv
  <2>10. ASSUME NEW j \in Task, NEW u \in Thread, saved'[j].worker = u, saved'[j].stack # <<>>
         PROVE  \E c \in Pending(u, "unlock_task")' : c.task = j
    <3>1. j # k
      BY <1>d, <2>5, <2>10
    <3>2. PICK c \in Pending(u, "unlock_task") : c.task = j
      BY <2>5, <2>10, <3>1 DEF TaskInv
    <3>3. u # t
      BY <2>4, <3>1, <3>2 DEF Pending, k
    <3>4. QED  BY <1>a, <3>2, <3>3
  <2>11. QED  BY <2>9, <2>10 DEF TaskInv
<1>3. CASE push_all(t)
  <2> DEFINE k == Op(t).task
  <2>1. Begins(t, "restore") /\ saved[k].worker = None /\ saved' = [saved EXCEPT ![k].worker = t, ![k].stack = <<>>]
    BY <1>3 DEF push_all
  <2>2. k \in Task /\ todo[t] = <<>>
    <3>1. Op(t) \in Operation /\ Op(t).op = "restore" /\ todo[t] = <<>>
      <4>1. \E calls : Begin(t, calls)
        BY <1>3 DEF push_all
      <4>2. QED  BY <2>1, <4>1, BeginTypes DEF BaseInv
    <3>2. QED  BY <3>1, OperationFields
  <2> HIDE DEF k
  <2>3. \A j \in Task : /\ j # k => saved'[j] = saved[j]
                        /\ saved'[k].worker = t /\ saved'[k].stack = <<>>
    BY <1>b, <1>c, <2>1, <2>2 DEF SavedType
  <2>4. Pending(t, "keep")' = {} /\ Pending(t, "unlock_task")' = {} /\ \A op : Pending(t, op) = {}
    <3>1. Pending(t, "keep") = {} /\ Pending(t, "unlock_task") = {} /\ \A op : Pending(t, op) = {}
      BY <2>2, RangeShort DEF Pending
    <3>2. ~pop_all(t) /\ ~keep(t)
      BY <1>3 DEF push_all, pop_all, keep, Begins, At
    <3>3. QED  BY <3>1, <3>2, PendingNew
  <2>5. \A u \in Thread \ {t} : /\ \A c \in Pending(u, "keep") : c.task # k
                                /\ \A c \in Pending(u, "unlock_task") : c.task # k
    BY <1>d, <2>1 DEF TaskInv
  <2>6. \A u \in Thread, op \in {"keep", "unlock_task"} : \A c \in Pending(u, op) : c.task \in Task
    BY PendingTyped, CallFields
  <2>7. ASSUME NEW u \in Thread
        PROVE  /\ \A c \in Pending(u, "keep")' : saved'[c.task].worker = u /\ saved'[c.task].stack = <<>>
               /\ \A c \in Pending(u, "unlock_task")' : saved'[c.task].worker = u
    BY <1>a, <2>3, <2>4, <2>5, <2>6 DEF TaskInv
  <2>8. ASSUME NEW j \in Task, NEW u \in Thread, saved'[j].worker = u, saved'[j].stack # <<>>
         PROVE  \E c \in Pending(u, "unlock_task")' : c.task = j
    <3>1. j # k
      BY <2>3, <2>8
    <3>2. PICK c \in Pending(u, "unlock_task") : c.task = j
      BY <2>3, <2>8, <3>1 DEF TaskInv
    <3>3. u # t
      BY <2>4, <3>2
    <3>4. QED  BY <1>a, <3>2, <3>3
  <2>9. QED  BY <2>7, <2>8 DEF TaskInv
<1>4. CASE saved' = saved /\ ~keep(t) /\ ~unlockTask(t) /\ ~push_all(t)
  <2>1. \A c \in Pending(t, "unlock_task")' : c \in Pending(t, "unlock_task")
    BY <1>4, PendingNew
  <2>2. \A c \in Pending(t, "unlock_task") : c \in Pending(t, "unlock_task")'
    <3> TAKE c \in Pending(t, "unlock_task")
    <3>1. todo[t] # <<>> /\ c \in Range(todo[t]) /\ c.op = "unlock_task"
      BY PendingTyped
    <3>2. c # Call(t)
      <4>1. CASE c = Call(t)
        <5>1. Call(t).op = "unlock_task"
          BY <3>1, <4>1
        <5>2. unlockTask(t)
          BY <3>1, <5>1, UnlockStep
        <5>3. QED  BY <1>4, <5>2
      <4>2. QED  BY <4>1
    <3>3. QED  BY <3>1, <3>2, PendingStays DEF Pending
  <2>3. ASSUME NEW c \in Pending(t, "keep")'
        PROVE  saved[c.task].worker = t /\ saved[c.task].stack = <<>>
    <3>1. CASE c \in Pending(t, "keep")
      BY <3>1 DEF TaskInv
    <3>2. CASE pop_all(t) /\ c = Keep(Op(t).task, Op(t).done)
      <4>1. c.task = Op(t).task /\ saved[Op(t).task].worker = t /\ todo[t] = <<>>
        BY <3>2 DEF pop_all, Keep, Begins
      <4>2. Op(t).task \in Task
        <5>1. Begins(t, "save") /\ \E calls : Begin(t, calls)
          BY <3>2 DEF pop_all
        <5>2. Op(t) \in Operation /\ Op(t).op = "save"
          BY <5>1, BeginTypes DEF BaseInv
        <5>3. QED  BY <5>2, OperationFields
      <4>3. Pending(t, "unlock_task") = {}
        BY <4>1, RangeShort DEF Pending
      <4>4. QED  BY <4>1, <4>2, <4>3 DEF TaskInv
    <3>3. QED  BY <2>3, <3>1, <3>2, PendingNew
  <2>4. QED  BY <1>4, <1>a, <2>1, <2>2, <2>3 DEF TaskInv
<1>5. QED  BY <1>1, <1>2, <1>3, <1>4, SavedChange

(* The chunk a thread has in hand is nobody else's.                        *)
Distinct == \A t, u \in Thread : (t # u /\ my[t].b # None) =>
               my[u].b # my[t].b /\ tls[u].block # my[t].b

(* A chunk is allocated for what the operation needs it for.               *)
AllocFor(t) ==
    \A c \in Pending(t, "alloc") : /\ Has(t, "construct") => c.use = "storage"
                                   /\ Has(t, "keep") => c.use = "places"

(* A chunk that is being allocated is nobody's yet.                        *)
InHand(t) ==
    (todo[t] # <<>> /\ Call(t).op = "alloc") =>
        /\ (pc[t] # "start" /\ my[t].b # None) =>
              chunk[my[t].b].use = "none" /\ chunk[my[t].b].source = Call(t).s
        /\ pc[t] \in {"link", "linked", "count"} => my[t].b # None

(* The memory of a thread's storage, and that which is about to be.        *)
StorageOf(t) ==
    /\ tls[t].state # "none" => /\ chunk[tls[t].block].use = "storage"
                                /\ \A u \in Thread \ {t} : tls[u].block # tls[t].block
    /\ (At(t, "construct", "start") /\ my[t].b # None) => chunk[my[t].b].use = "storage"

(* The memory of the places of a task, and that which is about to be.      *)
PlacesOf(k) ==
    /\ Len(saved[k].block) <= 1
    /\ \A b \in Range(saved[k].block) : /\ chunk[b].use = "places"
                                       /\ \A j \in Task \ {k} : b \notin Range(saved[j].block)
KeepsOf(t) ==
    (At(t, "keep", "start") /\ tls[t].stack # <<>> /\ my[t].b # None) =>
        chunk[my[t].b].use = "places" /\ \A k \in Task : my[t].b \notin Range(saved[k].block)

(* A block that is reallocated.                                            *)
MovingOf(t) ==
    \A c \in Pending(t, "free_old") :
        /\ chunk[c.b].use = "moving"
        /\ \A u \in Thread \ {t} : \A d \in Pending(u, "free_old") : d.b # c.b
BlockInv ==
    /\ Distinct
    /\ \A t \in Thread : AllocFor(t) /\ InHand(t) /\ StorageOf(t) /\ KeepsOf(t) /\ MovingOf(t)
    /\ \A k \in Task : PlacesOf(k)

(* What the variables hold.                                                *)
LEMMA InHandTypes ==
    ASSUME BaseInv
    PROVE  /\ \A t \in Thread : my[t].b \in DOMAIN chunk \cup {None} /\ tls[t].block \in DOMAIN chunk \cup {None}
           /\ \A t \in Thread : tls[t].state = "none" => tls[t].block = None
           /\ \A t \in Thread : tls[t].state # "none" => tls[t].block # None
           /\ \A k \in Task : saved[k].block \in Seq(DOMAIN chunk) /\ Range(saved[k].block) \subseteq DOMAIN chunk
           /\ None \notin DOMAIN chunk /\ Len(chunk) + 1 \notin DOMAIN chunk /\ Len(chunk) + 1 # None
           /\ \A t \in Thread : \A c \in Pending(t, "free_old") : c.b \in DOMAIN chunk
<1>1. TypeInv /\ TlsInv
  BY DEF BaseInv
<1>2. \A t \in Thread : my[t].b \in DOMAIN chunk \cup {None} /\ tls[t].block \in DOMAIN chunk \cup {None}
  BY <1>1 DEF TypeInv, Typed, MyType, TlsType
<1>3. \A t \in Thread : /\ tls[t].state = "none" => tls[t].block = None
                        /\ tls[t].state # "none" => tls[t].block # None
  BY <1>1 DEF TlsInv, TlsOf, NoStorage
<1>4. \A k \in Task : saved[k].block \in Seq(DOMAIN chunk)
  BY <1>1 DEF TypeInv, Typed, SavedType
<1>5. \A k \in Task : Range(saved[k].block) \subseteq DOMAIN chunk
  <2> TAKE k \in Task
  <2> DEFINE q == saved[k].block
  <2>1. q \in Seq(DOMAIN chunk)
    BY <1>4
  <2> HIDE DEF q
  <2>2. Range(q) \subseteq DOMAIN chunk
    BY <2>1 DEF Range
  <2>3. QED  BY <2>2 DEF q
<1>6. DOMAIN chunk = 1 .. Len(chunk) /\ Len(chunk) \in Nat
  BY <1>1 DEF TypeInv, Chunked
<1>7. None \notin Int
  BY CountAssumption
<1> DEFINE n == Len(chunk)
<1> HIDE DEF n
<1>8. n + 1 \notin 1 .. n /\ n + 1 # None /\ None \notin 1 .. n
  <2>1. n \in Nat
    BY <1>6 DEF n
  <2>2. QED  BY <1>7, <2>1
<1>9. None \notin DOMAIN chunk /\ Len(chunk) + 1 \notin DOMAIN chunk /\ Len(chunk) + 1 # None
  BY <1>6, <1>8 DEF n
<1>10. \A t \in Thread : \A c \in Pending(t, "free_old") : c.b \in DOMAIN chunk
  BY PendingTyped, CallFields
<1>11. QED  BY <1>2, <1>3, <1>4, <1>5, <1>9, <1>10

(* The vectors that go are the task's old one and, if it is done, the new. *)
LEMMA KeepGoneRange ==
    ASSUME BaseInv, BlockInv, NEW t \in Thread, keep(t)
    PROVE  /\ Call(t).task \in Task /\ todo[t] # <<>> /\ Call(t).op = "keep"
           /\ tls[t].stack # <<>> => my[t].b # None /\ my[t].b \in DOMAIN chunk /\ chunk[my[t].b].use = "places"
                                     /\ \A k \in Task : my[t].b \notin Range(saved[k].block)
           /\ Range(KeepGone(t)) = Range(saved[Call(t).task].block)
                  \cup (IF Call(t).done /\ tls[t].stack # <<>> THEN {my[t].b} ELSE {})
           /\ \A b \in Range(KeepGone(t)) : b \in DOMAIN chunk /\ chunk[b].use = "places"
<1> DEFINE k == Call(t).task
<1>1. k \in Task /\ KeepGone(t) \in Seq(DOMAIN chunk)
  BY KeepList
<1>2. At(t, "keep", "start") /\ (tls[t].stack # <<>> => my[t].b # None) /\ todo[t] # <<>> /\ Call(t).op = "keep"
  BY DEF keep, At
<1>3. tls[t].stack # <<>> => /\ my[t].b # None /\ my[t].b \in DOMAIN chunk /\ chunk[my[t].b].use = "places"
                             /\ \A j \in Task : my[t].b \notin Range(saved[j].block)
  BY <1>2, InHandTypes DEF BlockInv, KeepsOf
<1>4. Range(KeepGone(t)) = Range(saved[k].block) \cup (IF Call(t).done /\ tls[t].stack # <<>> THEN {my[t].b} ELSE {})
  <2> DEFINE p == saved[k].block
             x == my[t].b
             on == Call(t).done /\ tls[t].stack # <<>>
             q == IF Call(t).done THEN (IF tls[t].stack = <<>> THEN <<>> ELSE <<my[t].b>>) ELSE <<>>
  <2>1. q = IF on THEN <<x>> ELSE <<>>
    OBVIOUS
  <2>2. KeepGone(t) = p \o q
    BY DEF KeepGone
  <2>3. p \in Seq(DOMAIN chunk) /\ (on => x \in DOMAIN chunk)
    BY <1>1, <1>3, InHandTypes
  <2> HIDE DEF p, x, on, q
  <2>4. q \in Seq(DOMAIN chunk)
    BY <2>1, <2>3, ShortLists
  <2>5. Range(p \o q) = Range(p) \cup Range(q)
    BY ONLY <2>3, <2>4, RangeConcat
  <2>6. Range(q) = IF on THEN {x} ELSE {}
    BY ONLY <2>1, RangeShort
  <2>7. QED  BY <2>2, <2>5, <2>6 DEF p, x, on
<1>5. \A b \in Range(saved[k].block) : b \in DOMAIN chunk /\ chunk[b].use = "places"
  BY <1>1, InHandTypes DEF BlockInv, PlacesOf
<1> HIDE DEF k
<1>6. \A b \in Range(KeepGone(t)) : b \in DOMAIN chunk /\ chunk[b].use = "places"
  BY <1>3, <1>4, <1>5
<1>7. QED  BY <1>1, <1>2, <1>3, <1>4, <1>6 DEF k

(* Who changes the use of a chunk, and of which.                           *)
LEMMA UseChange ==
    ASSUME BaseInv, BlockInv, NEW t \in Thread, Step(t), NEW b \in DOMAIN chunk,
           chunk'[b].use # chunk[b].use
    PROVE  \/ allocCount(t) /\ b = my[t].b /\ chunk[b].use = "none" /\ chunk'[b].use = Call(t).use
           \/ keep(t) /\ b \in Range(KeepGone(t)) /\ chunk[b].use = "places" /\ chunk'[b].use = "freed"
           \/ /\ tlsDestructionFunc(t) /\ tls[t].state # "none" /\ b = tls[t].block
              /\ chunk[b].use = "storage" /\ chunk'[b].use = "freed"
           \/ /\ free(t) \/ realloc(t)
              /\ chunk[b].use = "block" /\ chunk'[b].use \in {"freed", "moving"}
           \/ /\ freeOld(t) /\ b = Call(t).b /\ chunk[b].use = "moving"
              /\ chunk'[b].use = IF my[t].b # None THEN "freed" ELSE "block"
<1>1. Working(t)
  BY ChunkChange DEF UsesKept
<1>2. \A x \in DOMAIN chunk : chunk[x] \in ChunkType(DOMAIN chunk)
  BY ChunkFields DEF BaseInv
<1>a. \A x, u : chunk' = [chunk EXCEPT ![x].use = u] => b = x /\ chunk'[b].use = u
  <2>1. "use" \in DOMAIN chunk[b]
    BY <1>2 DEF ChunkType
  <2>2. QED  BY <2>1
<1>b. \A g : chunk' = Given(g) => b \in g /\ chunk'[b].use = "freed"
  <2> TAKE g
  <2> HAVE chunk' = Given(g)
  <2>1. Given(g)[b].use = IF b \in g THEN "freed" ELSE chunk[b].use
    BY GivenTypes DEF BaseInv
  <2>2. QED  BY <2>1
<1>3. CASE allocCount(t)
  <2>1. chunk' = [chunk EXCEPT ![my[t].b].use = Call(t).use] /\ At(t, "alloc", "count")
    BY <1>3 DEF allocCount
  <2>2. b = my[t].b /\ chunk'[b].use = Call(t).use
    BY <1>a, <2>1
  <2>3. b # None
    BY InHandTypes
  <2>4. chunk[b].use = "none"
    BY <2>1, <2>2, <2>3 DEF BlockInv, InHand, At
  <2>5. QED  BY <1>3, <2>2, <2>4
<1>4. CASE keep(t)
  <2>1. chunk' = Given(Range(KeepGone(t)))
    BY <1>4, KeepList
  <2>2. b \in Range(KeepGone(t)) /\ chunk'[b].use = "freed"
    BY <1>b, <2>1
  <2>3. QED  BY <1>4, <2>2, KeepGoneRange
<1>5. CASE tlsDestructionFunc(t)
  <2>1. chunk' = Given({tls[t].block})
    BY <1>5 DEF tlsDestructionFunc
  <2>2. b = tls[t].block /\ chunk'[b].use = "freed"
    BY <1>b, <2>1
  <2>3. tls[t].state # "none"
    BY <2>2, InHandTypes
  <2>4. QED  BY <1>5, <2>2, <2>3 DEF BlockInv, StorageOf
<1>6. CASE free(t)
  <2>1. \E x \in Blocks : chunk' = Given({x})
    BY <1>6 DEF free
  <2>2. PICK x \in Blocks : chunk' = Given({x})
    BY <2>1
  <2>3. b = x /\ chunk'[b].use = "freed"
    BY <1>b, <2>2
  <2>4. QED  BY <1>6, <2>2, <2>3 DEF Blocks
<1>7. CASE realloc(t)
  <2>1. \E x \in Blocks : chunk' = [chunk EXCEPT ![x].use = "moving"]
    BY <1>7 DEF realloc
  <2>2. PICK x \in Blocks : chunk' = [chunk EXCEPT ![x].use = "moving"]
    BY <2>1
  <2>3. b = x /\ chunk'[b].use = "moving"
    BY <1>a, <2>2
  <2>4. QED  BY <1>7, <2>2, <2>3 DEF Blocks
<1>8. CASE freeOld(t)
  <2>1. chunk' = [chunk EXCEPT ![Call(t).b].use = IF my[t].b # None THEN "freed" ELSE "block"]
    BY <1>8 DEF freeOld
  <2>2. b = Call(t).b /\ chunk'[b].use = IF my[t].b # None THEN "freed" ELSE "block"
    BY <1>a, <2>1
  <2>3. todo[t] # <<>> /\ Call(t).op = "free_old"
    BY <1>8 DEF freeOld, At
  <2>4. Call(t) \in Pending(t, "free_old")
    BY <2>3, CallsOfList DEF Pending
  <2>5. QED  BY <1>8, <2>2, <2>4 DEF BlockInv, MovingOf
<1>9. QED  BY <1>1, <1>3, <1>4, <1>5, <1>6, <1>7, <1>8 DEF Working

(* The chunk in hand.                                                      *)
LEMMA StepKeepsDistinct ==
    ASSUME BaseInv, Distinct, NEW t \in Thread, Step(t)
    PROVE  Distinct'
<1>1. \A u \in Thread \ {t} : my'[u] = my[u] /\ tls'[u] = tls[u]
  BY OthersKeep DEF BaseInv
<1>2. \/ my'[t].b = my[t].b \/ my'[t].b = None \/ my'[t].b = Len(chunk) + 1
  BY MyChange
<1>3. \/ tls'[t].block = tls[t].block
      \/ tls'[t].block = None
      \/ my'[t].b = my[t].b /\ tls'[t].block = my[t].b
  <2>1. CASE construct(t)
    <3>1. tls' = [tls EXCEPT ![t].state = "constructed", ![t].block = my[t].b] /\ my' = my
      BY <2>1 DEF construct
    <3>2. "block" \in DOMAIN tls[t] /\ t \in DOMAIN tls
      BY DEF BaseInv, TypeInv, Typed, TlsType
    <3>3. QED  BY <3>1, <3>2
  <2>2. CASE tlsDestructionFunc(t)
    <3>1. tls' = [tls EXCEPT ![t] = NoStorage]
      BY <2>2 DEF tlsDestructionFunc
    <3>2. t \in DOMAIN tls
      BY DEF BaseInv, TypeInv, Typed
    <3>3. QED  BY <3>1, <3>2 DEF NoStorage
  <2>3. QED  BY <2>1, <2>2, BlockChange
<1>4. \A u \in Thread : /\ my[u].b \in DOMAIN chunk \cup {None} /\ tls[u].block \in DOMAIN chunk \cup {None}
                        /\ Len(chunk) + 1 \notin DOMAIN chunk /\ Len(chunk) + 1 # None
  BY InHandTypes
<1>5. ASSUME NEW u \in Thread, NEW v \in Thread, u # v, my'[u].b # None
      PROVE  my'[v].b # my'[u].b /\ tls'[v].block # my'[u].b
  <2>1. CASE u = t
    <3>1. my'[v] = my[v] /\ tls'[v] = tls[v]
      BY <1>1, <1>5, <2>1
    <3>2. QED  BY <1>2, <1>4, <1>5, <2>1, <3>1 DEF Distinct
  <2>2. CASE u # t
    <3>1. my'[u] = my[u]
      BY <1>1, <2>2
    <3>2. CASE v = t
      BY <1>2, <1>3, <1>4, <1>5, <2>2, <3>1, <3>2 DEF Distinct
    <3>3. CASE v # t
      BY <1>1, <1>5, <3>1, <3>3 DEF Distinct
    <3>4. QED  BY <3>2, <3>3
  <2>3. QED  BY <2>1, <2>2
<1>6. QED  BY <1>5 DEF Distinct

(* Only the set-up of a thread's storage and the end of a task's run       *)
(* allocate for themselves.                                                *)
LEMMA StorageCalls ==
    ASSUME BaseInv, NEW t \in Thread, Step(t)
    PROVE  \/ SourceStep(t) \/ getTls(t) \/ pop_all(t)
           \/ ~Has(t, "construct")' /\ ~Has(t, "keep")'
<1> DEFINE Clear == ~Has(t, "construct")' /\ ~Has(t, "keep")'
<1>a. TypeInv /\ PcInv /\ OrderInv /\ TlsInv
  BY DEF BaseInv
<1>b. \A op : op # "alloc" => "construct" \notin AfterCall(op) /\ "keep" \notin AfterCall(op)
  BY DEF AfterCall
<1>d. ASSUME NEW op, NEW must, NEW may, Ends(t, op, must, may), op # "alloc", "construct" \notin may, "keep" \notin may
      PROVE  Clear
  <2>1. Ops(todo'[t]) \subseteq may \cup Ops(Tail(todo[t])) /\ todo[t] # <<>> /\ Call(t).op = op
    BY <1>d DEF Ends
  <2>2. Ops(Tail(todo[t])) \subseteq AfterCall(op)
    BY <1>a, <2>1, HeadAndTail
  <2>3. QED  BY <1>b, <1>d, <2>1, <2>2 DEF Has
<1>e. ASSUME NEW op, NEW must, NEW may, Opens(t, op, must, may), "construct" \notin may, "keep" \notin may
      PROVE  Clear
  BY <1>e, OpensHas
<1>f. ASSUME NEW label, Stays(t, label), Call(t).op \in {"curr", "replica"}
      PROVE  Clear
  <2>1. todo'[t] = todo[t] /\ todo[t] # <<>>
    BY <1>f DEF Stays
  <2>2. Ops(todo[t]) \subseteq {Call(t).op} \cup AfterCall(Call(t).op)
    BY <1>a, <2>1, HeadAndTail
  <2>3. QED  BY <1>b, <1>f, <2>1, <2>2 DEF Has
<1>2. CASE PlainOpens(t)
  BY <1>a, <1>e, <1>2, PlainOpensShape
<1>3. CASE PlainEnds(t)
  <2>1. recheckReplica(t) => Clear
    BY <1>a, <1>d, CallShapes
  <2>2. freeOld(t) => Clear
    BY <1>a, <1>d, CallShapes
  <2>3. publishLocal(t) \/ unlockLocal(t) \/ unlockTask(t) => Clear
    BY <1>a, <1>d, PlainShapes
  <2>4. bind(t) \/ publishReplica(t) \/ unlockReplica(t) => Clear
    BY <1>a, <1>d, PlainShapes
  <2> HIDE DEF Clear
  <2>5. QED  BY <1>3, <2>1, <2>2, <2>3, <2>4 DEF PlainEnds, Clear
<1>5. CASE construct(t)
  BY <1>a, <1>d, <1>5, CallShapes
<1>6. CASE init(t)
  BY <1>a, <1>d, <1>6, CallShapes
<1>7. CASE setCurrent(t)
  BY <1>a, <1>d, <1>f, <1>7, CallShapes
<1>8. CASE lockLocal(t) \/ lockReplica(t)
  BY <1>a, <1>f, <1>8, PlainShapes
<1>9. CASE recheckLocal(t)
  <2>1. /\ todo[t] # <<>> /\ Call(t).op = "curr"
        /\ Ops(todo'[t]) \subseteq Ops(todo[t]) \cup {"unlock_local", "ref", "publish_local"}
    BY <1>a, <1>9, RecheckShape
  <2>2. Ops(todo[t]) \subseteq {"curr"} \cup AfterCall("curr")
    BY <1>a, <2>1, HeadAndTail
  <2>3. Clear
    BY <1>b, <2>1, <2>2 DEF Has
  <2>4. QED  BY <2>3
<1>10. CASE push(t) \/ pop(t) \/ push_all(t) \/ tlsDestructionFunc(t)
  <2>1. CASE push(t)
    BY <1>a, <1>e, <2>1, StackShapes
  <2>2. CASE pop(t)
    BY <1>a, <1>e, <2>2, StackShapes
  <2>3. CASE push_all(t)
    BY <1>a, <1>e, <2>3, StackShapes
  <2>4. CASE tlsDestructionFunc(t)
    BY <1>a, <1>e, <2>4, StackShapes
  <2>5. QED  BY <1>10, <2>1, <2>2, <2>3, <2>4
<1>12. CASE keep(t)
  <2>1. Call(t).op = "keep" /\ Ends(t, "keep", {"curr", "unlock_task"}, {"ref", "unref", "curr", "free", "unlock_task"})
    BY <1>a, <1>12, CallShapes DEF Ends
  <2>2. Clear
    BY <1>d, <2>1
  <2>3. QED  BY <2>2
<1> HIDE DEF Clear
<1>13. QED
  BY <1>2, <1>3, <1>5, <1>6, <1>7, <1>8, <1>9, <1>10, <1>12, StepCases DEF Clear

(* The purpose a block is allocated for does not change while the
   allocation is pending.                                                  *)
LEMMA StepKeepsAllocFor ==
    ASSUME BaseInv, NEW t \in Thread, AllocFor(t), Step(t)
    PROVE  AllocFor(t)'
<1>a. TypeInv /\ PcInv /\ OrderInv /\ TlsInv
  BY DEF BaseInv
<1>c. ASSUME todo'[t] = todo[t] PROVE AllocFor(t)'
  BY <1>c DEF AllocFor, Pending, Has
<1>1. CASE SourceStep(t)
  <2>1. \/ \E label : Stays(t, label)
        \/ todo[t] # <<>> /\ todo'[t] = Tail(todo[t])
    BY <1>a, <1>1, SourceStepShape
  <2>2. CASE \E label : Stays(t, label)
    BY <1>c, <2>2 DEF Stays
  <2>3. CASE todo[t] # <<>> /\ todo'[t] = Tail(todo[t])
    <3>1. Range(todo[t]) = {Call(t)} \cup Range(todo'[t])
      BY <2>3, CallsOfList
    <3>2. Ops(todo'[t]) \subseteq Ops(todo[t])
      BY <1>a, <2>3, HeadAndTail
    <3>3. QED  BY <3>1, <3>2 DEF AllocFor, Pending, Has
  <2>4. QED  BY <2>1, <2>2, <2>3
<1>4. CASE getTls(t)
  <2>1. todo'[t] = <<Alloc(GlobalSource, TlsSize, "storage"), Construct, InitTls, SetCurrent>>
        /\ Ops(todo'[t]) = {"alloc", "construct", "init", "curr"}
    BY <1>a, <1>4, GetTlsShape
  <2> DEFINE a == Alloc(GlobalSource, TlsSize, "storage")
  <2>2. a.use = "storage" /\ Construct.op = "construct" /\ InitTls.op = "init" /\ SetCurrent.op = "curr"
    <3>1. a.use = "storage"
      BY DEF Alloc
    <3>2. QED  BY <3>1, CallNames
  <2>3. todo'[t] = <<a, Construct, InitTls, SetCurrent>>
    BY <2>1
  <2> HIDE DEF a
  <2>4. Range(todo'[t]) = {a, Construct, InitTls, SetCurrent}
    BY <2>3 DEF Range
  <2>5. QED  BY <2>1, <2>2, <2>4 DEF AllocFor, Pending, Has
<1>11. CASE pop_all(t)
  <2> DEFINE a == Alloc(current[t], StackSize, "places")
             b == Keep(Op(t).task, Op(t).done)
             q == (IF tls[t].stack = <<>> THEN <<>> ELSE <<a>>) \o <<b>>
  <2>1. Begins(t, "save") /\ Begin(t, q)
    BY <1>11 DEF pop_all
  <2>3. a.use = "places" /\ b.op = "keep" /\ a.op = "alloc"
    BY DEF Alloc, Keep
  <2> HIDE DEF a, b
  <2>2. todo'[t] = q
    <3> HIDE DEF q
    <3>1. todo' = [todo EXCEPT ![t] = q]
      BY <1>a, <2>1, BeginTypes
    <3>2. DOMAIN todo = Thread
      BY <1>a DEF TypeInv, Typed
    <3>3. QED  BY <3>1, <3>2
  <2>4. Range(q) \subseteq {a, b} /\ Ops(q) \subseteq {"alloc", "keep"}
    <3>1. q = <<b>> \/ q = <<a, b>>
      <4>1. <<>> \o <<b>> = <<b>>
        OBVIOUS
      <4>2. <<a>> \o <<b>> = <<a, b>>
        BY OneThenOne
      <4>3. QED  BY <4>1, <4>2
    <3> HIDE DEF q
    <3>2. CASE q = <<b>>
      BY <2>3, <3>2, RangeShort, OpsFacts
    <3>3. CASE q = <<a, b>>
      BY <2>3, <3>3, RangeShort, OpsFacts
    <3>4. QED  BY <3>1, <3>2, <3>3
  <2> HIDE DEF q
  <2>5. QED  BY <2>2, <2>3, <2>4 DEF AllocFor, Pending, Has
<1>12. QED
  BY <1>1, <1>4, <1>11, StorageCalls DEF AllocFor

(* The steps of alloc.                                                     *)
AllocSteps(t) ==
    \/ allocMap(t) \/ allocLink(t) \/ allocLinked(t) \/ allocLock(t) \/ arenaAlloc(t)
    \/ arenaAllocEnd(t) \/ create_new_arena(t) \/ allocUnlock(t) \/ allocCount(t)

(* What a step of alloc does to the chunk in hand.                         *)
LEMMA AllocStep ==
    ASSUME BaseInv, NEW t \in Thread, Step(t), todo[t] # <<>>, Call(t).op = "alloc"
    PROVE  AllocSteps(t) /\ UNCHANGED placeVars
<1>1. SourceStep(t) /\ UNCHANGED placeVars
  <2>1. ~PlainOpens(t)
    BY DEF PlainOpens, malloc, memalign, free, realloc, create, copy, assign, move, drop, migrate, get, Begins
  <2>2. ~PlainEnds(t)
    BY DEF PlainEnds, publishLocal, unlockLocal, unlockTask, freeOld, bind, recheckReplica, publishReplica,
       unlockReplica, At
  <2>3. ~getTls(t) /\ ~construct(t) /\ ~init(t) /\ ~setCurrent(t) /\ ~lockLocal(t) /\ ~recheckLocal(t)
    BY DEF getTls, construct, init, setCurrent, lockLocal, recheckLocal, At
  <2>4. ~push(t) /\ ~pop(t) /\ ~pop_all(t) /\ ~keep(t) /\ ~push_all(t) /\ ~tlsDestructionFunc(t) /\ ~lockReplica(t)
    BY DEF push, pop, pop_all, keep, push_all, tlsDestructionFunc, lockReplica, At, Begins
  <2>5. QED  BY <2>1, <2>2, <2>3, <2>4, StepCases
<1>2. pc[t] \in LabelsOf("alloc")
  BY DEF BaseInv, PcInv
<1>3. "remove" \notin LabelsOf("alloc") /\ "destroy" \notin LabelsOf("alloc")
  BY DEF LabelsOf
<1>4. ~destroyRemove(t) /\ ~destroyFinish(t)
  BY <1>2, <1>3 DEF destroyRemove, destroyFinish
<1>5. ~ref(t) /\ ~unrefLook(t) /\ ~unrefDescribe(t) /\ ~unrefDeref(t) /\ ~freeInArena(t) /\ ~freeInArenaEnd(t)
      /\ ~freeUnlink(t) /\ ~freeUnmap(t) /\ ~freeUncount(t)
  BY DEF ref, unrefLook, unrefDescribe, unrefDeref, freeInArena, freeInArenaEnd, freeUnlink, freeUnmap, freeUncount, At
<1>6. ~migrateLock(t) /\ ~migrateLockChunks(t) /\ ~migrateArena(t) /\ ~migratePages(t)
      /\ ~migrateUnlockChunks(t) /\ ~migrateWalk(t) /\ ~migrateUnlockArena(t) /\ ~migrateEnd(t)
  BY DEF migrateLock, migrateLockChunks, migrateArena, migratePages, migrateUnlockChunks, migrateWalk,
     migrateUnlockArena, migrateEnd, At
<1>7. QED  BY <1>1, <1>4, <1>5, <1>6 DEF SourceStep, AllocSteps

(* What becomes of the chunk in hand.                                      *)
LEMMA StepKeepsInHand ==
    ASSUME BaseInv, BlockInv, NEW t \in Thread, Step(t), NEW u \in Thread
    PROVE  InHand(u)'
<1>a. TypeInv /\ PcInv /\ OrderInv /\ TlsInv
  BY DEF BaseInv
<1>b. /\ \A b \in DOMAIN chunk : chunk'[b].source = chunk[b].source
      /\ Working(t) \/ UsesKept
  BY ChunkChange
<1>c. InHand(u) /\ Distinct /\ my[u].b \in DOMAIN chunk \cup {None}
  BY InHandTypes DEF BlockInv
<1>1. CASE u # t
  <2>1. todo'[u] = todo[u] /\ pc'[u] = pc[u] /\ my'[u] = my[u]
    BY <1>a, <1>1, OthersKeep
  <2>2. ASSUME my[u].b # None, chunk[my[u].b].use = "none" PROVE chunk'[my[u].b].use = "none"
    <3>1. my[u].b # my[t].b
      BY <1>1, <1>c, <2>2 DEF Distinct
    <3>2. QED  BY <1>c, <2>2, <3>1, UseChange
  <2>3. QED  BY <1>b, <1>c, <2>1, <2>2 DEF InHand, Call
<1>2. CASE u = t
  <2>1. CASE pc'[t] = "start"
    BY <1>2, <2>1 DEF InHand
  <2>2. CASE \E label : Stays(t, label)
    <3>1. todo'[t] = todo[t] /\ todo[t] # <<>>
      BY <2>2 DEF Stays
    <3>2. CASE Call(t).op = "alloc"
      <4>1. AllocSteps(t)
        BY <3>1, <3>2, AllocStep
      <4>2. At(t, "alloc", pc[t]) /\ t \in DOMAIN pc /\ t \in DOMAIN my /\ {"b", "k", "grown"} = DOMAIN my[t]
        BY <1>a, <3>1, <3>2 DEF At, TypeInv, Typed, MyType
      <4>3. ASSUME my'[t].b = my[t].b, pc[t] # "start", pc[t] # "count",
                   pc'[t] \in {"link", "linked", "count"} => my[t].b # None
            PROVE InHand(u)'
        <5>1. UsesKept \/ allocCount(t)
          BY <1>b, <3>1, <3>2 DEF Working, keep, tlsDestructionFunc, free, realloc, freeOld, Begins, At
        <5>2. ~allocCount(t)
          BY <4>3 DEF allocCount, At
        <5>3. QED  BY <1>2, <1>b, <1>c, <3>1, <3>2, <4>3, <5>1, <5>2 DEF InHand, UsesKept, Call
      <4>4. CASE allocMap(t)
        <5>1. CASE Return(t)
          <6>1. pc'[t] = "start"
            BY <4>2, <5>1 DEF Return
          <6>2. QED  BY <1>2, <6>1 DEF InHand
        <5>2. CASE NewChunk(t, None, Call(t).bytes + MmapFooterSize)
          <6>1. my'[t].b = Len(chunk) + 1 /\ chunk'[Len(chunk) + 1].use = "none"
                /\ chunk'[Len(chunk) + 1].source = Call(t).s
            <7>1. Call(t).bytes + MmapFooterSize \in Nat
              BY <1>a, <3>1, <3>2, CallInHand, CountAssumption
            <7>2. chunk'[Len(chunk) + 1] =
                     [source |-> Call(t).s, arena |-> None, size |-> Call(t).bytes + MmapFooterSize,
                      bytes |-> Call(t).bytes, use |-> "none", mapped |-> TRUE,
                      prev |-> None, next |-> None] /\ my' = [my EXCEPT ![t].b = Len(chunk) + 1]
              BY <1>a, <3>1, <3>2, <5>2, <7>1, NewChunkTypes
            <7>3. QED  BY <4>2, <7>2
          <6>2. Len(chunk) + 1 # None
            BY InHandTypes
          <6>3. QED  BY <1>2, <3>1, <6>1, <6>2 DEF InHand, Call
        <5>3. QED  BY <4>4, <5>1, <5>2 DEF allocMap
      <4>5. CASE allocLink(t)
        <5>1. my' = my /\ pc[t] = "link"
          BY <4>5 DEF allocLink, At
        <5>2. my[t].b # None
          BY <1>2, <1>c, <3>1, <3>2, <5>1 DEF InHand
        <5>3. QED  BY <4>3, <5>1, <5>2
      <4>6. CASE allocLinked(t)
        <5>1. my' = my /\ pc[t] = "linked"
          BY <4>6 DEF allocLinked, At
        <5>2. my[t].b # None
          BY <1>2, <1>c, <3>1, <3>2, <5>1 DEF InHand
        <5>3. QED  BY <4>3, <5>1, <5>2
      <4>7. CASE allocLock(t)
        <5>1. my'[t].b = None /\ pc'[t] = "arena"
          BY <4>2, <4>7 DEF allocLock, Goto
        <5>2. QED  BY <1>2, <5>1 DEF InHand
      <4>8. CASE arenaAlloc(t)
        <5>1. pc'[t] = "leave" /\ pc[t] = "arena"
          BY <4>2, <4>8 DEF arenaAlloc, Goto, At
        <5>2. CASE my' = my
          BY <4>3, <5>1, <5>2
        <5>3. CASE \E k, size : NewChunk(t, k, size)
          <6>1. my'[t].b = Len(chunk) + 1 /\ chunk'[Len(chunk) + 1].use = "none"
                /\ chunk'[Len(chunk) + 1].source = Call(t).s
            <7> DEFINE r(k, size) == [source |-> Call(t).s, arena |-> k, size |-> size,
                                      bytes |-> Call(t).bytes, use |-> "none", mapped |-> TRUE,
                                      prev |-> None, next |-> None]
            <7>1. \E k, size : chunk' = Append(chunk, r(k, size)) /\ my' = [my EXCEPT ![t].b = Len(chunk) + 1]
              BY <5>3 DEF NewChunk
            <7>2. \A k, size : r(k, size).use = "none" /\ r(k, size).source = Call(t).s
              OBVIOUS
            <7> HIDE DEF r
            <7>3. chunk \in Seq(ChunkType(DOMAIN chunk))
              BY <1>a DEF TypeInv, Chunked
            <7>4. PICK x : chunk' = Append(chunk, x) /\ x.use = "none" /\ x.source = Call(t).s
                           /\ my' = [my EXCEPT ![t].b = Len(chunk) + 1]
              BY <7>1, <7>2
            <7>5. chunk'[Len(chunk) + 1] = x
              BY <7>3, <7>4
            <7>6. QED  BY <4>2, <7>4, <7>5
          <6>2. Len(chunk) + 1 # None
            BY InHandTypes
          <6>3. QED  BY <1>2, <3>1, <5>1, <6>1, <6>2 DEF InHand, Call
        <5>4. QED  BY <4>8, <5>2, <5>3 DEF arenaAlloc
      <4>9. CASE arenaAllocEnd(t)
        <5>1. my' = my /\ pc[t] = "leave" /\ pc'[t] \in {"grow", "unlock"}
          BY <4>2, <4>9 DEF arenaAllocEnd, At, Goto
        <5>2. QED  BY <4>3, <5>1
      <4>10. CASE create_new_arena(t)
        <5>1. my'[t].b = my[t].b /\ pc[t] = "grow" /\ pc'[t] \in {"arena", "unlock"}
          BY <4>2, <4>10 DEF create_new_arena, At, Goto
        <5>2. QED  BY <4>3, <5>1
      <4>11. CASE allocUnlock(t)
        <5>1. my' = my /\ pc[t] = "unlock" /\ (pc'[t] = "start" \/ my[t].b # None)
          BY <4>2, <4>11 DEF allocUnlock, At, Return
        <5>2. QED  BY <4>3, <5>1
      <4>12. CASE allocCount(t)
        <5>1. pc'[t] = "start"
          BY <4>2, <4>12 DEF allocCount, Return
        <5>2. QED  BY <1>2, <5>1 DEF InHand
      <4>13. QED
        BY <1>2, <4>1, <4>4, <4>5, <4>6, <4>7, <4>8, <4>9, <4>10, <4>11, <4>12 DEF AllocSteps
    <3>3. CASE Call(t).op # "alloc"
      BY <1>2, <3>1, <3>3 DEF InHand, Call
    <3>4. QED  BY <3>2, <3>3
  <2>3. QED  BY <1>a, <2>1, <2>2, CallsAfterStep
<1>3. QED  BY <1>1, <1>2

(* A call for which memory has been allocated comes up when that is done.  *)
LEMMA HeadFrom ==
    ASSUME BaseInv, NEW t \in Thread, Step(t), todo'[t] # <<>>, Head(todo'[t]).op \in {"construct", "keep"}
    PROVE  \/ /\ allocCount(t) /\ todo[t] # <<>> /\ Call(t).op = "alloc"
              /\ Has(t, Head(todo'[t]).op)
           \/ my'[t].b = None
           \/ pop_all(t) /\ tls[t].stack = <<>>
<1>a. TypeInv /\ PcInv /\ OrderInv /\ TlsInv
  BY DEF BaseInv
<1>1. Head(todo'[t]).op \in Ops(todo'[t])
  <2>1. TypeInv'
    BY StepBase DEF BaseInv
  <2>2. todo'[t] \in Seq(CallType(Born', DOMAIN chunk'))
    BY <2>1 DEF TypeInv, Typed
  <2> DEFINE q == todo'[t]
  <2> HIDE DEF q
  <2>3. q # <<>> /\ q \in Seq(CallType(Born', DOMAIN chunk')) => Head(q).op \in Ops(q)
    BY OpsHeadTail
  <2>4. QED  BY <2>2, <2>3 DEF q
<1>x. PICK x \in {"construct", "keep"} : x = Head(todo'[t]).op /\ x \in Ops(todo'[t])
  BY <1>1
<1>2. CASE SourceStep(t)
  <2>1. /\ todo[t] # <<>> /\ Call(t).op \in SourceOps
        /\ (\E label : Stays(t, label)) \/ todo'[t] = Tail(todo[t])
    BY <1>a, <1>2, SourceStepShape
  <2>2. CASE \E label : Stays(t, label)
    <3>1. x = Call(t).op
      BY <1>x, <2>2 DEF Stays, Call
    <3>2. QED  BY <2>1, <3>1 DEF SourceOps
  <2>3. CASE todo'[t] = Tail(todo[t])
    <3>1. Ops(todo[t]) = {Call(t).op} \cup Ops(Tail(todo[t])) /\ Ops(Tail(todo[t])) \subseteq AfterCall(Call(t).op)
      BY <1>a, <2>1, HeadAndTail
    <3>2. x \in AfterCall(Call(t).op) /\ Has(t, x)
      BY <1>x, <2>3, <3>1 DEF Has
    <3>3. Call(t).op = "alloc"
      BY <2>1, <3>2 DEF AfterCall, SourceOps
    <3>4. AllocSteps(t)
      BY <2>1, <3>3, AllocStep
    <3>5. todo'[t] # todo[t]
      <4>1. todo[t] \in Seq(AnyCall)
        BY <1>a, <2>1, HeadAndTail
      <4> DEFINE q == todo[t]
      <4> HIDE DEF q
      <4>2. q \in Seq(AnyCall) /\ q # <<>> => Tail(q) # q
        OBVIOUS
      <4>3. QED  BY <2>1, <2>3, <4>1, <4>2 DEF q
    <3>6. t \in DOMAIN my /\ "b" \in DOMAIN my[t]
      BY <1>a DEF TypeInv, Typed, MyType
    <3>7. CASE allocLink(t) \/ allocLinked(t) \/ allocLock(t) \/ arenaAlloc(t)
               \/ arenaAllocEnd(t) \/ create_new_arena(t)
      BY <3>5, <3>7 DEF allocLink, allocLinked, allocLock, arenaAlloc, arenaAllocEnd, create_new_arena, Goto
    <3>8. CASE allocMap(t)
      BY <3>5, <3>6, <3>8 DEF allocMap, Goto
    <3>9. CASE allocUnlock(t)
      BY <3>5, <3>9 DEF allocUnlock, Goto
    <3>10. CASE allocCount(t)
      BY <1>x, <2>1, <3>2, <3>3, <3>10
    <3>11. QED  BY <3>4, <3>7, <3>8, <3>9, <3>10 DEF AllocSteps
  <2>4. QED  BY <2>1, <2>2, <2>3
<1>3. CASE getTls(t)
  <2>1. todo'[t] = <<Alloc(GlobalSource, TlsSize, "storage"), Construct, InitTls, SetCurrent>>
    BY <1>a, <1>3, GetTlsShape
  <2>2. Head(todo'[t]) = Alloc(GlobalSource, TlsSize, "storage")
    BY <2>1
  <2>3. x = "alloc"
    BY <1>x, <2>2, CallNames
  <2>4. QED  BY <2>3
<1>4. CASE pop_all(t)
  <2> DEFINE a == Alloc(current[t], StackSize, "places")
             b == Keep(Op(t).task, Op(t).done)
             q == (IF tls[t].stack = <<>> THEN <<>> ELSE <<a>>) \o <<b>>
  <2>1. Begins(t, "save") /\ Begin(t, q)
    BY <1>4 DEF pop_all
  <2>3. a.op = "alloc"
    BY DEF Alloc
  <2> HIDE DEF a, b
  <2>2. todo'[t] = q
    <3> HIDE DEF q
    <3>1. todo' = [todo EXCEPT ![t] = q]
      BY <1>a, <2>1, BeginTypes
    <3>2. DOMAIN todo = Thread
      BY <1>a DEF TypeInv, Typed
    <3>3. QED  BY <3>1, <3>2
  <2>4. tls[t].stack # <<>> => q = <<a, b>>
    BY OneThenOne
  <2> HIDE DEF q
  <2>5. QED  BY <1>x, <1>4, <2>2, <2>3, <2>4
<1>5. QED  BY <1>x, <1>2, <1>3, <1>4, StorageCalls DEF Has

(* The chunk that has just been allocated.                                 *)
LEMMA Allocated ==
    ASSUME BaseInv, BlockInv, NEW t \in Thread, Step(t), allocCount(t), todo[t] # <<>>, Call(t).op = "alloc"
    PROVE  /\ my[t].b \in DOMAIN chunk /\ my[t].b # None /\ my' = my
           /\ chunk[my[t].b].use = "none" /\ chunk[my[t].b].source = Call(t).s
           /\ chunk'[my[t].b].use = Call(t).use
           /\ Has(t, "construct") => Call(t).use = "storage"
           /\ Has(t, "keep") => Call(t).use = "places"
<1>1. pc[t] = "count" /\ my' = my /\ chunk' = [chunk EXCEPT ![my[t].b].use = Call(t).use]
  BY DEF allocCount, At
<1>2. my[t].b # None /\ my[t].b \in DOMAIN chunk /\ chunk[my[t].b].use = "none" /\ chunk[my[t].b].source = Call(t).s
  BY <1>1, InHandTypes DEF BlockInv, InHand
<1>3. "use" \in DOMAIN chunk[my[t].b]
  BY <1>2, ChunkFields DEF BaseInv, ChunkType
<1>4. Call(t) \in Pending(t, "alloc")
  BY CallsOfList DEF Pending
<1>5. QED  BY <1>1, <1>2, <1>3, <1>4 DEF BlockInv, AllocFor

(* The memory of a thread's storage stays its own until tlsDestructionFunc
   gives it back.                                                          *)
LEMMA StepKeepsStorage ==
    ASSUME BaseInv, BlockInv, NEW t \in Thread, Step(t), NEW u \in Thread
    PROVE  StorageOf(u)'
<1>a. TypeInv /\ PcInv /\ OrderInv /\ TlsInv /\ TypeInv' /\ BaseInv'
  BY StepBase DEF BaseInv
<1>b. \A v \in Thread \ {t} : todo'[v] = todo[v] /\ pc'[v] = pc[v] /\ my'[v] = my[v] /\ tls'[v] = tls[v]
  BY <1>a, OthersKeep
<1>c. \A v \in Thread : /\ my[v].b \in DOMAIN chunk \cup {None} /\ tls[v].block \in DOMAIN chunk \cup {None}
                        /\ tls[v].state = "none" => tls[v].block = None
                        /\ tls[v].state # "none" => tls[v].block # None
  BY InHandTypes
<1>d. None \notin DOMAIN chunk
  BY InHandTypes
<1>e. \A v \in Thread : StorageOf(v)
  BY DEF BlockInv
<1>f. \A v, w \in Thread : (v # w /\ my[v].b # None) => my[w].b # my[v].b /\ tls[w].block # my[v].b
  BY DEF BlockInv, Distinct
<1>g. \A b \in DOMAIN chunk : chunk[b].use = "storage" =>
          chunk'[b].use = "storage" \/ (tlsDestructionFunc(t) /\ b = tls[t].block)
  BY UseChange
<1>h. \/ construct(t) /\ tls'[t].block = my[t].b /\ my'[t] = my[t] /\ chunk' = chunk /\ At(t, "construct", "start")
         /\ my[t].b # None
      \/ tlsDestructionFunc(t) /\ tls'[t] = NoStorage
      \/ ~tlsDestructionFunc(t) /\ tls'[t].block = tls[t].block /\ (tls'[t].state = "none" <=> tls[t].state = "none")
  <2>1. t \in DOMAIN tls /\ {"state", "own", "stack", "block"} = DOMAIN tls[t]
    BY <1>a DEF TypeInv, Typed, TlsType
  <2>2. CASE construct(t)
    BY <2>1, <2>2 DEF construct
  <2>3. CASE tlsDestructionFunc(t)
    BY <2>1, <2>3 DEF tlsDestructionFunc
  <2>4. QED  BY <2>2, <2>3, BlockChange
<1>1. CASE u # t
  <2>1. todo'[u] = todo[u] /\ pc'[u] = pc[u] /\ my'[u] = my[u] /\ tls'[u] = tls[u]
    BY <1>1, <1>b
  <2>2. ASSUME tls[u].state # "none" PROVE chunk'[tls[u].block].use = "storage"
    <3>1. chunk[tls[u].block].use = "storage" /\ tls[u].block \in DOMAIN chunk /\ tls[t].block # tls[u].block
      BY <1>1, <1>c, <1>e, <2>2 DEF StorageOf
    <3>2. QED  BY <1>g, <3>1
  <2>3. ASSUME tls[u].state # "none", NEW v \in Thread \ {u} PROVE tls'[v].block # tls[u].block
    <3>1. tls[u].block # None /\ tls[v].block # tls[u].block
      BY <1>c, <1>e, <2>3 DEF StorageOf
    <3>2. CASE v # t
      BY <1>b, <3>1, <3>2
    <3>3. CASE v = t
      BY <1>1, <1>f, <1>h, <3>1, <3>3 DEF NoStorage
    <3>4. QED  BY <3>2, <3>3
  <2>4. ASSUME At(u, "construct", "start"), my[u].b # None PROVE chunk'[my[u].b].use = "storage"
    <3>1. chunk[my[u].b].use = "storage" /\ my[u].b \in DOMAIN chunk /\ tls[t].block # my[u].b
      BY <1>1, <1>c, <1>e, <1>f, <2>4 DEF StorageOf
    <3>2. QED  BY <1>g, <3>1
  <2>5. QED  BY <2>1, <2>2, <2>3, <2>4 DEF StorageOf, At, Call
<1>2. CASE u = t
  <2>1. ASSUME tls'[t].state # "none" PROVE chunk'[tls'[t].block].use = "storage"
    <3>1. CASE construct(t) /\ tls'[t].block = my[t].b /\ chunk' = chunk /\ At(t, "construct", "start") /\ my[t].b # None
      BY <1>e, <3>1 DEF StorageOf
    <3>2. CASE tlsDestructionFunc(t) /\ tls'[t] = NoStorage
      BY <2>1, <3>2 DEF NoStorage
    <3>3. CASE ~tlsDestructionFunc(t) /\ tls'[t].block = tls[t].block /\ (tls'[t].state = "none" <=> tls[t].state = "none")
      BY <1>c, <1>e, <1>g, <2>1, <3>3 DEF StorageOf
    <3>4. QED  BY <1>h, <3>1, <3>2, <3>3
  <2>2. ASSUME tls'[t].state # "none", NEW v \in Thread \ {t} PROVE tls'[v].block # tls'[t].block
    <3>0. tls'[v] = tls[v]
      BY <1>b
    <3>1. CASE construct(t) /\ tls'[t].block = my[t].b /\ my[t].b # None
      BY <1>f, <3>0, <3>1
    <3>2. CASE tlsDestructionFunc(t) /\ tls'[t] = NoStorage
      BY <2>2, <3>2 DEF NoStorage
    <3>3. CASE ~tlsDestructionFunc(t) /\ tls'[t].block = tls[t].block /\ (tls'[t].state = "none" <=> tls[t].state = "none")
      BY <1>e, <2>2, <3>0, <3>3 DEF StorageOf
    <3>4. QED  BY <1>h, <3>1, <3>2, <3>3
  <2>3. ASSUME At(t, "construct", "start")', my'[t].b # None PROVE chunk'[my'[t].b].use = "storage"
    <3>1. todo'[t] # <<>> /\ Head(todo'[t]).op = "construct"
      BY <2>3 DEF At, Call
    <3>2. CASE allocCount(t) /\ todo[t] # <<>> /\ Call(t).op = "alloc" /\ Has(t, "construct")
      <4>1. my' = my /\ chunk'[my[t].b].use = "storage"
        BY <3>2, Allocated
      <4>2. QED  BY <4>1
    <3>3. CASE pop_all(t) /\ tls[t].stack = <<>>
      <4>1. Opens(t, "save", {"keep"}, {"alloc", "keep"})
        BY <1>a, <3>3, StackShapes
      <4>2. ~Has(t, "construct")'
        BY <4>1, OpensHas
      <4>3. Has(t, "construct")'
        <5>1. todo'[t] \in Seq(CallType(Born', DOMAIN chunk'))
          BY <1>a DEF TypeInv, Typed
        <5> DEFINE q == todo'[t]
        <5> HIDE DEF q
        <5>2. q # <<>> /\ q \in Seq(CallType(Born', DOMAIN chunk')) => Head(q).op \in Ops(q)
          BY OpsHeadTail
        <5>3. Head(todo'[t]).op \in Ops(todo'[t])
          BY <3>1, <5>1, <5>2 DEF q
        <5>4. QED  BY <3>1, <5>3 DEF Has
      <4>4. QED  BY <4>2, <4>3
    <3>4. QED  BY <2>3, <3>1, <3>2, <3>3, HeadFrom
  <2>4. QED  BY <1>2, <2>1, <2>2, <2>3 DEF StorageOf
<1>3. QED  BY <1>1, <1>2

(* Only keep changes the memory of a task's places.                        *)
LEMMA SavedBlocks ==
    ASSUME BaseInv, NEW t \in Thread, Step(t)
    PROVE  \/ ~keep(t) /\ \A j \in Task : saved'[j].block = saved[j].block
           \/ /\ keep(t) /\ \A j \in Task \ {Call(t).task} : saved'[j].block = saved[j].block
              /\ \/ saved'[Call(t).task].block = <<>>
                 \/ ~Call(t).done /\ tls[t].stack # <<>> /\ saved'[Call(t).task].block = <<my[t].b>>
<1>1. \A j \in Task : j \in DOMAIN saved /\ {"worker", "stack", "block"} = DOMAIN saved[j]
  BY DEF BaseInv, TypeInv, Typed, SavedType
<1>2. CASE keep(t)
  <2> DEFINE k == Call(t).task
             done == Call(t).done
             stack == tls[t].stack
             new == IF stack = <<>> THEN <<>> ELSE <<my[t].b>>
  <2>1. saved' = [saved EXCEPT ![k].stack = IF done THEN <<>> ELSE stack,
                               ![k].block = IF done THEN <<>> ELSE new]
    BY <1>2 DEF keep
  <2>2. k \in Task
    BY <1>2, KeepList
  <2>3. stack # <<>> => new = <<my[t].b>>
    OBVIOUS
  <2>4. stack = <<>> => new = <<>>
    OBVIOUS
  <2> HIDE DEF k, done, stack, new
  <2>5. /\ saved'[k].block = IF done THEN <<>> ELSE new
        /\ \A j \in Task \ {k} : saved'[j] = saved[j]
    BY <1>1, <2>1, <2>2
  <2>6. /\ \A j \in Task \ {k} : saved'[j].block = saved[j].block
        /\ saved'[k].block = <<>> \/ (~done /\ stack # <<>> /\ saved'[k].block = <<my[t].b>>)
    BY <2>3, <2>4, <2>5
  <2>7. QED  BY <1>2, <2>6 DEF k, done, stack
<1>3. CASE ~keep(t)
  <2>1. CASE saved' = saved
    BY <1>3, <2>1
  <2>2. CASE unlockTask(t)
    BY <1>1, <1>3, <2>2 DEF unlockTask
  <2>3. CASE push_all(t)
    BY <1>1, <1>3, <2>3 DEF push_all
  <2>4. QED  BY <1>3, <2>1, <2>2, <2>3, SavedChange
<1>4. QED  BY <1>2, <1>3

(* The memory allocated for the places of a task is nobody else's until it
   is kept.                                                                *)
LEMMA StepKeepsKeeps ==
    ASSUME BaseInv, BlockInv, NEW t \in Thread, Step(t), NEW u \in Thread
    PROVE  KeepsOf(u)'
<1>a. TypeInv /\ PcInv /\ OrderInv /\ TlsInv
  BY DEF BaseInv
<1>b. \A b \in DOMAIN chunk : chunk[b].use = "places" =>
          chunk'[b].use = "places" \/ (keep(t) /\ b \in Range(KeepGone(t)))
  BY UseChange
<1>c. keep(t) => /\ Call(t).task \in Task
                 /\ Range(KeepGone(t)) \subseteq Range(saved[Call(t).task].block) \cup {my[t].b}
  BY KeepGoneRange
<1>d. \A k \in Task : Range(saved'[k].block) \subseteq Range(saved[k].block) \cup
                          (IF keep(t) /\ tls[t].stack # <<>> THEN {my[t].b} ELSE {})
  <2> TAKE k \in Task
  <2>1. Range(<<>>) = {} /\ Range(<<my[t].b>>) = {my[t].b}
    BY RangeShort
  <2>2. QED  BY <2>1, SavedBlocks
<1>1. CASE u # t
  <2>1. todo'[u] = todo[u] /\ pc'[u] = pc[u] /\ my'[u] = my[u] /\ tls'[u] = tls[u]
    BY <1>1, <1>a, OthersKeep
  <2>2. ASSUME At(u, "keep", "start"), tls[u].stack # <<>>, my[u].b # None
        PROVE  chunk'[my[u].b].use = "places" /\ \A k \in Task : my[u].b \notin Range(saved'[k].block)
    <3>1. /\ chunk[my[u].b].use = "places" /\ \A k \in Task : my[u].b \notin Range(saved[k].block)
          /\ my[u].b \in DOMAIN chunk /\ my[t].b # my[u].b
      BY <1>1, <2>2, InHandTypes DEF BlockInv, KeepsOf, Distinct
    <3>2. QED  BY <1>b, <1>c, <1>d, <3>1
  <2>3. QED  BY <2>1, <2>2 DEF KeepsOf, At, Call
<1>2. CASE u = t
  <2>1. ASSUME At(t, "keep", "start")', tls'[t].stack # <<>>, my'[t].b # None
        PROVE  chunk'[my'[t].b].use = "places" /\ \A k \in Task : my'[t].b \notin Range(saved'[k].block)
    <3>1. todo'[t] # <<>> /\ Head(todo'[t]).op = "keep"
      BY <2>1 DEF At, Call
    <3>2. CASE allocCount(t) /\ todo[t] # <<>> /\ Call(t).op = "alloc" /\ Has(t, "keep")
      <4>1. /\ my' = my /\ chunk'[my[t].b].use = "places" /\ chunk[my[t].b].use = "none"
        BY <3>2, Allocated
      <4>2. saved' = saved
        BY <3>2, AllocStep DEF placeVars
      <4>3. \A k \in Task : my[t].b \notin Range(saved[k].block)
        BY <4>1 DEF BlockInv, PlacesOf
      <4>4. QED  BY <4>1, <4>2, <4>3
    <3>3. CASE pop_all(t) /\ tls[t].stack = <<>>
      BY <2>1, <3>3 DEF pop_all
    <3>4. QED  BY <2>1, <3>1, <3>2, <3>3, HeadFrom
  <2>2. QED  BY <1>2, <2>1 DEF KeepsOf
<1>3. QED  BY <1>1, <1>2

(* The memory of the places of a task stays its own until the next keep
   gives it back.                                                          *)
LEMMA StepKeepsPlaces ==
    ASSUME BaseInv, BlockInv, NEW t \in Thread, Step(t), NEW k \in Task
    PROVE  PlacesOf(k)'
<1>b. \A b \in DOMAIN chunk : chunk[b].use = "places" =>
          chunk'[b].use = "places" \/ (keep(t) /\ b \in Range(KeepGone(t)))
  BY UseChange
<1>c. \A j \in Task : Len(saved[j].block) <= 1 /\ Range(saved[j].block) \subseteq DOMAIN chunk
  BY InHandTypes DEF BlockInv, PlacesOf
<1>d. \A j \in Task : \A b \in Range(saved[j].block) :
          chunk[b].use = "places" /\ \A l \in Task \ {j} : b \notin Range(saved[l].block)
  BY DEF BlockInv, PlacesOf
<1>1. CASE ~keep(t) /\ \A j \in Task : saved'[j].block = saved[j].block
  BY <1>1, <1>b, <1>c, <1>d DEF PlacesOf
<1>2. CASE /\ keep(t) /\ \A j \in Task \ {Call(t).task} : saved'[j].block = saved[j].block
           /\ \/ saved'[Call(t).task].block = <<>>
              \/ ~Call(t).done /\ tls[t].stack # <<>> /\ saved'[Call(t).task].block = <<my[t].b>>
  <2> DEFINE m == Call(t).task
             x == my[t].b
             new == saved'[Call(t).task].block
             gone == Range(KeepGone(t))
             Kept == tls[t].stack # <<>>
             done == Call(t).done
  <2>1. /\ m \in Task /\ Kept => x \in DOMAIN chunk /\ chunk[x].use = "places"
                                 /\ \A j \in Task : x \notin Range(saved[j].block)
        /\ gone = Range(saved[m].block) \cup (IF done /\ Kept THEN {x} ELSE {})
    BY <1>2, KeepGoneRange
  <2>2. m \in Task
    BY <1>2, KeepGoneRange
  <2>3. /\ \A j \in Task \ {m} : saved'[j].block = saved[j].block
        /\ new = <<>> \/ (~done /\ Kept /\ new = <<x>>)
    BY <1>2
  <2>4. Len(<<>>) = 0 /\ Len(<<x>>) = 1 /\ Range(<<>>) = {} /\ Range(<<x>>) = {x}
    BY RangeShort
  <2>5. \A b \in DOMAIN chunk : chunk[b].use = "places" => chunk'[b].use = "places" \/ b \in gone
    BY <1>b
  <2> HIDE DEF m, x, new, gone, Kept, done
  <2>6. new = saved'[m].block
    BY DEF new, m
  <2>7. Len(new) <= 1 /\ Range(new) \subseteq {x} /\ (Range(new) # {} => ~done /\ Kept)
    <3>1. CASE new = <<>>
      <4>1. Len(new) = 0 /\ Range(new) = {}
        BY ONLY <2>4, <3>1
      <4>2. QED  BY <4>1
    <3>2. CASE ~done /\ Kept /\ new = <<x>>
      <4>1. Len(new) = 1 /\ Range(new) = {x}
        BY ONLY <2>4, <3>2
      <4>2. QED  BY <3>2, <4>1
    <3>3. QED  BY <2>3, <3>1, <3>2
  <2>8. ASSUME NEW j \in Task, NEW b \in Range(saved'[j].block)
        PROVE  chunk'[b].use = "places" /\ \A l \in Task \ {j} : b \notin Range(saved'[l].block)
    <3>1. CASE j = m
      <4>1. b = x /\ ~done /\ Kept
        BY <2>6, <2>7, <2>8, <3>1
      <4>2. \A l \in Task \ {j} : b \notin Range(saved'[l].block)
        BY <2>1, <2>2, <2>3, <3>1, <4>1
      <4>3. chunk'[b].use = "places"
        BY <2>1, <2>2, <2>5, <4>1
      <4>4. QED  BY <4>2, <4>3
    <3>2. CASE j # m
      <4>1. b \in Range(saved[j].block) /\ b \in DOMAIN chunk /\ chunk[b].use = "places"
        BY <1>c, <1>d, <2>3, <2>8, <3>2
      <4>2. Kept => b # x
        BY <2>1, <2>2, <4>1
      <4>3. b \notin gone
        BY <1>d, <2>1, <2>2, <3>2, <4>1, <4>2
      <4>4. \A l \in Task \ {j} : b \notin Range(saved'[l].block)
        BY <1>d, <2>3, <2>6, <2>7, <4>1, <4>2
      <4>5. QED  BY <2>5, <4>1, <4>3, <4>4
    <3>3. QED  BY <3>1, <3>2
  <2>9. \A j \in Task : Len(saved'[j].block) <= 1
    BY <1>c, <2>3, <2>6, <2>7
  <2>10. QED  BY <2>8, <2>9 DEF PlacesOf
<1>3. QED  BY <1>1, <1>2, SavedBlocks

(* A block that realloc moves is moved by one thread.                      *)
LEMMA StepKeepsMoving ==
    ASSUME BaseInv, BlockInv, NEW t \in Thread, Step(t), NEW u \in Thread
    PROVE  MovingOf(u)'
<1>a. TypeInv /\ PcInv /\ OrderInv /\ TlsInv
  BY DEF BaseInv
<1>b. \A v \in Thread \ {t} : Pending(v, "free_old")' = Pending(v, "free_old")
  BY <1>a, OthersKeep DEF Pending
<1>c. \A b \in DOMAIN chunk : chunk[b].use = "moving" =>
          chunk'[b].use = "moving" \/ (freeOld(t) /\ b = Call(t).b)
  BY UseChange
<1>d. \A v \in Thread : \A c \in Pending(v, "free_old") : c.b \in DOMAIN chunk /\ chunk[c.b].use = "moving"
  BY InHandTypes DEF BlockInv, MovingOf
<1>e. \A v, w \in Thread : v # w => \A c \in Pending(v, "free_old"), d \in Pending(w, "free_old") : d.b # c.b
  BY DEF BlockInv, MovingOf
<1>f. freeOld(t) => Pending(t, "free_old")' = {} /\ Call(t) \in Pending(t, "free_old")
  <2> HAVE freeOld(t)
  <2>1. todo[t] # <<>> /\ Call(t).op = "free_old" /\ Ops(todo'[t]) \subseteq {"free"} \cup Ops(Tail(todo[t]))
    BY <1>a, CallShapes DEF Ends
  <2>2. AfterCall("free_old") = {}
    BY DEF AfterCall
  <2>3. Ops(Tail(todo[t])) = {}
    BY <1>a, <2>1, <2>2, HeadAndTail
  <2>4. \A c \in Range(todo'[t]) : c.op \in Ops(todo'[t])
    BY RangeOps
  <2>5. Pending(t, "free_old")' = {}
    BY <2>1, <2>3, <2>4 DEF Pending
  <2>6. QED  BY <2>1, <2>5, CallsOfList DEF Pending
<1>g. \A c \in Pending(t, "free_old")' :
          \/ c \in Pending(t, "free_old")
          \/ /\ c.b \in DOMAIN chunk /\ chunk[c.b].use = "block" /\ chunk'[c.b].use = "moving"
  <2> TAKE c \in Pending(t, "free_old")'
  <2>1. CASE realloc(t) /\ \E b \in Blocks : c = FreeOld(b) /\ chunk' = [chunk EXCEPT ![b].use = "moving"]
    <3>1. PICK b \in Blocks : c = FreeOld(b) /\ chunk' = [chunk EXCEPT ![b].use = "moving"]
      BY <2>1
    <3>2. b \in DOMAIN chunk /\ chunk[b].use = "block" /\ c.b = b
      BY <3>1 DEF Blocks, FreeOld
    <3>3. "use" \in DOMAIN chunk[b]
      BY <1>a, <3>2, ChunkFields DEF ChunkType
    <3>4. QED  BY <3>1, <3>2, <3>3
  <2>2. QED  BY <2>1, PendingNew
<1>1. ASSUME NEW c \in Pending(u, "free_old")' PROVE chunk'[c.b].use = "moving"
  <2>1. CASE u # t
    <3>1. c \in Pending(u, "free_old")
      BY <1>b, <1>1, <2>1
    <3>2. freeOld(t) => c.b # Call(t).b
      BY <1>e, <1>f, <2>1, <3>1
    <3>3. QED  BY <1>c, <1>d, <3>1, <3>2
  <2>2. CASE u = t
    BY <1>c, <1>d, <1>f, <1>g, <1>1, <2>2
  <2>3. QED  BY <2>1, <2>2
<1>2. ASSUME NEW c \in Pending(u, "free_old")', NEW w \in Thread \ {u}, NEW d \in Pending(w, "free_old")'
      PROVE  d.b # c.b
  <2>1. c \in Pending(u, "free_old") \/ (u = t /\ chunk[c.b].use = "block")
    BY <1>b, <1>g, <1>2
  <2>2. d \in Pending(w, "free_old") \/ (w = t /\ chunk[d.b].use = "block")
    BY <1>b, <1>g, <1>2
  <2>3. QED  BY <1>d, <1>e, <2>1, <2>2
<1>3. QED  BY <1>1, <1>2 DEF MovingOf

(* Every step keeps what is known of the blocks.                           *)
LEMMA StepKeepsBlocks ==
    ASSUME BaseInv, BlockInv, NEW t \in Thread, Step(t)
    PROVE  BlockInv'
<1>1. Distinct'
  BY StepKeepsDistinct DEF BlockInv
<1>2. \A u \in Thread : AllocFor(u)'
  <2> TAKE u \in Thread
  <2>1. CASE u = t
    <3>1. AllocFor(t)'
      BY StepKeepsAllocFor DEF BlockInv
    <3>2. QED  BY <2>1, <3>1
  <2>2. CASE u # t
    <3>1. todo'[u] = todo[u]
      BY <2>2, OthersKeep DEF BaseInv
    <3>2. AllocFor(u)
      BY DEF BlockInv
    <3>3. QED  BY <3>1, <3>2 DEF AllocFor, Pending, Has
  <2>3. QED  BY <2>1, <2>2
<1>3. \A u \in Thread : InHand(u)'
  BY StepKeepsInHand
<1>4. \A u \in Thread : StorageOf(u)'
  BY StepKeepsStorage
<1>5. \A u \in Thread : KeepsOf(u)'
  BY StepKeepsKeeps
<1>6. \A u \in Thread : MovingOf(u)'
  BY StepKeepsMoving
<1>7. \A k \in Task : PlacesOf(k)'
  BY StepKeepsPlaces
<1>8. QED  BY <1>1, <1>2, <1>3, <1>4, <1>5, <1>6, <1>7 DEF BlockInv

(* What a node has for itself is there from the start.                     *)
HomeInv == \A n \in Physical : msources[n][n] # None

(* All of this holds in the beginning.                                     *)
LEMMA InitExtra ==
    ASSUME Init
    PROVE  ClientInv /\ TaskInv /\ BlockInv /\ HomeInv
<1>1. \A t \in Thread : todo[t] = <<>> /\ my[t].b = None /\ tls[t] = NoStorage
  BY DEF Init
<1>2. \A k \in Task : saved[k] = [worker |-> None, stack |-> <<>>, block |-> <<>>]
  BY DEF Init
<1>3. \A t \in Thread : \A op : Pending(t, op) = {}
  BY <1>1, RangeShort DEF Pending
<1>4. ClientInv
  BY <1>1, <1>3 DEF ClientInv
<1>5. TaskInv
  BY <1>2, <1>3 DEF TaskInv
<1>6. BlockInv
  <2>1. \A k \in Task : PlacesOf(k)
    <3> TAKE k \in Task
    <3>1. saved[k].block = <<>>
      BY <1>2
    <3>2. Len(<<>>) = 0 /\ Range(<<>>) = {}
      BY RangeShort
    <3>3. QED  BY <3>1, <3>2 DEF PlacesOf
  <2>2. \A t \in Thread : AllocFor(t) /\ InHand(t) /\ StorageOf(t) /\ KeepsOf(t) /\ MovingOf(t)
    BY <1>1, <1>3 DEF AllocFor, InHand, StorageOf, KeepsOf, MovingOf, At, NoStorage
  <2>3. Distinct
    BY <1>1 DEF Distinct
  <2>4. QED  BY <2>1, <2>2, <2>3 DEF BlockInv
<1>7. HomeInv
  <2>1. \A n \in Physical : msources[n][n] = NodeSource[n]
    BY DEF Init
  <2>2. \A n \in Physical : NodeSource[n] # None
    BY PlaceAssumption, CountAssumption
  <2>3. QED  BY <2>1, <2>2 DEF HomeInv
<1>8. QED  BY <1>4, <1>5, <1>6, <1>7

(* The references everybody sees: those between nodes, those of tasks and  *)
(* those of handles.                                                       *)
PairsOf(s) == {x \in Physical \X Physical : x[1] # x[2] /\ msources[x[1]][x[2]] = s}
SavedRefs(s) == Total([k \in Task |-> InStack(saved[k].stack, s)])
HoldersOf(s) == {h \in Handle : hold[h] = s}

(* What everybody sees, in its four parts.                                 *)
LEMMA SharedParts ==
    ASSUME BaseInv, NEW s \in Source
    PROVE  /\ Shared(s) = StartupRefs(s) + Cardinality(PairsOf(s)) + SavedRefs(s) + Cardinality(HoldersOf(s))
           /\ StartupRefs(s) \in Nat /\ SavedRefs(s) \in Nat
           /\ IsFiniteSet(PairsOf(s)) /\ Cardinality(PairsOf(s)) \in Nat
           /\ IsFiniteSet(HoldersOf(s)) /\ Cardinality(HoldersOf(s)) \in Nat
<1>1. Shared(s) = StartupRefs(s) + Cardinality(PairsOf(s)) + SavedRefs(s) + Cardinality(HoldersOf(s))
  BY DEF Shared, PairsOf, SavedRefs, HoldersOf
<1>2. StartupRefs(s) \in Nat /\ SavedRefs(s) \in Nat /\ IsFiniteSet(PairsOf(s)) /\ IsFiniteSet(HoldersOf(s))
  BY SharedType DEF PairsOf, SavedRefs, HoldersOf
<1>3. QED  BY <1>1, <1>2, FS_CardinalityType
SharedPartsHold ==
    \A s \in Source :
        /\ Shared(s) = StartupRefs(s) + Cardinality(PairsOf(s)) + SavedRefs(s) + Cardinality(HoldersOf(s))
        /\ StartupRefs(s) \in Nat /\ SavedRefs(s) \in Nat
        /\ IsFiniteSet(PairsOf(s)) /\ Cardinality(PairsOf(s)) \in Nat
        /\ IsFiniteSet(HoldersOf(s)) /\ Cardinality(HoldersOf(s)) \in Nat

(* The same of every source.                                               *)
LEMMA PartsHold ==
    ASSUME BaseInv
    PROVE  SharedPartsHold
BY SharedParts DEF SharedPartsHold

(* Two sets that differ in one element.                                    *)
LEMMA OneElement ==
    ASSUME NEW A, NEW B, NEW x, IsFiniteSet(A), IsFiniteSet(B), A \ {x} = B \ {x}
    PROVE  /\ Cardinality(B) = Cardinality(A) - One(x \in A) + One(x \in B)
           /\ Cardinality(A) \in Nat /\ Cardinality(B) \in Nat
<1>1. Cardinality(A) \in Nat /\ Cardinality(B) \in Nat
  BY FS_CardinalityType
<1>2. Cardinality(A \ {x}) = IF x \in A THEN Cardinality(A) - 1 ELSE Cardinality(A)
  BY FS_RemoveElement
<1>3. Cardinality(B \ {x}) = IF x \in B THEN Cardinality(B) - 1 ELSE Cardinality(B)
  BY FS_RemoveElement
<1>4. Cardinality(A \ {x}) = Cardinality(B \ {x})
  OBVIOUS
<1>5. QED  BY <1>1, <1>2, <1>3, <1>4 DEF One

(* Nothing that everybody sees changes.                                    *)
LEMMA QuietShared ==
    ASSUME UNCHANGED <<msources, hold>>, \A k \in Task : saved'[k].stack = saved[k].stack, NEW s
    PROVE  Shared(s)' = Shared(s)
<1>1. \A k \in Task : InStack(saved'[k].stack, s) = InStack(saved[k].stack, s)
  OBVIOUS
<1>2. [k \in Task |-> InStack(saved'[k].stack, s)] = [k \in Task |-> InStack(saved[k].stack, s)]
  BY <1>1
<1>3. QED  BY <1>2 DEF Shared

(* One handle changes.                                                     *)
LEMMA HoldBooks ==
    ASSUME BaseInv, BaseInv', UNCHANGED <<msources, saved>>, NEW h \in Handle, NEW x,
           hold'[h] = x, \A k \in Handle \ {h} : hold'[k] = hold[k], NEW s \in Source
    PROVE  Shared(s)' = Shared(s) - One(hold[h] = s) + One(x = s)
<1>1. SharedPartsHold /\ SharedPartsHold'
  <2>1. BaseInv' => SharedPartsHold'
    BY PartsHold, PTL
  <2>2. QED  BY <2>1, PartsHold
<1>3. Cardinality(HoldersOf(s))' = Cardinality(HoldersOf(s)) - One(hold[h] = s) + One(x = s)
  <2>2. /\ HoldersOf(s) \ {h} = HoldersOf(s)' \ {h} /\ (h \in HoldersOf(s) <=> hold[h] = s)
        /\ h \in HoldersOf(s)' <=> x = s
    BY DEF HoldersOf
  <2>3. IsFiniteSet(HoldersOf(s)) /\ IsFiniteSet(HoldersOf(s)')
    BY <1>1 DEF SharedPartsHold
  <2>4. Cardinality(HoldersOf(s)') = Cardinality(HoldersOf(s)) - One(h \in HoldersOf(s)) + One(h \in HoldersOf(s)')
    BY <2>2, <2>3, OneElement
  <2>5. One(h \in HoldersOf(s)) = One(hold[h] = s) /\ One(h \in HoldersOf(s)') = One(x = s)
    BY <2>2 DEF One
  <2>6. QED  BY <2>4, <2>5
<1>4. PairsOf(s)' = PairsOf(s) /\ SavedRefs(s)' = SavedRefs(s)
  BY DEF PairsOf, SavedRefs
<1>5. One(hold[h] = s) \in Int /\ One(x = s) \in Int
  BY OneType
<1>6. QED  BY <1>1, <1>3, <1>4, <1>5 DEF SharedPartsHold

(* The places of one task change.                                          *)
LEMMA SavedBooks ==
    ASSUME BaseInv, BaseInv', UNCHANGED <<msources, hold>>, NEW k \in Task,
           \A j \in Task \ {k} : saved'[j].stack = saved[j].stack, NEW s \in Source
    PROVE  Shared(s)' = Shared(s) - InStack(saved[k].stack, s) + InStack(saved'[k].stack, s)
<1>1. SharedPartsHold /\ SharedPartsHold'
  <2>1. BaseInv' => SharedPartsHold'
    BY PartsHold, PTL
  <2>2. QED  BY <2>1, PartsHold
<1> DEFINE f == [j \in Task |-> InStack(saved[j].stack, s)]
           g == [j \in Task |-> InStack(saved'[j].stack, s)]
<1>2. f \in [Task -> Int] /\ g \in [Task -> Int]
  <2>1. \A j \in Task : saved[j].stack \in Seq(PlaceType(Born)) /\ saved'[j].stack \in Seq(PlaceType(Born'))
    BY DEF BaseInv, TypeInv, Typed, SavedType
  <2>2. \A j \in Task : InStack(saved[j].stack, s) \in Int /\ InStack(saved'[j].stack, s) \in Int
    <3> TAKE j \in Task
    <3>1. \A S : \A p \in Seq(PlaceType(S)) : InStack(p, s) \in Nat
      BY InStackFacts
    <3>2. QED  BY <2>1, <3>1
  <2>3. QED  BY <2>2
<1>3. \A j \in Task \ {k} : g[j] = f[j]
  OBVIOUS
<1>4. f[k] = InStack(saved[k].stack, s) /\ g[k] = InStack(saved'[k].stack, s)
  OBVIOUS
<1>5. SavedRefs(s) = Total(f) /\ SavedRefs(s)' = Total(g)
  BY DEF SavedRefs
<1> HIDE DEF f, g
<1>6. Total(g) = Total(f) - f[k] + g[k]
  <2>1. IsFiniteSet(Task)
    BY PlaceAssumption
  <2>2. QED  BY ONLY <1>2, <1>3, <2>1, TotalChange
<1>7. f[k] \in Int /\ g[k] \in Int
  BY <1>2
<1>8. PairsOf(s)' = PairsOf(s) /\ HoldersOf(s)' = HoldersOf(s)
  BY DEF PairsOf, HoldersOf
<1>9. QED  BY <1>1, <1>4, <1>5, <1>6, <1>7, <1>8 DEF SharedPartsHold

(* A node publishes a source for another.                                  *)
LEMMA PairsBooks ==
    ASSUME BaseInv, BaseInv', UNCHANGED <<saved, hold>>, NEW n \in Physical, NEW m \in Physical, n # m,
           msources[n][m] = None, NEW x, NEW s \in Source,
           \A i, j \in Physical : msources'[i][j] = IF i = n /\ j = m THEN x ELSE msources[i][j]
    PROVE  Shared(s)' = Shared(s) + One(x = s)
<1>1. SharedPartsHold /\ SharedPartsHold'
  <2>1. BaseInv' => SharedPartsHold'
    BY PartsHold, PTL
  <2>2. QED  BY <2>1, PartsHold
<1>4. None # s
  BY CountAssumption
<1>5. /\ PairsOf(s) \ {<<n, m>>} = PairsOf(s)' \ {<<n, m>>} /\ <<n, m>> \notin PairsOf(s)
      /\ <<n, m>> \in PairsOf(s)' <=> x = s
  BY <1>4 DEF PairsOf
<1>6. IsFiniteSet(PairsOf(s)) /\ IsFiniteSet(PairsOf(s)')
  BY <1>1 DEF SharedPartsHold
<1>7. Cardinality(PairsOf(s)') = Cardinality(PairsOf(s)) - One(<<n, m>> \in PairsOf(s)) + One(<<n, m>> \in PairsOf(s)')
  BY <1>5, <1>6, OneElement
<1>8. One(<<n, m>> \in PairsOf(s)) = 0 /\ One(<<n, m>> \in PairsOf(s)') = One(x = s) /\ One(x = s) \in Int
  BY <1>5, OneType DEF One
<1>9. SavedRefs(s)' = SavedRefs(s) /\ HoldersOf(s)' = HoldersOf(s)
  BY DEF SavedRefs, HoldersOf
<1>10. QED  BY <1>1, <1>7, <1>8, <1>9 DEF SharedPartsHold

(* What a step may not do to the books: what everybody sees and the        *)
(* account of the thread together, and the blocks in use and those it is   *)
(* about to free together.                                                 *)
RefsEven(t, s) == Shared(s)' + Account(t, s)' = Shared(s) + Account(t, s)
BlocksEven(t, s) ==
    Cardinality(LiveBlocks(s))' + Released(t, s)' = Cardinality(LiveBlocks(s)) + Released(t, s)

(* A call ends, and is followed by others.                                 *)
LEMMA ThenBooks ==
    ASSUME BaseInv, NEW t \in Thread, todo[t] # <<>>, pc[t] \notin {"remove", "destroy"},
           NEW calls \in Seq(AnyCall), todo'[t] = calls \o Tail(todo[t]), pc'[t] = "start", NEW s
    PROVE  /\ Weight(Coming(t), s)' = Weight(Coming(t), s) - Worth(Call(t), s) + Weight(calls, s)
           /\ Released(t, s)' = Released(t, s) - Frees(Call(t), s) + Freeing(calls, s)
<1>1. Coming(t) = todo[t] /\ Coming(t)' = calls \o Tail(todo[t])
  BY DEF Coming, EndsOne
<1>2. todo[t] \in Seq(AnyCall) /\ Tail(todo[t]) \in Seq(AnyCall)
  BY HeadAndTail DEF BaseInv
<1> DEFINE q == todo[t]
<1>3. q \in Seq(AnyCall) /\ q # <<>>
  BY <1>2
<1> HIDE DEF q
<1>4. /\ Weight(q, s) = Worth(Head(q), s) + Weight(Tail(q), s)
      /\ Freeing(q, s) = Frees(Head(q), s) + Freeing(Tail(q), s)
      /\ Weight(Tail(q), s) \in Int /\ Freeing(Tail(q), s) \in Nat
  BY ONLY <1>3, WeightHeadTail
<1>5. /\ Weight(calls \o Tail(todo[t]), s) = Weight(calls, s) + Weight(Tail(todo[t]), s)
      /\ Freeing(calls \o Tail(todo[t]), s) = Freeing(calls, s) + Freeing(Tail(todo[t]), s)
  <2>1. PICK rest : rest = Tail(todo[t])
    OBVIOUS
  <2>2. calls \in Seq(AnyCall) /\ rest \in Seq(AnyCall)
    BY <1>2, <2>1
  <2>3. /\ Weight(calls \o rest, s) = Weight(calls, s) + Weight(rest, s)
        /\ Freeing(calls \o rest, s) = Freeing(calls, s) + Freeing(rest, s)
    BY ONLY <2>2, WeightConcat
  <2>4. QED  BY <2>1, <2>3
<1>6. Weight(calls, s) \in Int /\ Freeing(calls, s) \in Nat
  BY WeightType
<1>7. Worth(Call(t), s) \in {-1, 0, 1} /\ Frees(Call(t), s) \in {0, 1}
  BY WorthType
<1>8. Weight(Coming(t), s)' = Weight(Coming(t)', s) /\ Freeing(Coming(t), s)' = Freeing(Coming(t)', s)
  BY DEF Weight, Freeing, CountOf
<1>9. QED  BY <1>1, <1>4, <1>5, <1>6, <1>7, <1>8 DEF q, Call, Released

(* An operation is begun with a list of calls.                             *)
LEMMA BeginBooks ==
    ASSUME NEW t \in Thread, todo[t] = <<>>, pc[t] = "start", pc'[t] = "start", NEW calls, todo'[t] = calls, NEW s
    PROVE  /\ Weight(Coming(t), s) = 0 /\ Released(t, s) = 0
           /\ Weight(Coming(t), s)' = Weight(calls, s) /\ Released(t, s)' = Freeing(calls, s)
<1>1. Coming(t) = <<>> /\ Coming(t)' = calls
  BY DEF Coming, EndsOne
<1>2. Weight(Coming(t), s)' = Weight(Coming(t)', s) /\ Freeing(Coming(t), s)' = Freeing(Coming(t)', s)
  BY DEF Weight, Freeing, CountOf
<1>3. QED  BY <1>1, <1>2, WeightEmpty DEF Released

(* The list stays.                                                         *)
LEMMA SameListBooks ==
    ASSUME NEW t \in Thread, todo'[t] = todo[t], EndsOne(t)' <=> EndsOne(t), NEW s
    PROVE  Weight(Coming(t), s)' = Weight(Coming(t), s) /\ Released(t, s)' = Released(t, s)
<1>1. Coming(t)' = Coming(t)
  BY DEF Coming
<1>2. Weight(Coming(t), s)' = Weight(Coming(t)', s) /\ Freeing(Coming(t), s)' = Freeing(Coming(t)', s)
  BY DEF Weight, Freeing, CountOf
<1>3. QED  BY <1>1, <1>2 DEF Released

(* The storage of a thread stays.                                          *)
LEMMA SameStorage ==
    ASSUME NEW t \in Thread, tls'[t] = tls[t], current'[t] = current[t], NEW s
    PROVE  Storage(t, s)' = Storage(t, s)
BY DEF Storage, One, InStack

(* A new source has counted nothing.                                       *)
LEMMA CreateKeepsWords ==
    ASSUME BaseInv, CountInv, NEW n \in Physical, CreateSource(n), NEW s \in Source
    PROVE  source'[s].blocks = source[s].blocks
<1>1. source[Fresh].blocks = 0 /\ Fresh \in Source
  BY DEF CountInv, CreateSource, Fresh
<1>2. source'[Fresh] = NewSource(n, 0) /\ \A r \in Source \ {Fresh} : source'[r] = source[r]
  BY <1>1 DEF CreateSource, BaseInv, TypeInv, Typed
<1>3. NewSource(n, 0).blocks = 0
  BY CountAssumption DEF NewSource, Unused
<1>4. QED  BY <1>1, <1>2, <1>3

(* The chunks, before and after.                                           *)
LEMMA NewIsNobodys ==
    ASSUME BaseInv, NEW t \in Thread, Step(t)
    PROVE  /\ \A c \in DOMAIN chunk' : c \in DOMAIN chunk \/ chunk'[c].use = "none"
           /\ DOMAIN chunk \subseteq DOMAIN chunk'
           /\ \A c \in DOMAIN chunk : chunk'[c].source = chunk[c].source
           /\ IsFiniteSet(DOMAIN chunk) /\ IsFiniteSet(DOMAIN chunk')
<1> DEFINE n == Len(chunk)  m == Len(chunk')  D == DOMAIN chunk  E == DOMAIN chunk'
<1>1. /\ D = 1 .. n /\ E = 1 .. m /\ n \in Nat /\ m \in Nat /\ D \subseteq E
      /\ m = n \/ m = n + 1
      /\ m = n \/ chunk'[n + 1].use = "none"
  BY ChunkChange
<1>2. \A c \in DOMAIN chunk : chunk'[c].source = chunk[c].source
  BY ChunkChange
<1> HIDE DEF n, m, D, E
<1>3. \A c \in E : c \in D \/ (m # n /\ c = n + 1)
  BY ONLY <1>1
<1>4. IsFiniteSet(1 .. n) /\ IsFiniteSet(1 .. m)
  BY ONLY <1>1, FS_Interval
<1>5. QED  BY <1>1, <1>2, <1>3, <1>4 DEF D, E

(* The blocks of a source, when no chunk changes its use, or one does.     *)
LEMMA SameBlocksLive ==
    ASSUME BaseInv, NEW t \in Thread, Step(t), UsesKept, NEW s \in Source
    PROVE  LiveBlocks(s)' = LiveBlocks(s)
<1>1. /\ \A c \in DOMAIN chunk' : c \in DOMAIN chunk \/ chunk'[c].use = "none"
      /\ DOMAIN chunk \subseteq DOMAIN chunk'
      /\ \A c \in DOMAIN chunk : chunk'[c].source = chunk[c].source
      /\ IsFiniteSet(DOMAIN chunk) /\ IsFiniteSet(DOMAIN chunk')
  BY NewIsNobodys
<1>2. QED  BY <1>1 DEF LiveBlocks, UsesKept

(* The number of blocks in use when the use of one chunk changes.          *)
LEMMA OneBlockChanges ==
    ASSUME BaseInv, BaseInv', NEW t \in Thread, Step(t), NEW b \in DOMAIN chunk,
           \A c \in DOMAIN chunk \ {b} : chunk'[c].use = chunk[c].use, NEW s \in Source
    PROVE  Cardinality(LiveBlocks(s))' = Cardinality(LiveBlocks(s))
               - One(chunk[b].source = s /\ chunk[b].use \notin {"none", "freed"})
               + One(chunk[b].source = s /\ chunk'[b].use \notin {"none", "freed"})
<1>1. /\ \A c \in DOMAIN chunk' : c \in DOMAIN chunk \/ chunk'[c].use = "none"
      /\ DOMAIN chunk \subseteq DOMAIN chunk'
      /\ \A c \in DOMAIN chunk : chunk'[c].source = chunk[c].source
      /\ IsFiniteSet(DOMAIN chunk) /\ IsFiniteSet(DOMAIN chunk')
  BY NewIsNobodys
<1>3. LiveBlocks(s) \ {b} = LiveBlocks(s)' \ {b}
  BY <1>1 DEF LiveBlocks
<1>4. /\ b \in LiveBlocks(s) <=> chunk[b].source = s /\ chunk[b].use \notin {"none", "freed"}
      /\ b \in LiveBlocks(s)' <=> chunk[b].source = s /\ chunk'[b].use \notin {"none", "freed"}
  BY <1>1 DEF LiveBlocks
<1>5. IsFiniteSet(LiveBlocks(s)) /\ IsFiniteSet(LiveBlocks(s)')
  <2>1. LiveBlocks(s) \in SUBSET (DOMAIN chunk) /\ LiveBlocks(s)' \in SUBSET (DOMAIN chunk')
    BY DEF LiveBlocks
  <2>2. QED  BY <1>1, <2>1, FS_Subset
<1>6. Cardinality(LiveBlocks(s)') = Cardinality(LiveBlocks(s)) - One(b \in LiveBlocks(s)) + One(b \in LiveBlocks(s)')
  BY <1>3, <1>5, OneElement
<1>7. /\ One(b \in LiveBlocks(s)) = One(chunk[b].source = s /\ chunk[b].use \notin {"none", "freed"})
      /\ One(b \in LiveBlocks(s)') = One(chunk[b].source = s /\ chunk'[b].use \notin {"none", "freed"})
  BY <1>4 DEF One
<1>8. QED  BY <1>6, <1>7

(* What was a block once remains one that was; a chunk that is allocated   *)
(* joins them.                                                             *)
LEMMA EverGrows ==
    ASSUME BaseInv, BaseInv', BlockInv, NEW t \in Thread, Step(t), NEW s \in Source
    PROVE  /\ Cardinality(EverBlocks(s)) <= Cardinality(EverBlocks(s))'
           /\ allocCount(t) /\ s = Call(t).s =>
                  Cardinality(EverBlocks(s))' >= Cardinality(EverBlocks(s)) + 1
<1>1. /\ DOMAIN chunk \subseteq DOMAIN chunk'
      /\ \A c \in DOMAIN chunk : chunk'[c].source = chunk[c].source
  BY ChunkChange
<1>2. \A c \in DOMAIN chunk : chunk[c].use # "none" => chunk'[c].use # "none"
  <2> SUFFICES ASSUME NEW c \in DOMAIN chunk, chunk[c].use # "none", chunk'[c].use = "none"
               PROVE  FALSE
    OBVIOUS
  <2>1. \/ chunk[c].use = "none"
        \/ chunk'[c].use \in {"freed", "moving"}
        \/ chunk'[c].use = IF my[t].b # None THEN "freed" ELSE "block"
    BY UseChange
  <2>2. QED  BY <2>1
<1>3. EverBlocks(s) \subseteq EverBlocks(s)'
  BY <1>1, <1>2 DEF EverBlocks
<1>4. IsFiniteSet(EverBlocks(s)) /\ IsFiniteSet(EverBlocks(s)')
  <2>1. IsFiniteSet(EverBlocks(s))
    BY LiveType
  <2>2. IsFiniteSet(DOMAIN chunk')
    BY NewIsNobodys
  <2>3. EverBlocks(s)' \in SUBSET (DOMAIN chunk')
    BY DEF EverBlocks
  <2>4. QED  BY <2>1, <2>2, <2>3, FS_Subset
<1>5. Cardinality(EverBlocks(s)) <= Cardinality(EverBlocks(s)')
  BY <1>3, <1>4, FS_Subset
<1>6. ASSUME allocCount(t), s = Call(t).s
      PROVE  Cardinality(EverBlocks(s)') >= Cardinality(EverBlocks(s)) + 1
  <2>1. todo[t] # <<>> /\ Call(t).op = "alloc"
    BY <1>6 DEF allocCount, At
  <2>2. /\ my[t].b \in DOMAIN chunk /\ chunk[my[t].b].use = "none" /\ chunk[my[t].b].source = Call(t).s
        /\ chunk'[my[t].b].use = Call(t).use
    BY <1>6, <2>1, Allocated
  <2>3. Call(t).use # "none"
    BY <2>1, CallInHand DEF BaseInv
  <2>4. my[t].b \notin EverBlocks(s) /\ my[t].b \in EverBlocks(s)'
    BY <1>1, <1>6, <2>2, <2>3 DEF EverBlocks
  <2> DEFINE b == my[t].b  A == EverBlocks(s)  B == EverBlocks(s)'
  <2>5. b \notin A /\ A \cup {b} \subseteq B /\ IsFiniteSet(A) /\ IsFiniteSet(B)
    BY <1>3, <1>4, <2>4
  <2> HIDE DEF b, A, B
  <2>6. Cardinality(A \cup {b}) = Cardinality(A) + 1
    BY ONLY <2>5, FS_AddElement
  <2>7. Cardinality(A \cup {b}) <= Cardinality(B)
    BY ONLY <2>5, FS_Subset
  <2>8. Cardinality(A) \in Nat /\ Cardinality(B) \in Nat
    BY ONLY <2>5, FS_CardinalityType
  <2>9. Cardinality(B) >= Cardinality(A) + 1
    BY ONLY <2>6, <2>7, <2>8
  <2>10. QED  BY <2>9 DEF A, B
<1>7. QED  BY <1>5, <1>6

(* A field of a source besides its word is set.                            *)
LEMMA WordUntouched ==
    ASSUME NEW src, DOMAIN src = Source, \A r \in Source : "blocks" \in DOMAIN src[r], NEW s \in Source, NEW r \in Source
    PROVE  /\ \A x : [src EXCEPT ![s].arena_lock = x][r].blocks = src[r].blocks
           /\ \A x : [src EXCEPT ![s].mmapped_chunk_lock = x][r].blocks = src[r].blocks
           /\ \A x : [src EXCEPT ![s].arenas = x][r].blocks = src[r].blocks
           /\ \A x : [src EXCEPT ![s].node = x][r].blocks = src[r].blocks
           /\ \A x, y : [src EXCEPT ![s].mmapped_chunk_lock = x, ![s].mmapped_chunk_head = y][r].blocks = src[r].blocks
           /\ \A x, y : [src EXCEPT ![s].state = x, ![s].arenas = y][r].blocks = src[r].blocks
           /\ \A k, x : [src EXCEPT ![s].arenas[k].mspace_lock = x][r].blocks = src[r].blocks
           /\ \A k, x : [src EXCEPT ![s].arenas[k] = x][r].blocks = src[r].blocks
OBVIOUS

(* The steps that change the word of a source.                             *)
WordStep(t) == ref(t) \/ unrefDeref(t) \/ allocCount(t) \/ freeUncount(t)

(* Only ref, unref, alloc and free change the word of a source, each in the
   one atomic operation it has.                                            *)
LEMMA WordsKept ==
    ASSUME BaseInv, NEW t \in Thread, SourceStep(t), ~WordStep(t)
    PROVE  \A r \in Source : source'[r].blocks = source[r].blocks
<1>1. todo[t] # <<>> /\ Call(t).s \in Source
  <2>1. todo[t] # <<>> /\ Call(t).op \in SourceOps
    BY SourceStepShape DEF BaseInv
  <2>2. QED  BY <2>1, CallInHand DEF BaseInv, SourceOps
<1>2. DOMAIN source = Source /\ \A r \in Source : "blocks" \in DOMAIN source[r]
  BY DEF BaseInv, TypeInv, Typed, SourceType
<1> DEFINE c == Call(t)
<1> SUFFICES ASSUME NEW r \in Source
             PROVE  source'[r].blocks = source[r].blocks
  OBVIOUS
<1>3. c.s \in Source
  BY <1>1
<1> HIDE DEF c
<1>4. CASE unrefLook(t)
  BY <1>4 DEF unrefLook, NewChunk
<1>5. CASE unrefDescribe(t)
  BY <1>5 DEF unrefDescribe, NewChunk
<1>6. CASE destroyRemove(t)
  BY <1>6 DEF destroyRemove, NewChunk
<1>7. CASE destroyFinish(t)
  BY <1>2, <1>3, <1>7, WordUntouched DEF destroyFinish, c
<1>8. CASE allocMap(t)
  BY <1>8 DEF allocMap, NewChunk
<1>9. CASE allocLink(t)
  BY <1>2, <1>3, <1>9, WordUntouched DEF allocLink, c
<1>10. CASE allocLinked(t)
  BY <1>2, <1>3, <1>10, WordUntouched DEF allocLinked, c
<1>11. CASE allocLock(t)
  BY <1>2, <1>3, <1>11, WordUntouched DEF allocLock, c
<1>12. CASE arenaAlloc(t)
  BY <1>2, <1>3, <1>12, WordUntouched DEF arenaAlloc, c
<1>13. CASE arenaAllocEnd(t)
  BY <1>2, <1>3, <1>13, WordUntouched DEF arenaAllocEnd, c
<1>14. CASE create_new_arena(t)
  BY <1>2, <1>3, <1>14, WordUntouched DEF create_new_arena, c
<1>15. CASE allocUnlock(t)
  BY <1>2, <1>3, <1>15, WordUntouched DEF allocUnlock, c
<1>16. CASE freeInArena(t)
  BY <1>2, <1>3, <1>16, WordUntouched DEF freeInArena, c
<1>17. CASE freeInArenaEnd(t)
  BY <1>2, <1>3, <1>17, WordUntouched DEF freeInArenaEnd, c
<1>18. CASE freeUnlink(t)
  BY <1>2, <1>3, <1>18, WordUntouched DEF freeUnlink, c
<1>19. CASE freeUnmap(t)
  BY <1>2, <1>3, <1>19, WordUntouched DEF freeUnmap, c
<1>20. CASE migrateLock(t)
  BY <1>2, <1>3, <1>20, WordUntouched DEF migrateLock, c
<1>21. CASE migrateLockChunks(t)
  BY <1>2, <1>3, <1>21, WordUntouched DEF migrateLockChunks, c
<1>22. CASE migrateArena(t)
  BY <1>2, <1>3, <1>22, WordUntouched DEF migrateArena, c
<1>23. CASE migratePages(t)
  BY <1>2, <1>3, <1>23, WordUntouched DEF migratePages, c
<1>24. CASE migrateUnlockChunks(t)
  BY <1>2, <1>3, <1>24, WordUntouched DEF migrateUnlockChunks, c
<1>25. CASE migrateWalk(t)
  BY <1>25 DEF migrateWalk, NewChunk
<1>26. CASE migrateUnlockArena(t)
  BY <1>2, <1>3, <1>26, WordUntouched DEF migrateUnlockArena, c
<1>27. CASE migrateEnd(t)
  BY <1>2, <1>3, <1>27, WordUntouched DEF migrateEnd, c
<1>28. QED  BY <1>4, <1>5, <1>6, <1>7, <1>8, <1>9, <1>10, <1>11, <1>12, <1>13, <1>14, <1>15, <1>16, <1>17, <1>18, <1>19, <1>20, <1>21, <1>22, <1>23, <1>24, <1>25, <1>26, <1>27 DEF SourceStep, WordStep

(* What is left to do after a step that counts nothing.                    *)
ListsAfter(t) ==
    \/ (EndsOne(t)' <=> EndsOne(t)) /\ todo'[t] = todo[t]
    \/ EndsOne(t) /\ ~EndsOne(t)' /\ todo'[t] = Tail(todo[t])
    \/ /\ Call(t).op \in {"alloc", "migrate"} /\ ~EndsOne(t) /\ ~EndsOne(t)'
       /\ todo'[t] = Tail(todo[t])

(* The other steps leave the list of calls, or end the call they belong to.*)
LEMMA QuietLists ==
    ASSUME BaseInv, NEW t \in Thread, SourceStep(t), ~WordStep(t)
    PROVE  ListsAfter(t)
<1>1. t \in DOMAIN todo /\ t \in DOMAIN pc
  BY DEF BaseInv, TypeInv, Typed
<1>2. /\ \A label : Goto(t, label) => todo'[t] = todo[t] /\ pc'[t] = label
      /\ Return(t) => todo'[t] = Tail(todo[t]) /\ pc'[t] = "start"
  BY <1>1 DEF Goto, Return
<1>3. CASE unrefLook(t)
  BY <1>2, <1>3 DEF unrefLook, ListsAfter, EndsOne, At
<1>4. CASE unrefDescribe(t)
  BY <1>2, <1>4 DEF unrefDescribe, ListsAfter, EndsOne, At
<1>5. CASE destroyRemove(t)
  BY <1>2, <1>5 DEF destroyRemove, ListsAfter, EndsOne, At
<1>6. CASE destroyFinish(t)
  BY <1>2, <1>6 DEF destroyFinish, ListsAfter, EndsOne, At
<1>7. CASE allocMap(t)
  BY <1>2, <1>7 DEF allocMap, ListsAfter, EndsOne, At
<1>8. CASE allocLink(t)
  BY <1>2, <1>8 DEF allocLink, ListsAfter, EndsOne, At
<1>9. CASE allocLinked(t)
  BY <1>2, <1>9 DEF allocLinked, ListsAfter, EndsOne, At
<1>10. CASE allocLock(t)
  BY <1>2, <1>10 DEF allocLock, ListsAfter, EndsOne, At
<1>11. CASE arenaAlloc(t)
  <2>1. pc[t] \notin {"remove", "destroy"} /\ Goto(t, "leave")
    BY <1>11 DEF arenaAlloc, At
  <2>2. QED  BY ONLY <1>2, <2>1 DEF ListsAfter, EndsOne
<1>12. CASE arenaAllocEnd(t)
  BY <1>2, <1>12 DEF arenaAllocEnd, ListsAfter, EndsOne, At
<1>13. CASE create_new_arena(t)
  BY <1>2, <1>13 DEF create_new_arena, ListsAfter, EndsOne, At
<1>14. CASE allocUnlock(t)
  BY <1>2, <1>14 DEF allocUnlock, ListsAfter, EndsOne, At
<1>15. CASE freeInArena(t)
  <2>1. pc[t] \notin {"remove", "destroy"} /\ Goto(t, "freed")
    BY <1>15 DEF freeInArena, At
  <2>2. QED  BY ONLY <1>2, <2>1 DEF ListsAfter, EndsOne
<1>16. CASE freeInArenaEnd(t)
  <2>1. pc[t] \notin {"remove", "destroy"} /\ Goto(t, "uncount")
    BY <1>16 DEF freeInArenaEnd, At
  <2>2. QED  BY ONLY <1>2, <2>1 DEF ListsAfter, EndsOne
<1>17. CASE freeUnlink(t)
  <2>1. Goto(t, "unlinked") /\ pc[t] = "start"
    BY <1>17 DEF freeUnlink, At
  <2>2. QED  BY <1>2, <2>1 DEF ListsAfter, EndsOne
<1>18. CASE freeUnmap(t)
  BY <1>2, <1>18 DEF freeUnmap, ListsAfter, EndsOne, At
<1>19. CASE migrateLock(t)
  BY <1>2, <1>19 DEF migrateLock, ListsAfter, EndsOne, At
<1>20. CASE migrateLockChunks(t)
  BY <1>2, <1>20 DEF migrateLockChunks, ListsAfter, EndsOne, At
<1>21. CASE migrateArena(t)
  BY <1>2, <1>21 DEF migrateArena, ListsAfter, EndsOne, At
<1>22. CASE migratePages(t)
  BY <1>2, <1>22 DEF migratePages, ListsAfter, EndsOne, At
<1>23. CASE migrateUnlockChunks(t)
  BY <1>2, <1>23 DEF migrateUnlockChunks, ListsAfter, EndsOne, At
<1>24. CASE migrateWalk(t)
  BY <1>2, <1>24 DEF migrateWalk, ListsAfter, EndsOne, At
<1>25. CASE migrateUnlockArena(t)
  BY <1>2, <1>25 DEF migrateUnlockArena, ListsAfter, EndsOne, At
<1>26. CASE migrateEnd(t)
  BY <1>2, <1>26 DEF migrateEnd, ListsAfter, EndsOne, At
<1>27. QED  BY <1>3, <1>4, <1>5, <1>6, <1>7, <1>8, <1>9, <1>10, <1>11, <1>12, <1>13, <1>14, <1>15, <1>16, <1>17, <1>18, <1>19, <1>20, <1>21, <1>22, <1>23, <1>24, <1>25, <1>26 DEF SourceStep, WordStep

(* A call is done with.                                                    *)
LEMMA DoneBooks ==
    ASSUME BaseInv, NEW t \in Thread, todo[t] # <<>>, pc[t] \notin {"remove", "destroy"},
           Coming(t)' = Tail(todo[t]), NEW s
    PROVE  /\ Weight(Coming(t), s)' = Weight(Coming(t), s) - Worth(Call(t), s)
           /\ Released(t, s)' = Released(t, s) - Frees(Call(t), s)
<1>1. Coming(t) = todo[t]
  BY DEF Coming, EndsOne
<1> DEFINE q == todo[t]
<1>2. q \in Seq(AnyCall) /\ q # <<>>
  BY HeadAndTail DEF BaseInv
<1> HIDE DEF q
<1>3. /\ Weight(q, s) = Worth(Head(q), s) + Weight(Tail(q), s)
      /\ Freeing(q, s) = Frees(Head(q), s) + Freeing(Tail(q), s)
      /\ Weight(Tail(q), s) \in Int /\ Freeing(Tail(q), s) \in Nat
  BY ONLY <1>2, WeightHeadTail
<1>4. Worth(Call(t), s) \in {-1, 0, 1} /\ Frees(Call(t), s) \in {0, 1}
  BY WorthType
<1>5. Weight(Coming(t), s)' = Weight(Coming(t)', s) /\ Freeing(Coming(t), s)' = Freeing(Coming(t)', s)
  BY DEF Weight, Freeing, CountOf
<1>6. QED  BY <1>1, <1>3, <1>4, <1>5 DEF q, Call, Released

(* Such a step leaves the books as they are.                               *)
LEMMA QuietBooks ==
    ASSUME BaseInv, NEW t \in Thread, SourceStep(t), ~WordStep(t), NEW s
    PROVE  Weight(Coming(t), s)' = Weight(Coming(t), s) /\ Released(t, s)' = Released(t, s)
<1>0. todo[t] # <<>>
  BY SourceStepShape DEF BaseInv
<1>1. ListsAfter(t)
  BY QuietLists
<1>2. CASE (EndsOne(t)' <=> EndsOne(t)) /\ todo'[t] = todo[t]
  BY <1>2, SameListBooks
<1>3. CASE EndsOne(t) /\ ~EndsOne(t)' /\ todo'[t] = Tail(todo[t])
  <2>1. Coming(t)' = Coming(t)
    BY <1>3 DEF Coming
  <2>2. Weight(Coming(t), s)' = Weight(Coming(t)', s) /\ Freeing(Coming(t), s)' = Freeing(Coming(t)', s)
    BY DEF Weight, Freeing, CountOf
  <2>3. QED  BY <2>1, <2>2 DEF Released
<1>4. CASE /\ Call(t).op \in {"alloc", "migrate"} /\ ~EndsOne(t) /\ ~EndsOne(t)'
           /\ todo'[t] = Tail(todo[t])
  <2>1. Coming(t)' = Tail(todo[t]) /\ pc[t] \notin {"remove", "destroy"}
    BY <1>4 DEF Coming, EndsOne
  <2>2. /\ Weight(Coming(t), s)' = Weight(Coming(t), s) - Worth(Call(t), s)
        /\ Released(t, s)' = Released(t, s) - Frees(Call(t), s)
    BY <1>0, <2>1, DoneBooks
  <2>3. Worth(Call(t), s) = 0 /\ Frees(Call(t), s) = 0
    BY <1>4 DEF Worth, Frees
  <2>4. Weight(Coming(t), s) \in Int /\ Released(t, s) \in Nat
    <3>1. Coming(t) \in Seq(AnyCall)
      BY ComingType
    <3>2. QED  BY <3>1, WeightType DEF Released
  <2>5. QED  BY <2>2, <2>3, <2>4
<1>5. QED  BY <1>1, <1>2, <1>3, <1>4 DEF ListsAfter

(* The word of a source changes by a number.                               *)
LEMMA WordChanges ==
    ASSUME BaseInv, NEW s \in Source, NEW d \in Int, Add(s, d), NEW r \in Source
    PROVE  source'[r].blocks = source[r].blocks + (IF r = s THEN d ELSE 0) /\ source[r].blocks \in Int
<1>1. DOMAIN source = Source /\ \A q \in Source : "blocks" \in DOMAIN source[q] /\ source[q].blocks \in Int
  BY DEF BaseInv, TypeInv, Typed, SourceType
<1>2. CASE r = s
  <2>1. source'[s].blocks = source[s].blocks + d
    BY <1>1 DEF Add
  <2>2. QED  BY <1>1, <1>2, <2>1
<1>3. CASE r # s
  <2>1. source'[r].blocks = source[r].blocks
    BY <1>1, <1>3 DEF Add
  <2>2. QED  BY <1>1, <1>3, <2>1
<1>4. QED  BY <1>2, <1>3

(* What a step does to the books: r handles and b blocks more.             *)
Books(t, s, r, b) ==
    /\ r \in {-1, 0, 1} /\ b \in {-1, 0, 1}
    /\ source'[s].blocks = source[s].blocks + RefUnit * r + b
    /\ Shared(s)' + Account(t, s)' = Shared(s) + Account(t, s) + r
    /\ Cardinality(LiveBlocks(s))' + Released(t, s)' = Cardinality(LiveBlocks(s)) + Released(t, s) + b
    /\ b = 1 => allocCount(t) /\ s = Call(t).s
    /\ Unborn(s) => r = 0 /\ b = 0

(* A step of a call to a source changes neither the storage of the thread  *)
(* nor what everybody sees.                                                *)
LEMMA SourceStepStorage ==
    ASSUME BaseInv, NEW t \in Thread, SourceStep(t), UNCHANGED placeVars, NEW s \in Source
    PROVE  Shared(s)' = Shared(s) /\ Storage(t, s)' = Storage(t, s)
<1>1. current' = current
  BY SourceStepShape DEF BaseInv
<1>2. Storage(t, s)' = Storage(t, s)
  BY <1>1, SameStorage DEF placeVars
<1>3. Shared(s)' = Shared(s)
  BY QuietShared DEF placeVars
<1>4. QED  BY <1>2, <1>3

(* The books are kept in a step that leaves the word of the source alone.  *)
LEMMA QuietSourceBooks ==
    ASSUME BaseInv, BaseInv', NEW t \in Thread, Step(t), SourceStep(t), ~WordStep(t), UNCHANGED placeVars, NEW s \in Source
    PROVE  Books(t, s, 0, 0)
<1>1. source'[s].blocks = source[s].blocks
  BY WordsKept
<1>2. Shared(s)' = Shared(s) /\ Storage(t, s)' = Storage(t, s)
  BY SourceStepStorage
<1>3. Weight(Coming(t), s)' = Weight(Coming(t), s) /\ Released(t, s)' = Released(t, s)
  BY QuietBooks
<1>4. LiveBlocks(s)' = LiveBlocks(s)
  <2>1. ~Working(t) \/ UsesKept
    <3>1. \/ SourceStep(t) /\ ~allocCount(t)
          \/ FALSE
      BY DEF WordStep
    <3>2. todo[t] # <<>> /\ Call(t).op \in SourceOps
      BY SourceStepShape DEF BaseInv
    <3>3. ~keep(t) /\ ~freeOld(t)
      BY <3>2 DEF keep, freeOld, At, SourceOps
    <3>4. ~tlsDestructionFunc(t) /\ ~free(t) /\ ~realloc(t)
      BY <3>2 DEF tlsDestructionFunc, free, realloc, Begins
    <3>5. QED  BY <3>1, <3>3, <3>4 DEF Working
  <2>2. UsesKept
    BY <2>1, ChunkChange
  <2>3. QED  BY <2>2, SameBlocksLive
<1>5. Numbers
  BY NumbersHold
<1>6. /\ source[s].blocks \in Int /\ RefUnit * 0 = 0
      /\ Shared(s) \in Nat /\ Storage(t, s) \in Nat /\ Weight(Coming(t), s) \in Int
      /\ Released(t, s) \in Nat /\ Cardinality(LiveBlocks(s)) \in Nat
  <2>1. source[s].blocks \in Int
    BY DEF BaseInv, TypeInv, Typed, SourceType
  <2>2. RefUnit * 0 = 0
    BY CountAssumption
  <2>3. QED  BY <1>5, <2>1, <2>2 DEF Numbers
<1>7. QED  BY <1>1, <1>2, <1>3, <1>4, <1>6 DEF Books, Account

(* The list after a step that counts.                                      *)
LEMMA WordLists ==
    ASSUME BaseInv, NEW t \in Thread, SourceStep(t), WordStep(t)
    PROVE  /\ todo[t] # <<>> /\ Call(t).s \in Source /\ ~Unborn(Call(t).s)
           /\ pc[t] \notin {"remove", "destroy"} /\ Coming(t)' = Tail(todo[t])
           /\ ref(t) => Call(t).op = "ref" /\ chunk' = chunk
           /\ unrefDeref(t) => Call(t).op = "unref" /\ chunk' = chunk
           /\ allocCount(t) => Call(t).op = "alloc"
           /\ freeUncount(t) => Call(t).op = "free" /\ chunk' = chunk
<1>1. todo[t] # <<>> /\ Call(t).op \in SourceOps
  BY SourceStepShape DEF BaseInv
<1>2. Call(t).s \in Source /\ ~Unborn(Call(t).s)
  BY <1>1, CallInHand DEF BaseInv, SourceOps, Born
<1>3. t \in DOMAIN todo /\ t \in DOMAIN pc
  BY DEF BaseInv, TypeInv, Typed
<1>4. /\ \A label : Goto(t, label) => todo'[t] = todo[t] /\ pc'[t] = label
      /\ Return(t) => todo'[t] = Tail(todo[t]) /\ pc'[t] = "start"
  BY <1>3 DEF Goto, Return
<1>5. /\ Goto(t, "remove") => Coming(t)' = Tail(todo[t])
      /\ Return(t) => Coming(t)' = Tail(todo[t])
  BY <1>4 DEF Coming, EndsOne
<1>6. CASE ref(t)
  BY <1>1, <1>2, <1>5, <1>6 DEF ref, unrefDeref, allocCount, freeUncount, At
<1>7. CASE unrefDeref(t)
  BY <1>1, <1>2, <1>5, <1>7 DEF ref, unrefDeref, allocCount, freeUncount, At
<1>8. CASE allocCount(t)
  BY <1>1, <1>2, <1>5, <1>8 DEF ref, unrefDeref, allocCount, freeUncount, At
<1>9. CASE freeUncount(t)
  BY <1>1, <1>2, <1>5, <1>9 DEF ref, unrefDeref, allocCount, freeUncount, At
<1>10. QED  BY <1>6, <1>7, <1>8, <1>9 DEF WordStep

(* What the four steps book.                                               *)
LEMMA RefBooks ==
    ASSUME BaseInv, BaseInv', BlockInv, NEW t \in Thread, Step(t), SourceStep(t), ref(t), UNCHANGED placeVars, NEW s \in Source
    PROVE  \E r, b \in {-1, 0, 1} : Books(t, s, r, b)
<1> DEFINE c == Call(t)  i == One(c.s = s)
<1>1. /\ todo[t] # <<>> /\ c.s \in Source /\ ~Unborn(c.s)
      /\ pc[t] \notin {"remove", "destroy"} /\ Coming(t)' = Tail(todo[t])
      /\ c.op = "ref"
  BY WordLists DEF WordStep
<1>2. source'[s].blocks = source[s].blocks + (IF s = c.s THEN RefUnit ELSE 0) /\ source[s].blocks \in Int
  <2>1. Add(c.s, RefUnit) /\ RefUnit \in Int
    BY CountAssumption DEF ref
  <2>2. QED  BY <1>1, <2>1, WordChanges
<1>3. Shared(s)' = Shared(s) /\ Storage(t, s)' = Storage(t, s)
  BY SourceStepStorage
<1>4. /\ Weight(Coming(t), s)' = Weight(Coming(t), s) - Worth(c, s)
      /\ Released(t, s)' = Released(t, s) - Frees(c, s)
  BY <1>1, DoneBooks
<1>5. Worth(c, s) = -i /\ Frees(c, s) = 0
  BY <1>1 DEF Worth, Frees, One
<1>6. Cardinality(LiveBlocks(s))' = Cardinality(LiveBlocks(s))
  <2>1. chunk' = chunk
    BY WordLists DEF WordStep
  <2>2. QED  BY <2>1 DEF LiveBlocks
<1>7. Numbers
  BY NumbersHold
<1>8. /\ Shared(s) \in Nat /\ Storage(t, s) \in Nat /\ Weight(Coming(t), s) \in Int
      /\ Released(t, s) \in Nat /\ Cardinality(LiveBlocks(s)) \in Nat
      /\ i \in {0, 1} /\ (i = 1 <=> s = c.s)
  BY <1>7 DEF Numbers, One
<1>9. RefUnit * 0 = 0 /\ RefUnit * 1 = RefUnit /\ RefUnit * (-1) = -RefUnit /\ RefUnit \in Int
  BY CountAssumption
<1> DEFINE w == source[s].blocks  w2 == source'[s].blocks
           sh == Shared(s)  sh2 == Shared(s)'  st == Storage(t, s)  st2 == Storage(t, s)'
           we == Weight(Coming(t), s)  we2 == Weight(Coming(t), s)'
           re == Released(t, s)  re2 == Released(t, s)'
           li == Cardinality(LiveBlocks(s))  li2 == Cardinality(LiveBlocks(s))'
           r == i  b == 0
<1>10. /\ sh2 + (st2 + we2) = sh + (st + we) + r
       /\ li2 + re2 = li + re + b
  <2> HIDE DEF w, w2, sh, sh2, st, st2, we, we2, re, re2, li, li2, i
  <2>1. QED  BY <1>3, <1>4, <1>5, <1>6, <1>8 DEF sh, sh2, st, st2, we, we2, re, re2, li, li2, i
<1>11. w2 = w + RefUnit * r + b
  <2>1. CASE i = 1
    <3>1. s = c.s
      BY <1>8, <2>1
    <3>2. QED  BY <1>2, <1>9, <2>1, <3>1
  <2>2. CASE i = 0
    <3>1. s # c.s
      BY <1>8, <2>2
    <3>2. QED  BY <1>2, <1>9, <2>2, <3>1
  <2>3. QED  BY <1>8, <2>1, <2>2
<1>12. r \in {-1, 0, 1} /\ b \in {-1, 0, 1} /\ (b = 1 => allocCount(t) /\ s = c.s) /\ (Unborn(s) => r = 0 /\ b = 0)
  BY <1>1, <1>8
<1>13. Books(t, s, r, b)
  BY <1>10, <1>11, <1>12 DEF Books, Account
<1>14. QED  BY <1>12, <1>13

(* A reference that is given back.                                         *)
LEMMA UnrefBooks ==
    ASSUME BaseInv, BaseInv', BlockInv, NEW t \in Thread, Step(t), SourceStep(t), unrefDeref(t), UNCHANGED placeVars, NEW s \in Source
    PROVE  \E r, b \in {-1, 0, 1} : Books(t, s, r, b)
<1> DEFINE c == Call(t)  i == One(c.s = s)
<1>1. /\ todo[t] # <<>> /\ c.s \in Source /\ ~Unborn(c.s)
      /\ pc[t] \notin {"remove", "destroy"} /\ Coming(t)' = Tail(todo[t])
      /\ c.op = "unref"
  BY WordLists DEF WordStep
<1>2. source'[s].blocks = source[s].blocks + (IF s = c.s THEN -RefUnit ELSE 0) /\ source[s].blocks \in Int
  <2>1. Add(c.s, -RefUnit) /\ -RefUnit \in Int
    BY CountAssumption DEF unrefDeref
  <2>2. QED  BY <1>1, <2>1, WordChanges
<1>3. Shared(s)' = Shared(s) /\ Storage(t, s)' = Storage(t, s)
  BY SourceStepStorage
<1>4. /\ Weight(Coming(t), s)' = Weight(Coming(t), s) - Worth(c, s)
      /\ Released(t, s)' = Released(t, s) - Frees(c, s)
  BY <1>1, DoneBooks
<1>5. Worth(c, s) = i /\ Frees(c, s) = 0
  BY <1>1 DEF Worth, Frees, One
<1>6. Cardinality(LiveBlocks(s))' = Cardinality(LiveBlocks(s))
  <2>1. chunk' = chunk
    BY WordLists DEF WordStep
  <2>2. QED  BY <2>1 DEF LiveBlocks
<1>7. Numbers
  BY NumbersHold
<1>8. /\ Shared(s) \in Nat /\ Storage(t, s) \in Nat /\ Weight(Coming(t), s) \in Int
      /\ Released(t, s) \in Nat /\ Cardinality(LiveBlocks(s)) \in Nat
      /\ i \in {0, 1} /\ (i = 1 <=> s = c.s)
  BY <1>7 DEF Numbers, One
<1>9. RefUnit * 0 = 0 /\ RefUnit * 1 = RefUnit /\ RefUnit * (-1) = -RefUnit /\ RefUnit \in Int
  BY CountAssumption
<1> DEFINE w == source[s].blocks  w2 == source'[s].blocks
           sh == Shared(s)  sh2 == Shared(s)'  st == Storage(t, s)  st2 == Storage(t, s)'
           we == Weight(Coming(t), s)  we2 == Weight(Coming(t), s)'
           re == Released(t, s)  re2 == Released(t, s)'
           li == Cardinality(LiveBlocks(s))  li2 == Cardinality(LiveBlocks(s))'
           r == -i  b == 0
<1>10. /\ sh2 + (st2 + we2) = sh + (st + we) + r
       /\ li2 + re2 = li + re + b
  <2> HIDE DEF w, w2, sh, sh2, st, st2, we, we2, re, re2, li, li2, i
  <2>1. QED  BY <1>3, <1>4, <1>5, <1>6, <1>8 DEF sh, sh2, st, st2, we, we2, re, re2, li, li2, i
<1>11. w2 = w + RefUnit * r + b
  <2>1. CASE i = 1
    <3>1. s = c.s
      BY <1>8, <2>1
    <3>2. QED  BY <1>2, <1>9, <2>1, <3>1
  <2>2. CASE i = 0
    <3>1. s # c.s
      BY <1>8, <2>2
    <3>2. QED  BY <1>2, <1>9, <2>2, <3>1
  <2>3. QED  BY <1>8, <2>1, <2>2
<1>12. r \in {-1, 0, 1} /\ b \in {-1, 0, 1} /\ (b = 1 => allocCount(t) /\ s = c.s) /\ (Unborn(s) => r = 0 /\ b = 0)
  BY <1>1, <1>8
<1>13. Books(t, s, r, b)
  BY <1>10, <1>11, <1>12 DEF Books, Account
<1>14. QED  BY <1>12, <1>13

(* A block that is counted.                                                *)
LEMMA AllocBooks ==
    ASSUME BaseInv, BaseInv', BlockInv, NEW t \in Thread, Step(t), SourceStep(t), allocCount(t), UNCHANGED placeVars, NEW s \in Source
    PROVE  \E r, b \in {-1, 0, 1} : Books(t, s, r, b)
<1> DEFINE c == Call(t)  i == One(c.s = s)
<1>1. /\ todo[t] # <<>> /\ c.s \in Source /\ ~Unborn(c.s)
      /\ pc[t] \notin {"remove", "destroy"} /\ Coming(t)' = Tail(todo[t])
      /\ c.op = "alloc"
  BY WordLists DEF WordStep
<1>2. source'[s].blocks = source[s].blocks + (IF s = c.s THEN 1 ELSE 0) /\ source[s].blocks \in Int
  <2>1. Add(c.s, 1) /\ 1 \in Int
    BY CountAssumption DEF allocCount
  <2>2. QED  BY <1>1, <2>1, WordChanges
<1>3. Shared(s)' = Shared(s) /\ Storage(t, s)' = Storage(t, s)
  BY SourceStepStorage
<1>4. /\ Weight(Coming(t), s)' = Weight(Coming(t), s) - Worth(c, s)
      /\ Released(t, s)' = Released(t, s) - Frees(c, s)
  BY <1>1, DoneBooks
<1>5. Worth(c, s) = 0 /\ Frees(c, s) = 0
  BY <1>1 DEF Worth, Frees, One
<1>6. Cardinality(LiveBlocks(s))' = Cardinality(LiveBlocks(s)) + i
  <2>1. /\ my[t].b \in DOMAIN chunk /\ chunk[my[t].b].use = "none" /\ chunk[my[t].b].source = c.s
        /\ chunk'[my[t].b].use = c.use
    BY <1>1, Allocated
  <2>2. c.use \notin {"none", "freed"}
    BY <1>1, CallInHand DEF BaseInv
  <2>3. \A d \in DOMAIN chunk \ {my[t].b} : chunk'[d].use = chunk[d].use
    BY DEF allocCount
  <2>4. Cardinality(LiveBlocks(s))' = Cardinality(LiveBlocks(s))
               - One(chunk[my[t].b].source = s /\ chunk[my[t].b].use \notin {"none", "freed"})
               + One(chunk[my[t].b].source = s /\ chunk'[my[t].b].use \notin {"none", "freed"})
    BY <2>1, <2>3, OneBlockChanges
  <2>5. /\ One(chunk[my[t].b].source = s /\ chunk[my[t].b].use \notin {"none", "freed"}) = 0
        /\ One(chunk[my[t].b].source = s /\ chunk'[my[t].b].use \notin {"none", "freed"}) = i
    BY <2>1, <2>2 DEF One
  <2>6. Cardinality(LiveBlocks(s)) \in Nat
    BY LiveType
  <2>7. QED  BY <2>4, <2>5, <2>6
<1>7. Numbers
  BY NumbersHold
<1>8. /\ Shared(s) \in Nat /\ Storage(t, s) \in Nat /\ Weight(Coming(t), s) \in Int
      /\ Released(t, s) \in Nat /\ Cardinality(LiveBlocks(s)) \in Nat
      /\ i \in {0, 1} /\ (i = 1 <=> s = c.s)
  BY <1>7 DEF Numbers, One
<1>9. RefUnit * 0 = 0 /\ RefUnit * 1 = RefUnit /\ RefUnit * (-1) = -RefUnit /\ RefUnit \in Int
  BY CountAssumption
<1> DEFINE w == source[s].blocks  w2 == source'[s].blocks
           sh == Shared(s)  sh2 == Shared(s)'  st == Storage(t, s)  st2 == Storage(t, s)'
           we == Weight(Coming(t), s)  we2 == Weight(Coming(t), s)'
           re == Released(t, s)  re2 == Released(t, s)'
           li == Cardinality(LiveBlocks(s))  li2 == Cardinality(LiveBlocks(s))'
           r == 0  b == i
<1>10. /\ sh2 + (st2 + we2) = sh + (st + we) + r
       /\ li2 + re2 = li + re + b
  <2> HIDE DEF w, w2, sh, sh2, st, st2, we, we2, re, re2, li, li2, i
  <2>1. QED  BY <1>3, <1>4, <1>5, <1>6, <1>8 DEF sh, sh2, st, st2, we, we2, re, re2, li, li2, i
<1>11. w2 = w + RefUnit * r + b
  <2>1. CASE i = 1
    <3>1. s = c.s
      BY <1>8, <2>1
    <3>2. QED  BY <1>2, <1>9, <2>1, <3>1
  <2>2. CASE i = 0
    <3>1. s # c.s
      BY <1>8, <2>2
    <3>2. QED  BY <1>2, <1>9, <2>2, <3>1
  <2>3. QED  BY <1>8, <2>1, <2>2
<1>12. r \in {-1, 0, 1} /\ b \in {-1, 0, 1} /\ (b = 1 => allocCount(t) /\ s = c.s) /\ (Unborn(s) => r = 0 /\ b = 0)
  BY <1>1, <1>8
<1>13. Books(t, s, r, b)
  BY <1>10, <1>11, <1>12 DEF Books, Account
<1>14. QED  BY <1>12, <1>13

(* A block that is counted no longer.                                      *)
LEMMA FreeBooks ==
    ASSUME BaseInv, BaseInv', BlockInv, NEW t \in Thread, Step(t), SourceStep(t), freeUncount(t), UNCHANGED placeVars, NEW s \in Source
    PROVE  \E r, b \in {-1, 0, 1} : Books(t, s, r, b)
<1> DEFINE c == Call(t)  i == One(c.s = s)
<1>1. /\ todo[t] # <<>> /\ c.s \in Source /\ ~Unborn(c.s)
      /\ pc[t] \notin {"remove", "destroy"} /\ Coming(t)' = Tail(todo[t])
      /\ c.op = "free"
  BY WordLists DEF WordStep
<1>2. source'[s].blocks = source[s].blocks + (IF s = c.s THEN -1 ELSE 0) /\ source[s].blocks \in Int
  <2>1. Add(c.s, -1) /\ -1 \in Int
    BY CountAssumption DEF freeUncount
  <2>2. QED  BY <1>1, <2>1, WordChanges
<1>3. Shared(s)' = Shared(s) /\ Storage(t, s)' = Storage(t, s)
  BY SourceStepStorage
<1>4. /\ Weight(Coming(t), s)' = Weight(Coming(t), s) - Worth(c, s)
      /\ Released(t, s)' = Released(t, s) - Frees(c, s)
  BY <1>1, DoneBooks
<1>5. Worth(c, s) = 0 /\ Frees(c, s) = i
  BY <1>1 DEF Worth, Frees, One
<1>6. Cardinality(LiveBlocks(s))' = Cardinality(LiveBlocks(s))
  <2>1. chunk' = chunk
    BY WordLists DEF WordStep
  <2>2. QED  BY <2>1 DEF LiveBlocks
<1>7. Numbers
  BY NumbersHold
<1>8. /\ Shared(s) \in Nat /\ Storage(t, s) \in Nat /\ Weight(Coming(t), s) \in Int
      /\ Released(t, s) \in Nat /\ Cardinality(LiveBlocks(s)) \in Nat
      /\ i \in {0, 1} /\ (i = 1 <=> s = c.s)
  BY <1>7 DEF Numbers, One
<1>9. RefUnit * 0 = 0 /\ RefUnit * 1 = RefUnit /\ RefUnit * (-1) = -RefUnit /\ RefUnit \in Int
  BY CountAssumption
<1> DEFINE w == source[s].blocks  w2 == source'[s].blocks
           sh == Shared(s)  sh2 == Shared(s)'  st == Storage(t, s)  st2 == Storage(t, s)'
           we == Weight(Coming(t), s)  we2 == Weight(Coming(t), s)'
           re == Released(t, s)  re2 == Released(t, s)'
           li == Cardinality(LiveBlocks(s))  li2 == Cardinality(LiveBlocks(s))'
           r == 0  b == -i
<1>10. /\ sh2 + (st2 + we2) = sh + (st + we) + r
       /\ li2 + re2 = li + re + b
  <2> HIDE DEF w, w2, sh, sh2, st, st2, we, we2, re, re2, li, li2, i
  <2>1. QED  BY <1>3, <1>4, <1>5, <1>6, <1>8 DEF sh, sh2, st, st2, we, we2, re, re2, li, li2, i
<1>11. w2 = w + RefUnit * r + b
  <2>1. CASE i = 1
    <3>1. s = c.s
      BY <1>8, <2>1
    <3>2. QED  BY <1>2, <1>9, <2>1, <3>1
  <2>2. CASE i = 0
    <3>1. s # c.s
      BY <1>8, <2>2
    <3>2. QED  BY <1>2, <1>9, <2>2, <3>1
  <2>3. QED  BY <1>8, <2>1, <2>2
<1>12. r \in {-1, 0, 1} /\ b \in {-1, 0, 1} /\ (b = 1 => allocCount(t) /\ s = c.s) /\ (Unborn(s) => r = 0 /\ b = 0)
  BY <1>1, <1>8
<1>13. Books(t, s, r, b)
  BY <1>10, <1>11, <1>12 DEF Books, Account
<1>14. QED  BY <1>12, <1>13

(* The calls of a list that count for nothing.                             *)
Counting == {"ref", "unref", "bind", "publish_local", "free"}

(* A list without calls of a name counts none of them.                     *)
LEMMA NoneOfThem ==
    ASSUME NEW q, NEW s, NEW op, op \notin Ops(q)
    PROVE  CountOf(q, s, op) = 0
<1>1. {i \in DOMAIN q : q[i].op = op /\ q[i].s = s} = {}
  BY DEF Ops
<1>2. QED  BY <1>1, FS_EmptySet DEF CountOf

(* A list without calls that count weighs nothing.                         *)
LEMMA FlatList ==
    ASSUME NEW q, NEW s
    PROVE  /\ {"ref", "unref", "bind", "publish_local"} \cap Ops(q) = {} => Weight(q, s) = 0
           /\ "free" \notin Ops(q) => Freeing(q, s) = 0
<1>1. ASSUME {"ref", "unref", "bind", "publish_local"} \cap Ops(q) = {}
      PROVE  Weight(q, s) = 0
  <2>1. /\ CountOf(q, s, "bind") = 0 /\ CountOf(q, s, "publish_local") = 0
        /\ CountOf(q, s, "unref") = 0 /\ CountOf(q, s, "ref") = 0
    BY <1>1, NoneOfThem
  <2>2. QED  BY <2>1 DEF Weight
<1>2. ASSUME "free" \notin Ops(q)
      PROVE  Freeing(q, s) = 0
  BY <1>2, NoneOfThem DEF Freeing
<1>3. QED  BY <1>1, <1>2

(* A step that leaves the word of a source alone keeps the books if they   *)
(* add up.                                                                 *)
LEMMA EvenBooks ==
    ASSUME BaseInv, NEW t \in Thread, NEW s \in Source, source'[s].blocks = source[s].blocks,
           RefsEven(t, s), BlocksEven(t, s)
    PROVE  Books(t, s, 0, 0)
<1>1. Numbers
  BY NumbersHold
<1>2. /\ source[s].blocks \in Int /\ RefUnit * 0 = 0
      /\ Shared(s) + Account(t, s) \in Int /\ Cardinality(LiveBlocks(s)) + Released(t, s) \in Int
  <2>1. source[s].blocks \in Int
    BY DEF BaseInv, TypeInv, Typed, SourceType
  <2>2. RefUnit * 0 = 0
    BY CountAssumption
  <2>3. /\ Shared(s) \in Int /\ Account(t, s) \in Int
        /\ Cardinality(LiveBlocks(s)) \in Int /\ Released(t, s) \in Int
    BY <1>1 DEF Numbers
  <2>4. QED  BY <2>1, <2>2, <2>3
<1>3. QED  BY <1>2 DEF Books, RefsEven, BlocksEven

(* An operation begins.                                                    *)
LEMMA OpenBooks ==
    ASSUME BaseInv, BaseInv', NEW t \in Thread, todo[t] = <<>>, pc[t] = "start", pc'[t] = "start",
           NEW calls, todo'[t] = calls, NEW s \in Source, source'[s].blocks = source[s].blocks,
           Shared(s)' + Storage(t, s)' + Weight(calls, s) = Shared(s) + Storage(t, s),
           Cardinality(LiveBlocks(s))' + Freeing(calls, s) = Cardinality(LiveBlocks(s))
    PROVE  Books(t, s, 0, 0)
<1>1. /\ Weight(Coming(t), s) = 0 /\ Released(t, s) = 0
      /\ Weight(Coming(t), s)' = Weight(calls, s) /\ Released(t, s)' = Freeing(calls, s)
  BY BeginBooks
<1>2. Numbers /\ Numbers'
  <2>1. BaseInv' => Numbers'
    BY NumbersHold, PTL
  <2>2. QED  BY <2>1, NumbersHold
<1>3. /\ Shared(s) \in Int /\ Storage(t, s) \in Int /\ Shared(s)' \in Int /\ Storage(t, s)' \in Int
      /\ Weight(Coming(t), s)' \in Int /\ Cardinality(LiveBlocks(s)) \in Int
  BY <1>2 DEF Numbers
<1>4. RefsEven(t, s)
  BY <1>1, <1>3 DEF RefsEven, Account
<1>5. BlocksEven(t, s)
  BY <1>1, <1>3 DEF BlocksEven
<1>6. QED  BY <1>4, <1>5, EvenBooks

(* A call ends, and is followed by others.                                 *)
LEMMA CallBooks ==
    ASSUME BaseInv, BaseInv', NEW t \in Thread, todo[t] # <<>>, pc[t] \notin {"remove", "destroy"},
           NEW calls \in Seq(AnyCall), todo'[t] = calls \o Tail(todo[t]), pc'[t] = "start",
           NEW s \in Source, source'[s].blocks = source[s].blocks,
           Shared(s)' + Storage(t, s)' + Weight(calls, s) = Shared(s) + Storage(t, s) + Worth(Call(t), s),
           Cardinality(LiveBlocks(s))' + Freeing(calls, s) = Cardinality(LiveBlocks(s)) + Frees(Call(t), s)
    PROVE  Books(t, s, 0, 0)
<1>1. /\ Weight(Coming(t), s)' = Weight(Coming(t), s) - Worth(Call(t), s) + Weight(calls, s)
      /\ Released(t, s)' = Released(t, s) - Frees(Call(t), s) + Freeing(calls, s)
  BY ThenBooks
<1>2. Numbers /\ Numbers'
  <2>1. BaseInv' => Numbers'
    BY NumbersHold, PTL
  <2>2. QED  BY <2>1, NumbersHold
<1>3. /\ Shared(s) \in Int /\ Storage(t, s) \in Int /\ Shared(s)' \in Int /\ Storage(t, s)' \in Int
      /\ Weight(Coming(t), s)' \in Int /\ Weight(Coming(t), s) \in Int
      /\ Cardinality(LiveBlocks(s)) \in Int /\ Cardinality(LiveBlocks(s))' \in Int
      /\ Released(t, s) \in Int /\ Released(t, s)' \in Int
  BY <1>2 DEF Numbers
<1>4. /\ Weight(calls, s) \in Int /\ Freeing(calls, s) \in Int
      /\ Worth(Call(t), s) \in Int /\ Frees(Call(t), s) \in Int
  BY WeightType, WorthType
<1> DEFINE sh == Shared(s)  sh2 == Shared(s)'  st == Storage(t, s)  st2 == Storage(t, s)'
           we == Weight(Coming(t), s)  we2 == Weight(Coming(t), s)'
           re == Released(t, s)  re2 == Released(t, s)'
           li == Cardinality(LiveBlocks(s))  li2 == Cardinality(LiveBlocks(s))'
           wc == Weight(calls, s)  fc == Freeing(calls, s)  w == Worth(Call(t), s)  f == Frees(Call(t), s)
<1>5. /\ we2 = we - w + wc /\ re2 = re - f + fc
      /\ sh2 + st2 + wc = sh + st + w /\ li2 + fc = li + f
      /\ sh \in Int /\ st \in Int /\ sh2 \in Int /\ st2 \in Int /\ we \in Int /\ we2 \in Int
      /\ li \in Int /\ li2 \in Int /\ re \in Int /\ re2 \in Int
      /\ wc \in Int /\ fc \in Int /\ w \in Int /\ f \in Int
  BY <1>1, <1>3, <1>4
<1>6. /\ RefsEven(t, s) <=> sh2 + (st2 + we2) = sh + (st + we)
      /\ BlocksEven(t, s) <=> li2 + re2 = li + re
  BY DEF RefsEven, BlocksEven, Account
<1> HIDE DEF sh, sh2, st, st2, we, we2, re, re2, li, li2, wc, fc, w, f
<1>7. sh2 + (st2 + we2) = sh + (st + we) /\ li2 + re2 = li + re
  <2>1. sh2 + (st2 + we2) = sh + (st + we)
    BY ONLY <1>5
  <2>2. li2 + re2 = li + re
    BY ONLY <1>5
  <2>3. QED  BY <2>1, <2>2
<1>8. QED  BY <1>6, <1>7, EvenBooks

(* Steps that count nothing: an operation begins with calls that do not    *)
(* count, a call that does not is followed by such, or one waits.          *)
FlatRest(t) ==
    /\ UNCHANGED <<source, chunk, hold, msources>>
    /\ tls'[t] = tls[t] /\ current'[t] = current[t]
    /\ \A k \in Task : saved'[k].stack = saved[k].stack

(* What stays with the variables that hold references.                     *)
LEMMA FlatSums ==
    ASSUME BaseInv, NEW t \in Thread, FlatRest(t), NEW s \in Source
    PROVE  /\ Shared(s)' = Shared(s) /\ Storage(t, s)' = Storage(t, s) /\ LiveBlocks(s)' = LiveBlocks(s)
           /\ source'[s].blocks = source[s].blocks
           /\ Shared(s) \in Nat /\ Storage(t, s) \in Nat /\ Cardinality(LiveBlocks(s)) \in Nat
<1>1. Shared(s)' = Shared(s)
  BY QuietShared DEF FlatRest
<1>2. Storage(t, s)' = Storage(t, s)
  BY SameStorage DEF FlatRest
<1>3. LiveBlocks(s)' = LiveBlocks(s) /\ source'[s].blocks = source[s].blocks
  BY DEF LiveBlocks, FlatRest
<1>4. Shared(s) \in Nat /\ Storage(t, s) \in Nat /\ Cardinality(LiveBlocks(s)) \in Nat
  BY NumbersHold DEF Numbers
<1>5. QED  BY <1>1, <1>2, <1>3, <1>4

(* An operation begins with calls that count nothing.                      *)
LEMMA FlatOpenBooks ==
    ASSUME BaseInv, BaseInv', NEW t \in Thread, todo[t] = <<>>, pc'[t] = "start", FlatRest(t),
           Ops(todo'[t]) \cap Counting = {}, NEW s \in Source
    PROVE  Books(t, s, 0, 0)
<1>1. pc[t] = "start"
  BY DEF BaseInv, PcInv
<1>2. PICK calls : calls = todo'[t]
  OBVIOUS
<1>3. {"ref", "unref", "bind", "publish_local"} \cap Ops(calls) = {} /\ "free" \notin Ops(calls)
  BY <1>2 DEF Counting
<1>4. Weight(calls, s) = 0 /\ Freeing(calls, s) = 0
  BY <1>3, FlatList
<1>5. /\ Shared(s)' + Storage(t, s)' + Weight(calls, s) = Shared(s) + Storage(t, s)
      /\ Cardinality(LiveBlocks(s))' + Freeing(calls, s) = Cardinality(LiveBlocks(s))
      /\ source'[s].blocks = source[s].blocks
  BY <1>4, FlatSums
<1>6. QED  BY <1>1, <1>2, <1>5, OpenBooks

(* A call that counts nothing is replaced by others that do not.           *)
LEMMA FlatCallBooks ==
    ASSUME BaseInv, BaseInv', NEW t \in Thread, todo[t] # <<>>, Call(t).op \notin Counting \cup {"unref"},
           NEW calls \in Seq(AnyCall), todo'[t] = calls \o Tail(todo[t]), pc'[t] = "start",
           FlatRest(t), Ops(calls) \cap Counting = {}, NEW s \in Source
    PROVE  Books(t, s, 0, 0)
<1>1. pc[t] \notin {"remove", "destroy"}
  <2>1. pc[t] \in LabelsOf(Call(t).op)
    BY DEF BaseInv, PcInv
  <2>2. QED  BY <2>1 DEF LabelsOf, Counting
<1>2. {"ref", "unref", "bind", "publish_local"} \cap Ops(calls) = {} /\ "free" \notin Ops(calls)
  BY DEF Counting
<1>3. Weight(calls, s) = 0 /\ Freeing(calls, s) = 0
  BY <1>2, FlatList
<1>4. Worth(Call(t), s) = 0 /\ Frees(Call(t), s) = 0
  BY DEF Worth, Frees, Counting
<1>5. /\ Shared(s)' + Storage(t, s)' + Weight(calls, s) = Shared(s) + Storage(t, s) + Worth(Call(t), s)
      /\ Cardinality(LiveBlocks(s))' + Freeing(calls, s) = Cardinality(LiveBlocks(s)) + Frees(Call(t), s)
      /\ source'[s].blocks = source[s].blocks
  BY <1>3, <1>4, FlatSums
<1>6. QED  BY <1>1, <1>5, CallBooks

(* A call that goes on.                                                    *)
LEMMA FlatStayBooks ==
    ASSUME BaseInv, BaseInv', NEW t \in Thread, todo'[t] = todo[t], EndsOne(t)' <=> EndsOne(t),
           FlatRest(t), NEW s \in Source
    PROVE  Books(t, s, 0, 0)
<1>1. Weight(Coming(t), s)' = Weight(Coming(t), s) /\ Released(t, s)' = Released(t, s)
  BY SameListBooks
<1>2. /\ Shared(s)' = Shared(s) /\ Storage(t, s)' = Storage(t, s) /\ LiveBlocks(s)' = LiveBlocks(s)
      /\ source'[s].blocks = source[s].blocks
  BY FlatSums
<1>3. RefsEven(t, s) /\ BlocksEven(t, s)
  BY <1>1, <1>2 DEF RefsEven, BlocksEven, Account
<1>4. QED  BY <1>2, <1>3, EvenBooks

(* The operations that begin so.                                           *)
FlatOpens(t) == malloc(t) \/ memalign(t) \/ migrate(t) \/ get(t) \/ pop_all(t) \/ getTls(t)

(* Operations that only call alloc or migrate, or that take a lock first.  *)
LEMMA FlatOpensKeep ==
    ASSUME BaseInv, BaseInv', NEW t \in Thread, FlatOpens(t), NEW s \in Source
    PROVE  Books(t, s, 0, 0)
<1>1. FlatRest(t)
  <2>1. UNCHANGED <<source, chunk, hold, msources, tls, current, saved>>
    <3>1. CASE malloc(t)
      BY <3>1 DEF malloc, sourceVarsButCalls
    <3>2. CASE memalign(t)
      BY <3>2 DEF memalign, sourceVarsButCalls
    <3>3. CASE migrate(t)
      BY <3>3 DEF migrate, sourceVarsButCalls
    <3>4. CASE get(t)
      BY <3>4 DEF get, sourceVarsButCalls
    <3>5. CASE pop_all(t)
      BY <3>5 DEF pop_all, sourceVarsButCalls
    <3>6. CASE getTls(t)
      BY <3>6 DEF getTls, sourceVarsButCalls
    <3>7. QED  BY <3>1, <3>2, <3>3, <3>4, <3>5, <3>6 DEF FlatOpens
  <2>2. QED  BY <2>1 DEF FlatRest
<1>2. todo[t] = <<>> /\ pc'[t] = "start" /\ Ops(todo'[t]) \subseteq {"alloc", "migrate", "replica", "keep", "construct", "init", "curr"}
  <2>1. CASE malloc(t)
    BY <2>1, MallocShapes DEF BaseInv, Opens, Begins
  <2>2. CASE memalign(t)
    BY <2>2, MallocShapes DEF BaseInv, Opens, Begins
  <2>3. CASE migrate(t)
    BY <2>3, HandleShapes DEF BaseInv, Opens, Begins
  <2>4. CASE get(t)
    BY <2>4, HandleShapes DEF BaseInv, Opens, Begins
  <2>5. CASE pop_all(t)
    BY <2>5, StackShapes DEF BaseInv, Opens, Begins
  <2>6. CASE getTls(t)
    BY <2>6, GetTlsShape DEF BaseInv
  <2>7. QED  BY <2>1, <2>2, <2>3, <2>4, <2>5, <2>6 DEF FlatOpens
<1>3. Ops(todo'[t]) \cap Counting = {}
  BY <1>2 DEF Counting
<1>4. QED  BY <1>1, <1>2, <1>3, FlatOpenBooks

(* The calls that end so.                                                  *)
FlatEnds(t) == unlockLocal(t) \/ unlockTask(t) \/ publishReplica(t) \/ unlockReplica(t)

(* Locks are released and replicas published.                              *)
LEMMA FlatEndsKeep ==
    ASSUME BaseInv, BaseInv', NEW t \in Thread, FlatEnds(t), NEW s \in Source
    PROVE  Books(t, s, 0, 0)
<1>1. FlatRest(t)
  <2>1. /\ UNCHANGED <<source, chunk, hold, msources, tls, current>>
        /\ \A k \in Task : saved'[k].stack = saved[k].stack
    <3>1. CASE unlockLocal(t)
      BY <3>1 DEF unlockLocal, sourceVarsButCalls
    <3>2. CASE unlockTask(t)
      <4>1. DOMAIN saved = Task /\ \A k \in Task : "stack" \in DOMAIN saved[k]
        BY DEF BaseInv, TypeInv, Typed, SavedType
      <4>2. \A k \in Task : saved'[k].stack = saved[k].stack
        BY <3>2, <4>1 DEF unlockTask
      <4>3. QED  BY <3>2, <4>2 DEF unlockTask, sourceVarsButCalls
    <3>3. CASE publishReplica(t)
      BY <3>3 DEF publishReplica, sourceVarsButCalls
    <3>4. CASE unlockReplica(t)
      BY <3>4 DEF unlockReplica, sourceVarsButCalls
    <3>5. QED  BY <3>1, <3>2, <3>3, <3>4 DEF FlatEnds
  <2>2. QED  BY <2>1 DEF FlatRest
<1>2. /\ todo[t] # <<>> /\ Call(t).op \in {"unlock_local", "unlock_task", "publish_replica", "unlock_replica"}
      /\ todo'[t] = Tail(todo[t]) /\ pc'[t] = "start"
  BY PlainShapes DEF BaseInv, FlatEnds, Ends
<1>3. <<>> \in Seq(AnyCall) /\ todo'[t] = <<>> \o Tail(todo[t]) /\ Ops(<<>>) \cap Counting = {}
  <2>1. Tail(todo[t]) \in Seq(AnyCall)
    BY <1>2, HeadAndTail DEF BaseInv
  <2>2. <<>> \o Tail(todo[t]) = Tail(todo[t])
    BY <2>1
  <2>3. QED  BY <1>2, <2>2, OpsFacts
<1>4. Call(t).op \notin Counting \cup {"unref"}
  BY <1>2 DEF Counting
<1>5. QED  BY <1>1, <1>2, <1>3, <1>4, FlatCallBooks

(* The look under the lock of a NodeReplicated.                            *)
LEMMA RecheckReplicaKeeps ==
    ASSUME BaseInv, BaseInv', NEW t \in Thread, recheckReplica(t), NEW s \in Source
    PROVE  Books(t, s, 0, 0)
<1>1. FlatRest(t)
  BY DEF recheckReplica, sourceVarsButCalls, placeVars, FlatRest
<1>2. todo[t] # <<>> /\ Call(t).op = "replica" /\ Call(t).node \in Physical
  <2>1. todo[t] # <<>> /\ Call(t).op = "replica"
    BY DEF recheckReplica, At
  <2>2. Call(t) \in CallType(Born, DOMAIN chunk)
    BY <2>1, CallInHand DEF BaseInv
  <2>3. QED  BY <2>1, <2>2, CallFields
<1> DEFINE n == Call(t).node
           a == Alloc(NodeSource[n], ReplicaSize, "replica")
           b == PublishReplica(n)
           calls == (IF replica[n] # None THEN <<>> ELSE <<a, b>>) \o <<UnlockReplica>>
<1>3. a \in AnyCall /\ b \in AnyCall /\ UnlockReplica \in AnyCall
  <2>1. NodeSource[n] \in Source /\ ReplicaSize \in Nat
    BY <1>2, PlaceAssumption
  <2>2. QED  BY <1>2, <2>1, AnyCallsAreTyped DEF BaseInv
<1>4. a.op = "alloc" /\ b.op = "publish_replica" /\ UnlockReplica.op = "unlock_replica"
  <2>1. a.op = "alloc"
    BY ONLY DEF Alloc
  <2>2. b.op = "publish_replica" /\ UnlockReplica.op = "unlock_replica"
    BY DEF PublishReplica, UnlockReplica
  <2>3. QED  BY <2>1, <2>2
<1>5. /\ Then(t, calls)
  BY DEF recheckReplica
<1>6. calls \in Seq(AnyCall) /\ Ops(calls) \subseteq {"alloc", "publish_replica", "unlock_replica"}
  <2> DEFINE u == UnlockReplica
  <2>1. a \in AnyCall /\ b \in AnyCall /\ u \in AnyCall /\ a.op = "alloc" /\ b.op = "publish_replica" /\ u.op = "unlock_replica"
    BY <1>3, <1>4
  <2>2. calls = <<u>> \/ calls = <<a, b, u>>
    <3>1. <<a, b>> \o <<u>> = <<a, b, u>> /\ <<>> \o <<u>> = <<u>>
      BY PairThenOne
    <3>2. QED  BY <3>1
  <2> HIDE DEF a, b, u, calls
  <2>3. CASE calls = <<u>>
    <3>1. calls \in Seq(AnyCall)
      BY <2>1, <2>3, ShortLists
    <3>2. Ops(calls) = {u.op}
      BY <2>3, OpsFacts
    <3>3. QED  BY <2>1, <3>1, <3>2
  <2>4. CASE calls = <<a, b, u>>
    <3>1. calls \in Seq(AnyCall)
      BY <2>1, <2>4, ShortLists
    <3>2. Ops(calls) = {a.op, b.op, u.op}
      BY <2>4, OpsFacts
    <3>3. QED  BY <2>1, <3>1, <3>2
  <2>5. QED  BY <2>2, <2>3, <2>4
<1> HIDE DEF calls
<1>7. todo'[t] = calls \o Tail(todo[t]) /\ pc'[t] = "start"
  BY <1>5 DEF Then, BaseInv, TypeInv, Typed
<1>8. Call(t).op \notin Counting \cup {"unref"} /\ Ops(calls) \cap Counting = {}
  BY <1>2, <1>6 DEF Counting
<1>9. QED  BY <1>1, <1>2, <1>6, <1>7, <1>8, FlatCallBooks

(* Those that wait for a lock.                                             *)
LEMMA FlatWaitsKeep ==
    ASSUME BaseInv, BaseInv', NEW t \in Thread, lockLocal(t) \/ lockReplica(t), NEW s \in Source
    PROVE  Books(t, s, 0, 0)
<1>1. FlatRest(t)
  BY DEF lockLocal, lockReplica, sourceVarsButCalls, FlatRest
<1>2. todo'[t] = todo[t] /\ pc'[t] = "recheck" /\ pc[t] \in {"start", "lock"}
  <2>1. t \in DOMAIN pc
    BY DEF BaseInv, TypeInv, Typed
  <2>2. QED  BY <2>1 DEF lockLocal, lockReplica, Goto, At
<1>3. EndsOne(t)' <=> EndsOne(t)
  BY <1>2 DEF EndsOne
<1>4. QED  BY <1>1, <1>2, <1>3, FlatStayBooks

(* Memory goes; the references stay.                                       *)
LEMMA RestSums ==
    ASSUME BaseInv, NEW t \in Thread, UNCHANGED <<source, hold, msources, saved>>,
           tls'[t] = tls[t], current'[t] = current[t], NEW s \in Source
    PROVE  /\ Shared(s)' = Shared(s) /\ Storage(t, s)' = Storage(t, s) /\ source'[s].blocks = source[s].blocks
           /\ Shared(s) \in Nat /\ Storage(t, s) \in Nat /\ Cardinality(LiveBlocks(s)) \in Nat
<1>1. Shared(s)' = Shared(s)
  BY QuietShared
<1>2. Storage(t, s)' = Storage(t, s)
  BY SameStorage
<1>3. Shared(s) \in Nat /\ Storage(t, s) \in Nat /\ Cardinality(LiveBlocks(s)) \in Nat
  BY NumbersHold DEF Numbers
<1>4. QED  BY <1>1, <1>2, <1>3

(* What the call that frees a block counts.                                *)
LEMMA DeallocWeight ==
    ASSUME NEW b, NEW s
    PROVE  Weight(<<Dealloc(b)>>, s) = 0 /\ Freeing(<<Dealloc(b)>>, s) = One(chunk[b].source = s)
<1>1. Worth(Dealloc(b), s) = 0 /\ Frees(Dealloc(b), s) = One(chunk[b].source = s)
  <2>1. Dealloc(b).op = "free"
    BY DEF Dealloc
  <2>2. QED  BY <2>1, WorthOfCalls
<1>2. QED  BY <1>1, WeightOne

(* A block is given back, or is about to move.                             *)
LEMMA GivenUse ==
    ASSUME BaseInv, NEW b \in DOMAIN chunk
    PROVE  /\ Given({b})[b].use = "freed"
           /\ \A c \in DOMAIN chunk \ {b} : Given({b})[c].use = chunk[c].use
           /\ \A x : /\ [chunk EXCEPT ![b].use = x][b].use = x
                     /\ \A c \in DOMAIN chunk \ {b} : [chunk EXCEPT ![b].use = x][c].use = chunk[c].use
<1>1. \A c \in DOMAIN chunk : Given({b})[c].use = IF c \in {b} THEN "freed" ELSE chunk[c].use
  BY GivenTypes DEF BaseInv
<1>2. \A c \in DOMAIN chunk : "use" \in DOMAIN chunk[c]
  <2>1. \A c \in DOMAIN chunk : chunk[c] \in ChunkType(DOMAIN chunk)
    BY ChunkFields DEF BaseInv
  <2>2. QED  BY <2>1 DEF ChunkType
<1>3. /\ Given({b})[b].use = "freed"
      /\ \A c \in DOMAIN chunk \ {b} : Given({b})[c].use = chunk[c].use
  BY <1>1
<1>4. \A x : /\ [chunk EXCEPT ![b].use = x][b].use = x
             /\ \A c \in DOMAIN chunk \ {b} : [chunk EXCEPT ![b].use = x][c].use = chunk[c].use
  BY <1>2
<1>5. QED  BY <1>3, <1>4

(* free hands the block to the call that counts it off.                    *)
LEMMA FreeKeeps ==
    ASSUME BaseInv, BaseInv', NEW t \in Thread, Step(t), free(t), NEW s \in Source
    PROVE  Books(t, s, 0, 0)
<1>1. /\ Shared(s)' = Shared(s) /\ Storage(t, s)' = Storage(t, s) /\ source'[s].blocks = source[s].blocks
      /\ Shared(s) \in Nat /\ Storage(t, s) \in Nat /\ Cardinality(LiveBlocks(s)) \in Nat
  <2>1. UNCHANGED <<source, hold, msources, saved, tls, current>>
    BY DEF free
  <2>2. QED  BY <2>1, RestSums
<1>2. todo[t] = <<>> /\ pc[t] = "start" /\ t \in DOMAIN todo
  BY DEF BaseInv, PcInv, TypeInv, Typed, free, Begins
<1>3. CASE Begin(t, <<>>) /\ UNCHANGED chunk
  <2>1. todo'[t] = <<>> /\ pc'[t] = "start"
    BY <1>2, <1>3 DEF Begin
  <2>2. LiveBlocks(s)' = LiveBlocks(s)
    BY <1>3 DEF LiveBlocks
  <2>3. Weight(<<>>, s) = 0 /\ Freeing(<<>>, s) = 0
    BY WeightEmpty
  <2>4. QED  BY <1>1, <1>2, <2>1, <2>2, <2>3, OpenBooks
<1>4. CASE \E b \in Blocks : chunk' = Given({b}) /\ Begin(t, <<Dealloc(b)>>)
  <2>1. PICK b \in Blocks : chunk' = Given({b}) /\ Begin(t, <<Dealloc(b)>>)
    BY <1>4
  <2>2. b \in DOMAIN chunk /\ chunk[b].use = "block"
    BY DEF Blocks
  <2>3. chunk'[b].use = "freed" /\ \A c \in DOMAIN chunk \ {b} : chunk'[c].use = chunk[c].use
    BY <2>1, <2>2, GivenUse
  <2>4. Cardinality(LiveBlocks(s))' = Cardinality(LiveBlocks(s))
               - One(chunk[b].source = s /\ chunk[b].use \notin {"none", "freed"})
               + One(chunk[b].source = s /\ chunk'[b].use \notin {"none", "freed"})
    BY <2>2, <2>3, OneBlockChanges
  <2>5. /\ One(chunk[b].source = s /\ chunk[b].use \notin {"none", "freed"}) = One(chunk[b].source = s)
        /\ One(chunk[b].source = s /\ chunk'[b].use \notin {"none", "freed"}) = 0
        /\ One(chunk[b].source = s) \in {0, 1}
    BY <2>2, <2>3 DEF One
  <2>6. PICK calls : calls = <<Dealloc(b)>>
    OBVIOUS
  <2>7. todo'[t] = calls /\ pc'[t] = "start"
    BY <1>2, <2>1, <2>6 DEF Begin
  <2>8. Weight(calls, s) = 0 /\ Freeing(calls, s) = One(chunk[b].source = s)
    BY <2>6, DeallocWeight
  <2>9. /\ Shared(s)' + Storage(t, s)' + Weight(calls, s) = Shared(s) + Storage(t, s)
        /\ Cardinality(LiveBlocks(s))' + Freeing(calls, s) = Cardinality(LiveBlocks(s))
    BY <1>1, <2>4, <2>5, <2>8
  <2>10. QED  BY <1>1, <1>2, <2>7, <2>9, OpenBooks
<1>5. QED  BY <1>3, <1>4 DEF free

(* realloc keeps the old block until there is a new one.                   *)
LEMMA ReallocKeeps ==
    ASSUME BaseInv, BaseInv', NEW t \in Thread, Step(t), realloc(t), NEW s \in Source
    PROVE  Books(t, s, 0, 0)
<1>1. /\ Shared(s)' = Shared(s) /\ Storage(t, s)' = Storage(t, s) /\ source'[s].blocks = source[s].blocks
      /\ Shared(s) \in Nat /\ Storage(t, s) \in Nat /\ Cardinality(LiveBlocks(s)) \in Nat
  <2>1. UNCHANGED <<source, hold, msources, saved, tls, current>>
    BY DEF realloc
  <2>2. QED  BY <2>1, RestSums
<1>2. /\ todo[t] = <<>> /\ pc[t] = "start" /\ pc'[t] = "start"
      /\ Ops(todo'[t]) \subseteq {"alloc", "free_old"}
  <2>1. Opens(t, "realloc", {}, {"alloc", "free_old"})
    BY MallocShapes DEF BaseInv
  <2>2. QED  BY <2>1 DEF Opens, Begins, BaseInv, PcInv
<1>3. Cardinality(LiveBlocks(s))' = Cardinality(LiveBlocks(s))
  <2>1. CASE UNCHANGED chunk
    BY <2>1 DEF LiveBlocks
  <2>2. CASE \E b \in Blocks : chunk' = [chunk EXCEPT ![b].use = "moving"]
    <3>1. PICK b \in Blocks : chunk' = [chunk EXCEPT ![b].use = "moving"]
      BY <2>2
    <3>2. b \in DOMAIN chunk /\ chunk[b].use = "block"
      BY DEF Blocks
    <3>3. chunk'[b].use = "moving" /\ \A c \in DOMAIN chunk \ {b} : chunk'[c].use = chunk[c].use
      BY <3>1, <3>2, GivenUse
    <3>4. Cardinality(LiveBlocks(s))' = Cardinality(LiveBlocks(s))
               - One(chunk[b].source = s /\ chunk[b].use \notin {"none", "freed"})
               + One(chunk[b].source = s /\ chunk'[b].use \notin {"none", "freed"})
      BY <3>2, <3>3, OneBlockChanges
    <3>5. /\ One(chunk[b].source = s /\ chunk[b].use \notin {"none", "freed"}) = One(chunk[b].source = s)
          /\ One(chunk[b].source = s /\ chunk'[b].use \notin {"none", "freed"}) = One(chunk[b].source = s)
          /\ One(chunk[b].source = s) \in {0, 1}
      BY <3>2, <3>3 DEF One
    <3>6. QED  BY <1>1, <3>4, <3>5
  <2>3. QED  BY <2>1, <2>2 DEF realloc
<1>4. PICK calls : calls = todo'[t]
  OBVIOUS
<1>5. {"ref", "unref", "bind", "publish_local"} \cap Ops(calls) = {} /\ "free" \notin Ops(calls)
  BY <1>2, <1>4
<1>6. Weight(calls, s) = 0 /\ Freeing(calls, s) = 0
  BY <1>5, FlatList
<1>7. /\ Shared(s)' + Storage(t, s)' + Weight(calls, s) = Shared(s) + Storage(t, s)
      /\ Cardinality(LiveBlocks(s))' + Freeing(calls, s) = Cardinality(LiveBlocks(s))
  BY <1>1, <1>3, <1>6
<1>8. QED  BY <1>1, <1>2, <1>4, <1>7, OpenBooks

(* Then the old block goes, or it is a block again.                        *)
LEMMA FreeOldKeeps ==
    ASSUME BaseInv, BaseInv', BlockInv, NEW t \in Thread, Step(t), freeOld(t), NEW s \in Source
    PROVE  Books(t, s, 0, 0)
<1> DEFINE b == Call(t).b
<1>1. /\ Shared(s)' = Shared(s) /\ Storage(t, s)' = Storage(t, s) /\ source'[s].blocks = source[s].blocks
      /\ Shared(s) \in Nat /\ Storage(t, s) \in Nat /\ Cardinality(LiveBlocks(s)) \in Nat
  <2>1. UNCHANGED <<source, hold, msources, saved, tls, current>>
    BY DEF freeOld, placeVars
  <2>2. QED  BY <2>1, RestSums
<1>2. todo[t] # <<>> /\ Call(t).op = "free_old" /\ pc[t] = "start" /\ t \in DOMAIN todo /\ t \in DOMAIN pc
  BY DEF BaseInv, TypeInv, Typed, freeOld, At
<1>3. b \in DOMAIN chunk /\ chunk[b].use = "moving"
  <2>1. Call(t) \in Pending(t, "free_old")
    BY <1>2, CallsOfList DEF Pending
  <2>2. QED  BY <2>1, InHandTypes DEF BlockInv, MovingOf
<1>4. /\ chunk'[b].use = IF my[t].b # None THEN "freed" ELSE "block"
      /\ \A c \in DOMAIN chunk \ {b} : chunk'[c].use = chunk[c].use
  <2>1. PICK x : x = IF my[t].b # None THEN "freed" ELSE "block"
    OBVIOUS
  <2>2. chunk' = [chunk EXCEPT ![b].use = x]
    BY <2>1 DEF freeOld
  <2>3. b \in DOMAIN chunk
    BY <1>3
  <2> HIDE DEF b
  <2>4. /\ [chunk EXCEPT ![b].use = x][b].use = x
        /\ \A c \in DOMAIN chunk \ {b} : [chunk EXCEPT ![b].use = x][c].use = chunk[c].use
    BY <2>3, GivenUse
  <2>5. QED  BY <2>1, <2>2, <2>4
<1>5. Cardinality(LiveBlocks(s))' = Cardinality(LiveBlocks(s))
             - One(chunk[b].source = s /\ chunk[b].use \notin {"none", "freed"})
             + One(chunk[b].source = s /\ chunk'[b].use \notin {"none", "freed"})
  BY <1>3, <1>4, OneBlockChanges
<1>6. /\ One(chunk[b].source = s /\ chunk[b].use \notin {"none", "freed"}) = One(chunk[b].source = s)
      /\ One(chunk[b].source = s /\ chunk'[b].use \notin {"none", "freed"}) =
            IF my[t].b # None THEN 0 ELSE One(chunk[b].source = s)
      /\ One(chunk[b].source = s) \in {0, 1}
  BY <1>3, <1>4 DEF One
<1>7. Worth(Call(t), s) = 0 /\ Frees(Call(t), s) = 0
  BY <1>2 DEF Worth, Frees
<1>8. PICK calls : calls = IF my[t].b # None THEN <<Dealloc(b)>> ELSE <<>>
  OBVIOUS
<1>9. calls \in Seq(AnyCall) /\ todo'[t] = calls \o Tail(todo[t]) /\ pc'[t] = "start"
  <2>1. Then(t, calls)
    BY <1>8 DEF freeOld
  <2>2. calls \in Seq(AnyCall)
    <3>1. Dealloc(b) \in AnyCall
      BY <1>3, AnyCallsAreTyped DEF BaseInv
    <3>2. <<Dealloc(b)>> \in Seq(AnyCall) /\ <<>> \in Seq(AnyCall)
      BY <3>1, ShortLists
    <3>3. QED  BY <1>8, <3>2
  <2>3. QED  BY <1>2, <2>1, <2>2 DEF Then
<1>10. Weight(calls, s) = 0 /\ Freeing(calls, s) = IF my[t].b # None THEN One(chunk[b].source = s) ELSE 0
  BY <1>8, DeallocWeight, WeightEmpty
<1>11. /\ Shared(s)' + Storage(t, s)' + Weight(calls, s) = Shared(s) + Storage(t, s) + Worth(Call(t), s)
       /\ Cardinality(LiveBlocks(s))' + Freeing(calls, s) = Cardinality(LiveBlocks(s)) + Frees(Call(t), s)
  BY <1>1, <1>5, <1>6, <1>7, <1>10
<1>12. QED  BY <1>1, <1>2, <1>9, <1>11, CallBooks

(* What refers to a source is not nothing.                                 *)
LEMMA NoneIsNoSource ==
    ASSUME NEW s \in Source
    PROVE  One(None = s) = 0 /\ None # s
BY CountAssumption DEF One

(* Two handles change: the one that is moved to, and the one moved from.   *)
LEMMA MoveBooks ==
    ASSUME BaseInv, BaseInv', UNCHANGED <<msources, saved>>, NEW h \in Handle, NEW k \in Handle, h # k,
           hold' = [hold EXCEPT ![h] = hold[k], ![k] = None], NEW s \in Source
    PROVE  Shared(s)' = Shared(s) - One(hold[h] = s)
<1>1. SharedPartsHold /\ SharedPartsHold'
  <2>1. BaseInv' => SharedPartsHold'
    BY PartsHold, PTL
  <2>2. QED  BY <2>1, PartsHold
<1>2. DOMAIN hold = Handle /\ None # s
  BY NoneIsNoSource DEF BaseInv, TypeInv, Typed
<1>3. hold'[h] = hold[k] /\ hold'[k] = None /\ \A j \in Handle \ {h, k} : hold'[j] = hold[j]
  BY <1>2
<1> DEFINE A == HoldersOf(s)  B == HoldersOf(s)'  C == (A \ {h}) \cup (IF k \in A THEN {h} ELSE {})
<1>4. /\ h \in A <=> hold[h] = s
      /\ k \in A <=> hold[k] = s
      /\ h \in B <=> hold[k] = s
      /\ k \notin B
      /\ A \ {h, k} = B \ {h, k}
      /\ h # k
  BY <1>2, <1>3 DEF HoldersOf
<1>5. IsFiniteSet(A) /\ IsFiniteSet(B) /\ Cardinality(A) \in Nat /\ Cardinality(B) \in Nat
  BY <1>1 DEF SharedPartsHold
<1>6. C \in SUBSET (A \cup {h})
  OBVIOUS
<1>7. A \ {h} = C \ {h} /\ C \ {k} = B \ {k} /\ (h \in C <=> k \in A) /\ (k \in C <=> k \in A)
  BY <1>4
<1> HIDE DEF A, B, C
<1>8. IsFiniteSet(C)
  <2>1. IsFiniteSet(A \cup {h})
    BY ONLY <1>5, FS_AddElement
  <2>2. QED  BY ONLY <1>6, <2>1, FS_Subset
<1>9. /\ Cardinality(C) = Cardinality(A) - One(h \in A) + One(h \in C)
      /\ Cardinality(C) \in Nat
  BY ONLY <1>5, <1>7, <1>8, OneElement
<1>10. Cardinality(B) = Cardinality(C) - One(k \in C) + One(k \in B)
  BY ONLY <1>5, <1>7, <1>8, OneElement
<1>11. /\ One(h \in A) = One(hold[h] = s) /\ One(h \in C) = One(k \in C) /\ One(k \in B) = 0
       /\ One(h \in A) \in {0, 1} /\ One(k \in C) \in {0, 1}
  BY <1>4, <1>7 DEF One
<1>12. Cardinality(HoldersOf(s))' = Cardinality(HoldersOf(s)) - One(hold[h] = s)
  BY <1>5, <1>9, <1>10, <1>11 DEF A, B
<1>13. PairsOf(s)' = PairsOf(s) /\ SavedRefs(s)' = SavedRefs(s)
  BY DEF PairsOf, SavedRefs
<1>14. One(hold[h] = s) \in Int
  BY OneType
<1>15. QED  BY <1>1, <1>12, <1>13, <1>14 DEF SharedPartsHold

(* Operations on handles leave the memory and the storage alone.           *)
LEMMA HandleSums ==
    ASSUME BaseInv, NEW t \in Thread, UNCHANGED <<chunk, tls, current>>, NEW s \in Source
    PROVE  /\ LiveBlocks(s)' = LiveBlocks(s) /\ Storage(t, s)' = Storage(t, s)
           /\ Shared(s) \in Nat /\ Storage(t, s) \in Nat /\ Cardinality(LiveBlocks(s)) \in Nat
           /\ \A x : One(x = s) \in {0, 1}
           /\ One(None = s) = 0
<1>1. LiveBlocks(s)' = LiveBlocks(s)
  BY DEF LiveBlocks
<1>2. Storage(t, s)' = Storage(t, s)
  BY SameStorage
<1>3. Shared(s) \in Nat /\ Storage(t, s) \in Nat /\ Cardinality(LiveBlocks(s)) \in Nat
  BY NumbersHold DEF Numbers
<1>4. QED  BY <1>1, <1>2, <1>3, NoneIsNoSource DEF One

(* A reference that is taken, one that is kept, and one that goes.         *)
LEMMA RefWeights ==
    ASSUME NEW s
    PROVE  /\ \A x : Weight(<<Unref(x)>>, s) = One(x = s) /\ Freeing(<<Unref(x)>>, s) = 0
           /\ \A x : Weight(<<Ref(x)>>, s) = -One(x = s) /\ Freeing(<<Ref(x)>>, s) = 0
           /\ \A x, y : Weight(<<Ref(x), Unref(y)>>, s) = One(y = s) - One(x = s)
                        /\ Freeing(<<Ref(x), Unref(y)>>, s) = 0
           /\ \A x, y : Weight(<<Ref(x), Ref(y)>>, s) = -One(x = s) - One(y = s)
                        /\ Freeing(<<Ref(x), Ref(y)>>, s) = 0
           /\ \A x, h : Weight(<<Ref(x), Bind(h, x)>>, s) = 0 /\ Freeing(<<Ref(x), Bind(h, x)>>, s) = 0
           /\ \A x, h : Weight(<<FirstRef(x), Bind(h, x)>>, s) = 0 /\ Freeing(<<FirstRef(x), Bind(h, x)>>, s) = 0
           /\ \A x, n : Weight(<<FirstRef(x), PublishLocal(x, n), UnlockLocal>>, s) = 0
                        /\ Freeing(<<FirstRef(x), PublishLocal(x, n), UnlockLocal>>, s) = 0
           /\ \A x : /\ Weight(<<FirstRef(x), Ref(x), Unref(x)>>, s) = -One(x = s)
                     /\ Freeing(<<FirstRef(x), Ref(x), Unref(x)>>, s) = 0
<1>1. /\ \A x : Worth(Ref(x), s) = -One(x = s) /\ Worth(FirstRef(x), s) = -One(x = s)
      /\ \A x : Worth(Unref(x), s) = One(x = s)
      /\ \A h, x : Worth(Bind(h, x), s) = One(x = s)
      /\ \A x, n : Worth(PublishLocal(x, n), s) = One(x = s)
      /\ Worth(UnlockLocal, s) = 0
  <2>1. UnlockLocal.op = "unlock_local"
    BY DEF UnlockLocal
  <2>2. QED  BY <2>1, WorthOfCalls
<1>2. /\ \A x : Frees(Ref(x), s) = 0 /\ Frees(FirstRef(x), s) = 0
      /\ \A x : Frees(Unref(x), s) = 0
      /\ \A h, x : Frees(Bind(h, x), s) = 0
      /\ \A x, n : Frees(PublishLocal(x, n), s) = 0
      /\ Frees(UnlockLocal, s) = 0
  BY DEF Frees, Ref, FirstRef, Unref, Bind, PublishLocal, UnlockLocal
<1>3. \A x : One(x = s) \in {0, 1}
  BY OneType
<1>4. \A x : Weight(<<Unref(x)>>, s) = One(x = s) /\ Freeing(<<Unref(x)>>, s) = 0
  BY <1>1, <1>2, WeightOne
<1>5. \A x : Weight(<<Ref(x)>>, s) = -One(x = s) /\ Freeing(<<Ref(x)>>, s) = 0
  BY <1>1, <1>2, WeightOne
<1>6. \A x, y : Weight(<<Ref(x), Unref(y)>>, s) = One(y = s) - One(x = s)
                /\ Freeing(<<Ref(x), Unref(y)>>, s) = 0
  BY <1>1, <1>2, <1>3, WeightTwo
<1>7. \A x, y : Weight(<<Ref(x), Ref(y)>>, s) = -One(x = s) - One(y = s)
                /\ Freeing(<<Ref(x), Ref(y)>>, s) = 0
  BY <1>1, <1>2, <1>3, WeightTwo
<1>8. \A x, h : Weight(<<Ref(x), Bind(h, x)>>, s) = 0 /\ Freeing(<<Ref(x), Bind(h, x)>>, s) = 0
  BY <1>1, <1>2, <1>3, WeightTwo
<1>9. \A x, h : Weight(<<FirstRef(x), Bind(h, x)>>, s) = 0 /\ Freeing(<<FirstRef(x), Bind(h, x)>>, s) = 0
  BY <1>1, <1>2, <1>3, WeightTwo
<1>10. \A x, n : Weight(<<FirstRef(x), PublishLocal(x, n), UnlockLocal>>, s) = 0
                 /\ Freeing(<<FirstRef(x), PublishLocal(x, n), UnlockLocal>>, s) = 0
  BY <1>1, <1>2, <1>3, WeightThree
<1>11. \A x : /\ Weight(<<FirstRef(x), Ref(x), Unref(x)>>, s) = -One(x = s)
              /\ Freeing(<<FirstRef(x), Ref(x), Unref(x)>>, s) = 0
  BY <1>1, <1>2, <1>3, WeightThree
<1>12. QED  BY <1>4, <1>5, <1>6, <1>7, <1>8, <1>9, <1>10, <1>11

(* A new source, and the handle that is to be bound to it.                 *)
LEMMA CreateKeeps ==
    ASSUME BaseInv, BaseInv', CountInv, NEW t \in Thread, create(t), NEW s \in Source
    PROVE  Books(t, s, 0, 0)
<1>1. todo[t] = <<>> /\ pc[t] = "start" /\ t \in DOMAIN todo
  BY DEF BaseInv, PcInv, TypeInv, Typed, create, Begins
<1>2. source'[s].blocks = source[s].blocks
  <2>1. Op(t).node \in Physical
    <3>1. Op(t) \in Operation /\ Op(t).op = "create"
      BY BeginTypes DEF BaseInv, create
    <3>2. QED  BY <3>1, OperationFields
  <2>2. CreateSource(Op(t).node)
    BY DEF create
  <2>3. QED  BY <2>1, <2>2, CreateKeepsWords
<1>3. /\ LiveBlocks(s)' = LiveBlocks(s) /\ Storage(t, s)' = Storage(t, s)
      /\ Shared(s) \in Nat /\ Storage(t, s) \in Nat /\ Cardinality(LiveBlocks(s)) \in Nat
  BY HandleSums DEF create
<1>4. Shared(s)' = Shared(s)
  BY QuietShared DEF create
<1>5. PICK calls : calls = <<FirstRef(Fresh), Bind(Op(t).h, Fresh)>>
  OBVIOUS
<1>6. todo'[t] = calls /\ pc'[t] = "start"
  BY <1>1, <1>5 DEF create, Begin
<1>7. Weight(calls, s) = 0 /\ Freeing(calls, s) = 0
  BY <1>5, RefWeights
<1>8. /\ Shared(s)' + Storage(t, s)' + Weight(calls, s) = Shared(s) + Storage(t, s)
      /\ Cardinality(LiveBlocks(s))' + Freeing(calls, s) = Cardinality(LiveBlocks(s))
  BY <1>3, <1>4, <1>7
<1>9. QED  BY <1>1, <1>2, <1>6, <1>8, OpenBooks

(* A handle is copied: the reference first.                                *)
LEMMA CopyKeeps ==
    ASSUME BaseInv, BaseInv', NEW t \in Thread, copy(t), NEW s \in Source
    PROVE  Books(t, s, 0, 0)
<1>1. todo[t] = <<>> /\ pc[t] = "start" /\ t \in DOMAIN todo
  BY DEF BaseInv, PcInv, TypeInv, Typed, copy, Begins
<1>2. UNCHANGED <<source, chunk, tls, current, hold, msources, saved>>
  BY DEF copy, sourceVarsButCalls
<1>3. /\ LiveBlocks(s)' = LiveBlocks(s) /\ Storage(t, s)' = Storage(t, s)
      /\ Shared(s) \in Nat /\ Storage(t, s) \in Nat /\ Cardinality(LiveBlocks(s)) \in Nat
  BY <1>2, HandleSums
<1>4. Shared(s)' = Shared(s)
  BY <1>2, QuietShared
<1>5. PICK calls : calls = <<Ref(hold[Op(t).from]), Bind(Op(t).h, hold[Op(t).from])>>
  OBVIOUS
<1>6. todo'[t] = calls /\ pc'[t] = "start"
  BY <1>1, <1>5 DEF copy, Begin
<1>7. Weight(calls, s) = 0 /\ Freeing(calls, s) = 0
  BY <1>5, RefWeights
<1>8. /\ Shared(s)' + Storage(t, s)' + Weight(calls, s) = Shared(s) + Storage(t, s)
      /\ Cardinality(LiveBlocks(s))' + Freeing(calls, s) = Cardinality(LiveBlocks(s))
  BY <1>3, <1>4, <1>7
<1>9. QED  BY <1>1, <1>2, <1>6, <1>8, OpenBooks

(* The handle that is bound referred to nothing.                           *)
LEMMA BindKeeps ==
    ASSUME BaseInv, BaseInv', ClientInv, NEW t \in Thread, bind(t), NEW s \in Source
    PROVE  Books(t, s, 0, 0)
<1>1. todo[t] # <<>> /\ Call(t).op = "bind" /\ pc[t] = "start" /\ t \in DOMAIN todo /\ t \in DOMAIN pc
  BY DEF BaseInv, TypeInv, Typed, bind, At
<1>2. Call(t).h \in Handle /\ hold[Call(t).h] = None
  <2>1. Call(t) \in Pending(t, "bind")
    BY <1>1, CallsOfList DEF Pending
  <2>2. Call(t) \in CallType(Born, DOMAIN chunk)
    BY <1>1, CallInHand DEF BaseInv
  <2>3. QED  BY <1>1, <2>1, <2>2, CallFields DEF ClientInv
<1>3. UNCHANGED <<source, chunk, tls, current, msources, saved>>
  BY DEF bind, sourceVarsButCalls
<1>4. /\ LiveBlocks(s)' = LiveBlocks(s) /\ Storage(t, s)' = Storage(t, s)
      /\ Shared(s) \in Nat /\ Storage(t, s) \in Nat /\ Cardinality(LiveBlocks(s)) \in Nat
      /\ One(Call(t).s = s) \in {0, 1} /\ One(None = s) = 0
  BY <1>3, HandleSums
<1>5. Shared(s)' = Shared(s) + One(Call(t).s = s)
  <2>1. PICK h : h = Call(t).h
    OBVIOUS
  <2>2. PICK new : new = Call(t).s
    OBVIOUS
  <2>3. hold'[h] = new /\ \A k \in Handle \ {h} : hold'[k] = hold[k]
    BY <1>2, <2>1, <2>2 DEF bind, BaseInv, TypeInv, Typed
  <2>4. Shared(s)' = Shared(s) - One(hold[h] = s) + One(new = s)
    BY <1>2, <1>3, <2>1, <2>3, HoldBooks
  <2>5. One(hold[h] = s) = One(None = s)
    BY <1>2, <2>1
  <2>6. QED  BY <1>4, <2>2, <2>4, <2>5
<1>6. PICK calls : calls = <<>>
  OBVIOUS
<1>7. calls \in Seq(AnyCall) /\ todo'[t] = calls \o Tail(todo[t]) /\ pc'[t] = "start"
  <2>1. Then(t, <<>>)
    BY DEF bind
  <2>2. QED  BY <1>1, <1>6, <2>1, ShortLists DEF Then
<1>8. Weight(calls, s) = 0 /\ Freeing(calls, s) = 0
  BY <1>6, WeightEmpty
<1>9. Worth(Call(t), s) = One(Call(t).s = s) /\ Frees(Call(t), s) = 0
  BY <1>1 DEF Worth, Frees, One
<1>10. /\ Shared(s)' + Storage(t, s)' + Weight(calls, s) = Shared(s) + Storage(t, s) + Worth(Call(t), s)
       /\ Cardinality(LiveBlocks(s))' + Freeing(calls, s) = Cardinality(LiveBlocks(s)) + Frees(Call(t), s)
  BY <1>4, <1>5, <1>8, <1>9
<1>11. QED  BY <1>1, <1>3, <1>7, <1>10, CallBooks

(* Assignment takes the new reference before it gives back the old one.    *)
LEMMA AssignKeeps ==
    ASSUME BaseInv, BaseInv', NEW t \in Thread, assign(t), NEW s \in Source
    PROVE  Books(t, s, 0, 0)
<1> DEFINE h == Op(t).h  new == hold[Op(t).from]  old == hold[h]
<1>1. todo[t] = <<>> /\ pc[t] = "start" /\ t \in DOMAIN todo
  BY DEF BaseInv, PcInv, TypeInv, Typed, assign, Begins
<1>2. UNCHANGED <<source, chunk, tls, current, msources, saved>>
  BY DEF assign, sourceVarsButCalls
<1>3. /\ LiveBlocks(s)' = LiveBlocks(s) /\ Storage(t, s)' = Storage(t, s)
      /\ Shared(s) \in Nat /\ Storage(t, s) \in Nat /\ Cardinality(LiveBlocks(s)) \in Nat
      /\ One(new = s) \in {0, 1} /\ One(old = s) \in {0, 1} /\ One(None = s) = 0
  BY <1>2, HandleSums
<1>4. Shared(s)' = Shared(s) - One(old = s) + One(new = s)
  <2>1. h \in Handle
    <3>1. Op(t) \in Operation /\ Op(t).op = "assign"
      BY BeginTypes DEF BaseInv, assign
    <3>2. QED  BY <3>1, OperationFields
  <2>2. hold'[h] = new /\ \A k \in Handle \ {h} : hold'[k] = hold[k]
    BY <2>1 DEF assign, BaseInv, TypeInv, Typed
  <2> HIDE DEF h, new
  <2>3. Shared(s)' = Shared(s) - One(hold[h] = s) + One(new = s)
    BY <1>2, <2>1, <2>2, HoldBooks
  <2>4. QED  BY <2>3
<1>5. PICK calls : calls = IF new = old THEN <<>>
                           ELSE <<Ref(new)>> \o (IF old = None THEN <<>> ELSE <<Unref(old)>>)
  OBVIOUS
<1>6. todo'[t] = calls /\ pc'[t] = "start"
  BY <1>1, <1>5 DEF assign, Begin
<1>7. Weight(calls, s) = One(old = s) - One(new = s) /\ Freeing(calls, s) = 0
  <2>1. \/ new = old /\ calls = <<>>
        \/ old = None /\ calls = <<Ref(new)>>
        \/ calls = <<Ref(new), Unref(old)>>
    <3>1. <<Ref(new)>> \o <<>> = <<Ref(new)>>
      OBVIOUS
    <3>2. <<Ref(new)>> \o <<Unref(old)>> = <<Ref(new), Unref(old)>>
      BY OneThenOne
    <3>3. QED  BY <1>5, <3>1, <3>2
  <2> HIDE DEF new, old
  <2>2. CASE new = old /\ calls = <<>>
    BY <1>3, <2>2, WeightEmpty
  <2>3. CASE old = None /\ calls = <<Ref(new)>>
    BY <1>3, <2>3, RefWeights
  <2>4. CASE calls = <<Ref(new), Unref(old)>>
    BY <2>4, RefWeights
  <2>5. QED  BY <2>1, <2>2, <2>3, <2>4
<1>8. /\ Shared(s)' + Storage(t, s)' + Weight(calls, s) = Shared(s) + Storage(t, s)
      /\ Cardinality(LiveBlocks(s))' + Freeing(calls, s) = Cardinality(LiveBlocks(s))
  <2> HIDE DEF new, old
  <2>1. QED  BY <1>3, <1>4, <1>7
<1>9. QED  BY <1>1, <1>2, <1>6, <1>8, OpenBooks

(* A move takes no reference; what the target referred to is given back.   *)
LEMMA MoveKeeps ==
    ASSUME BaseInv, BaseInv', NEW t \in Thread, move(t), NEW s \in Source
    PROVE  Books(t, s, 0, 0)
<1> DEFINE h == Op(t).h  old == hold[h]
<1>1. todo[t] = <<>> /\ pc[t] = "start" /\ t \in DOMAIN todo
  BY DEF BaseInv, PcInv, TypeInv, Typed, move, Begins
<1>2. UNCHANGED <<source, chunk, tls, current, msources, saved>>
  BY DEF move, sourceVarsButCalls
<1>3. /\ LiveBlocks(s)' = LiveBlocks(s) /\ Storage(t, s)' = Storage(t, s)
      /\ Shared(s) \in Nat /\ Storage(t, s) \in Nat /\ Cardinality(LiveBlocks(s)) \in Nat
      /\ One(old = s) \in {0, 1} /\ One(None = s) = 0
  BY <1>2, HandleSums
<1>4. Shared(s)' = Shared(s) - One(old = s)
  <2>1. h \in Handle /\ Op(t).from \in Handle
    <3>1. Op(t) \in Operation /\ Op(t).op = "move"
      BY BeginTypes DEF BaseInv, move
    <3>2. QED  BY <3>1, OperationFields
  <2>2. hold' = [hold EXCEPT ![h] = hold[Op(t).from], ![Op(t).from] = None] /\ h # Op(t).from
    BY DEF move
  <2>3. QED  BY <1>2, <2>1, <2>2, MoveBooks
<1>5. PICK calls : calls = IF old = None THEN <<>> ELSE <<Unref(old)>>
  OBVIOUS
<1>6. todo'[t] = calls /\ pc'[t] = "start"
  BY <1>1, <1>5 DEF move, Begin
<1>7. Weight(calls, s) = One(old = s) /\ Freeing(calls, s) = 0
  <2> HIDE DEF old
  <2>1. CASE old = None
    BY <1>3, <1>5, <2>1, WeightEmpty
  <2>2. CASE old # None
    BY <1>5, <2>2, RefWeights
  <2>3. QED  BY <2>1, <2>2
<1>8. /\ Shared(s)' + Storage(t, s)' + Weight(calls, s) = Shared(s) + Storage(t, s)
      /\ Cardinality(LiveBlocks(s))' + Freeing(calls, s) = Cardinality(LiveBlocks(s))
  <2> HIDE DEF old
  <2>1. QED  BY <1>3, <1>4, <1>7
<1>9. QED  BY <1>1, <1>2, <1>6, <1>8, OpenBooks

(* The destructor of a handle.                                             *)
LEMMA DropKeeps ==
    ASSUME BaseInv, BaseInv', NEW t \in Thread, drop(t), NEW s \in Source
    PROVE  Books(t, s, 0, 0)
<1> DEFINE h == Op(t).h  old == hold[h]
<1>1. todo[t] = <<>> /\ pc[t] = "start" /\ t \in DOMAIN todo
  BY DEF BaseInv, PcInv, TypeInv, Typed, drop, Begins
<1>2. UNCHANGED <<source, chunk, tls, current, msources, saved>>
  BY DEF drop, sourceVarsButCalls
<1>3. /\ LiveBlocks(s)' = LiveBlocks(s) /\ Storage(t, s)' = Storage(t, s)
      /\ Shared(s) \in Nat /\ Storage(t, s) \in Nat /\ Cardinality(LiveBlocks(s)) \in Nat
      /\ One(old = s) \in {0, 1} /\ One(None = s) = 0
  BY <1>2, HandleSums
<1>4. Shared(s)' = Shared(s) - One(old = s)
  <2>1. h \in Handle
    <3>1. Op(t) \in Operation /\ Op(t).op = "drop"
      BY BeginTypes DEF BaseInv, drop
    <3>2. QED  BY <3>1, OperationFields
  <2>2. hold'[h] = None /\ \A k \in Handle \ {h} : hold'[k] = hold[k]
    BY <2>1 DEF drop, BaseInv, TypeInv, Typed
  <2> HIDE DEF h
  <2>3. Shared(s)' = Shared(s) - One(hold[h] = s) + One(None = s)
    BY <1>2, <2>1, <2>2, HoldBooks
  <2>4. QED  BY <1>3, <2>3 DEF old
<1>5. PICK calls : calls = <<Unref(old)>>
  OBVIOUS
<1>6. todo'[t] = calls /\ pc'[t] = "start"
  BY <1>1, <1>5 DEF drop, Begin
<1>7. Weight(calls, s) = One(old = s) /\ Freeing(calls, s) = 0
  BY <1>5, RefWeights
<1>8. /\ Shared(s)' + Storage(t, s)' + Weight(calls, s) = Shared(s) + Storage(t, s)
      /\ Cardinality(LiveBlocks(s))' + Freeing(calls, s) = Cardinality(LiveBlocks(s))
  <2> HIDE DEF old
  <2>1. QED  BY <1>3, <1>4, <1>7
<1>9. QED  BY <1>1, <1>2, <1>6, <1>8, OpenBooks

(* What everybody sees and the blocks in use, when neither changes.        *)
LEMMA StillSums ==
    ASSUME BaseInv, UNCHANGED <<chunk, hold, msources, saved>>, NEW s \in Source
    PROVE  /\ Shared(s)' = Shared(s) /\ LiveBlocks(s)' = LiveBlocks(s)
           /\ Shared(s) \in Nat /\ Cardinality(LiveBlocks(s)) \in Nat
<1>1. Shared(s)' = Shared(s)
  BY QuietShared
<1>2. LiveBlocks(s)' = LiveBlocks(s)
  BY DEF LiveBlocks
<1>3. QED  BY <1>1, <1>2, NumbersHold DEF Numbers

(* The parts of a thread's storage that refer to a source.                 *)
LEMMA StorageParts ==
    ASSUME BaseInv, NEW t \in Thread, NEW s \in Source
    PROVE  /\ tls[t].state = "none" => Storage(t, s) = 0
           /\ tls[t].state # "none" => Storage(t, s) = One(s = GlobalSource) + One(current[t] = s)
                                                       + One(tls[t].own = s) + InStack(tls[t].stack, s)
           /\ InStack(tls[t].stack, s) \in Nat
           /\ One(s = GlobalSource) = One(GlobalSource = s)
           /\ \A x : One(x = s) \in {0, 1}
           /\ One(None = s) = 0 /\ InStack(<<>>, s) = 0
<1>1. tls[t].stack \in Seq(PlaceType(Born))
  BY PlaceListTypes DEF BaseInv
<1>2. InStack(tls[t].stack, s) \in Nat /\ InStack(<<>>, s) = 0
  BY <1>1, InStackFacts
<1>3. One(s = GlobalSource) = One(GlobalSource = s) /\ \A x : One(x = s) \in {0, 1}
  BY OneType DEF One
<1>4. QED  BY <1>2, <1>3, NoneIsNoSource DEF Storage

(* A thread's storage is constructed with two references to the global
   source.                                                                 *)
LEMMA ConstructKeeps ==
    ASSUME BaseInv, BaseInv', NEW t \in Thread, construct(t), NEW s \in Source
    PROVE  Books(t, s, 0, 0)
<1>1. todo[t] # <<>> /\ Call(t).op = "construct" /\ pc[t] = "start" /\ t \in DOMAIN todo /\ t \in DOMAIN pc
      /\ t \in DOMAIN tls
  BY DEF BaseInv, TypeInv, Typed, construct, At
<1>2. UNCHANGED <<source, chunk, hold, msources, saved, current>>
  BY DEF construct
<1>3. tls[t] = NoStorage /\ current[t] = GlobalSource
  <2>1. Has(t, "construct")
    BY <1>1, HeadAndTail DEF BaseInv, Has
  <2>2. QED  BY <2>1 DEF BaseInv, TlsInv, TlsOf
<1>4. tls'[t].state = "constructed" /\ tls'[t].own = tls[t].own /\ tls'[t].stack = tls[t].stack
  BY <1>1, <1>3 DEF construct, NoStorage
<1>5. Storage(t, s) = 0 /\ Storage(t, s)' = One(GlobalSource = s) + One(GlobalSource = s)
  <2>1. tls[t].state = "none" /\ tls[t].own = None /\ tls[t].stack = <<>>
    BY <1>3 DEF NoStorage
  <2>2. Storage(t, s)' = One(s = GlobalSource) + One(current'[t] = s) + One(tls'[t].own = s) + InStack(tls'[t].stack, s)
    BY <1>4 DEF Storage
  <2>3. One(current'[t] = s) = One(GlobalSource = s) /\ One(tls'[t].own = s) = 0 /\ InStack(tls'[t].stack, s) = 0
    BY <1>2, <1>3, <1>4, <2>1, StorageParts
  <2>4. One(s = GlobalSource) = One(GlobalSource = s) /\ Storage(t, s) = 0
    BY <2>1, StorageParts
  <2>5. One(GlobalSource = s) \in Int
    BY OneType
  <2>6. QED  BY <2>2, <2>3, <2>4, <2>5
<1>6. PICK calls : calls = <<Ref(GlobalSource), Ref(GlobalSource)>>
  OBVIOUS
<1>7. calls \in Seq(AnyCall)
  BY <1>6, PlaceAssumption, AnyCallsAreTyped, ShortLists DEF BaseInv
<1>8. todo'[t] = calls \o Tail(todo[t]) /\ pc'[t] = "start"
  BY <1>1, <1>6 DEF construct, Then
<1>9. Weight(calls, s) = -One(GlobalSource = s) - One(GlobalSource = s) /\ Freeing(calls, s) = 0
  BY <1>6, RefWeights
<1>10. Worth(Call(t), s) = 0 /\ Frees(Call(t), s) = 0
  BY <1>1 DEF Worth, Frees
<1>11. /\ Shared(s)' + Storage(t, s)' + Weight(calls, s) = Shared(s) + Storage(t, s) + Worth(Call(t), s)
       /\ Cardinality(LiveBlocks(s))' + Freeing(calls, s) = Cardinality(LiveBlocks(s)) + Frees(Call(t), s)
  <2>1. /\ Shared(s)' = Shared(s) /\ LiveBlocks(s)' = LiveBlocks(s)
        /\ Shared(s) \in Nat /\ Cardinality(LiveBlocks(s)) \in Nat
    BY <1>2, StillSums
  <2>2. One(GlobalSource = s) \in Int
    BY OneType
  <2>3. QED  BY <1>5, <1>9, <1>10, <2>1, <2>2
<1>12. QED  BY <1>1, <1>2, <1>7, <1>8, <1>11, CallBooks

(* It gets a source of its own.                                            *)
LEMMA InitKeeps ==
    ASSUME BaseInv, BaseInv', CountInv, NEW t \in Thread, init(t), NEW s \in Source
    PROVE  Books(t, s, 0, 0)
<1>1. todo[t] # <<>> /\ Call(t).op = "init" /\ pc[t] = "start" /\ t \in DOMAIN todo /\ t \in DOMAIN pc
      /\ t \in DOMAIN tls
  BY DEF BaseInv, TypeInv, Typed, init, At
<1>2. UNCHANGED <<chunk, hold, msources, saved, current>> /\ CreateSource(HomeOf[t]) /\ HomeOf[t] \in Physical
  BY PlaceAssumption DEF init
<1>3. tls[t].state = "constructed" /\ tls[t].own = None
  <2>1. Ops(todo[t]) = {"init"} \cup Ops(Tail(todo[t])) /\ Ops(Tail(todo[t])) \subseteq AfterCall("init")
    BY <1>1, HeadAndTail DEF BaseInv
  <2>2. "construct" \notin AfterCall("init")
    BY DEF AfterCall
  <2>3. Has(t, "init") /\ ~Has(t, "construct")
    BY <2>1, <2>2 DEF Has
  <2>4. QED  BY <2>3 DEF BaseInv, TlsInv, TlsOf
<1>4. PICK new : new = Fresh
  OBVIOUS
<1>5. new \in Source
  BY <1>2, <1>4, CreateTypes DEF BaseInv
<1>6. tls'[t].state = "done" /\ tls'[t].own = new /\ tls'[t].stack = tls[t].stack
  <2>1. tls \in [Thread -> TlsType(Born, DOMAIN chunk)]
    BY DEF BaseInv, TypeInv, Typed
  <2>2. QED  BY <1>1, <1>4, <2>1 DEF init, TlsType
<1>7. Storage(t, s)' = Storage(t, s) + One(new = s)
  <2>1. Storage(t, s)' = One(s = GlobalSource) + One(current'[t] = s) + One(tls'[t].own = s) + InStack(tls'[t].stack, s)
    BY <1>6 DEF Storage
  <2>2. Storage(t, s) = One(s = GlobalSource) + One(current[t] = s) + One(None = s) + InStack(tls[t].stack, s)
    BY <1>3, StorageParts
  <2>3. Storage(t, s)' = One(s = GlobalSource) + One(current[t] = s) + One(new = s) + InStack(tls[t].stack, s)
    BY <1>2, <1>6, <2>1
  <2>4. /\ One(s = GlobalSource) \in Int /\ One(current[t] = s) \in Int /\ One(new = s) \in Int
        /\ One(None = s) = 0 /\ InStack(tls[t].stack, s) \in Int
    BY OneType, StorageParts
  <2>5. QED  BY <2>2, <2>3, <2>4
<1>8. PICK calls : calls = <<FirstRef(new), Ref(new), Unref(new)>>
  OBVIOUS
<1>9. calls \in Seq(AnyCall)
  BY <1>5, <1>8, AnyCallsAreTyped, ShortLists DEF BaseInv
<1>10. todo'[t] = calls \o Tail(todo[t]) /\ pc'[t] = "start"
  BY <1>1, <1>4, <1>8 DEF init, Then
<1>11. Weight(calls, s) = -One(new = s) /\ Freeing(calls, s) = 0
  BY <1>8, RefWeights
<1>12. Worth(Call(t), s) = 0 /\ Frees(Call(t), s) = 0
  BY <1>1 DEF Worth, Frees
<1>13. Storage(t, s) \in Nat
  BY NumbersHold DEF Numbers
<1>14. /\ Shared(s)' + Storage(t, s)' + Weight(calls, s) = Shared(s) + Storage(t, s) + Worth(Call(t), s)
       /\ Cardinality(LiveBlocks(s))' + Freeing(calls, s) = Cardinality(LiveBlocks(s)) + Frees(Call(t), s)
  <2>1. /\ Shared(s)' = Shared(s) /\ LiveBlocks(s)' = LiveBlocks(s)
        /\ Shared(s) \in Nat /\ Cardinality(LiveBlocks(s)) \in Nat
    BY <1>2, StillSums
  <2>2. One(new = s) \in Int
    BY OneType
  <2>3. QED  BY <1>7, <1>11, <1>12, <1>13, <2>1, <2>2
<1>15. source'[s].blocks = source[s].blocks
  BY <1>2, CreateKeepsWords
<1>16. QED  BY <1>1, <1>9, <1>10, <1>14, <1>15, CallBooks

(* The current source is replaced, if it is another one.                   *)
LEMMA SetCurrentKeeps ==
    ASSUME BaseInv, BaseInv', NEW t \in Thread, setCurrent(t), NEW s \in Source
    PROVE  Books(t, s, 0, 0)
<1> DEFINE new == get_curr_msource(t)  old == current[t]
<1>1. todo[t] # <<>> /\ Call(t).op = "curr" /\ pc[t] = "start" /\ t \in DOMAIN todo /\ t \in DOMAIN pc
      /\ t \in DOMAIN current
  BY DEF BaseInv, TypeInv, Typed, setCurrent, At
<1>2. UNCHANGED <<source, chunk, hold, msources, saved, tls>>
  BY DEF setCurrent, placeVars
<1>3. CASE new = None
  <2>1. todo'[t] = todo[t] /\ pc'[t] = "lock" /\ current' = current
    BY <1>1, <1>3 DEF setCurrent, Goto
  <2>2. FlatRest(t)
    BY <1>2, <2>1 DEF FlatRest
  <2>3. EndsOne(t)' <=> EndsOne(t)
    BY <1>1, <2>1 DEF EndsOne
  <2>4. QED  BY <2>1, <2>2, <2>3, FlatStayBooks
<1>4. CASE new # None
  <2>1. new \in Source /\ old \in Source
    BY <1>4, PlaceSourceTypes DEF BaseInv, TypeInv, Typed, Born
  <2>2. PICK calls : calls = IF new = old THEN <<>> ELSE <<Ref(new), Unref(old)>>
    OBVIOUS
  <2>3. current'[t] = new /\ todo'[t] = calls \o Tail(todo[t]) /\ pc'[t] = "start"
    BY <1>1, <1>4, <2>2 DEF setCurrent, Then
  <2> HIDE DEF new, old
  <2>4. calls \in Seq(AnyCall)
    <3>1. Ref(new) \in AnyCall /\ Unref(old) \in AnyCall
      BY <2>1, AnyCallsAreTyped DEF BaseInv
    <3>2. QED  BY <2>2, <3>1, ShortLists
  <2>5. tls[t].state = "done"
    <3>1. Ops(todo[t]) = {"curr"} \cup Ops(Tail(todo[t])) /\ Ops(Tail(todo[t])) \subseteq AfterCall("curr")
      BY <1>1, HeadAndTail DEF BaseInv
    <3>2. "init" \notin AfterCall("curr")
      BY DEF AfterCall
    <3>3. Has(t, "curr") /\ ~Has(t, "init")
      BY <3>1, <3>2 DEF Has
    <3>4. QED  BY <3>3 DEF BaseInv, TlsInv, TlsOf
  <2>6. Storage(t, s)' = Storage(t, s) - One(old = s) + One(new = s)
    <3>1. Storage(t, s)' = One(s = GlobalSource) + One(new = s) + One(tls[t].own = s) + InStack(tls[t].stack, s)
      BY <1>2, <2>3, <2>5 DEF Storage
    <3>2. Storage(t, s) = One(s = GlobalSource) + One(old = s) + One(tls[t].own = s) + InStack(tls[t].stack, s)
      BY <2>5, StorageParts DEF old
    <3>3. /\ One(s = GlobalSource) \in Int /\ One(old = s) \in Int /\ One(new = s) \in Int
          /\ One(tls[t].own = s) \in Int /\ InStack(tls[t].stack, s) \in Int
      BY OneType, StorageParts
    <3>4. QED  BY <3>1, <3>2, <3>3
  <2>7. Weight(calls, s) = One(old = s) - One(new = s) /\ Freeing(calls, s) = 0
    <3>1. CASE new = old
      <4>1. Weight(calls, s) = 0 /\ Freeing(calls, s) = 0
        BY <2>2, <3>1, WeightEmpty
      <4>2. One(old = s) = One(new = s) /\ One(old = s) \in Int
        BY <3>1, OneType
      <4>3. QED  BY <4>1, <4>2
    <3>2. CASE new # old
      BY <2>2, <3>2, RefWeights
    <3>3. QED  BY <3>1, <3>2
  <2>8. Worth(Call(t), s) = 0 /\ Frees(Call(t), s) = 0
    BY <1>1 DEF Worth, Frees
  <2>9. Storage(t, s) \in Nat
    BY NumbersHold DEF Numbers
  <2>10. /\ Shared(s)' + Storage(t, s)' + Weight(calls, s) = Shared(s) + Storage(t, s) + Worth(Call(t), s)
         /\ Cardinality(LiveBlocks(s))' + Freeing(calls, s) = Cardinality(LiveBlocks(s)) + Frees(Call(t), s)
    <3>1. /\ Shared(s)' = Shared(s) /\ LiveBlocks(s)' = LiveBlocks(s)
          /\ Shared(s) \in Nat /\ Cardinality(LiveBlocks(s)) \in Nat
      BY <1>2, StillSums
    <3>2. One(new = s) \in Int /\ One(old = s) \in Int
      BY OneType
    <3>3. QED  BY <2>6, <2>7, <2>8, <2>9, <3>1, <3>2
  <2>11. QED  BY <1>1, <1>2, <2>3, <2>4, <2>10, CallBooks
<1>5. QED  BY <1>3, <1>4

(* A list of calls that counts for nothing is put before the others.       *)
LEMMA RecheckLocalKeeps ==
    ASSUME BaseInv, BaseInv', CountInv, NEW t \in Thread, recheckLocal(t), NEW s \in Source
    PROVE  Books(t, s, 0, 0)
<1>1. todo[t] # <<>> /\ Call(t).op = "curr" /\ pc[t] = "recheck" /\ t \in DOMAIN todo /\ t \in DOMAIN pc
      /\ todo[t] \in Seq(AnyCall)
  <2>1. todo[t] # <<>> /\ Call(t).op = "curr" /\ pc[t] = "recheck" /\ t \in DOMAIN todo /\ t \in DOMAIN pc
    BY DEF BaseInv, TypeInv, Typed, recheckLocal, At
  <2>2. QED  BY <2>1, HeadAndTail DEF BaseInv
<1>2. UNCHANGED <<chunk, hold, msources, saved, tls, current>>
  BY DEF recheckLocal, placeVars
<1> DEFINE n == Last(tls[t].stack).node  there == msources[HomeOf[t]][n] # None
<1>3. n \in Physical
  <2>1. tls[t].stack # <<>> /\ Last(tls[t].stack).msource = None
    BY DEF recheckLocal, BaseInv, TlsInv, TlsOf
  <2>2. QED  BY <2>1, PlaceSourceTypes DEF BaseInv
<1>4. there \/ CreateSource(n)
  BY DEF recheckLocal
<1>5. PICK new : new = Fresh
  OBVIOUS
<1>6. there \/ new \in Source
  BY <1>2, <1>3, <1>4, <1>5, CreateTypes DEF BaseInv
<1>7. PICK calls : calls = IF there THEN <<UnlockLocal>> ELSE <<FirstRef(new), PublishLocal(new, n), UnlockLocal>>
  OBVIOUS
<1>8. todo'[t] = calls \o todo[t] /\ pc'[t] = "start" /\ (there => UNCHANGED source)
  BY <1>1, <1>5, <1>7 DEF recheckLocal
<1>9. source'[s].blocks = source[s].blocks
  <2>1. CASE there
    BY <1>8, <2>1
  <2>2. CASE ~there
    BY <1>3, <1>4, <2>2, CreateKeepsWords
  <2>3. QED  BY <2>1, <2>2
<1> HIDE DEF n, there
<1>10. calls \in Seq(AnyCall)
  <2>1. /\ UnlockLocal \in AnyCall
        /\ there \/ (FirstRef(new) \in AnyCall /\ PublishLocal(new, n) \in AnyCall)
    BY <1>3, <1>6, AnyCallsAreTyped DEF BaseInv
  <2>2. QED  BY <1>7, <2>1, ShortLists
<1>11. Weight(calls, s) = 0 /\ Freeing(calls, s) = 0
  <2>1. CASE there
    <3>1. UnlockLocal.op = "unlock_local"
      BY DEF UnlockLocal
    <3>2. Worth(UnlockLocal, s) = 0 /\ Frees(UnlockLocal, s) = 0
      BY <3>1 DEF Worth, Frees
    <3>3. QED  BY <1>7, <2>1, <3>2, WeightOne
  <2>2. CASE ~there
    BY <1>7, <2>2, RefWeights
  <2>3. QED  BY <2>1, <2>2
<1>12. Coming(t) = todo[t] /\ Coming(t)' = calls \o todo[t]
  BY <1>1, <1>8 DEF Coming, EndsOne
<1>13. Weight(Coming(t), s)' = Weight(Coming(t), s) /\ Released(t, s)' = Released(t, s)
  <2>1. /\ Weight(calls \o todo[t], s) = Weight(calls, s) + Weight(todo[t], s)
        /\ Freeing(calls \o todo[t], s) = Freeing(calls, s) + Freeing(todo[t], s)
    BY <1>1, <1>10, WeightConcat
  <2>2. Weight(todo[t], s) \in Int /\ Freeing(todo[t], s) \in Int
    BY <1>1, WeightType
  <2>3. /\ Weight(Coming(t), s) = Weight(todo[t], s) /\ Weight(Coming(t), s)' = Weight(calls \o todo[t], s)
        /\ Released(t, s) = Freeing(todo[t], s) /\ Released(t, s)' = Freeing(calls \o todo[t], s)
    BY <1>12 DEF Released, Weight, Freeing, CountOf
  <2>4. QED  BY <1>11, <2>1, <2>2, <2>3
<1>14. Storage(t, s)' = Storage(t, s)
  BY <1>2, SameStorage
<1>15. RefsEven(t, s) /\ BlocksEven(t, s)
  BY <1>2, <1>13, <1>14, StillSums DEF RefsEven, BlocksEven, Account
<1>16. QED  BY <1>9, <1>15, EvenBooks

(* What is published was not there, and is for another node.               *)
LEMMA PublishLocalKeeps ==
    ASSUME BaseInv, BaseInv', LocalInv, HomeInv, NEW t \in Thread, publishLocal(t), NEW s \in Source
    PROVE  Books(t, s, 0, 0)
<1>1. todo[t] # <<>> /\ Call(t).op = "publish_local" /\ pc[t] = "start" /\ t \in DOMAIN todo /\ t \in DOMAIN pc
  BY DEF BaseInv, TypeInv, Typed, publishLocal, At
<1>2. UNCHANGED <<source, chunk, hold, saved, tls, current>>
  BY DEF publishLocal, sourceVarsButCalls
<1>3. PICK c : c = Call(t)
  OBVIOUS
<1>4. PICK h : h = HomeOf[t]
  OBVIOUS
<1>5. c \in CallType(Born, DOMAIN chunk) /\ c.op = "publish_local" /\ h \in Physical
  BY <1>1, <1>3, <1>4, CallInHand, PlaceAssumption DEF BaseInv
<1>6. c.node \in Physical
  BY <1>5, CallFields
<1>7. msources[h][c.node] = None
  <2>1. c \in Range(todo[t])
    BY <1>1, <1>3, CallsOfList
  <2>2. c \in Publishes(t)
    BY <1>5, <2>1 DEF Publishes
  <2>3. QED  BY <1>4, <1>5, <2>2 DEF LocalInv
<1>8. h # c.node
  BY <1>5, <1>7 DEF HomeInv
<1>9. Shared(s)' = Shared(s) + One(c.s = s)
  <2>1. msources' = [msources EXCEPT ![h][c.node] = c.s]
    BY <1>3, <1>4 DEF publishLocal
  <2>2. PICK x : x = c.s
    OBVIOUS
  <2>3. PICK m : m = c.node
    OBVIOUS
  <2>4. /\ \A i, j \in Physical : msources'[i][j] = IF i = h /\ j = m THEN x ELSE msources[i][j]
        /\ m \in Physical /\ msources[h][m] = None /\ h # m
    BY <1>5, <1>6, <1>7, <1>8, <2>1, <2>2, <2>3 DEF BaseInv, TypeInv, Typed
  <2>5. Shared(s)' = Shared(s) + One(x = s)
    BY <1>2, <1>5, <2>4, PairsBooks
  <2>6. QED  BY <2>2, <2>5
<1>10. PICK calls : calls = <<>>
  OBVIOUS
<1>11. calls \in Seq(AnyCall) /\ todo'[t] = calls \o Tail(todo[t]) /\ pc'[t] = "start"
  BY <1>1, <1>10, ShortLists DEF publishLocal, Then
<1>12. Weight(calls, s) = 0 /\ Freeing(calls, s) = 0
  BY <1>10, WeightEmpty
<1>13. Worth(Call(t), s) = One(c.s = s) /\ Frees(Call(t), s) = 0
  BY <1>1, <1>3 DEF Worth, Frees, One
<1>14. LiveBlocks(s)' = LiveBlocks(s) /\ Storage(t, s)' = Storage(t, s)
  BY <1>2, SameStorage DEF LiveBlocks
<1>15. Shared(s) \in Nat /\ Storage(t, s) \in Nat /\ Cardinality(LiveBlocks(s)) \in Nat /\ One(c.s = s) \in Int
  BY NumbersHold, OneType DEF Numbers
<1>16. /\ Shared(s)' + Storage(t, s)' + Weight(calls, s) = Shared(s) + Storage(t, s) + Worth(Call(t), s)
       /\ Cardinality(LiveBlocks(s))' + Freeing(calls, s) = Cardinality(LiveBlocks(s)) + Frees(Call(t), s)
  BY <1>9, <1>12, <1>13, <1>14, <1>15
<1>17. QED  BY <1>1, <1>2, <1>11, <1>16, CallBooks

(* The stack of a thread changes.                                          *)
LEMMA StackStorage ==
    ASSUME BaseInv, BaseInv', NEW t \in Thread, tls[t].state # "none", tls'[t].state = tls[t].state,
           tls'[t].own = tls[t].own, current'[t] = current[t], NEW s \in Source
    PROVE  /\ Storage(t, s)' = Storage(t, s) - InStack(tls[t].stack, s) + InStack(tls'[t].stack, s)
           /\ InStack(tls[t].stack, s) \in Nat /\ InStack(tls'[t].stack, s) \in Nat /\ Storage(t, s) \in Nat
<1>1. Storage(t, s)' = One(s = GlobalSource) + One(current[t] = s) + One(tls[t].own = s) + InStack(tls'[t].stack, s)
  BY DEF Storage
<1>2. Storage(t, s) = One(s = GlobalSource) + One(current[t] = s) + One(tls[t].own = s) + InStack(tls[t].stack, s)
  BY StorageParts
<1>3. InStack(tls'[t].stack, s) \in Nat
  <2>1. tls'[t].stack \in Seq(PlaceType(Born'))
    <3>1. tls' \in [Thread -> TlsType(Born', DOMAIN chunk')]
      BY DEF BaseInv, TypeInv, Typed
    <3>2. QED  BY <3>1 DEF TlsType
  <2> DEFINE q == tls'[t].stack  S == Born'
  <2>2. q \in Seq(PlaceType(S))
    BY <2>1
  <2> HIDE DEF q, S
  <2>3. InStack(q, s) \in Nat
    BY <2>2, InStackFacts
  <2>4. QED  BY <2>3 DEF q
<1>4. /\ One(s = GlobalSource) \in {0, 1} /\ One(current[t] = s) \in {0, 1} /\ One(tls[t].own = s) \in {0, 1}
      /\ InStack(tls[t].stack, s) \in Nat
  BY OneType, StorageParts
<1>5. QED  BY <1>1, <1>2, <1>3, <1>4

(* The calls that count for nothing alone.                                 *)
LEMMA FlatCalls ==
    ASSUME NEW s
    PROVE  /\ Weight(<<SetCurrent>>, s) = 0 /\ Freeing(<<SetCurrent>>, s) = 0
           /\ \A k : Weight(<<Unlock(k)>>, s) = 0 /\ Freeing(<<Unlock(k)>>, s) = 0
<1>1. SetCurrent.op = "curr" /\ \A k : Unlock(k).op = "unlock_task"
  BY CallNames
<1>2. Worth(SetCurrent, s) = 0 /\ Frees(SetCurrent, s) = 0
  BY <1>1 DEF Worth, Frees
<1>3. ASSUME NEW k PROVE Weight(<<Unlock(k)>>, s) = 0 /\ Freeing(<<Unlock(k)>>, s) = 0
  <2>1. Worth(Unlock(k), s) = 0 /\ Frees(Unlock(k), s) = 0
    BY <1>1 DEF Worth, Frees
  <2>2. QED  BY <2>1, WeightOne
<1>4. QED  BY <1>2, <1>3, WeightOne

(* The references a copy of places takes, and those it gives back.         *)
LEMMA CopyWeight ==
    ASSUME BaseInv, NEW p \in Seq(PlaceType(Born)), NEW s \in Source
    PROVE  /\ RefAll(p) \in Seq(AnyCall) /\ UnrefAll(p) \in Seq(AnyCall) /\ <<SetCurrent>> \in Seq(AnyCall)
           /\ Weight(RefAll(p), s) = -InStack(p, s) /\ Weight(UnrefAll(p), s) = InStack(p, s)
           /\ Freeing(RefAll(p), s) = 0 /\ Freeing(UnrefAll(p), s) = 0
           /\ Weight(<<SetCurrent>>, s) = 0 /\ Freeing(<<SetCurrent>>, s) = 0
           /\ InStack(p, s) \in Nat
<1>1. Born \in SUBSET Source
  BY DEF Born
<1>2. /\ Weight(RefAll(p), s) = -InStack(p, s) /\ Weight(UnrefAll(p), s) = InStack(p, s)
      /\ Freeing(RefAll(p), s) = 0 /\ Freeing(UnrefAll(p), s) = 0
  BY <1>1, RefListWeight
<1>3. InStack(p, s) \in Nat
  BY InStackFacts
<1>4. RefAll(p) \in Seq(AnyCall) /\ UnrefAll(p) \in Seq(AnyCall)
  BY RefLists DEF BaseInv
<1>5. <<SetCurrent>> \in Seq(AnyCall)
  BY AnyCallsAreTyped, ShortLists DEF BaseInv
<1>6. QED  BY <1>2, <1>3, <1>4, <1>5, FlatCalls

(* push takes a reference for the place.                                   *)
LEMMA PushKeeps ==
    ASSUME BaseInv, BaseInv', NEW t \in Thread, push(t), NEW s \in Source
    PROVE  Books(t, s, 0, 0)
<1>1. todo[t] = <<>> /\ pc[t] = "start" /\ t \in DOMAIN todo /\ t \in DOMAIN tls /\ tls[t].state = "done"
  BY DEF BaseInv, PcInv, TypeInv, Typed, push, Begins, NeedsTls
<1>2. UNCHANGED <<source, chunk, hold, msources, saved, current>>
  BY DEF push, sourceVarsButCalls
<1>3. PICK p : p = PlaceOf(Op(t).place)
  OBVIOUS
<1>4. p \in PlaceType(Born) /\ <<p>> \in Seq(PlaceType(Born))
  BY <1>3, PushedPlace DEF BaseInv
<1>5. PICK l1 : l1 = RefAll(<<p>>)
  OBVIOUS
<1>6. PICK l2 : l2 = <<SetCurrent>>
  OBVIOUS
<1>7. PICK calls : calls = l1 \o l2
  OBVIOUS
<1>8. todo'[t] = calls /\ pc'[t] = "start"
  BY <1>1, <1>3, <1>5, <1>6, <1>7 DEF push, Begin
<1>9. /\ l1 \in Seq(AnyCall) /\ l2 \in Seq(AnyCall) /\ InStack(<<p>>, s) \in Nat
      /\ Weight(l1, s) = -InStack(<<p>>, s) /\ Weight(l2, s) = 0
      /\ Freeing(l1, s) = 0 /\ Freeing(l2, s) = 0
  BY <1>4, <1>5, <1>6, CopyWeight
<1>10. Weight(calls, s) = -InStack(<<p>>, s) /\ Freeing(calls, s) = 0
  <2>1. Weight(calls, s) = Weight(l1, s) + Weight(l2, s) /\ Freeing(calls, s) = Freeing(l1, s) + Freeing(l2, s)
    BY <1>7, <1>9, WeightConcat
  <2>2. QED  BY <1>9, <2>1
<1>11. Storage(t, s)' = Storage(t, s) + InStack(<<p>>, s) /\ Storage(t, s) \in Nat
  <2>1. /\ tls'[t].state = tls[t].state /\ tls'[t].own = tls[t].own
        /\ tls'[t].stack = Append(tls[t].stack, p)
    <3>1. tls \in [Thread -> TlsType(Born, DOMAIN chunk)]
      BY DEF BaseInv, TypeInv, Typed
    <3>2. QED  BY <1>3, <3>1 DEF push, TlsType
  <2>2. PICK old : old = tls[t].stack
    OBVIOUS
  <2>3. old \in Seq(PlaceType(Born))
    BY <2>2, PlaceListTypes DEF BaseInv
  <2>4. InStack(Append(old, p), s) = InStack(old, s) + InStack(<<p>>, s)
    BY ONLY <1>4, <2>3, StackGrows
  <2>5. /\ Storage(t, s)' = Storage(t, s) - InStack(tls[t].stack, s) + InStack(tls'[t].stack, s)
        /\ InStack(tls[t].stack, s) \in Nat /\ Storage(t, s) \in Nat
    BY <1>1, <1>2, <2>1, StackStorage
  <2>6. InStack(tls'[t].stack, s) = InStack(tls[t].stack, s) + InStack(<<p>>, s)
    BY <2>1, <2>2, <2>4
  <2>7. QED  BY <1>9, <2>5, <2>6
<1>12. /\ Shared(s)' + Storage(t, s)' + Weight(calls, s) = Shared(s) + Storage(t, s)
       /\ Cardinality(LiveBlocks(s))' + Freeing(calls, s) = Cardinality(LiveBlocks(s))
  <2>1. /\ Shared(s)' = Shared(s) /\ LiveBlocks(s)' = LiveBlocks(s)
        /\ Shared(s) \in Nat /\ Cardinality(LiveBlocks(s)) \in Nat
    BY <1>2, StillSums
  <2>2. QED  BY <1>9, <1>10, <1>11, <2>1
<1>13. QED  BY <1>1, <1>2, <1>8, <1>12, OpenBooks

(* pop copies the place, drops the one on the stack, and then the copy.    *)
LEMMA PopKeeps ==
    ASSUME BaseInv, BaseInv', NEW t \in Thread, pop(t), NEW s \in Source
    PROVE  Books(t, s, 0, 0)
<1>1. /\ todo[t] = <<>> /\ pc[t] = "start" /\ t \in DOMAIN todo /\ t \in DOMAIN tls /\ tls[t].state = "done"
      /\ tls[t].stack # <<>>
  BY DEF BaseInv, PcInv, TypeInv, Typed, pop, Begins, NeedsTls
<1>2. UNCHANGED <<source, chunk, hold, msources, saved, current>>
  BY DEF pop, sourceVarsButCalls
<1>3. PICK p : p = <<Last(tls[t].stack)>>
  OBVIOUS
<1>4. p \in Seq(PlaceType(Born))
  BY <1>1, <1>3, PlaceListTypes DEF BaseInv
<1>5. PICK refs1, drops, last : refs1 = RefAll(p) /\ drops = UnrefAll(p) /\ last = <<SetCurrent>>
  OBVIOUS
<1>6. PICK l1 : l1 = refs1 \o drops
  OBVIOUS
<1>a. PICK l2 : l2 = l1 \o last
  OBVIOUS
<1>b. PICK calls : calls = l2 \o drops
  OBVIOUS
<1>8. todo'[t] = calls /\ pc'[t] = "start"
  BY <1>1, <1>3, <1>5, <1>6, <1>a, <1>b DEF pop, Begin
<1>9. /\ refs1 \in Seq(AnyCall) /\ drops \in Seq(AnyCall) /\ last \in Seq(AnyCall) /\ InStack(p, s) \in Nat
      /\ Weight(refs1, s) = -InStack(p, s) /\ Weight(drops, s) = InStack(p, s) /\ Weight(last, s) = 0
      /\ Freeing(refs1, s) = 0 /\ Freeing(drops, s) = 0 /\ Freeing(last, s) = 0
  BY <1>4, <1>5, CopyWeight
<1>c. refs1 \in Seq(AnyCall) /\ drops \in Seq(AnyCall) /\ last \in Seq(AnyCall)
  BY ONLY <1>9
<1>10. Weight(calls, s) = InStack(p, s) /\ Freeing(calls, s) = 0
  <2>1. l1 \in Seq(AnyCall)
    BY <1>6, <1>c, ConcatFacts
  <2>1w. /\ Weight(l1, s) = Weight(refs1, s) + Weight(drops, s)
        /\ Freeing(l1, s) = Freeing(refs1, s) + Freeing(drops, s)
    BY <1>6, <1>c, WeightConcat
  <2>2. l2 \in Seq(AnyCall)
    BY <1>a, <1>c, <2>1, ConcatFacts
  <2>2w. /\ Weight(l2, s) = Weight(l1, s) + Weight(last, s)
        /\ Freeing(l2, s) = Freeing(l1, s) + Freeing(last, s)
    BY <1>a, <1>c, <2>1, WeightConcat
  <2>3. /\ Weight(calls, s) = Weight(l2, s) + Weight(drops, s)
        /\ Freeing(calls, s) = Freeing(l2, s) + Freeing(drops, s)
    BY <1>b, <1>c, <2>2, WeightConcat
  <2>4. QED  BY <1>9, <2>1w, <2>2w, <2>3
<1>11. Storage(t, s)' = Storage(t, s) - InStack(p, s) /\ Storage(t, s) \in Nat
  <2>1. /\ tls'[t].state = tls[t].state /\ tls'[t].own = tls[t].own
        /\ tls'[t].stack = Front(tls[t].stack)
    <3>1. tls \in [Thread -> TlsType(Born, DOMAIN chunk)]
      BY DEF BaseInv, TypeInv, Typed
    <3>2. QED  BY <3>1 DEF pop, TlsType
  <2>2. PICK old : old = tls[t].stack
    OBVIOUS
  <2>3. old \in Seq(PlaceType(Born)) /\ old # <<>>
    BY <1>1, <2>2, PlaceListTypes DEF BaseInv
  <2>4. InStack(old, s) = InStack(Front(old), s) + InStack(<<Last(old)>>, s)
    BY <2>3, InStackFacts
  <2>5. /\ Storage(t, s)' = Storage(t, s) - InStack(tls[t].stack, s) + InStack(tls'[t].stack, s)
        /\ InStack(tls'[t].stack, s) \in Nat /\ Storage(t, s) \in Nat
    BY <1>1, <1>2, <2>1, StackStorage
  <2>6. InStack(tls[t].stack, s) = InStack(tls'[t].stack, s) + InStack(p, s)
    BY <1>3, <2>1, <2>2, <2>4
  <2>7. QED  BY <1>9, <2>5, <2>6
<1>12. /\ Shared(s)' + Storage(t, s)' + Weight(calls, s) = Shared(s) + Storage(t, s)
       /\ Cardinality(LiveBlocks(s))' + Freeing(calls, s) = Cardinality(LiveBlocks(s))
  <2>1. /\ Shared(s)' = Shared(s) /\ LiveBlocks(s)' = LiveBlocks(s)
        /\ Shared(s) \in Nat /\ Cardinality(LiveBlocks(s)) \in Nat
    BY <1>2, StillSums
  <2>2. QED  BY <1>9, <1>10, <1>11, <2>1
<1>13. QED  BY <1>1, <1>2, <1>8, <1>12, OpenBooks

(* push_all takes references for the places of a task and drops the task's
   copies.                                                                 *)
LEMMA PushAllKeeps ==
    ASSUME BaseInv, BaseInv', NEW t \in Thread, push_all(t), NEW s \in Source
    PROVE  Books(t, s, 0, 0)
<1>1. todo[t] = <<>> /\ pc[t] = "start" /\ t \in DOMAIN todo /\ t \in DOMAIN tls /\ tls[t].state = "done"
  BY DEF BaseInv, PcInv, TypeInv, Typed, push_all, Begins, NeedsTls
<1>2. UNCHANGED <<source, chunk, hold, msources, current>>
  BY DEF push_all, sourceVarsButCalls
<1>3. PICK k : k = Op(t).task
  OBVIOUS
<1>a. k \in Task
  <2>1. Op(t) \in Operation /\ Op(t).op = "restore"
    BY BeginTypes DEF BaseInv, push_all
  <2>2. QED  BY <1>3, <2>1, OperationFields
<1>b. PICK p : p = saved[k].stack
  OBVIOUS
<1>4. p \in Seq(PlaceType(Born))
  BY <1>a, <1>b, PlaceListTypes DEF BaseInv
<1>5. PICK refs1, drops, last : refs1 = RefAll(p) /\ drops = UnrefAll(p) /\ last = <<SetCurrent>>
  OBVIOUS
<1>6. PICK l1 : l1 = refs1 \o last
  OBVIOUS
<1>7. PICK calls : calls = l1 \o drops
  OBVIOUS
<1>8. todo'[t] = calls /\ pc'[t] = "start"
  BY <1>1, <1>3, <1>b, <1>5, <1>6, <1>7 DEF push_all, Begin
<1>9. /\ refs1 \in Seq(AnyCall) /\ drops \in Seq(AnyCall) /\ last \in Seq(AnyCall) /\ InStack(p, s) \in Nat
      /\ Weight(refs1, s) = -InStack(p, s) /\ Weight(drops, s) = InStack(p, s) /\ Weight(last, s) = 0
      /\ Freeing(refs1, s) = 0 /\ Freeing(drops, s) = 0 /\ Freeing(last, s) = 0
  BY <1>4, <1>5, CopyWeight
<1>d. refs1 \in Seq(AnyCall) /\ drops \in Seq(AnyCall) /\ last \in Seq(AnyCall)
  BY ONLY <1>9
<1>10. Weight(calls, s) = 0 /\ Freeing(calls, s) = 0
  <2>1. l1 \in Seq(AnyCall)
    BY <1>6, <1>d, ConcatFacts
  <2>1w. /\ Weight(l1, s) = Weight(refs1, s) + Weight(last, s)
        /\ Freeing(l1, s) = Freeing(refs1, s) + Freeing(last, s)
    BY <1>6, <1>d, WeightConcat
  <2>2. /\ Weight(calls, s) = Weight(l1, s) + Weight(drops, s)
        /\ Freeing(calls, s) = Freeing(l1, s) + Freeing(drops, s)
    BY <1>7, <1>d, <2>1, WeightConcat
  <2>3. QED  BY <1>9, <2>1w, <2>2
<1>11. Storage(t, s)' = Storage(t, s) + InStack(p, s) /\ Storage(t, s) \in Nat
  <2>1. /\ tls'[t].state = tls[t].state /\ tls'[t].own = tls[t].own
        /\ tls'[t].stack = tls[t].stack \o p
    <3>1. tls \in [Thread -> TlsType(Born, DOMAIN chunk)]
      BY DEF BaseInv, TypeInv, Typed
    <3>2. QED  BY <1>3, <1>b, <3>1 DEF push_all, TlsType
  <2>2. PICK old : old = tls[t].stack
    OBVIOUS
  <2>3. old \in Seq(PlaceType(Born))
    BY <2>2, PlaceListTypes DEF BaseInv
  <2>4. InStack(old \o p, s) = InStack(old, s) + InStack(p, s)
    BY ONLY <1>4, <2>3, StackJoins
  <2>5. /\ Storage(t, s)' = Storage(t, s) - InStack(tls[t].stack, s) + InStack(tls'[t].stack, s)
        /\ InStack(tls[t].stack, s) \in Nat /\ Storage(t, s) \in Nat
    BY <1>1, <1>2, <2>1, StackStorage
  <2>6. InStack(tls'[t].stack, s) = InStack(tls[t].stack, s) + InStack(p, s)
    BY <2>1, <2>2, <2>4
  <2>7. QED  BY <1>9, <2>5, <2>6
<1>c. Shared(s)' = Shared(s) - InStack(p, s)
  <2>1. saved \in [Task -> SavedType(Born, DOMAIN chunk)]
    BY DEF BaseInv, TypeInv, Typed
  <2>2. saved'[k].stack = <<>> /\ \A j \in Task \ {k} : saved'[j].stack = saved[j].stack
    BY <1>3, <1>a, <2>1 DEF push_all, SavedType
  <2>3. Shared(s)' = Shared(s) - InStack(saved[k].stack, s) + InStack(saved'[k].stack, s)
    BY <1>2, <1>a, <2>2, SavedBooks
  <2>4. InStack(saved'[k].stack, s) = 0
    BY <2>2, StorageParts
  <2>5. Shared(s) \in Nat
    BY NumbersHold DEF Numbers
  <2>6. QED  BY <1>b, <1>9, <2>3, <2>4, <2>5
<1>12. /\ Shared(s)' + Storage(t, s)' + Weight(calls, s) = Shared(s) + Storage(t, s)
       /\ Cardinality(LiveBlocks(s))' + Freeing(calls, s) = Cardinality(LiveBlocks(s))
  <2>1. LiveBlocks(s)' = LiveBlocks(s)
    BY <1>2 DEF LiveBlocks
  <2>2. Shared(s) \in Nat /\ Cardinality(LiveBlocks(s)) \in Nat
    BY NumbersHold DEF Numbers
  <2>3. QED  BY <1>9, <1>10, <1>11, <1>c, <2>1, <2>2
<1>13. QED  BY <1>1, <1>2, <1>8, <1>12, OpenBooks

(* The storage of a thread goes: each reference is given back once, and so *)
(* is its memory.                                                          *)
LEMMA ExitKeeps ==
    ASSUME BaseInv, BaseInv', BlockInv, NEW t \in Thread, Step(t), tlsDestructionFunc(t), NEW s \in Source
    PROVE  Books(t, s, 0, 0)
<1>1. todo[t] = <<>> /\ pc[t] = "start" /\ t \in DOMAIN todo /\ t \in DOMAIN tls
  BY DEF BaseInv, PcInv, TypeInv, Typed, tlsDestructionFunc, Begins
<1>2. UNCHANGED <<source, hold, msources, saved>>
  BY DEF tlsDestructionFunc
<1>3. PICK b : b = tls[t].block
  OBVIOUS
<1>4. chunk' = Given({b}) /\ tls'[t] = NoStorage
  BY <1>1, <1>3 DEF tlsDestructionFunc
<1>5. Storage(t, s)' = 0
  BY <1>4 DEF Storage, NoStorage
<1>6. Shared(s)' = Shared(s)
  BY <1>2, QuietShared
<1>7. Shared(s) \in Nat /\ Cardinality(LiveBlocks(s)) \in Nat /\ Storage(t, s) \in Nat
  BY NumbersHold DEF Numbers
<1>8. CASE tls[t].state = "none"
  <2>1. b = None /\ None \notin DOMAIN chunk
    BY <1>3, <1>8, InHandTypes
  <2>2. UsesKept
    BY <1>4, <2>1, GivenTypes DEF BaseInv, UsesKept
  <2>3. LiveBlocks(s)' = LiveBlocks(s)
    BY <2>2, SameBlocksLive
  <2>4. PICK calls : calls = <<>>
    OBVIOUS
  <2>5. todo'[t] = calls /\ pc'[t] = "start"
    BY <1>1, <1>8, <2>4 DEF tlsDestructionFunc, Begin
  <2>6. Weight(calls, s) = 0 /\ Freeing(calls, s) = 0
    BY <2>4, WeightEmpty
  <2>7. Storage(t, s) = 0
    BY <1>8, StorageParts
  <2>8. /\ Shared(s)' + Storage(t, s)' + Weight(calls, s) = Shared(s) + Storage(t, s)
        /\ Cardinality(LiveBlocks(s))' + Freeing(calls, s) = Cardinality(LiveBlocks(s))
    BY <1>5, <1>6, <1>7, <2>3, <2>6, <2>7
  <2>9. QED  BY <1>1, <1>2, <2>5, <2>8, OpenBooks
<1>9. CASE tls[t].state # "none"
  <2>1. b \in DOMAIN chunk /\ chunk[b].use = "storage"
    BY <1>3, <1>9, InHandTypes DEF BlockInv, StorageOf
  <2>2. Cardinality(LiveBlocks(s))' = Cardinality(LiveBlocks(s)) - One(chunk[b].source = s)
    <3>1. chunk'[b].use = "freed" /\ \A c \in DOMAIN chunk \ {b} : chunk'[c].use = chunk[c].use
      BY <1>4, <2>1, GivenUse
    <3>2. Cardinality(LiveBlocks(s))' = Cardinality(LiveBlocks(s))
               - One(chunk[b].source = s /\ chunk[b].use \notin {"none", "freed"})
               + One(chunk[b].source = s /\ chunk'[b].use \notin {"none", "freed"})
      BY <2>1, <3>1, OneBlockChanges
    <3>3. /\ One(chunk[b].source = s /\ chunk[b].use \notin {"none", "freed"}) = One(chunk[b].source = s)
          /\ One(chunk[b].source = s /\ chunk'[b].use \notin {"none", "freed"}) = 0
      BY <2>1, <3>1 DEF One
    <3>4. One(chunk[b].source = s) \in Int
      BY OneType
    <3>5. QED  BY <1>7, <3>2, <3>3, <3>4
  <2>3. PICK cur, own, p : cur = current[t] /\ own = tls[t].own /\ p = tls[t].stack
    OBVIOUS
  <2>4. /\ cur \in Source /\ own \in Source /\ p \in Seq(PlaceType(Born))
    <3>1. tls[t].own # None
      <4>1. ~Has(t, "init")
        BY <1>1, OpsFacts DEF Has
      <4>2. tls[t].state \in {"none", "constructed", "done"}
        BY TlsFields DEF BaseInv, TypeInv, Typed
      <4>3. QED  BY <1>9, <4>1, <4>2 DEF BaseInv, TlsInv, TlsOf
    <3>2. tls[t].own \in Born \cup {None} /\ current[t] \in Born
      BY TlsFields DEF BaseInv, TypeInv, Typed
    <3>3. QED  BY <2>3, <3>1, <3>2, PlaceListTypes DEF BaseInv, Born
  <2>5. PICK c0, c1, c2, c3 : c0 = Unref(cur) /\ c1 = Unref(GlobalSource) /\ c2 = Unref(own) /\ c3 = Dealloc(b)
    OBVIOUS
  <2>6. c0 \in AnyCall /\ c1 \in AnyCall /\ c2 \in AnyCall /\ c3 \in AnyCall
    BY <2>1, <2>4, <2>5, PlaceAssumption, AnyCallsAreTyped DEF BaseInv
  <2>7. /\ Worth(c0, s) = One(cur = s) /\ Worth(c1, s) = One(GlobalSource = s) /\ Worth(c2, s) = One(own = s)
        /\ Worth(c3, s) = 0
        /\ Frees(c0, s) = 0 /\ Frees(c1, s) = 0 /\ Frees(c2, s) = 0
        /\ Frees(c3, s) = One(chunk[b].source = s)
    <3>1. c0.op = "unref" /\ c1.op = "unref" /\ c2.op = "unref" /\ c3.op = "free"
      BY <2>5, CallNames
    <3>2. Frees(c0, s) = 0 /\ Frees(c1, s) = 0 /\ Frees(c2, s) = 0 /\ Worth(c3, s) = 0
      BY <3>1 DEF Frees, Worth
    <3>3. QED  BY <2>5, <3>2, WorthOfCalls
  <2>8. PICK first, drops, last : first = <<c0>> /\ drops = UnrefAll(p) /\ last = <<c1, c2, c3>>
    OBVIOUS
  <2>9. /\ first \in Seq(AnyCall) /\ Weight(first, s) = One(cur = s) /\ Freeing(first, s) = 0
    <3>1. first \in Seq(AnyCall)
      BY <2>6, <2>8, ShortLists
    <3>2. QED  BY <2>7, <2>8, <3>1, WeightOne
  <2>10. /\ drops \in Seq(AnyCall) /\ Weight(drops, s) = InStack(p, s) /\ Freeing(drops, s) = 0
         /\ InStack(p, s) \in Nat
    BY <2>4, <2>8, CopyWeight
  <2>11. /\ last \in Seq(AnyCall) /\ Weight(last, s) = One(GlobalSource = s) + One(own = s)
         /\ Freeing(last, s) = One(chunk[b].source = s)
    <3>1. last \in Seq(AnyCall)
      BY <2>6, <2>8, ShortLists
    <3>2. /\ Weight(last, s) = Worth(c1, s) + Worth(c2, s) + Worth(c3, s)
          /\ Freeing(last, s) = Frees(c1, s) + Frees(c2, s) + Frees(c3, s)
      BY <2>8, WeightThree
    <3>3. /\ One(GlobalSource = s) \in Int /\ One(own = s) \in Int /\ One(chunk[b].source = s) \in Int
      BY OneType
    <3>4. QED  BY <2>7, <3>1, <3>2, <3>3
  <2>12. PICK l1 : l1 = first \o drops
    OBVIOUS
  <2>13. PICK calls : calls = l1 \o last
    OBVIOUS
  <2>14. todo'[t] = calls /\ pc'[t] = "start"
    BY <1>1, <1>3, <1>9, <2>3, <2>5, <2>8, <2>12, <2>13 DEF tlsDestructionFunc, Begin
  <2>15. l1 \in Seq(AnyCall)
    BY <2>9, <2>10, <2>12, ConcatFacts
  <2>16. Weight(l1, s) = Weight(first, s) + Weight(drops, s) /\ Freeing(l1, s) = Freeing(first, s) + Freeing(drops, s)
    BY <2>9, <2>10, <2>12, WeightConcat
  <2>17. Weight(calls, s) = Weight(l1, s) + Weight(last, s) /\ Freeing(calls, s) = Freeing(l1, s) + Freeing(last, s)
    BY <2>11, <2>13, <2>15, WeightConcat
  <2>18. Storage(t, s) = One(GlobalSource = s) + One(cur = s) + One(own = s) + InStack(p, s)
    BY <1>9, <2>3, StorageParts
  <2>19. /\ One(GlobalSource = s) \in Int /\ One(cur = s) \in Int /\ One(own = s) \in Int /\ One(chunk[b].source = s) \in Int
    BY OneType
  <2>20. Shared(s)' + Storage(t, s)' + Weight(calls, s) = Shared(s) + Storage(t, s)
    BY ONLY <1>5, <1>6, <1>7, <2>9, <2>10, <2>11, <2>16, <2>17, <2>18, <2>19
  <2>21. Cardinality(LiveBlocks(s))' + Freeing(calls, s) = Cardinality(LiveBlocks(s))
    BY ONLY <1>7, <2>2, <2>9, <2>10, <2>11, <2>16, <2>17, <2>19
  <2>22. QED  BY <1>1, <1>2, <2>14, <2>20, <2>21, OpenBooks
<1>10. QED  BY <1>8, <1>9

(* A set loses the elements of a list of at most two.                      *)
LEMMA LosesOne ==
    ASSUME NEW A, IsFiniteSet(A), NEW a
    PROVE  /\ Cardinality(A \ {a}) = Cardinality(A) - One(a \in A) /\ Cardinality(A) \in Nat
           /\ IsFiniteSet(A \ {a})
<1>1. PICK B : B = A \ {a}
  OBVIOUS
<1>2. A \ {a} = B \ {a} /\ a \notin B
  BY <1>1
<1>3. IsFiniteSet(B)
  <2>1. B \subseteq A
    BY <1>1
  <2>2. QED  BY <2>1, FS_Subset
<1>4. Cardinality(B) = Cardinality(A) - One(a \in A) + One(a \in B) /\ Cardinality(A) \in Nat
  BY <1>2, <1>3, OneElement
<1>5. One(a \in B) = 0 /\ One(a \in A) \in Int
  BY <1>2, OneType DEF One
<1>6. QED  BY <1>1, <1>3, <1>4, <1>5

(* A set loses two elements.                                               *)
LEMMA LosesTwo ==
    ASSUME NEW A, IsFiniteSet(A), NEW a, NEW b, a # b
    PROVE  Cardinality(A \ {a, b}) = Cardinality(A) - One(a \in A) - One(b \in A) /\ Cardinality(A) \in Nat
<1>1. PICK B : B = A \ {a}
  OBVIOUS
<1>2. Cardinality(B) = Cardinality(A) - One(a \in A) /\ Cardinality(A) \in Nat /\ IsFiniteSet(B)
  BY <1>1, LosesOne
<1>3. Cardinality(B \ {b}) = Cardinality(B) - One(b \in B)
  BY <1>2, LosesOne
<1>4. B \ {b} = A \ {a, b} /\ (b \in B <=> b \in A)
  BY <1>1
<1>5. One(b \in B) = One(b \in A) /\ One(a \in A) \in Int /\ One(b \in A) \in Int
  BY <1>4, OneType DEF One
<1>6. QED  BY <1>2, <1>3, <1>4, <1>5

(* The vectors that go: none, one, or two.                                 *)
LEMMA KeepGoneLists ==
    ASSUME BaseInv, BlockInv, NEW t \in Thread, keep(t)
    PROVE  \/ KeepGone(t) = <<>>
           \/ \E a : KeepGone(t) = <<a>>
           \/ \E a, b : a # b /\ KeepGone(t) = <<a, b>>
<1>1. PICK k : k = Call(t).task
  OBVIOUS
<1>2. /\ k \in Task
      /\ tls[t].stack # <<>> => my[t].b \notin Range(saved[k].block)
  BY <1>1, KeepGoneRange
<1>3. PICK old : old = saved[k].block
  OBVIOUS
<1>4. old \in Seq(DOMAIN chunk) /\ Len(old) <= 1
  BY <1>2, <1>3, InHandTypes DEF BlockInv, PlacesOf
<1>5. old = <<>> \/ \E a : old = <<a>>
  <2>1. Len(old) \in Nat /\ Len(old) <= 1
    BY ONLY <1>4
  <2>2. \A n \in Nat : n <= 1 => n = 0 \/ n = 1
    OBVIOUS
  <2>3. Len(old) = 0 \/ Len(old) = 1
    BY ONLY <2>1, <2>2, Zenon
  <2>4. Len(old) = 0 => old = <<>>
    BY <1>4
  <2>5. Len(old) = 1 => old = <<old[1]>>
    BY <1>4
  <2>6. QED  BY <2>3, <2>4, <2>5
<1>6. PICK new : new = IF Call(t).done THEN (IF tls[t].stack = <<>> THEN <<>> ELSE <<my[t].b>>) ELSE <<>>
  OBVIOUS
<1>7. KeepGone(t) = old \o new
  BY <1>1, <1>3, <1>6 DEF KeepGone
<1>8. new = <<>> \/ (new = <<my[t].b>> /\ my[t].b \notin Range(old))
  BY <1>2, <1>3, <1>6
<1>9. CASE old = <<>>
  <2>1. <<>> \o <<>> = <<>> /\ \A b : <<>> \o <<b>> = <<b>>
    OBVIOUS
  <2>2. QED  BY <1>7, <1>8, <1>9, <2>1
<1>10. CASE \E a : old = <<a>>
  <2>1. PICK a : old = <<a>>
    BY <1>10
  <2>2. <<a>> \o <<>> = <<a>>
    OBVIOUS
  <2>3. <<a>> \o <<my[t].b>> = <<a, my[t].b>>
    BY OneThenOne
  <2>4. Range(old) = {a}
    BY ONLY <2>1, RangeShort
  <2>5. QED  BY <1>7, <1>8, <2>1, <2>2, <2>3, <2>4
<1>11. QED  BY <1>5, <1>9, <1>10

(* They are given back, and a call for each.                               *)
LEMMA KeepBlocks ==
    ASSUME BaseInv, BaseInv', BlockInv, NEW t \in Thread, keep(t), NEW s \in Source
    PROVE  /\ Cardinality(LiveBlocks(s))' + Freeing(KeepFrees(t), s) = Cardinality(LiveBlocks(s))
           /\ Weight(KeepFrees(t), s) = 0
<1>1. PICK gone : gone = KeepGone(t)
  OBVIOUS
<1>2. PICK frees : frees = [i \in DOMAIN gone |-> Dealloc(gone[i])]
  OBVIOUS
<1>3. frees = KeepFrees(t)
  BY <1>1, <1>2 DEF KeepFrees
<1>4. Weight(frees, s) = 0
  <2>1. Ops(frees) \subseteq {"free"}
    BY <1>2, FreeListOps
  <2>2. QED  BY <2>1, FlatList
<1>5. PICK A : A = LiveBlocks(s)
  OBVIOUS
<1>6. PICK B : B = LiveBlocks(s)'
  OBVIOUS
<1>7. IsFiniteSet(A)
  BY <1>5, LiveType
<1>8. B = A \ Range(gone)
  <2>1. chunk' = Given(Range(gone))
    BY <1>1, KeepList
  <2>2. /\ DOMAIN chunk' = DOMAIN chunk
        /\ \A c \in DOMAIN chunk : /\ chunk'[c].source = chunk[c].source
                                   /\ chunk'[c].use = IF c \in Range(gone) THEN "freed" ELSE chunk[c].use
    BY <2>1, GivenTypes DEF BaseInv
  <2>3. QED  BY <1>5, <1>6, <2>2 DEF LiveBlocks
<1>9. \A b \in Range(gone) : One(b \in A) = One(chunk[b].source = s)
  <2>1. \A b \in Range(gone) : b \in DOMAIN chunk /\ chunk[b].use = "places"
    BY <1>1, KeepGoneRange
  <2>2. \A b \in Range(gone) : b \in A <=> chunk[b].source = s
    BY <1>5, <2>1 DEF LiveBlocks
  <2>3. QED  BY <2>2 DEF One
<1>10. Cardinality(B) + Freeing(frees, s) = Cardinality(A)
  <2>1. CASE gone = <<>>
    <3>1. Range(gone) = {}
      BY ONLY <2>1, RangeShort
    <3>2. frees = <<>>
      BY <1>2, <2>1
    <3>3. Cardinality(A) \in Nat
      BY <1>7, FS_CardinalityType
    <3>4. B = A /\ Freeing(frees, s) = 0
      BY <1>8, <3>1, <3>2, WeightEmpty
    <3>5. QED  BY <3>3, <3>4
  <2>2. CASE \E a : gone = <<a>>
    <3>1. PICK a : gone = <<a>>
      BY <2>2
    <3>2. Range(gone) = {a}
      BY ONLY <3>1, RangeShort
    <3>3. frees = <<Dealloc(a)>>
      BY <1>2, <3>1
    <3>4. Freeing(frees, s) = One(chunk[a].source = s)
      BY <3>3, DeallocWeight
    <3>6. Cardinality(A \ {a}) = Cardinality(A) - One(a \in A) /\ Cardinality(A) \in Nat
      BY <1>7, LosesOne
    <3>7. B = A \ {a} /\ One(a \in A) = One(chunk[a].source = s) /\ One(a \in A) \in Int
      BY <1>8, <1>9, <3>2, OneType
    <3>8. QED  BY <3>4, <3>6, <3>7
  <2>3. CASE \E a, b : a # b /\ gone = <<a, b>>
    <3>1. PICK a, b : a # b /\ gone = <<a, b>>
      BY <2>3
    <3>2. Range(gone) = {a, b}
      BY ONLY <3>1, RangeShort
    <3>3. frees = <<Dealloc(a), Dealloc(b)>>
      BY <1>2, <3>1
    <3>4. Freeing(frees, s) = One(chunk[a].source = s) + One(chunk[b].source = s)
      <4>1. Freeing(frees, s) = Frees(Dealloc(a), s) + Frees(Dealloc(b), s)
        BY <3>3, WeightTwo
      <4>2. QED  BY <4>1, WorthOfCalls
    <3>6. Cardinality(A \ {a, b}) = Cardinality(A) - One(a \in A) - One(b \in A) /\ Cardinality(A) \in Nat
      BY <1>7, <3>1, LosesTwo
    <3>7. /\ B = A \ {a, b} /\ One(a \in A) = One(chunk[a].source = s) /\ One(b \in A) = One(chunk[b].source = s)
          /\ One(a \in A) \in Int /\ One(b \in A) \in Int
      BY <1>8, <1>9, <3>2, OneType
    <3>8. QED  BY <3>4, <3>6, <3>7
  <2>4. QED  BY <1>1, <2>1, <2>2, <2>3, KeepGoneLists
<1>11. Cardinality(LiveBlocks(s))' = Cardinality(B)
  BY <1>6
<1>12. QED  BY <1>3, <1>4, <1>5, <1>10, <1>11

(* What keep leaves to be done: with a task that is done, the references   *)
(* of the copy that nobody takes go.                                       *)
LEMMA KeepWeight ==
    ASSUME BaseInv, NEW t \in Thread, keep(t), NEW s \in Source, Weight(KeepFrees(t), s) = 0
    PROVE  /\ Weight(KeepCalls(t), s) = (IF Call(t).done THEN InStack(tls[t].stack, s) ELSE 0)
           /\ Freeing(KeepCalls(t), s) = Freeing(KeepFrees(t), s)
<1>1. PICK p : p = tls[t].stack
  OBVIOUS
<1>2. p \in Seq(PlaceType(Born))
  BY <1>1, PlaceListTypes DEF BaseInv
<1>3. PICK refs1 : refs1 = RefAll(p)
  OBVIOUS
<1>4. PICK drops : drops = UnrefAll(p)
  OBVIOUS
<1>5. PICK look : look = <<SetCurrent>>
  OBVIOUS
<1>6. PICK more : more = KeepDrops(t)
  OBVIOUS
<1>7. PICK frees : frees = KeepFrees(t)
  OBVIOUS
<1>8. refs1 \in Seq(AnyCall) /\ drops \in Seq(AnyCall) /\ look \in Seq(AnyCall)
  BY <1>2, <1>3, <1>4, <1>5, CopyWeight
<1>9. more \in Seq(AnyCall) /\ frees \in Seq(AnyCall)
  BY <1>6, <1>7, KeepList
<1>10. /\ InStack(p, s) \in Nat
       /\ Weight(refs1, s) = -InStack(p, s) /\ Weight(drops, s) = InStack(p, s) /\ Weight(look, s) = 0
       /\ Freeing(refs1, s) = 0 /\ Freeing(drops, s) = 0 /\ Freeing(look, s) = 0
  BY <1>2, <1>3, <1>4, <1>5, CopyWeight
<1>11. Weight(more, s) = (IF Call(t).done THEN InStack(p, s) ELSE 0) /\ Freeing(more, s) = 0
  <2>1. CASE Call(t).done
    BY <1>1, <1>4, <1>6, <1>10, <2>1 DEF KeepDrops
  <2>2. CASE ~Call(t).done
    BY <1>6, <2>2, WeightEmpty DEF KeepDrops
  <2>3. QED  BY <2>1, <2>2
<1>12. PICK l1 : l1 = refs1 \o drops
  OBVIOUS
<1>13. PICK l2 : l2 = l1 \o look
  OBVIOUS
<1>14. PICK l3 : l3 = l2 \o more
  OBVIOUS
<1>15. PICK l4 : l4 = l3 \o frees
  OBVIOUS
<1>16. KeepCalls(t) = l4
  BY <1>1, <1>3, <1>4, <1>5, <1>6, <1>7, <1>12, <1>13, <1>14, <1>15 DEF KeepCalls
<1>17. l1 \in Seq(AnyCall)
  BY <1>8, <1>12, ConcatFacts
<1>18. l2 \in Seq(AnyCall)
  BY <1>8, <1>13, <1>17, ConcatFacts
<1>19. l3 \in Seq(AnyCall)
  BY <1>9, <1>14, <1>18, ConcatFacts
<1>20. Weight(l1, s) = Weight(refs1, s) + Weight(drops, s) /\ Freeing(l1, s) = Freeing(refs1, s) + Freeing(drops, s)
  BY <1>8, <1>12, WeightConcat
<1>21. Weight(l2, s) = Weight(l1, s) + Weight(look, s) /\ Freeing(l2, s) = Freeing(l1, s) + Freeing(look, s)
  BY <1>8, <1>13, <1>17, WeightConcat
<1>22. Weight(l3, s) = Weight(l2, s) + Weight(more, s) /\ Freeing(l3, s) = Freeing(l2, s) + Freeing(more, s)
  BY <1>9, <1>14, <1>18, WeightConcat
<1>23. Weight(l4, s) = Weight(l3, s) + Weight(frees, s) /\ Freeing(l4, s) = Freeing(l3, s) + Freeing(frees, s)
  BY <1>9, <1>15, <1>19, WeightConcat
<1>24. Weight(frees, s) = 0 /\ Freeing(frees, s) \in Nat
  BY <1>7, <1>9, WeightType
<1>25. /\ Weight(l4, s) = (IF Call(t).done THEN InStack(p, s) ELSE 0)
       /\ Freeing(l4, s) = Freeing(frees, s)
  BY ONLY <1>10, <1>11, <1>20, <1>21, <1>22, <1>23, <1>24
<1>26. QED  BY <1>1, <1>7, <1>16, <1>25

(* The places go to the task, with what they refer to, or are dropped.     *)
LEMMA KeepKeeps ==
    ASSUME BaseInv, BaseInv', TaskInv, BlockInv, NEW t \in Thread, keep(t), NEW s \in Source
    PROVE  Books(t, s, 0, 0)
<1>1. todo[t] # <<>> /\ Call(t).op = "keep" /\ pc[t] = "start" /\ t \in DOMAIN todo /\ t \in DOMAIN pc /\ t \in DOMAIN tls
  BY DEF BaseInv, TypeInv, Typed, keep, At
<1>2. UNCHANGED <<source, hold, msources, current>>
  BY DEF keep
<1>3. PICK k : k = Call(t).task
  OBVIOUS
<1>4. PICK p : p = tls[t].stack
  OBVIOUS
<1>5. k \in Task /\ Call(t).done \in BOOLEAN /\ p \in Seq(PlaceType(Born))
  BY <1>3, <1>4, KeepList, PlaceListTypes DEF BaseInv
<1>6. InStack(p, s) \in Nat /\ InStack(<<>>, s) = 0
  BY <1>4, StorageParts
<1>7. tls[t].state = "done"
  <2>1. Has(t, "keep")
    BY <1>1, HeadAndTail DEF BaseInv, Has
  <2>2. QED  BY <2>1 DEF BaseInv, TlsInv, TlsOf
<1>8. Storage(t, s)' = Storage(t, s) - InStack(p, s) /\ Storage(t, s) \in Nat
  <2>1. tls'[t].state = tls[t].state /\ tls'[t].own = tls[t].own /\ tls'[t].stack = <<>>
    <3>1. tls \in [Thread -> TlsType(Born, DOMAIN chunk)]
      BY DEF BaseInv, TypeInv, Typed
    <3>2. QED  BY <3>1 DEF keep, TlsType
  <2>2. /\ Storage(t, s)' = Storage(t, s) - InStack(tls[t].stack, s) + InStack(tls'[t].stack, s)
        /\ Storage(t, s) \in Nat
    BY <1>2, <1>7, <2>1, StackStorage
  <2>3. QED  BY <1>4, <1>6, <2>1, <2>2
<1>9. Shared(s)' = Shared(s) + (IF Call(t).done THEN 0 ELSE InStack(p, s)) /\ Shared(s) \in Nat
  <2>1. saved \in [Task -> SavedType(Born, DOMAIN chunk)]
    BY DEF BaseInv, TypeInv, Typed
  <2>2. /\ saved'[k].stack = (IF Call(t).done THEN <<>> ELSE p)
        /\ \A j \in Task \ {k} : saved'[j].stack = saved[j].stack
    BY <1>3, <1>4, <1>5, <2>1 DEF keep, SavedType
  <2>3. saved[k].stack = <<>>
    <3>1. Call(t) \in Pending(t, "keep")
      BY <1>1, CallsOfList DEF Pending
    <3>2. QED  BY <1>3, <3>1 DEF TaskInv
  <2>4. Shared(s)' = Shared(s) - InStack(saved[k].stack, s) + InStack(saved'[k].stack, s)
    BY <1>2, <1>5, <2>2, SavedBooks
  <2>5. InStack(saved[k].stack, s) = 0
    BY <1>6, <2>3
  <2>6. InStack(saved'[k].stack, s) = (IF Call(t).done THEN 0 ELSE InStack(p, s))
    BY <1>6, <2>2
  <2>7. Shared(s) \in Nat
    BY NumbersHold DEF Numbers
  <2>8. QED  BY <1>6, <2>4, <2>5, <2>6, <2>7
<1>10. PICK l1 : l1 = KeepCalls(t)
  OBVIOUS
<1>11. PICK l2 : l2 = <<Unlock(k)>>
  OBVIOUS
<1>12. PICK calls : calls = l1 \o l2
  OBVIOUS
<1>13. l1 \in Seq(AnyCall) /\ l2 \in Seq(AnyCall) /\ todo'[t] = calls
  BY <1>3, <1>10, <1>11, <1>12, KeepList
<1>14. calls \in Seq(AnyCall)
  BY <1>12, <1>13, ConcatFacts
<1>15. todo'[t] = calls \o Tail(todo[t]) /\ pc'[t] = "start"
  <2>1. AfterCall(Call(t).op) = {}
    BY <1>1 DEF AfterCall
  <2>2. Tail(todo[t]) = <<>>
    BY <1>1, <2>1, LastCall
  <2>3. calls \o <<>> = calls
    BY <1>14
  <2>4. pc'[t] = "start"
    BY <1>1 DEF keep, Then
  <2>5. QED  BY <1>13, <2>2, <2>3, <2>4
<1>16. /\ Cardinality(LiveBlocks(s))' + Freeing(KeepFrees(t), s) = Cardinality(LiveBlocks(s))
       /\ Weight(KeepFrees(t), s) = 0
  BY KeepBlocks
<1>17. /\ Weight(l1, s) = (IF Call(t).done THEN InStack(p, s) ELSE 0)
       /\ Freeing(l1, s) = Freeing(KeepFrees(t), s) /\ Freeing(l1, s) \in Nat
  BY <1>4, <1>10, <1>13, <1>16, KeepWeight, WeightType
<1>18. Weight(calls, s) = Weight(l1, s) + Weight(l2, s) /\ Freeing(calls, s) = Freeing(l1, s) + Freeing(l2, s)
  BY <1>12, <1>13, WeightConcat
<1>19. Weight(l2, s) = 0 /\ Freeing(l2, s) = 0
  BY <1>11, FlatCalls
<1>20. Worth(Call(t), s) = 0 /\ Frees(Call(t), s) = 0
  BY <1>1 DEF Worth, Frees
<1>21. Shared(s)' + Storage(t, s)' + Weight(calls, s) = Shared(s) + Storage(t, s) + Worth(Call(t), s)
  <2>1. CASE Call(t).done
    BY ONLY <1>6, <1>8, <1>9, <1>17, <1>18, <1>19, <1>20, <2>1
  <2>2. CASE ~Call(t).done
    BY ONLY <1>6, <1>8, <1>9, <1>17, <1>18, <1>19, <1>20, <2>2
  <2>3. QED  BY <2>1, <2>2
<1>22. Cardinality(LiveBlocks(s))' + Freeing(calls, s) = Cardinality(LiveBlocks(s)) + Frees(Call(t), s)
  <2>1. Cardinality(LiveBlocks(s)) \in Nat
    BY NumbersHold DEF Numbers
  <2>2. QED  BY ONLY <1>16, <1>17, <1>18, <1>19, <1>20, <2>1
<1>23. QED  BY <1>1, <1>2, <1>14, <1>15, <1>21, <1>22, CallBooks

(* A field of a source besides its state is set.                           *)
LEMMA StateUntouched ==
    ASSUME NEW src, DOMAIN src = Source, \A r \in Source : "state" \in DOMAIN src[r], NEW s \in Source, NEW r \in Source
    PROVE  /\ \A x : [src EXCEPT ![s].arena_lock = x][r].state = src[r].state
           /\ \A x : [src EXCEPT ![s].mmapped_chunk_lock = x][r].state = src[r].state
           /\ \A x : [src EXCEPT ![s].arenas = x][r].state = src[r].state
           /\ \A x : [src EXCEPT ![s].node = x][r].state = src[r].state
           /\ \A x : [src EXCEPT ![s].blocks = x][r].state = src[r].state
           /\ \A x, y : [src EXCEPT ![s].mmapped_chunk_lock = x, ![s].mmapped_chunk_head = y][r].state = src[r].state
           /\ \A k, x : [src EXCEPT ![s].arenas[k].mspace_lock = x][r].state = src[r].state
           /\ \A k, x : [src EXCEPT ![s].arenas[k] = x][r].state = src[r].state
OBVIOUS

(* A source ends only in destroy.                                          *)
LEMMA StatesKept ==
    ASSUME BaseInv, NEW t \in Thread, SourceStep(t), ~destroyFinish(t)
    PROVE  \A r \in Source : source'[r].state = source[r].state
<1>1. todo[t] # <<>> /\ Call(t).s \in Source
  <2>1. todo[t] # <<>> /\ Call(t).op \in SourceOps
    BY SourceStepShape DEF BaseInv
  <2>2. QED  BY <2>1, CallInHand DEF BaseInv, SourceOps
<1>2. DOMAIN source = Source /\ \A r \in Source : "state" \in DOMAIN source[r]
  BY DEF BaseInv, TypeInv, Typed, SourceType
<1> DEFINE c == Call(t)
<1> SUFFICES ASSUME NEW r \in Source
             PROVE  source'[r].state = source[r].state
  OBVIOUS
<1>3. c.s \in Source
  BY <1>1
<1> HIDE DEF c
<1>4. CASE unrefLook(t)
  BY <1>4 DEF unrefLook, NewChunk
<1>5. CASE unrefDescribe(t)
  BY <1>5 DEF unrefDescribe, NewChunk
<1>6. CASE destroyRemove(t)
  BY <1>6 DEF destroyRemove, NewChunk
<1>8. CASE allocMap(t)
  BY <1>8 DEF allocMap, NewChunk
<1>9. CASE allocLink(t)
  BY <1>2, <1>3, <1>9, StateUntouched DEF allocLink, c
<1>10. CASE allocLinked(t)
  BY <1>2, <1>3, <1>10, StateUntouched DEF allocLinked, c
<1>11. CASE allocLock(t)
  BY <1>2, <1>3, <1>11, StateUntouched DEF allocLock, c
<1>12. CASE arenaAlloc(t)
  BY <1>2, <1>3, <1>12, StateUntouched DEF arenaAlloc, c
<1>13. CASE arenaAllocEnd(t)
  BY <1>2, <1>3, <1>13, StateUntouched DEF arenaAllocEnd, c
<1>14. CASE create_new_arena(t)
  BY <1>2, <1>3, <1>14, StateUntouched DEF create_new_arena, c
<1>15. CASE allocUnlock(t)
  BY <1>2, <1>3, <1>15, StateUntouched DEF allocUnlock, c
<1>16. CASE freeInArena(t)
  BY <1>2, <1>3, <1>16, StateUntouched DEF freeInArena, c
<1>17. CASE freeInArenaEnd(t)
  BY <1>2, <1>3, <1>17, StateUntouched DEF freeInArenaEnd, c
<1>18. CASE freeUnlink(t)
  BY <1>2, <1>3, <1>18, StateUntouched DEF freeUnlink, c
<1>19. CASE freeUnmap(t)
  BY <1>2, <1>3, <1>19, StateUntouched DEF freeUnmap, c
<1>20. CASE migrateLock(t)
  BY <1>2, <1>3, <1>20, StateUntouched DEF migrateLock, c
<1>21. CASE migrateLockChunks(t)
  BY <1>2, <1>3, <1>21, StateUntouched DEF migrateLockChunks, c
<1>22. CASE migrateArena(t)
  BY <1>2, <1>3, <1>22, StateUntouched DEF migrateArena, c
<1>23. CASE migratePages(t)
  BY <1>2, <1>3, <1>23, StateUntouched DEF migratePages, c
<1>24. CASE migrateUnlockChunks(t)
  BY <1>2, <1>3, <1>24, StateUntouched DEF migrateUnlockChunks, c
<1>25. CASE migrateWalk(t)
  BY <1>25 DEF migrateWalk, NewChunk
<1>26. CASE migrateUnlockArena(t)
  BY <1>2, <1>3, <1>26, StateUntouched DEF migrateUnlockArena, c
<1>27. CASE migrateEnd(t)
  BY <1>2, <1>3, <1>27, StateUntouched DEF migrateEnd, c
<1>30. CASE ref(t)
  BY <1>2, <1>3, <1>30, StateUntouched DEF ref, Add, c
<1>31. CASE unrefDeref(t)
  BY <1>2, <1>3, <1>31, StateUntouched DEF unrefDeref, Add, c
<1>32. CASE allocCount(t)
  BY <1>2, <1>3, <1>32, StateUntouched DEF allocCount, Add, c
<1>33. CASE freeUncount(t)
  BY <1>2, <1>3, <1>33, StateUntouched DEF freeUncount, Add, c
<1>28. QED  BY <1>4, <1>5, <1>6, <1>30, <1>31, <1>32, <1>33, <1>8, <1>9, <1>10, <1>11, <1>12, <1>13, <1>14, <1>15, <1>16, <1>17, <1>18, <1>19, <1>20, <1>21, <1>22, <1>23, <1>24, <1>25, <1>26, <1>27 DEF SourceStep

(* The state after the end of a source.                                    *)
LEMMA StateEnds ==
    ASSUME BaseInv, NEW t \in Thread, destroyFinish(t)
    PROVE  /\ Call(t).s \in Source
           /\ source'[Call(t).s].state = (IF source[Call(t).s].state = "alive" THEN "destroyed" ELSE "destroyed_twice")
           /\ \A r \in Source \ {Call(t).s} : source'[r] = source[r]
<1> DEFINE c == Call(t)
<1>1. SourceStep(t)
  BY DEF SourceStep
<1>2. todo[t] # <<>> /\ Call(t).op \in SourceOps
  BY <1>1, SourceStepShape DEF BaseInv
<1>3. c.s \in Source
  BY <1>2, CallInHand DEF BaseInv, SourceOps
<1>4. DOMAIN source = Source /\ "state" \in DOMAIN source[c.s]
  BY <1>3 DEF BaseInv, TypeInv, Typed, SourceType
<1> HIDE DEF c
<1>5. source' = [source EXCEPT ![c.s].state = IF @ = "alive" THEN "destroyed" ELSE "destroyed_twice", ![c.s].arenas = <<>>]
  BY DEF destroyFinish, c
<1>6. QED  BY <1>3, <1>4, <1>5 DEF c

(* What was born is not unborn again.                                      *)
LEMMA BornLast ==
    ASSUME BaseInv, NEW t \in Thread, Step(t), NEW s \in Source, ~Unborn(s)
    PROVE  ~Unborn(s)'
<1>1. CASE SourceStep(t)
  <2>1. CASE destroyFinish(t)
    BY <2>1, StateEnds DEF Unborn
  <2>2. CASE ~destroyFinish(t)
    BY <1>1, <2>2, StatesKept DEF Unborn
  <2>3. QED  BY <2>1, <2>2
<1>2. ASSUME NEW n, CreateSource(n)
      PROVE  source'[s] = source[s]
  <2>1. Unborn(Fresh) /\ Fresh \in Source
    BY <1>2 DEF CreateSource, Fresh
  <2>2. QED  BY <1>2, <2>1 DEF CreateSource
<1>3. CASE UNCHANGED source
  BY <1>3 DEF Unborn
<1>4. UNCHANGED source \/ SourceStep(t) \/ \E n : CreateSource(n)
  <2>1. CASE PlainPlaceSteps(t)
    BY <2>1, PlainKeeps
  <2>2. CASE init(t) \/ recheckLocal(t) \/ create(t)
    BY <2>2 DEF init, recheckLocal, create
  <2>3. QED
    BY <2>1, <2>2, StepNames DEF construct, push, pop, pop_all, keep,
       unlockTask, push_all, tlsDestructionFunc, free, realloc, freeOld, copy, bind, assign, move, drop,
       sourceVarsButCalls
<1>5. QED  BY <1>1, <1>2, <1>3, <1>4 DEF Unborn

(* What a node has for itself stays there.                                 *)
LEMMA StepKeepsHome ==
    ASSUME BaseInv, LocalInv, ReplicaInv, HomeInv, NEW t \in Thread, Step(t)
    PROVE  HomeInv'
BY StepKeepsLocks DEF HomeInv, SourcesLast

(* Every step keeps the books.                                             *)
LEMMA WordBooks ==
    ASSUME BaseInv, BaseInv', BlockInv, NEW t \in Thread, Step(t), SourceStep(t), UNCHANGED placeVars, NEW s \in Source
    PROVE  \E r, b \in {-1, 0, 1} : Books(t, s, r, b)
<1>1. CASE WordStep(t)
  BY <1>1, RefBooks, UnrefBooks, AllocBooks, FreeBooks DEF WordStep
<1>2. CASE ~WordStep(t)
  <2>1. Books(t, s, 0, 0)
    BY <1>2, QuietSourceBooks
  <2>2. QED  BY <2>1
<1>3. QED  BY <1>1, <1>2
PlainBooks(t) ==
    \/ FlatOpens(t) \/ FlatEnds(t) \/ lockLocal(t) \/ lockReplica(t) \/ recheckReplica(t)
    \/ setCurrent(t) \/ publishLocal(t)

(* The steps that only take, pass on or release what is counted elsewhere. *)
LEMMA PlainBooksKeep ==
    ASSUME BaseInv, BaseInv', LocalInv, HomeInv, NEW t \in Thread, PlainBooks(t), NEW s \in Source
    PROVE  Books(t, s, 0, 0)
<1>1. CASE FlatOpens(t)
  BY <1>1, FlatOpensKeep
<1>2. CASE FlatEnds(t)
  BY <1>2, FlatEndsKeep
<1>3. CASE lockLocal(t) \/ lockReplica(t)
  BY <1>3, FlatWaitsKeep
<1>4. CASE recheckReplica(t)
  BY <1>4, RecheckReplicaKeeps
<1>5. CASE setCurrent(t)
  BY <1>5, SetCurrentKeeps
<1>6. CASE publishLocal(t)
  BY <1>6, PublishLocalKeeps
<1>7. QED  BY <1>1, <1>2, <1>3, <1>4, <1>5, <1>6 DEF PlainBooks

(* Every step on places keeps the books.                                   *)
LEMMA PlaceBooks ==
    ASSUME BaseInv, BaseInv', LocalInv, ClientInv, TaskInv, BlockInv, HomeInv, CountInv,
           NEW t \in Thread, Step(t), ~(SourceStep(t) /\ UNCHANGED placeVars), NEW s \in Source
    PROVE  Books(t, s, 0, 0)
<1>1. CASE PlainBooks(t)
  BY <1>1, PlainBooksKeep
<1>2. CASE construct(t)
  BY <1>2, ConstructKeeps
<1>3. CASE init(t)
  BY <1>3, InitKeeps
<1>4. CASE recheckLocal(t)
  BY <1>4, RecheckLocalKeeps
<1>5. CASE push(t)
  BY <1>5, PushKeeps
<1>6. CASE pop(t)
  BY <1>6, PopKeeps
<1>7. CASE keep(t)
  BY <1>7, KeepKeeps
<1>8. CASE push_all(t)
  BY <1>8, PushAllKeeps
<1>9. CASE tlsDestructionFunc(t)
  BY <1>9, ExitKeeps
<1>10. CASE free(t)
  BY <1>10, FreeKeeps
<1>11. CASE realloc(t)
  BY <1>11, ReallocKeeps
<1>12. CASE freeOld(t)
  BY <1>12, FreeOldKeeps
<1>13. CASE create(t)
  BY <1>13, CreateKeeps
<1>14. CASE copy(t)
  BY <1>14, CopyKeeps
<1>15. CASE bind(t)
  BY <1>15, BindKeeps
<1>16. CASE assign(t)
  BY <1>16, AssignKeeps
<1>17. CASE move(t)
  BY <1>17, MoveKeeps
<1>18. CASE drop(t)
  BY <1>18, DropKeeps
<1>19. \/ PlainBooks(t)
       \/ construct(t) \/ init(t) \/ recheckLocal(t) \/ push(t) \/ pop(t) \/ keep(t)
       \/ push_all(t) \/ tlsDestructionFunc(t) \/ free(t) \/ realloc(t)
       \/ freeOld(t) \/ create(t) \/ copy(t) \/ bind(t) \/ assign(t) \/ move(t) \/ drop(t)
  BY StepNames DEF PlainPlaceSteps, PlainBooks, FlatOpens, FlatEnds
<1>20. QED  BY <1>1, <1>2, <1>3, <1>4, <1>5, <1>6, <1>7, <1>8, <1>9, <1>10, <1>11, <1>12, <1>13,
               <1>14, <1>15, <1>16, <1>17, <1>18, <1>19

(* The counts, in every step.                                              *)
LEMMA StepKeepsCounts ==
    ASSUME BaseInv, LocalInv, ClientInv, TaskInv, BlockInv, HomeInv, CountInv, NEW t \in Thread, Step(t)
    PROVE  CountInv'
<1>1. BaseInv'
  BY StepBase
<1>2. Len(chunk') <= MaxChunks
  BY ChunkChange DEF CountInv
<1>3. ASSUME NEW s \in Source
      PROVE  /\ source'[s].blocks = RefUnit * Handles(s)' + BlocksOf(s)'
             /\ BlocksOf(s)' <= Cardinality(EverBlocks(s))'
             /\ Unborn(s)' => source'[s].blocks = 0
  <2>1. PICK r \in {-1, 0, 1}, b \in {-1, 0, 1} : Books(t, s, r, b)
    <3>1. CASE SourceStep(t) /\ UNCHANGED placeVars
      BY <1>1, <3>1, WordBooks
    <3>2. CASE ~(SourceStep(t) /\ UNCHANGED placeVars)
      <4>1. Books(t, s, 0, 0)
        BY <1>1, <3>2, PlaceBooks
      <4>2. QED  BY <4>1
    <3>3. QED  BY <3>1, <3>2
  <2>2. r \in Int /\ b \in Int
    BY <2>1
  <2>3. /\ source'[s].blocks = source[s].blocks + RefUnit * r + b
        /\ Shared(s)' + Account(t, s)' = Shared(s) + Account(t, s) + r
        /\ Cardinality(LiveBlocks(s))' + Released(t, s)' = Cardinality(LiveBlocks(s)) + Released(t, s) + b
        /\ b = 1 => allocCount(t) /\ s = Call(t).s
        /\ Unborn(s) => r = 0 /\ b = 0
    BY <2>1 DEF Books
  <2>4. /\ source[s].blocks = RefUnit * Handles(s) + BlocksOf(s)
        /\ BlocksOf(s) <= Cardinality(EverBlocks(s))
        /\ Unborn(s) => source[s].blocks = 0
    BY DEF CountInv
  <2>5. /\ BlocksOf(s)' = BlocksOf(s) + b
        /\ source'[s].blocks = RefUnit * Handles(s)' + BlocksOf(s)'
    BY <1>1, <2>2, <2>3, <2>4, BooksClose
  <2>6. /\ Cardinality(EverBlocks(s)) <= Cardinality(EverBlocks(s))'
        /\ b = 1 => Cardinality(EverBlocks(s))' >= Cardinality(EverBlocks(s)) + 1
    BY <1>1, <2>3, EverGrows
  <2>7. BlocksOf(s) \in Nat /\ Cardinality(EverBlocks(s)) \in Nat /\ Cardinality(EverBlocks(s))' \in Nat
    <3>1. BaseInv' => Numbers'
      BY NumbersHold, PTL
    <3>2. Numbers /\ Numbers'
      BY <1>1, <3>1, NumbersHold
    <3>3. QED  BY <3>2 DEF Numbers
  <2>8. BlocksOf(s)' <= Cardinality(EverBlocks(s))'
    BY ONLY <2>1, <2>4, <2>5, <2>6, <2>7
  <2>9. ASSUME Unborn(s)'
        PROVE  source'[s].blocks = 0
    <3>1. Unborn(s)
      BY <2>9, BornLast
    <3>2. RefUnit * 0 = 0 /\ RefUnit \in Nat
      BY CountAssumption
    <3>3. QED  BY <2>3, <2>4, <3>1, <3>2
  <2>10. QED  BY <2>5, <2>8, <2>9
<1>4. QED  BY <1>2, <1>3 DEF CountInv

(* In the beginning only the started program refers to anything.           *)
LEMMA InitCount ==
    ASSUME Init, BaseInv, HomeInv
    PROVE  CountInv
<1>1. chunk = <<>> /\ Len(chunk) <= MaxChunks
  BY CountAssumption DEF Init
<1>2. IsFiniteSet(Thread) /\ IsFiniteSet(Task) /\ RefUnit \in Nat /\ None \notin Source
  BY CountAssumption, PlaceAssumption
<1>3. ASSUME NEW s \in Source
      PROVE  /\ source[s].blocks = RefUnit * Handles(s) + BlocksOf(s)
             /\ BlocksOf(s) <= Cardinality(EverBlocks(s))
             /\ Unborn(s) => source[s].blocks = 0
  <2>1. StartupRefs(s) \in Nat /\ Shared(s) \in Nat
    BY SharedType
  <2>2. Shared(s) = StartupRefs(s)
    <3>1. PairsOf(s) = {} /\ HoldersOf(s) = {}
      BY <1>2 DEF Init, PairsOf, HoldersOf
    <3>2. Cardinality({}) = 0
      BY FS_EmptySet
    <3>3. SavedRefs(s) = 0
      <4> DEFINE f == [k \in Task |-> InStack(saved[k].stack, s)]
      <4>1. f \in [Task -> Nat]
        BY SharedType
      <4>2. \A k \in Task : saved[k].stack = <<>>
        BY DEF Init
      <4>3. \A k \in Task : f[k] = 0
        <5>1. InStack(<<>>, s) = 0
          <6>1. <<>> \in Seq(PlaceType(Born))
            OBVIOUS
          <6>2. QED  BY <6>1, InStackFacts
        <5>2. QED  BY <4>2, <5>1
      <4>4. SavedRefs(s) = Total(f)
        BY DEF SavedRefs
      <4> HIDE DEF f
      <4>5. QED  BY <1>2, <4>1, <4>3, <4>4, TotalNat
    <3>4. Shared(s) = StartupRefs(s) + Cardinality(PairsOf(s)) + SavedRefs(s) + Cardinality(HoldersOf(s))
      BY SharedParts
    <3>5. QED  BY <2>1, <3>1, <3>2, <3>3, <3>4
  <2>3. \A t \in Thread : Account(t, s) = 0 /\ Released(t, s) = 0
    <3>1. \A t \in Thread : tls[t].state = "none" /\ Coming(t) = <<>>
      BY DEF Init, NoStorage, Coming, EndsOne
    <3>2. Weight(<<>>, s) = 0 /\ Freeing(<<>>, s) = 0
      BY WeightEmpty
    <3>3. QED  BY <3>1, <3>2 DEF Account, Storage, Released
  <2>4. Total([t \in Thread |-> Account(t, s)]) = 0 /\ Total([t \in Thread |-> Released(t, s)]) = 0
    <3> DEFINE f == [t \in Thread |-> Account(t, s)]  g == [t \in Thread |-> Released(t, s)]
    <3>1. \A t \in Thread : f[t] = 0 /\ g[t] = 0
      BY <2>3
    <3>2. f \in [Thread -> Nat] /\ g \in [Thread -> Nat]
      BY <2>3
    <3> HIDE DEF f, g
    <3>3. Total(f) = 0
      BY <1>2, <3>1, <3>2, TotalNat
    <3>4. Total(g) = 0
      BY <1>2, <3>1, <3>2, TotalNat
    <3>5. QED  BY <3>3, <3>4 DEF f, g
  <2>5. LiveBlocks(s) = {} /\ Cardinality(LiveBlocks(s)) = 0 /\ Cardinality(EverBlocks(s)) \in Nat
    <3>1. LiveBlocks(s) = {}
      BY <1>1 DEF LiveBlocks
    <3>2. Cardinality({}) = 0
      BY FS_EmptySet
    <3>3. QED  BY <3>1, <3>2, LiveType
  <2>6. Handles(s) = StartupRefs(s) /\ BlocksOf(s) = 0
    <3>1. Handles(s) = StartupRefs(s)
      BY <2>1, <2>2, <2>4 DEF Handles
    <3>2. BlocksOf(s) = 0
      BY <2>4, <2>5 DEF BlocksOf
    <3>3. QED  BY <3>1, <3>2
  <2>7. /\ source[s].blocks = StartupRefs(s) * RefUnit
        /\ Unborn(s) => StartupRefs(s) = 0
    <3>1. CASE StartupRefs(s) = 0
      <4>1. source[s] = Unused
        BY <3>1 DEF Init
      <4>2. QED  BY <1>2, <3>1, <4>1 DEF Unused
    <3>2. CASE StartupRefs(s) # 0
      <4>1. source[s] = NewSource(NodeOfSource(s), StartupRefs(s))
        BY <3>2 DEF Init
      <4>2. QED  BY <4>1 DEF NewSource, Unused, Unborn
    <3>3. QED  BY <3>1, <3>2
  <2>8. StartupRefs(s) * RefUnit = RefUnit * StartupRefs(s) /\ 0 * RefUnit = 0
    BY <1>2, <2>1
  <2>9. QED  BY <1>2, <2>1, <2>5, <2>6, <2>7, <2>8
<1>4. QED  BY <1>1, <1>3 DEF CountInv

(* The sum of two functions and their difference.                          *)
LEMMA AheadCounts ==
    ASSUME BaseInv, NEW t \in Thread, NEW s \in Source
    PROVE  /\ Refers(t, s) - Ahead(t, s, "ref") + Ahead(t, s, "unref") = Account(t, s)
           /\ Ahead(t, s, "free") = Released(t, s)
<1>1. \A op : Ahead(t, s, op) = CountOf(Coming(t), s, op)
  BY DEF Ahead, CountOf
<1>2. Coming(t) \in Seq(AnyCall) /\ Storage(t, s) \in Nat
  BY ComingType, AccountType
<1>3. /\ Ahead(t, s, "bind") \in Nat /\ Ahead(t, s, "publish_local") \in Nat
      /\ Ahead(t, s, "ref") \in Nat /\ Ahead(t, s, "unref") \in Nat
  BY <1>1, <1>2, CountType
<1>4. Refers(t, s) = Storage(t, s) + Ahead(t, s, "bind") + Ahead(t, s, "publish_local")
  BY DEF Refers, Storage
<1>5. Account(t, s) = Storage(t, s) + (Ahead(t, s, "bind") + Ahead(t, s, "publish_local")
                                       + Ahead(t, s, "unref") - Ahead(t, s, "ref"))
  BY <1>1 DEF Account, Weight
<1>6. Ahead(t, s, "free") = Released(t, s)
  BY <1>1 DEF Released, Freeing
<1>7. QED  BY ONLY <1>2, <1>3, <1>4, <1>5, <1>6

(* The word taken apart.                                                   *)
LEMMA WordTells ==
    ASSUME BaseInv, CountInv, NEW s \in Source
    PROVE  refs(s) = Handles(s) /\ blocks(s) = BlocksOf(s)
<1>1. RefUnit \in Nat \ {0} /\ MaxChunks \in Nat /\ MaxChunks < RefUnit
  BY CountAssumption
<1>2. Handles(s) \in Int /\ BlocksOf(s) \in Nat /\ Cardinality(EverBlocks(s)) \in Nat
  BY NumbersHold DEF Numbers
<1>3. BlocksOf(s) <= Cardinality(EverBlocks(s)) /\ Cardinality(EverBlocks(s)) <= Len(chunk)
      /\ Len(chunk) <= MaxChunks /\ Len(chunk) \in Nat
  BY LiveType DEF CountInv
<1>4. BlocksOf(s) \in 0 .. RefUnit - 1
  BY ONLY <1>1, <1>2, <1>3
<1>5. source[s].blocks = RefUnit * Handles(s) + BlocksOf(s)
  BY DEF CountInv
<1> HIDE DEF RefUnit
<1>6. (RefUnit * Handles(s) + BlocksOf(s)) \div RefUnit = Handles(s)
      /\ (RefUnit * Handles(s) + BlocksOf(s)) % RefUnit = BlocksOf(s)
  BY <1>1, <1>2, <1>4, Word
<1>7. QED  BY <1>5, <1>6 DEF refs, blocks
CountsInv ==
    OnceInv /\ ClientInv /\ TaskInv /\ BlockInv /\ HomeInv /\ CountInv

(* All of it, in every step.                                               *)
LEMMA StepCounts ==
    ASSUME CountsInv, [Next]_vars
    PROVE  CountsInv'
<1> USE DEF CountsInv, OnceInv
<1>1. OnceInv'
  BY StepOnce
<1>2. CASE Next
  <2>1. PICK t \in Thread : Step(t)
    BY <1>2 DEF Next
  <2>2. ClientInv' /\ TaskInv' /\ BlockInv'
    BY <2>1, StepKeepsClients, StepKeepsTasks, StepKeepsBlocks
  <2>3. HomeInv' /\ CountInv'
    BY <2>1, StepKeepsHome, StepKeepsCounts
  <2>4. QED  BY <1>1, <2>2, <2>3
<1>3. CASE UNCHANGED vars
  <2> USE <1>3 DEF vars, sourceVars, sourceVarsButCalls, placeVars
  <2>1. ClientInv' /\ TaskInv'
    BY DEF ClientInv, TaskInv, Pending
  <2>2. BlockInv'
    <3>1. Distinct' /\ \A t \in Thread : AllocFor(t)' /\ InHand(t)' /\ StorageOf(t)'
      BY DEF BlockInv, Distinct, AllocFor, InHand, StorageOf, Pending, Has, At, Call
    <3>2. \A t \in Thread : KeepsOf(t)' /\ MovingOf(t)'
      BY DEF BlockInv, KeepsOf, MovingOf, Pending, At, Call
    <3>3. \A k \in Task : PlacesOf(k)'
      BY DEF BlockInv, PlacesOf
    <3>4. QED  BY <3>1, <3>2, <3>3 DEF BlockInv
  <2>3. HomeInv'
    BY DEF HomeInv
  <2>4. CountInv'
    <3>1. \A s \in Source : Handles(s)' = Handles(s) /\ BlocksOf(s)' = BlocksOf(s)
      <4>1. ASSUME NEW s \in Source
            PROVE  /\ Shared(s)' = Shared(s)
                   /\ \A t \in Thread : Coming(t)' = Coming(t) /\ Storage(t, s)' = Storage(t, s)
        BY DEF Shared, Storage, Coming, EndsOne
      <4>2. ASSUME NEW s \in Source, NEW t \in Thread
            PROVE  Account(t, s)' = Account(t, s) /\ Released(t, s)' = Released(t, s)
        BY <4>1 DEF Account, Released
      <4>3. \A s \in Source : LiveBlocks(s)' = LiveBlocks(s)
        BY DEF LiveBlocks
      <4>4. QED  BY <4>1, <4>2, <4>3 DEF Handles, BlocksOf
    <3>2. \A s \in Source : EverBlocks(s)' = EverBlocks(s)
      BY DEF EverBlocks
    <3>3. QED  BY <3>1, <3>2 DEF CountInv, Unborn
  <2>5. QED  BY <1>1, <2>1, <2>2, <2>3, <2>4
<1>4. QED  BY <1>2, <1>3

(* The inductive invariant: the order and the stages of OnceInv, who may
   write which handle, task and block, and the books (ref, unref, alloc and
   free of msource.cpp and all that calls them).                           *)
THEOREM CountsInvariant == Spec => []CountsInv
<1>1. Init => CountsInv
  BY InitOnce, InitExtra, InitCount DEF CountsInv, OnceInv
<1>2. CountsInv /\ [Next]_vars => CountsInv'
  BY StepCounts
<1>3. QED  BY <1>1, <1>2, PTL DEF Spec

(* The word of a source counts its handles and its blocks.                 *)
THEOREM CountsAreRight == Spec => []CountsMatch
<1>1. CountsInv => CountsMatch
  <2> SUFFICES ASSUME CountsInv, NEW s \in Source
      PROVE  /\ refs(s) = Shared(s) + Total([t \in Thread |->
                             Refers(t, s) - Ahead(t, s, "ref") + Ahead(t, s, "unref")])
             /\ blocks(s) = Cardinality(LiveBlocks(s)) + Total([t \in Thread |-> Ahead(t, s, "free")])
    BY DEF CountsMatch
  <2>1. BaseInv /\ CountInv
    BY DEF CountsInv, OnceInv
  <2>2. refs(s) = Handles(s) /\ blocks(s) = BlocksOf(s)
    BY <2>1, WordTells
  <2>3. [t \in Thread |-> Refers(t, s) - Ahead(t, s, "ref") + Ahead(t, s, "unref")]
            = [t \in Thread |-> Account(t, s)]
    BY <2>1, AheadCounts
  <2>4. [t \in Thread |-> Ahead(t, s, "free")] = [t \in Thread |-> Released(t, s)]
    BY <2>1, AheadCounts
  <2>5. QED  BY <2>2, <2>3, <2>4 DEF Handles, BlocksOf
<1>2. QED  BY <1>1, CountsInvariant, PTL

==============================================================================
