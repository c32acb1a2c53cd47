------------------------------- MODULE Places -------------------------------
(***************************************************************************)
(* What stands on the memory sources: the handles of the clients, each     *)
(* thread's storage with its stack of places, malloc and its relatives,    *)
(* the sources a node keeps for the others, NodeReplicated, and the place  *)
(* stacks that travel with tasks.  A thread runs a program; an operation   *)
(* does its thread-local part in one step and leaves the calls to the      *)
(* sources in todo, in the order the code makes them.                      *)
(* Initially the main thread has started: the global source and that of    *)
(* every node exist.  The storage of a thread's own stack, which lies in   *)
(* the global source, is left out.                                         *)
(***************************************************************************)
EXTENDS MemSource

CONSTANTS
    Handle,      \* the client's MemSource objects
    Task,        \* tasks, for the place stacks they carry
    GlobalSource,
    NodeSource,  \* MemSource::forNode, by physical node
    HomeOf,      \* the node a thread runs on when its storage is set up
    Scenarios,   \* programs: functions from Thread to sequences of operations
    TlsSize, StackSize, ReplicaSize

(* The operations of a program.                                            *)
Operation ==
         [op : {"pop", "free", "exit"}]
    \cup [op : {"malloc", "realloc"}, bytes : Nat]
    \cup [op : {"memalign"}, bytes : Nat, align : Nat]
    \cup [op : {"push"}, place : [h : Handle, node : {None}] \cup [h : {None}, node : Physical]]
    \cup [op : {"save"}, task : Task, done : BOOLEAN]
    \cup [op : {"restore"}, task : Task]
    \cup [op : {"create", "migrate"}, h : Handle, node : Physical]
    \cup [op : {"copy", "assign", "move"}, from : Handle, h : Handle]
    \cup [op : {"drop"}, h : Handle]
    \cup [op : {"get"}, node : Physical]

ASSUME PlaceAssumption ==
    /\ IsFiniteSet(Handle) /\ IsFiniteSet(Task)
    /\ GlobalSource \in Source /\ NodeSource \in [Physical -> Source]
    /\ HomeOf \in [Thread -> Physical]
    /\ Scenarios \subseteq [Thread -> Seq(Operation)]
    /\ {TlsSize, StackSize, ReplicaSize} \subseteq Nat
    /\ None \notin Handle \cup Task

VARIABLES
    program,   \* per thread: the operations it has yet to begin
    doing,     \* per thread: the last operation it has begun
    hold,      \* the source each handle refers to
    tls,       \* ThreadLocalStorage of each thread
    saved,     \* _place_stack of each task
    msources,  \* NodeLocalStorage: of a node, the source for each node
    nodeLock,  \* NodeLocalStorage::lock
    replica,   \* _global_data of a NodeReplicated
    replicaLock

placeVars == <<program, doing, hold, tls, saved, msources, nodeLock, replica, replicaLock>>
vars == <<sourceVars, placeVars>>

Setup == [op |-> "setup"]
NoStorage == [state |-> "none", own |-> None, stack |-> <<>>, block |-> None]

(***************************************************************************)
(* Calls besides those of MemSource.                                       *)
(***************************************************************************)
Construct == [op |-> "construct"]
InitTls == [op |-> "init"]
SetCurrent == [op |-> "curr"]
PublishLocal(s, n) == [op |-> "publish_local", s |-> s, node |-> n]
UnlockLocal == [op |-> "unlock_local"]
Bind(h, s) == [op |-> "bind", h |-> h, s |-> s]
FreeOld(b) == [op |-> "free_old", b |-> b]
Keep(k, done) == [op |-> "keep", task |-> k, done |-> done]
Unlock(k) == [op |-> "unlock_task", task |-> k]
GetReplica(n) == [op |-> "replica", node |-> n]
PublishReplica(n) == [op |-> "publish_replica", node |-> n]
UnlockReplica == [op |-> "unlock_replica"]

Then(t, calls) == /\ todo' = [todo EXCEPT ![t] = calls \o Tail(@)]
                  /\ pc' = [pc EXCEPT ![t] = "start"]

(* Blocks that are no longer anybody's, but for the call that frees them.  *)
Given(b) == [x \in DOMAIN chunk |-> IF x \in b THEN [chunk[x] EXCEPT !.use = "freed"]
                                   ELSE chunk[x]]

(* The references a copy of places takes, and those their end gives back.  *)
SourcesOf(places) ==
    FlattenSeq([i \in DOMAIN places |->
        IF places[i].msource = None THEN <<>> ELSE <<places[i].msource>>])
RefAll(places) == [i \in DOMAIN SourcesOf(places) |-> Ref(SourcesOf(places)[i])]
UnrefAll(places) == [i \in DOMAIN SourcesOf(places) |-> Unref(SourcesOf(places)[i])]

(***************************************************************************)
(* Thread-local storage.                                                   *)
(***************************************************************************)
(* None: the node has yet to create its source for that place.             *)
get_place_msource(t, p) ==
    IF p.msource # None THEN p.msource
    ELSE IF p.node = HomeOf[t] THEN tls[t].own
    ELSE msources[HomeOf[t]][p.node]
get_curr_msource(t) ==
    IF tls[t].stack = <<>> THEN tls[t].own
    ELSE get_place_msource(t, Last(tls[t].stack))

Fresh == CHOOSE s \in Source : Unborn(s)
CreateSource(n) ==
    /\ \E s \in Source : Unborn(s)
    /\ source' = [source EXCEPT ![Fresh] = NewSource(n, 0)]
    /\ allsources' = allsources \cup {Fresh}

(* getTlsImpl: the first operation that needs the storage sets it up.      *)
NeedsTls == {"malloc", "memalign", "realloc", "push", "pop", "save", "restore"}
Op(t) == Head(program[t])

(* The handles an operation reads, and those it writes.  A handle is an    *)
(* ordinary object: threads that share one synchronise their operations.   *)
Reads(o) == CASE o.op = "push" -> {o.place.h} \ {None}
              [] o.op \in {"copy", "assign"} -> {o.from}
              [] o.op = "migrate" -> {o.h}
              [] OTHER -> {}
Writes(o) == CASE o.op \in {"create", "copy", "assign", "drop"} -> {o.h}
               [] o.op = "move" -> {o.h, o.from}
               [] OTHER -> {}
Conflict(o, p) == \/ Writes(o) \cap (Reads(p) \cup Writes(p)) # {}
                  \/ Reads(o) \cap Writes(p) # {}

Begins(t, op) ==
    /\ todo[t] = <<>> /\ program[t] # <<>> /\ Op(t).op = op
    /\ op \in NeedsTls => tls[t].state = "done"
    /\ \A u \in Thread : todo[u] # <<>> => ~Conflict(Op(t), doing[u])
Begin(t, calls) ==
    /\ program' = [program EXCEPT ![t] = Tail(@)]
    /\ doing' = [doing EXCEPT ![t] = Op(t)]
    /\ todo' = [todo EXCEPT ![t] = calls]
    /\ UNCHANGED pc

getTls(t) ==
    /\ todo[t] = <<>> /\ program[t] # <<>>
    /\ Op(t).op \in NeedsTls /\ tls[t].state = "none"
    /\ todo' = [todo EXCEPT ![t] =
           <<Alloc(GlobalSource, TlsSize, "storage"), Construct, InitTls, SetCurrent>>]
    /\ doing' = [doing EXCEPT ![t] = Setup]
    /\ UNCHANGED <<source, chunk, allsources, pc, my, current, program, hold, tls>>
    /\ UNCHANGED <<saved, msources, nodeLock, replica, replicaLock>>

(* The allocator of the stack and _curr_msource refer to the global source.*)
(* The process does not survive if there is no memory for the storage.     *)
construct(t) ==
    /\ At(t, "construct", "start") /\ my[t].b # None
    /\ tls' = [tls EXCEPT ![t].state = "constructed", ![t].block = my[t].b]
    /\ Then(t, <<Ref(GlobalSource), Ref(GlobalSource)>>)
    /\ UNCHANGED <<source, chunk, allsources, my, current>>
    /\ UNCHANGED <<program, doing, hold, saved, msources, nodeLock, replica, replicaLock>>

(* The second reference is that of the allocator of a temporary stack.     *)
init(t) ==
    /\ At(t, "init", "start")
    /\ CreateSource(HomeOf[t])
    /\ tls' = [tls EXCEPT ![t].state = "done", ![t].own = Fresh]
    /\ Then(t, <<FirstRef(Fresh), Ref(Fresh), Unref(Fresh)>>)
    /\ UNCHANGED <<chunk, my, current>>
    /\ UNCHANGED <<program, doing, hold, saved, msources, nodeLock, replica, replicaLock>>

(* _curr_msource = get_curr_msource().                                     *)
setCurrent(t) ==
    LET new == get_curr_msource(t) IN
    /\ At(t, "curr", "start")
    /\ IF new = None THEN Goto(t, "lock") /\ UNCHANGED current
       ELSE /\ current' = [current EXCEPT ![t] = new]
            /\ Then(t, IF new = current[t] THEN <<>>
                       ELSE <<Ref(new), Unref(current[t])>>)
    /\ UNCHANGED <<source, chunk, allsources, my, placeVars>>

(* NodeLocalStorage::get of a source that was not there yet.               *)
lockLocal(t) ==
    LET home == HomeOf[t] IN
    /\ At(t, "curr", "lock") /\ nodeLock[home] = None
    /\ nodeLock' = [nodeLock EXCEPT ![home] = t]
    /\ Goto(t, "recheck")
    /\ UNCHANGED <<sourceVarsButCalls, program, doing, hold, tls, saved, msources>>
    /\ UNCHANGED <<replica, replicaLock>>

(* Faulty: not checked again under the lock.                               *)
CreateWithoutRecheck(t) ==
    LET n == Last(tls[t].stack).node IN
    /\ At(t, "curr", "recheck")
    /\ pc' = [pc EXCEPT ![t] = "start"]
    /\ CreateSource(n)
    /\ todo' = [todo EXCEPT ![t] =
           <<FirstRef(Fresh), PublishLocal(Fresh, n), UnlockLocal>> \o @]
    /\ UNCHANGED <<chunk, my, current, placeVars>>

recheckLocal(t) ==
    LET n == Last(tls[t].stack).node IN
    /\ At(t, "curr", "recheck")
    /\ pc' = [pc EXCEPT ![t] = "start"]
    /\ IF msources[HomeOf[t]][n] # None
       THEN /\ todo' = [todo EXCEPT ![t] = <<UnlockLocal>> \o @]
            /\ UNCHANGED <<source, allsources>>
       ELSE /\ CreateSource(n)
            /\ todo' = [todo EXCEPT ![t] =
                   <<FirstRef(Fresh), PublishLocal(Fresh, n), UnlockLocal>> \o @]
    /\ UNCHANGED <<chunk, my, current, placeVars>>

publishLocal(t) ==
    /\ At(t, "publish_local", "start")
    /\ msources' = [msources EXCEPT ![HomeOf[t]][Call(t).node] = Call(t).s]
    /\ Then(t, <<>>)
    /\ UNCHANGED <<sourceVarsButCalls, program, doing, hold, tls, saved, nodeLock>>
    /\ UNCHANGED <<replica, replicaLock>>

unlockLocal(t) ==
    /\ At(t, "unlock_local", "start")
    /\ nodeLock' = [nodeLock EXCEPT ![HomeOf[t]] = None]
    /\ Then(t, <<>>)
    /\ UNCHANGED <<sourceVarsButCalls, program, doing, hold, tls, saved, msources>>
    /\ UNCHANGED <<replica, replicaLock>>

(***************************************************************************)
(* The place stack: push, pop, and the stacks of tasks.                    *)
(***************************************************************************)
PlaceOf(p) == IF p.h = None THEN [msource |-> None, node |-> p.node]
              ELSE [msource |-> hold[p.h], node |-> None]
Ready(h) == hold[h] # None

push(t) ==
    LET p == PlaceOf(Op(t).place) IN
    /\ Begins(t, "push")
    /\ Op(t).place.h # None => Ready(Op(t).place.h)
    /\ tls' = [tls EXCEPT ![t].stack = Append(@, p)]
    /\ Begin(t, RefAll(<<p>>) \o <<SetCurrent>>)
    /\ UNCHANGED <<sourceVarsButCalls, hold, saved, msources, nodeLock>>
    /\ UNCHANGED <<replica, replicaLock>>

(* Faulty: the copy handed to the caller is never dropped.                 *)
PopLeakingTheCopy(t) ==
    LET p == <<Last(tls[t].stack)>> IN
    /\ Begins(t, "pop") /\ tls[t].stack # <<>>
    /\ tls' = [tls EXCEPT ![t].stack = Front(@)]
    /\ Begin(t, RefAll(p) \o UnrefAll(p) \o <<SetCurrent>>)
    /\ UNCHANGED <<sourceVarsButCalls, hold, saved, msources, nodeLock>>
    /\ UNCHANGED <<replica, replicaLock>>

(* The place is copied, popped, and the copy dropped by the caller.        *)
pop(t) ==
    LET p == <<Last(tls[t].stack)>> IN
    /\ Begins(t, "pop") /\ tls[t].stack # <<>>
    /\ tls' = [tls EXCEPT ![t].stack = Front(@)]
    /\ Begin(t, RefAll(p) \o UnrefAll(p) \o <<SetCurrent>> \o UnrefAll(p))
    /\ UNCHANGED <<sourceVarsButCalls, hold, saved, msources, nodeLock>>
    /\ UNCHANGED <<replica, replicaLock>>

(* A task that waits or yields takes the stack with it, one that is done   *)
(* drops it; the vector that carries it is allocated while the old places  *)
(* still apply.                                                            *)
pop_all(t) ==
    LET k == Op(t).task IN
    /\ Begins(t, "save") /\ saved[k].worker = t
    /\ Begin(t, (IF tls[t].stack = <<>> THEN <<>>
                 ELSE <<Alloc(current[t], StackSize, "places")>>)
                \o <<Keep(k, Op(t).done)>>)
    /\ UNCHANGED <<sourceVarsButCalls, hold, tls, saved, msources, nodeLock>>
    /\ UNCHANGED <<replica, replicaLock>>

(* The new vector replaces the task's old one, whose places are gone; with *)
(* a task that is done both vectors go.  No memory for it is an exception  *)
(* that nobody catches.                                                    *)
keep(t) ==
    LET k == Call(t).task
        done == Call(t).done
        stack == tls[t].stack
        new == IF stack = <<>> THEN <<>> ELSE <<my[t].b>>
        gone == saved[k].block \o (IF done THEN new ELSE <<>>)
    IN  /\ At(t, "keep", "start") /\ (stack # <<>> => my[t].b # None)
        /\ saved' = [saved EXCEPT ![k].stack = IF done THEN <<>> ELSE stack,
                                  ![k].block = IF done THEN <<>> ELSE new]
        /\ tls' = [tls EXCEPT ![t].stack = <<>>]
        /\ chunk' = Given(ToSet(gone))
        /\ Then(t, RefAll(stack) \o UnrefAll(stack) \o <<SetCurrent>> \o
                   (IF done THEN UnrefAll(stack) ELSE <<>>) \o
                   [i \in DOMAIN gone |-> Dealloc(gone[i])] \o <<Unlock(k)>>)
        /\ UNCHANGED <<source, allsources, my, current>>
        /\ UNCHANGED <<program, doing, hold, msources, nodeLock, replica, replicaLock>>

(* The task's _mutex, which schedule takes, is free again.                 *)
unlockTask(t) ==
    /\ At(t, "unlock_task", "start")
    /\ saved' = [saved EXCEPT ![Call(t).task].worker = None]
    /\ Then(t, <<>>)
    /\ UNCHANGED <<sourceVarsButCalls, program, doing, hold, tls, msources, nodeLock>>
    /\ UNCHANGED <<replica, replicaLock>>

(* Faulty: the current source is not looked up again.                      *)
PushAllKeepingCurrent(t) ==
    LET k == Op(t).task
        places == saved[k].stack
    IN  /\ Begins(t, "restore") /\ saved[k].worker = None
        /\ saved' = [saved EXCEPT ![k].worker = t, ![k].stack = <<>>]
        /\ tls' = [tls EXCEPT ![t].stack = @ \o places]
        /\ Begin(t, RefAll(places) \o UnrefAll(places))
        /\ UNCHANGED <<sourceVarsButCalls, hold, msources, nodeLock>>
        /\ UNCHANGED <<replica, replicaLock>>

(* Task::schedule: the places are pushed and the task's copies dropped.    *)
push_all(t) ==
    LET k == Op(t).task
        places == saved[k].stack
    IN  /\ Begins(t, "restore") /\ saved[k].worker = None
        /\ saved' = [saved EXCEPT ![k].worker = t, ![k].stack = <<>>]
        /\ tls' = [tls EXCEPT ![t].stack = @ \o places]
        /\ Begin(t, RefAll(places) \o <<SetCurrent>> \o UnrefAll(places))
        /\ UNCHANGED <<sourceVarsButCalls, hold, msources, nodeLock>>
        /\ UNCHANGED <<replica, replicaLock>>

(* The thread ends: the members of its storage in reverse order.           *)
tlsDestructionFunc(t) ==
    /\ Begins(t, "exit")
    /\ Begin(t, IF tls[t].state = "none" THEN <<>>
                ELSE <<Unref(current[t])>> \o UnrefAll(tls[t].stack) \o
                     <<Unref(GlobalSource), Unref(tls[t].own), Dealloc(tls[t].block)>>)
    /\ tls' = [tls EXCEPT ![t] = NoStorage]
    /\ current' = [current EXCEPT ![t] = GlobalSource]
    /\ chunk' = Given({tls[t].block})
    /\ UNCHANGED <<source, allsources, my>>
    /\ UNCHANGED <<hold, saved, msources, nodeLock, replica, replicaLock>>

(***************************************************************************)
(* malloc and its relatives.                                               *)
(***************************************************************************)
malloc(t) ==
    /\ Begins(t, "malloc")
    /\ Begin(t, <<Alloc(current[t], Op(t).bytes, "block")>>)
    /\ UNCHANGED <<sourceVarsButCalls, hold, tls, saved, msources, nodeLock>>
    /\ UNCHANGED <<replica, replicaLock>>

(* Room for the alignment and a second footer is allocated as well.        *)
alloc_align(bytes, align) == bytes + align + FooterSize
memalign(t) ==
    /\ Begins(t, "memalign")
    /\ Begin(t, <<Alloc(current[t], alloc_align(Op(t).bytes, Op(t).align), "block")>>)
    /\ UNCHANGED <<sourceVarsButCalls, hold, tls, saved, msources, nodeLock>>
    /\ UNCHANGED <<replica, replicaLock>>

(* Any thread may free any block; there may be none.                       *)
Blocks == {b \in DOMAIN chunk : chunk[b].use = "block"}
free(t) ==
    /\ Begins(t, "free")
    /\ \/ Blocks = {} /\ Begin(t, <<>>) /\ UNCHANGED chunk
       \/ \E b \in Blocks :
              /\ chunk' = Given({b})
              /\ Begin(t, <<Dealloc(b)>>)
    /\ UNCHANGED <<source, allsources, my, current>>
    /\ UNCHANGED <<hold, tls, saved, msources, nodeLock, replica, replicaLock>>

(* Of a mapped chunk this is the size of the whole mapping.                *)
get_block_size(b) ==
    IF chunk[b].arena = None THEN chunk[b].size ELSE chunk[b].bytes

realloc(t) ==
    LET bytes == Op(t).bytes IN
    /\ Begins(t, "realloc")
    /\ \/ Blocks = {} /\ UNCHANGED chunk
          /\ Begin(t, <<Alloc(current[t], bytes, "block")>>)
       \/ \E b \in Blocks :
              IF bytes < get_block_size(b) THEN Begin(t, <<>>) /\ UNCHANGED chunk
              ELSE /\ chunk' = [chunk EXCEPT ![b].use = "moving"]
                   /\ Begin(t, <<Alloc(current[t], bytes, "block"), FreeOld(b)>>)
    /\ UNCHANGED <<source, allsources, my, current>>
    /\ UNCHANGED <<hold, tls, saved, msources, nodeLock, replica, replicaLock>>

(* The old block goes when there is a new one.                             *)
freeOld(t) ==
    LET b == Call(t).b
        moved == my[t].b # None
    IN  /\ At(t, "free_old", "start")
        /\ chunk' = [chunk EXCEPT ![b].use = IF moved THEN "freed" ELSE "block"]
        /\ Then(t, IF moved THEN <<Dealloc(b)>> ELSE <<>>)
        /\ UNCHANGED <<source, allsources, my, current, placeVars>>

(***************************************************************************)
(* Handles: create, copy, assignments, destructor, migrate.                *)
(***************************************************************************)
create(t) ==
    /\ Begins(t, "create") /\ hold[Op(t).h] = None /\ CreateSource(Op(t).node)
    /\ Begin(t, <<FirstRef(Fresh), Bind(Op(t).h, Fresh)>>)
    /\ UNCHANGED <<chunk, my, current>>
    /\ UNCHANGED <<hold, tls, saved, msources, nodeLock, replica, replicaLock>>

copy(t) ==
    /\ Begins(t, "copy") /\ Ready(Op(t).from) /\ hold[Op(t).h] = None
    /\ Begin(t, <<Ref(hold[Op(t).from]), Bind(Op(t).h, hold[Op(t).from])>>)
    /\ UNCHANGED <<sourceVarsButCalls, hold, tls, saved, msources, nodeLock>>
    /\ UNCHANGED <<replica, replicaLock>>

(* From here on others may use the handle.                                 *)
bind(t) ==
    /\ At(t, "bind", "start")
    /\ hold' = [hold EXCEPT ![Call(t).h] = Call(t).s]
    /\ Then(t, <<>>)
    /\ UNCHANGED <<sourceVarsButCalls, program, doing, tls, saved, msources, nodeLock>>
    /\ UNCHANGED <<replica, replicaLock>>

(* The new source is referenced before the old one is given back.          *)
assign(t) ==
    LET h == Op(t).h
        new == hold[Op(t).from]
        old == hold[h]
    IN  /\ Begins(t, "assign") /\ Ready(Op(t).from)
        /\ hold' = [hold EXCEPT ![h] = new]
        /\ Begin(t, IF new = old THEN <<>>
                    ELSE <<Ref(new)>> \o (IF old = None THEN <<>> ELSE <<Unref(old)>>))
        /\ UNCHANGED <<sourceVarsButCalls, tls, saved, msources, nodeLock>>
        /\ UNCHANGED <<replica, replicaLock>>

move(t) ==
    LET h == Op(t).h IN
    /\ Begins(t, "move") /\ Ready(Op(t).from) /\ h # Op(t).from
    /\ hold' = [hold EXCEPT ![h] = hold[Op(t).from], ![Op(t).from] = None]
    /\ Begin(t, IF hold[h] = None THEN <<>> ELSE <<Unref(hold[h])>>)
    /\ UNCHANGED <<sourceVarsButCalls, tls, saved, msources, nodeLock>>
    /\ UNCHANGED <<replica, replicaLock>>

drop(t) ==
    LET h == Op(t).h IN
    /\ Begins(t, "drop") /\ Ready(h)
    /\ hold' = [hold EXCEPT ![h] = None]
    /\ Begin(t, <<Unref(hold[h])>>)
    /\ UNCHANGED <<sourceVarsButCalls, tls, saved, msources, nodeLock>>
    /\ UNCHANGED <<replica, replicaLock>>

migrate(t) ==
    /\ Begins(t, "migrate") /\ Ready(Op(t).h)
    /\ Begin(t, <<Migrate(hold[Op(t).h], Op(t).node)>>)
    /\ UNCHANGED <<sourceVarsButCalls, hold, tls, saved, msources, nodeLock>>
    /\ UNCHANGED <<replica, replicaLock>>

(***************************************************************************)
(* NodeReplicated::get.                                                    *)
(***************************************************************************)
get(t) ==
    LET n == Op(t).node IN
    /\ Begins(t, "get")
    /\ Begin(t, IF replica[n] = None THEN <<GetReplica(n)>> ELSE <<>>)
    /\ UNCHANGED <<sourceVarsButCalls, hold, tls, saved, msources, nodeLock>>
    /\ UNCHANGED <<replica, replicaLock>>

lockReplica(t) ==
    /\ At(t, "replica", "start") /\ replicaLock = None
    /\ replicaLock' = t
    /\ Goto(t, "recheck")
    /\ UNCHANGED <<sourceVarsButCalls, program, doing, hold, tls, saved, msources>>
    /\ UNCHANGED <<nodeLock, replica>>

(* Faulty: an object that is there after all is returned under the lock.   *)
ReplicaKeepingLock(t) ==
    LET n == Call(t).node IN
    /\ At(t, "replica", "recheck")
    /\ Then(t, IF replica[n] # None THEN <<>>
               ELSE <<Alloc(NodeSource[n], ReplicaSize, "replica"), PublishReplica(n),
                      UnlockReplica>>)
    /\ UNCHANGED <<sourceVarsButCalls, placeVars>>

recheckReplica(t) ==
    LET n == Call(t).node IN
    /\ At(t, "replica", "recheck")
    /\ Then(t, (IF replica[n] # None THEN <<>>
                ELSE <<Alloc(NodeSource[n], ReplicaSize, "replica"), PublishReplica(n)>>)
               \o <<UnlockReplica>>)
    /\ UNCHANGED <<sourceVarsButCalls, placeVars>>

publishReplica(t) ==
    /\ At(t, "publish_replica", "start")
    /\ replica' = [replica EXCEPT ![Call(t).node] = my[t].b]
    /\ Then(t, <<>>)
    /\ UNCHANGED <<sourceVarsButCalls, program, doing, hold, tls, saved, msources>>
    /\ UNCHANGED <<nodeLock, replicaLock>>

unlockReplica(t) ==
    /\ At(t, "unlock_replica", "start")
    /\ replicaLock' = None
    /\ Then(t, <<>>)
    /\ UNCHANGED <<sourceVarsButCalls, program, doing, hold, tls, saved, msources>>
    /\ UNCHANGED <<nodeLock, replica>>

(***************************************************************************)
(* The program.                                                            *)
(***************************************************************************)
(* Who refers to the sources of a started program: of the global one its   *)
(* own handle and the allocators of two vectors; of a node's source the    *)
(* list of forNode, and in the storage of the node local_msource, its      *)
(* vector's allocator and its place in that vector.                        *)
StartupRefs(s) == IF s = GlobalSource THEN 3
                  ELSE 4 * Cardinality({n \in Physical : NodeSource[n] = s})
NodeOfSource(s) == IF s = GlobalSource THEN -1
                   ELSE CHOOSE n \in Physical : NodeSource[n] = s

Init ==
    /\ source = [s \in Source |-> IF StartupRefs(s) = 0 THEN Unused
                                  ELSE NewSource(NodeOfSource(s), StartupRefs(s))]
    /\ chunk = <<>>
    /\ allsources = {s \in Source : StartupRefs(s) > 0}
    /\ todo = [t \in Thread |-> <<>>]
    /\ pc = [t \in Thread |-> "start"]
    /\ my = [t \in Thread |-> [b |-> None, k |-> 0, grown |-> FALSE]]
    /\ current = [t \in Thread |-> GlobalSource]
    /\ program \in Scenarios
    /\ doing = [t \in Thread |-> Setup]
    /\ hold = [h \in Handle |-> None]
    /\ tls = [t \in Thread |-> NoStorage]
    /\ saved = [k \in Task |-> [worker |-> None, stack |-> <<>>, block |-> <<>>]]
    /\ msources = [n \in Physical |-> [m \in Physical |->
                      IF n = m THEN NodeSource[n] ELSE None]]
    /\ nodeLock = [n \in Physical |-> None]
    /\ replica = [n \in Physical |-> None]
    /\ replicaLock = None

PlaceStep(t) ==
    \/ getTls(t) \/ construct(t) \/ init(t) \/ setCurrent(t)
    \/ lockLocal(t) \/ recheckLocal(t) \/ publishLocal(t) \/ unlockLocal(t)
    \/ push(t) \/ pop(t) \/ pop_all(t) \/ keep(t) \/ unlockTask(t)
    \/ push_all(t) \/ tlsDestructionFunc(t)
    \/ malloc(t) \/ memalign(t) \/ free(t) \/ realloc(t) \/ freeOld(t)
    \/ create(t) \/ copy(t) \/ bind(t) \/ assign(t) \/ move(t) \/ drop(t)
    \/ migrate(t)
    \/ get(t) \/ lockReplica(t) \/ recheckReplica(t) \/ publishReplica(t)
    \/ unlockReplica(t)

Step(t) == PlaceStep(t) \/ (SourceStep(t) /\ UNCHANGED placeVars)
Next == \E t \in Thread : Step(t)
Spec == Init /\ [][Next]_vars
FairSpec == Spec /\ \A t \in Thread : WF_vars(Step(t))

(***************************************************************************)
(* Properties.                                                             *)
(***************************************************************************)
Ending(t, s) == todo[t] # <<>> /\ pc[t] \in {"remove", "destroy"} /\ Call(t).s = s
EndsOne(t) == pc[t] \in {"remove", "destroy"}

(* The sum of the values of a function.                                    *)
Total(f) ==
    LET Units(sign) == UNION {{x} \X (1 .. sign * f[x]) : x \in DOMAIN f}
    IN  Cardinality(Units(1)) - Cardinality(Units(-1))
One(cond) == IF cond THEN 1 ELSE 0

(* Calls that a thread is about to make, but for one it has done with.     *)
Coming(t) == IF EndsOne(t) THEN Tail(todo[t]) ELSE todo[t]
Ahead(t, s, op) ==
    Cardinality({i \in DOMAIN Coming(t) : Coming(t)[i].op = op /\ Coming(t)[i].s = s})

(* The places in memory that hold a reference to s: those of a thread, and *)
(* those of everybody.                                                     *)
InStack(places, s) == Cardinality({i \in DOMAIN places : places[i].msource = s})
Refers(t, s) ==
    (IF tls[t].state = "none" THEN 0
     ELSE One(s = GlobalSource) + One(current[t] = s) + One(tls[t].own = s)
          + InStack(tls[t].stack, s))
    + Ahead(t, s, "bind") + Ahead(t, s, "publish_local")
Shared(s) ==
    StartupRefs(s)
    + Cardinality({x \in Physical \X Physical : x[1] # x[2] /\ msources[x[1]][x[2]] = s})
    + Total([k \in Task |-> InStack(saved[k].stack, s)])
    + Cardinality({h \in Handle : hold[h] = s})
LiveBlocks(s) == {b \in DOMAIN chunk : chunk[b].source = s /\
                                       chunk[b].use \notin {"none", "freed"}}

(* The one word of a source counts its handles and its blocks exactly: what*)
(* refers to it, less the references a thread is about to take, plus those *)
(* it is about to give back (BlockCount and every ref and unref).          *)
CountsMatch ==
    \A s \in Source :
        /\ refs(s) = Shared(s) + Total([t \in Thread |->
                         Refers(t, s) - Ahead(t, s, "ref") + Ahead(t, s, "unref")])
        /\ blocks(s) = Cardinality(LiveBlocks(s))
                         + Total([t \in Thread |-> Ahead(t, s, "free")])

(* A source is destroyed by exactly one thread, when nothing refers to it  *)
(* and no block of it is left, and by then at the latest; until then       *)
(* everybody who works on it finds it, and every block is mapped (destroy  *)
(* against ref, unref, alloc, free and migrate).                           *)
LivesWhileUsed ==
    /\ \A s \in Source : ~Unborn(s) =>
        LET used == \/ Shared(s) > 0 \/ LiveBlocks(s) # {}
                    \/ \E t \in Thread :
                          Refers(t, s) + Ahead(t, s, "unref") + Ahead(t, s, "free") > 0
        IN  /\ used <=> source[s].state = "alive" /\ ~\E t \in Thread : Ending(t, s)
            /\ source[s].state # "destroyed_twice"
            /\ \A t, u \in Thread : Ending(t, s) /\ Ending(u, s) => t = u
            /\ s \in allsources => source[s].state = "alive"
            /\ \A b \in LiveBlocks(s) : chunk[b].mapped
    /\ \A t \in Thread :
          todo[t] # <<>> /\ Call(t).op \in {"ref", "unref", "alloc", "free", "migrate"}
          => source[Call(t).s].state = "alive"

(* Who is inside: by what it executes, not by what the locks say.          *)
In(t, s, op, labels) ==
    todo[t] # <<>> /\ Call(t).op = op /\ pc[t] \in labels /\ Call(t).s = s
InArenas(t, s) == \/ In(t, s, "alloc", {"arena", "leave", "grow", "unlock"})
                  \/ In(t, s, "migrate", {"chunks", "arenas", "pages"})
InChunks(t, s) == \/ In(t, s, "alloc", {"linked"}) \/ In(t, s, "free", {"unlinked"})
                  \/ In(t, s, "migrate", {"arenas", "pages", "unlock_chunks"})
InMspace(t, s, k) ==
    \/ (In(t, s, "alloc", {"leave"}) \/ In(t, s, "free", {"freed"})) /\ my[t].k = k
    \/ In(t, s, "migrate", {"arenas"}) /\ k > my[t].k
    \/ In(t, s, "migrate", {"pages", "unlock_chunks", "walk"})
    \/ In(t, s, "migrate", {"unlock_arenas"}) /\ k <= my[t].k

(* Every lock is held by exactly the thread that is inside: none is left   *)
(* behind, none is released for somebody else.  migrate walks the arenas   *)
(* twice, the second time without arena_lock.                              *)
LocksMatch ==
    \A s \in Source, t \in Thread :
        /\ source[s].arena_lock = t <=> InArenas(t, s)
        /\ source[s].mmapped_chunk_lock = t <=> InChunks(t, s)
        /\ \A k \in DOMAIN source[s].arenas :
              source[s].arenas[k].mspace_lock = t <=> InMspace(t, s, k)

(* The list of mapped chunks is doubly linked and holds every directly     *)
(* mapped chunk that is in use, once, so that stats() reports what is there*)
(* (alloc and free_impl).                                                  *)
ChunkListIsWhole ==
    \A s \in Source :
        LET list == mmapped(s)
            InUse == {b \in DOMAIN chunk :
                /\ chunk[b].source = s /\ chunk[b].arena = None /\ chunk[b].mapped
                /\ \A t \in Thread : ~(In(t, s, "alloc", {"link"}) /\ my[t].b = b)
                                     /\ ~(In(t, s, "free", {"unlinked"}) /\ Call(t).b = b)}
        IN  source[s].state = "alive" =>
               /\ ToSet(list) = InUse /\ stats(s).hugeobj_count = Cardinality(InUse)
               /\ \A i \in DOMAIN list :
                     chunk[list[i]].prev = IF i = 1 THEN None ELSE list[i - 1]

(* Between operations malloc goes to the place on top of the stack, or to  *)
(* the thread's own source if there is none (push, pop, pop_all, push_all).*)
CurrentIsTop ==
    \A t \in Thread : todo[t] = <<>> /\ tls[t].state = "done" =>
        current[t] = get_curr_msource(t)

(* What is created on demand is created once (NodeLocalStorage::get,       *)
(* NodeReplicated::get).                                                   *)
CreatedOnce ==
    [][/\ \A n, m \in Physical : msources[n][m] # None =>
             msources'[n][m] = msources[n][m]
       /\ \A n \in Physical : replica[n] # None => replica'[n] = replica[n]]_vars

(* A source as its users see it.                                           *)
life == [s \in Source |->
            IF Unborn(s) THEN "unborn"
            ELSE IF source[s].state # "alive" THEN "gone"
            ELSE IF \E t \in Thread : Ending(t, s) THEN "over"
            ELSE IF source[s].blocks = 0 THEN "new" ELSE "used"]
handles == [s \in Source |-> refs(s)]
inUse == [s \in Source |-> blocks(s)]
Lifetime == INSTANCE SourceLifetime

(* Sources keep the promise of SourceLifetime (ref, unref, alloc, free and *)
(* destroy), and an abandoned one does go back to the system.              *)
ImplementsLifetime == Lifetime!Spec

(* No operation is left hanging in a lock.                                 *)
EveryOperationReturns ==
    \A t \in Thread : []<>(todo[t] = <<>>)
=============================================================================
