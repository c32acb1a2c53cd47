----------------------------- MODULE MemSource ------------------------------
(***************************************************************************)
(* Memory sources: each owns arenas (mspaces) and directly mapped chunks,  *)
(* counts its blocks and the handles to it in one atomic word, and is      *)
(* destroyed by whoever takes the last of them away.  Threads work off a   *)
(* list of calls, todo, step by step; a step is what one lock or one       *)
(* atomic operation makes atomic.  An arena is abstracted to the room left *)
(* in it; what happens inside is the subject of Mspace.                    *)
(***************************************************************************)
EXTENDS Integers, FiniteSetsExt, SequencesExt, Functions

CONSTANTS
    Thread, Source,
    Physical,        \* physical node ids
    MmapThreshold,   \* PGASUS_MMAP_THRESHOLD, in units of memory
    MmapLimit,       \* requests the system has no memory for
    FooterSize,      \* ChunkFooter::DATA_OFFSET()
    MmapFooterSize,  \* MmapChunkFooter::DATA_OFFSET()
    NativeRoom,      \* room in the arena a source is created with
    ArenaRoom,       \* room in an arena added later
    MaxArenas,       \* bound: the system has memory for that many arenas
    MaxChunks,       \* bound: chunks allocated over all
    BlockBits,       \* BlockCount::BlockBits: 40 in the code
    None

(* RefUnit: one handle in the word that counts handles and blocks.         *)
RefUnit == 2^BlockBits

ASSUME CountAssumption ==
    /\ BlockBits \in Nat \ {0} /\ RefUnit \in Nat
    /\ MaxChunks \in Nat /\ MaxChunks < RefUnit
    /\ IsFiniteSet(Thread) /\ IsFiniteSet(Physical)
    /\ {MmapThreshold, MmapLimit, FooterSize, MmapFooterSize, NativeRoom, ArenaRoom,
        MaxArenas} \subseteq Nat
    /\ None \notin Thread \cup Source \cup Physical \cup Int

VARIABLES
    source,      \* MemSourceImpl objects
    chunk,       \* the chunks allocated so far, in order
    allsources,  \* s_allsources
    todo,        \* per thread: the calls it has yet to execute
    pc,          \* per thread: where it is in the first of them
    my,          \* per thread: the chunk b, the arena k, and the new source s
    current      \* per thread: the source its own malloc calls go to

sourceVarsButCalls == <<source, chunk, allsources, my, current>>
sourceVars == <<sourceVarsButCalls, todo, pc>>

(***************************************************************************)
(* State.                                                                  *)
(***************************************************************************)
(* The calls.  A new source has no handle until that of its creator.       *)
Ref(s) == [op |-> "ref", s |-> s, first |-> FALSE]
FirstRef(s) == [op |-> "ref", s |-> s, first |-> TRUE]
Unref(s) == [op |-> "unref", s |-> s]
Alloc(s, bytes, use) == [op |-> "alloc", s |-> s, bytes |-> bytes, use |-> use]
Dealloc(b) == [op |-> "free", s |-> chunk[b].source, b |-> b]
Migrate(s, n) == [op |-> "migrate", s |-> s, node |-> n]

Call(t) == Head(todo[t])
At(t, op, label) == todo[t] # <<>> /\ Call(t).op = op /\ pc[t] = label
Goto(t, label) == pc' = [pc EXCEPT ![t] = label] /\ UNCHANGED todo
Return(t) == pc' = [pc EXCEPT ![t] = "start"] /\
             todo' = [todo EXCEPT ![t] = Tail(@)]

Arena(room) == [room |-> room, mspace_lock |-> None]

(* The last arena of the sequence is the active one, its ->next precedes   *)
(* it; the first one is the native arena.                                  *)
Unused == [state |-> "unused", node |-> None, blocks |-> 0, arenas |-> <<>>,
           arena_lock |-> None, mmapped_chunk_lock |-> None,
           mmapped_chunk_head |-> None]
NewSource(n, refs) ==
    [Unused EXCEPT !.state = "alive", !.node = n,
                   !.blocks = refs * RefUnit, !.arenas = <<Arena(NativeRoom)>>]
Unborn(s) == source[s].state = "unused"

active(s) == Len(source[s].arenas)

(* BlockCount: blocks in the low bits, handles in the high ones.           *)
blocks(s) == source[s].blocks % RefUnit
refs(s) == source[s].blocks \div RefUnit
Add(s, delta) == source' = [source EXCEPT ![s].blocks = @ + delta]
(* Faulty: the source ends with its last handle, blocks or not.            *)
LastHandleOnly(s, delta) == (source[s].blocks - delta) \div RefUnit = 0
isLastDeref(s, delta) == source[s].blocks = delta

(***************************************************************************)
(* Handles, and the end of a source.                                       *)
(***************************************************************************)
ref(t) ==
    /\ At(t, "ref", "start")
    /\ Add(Call(t).s, RefUnit)
    /\ Return(t)
    /\ UNCHANGED <<chunk, allsources, my, current>>

(* The last handle but this one is gone: the description is logged.        *)
unrefLook(t) ==
    /\ At(t, "unref", "start")
    /\ Goto(t, IF refs(Call(t).s) = 1 THEN "describe" ELSE "deref")
    /\ UNCHANGED <<source, chunk, allsources, my, current>>

unrefDescribe(t) ==
    /\ At(t, "unref", "describe")
    /\ Goto(t, "deref")
    /\ UNCHANGED <<source, chunk, allsources, my, current>>

unrefDeref(t) ==
    LET s == Call(t).s IN
    /\ At(t, "unref", "deref")
    /\ Add(s, -RefUnit)
    /\ IF isLastDeref(s, RefUnit) THEN Goto(t, "remove") ELSE Return(t)
    /\ UNCHANGED <<chunk, allsources, my, current>>

destroyRemove(t) ==
    /\ todo[t] # <<>> /\ pc[t] = "remove"
    /\ allsources' = allsources \ {Call(t).s}
    /\ Goto(t, "destroy")
    /\ UNCHANGED <<source, chunk, my, current>>

(* The chunks of the list of s, from its head.                             *)
mmapped(s) ==
    LET From[b \in DOMAIN chunk \cup {None}, left \in 0..MaxChunks] ==
            IF b = None \/ left = 0 THEN <<>>
            ELSE <<b>> \o From[chunk[b].next, left - 1]
    IN  From[source[s].mmapped_chunk_head, MaxChunks]

(* Arenas and listed chunks go back to the system.                         *)
destroyFinish(t) ==
    LET s == Call(t).s
        gone == {b \in DOMAIN chunk : chunk[b].source = s /\
                    (chunk[b].arena # None \/ b \in ToSet(mmapped(s)))}
    IN  /\ todo[t] # <<>> /\ pc[t] = "destroy"
        /\ source' = [source EXCEPT ![s].state =
                         IF @ = "alive" THEN "destroyed" ELSE "destroyed_twice",
                                    ![s].arenas = <<>>]
        /\ chunk' = [b \in DOMAIN chunk |->
                        IF b \in gone THEN [chunk[b] EXCEPT !.mapped = FALSE]
                        ELSE chunk[b]]
        /\ Return(t)
        /\ UNCHANGED <<allsources, my, current>>

(***************************************************************************)
(* alloc.                                                                  *)
(***************************************************************************)
NewChunk(t, k, size) ==
    /\ Len(chunk) < MaxChunks
    /\ chunk' = Append(chunk,
           [source |-> Call(t).s, arena |-> k, size |-> size,
            bytes |-> Call(t).bytes, use |-> "none", mapped |-> TRUE,
            prev |-> None, next |-> None])
    /\ my' = [my EXCEPT ![t].b = Len(chunk) + 1]

(* A large request is mapped directly; mmap fails if it is too large.      *)
allocMap(t) ==
    /\ At(t, "alloc", "start") /\ Call(t).bytes >= MmapThreshold
    /\ \/ /\ Call(t).bytes < MmapLimit
          /\ NewChunk(t, None, Call(t).bytes + MmapFooterSize)
          /\ Goto(t, "link")
       \/ /\ Call(t).bytes >= MmapLimit
          /\ Return(t)
          /\ my' = [my EXCEPT ![t].b = None]
          /\ UNCHANGED chunk
    /\ UNCHANGED <<source, allsources, current>>

allocLink(t) ==
    LET s == Call(t).s
        b == my[t].b
        head == source[s].mmapped_chunk_head
        linked == [chunk EXCEPT ![b].next = head]
    IN  /\ At(t, "alloc", "link") /\ source[s].mmapped_chunk_lock = None
        /\ source' = [source EXCEPT ![s].mmapped_chunk_lock = t,
                                    ![s].mmapped_chunk_head = b]
        /\ chunk' = IF head = None THEN linked
                    ELSE [linked EXCEPT ![head].prev = b]
        /\ Goto(t, "linked")
        /\ UNCHANGED <<allsources, my, current>>

allocLinked(t) ==
    /\ At(t, "alloc", "linked")
    /\ source' = [source EXCEPT ![Call(t).s].mmapped_chunk_lock = None]
    /\ Goto(t, "count")
    /\ UNCHANGED <<chunk, allsources, my, current>>

allocLock(t) ==
    LET s == Call(t).s IN
    /\ At(t, "alloc", "start") /\ Call(t).bytes < MmapThreshold
    /\ source[s].arena_lock = None
    /\ source' = [source EXCEPT ![s].arena_lock = t]
    /\ my' = [my EXCEPT ![t].b = None, ![t].k = active(s), ![t].grown = FALSE]
    /\ Goto(t, "arena")
    /\ UNCHANGED <<chunk, allsources, current>>

(* Arena::alloc.                                                           *)
arenaAlloc(t) ==
    LET s == Call(t).s
        k == my[t].k
        size == Call(t).bytes + FooterSize
        fits == source[s].arenas[k].room >= size
    IN  /\ At(t, "alloc", "arena") /\ source[s].arenas[k].mspace_lock = None
        /\ source' = [source EXCEPT ![s].arenas[k] =
               [room |-> @.room - (IF fits THEN size ELSE 0), mspace_lock |-> t]]
        /\ IF fits THEN NewChunk(t, k, size) ELSE UNCHANGED <<chunk, my>>
        /\ Goto(t, "leave")
        /\ UNCHANGED <<allsources, current>>

arenaAllocEnd(t) ==
    /\ At(t, "alloc", "leave")
    /\ source' = [source EXCEPT ![Call(t).s].arenas[my[t].k].mspace_lock = None]
    /\ Goto(t, IF my[t].b = None /\ ~my[t].grown THEN "grow" ELSE "unlock")
    /\ UNCHANGED <<chunk, allsources, my, current>>

create_new_arena(t) ==
    LET s == Call(t).s IN
    /\ At(t, "alloc", "grow")
    /\ IF active(s) < MaxArenas
       THEN /\ source' = [source EXCEPT ![s].arenas = Append(@, Arena(ArenaRoom))]
            /\ my' = [my EXCEPT ![t].k = active(s) + 1, ![t].grown = TRUE]
            /\ Goto(t, "arena")
       ELSE Goto(t, "unlock") /\ UNCHANGED <<source, my>>
    /\ UNCHANGED <<chunk, allsources, current>>

allocUnlock(t) ==
    /\ At(t, "alloc", "unlock")
    /\ source' = [source EXCEPT ![Call(t).s].arena_lock = None]
    /\ IF my[t].b = None THEN Return(t) ELSE Goto(t, "count")
    /\ UNCHANGED <<chunk, allsources, my, current>>

(* Faulty: mapped chunks are not counted.                                  *)
CountArenaBlocksOnly(t) ==
    /\ At(t, "alloc", "count")
    /\ Add(Call(t).s, IF chunk[my[t].b].arena = None THEN 0 ELSE 1)
    /\ chunk' = [chunk EXCEPT ![my[t].b].use = Call(t).use]
    /\ Return(t)
    /\ UNCHANGED <<allsources, my, current>>

(* blocks.addBlock(); the block is the caller's from here on.              *)
allocCount(t) ==
    /\ At(t, "alloc", "count")
    /\ Add(Call(t).s, 1)
    /\ chunk' = [chunk EXCEPT ![my[t].b].use = Call(t).use]
    /\ Return(t)
    /\ UNCHANGED <<allsources, my, current>>

(***************************************************************************)
(* free.                                                                   *)
(***************************************************************************)
freeInArena(t) ==
    LET s == Call(t).s
        c == chunk[Call(t).b]
    IN  /\ At(t, "free", "start") /\ c.arena # None
        /\ source[s].arenas[c.arena].mspace_lock = None
        /\ source' = [source EXCEPT ![s].arenas[c.arena] =
                         [room |-> @.room + c.size, mspace_lock |-> t]]
        /\ my' = [my EXCEPT ![t].k = c.arena]
        /\ Goto(t, "freed")
        /\ UNCHANGED <<chunk, allsources, current>>

freeInArenaEnd(t) ==
    /\ At(t, "free", "freed")
    /\ source' = [source EXCEPT ![Call(t).s].arenas[my[t].k].mspace_lock = None]
    /\ Goto(t, "uncount")
    /\ UNCHANGED <<chunk, allsources, my, current>>

(* Faulty: the next chunk keeps its link to the one that goes.             *)
UnlinkForwardOnly(t) ==
    LET s == Call(t).s
        c == chunk[Call(t).b]
    IN  /\ At(t, "free", "start") /\ c.arena = None
        /\ source[s].mmapped_chunk_lock = None
        /\ source' = [source EXCEPT ![s].mmapped_chunk_lock = t,
                         ![s].mmapped_chunk_head =
                              IF c.prev = None THEN c.next ELSE @]
        /\ chunk' = IF c.prev = None THEN chunk
                    ELSE [chunk EXCEPT ![c.prev].next = c.next]
        /\ Goto(t, "unlinked")
        /\ UNCHANGED <<allsources, my, current>>

(* Out of the list of mapped chunks.                                       *)
freeUnlink(t) ==
    LET s == Call(t).s
        c == chunk[Call(t).b]
        before == IF c.prev = None THEN chunk
                  ELSE [chunk EXCEPT ![c.prev].next = c.next]
    IN  /\ At(t, "free", "start") /\ c.arena = None
        /\ source[s].mmapped_chunk_lock = None
        /\ source' = [source EXCEPT ![s].mmapped_chunk_lock = t,
                         ![s].mmapped_chunk_head =
                              IF c.prev = None THEN c.next ELSE @]
        /\ chunk' = IF c.next = None THEN before
                    ELSE [before EXCEPT ![c.next].prev = c.prev]
        /\ Goto(t, "unlinked")
        /\ UNCHANGED <<allsources, my, current>>

freeUnmap(t) ==
    /\ At(t, "free", "unlinked")
    /\ source' = [source EXCEPT ![Call(t).s].mmapped_chunk_lock = None]
    /\ chunk' = [chunk EXCEPT ![Call(t).b].mapped = FALSE]
    /\ Goto(t, "uncount")
    /\ UNCHANGED <<allsources, my, current>>

freeUncount(t) ==
    LET s == Call(t).s IN
    /\ At(t, "free", "uncount")
    /\ Add(s, -1)
    /\ IF isLastDeref(s, 1) THEN Goto(t, "remove") ELSE Return(t)
    /\ UNCHANGED <<chunk, allsources, my, current>>

(***************************************************************************)
(* migrate.                                                                *)
(***************************************************************************)
migrateLock(t) ==
    LET s == Call(t).s IN
    /\ At(t, "migrate", "start") /\ source[s].arena_lock = None
    /\ source' = [source EXCEPT ![s].arena_lock = t]
    /\ Goto(t, "chunks")
    /\ UNCHANGED <<chunk, allsources, my, current>>

migrateLockChunks(t) ==
    LET s == Call(t).s IN
    /\ At(t, "migrate", "chunks") /\ source[s].mmapped_chunk_lock = None
    /\ source' = [source EXCEPT ![s].mmapped_chunk_lock = t]
    /\ my' = [my EXCEPT ![t].k = active(s)]
    /\ Goto(t, "arenas")
    /\ UNCHANGED <<chunk, allsources, current>>

(* The vector of pages grows by malloc: it needs the locks of the source   *)
(* the thread allocates from.                                              *)
CanAllocate(t) ==
    LET c == source[current[t]]
    IN  c.arena_lock = None /\ c.arenas[active(current[t])].mspace_lock = None

migrateArena(t) ==
    LET s == Call(t).s
        k == my[t].k
    IN  /\ At(t, "migrate", "arenas") /\ CanAllocate(t)
        /\ source[s].arenas[k].mspace_lock = None
        /\ source' = [source EXCEPT ![s].arenas[k].mspace_lock = t]
        /\ my' = [my EXCEPT ![t].k = k - 1]
        /\ Goto(t, IF k = 1 THEN "pages" ELSE "arenas")
        /\ UNCHANGED <<chunk, allsources, current>>

migratePages(t) ==
    /\ At(t, "migrate", "pages") /\ CanAllocate(t)
    /\ source' = [source EXCEPT ![Call(t).s].arena_lock = None]
    /\ Goto(t, "unlock_chunks")
    /\ UNCHANGED <<chunk, allsources, my, current>>

migrateUnlockChunks(t) ==
    /\ At(t, "migrate", "unlock_chunks")
    /\ source' = [source EXCEPT ![Call(t).s].mmapped_chunk_lock = None]
    /\ Goto(t, "walk")
    /\ UNCHANGED <<chunk, allsources, my, current>>

(* Faulty: the walk begins behind the active arena.                        *)
WalkPastActive(t) ==
    /\ At(t, "migrate", "walk") /\ active(Call(t).s) > 1
    /\ my' = [my EXCEPT ![t].k = active(Call(t).s) - 1]
    /\ Goto(t, "unlock_arenas")
    /\ UNCHANGED <<source, chunk, allsources, current>>

(* active_arena is read again, without arena_lock.                         *)
migrateWalk(t) ==
    /\ At(t, "migrate", "walk")
    /\ my' = [my EXCEPT ![t].k = active(Call(t).s)]
    /\ Goto(t, "unlock_arenas")
    /\ UNCHANGED <<source, chunk, allsources, current>>

migrateUnlockArena(t) ==
    LET k == my[t].k IN
    /\ At(t, "migrate", "unlock_arenas")
    /\ source' = [source EXCEPT ![Call(t).s].arenas[k].mspace_lock = None]
    /\ my' = [my EXCEPT ![t].k = k - 1]
    /\ Goto(t, IF k = 1 THEN "set_node" ELSE "unlock_arenas")
    /\ UNCHANGED <<chunk, allsources, current>>

migrateEnd(t) ==
    /\ At(t, "migrate", "set_node")
    /\ source' = [source EXCEPT ![Call(t).s].node = Call(t).node]
    /\ Return(t)
    /\ UNCHANGED <<chunk, allsources, my, current>>

SourceStep(t) ==
    \/ ref(t) \/ unrefLook(t) \/ unrefDescribe(t) \/ unrefDeref(t)
    \/ destroyRemove(t) \/ destroyFinish(t)
    \/ allocMap(t) \/ allocLink(t) \/ allocLinked(t) \/ allocLock(t)
    \/ arenaAlloc(t) \/ arenaAllocEnd(t) \/ create_new_arena(t)
    \/ allocUnlock(t) \/ allocCount(t)
    \/ freeInArena(t) \/ freeInArenaEnd(t) \/ freeUnlink(t) \/ freeUnmap(t)
    \/ freeUncount(t)
    \/ migrateLock(t) \/ migrateLockChunks(t) \/ migrateArena(t)
    \/ migratePages(t) \/ migrateUnlockChunks(t) \/ migrateWalk(t)
    \/ migrateUnlockArena(t) \/ migrateEnd(t)

(* stats() walks the lists without their locks; here of a quiet source.    *)
stats(s) ==
    LET list == mmapped(s)
        Total(b, sum) == chunk[b].size + sum
    IN  [arena_count |-> active(s), hugeobj_count |-> Len(list),
         hugeobj_size |-> FoldRight(Total, list, 0)]
=============================================================================
