------------------------------ MODULE Dlmspace ------------------------------
(***************************************************************************)
(* dlmalloc, the other allocator the library can be built with.  Bins,     *)
(* searches and coalescing are those of Mspace.  What differs: chunks are  *)
(* aligned to two words, an mspace that is full asks the system for more   *)
(* segments or for a mapping of one block, gives them back, and            *)
(* reallocates in place where it can.                                      *)
(***************************************************************************)
EXTENDS Mspace

CONSTANTS
    MmapThreshold,  \* mparams.mmap_threshold, in words
    Answers         \* what the system may answer to a call

ASSUME AnswersAssumption == Answers \subseteq {"low", "high", "late", "no"}

MMAP_FOOT_PAD == 4

(* Up to a multiple of unit, as an unsigned number.                        *)
AlignTo(size, unit) ==
    (((size + unit - 1) \div unit) * unit) % 2^SizeBits

(***************************************************************************)
(* Blocks with a mapping of their own.                                     *)
(***************************************************************************)
(* A faulty variant: no room for the fenceposts.                           *)
MmapSizeOfChunk(nb) == AlignTo(nb, PageSize)

(* A chunk, the words before and after it, and what alignment may cost.    *)
mmap_size(nb) == AlignTo(nb + 8, PageSize)

(* The chunk and the fenceposts of a mapping of mmsize words at mm; its    *)
(* prev_foot is the distance from the start of the mapping.                *)
SetUpMapping(m, mm, offset, mmsize) ==
    LET p == mm + offset
        psize == mmsize - offset - MMAP_FOOT_PAD
        h == WriteHead(m, p, psize, FALSE, FALSE)
    IN  [h EXCEPT !.foot = (p :> offset) @@ @,
                  !.head = (p + psize :> [size |-> 1, c |-> TRUE, p |-> TRUE]) @@
                           (p + psize + 1 :> [size |-> 0, c |-> FALSE, p |-> FALSE])
                           @@ @]

mmap_alloc(m, nb) ==
    LET mmsize == mmap_size(nb)
        mm == IF mmsize =< nb \/ m.sys = "late" THEN Null ELSE MmapAt(m, mmsize, {})
    IN  IF mm = Null THEN Failed(m)
        ELSE Got(SetUpMapping(Mapped(m, mm, mmsize), mm, 0, mmsize), mm)

(* mremap: the new place of the mapping, the old one if it has room there. *)
MremapAt(m, base, size, newsize, canMove) ==
    LET own == PagesOf(base, size)
    IN  IF m.sys \in {"no", "late"} THEN Null
        ELSE IF base \in Holes(m, newsize, own) THEN base
        ELSE IF canMove THEN MmapAt(m, newsize, {}) ELSE Null

mmap_resize(m, oldp, nb, canMove) ==
    LET oldsize == chunksize(m, oldp)
        offset  == m.foot[oldp]
        oldmm   == oldsize + offset + MMAP_FOOT_PAD
        newmm   == mmap_size(nb)
        cp == MremapAt(m, oldp - offset, oldmm, newmm, canMove)
    IN  IF is_small(nb) THEN Failed(m)
        ELSE IF oldsize >= nb + 1 /\ oldsize - nb =< 2 * Granularity
        THEN Got(m, oldp)
        ELSE IF cp = Null THEN Failed(m)
        ELSE Got(SetUpMapping(Mapped(Unmapped(m, oldp - offset, oldmm), cp, newmm),
                              cp, offset, newmm), cp + offset)

(* Frees a chunk that is a mapping.                                        *)
UnmapChunk(m, p) ==
    IF MunmapSucceeds(m)
    THEN Unmapped(m, p - m.foot[p], chunksize(m, p) + m.foot[p] + MMAP_FOOT_PAD)
    ELSE m

(***************************************************************************)
(* More segments.                                                          *)
(***************************************************************************)
(* The record of the segment that held top goes to its end, followed by    *)
(* fenceposts; what is left of the old top becomes a free chunk.           *)
add_segment(m, tbase, tsize) ==
    LET old    == m.seg[segment_holding(m, m.top)]
        oldend == old.base + old.size
        ssize  == pad_request(m, 32)
        asp == oldend - TOP_FOOT_SIZE(m)
        csp == IF asp < m.top + MIN_CHUNK_SIZE THEN m.top ELSE asp
        rec == set_size_and_pinuse_of_inuse_chunk(
                   init_top(m, tbase, tsize - TOP_FOOT_SIZE(m)), csp, ssize)
        fenced == [rec EXCEPT
            !.seg = <<[base |-> tbase, size |-> tsize, extern |-> FALSE,
                       record |-> Null], [@[1] EXCEPT !.record = csp]>> \o Tail(@),
            !.head = [a \in csp + ssize .. oldend - 2 |->
                         [size |-> 1, c |-> TRUE, p |-> TRUE]] @@ @]
    IN  IF csp = m.top THEN fenced
        ELSE insert_chunk(set_free_with_pinuse(fenced, m.top, csp - m.top, csp),
                          m.top, csp - m.top)

(* Takes nb words from the new start of a segment; the rest joins the      *)
(* chunk that was first.                                                   *)
prepend_alloc(m, p, oldfirst, nb) ==
    LET q  == p + nb
        qsize == oldfirst - q
        a  == set_size_and_pinuse_of_inuse_chunk(m, p, nb)
        nsize == chunksize(m, oldfirst)
    IN  Got(IF oldfirst = m.top
            THEN [WriteHead(a, q, m.topsize + qsize, FALSE, TRUE)
                     EXCEPT !.top = q, !.topsize = @ + qsize]
            ELSE IF oldfirst = m.dv
            THEN [set_size_and_pinuse_of_free_chunk(a, q, m.dvsize + qsize)
                     EXCEPT !.dv = q, !.dvsize = @ + qsize]
            ELSE IF ~cinuse(m, oldfirst)
            THEN insert_chunk(set_free_with_pinuse(unlink_chunk(a, oldfirst, nsize),
                                  q, qsize + nsize, oldfirst + nsize),
                              q, qsize + nsize)
            ELSE insert_chunk(set_free_with_pinuse(a, q, qsize, oldfirst), q, qsize),
            p)

(* Top, which has just grown, has room for nb words.                       *)
TakeFromTop(m, nb) ==
    IF nb < m.topsize
    THEN Got(set_size_and_pinuse_of_inuse_chunk(
                 [WriteHead(m, m.top + nb, m.topsize - nb, FALSE, TRUE)
                     EXCEPT !.top = @ + nb, !.topsize = @ - nb], m.top, nb), m.top)
    ELSE Failed(m)

(* A new mapping extends the segment that holds top, or is put before      *)
(* another one, or becomes a segment; an extern segment is never extended. *)
UseMapping(m, tbase, tsize, nb) ==
    LET Ends(k) == m.seg[k].base + m.seg[k].size
        before == {k \in DOMAIN m.seg : Ends(k) = tbase /\ ~m.seg[k].extern
                                          /\ segment_holds(m.seg[k], m.top)}
        after  == {k \in DOMAIN m.seg : m.seg[k].base = tbase + tsize
                                          /\ ~m.seg[k].extern}
        k == CHOOSE j \in after : TRUE
    IN  IF before # {}
        THEN TakeFromTop(init_top([m EXCEPT !.seg[CHOOSE j \in before : TRUE].size =
                                                @ + tsize],
                                  m.top, m.topsize + tsize), nb)
        ELSE IF after # {}
        THEN prepend_alloc([m EXCEPT !.seg[k].base = tbase, !.seg[k].size = @ + tsize],
                           tbase, m.seg[k].base, nb)
        ELSE TakeFromTop(add_segment(m, tbase, tsize), nb)

(* direct: whether one block may get a mapping of its own (use_mmap).      *)
sys_alloc(m, nb, direct) ==
    LET asize == AlignTo(nb + TOP_FOOT_SIZE(m) + m.align, Granularity)
        Segment(tbase) ==
            IF tbase = Null THEN Failed(m)
            ELSE UseMapping(Mapped(m, tbase, asize), tbase, asize, nb)
    IN  OrElse(IF direct /\ nb >= MmapThreshold /\ m.topsize # 0
               THEN mmap_alloc(m, nb) ELSE Failed(m),
               Segment(IF asize =< nb THEN Null ELSE MmapAt(m, asize, {})))

(***************************************************************************)
(* The operations that differ.                                             *)
(***************************************************************************)
dl_malloc(m, bytes) ==
    OrElse(mspace_malloc(m, bytes), sys_alloc(m, SizeFor(m, bytes), TRUE))

(* ialloc switches use_mmap off while it allocates.                        *)
dl_malloc_no_mmap(m, bytes) ==
    OrElse(mspace_malloc(m, bytes), sys_alloc(m, SizeFor(m, bytes), FALSE))

dl_free(m, p) ==
    IF is_mmapped(m, p) THEN UnmapChunk(m, p) ELSE mspace_free(m, p)

(* Like free, but without a trim or a look for unused segments.            *)
dispose_chunk(m, p, psize) ==
    IF is_mmapped(m, p) THEN UnmapChunk(m, p)
    ELSE Consolidate(m, p, psize, MergeIntoTop, insert_chunk)

(* p keeps nb of its size words, the rest is disposed of.                  *)
SplitInUse(m, p, nb, size) ==
    dispose_chunk(set_inuse(set_inuse(m, p, nb), p + nb, size - nb),
                  p + nb, size - nb)

try_realloc_chunk(m, p, nb, canMove) ==
    LET oldsize == chunksize(m, p)
        next    == p + oldsize
        newtop  == oldsize + m.topsize - nb
        dsize   == oldsize + m.dvsize - nb
        both    == oldsize + chunksize(m, next)
        joined  == unlink_chunk(m, next, chunksize(m, next))
    IN  IF ~(p < next /\ pinuse(m, next)) THEN Got(Abort(m), p)
        ELSE IF is_mmapped(m, p) THEN mmap_resize(m, p, nb, canMove)
        ELSE IF oldsize >= nb
        THEN Got(IF oldsize - nb >= MIN_CHUNK_SIZE THEN SplitInUse(m, p, nb, oldsize)
                 ELSE m, p)
        ELSE IF next = m.top
        THEN IF newtop > 0
             THEN Got([WriteHead(set_inuse(m, p, nb), p + nb, newtop, FALSE, TRUE)
                          EXCEPT !.top = p + nb, !.topsize = newtop], p)
             ELSE Failed(m)
        ELSE IF next = m.dv
        THEN IF dsize >= MIN_CHUNK_SIZE
             THEN Got([clear_pinuse(set_size_and_pinuse_of_free_chunk(
                           set_inuse(m, p, nb), p + nb, dsize), p + nb + dsize)
                          EXCEPT !.dv = p + nb, !.dvsize = dsize], p)
             ELSE IF dsize >= 0
             THEN Got([set_inuse(m, p, oldsize + m.dvsize)
                          EXCEPT !.dv = Null, !.dvsize = 0], p)
             ELSE Failed(m)
        ELSE IF ~cinuse(m, next) /\ both >= nb
        THEN Got(IF both - nb < MIN_CHUNK_SIZE THEN set_inuse(joined, p, both)
                 ELSE SplitInUse(joined, p, nb, both), p)
        ELSE Failed(m)

dl_realloc(m, p, bytes) ==
    IF bytes >= MAX_REQUEST THEN Failed(m)
    ELSE OrElse(try_realloc_chunk(m, p, request2size(m, bytes), TRUE),
                MoveTo(m, p, dl_malloc(m, bytes), dl_free))

dl_realloc_in_place(m, p, bytes) ==
    IF bytes >= MAX_REQUEST THEN Failed(m)
    ELSE try_realloc_chunk(m, p, request2size(m, bytes), FALSE)

(* The leader before the aligned q is disposed of.  In a mapping it is     *)
(* kept: the aligned chunk only remembers how far it is from the start.    *)
DropLeader(m, p, q) ==
    LET mmsize == chunksize(m, p) + m.foot[p] + MMAP_FOOT_PAD IN
    IF q = p THEN m
    ELSE IF is_mmapped(m, p)
    THEN SetUpMapping(m, p - m.foot[p], m.foot[p] + (q - p), mmsize)
    ELSE dispose_chunk(SplitLeader(m, p, q), p, q - p)

DropTail(m, q, nb) ==
    IF ~is_mmapped(m, q) /\ chunksize(m, q) > nb + MIN_CHUNK_SIZE
    THEN SplitInUse(m, q, nb, chunksize(m, q)) ELSE m

DlAlignIn(got, a, nb) ==
    LET q == AlignedSpot(got.mem, a) IN
    IF got.mem = Null THEN got
    ELSE Got(DropTail(DropLeader(got.m, got.mem, q), q, nb), q)

dl_memalign(m, alignment, bytes) ==
    LET a  == PowerOfTwo(alignment)
        nb == request2size(m, bytes)
    IN  IF alignment =< m.align THEN dl_malloc(m, bytes)
        ELSE IF bytes >= MAX_REQUEST - 8 * a THEN Failed(m)
        ELSE DlAlignIn(dl_malloc(m, 8 * (nb + a + MIN_CHUNK_SIZE - CHUNK_OVERHEAD)),
                       a, nb)

(* Frees an array of blocks; a block that the next one in the array        *)
(* follows in memory is joined to it first.                                *)
RECURSIVE FreeArray(_, _)
FreeArray(m, array) ==
    LET p == array[1]
        next == next_chunk(m, p)
    IN  IF array = <<>> THEN m
        ELSE IF Len(array) > 1 /\ array[2] = next
        THEN FreeArray(set_inuse(m, p, chunksize(m, p) + chunksize(m, next)),
                       <<p>> \o Tail(Tail(array)))
        ELSE FreeArray(dispose_chunk(m, p, chunksize(m, p)), Tail(array))

internal_bulk_free(m, array) == TrimIfLarge(FreeArray(m, array))

(***************************************************************************)
(* The client.  m is the malloc_state with the system's answer.            *)
(***************************************************************************)
DlMalloc(m, bytes) == Allocated(dl_malloc(m, bytes), bytes)

DlCalloc(m, n, elem) ==
    Allocated(dl_malloc(m, calloc_request(n, elem)), n * elem)

DlFree(m, p) == Freed(dl_free(m, p), p)

(* The size of a mapping that memalign has shifted is computed without the *)
(* shift when it is resized: the client resizes no such block.             *)
Resizable(p) == is_mmapped(ms, p) => ms.foot[p] = 0

DlRealloc(m, p, bytes) ==
    Resizable(p) /\ Reallocated(p, dl_realloc(m, p, bytes), bytes)

ReallocInPlace(m, p, bytes) ==
    Resizable(p) /\ Reallocated(p, dl_realloc_in_place(m, p, bytes), bytes)

DlMemalign(m, alignment, bytes) ==
    Allocated(dl_memalign(m, alignment, bytes), bytes)

DlIndependentCalloc(m, bytes, array) ==
    AllocatedTwo(ialloc(m, 2, bytes, array, dl_malloc_no_mmap), bytes, array)

BulkFree(m, p, q) ==
    /\ {p, q} \cap kept = {} /\ p # q
    /\ Returned(internal_bulk_free(m, <<p, q>>))
    /\ Hold({p, q}, Null, 0)

DlTrim(m) == Returned(sys_trim(m, 0)) /\ UNCHANGED live

DlNext ==
    /\ setup.impl = "dlmalloc"
    /\ \E answer \in Answers : LET m == [ms EXCEPT !.sys = answer] IN
       \/ \E b \in setup.requests : DlMalloc(m, b)
       \/ \E n \in Counts, b \in setup.requests : DlCalloc(m, n, b)
       \/ \E p \in DOMAIN live : DlFree(m, p)
       \/ \E p \in DOMAIN live, b \in setup.requests : DlRealloc(m, p, b)
       \/ \E p \in DOMAIN live, b \in setup.requests : ReallocInPlace(m, p, b)
       \/ \E a \in Alignments, b \in setup.requests : DlMemalign(m, a, b)
       \/ \E b \in setup.requests, array \in BOOLEAN : DlIndependentCalloc(m, b, array)
       \/ \E p, q \in DOMAIN live : BulkFree(m, p, q)
       \/ DlTrim(m)

Next == PtNext \/ DlNext

Spec == Init /\ [][Next]_vars
=============================================================================
