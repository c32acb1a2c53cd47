------------------------------- MODULE Mspace -------------------------------
(***************************************************************************)
(* One mspace created on a given base (an arena), used by one thread at a  *)
(* time: the operations of the allocator on the structures of MspaceBins,  *)
(* and a client that calls them.  In ptmalloc3 mspace_malloc never asks    *)
(* the system for memory, so the mspace has one segment, an extern one,    *)
(* for ever; module Dlmspace adds what dlmalloc does about that.           *)
(*                                                                         *)
(* m.seg is the list of segments, the one of the malloc_state first: the   *)
(* others are recorded in a chunk of their own (record).  m.maps are the   *)
(* pages that the system has mapped for the mspace and m.sys is what the   *)
(* system will answer during the current call.                             *)
(***************************************************************************)
EXTENDS MspaceBins

CONSTANTS
    Setups,         \* [impl, capacity, layout, requests, maxLive]: which
                    \* allocator, the words of the first segment, the blocks
                    \* the client asks for at the start and the sizes it asks
                    \* for later, in bytes, and a bound on the blocks it holds
                    \* at one time, not counting those it keeps for ever
    MStateSize,     \* words of the chunk that holds the malloc_state
    TrimThreshold,  \* DEFAULT_TRIM_THRESHOLD
    ReleaseRate,    \* MAX_RELEASE_CHECK_RATE
    Granularity,    \* mparams.granularity: segments grow and shrink by it
    PageSize,       \* words of a page
    Pages,          \* bound: the pages the system can map
    Counts,         \* numbers of elements it asks for
    Alignments      \* alignments it asks for, in words

ASSUME CapacityAssumption ==
    /\ MStateSize >= MIN_CHUNK_SIZE
    /\ \A s \in Setups :
          /\ s.impl \in {"ptmalloc3", "dlmalloc"}
          /\ s.capacity \in MStateSize + 11 .. MAX_SIZE_T
    /\ Granularity % PageSize = 0
    /\ Granularity >= 2^TreeShift + 10

VARIABLES
    setup,  \* the member of Setups under which the behaviour runs
    ms,     \* the malloc_state and the chunks of its segment
    live,   \* the client's blocks: chunk address -> bytes asked for
    kept    \* those of the initial layout that it keeps for ever

vars == <<setup, ms, live, kept>>

(***************************************************************************)
(* The system.                                                             *)
(***************************************************************************)
PagesOf(base, size) == {pg \in Pages : base =< pg /\ pg < base + size}

(* Where size words can be mapped: a run of pages that are free, but for   *)
(* those in own.                                                           *)
Holes(m, size, own) ==
    {a \in Pages : LET n == PagesOf(a, size) IN
        Cardinality(n) * PageSize = size /\ n \cap (m.maps \ own) = {}}

(* The system refuses, or places a mapping below or above all others.      *)
(* "late" refuses the first thing that a call asks for, a mapping for one  *)
(* block or a mremap, and grants the second.                               *)
MmapAt(m, size, own) ==
    LET at == Holes(m, size, own) IN
    IF m.sys = "no" \/ at = {} THEN Null
    ELSE IF m.sys = "high" THEN Max(at) ELSE Min(at)

Mapped(m, base, size) ==
    [m EXCEPT !.maps = @ \cup PagesOf(base, size), !.footprint = @ + size]

MunmapSucceeds(m) == m.sys # "no"
Unmapped(m, base, size) ==
    LET Kept(x) == x < base \/ x >= base + size IN
    [m EXCEPT !.maps = @ \ PagesOf(base, size), !.footprint = @ - size,
              !.head = RestrictDomain(@, Kept), !.foot = RestrictDomain(@, Kept)]

(***************************************************************************)
(* Segments and creation.                                                  *)
(***************************************************************************)
segment_holds(s, a) == s.base =< a /\ a < s.base + s.size
segment_holding(m, a) ==
    CHOOSE k \in DOMAIN m.seg : segment_holds(m.seg[k], a)
(* The record of the first segment lies in the malloc_state, at 0.         *)
has_segment_link(m, s) ==
    segment_holds(s, 0) \/ \E k \in 2 .. Len(m.seg) : segment_holds(s, m.seg[k].record)

init_top(m, p, psize) ==
    LET h == WriteHead(m, p, psize, FALSE, TRUE) IN
    [h EXCEPT !.top = p, !.topsize = psize, !.trim_check = TrimThreshold,
              !.head = (p + psize :> [size |-> TOP_FOOT_SIZE(m), c |-> FALSE,
                                      p |-> FALSE]) @@ @]

(* The small bins start as empty circular lists.                           *)
init_bins == [s \in 0 .. 2^TreeShift - 1 |-> <<>>]

init_user_mstate(impl, capacity) ==
    LET m == [impl |-> impl, align |-> IF impl = "dlmalloc" THEN 2 ELSE 1,
              head |-> 0 :> [size |-> MStateSize, c |-> TRUE, p |-> TRUE],
              foot |-> <<>>, smallbins |-> init_bins, smallmap |-> {},
              treebins |-> [i \in 0 .. NTreeBins - 1 |-> Null],
              treemap |-> {}, tree |-> <<>>, dv |-> Null, dvsize |-> 0,
              top |-> Null, topsize |-> 0, trim_check |-> 0,
              release_checks |-> ReleaseRate, footprint |-> capacity,
              seg |-> <<[base |-> 0, size |-> capacity, extern |-> TRUE,
                         record |-> Null]>>,
              maps |-> {}, sys |-> "no", aborted |-> FALSE]
    IN  init_top(m, MStateSize, capacity - MStateSize - TOP_FOOT_SIZE(m))

(* Whether the capacity has room for the malloc_state and a top.           *)
create_mspace_with_base(impl, capacity) ==
    LET m == init_user_mstate(impl, capacity)
    IN  IF capacity > MStateSize + TOP_FOOT_SIZE(m) THEN m ELSE Null

(***************************************************************************)
(* malloc.  An operation returns the new malloc_state and the chunk whose  *)
(* memory it hands out.                                                    *)
(***************************************************************************)
Got(m, a) == [m |-> m, mem |-> a]
Failed(m) == [m |-> m, mem |-> Null]

(* Takes nb words from the front of the free chunk v; a remainder too      *)
(* small for a chunk stays with it, another one goes to Keep.              *)
SplitChunk(m, v, nb, rsize, Keep(_, _, _)) ==
    IF rsize < MIN_CHUNK_SIZE THEN set_inuse_and_pinuse(m, v, rsize + nb)
    ELSE Keep(set_size_and_pinuse_of_free_chunk(
                  set_size_and_pinuse_of_inuse_chunk(m, v, nb), v + nb, rsize),
              v + nb, rsize)

(* First loop of tmalloc_large: down the path of nb, remembering the best  *)
(* fit v and the deepest right subtree not taken.                          *)
RECURSIVE SearchPath(_, _, _, _, _, _)
SearchPath(m, nb, t, d, best, rst) ==
    LET i    == compute_tree_index(nb)
        trem == Sub(chunksize(m, t), nb)
        b    == IF trem < best.rsize THEN [v |-> t, rsize |-> trem] ELSE best
        rt   == m.tree[t].child[2]
        nxt  == ChildFor(m, t, nb, i, d)
        rst2 == IF rt # Null /\ rt # nxt THEN rt ELSE rst
    IN  IF trem < best.rsize /\ trem = 0 THEN [best |-> b, t |-> t]
        ELSE IF nxt = Null THEN [best |-> b, t |-> rst2]
        ELSE SearchPath(m, nb, nxt, d + 1, b, rst2)

(* The smallest fit on the leftmost path from t.                           *)
RECURSIVE LeftmostFit(_, _, _, _)
LeftmostFit(m, nb, t, best) ==
    IF t = Null THEN best
    ELSE LET trem == Sub(chunksize(m, t), nb) IN
         LeftmostFit(m, nb, leftmost_child(m, t),
             IF trem < best.rsize THEN [v |-> t, rsize |-> trem] ELSE best)

(* The best fit, from the next larger bin if the bin of nb has none.       *)
FitBeyond(m, nb, path) ==
    LET larger == {j \in m.treemap : j > compute_tree_index(nb)} IN
    LeftmostFit(m, nb, IF path.t = Null /\ path.best.v = Null /\ larger # {}
                       THEN m.treebins[Min(larger)] ELSE path.t, path.best)

TakeFit(m, nb, fit, Keep(_, _, _)) ==
    Got(SplitChunk(unlink_large_chunk(m, fit.v), fit.v, nb, fit.rsize, Keep), fit.v)

(* Nothing if the designated victim fits better.                           *)
TakeIfBest(m, nb, fit) ==
    IF fit.v # Null /\ fit.rsize < Sub(m.dvsize, nb)
    THEN TakeFit(m, nb, fit, insert_chunk) ELSE Failed(m)

tmalloc_large(m, nb) ==
    LET root == m.treebins[compute_tree_index(nb)]
        none == [v |-> Null, rsize |-> Sub(0, nb)]
    IN  TakeIfBest(m, nb, FitBeyond(m, nb,
            IF root = Null THEN [best |-> none, t |-> Null]
            ELSE SearchPath(m, nb, root, 0, none, Null)))

tmalloc_small(m, nb) ==
    LET t == m.treebins[Min(m.treemap)]
    IN  TakeFit(m, nb, LeftmostFit(m, nb, leftmost_child(m, t),
                           [v |-> t, rsize |-> Sub(chunksize(m, t), nb)]),
                replace_dv)

(* An exact fit, or one word more, from a small bin.                       *)
RemainderlessFit(m, nb) ==
    LET i == IF nb \in m.smallmap THEN nb ELSE nb + 1
        p == m.smallbins[i][1]
    IN  Got(set_inuse_and_pinuse(unlink_first_small_chunk(m, p, i), p, i), p)

NextSmallBin(m, nb) ==
    LET i == Min({j \in m.smallmap : j > nb})
        p == m.smallbins[i][1]
    IN  Got(SplitChunk(unlink_first_small_chunk(m, p, i), p, nb, i - nb,
                       replace_dv), p)

(* From the designated victim, else from top, else not at all.             *)
FromDvOrTop(m, nb) ==
    LET KeepAsDv(x, r, rsize) == [x EXCEPT !.dv = r, !.dvsize = rsize]
        rest == m.topsize - nb
    IN  IF nb =< m.dvsize
        THEN Got(SplitChunk([m EXCEPT !.dv = Null, !.dvsize = 0], m.dv, nb,
                            m.dvsize - nb, KeepAsDv), m.dv)
        ELSE IF nb < m.topsize
        THEN Got([WriteHead(set_size_and_pinuse_of_inuse_chunk(m, m.top, nb),
                            m.top + nb, rest, FALSE, TRUE)
                     EXCEPT !.top = m.top + nb, !.topsize = rest], m.top)
        ELSE Failed(m)

(* The first of two attempts to allocate that succeeds.                    *)
OrElse(first, second) == IF first.mem # Null THEN first ELSE second

FromBins(m, bytes, nb) ==
    IF bytes > MAX_SMALL_REQUEST(m)
    THEN IF bytes < MAX_REQUEST /\ m.treemap # {} THEN tmalloc_large(m, nb)
         ELSE Failed(m)
    ELSE IF m.smallmap \cap {nb, nb + 1} # {} THEN RemainderlessFit(m, nb)
    ELSE IF nb =< m.dvsize THEN Failed(m)
    ELSE IF \E j \in m.smallmap : j > nb THEN NextSmallBin(m, nb)
    ELSE IF m.treemap # {} THEN tmalloc_small(m, nb)
    ELSE Failed(m)

(* A request that is too large asks for more than there can be.            *)
SizeFor(m, bytes) ==
    IF bytes >= MAX_REQUEST THEN MAX_SIZE_T ELSE request2size(m, bytes)

mspace_malloc(m, bytes) ==
    OrElse(FromBins(m, bytes, SizeFor(m, bytes)), FromDvOrTop(m, SizeFor(m, bytes)))

(* A product that does not fit is forced to fail; the check is skipped     *)
(* when both factors are below a quarter of the width of size_t.           *)
calloc_request(n, elem) ==
    LET req == (n * elem) % 2^(SizeBits + 3)
        half == 2^((SizeBits + 3) \div 4)
        fits == (n < half /\ elem < half) \/ req \div n = elem
    IN  IF n = 0 THEN 0 ELSE IF fits THEN req ELSE 2^(SizeBits + 3) - 1

mspace_calloc(m, n, elem) == mspace_malloc(m, calloc_request(n, elem))

(***************************************************************************)
(* free.                                                                   *)
(***************************************************************************)
(* The first chunk is free and reaches the record at the end.              *)
SegmentIsUnused(m, sg) ==
    /\ ~sg.extern /\ ~cinuse(m, sg.base)
    /\ next_chunk(m, sg.base) >= sg.base + sg.size - TOP_FOOT_SIZE(m)

(* An unused segment, other than the first, is unmapped.  If the system    *)
(* refuses, its chunk goes back to a bin.                                  *)
ReleaseSegment(m, sg) ==
    LET p == sg.base
        Give(unlinked) ==
            IF MunmapSucceeds(m)
            THEN [Unmapped(unlinked, sg.base, sg.size) EXCEPT !.seg = Remove(@, sg)]
            ELSE insert_large_chunk(unlinked, p, chunksize(m, p))
    IN  IF ~SegmentIsUnused(m, sg) THEN m
        ELSE Give(IF p = m.dv THEN [m EXCEPT !.dv = Null, !.dvsize = 0]
                  ELSE unlink_large_chunk(m, p))

release_unused_segments(m) ==
    LET n == Len(m.seg) - 1 IN
    [FoldLeft(ReleaseSegment, m, Tail(m.seg))
        EXCEPT !.release_checks = IF n > ReleaseRate THEN n ELSE ReleaseRate]

(* Shrinks the segment that holds top by whole units, keeping at least     *)
(* one; an extern segment is not shrunk.                                   *)
ShrinkTop(m, pad) ==
    LET extra == ((m.topsize - pad + Granularity - 1) \div Granularity - 1)
                     * Granularity
        k     == segment_holding(m, m.top)
        sg    == m.seg[k]
        size  == sg.size - extra
    IN  IF m.topsize =< pad \/ extra = 0 \/ sg.extern \/ sg.size < extra
             \/ has_segment_link(m, sg) \/ ~MunmapSucceeds(m) THEN m
        ELSE init_top([Unmapped(m, sg.base + size, extra)
                          EXCEPT !.seg[k].size = size], m.top, m.topsize - extra)

(* A trim that released nothing disables further ones.                     *)
Trimmed(m, t) ==
    IF t.footprint = m.footprint /\ t.topsize > t.trim_check
    THEN [t EXCEPT !.trim_check = MAX_SIZE_T] ELSE t

sys_trim(m, pad) ==
    IF 8 * pad >= MAX_REQUEST THEN m
    ELSE Trimmed(m, release_unused_segments(ShrinkTop(m, pad + TOP_FOOT_SIZE(m))))

should_trim(m, s) == s > m.trim_check

Abort(m) == [m EXCEPT !.aborted = TRUE]

TrimIfLarge(m) == IF should_trim(m, m.topsize) THEN sys_trim(m, 0) ELSE m
ReleaseIfDue(m) == IF m.release_checks = 0 THEN release_unused_segments(m) ELSE m

(* Puts the free chunk p into a bin, a large one counting as a step        *)
(* towards the next check for unused segments.                             *)
BinFreed(m, p, psize) ==
    IF is_small(psize) THEN insert_small_chunk(m, p, psize)
    ELSE ReleaseIfDue([insert_large_chunk(m, p, psize)
                          EXCEPT !.release_checks = @ - 1])

(* A faulty variant: the designated victim stays when top absorbs it.      *)
MergeIntoTopKeepingDv(m, p, psize) ==
    [WriteHead(m, p, m.topsize + psize, FALSE, TRUE)
        EXCEPT !.top = p, !.topsize = @ + psize]

MergeIntoTop(m, p, psize) ==
    [WriteHead(m, p, m.topsize + psize, FALSE, TRUE)
        EXCEPT !.top = p, !.topsize = @ + psize,
               !.dv = IF p = @ THEN Null ELSE @,
               !.dvsize = IF p = m.dv THEN 0 ELSE @]

FreeIntoTop(m, p, psize) == TrimIfLarge(MergeIntoTop(m, p, psize))

(* The free chunk p of psize words, not binned, absorbs the free chunk     *)
(* after it.  IntoTop and Bin dispose of the result.                       *)
FreeForward(m, p, psize, next, IntoTop(_, _, _), Bin(_, _, _)) ==
    LET nsize == chunksize(m, next)
        Absorbed(both) == IF p = m.dv THEN [both EXCEPT !.dvsize = psize + nsize]
                          ELSE Bin(both, p, psize + nsize)
    IN  IF ~(p < next /\ pinuse(m, next)) THEN Abort(m)
        ELSE IF cinuse(m, next)
        THEN Bin(set_free_with_pinuse(m, p, psize, next), p, psize)
        ELSE IF next = m.top THEN IntoTop(m, p, psize)
        ELSE IF next = m.dv
        THEN [set_size_and_pinuse_of_free_chunk(m, p, m.dvsize + psize)
                 EXCEPT !.dv = p, !.dvsize = @ + psize]
        ELSE Absorbed(set_size_and_pinuse_of_free_chunk(
                          unlink_chunk(m, next, nsize), p, psize + nsize))

(* The chunk p first absorbs the free chunk before it.                     *)
Consolidate(m, p, size, IntoTop(_, _, _), Bin(_, _, _)) ==
    LET next == p + size
        prev == prev_chunk(m, p)
        psize == size + m.foot[p]
    IN  IF pinuse(m, p) THEN FreeForward(m, p, size, next, IntoTop, Bin)
        ELSE IF prev = m.dv /\ cinuse(m, next) /\ pinuse(m, next)
        THEN [set_free_with_pinuse(m, prev, psize, next) EXCEPT !.dvsize = psize]
        ELSE FreeForward(IF prev = m.dv THEN m ELSE unlink_chunk(m, prev, m.foot[p]),
                         prev, psize, next, IntoTop, Bin)

mspace_free(m, p) ==
    IF p \notin DOMAIN m.head \/ ~cinuse(m, p) THEN Abort(m)
    ELSE Consolidate(m, p, chunksize(m, p), FreeIntoTop, BinFreed)

(***************************************************************************)
(* realloc, memalign and the independent allocations.                      *)
(***************************************************************************)
(* Cuts the in-use chunk p to nb words and frees the rest if asked to.     *)
CutTail(m, p, nb) ==
    mspace_free(set_inuse(set_inuse(m, p, nb), p + nb, chunksize(m, p) - nb),
                p + nb)

(* The block moves, if there is a new one for it.                          *)
MoveTo(m, p, new, Release(_, _)) ==
    IF new.mem # Null THEN Got(Release(new.m, p), new.mem) ELSE Failed(m)

internal_realloc(m, p, bytes) ==
    LET nb == request2size(m, bytes)
        size == chunksize(m, p)
        next == p + size
        rest == size + m.topsize - nb
    IN  IF bytes >= MAX_REQUEST THEN Failed(m)
        ELSE IF ~(cinuse(m, p) /\ p < next /\ pinuse(m, next))
        THEN Failed(Abort(m))
        ELSE IF size >= nb
        THEN Got(IF size - nb >= MIN_CHUNK_SIZE THEN CutTail(m, p, nb) ELSE m, p)
        ELSE IF next = m.top /\ size + m.topsize > nb
        THEN Got([WriteHead(set_inuse(m, p, nb), p + nb, rest, FALSE, TRUE)
                     EXCEPT !.top = p + nb, !.topsize = rest], p)
        ELSE MoveTo(m, p, mspace_malloc(m, bytes), mspace_free)

mspace_realloc(m, p, bytes) ==
    IF p = Null THEN mspace_malloc(m, bytes) ELSE internal_realloc(m, p, bytes)

(* The alignment, at least that of a chunk, as a power of two.             *)
PowerOfTwo(alignment) ==
    LET al == IF alignment < MIN_CHUNK_SIZE THEN MIN_CHUNK_SIZE ELSE alignment
    IN  2^(CHOOSE k \in 0..SizeBits : 2^k >= al /\ 2^k < 2 * al)

(* The first chunk at or after p whose memory, two words after it          *)
(* (chunk2mem), is aligned and before which a chunk can be given back.     *)
AlignedSpot(p, a) ==
    LET br == ((p + 2 + a - 1) \div a) * a - 2
    IN  IF (p + 2) % a = 0 THEN p
        ELSE IF br - p >= MIN_CHUNK_SIZE THEN br ELSE br + a

(* The block q in the chunk p that was allocated for it: first both ends   *)
(* become chunks of their own, then they are freed.                        *)
SplitLeader(m, p, q) ==
    IF q = p THEN m
    ELSE set_inuse(set_inuse(m, q, chunksize(m, p) - (q - p)), p, q - p)
SplitTail(m, q, nb) ==
    LET size == chunksize(m, q) IN
    IF size > nb + MIN_CHUNK_SIZE
    THEN set_inuse(set_inuse(m, q, nb), q + nb, size - nb) ELSE m
FreeEnds(m, p, q, hasTail) ==
    LET Leader(x) == IF q = p THEN x ELSE mspace_free(x, p)
        end == next_chunk(m, q)
    IN  IF hasTail THEN mspace_free(Leader(m), end) ELSE Leader(m)

PlaceAligned(m, p, q, nb) ==
    FreeEnds(SplitTail(m, q, nb), p, q, chunksize(m, q) > nb + MIN_CHUNK_SIZE)

AlignIn(got, a, nb) ==
    LET q == AlignedSpot(got.mem, a) IN
    IF got.mem = Null THEN got
    ELSE Got(PlaceAligned(SplitLeader(got.m, got.mem, q), got.mem, q, nb), q)

internal_memalign(m, alignment, bytes) ==
    LET a  == PowerOfTwo(alignment)
        nb == request2size(m, bytes)
    IN  IF alignment =< 1 THEN mspace_malloc(m, bytes)
        ELSE IF bytes >= MAX_REQUEST - 8 * a THEN Failed(m)
        ELSE AlignIn(mspace_malloc(m, 8 * (nb + a + MIN_CHUNK_SIZE - CHUNK_OVERHEAD)),
                     a, nb)

(* n elements of one size in one chunk, cut into n chunks and, unless the  *)
(* caller brings one, a last chunk for the array of pointers.              *)
RECURSIVE CutElements(_, _, _, _, _)
CutElements(m, p, n, element, remainder) ==
    IF n = 1 THEN set_size_and_pinuse_of_inuse_chunk(m, p, remainder)
    ELSE CutElements(set_size_and_pinuse_of_inuse_chunk(m, p, element),
                     p + element, n - 1, element, remainder - element)

CutUp(got, n, element, array) ==
    LET p == got.mem
        contents == n * element
        whole == chunksize(got.m, p)
    IN  IF p = Null THEN got
        ELSE IF array
        THEN Got(CutElements(set_size_and_pinuse_of_inuse_chunk(got.m, p + contents,
                     whole - contents), p, n, element, contents), p)
        ELSE Got(CutElements(got.m, p, n, element, whole), p)

ialloc_size(m, n, bytes, array) ==
    8 * (n * request2size(m, bytes) - CHUNK_OVERHEAD
           + IF array THEN request2size(m, 8 * n) ELSE 0)
ialloc(m, n, bytes, array, Alloc(_, _)) ==
    CutUp(Alloc(m, ialloc_size(m, n, bytes, array)), n, request2size(m, bytes), array)

(***************************************************************************)
(* What the allocator reports.                                             *)
(***************************************************************************)
IsFencepost(m, q) == m.head[q] = [size |-> 1, c |-> TRUE, p |-> TRUE]

(* A chunk that is a mapping of its own.                                   *)
is_mmapped(m, p) == ~cinuse(m, p) /\ ~pinuse(m, p)

(* The chunks a walk through segment s from q meets, up to top or to the   *)
(* fenceposts at the end.                                                  *)
RECURSIVE ChunksFrom(_, _, _)
ChunksFrom(m, s, q) ==
    IF q = m.top \/ ~segment_holds(s, q) \/ q \notin DOMAIN m.head
         \/ IsFencepost(m, q) THEN {}
    ELSE {q} \cup ChunksFrom(m, s, next_chunk(m, q))

ChunksOf(m, s) == ChunksFrom(m, s, s.base)
Chunks(m) == UNION {ChunksOf(m, s) : s \in ToSet(m.seg)}

internal_mallinfo(m) ==
    LET chunks == Chunks(m)
        Size(q) == chunksize(m, q)
        free  == {q \in chunks : ~cinuse(m, q)}
        mfree == m.topsize + TOP_FOOT_SIZE(m) + MapThenSumSet(Size, free)
        sum   == m.topsize + TOP_FOOT_SIZE(m) + MapThenSumSet(Size, chunks)
    IN  [arena |-> sum, ordblks |-> Cardinality(free) + 1,
         hblkhd |-> m.footprint - sum, uordblks |-> m.footprint - mfree,
         fordblks |-> mfree, keepcost |-> m.topsize]

(* A mapping of its own has another word of overhead.                      *)
mspace_usable_size(m, p) ==
    IF is_mmapped(m, p) THEN 8 * (chunksize(m, p) - 2 * CHUNK_OVERHEAD)
    ELSE IF cinuse(m, p) THEN 8 * (chunksize(m, p) - CHUNK_OVERHEAD) ELSE 0

(***************************************************************************)
(* The client.                                                             *)
(***************************************************************************)
(* Every second block of the layout, a small one, is kept.                 *)
Laid(c, b) ==
    LET Placed(r) == [m |-> r.m, live |-> (r.mem :> b) @@ c.live]
    IN  Placed(mspace_malloc(c.m, b))
Start(laid) == ms = laid.m /\ live = laid.live

Init ==
    /\ setup \in Setups
    /\ Start(FoldLeft(Laid, [m |-> create_mspace_with_base(setup.impl, setup.capacity),
                             live |-> <<>>], setup.layout))
    /\ kept = {p \in DOMAIN live : live[p] = Min(setup.requests)}

HasRoom(n) == Cardinality(DOMAIN live \ kept) + n =< setup.maxLive

(* A call returned with m: what the system answered no longer matters.     *)
Returned(m) == ms' = [m EXCEPT !.sys = "no"] /\ UNCHANGED <<setup, kept>>

(* The client now holds the block at a, after it gave up those in old.     *)
Hold(old, a, bytes) ==
    live' = (IF a = Null THEN <<>> ELSE a :> bytes) @@
            RestrictDomain(live, LAMBDA x : x \notin old)

(* A call that allocates, reallocates or frees returned r.                 *)
Allocated(r, bytes) ==
    HasRoom(1) /\ Returned(r.m) /\ Hold({}, r.mem, bytes)

Reallocated(p, r, bytes) ==
    /\ p \notin kept
    /\ Returned(r.m)
    /\ IF r.mem = Null THEN UNCHANGED live ELSE Hold({p}, r.mem, bytes)

Freed(m, p) == p \notin kept /\ Returned(m) /\ Hold({p}, Null, 0)

(* Two blocks of the same size, and the array that points to them if the   *)
(* client did not bring one.                                               *)
AllocatedTwo(r, bytes, array) ==
    LET second == r.mem + request2size(ms, bytes)
        third  == second + request2size(ms, bytes)
    IN  /\ HasRoom(IF array THEN 3 ELSE 2)
        /\ Returned(r.m)
        /\ live' = IF r.mem = Null THEN live
                   ELSE (r.mem :> bytes) @@ (second :> bytes) @@
                        (IF array THEN third :> 16 ELSE <<>>) @@ live

Malloc(bytes) == Allocated(mspace_malloc(ms, bytes), bytes)

Calloc(n, elem) == Allocated(mspace_calloc(ms, n, elem), n * elem)

Free(p) == Freed(mspace_free(ms, p), p)

Realloc(p, bytes) == Reallocated(p, mspace_realloc(ms, p, bytes), bytes)

Memalign(alignment, bytes) ==
    Allocated(internal_memalign(ms, alignment, bytes), bytes)

IndependentCalloc(bytes, array) ==
    AllocatedTwo(ialloc(ms, 2, bytes, array, mspace_malloc), bytes, array)

Trim(pad) == Returned(sys_trim(ms, pad)) /\ UNCHANGED live

PtNext ==
    /\ setup.impl = "ptmalloc3"
    /\ \/ \E b \in setup.requests : Malloc(b)
       \/ \E n \in Counts, b \in setup.requests : Calloc(n, b)
       \/ \E p \in DOMAIN live : Free(p)
       \/ \E p \in DOMAIN live, b \in setup.requests : Realloc(p, b)
       \/ \E a \in Alignments, b \in setup.requests : Memalign(a, b)
       \/ \E b \in setup.requests, array \in BOOLEAN : IndependentCalloc(b, array)
       \/ Trim(0)

(***************************************************************************)
(* The checks that a debug build runs (do_check_malloc_state).             *)
(***************************************************************************)
do_check_top_chunk(m) ==
    /\ m.topsize = chunksize(m, m.top)
    /\ m.topsize > 0
    /\ LET s == m.seg[segment_holding(m, m.top)]
       IN  m.topsize = s.base + s.size - m.top - TOP_FOOT_SIZE(m)
    /\ pinuse(m, m.top)
    /\ ~pinuse(m, m.top + m.topsize)

do_check_mmapped_chunk(m, p) ==
    /\ (chunksize(m, p) + m.foot[p] + 4) % PageSize = 0
    /\ m.head[next_chunk(m, p)] = [size |-> 1, c |-> TRUE, p |-> TRUE]
    /\ m.head[next_chunk(m, p) + 1].size = 0

do_check_inuse_chunk(m, p) ==
    /\ cinuse(m, p)
    /\ pinuse(m, next_chunk(m, p))
    /\ pinuse(m, p) \/ next_chunk(m, prev_chunk(m, p)) = p

do_check_free_chunk(m, p) ==
    LET next == next_chunk(m, p) IN
    /\ ~cinuse(m, p) /\ ~pinuse(m, next)
    /\ p \notin {m.dv, m.top} =>
          /\ chunksize(m, p) >= MIN_CHUNK_SIZE
          /\ m.foot[next] = chunksize(m, p)
          /\ pinuse(m, p)
          /\ next = m.top \/ cinuse(m, next)

(* The ring of chunks of the size of t.                                    *)
RECURSIVE RingFrom(_, _, _)
RingFrom(m, t, u) == {u} \cup IF m.tree[u].fd = t THEN {}
                              ELSE RingFrom(m, t, m.tree[u].fd)

RECURSIVE do_check_tree(_, _)
do_check_tree(m, t) ==
    LET i == m.tree[t].index
        size == chunksize(m, t)
        ring == RingFrom(m, t, t)
        heads == {u \in ring : m.tree[u].parent # Null}
        c == m.tree[t].child
    IN  /\ i = compute_tree_index(size) /\ ~is_small(size)
        /\ size >= minsize_for_tree_index(i)
        /\ i = NTreeBins - 1 \/ size < minsize_for_tree_index(i + 1)
        /\ \A u \in ring :
              /\ m.tree[u].index = i /\ chunksize(m, u) = size
              /\ ~cinuse(m, u) /\ ~pinuse(m, next_chunk(m, u))
              /\ m.tree[m.tree[u].fd].bk = u /\ m.tree[m.tree[u].bk].fd = u
              /\ u \notin heads => m.tree[u].child = <<Null, Null>>
        /\ heads = {t}
        /\ \/ m.tree[t].parent = treebin_at(i) /\ m.treebins[i] = t
           \/ t \in ToSet(m.tree[m.tree[t].parent].child)
        /\ \A k \in 1..2 : c[k] # Null =>
              m.tree[c[k]].parent = t /\ do_check_tree(m, c[k])
        /\ Null \notin ToSet(c) => chunksize(m, c[1]) < chunksize(m, c[2])

do_check_treebin(m, i) ==
    IF i \in m.treemap THEN m.treebins[i] # Null /\ do_check_tree(m, m.treebins[i])
    ELSE m.treebins[i] = Null

do_check_smallbin(m, i) ==
    /\ i \in m.smallmap <=> m.smallbins[i] # <<>>
    /\ \A p \in ToSet(m.smallbins[i]) :
          do_check_free_chunk(m, p) /\ chunksize(m, p) = i

(* A search for the chunk x by its size.                                   *)
RECURSIVE TreeFind(_, _, _, _, _)
TreeFind(m, t, s, i, d) ==
    IF t = Null \/ chunksize(m, t) = s THEN t
    ELSE TreeFind(m, ChildFor(m, t, s, i, d), s, i, d + 1)

bin_find(m, x) ==
    LET size == chunksize(m, x)
        i == compute_tree_index(size)
        t == TreeFind(m, m.treebins[i], size, i, 0)
    IN  IF is_small(size)
        THEN size \in m.smallmap /\ x \in ToSet(m.smallbins[size])
        ELSE i \in m.treemap /\ t # Null /\ x \in RingFrom(m, t, t)

traverse_and_check(m) ==
    \A q \in Chunks(m) :
        IF cinuse(m, q) THEN ~bin_find(m, q) /\ do_check_inuse_chunk(m, q)
        ELSE /\ q = m.dv \/ bin_find(m, q)
             /\ next_chunk(m, q) # m.top => cinuse(m, next_chunk(m, q))
             /\ do_check_free_chunk(m, q)

do_check_malloc_state(m) ==
    /\ \A i \in 0 .. 2^TreeShift - 1 : do_check_smallbin(m, i)
    /\ \A i \in 0 .. NTreeBins - 1 : do_check_treebin(m, i)
    /\ m.dvsize # 0 => /\ m.dvsize = chunksize(m, m.dv)
                       /\ m.dvsize >= MIN_CHUNK_SIZE
                       /\ ~bin_find(m, m.dv)
    /\ do_check_top_chunk(m) /\ ~bin_find(m, m.top)
    /\ traverse_and_check(m)

(***************************************************************************)
(* Properties.                                                             *)
(***************************************************************************)
(* Every check of the debug build holds after every operation: bins, maps, *)
(* tries, rings, designated victim, top and boundary tags agree, and no    *)
(* two free chunks are neighbours.  The footprint is what the segments and *)
(* the system's mappings amount to.                                        *)
StateIsSound ==
    /\ ~ms.aborted
    /\ do_check_malloc_state(ms)
    /\ \A p \in DOMAIN live : is_mmapped(ms, p) => do_check_mmapped_chunk(ms, p)
    /\ ms.footprint = Last(ms.seg).size + PageSize * Cardinality(ms.maps)

(* The chunks that record segments, and the blocks with a mapping of their *)
(* own.                                                                    *)
RecordSize(s) == s.base + s.size - s.record
Records == {s.record : s \in ToSet(Tail(ms.seg))}
Direct == {p \in DOMAIN live : is_mmapped(ms, p)}
DirectPages(p) ==
    PagesOf(p - ms.foot[p], chunksize(ms, p) + ms.foot[p] + 4)
SegmentPages == UNION {PagesOf(s.base, s.size) : s \in ToSet(Front(ms.seg))}

(* The client's blocks are exactly the chunks in use, but for the          *)
(* malloc_state and the records of the segments; each has room for what    *)
(* was asked and is still mapped.  What mallinfo reports as in use is      *)
(* theirs, or is spent on records, fenceposts and mappings.                *)
BlocksAreWhole ==
    LET inSegments == DOMAIN live \ Direct
        lost == ms.maps \ (SegmentPages \cup UNION {DirectPages(p) : p \in Direct})
        Words(p) == chunksize(ms, p)
        Mapping(p) == PageSize * Cardinality(DirectPages(p))
    IN  /\ inSegments = {q \in Chunks(ms) : cinuse(ms, q)} \ (Records \cup {0})
        /\ \A p \in DOMAIN live : mspace_usable_size(ms, p) >= live[p]
        /\ SegmentPages \subseteq ms.maps
        /\ \A p \in Direct :
              DirectPages(p) \subseteq ms.maps \ SegmentPages
        /\ internal_mallinfo(ms).uordblks =
              MStateSize + MapThenSumSet(Words, inSegments)
                + MapThenSumSet(Mapping, Direct)
                + MapThenSumSet(RecordSize, ToSet(Tail(ms.seg)))
                + PageSize * Cardinality(lost)

FreeChunks == {q \in Chunks(ms) : ~cinuse(ms, q)}

(* malloc on its own segments fails only if neither a free chunk nor top   *)
(* has room.  A request gets the smallest free chunk that fits, from       *)
(* whatever bin or depth of a trie, except that a small one is content     *)
(* with the designated victim (mspace_malloc without the system's help).   *)
MallocFindsFit ==
    \A b \in setup.requests :
        LET nb == request2size(ms, b)
            r  == mspace_malloc(ms, b)
            fits == {chunksize(ms, q) : q \in
                        {f \in FreeChunks : chunksize(ms, f) >= nb}}
        IN  /\ r.mem = Null <=> fits = {} /\ ms.topsize =< nb
            /\ fits # {} /\ (b > MAX_SMALL_REQUEST(ms) \/ ms.dvsize < nb) =>
                  chunksize(ms, r.mem) = Min(fits)

(* Once every block is freed, what is left of the first segment is top and *)
(* what is left of any other is one free chunk.                            *)
AllFreeIsTop ==
    live = <<>> =>
        /\ ms.top = Head(ms.seg).base + (IF Len(ms.seg) = 1 THEN MStateSize ELSE 0)
        /\ \A s \in ToSet(Tail(ms.seg)) : Cardinality(ChunksOf(ms, s) \cap FreeChunks) =< 1
        /\ Len(ms.seg) = 1 => ms.dv = Null /\ DOMAIN ms.tree = {}
=============================================================================
