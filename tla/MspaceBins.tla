----------------------------- MODULE MspaceBins -----------------------------
(***************************************************************************)
(* The data structures of one mspace of the allocator that arenas use      *)
(* (ptmalloc3, or dlmalloc, which shares them): boundary-tagged chunks,    *)
(* the small bins, the tree bins and the designated victim.  Each macro of *)
(* the code is an operator from the malloc_state m it changes to the       *)
(* changed malloc_state.                                                   *)
(*                                                                         *)
(* Addresses and sizes count words of 8 bytes; request sizes count bytes.  *)
(* MALLOC_ALIGNMENT, m.align, is one word in ptmalloc3, two in dlmalloc.   *)
(* m.head[a] is the head word of the chunk at a (its size and the bits     *)
(* CINUSE and PINUSE), m.foot[a] the prev_foot word of a, which exists     *)
(* while the chunk before a is free.  What lies inside a chunk is payload  *)
(* and is not represented.  A small bin is a circular list and is a        *)
(* sequence here, b->fd first.                                             *)
(***************************************************************************)
EXTENDS Integers, FiniteSetsExt, SequencesExt, Functions

CONSTANTS
    TreeShift,    \* TREEBIN_SHIFT in words: 5 in the code
    NTreeBins,    \* NTREEBINS: 32 in the code
    SizeBits,     \* width of a size in words: 61 in the code
    Null          \* the null pointer

ASSUME ShiftType == TreeShift \in Nat \ {0, 1} /\ NTreeBins \in Nat \ {0, 1}

MIN_CHUNK_SIZE == 4
CHUNK_OVERHEAD == 1
MAX_SIZE_T == 2^SizeBits - 1
MAX_REQUEST == 8 * (MAX_SIZE_T + 1 - 4 * MIN_CHUNK_SIZE)
MIN_REQUEST == 8 * (MIN_CHUNK_SIZE - CHUNK_OVERHEAD) - 1
MAX_SMALL_REQUEST(m) == (8 * 2^TreeShift - 1) - (8 * m.align - 1) - 8

(* Unsigned subtraction.                                                   *)
Sub(a, b) == (a - b) % 2^SizeBits

(* A faulty variant: the word of overhead is forgotten.                    *)
PadWithoutOverhead(m, bytes) ==
    m.align * ((bytes + 8 * m.align - 1) \div (8 * m.align))

pad_request(m, bytes) ==
    m.align * ((bytes + 8 * CHUNK_OVERHEAD + 8 * m.align - 1) \div (8 * m.align))
request2size(m, bytes) ==
    IF bytes < MIN_REQUEST THEN MIN_CHUNK_SIZE ELSE pad_request(m, bytes)

(* What stays free behind top: room for the record of a segment (32 bytes) *)
(* and for fenceposts.                                                     *)
TOP_FOOT_SIZE(m) == pad_request(m, 32) + MIN_CHUNK_SIZE

(***************************************************************************)
(* Heads and feet.                                                         *)
(***************************************************************************)
cinuse(m, p) == m.head[p].c
pinuse(m, p) == m.head[p].p
chunksize(m, p) == m.head[p].size
next_chunk(m, p) == p + chunksize(m, p)
prev_chunk(m, p) == p - m.foot[p]

(* Writes the head of a chunk; whatever it now contains becomes payload.   *)
WriteHead(m, a, s, c, p) ==
    [m EXCEPT
        !.head = (a :> [size |-> s, c |-> c, p |-> p]) @@
                 RestrictDomain(@, LAMBDA x : x =< a \/ x >= a + s),
        !.foot = RestrictDomain(@, LAMBDA x : x =< a \/ x > a + s)]

(* head |= PINUSE_BIT, also where no chunk has been set up yet.            *)
SetPinuse(m, a) ==
    [m EXCEPT !.head =
        IF a \in DOMAIN @ THEN [@ EXCEPT ![a].p = TRUE]
        ELSE (a :> [size |-> 0, c |-> FALSE, p |-> TRUE]) @@ @]
clear_pinuse(m, a) == [m EXCEPT !.head[a].p = FALSE]

set_foot(m, a, s) == [m EXCEPT !.foot = (a + s :> s) @@ @]
set_size_and_pinuse_of_free_chunk(m, a, s) ==
    set_foot(WriteHead(m, a, s, FALSE, TRUE), a, s)
set_free_with_pinuse(m, a, s, n) ==
    set_size_and_pinuse_of_free_chunk(clear_pinuse(m, n), a, s)

set_inuse(m, a, s) ==
    SetPinuse(WriteHead(m, a, s, TRUE, a \in DOMAIN m.head /\ pinuse(m, a)),
              a + s)
set_inuse_and_pinuse(m, a, s) ==
    SetPinuse(WriteHead(m, a, s, TRUE, TRUE), a + s)
set_size_and_pinuse_of_inuse_chunk(m, a, s) == WriteHead(m, a, s, TRUE, TRUE)

(***************************************************************************)
(* Small bins.  A bin is indexed by the size of its chunks in words.       *)
(***************************************************************************)
is_small(s) == s < 2^TreeShift

insert_small_chunk(m, a, s) ==
    [m EXCEPT !.smallbins[s] = <<a>> \o @, !.smallmap = @ \cup {s}]

unlink_small_chunk(m, a, s) ==
    [m EXCEPT !.smallbins[s] = Remove(@, a),
              !.smallmap = IF m.smallbins[s] = <<a>> THEN @ \ {s} ELSE @]

unlink_first_small_chunk(m, a, i) ==
    [m EXCEPT !.smallbins[i] = Tail(@),
              !.smallmap = IF Len(m.smallbins[i]) = 1 THEN @ \ {i} ELSE @]

replace_dv(m, a, s) ==
    [(IF m.dvsize # 0 THEN insert_small_chunk(m, m.dv, m.dvsize) ELSE m)
        EXCEPT !.dvsize = s, !.dv = a]

(***************************************************************************)
(* Tree bins: tries on the bits of the size.  The chunks of one size form  *)
(* a ring (fd, bk) of which one is the node of the trie (parent # Null).   *)
(***************************************************************************)
Log2(x) == CHOOSE k \in 0..SizeBits : 2^k =< x /\ x < 2^(k + 1)
BitOf(s, k) == IF k < 0 THEN 0 ELSE (s \div 2^k) % 2

compute_tree_index(s) ==
    LET x == s \div 2^TreeShift IN
    IF x = 0 THEN 0
    ELSE IF x > 2^(NTreeBins \div 2) - 1 THEN NTreeBins - 1
    ELSE 2 * Log2(x) + BitOf(s, Log2(x) + TreeShift - 1)

bit_for_tree_index(i) ==
    IF i = NTreeBins - 1 THEN SizeBits - 1 ELSE (i \div 2) + TreeShift - 2

minsize_for_tree_index(i) ==
    2^((i \div 2) + TreeShift) + (i % 2) * 2^((i \div 2) + TreeShift - 1)

(* The parent of the root of tree bin i is the bin itself, which lies      *)
(* outside the segment: a negative address.                                *)
treebin_at(i) == -1 - i

(* The child a search for size s takes below depth d of tree bin i.        *)
ChildFor(m, t, s, i, d) ==
    m.tree[t].child[1 + BitOf(s, bit_for_tree_index(i) - d)]

(* A faulty variant: a node without a left child ends the search.          *)
LeftChildOnly(m, t) == m.tree[t].child[1]

leftmost_child(m, t) ==
    IF m.tree[t].child[1] # Null THEN m.tree[t].child[1] ELSE m.tree[t].child[2]

(* Where the loop of insert_large_chunk stops: at a node of size s or at   *)
(* one without the child it should descend to.                             *)
RECURSIVE InsertionPoint(_, _, _, _, _)
InsertionPoint(m, t, s, i, d) ==
    IF chunksize(m, t) = s \/ ChildFor(m, t, s, i, d) = Null
    THEN [node |-> t, bit |-> 1 + BitOf(s, bit_for_tree_index(i) - d)]
    ELSE InsertionPoint(m, ChildFor(m, t, s, i, d), s, i, d + 1)

TreeNode(i, parent, fd, bk) ==
    [index |-> i, child |-> <<Null, Null>>, parent |-> parent, fd |-> fd, bk |-> bk]

(* x becomes a child of the node t, or joins its ring.                     *)
LinkBelow(m, x, s, i, t, bit) ==
    IF chunksize(m, t) # s
    THEN [m EXCEPT !.tree = (x :> TreeNode(i, t, x, x)) @@
                            [@ EXCEPT ![t].child[bit] = x]]
    ELSE [m EXCEPT !.tree = (x :> TreeNode(i, Null, @[t].fd, t)) @@
                            [@ EXCEPT ![t].fd = x, ![m.tree[t].fd].bk = x]]
LinkAt(m, x, s, i, at) == LinkBelow(m, x, s, i, at.node, at.bit)

LinkInBin(m, x, s, i) ==
    IF i \in m.treemap
    THEN LinkAt(m, x, s, i, InsertionPoint(m, m.treebins[i], s, i, 0))
    ELSE [m EXCEPT !.treemap = @ \cup {i}, !.treebins[i] = x,
                   !.tree = (x :> TreeNode(i, treebin_at(i), x, x)) @@ @]

insert_large_chunk(m, x, s) == LinkInBin(m, x, s, compute_tree_index(s))

(* The leaf reached by going right where possible, else left.              *)
RECURSIVE RightmostLeaf(_, _)
RightmostLeaf(m, r) ==
    LET c == m.tree[r].child IN
    IF c[2] # Null THEN RightmostLeaf(m, c[2])
    ELSE IF c[1] # Null THEN RightmostLeaf(m, c[1])
    ELSE r

(* child[k] of p, whichever of the two is x, becomes r.                    *)
ReplaceChild(tree, p, x, r) ==
    [tree EXCEPT ![p].child = IF @[1] = x THEN <<r, @[2]>> ELSE <<@[1], r>>]

(* Steps 1 and 2: the replacement of x, taken out of its own place.        *)
DetachReplacement(m, x) ==
    LET n == m.tree[x]
        c == n.child
        leaf == RightmostLeaf(m, IF c[2] # Null THEN c[2] ELSE c[1])
    IN  IF n.bk # x
        THEN [r |-> n.bk,
              tree |-> [m.tree EXCEPT ![n.fd].bk = n.bk, ![n.bk].fd = n.fd]]
        ELSE IF c = <<Null, Null>> THEN [r |-> Null, tree |-> m.tree]
        ELSE [r |-> leaf,
              tree |-> ReplaceChild(m.tree, m.tree[leaf].parent, leaf, Null)]

(* A faulty variant: the child keeps its old parent.                       *)
AdoptWithoutParent(tree, r, c, k) ==
    IF c = Null THEN tree ELSE [tree EXCEPT ![r].child[k] = c]

(* Step 3: the replacement takes over the children of x.                   *)
Adopt(tree, r, c, k) ==
    IF c = Null THEN tree
    ELSE [tree EXCEPT ![r].child[k] = c, ![c].parent = r]

UnlinkFor(m, x, d) ==
    LET r  == d.r
        xp == m.tree[x].parent
        i  == m.tree[x].index
        c  == d.tree[x].child
        root == m.treebins[i] = x
        linked == IF root THEN d.tree ELSE ReplaceChild(d.tree, xp, x, r)
        filled == IF r = Null THEN linked
                  ELSE Adopt(Adopt([linked EXCEPT ![r].parent = xp],
                                   r, c[1], 1), r, c[2], 2)
        Without(t) == RestrictDomain(t, LAMBDA a : a # x)
    IN  IF xp = Null THEN [m EXCEPT !.tree = Without(d.tree)]
        ELSE [m EXCEPT !.tree = Without(filled),
                       !.treebins[i] = IF root THEN r ELSE @,
                       !.treemap = IF root /\ r = Null THEN @ \ {i} ELSE @]

unlink_large_chunk(m, x) == UnlinkFor(m, x, DetachReplacement(m, x))

insert_chunk(m, a, s) ==
    IF is_small(s) THEN insert_small_chunk(m, a, s) ELSE insert_large_chunk(m, a, s)
unlink_chunk(m, a, s) ==
    IF is_small(s) THEN unlink_small_chunk(m, a, s) ELSE unlink_large_chunk(m, a)
=============================================================================
