----------------------------- MODULE HashTable ------------------------------
(***************************************************************************)
(* numa::HashTable (hashtable/hashtable.hpp): operator[], remove and the   *)
(* iterators of a table whose bins grow while it is used.                  *)
(*                                                                         *)
(* A bin keeps its nodes in a BucketSpace, an array of buckets.  The bin's *)
(* RWLock is held for reading during an operation and for writing while    *)
(* the bin is resized; each bucket has an RWLock too.  What is done under  *)
(* a bucket's guard is one step; a bin's guard is held over several steps. *)
(* RWLock shows that the lock itself is right.                             *)
(***************************************************************************)
EXTENDS Integers, FiniteSets, SequencesExt

CONSTANTS
    BinCount,        \* 2^BinBits
    Keys,
    Hash,            \* the hash of a key
    InitialBuckets,  \* 64 in the code
    LoadRatio,       \* _max_load_ratio, 3.0 in the code
    Threads,         \* threads that use the table
    Removable,       \* the keys that are removed
    Iterators,       \* HashTable::Iterator objects
    MaxNodes         \* bound: nodes created

Bins == 0 .. BinCount - 1
NodeIds == 1 .. MaxNodes

ASSUME TableConstants ==
    /\ Keys # {} /\ BinCount \in Nat \ {0} /\ InitialBuckets \in Nat \ {0}
    /\ LoadRatio \in Nat \ {0} /\ MaxNodes \in Nat
    /\ Hash \in [Keys -> Nat] /\ Removable \subseteq Keys
    /\ IsFiniteSet(Threads)

VARIABLES
    spaces,   \* the BucketSpaces a bin has had; BinData::_buckets is the last
    count,    \* BinData::_count
    keyOf,    \* the keys of the nodes created so far
    removed,  \* the nodes that were removed
    op,       \* the operation of a thread
    it,       \* the position of an iterator
    visits,   \* how often an iterator has stood on a node (at most 2 are counted)
    promised  \* the nodes of a bin when an iterator asked for its buckets,
              \* or Void once a node was removed during the iteration

table == <<spaces, count, keyOf, removed>>
iteration == <<it, visits, promised>>
vars == <<table, op, iteration>>

Idle == [pc |-> "idle", what |-> "get", key |-> CHOOSE k \in Keys : TRUE, space |-> 0]

(* An iterator: the bin, BucketSpaceIterator::_buckets and _curr_index,    *)
(* BucketIterator::_generation, _index and _curr_node (0 for null).        *)
Start == [pc |-> "new", bin |-> 0, space |-> 0, bucket |-> 0, gen |-> 0, index |-> 0,
          node |-> 0]

(* In place of the promised nodes.                                         *)
Void == {0}

BinOf(k) == Hash[k] % BinCount

(* _buckets, _max_count                                                    *)
Current(b) == Last(spaces[b])
Size(space) == Cardinality(DOMAIN space)
MaxCount(b) == Size(Current(b)) * LoadRatio

(* BucketSpace::from_hash                                                  *)
FromHash(space, h) == (h \div BinCount) % Size(space)

-----------------------------------------------------------------------------

TypeOK ==
    /\ \A b \in Bins : \A g \in DOMAIN spaces[b] : \A i \in DOMAIN spaces[b][g] :
        /\ spaces[b][g][i].nodes \in Seq(NodeIds)
        /\ spaces[b][g][i].gen \in 0 .. 2 * MaxNodes
    /\ count \in [Bins -> 0 .. MaxNodes]
    /\ keyOf \in Seq(Keys) /\ Len(keyOf) <= MaxNodes
    /\ removed \subseteq NodeIds
    /\ op \in [Threads -> [pc : {"idle", "full", "drain", "enter", "search", "add"},
                           what : {"get", "remove"}, key : Keys, space : Nat]]
    /\ \A r \in Iterators :
        /\ it[r].pc \in {"new", "bin", "bucket", "at", "end"}
        /\ it[r].bin \in 0 .. BinCount
        /\ it[r].pc = "at" => it[r].index > 0 /\ it[r].node \in DOMAIN keyOf

(* resize(): a new BucketSpace of n empty buckets.                         *)
EmptySpace(n) == [i \in 0 .. n - 1 |-> [nodes |-> <<>>, gen |-> 0]]

Init ==
    /\ spaces = [b \in Bins |-> <<EmptySpace(InitialBuckets)>>]
    /\ count = [b \in Bins |-> 0]
    /\ keyOf = <<>>
    /\ removed = {}
    /\ op = [t \in Threads |-> Idle]
    /\ it = [r \in Iterators |-> Start]
    /\ visits = [r \in Iterators |-> [n \in NodeIds |-> 0]]
    /\ promised = [r \in Iterators |-> {}]

-----------------------------------------------------------------------------
(* operate_on_bin                                                          *)

NodesOf(space) == UNION {ToSet(space[i].nodes) : i \in DOMAIN space}

(* Those who have the bin's read guard.                                    *)
ReleasedEarly(b) == {t \in Threads : op[t].pc = "search" /\ BinOf(op[t].key) = b} \* faulty variant
UpgradedGuard(b) == {t \in Threads : /\ op[t].pc \in {"full", "drain", "search", "add"}
                                     /\ BinOf(op[t].key) = b}  \* faulty variant
BinReaders(b) == {t \in Threads : op[t].pc \in {"search", "add"} /\ BinOf(op[t].key) = b}

(* Those who have set the write flag of the bin's lock.                    *)
BinWriters(b) == {t \in Threads : op[t].pc = "drain" /\ BinOf(op[t].key) = b}

Goto(t, l) == op' = [op EXCEPT ![t].pc = l]

(* _count.load() >= _max_count                                             *)
Full(b) == count[b] >= MaxCount(b)

Getting == {t \in Threads : op[t].pc # "idle" /\ op[t].what = "get"}

(* operator[] checks first whether its bin should grow.                    *)
GetOrCreate(t, k) ==
    /\ op[t].pc = "idle" /\ Len(keyOf) + Cardinality(Getting) < MaxNodes
    /\ op' = [op EXCEPT ![t] = [pc |-> IF Full(BinOf(k)) THEN "full" ELSE "enter",
                                what |-> "get", key |-> k, space |-> 0]]
    /\ UNCHANGED <<table, iteration>>

RemoveKey(t, k) ==
    /\ op[t].pc = "idle" /\ k \in Removable
    /\ op' = [op EXCEPT ![t] = [pc |-> "enter", what |-> "remove", key |-> k, space |-> 0]]
    /\ UNCHANGED <<table, iteration>>

(* resize_if_necessary: the write guard's flag is set, new readers wait.   *)
ResizeIfNecessary(t) ==
    /\ op[t].pc = "full" /\ BinWriters(BinOf(op[t].key)) = {}
    /\ Goto(t, "drain")
    /\ UNCHANGED <<table, iteration>>

(* The nodes of a space, bucket by bucket.                                 *)
InOrder(space) == FlattenSeq([i \in 1 .. Size(space) |-> space[i - 1].nodes])

(* The elements of a list that are in a set, in the order of the list.     *)
Sublist(list, set) ==
    FlattenSeq([j \in DOMAIN list |-> IF list[j] \in set THEN <<list[j]>> ELSE <<>>])

(* resize: every node moves to its bucket in a larger space.               *)
Rehash(space, n) ==
    [i \in 0 .. n - 1 |->
        [nodes |-> Sublist(InOrder(space),
                           {x \in NodesOf(space) :
                               FromHash(EmptySpace(n), Hash[keyOf[x]]) = i}),
         gen |-> 0]]

(* With no reader left, check again, resize and unlock.                    *)
Resize(t) ==
    LET b == BinOf(op[t].key) IN
    /\ op[t].pc = "drain" /\ BinReaders(b) = {}
    /\ spaces' = IF Full(b)
                 THEN [spaces EXCEPT ![b] = Append(@, Rehash(Last(@), 2 * Size(Last(@))))]
                 ELSE spaces
    /\ Goto(t, "enter")
    /\ UNCHANGED <<count, keyOf, removed, iteration>>

(* Read-lock the bin and retrieve the bucket.                              *)
Enter(t) ==
    /\ op[t].pc = "enter" /\ BinWriters(BinOf(op[t].key)) = {}
    /\ op' = [op EXCEPT ![t].pc = "search", ![t].space = Len(spaces[BinOf(op[t].key)])]
    /\ UNCHANGED <<table, iteration>>

(* The first node of the bucket with this key, or 0.                       *)
FindKey(nodes, k) == SelectInSeq(nodes, LAMBDA x : Hash[keyOf[x]] = Hash[k] /\ keyOf[x] = k)

(* Replace the nodes of bucket i of the space that t has retrieved.        *)
ChangeBucket(t, i, nodes) ==
    spaces' = [spaces EXCEPT ![BinOf(op[t].key)][op[t].space][i] =
                                [nodes |-> nodes, gen |-> @.gen + 1]]

(* The pairs that Remove takes away when it finds the key at pos.          *)
Erased(pos) == IF pos = 0 THEN 0 ELSE 1

(* Search the bucket under its guard; Remove erases what it finds.         *)
Search(t) ==
    LET k == op[t].key
        b == BinOf(k)
        i == FromHash(spaces[b][op[t].space], Hash[k])
        nodes == spaces[b][op[t].space][i].nodes
        pos == FindKey(nodes, k)
    IN
    /\ op[t].pc = "search"
    /\ \/ /\ op[t].what = "remove"
          /\ IF pos # 0 THEN /\ ChangeBucket(t, i, RemoveAt(nodes, pos))
                             /\ removed' = removed \cup {nodes[pos]}
                             /\ promised' = [r \in Iterators |->
                                   IF it[r].pc = "new" THEN promised[r] ELSE Void]
                        ELSE UNCHANGED <<spaces, removed, promised>>
          /\ count' = [count EXCEPT ![b] = @ - Erased(pos)]
          /\ op' = [op EXCEPT ![t] = Idle]
       \/ /\ op[t].what = "get"
          /\ op' = IF pos # 0 THEN [op EXCEPT ![t] = Idle] ELSE [op EXCEPT ![t].pc = "add"]
          /\ UNCHANGED <<spaces, count, removed, promised>>
    /\ UNCHANGED <<keyOf, it, visits>>

(* notfound: the bucket's guard was released; add_to_bucket takes it again.*)
AddToBucket(t) ==
    LET k == op[t].key
        b == BinOf(k)
        i == FromHash(spaces[b][op[t].space], Hash[k])
    IN
    /\ op[t].pc = "add"
    /\ keyOf' = Append(keyOf, k)
    /\ count' = [count EXCEPT ![b] = @ + 1]
    /\ ChangeBucket(t, i, Append(spaces[b][op[t].space][i].nodes, Len(keyOf) + 1))
    /\ op' = [op EXCEPT ![t] = Idle]
    /\ UNCHANGED <<removed, iteration>>

-----------------------------------------------------------------------------
(* HashTable::Iterator: a RecursiveIterator over the bins, of one over the *)
(* buckets of a bin, of a BucketIterator.                                  *)

LiveBucket(p) == Current(p.bin)[p.bucket]   \* faulty variant
BucketAt(p) == spaces[p.bin][p.space][p.bucket]

(* updateCurrNode, then on to the next bucket if there is no node.         *)
MoveTo(r, p) ==
    LET nodes == BucketAt(p).nodes IN
    IF p.index \in DOMAIN nodes
    THEN /\ it' = [it EXCEPT ![r] = [p EXCEPT !.pc = "at", !.node = nodes[p.index]]]
         /\ visits' = [visits EXCEPT ![r][nodes[p.index]] = IF @ = 2 THEN 2 ELSE @ + 1]
    ELSE /\ it' = [it EXCEPT ![r] = [p EXCEPT !.pc = "bucket", !.node = 0,
                                              !.bucket = @ + 1]]
         /\ UNCHANGED visits

Begin(r) ==
    /\ it[r].pc = "new"
    /\ it' = [it EXCEPT ![r].pc = "bin"]
    /\ UNCHANGED <<table, op, visits, promised>>

(* get_sub_iter of a bin: bucketSpace() takes the bin's read guard.        *)
OpenBin(r) ==
    LET b == it[r].bin IN
    /\ it[r].pc = "bin" /\ b < BinCount /\ BinWriters(b) = {}
    /\ it' = [it EXCEPT ![r].pc = "bucket", ![r].space = Len(spaces[b]), ![r].bucket = 0]
    /\ promised' = [promised EXCEPT ![r] =
                      IF @ = Void THEN Void ELSE @ \cup NodesOf(Current(b))]
    /\ UNCHANGED <<table, op, visits>>

(* get_sub_iter of a bucket: a new BucketIterator at its first node.       *)
OpenBucket(r) ==
    /\ it[r].pc = "bucket" /\ it[r].bucket < Size(spaces[it[r].bin][it[r].space])
    /\ MoveTo(r, [it[r] EXCEPT !.gen = BucketAt(it[r]).gen, !.index = 1])
    /\ UNCHANGED <<table, op, promised>>

BinEnds(r) ==
    /\ it[r].pc = "bucket" /\ it[r].bucket = Size(spaces[it[r].bin][it[r].space])
    /\ it' = [it EXCEPT ![r].pc = "bin", ![r].bin = @ + 1]
    /\ UNCHANGED <<table, op, visits, promised>>

End(r) ==
    /\ it[r].pc = "bin" /\ it[r].bin = BinCount
    /\ it' = [it EXCEPT ![r].pc = "end"]
    /\ UNCHANGED <<table, op, visits, promised>>

(* The first position of a node with this hash or a higher one.  *)
SkipLower(nodes, h) ==
    LET found == {i \in DOMAIN nodes : Hash[keyOf[nodes[i]]] >= h}
    IN  IF found = {} THEN Len(nodes) + 1 ELSE CHOOSE i \in found : \A j \in found : i <= j

HashAt(r) == Hash[keyOf[it[r].node]]

(* BucketIterator::next: the next position, or a search if the bucket was  *)
(* changed.  The search leaves _generation as it was.                      *)
NextIndex(r) == IF it[r].gen = BucketAt(it[r]).gen
                THEN it[r].index + 1
                ELSE SkipLower(BucketAt(it[r]).nodes, HashAt(r))

NextNode(r) ==
    /\ it[r].pc = "at"
    /\ MoveTo(r, [it[r] EXCEPT !.index = NextIndex(r)])
    /\ UNCHANGED <<table, op, promised>>

-----------------------------------------------------------------------------

OpStep(t) ==
    ResizeIfNecessary(t) \/ Resize(t) \/ Enter(t) \/ Search(t) \/ AddToBucket(t)

IterStep(r) == OpenBin(r) \/ OpenBucket(r) \/ BinEnds(r) \/ End(r) \/ NextNode(r)

Next ==
    \/ \E t \in Threads : OpStep(t) \/ \E k \in Keys : GetOrCreate(t, k) \/ RemoveKey(t, k)
    \/ \E r \in Iterators : Begin(r) \/ IterStep(r)

Spec == Init /\ [][Next]_vars

(* Operations that have begun and iterations go on.                        *)
FairSpec ==
    /\ Spec
    /\ \A t \in Threads : WF_vars(OpStep(t))
    /\ \A r \in Iterators : WF_vars(IterStep(r))

-----------------------------------------------------------------------------
(* Properties.                                                             *)

Created == DOMAIN keyOf

(* No node is lost or duplicated by concurrent operations and resizes:     *)
(* every node that was created and not removed is in the current space of  *)
(* its bin, once, in the bucket that a lookup of its key searches, and     *)
(* size() counts it.                                                       *)
NodesInPlace ==
    /\ \A n \in Created \ removed :
        LET space == Current(BinOf(keyOf[n])) IN
        \E i \in DOMAIN space : /\ i = FromHash(space, Hash[keyOf[n]])
                                /\ n \in ToSet(space[i].nodes)
    /\ \A b \in Bins : Len(InOrder(Current(b))) = count[b]
    /\ \A b \in Bins : Cardinality({n \in Created \ removed : BinOf(keyOf[n]) = b}) = count[b]

(* The load of a bin exceeds its limit by less than the number of threads, *)
(* although the check for a resize is not repeated under the guard.        *)
LoadBounded == \A b \in Bins : count[b] < MaxCount(b) + Cardinality(Threads)

(* Racing operator[] calls may insert a key more than once, since the      *)
(* bucket is unlocked between search and insertion; but never more often   *)
(* than there are threads, whatever was removed in between.                *)
NodesWith(k) == {n \in Created \ removed : keyOf[n] = k}
DuplicatesBounded ==
    \A k \in Keys : Cardinality(NodesWith(k)) <= Cardinality(Threads)

(* What the table keeps, whatever operations and resizes run concurrently: *)
(* its nodes, a bounded load, and few duplicates.                          *)
TableIsIntact == TypeOK /\ NodesInPlace /\ LoadBounded /\ DuplicatesBounded

(* operator[] and remove return: resizers, readers and iterators never     *)
(* wait for each other in a circle.                                        *)
OperationsReturn == \A t \in Threads : (op[t].pc # "idle") ~> (op[t].pc = "idle")

(* An iteration that ends has stood exactly once on every node that its    *)
(* bin had when the iterator reached it, also when other nodes were        *)
(* inserted or the bin was resized meanwhile (and nothing was removed).    *)
IterationIsExact ==
    \A r \in Iterators : it[r].pc = "end" /\ promised[r] # Void =>
        /\ \A n \in promised[r] : visits[r][n] = 1
        /\ \A n \in NodeIds : visits[r][n] <= 1

(* "Return value for key, or insert default-constructed value"             *)
(* (hashtable.hpp:412): operator[] does not insert a key that is present.  *)
OneNodePerKey == \A k \in Keys : Cardinality(NodesWith(k)) <= 1

(* "If the bucket changes, the iterator will try to find the next element  *)
(* with a higher hash value" (hashtable.hpp:129-130).                      *)
FindsHigherHash ==
    [][\A r \in Iterators :
        NextNode(r) /\ it[r].gen # BucketAt(it[r]).gen /\ it'[r].pc = "at"
        => HashAt(r)' > HashAt(r)]_vars
=============================================================================
