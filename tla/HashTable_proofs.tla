-------------------------- MODULE HashTable_proofs --------------------------
(***************************************************************************)
(* The proofs about HashTable: no node is lost or misplaced, the load of a *)
(* bin and the duplicates of a key are bounded, and an iteration that ends *)
(* was exact, for any bins, keys, hashes, threads, iterators and nodes.    *)
(***************************************************************************)
EXTENDS HashTable, SequenceFacts, SequenceTheorems, FiniteSetTheorems, TLAPS

-----------------------------------------------------------------------------
(* The inductive invariant.                                                *)

(* A bucket, and a BucketSpace: an array of buckets that is not empty.     *)
Buckets == [nodes : Seq(NodeIds), gen : 0 .. 2 * MaxNodes]
SpaceSet == UNION {[0 .. n - 1 -> Buckets] : n \in Nat \ {0}}

(* The operation of a thread.                                              *)
Operations == [pc : {"idle", "full", "drain", "enter", "search", "add"},
               what : {"get", "remove"}, key : Keys, space : Nat]

(* The position of an iterator.                                            *)
Positions == [pc : {"new", "bin", "bucket", "at", "end"}, bin : 0 .. BinCount, space : Nat,
              bucket : Nat, gen : Nat, index : Nat, node : Nat]

(* The types of all variables.                                             *)
TypeInv ==
    /\ spaces \in [Bins -> Seq(SpaceSet)] /\ \A b \in Bins : spaces[b] # <<>>
    /\ count \in [Bins -> 0 .. MaxNodes]
    /\ keyOf \in Seq(Keys) /\ Len(keyOf) <= MaxNodes
    /\ removed \subseteq Created
    /\ op \in [Threads -> Operations]
    /\ it \in [Iterators -> Positions]
    /\ visits \in [Iterators -> [NodeIds -> 0 .. 2]]
    /\ promised \in [Iterators -> SUBSET (NodeIds \cup {0})]

(* The nodes of a bin that were created and not removed.                   *)
Live(b) == {n \in Created \ removed : BinOf(keyOf[n]) = b}

(* In every space a bin has had, a node is at most once and in its bucket, *)
(* and a bucket changes at most once for each node that is created or      *)
(* removed.                                                                *)
SpaceInv ==
    \A b \in Bins : \A g \in DOMAIN spaces[b] : \A i \in DOMAIN spaces[b][g] :
        /\ IsInjective(spaces[b][g][i].nodes)
        /\ \A n \in Range(spaces[b][g][i].nodes) :
              n \in Created /\ BinOf(keyOf[n]) = b /\ i = FromHash(spaces[b][g], Hash[keyOf[n]])
        /\ spaces[b][g][i].gen <= Len(keyOf) + Cardinality(removed)

(* The current space of a bin has exactly the live nodes of the bin.       *)
PlaceInv ==
    \A b \in Bins :
        /\ \A i \in DOMAIN Current(b) : Range(Current(b)[i].nodes) \cap removed = {}
        /\ \A n \in Live(b) :
              n \in Range(Current(b)[FromHash(Current(b), Hash[keyOf[n]])].nodes)

(* _count is what is there.                                                *)
CountInv == \A b \in Bins : count[b] = Cardinality(Live(b))

(* A thread that reads a bin is in its current space: the write guard of   *)
(* resize waits for it.                                                    *)
OpInv ==
    \A t \in Threads :
        /\ op[t].pc \in {"search", "add"} => op[t].space = Len(spaces[BinOf(op[t].key)])
        /\ op[t].pc \in {"full", "drain", "add"} => op[t].what = "get"

(* Every operator[] in progress has room for the node it may create.       *)
RoomInv == Len(keyOf) + Cardinality(Getting) <= MaxNodes

(* The operator[] calls that found their bin below its limit: they count   *)
(* as if their nodes were there already.                                   *)
Loading(b) == {t \in Threads : /\ op[t].what = "get" /\ op[t].pc \in {"enter", "search", "add"}
                               /\ BinOf(op[t].key) = b}
LoadInv ==
    \A b \in Bins : count[b] + Cardinality(Loading(b)) < MaxCount(b) + Cardinality(Threads)

(* Likewise those that did not find their key.                             *)
Adding(k) == {t \in Threads : op[t].pc = "add" /\ op[t].key = k}
DuplicateInv ==
    \A k \in Keys : Cardinality(NodesWith(k)) + Cardinality(Adding(k)) <= Cardinality(Threads)

(* An iterator inside a bin is in a bucket of a space that the bin has had.*)
IterInv ==
    \A r \in Iterators :
        /\ it[r].pc \in {"bucket", "at"} =>
              /\ it[r].bin \in Bins /\ it[r].space \in DOMAIN spaces[it[r].bin]
              /\ it[r].bucket <= Size(spaces[it[r].bin][it[r].space])
        /\ it[r].pc = "at" =>
              /\ it[r].bucket < Size(spaces[it[r].bin][it[r].space])
              /\ it[r].index > 0 /\ it[r].node \in Created

(* The inductive invariant of the table.                                   *)
IndInv ==
    /\ TypeInv /\ SpaceInv /\ PlaceInv /\ CountInv /\ OpInv /\ RoomInv
    /\ LoadInv /\ DuplicateInv /\ IterInv

-----------------------------------------------------------------------------
(* The invariant of iterations during which nothing is removed, of an      *)
(* iterator at position p, for the spaces sps, the keys kof of the nodes,  *)
(* the promised nodes pr and the visits vs.                                *)

(* The bucket has changed since the iterator entered it.                   *)
BucketOf(p, sps) == sps[p.bin][p.space][p.bucket]
Stuck(p, sps) == p.pc = "at" /\ p.gen # BucketOf(p, sps).gen

(* Where the iterator stands.  A search for a node that is still there     *)
(* does not run off the end of the bucket.                                 *)
Stands(p, sps) ==
    p.pc = "at" =>
        /\ p.gen <= BucketOf(p, sps).gen
        /\ p.node \in Range(BucketOf(p, sps).nodes)
        /\ ~Stuck(p, sps) => p.index \in DOMAIN BucketOf(p, sps).nodes

(* The first node of its bucket that it has not stood on.                  *)
Unvisited(p) == IF p.pc = "at" THEN p.index + 1 ELSE 1

(* Inside a bin it has stood on the nodes of the buckets before its own.   *)
Inside(p, space, kof, pr, vs) ==
    /\ \A n \in pr : BinOf(kof[n]) = p.bin => \E j \in DOMAIN space : n \in Range(space[j].nodes)
    /\ \A j \in DOMAIN space : \A i \in DOMAIN space[j].nodes :
          /\ j < p.bucket /\ space[j].nodes[i] \in pr => vs[space[j].nodes[i]] = 1
          /\ j > p.bucket => vs[space[j].nodes[i]] = 0
          /\ j = p.bucket => vs[space[j].nodes[i]] = IF i < Unvisited(p) THEN 1 ELSE 0

(* It has stood on the promised nodes of earlier bins, and on none of the  *)
(* later ones.                                                             *)
Visited(p, sps, kof, pr, vs) ==
    /\ \A n \in NodeIds : vs[n] <= 1 /\ (n \notin DOMAIN kof => vs[n] = 0)
    /\ \A n \in DOMAIN kof :
          /\ BinOf(kof[n]) < p.bin /\ n \in pr => vs[n] = 1
          /\ BinOf(kof[n]) > p.bin \/ (BinOf(kof[n]) = p.bin /\ p.pc = "bin")
             => vs[n] = 0 /\ n \notin pr
    /\ p.pc \in {"bucket", "at"} => Inside(p, sps[p.bin][p.space], kof, pr, vs)

(* An iterator that is stuck in a changed bucket does not end any more, so *)
(* what it has stood on does not matter.                                   *)
Exact(p, sps, kof, pr, vs) ==
    /\ p.pc = "new" => p = Start /\ pr = {} /\ vs = [n \in NodeIds |-> 0]
    /\ p.pc = "end" => p.bin = BinCount
    /\ p.pc # "new" /\ pr # Void =>
          /\ pr \subseteq DOMAIN kof
          /\ Stands(p, sps)
          /\ ~Stuck(p, sps) => Visited(p, sps, kof, pr, vs)

ExactInv == \A r \in Iterators : Exact(it[r], spaces, keyOf, promised[r], visits[r])

-----------------------------------------------------------------------------
(* Spaces and lists of nodes.                                              *)

(* The array of a space has Size elements, and every hash has a bucket.    *)
LEMMA SpaceFacts ==
    ASSUME NEW sp \in SpaceSet
    PROVE  /\ Size(sp) \in Nat \ {0} /\ DOMAIN sp = 0 .. Size(sp) - 1
           /\ sp \in [0 .. Size(sp) - 1 -> Buckets]
           /\ \A h \in Nat : FromHash(sp, h) \in DOMAIN sp
<1>1. PICK n \in Nat \ {0} : sp \in [0 .. n - 1 -> Buckets]
  BY DEF SpaceSet
<1>2. Cardinality(0 .. n - 1) = n
  BY FS_Interval
<1>3. Size(sp) = n /\ DOMAIN sp = 0 .. n - 1
  BY <1>1, <1>2 DEF Size
<1>4. ASSUME NEW h \in Nat PROVE FromHash(sp, h) \in 0 .. n - 1
  <2>1. h \div BinCount \in Nat
    BY TableConstants
  <2>2. FromHash(sp, h) = (h \div BinCount) % n
    BY <1>3 DEF FromHash
  <2> HIDE DEF FromHash
  <2>3. QED  BY <2>1, <2>2
<1>5. QED  BY <1>1, <1>3, <1>4

(* A key has a bin.                                                        *)
LEMMA BinFacts ==
    ASSUME NEW k \in Keys
    PROVE  BinOf(k) \in Bins /\ Hash[k] \in Nat
BY TableConstants DEF BinOf, Bins

(* The elements of a list, in both ways to write them.                     *)
LEMMA ToSetIsRange == \A s : ToSet(s) = Range(s)
BY DEF ToSet, Range

(* A list without repetitions is as long as the set of its elements.       *)
LEMMA LengthOfInjective ==
    ASSUME NEW S, NEW q \in Seq(S), IsInjective(q)
    PROVE  IsFiniteSet(Range(q)) /\ Cardinality(Range(q)) = Len(q)
<1>1. DOMAIN q = 1 .. Len(q) /\ Len(q) \in Nat
  OBVIOUS
<1>2. q \in Bijection(1 .. Len(q), Range(q))
  BY <1>1 DEF Bijection, Injection, Surjection, Range, IsInjective
<1>3. IsFiniteSet(1 .. Len(q)) /\ Cardinality(1 .. Len(q)) = Len(q)
  BY <1>1, FS_Interval, SMTT(30)
<1>4. ExistsBijection(1 .. Len(q), Range(q))
  BY <1>2 DEF ExistsBijection
<1>5. QED  BY <1>3, <1>4, FS_Bijection

(* The elements of a list that are in a set.                               *)
LEMMA SublistFacts ==
    ASSUME NEW S, NEW list \in Seq(S), NEW set
    PROVE  /\ Sublist(list, set) \in Seq(S)
           /\ Range(Sublist(list, set)) = Range(list) \cap set
           /\ IsInjective(list) => IsInjective(Sublist(list, set))
<1> DEFINE parts == [j \in DOMAIN list |-> IF list[j] \in set THEN <<list[j]>> ELSE <<>>]
<1>1. DOMAIN list = 1 .. Len(list) /\ Len(list) \in Nat
  OBVIOUS
<1>2. \A j \in DOMAIN list : /\ parts[j] \in Seq(S) /\ IsInjective(parts[j])
                             /\ Range(parts[j]) = IF list[j] \in set THEN {list[j]} ELSE {}
  <2>1. TAKE j \in DOMAIN list
  <2>2. CASE list[j] \in set
    <3>1. parts[j] = <<list[j]>> /\ list[j] \in S
      BY <2>2
    <3> HIDE DEF parts
    <3>2. QED  BY <2>2, <3>1, OneElementList DEF IsInjective
  <2>3. CASE list[j] \notin set
    <3>1. parts[j] = <<>>
      BY <2>3
    <3> HIDE DEF parts
    <3>2. QED  BY <2>3, <3>1, EmptyList
  <2>4. QED  BY <2>2, <2>3
<1>3. parts \in Seq(Seq(S)) /\ DOMAIN parts = DOMAIN list
  <2>1. parts \in [1 .. Len(list) -> Seq(S)]
    BY <1>1, <1>2
  <2> HIDE DEF parts
  <2>2. QED  BY <1>1, <2>1
<1>4. Sublist(list, set) = FlattenSeq(parts)
  BY DEF Sublist
<1> HIDE DEF parts
<1>5. /\ FlattenSeq(parts) \in Seq(S)
      /\ Range(FlattenSeq(parts)) = UNION {Range(parts[j]) : j \in DOMAIN parts}
      /\ /\ \A j \in DOMAIN parts : IsInjective(parts[j])
         /\ \A i, j \in DOMAIN parts : i # j => Range(parts[i]) \cap Range(parts[j]) = {}
         => IsInjective(FlattenSeq(parts))
  BY <1>3, FlattenFacts
<1>6. UNION {Range(parts[j]) : j \in DOMAIN parts} = Range(list) \cap set
  <2>1. \A x : x \in Range(list) <=> \E j \in DOMAIN list : x = list[j]
    BY DEF Range
  <2>2. ASSUME NEW x, NEW j \in DOMAIN list, x \in Range(parts[j])
        PROVE  x \in Range(list) /\ x \in set
    <3>1. list[j] \in set /\ x = list[j]
      BY <1>2, <2>2
    <3>2. QED  BY <2>1, <3>1
  <2>3. ASSUME NEW x \in Range(list), x \in set
        PROVE  \E j \in DOMAIN list : x \in Range(parts[j])
    <3>1. PICK j \in DOMAIN list : x = list[j]
      BY <2>1
    <3>2. QED  BY <1>2, <2>3, <3>1
  <2>4. QED  BY <1>3, <2>2, <2>3
<1>7. ASSUME IsInjective(list)
      PROVE  \A i, j \in DOMAIN parts : i # j => Range(parts[i]) \cap Range(parts[j]) = {}
  <2>1. TAKE i, j \in DOMAIN parts
  <2>2. i # j => list[i] # list[j]
    BY <1>3, <1>7 DEF IsInjective
  <2>3. QED  BY <1>2, <1>3, <2>2
<1>8. QED  BY <1>2, <1>3, <1>4, <1>5, <1>6, <1>7

(* The nodes of a space, bucket by bucket.                                 *)
LEMMA InOrderFacts ==
    ASSUME NEW sp \in SpaceSet
    PROVE  /\ InOrder(sp) \in Seq(NodeIds)
           /\ Range(InOrder(sp)) = NodesOf(sp)
           /\ NodesOf(sp) = UNION {Range(sp[i].nodes) : i \in DOMAIN sp}
           /\ /\ \A i \in DOMAIN sp : IsInjective(sp[i].nodes)
              /\ \A i, j \in DOMAIN sp : i # j => Range(sp[i].nodes) \cap Range(sp[j].nodes) = {}
              => IsInjective(InOrder(sp))
<1> DEFINE n == Size(sp)
           parts == [i \in 1 .. n |-> sp[i - 1].nodes]
<1>1. n \in Nat \ {0} /\ DOMAIN sp = 0 .. n - 1 /\ sp \in [0 .. n - 1 -> Buckets]
  BY SpaceFacts
<1>2. InOrder(sp) = FlattenSeq(parts)
  BY DEF InOrder
<1>3. NodesOf(sp) = UNION {Range(sp[i].nodes) : i \in DOMAIN sp}
  BY ToSetIsRange DEF NodesOf
<1> HIDE DEF n
<1>4. \A i \in 1 .. n : i - 1 \in DOMAIN sp /\ parts[i] = sp[i - 1].nodes /\ parts[i] \in Seq(NodeIds)
  BY <1>1 DEF Buckets
<1>5. \A i \in DOMAIN sp : i + 1 \in 1 .. n /\ parts[i + 1] = sp[i].nodes
  <2>1. TAKE i \in DOMAIN sp
  <2>2. i + 1 \in 1 .. n /\ (i + 1) - 1 = i
    BY <1>1
  <2>3. parts[i + 1] = sp[(i + 1) - 1].nodes
    BY <2>2
  <2> HIDE DEF parts
  <2>4. QED  BY <2>2, <2>3
<1>6. parts \in Seq(Seq(NodeIds)) /\ DOMAIN parts = 1 .. n
  <2>1. parts \in [1 .. n -> Seq(NodeIds)] /\ n \in Nat
    BY <1>1, <1>4
  <2> HIDE DEF parts
  <2>2. QED  BY <2>1
<1> HIDE DEF parts
<1>7. /\ FlattenSeq(parts) \in Seq(NodeIds)
      /\ Range(FlattenSeq(parts)) = UNION {Range(parts[j]) : j \in DOMAIN parts}
      /\ /\ \A j \in DOMAIN parts : IsInjective(parts[j])
         /\ \A i, j \in DOMAIN parts : i # j => Range(parts[i]) \cap Range(parts[j]) = {}
         => IsInjective(FlattenSeq(parts))
  BY <1>6, FlattenFacts
<1>8. UNION {Range(parts[j]) : j \in DOMAIN parts} = UNION {Range(sp[i].nodes) : i \in DOMAIN sp}
  BY <1>4, <1>5, <1>6
<1>9. ASSUME \A i \in DOMAIN sp : IsInjective(sp[i].nodes),
             \A i, j \in DOMAIN sp : i # j => Range(sp[i].nodes) \cap Range(sp[j].nodes) = {}
      PROVE  IsInjective(FlattenSeq(parts))
  <2>1. \A j \in DOMAIN parts : IsInjective(parts[j])
    BY <1>4, <1>6, <1>9
  <2>2. \A i, j \in DOMAIN parts : i # j => Range(parts[i]) \cap Range(parts[j]) = {}
    <3>1. TAKE i, j \in DOMAIN parts
    <3>2. i # j => i - 1 # j - 1
      BY <1>1, <1>6
    <3>3. QED  BY <1>4, <1>6, <1>9, <3>2
  <2>3. QED  BY <1>7, <2>1, <2>2
<1>10. QED  BY <1>2, <1>3, <1>7, <1>8, <1>9

(* A list of the new space holds the nodes of its hash.                    *)
LEMMA RehashFacts ==
    ASSUME NEW sp \in SpaceSet, NEW n \in Nat \ {0},
           \A i \in DOMAIN sp : IsInjective(sp[i].nodes),
           \A i, j \in DOMAIN sp : i # j => Range(sp[i].nodes) \cap Range(sp[j].nodes) = {}
    PROVE  /\ Rehash(sp, n) \in SpaceSet
           /\ DOMAIN Rehash(sp, n) = 0 .. n - 1 /\ Size(Rehash(sp, n)) = n
           /\ \A i \in 0 .. n - 1 :
                 /\ Rehash(sp, n)[i].gen = 0 /\ IsInjective(Rehash(sp, n)[i].nodes)
                 /\ Range(Rehash(sp, n)[i].nodes) =
                       {x \in NodesOf(sp) : FromHash(Rehash(sp, n), Hash[keyOf[x]]) = i}
<1> DEFINE wanted(i) == {x \in NodesOf(sp) : FromHash(EmptySpace(n), Hash[keyOf[x]]) = i}
           list(i) == Sublist(InOrder(sp), wanted(i))
           new == Rehash(sp, n)
<1>1. /\ InOrder(sp) \in Seq(NodeIds) /\ Range(InOrder(sp)) = NodesOf(sp)
      /\ IsInjective(InOrder(sp))
  BY InOrderFacts
<1>2. \A i \in 0 .. n - 1 : /\ list(i) \in Seq(NodeIds) /\ IsInjective(list(i))
                            /\ Range(list(i)) = wanted(i)
  <2>1. TAKE i \in 0 .. n - 1
  <2>2. NodesOf(sp) \cap wanted(i) = wanted(i)
    OBVIOUS
  <2> DEFINE set == wanted(i)
  <2> HIDE DEF wanted, set
  <2>3. /\ Sublist(InOrder(sp), set) \in Seq(NodeIds)
        /\ Range(Sublist(InOrder(sp), set)) = Range(InOrder(sp)) \cap set
        /\ IsInjective(Sublist(InOrder(sp), set))
    BY <1>1, SublistFacts
  <2>4. QED  BY <1>1, <2>2, <2>3 DEF set
<1>3. new = [i \in 0 .. n - 1 |-> [nodes |-> list(i), gen |-> 0]]
  BY DEF Rehash
<1> HIDE DEF list, new
<1>4. new \in [0 .. n - 1 -> Buckets]
  <2>1. 0 \in 0 .. 2 * MaxNodes
    BY TableConstants
  <2>2. QED  BY <1>2, <1>3, <2>1 DEF Buckets
<1>5. new \in SpaceSet
  BY <1>4 DEF SpaceSet
<1>6. DOMAIN new = 0 .. n - 1 /\ Cardinality(0 .. n - 1) = n
  BY <1>3, FS_Interval
<1>7. DOMAIN EmptySpace(n) = 0 .. n - 1
  BY DEF EmptySpace
<1>8. Size(new) = n /\ Size(EmptySpace(n)) = n
  BY <1>6, <1>7 DEF Size
<1>9. \A h : FromHash(new, h) = FromHash(EmptySpace(n), h)
  BY <1>8 DEF FromHash
<1>10. \A i \in 0 .. n - 1 : /\ new[i].gen = 0 /\ new[i].nodes = list(i)
  BY <1>3
<1>11. \A i \in 0 .. n - 1 : Range(new[i].nodes) =
           {x \in NodesOf(sp) : FromHash(new, Hash[keyOf[x]]) = i}
  BY <1>2, <1>9, <1>10
<1>12. QED  BY <1>2, <1>5, <1>6, <1>8, <1>10, <1>11 DEF new

(* Another list in one bucket.                                             *)
LEMMA BucketChange ==
    ASSUME spaces \in [Bins -> Seq(SpaceSet)], NEW b \in Bins, NEW g \in DOMAIN spaces[b],
           NEW i \in DOMAIN spaces[b][g], NEW e \in Buckets,
           spaces' = [spaces EXCEPT ![b][g][i] = e]
    PROVE  /\ spaces' \in [Bins -> Seq(SpaceSet)]
           /\ \A c \in Bins : c # b => spaces'[c] = spaces[c]
           /\ Len(spaces'[b]) = Len(spaces[b]) /\ DOMAIN spaces'[b] = DOMAIN spaces[b]
           /\ \A h \in DOMAIN spaces[b] : h # g => spaces'[b][h] = spaces[b][h]
           /\ DOMAIN spaces'[b][g] = DOMAIN spaces[b][g]
           /\ Size(spaces'[b][g]) = Size(spaces[b][g])
           /\ \A j \in DOMAIN spaces[b][g] : j # i => spaces'[b][g][j] = spaces[b][g][j]
           /\ spaces'[b][g][i] = e
<1> DEFINE space == [spaces[b][g] EXCEPT ![i] = e]
           list == [spaces[b] EXCEPT ![g] = space]
<1>1. spaces' = [spaces EXCEPT ![b] = list]
  OBVIOUS
<1>2. spaces[b] \in Seq(SpaceSet) /\ spaces[b][g] \in SpaceSet
  OBVIOUS
<1>3. space \in SpaceSet /\ DOMAIN space = DOMAIN spaces[b][g]
  <2>1. PICK n \in Nat \ {0} : spaces[b][g] \in [0 .. n - 1 -> Buckets]
    BY <1>2 DEF SpaceSet
  <2>2. space \in [0 .. n - 1 -> Buckets]
    BY <2>1
  <2>3. QED  BY <2>1, <2>2 DEF SpaceSet
<1>4. space[i] = e /\ \A j \in DOMAIN spaces[b][g] : j # i => space[j] = spaces[b][g][j]
  OBVIOUS
<1> HIDE DEF space
<1>5. /\ list \in Seq(SpaceSet) /\ Len(list) = Len(spaces[b]) /\ DOMAIN list = DOMAIN spaces[b]
      /\ list[g] = space /\ \A h \in DOMAIN spaces[b] : h # g => list[h] = spaces[b][h]
  BY <1>2, <1>3
<1> HIDE DEF list
<1>6. /\ spaces' \in [Bins -> Seq(SpaceSet)] /\ spaces'[b] = list
      /\ \A c \in Bins : c # b => spaces'[c] = spaces[c]
  BY <1>1, <1>5
<1>7. Size(spaces'[b][g]) = Size(spaces[b][g])
  BY <1>3, <1>5, <1>6 DEF Size
<1>8. QED  BY <1>3, <1>4, <1>5, <1>6, <1>7

(* A list that loses the element at a position.                            *)
LEMMA RemoveAtFacts ==
    ASSUME NEW S, NEW q \in Seq(S), NEW i \in DOMAIN q, IsInjective(q)
    PROVE  /\ RemoveAt(q, i) \in Seq(S) /\ IsInjective(RemoveAt(q, i))
           /\ Range(RemoveAt(q, i)) = Range(q) \ {q[i]}
<1> DEFINE n == Len(q)
           s == RemoveAt(q, i)
<1>1. n \in Nat /\ i \in 1 .. n /\ DOMAIN q = 1 .. n /\ \A j \in 1 .. n : q[j] \in S
  OBVIOUS
<1>2. /\ s \in Seq(S) /\ Len(s) = n - 1
      /\ \A j \in 1 .. n - 1 : s[j] = IF j < i THEN q[j] ELSE q[j + 1]
  <2> DEFINE p == SubSeq(q, 1, i - 1)
             r == SubSeq(q, i + 1, n)
  <2>1. /\ p \in Seq(S) /\ Len(p) = i - 1 /\ \A j \in 1 .. i - 1 : p[j] = q[j]
    BY <1>1
  <2>3. s = p \o r
    BY DEF RemoveAt
  <2> HIDE DEF n
  <2>2. /\ r \in Seq(S) /\ Len(r) = n - i /\ \A j \in 1 .. n - i : r[j] = q[i + j]
    <3>1. \A j \in i + 1 .. n : q[j] \in S
      BY <1>1
    <3>2. /\ r \in Seq(S) /\ Len(r) = (IF i + 1 <= n THEN n - (i + 1) + 1 ELSE 0)
          /\ \A j \in 1 .. n - (i + 1) + 1 : r[j] = q[(i + 1) + j - 1]
      BY <1>1, <3>1, SubSeqProperties
    <3> HIDE DEF r
    <3>3. Len(r) = n - i
      BY <1>1, <3>2
    <3>4. ASSUME NEW j \in 1 .. n - i PROVE r[j] = q[i + j]
      <4>1. j \in 1 .. n - (i + 1) + 1 /\ (i + 1) + j - 1 = i + j
        BY <1>1
      <4>2. QED  BY <3>2, <4>1
    <3>5. QED  BY <3>2, <3>3, <3>4
  <2> HIDE DEF p, r, s
  <2>4. s \in Seq(S) /\ Len(s) = n - 1
    <3>1. p \o r \in Seq(S) /\ Len(p \o r) = Len(p) + Len(r)
      BY <2>1, <2>2, ConcatProperties
    <3>2. QED  BY <1>1, <2>1, <2>2, <2>3, <3>1
  <2>c. \A j \in 1 .. Len(p) + Len(r) : s[j] = IF j <= Len(p) THEN p[j] ELSE r[j - Len(p)]
    BY <2>1, <2>2, <2>3, ConcatProperties
  <2>5. ASSUME NEW j \in 1 .. n - 1 PROVE s[j] = IF j < i THEN q[j] ELSE q[j + 1]
    <3>1. CASE j < i
      <4>1. j \in 1 .. Len(p) /\ j \in 1 .. i - 1
        BY <1>1, <2>1, <3>1
      <4>2. s[j] = p[j]
        <5>1. j \in 1 .. Len(p) + Len(r) /\ j <= Len(p)
          BY <1>1, <2>1, <2>2, <4>1
        <5>2. QED  BY <2>c, <5>1
      <4>3. QED  BY <2>1, <3>1, <4>1, <4>2
    <3>2. CASE ~(j < i)
      <4>1. j - (i - 1) \in 1 .. n - i /\ j > Len(p) /\ j <= Len(p) + Len(r)
        BY <1>1, <2>1, <2>2, <3>2
      <4>2. s[j] = r[j - Len(p)]
        <5>1. j \in 1 .. Len(p) + Len(r) /\ ~(j <= Len(p))
          BY <1>1, <2>1, <2>2, <4>1
        <5>2. QED  BY <2>c, <5>1
      <4>3. r[j - (i - 1)] = q[i + (j - (i - 1))] /\ i + (j - (i - 1)) = j + 1
        BY <1>1, <2>2, <4>1
      <4>4. QED  BY <2>1, <3>2, <4>2, <4>3
    <3>3. QED  BY <3>1, <3>2
  <2>6. QED  BY <2>4, <2>5
<1> HIDE DEF n, s
<1>3. DOMAIN s = 1 .. n - 1
  BY <1>1, <1>2
<1>4. \A j \in 1 .. n - 1 : \E l \in 1 .. n : l # i /\ s[j] = q[l] /\ l = IF j < i THEN j ELSE j + 1
  BY <1>1, <1>2
<1>5. IsInjective(s)
  <2>1. SUFFICES ASSUME NEW j \in 1 .. n - 1, NEW l \in 1 .. n - 1, s[j] = s[l] PROVE j = l
    BY <1>3 DEF IsInjective
  <2>2. PICK j1 \in 1 .. n : s[j] = q[j1] /\ j1 = IF j < i THEN j ELSE j + 1
    BY <1>4
  <2>3. PICK l1 \in 1 .. n : s[l] = q[l1] /\ l1 = IF l < i THEN l ELSE l + 1
    BY <1>4
  <2>4. j1 = l1
    BY <1>1, <2>1, <2>2, <2>3 DEF IsInjective
  <2>5. QED  BY <1>1, <2>2, <2>3, <2>4
<1>6. \A x \in Range(s) : x \in Range(q) /\ x # q[i]
  <2>1. SUFFICES ASSUME NEW j \in 1 .. n - 1 PROVE s[j] \in Range(q) /\ s[j] # q[i]
    BY <1>3 DEF Range
  <2>2. PICK l \in 1 .. n : l # i /\ s[j] = q[l]
    BY <1>4
  <2>3. QED  BY <1>1, <2>2 DEF Range, IsInjective
<1>7. \A x \in Range(q) : x # q[i] => x \in Range(s)
  <2>1. SUFFICES ASSUME NEW l \in 1 .. n, q[l] # q[i] PROVE q[l] \in Range(s)
    BY <1>1 DEF Range
  <2>2. CASE l < i
    <3>1. l \in 1 .. n - 1 /\ s[l] = q[l]
      BY <1>1, <1>2, <2>2
    <3>2. QED  BY <1>3, <3>1 DEF Range
  <2>3. CASE l > i
    <3>1. l - 1 \in 1 .. n - 1 /\ ~(l - 1 < i) /\ (l - 1) + 1 = l
      BY <1>1, <2>3
    <3>2. s[l - 1] = q[l]
      BY <1>2, <3>1
    <3>3. QED  BY <1>3, <3>1, <3>2 DEF Range
  <2>4. QED  BY <1>1, <2>1, <2>2, <2>3
<1>8. QED  BY <1>2, <1>5, <1>6, <1>7 DEF s

(* What FindKey returns.                                                   *)
LEMMA FindKeyFacts ==
    ASSUME NEW nodes \in Seq(NodeIds), NEW k
    PROVE  \/ /\ FindKey(nodes, k) \in DOMAIN nodes /\ FindKey(nodes, k) # 0
              /\ keyOf[nodes[FindKey(nodes, k)]] = k
           \/ FindKey(nodes, k) = 0 /\ \A x \in Range(nodes) : keyOf[x] # k
<1> DEFINE found == {i \in 1 .. Len(nodes) : Hash[keyOf[nodes[i]]] = Hash[k] /\ keyOf[nodes[i]] = k}
<1>1. FindKey(nodes, k) = IF found # {} THEN Min(found) ELSE 0
  BY DEF FindKey, SelectInSeq
<1>2. DOMAIN nodes = 1 .. Len(nodes) /\ Len(nodes) \in Nat
  OBVIOUS
<1>3. CASE found = {}
  <2>1. \A i \in DOMAIN nodes : keyOf[nodes[i]] # k
    BY <1>2, <1>3
  <2>2. QED  BY <1>1, <1>3, <2>1 DEF Range
<1>4. CASE found # {}
  <2>1. found \in SUBSET Nat
    BY <1>2
  <2>2. Min(found) \in found
    <3> HIDE DEF found
    <3>1. \E c \in found : \A d \in found : c <= d
      BY <1>4, <2>1, LeastElement
    <3>2. QED  BY <3>1 DEF Min
  <2> DEFINE pos == FindKey(nodes, k)
  <2>3. pos = Min(found)
    BY <1>1, <1>4
  <2>4. \A i \in found : i \in 1 .. Len(nodes) /\ keyOf[nodes[i]] = k
    OBVIOUS
  <2> HIDE DEF found
  <2>5. pos \in 1 .. Len(nodes) /\ keyOf[nodes[pos]] = k
    BY <2>2, <2>3, <2>4
  <2>6. QED  BY <1>2, <2>5
<1>5. QED  BY <1>3, <1>4

-----------------------------------------------------------------------------
(* Counting.                                                               *)

(* What one element contributes to the cardinality of a set.               *)
One(P) == IF P THEN 1 ELSE 0

(* Two sets that differ in one element at most.                            *)
LEMMA OneElementMoves ==
    ASSUME NEW T, IsFiniteSet(T), NEW U, NEW t, \A x : x # t => (x \in T <=> x \in U)
    PROVE  /\ IsFiniteSet(U) /\ Cardinality(T) \in Nat /\ Cardinality(U) \in Nat
           /\ Cardinality(U) = Cardinality(T) - One(t \in T) + One(t \in U)
<1> DEFINE V == T \ {t}
<1>1. /\ IsFiniteSet(V) /\ Cardinality(T) \in Nat
      /\ Cardinality(V) = IF t \in T THEN Cardinality(T) - 1 ELSE Cardinality(T)
  BY FS_RemoveElement, FS_CardinalityType
<1>2. U = IF t \in U THEN V \cup {t} ELSE V
  OBVIOUS
<1>3. t \notin V
  OBVIOUS
<1> HIDE DEF V
<1>4. IsFiniteSet(V \cup {t}) /\ Cardinality(V \cup {t}) = Cardinality(V) + 1
  BY <1>1, <1>3, FS_AddElement
<1>5. IsFiniteSet(U) /\ Cardinality(U) = IF t \in U THEN Cardinality(V) + 1 ELSE Cardinality(V)
  BY <1>1, <1>2, <1>4
<1>6. Cardinality(U) \in Nat
  BY <1>5, FS_CardinalityType
<1>7. QED  BY <1>1, <1>5, <1>6 DEF One

(* A set of threads.                                                       *)
LEMMA ThreadSets ==
    /\ Cardinality(Threads) \in Nat
    /\ \A T \in SUBSET Threads :
          /\ IsFiniteSet(T) /\ Cardinality(T) \in Nat
          /\ Cardinality(T) <= Cardinality(Threads)
BY TableConstants, FS_Subset, FS_CardinalityType

(* What a thread's operation counts for.                                   *)
IsGetting(o) == o.pc # "idle" /\ o.what = "get"
IsLoading(o, b) == o.what = "get" /\ o.pc \in {"enter", "search", "add"} /\ BinOf(o.key) = b
IsAdding(o, k) == o.pc = "add" /\ o.key = k

(* The sets of threads that the invariant counts, when one thread moves.   *)
LEMMA ThreadMoves ==
    ASSUME TypeInv, NEW t \in Threads, NEW o \in Operations, op' = [op EXCEPT ![t] = o]
    PROVE  /\ op' \in [Threads -> Operations] /\ op'[t] = o
           /\ \A u \in Threads : u # t => op'[u] = op[u]
           /\ Cardinality(Getting) \in Nat
           /\ Cardinality(Getting') =
                 Cardinality(Getting) - One(IsGetting(op[t])) + One(IsGetting(o))
           /\ \A b : /\ Cardinality(Loading(b)) \in Nat
                     /\ Cardinality(Loading(b)') <= Cardinality(Threads)
                     /\ Cardinality(Loading(b)') =
                          Cardinality(Loading(b)) - One(IsLoading(op[t], b)) + One(IsLoading(o, b))
           /\ \A k : /\ Cardinality(Adding(k)) \in Nat
                     /\ Cardinality(Adding(k)') <= Cardinality(Threads)
                     /\ Cardinality(Adding(k)') =
                          Cardinality(Adding(k)) - One(IsAdding(op[t], k)) + One(IsAdding(o, k))
<1>1. /\ op' \in [Threads -> Operations] /\ op'[t] = o
      /\ \A u \in Threads : u # t => op'[u] = op[u]
  BY DEF TypeInv
<1>2. /\ Cardinality(Getting) \in Nat
      /\ Cardinality(Getting') = Cardinality(Getting) - One(t \in Getting) + One(t \in Getting')
  <2>1. \A u : u # t => (u \in Getting <=> u \in Getting')
    BY <1>1 DEF Getting
  <2>2. IsFiniteSet(Getting)
    BY ThreadSets DEF Getting
  <2>3. QED  BY <2>1, <2>2, OneElementMoves
<1>3. ASSUME NEW b
      PROVE  /\ Cardinality(Loading(b)) \in Nat
             /\ Cardinality(Loading(b)') <= Cardinality(Threads)
             /\ Cardinality(Loading(b)') =
                  Cardinality(Loading(b)) - One(t \in Loading(b)) + One(t \in Loading(b)')
  <2>1. \A u : u # t => (u \in Loading(b) <=> u \in Loading(b)')
    BY <1>1 DEF Loading
  <2>2. IsFiniteSet(Loading(b)) /\ Cardinality(Loading(b)') <= Cardinality(Threads)
    BY ThreadSets DEF Loading
  <2>3. QED  BY <2>1, <2>2, OneElementMoves
<1>4. ASSUME NEW k
      PROVE  /\ Cardinality(Adding(k)) \in Nat
             /\ Cardinality(Adding(k)') <= Cardinality(Threads)
             /\ Cardinality(Adding(k)') =
                  Cardinality(Adding(k)) - One(t \in Adding(k)) + One(t \in Adding(k)')
  <2>1. \A u : u # t => (u \in Adding(k) <=> u \in Adding(k)')
    BY <1>1 DEF Adding
  <2>2. IsFiniteSet(Adding(k)) /\ Cardinality(Adding(k)') <= Cardinality(Threads)
    BY ThreadSets DEF Adding
  <2>3. QED  BY <2>1, <2>2, OneElementMoves
<1>5. (t \in Getting <=> IsGetting(op[t])) /\ (t \in Getting' <=> IsGetting(o))
  BY <1>1 DEF Getting, IsGetting
<1>6. \A b : (t \in Loading(b) <=> IsLoading(op[t], b)) /\ (t \in Loading(b)' <=> IsLoading(o, b))
  BY <1>1 DEF Loading, IsLoading
<1>7. \A k : (t \in Adding(k) <=> IsAdding(op[t], k)) /\ (t \in Adding(k)' <=> IsAdding(o, k))
  BY <1>1 DEF Adding, IsAdding
<1>8. Cardinality(Getting') = Cardinality(Getting) - One(IsGetting(op[t])) + One(IsGetting(o))
  BY <1>2, <1>5 DEF One
<1>9. \A b : Cardinality(Loading(b)') =
                Cardinality(Loading(b)) - One(IsLoading(op[t], b)) + One(IsLoading(o, b))
  BY <1>3, <1>6 DEF One
<1>10. \A k : Cardinality(Adding(k)') =
                Cardinality(Adding(k)) - One(IsAdding(op[t], k)) + One(IsAdding(o, k))
  BY <1>4, <1>7 DEF One
<1>11. QED  BY <1>1, <1>2, <1>3, <1>4, <1>8, <1>9, <1>10

(* The nodes.                                                              *)
LEMMA NodeSets ==
    ASSUME TypeInv
    PROVE  /\ Len(keyOf) \in 0 .. MaxNodes /\ Created = 1 .. Len(keyOf) /\ Created \subseteq NodeIds
           /\ \A n \in Created : keyOf[n] \in Keys
           /\ IsFiniteSet(Created) /\ Cardinality(Created) = Len(keyOf)
           /\ IsFiniteSet(removed) /\ Cardinality(removed) \in 0 .. Len(keyOf)
           /\ \A b : IsFiniteSet(Live(b)) /\ Cardinality(Live(b)) \in 0 .. Len(keyOf)
           /\ \A k : IsFiniteSet(NodesWith(k)) /\ Cardinality(NodesWith(k)) \in Nat
<1>1. /\ Len(keyOf) \in 0 .. MaxNodes /\ Created = 1 .. Len(keyOf) /\ MaxNodes \in Nat
      /\ \A n \in Created : keyOf[n] \in Keys
  BY TableConstants DEF TypeInv, Created
<1>2. IsFiniteSet(Created) /\ Cardinality(Created) = Len(keyOf)
  <2> DEFINE n == Len(keyOf)
  <2>1. n \in Nat /\ Created = 1 .. n
    BY <1>1
  <2> HIDE DEF n
  <2>2. IsFiniteSet(1 .. n) /\ Cardinality(1 .. n) = n
    BY <2>1, FS_Interval
  <2>3. QED  BY <2>1, <2>2 DEF n
<1>3. ASSUME NEW N \in SUBSET Created
      PROVE  IsFiniteSet(N) /\ Cardinality(N) \in 0 .. Len(keyOf)
  <2>1. IsFiniteSet(N) /\ Cardinality(N) <= Cardinality(Created)
    BY <1>2, FS_Subset
  <2>2. QED  BY <1>1, <1>2, <2>1, FS_CardinalityType
<1>4. removed \in SUBSET Created
  BY DEF TypeInv
<1>5. \A b : Live(b) \in SUBSET Created
  BY DEF Live
<1>6. \A k : NodesWith(k) \in SUBSET Created
  BY DEF NodesWith
<1>7. Created \subseteq NodeIds
  BY <1>1 DEF NodeIds
<1>8. QED  BY <1>1, <1>2, <1>3, <1>4, <1>5, <1>6, <1>7

(* The current space of a bin.                                             *)
LEMMA CurrentFacts ==
    ASSUME TypeInv, NEW b \in Bins
    PROVE  /\ Len(spaces[b]) \in Nat \ {0} /\ Len(spaces[b]) \in DOMAIN spaces[b]
           /\ Current(b) = spaces[b][Len(spaces[b])]
           /\ \A g \in DOMAIN spaces[b] : spaces[b][g] \in SpaceSet
           /\ Current(b) \in SpaceSet
           /\ MaxCount(b) \in Nat \ {0} /\ MaxCount(b) = Size(Current(b)) * LoadRatio
<1>1. spaces[b] \in Seq(SpaceSet) /\ spaces[b] # <<>>
  BY DEF TypeInv
<1>2. /\ Len(spaces[b]) \in Nat \ {0} /\ Len(spaces[b]) \in DOMAIN spaces[b]
      /\ \A g \in DOMAIN spaces[b] : spaces[b][g] \in SpaceSet
  BY <1>1
<1>3. Current(b) = spaces[b][Len(spaces[b])]
  BY DEF Current, Last
<1>4. Size(Current(b)) \in Nat \ {0}
  BY <1>2, <1>3, SpaceFacts
<1> DEFINE n == Size(Current(b))
<1>5. MaxCount(b) = n * LoadRatio
  BY DEF MaxCount
<1> HIDE DEF n
<1>6. n * LoadRatio \in Nat \ {0}
  BY <1>4, TableConstants DEF n
<1>7. QED  BY <1>2, <1>3, <1>5, <1>6 DEF n

(* The bucket that a thread searches, and the nodes of the current space.  *)
LEMMA PlaceFacts ==
    ASSUME TypeInv, SpaceInv, PlaceInv, NEW b \in Bins
    PROVE  /\ NodesOf(Current(b)) = Live(b)
           /\ \A i \in DOMAIN Current(b) : IsInjective(Current(b)[i].nodes)
           /\ \A i, j \in DOMAIN Current(b) :
                 i # j => Range(Current(b)[i].nodes) \cap Range(Current(b)[j].nodes) = {}
<1> DEFINE space == Current(b)
<1>1. /\ space \in SpaceSet /\ space = spaces[b][Len(spaces[b])]
      /\ Len(spaces[b]) \in DOMAIN spaces[b]
  BY CurrentFacts
<1>2. \A i \in DOMAIN space :
         /\ IsInjective(space[i].nodes)
         /\ \A n \in Range(space[i].nodes) :
               n \in Created /\ BinOf(keyOf[n]) = b /\ i = FromHash(space, Hash[keyOf[n]])
  BY <1>1 DEF SpaceInv
<1>3. /\ \A i \in DOMAIN space : Range(space[i].nodes) \cap removed = {}
      /\ \A n \in Live(b) : n \in Range(space[FromHash(space, Hash[keyOf[n]])].nodes)
  BY DEF PlaceInv
<1>4. \A n \in Live(b) : FromHash(space, Hash[keyOf[n]]) \in DOMAIN space
  <2>1. TAKE n \in Live(b)
  <2>2. Hash[keyOf[n]] \in Nat
    BY NodeSets, BinFacts DEF Live
  <2>3. QED  BY <1>1, <2>2, SpaceFacts
<1>5. NodesOf(space) = UNION {Range(space[i].nodes) : i \in DOMAIN space}
  BY <1>1, InOrderFacts
<1> HIDE DEF space
<1>6. \A n \in NodesOf(space) : n \in Live(b)
  BY <1>2, <1>3, <1>5 DEF Live
<1>7. \A n \in Live(b) : n \in NodesOf(space)
  BY <1>3, <1>4, <1>5
<1>8. NodesOf(space) = Live(b)
  BY <1>6, <1>7
<1>9. QED  BY <1>2, <1>8 DEF space

-----------------------------------------------------------------------------
(* Steps that change nothing but the operation of a thread.                *)

(* What they leave alone.                                                  *)
LEMMA OnlyOpChanges ==
    ASSUME IndInv, UNCHANGED <<table, iteration>>, op' \in [Threads -> Operations],
           OpInv', RoomInv', LoadInv', DuplicateInv'
    PROVE  IndInv'
<1>1. UNCHANGED <<spaces, count, keyOf, removed, it, visits, promised>>
  BY DEF table, iteration
<1>2. Created' = Created
  BY <1>1 DEF Created
<1>3. TypeInv'
  BY <1>1, <1>2 DEF IndInv, TypeInv
<1>4. \A b : Live(b)' = Live(b) /\ Current(b)' = Current(b)
  BY <1>1, <1>2 DEF Live, Current
<1>5. SpaceInv'
  BY <1>1, <1>2 DEF IndInv, SpaceInv
<1>6. PlaceInv'
  BY <1>1, <1>4 DEF IndInv, PlaceInv
<1>7. CountInv'
  BY <1>1, <1>4 DEF IndInv, CountInv
<1>8. IterInv'
  BY <1>1, <1>2 DEF IndInv, IterInv
<1>9. QED  BY <1>3, <1>5, <1>6, <1>7, <1>8 DEF IndInv

(* The parts that count the operations follow from what a thread counted   *)
(* for and counts for, when the nodes and the spaces stay.                 *)
LEMMA CountsFollow ==
    ASSUME IndInv, UNCHANGED <<table, iteration>>, NEW t \in Threads, NEW o \in Operations,
           op' = [op EXCEPT ![t] = o],
           o.pc \in {"search", "add"} => o.space = Len(spaces[BinOf(o.key)]),
           o.pc \in {"full", "drain", "add"} => o.what = "get",
           IsGetting(o) => IsGetting(op[t]) \/ Len(keyOf) + Cardinality(Getting) < MaxNodes,
           \A b \in Bins : IsLoading(o, b) => IsLoading(op[t], b) \/ ~Full(b),
           \A k \in Keys : IsAdding(o, k) => IsAdding(op[t], k) \/ NodesWith(k) = {}
    PROVE  IndInv'
<1>0. TypeInv /\ OpInv /\ RoomInv /\ LoadInv /\ DuplicateInv
  BY DEF IndInv
<1>1. /\ op' \in [Threads -> Operations] /\ op'[t] = o
      /\ \A u \in Threads : u # t => op'[u] = op[u]
      /\ Cardinality(Getting) \in Nat
      /\ Cardinality(Getting') = Cardinality(Getting) - One(IsGetting(op[t])) + One(IsGetting(o))
  BY <1>0, ThreadMoves
<1>2. \A b : /\ Cardinality(Loading(b)) \in Nat
             /\ Cardinality(Loading(b)') <= Cardinality(Threads)
             /\ Cardinality(Loading(b)') =
                  Cardinality(Loading(b)) - One(IsLoading(op[t], b)) + One(IsLoading(o, b))
  BY <1>0, ThreadMoves
<1>3. \A k : /\ Cardinality(Adding(k)) \in Nat
             /\ Cardinality(Adding(k)') <= Cardinality(Threads)
             /\ Cardinality(Adding(k)') =
                  Cardinality(Adding(k)) - One(IsAdding(op[t], k)) + One(IsAdding(o, k))
  BY <1>0, ThreadMoves
<1>4. UNCHANGED <<spaces, count, keyOf, removed>>
  BY DEF table
<1>5. /\ Len(keyOf) \in Nat /\ MaxNodes \in Nat /\ Cardinality(Threads) \in Nat
      /\ \A k : IsFiniteSet(NodesWith(k)) /\ Cardinality(NodesWith(k)) \in Nat
  BY <1>0, NodeSets, ThreadSets, TableConstants
<1>6. OpInv'
  <2>1. SUFFICES ASSUME NEW u \in Threads
                 PROVE  /\ op'[u].pc \in {"search", "add"} =>
                               op'[u].space = Len(spaces[BinOf(op'[u].key)])
                        /\ op'[u].pc \in {"full", "drain", "add"} => op'[u].what = "get"
    BY <1>4 DEF OpInv
  <2>2. CASE u = t
    BY <1>1, <2>2
  <2>3. CASE u # t
    BY <1>0, <1>1, <2>3 DEF OpInv
  <2>4. QED  BY <2>2, <2>3
<1>7. RoomInv'
  <2>1. Len(keyOf) + Cardinality(Getting') <= MaxNodes
    BY <1>0, <1>1, <1>5 DEF RoomInv, One
  <2>2. QED  BY <1>4, <2>1 DEF RoomInv
<1>8. ASSUME NEW b \in Bins
      PROVE  count[b] + Cardinality(Loading(b)') < MaxCount(b) + Cardinality(Threads)
  <2>1. /\ MaxCount(b) \in Nat /\ count[b] \in Nat
        /\ count[b] + Cardinality(Loading(b)) < MaxCount(b) + Cardinality(Threads)
    BY <1>0, CurrentFacts DEF LoadInv, TypeInv
  <2>2. CASE Full(b)
    <3>1. Cardinality(Loading(b)') <= Cardinality(Loading(b)) /\ Cardinality(Loading(b)') \in Int
      BY <1>2, <2>2 DEF One
    <3>2. QED  BY <1>2, <1>5, <2>1, <3>1
  <2>3. CASE ~Full(b)
    <3>1. count[b] < MaxCount(b)
      BY <2>1, <2>3 DEF Full
    <3>2. Cardinality(Loading(b)') \in Int
      BY <1>2 DEF One
    <3>3. QED  BY <1>2, <1>5, <2>1, <3>1, <3>2
  <2>4. QED  BY <2>2, <2>3
<1>9. \A b : (MaxCount(b))' = MaxCount(b)
  BY <1>4 DEF MaxCount, Current
<1>10. LoadInv'
  BY <1>4, <1>8, <1>9 DEF LoadInv
<1>11. \A k : NodesWith(k)' = NodesWith(k)
  BY <1>4 DEF NodesWith, Created
<1>12. ASSUME NEW k \in Keys
       PROVE  Cardinality(NodesWith(k)) + Cardinality(Adding(k)') <= Cardinality(Threads)
  <2>1. Cardinality(NodesWith(k)) + Cardinality(Adding(k)) <= Cardinality(Threads)
    BY <1>0 DEF DuplicateInv
  <2>2. Cardinality(Adding(k)') \in Int
    BY <1>3 DEF One
  <2>3. CASE NodesWith(k) = {}
    <3>1. Cardinality(NodesWith(k)) = 0
      BY <2>3, FS_EmptySet
    <3>2. QED  BY <1>3, <1>5, <2>2, <3>1
  <2>4. CASE NodesWith(k) # {}
    <3>1. Cardinality(Adding(k)') <= Cardinality(Adding(k))
      BY <1>3, <2>4 DEF One
    <3>2. QED  BY <1>3, <1>5, <2>1, <2>2, <3>1
  <2>5. QED  BY <2>3, <2>4
<1>13. DuplicateInv'
  BY <1>11, <1>12 DEF DuplicateInv
<1>14. QED  BY <1>1, <1>6, <1>7, <1>10, <1>13, OnlyOpChanges

(* The bucket that a reader of a bin searches is in its current space.     *)
LEMMA SearchedBucket ==
    ASSUME TypeInv, OpInv, NEW t \in Threads, op[t].pc \in {"search", "add"},
           NEW b, b = BinOf(op[t].key), NEW i, i = FromHash(spaces[b][op[t].space], Hash[op[t].key])
    PROVE  /\ op[t] \in Operations /\ op[t].key \in Keys /\ b \in Bins
           /\ op[t].space = Len(spaces[b]) /\ op[t].space \in DOMAIN spaces[b]
           /\ spaces[b][op[t].space] = Current(b)
           /\ i \in DOMAIN Current(b) /\ i = FromHash(Current(b), Hash[op[t].key])
           /\ Current(b)[i] \in Buckets
<1>1. op[t] \in Operations /\ op[t].key \in Keys
  BY DEF TypeInv, Operations
<1>2. b \in Bins /\ Hash[op[t].key] \in Nat
  BY <1>1, BinFacts
<1>3. op[t].space = Len(spaces[b])
  BY DEF OpInv
<1>4. /\ op[t].space \in DOMAIN spaces[b] /\ spaces[b][op[t].space] = Current(b)
      /\ Current(b) \in SpaceSet
  BY <1>2, <1>3, CurrentFacts
<1>5. i \in DOMAIN Current(b)
  BY <1>2, <1>4, SpaceFacts
<1>6. Current(b)[i] \in Buckets
  BY <1>4, <1>5 DEF SpaceSet
<1>7. QED  BY <1>1, <1>2, <1>3, <1>4, <1>5, <1>6

(* A lookup that fails: no live node has the key.                          *)
LEMMA NotFoundFacts ==
    ASSUME TypeInv, PlaceInv, NEW k \in Keys, NEW nodes,
           nodes = Current(BinOf(k))[FromHash(Current(BinOf(k)), Hash[k])].nodes,
           nodes \in Seq(NodeIds), FindKey(nodes, k) = 0
    PROVE  NodesWith(k) = {}
<1>1. \A x \in Range(nodes) : keyOf[x] # k
  BY FindKeyFacts
<1>2. SUFFICES ASSUME NEW n \in NodesWith(k) PROVE FALSE
  OBVIOUS
<1>3. n \in Created \ removed /\ keyOf[n] = k
  BY DEF NodesWith
<1>4. BinOf(k) \in Bins
  BY BinFacts
<1>5. n \in Live(BinOf(k))
  BY <1>3 DEF Live
<1>6. n \in Range(nodes)
  BY <1>3, <1>4, <1>5 DEF PlaceInv
<1>7. QED  BY <1>1, <1>3, <1>6

(* operator[] begins.                                                      *)
LEMMA GetOrCreateKeepsInv ==
    ASSUME IndInv, NEW t \in Threads, NEW k \in Keys, GetOrCreate(t, k)
    PROVE  IndInv'
<1> DEFINE o == [pc |-> IF Full(BinOf(k)) THEN "full" ELSE "enter",
                 what |-> "get", key |-> k, space |-> 0]
<1>1. /\ op[t].pc = "idle" /\ Len(keyOf) + Cardinality(Getting) < MaxNodes
      /\ op' = [op EXCEPT ![t] = o] /\ UNCHANGED <<table, iteration>>
  BY DEF GetOrCreate
<1>2. o \in Operations /\ o.pc \in {"full", "enter"} /\ o.what = "get"
  BY DEF Operations
<1>3. \A b \in Bins : IsLoading(o, b) => ~Full(b)
  BY DEF IsLoading
<1>4. \A c \in Keys : ~IsAdding(o, c)
  BY <1>2 DEF IsAdding
<1> HIDE DEF o
<1>5. QED  BY <1>1, <1>2, <1>3, <1>4, CountsFollow

(* remove() begins.                                                        *)
LEMMA RemoveKeyKeepsInv ==
    ASSUME IndInv, NEW t \in Threads, NEW k \in Keys, RemoveKey(t, k)
    PROVE  IndInv'
<1> DEFINE o == [pc |-> "enter", what |-> "remove", key |-> k, space |-> 0]
<1>1. op' = [op EXCEPT ![t] = o] /\ UNCHANGED <<table, iteration>>
  BY DEF RemoveKey
<1>2. o \in Operations /\ o.pc = "enter" /\ o.what = "remove"
  BY DEF Operations
<1>3. (\A b \in Bins : ~IsLoading(o, b)) /\ (\A c \in Keys : ~IsAdding(o, c)) /\ ~IsGetting(o)
  BY <1>2 DEF IsLoading, IsAdding, IsGetting
<1> HIDE DEF o
<1>4. QED  BY <1>1, <1>2, <1>3, CountsFollow

(* Goto.                                                                   *)
LEMMA GotoFacts ==
    ASSUME TypeInv, NEW t \in Threads,
           NEW p \in {"idle", "full", "drain", "enter", "search", "add"}, Goto(t, p)
    PROVE  \E o \in Operations : /\ op' = [op EXCEPT ![t] = o]
                                 /\ o.pc = p /\ o.what = op[t].what /\ o.key = op[t].key
                                 /\ o.space = op[t].space
<1>1. op[t] \in Operations
  BY DEF TypeInv
<1> DEFINE o == [op[t] EXCEPT !.pc = p]
<1>2. op' = [op EXCEPT ![t] = o]
  BY DEF Goto
<1>3. /\ o \in Operations /\ o.pc = p /\ o.what = op[t].what /\ o.key = op[t].key
      /\ o.space = op[t].space
  BY <1>1 DEF Operations
<1> HIDE DEF o
<1>4. QED  BY <1>2, <1>3

(* resize_if_necessary asks for the write guard.                           *)
LEMMA ResizeIfNecessaryKeepsInv ==
    ASSUME IndInv, NEW t \in Threads, ResizeIfNecessary(t)
    PROVE  IndInv'
<1>1. /\ op[t].pc = "full" /\ Goto(t, "drain") /\ UNCHANGED <<table, iteration>>
  BY DEF ResizeIfNecessary
<1>2. TypeInv /\ OpInv
  BY DEF IndInv
<1>3. PICK o \in Operations : /\ op' = [op EXCEPT ![t] = o]
                              /\ o.pc = "drain" /\ o.what = op[t].what /\ o.key = op[t].key
                              /\ o.space = op[t].space
  BY <1>1, <1>2, GotoFacts
<1>4. op[t].what = "get"
  BY <1>1, <1>2 DEF OpInv
<1>5. IsGetting(o) => IsGetting(op[t])
  BY <1>1, <1>4 DEF IsGetting
<1>6. (\A b \in Bins : ~IsLoading(o, b)) /\ (\A c \in Keys : ~IsAdding(o, c))
  BY <1>3 DEF IsLoading, IsAdding
<1>7. QED  BY <1>1, <1>3, <1>4, <1>5, <1>6, CountsFollow

(* The bin is read-locked and the bucket retrieved.                        *)
LEMMA EnterKeepsInv ==
    ASSUME IndInv, NEW t \in Threads, Enter(t)
    PROVE  IndInv'
<1> DEFINE n == Len(spaces[BinOf(op[t].key)])
<1>1. /\ op[t].pc = "enter" /\ UNCHANGED <<table, iteration>>
      /\ op' = [op EXCEPT ![t].pc = "search", ![t].space = n]
  BY DEF Enter
<1>2. TypeInv
  BY DEF IndInv
<1>3. op[t] \in Operations /\ op[t].key \in Keys
  BY <1>2 DEF TypeInv, Operations
<1>4. n \in Nat
  BY <1>2, <1>3, BinFacts, CurrentFacts
<1> HIDE DEF n
<1> DEFINE o == [op[t] EXCEPT !.pc = "search", !.space = n]
<1>5. /\ o \in Operations /\ o.pc = "search" /\ o.what = op[t].what
      /\ o.key = op[t].key /\ o.space = n
  BY <1>3, <1>4 DEF Operations
<1>6. op' = [op EXCEPT ![t] = o]
  BY <1>1
<1> HIDE DEF o
<1>7. IsGetting(o) => IsGetting(op[t])
  BY <1>1, <1>5 DEF IsGetting
<1>8. \A b \in Bins : IsLoading(o, b) => IsLoading(op[t], b)
  BY <1>1, <1>5 DEF IsLoading
<1>9. \A c \in Keys : ~IsAdding(o, c)
  BY <1>5 DEF IsAdding
<1>10. o.space = Len(spaces[BinOf(o.key)])
  BY <1>5 DEF n
<1>11. QED  BY <1>1, <1>5, <1>6, <1>7, <1>8, <1>9, <1>10, CountsFollow

(* An operation that is over.                                              *)
LEMMA IdleFacts ==
    /\ Idle \in Operations /\ Idle.pc = "idle" /\ ~IsGetting(Idle)
    /\ (\A b : ~IsLoading(Idle, b)) /\ (\A k : ~IsAdding(Idle, k))
<1>1. (CHOOSE k \in Keys : TRUE) \in Keys
  BY TableConstants
<1>2. Idle.pc = "idle" /\ Idle \in Operations
  BY <1>1 DEF Idle, Operations
<1> HIDE DEF Idle
<1>3. QED  BY <1>2 DEF IsGetting, IsLoading, IsAdding

(* operator[] searches the bucket.                                         *)
LEMMA SearchGetKeepsInv ==
    ASSUME IndInv, NEW t \in Threads, Search(t), op[t].what = "get"
    PROVE  IndInv'
<1> DEFINE k == op[t].key
           b == BinOf(k)
           i == FromHash(spaces[b][op[t].space], Hash[k])
           nodes == spaces[b][op[t].space][i].nodes
           pos == FindKey(nodes, k)
<1>1. /\ op[t].pc = "search"
      /\ op' = IF pos # 0 THEN [op EXCEPT ![t] = Idle] ELSE [op EXCEPT ![t].pc = "add"]
      /\ UNCHANGED <<spaces, count, keyOf, removed, it, visits, promised>>
  BY DEF Search
<1>2. UNCHANGED <<table, iteration>>
  BY <1>1 DEF table, iteration
<1>3. TypeInv /\ OpInv /\ PlaceInv
  BY DEF IndInv
<1>4. CASE pos # 0
  <2>1. op' = [op EXCEPT ![t] = Idle]
    BY <1>1, <1>4
  <2>2. QED  BY <1>2, <2>1, IdleFacts, CountsFollow
<1>5. CASE pos = 0
  <2>1. Goto(t, "add")
    BY <1>1, <1>5 DEF Goto
  <2>2. PICK o \in Operations : /\ op' = [op EXCEPT ![t] = o]
                                /\ o.pc = "add" /\ o.what = op[t].what /\ o.key = op[t].key
                                /\ o.space = op[t].space
    BY <1>3, <2>1, GotoFacts
  <2>3. /\ k \in Keys /\ b \in Bins /\ op[t].space = Len(spaces[b])
        /\ nodes = Current(b)[FromHash(Current(b), Hash[k])].nodes /\ nodes \in Seq(NodeIds)
    <3>1. /\ op[t].key \in Keys /\ b \in Bins /\ op[t].space = Len(spaces[b])
          /\ spaces[b][op[t].space] = Current(b)
          /\ i = FromHash(Current(b), Hash[op[t].key]) /\ Current(b)[i] \in Buckets
      BY <1>1, <1>3, SearchedBucket
    <3>2. Current(b)[i].nodes \in Seq(NodeIds)
      BY <3>1 DEF Buckets
    <3>3. QED  BY <3>1, <3>2
  <2>4. NodesWith(k) = {}
    <3> DEFINE list == nodes
    <3>1. FindKey(list, k) = 0
      BY <1>5
    <3> HIDE DEF list, nodes
    <3>2. list = Current(BinOf(k))[FromHash(Current(BinOf(k)), Hash[k])].nodes
      BY <2>3 DEF list
    <3>3. QED  BY <1>3, <2>3, <3>1, <3>2, NotFoundFacts DEF list
  <2>5. \A c \in Keys : IsAdding(o, c) => c = k
    BY <2>2 DEF IsAdding
  <2>6. IsGetting(o) => IsGetting(op[t])
    BY <1>1, <2>2 DEF IsGetting
  <2>7. \A c \in Bins : IsLoading(o, c) => IsLoading(op[t], c)
    BY <1>1, <2>2 DEF IsLoading
  <2>8. o.space = Len(spaces[BinOf(o.key)])
    BY <2>2, <2>3
  <2> HIDE DEF k, b
  <2>9. QED  BY <1>2, <2>2, <2>4, <2>5, <2>6, <2>7, <2>8, CountsFollow
<1>6. QED  BY <1>4, <1>5

(* remove() does not find its key.                                         *)
LEMMA SearchNothingKeepsInv ==
    ASSUME IndInv, NEW t \in Threads, op' = [op EXCEPT ![t] = Idle], NEW b \in Bins,
           count' = [count EXCEPT ![b] = @ - Erased(0)],
           UNCHANGED <<spaces, keyOf, removed, it, visits, promised>>
    PROVE  IndInv'
<1>1. count[b] - Erased(0) = count[b] /\ count \in [Bins -> 0 .. MaxNodes]
  BY DEF IndInv, TypeInv, Erased
<1>2. count' = count
  BY <1>1
<1>3. UNCHANGED <<table, iteration>>
  BY <1>2 DEF table, iteration
<1>4. QED  BY <1>3, IdleFacts, CountsFollow

-----------------------------------------------------------------------------
(* Steps that change the spaces.                                           *)

(* Only bucket i of the current space of bin b changes, to e: all spaces   *)
(* keep their size.                                                        *)
OneBucketChanges(b, i, e) ==
    /\ spaces' \in [Bins -> Seq(SpaceSet)]
    /\ \A c \in Bins :
          /\ spaces'[c] # <<>> /\ Len(spaces'[c]) = Len(spaces[c])
          /\ DOMAIN spaces'[c] = DOMAIN spaces[c]
          /\ DOMAIN Current(c)' = DOMAIN Current(c)
          /\ Size(Current(c))' = Size(Current(c)) /\ MaxCount(c)' = MaxCount(c)
          /\ c # b => Current(c)' = Current(c)
          /\ \A g \in DOMAIN spaces[c] :
                /\ DOMAIN spaces'[c][g] = DOMAIN spaces[c][g]
                /\ Size(spaces'[c][g]) = Size(spaces[c][g])
                /\ \A j \in DOMAIN spaces[c][g] :
                      ~(c = b /\ g = Len(spaces[b]) /\ j = i)
                      => spaces'[c][g][j] = spaces[c][g][j]
    /\ spaces'[b][Len(spaces[b])][i] = e /\ Current(b)'[i] = e
    /\ \A j \in DOMAIN Current(b) : j # i => Current(b)'[j] = Current(b)[j]

(* Another list in a bucket of the current space.                          *)
LEMMA CurrentChange ==
    ASSUME TypeInv, NEW b \in Bins, NEW i \in DOMAIN Current(b), NEW e \in Buckets,
           spaces' = [spaces EXCEPT ![b][Len(spaces[b])][i] = e]
    PROVE  OneBucketChanges(b, i, e)
<1> DEFINE m == Len(spaces[b])
<1>1. /\ spaces \in [Bins -> Seq(SpaceSet)] /\ m \in DOMAIN spaces[b]
      /\ Current(b) = spaces[b][m]
  BY CurrentFacts DEF TypeInv
<1> HIDE DEF m
<1>2. /\ spaces' \in [Bins -> Seq(SpaceSet)]
      /\ \A c \in Bins : c # b => spaces'[c] = spaces[c]
      /\ Len(spaces'[b]) = Len(spaces[b]) /\ DOMAIN spaces'[b] = DOMAIN spaces[b]
      /\ \A h \in DOMAIN spaces[b] : h # m => spaces'[b][h] = spaces[b][h]
      /\ DOMAIN spaces'[b][m] = DOMAIN spaces[b][m]
      /\ Size(spaces'[b][m]) = Size(spaces[b][m])
      /\ \A j \in DOMAIN spaces[b][m] : j # i => spaces'[b][m][j] = spaces[b][m][j]
      /\ spaces'[b][m][i] = e
  BY <1>1, BucketChange DEF m
<1>3. \A c \in Bins : Current(c) = spaces[c][Len(spaces[c])] /\ Len(spaces[c]) \in DOMAIN spaces[c]
  BY CurrentFacts
<1>4. \A c \in Bins : Current(c)' = spaces'[c][Len(spaces'[c])]
  BY DEF Current, Last
<1>5. \A c \in Bins : Len(spaces'[c]) = Len(spaces[c]) /\ DOMAIN spaces'[c] = DOMAIN spaces[c]
  BY <1>2
<1>6. \A c \in Bins : \A g \in DOMAIN spaces[c] :
         /\ DOMAIN spaces'[c][g] = DOMAIN spaces[c][g]
         /\ Size(spaces'[c][g]) = Size(spaces[c][g])
         /\ \A j \in DOMAIN spaces[c][g] :
               ~(c = b /\ g = m /\ j = i) => spaces'[c][g][j] = spaces[c][g][j]
  <2>1. TAKE c \in Bins
  <2>2. TAKE g \in DOMAIN spaces[c]
  <2>3. CASE c = b /\ g = m
    BY <1>2, <2>3
  <2>4. CASE ~(c = b /\ g = m)
    <3>1. spaces'[c][g] = spaces[c][g]
      BY <1>2, <2>4
    <3>2. QED  BY <2>4, <3>1
  <2>5. QED  BY <2>3, <2>4
<1>7. \A c \in Bins : /\ DOMAIN Current(c)' = DOMAIN Current(c)
                      /\ Size(Current(c))' = Size(Current(c))
  <2>1. TAKE c \in Bins
  <2>2. Current(c)' = spaces'[c][Len(spaces[c])]
    BY <1>4, <1>5
  <2>3. /\ DOMAIN spaces'[c][Len(spaces[c])] = DOMAIN spaces[c][Len(spaces[c])]
        /\ Size(spaces'[c][Len(spaces[c])]) = Size(spaces[c][Len(spaces[c])])
    BY <1>3, <1>6
  <2>4. Size(Current(c))' = Size(Current(c)')
    BY DEF Size
  <2>5. QED  BY <1>3, <2>2, <2>3, <2>4
<1>8. \A c \in Bins : MaxCount(c)' = MaxCount(c)
  BY <1>7 DEF MaxCount
<1>9. \A c \in Bins : spaces'[c] # <<>>
  <2>1. TAKE c \in Bins
  <2>2. Len(spaces'[c]) \in Nat \ {0}
    BY <1>5, CurrentFacts
  <2>3. QED  BY <2>2
<1>10. Current(b)' = spaces'[b][m]
  BY <1>4, <1>5 DEF m
<1>11. \A c \in Bins : c # b => Current(c)' = Current(c)
  BY <1>2, <1>3, <1>4
<1>12. QED  BY <1>1, <1>2, <1>5, <1>6, <1>7, <1>8, <1>9, <1>10, <1>11 DEF m, OneBucketChanges

(* Iterators are where they were, if no space goes away or is resized.     *)
LEMMA ShapeKept ==
    ASSUME IterInv, it' = it, Created \subseteq Created',
           \A b \in Bins : \A g \in DOMAIN spaces[b] :
               g \in DOMAIN spaces'[b] /\ Size(spaces'[b][g]) = Size(spaces[b][g])
    PROVE  IterInv'
<1>1. SUFFICES ASSUME NEW r \in Iterators
      PROVE  /\ it[r].pc \in {"bucket", "at"} =>
                   /\ it[r].bin \in Bins /\ it[r].space \in DOMAIN spaces'[it[r].bin]
                   /\ it[r].bucket <= Size(spaces'[it[r].bin][it[r].space])
             /\ it[r].pc = "at" =>
                   /\ it[r].bucket < Size(spaces'[it[r].bin][it[r].space])
                   /\ it[r].index > 0 /\ it[r].node \in Created'
  <2>1. \A b, g : Size(spaces[b][g])' = Size(spaces'[b][g])
    BY DEF Size
  <2>2. QED  BY <2>1 DEF IterInv
<1>2. QED  BY DEF IterInv

(* SpaceInv after a change of one bucket, a node created or a node removed.*)
LEMMA SpaceInvFollows ==
    ASSUME TypeInv, SpaceInv, NEW b \in Bins, NEW i \in DOMAIN Current(b), NEW e \in Buckets,
           OneBucketChanges(b, i, e),
           Created \subseteq Created', \A n \in Created : keyOf'[n] = keyOf[n],
           NEW old \in Nat, old = Len(keyOf) + Cardinality(removed),
           NEW new \in Nat, new = Len(keyOf') + Cardinality(removed'), old <= new,
           IsInjective(e.nodes), e.gen <= new,
           \A n \in Range(e.nodes) : n \in Created' /\ BinOf(keyOf'[n]) = b
                                     /\ i = FromHash(Current(b), Hash[keyOf'[n]])
    PROVE  SpaceInv'
<1>1. Len(spaces[b]) \in DOMAIN spaces[b] /\ Current(b) = spaces[b][Len(spaces[b])]
  BY CurrentFacts
<1>2. /\ \A c \in Bins : DOMAIN spaces'[c] = DOMAIN spaces[c]
      /\ \A c \in Bins : \A g \in DOMAIN spaces[c] : DOMAIN spaces'[c][g] = DOMAIN spaces[c][g]
  BY DEF OneBucketChanges
<1>3. \A c \in Bins : \A g \in DOMAIN spaces[c] : \A h :
         FromHash(spaces'[c][g], h) = FromHash(spaces[c][g], h)
  BY DEF FromHash, OneBucketChanges
<1>4. ASSUME NEW c \in Bins, NEW g \in DOMAIN spaces[c], NEW j \in DOMAIN spaces[c][g]
      PROVE  /\ IsInjective(spaces'[c][g][j].nodes)
             /\ \A n \in Range(spaces'[c][g][j].nodes) :
                   n \in Created' /\ BinOf(keyOf'[n]) = c
                   /\ j = FromHash(spaces[c][g], Hash[keyOf'[n]])
             /\ spaces'[c][g][j].gen <= new
  <2>1. CASE c = b /\ g = Len(spaces[b]) /\ j = i
    <3>1. spaces'[c][g][j] = e
      BY <2>1 DEF OneBucketChanges
    <3>2. QED  BY <1>1, <2>1, <3>1
  <2>2. CASE ~(c = b /\ g = Len(spaces[b]) /\ j = i)
    <3>1. spaces'[c][g][j] = spaces[c][g][j]
      BY <2>2 DEF OneBucketChanges
    <3>2. /\ IsInjective(spaces[c][g][j].nodes)
          /\ \A n \in Range(spaces[c][g][j].nodes) :
                n \in Created /\ BinOf(keyOf[n]) = c
                /\ j = FromHash(spaces[c][g], Hash[keyOf[n]])
          /\ spaces[c][g][j].gen <= old
      BY DEF SpaceInv
    <3>3. spaces[c][g][j].gen \in Nat
      <4>1. spaces[c][g] \in SpaceSet
        BY CurrentFacts
      <4>2. QED  BY <4>1 DEF SpaceSet, Buckets
    <3>4. \A n \in Created : n \in Created' /\ BinOf(keyOf'[n]) = BinOf(keyOf[n])
      BY DEF BinOf
    <3>5. QED  BY <3>1, <3>2, <3>3, <3>4
  <2>3. QED  BY <2>1, <2>2
<1>5. \A c \in Bins : \A g \in DOMAIN spaces[c] : \A n :
         FromHash(spaces[c][g], Hash[keyOf[n]])' = FromHash(spaces[c][g], Hash[keyOf'[n]])
  BY <1>3, SMTT(30)
<1>6. \A n : BinOf(keyOf[n])' = BinOf(keyOf'[n])
  BY DEF BinOf
<1>7. SUFFICES ASSUME NEW c \in Bins, NEW g \in DOMAIN spaces[c], NEW j \in DOMAIN spaces[c][g]
      PROVE  /\ IsInjective(spaces'[c][g][j].nodes)
             /\ \A n \in Range(spaces'[c][g][j].nodes) :
                   n \in Created' /\ BinOf(keyOf[n])' = c
                   /\ j = FromHash(spaces[c][g], Hash[keyOf[n]])'
             /\ spaces'[c][g][j].gen <= Len(keyOf') + Cardinality(removed')
  BY <1>2 DEF SpaceInv
<1>8. QED  BY <1>4, <1>5, <1>6

(* A node that goes away from the current space of its bin.                *)
LEMMA RemoveNode ==
    ASSUME TypeInv, SpaceInv, PlaceInv, CountInv, NEW b \in Bins, NEW i \in DOMAIN Current(b),
           NEW pos \in DOMAIN Current(b)[i].nodes,
           keyOf' = keyOf, removed' = removed \cup {Current(b)[i].nodes[pos]},
           count' = [count EXCEPT ![b] = @ - 1],
           spaces' = [spaces EXCEPT ![b][Len(spaces[b])][i] =
                        [nodes |-> RemoveAt(Current(b)[i].nodes, pos),
                         gen |-> Current(b)[i].gen + 1]]
    PROVE  /\ \E e : OneBucketChanges(b, i, e)
           /\ count' \in [Bins -> 0 .. MaxNodes]
           /\ removed' \subseteq Created'
           /\ SpaceInv' /\ PlaceInv' /\ CountInv'
           /\ \A c \in Bins : count'[c] <= count[c]
<1> DEFINE m == Len(spaces[b])
           nodes == Current(b)[i].nodes
           x == nodes[pos]
           e == [nodes |-> RemoveAt(nodes, pos), gen |-> Current(b)[i].gen + 1]
<1>1. /\ m \in DOMAIN spaces[b] /\ Current(b) = spaces[b][m] /\ Current(b) \in SpaceSet
  BY CurrentFacts
<1>2. Current(b)[i] \in Buckets /\ nodes \in Seq(NodeIds) /\ Current(b)[i].gen \in Nat
  BY <1>1 DEF SpaceSet, Buckets
<1>3. /\ IsInjective(nodes)
      /\ \A n \in Range(nodes) :
            n \in Created /\ BinOf(keyOf[n]) = b /\ i = FromHash(Current(b), Hash[keyOf[n]])
      /\ Current(b)[i].gen <= Len(keyOf) + Cardinality(removed)
  BY <1>1 DEF SpaceInv
<1>4. x \in Range(nodes) /\ Range(nodes) \cap removed = {}
  BY DEF PlaceInv, Range
<1>5. x \in Created /\ BinOf(keyOf[x]) = b /\ i = FromHash(Current(b), Hash[keyOf[x]])
      /\ x \notin removed
  BY <1>3, <1>4
<1>6. /\ e.nodes \in Seq(NodeIds) /\ IsInjective(e.nodes) /\ Range(e.nodes) = Range(nodes) \ {x}
      /\ e.gen = Current(b)[i].gen + 1
  BY <1>2, <1>3, RemoveAtFacts
<1>7. Len(keyOf) \in 0 .. MaxNodes /\ Created' = Created /\ removed' = removed \cup {x}
  BY NodeSets DEF Created
<1>8. /\ removed' \subseteq Created /\ IsFiniteSet(removed)
      /\ Cardinality(removed) \in Nat /\ Cardinality(removed') = Cardinality(removed) + 1
      /\ Cardinality(removed') <= Len(keyOf)
  <2>1. removed \subseteq Created /\ IsFiniteSet(removed) /\ Cardinality(removed) \in Nat
    BY NodeSets DEF TypeInv
  <2>2. Cardinality(removed') = Cardinality(removed) + 1
    BY <1>5, <1>7, <2>1, FS_AddElement
  <2>3. IsFiniteSet(Created) /\ Cardinality(Created) = Len(keyOf)
    BY NodeSets
  <2>4. removed' \subseteq Created
    BY <1>5, <1>7, <2>1
  <2>5. Cardinality(removed') <= Cardinality(Created)
    BY <2>3, <2>4, FS_Subset
  <2>6. QED  BY <2>1, <2>2, <2>3, <2>4, <2>5
<1>9. MaxNodes \in Nat
  BY TableConstants
<1>10. e.gen \in 0 .. 2 * MaxNodes /\ e.gen <= Len(keyOf) + Cardinality(removed')
  BY <1>2, <1>3, <1>6, <1>7, <1>8, <1>9, SMTT(30)
<1>11. e \in Buckets
  BY <1>6, <1>10 DEF Buckets
<1>12. spaces' = [spaces EXCEPT ![b][Len(spaces[b])][i] = e]
  OBVIOUS
<1> HIDE DEF e, x
<1>13. OneBucketChanges(b, i, e)
  BY <1>11, <1>12, CurrentChange
<1> HIDE DEF m
<1>14. SpaceInv'
  <2> DEFINE old == Len(keyOf) + Cardinality(removed)
             new == Len(keyOf') + Cardinality(removed')
  <2>1. old \in Nat /\ new \in Nat /\ old <= new /\ e.gen <= new
    BY <1>7, <1>8, <1>10
  <2>2. \A n \in Range(e.nodes) : n \in Created' /\ BinOf(keyOf'[n]) = b
                                  /\ i = FromHash(Current(b), Hash[keyOf'[n]])
    BY <1>3, <1>6, <1>7
  <2> HIDE DEF old, new
  <2>3. Created \subseteq Created' /\ \A n \in Created : keyOf'[n] = keyOf[n]
    BY <1>7
  <2>4. QED  BY <1>6, <1>11, <1>13, <2>1, <2>2, <2>3, SpaceInvFollows DEF old, new
<1>15. \A c : Live(c)' = Live(c) \ {x}
  BY <1>7 DEF Live
<1>16. PlaceInv'
  <2>1. ASSUME NEW c \in Bins, NEW j \in DOMAIN Current(c)
        PROVE  Range(Current(c)'[j].nodes) \cap removed' = {}
    <3>1. Range(Current(c)[j].nodes) \cap removed = {}
      BY DEF PlaceInv
    <3>2. CASE c = b /\ j = i
      BY <1>6, <1>7, <1>13, <3>1, <3>2 DEF OneBucketChanges
    <3>3. CASE ~(c = b /\ j = i)
      <4>1. Current(c)'[j] = Current(c)[j]
        BY <1>13, <3>3 DEF OneBucketChanges
      <4>2. x \notin Range(Current(c)[j].nodes)
        <5>1. \A n \in Range(Current(c)[j].nodes) :
                 BinOf(keyOf[n]) = c /\ j = FromHash(Current(c), Hash[keyOf[n]])
          BY CurrentFacts DEF SpaceInv
        <5>2. QED  BY <1>5, <3>3, <5>1
      <4>3. QED  BY <1>7, <3>1, <4>1, <4>2
    <3>4. QED  BY <3>2, <3>3
  <2>2. ASSUME NEW c \in Bins, NEW n \in Live(c), n # x
        PROVE  n \in Range(Current(c)'[FromHash(Current(c), Hash[keyOf[n]])].nodes)
    <3> DEFINE j == FromHash(Current(c), Hash[keyOf[n]])
    <3>1. n \in Range(Current(c)[j].nodes)
      BY DEF PlaceInv
    <3>2. j \in DOMAIN Current(c)
      <4>1. Hash[keyOf[n]] \in Nat
        BY NodeSets, BinFacts DEF Live
      <4>2. QED  BY <4>1, CurrentFacts, SpaceFacts
    <3> HIDE DEF j
    <3>3. CASE c = b /\ j = i
      BY <1>6, <1>13, <2>2, <3>1, <3>3 DEF j, OneBucketChanges
    <3>4. CASE ~(c = b /\ j = i)
      BY <1>13, <3>1, <3>2, <3>4 DEF j, OneBucketChanges
    <3>5. QED  BY <3>3, <3>4
  <2>3. \A c \in Bins : \A h : FromHash(Current(c), h)' = FromHash(Current(c), h)
    BY <1>13 DEF FromHash, OneBucketChanges
  <2>4. \A c \in Bins : DOMAIN Current(c)' = DOMAIN Current(c)
    BY <1>13 DEF OneBucketChanges
  <2>5. SUFFICES ASSUME NEW c \in Bins
        PROVE  /\ \A j \in DOMAIN Current(c)' : Range(Current(c)'[j].nodes) \cap removed' = {}
               /\ \A n \in Live(c)' :
                     n \in Range(Current(c)'[FromHash(Current(c), Hash[keyOf[n]])'].nodes)
    BY DEF PlaceInv
  <2>6. \A n \in Live(c)' : /\ n \in Live(c) /\ n # x
                            /\ FromHash(Current(c), Hash[keyOf[n]])' =
                                  FromHash(Current(c), Hash[keyOf[n]])
    BY <1>7, <1>15, <2>3
  <2>7. QED  BY <2>1, <2>2, <2>4, <2>6
<1>17. \A c \in Bins : /\ count'[c] = Cardinality(Live(c)')
                       /\ count'[c] \in 0 .. MaxNodes /\ count'[c] <= count[c]
  <2>1. TAKE c \in Bins
  <2>2. /\ IsFiniteSet(Live(c)) /\ Cardinality(Live(c)) \in 0 .. Len(keyOf)
        /\ count[c] = Cardinality(Live(c))
    BY NodeSets DEF CountInv
  <2>3. /\ IsFiniteSet(Live(c)')
        /\ Cardinality(Live(c)') = IF x \in Live(c) THEN Cardinality(Live(c)) - 1
                                                    ELSE Cardinality(Live(c))
    BY <1>15, <2>2, FS_RemoveElement
  <2>4. Cardinality(Live(c)') \in Nat
    BY <2>3, FS_CardinalityType
  <2>5. x \in Live(c) <=> c = b
    BY <1>5 DEF Live
  <2>6. count'[c] = IF c = b THEN count[c] - 1 ELSE count[c]
    BY DEF TypeInv
  <2>7. QED  BY <1>7, <1>9, <2>2, <2>3, <2>4, <2>5, <2>6
<1>18. CountInv'
  BY <1>17 DEF CountInv
<1>19. count' \in [Bins -> 0 .. MaxNodes]
  <2>1. count' = [c \in Bins |-> count'[c]]
    BY DEF TypeInv
  <2>2. QED  BY <1>17, <2>1
<1>20. QED  BY <1>7, <1>8, <1>13, <1>14, <1>16, <1>17, <1>18, <1>19

(* remove() finds its key and erases the node.                             *)
LEMMA SearchRemoveKeepsInv ==
    ASSUME IndInv, NEW t \in Threads, Search(t), op[t].what = "remove"
    PROVE  IndInv'
<1> DEFINE k == op[t].key
           b == BinOf(k)
           i == FromHash(spaces[b][op[t].space], Hash[k])
           bucket == spaces[b][op[t].space][i]
           pos == FindKey(bucket.nodes, k)
<1>1. /\ op[t].pc = "search" /\ op' = [op EXCEPT ![t] = Idle]
      /\ count' = [count EXCEPT ![b] = @ - Erased(pos)]
      /\ UNCHANGED <<keyOf, it, visits>>
  BY DEF Search
<1>2. IF pos # 0
      THEN /\ ChangeBucket(t, i, RemoveAt(bucket.nodes, pos))
           /\ removed' = removed \cup {bucket.nodes[pos]}
           /\ promised' = [r \in Iterators |-> IF it[r].pc = "new" THEN promised[r] ELSE Void]
      ELSE UNCHANGED <<spaces, removed, promised>>
  BY DEF Search
<1>3. TypeInv /\ SpaceInv /\ PlaceInv /\ CountInv /\ OpInv /\ RoomInv /\ LoadInv
      /\ DuplicateInv /\ IterInv
  BY DEF IndInv
<1>4. /\ k \in Keys /\ b \in Bins /\ op[t].space = Len(spaces[b])
      /\ spaces[b][op[t].space] = Current(b) /\ i \in DOMAIN Current(b)
      /\ Current(b)[i] \in Buckets
  BY <1>1, <1>3, SearchedBucket
<1>5. CASE pos = 0
  <2>1. count' = [count EXCEPT ![b] = @ - Erased(0)]
    BY <1>1, <1>5
  <2>2. UNCHANGED <<spaces, keyOf, removed, it, visits, promised>>
    BY <1>1, <1>2, <1>5
  <2> HIDE DEF b
  <2>3. QED  BY <1>1, <1>4, <2>1, <2>2, SearchNothingKeepsInv
<1>6. CASE pos # 0
  <2>1. bucket = Current(b)[i] /\ bucket.nodes \in Seq(NodeIds)
    BY <1>4 DEF Buckets
  <2>2. pos \in DOMAIN bucket.nodes
    <3> DEFINE list == bucket.nodes
    <3> HIDE DEF bucket
    <3>1. FindKey(list, k) \in DOMAIN list
      BY <1>6, <2>1, FindKeyFacts
    <3>2. QED  BY <3>1
  <2>3. /\ removed' = removed \cup {bucket.nodes[pos]}
        /\ promised' = [r \in Iterators |-> IF it[r].pc = "new" THEN promised[r] ELSE Void]
        /\ ChangeBucket(t, i, RemoveAt(bucket.nodes, pos))
    BY <1>2, <1>6
  <2>4. count' = [count EXCEPT ![b] = @ - 1]
    BY <1>1, <1>6 DEF Erased
  <2>5. spaces' = [spaces EXCEPT ![b][Len(spaces[b])][i] =
                     [nodes |-> RemoveAt(bucket.nodes, pos), gen |-> bucket.gen + 1]]
    BY <1>4, <2>3 DEF ChangeBucket
  <2> HIDE DEF bucket, pos, i, b, k
  <2>6. /\ \E e : OneBucketChanges(b, i, e)
        /\ count' \in [Bins -> 0 .. MaxNodes]
        /\ removed' \subseteq Created'
        /\ SpaceInv' /\ PlaceInv' /\ CountInv'
        /\ \A c \in Bins : count'[c] <= count[c]
    BY <1>1, <1>3, <1>4, <2>1, <2>2, <2>3, <2>4, <2>5, RemoveNode
  <2>7. /\ spaces' \in [Bins -> Seq(SpaceSet)]
        /\ \A c \in Bins :
              /\ spaces'[c] # <<>> /\ Len(spaces'[c]) = Len(spaces[c])
              /\ MaxCount(c)' = MaxCount(c)
              /\ \A g \in DOMAIN spaces[c] :
                    g \in DOMAIN spaces'[c] /\ Size(spaces'[c][g]) = Size(spaces[c][g])
    BY <2>6 DEF OneBucketChanges
  <2>8. /\ op' \in [Threads -> Operations] /\ op'[t] = Idle
        /\ \A u \in Threads : u # t => op'[u] = op[u]
        /\ Cardinality(Getting) \in Nat
        /\ Cardinality(Getting') = Cardinality(Getting) - One(IsGetting(op[t])) + One(FALSE)
        /\ \A c : /\ Cardinality(Loading(c)) \in Nat
                  /\ Cardinality(Loading(c)') =
                       Cardinality(Loading(c)) - One(IsLoading(op[t], c)) + One(FALSE)
        /\ \A c : /\ Cardinality(Adding(c)) \in Nat
                  /\ Cardinality(Adding(c)') =
                       Cardinality(Adding(c)) - One(IsAdding(op[t], c)) + One(FALSE)
    <3>1. /\ op' \in [Threads -> Operations] /\ op'[t] = Idle
          /\ \A u \in Threads : u # t => op'[u] = op[u]
          /\ Cardinality(Getting) \in Nat
          /\ Cardinality(Getting') =
                Cardinality(Getting) - One(IsGetting(op[t])) + One(IsGetting(Idle))
      BY <1>1, <1>3, IdleFacts, ThreadMoves
    <3>2. \A c : /\ Cardinality(Loading(c)) \in Nat
                 /\ Cardinality(Loading(c)') =
                       Cardinality(Loading(c)) - One(IsLoading(op[t], c)) + One(IsLoading(Idle, c))
      BY <1>1, <1>3, IdleFacts, ThreadMoves
    <3>3. \A c : /\ Cardinality(Adding(c)) \in Nat
                 /\ Cardinality(Adding(c)') =
                       Cardinality(Adding(c)) - One(IsAdding(op[t], c)) + One(IsAdding(Idle, c))
      BY <1>1, <1>3, IdleFacts, ThreadMoves
    <3>4. /\ One(IsGetting(Idle)) = One(FALSE) /\ \A c : One(IsLoading(Idle, c)) = One(FALSE)
          /\ \A c : One(IsAdding(Idle, c)) = One(FALSE)
      BY IdleFacts DEF One
    <3>5. QED  BY <3>1, <3>2, <3>3, <3>4
  <2>9. /\ Cardinality(Getting') <= Cardinality(Getting) /\ Cardinality(Getting') \in Int
        /\ \A c : Cardinality(Loading(c)') <= Cardinality(Loading(c)) /\ Cardinality(Loading(c)') \in Int
        /\ \A c : Cardinality(Adding(c)') <= Cardinality(Adding(c)) /\ Cardinality(Adding(c)') \in Int
    BY <2>8 DEF One
  <2>10. /\ Len(keyOf) \in Nat /\ MaxNodes \in Nat /\ Cardinality(Threads) \in Nat
         /\ \A c : IsFiniteSet(NodesWith(c)) /\ Cardinality(NodesWith(c)) \in Nat
    BY <1>3, NodeSets, ThreadSets, TableConstants
  <2>11. TypeInv'
    <3>1. promised' \in [Iterators -> SUBSET (NodeIds \cup {0})]
      BY <1>3, <2>3 DEF TypeInv, Void
    <3>2. QED  BY <1>1, <1>3, <2>6, <2>7, <2>8, <3>1 DEF TypeInv
  <2>12. OpInv'
    <3>1. SUFFICES ASSUME NEW u \in Threads
                   PROVE  /\ op'[u].pc \in {"search", "add"} =>
                                 op'[u].space = Len(spaces'[BinOf(op'[u].key)])
                          /\ op'[u].pc \in {"full", "drain", "add"} => op'[u].what = "get"
      BY DEF OpInv, BinOf
    <3>2. CASE u = t
      BY <2>8, <3>2, IdleFacts
    <3>3. CASE u # t
      <4>1. op'[u] = op[u] /\ op[u].key \in Keys
        BY <1>3, <2>8, <3>3 DEF TypeInv, Operations
      <4>2. BinOf(op[u].key) \in Bins
        BY <4>1, BinFacts
      <4>3. Len(spaces'[BinOf(op[u].key)]) = Len(spaces[BinOf(op[u].key)])
        BY <2>7, <4>2
      <4>4. QED  BY <1>3, <4>1, <4>3 DEF OpInv
    <3>4. QED  BY <3>2, <3>3
  <2>13. RoomInv'
    <3>1. Len(keyOf) + Cardinality(Getting) <= MaxNodes
      BY <1>3 DEF RoomInv
    <3>2. /\ Len(keyOf) \in Nat /\ MaxNodes \in Nat /\ Cardinality(Getting) \in Nat
          /\ Cardinality(Getting') <= Cardinality(Getting) /\ Cardinality(Getting') \in Int
      BY <2>8, <2>9, <2>10
    <3>3. Len(keyOf) + Cardinality(Getting') <= MaxNodes
      BY ONLY <3>1, <3>2
    <3>4. QED  BY <1>1, <3>3 DEF RoomInv
  <2>14. LoadInv'
    <3>1. SUFFICES ASSUME NEW c \in Bins
          PROVE  count'[c] + Cardinality(Loading(c)') < MaxCount(c) + Cardinality(Threads)
      BY <2>7 DEF LoadInv
    <3>2. /\ count[c] \in Nat /\ count'[c] \in Nat /\ MaxCount(c) \in Nat
          /\ count[c] + Cardinality(Loading(c)) < MaxCount(c) + Cardinality(Threads)
      BY <1>3, <2>11, CurrentFacts DEF LoadInv, TypeInv
    <3>3. QED  BY <2>6, <2>8, <2>9, <2>10, <3>2
  <2>15. DuplicateInv'
    <3>1. SUFFICES ASSUME NEW c \in Keys
          PROVE  Cardinality(NodesWith(c)') + Cardinality(Adding(c)') <= Cardinality(Threads)
      BY DEF DuplicateInv
    <3>2. NodesWith(c)' \in SUBSET NodesWith(c)
      BY <1>1, <2>3 DEF NodesWith, Created
    <3>3. Cardinality(NodesWith(c)') <= Cardinality(NodesWith(c))
          /\ Cardinality(NodesWith(c)') \in Nat
      BY <2>10, <3>2, FS_Subset, FS_CardinalityType
    <3>4. Cardinality(NodesWith(c)) + Cardinality(Adding(c)) <= Cardinality(Threads)
      BY <1>3 DEF DuplicateInv
    <3>5. QED  BY <2>8, <2>9, <2>10, <3>3, <3>4
  <2>16. IterInv'
    <3>1. Created' = Created
      BY <1>1 DEF Created
    <3>2. QED  BY <1>1, <1>3, <2>7, <3>1, ShapeKept
  <2>17. QED  BY <2>6, <2>11, <2>12, <2>13, <2>14, <2>15, <2>16 DEF IndInv
<1>7. QED  BY <1>5, <1>6

(* The nodes, when one more is created.                                    *)
LEMMA OneMoreNode ==
    ASSUME TypeInv, NEW k \in Keys, keyOf' = Append(keyOf, k), removed' = removed,
           Len(keyOf) < MaxNodes, NEW x, x = Len(keyOf) + 1
    PROVE  /\ x \in NodeIds /\ x \notin Created /\ Created' = Created \cup {x}
           /\ keyOf' \in Seq(Keys) /\ Len(keyOf') = x /\ x <= MaxNodes
           /\ keyOf'[x] = k /\ \A n \in Created : keyOf'[n] = keyOf[n]
           /\ \A b : Live(b)' = IF b = BinOf(k) THEN Live(b) \cup {x} ELSE Live(b)
           /\ \A c : NodesWith(c)' = IF c = k THEN NodesWith(c) \cup {x} ELSE NodesWith(c)
<1>1. /\ Len(keyOf) \in Nat /\ Created = 1 .. Len(keyOf) /\ MaxNodes \in Nat
      /\ keyOf \in Seq(Keys) /\ removed \subseteq Created
  BY NodeSets, TableConstants DEF TypeInv
<1>2. x \in NodeIds /\ x <= MaxNodes /\ x \notin Created
  BY <1>1 DEF NodeIds
<1>3. /\ keyOf' \in Seq(Keys) /\ Len(keyOf') = x /\ keyOf'[x] = k
      /\ \A n \in 1 .. Len(keyOf) : keyOf'[n] = keyOf[n]
  BY <1>1
<1>4. Created' = Created \cup {x}
  <2>1. Created' = 1 .. x
    BY <1>3 DEF Created
  <2>2. 1 .. x = (1 .. Len(keyOf)) \cup {x}
    BY <1>1
  <2>3. QED  BY <1>1, <2>1, <2>2
<1>5. \A n \in Created : keyOf'[n] = keyOf[n]
  BY <1>1, <1>3
<1>6. Created' \ removed' = (Created \ removed) \cup {x}
  BY <1>1, <1>2, <1>4
<1>7. \A b : Live(b)' = IF b = BinOf(k) THEN Live(b) \cup {x} ELSE Live(b)
  <2>1. TAKE b
  <2>2. Live(b)' = {n \in (Created \ removed) \cup {x} : BinOf(keyOf'[n]) = b}
    BY <1>6 DEF Live, BinOf
  <2>3. BinOf(keyOf'[x]) = BinOf(k) /\ \A n \in Created : BinOf(keyOf'[n]) = BinOf(keyOf[n])
    BY <1>3, <1>5
  <2> HIDE DEF BinOf
  <2>4. QED  BY <2>2, <2>3 DEF Live
<1>8. \A c : NodesWith(c)' = IF c = k THEN NodesWith(c) \cup {x} ELSE NodesWith(c)
  <2>1. TAKE c
  <2>2. NodesWith(c)' = {n \in (Created \ removed) \cup {x} : keyOf'[n] = c}
    BY <1>6 DEF NodesWith
  <2>3. QED  BY <1>3, <1>5, <2>2 DEF NodesWith
<1>9. QED  BY <1>2, <1>3, <1>4, <1>5, <1>7, <1>8

(* A new node at the end of its bucket in the current space of its bin.    *)
LEMMA AddNode ==
    ASSUME TypeInv, SpaceInv, PlaceInv, CountInv, NEW k \in Keys, NEW b \in Bins, b = BinOf(k),
           NEW i \in DOMAIN Current(b), i = FromHash(Current(b), Hash[k]),
           keyOf' = Append(keyOf, k), removed' = removed, Len(keyOf) < MaxNodes,
           count' = [count EXCEPT ![b] = @ + 1],
           spaces' = [spaces EXCEPT ![b][Len(spaces[b])][i] =
                        [nodes |-> Append(Current(b)[i].nodes, Len(keyOf) + 1),
                         gen |-> Current(b)[i].gen + 1]]
    PROVE  /\ \E e : OneBucketChanges(b, i, e)
           /\ count' \in [Bins -> 0 .. MaxNodes]
           /\ SpaceInv' /\ PlaceInv' /\ CountInv'
<1> DEFINE nodes == Current(b)[i].nodes
           x == Len(keyOf) + 1
           e == [nodes |-> Append(nodes, x), gen |-> Current(b)[i].gen + 1]
<1>1. /\ Len(spaces[b]) \in DOMAIN spaces[b] /\ Current(b) = spaces[b][Len(spaces[b])]
      /\ Current(b) \in SpaceSet
  BY CurrentFacts
<1>2. Current(b)[i] \in Buckets /\ nodes \in Seq(NodeIds) /\ Current(b)[i].gen \in Nat
  <2>1. PICK el : el = Current(b)[i]
    OBVIOUS
  <2>2. PICK n \in Nat \ {0} : Current(b) \in [0 .. n - 1 -> Buckets]
    BY <1>1 DEF SpaceSet
  <2>3. el \in Buckets
    BY <2>1, <2>2
  <2>4. el.nodes \in Seq(NodeIds) /\ el.gen \in Nat
    BY ONLY <2>3, TableConstants DEF Buckets
  <2>5. QED  BY <2>1, <2>3, <2>4
<1>3. /\ IsInjective(nodes)
      /\ \A n \in Range(nodes) :
            n \in Created /\ BinOf(keyOf[n]) = b /\ i = FromHash(Current(b), Hash[keyOf[n]])
      /\ Current(b)[i].gen <= Len(keyOf) + Cardinality(removed)
  <2>1. PICK g \in DOMAIN spaces[b] : Current(b) = spaces[b][g]
    BY <1>1
  <2>2. /\ IsInjective(spaces[b][g][i].nodes)
        /\ \A n \in Range(spaces[b][g][i].nodes) :
              n \in Created /\ BinOf(keyOf[n]) = b /\ i = FromHash(spaces[b][g], Hash[keyOf[n]])
        /\ spaces[b][g][i].gen <= Len(keyOf) + Cardinality(removed)
    BY ONLY <2>1, SpaceInv, b \in Bins, i \in DOMAIN Current(b) DEF SpaceInv
  <2>3. QED  BY <2>1, <2>2
<1>4. /\ x \in NodeIds /\ x \notin Created /\ Created' = Created \cup {x}
      /\ keyOf' \in Seq(Keys) /\ Len(keyOf') = x /\ x <= MaxNodes
      /\ keyOf'[x] = k /\ \A n \in Created : keyOf'[n] = keyOf[n]
      /\ \A c : Live(c)' = IF c = BinOf(k) THEN Live(c) \cup {x} ELSE Live(c)
  BY OneMoreNode
<1>5. /\ Len(keyOf) \in Nat /\ Cardinality(removed) \in Nat /\ Cardinality(removed) <= Len(keyOf)
      /\ MaxNodes \in Nat /\ removed \subseteq Created
  BY NodeSets, TableConstants DEF TypeInv
<1>6. /\ e.nodes \in Seq(NodeIds) /\ IsInjective(e.nodes) /\ Range(e.nodes) = Range(nodes) \cup {x}
      /\ e.gen = Current(b)[i].gen + 1
  BY <1>2, <1>3, <1>4, RangeAppend, InjectiveAppend
<1>7. e.gen \in 0 .. 2 * MaxNodes /\ e.gen <= x + Cardinality(removed)
  BY <1>2, <1>3, <1>4, <1>5, <1>6, SMTT(30)
<1>8. e \in Buckets
  BY <1>6, <1>7 DEF Buckets
<1>9. spaces' = [spaces EXCEPT ![b][Len(spaces[b])][i] = e]
  OBVIOUS
<1> HIDE DEF e
<1>10. OneBucketChanges(b, i, e)
  BY <1>8, <1>9, CurrentChange
<1>11. SpaceInv'
  <2> DEFINE old == Len(keyOf) + Cardinality(removed)
             new == Len(keyOf') + Cardinality(removed')
  <2>1. old \in Nat /\ new \in Nat /\ old <= new /\ e.gen <= new
    BY <1>4, <1>5, <1>7, SMTT(30)
  <2>2. \A n \in Range(e.nodes) : n \in Created' /\ BinOf(keyOf'[n]) = b
                                  /\ i = FromHash(Current(b), Hash[keyOf'[n]])
    BY <1>3, <1>4, <1>6
  <2> HIDE DEF old, new, x
  <2>3. Created \subseteq Created' /\ \A n \in Created : keyOf'[n] = keyOf[n]
    BY <1>4
  <2>4. QED  BY <1>6, <1>8, <1>10, <2>1, <2>2, <2>3, SpaceInvFollows DEF old, new
<1> HIDE DEF x
<1>12. PlaceInv'
  <2>1. ASSUME NEW c \in Bins, NEW j \in DOMAIN Current(c)
        PROVE  Range(Current(c)'[j].nodes) \cap removed' = {}
    <3>1. Range(Current(c)[j].nodes) \cap removed = {} /\ x \notin removed
      BY <1>4, <1>5 DEF PlaceInv
    <3>2. CASE c = b /\ j = i
      BY <1>6, <1>10, <3>1, <3>2 DEF OneBucketChanges
    <3>3. CASE ~(c = b /\ j = i)
      <4>1. Current(c)'[j] = Current(c)[j]
        BY <1>10, <3>3 DEF OneBucketChanges
      <4>2. QED  BY <3>1, <4>1
    <3>4. QED  BY <3>2, <3>3
  <2>2. ASSUME NEW c \in Bins, NEW n \in Live(c)
        PROVE  n \in Range(Current(c)'[FromHash(Current(c), Hash[keyOf[n]])].nodes)
    <3> DEFINE j == FromHash(Current(c), Hash[keyOf[n]])
    <3>1. n \in Range(Current(c)[j].nodes)
      BY DEF PlaceInv
    <3>2. j \in DOMAIN Current(c)
      <4>1. Hash[keyOf[n]] \in Nat
        BY NodeSets, BinFacts DEF Live
      <4>2. QED  BY <4>1, CurrentFacts, SpaceFacts
    <3> HIDE DEF j
    <3>3. CASE c = b /\ j = i
      <4>1. n \in Range(nodes)
        BY <3>1, <3>3
      <4>2. n \in Range(Current(b)'[i].nodes)
        <5>1. n \in Range(e.nodes)
          BY ONLY <1>6, <4>1
        <5>2. Current(b)'[i] = e
          BY <1>10 DEF OneBucketChanges
        <5>3. QED  BY <5>1, <5>2
      <4>3. QED  BY <3>3, <4>2 DEF j
    <3>4. CASE ~(c = b /\ j = i)
      BY <1>10, <3>1, <3>2, <3>4, SMTT(30) DEF j, OneBucketChanges
    <3>5. QED  BY <3>3, <3>4
  <2>3. x \in Range(Current(b)'[i].nodes)
    BY <1>6, <1>10 DEF OneBucketChanges
  <2>4. \A c \in Bins : \A h : FromHash(Current(c)', h) = FromHash(Current(c), h)
    BY <1>10 DEF FromHash, OneBucketChanges
  <2>5. \A c \in Bins : DOMAIN Current(c)' = DOMAIN Current(c)
    BY <1>10 DEF OneBucketChanges
  <2>6. SUFFICES ASSUME NEW c \in Bins
        PROVE  /\ \A j \in DOMAIN Current(c)' : Range(Current(c)'[j].nodes) \cap removed' = {}
               /\ \A n \in Live(c)' :
                     n \in Range(Current(c)'[FromHash(Current(c)', Hash[keyOf'[n]])].nodes)
    BY DEF PlaceInv
  <2>7. ASSUME NEW n \in Live(c)'
        PROVE  n \in Range(Current(c)'[FromHash(Current(c)', Hash[keyOf'[n]])].nodes)
    <3>1. CASE n \in Live(c)
      <4>1. keyOf'[n] = keyOf[n]
        BY <1>4, <3>1 DEF Live
      <4>2. FromHash(Current(c)', Hash[keyOf[n]]) = FromHash(Current(c), Hash[keyOf[n]])
        BY <2>4
      <4>3. QED  BY <2>2, <3>1, <4>1, <4>2
    <3>2. CASE n \notin Live(c)
      <4>1. c = b /\ n = x
        BY <1>4, <3>2
      <4>2. FromHash(Current(b)', Hash[k]) = i
        BY <2>4
      <4>3. QED  BY <1>4, <2>3, <4>1, <4>2
    <3>3. QED  BY <3>1, <3>2
  <2>8. QED  BY <2>1, <2>5, <2>7
<1>13. \A c \in Bins : count'[c] = Cardinality(Live(c)') /\ count'[c] \in 0 .. MaxNodes
  <2>1. TAKE c \in Bins
  <2>2. /\ IsFiniteSet(Live(c)) /\ Cardinality(Live(c)) \in 0 .. Len(keyOf)
        /\ count[c] = Cardinality(Live(c))
    BY NodeSets DEF CountInv
  <2>3. x \notin Live(c)
    BY <1>4 DEF Live
  <2>4. Cardinality(Live(c)') = IF c = b THEN Cardinality(Live(c)) + 1 ELSE Cardinality(Live(c))
    BY <1>4, <2>2, <2>3, FS_AddElement
  <2>5. count'[c] = IF c = b THEN count[c] + 1 ELSE count[c]
    BY DEF TypeInv
  <2>6. QED  BY <1>5, <2>2, <2>4, <2>5
<1>14. CountInv'
  BY <1>13 DEF CountInv
<1>15. count' \in [Bins -> 0 .. MaxNodes]
  <2>1. count' = [c \in Bins |-> count'[c]]
    BY DEF TypeInv
  <2>2. QED  BY <1>13, <2>1
<1>16. QED  BY <1>10, <1>11, <1>12, <1>14, <1>15

(* operator[] inserts the node that it did not find.                       *)
LEMMA AddToBucketKeepsInv ==
    ASSUME IndInv, NEW t \in Threads, AddToBucket(t)
    PROVE  IndInv'
<1> DEFINE k == op[t].key
           b == BinOf(k)
           i == FromHash(spaces[b][op[t].space], Hash[k])
<1>1. /\ op[t].pc = "add" /\ op' = [op EXCEPT ![t] = Idle]
      /\ keyOf' = Append(keyOf, k) /\ count' = [count EXCEPT ![b] = @ + 1]
      /\ ChangeBucket(t, i, Append(spaces[b][op[t].space][i].nodes, Len(keyOf) + 1))
      /\ removed' = removed /\ UNCHANGED iteration
  BY DEF AddToBucket
<1>2. TypeInv /\ SpaceInv /\ PlaceInv /\ CountInv /\ OpInv /\ RoomInv /\ LoadInv
      /\ DuplicateInv /\ IterInv
  BY DEF IndInv
<1>3. /\ k \in Keys /\ b \in Bins /\ op[t].space = Len(spaces[b])
      /\ spaces[b][op[t].space] = Current(b) /\ i \in DOMAIN Current(b)
      /\ i = FromHash(Current(b), Hash[k])
  BY <1>1, <1>2, SearchedBucket
<1>4. spaces' = [spaces EXCEPT ![b][Len(spaces[b])][i] =
                   [nodes |-> Append(Current(b)[i].nodes, Len(keyOf) + 1),
                    gen |-> Current(b)[i].gen + 1]]
  BY <1>1, <1>3 DEF ChangeBucket
<1>5. op[t].what = "get" /\ IsGetting(op[t])
  BY <1>1, <1>2 DEF OpInv, IsGetting
<1>6. (\A c : IsLoading(op[t], c) <=> c = b) /\ (\A c : IsAdding(op[t], c) <=> c = k)
  BY <1>1, <1>5 DEF IsLoading, IsAdding
<1>7. b = BinOf(k)
  OBVIOUS
<1> HIDE DEF i, b, k
<1>8. /\ op' \in [Threads -> Operations] /\ op'[t] = Idle
      /\ \A u \in Threads : u # t => op'[u] = op[u]
      /\ Cardinality(Getting) \in Nat /\ Cardinality(Getting') = Cardinality(Getting) - 1
  <2>1. /\ op' \in [Threads -> Operations] /\ op'[t] = Idle
        /\ \A u \in Threads : u # t => op'[u] = op[u]
        /\ Cardinality(Getting) \in Nat
        /\ Cardinality(Getting') =
              Cardinality(Getting) - One(IsGetting(op[t])) + One(IsGetting(Idle))
    BY <1>1, <1>2, IdleFacts, ThreadMoves
  <2>2. One(IsGetting(op[t])) = 1 /\ One(IsGetting(Idle)) = 0
    BY <1>5, IdleFacts DEF One
  <2>3. QED  BY <2>1, <2>2
<1>9. \A c : /\ Cardinality(Loading(c)) \in Nat
             /\ Cardinality(Loading(c)') =
                   Cardinality(Loading(c)) - One(IsLoading(op[t], c)) + One(IsLoading(Idle, c))
  BY <1>1, <1>2, IdleFacts, ThreadMoves
<1>10. \A c : /\ Cardinality(Adding(c)) \in Nat
              /\ Cardinality(Adding(c)') =
                   Cardinality(Adding(c)) - One(IsAdding(op[t], c)) + One(IsAdding(Idle, c))
  BY <1>1, <1>2, IdleFacts, ThreadMoves
<1>11. \A c : Cardinality(Loading(c)') = IF c = b THEN Cardinality(Loading(c)) - 1
                                                  ELSE Cardinality(Loading(c))
  BY <1>6, <1>9, IdleFacts DEF One
<1>12. \A c : Cardinality(Adding(c)') = IF c = k THEN Cardinality(Adding(c)) - 1
                                                 ELSE Cardinality(Adding(c))
  BY <1>6, <1>10, IdleFacts DEF One
<1>13. /\ Len(keyOf) \in Nat /\ MaxNodes \in Nat /\ Cardinality(Threads) \in Nat
       /\ \A c : IsFiniteSet(NodesWith(c)) /\ Cardinality(NodesWith(c)) \in Nat
  BY <1>2, NodeSets, ThreadSets, TableConstants
<1>14. Len(keyOf) < MaxNodes
  <2>1. Len(keyOf) + Cardinality(Getting) <= MaxNodes /\ Cardinality(Getting) >= 1
    <3>1. Cardinality(Getting') \in Nat
      <4>1. op' \in [Threads -> Operations]
        BY <1>8
      <4>2. IsFiniteSet(Getting')
        BY ThreadSets DEF Getting
      <4>3. QED  BY <4>2, FS_CardinalityType
    <3>2. Len(keyOf) + Cardinality(Getting) <= MaxNodes
      BY <1>2 DEF RoomInv
    <3>3. QED  BY <1>8, <3>1, <3>2
  <2>2. QED  BY <1>8, <1>13, <2>1
<1>15. /\ \E e : OneBucketChanges(b, i, e)
       /\ count' \in [Bins -> 0 .. MaxNodes]
       /\ SpaceInv' /\ PlaceInv' /\ CountInv'
  BY <1>1, <1>2, <1>3, <1>4, <1>7, <1>14, AddNode
<1>16. /\ spaces' \in [Bins -> Seq(SpaceSet)]
       /\ \A c \in Bins :
             /\ spaces'[c] # <<>> /\ Len(spaces'[c]) = Len(spaces[c])
             /\ MaxCount(c)' = MaxCount(c)
             /\ \A g \in DOMAIN spaces[c] :
                   g \in DOMAIN spaces'[c] /\ Size(spaces'[c][g]) = Size(spaces[c][g])
  BY <1>15 DEF OneBucketChanges
<1> DEFINE x == Len(keyOf) + 1
<1>17. /\ x \in NodeIds /\ x \notin Created /\ Created' = Created \cup {x}
       /\ keyOf' \in Seq(Keys) /\ Len(keyOf') = x /\ x <= MaxNodes
       /\ \A c : NodesWith(c)' = IF c = k THEN NodesWith(c) \cup {x} ELSE NodesWith(c)
  BY <1>1, <1>2, <1>3, <1>14, OneMoreNode
<1>18. TypeInv'
  <2>1. UNCHANGED <<it, visits, promised>>
    BY <1>1 DEF iteration
  <2> HIDE DEF x
  <2>2. removed' \subseteq Created'
    BY <1>1, <1>2, <1>17 DEF TypeInv
  <2>3. Len(keyOf') <= MaxNodes
    BY <1>17
  <2>4. QED  BY <1>2, <1>8, <1>15, <1>16, <1>17, <2>1, <2>2, <2>3 DEF TypeInv
<1>19. OpInv'
  <2>1. SUFFICES ASSUME NEW u \in Threads
                 PROVE  /\ op'[u].pc \in {"search", "add"} =>
                               op'[u].space = Len(spaces'[BinOf(op'[u].key)])
                        /\ op'[u].pc \in {"full", "drain", "add"} => op'[u].what = "get"
    BY DEF OpInv, BinOf
  <2>2. CASE u = t
    BY <1>8, <2>2, IdleFacts
  <2>3. CASE u # t
    <3>1. op'[u] = op[u] /\ op[u].key \in Keys
      BY <1>2, <1>8, <2>3 DEF TypeInv, Operations
    <3>2. BinOf(op[u].key) \in Bins
      BY <3>1, BinFacts
    <3>3. Len(spaces'[BinOf(op[u].key)]) = Len(spaces[BinOf(op[u].key)])
      BY <1>16, <3>2
    <3>4. QED  BY <1>2, <3>1, <3>3 DEF OpInv
  <2>4. QED  BY <2>2, <2>3
<1>20. RoomInv'
  <2>1. Len(keyOf) + Cardinality(Getting) <= MaxNodes
    BY <1>2 DEF RoomInv
  <2>2. /\ Len(keyOf) \in Nat /\ MaxNodes \in Nat /\ Cardinality(Getting) \in Nat
        /\ Cardinality(Getting') = Cardinality(Getting) - 1 /\ Len(keyOf') = Len(keyOf) + 1
    BY <1>8, <1>13, <1>17
  <2>3. Len(keyOf') + Cardinality(Getting') <= MaxNodes
    BY ONLY <2>1, <2>2
  <2>4. QED  BY <2>3 DEF RoomInv
<1>21. LoadInv'
  <2>1. SUFFICES ASSUME NEW c \in Bins
        PROVE  count'[c] + Cardinality(Loading(c)') < MaxCount(c) + Cardinality(Threads)
    BY <1>16 DEF LoadInv
  <2>2. /\ count[c] \in Nat /\ MaxCount(c) \in Nat
        /\ count[c] + Cardinality(Loading(c)) < MaxCount(c) + Cardinality(Threads)
    BY <1>2, CurrentFacts DEF LoadInv, TypeInv
  <2>3. count'[c] = IF c = b THEN count[c] + 1 ELSE count[c]
    BY <1>1, <1>2 DEF TypeInv
  <2>4. QED  BY <1>9, <1>11, <1>13, <2>2, <2>3
<1>22. DuplicateInv'
  <2>1. SUFFICES ASSUME NEW c \in Keys
        PROVE  Cardinality(NodesWith(c)') + Cardinality(Adding(c)') <= Cardinality(Threads)
    BY DEF DuplicateInv
  <2>2. Cardinality(NodesWith(c)) + Cardinality(Adding(c)) <= Cardinality(Threads)
    BY <1>2 DEF DuplicateInv
  <2>3. x \notin NodesWith(c)
    BY <1>17 DEF NodesWith
  <2> HIDE DEF x
  <2>4. Cardinality(NodesWith(c)') = IF c = k THEN Cardinality(NodesWith(c)) + 1
                                              ELSE Cardinality(NodesWith(c))
    BY <1>13, <1>17, <2>3, FS_AddElement
  <2>5. QED  BY <1>10, <1>12, <1>13, <2>2, <2>4
<1>23. IterInv'
  <2>1. it' = it
    BY <1>1 DEF iteration
  <2>2. Created \subseteq Created'
    BY <1>17
  <2>3. QED  BY <1>2, <1>16, <2>1, <2>2, ShapeKept
<1>24. QED  BY <1>15, <1>18, <1>19, <1>20, <1>21, <1>22, <1>23 DEF IndInv

(* A larger space for a bin.                                               *)
LEMMA NewSpace ==
    ASSUME TypeInv, SpaceInv, PlaceInv, NEW b \in Bins, keyOf' = keyOf, removed' = removed,
           spaces' = [spaces EXCEPT ![b] =
                        Append(spaces[b], Rehash(Current(b), 2 * Size(Current(b))))]
    PROVE  /\ spaces' \in [Bins -> Seq(SpaceSet)]
           /\ \A c \in Bins :
                 /\ spaces'[c] # <<>>
                 /\ \A g \in DOMAIN spaces[c] :
                       g \in DOMAIN spaces'[c] /\ spaces'[c][g] = spaces[c][g]
                 /\ c # b => /\ spaces'[c] = spaces[c] /\ MaxCount(c)' = MaxCount(c)
           /\ MaxCount(b)' = 2 * MaxCount(b)
           /\ SpaceInv' /\ PlaceInv'
<1> DEFINE n == 2 * Size(Current(b))
           new == Rehash(Current(b), n)
           m == Len(spaces[b])
<1>1. Current(b) \in SpaceSet /\ Size(Current(b)) \in Nat \ {0} /\ m \in Nat
  BY CurrentFacts, SpaceFacts
<1>2. n \in Nat \ {0}
  BY <1>1
<1>3. /\ NodesOf(Current(b)) = Live(b)
      /\ \A i \in DOMAIN Current(b) : IsInjective(Current(b)[i].nodes)
      /\ \A i, j \in DOMAIN Current(b) :
            i # j => Range(Current(b)[i].nodes) \cap Range(Current(b)[j].nodes) = {}
  BY PlaceFacts
<1> HIDE DEF n
<1>4. /\ new \in SpaceSet /\ DOMAIN new = 0 .. n - 1 /\ Size(new) = n
      /\ \A i \in 0 .. n - 1 :
            /\ new[i].gen = 0 /\ IsInjective(new[i].nodes)
            /\ Range(new[i].nodes) = {x \in Live(b) : FromHash(new, Hash[keyOf[x]]) = i}
  <2> DEFINE space == Current(b)
  <2>1. space \in SpaceSet
    BY <1>1
  <2>2. /\ \A i \in DOMAIN space : IsInjective(space[i].nodes)
        /\ \A i, j \in DOMAIN space : i # j => Range(space[i].nodes) \cap Range(space[j].nodes) = {}
    BY <1>3
  <2>3. NodesOf(space) = Live(b) /\ new = Rehash(space, n)
    BY <1>3
  <2> HIDE DEF space, new
  <2>4. /\ Rehash(space, n) \in SpaceSet
        /\ DOMAIN Rehash(space, n) = 0 .. n - 1 /\ Size(Rehash(space, n)) = n
        /\ \A i \in 0 .. n - 1 :
              /\ Rehash(space, n)[i].gen = 0 /\ IsInjective(Rehash(space, n)[i].nodes)
              /\ Range(Rehash(space, n)[i].nodes) =
                    {x \in NodesOf(space) : FromHash(Rehash(space, n), Hash[keyOf[x]]) = i}
    BY <1>2, <2>1, <2>2, RehashFacts
  <2>5. QED  BY <2>3, <2>4
<1>5. spaces' = [spaces EXCEPT ![b] = Append(spaces[b], new)]
  BY DEF n
<1> HIDE DEF new
<1>6. /\ Append(spaces[b], new) \in Seq(SpaceSet) /\ Len(Append(spaces[b], new)) = m + 1
      /\ DOMAIN Append(spaces[b], new) = (DOMAIN spaces[b]) \cup {m + 1}
      /\ Append(spaces[b], new)[m + 1] = new
      /\ \A g \in DOMAIN spaces[b] : Append(spaces[b], new)[g] = spaces[b][g]
  <2> DEFINE list == spaces[b]
  <2>1. list \in Seq(SpaceSet) /\ m = Len(list)
    BY DEF TypeInv
  <2> HIDE DEF list, m
  <2>2. /\ Append(list, new) \in Seq(SpaceSet) /\ Len(Append(list, new)) = m + 1
        /\ DOMAIN Append(list, new) = 1 .. m + 1 /\ DOMAIN list = 1 .. m
        /\ Append(list, new)[m + 1] = new
        /\ \A g \in DOMAIN list : Append(list, new)[g] = list[g]
    BY <1>4, <2>1
  <2>3. 1 .. m + 1 = (1 .. m) \cup {m + 1}
    BY <1>1
  <2>4. QED  BY <2>2, <2>3 DEF list
<1> DEFINE list == Append(spaces[b], new)
<1> HIDE DEF list
<1>7. /\ spaces' \in [Bins -> Seq(SpaceSet)] /\ spaces'[b] = list
      /\ \A c \in Bins : c # b => spaces'[c] = spaces[c]
  BY <1>5, <1>6 DEF TypeInv, list
<1>8. \A c \in Bins : \A g \in DOMAIN spaces[c] :
         g \in DOMAIN spaces'[c] /\ spaces'[c][g] = spaces[c][g]
  BY <1>6, <1>7 DEF list
<1>9. \A c \in Bins : spaces'[c] # <<>>
  <2>1. TAKE c \in Bins
  <2>2. Len(spaces[c]) \in DOMAIN spaces[c]
    BY CurrentFacts
  <2>3. QED  BY <1>8, <2>2
<1>10. Current(b)' = new /\ \A c \in Bins : c # b => Current(c)' = Current(c)
  <2>1. Len(list) = m + 1 /\ list[m + 1] = new
    BY <1>6 DEF list
  <2>2. Current(b)' = list[Len(list)]
    BY <1>7 DEF Current, Last
  <2>3. \A c \in Bins : c # b => Current(c)' = Current(c)
    BY <1>7 DEF Current
  <2>4. QED  BY <2>1, <2>2, <2>3
<1>11. MaxCount(b)' = 2 * MaxCount(b)
  <2>1. MaxCount(b)' = Size(new) * LoadRatio
    BY <1>10 DEF MaxCount, Size
  <2>2. MaxCount(b) = Size(Current(b)) * LoadRatio
    BY DEF MaxCount
  <2> DEFINE s == Size(Current(b))
  <2>3. s \in Nat /\ n = 2 * s /\ LoadRatio \in Nat
    BY <1>1, TableConstants DEF n
  <2> HIDE DEF s
  <2>4. n * LoadRatio = 2 * (s * LoadRatio)
    BY <2>3
  <2>5. QED  BY <1>4, <2>1, <2>2, <2>4 DEF s
<1>12. \A c \in Bins : c # b => MaxCount(c)' = MaxCount(c)
  BY <1>10 DEF MaxCount, Size
<1>13. /\ Created' = Created /\ \A c : Live(c)' = Live(c)
       /\ Len(keyOf) \in Nat /\ Cardinality(removed) \in Nat
  BY NodeSets DEF Created, Live
<1>14. ASSUME NEW c \in Bins, NEW g \in DOMAIN spaces'[c], NEW j \in DOMAIN spaces'[c][g]
       PROVE  /\ IsInjective(spaces'[c][g][j].nodes)
              /\ \A x \in Range(spaces'[c][g][j].nodes) :
                    x \in Created /\ BinOf(keyOf[x]) = c
                    /\ j = FromHash(spaces'[c][g], Hash[keyOf[x]])
              /\ spaces'[c][g][j].gen <= Len(keyOf) + Cardinality(removed)
  <2>1. CASE c = b /\ g = m + 1
    <3>1. spaces'[c][g] = new
      BY <1>6, <1>7, <2>1 DEF list
    <3>2. j \in 0 .. n - 1
      BY <1>4, <3>1
    <3>3. \A x \in Live(b) : x \in Created /\ BinOf(keyOf[x]) = b
      BY DEF Live
    <3>4. QED  BY <1>4, <1>13, <2>1, <3>1, <3>2, <3>3
  <2>2. CASE ~(c = b /\ g = m + 1)
    <3>1. g \in DOMAIN spaces[c] /\ spaces'[c][g] = spaces[c][g]
      BY <1>6, <1>7, <1>8, <2>2 DEF list
    <3>2. QED  BY <3>1 DEF SpaceInv
  <2>3. QED  BY <2>1, <2>2
<1>15. SpaceInv'
  BY <1>13, <1>14 DEF SpaceInv
<1>16. PlaceInv'
  <2>1. ASSUME NEW c \in Bins
        PROVE  /\ \A i \in DOMAIN Current(c)' : Range(Current(c)'[i].nodes) \cap removed = {}
               /\ \A x \in Live(c) :
                     x \in Range(Current(c)'[FromHash(Current(c)', Hash[keyOf[x]])].nodes)
    <3>1. CASE c = b
      <4>1. \A x \in Live(b) : x \notin removed
        BY DEF Live
      <4>2. \A x \in Live(b) : FromHash(new, Hash[keyOf[x]]) \in 0 .. n - 1
        <5>1. TAKE x \in Live(b)
        <5>2. Hash[keyOf[x]] \in Nat
          BY NodeSets, BinFacts DEF Live
        <5>3. QED  BY <1>4, <5>2, SpaceFacts
      <4>3. QED  BY <1>4, <1>10, <3>1, <4>1, <4>2
    <3>2. CASE c # b
      <4>1. Current(c)' = Current(c)
        BY <1>10, <3>2
      <4>2. QED  BY <4>1 DEF PlaceInv
    <3>3. QED  BY <3>1, <3>2
  <2>2. QED  BY <1>13, <2>1 DEF PlaceInv
<1>17. QED  BY <1>7, <1>8, <1>9, <1>11, <1>12, <1>15, <1>16

(* resize() under the write guard, when the bin's readers have left.       *)
LEMMA ResizeKeepsInv ==
    ASSUME IndInv, NEW t \in Threads, Resize(t)
    PROVE  IndInv'
<1>0. PICK b \in Bins : b = BinOf(op[t].key)
  <2>1. op[t].key \in Keys
    BY DEF IndInv, TypeInv, Operations
  <2>2. QED  BY <2>1, BinFacts
<1>1. /\ op[t].pc = "drain" /\ BinReaders(b) = {} /\ Goto(t, "enter")
      /\ spaces' = IF Full(b)
                   THEN [spaces EXCEPT ![b] =
                           Append(spaces[b], Rehash(Last(spaces[b]), 2 * Size(Last(spaces[b]))))]
                   ELSE spaces
      /\ UNCHANGED <<count, keyOf, removed, iteration>>
  BY <1>0 DEF Resize
<1>2. TypeInv /\ SpaceInv /\ PlaceInv /\ CountInv /\ OpInv /\ RoomInv /\ LoadInv
      /\ DuplicateInv /\ IterInv
  BY DEF IndInv
<1>3. PICK o \in Operations : /\ op' = [op EXCEPT ![t] = o]
                              /\ o.pc = "enter" /\ o.what = op[t].what /\ o.key = op[t].key
                              /\ o.space = op[t].space
  BY <1>1, <1>2, GotoFacts
<1>4. op[t].key \in Keys /\ b \in Bins /\ op[t].what = "get"
  <2>1. op[t].key \in Keys
    BY <1>2 DEF TypeInv, Operations
  <2>2. QED  BY <1>1, <1>2, <2>1 DEF OpInv
<1>5. IsGetting(op[t]) /\ IsGetting(o)
  BY <1>1, <1>3, <1>4 DEF IsGetting
<1>6. \A c \in Bins : ~IsLoading(op[t], c) /\ (IsLoading(o, c) <=> c = b)
  BY <1>0, <1>1, <1>3, <1>4 DEF IsLoading
<1>7. \A c : ~IsAdding(o, c) /\ ~IsAdding(op[t], c)
  BY <1>1, <1>3 DEF IsAdding
<1>9. CASE ~Full(b)
  <2>1. UNCHANGED <<table, iteration>>
    BY <1>1, <1>9 DEF table
  <2>2. \A c \in Bins : IsLoading(o, c) => ~Full(c)
    BY <1>6, <1>9
  <2>3. QED  BY <1>3, <1>5, <1>7, <2>1, <2>2, CountsFollow
<1>10. CASE Full(b)
  <2>1. spaces' = [spaces EXCEPT ![b] =
                     Append(spaces[b], Rehash(Current(b), 2 * Size(Current(b))))]
    BY <1>1, <1>10 DEF Current
  <2>0. keyOf' = keyOf /\ removed' = removed
    BY <1>1
  <2>2. /\ spaces' \in [Bins -> Seq(SpaceSet)]
        /\ \A c \in Bins :
              /\ spaces'[c] # <<>>
              /\ \A g \in DOMAIN spaces[c] :
                    g \in DOMAIN spaces'[c] /\ spaces'[c][g] = spaces[c][g]
              /\ c # b => /\ spaces'[c] = spaces[c] /\ MaxCount(c)' = MaxCount(c)
        /\ MaxCount(b)' = 2 * MaxCount(b)
        /\ SpaceInv' /\ PlaceInv'
    BY <1>2, <2>0, <2>1, NewSpace
  <2>3. /\ op' \in [Threads -> Operations] /\ op'[t] = o
        /\ \A u \in Threads : u # t => op'[u] = op[u]
        /\ Cardinality(Getting) \in Nat
        /\ Cardinality(Getting') =
              Cardinality(Getting) - One(IsGetting(op[t])) + One(IsGetting(o))
    BY <1>2, <1>3, ThreadMoves
  <2>4. \A c : /\ Cardinality(Loading(c)) \in Nat
               /\ Cardinality(Loading(c)') =
                     Cardinality(Loading(c)) - One(IsLoading(op[t], c)) + One(IsLoading(o, c))
    BY <1>2, <1>3, ThreadMoves
  <2>5. \A c : /\ Cardinality(Adding(c)) \in Nat
               /\ Cardinality(Adding(c)') =
                     Cardinality(Adding(c)) - One(IsAdding(op[t], c)) + One(IsAdding(o, c))
    BY <1>2, <1>3, ThreadMoves
  <2>6. Cardinality(Getting') = Cardinality(Getting)
    BY <1>5, <2>3 DEF One
  <2>7. \A c \in Bins : Cardinality(Loading(c)') = IF c = b THEN Cardinality(Loading(c)) + 1
                                                            ELSE Cardinality(Loading(c))
    BY <1>6, <2>4 DEF One
  <2>8. \A c : Cardinality(Adding(c)') = Cardinality(Adding(c))
    BY <1>7, <2>5 DEF One
  <2>9. UNCHANGED <<count, keyOf, removed, it, visits, promised>>
    BY <1>1 DEF iteration
  <2>10. /\ Created' = Created /\ (\A c : Live(c)' = Live(c))
         /\ \A c : NodesWith(c)' = NodesWith(c)
    BY <2>9 DEF Created, Live, NodesWith
  <2>11. TypeInv'
    BY <1>2, <2>2, <2>3, <2>9, <2>10 DEF TypeInv
  <2>12. CountInv'
    BY <1>2, <2>9, <2>10 DEF CountInv
  <2>13. OpInv'
    <3>1. SUFFICES ASSUME NEW u \in Threads
                   PROVE  /\ op'[u].pc \in {"search", "add"} =>
                                 op'[u].space = Len(spaces'[BinOf(op'[u].key)])
                          /\ op'[u].pc \in {"full", "drain", "add"} => op'[u].what = "get"
      BY DEF OpInv, BinOf
    <3>2. CASE u = t
      BY <1>3, <2>3, <3>2
    <3>3. CASE u # t
      <4>1. op'[u] = op[u] /\ op[u].key \in Keys
        BY <1>2, <2>3, <3>3 DEF TypeInv, Operations
      <4>2. BinOf(op[u].key) \in Bins
        BY <4>1, BinFacts
      <4>3. op[u].pc \in {"search", "add"} => BinOf(op[u].key) # b
        BY <1>1 DEF BinReaders
      <4>4. op[u].pc \in {"search", "add"} =>
               spaces'[BinOf(op[u].key)] = spaces[BinOf(op[u].key)]
        BY <2>2, <4>2, <4>3
      <4>5. QED  BY <1>2, <4>1, <4>4 DEF OpInv
    <3>4. QED  BY <3>2, <3>3
  <2>14. RoomInv'
    BY <1>2, <2>6, <2>9 DEF RoomInv
  <2>15. LoadInv'
    <3>1. SUFFICES ASSUME NEW c \in Bins
          PROVE  count[c] + Cardinality(Loading(c)') < MaxCount(c)' + Cardinality(Threads)
      BY <2>9 DEF LoadInv
    <3>2. /\ count[c] \in Nat /\ MaxCount(c) \in Nat \ {0} /\ Cardinality(Threads) \in Nat
          /\ count[c] + Cardinality(Loading(c)) < MaxCount(c) + Cardinality(Threads)
      BY <1>2, CurrentFacts, ThreadSets DEF LoadInv, TypeInv
    <3>3. CASE c = b
      <4>1. MaxCount(c)' = 2 * MaxCount(c) /\ Cardinality(Loading(c)') = Cardinality(Loading(c)) + 1
        BY <2>2, <2>7, <3>3
      <4>2. QED  BY <2>4, <3>2, <4>1
    <3>4. CASE c # b
      <4>1. MaxCount(c)' = MaxCount(c) /\ Cardinality(Loading(c)') = Cardinality(Loading(c))
        BY <2>2, <2>7, <3>4
      <4>2. QED  BY <3>2, <4>1
    <3>5. QED  BY <3>3, <3>4
  <2>16. DuplicateInv'
    BY <1>2, <2>8, <2>10 DEF DuplicateInv
  <2>17. IterInv'
    <3>1. \A c \in Bins : \A g \in DOMAIN spaces[c] :
             g \in DOMAIN spaces'[c] /\ Size(spaces'[c][g]) = Size(spaces[c][g])
      BY <2>2
    <3>2. Created \subseteq Created'
      BY <2>10
    <3>3. QED  BY <1>2, <2>9, <3>1, <3>2, ShapeKept
  <2>18. QED  BY <2>2, <2>11, <2>12, <2>13, <2>14, <2>15, <2>16, <2>17 DEF IndInv
<1>11. QED  BY <1>9, <1>10

-----------------------------------------------------------------------------
(* The steps of an iterator.                                               *)

(* Where an iterator may stand.                                            *)
GoodPosition(p) ==
    /\ p.pc \in {"bucket", "at"} => /\ p.bin \in Bins /\ p.space \in DOMAIN spaces[p.bin]
                                    /\ p.bucket <= Size(spaces[p.bin][p.space])
    /\ p.pc = "at" => /\ p.bucket < Size(spaces[p.bin][p.space])
                      /\ p.index > 0 /\ p.node \in Created

(* An iterator moves: nothing else changes.                                *)
LEMMA IteratorMoves ==
    ASSUME IndInv, NEW r \in Iterators, NEW p \in Positions, GoodPosition(p),
           it' = [it EXCEPT ![r] = p], UNCHANGED <<table, op>>,
           visits' \in [Iterators -> [NodeIds -> 0 .. 2]],
           promised' \in [Iterators -> SUBSET (NodeIds \cup {0})]
    PROVE  IndInv'
<1>1. UNCHANGED <<spaces, count, keyOf, removed, op>>
  BY DEF table
<1>2. Created' = Created
  BY <1>1 DEF Created
<1>3. /\ it' \in [Iterators -> Positions] /\ it'[r] = p
      /\ \A q \in Iterators : q # r => it'[q] = it[q]
  BY DEF IndInv, TypeInv
<1>4. TypeInv'
  BY <1>1, <1>2, <1>3 DEF IndInv, TypeInv
<1>5. \A b : Live(b)' = Live(b) /\ Current(b)' = Current(b) /\ MaxCount(b)' = MaxCount(b)
  BY <1>1, <1>2 DEF Live, Current, MaxCount
<1>6. Getting' = Getting /\ (\A b : Loading(b)' = Loading(b)) /\ (\A k : Adding(k)' = Adding(k))
  BY <1>1 DEF Getting, Loading, Adding
<1>7. \A k : NodesWith(k)' = NodesWith(k)
  BY <1>1, <1>2 DEF NodesWith
<1>8. SpaceInv'
  BY <1>1, <1>2 DEF IndInv, SpaceInv
<1>9. PlaceInv'
  BY <1>1, <1>5 DEF IndInv, PlaceInv
<1>10. CountInv' /\ OpInv' /\ RoomInv'
  BY <1>1, <1>5, <1>6 DEF IndInv, CountInv, OpInv, RoomInv
<1>11. LoadInv'
  BY <1>1, <1>5, <1>6 DEF IndInv, LoadInv
<1>12. DuplicateInv'
  BY <1>6, <1>7 DEF IndInv, DuplicateInv
<1>13. IterInv'
  <2>1. \A q \in Iterators : GoodPosition(it[q])
    BY DEF IndInv, IterInv, GoodPosition
  <2>2. \A q \in Iterators : GoodPosition(it'[q])
    BY <1>3, <2>1
  <2> HIDE DEF GoodPosition
  <2>3. IterInv' <=> \A q \in Iterators : GoodPosition(it'[q])
    BY <1>1, <1>2 DEF IterInv, GoodPosition
  <2>4. QED  BY <2>2, <2>3
<1>14. QED  BY <1>4, <1>8, <1>9, <1>10, <1>11, <1>12, <1>13 DEF IndInv

(* The bucket of a position.                                               *)
LEMMA BucketFacts ==
    ASSUME TypeInv, SpaceInv, NEW p \in Positions, p.bin \in Bins,
           p.space \in DOMAIN spaces[p.bin], p.bucket < Size(spaces[p.bin][p.space])
    PROVE  /\ spaces[p.bin][p.space] \in SpaceSet
           /\ p.bucket \in DOMAIN spaces[p.bin][p.space]
           /\ BucketAt(p) = spaces[p.bin][p.space][p.bucket] /\ BucketAt(p) \in Buckets
           /\ BucketAt(p).nodes \in Seq(NodeIds) /\ BucketAt(p).gen \in Nat
           /\ IsInjective(BucketAt(p).nodes)
           /\ \A i \in DOMAIN BucketAt(p).nodes :
                 /\ BucketAt(p).nodes[i] \in Created
                 /\ BinOf(keyOf[BucketAt(p).nodes[i]]) = p.bin
                 /\ p.bucket = FromHash(spaces[p.bin][p.space], Hash[keyOf[BucketAt(p).nodes[i]]])
<1> DEFINE space == spaces[p.bin][p.space]
<1>1. space \in SpaceSet
  BY CurrentFacts
<1>2. p.bucket \in DOMAIN space
  <2>1. p.bucket \in Nat /\ Size(space) \in Nat /\ DOMAIN space = 0 .. Size(space) - 1
    BY <1>1, SpaceFacts DEF Positions
  <2>2. QED  BY <2>1
<1>3. BucketAt(p) = space[p.bucket]
  BY DEF BucketAt
<1>4. BucketAt(p) \in Buckets
  BY <1>1, <1>2, <1>3 DEF SpaceSet
<1>5. BucketAt(p).nodes \in Seq(NodeIds) /\ BucketAt(p).gen \in Nat
  BY <1>4 DEF Buckets
<1>6. /\ IsInjective(space[p.bucket].nodes)
      /\ \A n \in Range(space[p.bucket].nodes) :
            /\ n \in Created /\ BinOf(keyOf[n]) = p.bin
            /\ p.bucket = FromHash(space, Hash[keyOf[n]])
  BY <1>2 DEF SpaceInv
<1> HIDE DEF space
<1>7. \A i \in DOMAIN BucketAt(p).nodes : BucketAt(p).nodes[i] \in Range(space[p.bucket].nodes)
  BY <1>3 DEF Range
<1>8. QED  BY <1>1, <1>2, <1>3, <1>4, <1>5, <1>6, <1>7 DEF space

(* On a node, or on to the next bucket.                                    *)
LEMMA MoveToKeepsInv ==
    ASSUME IndInv, NEW r \in Iterators, NEW p \in Positions, MoveTo(r, p),
           p.pc \in {"bucket", "at"}, p.bin \in Bins, p.space \in DOMAIN spaces[p.bin],
           p.bucket < Size(spaces[p.bin][p.space]), UNCHANGED <<table, op, promised>>
    PROVE  IndInv'
<1> DEFINE nodes == BucketAt(p).nodes
<1>1. TypeInv /\ SpaceInv
  BY DEF IndInv
<1>2. /\ nodes \in Seq(NodeIds) /\ \A i \in DOMAIN nodes : nodes[i] \in Created
      /\ spaces[p.bin][p.space] \in SpaceSet
  BY <1>1, BucketFacts
<1>3. UNCHANGED <<table, op>> /\ promised' \in [Iterators -> SUBSET (NodeIds \cup {0})]
  BY <1>1 DEF TypeInv
<1>4. MoveTo(r, p)
  OBVIOUS
<1>5. CASE p.index \in DOMAIN nodes
  <2> DEFINE q == [p EXCEPT !.pc = "at", !.node = nodes[p.index]]
  <2>1. it' = [it EXCEPT ![r] = q]
    BY <1>4, <1>5 DEF MoveTo
  <2>2. visits' = [visits EXCEPT ![r][nodes[p.index]] = IF @ = 2 THEN 2 ELSE @ + 1]
    BY <1>4, <1>5 DEF MoveTo
  <2>3. nodes[p.index] \in Created /\ nodes[p.index] \in NodeIds /\ nodes[p.index] \in Nat
        /\ p.index > 0
    <3> DEFINE list == nodes
               j == p.index
    <3>1. list \in Seq(NodeIds) /\ j \in DOMAIN list /\ list[j] \in Created
      BY <1>2, <1>5
    <3> HIDE DEF list, j
    <3>2. list[j] \in NodeIds /\ j > 0
      BY <3>1
    <3>3. list[j] \in Nat
      BY <3>2 DEF NodeIds
    <3>4. QED  BY <3>1, <3>2, <3>3 DEF list, j
  <2>4. visits' \in [Iterators -> [NodeIds -> 0 .. 2]]
    <3> DEFINE n == nodes[p.index]
    <3>1. n \in NodeIds /\ visits' = [visits EXCEPT ![r][n] = IF @ = 2 THEN 2 ELSE @ + 1]
      BY <2>2, <2>3
    <3> HIDE DEF n
    <3>2. visits \in [Iterators -> [NodeIds -> 0 .. 2]]
      BY <1>1 DEF TypeInv
    <3>3. QED  BY <3>1, <3>2
  <2>5. /\ q \in Positions /\ q.pc = "at" /\ q.bin = p.bin /\ q.space = p.space
        /\ q.bucket = p.bucket /\ q.index = p.index /\ q.node = nodes[p.index]
    BY <2>3 DEF Positions
  <2> HIDE DEF q
  <2>6. Size(spaces[p.bin][p.space]) \in Nat /\ p.bucket \in Nat
    BY <1>2, SpaceFacts DEF Positions
  <2>7. GoodPosition(q)
    BY <2>3, <2>5, <2>6 DEF GoodPosition
  <2>8. QED  BY <1>3, <2>1, <2>4, <2>5, <2>7, IteratorMoves
<1>6. CASE p.index \notin DOMAIN nodes
  <2> DEFINE q == [p EXCEPT !.pc = "bucket", !.node = 0, !.bucket = @ + 1]
  <2>1. it' = [it EXCEPT ![r] = q] /\ visits' = visits
    BY <1>4, <1>6 DEF MoveTo
  <2>2. /\ q \in Positions /\ q.pc = "bucket" /\ q.bin = p.bin /\ q.space = p.space
        /\ q.bucket = p.bucket + 1
    <3>1. p.bucket + 1 \in Nat
      BY DEF Positions
    <3>2. /\ q.pc = "bucket" /\ q.bin = p.bin /\ q.space = p.space
          /\ q.bucket = p.bucket + 1 /\ q.node = 0
      BY DEF Positions
    <3>3. q \in Positions
      BY <3>1 DEF Positions
    <3>4. QED  BY <3>2, <3>3
  <2> HIDE DEF q
  <2>3. Size(spaces[p.bin][p.space]) \in Nat /\ p.bucket \in Nat
    BY <1>2, SpaceFacts DEF Positions
  <2>4. GoodPosition(q)
    BY <2>2, <2>3 DEF GoodPosition
  <2>5. visits' \in [Iterators -> [NodeIds -> 0 .. 2]]
    BY <1>1, <2>1 DEF TypeInv
  <2>6. QED  BY <1>3, <2>1, <2>2, <2>4, <2>5, IteratorMoves
<1>7. QED  BY <1>5, <1>6

(* What SkipLower finds.                                                   *)
LEMMA SkipLowerFacts ==
    ASSUME NEW nodes \in Seq(NodeIds), NEW h
    PROVE  \/ /\ SkipLower(nodes, h) \in DOMAIN nodes
              /\ Hash[keyOf[nodes[SkipLower(nodes, h)]]] >= h
              /\ \A j \in DOMAIN nodes :
                    Hash[keyOf[nodes[j]]] >= h => SkipLower(nodes, h) <= j
           \/ /\ SkipLower(nodes, h) = Len(nodes) + 1
              /\ \A j \in DOMAIN nodes : ~(Hash[keyOf[nodes[j]]] >= h)
<1> DEFINE found == {i \in DOMAIN nodes : Hash[keyOf[nodes[i]]] >= h}
<1>1. SkipLower(nodes, h) =
         IF found = {} THEN Len(nodes) + 1 ELSE CHOOSE i \in found : \A j \in found : i <= j
  BY DEF SkipLower
<1>2. CASE found = {}
  BY <1>1, <1>2
<1>3. CASE found # {}
  <2>1. found \in SUBSET Nat
    OBVIOUS
  <2>2. \A i : i \in found <=> i \in DOMAIN nodes /\ Hash[keyOf[nodes[i]]] >= h
    OBVIOUS
  <2> HIDE DEF found
  <2>3. \E i \in found : \A j \in found : i <= j
    BY <1>3, <2>1, LeastElement
  <2>4. /\ SkipLower(nodes, h) \in found
        /\ \A j \in found : SkipLower(nodes, h) <= j
    BY <1>1, <1>3, <2>3
  <2>5. QED  BY <2>2, <2>4
<1>4. QED  BY <1>2, <1>3

(* The next position is a natural number.                                  *)
LEMMA NextIndexFacts ==
    ASSUME IndInv, NEW r \in Iterators, it[r].pc = "at"
    PROVE  NextIndex(r) \in Nat
<1>1. it[r] \in Positions /\ it[r].index \in Nat
  BY DEF IndInv, TypeInv, Positions
<1>2. BucketAt(it[r]).nodes \in Seq(NodeIds)
  <2>1. /\ it[r].bin \in Bins /\ it[r].space \in DOMAIN spaces[it[r].bin]
        /\ it[r].bucket < Size(spaces[it[r].bin][it[r].space])
    BY DEF IndInv, IterInv
  <2>2. TypeInv /\ SpaceInv
    BY DEF IndInv
  <2>3. QED  BY <1>1, <2>1, <2>2, BucketFacts
<1> DEFINE nodes == BucketAt(it[r]).nodes
           i == SkipLower(nodes, HashAt(r))
<1> HIDE DEF nodes
<1>3. i \in DOMAIN nodes \/ i = Len(nodes) + 1
  BY <1>2, SkipLowerFacts DEF nodes
<1>4. nodes \in Seq(NodeIds)
  BY <1>2 DEF nodes
<1> HIDE DEF i
<1>5. i \in Nat
  BY <1>3, <1>4
<1>6. NextIndex(r) = it[r].index + 1 \/ NextIndex(r) = i
  BY DEF NextIndex, i, nodes
<1>7. QED  BY <1>1, <1>5, <1>6

(* The step of an iterator.                                                *)
LEMMA IteratorKeepsInv ==
    ASSUME IndInv, NEW r \in Iterators, Begin(r) \/ IterStep(r)
    PROVE  IndInv'
<1>1. TypeInv /\ IterInv
  BY DEF IndInv
<1>2. /\ it[r] \in Positions /\ GoodPosition(it[r])
      /\ visits \in [Iterators -> [NodeIds -> 0 .. 2]]
      /\ promised \in [Iterators -> SUBSET (NodeIds \cup {0})]
  BY <1>1 DEF TypeInv, IterInv, GoodPosition
<1>3. CASE Begin(r)
  <2> DEFINE q == [it[r] EXCEPT !.pc = "bin"]
  <2>1. it' = [it EXCEPT ![r] = q] /\ UNCHANGED <<table, op, visits, promised>>
    BY <1>3 DEF Begin
  <2>2. q \in Positions /\ q.pc = "bin"
    BY <1>2 DEF Positions
  <2> HIDE DEF q
  <2>3. GoodPosition(q)
    BY <2>2 DEF GoodPosition
  <2>4. QED  BY <1>2, <2>1, <2>2, <2>3, IteratorMoves
<1>4. CASE OpenBin(r)
  <2> DEFINE b == it[r].bin
             g == Len(spaces[b])
             q == [it[r] EXCEPT !.pc = "bucket", !.space = g, !.bucket = 0]
  <2>1. /\ b < BinCount /\ UNCHANGED <<table, op, visits>>
        /\ it' = [it EXCEPT ![r].pc = "bucket", ![r].space = g, ![r].bucket = 0]
        /\ promised' = [promised EXCEPT ![r] =
                          IF @ = Void THEN Void ELSE @ \cup NodesOf(Current(b))]
    BY <1>4 DEF OpenBin
  <2>2. it' = [it EXCEPT ![r] = q]
    BY <2>1
  <2>3. b \in Bins
    BY <1>2, <2>1, TableConstants DEF Positions, Bins
  <2>4. /\ g \in Nat /\ g \in DOMAIN spaces[b] /\ spaces[b][g] \in SpaceSet
        /\ Current(b) \in SpaceSet
    BY <1>1, <2>3, CurrentFacts
  <2>5. Size(spaces[b][g]) \in Nat
    BY <2>4, SpaceFacts
  <2>6. /\ q \in Positions /\ q.pc = "bucket" /\ q.bin = b /\ q.space = g /\ q.bucket = 0
    BY <1>2, <2>4 DEF Positions
  <2>7. NodesOf(Current(b)) \subseteq NodeIds
    <3>1. InOrder(Current(b)) \in Seq(NodeIds) /\ Range(InOrder(Current(b))) = NodesOf(Current(b))
      BY <2>4, InOrderFacts
    <3> DEFINE list == InOrder(Current(b))
    <3>2. list \in Seq(NodeIds)
      BY <3>1
    <3> HIDE DEF list
    <3>3. Range(list) \subseteq NodeIds
      BY <3>2 DEF Range
    <3>4. QED  BY <3>1, <3>3 DEF list
  <2>8. promised' \in [Iterators -> SUBSET (NodeIds \cup {0})]
    <3> DEFINE more == NodesOf(Current(b))
    <3>1. more \subseteq NodeIds
      BY <2>7
    <3>2. promised' = [promised EXCEPT ![r] = IF @ = Void THEN Void ELSE @ \cup more]
      BY <2>1
    <3> HIDE DEF more
    <3>3. QED  BY <1>2, <3>1, <3>2 DEF Void
  <2>9. visits' \in [Iterators -> [NodeIds -> 0 .. 2]]
    BY <1>2, <2>1
  <2>10. UNCHANGED <<table, op>>
    BY <2>1
  <2> HIDE DEF q, g, b
  <2>11. GoodPosition(q)
    BY <2>3, <2>4, <2>5, <2>6 DEF GoodPosition
  <2>12. QED  BY <2>2, <2>6, <2>8, <2>9, <2>10, <2>11, IteratorMoves
<1>5. CASE OpenBucket(r)
  <2> DEFINE p == [it[r] EXCEPT !.gen = BucketAt(it[r]).gen, !.index = 1]
  <2>1. /\ it[r].pc = "bucket" /\ it[r].bucket < Size(spaces[it[r].bin][it[r].space])
        /\ MoveTo(r, p) /\ UNCHANGED <<table, op, promised>>
    BY <1>5 DEF OpenBucket
  <2>2. it[r].bin \in Bins /\ it[r].space \in DOMAIN spaces[it[r].bin]
    BY <1>2, <2>1 DEF GoodPosition
  <2>3. BucketAt(it[r]).gen \in Nat
    BY <1>2, <2>1, <2>2, BucketFacts DEF IndInv
  <2>4. /\ p \in Positions /\ p.pc = it[r].pc /\ p.bin = it[r].bin /\ p.space = it[r].space
        /\ p.bucket = it[r].bucket
    BY <1>2, <2>3 DEF Positions
  <2> HIDE DEF p
  <2>5. QED  BY <2>1, <2>2, <2>4, MoveToKeepsInv
<1>6. CASE BinEnds(r)
  <2> DEFINE q == [it[r] EXCEPT !.pc = "bin", !.bin = @ + 1]
  <2>1. it[r].pc = "bucket" /\ UNCHANGED <<table, op, visits, promised>>
        /\ it' = [it EXCEPT ![r].pc = "bin", ![r].bin = @ + 1]
    BY <1>6 DEF BinEnds
  <2>2. it' = [it EXCEPT ![r] = q]
    BY <2>1
  <2>3. it[r].bin + 1 \in 0 .. BinCount
    BY <1>2, <2>1, TableConstants DEF GoodPosition, Bins
  <2>4. q \in Positions /\ q.pc = "bin"
    BY <1>2, <2>3 DEF Positions
  <2> HIDE DEF q
  <2>5. GoodPosition(q)
    BY <2>4 DEF GoodPosition
  <2>6. QED  BY <1>2, <2>1, <2>2, <2>4, <2>5, IteratorMoves
<1>7. CASE End(r)
  <2> DEFINE q == [it[r] EXCEPT !.pc = "end"]
  <2>1. it' = [it EXCEPT ![r] = q] /\ UNCHANGED <<table, op, visits, promised>>
    BY <1>7 DEF End
  <2>2. q \in Positions /\ q.pc = "end"
    BY <1>2 DEF Positions
  <2> HIDE DEF q
  <2>3. GoodPosition(q)
    BY <2>2 DEF GoodPosition
  <2>4. QED  BY <1>2, <2>1, <2>2, <2>3, IteratorMoves
<1>8. CASE NextNode(r)
  <2> DEFINE p == [it[r] EXCEPT !.index = NextIndex(r)]
  <2>1. it[r].pc = "at" /\ MoveTo(r, p) /\ UNCHANGED <<table, op, promised>>
    BY <1>8 DEF NextNode
  <2>2. /\ it[r].bin \in Bins /\ it[r].space \in DOMAIN spaces[it[r].bin]
        /\ it[r].bucket < Size(spaces[it[r].bin][it[r].space])
    BY <1>2, <2>1 DEF GoodPosition
  <2>3. NextIndex(r) \in Nat
    BY <2>1, NextIndexFacts
  <2>4. /\ p \in Positions /\ p.pc = it[r].pc /\ p.bin = it[r].bin /\ p.space = it[r].space
        /\ p.bucket = it[r].bucket
    BY <1>2, <2>3 DEF Positions
  <2> HIDE DEF p
  <2>5. QED  BY <2>1, <2>2, <2>4, MoveToKeepsInv
<1>9. QED  BY <1>3, <1>4, <1>5, <1>6, <1>7, <1>8 DEF IterStep

-----------------------------------------------------------------------------
(* The invariant.                                                          *)

(* An empty table.                                                         *)
LEMMA InitInv ==
    Init => IndInv
<1> SUFFICES ASSUME Init PROVE IndInv
  OBVIOUS
<1> DEFINE space == EmptySpace(InitialBuckets)
<1>1. /\ spaces = [b \in Bins |-> <<space>>] /\ count = [b \in Bins |-> 0]
      /\ keyOf = <<>> /\ removed = {} /\ op = [t \in Threads |-> Idle]
      /\ it = [r \in Iterators |-> Start]
      /\ visits = [r \in Iterators |-> [n \in NodeIds |-> 0]]
      /\ promised = [r \in Iterators |-> {}]
  BY DEF Init
<1>2. /\ space \in [0 .. InitialBuckets - 1 -> Buckets]
      /\ \A i \in DOMAIN space : space[i].nodes = <<>> /\ space[i].gen = 0
  <2>1. 0 \in 0 .. 2 * MaxNodes
    BY TableConstants
  <2>2. <<>> \in Seq(NodeIds)
    OBVIOUS
  <2>3. QED  BY <2>1, <2>2 DEF EmptySpace, Buckets
<1>3. space \in SpaceSet
  BY <1>2, TableConstants DEF SpaceSet
<1> HIDE DEF space
<1>4. \A b \in Bins : /\ spaces[b] \in Seq(SpaceSet) /\ spaces[b] # <<>> /\ Len(spaces[b]) = 1
                      /\ DOMAIN spaces[b] = {1} /\ spaces[b][1] = space
  <2>1. <<space>> \in Seq(SpaceSet) /\ Len(<<space>>) = 1 /\ <<space>>[1] = space
        /\ DOMAIN <<space>> = {1} /\ <<space>> # <<>>
    BY <1>3
  <2>2. QED  BY <1>1, <2>1
<1>5. Created = {} /\ Len(keyOf) = 0
  BY <1>1 DEF Created
<1>6. /\ \A b : Live(b) = {} /\ \A k : NodesWith(k) = {}
  BY <1>5 DEF Live, NodesWith
<1>7. /\ Getting = {} /\ (\A b : Loading(b) = {}) /\ (\A k : Adding(k) = {})
  BY <1>1 DEF Getting, Loading, Adding, Idle
<1>8. Cardinality({}) = 0
  BY FS_EmptySet
<1>9. TypeInv
  <2>1. spaces \in [Bins -> Seq(SpaceSet)]
    BY <1>1, <1>4
  <2>2. count \in [Bins -> 0 .. MaxNodes] /\ MaxNodes >= 0
    BY <1>1, TableConstants
  <2>3. op \in [Threads -> Operations]
    BY <1>1, IdleFacts
  <2>4. Start \in Positions
    BY TableConstants DEF Start, Positions
  <2>5. it \in [Iterators -> Positions]
    BY <1>1, <2>4
  <2>6. visits \in [Iterators -> [NodeIds -> 0 .. 2]]
    BY <1>1
  <2>7. promised \in [Iterators -> SUBSET (NodeIds \cup {0})]
    BY <1>1
  <2>8. keyOf \in Seq(Keys) /\ removed \subseteq Created
    BY <1>1
  <2>9. QED  BY <1>4, <1>5, <2>1, <2>2, <2>3, <2>5, <2>6, <2>7, <2>8 DEF TypeInv
<1>10. SpaceInv
  <2>1. SUFFICES ASSUME NEW b \in Bins, NEW i \in DOMAIN space
        PROVE  /\ IsInjective(space[i].nodes)
               /\ \A n \in Range(space[i].nodes) :
                     n \in Created /\ BinOf(keyOf[n]) = b /\ i = FromHash(space, Hash[keyOf[n]])
               /\ space[i].gen <= Len(keyOf) + Cardinality(removed)
    BY <1>4 DEF SpaceInv
  <2>2. space[i].nodes = <<>> /\ space[i].gen = 0
    BY <1>2
  <2>3. IsInjective(space[i].nodes) /\ Range(space[i].nodes) = {}
    BY <2>2, EmptyList
  <2>4. QED  BY <1>1, <1>5, <1>8, <2>2, <2>3
<1>11. PlaceInv
  BY <1>1, <1>6 DEF PlaceInv
<1>12. CountInv
  BY <1>1, <1>6, <1>8 DEF CountInv
<1>13. OpInv
  BY <1>1 DEF OpInv, Idle
<1>14. RoomInv
  BY <1>5, <1>7, <1>8, TableConstants DEF RoomInv
<1>15. LoadInv
  <2>1. \A b \in Bins : MaxCount(b) \in Nat \ {0}
    BY <1>9, CurrentFacts
  <2>2. QED  BY <1>1, <1>7, <1>8, <2>1, ThreadSets DEF LoadInv
<1>16. DuplicateInv
  BY <1>6, <1>7, <1>8, ThreadSets DEF DuplicateInv
<1>17. IterInv
  BY <1>1 DEF IterInv, Start
<1>18. QED  BY <1>9, <1>10, <1>11, <1>12, <1>13, <1>14, <1>15, <1>16, <1>17 DEF IndInv

(* The step of an operation.                                               *)
LEMMA OpStepKeepsInv ==
    ASSUME IndInv, NEW t \in Threads, OpStep(t)
    PROVE  IndInv'
<1>1. CASE Search(t)
  <2>1. op[t].what = "get" \/ op[t].what = "remove"
    BY <1>1 DEF Search
  <2>2. QED  BY <1>1, <2>1, SearchGetKeepsInv, SearchRemoveKeepsInv
<1>2. QED  BY <1>1, ResizeIfNecessaryKeepsInv, ResizeKeepsInv, EnterKeepsInv, AddToBucketKeepsInv
           DEF OpStep

(* Every step keeps the invariant.                                         *)
LEMMA NextInv ==
    IndInv /\ [Next]_vars => IndInv'
<1> SUFFICES ASSUME IndInv, [Next]_vars PROVE IndInv'
  OBVIOUS
<1>1. CASE UNCHANGED vars
  <2>1. UNCHANGED <<spaces, count, keyOf, removed, op, it, visits, promised>>
    BY <1>1 DEF vars, table, iteration
  <2>2. UNCHANGED <<table, iteration>> /\ op' = op
    BY <1>1 DEF vars
  <2>3. op' \in [Threads -> Operations] /\ OpInv' /\ RoomInv'
    BY <2>1 DEF IndInv, TypeInv, OpInv, RoomInv, Getting
  <2>4. \A b : Loading(b)' = Loading(b) /\ MaxCount(b)' = MaxCount(b)
    BY <2>1 DEF Loading, MaxCount, Current
  <2>5. LoadInv'
    BY <2>1, <2>4 DEF IndInv, LoadInv
  <2>6. \A k : NodesWith(k)' = NodesWith(k) /\ Adding(k)' = Adding(k)
    BY <2>1 DEF NodesWith, Adding, Created
  <2>7. DuplicateInv'
    BY <2>6 DEF IndInv, DuplicateInv
  <2>8. QED  BY <2>2, <2>3, <2>5, <2>7, OnlyOpChanges
<1>2. CASE \E t \in Threads : OpStep(t) \/ \E k \in Keys : GetOrCreate(t, k) \/ RemoveKey(t, k)
  BY <1>2, OpStepKeepsInv, GetOrCreateKeepsInv, RemoveKeyKeepsInv
<1>3. CASE \E r \in Iterators : Begin(r) \/ IterStep(r)
  BY <1>3, IteratorKeepsInv
<1>4. QED  BY <1>1, <1>2, <1>3 DEF Next

(* The inductive invariant holds in every state of every table.            *)
THEOREM Inductive ==
    Spec => []IndInv
<1>1. QED  BY InitInv, NextInv, PTL DEF Spec

-----------------------------------------------------------------------------
(* The table stays intact.                                                 *)

(* Every live node is in its place, once, and is counted.                  *)
LEMMA PlacesAreRight ==
    IndInv => NodesInPlace
<1> SUFFICES ASSUME IndInv PROVE NodesInPlace
  OBVIOUS
<1>1. TypeInv /\ SpaceInv /\ PlaceInv /\ CountInv
  BY DEF IndInv
<1>2. ASSUME NEW n \in Created \ removed
      PROVE  \E i \in DOMAIN Current(BinOf(keyOf[n])) :
                /\ i = FromHash(Current(BinOf(keyOf[n])), Hash[keyOf[n]])
                /\ n \in ToSet(Current(BinOf(keyOf[n]))[i].nodes)
  <2>1. keyOf[n] \in Keys
    BY <1>1, NodeSets
  <2>2. PICK b \in Bins : b = BinOf(keyOf[n]) /\ Hash[keyOf[n]] \in Nat
    BY <2>1, BinFacts
  <2>3. n \in Live(b)
    BY <2>2 DEF Live
  <2>4. n \in Range(Current(b)[FromHash(Current(b), Hash[keyOf[n]])].nodes)
    BY <1>1, <2>3 DEF PlaceInv
  <2>5. FromHash(Current(b), Hash[keyOf[n]]) \in DOMAIN Current(b)
    BY <1>1, <2>2, CurrentFacts, SpaceFacts
  <2>6. QED  BY <2>2, <2>4, <2>5, ToSetIsRange
<1>3. ASSUME NEW b \in Bins
      PROVE  Len(InOrder(Current(b))) = count[b]
  <2> DEFINE list == InOrder(Current(b))
  <2>1. list \in Seq(NodeIds) /\ IsInjective(list) /\ Range(list) = Live(b)
    BY <1>1, CurrentFacts, PlaceFacts, InOrderFacts
  <2> HIDE DEF list
  <2>2. Cardinality(Range(list)) = Len(list)
    BY <2>1, LengthOfInjective
  <2>3. count[b] = Cardinality(Live(b))
    BY <1>1 DEF CountInv
  <2>4. QED  BY <2>1, <2>2, <2>3 DEF list
<1>4. \A b \in Bins : Cardinality({n \in Created \ removed : BinOf(keyOf[n]) = b}) = count[b]
  BY <1>1 DEF CountInv, Live
<1>5. QED  BY <1>2, <1>3, <1>4 DEF NodesInPlace

(* The state has its types.                                                *)
LEMMA TypesAreRight ==
    IndInv => TypeOK
<1> SUFFICES ASSUME IndInv PROVE TypeOK
  OBVIOUS
<1>1. TypeInv /\ IterInv
  BY DEF IndInv
<1>2. ASSUME NEW b \in Bins, NEW g \in DOMAIN spaces[b], NEW i \in DOMAIN spaces[b][g]
      PROVE  spaces[b][g][i].nodes \in Seq(NodeIds) /\ spaces[b][g][i].gen \in 0 .. 2 * MaxNodes
  <2>1. spaces[b][g] \in SpaceSet
    BY <1>1, CurrentFacts
  <2>2. spaces[b][g][i] \in Buckets
    BY <2>1 DEF SpaceSet
  <2>3. QED  BY <2>2 DEF Buckets
<1>3. removed \subseteq NodeIds
  BY <1>1, NodeSets DEF TypeInv
<1>4. ASSUME NEW r \in Iterators
      PROVE  /\ it[r].pc \in {"new", "bin", "bucket", "at", "end"}
             /\ it[r].bin \in 0 .. BinCount
             /\ it[r].pc = "at" => it[r].index > 0 /\ it[r].node \in DOMAIN keyOf
  BY <1>1 DEF TypeInv, Positions, IterInv, Created
<1>5. QED  BY <1>1, <1>2, <1>3, <1>4 DEF TypeOK, TypeInv, Operations

(* The load of a bin and the duplicates of a key are bounded.              *)
LEMMA BoundsAreRight ==
    IndInv => LoadBounded /\ DuplicatesBounded
<1> SUFFICES ASSUME IndInv PROVE LoadBounded /\ DuplicatesBounded
  OBVIOUS
<1>1. TypeInv /\ LoadInv /\ DuplicateInv
  BY DEF IndInv
<1>2. ASSUME NEW b \in Bins PROVE count[b] < MaxCount(b) + Cardinality(Threads)
  <2>1. Cardinality(Loading(b)) \in Nat
    BY ThreadSets DEF Loading
  <2>2. count[b] \in Nat /\ MaxCount(b) \in Nat /\ Cardinality(Threads) \in Nat
    BY <1>1, CurrentFacts, ThreadSets DEF TypeInv
  <2>3. count[b] + Cardinality(Loading(b)) < MaxCount(b) + Cardinality(Threads)
    BY <1>1 DEF LoadInv
  <2>4. QED  BY <2>1, <2>2, <2>3
<1>3. ASSUME NEW k \in Keys PROVE Cardinality(NodesWith(k)) <= Cardinality(Threads)
  <2>1. Cardinality(Adding(k)) \in Nat
    BY ThreadSets DEF Adding
  <2>2. Cardinality(NodesWith(k)) \in Nat /\ Cardinality(Threads) \in Nat
    BY <1>1, NodeSets, ThreadSets
  <2>3. Cardinality(NodesWith(k)) + Cardinality(Adding(k)) <= Cardinality(Threads)
    BY <1>1 DEF DuplicateInv
  <2>4. QED  BY <2>1, <2>2, <2>3
<1>4. QED  BY <1>2, <1>3 DEF LoadBounded, DuplicatesBounded

(* Concurrent operations and resizes never lose, duplicate or misplace a   *)
(* node of a HashTable; size() counts the nodes that are there; the load of*)
(* a bin exceeds its limit by less than the number of threads, and a key   *)
(* that was inserted concurrently has at most as many nodes as there are   *)
(* threads.                                                                *)
THEOREM TableStaysIntact ==
    Spec => []TableIsIntact
<1>1. IndInv => TableIsIntact
  BY PlacesAreRight, TypesAreRight, BoundsAreRight DEF TableIsIntact
<1>2. QED  BY <1>1, Inductive, PTL

-----------------------------------------------------------------------------
(* Iterations are exact.                                                   *)

(* A table that is new, and iterators that have not begun.                 *)
LEMMA InitExact ==
    Init => ExactInv
<1> SUFFICES ASSUME Init, NEW r \in Iterators
             PROVE  Exact(it[r], spaces, keyOf, promised[r], visits[r])
  BY DEF ExactInv
<1>1. /\ it[r] = Start /\ visits[r] = [n \in NodeIds |-> 0] /\ promised[r] = {}
  BY DEF Init
<1>2. Start.pc = "new"
  BY DEF Start
<1>3. QED  BY <1>1, <1>2 DEF Exact

(* Spaces that a bin gets later do not concern an iterator.                *)
LEMMA LaterSpaces ==
    ASSUME NEW p, NEW sps, NEW sps2, NEW kof, NEW pr, NEW vs, Exact(p, sps, kof, pr, vs),
           p.pc \in {"bucket", "at"} => sps2[p.bin][p.space] = sps[p.bin][p.space]
    PROVE  Exact(p, sps2, kof, pr, vs)
<1>1. p.pc = "at" => BucketOf(p, sps2) = BucketOf(p, sps)
  BY DEF BucketOf
<1>2. Stands(p, sps) => Stands(p, sps2)
  BY <1>1 DEF Stands, Stuck
<1>3. Stuck(p, sps2) <=> Stuck(p, sps)
  BY <1>1 DEF Stuck
<1>4. Visited(p, sps, kof, pr, vs) => Visited(p, sps2, kof, pr, vs)
  BY DEF Visited
<1>5. QED  BY <1>2, <1>3, <1>4 DEF Exact

(* Steps that keep the spaces and concern no iterator.                     *)
LEMMA SpacesKeepExact ==
    ASSUME IndInv, ExactInv, UNCHANGED <<keyOf, it, visits, promised>>,
           \A b \in Bins : \A g \in DOMAIN spaces[b] : spaces'[b][g] = spaces[b][g]
    PROVE  ExactInv'
<1>1. SUFFICES ASSUME NEW r \in Iterators
               PROVE  Exact(it[r], spaces', keyOf, promised[r], visits[r])
  BY DEF ExactInv
<1>2. Exact(it[r], spaces, keyOf, promised[r], visits[r])
  BY DEF ExactInv
<1>3. it[r].pc \in {"bucket", "at"} =>
         it[r].bin \in Bins /\ it[r].space \in DOMAIN spaces[it[r].bin]
  BY DEF IndInv, IterInv
<1>4. it[r].pc \in {"bucket", "at"} =>
         spaces'[it[r].bin][it[r].space] = spaces[it[r].bin][it[r].space]
  BY <1>3
<1>5. QED  BY <1>2, <1>4, LaterSpaces

(* A removed node: nothing is promised any more.                           *)
LEMMA RemovalKeepsExact ==
    ASSUME IndInv, ExactInv, UNCHANGED <<keyOf, it, visits>>,
           promised' = [r \in Iterators |-> IF it[r].pc = "new" THEN promised[r] ELSE Void]
    PROVE  ExactInv'
<1>1. SUFFICES ASSUME NEW r \in Iterators
               PROVE  Exact(it[r], spaces', keyOf, promised'[r], visits[r])
  BY DEF ExactInv
<1>2. Exact(it[r], spaces, keyOf, promised[r], visits[r])
  BY DEF ExactInv
<1>3. promised'[r] = IF it[r].pc = "new" THEN promised[r] ELSE Void
  OBVIOUS
<1>4. QED  BY <1>2, <1>3 DEF Exact

(* Node x is new in bucket i of space m of bin b.                          *)
NodeAdded(b, m, i, x) ==
    /\ x \in NodeIds /\ x \notin Created /\ Created' = Created \cup {x}
    /\ \A n \in Created : keyOf'[n] = keyOf[n]
    /\ \A c \in Bins : \A g \in DOMAIN spaces[c] :
          /\ DOMAIN spaces'[c][g] = DOMAIN spaces[c][g]
          /\ \A j \in DOMAIN spaces[c][g] :
                ~(c = b /\ g = m /\ j = i) => spaces'[c][g][j] = spaces[c][g][j]
    /\ i \in DOMAIN spaces[b][m]
    /\ spaces'[b][m][i].nodes = Append(spaces[b][m][i].nodes, x)
    /\ spaces'[b][m][i].gen = spaces[b][m][i].gen + 1
    /\ spaces[b][m][i].gen \in Nat /\ spaces[b][m][i].nodes \in Seq(NodeIds)

(* What an iterator has stood on, when a node is added.                    *)
LEMMA AddedNode ==
    ASSUME NEW p \in Positions, NEW pr, NEW vs, Exact(p, spaces, keyOf, pr, vs),
           p.pc \in {"bucket", "at"} => p.bin \in Bins /\ p.space \in DOMAIN spaces[p.bin],
           p.pc = "at" => p.bucket \in DOMAIN spaces[p.bin][p.space],
           NEW b \in Bins, NEW m, NEW i, NEW x, NodeAdded(b, m, i, x)
    PROVE  Exact(p, spaces', keyOf', pr, vs)
<1>0. /\ x \in NodeIds /\ x \notin Created /\ Created' = Created \cup {x}
      /\ \A n \in Created : keyOf'[n] = keyOf[n]
      /\ \A c \in Bins : \A g \in DOMAIN spaces[c] :
            /\ DOMAIN spaces'[c][g] = DOMAIN spaces[c][g]
            /\ \A j \in DOMAIN spaces[c][g] :
                  ~(c = b /\ g = m /\ j = i) => spaces'[c][g][j] = spaces[c][g][j]
      /\ i \in DOMAIN spaces[b][m]
      /\ spaces'[b][m][i].nodes = Append(spaces[b][m][i].nodes, x)
      /\ spaces'[b][m][i].gen = spaces[b][m][i].gen + 1
      /\ spaces[b][m][i].gen \in Nat /\ spaces[b][m][i].nodes \in Seq(NodeIds)
  BY DEF NodeAdded
<1>1. CASE p.pc = "new" \/ pr = Void
  BY <1>1 DEF Exact
<1>2. CASE p.pc # "new" /\ pr # Void
  <2>1. /\ p.pc = "end" => p.bin = BinCount
        /\ pr \subseteq Created /\ Stands(p, spaces)
        /\ ~Stuck(p, spaces) => Visited(p, spaces, keyOf, pr, vs)
    BY <1>2 DEF Exact, Created
  <2> DEFINE old == spaces[b][m][i].nodes
  <2>a. old \in Seq(NodeIds)
    BY <1>0
  <2>z. /\ x \in NodeIds /\ spaces[b][m][i].gen \in Nat
        /\ spaces'[b][m][i].gen = spaces[b][m][i].gen + 1
    BY <1>0
  <2> HIDE DEF old
  <2>2. /\ DOMAIN old = 1 .. Len(old) /\ Len(old) \in Nat
        /\ DOMAIN Append(old, x) = 1 .. Len(old) + 1
        /\ \A j \in DOMAIN old : Append(old, x)[j] = old[j]
        /\ Append(old, x)[Len(old) + 1] = x
    BY ONLY <2>z, <2>a, AppendAt
  <2>3. Range(Append(old, x)) = Range(old) \cup {x}
    BY ONLY <2>z, <2>a, RangeAppend
  <2>4. spaces'[b][m][i].nodes = Append(old, x) /\ spaces[b][m][i].nodes = old
    BY <1>0 DEF old
  <2>5. ASSUME p.pc = "at", p.bin = b, p.space = m, p.bucket = i
        PROVE  Stands(p, spaces') /\ Stuck(p, spaces')
    <3>1. p.gen <= spaces[b][m][i].gen /\ p.node \in Range(old)
      BY <2>1, <2>4, <2>5 DEF Stands, BucketOf
    <3>2. p.gen \in Nat
      BY DEF Positions
    <3>3. BucketOf(p, spaces') = spaces'[b][m][i]
      BY <2>5 DEF BucketOf
    <3>4. p.gen # spaces'[b][m][i].gen /\ p.gen <= spaces'[b][m][i].gen
      BY ONLY <2>z, <3>1, <3>2
    <3>5. p.node \in Range(spaces'[b][m][i].nodes)
      BY <2>3, <2>4, <3>1
    <3>6. QED  BY <2>5, <3>3, <3>4, <3>5 DEF Stands, Stuck
  <2>6. ASSUME ~(p.pc = "at" /\ p.bin = b /\ p.space = m /\ p.bucket = i)
        PROVE  /\ Stands(p, spaces') /\ (Stuck(p, spaces') <=> Stuck(p, spaces))
               /\ Visited(p, spaces, keyOf, pr, vs) => Visited(p, spaces', keyOf', pr, vs)
    <3>1. p.pc = "at" => BucketOf(p, spaces') = BucketOf(p, spaces)
      BY <1>0, <2>6, ZenonT(60) DEF BucketOf
    <3>2. Stands(p, spaces') /\ (Stuck(p, spaces') <=> Stuck(p, spaces))
      BY <2>1, <3>1 DEF Stands, Stuck
    <3>3. ASSUME Visited(p, spaces, keyOf, pr, vs) PROVE Visited(p, spaces', keyOf', pr, vs)
      <4>1. /\ \A n \in NodeIds : vs[n] <= 1 /\ (n \notin Created => vs[n] = 0)
            /\ \A n \in Created :
                  /\ BinOf(keyOf[n]) < p.bin /\ n \in pr => vs[n] = 1
                  /\ BinOf(keyOf[n]) > p.bin \/ (BinOf(keyOf[n]) = p.bin /\ p.pc = "bin")
                     => vs[n] = 0 /\ n \notin pr
        BY <3>3 DEF Visited, Created
      <4>2. vs[x] = 0 /\ x \notin pr
        BY <1>0, <2>1, <4>1
      <4>3. \A n \in NodeIds : vs[n] <= 1 /\ (n \notin Created' => vs[n] = 0)
        BY <1>0, <4>1
      <4>4. \A n \in Created' :
               /\ BinOf(keyOf'[n]) < p.bin /\ n \in pr => vs[n] = 1
               /\ BinOf(keyOf'[n]) > p.bin \/ (BinOf(keyOf'[n]) = p.bin /\ p.pc = "bin")
                  => vs[n] = 0 /\ n \notin pr
        BY <1>0, <4>1, <4>2
      <4>5. ASSUME p.pc \in {"bucket", "at"}
            PROVE  Inside(p, spaces'[p.bin][p.space], keyOf', pr, vs)
        <5> DEFINE space == spaces[p.bin][p.space]
                   new == spaces'[p.bin][p.space]
        <5>1. /\ \A n \in pr : BinOf(keyOf[n]) = p.bin =>
                     \E j \in DOMAIN space : n \in Range(space[j].nodes)
              /\ \A j \in DOMAIN space : \A h \in DOMAIN space[j].nodes :
                    /\ j < p.bucket /\ space[j].nodes[h] \in pr => vs[space[j].nodes[h]] = 1
                    /\ j > p.bucket => vs[space[j].nodes[h]] = 0
                    /\ j = p.bucket => vs[space[j].nodes[h]] = IF h < Unvisited(p) THEN 1 ELSE 0
          BY <3>3, <4>5 DEF Visited, Inside
        <5>2. CASE p.bin = b /\ p.space = m
          <6>1. /\ DOMAIN new = DOMAIN space /\ i \in DOMAIN space
                /\ \A j \in DOMAIN space : j # i => new[j] = space[j]
                /\ new[i].nodes = Append(old, x) /\ space[i].nodes = old
            BY <1>0, <2>4, <4>5, <5>2
          <6>2. p.pc # "at" \/ p.bucket # i
            BY <2>6, <5>2
          <6>3. p.pc = "bucket" => Unvisited(p) = 1
            BY DEF Unvisited
          <6> HIDE DEF new, space
          <6>4. ASSUME NEW n \in pr, BinOf(keyOf'[n]) = p.bin
                PROVE  \E j \in DOMAIN new : n \in Range(new[j].nodes)
            <7>1. BinOf(keyOf[n]) = p.bin
              BY <1>0, <2>1, <6>4
            <7>2. PICK j \in DOMAIN space : n \in Range(space[j].nodes)
              BY <5>1, <7>1
            <7>3. n \in Range(new[j].nodes)
              BY <2>3, <6>1, <7>2
            <7>4. QED  BY <6>1, <7>2, <7>3
          <6>5. ASSUME NEW j \in DOMAIN new, NEW h \in DOMAIN new[j].nodes
                PROVE  /\ j < p.bucket /\ new[j].nodes[h] \in pr => vs[new[j].nodes[h]] = 1
                       /\ j > p.bucket => vs[new[j].nodes[h]] = 0
                       /\ j = p.bucket => vs[new[j].nodes[h]] = IF h < Unvisited(p) THEN 1 ELSE 0
            <7>1. CASE j # i \/ h \in DOMAIN old
              <8>1. h \in DOMAIN space[j].nodes /\ new[j].nodes[h] = space[j].nodes[h]
                BY <2>2, <6>1, <7>1
              <8>2. QED  BY <5>1, <6>1, <8>1
            <7>2. CASE j = i /\ h \notin DOMAIN old
              <8>1. h = Len(old) + 1 /\ new[j].nodes[h] = x
                BY <2>2, <6>1, <7>2
              <8>2. j = p.bucket => ~(h < Unvisited(p))
                <9>1. Len(old) \in Nat
                  BY <2>2
                <9>2. j = p.bucket => Unvisited(p) = 1
                  BY <4>5, <6>2, <6>3, <7>2
                <9>3. h >= 1
                  BY <8>1, <9>1
                <9>4. QED  BY <9>2, <9>3, <8>1, <9>1
              <8>3. QED  BY <4>2, <8>1, <8>2
            <7>3. QED  BY <7>1, <7>2
          <6>6. QED  BY <6>4, <6>5 DEF Inside, new
        <5>3. CASE ~(p.bin = b /\ p.space = m)
          <6>1. DOMAIN new = DOMAIN space /\ \A j \in DOMAIN space : new[j] = space[j]
            BY <1>0, <4>5, <5>3
          <6> HIDE DEF new, space
          <6>2. \A n \in pr : BinOf(keyOf'[n]) = BinOf(keyOf[n])
            BY <1>0, <2>1
          <6>3. Inside(p, new, keyOf', pr, vs)
            BY <5>1, <6>1, <6>2 DEF Inside
          <6>4. QED  BY <6>3 DEF new
        <5>4. QED  BY <5>2, <5>3
      <4>6. QED  BY <4>3, <4>4, <4>5 DEF Visited, Created
    <3>4. QED  BY <3>2, <3>3
  <2>7. pr \subseteq Created'
    BY <1>0, <2>1
  <2>8. Stands(p, spaces') /\ (~Stuck(p, spaces') => Visited(p, spaces', keyOf', pr, vs))
    BY <2>1, <2>5, <2>6
  <2>9. QED  BY <1>2, <2>1, <2>7, <2>8 DEF Exact, Created
<1>3. QED  BY <1>1, <1>2

(* The steps of operations.                                                *)
LEMMA OperationsKeepExact ==
    ASSUME IndInv, ExactInv, NEW t \in Threads,
           OpStep(t) \/ \E k \in Keys : GetOrCreate(t, k) \/ RemoveKey(t, k)
    PROVE  ExactInv'
<1>1. TypeInv /\ SpaceInv /\ PlaceInv /\ OpInv
  BY DEF IndInv
<1>2. op[t].key \in Keys
  BY <1>1 DEF TypeInv, Operations
<1>3. PICK b \in Bins : b = BinOf(op[t].key)
  BY <1>2, BinFacts
<1>4. ASSUME UNCHANGED <<spaces, keyOf, it, visits, promised>> PROVE ExactInv'
  BY <1>4, SpacesKeepExact
<1>5. CASE \E k \in Keys : GetOrCreate(t, k) \/ RemoveKey(t, k)
  BY <1>4, <1>5 DEF GetOrCreate, RemoveKey, table, iteration
<1>6. CASE ResizeIfNecessary(t) \/ Enter(t)
  BY <1>4, <1>6 DEF ResizeIfNecessary, Enter, table, iteration
<1>7. CASE Resize(t)
  <2>1. UNCHANGED <<keyOf, removed, it, visits, promised>>
    BY <1>7 DEF Resize, iteration
  <2>2. \/ spaces' = spaces
        \/ spaces' = [spaces EXCEPT ![b] =
                        Append(spaces[b], Rehash(Current(b), 2 * Size(Current(b))))]
    BY <1>3, <1>7 DEF Resize, Current
  <2>3. CASE spaces' = spaces
    BY <1>4, <2>1, <2>3
  <2>4. CASE spaces' = [spaces EXCEPT ![b] =
                          Append(spaces[b], Rehash(Current(b), 2 * Size(Current(b))))]
    <3>1. \A c \in Bins : \A g \in DOMAIN spaces[c] : spaces'[c][g] = spaces[c][g]
      BY <1>1, <2>1, <2>4, NewSpace
    <3>2. QED  BY <2>1, <3>1, SpacesKeepExact
  <2>5. QED  BY <2>2, <2>3, <2>4
<1>8. CASE Search(t)
  <2>1. \/ UNCHANGED <<spaces, keyOf, it, visits, promised>>
        \/ /\ UNCHANGED <<keyOf, it, visits>>
           /\ promised' = [r \in Iterators |-> IF it[r].pc = "new" THEN promised[r] ELSE Void]
    BY <1>8 DEF Search
  <2>2. QED  BY <1>4, <2>1, RemovalKeepsExact
<1>9. CASE AddToBucket(t)
  <2> DEFINE k == op[t].key
             m == Len(spaces[b])
             x == Len(keyOf) + 1
  <2>1. PICK i : i = FromHash(spaces[b][op[t].space], Hash[k])
    OBVIOUS
  <2>2. op[t].pc = "add"
    BY <1>9 DEF AddToBucket
  <2>3. /\ op[t].space = m /\ m \in DOMAIN spaces[b] /\ spaces[b][m] = Current(b)
        /\ i \in DOMAIN Current(b) /\ Current(b)[i] \in Buckets
    BY <1>1, <1>3, <2>1, <2>2, SearchedBucket
  <2> DEFINE e == [nodes |-> Append(spaces[b][m][i].nodes, x), gen |-> spaces[b][m][i].gen + 1]
  <2>4. /\ keyOf' = Append(keyOf, k) /\ removed' = removed /\ UNCHANGED <<it, visits, promised>>
        /\ spaces' = [spaces EXCEPT ![b][m][i] = e]
    BY <1>3, <1>9, <2>1, <2>3 DEF AddToBucket, ChangeBucket, iteration
  <2>5. IndInv'
    BY <1>9, AddToBucketKeepsInv
  <2>6. Len(keyOf) < MaxNodes
    <3>1. Len(keyOf) \in Nat /\ Len(keyOf') = Len(keyOf) + 1
      BY <1>1, <1>2, <2>4 DEF TypeInv
    <3>2. Len(keyOf') <= MaxNodes /\ MaxNodes \in Nat
      BY <2>5, TableConstants DEF IndInv, TypeInv
    <3>3. QED  BY <3>1, <3>2
  <2> HIDE DEF x
  <2>7. /\ x \in NodeIds /\ x \notin Created /\ Created' = Created \cup {x}
        /\ \A n \in Created : keyOf'[n] = keyOf[n]
    BY <1>1, <1>2, <2>4, <2>6, OneMoreNode DEF x
  <2>8. spaces[b][m][i].nodes \in Seq(NodeIds) /\ spaces[b][m][i].gen \in Nat
    BY <2>3 DEF Buckets
  <2>9. /\ e.nodes = Append(spaces[b][m][i].nodes, x) /\ e.gen = spaces[b][m][i].gen + 1
    OBVIOUS
  <2> HIDE DEF e, m
  <2>10. /\ \A c \in Bins : \A g \in DOMAIN spaces[c] :
              /\ DOMAIN spaces'[c][g] = DOMAIN spaces[c][g]
              /\ \A j \in DOMAIN spaces[c][g] :
                    ~(c = b /\ g = m /\ j = i) => spaces'[c][g][j] = spaces[c][g][j]
         /\ spaces'[b][m][i] = e
    <3>1. spaces \in [Bins -> Seq(SpaceSet)] /\ i \in DOMAIN spaces[b][m]
      BY <1>1, <2>3 DEF TypeInv
    <3>2. e.gen \in Nat /\ spaces'[b][m][i] = e
      BY <2>3, <2>4, <2>8, <2>9, <3>1
    <3>3. e \in Buckets
      <4>1. spaces'[b] \in Seq(SpaceSet) /\ m \in DOMAIN spaces'[b] /\ i \in DOMAIN spaces'[b][m]
        BY <2>3, <2>4, <2>5, <3>1 DEF IndInv, TypeInv
      <4>2. spaces'[b][m] \in SpaceSet
        BY <4>1
      <4>3. spaces'[b][m][i] \in Buckets
        BY <4>1, <4>2 DEF SpaceSet
      <4>4. QED  BY <3>2, <4>3
    <3>4. /\ \A c \in Bins : c # b => spaces'[c] = spaces[c]
          /\ \A h \in DOMAIN spaces[b] : h # m => spaces'[b][h] = spaces[b][h]
          /\ DOMAIN spaces'[b][m] = DOMAIN spaces[b][m]
          /\ \A j \in DOMAIN spaces[b][m] : j # i => spaces'[b][m][j] = spaces[b][m][j]
      BY <2>3, <2>4, <3>1, <3>3, BucketChange
    <3>5. ASSUME NEW c \in Bins, NEW g \in DOMAIN spaces[c]
          PROVE  /\ DOMAIN spaces'[c][g] = DOMAIN spaces[c][g]
                 /\ \A j \in DOMAIN spaces[c][g] :
                       ~(c = b /\ g = m /\ j = i) => spaces'[c][g][j] = spaces[c][g][j]
      <4>1. CASE c = b /\ g = m
        BY <3>4, <4>1
      <4>2. CASE ~(c = b /\ g = m)
        <5>1. spaces'[c][g] = spaces[c][g]
          BY <3>4, <4>2
        <5>2. QED  BY <4>2, <5>1
      <4>3. QED  BY <4>1, <4>2
    <3>6. QED  BY <3>2, <3>5
  <2>11. SUFFICES ASSUME NEW r \in Iterators
                  PROVE  Exact(it[r], spaces', keyOf', promised[r], visits[r])
    BY <2>4 DEF ExactInv
  <2>12. Exact(it[r], spaces, keyOf, promised[r], visits[r]) /\ it[r] \in Positions
    BY <1>1 DEF ExactInv, TypeInv
  <2>13. /\ it[r].pc \in {"bucket", "at"} => it[r].bin \in Bins /\ it[r].space \in DOMAIN spaces[it[r].bin]
         /\ it[r].pc = "at" => it[r].bucket < Size(spaces[it[r].bin][it[r].space])
    BY DEF IndInv, IterInv
  <2>14. it[r].pc = "at" => it[r].bucket \in DOMAIN spaces[it[r].bin][it[r].space]
    BY <1>1, <2>12, <2>13, BucketFacts
  <2>15. i \in DOMAIN spaces[b][m] /\ m = Len(spaces[b])
    BY <2>3 DEF m
  <2>16. /\ spaces'[b][m][i].nodes = Append(spaces[b][m][i].nodes, x)
         /\ spaces'[b][m][i].gen = spaces[b][m][i].gen + 1
    BY <2>9, <2>10
  <2>17. PICK p \in Positions : p = it[r]
    BY <2>12
  <2>18. PICK pr : pr = promised[r]
    OBVIOUS
  <2>19. PICK vs : vs = visits[r]
    OBVIOUS
  <2>20. PICK l : l = m /\ l = Len(spaces[b])
    BY <2>15
  <2>21. /\ Exact(p, spaces, keyOf, pr, vs)
         /\ p.pc \in {"bucket", "at"} => p.bin \in Bins /\ p.space \in DOMAIN spaces[p.bin]
         /\ p.pc = "at" => p.bucket \in DOMAIN spaces[p.bin][p.space]
    BY <2>12, <2>13, <2>14, <2>17, <2>18, <2>19
  <2>22. NodeAdded(b, l, i, x)
    BY <2>7, <2>8, <2>10, <2>15, <2>16, <2>20 DEF NodeAdded
  <2>23. Exact(p, spaces', keyOf', pr, vs)
    BY <2>21, <2>22, AddedNode
  <2>24. QED  BY <2>17, <2>18, <2>19, <2>23
<1>10. QED  BY <1>5, <1>6, <1>7, <1>8, <1>9 DEF OpStep


(* One iterator moves.                                                     *)
LEMMA OneIteratorMoves ==
    ASSUME IndInv, ExactInv, NEW r \in Iterators, NEW q, it' = [it EXCEPT ![r] = q],
           UNCHANGED <<spaces, keyOf>>,
           \A s \in Iterators : s # r => visits'[s] = visits[s] /\ promised'[s] = promised[s],
           Exact(q, spaces, keyOf, promised'[r], visits'[r])
    PROVE  ExactInv'
<1>1. /\ it'[r] = q /\ \A s \in Iterators : s # r => it'[s] = it[s]
  BY DEF IndInv, TypeInv
<1>2. SUFFICES ASSUME NEW s \in Iterators
               PROVE  Exact(it'[s], spaces, keyOf, promised'[s], visits'[s])
  BY DEF ExactInv
<1>3. CASE s = r
  BY <1>1, <1>3
<1>4. CASE s # r
  <2>1. Exact(it[s], spaces, keyOf, promised[s], visits[s])
    BY DEF ExactInv
  <2>2. QED  BY <1>1, <1>4, <2>1
<1>5. QED  BY <1>3, <1>4

(* On to a node that it has not stood on: the next of its bucket.          *)
LEMMA VisitOne ==
    ASSUME TypeInv, SpaceInv, NEW p \in Positions, p.pc \in {"bucket", "at"}, p.bin \in Bins,
           p.space \in DOMAIN spaces[p.bin], p.bucket < Size(spaces[p.bin][p.space]),
           NEW q, q.pc = "at", q.bin = p.bin, q.space = p.space, q.bucket = p.bucket,
           q.index = Unvisited(p), NEW n0,
           Unvisited(p) \in DOMAIN BucketAt(p).nodes, n0 = BucketAt(p).nodes[Unvisited(p)],
           NEW pr, NEW vs, NEW ws, Visited(p, spaces, keyOf, pr, vs),
           vs[n0] = 0 => ws[n0] = 1, \A n \in NodeIds : n # n0 => ws[n] = vs[n]
    PROVE  Visited(q, spaces, keyOf, pr, ws)
<1> DEFINE space == spaces[p.bin][p.space]
           u == Unvisited(p)
<1>1. /\ space \in SpaceSet /\ p.bucket \in DOMAIN space /\ BucketAt(p) = space[p.bucket]
      /\ space[p.bucket].nodes \in Seq(NodeIds)
      /\ IsInjective(space[p.bucket].nodes) /\ n0 \in Created /\ BinOf(keyOf[n0]) = p.bin
      /\ p.bucket = FromHash(space, Hash[keyOf[n0]])
  BY BucketFacts
<1>2. DOMAIN space \subseteq Nat /\ p.bucket \in Nat
  <2>1. p.bucket \in Nat
    BY DEF Positions
  <2>2. DOMAIN space = 0 .. Size(space) - 1 /\ Size(space) \in Nat \ {0}
    BY <1>1, SpaceFacts
  <2> HIDE DEF space
  <2>3. DOMAIN space \subseteq Nat
    BY <2>2
  <2>4. QED  BY <2>1, <2>3
<1>3. \A j \in DOMAIN space : \A n \in Range(space[j].nodes) :
         n \in Created /\ BinOf(keyOf[n]) = p.bin /\ j = FromHash(space, Hash[keyOf[n]])
  BY DEF SpaceInv
<1>4. Created \subseteq NodeIds /\ \A n \in Created : BinOf(keyOf[n]) \in Bins
  <2>1. Created \subseteq NodeIds /\ \A n \in Created : keyOf[n] \in Keys
    BY NodeSets
  <2>2. QED  BY <2>1, BinFacts
<1>5. /\ \A n \in NodeIds : vs[n] <= 1 /\ (n \notin Created => vs[n] = 0)
      /\ \A n \in Created :
            /\ BinOf(keyOf[n]) < p.bin /\ n \in pr => vs[n] = 1
            /\ BinOf(keyOf[n]) > p.bin => vs[n] = 0 /\ n \notin pr
      /\ \A n \in pr : BinOf(keyOf[n]) = p.bin => \E j \in DOMAIN space : n \in Range(space[j].nodes)
      /\ \A j \in DOMAIN space : \A i \in DOMAIN space[j].nodes :
            /\ j < p.bucket /\ space[j].nodes[i] \in pr => vs[space[j].nodes[i]] = 1
            /\ j > p.bucket => vs[space[j].nodes[i]] = 0
            /\ j = p.bucket => vs[space[j].nodes[i]] = IF i < Unvisited(p) THEN 1 ELSE 0
  BY DEF Visited, Inside, Created
<1>6. u \in DOMAIN space[p.bucket].nodes /\ n0 = space[p.bucket].nodes[u] /\ u \in Nat
  <2>1. u \in DOMAIN space[p.bucket].nodes /\ n0 = space[p.bucket].nodes[u]
    BY <1>1
  <2>2. Unvisited(p) \in Nat
    BY DEF Unvisited, Positions
  <2>3. QED  BY <2>1, <2>2
<1>7. Unvisited(q) = u + 1 /\ u = Unvisited(p)
  BY DEF Unvisited
<1>8. /\ q.bin = p.bin /\ q.bucket = p.bucket /\ q.pc = "at" /\ spaces[q.bin][q.space] = space
      /\ p.bin \in Nat
  BY DEF Bins
<1> HIDE DEF space, u
<1>9. vs[n0] = 0
  <2>1. vs[n0] = IF u < u THEN 1 ELSE 0
    BY ONLY <1>1, <1>5, <1>6, <1>7
  <2>2. QED  BY ONLY <2>1, <1>6
<1>10. n0 \in NodeIds /\ ws[n0] = 1 /\ \A n \in NodeIds : n # n0 => ws[n] = vs[n]
  BY <1>1, <1>4, <1>9
<1>11. \A n \in NodeIds : ws[n] <= 1 /\ (n \notin Created => ws[n] = 0)
  BY ONLY <1>1, <1>5, <1>10
<1>12. \A n \in Created :
          /\ BinOf(keyOf[n]) < p.bin /\ n \in pr => ws[n] = 1
          /\ BinOf(keyOf[n]) > p.bin => ws[n] = 0 /\ n \notin pr
  BY ONLY <1>1, <1>4, <1>5, <1>8, <1>10
<1>13. ASSUME NEW j \in DOMAIN space, NEW i \in DOMAIN space[j].nodes
       PROVE  /\ j < p.bucket /\ space[j].nodes[i] \in pr => ws[space[j].nodes[i]] = 1
              /\ j > p.bucket => ws[space[j].nodes[i]] = 0
              /\ j = p.bucket => ws[space[j].nodes[i]] = IF i < u + 1 THEN 1 ELSE 0
  <2>1. PICK n : n = space[j].nodes[i]
    OBVIOUS
  <2>2. n \in Range(space[j].nodes)
    BY <2>1 DEF Range
  <2>3. n \in NodeIds /\ j = FromHash(space, Hash[keyOf[n]]) /\ j \in Nat
    BY <1>2, <1>3, <1>4, <2>2
  <2>4. CASE n = n0
    <3>1. j = p.bucket
      BY <1>1, <2>3, <2>4
    <3>2. i = u
      BY ONLY <1>1, <1>6, <2>1, <2>4, <3>1, i \in DOMAIN space[j].nodes DEF IsInjective
    <3>3. QED  BY <1>2, <1>6, <1>10, <2>1, <2>4, <3>1, <3>2
  <2>5. CASE n # n0
    <3>1. ws[n] = vs[n]
      BY <1>10, <2>3, <2>5
    <3>2. j = p.bucket => i # u /\ i \in Nat
      <4>1. j = p.bucket => i # u
        BY <1>6, <2>1, <2>5
      <4>2. j = p.bucket => i \in Nat
        BY ONLY <1>1, i \in DOMAIN space[j].nodes
      <4>3. QED  BY <4>1, <4>2
    <3>3. /\ j < p.bucket /\ n \in pr => vs[n] = 1
          /\ j > p.bucket => vs[n] = 0
          /\ j = p.bucket => vs[n] = IF i < u THEN 1 ELSE 0
      BY <1>5, <1>7, <2>1
    <3>4. j = p.bucket => (i < u <=> i < u + 1)
      BY <1>6, <3>2
    <3>5. QED  BY <2>1, <3>1, <3>3, <3>4
  <2>6. QED  BY <2>4, <2>5
<1>14. Inside(q, space, keyOf, pr, ws)
  BY <1>5, <1>7, <1>8, <1>13 DEF Inside
<1>15. QED  BY <1>8, <1>11, <1>12, <1>14 DEF Visited, Created

(* On to the next bucket, when it has stood on all nodes of its bucket.    *)
LEMMA LeaveBucket ==
    ASSUME TypeInv, SpaceInv, NEW p \in Positions, p.pc \in {"bucket", "at"}, p.bin \in Bins,
           p.space \in DOMAIN spaces[p.bin], p.bucket < Size(spaces[p.bin][p.space]),
           p.pc = "at" => p.index \in DOMAIN BucketAt(p).nodes,
           NEW q, q.pc = "bucket", q.bin = p.bin, q.space = p.space, q.bucket = p.bucket + 1,
           Unvisited(p) \notin DOMAIN BucketAt(p).nodes,
           NEW pr, NEW vs, Visited(p, spaces, keyOf, pr, vs)
    PROVE  Visited(q, spaces, keyOf, pr, vs)
<1> DEFINE space == spaces[p.bin][p.space]
           u == Unvisited(p)
<1>1. /\ space \in SpaceSet /\ p.bucket \in DOMAIN space /\ BucketAt(p) = space[p.bucket]
      /\ space[p.bucket].nodes \in Seq(NodeIds)
  BY BucketFacts
<1>2. DOMAIN space \subseteq Nat /\ p.bucket \in Nat
  BY <1>1, SpaceFacts
<1>3. /\ \A n \in pr : BinOf(keyOf[n]) = p.bin => \E j \in DOMAIN space : n \in Range(space[j].nodes)
      /\ \A j \in DOMAIN space : \A i \in DOMAIN space[j].nodes :
            /\ j < p.bucket /\ space[j].nodes[i] \in pr => vs[space[j].nodes[i]] = 1
            /\ j > p.bucket => vs[space[j].nodes[i]] = 0
            /\ j = p.bucket => vs[space[j].nodes[i]] = IF i < Unvisited(p) THEN 1 ELSE 0
  BY DEF Visited, Inside
<1>4. \A i \in DOMAIN space[p.bucket].nodes : i < u
  <2> DEFINE list == space[p.bucket].nodes
  <2>1. list \in Seq(NodeIds) /\ u \notin DOMAIN list
    BY <1>1
  <2>2. p.pc = "at" => p.index \in DOMAIN list
    BY <1>1
  <2>3. (p.pc = "at" /\ u = p.index + 1) \/ u = 1
    BY DEF Unvisited
  <2> HIDE DEF list, u
  <2>4. DOMAIN list = 1 .. Len(list) /\ Len(list) \in Nat
    BY <2>1
  <2>5. u \in Nat /\ u > Len(list)
    BY <2>1, <2>2, <2>3, <2>4
  <2>6. \A i \in DOMAIN list : i < u
    BY <2>4, <2>5
  <2>7. QED  BY <2>6 DEF list
<1>5. Unvisited(q) = 1 /\ u = Unvisited(p)
  BY DEF Unvisited
<1>6. /\ q.bin = p.bin /\ q.bucket = p.bucket + 1 /\ spaces[q.bin][q.space] = space
  OBVIOUS
<1> HIDE DEF space, u
<1>7. ASSUME NEW j \in DOMAIN space, NEW i \in DOMAIN space[j].nodes
      PROVE  /\ j < p.bucket + 1 /\ space[j].nodes[i] \in pr => vs[space[j].nodes[i]] = 1
             /\ j > p.bucket + 1 => vs[space[j].nodes[i]] = 0
             /\ j = p.bucket + 1 => vs[space[j].nodes[i]] = IF i < 1 THEN 1 ELSE 0
  <2>1. PICK n : n = space[j].nodes[i]
    OBVIOUS
  <2>2. /\ j < p.bucket /\ n \in pr => vs[n] = 1
        /\ j > p.bucket => vs[n] = 0
        /\ j = p.bucket => vs[n] = 1
    BY <1>3, <1>4, <1>5, <2>1
  <2>3. j \in Nat /\ p.bucket \in Nat
    BY <1>2
  <2>4. j = p.bucket + 1 => ~(i < 1)
    <3>1. space[j].nodes \in Seq(NodeIds)
      BY <1>1 DEF SpaceSet, Buckets
    <3>2. QED  BY <3>1
  <2>5. QED  BY <2>1, <2>2, <2>3, <2>4
<1>8. Inside(q, space, keyOf, pr, vs)
  BY <1>3, <1>5, <1>6, <1>7 DEF Inside
<1>9. QED  BY <1>6, <1>8 DEF Visited


(* On to the next node that it has not stood on, from an unchanged bucket. *)
LEMMA MoveToKeepsExact ==
    ASSUME IndInv, ExactInv, NEW r \in Iterators, NEW p \in Positions, MoveTo(r, p),
           it[r].pc \in {"bucket", "at"}, it[r].bucket < Size(spaces[it[r].bin][it[r].space]),
           ~Stuck(it[r], spaces), p.bin = it[r].bin, p.space = it[r].space,
           p.bucket = it[r].bucket, p.gen = BucketAt(it[r]).gen, p.index = Unvisited(it[r]),
           UNCHANGED <<table, op, promised>>
    PROVE  ExactInv'
<1>1. /\ TypeInv /\ SpaceInv /\ it[r] \in Positions
      /\ it[r].bin \in Bins /\ it[r].space \in DOMAIN spaces[it[r].bin]
  BY DEF IndInv, TypeInv, IterInv
<1>2. PICK old \in Positions : old = it[r]
  BY <1>1
<1>3. PICK pr : pr = promised[r]
  OBVIOUS
<1>4. PICK vs \in [NodeIds -> 0 .. 2] : vs = visits[r]
  BY <1>1 DEF TypeInv
<1>5. /\ old.pc \in {"bucket", "at"} /\ old.bin \in Bins /\ old.space \in DOMAIN spaces[old.bin]
      /\ old.bucket < Size(spaces[old.bin][old.space]) /\ BucketAt(old) = BucketAt(p)
  BY <1>1, <1>2 DEF BucketAt
<1>6. pr # Void => /\ pr \subseteq Created /\ Visited(old, spaces, keyOf, pr, vs)
                   /\ old.pc = "at" => old.index \in DOMAIN BucketAt(old).nodes
  BY <1>2, <1>3, <1>4, <1>5 DEF ExactInv, Exact, Stands, Created, BucketOf, BucketAt
<1>7. /\ UNCHANGED <<spaces, keyOf>> /\ promised' = promised
  BY DEF table
<1> DEFINE nodes == BucketAt(p).nodes
<1>8. MoveTo(r, p) /\ p.index = Unvisited(old) /\ p.gen = BucketAt(p).gen
  BY <1>2, <1>5
<1>9. CASE p.index \in DOMAIN nodes
  <2> DEFINE q == [p EXCEPT !.pc = "at", !.node = nodes[p.index]]
  <2>1. it' = [it EXCEPT ![r] = q]
    BY <1>8, <1>9 DEF MoveTo
  <2>2. visits' = [visits EXCEPT ![r][nodes[p.index]] = IF @ = 2 THEN 2 ELSE @ + 1]
    BY <1>8, <1>9 DEF MoveTo
  <2>3. PICK n0 : n0 = nodes[p.index]
    OBVIOUS
  <2>4. n0 \in NodeIds
    <3>1. nodes \in Seq(NodeIds)
      BY <1>1, <1>2, <1>5, BucketFacts
    <3> HIDE DEF nodes
    <3>2. QED  BY ONLY <1>9, <2>3, <3>1
  <2>5. /\ \A s \in Iterators : s # r => visits'[s] = visits[s]
        /\ vs[n0] = 0 => visits'[r][n0] = 1
        /\ \A n \in NodeIds : n # n0 => visits'[r][n] = vs[n]
    <3>1. visits' = [visits EXCEPT ![r][n0] = IF @ = 2 THEN 2 ELSE @ + 1]
      BY <2>2, <2>3
    <3>2. visits \in [Iterators -> [NodeIds -> 0 .. 2]]
      BY <1>1 DEF TypeInv
    <3>3. QED  BY ONLY <1>4, <2>4, <3>1, <3>2, r \in Iterators
  <2>6. /\ q.pc = "at" /\ q.bin = old.bin /\ q.space = old.space /\ q.bucket = old.bucket
        /\ q.index = Unvisited(old) /\ q.node = n0 /\ q.gen = BucketAt(old).gen
    BY <1>2, <1>5, <1>8, <2>3 DEF Positions
  <2> HIDE DEF q
  <2>7. PICK e : e = q
    OBVIOUS
  <2>8. PICK ws : ws = visits'[r]
    OBVIOUS
  <2>9. Unvisited(old) \in DOMAIN BucketAt(old).nodes /\ n0 = BucketAt(old).nodes[Unvisited(old)]
    BY <1>5, <1>8, <1>9, <2>3
  <2>10. pr # Void => Visited(e, spaces, keyOf, pr, ws)
    BY <1>1, <1>5, <1>6, <2>5, <2>6, <2>7, <2>8, <2>9, VisitOne
  <2>11. Stands(e, spaces) /\ ~Stuck(e, spaces)
    <3>1. BucketOf(e, spaces) = BucketAt(old) /\ e.gen = BucketOf(e, spaces).gen
      BY <2>6, <2>7 DEF BucketOf, BucketAt
    <3>2. BucketAt(old).gen \in Nat
      BY <1>1, <1>5, BucketFacts
    <3>3. e.node \in Range(BucketAt(old).nodes) /\ e.index \in DOMAIN BucketAt(old).nodes
      BY <2>6, <2>7, <2>9 DEF Range
    <3>4. QED  BY <3>1, <3>2, <3>3 DEF Stands, Stuck
  <2>12. Exact(e, spaces, keyOf, pr, ws)
    BY <1>6, <2>6, <2>7, <2>10, <2>11 DEF Exact, Created
  <2>13. Exact(e, spaces, keyOf, promised'[r], visits'[r])
    BY <1>3, <1>7, <2>8, <2>12
  <2>14. it' = [it EXCEPT ![r] = e]
    BY <2>1, <2>7
  <2>15. QED  BY <1>7, <2>5, <2>13, <2>14, OneIteratorMoves
<1>10. CASE p.index \notin DOMAIN nodes
  <2> DEFINE q == [p EXCEPT !.pc = "bucket", !.node = 0, !.bucket = @ + 1]
  <2>1. it' = [it EXCEPT ![r] = q] /\ visits' = visits
    BY <1>8, <1>10 DEF MoveTo
  <2>2. /\ q.pc = "bucket" /\ q.bin = old.bin /\ q.space = old.space
        /\ q.bucket = old.bucket + 1
    BY <1>2 DEF Positions
  <2> HIDE DEF q
  <2>3. PICK e : e = q
    OBVIOUS
  <2>4. Unvisited(old) \notin DOMAIN BucketAt(old).nodes
    BY <1>5, <1>8, <1>10
  <2>5. pr # Void => Visited(e, spaces, keyOf, pr, vs)
    BY <1>1, <1>5, <1>6, <2>2, <2>3, <2>4, LeaveBucket
  <2>6. Stands(e, spaces)
    BY <2>2, <2>3 DEF Stands
  <2>7. Exact(e, spaces, keyOf, pr, vs)
    BY <1>6, <2>2, <2>3, <2>5, <2>6 DEF Exact, Created
  <2>8. Exact(e, spaces, keyOf, promised'[r], visits'[r])
    BY <1>3, <1>4, <1>7, <2>1, <2>7
  <2>9. it' = [it EXCEPT ![r] = e]
    BY <2>1, <2>3
  <2>10. QED  BY <1>7, <2>1, <2>8, <2>9, OneIteratorMoves
<1>11. QED  BY <1>9, <1>10

(* On from a changed bucket: the search finds the node on which the        *)
(* iterator stands, or one with the same hash before it.                   *)
LEMMA StuckStaysStuck ==
    ASSUME IndInv, ExactInv, NEW r \in Iterators, it[r].pc = "at", promised[r] # Void,
           Stuck(it[r], spaces)
    PROVE  NextIndex(r) \in DOMAIN BucketAt(it[r]).nodes
<1>1. /\ it[r].node \in Range(BucketOf(it[r], spaces).nodes)
      /\ BucketOf(it[r], spaces) = BucketAt(it[r])
  BY DEF ExactInv, Exact, Stands, BucketOf, BucketAt
<1>2. it[r].gen # BucketAt(it[r]).gen
  BY <1>1 DEF Stuck
<1>3. /\ it[r] \in Positions /\ it[r].bin \in Bins /\ it[r].space \in DOMAIN spaces[it[r].bin]
      /\ it[r].bucket < Size(spaces[it[r].bin][it[r].space])
  BY DEF IndInv, TypeInv, IterInv
<1>4. /\ BucketAt(it[r]).nodes \in Seq(NodeIds)
      /\ \A i \in DOMAIN BucketAt(it[r]).nodes : BucketAt(it[r]).nodes[i] \in Created
  BY <1>3, BucketFacts DEF IndInv
<1> DEFINE nodes == BucketAt(it[r]).nodes
           h == HashAt(r)
<1>5. PICK i \in DOMAIN nodes : nodes[i] = it[r].node
  BY <1>1 DEF Range
<1>6. h = Hash[keyOf[nodes[i]]] /\ Hash[keyOf[nodes[i]]] \in Nat
  <2>1. nodes[i] \in Created
    BY <1>4
  <2>2. keyOf[nodes[i]] \in Keys
    BY <2>1, NodeSets DEF IndInv
  <2>3. QED  BY <1>5, <2>2, BinFacts DEF HashAt
<1>7. NextIndex(r) = SkipLower(nodes, h)
  BY <1>2 DEF NextIndex
<1>8. nodes \in Seq(NodeIds)
  BY <1>4
<1> HIDE DEF nodes, h
<1>9. Hash[keyOf[nodes[i]]] >= h
  BY <1>6
<1>10. QED  BY <1>5, <1>7, <1>8, <1>9, SkipLowerFacts DEF nodes


(* The steps of iterators.                                                 *)
LEMMA IteratorKeepsExact ==
    ASSUME IndInv, ExactInv, NEW r \in Iterators, Begin(r) \/ IterStep(r)
    PROVE  ExactInv'
<1>1. /\ TypeInv /\ SpaceInv /\ PlaceInv
      /\ it[r].pc \in {"bucket", "at"} => it[r].bin \in Bins /\ it[r].space \in DOMAIN spaces[it[r].bin]
      /\ it[r].pc = "at" => it[r].bucket < Size(spaces[it[r].bin][it[r].space])
  BY DEF IndInv, IterInv
<1>2. PICK p \in Positions : p = it[r]
  BY <1>1 DEF TypeInv
<1>3. PICK pr : pr = promised[r]
  OBVIOUS
<1>4. PICK vs \in [NodeIds -> 0 .. 2] : vs = visits[r]
  BY <1>1 DEF TypeInv
<1>5. Exact(p, spaces, keyOf, pr, vs)
  BY <1>2, <1>3, <1>4 DEF ExactInv
<1>6. /\ Created \subseteq NodeIds /\ \A n \in Created : BinOf(keyOf[n]) \in Bins
      /\ \A b \in Bins : b \in Nat
  <2>1. Created \subseteq NodeIds /\ \A n \in Created : keyOf[n] \in Keys
    BY <1>1, NodeSets
  <2>2. QED  BY <2>1, BinFacts DEF Bins
<1>7. CASE Begin(r)
  <2>1. /\ p.pc = "new" /\ UNCHANGED <<spaces, keyOf, visits, promised>>
        /\ it' = [it EXCEPT ![r].pc = "bin"]
    BY <1>2, <1>7 DEF Begin, table
  <2>2. PICK q : q = [p EXCEPT !.pc = "bin"]
    OBVIOUS
  <2>3. it' = [it EXCEPT ![r] = q]
    BY <1>2, <2>1, <2>2
  <2>4. p = Start /\ pr = {} /\ vs = [n \in NodeIds |-> 0]
    BY <1>5, <2>1 DEF Exact
  <2>5. q.pc = "bin" /\ q.bin = 0
    BY <2>2, <2>4 DEF Start
  <2>6. Visited(q, spaces, keyOf, pr, vs)
    <3>1. \A n \in NodeIds : vs[n] = 0
      BY <2>4
    <3>2. \A n \in Created : vs[n] = 0 /\ n \notin pr /\ ~(BinOf(keyOf[n]) < 0)
      BY <1>6, <2>4, <3>1
    <3>3. QED  BY ONLY <2>5, <3>1, <3>2 DEF Visited, Created
  <2>7. Exact(q, spaces, keyOf, pr, vs)
    BY <2>4, <2>5, <2>6 DEF Exact, Stands
  <2>8. Exact(q, spaces, keyOf, promised'[r], visits'[r])
    BY <1>3, <1>4, <2>1, <2>7
  <2>9. QED  BY <2>1, <2>3, <2>8, OneIteratorMoves
<1>8. CASE OpenBin(r)
  <2> DEFINE b == p.bin
  <2>1. /\ p.pc = "bin" /\ b < BinCount /\ UNCHANGED <<spaces, keyOf, visits>>
        /\ it' = [it EXCEPT ![r].pc = "bucket", ![r].space = Len(spaces[b]), ![r].bucket = 0]
        /\ promised' = [promised EXCEPT ![r] =
                          IF @ = Void THEN Void ELSE @ \cup NodesOf(Current(b))]
    BY <1>2, <1>8 DEF OpenBin, table
  <2>2. b \in Bins
    BY <2>1, TableConstants DEF Positions, Bins
  <2>3. PICK q : q = [p EXCEPT !.pc = "bucket", !.space = Len(spaces[b]), !.bucket = 0]
    OBVIOUS
  <2>4. it' = [it EXCEPT ![r] = q]
    BY <1>2, <2>1, <2>3
  <2>5. q.pc = "bucket" /\ q.bin = b /\ q.space = Len(spaces[b]) /\ q.bucket = 0
    BY <2>3 DEF Positions
  <2>6. PICK pn : pn = promised'[r]
    OBVIOUS
  <2>7. /\ pn = IF pr = Void THEN Void ELSE pr \cup Live(b)
        /\ \A s \in Iterators : s # r => promised'[s] = promised[s]
    <3>1. NodesOf(Current(b)) = Live(b)
      BY <1>1, <2>2, PlaceFacts
    <3>2. promised' = [promised EXCEPT ![r] = IF @ = Void THEN Void ELSE @ \cup Live(b)]
      BY <2>1, <3>1
    <3>3. promised \in [Iterators -> SUBSET (NodeIds \cup {0})]
      BY <1>1 DEF TypeInv
    <3>4. QED  BY ONLY <1>3, <2>6, <3>2, <3>3, r \in Iterators
  <2>8. Exact(q, spaces, keyOf, pn, vs)
    <3>1. CASE pr = Void
      BY <2>5, <2>7, <3>1 DEF Exact
    <3>2. CASE pr # Void
      <4>1. Visited(p, spaces, keyOf, pr, vs) /\ pr \subseteq Created
        BY <1>5, <2>1, <3>2 DEF Exact, Stuck, Created
      <4>2. pn = pr \cup Live(b) /\ Live(b) \subseteq Created
        BY <2>7, <3>2 DEF Live
      <4>3. /\ \A n \in NodeIds : vs[n] <= 1 /\ (n \notin Created => vs[n] = 0)
            /\ \A n \in Created :
                  /\ BinOf(keyOf[n]) < b /\ n \in pr => vs[n] = 1
                  /\ BinOf(keyOf[n]) > b \/ BinOf(keyOf[n]) = b => vs[n] = 0 /\ n \notin pr
        BY <2>1, <4>1 DEF Visited, Created
      <4>4. \A n \in Live(b) : BinOf(keyOf[n]) = b
        BY DEF Live
      <4>5. b \in Nat
        BY <1>6, <2>2
      <4> HIDE DEF b
      <4>6. \A n \in Created :
               /\ BinOf(keyOf[n]) < b /\ n \in pn => vs[n] = 1
               /\ BinOf(keyOf[n]) > b => vs[n] = 0 /\ n \notin pn
        BY ONLY <1>6, <4>2, <4>3, <4>4, <4>5
      <4>7. PICK space : space = Current(b)
        OBVIOUS
      <4>8. /\ space \in SpaceSet /\ spaces[b][Len(spaces[b])] = space
            /\ NodesOf(space) = Live(b)
        BY <1>1, <2>2, <4>7, CurrentFacts, PlaceFacts
      <4>9. DOMAIN space \subseteq Nat
        <5>1. DOMAIN space = 0 .. Size(space) - 1 /\ Size(space) \in Nat \ {0}
          BY <4>8, SpaceFacts
        <5>2. QED  BY <5>1
      <4>10. \A n \in pn : BinOf(keyOf[n]) = b => \E j \in DOMAIN space : n \in Range(space[j].nodes)
        <5>1. NodesOf(space) = UNION {Range(space[i].nodes) : i \in DOMAIN space}
          BY <4>8, InOrderFacts
        <5>2. \A n \in pn : BinOf(keyOf[n]) = b => n \in NodesOf(space)
          BY <4>1, <4>2, <4>3, <4>8
        <5>3. QED  BY <5>1, <5>2
      <4>11. ASSUME NEW j \in DOMAIN space, NEW i \in DOMAIN space[j].nodes
             PROVE  /\ j < 0 /\ space[j].nodes[i] \in pn => vs[space[j].nodes[i]] = 1
                    /\ j > 0 => vs[space[j].nodes[i]] = 0
                    /\ j = 0 => vs[space[j].nodes[i]] = IF i < 1 THEN 1 ELSE 0
        <5>1. PICK n : n = space[j].nodes[i]
          OBVIOUS
        <5>2. n \in Range(space[j].nodes)
          BY <5>1 DEF Range
        <5>3. n \in Created /\ BinOf(keyOf[n]) = b
          <6>1. Len(spaces[b]) \in DOMAIN spaces[b]
            BY <1>1, <2>2, CurrentFacts
          <6>2. QED  BY <1>1, <2>2, <4>8, <5>2, <6>1 DEF SpaceInv
        <5>4. vs[n] = 0
          BY <4>3, <5>3
        <5>5. space[j].nodes \in Seq(NodeIds)
          BY <4>8 DEF SpaceSet, Buckets
        <5>6. i >= 1 /\ i \in Nat
          <6> DEFINE list == space[j].nodes
          <6>1. list \in Seq(NodeIds) /\ i \in DOMAIN list
            BY <5>5
          <6> HIDE DEF list
          <6>2. QED  BY ONLY <6>1
        <5>7. j \in Nat
          BY <4>9
        <5>8. QED  BY ONLY <5>1, <5>4, <5>6, <5>7
      <4>12. Unvisited(q) = 1
        BY <2>5 DEF Unvisited
      <4>13. Inside(q, space, keyOf, pn, vs)
        BY ONLY <2>5, <4>10, <4>11, <4>12 DEF Inside
      <4>14. Visited(q, spaces, keyOf, pn, vs)
        BY ONLY <2>5, <4>3, <4>6, <4>8, <4>13 DEF Visited, Created
      <4>15. Stands(q, spaces) /\ pn \subseteq Created
        BY <2>5, <4>1, <4>2 DEF Stands
      <4>16. QED  BY <2>5, <4>14, <4>15 DEF Exact, Created
    <3>3. QED  BY <3>1, <3>2
  <2>9. Exact(q, spaces, keyOf, promised'[r], visits'[r])
    BY <1>4, <2>1, <2>6, <2>8
  <2>10. QED  BY <2>1, <2>4, <2>7, <2>9, OneIteratorMoves
<1>9. CASE OpenBucket(r)
  <2>1. /\ it[r].pc = "bucket" /\ it[r].bucket < Size(spaces[it[r].bin][it[r].space])
        /\ MoveTo(r, [it[r] EXCEPT !.gen = BucketAt(it[r]).gen, !.index = 1])
        /\ UNCHANGED <<table, op, promised>>
    BY <1>9 DEF OpenBucket
  <2>2. PICK e : e = [it[r] EXCEPT !.gen = BucketAt(it[r]).gen, !.index = 1]
    OBVIOUS
  <2>3. MoveTo(r, e)
    BY <2>1, <2>2
  <2>4. e.pc = it[r].pc /\ e.bin = it[r].bin /\ e.space = it[r].space /\ e.bucket = it[r].bucket
        /\ e.gen = BucketAt(it[r]).gen /\ e.index = 1
    BY <1>2, <2>2 DEF Positions
  <2>5. BucketAt(it[r]).gen \in Nat
    BY <1>1, <1>2, <2>1, BucketFacts
  <2>6. e \in Positions
    BY <1>2, <2>2, <2>5 DEF Positions
  <2>7. Unvisited(it[r]) = 1 /\ ~Stuck(it[r], spaces)
    BY <2>1 DEF Unvisited, Stuck
  <2>8. QED  BY <2>1, <2>3, <2>4, <2>6, <2>7, MoveToKeepsExact
<1>10. CASE BinEnds(r)
  <2>1. /\ p.pc = "bucket" /\ p.bucket = Size(spaces[p.bin][p.space])
        /\ UNCHANGED <<spaces, keyOf, visits, promised>>
        /\ it' = [it EXCEPT ![r].pc = "bin", ![r].bin = @ + 1]
    BY <1>2, <1>10 DEF BinEnds, table
  <2>2. PICK q : q = [p EXCEPT !.pc = "bin", !.bin = @ + 1]
    OBVIOUS
  <2>3. it' = [it EXCEPT ![r] = q]
    BY <1>2, <2>1, <2>2
  <2>4. q.pc = "bin" /\ q.bin = p.bin + 1
    BY <2>2 DEF Positions
  <2>5. ASSUME pr # Void PROVE Visited(q, spaces, keyOf, pr, vs) /\ pr \subseteq Created
    <3>1. Visited(p, spaces, keyOf, pr, vs) /\ pr \subseteq Created
      BY <1>5, <2>1, <2>5 DEF Exact, Stuck, Created
    <3>2. PICK space : space = spaces[p.bin][p.space]
      OBVIOUS
    <3>3. p.bin \in Bins /\ p.space \in DOMAIN spaces[p.bin] /\ p.bucket = Size(space)
      BY <1>1, <1>2, <2>1, <3>2
    <3>4. /\ \A n \in NodeIds : vs[n] <= 1 /\ (n \notin Created => vs[n] = 0)
          /\ \A n \in Created :
                /\ BinOf(keyOf[n]) < p.bin /\ n \in pr => vs[n] = 1
                /\ BinOf(keyOf[n]) > p.bin => vs[n] = 0 /\ n \notin pr
          /\ \A n \in pr : BinOf(keyOf[n]) = p.bin => \E j \in DOMAIN space : n \in Range(space[j].nodes)
          /\ \A j \in DOMAIN space : \A i \in DOMAIN space[j].nodes :
                j < p.bucket /\ space[j].nodes[i] \in pr => vs[space[j].nodes[i]] = 1
      BY <2>1, <3>1, <3>2 DEF Visited, Inside, Created
    <3>5. \A j \in DOMAIN space : j < p.bucket
      <4>1. space \in SpaceSet
        BY <1>1, <3>2, <3>3, CurrentFacts
      <4>2. DOMAIN space = 0 .. Size(space) - 1 /\ Size(space) \in Nat \ {0}
        BY <4>1, SpaceFacts
      <4>3. QED  BY ONLY <3>3, <4>2
    <3>6. ASSUME NEW n \in Created, BinOf(keyOf[n]) = p.bin, n \in pr
          PROVE  vs[n] = 1
      <4>1. PICK j \in DOMAIN space : n \in Range(space[j].nodes)
        BY <3>4, <3>6
      <4>2. PICK i \in DOMAIN space[j].nodes : n = space[j].nodes[i]
        BY <4>1 DEF Range
      <4>3. QED  BY <3>4, <3>5, <3>6, <4>2
    <3>7. p.bin \in Nat
      BY <1>6, <3>3
    <3>8. \A n \in Created :
             /\ BinOf(keyOf[n]) < q.bin /\ n \in pr => vs[n] = 1
             /\ BinOf(keyOf[n]) > q.bin \/ BinOf(keyOf[n]) = q.bin => vs[n] = 0 /\ n \notin pr
      BY ONLY <1>6, <2>4, <3>4, <3>6, <3>7
    <3>9. Visited(q, spaces, keyOf, pr, vs)
      BY ONLY <2>4, <3>4, <3>8 DEF Visited, Created
    <3>10. QED  BY <3>1, <3>9
  <2>6. Exact(q, spaces, keyOf, pr, vs)
    BY <2>4, <2>5 DEF Exact, Stands, Created
  <2>7. Exact(q, spaces, keyOf, promised'[r], visits'[r])
    BY <1>3, <1>4, <2>1, <2>6
  <2>8. QED  BY <2>1, <2>3, <2>7, OneIteratorMoves
<1>11. CASE End(r)
  <2>1. /\ p.pc = "bin" /\ p.bin = BinCount /\ UNCHANGED <<spaces, keyOf, visits, promised>>
        /\ it' = [it EXCEPT ![r].pc = "end"]
    BY <1>2, <1>11 DEF End, table
  <2>2. PICK q : q = [p EXCEPT !.pc = "end"]
    OBVIOUS
  <2>3. it' = [it EXCEPT ![r] = q]
    BY <1>2, <2>1, <2>2
  <2>4. q.pc = "end" /\ q.bin = p.bin
    BY <2>2 DEF Positions
  <2>5. Visited(p, spaces, keyOf, pr, vs) => Visited(q, spaces, keyOf, pr, vs)
    BY ONLY <2>1, <2>4 DEF Visited
  <2>6. Exact(q, spaces, keyOf, pr, vs)
    BY <1>5, <2>1, <2>4, <2>5 DEF Exact, Stands, Stuck
  <2>7. Exact(q, spaces, keyOf, promised'[r], visits'[r])
    BY <1>3, <1>4, <2>1, <2>6
  <2>8. QED  BY <2>1, <2>3, <2>7, OneIteratorMoves
<1>12. CASE NextNode(r)
  <2>1. /\ it[r].pc = "at" /\ MoveTo(r, [it[r] EXCEPT !.index = NextIndex(r)])
        /\ UNCHANGED <<table, op, promised>>
    BY <1>12 DEF NextNode
  <2>2. PICK e : e = [it[r] EXCEPT !.index = NextIndex(r)]
    OBVIOUS
  <2>3. MoveTo(r, e)
    BY <2>1, <2>2
  <2>4. /\ e.pc = it[r].pc /\ e.bin = it[r].bin /\ e.space = it[r].space /\ e.bucket = it[r].bucket
        /\ e.gen = it[r].gen /\ e.index = NextIndex(r)
    BY <1>2, <2>2 DEF Positions
  <2>5. NextIndex(r) \in Nat
    BY <2>1, NextIndexFacts
  <2>6. e \in Positions
    BY <1>2, <2>2, <2>5 DEF Positions
  <2>7. BucketAt(it[r]) = BucketOf(it[r], spaces) /\ BucketAt(e) = BucketAt(it[r])
    BY <2>4 DEF BucketAt, BucketOf
  <2>8. CASE ~Stuck(it[r], spaces)
    <3>1. it[r].gen = BucketAt(it[r]).gen
      BY <2>1, <2>7, <2>8 DEF Stuck
    <3>2. NextIndex(r) = Unvisited(it[r])
      BY <2>1, <3>1 DEF NextIndex, Unvisited
    <3>3. QED  BY <1>1, <2>1, <2>3, <2>4, <2>6, <2>8, <3>1, <3>2, MoveToKeepsExact
  <2>9. CASE Stuck(it[r], spaces) /\ pr # Void
    <3> DEFINE nodes == BucketAt(e).nodes
               q == [e EXCEPT !.pc = "at", !.node = nodes[e.index]]
    <3>1. e.index \in DOMAIN nodes
      BY <1>3, <2>1, <2>4, <2>7, <2>9, StuckStaysStuck
    <3>2. it' = [it EXCEPT ![r] = q]
      BY <2>3, <3>1 DEF MoveTo
    <3>3. visits' = [visits EXCEPT ![r][nodes[e.index]] = IF @ = 2 THEN 2 ELSE @ + 1]
      BY <2>3, <3>1 DEF MoveTo
    <3>4. PICK n0 : n0 = nodes[e.index]
      OBVIOUS
    <3>5. \A s \in Iterators : s # r => visits'[s] = visits[s] /\ promised'[s] = promised[s]
      <4>1. visits' = [visits EXCEPT ![r][n0] = IF @ = 2 THEN 2 ELSE @ + 1]
        BY <3>3, <3>4
      <4>2. visits \in [Iterators -> [NodeIds -> 0 .. 2]] /\ promised' = promised
        BY <1>1, <2>1 DEF TypeInv
      <4>3. QED  BY ONLY <4>1, <4>2, r \in Iterators
    <3>6. /\ q.pc = "at" /\ q.bin = p.bin /\ q.space = p.space /\ q.bucket = p.bucket
          /\ q.gen = p.gen /\ q.node = n0
      BY <1>2, <2>4, <2>6, <3>4 DEF Positions
    <3> HIDE DEF q
    <3>7. PICK f : f = q
      OBVIOUS
    <3>8. BucketOf(f, spaces) = BucketOf(p, spaces) /\ BucketOf(p, spaces).nodes = nodes
      BY <1>2, <2>7, <3>6, <3>7 DEF BucketOf
    <3>9. Stuck(f, spaces)
      BY <1>2, <2>9, <3>6, <3>7, <3>8 DEF Stuck
    <3>10. p.gen <= BucketOf(p, spaces).gen /\ pr \subseteq Created
      BY <1>2, <1>5, <2>1, <2>9 DEF Exact, Stands, Created
    <3>11. n0 \in Range(nodes)
      BY <3>1, <3>4 DEF Range
    <3>12. Stands(f, spaces)
      BY <3>6, <3>7, <3>8, <3>9, <3>10, <3>11 DEF Stands
    <3>13. Exact(f, spaces, keyOf, promised'[r], visits'[r])
      <4>1. promised'[r] = pr
        BY <1>3, <2>1
      <4>2. QED  BY <3>6, <3>7, <3>9, <3>10, <3>12, <4>1 DEF Exact, Created
    <3>14. it' = [it EXCEPT ![r] = f]
      BY <3>2, <3>7
    <3>15. UNCHANGED <<spaces, keyOf>>
      BY <2>1 DEF table
    <3>16. QED  BY <3>5, <3>13, <3>14, <3>15, OneIteratorMoves
  <2>10. CASE pr = Void
    <3>1. \E q : it' = [it EXCEPT ![r] = q] /\ q.pc \in {"at", "bucket"}
      <4>1. CASE e.index \in DOMAIN BucketAt(e).nodes
        <5> DEFINE q == [e EXCEPT !.pc = "at", !.node = BucketAt(e).nodes[e.index]]
        <5>1. it' = [it EXCEPT ![r] = q]
          BY <2>3, <4>1 DEF MoveTo
        <5>2. q.pc = "at"
          BY <2>6 DEF Positions
        <5> HIDE DEF q
        <5>3. QED  BY <5>1, <5>2
      <4>2. CASE e.index \notin DOMAIN BucketAt(e).nodes
        <5> DEFINE q == [e EXCEPT !.pc = "bucket", !.node = 0, !.bucket = @ + 1]
        <5>1. it' = [it EXCEPT ![r] = q]
          BY <2>3, <4>2 DEF MoveTo
        <5>2. q.pc = "bucket"
          BY <2>6 DEF Positions
        <5> HIDE DEF q
        <5>3. QED  BY <5>1, <5>2
      <4>3. QED  BY <4>1, <4>2
    <3>2. PICK q : it' = [it EXCEPT ![r] = q] /\ q.pc \in {"at", "bucket"}
      BY <3>1
    <3>3. UNCHANGED <<spaces, keyOf>> /\ promised' = promised
      BY <2>1 DEF table
    <3>4. \A s \in Iterators : s # r => visits'[s] = visits[s]
      <4>1. \/ visits' = visits
            \/ visits' = [visits EXCEPT ![r][BucketAt(e).nodes[e.index]] = IF @ = 2 THEN 2 ELSE @ + 1]
        BY <2>3 DEF MoveTo
      <4>2. PICK n0 : n0 = BucketAt(e).nodes[e.index]
        OBVIOUS
      <4>3. \/ visits' = visits
            \/ visits' = [visits EXCEPT ![r][n0] = IF @ = 2 THEN 2 ELSE @ + 1]
        BY <4>1, <4>2
      <4>4. visits \in [Iterators -> [NodeIds -> 0 .. 2]]
        BY <1>1 DEF TypeInv
      <4>5. QED  BY ONLY <4>3, <4>4, r \in Iterators
    <3>5. promised'[r] = Void
      BY <1>3, <2>10, <3>3
    <3>6. Exact(q, spaces, keyOf, promised'[r], visits'[r])
      BY <3>2, <3>5 DEF Exact
    <3>7. QED  BY <3>2, <3>3, <3>4, <3>6, OneIteratorMoves
  <2>11. QED  BY <2>8, <2>9, <2>10
<1>13. QED  BY <1>7, <1>8, <1>9, <1>10, <1>11, <1>12 DEF IterStep

(* Every step.                                                             *)
LEMMA NextExact ==
    IndInv /\ ExactInv /\ [Next]_vars => ExactInv'
<1> SUFFICES ASSUME IndInv, ExactInv, [Next]_vars PROVE ExactInv'
  OBVIOUS
<1>1. CASE UNCHANGED vars
  <2>1. UNCHANGED <<spaces, keyOf, it, visits, promised>>
    BY <1>1 DEF vars, table, iteration
  <2>2. QED  BY <2>1, SpacesKeepExact
<1>2. CASE \E t \in Threads : OpStep(t) \/ \E k \in Keys : GetOrCreate(t, k) \/ RemoveKey(t, k)
  BY <1>2, OperationsKeepExact
<1>3. CASE \E r \in Iterators : Begin(r) \/ IterStep(r)
  BY <1>3, IteratorKeepsExact
<1>4. QED  BY <1>1, <1>2, <1>3 DEF Next

(* An iteration that ends without a removal is behind the last bin, and is *)
(* not stuck: it has stood once on everything that was promised.           *)
LEMMA EndsExact ==
    IndInv /\ ExactInv => IterationIsExact
<1> SUFFICES ASSUME IndInv, ExactInv, NEW r \in Iterators, it[r].pc = "end", promised[r] # Void
             PROVE  /\ \A n \in promised[r] : visits[r][n] = 1
                    /\ \A n \in NodeIds : visits[r][n] <= 1
  BY DEF IterationIsExact
<1>1. /\ it[r].bin = BinCount /\ promised[r] \subseteq Created
      /\ Visited(it[r], spaces, keyOf, promised[r], visits[r])
  BY DEF ExactInv, Exact, Stuck, Created
<1>2. /\ \A n \in NodeIds : visits[r][n] <= 1
      /\ \A n \in Created : BinOf(keyOf[n]) < BinCount /\ n \in promised[r] => visits[r][n] = 1
  BY <1>1 DEF Visited, Created
<1>3. \A n \in Created : BinOf(keyOf[n]) < BinCount
  <2>1. \A n \in Created : BinOf(keyOf[n]) \in Bins
    BY NodeSets, BinFacts DEF IndInv
  <2>2. \A b \in Bins : b < BinCount
    BY TableConstants DEF Bins
  <2>3. QED  BY <2>1, <2>2
<1>4. QED  BY <1>1, <1>2, <1>3

(* IterationIsExact: an iteration that ends has stood exactly once on      *)
(* every node that its bin had when the iterator reached it, whatever was  *)
(* inserted and resized meanwhile (hashtable.hpp, BucketIterator and       *)
(* RecursiveIterator).                                                     *)
THEOREM IterationsAreExact ==
    Spec => []IterationIsExact
<1>1. Spec => [](IndInv /\ ExactInv)
  <2>1. Init => ExactInv
    BY InitExact
  <2>2. IndInv /\ ExactInv /\ [Next]_vars => ExactInv'
    BY NextExact
  <2>3. QED  BY <2>1, <2>2, Inductive, PTL DEF Spec
<1>2. IndInv /\ ExactInv => IterationIsExact
  BY EndsExact
<1>3. QED  BY <1>1, <1>2, PTL
=============================================================================
