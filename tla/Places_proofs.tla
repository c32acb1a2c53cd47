---------------------------- MODULE Places_proofs ----------------------------
(* Theorems about sources and places: type correctness, which rests on the
   order of the pending calls and on the stages of a thread's storage; that
   what is created on demand is created once; that the current source is
   that of the top of the stack. At the end, the facts on weighing lists of
   calls and on who changes what that Counts_proofs needs.                 *)
EXTENDS Places, SequenceFacts, FiniteSetTheorems

(* The units of one sign that a function with integer values stands for.   *)
Units(f, sign) == UNION {{x} \X (1 .. sign * f[x]) : x \in DOMAIN f}

(* What the units of a function are.                                       *)
LEMMA UnitsAt ==
    ASSUME NEW f, NEW sign, NEW u
    PROVE  u \in Units(f, sign) <=>
               /\ u = <<u[1], u[2]>> /\ u[1] \in DOMAIN f /\ u[2] \in 1 .. sign * f[u[1]]
BY DEF Units

(* Finitely many values have finitely many units.                          *)
LEMMA UnitsFinite ==
    ASSUME NEW S, IsFiniteSet(S), NEW f \in [S -> Int], NEW sign \in {1, -1}
    PROVE  IsFiniteSet(Units(f, sign)) /\ Cardinality(Units(f, sign)) \in Nat
<1>1. PICK n \in Nat : ExistsBijection(1 .. n, S)
  BY FS_NatBijection
<1>2. PICK b : b \in Bijection(1 .. n, S)
  BY <1>1 DEF ExistsBijection
<1> DEFINE g == [i \in 1 .. n |-> {b[i]} \X (1 .. sign * f[b[i]])]
           R == {{x} \X (1 .. sign * f[x]) : x \in S}
<1>3. g \in Surjection(1 .. n, R)
  <2>1. b \in [1 .. n -> S] /\ \A x \in S : \E i \in 1 .. n : b[i] = x
    BY <1>2 DEF Bijection, Surjection, Injection
  <2>2. \A i \in 1 .. n : g[i] \in R
    BY <2>1
  <2>3. \A r \in R : \E i \in 1 .. n : g[i] = r
    <3>1. TAKE r \in R
    <3>2. PICK x \in S : r = {x} \X (1 .. sign * f[x])
      OBVIOUS
    <3>3. PICK i \in 1 .. n : b[i] = x
      BY <2>1
    <3>4. g[i] = r
      BY <3>2, <3>3
    <3>5. QED  BY <3>4
  <2> HIDE DEF R
  <2>4. QED  BY <2>2, <2>3 DEF Surjection
<1>4. IsFiniteSet(R)
  <2> HIDE DEF R, g
  <2>1. IsFiniteSet(1 .. n)
    BY FS_Interval
  <2>2. QED  BY <1>3, <2>1, FS_Surjection
<1>5. \A r \in R : IsFiniteSet(r)
  <2>1. SUFFICES ASSUME NEW x \in S PROVE IsFiniteSet({x} \X (1 .. sign * f[x]))
    OBVIOUS
  <2> DEFINE k == sign * f[x]
  <2>2. k \in Int
    OBVIOUS
  <2> HIDE DEF k
  <2>3. IsFiniteSet({x}) /\ IsFiniteSet(1 .. k)
    <3>1. IsFiniteSet({x})
      BY FS_Singleton
    <3>2. IsFiniteSet(1 .. k)
      BY <2>2, FS_Interval
    <3>3. QED  BY <3>1, <3>2
  <2>4. IsFiniteSet({x} \X (1 .. k))
    BY <2>3, FS_Product
  <2>5. QED  BY <2>4 DEF k
<1>6. Units(f, sign) = UNION R
  BY DEF Units
<1>7. QED
  <2> HIDE DEF R
  <2>1. IsFiniteSet(UNION R)
    BY <1>4, <1>5, FS_UNION
  <2>2. QED  BY <1>6, <2>1, FS_CardinalityType

(* The total is the number of positive units less that of negative ones.   *)
LEMMA TotalByUnits ==
    ASSUME NEW f
    PROVE  Total(f) = Cardinality(Units(f, 1)) - Cardinality(Units(f, -1))
BY DEF Total, Units

(* The sum of numbers is a number.                                         *)
LEMMA TotalType ==
    ASSUME NEW S, IsFiniteSet(S), NEW f \in [S -> Int]
    PROVE  Total(f) \in Int
BY UnitsFinite, TotalByUnits

(* The sum of nothing is nothing.                                          *)
LEMMA TotalEmpty ==
    ASSUME NEW f, DOMAIN f = {}
    PROVE  Total(f) = 0
<1>1. Units(f, 1) = {} /\ Units(f, -1) = {}
  BY UnitsAt
<1>2. Total(f) = Cardinality({}) - Cardinality({})
  BY <1>1, TotalByUnits
<1>3. QED  BY <1>2, FS_EmptySet

(* The sum is that over all but one, and the value at that one.            *)
LEMMA TotalSplit ==
    ASSUME NEW S, IsFiniteSet(S), NEW f \in [S -> Int], NEW a \in S
    PROVE  /\ IsFiniteSet(S \ {a}) /\ [x \in S \ {a} |-> f[x]] \in [S \ {a} -> Int]
           /\ Total(f) = Total([x \in S \ {a} |-> f[x]]) + f[a]
<1> DEFINE h == [x \in S \ {a} |-> f[x]]
           A(sign) == {a} \X (1 .. sign * f[a])
<1>1. IsFiniteSet(S \ {a}) /\ h \in [S \ {a} -> Int] /\ f[a] \in Int
  BY FS_RemoveElement
<1>2. ASSUME NEW sign \in {1, -1}
      PROVE  Cardinality(Units(f, sign)) =
                 Cardinality(Units(h, sign)) + (IF sign * f[a] > 0 THEN sign * f[a] ELSE 0)
  <2>1. sign * f[a] \in Int
    OBVIOUS
  <2>2. IsFiniteSet(A(sign)) /\ Cardinality(A(sign)) = IF sign * f[a] > 0 THEN sign * f[a] ELSE 0
    <3> DEFINE k == sign * f[a]
    <3>1. k \in Int
      BY <2>1
    <3> HIDE DEF k
    <3>2. IsFiniteSet(1 .. k) /\ Cardinality(1 .. k) = IF k > 0 THEN k ELSE 0
      BY <3>1, FS_Interval
    <3>3. IsFiniteSet({a}) /\ Cardinality({a}) = 1
      BY FS_Singleton
    <3>4. Cardinality({a} \X (1 .. k)) = Cardinality({a}) * Cardinality(1 .. k)
          /\ IsFiniteSet({a} \X (1 .. k))
      BY <3>2, <3>3, FS_Product
    <3>5. Cardinality({a} \X (1 .. k)) = IF k > 0 THEN k ELSE 0
      BY <3>1, <3>2, <3>3, <3>4
    <3>6. QED  BY <3>4, <3>5 DEF k
  <2>3. IsFiniteSet(Units(h, sign)) /\ Cardinality(Units(h, sign)) \in Nat
    BY <1>1, UnitsFinite
  <2>4. Units(f, sign) = Units(h, sign) \cup A(sign)
    <3>1. \A u : u \in Units(f, sign) => u \in Units(h, sign) \/ u \in A(sign)
      BY UnitsAt
    <3>2. \A u : u \in Units(h, sign) => u \in Units(f, sign)
      BY UnitsAt
    <3>3. \A u : u \in A(sign) => u \in Units(f, sign)
      BY UnitsAt
    <3> HIDE DEF A, h
    <3>4. QED  BY <3>1, <3>2, <3>3
  <2>5. Units(h, sign) \cap A(sign) = {}
    <3>1. \A u : u \in Units(h, sign) => u \notin A(sign)
      BY UnitsAt
    <3> HIDE DEF A, h
    <3>2. QED  BY <3>1
  <2> HIDE DEF A, h
  <2>6. Cardinality(Units(h, sign) \cup A(sign)) =
            Cardinality(Units(h, sign)) + Cardinality(A(sign))
                - Cardinality(Units(h, sign) \cap A(sign))
    BY <2>2, <2>3, FS_Union
  <2>7. Cardinality(Units(h, sign) \cap A(sign)) = 0
    BY <2>5, FS_EmptySet
  <2>8. QED  BY <2>1, <2>2, <2>3, <2>4, <2>6, <2>7
<1>3. /\ Cardinality(Units(f, 1)) = Cardinality(Units(h, 1)) + (IF f[a] > 0 THEN f[a] ELSE 0)
      /\ Cardinality(Units(f, -1)) = Cardinality(Units(h, -1)) + (IF -f[a] > 0 THEN -f[a] ELSE 0)
  <2>1. 1 * f[a] = f[a] /\ (-1) * f[a] = -f[a]
    BY <1>1
  <2>2. 1 \in {1, -1} /\ -1 \in {1, -1}
    OBVIOUS
  <2> HIDE DEF h
  <2>3. QED  BY <1>2, <2>1, <2>2
<1>4. Cardinality(Units(h, 1)) \in Nat /\ Cardinality(Units(h, -1)) \in Nat
  BY <1>1, UnitsFinite
<1> HIDE DEF h
<1>5. Total(f) = Total(h) + f[a]
  BY <1>1, <1>3, <1>4, TotalByUnits
<1>6. QED  BY <1>1, <1>5 DEF h

(* One value changes.                                                      *)
LEMMA TotalChange ==
    ASSUME NEW S, IsFiniteSet(S), NEW f \in [S -> Int], NEW g \in [S -> Int], NEW a \in S,
           \A x \in S \ {a} : g[x] = f[x]
    PROVE  Total(g) = Total(f) - f[a] + g[a]
<1> DEFINE hf == [x \in S \ {a} |-> f[x]]
           hg == [x \in S \ {a} |-> g[x]]
<1>1. hf = hg
  OBVIOUS
<1>2. /\ Total(f) = Total(hf) + f[a] /\ IsFiniteSet(S \ {a}) /\ hf \in [S \ {a} -> Int]
  BY TotalSplit
<1>5. Total(g) = Total(hg) + g[a]
  <2>1. IsFiniteSet(S) /\ g \in [S -> Int] /\ a \in S
    OBVIOUS
  <2>2. Total(g) = Total([x \in S \ {a} |-> g[x]]) + g[a]
    BY ONLY <2>1, TotalSplit
  <2>3. QED  BY <2>2
<1>3. Total(hf) \in Int /\ f[a] \in Int /\ g[a] \in Int
  <2> HIDE DEF hf
  <2>1. QED  BY <1>2, TotalType
<1> HIDE DEF hf, hg
<1>4. QED  BY <1>1, <1>2, <1>3, <1>5

(* A sum of numbers is a number, at least each of them.                    *)
LEMMA TotalNat ==
    ASSUME NEW S, IsFiniteSet(S), NEW f \in [S -> Nat]
    PROVE  /\ Total(f) \in Nat
           /\ \A x \in S : f[x] <= Total(f)
           /\ Total(f) = 0 <=> \A x \in S : f[x] = 0
<1>1. Units(f, -1) = {}
  <2>1. \A x \in S : -1 * f[x] <= 0 /\ f[x] \in Nat
    OBVIOUS
  <2>2. \A u : u \notin Units(f, -1)
    BY <2>1, UnitsAt
  <2>3. QED  BY <2>2
<1>2. f \in [S -> Int] /\ IsFiniteSet(Units(f, 1)) /\ Cardinality(Units(f, 1)) \in Nat
  BY UnitsFinite
<1>3. Total(f) = Cardinality(Units(f, 1))
  BY <1>1, <1>2, TotalByUnits, FS_EmptySet
<1>4. ASSUME NEW x \in S PROVE f[x] <= Total(f)
  <2>1. {x} \X (1 .. f[x]) \in SUBSET Units(f, 1)
    <3>1. f[x] \in Nat /\ 1 * f[x] = f[x]
      OBVIOUS
    <3>2. \A u \in {x} \X (1 .. f[x]) : u \in Units(f, 1)
      BY <3>1, UnitsAt
    <3>3. QED  BY <3>2
  <2>2. Cardinality({x} \X (1 .. f[x])) <= Cardinality(Units(f, 1))
    BY <1>2, <2>1, FS_Subset
  <2> DEFINE k == f[x]
  <2>3. k \in Nat
    OBVIOUS
  <2> HIDE DEF k
  <2>4. IsFiniteSet({x}) /\ Cardinality({x}) = 1
    BY FS_Singleton
  <2>5. IsFiniteSet(1 .. k) /\ Cardinality(1 .. k) = k
    BY <2>3, FS_Interval
  <2>6. Cardinality({x} \X (1 .. k)) = Cardinality({x}) * Cardinality(1 .. k)
    BY <2>4, <2>5, FS_Product
  <2>7. Cardinality({x} \X (1 .. k)) = k
    BY <2>3, <2>4, <2>5, <2>6
  <2>8. QED  BY <1>2, <1>3, <2>2, <2>7 DEF k
<1>5. (\A x \in S : f[x] = 0) => Units(f, 1) = {}
  <2>1. SUFFICES ASSUME \A x \in S : f[x] = 0, NEW u \in Units(f, 1) PROVE FALSE
    OBVIOUS
  <2>2. u[1] \in S /\ u[2] \in 1 .. 1 * f[u[1]]
    BY UnitsAt
  <2>3. QED  BY <2>1, <2>2
<1>6. (\A x \in S : f[x] = 0) => Total(f) = 0
  BY <1>3, <1>5, FS_EmptySet
<1>7. Total(f) = 0 => \A x \in S : f[x] = 0
  BY <1>4
<1>8. QED  BY <1>2, <1>3, <1>4, <1>6, <1>7

(* A word of two fields gives them back: the low bits by the remainder, the
   others by the quotient.                                                 *)
LEMMA Word ==
    ASSUME NEW u \in Nat \ {0}, NEW h \in Int, NEW b \in 0 .. u - 1
    PROVE  (u * h + b) \div u = h /\ (u * h + b) % u = b
OBVIOUS

Born == {s \in Source : ~Unborn(s)}
Threads == Thread \cup {None}
Uses == {"none", "block", "storage", "places", "replica", "moving", "freed"}
ArenaType == [room : Int, mspace_lock : Threads]
ChunkType(D) ==
    [source : Source, arena : Int \cup {None}, size : Nat, bytes : Nat, use : Uses,
     mapped : BOOLEAN, prev : D \cup {None}, next : D \cup {None}]
SourceType(D) ==
    [state : {"unused", "alive", "destroyed", "destroyed_twice"},
     node : Physical \cup {None, -1}, blocks : Int, arenas : Seq(ArenaType),
     arena_lock : Threads, mmapped_chunk_lock : Threads, mmapped_chunk_head : D \cup {None}]
PlaceType(S) == [msource : S, node : {None}] \cup [msource : {None}, node : Physical]
RefCalls(S) == [op : {"ref"}, s : S, first : BOOLEAN]
UnrefCalls(S) == [op : {"unref"}, s : S]
AllocCalls(S) ==
    [op : {"alloc"}, s : S, bytes : Nat, use : {"block", "storage", "places", "replica"}]
FreeCalls(S, D) == [op : {"free"}, s : S, b : D]
MigrateCalls(S) == [op : {"migrate"}, s : S, node : Physical]
PublishCalls(S) == [op : {"publish_local"}, s : S, node : Physical]
BindCalls(S) == [op : {"bind"}, h : Handle, s : S]
FreeOldCalls(D) == [op : {"free_old"}, b : D]
PlainCalls ==
         [op : {"construct", "init", "curr", "unlock_local", "unlock_replica"}]
    \cup [op : {"keep"}, task : Task, done : BOOLEAN]
    \cup [op : {"unlock_task"}, task : Task]
    \cup [op : {"replica", "publish_replica"}, node : Physical]
CallType(S, D) ==
    RefCalls(S) \cup UnrefCalls(S) \cup AllocCalls(S) \cup FreeCalls(S, D) \cup MigrateCalls(S)
    \cup PublishCalls(S) \cup BindCalls(S) \cup FreeOldCalls(D) \cup PlainCalls
MyType(D) == [b : D \cup {None}, k : Int, grown : BOOLEAN]
TlsType(S, D) == [state : {"none", "constructed", "done"}, own : S \cup {None},
                  stack : Seq(PlaceType(S)), block : D \cup {None}]
SavedType(S, D) == [worker : Threads, stack : Seq(PlaceType(S)), block : Seq(D)]

Labels == {"start", "describe", "deref", "remove", "destroy", "link", "linked", "arena", "leave",
           "grow", "unlock", "count", "freed", "unlinked", "uncount", "chunks", "arenas", "pages",
           "unlock_chunks", "walk", "unlock_arenas", "set_node", "lock", "recheck"}

(* All but the chunks, over a set of sources and one of chunks.            *)
Typed(S, D) ==
    /\ source \in [Source -> SourceType(D)]
    /\ allsources \subseteq Source
    /\ todo \in [Thread -> Seq(CallType(S, D))]
    /\ pc \in [Thread -> Labels]
    /\ my \in [Thread -> MyType(D)]
    /\ current \in [Thread -> S]
    /\ program \in [Thread -> Seq(Operation)]
    /\ doing \in [Thread -> Operation \cup {Setup}]
    /\ hold \in [Handle -> S \cup {None}]
    /\ tls \in [Thread -> TlsType(S, D)]
    /\ saved \in [Task -> SavedType(S, D)]
    /\ msources \in [Physical -> [Physical -> S \cup {None}]]
    /\ nodeLock \in [Physical -> Threads]
    /\ replica \in [Physical -> D \cup {None}]
    /\ replicaLock \in Threads
Chunked(S, D) ==
    /\ chunk \in Seq(ChunkType(D))
    /\ \A b \in D : chunk[b].source \in S
    /\ GlobalSource \in S /\ \A n \in Physical : NodeSource[n] \in S
TypeInv == Typed(Born, DOMAIN chunk) /\ Chunked(Born, DOMAIN chunk)

(* A list over a set is a list over any larger one.                        *)
LEMMA SeqWider ==
    ASSUME NEW S, NEW T, S \subseteq T
    PROVE  Seq(S) \subseteq Seq(T)
OBVIOUS

(* More sources or more chunks only widen the types of the records that
   name them: sources and chunks are never taken back (Source records stay,
   chunk numbers are not reused).                                          *)
LEMMA TypesWider ==
    ASSUME NEW S, NEW D, NEW S2, NEW D2, S \subseteq S2, D \subseteq D2
    PROVE  /\ PlaceType(S) \subseteq PlaceType(S2)
           /\ CallType(S, D) \subseteq CallType(S2, D2)
           /\ MyType(D) \subseteq MyType(D2) /\ TlsType(S, D) \subseteq TlsType(S2, D2)
           /\ SavedType(S, D) \subseteq SavedType(S2, D2)
           /\ SourceType(D) \subseteq SourceType(D2) /\ ChunkType(D) \subseteq ChunkType(D2)
<1>1. PlaceType(S) \subseteq PlaceType(S2)
  BY DEF PlaceType
<1>2. Seq(PlaceType(S)) \subseteq Seq(PlaceType(S2)) /\ Seq(D) \subseteq Seq(D2)
  BY <1>1, SeqWider
<1>3. CallType(S, D) \subseteq CallType(S2, D2)
  <2>1. RefCalls(S) \subseteq RefCalls(S2)
    BY DEF RefCalls
  <2>2. UnrefCalls(S) \subseteq UnrefCalls(S2)
    BY DEF UnrefCalls
  <2>3. AllocCalls(S) \subseteq AllocCalls(S2)
    BY DEF AllocCalls
  <2>4. FreeCalls(S, D) \subseteq FreeCalls(S2, D2)
    BY DEF FreeCalls
  <2>5. MigrateCalls(S) \subseteq MigrateCalls(S2)
    BY DEF MigrateCalls
  <2>6. PublishCalls(S) \subseteq PublishCalls(S2)
    BY DEF PublishCalls
  <2>7. BindCalls(S) \subseteq BindCalls(S2)
    BY DEF BindCalls
  <2>8. FreeOldCalls(D) \subseteq FreeOldCalls(D2)
    BY DEF FreeOldCalls
  <2>9. QED  BY ONLY <2>1, <2>2, <2>3, <2>4, <2>5, <2>6, <2>7, <2>8 DEF CallType
<1>4. MyType(D) \subseteq MyType(D2) /\ SourceType(D) \subseteq SourceType(D2)
  BY DEF MyType, SourceType
<1>5. ChunkType(D) \subseteq ChunkType(D2)
  BY DEF ChunkType
<1>6. TlsType(S, D) \subseteq TlsType(S2, D2)
  BY <1>2 DEF TlsType
<1>7. SavedType(S, D) \subseteq SavedType(S2, D2)
  BY <1>2 DEF SavedType
<1>8. QED  BY <1>1, <1>3, <1>4, <1>5, <1>6, <1>7

(* A state typed over some sources and chunks is typed over more of them.  *)
LEMMA Widen ==
    ASSUME NEW S, NEW D, NEW S2, NEW D2, S \subseteq S2, D \subseteq D2, Typed(S, D)
    PROVE  Typed(S2, D2)
<1>1. /\ CallType(S, D) \subseteq CallType(S2, D2)
      /\ MyType(D) \subseteq MyType(D2) /\ TlsType(S, D) \subseteq TlsType(S2, D2)
      /\ SavedType(S, D) \subseteq SavedType(S2, D2)
      /\ SourceType(D) \subseteq SourceType(D2)
  BY TypesWider
<1>2. Seq(CallType(S, D)) \subseteq Seq(CallType(S2, D2))
  BY <1>1, SeqWider
<1>3. source \in [Source -> SourceType(D2)]
  BY <1>1 DEF Typed
<1>4. todo \in [Thread -> Seq(CallType(S2, D2))]
  BY <1>2 DEF Typed
<1>5. my \in [Thread -> MyType(D2)] /\ tls \in [Thread -> TlsType(S2, D2)]
  BY <1>1 DEF Typed
<1>6. saved \in [Task -> SavedType(S2, D2)]
  BY <1>1 DEF Typed
<1>7. /\ current \in [Thread -> S2] /\ hold \in [Handle -> S2 \cup {None}]
      /\ replica \in [Physical -> D2 \cup {None}]
      /\ msources \in [Physical -> [Physical -> S2 \cup {None}]]
  BY DEF Typed
<1>8. QED  BY <1>3, <1>4, <1>5, <1>6, <1>7 DEF Typed

(* One field of one source changes.                                        *)
LEMMA SetBlocks ==
    ASSUME NEW D, NEW src \in [Source -> SourceType(D)], NEW s \in Source, NEW x \in Int,
           NEW new, new = [src EXCEPT ![s].blocks = x]
    PROVE  /\ new \in [Source -> SourceType(D)]
           /\ \A r \in Source : new[r].state = src[r].state
<1>1. src[s] \in SourceType(D)
  OBVIOUS
<1>2. [src[s] EXCEPT !.blocks = x] \in SourceType(D)
  BY <1>1 DEF SourceType
<1>3. new = [src EXCEPT ![s] = [src[s] EXCEPT !.blocks = x]]
  OBVIOUS
<1>4. new \in [Source -> SourceType(D)]
  BY <1>2, <1>3
<1>5. ASSUME NEW r \in Source PROVE new[r].state = src[r].state
  <2>1. src[r] \in SourceType(D)
    OBVIOUS
  <2>2. QED  BY <2>1 DEF SourceType
<1>6. QED  BY <1>4, <1>5

(* arena_lock of one source is taken or released.                          *)
LEMMA SetArenaLock ==
    ASSUME NEW D, NEW src \in [Source -> SourceType(D)], NEW s \in Source, NEW x \in Threads,
           NEW new, new = [src EXCEPT ![s].arena_lock = x]
    PROVE  /\ new \in [Source -> SourceType(D)]
           /\ \A r \in Source : new[r].state = src[r].state /\ new[r].blocks = src[r].blocks
<1>1. src[s] \in SourceType(D)
  OBVIOUS
<1>2. [src[s] EXCEPT !.arena_lock = x] \in SourceType(D)
  BY <1>1 DEF SourceType
<1>3. new = [src EXCEPT ![s] = [src[s] EXCEPT !.arena_lock = x]]
  OBVIOUS
<1>4. new \in [Source -> SourceType(D)]
  BY <1>2, <1>3
<1>5. ASSUME NEW r \in Source PROVE new[r].state = src[r].state /\ new[r].blocks = src[r].blocks
  <2>1. src[r] \in SourceType(D)
    OBVIOUS
  <2>2. QED  BY <2>1 DEF SourceType
<1>6. QED  BY <1>4, <1>5

(* mmapped_chunk_lock of one source is taken or released.                  *)
LEMMA SetChunkLock ==
    ASSUME NEW D, NEW src \in [Source -> SourceType(D)], NEW s \in Source, NEW x \in Threads,
           NEW new, new = [src EXCEPT ![s].mmapped_chunk_lock = x]
    PROVE  /\ new \in [Source -> SourceType(D)]
           /\ \A r \in Source : new[r].state = src[r].state /\ new[r].blocks = src[r].blocks
<1>1. src[s] \in SourceType(D)
  OBVIOUS
<1>2. [src[s] EXCEPT !.mmapped_chunk_lock = x] \in SourceType(D)
  BY <1>1 DEF SourceType
<1>3. new = [src EXCEPT ![s] = [src[s] EXCEPT !.mmapped_chunk_lock = x]]
  OBVIOUS
<1>4. new \in [Source -> SourceType(D)]
  BY <1>2, <1>3
<1>5. ASSUME NEW r \in Source PROVE new[r].state = src[r].state /\ new[r].blocks = src[r].blocks
  <2>1. src[r] \in SourceType(D)
    OBVIOUS
  <2>2. QED  BY <2>1 DEF SourceType
<1>6. QED  BY <1>4, <1>5

(* MemSourceImpl::migrate writes the node of one source.                   *)
LEMMA SetNode ==
    ASSUME NEW D, NEW src \in [Source -> SourceType(D)], NEW s \in Source, NEW x \in Physical,
           NEW new, new = [src EXCEPT ![s].node = x]
    PROVE  /\ new \in [Source -> SourceType(D)]
           /\ \A r \in Source : new[r].state = src[r].state /\ new[r].blocks = src[r].blocks
<1>1. src[s] \in SourceType(D)
  OBVIOUS
<1>2. [src[s] EXCEPT !.node = x] \in SourceType(D)
  BY <1>1 DEF SourceType
<1>3. new = [src EXCEPT ![s] = [src[s] EXCEPT !.node = x]]
  OBVIOUS
<1>4. new \in [Source -> SourceType(D)]
  BY <1>2, <1>3
<1>5. ASSUME NEW r \in Source PROVE new[r].state = src[r].state /\ new[r].blocks = src[r].blocks
  <2>1. src[r] \in SourceType(D)
    OBVIOUS
  <2>2. QED  BY <2>1 DEF SourceType
<1>6. QED  BY <1>4, <1>5

(* The arenas of one source change: a new one, another top size, or a lock
   of one of them.                                                         *)
LEMMA SetArenas ==
    ASSUME NEW D, NEW src \in [Source -> SourceType(D)], NEW s \in Source, NEW x \in Seq(ArenaType),
           NEW new, new = [src EXCEPT ![s].arenas = x]
    PROVE  /\ new \in [Source -> SourceType(D)]
           /\ \A r \in Source : new[r].state = src[r].state /\ new[r].blocks = src[r].blocks
<1>1. src[s] \in SourceType(D)
  OBVIOUS
<1>2. [src[s] EXCEPT !.arenas = x] \in SourceType(D)
  BY <1>1 DEF SourceType
<1>3. new = [src EXCEPT ![s] = [src[s] EXCEPT !.arenas = x]]
  OBVIOUS
<1>4. new \in [Source -> SourceType(D)]
  BY <1>2, <1>3
<1>5. ASSUME NEW r \in Source PROVE new[r].state = src[r].state /\ new[r].blocks = src[r].blocks
  <2>1. src[r] \in SourceType(D)
    OBVIOUS
  <2>2. QED  BY <2>1 DEF SourceType
<1>6. QED  BY <1>4, <1>5

(* One source is replaced as a whole.                                      *)
LEMMA SetOneSource ==
    ASSUME NEW D, NEW src \in [Source -> SourceType(D)], NEW s \in Source,
           NEW r \in SourceType(D), NEW new, new = [src EXCEPT ![s] = r]
    PROVE  /\ new \in [Source -> SourceType(D)] /\ new[s] = r
           /\ \A q \in Source \ {s} : new[q] = src[q]
OBVIOUS

(* Where a thread may be in a call.                                        *)
LabelsOf(op) ==
    CASE op = "unref" -> {"start", "describe", "deref", "remove", "destroy"}
      [] op = "alloc" -> {"start", "link", "linked", "arena", "leave", "grow", "unlock", "count"}
      [] op = "free" -> {"start", "freed", "unlinked", "uncount", "remove", "destroy"}
      [] op = "migrate" -> {"start", "chunks", "arenas", "pages", "unlock_chunks", "walk",
                            "unlock_arenas", "set_node"}
      [] op = "curr" -> {"start", "lock", "recheck"}
      [] op = "replica" -> {"start", "recheck"}
      [] OTHER -> {"start"}
PcInv ==
    \A t \in Thread :
        pc[t] \in IF todo[t] = <<>> THEN {"start"} ELSE LabelsOf(Call(t).op)

(* What may come after a call, sooner or later.                            *)
AfterCall(op) ==
    CASE op = "alloc" -> {"construct", "init", "curr", "keep", "free_old", "publish_replica",
                          "unlock_replica"}
      [] op = "construct" -> {"init", "curr"}
      [] op = "init" -> {"curr"}
      [] op = "ref" -> {"ref", "unref", "init", "curr", "publish_local", "unlock_local", "bind",
                        "free", "unlock_task"}
      [] op = "unref" -> {"unref", "curr", "free", "unlock_task"}
      [] op = "curr" -> {"unref", "free", "unlock_task"}
      [] op = "free" -> {"free", "unlock_task"}
      [] op = "publish_local" -> {"unlock_local", "curr", "unref", "free", "unlock_task"}
      [] op = "unlock_local" -> {"curr", "unref", "free", "unlock_task"}
      [] op = "publish_replica" -> {"unlock_replica"}
      [] OTHER -> {}
Ops(q) == {q[i].op : i \in DOMAIN q}
Ordered(q) == \A i, j \in DOMAIN q : i < j => q[j].op \in AfterCall(q[i].op)
OrderInv == \A t \in Thread : Ordered(todo[t])

Has(t, op) == op \in Ops(todo[t])

(* The storage of a thread is set up in the order construct, init, curr.   *)
TlsOf(t) ==
    /\ Has(t, "construct") => tls[t].state = "none" /\ Has(t, "init")
    /\ Has(t, "init") /\ ~Has(t, "construct") => tls[t].state = "constructed"
    /\ tls[t].state = "constructed" => Has(t, "init")
    /\ Has(t, "init") => Has(t, "curr")
    /\ Has(t, "keep") \/ (Has(t, "curr") /\ ~Has(t, "init")) => tls[t].state = "done"
    /\ tls[t].state = "none" => tls[t] = NoStorage /\ current[t] = GlobalSource
    /\ tls[t].state = "constructed" => tls[t].own = None /\ tls[t].stack = <<>>
    /\ tls[t].state = "done" => tls[t].own # None
    /\ tls[t].state # "none" => tls[t].block # None
    /\ At(t, "curr", "lock") \/ At(t, "curr", "recheck") =>
           /\ tls[t].stack # <<>>
           /\ Last(tls[t].stack).msource = None /\ Last(tls[t].stack).node # HomeOf[t]
TlsInv == \A t \in Thread : TlsOf(t)

(* What the pending call of each kind carries.                             *)
LEMMA CallFields ==
    ASSUME NEW S, NEW D, NEW c \in CallType(S, D)
    PROVE  /\ c.op = "ref" => c \in RefCalls(S) /\ c.s \in S /\ c.first \in BOOLEAN
           /\ c.op = "unref" => c \in UnrefCalls(S) /\ c.s \in S
           /\ c.op = "alloc" => /\ c \in AllocCalls(S) /\ c.s \in S /\ c.bytes \in Nat
                                /\ c.use \in {"block", "storage", "places", "replica"}
           /\ c.op = "free" => c \in FreeCalls(S, D) /\ c.s \in S /\ c.b \in D
           /\ c.op = "migrate" => c \in MigrateCalls(S) /\ c.s \in S /\ c.node \in Physical
           /\ c.op = "publish_local" => c \in PublishCalls(S) /\ c.s \in S /\ c.node \in Physical
           /\ c.op = "bind" => c \in BindCalls(S) /\ c.s \in S /\ c.h \in Handle
           /\ c.op = "free_old" => c \in FreeOldCalls(D) /\ c.b \in D
           /\ c.op = "keep" => c.task \in Task /\ c.done \in BOOLEAN
           /\ c.op = "unlock_task" => c.task \in Task
           /\ c.op \in {"replica", "publish_replica"} => c.node \in Physical
           /\ c.op \in {"ref", "unref", "alloc", "free", "migrate", "publish_local", "bind",
                        "free_old", "construct", "init", "curr", "unlock_local",
                        "unlock_replica", "keep", "unlock_task", "replica", "publish_replica"}
<1>1. CASE c \in RefCalls(S)
  BY <1>1 DEF RefCalls
<1>2. CASE c \in UnrefCalls(S)
  BY <1>2 DEF UnrefCalls
<1>3. CASE c \in AllocCalls(S)
  BY <1>3 DEF AllocCalls
<1>4. CASE c \in FreeCalls(S, D)
  BY <1>4 DEF FreeCalls
<1>5. CASE c \in MigrateCalls(S)
  BY <1>5 DEF MigrateCalls
<1>6. CASE c \in PublishCalls(S)
  BY <1>6 DEF PublishCalls
<1>7. CASE c \in BindCalls(S)
  BY <1>7 DEF BindCalls
<1>8. CASE c \in FreeOldCalls(D)
  BY <1>8 DEF FreeOldCalls
<1>9. CASE c \in PlainCalls
  BY <1>9 DEF PlainCalls
<1>10. QED  BY <1>1, <1>2, <1>3, <1>4, <1>5, <1>6, <1>7, <1>8, <1>9 DEF CallType

(* The calls the operations leave behind are typed when what they name is. *)
LEMMA CallsAreTyped ==
    ASSUME NEW S, NEW D
    PROVE  /\ \A s \in S : /\ Ref(s) \in CallType(S, D) /\ FirstRef(s) \in CallType(S, D)
                           /\ Unref(s) \in CallType(S, D)
           /\ \A s \in S, n \in Nat, use \in {"block", "storage", "places", "replica"} :
                 Alloc(s, n, use) \in CallType(S, D)
           /\ \A s \in S, n \in Physical : /\ Migrate(s, n) \in CallType(S, D)
                                           /\ PublishLocal(s, n) \in CallType(S, D)
           /\ \A s \in S, h \in Handle : Bind(h, s) \in CallType(S, D)
           /\ \A b \in D : FreeOld(b) \in CallType(S, D)
           /\ \A b \in D : chunk[b].source \in S => Dealloc(b) \in CallType(S, D)
           /\ \A k \in Task, done \in BOOLEAN : /\ Keep(k, done) \in CallType(S, D)
                                                /\ Unlock(k) \in CallType(S, D)
           /\ \A n \in Physical : /\ GetReplica(n) \in CallType(S, D)
                                  /\ PublishReplica(n) \in CallType(S, D)
           /\ {Construct, InitTls, SetCurrent, UnlockLocal, UnlockReplica} \subseteq CallType(S, D)
<1>1. \A s \in S : Ref(s) \in RefCalls(S) /\ FirstRef(s) \in RefCalls(S) /\ Unref(s) \in UnrefCalls(S)
  BY DEF Ref, FirstRef, Unref, RefCalls, UnrefCalls
<1>2. \A s \in S, n \in Nat, use \in {"block", "storage", "places", "replica"} :
          Alloc(s, n, use) \in AllocCalls(S)
  BY DEF Alloc, AllocCalls
<1>3. \A s \in S, n \in Physical : Migrate(s, n) \in MigrateCalls(S) /\ PublishLocal(s, n) \in PublishCalls(S)
  BY DEF Migrate, PublishLocal, MigrateCalls, PublishCalls
<1>4. \A s \in S, h \in Handle : Bind(h, s) \in BindCalls(S)
  BY DEF Bind, BindCalls
<1>5. \A b \in D : FreeOld(b) \in FreeOldCalls(D)
  BY DEF FreeOld, FreeOldCalls
<1>6. \A b \in D : chunk[b].source \in S => Dealloc(b) \in FreeCalls(S, D)
  BY DEF Dealloc, FreeCalls
<1>7. \A k \in Task, done \in BOOLEAN : Keep(k, done) \in PlainCalls /\ Unlock(k) \in PlainCalls
  BY DEF Keep, Unlock, PlainCalls
<1>8. \A n \in Physical : GetReplica(n) \in PlainCalls /\ PublishReplica(n) \in PlainCalls
  BY DEF GetReplica, PublishReplica, PlainCalls
<1>9. {Construct, InitTls, SetCurrent, UnlockLocal, UnlockReplica} \subseteq PlainCalls
  BY DEF Construct, InitTls, SetCurrent, UnlockLocal, UnlockReplica, PlainCalls
<1>10. QED  BY <1>1, <1>2, <1>3, <1>4, <1>5, <1>6, <1>7, <1>8, <1>9 DEF CallType

(* What a step does to the list of calls.                                  *)
Listed(t, q, label) ==
    /\ todo' = [todo EXCEPT ![t] = q]
    /\ pc' = [pc EXCEPT ![t] = label]

(* A step that replaces one thread's list of pending calls keeps the types
   of all lists.                                                           *)
LEMMA ListedTypes ==
    ASSUME NEW S, NEW D, NEW S2, NEW D2, S \subseteq S2, D \subseteq D2, Typed(S, D),
           NEW t \in Thread, NEW q \in Seq(CallType(S2, D2)), NEW label \in Labels,
           Listed(t, q, label)
    PROVE  /\ todo' \in [Thread -> Seq(CallType(S2, D2))] /\ pc' \in [Thread -> Labels]
           /\ todo'[t] = q /\ pc'[t] = label
           /\ \A u \in Thread \ {t} : todo'[u] = todo[u] /\ pc'[u] = pc[u]
<1>1. Typed(S2, D2)
  BY Widen
<1>2. todo \in [Thread -> Seq(CallType(S2, D2))] /\ pc \in [Thread -> Labels]
  BY <1>1 DEF Typed
<1>3. QED  BY <1>2 DEF Listed

(* Going on in a call, returning from it and calling others from it each
   replace the list of pending calls of that thread only.                  *)
LEMMA Steps ==
    ASSUME NEW S, NEW D, Typed(S, D), NEW t \in Thread
    PROVE  /\ \A label : Goto(t, label) => Listed(t, todo[t], label)
           /\ Return(t) => Listed(t, Tail(todo[t]), "start")
           /\ \A calls : Then(t, calls) => Listed(t, calls \o Tail(todo[t]), "start")
           /\ todo[t] # <<>> => Tail(todo[t]) \in Seq(CallType(S, D)) /\ Call(t) \in CallType(S, D)
           /\ todo[t] \in Seq(CallType(S, D))
BY DEF Typed, Goto, Return, Then, Listed, Call

(* The type invariant after a step on sources and chunks, from the types of
   the variables such a step writes.                                       *)
LEMMA SourceTypesClose ==
    ASSUME TypeInv, UNCHANGED <<current, placeVars>>,
           source' \in [Source -> SourceType(DOMAIN chunk')],
           \A s \in Source : Unborn(s)' <=> Unborn(s),
           chunk' \in Seq(ChunkType(DOMAIN chunk')),
           DOMAIN chunk \subseteq DOMAIN chunk',
           \A b \in DOMAIN chunk' : chunk'[b].source \in Born,
           allsources' \subseteq Source,
           todo' \in [Thread -> Seq(CallType(Born, DOMAIN chunk'))],
           pc' \in [Thread -> Labels],
           my' \in [Thread -> MyType(DOMAIN chunk')]
    PROVE  TypeInv'
<1> DEFINE D == DOMAIN chunk'
<1>1. Born' = Born
  BY DEF Born
<1>2. Typed(Born, D) /\ Chunked(Born, DOMAIN chunk)
  BY Widen DEF TypeInv
<1> HIDE DEF D
<1>3. /\ current' \in [Thread -> Born] /\ program' \in [Thread -> Seq(Operation)]
      /\ doing' \in [Thread -> Operation \cup {Setup}]
      /\ hold' \in [Handle -> Born \cup {None}]
      /\ tls' \in [Thread -> TlsType(Born, D)]
      /\ saved' \in [Task -> SavedType(Born, D)]
      /\ msources' \in [Physical -> [Physical -> Born \cup {None}]]
      /\ nodeLock' \in [Physical -> Threads]
      /\ replica' \in [Physical -> D \cup {None}]
      /\ replicaLock' \in Threads
  BY <1>2 DEF Typed, placeVars
<1>4. Typed(Born, DOMAIN chunk)'
  BY <1>1, <1>3 DEF Typed, D
<1>5. Chunked(Born, DOMAIN chunk)'
  BY <1>1, <1>2 DEF Chunked
<1>6. QED  BY <1>4, <1>5 DEF TypeInv

(* The locals of one thread (block, index of the arena walk, whether it
   grew one) change.                                                       *)
LEMMA SetMy ==
    ASSUME NEW D, my \in [Thread -> MyType(D)], NEW t \in Thread
    PROVE  /\ \A k \in Int : [my EXCEPT ![t].k = k] \in [Thread -> MyType(D)]
           /\ \A b \in D \cup {None} : [my EXCEPT ![t].b = b] \in [Thread -> MyType(D)]
           /\ \A k \in Int, g \in BOOLEAN :
                 [my EXCEPT ![t].k = k, ![t].grown = g] \in [Thread -> MyType(D)]
           /\ \A b \in D \cup {None}, k \in Int, g \in BOOLEAN :
                 [my EXCEPT ![t].b = b, ![t].k = k, ![t].grown = g] \in [Thread -> MyType(D)]
<1>1. my[t] \in MyType(D)
  OBVIOUS
<1>2. \A r \in MyType(D) : [my EXCEPT ![t] = r] \in [Thread -> MyType(D)]
  OBVIOUS
<1>3. ASSUME NEW k \in Int PROVE [my[t] EXCEPT !.k = k] \in MyType(D)
  BY <1>1 DEF MyType
<1>4. ASSUME NEW b \in D \cup {None} PROVE [my[t] EXCEPT !.b = b] \in MyType(D)
  BY <1>1 DEF MyType
<1>5. ASSUME NEW k \in Int, NEW g \in BOOLEAN PROVE [my[t] EXCEPT !.k = k, !.grown = g] \in MyType(D)
  BY <1>1 DEF MyType
<1>6. ASSUME NEW b \in D \cup {None}, NEW k \in Int, NEW g \in BOOLEAN
      PROVE  [my[t] EXCEPT !.b = b, !.k = k, !.grown = g] \in MyType(D)
  BY <1>1 DEF MyType
<1>7. QED  BY ONLY <1>2, <1>3, <1>4, <1>5, <1>6, ZenonT(60)

(* The arenas of a source.                                                 *)
LEMMA SetArena ==
    ASSUME NEW a \in Seq(ArenaType), NEW k
    PROVE  /\ \A x \in Threads : [a EXCEPT ![k].mspace_lock = x] \in Seq(ArenaType)
           /\ \A room \in Int, x \in Threads :
                 [a EXCEPT ![k] = [room |-> room, mspace_lock |-> x]] \in Seq(ArenaType)
           /\ \A room \in Int : Append(a, Arena(room)) \in Seq(ArenaType)
           /\ k \in DOMAIN a => a[k].room \in Int
<1>1. ASSUME NEW r \in ArenaType
      PROVE  [a EXCEPT ![k] = r] \in Seq(ArenaType) /\ Append(a, r) \in Seq(ArenaType)
  <2>1. Len(a) \in Nat /\ a \in [1 .. Len(a) -> ArenaType]
    OBVIOUS
  <2>2. [a EXCEPT ![k] = r] \in [1 .. Len(a) -> ArenaType]
    BY <2>1
  <2>3. \A n \in Nat : \A f : f \in [1 .. n -> ArenaType] => f \in Seq(ArenaType)
    OBVIOUS
  <2>4. QED  BY <2>1, <2>2, <2>3
<1>2. k \in DOMAIN a => a[k] \in ArenaType
  OBVIOUS
<1>3. \A room \in Int, x \in Threads : [room |-> room, mspace_lock |-> x] \in ArenaType
  BY DEF ArenaType
<1>4. ASSUME NEW x \in Threads PROVE [a EXCEPT ![k].mspace_lock = x] \in Seq(ArenaType)
  <2>1. CASE k \in DOMAIN a
    <3>1. [a[k] EXCEPT !.mspace_lock = x] \in ArenaType
      BY <1>2, <2>1 DEF ArenaType
    <3>2. QED  BY <1>1, <3>1
  <2>2. CASE k \notin DOMAIN a
    <3>1. [a EXCEPT ![k].mspace_lock = x] = a
      BY <2>2
    <3>2. QED  BY <3>1
  <2>3. QED  BY <2>1, <2>2
<1>5. ASSUME NEW room \in Int PROVE Append(a, Arena(room)) \in Seq(ArenaType)
  BY <1>1, <1>3 DEF Arena, Threads
<1>6. \A r \in ArenaType : r.room \in Int
  BY DEF ArenaType
<1>7. QED  BY <1>1, <1>2, <1>3, <1>4, <1>5, <1>6

(* What a source's fields are.                                             *)
LEMMA SourceFields ==
    ASSUME NEW D, NEW r \in SourceType(D)
    PROVE  /\ r.blocks \in Int /\ r.arenas \in Seq(ArenaType) /\ Len(r.arenas) \in Nat
           /\ r.arena_lock \in Threads /\ r.mmapped_chunk_lock \in Threads
           /\ r.mmapped_chunk_head \in D \cup {None}
<1>1. /\ r.blocks \in Int /\ r.arenas \in Seq(ArenaType)
      /\ r.arena_lock \in Threads /\ r.mmapped_chunk_lock \in Threads
      /\ r.mmapped_chunk_head \in D \cup {None}
  BY DEF SourceType
<1>2. QED  BY <1>1

(* A step that changes one source in a field besides its count.            *)
LEMMA CallInHand ==
    ASSUME TypeInv, NEW t \in Thread, todo[t] # <<>>
    PROVE  /\ Call(t) \in CallType(Born, DOMAIN chunk)
           /\ Tail(todo[t]) \in Seq(CallType(Born, DOMAIN chunk))
           /\ todo[t] \in Seq(CallType(Born, DOMAIN chunk))
           /\ Call(t).op \in {"ref", "unref", "alloc", "free", "migrate"} =>
                 Call(t).s \in Born /\ Call(t).s \in Source
           /\ Call(t).op = "alloc" => /\ Call(t).bytes \in Nat
                                      /\ Call(t).use \in {"block", "storage", "places", "replica"}
           /\ Call(t).op = "free" => Call(t).b \in DOMAIN chunk
           /\ Call(t).op = "migrate" => Call(t).node \in Physical
<1>1. Typed(Born, DOMAIN chunk)
  BY DEF TypeInv
<1>2. /\ todo[t] \in Seq(CallType(Born, DOMAIN chunk)) /\ Call(t) \in CallType(Born, DOMAIN chunk)
      /\ Tail(todo[t]) \in Seq(CallType(Born, DOMAIN chunk))
  BY <1>1, Steps
<1>3. Born \subseteq Source
  BY DEF Born
<1> DEFINE c == Call(t)
<1> HIDE DEF c
<1>4. QED  BY <1>2, <1>3, CallFields DEF c

(* What a chunk's fields are.                                              *)
LEMMA ChunkFields ==
    ASSUME TypeInv, NEW b \in DOMAIN chunk
    PROVE  /\ chunk[b] \in ChunkType(DOMAIN chunk)
           /\ chunk[b].source \in Born /\ chunk[b].arena \in Int \cup {None}
           /\ chunk[b].size \in Nat /\ chunk[b].bytes \in Nat /\ chunk[b].use \in Uses
           /\ chunk[b].prev \in DOMAIN chunk \cup {None}
           /\ chunk[b].next \in DOMAIN chunk \cup {None}
<1> DEFINE D == DOMAIN chunk
<1>1. chunk \in Seq(ChunkType(D)) /\ chunk[b].source \in Born
  BY DEF TypeInv, Chunked
<1> HIDE DEF D
<1>2. chunk[b] \in ChunkType(D)
  BY <1>1
<1>3. QED  BY <1>1, <1>2 DEF ChunkType, D

(* A step that leaves the chunks alone.                                    *)
LEMMA QuietTypes ==
    ASSUME TypeInv, NEW t \in Thread, todo[t] # <<>>, UNCHANGED <<current, placeVars, chunk>>,
           source' \in [Source -> SourceType(DOMAIN chunk)],
           \A s \in Source : source'[s].state = source[s].state,
           allsources' \subseteq Source,
           \/ \E label \in Labels : Goto(t, label)
           \/ Return(t),
           my' \in [Thread -> MyType(DOMAIN chunk)]
    PROVE  TypeInv'
<1>1. Typed(Born, DOMAIN chunk) /\ Chunked(Born, DOMAIN chunk)
  BY DEF TypeInv
<1>2. \E q \in Seq(CallType(Born, DOMAIN chunk)), label \in Labels : Listed(t, q, label)
  <2>1. todo[t] \in Seq(CallType(Born, DOMAIN chunk)) /\ Tail(todo[t]) \in Seq(CallType(Born, DOMAIN chunk))
    BY CallInHand
  <2>2. "start" \in Labels
    BY DEF Labels
  <2>3. QED  BY <1>1, <2>1, <2>2, Steps
<1>3. PICK q \in Seq(CallType(Born, DOMAIN chunk)), label \in Labels : Listed(t, q, label)
  BY <1>2
<1>4. todo' \in [Thread -> Seq(CallType(Born, DOMAIN chunk))] /\ pc' \in [Thread -> Labels]
  BY <1>1, <1>3, ListedTypes
<1>5. \A s \in Source : Unborn(s)' <=> Unborn(s)
  BY DEF Unborn
<1>6. /\ chunk \in Seq(ChunkType(DOMAIN chunk)) /\ \A b \in DOMAIN chunk : chunk[b].source \in Born
  BY <1>1 DEF Chunked
<1>7. QED  BY <1>4, <1>5, <1>6, SourceTypesClose

(* The steps of a call that leave the chunks alone.                        *)
QuietStep(t) ==
    \/ ref(t) \/ unrefLook(t) \/ unrefDescribe(t) \/ unrefDeref(t) \/ destroyRemove(t)
    \/ allocLinked(t) \/ allocLock(t) \/ arenaAllocEnd(t) \/ create_new_arena(t)
    \/ allocUnlock(t) \/ freeInArena(t) \/ freeInArenaEnd(t) \/ freeUncount(t)
    \/ migrateLock(t) \/ migrateLockChunks(t) \/ migrateArena(t) \/ migratePages(t)
    \/ migrateUnlockChunks(t) \/ migrateWalk(t) \/ migrateUnlockArena(t) \/ migrateEnd(t)

(* The steps of msource.cpp that touch no chunk (reference counts, locks,
   the arena walk, the pass of migrate) keep the types.                    *)
LEMMA QuietStepTypes ==
    ASSUME TypeInv, NEW t \in Thread, QuietStep(t), UNCHANGED placeVars
    PROVE  TypeInv'
<1> DEFINE D == DOMAIN chunk
           c == Call(t)
           ok == /\ source' \in [Source -> SourceType(D)]
                 /\ \A s \in Source : source'[s].state = source[s].state
                 /\ my' \in [Thread -> MyType(D)]
<1>0. /\ source \in [Source -> SourceType(D)] /\ my \in [Thread -> MyType(D)]
      /\ allsources \subseteq Source /\ t \in Threads /\ None \in Threads
  BY DEF TypeInv, Typed, Threads
<1>1. /\ todo[t] # <<>> /\ UNCHANGED <<current, chunk>> /\ allsources' \subseteq Source
      /\ \/ \E label \in Labels : Goto(t, label)
         \/ Return(t)
  <2>1. CASE ref(t)
    BY <1>0, <2>1 DEF ref, At, Goto, Return, Labels
  <2>2. CASE unrefLook(t)
    BY <1>0, <2>2 DEF unrefLook, At, Goto, Return, Labels
  <2>3. CASE unrefDescribe(t)
    BY <1>0, <2>3 DEF unrefDescribe, At, Goto, Return, Labels
  <2>4. CASE unrefDeref(t)
    BY <1>0, <2>4 DEF unrefDeref, At, Goto, Return, Labels
  <2>5. CASE destroyRemove(t)
    BY <1>0, <2>5 DEF destroyRemove, At, Goto, Return, Labels
  <2>6. CASE allocLinked(t)
    BY <1>0, <2>6 DEF allocLinked, At, Goto, Return, Labels
  <2>7. CASE allocLock(t)
    BY <1>0, <2>7 DEF allocLock, At, Goto, Return, Labels
  <2>8. CASE arenaAllocEnd(t)
    BY <1>0, <2>8 DEF arenaAllocEnd, At, Goto, Return, Labels
  <2>9. CASE create_new_arena(t)
    BY <1>0, <2>9 DEF create_new_arena, At, Goto, Return, Labels
  <2>10. CASE allocUnlock(t)
    BY <1>0, <2>10 DEF allocUnlock, At, Goto, Return, Labels
  <2>11. CASE freeInArena(t)
    BY <1>0, <2>11 DEF freeInArena, At, Goto, Return, Labels
  <2>12. CASE freeInArenaEnd(t)
    BY <1>0, <2>12 DEF freeInArenaEnd, At, Goto, Return, Labels
  <2>13. CASE freeUncount(t)
    BY <1>0, <2>13 DEF freeUncount, At, Goto, Return, Labels
  <2>14. CASE migrateLock(t)
    BY <1>0, <2>14 DEF migrateLock, At, Goto, Return, Labels
  <2>15. CASE migrateLockChunks(t)
    BY <1>0, <2>15 DEF migrateLockChunks, At, Goto, Return, Labels
  <2>16. CASE migrateArena(t)
    BY <1>0, <2>16 DEF migrateArena, At, Goto, Return, Labels
  <2>17. CASE migratePages(t)
    BY <1>0, <2>17 DEF migratePages, At, Goto, Return, Labels
  <2>18. CASE migrateUnlockChunks(t)
    BY <1>0, <2>18 DEF migrateUnlockChunks, At, Goto, Return, Labels
  <2>19. CASE migrateWalk(t)
    BY <1>0, <2>19 DEF migrateWalk, At, Goto, Return, Labels
  <2>20. CASE migrateUnlockArena(t)
    BY <1>0, <2>20 DEF migrateUnlockArena, At, Goto, Return, Labels
  <2>21. CASE migrateEnd(t)
    BY <1>0, <2>21 DEF migrateEnd, At, Goto, Return, Labels
  <2>22. QED  BY <2>1, <2>2, <2>3, <2>4, <2>5, <2>6, <2>7, <2>8, <2>9, <2>10, <2>11, <2>12, <2>13, <2>14, <2>15, <2>16, <2>17, <2>18, <2>19, <2>20, <2>21 DEF QuietStep
<1>2. /\ c.op \in {"ref", "unref", "alloc", "free", "migrate"} =>
            c.s \in Source /\ source[c.s] \in SourceType(D)
      /\ c.op = "free" => c.b \in D
      /\ c.op = "migrate" => c.node \in Physical
  BY <1>0, <1>1, CallInHand
<1> HIDE DEF D, c
<1>3. ok
  <2>1. CASE ref(t)
    <3>0. RefUnit \in Int
      BY CountAssumption
    <3>1. c.s \in Source /\ source[c.s].blocks \in Int /\ my' = my
      BY <1>0, <1>2, <2>1, SourceFields DEF ref, At, c
    <3> DEFINE x == source[c.s].blocks + (RefUnit)
    <3>2. source' = [source EXCEPT ![c.s].blocks = x] /\ x \in Int
      BY <2>1, <3>0, <3>1 DEF ref, Add, c
    <3> HIDE DEF x
    <3>3. QED  BY <1>0, <3>1, <3>2, SetBlocks
  <2>2. CASE unrefLook(t)
    BY <1>0, <2>2 DEF unrefLook
  <2>3. CASE unrefDescribe(t)
    BY <1>0, <2>3 DEF unrefDescribe
  <2>4. CASE unrefDeref(t)
    <3>0. RefUnit \in Int
      BY CountAssumption
    <3>1. c.s \in Source /\ source[c.s].blocks \in Int /\ my' = my
      BY <1>0, <1>2, <2>4, SourceFields DEF unrefDeref, At, c
    <3> DEFINE x == source[c.s].blocks + (-RefUnit)
    <3>2. source' = [source EXCEPT ![c.s].blocks = x] /\ x \in Int
      BY <2>4, <3>0, <3>1 DEF unrefDeref, Add, c
    <3> HIDE DEF x
    <3>3. QED  BY <1>0, <3>1, <3>2, SetBlocks
  <2>5. CASE destroyRemove(t)
    BY <1>0, <2>5 DEF destroyRemove
  <2>6. CASE allocLinked(t)
    <3>1. c.s \in Source
      BY <1>2, <2>6 DEF allocLinked, At, c
    <3>2. \E x \in Threads : source' = [source EXCEPT ![c.s].mmapped_chunk_lock = x]
      BY <1>0, <2>6 DEF allocLinked, c
    <3>3. my' \in [Thread -> MyType(D)]
      BY <1>0, <2>6 DEF allocLinked
    <3>4. QED  BY <1>0, <3>1, <3>2, <3>3, SetChunkLock
  <2>7. CASE allocLock(t)
    <3>1. c.s \in Source
      BY <1>2, <2>7 DEF allocLock, At, c
    <3>2. \E x \in Threads : source' = [source EXCEPT ![c.s].arena_lock = x]
      BY <1>0, <2>7 DEF allocLock, c
    <3>3. my' \in [Thread -> MyType(D)]
      <4>1. active(c.s) \in Int
        BY <1>0, <3>1, SourceFields DEF active
      <4>2. QED  BY <1>0, <2>7, <4>1, SetMy DEF allocLock, c
    <3>4. QED  BY <1>0, <3>1, <3>2, <3>3, SetArenaLock
  <2>8. CASE arenaAllocEnd(t)
    <3>1. c.s \in Source /\ source[c.s].arenas \in Seq(ArenaType)
      BY <1>0, <1>2, <2>8, SourceFields DEF arenaAllocEnd, At, c
    <3>2. \E a \in Seq(ArenaType) : source' = [source EXCEPT ![c.s].arenas = a]
      <4>1. [source[c.s].arenas EXCEPT ![my[t].k].mspace_lock = None] \in Seq(ArenaType)
        BY <1>0, <3>1, SetArena
      <4>2. source' = [source EXCEPT ![c.s].arenas = [source[c.s].arenas EXCEPT ![my[t].k].mspace_lock = None]]
        BY <2>8, <3>1 DEF arenaAllocEnd, c
      <4>3. QED  BY <4>1, <4>2
    <3>3. my' \in [Thread -> MyType(D)]
      BY <1>0, <2>8 DEF arenaAllocEnd
    <3>4. PICK a \in Seq(ArenaType) : source' = [source EXCEPT ![c.s].arenas = a]
      BY <3>2
    <3>5. QED  BY <1>0, <3>1, <3>3, <3>4, SetArenas
  <2>9. CASE create_new_arena(t)
    <3>1. c.s \in Source /\ source[c.s].arenas \in Seq(ArenaType)
      BY <1>0, <1>2, <2>9, SourceFields DEF create_new_arena, At, c
    <3>2. /\ Append(source[c.s].arenas, Arena(ArenaRoom)) \in Seq(ArenaType)
          /\ ArenaRoom \in Int /\ active(c.s) + 1 \in Int
      <4> DEFINE a == source[c.s].arenas
      <4>1. a \in Seq(ArenaType) /\ ArenaRoom \in Int
        BY <3>1, CountAssumption
      <4> HIDE DEF a
      <4>2. Append(a, Arena(ArenaRoom)) \in Seq(ArenaType)
        BY ONLY <4>1, SetArena
      <4>3. Len(a) \in Nat
        BY ONLY <4>1
      <4>4. active(c.s) + 1 \in Int
        BY <4>3 DEF active, a
      <4>5. QED  BY <4>1, <4>2, <4>4 DEF a
    <3>3. CASE active(c.s) < MaxArenas
      <4>1. /\ source' = [source EXCEPT ![c.s].arenas = Append(source[c.s].arenas, Arena(ArenaRoom))]
            /\ my' = [my EXCEPT ![t].k = active(c.s) + 1, ![t].grown = TRUE]
        BY <2>9, <3>1, <3>3 DEF create_new_arena, c
      <4>2. my' \in [Thread -> MyType(D)]
        BY <1>0, <3>2, <4>1, SetMy
      <4> DEFINE a == Append(source[c.s].arenas, Arena(ArenaRoom))
      <4>3. a \in Seq(ArenaType) /\ source' = [source EXCEPT ![c.s].arenas = a]
        BY <3>2, <4>1
      <4> HIDE DEF a
      <4>4. QED  BY <1>0, <3>1, <4>2, <4>3, SetArenas
    <3>4. CASE ~(active(c.s) < MaxArenas)
      BY <1>0, <2>9, <3>4 DEF create_new_arena, c
    <3>5. QED  BY <3>3, <3>4
  <2>10. CASE allocUnlock(t)
    <3>1. c.s \in Source
      BY <1>2, <2>10 DEF allocUnlock, At, c
    <3>2. \E x \in Threads : source' = [source EXCEPT ![c.s].arena_lock = x]
      BY <1>0, <2>10 DEF allocUnlock, c
    <3>3. my' \in [Thread -> MyType(D)]
      BY <1>0, <2>10 DEF allocUnlock
    <3>4. QED  BY <1>0, <3>1, <3>2, <3>3, SetArenaLock
  <2>11. CASE freeInArena(t)
    <3>1. c.s \in Source /\ source[c.s].arenas \in Seq(ArenaType)
      BY <1>0, <1>2, <2>11, SourceFields DEF freeInArena, At, c
    <3>2. \E a \in Seq(ArenaType) : source' = [source EXCEPT ![c.s].arenas = a]
      <4> DEFINE k == chunk[c.b].arena
                 old == source[c.s].arenas
                 new == [old EXCEPT ![k] = [room |-> @.room + chunk[c.b].size, mspace_lock |-> t]]
      <4>1. source' = [source EXCEPT ![c.s].arenas = new]
        BY <2>11, <3>1 DEF freeInArena, c
      <4>2. chunk[c.b].size \in Nat
        BY <1>2, <2>11, ChunkFields DEF freeInArena, At, c, D
      <4>3. CASE k \in DOMAIN old
        <5>1. old[k].room + chunk[c.b].size \in Int
          BY <3>1, <4>2, <4>3, SetArena
        <5>2. new = [old EXCEPT ![k] = [room |-> old[k].room + chunk[c.b].size, mspace_lock |-> t]]
          OBVIOUS
        <5> HIDE DEF k, old, new
        <5>3. QED  BY <1>0, <3>1, <4>1, <5>1, <5>2, SetArena DEF old
      <4>4. CASE k \notin DOMAIN old
        <5>1. new = old
          BY <3>1, <4>4
        <5>2. QED  BY <3>1, <4>1, <5>1
      <4>5. QED  BY <4>3, <4>4
    <3>3. my' \in [Thread -> MyType(D)]
      <4>1. chunk[c.b].arena \in Int
        BY <1>2, <2>11, ChunkFields DEF freeInArena, At, c, D
      <4>2. QED  BY <1>0, <2>11, <4>1, SetMy DEF freeInArena, c
    <3>4. PICK a \in Seq(ArenaType) : source' = [source EXCEPT ![c.s].arenas = a]
      BY <3>2
    <3>5. QED  BY <1>0, <3>1, <3>3, <3>4, SetArenas
  <2>12. CASE freeInArenaEnd(t)
    <3>1. c.s \in Source /\ source[c.s].arenas \in Seq(ArenaType)
      BY <1>0, <1>2, <2>12, SourceFields DEF freeInArenaEnd, At, c
    <3>2. \E a \in Seq(ArenaType) : source' = [source EXCEPT ![c.s].arenas = a]
      <4>1. [source[c.s].arenas EXCEPT ![my[t].k].mspace_lock = None] \in Seq(ArenaType)
        BY <1>0, <3>1, SetArena
      <4>2. source' = [source EXCEPT ![c.s].arenas = [source[c.s].arenas EXCEPT ![my[t].k].mspace_lock = None]]
        BY <2>12, <3>1 DEF freeInArenaEnd, c
      <4>3. QED  BY <4>1, <4>2
    <3>3. my' \in [Thread -> MyType(D)]
      BY <1>0, <2>12 DEF freeInArenaEnd
    <3>4. PICK a \in Seq(ArenaType) : source' = [source EXCEPT ![c.s].arenas = a]
      BY <3>2
    <3>5. QED  BY <1>0, <3>1, <3>3, <3>4, SetArenas
  <2>13. CASE freeUncount(t)
    <3>0. RefUnit \in Int
      BY CountAssumption
    <3>1. c.s \in Source /\ source[c.s].blocks \in Int /\ my' = my
      BY <1>0, <1>2, <2>13, SourceFields DEF freeUncount, At, c
    <3> DEFINE x == source[c.s].blocks + (-1)
    <3>2. source' = [source EXCEPT ![c.s].blocks = x] /\ x \in Int
      BY <2>13, <3>0, <3>1 DEF freeUncount, Add, c
    <3> HIDE DEF x
    <3>3. QED  BY <1>0, <3>1, <3>2, SetBlocks
  <2>14. CASE migrateLock(t)
    <3>1. c.s \in Source
      BY <1>2, <2>14 DEF migrateLock, At, c
    <3>2. \E x \in Threads : source' = [source EXCEPT ![c.s].arena_lock = x]
      BY <1>0, <2>14 DEF migrateLock, c
    <3>3. my' \in [Thread -> MyType(D)]
      BY <1>0, <2>14 DEF migrateLock
    <3>4. QED  BY <1>0, <3>1, <3>2, <3>3, SetArenaLock
  <2>15. CASE migrateLockChunks(t)
    <3>1. c.s \in Source
      BY <1>2, <2>15 DEF migrateLockChunks, At, c
    <3>2. \E x \in Threads : source' = [source EXCEPT ![c.s].mmapped_chunk_lock = x]
      BY <1>0, <2>15 DEF migrateLockChunks, c
    <3>3. my' \in [Thread -> MyType(D)]
      <4>1. active(c.s) \in Int
        BY <1>0, <3>1, SourceFields DEF active
      <4>2. QED  BY <1>0, <2>15, <4>1, SetMy DEF migrateLockChunks, c
    <3>4. QED  BY <1>0, <3>1, <3>2, <3>3, SetChunkLock
  <2>16. CASE migrateArena(t)
    <3>1. c.s \in Source /\ source[c.s].arenas \in Seq(ArenaType)
      BY <1>0, <1>2, <2>16, SourceFields DEF migrateArena, At, c
    <3>2. \E a \in Seq(ArenaType) : source' = [source EXCEPT ![c.s].arenas = a]
      <4>1. [source[c.s].arenas EXCEPT ![my[t].k].mspace_lock = t] \in Seq(ArenaType)
        BY <1>0, <3>1, SetArena
      <4>2. source' = [source EXCEPT ![c.s].arenas = [source[c.s].arenas EXCEPT ![my[t].k].mspace_lock = t]]
        BY <2>16, <3>1 DEF migrateArena, c
      <4>3. QED  BY <4>1, <4>2
    <3>3. my' \in [Thread -> MyType(D)]
      <4>1. my[t].k - 1 \in Int
        BY <1>0 DEF MyType
      <4>2. QED  BY <1>0, <2>16, <4>1, SetMy DEF migrateArena
    <3>4. PICK a \in Seq(ArenaType) : source' = [source EXCEPT ![c.s].arenas = a]
      BY <3>2
    <3>5. QED  BY <1>0, <3>1, <3>3, <3>4, SetArenas
  <2>17. CASE migratePages(t)
    <3>1. c.s \in Source
      BY <1>2, <2>17 DEF migratePages, At, c
    <3>2. \E x \in Threads : source' = [source EXCEPT ![c.s].arena_lock = x]
      BY <1>0, <2>17 DEF migratePages, c
    <3>3. my' \in [Thread -> MyType(D)]
      BY <1>0, <2>17 DEF migratePages
    <3>4. QED  BY <1>0, <3>1, <3>2, <3>3, SetArenaLock
  <2>18. CASE migrateUnlockChunks(t)
    <3>1. c.s \in Source
      BY <1>2, <2>18 DEF migrateUnlockChunks, At, c
    <3>2. \E x \in Threads : source' = [source EXCEPT ![c.s].mmapped_chunk_lock = x]
      BY <1>0, <2>18 DEF migrateUnlockChunks, c
    <3>3. my' \in [Thread -> MyType(D)]
      BY <1>0, <2>18 DEF migrateUnlockChunks
    <3>4. QED  BY <1>0, <3>1, <3>2, <3>3, SetChunkLock
  <2>19. CASE migrateWalk(t)
    <3>1. c.s \in Source
      BY <1>2, <2>19 DEF migrateWalk, At, c
    <3>2. active(c.s) \in Int
      BY <1>0, <3>1, SourceFields DEF active
    <3>3. QED  BY <1>0, <2>19, <3>2, SetMy DEF migrateWalk, c
  <2>20. CASE migrateUnlockArena(t)
    <3>1. c.s \in Source /\ source[c.s].arenas \in Seq(ArenaType)
      BY <1>0, <1>2, <2>20, SourceFields DEF migrateUnlockArena, At, c
    <3>2. \E a \in Seq(ArenaType) : source' = [source EXCEPT ![c.s].arenas = a]
      <4>1. [source[c.s].arenas EXCEPT ![my[t].k].mspace_lock = None] \in Seq(ArenaType)
        BY <1>0, <3>1, SetArena
      <4>2. source' = [source EXCEPT ![c.s].arenas = [source[c.s].arenas EXCEPT ![my[t].k].mspace_lock = None]]
        BY <2>20, <3>1 DEF migrateUnlockArena, c
      <4>3. QED  BY <4>1, <4>2
    <3>3. my' \in [Thread -> MyType(D)]
      <4>1. my[t].k - 1 \in Int
        BY <1>0 DEF MyType
      <4>2. QED  BY <1>0, <2>20, <4>1, SetMy DEF migrateUnlockArena
    <3>4. PICK a \in Seq(ArenaType) : source' = [source EXCEPT ![c.s].arenas = a]
      BY <3>2
    <3>5. QED  BY <1>0, <3>1, <3>3, <3>4, SetArenas
  <2>21. CASE migrateEnd(t)
    <3>1. c.s \in Source /\ c.node \in Physical /\ my' = my
      BY <1>2, <2>21 DEF migrateEnd, At, c
    <3>2. source' = [source EXCEPT ![c.s].node = c.node]
      BY <2>21 DEF migrateEnd, c
    <3>3. QED  BY <1>0, <3>1, <3>2, SetNode
  <2>22. QED  BY <2>1, <2>2, <2>3, <2>4, <2>5, <2>6, <2>7, <2>8, <2>9, <2>10, <2>11, <2>12, <2>13, <2>14, <2>15, <2>16, <2>17, <2>18, <2>19, <2>20, <2>21 DEF QuietStep
<1>4. QED  BY <1>1, <1>3, QuietTypes DEF D

(* What a chunk is does not change.                                        *)
ChunksStay(new) ==
    /\ DOMAIN chunk \subseteq DOMAIN new
    /\ \A b \in DOMAIN chunk : /\ new[b].source = chunk[b].source
                               /\ new[b].arena = chunk[b].arena

(* One chunk changes.                                                      *)
LEMMA SetOneChunk ==
    ASSUME NEW D, NEW old \in Seq(ChunkType(D)), D = DOMAIN old, NEW b \in D,
           NEW r \in ChunkType(D), r.source = old[b].source, r.arena = old[b].arena,
           NEW new, new = [old EXCEPT ![b] = r]
    PROVE  /\ new \in Seq(ChunkType(D)) /\ DOMAIN new = D
           /\ \A c \in D : new[c].source = old[c].source /\ new[c].arena = old[c].arena
<1>1. Len(old) \in Nat /\ old \in [1 .. Len(old) -> ChunkType(D)]
  OBVIOUS
<1>2. new \in [1 .. Len(old) -> ChunkType(D)]
  BY <1>1
<1>3. \A n \in Nat : \A f : f \in [1 .. n -> ChunkType(D)] => f \in Seq(ChunkType(D))
  OBVIOUS
<1>4. QED  BY <1>1, <1>2, <1>3

(* One chunk's forward link changes.                                       *)
LEMMA SetNext ==
    ASSUME NEW D, NEW old \in Seq(ChunkType(D)), D = DOMAIN old, NEW b \in D,
           NEW x \in D \cup {None}, NEW new, new = [old EXCEPT ![b].next = x]
    PROVE  /\ new \in Seq(ChunkType(D)) /\ DOMAIN new = D
           /\ \A c \in D : new[c].source = old[c].source /\ new[c].arena = old[c].arena
<1> DEFINE r == [old[b] EXCEPT !.next = x]
<1>1. r \in ChunkType(D) /\ r.source = old[b].source /\ r.arena = old[b].arena
  <2>1. old[b] \in ChunkType(D)
    OBVIOUS
  <2>2. QED  BY <2>1 DEF ChunkType
<1>2. new = [old EXCEPT ![b] = r]
  OBVIOUS
<1>3. old \in Seq(ChunkType(D)) /\ D = DOMAIN old /\ b \in D
  OBVIOUS
<1> HIDE DEF r
<1>4. QED  BY ONLY <1>1, <1>2, <1>3, SetOneChunk

(* One chunk's backward link changes.                                      *)
LEMMA SetPrev ==
    ASSUME NEW D, NEW old \in Seq(ChunkType(D)), D = DOMAIN old, NEW b \in D,
           NEW x \in D \cup {None}, NEW new, new = [old EXCEPT ![b].prev = x]
    PROVE  /\ new \in Seq(ChunkType(D)) /\ DOMAIN new = D
           /\ \A c \in D : new[c].source = old[c].source /\ new[c].arena = old[c].arena
<1> DEFINE r == [old[b] EXCEPT !.prev = x]
<1>1. r \in ChunkType(D) /\ r.source = old[b].source /\ r.arena = old[b].arena
  <2>1. old[b] \in ChunkType(D)
    OBVIOUS
  <2>2. QED  BY <2>1 DEF ChunkType
<1>2. new = [old EXCEPT ![b] = r]
  OBVIOUS
<1>3. old \in Seq(ChunkType(D)) /\ D = DOMAIN old /\ b \in D
  OBVIOUS
<1> HIDE DEF r
<1>4. QED  BY ONLY <1>1, <1>2, <1>3, SetOneChunk

(* What one chunk is used for changes.                                     *)
LEMMA SetUse ==
    ASSUME NEW D, NEW old \in Seq(ChunkType(D)), D = DOMAIN old, NEW b \in D,
           NEW x \in Uses, NEW new, new = [old EXCEPT ![b].use = x]
    PROVE  /\ new \in Seq(ChunkType(D)) /\ DOMAIN new = D
           /\ \A c \in D : new[c].source = old[c].source /\ new[c].arena = old[c].arena
<1> DEFINE r == [old[b] EXCEPT !.use = x]
<1>1. r \in ChunkType(D) /\ r.source = old[b].source /\ r.arena = old[b].arena
  <2>1. old[b] \in ChunkType(D)
    OBVIOUS
  <2>2. QED  BY <2>1 DEF ChunkType
<1>2. new = [old EXCEPT ![b] = r]
  OBVIOUS
<1>3. old \in Seq(ChunkType(D)) /\ D = DOMAIN old /\ b \in D
  OBVIOUS
<1> HIDE DEF r
<1>4. QED  BY ONLY <1>1, <1>2, <1>3, SetOneChunk

(* A new chunk.                                                            *)
LEMMA NewChunkTypes ==
    ASSUME TypeInv, NEW t \in Thread, todo[t] # <<>>, Call(t).op = "alloc",
           NEW k \in Int \cup {None}, NEW size \in Nat, NewChunk(t, k, size)
    PROVE  /\ chunk' \in Seq(ChunkType(DOMAIN chunk'))
           /\ DOMAIN chunk' = DOMAIN chunk \cup {Len(chunk) + 1}
           /\ \A b \in DOMAIN chunk : chunk'[b] = chunk[b]
           /\ chunk'[Len(chunk) + 1] =
                [source |-> Call(t).s, arena |-> k, size |-> size,
                 bytes |-> Call(t).bytes, use |-> "none", mapped |-> TRUE,
                 prev |-> None, next |-> None]
           /\ Len(chunk) + 1 \notin DOMAIN chunk
           /\ Call(t).s \in Born
           /\ \A b \in DOMAIN chunk' : chunk'[b].source \in Born
           /\ my' \in [Thread -> MyType(DOMAIN chunk')]
           /\ my' = [my EXCEPT ![t].b = Len(chunk) + 1]
           /\ Len(chunk') = Len(chunk) + 1 /\ Len(chunk) < MaxChunks
<1> DEFINE D == DOMAIN chunk
           E == DOMAIN chunk'
           new == [source |-> Call(t).s, arena |-> k, size |-> size,
                   bytes |-> Call(t).bytes, use |-> "none", mapped |-> TRUE,
                   prev |-> None, next |-> None]
           n == Len(chunk)
<1>1. /\ chunk \in Seq(ChunkType(D)) /\ my \in [Thread -> MyType(D)]
      /\ \A b \in D : chunk[b].source \in Born
  BY DEF TypeInv, Typed, Chunked
<1>2. chunk' = Append(chunk, new) /\ my' = [my EXCEPT ![t].b = n + 1] /\ n < MaxChunks
  BY DEF NewChunk
<1>3. /\ n \in Nat /\ D = 1 .. n
      /\ DOMAIN Append(chunk, new) = 1 .. n + 1 /\ Len(Append(chunk, new)) = n + 1
      /\ \A b \in 1 .. n : Append(chunk, new)[b] = chunk[b]
      /\ Append(chunk, new)[n + 1] = new
  <2> HIDE DEF new, D
  <2>1. QED  BY <1>1 DEF D
<1>4. /\ E = D \cup {n + 1} /\ Len(chunk') = n + 1 /\ n + 1 \notin D
      /\ \A b \in D : chunk'[b] = chunk[b]
      /\ chunk'[n + 1] = new
  <2> HIDE DEF new
  <2>1. QED  BY <1>2, <1>3
<1>5. Call(t).s \in Source /\ Call(t).s \in Born /\ Call(t).bytes \in Nat
  BY CallInHand
<1>6. new \in ChunkType(E)
  BY <1>5 DEF ChunkType, Uses
<1>7. ChunkType(D) \subseteq ChunkType(E) /\ MyType(D) \subseteq MyType(E)
  BY <1>4, TypesWider
<1>8. chunk' \in Seq(ChunkType(E))
  <2> HIDE DEF new, D, E
  <2>1. chunk \in Seq(ChunkType(E))
    BY <1>1, <1>7, SeqWider
  <2>2. QED  BY <1>2, <1>6, <2>1
<1>9. \A b \in E : chunk'[b].source \in Born
  <2>1. new.source = Call(t).s
    OBVIOUS
  <2> HIDE DEF new, D, E
  <2>2. QED  BY <1>1, <1>4, <1>5, <2>1
<1>10. my' \in [Thread -> MyType(E)]
  <2> HIDE DEF new, D, E
  <2>1. my \in [Thread -> MyType(E)] /\ n + 1 \in E \cup {None}
    BY <1>1, <1>4, <1>7
  <2>2. QED  BY <1>2, <2>1, SetMy
<1>11. QED  BY <1>2, <1>4, <1>5, <1>8, <1>9, <1>10

(* A step on the sources that changes chunks, or makes one.                *)
LEMMA LoudTypes ==
    ASSUME TypeInv, NEW t \in Thread, todo[t] # <<>>, UNCHANGED <<current, placeVars, allsources>>,
           source' \in [Source -> SourceType(DOMAIN chunk')],
           \A s \in Source : Unborn(s)' <=> Unborn(s),
           chunk' \in Seq(ChunkType(DOMAIN chunk')),
           ChunksStay(chunk'),
           \A b \in DOMAIN chunk' : chunk'[b].source \in Born,
           \/ \E label \in Labels : Goto(t, label)
           \/ Return(t),
           my' \in [Thread -> MyType(DOMAIN chunk')]
    PROVE  TypeInv' /\ ChunksStay(chunk')
<1>1. Typed(Born, DOMAIN chunk) /\ allsources' \subseteq Source
  BY DEF TypeInv, Typed
<1>2. \E q \in Seq(CallType(Born, DOMAIN chunk)), label \in Labels : Listed(t, q, label)
  <2>1. todo[t] \in Seq(CallType(Born, DOMAIN chunk)) /\ Tail(todo[t]) \in Seq(CallType(Born, DOMAIN chunk))
    BY CallInHand
  <2>2. "start" \in Labels
    BY DEF Labels
  <2>3. QED  BY <1>1, <2>1, <2>2, Steps
<1>3. PICK q \in Seq(CallType(Born, DOMAIN chunk)), label \in Labels : Listed(t, q, label)
  BY <1>2
<1>4. DOMAIN chunk \subseteq DOMAIN chunk'
  BY DEF ChunksStay
<1>5. todo' \in [Thread -> Seq(CallType(Born, DOMAIN chunk'))] /\ pc' \in [Thread -> Labels]
  <2>1. q \in Seq(CallType(Born, DOMAIN chunk'))
    BY <1>4, TypesWider, SeqWider
  <2>2. QED  BY <1>1, <1>3, <1>4, <2>1, ListedTypes
<1>6. QED  BY <1>1, <1>4, <1>5, SourceTypesClose

LoudStep(t) ==
    \/ allocMap(t) \/ allocLink(t) \/ arenaAlloc(t) \/ allocCount(t) \/ freeUnlink(t)
    \/ freeUnmap(t) \/ destroyFinish(t)

(* The steps of msource.cpp that write a chunk or add one (allocation,
   linking, unlinking, deallocation, destruction) keep the types and keep
   what a chunk is.                                                        *)
LEMMA LoudStepTypes ==
    ASSUME TypeInv, PcInv, NEW t \in Thread, LoudStep(t), UNCHANGED placeVars
    PROVE  TypeInv' /\ ChunksStay(chunk')
<1> DEFINE D == DOMAIN chunk
           c == Call(t)
<1>0. /\ source \in [Source -> SourceType(D)] /\ my \in [Thread -> MyType(D)]
      /\ chunk \in Seq(ChunkType(D)) /\ t \in Threads /\ None \in Threads
      /\ \A b \in D : chunk[b].source \in Born
      /\ \A s \in Source : source'[s].state = source[s].state => (Unborn(s)' <=> Unborn(s))
  BY DEF TypeInv, Typed, Chunked, Threads, Unborn
<1>1. /\ todo[t] # <<>> /\ UNCHANGED <<current, allsources>>
      /\ \/ \E label \in Labels : Goto(t, label)
         \/ Return(t)
  <2>1. CASE allocMap(t)
    BY <2>1 DEF allocMap, At, Labels
  <2>2. CASE allocLink(t)
    BY <2>2 DEF allocLink, At, Labels
  <2>3. CASE arenaAlloc(t)
    BY <2>3 DEF arenaAlloc, At, Labels
  <2>4. CASE allocCount(t)
    BY <2>4 DEF allocCount, At
  <2>5. CASE freeUnlink(t)
    BY <2>5 DEF freeUnlink, At, Labels
  <2>6. CASE freeUnmap(t)
    BY <2>6 DEF freeUnmap, At, Labels
  <2>7. CASE destroyFinish(t)
    BY <2>7 DEF destroyFinish
  <2>8. QED  BY <2>1, <2>2, <2>3, <2>4, <2>5, <2>6, <2>7 DEF LoudStep
<1>2. /\ c \in CallType(Born, D)
      /\ c.op \in {"unref", "alloc", "free"} => c.s \in Source /\ source[c.s] \in SourceType(D)
      /\ c.op = "alloc" => c.bytes \in Nat /\ c.use \in Uses
      /\ c.op = "free" => c.b \in D /\ chunk[c.b].prev \in D \cup {None}
                          /\ chunk[c.b].next \in D \cup {None}
  <2>1. c.op = "free" => c.b \in D
    BY <1>1, CallInHand
  <2>2. c.op = "free" => chunk[c.b].prev \in D \cup {None} /\ chunk[c.b].next \in D \cup {None}
    BY <2>1, ChunkFields
  <2>3. QED  BY <1>0, <1>1, <2>1, <2>2, CallInHand DEF Uses
<1>a. SUFFICES /\ source' \in [Source -> SourceType(DOMAIN chunk')]
               /\ \A s \in Source : Unborn(s)' <=> Unborn(s)
               /\ chunk' \in Seq(ChunkType(DOMAIN chunk'))
               /\ ChunksStay(chunk')
               /\ \A b \in DOMAIN chunk' : chunk'[b].source \in Born
               /\ my' \in [Thread -> MyType(DOMAIN chunk')]
  BY <1>1, LoudTypes
<1> HIDE DEF c
<1>b. ASSUME chunk' \in Seq(ChunkType(D)), DOMAIN chunk' = D,
             \A b \in D : chunk'[b].source = chunk[b].source /\ chunk'[b].arena = chunk[b].arena
      PROVE  /\ chunk' \in Seq(ChunkType(DOMAIN chunk')) /\ ChunksStay(chunk')
             /\ \A b \in DOMAIN chunk' : chunk'[b].source \in Born
  BY <1>0, <1>b DEF ChunksStay
<1>c. ASSUME NEW k \in Int \cup {None}, NEW size \in Nat, NewChunk(t, k, size), c.op = "alloc"
      PROVE  /\ chunk' \in Seq(ChunkType(DOMAIN chunk')) /\ ChunksStay(chunk')
             /\ \A b \in DOMAIN chunk' : chunk'[b].source \in Born
             /\ my' \in [Thread -> MyType(DOMAIN chunk')]
             /\ SourceType(D) \subseteq SourceType(DOMAIN chunk')
  <2>1. /\ chunk' \in Seq(ChunkType(DOMAIN chunk'))
        /\ DOMAIN chunk \subseteq DOMAIN chunk'
        /\ \A b \in DOMAIN chunk : chunk'[b] = chunk[b]
        /\ \A b \in DOMAIN chunk' : chunk'[b].source \in Born
        /\ my' \in [Thread -> MyType(DOMAIN chunk')]
    <3>1. todo[t] # <<>> /\ Call(t).op = "alloc"
      BY <1>1, <1>c DEF c
    <3>2. QED  BY <1>c, <3>1, NewChunkTypes
  <2>2. QED  BY <2>1, TypesWider DEF ChunksStay
<1>3. CASE allocMap(t)
  <2>1. c.op = "alloc" /\ source' = source
    BY <1>3 DEF allocMap, At, c
  <2>2. CASE c.bytes < MmapLimit /\ NewChunk(t, None, c.bytes + MmapFooterSize)
    <3>1. c.bytes + MmapFooterSize \in Nat
      BY <1>2, <2>1, CountAssumption
    <3>2. SourceType(D) \subseteq SourceType(DOMAIN chunk')
      BY <1>c, <2>1, <2>2, <3>1
    <3>3. source' \in [Source -> SourceType(DOMAIN chunk')] /\ \A s \in Source : Unborn(s)' <=> Unborn(s)
      BY <1>0, <2>1, <3>2
    <3>4. QED  BY <1>c, <2>1, <2>2, <3>1, <3>3
  <2>3. CASE c.bytes >= MmapLimit /\ chunk' = chunk /\ my' = [my EXCEPT ![t].b = None]
    <3>1. my' \in [Thread -> MyType(D)]
      BY <1>0, <2>3, SetMy
    <3>2. QED  BY <1>0, <1>b, <2>1, <2>3, <3>1
  <2>4. QED  BY <1>3, <2>2, <2>3 DEF allocMap, c
<1>4. CASE allocLink(t)
  <2> DEFINE b == my[t].b
             head == source[c.s].mmapped_chunk_head
             linked == [chunk EXCEPT ![b].next = head]
  <2>1. /\ c.op = "alloc" /\ my' = my
        /\ source' = [source EXCEPT ![c.s].mmapped_chunk_lock = t, ![c.s].mmapped_chunk_head = b]
        /\ chunk' = IF head = None THEN linked ELSE [linked EXCEPT ![head].prev = b]
    BY <1>4 DEF allocLink, At, c
  <2>2. b \in D \cup {None} /\ head \in D \cup {None} /\ c.s \in Source
    <3>1. my[t] \in MyType(D)
      BY <1>0
    <3>2. b \in D \cup {None}
      BY <3>1 DEF MyType
    <3>3. QED  BY <1>2, <2>1, <3>2, SourceFields
  <2> HIDE DEF b, head
  <2>a. linked = [chunk EXCEPT ![b].next = head]
    OBVIOUS
  <2> HIDE DEF linked
  <2>3. /\ linked \in Seq(ChunkType(D)) /\ DOMAIN linked = D
        /\ \A x \in D : linked[x].source = chunk[x].source /\ linked[x].arena = chunk[x].arena
    <3>1. CASE b \in D
      <4>1. chunk \in Seq(ChunkType(D)) /\ D = DOMAIN chunk /\ head \in D \cup {None}
        BY <1>0, <2>2
      <4> DEFINE r == [chunk[b] EXCEPT !.next = head]
      <4>2. linked = [chunk EXCEPT ![b] = r]
        BY <2>a
      <4>3. r \in ChunkType(D) /\ r.source = chunk[b].source /\ r.arena = chunk[b].arena
        <5>1. chunk[b] \in ChunkType(D)
          BY <3>1, <4>1
        <5>2. QED  BY <4>1, <5>1 DEF ChunkType
      <4> HIDE DEF r, D
      <4>4. QED  BY ONLY <3>1, <4>1, <4>2, <4>3, SetOneChunk
    <3>2. CASE b \notin D
      <4>1. linked = chunk
        BY <1>0, <2>a, <3>2
      <4>2. QED  BY <1>0, <4>1
    <3>3. QED  BY <3>1, <3>2
  <2>4. /\ chunk' \in Seq(ChunkType(D)) /\ DOMAIN chunk' = D
        /\ \A x \in D : chunk'[x].source = chunk[x].source /\ chunk'[x].arena = chunk[x].arena
    <3>1. CASE head = None
      BY <2>1, <2>3, <3>1
    <3>2. CASE head # None
      <4>1. chunk' = [linked EXCEPT ![head].prev = b] /\ head \in D
        BY <2>1, <2>2, <3>2
      <4>2. /\ chunk' \in Seq(ChunkType(D)) /\ DOMAIN chunk' = D
            /\ \A x \in D : chunk'[x].source = linked[x].source /\ chunk'[x].arena = linked[x].arena
        <5> HIDE DEF D
        <5>1. QED  BY ONLY <2>2, <2>3, <4>1, SetPrev
      <4>3. QED  BY <2>3, <4>2
    <3>3. QED  BY <3>1, <3>2
  <2>5. source' \in [Source -> SourceType(D)] /\ \A s \in Source : source'[s].state = source[s].state
    <3>1. source \in [Source -> SourceType(D)] /\ t \in Threads
      BY <1>0
    <3> DEFINE r == [source[c.s] EXCEPT !.mmapped_chunk_lock = t, !.mmapped_chunk_head = b]
    <3>2. source' = [source EXCEPT ![c.s] = r]
      BY <2>1
    <3>3. source[c.s] \in SourceType(D)
      BY <2>2, <3>1
    <3>4. r \in SourceType(D) /\ r.state = source[c.s].state
      BY <2>2, <3>1, <3>3 DEF SourceType
    <3> HIDE DEF r
    <3>5. /\ source' \in [Source -> SourceType(D)] /\ source'[c.s] = r
          /\ \A q \in Source \ {c.s} : source'[q] = source[q]
      BY <2>2, <3>1, <3>2, <3>4, SetOneSource
    <3>6. QED  BY <3>4, <3>5
  <2>6. QED  BY <1>0, <1>b, <2>1, <2>4, <2>5
<1>5. CASE arenaAlloc(t)
  <2> DEFINE k == my[t].k
             size == c.bytes + FooterSize
             old == source[c.s].arenas
             fits == old[k].room >= size
             room == old[k].room - (IF fits THEN size ELSE 0)
             new == [old EXCEPT ![k] = [room |-> room, mspace_lock |-> t]]
  <2>1. /\ c.op = "alloc" /\ source' = [source EXCEPT ![c.s].arenas = new]
        /\ IF fits THEN NewChunk(t, k, size) ELSE UNCHANGED <<chunk, my>>
    BY <1>5 DEF arenaAlloc, At, c
  <2>2. /\ c.s \in Source /\ k \in Int /\ size \in Nat /\ old \in Seq(ArenaType)
    <3>1. my[t] \in MyType(D)
      BY <1>0
    <3>2. k \in Int
      BY <3>1 DEF MyType
    <3>3. c.s \in Source /\ size \in Nat
      BY <1>2, <2>1, CountAssumption
    <3>4. QED  BY <1>0, <3>2, <3>3, SourceFields
  <2>3. new \in Seq(ArenaType)
    <3>1. CASE k \in DOMAIN old
      <4>1. room \in Int
        BY <2>2, <3>1, SetArena
      <4> HIDE DEF k, old, room
      <4>2. QED  BY <1>0, <2>2, <4>1, SetArena
    <3>2. CASE k \notin DOMAIN old
      <4>1. new = old
        BY <2>2, <3>2
      <4>2. QED  BY <2>2, <4>1
    <3>3. QED  BY <3>1, <3>2
  <2> HIDE DEF new, k, size, fits
  <2>4. source' \in [Source -> SourceType(D)] /\ \A s \in Source : source'[s].state = source[s].state
    <3>1. source \in [Source -> SourceType(D)]
          /\ source' = [source EXCEPT ![c.s].arenas = new]
      BY <1>0, <2>1
    <3>2. QED  BY ONLY <2>2, <2>3, <3>1, SetArenas
  <2>5. CASE fits
    <3>1. NewChunk(t, k, size)
      BY <2>1, <2>5
    <3>2. SourceType(D) \subseteq SourceType(DOMAIN chunk')
      BY <1>c, <2>1, <2>2, <3>1
    <3>3. source' \in [Source -> SourceType(DOMAIN chunk')]
      BY <2>4, <3>2
    <3>4. QED  BY <1>0, <1>c, <2>1, <2>2, <2>4, <3>1, <3>3
  <2>6. CASE ~fits
    <3>1. chunk' = chunk /\ my' = my
      BY <2>1, <2>6
    <3>2. QED  BY <1>0, <1>b, <2>4, <3>1
  <2>7. QED  BY <2>5, <2>6
<1>6. CASE allocCount(t)
  <2> DEFINE b == my[t].b
  <2>1. /\ c.op = "alloc" /\ my' = my
        /\ source' = [source EXCEPT ![c.s].blocks = @ + 1]
        /\ chunk' = [chunk EXCEPT ![b].use = c.use]
    BY <1>6 DEF allocCount, At, c, Add
  <2>2. source' \in [Source -> SourceType(D)] /\ \A s \in Source : source'[s].state = source[s].state
    <3> DEFINE x == source[c.s].blocks + 1
    <3>1. x \in Int /\ source' = [source EXCEPT ![c.s].blocks = x] /\ c.s \in Source
      BY <1>2, <2>1, SourceFields
    <3> HIDE DEF x
    <3>2. QED  BY <1>0, <3>1, SetBlocks
  <2>3. /\ chunk' \in Seq(ChunkType(D)) /\ DOMAIN chunk' = D
        /\ \A x \in D : chunk'[x].source = chunk[x].source /\ chunk'[x].arena = chunk[x].arena
    <3>1. CASE b \in D
      <4>1. chunk \in Seq(ChunkType(D)) /\ D = DOMAIN chunk /\ c.use \in Uses
            /\ chunk' = [chunk EXCEPT ![b].use = c.use]
        BY <1>0, <1>2, <2>1
      <4>2. QED  BY ONLY <3>1, <4>1, SetUse
    <3>2. CASE b \notin D
      <4>1. chunk' = chunk
        BY <1>0, <2>1, <3>2
      <4>2. QED  BY <1>0, <4>1
    <3>3. QED  BY <3>1, <3>2
  <2>4. QED  BY <1>0, <1>b, <2>1, <2>2, <2>3
<1>7. CASE freeUnlink(t)
  <2> DEFINE x == chunk[c.b]
             before == IF x.prev = None THEN chunk ELSE [chunk EXCEPT ![x.prev].next = x.next]
             h == IF x.prev = None THEN x.next ELSE source[c.s].mmapped_chunk_head
  <2>1. /\ c.op = "free" /\ my' = my
        /\ source' = [source EXCEPT ![c.s].mmapped_chunk_lock = t, ![c.s].mmapped_chunk_head = h]
        /\ chunk' = IF x.next = None THEN before ELSE [before EXCEPT ![x.next].prev = x.prev]
    BY <1>7 DEF freeUnlink, At, c
  <2>2. x.prev \in D \cup {None} /\ x.next \in D \cup {None} /\ h \in D \cup {None} /\ c.s \in Source
    BY <1>2, <2>1, SourceFields
  <2>3. /\ before \in Seq(ChunkType(D)) /\ DOMAIN before = D
        /\ \A y \in D : before[y].source = chunk[y].source /\ before[y].arena = chunk[y].arena
    <3>1. CASE x.prev = None
      BY <1>0, <3>1
    <3>2. CASE x.prev # None
      <4>1. before = [chunk EXCEPT ![x.prev].next = x.next] /\ x.prev \in D
        BY <2>2, <3>2
      <4> HIDE DEF before, x
      <4>2. chunk \in Seq(ChunkType(D)) /\ D = DOMAIN chunk
        BY <1>0
      <4>3. QED  BY ONLY <2>2, <4>1, <4>2, SetNext
    <3>3. QED  BY <3>1, <3>2
  <2> HIDE DEF before, h
  <2>4. /\ chunk' \in Seq(ChunkType(D)) /\ DOMAIN chunk' = D
        /\ \A y \in D : chunk'[y].source = chunk[y].source /\ chunk'[y].arena = chunk[y].arena
    <3>1. CASE x.next = None
      BY <2>1, <2>3, <3>1
    <3>2. CASE x.next # None
      <4>1. chunk' = [before EXCEPT ![x.next].prev = x.prev] /\ x.next \in D
        BY <2>1, <2>2, <3>2
      <4> HIDE DEF x
      <4>2. /\ chunk' \in Seq(ChunkType(D)) /\ DOMAIN chunk' = D
            /\ \A y \in D : chunk'[y].source = before[y].source /\ chunk'[y].arena = before[y].arena
        BY ONLY <2>2, <2>3, <4>1, SetPrev
      <4>3. QED  BY <2>3, <4>2
    <3>3. QED  BY <3>1, <3>2
  <2>5. source' \in [Source -> SourceType(D)] /\ \A s \in Source : source'[s].state = source[s].state
    <3>1. source \in [Source -> SourceType(D)] /\ t \in Threads
      BY <1>0
    <3> DEFINE r == [source[c.s] EXCEPT !.mmapped_chunk_lock = t, !.mmapped_chunk_head = h]
    <3>2. source' = [source EXCEPT ![c.s] = r]
      BY <2>1
    <3>3. source[c.s] \in SourceType(D)
      BY <2>2, <3>1
    <3>4. r \in SourceType(D) /\ r.state = source[c.s].state
      BY <2>2, <3>1, <3>3 DEF SourceType
    <3> HIDE DEF r
    <3>5. /\ source' \in [Source -> SourceType(D)] /\ source'[c.s] = r
          /\ \A q \in Source \ {c.s} : source'[q] = source[q]
      BY <2>2, <3>1, <3>2, <3>4, SetOneSource
    <3>6. QED  BY <3>4, <3>5
  <2>6. QED  BY <1>0, <1>b, <2>1, <2>4, <2>5
<1>8. CASE freeUnmap(t)
  <2>1. /\ c.op = "free" /\ my' = my
        /\ source' = [source EXCEPT ![c.s].mmapped_chunk_lock = None]
        /\ chunk' = [chunk EXCEPT ![c.b].mapped = FALSE]
    BY <1>8 DEF freeUnmap, At, c
  <2>2. source' \in [Source -> SourceType(D)] /\ \A s \in Source : source'[s].state = source[s].state
    <3>1. source \in [Source -> SourceType(D)] /\ None \in Threads /\ c.s \in Source
          /\ source' = [source EXCEPT ![c.s].mmapped_chunk_lock = None]
      BY <1>0, <1>2, <2>1
    <3>2. QED  BY ONLY <3>1, SetChunkLock
  <2>3. /\ chunk' \in Seq(ChunkType(D)) /\ DOMAIN chunk' = D
        /\ \A x \in D : chunk'[x].source = chunk[x].source /\ chunk'[x].arena = chunk[x].arena
    <3>1. FALSE \in BOOLEAN /\ c.b \in D
      BY <1>2, <2>1
    <3>2. chunk \in Seq(ChunkType(D)) /\ D = DOMAIN chunk
          /\ chunk' = [chunk EXCEPT ![c.b].mapped = FALSE]
      BY <1>0, <2>1
    <3> DEFINE r == [chunk[c.b] EXCEPT !.mapped = FALSE]
    <3>3. chunk' = [chunk EXCEPT ![c.b] = r]
      BY <3>2
    <3>4. r \in ChunkType(D) /\ r.source = chunk[c.b].source /\ r.arena = chunk[c.b].arena
      <4>1. chunk[c.b] \in ChunkType(D)
        BY <3>1, <3>2
      <4>2. QED  BY <4>1 DEF ChunkType
    <3> HIDE DEF r, D
    <3>5. QED  BY ONLY <3>1, <3>2, <3>3, <3>4, SetOneChunk
  <2>4. QED  BY <1>0, <1>b, <2>1, <2>2, <2>3
<1>9. CASE destroyFinish(t)
  <2> DEFINE gone == {b \in D : chunk[b].source = c.s /\
                        (chunk[b].arena # None \/ b \in ToSet(mmapped(c.s)))}
             st == IF source[c.s].state = "alive" THEN "destroyed" ELSE "destroyed_twice"
  <2>1. /\ my' = my
        /\ source' = [source EXCEPT ![c.s].state = st, ![c.s].arenas = <<>>]
        /\ chunk' = [b \in D |-> IF b \in gone THEN [chunk[b] EXCEPT !.mapped = FALSE] ELSE chunk[b]]
    BY <1>9 DEF destroyFinish, c
  <2> HIDE DEF gone
  <2>2. c.s \in Source /\ ~Unborn(c.s) /\ st \in {"destroyed", "destroyed_twice"}
    <3>1. Call(t).op \in {"unref", "free"}
      BY <1>9 DEF destroyFinish, PcInv, LabelsOf
    <3>2. QED  BY <1>1, <3>1, CallInHand DEF c, Born
  <2>3. /\ chunk' \in Seq(ChunkType(D)) /\ DOMAIN chunk' = D
        /\ \A x \in D : chunk'[x].source = chunk[x].source /\ chunk'[x].arena = chunk[x].arena
    <3>1. \A x \in D : chunk[x] \in ChunkType(D)
      BY <1>0
    <3>2. \A x \in D : /\ chunk'[x] \in ChunkType(D)
                       /\ chunk'[x].source = chunk[x].source /\ chunk'[x].arena = chunk[x].arena
      BY <2>1, <3>1 DEF ChunkType
    <3>3. D = 1 .. Len(chunk) /\ Len(chunk) \in Nat
      BY <1>0
    <3>4. DOMAIN chunk' = D /\ chunk' = [x \in D |-> chunk'[x]]
      BY <2>1
    <3>5. \A n \in Nat : \A f : f = [x \in 1 .. n |-> f[x]] /\ (\A x \in 1 .. n : f[x] \in ChunkType(D))
              => f \in Seq(ChunkType(D))
      OBVIOUS
    <3>6. QED  BY <3>2, <3>3, <3>4, <3>5
  <2>4. /\ source' \in [Source -> SourceType(D)]
        /\ \A s \in Source : Unborn(s)' <=> Unborn(s)
    <3> DEFINE r == [source[c.s] EXCEPT !.state = st, !.arenas = <<>>]
    <3>1. source' = [source EXCEPT ![c.s] = r] /\ source[c.s] \in SourceType(D)
      BY <1>0, <2>1, <2>2
    <3>2. r \in SourceType(D) /\ r.state = st
      <4>1. <<>> \in Seq(ArenaType)
        OBVIOUS
      <4> HIDE DEF st
      <4>2. QED  BY <2>2, <3>1, <4>1 DEF SourceType
    <3> HIDE DEF r
    <3>3. /\ source' \in [Source -> SourceType(D)] /\ source'[c.s] = r
          /\ \A q \in Source \ {c.s} : source'[q] = source[q]
      BY <1>0, <2>2, <3>1, <3>2, SetOneSource
    <3>4. st # "unused"
      BY <2>2
    <3> HIDE DEF st
    <3>5. \A s \in Source : Unborn(s)' <=> Unborn(s)
      BY <2>2, <3>2, <3>3, <3>4 DEF Unborn
    <3>6. QED  BY <3>3, <3>5
  <2>5. QED  BY <1>0, <1>b, <2>1, <2>3, <2>4
<1>10. QED  BY <1>3, <1>4, <1>5, <1>6, <1>7, <1>8, <1>9 DEF LoudStep

(* What an operation of a program carries.                                 *)
LEMMA OperationFields ==
    ASSUME NEW o \in Operation
    PROVE  /\ o.op \in {"malloc", "realloc"} => o.bytes \in Nat
           /\ o.op = "memalign" => o.bytes \in Nat /\ o.align \in Nat
           /\ o.op = "push" => \/ o.place.h \in Handle
                               \/ o.place.h = None /\ o.place.node \in Physical
           /\ o.op = "save" => o.task \in Task /\ o.done \in BOOLEAN
           /\ o.op = "restore" => o.task \in Task
           /\ o.op \in {"create", "migrate"} => o.h \in Handle /\ o.node \in Physical
           /\ o.op \in {"copy", "assign", "move"} => o.h \in Handle /\ o.from \in Handle
           /\ o.op = "drop" => o.h \in Handle
           /\ o.op = "get" => o.node \in Physical
<1>1. CASE o \in [op : {"push"}, place : [h : Handle, node : {None}] \cup [h : {None}, node : Physical]]
  <2>1. o.place \in [h : Handle, node : {None}] \cup [h : {None}, node : Physical] /\ o.op = "push"
    BY <1>1
  <2>2. QED  BY <2>1
<1>2. CASE o \in [op : {"pop", "free", "exit"}]
  BY <1>2
<1>3. CASE o \in [op : {"malloc", "realloc"}, bytes : Nat]
  BY <1>3
<1>4. CASE o \in [op : {"memalign"}, bytes : Nat, align : Nat]
  BY <1>4
<1>5. CASE o \in [op : {"save"}, task : Task, done : BOOLEAN]
  BY <1>5
<1>6. CASE o \in [op : {"restore"}, task : Task]
  BY <1>6
<1>7. CASE o \in [op : {"create", "migrate"}, h : Handle, node : Physical]
  BY <1>7
<1>8. CASE o \in [op : {"copy", "assign", "move"}, from : Handle, h : Handle]
  BY <1>8
<1>9. CASE o \in [op : {"drop"}, h : Handle]
  BY <1>9
<1>10. CASE o \in [op : {"get"}, node : Physical]
  BY <1>10
<1>11. QED  BY <1>1, <1>2, <1>3, <1>4, <1>5, <1>6, <1>7, <1>8, <1>9, <1>10 DEF Operation

(* The operation a thread begins.                                          *)
LEMMA BeginTypes ==
    ASSUME TypeInv, NEW t \in Thread, NEW op, Begins(t, op), NEW calls, Begin(t, calls)
    PROVE  /\ Op(t) \in Operation /\ Op(t).op = op
           /\ program' \in [Thread -> Seq(Operation)]
           /\ doing' \in [Thread -> Operation \cup {Setup}]
           /\ todo[t] = <<>> /\ todo' = [todo EXCEPT ![t] = calls] /\ pc' = pc
           /\ doing' = [doing EXCEPT ![t] = Op(t)]
<1>1. /\ program \in [Thread -> Seq(Operation)] /\ doing \in [Thread -> Operation \cup {Setup}]
  BY DEF TypeInv, Typed
<1>2. program[t] \in Seq(Operation) /\ program[t] # <<>>
  BY <1>1 DEF Begins
<1>3. Op(t) \in Operation /\ Tail(program[t]) \in Seq(Operation)
  BY <1>2 DEF Op
<1>4. program' \in [Thread -> Seq(Operation)] /\ doing' \in [Thread -> Operation \cup {Setup}]
  BY <1>1, <1>3 DEF Begin
<1>5. QED  BY <1>3, <1>4 DEF Begin, Begins

(* The references of a list of places.                                     *)
LEMMA SourcesOfType ==
    ASSUME NEW S \in SUBSET Source, NEW places \in Seq(PlaceType(S))
    PROVE  /\ SourcesOf(places) \in Seq(S)
           /\ RefAll(places) \in Seq(RefCalls(S))
           /\ UnrefAll(places) \in Seq(UnrefCalls(S))
<1> DEFINE seqs == [i \in DOMAIN places |->
                      IF places[i].msource = None THEN <<>> ELSE <<places[i].msource>>]
<1>0. \A n \in Nat : \A T, f : f = [i \in 1 .. n |-> f[i]] /\ (\A i \in 1 .. n : f[i] \in T) => f \in Seq(T)
  OBVIOUS
<1>1. \A i \in DOMAIN places : seqs[i] \in Seq(S)
  <2>1. ASSUME NEW i \in DOMAIN places PROVE places[i] \in PlaceType(S)
    OBVIOUS
  <2>2. \A i \in DOMAIN places : places[i].msource \in S \cup {None}
    BY <2>1 DEF PlaceType
  <2>3. QED  BY <2>2
<1>2. seqs \in Seq(Seq(S))
  <2>1. DOMAIN places = 1 .. Len(places) /\ Len(places) \in Nat
    OBVIOUS
  <2>2. seqs = [i \in 1 .. Len(places) |-> seqs[i]]
    BY <2>1
  <2> HIDE DEF seqs
  <2>3. QED  BY <1>0, <1>1, <2>1, <2>2
<1>3. SourcesOf(places) \in Seq(S)
  BY <1>2, FlattenFacts DEF SourcesOf
<1> DEFINE q == SourcesOf(places)
<1> HIDE DEF q, seqs
<1>4. q \in Seq(S) /\ DOMAIN q = 1 .. Len(q) /\ Len(q) \in Nat /\ \A i \in DOMAIN q : q[i] \in S
  BY <1>3 DEF q
<1>5. \A s \in S : Ref(s) \in RefCalls(S) /\ Unref(s) \in UnrefCalls(S)
  BY DEF Ref, Unref, RefCalls, UnrefCalls
<1>6. RefAll(places) = [i \in 1 .. Len(q) |-> Ref(q[i])] /\ UnrefAll(places) = [i \in 1 .. Len(q) |-> Unref(q[i])]
  BY <1>4 DEF RefAll, UnrefAll, q
<1>7. RefAll(places) \in Seq(RefCalls(S)) /\ UnrefAll(places) \in Seq(UnrefCalls(S))
  BY <1>0, <1>4, <1>5, <1>6
<1>8. QED  BY <1>3, <1>7

(* A step that leaves the sources alone, or makes one, and makes no chunk. *)
LEMMA PlaceTypesClose ==
    ASSUME TypeInv, NEW t \in Thread, NEW S2, S2 = Born', NEW D, D = DOMAIN chunk, Born \subseteq S2,
           NEW q \in Seq(CallType(S2, D)), NEW label \in Labels, Listed(t, q, label),
           source' \in [Source -> SourceType(D)],
           chunk' \in Seq(ChunkType(D)), DOMAIN chunk' = D,
           \A b \in D : chunk'[b].source = chunk[b].source,
           allsources' \subseteq Source,
           my' = my, current' \in [Thread -> S2],
           program' \in [Thread -> Seq(Operation)], doing' \in [Thread -> Operation \cup {Setup}],
           hold' \in [Handle -> S2 \cup {None}], tls' \in [Thread -> TlsType(S2, D)],
           saved' \in [Task -> SavedType(S2, D)],
           msources' \in [Physical -> [Physical -> S2 \cup {None}]],
           nodeLock' \in [Physical -> Threads], replica' \in [Physical -> D \cup {None}],
           replicaLock' \in Threads
    PROVE  TypeInv'
<1>1. Typed(Born, D) /\ Chunked(Born, D)
  BY DEF TypeInv
<1>2. todo' \in [Thread -> Seq(CallType(S2, D))] /\ pc' \in [Thread -> Labels]
  BY <1>1, ListedTypes
<1>3. my' \in [Thread -> MyType(D)]
  BY <1>1 DEF Typed
<1>4. Typed(Born, DOMAIN chunk)'
  BY <1>2, <1>3 DEF Typed
<1>5. Chunked(Born, DOMAIN chunk)'
  BY <1>1 DEF Chunked
<1>6. QED  BY <1>4, <1>5 DEF TypeInv

(* A thread's storage, and a task's places.                                *)
LEMMA TlsFields ==
    ASSUME NEW S, NEW D, tls \in [Thread -> TlsType(S, D)], NEW t \in Thread
    PROVE  /\ tls[t].state \in {"none", "constructed", "done"}
           /\ tls[t].own \in S \cup {None} /\ tls[t].stack \in Seq(PlaceType(S))
           /\ tls[t].block \in D \cup {None}
           /\ \A q \in Seq(PlaceType(S)) : [tls EXCEPT ![t].stack = q] \in [Thread -> TlsType(S, D)]
           /\ [tls EXCEPT ![t] = NoStorage] \in [Thread -> TlsType(S, D)]
           /\ \A b \in D \cup {None} :
                 [tls EXCEPT ![t].state = "constructed", ![t].block = b] \in [Thread -> TlsType(S, D)]
           /\ \A s \in S :
                 [tls EXCEPT ![t].state = "done", ![t].own = s] \in [Thread -> TlsType(S, D)]
<1>1. tls[t] \in TlsType(S, D)
  OBVIOUS
<1>2. \A r \in TlsType(S, D) : [tls EXCEPT ![t] = r] \in [Thread -> TlsType(S, D)]
  OBVIOUS
<1>3. ASSUME NEW q \in Seq(PlaceType(S)) PROVE [tls[t] EXCEPT !.stack = q] \in TlsType(S, D)
  BY <1>1 DEF TlsType
<1>4. NoStorage \in TlsType(S, D)
  <2>1. <<>> \in Seq(PlaceType(S))
    OBVIOUS
  <2>2. QED  BY <2>1 DEF NoStorage, TlsType
<1>5. ASSUME NEW b \in D \cup {None}
      PROVE  [tls[t] EXCEPT !.state = "constructed", !.block = b] \in TlsType(S, D)
  BY <1>1 DEF TlsType
<1>6. ASSUME NEW s \in S PROVE [tls[t] EXCEPT !.state = "done", !.own = s] \in TlsType(S, D)
  BY <1>1 DEF TlsType
<1>7. /\ tls[t].state \in {"none", "constructed", "done"}
      /\ tls[t].own \in S \cup {None} /\ tls[t].stack \in Seq(PlaceType(S))
      /\ tls[t].block \in D \cup {None}
  BY <1>1 DEF TlsType
<1>8. QED  BY ONLY <1>2, <1>3, <1>4, <1>5, <1>6, <1>7, ZenonT(60)

(* What a task has saved, after each of the writes of TaskScheduler's place
   save and restore.                                                       *)
LEMMA SavedFields ==
    ASSUME NEW S, NEW D, saved \in [Task -> SavedType(S, D)], NEW k \in Task
    PROVE  /\ saved[k].worker \in Threads /\ saved[k].stack \in Seq(PlaceType(S))
           /\ saved[k].block \in Seq(D)
           /\ \A q \in Seq(PlaceType(S)), b \in Seq(D) :
                 [saved EXCEPT ![k].stack = q, ![k].block = b] \in [Task -> SavedType(S, D)]
           /\ \A w \in Threads : [saved EXCEPT ![k].worker = w] \in [Task -> SavedType(S, D)]
           /\ \A w \in Threads, q \in Seq(PlaceType(S)) :
                 [saved EXCEPT ![k].worker = w, ![k].stack = q] \in [Task -> SavedType(S, D)]
<1>1. saved[k] \in SavedType(S, D)
  OBVIOUS
<1>2. \A r \in SavedType(S, D) : [saved EXCEPT ![k] = r] \in [Task -> SavedType(S, D)]
  OBVIOUS
<1>3. ASSUME NEW q \in Seq(PlaceType(S)), NEW b \in Seq(D)
      PROVE  [saved[k] EXCEPT !.stack = q, !.block = b] \in SavedType(S, D)
  BY <1>1 DEF SavedType
<1>4. ASSUME NEW w \in Threads, NEW q \in Seq(PlaceType(S))
      PROVE  [saved[k] EXCEPT !.worker = w, !.stack = q] \in SavedType(S, D)
  BY <1>1 DEF SavedType
<1>5. ASSUME NEW w \in Threads PROVE [saved[k] EXCEPT !.worker = w] \in SavedType(S, D)
  BY <1>1 DEF SavedType
<1>6. /\ saved[k].worker \in Threads /\ saved[k].stack \in Seq(PlaceType(S))
      /\ saved[k].block \in Seq(D)
  BY <1>1 DEF SavedType
<1>7. QED  BY ONLY <1>2, <1>3, <1>4, <1>5, <1>6

(* Blocks that are given back, or change their use.                        *)
LEMMA GivenTypes ==
    ASSUME TypeInv, NEW g
    PROVE  /\ Given(g) \in Seq(ChunkType(DOMAIN chunk)) /\ DOMAIN Given(g) = DOMAIN chunk
           /\ \A b \in DOMAIN chunk : /\ Given(g)[b].source = chunk[b].source
                                      /\ Given(g)[b].arena = chunk[b].arena
                                      /\ Given(g)[b].mapped = chunk[b].mapped
                                      /\ Given(g)[b].use = IF b \in g THEN "freed" ELSE chunk[b].use
<1> DEFINE D == DOMAIN chunk
<1>1. chunk \in Seq(ChunkType(D)) /\ D = 1 .. Len(chunk) /\ Len(chunk) \in Nat
  BY DEF TypeInv, Chunked
<1>2. /\ Given(g) = [x \in D |-> IF x \in g THEN [chunk[x] EXCEPT !.use = "freed"] ELSE chunk[x]]
      /\ \A b \in D : chunk[b] \in ChunkType(D)
  BY <1>1 DEF Given
<1> HIDE DEF D
<1>3. ASSUME NEW b \in D
      PROVE  /\ Given(g)[b] \in ChunkType(D)
             /\ Given(g)[b].source = chunk[b].source /\ Given(g)[b].arena = chunk[b].arena
             /\ Given(g)[b].mapped = chunk[b].mapped
             /\ Given(g)[b].use = IF b \in g THEN "freed" ELSE chunk[b].use
  <2>1. chunk[b] \in ChunkType(D)
    BY <1>2
  <2>2. Given(g)[b] = IF b \in g THEN [chunk[b] EXCEPT !.use = "freed"] ELSE chunk[b]
    BY <1>2
  <2>3. QED  BY <2>1, <2>2 DEF ChunkType, Uses
<1>4. DOMAIN Given(g) = D /\ Given(g) = [x \in 1 .. Len(chunk) |-> Given(g)[x]]
  BY <1>1, <1>2
<1>5. \A n \in Nat : \A f, T : f = [i \in 1 .. n |-> f[i]] /\ (\A i \in 1 .. n : f[i] \in T) => f \in Seq(T)
  OBVIOUS
<1>6. Given(g) \in Seq(ChunkType(D))
  BY <1>1, <1>3, <1>4, <1>5
<1>7. QED  BY <1>3, <1>4, <1>6 DEF D

(* The source of a place.                                                  *)
LEMMA PlaceSourceTypes ==
    ASSUME TypeInv, NEW t \in Thread
    PROVE  /\ \A p \in PlaceType(Born) : get_place_msource(t, p) \in Born \cup {None}
           /\ get_curr_msource(t) \in Born \cup {None}
           /\ tls[t].stack # <<>> => Last(tls[t].stack) \in PlaceType(Born)
           /\ \A p \in PlaceType(Born) : p.msource \in Born \cup {None} /\ (p.msource = None => p.node \in Physical)
           /\ HomeOf[t] \in Physical /\ None \notin Born
<1>1. /\ tls \in [Thread -> TlsType(Born, DOMAIN chunk)] /\ HomeOf[t] \in Physical
      /\ msources \in [Physical -> [Physical -> Born \cup {None}]]
      /\ None \notin Born
  BY PlaceAssumption, CountAssumption DEF TypeInv, Typed, Born
<1>2. ASSUME NEW p \in PlaceType(Born)
      PROVE  p.msource \in Born \cup {None} /\ (p.msource = None => p.node \in Physical)
  BY <1>1 DEF PlaceType
<1>3. ASSUME NEW p \in PlaceType(Born) PROVE get_place_msource(t, p) \in Born \cup {None}
  <2>1. tls[t].own \in Born \cup {None}
    BY <1>1, TlsFields
  <2>2. QED  BY <1>1, <1>2, <2>1 DEF get_place_msource
<1>4. tls[t].stack # <<>> => Last(tls[t].stack) \in PlaceType(Born)
  <2>1. tls[t].stack \in Seq(PlaceType(Born))
    BY <1>1, TlsFields
  <2>2. QED  BY <2>1 DEF Last
<1>5. get_curr_msource(t) \in Born \cup {None}
  <2>1. tls[t].own \in Born \cup {None}
    BY <1>1, TlsFields
  <2>2. QED  BY <1>3, <1>4, <2>1 DEF get_curr_msource
<1>6. QED  BY <1>1, <1>2, <1>3, <1>4, <1>5

(* A step that makes no source: what it leaves alone keeps its type.       *)
LEMMA KeepingTypes ==
    ASSUME TypeInv, NEW t \in Thread, NEW D, D = DOMAIN chunk,
           UNCHANGED <<source, allsources, my>>,
           NEW q \in Seq(CallType(Born, D)), NEW label \in Labels, Listed(t, q, label),
           \/ chunk' = chunk
           \/ chunk' \in Seq(ChunkType(D)) /\ DOMAIN chunk' = D /\ \A b \in D : chunk'[b].source = chunk[b].source,
           current' = current \/ current' \in [Thread -> Born],
           UNCHANGED <<program, doing>> \/ (program' \in [Thread -> Seq(Operation)]
                                            /\ doing' \in [Thread -> Operation \cup {Setup}]),
           hold' = hold \/ hold' \in [Handle -> Born \cup {None}],
           tls' = tls \/ tls' \in [Thread -> TlsType(Born, D)],
           saved' = saved \/ saved' \in [Task -> SavedType(Born, D)],
           msources' = msources \/ msources' \in [Physical -> [Physical -> Born \cup {None}]],
           nodeLock' = nodeLock \/ nodeLock' \in [Physical -> Threads],
           replica' = replica \/ replica' \in [Physical -> D \cup {None}],
           replicaLock' = replicaLock \/ replicaLock' \in Threads
    PROVE  TypeInv'
<1>1. Typed(Born, D) /\ Chunked(Born, D)
  BY DEF TypeInv
<1>2. Born' = Born
  BY DEF Born, Unborn
<1>3. /\ source' \in [Source -> SourceType(D)] /\ allsources' \subseteq Source
      /\ current' \in [Thread -> Born]
      /\ program' \in [Thread -> Seq(Operation)] /\ doing' \in [Thread -> Operation \cup {Setup}]
      /\ hold' \in [Handle -> Born \cup {None}] /\ tls' \in [Thread -> TlsType(Born, D)]
      /\ saved' \in [Task -> SavedType(Born, D)]
  BY <1>1 DEF Typed
<1>4. /\ msources' \in [Physical -> [Physical -> Born \cup {None}]]
      /\ nodeLock' \in [Physical -> Threads] /\ replica' \in [Physical -> D \cup {None}]
      /\ replicaLock' \in Threads
  BY <1>1 DEF Typed
<1>5. /\ chunk' \in Seq(ChunkType(D)) /\ DOMAIN chunk' = D
      /\ \A b \in D : chunk'[b].source = chunk[b].source
  BY <1>1 DEF Chunked
<1>6. my' = my
  OBVIOUS
<1>7. QED  BY <1>2, <1>3, <1>4, <1>5, <1>6, PlaceTypesClose

(* A thread begins an operation: its calls are the whole list.             *)
LEMMA BeginListed ==
    ASSUME TypeInv, NEW t \in Thread, NEW op, Begins(t, op), NEW calls, Begin(t, calls)
    PROVE  Listed(t, calls, pc[t]) /\ pc[t] \in Labels
<1>1. pc \in [Thread -> Labels]
  BY DEF TypeInv, Typed
<1>2. pc' = pc /\ todo' = [todo EXCEPT ![t] = calls]
  BY DEF Begin
<1>3. pc' = [pc EXCEPT ![t] = pc[t]]
  BY <1>1, <1>2
<1>4. QED  BY <1>1, <1>2, <1>3 DEF Listed

(* A call that is followed by others, or by nothing.                       *)
LEMMA ThenListed ==
    ASSUME TypeInv, NEW t \in Thread, todo[t] # <<>>,
           NEW calls \in Seq(CallType(Born, DOMAIN chunk)), Then(t, calls)
    PROVE  /\ Listed(t, calls \o Tail(todo[t]), "start") /\ "start" \in Labels
           /\ calls \o Tail(todo[t]) \in Seq(CallType(Born, DOMAIN chunk))
<1>1. Listed(t, calls \o Tail(todo[t]), "start")
  BY DEF Then, Listed
<1>2. Tail(todo[t]) \in Seq(CallType(Born, DOMAIN chunk))
  BY CallInHand
<1>3. QED  BY <1>1, <1>2 DEF Labels

(* Short lists.                                                            *)
LEMMA ShortLists ==
    ASSUME NEW T
    PROVE  /\ <<>> \in Seq(T)
           /\ \A a \in T : <<a>> \in Seq(T)
           /\ \A a, b \in T : <<a, b>> \in Seq(T)
           /\ \A a, b, c \in T : <<a, b, c>> \in Seq(T)
           /\ \A a, b, c, d \in T : <<a, b, c, d>> \in Seq(T)
           /\ \A p, q \in Seq(T) : p \o q \in Seq(T)
OBVIOUS

(* The references taken or dropped for a list of places are calls on
   existing sources.                                                       *)
LEMMA RefListsTyped ==
    ASSUME NEW S \in SUBSET Source, NEW D, NEW places \in Seq(PlaceType(S))
    PROVE  RefAll(places) \in Seq(CallType(S, D)) /\ UnrefAll(places) \in Seq(CallType(S, D))
<1>1. RefCalls(S) \subseteq CallType(S, D) /\ UnrefCalls(S) \subseteq CallType(S, D)
  BY DEF CallType
<1>2. QED  BY <1>1, SourcesOfType, SeqWider

(* Operations and calls that change nothing but a thread's list of calls   *)
(* and one thing more.                                                     *)
LEMMA StorageStepTypes ==
    ASSUME TypeInv, NEW t \in Thread,
           \/ getTls(t) \/ construct(t) \/ setCurrent(t) \/ lockLocal(t) \/ publishLocal(t)
           \/ unlockLocal(t)
    PROVE  TypeInv'
<1> DEFINE D == DOMAIN chunk
           C == CallType(Born, D)
<1>0. /\ Typed(Born, D) /\ t \in Threads /\ None \in Threads
      /\ GlobalSource \in Born /\ TlsSize \in Nat /\ HomeOf[t] \in Physical
      /\ current[t] \in Born
  BY PlaceAssumption DEF TypeInv, Chunked, Typed, Threads
<1>1. /\ \A s \in Born : Ref(s) \in C /\ Unref(s) \in C
      /\ {Construct, InitTls, SetCurrent, UnlockLocal, UnlockReplica} \subseteq C
      /\ Alloc(GlobalSource, TlsSize, "storage") \in C
  BY <1>0, CallsAreTyped
<1>2. my' = my /\ tls \in [Thread -> TlsType(Born, D)]
  BY <1>0 DEF getTls, construct, setCurrent, lockLocal, publishLocal, unlockLocal, sourceVarsButCalls, Typed
<1>3. todo[t] # <<>> => /\ Call(t) \in C
                        /\ Call(t).op = "publish_local" => Call(t).s \in Born /\ Call(t).node \in Physical
  BY CallInHand, CallFields
<1> HIDE DEF C
<1>4. CASE getTls(t)
  <2> DEFINE q == <<Alloc(GlobalSource, TlsSize, "storage"), Construct, InitTls, SetCurrent>>
  <2>1. q \in Seq(C)
    BY <1>1, ShortLists
  <2>2. Listed(t, q, pc[t]) /\ pc[t] \in Labels
    BY <1>0, <1>4 DEF getTls, Listed, Typed
  <2>3. doing' \in [Thread -> Operation \cup {Setup}] /\ program' \in [Thread -> Seq(Operation)]
    BY <1>0, <1>4 DEF getTls, Typed
  <2>4. /\ UNCHANGED <<source, chunk, allsources, my, current, hold, tls, saved, msources>>
        /\ UNCHANGED <<nodeLock, replica, replicaLock>>
    BY <1>4 DEF getTls
  <2> HIDE DEF q
  <2>5. QED  BY <2>1, <2>2, <2>3, <2>4, KeepingTypes DEF C
<1>5. CASE construct(t)
  <2> DEFINE calls == <<Ref(GlobalSource), Ref(GlobalSource)>>
  <2>1. calls \in Seq(C) /\ todo[t] # <<>> /\ Then(t, calls)
    BY <1>0, <1>1, <1>5, ShortLists DEF construct, At
  <2>2. tls' \in [Thread -> TlsType(Born, D)]
    <3>1. my[t] \in MyType(D)
      BY <1>0 DEF Typed
    <3>2. my[t].b \in D \cup {None}
      BY <3>1 DEF MyType
    <3>3. QED  BY <1>2, <1>5, <3>2, TlsFields DEF construct
  <2>3. /\ UNCHANGED <<source, chunk, allsources, my, current, program, doing, hold, saved, msources>>
        /\ UNCHANGED <<nodeLock, replica, replicaLock>>
    BY <1>5 DEF construct
  <2> HIDE DEF calls
  <2>4. QED  BY <2>1, <2>2, <2>3, ThenListed, KeepingTypes DEF C
<1>6. CASE setCurrent(t)
  <2> DEFINE new == get_curr_msource(t)
  <2>1. UNCHANGED <<source, chunk, allsources, my, placeVars>> /\ todo[t] # <<>>
    BY <1>6 DEF setCurrent, At
  <2>2. new \in Born \cup {None}
    BY PlaceSourceTypes
  <2>3. CASE new = None
    <3>1. Goto(t, "lock") /\ UNCHANGED current
      BY <1>6, <2>3 DEF setCurrent
    <3>2. Listed(t, todo[t], "lock") /\ "lock" \in Labels /\ todo[t] \in Seq(C)
      BY <1>0, <2>1, <3>1, Steps DEF Labels, C
    <3>3. QED  BY <2>1, <3>1, <3>2, KeepingTypes DEF C, placeVars
  <2>4. CASE new # None
    <3> DEFINE calls == IF new = current[t] THEN <<>> ELSE <<Ref(new), Unref(current[t])>>
    <3>1. current' = [current EXCEPT ![t] = new] /\ Then(t, calls)
      BY <1>6, <2>4 DEF setCurrent
    <3>2. calls \in Seq(C)
      BY <1>0, <1>1, <2>2, <2>4, ShortLists
    <3>3. current' \in [Thread -> Born]
      BY <1>0, <2>2, <2>4, <3>1 DEF Typed
    <3> HIDE DEF calls
    <3>4. QED  BY <2>1, <3>1, <3>2, <3>3, ThenListed, KeepingTypes DEF C, placeVars
  <2>5. QED  BY <2>3, <2>4
<1>7. CASE lockLocal(t)
  <2>1. Listed(t, todo[t], "recheck") /\ "recheck" \in Labels /\ todo[t] \in Seq(C)
    <3>1. Goto(t, "recheck") /\ todo[t] # <<>>
      BY <1>7 DEF lockLocal, At
    <3>2. QED  BY <1>0, <3>1, Steps DEF Labels, C
  <2>2. nodeLock' \in [Physical -> Threads]
    BY <1>0, <1>7 DEF lockLocal, Typed
  <2>3. /\ UNCHANGED <<source, chunk, allsources, my, current, program, doing, hold, tls, saved, msources>>
        /\ UNCHANGED <<replica, replicaLock>>
    BY <1>7 DEF lockLocal, sourceVarsButCalls
  <2>4. QED  BY <2>1, <2>2, <2>3, KeepingTypes DEF C
<1>8. CASE publishLocal(t)
  <2>1. <<>> \in Seq(C) /\ todo[t] # <<>> /\ Then(t, <<>>) /\ Call(t).op = "publish_local"
    BY <1>8, ShortLists DEF publishLocal, At
  <2>2. msources' \in [Physical -> [Physical -> Born \cup {None}]]
    BY <1>0, <1>3, <1>8, <2>1 DEF publishLocal, Typed
  <2>3. /\ UNCHANGED <<source, chunk, allsources, my, current, program, doing, hold, tls, saved, nodeLock>>
        /\ UNCHANGED <<replica, replicaLock>>
    BY <1>8 DEF publishLocal, sourceVarsButCalls
  <2>4. QED  BY <2>1, <2>2, <2>3, ThenListed, KeepingTypes DEF C
<1>9. CASE unlockLocal(t)
  <2>1. <<>> \in Seq(C) /\ todo[t] # <<>> /\ Then(t, <<>>)
    BY <1>9, ShortLists DEF unlockLocal, At
  <2>2. nodeLock' \in [Physical -> Threads]
    BY <1>0, <1>9 DEF unlockLocal, Typed
  <2>3. /\ UNCHANGED <<source, chunk, allsources, my, current, program, doing, hold, tls, saved, msources>>
        /\ UNCHANGED <<replica, replicaLock>>
    BY <1>9 DEF unlockLocal, sourceVarsButCalls
  <2>4. QED  BY <2>1, <2>2, <2>3, ThenListed, KeepingTypes DEF C
<1>10. QED  BY <1>4, <1>5, <1>6, <1>7, <1>8, <1>9

(* A list of places one longer, one shorter, or two joined.                *)
LEMMA PlaceListTypes ==
    ASSUME TypeInv, NEW t \in Thread
    PROVE  /\ tls[t].stack \in Seq(PlaceType(Born))
           /\ \A k \in Task : /\ saved[k].stack \in Seq(PlaceType(Born))
                              /\ saved[k].block \in Seq(DOMAIN chunk)
                              /\ tls[t].stack \o saved[k].stack \in Seq(PlaceType(Born))
           /\ tls[t].stack # <<>> => /\ Last(tls[t].stack) \in PlaceType(Born)
                                     /\ Front(tls[t].stack) \in Seq(PlaceType(Born))
                                     /\ <<Last(tls[t].stack)>> \in Seq(PlaceType(Born))
           /\ \A p \in PlaceType(Born) : /\ Append(tls[t].stack, p) \in Seq(PlaceType(Born))
                                         /\ <<p>> \in Seq(PlaceType(Born))
<1>1. /\ tls \in [Thread -> TlsType(Born, DOMAIN chunk)]
      /\ saved \in [Task -> SavedType(Born, DOMAIN chunk)]
  BY DEF TypeInv, Typed
<1>2. tls[t].stack \in Seq(PlaceType(Born))
  BY <1>1, TlsFields
<1>3. \A k \in Task : saved[k].stack \in Seq(PlaceType(Born)) /\ saved[k].block \in Seq(DOMAIN chunk)
  BY <1>1, SavedFields
<1>4. \A T : \A q \in Seq(T) : q # <<>> => Last(q) \in T /\ Front(q) \in Seq(T)
  BY DEF Last, Front
<1>5. QED  BY ONLY <1>2, <1>3, <1>4

(* The operations on the stack of places (push, pop, pop_all, push_all, the
   end of a thread) keep the types.                                        *)
LEMMA StackStepTypes ==
    ASSUME TypeInv, TlsInv, NEW t \in Thread,
           \/ push(t) \/ pop(t) \/ pop_all(t) \/ keep(t) \/ unlockTask(t) \/ push_all(t)
           \/ tlsDestructionFunc(t)
    PROVE  TypeInv'
<1> DEFINE D == DOMAIN chunk
           C == CallType(Born, D)
           stack == tls[t].stack
<1>0. /\ Typed(Born, D) /\ t \in Threads /\ None \in Threads /\ Born \in SUBSET Source
      /\ GlobalSource \in Born /\ StackSize \in Nat
      /\ current[t] \in Born
      /\ \A b \in D : chunk[b].source \in Born
  BY PlaceAssumption DEF TypeInv, Chunked, Typed, Threads, Born
<1>1. /\ \A s \in Born : Ref(s) \in C /\ Unref(s) \in C
      /\ SetCurrent \in C
      /\ Alloc(current[t], StackSize, "places") \in C
      /\ \A b \in D : Dealloc(b) \in C
      /\ \A k \in Task, done \in BOOLEAN : Keep(k, done) \in C /\ Unlock(k) \in C
  BY <1>0, CallsAreTyped
<1>2. /\ tls \in [Thread -> TlsType(Born, D)] /\ saved \in [Task -> SavedType(Born, D)]
      /\ hold \in [Handle -> Born \cup {None}]
  BY <1>0 DEF Typed
<1>3. todo[t] # <<>> => /\ Call(t) \in C
                        /\ Call(t).op = "keep" => Call(t).task \in Task /\ Call(t).done \in BOOLEAN
                        /\ Call(t).op = "unlock_task" => Call(t).task \in Task
  BY CallInHand, CallFields
<1>4. stack \in Seq(PlaceType(Born))
  BY PlaceListTypes
<1>5. /\ \A places \in Seq(PlaceType(Born)) : RefAll(places) \in Seq(C) /\ UnrefAll(places) \in Seq(C)
      /\ <<SetCurrent>> \in Seq(C) /\ <<>> \in Seq(C)
  BY <1>0, <1>1, RefListsTyped, ShortLists
<1> HIDE DEF C, stack
<1>6. CASE push(t)
  <2> DEFINE p == PlaceOf(Op(t).place)
             calls == RefAll(<<p>>) \o <<SetCurrent>>
  <2>1. /\ Begins(t, "push") /\ Begin(t, calls)
        /\ Op(t).place.h # None => hold[Op(t).place.h] # None
        /\ tls' = [tls EXCEPT ![t].stack = Append(@, p)]
        /\ UNCHANGED <<source, chunk, allsources, my, current, hold, saved, msources, nodeLock>>
        /\ UNCHANGED <<replica, replicaLock>>
    BY <1>6 DEF push, sourceVarsButCalls, Ready
  <2>2. Op(t) \in Operation /\ Op(t).op = "push"
    BY <2>1, BeginTypes
  <2>3. p \in PlaceType(Born)
    <3>1. CASE Op(t).place.h = None
      <4>1. Op(t).place.node \in Physical
        BY <2>2, <3>1, OperationFields, PlaceAssumption
      <4>2. QED  BY <3>1, <4>1 DEF PlaceOf, PlaceType
    <3>2. CASE Op(t).place.h # None
      <4>1. Op(t).place.h \in Handle
        BY <2>2, <3>2, OperationFields
      <4>2. hold[Op(t).place.h] \in Born
        BY <1>2, <2>1, <3>2, <4>1
      <4>3. QED  BY <3>2, <4>2 DEF PlaceOf, PlaceType
    <3>3. QED  BY <3>1, <3>2
  <2> HIDE DEF p
  <2>4. calls \in Seq(C)
    <3>1. <<p>> \in Seq(PlaceType(Born))
      BY <2>3, ShortLists
    <3>2. QED  BY <1>5, <3>1, ShortLists
  <2>5. tls' \in [Thread -> TlsType(Born, D)]
    <3>1. Append(stack, p) \in Seq(PlaceType(Born))
      BY <1>4, <2>3
    <3>2. tls' = [tls EXCEPT ![t].stack = Append(stack, p)]
      BY <2>1 DEF stack
    <3>3. QED  BY <1>2, <3>1, <3>2, TlsFields
  <2> HIDE DEF calls
  <2>6. QED  BY <2>1, <2>4, <2>5, BeginTypes, BeginListed, KeepingTypes DEF C
<1>7. CASE pop(t)
  <2> DEFINE p == <<Last(tls[t].stack)>>
             calls == RefAll(p) \o UnrefAll(p) \o <<SetCurrent>> \o UnrefAll(p)
  <2>1. /\ Begins(t, "pop") /\ Begin(t, calls) /\ stack # <<>>
        /\ tls' = [tls EXCEPT ![t].stack = Front(stack)]
        /\ UNCHANGED <<source, chunk, allsources, my, current, hold, saved, msources, nodeLock>>
        /\ UNCHANGED <<replica, replicaLock>>
    BY <1>7 DEF pop, sourceVarsButCalls, stack
  <2>2. p \in Seq(PlaceType(Born)) /\ Front(stack) \in Seq(PlaceType(Born))
    BY <2>1, PlaceListTypes DEF stack
  <2> HIDE DEF p
  <2>3. calls \in Seq(C)
    BY <1>5, <2>2, ShortLists
  <2>4. tls' \in [Thread -> TlsType(Born, D)]
    BY <1>2, <2>1, <2>2, TlsFields
  <2> HIDE DEF calls
  <2>5. QED  BY <2>1, <2>3, <2>4, BeginTypes, BeginListed, KeepingTypes DEF C
<1>8. CASE pop_all(t)
  <2> DEFINE calls == (IF tls[t].stack = <<>> THEN <<>>
                       ELSE <<Alloc(current[t], StackSize, "places")>>)
                      \o <<Keep(Op(t).task, Op(t).done)>>
  <2>1. /\ Begins(t, "save") /\ Begin(t, calls)
        /\ UNCHANGED <<source, chunk, allsources, my, current, hold, tls, saved, msources, nodeLock>>
        /\ UNCHANGED <<replica, replicaLock>>
    BY <1>8 DEF pop_all, sourceVarsButCalls
  <2>2. Op(t) \in Operation /\ Op(t).op = "save"
    BY <2>1, BeginTypes
  <2>3. Op(t).task \in Task /\ Op(t).done \in BOOLEAN
    BY <2>2, OperationFields
  <2>4. calls \in Seq(C)
    <3>1. /\ <<Keep(Op(t).task, Op(t).done)>> \in Seq(C)
          /\ <<Alloc(current[t], StackSize, "places")>> \in Seq(C)
      BY <1>1, <2>3, ShortLists
    <3>2. QED  BY <1>5, <3>1, ShortLists
  <2> HIDE DEF calls
  <2>5. QED  BY <2>1, <2>4, BeginTypes, BeginListed, KeepingTypes DEF C
<1>9. CASE keep(t)
  <2> DEFINE k == Call(t).task
             done == Call(t).done
             new == IF stack = <<>> THEN <<>> ELSE <<my[t].b>>
             gone == saved[k].block \o (IF done THEN new ELSE <<>>)
             frees == [i \in DOMAIN gone |-> Dealloc(gone[i])]
             drops == IF done THEN UnrefAll(stack) ELSE <<>>
             calls == RefAll(stack) \o UnrefAll(stack) \o <<SetCurrent>> \o drops \o
                      frees \o <<Unlock(k)>>
  <2>1. /\ todo[t] # <<>> /\ Call(t).op = "keep" /\ (stack # <<>> => my[t].b # None)
        /\ saved' = [saved EXCEPT ![k].stack = IF done THEN <<>> ELSE stack,
                                  ![k].block = IF done THEN <<>> ELSE new]
        /\ tls' = [tls EXCEPT ![t].stack = <<>>]
        /\ chunk' = Given(ToSet(gone))
        /\ Then(t, calls)
    BY <1>9 DEF keep, At, stack
  <2>2. /\ UNCHANGED <<source, allsources, my, current>>
        /\ UNCHANGED <<program, doing, hold, msources, nodeLock, replica, replicaLock>>
    BY <1>9 DEF keep
  <2>3. k \in Task /\ done \in BOOLEAN
    BY <1>3, <2>1
  <2>4. my[t].b \in D \cup {None}
    <3>1. my[t] \in MyType(D)
      BY <1>0 DEF Typed
    <3>2. QED  BY <3>1 DEF MyType
  <2>5. new \in Seq(D) /\ gone \in Seq(D)
    <3>1. saved[k].block \in Seq(D)
      BY <2>3, PlaceListTypes
    <3>2. new \in Seq(D) /\ <<>> \in Seq(D)
      BY <2>1, <2>4, ShortLists
    <3> HIDE DEF new, D
    <3>3. (IF done THEN new ELSE <<>>) \in Seq(D)
      BY <3>2
    <3>4. QED  BY <3>1, <3>2, <3>3, ShortLists
  <2> HIDE DEF k, done, gone
  <2>6. frees \in Seq(C)
    <3> HIDE DEF D
    <3>1. Len(gone) \in Nat /\ DOMAIN gone = 1 .. Len(gone) /\ \A i \in DOMAIN gone : gone[i] \in D
      BY <2>5
    <3>2. \A i \in 1 .. Len(gone) : Dealloc(gone[i]) \in C
      BY <1>1, <3>1
    <3>3. frees = [i \in 1 .. Len(gone) |-> Dealloc(gone[i])]
      BY <3>1
    <3>4. \A n \in Nat : \A f \in [1 .. n -> C] : f \in Seq(C)
      OBVIOUS
    <3>5. QED  BY <3>1, <3>2, <3>3, <3>4
  <2>7. drops \in Seq(C) /\ <<Unlock(k)>> \in Seq(C)
    BY <1>1, <1>4, <1>5, <2>3, ShortLists
  <2> HIDE DEF frees, drops
  <2>8. calls \in Seq(C)
    BY <1>4, <1>5, <2>6, <2>7, ShortLists
  <2>9. tls' \in [Thread -> TlsType(Born, D)]
    <3>1. <<>> \in Seq(PlaceType(Born))
      BY ShortLists
    <3>2. QED  BY <1>2, <2>1, <3>1, TlsFields
  <2>10. saved' \in [Task -> SavedType(Born, D)]
    <3> DEFINE q == IF done THEN <<>> ELSE stack
               b == IF done THEN <<>> ELSE new
    <3>1. q \in Seq(PlaceType(Born)) /\ b \in Seq(D)
      BY <1>4, <2>5, ShortLists
    <3>2. saved' = [saved EXCEPT ![k].stack = q, ![k].block = b]
      BY <2>1
    <3> HIDE DEF q, b
    <3>3. QED  BY <1>2, <2>3, <3>1, <3>2, SavedFields
  <2>11. /\ chunk' \in Seq(ChunkType(D)) /\ DOMAIN chunk' = D
         /\ \A b \in D : chunk'[b].source = chunk[b].source
    BY <2>1, GivenTypes
  <2> HIDE DEF calls, D
  <2>12. QED  BY <2>1, <2>2, <2>8, <2>9, <2>10, <2>11, ThenListed, KeepingTypes DEF C, D
<1>10. CASE unlockTask(t)
  <2>1. <<>> \in Seq(C) /\ todo[t] # <<>> /\ Then(t, <<>>) /\ Call(t).op = "unlock_task"
    BY <1>10, ShortLists DEF unlockTask, At
  <2>2. saved' \in [Task -> SavedType(Born, D)]
    BY <1>0, <1>2, <1>3, <1>10, <2>1, SavedFields DEF unlockTask
  <2>3. /\ UNCHANGED <<source, chunk, allsources, my, current, program, doing, hold, tls, msources>>
        /\ UNCHANGED <<nodeLock, replica, replicaLock>>
    BY <1>10 DEF unlockTask, sourceVarsButCalls
  <2>4. QED  BY <2>1, <2>2, <2>3, ThenListed, KeepingTypes DEF C
<1>11. CASE push_all(t)
  <2> DEFINE k == Op(t).task
             places == saved[k].stack
             calls == RefAll(places) \o <<SetCurrent>> \o UnrefAll(places)
  <2>1. /\ Begins(t, "restore") /\ Begin(t, calls)
        /\ saved' = [saved EXCEPT ![k].worker = t, ![k].stack = <<>>]
        /\ tls' = [tls EXCEPT ![t].stack = stack \o places]
        /\ UNCHANGED <<source, chunk, allsources, my, current, hold, msources, nodeLock>>
        /\ UNCHANGED <<replica, replicaLock>>
    BY <1>11 DEF push_all, sourceVarsButCalls, stack
  <2>2. k \in Task
    <3>1. Op(t) \in Operation /\ Op(t).op = "restore"
      BY <2>1, BeginTypes
    <3>2. QED  BY <3>1, OperationFields
  <2>3. places \in Seq(PlaceType(Born)) /\ stack \o places \in Seq(PlaceType(Born))
    BY <2>2, PlaceListTypes DEF stack
  <2> HIDE DEF k, places
  <2>4. calls \in Seq(C)
    BY <1>5, <2>3, ShortLists
  <2>5. tls' \in [Thread -> TlsType(Born, D)]
    BY <1>2, <2>1, <2>3, TlsFields
  <2>6. saved' \in [Task -> SavedType(Born, D)]
    <3>1. <<>> \in Seq(PlaceType(Born))
      BY ShortLists
    <3>2. QED  BY <1>0, <1>2, <2>1, <2>2, <3>1, SavedFields
  <2> HIDE DEF calls
  <2>7. QED  BY <2>1, <2>4, <2>5, <2>6, BeginTypes, BeginListed, KeepingTypes DEF C
<1>12. CASE tlsDestructionFunc(t)
  <2> DEFINE rest == <<Unref(GlobalSource), Unref(tls[t].own), Dealloc(tls[t].block)>>
             calls == IF tls[t].state = "none" THEN <<>>
                      ELSE <<Unref(current[t])>> \o UnrefAll(stack) \o rest
  <2>1. /\ Begins(t, "exit") /\ Begin(t, calls)
        /\ tls' = [tls EXCEPT ![t] = NoStorage]
        /\ current' = [current EXCEPT ![t] = GlobalSource]
        /\ chunk' = Given({tls[t].block})
        /\ UNCHANGED <<source, allsources, my>>
        /\ UNCHANGED <<hold, saved, msources, nodeLock, replica, replicaLock>>
    BY <1>12 DEF tlsDestructionFunc, stack
  <2>2. calls \in Seq(C)
    <3>1. CASE tls[t].state = "none"
      BY <1>5, <3>1
    <3>2. CASE tls[t].state # "none"
      <4>1. tls[t].own \in Born /\ tls[t].block \in D
        <5>1. todo[t] = <<>>
          BY <2>1 DEF Begins
        <5>2. ~Has(t, "init")
          BY <5>1 DEF Has, Ops
        <5>3. tls[t].own \in Born \cup {None} /\ tls[t].block \in D \cup {None} /\ tls[t].state \in {"none", "constructed", "done"}
          BY <1>2, TlsFields
        <5>4. TlsOf(t)
          BY DEF TlsInv
        <5>5. QED  BY <3>2, <5>2, <5>3, <5>4 DEF TlsOf
      <4>2. rest \in Seq(C) /\ <<Unref(current[t])>> \in Seq(C)
        BY <1>0, <1>1, <4>1, ShortLists
      <4> HIDE DEF rest
      <4>3. QED  BY <1>4, <1>5, <4>2, ShortLists
    <3>3. QED  BY <3>1, <3>2
  <2>3. tls' \in [Thread -> TlsType(Born, D)] /\ current' \in [Thread -> Born]
    BY <1>0, <1>2, <2>1, TlsFields DEF Typed
  <2>4. /\ chunk' \in Seq(ChunkType(D)) /\ DOMAIN chunk' = D
        /\ \A b \in D : chunk'[b].source = chunk[b].source
    BY <2>1, GivenTypes
  <2> HIDE DEF calls
  <2>5. QED  BY <2>1, <2>2, <2>3, <2>4, BeginTypes, BeginListed, KeepingTypes DEF C
<1>13. QED  BY <1>6, <1>7, <1>8, <1>9, <1>10, <1>11, <1>12

(* malloc, memalign, free and realloc keep the types.                      *)
LEMMA MallocStepTypes ==
    ASSUME TypeInv, NEW t \in Thread,
           malloc(t) \/ memalign(t) \/ free(t) \/ realloc(t) \/ freeOld(t)
    PROVE  TypeInv'
<1> DEFINE D == DOMAIN chunk
           C == CallType(Born, D)
<1>0. /\ FooterSize \in Nat /\ current[t] \in Born
      /\ \A b \in D : chunk[b].source \in Born
      /\ UNCHANGED <<source, allsources, my, current, hold, tls, saved, msources, nodeLock>>
      /\ UNCHANGED <<replica, replicaLock>>
  BY CountAssumption DEF TypeInv, Chunked, Typed, malloc, memalign, free, realloc, freeOld,
     sourceVarsButCalls, placeVars
<1>1. /\ \A b \in D : Dealloc(b) \in C /\ FreeOld(b) \in C
      /\ \A n \in Nat : Alloc(current[t], n, "block") \in C
  BY <1>0, CallsAreTyped
<1>2. ASSUME NEW op, Begins(t, op), op # "push", NEW calls \in Seq(C), Begin(t, calls),
             \/ chunk' = chunk
             \/ chunk' \in Seq(ChunkType(D)) /\ DOMAIN chunk' = D
                /\ \A b \in D : chunk'[b].source = chunk[b].source
      PROVE  TypeInv'
  <2>1. Listed(t, calls, pc[t]) /\ pc[t] \in Labels
    BY <1>2, BeginListed
  <2>2. program' \in [Thread -> Seq(Operation)] /\ doing' \in [Thread -> Operation \cup {Setup}]
    BY <1>2, BeginTypes
  <2> HIDE DEF D
  <2>3. D = DOMAIN chunk /\ calls \in Seq(CallType(Born, D))
    BY <1>2 DEF D
  <2>4. QED  BY <1>0, <1>2, <2>1, <2>2, <2>3, KeepingTypes
<1>3. CASE malloc(t)
  <2>1. Begins(t, "malloc") /\ Begin(t, <<Alloc(current[t], Op(t).bytes, "block")>>) /\ chunk' = chunk
    BY <1>3 DEF malloc, sourceVarsButCalls
  <2>2. Op(t).bytes \in Nat
    BY <2>1, BeginTypes, OperationFields
  <2>3. <<Alloc(current[t], Op(t).bytes, "block")>> \in Seq(C)
    BY <1>1, <2>2, ShortLists
  <2>4. QED  BY <1>2, <2>1, <2>3
<1>4. CASE memalign(t)
  <2> DEFINE n == alloc_align(Op(t).bytes, Op(t).align)
  <2>1. Begins(t, "memalign") /\ Begin(t, <<Alloc(current[t], n, "block")>>) /\ chunk' = chunk
    BY <1>4 DEF memalign, sourceVarsButCalls
  <2>2. Op(t).bytes \in Nat /\ Op(t).align \in Nat
    BY <2>1, BeginTypes, OperationFields
  <2>3. n \in Nat
    BY <1>0, <2>2 DEF alloc_align
  <2> HIDE DEF n
  <2>4. <<Alloc(current[t], n, "block")>> \in Seq(C)
    BY <1>1, <2>3, ShortLists
  <2>5. QED  BY <1>2, <2>1, <2>4
<1>5. CASE free(t)
  <2>1. Begins(t, "free") /\ <<>> \in Seq(C)
    BY <1>5, ShortLists DEF free
  <2>2. CASE Begin(t, <<>>) /\ chunk' = chunk
    BY <1>2, <2>1, <2>2
  <2>3. CASE \E b \in Blocks : chunk' = Given({b}) /\ Begin(t, <<Dealloc(b)>>)
    <3>1. PICK b \in Blocks : chunk' = Given({b}) /\ Begin(t, <<Dealloc(b)>>)
      BY <2>3
    <3>2. <<Dealloc(b)>> \in Seq(C)
      BY <1>1, ShortLists DEF Blocks
    <3>3. /\ chunk' \in Seq(ChunkType(D)) /\ DOMAIN chunk' = D
          /\ \A x \in D : chunk'[x].source = chunk[x].source
      BY <3>1, GivenTypes
    <3>4. QED  BY <1>2, <2>1, <3>1, <3>2, <3>3
  <2>4. QED  BY <1>5, <2>2, <2>3 DEF free
<1>6. CASE realloc(t)
  <2> DEFINE bytes == Op(t).bytes
  <2>1. Begins(t, "realloc") /\ <<>> \in Seq(C)
    BY <1>6, ShortLists DEF realloc
  <2>2. CASE chunk' = chunk /\ Begin(t, <<Alloc(current[t], bytes, "block")>>)
    <3>1. bytes \in Nat
      BY <2>1, <2>2, BeginTypes, OperationFields
    <3>2. <<Alloc(current[t], bytes, "block")>> \in Seq(C)
      BY <1>1, <3>1, ShortLists
    <3>3. QED  BY <1>2, <2>1, <2>2, <3>2
  <2>3. CASE Begin(t, <<>>) /\ chunk' = chunk
    BY <1>2, <2>1, <2>3
  <2>4. CASE \E b \in Blocks : /\ chunk' = [chunk EXCEPT ![b].use = "moving"]
                               /\ Begin(t, <<Alloc(current[t], bytes, "block"), FreeOld(b)>>)
    <3>1. PICK b \in Blocks : /\ chunk' = [chunk EXCEPT ![b].use = "moving"]
                              /\ Begin(t, <<Alloc(current[t], bytes, "block"), FreeOld(b)>>)
      BY <2>4
    <3>2. bytes \in Nat /\ b \in D
      BY <2>1, <3>1, BeginTypes, OperationFields DEF Blocks
    <3>3. <<Alloc(current[t], bytes, "block"), FreeOld(b)>> \in Seq(C)
      BY <1>1, <3>2, ShortLists
    <3>4. /\ chunk' \in Seq(ChunkType(D)) /\ DOMAIN chunk' = D
          /\ \A x \in D : chunk'[x].source = chunk[x].source
      <4>1. chunk \in Seq(ChunkType(D)) /\ D = DOMAIN chunk /\ "moving" \in Uses
            /\ chunk' = [chunk EXCEPT ![b].use = "moving"]
        BY <3>1 DEF TypeInv, Chunked, Uses
      <4> HIDE DEF D
      <4>2. QED  BY ONLY <3>2, <4>1, SetUse
    <3>5. QED  BY <1>2, <2>1, <3>1, <3>3, <3>4
  <2>5. QED  BY <1>6, <2>2, <2>3, <2>4 DEF realloc
<1>7. CASE freeOld(t)
  <2> DEFINE b == Call(t).b
             moved == my[t].b # None
             use == IF moved THEN "freed" ELSE "block"
             calls == IF moved THEN <<Dealloc(b)>> ELSE <<>>
  <2>1. /\ todo[t] # <<>> /\ Call(t).op = "free_old" /\ chunk' = [chunk EXCEPT ![b].use = use]
        /\ Then(t, calls) /\ UNCHANGED <<program, doing>>
    BY <1>7 DEF freeOld, At, placeVars
  <2>2. b \in D
    BY <2>1, CallInHand, CallFields
  <2>3. calls \in Seq(C)
    BY <1>1, <2>2, ShortLists
  <2>4. /\ chunk' \in Seq(ChunkType(D)) /\ DOMAIN chunk' = D
        /\ \A x \in D : chunk'[x].source = chunk[x].source
    <3>1. chunk \in Seq(ChunkType(D)) /\ D = DOMAIN chunk /\ use \in Uses
          /\ chunk' = [chunk EXCEPT ![b].use = use]
      BY <2>1 DEF TypeInv, Chunked, Uses
    <3> HIDE DEF D, b, use
    <3>2. QED  BY ONLY <2>2, <3>1, SetUse
  <2> HIDE DEF calls
  <2>5. /\ Listed(t, calls \o Tail(todo[t]), "start") /\ "start" \in Labels
        /\ calls \o Tail(todo[t]) \in Seq(CallType(Born, DOMAIN chunk))
    BY <2>1, <2>3, ThenListed
  <2> HIDE DEF D
  <2>6. D = DOMAIN chunk
    BY DEF D
  <2>7. QED  BY <1>0, <2>1, <2>4, <2>5, <2>6, KeepingTypes
<1>8. QED  BY <1>3, <1>4, <1>5, <1>6, <1>7

(* The operations on MemSource handles keep the types.                     *)
LEMMA HandleStepTypes ==
    ASSUME TypeInv, NEW t \in Thread,
           copy(t) \/ bind(t) \/ assign(t) \/ move(t) \/ drop(t) \/ migrate(t)
    PROVE  TypeInv'
<1> DEFINE D == DOMAIN chunk
           C == CallType(Born, D)
<1>0. /\ hold \in [Handle -> Born \cup {None}] /\ None \notin Born
      /\ UNCHANGED <<source, chunk, allsources, my, current, tls, saved, msources, nodeLock>>
      /\ UNCHANGED <<replica, replicaLock>>
  BY CountAssumption DEF TypeInv, Typed, copy, bind, assign, move, drop, migrate, sourceVarsButCalls, Born
<1>1. /\ \A s \in Born : Ref(s) \in C /\ Unref(s) \in C
      /\ \A s \in Born, n \in Physical : Migrate(s, n) \in C
      /\ \A s \in Born, h \in Handle : Bind(h, s) \in C
  BY CallsAreTyped
<1>2. ASSUME NEW op, Begins(t, op), NEW calls \in Seq(C), Begin(t, calls),
             hold' = hold \/ hold' \in [Handle -> Born \cup {None}]
      PROVE  TypeInv'
  <2>1. Listed(t, calls, pc[t]) /\ pc[t] \in Labels
    BY <1>2, BeginListed
  <2>2. program' \in [Thread -> Seq(Operation)] /\ doing' \in [Thread -> Operation \cup {Setup}]
    BY <1>2, BeginTypes
  <2> HIDE DEF D
  <2>3. D = DOMAIN chunk /\ calls \in Seq(CallType(Born, D))
    BY <1>2 DEF D
  <2>4. QED  BY <1>0, <1>2, <2>1, <2>2, <2>3, KeepingTypes
<1>a. ASSUME NEW op, Begins(t, op), NEW calls, Begin(t, calls)
      PROVE  Op(t) \in Operation /\ Op(t).op = op
  BY <1>a, BeginTypes
<1> HIDE DEF C
<1>3. CASE copy(t)
  <2> DEFINE calls == <<Ref(hold[Op(t).from]), Bind(Op(t).h, hold[Op(t).from])>>
  <2>1. Begins(t, "copy") /\ Begin(t, calls) /\ hold' = hold /\ hold[Op(t).from] # None
    BY <1>3 DEF copy, Ready
  <2>2. Op(t).h \in Handle /\ Op(t).from \in Handle
    BY <1>a, <2>1, OperationFields
  <2>3. hold[Op(t).from] \in Born
    BY <1>0, <2>1, <2>2
  <2>4. calls \in Seq(C)
    BY <1>1, <2>2, <2>3, ShortLists
  <2> HIDE DEF calls
  <2>5. QED  BY <1>2, <2>1, <2>4
<1>4. CASE bind(t)
  <2>1. /\ todo[t] # <<>> /\ Call(t).op = "bind" /\ hold' = [hold EXCEPT ![Call(t).h] = Call(t).s]
        /\ Then(t, <<>>) /\ UNCHANGED <<program, doing>> /\ <<>> \in Seq(C)
    BY <1>4, ShortLists DEF bind, At
  <2>2. Call(t).s \in Born
    BY <2>1, CallInHand, CallFields
  <2>3. hold' \in [Handle -> Born \cup {None}]
    BY <1>0, <2>1, <2>2
  <2>4. QED  BY <1>0, <2>1, <2>3, ThenListed, KeepingTypes DEF C
<1>5. CASE assign(t)
  <2> DEFINE new == hold[Op(t).from]
             old == hold[Op(t).h]
             rest == IF old = None THEN <<>> ELSE <<Unref(old)>>
             calls == IF new = old THEN <<>> ELSE <<Ref(new)>> \o rest
  <2>1. Begins(t, "assign") /\ Begin(t, calls) /\ hold' = [hold EXCEPT ![Op(t).h] = new] /\ new # None
    BY <1>5 DEF assign, Ready
  <2>2. Op(t).h \in Handle /\ Op(t).from \in Handle
    BY <1>a, <2>1, OperationFields
  <2>3. new \in Born /\ old \in Born \cup {None}
    BY <1>0, <2>1, <2>2
  <2>4. hold' \in [Handle -> Born \cup {None}]
    BY <1>0, <2>1, <2>3
  <2> HIDE DEF new, old
  <2>5. <<>> \in Seq(C) /\ <<Ref(new)>> \in Seq(C) /\ rest \in Seq(C)
    BY <1>1, <2>3, ShortLists
  <2> HIDE DEF rest
  <2>6. calls \in Seq(C)
    BY <2>5, ShortLists
  <2> HIDE DEF calls
  <2>7. QED  BY <1>2, <2>1, <2>4, <2>6
<1>6. CASE move(t)
  <2> DEFINE old == hold[Op(t).h]
             calls == IF old = None THEN <<>> ELSE <<Unref(old)>>
  <2>1. /\ Begins(t, "move") /\ Begin(t, calls)
        /\ hold' = [hold EXCEPT ![Op(t).h] = hold[Op(t).from], ![Op(t).from] = None]
    BY <1>6 DEF move
  <2>2. Op(t).h \in Handle /\ Op(t).from \in Handle
    BY <1>a, <2>1, OperationFields
  <2>3. old \in Born \cup {None} /\ hold' \in [Handle -> Born \cup {None}]
    BY <1>0, <2>1, <2>2
  <2> HIDE DEF old
  <2>4. calls \in Seq(C)
    BY <1>1, <2>3, ShortLists
  <2> HIDE DEF calls
  <2>5. QED  BY <1>2, <2>1, <2>3, <2>4
<1>7. CASE drop(t)
  <2>1. /\ Begins(t, "drop") /\ Begin(t, <<Unref(hold[Op(t).h])>>) /\ hold[Op(t).h] # None
        /\ hold' = [hold EXCEPT ![Op(t).h] = None]
    BY <1>7 DEF drop, Ready
  <2>2. Op(t).h \in Handle
    BY <1>a, <2>1, OperationFields
  <2>3. hold[Op(t).h] \in Born /\ hold' \in [Handle -> Born \cup {None}]
    BY <1>0, <2>1, <2>2
  <2>4. <<Unref(hold[Op(t).h])>> \in Seq(C)
    BY <1>1, <2>3, ShortLists
  <2>5. QED  BY <1>2, <2>1, <2>3, <2>4
<1>8. CASE migrate(t)
  <2>1. /\ Begins(t, "migrate") /\ Begin(t, <<Migrate(hold[Op(t).h], Op(t).node)>>)
        /\ hold[Op(t).h] # None /\ hold' = hold
    BY <1>8 DEF migrate, Ready
  <2>2. Op(t).h \in Handle /\ Op(t).node \in Physical
    BY <1>a, <2>1, OperationFields
  <2>3. hold[Op(t).h] \in Born
    BY <1>0, <2>1, <2>2
  <2>4. <<Migrate(hold[Op(t).h], Op(t).node)>> \in Seq(C)
    BY <1>1, <2>2, <2>3, ShortLists
  <2>5. QED  BY <1>2, <2>1, <2>4
<1>9. QED  BY <1>3, <1>4, <1>5, <1>6, <1>7, <1>8

(* NodeReplicated::get and the creation of a replica keep the types.       *)
LEMMA ReplicaStepTypes ==
    ASSUME TypeInv, NEW t \in Thread,
           \/ get(t) \/ lockReplica(t) \/ recheckReplica(t) \/ publishReplica(t) \/ unlockReplica(t)
    PROVE  TypeInv'
<1> DEFINE D == DOMAIN chunk
           C == CallType(Born, D)
<1>0. /\ replica \in [Physical -> D \cup {None}] /\ t \in Threads /\ None \in Threads
      /\ ReplicaSize \in Nat /\ \A n \in Physical : NodeSource[n] \in Born
      /\ UNCHANGED <<source, chunk, allsources, my, current, hold, tls, saved, msources, nodeLock>>
      /\ ~get(t) => UNCHANGED <<program, doing>>
  BY PlaceAssumption DEF TypeInv, Typed, Chunked, get, lockReplica, recheckReplica, publishReplica,
     unlockReplica, sourceVarsButCalls, placeVars, Threads
<1>1. /\ \A n \in Physical : /\ GetReplica(n) \in C /\ PublishReplica(n) \in C
                             /\ Alloc(NodeSource[n], ReplicaSize, "replica") \in C
      /\ UnlockReplica \in C
  BY <1>0, CallsAreTyped
<1>2. ASSUME ~get(t), NEW calls \in Seq(C), Then(t, calls), todo[t] # <<>>,
             replica' = replica \/ replica' \in [Physical -> D \cup {None}],
             replicaLock' = replicaLock \/ replicaLock' \in Threads
      PROVE  TypeInv'
  <2>1. /\ Listed(t, calls \o Tail(todo[t]), "start") /\ "start" \in Labels
        /\ calls \o Tail(todo[t]) \in Seq(CallType(Born, DOMAIN chunk))
    BY <1>2, ThenListed
  <2>2. QED  BY <1>0, <1>2, <2>1, KeepingTypes
<1>3. CASE get(t)
  <2> DEFINE n == Op(t).node
             calls == IF replica[n] = None THEN <<GetReplica(n)>> ELSE <<>>
  <2>1. Begins(t, "get") /\ Begin(t, calls) /\ UNCHANGED <<replica, replicaLock>>
    BY <1>3 DEF get
  <2>2. /\ Op(t) \in Operation /\ Op(t).op = "get"
        /\ program' \in [Thread -> Seq(Operation)] /\ doing' \in [Thread -> Operation \cup {Setup}]
    BY <2>1, BeginTypes
  <2>3. calls \in Seq(C)
    BY <1>1, <2>2, OperationFields, ShortLists
  <2> HIDE DEF calls
  <2>4. Listed(t, calls, pc[t]) /\ pc[t] \in Labels
    BY <2>1, BeginListed
  <2>5. QED  BY <1>0, <2>1, <2>2, <2>3, <2>4, KeepingTypes
<1> HIDE DEF C
<1>4. CASE lockReplica(t) /\ ~get(t)
  <2>1. Listed(t, todo[t], "recheck") /\ "recheck" \in Labels /\ todo[t] \in Seq(C)
    <3>1. Goto(t, "recheck") /\ todo[t] # <<>>
      BY <1>4 DEF lockReplica, At
    <3>2. QED  BY <3>1, Steps DEF Labels, C, TypeInv
  <2>2. replicaLock' \in Threads /\ replica' = replica
    BY <1>0, <1>4 DEF lockReplica
  <2>3. QED  BY <1>0, <1>4, <2>1, <2>2, KeepingTypes DEF C
<1>5. CASE recheckReplica(t) /\ ~get(t)
  <2> DEFINE n == Call(t).node
             first == IF replica[n] # None THEN <<>>
                      ELSE <<Alloc(NodeSource[n], ReplicaSize, "replica"), PublishReplica(n)>>
             calls == first \o <<UnlockReplica>>
  <2>1. /\ todo[t] # <<>> /\ Call(t).op = "replica" /\ Then(t, calls)
        /\ replica' = replica /\ replicaLock' = replicaLock
    BY <1>5 DEF recheckReplica, At, placeVars
  <2>2. n \in Physical
    BY <2>1, CallInHand, CallFields
  <2>3. first \in Seq(C) /\ <<UnlockReplica>> \in Seq(C)
    BY <1>1, <2>2, ShortLists
  <2> HIDE DEF first
  <2>4. calls \in Seq(C)
    BY <2>3, ShortLists
  <2> HIDE DEF calls
  <2>5. QED  BY <1>2, <1>5, <2>1, <2>4
<1>6. CASE publishReplica(t) /\ ~get(t)
  <2>1. /\ todo[t] # <<>> /\ Then(t, <<>>) /\ <<>> \in Seq(C) /\ replicaLock' = replicaLock
        /\ replica' = [replica EXCEPT ![Call(t).node] = my[t].b]
    BY <1>6, ShortLists DEF publishReplica, At
  <2>2. my[t].b \in D \cup {None}
    <3>1. my[t] \in MyType(D)
      BY DEF TypeInv, Typed
    <3>2. QED  BY <3>1 DEF MyType
  <2>3. replica' \in [Physical -> D \cup {None}]
    BY <1>0, <2>1, <2>2
  <2>4. QED  BY <1>2, <1>6, <2>1, <2>3
<1>7. CASE unlockReplica(t) /\ ~get(t)
  <2>1. /\ todo[t] # <<>> /\ Then(t, <<>>) /\ <<>> \in Seq(C) /\ replicaLock' \in Threads
        /\ replica' = replica
    BY <1>0, <1>7, ShortLists DEF unlockReplica, At
  <2>2. QED  BY <1>2, <1>7, <2>1
<1>8. QED  BY <1>3, <1>4, <1>5, <1>6, <1>7

(* What a new source is.                                                   *)
LEMMA NewSourceFields ==
    ASSUME NEW D, NEW n \in Physical \cup {-1}, NEW r \in Int
    PROVE  /\ NewSource(n, r) \in SourceType(D)
           /\ NewSource(n, r).state = "alive" /\ NewSource(n, r).blocks = r * RefUnit
           /\ NewSource(n, r).arenas = <<Arena(NativeRoom)>> /\ Len(NewSource(n, r).arenas) = 1
           /\ NewSource(n, r).arena_lock = None /\ NewSource(n, r).mmapped_chunk_lock = None
           /\ NewSource(n, r).mmapped_chunk_head = None
<1> DEFINE a == <<Arena(NativeRoom)>>
           x == r * RefUnit
<1>1. a \in Seq(ArenaType) /\ Len(a) = 1
  BY CountAssumption DEF Arena, ArenaType, Threads
<1>2. x \in Int
  BY CountAssumption
<1>3. NewSource(n, r) = [Unused EXCEPT !.state = "alive", !.node = n, !.blocks = x, !.arenas = a]
  BY DEF NewSource
<1> HIDE DEF a, x
<1>4. NewSource(n, r) = [state |-> "alive", node |-> n, blocks |-> x, arenas |-> a,
                         arena_lock |-> None, mmapped_chunk_lock |-> None,
                         mmapped_chunk_head |-> None]
  BY <1>3 DEF Unused
<1>5. NewSource(n, r) \in SourceType(D)
  BY <1>1, <1>2, <1>4 DEF SourceType, Threads
<1>6. QED  BY <1>1, <1>4, <1>5 DEF a, x

(* A source is made.                                                       *)
LEMMA CreateTypes ==
    ASSUME TypeInv, NEW n \in Physical, CreateSource(n), chunk' = chunk
    PROVE  /\ Fresh \in Source /\ Unborn(Fresh) /\ Fresh \notin Born
           /\ source' \in [Source -> SourceType(DOMAIN chunk)]
           /\ source'[Fresh] = NewSource(n, 0) /\ \A s \in Source \ {Fresh} : source'[s] = source[s]
           /\ Born' = Born \cup {Fresh} /\ source'[Fresh].state # "unused"
           /\ allsources' \subseteq Source /\ allsources' = allsources \cup {Fresh}
           /\ \A s \in Source \ {Fresh} : Unborn(s)' <=> Unborn(s)
<1>1. Fresh \in Source /\ Unborn(Fresh)
  BY DEF CreateSource, Fresh
<1>2. source \in [Source -> SourceType(DOMAIN chunk)] /\ allsources \subseteq Source
  BY DEF TypeInv, Typed
<1>3. NewSource(n, 0) \in SourceType(DOMAIN chunk) /\ NewSource(n, 0).state = "alive"
  BY NewSourceFields
<1> DEFINE f == Fresh
           r == NewSource(n, 0)
<1>4. /\ source' = [source EXCEPT ![f] = r] /\ allsources' = allsources \cup {f}
      /\ f \in Source /\ Unborn(f) /\ r \in SourceType(DOMAIN chunk) /\ r.state = "alive"
  BY <1>1, <1>3 DEF CreateSource
<1> HIDE DEF f, r
<1>5. /\ source' \in [Source -> SourceType(DOMAIN chunk)] /\ source'[f] = r
      /\ \A s \in Source \ {f} : source'[s] = source[s]
  BY <1>2, <1>4
<1>6. \A s \in Source : s # f => (Unborn(s)' <=> Unborn(s))
  BY <1>5 DEF Unborn
<1>7. source'[f].state # "unused"
  BY <1>4, <1>5
<1>8. Born' = Born \cup {f} /\ f \notin Born
  BY <1>4, <1>6, <1>7 DEF Born, Unborn
<1>9. QED  BY <1>2, <1>4, <1>5, <1>6, <1>7, <1>8 DEF f, r

(* Everything but the sources is over a larger set of sources.             *)
LEMMA CreatingTypes ==
    ASSUME TypeInv, NEW t \in Thread, NEW n \in Physical, CreateSource(n),
           UNCHANGED <<chunk, my, current, hold, saved, msources, nodeLock, replica, replicaLock>>,
           NEW q \in Seq(CallType(Born \cup {Fresh}, DOMAIN chunk)), NEW label \in Labels,
           Listed(t, q, label),
           UNCHANGED <<program, doing>> \/ (program' \in [Thread -> Seq(Operation)]
                                            /\ doing' \in [Thread -> Operation \cup {Setup}]),
           tls' = tls \/ tls' = [tls EXCEPT ![t].state = "done", ![t].own = Fresh]
    PROVE  TypeInv'
<1> DEFINE f == Fresh
           S2 == Born \cup {f}
           D == DOMAIN chunk
<1>1. Typed(Born, D) /\ Chunked(Born, D)
  BY DEF TypeInv
<1>2. /\ source' \in [Source -> SourceType(D)] /\ S2 = Born' /\ allsources' \subseteq Source
  BY CreateTypes
<1>3. Born \subseteq S2 /\ f \in S2
  OBVIOUS
<1>4. Listed(t, q, label) /\ q \in Seq(CallType(S2, D))
  OBVIOUS
<1>5. tls' = tls \/ tls' = [tls EXCEPT ![t].state = "done", ![t].own = f]
  OBVIOUS
<1> HIDE DEF f, S2, D
<1>6. Typed(S2, D)
  BY <1>1, <1>3, Widen
<1>7. tls' \in [Thread -> TlsType(S2, D)]
  <2>1. tls \in [Thread -> TlsType(S2, D)]
    BY <1>6 DEF Typed
  <2>2. [tls EXCEPT ![t].state = "done", ![t].own = f] \in [Thread -> TlsType(S2, D)]
    BY ONLY <1>3, <2>1, TlsFields, t \in Thread
  <2>3. QED  BY <1>5, <2>1, <2>2
<1>8. /\ current' \in [Thread -> S2]
      /\ program' \in [Thread -> Seq(Operation)] /\ doing' \in [Thread -> Operation \cup {Setup}]
      /\ hold' \in [Handle -> S2 \cup {None}] 
      /\ saved' \in [Task -> SavedType(S2, D)]
      /\ msources' \in [Physical -> [Physical -> S2 \cup {None}]]
      /\ nodeLock' \in [Physical -> Threads] /\ replica' \in [Physical -> D \cup {None}]
      /\ replicaLock' \in Threads
  BY <1>6 DEF Typed
<1>9. /\ chunk' \in Seq(ChunkType(D)) /\ DOMAIN chunk' = D /\ D = DOMAIN chunk
      /\ \A b \in D : chunk'[b].source = chunk[b].source
  BY <1>1 DEF Chunked, D
<1>10. my' = my
  OBVIOUS
<1>11. QED  BY <1>2, <1>3, <1>4, <1>7, <1>8, <1>9, <1>10, PlaceTypesClose

(* The three operations that make a source keep the types: Tls::init, the
   local source of a place, and MemSource::create.                         *)
LEMMA CreatingStepTypes ==
    ASSUME TypeInv, TlsInv, NEW t \in Thread, init(t) \/ recheckLocal(t) \/ create(t)
    PROVE  TypeInv'
<1> DEFINE D == DOMAIN chunk
           S2 == Born \cup {Fresh}
           C == CallType(S2, D)
<1>0. HomeOf[t] \in Physical /\ "start" \in Labels /\ Typed(Born, D)
  BY PlaceAssumption DEF Labels, TypeInv
<1>1. /\ Ref(Fresh) \in C /\ FirstRef(Fresh) \in C /\ Unref(Fresh) \in C
      /\ UnlockLocal \in C
      /\ \A n \in Physical : PublishLocal(Fresh, n) \in C
      /\ \A h \in Handle : Bind(h, Fresh) \in C
  BY CallsAreTyped
<1>2. todo[t] # <<>> => Tail(todo[t]) \in Seq(C) /\ todo[t] \in Seq(C)
  <2>1. Seq(CallType(Born, D)) \subseteq Seq(C)
    BY TypesWider, SeqWider
  <2>2. QED  BY <2>1, CallInHand
<1> HIDE DEF C
<1>3. CASE init(t)
  <2> DEFINE calls == <<FirstRef(Fresh), Ref(Fresh), Unref(Fresh)>>
             q == calls \o Tail(todo[t])
  <2>1. /\ todo[t] # <<>> /\ CreateSource(HomeOf[t]) /\ Listed(t, q, "start")
        /\ tls' = [tls EXCEPT ![t].state = "done", ![t].own = Fresh]
        /\ UNCHANGED <<chunk, my, current, program, doing, hold, saved, msources, nodeLock, replica>>
        /\ UNCHANGED replicaLock
    BY <1>3 DEF init, At, Then, Listed
  <2>2. q \in Seq(C)
    <3>1. calls \in Seq(C)
      BY <1>1, ShortLists
    <3> HIDE DEF calls
    <3>2. QED  BY <1>2, <2>1, <3>1, ShortLists
  <2> HIDE DEF q
  <2>3. QED  BY <1>0, <2>1, <2>2, CreatingTypes DEF C
<1>4. CASE recheckLocal(t)
  <2> DEFINE n == Last(tls[t].stack).node
             calls == <<FirstRef(Fresh), PublishLocal(Fresh, n), UnlockLocal>>
             q == calls \o todo[t]
  <2>1. /\ todo[t] # <<>> /\ pc' = [pc EXCEPT ![t] = "start"] /\ At(t, "curr", "recheck")
        /\ UNCHANGED <<chunk, my, current, placeVars>>
    BY <1>4 DEF recheckLocal, At
  <2>2. n \in Physical
    <3>1. TlsOf(t)
      BY DEF TlsInv
    <3>2. QED  BY <2>1, <3>1, PlaceSourceTypes DEF TlsOf
  <2>3. CASE /\ todo' = [todo EXCEPT ![t] = <<UnlockLocal>> \o @]
             /\ UNCHANGED <<source, allsources>>
    <3> DEFINE p == <<UnlockLocal>> \o todo[t]
    <3>1. Listed(t, p, "start")
      BY <2>1, <2>3 DEF Listed
    <3>2. p \in Seq(CallType(Born, D))
      BY <2>1, CallInHand, CallsAreTyped
    <3> HIDE DEF p
    <3>3. QED  BY <1>0, <2>1, <2>3, <3>1, <3>2, KeepingTypes DEF placeVars
  <2>4. CASE CreateSource(n) /\ todo' = [todo EXCEPT ![t] = calls \o @]
    <3>1. Listed(t, q, "start")
      BY <2>1, <2>4 DEF Listed
    <3>2. q \in Seq(C)
      <4>1. calls \in Seq(C)
        BY <1>1, <2>2, ShortLists
      <4> HIDE DEF calls
      <4>2. QED  BY <1>2, <2>1, <4>1, ShortLists
    <3>3. UNCHANGED <<chunk, my, current, program, doing, hold, tls, saved, msources, nodeLock, replica>>
          /\ UNCHANGED replicaLock
      BY <2>1 DEF placeVars
    <3> HIDE DEF q
    <3>4. QED  BY <1>0, <2>2, <2>4, <3>1, <3>2, <3>3, CreatingTypes DEF C
  <2>5. QED  BY <1>4, <2>3, <2>4 DEF recheckLocal
<1>5. CASE create(t)
  <2> DEFINE q == <<FirstRef(Fresh), Bind(Op(t).h, Fresh)>>
  <2>1. /\ Begins(t, "create") /\ CreateSource(Op(t).node) /\ Begin(t, q)
        /\ UNCHANGED <<chunk, my, current, hold, tls, saved, msources, nodeLock, replica, replicaLock>>
    BY <1>5 DEF create
  <2>2. /\ Op(t) \in Operation /\ Op(t).op = "create"
        /\ program' \in [Thread -> Seq(Operation)] /\ doing' \in [Thread -> Operation \cup {Setup}]
    BY <2>1, BeginTypes
  <2>3. Op(t).h \in Handle /\ Op(t).node \in Physical
    BY <2>2, OperationFields
  <2>4. q \in Seq(C)
    BY <1>1, <2>3, ShortLists
  <2> HIDE DEF q
  <2>5. Listed(t, q, pc[t]) /\ pc[t] \in Labels
    BY <2>1, BeginListed
  <2>6. QED  BY <2>1, <2>2, <2>3, <2>4, <2>5, CreatingTypes DEF C
<1>6. QED  BY <1>3, <1>4, <1>5

(* Every step keeps the types.                                             *)
LEMMA StepTypes ==
    ASSUME TypeInv, PcInv, TlsInv, NEW t \in Thread, Step(t)
    PROVE  TypeInv'
<1>1. CASE SourceStep(t) /\ UNCHANGED placeVars
  <2>1. CASE QuietStep(t)
    BY <1>1, <2>1, QuietStepTypes
  <2>2. CASE LoudStep(t)
    BY <1>1, <2>2, LoudStepTypes
  <2>3. QED  BY <1>1, <2>1, <2>2 DEF SourceStep, QuietStep, LoudStep
<1>2. CASE PlaceStep(t)
  BY <1>2, StorageStepTypes, StackStepTypes, MallocStepTypes, HandleStepTypes, ReplicaStepTypes,
     CreatingStepTypes DEF PlaceStep
<1>3. QED  BY <1>1, <1>2 DEF Step

(* The state after the library's start is typed.                           *)
LEMMA InitTypes ==
    ASSUME Init
    PROVE  TypeInv
<1> DEFINE D == DOMAIN chunk
<1>1. D = {} /\ chunk \in Seq(ChunkType(D))
  BY DEF Init
<1>2. \A s \in Source :
        (StartupRefs(s) \in Nat /\ NodeOfSource(s) \in Physical \cup {-1}) \/ StartupRefs(s) = 0
  <2> SUFFICES ASSUME NEW s \in Source, StartupRefs(s) # 0
               PROVE  StartupRefs(s) \in Nat /\ NodeOfSource(s) \in Physical \cup {-1}
    OBVIOUS
  <2>1. CASE s = GlobalSource
    BY <2>1 DEF StartupRefs, NodeOfSource
  <2>2. CASE s # GlobalSource
    <3> DEFINE N == {n \in Physical : NodeSource[n] = s}
    <3>1. IsFiniteSet(N)
      BY CountAssumption, FS_Subset
    <3>2. Cardinality(N) \in Nat
      BY <3>1, FS_CardinalityType
    <3>3. StartupRefs(s) = 4 * Cardinality(N)
      BY <2>2 DEF StartupRefs
    <3>4. N # {}
      BY <3>3, FS_EmptySet
    <3>5. PICK n \in Physical : NodeSource[n] = s
      BY <3>4
    <3>6. NodeOfSource(s) \in Physical
      BY <2>2, <3>5 DEF NodeOfSource
    <3>7. QED  BY <3>2, <3>3, <3>6
  <2>3. QED  BY <2>1, <2>2
<1>3. ASSUME NEW s \in Source
      PROVE  /\ source[s] \in SourceType(D)
             /\ source[s].state = IF StartupRefs(s) = 0 THEN "unused" ELSE "alive"
  <2>1. CASE StartupRefs(s) = 0
    <3>1. source[s] = Unused
      BY <2>1 DEF Init
    <3>2. Unused \in SourceType(D)
      <4>1. <<>> \in Seq(ArenaType)
        OBVIOUS
      <4>2. QED  BY <4>1 DEF Unused, SourceType, Threads
    <3>3. QED  BY <2>1, <3>1, <3>2 DEF Unused
  <2>2. CASE StartupRefs(s) # 0
    <3>1. source[s] = NewSource(NodeOfSource(s), StartupRefs(s))
      BY <2>2 DEF Init
    <3>2. StartupRefs(s) \in Int /\ NodeOfSource(s) \in Physical \cup {-1}
      BY <1>2, <2>2
    <3> DEFINE n == NodeOfSource(s)
               r == StartupRefs(s)
    <3> HIDE DEF n, r
    <3>3. NewSource(n, r) \in SourceType(D) /\ NewSource(n, r).state = "alive"
      BY <3>2, NewSourceFields DEF n, r
    <3>4. QED  BY <2>2, <3>1, <3>3 DEF n, r
  <2>3. QED  BY <2>1, <2>2
<1>4. source \in [Source -> SourceType(D)]
  <2>1. source = [s \in Source |-> source[s]]
    BY DEF Init
  <2> HIDE DEF D
  <2>2. QED  BY <1>3, <2>1
<1>5. Born = {s \in Source : StartupRefs(s) # 0}
  BY <1>3 DEF Born, Unborn
<1>6. GlobalSource \in Born /\ \A n \in Physical : NodeSource[n] \in Born
  <2>1. GlobalSource \in Source /\ \A n \in Physical : NodeSource[n] \in Source
    BY PlaceAssumption
  <2>2. StartupRefs(GlobalSource) = 3
    BY DEF StartupRefs
  <2>3. ASSUME NEW n \in Physical PROVE StartupRefs(NodeSource[n]) # 0
    <3> DEFINE N == {m \in Physical : NodeSource[m] = NodeSource[n]}
    <3>1. IsFiniteSet(N) /\ n \in N
      BY CountAssumption, FS_Subset
    <3>2. Cardinality(N) \in Nat /\ Cardinality(N) # 0
      BY <3>1, FS_CardinalityType, FS_EmptySet
    <3>3. QED  BY <3>2 DEF StartupRefs
  <2>4. QED  BY <1>5, <2>1, <2>2, <2>3
<1>7. todo \in [Thread -> Seq(CallType(Born, D))] /\ pc \in [Thread -> Labels]
  BY DEF Init, Labels
<1>8. /\ my \in [Thread -> MyType(D)] /\ current \in [Thread -> Born]
      /\ hold \in [Handle -> Born \cup {None}] /\ nodeLock \in [Physical -> Threads]
      /\ replica \in [Physical -> D \cup {None}] /\ replicaLock \in Threads
      /\ msources \in [Physical -> [Physical -> Born \cup {None}]] /\ allsources \subseteq Source
      /\ doing \in [Thread -> Operation \cup {Setup}]
  BY <1>6 DEF Init, MyType, Threads
<1>9. program \in [Thread -> Seq(Operation)]
  BY PlaceAssumption DEF Init
<1>10. tls \in [Thread -> TlsType(Born, D)]
  BY DEF Init, NoStorage, TlsType
<1>11. saved \in [Task -> SavedType(Born, D)]
  BY DEF Init, SavedType, Threads
<1>12. Typed(Born, D)
  BY <1>4, <1>7, <1>8, <1>9, <1>10, <1>11 DEF Typed
<1>13. Chunked(Born, D)
  BY <1>1, <1>6 DEF Chunked
<1>14. QED  BY <1>12, <1>13 DEF TypeInv

(* The names in a short list of calls.                                     *)
LEMMA OpsFacts ==
    /\ Ops(<<>>) = {} /\ \A a : Ops(<<a>>) = {a.op}
    /\ \A a, b : Ops(<<a, b>>) = {a.op, b.op}
    /\ \A a, b, c : Ops(<<a, b, c>>) = {a.op, b.op, c.op}
    /\ \A a, b, c, d : Ops(<<a, b, c, d>>) = {a.op, b.op, c.op, d.op}
    /\ \A q : Ops(q) = {c.op : c \in Range(q)}
<1>1. \A q : Ops(q) = {c.op : c \in Range(q)}
  BY DEF Ops, Range
<1>2. \A a : DOMAIN <<a>> = {1} /\ <<a>>[1] = a
  OBVIOUS
<1>3. \A a, b : DOMAIN <<a, b>> = {1, 2} /\ <<a, b>>[1] = a /\ <<a, b>>[2] = b
  OBVIOUS
<1>4. \A a, b, c : DOMAIN <<a, b, c>> = {1, 2, 3} /\ <<a, b, c>>[1] = a /\ <<a, b, c>>[2] = b /\ <<a, b, c>>[3] = c
  OBVIOUS
<1>5. \A a, b, c, d : /\ DOMAIN <<a, b, c, d>> = {1, 2, 3, 4} /\ <<a, b, c, d>>[1] = a
                      /\ <<a, b, c, d>>[2] = b /\ <<a, b, c, d>>[3] = c /\ <<a, b, c, d>>[4] = d
  OBVIOUS
<1>6. DOMAIN <<>> = {}
  OBVIOUS
<1>7. Ops(<<>>) = {}
  BY <1>6 DEF Ops
<1>8. \A a : Ops(<<a>>) = {a.op}
  BY <1>2 DEF Ops
<1>9. \A a, b : Ops(<<a, b>>) = {a.op, b.op}
  BY <1>3 DEF Ops
<1>10. \A a, b, c : Ops(<<a, b, c>>) = {a.op, b.op, c.op}
  BY <1>4 DEF Ops
<1>11. \A a, b, c, d : Ops(<<a, b, c, d>>) = {a.op, b.op, c.op, d.op}
  BY <1>5 DEF Ops
<1>12. QED  BY <1>1, <1>7, <1>8, <1>9, <1>10, <1>11

(* The names in two lists of calls, one after the other.                   *)
LEMMA OpsConcat ==
    ASSUME NEW T, NEW p \in Seq(T), NEW q \in Seq(T)
    PROVE  Ops(p \o q) = Ops(p) \cup Ops(q)
<1>1. Range(p \o q) = Range(p) \cup Range(q)
  BY RangeConcat
<1>2. QED  BY <1>1, OpsFacts

(* The names in a list are those of its head and of the rest.              *)
LEMMA OpsHeadTail ==
    ASSUME NEW T, NEW q \in Seq(T), q # <<>>
    PROVE  Ops(q) = {Head(q).op} \cup Ops(Tail(q))
<1>1. Range(q) = {Head(q)} \cup Range(Tail(q))
  BY RangeHeadTail
<1>2. QED  BY <1>1, OpsFacts

(* Order.                                                                  *)
LEMMA OrderedOne ==
    Ordered(<<>>) /\ \A a : Ordered(<<a>>)
<1>1. \A a : DOMAIN <<a>> = {1}
  OBVIOUS
<1>2. Ordered(<<>>)
  BY DEF Ordered
<1>3. \A a : Ordered(<<a>>)
  BY <1>1 DEF Ordered
<1>4. QED  BY <1>2, <1>3

(* A list in which every name may follow every other is in order.          *)
LEMMA OrderedAlike ==
    ASSUME NEW q, \A a, b \in Ops(q) : b \in AfterCall(a)
    PROVE  Ordered(q)
<1>1. \A i \in DOMAIN q : q[i].op \in Ops(q)
  BY DEF Ops
<1>2. QED  BY <1>1 DEF Ordered

(* The rest of a list in order is in order, and follows the head.          *)
LEMMA OrderedTail ==
    ASSUME NEW T, NEW q \in Seq(T), q # <<>>, Ordered(q)
    PROVE  Ordered(Tail(q)) /\ Ops(Tail(q)) \subseteq AfterCall(Head(q).op)
<1>1. /\ DOMAIN Tail(q) = 1 .. Len(q) - 1 /\ DOMAIN q = 1 .. Len(q) /\ Len(q) \in Nat /\ Len(q) > 0
      /\ \A i \in DOMAIN Tail(q) : Tail(q)[i] = q[i + 1] /\ i + 1 \in DOMAIN q
      /\ Head(q) = q[1]
  OBVIOUS
<1>2. Ordered(Tail(q))
  <2> SUFFICES ASSUME NEW i \in DOMAIN Tail(q), NEW j \in DOMAIN Tail(q), i < j
               PROVE  Tail(q)[j].op \in AfterCall(Tail(q)[i].op)
    BY DEF Ordered
  <2>1. i + 1 \in DOMAIN q /\ j + 1 \in DOMAIN q /\ i + 1 < j + 1
    BY <1>1
  <2>2. q[j + 1].op \in AfterCall(q[i + 1].op)
    BY <2>1 DEF Ordered
  <2>3. QED  BY <1>1, <2>2
<1>3. ASSUME NEW i \in DOMAIN Tail(q) PROVE Tail(q)[i].op \in AfterCall(Head(q).op)
  <2>1. 1 \in DOMAIN q /\ i + 1 \in DOMAIN q /\ 1 < i + 1
    BY <1>1
  <2>2. q[i + 1].op \in AfterCall(q[1].op)
    BY <2>1 DEF Ordered
  <2>3. QED  BY <1>1, <2>2
<1>4. QED  BY <1>2, <1>3 DEF Ops

(* Two lists in order make one when the second may follow the first.       *)
LEMMA OrderedConcat ==
    ASSUME NEW T, NEW p \in Seq(T), NEW q \in Seq(T), Ordered(p), Ordered(q),
           \A a \in Ops(p), b \in Ops(q) : b \in AfterCall(a)
    PROVE  Ordered(p \o q)
<1>1. /\ DOMAIN p = 1 .. Len(p) /\ Len(p) \in Nat /\ DOMAIN q = 1 .. Len(q) /\ Len(q) \in Nat
      /\ DOMAIN (p \o q) = 1 .. Len(p) + Len(q)
      /\ \A i \in DOMAIN p : (p \o q)[i] = p[i]
      /\ \A i \in DOMAIN (p \o q) : i \notin DOMAIN p => (p \o q)[i] = q[i - Len(p)] /\ i - Len(p) \in DOMAIN q
  OBVIOUS
<1> SUFFICES ASSUME NEW i \in DOMAIN (p \o q), NEW j \in DOMAIN (p \o q), i < j
             PROVE  (p \o q)[j].op \in AfterCall((p \o q)[i].op)
  BY DEF Ordered
<1>2. CASE j \in DOMAIN p
  <2>1. i \in DOMAIN p
    BY <1>1, <1>2
  <2>2. p[j].op \in AfterCall(p[i].op)
    BY <1>2, <2>1 DEF Ordered
  <2>3. QED  BY <1>1, <1>2, <2>1, <2>2
<1>3. CASE i \in DOMAIN p /\ j \notin DOMAIN p
  <2>1. p[i].op \in Ops(p) /\ q[j - Len(p)].op \in Ops(q)
    BY <1>1, <1>3 DEF Ops
  <2>2. q[j - Len(p)].op \in AfterCall(p[i].op)
    BY <2>1
  <2>3. QED  BY <1>1, <1>3, <2>2
<1>4. CASE i \notin DOMAIN p /\ j \notin DOMAIN p
  <2>1. i - Len(p) \in DOMAIN q /\ j - Len(p) \in DOMAIN q /\ i - Len(p) < j - Len(p)
    BY <1>1, <1>4
  <2>2. q[j - Len(p)].op \in AfterCall(q[i - Len(p)].op)
    BY <2>1 DEF Ordered
  <2>3. QED  BY <1>1, <1>4, <2>2
<1>5. QED  BY <1>2, <1>3, <1>4

(* The lists of references, and of blocks to free.                         *)
LEMMA RefListOps ==
    ASSUME NEW S \in SUBSET Source, NEW places \in Seq(PlaceType(S))
    PROVE  /\ Ops(RefAll(places)) \subseteq {"ref"} /\ Ordered(RefAll(places))
           /\ Ops(UnrefAll(places)) \subseteq {"unref"} /\ Ordered(UnrefAll(places))
<1>1. RefAll(places) \in Seq(RefCalls(S)) /\ UnrefAll(places) \in Seq(UnrefCalls(S))
  BY SourcesOfType
<1>2. \A q \in Seq(RefCalls(S)) : \A i \in DOMAIN q : q[i].op = "ref"
  <2>1. \A q \in Seq(RefCalls(S)) : \A i \in DOMAIN q : q[i] \in RefCalls(S)
    OBVIOUS
  <2>2. QED  BY <2>1 DEF RefCalls
<1>3. \A q \in Seq(UnrefCalls(S)) : \A i \in DOMAIN q : q[i].op = "unref"
  <2>1. \A q \in Seq(UnrefCalls(S)) : \A i \in DOMAIN q : q[i] \in UnrefCalls(S)
    OBVIOUS
  <2>2. QED  BY <2>1 DEF UnrefCalls
<1>4. Ops(RefAll(places)) \subseteq {"ref"} /\ Ops(UnrefAll(places)) \subseteq {"unref"}
  BY <1>1, <1>2, <1>3 DEF Ops
<1>5. "ref" \in AfterCall("ref") /\ "unref" \in AfterCall("unref")
  BY DEF AfterCall
<1>6. QED  BY <1>4, <1>5, OrderedAlike

(* The blocks freed together are freed one call after the other.           *)
LEMMA FreeListOps ==
    ASSUME NEW gone
    PROVE  /\ Ops([i \in DOMAIN gone |-> Dealloc(gone[i])]) \subseteq {"free"}
           /\ Ordered([i \in DOMAIN gone |-> Dealloc(gone[i])])
<1>1. Ops([i \in DOMAIN gone |-> Dealloc(gone[i])]) \subseteq {"free"}
  BY DEF Ops, Dealloc
<1>2. "free" \in AfterCall("free")
  BY DEF AfterCall
<1>3. QED  BY <1>1, <1>2, OrderedAlike

(* What a step does to the lists of calls.                                 *)
Stays(t, label) ==
    /\ todo[t] # <<>> /\ todo'[t] = todo[t] /\ pc'[t] = label /\ label \in LabelsOf(Call(t).op)
Extends(t, may) ==
    /\ Range(Tail(todo[t])) \subseteq Range(todo'[t])
    /\ \A c \in Range(todo'[t]) : c \in Range(Tail(todo[t])) \/ c.op \in may
Ends(t, op, must, may) ==
    /\ todo[t] # <<>> /\ Call(t).op = op /\ pc'[t] = "start" /\ Ordered(todo'[t])
    /\ must \cup Ops(Tail(todo[t])) \subseteq Ops(todo'[t])
    /\ Ops(todo'[t]) \subseteq may \cup Ops(Tail(todo[t])) /\ Extends(t, may)
Opens(t, op, must, may) ==
    /\ Begins(t, op) /\ pc'[t] = "start" /\ Ordered(todo'[t])
    /\ must \subseteq Ops(todo'[t]) /\ Ops(todo'[t]) \subseteq may

(* A step of one thread leaves alone what the others have pending, their
   locals, their storage and their current source: all of it is thread-
   local in stackedmalloc.cpp.                                             *)
LEMMA OthersKeep ==
    ASSUME TypeInv, NEW t \in Thread, Step(t), NEW u \in Thread, u # t
    PROVE  /\ todo'[u] = todo[u] /\ pc'[u] = pc[u] /\ my'[u] = my[u] /\ current'[u] = current[u]
           /\ tls'[u] = tls[u] /\ doing'[u] = doing[u]
<1> USE DEF Goto, Return, Then, Begin, NewChunk
<1>0. Typed(Born, DOMAIN chunk)
  BY DEF TypeInv
<1>1. /\ DOMAIN todo = Thread /\ DOMAIN pc = Thread /\ DOMAIN my = Thread /\ DOMAIN current = Thread
      /\ DOMAIN tls = Thread /\ DOMAIN doing = Thread
  BY <1>0 DEF Typed
<1>2. CASE QuietStep(t) /\ UNCHANGED placeVars
  BY <1>1, <1>2 DEF QuietStep, placeVars, ref, unrefLook, unrefDescribe, unrefDeref, destroyRemove, allocLinked,
     allocLock, arenaAllocEnd, create_new_arena, allocUnlock, freeInArena, freeInArenaEnd, freeUncount,
     migrateLock, migrateLockChunks, migrateArena, migratePages, migrateUnlockChunks, migrateWalk,
     migrateUnlockArena, migrateEnd
<1>3. CASE LoudStep(t) /\ UNCHANGED placeVars
  BY <1>1, <1>3 DEF LoudStep, placeVars, allocMap, allocLink, arenaAlloc, allocCount, freeUnlink,
     freeUnmap, destroyFinish
<1>4. CASE \/ getTls(t) \/ construct(t) \/ init(t) \/ setCurrent(t) \/ lockLocal(t) \/ recheckLocal(t)
           \/ publishLocal(t) \/ unlockLocal(t)
  BY <1>1, <1>4 DEF getTls, construct, init, setCurrent, lockLocal, recheckLocal, publishLocal,
     unlockLocal, placeVars, sourceVarsButCalls
<1>5. CASE \/ push(t) \/ pop(t) \/ pop_all(t) \/ keep(t) \/ unlockTask(t) \/ push_all(t)
           \/ tlsDestructionFunc(t)
  BY <1>1, <1>5 DEF push, pop, pop_all, keep, unlockTask, push_all, tlsDestructionFunc,
     placeVars, sourceVarsButCalls
<1>6. CASE \/ malloc(t) \/ memalign(t) \/ free(t) \/ realloc(t) \/ freeOld(t)
           \/ create(t) \/ copy(t) \/ bind(t) \/ assign(t) \/ move(t) \/ drop(t) \/ migrate(t)
  BY <1>1, <1>6 DEF malloc, memalign, free, realloc, freeOld, create, copy, bind, assign, move,
     drop, migrate, placeVars, sourceVarsButCalls
<1>7. CASE \/ get(t) \/ lockReplica(t) \/ recheckReplica(t) \/ publishReplica(t)
           \/ unlockReplica(t)
  BY <1>1, <1>7 DEF get, lockReplica, recheckReplica, publishReplica, unlockReplica,
     placeVars, sourceVarsButCalls
<1>8. QED  BY <1>2, <1>3, <1>4, <1>5, <1>6, <1>7 DEF Step, PlaceStep, SourceStep, QuietStep, LoudStep

AnyCall == CallType(Source, DOMAIN chunk)

(* A thread's pending calls, the one in hand and the rest.                 *)
LEMMA HeadAndTail ==
    ASSUME TypeInv, OrderInv, NEW t \in Thread, todo[t] # <<>>
    PROVE  /\ todo[t] \in Seq(AnyCall) /\ Tail(todo[t]) \in Seq(AnyCall)
           /\ Ops(todo[t]) = {Call(t).op} \cup Ops(Tail(todo[t]))
           /\ Ordered(todo[t]) /\ Ordered(Tail(todo[t]))
           /\ Ops(Tail(todo[t])) \subseteq AfterCall(Call(t).op)
           /\ Call(t) \in AnyCall
<1>1. Seq(CallType(Born, DOMAIN chunk)) \subseteq Seq(AnyCall) /\ CallType(Born, DOMAIN chunk) \subseteq AnyCall
  BY TypesWider, SeqWider DEF AnyCall, Born
<1>2. todo[t] \in Seq(AnyCall) /\ Tail(todo[t]) \in Seq(AnyCall) /\ Call(t) \in AnyCall
  BY <1>1, CallInHand
<1>3. Ordered(todo[t])
  BY DEF OrderInv
<1>4. QED  BY <1>2, <1>3, OpsHeadTail, OrderedTail DEF Call

(* A call that ends by making others: they come before what was pending.   *)
LEMMA EndsBy ==
    ASSUME TypeInv, OrderInv, NEW t \in Thread, todo[t] # <<>>,
           NEW calls \in Seq(AnyCall), Ordered(calls), Then(t, calls),
           \A a \in Ops(calls) : AfterCall(Call(t).op) \subseteq AfterCall(a)
    PROVE  /\ Ends(t, Call(t).op, Ops(calls), Ops(calls)) /\ todo'[t] = calls \o Tail(todo[t])
           /\ Range(todo'[t]) = Range(calls) \cup Range(Tail(todo[t]))
<1>1. todo'[t] = calls \o Tail(todo[t]) /\ pc'[t] = "start"
  BY DEF Then, TypeInv, Typed
<1>2. /\ Tail(todo[t]) \in Seq(AnyCall) /\ Ordered(Tail(todo[t]))
      /\ Ops(Tail(todo[t])) \subseteq AfterCall(Call(t).op)
  BY HeadAndTail
<1>3. /\ Ops(todo'[t]) = Ops(calls) \cup Ops(Tail(todo[t])) /\ Ordered(todo'[t])
      /\ Range(todo'[t]) = Range(calls) \cup Range(Tail(todo[t]))
  <2>1. \A a \in Ops(calls), b \in Ops(Tail(todo[t])) : b \in AfterCall(a)
    BY <1>2
  <2>2. Ordered(calls \o Tail(todo[t]))
    BY <1>2, <2>1, OrderedConcat, ZenonT(60)
  <2>3. Ops(calls \o Tail(todo[t])) = Ops(calls) \cup Ops(Tail(todo[t]))
    BY <1>2, OpsConcat, ZenonT(60)
  <2>4. Range(calls \o Tail(todo[t])) = Range(calls) \cup Range(Tail(todo[t]))
    BY <1>2, RangeConcat, ZenonT(60)
  <2>5. QED  BY <1>1, <2>2, <2>3, <2>4
<1>4. Extends(t, Ops(calls))
  <2>1. Ops(calls) = {c.op : c \in Range(calls)}
    BY OpsFacts
  <2>2. QED  BY <1>3, <2>1 DEF Extends
<1>5. QED  BY <1>1, <1>3, <1>4 DEF Ends

(* A call that returns: what was pending is left.                          *)
LEMMA EndsPlain ==
    ASSUME TypeInv, OrderInv, NEW t \in Thread, todo[t] # <<>>, Return(t) \/ Then(t, <<>>)
    PROVE  /\ Ends(t, Call(t).op, {}, {}) /\ todo'[t] = Tail(todo[t])
           /\ Ops(todo'[t]) = Ops(Tail(todo[t]))
<1>1. Tail(todo[t]) \in Seq(AnyCall) /\ Ordered(Tail(todo[t]))
  BY HeadAndTail
<1>2. \A q \in Seq(AnyCall) : <<>> \o q = q
  OBVIOUS
<1>3. todo'[t] = Tail(todo[t]) /\ pc'[t] = "start"
  BY <1>1, <1>2 DEF Return, Then, TypeInv, Typed
<1>4. QED  BY <1>1, <1>3 DEF Ends, Extends

(* An operation of the program begins with its list of calls.              *)
LEMMA OpensBy ==
    ASSUME TypeInv, PcInv, NEW t \in Thread, NEW op, Begins(t, op), NEW calls, Begin(t, calls), Ordered(calls)
    PROVE  Opens(t, op, Ops(calls), Ops(calls)) /\ todo'[t] = calls /\ todo[t] = <<>>
<1>1. todo'[t] = calls /\ pc'[t] = pc[t] /\ todo[t] = <<>>
  BY DEF Begin, Begins, TypeInv, Typed
<1>2. pc[t] = "start"
  BY <1>1 DEF PcInv
<1>3. QED  BY <1>1, <1>2 DEF Opens

(* Steps of calls to the sources.                                          *)
SourceOps == {"ref", "unref", "alloc", "free", "migrate"}

(* A step of msource.cpp stays in its call or returns from it; it never
   makes a call of stackedmalloc.cpp.                                      *)
LEMMA SourceStepShape ==
    ASSUME TypeInv, PcInv, OrderInv, NEW t \in Thread, SourceStep(t)
    PROVE  /\ todo[t] # <<>> /\ Call(t).op \in SourceOps
           /\ current' = current
           /\ \/ \E label : Stays(t, label)
              \/ Ends(t, Call(t).op, {}, {}) /\ todo'[t] = Tail(todo[t])
<1>0. DOMAIN todo = Thread /\ DOMAIN pc = Thread
  BY DEF TypeInv, Typed
<1>1. todo[t] # <<>> /\ pc[t] \in LabelsOf(Call(t).op) /\ current' = current
  BY DEF SourceStep, PcInv, At, ref, unrefLook, unrefDescribe, unrefDeref, destroyRemove, destroyFinish,
     allocMap, allocLink, allocLinked, allocLock, arenaAlloc, arenaAllocEnd, create_new_arena, allocUnlock,
     allocCount, freeInArena, freeInArenaEnd, freeUnlink, freeUnmap, freeUncount, migrateLock,
     migrateLockChunks, migrateArena, migratePages, migrateUnlockChunks, migrateWalk, migrateUnlockArena,
     migrateEnd
<1>2. ASSUME NEW label, Goto(t, label), label \in LabelsOf(Call(t).op)
      PROVE  Stays(t, label)
  BY <1>0, <1>1, <1>2 DEF Goto, Stays
<1>3. ASSUME Return(t)
      PROVE  Ends(t, Call(t).op, {}, {}) /\ todo'[t] = Tail(todo[t])
  BY <1>1, <1>3, EndsPlain
<1>4. /\ Call(t).op \in SourceOps
      /\ \/ \E label \in LabelsOf(Call(t).op) : Goto(t, label)
         \/ Return(t)
  <2>1. CASE ref(t) \/ unrefLook(t) \/ unrefDescribe(t) \/ unrefDeref(t)
    BY <2>1 DEF ref, unrefLook, unrefDescribe, unrefDeref, At, LabelsOf, SourceOps
  <2>2. CASE destroyRemove(t) \/ destroyFinish(t)
    BY <1>1, <2>2 DEF destroyRemove, destroyFinish, LabelsOf, SourceOps
  <2>3. CASE allocMap(t) \/ allocLink(t) \/ allocLinked(t) \/ allocLock(t)
    BY <2>3 DEF allocMap, allocLink, allocLinked, allocLock, At, LabelsOf, SourceOps
  <2>4. CASE arenaAlloc(t) \/ arenaAllocEnd(t) \/ create_new_arena(t) \/ allocUnlock(t) \/ allocCount(t)
    BY <2>4 DEF arenaAlloc, arenaAllocEnd, create_new_arena, allocUnlock, allocCount, At, LabelsOf, SourceOps
  <2>5. CASE freeInArena(t) \/ freeInArenaEnd(t) \/ freeUnlink(t) \/ freeUnmap(t) \/ freeUncount(t)
    BY <2>5 DEF freeInArena, freeInArenaEnd, freeUnlink, freeUnmap, freeUncount, At, LabelsOf, SourceOps
  <2>6. CASE migrateLock(t) \/ migrateLockChunks(t) \/ migrateArena(t) \/ migratePages(t)
    BY <2>6 DEF migrateLock, migrateLockChunks, migrateArena, migratePages, At, LabelsOf, SourceOps
  <2>7. CASE migrateUnlockChunks(t) \/ migrateWalk(t) \/ migrateUnlockArena(t) \/ migrateEnd(t)
    BY <2>7 DEF migrateUnlockChunks, migrateWalk, migrateUnlockArena, migrateEnd, At, LabelsOf, SourceOps
  <2>8. QED  BY <2>1, <2>2, <2>3, <2>4, <2>5, <2>6, <2>7 DEF SourceStep
<1>5. QED  BY <1>1, <1>2, <1>3, <1>4

(* The lists of calls the operations begin with, and what their calls add. *)
LEMMA AnyCallsAreTyped ==
    ASSUME TypeInv
    PROVE  /\ \A s \in Source : /\ Ref(s) \in AnyCall /\ FirstRef(s) \in AnyCall
                                /\ Unref(s) \in AnyCall
           /\ \A s \in Source, n \in Nat, use \in {"block", "storage", "places", "replica"} :
                 Alloc(s, n, use) \in AnyCall
           /\ \A s \in Source, n \in Physical : Migrate(s, n) \in AnyCall /\ PublishLocal(s, n) \in AnyCall
           /\ \A s \in Source, h \in Handle : Bind(h, s) \in AnyCall
           /\ \A b \in DOMAIN chunk : FreeOld(b) \in AnyCall /\ Dealloc(b) \in AnyCall
           /\ \A k \in Task, done \in BOOLEAN : Keep(k, done) \in AnyCall /\ Unlock(k) \in AnyCall
           /\ \A n \in Physical : GetReplica(n) \in AnyCall /\ PublishReplica(n) \in AnyCall
           /\ {Construct, InitTls, SetCurrent, UnlockLocal, UnlockReplica} \subseteq AnyCall
           /\ \A places \in Seq(PlaceType(Born)) :
                 RefAll(places) \in Seq(AnyCall) /\ UnrefAll(places) \in Seq(AnyCall)
<1>1. \A b \in DOMAIN chunk : chunk[b].source \in Source
  BY DEF TypeInv, Chunked, Born
<1>2. /\ Born \in SUBSET Source /\ Seq(CallType(Born, DOMAIN chunk)) \subseteq Seq(AnyCall)
  BY TypesWider, SeqWider DEF AnyCall, Born
<1>3. \A places \in Seq(PlaceType(Born)) :
         RefAll(places) \in Seq(AnyCall) /\ UnrefAll(places) \in Seq(AnyCall)
  BY <1>2, RefListsTyped
<1>4. QED  BY <1>1, <1>3, CallsAreTyped DEF AnyCall

(* A concatenation, element by element.                                    *)
LEMMA ConcatFacts ==
    ASSUME NEW T, NEW p \in Seq(T), NEW q \in Seq(T)
    PROVE /\ p \o q \in Seq(T) /\ Len(p \o q) = Len(p) + Len(q)
          /\ \A i \in 1..Len(p) : (p \o q)[i] = p[i]
          /\ \A i \in 1..Len(p)+Len(q) : i > Len(p) => (p \o q)[i] = q[i - Len(p)]
OBVIOUS

(* A pair and one more.                                                    *)
LEMMA PairThenOne == \A a, b, c : <<a, b>> \o <<c>> = <<a, b, c>>
<1> SUFFICES ASSUME NEW a, NEW b, NEW c PROVE <<a, b>> \o <<c>> = <<a, b, c>>
 OBVIOUS
<1> DEFINE T == {a, b, c} p == <<a,b>> q == <<c>> r == <<a, b, c>> l == p \o q
<1>1. p \in Seq(T) /\ q \in Seq(T) /\ r \in Seq(T) /\ Len(p) = 2 /\ Len(q) = 1 /\ Len(r) = 3
 OBVIOUS
<1>2. p[1] = a /\ p[2] = b /\ q[1] = c /\ r[1] = a /\ r[2] = b /\ r[3] = c
 OBVIOUS
<1> HIDE DEF p, q, r, T
<1>3. /\ l \in Seq(T) /\ Len(l) = Len(p) + Len(q)
      /\ \A i \in 1..Len(p) : l[i] = p[i]
      /\ \A i \in 1..Len(p)+Len(q) : i > Len(p) => l[i] = q[i - Len(p)]
 BY ONLY <1>1, ConcatFacts
<1> HIDE DEF l
<1>4. Len(l) = 3 /\ 1 \in 1..Len(p) /\ 2 \in 1..Len(p) /\ 3 \in 1..Len(p)+Len(q) /\ 3 > Len(p) /\ 3 - Len(p) = 1
 BY ONLY <1>1, <1>3
<1>5. l[1] = a /\ l[2] = b /\ l[3] = c
 BY ONLY <1>2, <1>3, <1>4
<1>6. l = r
  <2>1. \A i \in 1..3 : l[i] = r[i]
    BY ONLY <1>2, <1>5
  <2>a. \A x \in Seq(T) : x \in [1..Len(x) -> T]
    OBVIOUS
  <2>2. l \in [1..3 -> T] /\ r \in [1..3 -> T]
    BY ONLY <2>a, <1>1, <1>3, <1>4
  <2>3. QED BY ONLY <2>1, <2>2
<1> QED BY <1>6 DEF p, q, r, l

(* When lists of up to four calls are in order.                            *)
LEMMA OrderedShort ==
    /\ \A a, b : b.op \in AfterCall(a.op) => Ordered(<<a, b>>)
    /\ \A a, b, c : {b.op, c.op} \subseteq AfterCall(a.op) /\ c.op \in AfterCall(b.op) => Ordered(<<a, b, c>>)
    /\ \A a, b, c, d : /\ {b.op, c.op, d.op} \subseteq AfterCall(a.op)
                       /\ {c.op, d.op} \subseteq AfterCall(b.op) /\ d.op \in AfterCall(c.op)
                       => Ordered(<<a, b, c, d>>)
<1>1. \A a, b : DOMAIN <<a, b>> = {1, 2} /\ <<a, b>>[1] = a /\ <<a, b>>[2] = b
  OBVIOUS
<1>2. \A a, b, c : DOMAIN <<a, b, c>> = {1, 2, 3} /\ <<a, b, c>>[1] = a /\ <<a, b, c>>[2] = b /\ <<a, b, c>>[3] = c
  OBVIOUS
<1>3. \A a, b, c, d : /\ DOMAIN <<a, b, c, d>> = {1, 2, 3, 4} /\ <<a, b, c, d>>[1] = a
                      /\ <<a, b, c, d>>[2] = b /\ <<a, b, c, d>>[3] = c /\ <<a, b, c, d>>[4] = d
  OBVIOUS
<1>4. ~(1 < 1) /\ ~(2 < 1) /\ ~(3 < 1) /\ ~(4 < 1) /\ ~(2 < 2) /\ ~(3 < 2) /\ ~(4 < 2) /\ ~(3 < 3) /\ ~(4 < 3) /\ ~(4 < 4)
  OBVIOUS
<1>5. \A a, b : b.op \in AfterCall(a.op) => Ordered(<<a, b>>)
  BY <1>1, <1>4 DEF Ordered
<1>6. \A a, b, c : {b.op, c.op} \subseteq AfterCall(a.op) /\ c.op \in AfterCall(b.op) => Ordered(<<a, b, c>>)
  BY <1>2, <1>4 DEF Ordered
<1>7. \A a, b, c, d : /\ {b.op, c.op, d.op} \subseteq AfterCall(a.op)
                       /\ {c.op, d.op} \subseteq AfterCall(b.op) /\ d.op \in AfterCall(c.op)
                       => Ordered(<<a, b, c, d>>)
  BY <1>3, <1>4 DEF Ordered
<1>8. QED  BY <1>5, <1>6, <1>7

(* The name of each call.                                                  *)
LEMMA CallNames ==
    /\ \A s : Ref(s).op = "ref" /\ FirstRef(s).op = "ref" /\ Unref(s).op = "unref"
    /\ \A s, n, u : Alloc(s, n, u).op = "alloc"
    /\ \A b : Dealloc(b).op = "free" /\ FreeOld(b).op = "free_old"
    /\ \A s, n : Migrate(s, n).op = "migrate" /\ PublishLocal(s, n).op = "publish_local"
    /\ \A h, s : Bind(h, s).op = "bind"
    /\ \A k, d : Keep(k, d).op = "keep" /\ Unlock(k).op = "unlock_task"
    /\ \A n : GetReplica(n).op = "replica" /\ PublishReplica(n).op = "publish_replica"
    /\ Construct.op = "construct" /\ InitTls.op = "init" /\ SetCurrent.op = "curr"
    /\ UnlockLocal.op = "unlock_local" /\ UnlockReplica.op = "unlock_replica"
BY DEF Ref, FirstRef, Unref, Alloc, Dealloc, FreeOld, Migrate, PublishLocal, Bind, Keep, Unlock, GetReplica,
   PublishReplica, Construct, InitTls, SetCurrent, UnlockLocal, UnlockReplica

(* The calls that end without another.                                     *)
LEMMA PlainShapes ==
    ASSUME TypeInv, OrderInv, NEW t \in Thread
    PROVE  /\ publishLocal(t) => Ends(t, "publish_local", {}, {}) /\ todo'[t] = Tail(todo[t])
           /\ unlockLocal(t) => Ends(t, "unlock_local", {}, {}) /\ todo'[t] = Tail(todo[t])
           /\ unlockTask(t) => Ends(t, "unlock_task", {}, {}) /\ todo'[t] = Tail(todo[t])
           /\ bind(t) => Ends(t, "bind", {}, {}) /\ todo'[t] = Tail(todo[t])
           /\ publishReplica(t) => Ends(t, "publish_replica", {}, {}) /\ todo'[t] = Tail(todo[t])
           /\ unlockReplica(t) => Ends(t, "unlock_replica", {}, {}) /\ todo'[t] = Tail(todo[t])
           /\ lockLocal(t) => Stays(t, "recheck") /\ Call(t).op = "curr" /\ pc[t] = "lock"
           /\ lockReplica(t) => Stays(t, "recheck") /\ Call(t).op = "replica"
<1>0. DOMAIN todo = Thread /\ DOMAIN pc = Thread
  BY DEF TypeInv, Typed
<1>1. publishLocal(t) => Ends(t, "publish_local", {}, {}) /\ todo'[t] = Tail(todo[t])
  BY EndsPlain DEF publishLocal, At
<1>2. unlockLocal(t) => Ends(t, "unlock_local", {}, {}) /\ todo'[t] = Tail(todo[t])
  BY EndsPlain DEF unlockLocal, At
<1>3. unlockTask(t) => Ends(t, "unlock_task", {}, {}) /\ todo'[t] = Tail(todo[t])
  BY EndsPlain DEF unlockTask, At
<1>4. bind(t) => Ends(t, "bind", {}, {}) /\ todo'[t] = Tail(todo[t])
  BY EndsPlain DEF bind, At
<1>5. publishReplica(t) => Ends(t, "publish_replica", {}, {}) /\ todo'[t] = Tail(todo[t])
  BY EndsPlain DEF publishReplica, At
<1>6. unlockReplica(t) => Ends(t, "unlock_replica", {}, {}) /\ todo'[t] = Tail(todo[t])
  BY EndsPlain DEF unlockReplica, At
<1>7. lockLocal(t) => Stays(t, "recheck") /\ Call(t).op = "curr" /\ pc[t] = "lock"
  BY <1>0 DEF lockLocal, At, Goto, Stays, LabelsOf
<1>8. lockReplica(t) => Stays(t, "recheck") /\ Call(t).op = "replica"
  BY <1>0 DEF lockReplica, At, Goto, Stays, LabelsOf
<1>9. QED  BY <1>1, <1>2, <1>3, <1>4, <1>5, <1>6, <1>7, <1>8

(* The calls that are followed by others.                                  *)
LEMMA CallShapes ==
    ASSUME TypeInv, OrderInv, NEW t \in Thread
    PROVE  /\ construct(t) => Ends(t, "construct", {"ref"}, {"ref"})
           /\ init(t) => Ends(t, "init", {}, {"ref", "unref"})
           /\ setCurrent(t) => \/ get_curr_msource(t) = None /\ Stays(t, "lock") /\ Call(t).op = "curr"
                               \/ get_curr_msource(t) # None /\ Ends(t, "curr", {}, {"ref", "unref"})
           /\ keep(t) => Ends(t, "keep", {"curr", "unlock_task"},
                              {"ref", "unref", "curr", "free", "unlock_task"})
           /\ freeOld(t) => Ends(t, "free_old", {}, {"free"})
           /\ recheckReplica(t) => Ends(t, "replica", {"unlock_replica"},
                                        {"alloc", "publish_replica", "unlock_replica"})
<1>0. DOMAIN todo = Thread /\ DOMAIN pc = Thread
  BY DEF TypeInv, Typed
<1>1. ASSUME construct(t) PROVE Ends(t, "construct", {"ref"}, {"ref"})
  <2> DEFINE calls == <<Ref(GlobalSource), Ref(GlobalSource)>>
  <2>1. Then(t, calls) /\ todo[t] # <<>> /\ Call(t).op = "construct"
    BY <1>1 DEF construct, At
  <2>2. calls \in Seq(AnyCall)
    BY PlaceAssumption, AnyCallsAreTyped, ShortLists
  <2>3. Ops(calls) = {"ref"} /\ Ordered(calls)
    <3> DEFINE a == Ref(GlobalSource)
    <3>1. a.op = "ref" /\ "ref" \in AfterCall("ref") /\ calls = <<a, a>>
      BY CallNames DEF AfterCall
    <3> HIDE DEF a, calls
    <3>2. Ops(calls) = {a.op, a.op}
      BY ONLY <3>1, OpsFacts
    <3>3. Ordered(calls)
      BY ONLY <3>1, OrderedShort
    <3>4. QED  BY <3>1, <3>2, <3>3
  <2>4. AfterCall("construct") \subseteq AfterCall("ref")
    BY DEF AfterCall
  <2> HIDE DEF calls
  <2>5. QED  BY <2>1, <2>2, <2>3, <2>4, EndsBy
<1>2. ASSUME init(t) PROVE Ends(t, "init", {}, {"ref", "unref"})
  <2> DEFINE calls == <<FirstRef(Fresh), Ref(Fresh), Unref(Fresh)>>
  <2>1. Then(t, calls) /\ todo[t] # <<>> /\ Call(t).op = "init" /\ CreateSource(HomeOf[t])
    BY <1>2 DEF init, At
  <2>2. calls \in Seq(AnyCall)
    <3>1. Fresh \in Source
      BY <2>1 DEF CreateSource, Fresh
    <3>2. QED  BY <3>1, AnyCallsAreTyped, ShortLists
  <2>3. Ops(calls) = {"ref", "unref"} /\ Ordered(calls)
    <3> DEFINE a == FirstRef(Fresh)
               b == Ref(Fresh)
               c == Unref(Fresh)
    <3>1. a.op = "ref" /\ b.op = "ref" /\ c.op = "unref" /\ calls = <<a, b, c>>
      BY CallNames
    <3>2. {"ref", "unref"} \subseteq AfterCall("ref")
      BY DEF AfterCall
    <3> HIDE DEF a, b, c, calls
    <3>3. Ops(calls) = {a.op, b.op, c.op}
      BY ONLY <3>1, OpsFacts
    <3>4. Ordered(calls)
      BY ONLY <3>1, <3>2, OrderedShort
    <3>5. QED  BY <3>1, <3>3, <3>4
  <2>4. AfterCall("init") \subseteq AfterCall("ref") /\ AfterCall("init") \subseteq AfterCall("unref")
    BY DEF AfterCall
  <2> HIDE DEF calls
  <2>5. Ends(t, "init", Ops(calls), Ops(calls))
    BY <2>1, <2>2, <2>3, <2>4, EndsBy
  <2>6. QED  BY <2>3, <2>5 DEF Ends, Extends
<1>3. ASSUME setCurrent(t)
      PROVE  \/ get_curr_msource(t) = None /\ Stays(t, "lock") /\ Call(t).op = "curr"
             \/ get_curr_msource(t) # None /\ Ends(t, "curr", {}, {"ref", "unref"})
  <2> DEFINE new == get_curr_msource(t)
             calls == IF new = current[t] THEN <<>> ELSE <<Ref(new), Unref(current[t])>>
  <2>1. todo[t] # <<>> /\ Call(t).op = "curr"
    BY <1>3 DEF setCurrent, At
  <2>2. CASE new = None
    <3>1. Goto(t, "lock")
      BY <1>3, <2>2 DEF setCurrent
    <3>2. QED  BY <1>0, <2>1, <2>2, <3>1 DEF Goto, Stays, LabelsOf
  <2>3. CASE new # None
    <3>1. Then(t, calls)
      BY <1>3, <2>3 DEF setCurrent
    <3>2. new \in Source /\ current[t] \in Source
      BY <2>3, PlaceSourceTypes DEF TypeInv, Typed, Born
    <3>3. calls \in Seq(AnyCall)
      BY <3>2, AnyCallsAreTyped, ShortLists
    <3>4. Ops(calls) \subseteq {"ref", "unref"} /\ Ordered(calls)
      <4> DEFINE a == Ref(new)
                 b == Unref(current[t])
      <4>1. a.op = "ref" /\ b.op = "unref" /\ (calls = <<>> \/ calls = <<a, b>>)
        BY CallNames
      <4>2. "unref" \in AfterCall("ref")
        BY DEF AfterCall
      <4> HIDE DEF a, b, calls
      <4>3. CASE calls = <<>>
        BY ONLY <4>3, OpsFacts, OrderedOne
      <4>4. CASE calls = <<a, b>>
        <5>1. Ops(calls) = {a.op, b.op}
          BY ONLY <4>4, OpsFacts
        <5>2. Ordered(calls)
          BY ONLY <4>1, <4>2, <4>4, OrderedShort
        <5>3. QED  BY <4>1, <5>1, <5>2
      <4>5. QED  BY <4>1, <4>3, <4>4
    <3>5. AfterCall("curr") \subseteq AfterCall("ref") /\ AfterCall("curr") \subseteq AfterCall("unref")
      BY DEF AfterCall
    <3> HIDE DEF calls
    <3>6. Ends(t, "curr", Ops(calls), Ops(calls))
      BY <2>1, <3>1, <3>3, <3>4, <3>5, EndsBy
    <3>7. QED  BY <2>3, <3>4, <3>6 DEF Ends, Extends
  <2>4. QED  BY <2>2, <2>3
<1>4. ASSUME keep(t)
      PROVE  Ends(t, "keep", {"curr", "unlock_task"}, {"ref", "unref", "curr", "free", "unlock_task"})
  <2> DEFINE k == Call(t).task
             stack == tls[t].stack
             new == IF stack = <<>> THEN <<>> ELSE <<my[t].b>>
             gone == saved[k].block \o (IF Call(t).done THEN new ELSE <<>>)
             refs1 == RefAll(stack)
             drops1 == UnrefAll(stack)
             drops2 == IF Call(t).done THEN UnrefAll(stack) ELSE <<>>
             frees == [i \in DOMAIN gone |-> Dealloc(gone[i])]
             calls == refs1 \o drops1 \o <<SetCurrent>> \o drops2 \o frees \o <<Unlock(k)>>
  <2>1. Then(t, calls) /\ todo[t] # <<>> /\ Call(t).op = "keep" /\ (stack # <<>> => my[t].b # None)
    BY <1>4 DEF keep, At
  <2>2. k \in Task /\ stack \in Seq(PlaceType(Born)) /\ saved[k].block \in Seq(DOMAIN chunk)
    BY <2>1, CallInHand, CallFields, PlaceListTypes
  <2>3. gone \in Seq(DOMAIN chunk)
    <3>1. my[t].b \in DOMAIN chunk \cup {None}
      BY DEF TypeInv, Typed, MyType
    <3>2. new \in Seq(DOMAIN chunk) /\ <<>> \in Seq(DOMAIN chunk)
      BY <2>1, <3>1, ShortLists
    <3> HIDE DEF new, k
    <3>3. QED  BY <2>2, <3>2, ShortLists
  <2> HIDE DEF gone
  <2>4. frees \in Seq(AnyCall)
    <3>1. Len(gone) \in Nat /\ DOMAIN gone = 1 .. Len(gone) /\ \A i \in DOMAIN gone : gone[i] \in DOMAIN chunk
      BY <2>3
    <3>2. \A i \in 1 .. Len(gone) : Dealloc(gone[i]) \in AnyCall
      BY <3>1, AnyCallsAreTyped
    <3>3. \A n \in Nat : \A f \in [1 .. n -> AnyCall] : f \in Seq(AnyCall)
      OBVIOUS
    <3>4. QED  BY <3>1, <3>2, <3>3
  <2>5. Ops(frees) \subseteq {"free"} /\ Ordered(frees)
    BY FreeListOps
  <2> HIDE DEF frees, k, stack
  <2>6. /\ refs1 \in Seq(AnyCall) /\ drops1 \in Seq(AnyCall) /\ drops2 \in Seq(AnyCall)
        /\ <<SetCurrent>> \in Seq(AnyCall) /\ <<Unlock(k)>> \in Seq(AnyCall)
    BY <2>2, AnyCallsAreTyped, ShortLists
  <2>7. /\ Ops(refs1) \subseteq {"ref"} /\ Ops(drops1) \subseteq {"unref"} /\ Ops(drops2) \subseteq {"unref"}
        /\ Ordered(refs1) /\ Ordered(drops1) /\ Ordered(drops2)
    <3>1. Born \in SUBSET Source
      BY DEF Born
    <3>2. QED  BY <2>2, <3>1, RefListOps, OpsFacts, OrderedOne
  <2>8. /\ Ops(<<SetCurrent>>) = {"curr"} /\ Ops(<<Unlock(k)>>) = {"unlock_task"}
        /\ Ordered(<<SetCurrent>>) /\ Ordered(<<Unlock(k)>>)
    <3> DEFINE a == SetCurrent
               b == Unlock(k)
    <3>1. a.op = "curr" /\ b.op = "unlock_task"
      BY ONLY CallNames
    <3> HIDE DEF a, b
    <3>2. Ops(<<a>>) = {"curr"} /\ Ops(<<b>>) = {"unlock_task"} /\ Ordered(<<a>>) /\ Ordered(<<b>>)
      BY ONLY <3>1, OpsFacts, OrderedOne
    <3>3. QED  BY <3>2 DEF a, b
  <2>9. /\ {"unref", "curr", "free", "unlock_task"} \subseteq AfterCall("ref")
        /\ {"unref", "curr", "free", "unlock_task"} \subseteq AfterCall("unref")
        /\ {"unref", "free", "unlock_task"} \subseteq AfterCall("curr")
        /\ "unlock_task" \in AfterCall("free") /\ AfterCall("keep") = {}
    BY DEF AfterCall
  <2> HIDE DEF refs1, drops1, drops2
  <2> DEFINE c1 == <<SetCurrent>>
             c2 == <<Unlock(k)>>
  <2>10. /\ c1 \in Seq(AnyCall) /\ c2 \in Seq(AnyCall) /\ Ops(c1) = {"curr"} /\ Ops(c2) = {"unlock_task"}
         /\ Ordered(c1) /\ Ordered(c2) /\ calls = refs1 \o drops1 \o c1 \o drops2 \o frees \o c2
    BY <2>6, <2>8
  <2> HIDE DEF c1, c2, calls
  <2> DEFINE l1 == refs1 \o drops1
             l2 == l1 \o c1
             l3 == l2 \o drops2
             l4 == l3 \o frees
             l5 == l4 \o c2
  <2>a. l1 \in Seq(AnyCall) /\ Ordered(l1) /\ Ops(l1) \subseteq {"ref", "unref"}
    <3>1. \A a \in Ops(refs1), b \in Ops(drops1) : b \in AfterCall(a)
      BY <2>7, <2>9
    <3>2. Ordered(l1) /\ Ops(l1) = Ops(refs1) \cup Ops(drops1)
      BY ONLY <2>6, <2>7, <3>1, OpsConcat, OrderedConcat
    <3>3. QED  BY <2>6, <2>7, <3>2, ShortLists
  <2>b. l2 \in Seq(AnyCall) /\ Ordered(l2) /\ Ops(l2) \subseteq {"ref", "unref", "curr"} /\ "curr" \in Ops(l2)
    <3> HIDE DEF l1
    <3>1. \A a \in Ops(l1), b \in Ops(c1) : b \in AfterCall(a)
      BY <2>9, <2>10, <2>a
    <3>2. l1 \in Seq(AnyCall) /\ c1 \in Seq(AnyCall) /\ Ordered(l1) /\ Ordered(c1)
      BY <2>a, <2>10
    <3>4. Ordered(l2)
      BY ONLY <3>1, <3>2, OrderedConcat
    <3>5. Ops(l2) = Ops(l1) \cup Ops(c1)
      BY ONLY <3>2, OpsConcat
    <3>3. QED  BY <2>10, <2>a, <3>4, <3>5, ShortLists
  <2>c. l3 \in Seq(AnyCall) /\ Ordered(l3) /\ Ops(l3) \subseteq {"ref", "unref", "curr"} /\ "curr" \in Ops(l3)
    <3> HIDE DEF l2
    <3>1. \A a \in Ops(l2), b \in Ops(drops2) : b \in AfterCall(a)
      BY <2>7, <2>9, <2>b
    <3>2. Ordered(l3) /\ Ops(l3) = Ops(l2) \cup Ops(drops2)
      BY ONLY <2>b, <2>6, <2>7, <3>1, OpsConcat, OrderedConcat
    <3>3. QED  BY <2>6, <2>7, <2>b, <3>2, ShortLists
  <2>d. l4 \in Seq(AnyCall) /\ Ordered(l4) /\ Ops(l4) \subseteq {"ref", "unref", "curr", "free"} /\ "curr" \in Ops(l4)
    <3> HIDE DEF l3
    <3>1. \A a \in Ops(l3), b \in Ops(frees) : b \in AfterCall(a)
      BY <2>5, <2>9, <2>c
    <3>2. Ordered(l4) /\ Ops(l4) = Ops(l3) \cup Ops(frees)
      BY ONLY <2>c, <2>4, <2>5, <3>1, OpsConcat, OrderedConcat
    <3>3. QED  BY <2>4, <2>5, <2>c, <3>2, ShortLists
  <2>e. /\ l5 \in Seq(AnyCall) /\ Ordered(l5) /\ Ops(l5) \subseteq {"ref", "unref", "curr", "free", "unlock_task"}
        /\ "curr" \in Ops(l5) /\ "unlock_task" \in Ops(l5)
    <3> HIDE DEF l4
    <3>1. \A a \in Ops(l4), b \in Ops(c2) : b \in AfterCall(a)
      BY <2>9, <2>10, <2>d
    <3>2. l4 \in Seq(AnyCall) /\ c2 \in Seq(AnyCall) /\ Ordered(l4) /\ Ordered(c2)
      BY <2>d, <2>10
    <3>4. Ordered(l5)
      BY ONLY <3>1, <3>2, OrderedConcat
    <3>5. Ops(l5) = Ops(l4) \cup Ops(c2)
      BY ONLY <3>2, OpsConcat
    <3>3. QED  BY <2>10, <2>d, <3>4, <3>5, ShortLists
  <2>11. calls = l5
    BY <2>10
  <2> HIDE DEF l5
  <2>12. Ends(t, "keep", Ops(calls), Ops(calls))
    BY <2>1, <2>9, <2>e, <2>11, EndsBy
  <2>13. QED  BY <2>e, <2>11, <2>12 DEF Ends, Extends
<1>5. ASSUME freeOld(t) PROVE Ends(t, "free_old", {}, {"free"})
  <2> DEFINE calls == IF my[t].b # None THEN <<Dealloc(Call(t).b)>> ELSE <<>>
  <2>1. Then(t, calls) /\ todo[t] # <<>> /\ Call(t).op = "free_old"
    BY <1>5 DEF freeOld, At
  <2>2. Call(t).b \in DOMAIN chunk
    BY <2>1, CallInHand, CallFields
  <2>3. calls \in Seq(AnyCall) /\ Ops(calls) \subseteq {"free"} /\ Ordered(calls)
    <3> DEFINE a == Dealloc(Call(t).b)
    <3>1. a.op = "free" /\ a \in AnyCall /\ (calls = <<>> \/ calls = <<a>>)
      BY <2>2, AnyCallsAreTyped, CallNames
    <3> HIDE DEF a, calls
    <3>2. CASE calls = <<>>
      BY ONLY <3>2, OpsFacts, OrderedOne, ShortLists
    <3>3. CASE calls = <<a>>
      BY ONLY <3>1, <3>3, OpsFacts, OrderedOne, ShortLists
    <3>4. QED  BY <3>1, <3>2, <3>3
  <2>4. AfterCall("free_old") = {}
    BY DEF AfterCall
  <2> HIDE DEF calls
  <2>5. Ends(t, "free_old", Ops(calls), Ops(calls))
    BY <2>1, <2>3, <2>4, EndsBy
  <2>6. QED  BY <2>3, <2>5 DEF Ends, Extends
<1>6. ASSUME recheckReplica(t)
      PROVE  Ends(t, "replica", {"unlock_replica"}, {"alloc", "publish_replica", "unlock_replica"})
  <2> DEFINE n == Call(t).node
             alloc == Alloc(NodeSource[n], ReplicaSize, "replica")
             short == <<UnlockReplica>>
             long == <<alloc, PublishReplica(n), UnlockReplica>>
  <2>1. /\ todo[t] # <<>> /\ Call(t).op = "replica"
        /\ Then(t, (IF replica[n] # None THEN <<>> ELSE <<alloc, PublishReplica(n)>>) \o short)
    BY <1>6 DEF recheckReplica, At
  <2>2. n \in Physical /\ alloc \in AnyCall
    <3>1. n \in Physical
      BY <2>1, CallInHand, CallFields
    <3>2. QED  BY <3>1, PlaceAssumption, AnyCallsAreTyped
  <2>3. Then(t, short) \/ Then(t, long)
    <3> DEFINE b == PublishReplica(n)
               c == UnlockReplica
    <3> HIDE DEF alloc, b, c
    <3>2. <<>> \o <<c>> = <<c>> /\ <<alloc, b>> \o <<c>> = <<alloc, b, c>>
      <4>1. <<c>> \in Seq(AnyCall) /\ <<alloc, b>> \in Seq(AnyCall)
        BY <2>2, AnyCallsAreTyped, ShortLists DEF b, c
      <4>2. \A q \in Seq(AnyCall) : <<>> \o q = q
        OBVIOUS
      <4>3. <<alloc, b>> \o <<c>> = <<alloc, b, c>>
        BY ONLY PairThenOne
      <4>4. QED  BY <4>1, <4>2, <4>3
    <3>3. Then(t, (IF replica[n] # None THEN <<>> ELSE <<alloc, b>>) \o <<c>>)
      BY <2>1 DEF b, c
    <3>4. Then(t, <<c>>) \/ Then(t, <<alloc, b, c>>)
      BY <3>2, <3>3
    <3>5. QED  BY <3>4 DEF b, c
  <2>4. PICK calls \in {short, long} : Then(t, calls)
    BY <2>3
  <2>5. /\ calls \in Seq(AnyCall) /\ "unlock_replica" \in Ops(calls)
        /\ Ops(calls) \subseteq {"alloc", "publish_replica", "unlock_replica"} /\ Ordered(calls)
    <3>1. short \in Seq(AnyCall) /\ long \in Seq(AnyCall)
      BY <2>2, AnyCallsAreTyped, ShortLists
    <3> DEFINE b == PublishReplica(n)
               c == UnlockReplica
    <3>2. alloc.op = "alloc" /\ b.op = "publish_replica" /\ c.op = "unlock_replica"
      BY DEF Alloc, PublishReplica, UnlockReplica
    <3>0. short = <<c>> /\ long = <<alloc, b, c>>
      OBVIOUS
    <3>a. /\ {"publish_replica", "unlock_replica"} \subseteq AfterCall("alloc")
          /\ "unlock_replica" \in AfterCall("publish_replica")
      BY DEF AfterCall
    <3> HIDE DEF alloc, b, c, short, long
    <3>b. Ops(short) = {c.op} /\ Ops(long) = {alloc.op, b.op, c.op}
      BY ONLY <3>0, OpsFacts
    <3>3. /\ Ops(short) = {"unlock_replica"} /\ Ops(long) = {"alloc", "publish_replica", "unlock_replica"}
          /\ Ordered(short)
      BY <3>0, <3>2, <3>b, OrderedOne
    <3>4. Ordered(long)
      BY ONLY <3>0, <3>2, <3>a, OrderedShort
    <3> HIDE DEF short, long
    <3>5. QED  BY <2>4, <3>1, <3>3, <3>4
  <2>6. AfterCall("replica") = {}
    BY DEF AfterCall
  <2>7. Ends(t, "replica", Ops(calls), Ops(calls))
    BY <2>1, <2>4, <2>5, <2>6, EndsBy
  <2>8. QED  BY <2>5, <2>7 DEF Ends, Extends
<1>7. QED  BY <1>1, <1>2, <1>3, <1>4, <1>5, <1>6

(* One list of calls after the other.                                      *)
LEMMA Joined ==
    ASSUME NEW p \in Seq(AnyCall), NEW q \in Seq(AnyCall), Ordered(p), Ordered(q),
           \A a \in Ops(p), b \in Ops(q) : b \in AfterCall(a)
    PROVE  p \o q \in Seq(AnyCall) /\ Ordered(p \o q) /\ Ops(p \o q) = Ops(p) \cup Ops(q)
<1>1. Ordered(p \o q)
  BY OrderedConcat
<1>2. Ops(p \o q) = Ops(p) \cup Ops(q)
  BY OpsConcat
<1>3. p \o q \in Seq(AnyCall)
  BY ShortLists
<1>4. QED  BY <1>1, <1>2, <1>3

(* A list of one call.                                                     *)
LEMMA Single ==
    ASSUME NEW c \in AnyCall
    PROVE  <<c>> \in Seq(AnyCall) /\ Ordered(<<c>>) /\ Ops(<<c>>) = {c.op}
<1>1. Ordered(<<c>>)
  BY ONLY OrderedOne
<1>2. Ops(<<c>>) = {c.op}
  BY ONLY OpsFacts
<1>3. QED  BY <1>1, <1>2, ShortLists

(* A list of two calls.                                                    *)
LEMMA Double ==
    ASSUME NEW c \in AnyCall, NEW d \in AnyCall, d.op \in AfterCall(c.op)
    PROVE  <<c, d>> \in Seq(AnyCall) /\ Ordered(<<c, d>>) /\ Ops(<<c, d>>) = {c.op, d.op}
<1>1. Ordered(<<c, d>>)
  BY OrderedShort
<1>2. Ops(<<c, d>>) = {c.op, d.op}
  BY ONLY OpsFacts
<1>3. QED  BY <1>1, <1>2, ShortLists

(* The list of no calls.                                                   *)
LEMMA Empty ==
    <<>> \in Seq(AnyCall) /\ Ordered(<<>>) /\ Ops(<<>>) = {}
BY OrderedOne, OpsFacts, ShortLists

(* An operation begins with calls between a least and a greatest set.      *)
LEMMA OpensWith ==
    ASSUME TypeInv, PcInv, NEW t \in Thread, NEW op, Begins(t, op), NEW calls, Begin(t, calls),
           Ordered(calls), NEW must, NEW may, must \subseteq Ops(calls), Ops(calls) \subseteq may
    PROVE  Opens(t, op, must, may)
<1>1. Opens(t, op, Ops(calls), Ops(calls))
  BY OpensBy
<1>2. QED  BY <1>1 DEF Opens

(* The lists of references of a place stack, among other calls.            *)
LEMMA RefLists ==
    ASSUME TypeInv, NEW places \in Seq(PlaceType(Born))
    PROVE  /\ RefAll(places) \in Seq(AnyCall) /\ UnrefAll(places) \in Seq(AnyCall)
           /\ Ops(RefAll(places)) \subseteq {"ref"} /\ Ordered(RefAll(places))
           /\ Ops(UnrefAll(places)) \subseteq {"unref"} /\ Ordered(UnrefAll(places))
<1>1. Born \in SUBSET Source
  BY DEF Born
<1>2. QED  BY <1>1, RefListOps, AnyCallsAreTyped

(* The place that is pushed.                                               *)
LEMMA PushedPlace ==
    ASSUME TypeInv, NEW t \in Thread, push(t)
    PROVE  PlaceOf(Op(t).place) \in PlaceType(Born) /\ <<PlaceOf(Op(t).place)>> \in Seq(PlaceType(Born))
<1>1. /\ Op(t) \in Operation /\ Op(t).op = "push"
      /\ Op(t).place.h # None => hold[Op(t).place.h] # None
      /\ hold \in [Handle -> Born \cup {None}]
  BY BeginTypes DEF push, Ready, TypeInv, Typed
<1>2. CASE Op(t).place.h = None
  <2>1. Op(t).place.node \in Physical
    BY <1>1, <1>2, OperationFields, PlaceAssumption
  <2>2. PlaceOf(Op(t).place) \in PlaceType(Born)
    BY <1>2, <2>1 DEF PlaceOf, PlaceType
  <2>3. QED  BY <2>2, ShortLists
<1>3. CASE Op(t).place.h # None
  <2>1. hold[Op(t).place.h] \in Born
    BY <1>1, <1>3, OperationFields
  <2>2. PlaceOf(Op(t).place) \in PlaceType(Born)
    BY <1>3, <2>1 DEF PlaceOf, PlaceType
  <2>3. QED  BY <2>2, ShortLists
<1>4. QED  BY <1>2, <1>3

(* What each operation on the stack of places leaves pending.              *)
LEMMA StackShapes ==
    ASSUME TypeInv, PcInv, TlsInv, NEW t \in Thread
    PROVE  /\ push(t) => Opens(t, "push", {"curr"}, {"ref", "curr"})
           /\ pop(t) => Opens(t, "pop", {"curr"}, {"ref", "unref", "curr"})
           /\ push_all(t) => Opens(t, "restore", {"curr"}, {"ref", "unref", "curr"})
           /\ pop_all(t) => Opens(t, "save", {"keep"}, {"alloc", "keep"})
           /\ tlsDestructionFunc(t) => Opens(t, "exit", {}, {"unref", "free"})
<1>0. Typed(Born, DOMAIN chunk)
  BY DEF TypeInv
<1>a. /\ "curr" \in AfterCall("ref") /\ "unref" \in AfterCall("ref") /\ "curr" \in AfterCall("unref")
      /\ "unref" \in AfterCall("unref") /\ "unref" \in AfterCall("curr")
      /\ "keep" \in AfterCall("alloc") /\ "free" \in AfterCall("unref")
  BY DEF AfterCall
<1>b. /\ <<SetCurrent>> \in Seq(AnyCall) /\ Ordered(<<SetCurrent>>) /\ Ops(<<SetCurrent>>) = {"curr"}
  BY AnyCallsAreTyped, Single, CallNames
<1>c. tls[t].stack \in Seq(PlaceType(Born))
  BY PlaceListTypes
<1>1. ASSUME push(t) PROVE Opens(t, "push", {"curr"}, {"ref", "curr"})
  <2> DEFINE p == PlaceOf(Op(t).place)
             refs1 == RefAll(<<p>>)
             last == <<SetCurrent>>
  <2>1. Begins(t, "push") /\ Begin(t, refs1 \o last)
    BY <1>1 DEF push
  <2>3. <<p>> \in Seq(PlaceType(Born))
    BY <1>1, PushedPlace
  <2>4. refs1 \in Seq(AnyCall) /\ Ordered(refs1) /\ Ops(refs1) \subseteq {"ref"}
    BY <2>3, RefLists
  <2> HIDE DEF p, refs1, last
  <2>5. last \in Seq(AnyCall) /\ Ordered(last) /\ Ops(last) = {"curr"}
    BY <1>b DEF last
  <2>6. Ordered(refs1 \o last) /\ Ops(refs1 \o last) = Ops(refs1) \cup Ops(last)
    BY <1>a, <2>4, <2>5, Joined
  <2>7. QED  BY <2>1, <2>4, <2>5, <2>6, OpensWith
<1>2. ASSUME pop(t) PROVE Opens(t, "pop", {"curr"}, {"ref", "unref", "curr"})
  <2> DEFINE p == <<Last(tls[t].stack)>>
             refs1 == RefAll(p)
             drops == UnrefAll(p)
             last == <<SetCurrent>>
             l1 == refs1 \o drops
             l2 == l1 \o last
             l3 == l2 \o drops
  <2>1. Begins(t, "pop") /\ Begin(t, l3) /\ tls[t].stack # <<>>
    BY <1>2 DEF pop
  <2>2. p \in Seq(PlaceType(Born))
    BY <2>1, PlaceListTypes
  <2> HIDE DEF p
  <2>3. /\ refs1 \in Seq(AnyCall) /\ Ordered(refs1) /\ Ops(refs1) \subseteq {"ref"}
        /\ drops \in Seq(AnyCall) /\ Ordered(drops) /\ Ops(drops) \subseteq {"unref"}
    BY <2>2, RefLists
  <2>4. last \in Seq(AnyCall) /\ Ordered(last) /\ Ops(last) = {"curr"}
    BY <1>b DEF last
  <2> HIDE DEF refs1, drops, last
  <2>5. l1 \in Seq(AnyCall) /\ Ordered(l1) /\ Ops(l1) = Ops(refs1) \cup Ops(drops)
    BY <1>a, <2>3, Joined
  <2> HIDE DEF l1
  <2>6. l2 \in Seq(AnyCall) /\ Ordered(l2) /\ Ops(l2) = Ops(l1) \cup Ops(last)
    BY <1>a, <2>3, <2>4, <2>5, Joined
  <2> HIDE DEF l2
  <2>7. l3 \in Seq(AnyCall) /\ Ordered(l3) /\ Ops(l3) = Ops(l2) \cup Ops(drops)
    <3>1. \A a \in Ops(l2), b \in Ops(drops) : b \in AfterCall(a)
      BY <1>a, <2>3, <2>4, <2>5, <2>6
    <3>2. QED  BY <2>3, <2>6, <3>1, Joined
  <2>8. QED  BY <2>1, <2>3, <2>4, <2>5, <2>6, <2>7, OpensWith
<1>3. ASSUME push_all(t) PROVE Opens(t, "restore", {"curr"}, {"ref", "unref", "curr"})
  <2> DEFINE places == saved[Op(t).task].stack
             refs1 == RefAll(places)
             drops == UnrefAll(places)
             last == <<SetCurrent>>
             l1 == refs1 \o last
             l2 == l1 \o drops
  <2>1. Begins(t, "restore") /\ Begin(t, l2)
    BY <1>3 DEF push_all
  <2>2. places \in Seq(PlaceType(Born))
    <3>1. Op(t) \in Operation /\ Op(t).op = "restore"
      BY <2>1, BeginTypes
    <3>2. Op(t).task \in Task
      BY <3>1, OperationFields
    <3>3. QED  BY <3>2, PlaceListTypes
  <2> HIDE DEF places
  <2>3. /\ refs1 \in Seq(AnyCall) /\ Ordered(refs1) /\ Ops(refs1) \subseteq {"ref"}
        /\ drops \in Seq(AnyCall) /\ Ordered(drops) /\ Ops(drops) \subseteq {"unref"}
    BY <2>2, RefLists
  <2>4. last \in Seq(AnyCall) /\ Ordered(last) /\ Ops(last) = {"curr"}
    BY <1>b DEF last
  <2> HIDE DEF refs1, drops, last
  <2>5. l1 \in Seq(AnyCall) /\ Ordered(l1) /\ Ops(l1) = Ops(refs1) \cup Ops(last)
    BY <1>a, <2>3, <2>4, Joined
  <2> HIDE DEF l1
  <2>6. l2 \in Seq(AnyCall) /\ Ordered(l2) /\ Ops(l2) = Ops(l1) \cup Ops(drops)
    BY <1>a, <2>3, <2>4, <2>5, Joined
  <2>8. QED  BY <2>1, <2>3, <2>4, <2>5, <2>6, OpensWith
<1>4. ASSUME pop_all(t) PROVE Opens(t, "save", {"keep"}, {"alloc", "keep"})
  <2> DEFINE c == Alloc(current[t], StackSize, "places")
             d == Keep(Op(t).task, Op(t).done)
             first == IF tls[t].stack = <<>> THEN <<>> ELSE <<c>>
             last == <<d>>
  <2>1. Begins(t, "save") /\ Begin(t, first \o last)
    BY <1>4 DEF pop_all
  <2>2. c \in AnyCall /\ d \in AnyCall
    <3>1. Op(t) \in Operation /\ Op(t).op = "save"
      BY <2>1, BeginTypes
    <3>2. Op(t).task \in Task /\ Op(t).done \in BOOLEAN
      BY <3>1, OperationFields
    <3>3. current[t] \in Source /\ StackSize \in Nat
      BY <1>0, PlaceAssumption DEF Typed, Born
    <3>4. QED  BY <3>2, <3>3, AnyCallsAreTyped
  <2>3. c.op = "alloc" /\ d.op = "keep"
    BY ONLY CallNames DEF Alloc, Keep
  <2> HIDE DEF c, d
  <2>4. first \in Seq(AnyCall) /\ Ordered(first) /\ Ops(first) \subseteq {"alloc"}
    BY <2>2, <2>3, Single, Empty
  <2>5. last \in Seq(AnyCall) /\ Ordered(last) /\ Ops(last) = {"keep"}
    BY <2>2, <2>3, Single
  <2> HIDE DEF first, last
  <2>6. Ordered(first \o last) /\ Ops(first \o last) = Ops(first) \cup Ops(last)
    BY <1>a, <2>4, <2>5, Joined
  <2>7. QED  BY <2>1, <2>4, <2>5, <2>6, OpensWith
<1>5. ASSUME tlsDestructionFunc(t) PROVE Opens(t, "exit", {}, {"unref", "free"})
  <2> DEFINE c == Unref(current[t])
             drops == UnrefAll(tls[t].stack)
             d1 == Unref(GlobalSource)
             d2 == Unref(tls[t].own)
             d3 == Dealloc(tls[t].block)
             last == <<d1, d2, d3>>
             l1 == <<c>> \o drops
             l2 == l1 \o last
             calls == IF tls[t].state = "none" THEN <<>> ELSE l2
  <2>1. Begins(t, "exit") /\ Begin(t, calls)
    BY <1>5 DEF tlsDestructionFunc
  <2>2. CASE tls[t].state = "none"
    BY <2>1, <2>2, Empty, OpensWith
  <2>3. CASE tls[t].state # "none"
    <3>1. c \in AnyCall /\ d1 \in AnyCall /\ d2 \in AnyCall /\ d3 \in AnyCall
      <4>1. /\ todo[t] = <<>> /\ tls[t].state \in {"none", "constructed", "done"}
            /\ tls[t].own \in Born \cup {None} /\ tls[t].block \in DOMAIN chunk \cup {None}
        BY <1>0, <2>1, TlsFields DEF Typed, Begins
      <4>2. ~Has(t, "init")
        BY <4>1, OpsFacts DEF Has
      <4>3. tls[t].own # None /\ tls[t].block # None
        BY <2>3, <4>1, <4>2 DEF TlsInv, TlsOf
      <4>4. current[t] \in Source /\ tls[t].own \in Source /\ tls[t].block \in DOMAIN chunk
        BY <1>0, <4>1, <4>3 DEF Typed, Born
      <4>5. QED  BY <4>4, PlaceAssumption, AnyCallsAreTyped
    <3>2. c.op = "unref" /\ d1.op = "unref" /\ d2.op = "unref" /\ d3.op = "free"
      BY CallNames
    <3>3. drops \in Seq(AnyCall) /\ Ordered(drops) /\ Ops(drops) \subseteq {"unref"}
      BY <1>c, RefLists
    <3> HIDE DEF c, d1, d2, d3, drops
    <3>4. <<c>> \in Seq(AnyCall) /\ Ordered(<<c>>) /\ Ops(<<c>>) = {"unref"}
      BY <3>1, <3>2, Single
    <3>5. last \in Seq(AnyCall) /\ Ordered(last) /\ Ops(last) = {"unref", "free"}
      <4>1. last \in Seq(AnyCall)
        BY <3>1, ShortLists
      <4>2. Ordered(last)
        BY <1>a, <3>2, OrderedShort
      <4>3. Ops(last) = {d1.op, d2.op, d3.op}
        BY ONLY OpsFacts
      <4>4. QED  BY <3>2, <4>1, <4>2, <4>3
    <3>6. l1 \in Seq(AnyCall) /\ Ordered(l1) /\ Ops(l1) = Ops(<<c>>) \cup Ops(drops)
      BY <1>a, <3>3, <3>4, Joined, ZenonT(60)
    <3> HIDE DEF last, l1
    <3>7. Ordered(l2) /\ Ops(l2) = Ops(l1) \cup Ops(last)
      BY <1>a, <3>3, <3>4, <3>5, <3>6, Joined, ZenonT(60)
    <3>8. Begin(t, l2)
      BY <2>1, <2>3
    <3>9. QED  BY <2>1, <3>3, <3>4, <3>5, <3>6, <3>7, <3>8, OpensWith
  <2>4. QED  BY <2>2, <2>3
<1>6. QED  BY <1>1, <1>2, <1>3, <1>4, <1>5

(* What malloc, memalign, free and realloc leave pending.                  *)
LEMMA MallocShapes ==
    ASSUME TypeInv, PcInv, NEW t \in Thread
    PROVE  /\ malloc(t) => Opens(t, "malloc", {}, {"alloc"})
           /\ memalign(t) => Opens(t, "memalign", {}, {"alloc"})
           /\ free(t) => Opens(t, "free", {}, {"free"})
           /\ realloc(t) => Opens(t, "realloc", {}, {"alloc", "free_old"})
<1>a. current[t] \in Source /\ FooterSize \in Nat
  BY CountAssumption DEF TypeInv, Typed, Born
<1>b. \A n \in Nat : /\ <<Alloc(current[t], n, "block")>> \in Seq(AnyCall)
                     /\ Ordered(<<Alloc(current[t], n, "block")>>)
                     /\ Ops(<<Alloc(current[t], n, "block")>>) = {"alloc"}
  <2> SUFFICES ASSUME NEW n \in Nat
               PROVE  LET c == Alloc(current[t], n, "block")
                      IN  <<c>> \in Seq(AnyCall) /\ Ordered(<<c>>) /\ Ops(<<c>>) = {"alloc"}
    OBVIOUS
  <2> DEFINE c == Alloc(current[t], n, "block")
  <2>1. c \in AnyCall
    BY <1>a, AnyCallsAreTyped
  <2>2. c.op = "alloc"
    BY ONLY DEF Alloc
  <2> HIDE DEF c
  <2>3. <<c>> \in Seq(AnyCall) /\ Ordered(<<c>>) /\ Ops(<<c>>) = {"alloc"}
    BY <2>1, <2>2, Single
  <2>4. QED  BY <2>3 DEF c
<1>1. ASSUME malloc(t) PROVE Opens(t, "malloc", {}, {"alloc"})
  <2>1. Begins(t, "malloc") /\ Begin(t, <<Alloc(current[t], Op(t).bytes, "block")>>)
    BY <1>1 DEF malloc
  <2>2. Op(t).bytes \in Nat
    <3>1. Op(t) \in Operation /\ Op(t).op = "malloc"
      BY <2>1, BeginTypes
    <3>2. QED  BY <3>1, OperationFields
  <2> DEFINE calls == <<Alloc(current[t], Op(t).bytes, "block")>>
  <2>3. Ordered(calls) /\ Ops(calls) = {"alloc"}
    BY <1>b, <2>2
  <2> HIDE DEF calls
  <2>4. QED  BY <2>1, <2>3, OpensWith DEF calls
<1>2. ASSUME memalign(t) PROVE Opens(t, "memalign", {}, {"alloc"})
  <2> DEFINE n == alloc_align(Op(t).bytes, Op(t).align)
             calls == <<Alloc(current[t], n, "block")>>
  <2>1. Begins(t, "memalign") /\ Begin(t, calls)
    BY <1>2 DEF memalign
  <2>2. n \in Nat
    <3>1. Op(t) \in Operation /\ Op(t).op = "memalign"
      BY <2>1, BeginTypes
    <3>2. QED  BY <1>a, <3>1, OperationFields DEF alloc_align
  <2> HIDE DEF n
  <2>3. Ordered(calls) /\ Ops(calls) = {"alloc"}
    BY <1>b, <2>2
  <2> HIDE DEF calls
  <2>4. QED  BY <2>1, <2>3, OpensWith
<1>3. ASSUME free(t) PROVE Opens(t, "free", {}, {"free"})
  <2>1. Begins(t, "free")
    BY <1>3 DEF free
  <2>2. CASE Begin(t, <<>>)
    BY <2>1, <2>2, Empty, OpensWith
  <2>3. CASE \E b \in Blocks : Begin(t, <<Dealloc(b)>>)
    <3>1. PICK b \in Blocks : Begin(t, <<Dealloc(b)>>)
      BY <2>3
    <3> DEFINE c == Dealloc(b)
               calls == <<c>>
    <3>2. c \in AnyCall /\ c.op = "free"
      BY AnyCallsAreTyped, CallNames DEF Blocks
    <3> HIDE DEF c
    <3>3. Ordered(calls) /\ Ops(calls) = {"free"}
      BY <3>2, Single
    <3> HIDE DEF calls
    <3>4. QED  BY <2>1, <3>1, <3>3, OpensWith DEF calls, c
  <2>4. QED  BY <1>3, <2>2, <2>3 DEF free
<1>4. ASSUME realloc(t) PROVE Opens(t, "realloc", {}, {"alloc", "free_old"})
  <2> DEFINE c == Alloc(current[t], Op(t).bytes, "block")
  <2>1. Begins(t, "realloc")
    BY <1>4 DEF realloc
  <2>2. c \in AnyCall /\ c.op = "alloc"
    <3>1. Op(t) \in Operation /\ Op(t).op = "realloc"
      <4>1. \E calls : Begin(t, calls)
        BY <1>4 DEF realloc
      <4>2. QED  BY <2>1, <4>1, BeginTypes
    <3>2. Op(t).bytes \in Nat
      BY <3>1, OperationFields
    <3>3. c \in AnyCall
      BY <1>a, <3>2, AnyCallsAreTyped
    <3>4. QED  BY <3>3 DEF Alloc
  <2>3. CASE Begin(t, <<>>)
    BY <2>1, <2>3, Empty, OpensWith
  <2>4. CASE Begin(t, <<c>>)
    <3> DEFINE calls == <<c>>
    <3> HIDE DEF c
    <3>1. Ordered(calls) /\ Ops(calls) = {"alloc"}
      BY <2>2, Single
    <3> HIDE DEF calls
    <3>2. QED  BY <2>1, <2>4, <3>1, OpensWith DEF calls
  <2>5. CASE \E b \in Blocks : Begin(t, <<c, FreeOld(b)>>)
    <3>1. PICK b \in Blocks : Begin(t, <<c, FreeOld(b)>>)
      BY <2>5
    <3> DEFINE d == FreeOld(b)
               calls == <<c, d>>
    <3>2. d \in AnyCall /\ d.op = "free_old" /\ "free_old" \in AfterCall("alloc")
      BY AnyCallsAreTyped, CallNames DEF Blocks, AfterCall
    <3> HIDE DEF c, d
    <3>3. Ordered(calls) /\ Ops(calls) = {"alloc", "free_old"}
      BY <2>2, <3>2, Double
    <3> HIDE DEF calls
    <3>4. QED  BY <2>1, <3>1, <3>3, OpensWith DEF calls, d
  <2>6. Begin(t, <<>>) \/ Begin(t, <<c>>) \/ \E b \in Blocks : Begin(t, <<c, FreeOld(b)>>)
    BY <1>4 DEF realloc
  <2>7. QED  BY <2>3, <2>4, <2>5, <2>6
<1>5. QED  BY <1>1, <1>2, <1>3, <1>4

(* What each operation on a handle or a replica leaves pending.            *)
LEMMA HandleShapes ==
    ASSUME TypeInv, PcInv, NEW t \in Thread
    PROVE  /\ create(t) => Opens(t, "create", {"bind"}, {"ref", "bind"})
           /\ copy(t) => Opens(t, "copy", {"bind"}, {"ref", "bind"})
           /\ assign(t) => Opens(t, "assign", {}, {"ref", "unref"})
           /\ move(t) => Opens(t, "move", {}, {"unref"})
           /\ drop(t) => Opens(t, "drop", {}, {"unref"})
           /\ migrate(t) => Opens(t, "migrate", {}, {"migrate"})
           /\ get(t) => Opens(t, "get", {}, {"replica"})
<1>a. \A h \in Handle : hold[h] # None => hold[h] \in Source
  BY DEF TypeInv, Typed, Born
<1>b. "bind" \in AfterCall("ref") /\ "unref" \in AfterCall("ref")
  BY DEF AfterCall
<1>1. ASSUME create(t) PROVE Opens(t, "create", {"bind"}, {"ref", "bind"})
  <2> DEFINE c == FirstRef(Fresh)
             d == Bind(Op(t).h, Fresh)
             calls == <<c, d>>
  <2>1. Begins(t, "create") /\ Begin(t, calls) /\ Fresh \in Source
    BY <1>1 DEF create, CreateSource, Fresh
  <2>2. Op(t).h \in Handle
    <3>1. Op(t) \in Operation /\ Op(t).op = "create"
      BY <2>1, BeginTypes
    <3>2. QED  BY <3>1, OperationFields
  <2>3. c \in AnyCall /\ d \in AnyCall
    BY <2>1, <2>2, AnyCallsAreTyped
  <2>4. c.op = "ref" /\ d.op = "bind"
    BY ONLY CallNames
  <2> HIDE DEF c, d
  <2>5. Ordered(calls) /\ Ops(calls) = {"ref", "bind"}
    BY <1>b, <2>3, <2>4, Double
  <2> HIDE DEF calls
  <2>6. QED  BY <2>1, <2>5, OpensWith
<1>2. ASSUME copy(t) PROVE Opens(t, "copy", {"bind"}, {"ref", "bind"})
  <2> DEFINE s == hold[Op(t).from]
             c == Ref(s)
             d == Bind(Op(t).h, s)
             calls == <<c, d>>
  <2>1. Begins(t, "copy") /\ Begin(t, calls) /\ hold[Op(t).from] # None
    BY <1>2 DEF copy, Ready
  <2>2. Op(t).h \in Handle /\ Op(t).from \in Handle
    <3>1. Op(t) \in Operation /\ Op(t).op = "copy"
      BY <2>1, BeginTypes
    <3>2. QED  BY <3>1, OperationFields
  <2>a. s \in Source
    BY <1>a, <2>1, <2>2
  <2>3. c \in AnyCall /\ d \in AnyCall
    BY <2>a, <2>2, AnyCallsAreTyped
  <2>4. c.op = "ref" /\ d.op = "bind"
    BY ONLY CallNames
  <2> HIDE DEF c, d
  <2>5. Ordered(calls) /\ Ops(calls) = {"ref", "bind"}
    BY <1>b, <2>3, <2>4, Double
  <2> HIDE DEF calls
  <2>6. QED  BY <2>1, <2>5, OpensWith
<1>3. ASSUME assign(t) PROVE Opens(t, "assign", {}, {"ref", "unref"})
  <2> DEFINE new == hold[Op(t).from]
             old == hold[Op(t).h]
             c == Ref(new)
             d == Unref(old)
             rest == IF old = None THEN <<>> ELSE <<d>>
             calls == <<c>> \o rest
  <2>1. Begins(t, "assign") /\ (Begin(t, <<>>) \/ Begin(t, calls)) /\ hold[Op(t).from] # None
    BY <1>3 DEF assign, Ready
  <2>2. Op(t).h \in Handle /\ Op(t).from \in Handle
    <3>1. Op(t) \in Operation /\ Op(t).op = "assign"
      BY <2>1, BeginTypes
    <3>2. QED  BY <3>1, OperationFields
  <2>3. c \in AnyCall /\ (old # None => d \in AnyCall)
    BY <1>a, <2>1, <2>2, AnyCallsAreTyped
  <2>4. c.op = "ref" /\ d.op = "unref"
    BY ONLY CallNames
  <2> HIDE DEF c, d
  <2>5. <<c>> \in Seq(AnyCall) /\ Ordered(<<c>>) /\ Ops(<<c>>) = {"ref"}
    BY <2>3, <2>4, Single
  <2>6. rest \in Seq(AnyCall) /\ Ordered(rest) /\ Ops(rest) \subseteq {"unref"}
    BY <2>3, <2>4, Single, Empty
  <2> HIDE DEF rest
  <2>7. Ordered(calls) /\ Ops(calls) = Ops(<<c>>) \cup Ops(rest)
    BY <1>b, <2>5, <2>6, Joined
  <2> HIDE DEF calls
  <2>8. CASE Begin(t, <<>>)
    BY <2>1, <2>8, Empty, OpensWith
  <2>9. CASE Begin(t, calls)
    BY <2>1, <2>5, <2>6, <2>7, <2>9, OpensWith
  <2>10. QED  BY <2>1, <2>8, <2>9
<1>c. ASSUME NEW h \in Handle, hold[h] # None
      PROVE  Ordered(<<Unref(hold[h])>>) /\ Ops(<<Unref(hold[h])>>) = {"unref"}
  <2> DEFINE c == Unref(hold[h])
  <2>1. c \in AnyCall /\ c.op = "unref"
    BY <1>a, <1>c, AnyCallsAreTyped, CallNames
  <2> HIDE DEF c
  <2>2. Ordered(<<c>>) /\ Ops(<<c>>) = {"unref"}
    BY <2>1, Single
  <2>3. QED  BY <2>2 DEF c
<1>4. ASSUME move(t) PROVE Opens(t, "move", {}, {"unref"})
  <2> DEFINE h == Op(t).h
             calls == <<Unref(hold[h])>>
  <2>1. Begins(t, "move") /\ Begin(t, IF hold[h] = None THEN <<>> ELSE calls)
    BY <1>4 DEF move
  <2>2. h \in Handle
    <3>1. Op(t) \in Operation /\ Op(t).op = "move"
      BY <2>1, BeginTypes
    <3>2. QED  BY <3>1, OperationFields
  <2>3. CASE hold[h] = None
    BY <2>1, <2>3, Empty, OpensWith
  <2>4. CASE hold[h] # None
    <3>1. Ordered(calls) /\ Ops(calls) = {"unref"}
      BY <1>c, <2>2, <2>4
    <3> HIDE DEF calls
    <3>2. QED  BY <2>1, <2>4, <3>1, OpensWith
  <2>5. QED  BY <2>3, <2>4
<1>5. ASSUME drop(t) PROVE Opens(t, "drop", {}, {"unref"})
  <2> DEFINE h == Op(t).h
             calls == <<Unref(hold[h])>>
  <2>1. Begins(t, "drop") /\ Begin(t, calls) /\ hold[h] # None
    BY <1>5 DEF drop, Ready
  <2>2. h \in Handle
    <3>1. Op(t) \in Operation /\ Op(t).op = "drop"
      BY <2>1, BeginTypes
    <3>2. QED  BY <3>1, OperationFields
  <2>3. Ordered(calls) /\ Ops(calls) = {"unref"}
    BY <1>c, <2>1, <2>2
  <2> HIDE DEF calls
  <2>4. QED  BY <2>1, <2>3, OpensWith
<1>6. ASSUME migrate(t) PROVE Opens(t, "migrate", {}, {"migrate"})
  <2> DEFINE c == Migrate(hold[Op(t).h], Op(t).node)
             calls == <<c>>
  <2>1. Begins(t, "migrate") /\ Begin(t, calls) /\ hold[Op(t).h] # None
    BY <1>6 DEF migrate, Ready
  <2>2. Op(t).h \in Handle /\ Op(t).node \in Physical
    <3>1. Op(t) \in Operation /\ Op(t).op = "migrate"
      BY <2>1, BeginTypes
    <3>2. QED  BY <3>1, OperationFields
  <2>3. c \in AnyCall /\ c.op = "migrate"
    BY <1>a, <2>1, <2>2, AnyCallsAreTyped, CallNames
  <2> HIDE DEF c
  <2>4. Ordered(calls) /\ Ops(calls) = {"migrate"}
    BY <2>3, Single
  <2> HIDE DEF calls
  <2>5. QED  BY <2>1, <2>4, OpensWith
<1>7. ASSUME get(t) PROVE Opens(t, "get", {}, {"replica"})
  <2> DEFINE c == GetReplica(Op(t).node)
             calls == <<c>>
  <2>1. Begins(t, "get") /\ (Begin(t, <<>>) \/ Begin(t, calls))
    BY <1>7 DEF get
  <2>2. Op(t).node \in Physical
    <3>1. Op(t) \in Operation /\ Op(t).op = "get"
      BY <2>1, BeginTypes
    <3>2. QED  BY <3>1, OperationFields
  <2>3. c \in AnyCall /\ c.op = "replica"
    BY <2>2, AnyCallsAreTyped, CallNames
  <2> HIDE DEF c
  <2>4. Ordered(calls) /\ Ops(calls) = {"replica"}
    BY <2>3, Single
  <2> HIDE DEF calls
  <2>5. CASE Begin(t, <<>>)
    BY <2>1, <2>5, Empty, OpensWith
  <2>6. CASE Begin(t, calls)
    BY <2>1, <2>4, <2>6, OpensWith
  <2>7. QED  BY <2>1, <2>5, <2>6
<1>8. QED  BY <1>1, <1>2, <1>3, <1>4, <1>5, <1>6, <1>7

(* The two steps that open otherwise: the storage of a thread, and the     *)
(* source a node creates for another while a thread looks for its current  *)
(* one.                                                                    *)
LEMMA GetTlsShape ==
    ASSUME TypeInv, PcInv, NEW t \in Thread, getTls(t)
    PROVE  /\ todo[t] = <<>> /\ pc'[t] = "start" /\ Ordered(todo'[t]) /\ tls[t].state = "none"
           /\ todo'[t] = <<Alloc(GlobalSource, TlsSize, "storage"), Construct, InitTls, SetCurrent>>
           /\ Ops(todo'[t]) = {"alloc", "construct", "init", "curr"}
<1> DEFINE a == Alloc(GlobalSource, TlsSize, "storage")
           b == Construct
           c == InitTls
           d == SetCurrent
           calls == <<a, b, c, d>>
<1>1. todo[t] = <<>> /\ todo'[t] = calls /\ pc'[t] = pc[t] /\ tls[t].state = "none"
  BY DEF getTls, TypeInv, Typed
<1>2. pc[t] = "start"
  BY <1>1 DEF PcInv
<1>3. a.op = "alloc" /\ b.op = "construct" /\ c.op = "init" /\ d.op = "curr"
  BY ONLY CallNames
<1>4. /\ {"construct", "init", "curr"} \subseteq AfterCall("alloc")
      /\ {"init", "curr"} \subseteq AfterCall("construct") /\ "curr" \in AfterCall("init")
  BY DEF AfterCall
<1>5. calls = <<Alloc(GlobalSource, TlsSize, "storage"), Construct, InitTls, SetCurrent>>
  OBVIOUS
<1> HIDE DEF a, b, c, d
<1>6. Ordered(calls)
  BY <1>3, <1>4, OrderedShort
<1>7. Ops(calls) = {a.op, b.op, c.op, d.op}
  BY ONLY OpsFacts
<1> HIDE DEF calls
<1>8. QED  BY <1>1, <1>2, <1>3, <1>5, <1>6, <1>7

(* What the second look under the node's lock leaves pending: nothing but
   the unlock if the source is there by now, else the creation.            *)
LEMMA RecheckShape ==
    ASSUME TypeInv, PcInv, OrderInv, TlsInv, NEW t \in Thread, recheckLocal(t)
    PROVE  LET n == Last(tls[t].stack).node
               ready == msources[HomeOf[t]][n] # None
               calls == IF ready THEN <<UnlockLocal>>
                        ELSE <<FirstRef(Fresh), PublishLocal(Fresh, n), UnlockLocal>>
           IN  /\ todo[t] # <<>> /\ Call(t).op = "curr" /\ pc[t] = "recheck" /\ pc'[t] = "start"
               /\ Ordered(todo'[t]) /\ todo'[t] = calls \o todo[t]
               /\ Range(todo'[t]) = Range(calls) \cup Range(todo[t])
               /\ Ops(todo'[t]) = Ops(todo[t]) \cup
                      (IF ready THEN {"unlock_local"} ELSE {"ref", "publish_local", "unlock_local"})
               /\ calls \in Seq(AnyCall)
<1> DEFINE n == Last(tls[t].stack).node
           ready == msources[HomeOf[t]][n] # None
           a == FirstRef(Fresh)
           b == PublishLocal(Fresh, n)
           c == UnlockLocal
           calls == IF ready THEN <<c>> ELSE <<a, b, c>>
<1>1. /\ todo[t] # <<>> /\ Call(t).op = "curr" /\ pc[t] = "recheck" /\ pc'[t] = "start"
      /\ todo'[t] = calls \o todo[t] /\ (~ready => Fresh \in Source)
  BY DEF recheckLocal, At, TypeInv, Typed, CreateSource, Fresh
<1>2. /\ todo[t] \in Seq(AnyCall) /\ Ordered(todo[t])
      /\ Ops(todo[t]) \subseteq {"curr"} \cup AfterCall("curr")
  BY <1>1, HeadAndTail
<1>3. n \in Physical
  <2>1. /\ Last(tls[t].stack).msource = None /\ tls[t].stack # <<>>
    BY <1>1 DEF TlsInv, TlsOf, At
  <2>2. QED  BY <2>1, PlaceSourceTypes
<1>4. a.op = "ref" /\ b.op = "publish_local" /\ c.op = "unlock_local"
  BY ONLY CallNames
<1>5. c \in AnyCall /\ (~ready => a \in AnyCall /\ b \in AnyCall)
  BY <1>1, <1>3, AnyCallsAreTyped
<1>6. /\ {"curr"} \cup AfterCall("curr") \subseteq AfterCall("ref")
      /\ {"curr"} \cup AfterCall("curr") \subseteq AfterCall("publish_local")
      /\ {"curr"} \cup AfterCall("curr") \subseteq AfterCall("unlock_local")
      /\ {"publish_local", "unlock_local"} \subseteq AfterCall("ref")
      /\ "unlock_local" \in AfterCall("publish_local")
  BY DEF AfterCall
<1>7. calls = IF ready THEN <<UnlockLocal>>
              ELSE <<FirstRef(Fresh), PublishLocal(Fresh, n), UnlockLocal>>
  OBVIOUS
<1> HIDE DEF a, b, c, ready
<1>8. /\ calls \in Seq(AnyCall) /\ Ordered(calls)
      /\ Ops(calls) = IF ready THEN {"unlock_local"} ELSE {"ref", "publish_local", "unlock_local"}
  <2>1. CASE ready
    BY <1>4, <1>5, <2>1, Single
  <2>2. CASE ~ready
    <3>1. <<a, b, c>> \in Seq(AnyCall)
      BY <1>5, <2>2, ShortLists
    <3>2. Ordered(<<a, b, c>>)
      BY <1>4, <1>6, OrderedShort
    <3>3. Ops(<<a, b, c>>) = {a.op, b.op, c.op}
      BY ONLY OpsFacts
    <3>4. QED  BY <1>4, <2>2, <3>1, <3>2, <3>3
  <2>3. QED  BY <2>1, <2>2
<1> HIDE DEF calls
<1>9. Ordered(calls \o todo[t]) /\ Ops(calls \o todo[t]) = Ops(calls) \cup Ops(todo[t])
  <2>1. \A x \in Ops(calls), y \in Ops(todo[t]) : y \in AfterCall(x)
    BY <1>2, <1>6, <1>8
  <2>2. QED  BY <1>2, <1>8, <2>1, Joined
<1>10. Range(calls \o todo[t]) = Range(calls) \cup Range(todo[t])
  BY <1>2, <1>8, RangeConcat
<1>11. QED  BY <1>1, <1>7, <1>8, <1>9, <1>10 DEF ready

(* Operations that work on handles or on memory only.                      *)
PlainOpens(t) ==
    \/ malloc(t) \/ memalign(t) \/ free(t) \/ realloc(t) \/ create(t) \/ copy(t) \/ assign(t)
    \/ move(t) \/ drop(t) \/ migrate(t) \/ get(t)

(* Calls that neither look at the place stack nor change it.               *)
PlainEnds(t) ==
    \/ publishLocal(t) \/ unlockLocal(t) \/ unlockTask(t) \/ freeOld(t) \/ bind(t)
    \/ recheckReplica(t) \/ publishReplica(t) \/ unlockReplica(t)

StorageOps == {"construct", "init", "curr", "keep"}

(* The operations that leave the thread's storage alone leave no call on it
   pending.                                                                *)
LEMMA PlainOpensShape ==
    ASSUME TypeInv, PcInv, NEW t \in Thread, PlainOpens(t)
    PROVE  /\ \E op : Opens(t, op, {}, {"alloc", "free", "free_old", "ref", "bind", "unref", "migrate",
                                        "replica"})
           /\ tls' = tls /\ current' = current
<1>1. \E op : Opens(t, op, {}, {"alloc", "free", "free_old", "ref", "bind", "unref", "migrate", "replica"})
  BY MallocShapes, HandleShapes DEF PlainOpens, Opens
<1>2. tls' = tls /\ current' = current
  BY DEF PlainOpens, malloc, memalign, free, realloc, create, copy, assign, move, drop, migrate, get,
     sourceVarsButCalls
<1>3. QED  BY <1>1, <1>2

(* The calls that leave the thread's storage alone leave no call on it
   pending.                                                                *)
LEMMA PlainEndsShape ==
    ASSUME TypeInv, OrderInv, NEW t \in Thread, PlainEnds(t)
    PROVE  /\ \E op : /\ Ends(t, op, {}, {"free", "alloc", "publish_replica", "unlock_replica"})
                      /\ op \notin StorageOps
           /\ tls' = tls /\ current' = current
<1> DEFINE wide == {"free", "alloc", "publish_replica", "unlock_replica"}
<1>a. \E op, must, may : Ends(t, op, must, may) /\ may \subseteq wide /\ op \notin StorageOps
  <2>1. CASE publishLocal(t) \/ unlockLocal(t) \/ unlockTask(t) \/ bind(t) \/ publishReplica(t) \/ unlockReplica(t)
    BY <2>1, PlainShapes DEF StorageOps
  <2>2. CASE freeOld(t)
    <3>1. Ends(t, "free_old", {}, {"free"})
      BY <2>2, CallShapes
    <3>2. QED  BY <3>1 DEF StorageOps
  <2>3. CASE recheckReplica(t)
    <3>1. Ends(t, "replica", {"unlock_replica"}, {"alloc", "publish_replica", "unlock_replica"})
      BY <2>3, CallShapes
    <3>2. QED  BY <3>1 DEF StorageOps
  <2>4. QED  BY <2>1, <2>2, <2>3 DEF PlainEnds
<1>1. \E op : Ends(t, op, {}, wide) /\ op \notin StorageOps
  <2>1. PICK op, must, may : Ends(t, op, must, may) /\ may \subseteq wide /\ op \notin StorageOps
    BY <1>a
  <2> HIDE DEF wide
  <2>2. Ends(t, op, {}, wide)
    BY <2>1 DEF Ends, Extends
  <2>3. QED  BY <2>1, <2>2
<1>2. tls' = tls /\ current' = current
  BY DEF PlainEnds, publishLocal, unlockLocal, unlockTask, freeOld, bind, recheckReplica, publishReplica,
     unlockReplica, placeVars, sourceVarsButCalls
<1>3. QED  BY <1>1, <1>2

(* The steps, by what they mean for the lists of calls.                    *)
LEMMA StepCases ==
    ASSUME NEW t \in Thread, Step(t)
    PROVE  \/ SourceStep(t) /\ UNCHANGED placeVars
           \/ PlainOpens(t) \/ PlainEnds(t)
           \/ getTls(t) \/ construct(t) \/ init(t) \/ setCurrent(t) \/ lockLocal(t) \/ recheckLocal(t)
           \/ push(t) \/ pop(t) \/ pop_all(t) \/ keep(t) \/ push_all(t) \/ tlsDestructionFunc(t)
           \/ lockReplica(t)
BY DEF Step, PlaceStep, PlainOpens, PlainEnds

(* After any step the thread is still in its call, or at the start of a
   list in order.                                                          *)
LEMMA CallsAfterStep ==
    ASSUME TypeInv, PcInv, OrderInv, TlsInv, NEW t \in Thread, Step(t)
    PROVE  (\E label : Stays(t, label)) \/ (pc'[t] = "start" /\ Ordered(todo'[t]))
<1>1. CASE SourceStep(t)
  BY <1>1, SourceStepShape DEF Ends
<1>2. CASE PlainOpens(t)
  BY <1>2, PlainOpensShape DEF Opens
<1>3. CASE PlainEnds(t)
  BY <1>3, PlainEndsShape DEF Ends
<1>4. CASE getTls(t)
  BY <1>4, GetTlsShape
<1>5. CASE construct(t) \/ init(t) \/ setCurrent(t) \/ keep(t)
  BY <1>5, CallShapes DEF Ends
<1>6. CASE lockLocal(t) \/ lockReplica(t)
  BY <1>6, PlainShapes
<1>7. CASE recheckLocal(t)
  BY <1>7, RecheckShape
<1>8. CASE push(t) \/ pop(t) \/ pop_all(t) \/ push_all(t) \/ tlsDestructionFunc(t)
  BY <1>8, StackShapes DEF Opens
<1>9. QED  BY <1>1, <1>2, <1>3, <1>4, <1>5, <1>6, <1>7, <1>8, StepCases

(* Every step keeps the order of the pending calls and the place in the
   call.                                                                   *)
LEMMA StepKeepsOrder ==
    ASSUME TypeInv, PcInv, OrderInv, TlsInv, NEW t \in Thread, Step(t)
    PROVE  PcInv' /\ OrderInv'
<1>1. \A op : "start" \in LabelsOf(op)
  BY DEF LabelsOf
<1>2. \A u \in Thread \ {t} : todo'[u] = todo[u] /\ pc'[u] = pc[u]
  BY OthersKeep
<1>3. (\E label : Stays(t, label)) \/ (pc'[t] = "start" /\ Ordered(todo'[t]))
  BY CallsAfterStep
<1>4. ASSUME NEW u \in Thread
      PROVE  /\ pc'[u] \in IF todo'[u] = <<>> THEN {"start"} ELSE LabelsOf(Head(todo'[u]).op)
             /\ Ordered(todo'[u])
  <2>1. CASE u # t
    BY <1>2, <2>1 DEF PcInv, OrderInv, Call
  <2>2. CASE u = t
    <3>1. CASE \E label : Stays(t, label)
      BY <2>2, <3>1 DEF Stays, OrderInv, Call
    <3>2. CASE pc'[t] = "start" /\ Ordered(todo'[t])
      BY <1>1, <2>2, <3>2
    <3>3. QED  BY <1>3, <3>1, <3>2
  <2>3. QED  BY <2>1, <2>2
<1>5. PcInv'
  BY <1>4 DEF PcInv, Call
<1>6. OrderInv'
  BY <1>4 DEF OrderInv
<1>7. QED  BY <1>5, <1>6

(* The storage of a thread.                                                *)
LEMMA TlsKept ==
    ASSUME NEW t \in Thread, TlsOf(t), tls'[t] = tls[t], current'[t] = current[t],
           \A op \in StorageOps : Has(t, op)' <=> Has(t, op),
           todo'[t] # <<>> /\ Head(todo'[t]).op = "curr" => pc'[t] = "start"
    PROVE  TlsOf(t)'
BY DEF TlsOf, StorageOps, At, Call

(* Every step keeps the stages of a thread's storage in order: constructed,
   then initialised, then used (Tls in stackedmalloc.cpp).                 *)
LEMMA StepKeepsTls ==
    ASSUME TypeInv, PcInv, OrderInv, TlsInv, NEW t \in Thread, Step(t)
    PROVE  TlsInv'
<1>0. /\ TlsOf(t) /\ tls \in [Thread -> TlsType(Born, DOMAIN chunk)] /\ DOMAIN current = Thread
      /\ None \notin Source /\ tls[t].stack \in Seq(PlaceType(Born))
      /\ tls[t].state \in {"none", "constructed", "done"} /\ my[t].b \in DOMAIN chunk \cup {None}
  <2>1. my[t] \in MyType(DOMAIN chunk)
    BY DEF TypeInv, Typed
  <2>2. QED  BY <2>1, CountAssumption, TlsFields, PlaceListTypes DEF TypeInv, Typed, TlsInv, MyType
<1>a. todo[t] = <<>> => \A op : ~Has(t, op)
  BY OpsFacts DEF Has
<1>b. todo[t] # <<>> => /\ Ops(todo[t]) = {Call(t).op} \cup Ops(Tail(todo[t]))
                        /\ Ops(Tail(todo[t])) \subseteq AfterCall(Call(t).op)
  BY HeadAndTail
<1>1. ASSUME NEW u \in Thread, u # t PROVE TlsOf(u)'
  <2>1. /\ todo'[u] = todo[u] /\ pc'[u] = pc[u] /\ current'[u] = current[u] /\ tls'[u] = tls[u]
    BY <1>1, OthersKeep
  <2>2. TlsOf(u)
    BY DEF TlsInv
  <2>3. QED  BY <2>1, <2>2 DEF TlsOf, Has, At, Call
<1> SUFFICES TlsOf(t)'
  BY <1>1 DEF TlsInv
<1>2. CASE SourceStep(t) /\ UNCHANGED placeVars
  <2>1. /\ todo[t] # <<>> /\ Call(t).op \in SourceOps /\ tls' = tls /\ current' = current
        /\ (\E label : Stays(t, label)) \/ (Ends(t, Call(t).op, {}, {}) /\ todo'[t] = Tail(todo[t]))
    BY <1>2, SourceStepShape DEF placeVars
  <2>2. SourceOps \cap StorageOps = {}
    BY DEF SourceOps, StorageOps
  <2>3. CASE \E label : Stays(t, label)
    <3>1. todo'[t] = todo[t]
      BY <2>3 DEF Stays
    <3>2. Head(todo'[t]).op # "curr"
      BY <2>1, <2>2, <3>1 DEF Call, StorageOps
    <3>3. QED  BY <1>0, <2>1, <3>1, <3>2, TlsKept DEF Has
  <2>4. CASE Ends(t, Call(t).op, {}, {}) /\ todo'[t] = Tail(todo[t])
    <3>1. pc'[t] = "start" /\ Ops(todo'[t]) = Ops(Tail(todo[t]))
      BY <2>4 DEF Ends
    <3>2. \A op \in StorageOps : Has(t, op)' <=> Has(t, op)
      BY <1>b, <2>1, <2>2, <3>1 DEF Has
    <3>3. QED  BY <1>0, <2>1, <3>1, <3>2, TlsKept
  <2>5. QED  BY <2>1, <2>3, <2>4
<1>3. CASE PlainOpens(t)
  <2>1. PICK op : Opens(t, op, {}, {"alloc", "free", "free_old", "ref", "bind", "unref", "migrate", "replica"})
    BY <1>3, PlainOpensShape
  <2>2. /\ todo[t] = <<>> /\ pc'[t] = "start"
        /\ Ops(todo'[t]) \subseteq {"alloc", "free", "free_old", "ref", "bind", "unref", "migrate", "replica"}
    BY <2>1 DEF Opens, Begins
  <2>3. tls' = tls /\ current' = current
    BY <1>3, PlainOpensShape
  <2>4. \A x \in StorageOps : Has(t, x)' <=> Has(t, x)
    BY <1>a, <2>2 DEF Has, StorageOps
  <2>5. QED  BY <1>0, <2>2, <2>3, <2>4, TlsKept
<1>4. CASE PlainEnds(t)
  <2>1. PICK op : /\ Ends(t, op, {}, {"free", "alloc", "publish_replica", "unlock_replica"})
                  /\ op \notin StorageOps
    BY <1>4, PlainEndsShape
  <2>2. /\ todo[t] # <<>> /\ Call(t).op = op /\ pc'[t] = "start"
        /\ Ops(Tail(todo[t])) \subseteq Ops(todo'[t])
        /\ Ops(todo'[t]) \subseteq {"free", "alloc", "publish_replica", "unlock_replica"} \cup Ops(Tail(todo[t]))
    BY <2>1 DEF Ends
  <2>3. tls' = tls /\ current' = current
    BY <1>4, PlainEndsShape
  <2>4. \A x \in StorageOps : Has(t, x)' <=> Has(t, x)
    BY <1>b, <2>1, <2>2 DEF Has, StorageOps
  <2>5. QED  BY <1>0, <2>2, <2>3, <2>4, TlsKept
<1>5. CASE getTls(t)
  <2>1. /\ todo[t] = <<>> /\ pc'[t] = "start" /\ tls[t].state = "none"
        /\ Ops(todo'[t]) = {"alloc", "construct", "init", "curr"} /\ tls' = tls /\ current' = current
    BY <1>5, GetTlsShape DEF getTls
  <2>2. QED  BY <1>0, <1>a, <2>1 DEF TlsOf, Has, At
<1>6. CASE construct(t)
  <2>1. /\ Ends(t, "construct", {"ref"}, {"ref"}) /\ my[t].b # None /\ current' = current
        /\ tls' = [tls EXCEPT ![t].state = "constructed", ![t].block = my[t].b]
    BY <1>6, CallShapes DEF construct
  <2>2. /\ todo[t] # <<>> /\ Call(t).op = "construct" /\ pc'[t] = "start"
        /\ Ops(todo'[t]) = {"ref"} \cup Ops(Tail(todo[t]))
    BY <2>1 DEF Ends
  <2>3. tls[t] = NoStorage /\ Has(t, "init") /\ Has(t, "curr")
    BY <1>0, <1>b, <2>2 DEF TlsOf, Has
  <2>4. /\ tls'[t].state = "constructed" /\ tls'[t].block = my[t].b /\ tls'[t].own = None
        /\ tls'[t].stack = <<>>
    BY <1>0, <2>1, <2>3 DEF NoStorage
  <2>5. /\ ~Has(t, "construct")' /\ Has(t, "init")' /\ Has(t, "curr")' /\ ~Has(t, "keep")'
    BY <1>b, <2>2, <2>3 DEF Has, AfterCall
  <2>6. QED  BY <2>1, <2>2, <2>4, <2>5 DEF TlsOf, At
<1>7. CASE init(t)
  <2>1. /\ Ends(t, "init", {}, {"ref", "unref"}) /\ current' = current
        /\ tls' = [tls EXCEPT ![t].state = "done", ![t].own = Fresh] /\ Fresh \in Source
    BY <1>7, CallShapes DEF init, CreateSource, Fresh
  <2>2. /\ todo[t] # <<>> /\ Call(t).op = "init" /\ pc'[t] = "start"
        /\ Ops(Tail(todo[t])) \subseteq Ops(todo'[t])
        /\ Ops(todo'[t]) \subseteq {"ref", "unref"} \cup Ops(Tail(todo[t]))
    BY <2>1 DEF Ends
  <2>3. /\ ~Has(t, "construct")' /\ ~Has(t, "init")' /\ ~Has(t, "keep")'
        /\ ~Has(t, "construct")
    BY <1>b, <2>2 DEF Has, AfterCall
  <2>4. tls[t].state = "constructed" /\ tls[t].block # None
    BY <1>0, <1>b, <2>2, <2>3 DEF TlsOf, Has
  <2>5. tls'[t].state = "done" /\ tls'[t].own # None /\ tls'[t].block # None
    BY <1>0, <2>1, <2>4
  <2>6. QED  BY <2>2, <2>3, <2>5 DEF TlsOf, At
<1>8. CASE setCurrent(t)
  <2>1. /\ todo[t] # <<>> /\ Call(t).op = "curr" /\ pc[t] = "start" /\ tls' = tls
    BY <1>8 DEF setCurrent, At, placeVars
  <2>2. ~Has(t, "construct") /\ ~Has(t, "init") /\ ~Has(t, "keep") /\ Has(t, "curr")
    BY <1>b, <2>1 DEF Has, AfterCall
  <2>3. tls[t].state = "done" /\ tls[t].own # None /\ tls[t].block # None
    BY <1>0, <2>2 DEF TlsOf
  <2>4. CASE get_curr_msource(t) = None /\ Stays(t, "lock")
    <3>1. todo'[t] = todo[t] /\ current' = current
      BY <1>8, <2>4 DEF Stays, setCurrent
    <3>2. /\ tls[t].stack # <<>> /\ Last(tls[t].stack).msource = None
          /\ Last(tls[t].stack).node # HomeOf[t]
      BY <2>3, <2>4 DEF get_curr_msource, get_place_msource
    <3>3. QED  BY <2>1, <2>2, <2>3, <3>1, <3>2 DEF TlsOf, Has
  <2>5. CASE Ends(t, "curr", {}, {"ref", "unref"})
    <3>1. pc'[t] = "start" /\ Ops(todo'[t]) \subseteq {"ref", "unref"} \cup Ops(Tail(todo[t]))
      BY <2>5 DEF Ends
    <3>2. ~Has(t, "construct")' /\ ~Has(t, "init")' /\ ~Has(t, "keep")' /\ ~Has(t, "curr")'
      BY <1>b, <2>1, <3>1 DEF Has, AfterCall
    <3>3. QED  BY <2>1, <2>3, <3>1, <3>2 DEF TlsOf, At
  <2>6. QED  BY <1>8, <2>4, <2>5, CallShapes
<1>9. CASE lockLocal(t)
  <2>1. /\ Stays(t, "recheck") /\ Call(t).op = "curr" /\ pc[t] = "lock" /\ tls' = tls /\ current' = current
    BY <1>9, PlainShapes DEF lockLocal, sourceVarsButCalls
  <2>2. todo'[t] = todo[t] /\ todo[t] # <<>>
    BY <2>1 DEF Stays
  <2>3. QED  BY <1>0, <2>1, <2>2 DEF TlsOf, Has, At, Call
<1>10. CASE recheckLocal(t)
  <2>1. /\ pc'[t] = "start" /\ tls' = tls /\ current' = current
        /\ Ops(todo[t]) \subseteq Ops(todo'[t])
        /\ Ops(todo'[t]) \subseteq Ops(todo[t]) \cup {"ref", "publish_local", "unlock_local"}
    BY <1>10, RecheckShape, ZenonT(60) DEF recheckLocal, placeVars
  <2>2. \A x \in StorageOps : Has(t, x)' <=> Has(t, x)
    BY <2>1 DEF Has, StorageOps
  <2>3. QED  BY <1>0, <2>1, <2>2, TlsKept
<1>11. CASE push(t) \/ pop(t) \/ push_all(t)
  <2>1. /\ \E op : Opens(t, op, {"curr"}, {"ref", "unref", "curr"}) /\ op \in NeedsTls
        /\ \E q : tls' = [tls EXCEPT ![t].stack = q]
        /\ current' = current
    BY <1>11, StackShapes DEF push, pop, push_all, sourceVarsButCalls, NeedsTls, Opens
  <2>2. /\ pc'[t] = "start" /\ Ops(todo'[t]) \subseteq {"ref", "unref", "curr"} /\ todo[t] = <<>>
        /\ tls[t].state = "done"
    BY <2>1 DEF Opens, Begins
  <2>3. ~Has(t, "construct")' /\ ~Has(t, "init")' /\ ~Has(t, "keep")'
    BY <2>2 DEF Has
  <2>4. tls'[t].state = "done" /\ tls'[t].own = tls[t].own /\ tls'[t].block = tls[t].block
    BY <1>0, <2>1, <2>2
  <2>5. tls[t].own # None /\ tls[t].block # None
    BY <1>0, <2>2 DEF TlsOf
  <2>6. QED  BY <2>2, <2>3, <2>4, <2>5 DEF TlsOf, At
<1>12. CASE pop_all(t)
  <2>1. /\ Opens(t, "save", {"keep"}, {"alloc", "keep"}) /\ tls' = tls /\ current' = current
    BY <1>12, StackShapes DEF pop_all, sourceVarsButCalls
  <2>2. /\ pc'[t] = "start" /\ Ops(todo'[t]) \subseteq {"alloc", "keep"} /\ todo[t] = <<>>
        /\ tls[t].state = "done"
    BY <2>1 DEF Opens, Begins, NeedsTls
  <2>3. ~Has(t, "construct")' /\ ~Has(t, "init")' /\ ~Has(t, "curr")'
    BY <2>2 DEF Has
  <2>4. QED  BY <1>0, <2>1, <2>2, <2>3 DEF TlsOf, At
<1>13. CASE keep(t)
  <2>1. /\ Ends(t, "keep", {"curr", "unlock_task"}, {"ref", "unref", "curr", "free", "unlock_task"})
        /\ tls' = [tls EXCEPT ![t].stack = <<>>] /\ current' = current
    BY <1>13, CallShapes DEF keep
  <2>2. /\ todo[t] # <<>> /\ Call(t).op = "keep" /\ pc'[t] = "start"
        /\ Ops(todo'[t]) \subseteq {"ref", "unref", "curr", "free", "unlock_task"} \cup Ops(Tail(todo[t]))
    BY <2>1 DEF Ends
  <2>3. ~Has(t, "construct")' /\ ~Has(t, "init")' /\ ~Has(t, "keep")' /\ Has(t, "keep")
    BY <1>b, <2>2 DEF Has, AfterCall
  <2>4. tls[t].state = "done" /\ tls[t].own # None /\ tls[t].block # None
    BY <1>0, <2>3 DEF TlsOf
  <2>5. tls'[t].state = tls[t].state /\ tls'[t].own = tls[t].own /\ tls'[t].block = tls[t].block
    <3>1. tls' = [tls EXCEPT ![t].stack = <<>>] /\ DOMAIN tls = Thread
      BY <1>0, <2>1
    <3>2. QED  BY ONLY <3>1, t \in Thread
  <2>6. QED  BY <2>2, <2>3, <2>4, <2>5 DEF TlsOf, At
<1>14. CASE tlsDestructionFunc(t)
  <2>1. /\ Opens(t, "exit", {}, {"unref", "free"}) /\ tls' = [tls EXCEPT ![t] = NoStorage]
        /\ current' = [current EXCEPT ![t] = GlobalSource]
    BY <1>14, StackShapes DEF tlsDestructionFunc
  <2>2. pc'[t] = "start" /\ Ops(todo'[t]) \subseteq {"unref", "free"}
    BY <2>1 DEF Opens
  <2>3. tls'[t] = NoStorage /\ current'[t] = GlobalSource
    BY <1>0, <2>1
  <2>4. \A x \in StorageOps : ~Has(t, x)'
    BY <2>2 DEF Has, StorageOps
  <2>5. QED  BY <2>2, <2>3, <2>4 DEF TlsOf, At, NoStorage, StorageOps
<1>15. CASE lockReplica(t)
  <2>1. /\ Stays(t, "recheck") /\ Call(t).op = "replica" /\ tls' = tls /\ current' = current
    BY <1>15, PlainShapes DEF lockReplica, sourceVarsButCalls
  <2>2. todo'[t] = todo[t]
    BY <2>1 DEF Stays
  <2>3. QED  BY <1>0, <2>1, <2>2, TlsKept DEF Has, Call
<1>16. QED
  BY <1>2, <1>3, <1>4, <1>5, <1>6, <1>7, <1>8, <1>9, <1>10, <1>11, <1>12, <1>13, <1>14, <1>15, StepCases

(* Together.                                                               *)
BaseInv == TypeInv /\ PcInv /\ OrderInv /\ TlsInv

(* The base invariant holds at the start.                                  *)
LEMMA InitBase == Init => BaseInv
<1> SUFFICES ASSUME Init PROVE BaseInv
  OBVIOUS
<1>1. TypeInv
  BY InitTypes
<1>2. \A t \in Thread : /\ todo[t] = <<>> /\ pc[t] = "start" /\ tls[t] = NoStorage
                        /\ current[t] = GlobalSource
  BY DEF Init
<1>3. PcInv
  BY <1>2 DEF PcInv
<1>4. OrderInv
  BY <1>2, OrderedOne DEF OrderInv
<1>5. \A t \in Thread : \A op : ~Has(t, op)
  BY <1>2, OpsFacts DEF Has
<1>6. TlsInv
  BY <1>2, <1>5 DEF TlsInv, TlsOf, At, NoStorage
<1>7. QED  BY <1>1, <1>3, <1>4, <1>6 DEF BaseInv

(* Every step keeps the base invariant.                                    *)
LEMMA StepBase ==
    ASSUME BaseInv, NEW t \in Thread, Step(t)
    PROVE  BaseInv'
<1>1. TypeInv'
  BY StepTypes DEF BaseInv
<1>2. PcInv' /\ OrderInv'
  BY StepKeepsOrder DEF BaseInv
<1>3. TlsInv'
  BY StepKeepsTls DEF BaseInv
<1>4. QED  BY <1>1, <1>2, <1>3 DEF BaseInv

(* The locks under which sources and replicas are created.                 *)
Publishes(t) == {c \in Range(todo[t]) : c.op \in {"publish_local", "publish_replica"}}
InLocal(t) == At(t, "curr", "recheck") \/ Has(t, "unlock_local")
InReplica(t) == At(t, "replica", "recheck") \/ Has(t, "unlock_replica")
LocalInv ==
    /\ \A n \in Physical, t \in Thread : nodeLock[n] = t <=> HomeOf[t] = n /\ InLocal(t)
    /\ \A t \in Thread : \A c \in Publishes(t) : c.op = "publish_local" =>
           Has(t, "unlock_local") /\ msources[HomeOf[t]][c.node] = None
ReplicaInv ==
    /\ \A t \in Thread : replicaLock = t <=> InReplica(t)
    /\ \A t \in Thread : \A c \in Publishes(t) : c.op = "publish_replica" =>
           Has(t, "unlock_replica") /\ replica[c.node] = None

LocalStep(t) == lockLocal(t) \/ recheckLocal(t) \/ publishLocal(t) \/ unlockLocal(t)
ReplicaStep(t) == lockReplica(t) \/ recheckReplica(t) \/ publishReplica(t) \/ unlockReplica(t)
LockOps == {"publish_local", "unlock_local", "publish_replica", "unlock_replica"}

(* A call that ends changes nothing about names it does not call.          *)
LEMMA EndsHas ==
    ASSUME TypeInv, OrderInv, NEW t \in Thread, NEW op, NEW must, NEW may, Ends(t, op, must, may),
           NEW x, x \notin may, x # op
    PROVE  /\ Has(t, x)' <=> Has(t, x)
           /\ x \notin AfterCall(op) => ~Has(t, x)'
<1>1. /\ Ops(todo[t]) = {op} \cup Ops(Tail(todo[t])) /\ Ops(Tail(todo[t])) \subseteq AfterCall(op)
  BY HeadAndTail DEF Ends
<1>2. Ops(Tail(todo[t])) \subseteq Ops(todo'[t]) /\ Ops(todo'[t]) \subseteq may \cup Ops(Tail(todo[t]))
  BY DEF Ends
<1>3. QED  BY <1>1, <1>2 DEF Has

(* An operation that begins has none of the names it does not call.        *)
LEMMA OpensHas ==
    ASSUME NEW t \in Thread, NEW op, NEW must, NEW may, Opens(t, op, must, may), NEW x, x \notin may
    PROVE  ~Has(t, x) /\ ~Has(t, x)'
BY OpsFacts DEF Opens, Begins, Has

(* A step outside the two creations moves nobody into or out of their
   locks, and publishes nothing.                                           *)
LEMMA QuietLocks ==
    ASSUME BaseInv, NEW t \in Thread, Step(t), ~LocalStep(t), ~ReplicaStep(t)
    PROVE  /\ UNCHANGED <<msources, nodeLock, replica, replicaLock>>
           /\ \A x \in LockOps : Has(t, x)' <=> Has(t, x)
           /\ Publishes(t)' \subseteq Publishes(t)
           /\ InLocal(t)' <=> InLocal(t)
           /\ InReplica(t)' <=> InReplica(t)
<1> USE DEF BaseInv
<1>0. todo[t] # <<>> => /\ Ops(todo[t]) = {Call(t).op} \cup Ops(Tail(todo[t]))
                        /\ Ops(Tail(todo[t])) \subseteq AfterCall(Call(t).op)
                        /\ Range(Tail(todo[t])) \subseteq Range(todo[t])
  <2>1. ASSUME todo[t] # <<>> PROVE Range(todo[t]) = {Head(todo[t])} \cup Range(Tail(todo[t]))
    <3>1. todo[t] \in Seq(AnyCall)
      BY <2>1, HeadAndTail
    <3>2. QED  BY <2>1, <3>1, RangeHeadTail
  <2>2. QED  BY <2>1, HeadAndTail
<1> DEFINE Quiet == /\ UNCHANGED <<msources, nodeLock, replica, replicaLock>>
                    /\ \A x \in LockOps : Has(t, x)' <=> Has(t, x)
                    /\ Publishes(t)' \subseteq Publishes(t)
                    /\ ~At(t, "curr", "recheck") /\ ~At(t, "replica", "recheck")
                    /\ ~At(t, "curr", "recheck")' /\ ~At(t, "replica", "recheck")'
<1> SUFFICES Quiet
  <2>1. "unlock_local" \in LockOps /\ "unlock_replica" \in LockOps
    BY DEF LockOps
  <2>2. QED  BY <2>1 DEF InLocal, InReplica
<1>1. CASE SourceStep(t) /\ UNCHANGED placeVars
  <2>1. /\ todo[t] # <<>> /\ Call(t).op \in SourceOps
        /\ (\E label : Stays(t, label)) \/ (Ends(t, Call(t).op, {}, {}) /\ todo'[t] = Tail(todo[t]))
    BY <1>1, SourceStepShape
  <2>2. SourceOps \cap LockOps = {} /\ "curr" \notin SourceOps /\ "replica" \notin SourceOps
    BY DEF SourceOps, LockOps
  <2>3. CASE \E label : Stays(t, label)
    <3>1. todo'[t] = todo[t]
      BY <2>3 DEF Stays
    <3>2. QED  BY <1>1, <2>1, <2>2, <3>1 DEF Has, Publishes, placeVars, At, Call
  <2>4. CASE Ends(t, Call(t).op, {}, {}) /\ todo'[t] = Tail(todo[t])
    <3>1. \A x \in LockOps : Has(t, x)' <=> Has(t, x)
      BY <2>1, <2>2, <2>4, EndsHas
    <3>2. pc'[t] = "start" /\ Publishes(t)' \subseteq Publishes(t)
      BY <1>0, <2>1, <2>4 DEF Publishes, Ends
    <3>3. QED  BY <1>1, <2>1, <2>2, <3>1, <3>2 DEF placeVars, At
  <2>5. QED  BY <2>1, <2>3, <2>4
<1>2. CASE PlainOpens(t) \/ push(t) \/ pop(t) \/ push_all(t) \/ pop_all(t) \/ tlsDestructionFunc(t)
  <2>1. \E op, must, may : Opens(t, op, must, may) /\ may \cap LockOps = {}
    <3>1. {"alloc", "free", "free_old", "ref", "bind", "unref", "migrate", "replica"} \cap LockOps = {}
      BY DEF LockOps
    <3>2. /\ {"ref", "curr"} \cap LockOps = {} /\ {"ref", "unref", "curr"} \cap LockOps = {}
          /\ {"alloc", "keep"} \cap LockOps = {} /\ {"unref", "free"} \cap LockOps = {}
      BY DEF LockOps
    <3>3. CASE PlainOpens(t)
      BY <3>1, <3>3, PlainOpensShape
    <3>4. CASE push(t) \/ pop(t) \/ push_all(t) \/ pop_all(t) \/ tlsDestructionFunc(t)
      BY <3>2, <3>4, StackShapes
    <3>5. QED  BY <1>2, <3>3, <3>4
  <2>2. \A x \in LockOps : ~Has(t, x) /\ ~Has(t, x)'
    BY <2>1, OpensHas
  <2>3. todo[t] = <<>> /\ pc'[t] = "start"
    BY <2>1 DEF Opens, Begins
  <2>4. Publishes(t)' = {}
    BY <2>2 DEF Publishes, Has, Ops, Range, LockOps
  <2>5. UNCHANGED <<msources, nodeLock, replica, replicaLock>>
    BY <1>2 DEF PlainOpens, push, pop, push_all, pop_all, tlsDestructionFunc, malloc, memalign, free, realloc,
       create, copy, assign, move, drop, migrate, get
  <2>6. QED  BY <2>2, <2>3, <2>4, <2>5 DEF At
<1>3. CASE PlainEnds(t) \/ construct(t) \/ init(t) \/ keep(t) \/ setCurrent(t)
  <2>1. unlockTask(t) \/ freeOld(t) \/ bind(t) \/ construct(t) \/ init(t) \/ keep(t) \/ setCurrent(t)
    BY <1>3 DEF PlainEnds, LocalStep, ReplicaStep
  <2>2. UNCHANGED <<msources, nodeLock, replica, replicaLock>>
    BY <2>1 DEF unlockTask, freeOld, bind, construct, init, keep, setCurrent, placeVars
  <2>3. ~At(t, "curr", "recheck") /\ ~At(t, "replica", "recheck")
    BY <2>1 DEF unlockTask, freeOld, bind, construct, init, keep, setCurrent, At
  <2>4. CASE setCurrent(t) /\ Stays(t, "lock")
    <3>1. todo'[t] = todo[t] /\ pc'[t] = "lock"
      BY <2>4 DEF Stays
    <3>2. QED  BY <2>2, <2>3, <3>1 DEF Has, Publishes, At
  <2>5. CASE \E op, must, may : /\ Ends(t, op, must, may) /\ may \cap LockOps = {} /\ op \notin LockOps
                                /\ AfterCall(op) \cap {"publish_local", "publish_replica"} = {}
    <3>1. PICK op, must, may : /\ Ends(t, op, must, may) /\ may \cap LockOps = {} /\ op \notin LockOps
                               /\ AfterCall(op) \cap {"publish_local", "publish_replica"} = {}
      BY <2>5
    <3>2. \A x \in LockOps : Has(t, x)' <=> Has(t, x)
      BY <3>1, EndsHas
    <3>3. ~Has(t, "publish_local")' /\ ~Has(t, "publish_replica")'
      <4>1. "publish_local" \in LockOps /\ "publish_replica" \in LockOps
        BY DEF LockOps
      <4>2. QED  BY <3>1, <4>1, EndsHas
    <3>4. Publishes(t)' = {}
      BY <3>3 DEF Publishes, Has, Ops, Range
    <3>5. pc'[t] = "start"
      BY <3>1 DEF Ends
    <3>6. QED  BY <2>2, <2>3, <3>2, <3>4, <3>5 DEF At
  <2>6. \/ setCurrent(t) /\ Stays(t, "lock")
        \/ \E op, must, may : /\ Ends(t, op, must, may) /\ may \cap LockOps = {} /\ op \notin LockOps
                              /\ AfterCall(op) \cap {"publish_local", "publish_replica"} = {}
    <3>1. /\ {"ref"} \cap LockOps = {} /\ {"ref", "unref"} \cap LockOps = {} /\ {"free"} \cap LockOps = {}
          /\ {"ref", "unref", "curr", "free", "unlock_task"} \cap LockOps = {} /\ {} \cap LockOps = {}
          /\ \A op \in {"unlock_task", "free_old", "bind", "construct", "init", "keep", "curr"} :
                /\ op \notin LockOps
                /\ AfterCall(op) \cap {"publish_local", "publish_replica"} = {}
      BY DEF LockOps, AfterCall
    <3>2. CASE unlockTask(t) \/ bind(t)
      BY <3>1, <3>2, PlainShapes
    <3>3. CASE freeOld(t) \/ construct(t) \/ init(t) \/ keep(t) \/ setCurrent(t)
      BY <3>1, <3>3, CallShapes
    <3>4. QED  BY <2>1, <3>2, <3>3
  <2>7. QED  BY <2>4, <2>5, <2>6
<1>4. CASE getTls(t)
  <2>1. /\ todo[t] = <<>> /\ pc'[t] = "start" /\ Ops(todo'[t]) = {"alloc", "construct", "init", "curr"}
    BY <1>4, GetTlsShape
  <2>2. \A x \in LockOps : ~Has(t, x) /\ ~Has(t, x)'
    BY <2>1, OpsFacts DEF Has, LockOps
  <2>3. Publishes(t)' = {}
    BY <2>2 DEF Publishes, Has, Ops, Range, LockOps
  <2>4. UNCHANGED <<msources, nodeLock, replica, replicaLock>>
    BY <1>4 DEF getTls
  <2>5. QED  BY <2>1, <2>2, <2>3, <2>4 DEF At
<1>5. QED
  BY <1>1, <1>2, <1>3, <1>4, StepCases DEF LocalStep, ReplicaStep

LocalQuiet(t) ==
    /\ UNCHANGED <<msources, nodeLock>>
    /\ InLocal(t)' <=> InLocal(t)
    /\ Has(t, "unlock_local")' <=> Has(t, "unlock_local")
    /\ \A c \in Publishes(t)' : c.op = "publish_local" => c \in Publishes(t)
ReplicaQuiet(t) ==
    /\ UNCHANGED <<replica, replicaLock>>
    /\ InReplica(t)' <=> InReplica(t)
    /\ Has(t, "unlock_replica")' <=> Has(t, "unlock_replica")
    /\ \A c \in Publishes(t)' : c.op = "publish_replica" => c \in Publishes(t)

(* Where the others stand with the two locks does not change.              *)
LEMMA OthersLocks ==
    ASSUME BaseInv, NEW t \in Thread, Step(t), NEW u \in Thread, u # t
    PROVE  /\ InLocal(u)' <=> InLocal(u)
           /\ InReplica(u)' <=> InReplica(u)
           /\ Publishes(u)' = Publishes(u)
           /\ \A x : Has(u, x)' <=> Has(u, x)
<1>1. todo'[u] = todo[u] /\ pc'[u] = pc[u]
  BY OthersKeep DEF BaseInv
<1>2. QED  BY <1>1 DEF InLocal, InReplica, Publishes, Has, At, Call

(* What is true of the nodes' locks stays true when the step does not touch
   them.                                                                   *)
LEMMA LocalKept ==
    ASSUME BaseInv, LocalInv, NEW t \in Thread, Step(t), LocalQuiet(t)
    PROVE  LocalInv'
<1>1. \A u \in Thread : /\ InLocal(u)' <=> InLocal(u)
                        /\ Has(u, "unlock_local")' <=> Has(u, "unlock_local")
                        /\ \A c \in Publishes(u)' : c.op = "publish_local" => c \in Publishes(u)
  BY OthersLocks DEF LocalQuiet
<1>2. UNCHANGED <<msources, nodeLock>>
  BY DEF LocalQuiet
<1>3. QED  BY <1>1, <1>2 DEF LocalInv

(* What is true of the replica lock stays true when the step does not touch
   it.                                                                     *)
LEMMA ReplicaKept ==
    ASSUME BaseInv, ReplicaInv, NEW t \in Thread, Step(t), ReplicaQuiet(t)
    PROVE  ReplicaInv'
<1>1. \A u \in Thread : /\ InReplica(u)' <=> InReplica(u)
                        /\ Has(u, "unlock_replica")' <=> Has(u, "unlock_replica")
                        /\ \A c \in Publishes(u)' : c.op = "publish_replica" => c \in Publishes(u)
  BY OthersLocks DEF ReplicaQuiet
<1>2. UNCHANGED <<replica, replicaLock>>
  BY DEF ReplicaQuiet
<1>3. QED  BY <1>1, <1>2 DEF ReplicaInv

(* A call that ends: nothing but it is gone from the list.                 *)
LEMMA TailPublishes ==
    ASSUME BaseInv, NEW t \in Thread, todo[t] # <<>>, todo'[t] = Tail(todo[t])
    PROVE  Publishes(t)' \subseteq Publishes(t)
<1>1. todo[t] \in Seq(AnyCall)
  BY HeadAndTail DEF BaseInv
<1>2. Range(todo[t]) = {Head(todo[t])} \cup Range(Tail(todo[t]))
  BY <1>1, RangeHeadTail
<1>3. QED  BY <1>2 DEF Publishes

(* Creating a local source leaves the replicas alone.                      *)
LEMMA LocalStepsQuiet ==
    ASSUME BaseInv, NEW t \in Thread, LocalStep(t)
    PROVE  ReplicaQuiet(t)
<1> USE DEF BaseInv
<1>1. CASE lockLocal(t)
  <2>1. todo'[t] = todo[t] /\ todo[t] # <<>> /\ Call(t).op = "curr"
    BY <1>1, PlainShapes DEF Stays
  <2>2. UNCHANGED <<replica, replicaLock>>
    BY <1>1 DEF lockLocal
  <2>3. QED  BY <2>1, <2>2 DEF ReplicaQuiet, InReplica, Has, At, Call, Publishes
<1>2. CASE recheckLocal(t)
  <2> DEFINE n == Last(tls[t].stack).node
             ready == msources[HomeOf[t]][n] # None
             a == FirstRef(Fresh)
             b == PublishLocal(Fresh, n)
             c == UnlockLocal
             calls == IF ready THEN <<c>> ELSE <<a, b, c>>
  <2>1. /\ todo[t] # <<>> /\ Call(t).op = "curr" /\ pc'[t] = "start"
        /\ Range(todo'[t]) = Range(calls) \cup Range(todo[t])
        /\ Ops(todo'[t]) = Ops(todo[t]) \cup
               (IF ready THEN {"unlock_local"} ELSE {"ref", "publish_local", "unlock_local"})
    BY <1>2, RecheckShape
  <2>2. UNCHANGED <<replica, replicaLock>>
    BY <1>2 DEF recheckLocal, placeVars
  <2>3. a.op = "ref" /\ b.op = "publish_local" /\ c.op = "unlock_local"
    BY ONLY CallNames
  <2> HIDE DEF a, b, c, ready
  <2>4. \A d \in Range(calls) : d.op # "publish_replica"
    <3>1. Range(<<c>>) = {c} /\ Range(<<a, b, c>>) = {a, b, c}
      BY DEF Range
    <3>2. QED  BY <2>3, <3>1
  <2> HIDE DEF calls
  <2>5. \A d \in Publishes(t)' : d.op = "publish_replica" => d \in Publishes(t)
    BY <2>1, <2>4 DEF Publishes
  <2>6. Has(t, "unlock_replica")' <=> Has(t, "unlock_replica")
    BY <2>1 DEF Has
  <2>7. QED  BY <2>1, <2>2, <2>5, <2>6 DEF ReplicaQuiet, InReplica, At
<1>3. CASE publishLocal(t) \/ unlockLocal(t)
  <2>1. PICK op \in {"publish_local", "unlock_local"} : Ends(t, op, {}, {}) /\ todo'[t] = Tail(todo[t])
    BY <1>3, PlainShapes
  <2>2. UNCHANGED <<replica, replicaLock>>
    BY <1>3 DEF publishLocal, unlockLocal
  <2>3. Has(t, "unlock_replica")' <=> Has(t, "unlock_replica")
    <3>1. "unlock_replica" \notin {} /\ "unlock_replica" # op
      OBVIOUS
    <3>2. QED  BY <2>1, <3>1, EndsHas DEF Has
  <2>4. todo[t] # <<>> /\ Call(t).op = op /\ pc'[t] = "start"
    BY <2>1 DEF Ends
  <2>5. Publishes(t)' \subseteq Publishes(t)
    BY <2>1, <2>4, TailPublishes
  <2>6. QED  BY <2>2, <2>3, <2>4, <2>5 DEF ReplicaQuiet, InReplica, At
<1>4. QED  BY <1>1, <1>2, <1>3 DEF LocalStep

(* Creating a replica leaves the local sources alone.                      *)
LEMMA ReplicaStepsQuiet ==
    ASSUME BaseInv, NEW t \in Thread, ReplicaStep(t)
    PROVE  LocalQuiet(t)
<1> USE DEF BaseInv
<1>1. CASE lockReplica(t)
  <2>1. todo'[t] = todo[t] /\ todo[t] # <<>> /\ Call(t).op = "replica"
    BY <1>1, PlainShapes DEF Stays
  <2>2. UNCHANGED <<msources, nodeLock>>
    BY <1>1 DEF lockReplica
  <2>3. QED  BY <2>1, <2>2 DEF LocalQuiet, InLocal, Has, At, Call, Publishes
<1>2. CASE recheckReplica(t)
  <2>1. Ends(t, "replica", {"unlock_replica"}, {"alloc", "publish_replica", "unlock_replica"})
    BY <1>2, CallShapes
  <2>2. UNCHANGED <<msources, nodeLock>>
    BY <1>2 DEF recheckReplica, placeVars
  <2>3. todo[t] # <<>> /\ Call(t).op = "replica" /\ pc'[t] = "start"
    BY <2>1 DEF Ends
  <2>a. \A x \in {"unlock_local", "publish_local"} :
           x # "replica" /\ x \notin {"alloc", "publish_replica", "unlock_replica"}
    OBVIOUS
  <2>4. Has(t, "unlock_local")' <=> Has(t, "unlock_local")
    BY <2>1, <2>a, EndsHas
  <2>5. ~Has(t, "publish_local")'
    <3>1. "publish_local" \notin AfterCall("replica") /\ "publish_local" # "replica"
          /\ "publish_local" \notin {"alloc", "publish_replica", "unlock_replica"}
      BY DEF AfterCall
    <3>2. QED  BY <2>1, <3>1, EndsHas
  <2>6. \A c \in Publishes(t)' : c.op # "publish_local"
    BY <2>5 DEF Publishes, Has, Ops, Range
  <2>7. QED  BY <2>2, <2>3, <2>4, <2>6 DEF LocalQuiet, InLocal, At
<1>3. CASE publishReplica(t) \/ unlockReplica(t)
  <2>1. PICK op \in {"publish_replica", "unlock_replica"} : Ends(t, op, {}, {}) /\ todo'[t] = Tail(todo[t])
    BY <1>3, PlainShapes
  <2>2. UNCHANGED <<msources, nodeLock>>
    BY <1>3 DEF publishReplica, unlockReplica
  <2>3. Has(t, "unlock_local")' <=> Has(t, "unlock_local")
    <3>1. "unlock_local" \notin {} /\ "unlock_local" # op
      OBVIOUS
    <3>2. QED  BY <2>1, <3>1, EndsHas DEF Has
  <2>4. todo[t] # <<>> /\ Call(t).op = op /\ pc'[t] = "start"
    BY <2>1 DEF Ends
  <2>5. Publishes(t)' \subseteq Publishes(t)
    BY <2>1, <2>4, TailPublishes
  <2>6. QED  BY <2>2, <2>3, <2>4, <2>5 DEF LocalQuiet, InLocal, At
<1>4. QED  BY <1>1, <1>2, <1>3 DEF ReplicaStep

(* Only a source that is not there is published.                           *)
SourcesLast == \A n, m \in Physical : msources[n][m] # None => msources'[n][m] = msources[n][m]
ReplicasLast == \A n \in Physical : replica[n] # None => replica'[n] = replica[n]

(* The steps of creating a local source keep its lock exclusive and never
   replace a published source (the double-checked creation in
   get_place_msource).                                                     *)
LEMMA LocalSteps ==
    ASSUME BaseInv, LocalInv, NEW t \in Thread, Step(t), LocalStep(t)
    PROVE  LocalInv' /\ SourcesLast
<1> USE DEF BaseInv
<1>0. /\ nodeLock \in [Physical -> Threads] /\ HomeOf[t] \in Physical /\ None \notin Thread
      /\ \A u \in Thread : HomeOf[u] \in Physical
      /\ msources \in [Physical -> [Physical -> Born \cup {None}]]
  BY PlaceAssumption, CountAssumption DEF TypeInv, Typed
<1>a. \A u \in Thread \ {t} : /\ InLocal(u)' <=> InLocal(u)
                              /\ Publishes(u)' = Publishes(u)
                              /\ \A x : Has(u, x)' <=> Has(u, x)
  BY OthersLocks
<1>b. /\ \A n \in Physical, u \in Thread : nodeLock[n] = u <=> HomeOf[u] = n /\ InLocal(u)
      /\ \A u \in Thread : \A c \in Publishes(u) : c.op = "publish_local" =>
             Has(u, "unlock_local") /\ msources[HomeOf[u]][c.node] = None
  BY DEF LocalInv
<1>1. CASE lockLocal(t)
  <2>1. todo'[t] = todo[t] /\ todo[t] # <<>> /\ Call(t).op = "curr" /\ pc'[t] = "recheck"
    BY <1>1, PlainShapes DEF Stays
  <2>2. /\ nodeLock[HomeOf[t]] = None /\ nodeLock' = [nodeLock EXCEPT ![HomeOf[t]] = t]
        /\ msources' = msources
    BY <1>1 DEF lockLocal
  <2>3. InLocal(t)' /\ Publishes(t)' = Publishes(t) /\ \A x : Has(t, x)' <=> Has(t, x)
    BY <2>1 DEF InLocal, At, Call, Publishes, Has
  <2>4. \A n \in Physical : nodeLock'[n] = IF n = HomeOf[t] THEN t ELSE nodeLock[n]
    BY <1>0, <2>2
  <2>5. \A n \in Physical, u \in Thread : nodeLock'[n] = u <=> HomeOf[u] = n /\ InLocal(u)'
    <3> SUFFICES ASSUME NEW n \in Physical, NEW u \in Thread
                 PROVE  nodeLock'[n] = u <=> HomeOf[u] = n /\ InLocal(u)'
      OBVIOUS
    <3>1. nodeLock[HomeOf[t]] # u
      BY <1>0, <2>2
    <3>2. CASE u = t
      BY <1>b, <2>3, <2>4, <3>2
    <3>3. CASE u # t
      BY <1>a, <1>b, <2>4, <3>1, <3>3 DEF Has
    <3>4. QED  BY <3>2, <3>3
  <2>6. \A u \in Thread : \A c \in Publishes(u)' : c.op = "publish_local" =>
             Has(u, "unlock_local")' /\ msources'[HomeOf[u]][c.node] = None
    <3>1. \A u \in Thread : Publishes(u)' = Publishes(u) /\ (Has(u, "unlock_local")' <=> Has(u, "unlock_local"))
      BY <1>a, <2>3
    <3>2. QED  BY <1>b, <2>2, <3>1 DEF Has
  <2>7. QED  BY <2>2, <2>5, <2>6 DEF LocalInv, SourcesLast
<1>2. CASE recheckLocal(t)
  <2> DEFINE n == Last(tls[t].stack).node
             ready == msources[HomeOf[t]][n] # None
             a == FirstRef(Fresh)
             b == PublishLocal(Fresh, n)
             c == UnlockLocal
             calls == IF ready THEN <<c>> ELSE <<a, b, c>>
  <2>1. /\ todo[t] # <<>> /\ Call(t).op = "curr" /\ pc[t] = "recheck" /\ pc'[t] = "start"
        /\ Range(todo'[t]) = Range(calls) \cup Range(todo[t])
        /\ Ops(todo'[t]) = Ops(todo[t]) \cup
               (IF ready THEN {"unlock_local"} ELSE {"ref", "publish_local", "unlock_local"})
    BY <1>2, RecheckShape
  <2>2. UNCHANGED <<msources, nodeLock>>
    BY <1>2 DEF recheckLocal, placeVars
  <2>3. a.op = "ref" /\ b.op = "publish_local" /\ b.node = n /\ c.op = "unlock_local"
    BY DEF FirstRef, PublishLocal, UnlockLocal
  <2>4. Range(<<c>>) = {c} /\ Range(<<a, b, c>>) = {a, b, c}
    BY DEF Range
  <2>5. InLocal(t) /\ InLocal(t)' /\ Has(t, "unlock_local")'
    BY <2>1 DEF InLocal, At, Has
  <2> HIDE DEF a, b, c, n
  <2>6. \A d \in Publishes(t)' : d.op = "publish_local" => d \in Publishes(t) \/ (d = b /\ ~ready)
    BY <2>1, <2>3, <2>4 DEF Publishes
  <2>7. \A d \in Publishes(t)' : d.op = "publish_local" => msources[HomeOf[t]][d.node] = None
    BY <1>b, <2>3, <2>6
  <2>8. \A m \in Physical, u \in Thread : nodeLock'[m] = u <=> HomeOf[u] = m /\ InLocal(u)'
    BY <1>a, <1>b, <2>2, <2>5
  <2>9. \A u \in Thread : \A d \in Publishes(u)' : d.op = "publish_local" =>
             Has(u, "unlock_local")' /\ msources'[HomeOf[u]][d.node] = None
    <3>1. \A u \in Thread \ {t} : Publishes(u)' = Publishes(u) /\ (Has(u, "unlock_local")' <=> Has(u, "unlock_local"))
      BY <1>a
    <3>2. QED  BY <1>b, <2>2, <2>5, <2>7, <3>1 DEF Has
  <2>10. QED  BY <2>2, <2>8, <2>9 DEF LocalInv, SourcesLast
<1>3. CASE publishLocal(t)
  <2>1. Ends(t, "publish_local", {}, {}) /\ todo'[t] = Tail(todo[t])
    BY <1>3, PlainShapes
  <2>2. todo[t] # <<>> /\ Call(t).op = "publish_local" /\ pc'[t] = "start"
    BY <2>1 DEF Ends
  <2>3. /\ msources' = [msources EXCEPT ![HomeOf[t]][Call(t).node] = Call(t).s]
        /\ nodeLock' = nodeLock
    BY <1>3 DEF publishLocal
  <2>4. Call(t) \in Publishes(t)
    <3>1. todo[t] \in Seq(AnyCall)
      BY <2>2, HeadAndTail
    <3>2. Call(t) \in Range(todo[t])
      BY <2>2, <3>1, RangeHeadTail DEF Call
    <3>3. QED  BY <2>2, <3>2 DEF Publishes
  <2>5. Has(t, "unlock_local") /\ msources[HomeOf[t]][Call(t).node] = None
    BY <1>b, <2>2, <2>4
  <2>6. Has(t, "unlock_local")' /\ ~Has(t, "publish_local")'
    <3>1. "publish_local" \notin AfterCall("publish_local")
      BY DEF AfterCall
    <3>a. "unlock_local" \notin {} /\ "unlock_local" # "publish_local"
      OBVIOUS
    <3>2. Has(t, "unlock_local")'
      BY <2>1, <2>5, <3>a, EndsHas DEF Has
    <3>3. /\ Ops(todo[t]) = {Call(t).op} \cup Ops(Tail(todo[t]))
          /\ Ops(Tail(todo[t])) \subseteq AfterCall("publish_local")
      BY <2>2, HeadAndTail
    <3>4. QED  BY <2>1, <3>1, <3>2, <3>3 DEF Has
  <2>7. InLocal(t) /\ InLocal(t)'
    BY <2>5, <2>6 DEF InLocal
  <2>8. \A d \in Publishes(t)' : d.op # "publish_local"
    BY <2>6 DEF Publishes, Has, Ops, Range
  <2>9. Call(t).node \in Physical
    <3>1. Call(t) \in AnyCall
      BY <2>2, HeadAndTail
    <3>2. QED  BY <2>2, <3>1, CallFields DEF AnyCall
  <2>10. \A n, m \in Physical :
            msources'[n][m] = IF n = HomeOf[t] /\ m = Call(t).node THEN Call(t).s ELSE msources[n][m]
    BY <1>0, <2>3, <2>9
  <2>11. \A u \in Thread \ {t} : InLocal(u) => HomeOf[u] # HomeOf[t]
    <3>1. nodeLock[HomeOf[t]] = t
      BY <1>0, <1>b, <2>7
    <3>2. QED  BY <1>0, <1>b, <3>1
  <2>12. \A u \in Thread \ {t} : \A d \in Publishes(u) : d.op = "publish_local" =>
             Has(u, "unlock_local") /\ HomeOf[u] # HomeOf[t]
    BY <1>b, <2>11 DEF InLocal
  <2>13. \A u \in Thread : \A d \in Publishes(u)' : d.op = "publish_local" =>
             Has(u, "unlock_local")' /\ msources'[HomeOf[u]][d.node] = None
    <3> SUFFICES ASSUME NEW u \in Thread, NEW d \in Publishes(u)', d.op = "publish_local"
                 PROVE  Has(u, "unlock_local")' /\ msources'[HomeOf[u]][d.node] = None
      OBVIOUS
    <3>1. u # t /\ d \in Publishes(u)
      BY <1>a, <2>8
    <3>2. Has(u, "unlock_local")' /\ HomeOf[u] # HomeOf[t] /\ msources[HomeOf[u]][d.node] = None
      BY <1>a, <1>b, <2>12, <3>1
    <3>3. msources'[HomeOf[u]] = msources[HomeOf[u]]
      BY <1>0, <2>3, <3>2
    <3>4. QED  BY <3>2, <3>3
  <2>14. \A n \in Physical, u \in Thread : nodeLock'[n] = u <=> HomeOf[u] = n /\ InLocal(u)'
    BY <1>a, <1>b, <2>3, <2>7
  <2>15. SourcesLast
    BY <2>5, <2>10 DEF SourcesLast
  <2>16. QED  BY <2>13, <2>14, <2>15 DEF LocalInv
<1>4. CASE unlockLocal(t)
  <2>1. Ends(t, "unlock_local", {}, {}) /\ todo'[t] = Tail(todo[t])
    BY <1>4, PlainShapes
  <2>2. todo[t] # <<>> /\ Call(t).op = "unlock_local" /\ pc'[t] = "start"
    BY <2>1 DEF Ends
  <2>3. nodeLock' = [nodeLock EXCEPT ![HomeOf[t]] = None] /\ msources' = msources
    BY <1>4 DEF unlockLocal
  <2>4. /\ Ops(todo[t]) = {"unlock_local"} \cup Ops(Tail(todo[t]))
        /\ Ops(Tail(todo[t])) \subseteq AfterCall("unlock_local")
    BY <2>2, HeadAndTail
  <2>5. {"unlock_local", "publish_local"} \cap AfterCall("unlock_local") = {}
    BY DEF AfterCall
  <2>6. Has(t, "unlock_local") /\ ~Has(t, "unlock_local")' /\ ~Has(t, "publish_local")'
    BY <2>1, <2>4, <2>5 DEF Has
  <2>7. InLocal(t) /\ ~InLocal(t)'
    BY <2>2, <2>6 DEF InLocal, At
  <2>8. \A d \in Publishes(t)' : d.op # "publish_local"
    BY <2>6 DEF Publishes, Has, Ops, Range
  <2>9. \A n \in Physical : nodeLock'[n] = IF n = HomeOf[t] THEN None ELSE nodeLock[n]
    BY <1>0, <2>3
  <2>10. \A n \in Physical, u \in Thread : nodeLock'[n] = u <=> HomeOf[u] = n /\ InLocal(u)'
    <3>1. nodeLock[HomeOf[t]] = t
      BY <1>0, <1>b, <2>7
    <3> SUFFICES ASSUME NEW n \in Physical, NEW u \in Thread
                 PROVE  nodeLock'[n] = u <=> HomeOf[u] = n /\ InLocal(u)'
      OBVIOUS
    <3>2. CASE u = t
      BY <1>0, <1>b, <2>7, <2>9, <3>2 DEF Has
    <3>3. CASE u # t
      BY <1>0, <1>a, <1>b, <2>9, <3>1, <3>3 DEF Has
    <3>4. QED  BY <3>2, <3>3
  <2>11. \A u \in Thread : \A d \in Publishes(u)' : d.op = "publish_local" =>
             Has(u, "unlock_local")' /\ msources'[HomeOf[u]][d.node] = None
    <3>1. \A u \in Thread \ {t} : Publishes(u)' = Publishes(u) /\ (Has(u, "unlock_local")' <=> Has(u, "unlock_local"))
      BY <1>a
    <3>2. QED  BY <1>b, <2>3, <2>8, <3>1 DEF Has
  <2>12. QED  BY <2>3, <2>10, <2>11 DEF LocalInv, SourcesLast
<1>5. QED  BY <1>1, <1>2, <1>3, <1>4 DEF LocalStep

(* The steps of creating a replica keep its lock exclusive and never
   replace a published replica (the double-checked creation in
   NodeReplicated::get).                                                   *)
LEMMA ReplicaSteps ==
    ASSUME BaseInv, ReplicaInv, NEW t \in Thread, Step(t), ReplicaStep(t)
    PROVE  ReplicaInv' /\ ReplicasLast
<1> USE DEF BaseInv
<1>0. replicaLock \in Threads /\ None \notin Thread /\ replica \in [Physical -> DOMAIN chunk \cup {None}]
  BY CountAssumption DEF TypeInv, Typed
<1>a. \A u \in Thread \ {t} : /\ InReplica(u)' <=> InReplica(u)
                              /\ Publishes(u)' = Publishes(u)
                              /\ Has(u, "unlock_replica")' <=> Has(u, "unlock_replica")
  BY OthersLocks
<1>b. /\ \A u \in Thread : replicaLock = u <=> InReplica(u)
      /\ \A u \in Thread : \A c \in Publishes(u) : c.op = "publish_replica" =>
             Has(u, "unlock_replica") /\ replica[c.node] = None
  BY DEF ReplicaInv
<1>1. CASE lockReplica(t)
  <2>1. todo'[t] = todo[t] /\ todo[t] # <<>> /\ Call(t).op = "replica" /\ pc'[t] = "recheck"
    BY <1>1, PlainShapes DEF Stays
  <2>2. replicaLock = None /\ replicaLock' = t /\ replica' = replica
    BY <1>1 DEF lockReplica
  <2>3. /\ InReplica(t)' /\ Publishes(t)' = Publishes(t)
        /\ Has(t, "unlock_replica")' <=> Has(t, "unlock_replica")
    BY <2>1 DEF InReplica, At, Call, Publishes, Has
  <2>4. \A u \in Thread : replicaLock' = u <=> InReplica(u)'
    BY <1>0, <1>a, <1>b, <2>2, <2>3
  <2>5. \A u \in Thread : \A c \in Publishes(u)' : c.op = "publish_replica" =>
             Has(u, "unlock_replica")' /\ replica'[c.node] = None
    BY <1>a, <1>b, <2>2, <2>3
  <2>6. QED  BY <2>2, <2>4, <2>5 DEF ReplicaInv, ReplicasLast
<1>2. CASE recheckReplica(t)
  <2> DEFINE n == Call(t).node
             a == Alloc(NodeSource[n], ReplicaSize, "replica")
             b == PublishReplica(n)
             c == UnlockReplica
             first == IF replica[n] # None THEN <<>> ELSE <<a, b>>
             last == <<c>>
  <2>1. /\ Ends(t, "replica", {"unlock_replica"}, {"alloc", "publish_replica", "unlock_replica"})
        /\ UNCHANGED <<replica, replicaLock>> /\ todo'[t] = (first \o last) \o Tail(todo[t])
        /\ pc[t] = "recheck"
    BY <1>2, CallShapes DEF recheckReplica, placeVars, Then, TypeInv, Typed, At
  <2>2. todo[t] # <<>> /\ Call(t).op = "replica" /\ pc'[t] = "start" /\ Has(t, "unlock_replica")'
    BY <2>1 DEF Ends, Has
  <2>3. InReplica(t) /\ InReplica(t)'
    BY <2>1, <2>2 DEF InReplica, At
  <2>4. n \in Physical /\ NodeSource[n] \in Source /\ ReplicaSize \in Nat
    <3>1. Call(t) \in AnyCall
      BY <2>2, HeadAndTail
    <3>2. n \in Physical
      BY <2>2, <3>1, CallFields DEF AnyCall
    <3>3. QED  BY <3>2, PlaceAssumption
  <2>5. a \in AnyCall /\ b \in AnyCall /\ c \in AnyCall
    BY <2>4, AnyCallsAreTyped
  <2>6. a.op = "alloc" /\ b.op = "publish_replica" /\ b.node = n /\ c.op = "unlock_replica"
    BY DEF Alloc, PublishReplica, UnlockReplica
  <2> HIDE DEF a, b, c
  <2>7. /\ first \in Seq(AnyCall) /\ last \in Seq(AnyCall) /\ Tail(todo[t]) \in Seq(AnyCall)
        /\ Range(first) \subseteq {a, b} /\ Range(last) = {c}
        /\ replica[n] # None => Range(first) = {}
    <3>1. Range(<<>>) = {} /\ Range(<<a, b>>) = {a, b} /\ Range(<<c>>) = {c}
      BY DEF Range
    <3>2. QED  BY <2>2, <2>5, <3>1, HeadAndTail, ShortLists
  <2>8. Ops(Tail(todo[t])) \subseteq AfterCall("replica") /\ AfterCall("replica") = {}
    BY <2>2, HeadAndTail DEF AfterCall
  <2>9. Range(Tail(todo[t])) = {}
    BY <2>8 DEF Ops, Range
  <2> HIDE DEF first, last, n
  <2>10. Range(first \o last) = Range(first) \cup Range(last) /\ first \o last \in Seq(AnyCall)
    BY <2>7, RangeConcat, ShortLists
  <2> DEFINE both == first \o last
             rest == Tail(todo[t])
  <2>a. /\ both \in Seq(AnyCall) /\ rest \in Seq(AnyCall) /\ todo'[t] = both \o rest
        /\ Range(both) = Range(first) \cup Range(last) /\ Range(rest) = {}
    BY ONLY <2>1, <2>7, <2>9, <2>10
  <2> HIDE DEF both, rest
  <2>11. Range(todo'[t]) = Range(first) \cup Range(last)
    <3>1. Range(both \o rest) = Range(both) \cup Range(rest)
      BY ONLY <2>a, RangeConcat
    <3>2. QED  BY ONLY <2>a, <3>1
  <2>12. \A d \in Publishes(t)' : d.op = "publish_replica" => d = b /\ replica[n] = None
    BY <2>6, <2>7, <2>11 DEF Publishes
  <2>13. \A u \in Thread : replicaLock' = u <=> InReplica(u)'
    BY <1>a, <1>b, <2>1, <2>3
  <2>14. \A u \in Thread : \A d \in Publishes(u)' : d.op = "publish_replica" =>
             Has(u, "unlock_replica")' /\ replica'[d.node] = None
    BY <1>a, <1>b, <2>1, <2>2, <2>6, <2>12
  <2>15. QED  BY <2>1, <2>13, <2>14 DEF ReplicaInv, ReplicasLast
<1>3. CASE publishReplica(t)
  <2>1. Ends(t, "publish_replica", {}, {}) /\ todo'[t] = Tail(todo[t])
    BY <1>3, PlainShapes
  <2>2. todo[t] # <<>> /\ Call(t).op = "publish_replica" /\ pc'[t] = "start"
    BY <2>1 DEF Ends
  <2>3. replica' = [replica EXCEPT ![Call(t).node] = my[t].b] /\ replicaLock' = replicaLock
    BY <1>3 DEF publishReplica
  <2>4. Call(t) \in Publishes(t)
    <3>1. todo[t] \in Seq(AnyCall)
      BY <2>2, HeadAndTail
    <3>2. Call(t) \in Range(todo[t])
      BY <2>2, <3>1, RangeHeadTail DEF Call
    <3>3. QED  BY <2>2, <3>2 DEF Publishes
  <2>5. Has(t, "unlock_replica") /\ replica[Call(t).node] = None
    BY <1>b, <2>2, <2>4
  <2>6. Has(t, "unlock_replica")' /\ ~Has(t, "publish_replica")'
    <3>1. "publish_replica" \notin AfterCall("publish_replica")
      BY DEF AfterCall
    <3>2. Has(t, "unlock_replica")'
      BY <2>1, <2>5, EndsHas
    <3>3. /\ Ops(todo[t]) = {Call(t).op} \cup Ops(Tail(todo[t]))
          /\ Ops(Tail(todo[t])) \subseteq AfterCall("publish_replica")
      BY <2>2, HeadAndTail
    <3>4. QED  BY <2>1, <3>1, <3>2, <3>3 DEF Has
  <2>7. InReplica(t) /\ InReplica(t)'
    BY <2>5, <2>6 DEF InReplica
  <2>8. \A d \in Publishes(t)' : d.op # "publish_replica"
    BY <2>6 DEF Publishes, Has, Ops, Range
  <2>9. \A u \in Thread \ {t} : ~InReplica(u)
    BY <1>b, <2>7
  <2>10. \A u \in Thread \ {t} : \A d \in Publishes(u) : d.op # "publish_replica"
    BY <1>b, <2>9 DEF InReplica
  <2>11. \A u \in Thread : \A d \in Publishes(u)' : d.op = "publish_replica" =>
             Has(u, "unlock_replica")' /\ replica'[d.node] = None
    BY <1>a, <2>8, <2>10
  <2>12. \A u \in Thread : replicaLock' = u <=> InReplica(u)'
    BY <1>a, <1>b, <2>3, <2>7
  <2>13. ReplicasLast
    BY <1>0, <2>3, <2>5 DEF ReplicasLast
  <2>14. QED  BY <2>11, <2>12, <2>13 DEF ReplicaInv
<1>4. CASE unlockReplica(t)
  <2>1. Ends(t, "unlock_replica", {}, {}) /\ todo'[t] = Tail(todo[t])
    BY <1>4, PlainShapes
  <2>2. todo[t] # <<>> /\ Call(t).op = "unlock_replica" /\ pc'[t] = "start"
    BY <2>1 DEF Ends
  <2>3. replicaLock' = None /\ replica' = replica
    BY <1>4 DEF unlockReplica
  <2>4. /\ Ops(todo[t]) = {"unlock_replica"} \cup Ops(Tail(todo[t]))
        /\ Ops(Tail(todo[t])) \subseteq AfterCall("unlock_replica")
    BY <2>2, HeadAndTail
  <2>5. {"unlock_replica", "publish_replica"} \cap AfterCall("unlock_replica") = {}
    BY DEF AfterCall
  <2>6. Has(t, "unlock_replica") /\ ~Has(t, "unlock_replica")' /\ ~Has(t, "publish_replica")'
    BY <2>1, <2>4, <2>5 DEF Has
  <2>7. InReplica(t) /\ ~InReplica(t)'
    BY <2>2, <2>6 DEF InReplica, At
  <2>8. \A d \in Publishes(t)' : d.op # "publish_replica"
    BY <2>6 DEF Publishes, Has, Ops, Range
  <2>9. \A u \in Thread : replicaLock' = u <=> InReplica(u)'
    BY <1>0, <1>a, <1>b, <2>3, <2>7
  <2>10. \A u \in Thread : \A d \in Publishes(u)' : d.op = "publish_replica" =>
             Has(u, "unlock_replica")' /\ replica'[d.node] = None
    BY <1>a, <1>b, <2>3, <2>8
  <2>11. QED  BY <2>3, <2>9, <2>10 DEF ReplicaInv, ReplicasLast
<1>5. QED  BY <1>1, <1>2, <1>3, <1>4 DEF ReplicaStep

(* The locks, in every step.                                               *)
LEMMA StepKeepsLocks ==
    ASSUME BaseInv, LocalInv, ReplicaInv, NEW t \in Thread, Step(t)
    PROVE  LocalInv' /\ ReplicaInv' /\ SourcesLast /\ ReplicasLast
<1>1. CASE LocalStep(t)
  <2>1. LocalInv' /\ SourcesLast
    BY <1>1, LocalSteps
  <2>2. ReplicaQuiet(t)
    BY <1>1, LocalStepsQuiet
  <2>3. ReplicaInv' /\ ReplicasLast
    BY <2>2, ReplicaKept DEF ReplicaQuiet, ReplicasLast
  <2>4. QED  BY <2>1, <2>3
<1>2. CASE ReplicaStep(t)
  <2>1. ReplicaInv' /\ ReplicasLast
    BY <1>2, ReplicaSteps
  <2>2. LocalQuiet(t)
    BY <1>2, ReplicaStepsQuiet
  <2>3. LocalInv' /\ SourcesLast
    BY <2>2, LocalKept DEF LocalQuiet, SourcesLast
  <2>4. QED  BY <2>1, <2>3
<1>3. CASE ~LocalStep(t) /\ ~ReplicaStep(t)
  <2>1. LocalQuiet(t) /\ ReplicaQuiet(t)
    BY <1>3, QuietLocks DEF LocalQuiet, ReplicaQuiet, LockOps
  <2>2. LocalInv' /\ ReplicaInv'
    BY <2>1, LocalKept, ReplicaKept
  <2>3. SourcesLast /\ ReplicasLast
    BY <2>1 DEF LocalQuiet, ReplicaQuiet, SourcesLast, ReplicasLast
  <2>4. QED  BY <2>2, <2>3
<1>4. QED  BY <1>1, <1>2, <1>3

(* The current source.                                                     *)
CurrentOf(t) == tls[t].state = "done" /\ ~Has(t, "curr") => current[t] = get_curr_msource(t)
CurrentInv == \A t \in Thread : CurrentOf(t)

(* A thread whose storage does not change keeps its current source while
   published sources last.                                                 *)
LEMMA SameTop ==
    ASSUME BaseInv, NEW t \in Thread, tls'[t] = tls[t], SourcesLast,
           current'[t] = current[t], current[t] = get_curr_msource(t)
    PROVE  current'[t] = get_curr_msource(t)'
<1>1. /\ current[t] # None /\ HomeOf[t] \in Physical
      /\ tls[t].stack # <<>> /\ Last(tls[t].stack).msource = None => Last(tls[t].stack).node \in Physical
  <2>1. current[t] \in Born /\ None \notin Born
    BY PlaceSourceTypes DEF BaseInv, TypeInv, Typed
  <2>2. QED  BY <2>1, PlaceSourceTypes DEF BaseInv
<1>2. CASE tls[t].stack = <<>>
  BY <1>2 DEF get_curr_msource
<1>3. CASE tls[t].stack # <<>>
  <2> DEFINE p == Last(tls[t].stack)
  <2>1. get_place_msource(t, p) # None
    BY <1>1, <1>3 DEF get_curr_msource
  <2>2. p.msource # None \/ p.node = HomeOf[t]
        \/ msources'[HomeOf[t]][p.node] = msources[HomeOf[t]][p.node]
    <3>1. CASE p.msource = None /\ p.node # HomeOf[t]
      <4>1. msources[HomeOf[t]][p.node] # None
        BY <2>1, <3>1 DEF get_place_msource
      <4>2. QED  BY <1>1, <1>3, <3>1, <4>1 DEF SourcesLast
    <3>2. QED  BY <3>1
  <2>3. QED  BY <1>3, <2>2 DEF get_curr_msource, get_place_msource
<1>4. QED  BY <1>2, <1>3

(* Every step keeps the current source the one of the top of the stack,
   except between a change of the stack and the call of set_curr_msource
   that follows it.                                                        *)
LEMMA StepKeepsCurrent ==
    ASSUME BaseInv, LocalInv, ReplicaInv, CurrentInv, NEW t \in Thread, Step(t)
    PROVE  CurrentInv'
<1> USE DEF BaseInv
<1>0. /\ SourcesLast /\ DOMAIN tls = Thread /\ DOMAIN current = Thread
  BY StepKeepsLocks DEF TypeInv, Typed
<1>a. todo[t] = <<>> => \A op : ~Has(t, op)
  BY OpsFacts DEF Has
<1>1. ASSUME NEW u \in Thread, u # t PROVE CurrentOf(u)'
  <2>1. /\ todo'[u] = todo[u] /\ current'[u] = current[u] /\ tls'[u] = tls[u]
    BY <1>1, OthersKeep
  <2>2. CurrentOf(u)
    BY DEF CurrentInv
  <2>3. Has(u, "curr")' <=> Has(u, "curr")
    BY <2>1 DEF Has
  <2>4. QED  BY <1>0, <2>1, <2>2, <2>3, SameTop DEF CurrentOf
<1> SUFFICES CurrentOf(t)'
  BY <1>1 DEF CurrentInv
<1>b. ASSUME tls'[t] = tls[t], current'[t] = current[t], Has(t, "curr")' <=> Has(t, "curr")
      PROVE  CurrentOf(t)'
  <2>1. CurrentOf(t)
    BY DEF CurrentInv
  <2>2. QED  BY <1>0, <1>b, <2>1, SameTop DEF CurrentOf
<1>2. CASE SourceStep(t) /\ UNCHANGED placeVars
  <2>1. /\ todo[t] # <<>> /\ Call(t).op \in SourceOps /\ tls' = tls /\ current' = current
        /\ (\E label : Stays(t, label)) \/ Ends(t, Call(t).op, {}, {})
    BY <1>2, SourceStepShape DEF placeVars
  <2>2. "curr" \notin SourceOps /\ "curr" \notin {}
    BY DEF SourceOps
  <2>3. CASE \E label : Stays(t, label)
    BY <1>b, <2>1, <2>3 DEF Stays, Has
  <2>4. CASE Ends(t, Call(t).op, {}, {})
    BY <1>b, <2>1, <2>2, <2>4, EndsHas
  <2>5. QED  BY <2>1, <2>3, <2>4
<1>3. CASE PlainOpens(t)
  <2>1. \E op : Opens(t, op, {}, {"alloc", "free", "free_old", "ref", "bind", "unref", "migrate", "replica"})
    BY <1>3, PlainOpensShape
  <2>2. "curr" \notin {"alloc", "free", "free_old", "ref", "bind", "unref", "migrate", "replica"}
    OBVIOUS
  <2>3. Has(t, "curr")' <=> Has(t, "curr")
    BY <2>1, <2>2, OpensHas
  <2>4. QED  BY <1>3, <1>b, <2>3, PlainOpensShape
<1>4. CASE PlainEnds(t)
  <2>1. PICK op : /\ Ends(t, op, {}, {"free", "alloc", "publish_replica", "unlock_replica"})
                  /\ op \notin StorageOps
    BY <1>4, PlainEndsShape
  <2>2. "curr" \notin {"free", "alloc", "publish_replica", "unlock_replica"} /\ "curr" # op
    BY <2>1 DEF StorageOps
  <2>3. Has(t, "curr")' <=> Has(t, "curr")
    BY <2>1, <2>2, EndsHas
  <2>4. QED  BY <1>4, <1>b, <2>3, PlainEndsShape
<1>5. CASE getTls(t)
  <2>1. tls[t].state = "none" /\ tls' = tls
    BY <1>5 DEF getTls
  <2>2. QED  BY <2>1 DEF CurrentOf
<1>6. CASE construct(t)
  <2>1. tls' = [tls EXCEPT ![t].state = "constructed", ![t].block = my[t].b]
    BY <1>6 DEF construct
  <2>2. tls'[t].state = "constructed"
    <3>1. tls[t] \in TlsType(Born, DOMAIN chunk)
      BY DEF TypeInv, Typed
    <3>2. QED  BY <1>0, <2>1, <3>1 DEF TlsType
  <2>3. QED  BY <2>2 DEF CurrentOf
<1>7. CASE init(t) \/ keep(t)
  <2>1. Has(t, "curr")'
    <3>1. CASE init(t)
      <4>1. Ends(t, "init", {}, {"ref", "unref"})
        BY <3>1, CallShapes
      <4>2. Has(t, "init")
        BY <4>1, HeadAndTail DEF Ends, Has
      <4>3. Has(t, "curr") /\ "curr" \notin {"ref", "unref"} /\ "curr" # "init"
        BY <4>2 DEF TlsInv, TlsOf
      <4>4. QED  BY <4>1, <4>3, EndsHas
    <3>2. CASE keep(t)
      BY <3>2, CallShapes DEF Ends, Has
    <3>3. QED  BY <1>7, <3>1, <3>2
  <2>2. QED  BY <2>1 DEF CurrentOf
<1>8. CASE setCurrent(t)
  <2>1. /\ todo[t] # <<>> /\ Call(t).op = "curr" /\ tls' = tls /\ msources' = msources
    BY <1>8 DEF setCurrent, At, placeVars
  <2>2. CASE get_curr_msource(t) = None /\ Stays(t, "lock")
    <3>1. todo'[t] = todo[t] /\ current' = current
      BY <1>8, <2>2 DEF Stays, setCurrent
    <3>2. QED  BY <1>b, <2>1, <3>1 DEF Has
  <2>3. CASE get_curr_msource(t) # None
    <3>1. current'[t] = get_curr_msource(t)
      BY <1>0, <1>8, <2>3 DEF setCurrent
    <3>2. get_curr_msource(t)' = get_curr_msource(t)
      BY <2>1 DEF get_curr_msource, get_place_msource
    <3>3. QED  BY <3>1, <3>2 DEF CurrentOf
  <2>4. QED  BY <1>8, <2>2, <2>3, CallShapes
<1>9. CASE lockLocal(t) \/ lockReplica(t)
  <2>1. /\ todo'[t] = todo[t] /\ tls' = tls /\ current' = current
    BY <1>9, PlainShapes DEF lockLocal, lockReplica, sourceVarsButCalls, Stays
  <2>2. QED  BY <1>b, <2>1 DEF Has
<1>10. CASE recheckLocal(t)
  <2>1. /\ tls' = tls /\ current' = current
        /\ Ops(todo[t]) \subseteq Ops(todo'[t])
        /\ Ops(todo'[t]) \subseteq Ops(todo[t]) \cup {"ref", "publish_local", "unlock_local"}
    BY <1>10, RecheckShape, ZenonT(60) DEF recheckLocal, placeVars
  <2>2. Has(t, "curr")' <=> Has(t, "curr")
    BY <2>1 DEF Has
  <2>3. QED  BY <1>b, <2>1, <2>2
<1>11. CASE push(t) \/ pop(t) \/ push_all(t)
  <2>1. Has(t, "curr")'
    BY <1>11, StackShapes DEF Opens, Has
  <2>2. QED  BY <2>1 DEF CurrentOf
<1>12. CASE pop_all(t)
  <2>1. Opens(t, "save", {"keep"}, {"alloc", "keep"}) /\ tls' = tls /\ current' = current
    BY <1>12, StackShapes DEF pop_all, sourceVarsButCalls
  <2>2. "curr" \notin {"alloc", "keep"}
    OBVIOUS
  <2>3. Has(t, "curr")' <=> Has(t, "curr")
    BY <2>1, <2>2, OpensHas
  <2>4. QED  BY <1>b, <2>1, <2>3
<1>13. CASE tlsDestructionFunc(t)
  <2>1. tls' = [tls EXCEPT ![t] = NoStorage]
    BY <1>13 DEF tlsDestructionFunc
  <2>2. tls'[t].state = "none"
    BY <1>0, <2>1 DEF NoStorage
  <2>3. QED  BY <2>2 DEF CurrentOf
<1>14. QED
  BY <1>2, <1>3, <1>4, <1>5, <1>6, <1>7, <1>8, <1>9, <1>10, <1>11, <1>12, <1>13, StepCases

OnceInv == BaseInv /\ LocalInv /\ ReplicaInv /\ CurrentInv

(* The invariant holds at the start.                                       *)
LEMMA InitOnce == Init => OnceInv
<1> SUFFICES ASSUME Init PROVE OnceInv
  OBVIOUS
<1>1. BaseInv
  BY InitBase
<1>2. \A t \in Thread : todo[t] = <<>> /\ tls[t].state = "none"
  BY DEF Init, NoStorage
<1>3. \A t \in Thread : \A op : ~Has(t, op)
  BY <1>2, OpsFacts DEF Has
<1>4. \A t \in Thread : Publishes(t) = {} /\ ~InLocal(t) /\ ~InReplica(t)
  BY <1>2, <1>3 DEF Publishes, Has, Ops, Range, InLocal, InReplica, At
<1>5. (\A n \in Physical : nodeLock[n] = None) /\ replicaLock = None /\ None \notin Thread
  BY CountAssumption DEF Init
<1>6. LocalInv /\ ReplicaInv
  BY <1>4, <1>5 DEF LocalInv, ReplicaInv
<1>7. CurrentInv
  BY <1>2 DEF CurrentInv, CurrentOf
<1>8. QED  BY <1>1, <1>6, <1>7 DEF OnceInv

(* Every step keeps the invariant.                                         *)
LEMMA StepOnce ==
    ASSUME OnceInv, [Next]_vars
    PROVE  OnceInv'
<1> USE DEF OnceInv
<1>1. CASE Next
  <2>1. PICK t \in Thread : Step(t)
    BY <1>1 DEF Next
  <2>2. QED  BY <2>1, StepBase, StepKeepsLocks, StepKeepsCurrent
<1>2. CASE UNCHANGED vars
  <2> USE <1>2 DEF vars, sourceVars, sourceVarsButCalls, placeVars
  <2>1. TypeInv'
    BY DEF BaseInv, TypeInv, Typed, Chunked, Born, Unborn
  <2>2. PcInv' /\ OrderInv' /\ TlsInv'
    BY DEF BaseInv, PcInv, OrderInv, TlsInv, TlsOf, Has, At, Call
  <2>3. LocalInv' /\ ReplicaInv'
    BY DEF LocalInv, ReplicaInv, InLocal, InReplica, Has, At, Call, Publishes
  <2>4. CurrentInv'
    BY DEF CurrentInv, CurrentOf, Has, get_curr_msource, get_place_msource
  <2>5. QED  BY <2>1, <2>2, <2>3, <2>4 DEF BaseInv
<1>3. QED  BY <1>1, <1>2

(* The inductive invariant of sources and places: the types, the labels and
   the order of pending calls, the stages of each thread's storage, the
   exclusiveness of the two creation locks, and the current source of every
   thread.                                                                 *)
THEOREM PlacesInvariant == Spec => []OnceInv
<1>1. Init => OnceInv
  BY InitOnce
<1>2. OnceInv /\ [Next]_vars => OnceInv'
  BY StepOnce
<1>3. QED  BY <1>1, <1>2, PTL DEF Spec

(* The source a thread allocates from is the one of the place on top of its
   stack whenever it is between operations (curr_msource in
   stackedmalloc.cpp), for any number of threads, nodes, sources and tasks.*)
THEOREM CurrentIsRight == Spec => []CurrentIsTop
<1>1. OnceInv => CurrentIsTop
  <2> SUFFICES ASSUME OnceInv, NEW t \in Thread, todo[t] = <<>>, tls[t].state = "done"
               PROVE  current[t] = get_curr_msource(t)
    BY DEF CurrentIsTop
  <2>1. ~Has(t, "curr")
    BY OpsFacts DEF Has
  <2>2. QED  BY <2>1 DEF OnceInv, CurrentInv, CurrentOf
<1>2. QED  BY <1>1, PlacesInvariant, PTL

(* A node's local source and a node's replica are created at most once,
   however many threads ask for them at the same time: what is published is
   never replaced.                                                         *)
THEOREM CreationIsUnique == Spec => CreatedOnce
<1> DEFINE A == /\ \A n, m \in Physical : msources[n][m] # None =>
                      msources'[n][m] = msources[n][m]
                /\ \A n \in Physical : replica[n] # None => replica'[n] = replica[n]
<1>1. OnceInv /\ [Next]_vars => [A]_vars
  <2> SUFFICES ASSUME OnceInv, Next PROVE A
    OBVIOUS
  <2>1. PICK t \in Thread : Step(t)
    BY DEF Next
  <2>2. SourcesLast /\ ReplicasLast
    BY <2>1, StepKeepsLocks DEF OnceInv
  <2>3. QED  BY <2>2 DEF SourcesLast, ReplicasLast
<1>2. QED  BY <1>1, PlacesInvariant, PTL DEF Spec, CreatedOnce

(* How often a list of calls has a call of one name on one source; what a  *)
(* list still adds to the references, less what it takes; and the blocks   *)
(* it gives back.                                                          *)
CountOf(q, s, op) == Cardinality({i \in DOMAIN q : q[i].op = op /\ q[i].s = s})
Weight(q, s) == CountOf(q, s, "bind") + CountOf(q, s, "publish_local")
                + CountOf(q, s, "unref") - CountOf(q, s, "ref")
Freeing(q, s) == CountOf(q, s, "free")
Worth(c, s) == IF c.op \in {"bind", "publish_local", "unref"} /\ c.s = s THEN 1
               ELSE IF c.op = "ref" /\ c.s = s THEN -1 ELSE 0
Frees(c, s) == IF c.op = "free" /\ c.s = s THEN 1 ELSE 0

(* Calls are counted as elements of a list in a set.                       *)
LEMMA CountIsWhere ==
    ASSUME NEW T, NEW q \in Seq(T), NEW s, NEW op
    PROVE  CountOf(q, s, op) = Where(q, {c \in T : c.op = op /\ c.s = s})
<1> DEFINE V == {c \in T : c.op = op /\ c.s = s}
<1>1. \A i \in DOMAIN q : q[i] \in T
  OBVIOUS
<1>2. {i \in DOMAIN q : q[i].op = op /\ q[i].s = s} = {i \in DOMAIN q : q[i] \in V}
  BY <1>1
<1>3. QED  BY <1>2 DEF CountOf, Where

(* Their number is a number.                                               *)
LEMMA CountType ==
    ASSUME NEW T, NEW q \in Seq(T), NEW s, NEW op
    PROVE  CountOf(q, s, op) \in Nat
<1> DEFINE V == {c \in T : c.op = op /\ c.s = s}
<1>1. CountOf(q, s, op) = Where(q, V)
  BY CountIsWhere
<1> HIDE DEF V
<1>2. QED  BY <1>1, WhereType

(* The number in two lists, the one after the other.                       *)
LEMMA CountConcat ==
    ASSUME NEW T, NEW p \in Seq(T), NEW q \in Seq(T), NEW s, NEW op
    PROVE  CountOf(p \o q, s, op) = CountOf(p, s, op) + CountOf(q, s, op)
<1> DEFINE V == {c \in T : c.op = op /\ c.s = s}
<1>1. p \o q \in Seq(T)
  OBVIOUS
<1>2. ASSUME NEW r \in Seq(T) PROVE CountOf(r, s, op) = Where(r, V)
  BY CountIsWhere
<1> HIDE DEF V
<1>3. /\ CountOf(p \o q, s, op) = Where(p \o q, V)
      /\ CountOf(p, s, op) = Where(p, V) /\ CountOf(q, s, op) = Where(q, V)
  BY <1>1, <1>2
<1>4. QED  BY <1>3, WhereConcat

(* The number in the empty list, and in a list of one.                     *)
LEMMA CountEmpty ==
    ASSUME NEW s, NEW op
    PROVE  CountOf(<<>>, s, op) = 0
<1>1. {i \in DOMAIN <<>> : <<>>[i].op = op /\ <<>>[i].s = s} = {}
  OBVIOUS
<1>2. QED  BY <1>1, FS_EmptySet DEF CountOf

(* The number in a list of one call.                                       *)
LEMMA CountOne ==
    ASSUME NEW c, NEW s, NEW op
    PROVE  CountOf(<<c>>, s, op) = IF c.op = op /\ c.s = s THEN 1 ELSE 0
<1> DEFINE T == {c}
           V == {d \in T : d.op = op /\ d.s = s}
<1>1. <<c>> \in Seq(T)
  OBVIOUS
<1>2. ASSUME NEW r \in Seq(T) PROVE CountOf(r, s, op) = Where(r, V)
  <2> HIDE DEF T
  <2>1. QED  BY CountIsWhere
<1>3. c \in V <=> c.op = op /\ c.s = s
  OBVIOUS
<1> HIDE DEF V
<1>4. CountOf(<<c>>, s, op) = Where(<<c>>, V)
  BY <1>1, <1>2
<1>5. QED  BY <1>3, <1>4, WhereOne

(* The weight of a list is the sum of the worth of its calls.              *)
LEMMA WeightType ==
    ASSUME NEW T, NEW q \in Seq(T), NEW s
    PROVE  Weight(q, s) \in Int /\ Freeing(q, s) \in Nat
<1>1. \A op : CountOf(q, s, op) \in Nat
  BY CountType
<1>2. QED  BY <1>1 DEF Weight, Freeing

(* Lists weigh together what they weigh apart.                             *)
LEMMA WeightConcat ==
    ASSUME NEW T, NEW p \in Seq(T), NEW q \in Seq(T), NEW s
    PROVE  /\ Weight(p \o q, s) = Weight(p, s) + Weight(q, s)
           /\ Freeing(p \o q, s) = Freeing(p, s) + Freeing(q, s)
<1> DEFINE a(op) == CountOf(p, s, op)
           b(op) == CountOf(q, s, op)
           c(op) == CountOf(p \o q, s, op)
<1>1. ASSUME NEW op PROVE a(op) \in Nat /\ b(op) \in Nat /\ c(op) = a(op) + b(op)
  BY CountType, CountConcat
<1>2. /\ Weight(p, s) = a("bind") + a("publish_local") + a("unref") - a("ref")
      /\ Weight(q, s) = b("bind") + b("publish_local") + b("unref") - b("ref")
      /\ Weight(p \o q, s) = c("bind") + c("publish_local") + c("unref") - c("ref")
      /\ Freeing(p, s) = a("free") /\ Freeing(q, s) = b("free") /\ Freeing(p \o q, s) = c("free")
  BY DEF Weight, Freeing
<1> HIDE DEF a, b, c
<1> DEFINE a1 == a("bind")  a2 == a("publish_local")  a3 == a("unref")  a4 == a("ref")
           b1 == b("bind")  b2 == b("publish_local")  b3 == b("unref")  b4 == b("ref")
           c1 == c("bind")  c2 == c("publish_local")  c3 == c("unref")  c4 == c("ref")
<1>3. /\ a1 \in Nat /\ a2 \in Nat /\ a3 \in Nat /\ a4 \in Nat
      /\ b1 \in Nat /\ b2 \in Nat /\ b3 \in Nat /\ b4 \in Nat
      /\ c1 = a1 + b1 /\ c2 = a2 + b2 /\ c3 = a3 + b3 /\ c4 = a4 + b4
      /\ Weight(p, s) = a1 + a2 + a3 - a4 /\ Weight(q, s) = b1 + b2 + b3 - b4
      /\ Weight(p \o q, s) = c1 + c2 + c3 - c4
  BY ONLY <1>1, <1>2
<1>4. Freeing(p \o q, s) = Freeing(p, s) + Freeing(q, s)
  BY ONLY <1>1, <1>2
<1> HIDE DEF a1, a2, a3, a4, b1, b2, b3, b4, c1, c2, c3, c4
<1>5. Weight(p \o q, s) = Weight(p, s) + Weight(q, s)
  BY ONLY <1>3
<1>6. QED  BY <1>4, <1>5

(* The empty list weighs nothing.                                          *)
LEMMA WeightEmpty ==
    ASSUME NEW s
    PROVE  Weight(<<>>, s) = 0 /\ Freeing(<<>>, s) = 0
<1>1. \A op : CountOf(<<>>, s, op) = 0
  BY CountEmpty
<1>2. QED  BY <1>1 DEF Weight, Freeing

(* A list of one call weighs what the call is worth.                       *)
LEMMA WeightOne ==
    ASSUME NEW c, NEW s
    PROVE  Weight(<<c>>, s) = Worth(c, s) /\ Freeing(<<c>>, s) = Frees(c, s)
<1>1. \A op : CountOf(<<c>>, s, op) = IF c.op = op /\ c.s = s THEN 1 ELSE 0
  BY CountOne
<1>2. QED  BY <1>1 DEF Weight, Freeing, Worth, Frees

(* The weight of the first call and that of the rest.                      *)
LEMMA WeightHeadTail ==
    ASSUME NEW T, NEW q \in Seq(T), q # <<>>, NEW s
    PROVE  /\ Weight(q, s) = Worth(Head(q), s) + Weight(Tail(q), s)
           /\ Freeing(q, s) = Frees(Head(q), s) + Freeing(Tail(q), s)
           /\ Weight(Tail(q), s) \in Int /\ Freeing(Tail(q), s) \in Nat
<1> DEFINE h == Head(q)
           r == Tail(q)
           p == <<h>>
<1>1. h \in T /\ r \in Seq(T) /\ p \in Seq(T) /\ q = p \o r
  OBVIOUS
<1> HIDE DEF r
<1>2. Weight(p, s) = Worth(h, s) /\ Freeing(p, s) = Frees(h, s)
  BY WeightOne
<1> HIDE DEF p, h
<1>3. Weight(p \o r, s) = Weight(p, s) + Weight(r, s) /\ Freeing(p \o r, s) = Freeing(p, s) + Freeing(r, s)
  BY <1>1, WeightConcat
<1>4. Weight(r, s) \in Int /\ Freeing(r, s) \in Nat
  BY <1>1, WeightType
<1>5. QED  BY <1>1, <1>2, <1>3, <1>4 DEF h, r

(* What the single calls are worth.                                        *)
LEMMA WorthOfCalls ==
    ASSUME NEW s
    PROVE  /\ \A x : /\ Worth(Ref(x), s) = -One(x = s) /\ Worth(FirstRef(x), s) = -One(x = s)
                     /\ Worth(Unref(x), s) = One(x = s)
           /\ \A h, x : Worth(Bind(h, x), s) = One(x = s)
           /\ \A x, n : Worth(PublishLocal(x, n), s) = One(x = s)
           /\ \A c : c.op \notin {"ref", "unref", "bind", "publish_local"} => Worth(c, s) = 0
           /\ \A b : Frees(Dealloc(b), s) = One(chunk[b].source = s)
           /\ \A c : c.op # "free" => Frees(c, s) = 0
<1>1. \A x : Worth(Ref(x), s) = -One(x = s) /\ Worth(FirstRef(x), s) = -One(x = s)
  BY DEF Worth, Ref, FirstRef, One
<1>2. \A x : Worth(Unref(x), s) = One(x = s)
  BY DEF Worth, Unref, One
<1>3. \A h, x : Worth(Bind(h, x), s) = One(x = s)
  BY DEF Worth, Bind, One
<1>4. \A x, n : Worth(PublishLocal(x, n), s) = One(x = s)
  BY DEF Worth, PublishLocal, One
<1>5. \A c : c.op \notin {"ref", "unref", "bind", "publish_local"} => Worth(c, s) = 0
  BY DEF Worth
<1>6. \A b : Frees(Dealloc(b), s) = One(chunk[b].source = s)
  BY DEF Frees, Dealloc, One
<1>7. \A c : c.op # "free" => Frees(c, s) = 0
  BY DEF Frees
<1>8. QED  BY <1>1, <1>2, <1>3, <1>4, <1>5, <1>6, <1>7

(* What a call is worth is a number.                                       *)
LEMMA WorthType ==
    ASSUME NEW c, NEW s
    PROVE  Worth(c, s) \in {-1, 0, 1} /\ Frees(c, s) \in {0, 1}
BY DEF Worth, Frees

(* A condition counts for nothing or for one.                              *)
LEMMA OneType == \A b : One(b) \in {0, 1}
BY DEF One

(* A list of two is two lists of one.                                      *)
LEMMA OneThenOne == \A a, b : <<a>> \o <<b>> = <<a, b>>
<1> SUFFICES ASSUME NEW a, NEW b PROVE <<a>> \o <<b>> = <<a, b>>
  OBVIOUS
<1> DEFINE T == {a, b}  p == <<a>>  q == <<b>>  r == <<a, b>>  l == p \o q
<1>1. p \in Seq(T) /\ q \in Seq(T) /\ r \in Seq(T) /\ Len(p) = 1 /\ Len(q) = 1 /\ Len(r) = 2
  OBVIOUS
<1>2. p[1] = a /\ q[1] = b /\ r[1] = a /\ r[2] = b
  OBVIOUS
<1> HIDE DEF p, q, r, T
<1>3. /\ l \in Seq(T) /\ Len(l) = Len(p) + Len(q)
      /\ \A i \in 1 .. Len(p) : l[i] = p[i]
      /\ \A i \in 1 .. Len(p) + Len(q) : i > Len(p) => l[i] = q[i - Len(p)]
  BY ONLY <1>1, ConcatFacts
<1> HIDE DEF l
<1>4. Len(l) = 2 /\ 1 \in 1 .. Len(p) /\ 2 \in 1 .. Len(p) + Len(q) /\ 2 > Len(p) /\ 2 - Len(p) = 1
  BY ONLY <1>1, <1>3
<1>5. l[1] = a /\ l[2] = b
  BY ONLY <1>2, <1>3, <1>4
<1>6. l = r
  <2>1. \A i \in 1 .. 2 : l[i] = r[i]
    BY ONLY <1>2, <1>5
  <2>2. \A x \in Seq(T) : x \in [1 .. Len(x) -> T]
    OBVIOUS
  <2>3. l \in [1 .. 2 -> T] /\ r \in [1 .. 2 -> T]
    BY ONLY <2>2, <1>1, <1>3, <1>4
  <2>4. QED  BY ONLY <2>1, <2>3
<1>7. QED  BY <1>6 DEF p, q, r, l

(* The weight of short lists.                                              *)
LEMMA WeightTwo ==
    ASSUME NEW a, NEW b, NEW s
    PROVE  /\ Weight(<<a, b>>, s) = Worth(a, s) + Worth(b, s)
           /\ Freeing(<<a, b>>, s) = Frees(a, s) + Frees(b, s)
<1> DEFINE T == {a, b}
           p == <<a>>
           q == <<b>>
<1>1. p \in Seq(T) /\ q \in Seq(T) /\ <<a, b>> = p \o q
  <2>1. p \in Seq(T)
    OBVIOUS
  <2>2. q \in Seq(T)
    OBVIOUS
  <2>3. <<a, b>> = <<a>> \o <<b>>
    BY OneThenOne
  <2>4. QED  BY <2>1, <2>2, <2>3
<1>2. /\ Weight(p, s) = Worth(a, s) /\ Freeing(p, s) = Frees(a, s)
      /\ Weight(q, s) = Worth(b, s) /\ Freeing(q, s) = Frees(b, s)
  BY WeightOne
<1> HIDE DEF T, p, q
<1>3. Weight(p \o q, s) = Weight(p, s) + Weight(q, s) /\ Freeing(p \o q, s) = Freeing(p, s) + Freeing(q, s)
  BY <1>1, WeightConcat
<1>4. QED  BY <1>1, <1>2, <1>3

(* The weight of a list of three calls.                                    *)
LEMMA WeightThree ==
    ASSUME NEW a, NEW b, NEW c, NEW s
    PROVE  /\ Weight(<<a, b, c>>, s) = Worth(a, s) + Worth(b, s) + Worth(c, s)
           /\ Freeing(<<a, b, c>>, s) = Frees(a, s) + Frees(b, s) + Frees(c, s)
<1> DEFINE T == {a, b, c}
           p == <<a, b>>
           q == <<c>>
<1>1. p \in Seq(T) /\ q \in Seq(T) /\ <<a, b, c>> = p \o q
  BY PairThenOne
<1>2. /\ Weight(p, s) = Worth(a, s) + Worth(b, s) /\ Freeing(p, s) = Frees(a, s) + Frees(b, s)
      /\ Weight(q, s) = Worth(c, s) /\ Freeing(q, s) = Frees(c, s)
  BY WeightOne, WeightTwo
<1> HIDE DEF T, p, q
<1>3. Weight(p \o q, s) = Weight(p, s) + Weight(q, s) /\ Freeing(p \o q, s) = Freeing(p, s) + Freeing(q, s)
  BY <1>1, WeightConcat
<1>4. QED  BY <1>1, <1>2, <1>3

(* The places of a stack that refer to a source, counted.                  *)
LEMMA InStackIsWhere ==
    ASSUME NEW S, NEW p \in Seq(PlaceType(S)), NEW s
    PROVE  InStack(p, s) = Where(p, {x \in PlaceType(S) : x.msource = s})
<1> DEFINE V == {x \in PlaceType(S) : x.msource = s}
<1>1. \A i \in DOMAIN p : p[i] \in PlaceType(S)
  OBVIOUS
<1>2. {i \in DOMAIN p : p[i].msource = s} = {i \in DOMAIN p : p[i] \in V}
  BY <1>1
<1>3. QED  BY <1>2 DEF InStack, Where

(* The places of a stack that refer to a source, from its top and the rest.*)
LEMMA InStackFacts ==
    ASSUME NEW S, NEW p \in Seq(PlaceType(S)), NEW s
    PROVE  /\ InStack(p, s) \in Nat
           /\ \A x \in PlaceType(S) : InStack(<<x>>, s) = One(x.msource = s)
           /\ p # <<>> => InStack(p, s) = InStack(Front(p), s) + InStack(<<Last(p)>>, s)
           /\ InStack(<<>>, s) = 0
<1> DEFINE P == PlaceType(S)
           V == {x \in P : x.msource = s}
<1> HIDE DEF P
<1>p. p \in Seq(P)
  BY DEF P
<1>1. ASSUME NEW q \in Seq(P) PROVE InStack(q, s) = Where(q, V)
  BY InStackIsWhere DEF P
<1>v. \A x \in P : x \in V <=> x.msource = s
  OBVIOUS
<1> HIDE DEF V
<1>2. InStack(p, s) \in Nat
  <2>1. InStack(p, s) = Where(p, V)
    BY <1>1, <1>p
  <2>2. QED  BY <1>p, <2>1, WhereType
<1>4. ASSUME NEW x \in P PROVE InStack(<<x>>, s) = One(x.msource = s)
  <2>1. <<x>> \in Seq(P)
    OBVIOUS
  <2>2. InStack(<<x>>, s) = Where(<<x>>, V)
    BY <1>1, <2>1
  <2>3. QED  BY <1>v, <2>2, WhereOne DEF One
<1>6. InStack(<<>>, s) = 0
  <2>1. <<>> \in Seq(P)
    OBVIOUS
  <2>2. InStack(<<>>, s) = Where(<<>>, V)
    BY <1>1, <2>1
  <2>3. QED  BY <2>2, WhereEmpty
<1>7. ASSUME p # <<>> PROVE InStack(p, s) = InStack(Front(p), s) + InStack(<<Last(p)>>, s)
  <2>1. /\ Front(p) \in Seq(P) /\ Last(p) \in P
        /\ Where(p, V) = Where(Front(p), V) + (IF Last(p) \in V THEN 1 ELSE 0)
    BY <1>p, <1>7, WhereFrontLast
  <2>2. InStack(p, s) = Where(p, V) /\ InStack(Front(p), s) = Where(Front(p), V)
    BY <1>1, <1>p, <2>1
  <2>3. InStack(<<Last(p)>>, s) = IF Last(p) \in V THEN 1 ELSE 0
    BY <1>4, <1>v, <2>1 DEF One
  <2>4. QED  BY <2>1, <2>2, <2>3
<1>8. QED  BY <1>2, <1>4, <1>6, <1>7 DEF P

(* Two stacks in one, and a stack with a place more.                       *)
LEMMA StackJoins ==
    ASSUME NEW S, NEW p \in Seq(PlaceType(S)), NEW q \in Seq(PlaceType(S)), NEW s
    PROVE  InStack(p \o q, s) = InStack(p, s) + InStack(q, s)
<1> DEFINE P == PlaceType(S)
           V == {x \in P : x.msource = s}
<1>1. ASSUME NEW r \in Seq(P) PROVE InStack(r, s) = Where(r, V)
  BY InStackIsWhere
<1> HIDE DEF P, V
<1>2. p \in Seq(P) /\ q \in Seq(P)
  BY DEF P
<1>3. p \o q \in Seq(P)
  BY <1>2
<1>4. InStack(p \o q, s) = Where(p \o q, V) /\ InStack(p, s) = Where(p, V) /\ InStack(q, s) = Where(q, V)
  BY <1>1, <1>2, <1>3
<1>5. Where(p \o q, V) = Where(p, V) + Where(q, V)
  BY <1>2, WhereConcat
<1>6. QED  BY <1>4, <1>5

(* A place that is pushed adds what it refers to.                          *)
LEMMA StackGrows ==
    ASSUME NEW S, NEW p \in Seq(PlaceType(S)), NEW x \in PlaceType(S), NEW s
    PROVE  InStack(Append(p, x), s) = InStack(p, s) + InStack(<<x>>, s)
<1>1. <<x>> \in Seq(PlaceType(S)) /\ Append(p, x) = p \o <<x>>
  OBVIOUS
<1>2. InStack(p \o <<x>>, s) = InStack(p, s) + InStack(<<x>>, s)
  BY <1>1, StackJoins
<1>3. QED  BY <1>1, <1>2

(* A copy of places takes one reference for each of them, and gives it     *)
(* back when it ends.                                                      *)
LEMMA SourcesOfPlaces ==
    ASSUME NEW S \in SUBSET Source, NEW p \in Seq(PlaceType(S)), NEW s \in Source
    PROVE  Where(SourcesOf(p), {s}) = InStack(p, s)
<1> DEFINE seqs == [i \in DOMAIN p |-> IF p[i].msource = None THEN <<>> ELSE <<p[i].msource>>]
           M == {i \in DOMAIN p : p[i].msource = s}
<1>1. seqs \in Seq(Seq(S)) /\ DOMAIN seqs = DOMAIN p
  <2>1. \A i \in DOMAIN p : p[i] \in PlaceType(S)
    OBVIOUS
  <2>2. \A x \in PlaceType(S) : x.msource \in S \/ x.msource = None
    BY DEF PlaceType
  <2>3. \A i \in DOMAIN p : seqs[i] \in Seq(S)
    <3>1. SUFFICES ASSUME NEW i \in DOMAIN p
                   PROVE  (IF p[i].msource = None THEN <<>> ELSE <<p[i].msource>>) \in Seq(S)
      OBVIOUS
    <3>2. CASE p[i].msource = None
      BY <3>2
    <3>3. CASE p[i].msource # None
      <4>1. p[i].msource \in S
        BY <2>1, <2>2, <3>3
      <4>2. QED  BY <3>3, <4>1
    <3>4. QED  BY <3>2, <3>3
  <2>4. DOMAIN p = 1 .. Len(p) /\ Len(p) \in Nat /\ DOMAIN seqs = DOMAIN p
    OBVIOUS
  <2>5. seqs \in [1 .. Len(p) -> Seq(S)]
    BY <2>3, <2>4
  <2> HIDE DEF seqs
  <2>6. QED  BY <2>4, <2>5
<1>2. s # None
  BY CountAssumption
<1>3. ASSUME NEW i \in DOMAIN seqs PROVE Where(seqs[i], {s}) = IF i \in M THEN 1 ELSE 0
  <2>1. CASE p[i].msource = None
    <3>1. seqs[i] = <<>> /\ i \notin M
      BY <1>2, <2>1
    <3>2. QED  BY <3>1, WhereEmpty
  <2>2. CASE p[i].msource # None
    <3>1. seqs[i] = <<p[i].msource>> /\ (i \in M <=> p[i].msource = s)
      BY <2>2
    <3>2. Where(<<p[i].msource>>, {s}) = IF p[i].msource \in {s} THEN 1 ELSE 0
      BY WhereOne
    <3>3. QED  BY <3>1, <3>2
  <2>3. QED  BY <2>1, <2>2
<1>4. SourcesOf(p) = FlattenSeq(seqs)
  BY DEF SourcesOf
<1>m. M \subseteq DOMAIN seqs
  BY <1>1
<1>5. Cardinality(M) = InStack(p, s)
  BY DEF InStack
<1> HIDE DEF seqs, M
<1>6. Where(FlattenSeq(seqs), {s}) = Cardinality(M)
  <2>1. \A i \in DOMAIN seqs : Where(seqs[i], {s}) = IF i \in M THEN 1 ELSE 0
    BY <1>3
  <2> DEFINE V == {s}
  <2>2. \A i \in DOMAIN seqs : Where(seqs[i], V) = IF i \in M THEN 1 ELSE 0
    BY <2>1
  <2> HIDE DEF V
  <2>3. Where(FlattenSeq(seqs), V) = Cardinality(M)
    BY <1>1, <1>m, <2>2, WhereJoined
  <2>4. QED  BY <2>3 DEF V
<1>7. QED  BY <1>4, <1>5, <1>6

(* The calls a copy of places makes weigh what the places refer to.        *)
LEMMA RefListWeight ==
    ASSUME NEW S \in SUBSET Source, NEW p \in Seq(PlaceType(S)), NEW s \in Source
    PROVE  /\ Weight(RefAll(p), s) = -InStack(p, s) /\ Weight(UnrefAll(p), s) = InStack(p, s)
           /\ Freeing(RefAll(p), s) = 0 /\ Freeing(UnrefAll(p), s) = 0
<1> DEFINE q == SourcesOf(p)
<1>1. q \in Seq(S)
  BY SourcesOfType
<1>2. Where(q, {s}) = InStack(p, s)
  BY SourcesOfPlaces
<1>3. /\ RefAll(p) = [i \in DOMAIN q |-> [op |-> "ref", s |-> q[i], first |-> FALSE]]
      /\ UnrefAll(p) = [i \in DOMAIN q |-> [op |-> "unref", s |-> q[i]]]
  BY DEF RefAll, UnrefAll, Ref, Unref
<1> HIDE DEF q
<1>4. /\ CountOf(RefAll(p), s, "ref") = Where(q, {s})
      /\ CountOf(UnrefAll(p), s, "unref") = Where(q, {s})
  <2>1. {i \in DOMAIN RefAll(p) : RefAll(p)[i].op = "ref" /\ RefAll(p)[i].s = s} = {i \in DOMAIN q : q[i] \in {s}}
    BY <1>3
  <2>2. {i \in DOMAIN UnrefAll(p) : UnrefAll(p)[i].op = "unref" /\ UnrefAll(p)[i].s = s} = {i \in DOMAIN q : q[i] \in {s}}
    BY <1>3
  <2>3. QED  BY <2>1, <2>2 DEF CountOf, Where
<1>5. ASSUME NEW op PROVE /\ op # "ref" => CountOf(RefAll(p), s, op) = 0
                          /\ op # "unref" => CountOf(UnrefAll(p), s, op) = 0
  <2>1. op # "ref" => {i \in DOMAIN RefAll(p) : RefAll(p)[i].op = op /\ RefAll(p)[i].s = s} = {}
    BY <1>3
  <2>2. op # "unref" => {i \in DOMAIN UnrefAll(p) : UnrefAll(p)[i].op = op /\ UnrefAll(p)[i].s = s} = {}
    BY <1>3
  <2>3. QED  BY <2>1, <2>2, FS_EmptySet DEF CountOf
<1>6. Where(q, {s}) \in Nat
  BY <1>1, WhereType
<1>7. QED  BY <1>2, <1>4, <1>5, <1>6 DEF Weight, Freeing

(* The two sides of the word that counts handles and blocks: the handles,  *)
(* those in memory everybody sees and the account of each thread, and the  *)
(* blocks, those in use and those that wait for the call that frees them.  *)
Storage(t, s) ==
    IF tls[t].state = "none" THEN 0
    ELSE One(s = GlobalSource) + One(current[t] = s) + One(tls[t].own = s)
         + InStack(tls[t].stack, s)
Account(t, s) == Storage(t, s) + Weight(Coming(t), s)
Released(t, s) == Freeing(Coming(t), s)
Handles(s) == Shared(s) + Total([t \in Thread |-> Account(t, s)])
BlocksOf(s) == Cardinality(LiveBlocks(s)) + Total([t \in Thread |-> Released(t, s)])

(* Whatever was a block once; there is no number of blocks that the low    *)
(* bits of the word could not hold.                                        *)
EverBlocks(s) == {b \in DOMAIN chunk : chunk[b].source = s /\ chunk[b].use # "none"}
CountInv ==
    /\ Len(chunk) <= MaxChunks
    /\ \A s \in Source : /\ source[s].blocks = RefUnit * Handles(s) + BlocksOf(s)
                         /\ BlocksOf(s) <= Cardinality(EverBlocks(s))
                         /\ Unborn(s) => source[s].blocks = 0

(* What a thread has yet to do is a list of calls.                         *)
LEMMA ComingType ==
    ASSUME BaseInv
    PROVE  \A t \in Thread : Coming(t) \in Seq(AnyCall)
<1> SUFFICES ASSUME NEW t \in Thread PROVE Coming(t) \in Seq(AnyCall)
  OBVIOUS
<1> USE DEF BaseInv
<1>1. CASE EndsOne(t)
  <2>1. todo[t] # <<>>
    BY <1>1 DEF EndsOne, PcInv
  <2>2. QED  BY <1>1, <2>1, HeadAndTail DEF Coming
<1>2. CASE ~EndsOne(t)
  <2>1. todo[t] \in Seq(AnyCall)
    <3>1. CASE todo[t] = <<>>
      BY <3>1
    <3>2. CASE todo[t] # <<>>
      BY <3>2, HeadAndTail
    <3>3. QED  BY <3>1, <3>2
  <2>2. QED  BY <1>2, <2>1 DEF Coming
<1>3. QED  BY <1>1, <1>2

(* The accounts are numbers.                                               *)
LEMMA AccountType ==
    ASSUME BaseInv
    PROVE  \A t \in Thread, s \in Source :
               /\ Storage(t, s) \in Nat /\ Weight(Coming(t), s) \in Int
               /\ Account(t, s) \in Int /\ Released(t, s) \in Nat
<1> SUFFICES ASSUME NEW t \in Thread, NEW s \in Source
             PROVE  /\ Storage(t, s) \in Nat /\ Weight(Coming(t), s) \in Int
                    /\ Account(t, s) \in Int /\ Released(t, s) \in Nat
  OBVIOUS
<1>1. Coming(t) \in Seq(AnyCall)
  BY ComingType
<1>2. Weight(Coming(t), s) \in Int /\ Freeing(Coming(t), s) \in Nat
  BY <1>1, WeightType
<1>3. InStack(tls[t].stack, s) \in Nat
  <2>1. tls[t].stack \in Seq(PlaceType(Born))
    BY PlaceListTypes DEF BaseInv
  <2>2. QED  BY <2>1, InStackFacts
<1>4. Storage(t, s) \in Nat
  BY <1>3, OneType DEF Storage
<1>5. QED  BY <1>2, <1>4 DEF Account, Released

(* The parts of what everybody sees are finite.                            *)
LEMMA SharedType ==
    ASSUME BaseInv
    PROVE  \A s \in Source :
        /\ StartupRefs(s) \in Nat
        /\ IsFiniteSet({x \in Physical \X Physical : x[1] # x[2] /\ msources[x[1]][x[2]] = s})
        /\ [k \in Task |-> InStack(saved[k].stack, s)] \in [Task -> Nat]
        /\ Total([k \in Task |-> InStack(saved[k].stack, s)]) \in Nat
        /\ IsFiniteSet({h \in Handle : hold[h] = s})
        /\ Shared(s) \in Nat
<1> SUFFICES ASSUME NEW s \in Source
             PROVE  /\ StartupRefs(s) \in Nat
                    /\ IsFiniteSet({x \in Physical \X Physical : x[1] # x[2] /\ msources[x[1]][x[2]] = s})
                    /\ [k \in Task |-> InStack(saved[k].stack, s)] \in [Task -> Nat]
                    /\ Total([k \in Task |-> InStack(saved[k].stack, s)]) \in Nat
                    /\ IsFiniteSet({h \in Handle : hold[h] = s})
                    /\ Shared(s) \in Nat
  OBVIOUS
<1> DEFINE P == {x \in Physical \X Physical : x[1] # x[2] /\ msources[x[1]][x[2]] = s}
           H == {h \in Handle : hold[h] = s}
           N == {n \in Physical : NodeSource[n] = s}
           f == [k \in Task |-> InStack(saved[k].stack, s)]
<1>1. IsFiniteSet(Physical) /\ IsFiniteSet(Handle) /\ IsFiniteSet(Task)
  BY CountAssumption, PlaceAssumption
<1>2. IsFiniteSet(P)
  <2>1. IsFiniteSet(Physical \X Physical)
    BY <1>1, FS_Product
  <2>2. P \in SUBSET (Physical \X Physical)
    OBVIOUS
  <2> HIDE DEF P
  <2>3. QED  BY <2>1, <2>2, FS_Subset
<1>3. IsFiniteSet(H)
  <2>1. H \in SUBSET Handle
    OBVIOUS
  <2> HIDE DEF H
  <2>2. QED  BY <1>1, <2>1, FS_Subset
<1>4. IsFiniteSet(N)
  <2>1. N \in SUBSET Physical
    OBVIOUS
  <2> HIDE DEF N
  <2>2. QED  BY <1>1, <2>1, FS_Subset
<1>5. Cardinality(P) \in Nat /\ Cardinality(H) \in Nat /\ Cardinality(N) \in Nat
  <2> HIDE DEF P, H, N
  <2>1. QED  BY <1>2, <1>3, <1>4, FS_CardinalityType
<1>6. StartupRefs(s) \in Nat
  BY <1>5 DEF StartupRefs
<1>7. f \in [Task -> Nat]
  <2>1. \A k \in Task : saved[k].stack \in Seq(PlaceType(Born))
    BY SavedFields DEF BaseInv, TypeInv, Typed
  <2>2. \A k \in Task : InStack(saved[k].stack, s) \in Nat
    BY <2>1, InStackFacts
  <2>3. QED  BY <2>2
<1>8. Total(f) \in Nat
  <2> HIDE DEF f
  <2>1. QED  BY <1>1, <1>7, TotalNat
<1>9. Shared(s) = StartupRefs(s) + Cardinality(P) + Total(f) + Cardinality(H)
  BY DEF Shared
<1>10. Shared(s) \in Nat
  <2> HIDE DEF P, H, f
  <2>1. QED  BY <1>5, <1>6, <1>8, <1>9
<1>11. QED  BY <1>2, <1>3, <1>6, <1>7, <1>8, <1>10

(* So are the blocks.                                                      *)
LEMMA LiveType ==
    ASSUME BaseInv
    PROVE  \A s \in Source :
        /\ IsFiniteSet(LiveBlocks(s)) /\ Cardinality(LiveBlocks(s)) \in Nat
        /\ IsFiniteSet(EverBlocks(s)) /\ Cardinality(EverBlocks(s)) \in Nat
        /\ LiveBlocks(s) \subseteq EverBlocks(s)
        /\ Cardinality(EverBlocks(s)) <= Len(chunk) /\ Len(chunk) \in Nat
<1> SUFFICES ASSUME NEW s \in Source
             PROVE  /\ IsFiniteSet(LiveBlocks(s)) /\ Cardinality(LiveBlocks(s)) \in Nat
                    /\ IsFiniteSet(EverBlocks(s)) /\ Cardinality(EverBlocks(s)) \in Nat
                    /\ LiveBlocks(s) \subseteq EverBlocks(s)
                    /\ Cardinality(EverBlocks(s)) <= Len(chunk) /\ Len(chunk) \in Nat
  OBVIOUS
<1> DEFINE D == 1 .. Len(chunk)
<1>1. Len(chunk) \in Nat /\ DOMAIN chunk = D
  BY DEF BaseInv, TypeInv, Chunked
<1>2. IsFiniteSet(D) /\ Cardinality(D) = Len(chunk)
  <2>1. IsFiniteSet(1 .. Len(chunk)) /\ Cardinality(1 .. Len(chunk)) = Len(chunk)
    <3> DEFINE n == Len(chunk)
    <3>1. n \in Nat
      BY <1>1
    <3> HIDE DEF n
    <3>2. IsFiniteSet(1 .. n) /\ Cardinality(1 .. n) = n
      BY <3>1, FS_Interval
    <3>3. QED  BY <3>2 DEF n
  <2>2. QED  BY <2>1
<1>3. LiveBlocks(s) \subseteq EverBlocks(s) /\ EverBlocks(s) \in SUBSET D
  BY <1>1 DEF LiveBlocks, EverBlocks
<1> HIDE DEF D
<1>4. IsFiniteSet(EverBlocks(s)) /\ Cardinality(EverBlocks(s)) <= Cardinality(D)
  BY <1>2, <1>3, FS_Subset
<1>5. IsFiniteSet(LiveBlocks(s))
  BY <1>3, <1>4, FS_Subset
<1>6. QED  BY <1>1, <1>2, <1>3, <1>4, <1>5, FS_CardinalityType

(* The sums over all threads are of numbers.                               *)
LEMMA SumTypes ==
    ASSUME BaseInv
    PROVE  \A s \in Source :
        /\ [t \in Thread |-> Account(t, s)] \in [Thread -> Int]
        /\ [t \in Thread |-> Released(t, s)] \in [Thread -> Nat]
        /\ Handles(s) \in Int /\ BlocksOf(s) \in Nat
<1> SUFFICES ASSUME NEW s \in Source
             PROVE  /\ [t \in Thread |-> Account(t, s)] \in [Thread -> Int]
                    /\ [t \in Thread |-> Released(t, s)] \in [Thread -> Nat]
                    /\ Handles(s) \in Int /\ BlocksOf(s) \in Nat
  OBVIOUS
<1> DEFINE f == [t \in Thread |-> Account(t, s)]
           g == [t \in Thread |-> Released(t, s)]
<1>1. f \in [Thread -> Int] /\ g \in [Thread -> Nat]
  BY AccountType
<1>2. IsFiniteSet(Thread)
  BY CountAssumption
<1>3. Total(f) \in Int /\ Total(g) \in Nat
  <2> HIDE DEF f, g
  <2>1. QED  BY <1>1, <1>2, TotalType, TotalNat
<1>4. Handles(s) = Shared(s) + Total(f) /\ BlocksOf(s) = Cardinality(LiveBlocks(s)) + Total(g)
  BY DEF Handles, BlocksOf
<1>5. QED
  <2>1. Shared(s) \in Nat /\ Cardinality(LiveBlocks(s)) \in Nat
    BY SharedType, LiveType
  <2> HIDE DEF f, g
  <2>2. Handles(s) \in Int /\ BlocksOf(s) \in Nat
    BY <1>3, <1>4, <2>1
  <2>3. QED  BY <1>1, <2>2 DEF f, g

Numbers ==
    /\ \A t \in Thread, s \in Source :
          /\ Storage(t, s) \in Nat /\ Weight(Coming(t), s) \in Int
          /\ Account(t, s) \in Int /\ Released(t, s) \in Nat
    /\ \A s \in Source :
          /\ Shared(s) \in Nat /\ Handles(s) \in Int /\ BlocksOf(s) \in Nat
          /\ Cardinality(LiveBlocks(s)) \in Nat /\ Cardinality(EverBlocks(s)) \in Nat

(* All the counts are numbers.                                             *)
LEMMA NumbersHold ==
    ASSUME BaseInv
    PROVE  Numbers
BY AccountType, SharedType, LiveType, SumTypes DEF Numbers

(* A product with a sum.                                                   *)
LEMMA Distribute == \A u \in Nat, h, r \in Int : u * (h + r) = u * h + u * r
OBVIOUS

(* A step of one thread keeps the books if it books what it does to the    *)
(* word on its own account or on what everybody sees.                      *)
LEMMA BooksClose ==
    ASSUME BaseInv, BaseInv', NEW t \in Thread, Step(t), NEW s \in Source, NEW r \in Int, NEW b \in Int,
           source'[s].blocks = source[s].blocks + RefUnit * r + b,
           Shared(s)' + Account(t, s)' = Shared(s) + Account(t, s) + r,
           Cardinality(LiveBlocks(s))' + Released(t, s)' = Cardinality(LiveBlocks(s)) + Released(t, s) + b
    PROVE  /\ Handles(s)' = Handles(s) + r /\ BlocksOf(s)' = BlocksOf(s) + b
           /\ source[s].blocks = RefUnit * Handles(s) + BlocksOf(s)
              => source'[s].blocks = RefUnit * Handles(s)' + BlocksOf(s)'
<1> DEFINE f == [u \in Thread |-> Account(u, s)]
           g == [u \in Thread |-> Account(u, s)']
           p == [u \in Thread |-> Released(u, s)]
           q == [u \in Thread |-> Released(u, s)']
<1>1. IsFiniteSet(Thread)
  BY CountAssumption
<1>2. /\ f \in [Thread -> Int] /\ p \in [Thread -> Nat]
      /\ Handles(s) \in Int /\ BlocksOf(s) \in Nat
      /\ Shared(s) \in Nat /\ Cardinality(LiveBlocks(s)) \in Nat
  BY SumTypes, SharedType, LiveType
<1>3. /\ g \in [Thread -> Int] /\ q \in [Thread -> Nat]
      /\ Shared(s)' \in Nat /\ Cardinality(LiveBlocks(s))' \in Nat
  <2>1. BaseInv' => Numbers'
    BY NumbersHold, PTL
  <2>2. QED  BY <2>1 DEF Numbers
<1>4. \A u \in Thread \ {t} : g[u] = f[u] /\ q[u] = p[u]
  <2>1. SUFFICES ASSUME NEW u \in Thread, u # t
                 PROVE  Account(u, s)' = Account(u, s) /\ Released(u, s)' = Released(u, s)
    OBVIOUS
  <2>2. todo'[u] = todo[u] /\ pc'[u] = pc[u] /\ current'[u] = current[u] /\ tls'[u] = tls[u]
    BY <2>1, OthersKeep DEF BaseInv
  <2>3. Coming(u)' = Coming(u)
    BY <2>2 DEF Coming, EndsOne
  <2>4. Storage(u, s)' = Storage(u, s)
    BY <2>2 DEF Storage
  <2>5. QED  BY <2>3, <2>4 DEF Account, Released
<1>5. g[t] = Account(t, s)' /\ f[t] = Account(t, s) /\ q[t] = Released(t, s)' /\ p[t] = Released(t, s)
  OBVIOUS
<1>6. /\ Handles(s) = Shared(s) + Total(f) /\ BlocksOf(s) = Cardinality(LiveBlocks(s)) + Total(p)
      /\ Handles(s)' = Shared(s)' + Total(g) /\ BlocksOf(s)' = Cardinality(LiveBlocks(s))' + Total(q)
  BY DEF Handles, BlocksOf
<1> HIDE DEF f, g, p, q
<1>7. Total(g) = Total(f) - f[t] + g[t]
  BY <1>1, <1>2, <1>3, <1>4, TotalChange
<1>8. Total(q) = Total(p) - p[t] + q[t]
  <2>1. p \in [Thread -> Int] /\ q \in [Thread -> Int]
    BY <1>2, <1>3
  <2>2. QED  BY <1>1, <1>4, <2>1, TotalChange
<1>9. /\ Total(f) \in Int /\ Total(p) \in Int /\ f[t] \in Int /\ g[t] \in Int /\ p[t] \in Int /\ q[t] \in Int
  <2>1. p \in [Thread -> Int] /\ q \in [Thread -> Int]
    BY <1>2, <1>3
  <2>2. QED  BY <1>1, <1>2, <1>3, <2>1, TotalType
<1>10. Handles(s)' = Handles(s) + r
  BY <1>2, <1>3, <1>5, <1>6, <1>7, <1>9
<1>11. BlocksOf(s)' = BlocksOf(s) + b
  BY <1>2, <1>3, <1>5, <1>6, <1>8, <1>9
<1>12. ASSUME source[s].blocks = RefUnit * Handles(s) + BlocksOf(s)
       PROVE  source'[s].blocks = RefUnit * Handles(s)' + BlocksOf(s)'
  <2> DEFINE u == RefUnit  h == Handles(s)
  <2>1. u \in Nat /\ h \in Int
    BY <1>2, CountAssumption
  <2> HIDE DEF u, h
  <2>2. u * (h + r) = u * h + u * r
    BY <2>1, Distribute
  <2>3. u * h \in Int /\ u * r \in Int
    BY <2>1
  <2> DEFINE uh == u * h  ur == u * r
  <2> HIDE DEF uh, ur
  <2>4. source[s].blocks = uh + BlocksOf(s) /\ source'[s].blocks = source[s].blocks + ur + b
    BY <1>12 DEF u, h, uh, ur
  <2>5. RefUnit * Handles(s)' = uh + ur
    BY <1>10, <2>2 DEF u, h, uh, ur
  <2>6. uh \in Int /\ ur \in Int
    BY <2>3 DEF uh, ur
  <2>7. QED  BY <1>2, <1>11, <2>4, <2>5, <2>6
<1>13. QED  BY <1>10, <1>11, <1>12

RareOps == {"keep", "unlock_task", "bind", "free_old"}

(* The elements of a pending list are its first call and the rest.         *)
LEMMA CallsOfList ==
    ASSUME BaseInv, NEW t \in Thread, todo[t] # <<>>
    PROVE  Range(todo[t]) = {Call(t)} \cup Range(Tail(todo[t]))
<1>1. todo[t] \in Seq(AnyCall)
  BY HeadAndTail DEF BaseInv
<1>2. QED  BY <1>1, RangeHeadTail DEF Call

(* The names of the calls of a list are those of its elements.             *)
LEMMA RangeOps == \A q : \A c \in Range(q) : c.op \in Ops(q)
BY DEF Range, Ops

OldRare(t) == \A c \in Range(todo'[t]) : c.op \in RareOps => c \in Range(todo[t])

(* A call is begun where it is made: what is pending after a step was      *)
(* pending before it, but for the operations named here.                   *)
LEMMA PendingFrom ==
    ASSUME BaseInv, NEW t \in Thread, Step(t)
    PROVE  \/ pop_all(t) \/ keep(t) \/ create(t) \/ copy(t) \/ realloc(t)
           \/ OldRare(t)
<1> USE DEF BaseInv
<1>a. todo[t] # <<>> => Range(Tail(todo[t])) \subseteq Range(todo[t])
  BY CallsOfList
<1>b. ASSUME NEW op, NEW must, NEW may, Ends(t, op, must, may), may \cap RareOps = {} PROVE OldRare(t)
  BY <1>a, <1>b DEF Ends, Extends, OldRare
<1>c. ASSUME NEW op, NEW must, NEW may, Opens(t, op, must, may), may \cap RareOps = {} PROVE OldRare(t)
  <2>1. \A c \in Range(todo'[t]) : c.op \in Ops(todo'[t])
    BY RangeOps
  <2>2. QED  BY <1>c, <2>1 DEF Opens, OldRare
<1>d. todo'[t] = todo[t] => OldRare(t)
  BY DEF OldRare
<1>e. \A q : q \cap RareOps = {} <=> "keep" \notin q /\ "unlock_task" \notin q /\ "bind" \notin q /\ "free_old" \notin q
  BY DEF RareOps
<1>1. CASE SourceStep(t)
  <2>1. (\E label : Stays(t, label)) \/ Ends(t, Call(t).op, {}, {})
    BY <1>1, SourceStepShape
  <2>2. {} \cap RareOps = {}
    OBVIOUS
  <2>3. QED  BY <1>b, <1>d, <2>1, <2>2 DEF Stays
<1>2. CASE malloc(t) \/ memalign(t) \/ free(t)
  <2>1. \E op, must, may : Opens(t, op, must, may) /\ may \cap RareOps = {}
    BY <1>2, <1>e, MallocShapes
  <2>2. QED  BY <1>c, <2>1
<1>3. CASE assign(t) \/ move(t) \/ drop(t) \/ migrate(t) \/ get(t)
  <2>1. \E op, must, may : Opens(t, op, must, may) /\ may \cap RareOps = {}
    BY <1>3, <1>e, HandleShapes
  <2>2. QED  BY <1>c, <2>1
<1>4. CASE push(t) \/ pop(t) \/ push_all(t) \/ tlsDestructionFunc(t)
  <2>1. \E op, must, may : Opens(t, op, must, may) /\ may \cap RareOps = {}
    BY <1>4, <1>e, StackShapes
  <2>2. QED  BY <1>c, <2>1
<1>5. CASE PlainEnds(t)
  <2>1. \E op : Ends(t, op, {}, {"free", "alloc", "publish_replica", "unlock_replica"})
    BY <1>5, PlainEndsShape
  <2>2. {"free", "alloc", "publish_replica", "unlock_replica"} \cap RareOps = {}
    BY <1>e
  <2>3. QED  BY <1>b, <2>1, <2>2
<1>6. CASE construct(t) \/ init(t)
  <2>1. {"ref"} \cap RareOps = {} /\ {"ref", "unref"} \cap RareOps = {}
    BY <1>e
  <2>2. Ends(t, "construct", {"ref"}, {"ref"}) \/ Ends(t, "init", {}, {"ref", "unref"})
    BY <1>6, CallShapes
  <2>3. QED  BY <1>b, <2>1, <2>2
<1>7. CASE setCurrent(t)
  <2>1. {"ref", "unref"} \cap RareOps = {}
    BY <1>e
  <2>2. Stays(t, "lock") \/ Ends(t, "curr", {}, {"ref", "unref"})
    BY <1>7, CallShapes
  <2>3. QED  BY <1>b, <1>d, <2>1, <2>2 DEF Stays
<1>8. CASE lockLocal(t) \/ lockReplica(t)
  <2>1. Stays(t, "recheck")
    BY <1>8, PlainShapes
  <2>2. QED  BY <1>d, <2>1 DEF Stays
<1>9. CASE getTls(t)
  <2>1. Ops(todo'[t]) = {"alloc", "construct", "init", "curr"}
    BY <1>9, GetTlsShape
  <2>2. \A c \in Range(todo'[t]) : c.op \in Ops(todo'[t])
    BY RangeOps
  <2>3. QED  BY <2>1, <2>2 DEF RareOps, OldRare
<1>10. CASE recheckLocal(t)
  <2> DEFINE n == Last(tls[t].stack).node
             ready == msources[HomeOf[t]][n] # None
             calls == IF ready THEN <<UnlockLocal>>
                      ELSE <<FirstRef(Fresh), PublishLocal(Fresh, n), UnlockLocal>>
  <2>1. Range(todo'[t]) = Range(calls) \cup Range(todo[t])
    BY <1>10, RecheckShape
  <2>2. Ops(calls) \subseteq {"ref", "publish_local", "unlock_local"}
    <3>1. CASE ready
      <4>1. Ops(<<UnlockLocal>>) = {UnlockLocal.op}
        BY ONLY OpsFacts
      <4>2. QED  BY <3>1, <4>1, CallNames
    <3>2. CASE ~ready
      <4> DEFINE a == FirstRef(Fresh)  b == PublishLocal(Fresh, n)  c == UnlockLocal
      <4>1. a.op = "ref" /\ b.op = "publish_local" /\ c.op = "unlock_local"
        BY CallNames
      <4> HIDE DEF a, b, c
      <4>2. Ops(<<a, b, c>>) = {a.op, b.op, c.op}
        BY ONLY OpsFacts
      <4>3. QED  BY <3>2, <4>1, <4>2 DEF a, b, c
    <3>3. QED  BY <3>1, <3>2
  <2> HIDE DEF calls
  <2>3. \A c \in Range(calls) : c.op \in Ops(calls)
    BY RangeOps
  <2>4. QED  BY <2>1, <2>2, <2>3 DEF RareOps, OldRare
<1>11. QED
  <2>1. Step(t)
    OBVIOUS
  <2>2. OldRare(t) \/ pop_all(t) \/ keep(t) \/ create(t) \/ copy(t) \/ realloc(t)
    BY <1>1, <1>2, <1>3, <1>4, <1>5, <1>6, <1>7, <1>8, <1>9, <1>10, StepCases DEF PlainOpens
  <2>3. QED  BY <2>2

(* What is pending stays pending, but for the call that is made.           *)
LEMMA PendingStays ==
    ASSUME BaseInv, NEW t \in Thread, Step(t), todo[t] # <<>>
    PROVE  \A c \in Range(todo[t]) : c \in Range(todo'[t]) \/ c = Call(t)
<1> USE DEF BaseInv
<1>1. Range(todo[t]) = {Call(t)} \cup Range(Tail(todo[t]))
  BY CallsOfList
<1>2. SUFFICES todo'[t] = todo[t] \/ Range(Tail(todo[t])) \subseteq Range(todo'[t])
  BY <1>1
<1>3. CASE SourceStep(t)
  BY <1>3, SourceStepShape DEF Stays, Ends, Extends
<1>4. CASE PlainEnds(t)
  BY <1>4, PlainEndsShape DEF Ends, Extends
<1>5. CASE construct(t) \/ init(t) \/ keep(t)
  <2>1. \E op, must, may : Ends(t, op, must, may)
    BY <1>5, CallShapes
  <2>2. QED  BY <2>1 DEF Ends, Extends
<1>6. CASE setCurrent(t) \/ lockLocal(t) \/ lockReplica(t)
  <2>1. (\E label : Stays(t, label)) \/ Ends(t, "curr", {}, {"ref", "unref"})
    BY <1>6, CallShapes, PlainShapes
  <2>2. QED  BY <2>1 DEF Ends, Extends, Stays
<1>7. CASE recheckLocal(t)
  <2>1. \E calls : Range(todo'[t]) = Range(calls) \cup Range(todo[t])
    BY <1>7, RecheckShape
  <2>2. QED  BY <1>1, <2>1
<1>8. ~(getTls(t) \/ push(t) \/ pop(t) \/ pop_all(t) \/ push_all(t) \/ tlsDestructionFunc(t) \/ PlainOpens(t))
  BY DEF getTls, push, pop, pop_all, push_all, tlsDestructionFunc, PlainOpens, malloc, memalign, free,
     realloc, create, copy, assign, move, drop, migrate, get, Begins
<1>9. QED  BY <1>3, <1>4, <1>5, <1>6, <1>7, <1>8, StepCases

PlainPlaceSteps(t) ==
    \/ getTls(t) \/ setCurrent(t) \/ lockLocal(t) \/ unlockLocal(t) \/ publishLocal(t)
    \/ malloc(t) \/ memalign(t) \/ migrate(t)
    \/ get(t) \/ lockReplica(t) \/ recheckReplica(t) \/ publishReplica(t) \/ unlockReplica(t)

(* The steps, by the variables of the places they change.                  *)
LEMMA StepNames ==
    ASSUME NEW t \in Thread, Step(t)
    PROVE  \/ SourceStep(t) /\ UNCHANGED placeVars
           \/ PlainPlaceSteps(t)
           \/ construct(t) \/ init(t) \/ recheckLocal(t) \/ push(t) \/ pop(t) \/ pop_all(t) \/ keep(t)
           \/ unlockTask(t) \/ push_all(t) \/ tlsDestructionFunc(t) \/ free(t) \/ realloc(t)
           \/ freeOld(t) \/ create(t) \/ copy(t) \/ bind(t) \/ assign(t) \/ move(t) \/ drop(t)
BY DEF Step, PlaceStep, PlainPlaceSteps

(* What the plain ones leave alone.                                        *)
LEMMA PlainKeeps ==
    ASSUME NEW t \in Thread, PlainPlaceSteps(t)
    PROVE  UNCHANGED <<source, chunk, allsources, my, hold, tls, saved>>
BY DEF PlainPlaceSteps, getTls, setCurrent, lockLocal, unlockLocal, publishLocal, malloc, memalign,
   migrate, get, lockReplica, recheckReplica, publishReplica, unlockReplica, sourceVarsButCalls, placeVars

(* The handles.                                                            *)
LEMMA HoldChange ==
    ASSUME BaseInv, NEW t \in Thread, Step(t)
    PROVE  \/ hold' = hold
           \/ bind(t)
           \/ /\ assign(t) \/ move(t) \/ drop(t)
              /\ \A h \in Handle : hold'[h] = hold[h] \/ h \in Writes(Op(t))
<1>1. hold \in [Handle -> Born \cup {None}]
  BY DEF BaseInv, TypeInv, Typed
<1>2. CASE SourceStep(t) /\ UNCHANGED placeVars
  BY <1>2 DEF placeVars
<1>3. CASE PlainPlaceSteps(t)
  BY <1>3, PlainKeeps
<1>4. CASE construct(t) \/ init(t) \/ recheckLocal(t) \/ push(t) \/ pop(t) \/ pop_all(t) \/ keep(t)
  BY <1>4 DEF construct, init, recheckLocal, push, pop, pop_all, keep, placeVars
<1>5. CASE unlockTask(t) \/ push_all(t) \/ tlsDestructionFunc(t) \/ free(t) \/ realloc(t)
           \/ freeOld(t) \/ create(t) \/ copy(t)
  BY <1>5 DEF unlockTask, push_all, tlsDestructionFunc, free, realloc, freeOld, create, copy, placeVars
<1>6. CASE assign(t)
  <2>1. Op(t).op = "assign" /\ hold' = [hold EXCEPT ![Op(t).h] = hold[Op(t).from]]
    BY <1>6 DEF assign, Begins
  <2>2. Writes(Op(t)) = {Op(t).h}
    BY <2>1 DEF Writes
  <2>3. QED  BY <1>1, <1>6, <2>1, <2>2
<1>7. CASE move(t)
  <2>1. Op(t).op = "move" /\ hold' = [hold EXCEPT ![Op(t).h] = hold[Op(t).from], ![Op(t).from] = None]
    BY <1>7 DEF move, Begins
  <2>2. Writes(Op(t)) = {Op(t).h, Op(t).from}
    BY <2>1 DEF Writes
  <2>3. QED  BY <1>1, <1>7, <2>1, <2>2
<1>8. CASE drop(t)
  <2>1. Op(t).op = "drop" /\ hold' = [hold EXCEPT ![Op(t).h] = None]
    BY <1>8 DEF drop, Begins
  <2>2. Writes(Op(t)) = {Op(t).h}
    BY <2>1 DEF Writes
  <2>3. QED  BY <1>1, <1>8, <2>1, <2>2
<1>9. QED  BY <1>2, <1>3, <1>4, <1>5, <1>6, <1>7, <1>8, StepNames

(* The places of the tasks.                                                *)
LEMMA SavedChange ==
    ASSUME NEW t \in Thread, Step(t)
    PROVE  saved' = saved \/ keep(t) \/ unlockTask(t) \/ push_all(t)
<1>2. CASE SourceStep(t) /\ UNCHANGED placeVars
  BY <1>2 DEF placeVars
<1>3. CASE PlainPlaceSteps(t)
  BY <1>3, PlainKeeps
<1>4. CASE construct(t) \/ init(t) \/ recheckLocal(t) \/ push(t) \/ pop(t) \/ pop_all(t) \/ bind(t)
           \/ assign(t) \/ move(t) \/ drop(t)
  BY <1>4 DEF construct, init, recheckLocal, push, pop, pop_all, bind, assign, move, drop, placeVars
<1>5. CASE tlsDestructionFunc(t) \/ free(t) \/ realloc(t) \/ freeOld(t) \/ create(t) \/ copy(t)
  BY <1>5 DEF tlsDestructionFunc, free, realloc, freeOld, create, copy, placeVars
<1>6. QED  BY <1>2, <1>3, <1>4, <1>5, StepNames

(* The storage of a thread.                                                *)
LEMMA BlockChange ==
    ASSUME BaseInv, NEW t \in Thread, Step(t)
    PROVE  \/ construct(t) \/ tlsDestructionFunc(t)
           \/ tls'[t].block = tls[t].block /\ (tls'[t].state = "none" <=> tls[t].state = "none")
<1>1. tls \in [Thread -> TlsType(Born, DOMAIN chunk)]
  BY DEF BaseInv, TypeInv, Typed
<1>2. tls[t] \in TlsType(Born, DOMAIN chunk)
  BY <1>1
<1>3. CASE tls' = tls
  BY <1>3
<1>4. CASE \E q : tls' = [tls EXCEPT ![t].stack = q]
  BY <1>1, <1>2, <1>4 DEF TlsType
<1>5. CASE init(t)
  <2>1. tls' = [tls EXCEPT ![t].state = "done", ![t].own = Fresh] /\ At(t, "init", "start")
    BY <1>5 DEF init
  <2>2. tls[t].state # "none"
    <3>1. Has(t, "init") /\ ~Has(t, "construct")
      <4>1. AfterCall("init") = {"curr"}
        BY DEF AfterCall
      <4>2. todo[t] # <<>> /\ Call(t).op = "init"
        BY <2>1 DEF At
      <4>3. Ops(todo[t]) = {"init"} \cup Ops(Tail(todo[t])) /\ Ops(Tail(todo[t])) \subseteq {"curr"}
        BY <4>1, <4>2, HeadAndTail DEF BaseInv
      <4>4. QED  BY <4>3 DEF Has
    <3>2. QED  BY <3>1 DEF BaseInv, TlsInv, TlsOf
  <2>3. QED  BY <1>1, <1>2, <2>1, <2>2 DEF TlsType
<1>6. CASE SourceStep(t) /\ UNCHANGED placeVars
  BY <1>3, <1>6 DEF placeVars
<1>7. CASE PlainPlaceSteps(t)
  BY <1>3, <1>7, PlainKeeps
<1>8. CASE recheckLocal(t) \/ pop_all(t) \/ unlockTask(t) \/ free(t) \/ realloc(t) \/ freeOld(t)
           \/ create(t) \/ copy(t) \/ bind(t) \/ assign(t) \/ move(t) \/ drop(t)
  <2>1. tls' = tls
    BY <1>8 DEF recheckLocal, pop_all, unlockTask, free, realloc, freeOld, create, copy, bind, assign,
       move, drop, placeVars
  <2>2. QED  BY <1>3, <2>1
<1>9. CASE push(t) \/ pop(t) \/ keep(t) \/ push_all(t)
  <2>1. \E q : tls' = [tls EXCEPT ![t].stack = q]
    <3>1. CASE push(t)
      BY <3>1 DEF push
    <3>2. CASE pop(t)
      BY <3>2 DEF pop
    <3>3. CASE keep(t)
      BY <3>3 DEF keep
    <3>4. CASE push_all(t)
      BY <3>4 DEF push_all
    <3>5. QED  BY <1>9, <3>1, <3>2, <3>3, <3>4
  <2>2. QED  BY <1>4, <2>1
<1>10. QED  BY <1>5, <1>6, <1>7, <1>8, <1>9, StepNames

(* The chunk a thread has in hand.                                         *)
LEMMA MyChange ==
    ASSUME BaseInv, NEW t \in Thread, Step(t)
    PROVE  \/ my'[t].b = my[t].b
           \/ /\ allocMap(t) \/ arenaAlloc(t)
              /\ my'[t].b = Len(chunk) + 1 /\ Len(chunk') = Len(chunk) + 1
           \/ /\ allocMap(t) \/ allocLock(t)
              /\ my'[t].b = None
<1>1. my \in [Thread -> MyType(DOMAIN chunk)]
  BY DEF BaseInv, TypeInv, Typed
<1>2. my[t] \in MyType(DOMAIN chunk)
  BY <1>1
<1>3. CASE my' = my
  BY <1>3
<1>4. CASE SourceStep(t)
  <2>1. CASE ref(t) \/ unrefLook(t) \/ unrefDescribe(t) \/ unrefDeref(t) \/ destroyRemove(t)
             \/ destroyFinish(t) \/ allocLink(t) \/ allocLinked(t) \/ arenaAllocEnd(t)
             \/ allocUnlock(t) \/ allocCount(t) \/ freeInArenaEnd(t) \/ freeUnlink(t) \/ freeUnmap(t)
    <3>1. my' = my
      BY <2>1 DEF ref, unrefLook, unrefDescribe, unrefDeref, destroyRemove, destroyFinish, allocLink,
         allocLinked, arenaAllocEnd, allocUnlock, allocCount, freeInArenaEnd, freeUnlink, freeUnmap
    <3>2. QED  BY <1>3, <3>1
  <2>2. CASE freeUncount(t) \/ migrateLock(t) \/ migratePages(t) \/ migrateUnlockChunks(t) \/ migrateEnd(t)
    <3>1. my' = my
      BY <2>2 DEF freeUncount, migrateLock, migratePages, migrateUnlockChunks, migrateEnd
    <3>2. QED  BY <1>3, <3>1
  <2>3. CASE freeInArena(t) \/ migrateLockChunks(t) \/ migrateArena(t) \/ migrateWalk(t) \/ migrateUnlockArena(t)
    BY <1>1, <1>2, <2>3 DEF freeInArena, migrateLockChunks, migrateArena, migrateWalk, migrateUnlockArena, MyType
  <2>4. CASE create_new_arena(t)
    BY <1>1, <1>2, <2>4 DEF create_new_arena, MyType
  <2>5. CASE allocLock(t)
    <3>1. my' = [my EXCEPT ![t].b = None, ![t].k = active(Call(t).s), ![t].grown = FALSE]
      BY <2>5 DEF allocLock
    <3>2. QED  BY <1>1, <1>2, <2>5, <3>1 DEF MyType
  <2>6. CASE allocMap(t)
    <3>1. my' = [my EXCEPT ![t].b = None] \/ NewChunk(t, None, Call(t).bytes + MmapFooterSize)
      BY <2>6 DEF allocMap
    <3>2. NewChunk(t, None, Call(t).bytes + MmapFooterSize) => my' = [my EXCEPT ![t].b = Len(chunk) + 1] /\ Len(chunk') = Len(chunk) + 1
      <4>1. chunk \in Seq(ChunkType(DOMAIN chunk))
        BY DEF BaseInv, TypeInv, Chunked
      <4>2. QED  BY <4>1 DEF NewChunk
    <3>3. QED  BY <1>1, <1>2, <2>6, <3>1, <3>2 DEF MyType
  <2>7. CASE arenaAlloc(t)
    <3>1. UNCHANGED my \/ \E k, size : NewChunk(t, k, size)
      BY <2>7 DEF arenaAlloc
    <3>2. (\E k, size : NewChunk(t, k, size)) => my' = [my EXCEPT ![t].b = Len(chunk) + 1] /\ Len(chunk') = Len(chunk) + 1
      <4>1. chunk \in Seq(ChunkType(DOMAIN chunk))
        BY DEF BaseInv, TypeInv, Chunked
      <4>2. QED  BY <4>1 DEF NewChunk
    <3>3. QED  BY <1>1, <1>2, <2>7, <3>1, <3>2 DEF MyType
  <2>8. QED  BY <1>4, <2>1, <2>2, <2>3, <2>4, <2>5, <2>6, <2>7 DEF SourceStep
<1>5. CASE PlainPlaceSteps(t)
  BY <1>3, <1>5, PlainKeeps
<1>6. CASE construct(t) \/ init(t) \/ recheckLocal(t) \/ push(t) \/ pop(t) \/ pop_all(t) \/ keep(t)
           \/ unlockTask(t) \/ push_all(t) \/ tlsDestructionFunc(t)
  <2>1. my' = my
    BY <1>6 DEF construct, init, recheckLocal, push, pop, pop_all, keep, unlockTask, push_all,
       tlsDestructionFunc, sourceVarsButCalls
  <2>2. QED  BY <1>3, <2>1
<1>7. CASE free(t) \/ realloc(t)
           \/ freeOld(t) \/ create(t) \/ copy(t) \/ bind(t) \/ assign(t) \/ move(t) \/ drop(t)
  <2>1. my' = my
    BY <1>7 DEF free, realloc, freeOld, create, copy, bind, assign, move, drop, sourceVarsButCalls
  <2>2. QED  BY <1>3, <2>1
<1>8. QED  BY <1>4, <1>5, <1>6, <1>7, StepNames

(* The operation a thread has begun last.                                  *)
LEMMA DoingChange ==
    ASSUME BaseInv, NEW t \in Thread, Step(t)
    PROVE  \/ todo[t] # <<>> /\ doing'[t] = doing[t]
           \/ getTls(t) /\ doing'[t] = Setup
           \/ \E op : Begins(t, op) /\ doing'[t] = Op(t)
<1>1. doing \in [Thread -> Operation \cup {Setup}]
  BY DEF BaseInv, TypeInv, Typed
<1>2. CASE SourceStep(t) /\ UNCHANGED placeVars
  <2>1. todo[t] # <<>>
    BY <1>2, SourceStepShape DEF BaseInv
  <2>2. QED  BY <1>2, <2>1 DEF placeVars
<1>3. ASSUME NEW op, NEW calls, Begins(t, op), Begin(t, calls)
      PROVE  \E o : Begins(t, o) /\ doing'[t] = Op(t)
  <2>1. doing'[t] = Op(t)
    BY <1>1, <1>3 DEF Begin
  <2>2. QED  BY <1>3, <2>1
<1>4. CASE getTls(t)
  BY <1>1, <1>4 DEF getTls
<1>5. CASE construct(t) \/ init(t) \/ setCurrent(t) \/ lockLocal(t) \/ recheckLocal(t)
           \/ publishLocal(t) \/ unlockLocal(t)
  <2>1. todo[t] # <<>>
    BY <1>5 DEF construct, init, setCurrent, lockLocal, recheckLocal, publishLocal, unlockLocal, At
  <2>2. doing' = doing
    BY <1>5 DEF construct, init, setCurrent, lockLocal, recheckLocal, publishLocal, unlockLocal, placeVars
  <2>3. QED  BY <2>1, <2>2
<1>6. CASE keep(t) \/ unlockTask(t) \/ freeOld(t) \/ bind(t) \/ lockReplica(t) \/ recheckReplica(t)
           \/ publishReplica(t) \/ unlockReplica(t)
  <2>1. todo[t] # <<>>
    BY <1>6 DEF keep, unlockTask, freeOld, bind, lockReplica, recheckReplica, publishReplica, unlockReplica, At
  <2>2. doing' = doing
    BY <1>6 DEF keep, unlockTask, freeOld, bind, lockReplica, recheckReplica, publishReplica,
       unlockReplica, placeVars
  <2>3. QED  BY <2>1, <2>2
<1>7. CASE push(t) \/ pop(t) \/ pop_all(t) \/ push_all(t) \/ tlsDestructionFunc(t)
  <2>1. \E op, calls : Begins(t, op) /\ Begin(t, calls)
    BY <1>7 DEF push, pop, pop_all, push_all, tlsDestructionFunc
  <2>2. QED  BY <1>3, <2>1
<1>8. CASE malloc(t) \/ memalign(t) \/ free(t) \/ realloc(t)
  <2>1. \E op, calls : Begins(t, op) /\ Begin(t, calls)
    BY <1>8 DEF malloc, memalign, free, realloc
  <2>2. QED  BY <1>3, <2>1
<1>9. CASE create(t) \/ copy(t) \/ assign(t) \/ move(t) \/ drop(t) \/ migrate(t) \/ get(t)
  <2>1. \E op, calls : Begins(t, op) /\ Begin(t, calls)
    BY <1>9 DEF create, copy, assign, move, drop, migrate, get
  <2>2. QED  BY <1>3, <2>1
<1>10. QED  BY <1>2, <1>4, <1>5, <1>6, <1>7, <1>8, <1>9 DEF Step, PlaceStep

(* What a chunk is, and whose.                                             *)
UsesKept == \A b \in DOMAIN chunk : chunk'[b].use = chunk[b].use
Working(t) ==
    allocCount(t) \/ keep(t) \/ tlsDestructionFunc(t) \/ free(t) \/ realloc(t) \/ freeOld(t)

(* A link of a chunk is set.                                               *)
LEMMA SetLink ==
    ASSUME NEW old, NEW b, NEW x, \A c \in DOMAIN old : "use" \in DOMAIN old[c],
           NEW new, new = [old EXCEPT ![b].next = x] \/ new = [old EXCEPT ![b].prev = x]
    PROVE  /\ DOMAIN new = DOMAIN old
           /\ \A c \in DOMAIN new : "use" \in DOMAIN new[c] /\ new[c].use = old[c].use
OBVIOUS

(* Whatever becomes of the links and the mapping of chunks.                *)
LEMMA ChunkFieldsKept ==
    ASSUME BaseInv, NEW t \in Thread, Step(t),
           \/ allocLink(t) \/ freeUnlink(t) \/ freeUnmap(t) \/ destroyFinish(t)
    PROVE  DOMAIN chunk' = DOMAIN chunk /\ Len(chunk') = Len(chunk) /\ UsesKept
<1> DEFINE D == DOMAIN chunk
<1>1. chunk \in Seq(ChunkType(D)) /\ D = 1 .. Len(chunk) /\ Len(chunk) \in Nat
  BY DEF BaseInv, TypeInv, Chunked
<1>2. \A c \in D : chunk[c] \in ChunkType(D)
  BY <1>1
<1>a. \A c \in DOMAIN chunk : "use" \in DOMAIN chunk[c]
  BY <1>2 DEF ChunkType
<1> HIDE DEF D
<1>b. DOMAIN chunk' = DOMAIN chunk => Len(chunk') = Len(chunk)
  <2>1. chunk' \in Seq(ChunkType(DOMAIN chunk'))
    <3>1. TypeInv'
      BY StepBase DEF BaseInv
    <3>2. QED  BY <3>1 DEF TypeInv, Chunked
  <2>2. QED  BY <1>1, <2>1 DEF D
<1>3. CASE allocLink(t)
  <2> DEFINE b == my[t].b  head == source[Call(t).s].mmapped_chunk_head
             linked == [chunk EXCEPT ![b].next = head]
  <2>1. chunk' = linked \/ chunk' = [linked EXCEPT ![head].prev = b]
    BY <1>3 DEF allocLink
  <2>2. linked = [chunk EXCEPT ![b].next = head]
    OBVIOUS
  <2> HIDE DEF linked, head, b
  <2>3. /\ DOMAIN linked = DOMAIN chunk
        /\ \A c \in DOMAIN linked : "use" \in DOMAIN linked[c] /\ linked[c].use = chunk[c].use
    BY ONLY <1>a, <2>2, SetLink
  <2>4. CASE chunk' = [linked EXCEPT ![head].prev = b]
    <3>1. /\ DOMAIN chunk' = DOMAIN linked
          /\ \A c \in DOMAIN chunk' : "use" \in DOMAIN chunk'[c] /\ chunk'[c].use = linked[c].use
      BY ONLY <2>3, <2>4, SetLink
    <3>2. QED  BY <1>b, <2>3, <3>1 DEF UsesKept
  <2>5. QED  BY <1>b, <2>1, <2>3, <2>4 DEF UsesKept
<1>4. CASE freeUnlink(t)
  <2> DEFINE c == chunk[Call(t).b]  x == c.next  y == c.prev
             before == IF y = None THEN chunk ELSE [chunk EXCEPT ![y].next = x]
  <2>1. chunk' = before \/ chunk' = [before EXCEPT ![x].prev = y]
    BY <1>4 DEF freeUnlink
  <2>2. before = chunk \/ before = [chunk EXCEPT ![y].next = x]
    OBVIOUS
  <2> HIDE DEF before, c, x, y
  <2>3. /\ DOMAIN before = DOMAIN chunk
        /\ \A z \in DOMAIN before : "use" \in DOMAIN before[z] /\ before[z].use = chunk[z].use
    <3>1. CASE before = chunk
      BY ONLY <1>a, <3>1
    <3>2. CASE before = [chunk EXCEPT ![y].next = x]
      BY ONLY <1>a, <3>2, SetLink
    <3>3. QED  BY <2>2, <3>1, <3>2
  <2>4. CASE chunk' = [before EXCEPT ![x].prev = y]
    <3>1. /\ DOMAIN chunk' = DOMAIN before
          /\ \A z \in DOMAIN chunk' : "use" \in DOMAIN chunk'[z] /\ chunk'[z].use = before[z].use
      BY ONLY <2>3, <2>4, SetLink
    <3>2. QED  BY <1>b, <2>3, <3>1 DEF UsesKept
  <2>5. QED  BY <1>b, <2>1, <2>3, <2>4 DEF UsesKept
<1>5. CASE freeUnmap(t)
  <2>1. chunk' = [chunk EXCEPT ![Call(t).b].mapped = FALSE]
    BY <1>5 DEF freeUnmap
  <2>2. QED  BY <1>a, <1>b, <2>1 DEF UsesKept
<1>6. CASE destroyFinish(t)
  <2>1. \E gone : chunk' = [b \in DOMAIN chunk |-> IF b \in gone THEN [chunk[b] EXCEPT !.mapped = FALSE]
                                                  ELSE chunk[b]]
    BY <1>6 DEF destroyFinish
  <2>2. QED  BY <1>a, <1>b, <2>1 DEF UsesKept
<1>7. QED  BY <1>3, <1>4, <1>5, <1>6

(* There are as many chunks as before, or one more, that is nobody's yet.  *)
LEMMA ChunkChange ==
    ASSUME BaseInv, NEW t \in Thread, Step(t)
    PROVE  /\ DOMAIN chunk = 1 .. Len(chunk) /\ DOMAIN chunk' = 1 .. Len(chunk')
           /\ Len(chunk) \in Nat /\ Len(chunk') \in Nat /\ DOMAIN chunk \subseteq DOMAIN chunk'
           /\ Len(chunk) <= MaxChunks => Len(chunk') <= MaxChunks
           /\ \/ Len(chunk') = Len(chunk)
              \/ Len(chunk') = Len(chunk) + 1 /\ chunk'[Len(chunk) + 1].use = "none"
           /\ \A b \in DOMAIN chunk : chunk'[b].source = chunk[b].source
           /\ Working(t) \/ UsesKept
<1> DEFINE Goal ==
       /\ \/ Len(chunk') = Len(chunk)
          \/ /\ Len(chunk') = Len(chunk) + 1 /\ chunk'[Len(chunk) + 1].use = "none"
             /\ Len(chunk) < MaxChunks
       /\ Working(t) \/ UsesKept
<1>1. chunk \in Seq(ChunkType(DOMAIN chunk)) /\ chunk' \in Seq(ChunkType(DOMAIN chunk'))
  <2>1. TypeInv /\ TypeInv'
    BY StepBase DEF BaseInv
  <2>2. QED  BY <2>1 DEF TypeInv, Chunked
<1>a. \A c \in DOMAIN chunk : chunk[c] \in ChunkType(DOMAIN chunk)
  BY <1>1
<1>2. ChunksStay(chunk')
  <2>a. CASE chunk' = chunk
    BY <2>a DEF ChunksStay
  <2>b. ASSUME NEW g, chunk' = Given(g) PROVE ChunksStay(chunk')
    BY <2>b, GivenTypes DEF ChunksStay, BaseInv
  <2>1. CASE SourceStep(t) /\ UNCHANGED placeVars
    <3>1. CASE LoudStep(t)
      BY <2>1, <3>1, LoudStepTypes DEF BaseInv
    <3>2. CASE QuietStep(t)
      <4>1. CASE ref(t) \/ unrefLook(t) \/ unrefDescribe(t) \/ unrefDeref(t) \/ destroyRemove(t)
                 \/ allocLinked(t) \/ allocLock(t) \/ arenaAllocEnd(t) \/ create_new_arena(t)
                 \/ allocUnlock(t) \/ freeInArena(t) \/ freeInArenaEnd(t) \/ freeUncount(t)
        BY <2>a, <4>1 DEF ref, unrefLook, unrefDescribe, unrefDeref, destroyRemove, allocLinked, allocLock,
           arenaAllocEnd, create_new_arena, allocUnlock, freeInArena, freeInArenaEnd, freeUncount
      <4>2. CASE migrateLock(t) \/ migrateLockChunks(t) \/ migrateArena(t) \/ migratePages(t)
                 \/ migrateUnlockChunks(t) \/ migrateWalk(t) \/ migrateUnlockArena(t) \/ migrateEnd(t)
        BY <2>a, <4>2 DEF migrateLock, migrateLockChunks, migrateArena, migratePages,
           migrateUnlockChunks, migrateWalk, migrateUnlockArena, migrateEnd
      <4>3. QED  BY <3>2, <4>1, <4>2 DEF QuietStep
    <3>3. QED  BY <2>1, <3>1, <3>2 DEF SourceStep, LoudStep, QuietStep
  <2>2. CASE PlainPlaceSteps(t)
    BY <2>a, <2>2, PlainKeeps
  <2>3. CASE construct(t) \/ init(t) \/ recheckLocal(t) \/ push(t) \/ pop(t) \/ pop_all(t)
           \/ unlockTask(t) \/ push_all(t)
    BY <2>a, <2>3 DEF construct, init, recheckLocal, push, pop, pop_all, unlockTask, push_all,
       sourceVarsButCalls
  <2>4. CASE create(t) \/ copy(t) \/ bind(t) \/ assign(t) \/ move(t) \/ drop(t)
    BY <2>a, <2>4 DEF create, copy, bind, assign, move, drop, sourceVarsButCalls
  <2>5. CASE keep(t)
    <3>1. \E g : chunk' = Given(g)
      BY <2>5 DEF keep
    <3>2. QED  BY <2>b, <3>1
  <2>6. CASE tlsDestructionFunc(t)
    <3>1. \E g : chunk' = Given(g)
      BY <2>6 DEF tlsDestructionFunc
    <3>2. QED  BY <2>b, <3>1
  <2>7. CASE free(t)
    <3>1. chunk' = chunk \/ \E g : chunk' = Given(g)
      BY <2>7 DEF free
    <3>2. QED  BY <2>a, <2>b, <3>1
  <2>8. CASE realloc(t)
    <3>1. chunk' = chunk \/ \E b : chunk' = [chunk EXCEPT ![b].use = "moving"]
      BY <2>8 DEF realloc
    <3>2. \A c \in DOMAIN chunk : "source" \in DOMAIN chunk[c] /\ "arena" \in DOMAIN chunk[c]
      BY <1>a DEF ChunkType
    <3>3. QED  BY <2>a, <3>1, <3>2 DEF ChunksStay
  <2>9. CASE freeOld(t)
    <3>1. \E b, x : chunk' = [chunk EXCEPT ![b].use = x]
      BY <2>9 DEF freeOld
    <3>2. \A c \in DOMAIN chunk : "source" \in DOMAIN chunk[c] /\ "arena" \in DOMAIN chunk[c]
      BY <1>a DEF ChunkType
    <3>3. QED  BY <3>1, <3>2 DEF ChunksStay
  <2>10. QED  BY <2>1, <2>2, <2>3, <2>4, <2>5, <2>6, <2>7, <2>8, <2>9, StepNames
<1>3. Goal
  <2>0. DOMAIN chunk' = DOMAIN chunk => Len(chunk') = Len(chunk)
    BY <1>1
  <2>a. CASE chunk' = chunk
    BY <2>a DEF UsesKept
  <2>b. ASSUME NEW g, chunk' = Given(g) PROVE DOMAIN chunk' = DOMAIN chunk
    BY <2>b, GivenTypes DEF BaseInv
  <2>1. CASE SourceStep(t) /\ UNCHANGED placeVars
    <3>1. CASE allocLink(t) \/ freeUnlink(t) \/ freeUnmap(t) \/ destroyFinish(t)
      BY <3>1, ChunkFieldsKept
    <3>2. CASE QuietStep(t)
      <4>1. CASE ref(t) \/ unrefLook(t) \/ unrefDescribe(t) \/ unrefDeref(t) \/ destroyRemove(t)
                 \/ allocLinked(t) \/ allocLock(t) \/ arenaAllocEnd(t) \/ create_new_arena(t)
                 \/ allocUnlock(t) \/ freeInArena(t) \/ freeInArenaEnd(t) \/ freeUncount(t)
        BY <2>a, <4>1 DEF ref, unrefLook, unrefDescribe, unrefDeref, destroyRemove, allocLinked, allocLock,
           arenaAllocEnd, create_new_arena, allocUnlock, freeInArena, freeInArenaEnd, freeUncount
      <4>2. CASE migrateLock(t) \/ migrateLockChunks(t) \/ migrateArena(t) \/ migratePages(t)
                 \/ migrateUnlockChunks(t) \/ migrateWalk(t) \/ migrateUnlockArena(t) \/ migrateEnd(t)
        BY <2>a, <4>2 DEF migrateLock, migrateLockChunks, migrateArena, migratePages,
           migrateUnlockChunks, migrateWalk, migrateUnlockArena, migrateEnd
      <4>3. QED  BY <3>2, <4>1, <4>2 DEF QuietStep
    <3>3. CASE allocMap(t) \/ arenaAlloc(t)
      <4>1. (UNCHANGED chunk) \/ \E k, size : NewChunk(t, k, size)
        BY <3>3 DEF allocMap, arenaAlloc
      <4>2. ASSUME NEW k, NEW size, NewChunk(t, k, size) PROVE Goal
        <5>1. \E r : chunk' = Append(chunk, r) /\ r.use = "none"
          BY <4>2 DEF NewChunk
        <5>2. Len(chunk) < MaxChunks
          BY <4>2 DEF NewChunk
        <5>3. QED  BY <1>1, <5>1, <5>2 DEF UsesKept
      <4>3. QED  BY <2>a, <4>1, <4>2
    <3>4. CASE allocCount(t)
      <4>1. chunk' = [chunk EXCEPT ![my[t].b].use = Call(t).use]
        BY <3>4 DEF allocCount
      <4>2. QED  BY <2>0, <3>4, <4>1 DEF Working
    <3>5. QED  BY <2>1, <3>1, <3>2, <3>3, <3>4 DEF SourceStep, QuietStep
  <2>2. CASE PlainPlaceSteps(t)
    BY <2>a, <2>2, PlainKeeps
  <2>3. CASE construct(t) \/ init(t) \/ recheckLocal(t) \/ push(t) \/ pop(t) \/ pop_all(t)
           \/ unlockTask(t) \/ push_all(t)
    BY <2>a, <2>3 DEF construct, init, recheckLocal, push, pop, pop_all, unlockTask, push_all,
       sourceVarsButCalls
  <2>4. CASE create(t) \/ copy(t) \/ bind(t) \/ assign(t) \/ move(t) \/ drop(t)
    BY <2>a, <2>4 DEF create, copy, bind, assign, move, drop, sourceVarsButCalls
  <2>5. CASE keep(t)
    <3>1. \E g : chunk' = Given(g)
      BY <2>5 DEF keep
    <3>2. QED  BY <2>0, <2>5, <2>b, <3>1 DEF Working
  <2>6. CASE tlsDestructionFunc(t)
    <3>1. \E g : chunk' = Given(g)
      BY <2>6 DEF tlsDestructionFunc
    <3>2. QED  BY <2>0, <2>6, <2>b, <3>1 DEF Working
  <2>7. CASE free(t)
    <3>1. chunk' = chunk \/ \E g : chunk' = Given(g)
      BY <2>7 DEF free
    <3>2. QED  BY <2>0, <2>7, <2>b, <3>1 DEF Working
  <2>8. CASE realloc(t)
    <3>1. chunk' = chunk \/ \E b : chunk' = [chunk EXCEPT ![b].use = "moving"]
      BY <2>8 DEF realloc
    <3>2. QED  BY <2>0, <2>8, <3>1 DEF Working
  <2>9. CASE freeOld(t)
    <3>1. \E b, x : chunk' = [chunk EXCEPT ![b].use = x]
      BY <2>9 DEF freeOld
    <3>2. QED  BY <2>0, <2>9, <3>1 DEF Working
  <2>10. QED  BY <2>1, <2>2, <2>3, <2>4, <2>5, <2>6, <2>7, <2>8, <2>9, StepNames
<1>4. MaxChunks \in Nat
  BY CountAssumption
<1>5. DOMAIN chunk = 1 .. Len(chunk) /\ DOMAIN chunk' = 1 .. Len(chunk') /\ Len(chunk) \in Nat /\ Len(chunk') \in Nat
  BY <1>1
<1> HIDE DEF Goal
<1>6. DOMAIN chunk \subseteq DOMAIN chunk' /\ \A b \in DOMAIN chunk : chunk'[b].source = chunk[b].source
  BY <1>2 DEF ChunksStay
<1>7. Len(chunk) <= MaxChunks => Len(chunk') <= MaxChunks
  <2>1. Len(chunk') = Len(chunk) \/ (Len(chunk') = Len(chunk) + 1 /\ Len(chunk) < MaxChunks)
    BY <1>3 DEF Goal
  <2> DEFINE n == Len(chunk)  m == Len(chunk')
  <2>2. n \in Nat /\ m \in Nat /\ (m = n \/ (m = n + 1 /\ n < MaxChunks))
    BY <1>5, <2>1
  <2> HIDE DEF n, m
  <2>3. n <= MaxChunks => m <= MaxChunks
    BY ONLY <1>4, <2>2
  <2>4. QED  BY <2>3 DEF n, m
<1>8. QED  BY <1>3, <1>5, <1>6, <1>7 DEF Goal

Pending(t, op) == {c \in Range(todo[t]) : c.op = op}

(* What keep leaves behind: the vectors that go, and the calls for it.     *)
KeepGone(t) ==
    saved[Call(t).task].block \o
        (IF Call(t).done THEN (IF tls[t].stack = <<>> THEN <<>> ELSE <<my[t].b>>) ELSE <<>>)
KeepDrops(t) == IF Call(t).done THEN UnrefAll(tls[t].stack) ELSE <<>>
KeepFrees(t) == [i \in DOMAIN KeepGone(t) |-> Dealloc(KeepGone(t)[i])]
KeepCalls(t) == RefAll(tls[t].stack) \o UnrefAll(tls[t].stack) \o <<SetCurrent>> \o KeepDrops(t)
                    \o KeepFrees(t)

(* A list without operations is empty.                                     *)
LEMMA NoOps ==
    ASSUME NEW T, NEW q \in Seq(T), Ops(q) = {}
    PROVE  q = <<>>
<1>1. DOMAIN q = 1 .. Len(q) /\ Len(q) \in Nat
  OBVIOUS
<1>2. CASE Len(q) > 0
  <2>1. 1 \in DOMAIN q
    BY <1>1, <1>2
  <2>2. q[1].op \in Ops(q)
    BY <2>1 DEF Ops
  <2>3. QED  BY <2>2
<1>3. QED  BY <1>1, <1>2

(* What keep (of pop_all) leaves to be done, in the order of the code.     *)
LEMMA KeepList ==
    ASSUME BaseInv, NEW t \in Thread, keep(t)
    PROVE  /\ Call(t).task \in Task /\ Call(t).done \in BOOLEAN /\ tls[t].stack \in Seq(PlaceType(Born))
           /\ KeepGone(t) \in Seq(DOMAIN chunk)
           /\ RefAll(tls[t].stack) \in Seq(AnyCall) /\ UnrefAll(tls[t].stack) \in Seq(AnyCall)
           /\ <<SetCurrent>> \in Seq(AnyCall) /\ KeepDrops(t) \in Seq(AnyCall)
           /\ KeepFrees(t) \in Seq(AnyCall) /\ <<Unlock(Call(t).task)>> \in Seq(AnyCall)
           /\ KeepCalls(t) \in Seq(AnyCall)
           /\ Ops(KeepCalls(t)) \subseteq {"ref", "unref", "curr", "free"}
           /\ todo'[t] = KeepCalls(t) \o <<Unlock(Call(t).task)>>
           /\ chunk' = Given(Range(KeepGone(t)))
<1> DEFINE k == Call(t).task
           stack == tls[t].stack
           new == IF stack = <<>> THEN <<>> ELSE <<my[t].b>>
           gone == KeepGone(t)
           frees == KeepFrees(t)
           refs1 == RefAll(stack)
           drops1 == UnrefAll(stack)
           drops2 == KeepDrops(t)
           c1 == <<SetCurrent>>
           c2 == <<Unlock(k)>>
<1> USE DEF BaseInv
<1>1. /\ todo[t] # <<>> /\ Call(t).op = "keep" /\ (stack # <<>> => my[t].b # None)
      /\ Then(t, KeepCalls(t) \o c2) /\ chunk' = Given(ToSet(gone))
  BY DEF keep, At, KeepCalls, KeepFrees, KeepDrops, KeepGone
<1>2. /\ k \in Task /\ Call(t).done \in BOOLEAN /\ stack \in Seq(PlaceType(Born))
      /\ saved[k].block \in Seq(DOMAIN chunk)
  BY <1>1, CallInHand, CallFields, PlaceListTypes
<1>3. gone \in Seq(DOMAIN chunk)
  <2>1. my[t].b \in DOMAIN chunk \cup {None}
    BY DEF TypeInv, Typed, MyType
  <2>2. new \in Seq(DOMAIN chunk) /\ <<>> \in Seq(DOMAIN chunk)
    BY <1>1, <2>1, ShortLists
  <2>3. gone = saved[k].block \o (IF Call(t).done THEN new ELSE <<>>)
    BY DEF KeepGone
  <2> HIDE DEF new, k, gone
  <2>4. QED  BY <1>2, <2>2, <2>3, ShortLists
<1>4. frees \in Seq(AnyCall) /\ Ops(frees) \subseteq {"free"}
  <2>0. frees = [i \in DOMAIN gone |-> Dealloc(gone[i])]
    BY DEF KeepFrees
  <2> HIDE DEF gone, frees
  <2>1. Len(gone) \in Nat /\ DOMAIN gone = 1 .. Len(gone) /\ \A i \in DOMAIN gone : gone[i] \in DOMAIN chunk
    BY <1>3
  <2>2. \A i \in 1 .. Len(gone) : Dealloc(gone[i]) \in AnyCall
    BY <2>1, AnyCallsAreTyped
  <2>3. \A n \in Nat : \A f \in [1 .. n -> AnyCall] : f \in Seq(AnyCall)
    OBVIOUS
  <2>4. frees \in Seq(AnyCall)
    BY <2>0, <2>1, <2>2, <2>3
  <2>5. QED  BY <2>0, <2>4, FreeListOps
<1>5. /\ refs1 \in Seq(AnyCall) /\ drops1 \in Seq(AnyCall)
      /\ Ops(refs1) \subseteq {"ref"} /\ Ops(drops1) \subseteq {"unref"}
  BY <1>2, RefLists
<1>6. drops2 \in Seq(AnyCall) /\ Ops(drops2) \subseteq {"unref"}
  <2>1. drops2 = drops1 \/ drops2 = <<>>
    BY DEF KeepDrops
  <2> HIDE DEF drops1, drops2
  <2>2. QED  BY <1>5, <2>1, Empty
<1>7. c1 \in Seq(AnyCall) /\ c2 \in Seq(AnyCall) /\ Ops(c1) = {"curr"}
  <2>1. SetCurrent \in AnyCall /\ Unlock(k) \in AnyCall /\ SetCurrent.op = "curr"
    BY <1>2, AnyCallsAreTyped, CallNames
  <2> DEFINE a == SetCurrent  b == Unlock(k)
  <2> HIDE DEF a, b, k
  <2>2. a \in AnyCall /\ b \in AnyCall /\ a.op = "curr"
    BY <2>1 DEF a, b
  <2>3. <<a>> \in Seq(AnyCall) /\ <<b>> \in Seq(AnyCall) /\ Ops(<<a>>) = {"curr"}
    BY ONLY <2>2, Single
  <2>4. QED  BY <2>3 DEF a, b
<1>8. KeepCalls(t) = (((refs1 \o drops1) \o c1) \o drops2) \o frees
  BY DEF KeepCalls
<1> HIDE DEF refs1, drops1, c1, drops2, frees, c2, gone, k, stack, new
<1> DEFINE l1 == refs1 \o drops1
           l2 == l1 \o c1
           l3 == l2 \o drops2
           l4 == l3 \o frees
<1>a. l1 \in Seq(AnyCall) /\ Ops(l1) \subseteq {"ref", "unref"}
  BY <1>5, ShortLists, OpsConcat
<1>b. l2 \in Seq(AnyCall) /\ Ops(l2) \subseteq {"ref", "unref", "curr"}
  <2> HIDE DEF l1
  <2>1. Ops(l2) = Ops(l1) \cup Ops(c1)
    BY ONLY <1>a, <1>7, OpsConcat
  <2>2. QED  BY <1>a, <1>7, <2>1, ShortLists
<1>c. l3 \in Seq(AnyCall) /\ Ops(l3) \subseteq {"ref", "unref", "curr"}
  <2> HIDE DEF l2
  <2>1. Ops(l3) = Ops(l2) \cup Ops(drops2)
    BY ONLY <1>b, <1>6, OpsConcat
  <2>2. QED  BY <1>b, <1>6, <2>1, ShortLists
<1>d. l4 \in Seq(AnyCall) /\ Ops(l4) \subseteq {"ref", "unref", "curr", "free"}
  <2> HIDE DEF l3
  <2>1. Ops(l4) = Ops(l3) \cup Ops(frees)
    BY ONLY <1>c, <1>4, OpsConcat
  <2>2. QED  BY <1>c, <1>4, <2>1, ShortLists
<1>9. KeepCalls(t) \in Seq(AnyCall) /\ Ops(KeepCalls(t)) \subseteq {"ref", "unref", "curr", "free"}
  BY <1>8, <1>d
<1>10. todo'[t] = (KeepCalls(t) \o c2) \o Tail(todo[t]) /\ Tail(todo[t]) = <<>>
  <2>1. AfterCall("keep") = {}
    BY DEF AfterCall
  <2>2. Tail(todo[t]) \in Seq(AnyCall) /\ Ops(Tail(todo[t])) = {}
    BY <1>1, <2>1, HeadAndTail
  <2>3. Tail(todo[t]) = <<>>
    BY <2>2, NoOps
  <2>4. QED  BY <1>1, <2>3 DEF Then, TypeInv, Typed
<1>11. todo'[t] = KeepCalls(t) \o c2
  <2> DEFINE q == KeepCalls(t) \o c2
  <2>1. q \in Seq(AnyCall)
    BY <1>7, <1>9, ShortLists
  <2>2. todo'[t] = q \o <<>>
    BY <1>10
  <2> HIDE DEF q
  <2>3. q \o <<>> = q
    BY <2>1
  <2>4. QED  BY <2>2, <2>3 DEF q
<1>12. ToSet(gone) = Range(gone)
  BY DEF ToSet, Range
<1>13. chunk' = Given(Range(gone))
  BY <1>1, <1>12
<1>14. QED
  BY <1>2, <1>3, <1>4, <1>5, <1>6, <1>7, <1>9, <1>11, <1>13 DEF c1, c2, drops1, drops2, refs1, frees, gone, k, stack

(* The elements of short lists.                                            *)
LEMMA RangeShort ==
    /\ Range(<<>>) = {} /\ \A a : Range(<<a>>) = {a}
    /\ \A a, b : Range(<<a, b>>) = {a, b}
BY DEF Range

(* A call that is begun rarely is new only where it is made.               *)
LEMMA PendingNew ==
    ASSUME BaseInv, NEW t \in Thread, Step(t)
    PROVE  /\ \A c \in Pending(t, "keep")' :
                 c \in Pending(t, "keep") \/ (pop_all(t) /\ c = Keep(Op(t).task, Op(t).done))
           /\ \A c \in Pending(t, "unlock_task")' :
                 c \in Pending(t, "unlock_task") \/ (keep(t) /\ c = Unlock(Call(t).task))
           /\ \A c \in Pending(t, "bind")' :
                 \/ c \in Pending(t, "bind")
                 \/ create(t) /\ c = Bind(Op(t).h, Fresh)
                 \/ copy(t) /\ c = Bind(Op(t).h, hold[Op(t).from])
           /\ \A c \in Pending(t, "free_old")' :
                 \/ c \in Pending(t, "free_old")
                 \/ realloc(t) /\ \E b \in Blocks : /\ c = FreeOld(b)
                                                    /\ chunk' = [chunk EXCEPT ![b].use = "moving"]
<1> DEFINE New(c) ==
      /\ c.op = "keep" => pop_all(t) /\ c = Keep(Op(t).task, Op(t).done)
      /\ c.op = "unlock_task" => keep(t) /\ c = Unlock(Call(t).task)
      /\ c.op = "bind" => \/ create(t) /\ c = Bind(Op(t).h, Fresh)
                          \/ copy(t) /\ c = Bind(Op(t).h, hold[Op(t).from])
      /\ c.op = "free_old" =>
             realloc(t) /\ \E b \in Blocks : /\ c = FreeOld(b)
                                             /\ chunk' = [chunk EXCEPT ![b].use = "moving"]
<1>a. \A n, k, u, d : /\ Alloc(n, k, u).op = "alloc" /\ Keep(k, d).op = "keep" /\ Ref(n).op = "ref"
                      /\ FirstRef(n).op = "ref" /\ Bind(n, k).op = "bind" /\ FreeOld(n).op = "free_old"
                      /\ Unlock(k).op = "unlock_task"
  BY CallNames
<1>b. ASSUME NEW op, NEW calls, Begins(t, op), Begin(t, calls) PROVE todo'[t] = calls
  BY <1>b, BeginTypes DEF BaseInv, TypeInv, Typed
<1>1. SUFFICES OldRare(t) \/ \A c \in Range(todo'[t]) : New(c)
  BY DEF Pending, OldRare, RareOps
<1>2. CASE pop_all(t)
  <2> DEFINE a == Alloc(current[t], StackSize, "places")  b == Keep(Op(t).task, Op(t).done)
  <2>1. \/ todo'[t] = <<>> \o <<b>>
        \/ todo'[t] = <<a>> \o <<b>>
    <3>1. Begins(t, "save") /\ Begin(t, (IF tls[t].stack = <<>> THEN <<>> ELSE <<a>>) \o <<b>>)
      BY <1>2 DEF pop_all
    <3>2. QED  BY <1>b, <3>1
  <2>2. a.op = "alloc" /\ b.op = "keep"
    BY <1>a
  <2>3. Range(todo'[t]) \subseteq {a, b}
    <3> HIDE DEF a, b
    <3>1. <<>> \o <<b>> = <<b>>
      OBVIOUS
    <3>2. todo'[t] = <<b>> \/ todo'[t] = <<a, b>>
      BY ONLY <2>1, <3>1, OneThenOne
    <3>3. CASE todo'[t] = <<b>>
      BY ONLY <3>3, RangeShort
    <3>4. CASE todo'[t] = <<a, b>>
      BY ONLY <3>4, RangeShort
    <3>5. QED  BY ONLY <3>2, <3>3, <3>4
  <2>4. b = Keep(Op(t).task, Op(t).done)
    OBVIOUS
  <2> HIDE DEF a, b
  <2>5. QED  BY <1>2, <2>2, <2>3, <2>4
<1>3. CASE keep(t)
  <2>1. todo'[t] = KeepCalls(t) \o <<Unlock(Call(t).task)>> /\ KeepCalls(t) \in Seq(AnyCall)
        /\ <<Unlock(Call(t).task)>> \in Seq(AnyCall)
        /\ Ops(KeepCalls(t)) \subseteq {"ref", "unref", "curr", "free"}
    BY <1>3, KeepList
  <2> DEFINE b == Unlock(Call(t).task)  q == KeepCalls(t)
  <2>2. b = Unlock(Call(t).task) /\ b.op = "unlock_task"
    BY <1>a
  <2>3. \A c \in Range(q) : c.op \in Ops(q)
    BY RangeOps
  <2>4. todo'[t] = q \o <<b>> /\ q \in Seq(AnyCall) /\ <<b>> \in Seq(AnyCall) /\ Ops(q) \subseteq {"ref", "unref", "curr", "free"}
    BY <2>1
  <2> HIDE DEF b, q
  <2>5. Range(todo'[t]) = Range(q) \cup {b}
    <3>1. Range(todo'[t]) = Range(q) \cup Range(<<b>>)
      BY ONLY <2>4, RangeConcat
    <3>2. Range(<<b>>) = {b}
      BY ONLY RangeShort
    <3>3. QED  BY <3>1, <3>2
  <2>6. QED  BY <1>3, <2>2, <2>3, <2>4, <2>5
<1>4. CASE create(t) \/ copy(t)
  <2>1. \E a, b : /\ todo'[t] = <<a, b>> /\ a.op = "ref" /\ b.op = "bind"
                  /\ \/ create(t) /\ b = Bind(Op(t).h, Fresh)
                     \/ copy(t) /\ b = Bind(Op(t).h, hold[Op(t).from])
    <3>1. CASE create(t)
      <4>1. todo'[t] = <<FirstRef(Fresh), Bind(Op(t).h, Fresh)>>
        BY <1>b, <3>1 DEF create
      <4>2. QED  BY <1>a, <3>1, <4>1
    <3>2. CASE copy(t)
      <4>1. todo'[t] = <<Ref(hold[Op(t).from]), Bind(Op(t).h, hold[Op(t).from])>>
        BY <1>b, <3>2 DEF copy
      <4>2. QED  BY <1>a, <3>2, <4>1
    <3>3. QED  BY <1>4, <3>1, <3>2
  <2>2. PICK a, b : /\ todo'[t] = <<a, b>> /\ a.op = "ref" /\ b.op = "bind"
                    /\ \/ create(t) /\ b = Bind(Op(t).h, Fresh)
                       \/ copy(t) /\ b = Bind(Op(t).h, hold[Op(t).from])
    BY <2>1
  <2>3. Range(todo'[t]) = {a, b}
    BY ONLY <2>2, RangeShort
  <2>4. QED  BY <2>2, <2>3
<1>5. CASE realloc(t)
  <2> DEFINE R(c, b) == b \in Blocks /\ c = FreeOld(b) /\ chunk' = [chunk EXCEPT ![b].use = "moving"]
  <2>1. \/ todo'[t] = <<>>
        \/ \E a : todo'[t] = <<a>> /\ a.op = "alloc"
        \/ \E a, c, b : todo'[t] = <<a, c>> /\ a.op = "alloc" /\ c.op = "free_old" /\ R(c, b)
    <3> DEFINE a == Alloc(current[t], Op(t).bytes, "block")
    <3>0. a = Alloc(current[t], Op(t).bytes, "block") /\ a.op = "alloc"
      BY <1>a
    <3> HIDE DEF a
    <3>1. \/ Begin(t, <<a>>)
          \/ Begin(t, <<>>)
          \/ \E b \in Blocks : chunk' = [chunk EXCEPT ![b].use = "moving"] /\ Begin(t, <<a, FreeOld(b)>>)
      BY <1>5, <3>0 DEF realloc
    <3>2. Begins(t, "realloc")
      BY <1>5 DEF realloc
    <3>3. CASE \E b \in Blocks : chunk' = [chunk EXCEPT ![b].use = "moving"] /\ Begin(t, <<a, FreeOld(b)>>)
      <4>1. PICK b \in Blocks : chunk' = [chunk EXCEPT ![b].use = "moving"] /\ Begin(t, <<a, FreeOld(b)>>)
        BY <3>3
      <4>2. todo'[t] = <<a, FreeOld(b)>> /\ FreeOld(b).op = "free_old"
        BY <1>a, <1>b, <3>2, <4>1
      <4>3. QED  BY <3>0, <4>1, <4>2
    <3>4. QED  BY <1>b, <3>0, <3>1, <3>2, <3>3
  <2>a. \A c, b : R(c, b) => \E x \in Blocks : c = FreeOld(x) /\ chunk' = [chunk EXCEPT ![x].use = "moving"]
    OBVIOUS
  <2> HIDE DEF R
  <2>2. CASE todo'[t] = <<>>
    BY <2>2, RangeShort
  <2>3. CASE \E a : todo'[t] = <<a>> /\ a.op = "alloc"
    BY <2>3, RangeShort
  <2>4. CASE \E a, c, b : todo'[t] = <<a, c>> /\ a.op = "alloc" /\ c.op = "free_old" /\ R(c, b)
    <3>1. PICK a, c, b : todo'[t] = <<a, c>> /\ a.op = "alloc" /\ c.op = "free_old" /\ R(c, b)
      BY <2>4
    <3>2. Range(todo'[t]) = {a, c}
      BY ONLY <3>1, RangeShort
    <3>3. QED  BY <1>5, <2>a, <3>1, <3>2
  <2>5. QED  BY <2>1, <2>2, <2>3, <2>4
<1> HIDE DEF New
<1>6. QED  BY <1>2, <1>3, <1>4, <1>5, PendingFrom

==============================================================================
