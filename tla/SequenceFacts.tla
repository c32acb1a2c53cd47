---------------------------- MODULE SequenceFacts ---------------------------
(***************************************************************************)
(* Facts about the lists of the program (client lists, task queues, free   *)
(* lists, buckets), seen as the set of their elements: push_back adds one  *)
(* element, pop_front removes one, concatenation unites them.              *)
(***************************************************************************)
EXTENDS Integers, SequencesExt, WellFoundedInduction, FiniteSetTheorems, TLAPS

(* The positions of a list after push_back.                                *)
LEMMA AppendAt ==
    ASSUME NEW S, NEW q \in Seq(S), NEW e \in S
    PROVE  /\ DOMAIN q = 1 .. Len(q) /\ Len(q) \in Nat
           /\ DOMAIN Append(q, e) = 1 .. Len(q) + 1
           /\ \A j \in DOMAIN q : Append(q, e)[j] = q[j]
           /\ Append(q, e)[Len(q) + 1] = e
OBVIOUS

(* push_back adds exactly one element to a list.                           *)
LEMMA RangeAppend ==
    ASSUME NEW S, NEW q \in Seq(S), NEW e \in S
    PROVE  Range(Append(q, e)) = Range(q) \cup {e}
<1>1. \A x \in Range(Append(q, e)) : x \in Range(q) \cup {e}
  BY DEF Range
<1>2. \A x \in Range(q) : x \in Range(Append(q, e))
  <2>1. SUFFICES ASSUME NEW i \in DOMAIN q PROVE q[i] \in Range(Append(q, e))
    BY DEF Range
  <2>2. i \in DOMAIN Append(q, e) /\ Append(q, e)[i] = q[i]
    OBVIOUS
  <2>3. QED  BY <2>2 DEF Range
<1>3. e \in Range(Append(q, e))
  <2>1. Len(q) + 1 \in DOMAIN Append(q, e) /\ Append(q, e)[Len(q) + 1] = e
    OBVIOUS
  <2>2. QED  BY <2>1 DEF Range
<1>4. QED  BY <1>1, <1>2, <1>3

(* pop_front removes the first element.                                    *)
LEMMA RangeHeadTail ==
    ASSUME NEW S, NEW q \in Seq(S), q # <<>>
    PROVE  /\ Head(q) \in S
           /\ Tail(q) \in Seq(S)
           /\ Range(q) = {Head(q)} \cup Range(Tail(q))
<1>1. Head(q) \in S /\ Tail(q) \in Seq(S)
  OBVIOUS
<1>2. Head(q) \in Range(q)
  <2>1. 1 \in DOMAIN q /\ Head(q) = q[1]
    OBVIOUS
  <2>2. QED  BY <2>1 DEF Range
<1>3. \A x \in Range(Tail(q)) : x \in Range(q)
  <2>1. SUFFICES ASSUME NEW i \in DOMAIN Tail(q) PROVE Tail(q)[i] \in Range(q)
    BY DEF Range
  <2>2. i + 1 \in DOMAIN q /\ Tail(q)[i] = q[i + 1]
    OBVIOUS
  <2>3. QED  BY <2>2 DEF Range
<1>4. \A x \in Range(q) : x = Head(q) \/ x \in Range(Tail(q))
  <2>1. SUFFICES ASSUME NEW i \in DOMAIN q PROVE q[i] = Head(q) \/ q[i] \in Range(Tail(q))
    BY DEF Range
  <2>2. CASE i = 1
    BY <2>2
  <2>3. CASE i # 1
    <3>1. i - 1 \in DOMAIN Tail(q) /\ Tail(q)[i - 1] = q[i]
      BY <2>3
    <3>2. QED  BY <3>1 DEF Range
  <2>4. QED  BY <2>2, <2>3
<1>5. QED  BY <1>1, <1>2, <1>3, <1>4

(* Appending a new element keeps a list without repetitions.               *)
LEMMA InjectiveAppend ==
    ASSUME NEW S, NEW q \in Seq(S), NEW e \in S, IsInjective(q), e \notin Range(q)
    PROVE  IsInjective(Append(q, e))
<1>1. \A i \in DOMAIN q : q[i] # e
  BY DEF Range
<1>2. QED  BY <1>1 DEF IsInjective

(* Without its head, a list without repetitions has none, nor the head.    *)
LEMMA InjectiveTail ==
    ASSUME NEW S, NEW q \in Seq(S), q # <<>>, IsInjective(q)
    PROVE  IsInjective(Tail(q)) /\ Head(q) \notin Range(Tail(q))
<1>1. \A i \in DOMAIN Tail(q) : i + 1 \in DOMAIN q /\ Tail(q)[i] = q[i + 1]
  OBVIOUS
<1>2. IsInjective(Tail(q))
  <2>1. SUFFICES ASSUME NEW i \in DOMAIN Tail(q), NEW j \in DOMAIN Tail(q),
                        Tail(q)[i] = Tail(q)[j]
                 PROVE  i = j
    BY DEF IsInjective
  <2>2. i + 1 = j + 1
    BY <1>1, <2>1 DEF IsInjective
  <2>3. QED  BY <2>2
<1>3. Head(q) \notin Range(Tail(q))
  <2>1. SUFFICES ASSUME NEW i \in DOMAIN Tail(q), Tail(q)[i] = Head(q) PROVE FALSE
    BY DEF Range
  <2>2. 1 \in DOMAIN q /\ Head(q) = q[1]
    OBVIOUS
  <2>3. i + 1 = 1
    BY <1>1, <2>1, <2>2 DEF IsInjective
  <2>4. QED  BY <2>3
<1>4. QED  BY <1>2, <1>3

(* The empty list.                                                         *)
LEMMA EmptyList ==
    Range(<<>>) = {} /\ IsInjective(<<>>)
BY DEF Range, IsInjective

(* A list of one element: what Mutex::lock waits for.                      *)
LEMMA OneElementList ==
    ASSUME NEW e
    PROVE  <<e>> \in Seq({e}) /\ Range(<<e>>) = {e} /\ IsInjective(<<e>>)
BY DEF Range, IsInjective

(* pop_back removes the last element.                                      *)
LEMMA RangeFrontLast ==
    ASSUME NEW S, NEW q \in Seq(S), q # <<>>
    PROVE  /\ q[Len(q)] \in S
           /\ SubSeq(q, 1, Len(q) - 1) \in Seq(S)
           /\ Range(q) = Range(SubSeq(q, 1, Len(q) - 1)) \cup {q[Len(q)]}
<1> DEFINE front == SubSeq(q, 1, Len(q) - 1)
<1>1. /\ Len(q) \in DOMAIN q /\ q[Len(q)] \in S
      /\ front \in Seq(S) /\ DOMAIN front = 1 .. Len(q) - 1
      /\ \A i \in 1 .. Len(q) - 1 : front[i] = q[i]
  OBVIOUS
<1>2. \A x \in Range(q) : x \in Range(front) \cup {q[Len(q)]}
  <2>1. SUFFICES ASSUME NEW i \in DOMAIN q, i # Len(q) PROVE q[i] \in Range(front)
    BY DEF Range
  <2>2. i \in DOMAIN front /\ front[i] = q[i]
    BY <1>1, <2>1
  <2>3. QED  BY <2>2 DEF Range
<1>3. \A x \in Range(front) \cup {q[Len(q)]} : x \in Range(q)
  BY <1>1 DEF Range
<1>4. QED  BY <1>1, <1>2, <1>3

(* Without its last element, a list without repetitions has none, nor that *)
(* element.                                                                *)
LEMMA InjectiveFront ==
    ASSUME NEW S, NEW q \in Seq(S), q # <<>>, IsInjective(q)
    PROVE  /\ IsInjective(SubSeq(q, 1, Len(q) - 1))
           /\ q[Len(q)] \notin Range(SubSeq(q, 1, Len(q) - 1))
<1> DEFINE front == SubSeq(q, 1, Len(q) - 1)
<1>1. /\ DOMAIN front = 1 .. Len(q) - 1 /\ DOMAIN q = 1 .. Len(q)
      /\ \A i \in 1 .. Len(q) - 1 : front[i] = q[i]
  OBVIOUS
<1> HIDE DEF front
<1>2. IsInjective(front)
  BY <1>1 DEF IsInjective
<1>3. q[Len(q)] \notin Range(front)
  <2>1. SUFFICES ASSUME NEW i \in DOMAIN front, front[i] = q[Len(q)] PROVE FALSE
    BY DEF Range
  <2>2. i \in DOMAIN q /\ Len(q) \in DOMAIN q /\ i # Len(q) /\ q[i] = q[Len(q)]
    BY <1>1, <2>1
  <2>3. QED  BY <2>2 DEF IsInjective
<1>4. QED  BY <1>2, <1>3 DEF front

(* One list is moved behind another one.                                   *)
LEMMA RangeConcat ==
    ASSUME NEW S, NEW p \in Seq(S), NEW q \in Seq(S)
    PROVE  p \o q \in Seq(S) /\ Range(p \o q) = Range(p) \cup Range(q)
<1>1. /\ p \o q \in Seq(S) /\ DOMAIN (p \o q) = 1 .. Len(p) + Len(q)
      /\ DOMAIN p = 1 .. Len(p) /\ DOMAIN q = 1 .. Len(q)
      /\ \A i \in 1 .. Len(p) : (p \o q)[i] = p[i]
      /\ \A i \in 1 .. Len(p) + Len(q) : i > Len(p) => (p \o q)[i] = q[i - Len(p)]
  OBVIOUS
<1>2. \A x \in Range(p \o q) : x \in Range(p) \cup Range(q)
  <2>1. SUFFICES ASSUME NEW i \in DOMAIN (p \o q)
                 PROVE  (p \o q)[i] \in Range(p) \cup Range(q)
    BY DEF Range
  <2>2. CASE i \in 1 .. Len(p)
    BY <1>1, <2>2 DEF Range
  <2>3. CASE i \notin 1 .. Len(p)
    <3>1. i - Len(p) \in DOMAIN q /\ (p \o q)[i] = q[i - Len(p)]
      BY <1>1, <2>3
    <3>2. QED  BY <3>1 DEF Range
  <2>4. QED  BY <2>2, <2>3
<1>3. \A x \in Range(p) : x \in Range(p \o q)
  <2>1. SUFFICES ASSUME NEW i \in DOMAIN p PROVE p[i] \in Range(p \o q)
    BY DEF Range
  <2>2. i \in DOMAIN (p \o q) /\ (p \o q)[i] = p[i]
    BY <1>1
  <2>3. QED  BY <2>2 DEF Range
<1>4. \A x \in Range(q) : x \in Range(p \o q)
  <2>1. SUFFICES ASSUME NEW i \in DOMAIN q PROVE q[i] \in Range(p \o q)
    BY DEF Range
  <2>2. i + Len(p) \in DOMAIN (p \o q) /\ (p \o q)[i + Len(p)] = q[i]
    BY <1>1
  <2>3. QED  BY <2>2 DEF Range
<1>5. QED  BY <1>1, <1>2, <1>3, <1>4

(* ... without repetitions when the two share nothing.                     *)
LEMMA InjectiveConcat ==
    ASSUME NEW S, NEW p \in Seq(S), NEW q \in Seq(S),
           IsInjective(p), IsInjective(q), Range(p) \cap Range(q) = {}
    PROVE  IsInjective(p \o q)
<1>1. /\ DOMAIN (p \o q) = 1 .. Len(p) + Len(q)
      /\ DOMAIN p = 1 .. Len(p) /\ DOMAIN q = 1 .. Len(q)
      /\ \A i \in 1 .. Len(p) : (p \o q)[i] = p[i]
      /\ \A i \in 1 .. Len(p) + Len(q) :
             i > Len(p) => i - Len(p) \in 1 .. Len(q) /\ (p \o q)[i] = q[i - Len(p)]
  OBVIOUS
<1>2. \A i \in DOMAIN p, j \in DOMAIN q : p[i] # q[j]
  BY DEF Range
<1>3. SUFFICES ASSUME NEW i \in DOMAIN (p \o q), NEW j \in DOMAIN (p \o q),
                      (p \o q)[i] = (p \o q)[j]
               PROVE  i = j
  BY DEF IsInjective
<1>4. CASE i \in 1 .. Len(p) /\ j \in 1 .. Len(p)
  BY <1>1, <1>3, <1>4 DEF IsInjective
<1>5. CASE i \in 1 .. Len(p) /\ j \notin 1 .. Len(p)
  BY <1>1, <1>2, <1>3, <1>5
<1>6. CASE i \notin 1 .. Len(p) /\ j \in 1 .. Len(p)
  BY <1>1, <1>2, <1>3, <1>6
<1>7. CASE i \notin 1 .. Len(p) /\ j \notin 1 .. Len(p)
  <2>1. /\ i - Len(p) \in DOMAIN q /\ j - Len(p) \in DOMAIN q
        /\ q[i - Len(p)] = q[j - Len(p)]
    BY <1>1, <1>3, <1>7
  <2>2. i - Len(p) = j - Len(p)
    BY <2>1 DEF IsInjective
  <2>3. QED  BY <1>1, <2>2
<1>8. QED  BY <1>4, <1>5, <1>6, <1>7

(* A set of naturals that is not empty has a least element.                *)
LEMMA LeastElement ==
    ASSUME NEW S \in SUBSET Nat, S # {}
    PROVE  \E c \in S : \A d \in S : c <= d
<1> DEFINE R == OpToRel(<, Nat)
<1>1. IsWellFoundedOn(R, Nat)
  BY NatLessThanWellFounded
<1>2. \A c, d \in Nat : <<c, d>> \in R <=> c < d
  BY DEF OpToRel
<1> HIDE DEF R
<1>3. PICK c \in S : \A d \in S : <<d, c>> \notin R
  BY <1>1, WFMin
<1>4. \A d \in S : ~(d < c)
  BY <1>2, <1>3
<1>5. \A d \in S : c <= d
  BY <1>4
<1>6. QED  BY <1>5

(* The recursion of FlattenSeq has a solution: the list of what is         *)
(* concatenated so far.                                                    *)
IsFlattening(f, seqs, n) ==
    f = [i \in 1 .. n |-> IF i = 1 THEN seqs[i] ELSE f[i - 1] \o seqs[i]]

(* What the recursion says of an element of the list.                      *)
LEMMA FlatteningAt ==
    ASSUME NEW f, NEW seqs, NEW n, IsFlattening(f, seqs, n), NEW i \in 1 .. n
    PROVE  f[i] = IF i = 1 THEN seqs[i] ELSE f[i - 1] \o seqs[i]
<1> DEFINE g == [j \in 1 .. n |-> IF j = 1 THEN seqs[j] ELSE f[j - 1] \o seqs[j]]
<1>1. f = g
  BY DEF IsFlattening
<1>2. g[i] = IF i = 1 THEN seqs[i] ELSE f[i - 1] \o seqs[i]
  OBVIOUS
<1> HIDE DEF g
<1>3. QED  BY <1>1, <1>2

(* There is a solution: the least length without one would extend that of  *)
(* the length before.                                                      *)
LEMMA FlatteningExists ==
    ASSUME NEW seqs, NEW n \in Nat
    PROVE  \E f : IsFlattening(f, seqs, n)
<1> DEFINE Bad == {m \in Nat : ~\E f : IsFlattening(f, seqs, m)}
<1>1. SUFFICES ASSUME Bad # {} PROVE FALSE
  OBVIOUS
<1>2. PICK m \in Bad : \A d \in Bad : m <= d
  BY <1>1, LeastElement
<1>3. CASE m = 0
  <2>1. IsFlattening([i \in 1 .. 0 |-> 0], seqs, 0)
    BY DEF IsFlattening
  <2>2. QED  BY <1>2, <1>3, <2>1
<1>4. CASE m > 0
  <2>1. m - 1 \in Nat /\ m - 1 \notin Bad
    BY <1>2, <1>4
  <2>2. PICK f : IsFlattening(f, seqs, m - 1)
    BY <2>1
  <2> DEFINE g == [i \in 1 .. m |-> IF i = 1 THEN seqs[i] ELSE f[i - 1] \o seqs[i]]
  <2>3. \A i \in 1 .. m - 1 : g[i] = f[i]
    <3>1. TAKE i \in 1 .. m - 1
    <3>2. f[i] = IF i = 1 THEN seqs[i] ELSE f[i - 1] \o seqs[i]
      BY <2>1, <2>2, FlatteningAt
    <3>3. i \in 1 .. m
      BY <1>2
    <3>4. QED  BY <3>2, <3>3
  <2>4. g = [i \in 1 .. m |-> IF i = 1 THEN seqs[i] ELSE g[i - 1] \o seqs[i]]
    <3>1. \A i \in 1 .. m : i # 1 => i - 1 \in 1 .. m - 1
      BY <1>2
    <3>2. \A i \in 1 .. m : i # 1 => g[i - 1] = f[i - 1]
      BY <2>3, <3>1
    <3> DEFINE h == [i \in 1 .. m |-> IF i = 1 THEN seqs[i] ELSE g[i - 1] \o seqs[i]]
    <3>3. \A i \in 1 .. m : g[i] = h[i]
      <4>1. TAKE i \in 1 .. m
      <4>2. g[i] = IF i = 1 THEN seqs[i] ELSE f[i - 1] \o seqs[i]
        OBVIOUS
      <4>3. h[i] = IF i = 1 THEN seqs[i] ELSE g[i - 1] \o seqs[i]
        OBVIOUS
      <4> HIDE DEF g, h
      <4>4. QED  BY <3>2, <4>2, <4>3
    <3>4. g = h
      BY <3>3
    <3>5. QED  BY <3>4
  <2>5. IsFlattening(g, seqs, m)
    BY <2>4 DEF IsFlattening
  <2>6. QED  BY <1>2, <2>5
<1>5. QED  BY <1>3, <1>4

(* FlattenSeq, unfolded.                                                   *)
LEMMA FlattenUnfolds ==
    ASSUME NEW seqs, Len(seqs) \in Nat \ {0}
    PROVE  \E f : IsFlattening(f, seqs, Len(seqs)) /\ FlattenSeq(seqs) = f[Len(seqs)]
<1> DEFINE f == CHOOSE f : IsFlattening(f, seqs, Len(seqs))
<1>1. IsFlattening(f, seqs, Len(seqs))
  BY FlatteningExists
<1>2. FlattenSeq(seqs) = f[Len(seqs)]
  BY DEF FlattenSeq, IsFlattening
<1>3. QED  BY <1>1, <1>2

(* What is concatenated holds the elements of the parts, and none twice if *)
(* the parts have no repetitions and no common elements.                   *)
LEMMA FlattenFacts ==
    ASSUME NEW S, NEW seqs \in Seq(Seq(S))
    PROVE  /\ FlattenSeq(seqs) \in Seq(S)
           /\ Range(FlattenSeq(seqs)) = UNION {Range(seqs[i]) : i \in DOMAIN seqs}
           /\ /\ \A i \in DOMAIN seqs : IsInjective(seqs[i])
              /\ \A i, j \in DOMAIN seqs : i # j => Range(seqs[i]) \cap Range(seqs[j]) = {}
              => IsInjective(FlattenSeq(seqs))
<1> DEFINE n == Len(seqs)
           Apart == /\ \A i \in 1 .. n : IsInjective(seqs[i])
                    /\ \A i, j \in 1 .. n : i # j => Range(seqs[i]) \cap Range(seqs[j]) = {}
           Good(f, i) == /\ f[i] \in Seq(S)
                         /\ Range(f[i]) = UNION {Range(seqs[j]) : j \in 1 .. i}
                         /\ Apart => IsInjective(f[i])
<1>0. n \in Nat /\ DOMAIN seqs = 1 .. n /\ \A i \in 1 .. n : seqs[i] \in Seq(S)
  OBVIOUS
<1>1. CASE n = 0
  <2>1. seqs = <<>> /\ FlattenSeq(seqs) = <<>>
    BY <1>1 DEF FlattenSeq
  <2>2. /\ FlattenSeq(seqs) \in Seq(S) /\ Range(FlattenSeq(seqs)) = {}
        /\ IsInjective(FlattenSeq(seqs))
    <3>1. <<>> \in Seq(S) /\ Range(<<>>) = {} /\ IsInjective(<<>>)
      BY EmptyList
    <3> DEFINE flat == FlattenSeq(seqs)
    <3>2. flat = <<>>
      BY <2>1
    <3> HIDE DEF flat
    <3>3. flat \in Seq(S) /\ Range(flat) = {} /\ IsInjective(flat)
      BY <3>1, <3>2
    <3>4. QED  BY <3>3 DEF flat
  <2>3. UNION {Range(seqs[i]) : i \in DOMAIN seqs} = {}
    BY <1>0, <1>1
  <2>4. QED  BY <2>2, <2>3
<1>2. CASE n # 0
  <2>1. PICK f : IsFlattening(f, seqs, n) /\ FlattenSeq(seqs) = f[n]
    BY <1>0, <1>2, FlattenUnfolds
  <2> HIDE DEF n
  <2>2. \A i \in 1 .. n : f[i] = IF i = 1 THEN seqs[i] ELSE f[i - 1] \o seqs[i]
    BY <2>1, FlatteningAt
  <2>3. \A i \in 1 .. n : Good(f, i)
    <3> DEFINE Bad == {i \in 1 .. n : ~Good(f, i)}
    <3>1. SUFFICES ASSUME Bad # {} PROVE FALSE
      OBVIOUS
    <3>a. Bad \in SUBSET Nat
      BY <1>0
    <3>2. PICK m \in Bad : \A d \in Bad : m <= d
      <4> HIDE DEF Bad
      <4>1. QED  BY <3>1, <3>a, LeastElement
    <3>b. m \in 1 .. n /\ ~Good(f, m)
      OBVIOUS
    <3>3. CASE m = 1
      <4>1. f[m] = seqs[1]
        BY <2>2, <3>3, <3>b
      <4>2. Range(seqs[1]) = UNION {Range(seqs[j]) : j \in 1 .. 1}
        OBVIOUS
      <4>3. Apart => IsInjective(seqs[1])
        BY <3>3, <3>b
      <4>4. QED  BY <1>0, <3>3, <3>b, <4>1, <4>2, <4>3
    <3>4. CASE m # 1
      <4>1. m - 1 \in 1 .. n /\ m - 1 \notin Bad
        <5>1. m - 1 \in 1 .. n /\ ~(m <= m - 1)
          BY <1>0, <3>b, <3>4
        <5> HIDE DEF Bad
        <5>2. QED  BY <3>2, <5>1
      <4>2. Good(f, m - 1)
        BY <4>1
      <4> HIDE DEF Bad
      <4>3. f[m] = f[m - 1] \o seqs[m] /\ seqs[m] \in Seq(S)
        BY <1>0, <2>2, <3>b, <3>4
      <4>4. Range(f[m]) = Range(f[m - 1]) \cup Range(seqs[m])
        BY <4>2, <4>3, RangeConcat
      <4>5. Range(f[m]) = UNION {Range(seqs[j]) : j \in 1 .. m}
        <5>1. \A j \in 1 .. m : j = m \/ j \in 1 .. m - 1
          BY <1>0, <3>b
        <5>2. \A j \in 1 .. m - 1 : j \in 1 .. m
          BY <1>0, <3>b
        <5>3. m \in 1 .. m
          BY <1>0, <3>b
        <5>4. QED  BY <4>2, <4>4, <5>1, <5>2, <5>3
      <4>6. ASSUME Apart PROVE IsInjective(f[m])
        <5>1. \A j \in 1 .. m - 1 : Range(seqs[j]) \cap Range(seqs[m]) = {}
          <6>1. TAKE j \in 1 .. m - 1
          <6>2. j \in 1 .. n /\ m \in 1 .. n /\ j # m
            BY <1>0, <3>b
          <6>3. QED  BY <4>6, <6>2
        <5>2. Range(f[m - 1]) \cap Range(seqs[m]) = {}
          BY <4>2, <5>1
        <5>3. IsInjective(f[m - 1]) /\ IsInjective(seqs[m])
          BY <3>b, <4>2, <4>6
        <5> HIDE DEF Apart
        <5>4. QED  BY <4>2, <4>3, <5>2, <5>3, InjectiveConcat
      <4>7. f[m] \in Seq(S)
        BY <4>2, <4>3
      <4>8. QED  BY <3>b, <4>5, <4>6, <4>7
    <3>5. QED  BY <3>3, <3>4
  <2>4. Good(f, n)
    <3>1. n \in 1 .. n
      BY <1>0, <1>2
    <3> HIDE DEF Good
    <3>2. QED  BY <2>3, <3>1
  <2>5. QED  BY <1>0, <2>1, <2>4
<1>3. QED  BY <1>1, <1>2

(* How many elements of a list are in a set.                               *)
Where(q, V) == Cardinality({i \in DOMAIN q : q[i] \in V})

(* It is a number, and positive if there is one.                           *)
LEMMA WhereType ==
    ASSUME NEW S, NEW q \in Seq(S), NEW V
    PROVE  /\ IsFiniteSet({i \in DOMAIN q : q[i] \in V})
           /\ Where(q, V) \in Nat
           /\ Where(q, V) <= Len(q)
           /\ Where(q, V) = 0 <=> \A i \in DOMAIN q : q[i] \notin V
<1> DEFINE I == {i \in DOMAIN q : q[i] \in V}
<1>1. DOMAIN q = 1 .. Len(q) /\ Len(q) \in Nat
  OBVIOUS
<1>2. IsFiniteSet(1 .. Len(q)) /\ Cardinality(1 .. Len(q)) = Len(q)
  BY <1>1, FS_Interval
<1>3. I \in SUBSET (1 .. Len(q))
  BY <1>1
<1>4. IsFiniteSet(I) /\ Cardinality(I) <= Len(q)
  <2> HIDE DEF I
  <2>1. QED  BY <1>2, <1>3, FS_Subset
<1>5. Cardinality(I) \in Nat /\ (Cardinality(I) = 0 <=> I = {})
  <2> HIDE DEF I
  <2>1. QED  BY <1>4, FS_CardinalityType, FS_EmptySet
<1>6. QED  BY <1>4, <1>5 DEF Where

(* The empty list has none.                                                *)
LEMMA WhereEmpty ==
    ASSUME NEW V
    PROVE  Where(<<>>, V) = 0
<1>1. {i \in DOMAIN <<>> : <<>>[i] \in V} = {}
  OBVIOUS
<1>2. QED  BY <1>1, FS_EmptySet DEF Where

(* A list of one element.                                                  *)
LEMMA WhereOne ==
    ASSUME NEW x, NEW V
    PROVE  Where(<<x>>, V) = IF x \in V THEN 1 ELSE 0
<1>1. DOMAIN <<x>> = {1} /\ <<x>>[1] = x
  OBVIOUS
<1>2. {i \in DOMAIN <<x>> : <<x>>[i] \in V} = IF x \in V THEN {1} ELSE {}
  BY <1>1
<1>3. QED  BY <1>2, FS_EmptySet, FS_Singleton DEF Where

(* Concatenation adds.                                                     *)
LEMMA WhereConcat ==
    ASSUME NEW S, NEW p \in Seq(S), NEW q \in Seq(S), NEW V
    PROVE  Where(p \o q, V) = Where(p, V) + Where(q, V)
<1> DEFINE P == {i \in DOMAIN p : p[i] \in V}
           Q == {i \in DOMAIN q : q[i] \in V}
           R == {i \in DOMAIN (p \o q) : (p \o q)[i] \in V}
           Q2 == {i \in R : i > Len(p)}
           f == [i \in Q |-> i + Len(p)]
<1>1. /\ DOMAIN p = 1 .. Len(p) /\ Len(p) \in Nat /\ DOMAIN q = 1 .. Len(q) /\ Len(q) \in Nat
      /\ DOMAIN (p \o q) = 1 .. Len(p) + Len(q)
      /\ \A i \in 1 .. Len(p) : (p \o q)[i] = p[i]
      /\ \A i \in 1 .. Len(q) : (p \o q)[i + Len(p)] = q[i]
  OBVIOUS
<1>2. f \in Bijection(Q, Q2)
  <2>1. \A i \in Q : f[i] = i + Len(p) /\ f[i] \in Q2
    BY <1>1
  <2>2. \A j \in Q2 : j - Len(p) \in Q /\ f[j - Len(p)] = j
    <3>1. TAKE j \in Q2
    <3>2. j \in 1 .. Len(p) + Len(q) /\ j > Len(p)
      BY <1>1
    <3>3. j - Len(p) \in 1 .. Len(q) /\ (j - Len(p)) + Len(p) = j
      BY <1>1, <3>2
    <3>4. (p \o q)[j] = q[j - Len(p)]
      BY <1>1, <3>3
    <3>5. QED  BY <1>1, <3>3, <3>4
  <2>3. \A i, j \in Q : f[i] = f[j] => i = j
    <3>1. TAKE i, j \in Q
    <3>2. i \in Nat /\ j \in Nat
      BY <1>1
    <3>3. QED  BY <1>1, <3>2
  <2>4. f \in [Q -> Q2]
    BY <2>1
  <2> HIDE DEF f, Q, Q2
  <2>5. QED  BY <2>2, <2>3, <2>4 DEF Bijection, Injection, Surjection, IsInjective
<1>3. IsFiniteSet(P) /\ IsFiniteSet(Q) /\ Cardinality(P) \in Nat
  BY WhereType DEF Where
<1>4. IsFiniteSet(Q2) /\ Cardinality(Q2) = Cardinality(Q)
  <2>1. ExistsBijection(Q, Q2)
    BY <1>2 DEF ExistsBijection
  <2> HIDE DEF Q, Q2
  <2>2. QED  BY <1>3, <2>1, FS_Bijection
<1>5. R = P \cup Q2 /\ P \cap Q2 = {}
  <2>1. \A i \in R : i \in P \/ i \in Q2
    BY <1>1
  <2>2. \A i \in P : i \in R /\ ~(i > Len(p))
    BY <1>1
  <2>3. \A i \in Q2 : i \in R /\ i > Len(p)
    OBVIOUS
  <2> HIDE DEF R, P, Q2
  <2>4. QED  BY <2>1, <2>2, <2>3
<1>6. Cardinality(R) = Cardinality(P) + Cardinality(Q2)
  <2>1. Cardinality(P) \in Nat /\ Cardinality(Q2) \in Nat
    <3> HIDE DEF P, Q2
    <3>1. QED  BY <1>3, <1>4, FS_CardinalityType
  <2> HIDE DEF R, P, Q2
  <2>2. Cardinality(P \cup Q2) = Cardinality(P) + Cardinality(Q2) - Cardinality(P \cap Q2)
    BY <1>3, <1>4, FS_Union
  <2>3. Cardinality(P \cap Q2) = 0
    BY <1>5, FS_EmptySet
  <2>4. QED  BY <1>5, <2>1, <2>2, <2>3
<1>7. QED  BY <1>4, <1>6 DEF Where

(* The last element and those before it.                                   *)
LEMMA WhereFrontLast ==
    ASSUME NEW S, NEW q \in Seq(S), q # <<>>, NEW V
    PROVE  /\ Front(q) \in Seq(S) /\ Last(q) \in S
           /\ Where(q, V) = Where(Front(q), V) + (IF Last(q) \in V THEN 1 ELSE 0)
<1>1. Front(q) \in Seq(S) /\ Last(q) \in S /\ <<Last(q)>> \in Seq(S)
      /\ q = Front(q) \o <<Last(q)>>
  BY DEF Front, Last
<1> DEFINE x == Last(q)  r == Front(q)
<1> HIDE DEF x, r
<1>2. Where(r \o <<x>>, V) = Where(r, V) + Where(<<x>>, V)
  BY <1>1, WhereConcat DEF x, r
<1>3. Where(<<x>>, V) = IF x \in V THEN 1 ELSE 0
  BY WhereOne
<1>4. QED  BY <1>1, <1>2, <1>3 DEF x, r

(* Lists of at most one element each, concatenated: as many elements are   *)
(* in the set as there are lists that hold one of them.                    *)
LEMMA WhereJoined ==
    ASSUME NEW S, NEW seqs \in Seq(Seq(S)), NEW V, NEW M, M \subseteq DOMAIN seqs,
           \A i \in DOMAIN seqs : Where(seqs[i], V) = IF i \in M THEN 1 ELSE 0
    PROVE  Where(FlattenSeq(seqs), V) = Cardinality(M)
<1>s. SUFFICES Where(FlattenSeq(seqs), V) = Cardinality({i \in DOMAIN seqs : i \in M})
  <2>1. {i \in DOMAIN seqs : i \in M} = M
    OBVIOUS
  <2>2. QED  BY <2>1
<1> DEFINE n == Len(seqs)
           Good(f, i) == f[i] \in Seq(S) /\ Where(f[i], V) = Cardinality({j \in 1 .. i : j \in M})
<1>0. n \in Nat /\ DOMAIN seqs = 1 .. n /\ \A i \in 1 .. n : seqs[i] \in Seq(S)
  OBVIOUS
<1>1. CASE n = 0
  <2>1. FlattenSeq(seqs) = <<>>
    BY <1>1 DEF FlattenSeq
  <2>2. {i \in DOMAIN seqs : i \in M} = {}
    BY <1>0, <1>1
  <2>3. QED  BY <2>1, <2>2, WhereEmpty, FS_EmptySet
<1>2. CASE n # 0
  <2>1. PICK f : IsFlattening(f, seqs, n) /\ FlattenSeq(seqs) = f[n]
    BY <1>0, <1>2, FlattenUnfolds
  <2> HIDE DEF n
  <2>2. \A i \in 1 .. n : f[i] = IF i = 1 THEN seqs[i] ELSE f[i - 1] \o seqs[i]
    BY <2>1, FlatteningAt
  <2>3. \A i \in 1 .. n : Good(f, i)
    <3> DEFINE Bad == {i \in 1 .. n : ~Good(f, i)}
    <3>1. SUFFICES ASSUME Bad # {} PROVE FALSE
      OBVIOUS
    <3>a. Bad \in SUBSET Nat
      BY <1>0
    <3>2. PICK m \in Bad : \A d \in Bad : m <= d
      <4> HIDE DEF Bad
      <4>1. QED  BY <3>1, <3>a, LeastElement
    <3>b. m \in 1 .. n /\ ~Good(f, m)
      OBVIOUS
    <3>c. Where(seqs[m], V) = IF m \in M THEN 1 ELSE 0
      BY <1>0, <3>b
    <3>3. CASE m = 1
      <4>1. f[m] = seqs[1]
        BY <2>2, <3>3, <3>b
      <4>2. {j \in 1 .. 1 : j \in M} = IF 1 \in M THEN {1} ELSE {}
        OBVIOUS
      <4>3. Cardinality({j \in 1 .. 1 : j \in M}) = IF 1 \in M THEN 1 ELSE 0
        BY <4>2, FS_EmptySet, FS_Singleton
      <4>4. f[m] \in Seq(S) /\ Where(f[m], V) = Cardinality({j \in 1 .. m : j \in M})
        BY <1>0, <3>3, <3>b, <3>c, <4>1, <4>3
      <4>5. QED  BY <3>b, <4>4
    <3>4. CASE m # 1
      <4>1. m - 1 \in 1 .. n /\ m - 1 \notin Bad
        <5>1. m - 1 \in 1 .. n /\ ~(m <= m - 1)
          BY <1>0, <3>b, <3>4
        <5> HIDE DEF Bad
        <5>2. QED  BY <3>2, <5>1
      <4>2. Good(f, m - 1)
        BY <4>1
      <4> HIDE DEF Bad
      <4>3. f[m] = f[m - 1] \o seqs[m] /\ seqs[m] \in Seq(S)
        BY <1>0, <2>2, <3>b, <3>4
      <4>4. f[m] \in Seq(S) /\ Where(f[m], V) = Where(f[m - 1], V) + Where(seqs[m], V)
        <5>1. f[m - 1] \o seqs[m] \in Seq(S)
              /\ Where(f[m - 1] \o seqs[m], V) = Where(f[m - 1], V) + Where(seqs[m], V)
          BY <4>2, <4>3, WhereConcat
        <5>2. QED  BY <4>3, <5>1
      <4> DEFINE A == {j \in 1 .. m - 1 : j \in M}
      <4>5. {j \in 1 .. m : j \in M} = IF m \in M THEN A \cup {m} ELSE A
        <5>1. 1 .. m = (1 .. m - 1) \cup {m}
          BY <1>0, <3>b
        <5>2. QED  BY <5>1
      <4>6. IsFiniteSet(A) /\ m \notin A /\ Cardinality(A) \in Nat
        <5>a. m \in Int /\ m - 1 \in Int
          BY <1>0, <3>b
        <5>b. IsFiniteSet(1 .. m - 1)
          BY ONLY <5>a, FS_Interval
        <5>c. A \in SUBSET (1 .. m - 1) /\ m \notin 1 .. m - 1
          BY <5>a
        <5>1. IsFiniteSet(1 .. m - 1) /\ A \in SUBSET (1 .. m - 1) /\ m \notin 1 .. m - 1
          BY ONLY <5>b, <5>c
        <5> HIDE DEF A
        <5>2. QED  BY <5>1, FS_Subset, FS_CardinalityType
      <4>7. Cardinality(A \cup {m}) = Cardinality(A) + 1
        <5> HIDE DEF A
        <5>1. QED  BY <4>6, FS_AddElement
      <4>8. Where(f[m], V) = Cardinality({j \in 1 .. m : j \in M})
        <5> DEFINE B == {j \in 1 .. m : j \in M}
                   w == Where(f[m - 1], V)
        <5>1. w = Cardinality(A) /\ Where(f[m], V) = w + (IF m \in M THEN 1 ELSE 0)
          BY <3>c, <4>2, <4>4
        <5>2. B = IF m \in M THEN A \cup {m} ELSE A
          BY <4>5
        <5> HIDE DEF A, B, w
        <5>3. Where(f[m], V) = Cardinality(B)
          BY <4>6, <4>7, <5>1, <5>2
        <5>4. QED  BY <5>3 DEF B
      <4>9. QED  BY <3>b, <4>4, <4>8
    <3>5. QED  BY <3>3, <3>4
  <2>4. Good(f, n)
    <3>1. n \in 1 .. n
      BY <1>0, <1>2
    <3> HIDE DEF Good
    <3>2. QED  BY <2>3, <3>1
  <2>5. QED  BY <1>0, <2>1, <2>4
<1>3. QED  BY <1>1, <1>2
=============================================================================
