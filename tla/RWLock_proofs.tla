---------------------------- MODULE RWLock_proofs ---------------------------
(* Safety of RWLock for any number of guards below the flag.               *)
EXTENDS RWLock, FiniteSetTheorems, TLAPS

(* The test of the flag bit, for the values the word can have.             *)
LEMMA FlagBit ==
    ASSUME NEW v \in 0 .. 2 * FLAG_WRITE - 1
    PROVE  HasFlag(v) <=> v >= FLAG_WRITE
<1>1. FLAG_WRITE \in Nat \ {0}
  BY FlagAssumption, FS_CardinalityType
<1>2. CASE v < FLAG_WRITE
  <2>1. v \div FLAG_WRITE = 0
    BY <1>1, <1>2, SMT
  <2> QED BY <1>1, <1>2, <2>1, SMT DEF HasFlag
<1>3. CASE v >= FLAG_WRITE
  <2>1. v \div FLAG_WRITE = 1
    BY <1>1, <1>3, SMT
  <2> QED BY <1>1, <1>3, <2>1, SMT DEF HasFlag
<1> QED BY <1>1, <1>2, <1>3, SMT

(* The readers are finitely many, fewer than the flag.                     *)
LEMMA ReaderCount ==
    /\ IsFiniteSet(Readers)
    /\ Cardinality(Readers) \in Nat
    /\ Cardinality(Readers) < FLAG_WRITE
    /\ Cardinality(Readers) = 0 <=> Readers = {}
    /\ FLAG_WRITE \in Nat \ {0}
<1>1. Readers \subseteq Guards
  BY DEF Readers
<1>2. IsFiniteSet(Readers) /\ Cardinality(Readers) <= Cardinality(Guards)
  BY <1>1, FlagAssumption, FS_Subset
<1>3. Cardinality(Readers) \in Nat /\ Cardinality(Guards) \in Nat
  BY <1>2, FlagAssumption, FS_CardinalityType
<1>4. Cardinality(Readers) = 0 <=> Readers = {}
  BY <1>2, FS_EmptySet
<1> QED BY <1>2, <1>3, <1>4, FlagAssumption

(* What a guard that moves from one place to another does to the sets of   *)
(* the invariant.                                                          *)
LEMMA Moves ==
    ASSUME TypeOK, NEW g \in Guards, NEW l, Goto(g, l)
    PROVE  /\ Readers' = IF l \in {"rcheck", "reading", "rdec"}
                         THEN Readers \cup {g} ELSE Readers \ {g}
           /\ Owners' = IF l \in WritePcs \ {"wtry"}
                        THEN Owners \cup {g} ELSE Owners \ {g}
BY DEF TypeOK, Goto, Readers, Owners

(* LockInv is inductive.                                                   *)
LEMMA InvNext ==
    ASSUME LockInv, [Next]_vars
    PROVE  LockInv'
<1> USE DEF LockInv
<1>0. CASE UNCHANGED vars
  BY <1>0 DEF vars, TypeOK, Readers, Owners
<1>1. CASE Next
  <2> PICK g \in Guards : ReadLock(g) \/ WriteLock(g) \/ Step(g)
    BY <1>1 DEF Next
  <2> DEFINE n == Cardinality(Readers)
  <2>0. /\ IsFiniteSet(Readers) /\ n \in Nat /\ n < FLAG_WRITE
        /\ n = 0 <=> Readers = {}
        /\ FLAG_WRITE \in Nat \ {0}
    BY ReaderCount
  <2>w. /\ Owners = {} => value = n
        /\ Owners # {} => value = n + FLAG_WRITE
    BY <2>0
  <2> HIDE DEF n
  <2>v. value \in 0 .. 2 * FLAG_WRITE - 1 /\ oldV[g] \in 0 .. 2 * FLAG_WRITE - 1
    BY DEF TypeOK
  <2>1. ASSUME ReadLock(g) \/ WriteLock(g) PROVE LockInv'
    <3>1. PICK l \in {"rtry", "wtry"} : Goto(g, l)
      BY <2>1 DEF ReadLock, WriteLock
    <3>2. Readers' = Readers /\ Owners' = Owners
      BY <2>1, <3>1 DEF ReadLock, WriteLock, Readers, Owners, WritePcs, Goto, TypeOK
    <3>3. TypeOK'
      BY <2>1, <2>v DEF ReadLock, WriteLock, Reload, Goto, TypeOK, ReadPcs, WritePcs
    <3> QED
      BY <2>1, <3>2, <3>3 DEF ReadLock, WriteLock, Goto, Owners, TypeOK, WritePcs
  <2>2. ASSUME TryRead(g), ~CasSucceeds(g) PROVE LockInv'
    <3>1. UNCHANGED <<value, pc, failed>> /\ Reload(g)
      BY <2>2 DEF TryRead
    <3> QED BY <3>1 DEF Reload, TypeOK, Readers, Owners
  <2>3. ASSUME TryWrite(g), ~CasSucceeds(g) PROVE LockInv'
    <3>1. UNCHANGED <<value, pc, failed>> /\ Reload(g)
      BY <2>3 DEF TryWrite
    <3> QED BY <3>1 DEF Reload, TypeOK, Readers, Owners
  <2>4. ASSUME TryRead(g), CasSucceeds(g) PROVE LockInv'
    <3>1. value < FLAG_WRITE /\ value' = value + 1 /\ Goto(g, "rcheck")
          /\ UNCHANGED <<oldV, failed>> /\ pc[g] = "rtry"
      BY <2>4, <2>0, <2>v, FlagBit DEF TryRead, CasSucceeds
    <3>2. Owners = {} /\ value = n
      BY <3>1, <2>0, <2>w, SMT
    <3>3. g \notin Readers /\ Readers' = Readers \cup {g}
      BY <3>1, Moves DEF Readers
    <3>4. Owners' = {}
      BY <3>1, <3>2, Moves DEF WritePcs
    <3>5. Cardinality(Readers') = n + 1
      BY <3>3, <2>0, FS_AddElement DEF n
    <3>6. TypeOK'
      BY <3>1, <2>v, <2>0 DEF TypeOK, Goto, ReadPcs
    <3>7. value' = Cardinality(Readers') + (IF Owners' = {} THEN 0 ELSE FLAG_WRITE)
      BY <3>1, <3>2, <3>4, <3>5, <2>0
    <3> QED BY <3>1, <3>4, <3>6, <3>7
  <2>5. ASSUME TryWrite(g), CasSucceeds(g) PROVE LockInv'
    <3>1. value < FLAG_WRITE /\ value' = value + FLAG_WRITE /\ Goto(g, "wdrain")
          /\ UNCHANGED <<oldV, failed>> /\ pc[g] = "wtry"
      BY <2>5, <2>0, <2>v, FlagBit DEF TryWrite, CasSucceeds
    <3>2. Owners = {} /\ value = n
      BY <3>1, <2>0, <2>w, SMT
    <3>3. Readers' = Readers
      BY <3>1, Moves DEF Readers
    <3>4. Owners' = {g}
      <4>1. "wdrain" \in WritePcs \ {"wtry"}
        BY DEF WritePcs
      <4> QED BY <3>1, <3>2, <4>1, Moves
    <3>5. pc'[g] = "wdrain"
      BY <3>1 DEF Goto, TypeOK
    <3>6. TypeOK'
      BY <3>1, <2>v, <2>0 DEF TypeOK, Goto, WritePcs
    <3>7. value' = Cardinality(Readers') + (IF Owners' = {} THEN 0 ELSE FLAG_WRITE)
      BY <3>1, <3>2, <3>3, <3>4, <2>0 DEF n
    <3> QED BY <3>1, <3>4, <3>5, <3>6, <3>7
  <2>6. ASSUME ReadLocked(g) \/ ReadUnlock(g) PROVE LockInv'
    <3>1. PICK l \in {"reading", "rdec"} : Goto(g, l)
      BY <2>6 DEF ReadLocked, ReadUnlock
    <3>2. g \in Readers /\ UNCHANGED <<value, oldV>> /\ CheckRead
      BY <2>6 DEF ReadLocked, ReadUnlock, Readers
    <3>3. Readers' = Readers
      BY <3>1, <3>2, Moves
    <3>4. Owners' = Owners /\ \A h \in Owners : pc'[h] = pc[h]
      BY <3>1, <3>2, Moves DEF Owners, Readers, WritePcs, Goto, TypeOK
    <3>5. n > 0
      BY <3>2, <2>0
    <3>6. failed' = FALSE
      <4>1. value # 0 /\ value # FLAG_WRITE
        BY <3>5, <2>0, <2>w, SMT
      <4> QED BY <3>2, <4>1 DEF CheckRead
    <3>7. TypeOK'
      BY <3>1, <3>2, <3>6, <2>0 DEF TypeOK, Goto, ReadPcs
    <3> QED BY <3>2, <3>3, <3>4, <3>6, <3>7
  <2>7. ASSUME DecrementReaders(g) PROVE LockInv'
    <3>1. g \in Readers /\ value' = value - 1 /\ Goto(g, "idle")
          /\ UNCHANGED <<oldV, failed>> /\ pc[g] = "rdec"
      BY <2>7 DEF DecrementReaders, Readers
    <3>2. Readers' = Readers \ {g}
      BY <3>1, Moves
    <3>3. Owners' = Owners /\ \A h \in Owners : pc'[h] = pc[h]
      BY <3>1, Moves DEF Owners, WritePcs, Goto, TypeOK
    <3>4. n > 0
      BY <3>1, <2>0
    <3>5. Cardinality(Readers') = n - 1
      BY <3>1, <3>2, <2>0, FS_RemoveElement DEF n
    <3>6. TypeOK'
      <4>1. value' \in 0 .. 2 * FLAG_WRITE - 1
        BY <3>1, <3>4, <2>v, <2>0, <2>w, SMT
      <4> QED BY <3>1, <4>1 DEF TypeOK, Goto
    <3>7. value' = Cardinality(Readers') + (IF Owners' = {} THEN 0 ELSE FLAG_WRITE)
      BY <3>1, <3>3, <3>4, <3>5, <2>0, <2>w
    <3>8. (\E h \in Owners' : pc'[h] # "wdrain") => Readers' = {}
      BY <3>1, <3>3
    <3> QED BY <3>1, <3>3, <3>6, <3>7, <3>8
  <2>8. ASSUME Drain(g) PROVE LockInv'
    <3>1. g \in Owners /\ value = FLAG_WRITE /\ Goto(g, "wcheck")
          /\ UNCHANGED <<value, oldV, failed>> /\ pc[g] = "wdrain"
      BY <2>8 DEF Drain, Drained, Owners, WritePcs
    <3>2. n = 0 /\ Readers = {}
      BY <3>1, <2>0, <2>w
    <3>3. Readers' = {} /\ Owners' = Owners
      BY <3>1, <3>2, Moves DEF WritePcs
    <3>4. TypeOK'
      BY <3>1 DEF TypeOK, Goto, WritePcs
    <3> QED BY <3>1, <3>2, <3>3, <3>4
  <2>9. ASSUME WriteLocked(g) \/ WriteUnlock(g) PROVE LockInv'
    <3>1. PICK l \in {"writing", "wclear"} : Goto(g, l)
      BY <2>9 DEF WriteLocked, WriteUnlock
    <3>2. g \in Owners /\ pc[g] # "wdrain" /\ UNCHANGED <<value, oldV>>
          /\ failed' = (value # FLAG_WRITE)
      BY <2>9 DEF WriteLocked, WriteUnlock, Owners, WritePcs
    <3>3. Readers = {} /\ value = FLAG_WRITE
      BY <3>2, <2>0, <2>w
    <3>4. Readers' = {} /\ Owners' = Owners
      BY <3>1, <3>2, <3>3, Moves DEF WritePcs
    <3>5. TypeOK'
      BY <3>1, <3>2, <3>3 DEF TypeOK, Goto, WritePcs
    <3> QED BY <3>2, <3>3, <3>4, <3>5
  <2>10. ASSUME ClearFlag(g) PROVE LockInv'
    <3>1. g \in Owners /\ pc[g] = "wclear" /\ value' = 0 /\ Goto(g, "idle")
          /\ UNCHANGED <<oldV, failed>>
      BY <2>10 DEF ClearFlag, Owners, WritePcs
    <3>2. Readers = {} /\ n = 0 /\ Owners = {g}
      BY <3>1, <2>0
    <3>3. Readers' = {} /\ Owners' = {}
      BY <3>1, <3>2, Moves DEF WritePcs
    <3>4. TypeOK'
      BY <3>1, <2>0 DEF TypeOK, Goto
    <3>5. Cardinality(Readers') = 0
      BY <3>3, FS_EmptySet
    <3> QED BY <3>1, <3>3, <3>4, <3>5
  <2> QED
    BY <2>1, <2>2, <2>3, <2>4, <2>5, <2>6, <2>7, <2>8, <2>9, <2>10 DEF Step
<1> QED BY <1>0, <1>1

(* In every reachable state the word counts the readers and the writer     *)
(* exactly, and a writer that has drained the readers is alone.            *)
THEOREM LockInvariant == Spec => []LockInv
<1>1. Init => LockInv
  <2> SUFFICES ASSUME Init PROVE LockInv
    OBVIOUS
  <2>1. Readers = {} /\ Owners = {}
    BY DEF Init, Readers, Owners, WritePcs
  <2>2. Cardinality(Readers) = 0
    BY <2>1, FS_EmptySet
  <2>3. FLAG_WRITE \in Nat \ {0}
    BY ReaderCount
  <2>4. TypeOK
    <3>1. 0 \in 0 .. 2 * FLAG_WRITE - 1
      BY <2>3, SMT
    <3> QED BY <3>1 DEF Init, TypeOK
  <2>5. value = Cardinality(Readers) + (IF Owners = {} THEN 0 ELSE FLAG_WRITE)
    BY <2>1, <2>2 DEF Init
  <2> QED BY <2>1, <2>4, <2>5 DEF Init, LockInv
<1>2. LockInv /\ [Next]_vars => LockInv'
  BY InvNext
<1> QED BY <1>1, <1>2, PTL DEF Spec

(* The word and the guards' variables are well typed: the readers never    *)
(* run into the flag bit.                                                  *)
THEOREM LockTypeCorrect == Spec => []TypeOK
<1>1. LockInv => TypeOK
  BY DEF LockInv
<1> QED BY <1>1, LockInvariant, PTL

(* A WriteGuard excludes every other guard.                                *)
THEOREM WriteExclusion == Spec => []WriterExcludes
<1>1. LockInv => WriterExcludes
  BY DEF LockInv, WriterExcludes, Reading, Writing, Readers, Owners, WritePcs
<1> QED BY <1>1, LockInvariant, PTL

(* Neither fail() nor an assert() of the lock is reached.                  *)
THEOREM LockChecksHold == Spec => []ChecksHold
<1>1. LockInv => ChecksHold
  BY DEF LockInv, ChecksHold
<1> QED BY <1>1, LockInvariant, PTL
=============================================================================
