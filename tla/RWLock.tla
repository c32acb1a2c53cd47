------------------------------- MODULE RWLock -------------------------------
(***************************************************************************)
(* numa::RWLock (base/rwlock.hpp): a reader-writer spin lock in one atomic *)
(* word, the number of readers plus a flag for the writer.  Every load,    *)
(* exchange and store of the word is a step of its own.                    *)
(*                                                                         *)
(* The actors are the guard objects: each ReadGuard or WriteGuard locks    *)
(* once and unlocks once, and a thread may own several.                    *)
(***************************************************************************)
EXTENDS Integers, FiniteSets

CONSTANTS
    Guards,      \* the guard objects that exist at the same time
    FLAG_WRITE   \* 0x40000000 in the code

(* Guards never outnumber the values below the flag.                       *)
ASSUME FlagAssumption ==
    /\ IsFiniteSet(Guards)
    /\ FLAG_WRITE \in Nat /\ Cardinality(Guards) < FLAG_WRITE

VARIABLES
    value,   \* RWLock::value
    pc,      \* where the guard is
    oldV,    \* the local variable oldV of read_lock and write_lock
    failed   \* fail() was called or an assert() has failed

vars == <<value, pc, oldV, failed>>

ReadPcs == {"rtry", "rcheck", "reading", "rdec"}
WritePcs == {"wtry", "wdrain", "wcheck", "writing", "wclear"}

TypeOK ==
    /\ value \in 0 .. 2 * FLAG_WRITE - 1
    /\ pc \in [Guards -> {"idle"} \cup ReadPcs \cup WritePcs]
    /\ oldV \in [Guards -> 0 .. 2 * FLAG_WRITE - 1]
    /\ failed \in BOOLEAN

Init ==
    /\ value = 0
    /\ pc = [g \in Guards |-> "idle"]
    /\ oldV = [g \in Guards |-> 0]
    /\ failed = FALSE

-----------------------------------------------------------------------------

(* v & FLAG_WRITE                                                          *)
HasFlag(v) == (v \div FLAG_WRITE) % 2 = 1

Goto(g, l) == pc' = [pc EXCEPT ![g] = l]

(* value is reloaded into oldV, after a backoff or by the failed exchange. *)
Reload(g) == oldV' = [oldV EXCEPT ![g] = value]

(* compare_exchange of value with oldV succeeds.                           *)
CasSucceeds(g) == ~HasFlag(oldV[g]) /\ value = oldV[g]

(* fail("Must be positive") and fail("Write Flag must not be set").        *)
CheckRead == failed' = (value = 0 \/ value = FLAG_WRITE)

-----------------------------------------------------------------------------
(* ReadGuard                                                               *)

ReadLock(g) ==
    /\ pc[g] = "idle"
    /\ Reload(g) /\ Goto(g, "rtry")
    /\ UNCHANGED <<value, failed>>

TryRead(g) ==
    /\ pc[g] = "rtry"
    /\ \/ /\ CasSucceeds(g)
          /\ value' = oldV[g] + 1
          /\ Goto(g, "rcheck")
          /\ UNCHANGED oldV
       \/ /\ ~CasSucceeds(g)
          /\ Reload(g)
          /\ UNCHANGED <<value, pc>>
    /\ UNCHANGED failed

ReadLocked(g) ==
    /\ pc[g] = "rcheck"
    /\ CheckRead
    /\ Goto(g, "reading")
    /\ UNCHANGED <<value, oldV>>

ReadUnlock(g) ==
    /\ pc[g] = "reading"
    /\ CheckRead
    /\ Goto(g, "rdec")
    /\ UNCHANGED <<value, oldV>>

DecrementReaders(g) ==
    /\ pc[g] = "rdec"
    /\ value' = value - 1
    /\ Goto(g, "idle")
    /\ UNCHANGED <<oldV, failed>>

-----------------------------------------------------------------------------
(* WriteGuard                                                              *)

WriteLock(g) ==
    /\ pc[g] = "idle"
    /\ Reload(g) /\ Goto(g, "wtry")
    /\ UNCHANGED <<value, failed>>

TryWrite(g) ==
    /\ pc[g] = "wtry"
    /\ \/ /\ CasSucceeds(g)
          /\ value' = oldV[g] + FLAG_WRITE
          /\ Goto(g, "wdrain")
          /\ UNCHANGED oldV
       \/ /\ ~CasSucceeds(g)
          /\ Reload(g)
          /\ UNCHANGED <<value, pc>>
    /\ UNCHANGED failed

(* Wait until there are no more readers.                                   *)
NoWait == TRUE              \* faulty variant
WaitForZero == value = 0    \* faulty variant
Drained == value = FLAG_WRITE

Drain(g) ==
    /\ pc[g] = "wdrain" /\ Drained
    /\ Goto(g, "wcheck")
    /\ UNCHANGED <<value, oldV, failed>>

WriteLocked(g) ==
    /\ pc[g] = "wcheck"
    /\ failed' = (value # FLAG_WRITE)
    /\ Goto(g, "writing")
    /\ UNCHANGED <<value, oldV>>

WriteUnlock(g) ==
    /\ pc[g] = "writing"
    /\ failed' = (value # FLAG_WRITE)
    /\ Goto(g, "wclear")
    /\ UNCHANGED <<value, oldV>>

ClearFlag(g) ==
    /\ pc[g] = "wclear"
    /\ value' = 0
    /\ Goto(g, "idle")
    /\ UNCHANGED <<oldV, failed>>

-----------------------------------------------------------------------------

Step(g) ==
    \/ TryRead(g) \/ ReadLocked(g) \/ ReadUnlock(g) \/ DecrementReaders(g)
    \/ TryWrite(g) \/ Drain(g) \/ WriteLocked(g) \/ WriteUnlock(g) \/ ClearFlag(g)

Next == ~failed /\ \E g \in Guards : ReadLock(g) \/ WriteLock(g) \/ Step(g)

Spec == Init /\ [][Next]_vars

(* A guard that has begun to lock goes on and is destroyed eventually.     *)
FairSpec == Spec /\ \A g \in Guards : WF_vars(~failed /\ Step(g))

-----------------------------------------------------------------------------
(* Properties.                                                             *)

(* Whoever has the lock for reading or for writing.                        *)
Reading(g) == pc[g] \in {"reading", "rdec"}
Writing(g) == pc[g] \in {"writing", "wclear"}

(* A WriteGuard excludes every other guard, although readers enter and     *)
(* leave with plain increments while the writer's flag is being set.       *)
WriterExcludes ==
    \A g, h \in Guards : Writing(g) /\ (Reading(h) \/ Writing(h)) => g = h

(* Neither fail() nor an assert() of the lock is ever reached              *)
(* (rwlock.hpp:56-57, :62-63, :83, :87).                                   *)
ChecksHold == ~failed

(* Readers cannot starve a writer: once it has set the flag it gets the    *)
(* lock, however many readers keep coming.                                 *)
WriterGetsIn == \A g \in Guards : (pc[g] = "wdrain") ~> Writing(g)

-----------------------------------------------------------------------------
(* The inductive invariant.                                                *)

Readers == {g \in Guards : pc[g] \in {"rcheck", "reading", "rdec"}}
Owners == {g \in Guards : pc[g] \in WritePcs \ {"wtry"}}

(* The word is the number of guards that have counted themselves, plus the *)
(* flag while a writer owns it; a writer past the drain is alone.          *)
LockInv ==
    /\ TypeOK
    /\ value = Cardinality(Readers) + (IF Owners = {} THEN 0 ELSE FLAG_WRITE)
    /\ \A g, h \in Owners : g = h
    /\ (\E g \in Owners : pc[g] # "wdrain") => Readers = {}
    /\ ~failed
=============================================================================
