--------------------------- MODULE SourceLifetime ---------------------------
(***************************************************************************)
(* What a memory source promises its users: it is there while a handle to  *)
(* it or a block of it exists, only who has a handle can make more of      *)
(* either, and when the last is gone it ends, once and for good.           *)
(***************************************************************************)
EXTENDS Integers

CONSTANT Source
VARIABLES life,     \* "unborn", "new", "used", "over" or "gone"
          handles, inUse

vars == <<life, handles, inUse>>

Create(s) ==
    /\ life[s] = "unborn"
    /\ life' = [life EXCEPT ![s] = "new"]
    /\ UNCHANGED <<handles, inUse>>

(* The creator's handle, and copies of a handle.                           *)
Share(s) ==
    /\ \/ life[s] = "new"
       \/ life[s] = "used" /\ handles[s] > 0
    /\ life' = [life EXCEPT ![s] = "used"]
    /\ handles' = [handles EXCEPT ![s] = @ + 1]
    /\ UNCHANGED inUse

Allocate(s) ==
    /\ life[s] = "used" /\ handles[s] > 0
    /\ inUse' = [inUse EXCEPT ![s] = @ + 1]
    /\ UNCHANGED <<life, handles>>

EndIfLast(s) ==
    life' = [life EXCEPT ![s] = IF handles'[s] + inUse'[s] = 0 THEN "over" ELSE @]

Drop(s) ==
    /\ life[s] = "used" /\ handles[s] > 0
    /\ handles' = [handles EXCEPT ![s] = @ - 1]
    /\ UNCHANGED inUse
    /\ EndIfLast(s)

Free(s) ==
    /\ life[s] = "used" /\ inUse[s] > 0
    /\ inUse' = [inUse EXCEPT ![s] = @ - 1]
    /\ UNCHANGED handles
    /\ EndIfLast(s)

(* Its memory goes back to the system.                                     *)
Reclaim(s) ==
    /\ life[s] = "over"
    /\ life' = [life EXCEPT ![s] = "gone"]
    /\ UNCHANGED <<handles, inUse>>

Init == /\ handles \in [Source -> Nat]
        /\ inUse = [s \in Source |-> 0]
        /\ life = [s \in Source |-> IF handles[s] > 0 THEN "used" ELSE "unborn"]

Next == \E s \in Source : \/ Create(s) \/ Share(s) \/ Allocate(s)
                          \/ Drop(s) \/ Free(s) \/ Reclaim(s)

Spec == Init /\ [][Next]_vars /\ \A s \in Source : WF_vars(Reclaim(s))
=============================================================================
