------------------------------ MODULE MCPlaces ------------------------------
(* Instances of Places: two nodes and a few short programs.                *)
EXTENDS Places

CONSTANTS t1, t2, g, n0s, n1s, s1, s2, s3, s4, s5, h1, h2, h3, h4, k1

MCNodeSource == (0 :> n0s) @@ (1 :> n1s)
MCHomeOf == (t1 :> 0) @@ (t2 :> 0)

Malloc(bytes) == [op |-> "malloc", bytes |-> bytes]
Memalign(bytes, align) == [op |-> "memalign", bytes |-> bytes, align |-> align]
Realloc(bytes) == [op |-> "realloc", bytes |-> bytes]
Free == [op |-> "free"]
Push(h) == [op |-> "push", place |-> [h |-> h, node |-> None]]
PushNode(n) == [op |-> "push", place |-> [h |-> None, node |-> n]]
Pop == [op |-> "pop"]
Save(k) == [op |-> "save", task |-> k, done |-> FALSE]
Done(k) == [op |-> "save", task |-> k, done |-> TRUE]
Restore(k) == [op |-> "restore", task |-> k]
Create(h, n) == [op |-> "create", h |-> h, node |-> n]
Copy(from, h) == [op |-> "copy", from |-> from, h |-> h]
Assign(from, h) == [op |-> "assign", from |-> from, h |-> h]
Move(from, h) == [op |-> "move", from |-> from, h |-> h]
Drop(h) == [op |-> "drop", h |-> h]
MigrateTo(h, n) == [op |-> "migrate", h |-> h, node |-> n]
Get(n) == [op |-> "get", node |-> n]
Exit == [op |-> "exit"]

Two(p, q) == (t1 :> p) @@ (t2 :> q)
MCScenarios == {
    \* A source shared by two threads and given up by both.
    Two(<<Create(h1, 1), Copy(h1, h2), Push(h1), Malloc(4), Pop, Drop(h1), Free, Exit>>,
        <<Push(h2), Malloc(20), Drop(h2), Free, Exit>>),
    \* Places of a task that two workers run in turn; both ask for node 1.
    Two(<<Restore(k1), Create(h1, 0), Push(h1), Drop(h1), PushNode(1), Save(k1)>>,
        <<PushNode(1), Malloc(2), Pop, Restore(k1), PushNode(0), Malloc(2), Done(k1)>>),
    \* A source grows while it is migrated.
    Two(<<Create(h1, 0), Copy(h1, h2), MigrateTo(h1, 1), Drop(h1), Free>>,
        <<Push(h2), Malloc(6), Malloc(8), Malloc(16), Malloc(15), Drop(h2), Free>>),
    \* Mapped chunks and reallocation.
    Two(<<Malloc(18), Malloc(16), Realloc(20)>>,
        <<Free, Realloc(3), Realloc(99), Memalign(2, 4), Exit>>),
    \* Objects per node, and handles assigned and moved.
    Two(<<Get(0), Create(h1, 0), Copy(h1, h2), Assign(h2, h1), Move(h1, h3), Get(1), Drop(h3)>>,
        <<Get(0), Get(1), Create(h4, 1), Assign(h2, h4), Drop(h2), Drop(h4)>>) }
=============================================================================
