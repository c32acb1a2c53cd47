---------------------------- MODULE MCHashTable -----------------------------
(* Finite instances of HashTable.                                          *)
EXTENDS HashTable

(* Keys 1 and 2 are in the same bin, and in the same bucket until the bin  *)
(* has two; key 3 has the hash of key 2.                                   *)
MCHash == [k \in Keys |-> IF k = 1 THEN 0 ELSE 2]
=============================================================================
