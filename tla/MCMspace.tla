------------------------------ MODULE MCMspace ------------------------------
(* A fresh mspace of ptmalloc3; one whose free chunks of 8 to 11 words,    *)
(* kept apart by small blocks, fill one tree bin with tries of several     *)
(* shapes; and two small ones of dlmalloc, which the system's pages        *)
(* follow: one with small and large blocks, one with large blocks only     *)
(* that leave whole segments unused.                                       *)
EXTENDS Dlmspace

MCSetups ==
    {[impl |-> "ptmalloc3", capacity |-> 41, layout |-> <<>>,
      requests |-> {8, 56, 72}, maxLive |-> 5],
     [impl |-> "ptmalloc3", capacity |-> 84,
      layout |-> <<56, 8, 56, 8, 64, 8, 72, 8, 80, 8>>,
      requests |-> {8, 72}, maxLive |-> 5],
     [impl |-> "dlmalloc", capacity |-> 24, layout |-> <<>>,
      requests |-> {40, 72, 184}, maxLive |-> 2],
     [impl |-> "dlmalloc", capacity |-> 24, layout |-> <<>>,
      requests |-> {72, 184}, maxLive |-> 3]}

MCPages == {24, 48, 72}
=============================================================================
