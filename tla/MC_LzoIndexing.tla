--------------------------- MODULE MC_LzoIndexing ---------------------------
(***************************************************************************)
(* A few indexers of one file of up to two blocks.                         *)
(***************************************************************************)
EXTENDS LzoIndexing, TLC

(* A block that shrinks, and one that is stored. *)
Packed == <<3, 2>>
AsIs == <<3, 3>>

SomeFiles == {<< >>, <<Packed>>, <<AsIs>>, <<AsIs, Packed>>}

Symmetric == Permutations(Clients) \cup Permutations(Tasks)

=============================================================================
