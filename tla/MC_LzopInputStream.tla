-------------------------- MODULE MC_LzopInputStream -------------------------
(***************************************************************************)
(* LzopInputStream on files of up to two blocks, stored and compressed,    *)
(* with no checksums, those of the bytes, those of the compressed data and *)
(* all four, cut anywhere or damaged in one place.                         *)
(***************************************************************************)
EXTENDS LzopInputStream

=============================================================================
