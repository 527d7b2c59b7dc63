-------------------------- MODULE MC_LzopRoundTrip ---------------------------
(***************************************************************************)
(* Files of up to five bytes in blocks of two, with no checksums and with  *)
(* all, written with at most one failure and read in pieces of one byte    *)
(* and of more than a block.                                               *)
(***************************************************************************)
EXTENDS LzopRoundTrip

=============================================================================
