----------------------- MODULE MC_CommonsOutputStream -----------------------
(***************************************************************************)
(* The commons-compress wrapper on a buffer of three bytes: writes that    *)
(* end on a block boundary and writes that do not, with one failure.       *)
(***************************************************************************)
EXTENDS CommonsOutputStream

=============================================================================
