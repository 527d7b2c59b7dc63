------------------------- MODULE MC_LzoOutputStream -------------------------
(***************************************************************************)
(* LzoOutputStream on a small buffer: writes shorter than, as long as and  *)
(* several times as long as the buffer, and two failures, so that a write  *)
(* can be refused and the stream used again after it.                      *)
(***************************************************************************)
EXTENDS LzoOutputStream

=============================================================================
