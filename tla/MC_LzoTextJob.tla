---------------------------- MODULE MC_LzoTextJob ----------------------------
(***************************************************************************)
(* Files of up to three blocks with every placement of line feeds and      *)
(* carriage returns, every index readIndex may find, and up to two cuts.   *)
(***************************************************************************)
EXTENDS LzoTextJob

=============================================================================
