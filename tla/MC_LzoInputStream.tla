-------------------------- MODULE MC_LzoInputStream --------------------------
(***************************************************************************)
(* LzoInputStream on files of up to three blocks, growing and shrinking,   *)
(* cut anywhere or with one block damaged, read in pieces shorter and      *)
(* longer than a block, directly or through the wrapper of                 *)
(* commons-compress.                                                       *)
(***************************************************************************)
EXTENDS CommonsInputStream

=============================================================================
