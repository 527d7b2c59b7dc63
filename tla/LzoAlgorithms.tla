----------------------------- MODULE LzoAlgorithms ----------------------------
(***************************************************************************)
(* What LzoAlgorithmTest does, for every input, and more than it does: a   *)
(* compressor from LzoLibrary writes a block, and a decompressor of the    *)
(* same algorithm, with or without SAFETY, reads it; the one with SAFETY   *)
(* also when bytes of the block, or of the room it needs, are missing.     *)
(*                                                                         *)
(* The C compressors of lzo1x_9x.c write blocks too: for LZO1Y and LZO1Z,  *)
(* which have no such compressor in Java, and for LZO1X, where             *)
(* LzoCompressor1x_999 is to write the same block.                         *)
(***************************************************************************)
EXTENDS LzoCompressor1x_1, Lzo1zTokens

CONSTANTS
    Levels,         \* of compression; LzoLibrary's is 7
    F,              \* how far a search looks ahead
    Originals,      \* the byte sequences for lzo1x_9x.c
    Dicts,          \* what it may be given as preset dictionary
    Missing         \* bound: how many bytes of the block or the room are missing

ASSUME LevelAssumption == Levels \subseteq 1 .. 9
ASSUME LookaheadAssumption == F \in Nat /\ F >= 3
ASSUME MissingAssumption == Missing \subseteq Nat

VARIABLES
    constraint, level,
    both,               \* LzoCompressor1x_999 and lzo1x_9x.c compress
    past, found, lit, ii9, cur, label9,         \* LzoCompressor1x_999
    dictC, opC, swd, c, iiC, litC, curC, at,    \* lzo1x_9x.c
    bytes, safe, capacity, taken, op, t, state, last_m_off, code    \* the decompressor

bestVars == <<past, found, lit, ii9, cur, label9>>
originalVars == <<opC, swd, c, iiC, litC, curC, at>>
readVars == <<bytes, safe, capacity, taken, op, t, state, last_m_off, code>>
algVars == <<vars, constraint, level, both, dictC, bestVars, originalVars, readVars>>

Best == INSTANCE LzoCompressor1x_999 WITH ii <- ii9, label <- label9
Original == INSTANCE Lzo1x9x WITH dict <- dictC, op <- opC, ii <- iiC, lit <- litC, cur <- curC
Decompressor == INSTANCE LzoDecompressor1x WITH in_ptr <- taken

NONE == "NONE"
COMPRESSION == "COMPRESSION"
ORIGINAL == "ORIGINAL"      \* none of the library's: lzo1x_9x.c

-----------------------------------------------------------------------------
(* LzoLibrary.newCompressor: the other combinations are unsupported. *)
AlgInit ==
    /\ \/ /\ constraint = NONE
          /\ algorithm \in Algorithms /\ orig \in Inputs /\ level = 0 /\ dictC = << >>
       \/ /\ constraint = COMPRESSION
          /\ algorithm = LZO1X /\ orig \in Inputs /\ level \in Levels /\ dictC = << >>
       \/ /\ constraint = ORIGINAL
          /\ algorithm \in AllAlgorithms /\ orig \in Originals /\ level \in Levels
          /\ dictC \in Dicts
    /\ both = (constraint = COMPRESSION /\ orig \in Originals)
    /\ Ready /\ Best!Init9 /\ Original!Init9x
    /\ bytes = << >> /\ safe = FALSE /\ capacity = 0
    /\ Decompressor!Begin

Compress ==
    /\ constraint = NONE
    /\ Next
    /\ UNCHANGED <<constraint, level, both, dictC, bestVars, originalVars, readVars>>

CompressBest ==
    /\ constraint = COMPRESSION
    /\ Best!Next9
    /\ UNCHANGED <<constraint, both, dictC, algorithm, scanVars, originalVars, readVars>>

CompressOriginal ==
    /\ \/ constraint = ORIGINAL
       \/ label9 = "written" /\ both
    /\ Original!Next9x
    /\ UNCHANGED <<constraint, both, out, scanVars, bestVars, readVars>>

Written ==
    CASE constraint = NONE -> label = "written"
      [] constraint = COMPRESSION -> label9 = "written" /\ (both => at = "written")
      [] constraint = ORIGINAL -> at = "written"

Block == IF constraint = ORIGINAL THEN opC ELSE out

(* decompress knows no preset dictionary. *)
Call ==
    /\ Written /\ bytes = << >> /\ dictC = << >>
    /\ \E cut, short \in Missing :
        /\ bytes' = SubSeq(Block, 1, Len(Block) - cut)
        /\ capacity' = Len(orig) - short
        /\ cut < Len(Block) /\ short <= Len(orig)
        /\ safe' \in IF cut + short = 0 THEN BOOLEAN ELSE {TRUE}
    /\ UNCHANGED <<vars, constraint, level, both, dictC, bestVars, originalVars,
                   taken, op, t, state, last_m_off, code>>

Decompress ==
    /\ Decompressor!Next
    /\ UNCHANGED <<vars, constraint, level, both, dictC, bestVars, originalVars>>

(* Nothing else stops: that a call returns or goes on is the absence of a *)
(* deadlock.                                                              *)
Done ==
    /\ state = "end" \/ (Written /\ dictC # << >>)
    /\ UNCHANGED algVars

AlgNext == Compress \/ CompressBest \/ CompressOriginal \/ Call \/ Decompress \/ Done

AlgSpec == AlgInit /\ [][AlgNext]_algVars

-----------------------------------------------------------------------------
(* Properties *)

Returned == state = "end"
Whole == bytes = Block /\ capacity = Len(orig)

(* What was compressed comes back, byte for byte, with LZO_E_OK, into an   *)
(* array of just its length, from either decompressor.                     *)
CodecRoundTrip == Returned /\ Whole => code = Decompressor!LZO_E_OK /\ op = orig

(* The decompressor with SAFETY does not call a cut block or too small an  *)
(* array good, and what it wrote until it found out is right.              *)
SafeTells ==
    Returned /\ ~Whole => code # Decompressor!LZO_E_OK /\ op = SubSeq(orig, 1, Len(op))

(* The block fits the array LzoOutputStream makes for it, from             *)
(* getCompressionOverhead.                                                 *)
OutputFits == Written => Len(Block) <= Len(orig) + Len(orig) \div 16 + 64 + 3

(* LzoCompressor1x_999 writes what lzo1x_9x.c writes, byte for byte, as    *)
(* long as the input fits the window and has no byte above 127 (Java's     *)
(* bytes are signed, and its window has nothing behind its end).           *)
TranslationAgrees ==
    /\ both /\ Written
    /\ Len(orig) <= M4_MAX_OFFSET + F
    /\ \A i \in DOMAIN orig : orig[i] <= 127
    => opC = out

(* The asserts of lzo1x_9x.c and lzo_swd.ch that Lzo1x9x names hold, and   *)
(* where no chain is cut off its search finds the longest match in the     *)
(* window.                                                                 *)
AssertsHold == Original!AssertsHold
LongestFound == Original!LongestFound

=============================================================================
