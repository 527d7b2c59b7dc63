-------------------------- MODULE LzopInputStream ---------------------------
(***************************************************************************)
(* org.anarres.lzo.LzopInputStream: LzoInputStream on an lzop file, which  *)
(* has a header, checksums as the flags in the header say, blocks that are *)
(* stored as they are, and a null word after the last block.               *)
(*                                                                         *)
(* The constructor reads the header; the reads come after it.  The adler32 *)
(* and the crc32 of one thing are tested in the code's order.              *)
(***************************************************************************)
EXTENDS LzoInputStream

CONSTANTS
    FlagSets        \* bound: the checksums a file is written with

ASSUME FlagsAssumption ==
    FlagSets \subseteq SUBSET {"ADLER32_D", "CRC32_D", "ADLER32_C", "CRC32_C"}

VARIABLES
    flags,              \* from the header
    eof,                \* the null word was read
    opened              \* the constructor has returned

lzopVars == <<vars, flags, eof, opened>>

-----------------------------------------------------------------------------
Flagged(name) == IF name \in flags THEN <<name>> ELSE << >>
DNames == Flagged("ADLER32_D") \o Flagged("CRC32_D")
CNames == Flagged("ADLER32_C") \o Flagged("CRC32_C")

(* Where the parts of the block at pos are.  A block whose two lengths are *)
(* equal is stored, and has no checksums of compressed data.               *)
ULen == file[pos + 1].value
Stored == file[pos + 2].value = ULen
HeadLen == 2 + Len(DNames)
BlockLen == HeadLen + (IF Stored THEN 0 ELSE Len(CNames)) + 1
BlockData == file[pos + BlockLen]

(* testChecksum of each of the names: the values are in the tokens from    *)
(* `from` on.                                                              *)
Match(names, from, data) ==
    \A i \in DOMAIN names : file[pos + from + i] = Checksum(names[i], data)

DMatch(buf) == Match(DNames, 2, Data(SubSeq(buf, 1, ULen), FALSE))
CMatch == Match(CNames, HeadLen, BlockData)

(* The lengths and the checksums of the bytes, which come first. *)
HeadWhole == Whole(HeadLen)
BlockWhole == HeadWhole /\ Whole(BlockLen)

(* readHeader(): a file that does not begin with a whole header makes the  *)
(* constructor throw; of one that does, the flags are kept.                *)
ReadHeader ==
    /\ ~opened
    /\ Whole(1)
    /\ file[1].kind = "header"
    /\ flags' = file[1].flags
    /\ pos' = 1
    /\ opened' = TRUE
    /\ UNCHANGED <<file, output, want, result, delivered, failed, content, eof>>

(* The next token is a length, and not the null word. *)
AtBlock == Filling /\ ~eof /\ ~(Whole(1) /\ ULen = 0)

NullWord ==
    /\ Filling /\ ~eof
    /\ Whole(1)
    /\ ULen = 0
    /\ pos' = pos + 1
    /\ eof' = TRUE
    /\ EndRead
    /\ UNCHANGED <<flags, opened>>

AfterNullWord ==
    /\ Filling /\ eof
    /\ EndRead
    /\ UNCHANGED <<pos, flags, eof, opened>>

(* Bug: a file that ends between two blocks has ended. *)
CutShortIsEnd ==
    /\ AtBlock
    /\ pos = Len(file)
    /\ UNCHANGED <<pos, flags, eof, opened>>
    /\ EndRead

(* The file ends before the null word: between blocks, in the lengths or   *)
(* the checksums of one, or in compressed data.                            *)
LzopCutShort ==
    /\ AtBlock
    /\ ~BlockWhole
    /\ HeadWhole => ~Stored
    /\ pos' = Len(file)
    /\ outputBuffer' = IF Whole(1) THEN Grown(ULen) ELSE outputBuffer
    /\ UNCHANGED <<outputBufferPos, outputBufferLen, flags, eof, opened>>
    /\ ThrowRead

(* It ends in the data of a stored block, which was going straight into    *)
(* the output buffer: its position and length are set already.             *)
StoredCutShort ==
    /\ AtBlock
    /\ HeadWhole /\ Stored /\ ~BlockWhole
    /\ pos' = Len(file)
    /\ outputBuffer' \in {Over(Grown(ULen), [i \in 1 .. k |-> Junk]) : k \in 0 .. ULen}
    /\ outputBufferPos' = 0
    /\ outputBufferLen' = ULen
    /\ UNCHANGED <<flags, eof, opened>>
    /\ ThrowRead

(* Bug: checksums of a stored block are not tested. *)
ReadStoredUntested ==
    /\ AtBlock
    /\ BlockWhole /\ Stored
    /\ pos' = pos + BlockLen
    /\ Decompressed(Grown(ULen), BlockData)
    /\ Filled
    /\ UNCHANGED <<flags, eof, opened>>

ReadStored ==
    /\ AtBlock
    /\ BlockWhole /\ Stored
    /\ pos' = pos + BlockLen
    /\ Decompressed(Grown(ULen), BlockData)
    /\ IF DMatch(outputBuffer') THEN Filled ELSE ThrowRead
    /\ UNCHANGED <<flags, eof, opened>>

(* A checksum of the compressed data is wrong: it is not decompressed. *)
RefusePacked ==
    /\ AtBlock
    /\ BlockWhole /\ ~Stored
    /\ ~CMatch
    /\ pos' = pos + BlockLen
    /\ outputBuffer' = Grown(ULen)
    /\ UNCHANGED <<outputBufferPos, outputBufferLen>>
    /\ ThrowRead
    /\ UNCHANGED <<flags, eof, opened>>

ReadPacked ==
    /\ AtBlock
    /\ BlockWhole /\ ~Stored
    /\ CMatch
    /\ pos' = pos + BlockLen
    /\ IF BlockData.intact THEN Decompressed(Grown(ULen), BlockData)
                           ELSE Garbled(Grown(ULen))
    /\ \/ outputBufferLen' = ULen /\ DMatch(outputBuffer') /\ Filled
       \/ ~(BlockData.intact /\ DMatch(outputBuffer')) /\ ThrowRead
    /\ UNCHANGED <<flags, eof, opened>>

LzopStep ==
    \/ Deliver /\ UNCHANGED <<flags, eof, opened>>
    \/ NullWord
    \/ AfterNullWord
    \/ LzopCutShort
    \/ StoredCutShort
    \/ ReadStored
    \/ RefusePacked
    \/ ReadPacked

LzopNext ==
    \/ ReadHeader
    \/ opened /\ ReadCall /\ UNCHANGED <<flags, eof, opened>>
    \/ opened /\ LzopStep

(* The file of an LzopOutputStream whose blocks had these lengths, those   *)
(* in `shrunk` being smaller when compressed.                              *)
FileOf(on, lens, shrunk) ==
    LET Block(i) == LzopBlock(on, BlockAt(lens, i), IF i \in shrunk THEN lens[i] - 1 ELSE lens[i]) IN
    <<Header(on)>> \o FlattenSeq([i \in DOMAIN lens |-> Block(i)]) \o <<Terminator>>

LzopInit ==
    /\ ReaderInit
    /\ flags = {}
    /\ eof = FALSE
    /\ opened = FALSE
    /\ \E on \in FlagSets, lens \in SeqOf(1 .. MaxBlock, MaxBlocks) :
            /\ content = Stream(lens)
            /\ \E shrunk \in SUBSET {i \in DOMAIN lens : lens[i] > 1} :
                    file \in Aged(FileOf(on, lens, shrunk))

LzopSpec == LzopInit /\ [][LzopNext]_lzopVars

-----------------------------------------------------------------------------
(* Properties *)

(* Damage that a checksum in the file tells of: the ones of the bytes for  *)
(* any block, those of the compressed data for a compressed one.           *)
Covered(data) ==
    \/ flags \cap {"ADLER32_D", "CRC32_D"} # {}
    \/ data.packed /\ flags \cap {"ADLER32_C", "CRC32_C"} # {}

Guarded == \A i \in DOMAIN file :
                file[i].kind = "data" => file[i].intact \/ Covered(file[i])

(* Up to the first exception what a read hands out was written, in that    *)
(* order, if the damage done to the file is one a checksum tells of.       *)
LzopInOrder == Guarded /\ ~failed => IsPrefix(delivered, content)

(* A file that was cut anywhere never ends with -1, but with an exception. *)
LzopEndIsComplete == result = "end" /\ ~failed => Len(delivered) = Len(content)

=============================================================================
