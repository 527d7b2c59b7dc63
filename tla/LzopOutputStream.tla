-------------------------- MODULE LzopOutputStream --------------------------
(***************************************************************************)
(* org.anarres.lzo.LzopOutputStream: LzoOutputStream with writeBlock and   *)
(* close overridden.  The constructor writes a header, a block is stored   *)
(* when it does not shrink and carries checksums, and close writes a null  *)
(* word before it closes the sink.                                         *)
(*                                                                         *)
(* Its steps are those of LzoOutputStream with what they write to the      *)
(* file.  Nothing stops a caller from writing after close().               *)
(***************************************************************************)
EXTENDS LzoOutputStream, LzoFrames

CONSTANTS
    FlagSets        \* bound: the flags passed to the constructor

ASSUME FlagsAssumption ==
    FlagSets \subseteq SUBSET {"ADLER32_D", "CRC32_D", "ADLER32_C", "CRC32_C"}

VARIABLES
    flags,              \* of the checksums to write
    file,               \* what the sink was given
    terminated,         \* this close() has written its null word
    closed,             \* the field: a close() has returned
    closedAt            \* history: bytes accepted when the first null word was written

fileVars == <<flags, file, terminated, closed, closedAt>>
lzopVars == <<vars, fileVars>>

Open == -1

-----------------------------------------------------------------------------
LzopInit ==
    /\ Init
    /\ flags \in FlagSets
    /\ file = <<Header(flags)>>
    /\ terminated = FALSE
    /\ closed = FALSE
    /\ closedAt = Open

(* write and flush: LzoOutputStream's. *)
LzopCall ==
    /\ (\E len \in WriteLens : Write(len)) \/ RefuseWrite \/ Drain("flush")
    /\ UNCHANGED fileVars

(* Definitions marked "Bug:" are slips the properties must notice; nothing *)
(* else refers to them.                                                    *)

(* Bug: every close() closes. *)
CloseEachTime ==
    /\ Drain("close")
    /\ terminated' = FALSE
    /\ UNCHANGED <<flags, file, closed, closedAt>>

Close ==
    /\ ~closed
    /\ Drain("close")
    /\ terminated' = FALSE
    /\ UNCHANGED <<flags, file, closed, closedAt>>

CloseAgain ==
    /\ op = "none"
    /\ closed
    /\ UNCHANGED lzopVars

Buffering ==
    /\ TakeInput \/ TakeHoldover \/ CompressorFails \/ Return
    /\ UNCHANGED fileVars

(* The lengths a compressor may answer that writeBlock tells apart. *)
PackedLens == {Len(block) - 1, Len(block)} \ {0}

(* writeBlock. *)
WriteBlock ==
    /\ EmitBlock
    /\ \E packedLen \in PackedLens : file' = file \o LzopBlock(flags, block, packedLen)
    /\ UNCHANGED <<flags, terminated, closed, closedAt>>

(* The sink threw in the middle of a block. *)
WriteBlockFails ==
    /\ SinkFails
    /\ \E packedLen \in PackedLens :
            file' \in {file \o torn : torn \in Torn(LzopBlock(flags, block, packedLen))}
    /\ file' = file <=> out' = out
    /\ UNCHANGED <<flags, terminated, closed, closedAt>>

(* Bug: the null word goes out before the rest of the data. *)
WriteNullWordFirst ==
    /\ op = "close" /\ ~emitting /\ ~terminated
    /\ file' = Append(file, Terminator)
    /\ terminated' = TRUE
    /\ closedAt' = IF closedAt = Open THEN accepted ELSE closedAt
    /\ UNCHANGED <<vars, flags, closed>>

(* close() after its flush. *)
WriteNullWord ==
    /\ op = "close" /\ ~emitting /\ ~MoreToCompress
    /\ ~terminated
    /\ file' = Append(file, Terminator)
    /\ terminated' = TRUE
    /\ closedAt' = IF closedAt = Open THEN accepted ELSE closedAt
    /\ UNCHANGED <<vars, flags, closed>>

WriteNullWordFails ==
    /\ op = "close" /\ ~emitting /\ ~MoreToCompress
    /\ ~terminated
    /\ Throw
    /\ file' \in {file, Append(file, Part)}
    /\ UNCHANGED <<out, flags, terminated, closed, closedAt>>

(* Bug: the field is set even when the sink was not closed. *)
LzopCloseSinkAnyhow ==
    /\ terminated
    /\ CloseSink
    /\ closed' = TRUE
    /\ UNCHANGED <<flags, file, terminated, closedAt>>

(* super.close(), whose flush finds nothing. *)
LzopCloseSink ==
    /\ terminated
    /\ CloseSink
    /\ closed' = (closed \/ result' = "ok")
    /\ UNCHANGED <<flags, file, terminated, closedAt>>

LzopStep ==
    \/ Buffering
    \/ WriteBlock
    \/ WriteBlockFails
    \/ WriteNullWord
    \/ WriteNullWordFails
    \/ LzopCloseSink

LzopNext == LzopCall \/ Close \/ CloseAgain \/ LzopStep

LzopSpec == LzopInit /\ [][LzopNext]_lzopVars

-----------------------------------------------------------------------------
(* Properties *)

(* The tokens in front of the first null word. *)
Body == SelectInSeq(file, LAMBDA t : t = Terminator)
BeforeNullWord == IF Body = 0 THEN file ELSE SubSeq(file, 1, Body - 1)

NullWords == Cardinality({i \in DOMAIN file : file[i] = Terminator})

(* As long as no call has failed: in front of the first null word are all  *)
(* bytes accepted before the close that wrote it, and of those accepted    *)
(* later none; no length of a block looks like the null word; a second     *)
(* close() does not write another.                                         *)
NullWordEndsFile ==
    failures = 0 =>
        /\ NullWords = IF closedAt = Open THEN 0 ELSE 1
        /\ closedAt # Open => BytesIn(BeforeNullWord) = [k \in 1 .. closedAt |-> k]

(* close() writes the null word when all that was accepted is in a block   *)
(* or was reported lost, also when earlier calls, or this close() the      *)
(* first time, have thrown.                                                *)
NullWordAfterAll ==
    [][terminated' /\ ~terminated => 1 .. accepted \subseteq Written \cup lost]_lzopVars

(* closed is set only by a close() that closed the sink, and then what was *)
(* accepted before the null word is in front of it or was reported lost:   *)
(* a close() that threw half way can be repeated, and does its work then.  *)
ClosedMeansClosed ==
    closed =>
        /\ sinkClosed
        /\ closedAt # Open
        /\ 1 .. closedAt \subseteq ToSet(BytesIn(BeforeNullWord)) \cup lost

=============================================================================
