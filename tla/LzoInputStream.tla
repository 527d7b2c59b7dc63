--------------------------- MODULE LzoInputStream ---------------------------
(***************************************************************************)
(* org.anarres.lzo.LzoInputStream: reads what LzoOutputStream wrote, a     *)
(* block at a time, into outputBuffer and hands it out from there.  A      *)
(* block is its length, its compressed length and its data; the end of     *)
(* the file at the start of a block is the end of the stream.              *)
(*                                                                         *)
(* The file may be cut anywhere, and the data of a block may be damaged:   *)
(* what decompressing it then gives is not determined.  The lengths are    *)
(* what the writer wrote.                                                  *)
(***************************************************************************)
EXTENDS LzoFrames

CONSTANTS
    ReadLens,       \* bound: the lengths of the arrays passed to read
    MaxBlock,       \* bound: the bytes of a block
    MaxBlocks       \* bound: the blocks of a file

ASSUME ReaderAssumption ==
    /\ ReadLens \subseteq Nat
    /\ MaxBlock \in Nat \ {0}
    /\ MaxBlocks \in Nat

VARIABLES
    file,               \* `in`, as tokens
    pos,                \* how many of them are consumed
    outputBuffer,       \* the array, kept when a later block is smaller
    outputBufferPos,    \* how much of it was handed out
    outputBufferLen,    \* where what it holds ends
    want,               \* the len of the read being served, or Idle
    result,             \* how the last read ended
    delivered,          \* history: the bytes handed out
    failed,             \* history: some read threw
    content             \* history: the bytes the file was written from

output == <<outputBuffer, outputBufferPos, outputBufferLen>>
vars == <<file, pos, output, want, result, delivered, failed, content>>

Idle == -1

(* What damaged data decompresses to; no byte of a stream is written 0. *)
Junk == 0

-----------------------------------------------------------------------------
Available == outputBufferLen - outputBufferPos

(* setOutputBufferSize: a new array when the old one is too small. *)
Grown(size) ==
    IF size > Len(outputBuffer) THEN [i \in 1 .. size |-> Junk] ELSE outputBuffer

(* Bytes copied to the front of an array. *)
Over(buf, bytes) == [i \in DOMAIN buf |-> IF i <= Len(bytes) THEN bytes[i] ELSE buf[i]]

(* The next k tokens can be read in full. *)
Whole(k) ==
    /\ pos + k <= Len(file)
    /\ \A i \in 1 .. k : file[pos + i] # Part

ReaderInit ==
    /\ pos = 0
    /\ outputBuffer = << >>
    /\ outputBufferPos = 0
    /\ outputBufferLen = 0
    /\ want = Idle
    /\ result = "ok"
    /\ delivered = << >>
    /\ failed = FALSE

(* read(b, off, len); read() is a read of one byte. *)
Read(len) ==
    /\ want = Idle
    /\ want' = len
    /\ UNCHANGED <<file, pos, output, result, delivered, failed, content>>

(* fill() found a byte: hand out what there is, at most len of it. *)
Deliver ==
    LET n == IF want < Available THEN want ELSE Available IN
    /\ want # Idle
    /\ Available # 0
    /\ delivered' = delivered \o SubSeq(outputBuffer, outputBufferPos + 1, outputBufferPos + n)
    /\ outputBufferPos' = outputBufferPos + n
    /\ want' = Idle
    /\ result' = "ok"
    /\ UNCHANGED <<file, pos, outputBuffer, outputBufferLen, failed, content>>

(* fill() is about to call readBlock(). *)
Filling == want # Idle /\ Available = 0

(* readBlock() returned false: the read returns -1. *)
EndRead ==
    /\ want' = Idle
    /\ result' = "end"
    /\ UNCHANGED <<file, output, delivered, failed, content>>

(* readBlock() threw. *)
ThrowRead ==
    /\ want' = Idle
    /\ result' = "failed"
    /\ failed' = TRUE
    /\ UNCHANGED <<file, delivered, content>>

(* readBlock() returned true: fill() looks at the buffer again. *)
Filled == UNCHANGED <<file, want, result, delivered, failed, content>>

(* decompress() of intact data. *)
Decompressed(buf, data) ==
    /\ outputBuffer' = Over(buf, data.bytes)
    /\ outputBufferPos' = 0
    /\ outputBufferLen' = Len(data.bytes)

(* decompress() of damaged data leaves any length the array can hold: 0    *)
(* when an index was out of bounds, what the decompressor wrote on an      *)
(* error code or on the wrong number of bytes.                             *)
Garbled(buf) ==
    /\ outputBuffer' = [i \in DOMAIN buf |-> Junk]
    /\ outputBufferPos' = 0
    /\ outputBufferLen' \in 0 .. Len(buf)

-----------------------------------------------------------------------------
(* readBlock() *)

(* Bug: the end of the file is the end of the stream wherever it comes. *)
EndOfFileAnywhere ==
    /\ Filling
    /\ ~Whole(3)
    /\ pos' = Len(file)
    /\ EndRead

(* readInt(true) met the end of the file. *)
EndOfFile ==
    /\ Filling
    /\ pos = Len(file)
    /\ UNCHANGED pos
    /\ EndRead

(* Bug: readBytes() asks for the rest of the block again and again. *)
CutShortSpins ==
    /\ Filling
    /\ pos < Len(file)
    /\ ~Whole(3)
    /\ UNCHANGED vars

(* The file ends inside a block. *)
CutShort ==
    /\ Filling
    /\ pos < Len(file)
    /\ ~Whole(3)
    /\ pos' = Len(file)
    /\ outputBuffer' = IF Whole(1) THEN Grown(file[pos + 1].value) ELSE outputBuffer
    /\ UNCHANGED <<outputBufferPos, outputBufferLen>>
    /\ ThrowRead

(* Bug: the length is the array's, which an earlier block may have grown. *)
ReadBlockToArrayEnd ==
    LET buf == Grown(file[pos + 1].value)
        data == file[pos + 3]
    IN  /\ Filling
        /\ Whole(3)
        /\ data.intact
        /\ pos' = pos + 3
        /\ outputBuffer' = Over(buf, data.bytes)
        /\ outputBufferPos' = 0
        /\ outputBufferLen' = Len(buf)
        /\ Filled

ReadBlock ==
    LET buf == Grown(file[pos + 1].value)
        data == file[pos + 3]
    IN  /\ Filling
        /\ Whole(3)
        /\ data.intact
        /\ pos' = pos + 3
        /\ Decompressed(buf, data)
        /\ Filled

(* Damaged data decompresses to the right number of bytes, or throws. *)
ReadGarbled ==
    LET ulen == file[pos + 1].value IN
    /\ Filling
    /\ Whole(3)
    /\ ~file[pos + 3].intact
    /\ pos' = pos + 3
    /\ Garbled(Grown(ulen))
    /\ \/ outputBufferLen' = ulen /\ Filled
       \/ ThrowRead

Step ==
    \/ Deliver
    \/ EndOfFile
    \/ CutShort
    \/ ReadBlock
    \/ ReadGarbled

ReadCall == \E len \in ReadLens : Read(len)

Next == ReadCall \/ Step

Init ==
    /\ ReaderInit
    /\ \E lens \in SeqOf(1 .. MaxBlock, MaxBlocks) :
            /\ content = Stream(lens)
            /\ file \in Aged(FlattenSeq([i \in DOMAIN lens |-> LzoBlock(BlockAt(lens, i), 1)]))

(* A read runs in the thread of its caller; nothing makes a caller read. *)
Spec == Init /\ [][Next]_vars /\ WF_vars(Step)

-----------------------------------------------------------------------------
(* Properties *)

(* Up to the first exception an undamaged file, whole or cut short, reads  *)
(* as a prefix of the bytes it was written from: a smaller block after a   *)
(* larger one does not bring back what the array held before.              *)
ReadInOrder == Undamaged(file) /\ ~failed => IsPrefix(delivered, content)

(* A stream that ends with no exception was read in full: no block of the  *)
(* file is skipped, and none is cut short in silence.                      *)
EndIsComplete ==
    result = "end" /\ ~failed =>
        /\ Len(delivered) = Len(BytesIn(file))
        /\ Len(file) % 3 = 0

=============================================================================
