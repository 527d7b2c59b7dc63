------------------------ MODULE HadoopLzoDecompressor ------------------------
(***************************************************************************)
(* org.anarres.lzo.hadoop.codec.LzoDecompressor under the stream Hadoop    *)
(* puts around it.  setInput() decompresses a block at once; decompress()  *)
(* hands out what is in outputBuffer, and an error leaves in it what the   *)
(* lzo decompressor says it has written so far.                            *)
(*                                                                         *)
(* BlockDecompressorStream (external) reads a length, then chunks until as *)
(* many bytes have come out of them.  The end of the file, even within a   *)
(* number or a chunk, ends the stream.                                     *)
(***************************************************************************)
EXTENDS Integers, SequencesExt

CONSTANTS
    Rooms,              \* bound: the sizes of outputBuffer
    ReadLens,           \* bound: the lengths of the arrays the caller reads to
    MaxErrors           \* bound: a stream that threw so often is not read again

ASSUME DecompressorAssumption ==
    Rooms \subseteq Nat \ {0} /\ ReadLens \subseteq Nat \ {0} /\ MaxErrors \in Nat

VARIABLES
    room, safe,         \* outputBuffer.length, and whether the class is a _SAFE one
    held,               \* outputBuffer from outputBufferPos on, outputBufferLen bytes
    file,               \* the numbers and chunks not yet read
    rpc,                \* where the stream is: "closed", "idle", "read", "end", "lost"
    want,               \* the length of the caller's array
    original,           \* originalBlockSize
    uncompressed,       \* noUncompressedBytes
    delivered,          \* history: the bytes the caller got
    errors              \* history: exceptions the caller got

readerVars == <<room, safe, held, file, rpc, want, original, uncompressed, delivered, errors>>

-----------------------------------------------------------------------------
JUNK == 0       \* a byte that was not written

Shorter(a, b) == IF a < b THEN a ELSE b

(* What decompress() leaves of a chunk.  One that is not a whole block, or *)
(* does not fit, is an error: the safe class returns its code after some   *)
(* bytes, the other throws, or finds that it has read beyond the chunk.    *)
Outcomes(chunk) ==
    IF chunk.whole /\ Len(chunk.block) <= room
    THEN {[held |-> chunk.block, ok |-> TRUE]}
    ELSE LET prefixes == {SubSeq(chunk.block, 1, n) :
                            n \in 0 .. Shorter(room, Len(chunk.block))}
             part == IF safe /\ chunk.from = 0 THEN prefixes ELSE {<< >>, <<JUNK>>}
         IN  [held : IF chunk.whole /\ ~safe THEN {<< >>} ELSE part, ok : {FALSE}]

-----------------------------------------------------------------------------
ReaderInit ==
    /\ room = 0 /\ safe = FALSE      \* until the stream is opened
    /\ held = << >> /\ file = << >>
    /\ rpc = "closed"
    /\ want = 0 /\ original = 0 /\ uncompressed = 0
    /\ delivered = << >> /\ errors = 0

(* The length in front of a block; something else there is no length. *)
ReadLength ==
    IF file = << >> THEN rpc' = "end" /\ UNCHANGED <<file, original, uncompressed>>
    ELSE IF Head(file).kind # "ulen" THEN rpc' = "lost" /\ UNCHANGED <<file, original, uncompressed>>
    ELSE /\ file' = Tail(file)
         /\ original' = Head(file).value
         /\ uncompressed' = 0
         /\ rpc' = IF original' = 0 THEN "end" ELSE "read"

Read(len) ==
    /\ rpc = "idle" /\ errors < MaxErrors
    /\ want' = len
    /\ IF uncompressed = original THEN ReadLength
       ELSE rpc' = "read" /\ UNCHANGED <<file, original, uncompressed>>
    /\ UNCHANGED <<room, safe, held, delivered, errors>>

(* decompress() *)
Decompress ==
    LET n == Shorter(want, Len(held)) IN
    /\ rpc = "read" /\ held # << >>
    /\ delivered' = delivered \o SubSeq(held, 1, n)
    /\ held' = SubSeq(held, n + 1, Len(held))
    /\ uncompressed' = uncompressed + n
    /\ rpc' = "idle"
    /\ UNCHANGED <<room, safe, file, want, original, errors>>

(* decompress() has nothing, finished() and needsInput() are true: the     *)
(* next chunk goes to setInput().                                          *)
TakeChunk ==
    /\ rpc = "read" /\ held = << >>
    /\ uncompressed < original /\ file # << >> /\ Head(file).kind = "chunk"
    /\ file' = Tail(file)
    /\ \E r \in Outcomes(Head(file)) :
        /\ held' = r.held
        /\ errors' = IF r.ok THEN errors ELSE errors + 1
        /\ rpc' = IF r.ok THEN "read" ELSE "idle"
    /\ UNCHANGED <<room, safe, want, original, uncompressed, delivered>>

NoMoreChunks ==
    /\ rpc = "read" /\ held = << >>
    /\ IF uncompressed >= original \/ file = << >> THEN rpc' = "end"
       ELSE Head(file).kind # "chunk" /\ rpc' = "lost"
    /\ UNCHANGED <<room, safe, held, file, want, original, uncompressed, delivered, errors>>

ReadStep == Decompress \/ TakeChunk \/ NoMoreChunks

=============================================================================
