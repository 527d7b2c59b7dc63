---------------------------- MODULE HadoopRoundTrip --------------------------
(***************************************************************************)
(* A file written through LzoCodec's output stream, whole or cut where the *)
(* writer died, and read back through its input stream.                    *)
(***************************************************************************)
EXTENDS HadoopLzoCompressor, HadoopLzoDecompressor

VARIABLE
    complete            \* the file is all of what was written, finished

fileVars == <<vars, readerVars, complete>>

-----------------------------------------------------------------------------
FileInit == Init /\ ReaderInit /\ complete = FALSE

WriterOnly == rpc = "closed" /\ UNCHANGED <<readerVars, complete>>

NothingInside == inputs.len = 0 /\ inputs.hold = NoHoldover /\ Left = 0

(* The writer is done, or has died, between two calls or in one. *)
Open ==
    /\ rpc = "closed"
    /\ room' \in Rooms /\ safe' \in BOOLEAN
    /\ file' = sent
    /\ complete' = (pc = "idle" /\ NothingInside)
    /\ rpc' = "idle"
    /\ UNCHANGED <<vars, held, want, original, uncompressed, delivered, errors>>

WriterStep == Step /\ WriterOnly
ReaderStep == ReadStep /\ UNCHANGED <<vars, complete>>

FileNext ==
    \/ Call /\ WriterOnly
    \/ WriterStep
    \/ Open
    \/ (\E len \in ReadLens : Read(len)) /\ UNCHANGED <<vars, complete>>
    \/ ReaderStep

FileSpec == FileInit /\ [][FileNext]_fileVars /\ WF_fileVars(WriterStep) /\ WF_fileVars(ReaderStep)

-----------------------------------------------------------------------------
(* Properties *)

(* As long as the stream has not thrown, its bytes are the first ones that *)
(* were written: neither a block the compressor failed on, whose remains   *)
(* it hands out as a chunk, nor a cut file shows as other bytes.           *)
ReadUntilError ==
    N >= MaxInput /\ errors = 0 => delivered = [i \in 1 .. Len(delivered) |-> i]

(* A length of 0, which finish() writes when nothing was given, ends what  *)
(* the stream reads.                                                       *)
ZeroInside == \E i \in 1 .. Len(sent) - 1 : sent[i].kind = "ulen" /\ sent[i].value = 0

(* A file without failures, read with a buffer for as much as the stream   *)
(* gives the compressor at a time, gives no exception, and all of it is    *)
(* read before the end.                                                    *)
ReadsBack ==
    N > MaxInput /\ room >= MaxInput /\ failures = 0 /\ ~ZeroInside =>
        /\ errors = 0
        /\ rpc # "lost"
        /\ rpc = "end" /\ complete => Len(delivered) = accepted

(* Each call of either stream returns or throws, unless the writer dies. *)
StreamCallsEnd == (pc # "idle" ~> pc = "idle" \/ rpc # "closed") /\ (rpc = "read" ~> rpc # "read")

=============================================================================
