------------------------ MODULE HadoopLzoCompressor -------------------------
(***************************************************************************)
(* org.anarres.lzo.hadoop.codec.LzoCompressor under the stream Hadoop puts *)
(* around it.                                                              *)
(*                                                                         *)
(* The compressor buffers like LzoOutputStream, with two differences: the  *)
(* holdover is the caller's array and not a copy of it, and a block taken  *)
(* from inputBuffer is compressed where it lies.  compress() hands out the *)
(* compressed block in as many pieces as the caller's array asks for.      *)
(*                                                                         *)
(* BlockCompressorStream (external) writes the length of what it gave to   *)
(* the compressor, then each piece it got out as a chunk; a large write is *)
(* given in segments of MaxInput bytes.                                    *)
(***************************************************************************)
EXTENDS LzoFrames

CONSTANTS
    Ns,                 \* bound: the sizes of inputBuffer
    StreamBuffer,       \* BlockCompressorStream: its buffer's size
    FlushesEmpty,       \* BlockCompressorStream: a large write to an empty stream flushes it
    WriteLens,          \* bound: the lengths of the arrays the caller writes
    MaxBytes,           \* bound: bytes the caller writes in all
    MaxSent,            \* bound: a stream that sent so much is not called again
    MaxFailures         \* bound: exceptions of the compressor

ASSUME CompressorAssumption ==
    /\ Ns \subseteq Nat \ {0}
    /\ StreamBuffer \in Nat \ {0}      \* CompressorStream refuses a buffer of none
    /\ FlushesEmpty \in BOOLEAN
    /\ WriteLens \subseteq Nat \ {0}    \* an empty write returns at once
    /\ {MaxBytes, MaxSent} \subseteq Nat
    /\ MaxFailures \in Nat

VARIABLES
    inputs,             \* inputBuffer, inputBufferLen and the holdover's three fields
    output,             \* the block in outputBuffer, its size, what was handed out, and
                        \* whether compress() returned
    finished,           \* the field
    inputByteCount,     \* the field
    pc,                 \* where the stream is in a call, "idle" outside of one
    pending,            \* the bytes of the call not yet given to the compressor
    then,               \* what the stream does when it has drained the compressor
    sent,               \* what the stream wrote to its sink
    accepted,           \* history: bytes written to the stream and given on
    failures            \* history: calls that threw

vars == <<inputs, output, finished, inputByteCount, pc, pending, then, sent,
          accepted, failures>>

-----------------------------------------------------------------------------
(* Data *)

(* inputBuffer.length. *)
N == Cardinality(DOMAIN inputs.array)

NoHoldover == [buf |-> << >>, pos |-> -1, len |-> -1]
NoOutput == [block |-> << >>, size |-> 0, pos |-> 0, good |-> TRUE]

(* The overhead of lzo1 algorithms, with smaller numbers: what LzoCodec    *)
(* reserves of the stream's buffer, and how much a block can grow.         *)
Overhead(size) == size \div 4 + 1

(* Definitions marked "Bug:" are slips the properties must notice; nothing *)
(* else refers to them.                                                    *)

(* Bug: nothing is reserved. *)
MaxInputNoOverhead == StreamBuffer

MaxInput == StreamBuffer - Overhead(StreamBuffer)

Lesser(a, b) == IF a < b THEN a ELSE b

(* The argument of a write, whose k-th byte ever is k. *)
NextBytes(len) == [i \in 0 .. len - 1 |-> accepted + i + 1]

ArrayCopy(src, srcPos, dst, dstPos, len) ==
    [i \in DOMAIN dst |->
        IF i \in dstPos .. dstPos + len - 1 THEN src[srcPos + (i - dstPos)]
                                            ELSE dst[i]]

Slice(array, pos, len) == [i \in 1 .. len |-> array[pos + i - 1]]

(* The holdover after its first k bytes are taken; all of it is none. *)
Rest(hold, k) ==
    IF k = hold.len THEN NoHoldover
    ELSE [buf |-> hold.buf, pos |-> hold.pos + k, len |-> hold.len - k]

(* Bug: it is moved to the front of the buffer. *)
CompactedFront(in) ==
    LET k == Lesser(in.hold.len, N - in.len) IN
    IF in.hold = NoHoldover \/ (in.len = 0 /\ in.hold.len > N) THEN in
    ELSE [array |-> ArrayCopy(in.hold.buf, in.hold.pos, in.array, 0, k),
          len |-> in.len + k,
          hold |-> Rest(in.hold, k)]

(* compact(): as much of the holdover into the input buffer as fits, but   *)
(* nothing when the buffer is empty and the holdover is longer than it.    *)
Compacted(in) ==
    LET k == Lesser(in.hold.len, N - in.len) IN
    IF in.hold = NoHoldover \/ (in.len = 0 /\ in.hold.len > N) THEN in
    ELSE [array |-> ArrayCopy(in.hold.buf, in.hold.pos, in.array, in.len, k),
          len |-> in.len + k,
          hold |-> Rest(in.hold, k)]

Given(len) == Compacted([inputs EXCEPT !.hold = [buf |-> NextBytes(len), pos |-> 0, len |-> len]])

(* Bug: there is room, whatever the holdover. *)
NeedsInputWhenRoom(in) == in.len < N

(* needsInput(), which compacts first: by then there is nothing to move. *)
NeedsInput(in) == in.hold = NoHoldover /\ in.len < N

Left == output.size - output.pos

(* Bug: nothing was finished if nothing came out. *)
FinishedWithOutput ==
    /\ finished /\ Left = 0 /\ inputs.len = 0 /\ inputs.hold = NoHoldover
    /\ output.pos > 0

(* finished(). *)
Finished == finished /\ Left = 0 /\ inputs.len = 0 /\ inputs.hold = NoHoldover

Ulen(n) == [kind |-> "ulen", value |-> n]
Chunk(out, len) ==
    [kind |-> "chunk", block |-> out.block, from |-> out.pos,
     whole |-> out.good /\ out.pos = 0 /\ len = out.size]

-----------------------------------------------------------------------------
Init ==
    /\ \E n \in Ns : inputs = [array |-> [i \in 0 .. n - 1 |-> 0], len |-> 0, hold |-> NoHoldover]
    /\ output = NoOutput
    /\ finished = FALSE
    /\ inputByteCount = 0
    /\ pc = "idle"
    /\ pending = 0
    /\ then = "done"
    /\ sent = << >>
    /\ accepted = 0
    /\ failures = 0

(* Bug: the count of bytes goes on. *)
ResetKeepsCount ==
    /\ inputs' = [inputs EXCEPT !.len = 0, !.hold = NoHoldover]
    /\ output' = NoOutput
    /\ finished' = FALSE
    /\ UNCHANGED inputByteCount

(* reset(). *)
Reset ==
    /\ inputs' = [inputs EXCEPT !.len = 0, !.hold = NoHoldover]
    /\ output' = NoOutput
    /\ finished' = FALSE
    /\ inputByteCount' = 0

(* setInput(). *)
SetInput(len) ==
    /\ inputs.hold = NoHoldover
    /\ inputs' = Given(len)
    /\ inputByteCount' = inputByteCount + len
    /\ accepted' = accepted + len

(* What compress() takes from inputBuffer: the cells are read when compact *)
(* has already moved holdover into them.                                   *)
FromInput ==
    LET after == Compacted([inputs EXCEPT !.len = 0]) IN
    [block |-> Slice(after.array, 0, inputs.len), after |-> after]

(* And what it takes from the holdover. *)
FromHoldover ==
    LET hold == inputs.hold
        k == Lesser(N, hold.len)
    IN  [block |-> Slice(hold.buf, hold.pos, k),
         after |-> Compacted([inputs EXCEPT !.hold = Rest(hold, k)])]

Taken == IF inputs.len > 0 THEN FromInput ELSE FromHoldover

(* The sizes of a compressed block: as small as can be, and the worst. *)
Sizes(len) == {1, len + Overhead(len)}

(* compress() when nothing is left of the last block, and what it returns. *)
CompressNext ==
    \E size \in Sizes(Len(Taken.block)) :
        LET fresh == [block |-> Taken.block, size |-> size, pos |-> 0, good |-> TRUE]
            len == Lesser(StreamBuffer, size)
        IN  /\ inputs' = Taken.after
            /\ output' = [fresh EXCEPT !.pos = len]
            /\ sent' = Append(sent, Chunk(fresh, len))

CompressRest ==
    LET len == Lesser(StreamBuffer, Left) IN
    /\ output' = [output EXCEPT !.pos = @ + len]
    /\ sent' = Append(sent, Chunk(output, len))
    /\ UNCHANGED inputs

HasInput == inputs.len > 0 \/ inputs.hold # NoHoldover

(* One call of compress() that returns. *)
Compress ==
    \/ Left = 0 /\ HasInput /\ CompressNext
    \/ Left > 0 /\ CompressRest

-----------------------------------------------------------------------------
(* The stream *)

(* finish(): the length of what the compressor was given, then all of it. *)
StartDrain(next) ==
    /\ sent' = IF Finished THEN sent ELSE Append(sent, Ulen(inputByteCount))
    /\ finished' = TRUE
    /\ pc' = "drain"
    /\ then' = next
    /\ UNCHANGED <<inputs, output, inputByteCount>>

(* write(), up to the flush of what would not fit with it. *)
Write(len) ==
    /\ pc = "idle" /\ Len(sent) < MaxSent
    /\ ~Finished
    /\ accepted + len <= MaxBytes
    /\ pending' = len
    /\ IF len + inputByteCount > MaxInput /\ (FlushesEmpty \/ inputByteCount > 0)
       THEN StartDrain("give")
       ELSE /\ pc' = "give"
            /\ UNCHANGED <<inputs, output, finished, inputByteCount, then, sent>>
    /\ UNCHANGED <<accepted, failures>>

(* A write that the compressor can take at once, or for which its buffer   *)
(* has to be emptied.                                                      *)
GiveAll ==
    /\ pc = "give"
    /\ pending <= MaxInput
    /\ SetInput(pending)
    /\ pending' = 0
    /\ IF NeedsInput(inputs') THEN pc' = "idle" /\ UNCHANGED sent
       ELSE pc' = "empty" /\ sent' = Append(sent, Ulen(inputByteCount'))
    /\ UNCHANGED <<output, finished, then, failures>>

(* A large write: one length for all of its segments. *)
GiveLarge ==
    /\ pc = "give"
    /\ pending > MaxInput
    /\ sent' = Append(sent, Ulen(pending))
    /\ pc' = "segment"
    /\ UNCHANGED <<inputs, output, finished, inputByteCount, pending, then, accepted, failures>>

GiveSegment ==
    LET len == Lesser(pending, MaxInput) IN
    /\ pc = "segment"
    /\ SetInput(len)
    /\ finished' = TRUE
    /\ pending' = pending - len
    /\ pc' = "drain"
    /\ then' = "segment"
    /\ UNCHANGED <<output, sent, failures>>

(* "Cannot accept input while holdover is present.": after a failure only. *)
RefuseInput ==
    /\ pc \in {"give", "segment"}
    /\ pc = "give" => pending <= MaxInput
    /\ inputs.hold # NoHoldover
    /\ pc' = "idle"
    /\ pending' = 0
    /\ UNCHANGED <<inputs, output, finished, inputByteCount, then, sent, accepted, failures>>

(* do compress() while (!needsInput()) *)
EmptyBuffer ==
    /\ pc = "empty"
    /\ Compress
    /\ pc' = IF NeedsInput(inputs') THEN "idle" ELSE "empty"
    /\ UNCHANGED <<finished, inputByteCount, pending, then, accepted, failures>>

(* while (!finished()) compress() *)
DrainBuffer ==
    /\ pc = "drain"
    /\ ~Finished
    /\ Compress
    /\ UNCHANGED <<finished, inputByteCount, pc, pending, then, accepted, failures>>

(* The compressor is drained: done, or reset for the rest of the write. *)
Drained ==
    /\ pc = "drain"
    /\ Finished
    /\ \/ /\ then = "done"
          /\ pc' = "idle"
          /\ UNCHANGED <<inputs, output, finished, inputByteCount>>
       \/ /\ then # "done"
          /\ pc' = IF then = "segment" /\ pending = 0 THEN "idle" ELSE then
          /\ Reset
    /\ UNCHANGED <<pending, then, sent, accepted, failures>>

(* finish() called by the user, and resetState() after it. *)
Finish ==
    /\ pc = "idle" /\ Len(sent) < MaxSent
    /\ ~Finished
    /\ StartDrain("done")
    /\ UNCHANGED <<pending, accepted, failures>>

ResetState ==
    /\ pc = "idle"
    /\ Finished
    /\ Reset
    /\ UNCHANGED <<pc, pending, then, sent, accepted, failures>>

(* The lzo compressor fails: some of the block is in outputBuffer, whose   *)
(* length has been set as if it were full.                                 *)
CompressorFails ==
    /\ pc \in {"empty", "drain"} /\ ~Finished
    /\ Left = 0 /\ HasInput
    /\ failures < MaxFailures
    /\ failures' = failures + 1
    /\ inputs' = Taken.after
    /\ output' = [block |-> Taken.block, size |-> N + Overhead(N), pos |-> 0, good |-> FALSE]
    /\ pc' = "idle"
    /\ pending' = 0
    /\ UNCHANGED <<finished, inputByteCount, then, sent, accepted>>

Call == (\E len \in WriteLens : Write(len)) \/ Finish \/ ResetState

Step ==
    \/ GiveAll
    \/ GiveLarge
    \/ GiveSegment
    \/ RefuseInput
    \/ EmptyBuffer
    \/ DrainBuffer
    \/ Drained
    \/ CompressorFails

Next == Call \/ Step

(* A call runs in the thread of its caller until it returns; nothing makes *)
(* the caller make another one.                                            *)
Spec == Init /\ [][Next]_vars /\ WF_vars(Step)

-----------------------------------------------------------------------------
(* Properties *)

(* The blocks handed out, each once. *)
Blocks == SelectSeq(sent, LAMBDA s : s.kind = "chunk" /\ s.from = 0)
BytesSent == FlattenSeq([i \in DOMAIN Blocks |-> Blocks[i].block])

InOrder == BytesSent = [k \in 1 .. Len(BytesSent) |-> k]

(* "there is nowhere for it to go but into the returned data from a second *)
(* call to compress()": what goes through the holdover comes out in a      *)
(* later block, and the bytes before it come out before it.  Violated.     *)
HoldoverComesLater == failures = 0 => InOrder

(* The bytes in the chunk at each place of what was sent. *)
Carried == [k \in DOMAIN sent |-> IF sent[k].kind = "chunk" THEN Len(sent[k].block) ELSE 0]

(* The chunks behind the i-th place, up to the next length or the end. *)
ChunksUpTo(i, j) ==
    /\ i <= j
    /\ \A k \in i + 1 .. j : sent[k].kind = "chunk"
    /\ j < Len(sent) => sent[j + 1].kind = "ulen"

(* Between calls, a length that was written is followed by chunks that     *)
(* hold that many bytes, up to the next one, when the compressor has more  *)
(* room than the stream gives it at a time.                                *)
UlenHonest ==
    failures = 0 /\ N > MaxInput /\ pc = "idle" =>
        /\ sent # << >> => sent[1].kind = "ulen"
        /\ \A i, j \in DOMAIN sent :
                sent[i].kind = "ulen" /\ ChunksUpTo(i, j) =>
                    sent[i].value = Total(Carried, j) - Total(Carried, i)

(* "This method retains a pointer to the user's buffer": between the calls *)
(* of the stream it does not, so the user may write to that buffer again.  *)
PointerDropped == failures = 0 /\ pc = "idle" => inputs.hold = NoHoldover

=============================================================================
