--------------------------- MODULE LzoOutputStream ---------------------------
(***************************************************************************)
(* org.anarres.lzo.LzoOutputStream: an OutputStream that cuts what it is   *)
(* given into blocks of at most N bytes, compresses each and writes it as  *)
(* a frame to the sink `out`.                                              *)
(*                                                                         *)
(* Bytes are collected in inputBuffer.  What a write brings beyond its     *)
(* capacity is "holdover": a private copy of the argument, consumed from   *)
(* the front, either copied into inputBuffer by compact() or compressed    *)
(* in place a block at a time.                                             *)
(*                                                                         *)
(* The k-th byte accepted by write is written k; 0 is the content of a     *)
(* fresh Java array.  The compressor keeps what it is given: a frame is    *)
(* the bytes of its block.  The compressor and the sink may throw.         *)
(***************************************************************************)
EXTENDS Integers, Sequences

CONSTANTS
    N,              \* inputBuffer.length
    WriteLens,      \* bound: the lengths of the arrays the caller writes
    MaxBytes,       \* bound: bytes the caller writes in all
    MaxFailures     \* bound: exceptions of the compressor and of the sink

(* A size <= 0 is replaced by 64K in the constructor. *)
ASSUME NAssumption == N \in Nat \ {0}

ASSUME BoundsAssumption ==
    /\ WriteLens \subseteq Nat
    /\ MaxBytes \in Nat
    /\ MaxFailures \in Nat

VARIABLES
    inputBuffer,        \* the array, with whatever earlier blocks left in it
    inputBufferLen,     \* how much of it is input
    holdover,           \* inputHoldoverBuffer with its Pos and Len
    op,                 \* the call the caller is in, "none" outside of one
    emitting,           \* a block was taken and its frame is not written
    block,              \* that block, the copy the compressor reads
    out,                \* the frames written to the sink
    sinkClosed,         \* out.close() was called and returned
    result,             \* how the last call ended
    accepted,           \* history: bytes accepted by write
    lost,               \* history: bytes of blocks that failed
    failures            \* history: calls that ended in an exception

buffers == <<inputBuffer, inputBufferLen, holdover>>
vars == <<buffers, op, emitting, block, out, sinkClosed, result,
          accepted, lost, failures>>

-----------------------------------------------------------------------------
(* Data *)

(* byte[size] *)
Array(size) == [0 .. size - 1 -> Nat]

(* reset() gives a missing holdover these positions. *)
NoHoldover == [buf |-> << >>, pos |-> -1, len |-> -1]

Holdover(buf, pos, len) == [buf |-> buf, pos |-> pos, len |-> len]

(* System.arraycopy(src, srcPos, dst, dstPos, len). *)
ArrayCopy(src, srcPos, dst, dstPos, len) ==
    [i \in DOMAIN dst |->
        IF i \in dstPos .. dstPos + len - 1 THEN src[srcPos + (i - dstPos)]
                                            ELSE dst[i]]

(* The len bytes of an array from pos on, as the compressor reads them. *)
Slice(array, pos, len) == [i \in 1 .. len |-> array[pos + i - 1]]

(* The argument of a write of len bytes, copied by Arrays.copyOfRange. *)
NextBytes(len) == [i \in 0 .. len - 1 |-> accepted + i + 1]

(* len cells of an array, from pos on, hold the bytes after the d-th. *)
Continues(array, pos, len, d) ==
    \A i \in 0 .. len - 1 : array[pos + i] = d + i + 1

Frame(data, whole) == [data |-> data, whole |-> whole]

-----------------------------------------------------------------------------
(* compact(): move holdover into the input buffer, which holds len bytes. *)
(* Definitions marked "Bug:" are slips the properties must notice; nothing *)
(* else refers to them.                                                    *)

(* Bug: a holdover that would fill the buffer is not moved whole. *)
FitsWithRoom(len, hold) == hold.len < N - len

Fits(len, hold) == hold.len <= N - len

(* Bug: the length shrinks, the position stays. *)
AdvanceLenOnly(hold, k) == Holdover(hold.buf, hold.pos, hold.len - k)

(* The holdover after its first k bytes are taken. *)
Advance(hold, k) == Holdover(hold.buf, hold.pos + k, hold.len - k)

KeepEmpty(len, hold) ==
    /\ hold = NoHoldover
    /\ inputBufferLen' = len
    /\ holdover' = NoHoldover
    /\ UNCHANGED inputBuffer

MoveAll(len, hold) ==
    /\ hold # NoHoldover
    /\ Fits(len, hold)
    /\ inputBuffer' = ArrayCopy(hold.buf, hold.pos, inputBuffer, len, hold.len)
    /\ inputBufferLen' = len + hold.len
    /\ holdover' = NoHoldover

ZeroCopy(len, hold) ==
    /\ hold # NoHoldover
    /\ ~Fits(len, hold)
    /\ len = 0
    /\ inputBufferLen' = len
    /\ holdover' = hold
    /\ UNCHANGED inputBuffer

TopUp(len, hold) ==
    LET remaining == N - len IN
    /\ hold # NoHoldover
    /\ ~Fits(len, hold)
    /\ len # 0
    /\ inputBuffer' = ArrayCopy(hold.buf, hold.pos, inputBuffer, len, remaining)
    /\ inputBufferLen' = len + remaining
    /\ holdover' = Advance(hold, remaining)

Compact(len, hold) ==
    \/ KeepEmpty(len, hold)
    \/ MoveAll(len, hold)
    \/ ZeroCopy(len, hold)
    \/ TopUp(len, hold)

-----------------------------------------------------------------------------
(* The calls *)

Init ==
    /\ inputBuffer = [i \in 0 .. N - 1 |-> 0]
    /\ inputBufferLen = 0
    /\ holdover = NoHoldover
    /\ op = "none"
    /\ emitting = FALSE
    /\ block = << >>
    /\ out = << >>
    /\ sinkClosed = FALSE
    /\ result = "ok"
    /\ accepted = 0
    /\ lost = {}
    /\ failures = 0

(* write(b, off, len) up to its loop. *)
Write(len) ==
    /\ op = "none"
    /\ holdover = NoHoldover
    /\ accepted + len <= MaxBytes
    /\ Compact(inputBufferLen, Holdover(NextBytes(len), 0, len))
    /\ accepted' = accepted + len
    /\ op' = "write"
    /\ UNCHANGED <<emitting, block, out, sinkClosed, result, lost, failures>>

(* "Cannot accept input while holdover is present." *)
RefuseWrite ==
    /\ op = "none"
    /\ holdover # NoHoldover
    /\ result' = "refused"
    /\ UNCHANGED <<buffers, op, emitting, block, out, sinkClosed,
                   accepted, lost, failures>>

(* flush() and close(), up to the loop they share. *)
Drain(call) ==
    /\ op = "none"
    /\ op' = call
    /\ UNCHANGED <<buffers, emitting, block, out, sinkClosed, result,
                   accepted, lost, failures>>

(* Bug: write tests only the buffer. *)
MoreWhenFull ==
    \/ op = "write" /\ inputBufferLen = N
    \/ op # "write" /\ (holdover # NoHoldover \/ inputBufferLen > 0)

(* Bug: flush stops where write does. *)
MoreLikeWrite == holdover # NoHoldover \/ inputBufferLen = N

(* The loop condition of the call. *)
MoreToCompress ==
    \/ holdover # NoHoldover
    \/ op = "write" /\ inputBufferLen = N
    \/ op # "write" /\ inputBufferLen > 0

(* compress(): take a block from the input buffer, a clone of it. *)
TakeInput ==
    /\ op # "none" /\ ~emitting /\ MoreToCompress
    /\ inputBufferLen > 0
    /\ block' = Slice(inputBuffer, 0, inputBufferLen)
    /\ Compact(0, holdover)
    /\ emitting' = TRUE
    /\ UNCHANGED <<op, out, sinkClosed, result, accepted, lost, failures>>

(* Bug: the rest of the holdover is dropped with the block. *)
TakeHoldoverOnce ==
    LET len == IF holdover.len < N THEN holdover.len ELSE N IN
    /\ op # "none" /\ ~emitting /\ MoreToCompress
    /\ inputBufferLen = 0
    /\ holdover # NoHoldover
    /\ block' = Slice(holdover.buf, holdover.pos, len)
    /\ Compact(0, NoHoldover)
    /\ emitting' = TRUE
    /\ UNCHANGED <<op, out, sinkClosed, result, accepted, lost, failures>>

(* compress(): take a block from the holdover. *)
TakeHoldover ==
    LET len == IF holdover.len < N THEN holdover.len ELSE N IN
    /\ op # "none" /\ ~emitting /\ MoreToCompress
    /\ inputBufferLen = 0
    /\ holdover # NoHoldover
    /\ block' = Slice(holdover.buf, holdover.pos, len)
    /\ Compact(0, Advance(holdover, len))
    /\ emitting' = TRUE
    /\ UNCHANGED <<op, out, sinkClosed, result, accepted, lost, failures>>

(* compress(): the block compressed and its frame written to the sink. *)
EmitBlock ==
    /\ emitting
    /\ emitting' = FALSE
    /\ block' = << >>
    /\ out' = Append(out, Frame(block, TRUE))
    /\ UNCHANGED <<buffers, op, sinkClosed, result, accepted, lost, failures>>

(* The call ends in an exception; what it has taken is gone. *)
Throw ==
    /\ failures < MaxFailures
    /\ failures' = failures + 1
    /\ emitting' = FALSE
    /\ block' = << >>
    /\ lost' = lost \cup {block[i] : i \in DOMAIN block}
    /\ op' = "none"
    /\ result' = "failed"
    /\ UNCHANGED <<buffers, sinkClosed, accepted>>

(* Bug: an error code puts the block back and leaves the loop running. *)
CompressorRetries ==
    /\ emitting
    /\ holdover = NoHoldover
    /\ inputBufferLen' = Len(block)
    /\ emitting' = FALSE
    /\ block' = << >>
    /\ UNCHANGED <<inputBuffer, holdover, op, out, sinkClosed, result,
                   accepted, lost, failures>>

(* compressor.compress returned an error code or ran out of a buffer. *)
CompressorFails ==
    /\ emitting
    /\ Throw
    /\ UNCHANGED out

(* writeBlock: the sink threw before the first byte of the frame, or with  *)
(* a part of the frame written.                                            *)
SinkFails ==
    /\ emitting
    /\ Throw
    /\ out' \in {out, Append(out, Frame(block, FALSE))}

(* The loop is done: write and flush return. *)
Return ==
    /\ op \in {"write", "flush"} /\ ~emitting /\ ~MoreToCompress
    /\ op' = "none"
    /\ result' = "ok"
    /\ UNCHANGED <<buffers, emitting, block, out, sinkClosed,
                   accepted, lost, failures>>

(* close() after its flush. *)
CloseSink ==
    /\ op = "close" /\ ~emitting /\ ~MoreToCompress
    /\ \/ /\ op' = "none"
          /\ result' = "ok"
          /\ sinkClosed' = TRUE
          /\ UNCHANGED <<buffers, emitting, block, accepted, lost, failures>>
       \/ Throw
    /\ UNCHANGED out

Call ==
    \/ \E len \in WriteLens : Write(len)
    \/ RefuseWrite
    \/ \E call \in {"flush", "close"} : Drain(call)

Step ==
    \/ TakeInput
    \/ TakeHoldover
    \/ EmitBlock
    \/ CompressorFails
    \/ SinkFails
    \/ Return
    \/ CloseSink

Next == Call \/ Step

(* A call runs in the thread of its caller until it returns; nothing makes *)
(* the caller make another one.                                            *)
Spec == Init /\ [][Next]_vars /\ WF_vars(Step)

-----------------------------------------------------------------------------
(* Properties *)

LenOf(hold) == IF hold = NoHoldover THEN 0 ELSE hold.len
HeldLen == LenOf(holdover)

(* Bytes in the two buffers, and bytes past them: in a frame, or lost. *)
Buffered == inputBufferLen + HeldLen
Dispatched == accepted - Buffered - Len(block)

IsHoldover(hold) ==
    \/ hold = NoHoldover
    \/ /\ hold = Holdover(hold.buf, hold.pos, hold.len)
       /\ hold.pos \in Nat
       /\ hold.len \in Nat
       /\ hold.buf \in Array(hold.pos + hold.len)

(* The types of the fields; positions and lengths stay inside the arrays. *)
TypeOK ==
    /\ inputBuffer \in Array(N)
    /\ inputBufferLen \in 0 .. N
    /\ IsHoldover(holdover)
    /\ op \in {"none", "write", "flush", "close"}
    /\ emitting \in BOOLEAN
    /\ block \in Seq(Nat)
    /\ out \in Seq([data : Seq(Nat), whole : BOOLEAN])
    /\ sinkClosed \in BOOLEAN
    /\ result \in {"ok", "refused", "failed"}
    /\ accepted \in Nat
    /\ lost \subseteq Nat
    /\ failures \in Nat

(* The accepted bytes that have not left lie in the block, then the input  *)
(* buffer, then the holdover, in the order in which they came: compact()   *)
(* neither drops, repeats nor overtakes a byte.                            *)
Layout ==
    LET d == Dispatched IN
    /\ Continues(block, 1, Len(block), d)
    /\ Continues(inputBuffer, 0, inputBufferLen, d + Len(block))
    /\ Continues(holdover.buf, holdover.pos, HeldLen, d + Len(block) + inputBufferLen)

(* testInvariants() and the assertion "Compressing less than one block of  *)
(* holdover": outside of write's first lines a holdover waits only behind  *)
(* a full input buffer, or is itself more than a block.                    *)
Compacted ==
    holdover # NoHoldover =>
        \/ inputBufferLen = N /\ holdover.len > 0
        \/ inputBufferLen = 0 /\ holdover.len > N

(* A block that is taken has 1..N bytes: a frame of length 0 would read as *)
(* the end of an lzop file.  One with fewer than N is never cut by write,  *)
(* and takes everything that is left.                                      *)
ShortBlockIsLast ==
    emitting =>
        /\ Len(block) \in 1 .. N
        /\ Len(block) < N => op # "write" /\ Buffered = 0

(* The frames hold the bytes in order, none twice, even around a failure.  *)
FramesInOrder ==
    \A i, j \in 1 .. Len(out) :
        \A x \in 1 .. Len(out[i].data), y \in 1 .. Len(out[j].data) :
            /\ out[i].data[x] \in 1 .. Dispatched
            /\ i < j \/ (i = j /\ x < y) => out[i].data[x] < out[j].data[y]

(* Every byte that has left is in a whole frame or in a block whose call   *)
(* threw; a caller that has seen no exception has lost nothing.            *)
Written == UNION {{out[i].data[x] : x \in DOMAIN out[i].data} :
                        i \in {k \in DOMAIN out : out[k].whole}}

NothingLostSilently ==
    /\ \A b \in 1 .. Dispatched : b \in Written \/ b \in lost
    /\ failures = 0 => lost = {}

(* "Cannot accept input while holdover is present" is never the answer to  *)
(* a caller none of whose calls failed, and such a caller leaves less than *)
(* a block behind between calls.                                           *)
CleanBetweenCalls ==
    failures = 0 =>
        /\ result # "refused"
        /\ op = "none" => Buffered < N /\ holdover = NoHoldover

(* flush and close that return normally leave every accepted byte in a     *)
(* frame or reported as lost, even when they follow a failed call; close   *)
(* closes the sink only then.                                              *)
DrainedReturn ==
    [][(op \in {"flush", "close"} /\ result' = "ok" /\ op' = "none")
            \/ sinkClosed' # sinkClosed
       => /\ op' = "none"
          /\ 1 .. accepted \subseteq Written \cup lost]_vars

(* Each turn of the loops takes a block out of the buffers: the measure    *)
(* that makes write, flush and close return.                               *)
LoopProgress == [][emitting' /\ ~emitting => Buffered' < Buffered]_vars

(* Each call returns or throws. *)
CallsEnd == op # "none" ~> op = "none"

(* Implements: the promise of BlockLog. *)
Abstract == INSTANCE BlockLog WITH dispatched <- Dispatched, log <- out

Refinement == Abstract!Spec

=============================================================================
