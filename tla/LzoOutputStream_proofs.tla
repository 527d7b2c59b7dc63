----------------------- MODULE LzoOutputStream_proofs -----------------------
(***************************************************************************)
(* Proofs about LzoOutputStream and LzopOutputStream, for every buffer     *)
(* size and every sequence of calls and failures, and about what an        *)
(* LzopInputStream reads from the file they leave (LzopRoundTrip).         *)
(*                                                                         *)
(* The inductive invariant is the layout of the bytes that have not left:  *)
(* block, input buffer and holdover, read one after the other, are the     *)
(* next bytes of the stream.  All of it rests on compact(), whose effect   *)
(* is stated once, in CompactMoves.                                        *)
(*                                                                         *)
(* Overriding writeBlock and close leaves the buffering as it was: each    *)
(* step of LzopOutputStream is one of LzoOutputStream or changes none of   *)
(* its fields.  What is proved of every LzoOutputStream therefore holds of *)
(* LzopOutputStream, through the same invariant.                           *)
(*                                                                         *)
(* What joins the two streams is LaidOut: a set of places in the file, the *)
(* bytes of the blocks up to each of them, and from each place a block or  *)
(* a null word that leads to the next.  The writer keeps it while it       *)
(* appends, and a reader that has not thrown stands on one of the places   *)
(* (Cursor) with the bytes up to there handed out or in its buffer.        *)
(***************************************************************************)
EXTENDS LzopRoundTrip, LzoFrames_proofs

(* A block exists while one is emitted, and only inside a call. *)
BlockInCall ==
    /\ emitting => op # "none"
    /\ ~emitting => block = << >>

IInv ==
    /\ TypeOK
    /\ Dispatched \in Nat
    /\ Layout
    /\ Compacted
    /\ ShortBlockIsLast
    /\ BlockInCall

-----------------------------------------------------------------------------
(* A copy that continues the stream which the first dstPos cells of an    *)
(* array hold gives an array whose first dstPos + len cells hold it.       *)
LEMMA CopyContinues ==
    ASSUME NEW dst \in Array(N), NEW src,
           NEW srcPos \in Nat, NEW dstPos \in Nat, NEW len \in Nat, NEW d \in Nat,
           dstPos + len <= N,
           Continues(dst, 0, dstPos, d),
           Continues(src, srcPos, len, d + dstPos)
    PROVE  /\ ArrayCopy(src, srcPos, dst, dstPos, len) \in Array(N)
           /\ Continues(ArrayCopy(src, srcPos, dst, dstPos, len), 0, dstPos + len, d)
<1> USE NAssumption
<1> DEFINE copy == ArrayCopy(src, srcPos, dst, dstPos, len)
<1>1. copy = [i \in 0 .. N - 1 |->
                IF i \in dstPos .. dstPos + len - 1 THEN src[srcPos + (i - dstPos)]
                                                    ELSE dst[i]]
  BY DEF ArrayCopy, Array
<1> HIDE DEF copy
<1>2. ASSUME NEW i \in dstPos .. dstPos + len - 1
      PROVE  src[srcPos + (i - dstPos)] = d + i + 1
  <2>1. i - dstPos \in 0 .. len - 1
    OBVIOUS
  <2>2. src[srcPos + (i - dstPos)] = d + dstPos + (i - dstPos) + 1
    BY <2>1 DEF Continues
  <2> QED
    BY <2>2
<1>3. copy \in Array(N)
  <2>1. \A i \in dstPos .. dstPos + len - 1 : src[srcPos + (i - dstPos)] \in Nat
    BY <1>2
  <2> QED
    BY <1>1, <2>1 DEF Array
<1>4. ASSUME NEW i \in 0 .. dstPos + len - 1
      PROVE  copy[i] = d + i + 1
  <2>1. i \in 0 .. N - 1
    OBVIOUS
  <2>2. CASE i \in dstPos .. dstPos + len - 1
    <3>1. copy[i] = src[srcPos + (i - dstPos)]
      BY <1>1, <2>1, <2>2
    <3> QED
      BY <1>2, <2>2, <3>1
  <2>3. CASE i \notin dstPos .. dstPos + len - 1
    <3>1. copy[i] = dst[i]
      BY <1>1, <2>1, <2>3
    <3>2. i \in 0 .. dstPos - 1
      BY <2>3
    <3> QED
      BY <3>1, <3>2 DEF Continues
  <2> QED
    BY <2>2, <2>3
<1> QED
  BY <1>3, <1>4 DEF copy, Continues

LEMMA HoldoverFields ==
    ASSUME NEW hold, IsHoldover(hold), hold # NoHoldover
    PROVE  /\ hold.pos \in Nat
           /\ hold.len \in Nat
           /\ hold.buf \in Array(hold.pos + hold.len)
  BY DEF IsHoldover

(* If a buffer of len bytes and a holdover continue the stream from byte d *)
(* on, they still do after compact(), which holds neither more nor less.   *)
LEMMA CompactMoves ==
    ASSUME NEW STATE len, NEW STATE hold, NEW STATE d,
           len \in 0 .. N, d \in Nat,
           inputBuffer \in Array(N),
           IsHoldover(hold),
           Continues(inputBuffer, 0, len, d),
           Continues(hold.buf, hold.pos, LenOf(hold), d + len),
           Compact(len, hold)
    PROVE  /\ inputBuffer' \in Array(N)
           /\ inputBufferLen' \in 0 .. N
           /\ IsHoldover(holdover')
           /\ Continues(inputBuffer', 0, inputBufferLen', d)
           /\ Continues(holdover'.buf, holdover'.pos, LenOf(holdover'), d + inputBufferLen')
           /\ inputBufferLen' + LenOf(holdover') = len + LenOf(hold)
           /\ Compacted'
<1> USE NAssumption
<1>1. CASE KeepEmpty(len, hold)
  BY <1>1 DEF KeepEmpty, Compacted, LenOf, IsHoldover
<1>2. CASE MoveAll(len, hold)
  <2>1. /\ hold # NoHoldover /\ hold.len <= N - len
        /\ inputBuffer' = ArrayCopy(hold.buf, hold.pos, inputBuffer, len, hold.len)
        /\ inputBufferLen' = len + hold.len
        /\ holdover' = NoHoldover
    BY <1>2 DEF MoveAll, Fits
  <2>2. hold.pos \in Nat /\ hold.len \in Nat
    BY <2>1, HoldoverFields
  <2>3. Continues(hold.buf, hold.pos, hold.len, d + len)
    BY <2>1 DEF LenOf
  <2>4. /\ inputBuffer' \in Array(N)
        /\ Continues(inputBuffer', 0, inputBufferLen', d)
    <3>1. len \in Nat /\ len + hold.len <= N
      BY <2>1, <2>2
    <3> QED
      BY <2>1, <2>2, <2>3, <3>1, CopyContinues
  <2>5. LenOf(holdover') = 0 /\ LenOf(hold) = hold.len
    BY <2>1 DEF LenOf
  <2>6. Continues(holdover'.buf, holdover'.pos, LenOf(holdover'), d + inputBufferLen')
    BY <2>5 DEF Continues
  <2>7. IsHoldover(holdover') /\ Compacted'
    BY <2>1 DEF IsHoldover, Compacted
  <2>8. inputBufferLen' \in 0 .. N
    BY <2>1, <2>2
  <2> QED
    BY <2>1, <2>2, <2>4, <2>5, <2>6, <2>7, <2>8
<1>3. CASE ZeroCopy(len, hold)
  <2>1. holdover' = hold /\ inputBufferLen' = 0 /\ len = 0 /\ inputBuffer' = inputBuffer
        /\ hold # NoHoldover
    BY <1>3 DEF ZeroCopy
  <2>2. hold.len > N
    <3>1. hold.len \in Nat
      BY <2>1, HoldoverFields
    <3>2. ~(hold.len <= N - len)
      BY <1>3 DEF ZeroCopy, Fits
    <3> QED
      BY <2>1, <3>1, <3>2
  <2> QED
    BY <2>1, <2>2 DEF Compacted, LenOf
<1>4. CASE TopUp(len, hold)
  <2> DEFINE remaining == N - len
             held == Holdover(hold.buf, hold.pos + remaining, hold.len - remaining)
  <2>1. hold # NoHoldover
    BY <1>4 DEF TopUp
  <2>2. hold.len > remaining
    BY <1>4, HoldoverFields DEF TopUp, Fits
  <2>3. /\ inputBuffer' = ArrayCopy(hold.buf, hold.pos, inputBuffer, len, remaining)
        /\ inputBufferLen' = len + remaining
        /\ holdover' = held
    BY <1>4 DEF TopUp, Advance
  <2>4. hold.pos \in Nat /\ hold.len \in Nat
    BY <2>1, HoldoverFields
  <2>5. hold.buf \in Array(hold.pos + hold.len)
    BY <2>1, HoldoverFields
  <2>6. remaining \in Nat /\ len \in Nat /\ len + remaining = N
    OBVIOUS
  <2>7. held.pos = hold.pos + remaining /\ held.len = hold.len - remaining
    BY DEF Holdover
  <2>8. held.buf = hold.buf
    BY DEF Holdover
  <2> HIDE DEF remaining, held
  <2>9. /\ held.pos \in Nat /\ held.len \in Nat /\ held.len > 0
        /\ held.pos + held.len = hold.pos + hold.len
    <3>1. held.pos \in Nat
      BY <2>4, <2>6, <2>7
    <3>2. held.len \in Nat /\ held.len > 0
      BY <2>2, <2>4, <2>6, <2>7
    <3>3. (hold.pos + remaining) + (hold.len - remaining) = hold.pos + hold.len
      BY <2>4, <2>6
    <3> QED
      BY <2>7, <3>1, <3>2, <3>3
  <2>10. held # NoHoldover
    BY <2>9 DEF NoHoldover
  <2>11. \A i \in 0 .. hold.len - 1 : hold.buf[hold.pos + i] = d + len + i + 1
    BY <2>1 DEF LenOf, Continues
  <2>12. /\ inputBuffer' \in Array(N)
         /\ Continues(inputBuffer', 0, inputBufferLen', d)
    <3>1. \A i \in 0 .. remaining - 1 : i \in 0 .. hold.len - 1
      BY <2>2, <2>4, <2>6
    <3>2. Continues(hold.buf, hold.pos, remaining, d + len)
      BY <2>11, <3>1 DEF Continues
    <3>3. len + remaining <= N
      BY <2>6
    <3> QED
      BY <2>3, <2>4, <2>6, <3>2, <3>3, CopyContinues
  <2>13. IsHoldover(held)
    <3>1. held.buf \in Array(held.pos + held.len)
      BY <2>5, <2>8, <2>9
    <3>2. held = Holdover(held.buf, held.pos, held.len)
      BY <2>7, <2>8 DEF held
    <3> QED
      BY <2>9, <3>1, <3>2 DEF IsHoldover
  <2>14. Continues(held.buf, held.pos, held.len, d + N)
    <3> SUFFICES ASSUME NEW i \in 0 .. held.len - 1
                 PROVE  held.buf[held.pos + i] = d + N + i + 1
      BY DEF Continues
    <3>1. remaining + i \in 0 .. hold.len - 1
      BY <2>2, <2>4, <2>6, <2>7
    <3>2. hold.buf[hold.pos + (remaining + i)] = d + len + (remaining + i) + 1
      BY <2>11, <3>1
    <3>3. held.pos + i = hold.pos + (remaining + i) /\ d + len + (remaining + i) = d + N + i
      BY <2>4, <2>6, <2>7
    <3> QED
      BY <2>8, <3>2, <3>3
  <2>15. LenOf(held) = held.len /\ LenOf(hold) = hold.len
    BY <2>1, <2>10 DEF LenOf
  <2>16. inputBufferLen' = N /\ inputBufferLen' + held.len = len + hold.len
    BY <2>3, <2>4, <2>6, <2>7
  <2>17. Compacted'
    BY <2>3, <2>9, <2>16 DEF Compacted
  <2> QED
    BY <2>3, <2>12, <2>13, <2>14, <2>15, <2>16, <2>17
<1> QED
  BY <1>1, <1>2, <1>3, <1>4 DEF Compact

-----------------------------------------------------------------------------
(* What the compressor reads of an array that continues the stream does.   *)
LEMMA SliceContinues ==
    ASSUME NEW array, NEW from \in Nat, NEW len \in Nat, NEW d \in Nat,
           Continues(array, from, len, d)
    PROVE  /\ Slice(array, from, len) \in Seq(Nat)
           /\ Len(Slice(array, from, len)) = len
           /\ Continues(Slice(array, from, len), 1, len, d)
<1>1. ASSUME NEW i \in 1 .. len
      PROVE  array[from + i - 1] = d + i
  <2>1. i - 1 \in 0 .. len - 1
    OBVIOUS
  <2>2. array[from + (i - 1)] = d + (i - 1) + 1
    BY <2>1 DEF Continues
  <2>3. from + (i - 1) = from + i - 1 /\ d + (i - 1) + 1 = d + i
    OBVIOUS
  <2> QED
    BY <2>2, <2>3
<1>2. Slice(array, from, len) = [i \in 1 .. len |-> d + i]
  BY <1>1 DEF Slice
<1>3. [i \in 1 .. len |-> d + i] \in Seq(Nat) /\ Len([i \in 1 .. len |-> d + i]) = len
  OBVIOUS
<1>4. Continues([i \in 1 .. len |-> d + i], 1, len, d)
  BY DEF Continues
<1> QED
  BY <1>2, <1>3, <1>4

LEMMA InitDispatched == Init => Dispatched = 0
<1>1. LenOf(NoHoldover) = 0 /\ Len(<< >>) = 0
  BY DEF LenOf
<1> QED
  BY <1>1 DEF Init, Buffered, HeldLen, Dispatched

LEMMA InitIInv == Init => IInv
<1> SUFFICES ASSUME Init PROVE IInv
  OBVIOUS
<1> USE NAssumption
<1>1. LenOf(NoHoldover) = 0 /\ Len(<< >>) = 0
  BY DEF LenOf
<1>2. Dispatched = 0
  BY InitDispatched
<1>3. TypeOK
  <2>1. inputBuffer \in Array(N) /\ IsHoldover(holdover)
    BY DEF Init, IsHoldover, Array
  <2>2. block \in Seq(Nat) /\ out \in Seq([data : Seq(Nat), whole : BOOLEAN])
    BY DEF Init
  <2> QED
    BY <2>1, <2>2 DEF Init, TypeOK
<1>4. Layout
  BY <1>1 DEF Init, Layout, Continues, HeldLen
<1> QED
  BY <1>2, <1>3, <1>4 DEF Init, IInv, Compacted, ShortBlockIsLast, BlockInCall

LEMMA WriteIInv == ASSUME IInv, NEW len \in WriteLens, Write(len)
    PROVE  IInv' /\ Dispatched' = Dispatched
<1> USE NAssumption, BoundsAssumption
<1> DEFINE hold == Holdover(NextBytes(len), 0, len)
           d == accepted - inputBufferLen
<1>1. /\ holdover = NoHoldover /\ block = << >> /\ ~emitting /\ Len(block) = 0
      /\ len \in Nat /\ accepted \in Nat /\ inputBufferLen \in 0 .. N
      /\ inputBuffer \in Array(N)
  BY DEF IInv, TypeOK, BlockInCall, Write
<1>2. d = Dispatched /\ d \in Nat /\ d + inputBufferLen = accepted
  BY <1>1 DEF IInv, Dispatched, Buffered, HeldLen, LenOf
<1>3. Continues(inputBuffer, 0, inputBufferLen, d)
  <2>1. Continues(inputBuffer, 0, inputBufferLen, Dispatched + Len(block))
    BY DEF IInv, Layout
  <2>2. Dispatched + Len(block) = d
    BY <1>1, <1>2
  <2> QED
    BY <2>1, <2>2
<1>4. /\ hold.buf = NextBytes(len) /\ hold.pos = 0 /\ hold.len = len
      /\ hold # NoHoldover
  BY DEF Holdover, NoHoldover
<1>5. LenOf(hold) = len
  BY <1>4 DEF LenOf
<1>6. IsHoldover(hold)
  <2>1. NextBytes(len) \in Array(0 + len)
    BY <1>1 DEF NextBytes, Array
  <2> QED
    BY <1>1, <1>4, <2>1 DEF IsHoldover
<1>7. Continues(hold.buf, hold.pos, LenOf(hold), d + inputBufferLen)
  BY <1>1, <1>2, <1>4, <1>5 DEF Continues, NextBytes
<1>8. Compact(inputBufferLen, hold)
  BY DEF Write
<1> HIDE DEF hold, d
<1>9. /\ inputBuffer' \in Array(N) /\ inputBufferLen' \in 0 .. N /\ IsHoldover(holdover')
      /\ Continues(inputBuffer', 0, inputBufferLen', d)
      /\ Continues(holdover'.buf, holdover'.pos, LenOf(holdover'), d + inputBufferLen')
      /\ inputBufferLen' + LenOf(holdover') = inputBufferLen + len
      /\ Compacted'
  BY <1>1, <1>2, <1>3, <1>5, <1>6, <1>7, <1>8, CompactMoves
<1>10. /\ accepted' = accepted + len /\ op' = "write"
       /\ UNCHANGED <<emitting, block, out, sinkClosed, result, lost, failures>>
  BY DEF Write
<1>11. LenOf(holdover') \in Nat
  BY <1>9, HoldoverFields DEF LenOf
<1>12. Dispatched' = d
  <2>1. Len(block') = 0
    BY <1>1, <1>10
  <2>2. inputBufferLen' + LenOf(holdover') = inputBufferLen + len
    BY <1>9
  <2>3. Dispatched' = (accepted + len) - (inputBufferLen + len) - 0
    BY <1>10, <2>1, <2>2 DEF Dispatched, Buffered, HeldLen
  <2> QED
    BY <1>1, <2>3 DEF d
<1>13. Layout'
  <2>1. block' = block /\ Len(block') = 0 /\ Dispatched' + Len(block') = d
    BY <1>1, <1>2, <1>10, <1>12
  <2>2. Continues(block', 1, Len(block'), Dispatched')
    BY <2>1 DEF Continues
  <2> QED
    BY <1>9, <2>1, <2>2 DEF Layout, HeldLen
<1>14. TypeOK'
  BY <1>1, <1>9, <1>10 DEF IInv, TypeOK
<1>15. ShortBlockIsLast' /\ BlockInCall'
  BY <1>1, <1>10 DEF ShortBlockIsLast, BlockInCall
<1> QED
  BY <1>2, <1>9, <1>12, <1>13, <1>14, <1>15 DEF IInv

LEMMA TakeInputIInv == ASSUME IInv, TakeInput
    PROVE  IInv' /\ Dispatched' = Dispatched
<1> USE NAssumption
<1> DEFINE d == Dispatched
           len == inputBufferLen
<1>1. /\ block = << >> /\ Len(block) = 0 /\ op # "none"
      /\ len \in 1 .. N /\ accepted \in Nat
      /\ inputBuffer \in Array(N) /\ IsHoldover(holdover)
  BY DEF IInv, TypeOK, BlockInCall, TakeInput
<1>2. HeldLen \in Nat
  BY <1>1, HoldoverFields DEF HeldLen, LenOf
<1>3. d \in Nat /\ d = accepted - (len + HeldLen) - 0
  BY <1>1 DEF IInv, Dispatched, Buffered
<1>4. /\ Continues(inputBuffer, 0, len, d)
      /\ Continues(holdover.buf, holdover.pos, LenOf(holdover), d + len)
  <2>1. /\ Continues(inputBuffer, 0, len, Dispatched + Len(block))
        /\ Continues(holdover.buf, holdover.pos, HeldLen, Dispatched + Len(block) + len)
    BY DEF IInv, Layout
  <2>2. Dispatched + Len(block) = d
    BY <1>1, <1>3
  <2> QED
    BY <2>1, <2>2 DEF HeldLen
<1>5. /\ block' = Slice(inputBuffer, 0, len)
      /\ Compact(0, holdover)
      /\ emitting' = TRUE
      /\ UNCHANGED <<op, out, sinkClosed, result, accepted, lost, failures>>
  BY DEF TakeInput
<1> HIDE DEF d, len
<1>6. block' \in Seq(Nat) /\ Len(block') = len /\ Continues(block', 1, len, d)
  <2>1. len \in Nat
    BY <1>1
  <2> QED
    BY <1>3, <1>4, <1>5, <2>1, SliceContinues
<1>7. /\ inputBuffer' \in Array(N) /\ inputBufferLen' \in 0 .. N /\ IsHoldover(holdover')
      /\ Continues(inputBuffer', 0, inputBufferLen', d + len)
      /\ Continues(holdover'.buf, holdover'.pos, LenOf(holdover'), d + len + inputBufferLen')
      /\ inputBufferLen' + LenOf(holdover') = 0 + LenOf(holdover)
      /\ Compacted'
  <2>1. d + len \in Nat /\ (d + len) + 0 = d + len /\ 0 \in 0 .. N
    BY <1>1, <1>3
  <2>2. Continues(inputBuffer, 0, 0, d + len)
    BY DEF Continues
  <2>3. Continues(holdover.buf, holdover.pos, LenOf(holdover), (d + len) + 0)
    BY <1>4, <2>1
  <2> QED
    BY <1>1, <1>5, <2>1, <2>2, <2>3, CompactMoves
<1>8. LenOf(holdover') \in Nat
  BY <1>7, HoldoverFields DEF LenOf
<1>9. Buffered' = HeldLen
  BY <1>2, <1>7, <1>8 DEF Buffered, HeldLen
<1>10. Dispatched' = d
  <2>1. Dispatched' = accepted - HeldLen - len
    BY <1>5, <1>6, <1>9 DEF Dispatched
  <2> QED
    BY <1>1, <1>2, <1>3, <2>1
<1>11. Layout'
  BY <1>6, <1>7, <1>10 DEF Layout, HeldLen
<1>12. TypeOK'
  BY <1>1, <1>5, <1>6, <1>7 DEF IInv, TypeOK
<1>13. ShortBlockIsLast'
  <2>1. ASSUME len < N PROVE op # "write" /\ HeldLen = 0
    <3>1. holdover = NoHoldover
      BY <1>1, <2>1 DEF IInv, Compacted, len
    <3> QED
      BY <1>1, <2>1, <3>1 DEF TakeInput, MoreToCompress, HeldLen, LenOf, len
  <2> QED
    BY <1>1, <1>5, <1>6, <1>9, <2>1 DEF ShortBlockIsLast
<1> QED
  BY <1>1, <1>3, <1>5, <1>7, <1>10, <1>11, <1>12, <1>13 DEF IInv, BlockInCall, d

LEMMA TakeHoldoverIInv == ASSUME IInv, TakeHoldover
    PROVE  IInv' /\ Dispatched' = Dispatched
<1> USE NAssumption
<1> DEFINE d == Dispatched
           hold == Holdover(holdover.buf, holdover.pos + N, holdover.len - N)
<1>1. /\ block = << >> /\ Len(block) = 0 /\ op # "none"
      /\ inputBufferLen = 0 /\ accepted \in Nat /\ holdover # NoHoldover
      /\ inputBuffer \in Array(N) /\ IsHoldover(holdover)
  BY DEF IInv, TypeOK, BlockInCall, TakeHoldover
<1>2. holdover.pos \in Nat /\ holdover.len \in Nat
  BY <1>1, HoldoverFields
<1>3. holdover.buf \in Array(holdover.pos + holdover.len)
  BY <1>1, HoldoverFields
<1>4. holdover.len > N
  BY <1>1 DEF IInv, Compacted
<1>5. HeldLen = holdover.len
  BY <1>1 DEF HeldLen, LenOf
<1>6. d \in Nat /\ d = accepted - holdover.len
  <2>1. Dispatched = accepted - (0 + holdover.len) - 0
    BY <1>1, <1>5 DEF Dispatched, Buffered
  <2> QED
    BY <1>1, <1>2, <2>1 DEF IInv
<1>7. \A i \in 0 .. holdover.len - 1 : holdover.buf[holdover.pos + i] = d + i + 1
  <2>1. Continues(holdover.buf, holdover.pos, HeldLen, Dispatched + Len(block) + inputBufferLen)
    BY DEF IInv, Layout
  <2>2. Dispatched + Len(block) + inputBufferLen = d
    BY <1>1, <1>6
  <2> QED
    BY <1>5, <2>1, <2>2 DEF Continues
<1>8. /\ block' = Slice(holdover.buf, holdover.pos, N)
      /\ Compact(0, hold)
      /\ emitting' = TRUE
      /\ UNCHANGED <<op, out, sinkClosed, result, accepted, lost, failures>>
  <2>1. (IF holdover.len < N THEN holdover.len ELSE N) = N
    BY <1>2, <1>4
  <2> QED
    BY <2>1 DEF TakeHoldover, Advance
<1>9. hold.pos = holdover.pos + N /\ hold.len = holdover.len - N
  BY DEF Holdover
<1>10. hold.buf = holdover.buf
  BY DEF Holdover
<1>11. hold = Holdover(hold.buf, hold.pos, hold.len)
  BY <1>9, <1>10
<1> HIDE DEF d, hold
<1>12. hold.pos \in Nat /\ hold.len \in Nat
  BY <1>2, <1>4, <1>9
<1>13. hold.pos + hold.len = holdover.pos + holdover.len
  BY <1>2, <1>9
<1>14. hold # NoHoldover
  BY <1>12 DEF NoHoldover
<1>15. IsHoldover(hold)
  BY <1>3, <1>10, <1>11, <1>12, <1>13 DEF IsHoldover
<1>16. block' \in Seq(Nat) /\ Len(block') = N /\ Continues(block', 1, N, d)
  <2>1. \A i \in 0 .. N - 1 : i \in 0 .. holdover.len - 1
    BY <1>2, <1>4
  <2>2. Continues(holdover.buf, holdover.pos, N, d)
    BY <1>7, <2>1 DEF Continues
  <2> QED
    BY <1>2, <1>6, <1>8, <2>2, SliceContinues
<1>17. Continues(hold.buf, hold.pos, hold.len, d + N)
  <2> SUFFICES ASSUME NEW i \in 0 .. hold.len - 1
               PROVE  hold.buf[hold.pos + i] = d + N + i + 1
    BY DEF Continues
  <2>1. N + i \in 0 .. holdover.len - 1
    BY <1>2, <1>4, <1>9
  <2>2. holdover.buf[holdover.pos + (N + i)] = d + (N + i) + 1
    BY <1>7, <2>1
  <2>3. hold.pos + i = holdover.pos + (N + i) /\ d + (N + i) = d + N + i
    BY <1>2, <1>6, <1>9
  <2> QED
    BY <1>10, <2>2, <2>3
<1>18. LenOf(hold) = hold.len
  BY <1>14 DEF LenOf
<1>19. /\ inputBuffer' \in Array(N) /\ inputBufferLen' \in 0 .. N /\ IsHoldover(holdover')
       /\ Continues(inputBuffer', 0, inputBufferLen', d + N)
       /\ Continues(holdover'.buf, holdover'.pos, LenOf(holdover'), d + N + inputBufferLen')
       /\ inputBufferLen' + LenOf(holdover') = 0 + LenOf(hold)
       /\ Compacted'
  <2>1. d + N \in Nat /\ (d + N) + 0 = d + N /\ 0 \in 0 .. N
    BY <1>6
  <2>2. Continues(inputBuffer, 0, 0, d + N)
    BY DEF Continues
  <2>3. Continues(hold.buf, hold.pos, LenOf(hold), (d + N) + 0)
    BY <1>17, <1>18, <2>1
  <2> QED
    BY <1>1, <1>8, <1>15, <2>1, <2>2, <2>3, CompactMoves
<1>20. Buffered' = holdover.len - N
  <2>1. Buffered' = 0 + hold.len
    BY <1>18, <1>19 DEF Buffered, HeldLen
  <2> QED
    BY <1>9, <1>12, <2>1
<1>21. Dispatched' = d
  <2>1. Dispatched' = accepted - (holdover.len - N) - N
    BY <1>8, <1>16, <1>20 DEF Dispatched
  <2> QED
    BY <1>1, <1>2, <1>6, <2>1
<1>22. Layout'
  BY <1>16, <1>19, <1>21 DEF Layout, HeldLen
<1>23. TypeOK'
  BY <1>1, <1>8, <1>16, <1>19 DEF IInv, TypeOK
<1> QED
  BY <1>1, <1>6, <1>8, <1>16, <1>19, <1>21, <1>22, <1>23
     DEF IInv, BlockInCall, ShortBlockIsLast, d

(* When the block leaves, to a frame or to nowhere, the buffers are the    *)
(* continuation of the stream after it.                                    *)
LEMMA BlockLeaves ==
    ASSUME IInv, block' = << >>, UNCHANGED <<buffers, accepted>>
    PROVE  /\ Dispatched' = Dispatched + Len(block)
           /\ Dispatched' \in Nat
           /\ Layout'
           /\ Compacted'
<1> DEFINE d == Dispatched
<1>1. /\ Len(block) \in Nat /\ inputBufferLen \in Nat /\ HeldLen \in Nat
      /\ accepted \in Nat /\ d \in Nat /\ Len(block') = 0
  BY HoldoverFields DEF IInv, TypeOK, HeldLen, LenOf
<1>2. UNCHANGED <<inputBuffer, inputBufferLen, holdover, accepted>>
  BY DEF buffers
<1>3. Buffered' = Buffered /\ Buffered \in Nat /\ HeldLen' = HeldLen
  BY <1>1, <1>2 DEF Buffered, HeldLen
<1>4. Dispatched' = d + Len(block)
  BY <1>1, <1>2, <1>3 DEF Dispatched
<1>5. /\ Continues(inputBuffer, 0, inputBufferLen, d + Len(block))
      /\ Continues(holdover.buf, holdover.pos, HeldLen, d + Len(block) + inputBufferLen)
  BY DEF IInv, Layout
<1>6. Continues(block', 1, Len(block'), Dispatched')
  BY <1>1 DEF Continues
<1>7. Layout'
  <2> HIDE DEF d
  <2>1. (d + Len(block)) + 0 = d + Len(block)
    BY <1>1
  <2> QED
    BY <1>1, <1>2, <1>3, <1>4, <1>5, <1>6, <2>1 DEF Layout
<1>8. Compacted'
  BY <1>2 DEF IInv, Compacted
<1> QED
  BY <1>1, <1>4, <1>7, <1>8

LEMMA FrameIsFrame ==
    ASSUME NEW data \in Seq(Nat), NEW whole \in BOOLEAN,
           NEW log \in Seq([data : Seq(Nat), whole : BOOLEAN])
    PROVE  Append(log, Frame(data, whole)) \in Seq([data : Seq(Nat), whole : BOOLEAN])
<1>1. Frame(data, whole) \in [data : Seq(Nat), whole : BOOLEAN]
  BY DEF Frame
<1> QED
  BY <1>1

LEMMA EmitBlockIInv == ASSUME IInv, EmitBlock PROVE IInv'
<1>1. /\ emitting' = FALSE /\ block' = << >> /\ out' = Append(out, Frame(block, TRUE))
      /\ UNCHANGED <<buffers, op, sinkClosed, result, accepted, lost, failures>>
  BY DEF EmitBlock
<1>2. TypeOK'
  <2>1. out' \in Seq([data : Seq(Nat), whole : BOOLEAN])
    BY <1>1, FrameIsFrame DEF IInv, TypeOK
  <2>2. block' \in Seq(Nat)
    BY <1>1
  <2> QED
    BY <1>1, <2>1, <2>2 DEF IInv, TypeOK, buffers
<1> QED
  BY <1>1, <1>2, BlockLeaves DEF IInv, ShortBlockIsLast, BlockInCall

LEMMA ThrowIInv ==
    ASSUME IInv, Throw,
           out' \in {out, Append(out, Frame(block, FALSE))}
    PROVE  IInv'
<1>1. /\ failures' = failures + 1 /\ emitting' = FALSE /\ block' = << >>
      /\ lost' = lost \cup {block[i] : i \in DOMAIN block}
      /\ op' = "none" /\ result' = "failed"
      /\ UNCHANGED <<buffers, sinkClosed, accepted>>
  BY DEF Throw
<1>2. TypeOK'
  <2>1. out' \in Seq([data : Seq(Nat), whole : BOOLEAN])
    BY <1>1, FrameIsFrame DEF IInv, TypeOK
  <2>2. block' \in Seq(Nat)
    BY <1>1
  <2>3. lost' \subseteq Nat
    <3>1. \A i \in DOMAIN block : block[i] \in Nat
      BY DEF IInv, TypeOK
    <3> QED
      BY <1>1, <3>1 DEF IInv, TypeOK
  <2>4. failures' \in Nat
    BY <1>1 DEF IInv, TypeOK
  <2> QED
    BY <1>1, <2>1, <2>2, <2>3, <2>4 DEF IInv, TypeOK, buffers
<1> QED
  BY <1>1, <1>2, BlockLeaves DEF IInv, ShortBlockIsLast, BlockInCall

(* The calls and returns that move no byte. *)
LEMMA QuietIInv ==
    ASSUME IInv, UNCHANGED <<buffers, emitting, block, out, accepted, lost, failures>>,
           sinkClosed' \in BOOLEAN, result' \in {"ok", "refused", "failed"},
           op' \in {"none", "write", "flush", "close"}, ~emitting
    PROVE  IInv'
<1>1. UNCHANGED <<Dispatched, HeldLen, Buffered>>
  BY DEF Dispatched, HeldLen, Buffered, buffers
<1>2. Layout' /\ Compacted' /\ Dispatched' \in Nat
  BY <1>1 DEF IInv, Layout, Compacted, buffers
<1>3. TypeOK'
  BY DEF IInv, TypeOK, buffers
<1> QED
  BY <1>2, <1>3 DEF IInv, ShortBlockIsLast, BlockInCall

LEMMA StutterIInv == ASSUME IInv, UNCHANGED vars PROVE IInv'
<1>1. UNCHANGED <<Dispatched, HeldLen, Buffered>>
  BY DEF Dispatched, HeldLen, Buffered, vars, buffers
<1>2. Layout' /\ Compacted' /\ Dispatched' \in Nat
  BY <1>1 DEF IInv, Layout, Compacted, vars, buffers
<1>3. TypeOK'
  BY DEF IInv, TypeOK, vars, buffers
<1> QED
  BY <1>1, <1>2, <1>3 DEF IInv, ShortBlockIsLast, BlockInCall, vars

LEMMA NextIInv == IInv /\ [Next]_vars => IInv'
<1> SUFFICES ASSUME IInv, [Next]_vars PROVE IInv'
  OBVIOUS
<1>1. ASSUME NEW len \in WriteLens, Write(len) PROVE IInv'
  BY <1>1, WriteIInv
<1>2. CASE RefuseWrite
  BY <1>2, QuietIInv DEF RefuseWrite, IInv, TypeOK, BlockInCall
<1>3. ASSUME NEW call \in {"flush", "close"}, Drain(call) PROVE IInv'
  BY <1>3, QuietIInv DEF Drain, IInv, TypeOK, BlockInCall
<1>4. CASE TakeInput
  BY <1>4, TakeInputIInv
<1>5. CASE TakeHoldover
  BY <1>5, TakeHoldoverIInv
<1>6. CASE EmitBlock
  BY <1>6, EmitBlockIInv
<1>7. CASE CompressorFails
  BY <1>7, ThrowIInv DEF CompressorFails
<1>8. CASE SinkFails
  BY <1>8, ThrowIInv DEF SinkFails
<1>9. CASE Return
  BY <1>9, QuietIInv DEF Return, IInv, TypeOK
<1>10. CASE CloseSink
  <2>1. CASE Throw
    BY <1>10, <2>1, ThrowIInv DEF CloseSink
  <2>2. CASE ~Throw
    BY <1>10, <2>2, QuietIInv DEF CloseSink, IInv, TypeOK
  <2> QED
    BY <2>1, <2>2
<1>11. CASE UNCHANGED vars
  BY <1>11, StutterIInv
<1> QED
  BY <1>1, <1>2, <1>3, <1>4, <1>5, <1>6, <1>7, <1>8, <1>9, <1>10, <1>11
     DEF Next, Call, Step

THEOREM Invariance == Spec => []IInv
BY InitIInv, NextIInv, PTL DEF Spec

(* In every reachable state of a stream of any buffer size the fields have *)
(* their types and every position is inside its array.                     *)
THEOREM TypeCorrect == Spec => []TypeOK
BY Invariance, PTL DEF IInv

(* Whatever the lengths of the writes and whichever calls fail, compact()  *)
(* and the two ways of taking a block keep the bytes in the order in which *)
(* they were written, none dropped and none repeated.                      *)
THEOREM BuffersInOrder == Spec => []Layout
BY Invariance, PTL DEF IInv

(* testInvariants() and the full-block assertion never fire, not even in a *)
(* stream that is used again after an exception.                           *)
THEOREM AssertionsHold == Spec => []Compacted
BY Invariance, PTL DEF IInv

(* No frame is empty or larger than the buffer, and only the last block of *)
(* a flush or close is shorter than the buffer.                            *)
THEOREM BlockSizes == Spec => []ShortBlockIsLast
BY Invariance, PTL DEF IInv

-----------------------------------------------------------------------------
(* The frames.  Each step either leaves the log and what has left the      *)
(* buffers alone, or moves one block past them.                            *)

Keeps == UNCHANGED <<out, Dispatched, lost, failures>>

Emits ==
    /\ out' = Append(out, Frame(block, TRUE))
    /\ UNCHANGED <<lost, failures>>

Loses ==
    /\ out' \in {out, Append(out, Frame(block, FALSE))}
    /\ lost' = lost \cup {block[i] : i \in DOMAIN block}
    /\ failures' = failures + 1

Moves ==
    /\ Dispatched' = Dispatched + Len(block)
    /\ accepted' = accepted

LEMMA StepKinds ==
    ASSUME IInv, [Next]_vars
    PROVE  \/ Keeps /\ accepted' \in Nat /\ accepted' >= accepted
           \/ Moves /\ Emits /\ Len(block) \in 1 .. N
           \/ Moves /\ Loses /\ (Len(block) \in 1 .. N \/ (Len(block) = 0 /\ out' = out))
<1> USE NAssumption, BoundsAssumption
<1>1. /\ accepted \in Nat /\ accepted >= accepted
      /\ Len(block) \in 0 .. N
      /\ emitting => Len(block) \in 1 .. N
      /\ ~emitting => Len(block) = 0
  BY DEF IInv, TypeOK, ShortBlockIsLast, BlockInCall
<1>2. ASSUME NEW len \in WriteLens, Write(len)
      PROVE  Keeps /\ accepted' \in Nat /\ accepted' >= accepted
  <2>1. Dispatched' = Dispatched
    BY <1>2, WriteIInv
  <2>2. len \in Nat /\ accepted' = accepted + len
    BY <1>2 DEF Write
  <2> QED
    BY <1>1, <1>2, <2>1, <2>2 DEF Write, Keeps
<1>3. ASSUME UNCHANGED <<buffers, block, out, accepted, lost, failures>>
      PROVE  Keeps /\ accepted' \in Nat /\ accepted' >= accepted
  BY <1>1, <1>3 DEF Keeps, Dispatched, Buffered, HeldLen, buffers
<1>4. ASSUME Throw, out' \in {out, Append(out, Frame(block, FALSE))}
      PROVE  Moves /\ Loses
  BY <1>4, BlockLeaves DEF Throw, Loses, Moves
<1>5. CASE RefuseWrite
  BY <1>3, <1>5 DEF RefuseWrite
<1>6. ASSUME NEW call \in {"flush", "close"}, Drain(call)
      PROVE  Keeps /\ accepted' \in Nat /\ accepted' >= accepted
  BY <1>3, <1>6 DEF Drain
<1>7. CASE TakeInput
  BY <1>1, <1>7, TakeInputIInv DEF TakeInput, Keeps
<1>8. CASE TakeHoldover
  BY <1>1, <1>8, TakeHoldoverIInv DEF TakeHoldover, Keeps
<1>9. CASE EmitBlock
  BY <1>1, <1>9, BlockLeaves DEF EmitBlock, Emits, Moves
<1>10. CASE CompressorFails
  BY <1>1, <1>4, <1>10 DEF CompressorFails
<1>11. CASE SinkFails
  <2>1. Moves /\ Loses
    BY <1>4, <1>11 DEF SinkFails
  <2>2. Len(block) \in 1 .. N
    BY <1>1, <1>11 DEF SinkFails
  <2> QED
    BY <2>1, <2>2
<1>12. CASE Return
  BY <1>3, <1>12 DEF Return
<1>13. CASE CloseSink
  <2>1. CASE Throw
    BY <1>1, <1>4, <1>13, <2>1 DEF CloseSink
  <2>2. CASE ~Throw
    BY <1>3, <1>13, <2>2 DEF CloseSink
  <2> QED
    BY <2>1, <2>2
<1>14. CASE UNCHANGED vars
  BY <1>3, <1>14 DEF vars
<1> QED
  BY <1>2, <1>5, <1>6, <1>7, <1>8, <1>9, <1>10, <1>11, <1>12, <1>13, <1>14
     DEF Next, Call, Step

LEMMA BlockBytes ==
    ASSUME IInv
    PROVE  /\ block \in Seq(Nat)
           /\ Dispatched \in Nat
           /\ \A x \in 1 .. Len(block) : block[x] = Dispatched + x
<1>1. block \in Seq(Nat) /\ Dispatched \in Nat
  BY DEF IInv, TypeOK
<1>2. ASSUME NEW x \in 1 .. Len(block) PROVE block[x] = Dispatched + x
  <2>1. x - 1 \in 0 .. Len(block) - 1
    BY <1>1
  <2>2. block[1 + (x - 1)] = Dispatched + (x - 1) + 1
    BY <2>1 DEF IInv, Layout, Continues
  <2>3. 1 + (x - 1) = x /\ Dispatched + (x - 1) + 1 = Dispatched + x
    BY <1>1
  <2> QED
    BY <2>2, <2>3
<1> QED
  BY <1>1, <1>2

LEMMA OutTyped ==
    ASSUME IInv
    PROVE  /\ out \in Seq([data : Seq(Nat), whole : BOOLEAN])
           /\ Len(out) \in Nat
           /\ \A i \in 1 .. Len(out) : out[i].data \in Seq(Nat)
<1>1. out \in Seq([data : Seq(Nat), whole : BOOLEAN])
  BY DEF IInv, TypeOK
<1>2. ASSUME NEW i \in 1 .. Len(out) PROVE out[i].data \in Seq(Nat)
  <2> DEFINE F == [data : Seq(Nat), whole : BOOLEAN]
  <2> HIDE DEF F
  <2>1. out[i] \in F
    <3>1. out \in Seq(F)
      BY <1>1 DEF F
    <3> QED
      BY <3>1
  <2> QED
    BY <2>1 DEF F
<1> QED
  BY <1>1, <1>2

LEMMA AppendFrame ==
    ASSUME IInv, NEW w \in BOOLEAN, out' = Append(out, Frame(block, w))
    PROVE  /\ Len(out') = Len(out) + 1
           /\ DOMAIN out' = 1 .. Len(out) + 1
           /\ \A i \in 1 .. Len(out) : out'[i] = out[i]
           /\ out'[Len(out) + 1].data = block
           /\ out'[Len(out) + 1].whole = w
<1>1. out'[Len(out) + 1] = Frame(block, w)
  BY OutTyped
<1> QED
  BY <1>1, OutTyped DEF Frame

LEMMA AppendInOrder ==
    ASSUME IInv, FramesInOrder, Moves,
           NEW w \in BOOLEAN, out' = Append(out, Frame(block, w))
    PROVE  FramesInOrder'
<1> DEFINE last == Len(out) + 1
<1> SUFFICES ASSUME NEW i \in 1 .. Len(out'), NEW j \in 1 .. Len(out'),
                    NEW x \in 1 .. Len(out'[i].data), NEW y \in 1 .. Len(out'[j].data)
             PROVE  /\ out'[i].data[x] \in 1 .. Dispatched'
                    /\ i < j \/ (i = j /\ x < y) => out'[i].data[x] < out'[j].data[y]
  BY DEF FramesInOrder
<1>1. i \in 1 .. last /\ j \in 1 .. last /\ Len(out) \in Nat
  BY AppendFrame, OutTyped
<1>2. /\ Len(block) \in Nat /\ Dispatched \in Nat
      /\ Dispatched' = Dispatched + Len(block)
  BY BlockBytes DEF Moves
<1>3. ASSUME NEW k \in 1 .. Len(out), NEW z \in 1 .. Len(out[k].data)
      PROVE  out[k].data[z] \in 1 .. Dispatched
  BY <1>3 DEF FramesInOrder
<1>4. \A b \in 1 .. Dispatched, z \in 1 .. Len(block) :
            b \in 1 .. Dispatched' /\ b < Dispatched + z
  BY <1>2
<1>5. \A b \in 1 .. Dispatched : b \in 1 .. Dispatched'
  BY <1>2
<1>6. CASE i = last
  <2>1. out'[i].data = block
    BY <1>6, AppendFrame
  <2>2. x \in 1 .. Len(block) /\ out'[i].data[x] = Dispatched + x
    BY <2>1, BlockBytes
  <2>3. ASSUME i = j, x < y PROVE out'[j].data[y] = Dispatched + y /\ y \in 1 .. Len(block)
    BY <2>1, <2>3, BlockBytes
  <2>4. out'[i].data[x] \in 1 .. Dispatched'
    BY <1>2, <2>2
  <2>5. ~(i < j)
    BY <1>1, <1>6
  <2>6. ASSUME i = j, x < y PROVE out'[i].data[x] < out'[j].data[y]
    BY <1>2, <2>2, <2>3, <2>6
  <2> QED
    BY <2>4, <2>5, <2>6
<1>7. CASE i # last
  <2>1. i \in 1 .. Len(out)
    BY <1>1, <1>7
  <2>2. out'[i] = out[i] /\ x \in 1 .. Len(out[i].data)
    BY <2>1, AppendFrame
  <2>3. out'[i].data[x] \in 1 .. Dispatched
    BY <1>3, <2>1, <2>2
  <2>4. CASE j = last
    <3>1. y \in 1 .. Len(block) /\ out'[j].data[y] = Dispatched + y
      BY <2>4, AppendFrame, BlockBytes
    <3>2. out'[i].data[x] \in 1 .. Dispatched' /\ out'[i].data[x] < Dispatched + y
      BY <1>4, <2>3, <3>1
    <3> QED
      BY <3>1, <3>2
  <2>5. CASE j # last
    <3>1. j \in 1 .. Len(out)
      BY <1>1, <2>5
    <3>2. out'[j] = out[j] /\ y \in 1 .. Len(out[j].data)
      BY <3>1, AppendFrame
    <3>3. i < j \/ (i = j /\ x < y) => out[i].data[x] < out[j].data[y]
      BY <2>1, <2>2, <3>1, <3>2 DEF FramesInOrder
    <3>4. out'[i].data[x] \in 1 .. Dispatched'
      BY <1>5, <2>3
    <3> QED
      BY <2>2, <3>2, <3>3, <3>4
  <2> QED
    BY <2>4, <2>5
<1> QED
  BY <1>6, <1>7

LEMMA NextInOrder == IInv /\ FramesInOrder /\ [Next]_vars => FramesInOrder'
<1> SUFFICES ASSUME IInv, FramesInOrder, [Next]_vars PROVE FramesInOrder'
  OBVIOUS
<1>1. ASSUME out' = out, Dispatched' = Dispatched \/ Moves PROVE FramesInOrder'
  <2>1. \A b \in 1 .. Dispatched : b \in 1 .. Dispatched'
    <3>1. Dispatched \in Nat /\ Len(block) \in Nat
      BY BlockBytes
    <3>2. Dispatched' = Dispatched \/ Dispatched' = Dispatched + Len(block)
      BY <1>1 DEF Moves
    <3> QED
      BY <3>1, <3>2
  <2> SUFFICES ASSUME NEW i \in 1 .. Len(out), NEW j \in 1 .. Len(out),
                      NEW x \in 1 .. Len(out[i].data), NEW y \in 1 .. Len(out[j].data)
               PROVE  /\ out[i].data[x] \in 1 .. Dispatched'
                      /\ i < j \/ (i = j /\ x < y) => out[i].data[x] < out[j].data[y]
    BY <1>1 DEF FramesInOrder
  <2>2. /\ out[i].data[x] \in 1 .. Dispatched
        /\ i < j \/ (i = j /\ x < y) => out[i].data[x] < out[j].data[y]
    BY DEF FramesInOrder
  <2> QED
    BY <2>1, <2>2
<1>2. CASE Keeps
  BY <1>1, <1>2 DEF Keeps
<1>3. CASE Moves /\ Emits
  BY <1>3, AppendInOrder DEF Emits
<1>4. CASE Moves /\ Loses
  BY <1>1, <1>4, AppendInOrder DEF Loses
<1> QED
  BY <1>2, <1>3, <1>4, StepKinds

(* Reading the frames one after the other gives the bytes in the order in  *)
(* which they were written, also around failed calls.                      *)
THEOREM OutputInOrder == Spec => []FramesInOrder
<1>1. Init => FramesInOrder
  BY DEF Init, FramesInOrder
<1> QED
  BY <1>1, NextInOrder, Invariance, PTL DEF Spec

LEMMA AppendWritten ==
    ASSUME IInv, NEW w \in BOOLEAN, out' = Append(out, Frame(block, w))
    PROVE  /\ Written \subseteq Written'
           /\ w => \A x \in 1 .. Len(block) : block[x] \in Written'
<1>1. ASSUME NEW b \in Written PROVE b \in Written'
  <2>1. PICK i \in DOMAIN out : out[i].whole /\ \E x \in DOMAIN out[i].data : b = out[i].data[x]
    BY DEF Written
  <2>2. i \in DOMAIN out' /\ out'[i] = out[i]
    BY OutTyped, AppendFrame
  <2> QED
    BY <2>1, <2>2 DEF Written
<1>2. ASSUME w, NEW x \in 1 .. Len(block) PROVE block[x] \in Written'
  <2> DEFINE last == Len(out) + 1
  <2>1. last \in DOMAIN out'
    BY AppendFrame, OutTyped
  <2>2. out'[last].whole /\ out'[last].data = block
    BY <1>2, AppendFrame
  <2>3. x \in DOMAIN out'[last].data
    BY <2>2, BlockBytes
  <2> QED
    BY <2>1, <2>2, <2>3 DEF Written
<1> QED
  BY <1>1, <1>2

LEMMA NextNothingLost ==
    IInv /\ NothingLostSilently /\ [Next]_vars => NothingLostSilently'
<1> SUFFICES ASSUME IInv, NothingLostSilently, [Next]_vars PROVE NothingLostSilently'
  OBVIOUS
<1>1. CASE Keeps
  BY <1>1 DEF Keeps, NothingLostSilently, Written
<1>2. ASSUME Moves, NEW b \in 1 .. Dispatched', b \notin 1 .. Dispatched
      PROVE  \E x \in 1 .. Len(block) : block[x] = b
  <2>1. b - Dispatched \in 1 .. Len(block)
    BY <1>2, BlockBytes DEF Moves
  <2>2. block[b - Dispatched] = Dispatched + (b - Dispatched)
    BY <2>1, BlockBytes
  <2>3. Dispatched + (b - Dispatched) = b
    BY <1>2, BlockBytes DEF Moves
  <2> QED
    BY <2>1, <2>2, <2>3
<1>3. CASE Moves /\ Emits
  <2>1. Written \subseteq Written' /\ \A x \in 1 .. Len(block) : block[x] \in Written'
    BY <1>3, AppendWritten DEF Emits
  <2>2. lost' = lost /\ failures' = failures
    BY <1>3 DEF Emits
  <2> QED
    BY <1>2, <1>3, <2>1, <2>2 DEF NothingLostSilently
<1>4. CASE Moves /\ Loses
  <2>1. Written \subseteq Written'
    <3>1. out' = out => Written' = Written
      BY DEF Written
    <3> QED
      BY <1>4, <3>1, AppendWritten DEF Loses
  <2>2. lost \subseteq lost' /\ \A x \in 1 .. Len(block) : block[x] \in lost'
    BY <1>4, BlockBytes DEF Loses
  <2>3. failures' # 0
    BY <1>4 DEF Loses, IInv, TypeOK
  <2> QED
    BY <1>2, <1>4, <2>1, <2>2, <2>3 DEF NothingLostSilently
<1> QED
  BY <1>1, <1>3, <1>4, StepKinds

(* Every accepted byte that is no longer buffered is in a whole frame, or  *)
(* in a block whose call ended in an exception.                            *)
THEOREM Accounting == Spec => []NothingLostSilently
<1>1. Init => NothingLostSilently
  <2> SUFFICES ASSUME Init PROVE NothingLostSilently
    OBVIOUS
  <2>1. Dispatched = 0
    BY InitDispatched
  <2> QED
    BY <2>1 DEF Init, NothingLostSilently
<1> QED
  BY <1>1, NextNothingLost, Invariance, PTL DEF Spec

(* A flush or close that returns normally has put every accepted byte into *)
(* a whole frame, the bytes of blocks whose call failed excepted; the sink *)
(* is closed only by such a close.                                         *)
THEOREM FlushDrains == Spec => DrainedReturn
<1> DEFINE A == (op \in {"flush", "close"} /\ result' = "ok" /\ op' = "none")
                     \/ sinkClosed' # sinkClosed
                => /\ op' = "none"
                   /\ 1 .. accepted \subseteq Written \cup lost
<1>1. ASSUME IInv, NothingLostSilently, [Next]_vars PROVE [A]_vars
  <2>1. ASSUME op # "none", op # "write", ~emitting, ~MoreToCompress
        PROVE  1 .. accepted \subseteq Written \cup lost
    <3>1. Len(block) = 0 /\ accepted \in Nat /\ inputBufferLen \in Nat
      BY <1>1, <2>1 DEF IInv, TypeOK, BlockInCall
    <3>2. inputBufferLen = 0 /\ HeldLen = 0
      BY <2>1, <3>1 DEF MoreToCompress, HeldLen, LenOf
    <3>3. Dispatched = accepted
      BY <3>1, <3>2 DEF Dispatched, Buffered
    <3> QED
      BY <1>1, <3>3 DEF NothingLostSilently
  <2>2. CASE Call
    BY <2>2 DEF Call, Write, RefuseWrite, Drain
  <2>3. CASE TakeInput \/ TakeHoldover \/ EmitBlock
    BY <2>3 DEF TakeInput, TakeHoldover, EmitBlock
  <2>4. CASE CompressorFails \/ SinkFails
    BY <2>4 DEF CompressorFails, SinkFails, Throw
  <2>5. CASE Return \/ CloseSink
    BY <2>1, <2>5 DEF Return, CloseSink, Throw
  <2> QED
    BY <1>1, <2>2, <2>3, <2>4, <2>5 DEF Next, Step
<1> QED
  BY <1>1, Invariance, Accounting, PTL DEF Spec, DrainedReturn

LEMMA NextClean == IInv /\ CleanBetweenCalls /\ [Next]_vars => CleanBetweenCalls'
<1> SUFFICES ASSUME IInv, CleanBetweenCalls, [Next]_vars PROVE CleanBetweenCalls'
  OBVIOUS
<1>1. CASE Call
  BY <1>1 DEF Call, Write, RefuseWrite, Drain, CleanBetweenCalls
<1>2. CASE TakeInput \/ TakeHoldover \/ EmitBlock
  BY <1>2 DEF TakeInput, TakeHoldover, EmitBlock, CleanBetweenCalls, IInv, BlockInCall
<1>3. ASSUME Throw PROVE CleanBetweenCalls'
  BY <1>3 DEF Throw, CleanBetweenCalls, IInv, TypeOK
<1>4. ASSUME ~emitting, ~MoreToCompress, UNCHANGED <<buffers, failures>>, result' = "ok"
      PROVE  CleanBetweenCalls'
  <2>1. holdover' = NoHoldover /\ HeldLen' = 0
    BY <1>4 DEF MoreToCompress, buffers, HeldLen, LenOf
  <2>2. inputBufferLen' = inputBufferLen /\ inputBufferLen \in 0 .. N - 1
    <3>1. inputBufferLen \in 0 .. N
      BY DEF IInv, TypeOK
    <3> QED
      BY <1>4, <3>1, NAssumption DEF MoreToCompress, buffers
  <2>3. Buffered' < N
    BY <2>1, <2>2, NAssumption DEF Buffered
  <2> QED
    BY <1>4, <2>1, <2>3 DEF CleanBetweenCalls
<1>5. CASE CompressorFails \/ SinkFails
  BY <1>3, <1>5 DEF CompressorFails, SinkFails
<1>6. CASE Return \/ CloseSink
  BY <1>3, <1>4, <1>6 DEF Return, CloseSink
<1>7. CASE UNCHANGED vars
  BY <1>7 DEF vars, buffers, CleanBetweenCalls, Buffered, HeldLen
<1> QED
  BY <1>1, <1>2, <1>5, <1>6, <1>7 DEF Next, Step

(* A caller whose calls all returned is never refused a write, and leaves  *)
(* less than a block in the stream between its calls.                      *)
THEOREM NeverRefused == Spec => []CleanBetweenCalls
<1>1. Init => CleanBetweenCalls
  <2> SUFFICES ASSUME Init PROVE CleanBetweenCalls
    OBVIOUS
  <2>1. Buffered = 0 /\ holdover = NoHoldover
    BY DEF Init, Buffered, HeldLen, LenOf
  <2> QED
    BY <2>1, NAssumption DEF Init, CleanBetweenCalls
<1> QED
  BY <1>1, NextClean, Invariance, PTL DEF Spec

(* Each turn of the loops of write, flush and close takes bytes out of the *)
(* buffers, so that no call has more than accepted turns to make.          *)
THEOREM LoopsAdvance == Spec => LoopProgress
<1>1. IInv /\ IInv' /\ [Next]_vars => [emitting' /\ ~emitting => Buffered' < Buffered]_vars
  <2> SUFFICES ASSUME IInv, IInv', [Next]_vars, emitting', ~emitting
               PROVE  Buffered' < Buffered
    OBVIOUS
  <2>1. TakeInput \/ TakeHoldover
    BY DEF Next, Call, Step, Write, RefuseWrite, Drain, EmitBlock, CompressorFails,
           SinkFails, Throw, Return, CloseSink, vars
  <2>2. Dispatched' = Dispatched /\ accepted' = accepted
    BY <2>1, TakeInputIInv, TakeHoldoverIInv DEF TakeInput, TakeHoldover
  <2>3. Len(block) = 0 /\ Len(block') \in 1 .. N
    BY DEF IInv, BlockInCall, ShortBlockIsLast
  <2>4. Buffered \in Nat /\ Buffered' \in Nat /\ accepted \in Nat
    <3>1. HeldLen \in Nat /\ inputBufferLen \in Nat /\ accepted \in Nat
      BY HoldoverFields DEF IInv, TypeOK, HeldLen, LenOf
    <3>2. LenOf(holdover') \in Nat /\ inputBufferLen' \in Nat
      BY HoldoverFields DEF IInv, TypeOK, LenOf
    <3>3. Buffered \in Nat
      BY <3>1 DEF Buffered
    <3>4. Buffered' \in Nat
      BY <3>2 DEF Buffered, HeldLen
    <3> QED
      BY <3>1, <3>3, <3>4
  <2>5. accepted - Buffered - 0 = accepted - Buffered' - Len(block')
    BY <2>2, <2>3 DEF Dispatched
  <2> QED
    BY <2>3, <2>4, <2>5, NAssumption
<1> QED
  BY <1>1, Invariance, PTL DEF Spec, LoopProgress

-----------------------------------------------------------------------------
(* LzoOutputStream implements BlockLog: a step that emits or loses a block *)
(* is a Dispatch, closing the sink in vain is a Fail, a write is an Accept *)
(* and everything else leaves the abstract state alone.                    *)
THEOREM Implements == Spec => Refinement
<1>1. Init => Abstract!Init
  <2> SUFFICES ASSUME Init PROVE Abstract!Init
    OBVIOUS
  <2>1. Dispatched = 0
    BY InitDispatched
  <2> QED
    BY <2>1 DEF Init, Abstract!Init
<1>2. IInv /\ IInv' /\ [Next]_vars => [Abstract!Next]_(Abstract!vars)
  <2> SUFFICES ASSUME IInv, IInv', [Next]_vars PROVE [Abstract!Next]_(Abstract!vars)
    OBVIOUS
  <2>1. CASE Keeps /\ accepted' \in Nat /\ accepted' >= accepted
    BY <2>1 DEF Keeps, Abstract!Next, Abstract!Accept
  <2>2. block = Abstract!Run(Dispatched, Len(block))
    BY BlockBytes DEF Abstract!Run
  <2>3. \A w \in BOOLEAN : Frame(block, w) = Abstract!Frame(block, w)
    BY DEF Frame, Abstract!Frame
  <2>4. CASE Moves /\ Len(block) \in 1 .. N /\ (Emits \/ Loses)
    <3>1. Dispatched + Len(block) <= accepted
      <4>1. /\ Len(block) \in Nat /\ inputBufferLen \in Nat /\ HeldLen \in Nat
            /\ accepted \in Nat
        BY HoldoverFields DEF IInv, TypeOK, HeldLen, LenOf
      <4> QED
        BY <4>1 DEF Dispatched, Buffered
    <3>2. Abstract!Dispatch
      BY <2>2, <2>3, <2>4, <3>1 DEF Moves, Emits, Loses, Abstract!Dispatch
    <3> QED
      BY <3>2 DEF Abstract!Next
  <2>5. CASE Moves /\ Loses /\ Len(block) = 0 /\ out' = out
    BY <2>5, BlockBytes DEF Moves, Loses, Abstract!Next, Abstract!Fail
  <2> QED
    BY <2>1, <2>4, <2>5, StepKinds
<1> QED
  BY <1>1, <1>2, Invariance, PTL DEF Spec, Refinement, Abstract!Spec

-----------------------------------------------------------------------------
(* LzopOutputStream *)

LEMMA BufferingIsStep == Buffering => Next
BY DEF Buffering, Next, Step

LEMMA CallIsCall == LzopCall \/ Close => Next
<1>1. CASE LzopCall
  BY <1>1 DEF LzopCall, Next, Call
<1>2. CASE Close
  BY <1>2 DEF Close, Next, Call
<1> QED
  BY <1>1, <1>2

(* writeBlock, and the sink closed or found broken by close(). *)
LEMMA OverridesAreSteps ==
    WriteBlock \/ WriteBlockFails \/ WriteNullWordFails \/ LzopCloseSink => Next
<1>1. CASE WriteBlock
  BY <1>1 DEF WriteBlock, Next, Step
<1>2. CASE WriteBlockFails
  BY <1>2 DEF WriteBlockFails, Next, Step
<1>3. CASE WriteNullWordFails
  <2>1. CloseSink
    BY <1>3 DEF WriteNullWordFails, CloseSink
  <2> QED
    BY <2>1 DEF Next, Step
<1>4. CASE LzopCloseSink
  BY <1>4 DEF LzopCloseSink, Next, Step
<1> QED
  BY <1>1, <1>2, <1>3, <1>4

LEMMA LzopNextIsNext == [LzopNext]_lzopVars => [Next]_vars
<1> SUFFICES ASSUME [LzopNext]_lzopVars PROVE [Next]_vars
  OBVIOUS
<1>1. CASE LzopCall \/ Close
  BY <1>1, CallIsCall
<1>2. CASE Buffering
  BY <1>2, BufferingIsStep
<1>3. CASE WriteBlock \/ WriteBlockFails \/ WriteNullWordFails \/ LzopCloseSink
  BY <1>3, OverridesAreSteps
<1>4. CASE WriteNullWord
  BY <1>4 DEF WriteNullWord
<1>5. CASE CloseAgain \/ UNCHANGED lzopVars
  BY <1>5 DEF CloseAgain, lzopVars
<1> QED
  BY <1>1, <1>2, <1>3, <1>4, <1>5 DEF LzopNext, LzopStep

-----------------------------------------------------------------------------
(* The bytes in the buffers stay in order, also in a stream that is        *)
(* written to after close() or used again after an exception.              *)
THEOREM LzopBuffersInOrder == LzopSpec => []Layout
<1>1. LzopInit => IInv
  BY InitIInv DEF LzopInit
<1>2. IInv /\ [LzopNext]_lzopVars => IInv'
  BY NextIInv, LzopNextIsNext
<1>3. IInv => Layout
  BY DEF IInv
<1> QED
  BY <1>1, <1>2, <1>3, PTL DEF LzopSpec

(* No block is empty or above the buffer size: the length that is written  *)
(* for a block is never that of the null word.                             *)
THEOREM LzopBlockSizes == LzopSpec => []ShortBlockIsLast
<1>1. LzopInit => IInv
  BY InitIInv DEF LzopInit
<1>2. IInv /\ [LzopNext]_lzopVars => IInv'
  BY NextIInv, LzopNextIsNext
<1>3. IInv => ShortBlockIsLast
  BY DEF IInv
<1> QED
  BY <1>1, <1>2, <1>3, PTL DEF LzopSpec

LEMMA InitAccounts == LzopInit => IInv /\ NothingLostSilently
<1> SUFFICES ASSUME LzopInit PROVE IInv /\ NothingLostSilently
  OBVIOUS
<1>1. IInv /\ Dispatched = 0
  BY InitIInv, InitDispatched DEF LzopInit
<1> QED
  BY <1>1 DEF LzopInit, Init, NothingLostSilently

LEMMA NextAccounts ==
    IInv /\ NothingLostSilently /\ [LzopNext]_lzopVars => (IInv /\ NothingLostSilently)'
BY NextIInv, NextNothingLost, LzopNextIsNext

(* Every byte that has left the buffers was put into a block of the file   *)
(* that is there in full, or belongs to a call that threw.                 *)
THEOREM LzopAccounting == LzopSpec => []NothingLostSilently
BY InitAccounts, NextAccounts, PTL DEF LzopSpec

(* close() writes the null word when all that was accepted is in a block   *)
(* of the file or was reported lost, whichever calls failed before it.     *)
THEOREM NullWordLast == LzopSpec => NullWordAfterAll
<1> DEFINE A == terminated' /\ ~terminated => 1 .. accepted \subseteq Written \cup lost
<1>1. LzopInit => IInv /\ NothingLostSilently
  BY InitAccounts
<1>2. IInv /\ NothingLostSilently /\ [LzopNext]_lzopVars => (IInv /\ NothingLostSilently)'
  BY NextAccounts
<1>3. ASSUME IInv, NothingLostSilently, [LzopNext]_lzopVars PROVE [A]_lzopVars
  <2>1. CASE WriteNullWord
    <3>1. op = "close" /\ ~emitting /\ ~MoreToCompress
      BY <2>1 DEF WriteNullWord
    <3>2. holdover = NoHoldover /\ ~(inputBufferLen > 0)
      BY <3>1 DEF MoreToCompress
    <3>3. inputBufferLen = 0 /\ HeldLen = 0 /\ Len(block) = 0 /\ accepted \in Nat
      <4>1. block = << >> /\ inputBufferLen \in 0 .. N /\ accepted \in Nat
        BY <1>3, <3>1 DEF IInv, BlockInCall, TypeOK
      <4> QED
        BY <3>2, <4>1, NAssumption DEF HeldLen, LenOf
    <3>4. Dispatched = accepted
      BY <3>3 DEF Dispatched, Buffered
    <3> QED
      BY <1>3, <3>4 DEF NothingLostSilently
  <2>2. ASSUME ~WriteNullWord PROVE terminated' /\ ~terminated => FALSE
    BY <1>3, <2>2 DEF LzopNext, LzopStep, LzopCall, Close, CloseAgain, Buffering, WriteBlock,
       WriteBlockFails, WriteNullWordFails, LzopCloseSink, lzopVars, fileVars
  <2> QED
    BY <2>1, <2>2
<1> QED
  BY <1>1, <1>2, <1>3, PTL DEF LzopSpec, NullWordAfterAll

-----------------------------------------------------------------------------
(* The bytes in a file *)

BytesOf(t) == IF t.kind = "data" THEN t.bytes ELSE << >>

HeaderTokens == [kind : {"header"}, flags : FlagSets]
FileTokens == LzopTokens \cup HeaderTokens \cup {Part}

LEMMA BytesOfToken == ASSUME NEW t \in FileTokens PROVE BytesOf(t) \in Seq(Nat)
<1>1. << >> \in Seq(Nat)
  OBVIOUS
<1>2. CASE t \in DataTokens
  BY <1>1, <1>2 DEF DataTokens, BytesOf
<1>3. CASE t \in WordTokens \/ t \in SumTokens \/ t \in HeaderTokens \/ t = Part
  <2>1. t.kind # "data"
    BY <1>3 DEF WordTokens, SumTokens, HeaderTokens, Part
  <2> QED
    BY <1>1, <2>1 DEF BytesOf
<1> QED
  BY <1>2, <1>3 DEF FileTokens, LzopTokens, Tokens

BytesOfAll(f) == [i \in DOMAIN f |-> BytesOf(f[i])]

LEMMA BytesAre == ASSUME NEW f PROVE BytesIn(f) = FlattenSeq(BytesOfAll(f))
BY DEF BytesIn, BytesOfAll, BytesOf

LEMMA BytesTyped ==
    ASSUME NEW f \in Seq(FileTokens)
    PROVE  /\ BytesOfAll(f) \in Seq(Seq(Nat)) /\ Len(BytesOfAll(f)) = Len(f)
           /\ BytesIn(f) \in Seq(Nat)
<1>1. \A i \in 1 .. Len(f) : BytesOf(f[i]) \in Seq(Nat)
  <2>1. \A i \in 1 .. Len(f) : f[i] \in FileTokens
    BY ElementOfSeq
  <2> QED
    BY <2>1, BytesOfToken
<1>2. PICK S : S = Seq(Nat)
  OBVIOUS
<1>3. PICK n \in Nat : n = Len(f)
  OBVIOUS
<1>4. BytesOfAll(f) = [i \in 1 .. n |-> BytesOf(f[i])]
  BY <1>3 DEF BytesOfAll
<1>5. BytesOfAll(f) \in [1 .. n -> S]
  BY <1>1, <1>2, <1>3, <1>4
<1>6. BytesOfAll(f) \in Seq(S) /\ Len(BytesOfAll(f)) = n
  BY <1>5, FunctionIsSeq
<1> QED
  BY <1>2, <1>3, <1>6, FlattenPieces, BytesAre

LEMMA BytesAppend ==
    ASSUME NEW f \in Seq(FileTokens), NEW x \in FileTokens
    PROVE  BytesIn(Append(f, x)) = BytesIn(f) \o BytesOf(x)
<1>1. PICK g : g = Append(f, x)
  OBVIOUS
<1>2. PICK n \in Nat : n = Len(f)
  OBVIOUS
<1>3. /\ Len(g) = n + 1 /\ DOMAIN g = 1 .. n + 1 /\ g[n + 1] = x
      /\ \A i \in 1 .. n : g[i] = f[i]
  BY <1>1, <1>2
<1>4. PICK s, b : s = BytesOfAll(f) /\ b = BytesOf(x)
  OBVIOUS
<1>5. s \in Seq(Seq(Nat)) /\ Len(s) = n /\ b \in Seq(Nat)
  BY <1>2, <1>4, BytesTyped, BytesOfToken
<1>6. BytesOfAll(g) = Append(s, b)
  <2>1. BytesOfAll(g) = [i \in 1 .. n + 1 |-> BytesOf(g[i])]
    BY <1>3 DEF BytesOfAll
  <2>2. \A i \in 1 .. n : s[i] = BytesOf(f[i])
    BY <1>2, <1>4 DEF BytesOfAll
  <2>3. \A i \in 1 .. n + 1 : BytesOf(g[i]) = IF i = n + 1 THEN b ELSE s[i]
    BY <1>3, <1>4, <2>2
  <2>4. PICK S : S = Seq(Nat)
    OBVIOUS
  <2>5. s \in Seq(S) /\ b \in S
    BY <1>5, <2>4
  <2>6. PICK w : w = Append(s, b)
    OBVIOUS
  <2>7. w \in Seq(S) /\ Len(w) = n + 1 /\ w[n + 1] = b /\ \A i \in 1 .. n : w[i] = s[i]
    BY <1>5, <2>5, <2>6
  <2>8. w = [i \in 1 .. n + 1 |-> w[i]]
    BY <2>7
  <2>9. \A i \in 1 .. n + 1 : w[i] = BytesOf(g[i])
    BY <2>3, <2>7
  <2> QED
    BY <2>1, <2>6, <2>8, <2>9
<1>7. FlattenSeq(Append(s, b)) = FlattenSeq(s) \o b
  BY <1>5, FlattenAppend
<1> QED
  BY <1>1, <1>4, <1>6, <1>7, BytesAre

LEMMA BytesQuiet ==
    ASSUME NEW f \in Seq(FileTokens), NEW t \in Seq(FileTokens),
           \A i \in 1 .. Len(t) : BytesOf(t[i]) = << >>
    PROVE  BytesIn(f \o t) = BytesIn(f)
<1> DEFINE Bad == {m \in 0 .. Len(t) : BytesIn(f \o SubSeq(t, 1, m)) # BytesIn(f)}
<1> HIDE DEF FileTokens
<1>1. SubSeq(t, 1, Len(t)) = t
  BY SubSeqFull
<1>2. SUFFICES ASSUME BytesIn(f \o t) # BytesIn(f) PROVE FALSE
  OBVIOUS
<1>3. Bad # {}
  <2>1. PICK n \in 0 .. Len(t) : n = Len(t)
    OBVIOUS
  <2>2. SubSeq(t, 1, n) = t
    BY <1>1, <2>1
  <2>3. n \in Bad
    BY <1>2, <2>2
  <2> QED
    BY <2>3
<1>4. PICK m \in Bad : \A k \in Bad : m <= k
  <2>1. Bad \in SUBSET Nat
    OBVIOUS
  <2> HIDE DEF Bad
  <2> QED
    BY <1>3, <2>1, Least
<1>5. m \in 0 .. Len(t) /\ BytesIn(f \o SubSeq(t, 1, m)) # BytesIn(f)
  OBVIOUS
<1>6. m # 0
  <2>1. SubSeq(t, 1, 0) = << >>
    BY SubSeqEmpty
  <2>2. f \o << >> = f
    BY ConcatEmptySeq
  <2> QED
    BY <1>5, <2>1, <2>2
<1>7. PICK k \in 0 .. Len(t) : k = m - 1 /\ ~(m <= k)
  BY <1>5, <1>6
<1>8. BytesIn(f \o SubSeq(t, 1, k)) = BytesIn(f)
  BY <1>4, <1>7
<1> HIDE DEF Bad
<1>9. PICK a : a = SubSeq(t, 1, k)
  OBVIOUS
<1>10. PICK x : x = t[m]
  OBVIOUS
<1>11. a \in Seq(FileTokens) /\ x \in FileTokens /\ BytesOf(x) = << >>
  <2>1. m \in 1 .. Len(t)
    BY <1>5, <1>6
  <2>2. a \in Seq(FileTokens)
    BY <1>7, <1>9
  <2>3. x \in FileTokens
    BY <1>10, <2>1, ElementOfSeq
  <2> QED
    BY <1>10, <2>1, <2>2, <2>3
<1>12. SubSeq(t, 1, m) = a \o <<x>>
  <2>1. 1 \in 1 .. Len(t) /\ m \in 1 .. Len(t)
    BY <1>5, <1>6
  <2>2. SubSeq(t, 1, m) = SubSeq(t, 1, m - 1) \o <<t[m]>>
    BY <2>1, SubSeqRecursiveSecond
  <2> QED
    BY <1>7, <1>9, <1>10, <2>2
<1>13. f \o (a \o <<x>>) = Append(f \o a, x)
  BY <1>11
<1>14. BytesIn(Append(f \o a, x)) = BytesIn(f \o a) \o << >>
  <2>1. f \o a \in Seq(FileTokens)
    BY <1>11
  <2> QED
    BY <1>11, <2>1, BytesAppend
<1>15. BytesIn(f \o a) \o << >> = BytesIn(f \o a)
  <2>1. f \o a \in Seq(FileTokens)
    BY <1>11
  <2>2. BytesIn(f \o a) \in Seq(Nat)
    BY <2>1, BytesTyped
  <2> QED
    BY <2>2
<1> QED
  BY <1>5, <1>8, <1>9, <1>12, <1>13, <1>14, <1>15

-----------------------------------------------------------------------------
(* What a step appends to the file *)

Quiet(t) == BytesOf(t) = << >> /\ t # Terminator

(* Tokens that bring no bytes. *)
Silent(t) == t \in Seq(FileTokens) /\ \A i \in 1 .. Len(t) : Quiet(t[i])

(* Tokens of a block with these bytes. *)
Brings(t, bytes) ==
    \E h, x : /\ Silent(h) /\ t = Append(h, x)
              /\ x \in FileTokens /\ BytesOf(x) = bytes /\ x # Terminator

LEMMA QuietTokens ==
    /\ \A n \in Nat \ {0} : Quiet(Word(n))
    /\ \A name, data : Quiet(Checksum(name, data))
    /\ Quiet(Part)
<1>1. \A n \in Nat \ {0} : Quiet(Word(n))
  BY DEF Quiet, BytesOf, Word, Terminator
<1>2. \A name, data : Quiet(Checksum(name, data))
  BY DEF Quiet, BytesOf, Checksum, Word, Terminator
<1>3. Quiet(Part)
  BY DEF Quiet, BytesOf, Part, Word, Terminator
<1> QED
  BY <1>1, <1>2, <1>3

LEMMA BlockBrings ==
    ASSUME NEW on, NEW bytes \in Seq(Nat), bytes # << >>,
           NEW size \in Nat \ {0}, size <= Len(bytes), NEW w, w = LzopBlock(on, bytes, size)
    PROVE  /\ Brings(w, bytes)
           /\ w \in Seq(FileTokens) /\ Len(w) \in Nat \ {0}
           /\ \A i \in 1 .. Len(w) - 1 : Quiet(w[i])
<1>1. PICK packed : packed = (size < Len(bytes))
  OBVIOUS
<1>2. /\ w \in Seq(LzopTokens) /\ Len(w) = SizeOf(on, packed)
      /\ BlockBehind(w, 0, on, bytes, packed, size)
  <2>1. packed \in BOOLEAN
    BY <1>1
  <2>2. IsBlock(w, on, bytes, packed, size)
    BY <1>1 DEF IsBlock
  <2> QED
    BY <2>1, <2>2, LzopBlockTokens
<1>3. PICK n, m : n = Len(DNamesOf(on)) /\ m = (IF packed THEN Len(CNamesOf(on)) ELSE 0)
  OBVIOUS
<1>4. n \in Nat /\ m \in Nat /\ Len(w) = 3 + n + m
  BY <1>2, <1>3, NamesLens DEF SizeOf
<1>5. Len(bytes) \in Nat \ {0}
  BY EmptySeq
<1>6. SizeOf(on, packed) = 3 + n + m
  BY <1>2, <1>4
<1>7. w[1] = Word(Len(bytes)) /\ w[2] = Word(size) /\ w[3 + n + m] = Data(bytes, packed)
  <2>1. /\ w[0 + 1] = Word(Len(bytes)) /\ w[0 + 2] = Word(size)
        /\ w[0 + SizeOf(on, packed)] = Data(bytes, packed)
    BY <1>2 DEF BlockBehind
  <2>2. 0 + SizeOf(on, packed) = 3 + n + m
    BY <1>4, <1>6
  <2> QED
    BY <2>1, <2>2
<1>8. \A k \in 1 .. n : w[2 + k] = Checksum(DNamesOf(on)[k], Data(bytes, FALSE))
  <2>1. \A k \in 1 .. n : w[0 + 2 + k] = Checksum(DNamesOf(on)[k], Data(bytes, FALSE))
    BY <1>2, <1>3 DEF BlockBehind
  <2>2. \A k \in 1 .. n : 0 + 2 + k = 2 + k
    BY <1>4
  <2> QED
    BY <2>1, <2>2, Zenon
<1>9. \A k \in 1 .. m : w[2 + n + k] = Checksum(CNamesOf(on)[k], Data(bytes, TRUE))
  <2>1. CASE packed
    <3>1. \A k \in 1 .. m : w[0 + 2 + n + k] = Checksum(CNamesOf(on)[k], Data(bytes, TRUE))
      BY <1>2, <1>3, <2>1 DEF BlockBehind
    <3>2. \A k \in 1 .. m : 0 + 2 + n + k = 2 + n + k
      BY <1>4
    <3> QED
      BY <3>1, <3>2, Zenon
  <2>2. CASE ~packed
    BY <1>3, <2>2
  <2> QED
    BY <2>1, <2>2
<1>10. ASSUME NEW i \in 1 .. Len(w) - 1 PROVE Quiet(w[i])
  <2>1. i = 1 \/ i = 2 \/ i - 2 \in 1 .. n \/ i - 2 - n \in 1 .. m
    BY <1>4
  <2>2. CASE i = 1
    BY <1>5, <1>7, <2>2, QuietTokens
  <2>3. CASE i = 2
    BY <1>7, <2>3, QuietTokens
  <2>4. CASE i - 2 \in 1 .. n
    <3>1. PICK k \in 1 .. n : i = 2 + k
      BY <1>4, <2>4
    <3> QED
      BY <1>8, <3>1, QuietTokens
  <2>5. CASE i - 2 - n \in 1 .. m
    <3>1. PICK k \in 1 .. m : i = 2 + n + k
      BY <1>4, <2>5
    <3> QED
      BY <1>9, <3>1, QuietTokens
  <2> QED
    BY <2>1, <2>2, <2>3, <2>4, <2>5
<1>11. w \in Seq(FileTokens)
  <2>1. LzopTokens \subseteq FileTokens
    BY DEF FileTokens
  <2> QED
    BY <1>2, <2>1, SeqMonotonic
<1>12. PICK h, x : h = SubSeq(w, 1, Len(w) - 1) /\ x = w[Len(w)]
  OBVIOUS
<1> HIDE DEF FileTokens
<1>13. w = Append(h, x)
  BY <1>4, <1>11, <1>12
<1>14. Silent(h)
  <2>1. h \in Seq(FileTokens) /\ Len(h) = Len(w) - 1
    BY <1>4, <1>11, <1>12
  <2>2. \A i \in 1 .. Len(h) : h[i] = w[i]
    BY <1>4, <1>11, <1>12, <2>1
  <2> QED
    BY <1>10, <2>1, <2>2 DEF Silent
<1>15. x \in FileTokens
  BY <1>4, <1>11, <1>12
<1>16. BytesOf(x) = bytes /\ x # Terminator
  <2>1. x = Data(bytes, packed)
    BY <1>4, <1>7, <1>12
  <2>2. x.kind = "data" /\ x.bytes = bytes
    BY <2>1 DEF Data
  <2>3. Terminator.kind = "int"
    BY DEF Terminator, Word
  <2> QED
    BY <2>2, <2>3 DEF BytesOf
<1>17. Brings(w, bytes)
  BY <1>13, <1>14, <1>15, <1>16, Zenon DEF Brings
<1>18. Len(w) \in Nat \ {0}
  BY <1>4
<1> QED
  BY <1>10, <1>11, <1>17, <1>18

(* What a sink that throws leaves of a block brings none of its bytes. *)
LEMMA TornIsSilent ==
    ASSUME NEW w \in Seq(FileTokens), Len(w) \in Nat \ {0},
           \A i \in 1 .. Len(w) - 1 : Quiet(w[i]), NEW t \in Torn(w)
    PROVE  Silent(t)
<1> HIDE DEF FileTokens
<1>1. ASSUME NEW k \in 0 .. Len(w) - 1 PROVE Silent(SubSeq(w, 1, k))
  <2>1. PICK c : c = SubSeq(w, 1, k)
    OBVIOUS
  <2>2. c \in Seq(FileTokens) /\ Len(c) = k
    BY <2>1
  <2>3. \A i \in 1 .. k : c[i] = w[i]
    BY <2>1
  <2> QED
    BY <2>1, <2>2, <2>3 DEF Silent
<1>2. PICK k \in 0 .. Len(w) - 1 : t = SubSeq(w, 1, k) \/ t = Append(SubSeq(w, 1, k), Part)
  BY DEF Torn
<1>3. CASE t = SubSeq(w, 1, k)
  BY <1>1, <1>3
<1>4. CASE t = Append(SubSeq(w, 1, k), Part)
  <2>1. PICK c : c = SubSeq(w, 1, k)
    OBVIOUS
  <2>2. c \in Seq(FileTokens) /\ \A i \in 1 .. Len(c) : Quiet(c[i])
    BY <1>1, <2>1 DEF Silent
  <2>3. Part \in FileTokens
    BY DEF FileTokens
  <2>4. t \in Seq(FileTokens) /\ Len(t) = Len(c) + 1 /\ t[Len(c) + 1] = Part
        /\ \A i \in 1 .. Len(c) : t[i] = c[i]
    BY <1>4, <2>1, <2>2, <2>3
  <2>5. \A i \in 1 .. Len(t) : i \in 1 .. Len(c) \/ i = Len(c) + 1
    BY <2>2, <2>4
  <2> QED
    BY <2>2, <2>4, <2>5, QuietTokens DEF Silent
<1> QED
  BY <1>2, <1>3, <1>4

-----------------------------------------------------------------------------
(* Where the null word stands *)

UpToByte(d) == [k \in 1 .. d |-> k]

Unended(f) == \A i \in DOMAIN f : f[i] # Terminator
FirstNull(f, p) == p \in DOMAIN f /\ f[p] = Terminator /\ \A i \in 1 .. p - 1 : f[i] # Terminator
Only(f, p) == \A i \in DOMAIN f : f[i] = Terminator => i = p
BytesBefore(f, p) == BytesIn(SubSeq(f, 1, p - 1))

(* In front of the first null word is all that was accepted before it. *)
Ends(f, at, gone) ==
    IF at = Open THEN Unended(f)
    ELSE \E p : FirstNull(f, p) /\ 1 .. at \subseteq ToSet(BytesBefore(f, p)) \cup gone

(* The same as long as nothing has failed, d bytes being in blocks. *)
Sound(f, at, d) ==
    IF at = Open THEN BytesIn(f) = UpToByte(d)
    ELSE \E p : FirstNull(f, p) /\ Only(f, p) /\ BytesBefore(f, p) = UpToByte(at)

Longer(f, g) ==
    /\ g \in Seq(FileTokens) /\ Len(f) <= Len(g)
    /\ \A i \in 1 .. Len(f) : g[i] = f[i]

Unsaid(f, g) == \A i \in Len(f) + 1 .. Len(g) : g[i] # Terminator

LEMMA LongerKeeps ==
    ASSUME NEW f \in Seq(FileTokens), NEW g, Longer(f, g)
    PROVE  /\ \A p : FirstNull(f, p) => FirstNull(g, p) /\ BytesBefore(g, p) = BytesBefore(f, p)
           /\ Unsaid(f, g) => (\A p : Only(f, p) => Only(g, p)) /\ (Unended(f) => Unended(g))
<1> HIDE DEF FileTokens
<1>1. /\ g \in Seq(FileTokens) /\ Len(f) \in Nat /\ Len(g) \in Nat /\ Len(f) <= Len(g)
      /\ DOMAIN f = 1 .. Len(f) /\ DOMAIN g = 1 .. Len(g)
      /\ \A i \in 1 .. Len(f) : g[i] = f[i]
  BY LenProperties DEF Longer
<1>2. ASSUME NEW p, FirstNull(f, p) PROVE FirstNull(g, p) /\ BytesBefore(g, p) = BytesBefore(f, p)
  <2>1. p \in 1 .. Len(f) /\ p \in 1 .. Len(g) /\ \A i \in 1 .. p - 1 : i \in 1 .. Len(f)
    BY <1>1, <1>2 DEF FirstNull
  <2>2. FirstNull(g, p)
    BY <1>1, <1>2, <2>1 DEF FirstNull
  <2>3. PICK s, t : s = SubSeq(f, 1, p - 1) /\ t = SubSeq(g, 1, p - 1)
    OBVIOUS
  <2>4. PICK n \in Nat : n = p - 1
    BY <2>1
  <2>5. n <= Len(f) /\ n <= Len(g) /\ s = SubSeq(f, 1, n) /\ t = SubSeq(g, 1, n)
    BY <1>1, <2>1, <2>3, <2>4
  <2>6. s \in Seq(FileTokens) /\ Len(s) = n /\ \A i \in 1 .. n : s[i] = f[i]
    BY <2>5
  <2>7. t \in Seq(FileTokens) /\ Len(t) = n /\ \A i \in 1 .. n : t[i] = g[i]
    BY <1>1, <2>5
  <2>8. \A i \in 1 .. n : g[i] = f[i]
    BY <1>1, <2>1, <2>4
  <2>9. s = t
    BY <2>6, <2>7, <2>8, SeqEqual
  <2> QED
    BY <2>2, <2>3, <2>9 DEF BytesBefore
<1>3. ASSUME Unsaid(f, g) PROVE (\A p : Only(f, p) => Only(g, p)) /\ (Unended(f) => Unended(g))
  <2>1. \A i \in DOMAIN g : g[i] = Terminator => i \in DOMAIN f /\ f[i] = Terminator
    <3>1. \A i \in 1 .. Len(g) : i \in 1 .. Len(f) \/ i \in Len(f) + 1 .. Len(g)
      BY <1>1
    <3> QED
      BY <1>1, <1>3, <3>1 DEF Unsaid
  <2> QED
    BY <2>1 DEF Only, Unended
<1> QED
  BY <1>2, <1>3

LEMMA SilentLonger ==
    ASSUME NEW f \in Seq(FileTokens), NEW t, Silent(t), NEW g, g = f \o t
    PROVE  Longer(f, g) /\ Unsaid(f, g) /\ BytesIn(g) = BytesIn(f)
<1> HIDE DEF FileTokens
<1>1. t \in Seq(FileTokens) /\ \A i \in 1 .. Len(t) : BytesOf(t[i]) = << >> /\ t[i] # Terminator
  BY DEF Silent, Quiet
<1>2. Longer(f, g)
  BY <1>1 DEF Longer
<1>3. Unsaid(f, g)
  <2>1. SUFFICES ASSUME NEW i \in Len(f) + 1 .. Len(g) PROVE g[i] # Terminator
    BY DEF Unsaid
  <2>2. i - Len(f) \in 1 .. Len(t) /\ g[i] = t[i - Len(f)]
    BY <1>1
  <2> QED
    BY <1>1, <2>2
<1>4. BytesIn(g) = BytesIn(f)
  BY <1>1, BytesQuiet
<1> QED
  BY <1>2, <1>3, <1>4

LEMMA BringsLonger ==
    ASSUME NEW f \in Seq(FileTokens), NEW bytes, NEW t, Brings(t, bytes), NEW g, g = f \o t
    PROVE  Longer(f, g) /\ Unsaid(f, g) /\ BytesIn(g) = BytesIn(f) \o bytes
<1> HIDE DEF FileTokens
<1>1. PICK h, x : /\ Silent(h) /\ t = Append(h, x)
                  /\ x \in FileTokens /\ BytesOf(x) = bytes /\ x # Terminator
  BY DEF Brings
<1>2. PICK e : e = f \o h
  OBVIOUS
<1>3. Longer(f, e) /\ Unsaid(f, e) /\ BytesIn(e) = BytesIn(f)
  BY <1>1, <1>2, SilentLonger
<1>4. e \in Seq(FileTokens) /\ h \in Seq(FileTokens)
  BY <1>1, <1>3 DEF Longer, Silent
<1>5. g = Append(e, x)
  BY <1>1, <1>2, <1>4
<1>6. /\ g \in Seq(FileTokens) /\ Len(g) = Len(e) + 1 /\ g[Len(e) + 1] = x
      /\ \A i \in 1 .. Len(e) : g[i] = e[i]
  <2>1. /\ Append(e, x) \in Seq(FileTokens) /\ Len(Append(e, x)) = Len(e) + 1
        /\ Append(e, x)[Len(e) + 1] = x /\ \A i \in 1 .. Len(e) : Append(e, x)[i] = e[i]
    BY <1>1, <1>4
  <2> QED
    BY <1>5, <2>1
<1>7. BytesIn(g) = BytesIn(f) \o bytes
  BY <1>1, <1>3, <1>4, <1>5, BytesAppend
<1>8. /\ Len(f) <= Len(e) /\ Len(f) \in Nat /\ Len(e) \in Nat
      /\ \A i \in 1 .. Len(f) : e[i] = f[i]
      /\ \A i \in Len(f) + 1 .. Len(e) : e[i] # Terminator
  BY <1>3, <1>4 DEF Longer, Unsaid
<1>9. Longer(f, g)
  BY <1>6, <1>8 DEF Longer
<1>10. Unsaid(f, g)
  <2>1. \A i \in Len(f) + 1 .. Len(g) : i \in Len(f) + 1 .. Len(e) \/ i = Len(e) + 1
    BY <1>6, <1>8
  <2>2. \A i \in Len(f) + 1 .. Len(e) : g[i] = e[i]
    BY <1>6, <1>8
  <2> QED
    BY <1>1, <1>6, <1>8, <2>1, <2>2 DEF Unsaid
<1> QED
  BY <1>7, <1>9, <1>10

LEMMA NullWordLonger ==
    ASSUME NEW f \in Seq(FileTokens), NEW g, g = Append(f, Terminator)
    PROVE  /\ Longer(f, g) /\ BytesIn(g) = BytesIn(f)
           /\ Unended(f) => /\ FirstNull(g, Len(f) + 1) /\ Only(g, Len(f) + 1)
                            /\ BytesBefore(g, Len(f) + 1) = BytesIn(f)
<1>1. Terminator \in FileTokens /\ BytesOf(Terminator) = << >>
  <2>1. Terminator \in WordTokens
    BY DEF WordTokens, Word, Terminator
  <2> QED
    BY <2>1 DEF FileTokens, LzopTokens, Tokens, BytesOf, Terminator, Word
<1> HIDE DEF FileTokens
<1>2. PICK n \in Nat : n = Len(f)
  OBVIOUS
<1>3. /\ g \in Seq(FileTokens) /\ Len(g) = n + 1 /\ DOMAIN g = 1 .. n + 1
      /\ g[n + 1] = Terminator /\ \A i \in 1 .. n : g[i] = f[i]
  BY <1>1, <1>2
<1>4. BytesIn(g) = BytesIn(f)
  <2>1. BytesIn(g) = BytesIn(f) \o << >> /\ BytesIn(f) \in Seq(Nat)
    BY <1>1, BytesAppend, BytesTyped
  <2> QED
    BY <2>1
<1>5. Longer(f, g)
  BY <1>2, <1>3 DEF Longer
<1>6. ASSUME Unended(f)
      PROVE  FirstNull(g, n + 1) /\ Only(g, n + 1) /\ BytesBefore(g, n + 1) = BytesIn(f)
  <2>1. \A i \in 1 .. n : g[i] # Terminator
    BY <1>2, <1>3, <1>6 DEF Unended
  <2>2. n + 1 \in 1 .. n + 1 /\ n + 1 - 1 = n /\ \A i \in 1 .. n + 1 : i \in 1 .. n \/ i = n + 1
    OBVIOUS
  <2>3. SubSeq(g, 1, n) = f
    <3>1. PICK s : s = SubSeq(g, 1, n)
      OBVIOUS
    <3>2. s \in Seq(FileTokens) /\ Len(s) = n /\ \A i \in 1 .. n : s[i] = g[i]
      BY <1>3, <3>1
    <3>3. s = f
      BY <1>2, <1>3, <3>2, SeqEqual
    <3> QED
      BY <3>1, <3>3
  <2>4. FirstNull(g, n + 1)
    BY <1>3, <2>1, <2>2 DEF FirstNull
  <2>5. Only(g, n + 1)
    BY <1>3, <2>1, <2>2 DEF Only
  <2>6. BytesBefore(g, n + 1) = BytesIn(f)
    <3>1. PICK m : m = n + 1
      OBVIOUS
    <3>2. m - 1 = n
      BY <3>1
    <3>3. BytesBefore(g, m) = BytesIn(SubSeq(g, 1, m - 1))
      BY DEF BytesBefore
    <3> QED
      BY <2>3, <3>1, <3>2, <3>3
  <2> QED
    BY <2>4, <2>5, <2>6
<1> QED
  BY <1>2, <1>4, <1>5, <1>6

(* When the fields of close() are set. *)
Flow ==
    /\ terminated => closedAt # Open
    /\ closed => sinkClosed /\ closedAt # Open
    /\ op = "close" => ~closed
    /\ failures = 0 /\ closedAt # Open => closed \/ (op = "close" /\ terminated)

FileInv ==
    /\ file \in Seq(FileTokens)
    /\ Written \subseteq ToSet(BytesIn(file))
    /\ Ends(file, closedAt, lost)
    /\ failures = 0 => Sound(file, closedAt, Dispatched)

LEMMA NextFlow == IInv /\ Flow /\ [LzopNext]_lzopVars => Flow'
<1> SUFFICES ASSUME IInv, Flow, [LzopNext]_lzopVars PROVE Flow'
  OBVIOUS
<1>1. failures \in Nat /\ accepted \in Nat
  BY DEF IInv, TypeOK
<1>2. CASE LzopCall
  BY <1>2 DEF LzopCall, Write, RefuseWrite, Drain, fileVars, Flow
<1>3. CASE Close
  BY <1>3 DEF Close, Drain, Flow
<1>4. CASE CloseAgain \/ UNCHANGED lzopVars
  BY <1>4 DEF CloseAgain, lzopVars, vars, fileVars, Flow
<1>5. CASE Buffering
  BY <1>1, <1>5 DEF Buffering, TakeInput, TakeHoldover, CompressorFails, Throw, Return,
                    fileVars, Flow
<1>6. CASE WriteBlock
  BY <1>6 DEF WriteBlock, EmitBlock, Flow
<1>7. CASE WriteBlockFails
  BY <1>1, <1>7 DEF WriteBlockFails, SinkFails, Throw, Flow
<1>8. CASE WriteNullWord
  BY <1>1, <1>8 DEF WriteNullWord, vars, Flow, Open
<1>9. CASE WriteNullWordFails
  BY <1>1, <1>9 DEF WriteNullWordFails, Throw, Flow
<1>10. CASE LzopCloseSink
  <2>1. terminated /\ closedAt # Open
    BY <1>10 DEF LzopCloseSink, Flow
  <2>2. /\ closed' <=> closed \/ result' = "ok"
        /\ UNCHANGED <<terminated, closedAt>>
    BY <1>10 DEF LzopCloseSink
  <2>3. op' = "none" /\ op = "close"
    BY <1>10 DEF LzopCloseSink, CloseSink, Throw
  <2>4. \/ result' = "ok" /\ sinkClosed' = TRUE
        \/ result' = "failed" /\ sinkClosed' = sinkClosed /\ failures' = failures + 1
    BY <1>10 DEF LzopCloseSink, CloseSink, Throw
  <2>5. closed' => sinkClosed'
    BY <2>2, <2>4 DEF Flow
  <2>6. failures' = 0 => closed'
    BY <1>1, <2>2, <2>4
  <2> QED
    BY <2>1, <2>2, <2>3, <2>5, <2>6, Zenon DEF Flow
<1> QED
  BY <1>2, <1>3, <1>4, <1>5, <1>6, <1>7, <1>8, <1>9, <1>10 DEF LzopNext, LzopStep

LEMMA WrittenSame ==
    ASSUME IInv, out' \in {out, Append(out, Frame(block, FALSE))}
    PROVE  Written' \subseteq Written
<1>1. CASE out' = out
  BY <1>1 DEF Written
<1>2. CASE out' = Append(out, Frame(block, FALSE))
  <2>1. SUFFICES ASSUME NEW b \in Written' PROVE b \in Written
    OBVIOUS
  <2>2. PICK i \in DOMAIN out' : out'[i].whole /\ \E x \in DOMAIN out'[i].data : b = out'[i].data[x]
    BY DEF Written
  <2>3. i \in 1 .. Len(out) /\ out'[i] = out[i]
    <3>1. FALSE \in BOOLEAN /\ Len(out) \in Nat
      BY OutTyped
    <3>2. i \in 1 .. Len(out) + 1 /\ i # Len(out) + 1
      BY <1>2, <2>2, <3>1, AppendFrame
    <3>3. i \in 1 .. Len(out)
      BY <3>1, <3>2
    <3> QED
      BY <1>2, <3>1, <3>3, AppendFrame
  <2>4. i \in DOMAIN out
    BY <2>3, OutTyped
  <2> QED
    BY <2>2, <2>3, <2>4 DEF Written
<1> QED
  BY <1>1, <1>2

LEMMA WrittenBlock ==
    ASSUME IInv, out' = Append(out, Frame(block, TRUE)), NEW b \in Written'
    PROVE  b \in Written \/ \E x \in 1 .. Len(block) : b = block[x]
<1>1. PICK i \in DOMAIN out' : out'[i].whole /\ \E x \in DOMAIN out'[i].data : b = out'[i].data[x]
  BY DEF Written
<1>2. TRUE \in BOOLEAN /\ Len(out) \in Nat
  BY OutTyped
<1>3. i \in 1 .. Len(out) \/ i = Len(out) + 1
  BY <1>1, <1>2, AppendFrame
<1>4. CASE i \in 1 .. Len(out)
  <2>1. out'[i] = out[i] /\ i \in DOMAIN out
    BY <1>2, <1>4, AppendFrame, OutTyped
  <2>2. out[i].whole /\ \E x \in DOMAIN out[i].data : b = out[i].data[x]
    BY <1>1, <2>1
  <2>3. b \in Written
    BY <2>1, <2>2 DEF Written
  <2> QED
    BY <2>3
<1>5. CASE i = Len(out) + 1
  <2>1. out'[i].data = block
    BY <1>2, <1>5, AppendFrame
  <2>2. DOMAIN block = 1 .. Len(block)
    BY BlockBytes
  <2> QED
    BY <1>1, <2>1, <2>2
<1> QED
  BY <1>3, <1>4, <1>5

LEMMA EndsKept ==
    ASSUME NEW f \in Seq(FileTokens), NEW g, Longer(f, g), NEW at, at = Open => Unsaid(f, g),
           NEW gone, NEW lostNow, gone \subseteq lostNow, Ends(f, at, gone)
    PROVE  Ends(g, at, lostNow)
<1>1. CASE at = Open
  BY <1>1, LongerKeeps DEF Ends
<1>2. CASE at # Open
  <2>1. PICK p : FirstNull(f, p) /\ 1 .. at \subseteq ToSet(BytesBefore(f, p)) \cup gone
    BY <1>2 DEF Ends
  <2>2. FirstNull(g, p) /\ BytesBefore(g, p) = BytesBefore(f, p)
    BY <2>1, LongerKeeps
  <2> QED
    BY <1>2, <2>1, <2>2 DEF Ends
<1> QED
  BY <1>1, <1>2

(* A step that writes nothing, or what brings no bytes. *)
LEMMA QuietFile ==
    ASSUME IInv, FileInv, NEW t, Silent(t), file' = file \o t, closedAt' = closedAt,
           out' \in {out, Append(out, Frame(block, FALSE))}, lost \subseteq lost',
           failures' = 0 => failures = 0 /\ Dispatched' = Dispatched
    PROVE  FileInv'
<1>1. /\ file \in Seq(FileTokens) /\ Written \subseteq ToSet(BytesIn(file))
      /\ Ends(file, closedAt, lost) /\ (failures = 0 => Sound(file, closedAt, Dispatched))
  BY DEF FileInv
<1>2. PICK g : g = file'
  OBVIOUS
<1>3. Longer(file, g) /\ Unsaid(file, g) /\ BytesIn(g) = BytesIn(file)
  BY <1>1, <1>2, SilentLonger
<1>4. g \in Seq(FileTokens)
  BY <1>3 DEF Longer
<1>5. Written' \subseteq ToSet(BytesIn(g))
  BY <1>1, <1>3, WrittenSame
<1>6. Ends(g, closedAt, lost')
  BY <1>1, <1>3, EndsKept
<1>7. ASSUME failures' = 0 PROVE Sound(g, closedAt, Dispatched)
  <2>1. Sound(file, closedAt, Dispatched)
    BY <1>1, <1>7
  <2>2. CASE closedAt = Open
    BY <1>3, <2>1, <2>2 DEF Sound
  <2>3. CASE closedAt # Open
    <3>1. PICK p : FirstNull(file, p) /\ Only(file, p) /\ BytesBefore(file, p) = UpToByte(closedAt)
      BY <2>1, <2>3 DEF Sound
    <3>2. FirstNull(g, p) /\ Only(g, p) /\ BytesBefore(g, p) = BytesBefore(file, p)
      BY <1>1, <1>3, <3>1, LongerKeeps
    <3> QED
      BY <2>3, <3>1, <3>2 DEF Sound
  <2> QED
    BY <2>2, <2>3
<1> QED
  BY <1>2, <1>4, <1>5, <1>6, <1>7 DEF FileInv

LEMMA UpToMore ==
    ASSUME NEW d \in Nat, NEW b \in Seq(Nat), \A x \in 1 .. Len(b) : b[x] = d + x
    PROVE  UpToByte(d) \o b = UpToByte(d + Len(b))
<1>1. PICK u, n : u = UpToByte(d) /\ n = Len(b)
  OBVIOUS
<1>2. n \in Nat /\ u = [k \in 1 .. d |-> k]
  BY <1>1 DEF UpToByte
<1>3. u \in Seq(Nat) /\ Len(u) = d /\ \A k \in 1 .. d : u[k] = k
  BY <1>2
<1>4. PICK v : v = u \o b
  OBVIOUS
<1>5. /\ v \in Seq(Nat) /\ Len(v) = d + n
      /\ \A i \in 1 .. d + n : v[i] = IF i <= d THEN u[i] ELSE b[i - d]
  <2>1. /\ u \o b \in Seq(Nat) /\ Len(u \o b) = Len(u) + Len(b)
        /\ \A i \in 1 .. Len(u) + Len(b) :
                (u \o b)[i] = IF i <= Len(u) THEN u[i] ELSE b[i - Len(u)]
    BY <1>3, ConcatProperties
  <2>2. Len(u) = d /\ Len(b) = n
    BY <1>1, <1>3
  <2> QED
    BY <1>4, <2>1, <2>2, Zenon
<1>6. \A i \in 1 .. d + n : v[i] = i
  <2>1. TAKE i \in 1 .. d + n
  <2>2. CASE i <= d
    BY <1>3, <1>5, <2>2
  <2>3. CASE ~(i <= d)
    <3>1. i - d \in 1 .. n /\ d + (i - d) = i
      BY <1>2, <2>3
    <3>2. b[i - d] = d + (i - d)
      BY <1>1, <3>1
    <3> QED
      BY <1>5, <2>3, <3>1, <3>2
  <2> QED
    BY <2>2, <2>3
<1>7. v = [i \in 1 .. d + n |-> i]
  BY <1>5, <1>6
<1> QED
  BY <1>1, <1>4, <1>7 DEF UpToByte

LEMMA BlockFile ==
    ASSUME IInv, FileInv, NEW t, Brings(t, block), file' = file \o t, closedAt' = closedAt,
           out' = Append(out, Frame(block, TRUE)), lost' = lost, failures' = failures,
           Dispatched' = Dispatched + Len(block)
    PROVE  FileInv'
<1>1. /\ file \in Seq(FileTokens) /\ Written \subseteq ToSet(BytesIn(file))
      /\ Ends(file, closedAt, lost) /\ (failures = 0 => Sound(file, closedAt, Dispatched))
  BY DEF FileInv
<1>2. PICK g : g = file'
  OBVIOUS
<1>3. Longer(file, g) /\ Unsaid(file, g) /\ BytesIn(g) = BytesIn(file) \o block
  BY <1>1, <1>2, BringsLonger
<1>4. g \in Seq(FileTokens)
  BY <1>3 DEF Longer
<1>5. /\ block \in Seq(Nat) /\ Dispatched \in Nat
      /\ \A x \in 1 .. Len(block) : block[x] = Dispatched + x
  BY BlockBytes
<1>6. ASSUME NEW b \in Written' PROVE b \in ToSet(BytesIn(g))
  <2>1. PICK e : e = BytesIn(file)
    OBVIOUS
  <2>2. e \in Seq(Nat)
    BY <1>1, <2>1, BytesTyped
  <2>3. PICK v : v = BytesIn(g)
    OBVIOUS
  <2>4. /\ DOMAIN v = 1 .. Len(e) + Len(block)
        /\ \A i \in 1 .. Len(e) + Len(block) :
                v[i] = IF i <= Len(e) THEN e[i] ELSE block[i - Len(e)]
    <3>1. v = e \o block
      BY <1>3, <2>1, <2>3
    <3>2. v \in Seq(Nat) /\ Len(v) = Len(e) + Len(block)
          /\ \A i \in 1 .. Len(e) + Len(block) :
                v[i] = IF i <= Len(e) THEN e[i] ELSE block[i - Len(e)]
      BY <1>5, <2>2, <3>1, ConcatProperties
    <3> QED
      BY <3>2
  <2>5. PICK i : i \in DOMAIN v /\ v[i] = b
    <3>1. CASE b \in Written
      <4>1. PICK j \in DOMAIN e : e[j] = b
        BY <1>1, <2>1, <3>1 DEF ToSet
      <4>2. j \in 1 .. Len(e) + Len(block) /\ j <= Len(e)
        BY <1>5, <2>2, <4>1
      <4> QED
        BY <2>4, <4>1, <4>2
    <3>2. CASE \E x \in 1 .. Len(block) : b = block[x]
      <4>1. PICK x \in 1 .. Len(block) : b = block[x]
        BY <3>2
      <4>2. PICK j : j = Len(e) + x
        OBVIOUS
      <4>3. j \in 1 .. Len(e) + Len(block) /\ ~(j <= Len(e)) /\ j - Len(e) = x
        BY <1>5, <2>2, <4>2
      <4> QED
        BY <2>4, <4>1, <4>3
    <3> QED
      BY <3>1, <3>2, WrittenBlock
  <2> QED
    BY <2>3, <2>5 DEF ToSet
<1>7. Ends(g, closedAt, lost')
  BY <1>1, <1>3, EndsKept
<1>8. ASSUME failures' = 0 PROVE Sound(g, closedAt, Dispatched')
  <2>1. Sound(file, closedAt, Dispatched)
    BY <1>1, <1>8
  <2>2. CASE closedAt = Open
    <3>1. BytesIn(file) = UpToByte(Dispatched)
      BY <2>1, <2>2 DEF Sound
    <3>2. BytesIn(g) = UpToByte(Dispatched')
      BY <1>3, <1>5, <3>1, UpToMore
    <3> QED
      BY <2>2, <3>2 DEF Sound
  <2>3. CASE closedAt # Open
    <3>1. PICK p : FirstNull(file, p) /\ Only(file, p) /\ BytesBefore(file, p) = UpToByte(closedAt)
      BY <2>1, <2>3 DEF Sound
    <3>2. FirstNull(g, p) /\ Only(g, p) /\ BytesBefore(g, p) = BytesBefore(file, p)
      BY <1>1, <1>3, <3>1, LongerKeeps
    <3> QED
      BY <2>3, <3>1, <3>2 DEF Sound
  <2> QED
    BY <2>2, <2>3
<1> QED
  BY <1>2, <1>4, <1>6, <1>7, <1>8 DEF FileInv

LEMMA NullWordFile ==
    ASSUME IInv, NothingLostSilently, Flow, FileInv, WriteNullWord
    PROVE  FileInv'
<1>1. /\ file \in Seq(FileTokens) /\ Written \subseteq ToSet(BytesIn(file))
      /\ Ends(file, closedAt, lost) /\ (failures = 0 => Sound(file, closedAt, Dispatched))
  BY DEF FileInv
<1>2. PICK g : g = file'
  OBVIOUS
<1>3. /\ g = Append(file, Terminator)
      /\ closedAt' = (IF closedAt = Open THEN accepted ELSE closedAt)
      /\ UNCHANGED vars /\ op = "close" /\ ~emitting /\ ~MoreToCompress /\ ~terminated
  BY <1>2 DEF WriteNullWord
<1>4. /\ Longer(file, g) /\ BytesIn(g) = BytesIn(file)
      /\ Unended(file) => \E p : /\ FirstNull(g, p) /\ Only(g, p)
                                 /\ BytesBefore(g, p) = BytesIn(file)
  BY <1>1, <1>3, NullWordLonger
<1>5. g \in Seq(FileTokens)
  BY <1>4 DEF Longer
<1>6. Dispatched = accepted /\ accepted \in Nat
  <2>1. holdover = NoHoldover /\ ~(inputBufferLen > 0)
    BY <1>3 DEF MoreToCompress
  <2>2. block = << >> /\ inputBufferLen \in 0 .. N /\ accepted \in Nat
    BY <1>3 DEF IInv, BlockInCall, TypeOK
  <2>3. inputBufferLen = 0 /\ HeldLen = 0 /\ Len(block) = 0
    BY <2>1, <2>2, NAssumption DEF HeldLen, LenOf
  <2> QED
    BY <2>2, <2>3 DEF Dispatched, Buffered
<1>7. Written' = Written /\ lost' = lost /\ Dispatched' = Dispatched /\ failures' = failures
  BY <1>3 DEF vars, buffers, Written, Dispatched, Buffered, HeldLen
<1>8. CASE closedAt = Open
  <2>1. closedAt' = accepted /\ accepted # Open
    BY <1>3, <1>6, <1>8 DEF Open
  <2>2. PICK p : FirstNull(g, p) /\ Only(g, p) /\ BytesBefore(g, p) = BytesIn(file)
    BY <1>1, <1>4, <1>8 DEF Ends
  <2>3. 1 .. accepted \subseteq ToSet(BytesIn(file)) \cup lost
    BY <1>1, <1>6 DEF NothingLostSilently
  <2>4. Ends(g, accepted, lost)
    BY <2>1, <2>2, <2>3 DEF Ends
  <2>5. failures = 0 => Sound(g, accepted, Dispatched)
    BY <1>1, <1>6, <1>8, <2>1, <2>2 DEF Sound
  <2> QED
    BY <1>1, <1>2, <1>4, <1>5, <1>7, <2>1, <2>4, <2>5 DEF FileInv
<1>9. CASE closedAt # Open
  <2>1. failures # 0 /\ closedAt' = closedAt
    BY <1>3, <1>9 DEF Flow
  <2>2. Ends(g, closedAt, lost)
    BY <1>1, <1>4, <1>9, EndsKept
  <2> QED
    BY <1>1, <1>2, <1>4, <1>5, <1>7, <2>1, <2>2 DEF FileInv
<1> QED
  BY <1>8, <1>9

LEMMA NextFile ==
    IInv /\ NothingLostSilently /\ Flow /\ FileInv /\ [LzopNext]_lzopVars => FileInv'
<1> SUFFICES ASSUME IInv, NothingLostSilently, Flow, FileInv, [LzopNext]_lzopVars PROVE FileInv'
  OBVIOUS
<1>1. failures \in Nat /\ [Next]_vars
  BY LzopNextIsNext DEF IInv, TypeOK
<1>2. ASSUME file' = file, closedAt' = closedAt, out' = out, lost \subseteq lost'
      PROVE  FileInv'
  <2>1. Silent(<< >>) /\ file' = file \o << >>
    <3>1. file \in Seq(FileTokens)
      BY DEF FileInv
    <3>2. Silent(<< >>)
      BY DEF Silent
    <3> QED
      BY <1>2, <3>1, <3>2, ConcatEmptySeq
  <2>2. failures' = 0 => failures = 0 /\ Dispatched' = Dispatched
    <3>1. CASE Keeps
      BY <3>1 DEF Keeps
    <3>2. CASE Loses
      BY <1>1, <3>2 DEF Loses
    <3>3. CASE Emits
      <4>1. out' = Append(out, Frame(block, TRUE)) /\ TRUE \in BOOLEAN /\ Len(out) \in Nat
        BY <3>3, OutTyped DEF Emits
      <4>2. Len(out') = Len(out) + 1
        BY <4>1, AppendFrame
      <4> QED
        BY <1>2, <4>1, <4>2
    <3> QED
      BY <1>1, <3>1, <3>2, <3>3, StepKinds
  <2>3. out' \in {out, Append(out, Frame(block, FALSE))}
    BY <1>2
  <2> QED
    BY <1>2, <2>1, <2>2, <2>3, QuietFile
<1>3. CASE LzopCall \/ Close
  BY <1>2, <1>3 DEF LzopCall, Close, Write, RefuseWrite, Drain, fileVars
<1>4. CASE CloseAgain \/ UNCHANGED lzopVars
  BY <1>2, <1>4 DEF CloseAgain, lzopVars, vars, fileVars
<1>5. CASE Buffering
  BY <1>2, <1>5 DEF Buffering, TakeInput, TakeHoldover, CompressorFails, Throw, Return, fileVars
<1>6. ASSUME emitting, NEW packedLen \in PackedLens, NEW w, w = LzopBlock(flags, block, packedLen)
      PROVE  /\ Brings(w, block) /\ w \in Seq(FileTokens) /\ Len(w) \in Nat \ {0}
             /\ \A i \in 1 .. Len(w) - 1 : Quiet(w[i])
  <2>1. block \in Seq(Nat) /\ Len(block) \in Nat \ {0}
    BY <1>6, NAssumption DEF IInv, TypeOK, ShortBlockIsLast
  <2>2. block # << >> /\ packedLen \in Nat \ {0} /\ packedLen <= Len(block)
    BY <2>1 DEF PackedLens
  <2> QED
    BY <1>6, <2>1, <2>2, BlockBrings
<1>7. CASE WriteBlock
  <2>1. PICK packedLen \in PackedLens : file' = file \o LzopBlock(flags, block, packedLen)
    BY <1>7 DEF WriteBlock
  <2>2. PICK w : w = LzopBlock(flags, block, packedLen)
    OBVIOUS
  <2>3. Brings(w, block)
    BY <1>6, <1>7, <2>2 DEF WriteBlock, EmitBlock
  <2>4. /\ closedAt' = closedAt /\ lost' = lost /\ failures' = failures
        /\ out' = Append(out, Frame(block, TRUE))
    BY <1>7 DEF WriteBlock, EmitBlock
  <2>5. Dispatched' = Dispatched + Len(block)
    BY <1>7, BlockLeaves DEF WriteBlock, EmitBlock
  <2> QED
    BY <2>1, <2>2, <2>3, <2>4, <2>5, BlockFile
<1>8. CASE WriteBlockFails
  <2>1. PICK packedLen \in PackedLens :
            file' \in {file \o torn : torn \in Torn(LzopBlock(flags, block, packedLen))}
    BY <1>8 DEF WriteBlockFails
  <2>2. PICK w : w = LzopBlock(flags, block, packedLen)
    OBVIOUS
  <2>3. PICK t \in Torn(w) : file' = file \o t
    BY <2>1, <2>2
  <2>4. Silent(t)
    BY <1>6, <1>8, <2>2, TornIsSilent DEF WriteBlockFails, SinkFails
  <2>5. closedAt' = closedAt /\ SinkFails
    BY <1>8 DEF WriteBlockFails
  <2>6. Throw /\ out' \in {out, Append(out, Frame(block, FALSE))}
    BY <2>5 DEF SinkFails
  <2>7. lost \subseteq lost' /\ failures' # 0
    BY <1>1, <2>6 DEF Throw
  <2> QED
    BY <2>3, <2>4, <2>5, <2>6, <2>7, QuietFile
<1>9. CASE WriteNullWord
  BY <1>9, NullWordFile
<1>10. CASE WriteNullWordFails
  <2>1. /\ closedAt' = closedAt /\ lost \subseteq lost' /\ failures' # 0 /\ out' = out
        /\ file' = file \/ file' = Append(file, Part)
    BY <1>1, <1>10 DEF WriteNullWordFails, Throw
  <2>2. CASE file' = file
    BY <1>2, <2>1, <2>2
  <2>3. CASE file' = Append(file, Part)
    <3>1. PICK t : t = <<Part>>
      OBVIOUS
    <3>2. Part \in FileTokens /\ file \in Seq(FileTokens)
      BY DEF FileInv, FileTokens
    <3>3. file' = file \o t /\ t \in Seq(FileTokens) /\ Len(t) = 1 /\ t[1] = Part
      <4> HIDE DEF FileTokens
      <4> QED
        BY <2>3, <3>1, <3>2
    <3>4. Silent(t)
      BY <3>3, QuietTokens DEF Silent
    <3> QED
      BY <2>1, <3>3, <3>4, QuietFile
  <2> QED
    BY <2>1, <2>2, <2>3
<1>11. CASE LzopCloseSink
  BY <1>2, <1>11 DEF LzopCloseSink, CloseSink, Throw
<1> QED
  BY <1>3, <1>4, <1>5, <1>7, <1>8, <1>9, <1>10, <1>11 DEF LzopNext, LzopStep

LEMMA NoBytesInNothing == BytesIn(<< >>) = << >>
<1>1. << >> \in Seq(FileTokens) /\ Len(<< >>) = 0
  OBVIOUS
<1>2. PICK s : s = BytesOfAll(<< >>)
  OBVIOUS
<1>3. Len(s) = 0
  BY <1>1, <1>2, BytesTyped
<1>4. FlattenSeq(s) = << >>
  BY <1>3 DEF FlattenSeq
<1> QED
  BY <1>2, <1>4, BytesAre

LEMMA InitFile == LzopInit => Flow /\ FileInv
<1> SUFFICES ASSUME LzopInit PROVE Flow /\ FileInv
  OBVIOUS
<1>1. PICK h : h = Header(flags)
  OBVIOUS
<1>2. h \in HeaderTokens /\ h.kind = "header"
  BY <1>1 DEF LzopInit, Header, HeaderTokens
<1>3. h \in FileTokens /\ BytesOf(h) = << >> /\ h # Terminator
  BY <1>2, FlagsAssumption DEF FileTokens, BytesOf, Terminator, Word
<1>4. file = <<h>> /\ closedAt = Open /\ out = << >> /\ op = "none" /\ ~terminated /\ ~closed
  BY <1>1 DEF LzopInit, Init
<1>5. Flow
  BY <1>4 DEF Flow
<1> HIDE DEF FileTokens
<1>6. file \in Seq(FileTokens) /\ Len(file) = 1 /\ file[1] = h
  BY <1>3, <1>4
<1>7. BytesIn(file) = << >>
  <2>1. PICK e : e = SubSeq(file, 1, 0)
    OBVIOUS
  <2>2. e \in Seq(FileTokens) /\ Len(e) = 0
    BY <1>6, <2>1
  <2>3. Silent(file)
    BY <1>3, <1>6 DEF Silent, Quiet
  <2>4. file = << >> \o file /\ << >> \in Seq(FileTokens)
    BY <1>6
  <2>5. BytesIn(file) = BytesIn(<< >>)
    BY <2>3, <2>4, SilentLonger
  <2> QED
    BY <2>5, NoBytesInNothing
<1>8. Written = {}
  BY <1>4 DEF Written
<1>9. Unended(file)
  BY <1>3, <1>6 DEF Unended
<1>10. Dispatched = 0
  BY InitDispatched DEF LzopInit
<1>11. UpToByte(0) = << >>
  BY DEF UpToByte
<1>12. Ends(file, closedAt, lost)
  BY <1>4, <1>9 DEF Ends
<1>13. Sound(file, closedAt, Dispatched)
  BY <1>4, <1>7, <1>10, <1>11 DEF Sound
<1> QED
  BY <1>5, <1>6, <1>8, <1>12, <1>13 DEF FileInv

(* FileInv needs to know what has left the buffers, and when close() ran. *)
Closing == IInv /\ NothingLostSilently /\ Flow /\ FileInv

LEMMA ClosingHolds == LzopSpec => []Closing
<1>1. LzopInit => Closing
  BY InitAccounts, InitFile DEF Closing
<1>2. Closing /\ [LzopNext]_lzopVars => Closing'
  BY NextAccounts, NextFlow, NextFile DEF Closing
<1> QED
  BY <1>1, <1>2, PTL DEF LzopSpec

(* BeforeNullWord is what its name says. *)
LEMMA BodyEnds ==
    ASSUME file \in Seq(FileTokens), NEW p, FirstNull(file, p)
    PROVE  BytesIn(BeforeNullWord) = BytesBefore(file, p)
<1> HIDE DEF FileTokens
<1>1. PICK I : I = {i \in 1 .. Len(file) : file[i] = Terminator}
  OBVIOUS
<1>2. p \in I /\ \A i \in I : p <= i
  <2>1. DOMAIN file = 1 .. Len(file) /\ Len(file) \in Nat
    OBVIOUS
  <2>2. p \in 1 .. Len(file) /\ file[p] = Terminator /\ \A i \in 1 .. p - 1 : file[i] # Terminator
    BY <2>1 DEF FirstNull
  <2>3. ASSUME NEW i \in I PROVE p <= i
    <3>1. i \in 1 .. Len(file) /\ file[i] = Terminator
      BY <1>1
    <3>2. i \notin 1 .. p - 1
      BY <2>2, <3>1
    <3> QED
      BY <2>1, <2>2, <3>1, <3>2
  <2> QED
    BY <1>1, <2>2, <2>3
<1>3. Body = Min(I)
  BY <1>1, <1>2 DEF Body, SelectInSeq
<1>4. Min(I) = p
  <2>1. PICK q : q = Min(I)
    OBVIOUS
  <2>2. q \in I /\ \A i \in I : q <= i
    BY <1>2, <2>1 DEF Min
  <2>3. p \in Nat /\ q \in Nat /\ p <= q /\ q <= p
    BY <1>1, <1>2, <2>2
  <2> QED
    BY <2>1, <2>3
<1>5. p # 0
  BY <1>1, <1>2
<1> QED
  BY <1>3, <1>4, <1>5 DEF BeforeNullWord, BytesBefore

(* A caller none of whose calls has failed gets, when it closes the        *)
(* stream, one null word in the file, behind exactly the bytes it had      *)
(* written, in order; before that there is none, and no length of a block  *)
(* is taken for one.                                                       *)
THEOREM NullWordEnds == LzopSpec => []NullWordEndsFile
<1>1. ASSUME Closing PROVE NullWordEndsFile
  <2> SUFFICES ASSUME failures = 0
               PROVE  /\ NullWords = IF closedAt = Open THEN 0 ELSE 1
                      /\ closedAt # Open => BytesIn(BeforeNullWord) = [k \in 1 .. closedAt |-> k]
    BY DEF NullWordEndsFile
  <2>1. /\ file \in Seq(FileTokens) /\ Ends(file, closedAt, lost)
        /\ Sound(file, closedAt, Dispatched)
    BY <1>1 DEF Closing, FileInv
  <2>2. CASE closedAt = Open
    <3>1. {i \in DOMAIN file : file[i] = Terminator} = {}
      BY <2>1, <2>2 DEF Ends, Unended
    <3> QED
      BY <2>2, <3>1, FS_EmptySet DEF NullWords
  <2>3. CASE closedAt # Open
    <3>1. PICK p : /\ FirstNull(file, p) /\ Only(file, p)
                   /\ BytesBefore(file, p) = UpToByte(closedAt)
      BY <2>1, <2>3 DEF Sound
    <3>2. {i \in DOMAIN file : file[i] = Terminator} = {p}
      BY <3>1 DEF FirstNull, Only
    <3>3. NullWords = 1
      BY <3>2, FS_Singleton DEF NullWords
    <3>4. BytesIn(BeforeNullWord) = [k \in 1 .. closedAt |-> k]
      BY <2>1, <3>1, BodyEnds DEF UpToByte
    <3> QED
      BY <2>3, <3>3, <3>4
  <2> QED
    BY <2>2, <2>3
<1> QED
  BY <1>1, ClosingHolds, PTL

(* A stream whose `closed` is set has closed its sink, and its file holds  *)
(* in front of the null word all that was accepted before, except what a   *)
(* call that threw has reported: also when the first close() failed half   *)
(* way and another one finished the work.                                  *)
THEOREM CloseMeansIt == LzopSpec => []ClosedMeansClosed
<1>1. ASSUME Closing PROVE ClosedMeansClosed
  <2> SUFFICES ASSUME closed
               PROVE  /\ sinkClosed /\ closedAt # Open
                      /\ 1 .. closedAt \subseteq ToSet(BytesIn(BeforeNullWord)) \cup lost
    BY DEF ClosedMeansClosed
  <2>1. sinkClosed /\ closedAt # Open
    BY <1>1 DEF Closing, Flow
  <2>2. file \in Seq(FileTokens) /\ Ends(file, closedAt, lost)
    BY <1>1 DEF Closing, FileInv
  <2>3. PICK p : FirstNull(file, p) /\ 1 .. closedAt \subseteq ToSet(BytesBefore(file, p)) \cup lost
    BY <2>1, <2>2 DEF Ends
  <2> QED
    BY <2>1, <2>2, <2>3, BodyEnds
<1> QED
  BY <1>1, ClosingHolds, PTL


-----------------------------------------------------------------------------
(* A file whose blocks are there in full, as a reader will find it.        *)

(* A block of these bytes leads from one place of B to another. *)
BlockAhead(f, on, B, upTo, b, bytes, size, packed) ==
    /\ bytes # << >> /\ size <= Len(bytes) /\ (packed <=> size < Len(bytes))
    /\ BlockBehind(f, b, on, bytes, packed, size)
    /\ \A j \in 1 .. SizeOf(on, packed) : f[b + j] # Terminator
    /\ b + SizeOf(on, packed) \in B
    /\ upTo[b + SizeOf(on, packed)] = upTo[b] \o bytes

NullAhead(f, B, upTo, b) ==
    f[b + 1] = Terminator /\ b + 1 \in B /\ upTo[b + 1] = upTo[b]

Joint(f, on, B, upTo, b) ==
    \/ NullAhead(f, B, upTo, b)
    \/ \E bytes \in Seq(Nat), size \in Nat, packed \in BOOLEAN :
            BlockAhead(f, on, B, upTo, b, bytes, size, packed)

Begins(s, t) == Len(s) <= Len(t) /\ \A i \in 1 .. Len(s) : t[i] = s[i]

(* B is where the header, the blocks and the null words end; upTo are the  *)
(* bytes of the blocks up to there.                                        *)
Laid(f, on, B, upTo) ==
    /\ B \subseteq 1 .. Len(f) /\ 1 \in B /\ Len(f) \in B
    /\ upTo \in [B -> Seq(Nat)] /\ upTo[1] = << >>
    /\ f[1] = Header(on)
    /\ \A b \in B : b < Len(f) => Joint(f, on, B, upTo, b)
    /\ \A b \in B : Begins(upTo[b], upTo[Len(f)])

(* The n tokens of g behind the p-th are those of f behind the o-th. *)
Same(f, o, g, p, n) == \A j \in 1 .. n : g[p + j] = f[o + j]

LEMMA BlockCarried ==
    ASSUME NEW f, NEW g, NEW o \in Nat, NEW p \in Nat, NEW on, NEW bytes, NEW packed \in BOOLEAN,
           NEW size, BlockBehind(f, o, on, bytes, packed, size),
           Same(f, o, g, p, SizeOf(on, packed))
    PROVE  BlockBehind(g, p, on, bytes, packed, size)
<1>1. PICK n \in Nat, m \in Nat : n = Len(DNamesOf(on)) /\ m = Len(CNamesOf(on))
  BY NamesLens
<1>2. PICK s \in Nat : s = SizeOf(on, packed) /\ s = 3 + n + (IF packed THEN m ELSE 0)
  BY <1>1, NamesLens DEF SizeOf
<1>3. \A j \in 1 .. s : g[p + j] = f[o + j]
  BY <1>2 DEF Same
<1>4. 1 \in 1 .. s /\ 2 \in 1 .. s /\ s \in 1 .. s
  BY <1>2
<1>5. g[p + 1] = Word(Len(bytes)) /\ g[p + 2] = Word(size) /\ g[p + s] = Data(bytes, packed)
  BY <1>2, <1>3, <1>4 DEF BlockBehind
<1>6. ASSUME NEW k \in 1 .. n
      PROVE  g[p + 2 + k] = Checksum(DNamesOf(on)[k], Data(bytes, FALSE))
  <2>1. 2 + k \in 1 .. s /\ p + (2 + k) = p + 2 + k /\ o + (2 + k) = o + 2 + k
    BY <1>2
  <2>2. g[p + 2 + k] = f[o + 2 + k]
    BY <1>3, <2>1
  <2> QED
    BY <1>1, <2>2 DEF BlockBehind
<1>7. ASSUME packed, NEW k \in 1 .. m
      PROVE  g[p + 2 + n + k] = Checksum(CNamesOf(on)[k], Data(bytes, TRUE))
  <2>1. /\ 2 + n + k \in 1 .. s /\ p + (2 + n + k) = p + 2 + n + k
        /\ o + (2 + n + k) = o + 2 + n + k
    BY <1>2, <1>7
  <2>2. g[p + 2 + n + k] = f[o + 2 + n + k]
    BY <1>3, <2>1
  <2> QED
    BY <1>1, <1>7, <2>2 DEF BlockBehind
<1> QED
  BY <1>1, <1>2, <1>5, <1>6, <1>7 DEF BlockBehind

LEMMA BeginsMore ==
    ASSUME NEW s \in Seq(Nat), NEW t \in Seq(Nat), NEW u \in Seq(Nat), Begins(s, t)
    PROVE  Begins(s, t \o u) /\ Begins(t, t \o u)
<1>1. PICK v : v = t \o u
  OBVIOUS
<1>2. Len(v) = Len(t) + Len(u) /\ \A i \in 1 .. Len(t) : v[i] = t[i]
  BY <1>1
<1>3. /\ Len(s) \in Nat /\ Len(t) \in Nat /\ Len(u) \in Nat
      /\ Len(s) <= Len(t) /\ \A i \in 1 .. Len(s) : t[i] = s[i]
  BY DEF Begins
<1>4. Len(s) <= Len(v) /\ Len(t) <= Len(v) /\ \A i \in 1 .. Len(s) : v[i] = s[i]
  BY <1>2, <1>3
<1> QED
  BY <1>1, <1>2, <1>4 DEF Begins

(* What is appended: one block, or one null word with no bytes. *)
Grows(f, g, on, B, upTo, more, C, upTo2) ==
    /\ f \in Seq(FileTokens) /\ g \in Seq(FileTokens) /\ Len(f) < Len(g)
    /\ \A i \in 1 .. Len(f) : g[i] = f[i]
    /\ C = B \cup {Len(g)}
    /\ upTo2 = [b \in C |-> IF b = Len(g) THEN upTo[Len(f)] \o more ELSE upTo[b]]

LEMMA LaidGrows ==
    ASSUME NEW f, NEW g, NEW on, NEW B, NEW upTo, NEW more \in Seq(Nat), NEW C, NEW upTo2,
           Grows(f, g, on, B, upTo, more, C, upTo2), Laid(f, on, B, upTo),
           Joint(g, on, C, upTo2, Len(f))
    PROVE  Laid(g, on, C, upTo2)
<1>1. /\ f \in Seq(FileTokens) /\ g \in Seq(FileTokens) /\ Len(f) < Len(g)
      /\ Len(f) \in Nat /\ Len(g) \in Nat
      /\ \A i \in 1 .. Len(f) : g[i] = f[i]
      /\ C = B \cup {Len(g)}
      /\ upTo2 = [b \in C |-> IF b = Len(g) THEN upTo[Len(f)] \o more ELSE upTo[b]]
  BY LenProperties DEF Grows
<1>2. PICK n \in Nat, m \in Nat : n = Len(f) /\ m = Len(g) /\ n < m
  BY <1>1
<1>3. /\ B \subseteq 1 .. n /\ 1 \in B /\ n \in B
      /\ upTo \in [B -> Seq(Nat)] /\ upTo[1] = << >> /\ f[1] = Header(on)
      /\ \A b \in B : b < n => Joint(f, on, B, upTo, b)
      /\ \A b \in B : Begins(upTo[b], upTo[n])
  BY <1>2 DEF Laid
<1>4. \A b \in B : b \in C /\ b # m /\ upTo2[b] = upTo[b] /\ upTo[b] \in Seq(Nat)
  BY <1>1, <1>2, <1>3
<1>5. PICK e : e = upTo[n] \o more
  OBVIOUS
<1>6. upTo2[m] = e /\ e \in Seq(Nat) /\ m \in C
  BY <1>1, <1>2, <1>3, <1>5, <1>4
<1>7. upTo2 \in [C -> Seq(Nat)]
  <2>1. \A b \in C : upTo2[b] \in Seq(Nat)
    BY <1>1, <1>2, <1>4, <1>6
  <2> QED
    BY <1>1, <2>1
<1>8. C \subseteq 1 .. m /\ 1 \in C
  <2>1. m \in 1 .. m /\ \A b \in B : b \in 1 .. m
    BY <1>2, <1>3
  <2> QED
    BY <1>1, <1>2, <1>3, <2>1
<1>9. upTo2[1] = << >> /\ g[1] = Header(on)
  BY <1>1, <1>2, <1>3, <1>4
<1>10. ASSUME NEW b \in C PROVE Begins(upTo2[b], e)
  <2>1. CASE b = m
    BY <1>6, <2>1 DEF Begins
  <2>2. CASE b \in B
    BY <1>3, <1>4, <1>5, <2>2, BeginsMore
  <2> QED
    BY <1>1, <1>2, <2>1, <2>2
<1>11. ASSUME NEW b \in C, b < m PROVE Joint(g, on, C, upTo2, b)
  <2>1. b \in B
    BY <1>1, <1>2, <1>11
  <2>2. CASE b = n
    BY <1>2, <2>2
  <2>3. CASE b # n
    <3>1. b < n /\ b \in Nat /\ Joint(f, on, B, upTo, b)
      BY <1>3, <2>1, <2>3
    <3>2. CASE NullAhead(f, B, upTo, b)
      <4>1. f[b + 1] = Terminator /\ b + 1 \in B /\ upTo[b + 1] = upTo[b]
        BY <3>2 DEF NullAhead
      <4>2. g[b + 1] = f[b + 1] /\ b + 1 \in C /\ upTo2[b + 1] = upTo2[b]
        BY <1>1, <1>2, <1>3, <1>4, <2>1, <4>1
      <4> QED
        BY <4>1, <4>2 DEF Joint, NullAhead
    <3>3. ASSUME NEW bytes \in Seq(Nat), NEW size \in Nat, NEW packed \in BOOLEAN,
                 BlockAhead(f, on, B, upTo, b, bytes, size, packed)
          PROVE  Joint(g, on, C, upTo2, b)
      <4>1. PICK s : s = SizeOf(on, packed)
        OBVIOUS
      <4>2. /\ bytes # << >> /\ size <= Len(bytes) /\ (packed <=> size < Len(bytes))
            /\ BlockBehind(f, b, on, bytes, packed, size)
            /\ \A j \in 1 .. s : f[b + j] # Terminator
            /\ b + s \in B /\ upTo[b + s] = upTo[b] \o bytes
        BY <3>3, <4>1 DEF BlockAhead
      <4>3. s \in Nat
        BY <4>1, NamesLens
      <4>4. \A j \in 1 .. s : b + j \in 1 .. n
        BY <1>3, <3>1, <4>2, <4>3
      <4>5. \A j \in 1 .. s : g[b + j] = f[b + j]
        BY <1>1, <1>2, <4>4
      <4>6. BlockBehind(g, b, on, bytes, packed, size)
        <5>1. Same(f, b, g, b, SizeOf(on, packed))
          BY <4>1, <4>5 DEF Same
        <5> QED
          BY <3>1, <4>2, <5>1, BlockCarried
      <4>7. b + s \in C /\ upTo2[b + s] = upTo2[b] \o bytes
        BY <1>4, <2>1, <4>2
      <4>8. BlockAhead(g, on, C, upTo2, b, bytes, size, packed)
        BY <4>1, <4>2, <4>5, <4>6, <4>7 DEF BlockAhead
      <4> QED
        BY <4>8 DEF Joint
    <3> QED
      BY <3>1, <3>2, <3>3 DEF Joint
  <2> QED
    BY <2>2, <2>3
<1> QED
  BY <1>2, <1>6, <1>7, <1>8, <1>9, <1>10, <1>11 DEF Laid


(* The bytes that were known by the shorter file stand where they stood. *)
Extends(B, upTo, C, upTo2) == B \subseteq C /\ \A b \in B : upTo2[b] = upTo[b]

(* A block of these bytes is written behind the file. *)
Appends(f, on, bytes, size, w, g) ==
    /\ bytes # << >> /\ size <= Len(bytes)
    /\ w = LzopBlock(on, bytes, size) /\ g = f \o w

(* g is such a file too, with more behind the bytes known before. *)
LaidOn(g, on, B, upTo, bytes) ==
    \E C, upTo2 : /\ Laid(g, on, C, upTo2) /\ Extends(B, upTo, C, upTo2)
                  /\ upTo2[Len(g)] = bytes

LEMMA BlockAppended ==
    ASSUME NEW f \in Seq(FileTokens), NEW on, NEW B, NEW upTo, Laid(f, on, B, upTo),
           NEW bytes \in Seq(Nat), NEW size \in Nat \ {0}, NEW w, NEW g,
           Appends(f, on, bytes, size, w, g)
    PROVE  LaidOn(g, on, B, upTo, upTo[Len(f)] \o bytes)
<1> HIDE DEF FileTokens
<1> bytes # << >> /\ size <= Len(bytes) /\ w = LzopBlock(on, bytes, size) /\ g = f \o w
  BY DEF Appends
<1>1. PICK packed \in BOOLEAN : packed <=> size < Len(bytes)
  OBVIOUS
<1>2. /\ Len(w) = SizeOf(on, packed)
      /\ BlockBehind(w, 0, on, bytes, packed, size)
  <2>1. IsBlock(w, on, bytes, packed, size)
    BY <1>1 DEF IsBlock
  <2> QED
    BY <2>1, LzopBlockTokens
<1>3. w \in Seq(FileTokens)
  BY BlockBrings
<1>4. PICK n \in Nat, s \in Nat : n = Len(f) /\ s = SizeOf(on, packed)
  <2>1. Len(f) \in Nat
    BY LenProperties
  <2>2. SizeOf(on, packed) \in Nat
    BY NamesLens
  <2> QED
    BY <2>1, <2>2
<1> s >= 3
  BY <1>4, NamesLens
<1>5. /\ g \in Seq(FileTokens) /\ Len(g) = n + s /\ Len(f) < Len(g)
      /\ \A i \in 1 .. n : g[i] = f[i]
      /\ \A j \in 1 .. s : g[n + j] = w[j]
  <2>1. JoinOf(FileTokens, f, w, g)
    BY <1>3 DEF JoinOf
  <2>2. g \in Seq(FileTokens) /\ Joined(f, w, g)
    BY <2>1, JoinedParts
  <2> QED
    BY <1>2, <1>4, <2>2 DEF Joined
<1>6. PICK C, upTo2 :
        /\ C = B \cup {Len(g)}
        /\ upTo2 = [b \in C |-> IF b = Len(g) THEN upTo[Len(f)] \o bytes ELSE upTo[b]]
  OBVIOUS
<1>7. Grows(f, g, on, B, upTo, bytes, C, upTo2)
  BY <1>4, <1>5, <1>6 DEF Grows
<1>8. B \subseteq 1 .. n /\ n \in B
  BY <1>4 DEF Laid
<1>9. Extends(B, upTo, C, upTo2) /\ upTo2[n] = upTo[n] /\ upTo2[n + s] = upTo[n] \o bytes
  <2>1. Len(g) = n + s /\ n # n + s /\ \A b \in B : b # n + s
    BY <1>5, <1>8
  <2> QED
    BY <1>4, <1>6, <1>8, <2>1 DEF Extends
<1>10. BlockBehind(g, n, on, bytes, packed, size)
  <2>1. \A j \in 1 .. s : g[n + j] = w[0 + j]
    <3>1. \A j \in 1 .. s : 0 + j = j
      OBVIOUS
    <3> QED
      BY <1>5, <3>1
  <2>2. Same(w, 0, g, n, SizeOf(on, packed))
    BY <1>4, <2>1 DEF Same
  <2> QED
    BY <1>2, <2>2, BlockCarried
<1>11. BlockAhead(g, on, C, upTo2, n, bytes, size, packed)
  <2>1. \A j \in 1 .. s : g[n + j] # Terminator
    <3>1. PICK h, x : Silent(h) /\ w = Append(h, x) /\ x # Terminator
      <4>1. Brings(w, bytes)
        BY BlockBrings
      <4> QED
        BY <4>1 DEF Brings
    <3>2. \A i \in 1 .. s - 1 : w[i] # Terminator
      BY <1>2, <1>4, BlockBrings DEF Quiet
    <3>3. w[s] # Terminator
      <4>1. h \in Seq(FileTokens) /\ Len(h) \in Nat
        BY <3>1, LenProperties DEF Silent
      <4>2. Len(w) = Len(h) + 1 /\ w[Len(h) + 1] = x
        BY <3>1, <4>1
      <4> QED
        BY <1>2, <1>4, <3>1, <4>1, <4>2
    <3>4. \A j \in 1 .. s : j \in 1 .. s - 1 \/ j = s
      OBVIOUS
    <3> QED
      BY <1>5, <3>2, <3>3, <3>4
  <2> QED
    BY <1>1, <1>4, <1>5, <1>6, <1>9, <1>10, <2>1 DEF BlockAhead
<1>12. Joint(g, on, C, upTo2, Len(f))
  BY <1>4, <1>11 DEF Joint
<1>13. Laid(g, on, C, upTo2)
  BY <1>7, <1>12, LaidGrows
<1> QED
  BY <1>4, <1>5, <1>9, <1>13 DEF LaidOn

LEMMA NullAppended ==
    ASSUME NEW f \in Seq(FileTokens), NEW on, NEW B, NEW upTo, Laid(f, on, B, upTo),
           NEW g, g = Append(f, Terminator)
    PROVE  LaidOn(g, on, B, upTo, upTo[Len(f)])
<1>1. Terminator \in FileTokens
  BY DEF FileTokens, LzopTokens, Tokens, WordTokens, Terminator, Word
<1> HIDE DEF FileTokens, Terminator
<1>2. PICK n \in Nat : n = Len(f)
  OBVIOUS
<1>3. /\ g \in Seq(FileTokens) /\ Len(g) = n + 1 /\ Len(f) < Len(g)
      /\ g[n + 1] = Terminator /\ \A i \in 1 .. n : g[i] = f[i]
  BY <1>1, <1>2
<1>4. B \subseteq 1 .. n /\ n \in B /\ upTo[n] \in Seq(Nat)
  BY <1>2 DEF Laid
<1>5. PICK e : e = << >> /\ e \in Seq(Nat)
  <2>1. << >> \in Seq(Nat)
    OBVIOUS
  <2> QED
    BY <2>1
<1>6. upTo[n] \o e = upTo[n]
  BY <1>4, <1>5, ConcatEmptySeq
<1>7. PICK C, upTo2 :
        /\ C = B \cup {Len(g)}
        /\ upTo2 = [b \in C |-> IF b = Len(g) THEN upTo[Len(f)] \o e ELSE upTo[b]]
  OBVIOUS
<1>8. Grows(f, g, on, B, upTo, e, C, upTo2)
  BY <1>2, <1>3, <1>7 DEF Grows
<1>9. Extends(B, upTo, C, upTo2) /\ upTo2[n] = upTo[n] /\ upTo2[n + 1] = upTo[n]
  BY <1>2, <1>3, <1>4, <1>6, <1>7 DEF Extends
<1>10. Joint(g, on, C, upTo2, Len(f))
  BY <1>2, <1>3, <1>7, <1>9 DEF Joint, NullAhead
<1>11. Laid(g, on, C, upTo2)
  BY <1>5, <1>8, <1>10, LaidGrows
<1> QED
  BY <1>2, <1>3, <1>9, <1>11 DEF LaidOn

-----------------------------------------------------------------------------
(* The bytes that reached the file *)

(* The bytes up to d but for those that are gone, each once and in order. *)
Selected(s, d, gone) ==
    /\ \A i \in 1 .. Len(s) : s[i] \in 1 .. d /\ s[i] \notin gone
    /\ \A k \in 1 .. d : k \in gone \/ \E i \in 1 .. Len(s) : s[i] = k
    /\ \A i, j \in 1 .. Len(s) : i < j => s[i] < s[j]

LEMMA SelectedMore ==
    ASSUME NEW s \in Seq(Nat), NEW d \in Nat, NEW gone, gone \subseteq 1 .. d, Selected(s, d, gone),
           NEW b \in Seq(Nat), \A x \in 1 .. Len(b) : b[x] = d + x
    PROVE  Selected(s \o b, d + Len(b), gone)
<1>1. PICK v, m, n : v = s \o b /\ m = Len(s) /\ n = Len(b)
  OBVIOUS
<1> m \in Nat /\ n \in Nat
  BY <1>1
<1>2. /\ Len(v) = m + n
      /\ \A i \in 1 .. m + n : v[i] = IF i <= m THEN s[i] ELSE b[i - m]
  BY <1>1, ConcatProperties
<1>3. /\ \A i \in 1 .. m : s[i] \in 1 .. d /\ s[i] \notin gone
      /\ \A k \in 1 .. d : k \in gone \/ \E i \in 1 .. m : s[i] = k
      /\ \A i, j \in 1 .. m : i < j => s[i] < s[j]
  BY <1>1 DEF Selected
<1>4. \A i \in 1 .. m : v[i] = s[i]
  BY <1>2
<1>5. \A x \in 1 .. n : v[m + x] = d + x
  <2>1. \A x \in 1 .. n : m + x \in 1 .. m + n /\ ~(m + x <= m) /\ (m + x) - m = x
    OBVIOUS
  <2> QED
    BY <1>1, <1>2, <2>1
<1>6. \A i \in 1 .. m + n : i \in 1 .. m \/ (i - m \in 1 .. n /\ m + (i - m) = i)
  OBVIOUS
<1>7. ASSUME NEW i \in 1 .. m + n PROVE v[i] \in 1 .. d + n /\ v[i] \notin gone
  <2>1. CASE i \in 1 .. m
    <3>1. v[i] = s[i] /\ s[i] \in 1 .. d /\ s[i] \notin gone
      BY <1>3, <1>4, <2>1
    <3> QED
      BY <3>1
  <2>2. CASE i - m \in 1 .. n /\ m + (i - m) = i
    <3>1. v[i] = d + (i - m)
      BY <1>5, <2>2
    <3>2. d + (i - m) \in 1 .. d + n /\ d + (i - m) \notin 1 .. d
      BY <2>2
    <3> QED
      BY <3>1, <3>2
  <2> QED
    BY <1>6, <2>1, <2>2
<1>8. ASSUME NEW k \in 1 .. d + n PROVE k \in gone \/ \E i \in 1 .. m + n : v[i] = k
  <2>1. CASE k <= d
    <3>1. k \in 1 .. d /\ \A i \in 1 .. m : i \in 1 .. m + n
      BY <2>1
    <3> QED
      BY <1>3, <1>4, <3>1
  <2>2. CASE ~(k <= d)
    <3>1. PICK x \in 1 .. n : k = d + x
      <4>1. k - d \in 1 .. n /\ k = d + (k - d)
        BY <2>2
      <4> QED
        BY <4>1
    <3>2. m + x \in 1 .. m + n
      OBVIOUS
    <3> QED
      BY <1>5, <3>1, <3>2
  <2> QED
    BY <2>1, <2>2
<1>9. ASSUME NEW i \in 1 .. m + n, NEW j \in 1 .. m + n, i < j PROVE v[i] < v[j]
  <2>1. CASE j \in 1 .. m
    <3>1. i \in 1 .. m
      BY <1>9, <2>1
    <3> QED
      BY <1>3, <1>4, <1>9, <2>1, <3>1
  <2>2. CASE j - m \in 1 .. n /\ m + (j - m) = j
    <3>1. v[j] = d + (j - m)
      BY <1>5, <2>2
    <3>2. CASE i \in 1 .. m
      <4>1. v[i] \in 1 .. d
        BY <1>3, <1>4, <3>2
      <4> QED
        BY <2>2, <3>1, <4>1
    <3>3. CASE i - m \in 1 .. n /\ m + (i - m) = i
      <4>1. v[i] = d + (i - m)
        BY <1>5, <3>3
      <4> QED
        BY <1>9, <3>1, <4>1
    <3> QED
      BY <1>6, <3>2, <3>3
  <2> QED
    BY <1>6, <2>1, <2>2
<1>10. Selected(v, d + n, gone)
  BY <1>2, <1>7, <1>8, <1>9 DEF Selected
<1> QED
  BY <1>1, <1>10

(* n more bytes have left, and are gone. *)
LEMMA SelectedLess ==
    ASSUME NEW s \in Seq(Nat), NEW d \in Nat, NEW n \in Nat, NEW at \in Nat, at <= d,
           NEW gone, NEW more, \A k \in more : k \in d + 1 .. d + n
    PROVE  /\ Selected(s, at, gone) => Selected(s, at, gone \cup more)
           /\ Selected(s, d, gone) /\ (\A k \in d + 1 .. d + n : k \in more)
                => Selected(s, d + n, gone \cup more)
<1>1. \A k \in 1 .. d : k \notin more
  OBVIOUS
<1>2. ASSUME Selected(s, at, gone) PROVE Selected(s, at, gone \cup more)
  <2>1. \A k \in 1 .. at : k \notin more
    BY <1>1
  <2> QED
    BY <1>2, <2>1 DEF Selected
<1>3. ASSUME Selected(s, d, gone), \A k \in d + 1 .. d + n : k \in more
      PROVE  Selected(s, d + n, gone \cup more)
  <2>1. \A k \in 1 .. d + n : k \in 1 .. d \/ k \in more
    <3>1. \A k \in 1 .. d + n : k \in 1 .. d \/ k \in d + 1 .. d + n
      OBVIOUS
    <3> QED
      BY <1>3, <3>1
  <2>2. \A k \in 1 .. d : k \in 1 .. d + n
    OBVIOUS
  <2> QED
    BY <1>1, <1>3, <2>1, <2>2 DEF Selected
<1> QED
  BY <1>2, <1>3

(* Nothing gone: these are the bytes up to d. *)
LEMMA SelectedAll ==
    ASSUME NEW s \in Seq(Nat), NEW d \in Nat, Selected(s, d, {})
    PROVE  Len(s) = d /\ \A i \in 1 .. d : s[i] = i
<1>1. PICK m \in Nat : m = Len(s)
  OBVIOUS
<1>2. /\ \A i \in 1 .. m : s[i] \in 1 .. d
      /\ \A k \in 1 .. d : \E i \in 1 .. m : s[i] = k
      /\ \A i, j \in 1 .. m : i < j => s[i] < s[j]
  BY <1>1 DEF Selected
<1>3. ASSUME NEW i \in 1 .. m, s[i] # i, \A j \in 1 .. i - 1 : s[j] = j PROVE FALSE
  <2>1. s[i] >= i
    <3>1. CASE i = 1
      BY <1>2, <3>1
    <3>2. CASE i # 1
      <4>1. i - 1 \in 1 .. m /\ i - 1 \in 1 .. i - 1 /\ i - 1 < i
        BY <3>2
      <4>2. s[i - 1] = i - 1 /\ s[i - 1] < s[i] /\ s[i] \in Nat
        BY <1>2, <1>3, <4>1
      <4> QED
        BY <4>2
    <3> QED
      BY <3>1, <3>2
  <2>2. s[i] > i /\ i \in 1 .. d
    BY <1>2, <1>3, <2>1
  <2>3. PICK k \in 1 .. m : s[k] = i
    BY <1>2, <2>2
  <2>4. CASE k < i
    <3>1. k \in 1 .. i - 1
      BY <2>4
    <3> QED
      BY <1>3, <2>3, <2>4, <3>1
  <2>5. CASE k = i
    BY <1>3, <2>3, <2>5
  <2>6. CASE i < k
    BY <1>2, <2>2, <2>3, <2>6
  <2> QED
    BY <2>4, <2>5, <2>6
<1>4. \A i \in 1 .. m : s[i] = i
  <2>1. SUFFICES ASSUME NEW h \in 1 .. m, s[h] # h PROVE FALSE
    OBVIOUS
  <2>2. PICK W : W = {i \in 1 .. m : s[i] # i}
    OBVIOUS
  <2>3. PICK i \in W : \A j \in W : i <= j
    <3>1. W \subseteq Nat /\ h \in W
      BY <2>1, <2>2
    <3> QED
      BY <3>1, Least
  <2>4. \A j \in 1 .. i - 1 : s[j] = j
    <3>1. \A j \in 1 .. i - 1 : j \in 1 .. m /\ j \notin W
      BY <2>2, <2>3
    <3> QED
      BY <2>2, <3>1
  <2> QED
    BY <1>3, <2>2, <2>3, <2>4
<1>5. m <= d
  <2>1. m # 0 => m \in 1 .. m
    OBVIOUS
  <2> QED
    BY <1>2, <1>4, <2>1
<1>6. d <= m
  <2>1. d # 0 => d \in 1 .. d
    OBVIOUS
  <2> QED
    BY <1>2, <1>4, <2>1
<1> QED
  BY <1>1, <1>4, <1>5, <1>6

-----------------------------------------------------------------------------
(* The writer *)

(* In front of the first null word are the bytes up to at. *)
EndsAt(f, B, upTo, at, gone) ==
    \E p \in B : FirstNull(f, p + 1) /\ Selected(upTo[p], at, gone)

LaidOut(B, upTo) ==
    /\ Laid(file, flags, B, upTo)
    /\ lost \subseteq 1 .. Dispatched
    /\ Selected(upTo[Len(file)], Dispatched, lost)
    /\ closedAt # Open =>
            /\ closedAt \in Nat /\ closedAt <= Dispatched
            /\ EndsAt(file, B, upTo, closedAt, lost)

(* A file that no exception has torn can be read. *)
Readable == LinedUp => \E B, upTo : LaidOut(B, upTo)

LEMMA LaidTypes ==
    ASSUME Closing, NEW B, NEW upTo, LaidOut(B, upTo)
    PROVE  /\ file \in Seq(FileTokens) /\ Dispatched \in Nat
           /\ B \subseteq 1 .. Len(file) /\ 1 \in B /\ Len(file) \in B
           /\ Len(file) \in Nat
           /\ \A b \in B : upTo[b] \in Seq(Nat)
<1>1. file \in Seq(FileTokens) /\ Dispatched \in Nat
  BY BlockBytes DEF Closing, FileInv
<1>2. /\ B \subseteq 1 .. Len(file) /\ 1 \in B /\ Len(file) \in B
      /\ upTo \in [B -> Seq(Nat)]
  BY DEF LaidOut, Laid
<1>3. Len(file) \in Nat
  BY <1>1, LenProperties
<1> QED
  BY <1>1, <1>2, <1>3

(* A step that leaves the file alone. *)
LEMMA StillReadable ==
    ASSUME Closing, [Next]_vars, NEW B, NEW upTo, LaidOut(B, upTo),
           UNCHANGED <<file, flags, closedAt, out>>
    PROVE  LaidOut(B, upTo)'
<1>1. IInv
  BY DEF Closing
<1>2. Dispatched \in Nat /\ (\A b \in B : upTo[b] \in Seq(Nat)) /\ Len(file) \in B
  BY LaidTypes
<1>3. Laid(file, flags, B, upTo)'
  BY DEF LaidOut
<1>4. CASE UNCHANGED <<Dispatched, lost>>
  BY <1>3, <1>4 DEF LaidOut, EndsAt, FirstNull
<1>5. CASE Moves /\ Loses
  <2>1. PICK d \in Nat, n \in Nat : d = Dispatched /\ n = Len(block)
    <3>1. Len(block) \in Nat
      BY <1>1, BlockBytes
    <3> QED
      BY <1>2, <3>1
  <2>2. PICK more : more = {block[i] : i \in DOMAIN block}
    OBVIOUS
  <2>3. Dispatched' = d + n /\ lost' = lost \cup more
    BY <1>5, <2>1, <2>2 DEF Moves, Loses
  <2>4. (\A k \in more : k \in d + 1 .. d + n) /\ (\A k \in d + 1 .. d + n : k \in more)
    <3>1. DOMAIN block = 1 .. n /\ \A x \in 1 .. n : block[x] = d + x
      BY <1>1, <2>1, BlockBytes
    <3>2. ASSUME NEW k \in more PROVE k \in d + 1 .. d + n
      BY <2>2, <3>1
    <3>3. ASSUME NEW k \in d + 1 .. d + n PROVE k \in more
      <4>1. k - d \in 1 .. n /\ d + (k - d) = k
        OBVIOUS
      <4> QED
        BY <2>2, <3>1, <4>1
    <3> QED
      BY <3>2, <3>3
  <2>5. lost \subseteq 1 .. d /\ Selected(upTo[Len(file)], d, lost)
    BY <2>1 DEF LaidOut
  <2>6. Selected(upTo[Len(file)], d + n, lost \cup more)
    <3>1. d <= d
      OBVIOUS
    <3> QED
      BY <1>2, <2>4, <2>5, <3>1, SelectedLess
  <2>7. lost' \subseteq 1 .. d + n
    <3>1. \A k \in lost : k \in 1 .. d + n
      BY <2>5
    <3>2. \A k \in more : k \in 1 .. d + n
      BY <2>4
    <3> QED
      BY <2>3, <3>1, <3>2
  <2>8. ASSUME closedAt # Open
        PROVE  /\ closedAt \in Nat /\ closedAt <= d + n
               /\ EndsAt(file, B, upTo, closedAt, lost \cup more)
    <3>1. closedAt \in Nat /\ closedAt <= d
      BY <2>1, <2>8 DEF LaidOut
    <3>2. PICK p \in B : FirstNull(file, p + 1) /\ Selected(upTo[p], closedAt, lost)
      BY <2>8 DEF LaidOut, EndsAt
    <3>3. Selected(upTo[p], closedAt, lost \cup more)
      BY <1>2, <2>4, <3>1, <3>2, SelectedLess
    <3> QED
      BY <2>1, <3>1, <3>2, <3>3 DEF EndsAt
  <2>9. Selected(upTo[Len(file)], Dispatched, lost)'
    BY <2>3, <2>6
  <2> QED
    BY <1>3, <2>3, <2>7, <2>8, <2>9 DEF LaidOut, EndsAt, FirstNull
<1>6. CASE Emits
  <2>1. out' = Append(out, Frame(block, TRUE)) /\ TRUE \in BOOLEAN /\ Len(out) \in Nat
    BY <1>1, <1>6, OutTyped DEF Emits
  <2>2. Len(out') = Len(out) + 1
    BY <1>1, <2>1, AppendFrame
  <2> QED
    BY <2>1, <2>2
<1> QED
  BY <1>1, <1>4, <1>5, <1>6, StepKinds DEF Keeps

(* The first null word stays where it is. *)
LEMMA NullWordStays ==
    ASSUME NEW f \in Seq(FileTokens), NEW g, Longer(f, g), NEW B, NEW upTo, NEW C, NEW upTo2,
           Extends(B, upTo, C, upTo2), NEW at, NEW gone, EndsAt(f, B, upTo, at, gone)
    PROVE  EndsAt(g, C, upTo2, at, gone)
<1>1. PICK p \in B : FirstNull(f, p + 1) /\ Selected(upTo[p], at, gone)
  BY DEF EndsAt
<1>2. p \in C /\ upTo2[p] = upTo[p]
  BY DEF Extends
<1>3. FirstNull(g, p + 1)
  BY <1>1, LongerKeeps
<1> QED
  BY <1>1, <1>2, <1>3 DEF EndsAt

LEMMA BlockReadable ==
    ASSUME Closing, NEW B, NEW upTo, LaidOut(B, upTo), WriteBlock
    PROVE  \E C, upTo2 : LaidOut(C, upTo2)'
<1>1. IInv /\ emitting
  BY DEF Closing, WriteBlock, EmitBlock
<1>2. file \in Seq(FileTokens) /\ Dispatched \in Nat /\ upTo[Len(file)] \in Seq(Nat)
  BY LaidTypes
<1>3. /\ block \in Seq(Nat) /\ Len(block) \in Nat \ {0}
      /\ \A x \in 1 .. Len(block) : block[x] = Dispatched + x
  BY <1>1, NAssumption, BlockBytes DEF IInv, ShortBlockIsLast
<1>4. PICK size \in PackedLens : file' = file \o LzopBlock(flags, block, size)
  BY DEF WriteBlock
<1>5. size \in Nat \ {0} /\ size <= Len(block) /\ block # << >>
  BY <1>3 DEF PackedLens
<1>6. PICK w, g : w = LzopBlock(flags, block, size) /\ g = file'
  OBVIOUS
<1>7. Laid(file, flags, B, upTo)
  BY DEF LaidOut
<1>8. g = file \o w
  BY <1>4, <1>6
<1>9. PICK C, upTo2 :
        /\ Laid(g, flags, C, upTo2) /\ Extends(B, upTo, C, upTo2)
        /\ upTo2[Len(g)] = upTo[Len(file)] \o block
  <2>1. Appends(file, flags, block, size, w, g)
    BY <1>5, <1>6, <1>8 DEF Appends
  <2>2. size \in Nat \ {0} /\ block \in Seq(Nat) /\ file \in Seq(FileTokens)
    BY <1>2, <1>3, <1>5
  <2>3. LaidOn(g, flags, B, upTo, upTo[Len(file)] \o block)
    <3> HIDE DEF FileTokens
    <3> QED
      BY <1>7, <2>1, <2>2, BlockAppended
  <2> QED
    BY <2>3 DEF LaidOn
<1>10. /\ flags' = flags /\ closedAt' = closedAt /\ lost' = lost
       /\ Dispatched' = Dispatched + Len(block)
  BY <1>1, BlockLeaves DEF WriteBlock, EmitBlock
<1>11. lost \subseteq 1 .. Dispatched /\ Selected(upTo[Len(file)], Dispatched, lost)
  BY DEF LaidOut
<1>12. Selected(upTo2[Len(g)], Dispatched + Len(block), lost)
  BY <1>2, <1>3, <1>9, <1>11, SelectedMore
<1>13. \A k \in 1 .. Dispatched : k \in 1 .. Dispatched + Len(block)
  BY <1>2, <1>3
<1>14. Longer(file, g)
  BY <1>1, <1>2, <1>3, <1>5, <1>6, <1>8, BlockBrings, BringsLonger
<1>15. ASSUME closedAt # Open
       PROVE  /\ closedAt \in Nat /\ closedAt <= Dispatched + Len(block)
              /\ EndsAt(g, C, upTo2, closedAt, lost)
  <2>1. /\ closedAt \in Nat /\ closedAt <= Dispatched
        /\ EndsAt(file, B, upTo, closedAt, lost)
    BY <1>15 DEF LaidOut
  <2>2. EndsAt(g, C, upTo2, closedAt, lost)
    BY <1>2, <1>9, <1>14, <2>1, NullWordStays
  <2> QED
    BY <1>2, <1>3, <2>1, <2>2
<1>16. lost \subseteq 1 .. Dispatched + Len(block)
  BY <1>11, <1>13
<1>17. LaidOut(C, upTo2)'
  BY <1>6, <1>9, <1>10, <1>12, <1>15, <1>16 DEF LaidOut
<1> QED
  BY <1>17

(* close() has written out all that was accepted. *)
LEMMA AllDispatched ==
    ASSUME IInv, ~emitting, op # "write", ~MoreToCompress
    PROVE  Dispatched = accepted /\ accepted \in Nat
<1>1. holdover = NoHoldover /\ ~(inputBufferLen > 0)
  BY DEF MoreToCompress
<1>2. block = << >> /\ inputBufferLen \in 0 .. N /\ accepted \in Nat
  BY DEF IInv, BlockInCall, TypeOK
<1>3. inputBufferLen = 0 /\ HeldLen = 0 /\ Len(block) = 0
  BY <1>1, <1>2, NAssumption DEF HeldLen, LenOf
<1> QED
  BY <1>2, <1>3 DEF Dispatched, Buffered

LEMMA NullWordReadable ==
    ASSUME Closing, NEW B, NEW upTo, LaidOut(B, upTo), WriteNullWord
    PROVE  \E C, upTo2 : LaidOut(C, upTo2)'
<1>1. IInv /\ ~emitting /\ op = "close" /\ ~MoreToCompress
  BY DEF Closing, WriteNullWord
<1>2. /\ file \in Seq(FileTokens) /\ Dispatched \in Nat /\ upTo[Len(file)] \in Seq(Nat)
      /\ Len(file) \in B /\ Len(file) \in Nat
  BY LaidTypes
<1>3. PICK g : g = file'
  OBVIOUS
<1>4. g = Append(file, Terminator)
  BY <1>3 DEF WriteNullWord
<1>5. Laid(file, flags, B, upTo)
  BY DEF LaidOut
<1>6. PICK C, upTo2 :
        /\ Laid(g, flags, C, upTo2) /\ Extends(B, upTo, C, upTo2)
        /\ upTo2[Len(g)] = upTo[Len(file)]
  <2>1. LaidOn(g, flags, B, upTo, upTo[Len(file)])
    <3> HIDE DEF FileTokens
    <3> QED
      BY <1>2, <1>4, <1>5, NullAppended
  <2> QED
    BY <2>1 DEF LaidOn
<1>7. /\ flags' = flags /\ lost' = lost /\ Dispatched' = Dispatched
      /\ closedAt' = IF closedAt = Open THEN accepted ELSE closedAt
  BY DEF WriteNullWord, vars, buffers, Dispatched, Buffered, HeldLen
<1>8. Dispatched = accepted
  BY <1>1, AllDispatched
<1>9. /\ lost \subseteq 1 .. Dispatched /\ Selected(upTo[Len(file)], Dispatched, lost)
      /\ Selected(upTo2[Len(g)], Dispatched, lost)
  BY <1>6 DEF LaidOut
<1>10. Longer(file, g)
  BY <1>2, <1>4, NullWordLonger
<1>11. CASE closedAt = Open
  <2>1. Ends(file, Open, lost) /\ Unended(file)
    BY <1>11 DEF Closing, FileInv, Ends
  <2>2. FirstNull(g, Len(file) + 1)
    <3>1. PICK n \in Nat : n = Len(file)
      BY <1>2
    <3>2. Terminator \in FileTokens
      BY DEF FileTokens, LzopTokens, Tokens, WordTokens, Terminator, Word
    <3> HIDE DEF FileTokens, Terminator
    <3>3. /\ Len(g) = n + 1 /\ DOMAIN g = 1 .. n + 1 /\ g[n + 1] = Terminator
          /\ \A i \in 1 .. n : g[i] = file[i]
      BY <1>2, <1>4, <3>1, <3>2
    <3>4. \A i \in 1 .. n : file[i] # Terminator
      BY <1>2, <2>1, <3>1 DEF Unended
    <3>5. n + 1 \in 1 .. n + 1 /\ (n + 1) - 1 = n
      OBVIOUS
    <3>6. FirstNull(g, n + 1)
      BY <3>3, <3>4, <3>5 DEF FirstNull
    <3> QED
      BY <3>1, <3>6
  <2>3. Len(file) \in C /\ upTo2[Len(file)] = upTo[Len(file)]
    BY <1>2, <1>6 DEF Extends
  <2>4. EndsAt(g, C, upTo2, accepted, lost)
    BY <1>8, <1>9, <2>2, <2>3 DEF EndsAt
  <2>5. closedAt' = accepted /\ accepted \in Nat /\ accepted <= Dispatched
    BY <1>2, <1>7, <1>8, <1>11
  <2>6. EndsAt(file', C, upTo2, closedAt', lost')
    BY <1>3, <1>7, <2>4, <2>5
  <2>7. LaidOut(C, upTo2)'
    BY <1>3, <1>6, <1>7, <1>9, <2>5, <2>6 DEF LaidOut
  <2> QED
    BY <2>7
<1>12. CASE closedAt # Open
  <2>1. closedAt \in Nat /\ closedAt <= Dispatched /\ EndsAt(file, B, upTo, closedAt, lost)
    BY <1>12 DEF LaidOut
  <2>2. EndsAt(g, C, upTo2, closedAt, lost)
    BY <1>2, <1>6, <1>10, <2>1, NullWordStays
  <2>3. EndsAt(file', C, upTo2, closedAt', lost')
    BY <1>3, <1>7, <1>12, <2>2
  <2>4. LaidOut(C, upTo2)'
    BY <1>3, <1>6, <1>7, <1>9, <1>12, <2>1, <2>3 DEF LaidOut
  <2> QED
    BY <2>4
<1> QED
  BY <1>11, <1>12

LEMMA InitReadable == LzopInit => Readable
<1> SUFFICES ASSUME LzopInit PROVE \E B, upTo : LaidOut(B, upTo)
  BY DEF Readable
<1>1. Closing
  BY InitAccounts, InitFile DEF Closing
<1>2. PICK h : h = Header(flags)
  OBVIOUS
<1>3. file = <<h>> /\ lost = {} /\ closedAt = Open /\ Dispatched = 0
  BY <1>2, InitDispatched DEF LzopInit, Init
<1>4. Len(file) = 1 /\ file[1] = Header(flags)
  BY <1>2, <1>3
<1>5. PICK B, upTo : B = {1} /\ upTo = [b \in B |-> << >>]
  OBVIOUS
<1>6. upTo \in [B -> Seq(Nat)] /\ upTo[1] = << >>
  <2>1. << >> \in Seq(Nat)
    OBVIOUS
  <2> QED
    BY <1>5, <2>1
<1>7. Begins(upTo[1], upTo[1])
  BY <1>6 DEF Begins
<1>8. Laid(file, flags, B, upTo)
  BY <1>4, <1>5, <1>6, <1>7 DEF Laid
<1>9. Selected(upTo[1], 0, {})
  BY <1>6 DEF Selected
<1>10. LaidOut(B, upTo)
  BY <1>3, <1>4, <1>8, <1>9 DEF LaidOut
<1> QED
  BY <1>10

LEMMA NextReadable == Closing /\ Readable /\ [LzopNext]_lzopVars => Readable'
<1> SUFFICES ASSUME Closing, Readable, [LzopNext]_lzopVars, LinedUp'
             PROVE  \E B, upTo : LaidOut(B, upTo)'
  BY DEF Readable
<1>1. IInv /\ file \in Seq(FileTokens) /\ [Next]_vars
  BY LzopNextIsNext DEF Closing, FileInv
<1>2. /\ \A i \in DOMAIN out' : out'[i].whole
      /\ \A i \in DOMAIN file' : file'[i] # Part
  BY DEF LinedUp
<1>3. ASSUME UNCHANGED <<file, flags, closedAt, out>>
      PROVE  \E B, upTo : LaidOut(B, upTo)'
  <2>1. LinedUp
    BY <1>2, <1>3 DEF LinedUp
  <2>2. PICK B, upTo : LaidOut(B, upTo)
    BY <2>1 DEF Readable
  <2>3. LaidOut(B, upTo)'
    BY <1>1, <1>3, <2>2, StillReadable
  <2> QED
    BY <2>3
<1>4. CASE LzopCall \/ Close
  BY <1>3, <1>4 DEF LzopCall, Close, Write, RefuseWrite, Drain, fileVars
<1>5. CASE CloseAgain \/ UNCHANGED lzopVars
  BY <1>3, <1>5 DEF CloseAgain, lzopVars, vars, fileVars
<1>6. CASE Buffering
  BY <1>3, <1>6 DEF Buffering, TakeInput, TakeHoldover, CompressorFails, Throw, Return, fileVars
<1>7. CASE LzopCloseSink
  BY <1>3, <1>7 DEF LzopCloseSink, CloseSink, Throw
<1>8. ASSUME Longer(file, file'), out' = out \/ out' = Append(out, Frame(block, TRUE))
      PROVE  LinedUp
  <2>1. /\ DOMAIN file = 1 .. Len(file) /\ Len(file) \in Nat
        /\ \A i \in 1 .. Len(file) : i \in DOMAIN file' /\ file'[i] = file[i]
    <3> HIDE DEF FileTokens
    <3>1. file' \in Seq(FileTokens) /\ Len(file) <= Len(file')
      BY <1>8 DEF Longer
    <3>2. DOMAIN file' = 1 .. Len(file') /\ Len(file') \in Nat
      BY <3>1, LenProperties
    <3>3. DOMAIN file = 1 .. Len(file) /\ Len(file) \in Nat
      BY <1>1, LenProperties
    <3> QED
      BY <1>8, <3>1, <3>2, <3>3 DEF Longer
  <2>2. \A i \in DOMAIN out : i \in DOMAIN out' /\ out'[i] = out[i]
    <3>1. CASE out' = out
      BY <3>1
    <3>2. CASE out' = Append(out, Frame(block, TRUE))
      <4>1. TRUE \in BOOLEAN /\ DOMAIN out = 1 .. Len(out) /\ Len(out) \in Nat
        BY <1>1, OutTyped
      <4>2. DOMAIN out' = 1 .. Len(out) + 1 /\ \A i \in 1 .. Len(out) : out'[i] = out[i]
        BY <1>1, <3>2, <4>1, AppendFrame
      <4> QED
        BY <4>1, <4>2
    <3> QED
      BY <1>8, <3>1, <3>2
  <2> QED
    BY <1>2, <2>1, <2>2 DEF LinedUp
<1>9. CASE WriteBlock
  <2>1. out' = Append(out, Frame(block, TRUE)) /\ emitting
    BY <1>9 DEF WriteBlock, EmitBlock
  <2>2. PICK size \in PackedLens : file' = file \o LzopBlock(flags, block, size)
    BY <1>9 DEF WriteBlock
  <2>3. PICK w : w = LzopBlock(flags, block, size)
    OBVIOUS
  <2>4. block \in Seq(Nat) /\ Len(block) \in Nat \ {0}
    BY <1>1, <2>1, NAssumption DEF IInv, TypeOK, ShortBlockIsLast
  <2>5. block # << >> /\ size \in Nat \ {0} /\ size <= Len(block)
    BY <2>4 DEF PackedLens
  <2>6. Brings(w, block)
    BY <2>3, <2>4, <2>5, BlockBrings
  <2>7. Longer(file, file')
    BY <1>1, <2>2, <2>3, <2>4, <2>6, BringsLonger
  <2>8. LinedUp
    BY <1>8, <2>1, <2>7
  <2>9. PICK B, upTo : LaidOut(B, upTo)
    BY <2>8 DEF Readable
  <2> QED
    BY <1>9, <2>9, BlockReadable
<1>10. CASE WriteNullWord
  <2>1. out' = out /\ file' = Append(file, Terminator)
    BY <1>10 DEF WriteNullWord, vars
  <2>2. Longer(file, file')
    BY <1>1, <2>1, NullWordLonger
  <2>3. LinedUp
    BY <1>8, <2>1, <2>2
  <2>4. PICK B, upTo : LaidOut(B, upTo)
    BY <2>3 DEF Readable
  <2> QED
    BY <1>10, <2>4, NullWordReadable
<1>11. CASE WriteBlockFails
  <2>1. out' = out
    <3>1. out' \in {out, Append(out, Frame(block, FALSE))}
      BY <1>11 DEF WriteBlockFails, SinkFails
    <3>2. CASE out' = Append(out, Frame(block, FALSE))
      <4>1. FALSE \in BOOLEAN /\ Len(out) \in Nat
        BY <1>1, OutTyped
      <4>2. DOMAIN out' = 1 .. Len(out) + 1 /\ out'[Len(out) + 1].whole = FALSE
        BY <1>1, <3>2, <4>1, AppendFrame
      <4>3. Len(out) + 1 \in DOMAIN out'
        BY <4>1, <4>2
      <4> QED
        BY <1>2, <4>2, <4>3
    <3> QED
      BY <3>1, <3>2
  <2> QED
    BY <1>3, <1>11, <2>1 DEF WriteBlockFails
<1>12. CASE WriteNullWordFails
  <2>1. file' = file
    <3>1. file' \in {file, Append(file, Part)}
      BY <1>12 DEF WriteNullWordFails
    <3>2. CASE file' = Append(file, Part)
      <4>1. Part \in FileTokens
        BY DEF FileTokens
      <4> HIDE DEF FileTokens, Part
      <4>2. Len(file) + 1 \in DOMAIN file' /\ file'[Len(file) + 1] = Part
        BY <1>1, <3>2, <4>1
      <4> QED
        BY <1>2, <4>2
    <3> QED
      BY <3>1, <3>2
  <2> QED
    BY <1>3, <1>12, <2>1 DEF WriteNullWordFails
<1> QED
  BY <1>4, <1>5, <1>6, <1>7, <1>9, <1>10, <1>11, <1>12 DEF LzopNext, LzopStep

-----------------------------------------------------------------------------
(* The reader *)

(* The reader finds the first k tokens, and a torn one at most. *)
Seen(k) ==
    /\ k \in 0 .. Len(file) /\ seen \in Seq(FileTokens)
    /\ \A i \in 1 .. k : seen[i] = file[i]
    /\ Len(seen) = k \/ (Len(seen) = k + 1 /\ seen[k + 1] = Part)
    /\ closed => Len(seen) = k /\ k = Len(file)

(* It has not been opened. *)
Fresh ==
    /\ ~opened /\ ~failed /\ ~eof
    /\ pos = 0 /\ outputBuffer = << >> /\ outputBufferPos = 0 /\ outputBufferLen = 0
    /\ want = -1 /\ answer = "ok" /\ delivered = << >>

(* A read has thrown. *)
Broken == opened /\ failed /\ ~eof /\ ~closed /\ pos = Len(seen) /\ answer # "end"

(* What was handed out and what is in the buffer are these bytes. *)
Hands(bytes) ==
    /\ outputBuffer \in Seq(Nat) /\ delivered \in Seq(Nat)
    /\ outputBufferPos \in Nat /\ outputBufferLen \in Nat
    /\ outputBufferPos <= outputBufferLen /\ outputBufferLen <= Len(outputBuffer)
    /\ Len(bytes) = Len(delivered) + (outputBufferLen - outputBufferPos)
    /\ \A i \in 1 .. Len(delivered) : bytes[i] = delivered[i]
    /\ \A i \in 1 .. outputBufferLen - outputBufferPos :
            bytes[Len(delivered) + i] = outputBuffer[outputBufferPos + i]

(* It stands where a block ends, or behind the first null word. *)
Cursor(B, upTo, k) ==
    /\ opened /\ ~failed /\ headerFlags = flags
    /\ pos \in B /\ pos <= k
    /\ want \in Nat \cup {-1}
    /\ Hands(upTo[pos])
    /\ answer = "end" => eof
    /\ eof => FirstNull(file, pos) /\ outputBufferPos = outputBufferLen
    /\ ~eof => \A i \in 1 .. pos : file[i] # Terminator

Following(B, upTo, k) == Closing /\ LinedUp /\ LaidOut(B, upTo) /\ Seen(k) /\ Cursor(B, upTo, k)

LEMMA SameFrames ==
    /\ Reader!DNames = DNamesOf(headerFlags) /\ Reader!CNames = CNamesOf(headerFlags)
    /\ Reader!Part = Part
    /\ \A name, data : Reader!Checksum(name, data) = Checksum(name, data)
    /\ \A bytes, packed : Reader!Data(bytes, packed) = Data(bytes, packed)
<1>1. Reader!DNames = DNamesOf(headerFlags) /\ Reader!CNames = CNamesOf(headerFlags)
  BY DEF Reader!DNames, Reader!CNames, Reader!Flagged, DNamesOf, CNamesOf, NamesOf
<1>2. Reader!Part = Part
  BY DEF Reader!Part, Part
<1>3. \A name, data : Reader!Checksum(name, data) = Checksum(name, data)
  BY DEF Reader!Checksum, Checksum
<1>4. \A bytes, packed : Reader!Data(bytes, packed) = Data(bytes, packed)
  BY DEF Reader!Data, Data
<1> QED
  BY <1>1, <1>2, <1>3, <1>4

LEMMA FollowingTypes ==
    ASSUME NEW B, NEW upTo, NEW k, Following(B, upTo, k)
    PROVE  /\ file \in Seq(FileTokens) /\ seen \in Seq(FileTokens)
           /\ Len(file) \in Nat /\ Len(seen) \in Nat /\ k \in Nat /\ k <= Len(file)
           /\ B \subseteq 1 .. Len(file) /\ (\A b \in B : upTo[b] \in Seq(Nat))
           /\ pos \in B /\ pos \in Nat \ {0} /\ pos <= k
           /\ \A i \in 1 .. k : seen[i] = file[i]
<1>1. /\ file \in Seq(FileTokens) /\ Len(file) \in Nat
      /\ B \subseteq 1 .. Len(file) /\ \A b \in B : upTo[b] \in Seq(Nat)
  BY LaidTypes DEF Following
<1>2. /\ k \in 0 .. Len(file) /\ seen \in Seq(FileTokens)
      /\ \A i \in 1 .. k : seen[i] = file[i]
  BY DEF Following, Seen
<1>3. pos \in B /\ pos <= k
  BY DEF Following, Cursor
<1>4. Len(seen) \in Nat
  BY <1>2, LenProperties
<1> QED
  BY <1>1, <1>2, <1>3, <1>4

(* A token is there in full if it is among the first k. *)
LEMMA WholeMeans ==
    ASSUME NEW B, NEW upTo, NEW k, Following(B, upTo, k), NEW j \in Nat
    PROVE  Reader!Whole(j) <=> pos + j <= k
<1>1. /\ Len(file) \in Nat /\ Len(seen) \in Nat /\ k \in Nat /\ k <= Len(file)
      /\ pos \in Nat /\ pos <= k
  BY FollowingTypes
<1>2. /\ \A i \in 1 .. k : seen[i] = file[i]
      /\ Len(seen) = k \/ (Len(seen) = k + 1 /\ seen[k + 1] = Part)
  BY DEF Following, Seen
<1>3. \A i \in 1 .. k : file[i] # Part
  <2>1. DOMAIN file = 1 .. Len(file)
    BY FollowingTypes
  <2> QED
    BY <1>1, <2>1 DEF Following, LinedUp
<1>4. ASSUME pos + j <= k PROVE Reader!Whole(j)
  <2>1. \A i \in 1 .. j : pos + i \in 1 .. k
    BY <1>1, <1>4
  <2>2. \A i \in 1 .. j : seen[pos + i] # Part
    BY <1>2, <1>3, <2>1
  <2>3. pos + j <= Len(seen)
    BY <1>1, <1>2, <1>4
  <2> QED
    BY <2>2, <2>3, SameFrames DEF Reader!Whole
<1>5. ASSUME Reader!Whole(j), ~(pos + j <= k) PROVE FALSE
  <2>1. pos + j <= Len(seen) /\ \A i \in 1 .. j : seen[pos + i] # Part
    BY <1>5, SameFrames DEF Reader!Whole
  <2>2. pos + j = k + 1 /\ j \in 1 .. j /\ seen[k + 1] = Part
    BY <1>1, <1>2, <1>5, <2>1
  <2> QED
    BY <2>1, <2>2
<1> QED
  BY <1>4, <1>5

(* The block behind pos. *)
AtHand(B, upTo, k, bytes, packed) ==
    /\ bytes \in Seq(Nat) /\ bytes # << >> /\ packed \in BOOLEAN
    /\ pos + SizeOf(flags, packed) \in B
    /\ upTo[pos + SizeOf(flags, packed)] = upTo[pos] \o bytes
    /\ \A j \in 1 .. SizeOf(flags, packed) : file[pos + j] # Terminator
    /\ BlockBehind(file, pos, flags, bytes, packed, file[pos + 2].value)
    /\ pos + 2 <= k => Reader!ULen = Len(bytes) /\ (Reader!Stored <=> ~packed)
                       /\ Reader!BlockLen = SizeOf(flags, packed)
    /\ Reader!HeadLen = 2 + Len(DNamesOf(flags))

LEMMA AtBlockHasOne ==
    ASSUME NEW B, NEW upTo, NEW k, Following(B, upTo, k), Reader!AtBlock, pos < Len(file),
           pos + 1 <= k
    PROVE  \E bytes, packed : AtHand(B, upTo, k, bytes, packed)
<1>1. /\ Len(file) \in Nat /\ k \in Nat /\ k <= Len(file) /\ pos \in B
      /\ pos \in Nat /\ \A i \in 1 .. k : seen[i] = file[i]
  BY FollowingTypes
<1>2. Laid(file, flags, B, upTo) /\ headerFlags = flags
  BY DEF Following, LaidOut, Cursor
<1>3. Joint(file, flags, B, upTo, pos)
  BY <1>1, <1>2 DEF Laid
<1>4. seen[pos + 1] = file[pos + 1] /\ Reader!Whole(1)
  <2>1. pos + 1 \in 1 .. k /\ 1 \in Nat
    BY <1>1
  <2> QED
    BY <1>1, <2>1, WholeMeans
<1>5. ~NullAhead(file, B, upTo, pos)
  <2>1. Reader!ULen # 0
    BY <1>4 DEF Reader!AtBlock
  <2>2. file[pos + 1] = Terminator => seen[pos + 1].value = 0
    BY <1>4 DEF Terminator, Word
  <2> QED
    BY <2>1, <2>2 DEF NullAhead, Reader!ULen
<1>6. PICK bytes \in Seq(Nat), size \in Nat, packed \in BOOLEAN :
        BlockAhead(file, flags, B, upTo, pos, bytes, size, packed)
  BY <1>3, <1>5 DEF Joint
<1>7. /\ bytes # << >> /\ size <= Len(bytes) /\ (packed <=> size < Len(bytes))
      /\ BlockBehind(file, pos, flags, bytes, packed, size)
      /\ \A j \in 1 .. SizeOf(flags, packed) : file[pos + j] # Terminator
      /\ pos + SizeOf(flags, packed) \in B
      /\ upTo[pos + SizeOf(flags, packed)] = upTo[pos] \o bytes
  BY <1>6 DEF BlockAhead
<1>8. /\ file[pos + 1] = Word(Len(bytes)) /\ file[pos + 2] = Word(size)
      /\ file[pos + 1].value = Len(bytes) /\ file[pos + 2].value = size
  BY <1>7 DEF BlockBehind, Word
<1>9. PICK n \in Nat, m \in Nat : n = Len(DNamesOf(flags)) /\ m = Len(CNamesOf(flags))
  BY NamesLens
<1>10. Len(Reader!DNames) = n /\ Len(Reader!CNames) = m
  BY <1>2, <1>9, SameFrames
<1>11. Reader!HeadLen = 2 + n
  BY <1>10 DEF Reader!HeadLen
<1>12. ASSUME pos + 2 <= k
       PROVE  /\ Reader!ULen = Len(bytes) /\ (Reader!Stored <=> ~packed)
              /\ Reader!BlockLen = SizeOf(flags, packed)
  <2>1. pos + 2 \in 1 .. k
    BY <1>1, <1>12
  <2>2. seen[pos + 2].value = size
    BY <1>1, <1>8, <2>1
  <2>3. Reader!ULen = Len(bytes)
    BY <1>4, <1>8 DEF Reader!ULen
  <2>4. Reader!Stored <=> size = Len(bytes)
    BY <2>2, <2>3 DEF Reader!Stored
  <2>5. Reader!Stored <=> ~packed
    BY <1>7, <2>4
  <2>6. Reader!BlockLen = (2 + n) + (IF packed THEN m ELSE 0) + 1
    BY <1>10, <1>11, <2>5 DEF Reader!BlockLen
  <2>7. SizeOf(flags, packed) = 3 + n + (IF packed THEN m ELSE 0)
    BY <1>9 DEF SizeOf
  <2> QED
    BY <2>3, <2>5, <2>6, <2>7
<1>13. AtHand(B, upTo, k, bytes, packed)
  BY <1>6, <1>7, <1>8, <1>9, <1>11, <1>12 DEF AtHand
<1> QED
  BY <1>13

(* All the tokens of a block that is there in full. *)
LEMMA WholeBlock ==
    ASSUME NEW B, NEW upTo, NEW k, Following(B, upTo, k), Reader!AtBlock, Reader!BlockWhole
    PROVE  \E bytes, packed :
                /\ AtHand(B, upTo, k, bytes, packed)
                /\ pos + 2 <= k /\ pos + SizeOf(flags, packed) <= k
<1>1. /\ Len(file) \in Nat /\ k \in Nat /\ k <= Len(file) /\ pos \in Nat /\ headerFlags = flags
  BY FollowingTypes DEF Following, Cursor
<1>2. Reader!Whole(Reader!HeadLen) /\ Reader!Whole(Reader!BlockLen)
  BY DEF Reader!BlockWhole, Reader!HeadWhole
<1>3. PICK n \in Nat, m \in Nat : n = Len(DNamesOf(flags)) /\ m = Len(CNamesOf(flags))
  BY NamesLens
<1>4. Reader!HeadLen = 2 + n /\ 2 + n \in Nat
  BY <1>1, <1>3, SameFrames DEF Reader!HeadLen
<1>5. pos + 2 <= k /\ pos + 1 <= k /\ pos < Len(file)
  <2>1. pos + (2 + n) <= k
    BY <1>2, <1>4, WholeMeans
  <2> QED
    BY <1>1, <2>1
<1>6. PICK bytes, packed : AtHand(B, upTo, k, bytes, packed)
  BY <1>5, AtBlockHasOne
<1>7. Reader!BlockLen = SizeOf(flags, packed) /\ SizeOf(flags, packed) \in Nat
  BY <1>5, <1>6, NamesLens DEF AtHand
<1>8. pos + SizeOf(flags, packed) <= k
  BY <1>2, <1>7, WholeMeans
<1> QED
  BY <1>5, <1>6, <1>8

(* In the file of a stream that was closed no block is cut short. *)
LEMMA NoneCut ==
    ASSUME NEW B, NEW upTo, NEW k, Following(B, upTo, k), Reader!AtBlock, ~Reader!BlockWhole
    PROVE  ~closed
<1>1. SUFFICES ASSUME closed PROVE FALSE
  OBVIOUS
<1>2. k = Len(file) /\ closedAt # Open
  BY <1>1 DEF Following, Seen, Closing, Flow
<1>3. /\ Len(file) \in Nat /\ pos \in Nat /\ pos <= k /\ pos \in B /\ B \subseteq 1 .. Len(file)
      /\ headerFlags = flags /\ file \in Seq(FileTokens)
  BY FollowingTypes DEF Following, Cursor
<1>4. PICK p \in B : FirstNull(file, p + 1)
  BY <1>2 DEF Following, LaidOut, EndsAt
<1>5. ~eof /\ \A i \in 1 .. pos : file[i] # Terminator
  BY DEF Reader!AtBlock, Following, Cursor
<1>6. p \in Nat /\ p + 1 \in 1 .. Len(file) /\ file[p + 1] = Terminator
  <2>1. DOMAIN file = 1 .. Len(file)
    BY <1>3
  <2> QED
    BY <1>3, <1>4, <2>1 DEF FirstNull
<1>7. pos < Len(file) /\ pos + 1 <= k
  <2>1. p + 1 \notin 1 .. pos
    BY <1>5, <1>6
  <2> QED
    BY <1>2, <1>3, <1>6, <2>1
<1>8. PICK bytes, packed : AtHand(B, upTo, k, bytes, packed)
  BY <1>7, AtBlockHasOne
<1>9. PICK n \in Nat, m \in Nat : n = Len(DNamesOf(flags)) /\ m = Len(CNamesOf(flags))
  BY NamesLens
<1>10. PICK s \in Nat : s = SizeOf(flags, packed) /\ s = 3 + n + (IF packed THEN m ELSE 0)
  <2>1. SizeOf(flags, packed) = 3 + n + (IF packed THEN m ELSE 0)
    BY <1>9 DEF SizeOf
  <2>2. packed \in BOOLEAN
    BY <1>8 DEF AtHand
  <2> QED
    BY <2>1, <2>2
<1>11. pos + s \in 1 .. k /\ Reader!HeadLen = 2 + n
  BY <1>2, <1>3, <1>8, <1>9, <1>10 DEF AtHand
<1>12. pos + 2 <= k /\ pos + (2 + n) <= k /\ pos + s <= k
  <2>1. s >= 3 + n
    <3>1. packed \in BOOLEAN
      BY <1>8 DEF AtHand
    <3> QED
      BY <1>10, <3>1
  <2> QED
    BY <1>2, <1>3, <1>11, <2>1
<1>13. Reader!BlockLen = s
  BY <1>8, <1>10, <1>12 DEF AtHand
<1>14. Reader!Whole(2 + n) /\ Reader!Whole(s)
  <2>1. 2 + n \in Nat
    OBVIOUS
  <2> QED
    BY <1>12, <2>1, WholeMeans
<1>15. Reader!BlockWhole
  BY <1>11, <1>13, <1>14 DEF Reader!BlockWhole, Reader!HeadWhole
<1> QED
  BY <1>15

-----------------------------------------------------------------------------
(* Its steps *)

(* While the file is read it stays as it is. *)
Frozen == UNCHANGED <<lzopVars, seen>>

LEMMA FrozenKeeps ==
    ASSUME Frozen, Closing, LinedUp, NEW B, NEW upTo, LaidOut(B, upTo), NEW k, Seen(k)
    PROVE  Closing' /\ LinedUp' /\ LaidOut(B, upTo)' /\ Seen(k)'
<1>1. UNCHANGED lzopVars /\ UNCHANGED seen
  BY DEF Frozen
<1>2. [LzopNext]_lzopVars /\ [Next]_vars /\ UNCHANGED <<file, flags, closedAt, out, closed>>
  BY <1>1 DEF lzopVars, vars, fileVars
<1>3. Closing'
  BY <1>2, NextAccounts, NextFlow, NextFile DEF Closing
<1>4. LinedUp'
  BY <1>2 DEF LinedUp
<1>5. LaidOut(B, upTo)'
  BY <1>2, StillReadable
<1>6. Seen(k)'
  BY <1>1, <1>2 DEF Seen
<1> QED
  BY <1>3, <1>4, <1>5, <1>6

LEMMA FollowingKept ==
    ASSUME NEW B, NEW upTo, NEW k, Following(B, upTo, k), Frozen, Cursor(B, upTo, k)'
    PROVE  Following(B, upTo, k)'
BY FrozenKeeps DEF Following

LEMMA BreaksFollowing ==
    ASSUME NEW B, NEW upTo, NEW k, Following(B, upTo, k), Frozen, ~closed,
           pos' = Len(seen), failed', answer' = "failed", UNCHANGED <<eof, opened>>, ~eof
    PROVE  Broken'
<1>1. UNCHANGED <<seen, closed>>
  BY DEF Frozen, lzopVars, fileVars
<1>2. opened
  BY DEF Following, Cursor
<1> QED
  BY <1>1, <1>2 DEF Broken

LEMMA ReadFollows ==
    ASSUME NEW B, NEW upTo, NEW k, Following(B, upTo, k), Frozen,
           Reader!ReadCall, UNCHANGED <<headerFlags, eof, opened>>
    PROVE  Following(B, upTo, k)'
<1>1. PICK len \in ReadLens : Reader!Read(len)
  BY DEF Reader!ReadCall
<1>2. /\ UNCHANGED <<pos, outputBuffer, outputBufferPos, outputBufferLen, answer, delivered, failed>>
      /\ want' = len /\ len \in Nat
  BY <1>1, ReadLensAssumption DEF Reader!Read, Reader!output
<1>3. UNCHANGED <<file, flags>>
  BY DEF Frozen, lzopVars, fileVars
<1>4. Cursor(B, upTo, k)'
  BY <1>2, <1>3 DEF Following, Cursor, Hands, FirstNull
<1> QED
  BY <1>4, FollowingKept

(* n more of the bytes of a buffer are handed out. *)
Handing(buf, p, q, d, bytes) ==
    /\ q <= Len(buf)
    /\ Len(bytes) = Len(d) + (q - p)
    /\ \A i \in 1 .. Len(d) : bytes[i] = d[i]
    /\ \A i \in 1 .. q - p : bytes[Len(d) + i] = buf[p + i]

LEMMA HandOut ==
    ASSUME NEW buf \in Seq(Nat), NEW d \in Seq(Nat), NEW p \in Nat, NEW q \in Nat, NEW bytes,
           Handing(buf, p, q, d, bytes), NEW n \in Nat, n <= q - p,
           NEW e, e = d \o SubSeq(buf, p + 1, p + n)
    PROVE  e \in Seq(Nat) /\ Handing(buf, p + n, q, e, bytes)
<1>1. /\ q <= Len(buf) /\ Len(bytes) = Len(d) + (q - p)
      /\ \A i \in 1 .. Len(d) : bytes[i] = d[i]
      /\ \A i \in 1 .. q - p : bytes[Len(d) + i] = buf[p + i]
  BY DEF Handing
<1>2. PICK s : s = SubSeq(buf, p + 1, p + n)
  OBVIOUS
<1>3. s \in Seq(Nat) /\ Len(s) = n /\ \A i \in 1 .. n : s[i] = buf[p + i]
  <2>1. p + n <= Len(buf) /\ p + n \in Nat /\ Len(buf) \in Nat
    BY <1>1
  <2>2. s \in Seq(Nat) /\ Len(s) = n
    BY <1>2, <2>1, SMTT(30)
  <2>3. \A i \in 1 .. n : s[i] = buf[p + 1 + i - 1]
    BY <1>2, <2>1, <2>2
  <2>4. \A i \in 1 .. n : p + 1 + i - 1 = p + i
    OBVIOUS
  <2> QED
    BY <2>2, <2>3, <2>4
<1>4. PICK m \in Nat : m = Len(d)
  OBVIOUS
<1>5. /\ e \in Seq(Nat) /\ Len(e) = m + n
      /\ \A i \in 1 .. m : e[i] = d[i]
      /\ \A i \in 1 .. n : e[m + i] = s[i]
  <2>1. JoinOf(Nat, d, s, e)
    BY <1>2, <1>3 DEF JoinOf
  <2>2. e \in Seq(Nat) /\ Joined(d, s, e)
    BY <2>1, JoinedParts
  <2> QED
    BY <1>3, <1>4, <2>2 DEF Joined
<1>6. Len(bytes) = Len(e) + (q - (p + n))
  <2>1. Len(bytes) = m + (q - p) /\ Len(e) = m + n
    BY <1>1, <1>4, <1>5
  <2>2. (m + n) + (q - (p + n)) = m + (q - p)
    OBVIOUS
  <2> QED
    BY <2>1, <2>2
<1>7. ASSUME NEW i \in 1 .. m + n PROVE bytes[i] = e[i]
  <2>1. CASE i \in 1 .. m
    BY <1>1, <1>4, <1>5, <2>1
  <2>2. CASE i \notin 1 .. m
    <3>1. PICK j \in 1 .. n : i = m + j
      <4>1. i - m \in 1 .. n /\ i = m + (i - m)
        BY <2>2
      <4> QED
        BY <4>1
    <3>2. j \in 1 .. q - p
      BY <3>1
    <3> QED
      BY <1>1, <1>3, <1>4, <1>5, <3>1, <3>2
  <2> QED
    BY <2>1, <2>2
<1>8. ASSUME NEW i \in 1 .. q - (p + n) PROVE bytes[(m + n) + i] = buf[(p + n) + i]
  <2>1. n + i \in 1 .. q - p /\ (m + n) + i = m + (n + i) /\ (p + n) + i = p + (n + i)
    OBVIOUS
  <2>2. bytes[m + (n + i)] = buf[p + (n + i)]
    BY <1>1, <1>4, <2>1
  <2> QED
    BY <2>1, <2>2
<1> QED
  BY <1>1, <1>5, <1>6, <1>7, <1>8 DEF Handing

LEMMA DeliverFollows ==
    ASSUME NEW B, NEW upTo, NEW k, Following(B, upTo, k), Frozen,
           Reader!Deliver, UNCHANGED <<headerFlags, eof, opened>>
    PROVE  Following(B, upTo, k)'
<1>1. Cursor(B, upTo, k) /\ Hands(upTo[pos])
  BY DEF Following, Cursor
<1>2. PICK buf \in Seq(Nat), d \in Seq(Nat), p \in Nat, q \in Nat :
        buf = outputBuffer /\ d = delivered /\ p = outputBufferPos /\ q = outputBufferLen
  BY <1>1 DEF Hands
<1>3. p <= q /\ Handing(buf, p, q, d, upTo[pos])
  BY <1>1, <1>2 DEF Hands, Handing
<1>4. Reader!Available = q - p /\ want # -1 /\ Reader!Available # 0
  BY <1>2 DEF Reader!Deliver, Reader!Available, Reader!Idle
<1>5. PICK n : n = IF want < q - p THEN want ELSE q - p
  OBVIOUS
<1>6. want \in Nat
  BY <1>1, <1>4 DEF Cursor
<1>7. n \in Nat /\ n <= q - p
  BY <1>3, <1>5, <1>6
<1>8. PICK e : e = d \o SubSeq(buf, p + 1, p + n)
  OBVIOUS
<1>9. e \in Seq(Nat) /\ Handing(buf, p + n, q, e, upTo[pos])
  BY <1>3, <1>7, <1>8, HandOut
<1>10. /\ delivered' = e /\ outputBufferPos' = p + n /\ want' = -1 /\ answer' = "ok"
       /\ UNCHANGED <<pos, outputBuffer, outputBufferLen, failed>>
  BY <1>2, <1>4, <1>5, <1>8 DEF Reader!Deliver, Reader!Idle
<1>11. UNCHANGED <<file, flags>>
  BY DEF Frozen, lzopVars, fileVars
<1>12. ~eof
  BY <1>1, <1>2, <1>4 DEF Cursor
<1>13. Hands(upTo[pos])'
  <2>1. p + n \in Nat /\ p + n <= q /\ q <= Len(buf)
    BY <1>3, <1>7 DEF Handing
  <2> QED
    BY <1>2, <1>9, <1>10, <2>1 DEF Hands, Handing
<1>14. Cursor(B, upTo, k)'
  BY <1>1, <1>10, <1>11, <1>12, <1>13 DEF Cursor
<1> QED
  BY <1>14, FollowingKept

LEMMA NullWordFollows ==
    ASSUME NEW B, NEW upTo, NEW k, Following(B, upTo, k), Frozen, Reader!NullWord
    PROVE  Following(B, upTo, k)'
<1>1. /\ file \in Seq(FileTokens) /\ Len(file) \in Nat /\ k \in Nat /\ k <= Len(file)
      /\ pos \in B /\ pos \in Nat /\ \A i \in 1 .. k : seen[i] = file[i]
      /\ B \subseteq 1 .. Len(file)
  BY FollowingTypes
<1>2. Laid(file, flags, B, upTo) /\ Cursor(B, upTo, k)
  BY DEF Following, LaidOut
<1>3. Reader!Filling /\ ~eof /\ Reader!Whole(1) /\ Reader!ULen = 0
  BY DEF Reader!NullWord
<1>4. pos + 1 <= k
  <2>1. 1 \in Nat
    OBVIOUS
  <2> QED
    BY <1>3, <2>1, WholeMeans
<1>5. Joint(file, flags, B, upTo, pos)
  BY <1>1, <1>2, <1>4 DEF Laid
<1>6. NullAhead(file, B, upTo, pos)
  <2>1. ASSUME NEW bytes \in Seq(Nat), NEW size \in Nat, NEW packed \in BOOLEAN,
               BlockAhead(file, flags, B, upTo, pos, bytes, size, packed)
        PROVE  FALSE
    <3>1. bytes # << >> /\ file[pos + 1] = Word(Len(bytes))
      BY <2>1 DEF BlockAhead, BlockBehind
    <3>2. file[pos + 1].value = Len(bytes)
      BY <3>1 DEF Word
    <3>3. seen[pos + 1] = file[pos + 1]
      <4>1. pos + 1 \in 1 .. k
        BY <1>1, <1>4
      <4> QED
        BY <1>1, <4>1
    <3>4. Len(bytes) = 0
      BY <1>3, <3>2, <3>3 DEF Reader!ULen
    <3> QED
      BY <3>1, <3>4
  <2> QED
    BY <1>5, <2>1 DEF Joint
<1>7. file[pos + 1] = Terminator /\ pos + 1 \in B /\ upTo[pos + 1] = upTo[pos]
  BY <1>6 DEF NullAhead
<1>8. FirstNull(file, pos + 1)
  <2>1. \A i \in 1 .. pos : file[i] # Terminator
    BY <1>2, <1>3 DEF Cursor
  <2>2. (pos + 1) - 1 = pos /\ pos + 1 \in 1 .. Len(file) /\ DOMAIN file = 1 .. Len(file)
    BY <1>1, <1>4
  <2> QED
    BY <1>7, <2>1, <2>2 DEF FirstNull
<1>9. /\ pos' = pos + 1 /\ eof' = TRUE /\ want' = -1 /\ answer' = "end"
      /\ UNCHANGED <<outputBuffer, outputBufferPos, outputBufferLen, delivered, failed,
                     headerFlags, opened>>
  BY DEF Reader!NullWord, Reader!EndRead, Reader!Idle, Reader!output
<1>10. UNCHANGED <<file, flags>>
  BY DEF Frozen, lzopVars, fileVars
<1>11. outputBufferPos = outputBufferLen
  BY <1>2, <1>3 DEF Reader!Filling, Reader!Available, Cursor, Hands
<1>12. Hands(upTo[pos])'
  BY <1>2, <1>7, <1>9 DEF Cursor, Hands
<1>13. pos' \in B /\ pos' <= k /\ FirstNull(file, pos)'
  BY <1>4, <1>7, <1>8, <1>9, <1>10
<1>14. Cursor(B, upTo, k)'
  BY <1>2, <1>9, <1>10, <1>11, <1>12, <1>13 DEF Cursor
<1> QED
  BY <1>14, FollowingKept

LEMMA AfterNullWordFollows ==
    ASSUME NEW B, NEW upTo, NEW k, Following(B, upTo, k), Frozen, Reader!AfterNullWord
    PROVE  Following(B, upTo, k)'
<1>1. /\ UNCHANGED <<pos, outputBuffer, outputBufferPos, outputBufferLen, delivered, failed,
                     headerFlags, eof, opened>>
      /\ want' = -1 /\ eof
  BY DEF Reader!AfterNullWord, Reader!EndRead, Reader!Idle, Reader!output
<1>2. UNCHANGED <<file, flags>>
  BY DEF Frozen, lzopVars, fileVars
<1>3. Cursor(B, upTo, k)'
  BY <1>1, <1>2 DEF Following, Cursor, Hands, FirstNull
<1> QED
  BY <1>3, FollowingKept

LEMMA CutShortBreaks ==
    ASSUME NEW B, NEW upTo, NEW k, Following(B, upTo, k), Frozen,
           Reader!LzopCutShort \/ Reader!StoredCutShort
    PROVE  Broken'
<1>1. /\ Reader!AtBlock /\ ~Reader!BlockWhole /\ pos' = Len(seen) /\ Reader!ThrowRead
      /\ UNCHANGED <<eof, opened>>
  BY DEF Reader!LzopCutShort, Reader!StoredCutShort
<1>2. ~closed
  BY <1>1, NoneCut
<1>3. failed' /\ answer' = "failed" /\ ~eof
  BY <1>1 DEF Reader!ThrowRead, Reader!AtBlock
<1> QED
  BY <1>1, <1>2, <1>3, BreaksFollowing

-----------------------------------------------------------------------------
(* A block is read *)

LEMMA RoomInBuffer ==
    ASSUME outputBuffer \in Seq(Nat), NEW n \in Nat
    PROVE  Reader!Grown(n) \in Seq(Nat) /\ n <= Len(Reader!Grown(n))
<1>1. CASE n > Len(outputBuffer)
  <2>1. Reader!Grown(n) = [i \in 1 .. n |-> 0]
    BY <1>1 DEF Reader!Grown, Reader!Junk
  <2>2. PICK g : g = [i \in 1 .. n |-> 0]
    OBVIOUS
  <2>3. g \in [1 .. n -> Nat]
    BY <2>2
  <2>4. g \in Seq(Nat) /\ Len(g) = n
    BY <2>3, FunctionIsSeq
  <2> QED
    BY <2>1, <2>2, <2>4
<1>2. CASE ~(n > Len(outputBuffer))
  BY <1>2 DEF Reader!Grown
<1> QED
  BY <1>1, <1>2

(* The bytes are at the front of the array. *)
InFront(o, bytes) ==
    /\ o \in Seq(Nat) /\ Len(bytes) <= Len(o)
    /\ \A i \in 1 .. Len(bytes) : o[i] = bytes[i]

LEMMA CopiedToFront ==
    ASSUME NEW g \in Seq(Nat), NEW d \in Seq(Nat), Len(d) <= Len(g), NEW o, o = Reader!Over(g, d)
    PROVE  InFront(o, d)
<1>1. o = [i \in 1 .. Len(g) |-> IF i <= Len(d) THEN d[i] ELSE g[i]]
  BY DEF Reader!Over
<1>2. o \in [1 .. Len(g) -> Nat] /\ Len(g) \in Nat
  BY <1>1
<1>3. o \in Seq(Nat) /\ Len(o) = Len(g)
  BY <1>2, FunctionIsSeq
<1>4. \A i \in 1 .. Len(d) : o[i] = d[i]
  BY <1>1
<1> QED
  BY <1>3, <1>4 DEF InFront

LEMMA FrontIs ==
    ASSUME NEW o, NEW d \in Seq(Nat), InFront(o, d)
    PROVE  SubSeq(o, 1, Len(d)) = d
<1>1. o \in Seq(Nat) /\ Len(d) <= Len(o) /\ \A i \in 1 .. Len(d) : o[i] = d[i]
  BY DEF InFront
<1>2. PICK f : f = SubSeq(o, 1, Len(d))
  OBVIOUS
<1>3. f = [i \in 1 .. Len(d) |-> o[i]]
  <2>1. f = [i \in 1 .. (Len(d) - 1 + 1) |-> o[1 + i - 1]]
    BY <1>2
  <2>2. Len(d) - 1 + 1 = Len(d) /\ \A i \in 1 .. Len(d) : 1 + i - 1 = i
    OBVIOUS
  <2> QED
    BY <2>1, <2>2
<1>4. d = [i \in 1 .. Len(d) |-> d[i]]
  OBVIOUS
<1> QED
  BY <1>1, <1>2, <1>3, <1>4

(* The block at hand is in what the reader sees. *)
Taken(B, upTo, k, bytes, packed) ==
    AtHand(B, upTo, k, bytes, packed) /\ pos + 2 <= k /\ pos + SizeOf(flags, packed) <= k

LEMMA SumsMatch ==
    ASSUME NEW B, NEW upTo, NEW k, Following(B, upTo, k),
           NEW bytes, NEW packed, Taken(B, upTo, k, bytes, packed)
    PROVE  /\ Reader!BlockData = Data(bytes, packed)
           /\ \A o : InFront(o, bytes) => Reader!DMatch(o)
           /\ packed => Reader!CMatch
<1>1. /\ Len(file) \in Nat /\ k \in Nat /\ k <= Len(file) /\ pos \in Nat
      /\ \A i \in 1 .. k : seen[i] = file[i]
  BY FollowingTypes
<1>2. /\ bytes \in Seq(Nat) /\ packed \in BOOLEAN
      /\ BlockBehind(file, pos, flags, bytes, packed, file[pos + 2].value)
      /\ Reader!ULen = Len(bytes) /\ Reader!BlockLen = SizeOf(flags, packed)
      /\ Reader!HeadLen = 2 + Len(DNamesOf(flags))
      /\ pos + SizeOf(flags, packed) <= k
  BY DEF Taken, AtHand
<1>3. headerFlags = flags
  BY DEF Following, Cursor
<1>4. PICK ds, cs : ds = DNamesOf(flags) /\ cs = CNamesOf(flags)
  OBVIOUS
<1>5. PICK n \in Nat, m \in Nat : n = Len(ds) /\ m = Len(cs)
  BY <1>4, NamesLens
<1>6. DOMAIN ds = 1 .. n /\ DOMAIN cs = 1 .. m
  <2>1. /\ ds \in Seq({"ADLER32_D", "CRC32_D"}) /\ cs \in Seq({"ADLER32_C", "CRC32_C"})
    BY <1>4, NamesAreSeq DEF DNamesOf, CNamesOf
  <2> QED
    BY <1>5, <2>1
<1>7. PICK s \in Nat : s = SizeOf(flags, packed) /\ s = 3 + n + (IF packed THEN m ELSE 0)
  <2>1. SizeOf(flags, packed) = 3 + n + (IF packed THEN m ELSE 0)
    BY <1>4, <1>5 DEF SizeOf
  <2> QED
    BY <1>2, <2>1
<1>8. \A j \in 1 .. s : seen[pos + j] = file[pos + j]
  <2>1. \A j \in 1 .. s : pos + j \in 1 .. k
    BY <1>1, <1>2, <1>7
  <2> QED
    BY <1>1, <2>1
<1>9. Reader!BlockData = Data(bytes, packed)
  <2>1. s \in 1 .. s
    BY <1>2, <1>7
  <2>2. file[pos + s] = Data(bytes, packed)
    BY <1>2, <1>7 DEF BlockBehind
  <2> QED
    BY <1>2, <1>7, <1>8, <2>1, <2>2 DEF Reader!BlockData
<1>10. ASSUME NEW o, InFront(o, bytes) PROVE Reader!DMatch(o)
  <2>1. PICK data : data = Data(bytes, FALSE)
    OBVIOUS
  <2>2. Reader!Data(SubSeq(o, 1, Reader!ULen), FALSE) = data
    <3>1. SubSeq(o, 1, Reader!ULen) = bytes
      BY <1>2, <1>10, FrontIs
    <3> QED
      BY <2>1, <3>1, SameFrames
  <2>3. ASSUME NEW i \in 1 .. n PROVE seen[pos + 2 + i] = Reader!Checksum(ds[i], data)
    <3>1. file[pos + 2 + i] = Checksum(ds[i], data)
      BY <1>2, <1>4, <1>5, <2>1 DEF BlockBehind
    <3>2. 2 + i \in 1 .. s /\ pos + (2 + i) = pos + 2 + i
      BY <1>1, <1>2, <1>7
    <3>3. seen[pos + 2 + i] = file[pos + 2 + i]
      BY <1>8, <3>2
    <3> QED
      BY <3>1, <3>3, SameFrames
  <2>4. Reader!DNames = ds
    BY <1>3, <1>4, SameFrames
  <2> QED
    BY <1>6, <2>2, <2>3, <2>4 DEF Reader!DMatch, Reader!Match
<1>11. ASSUME packed PROVE Reader!CMatch
  <2>1. PICK data : data = Data(bytes, TRUE)
    OBVIOUS
  <2>2. Reader!BlockData = data
    <3>1. packed = TRUE
      BY <1>2, <1>11
    <3> QED
      BY <1>9, <2>1, <3>1
  <2>3. ASSUME NEW i \in 1 .. m PROVE seen[pos + (2 + n) + i] = Reader!Checksum(cs[i], data)
    <3>1. file[pos + 2 + n + i] = Checksum(cs[i], data)
      BY <1>2, <1>4, <1>5, <1>11, <2>1 DEF BlockBehind
    <3>2. /\ 2 + n + i \in 1 .. s /\ pos + (2 + n + i) = pos + 2 + n + i
          /\ pos + (2 + n) + i = pos + 2 + n + i
      <4>1. s = 3 + n + m
        BY <1>7, <1>11
      <4> QED
        BY <1>1, <4>1
    <3>3. seen[pos + 2 + n + i] = file[pos + 2 + n + i]
      BY <1>8, <3>2
    <3> QED
      BY <3>1, <3>2, <3>3, SameFrames
  <2>4. Reader!CNames = cs /\ Reader!HeadLen = 2 + n
    BY <1>2, <1>3, <1>4, <1>5, SameFrames
  <2> QED
    BY <1>6, <2>2, <2>3, <2>4 DEF Reader!CMatch, Reader!Match
<1> QED
  BY <1>9, <1>10, <1>11

(* The bytes of the block go to the front of the buffer. *)
Lands(bytes, packed) ==
    /\ pos' = pos + SizeOf(flags, packed)
    /\ InFront(outputBuffer', bytes) /\ outputBufferPos' = 0 /\ outputBufferLen' = Len(bytes)
    /\ UNCHANGED <<want, answer, delivered, failed, headerFlags, eof, opened>>

LEMMA LandedFollows ==
    ASSUME NEW B, NEW upTo, NEW k, Following(B, upTo, k), Frozen, Reader!Filling, ~eof,
           NEW bytes, NEW packed, Taken(B, upTo, k, bytes, packed), Lands(bytes, packed)
    PROVE  Following(B, upTo, k)'
<1>1. /\ Len(file) \in Nat /\ k \in Nat /\ pos \in B /\ pos \in Nat
      /\ \A b \in B : upTo[b] \in Seq(Nat)
  BY FollowingTypes
<1>2. Cursor(B, upTo, k) /\ Hands(upTo[pos])
  BY DEF Following, Cursor
<1>3. /\ bytes \in Seq(Nat) /\ packed \in BOOLEAN
      /\ \A j \in 1 .. SizeOf(flags, packed) : file[pos + j] # Terminator
  BY DEF Taken, AtHand
<1>4. PICK s \in Nat : s = SizeOf(flags, packed)
  BY <1>3, NamesLens
<1>5. pos + s \in B /\ upTo[pos + s] = upTo[pos] \o bytes /\ pos + s <= k
  BY <1>4 DEF Taken, AtHand
<1>6. /\ pos' = pos + s /\ InFront(outputBuffer', bytes)
      /\ outputBufferPos' = 0 /\ outputBufferLen' = Len(bytes)
      /\ UNCHANGED <<want, answer, delivered, failed, headerFlags, eof, opened>>
  BY <1>4 DEF Lands
<1>7. PICK o : o = outputBuffer' /\ o \in Seq(Nat) /\ Len(bytes) <= Len(o)
               /\ \A i \in 1 .. Len(bytes) : o[i] = bytes[i]
  BY <1>6 DEF InFront
<1>8. PICK d \in Seq(Nat) : d = delivered
  BY <1>2 DEF Hands
<1>9. PICK t \in Seq(Nat) : t = upTo[pos] /\ Len(t) = Len(d) /\ \A i \in 1 .. Len(d) : t[i] = d[i]
  <2>1. outputBufferLen - outputBufferPos = 0 /\ Len(d) \in Nat
    BY <1>8 DEF Reader!Filling, Reader!Available
  <2>2. Len(upTo[pos]) = Len(d) + 0 /\ \A i \in 1 .. Len(d) : upTo[pos][i] = d[i]
    BY <1>2, <1>8, <2>1 DEF Hands
  <2> QED
    BY <1>1, <2>1, <2>2
<1>10. PICK u : u = t \o bytes
  OBVIOUS
<1>11. Len(u) = Len(d) + Len(bytes) /\ (\A i \in 1 .. Len(d) : u[i] = d[i])
       /\ \A i \in 1 .. Len(bytes) : u[Len(d) + i] = bytes[i]
  <2>1. JoinOf(Nat, t, bytes, u)
    BY <1>3, <1>10 DEF JoinOf
  <2>2. Joined(t, bytes, u)
    BY <2>1, JoinedParts
  <2> QED
    BY <1>9, <2>2 DEF Joined
<1>12. upTo[pos'] = u
  BY <1>5, <1>6, <1>9, <1>10
<1>13. Hands(upTo[pos])'
  <2>1. PICK l \in Nat : l = Len(bytes)
    BY <1>3
  <2>2. /\ l - 0 = l /\ 0 <= l /\ 0 \in Nat /\ \A i \in 1 .. l : 0 + i = i
    BY <2>1
  <2>3. \A i \in 1 .. l - 0 : u[Len(d) + i] = o[0 + i]
    BY <1>7, <1>11, <2>1, <2>2
  <2> QED
    BY <1>6, <1>7, <1>8, <1>11, <1>12, <2>1, <2>2, <2>3 DEF Hands
<1>14. UNCHANGED <<file, flags>>
  BY DEF Frozen, lzopVars, fileVars
<1>15. \A i \in 1 .. pos + s : file[i] # Terminator
  <2>1. ASSUME NEW i \in 1 .. pos + s PROVE file[i] # Terminator
    <3>1. CASE i \in 1 .. pos
      BY <1>2, <3>1 DEF Cursor
    <3>2. CASE i \notin 1 .. pos
      <4>1. i - pos \in 1 .. s /\ pos + (i - pos) = i
        BY <1>1, <3>2
      <4>2. file[pos + (i - pos)] # Terminator
        BY <1>3, <1>4, <4>1
      <4> QED
        BY <4>1, <4>2
    <3> QED
      BY <3>1, <3>2
  <2> QED
    BY <2>1
<1>16. pos' \in B /\ pos' <= k /\ \A i \in 1 .. pos' : file'[i] # Terminator
  BY <1>5, <1>6, <1>14, <1>15
<1>17. Cursor(B, upTo, k)'
  BY <1>2, <1>6, <1>13, <1>14, <1>16 DEF Cursor
<1> QED
  BY <1>17, FollowingKept

LEMMA BlockFollows ==
    ASSUME NEW B, NEW upTo, NEW k, Following(B, upTo, k), Frozen,
           Reader!ReadStored \/ Reader!ReadPacked \/ Reader!RefusePacked
    PROVE  Following(B, upTo, k)'
<1>1. /\ Reader!AtBlock /\ Reader!BlockWhole /\ Reader!Filling /\ ~eof
      /\ pos' = pos + Reader!BlockLen /\ UNCHANGED <<headerFlags, eof, opened>>
  BY DEF Reader!ReadStored, Reader!ReadPacked, Reader!RefusePacked, Reader!AtBlock
<1>2. PICK bytes, packed : Taken(B, upTo, k, bytes, packed)
  BY <1>1, WholeBlock DEF Taken
<1>3. /\ bytes \in Seq(Nat) /\ packed \in BOOLEAN /\ Reader!ULen = Len(bytes)
      /\ (Reader!Stored <=> ~packed) /\ Reader!BlockLen = SizeOf(flags, packed)
  BY <1>2 DEF Taken, AtHand
<1>4. /\ Reader!BlockData = Data(bytes, packed)
      /\ \A o : InFront(o, bytes) => Reader!DMatch(o)
      /\ packed => Reader!CMatch
  BY <1>2, SumsMatch
<1>5. Reader!BlockData.bytes = bytes /\ Reader!BlockData.intact
  BY <1>4 DEF Data
<1>6. PICK g : g = Reader!Grown(Reader!ULen) /\ g \in Seq(Nat) /\ Len(bytes) <= Len(g)
  <2>1. outputBuffer \in Seq(Nat) /\ Len(bytes) \in Nat
    BY <1>3 DEF Following, Cursor, Hands
  <2> QED
    BY <1>3, <2>1, RoomInBuffer
<1>7. ASSUME Reader!Decompressed(g, Reader!BlockData)
      PROVE  /\ InFront(outputBuffer', bytes) /\ outputBufferPos' = 0
             /\ outputBufferLen' = Len(bytes) /\ Reader!DMatch(outputBuffer')
  <2>1. /\ outputBuffer' = Reader!Over(g, bytes) /\ outputBufferPos' = 0
        /\ outputBufferLen' = Len(bytes)
    BY <1>5, <1>7 DEF Reader!Decompressed
  <2>2. InFront(outputBuffer', bytes)
    BY <1>3, <1>6, <2>1, CopiedToFront
  <2> QED
    BY <1>4, <2>1, <2>2
<1>8. CASE Reader!ReadStored
  <2>1. /\ Reader!Decompressed(g, Reader!BlockData)
        /\ IF Reader!DMatch(outputBuffer') THEN Reader!Filled ELSE Reader!ThrowRead
    BY <1>6, <1>8 DEF Reader!ReadStored
  <2>2. Lands(bytes, packed)
    BY <1>1, <1>3, <1>7, <2>1 DEF Lands, Reader!Filled
  <2> QED
    BY <1>1, <1>2, <2>2, LandedFollows
<1>9. CASE Reader!ReadPacked
  <2>1. /\ Reader!Decompressed(g, Reader!BlockData)
        /\ \/ Reader!Filled
           \/ ~(Reader!BlockData.intact /\ Reader!DMatch(outputBuffer'))
    BY <1>5, <1>6, <1>9 DEF Reader!ReadPacked
  <2>2. Lands(bytes, packed)
    BY <1>1, <1>3, <1>5, <1>7, <2>1 DEF Lands, Reader!Filled
  <2> QED
    BY <1>1, <1>2, <2>2, LandedFollows
<1>10. CASE Reader!RefusePacked
  BY <1>3, <1>4, <1>10 DEF Reader!RefusePacked
<1> QED
  BY <1>8, <1>9, <1>10

-----------------------------------------------------------------------------
(* Before it follows, and after it broke *)

LEMMA HeaderOpens ==
    ASSUME Closing, LinedUp, NEW B, NEW upTo, LaidOut(B, upTo), NEW k, Seen(k), Fresh,
           Frozen, Reader!ReadHeader
    PROVE  Following(B, upTo, k)'
<1>1. Reader!Whole(1) /\ headerFlags' = seen[1].flags /\ pos' = 1 /\ opened' = TRUE
      /\ UNCHANGED <<outputBuffer, outputBufferPos, outputBufferLen, want, answer, delivered,
                     failed, eof>>
  BY DEF Reader!ReadHeader, Reader!output
<1>2. /\ pos = 0 /\ outputBuffer = << >> /\ outputBufferPos = 0 /\ outputBufferLen = 0
      /\ want = -1 /\ answer = "ok" /\ delivered = << >> /\ ~failed /\ ~eof
  BY DEF Fresh
<1>3. /\ Len(file) \in Nat /\ 1 \in B /\ B \subseteq 1 .. Len(file)
      /\ upTo[1] = << >> /\ file[1] = Header(flags)
  BY LaidTypes DEF LaidOut, Laid
<1>4. /\ k \in 0 .. Len(file) /\ \A i \in 1 .. k : seen[i] = file[i]
      /\ Len(seen) = k \/ (Len(seen) = k + 1 /\ seen[k + 1] = Part)
  BY DEF Seen
<1>5. 1 <= k
  <2>1. 0 + 1 <= Len(seen) /\ \A i \in 1 .. 1 : seen[0 + i] # Part
    BY <1>1, <1>2, SameFrames DEF Reader!Whole
  <2>2. 1 \in 1 .. 1 /\ 0 + 1 = 1
    OBVIOUS
  <2>3. 1 <= Len(seen) /\ seen[1] # Part
    BY <2>1, <2>2
  <2> QED
    BY <1>4, <2>3
<1>6. headerFlags' = flags
  <2>1. seen[1] = Header(flags)
    <3>1. 1 \in 1 .. k
      BY <1>4, <1>5
    <3> QED
      BY <1>3, <1>4, <3>1
  <2> QED
    BY <1>1, <2>1 DEF Header
<1>7. UNCHANGED <<file, flags>>
  BY DEF Frozen, lzopVars, fileVars
<1>8. Hands(upTo[pos])'
  <2>1. upTo[pos'] = << >>
    BY <1>1, <1>3
  <2>2. << >> \in Seq(Nat) /\ Len(<< >>) = 0
    OBVIOUS
  <2> QED
    BY <1>1, <1>2, <2>1, <2>2 DEF Hands
<1>9. \A i \in 1 .. pos' : file'[i] # Terminator
  <2>1. Header(flags) # Terminator
    <3>1. Header(flags).kind = "header" /\ Terminator.kind = "int"
      BY DEF Header, Terminator, Word
    <3> QED
      BY <3>1
  <2> QED
    BY <1>1, <1>3, <1>7, <2>1
<1>10. Cursor(B, upTo, k)'
  BY <1>1, <1>2, <1>3, <1>5, <1>6, <1>7, <1>8, <1>9 DEF Cursor
<1> QED
  BY <1>10, FrozenKeeps DEF Following

LEMMA StaysBroken ==
    ASSUME Broken, Len(seen) \in Nat, Frozen, Reader!LzopNext
    PROVE  Broken'
<1>1. /\ opened /\ failed /\ ~eof /\ ~closed /\ pos = Len(seen) /\ answer # "end"
  BY DEF Broken
<1>2. UNCHANGED <<seen, closed>>
  BY DEF Frozen, lzopVars, fileVars
<1>3. ASSUME NEW j \in Nat \ {0} PROVE ~Reader!Whole(j)
  BY <1>1 DEF Reader!Whole
<1>4. ~Reader!Whole(1) /\ ~Reader!BlockWhole
  <2>1. Len(DNamesOf(headerFlags)) \in Nat
    BY NamesLens
  <2>2. Reader!HeadLen \in Nat \ {0}
    BY <2>1, SameFrames DEF Reader!HeadLen
  <2> QED
    BY <1>3, <2>2 DEF Reader!BlockWhole, Reader!HeadWhole
<1>5. CASE Reader!ReadCall /\ UNCHANGED <<headerFlags, eof, opened>>
  BY <1>1, <1>2, <1>5 DEF Broken, Reader!ReadCall, Reader!Read
<1>6. CASE Reader!Deliver /\ UNCHANGED <<headerFlags, eof, opened>>
  BY <1>1, <1>2, <1>6 DEF Broken, Reader!Deliver
<1>7. CASE Reader!LzopCutShort \/ Reader!StoredCutShort
  <2>1. pos' = Len(seen) /\ Reader!ThrowRead /\ UNCHANGED <<eof, opened>>
    BY <1>7 DEF Reader!LzopCutShort, Reader!StoredCutShort
  <2>2. failed' /\ answer' = "failed"
    BY <2>1 DEF Reader!ThrowRead
  <2> QED
    BY <1>1, <1>2, <2>1, <2>2 DEF Broken
<1> QED
  BY <1>1, <1>4, <1>5, <1>6, <1>7
  DEF Reader!LzopNext, Reader!LzopStep, Reader!ReadHeader, Reader!NullWord,
      Reader!AfterNullWord, Reader!ReadStored, Reader!RefusePacked, Reader!ReadPacked

-----------------------------------------------------------------------------
(* The two processes *)

(* Once the writer has stopped, the reader follows the file or has thrown. *)
ReaderFollows ==
    \E k : Seen(k) /\ (Fresh \/ Broken \/ \E B, upTo : LaidOut(B, upTo) /\ Cursor(B, upTo, k))

TripInv ==
    /\ Closing /\ Readable
    /\ ~stopped => Fresh
    /\ stopped => LinedUp /\ ReaderFollows

LEMMA TornSeen ==
    ASSUME NEW f \in Seq(FileTokens), NEW t \in Torn(f)
    PROVE  /\ t \in Seq(FileTokens)
           /\ \E k \in 0 .. Len(f) : /\ \A i \in 1 .. k : t[i] = f[i]
                                     /\ Len(t) = k \/ (Len(t) = k + 1 /\ t[k + 1] = Part)
<1>1. Part \in FileTokens
  BY DEF FileTokens
<1> HIDE DEF FileTokens, Part
<1>2. PICK n \in Nat : n = Len(f)
  BY LenProperties
<1>3. PICK k \in 0 .. n - 1 : t = SubSeq(f, 1, k) \/ t = Append(SubSeq(f, 1, k), Part)
  BY <1>2 DEF Torn
<1>4. PICK s : s = SubSeq(f, 1, k)
  OBVIOUS
<1>5. s \in Seq(FileTokens) /\ Len(s) = k /\ \A i \in 1 .. k : s[i] = f[i]
  <2>1. k \in Nat /\ k <= Len(f) /\ k \in 0 .. Len(f)
    BY <1>2, <1>3
  <2>2. s \in Seq(FileTokens) /\ Len(s) = k
    BY <1>4, <2>1, SMTT(30)
  <2>3. \A i \in 1 .. k : s[i] = f[1 + i - 1]
    BY <1>4, <2>1, <2>2
  <2>4. \A i \in 1 .. k : 1 + i - 1 = i
    OBVIOUS
  <2> QED
    BY <2>2, <2>3, <2>4
<1>6. k \in 0 .. Len(f)
  BY <1>2, <1>3
<1>7. CASE t = s
  BY <1>5, <1>6, <1>7
<1>8. CASE t = Append(s, Part)
  <2>1. t \in Seq(FileTokens) /\ Len(t) = k + 1 /\ t[k + 1] = Part /\ \A i \in 1 .. k : t[i] = s[i]
    BY <1>1, <1>3, <1>5, <1>8
  <2> QED
    BY <1>5, <1>6, <2>1
<1> QED
  BY <1>3, <1>4, <1>7, <1>8

LEMMA InitTrip == TripInit => TripInv
<1> SUFFICES ASSUME TripInit PROVE TripInv
  OBVIOUS
<1>1. LzopInit /\ stopped = FALSE
  BY DEF TripInit
<1>2. Closing /\ Readable
  BY <1>1, InitAccounts, InitFile, InitReadable DEF Closing
<1>3. Fresh
  BY DEF TripInit, Reader!ReaderInit, Reader!Idle, Fresh
<1> QED
  BY <1>1, <1>2, <1>3 DEF TripInv

LEMMA WritingKeeps == TripInv /\ Writing => TripInv'
<1> SUFFICES ASSUME TripInv, Writing PROVE TripInv'
  OBVIOUS
<1>1. ~stopped /\ [LzopNext]_lzopVars /\ UNCHANGED stopped /\ UNCHANGED readerVars
  BY DEF Writing
<1>2. Closing' /\ Readable'
  BY <1>1, NextAccounts, NextFlow, NextFile, NextReadable DEF TripInv, Closing
<1>3. Fresh'
  BY <1>1 DEF TripInv, Fresh, readerVars
<1> QED
  BY <1>1, <1>2, <1>3 DEF TripInv

LEMMA StopKeeps == TripInv /\ Stop => TripInv'
<1> SUFFICES ASSUME TripInv, Stop PROVE TripInv'
  OBVIOUS
<1>1. /\ ~stopped /\ LinedUp /\ stopped' = TRUE /\ UNCHANGED lzopVars
      /\ seen' \in IF closed THEN {file} ELSE {file} \cup Torn(file)
      /\ UNCHANGED <<pos, outputBuffer, outputBufferPos, outputBufferLen, eof, opened, want,
                     answer, delivered, failed>>
  BY DEF Stop
<1>2. [LzopNext]_lzopVars /\ UNCHANGED <<file, out, closed>>
  BY <1>1 DEF lzopVars, vars, fileVars
<1>3. Closing' /\ Readable'
  BY <1>2, NextAccounts, NextFlow, NextFile, NextReadable DEF TripInv, Closing
<1>4. Fresh'
  BY <1>1 DEF TripInv, Fresh
<1>5. LinedUp'
  BY <1>1, <1>2 DEF LinedUp
<1>6. file \in Seq(FileTokens) /\ Len(file) \in Nat
  BY LenProperties DEF TripInv, Closing, FileInv
<1>7. PICK k \in 0 .. Len(file) :
        /\ seen' \in Seq(FileTokens)
        /\ \A i \in 1 .. k : seen'[i] = file[i]
        /\ Len(seen') = k \/ (Len(seen') = k + 1 /\ seen'[k + 1] = Part)
        /\ closed => Len(seen') = k /\ k = Len(file)
  <2>1. CASE seen' = file
    BY <1>6, <2>1
  <2>2. CASE seen' # file
    <3>1. ~closed /\ seen' \in Torn(file)
      BY <1>1, <2>2
    <3> QED
      BY <1>6, <3>1, TornSeen
  <2> QED
    BY <2>1, <2>2
<1>8. Seen(k)'
  BY <1>2, <1>7 DEF Seen
<1> QED
  BY <1>1, <1>3, <1>4, <1>5, <1>8 DEF TripInv, ReaderFollows

LEMMA FollowingFollows ==
    ASSUME Closing, LinedUp, NEW k, Seen(k), Frozen, Reader!LzopNext,
           NEW B, NEW upTo, LaidOut(B, upTo), Cursor(B, upTo, k)
    PROVE  Following(B, upTo, k)' \/ Broken'
<1>1. Following(B, upTo, k) /\ opened
  BY DEF Following, Cursor
<1>2. CASE Reader!ReadCall /\ UNCHANGED <<headerFlags, eof, opened>>
  BY <1>1, <1>2, ReadFollows
<1>3. CASE Reader!Deliver /\ UNCHANGED <<headerFlags, eof, opened>>
  BY <1>1, <1>3, DeliverFollows
<1>4. CASE Reader!NullWord
  BY <1>1, <1>4, NullWordFollows
<1>5. CASE Reader!AfterNullWord
  BY <1>1, <1>5, AfterNullWordFollows
<1>6. CASE Reader!LzopCutShort \/ Reader!StoredCutShort
  BY <1>1, <1>6, CutShortBreaks
<1>7. CASE Reader!ReadStored \/ Reader!ReadPacked \/ Reader!RefusePacked
  BY <1>1, <1>7, BlockFollows
<1>8. ~Reader!ReadHeader
  BY <1>1 DEF Reader!ReadHeader
<1> QED
  BY <1>2, <1>3, <1>4, <1>5, <1>6, <1>7, <1>8 DEF Reader!LzopNext, Reader!LzopStep

LEMMA ReadingKeeps == TripInv /\ Reading => TripInv'
<1> SUFFICES ASSUME TripInv, Reading PROVE TripInv'
  OBVIOUS
<1>1. stopped /\ UNCHANGED lzopVars /\ UNCHANGED stopped /\ Reader!LzopNext
  BY DEF Reading
<1>2. Closing /\ LinedUp /\ ReaderFollows
  BY <1>1 DEF TripInv
<1>3. UNCHANGED seen
  BY <1>1
  DEF Reader!LzopNext, Reader!LzopStep, Reader!ReadHeader, Reader!ReadCall, Reader!Read,
      Reader!Deliver, Reader!NullWord, Reader!AfterNullWord, Reader!LzopCutShort,
      Reader!StoredCutShort, Reader!ReadStored, Reader!RefusePacked, Reader!ReadPacked,
      Reader!EndRead, Reader!ThrowRead, Reader!Filled
<1>4. Frozen
  BY <1>1, <1>3 DEF Frozen
<1>5. [LzopNext]_lzopVars
  BY <1>1
<1>6. Closing' /\ Readable'
  BY <1>5, NextAccounts, NextFlow, NextFile, NextReadable DEF TripInv, Closing
<1>7. PICK k : Seen(k) /\ (Fresh \/ Broken \/ \E B, upTo : LaidOut(B, upTo) /\ Cursor(B, upTo, k))
  BY <1>2 DEF ReaderFollows
<1>8. LinedUp' /\ Seen(k)'
  <2>1. LinedUp'
    BY <1>1, <1>2 DEF LinedUp, lzopVars, vars, fileVars
  <2>2. Seen(k)'
    BY <1>1, <1>3, <1>7 DEF Seen, lzopVars, fileVars
  <2> QED
    BY <2>1, <2>2
<1>9. ReaderFollows'
  <2>1. CASE Fresh
    <3>1. Reader!ReadHeader
      BY <1>1, <2>1 DEF Reader!LzopNext, Fresh
    <3>2. PICK B, upTo : LaidOut(B, upTo)
      BY <1>2 DEF TripInv, Readable
    <3>3. Following(B, upTo, k)'
      BY <1>2, <1>4, <1>7, <2>1, <3>1, <3>2, HeaderOpens
    <3> QED
      BY <1>8, <3>3 DEF Following, ReaderFollows
  <2>2. CASE Broken
    <3>1. Len(seen) \in Nat
      BY <1>7, LenProperties DEF Seen
    <3>2. Broken'
      BY <1>1, <1>4, <2>2, <3>1, StaysBroken
    <3> QED
      BY <1>8, <3>2 DEF ReaderFollows
  <2>3. ASSUME NEW B, NEW upTo, LaidOut(B, upTo), Cursor(B, upTo, k) PROVE ReaderFollows'
    <3>1. Following(B, upTo, k)' \/ Broken'
      BY <1>1, <1>2, <1>4, <1>7, <2>3, FollowingFollows
    <3> QED
      BY <1>8, <3>1 DEF Following, ReaderFollows
  <2> QED
    BY <1>7, <2>1, <2>2, <2>3
<1> QED
  BY <1>1, <1>6, <1>8, <1>9 DEF TripInv

LEMMA StutterKeepsTrip == TripInv /\ UNCHANGED tripVars => TripInv'
<1> SUFFICES ASSUME TripInv, UNCHANGED tripVars PROVE TripInv'
  OBVIOUS
<1>1. /\ UNCHANGED lzopVars /\ UNCHANGED seen /\ UNCHANGED stopped
      /\ UNCHANGED <<pos, outputBuffer, outputBufferPos, outputBufferLen,
                     headerFlags, eof, opened, want, answer, delivered, failed>>
  BY DEF tripVars, readerVars
<1>2. [LzopNext]_lzopVars /\ UNCHANGED <<file, flags, out, closed>>
  BY <1>1 DEF lzopVars, vars, fileVars
<1>3. Closing' /\ Readable'
  BY <1>2, NextAccounts, NextFlow, NextFile, NextReadable DEF TripInv, Closing
<1>4. Fresh => Fresh'
  BY <1>1 DEF Fresh
<1>5. ASSUME LinedUp, ReaderFollows PROVE LinedUp' /\ ReaderFollows'
  <2>1. PICK k : Seen(k) /\ (Fresh \/ Broken \/ \E B, upTo : LaidOut(B, upTo) /\ Cursor(B, upTo, k))
    BY <1>5 DEF ReaderFollows
  <2>2. LinedUp' /\ Seen(k)'
    BY <1>1, <1>2, <1>5, <2>1 DEF LinedUp, Seen
  <2>3. Broken => Broken'
    BY <1>1, <1>2 DEF Broken
  <2>4. ASSUME NEW B, NEW upTo, LaidOut(B, upTo), Cursor(B, upTo, k)
        PROVE  LaidOut(B, upTo)' /\ Cursor(B, upTo, k)'
    <3>1. LaidOut(B, upTo)'
      BY <1>1, <1>5, <2>1, <2>4, FrozenKeeps DEF Frozen, TripInv
    <3>2. Cursor(B, upTo, k)'
      BY <1>1, <1>2, <2>4 DEF Cursor, Hands, FirstNull
    <3> QED
      BY <3>1, <3>2
  <2> QED
    BY <1>4, <2>1, <2>2, <2>3, <2>4 DEF ReaderFollows
<1> QED
  BY <1>1, <1>3, <1>4, <1>5 DEF TripInv

LEMMA TripHolds == TripSpec => []TripInv
<1>1. TripInv /\ [TripNext]_tripVars => TripInv'
  BY WritingKeeps, StopKeeps, ReadingKeeps, StutterKeepsTrip DEF TripNext
<1> QED
  BY <1>1, InitTrip, PTL DEF TripSpec

(* A file has one first null word. *)
LEMMA FirstNullOnce ==
    ASSUME NEW f \in Seq(FileTokens), NEW p, NEW q, FirstNull(f, p), FirstNull(f, q)
    PROVE  p = q
<1> HIDE DEF FileTokens, Terminator
<1>1. /\ p \in 1 .. Len(f) /\ q \in 1 .. Len(f) /\ Len(f) \in Nat
      /\ f[p] = Terminator /\ f[q] = Terminator
      /\ (\A i \in 1 .. p - 1 : f[i] # Terminator) /\ \A i \in 1 .. q - 1 : f[i] # Terminator
  BY DEF FirstNull
<1>2. ~(p < q) /\ ~(q < p)
  <2>1. (p < q => p \in 1 .. q - 1) /\ (q < p => q \in 1 .. p - 1)
    BY <1>1
  <2> QED
    BY <1>1, <2>1
<1> QED
  BY <1>1, <1>2

LEMMA EndHasAll ==
    ASSUME Closing, NEW B, NEW upTo, LaidOut(B, upTo), NEW k, Cursor(B, upTo, k), eof
    PROVE  closedAt # Open /\ Selected(delivered, closedAt, lost)
<1>1. /\ pos \in B /\ Hands(upTo[pos])
      /\ FirstNull(file, pos) /\ outputBufferPos = outputBufferLen
  BY DEF Cursor
<1>2. file \in Seq(FileTokens) /\ Len(file) \in Nat /\ B \subseteq 1 .. Len(file)
  BY LaidTypes
<1>3. closedAt # Open
  <2>1. Ends(file, closedAt, lost)
    BY DEF Closing, FileInv
  <2>2. pos \in DOMAIN file /\ file[pos] = Terminator
    BY <1>1 DEF FirstNull
  <2> QED
    BY <2>1, <2>2 DEF Ends, Unended
<1>4. PICK p \in B : FirstNull(file, p + 1) /\ Selected(upTo[p], closedAt, lost)
  BY <1>3 DEF LaidOut, EndsAt
<1>5. p + 1 = pos
  <2> HIDE DEF FileTokens, FirstNull
  <2> QED
    BY <1>1, <1>2, <1>4, FirstNullOnce
<1>6. upTo[pos] = upTo[p]
  <2>1. p < Len(file) /\ Joint(file, flags, B, upTo, p)
    <3>1. p < Len(file)
      BY <1>1, <1>2, <1>5
    <3> QED
      BY <3>1 DEF LaidOut, Laid
  <2>2. ASSUME NEW bytes \in Seq(Nat), NEW size \in Nat, NEW packed \in BOOLEAN,
               BlockAhead(file, flags, B, upTo, p, bytes, size, packed)
        PROVE  FALSE
    <3>1. \A j \in 1 .. SizeOf(flags, packed) : file[p + j] # Terminator
      BY <2>2 DEF BlockAhead
    <3>2. 1 \in 1 .. SizeOf(flags, packed)
      <4>1. SizeOf(flags, packed) \in Nat /\ SizeOf(flags, packed) >= 3
        BY NamesLens
      <4> QED
        BY <4>1
    <3>3. file[p + 1] = Terminator
      BY <1>4 DEF FirstNull
    <3> QED
      BY <3>1, <3>2, <3>3
  <2>3. NullAhead(file, B, upTo, p)
    BY <2>1, <2>2 DEF Joint
  <2> QED
    BY <1>5, <2>3 DEF NullAhead
<1>7. PICK d \in Seq(Nat) : d = delivered
  BY <1>1 DEF Hands
<1>8. Len(upTo[p]) = Len(d) /\ \A i \in 1 .. Len(d) : upTo[p][i] = d[i]
  <2>1. outputBufferLen - outputBufferPos = 0 /\ Len(d) \in Nat /\ Len(d) + 0 = Len(d)
    BY <1>1, <1>7 DEF Hands
  <2> QED
    BY <1>1, <1>6, <1>7, <2>1 DEF Hands
<1>9. Selected(d, closedAt, lost)
  BY <1>4, <1>8 DEF Selected
<1> QED
  BY <1>3, <1>7, <1>9

-----------------------------------------------------------------------------
(* A file that was closed is read to its end with no exception, whoever    *)
(* wrote to the stream and however its calls failed: LzopInputStream.read  *)
(* hands out every byte that was accepted before the close and was not     *)
(* reported lost, once and in order, before it returns -1.                 *)
THEOREM ClosedFileReadsBack == TripSpec => []RoundTrip
<1>1. TripInv => RoundTrip
  <2> SUFFICES ASSUME TripInv, stopped, closed
      PROVE  /\ ~failed
             /\ answer = "end" =>
                    /\ ToSet(delivered) = 1 .. closedAt \ lost
                    /\ \A i, j \in DOMAIN delivered : i < j => delivered[i] < delivered[j]
    BY DEF RoundTrip
  <2>1. Closing /\ ReaderFollows
    BY DEF TripInv
  <2>2. PICK k : Seen(k) /\ (Fresh \/ Broken \/ \E B, upTo : LaidOut(B, upTo) /\ Cursor(B, upTo, k))
    BY <2>1 DEF ReaderFollows
  <2>3. CASE Fresh
    BY <2>3 DEF Fresh
  <2>4. CASE Broken
    BY <2>4 DEF Broken
  <2>5. ASSUME NEW B, NEW upTo, LaidOut(B, upTo), Cursor(B, upTo, k)
        PROVE  /\ ~failed
               /\ answer = "end" =>
                    /\ ToSet(delivered) = 1 .. closedAt \ lost
                    /\ \A i, j \in DOMAIN delivered : i < j => delivered[i] < delivered[j]
    <3>1. ~failed
      BY <2>5 DEF Cursor
    <3>2. ASSUME answer = "end"
          PROVE  /\ ToSet(delivered) = 1 .. closedAt \ lost
                 /\ \A i, j \in DOMAIN delivered : i < j => delivered[i] < delivered[j]
      <4>1. eof
        BY <2>5, <3>2 DEF Cursor
      <4>2. Selected(delivered, closedAt, lost)
        BY <2>1, <2>5, <4>1, EndHasAll
      <4>3. delivered \in Seq(Nat)
        BY <2>5 DEF Cursor, Hands
      <4>4. DOMAIN delivered = 1 .. Len(delivered)
        BY <4>3
      <4>5. ToSet(delivered) = 1 .. closedAt \ lost
        BY <4>2, <4>4 DEF Selected, ToSet
      <4> QED
        BY <4>2, <4>4, <4>5 DEF Selected
    <3> QED
      BY <3>1, <3>2
  <2> QED
    BY <2>2, <2>3, <2>4, <2>5
<1> QED
  BY <1>1, TripHolds, PTL

(* A writer that stopped before its close() had written the null word      *)
(* leaves a file that LzopInputStream never ends with -1: up to the        *)
(* exception a reader has a prefix of what was accepted.                   *)
THEOREM TornFileShows == TripSpec => []CrashShows
<1>1. TripInv => CrashShows
  <2> SUFFICES ASSUME TripInv, stopped, closedAt = Open
      PROVE  /\ answer # "end"
             /\ failures = 0 /\ ~failed => IsPrefix(delivered, [i \in 1 .. accepted |-> i])
    BY DEF CrashShows
  <2>1. Closing /\ IInv /\ NothingLostSilently /\ ReaderFollows
    BY DEF TripInv, Closing
  <2>2. PICK k : Seen(k) /\ (Fresh \/ Broken \/ \E B, upTo : LaidOut(B, upTo) /\ Cursor(B, upTo, k))
    BY <2>1 DEF ReaderFollows
  <2>3. accepted \in Nat /\ Dispatched \in Nat /\ Dispatched <= accepted
    <3>1. accepted \in Nat
      BY <2>1 DEF IInv, TypeOK
    <3>2. Dispatched \in Nat
      BY <2>1, BlockBytes
    <3>3. HeldLen \in Nat
      BY <2>1, HoldoverFields DEF IInv, TypeOK, HeldLen, LenOf
    <3>4. inputBufferLen \in Nat /\ Len(block) \in Nat
      BY <2>1, NAssumption DEF IInv, TypeOK
    <3> QED
      BY <3>1, <3>2, <3>3, <3>4 DEF Dispatched, Buffered
  <2>4. PICK c : c = [i \in 1 .. accepted |-> i] /\ c \in Seq(Nat) /\ Len(c) = accepted
    <3>1. PICK c : c = [i \in 1 .. accepted |-> i]
      OBVIOUS
    <3>2. c \in [1 .. accepted -> Nat]
      BY <2>3, <3>1
    <3> QED
      BY <2>3, <3>1, <3>2, FunctionIsSeq
  <2>5. ASSUME NEW d \in Seq(Nat), Len(d) <= accepted, \A i \in 1 .. Len(d) : d[i] = i
        PROVE  IsPrefix(d, c)
    <3>1. PICK n \in Nat : n = Len(d) /\ n <= accepted
      BY <2>5
    <3>2. SubSeq(d, 1, n) = d
      BY <3>1
    <3>3. SubSeq(c, 1, n) = [i \in 1 .. n |-> i]
      BY <2>3, <2>4, <3>1
    <3>4. d = [i \in 1 .. n |-> i]
      BY <2>5, <3>1
    <3>5. SubSeq(d, 1, n) = SubSeq(c, 1, n)
      BY <3>2, <3>3, <3>4
    <3> QED
      BY <2>4, <3>1, <3>5 DEF IsPrefix
  <2>6. CASE Fresh
    <3>1. PICK d : d = << >>
      OBVIOUS
    <3>2. d \in Seq(Nat) /\ Len(d) <= accepted /\ \A i \in 1 .. Len(d) : d[i] = i
      <4>1. << >> \in Seq(Nat) /\ Len(<< >>) = 0
        OBVIOUS
      <4>2. d \in Seq(Nat) /\ Len(d) = 0
        BY <3>1, <4>1
      <4> QED
        BY <2>3, <4>2
    <3>3. IsPrefix(d, c)
      BY <2>3, <2>5, <3>2
    <3> QED
      BY <2>4, <2>6, <3>1, <3>3 DEF Fresh
  <2>7. CASE Broken
    BY <2>7 DEF Broken
  <2>8. ASSUME NEW B, NEW upTo, LaidOut(B, upTo), Cursor(B, upTo, k)
        PROVE  /\ answer # "end"
               /\ failures = 0 /\ ~failed => IsPrefix(delivered, c)
    <3>1. ~eof
      BY <2>1, <2>8, EndHasAll
    <3>2. answer # "end"
      BY <2>8, <3>1 DEF Cursor
    <3>3. ASSUME failures = 0 PROVE IsPrefix(delivered, c)
      <4>1. lost = {}
        BY <2>1, <3>3 DEF NothingLostSilently
      <4>2. /\ Len(file) \in Nat /\ Len(file) \in B /\ pos \in B
            /\ \A b \in B : upTo[b] \in Seq(Nat)
        BY <2>1, <2>8, LaidTypes DEF Cursor
      <4>3. PICK t \in Seq(Nat), u \in Seq(Nat) : t = upTo[pos] /\ u = upTo[Len(file)]
        BY <4>2
      <4>4. Len(u) = Dispatched /\ \A i \in 1 .. Dispatched : u[i] = i
        <5>1. Selected(u, Dispatched, {})
          BY <2>8, <4>1, <4>3 DEF LaidOut
        <5> QED
          BY <2>3, <5>1, SelectedAll
      <4>5. Len(t) <= Len(u) /\ \A i \in 1 .. Len(t) : u[i] = t[i]
        BY <2>8, <4>2, <4>3 DEF LaidOut, Laid, Begins
      <4>6. Hands(t)
        BY <2>8, <4>3 DEF Cursor
      <4>7. PICK d \in Seq(Nat) : d = delivered
        BY <4>6 DEF Hands
      <4>8. Len(d) <= Len(t) /\ \A i \in 1 .. Len(d) : t[i] = d[i]
        <5>1. /\ Len(t) = Len(d) + (outputBufferLen - outputBufferPos)
              /\ outputBufferLen \in Nat /\ outputBufferPos \in Nat
              /\ outputBufferPos <= outputBufferLen
              /\ \A i \in 1 .. Len(d) : t[i] = d[i]
          BY <4>6, <4>7 DEF Hands
        <5> QED
          BY <5>1
      <4>9. Len(d) <= accepted /\ \A i \in 1 .. Len(d) : d[i] = i
        BY <2>3, <4>4, <4>5, <4>8
      <4> QED
        BY <2>5, <4>7, <4>9
    <3> QED
      BY <3>2, <3>3
  <2> QED
    BY <2>2, <2>4, <2>6, <2>7, <2>8
<1> QED
  BY <1>1, TripHolds, PTL

=============================================================================
