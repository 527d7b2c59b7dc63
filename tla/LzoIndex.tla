------------------------------ MODULE LzoIndex ------------------------------
(***************************************************************************)
(* com.hadoop.compression.lzo.LzoIndex: where the blocks of an lzop file   *)
(* begin, and how the slices a job cuts the file into are nudged to those  *)
(* positions.  An index is the array blockPositions_, as a sequence.       *)
(***************************************************************************)
EXTENDS Integers, Sequences

NOT_FOUND == -1

IsIndex(index) ==
    /\ index \in Seq(Nat)
    /\ \A i, j \in 1 .. Len(index) : i < j => index[i] < index[j]

(* Where pos would have to be inserted: so many positions are before it. *)
IsInsertionPoint(index, pos, k) ==
    /\ k \in 0 .. Len(index)
    /\ \A i \in 1 .. k : index[i] < pos
    /\ \A i \in k + 1 .. Len(index) : index[i] >= pos

InsertionPoint(index, pos) == CHOOSE k \in 0 .. Len(index) : IsInsertionPoint(index, pos, k)

(* Arrays.binarySearch, which counts from 0. *)
BinarySearch(index, pos) ==
    LET k == InsertionPoint(index, pos) IN
    IF k < Len(index) /\ index[k + 1] = pos THEN k ELSE -k - 1

(* Bug: the block after the one searched for. *)
FindAfterNext(index, pos) ==
    LET block == BinarySearch(index, pos)
        next == IF block < 0 THEN -block ELSE block
    IN  IF next > Len(index) - 1 THEN NOT_FOUND ELSE index[next + 1]

findNextPosition(index, pos) ==
    LET block == BinarySearch(index, pos)
        next == IF block < 0 THEN -block - 1 ELSE block
    IN  IF next > Len(index) - 1 THEN NOT_FOUND ELSE index[next + 1]

isEmpty(index) == index = << >>

(* Bug: a slice that begins past its last block takes the next slice's. *)
AlignStartAnywhere(index, start, end) ==
    IF start = 0 THEN start ELSE findNextPosition(index, start)

alignSliceStartToIndex(index, start, end) ==
    LET newStart == findNextPosition(index, start) IN
    IF start = 0 THEN start
    ELSE IF newStart = NOT_FOUND \/ newStart >= end THEN NOT_FOUND
    ELSE newStart

alignSliceEndToIndex(index, end, fileSize) ==
    LET newEnd == findNextPosition(index, end) IN
    IF newEnd # NOT_FOUND THEN newEnd ELSE fileSize

-----------------------------------------------------------------------------
(* The blocks that begin in a slice. *)
BlocksIn(index, start, end) ==
    {index[i] : i \in {k \in 1 .. Len(index) : start <= index[k] /\ index[k] < end}}

(* Aligned to the index, a slice holds the blocks that begin in it, all of *)
(* them and no others; when there are none it is dropped, or begins the    *)
(* file.                                                                   *)
KeepsBlocks(index, start, end, fileSize) ==
    LET newStart == alignSliceStartToIndex(index, start, end)
        newEnd == alignSliceEndToIndex(index, end, fileSize)
    IN  IF newStart = NOT_FOUND THEN BlocksIn(index, start, end) = {}
        ELSE BlocksIn(index, newStart, newEnd) = BlocksIn(index, start, end)

=============================================================================
