-------------------------- MODULE LzoTextJob_proofs --------------------------
(***************************************************************************)
(* Proofs about LzoIndex and LzoTextJob, for every file, index and cut.    *)
(*                                                                         *)
(* The binary search finds the next block, and nudging the slices of a     *)
(* file to its blocks leaves each block to the slice in which it begins.   *)
(* Whatever part of the index a job finds, it lists positions in           *)
(* increasing order and inside the file; that is all the alignment of the  *)
(* splits needs: the splits that are left tile the file.                   *)
(*                                                                         *)
(* So each line has at most one owner: the first split that ends after the *)
(* line begins, where a split that ends with a block has the line that     *)
(* begins the next one.  A task knows its position only to the block; that *)
(* is enough to tell whether the next line is its own, unless it had to    *)
(* look into the next block to see the line before it end.  The lines      *)
(* without an owner are those of BehindReturn.                             *)
(***************************************************************************)
EXTENDS LzoTextJob, LzoFrames_proofs

-----------------------------------------------------------------------------
(* What Arrays.binarySearch answers is defined: there is a place at which  *)
(* pos could be inserted.                                                  *)
LEMMA InsertionPointIs ==
    ASSUME NEW positions, IsIndex(positions), NEW pos \in Nat
    PROVE  IsInsertionPoint(positions, pos, InsertionPoint(positions, pos))
<1> DEFINE n == Len(positions)
           T == {i \in 1 .. n + 1 : i = n + 1 \/ positions[i] >= pos}
<1>1. n \in Nat /\ \A i \in 1 .. n : positions[i] \in Nat
  BY DEF IsIndex
<1>2. PICK x \in T : \A y \in T : x <= y
  <2>1. T \subseteq Nat /\ n + 1 \in T
    BY <1>1
  <2> HIDE DEF T
  <2> QED
    BY <2>1, Least
<1>3. ASSUME NEW i \in 1 .. x - 1 PROVE positions[i] < pos
  <2>1. i \in 1 .. n /\ i \notin T
    BY <1>1, <1>2
  <2> QED
    BY <1>1, <2>1
<1>4. ASSUME NEW i \in x .. n PROVE positions[i] >= pos
  <2>1. x \in 1 .. n /\ positions[x] >= pos /\ i \in 1 .. n
    BY <1>1, <1>2
  <2>2. CASE i = x
    BY <2>1, <2>2
  <2>3. CASE x < i
    <3>1. positions[x] < positions[i]
      BY <2>1, <2>3 DEF IsIndex
    <3> QED
      BY <1>1, <2>1, <3>1
  <2> QED
    BY <1>1, <2>1, <2>2, <2>3
<1>5. x - 1 \in 0 .. n /\ (x - 1) + 1 = x
  BY <1>1, <1>2
<1>6. IsInsertionPoint(positions, pos, x - 1)
  BY <1>3, <1>4, <1>5 DEF IsInsertionPoint
<1> QED
  BY <1>5, <1>6 DEF InsertionPoint

(* findNextPosition returns a block that begins at pos or later, and none  *)
(* begins between, or NOT_FOUND when none begins there.                    *)
THEOREM FindsNext ==
    ASSUME NEW positions, IsIndex(positions), NEW pos \in Nat
    PROVE  LET next == findNextPosition(positions, pos) IN
           \/ /\ next = NOT_FOUND
              /\ \A i \in 1 .. Len(positions) : positions[i] < pos
           \/ /\ next \in Nat
              /\ next >= pos
              /\ \E i \in 1 .. Len(positions) : positions[i] = next
              /\ \A i \in 1 .. Len(positions) : positions[i] >= pos => next <= positions[i]
<1> DEFINE n == Len(positions)
           k == InsertionPoint(positions, pos)
           next == findNextPosition(positions, pos)
           Nothing == next = NOT_FOUND /\ \A i \in 1 .. n : positions[i] < pos
           Found ==
              /\ next \in Nat
              /\ next >= pos
              /\ \E i \in 1 .. n : positions[i] = next
              /\ \A i \in 1 .. n : positions[i] >= pos => next <= positions[i]
<1>1. n \in Nat /\ \A i \in 1 .. n : positions[i] \in Nat
  BY DEF IsIndex
<1>2. /\ k \in 0 .. n
      /\ \A i \in 1 .. k : positions[i] < pos
      /\ \A i \in k + 1 .. n : positions[i] >= pos
  BY InsertionPointIs DEF IsInsertionPoint
<1>3. next = IF k > n - 1 THEN NOT_FOUND ELSE positions[k + 1]
  <2>1. BinarySearch(positions, pos) = IF k < n /\ positions[k + 1] = pos THEN k ELSE -k - 1
    BY DEF BinarySearch
  <2>2. k \in Nat
    BY <1>1, <1>2
  <2> HIDE DEF k
  <2> QED
    BY <2>1, <2>2, <1>1 DEF findNextPosition
<1> HIDE DEF k, next
<1>4. ASSUME k = n PROVE Nothing
  BY <1>1, <1>2, <1>3, <1>4
<1>5. ASSUME k < n PROVE Found
  <2>1. next = positions[k + 1] /\ k + 1 \in 1 .. n /\ next >= pos
    BY <1>1, <1>2, <1>3, <1>5
  <2>2. ASSUME NEW i \in 1 .. n, positions[i] >= pos PROVE next <= positions[i]
    <3>1. k + 1 <= i
      BY <1>1, <1>2, <2>2
    <3>2. CASE i = k + 1
      BY <1>1, <2>1, <3>2
    <3>3. CASE k + 1 < i
      BY <1>1, <2>1, <3>3 DEF IsIndex
    <3> QED
      BY <3>1, <3>2, <3>3, <1>1, <1>2
  <2> QED
    BY <1>1, <2>1, <2>2
<1>6. Nothing \/ Found
  BY <1>1, <1>2, <1>4, <1>5
<1> QED
  BY <1>6 DEF next

(* A slice that is nudged to the blocks of any index keeps the blocks that *)
(* begin in it: none goes to two tasks and none to no task.                *)
THEOREM SliceKeepsBlocks ==
    ASSUME NEW positions, IsIndex(positions),
           NEW start \in Nat, NEW end \in Nat, NEW fileSize \in Nat,
           \A i \in 1 .. Len(positions) : positions[i] < fileSize
    PROVE  KeepsBlocks(positions, start, end, fileSize)
<1> DEFINE newStart == alignSliceStartToIndex(positions, start, end)
           newEnd == alignSliceEndToIndex(positions, end, fileSize)
           Own(i) == start <= positions[i] /\ positions[i] < end
           Got(i) == newStart <= positions[i] /\ positions[i] < newEnd
<1>1. \A i \in 1 .. Len(positions) : positions[i] \in Nat
  BY DEF IsIndex
<1>2. NOT_FOUND = -1
  BY DEF NOT_FOUND
<1>3. \A i \in 1 .. Len(positions) : positions[i] < newEnd <=> positions[i] < end
  <2> DEFINE next == findNextPosition(positions, end)
  <2>1. newEnd = IF next # NOT_FOUND THEN next ELSE fileSize
    BY DEF alignSliceEndToIndex
  <2>2. CASE next = NOT_FOUND /\ \A i \in 1 .. Len(positions) : positions[i] < end
    BY <2>1, <2>2
  <2>3. CASE /\ next \in Nat /\ next >= end
             /\ \A i \in 1 .. Len(positions) : positions[i] >= end => next <= positions[i]
    BY <2>1, <2>3, <1>1, <1>2
  <2> QED
    BY <2>2, <2>3, FindsNext
<1>4. CASE start = 0
  <2>1. newStart = 0
    BY <1>4 DEF alignSliceStartToIndex
  <2>2. \A i \in 1 .. Len(positions) : Got(i) <=> Own(i)
    BY <1>1, <1>3, <1>4, <2>1
  <2> HIDE DEF newStart, newEnd
  <2> QED
    BY <2>1, <2>2, <1>2 DEF KeepsBlocks, BlocksIn, newStart, newEnd
<1>5. CASE start # 0
  <2> DEFINE next == findNextPosition(positions, start)
  <2>1. newStart = IF next = NOT_FOUND \/ next >= end THEN NOT_FOUND ELSE next
    BY <1>5 DEF alignSliceStartToIndex
  <2>2. \/ next = NOT_FOUND /\ \A i \in 1 .. Len(positions) : positions[i] < start
        \/ /\ next \in Nat /\ next >= start
           /\ \A i \in 1 .. Len(positions) : positions[i] >= start => next <= positions[i]
    BY FindsNext
  <2>3. CASE newStart = NOT_FOUND
    <3>1. \A i \in 1 .. Len(positions) : ~Own(i)
      BY <2>1, <2>2, <2>3, <1>1, <1>2
    <3>2. BlocksIn(positions, start, end) = {}
      BY <3>1 DEF BlocksIn
    <3> QED
      BY <3>2, <2>3 DEF KeepsBlocks
  <2>4. CASE newStart # NOT_FOUND
    <3>1. \A i \in 1 .. Len(positions) : Got(i) <=> Own(i)
      BY <2>1, <2>2, <2>4, <1>1, <1>2, <1>3
    <3>2. BlocksIn(positions, newStart, newEnd) = BlocksIn(positions, start, end)
      BY <3>1 DEF BlocksIn
    <3> QED
      BY <3>2, <2>4 DEF KeepsBlocks
  <2> QED
    BY <2>3, <2>4
<1> QED
  BY <1>4, <1>5

-----------------------------------------------------------------------------
(* The index lists positions of the file. *)
IndexFits ==
    /\ DOMAIN lens = 1 .. Len(lens)
    /\ Len(lens) \in Nat
    /\ IsIndex(index)
    /\ \A i \in 1 .. Len(index) : index[i] < FileSize

-----------------------------------------------------------------------------
LEMMA ProductGrows ==
    ASSUME NEW a \in Nat, NEW b \in Nat, NEW c \in Nat \ {0}, a < b
    PROVE  a * c < b * c /\ a * c \in Nat
<1>1. PICK d \in Nat : b = a + d /\ d >= 1
  <2>1. b - a \in Nat /\ b = a + (b - a) /\ b - a >= 1
    OBVIOUS
  <2> QED
    BY <2>1
<1>2. b * c = a * c + d * c
  BY <1>1
<1>3. d * c >= 1
  BY <1>1
<1>4. a * c \in Nat /\ d * c \in Nat
  BY <1>1
<1> QED
  BY <1>2, <1>3, <1>4

(* The blocks follow one another. *)
LEMMA BlocksFollow ==
    ASSUME NEW i \in Nat \ {0}, NEW j \in Nat \ {0}
    PROVE  /\ BlockStart(i) \in Nat
           /\ i < j => BlockStart(i) < BlockStart(j)
<1>1. /\ HeaderLen \in Nat
      /\ BlockLen \in Nat \ {0}
      /\ i - 1 \in Nat
      /\ j - 1 \in Nat
  BY JobAssumption
<1>2. (i - 1) * BlockLen \in Nat
  BY <1>1
<1>3. i < j => (i - 1) * BlockLen < (j - 1) * BlockLen
  <2> SUFFICES ASSUME i < j PROVE (i - 1) * BlockLen < (j - 1) * BlockLen
    OBVIOUS
  <2>1. i - 1 < j - 1
    OBVIOUS
  <2> QED
    BY <1>1, <2>1, ProductGrows
<1>4. (j - 1) * BlockLen \in Nat
  BY <1>1
<1> QED
  BY <1>1, <1>2, <1>3, <1>4 DEF BlockStart

LEMMA InitFits == Init => IndexFits
<1> SUFFICES ASSUME Init PROVE IndexFits
  OBVIOUS
<1>1. PICK m \in 0 .. MaxBlocks : lens \in [1 .. m -> TextLens]
  BY DEF Init, SeqOf
<1>2. Len(lens) = m /\ DOMAIN lens = 1 .. m /\ m \in Nat
  BY <1>1, JobAssumption
<1>3. index = << >> /\ Len(<< >>) = 0 /\ << >> \in Seq(Nat)
  BY DEF Init
<1> QED
  BY <1>2, <1>3 DEF IndexFits, IsIndex

LEMMA SplitFits == ASSUME IndexFits, Split PROVE IndexFits'
<1>1. lens' = lens /\ FileSize' = FileSize
  BY DEF Split, FileSize, BlockStart
<1>2. PICK k \in 0 .. Len(lens) : index' = SubSeq(Starts, 1, k)
  BY DEF Split
<1>3. k \in Nat /\ k <= Len(lens)
  BY <1>2 DEF IndexFits
<1>4. index' = [i \in 1 .. k |-> BlockStart(i)]
  <2>1. Starts = [i \in 1 .. Len(lens) |-> BlockStart(i)]
    BY DEF Starts, IndexFits
  <2>2. Starts \in Seq(Nat)
    BY <2>1, BlocksFollow DEF IndexFits
  <2> QED
    BY <1>2, <1>3, <2>1, <2>2
<1>5. Len(index') = k /\ index' \in Seq(Nat)
  BY <1>3, <1>4, BlocksFollow
<1>6. \A i, j \in 1 .. k : i < j => index'[i] < index'[j]
  BY <1>3, <1>4, BlocksFollow
<1>7. \A i \in 1 .. k : index'[i] < FileSize
  <2> SUFFICES ASSUME NEW i \in 1 .. k PROVE index'[i] < FileSize
    OBVIOUS
  <2>1. i \in Nat \ {0} /\ Len(lens) + 1 \in Nat \ {0} /\ i < Len(lens) + 1
    BY <1>3 DEF IndexFits
  <2>2. /\ BlockStart(i) \in Nat
        /\ BlockStart(Len(lens) + 1) \in Nat
        /\ BlockStart(i) < BlockStart(Len(lens) + 1)
    BY <2>1, BlocksFollow
  <2> QED
    BY <1>4, <2>2 DEF FileSize
<1> QED
  BY <1>1, <1>5, <1>6, <1>7 DEF IndexFits, IsIndex

LEMMA NextFits == IndexFits /\ [Next]_vars => IndexFits'
<1> SUFFICES ASSUME IndexFits, [Next]_vars PROVE IndexFits'
  OBVIOUS
<1>1. CASE Split
  BY <1>1, SplitFits
<1>2. CASE UNCHANGED <<lens, index>>
  BY <1>2 DEF IndexFits, FileSize, BlockStart
<1> QED
  BY <1>1, <1>2 DEF Next, Step, NextLine, EndOfSplit, vars

-----------------------------------------------------------------------------
(* In a job on any file, with whatever part of its index, the alignment    *)
(* gives each task the blocks that begin in its slice and no others.       *)
THEOREM TasksKeepBlocks == Spec => []SlicesKeepBlocks
<1>1. IndexFits => SlicesKeepBlocks
  <2> SUFFICES ASSUME IndexFits, NEW end \in 0 .. FileSize, NEW start \in 0 .. end
               PROVE  KeepsBlocks(index, start, end, FileSize)
    BY DEF SlicesKeepBlocks
  <2>1. FileSize \in Nat
    <3>1. Len(lens) + 1 \in Nat \ {0}
      BY DEF IndexFits
    <3> QED
      BY <3>1, BlocksFollow DEF FileSize
  <2>2. start \in Nat /\ end \in Nat
    BY <2>1
  <2> QED
    BY <2>1, <2>2, SliceKeepsBlocks DEF IndexFits
<1> QED
  BY <1>1, InitFits, NextFits, PTL DEF Spec

-----------------------------------------------------------------------------
IndexesFile(positions, fileSize) ==
    /\ IsIndex(positions)
    /\ fileSize \in Nat
    /\ \A i \in 1 .. Len(positions) : positions[i] < fileSize

IsSlice(a, b, fileSize) == a \in Nat /\ b \in Nat /\ a < b /\ b <= fileSize

(* The slice from a to b becomes what begins where the one before it ends. *)
Follows(positions, fileSize, a, b) ==
    LET start == alignSliceStartToIndex(positions, a, b)
        end == alignSliceEndToIndex(positions, b, fileSize)
        before == alignSliceEndToIndex(positions, a, fileSize)
    IN  /\ end \in Nat /\ b <= end
        /\ b = fileSize => end = fileSize
        /\ a = 0 => start = 0
        /\ a # 0 /\ start = NOT_FOUND => end = before
        /\ a # 0 /\ start # NOT_FOUND =>
                /\ start = before /\ start \in Nat /\ start < end
                /\ \E i \in 1 .. Len(positions) : positions[i] = start

LEMMA SliceFollows ==
    ASSUME NEW positions, NEW fileSize, IndexesFile(positions, fileSize),
           NEW a, NEW b, IsSlice(a, b, fileSize)
    PROVE  Follows(positions, fileSize, a, b)
<1>1. PICK start, end, before :
            /\ start = alignSliceStartToIndex(positions, a, b)
            /\ end = alignSliceEndToIndex(positions, b, fileSize)
            /\ before = alignSliceEndToIndex(positions, a, fileSize)
  OBVIOUS
<1>2. /\ IsIndex(positions) /\ fileSize \in Nat
      /\ \A i \in 1 .. Len(positions) : positions[i] < fileSize
      /\ a \in Nat /\ b \in Nat /\ a < b /\ b <= fileSize
  BY DEF IndexesFile, IsSlice
<1>3. /\ Len(positions) \in Nat /\ NOT_FOUND = -1
      /\ \A i \in 1 .. Len(positions) : positions[i] \in Nat
  BY <1>2 DEF IsIndex, NOT_FOUND
<1>4. PICK m, n : m = findNextPosition(positions, a) /\ n = findNextPosition(positions, b)
  OBVIOUS
<1>5. \/ m = NOT_FOUND /\ \A i \in 1 .. Len(positions) : positions[i] < a
      \/ /\ m \in Nat /\ m >= a /\ \E i \in 1 .. Len(positions) : positions[i] = m
         /\ \A i \in 1 .. Len(positions) : positions[i] >= a => m <= positions[i]
  BY <1>2, <1>4, FindsNext
<1>6. \/ n = NOT_FOUND /\ \A i \in 1 .. Len(positions) : positions[i] < b
      \/ /\ n \in Nat /\ n >= b /\ \E i \in 1 .. Len(positions) : positions[i] = n
         /\ \A i \in 1 .. Len(positions) : positions[i] >= b => n <= positions[i]
  BY <1>2, <1>4, FindsNext
<1>7. /\ start = IF a = 0 THEN 0 ELSE IF m = NOT_FOUND \/ m >= b THEN NOT_FOUND ELSE m
      /\ end = IF n # NOT_FOUND THEN n ELSE fileSize
      /\ before = IF m # NOT_FOUND THEN m ELSE fileSize
  BY <1>1, <1>4 DEF alignSliceStartToIndex, alignSliceEndToIndex
<1>8. end \in Nat /\ b <= end /\ (b = fileSize => end = fileSize)
  BY <1>2, <1>3, <1>6, <1>7
<1>9. ASSUME a # 0, start = NOT_FOUND PROVE end = before
  <2>1. CASE m = NOT_FOUND
    <3>1. \A i \in 1 .. Len(positions) : positions[i] \in Nat /\ positions[i] < a
      BY <1>3, <1>5, <2>1
    <3>2. n = NOT_FOUND
      BY <1>2, <1>6, <3>1
    <3> QED
      BY <1>7, <2>1, <3>2
  <2>2. CASE m # NOT_FOUND
    <3>1. m \in Nat /\ m >= b
      BY <1>2, <1>3, <1>5, <1>7, <1>9, <2>2
    <3>2. n \in Nat /\ n = m
      BY <1>2, <1>3, <1>5, <1>6, <2>2, <3>1
    <3> QED
      BY <1>3, <1>7, <3>1, <3>2
  <2> QED
    BY <2>1, <2>2
<1>10. ASSUME a # 0, start # NOT_FOUND
       PROVE  /\ start = before /\ start \in Nat /\ start < end
              /\ \E i \in 1 .. Len(positions) : positions[i] = start
  <2>1. m # NOT_FOUND /\ ~(m >= b) /\ start = m /\ before = m
    BY <1>7, <1>10
  <2>2. m \in Nat /\ \E i \in 1 .. Len(positions) : positions[i] = m
    BY <1>5, <2>1
  <2>3. m < end
    BY <1>2, <1>8, <2>1, <2>2
  <2> QED
    BY <2>1, <2>2, <2>3
<1>11. a = 0 => start = 0
  BY <1>7
<1> QED
  BY <1>1, <1>8, <1>9, <1>10, <1>11 DEF Follows

-----------------------------------------------------------------------------
(* The loop of getSplits *)

(* What has been kept of the first n slices, slice by slice. *)
Kept(slices, in, n, f) ==
    f = [i \in 0 .. n |->
            IF i = 0 THEN << >>
            ELSE LET slice == Align(slices[i], in) IN
                 IF slice.start # NOT_FOUND /\ slice.end # NOT_FOUND
                 THEN Append(f[i - 1], slice)
                 ELSE f[i - 1]]

LEMMA KeptExists ==
    ASSUME NEW slices, NEW in, NEW n \in Nat
    PROVE  \E f : Kept(slices, in, n, f)
<1> DEFINE Bad == {m \in Nat : ~ \E f : Kept(slices, in, m, f)}
           next(prior, i) ==
                LET slice == Align(slices[i], in) IN
                IF slice.start # NOT_FOUND /\ slice.end # NOT_FOUND THEN Append(prior, slice)
                ELSE prior
<1>1. SUFFICES ASSUME Bad # {} PROVE FALSE
  OBVIOUS
<1>2. PICK m \in Bad : \A k \in Bad : m <= k
  <2>1. Bad \subseteq Nat
    OBVIOUS
  <2> HIDE DEF Bad
  <2> QED
    BY <1>1, <2>1, Least
<1>3. m \in Nat /\ ~ \E f : Kept(slices, in, m, f)
  OBVIOUS
<1>4. \A k, f : Kept(slices, in, k, f) <=>
                f = [i \in 0 .. k |-> IF i = 0 THEN << >> ELSE next(f[i - 1], i)]
  BY DEF Kept
<1> HIDE DEF next
<1>5. m # 0
  <2>1. PICK none : none = [i \in 0 .. 0 |-> << >>]
    OBVIOUS
  <2>2. none = [i \in 0 .. 0 |-> IF i = 0 THEN << >> ELSE next(none[i - 1], i)]
    BY <2>1
  <2>3. Kept(slices, in, 0, none)
    BY <1>4, <2>2
  <2> QED
    BY <1>3, <2>3
<1>6. m - 1 \in Nat /\ m - 1 \notin Bad
  BY <1>2, <1>3, <1>5
<1>7. PICK f : Kept(slices, in, m - 1, f)
  BY <1>6
<1>8. PICK g : g = [i \in 0 .. m |-> IF i = m THEN next(f[m - 1], m) ELSE f[i]]
  OBVIOUS
<1>9. \A i \in 0 .. m : g[i] = IF i = 0 THEN << >> ELSE next(g[i - 1], i)
  <2>1. \A i \in 0 .. m - 1 : f[i] = IF i = 0 THEN << >> ELSE next(f[i - 1], i)
    BY <1>4, <1>7
  <2>2. TAKE i \in 0 .. m
  <2>3. CASE i = m
    BY <1>3, <1>5, <1>8, <2>3
  <2>4. CASE i # m
    <3>1. i \in 0 .. m - 1 /\ (i # 0 => i - 1 \in 0 .. m /\ i - 1 # m)
      BY <1>3, <2>4
    <3> QED
      BY <1>8, <2>1, <2>4, <3>1
  <2> QED
    BY <2>3, <2>4
<1>10. g = [i \in 0 .. m |-> IF i = 0 THEN << >> ELSE next(g[i - 1], i)]
  <2>1. g = [i \in 0 .. m |-> g[i]]
    BY <1>8
  <2> QED
    BY <1>9, <2>1
<1>11. Kept(slices, in, m, g)
  BY <1>4, <1>10
<1> QED
  BY <1>3, <1>11

LEMMA AlignedOf ==
    ASSUME NEW slices, NEW in, Len(slices) \in Nat, ~isEmpty(in)
    PROVE  \E f : Kept(slices, in, Len(slices), f) /\ Aligned(slices, in) = f[Len(slices)]
<1>1. PICK kept : kept = CHOOSE f : Kept(slices, in, Len(slices), f)
  OBVIOUS
<1>2. Kept(slices, in, Len(slices), kept)
  BY <1>1, KeptExists
<1>3. Aligned(slices, in) = kept[Len(slices)]
  BY <1>1 DEF Aligned, Kept
<1> QED
  BY <1>2, <1>3

-----------------------------------------------------------------------------
(* The splits tile the file *)

Slice == [start : Nat, end : Nat]

(* Slices from 0 to `end` of which all but the first begin in one of these *)
(* places.                                                                 *)
TileTo(slices, end, places) ==
    /\ slices \in Seq(Slice)
    /\ Len(slices) # 0
    /\ slices[1].start = 0
    /\ slices[Len(slices)].end = end
    /\ \A i \in 1 .. Len(slices) : slices[i].start < slices[i].end
    /\ \A i \in 1 .. Len(slices) - 1 :
            slices[i].end = slices[i + 1].start /\ slices[i].end \in places

LEMMA OneMoreTile ==
    ASSUME NEW places, NEW end, NEW t, TileTo(t, end, places),
           NEW slice \in Slice, slice.start = end, slice.start < slice.end, end \in places
    PROVE  TileTo(Append(t, slice), slice.end, places)
<1>1. PICK u, n : u = Append(t, slice) /\ n = Len(t)
  OBVIOUS
<1>2. /\ t \in Seq(Slice) /\ n \in Nat \ {0} /\ t[1].start = 0 /\ t[n].end = end
      /\ \A i \in 1 .. n : t[i].start < t[i].end
      /\ \A i \in 1 .. n - 1 : t[i].end = t[i + 1].start /\ t[i].end \in places
  BY <1>1 DEF TileTo
<1>3. /\ u \in Seq(Slice) /\ Len(u) = n + 1 /\ u[n + 1] = slice
      /\ \A i \in 1 .. n : u[i] = t[i]
  BY <1>1, <1>2
<1>4. \A i \in 1 .. n + 1 : u[i].start < u[i].end
  <2>1. \A i \in 1 .. n + 1 : i \in 1 .. n \/ i = n + 1
    BY <1>2
  <2> QED
    BY <1>2, <1>3, <2>1
<1>5. \A i \in 1 .. n : u[i].end = u[i + 1].start /\ u[i].end \in places
  <2>1. TAKE i \in 1 .. n
  <2>2. CASE i = n
    BY <1>2, <1>3, <2>2
  <2>3. CASE i # n
    <3>1. i \in 1 .. n - 1 /\ i + 1 \in 1 .. n
      BY <1>2, <2>3
    <3> QED
      BY <1>2, <1>3, <3>1
  <2> QED
    BY <2>2, <2>3
<1>6. 1 \in 1 .. n /\ n + 1 - 1 = n
  BY <1>2
<1>7. TileTo(u, slice.end, places)
  BY <1>2, <1>3, <1>4, <1>5, <1>6 DEF TileTo
<1> QED
  BY <1>1, <1>7

(* Where the job's cuts are: in increasing order, inside the file. *)
IsCuts(cuts) ==
    /\ cuts \in Seq(1 .. FileSize - 1)
    /\ \A i, j \in 1 .. Len(cuts) : i < j => cuts[i] < cuts[j]

LEMMA SlicesFollow ==
    ASSUME NEW cuts, IsCuts(cuts), FileSize \in Nat \ {0}, NEW s, s = FileSplits(cuts)
    PROVE  \E n \in Nat \ {0} :
                /\ Len(s) = n /\ s \in Seq(Slice)
                /\ s[1].start = 0 /\ s[n].end = FileSize
                /\ \A i \in 1 .. n : s[i].start < s[i].end /\ s[i].end <= FileSize
                /\ \A i \in 1 .. n - 1 : s[i].end = s[i + 1].start
<1>1. PICK m, size : m = Len(cuts) /\ size = FileSize
  OBVIOUS
<1>2. /\ m \in Nat /\ size \in Nat \ {0} /\ cuts \in Seq(Nat)
      /\ \A i \in 1 .. m : cuts[i] \in 1 .. size - 1
      /\ \A i, j \in 1 .. m : i < j => cuts[i] < cuts[j]
  <2>1. /\ m \in Nat /\ size \in Nat \ {0} /\ \A i \in 1 .. m : cuts[i] \in 1 .. size - 1
        /\ \A i, j \in 1 .. m : i < j => cuts[i] < cuts[j]
    BY <1>1 DEF IsCuts
  <2>2. cuts = [i \in 1 .. m |-> cuts[i]]
    BY <1>1 DEF IsCuts
  <2>3. cuts \in Seq(Nat)
    BY <2>1, <2>2
  <2> QED
    BY <2>1, <2>3
<1>3. PICK at : at = (<<0>> \o cuts) \o <<size>>
  OBVIOUS
<1>4. /\ at[1] = 0 /\ at[m + 2] = size
      /\ \A i \in 2 .. m + 1 : at[i] = cuts[i - 1]
  BY <1>1, <1>2, <1>3
<1>5. s = [i \in 1 .. m + 1 |-> [start |-> at[i], end |-> at[i + 1]]]
  BY <1>1, <1>3 DEF FileSplits
<1>6. \A i \in 1 .. m + 2 : at[i] \in 0 .. size
  <2>1. TAKE i \in 1 .. m + 2
  <2>2. i = 1 \/ i = m + 2 \/ (i \in 2 .. m + 1 /\ i - 1 \in 1 .. m)
    BY <1>2
  <2> QED
    BY <1>2, <1>4, <2>2
<1>7. \A i \in 1 .. m + 1 : at[i] < at[i + 1]
  <2>1. TAKE i \in 1 .. m + 1
  <2>2. CASE i = 1
    <3>1. CASE m = 0
      <4>1. i + 1 = m + 2
        BY <2>2, <3>1
      <4> QED
        BY <1>2, <1>4, <2>2, <4>1
    <3>2. CASE m # 0
      <4>1. 2 \in 2 .. m + 1 /\ 1 \in 1 .. m /\ 2 - 1 = 1
        BY <1>2, <3>2
      <4>2. at[2] = cuts[1] /\ cuts[1] > 0
        BY <1>2, <1>4, <4>1
      <4> QED
        BY <1>4, <2>2, <4>2
    <3> QED
      BY <3>1, <3>2
  <2>3. CASE i # 1
    <3>1. i \in 2 .. m + 1 /\ i - 1 \in 1 .. m
      BY <1>2, <2>3
    <3>2. CASE i = m + 1
      <4>1. i + 1 = m + 2 /\ cuts[i - 1] \in 1 .. size - 1
        BY <1>2, <3>1, <3>2
      <4>2. at[i + 1] = size /\ at[i] = cuts[i - 1]
        BY <1>4, <3>1, <4>1
      <4> QED
        BY <1>2, <4>1, <4>2
    <3>3. CASE i # m + 1
      <4>1. i + 1 \in 2 .. m + 1 /\ i \in 1 .. m /\ i - 1 < i /\ (i + 1) - 1 = i
        BY <1>2, <3>1, <3>3
      <4> QED
        BY <1>2, <1>4, <3>1, <4>1
    <3> QED
      BY <3>2, <3>3
  <2> QED
    BY <2>2, <2>3
<1>8. \A i \in 1 .. m + 1 : s[i] \in Slice /\ s[i].start = at[i] /\ s[i].end = at[i + 1]
  BY <1>2, <1>5, <1>6 DEF Slice
<1>9. s \in Seq(Slice) /\ Len(s) = m + 1
  BY <1>2, <1>5, <1>8
<1>10. m + 1 \in Nat \ {0}
  BY <1>2
<1>11. s[1].start = 0 /\ s[m + 1].end = size
  <2>1. 1 \in 1 .. m + 1 /\ m + 1 \in 1 .. m + 1 /\ (m + 1) + 1 = m + 2
    BY <1>2
  <2> QED
    BY <1>4, <1>8, <2>1
<1>12. \A i \in 1 .. m + 1 : s[i].start < s[i].end /\ s[i].end <= size
  <2>1. TAKE i \in 1 .. m + 1
  <2>2. i + 1 \in 1 .. m + 2
    BY <1>2
  <2>3. at[i + 1] <= size
    BY <1>2, <1>6, <2>2
  <2> QED
    BY <1>7, <1>8, <2>3
<1>13. \A i \in 1 .. m + 1 - 1 : s[i].end = s[i + 1].start
  BY <1>2, <1>8
<1> QED
  BY <1>1, <1>9, <1>10, <1>11, <1>12, <1>13

Places(positions) == {positions[i] : i \in 1 .. Len(positions)}

(* Aligned to any index, the slices still tile the file. *)
LEMMA AlignedTile ==
    ASSUME NEW in, IsIndex(in), FileSize \in Nat \ {0},
           \A i \in 1 .. Len(in) : in[i] < FileSize,
           NEW cuts, IsCuts(cuts), isEmpty(in) => cuts = << >>
    PROVE  TileTo(Aligned(FileSplits(cuts), in), FileSize, Places(in))
<1>1. PICK s, size : s = FileSplits(cuts) /\ size = FileSize
  OBVIOUS
<1>2. PICK n \in Nat \ {0} :
            /\ Len(s) = n /\ s \in Seq(Slice) /\ s[1].start = 0 /\ s[n].end = size
            /\ \A i \in 1 .. n : s[i].start < s[i].end /\ s[i].end <= size
            /\ \A i \in 1 .. n - 1 : s[i].end = s[i + 1].start
  BY <1>1, SlicesFollow
<1>3. CASE isEmpty(in)
  <2>1. Aligned(s, in) = s
    BY <1>3 DEF Aligned
  <2>2. Len(cuts) = 0
    BY <1>3
  <2>3. s = [i \in 1 .. 0 + 1 |-> s[i]]
    BY <1>1, <2>2 DEF FileSplits
  <2>4. n = 1
    BY <1>2, <2>3
  <2>5. 1 \in 1 .. n /\ 1 .. 1 - 1 = {}
    BY <2>4
  <2>6. TileTo(s, size, Places(in))
    BY <1>2, <2>4, <2>5 DEF TileTo
  <2> QED
    BY <1>1, <2>1, <2>6
<1>4. CASE ~isEmpty(in)
  <2>1. PICK f : Kept(s, in, n, f) /\ Aligned(s, in) = f[n]
    BY <1>2, <1>4, AlignedOf
  <2> DEFINE End(k) == alignSliceEndToIndex(in, s[k].end, size)
             Start(k) == alignSliceStartToIndex(in, s[k].start, s[k].end)
             Bad == {k \in 1 .. n : ~TileTo(f[k], End(k), Places(in))}
  <2>2. /\ f[0] = << >>
        /\ \A k \in 1 .. n :
                f[k] = IF Start(k) # NOT_FOUND /\ End(k) # NOT_FOUND
                       THEN Append(f[k - 1], [start |-> Start(k), end |-> End(k)])
                       ELSE f[k - 1]
    <3>1. \A k \in 0 .. n :
            f[k] = IF k = 0 THEN << >>
                   ELSE LET slice == Align(s[k], in) IN
                        IF slice.start # NOT_FOUND /\ slice.end # NOT_FOUND
                        THEN Append(f[k - 1], slice)
                        ELSE f[k - 1]
      BY <2>1 DEF Kept
    <3>2. \A k \in 1 .. n : Align(s[k], in) = [start |-> Start(k), end |-> End(k)]
      BY <1>1 DEF Align
    <3>3. \A k \in 1 .. n : k \in 0 .. n /\ k # 0
      OBVIOUS
    <3> HIDE DEF Start, End
    <3> QED
      BY <3>1, <3>2, <3>3
  <2>3. \A k \in 1 .. n : /\ s[k].start \in Nat /\ s[k].end \in Nat
                          /\ s[k].start < s[k].end /\ s[k].end <= size
    <3>1. \A k \in 1 .. n : s[k] \in Slice
      BY <1>2
    <3> QED
      BY <1>2, <3>1 DEF Slice
  <2>4. ASSUME NEW k \in 1 .. n
        PROVE  /\ End(k) \in Nat /\ s[k].end <= End(k) /\ End(k) # NOT_FOUND
               /\ s[k].end = size => End(k) = size
               /\ s[k].start = 0 => Start(k) = 0
               /\ s[k].start # 0 /\ Start(k) = NOT_FOUND =>
                    End(k) = alignSliceEndToIndex(in, s[k].start, size)
               /\ s[k].start # 0 /\ Start(k) # NOT_FOUND =>
                    /\ Start(k) = alignSliceEndToIndex(in, s[k].start, size)
                    /\ Start(k) \in Nat /\ Start(k) < End(k)
                    /\ Start(k) \in Places(in)
    <3>1. PICK a, b, start, end, before :
            /\ a = s[k].start /\ b = s[k].end /\ start = Start(k) /\ end = End(k)
            /\ before = alignSliceEndToIndex(in, a, size)
      OBVIOUS
    <3>2. IndexesFile(in, size) /\ IsSlice(a, b, size)
      BY <1>1, <2>3, <3>1 DEF IndexesFile, IsSlice
    <3>3. /\ start = alignSliceStartToIndex(in, a, b)
          /\ end = alignSliceEndToIndex(in, b, size)
      BY <3>1
    <3> HIDE DEF Start, End
    <3>4. /\ end \in Nat /\ b <= end
          /\ b = size => end = size
          /\ a = 0 => start = 0
          /\ a # 0 /\ start = NOT_FOUND => end = before
          /\ a # 0 /\ start # NOT_FOUND =>
                /\ start = before /\ start \in Nat /\ start < end
                /\ \E i \in 1 .. Len(in) : in[i] = start
      BY <3>1, <3>2, <3>3, SliceFollows DEF Follows
    <3>5. end # NOT_FOUND
      BY <3>4 DEF NOT_FOUND
    <3> QED
      BY <3>1, <3>4, <3>5 DEF Places
  <2> HIDE DEF Start, End
  <2>5. TileTo(f[1], End(1), Places(in))
    <3>1. PICK e : e = End(1)
      OBVIOUS
    <3>2. Start(1) = 0 /\ e \in Nat /\ 0 < e /\ e # NOT_FOUND
      BY <1>2, <2>3, <2>4, <3>1
    <3>3. f[1] = Append(<< >>, [start |-> 0, end |-> e])
      <4>1. 1 \in 1 .. n /\ 1 - 1 = 0 /\ Start(1) # NOT_FOUND
        BY <3>2 DEF NOT_FOUND
      <4> QED
        BY <2>2, <3>1, <3>2, <4>1
    <3>4. PICK slice : slice = [start |-> 0, end |-> e]
      OBVIOUS
    <3>5. slice \in Slice /\ slice.start = 0 /\ slice.end = e
      BY <3>2, <3>4 DEF Slice
    <3>6. PICK t : t = f[1]
      OBVIOUS
    <3>7. t \in Seq(Slice) /\ Len(t) = 1 /\ t[1] = slice
      BY <3>3, <3>4, <3>5, <3>6
    <3>8. TileTo(t, e, Places(in))
      BY <3>2, <3>5, <3>7 DEF TileTo
    <3> QED
      BY <3>1, <3>6, <3>8
  <2>6. Bad = {}
    <3> SUFFICES ASSUME Bad # {} PROVE FALSE
      OBVIOUS
    <3>1. PICK k \in Bad : \A j \in Bad : k <= j
      <4>1. Bad \subseteq Nat
        OBVIOUS
      <4> HIDE DEF Bad
      <4> QED
        BY <4>1, Least
    <3>2. k \in 1 .. n /\ ~TileTo(f[k], End(k), Places(in)) /\ k # 1
      BY <2>5
    <3>3. PICK j \in 1 .. n : j = k - 1
      BY <3>2
    <3>4. TileTo(f[j], End(j), Places(in))
      BY <3>1, <3>2, <3>3
    <3>5. s[k].start = s[j].end /\ s[k].start # 0
      <4>1. j \in 1 .. n - 1 /\ j + 1 = k
        BY <3>2, <3>3
      <4>2. s[j].end = s[k].start
        BY <1>2, <4>1
      <4>3. s[j].start \in Nat /\ s[j].end \in Nat /\ s[j].start < s[j].end
        BY <2>3
      <4> QED
        BY <4>2, <4>3
    <3>6. alignSliceEndToIndex(in, s[k].start, size) = End(j)
      BY <3>5 DEF End
    <3>7. f[k] = IF Start(k) # NOT_FOUND
                 THEN Append(f[j], [start |-> Start(k), end |-> End(k)]) ELSE f[j]
      BY <2>2, <2>4, <3>2, <3>3
    <3>8. CASE Start(k) = NOT_FOUND
      BY <2>4, <3>2, <3>4, <3>5, <3>6, <3>7, <3>8
    <3>9. CASE Start(k) # NOT_FOUND
      <4>1. PICK slice : slice = [start |-> Start(k), end |-> End(k)]
        OBVIOUS
      <4>2. /\ slice.start = Start(k) /\ slice.end = End(k)
            /\ Start(k) \in Nat /\ End(k) \in Nat /\ Start(k) < End(k)
            /\ Start(k) = End(j) /\ Start(k) \in Places(in)
        BY <2>4, <3>2, <3>5, <3>6, <3>9, <4>1
      <4>3. slice \in Slice
        BY <4>1, <4>2 DEF Slice
      <4>4. TileTo(Append(f[j], slice), slice.end, Places(in))
        BY <3>4, <4>2, <4>3, OneMoreTile
      <4> QED
        BY <3>2, <3>7, <3>9, <4>1, <4>2, <4>4
    <3> QED
      BY <3>8, <3>9
  <2>7. TileTo(f[n], End(n), Places(in)) /\ n \in 1 .. n
    BY <2>6
  <2>8. End(n) = size
    BY <1>2, <2>4, <2>7
  <2> QED
    BY <1>1, <2>1, <2>7, <2>8
<1> QED
  BY <1>3, <1>4

(* A job cuts the file with the index it found, or leaves it whole. *)
BlockStarts == {BlockStart(k) : k \in DOMAIN lens}

LEMMA SplitTiles ==
    ASSUME IndexFits, Split
    PROVE  SplitsTile' /\ TileTo(splits', FileSize, BlockStarts)
<1>1. lens' = lens /\ FileSize' = FileSize /\ IndexFits'
  BY SplitFits DEF Split, FileSize, BlockStart
<1>2. PICK in : in = index'
  OBVIOUS
<1>3. IsIndex(in) /\ \A i \in 1 .. Len(in) : in[i] < FileSize
  BY <1>1, <1>2 DEF IndexFits
<1>4. FileSize \in Nat \ {0}
  <2>1. Len(lens) + 1 \in Nat \ {0}
    BY DEF IndexFits
  <2>2. BlockStart(Len(lens) + 1) \in Nat
    BY <2>1, BlocksFollow
  <2> QED
    BY <2>2 DEF FileSize
<1>5. PICK cuts : cuts \in CutLists /\ splits' = Aligned(FileSplits(cuts), in)
  BY <1>2 DEF Split
<1>6. IsCuts(cuts) /\ (isEmpty(in) => cuts = << >>)
  <2>1. CASE isEmpty(in)
    <3>1. cuts = << >>
      BY <1>2, <1>5, <2>1 DEF CutLists
    <3>2. << >> \in Seq(1 .. FileSize - 1) /\ Len(<< >>) = 0
      OBVIOUS
    <3> QED
      BY <3>1, <3>2 DEF IsCuts
  <2>2. CASE ~isEmpty(in)
    <3>1. /\ cuts \in SeqOf(1 .. FileSize - 1, MaxCuts)
          /\ \A i, j \in 1 .. Len(cuts) : i < j => cuts[i] < cuts[j]
      BY <1>2, <1>5, <2>2 DEF CutLists
    <3>2. PICK m \in 0 .. MaxCuts : cuts \in [1 .. m -> 1 .. FileSize - 1]
      BY <3>1 DEF SeqOf
    <3>3. cuts \in Seq(1 .. FileSize - 1)
      <4>1. PICK T : T = 1 .. FileSize - 1
        OBVIOUS
      <4>2. m \in Nat
        BY JobAssumption
      <4>3. cuts \in [1 .. m -> T]
        BY <3>2, <4>1
      <4>4. cuts \in Seq(T)
        BY <4>2, <4>3
      <4> QED
        BY <4>1, <4>4
    <3> QED
      BY <2>2, <3>1, <3>3 DEF IsCuts
  <2> QED
    BY <2>1, <2>2
<1>7. TileTo(splits', FileSize, Places(in))
  BY <1>3, <1>4, <1>5, <1>6, AlignedTile
<1>8. ASSUME NEW p \in Places(in) PROVE \E k \in DOMAIN lens : p = BlockStart(k)
  <2>1. PICK m \in 0 .. Len(lens) : in = SubSeq(Starts, 1, m)
    BY <1>2 DEF Split
  <2>2. m \in Nat /\ m <= Len(lens) /\ Len(lens) \in Nat /\ DOMAIN lens = 1 .. Len(lens)
    BY <2>1 DEF IndexFits
  <2>3. Starts = [i \in 1 .. Len(lens) |-> BlockStart(i)] /\ Starts \in Seq(Nat)
    BY <2>2, BlocksFollow DEF Starts
  <2>4. Len(in) = m /\ \A i \in 1 .. m : in[i] = BlockStart(i)
    BY <2>1, <2>2, <2>3
  <2>5. PICK i \in 1 .. m : p = in[i]
    BY <2>4 DEF Places
  <2> QED
    BY <2>2, <2>4, <2>5
<1>9. /\ splits' # Unread /\ DOMAIN splits' = 1 .. Len(splits')
      /\ splits'[1].start = 0 /\ splits'[Len(splits')].end = FileSize
      /\ \A i \in 1 .. Len(splits') : splits'[i].start < splits'[i].end
      /\ \A i \in 1 .. Len(splits') - 1 :
            splits'[i].end = splits'[i + 1].start /\ splits'[i].end \in Places(in)
  BY <1>7 DEF TileTo, Unread
<1>10. \A k : BlockStart(k)' = BlockStart(k)
  BY DEF BlockStart
<1>11. SplitsTile'
  BY <1>1, <1>8, <1>9, <1>10 DEF SplitsTile
<1>12. TileTo(splits', FileSize, BlockStarts)
  <2>1. Places(in) \subseteq BlockStarts
    BY <1>8 DEF BlockStarts
  <2> QED
    BY <1>7, <2>1 DEF TileTo
<1> QED
  BY <1>11, <1>12

(* Wherever a job cuts a file and whatever part of the index it finds, its *)
(* splits follow one another from the header to the end of the file, and   *)
(* the task of every split but the first begins at a block.                *)
THEOREM SplitsTileFile == Spec => []SplitsTile
<1>1. Init => SplitsTile
  BY DEF Init, SplitsTile
<1>2. IndexFits /\ SplitsTile /\ [Next]_vars => SplitsTile'
  <2> SUFFICES ASSUME IndexFits, SplitsTile, [Next]_vars PROVE SplitsTile'
    OBVIOUS
  <2>1. CASE Split
    BY <2>1, SplitTiles
  <2>2. CASE UNCHANGED <<lens, splits>>
    BY <2>2 DEF SplitsTile, FileSize, BlockStart
  <2> QED
    BY <2>1, <2>2 DEF Next, Step, NextLine, EndOfSplit, vars
<1> QED
  BY <1>1, <1>2, InitFits, NextFits, PTL DEF Spec

-----------------------------------------------------------------------------
(* The text, its lines and where fileIn is when they are read *)

FileShape ==
    /\ lens \in Seq(Nat \ {0})
    /\ feeds \subseteq 0 .. TextSize - 1
    /\ returns \subseteq 0 .. TextSize - 1
    /\ feeds \cap returns = {}

LEMMA Texts ==
    ASSUME FileShape
    PROVE  /\ \A k \in 1 .. Len(lens) + 1 : TextBefore(k) \in Nat
           /\ TextBefore(1) = 0 /\ TextBefore(Len(lens) + 1) = TextSize
           /\ \A j, k \in 1 .. Len(lens) + 1 : j < k => TextBefore(j) < TextBefore(k)
<1>1. PICK n \in Nat : n = Len(lens)
  BY DEF FileShape
<1>2. \A j \in 1 .. n : lens[j] \in Nat \ {0}
  BY <1>1 DEF FileShape
<1>3. ASSUME NEW m \in 0 .. n PROVE TextBefore(m + 1) = Total(lens, m) /\ Total(lens, m) \in Nat
  <2>1. m + 1 - 1 = m
    OBVIOUS
  <2>2. TextBefore(m + 1) = Total(lens, m)
    BY <2>1 DEF TextBefore
  <2>3. m \in Nat /\ \A j \in 1 .. m : lens[j] \in Nat
    BY <1>2
  <2> QED
    BY <2>2, <2>3, TotalIsNat
<1>4. \A k \in 1 .. n + 1 : TextBefore(k) \in Nat
  <2>1. TAKE k \in 1 .. n + 1
  <2>2. PICK m \in 0 .. n : k = m + 1
    <3>1. k - 1 \in 0 .. n /\ k = (k - 1) + 1
      OBVIOUS
    <3> QED
      BY <3>1
  <2> QED
    BY <1>3, <2>2
<1>5. TextBefore(1) = 0
  <2>1. 0 \in 0 .. n /\ 0 + 1 = 1
    OBVIOUS
  <2> QED
    BY <1>3, <2>1, TotalOfNone
<1>6. TextBefore(n + 1) = TextSize
  BY <1>1, <1>3 DEF TextSize
<1>7. ASSUME NEW l \in 0 .. n, NEW m \in 0 .. n, l < m PROVE Total(lens, l) < Total(lens, m)
  <2>1. PICK h \in 0 .. n : h = l + 1 /\ h <= m
    BY <1>7
  <2>2. /\ l \in Nat /\ h \in Nat /\ m \in Nat
        /\ \A j \in 1 .. l + 1 : lens[j] \in Nat
        /\ \A j \in 1 .. m : lens[j] \in Nat
    BY <1>2, <2>1
  <2>3. Total(lens, l + 1) = Total(lens, l) + lens[l + 1]
    BY <2>2, TotalGrows
  <2>4. Total(lens, h) <= Total(lens, m)
    BY <2>1, <2>2, TotalIsMonotone
  <2>5. lens[h] \in Nat \ {0}
    BY <1>2, <2>1
  <2>6. Total(lens, h) = Total(lens, l) + lens[h]
    BY <2>1, <2>3
  <2>7. Total(lens, l) \in Nat /\ Total(lens, h) \in Nat /\ Total(lens, m) \in Nat
    BY <1>3
  <2> QED
    BY <2>4, <2>5, <2>6, <2>7
<1>8. ASSUME NEW j \in 1 .. n + 1, NEW k \in 1 .. n + 1, j < k PROVE TextBefore(j) < TextBefore(k)
  <2>1. PICK l \in 0 .. n : j = l + 1
    <3>1. j - 1 \in 0 .. n /\ j = (j - 1) + 1
      OBVIOUS
    <3> QED
      BY <3>1
  <2>2. PICK m \in 0 .. n : k = m + 1
    <3>1. k - 1 \in 0 .. n /\ k = (k - 1) + 1
      OBVIOUS
    <3> QED
      BY <3>1
  <2>3. l < m
    BY <1>8, <2>1, <2>2
  <2> QED
    BY <1>3, <1>7, <2>1, <2>2, <2>3
<1> QED
  BY <1>1, <1>4, <1>5, <1>6, <1>8

(* Every offset of the text is in a block. *)
LEMMA BlockOfIs ==
    ASSUME FileShape, NEW o \in 0 .. TextSize - 1
    PROVE  /\ BlockOf(o) \in 1 .. Len(lens)
           /\ TextBefore(BlockOf(o)) <= o /\ o < TextBefore(BlockOf(o) + 1)
<1>1. PICK n \in Nat : n = Len(lens) /\ DOMAIN lens = 1 .. n
  BY DEF FileShape
<1>2. /\ \A k \in 1 .. n + 1 : TextBefore(k) \in Nat
      /\ TextBefore(1) = 0 /\ TextBefore(n + 1) = TextSize /\ TextSize \in Nat
  BY <1>1, Texts
<1> DEFINE Past == {k \in 1 .. n + 1 : o < TextBefore(k)}
<1>3. PICK k \in Past : \A j \in Past : k <= j
  <2>1. n + 1 \in Past
    BY <1>2
  <2>2. Past \in SUBSET Nat
    OBVIOUS
  <2> HIDE DEF Past
  <2> QED
    BY <2>1, <2>2, Least
<1>4. k \in 1 .. n + 1 /\ o < TextBefore(k) /\ k # 1
  BY <1>2
<1>5. PICK b \in 1 .. n : k = b + 1
  <2>1. k - 1 \in 1 .. n /\ k = (k - 1) + 1
    BY <1>4
  <2> QED
    BY <2>1
<1>6. b \notin Past
  BY <1>3, <1>5
<1>7. TextBefore(b) <= o
  BY <1>2, <1>6
<1>8. \E j \in DOMAIN lens : TextBefore(j) <= o /\ o < TextBefore(j + 1)
  BY <1>1, <1>4, <1>5, <1>7
<1> QED
  BY <1>1, <1>8 DEF BlockOf

(* A line ends behind the offsets of its text and in front of the next.    *)
LEMMA LineEndIs ==
    ASSUME FileShape, NEW o \in 0 .. TextSize - 1
    PROVE  /\ LineEnd(o) \in o + 1 .. TextSize
           /\ LineEnd(o) # TextSize => LineEnd(o) \in LineStarts
           /\ \A l \in LineStarts : l <= o \/ LineEnd(o) <= l
<1>1. TextSize \in Nat
  <2>1. Len(lens) + 1 \in 1 .. Len(lens) + 1
    BY DEF FileShape
  <2> QED
    BY <2>1, Texts
<1> DEFINE ends == {e \in o + 1 .. TextSize : e = TextSize \/ EndsLine(e)}
<1>2. PICK next \in ends : \A e \in ends : next <= e
  <2>1. TextSize \in ends
    BY <1>1
  <2>2. ends \in SUBSET Nat
    BY <1>1
  <2> HIDE DEF ends
  <2> QED
    BY <2>1, <2>2, Least
<1>3. next \in o + 1 .. TextSize /\ (next = TextSize \/ EndsLine(next))
  OBVIOUS
<1>4. \A e \in o + 1 .. next - 1 : ~EndsLine(e)
  <2>1. TAKE e \in o + 1 .. next - 1
  <2>2. e \in o + 1 .. TextSize /\ ~(next <= e)
    BY <1>1, <1>3
  <2> QED
    BY <1>2, <2>2
<1>5. /\ LineEnd(o) \in o + 1 .. TextSize
      /\ LineEnd(o) = TextSize \/ EndsLine(LineEnd(o))
      /\ \A e \in o + 1 .. LineEnd(o) - 1 : ~EndsLine(e)
  BY <1>3, <1>4 DEF LineEnd
<1>6. LineEnd(o) # TextSize => LineEnd(o) \in LineStarts
  BY <1>1, <1>5 DEF LineStarts
<1>7. ASSUME NEW l \in LineStarts PROVE l <= o \/ LineEnd(o) <= l
  <2>1. l \in 0 .. TextSize - 1 /\ (l = 0 \/ EndsLine(l))
    BY DEF LineStarts
  <2>2. CASE o < l
    <3>1. l \notin o + 1 .. LineEnd(o) - 1
      BY <1>5, <2>1, <2>2
    <3> QED
      BY <1>1, <1>5, <2>1, <2>2, <3>1
  <2> QED
    BY <1>1, <2>1, <2>2
<1> QED
  BY <1>5, <1>6, <1>7

(* How far a reader has looked when it is at the beginning of a line. *)
SeenTo(o) == IF o = 0 THEN 0 ELSE Looked(o)

(* fileIn is at x when the text up to o has been read: it has not come     *)
(* past the beginning of a block unless the reader has entered the block.  *)
ReadTo(x, o) ==
    /\ x \in 0 .. FileSize
    /\ \A e \in 1 .. Len(lens) + 1 : x <= BlockStart(e) <=> o <= TextBefore(e)

LEMMA Positions ==
    ASSUME FileShape
    PROVE  /\ FileSize \in Nat
           /\ \A k \in 1 .. Len(lens) + 1 : BlockStart(k) \in Nat \ {0} /\ BlockStart(k) < FileSize
           /\ \A j, k \in 1 .. Len(lens) + 1 : j < k => BlockStart(j) < BlockStart(k)
<1>1. PICK n \in Nat : n = Len(lens)
  BY DEF FileShape
<1>2. \A j, k \in 1 .. n + 1 : j < k => BlockStart(j) < BlockStart(k)
  BY BlocksFollow
<1>3. ASSUME NEW k \in 1 .. n + 1 PROVE BlockStart(k) \in Nat \ {0}
  <2>1. HeaderLen \in Nat \ {0} /\ BlockLen \in Nat /\ k - 1 \in Nat
    BY JobAssumption
  <2>2. (k - 1) * BlockLen \in Nat
    BY <2>1
  <2> QED
    BY <2>1, <2>2 DEF BlockStart
<1>4. FileSize = BlockStart(n + 1) + 1
  BY <1>1 DEF FileSize
<1>5. ASSUME NEW k \in 1 .. n + 1 PROVE BlockStart(k) < FileSize
  <2>1. k = n + 1 \/ k < n + 1
    OBVIOUS
  <2>2. n + 1 \in 1 .. n + 1
    OBVIOUS
  <2>3. BlockStart(k) <= BlockStart(n + 1)
    BY <1>2, <1>3, <2>1, <2>2
  <2> QED
    BY <1>3, <1>4, <2>2, <2>3
<1> QED
  BY <1>1, <1>2, <1>3, <1>4, <1>5

LEMMA Sizes ==
    ASSUME FileShape
    PROVE  TextSize \in Nat /\ FileSize \in Nat /\ Len(lens) \in Nat /\ DOMAIN lens = 1 .. Len(lens)
<1>1. Len(lens) \in Nat /\ DOMAIN lens = 1 .. Len(lens)
  BY DEF FileShape
<1>2. TextSize \in Nat
  <2>1. Len(lens) + 1 \in 1 .. Len(lens) + 1
    BY <1>1
  <2> QED
    BY <2>1, Texts
<1> QED
  BY <1>1, <1>2, Positions

LEMMA FilePosIs ==
    ASSUME FileShape, NEW o \in 0 .. TextSize - 1, NEW p \in 0 .. o + 1,
           NEW x, ReadTo(x, p), LineEnd(o) # TextSize
    PROVE  ReadTo(FilePos(o, x), SeenTo(LineEnd(o)))
<1>1. PICK n \in Nat : n = Len(lens)
  BY DEF FileShape
<1>2. PICK q : q = Looked(LineEnd(o))
  OBVIOUS
<1>3. /\ \A k \in 1 .. n + 1 : TextBefore(k) \in Nat
      /\ TextBefore(n + 1) = TextSize /\ TextSize \in Nat
      /\ \A j, k \in 1 .. n + 1 : j < k => TextBefore(j) < TextBefore(k)
  <2>1. n + 1 \in 1 .. n + 1
    OBVIOUS
  <2> QED
    BY <1>1, <2>1, Texts
<1>4. /\ o \in Nat /\ p \in Nat /\ p <= q /\ q \in o + 1 .. TextSize
      /\ q = SeenTo(LineEnd(o))
  <2>1. LineEnd(o) \in o + 1 .. TextSize /\ LineEnd(o) # TextSize
    BY LineEndIs
  <2>2. q \in {LineEnd(o), LineEnd(o) + 1}
    BY <1>2 DEF Looked
  <2> QED
    BY <1>2, <1>3, <2>1, <2>2 DEF SeenTo
<1>5. PICK b : b = BlockOf(q - 1)
  OBVIOUS
<1>6. b \in 1 .. n /\ TextBefore(b) <= q - 1 /\ q - 1 < TextBefore(b + 1)
  <2>1. q - 1 \in 0 .. TextSize - 1
    BY <1>3, <1>4
  <2> QED
    BY <1>1, <1>5, <2>1, BlockOfIs
<1>7. PICK y : y = FilePos(o, x)
  OBVIOUS
<1>8. y = IF BlockStart(b + 1) > x THEN BlockStart(b + 1) ELSE x
  <2>1. ~(q > TextSize)
    BY <1>3, <1>4
  <2> QED
    BY <1>2, <1>5, <1>7, <2>1 DEF FilePos
<1>9. /\ x \in 0 .. FileSize
      /\ \A e \in 1 .. n + 1 : x <= BlockStart(e) <=> p <= TextBefore(e)
  BY <1>1 DEF ReadTo
<1>10. /\ FileSize \in Nat
       /\ \A k \in 1 .. n + 1 : BlockStart(k) \in Nat /\ BlockStart(k) < FileSize
       /\ \A j, k \in 1 .. n + 1 : j < k => BlockStart(j) < BlockStart(k)
  BY <1>1, Positions
<1>11. b + 1 \in 1 .. n + 1
  BY <1>6
<1>12. y \in 0 .. FileSize
  BY <1>8, <1>9, <1>10, <1>11
<1>13. ASSUME NEW e \in 1 .. n + 1 PROVE y <= BlockStart(e) <=> q <= TextBefore(e)
  <2>1. y <= BlockStart(e) <=> x <= BlockStart(e) /\ BlockStart(b + 1) <= BlockStart(e)
    BY <1>8, <1>9, <1>10, <1>11
  <2>2. CASE b + 1 <= e
    <3>1. BlockStart(b + 1) <= BlockStart(e) /\ TextBefore(b + 1) <= TextBefore(e)
      <4>1. CASE b + 1 = e
        BY <1>3, <1>10, <4>1
      <4>2. CASE b + 1 # e
        <5>1. b + 1 < e
          BY <1>6, <2>2, <4>2
        <5> QED
          BY <1>3, <1>10, <1>11, <5>1
      <4> QED
        BY <4>1, <4>2
    <3>2. q <= TextBefore(e)
      BY <1>3, <1>4, <1>6, <1>11, <3>1
    <3>3. p <= TextBefore(e)
      BY <1>3, <1>4, <3>2
    <3> QED
      BY <1>9, <2>1, <3>1, <3>2, <3>3
  <2>3. CASE ~(b + 1 <= e)
    <3>1. BlockStart(e) < BlockStart(b + 1)
      BY <1>6, <1>10, <1>11, <2>3
    <3>2. TextBefore(e) <= TextBefore(b)
      <4>1. b \in 1 .. n + 1 /\ (e = b \/ e < b)
        BY <1>6, <2>3
      <4> QED
        BY <1>3, <4>1
    <3>3. b \in 1 .. n + 1
      BY <1>6
    <3>4. ~(q <= TextBefore(e))
      BY <1>3, <1>4, <1>6, <3>2, <3>3
    <3> QED
      BY <1>10, <1>11, <2>1, <3>1, <3>4
  <2> QED
    BY <2>2, <2>3
<1> QED
  BY <1>1, <1>4, <1>7, <1>12, <1>13 DEF ReadTo

-----------------------------------------------------------------------------
(* Whose line is whose *)

(* The text in front of a position at which a split may begin or end. *)
TextTo(p) == IF p = FileSize THEN TextSize ELSE TextBefore(BlockFrom(p))

(* A split's task reaches a line if it need not have looked behind the end *)
(* of the split to be at its beginning.                                    *)
Reaches(i, o) == splits[i].end = FileSize \/ SeenTo(o) <= TextTo(splits[i].end)

(* A split has the lines that begin behind the first byte of its first     *)
(* block, up to the first byte of the next split's: that one skips it.     *)
Owns(i, o) ==
    /\ i = 1 \/ TextTo(splits[i].start) < o
    /\ Reaches(i, o)

Bounds == {FileSize} \cup {BlockStart(k) : k \in 1 .. Len(lens)}

LEMMA TextToIs ==
    ASSUME FileShape
    PROVE  /\ TextTo(FileSize) = TextSize
           /\ \A k \in 1 .. Len(lens) : TextTo(BlockStart(k)) = TextBefore(k)
           /\ \A p \in Bounds : TextTo(p) \in 0 .. TextSize
           /\ \A p, q \in Bounds : p < q => TextTo(p) < TextTo(q)
<1>1. PICK n \in Nat : n = Len(lens) /\ DOMAIN lens = 1 .. n
  BY DEF FileShape
<1>2. /\ \A k \in 1 .. n + 1 : BlockStart(k) \in Nat /\ BlockStart(k) < FileSize
      /\ \A j, k \in 1 .. n + 1 : j < k => BlockStart(j) < BlockStart(k)
      /\ FileSize \in Nat
  BY <1>1, Positions
<1>3. /\ \A k \in 1 .. n + 1 : TextBefore(k) \in Nat
      /\ TextBefore(n + 1) = TextSize /\ TextSize \in Nat
      /\ \A j, k \in 1 .. n + 1 : j < k => TextBefore(j) < TextBefore(k)
  <2>1. n + 1 \in 1 .. n + 1
    OBVIOUS
  <2> QED
    BY <1>1, <2>1, Texts
<1>4. ASSUME NEW k \in 1 .. n PROVE TextTo(BlockStart(k)) = TextBefore(k)
  <2>1. ASSUME NEW j \in 1 .. n, BlockStart(j) = BlockStart(k) PROVE j = k
    <3>1. j \in 1 .. n + 1 /\ k \in 1 .. n + 1 /\ (j < k \/ k < j \/ j = k)
      OBVIOUS
    <3> QED
      BY <1>2, <2>1, <3>1
  <2>2. BlockFrom(BlockStart(k)) = k
    BY <1>1, <2>1 DEF BlockFrom
  <2>3. BlockStart(k) # FileSize
    BY <1>2
  <2> QED
    BY <2>2, <2>3 DEF TextTo
<1>5. ASSUME NEW k \in 1 .. n PROVE TextBefore(k) \in 0 .. TextSize /\ TextBefore(k) < TextSize
  <2>1. k \in 1 .. n + 1 /\ n + 1 \in 1 .. n + 1 /\ k < n + 1
    OBVIOUS
  <2> QED
    BY <1>3, <2>1
<1>6. TextTo(FileSize) = TextSize
  BY DEF TextTo
<1>7. \A p \in Bounds : TextTo(p) \in 0 .. TextSize
  BY <1>1, <1>3, <1>4, <1>5, <1>6 DEF Bounds
<1>8. ASSUME NEW p \in Bounds, NEW q \in Bounds, p < q PROVE TextTo(p) < TextTo(q)
  <2>1. p # FileSize
    BY <1>1, <1>2, <1>8 DEF Bounds
  <2>2. PICK j \in 1 .. n : p = BlockStart(j)
    BY <1>1, <2>1 DEF Bounds
  <2>3. CASE q = FileSize
    BY <1>4, <1>5, <1>6, <2>2, <2>3
  <2>4. CASE q # FileSize
    <3>1. PICK k \in 1 .. n : q = BlockStart(k)
      BY <1>1, <2>4 DEF Bounds
    <3>2. j \in 1 .. n + 1 /\ k \in 1 .. n + 1
      OBVIOUS
    <3>3. j < k
      <4>1. CASE k < j
        <5>1. BlockStart(k) < BlockStart(j)
          BY <1>2, <3>2, <4>1
        <5> QED
          BY <1>2, <1>8, <2>2, <3>1, <3>2, <5>1
      <4>2. CASE k = j
        BY <1>2, <1>8, <2>2, <3>1, <3>2, <4>2
      <4> QED
        BY <4>1, <4>2
    <3> QED
      BY <1>3, <1>4, <2>2, <3>1, <3>2, <3>3
  <2> QED
    BY <2>3, <2>4
<1> QED
  BY <1>1, <1>4, <1>6, <1>7, <1>8

(* The splits as SplitsTile has them. *)
SplitShape ==
    /\ splits \in Seq(Slice)
    /\ splits[1].start = 0
    /\ splits[Len(splits)].end = FileSize
    /\ \A i \in 1 .. Len(splits) : splits[i].start < splits[i].end /\ splits[i].end \in Bounds
    /\ \A i \in 1 .. Len(splits) - 1 : splits[i].end = splits[i + 1].start
    /\ Len(splits) # 0

LEMMA SplitBounds ==
    ASSUME FileShape, SplitShape
    PROVE  /\ \A i \in 1 .. Len(splits) :
                /\ TextTo(splits[i].end) \in 0 .. TextSize
                /\ i # 1 => /\ splits[i].start \in Bounds
                            /\ TextTo(splits[i].start) < TextTo(splits[i].end)
           /\ \A i, j \in 1 .. Len(splits) :
                i < j => TextTo(splits[i].end) <= TextTo(splits[j].start)
<1>1. PICK n \in Nat \ {0} : n = Len(splits)
  BY DEF SplitShape
<1>2. /\ \A i \in 1 .. n : splits[i].start < splits[i].end /\ splits[i].end \in Bounds
      /\ \A i \in 1 .. n - 1 : splits[i].end = splits[i + 1].start
  BY <1>1 DEF SplitShape
<1>3. ASSUME NEW i \in 1 .. n, i # 1 PROVE \E h \in 1 .. n - 1 : h + 1 = i
  <2>1. i - 1 \in 1 .. n - 1 /\ (i - 1) + 1 = i
    BY <1>3
  <2> QED
    BY <2>1
<1>4. ASSUME NEW i \in 1 .. n
      PROVE  /\ TextTo(splits[i].end) \in 0 .. TextSize
             /\ i # 1 => /\ splits[i].start \in Bounds
                         /\ TextTo(splits[i].start) < TextTo(splits[i].end)
  <2>1. TextTo(splits[i].end) \in 0 .. TextSize
    BY <1>2, TextToIs
  <2>2. ASSUME i # 1 PROVE splits[i].start \in Bounds
    <3>1. PICK h \in 1 .. n - 1 : h + 1 = i
      BY <1>3, <2>2
    <3>2. h \in 1 .. n
      OBVIOUS
    <3> QED
      BY <1>2, <3>1, <3>2
  <2> QED
    BY <1>2, <2>1, <2>2, TextToIs
<1>5. ASSUME NEW i \in 1 .. n, NEW j \in 1 .. n, i < j
      PROVE  TextTo(splits[i].end) <= TextTo(splits[j].start)
  <2> DEFINE Bad == {k \in 1 .. n : i < k /\ ~(TextTo(splits[i].end) <= TextTo(splits[k].start))}
  <2> SUFFICES ASSUME Bad # {} PROVE FALSE
    BY <1>5
  <2>1. PICK k \in Bad : \A l \in Bad : k <= l
    <3>1. Bad \in SUBSET Nat
      OBVIOUS
    <3> HIDE DEF Bad
    <3> QED
      BY <3>1, Least
  <2>2. k \in 1 .. n /\ i < k /\ ~(TextTo(splits[i].end) <= TextTo(splits[k].start))
    OBVIOUS
  <2>3. PICK h \in 1 .. n - 1 : h + 1 = k
    BY <1>3, <2>2
  <2>4. h \in 1 .. n /\ splits[k].start = splits[h].end
    BY <1>2, <2>3
  <2>5. h \notin Bad
    BY <2>1, <2>3
  <2>6. CASE h = i
    <3>1. TextTo(splits[i].end) \in Int
      BY <1>4
    <3> QED
      BY <2>2, <2>4, <2>6, <3>1
  <2>7. CASE h # i
    <3>1. i < h
      BY <2>2, <2>3, <2>7
    <3>2. TextTo(splits[i].end) <= TextTo(splits[h].start)
      BY <2>4, <2>5, <3>1
    <3>3. h # 1
      BY <3>1
    <3>4. TextTo(splits[h].start) < TextTo(splits[h].end)
      BY <1>4, <2>4, <3>3
    <3>5. TextTo(splits[i].end) \in Int /\ TextTo(splits[h].end) \in Int
          /\ TextTo(splits[h].start) \in Int
      BY <1>4, <2>4, <3>3, TextToIs
    <3> QED
      BY <2>2, <2>4, <3>2, <3>4, <3>5
  <2> QED
    BY <2>6, <2>7
<1> QED
  BY <1>1, <1>4, <1>5

(* What a line's owner reaches is no later than the text of its split. *)
LEMMA ReachedIsInside ==
    ASSUME FileShape, SplitShape, NEW o \in 0 .. TextSize - 1,
           NEW i \in 1 .. Len(splits), Reaches(i, o)
    PROVE  o <= TextTo(splits[i].end)
<1>1. TextTo(splits[i].end) \in 0 .. TextSize /\ TextSize \in Nat
  BY SplitBounds, Sizes
<1>2. CASE splits[i].end = FileSize
  BY <1>1, <1>2, TextToIs
<1>3. CASE splits[i].end # FileSize
  <2>1. SeenTo(o) <= TextTo(splits[i].end)
    BY <1>3 DEF Reaches
  <2>2. SeenTo(o) \in {o, o + 1}
    BY DEF SeenTo, Looked
  <2> QED
    BY <1>1, <2>1, <2>2
<1> QED
  BY <1>2, <1>3

(* No line is two tasks', and each is one's but for those behind a return. *)
LEMMA OneOwner ==
    ASSUME FileShape, SplitShape, NEW o \in 0 .. TextSize - 1
    PROVE  /\ \A i, j \in 1 .. Len(splits) : Owns(i, o) /\ Owns(j, o) => i = j
           /\ o \in LineStarts /\ ~BehindReturn(o) => \E i \in 1 .. Len(splits) : Owns(i, o)
<1>1. PICK n \in Nat \ {0} : n = Len(splits) /\ DOMAIN splits = 1 .. n
  BY DEF SplitShape
<1>2. /\ \A i \in 1 .. n :
            /\ TextTo(splits[i].end) \in 0 .. TextSize
            /\ i # 1 => TextTo(splits[i].start) < TextTo(splits[i].end)
            /\ i # 1 => TextTo(splits[i].start) \in 0 .. TextSize
      /\ \A i, j \in 1 .. n : i < j => TextTo(splits[i].end) <= TextTo(splits[j].start)
  BY <1>1, SplitBounds, TextToIs
<1>3. ASSUME NEW i \in 1 .. n, NEW j \in 1 .. n, Owns(i, o), Owns(j, o), i < j PROVE FALSE
  <2>1. o <= TextTo(splits[i].end) /\ (j = 1 \/ TextTo(splits[j].start) < o)
    BY <1>1, <1>3, ReachedIsInside DEF Owns
  <2>2. TextTo(splits[i].end) <= TextTo(splits[j].start) /\ j # 1
    BY <1>2, <1>3
  <2>3. TextTo(splits[i].end) \in Int /\ TextTo(splits[j].start) \in Int /\ o \in Int
    BY <1>2, <2>2
  <2> QED
    BY <2>1, <2>2, <2>3
<1>4. ASSUME o \in LineStarts, ~BehindReturn(o) PROVE \E i \in 1 .. n : Owns(i, o)
  <2> DEFINE Ahead == {i \in 1 .. n : o <= TextTo(splits[i].end)}
  <2>1. PICK i \in Ahead : \A j \in Ahead : i <= j
    <3>1. n \in Ahead
      <4>1. TextTo(splits[n].end) = TextSize
        BY <1>1, TextToIs DEF SplitShape
      <4>2. TextSize \in Int /\ n \in 1 .. n
        BY <1>2, <4>1
      <4> QED
        BY <4>1, <4>2
    <3>2. Ahead \in SUBSET Nat
      OBVIOUS
    <3> HIDE DEF Ahead
    <3> QED
      BY <3>1, <3>2, Least
  <2>2. i \in 1 .. n /\ o <= TextTo(splits[i].end)
    OBVIOUS
  <2>3. ASSUME i # 1 PROVE TextTo(splits[i].start) < o
    <3>1. PICK h \in 1 .. n - 1 : h + 1 = i
      <4>1. i - 1 \in 1 .. n - 1 /\ (i - 1) + 1 = i
        BY <2>2, <2>3
      <4> QED
        BY <4>1
    <3>2. h \in 1 .. n /\ h \notin Ahead
      BY <2>1, <3>1
    <3>3. TextTo(splits[h].end) < o /\ splits[h].end = splits[i].start
      <4>1. TextTo(splits[h].end) \in Int /\ o \in Int
        BY <1>2, <3>2
      <4>2. splits[h].end = splits[i].start
        BY <1>1, <3>1 DEF SplitShape
      <4> QED
        BY <3>2, <4>1, <4>2
    <3> QED
      BY <3>3
  <2>4. Reaches(i, o)
    <3>1. CASE splits[i].end = FileSize
      BY <3>1 DEF Reaches
    <3>2. CASE o < TextTo(splits[i].end)
      <4>1. SeenTo(o) \in {o, o + 1} /\ TextTo(splits[i].end) \in Int
        BY <1>2, <2>2 DEF SeenTo, Looked
      <4> QED
        BY <3>2, <4>1 DEF Reaches
    <3>3. CASE o = TextTo(splits[i].end) /\ splits[i].end # FileSize
      <4>1. PICK h \in 1 .. n : splits[h].start = splits[i].end
        <5>1. i # n
          BY <1>1, <3>3 DEF SplitShape
        <5>2. i \in 1 .. n - 1 /\ i + 1 \in 1 .. n
          BY <2>2, <5>1
        <5> QED
          BY <1>1, <5>2 DEF SplitShape
      <4>2. splits[h].start # 0
        <5>1. splits[i].end \in Bounds
          BY <1>1, <2>2 DEF SplitShape
        <5>2. \A k \in 1 .. Len(lens) + 1 : BlockStart(k) # 0
          BY Positions
        <5> QED
          BY <3>3, <4>1, <5>1, <5>2, Sizes DEF Bounds
      <4>3. TextBefore(BlockFrom(splits[h].start)) = o
        BY <3>3, <4>1 DEF TextTo
      <4>4. o - 1 \notin returns
        BY <1>1, <1>4, <4>2, <4>3 DEF BehindReturn
      <4>5. o = 0 \/ o - 1 \in feeds
        BY <1>4, <4>4 DEF LineStarts, EndsLine
      <4>6. SeenTo(o) = o
        BY <4>5 DEF SeenTo, Looked
      <4> QED
        BY <3>3, <4>6 DEF Reaches
    <3> QED
      BY <1>2, <2>2, <3>1, <3>2, <3>3
  <2> QED
    BY <2>2, <2>3, <2>4 DEF Owns
<1>5. ASSUME NEW i \in 1 .. n, NEW j \in 1 .. n, Owns(i, o), Owns(j, o) PROVE i = j
  <2>1. ~(i < j) /\ ~(j < i)
    BY <1>3, <1>5
  <2> QED
    BY <2>1
<1> QED
  BY <1>1, <1>4, <1>5

(* A line behind a return is nobody's: the task in front has looked into   *)
(* the next split, whose task skips the line.                              *)
LEMMA NoOwner ==
    ASSUME FileShape, SplitShape, NEW o \in 0 .. TextSize - 1, BehindReturn(o),
           NEW j \in 1 .. Len(splits), Owns(j, o)
    PROVE  FALSE
<1>1. PICK n \in Nat \ {0} : n = Len(splits) /\ DOMAIN splits = 1 .. n
  BY DEF SplitShape
<1>2. /\ \A i \in 1 .. n :
            /\ TextTo(splits[i].end) \in 0 .. TextSize
            /\ i # 1 => /\ splits[i].start \in Bounds
                        /\ TextTo(splits[i].start) < TextTo(splits[i].end)
                        /\ TextTo(splits[i].start) \in 0 .. TextSize
      /\ \A i, k \in 1 .. n : i < k => TextTo(splits[i].end) <= TextTo(splits[k].start)
  BY <1>1, SplitBounds, TextToIs
<1>3. PICK i \in 1 .. n : splits[i].start # 0 /\ TextBefore(BlockFrom(splits[i].start)) = o
  BY <1>1 DEF BehindReturn
<1>4. i # 1
  BY <1>3 DEF SplitShape
<1>5. TextSize \in Nat /\ FileSize \in Nat
  BY Sizes
<1>6. TextTo(splits[i].start) = o
  <2>1. splits[i].start # FileSize
    <3>1. TextTo(splits[i].start) # TextSize
      BY <1>2, <1>4, <1>5
    <3> QED
      BY <3>1 DEF TextTo
  <2> QED
    BY <1>3, <2>1 DEF TextTo
<1>7. CASE j >= i
  <2>1. j # 1 /\ TextTo(splits[j].start) < o
    BY <1>1, <1>4, <1>7 DEF Owns
  <2>2. j # i
    BY <1>2, <1>6, <2>1
  <2>3. i < j
    BY <1>1, <1>7, <2>2
  <2>4. TextTo(splits[i].end) <= TextTo(splits[j].start) /\ o < TextTo(splits[i].end)
    BY <1>1, <1>2, <1>4, <1>6, <2>3
  <2> QED
    BY <1>1, <1>2, <2>1, <2>4
<1>8. CASE j < i
  <2>1. TextTo(splits[j].end) <= o /\ TextTo(splits[j].end) \in 0 .. TextSize
    BY <1>1, <1>2, <1>6, <1>8
  <2>2. splits[j].end # FileSize
    BY <1>5, <2>1, TextToIs
  <2>3. SeenTo(o) <= TextTo(splits[j].end)
    BY <2>2 DEF Owns, Reaches
  <2>4. o - 1 \in returns /\ o - 1 \notin feeds /\ o # 0
    BY <1>5 DEF BehindReturn, FileShape
  <2>5. SeenTo(o) = o + 1
    BY <2>4 DEF SeenTo, Looked
  <2> QED
    BY <2>1, <2>3, <2>5
<1> QED
  BY <1>1, <1>7, <1>8

-----------------------------------------------------------------------------
(* The tasks *)

Task == [offset : 0 .. TextSize, filePos : 0 .. FileSize, pos : 0 .. FileSize,
         end : Nat, done : BOOLEAN]

(* A task is behind the line it skips, at the beginning of a line.  It     *)
(* knows where it is: pos passes the end of the split with the first line  *)
(* that is not its own.                                                    *)
TaskOK(t, i) ==
    /\ t.end = splits[i].end
    /\ t.offset # TextSize =>
            /\ t.offset \in LineStarts
            /\ ReadTo(t.pos, SeenTo(t.offset)) /\ ReadTo(t.filePos, SeenTo(t.offset))
    /\ i # 1 => TextTo(splits[i].start) < t.offset
    /\ t.done => t.offset = TextSize \/ ~Reaches(i, t.offset)

TasksOK ==
    /\ tasks \in [1 .. Len(splits) -> Task]
    /\ \A i \in 1 .. Len(splits) : TaskOK(tasks[i], i)

Passed(o) == \E i \in 1 .. Len(splits) : Owns(i, o) /\ o < tasks[i].offset

(* A line has been returned if the task that owns it has passed it.        *)
Returned ==
    /\ lines \in [0 .. TextSize - 1 -> {0, 1}]
    /\ \A o \in 0 .. TextSize - 1 : lines[o] = 1 <=> o \in LineStarts /\ Passed(o)

JobInv ==
    /\ FileShape
    /\ Returned
    /\ splits = Unread => tasks = Unread
    /\ splits # Unread => SplitShape /\ TasksOK

LEMMA SameFile ==
    ASSUME lens' = lens, feeds' = feeds, returns' = returns
    PROVE  /\ TextSize' = TextSize /\ FileSize' = FileSize /\ LineStarts' = LineStarts
           /\ Bounds' = Bounds /\ Task' = Task /\ FileShape' = FileShape
           /\ \A p : TextTo(p)' = TextTo(p)
           /\ \A x, o : ReadTo(x, o)' <=> ReadTo(x, o)
           /\ \A o : SeenTo(o)' = SeenTo(o)
<1>1. TextSize' = TextSize /\ FileSize' = FileSize
  BY DEF TextSize, FileSize, BlockStart
<1>2. LineStarts' = LineStarts
  BY <1>1 DEF LineStarts, EndsLine
<1>3. \A k : BlockStart(k)' = BlockStart(k) /\ TextBefore(k)' = TextBefore(k)
  BY DEF BlockStart, TextBefore
<1>4. Bounds' = Bounds
  BY <1>1, <1>3 DEF Bounds
<1>5. Task' = Task
  BY <1>1 DEF Task
<1>6. FileShape' = FileShape
  BY <1>1 DEF FileShape
<1>7. \A p : TextTo(p)' = TextTo(p)
  <2>1. \A p : BlockFrom(p)' = BlockFrom(p)
    BY DEF BlockFrom, BlockStart
  <2> QED
    BY <1>1, <2>1 DEF TextTo, TextBefore
<1>8. \A x, o : ReadTo(x, o)' <=> ReadTo(x, o)
  BY <1>1, <1>3 DEF ReadTo
<1>9. \A o : SeenTo(o)' = SeenTo(o)
  BY DEF SeenTo, Looked
<1> QED
  BY <1>1, <1>2, <1>4, <1>5, <1>6, <1>7, <1>8, <1>9

LEMMA FilePosInFile ==
    ASSUME FileShape, NEW o \in 0 .. TextSize - 1, NEW x \in 0 .. FileSize
    PROVE  FilePos(o, x) \in 0 .. FileSize
<1>1. TextSize \in Nat /\ FileSize \in Nat
  BY Sizes
<1>2. PICK q : q = Looked(LineEnd(o))
  OBVIOUS
<1>3. CASE q > TextSize
  BY <1>1, <1>2, <1>3 DEF FilePos
<1>4. CASE ~(q > TextSize)
  <2>1. q \in o + 1 .. TextSize
    <3>1. LineEnd(o) \in o + 1 .. TextSize
      BY LineEndIs
    <3>2. q \in {LineEnd(o), LineEnd(o) + 1}
      BY <1>2 DEF Looked
    <3> QED
      BY <1>1, <1>4, <3>1, <3>2
  <2>2. PICK b : b = BlockOf(q - 1) + 1
    OBVIOUS
  <2>3. b \in 1 .. Len(lens) + 1
    <3>1. q - 1 \in 0 .. TextSize - 1
      BY <1>1, <2>1
    <3>2. BlockOf(q - 1) \in 1 .. Len(lens) /\ Len(lens) \in Nat
      BY <3>1, BlockOfIs, Sizes
    <3> QED
      BY <2>2, <3>2
  <2>4. BlockStart(b) \in Nat /\ BlockStart(b) < FileSize
    BY <2>3, Positions
  <2>5. FilePos(o, x) \in {BlockStart(b), x}
    BY <1>2, <1>4, <2>2 DEF FilePos
  <2> QED
    BY <1>1, <2>4, <2>5
<1> QED
  BY <1>3, <1>4

(* What a task is when its reader is opened. *)
LEMMA FirstOpened ==
    ASSUME FileShape, NEW s \in Slice, s.start = 0
    PROVE  /\ Opened(s) \in Task /\ Opened(s).end = s.end /\ Opened(s).offset = 0
           /\ ~Opened(s).done
           /\ 0 # TextSize => 0 \in LineStarts /\ ReadTo(Opened(s).pos, SeenTo(0))
                              /\ ReadTo(Opened(s).filePos, SeenTo(0))
<1>1. PICK t : t = Opened(s)
  OBVIOUS
<1>2. t = [offset |-> 0, filePos |-> HeaderLen, pos |-> 0, end |-> s.end, done |-> FALSE]
  BY <1>1 DEF Opened
<1>3. PICK n \in Nat : n = Len(lens)
  BY Sizes
<1>4. HeaderLen = BlockStart(1)
  <2>1. (1 - 1) * BlockLen = 0 /\ HeaderLen \in Nat
    BY JobAssumption
  <2> QED
    BY <2>1 DEF BlockStart
<1>5. 1 \in 1 .. n + 1
  OBVIOUS
<1>6. /\ FileSize \in Nat /\ TextSize \in Nat /\ HeaderLen \in 0 .. FileSize
      /\ \A e \in 1 .. n + 1 : HeaderLen <= BlockStart(e) /\ 0 <= BlockStart(e)
  <2>1. /\ FileSize \in Nat
        /\ \A e \in 1 .. n + 1 : BlockStart(e) \in Nat /\ BlockStart(e) < FileSize
        /\ \A j, e \in 1 .. n + 1 : j < e => BlockStart(j) < BlockStart(e)
    BY <1>3, Positions
  <2>2. ASSUME NEW e \in 1 .. n + 1 PROVE BlockStart(1) <= BlockStart(e)
    <3>1. 1 < e \/ e = 1
      OBVIOUS
    <3> QED
      BY <1>5, <2>1, <3>1
  <2> QED
    BY <1>4, <1>5, <2>1, <2>2, Sizes
<1>7. \A e \in 1 .. n + 1 : 0 <= TextBefore(e)
  <2>1. \A e \in 1 .. n + 1 : TextBefore(e) \in Nat
    BY <1>3, Texts
  <2> QED
    BY <2>1
<1>8. ReadTo(0, SeenTo(0)) /\ ReadTo(HeaderLen, SeenTo(0))
  BY <1>3, <1>6, <1>7 DEF ReadTo, SeenTo
<1>9. 0 # TextSize => 0 \in LineStarts
  BY <1>6 DEF LineStarts
<1>10. t \in Task
  BY <1>2, <1>6 DEF Task, Slice
<1> QED
  BY <1>1, <1>2, <1>8, <1>9, <1>10

LEMMA LaterOpened ==
    ASSUME FileShape, NEW s \in Slice, NEW k \in 1 .. Len(lens), s.start = BlockStart(k)
    PROVE  /\ Opened(s) \in Task /\ Opened(s).end = s.end
           /\ TextTo(s.start) \in 0 .. TextSize - 1
           /\ Opened(s).offset = LineEnd(TextTo(s.start))
           /\ ~Opened(s).done
           /\ Opened(s).offset # TextSize =>
                /\ ReadTo(Opened(s).pos, SeenTo(Opened(s).offset))
                /\ ReadTo(Opened(s).filePos, SeenTo(Opened(s).offset))
<1>1. PICK n \in Nat : n = Len(lens)
  BY Sizes
<1>2. PICK o, x : o = TextTo(s.start) /\ x = s.start
  OBVIOUS
<1>3. /\ \A e \in 1 .. n + 1 : BlockStart(e) \in Nat \ {0} /\ BlockStart(e) < FileSize
      /\ \A j, e \in 1 .. n + 1 : j < e => BlockStart(j) < BlockStart(e)
      /\ FileSize \in Nat
  BY <1>1, Positions
<1>4. /\ \A e \in 1 .. n + 1 : TextBefore(e) \in Nat
      /\ TextBefore(n + 1) = TextSize
      /\ \A j, e \in 1 .. n + 1 : j < e => TextBefore(j) < TextBefore(e)
  BY <1>1, Texts
<1>5. k \in 1 .. n + 1 /\ n + 1 \in 1 .. n + 1 /\ k < n + 1
  BY <1>1
<1>6. o = TextBefore(k)
  BY <1>2, TextToIs
<1>7. o \in 0 .. TextSize - 1
  BY <1>4, <1>5, <1>6
<1>8. x # 0 /\ x # FileSize /\ x \in 0 .. FileSize
  BY <1>2, <1>3, <1>5
<1>9. o = TextBefore(BlockFrom(s.start))
  BY <1>2, <1>8 DEF TextTo
<1>10. ReadTo(x, o)
  <2>1. \A e \in 1 .. n + 1 : x <= BlockStart(e) <=> o <= TextBefore(e)
    <3>1. TAKE e \in 1 .. n + 1
    <3>2. k < e \/ k = e \/ e < k
      BY <1>5
    <3> QED
      BY <1>2, <1>3, <1>4, <1>5, <1>6, <3>2
  <2> QED
    BY <1>1, <1>8, <2>1 DEF ReadTo
<1>11. PICK y : y = FilePos(o, x)
  OBVIOUS
<1>12. Opened(s) = [offset |-> LineEnd(o), filePos |-> y, pos |-> y,
                    end |-> s.end, done |-> FALSE]
  BY <1>2, <1>8, <1>9, <1>11 DEF Opened, AfterLine
<1>13. LineEnd(o) \in 0 .. TextSize
  <2>1. LineEnd(o) \in o + 1 .. TextSize /\ TextSize \in Nat
    BY <1>7, LineEndIs, Sizes
  <2> QED
    BY <1>7, <2>1
<1>14. y \in 0 .. FileSize
  BY <1>7, <1>8, <1>11, FilePosInFile
<1>15. LineEnd(o) # TextSize => ReadTo(y, SeenTo(LineEnd(o)))
  <2>1. o \in 0 .. o + 1
    BY <1>7
  <2> QED
    BY <1>7, <1>10, <1>11, <2>1, FilePosIs
<1>16. Opened(s) \in Task
  BY <1>12, <1>13, <1>14 DEF Task, Slice
<1> QED
  BY <1>2, <1>7, <1>12, <1>15, <1>16

LEMMA InitJob == Init => JobInv
<1> SUFFICES ASSUME Init PROVE JobInv
  OBVIOUS
<1>1. FileShape
  <2>1. PICK m \in 0 .. MaxBlocks : lens \in [1 .. m -> TextLens]
    BY DEF Init, SeqOf
  <2>2. m \in Nat /\ lens \in [1 .. m -> Nat \ {0}]
    <3>1. m \in Nat
      BY JobAssumption
    <3>2. TextLens \subseteq Nat \ {0}
      BY JobAssumption
    <3> QED
      BY <2>1, <3>1, <3>2
  <2>3. lens \in Seq(Nat \ {0})
    BY <2>2
  <2> QED
    BY <2>3 DEF FileShape, Init
<1>2. splits = Unread /\ tasks = Unread /\ Len(splits) = 0
  BY DEF Init, Unread
<1>3. Returned
  <2>1. \A o \in 0 .. TextSize - 1 : ~Passed(o)
    BY <1>2 DEF Passed
  <2> QED
    BY <2>1 DEF Returned, Init
<1> QED
  BY <1>1, <1>2, <1>3 DEF JobInv

(* The readers are opened behind lines that are not their own. *)
LEMMA SplitJob == ASSUME IndexFits, JobInv, Split PROVE JobInv'
<1>1. lens' = lens /\ feeds' = feeds /\ returns' = returns /\ lines' = lines /\ splits = Unread
  BY DEF Split
<1>2. FileShape /\ Returned
  BY DEF JobInv
<1>3. PICK s, ts : s = splits' /\ ts = tasks'
  OBVIOUS
<1>4. ts = [i \in DOMAIN s |-> Opened(s[i])]
  BY <1>3 DEF Split
<1>5. TileTo(s, FileSize, BlockStarts)
  BY <1>3, SplitTiles
<1>6. PICK n \in Nat \ {0} : n = Len(s)
  BY <1>5 DEF TileTo
<1>7. /\ s \in Seq(Slice) /\ DOMAIN s = 1 .. n /\ s[1].start = 0 /\ s[n].end = FileSize
      /\ \A i \in 1 .. n : s[i] \in Slice /\ s[i].start < s[i].end
      /\ \A i \in 1 .. n - 1 : s[i].end = s[i + 1].start /\ s[i].end \in BlockStarts
  BY <1>5, <1>6 DEF TileTo
<1>8. BlockStarts \subseteq Bounds
  BY Sizes, <1>2 DEF BlockStarts, Bounds
<1>9. SplitShape'
  <2>1. \A i \in 1 .. n : s[i].end \in Bounds
    <3>1. \A i \in 1 .. n : i = n \/ i \in 1 .. n - 1
      OBVIOUS
    <3>2. FileSize \in Bounds
      BY DEF Bounds
    <3> QED
      BY <1>7, <1>8, <3>1, <3>2
  <2>2. Bounds' = Bounds /\ FileSize' = FileSize
    BY <1>1, SameFile
  <2>3. n # 0
    OBVIOUS
  <2> QED
    BY <1>3, <1>6, <1>7, <2>1, <2>2, <2>3 DEF SplitShape
<1>10. ASSUME NEW i \in 1 .. n, i # 1
       PROVE  \E k \in 1 .. Len(lens) : s[i].start = BlockStart(k)
  <2>1. i - 1 \in 1 .. n - 1 /\ (i - 1) + 1 = i
    BY <1>10
  <2>2. s[i].start \in BlockStarts
    BY <1>7, <2>1
  <2> QED
    BY <1>2, <2>2, Sizes DEF BlockStarts
<1>11. ASSUME NEW i \in 1 .. n
       PROVE  /\ ts[i] \in Task /\ ts[i].end = s[i].end /\ ~ts[i].done
              /\ i = 1 => ts[i].offset = 0
              /\ i # 1 => /\ TextTo(s[i].start) \in 0 .. TextSize - 1
                          /\ ts[i].offset = LineEnd(TextTo(s[i].start))
              /\ ts[i].offset # TextSize =>
                    /\ ts[i].offset \in LineStarts
                    /\ ReadTo(ts[i].pos, SeenTo(ts[i].offset)) /\ ReadTo(ts[i].filePos, SeenTo(ts[i].offset))
  <2>1. PICK slice \in Slice : slice = s[i] /\ ts[i] = Opened(slice)
    BY <1>4, <1>7
  <2>2. CASE i = 1
    <3>1. slice.start = 0
      BY <1>7, <2>1, <2>2
    <3> QED
      BY <1>2, <2>1, <2>2, <3>1, FirstOpened
  <2>3. CASE i # 1
    <3>1. PICK k \in 1 .. Len(lens) : slice.start = BlockStart(k)
      BY <1>10, <2>1, <2>3
    <3>2. /\ ts[i] \in Task /\ ts[i].end = slice.end /\ ~ts[i].done
          /\ TextTo(slice.start) \in 0 .. TextSize - 1
          /\ ts[i].offset = LineEnd(TextTo(slice.start))
          /\ ts[i].offset # TextSize =>
                /\ ReadTo(ts[i].pos, SeenTo(ts[i].offset))
                /\ ReadTo(ts[i].filePos, SeenTo(ts[i].offset))
      BY <1>2, <2>1, <3>1, LaterOpened
    <3>3. ts[i].offset # TextSize => ts[i].offset \in LineStarts
      BY <1>2, <3>2, LineEndIs
    <3> QED
      BY <2>1, <2>3, <3>2, <3>3
  <2> QED
    BY <2>2, <2>3
<1>12. ASSUME NEW i \in 1 .. n, i # 1
       PROVE  /\ TextTo(s[i].start) < ts[i].offset
              /\ \A o \in LineStarts : o <= TextTo(s[i].start) \/ ts[i].offset <= o
  <2>1. PICK o : o = TextTo(s[i].start)
    OBVIOUS
  <2>2. o \in 0 .. TextSize - 1 /\ ts[i].offset = LineEnd(o)
    BY <1>11, <1>12, <2>1
  <2>3. LineEnd(o) \in o + 1 .. TextSize /\ \A l \in LineStarts : l <= o \/ LineEnd(o) <= l
    BY <1>2, <2>2, LineEndIs
  <2> QED
    BY <2>1, <2>2, <2>3
<1>13. TasksOK'
  <2>1. Task' = Task /\ LineStarts' = LineStarts /\ TextSize' = TextSize
        /\ (\A p : TextTo(p)' = TextTo(p)) /\ (\A x, o : ReadTo(x, o)' <=> ReadTo(x, o))
        /\ \A o : SeenTo(o)' = SeenTo(o)
    BY <1>1, SameFile
  <2>2. ts \in [1 .. n -> Task]
    BY <1>4, <1>7, <1>11
  <2>3. ASSUME NEW i \in 1 .. n PROVE TaskOK(tasks[i], i)'
    <3>1. (tasks[i])' = ts[i] /\ (splits[i])' = s[i]
      BY <1>3
    <3>2. /\ ts[i].end = s[i].end /\ ~ts[i].done
          /\ ts[i].offset # TextSize =>
                /\ ts[i].offset \in LineStarts
                /\ ReadTo(ts[i].pos, SeenTo(ts[i].offset)) /\ ReadTo(ts[i].filePos, SeenTo(ts[i].offset))
          /\ i # 1 => TextTo(s[i].start) < ts[i].offset
      BY <1>11, <1>12
    <3> QED
      BY <2>1, <3>1, <3>2 DEF TaskOK
  <2> QED
    BY <1>3, <1>6, <2>1, <2>2, <2>3 DEF TasksOK
<1>14. Returned'
  <2>1. TextSize' = TextSize /\ LineStarts' = LineStarts /\ \A p : TextTo(p)' = TextTo(p)
    BY <1>1, SameFile
  <2>2. \A o \in 0 .. TextSize - 1 : lines[o] # 1
    <3>1. Len(splits) = 0
      BY <1>1 DEF Unread
    <3>2. \A o \in 0 .. TextSize - 1 : ~Passed(o)
      BY <3>1 DEF Passed
    <3> QED
      BY <1>2, <3>2 DEF Returned
  <2>3. ASSUME NEW o \in LineStarts, Passed(o)' PROVE FALSE
    <3>1. PICK i \in 1 .. n : Owns(i, o)' /\ o < ts[i].offset
      BY <1>3, <1>6, <2>3 DEF Passed
    <3>2. i = 1 \/ TextTo(s[i].start) < o
      BY <1>3, <2>1, <3>1 DEF Owns
    <3>3. o \in 0 .. TextSize - 1
      BY DEF LineStarts
    <3>4. CASE i = 1
      BY <1>11, <3>1, <3>3, <3>4
    <3>5. CASE i # 1
      <4>1. o <= TextTo(s[i].start) \/ ts[i].offset <= o
        BY <1>12, <3>5
      <4>2. TextTo(s[i].start) \in Int /\ ts[i].offset \in Int
        BY <1>11, <3>5 DEF Task
      <4> QED
        BY <3>1, <3>2, <3>3, <3>5, <4>1, <4>2
    <3> QED
      BY <3>4, <3>5
  <2> QED
    BY <1>1, <1>2, <2>1, <2>2, <2>3 DEF Returned
<1>15. splits' # Unread
  BY <1>3, <1>6 DEF Unread
<1>16. FileShape'
  BY <1>1, <1>2, SameFile
<1> QED
  BY <1>9, <1>13, <1>14, <1>15, <1>16 DEF JobInv

(* At the position of a task one can tell whether the next line is its.    *)
LEMMA OwnLine ==
    ASSUME JobInv, splits # Unread, NEW i \in 1 .. Len(splits), tasks[i].offset # TextSize
    PROVE  More(tasks[i]) <=> Reaches(i, tasks[i].offset)
<1>1. PICK t : t = tasks[i]
  OBVIOUS
<1>2. t \in Task /\ TaskOK(t, i) /\ FileShape /\ SplitShape
  BY <1>1 DEF JobInv, TasksOK
<1>3. t.end = splits[i].end /\ t.end \in Bounds /\ ReadTo(t.pos, SeenTo(t.offset))
  BY <1>1, <1>2 DEF TaskOK, SplitShape
<1>4. More(t) <=> t.pos <= t.end
  BY DEF More
<1>5. CASE t.end = FileSize
  <2>1. t.pos <= FileSize
    BY <1>2, Sizes DEF Task
  <2> QED
    BY <1>1, <1>3, <1>4, <1>5, <2>1 DEF Reaches
<1>6. CASE t.end # FileSize
  <2>1. PICK k \in 1 .. Len(lens) : t.end = BlockStart(k)
    BY <1>3, <1>6 DEF Bounds
  <2>2. TextTo(t.end) = TextBefore(k)
    BY <1>2, <2>1, TextToIs
  <2>3. k \in 1 .. Len(lens) + 1
    BY <1>2, Sizes
  <2>4. t.pos <= BlockStart(k) <=> SeenTo(t.offset) <= TextBefore(k)
    BY <1>3, <2>3 DEF ReadTo
  <2> QED
    BY <1>1, <1>3, <1>4, <1>6, <2>1, <2>2, <2>4 DEF Reaches
<1> QED
  BY <1>5, <1>6

LEMMA LineJob ==
    ASSUME JobInv, NEW i \in DOMAIN tasks, NextLine(i)
    PROVE  JobInv'
<1>1. splits # Unread /\ FileShape /\ Returned /\ SplitShape /\ TasksOK
  <2>1. splits # Unread
    BY DEF JobInv, Unread
  <2> QED
    BY <2>1 DEF JobInv
<1>2. PICK n \in Nat \ {0} : n = Len(splits)
  BY <1>1 DEF SplitShape
<1>3. tasks \in [1 .. n -> Task] /\ i \in 1 .. n /\ \A j \in 1 .. n : TaskOK(tasks[j], j)
  BY <1>1, <1>2 DEF TasksOK
<1>4. PICK t, o, y : t = tasks[i] /\ o = t.offset /\ y = FilePos(o, t.filePos)
  OBVIOUS
<1>5. t \in Task /\ TaskOK(t, i)
  BY <1>3, <1>4
<1>6. /\ ~t.done /\ More(t) /\ o < TextSize
      /\ lens' = lens /\ feeds' = feeds /\ returns' = returns /\ splits' = splits
      /\ lines' = [lines EXCEPT ![o] = @ + 1]
  BY <1>4 DEF NextLine
<1>7. tasks' = [tasks EXCEPT ![i].offset = LineEnd(@), ![i].filePos = y, ![i].pos = y]
  BY <1>4 DEF NextLine, AfterLine
<1>8. TextSize \in Nat /\ o \in 0 .. TextSize - 1 /\ o # TextSize
  BY <1>1, <1>4, <1>5, <1>6, Sizes DEF Task
<1>9. PICK next : next = LineEnd(o)
  OBVIOUS
<1>10. PICK ts : ts = tasks'
  OBVIOUS
<1>11. /\ DOMAIN ts = 1 .. n
       /\ ts[i] = [offset |-> next, filePos |-> y, pos |-> y, end |-> t.end, done |-> FALSE]
       /\ \A j \in 1 .. n : j # i => ts[j] = tasks[j]
  <2>1. PICK f, p, e : f = t.filePos /\ p = t.pos /\ e = t.end
    OBVIOUS
  <2>2. t = [offset |-> o, filePos |-> f, pos |-> p, end |-> e, done |-> FALSE]
    BY <1>4, <1>5, <1>6, <2>1 DEF Task
  <2>3. DOMAIN ts = 1 .. n /\ \A j \in 1 .. n : j # i => ts[j] = tasks[j]
    BY <1>3, <1>7, <1>10
  <2>4. ts[i] = [t EXCEPT !.offset = next, !.filePos = y, !.pos = y]
    <3>1. tasks[i].offset = o
      BY <1>4
    <3>2. ts[i] = [tasks[i] EXCEPT !.offset = LineEnd(tasks[i].offset), !.filePos = y, !.pos = y]
      BY <1>3, <1>7, <1>10
    <3> QED
      BY <1>4, <1>9, <3>1, <3>2
  <2>5. ts[i] = [offset |-> next, filePos |-> y, pos |-> y, end |-> e, done |-> FALSE]
    BY <2>2, <2>4
  <2> QED
    BY <2>1, <2>3, <2>5
<1>12. next \in o + 1 .. TextSize /\ next \in 0 .. TextSize
       /\ (next # TextSize => next \in LineStarts)
       /\ \A l \in LineStarts : l <= o \/ next <= l
  BY <1>1, <1>8, <1>9, LineEndIs
<1>13. o \in LineStarts /\ ReadTo(t.filePos, SeenTo(o))
  BY <1>4, <1>5, <1>8 DEF TaskOK
<1>14. y \in 0 .. FileSize /\ (next # TextSize => ReadTo(y, SeenTo(next)))
  <2>1. t.filePos \in 0 .. FileSize
    BY <1>5 DEF Task
  <2>2. SeenTo(o) \in 0 .. o + 1
    BY <1>8 DEF SeenTo, Looked
  <2> QED
    BY <1>1, <1>4, <1>8, <1>9, <1>13, <2>1, <2>2, FilePosInFile, FilePosIs
<1>15. Owns(i, o)
  <2>1. Reaches(i, o)
    BY <1>1, <1>2, <1>3, <1>4, <1>6, <1>8, OwnLine
  <2>2. i # 1 => TextTo(splits[i].start) < o
    BY <1>4, <1>5 DEF TaskOK
  <2> QED
    BY <2>1, <2>2 DEF Owns
<1>16. /\ TextSize' = TextSize /\ LineStarts' = LineStarts /\ Bounds' = Bounds /\ Task' = Task
       /\ FileSize' = FileSize /\ FileShape'
       /\ \A p : TextTo(p)' = TextTo(p)
       /\ \A x, l : ReadTo(x, l)' <=> ReadTo(x, l)
       /\ \A l : SeenTo(l)' = SeenTo(l)
  BY <1>1, <1>6, SameFile
<1>17. SplitShape' /\ splits' # Unread
  BY <1>1, <1>6, <1>16 DEF SplitShape
<1>18. TasksOK'
  <2>1. ts \in [1 .. n -> Task]
    <3>1. ts[i] \in Task
      BY <1>5, <1>11, <1>12, <1>14 DEF Task
    <3>2. \A j \in 1 .. n : ts[j] \in Task
      BY <1>3, <1>11, <3>1
    <3>3. ts = [j \in 1 .. n |-> ts[j]]
      <4>1. ts = [j \in DOMAIN ts |-> ts[j]]
        BY <1>3, <1>7, <1>10
      <4> QED
        BY <1>11, <4>1
    <3> QED
      BY <3>2, <3>3
  <2>2. ASSUME NEW j \in 1 .. n PROVE TaskOK(tasks[j], j)'
    <3>1. (tasks[j])' = ts[j] /\ (splits[j])' = splits[j]
      BY <1>6, <1>10
    <3>2. CASE j = i
      <4>1. /\ ts[j].end = splits[j].end /\ ~ts[j].done /\ ts[j].offset = next
            /\ ts[j].pos = y /\ ts[j].filePos = y
        BY <1>5, <1>11, <3>2 DEF TaskOK
      <4>2. j # 1 => TextTo(splits[j].start) < next
        <5>1. ASSUME j # 1 PROVE TextTo(splits[j].start) < next
          <6>1. TextTo(splits[j].start) < o
            BY <1>15, <3>2, <5>1 DEF Owns
          <6>2. TextTo(splits[j].start) \in Int
            BY <1>1, <1>2, <5>1, SplitBounds, TextToIs
          <6> QED
            BY <1>8, <1>12, <6>1, <6>2
        <5> QED
          BY <5>1
      <4> QED
        BY <1>12, <1>14, <1>16, <3>1, <4>1, <4>2 DEF TaskOK
    <3>3. CASE j # i
      <4>1. ts[j] = tasks[j] /\ TaskOK(tasks[j], j)
        BY <1>3, <1>11, <3>3
      <4>2. \A l : Reaches(j, l)' <=> Reaches(j, l)
        BY <1>6, <1>16 DEF Reaches
      <4> QED
        BY <1>16, <3>1, <4>1, <4>2 DEF TaskOK
    <3> QED
      BY <3>2, <3>3
  <2> QED
    BY <1>2, <1>6, <1>10, <1>16, <2>1, <2>2 DEF TasksOK
<1>19. ASSUME NEW l \in 0 .. TextSize - 1, NEW j \in 1 .. n
       PROVE  /\ Owns(j, l)' <=> Owns(j, l)
  BY <1>6, <1>16 DEF Owns, Reaches
<1>20. Returned'
  <2>1. /\ lines \in [0 .. TextSize - 1 -> {0, 1}]
        /\ \A l \in 0 .. TextSize - 1 : lines[l] = 1 <=> l \in LineStarts /\ Passed(l)
    BY <1>1 DEF Returned
  <2>2. ~Passed(o)
    <3>1. ASSUME NEW j \in 1 .. n, Owns(j, o), o < tasks[j].offset PROVE FALSE
      <4>1. j = i
        BY <1>1, <1>2, <1>3, <1>8, <1>15, <3>1, OneOwner
      <4> QED
        BY <1>4, <1>8, <3>1, <4>1
    <3> QED
      BY <1>2, <3>1 DEF Passed
  <2>3. lines[o] = 0
    BY <1>8, <2>1, <2>2
  <2>4. /\ lines' \in [0 .. TextSize - 1 -> {0, 1}]
        /\ lines'[o] = 1
        /\ \A l \in 0 .. TextSize - 1 : l # o => lines'[l] = lines[l]
    BY <1>6, <1>8, <2>1, <2>3
  <2>5. ASSUME NEW l \in LineStarts, l # o PROVE Passed(l)' <=> Passed(l)
    <3>1. l \in 0 .. TextSize - 1
      BY DEF LineStarts
    <3>2. \A j \in 1 .. n : l < ts[j].offset <=> l < tasks[j].offset
      <4>1. TAKE j \in 1 .. n
      <4>2. CASE j # i
        BY <1>11, <4>2
      <4>3. CASE j = i
        <5>1. ts[j].offset = next /\ tasks[j].offset = o
          BY <1>4, <1>11, <4>3
        <5>2. l <= o \/ next <= l
          BY <1>12
        <5> QED
          BY <1>8, <1>12, <2>5, <3>1, <5>1, <5>2
      <4> QED
        BY <4>2, <4>3
    <3> QED
      BY <1>2, <1>6, <1>10, <1>19, <3>1, <3>2 DEF Passed
  <2>6. Passed(o)'
    <3>1. Owns(i, o)' /\ o < ts[i].offset
      BY <1>3, <1>8, <1>11, <1>12, <1>15, <1>19
    <3> QED
      BY <1>2, <1>3, <1>6, <1>10, <3>1 DEF Passed
  <2> QED
    BY <1>13, <1>16, <2>1, <2>4, <2>5, <2>6 DEF Returned
<1> QED
  BY <1>16, <1>17, <1>18, <1>20 DEF JobInv

LEMMA EndJob ==
    ASSUME JobInv, NEW i \in DOMAIN tasks, EndOfSplit(i)
    PROVE  JobInv'
<1>1. splits # Unread /\ FileShape /\ Returned /\ SplitShape /\ TasksOK
  <2>1. splits # Unread
    BY DEF JobInv, Unread
  <2> QED
    BY <2>1 DEF JobInv
<1>2. PICK n \in Nat \ {0} : n = Len(splits)
  BY <1>1 DEF SplitShape
<1>3. tasks \in [1 .. n -> Task] /\ i \in 1 .. n /\ \A j \in 1 .. n : TaskOK(tasks[j], j)
  BY <1>1, <1>2 DEF TasksOK
<1>4. PICK t, ts : t = tasks[i] /\ ts = tasks'
  OBVIOUS
<1>5. t \in Task /\ TaskOK(t, i)
  BY <1>3, <1>4
<1>6. /\ ~More(t) \/ t.offset >= TextSize
      /\ lens' = lens /\ feeds' = feeds /\ returns' = returns
      /\ splits' = splits /\ lines' = lines
      /\ ts = [tasks EXCEPT ![i].done = TRUE]
  BY <1>4 DEF EndOfSplit
<1>7. /\ ts \in [1 .. n -> Task]
      /\ ts[i] = [t EXCEPT !.done = TRUE]
      /\ \A j \in 1 .. n : j # i => ts[j] = tasks[j]
  <2>1. [t EXCEPT !.done = TRUE] \in Task
    BY <1>5 DEF Task
  <2> QED
    BY <1>3, <1>4, <1>6, <2>1
<1>8. t.offset = TextSize \/ ~Reaches(i, t.offset)
  <2>1. SUFFICES ASSUME t.offset # TextSize PROVE ~Reaches(i, t.offset)
    OBVIOUS
  <2>2. t.offset \in 0 .. TextSize /\ TextSize \in Nat
    BY <1>1, <1>5, Sizes DEF Task
  <2>3. ~More(t)
    BY <1>6, <2>1, <2>2
  <2> QED
    BY <1>1, <1>2, <1>3, <1>4, <2>1, <2>3, OwnLine
<1>9. /\ TextSize' = TextSize /\ LineStarts' = LineStarts /\ Bounds' = Bounds /\ Task' = Task
      /\ FileSize' = FileSize /\ FileShape'
      /\ \A p : TextTo(p)' = TextTo(p)
      /\ \A x, l : ReadTo(x, l)' <=> ReadTo(x, l)
      /\ \A l : SeenTo(l)' = SeenTo(l)
  BY <1>1, <1>6, SameFile
<1>10. SplitShape' /\ splits' # Unread
  BY <1>1, <1>6, <1>9 DEF SplitShape
<1>11. \A j \in 1 .. n : ts[j].offset = tasks[j].offset
  BY <1>4, <1>5, <1>7 DEF Task
<1>12. TasksOK'
  <2>1. ASSUME NEW j \in 1 .. n PROVE TaskOK(tasks[j], j)'
    <3>1. (tasks[j])' = ts[j] /\ (splits[j])' = splits[j]
      BY <1>4, <1>6
    <3>2. /\ ts[j].end = tasks[j].end /\ ts[j].offset = tasks[j].offset
          /\ ts[j].pos = tasks[j].pos /\ ts[j].filePos = tasks[j].filePos
          /\ ts[j].done => tasks[j].done \/ j = i
      BY <1>4, <1>5, <1>7 DEF Task
    <3>3. TaskOK(tasks[j], j)
      BY <1>3
    <3>4. \A l : Reaches(j, l)' <=> Reaches(j, l)
      BY <1>6, <1>9 DEF Reaches
    <3> QED
      BY <1>4, <1>8, <1>9, <3>1, <3>2, <3>3, <3>4 DEF TaskOK
  <2> QED
    BY <1>2, <1>4, <1>6, <1>7, <1>9, <2>1 DEF TasksOK
<1>13. Returned'
  <2>1. \A l : Passed(l)' <=> Passed(l)
    <3>1. \A l, j : Owns(j, l)' <=> Owns(j, l)
      BY <1>6, <1>9 DEF Owns, Reaches
    <3> QED
      BY <1>2, <1>4, <1>6, <1>11, <3>1 DEF Passed
  <2> QED
    BY <1>1, <1>6, <1>9, <2>1 DEF Returned
<1> QED
  BY <1>9, <1>10, <1>12, <1>13 DEF JobInv

LEMMA NextJob == IndexFits /\ JobInv /\ [Next]_vars => JobInv'
<1> SUFFICES ASSUME IndexFits, JobInv, [Next]_vars PROVE JobInv'
  OBVIOUS
<1>1. CASE Split
  BY <1>1, SplitJob
<1>2. CASE \E i \in DOMAIN tasks : NextLine(i) \/ EndOfSplit(i)
  BY <1>2, LineJob, EndJob
<1>3. CASE UNCHANGED vars
  <2>1. UNCHANGED <<lens, feeds, returns, splits, tasks, lines>>
    BY <1>3 DEF vars
  <2>2. /\ TextSize' = TextSize /\ LineStarts' = LineStarts /\ Bounds' = Bounds /\ Task' = Task
        /\ FileSize' = FileSize /\ FileShape' = FileShape
        /\ \A p : TextTo(p)' = TextTo(p)
        /\ \A x, l : ReadTo(x, l)' <=> ReadTo(x, l)
        /\ \A l : SeenTo(l)' = SeenTo(l)
    BY <2>1, SameFile
  <2>3. SplitShape' <=> SplitShape
    BY <2>1, <2>2 DEF SplitShape
  <2>4. TasksOK' <=> TasksOK
    BY <2>1, <2>2 DEF TasksOK, TaskOK, Reaches
  <2>5. Returned' <=> Returned
    <3>1. \A l, j : Owns(j, l)' <=> Owns(j, l)
      BY <2>1, <2>2 DEF Owns, Reaches
    <3>2. \A l : Passed(l)' <=> Passed(l)
      BY <2>1, <3>1 DEF Passed
    <3> QED
      BY <2>1, <2>2, <3>2 DEF Returned
  <2> QED
    BY <2>1, <2>2, <2>3, <2>4, <2>5 DEF JobInv
<1> QED
  BY <1>1, <1>2, <1>3 DEF Next, Step

(* Each line of the file is returned by one task and once, but for those   *)
(* behind a return, which none returns: wherever a job cuts the file,      *)
(* whatever part of the index it finds, and wherever a line begins and     *)
(* ends, at the border of two blocks or splits or across any number.       *)
THEOREM EachLineOnce == Spec => []LinesOnce
<1>1. ASSUME JobInv PROVE LinesOnce
  <2>1. FileShape /\ Returned
    BY <1>1 DEF JobInv
  <2>2. /\ DOMAIN lines = 0 .. TextSize - 1
        /\ \A o \in 0 .. TextSize - 1 : lines[o] \in {0, 1}
        /\ \A o \in 0 .. TextSize - 1 : lines[o] = 1 <=> o \in LineStarts /\ Passed(o)
    BY <2>1 DEF Returned
  <2>3. ASSUME Done, NEW o \in LineStarts, ~BehindReturn(o) PROVE Passed(o)
    <3>1. SplitShape /\ TasksOK /\ \A i \in DOMAIN tasks : tasks[i].done
      BY <1>1, <2>3 DEF JobInv, Done
    <3>2. o \in 0 .. TextSize - 1
      BY DEF LineStarts
    <3>3. PICK i \in 1 .. Len(splits) : Owns(i, o)
      BY <2>1, <2>3, <3>1, <3>2, OneOwner
    <3>4. PICK t : t = tasks[i]
      OBVIOUS
    <3>5. t \in Task /\ t.done /\ TaskOK(t, i)
      BY <3>1, <3>4 DEF TasksOK
    <3>6. t.offset = TextSize \/ ~Reaches(i, t.offset)
      BY <3>5 DEF TaskOK
    <3>7. Reaches(i, o)
      BY <3>3 DEF Owns
    <3>8. o < t.offset
      <4>1. CASE t.offset = TextSize
        BY <2>1, <3>2, <4>1, Sizes
      <4>2. CASE ~Reaches(i, t.offset)
        <5>1. t.offset # o
          BY <3>7, <4>2
        <5>2. ASSUME t.offset < o PROVE FALSE
          <6>1. SeenTo(t.offset) \in {0, t.offset, t.offset + 1} /\ SeenTo(o) \in {0, o, o + 1}
            BY DEF SeenTo, Looked
          <6>2. o # 0 /\ SeenTo(t.offset) <= SeenTo(o)
            <7>1. t.offset \in Nat /\ o \in Nat
              BY <3>2, <3>5, <2>1, Sizes DEF Task
            <7>2. o # 0 /\ SeenTo(o) \in {o, o + 1}
              BY <5>2, <7>1 DEF SeenTo, Looked
            <7> QED
              BY <5>2, <6>1, <7>1, <7>2
          <6>3. TextTo(splits[i].end) \in Int
            BY <2>1, <3>1, SplitBounds
          <6>4. SeenTo(t.offset) \in Int /\ SeenTo(o) \in Int
            BY <3>2, <3>5, <6>1 DEF Task
          <6> QED
            BY <3>7, <4>2, <6>2, <6>3, <6>4 DEF Reaches
        <5> QED
          BY <3>2, <3>5, <5>1, <5>2 DEF Task
      <4> QED
        BY <3>6, <4>1, <4>2
    <3> QED
      BY <3>3, <3>4, <3>8 DEF Passed
  <2>4. ASSUME NEW o \in LineStarts, Passed(o), BehindReturn(o) PROVE FALSE
    <3>1. PICK j \in 1 .. Len(splits) : Owns(j, o)
      BY <2>4 DEF Passed
    <3>2. SplitShape
      <4>1. splits # Unread
        BY <3>1 DEF Unread
      <4> QED
        BY <1>1, <4>1 DEF JobInv
    <3>3. o \in 0 .. TextSize - 1
      BY DEF LineStarts
    <3> QED
      BY <2>1, <2>4, <3>1, <3>2, <3>3, NoOwner
  <2> QED
    BY <2>2, <2>3, <2>4 DEF LinesOnce
<1>2. Init => IndexFits /\ JobInv
  BY InitFits, InitJob
<1>3. IndexFits /\ JobInv /\ [Next]_vars => (IndexFits /\ JobInv)'
  BY NextFits, NextJob
<1> QED
  BY <1>1, <1>2, <1>3, PTL DEF Spec

=============================================================================
