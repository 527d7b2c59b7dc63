----------------------------- MODULE LzoTextJob -----------------------------
(***************************************************************************)
(* A job that reads the lines of one lzop file: LzoTextInputFormat cuts    *)
(* the file into splits and aligns them to the blocks in the index, and a  *)
(* task per split reads lines with an LzoLineRecordReader.                 *)
(*                                                                         *)
(* The text is its length and where its line feeds and carriage returns    *)
(* are; a line is the offset at which it begins.  A task reads past the    *)
(* end of its split to finish its last line, and the next one skips what   *)
(* it takes to be that line: it knows where it is only by the position in  *)
(* the compressed file, which moves a block at a time.                     *)
(*                                                                         *)
(* Hadoop's LineReader (external) ends a line at a line feed, at a         *)
(* carriage return and line feed, or at a carriage return alone.  It must  *)
(* read the byte behind a carriage return to tell, and when that byte is   *)
(* in the next block, fileIn is behind that block by then.                 *)
(*                                                                         *)
(* The index may be missing, or list the first blocks only, as when a      *)
(* second indexer is still writing the file that the first has renamed.    *)
(***************************************************************************)
EXTENDS LzoIndex, LzoFrames

CONSTANTS
    HeaderLen,      \* bound: bytes of the header
    BlockLen,       \* bound: bytes of each block in the file
    TextLens,       \* bound: bytes of text in a block
    MaxBlocks,      \* bound: blocks of the file
    MaxCuts         \* bound: cuts of FileInputFormat

ASSUME JobAssumption ==
    /\ {HeaderLen, BlockLen} \subseteq Nat \ {0}
    /\ TextLens \subseteq Nat \ {0}
    /\ {MaxBlocks, MaxCuts} \subseteq Nat

VARIABLES
    lens,           \* the file: the text in each of its blocks
    feeds,          \* the offsets of the text that are line feeds
    returns,        \* and those that are carriage returns
    index,          \* what readIndex found
    splits,         \* of the job, once they are made
    tasks,          \* a record reader per split
    lines           \* how often each offset was returned as a line

vars == <<lens, feeds, returns, index, splits, tasks, lines>>

-----------------------------------------------------------------------------
(* The file: the text is the offsets from 0 on; the null word is one byte. *)

BlockStart(k) == HeaderLen + (k - 1) * BlockLen
Starts == [k \in DOMAIN lens |-> BlockStart(k)]
FileSize == BlockStart(Len(lens) + 1) + 1
TextBefore(k) == Total(lens, k - 1)
TextSize == Total(lens, Len(lens))

(* The block at a position, and the block an offset of the text is in. *)
BlockFrom(p) == CHOOSE k \in DOMAIN lens : BlockStart(k) = p
BlockOf(offset) == CHOOSE k \in DOMAIN lens : TextBefore(k) <= offset /\ offset < TextBefore(k + 1)

(* LineReader: a line ends in front of e. *)
EndsLine(e) == e - 1 \in feeds \/ (e - 1 \in returns /\ e \notin feeds)

LineStarts == {o \in 0 .. TextSize - 1 : o = 0 \/ EndsLine(o)}

(* The offset after the line that has this one. *)
LineEnd(offset) ==
    CHOOSE next \in offset + 1 .. TextSize :
        /\ next = TextSize \/ EndsLine(next)
        /\ \A e \in offset + 1 .. next - 1 : ~EndsLine(e)

(* How far the reader has looked when it has a line that ends at next: a   *)
(* line feed is the last byte it needs, of any other line it has seen the  *)
(* byte behind it, or the end.                                             *)
Looked(next) == IF next - 1 \in feeds THEN next ELSE next + 1

(* readLine from an offset on: how far it got, and where fileIn is then.   *)
(* The blocks were read up to the last byte it looked at, and, when it     *)
(* looked for more, the null word.                                         *)
AfterLine(offset) == LineEnd(offset)
FilePos(offset, filePos) ==
    LET looked == Looked(LineEnd(offset))
        behind == BlockStart(BlockOf(looked - 1) + 1)
    IN  IF looked > TextSize THEN FileSize
        ELSE IF behind > filePos THEN behind
        ELSE filePos

-----------------------------------------------------------------------------
Unread == << >>

Init ==
    /\ lens \in SeqOf(TextLens, MaxBlocks)
    /\ feeds \in SUBSET (0 .. TextSize - 1)
    /\ returns \in SUBSET ((0 .. TextSize - 1) \ feeds)
    /\ index = << >>
    /\ splits = Unread
    /\ tasks = Unread
    /\ lines = [o \in 0 .. TextSize - 1 |-> 0]

(* FileInputFormat.getSplits (external): cuts anywhere if isSplitable. *)
CutLists ==
    IF isEmpty(index') THEN {<< >>}
    ELSE {cuts \in SeqOf(1 .. FileSize - 1, MaxCuts) :
            \A i, j \in 1 .. Len(cuts) : i < j => cuts[i] < cuts[j]}

FileSplits(cuts) ==
    LET at == <<0>> \o cuts \o <<FileSize>> IN
    [i \in 1 .. Len(cuts) + 1 |-> [start |-> at[i], end |-> at[i + 1]]]

Align(slice, in) ==
    [start |-> alignSliceStartToIndex(in, slice.start, slice.end),
     end |-> alignSliceEndToIndex(in, slice.end, FileSize)]

(* getSplits of LzoTextInputFormat: a slice in which no block begins goes. *)
Aligned(slices, in) ==
    LET result[i \in 0 .. Len(slices)] ==
            IF i = 0 THEN << >>
            ELSE LET slice == Align(slices[i], in) IN
                 IF slice.start # NOT_FOUND /\ slice.end # NOT_FOUND
                 THEN Append(result[i - 1], slice)
                 ELSE result[i - 1]
    IN  IF isEmpty(in) THEN slices ELSE result[Len(slices)]

(* initialize(): all but the first split skip a line. *)
Opened(split) ==
    LET offset == TextBefore(BlockFrom(split.start))
        filePos == FilePos(offset, split.start)
    IN  IF split.start = 0
        THEN [offset |-> 0, filePos |-> HeaderLen, pos |-> 0, end |-> split.end, done |-> FALSE]
        ELSE [offset |-> AfterLine(offset), filePos |-> filePos, pos |-> filePos,
              end |-> split.end, done |-> FALSE]

(* listStatus and getSplits; a task is opened when it runs, and reads      *)
(* nothing that changes.                                                   *)
Split ==
    /\ splits = Unread
    /\ index' \in {SubSeq(Starts, 1, k) : k \in 0 .. Len(lens)}
    /\ \E cuts \in CutLists :
            /\ splits' = Aligned(FileSplits(cuts), index')
            /\ tasks' = [i \in DOMAIN splits' |-> Opened(splits'[i])]
    /\ UNCHANGED <<lens, feeds, returns, lines>>

(* Bug: a task ends with its last block. *)
MoreBefore(task) == task.pos < task.end

(* The condition of nextKeyValue's loop. *)
More(task) == task.pos <= task.end

(* nextKeyValue() returns a line. *)
NextLine(i) ==
    LET task == tasks[i] IN
    /\ ~task.done
    /\ More(task)
    /\ task.offset < TextSize
    /\ lines' = [lines EXCEPT ![task.offset] = @ + 1]
    /\ LET filePos == FilePos(task.offset, task.filePos) IN
       tasks' = [tasks EXCEPT ![i].offset = AfterLine(@),
                              ![i].filePos = filePos,
                              ![i].pos = filePos]
    /\ UNCHANGED <<lens, feeds, returns, index, splits>>

(* nextKeyValue() returns false. *)
EndOfSplit(i) ==
    LET task == tasks[i] IN
    /\ ~task.done
    /\ ~More(task) \/ task.offset >= TextSize
    /\ tasks' = [tasks EXCEPT ![i].done = TRUE]
    /\ UNCHANGED <<lens, feeds, returns, index, splits, lines>>

Step == Split \/ \E i \in DOMAIN tasks : NextLine(i) \/ EndOfSplit(i)

Next == Step

Spec == Init /\ [][Next]_vars

-----------------------------------------------------------------------------
(* Properties *)

Done == splits # Unread /\ \A i \in DOMAIN tasks : tasks[i].done

(* The splits follow one another from the header to the end of the file,   *)
(* and all but the first begin at a block; none is empty, because the task *)
(* of an empty one would still read a line.                                *)
SplitsTile ==
    splits # Unread =>
        /\ splits[1].start = 0
        /\ splits[Len(splits)].end = FileSize
        /\ \A i \in DOMAIN splits : splits[i].start < splits[i].end
        /\ \A i \in 1 .. Len(splits) - 1 :
                /\ splits[i].end = splits[i + 1].start
                /\ \E k \in DOMAIN lens : splits[i].end = BlockStart(k)

(* Wherever a slice begins and ends, aligned to the index of the job it    *)
(* holds just the indexed blocks that begin in it: tasks share no block    *)
(* and skip none.                                                          *)
SlicesKeepBlocks ==
    Done => \A end \in 0 .. FileSize : \A start \in 0 .. end :
                KeepsBlocks(index, start, end, FileSize)

(* The line that begins a split, where the block in front ends with a      *)
(* carriage return that is a line's end: the task in front has looked at   *)
(* the first byte of the split, and is behind its end.                     *)
BehindReturn(o) ==
    /\ o - 1 \in returns
    /\ \E i \in DOMAIN splits :
            splits[i].start # 0 /\ TextBefore(BlockFrom(splits[i].start)) = o

(* No line is returned twice, by whichever tasks, and at the end each was  *)
(* returned, wherever the job cut the file and wherever a line's end is:   *)
(* except those behind a return, which no task returns, because the next   *)
(* one skips its first line.  LzoTextInputFormat.java:42-45 excepts none:  *)
(* a line feed or a carriage return ends a line, and the file is broken    *)
(* into lines.                                                             *)
LinesOnce ==
    \A o \in DOMAIN lines :
        /\ lines[o] <= 1
        /\ lines[o] = 1 => o \in LineStarts /\ ~BehindReturn(o)
        /\ Done /\ o \in LineStarts /\ ~BehindReturn(o) => lines[o] = 1

=============================================================================
