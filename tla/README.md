# A TLA+ model of lzo-java

lzo-java is a pure-Java LZO library: a codec generated from the C sources of
liblzo, streams that put a block format (raw or lzop) around it, a wrapper for
commons-compress, and a codec, an indexer and text input formats for Hadoop.
This directory holds TLA+ modules for the parts that keep state, the TLC runs
that check them on small instances, and TLAPS proofs of what matters most.
`PROJECT.json` lists components, runs, hazards, theorems, and the source lines
each definition stands for.

    tlc -config MC_LzoOutputStream.cfg MC_LzoOutputStream.tla
    tlapm LzoOutputStream_proofs.tla

## 1. The system

All paths are below `src/`; `core` is `lzo-core/src/main/java/org/anarres/lzo`,
`hadoop` is `lzo-hadoop/src/main/java`.

| Part | State it keeps | Operations | Talks to |
|---|---|---|---|
| `core/LzoOutputStream` | input buffer and its length, holdover (array, position, length), output buffer | `write`, `flush`, `close`; inside `compact`, `compress`, `writeBlock` | calls the compressor and the sink, either may throw; `LzopOutputStream` overrides `writeBlock`, `close` |
| `core/LzopOutputStream` | flags, checksum objects, `closed` | constructor (header), `writeBlock`, `close` (null word) | as above |
| `core/LzoInputStream` | input and output buffer, position and length | `read`; inside `fill`, `readBlock`, `decompress` | reads the file, calls the decompressor |
| `core/LzopInputStream` | flags, checksum objects, `eof` | constructor (`readHeader`), `readBlock`, `testChecksum` | as above |
| LZO1X-1 and LZO1Y-1 compressors (`lzo-core/src/main/jcpp`, `src/main/cpp`) | dictionary, positions in two arrays, literals carried from chunk to chunk | `compress` | called with arrays, answers a status code |
| `core/LzoCompressor1x_999` | sliding window, hash chains, the literals and the match not yet written | `compress` | as above |
| `lzo1x_9x.c` with `lzo_swd.ch`, `lzo_mchw.ch` (`lzo-core/src/main/jcpp/src`) | the same for LZO1X, LZO1Y and LZO1Z, a preset dictionary, the last offset | `lzo1x_999_compress_internal` | the class above is a port of it |
| LZO1X, LZO1Y (and LZO1Z) decompressors, with and without `SAFETY` | positions in two arrays, the last byte's free bits | `decompress` | as above |
| `lzo-commons` | the stream it wraps | `write`, `read`; `flush`, `close` and the read of arrays are inherited | `LzoOutputStream`, `LzoInputStream` |
| `hadoop/.../codec/LzoCompressor` | input buffer, holdover (a pointer to the caller's array), output buffer, `finished`, byte counters | `setInput`, `needsInput`, `finish`, `finished`, `compress`, `reset` | driven by Hadoop's `BlockCompressorStream` |
| `hadoop/.../codec/LzoDecompressor` | output buffer, position, length | `setInput`, `needsInput`, `finished`, `decompress`, `reset` | driven by Hadoop's `BlockDecompressorStream` |
| `hadoop/.../codec/LzoCodec`, `LzopCodec`, stream subclasses | configuration | constructors, delegation | the two above |
| `hadoop/com/hadoop/compression/lzo/LzoIndex` | the positions of blocks | `readIndex`, `createIndex`, `findNextPosition`, `alignSlice…` | files `x.lzo`, `x.lzo.index`, `x.lzo.index.tmp` |
| `LzoIndexer`, `DistributedLzoIndexer`, `LzoSplitRecordReader`, `LzoIndexRecordWriter` | a stream on the lzo file, the temporary index | index a file, in a client or as a map task | the same three files, by several processes |
| `mapreduce/LzoTextInputFormat`, `LzoLineRecordReader` | indexes per path; positions, a line reader | `listStatus`, `isSplitable`, `getSplits`; `initialize`, `nextKeyValue` | `LzoIndex`, the lzop codec, Hadoop's `FileInputFormat` |
| `mapred/Deprecated…` | the same against Hadoop's old interface | the same | the same |

What is hard in this code:

* *Buffers.* A write may meet a part-filled buffer, may be longer than several
  blocks, and may fail in the middle. Three buffers with offsets decide whether
  a byte is dropped, repeated or overtaken; a unit test compares what goes in
  with what comes out for the sizes it happens to use.
* *Failures inside a call.* The compressor and the sink throw; the caller may
  go on, flush, close, or close twice.
* *Two sides of a format.* Writer and reader decide separately what a block
  consists of. Files are cut by crashes and damaged on disk.
* *Somebody else's protocol.* Hadoop's streams call the compressor by the rules
  of its `Compressor` interface; lengths on the wire come from its counters.
* *A port by hand.* `LzoCompressor1x_999` is C in Java: bytes are signed, an
  index takes the place of a pointer, and the array has no cells behind its end.
* *Processes without a lock.* Indexers and map attempts write one temporary
  file and rename it onto one index while jobs read it.
* *A format of bits.* Compressor and decompressors share nothing but the block:
  a count is put with an unchecked or into a byte written earlier, and each of
  five tokens has its own limits for length and offset.
* *Boundaries.* A cut exactly on a block, a line that ends exactly with a block,
  a block of exactly the buffer's size.

No class here is meant for several threads: a stream is used by one thread at
a time, and the interleavings are those of calls, failures, crashes and, for
the index, of processes.

## 2. What makes each part correct

| Part | Correct means | Hazards (see `PROJECT.json`) |
|---|---|---|
| Codec | what is compressed comes back byte for byte; a match repeats what precedes it; a cut block or too small an array is reported by the safe decompressor; the block fits the array the streams make for it; the port writes what the original writes | literals that have no byte of their own, offsets at a token's limit, counts that go on, a dictionary that outlives its chunk, signed bytes in a hash, cells behind the window's end, chains that outlive their positions |
| Output stream | accepted bytes leave in order, each once, in blocks of 1..N bytes; only a call that throws loses a block; flush and close leave nothing | offsets in `compact`, failure in the middle of a write, a refused write, loops that do not end |
| lzop writer | null word behind everything accepted before `close`, once; a failed `close` can be repeated | failing `close`, write after `close` |
| Input streams | what is read before the first exception is what was written; a cut file does not end quietly (lzop), or only between two blocks (raw); a caller of the wrapper can tell | an exception that `java.io.InputStream` drops, output buffer kept from an earlier block, checksums that are not there for stored blocks |
| Hadoop codec | what its stream wrote comes back in order, and nothing else does before the first exception; honest lengths, no pointer kept between calls | `compact` before the block is compressed, remains of a block that failed, a missed `reset`, an output buffer that is too small |
| Index | a reader finds complete positions or a first part of them; working alone an indexer leaves a complete index or none | two writers, a crash, an unchecked `rename`, a task that failed |
| Text job | each line read exactly once, however the file is cut and whatever part of the index exists (not so behind a lone carriage return, finding 3) | `pos <= end`, alignment at a block's first byte, a line reader that has to look ahead |

## 3. Modules

| Module | Models | State and actions against the code |
|---|---|---|
| `BlockLog` | abstract: what a buffering block compressor promises | `Accept`, `Dispatch`, `Fail` |
| `LzoOutputStream` | `core/LzoOutputStream` | variables are the fields; `Write` is `write` up to its loop, `Drain` is `flush`/`close` up to theirs, `TakeInput`/`TakeHoldover` is `compress()` up to the compressor, with the `compact()` it calls; `EmitBlock` is the compressor and `writeBlock`; `CompressorFails`, `SinkFails`, `CloseSink`, `Return` end a call |
| `LzoFrames` | both file formats | tokens (header, integer, checksum, data, a torn token); what ageing does to a file; sums over the blocks of a file as cardinalities (`Total`) |
| `LzopOutputStream` | `core/LzopOutputStream` | EXTENDS `LzoOutputStream`; its actions are those of the superclass joined with what the overriding method does to the file |
| `LzoInputStream` | `core/LzoInputStream` | `Read`, `Deliver`, and one action per outcome of `readBlock` + `decompress` |
| `CommonsInputStream` | `lzo-commons` input stream | EXTENDS `LzoInputStream`; `ArrayRead` is the inherited read of an array, which calls `read()` for each byte; `Take…` are what it makes of the answer |
| `LzopInputStream` | `core/LzopInputStream` | EXTENDS `LzoInputStream`; `ReadHeader`, `NullWord`, stored and packed blocks with checksums |
| `LzopRoundTrip` | both lzop streams and a file | `LzopOutputStream` extended, `LzopInputStream` as an instance; `Stop` ends the writer at any moment |
| `Lzo1xTokens` | the bytes of LZO1X and LZO1Y blocks | one operator per token and side: what compress writes, what decompress takes it for |
| `Lzo1zTokens` | the bytes of LZO1Z blocks | EXTENDS `Lzo1xTokens` with what is different |
| `LzoCompressor1x_1` | `LzoCompressor1x_1`, `LzoCompressor1y_1` | `StartChunk` and `EndChunk` are the loop of `compress`; `Literal`, `Lookup`, `EmitMatch` are the labels of `do_compress`; `Finish` writes the last literals and the mark of the end. The hash is any function of four bytes |
| `LzoCompressor1x_999` | `core/LzoCompressor1x_999`, all nine levels | `FindMatch` is `find_match` with `swd_accept` and `swd_findbest`; `Literal9`, `Consider`, `LookAhead`, `Weigh`, `TakeMatch` are the branches of `compress_internal`. The window's arrays are derived from the position searched and what was recorded at the ones before |
| `LzoSwd` | `lzo_swd.ch` | a record holds the struct; an operator named after a function gives the struct it leaves. The window is the ring of the code, with the cells behind its end, and the chains are kept as arrays |
| `Lzo1x9x` | `lzo1x_9x.c`, `lzo_mchw.ch` | `Literal9x`, `Consider9x`, `LookAhead9x`, `Weigh9x`, `CodeMatch9x`, `Finish9x` are the branches of the loop; the asserts that its comment names are collected in `AssertsHold` |
| `LzoDecompressor1x` | the LZO1X, LZO1Y and LZO1Z decompressors | `Start`, `ReadByte`, `CopyRun`, `CopyMatch`, `MatchDone`, `EofFound` are the loop's labels; `Overrun` is the exit of the tests that `SAFETY` adds, or of an exception where it is not defined |
| `LzoAlgorithms` | `LzoLibrary`'s choice of classes, both sides of the codec | EXTENDS `LzoCompressor1x_1`, the others as instances; `CompressOriginal` lets `lzo1x_9x.c` compress the same input as the port; `Call` hands a block, whole or not, to a decompressor |
| `CommonsOutputStream` | `lzo-commons` output stream | `CommonsWrite` delegates, `CommonsClose` is `java.io.OutputStream.close()`; `acceptedAtClose` remembers what was written before the first one |
| `HadoopLzoCompressor` | `codec/LzoCompressor` under `BlockCompressorStream` | `SetInput`, `Compress`, `Finished`, `NeedsInput`, `Reset` are the methods; `Write`, `Give…`, `EmptyBuffer`, `DrainBuffer`, `Drained` are the stream (external) |
| `HadoopLzoDecompressor` | `codec/LzoDecompressor` under `BlockDecompressorStream` | `Decompress` is the method; `TakeChunk` is `setInput`, which decompresses at once, with the outcomes of the lzo decompressor; `Read`, `ReadLength`, `NoMoreChunks` are the stream (external) |
| `HadoopRoundTrip` | both Hadoop streams and a file | EXTENDS the two; `Open` is a reader that begins when the writer is done or has died |
| `LzoIndex` | `LzoIndex` search and alignment | pure operators named like the methods |
| `LzoIndexing` | `LzoIndexer`, `DistributedLzoIndexer` tasks, `readIndex` | one action per file-system operation of each process; the walk over the blocks reads the integers where `LzoFrames`' writer put them, and the true positions are the writer's |
| `LzoTextJob` | `LzoTextInputFormat`, `LzoLineRecordReader`, and the classes of `mapred`, which are the same statements | `Split` is `listStatus` + `getSplits`; `NextLine`, `EndOfSplit` are `nextKeyValue`; `EndsLine`, `Looked`, `FilePos` are Hadoop's `LineReader` (external): what ends a line, how far it has to look, and where the file is then |
| `…_proofs` | theorems | see section 6 |
| `MC_…` | instances for TLC | |

How the modules meet: `LzoOutputStream` refines `BlockLog`; each action of
`LzopOutputStream` is written as one of `LzoOutputStream` with what the file
gets, or leaves the fields alone; `LzopRoundTrip` joins the two lzop streams
through `LzoFrames` (`LzopCodec` of Hadoop hands each call on to them), and
`HadoopRoundTrip` the two of `LzoCodec`; `LzoIndexing` shows that a job finds a first part of the
index, which is what `LzoTextJob` assumes of it, and `LzoTextJob` uses
`LzoIndex`. `LzoAlgorithms` joins compressors and decompressors through
`Lzo1xTokens` and shows what the streams assume of the codec: that a block
comes back, that it fits, and that damage to its length is noticed. It also
lets the port and its original compress the same bytes.

Conventions. In the codec's modules bytes are numbers 0..255. In the streams'
modules the k-th byte that a caller writes is the number k, so order, loss and
repetition can be seen; no code there looks at a byte's value except for line
feeds and carriage returns, which `LzoTextJob` has as two sets of offsets. In
them the compressor is the identity on the contents of a block and
nondeterministic about its length and about failure. A checksum is the data it
was computed from: two different blocks are taken to have different checksums.
Definitions that a comment marks `Bug:` are mistaken versions of their
neighbours, against which the properties are tested; nothing refers to them.

## 4. Runs

Two workers, a few seconds to two minutes each.

| Run | Bounds | Distinct states | Shows |
|---|---|---|---|
| `lzo_output_stream` | N=3; writes of 0, 1, 2, 7; 8 bytes; 2 failures | 200 136 | layout of the buffers, the code's own assertions, order, accounting, clean states between calls, calls that end, refinement of `BlockLog` |
| `lzo_input_stream` | up to 3 blocks of 1..3 bytes; reads of 0, 1, 2, 4, directly or through the commons-compress wrapper | 102 598 | reads of whole, cut and damaged raw files; what a caller knows although the wrapper drops exceptions; calls end |
| `lzop_input_stream` | up to 2 blocks of 1..3; reads of 1, 2, 4; four sets of checksums | 49 951 | the same for lzop files; damage under a checksum is never handed out; a cut file does not end |
| `lzop_round_trip` | N=2; writes of 1, 4; 5 bytes; 1 failure; reads of 1, 3 | 2 357 952 | where the null word stands; repeated and failed `close`; a closed file reads as accepted; an unclosed one never reads as ended |
| `hadoop_compressor` | compressor of 2, 7, 10 or 11 bytes, stream of 10, which gives 7 at a time; writes of 3, 4, 9; 13 bytes, 6 numbers and chunks; 1 failure; decompressor of 6, 7 or 10 bytes; reads of 4; 2 exceptions | 651 414 | the file reads back; no wrong byte before an exception; honest counters, no pointer kept, calls of both streams end |
| `text_job` | up to 3 blocks of 1..2 bytes of text, each 2 bytes in the file; every set of line feeds and of carriage returns; every first part of the index; up to 2 cuts | 365 897 | splits tile the file, slices keep their blocks, each line is returned once, or never if it is behind a lone carriage return at the border of two splits (finding 3) |
| `indexing` | two `LzoIndexer`s, two attempts of a task, one reading job; files of up to 2 blocks, stored (lengths 3, 3) or packed (3, 2), of two blocks the second packed (`SomeFiles`), whole or with 4, 21 or 60 bytes missing; 1 failure or crash | 1 785 115 | what a job can read; what is left at rest; what one indexer at a time leaves; an attempt that succeeds replaces what a failed one left |
| `algorithms` | about 2 400 inputs of up to 290 bytes; offset limits 3, 6 (LZO1Y 4, LZO1Z 5), 12, 60; chunk 45; three slots for the hash; levels 7 and 9 with a lookahead of 40; some inputs for `lzo1x_9x.c` too, with and without a preset dictionary; up to 3 bytes of the block and of the room missing | 1 220 000 | round trip through every compressor and decompressor of `LzoLibrary` and through `lzo1x_9x.c`; overruns reported; size; true matches; room for counts; port and original agree; the asserts of the original that `Lzo1x9x` names; its search misses nothing |
| `commons_close` | as the output stream | counterexample: a write of one byte, then `close` | finding 1 |
| `holdover` | compressor of 3, stream of 8 | counterexample | finding 2 |
| `window_end` | 33 to 40 zeros but for one byte, a window of 24 and a lookahead of 8 | counterexample | finding 4 |
| `signed_hash` | one input of bytes above 127 | counterexample | finding 5 |

Why the bounds suffice. *Output stream:* with N=3 a write of 7 onto a buffer of
1 tops the buffer up, leaves a holdover of more than a block (zero-copy block),
then one that fits (moved whole); writes of 1 and 2 hit "exactly full"; 0 is
the empty write. Two failures let a call fail after one that already left a
holdover behind. The proofs remove these bounds for the safety properties.
*Readers:* three blocks are needed for "large, small, large", where the output
buffer is kept and then replaced; reads shorter and longer than a block meet
both sides of `Deliver`. *lzop writer:* N=2 with a write of 5 still passes
through each branch of `compact`, and one failure reaches a `close` that is
repeated. *Compressor:* 10 is the size `LzoCodec` gives both sides, so the
holdover is never needed; 2 makes every block go through it, 7 is filled by
what the stream gives it, and 11 has more room than the stream has at all. A
decompressor of 6 is too small for some blocks and not for others; 7 is just
enough. Six numbers and chunks are three blocks of one chunk each, or one of
five chunks. *Text job:* a block can hold no line's end, only one, or a line
that ends on its last byte; a carriage return and its line feed can be in one
block or in two; and two cuts give a split that has neighbours on both sides.
*Codec:* the limits of the tokens are cut down so that within a few dozen bytes
every token is written by every compressor that has it, and every limit is met
from both sides; inputs are all words of two letters up to ten long, two copies
of a word with 0 to 21 literals between them, runs of literals at the lengths
where their count changes its form (3, 4, 18, 19, 238, 239 and beyond), matches
longer than one byte of count holds a length for, and words longer than three
chunks and than the window. No byte is 0 or above 127, because the compressor
of best ratio does lose such inputs (findings 4 and 5). A run of 290 has a
count that goes on by one zero byte; longer counts, and the code's own limits,
are covered by the theorems of `LzoCompressor1x_1_proofs` and
`LzoAlgorithms_proofs`. `lzo1x_9x.c` is given words that fill its window once
and more, so that the ring comes round, and bytes above 127, which it handles;
work memory that it does not initialize holds 0 everywhere or 255 everywhere.
*Indexing:* with two clients one can take away, rename or be renamed over the
other's file, and the task's double delete can meet both. Tasks are the
attempts of a map task: the submission looks for an index once, and attempts
after a failed one do not look again (`TaskBegin`). The second attempt may meet
what the first has renamed into place. The missing bytes take the null word, or
a block and part of the one before it or of a length, or all of the file. A
stored block and a packed one have their checksums skipped differently, and a
file has both.

`CHECK_DEADLOCK FALSE` is set where the system stops: files read to their end
or a constructor that threw (`lzop_input_stream`, `lzop_round_trip`), streams
that reached the bound `MaxSent` (`hadoop_compressor`), jobs and indexers that
are done. The output streams and the raw reader can always be called again, and
there deadlock is checked.

## 5. Fairness

* `LzoOutputStream`, `CommonsInputStream` (`StreamStep`: the steps of a read,
  direct or through the wrapper), `HadoopRoundTrip` (`WriterStep`,
  `ReaderStep`: those of a call of either stream): weak fairness of the steps
  inside a call. A call runs in its caller's thread until it returns; nothing
  makes the caller call again, so the calls themselves are not fair. The steps
  include the failures, but a failure ends the call, so fairness does not
  depend on them.
* `LzopOutputStream`, `LzopInputStream`, `LzopRoundTrip`, `LzoIndexing`,
  `LzoTextJob` state safety only.
* The codec's modules state safety only. They run alone, so their calls return
  unless they run in a circle or stop: `algorithms` checks that they do not stop
  (its only state without a next step of its own is the end), and its state
  graph is finite with every step either moving the position in the input or
  adding to the output.

## 6. Proofs

TLAPS checks these for every value of the constants, from the named assumptions
on them (`NAssumption`: the buffer has at least one byte, which the constructor
sees to; the bounds' assumptions only give types).

`LzoOutputStream_proofs`. The invariant is

    IInv == TypeOK /\ Dispatched \in Nat /\ Layout /\ Compacted
            /\ ShortBlockIsLast /\ BlockInCall

`Layout` says that block, input buffer and holdover, read one after the other,
are the next accepted bytes. By itself it is not inductive: a step that takes a
block needs to know that the lengths fit the arrays (`TypeOK`), that a
holdover is longer than a block when the buffer is empty (`Compacted`), and
that there is no block outside a call (`BlockInCall`). All four branches of
`compact()` are dealt with once, in the lemma `CompactMoves`; a theorem per
action then is arithmetic. Accounting, order of the frames, drained returns
and the refusal are proved with further small invariants on top of `IInv`, and
`Implements` maps every step to a step of `BlockLog` or to none.

Each action of `LzopOutputStream` (in the same module) is written as one of the
superclass or leaves its fields alone (`LzopNextIsNext`), so the superclass's
invariants hold of it; that the null word comes after all accepted bytes
follows from there. What is in the file as bytes is `FlattenSeq` of its whole
blocks; `FileInv` says which are there before the first null word (`Ends`, and
`Sound` as long as nothing failed). It needs `Flow`: a close that threw may be
repeated, so a null word can be in the file of a stream that is not closed, but
only after a failure. `NullWordEndsFile` and `ClosedMeansClosed` follow.

Writer and reader together (`LzopRoundTrip`, in the same module). The reader's
own theorems do not apply here: its files have no torn writes before further
blocks, no bytes reported lost and no null word in the middle. The invariant is

    TripInv == Closing /\ Readable /\ (~stopped => Fresh)
               /\ (stopped => LinedUp /\ ReaderFollows)

`Readable` says that a file without a torn block is laid out (`LaidOut`): there
is a set of places in it, with the bytes of the blocks up to each; from each
place a block or a null word leads to the next (`Joint`); the bytes up to the
end are those that left the buffers but for the lost, and those up to the first
null word the ones accepted before it (`EndsAt`). The places are not computed
from the file but carried along as it grows, so no induction over it is needed
(`LaidGrows`). `ReaderFollows` says that a reader that has not thrown stands on
such a place with the bytes up to there handed out or in its buffer
(`Cursor`). No test of a checksum fails on the way (`SumsMatch`), and in the file of a closed
stream no block is cut (`NoneCut`): so `RoundTrip`. Without a null word the
reader never comes to an end: so `CrashShows`.

`LzoFrames_proofs`. What a file of any number of blocks holds, without an
induction scheme, which the prover could not use. A sum is a cardinality
(`Total`), whose laws (`TotalGrows`, `TotalIsMonotone`) come from the theorems of
finite sets. A concatenation of any number of sequences (`FlattenSeq`) is
described by the least number of them for which the description fails
(`Least`): it is not none, and the one before it did not fail. `AgedTokens` says
what a token of an aged file may be in place of the one that was written.

`LzoInputStream_proofs`. The invariant is, for the block lengths `lens` of the
file and the block the reader has come to,

    Fields /\ OnBlock /\ Counted /\ InOrder /\ Ended

`pos` stands in front of a block or behind the last whole one (`OnBlock`); what
was handed out and what is left in the output buffer are together as long as
the blocks before (`Counted`), and are the bytes written, in order (`InOrder`). Without the
part about the buffer nothing would follow from a step of `read`; without
`Fields`, which says that the rest of the buffer lies in the array, nothing
about the bytes copied. From `ReaderAssumption`, which only gives types, it
holds for every file, cut or damage and every sequence of reads. `ReadsInOrder`
and `EndsComplete` follow. The commons-compress wrapper has one more part
(`Told`), on what its caller has seen, and `ArraysAreTold` follows.

For `LzopInputStream`, in the same module, `FileShape` lays a file out: a header, the blocks with
their checksums at the offsets their sizes add up to, and a null word. The
invariant `LzopInv` speaks of the reader until an exception: it stands at one of
these offsets, or has read the null word with all blocks behind it. A block that
passes its checksums has the bytes it was written with, if a checksum in
the file covers the damage (`CoveredIsRead`). So the order holds under `Guarded`
(`LzopReadsInOrder`), and the end, which no damage can bring about, without it
(`LzopEndsComplete`).

`HadoopRoundTrip_proofs`. The writer's invariant, for a compressor with room for
what the stream gives it at a time (`Roomy`), is

    WriterInv == DataFields /\ CallFields /\ Fits /\ WriterOrder /\ Accounts

`Fits` bounds what has been given by the stream's limit, which is why nothing is
ever held over and a block goes out in one piece (`BlocksFit`). `WriterOrder`
says that the chunks, up to the first that is not whole, and then inputBuffer
hold the bytes in order; the remains of a block the compressor failed on are
one such chunk. `Accounts` says that each length is the sum of the blocks
behind it, where the last one may still wait for `Debt` bytes. It needs
`N > MaxInput`: with equality a full buffer makes the stream write the length
once more, as the proof found and TLC then showed. The reader's part counts in
groups, a length and its chunks (`InGroup`), because only at the end of a group
is a length read (`GroupDone`), and follows the order of the bytes
(`InOrderUpTo`) up to the first exception. `UlenHonest`, `ReadUntilError` and
`ReadsBack` follow for any size of the reader's buffer, any calls, failures and
cuts; `PointerDropped` (`Dropped`) holds for compressors of any size. The
assumptions give types, except that the stream's buffer has at least one byte,
which Hadoop's `CompressorStream` sees to.

`LzoIndexing_proofs`. The walk of an indexer meets the blocks that the writer
wrote: `LayoutIsWalkable` derives from the writer's sizes, for any number of
blocks, flags and missing bytes, that behind the k-th block the integers say
that another begins or that the file ends (`Walkable`). The invariant for all
processes together is `Base`: the file each indexer writes holds the positions
of the blocks it has passed. `JobsReadPrefixes` follows, for any number of
indexers, failures and crashes. `AloneComplete` needs to know whose the
temporary file is (`AtWorkAlone`), which only holds while one works at a time.
`RestIsComplete`, where nothing fails but any number work at once and take each
other's file away, needs `AtWorkTogether`, that whoever got as far as closing has
passed every block, and `ClientsAtWork`: while there is no index, the temporary
file belongs to a client that has still to rename it. `RetriesRepair` needs
`Deleted`: from a task's delete to its rename there is no index, whatever was
there before, as long as it works alone. `IndexingAssumption` says
that clients and tasks are different and gives types.

`LzoTextJob_proofs`. `findNextPosition` finds the first block at or after a
position, for every index; aligned slices hold the blocks that begin in them
(`LzoIndex`). The index of every job is increasing and inside the file
(`IndexFits`), so that tasks share no block and skip none. The loop of
`getSplits` is taken one more slice at a time: were there a number of slices
after which the splits so far do not tile what was cut, there would be a
smallest, and one step of the loop rules it out (`SplitsTileFile`). For
`EachLineOnce` the invariant `JobInv` gives a line to the one split that `Owns`
it and says that a line was returned exactly if its owner has passed it
(`Returned`). `SeenTo` is how much of the text a task has looked at, which behind
a carriage return is a byte more than it has read; `ReadTo` relates to it the
position the task knows, which moves a block at a time. With it, `pos <= end` is
shown to be the question whether the task has looked no further than the text of
its split (`Reaches`). `OneOwner` says that each line has an owner but for those in
`BehindReturn`, and `NoOwner` that no task returns these: so the theorem gives both
halves of finding 3's extent. From `JobAssumption`, types only, this holds for
every file, every placement of line feeds and carriage returns, every part of
the index and every list of cuts.

`LzoCompressor1x_1_proofs`, tokens. From `OffsetsAssumption`, which says that the
limits of the offsets fit the tokens' bits, every token is read back as what it
was written for: counts of any size (`CountInverse`, `RunInverse`), matches of any
length at any offset (`MatchInverse`, `ShortMatchInverse`). A token may stand
anywhere in a block (`Stands`), so the theorems say what one step of the
decompressor does with one step of the compressor. The count's end is the
smallest position of a byte that is not zero; that there is a smallest comes
from `WFMin` of the library's theory of well-founded relations, which speaks
of sets and needs no induction scheme. The same holds for LZO1Z
(`Match1zInverse`, `ShortMatch1zInverse`), whose long matches have their last two
bytes swapped and whose matches of one byte repeat the last offset: from
`OffsetsAssumption1z` no other offset's bits look like that one.

`LzoAlgorithms_proofs`, decompressors: whatever the bytes of a block, damaged ones
included, and whatever the room, no step reads beyond the block or writes
beyond the room (`StaysInArrays`). The tests of `lzo1x_d.ch` do not cover every
read: the byte after a run is read untested, and the two literal bits after a
match are read behind the position. `InArrays` says that these bytes are there,
because a run asks for one byte more than it copies and a match has read at
least two (in LZO1Z at least one). The invariant is `ReadFields /\ InArrays`;
`ReadFields` adds the types and that a match's first byte lies before the position.

`LzoCompressor1x_1_proofs`, compressor. The invariant is

    IInv == Fields /\ Positions /\ Behind /\ Room

`MatchIsTrue` needs `Behind`: no entry of the dictionary is at or beyond the
byte about to be looked up, which holds because each chunk starts with an empty
dictionary and each step moves on by at least a byte. `CountHasRoom` needs
`Room`: while nothing is written, at least four literals are before the scan,
because `compress` skips `4 - t` bytes at the start; and whatever is written ends
in a match's two bytes, of which one has two free bits. `Positions` keeps both
inside the input. That everything written is a byte (`CompressorTypes`) in turn
needs `Room`, since a count is or-ed into a byte. The assumptions are
`ChunkAssumption` (a chunk is no longer than the largest offset, as 49152 is),
`OffsetsAssumption`, and that the hash is one of the dictionary's indices.

`LzoCompressor1x_1_proofs`, blocks. What has been written is described, like a
file above, by a set of places (`Laid`): pairs of how far the block has been
read and how much of the input that gave. The first is `<<0, 0>>`; from each
but the last, literals of the input and a match that repeats what is before it
lead to another (`Segment`), and the last is where the literals not yet written
begin. A token that is added puts its count of literals into two bits of the
byte last but one, which no earlier place looks at (`Kept`, `SegmentKept`); so
the places stay, and one is added. `Laying` has this set as its witness until
`Finish` writes the mark of the end, and `BlocksDescribe` says what is left
then: each place leads to another or to that mark, at which all of the input
has been given. `Small` counts the bytes along the way: a run costs at most a
sixteenth of its literals and one byte, and a match, which is of four bytes at
least, pays for it (`BlocksAreSmall`).

`LzoAlgorithms_proofs`, round trip. The invariant, for the compressors of
LZO1X-1 and LZO1Y-1 (`constraint = NONE`), is `ThereAndBack`: those of the
compressor, the decompressor's `InBounds`, and `Reading`: until it returns,
decompress goes from place to place (`Travels`); what it has copied is the
beginning of the input, and what its state expects next is what the place says
(`Reads`). Each action of the decompressor keeps this or returns, and it returns
with `LZO_E_OK` and all of the input exactly where nothing is missing of the
block or the room (`Ended`). Where nothing is missing no test fails
(`NoProblem`), and the mark of the end is only found at the last bytes of the
block, with all of the input copied (`EofFoundEnds`). The set of places takes
the place of an induction over the tokens, as no step has to know how it was
made. A match that overlaps itself is copied by the code byte after byte and by
`Repeat` all at once; `CopiesAround` shows that a copy of the bytes `off` before
is those bytes over and over, by the least byte that is not. `CodecRoundTrips`,
`SafetyTells` and `BlocksFit` follow for every input, hash, chunk, limits of the
offsets, and number of bytes missing. They leave out `LzoCompressor1x_999`, of
whose blocks the first is false (findings 4 and 5), and `lzo1x_9x.c`.

`BlockSizes`, `LzopBlockSizes` and `LoopsAdvance` are proved of the output
streams and no longer checked by a run.

Only model-checked: liveness (`CallsEnd`, `ReadsEnd`, `StreamCallsEnd`), which
the prover cannot do; and `LzoCompressor1x_999` and `lzo1x_9x.c`: their side of the
round trip, `TranslationAgrees`, `AssertsHold` and `LongestFound`. The
round trip of the port is true only of inputs that stay away from its two mistakes,
and proofs about either need the state of the window's rings and chains over
all steps, which nothing here describes yet.

## 7. Findings

1. `lzo-commons/.../LzoCompressorOutputStream.java:16` overrides the writes
   only. `close()` is `java.io.OutputStream`'s and does nothing: what is in the
   buffers is never written. `LzoCompressorStreamProviderTest.java:25-39` closes
   the stream and expects to read back what it wrote. Run `commons_close`.
2. `codec/LzoCompressor.java:315` calls `compact()` after it has chosen
   `inputBuffer` as the block to compress and before it compresses it: holdover
   overwrites the block. The README promises that data from a holdover goes
   "into the returned data from a second call to compress()". It needs a
   compressor whose buffer is smaller than what the stream hands over; with the
   sizes `LzoCodec` chooses it does not happen (`ReadUntilError`, `ReadsBack`,
   proved). Run `holdover`.
3. `mapreduce/LzoLineRecordReader.java:121` asks whether the file is beyond the end
   of the split to see whether the next line is another task's. When the last
   block of the split ends with a lone carriage return, Hadoop's `LineReader` must
   look at the byte behind it, in the next block, before it can end the line:
   the task stops, and the next one skips its first line (line 108) as if it were
   the rest of this one. That line is never returned, although
   `LzoTextInputFormat.java:42-45` says that "Either linefeed or carriage-return
   are used to signal end of line." The reader of `mapred` has the same loop.
   `LinesOnce` says that these lines are never returned and all others are; the
   smallest case is two blocks of one byte in two splits, the first a carriage
   return. Run `text_job`.
4. `core/LzoCompressor1x_999.java`: a search near the end of the window compares
   beyond its last cell, into cells that `swd_getbyte` never fills. When the
   input has zeros there the comparison succeeds on bytes that are not the
   input's. 51199 zeros and a 1 come back as 51200 zeros, with `LZO_E_OK`.
   `LzoAlgorithmTest` expects of every compressor that its input comes back. Run
   `window_end`.
5. `core/LzoCompressor1x_999.java`: the hash of three bytes combines Java's signed
   bytes, so that different bytes share a hash where the unsigned ones would
   not, and a comparison that trusts it for the third byte
   accepts a match of three that differs there. Run `signed_hash`.

Met on the way, where no document or test says otherwise:

* `alignSliceStartToIndex` returns a start of 0 as it is, not the first block.
* What is written after a `close()` that threw while it closed the sink lies
  behind the first null word, and no reader sees it.
* An `LzopOutputStream` closed with nothing written makes a file without a
  block. Its index has length 0, and each run of `DistributedLzoIndexer`, which
  takes such an index for unfinished, lists it again.
* When a task of `DistributedLzoIndexer` deletes an index that an `LzoIndexer`
  has just made, while another `LzoIndexer`'s rename onto it is ignored, no
  index remains although nothing failed. `CompleteAtRest` therefore promises an
  index only where no task took part.
* A failed task whose writer Hadoop closes renames what it has into place.
  Splits over a partial index still tile the file, but only another attempt of
  the task replaces it (`RetryRepairs`); indexers that come later do not.
  Whether Hadoop calls `close` depends on its version (`ClosesOnFailure`).
* With a compressor that has no more room than the stream gives it at a time,
  lengths on the wire can be repeated; `UlenHonest` and `ReadsBack` are stated
  for larger ones, as `LzoCodec` makes them.
* An exception behind the first byte of an array does not reach the caller of
  the commons-compress wrapper: `java.io.InputStream` answers with the bytes so
  far, and a next read may find the end of the file. `ArraysTell` states what
  remains: who had each array filled until -1 came has everything.
* After an exception Hadoop's decompressor hands out what the lzo decompressor
  had written of the block; `ReadUntilError` says no more than its name.
* `finish()` with nothing written sends a length of 0, which a reader takes for
  the end of the file; `ReadsBack` leaves out files that have one inside.
* An exception of the lzo compressor leaves the length of the whole output
  buffer in `outputBufferLen`, and the next call hands that out as a chunk.

## 8. Not modelled, and why

* *Damaged bytes of a block* (as against missing ones): decompressing them is
  right or wrong by chance; the streams' checksums are what finds them. That such
  a block leads no read or write out of the arrays is proved (`StaysInArrays`).
* *Other calls of `LzoCompressor1x_999` at one time*: its arrays belong to the call.
* *`LzoLibrary`, enumerations, abstract classes, `LzopCodec`, providers*: no
  state.
* *A pool that lends one (de)compressor to two streams*: `reset()` gives the
  initial state, in which each stream of the models begins.
* *Header fields* of lzop other than the checksum flags, names and times: no
  behaviour depends on them after they are checked.
* *Raw files with a torn block that are written on*: when the sink throws inside
  a block and later takes the next one, lengths no longer stand where the reader
  looks for them, and bytes of data decide what it reads. The stream's own state
  is modelled (`NothingLostSilently` says the block is not counted), the bytes
  of such a file are not.
* *A replaced lzo file with an old index*: no code compares them.
* *The rest of the C sources*: `miniacc.h`, `lzo_conf.h` and `lzo_ptr.h` are macros
  for compilers and systems; the fragments of LZO1, 1A, 1B, 1C, 1F and 2A belong
  to compressors and decompressors that are not in the repository, and no class
  is generated from them. They are most of the lines in C, and there is nothing
  in them that runs. Progress callbacks and statistics of `lzo1x_9x.c` change
  nothing that it writes. *Build files, C++ headers*: not part of the library.

## 9. Plan

1. Theorems: the blocks of `lzo1x_9x.c`, from `Match1zInverse`, `ShortMatchInverse`
   and places as for LZO1X-1; its window and chains first (`AssertsHold`,
   `LongestFound`).
2. A reader of raw files at the level of bytes, for files with a torn block.
