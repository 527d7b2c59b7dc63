---------------------------- MODULE LzoIndexing -----------------------------
(***************************************************************************)
(* The index of one lzop file, made by any number of LzoIndexers and tasks *)
(* of DistributedLzoIndexer jobs, and read by a job.                       *)
(*                                                                         *)
(* All of them write the same temporary file and rename it to the same     *)
(* index, and nothing keeps them apart.  The file system is HDFS: a file   *)
(* has one writer, who gets an exception when the file is gone, a file     *)
(* that is being written shows some first part of itself, and a rename     *)
(* onto an existing file does nothing and answers false.  Each process     *)
(* creates at most one file, which goes by the name of the process.        *)
(***************************************************************************)
EXTENDS LzoFrames

CONSTANTS
    Clients,            \* LzoIndexers, each with the one file
    Tasks,              \* map attempts of DistributedLzoIndexer
    None,               \* no file
    FlagSets,           \* bound: the checksums the file is written with
    Files,              \* bound: the blocks of a file, each <<plain, compressed>>
    Missing,            \* bound: how many bytes of the file are missing
    ClosesOnFailure,    \* Hadoop closes the record writer of a task that threw
    MaxFailures         \* bound: exceptions and crashes

ASSUME IndexingAssumption ==
    /\ Clients \cap Tasks = {}
    /\ None \notin Clients \cup Tasks
    /\ FlagSets \subseteq SUBSET {"ADLER32_D", "CRC32_D", "ADLER32_C", "CRC32_C"}
    /\ Files \subseteq Seq((Nat \ {0}) \X (Nat \ {0}))
    /\ MaxFailures \in Nat
    /\ Missing \subseteq Nat
    /\ ClosesOnFailure \in BOOLEAN

Indexers == Clients \cup Tasks

VARIABLES
    file,               \* the layout of the lzop file
    tmp, index,         \* what is at filename.lzo.index.tmp and .index
    written,            \* per file: the positions written to it
    open,               \* the files that are being written
    pc,                 \* where each indexer is
    at,                 \* the position its input stream is at
    failures,           \* history: exceptions and crashes that were injected
    threw,              \* history: indexers that did not end normally
    overlapped,         \* history: two indexers have been at work at once
    job                 \* readIndex: where it is, the length, and what it returned

vars == <<file, tmp, index, written, open, pc, at, failures, threw, overlapped, job>>

-----------------------------------------------------------------------------
(* The lzop file *)

HeaderLen == 6

BlockTokens(on, size) == LzopBlock(on, [j \in 1 .. size[1] |-> j], size[2])

(* The data is what writeBlock gets from the compressor, or the block as   *)
(* it is; an integer or a checksum has four bytes.                         *)
BlockBytes(on, size) ==
    4 * (Len(BlockTokens(on, size)) - 1)
    + IF size[2] < size[1] THEN size[2] ELSE size[1]

(* The i-th block begins behind the bytes of the blocks in front of it. *)
Start(on, blocks, i) ==
    HeaderLen + Total([j \in DOMAIN blocks |-> BlockBytes(on, blocks[j])], i - 1)

(* The two lengths of a block, and the null word. *)
Lengths(on, size, start) ==
    {[at |-> start + 4 * (k - 1), value |-> BlockTokens(on, size)[k].value] : k \in 1 .. 2}

Words(on, blocks) ==
    {[at |-> Start(on, blocks, Len(blocks) + 1), value |-> Terminator.value]}
    \cup UNION {Lengths(on, blocks[i], Start(on, blocks, i)) : i \in DOMAIN blocks}

(* A file whose last bytes are missing: its length, the integers that are  *)
(* there, and where the blocks begin whose lengths are there.              *)
Layout(on, blocks, missing) ==
    LET size == Start(on, blocks, Len(blocks) + 1) + 4
        len == IF missing < size THEN size - missing ELSE 0
        begun == CHOOSE k \in 0 .. Len(blocks) :
                    \A i \in DOMAIN blocks : i <= k <=> Start(on, blocks, i) + 8 <= len
    IN  [flags |-> on,
         len |-> len,
         ints |-> {w \in Words(on, blocks) : w.at + 4 <= len},
         starts |-> [i \in 1 .. begun |-> Start(on, blocks, i)],
         whole |-> missing = 0]

(* readInt() at a position, where an EOFException is none. *)
IsInt(p) == \E w \in file.ints : w.at = p
ReadInt(p) == (CHOOSE w \in file.ints : w.at = p).value

BlockHere(p) == IsInt(p) /\ ReadInt(p) # 0 /\ IsInt(p + 4)
EndHere(p) == IsInt(p) /\ ReadInt(p) = 0

(* Definitions marked "Bug:" are slips the properties must notice; nothing *)
(* else refers to them.                                                    *)

(* Bug: a stored block is taken to have checksums of compressed data. *)
SkipAll(p) == 4 * Cardinality(file.flags)

(* The bytes of the checksums to skip. *)
Skip(p) ==
    4 * Cardinality(IF ReadInt(p) = ReadInt(p + 4)
                    THEN file.flags \cap {"ADLER32_D", "CRC32_D"}
                    ELSE file.flags)

AfterBlock(p) == p + 8 + ReadInt(p + 4) + Skip(p)

-----------------------------------------------------------------------------
(* The file system *)

(* The file of a process is still there. *)
Alive(p) == p \in {tmp, index}

(* What can be seen of a file. *)
Visible(f) == IF f \in open THEN 0 .. Len(written[f]) ELSE {Len(written[f])}

Created(p) ==
    /\ tmp' = p
    /\ open' = open \cup {p}

(* fs.rename() of the temporary file to the index. *)
Renamed ==
    IF tmp # None /\ index = None THEN index' = tmp /\ tmp' = None
    ELSE UNCHANGED <<tmp, index>>

-----------------------------------------------------------------------------
Init ==
    /\ \E on \in FlagSets, blocks \in Files, missing \in Missing :
            file = Layout(on, blocks, missing)
    /\ tmp = None /\ index = None
    /\ written = [p \in Indexers |-> << >>]
    /\ open = {}
    /\ pc = [p \in Indexers |-> "start"]
    /\ at = [p \in Indexers |-> 0]
    /\ failures = 0
    /\ threw = {}
    /\ overlapped = FALSE
    /\ job = [pc |-> "exists", len |-> 0, index |-> None]

Active(p) == pc[p] \notin {"start", "done"}

Goto(p, label) == pc' = [pc EXCEPT ![p] = label]

(* An exception leaves the indexer. *)
Throws(p) == Goto(p, "done") /\ threw' = threw \cup {p}

(* Looking whether there is an index, and the start if there is none. *)
Begin(p, needed) ==
    /\ pc[p] = "start"
    /\ Goto(p, IF needed THEN "create" ELSE "done")
    /\ overlapped' = (overlapped \/ (needed /\ \E q \in Indexers : Active(q)))
    /\ at' = [at EXCEPT ![p] = HeaderLen]
    /\ UNCHANGED <<file, tmp, index, written, open, failures, threw, job>>

(* The position of the block goes to the index, and the input to the next. *)
Record(p, position, label) ==
    /\ written' = [written EXCEPT ![p] = Append(@, position)]
    /\ at' = [at EXCEPT ![p] = AfterBlock(@)]
    /\ Goto(p, label)

(* An exception of the file system at a place where it can throw. *)
Injected == failures < MaxFailures /\ failures' = failures + 1

(* The process dies, or an exception comes where nothing cleans up behind  *)
(* it.  Some first part of the file it was writing stays.                  *)
Crash(p) ==
    /\ Active(p)
    /\ Injected
    /\ Throws(p)
    /\ open' = open \ {p}
    /\ \E k \in 0 .. Len(written[p]) : written' = [written EXCEPT ![p] = SubSeq(@, 1, k)]
    /\ UNCHANGED <<file, tmp, index, at, overlapped, job>>

-----------------------------------------------------------------------------
(* LzoIndexer, and createIndex of LzoIndex *)

(* indexInternal: a file with an index is skipped. *)
ClientBegin(p) == p \in Clients /\ Begin(p, index = None)

(* fs.open() and fs.create(), which overwrites. *)
ClientCreate(p) ==
    /\ p \in Clients /\ pc[p] = "create"
    /\ Created(p)
    /\ Goto(p, "walk")
    /\ UNCHANGED <<file, index, written, at, failures, threw, overlapped, job>>

(* Either throws: the temporary file is deleted, whoever's it is. *)
ClientCreateFails(p) ==
    /\ p \in Clients /\ pc[p] = "create"
    /\ Injected
    /\ Goto(p, "delete")
    /\ UNCHANGED <<file, tmp, index, written, open, at, threw, overlapped, job>>

(* A turn of the loop. *)
ClientWalk(p) ==
    /\ p \in Clients /\ pc[p] = "walk"
    /\ BlockHere(at[p])
    /\ Record(p, at[p], "walk")
    /\ UNCHANGED <<file, tmp, index, open, failures, threw, overlapped, job>>

(* Bug: the end of the file is the end of the blocks. *)
ClientWalkEndsAnywhere(p) ==
    /\ p \in Clients /\ pc[p] = "walk"
    /\ ~BlockHere(at[p])
    /\ Goto(p, "close")
    /\ UNCHANGED <<file, tmp, index, written, open, at, failures, threw, overlapped, job>>

(* The null word: indexingSucceeded. *)
ClientWalkEnds(p) ==
    /\ p \in Clients /\ pc[p] = "walk"
    /\ EndHere(at[p])
    /\ Goto(p, "close")
    /\ UNCHANGED <<file, tmp, index, written, open, at, failures, threw, overlapped, job>>

(* The file has no more, a read or a write throws, or the output is gone. *)
ClientWalkFails(p) ==
    /\ p \in Clients /\ pc[p] = "walk"
    /\ \/ ~BlockHere(at[p]) /\ ~EndHere(at[p]) /\ UNCHANGED failures
       \/ ~Alive(p) /\ UNCHANGED failures
       \/ Injected
    /\ Goto(p, "cleanup")
    /\ UNCHANGED <<file, tmp, index, written, open, at, threw, overlapped, job>>

(* os.close(); when it throws neither the delete nor the rename is done. *)
ClientClose(p) ==
    /\ p \in Clients /\ pc[p] \in {"close", "cleanup"}
    /\ open' = open \ {p}
    /\ IF Alive(p) THEN /\ Goto(p, IF pc[p] = "close" THEN "rename" ELSE "delete")
                        /\ UNCHANGED threw
                   ELSE Throws(p)
    /\ UNCHANGED <<file, tmp, index, written, at, failures, overlapped, job>>

ClientDelete(p) ==
    /\ p \in Clients /\ pc[p] = "delete"
    /\ tmp' = None
    /\ Throws(p)
    /\ UNCHANGED <<file, index, written, open, at, failures, overlapped, job>>

(* What the rename answers is not looked at. *)
ClientRename(p) ==
    /\ p \in Clients /\ pc[p] = "rename"
    /\ Renamed
    /\ Goto(p, "done")
    /\ UNCHANGED <<file, written, open, at, failures, threw, overlapped, job>>

-----------------------------------------------------------------------------
(* A task: LzoSplitRecordReader and LzoIndexRecordWriter *)

(* walkPath, when the job is submitted: a file with an index that is not   *)
(* of length zero is skipped.  When an attempt has failed, Hadoop may make *)
(* another, for which nothing looks again.                                 *)
TaskBegin(p) ==
    /\ p \in Tasks
    /\ \/ \E len \in IF index = None THEN {0} ELSE Visible(index) : Begin(p, len = 0)
       \/ Tasks \cap threw # {} /\ Begin(p, TRUE)

(* The first record: setupOutputFile deletes what there is. *)
TaskDeleteTmp(p) ==
    /\ p \in Tasks /\ pc[p] = "create"
    /\ BlockHere(at[p]) /\ AfterBlock(at[p]) <= file.len
    /\ tmp' = None
    /\ Goto(p, "deleteIndex")
    /\ UNCHANGED <<file, index, written, open, at, failures, threw, overlapped, job>>

(* Bug: the index of an earlier attempt stays. *)
TaskKeepIndex(p) ==
    /\ p \in Tasks /\ pc[p] = "deleteIndex"
    /\ Goto(p, "setup")
    /\ UNCHANGED <<file, tmp, index, written, open, at, failures, threw, overlapped, job>>

TaskDeleteIndex(p) ==
    /\ p \in Tasks /\ pc[p] = "deleteIndex"
    /\ index' = None
    /\ Goto(p, "setup")
    /\ UNCHANGED <<file, tmp, written, open, at, failures, threw, overlapped, job>>

(* fs.create(), which does not overwrite, and the first record. *)
TaskCreate(p) ==
    /\ p \in Tasks /\ pc[p] = "setup"
    /\ tmp = None
    /\ Created(p)
    /\ Record(p, at[p], "walk")
    /\ UNCHANGED <<file, index, failures, threw, overlapped, job>>

(* Another indexer has created the temporary file since it was deleted. *)
TaskCreateRefused(p) ==
    /\ p \in Tasks /\ pc[p] = "setup"
    /\ tmp # None
    /\ Throws(p)
    /\ UNCHANGED <<file, tmp, index, written, open, at, failures, overlapped, job>>

(* A record, which nextKeyValue() returns once it has sought past it. *)
TaskWalk(p) ==
    /\ p \in Tasks /\ pc[p] = "walk"
    /\ BlockHere(at[p]) /\ AfterBlock(at[p]) <= file.len
    /\ Record(p, at[p], "walk")
    /\ UNCHANGED <<file, tmp, index, open, failures, threw, overlapped, job>>

(* No more records; without one there is no output to close. *)
TaskWalkEnds(p) ==
    /\ p \in Tasks /\ pc[p] \in {"create", "walk"}
    /\ EndHere(at[p])
    /\ Goto(p, IF pc[p] = "walk" THEN "close" ELSE "done")
    /\ UNCHANGED <<file, tmp, index, written, open, at, failures, threw, overlapped, job>>

(* nextKeyValue() or write() throws.  The task has failed, and Hadoop may  *)
(* close its record writer for it.                                         *)
TaskFails(p) ==
    /\ p \in Tasks /\ pc[p] \in {"create", "walk"}
    /\ \/ /\ ~EndHere(at[p])
          /\ ~(BlockHere(at[p]) /\ AfterBlock(at[p]) <= file.len)
          /\ UNCHANGED failures
       \/ pc[p] = "walk" /\ ~Alive(p) /\ UNCHANGED failures
       \/ Injected
    /\ threw' = threw \cup {p}
    /\ IF pc[p] = "walk" /\ ClosesOnFailure THEN Goto(p, "close") /\ UNCHANGED open
       ELSE Goto(p, "done") /\ open' = open \ {p}
    /\ UNCHANGED <<file, tmp, index, written, at, overlapped, job>>

(* close() of LzoIndexRecordWriter: first the output, then the rename. *)
TaskClose(p) ==
    /\ p \in Tasks /\ pc[p] = "close"
    /\ open' = open \ {p}
    /\ IF Alive(p) THEN Goto(p, "rename") /\ UNCHANGED threw ELSE Throws(p)
    /\ UNCHANGED <<file, tmp, index, written, at, failures, overlapped, job>>

TaskRename(p) ==
    /\ p \in Tasks /\ pc[p] = "rename"
    /\ Renamed
    /\ Goto(p, "done")
    /\ UNCHANGED <<file, written, open, at, failures, threw, overlapped, job>>

-----------------------------------------------------------------------------
(* readIndex of a job *)

JobStep(pcs, next) ==
    /\ job.pc = pcs
    /\ job' = next
    /\ UNCHANGED <<file, tmp, index, written, open, pc, at, failures, threw, overlapped>>

(* fs.exists(): without an index the file is not split. *)
JobExists ==
    JobStep("exists", IF index = None THEN [job EXCEPT !.pc = "done", !.index = << >>]
                                      ELSE [job EXCEPT !.pc = "length"])

(* getLen(), which throws when the index is gone. *)
JobLength ==
    IF index = None THEN JobStep("length", [job EXCEPT !.pc = "failed"])
    ELSE \E len \in Visible(index) : JobStep("length", [job EXCEPT !.pc = "read", !.len = len])

(* Bug: what the index does not have stays 0. *)
JobReadsZeros ==
    IF index = None THEN JobStep("read", [job EXCEPT !.pc = "failed"])
    ELSE \E seen \in Visible(index) :
            JobStep("read", [job EXCEPT !.pc = "done",
                                        !.index = [i \in 1 .. job.len |->
                                            IF i <= seen THEN written[index][i] ELSE 0]])

(* The index is opened and that many positions are read: it may be another *)
(* file by now, or a shorter one, which is an EOFException.                *)
JobRead ==
    IF index = None THEN JobStep("read", [job EXCEPT !.pc = "failed"])
    ELSE \E seen \in Visible(index) :
            JobStep("read", IF seen < job.len THEN [job EXCEPT !.pc = "failed"]
                            ELSE [job EXCEPT !.pc = "done",
                                             !.index = SubSeq(written[index], 1, job.len)])

-----------------------------------------------------------------------------
(* What an indexer that has begun does when nothing is in its way. *)
Step(p) ==
    \/ ClientCreate(p) \/ ClientWalk(p) \/ ClientWalkEnds(p)
    \/ ClientWalkFails(p) \/ ClientClose(p) \/ ClientDelete(p) \/ ClientRename(p)
    \/ TaskDeleteTmp(p) \/ TaskDeleteIndex(p) \/ TaskCreate(p) \/ TaskCreateRefused(p)
    \/ TaskWalk(p) \/ TaskWalkEnds(p) \/ TaskFails(p) \/ TaskClose(p) \/ TaskRename(p)

Next ==
    \/ \E p \in Indexers :
            ClientBegin(p) \/ TaskBegin(p) \/ Step(p) \/ ClientCreateFails(p) \/ Crash(p)
    \/ JobExists \/ JobLength \/ JobRead

Spec == Init /\ [][Next]_vars

-----------------------------------------------------------------------------
(* Properties *)

IsWhole(f) == f \notin open /\ written[f] = file.starts

(* Whatever the indexers are doing, a job reads no index, or the positions *)
(* of the first blocks of the file, or it gets an exception: the splits of *)
(* LzoTextJob are made for such an index.                                  *)
JobReadsPrefix == job.pc = "done" => IsPrefix(job.index, file.starts)

(* When nothing fails and the indexers have come to rest, an index is      *)
(* complete; and when only LzoIndexers were started, at least one of them, *)
(* there is an index: that they take each other's temporary files away     *)
(* does not lose all of them.                                              *)
CompleteAtRest ==
    failures = 0 /\ file.whole /\ (\A p \in Indexers : ~Active(p)) =>
        /\ index # None => IsWhole(index)
        /\ (\A p \in Tasks : pc[p] = "start") /\ (\E p \in Clients : pc[p] = "done") => index # None

(* "delete the tmp index file on failure, or rename it to the new index    *)
(* file on success": as long as one works at a time, an index is complete  *)
(* whatever fails and whenever a process dies, and a file that is cut gets *)
(* none.  A failed task whose writer is closed for it is the exception.    *)
AloneIsComplete ==
    ~overlapped /\ index # None /\ ~(index \in Tasks /\ index \in threw) =>
        file.whole /\ IsWhole(index)

(* As long as one indexer works at a time, a task that comes to its end    *)
(* without a failure leaves its own index, and that is complete: also when *)
(* an attempt before it failed and its writer was closed, so that there    *)
(* was an index of the first blocks.                                       *)
RetryRepairs ==
    [][\A p \in Tasks :
            ~overlapped /\ pc[p] = "rename" /\ pc'[p] = "done" /\ p \notin threw' =>
                index' = p /\ file.whole /\ IsWhole(p)']_vars

=============================================================================
