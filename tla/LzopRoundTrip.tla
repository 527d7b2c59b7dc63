--------------------------- MODULE LzopRoundTrip ----------------------------
(***************************************************************************)
(* A file written by an LzopOutputStream and read by an LzopInputStream.   *)
(* The writing process closes its stream, or stops at any moment and       *)
(* leaves in the file a prefix of what the sink was given; then the file   *)
(* is read.                                                                *)
(*                                                                         *)
(* A file that was written on after a torn block is not read here: its     *)
(* tokens are not where the reader looks for them.                         *)
(***************************************************************************)
EXTENDS LzopOutputStream

CONSTANTS
    ReadLens        \* bound: the lengths of the arrays passed to read

ASSUME ReadLensAssumption == ReadLens \subseteq Nat

VARIABLES
    stopped,            \* the writing process has ended
    seen,               \* the file as the reader finds it
    \* the fields of the LzopInputStream
    pos, outputBuffer, outputBufferPos, outputBufferLen,
    headerFlags, eof, opened,
    \* the calls of read
    want, answer, delivered, failed

readerVars == <<seen, pos, outputBuffer, outputBufferPos, outputBufferLen,
                headerFlags, eof, opened, want, answer, delivered, failed>>
tripVars == <<lzopVars, stopped, readerVars>>

Reader == INSTANCE LzopInputStream WITH
    file <- seen, flags <- headerFlags, result <- answer,
    content <- [k \in 1 .. accepted |-> k],
    MaxBlock <- N, MaxBlocks <- 0

-----------------------------------------------------------------------------
TripInit ==
    /\ LzopInit
    /\ stopped = FALSE
    /\ seen = << >>
    /\ Reader!ReaderInit
    /\ headerFlags = {}
    /\ eof = FALSE
    /\ opened = FALSE

Writing ==
    /\ ~stopped
    /\ LzopNext
    /\ UNCHANGED <<stopped, readerVars>>

(* Each block in the file is there in full. *)
LinedUp ==
    /\ \A i \in DOMAIN out : out[i].whole
    /\ \A i \in DOMAIN file : file[i] # Part

(* The writer's process ends; what it wrote before a close() that returned *)
(* is in the file.                                                         *)
Stop ==
    /\ ~stopped
    /\ LinedUp
    /\ stopped' = TRUE
    /\ seen' \in IF closed THEN {file} ELSE {file} \cup Torn(file)
    /\ UNCHANGED <<lzopVars, pos, outputBuffer, outputBufferPos, outputBufferLen,
                   headerFlags, eof, opened, want, answer, delivered, failed>>

Reading ==
    /\ stopped
    /\ UNCHANGED <<lzopVars, stopped>>
    /\ Reader!LzopNext

TripNext == Writing \/ Stop \/ Reading

TripSpec == TripInit /\ [][TripNext]_tripVars

-----------------------------------------------------------------------------
(* Properties *)

(* A reader of a closed file gets every byte that was accepted before the  *)
(* close but for those whose call threw, each once and in order, and then  *)
(* -1; it never gets an exception.                                         *)
RoundTrip ==
    stopped /\ closed =>
        /\ ~failed
        /\ answer = "end" =>
                /\ ToSet(delivered) = 1 .. closedAt \ lost
                /\ \A i, j \in DOMAIN delivered : i < j => delivered[i] < delivered[j]

(* A reader of a file whose writer stopped before close() had written its  *)
(* null word gets a prefix of what was accepted, and an exception, never   *)
(* an end.                                                                 *)
CrashShows ==
    stopped /\ closedAt = Open =>
        /\ answer # "end"
        /\ failures = 0 /\ ~failed => IsPrefix(delivered, [k \in 1 .. accepted |-> k])

=============================================================================
