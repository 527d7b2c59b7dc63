--------------------------- MODULE LzoDecompressor1x --------------------------
(***************************************************************************)
(* LzoDecompressor1x.decompress and its _safe twin, which tests for        *)
(* overruns, and the same for LZO1Y and LZO1Z.  One action reads a         *)
(* token's first byte or its rest; the states are the goto's of            *)
(* lzo1x_d.ch, and t the byte, later the count, they carry along.          *)
(*                                                                         *)
(* The arrays end where the block and the capacity end: to go on beyond    *)
(* them untested is an exception.                                          *)
(***************************************************************************)
EXTENDS Lzo1zTokens

VARIABLES
    algorithm, bytes,   \* the call: which class, and the block it is given
    safe,               \* with the tests
    capacity,           \* the room for the uncompressed bytes
    in_ptr, op,         \* what is read, and what is written
    t, state,
    last_m_off,         \* in LZO1Z: how far back the last match went
    code                \* what decompress returns

callVars == <<algorithm, bytes, safe, capacity>>
decompressVars == <<callVars, in_ptr, op, t, state, last_m_off, code>>

RUNNING == 1
LZO_E_OK == 0
LZO_E_INPUT_OVERRUN == -4
LZO_E_OUTPUT_OVERRUN == -5
LZO_E_LOOKBEHIND_OVERRUN == -6
LZO_E_EOF_NOT_FOUND == -7
LZO_E_INPUT_NOT_CONSUMED == -8
EXCEPTION == -100

-----------------------------------------------------------------------------
(* The token at hand *)

Left(ptr) == Len(bytes) - ptr
Room == capacity - Len(op)

(* The first byte of a longer count or of a match is t. *)
AtRun == state \in {"first_run", "run", "match_next"}
AtMatch == state \in {"match", "first_match"}

CountCut == state = "run" /\ t = 0 /\ ~CountEnds(bytes, in_ptr)

Run ==
    LET count == Count(bytes, in_ptr, t, 15)
    IN  IF state = "run" THEN [n |-> count.n + 3, from |-> count.next]
                         ELSE [n |-> t, from |-> in_ptr]

IsLong == state = "match" /\ t \in 16 .. 63
LengthBits == IF t >= 32 THEN t % 32 ELSE t % 8
LengthCut == IsLong /\ LengthBits = 0 /\ ~CountEnds(bytes, in_ptr)

(* A match of a single byte *)
RepeatsOffset == algorithm = LZO1Z /\ state = "match" /\ t >= 64 /\ t % 32 >= SAME_OFFSET

(* The bytes after a match's first are read untested. *)
MatchCut ==
    LET after == IF IsLong THEN Count(bytes, in_ptr, LengthBits, 0).next + 2
                 ELSE IF RepeatsOffset THEN in_ptr ELSE in_ptr + 1
    IN  Left(after) < 0

ShortMatch ==
    LET b == At(bytes, in_ptr) IN
    IF state = "first_match" THEN MXMatch(algorithm, t, b)
    ELSE IF t >= 64 THEN M2Match(algorithm, t, b)
    ELSE M1Match(t, b)

(* The match at hand, and where the next token is. *)
Match1x ==
    IF ~IsLong THEN [len |-> ShortMatch.len, off |-> ShortMatch.off, next |-> in_ptr + 1]
    ELSE IF t >= 32 THEN M3Match(bytes, in_ptr, t)
    ELSE M4Match(bytes, in_ptr, t)

Match1z ==
    IF IsLong THEN IF t >= 32 THEN M3Match1z(bytes, in_ptr, t) ELSE M4Match1z(bytes, in_ptr, t)
    ELSE IF state = "match" /\ t >= 64 THEN M2Match1z(bytes, in_ptr, t, last_m_off)
    ELSE LET near == 1 + ShortDistance1z(t, At(bytes, in_ptr))
         IN  IF state = "match" THEN [len |-> 2, off |-> near, next |-> in_ptr + 1]
             ELSE [len |-> 3, off |-> M2_MAX_OFFSET_1Z + near, next |-> in_ptr + 1]

Match == IF algorithm = LZO1Z THEN Match1z ELSE Match1x
IsEof == IsLong /\ t < 32 /\ Match.off = 0

(* A block of one byte that announces literals leads to no return at all. *)
AloneInBlock == state = "match_next" /\ in_ptr = 1 /\ Left(1) = 0

RunProblem ==
    IF AloneInBlock THEN EXCEPTION
    ELSE IF CountCut THEN LZO_E_INPUT_OVERRUN
    ELSE IF Room < Run.n THEN LZO_E_OUTPUT_OVERRUN
    ELSE IF Left(Run.from) < Run.n + 1 THEN LZO_E_INPUT_OVERRUN
    ELSE LZO_E_OK

(* Bug: the room for a match is not tested. *)
MatchProblemNoRoom ==
    IF LengthCut THEN LZO_E_INPUT_OVERRUN
    ELSE IF MatchCut THEN EXCEPTION
    ELSE IF IsEof THEN LZO_E_OK
    ELSE IF Match.off \notin 1 .. Len(op) THEN LZO_E_LOOKBEHIND_OVERRUN
    ELSE LZO_E_OK

MatchProblem ==
    IF LengthCut THEN LZO_E_INPUT_OVERRUN
    ELSE IF MatchCut THEN EXCEPTION
    ELSE IF IsEof THEN LZO_E_OK
    ELSE IF Match.off \notin 1 .. Len(op) THEN LZO_E_LOOKBEHIND_OVERRUN
    ELSE IF Room < Match.len THEN LZO_E_OUTPUT_OVERRUN
    ELSE LZO_E_OK

(* An overrun: the safe class returns its code, the other throws.  At the  *)
(* head of a loop it is the end of the block that is missing.              *)
Problem ==
    IF AtRun THEN RunProblem
    ELSE IF AtMatch THEN MatchProblem
    ELSE IF state = "outer" /\ Left(in_ptr) <= 0 THEN LZO_E_EOF_NOT_FOUND
    ELSE LZO_E_OK

Fits == code = RUNNING /\ Problem = LZO_E_OK

-----------------------------------------------------------------------------
Begin ==
    /\ in_ptr = 0 /\ op = << >> /\ t = 0
    /\ last_m_off = 0
    /\ state = "start" /\ code = RUNNING

(* A first byte above 17 is a run of its own. *)
Start ==
    /\ state = "start" /\ bytes # << >>
    /\ LET b == At(bytes, 0) IN
       IF b > 17 THEN /\ in_ptr' = 1 /\ t' = b - 17
                      /\ state' = IF b - 17 < 4 THEN "match_next" ELSE "first_run"
                 ELSE /\ state' = "outer" /\ UNCHANGED <<in_ptr, t>>
    /\ UNCHANGED <<callVars, op, last_m_off, code>>

ReadByte ==
    /\ state \in {"outer", "first_literal_run"} /\ Fits
    /\ in_ptr' = in_ptr + 1
    /\ t' = At(bytes, in_ptr)
    /\ state' = IF t' >= 16 THEN "match"
                ELSE IF state = "outer" THEN "run" ELSE "first_match"
    /\ UNCHANGED <<callVars, op, last_m_off, code>>

CopyRun ==
    /\ AtRun /\ Fits
    /\ op' = op \o SubSeq(bytes, Run.from + 1, Run.from + Run.n)
    /\ IF state # "match_next"
       THEN /\ in_ptr' = Run.from + Run.n
            /\ t' = 0
            /\ state' = "first_literal_run"
       ELSE /\ in_ptr' = in_ptr + t + 1
            /\ t' = At(bytes, in_ptr + t)
            /\ state' = IF safe /\ Left(in_ptr') <= 0 THEN "outer" ELSE "match"
    /\ UNCHANGED <<callVars, last_m_off, code>>

(* A copy of n bytes from off back, each seen by the ones after it. *)
Repeat(n, off) ==
    op \o [i \in 1 .. n |-> op[Len(op) - off + 1 + ((i - 1) % off)]]

CopyMatch ==
    /\ AtMatch /\ Fits /\ ~IsEof
    /\ op' = Repeat(Match.len, Match.off)
    /\ in_ptr' = Match.next
    /\ last_m_off' = IF algorithm = LZO1Z THEN Match.off ELSE last_m_off
    /\ state' = "match_done"
    /\ UNCHANGED <<callVars, t, code>>

MatchDone ==
    /\ state = "match_done"
    /\ t' = IF algorithm = LZO1Z THEN Announced1z(bytes, in_ptr) ELSE Announced(bytes, in_ptr)
    /\ state' = IF t' = 0 THEN "outer" ELSE "match_next"
    /\ UNCHANGED <<callVars, in_ptr, op, last_m_off, code>>

EofFound ==
    /\ AtMatch /\ Fits /\ IsEof
    /\ in_ptr' = Match.next
    /\ code' = IF in_ptr' = Len(bytes) THEN LZO_E_OK ELSE LZO_E_INPUT_NOT_CONSUMED
    /\ state' = "end"
    /\ UNCHANGED <<callVars, op, t, last_m_off>>

Overrun ==
    /\ code = RUNNING /\ Problem # LZO_E_OK
    /\ code' = IF safe THEN Problem ELSE EXCEPTION
    /\ state' = "end"
    /\ UNCHANGED <<callVars, in_ptr, op, t, last_m_off>>

Next ==
    \/ Start \/ ReadByte \/ CopyRun \/ CopyMatch \/ MatchDone \/ EofFound
    \/ Overrun

(* One call, with any bytes whatever for a block *)
DecompressInit ==
    /\ algorithm \in AllAlgorithms
    /\ bytes \in Seq(0 .. 255) /\ bytes # << >>
    /\ safe \in BOOLEAN /\ capacity \in Nat
    /\ Begin

DecompressSpec == DecompressInit /\ [][Next]_decompressVars

-----------------------------------------------------------------------------
(* Properties *)

(* Also in a block that no compressor wrote: nothing is read beyond the    *)
(* block nor written beyond the capacity, the byte that follows a run is   *)
(* there although it is read untested, and so is the one before a match's  *)
(* end that counts the literals (in LZO1Z the last one).                   *)
InArrays ==
    /\ in_ptr \in 0 .. Len(bytes)
    /\ Len(op) <= capacity
    /\ state = "first_literal_run" => in_ptr < Len(bytes)
    /\ state = "match_done" => in_ptr >= IF algorithm = LZO1Z THEN 1 ELSE 2

=============================================================================
