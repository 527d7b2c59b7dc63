----------------------------- MODULE Lzo1xTokens ----------------------------
(***************************************************************************)
(* The bytes of an LZO1X or LZO1Y block.  A block is runs of literal bytes *)
(* and matches <<length, offset>>; the two low bits of a match's           *)
(* next-to-last byte count the one to three literals that may follow it.   *)
(* The first half is what compress() writes, the second what decompress()  *)
(* takes a token's bytes for.  Pointers into a sequence count from 0.      *)
(***************************************************************************)
EXTENDS Integers, Sequences

CONSTANTS
    M1_MAX_OFFSET,
    M2_MAX_OFFSET,      \* one for each algorithm
    M3_MAX_OFFSET,
    M4_MAX_OFFSET

LZO1X == "LZO1X"
LZO1Y == "LZO1Y"
Algorithms == {LZO1X, LZO1Y}

M2_MAX_LEN == [a \in Algorithms |-> IF a = LZO1X THEN 8 ELSE 14]
M3_MAX_LEN == 33
M4_MAX_LEN == 9
M3_MARKER == 32
M4_MARKER == 16
MX_MAX_OFFSET == M1_MAX_OFFSET + M2_MAX_OFFSET[LZO1X]

(* The offsets fit the bits the tokens have for them: 10, 11 (10 in        *)
(* LZO1Y), 14 and 15.  In the code they are 0x400, 0x800 (0x400), 0x4000   *)
(* and 0xBFFF.                                                             *)
ASSUME OffsetsAssumption ==
    /\ M1_MAX_OFFSET \in Nat \ {0} /\ M1_MAX_OFFSET <= 1024
    /\ M2_MAX_OFFSET \in [Algorithms -> Nat \ {0}]
    /\ M2_MAX_OFFSET[LZO1X] <= 2048 /\ M2_MAX_OFFSET[LZO1Y] <= 1024
    /\ M3_MAX_OFFSET \in Nat \ {0} /\ M3_MAX_OFFSET <= 16384
    /\ M4_MAX_OFFSET \in Nat /\ M3_MAX_OFFSET <= M4_MAX_OFFSET
    /\ M4_MAX_OFFSET <= M3_MAX_OFFSET + 32767

LZO_BYTE(x) == x % 256
At(bytes, ptr) == bytes[ptr + 1]

Smallest(S) == CHOOSE x \in S : \A y \in S : x <= y
Least(a, b) == IF a < b THEN a ELSE b

-----------------------------------------------------------------------------
(* What compress() writes *)

(* A count that does not fit: 255 for each zero byte, and the rest. *)
Extended(n) ==
    LET zeros == (n - 1) \div 255
    IN  [i \in 1 .. zeros |-> 0] \o <<n - 255 * zeros>>

(* b | t, for a t of two bits *)
OrCount(b, t) ==
    b + t - (IF b % 2 = 1 /\ t % 2 = 1 THEN 1 ELSE 0)
          - (IF (b \div 2) % 2 = 1 /\ t >= 2 THEN 2 ELSE 0)

RunCode(t) == IF t <= 18 THEN <<t - 3>> ELSE <<0>> \o Extended(t - 18)

(* Bug: the count of a short run replaces the byte it is put into. *)
WithRunPlain(out, lits) ==
    LET t == Len(lits) IN
    IF t <= 3 THEN [out EXCEPT ![Len(out) - 1] = t] \o lits
              ELSE out \o RunCode(t) \o lits

(* A run of literals in the midst of a block. *)
WithRun(out, lits) ==
    LET t == Len(lits) IN
    IF t <= 3 THEN [out EXCEPT ![Len(out) - 1] = OrCount(@, t)] \o lits
              ELSE out \o RunCode(t) \o lits

(* A run that may be the first thing in the block. *)
WithAnyRun(out, lits) ==
    IF out = << >> /\ Len(lits) <= 238 THEN <<17 + Len(lits)>> \o lits
                                       ELSE WithRun(out, lits)

M2Code(a, len, off) ==
    IF a = LZO1X
    THEN <<LZO_BYTE((len - 1) * 32 + ((off - 1) % 8) * 4), LZO_BYTE((off - 1) \div 8)>>
    ELSE <<LZO_BYTE((len + 1) * 16 + ((off - 1) % 4) * 4), LZO_BYTE((off - 1) \div 4)>>

(* The length in a first byte whose low bits hold it up to max, and the    *)
(* distance in two bytes.                                                  *)
LongCode(marker, max, len, dist) ==
    (IF len <= max THEN <<marker + len - 2>> ELSE <<marker>> \o Extended(len - max))
        \o <<LZO_BYTE(dist * 4), LZO_BYTE(dist \div 64)>>

M3Code(len, off) == LongCode(M3_MARKER, M3_MAX_LEN, len, off - 1)

M4Code(len, off) ==
    LET dist == off - M3_MAX_OFFSET
    IN  LongCode(M4_MARKER + ((dist \div 16384) % 2) * 8, M4_MAX_LEN, len, dist)

MatchCode(a, len, off) ==
    IF len <= M2_MAX_LEN[a] /\ off <= M2_MAX_OFFSET[a] THEN M2Code(a, len, off)
    ELSE IF off <= M3_MAX_OFFSET THEN M3Code(len, off)
    ELSE M4Code(len, off)

(* Two bytes, from M1_MAX_OFFSET, and three from just beyond M2_MAX_OFFSET *)
ShortCode(dist) == <<(dist % 4) * 4, LZO_BYTE(dist \div 4)>>
M1Code(off) == ShortCode(off - 1)
MXCode(off) == ShortCode(off - M2_MAX_OFFSET[LZO1X] - 1)

EofCode == <<M4_MARKER + 1, 0, 0>>

-----------------------------------------------------------------------------
(* What decompress() reads.  A count or a match is read at ptr; "next" is  *)
(* the pointer beyond it.  A count of 0 goes on after ptr, base + 255 for  *)
(* each zero byte; Ends says the bytes do not run out in it.               *)

CountEnds(bytes, ptr) == \E k \in ptr .. Len(bytes) - 1 : At(bytes, k) # 0

Count(bytes, ptr, t, base) ==
    IF t # 0 THEN [n |-> t, next |-> ptr]
    ELSE LET last == Smallest({k \in ptr .. Len(bytes) - 1 : At(bytes, k) # 0})
         IN  [n |-> base + 255 * (last - ptr) + At(bytes, last), next |-> last + 1]

M2Match(a, t, b) ==
    IF a = LZO1X
    THEN [len |-> t \div 32 + 1, off |-> 1 + ((t \div 4) % 8) + b * 8]
    ELSE [len |-> t \div 16 - 1, off |-> 1 + ((t \div 4) % 4) + b * 4]

Distance(bytes, ptr) == At(bytes, ptr) \div 4 + At(bytes, ptr + 1) * 64

(* t has been read from ptr - 1. *)
M3Match(bytes, ptr, t) ==
    LET count == Count(bytes, ptr, t % 32, 31)
    IN  [len |-> count.n + 2, off |-> 1 + Distance(bytes, count.next),
         next |-> count.next + 2]

(* An offset of 0 is the end of the block. *)
M4Match(bytes, ptr, t) ==
    LET count == Count(bytes, ptr, t % 8, 7)
        dist == ((t \div 8) % 2) * 16384 + Distance(bytes, count.next)
    IN  [len |-> count.n + 2, off |-> IF dist = 0 THEN 0 ELSE dist + M3_MAX_OFFSET,
         next |-> count.next + 2]

ShortDistance(t, b) == t \div 4 + b * 4
M1Match(t, b) == [len |-> 2, off |-> 1 + ShortDistance(t, b)]
MXMatch(a, t, b) == [len |-> 3, off |-> 1 + M2_MAX_OFFSET[a] + ShortDistance(t, b)]

(* The literals that the match before ptr announces *)
Announced(bytes, ptr) == At(bytes, ptr - 2) % 4

=============================================================================
