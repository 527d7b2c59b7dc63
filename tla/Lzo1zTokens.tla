----------------------------- MODULE Lzo1zTokens ----------------------------
(***************************************************************************)
(* The bytes of an LZO1Z block, where they differ from those of LZO1X: the *)
(* two bytes of a distance come the other way round, literals are counted  *)
(* in a match's last byte, and a match that goes as far back as the one    *)
(* before it takes a single byte.                                          *)
(***************************************************************************)
EXTENDS Lzo1xTokens

CONSTANT
    M2_MAX_OFFSET_1Z    \* 0x700

ASSUME OffsetsAssumption1z == M2_MAX_OFFSET_1Z \in Nat \ {0} /\ M2_MAX_OFFSET_1Z <= 1792

LZO1Z == "LZO1Z"
AllAlgorithms == Algorithms \cup {LZO1Z}

MaxM2Offset(a) == IF a = LZO1Z THEN M2_MAX_OFFSET_1Z ELSE M2_MAX_OFFSET[a]
MaxM2Len(a) == IF a = LZO1Z THEN 8 ELSE M2_MAX_LEN[a]

(* The five low bits of a match that repeats an offset: 0x700 >> 6 *)
SAME_OFFSET == 28

-----------------------------------------------------------------------------
(* What the compressor writes *)

ShortCode1z(dist) == <<dist \div 64, LZO_BYTE(dist * 4)>>

M2Code1z(len, off, last) ==
    IF off = last THEN <<(len - 1) * 32 + SAME_OFFSET>>
    ELSE <<(len - 1) * 32 + (off - 1) \div 64, LZO_BYTE((off - 1) * 4)>>

(* The last two bytes swapped *)
Swapped(code) ==
    LET n == Len(code) IN [code EXCEPT ![n - 1] = code[n], ![n] = code[n - 1]]

MatchCode1z(len, off, last) ==
    IF len <= 8 /\ (off <= M2_MAX_OFFSET_1Z \/ off = last) THEN M2Code1z(len, off, last)
    ELSE IF off <= M3_MAX_OFFSET THEN Swapped(M3Code(len, off))
    ELSE Swapped(M4Code(len, off))

WithRun1z(out, lits) ==
    LET t == Len(lits) IN
    IF t <= 3 THEN [out EXCEPT ![Len(out)] = OrCount(@, t)] \o lits ELSE WithRun(out, lits)

-----------------------------------------------------------------------------
(* What decompress() reads.  last is the offset of the match before. *)

Distance1z(bytes, ptr) == At(bytes, ptr) * 64 + At(bytes, ptr + 1) \div 4
ShortDistance1z(t, b) == t * 64 + b \div 4

(* "next" is the pointer beyond the match, as in M3Match and M4Match. *)
M2Match1z(bytes, ptr, t, last) ==
    LET bits == t % 32 IN
    IF bits >= SAME_OFFSET
    THEN [len |-> t \div 32 + 1, off |-> last, next |-> ptr]
    ELSE [len |-> t \div 32 + 1, off |-> 1 + ShortDistance1z(bits, At(bytes, ptr)),
          next |-> ptr + 1]

M3Match1z(bytes, ptr, t) ==
    LET match == M3Match(bytes, ptr, t)
    IN  [match EXCEPT !.off = 1 + Distance1z(bytes, match.next - 2)]

M4Match1z(bytes, ptr, t) ==
    LET match == M4Match(bytes, ptr, t)
        dist == ((t \div 8) % 2) * 16384 + Distance1z(bytes, match.next - 2)
    IN  [match EXCEPT !.off = IF dist = 0 THEN 0 ELSE dist + M3_MAX_OFFSET]

Announced1z(bytes, ptr) == At(bytes, ptr - 1) % 4

=============================================================================
