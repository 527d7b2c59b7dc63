-------------------------- MODULE LzoAlgorithms_proofs --------------------------
(***************************************************************************)
(* Proofs about the decompressors, for every block they may be given, and  *)
(* about LZO1X-1 and LZO1Y-1 from the input to what comes back.            *)
(*                                                                         *)
(* Any block: what the tests of a decompressor leave out is never needed.  *)
(* The byte read last is a byte, and in the midst of a token at least that *)
(* one has been read; so a match that is not cut ends inside the block.    *)
(*                                                                         *)
(* A block of LzoCompressor1x_1 or LzoCompressor1y_1: the compressor lays  *)
(* a path of places from the first byte to the mark of the end, and        *)
(* decompress goes along it.  What has been copied is always the beginning *)
(* of the input, and what comes next what the place says; where something  *)
(* is missing of the block or of the room, the way ends in an overrun, and *)
(* where nothing is, no test fails.                                        *)
(***************************************************************************)
EXTENDS LzoAlgorithms, LzoCompressor1x_1_proofs

-----------------------------------------------------------------------------
(* The decompressor's tokens are the compressors'. *)

LEMMA SameAlgorithms ==
    /\ Decompressor!LZO1X = LZO1X /\ Decompressor!LZO1Z = LZO1Z
    /\ Decompressor!Algorithms = Algorithms /\ Decompressor!AllAlgorithms = AllAlgorithms
    /\ Decompressor!SAME_OFFSET = SAME_OFFSET
BY DEF LZO1X, LZO1Y, LZO1Z, Algorithms, AllAlgorithms, SAME_OFFSET, Decompressor!LZO1X,
   Decompressor!LZO1Y, Decompressor!LZO1Z, Decompressor!Algorithms, Decompressor!AllAlgorithms,
   Decompressor!SAME_OFFSET

LEMMA SameCounts ==
    ASSUME NEW bs, NEW ptr
    PROVE  /\ Decompressor!At(bs, ptr) = At(bs, ptr)
           /\ Decompressor!CountEnds(bs, ptr) <=> CountEnds(bs, ptr)
           /\ \A first, base :
                Decompressor!Count(bs, ptr, first, base) = Count(bs, ptr, first, base)
           /\ Decompressor!Announced(bs, ptr) = Announced(bs, ptr)
           /\ Decompressor!Announced1z(bs, ptr) = Announced1z(bs, ptr)
BY DEF At, CountEnds, Count, Smallest, Announced, Announced1z, Decompressor!At,
   Decompressor!CountEnds, Decompressor!Count, Decompressor!Smallest, Decompressor!Announced,
   Decompressor!Announced1z

LEMMA SameMatches ==
    ASSUME NEW bs, NEW ptr, NEW first, NEW last
    PROVE  /\ Decompressor!M3Match(bs, ptr, first) = M3Match(bs, ptr, first)
           /\ Decompressor!M4Match(bs, ptr, first) = M4Match(bs, ptr, first)
           /\ Decompressor!M2Match1z(bs, ptr, first, last) = M2Match1z(bs, ptr, first, last)
           /\ Decompressor!M3Match1z(bs, ptr, first) = M3Match1z(bs, ptr, first)
           /\ Decompressor!M4Match1z(bs, ptr, first) = M4Match1z(bs, ptr, first)
<1>1. /\ \A p : Decompressor!Distance(bs, p) = Distance(bs, p)
      /\ \A p : Decompressor!Distance1z(bs, p) = Distance1z(bs, p)
      /\ \A high, low : Decompressor!ShortDistance1z(high, low) = ShortDistance1z(high, low)
  BY DEF At, Distance, Distance1z, ShortDistance1z, Decompressor!At, Decompressor!Distance,
     Decompressor!Distance1z, Decompressor!ShortDistance1z
<1>2. Decompressor!M3Match(bs, ptr, first) = M3Match(bs, ptr, first)
  BY <1>1, SameCounts DEF M3Match, Decompressor!M3Match
<1>3. Decompressor!M4Match(bs, ptr, first) = M4Match(bs, ptr, first)
  <2> DEFINE count == Count(bs, ptr, first % 8, 7)
             dist == ((first \div 8) % 2) * 16384 + Distance(bs, count.next)
  <2>1. Decompressor!Count(bs, ptr, first % 8, 7) = count
    BY SameCounts
  <2>2. ((first \div 8) % 2) * 16384 + Decompressor!Distance(bs, count.next) = dist
    BY <1>1
  <2> HIDE DEF count, dist
  <2>3. Decompressor!M4Match(bs, ptr, first)
          = [len |-> count.n + 2, off |-> IF dist = 0 THEN 0 ELSE dist + M3_MAX_OFFSET,
             next |-> count.next + 2]
    BY <2>1, <2>2 DEF Decompressor!M4Match
  <2>4. M4Match(bs, ptr, first)
          = [len |-> count.n + 2, off |-> IF dist = 0 THEN 0 ELSE dist + M3_MAX_OFFSET,
             next |-> count.next + 2]
    BY DEF M4Match, count, dist
  <2> QED
    BY <2>3, <2>4
<1>4. Decompressor!M2Match1z(bs, ptr, first, last) = M2Match1z(bs, ptr, first, last)
  BY <1>1, SameAlgorithms, SameCounts DEF M2Match1z, Decompressor!M2Match1z
<1>5. Decompressor!M3Match1z(bs, ptr, first) = M3Match1z(bs, ptr, first)
  BY <1>1, <1>2 DEF M3Match1z, Decompressor!M3Match1z
<1>6. Decompressor!M4Match1z(bs, ptr, first) = M4Match1z(bs, ptr, first)
  BY <1>1, <1>3 DEF M4Match1z, Decompressor!M4Match1z
<1> QED
  BY <1>2, <1>3, <1>4, <1>5, <1>6

LEMMA SameShortMatches ==
    ASSUME NEW a, NEW first, NEW b
    PROVE  /\ Decompressor!M2Match(a, first, b) = M2Match(a, first, b)
           /\ Decompressor!M1Match(first, b) = M1Match(first, b)
           /\ Decompressor!MXMatch(a, first, b) = MXMatch(a, first, b)
BY SameAlgorithms
   DEF M2Match, M1Match, MXMatch, ShortDistance, Decompressor!M2Match, Decompressor!M1Match,
   Decompressor!MXMatch, Decompressor!ShortDistance

(* The byte read last is a byte; in the midst of a token at least that one *)
(* has been read.                                                          *)
ReadFields ==
    /\ algorithm \in AllAlgorithms
    /\ bytes \in Seq(Byte)
    /\ capacity \in Nat
    /\ op \in Seq(Byte)
    /\ t \in Byte
    /\ last_m_off \in Nat
    /\ Decompressor!AtMatch => taken >= 1

InBounds == ReadFields /\ Decompressor!InArrays

-----------------------------------------------------------------------------
(* What a match says *)

(* A match that is not cut ends inside the block, and beyond what has been *)
(* read of it unless it repeats an offset.                                 *)
LEMMA MatchInside ==
    ASSUME InBounds, Decompressor!AtMatch, ~Decompressor!LengthCut, ~Decompressor!MatchCut
    PROVE  /\ Decompressor!Match.len \in Nat
           /\ Decompressor!Match.next \in taken .. Len(bytes)
           /\ algorithm # LZO1Z => Decompressor!Match.next >= taken + 1
<1>1. /\ algorithm \in AllAlgorithms /\ bytes \in Seq(Byte) /\ Len(bytes) \in Nat
      /\ taken \in Nat /\ t \in Nat /\ t <= 255
  BY LenProperties DEF InBounds, ReadFields, Decompressor!InArrays, Byte
<1>2. CASE Decompressor!IsLong
  <2> DEFINE base == IF t >= 32 THEN 31 ELSE 7
             count == Count(bytes, taken, Decompressor!LengthBits, base)
  <2>1. Decompressor!LengthBits \in Nat
    BY <1>1, <1>2 DEF Decompressor!LengthBits, Decompressor!IsLong
  <2>2. Decompressor!LengthBits # 0 \/ CountEnds(bytes, taken)
    BY SameCounts, <1>2 DEF Decompressor!LengthCut
  <2>3. count.n \in Nat /\ count.next \in Nat /\ count.next >= taken
    BY <1>1, <2>1, <2>2, CountIs, base \in Nat DEF CountGoesOn
  <2>4. count.next + 2 <= Len(bytes)
    <3>1. count.next = Decompressor!Count(bytes, taken, Decompressor!LengthBits, 0).next
      <4>1. count.next = Count(bytes, taken, Decompressor!LengthBits, 0).next
        BY CountNext
      <4>2. Decompressor!Count(bytes, taken, Decompressor!LengthBits, 0)
              = Count(bytes, taken, Decompressor!LengthBits, 0)
        BY SameCounts
      <4> QED
        BY <4>1, <4>2
    <3> HIDE DEF count
    <3> QED
      BY <1>1, <1>2, <2>3, <3>1 DEF Decompressor!MatchCut, Decompressor!Left
  <2>5. Decompressor!Match.len = count.n + 2 /\ Decompressor!Match.next = count.next + 2
    <3>1. CASE t >= 32
      <4>1. count = Count(bytes, taken, t % 32, 31)
        BY <3>1 DEF Decompressor!LengthBits
      <4> HIDE DEF count
      <4>2. /\ M3Match(bytes, taken, t).len = count.n + 2
            /\ M3Match(bytes, taken, t).next = count.next + 2
        BY <4>1 DEF M3Match
      <4>3. /\ M3Match1z(bytes, taken, t).len = M3Match(bytes, taken, t).len
            /\ M3Match1z(bytes, taken, t).next = M3Match(bytes, taken, t).next
        BY DEF M3Match1z, M3Match
      <4>4. Decompressor!Match = IF algorithm = LZO1Z THEN M3Match1z(bytes, taken, t)
                                         ELSE M3Match(bytes, taken, t)
        BY SameAlgorithms, SameMatches, <1>2, <3>1
           DEF Decompressor!Match, Decompressor!Match1x, Decompressor!Match1z
      <4> QED
        BY <4>2, <4>3, <4>4
    <3>2. CASE ~(t >= 32)
      <4>1. count = Count(bytes, taken, t % 8, 7)
        BY <3>2 DEF Decompressor!LengthBits
      <4> HIDE DEF count
      <4>2. /\ M4Match(bytes, taken, t).len = count.n + 2
            /\ M4Match(bytes, taken, t).next = count.next + 2
        BY <4>1 DEF M4Match
      <4>3. /\ M4Match1z(bytes, taken, t).len = M4Match(bytes, taken, t).len
            /\ M4Match1z(bytes, taken, t).next = M4Match(bytes, taken, t).next
        BY DEF M4Match1z, M4Match
      <4>4. Decompressor!Match = IF algorithm = LZO1Z THEN M4Match1z(bytes, taken, t)
                                         ELSE M4Match(bytes, taken, t)
        BY SameAlgorithms, SameMatches, <1>2, <3>2
           DEF Decompressor!Match, Decompressor!Match1x, Decompressor!Match1z
      <4> QED
        BY <4>2, <4>3, <4>4
    <3> QED
      BY <3>1, <3>2
  <2> HIDE DEF count
  <2> QED
    BY <1>1, <2>3, <2>4, <2>5
<1>3. CASE ~Decompressor!IsLong
  <2> DEFINE after == IF Decompressor!RepeatsOffset THEN taken ELSE taken + 1
  <2>1. after \in Nat /\ after >= taken /\ after <= Len(bytes)
    BY <1>1, <1>3 DEF Decompressor!MatchCut, Decompressor!Left
  <2>2. algorithm # LZO1Z => after = taken + 1
    BY SameAlgorithms DEF Decompressor!RepeatsOffset
  <2>3. Decompressor!Match.len \in Nat /\ Decompressor!Match.next = after
    <3>1. state = "match" => t >= 64 \/ t < 16
      BY <1>1, <1>3 DEF Decompressor!IsLong
    <3>2. CASE algorithm = LZO1Z
      <4>1. CASE state = "match" /\ t >= 64
        <5>1. Decompressor!Match = M2Match1z(bytes, taken, t, last_m_off)
          BY SameAlgorithms, SameMatches, <1>3, <3>2, <4>1
             DEF Decompressor!Match, Decompressor!Match1z
        <5>2. t \div 32 + 1 \in Nat
          BY <1>1
        <5> QED
          BY SameAlgorithms, <3>2, <4>1, <5>1, <5>2 DEF M2Match1z, Decompressor!RepeatsOffset
      <4>2. CASE ~(state = "match" /\ t >= 64)
        <5>1. ~Decompressor!RepeatsOffset
          BY <4>2 DEF Decompressor!RepeatsOffset
        <5>2. Decompressor!Match.len \in {2, 3} /\ Decompressor!Match.next = taken + 1
          BY SameAlgorithms, <1>3, <3>2, <4>2 DEF Decompressor!Match, Decompressor!Match1z
        <5> QED
          BY <5>1, <5>2
      <4> QED
        BY <4>1, <4>2
    <3>3. CASE algorithm # LZO1Z
      <4>1. Decompressor!Match = [len |-> Decompressor!ShortMatch.len,
                                off |-> Decompressor!ShortMatch.off, next |-> taken + 1]
        BY SameAlgorithms, <1>3, <3>3 DEF Decompressor!Match, Decompressor!Match1x
      <4>2. Decompressor!ShortMatch.len \in Nat
        <5>1. CASE state = "first_match"
          <6>1. Decompressor!ShortMatch = MXMatch(algorithm, t, At(bytes, taken))
            BY SameShortMatches, SameCounts, <5>1 DEF Decompressor!ShortMatch
          <6> QED
            BY <6>1 DEF MXMatch
        <5>2. CASE state # "first_match" /\ t >= 64
          <6>1. Decompressor!ShortMatch = M2Match(algorithm, t, At(bytes, taken))
            BY SameShortMatches, SameCounts, <5>2 DEF Decompressor!ShortMatch
          <6>2. t \div 32 + 1 \in Nat /\ t \div 16 - 1 \in Nat
            BY <1>1, <5>2
          <6> QED
            BY <6>1, <6>2 DEF M2Match
        <5>3. CASE state # "first_match" /\ ~(t >= 64)
          <6>1. Decompressor!ShortMatch = M1Match(t, At(bytes, taken))
            BY SameShortMatches, SameCounts, <5>3 DEF Decompressor!ShortMatch
          <6> QED
            BY <6>1 DEF M1Match
        <5> QED
          BY <5>1, <5>2, <5>3
      <4> QED
        BY <2>2, <3>3, <4>1, <4>2
    <3> QED
      BY <3>2, <3>3
  <2> HIDE DEF after
  <2> QED
    BY <1>1, <2>1, <2>2, <2>3
<1> QED
  BY <1>2, <1>3

-----------------------------------------------------------------------------
(* Each step *)

LEMMA Initially == Decompressor!DecompressInit => InBounds
<1> SUFFICES ASSUME Decompressor!DecompressInit PROVE InBounds
  OBVIOUS
<1>1. op = << >> /\ op \in Seq(Byte) /\ Len(op) = 0
  BY DEF Decompressor!DecompressInit, Decompressor!Begin
<1>2. Len(bytes) \in Nat
  BY LenProperties DEF Decompressor!DecompressInit
<1> QED
  BY SameAlgorithms, <1>1, <1>2
     DEF Decompressor!DecompressInit, Decompressor!Begin, InBounds, ReadFields,
     Decompressor!InArrays, Byte, Decompressor!AtMatch

LEMMA StartKeeps == InBounds /\ Decompressor!Start => InBounds'
<1> SUFFICES ASSUME InBounds, Decompressor!Start PROVE InBounds'
  OBVIOUS
<1>1. Len(bytes) \in Nat /\ Len(bytes) >= 1
  BY EmptySeq, LenProperties DEF InBounds, ReadFields, Decompressor!Start
<1>2. At(bytes, 0) \in Byte
  BY <1>1, ByteAt DEF InBounds, ReadFields
<1>3. ReadFields'
  <2>1. t' \in Byte /\ state' \in {"match_next", "first_run", "outer"}
    <3> DEFINE b == At(bytes, 0)
    <3>1. b \in 0 .. 255 /\ t \in 0 .. 255
      BY <1>2 DEF Byte, InBounds, ReadFields
    <3> HIDE DEF b
    <3>2. CASE b > 17
      <4>1. t' = b - 17 /\ state' \in {"match_next", "first_run"}
        BY SameCounts, <3>2 DEF Decompressor!Start, b
      <4> QED
        BY <3>1, <3>2, <4>1 DEF Byte
    <3>3. CASE ~(b > 17)
      <4>1. t' = t /\ state' = "outer"
        BY SameCounts, <3>3 DEF Decompressor!Start, b
      <4> QED
        BY <3>1, <4>1 DEF Byte
    <3> QED
      BY <3>2, <3>3
  <2> QED
    BY <2>1
       DEF InBounds, ReadFields, Decompressor!Start, Decompressor!callVars, Decompressor!AtMatch
<1>4. Decompressor!InArrays'
  BY <1>1, <1>2
     DEF InBounds, ReadFields, Decompressor!InArrays, Decompressor!Start, Decompressor!callVars,
     Byte
<1> QED
  BY <1>3, <1>4 DEF InBounds

(* The byte is there: at the head of the loop it is tested, and behind a   *)
(* run InArrays says so.                                                   *)
LEMMA ReadByteKeeps == InBounds /\ Decompressor!ReadByte => InBounds'
<1> SUFFICES ASSUME InBounds, Decompressor!ReadByte PROVE InBounds'
  OBVIOUS
<1>1. taken \in Nat /\ Len(bytes) \in Nat
  BY LenProperties DEF InBounds, ReadFields, Decompressor!InArrays
<1>2. taken < Len(bytes)
  <2>1. CASE state = "outer"
    BY <1>1, <2>1
       DEF Decompressor!ReadByte, Decompressor!Fits, Decompressor!Problem, Decompressor!AtRun,
       Decompressor!AtMatch, Decompressor!Left,
       Decompressor!LZO_E_EOF_NOT_FOUND, Decompressor!LZO_E_OK
  <2>2. CASE state = "first_literal_run"
    BY <2>2 DEF InBounds, Decompressor!InArrays
  <2> QED
    BY <2>1, <2>2 DEF Decompressor!ReadByte
<1>3. At(bytes, taken) \in Byte
  BY <1>1, <1>2, ByteAt DEF InBounds, ReadFields
<1>4. ReadFields'
  BY SameCounts, <1>1, <1>3
     DEF InBounds, ReadFields, Decompressor!ReadByte, Decompressor!callVars, Decompressor!AtMatch
<1>5. Decompressor!InArrays'
  BY <1>1, <1>2 DEF InBounds, Decompressor!InArrays, Decompressor!ReadByte, Decompressor!callVars
<1> QED
  BY <1>4, <1>5 DEF InBounds

LEMMA CopyRunKeeps == InBounds /\ Decompressor!CopyRun => InBounds'
<1> SUFFICES ASSUME InBounds, Decompressor!CopyRun PROVE InBounds'
  OBVIOUS
<1> DEFINE n == Decompressor!Run.n
           from == Decompressor!Run.from
           first == from + 1
           last == from + n
           part == SubSeq(bytes, first, last)
<1>1. /\ taken \in Nat /\ Len(bytes) \in Nat /\ t \in Nat
      /\ bytes \in Seq(Byte) /\ op \in Seq(Byte) /\ Len(op) \in Nat /\ capacity \in Nat
  BY LenProperties DEF InBounds, ReadFields, Decompressor!InArrays, Byte
<1>2. ~Decompressor!CountCut /\ ~(Decompressor!Room < n) /\ ~(Decompressor!Left(from) < n + 1)
  BY DEF Decompressor!CopyRun, Decompressor!Fits, Decompressor!Problem, Decompressor!RunProblem,
     Decompressor!EXCEPTION, Decompressor!LZO_E_INPUT_OVERRUN,
     Decompressor!LZO_E_OUTPUT_OVERRUN, Decompressor!LZO_E_OK
<1>3. n \in Nat /\ from \in Nat /\ (state # "run" => n = t /\ from = taken)
  <2>1. CASE state = "run"
    <3> DEFINE count == Count(bytes, taken, t, 15)
    <3>1. t # 0 \/ CountEnds(bytes, taken)
      BY SameCounts, <1>2, <2>1 DEF Decompressor!CountCut
    <3>2. CountGoesOn(bytes, taken, t, 15)
      BY <1>1, <3>1, CountIs, 15 \in Nat
    <3>3. count.n \in Nat /\ count.next \in Nat
      BY <3>2 DEF CountGoesOn
    <3>4. Decompressor!Run = [n |-> count.n + 3, from |-> count.next]
      BY SameCounts, <2>1 DEF Decompressor!Run
    <3> HIDE DEF count
    <3> QED
      BY <2>1, <3>3, <3>4
  <2>2. CASE state # "run"
    BY <1>1, <2>2 DEF Decompressor!Run
  <2> QED
    BY <2>1, <2>2
<1>4. n <= capacity - Len(op) /\ from + n + 1 <= Len(bytes)
  BY <1>1, <1>2, <1>3 DEF Decompressor!Room, Decompressor!Left
<1> HIDE DEF n, from
<1>5. part \in Seq(Byte) /\ Len(part) = n
  <2>1. first \in Int /\ last \in Int /\ first >= 1 /\ last <= Len(bytes)
        /\ (IF first <= last THEN last - first + 1 ELSE 0) = n
    BY <1>1, <1>3, <1>4
  <2> HIDE DEF first, last
  <2>2. \A i \in first .. last : bytes[i] \in Byte
    <3> TAKE i \in first .. last
    <3>1. i \in 1 .. Len(bytes)
      BY <1>1, <2>1
    <3> QED
      BY <1>1, <3>1, ElementOfSeq
  <2> QED
    BY <2>1, <2>2, SubSeqProperties
<1>6. op' = op \o part
  BY DEF Decompressor!CopyRun, n, from
<1> HIDE DEF part
<1>7. op' \in Seq(Byte) /\ Len(op') <= capacity'
  <2>1. op' \in Seq(Byte) /\ Len(op') = Len(op) + Len(part)
    BY <1>1, <1>5, <1>6, ConcatProperties
  <2>2. capacity' = capacity
    BY DEF Decompressor!CopyRun, Decompressor!callVars
  <2> QED
    BY <1>1, <1>3, <1>4, <1>5, <2>1, <2>2
<1>8. CASE state # "match_next"
  <2>1. /\ taken' = from + n /\ t' = 0 /\ state' = "first_literal_run"
        /\ UNCHANGED <<Decompressor!callVars, last_m_off, code>>
    BY <1>8 DEF Decompressor!CopyRun, n, from
  <2>2. ReadFields'
    BY <1>7, <2>1 DEF InBounds, ReadFields, Decompressor!callVars, Decompressor!AtMatch, Byte
  <2>3. Decompressor!InArrays'
    BY <1>1, <1>3, <1>4, <1>7, <2>1 DEF InBounds, Decompressor!InArrays, Decompressor!callVars
  <2> QED
    BY <2>2, <2>3 DEF InBounds
<1>9. CASE state = "match_next"
  <2>1. n = t /\ from = taken
    BY <1>3, <1>9
  <2>2. /\ taken' = taken + t + 1 /\ t' = At(bytes, taken + t)
        /\ state' \in {"outer", "match"}
        /\ UNCHANGED <<Decompressor!callVars, last_m_off, code>>
    BY SameCounts, <1>9 DEF Decompressor!CopyRun
  <2>3. At(bytes, taken + t) \in Byte
    <3>1. taken + t \in Nat /\ taken + t < Len(bytes)
      BY <1>1, <1>4, <2>1
    <3> QED
      BY <1>1, <3>1, ByteAt
  <2>4. ReadFields'
    BY <1>1, <1>7, <2>2, <2>3
       DEF InBounds, ReadFields, Decompressor!callVars, Decompressor!AtMatch
  <2>5. Decompressor!InArrays'
    BY <1>1, <1>4, <1>7, <2>1, <2>2 DEF InBounds, Decompressor!InArrays, Decompressor!callVars
  <2> QED
    BY <2>4, <2>5 DEF InBounds
<1> QED
  BY <1>8, <1>9

LEMMA CopyMatchKeeps == InBounds /\ Decompressor!CopyMatch => InBounds'
<1> SUFFICES ASSUME InBounds, Decompressor!CopyMatch PROVE InBounds'
  OBVIOUS
<1> DEFINE len == Decompressor!Match.len
           off == Decompressor!Match.off
<1>1. /\ taken \in Nat /\ Len(bytes) \in Nat /\ op \in Seq(Byte) /\ Len(op) \in Nat
      /\ capacity \in Nat /\ Decompressor!AtMatch /\ taken >= 1 /\ ~Decompressor!AtRun
  BY LenProperties
     DEF InBounds, ReadFields, Decompressor!InArrays, Decompressor!CopyMatch,
     Decompressor!AtMatch, Decompressor!AtRun
<1>2. /\ ~Decompressor!LengthCut /\ ~Decompressor!MatchCut /\ off \in 1 .. Len(op)
      /\ ~(Decompressor!Room < len)
  BY <1>1
     DEF Decompressor!CopyMatch, Decompressor!Fits, Decompressor!Problem,
     Decompressor!MatchProblem,
     Decompressor!EXCEPTION, Decompressor!LZO_E_INPUT_OVERRUN,
     Decompressor!LZO_E_OUTPUT_OVERRUN, Decompressor!LZO_E_LOOKBEHIND_OVERRUN,
     Decompressor!LZO_E_OK
<1>3. /\ len \in Nat
      /\ Decompressor!Match.next \in taken .. Len(bytes)
      /\ algorithm # LZO1Z => Decompressor!Match.next >= taken + 1
  BY <1>1, <1>2, MatchInside
<1>4. /\ op' = Decompressor!Repeat(len, off) /\ taken' = Decompressor!Match.next
      /\ state' = "match_done"
      /\ last_m_off' = IF algorithm = LZO1Z THEN off ELSE last_m_off
      /\ UNCHANGED <<Decompressor!callVars, t, code>>
  BY SameAlgorithms DEF Decompressor!CopyMatch
<1> HIDE DEF len, off
<1>5. len <= capacity - Len(op)
  BY <1>1, <1>2, <1>3 DEF Decompressor!Room
<1> DEFINE copy == [i \in 1 .. len |-> op[Len(op) - off + 1 + ((i - 1) % off)]]
<1>6. copy \in Seq(Byte) /\ Len(copy) = len
  <2>1. ASSUME NEW i \in 1 .. len PROVE op[Len(op) - off + 1 + ((i - 1) % off)] \in Byte
    <3> DEFINE k == (i - 1) % off
               j == Len(op) - off + 1 + k
    <3>1. i - 1 \in Nat /\ off \in Nat /\ off >= 1 /\ off <= Len(op)
      BY <1>1, <1>2, <1>3
    <3>2. k \in Nat /\ k < off
      BY <3>1, RemainderIn
    <3> HIDE DEF k
    <3>3. j \in 1 .. Len(op)
      BY <1>1, <3>1, <3>2
    <3> HIDE DEF j
    <3>4. op[j] \in Byte
      BY <1>1, <3>3, ElementOfSeq
    <3> QED
      BY <3>4 DEF j, k
  <2>2. \A i \in 1 .. len : copy[i] \in Byte
    BY <2>1
  <2>3. len \in Nat /\ copy = [i \in 1 .. len |-> copy[i]]
    BY <1>3
  <2> HIDE DEF copy
  <2> QED
    BY <2>2, <2>3
<1>7. op' = op \o copy
  BY <1>4 DEF Decompressor!Repeat
<1> HIDE DEF copy
<1>8. op' \in Seq(Byte) /\ Len(op') <= capacity
  <2>1. op' \in Seq(Byte) /\ Len(op') = Len(op) + Len(copy)
    BY <1>1, <1>6, <1>7, ConcatProperties
  <2> QED
    BY <1>1, <1>3, <1>5, <1>6, <2>1
<1>9. ReadFields'
  BY <1>2, <1>4, <1>8 DEF InBounds, ReadFields, Decompressor!callVars, Decompressor!AtMatch
<1>10. Decompressor!InArrays'
  BY SameAlgorithms, <1>1, <1>3, <1>4, <1>8
     DEF InBounds, Decompressor!InArrays, Decompressor!callVars
<1> QED
  BY <1>9, <1>10 DEF InBounds

LEMMA MatchDoneKeeps == InBounds /\ Decompressor!MatchDone => InBounds'
<1> SUFFICES ASSUME InBounds, Decompressor!MatchDone PROVE InBounds'
  OBVIOUS
<1>1. /\ taken \in Nat /\ Len(bytes) \in Nat /\ taken <= Len(bytes)
      /\ bytes \in Seq(Byte)
      /\ taken >= IF algorithm = LZO1Z THEN 1 ELSE 2
  BY SameAlgorithms, LenProperties
     DEF InBounds, ReadFields, Decompressor!InArrays, Decompressor!MatchDone
<1>2. t' \in Byte
  <2> DEFINE ptr == IF algorithm = LZO1Z THEN taken - 1 ELSE taken - 2
  <2>1. ptr \in Nat /\ ptr < Len(bytes)
    BY <1>1
  <2>2. t' = At(bytes, ptr) % 4
    BY SameCounts, SameAlgorithms DEF Decompressor!MatchDone, Announced, Announced1z
  <2> HIDE DEF ptr
  <2>3. At(bytes, ptr) \in Byte
    BY <1>1, <2>1, ByteAt
  <2> QED
    BY <2>2, <2>3 DEF Byte
<1>3. ReadFields'
  BY <1>2
     DEF InBounds, ReadFields, Decompressor!MatchDone, Decompressor!callVars, Decompressor!AtMatch
<1>4. Decompressor!InArrays'
  BY DEF InBounds, Decompressor!InArrays, Decompressor!MatchDone, Decompressor!callVars
<1> QED
  BY <1>3, <1>4 DEF InBounds

LEMMA EofFoundKeeps == InBounds /\ Decompressor!EofFound => InBounds'
<1> SUFFICES ASSUME InBounds, Decompressor!EofFound PROVE InBounds'
  OBVIOUS
<1>1. Decompressor!AtMatch /\ ~Decompressor!AtRun /\ taken \in Nat
  BY
     DEF Decompressor!EofFound, Decompressor!AtMatch, Decompressor!AtRun, InBounds,
     Decompressor!InArrays
<1>2. ~Decompressor!LengthCut /\ ~Decompressor!MatchCut
  BY <1>1
     DEF Decompressor!EofFound, Decompressor!Fits, Decompressor!Problem,
     Decompressor!MatchProblem, Decompressor!EXCEPTION, Decompressor!LZO_E_INPUT_OVERRUN,
     Decompressor!LZO_E_OK
<1>3. Decompressor!Match.next \in taken .. Len(bytes)
  BY <1>1, <1>2, MatchInside
<1>4. ReadFields'
  BY DEF InBounds, ReadFields, Decompressor!EofFound, Decompressor!callVars, Decompressor!AtMatch
<1>5. Decompressor!InArrays'
  BY <1>1, <1>3, LenProperties
     DEF InBounds, Decompressor!InArrays, ReadFields, Decompressor!EofFound, Decompressor!callVars
<1> QED
  BY <1>4, <1>5 DEF InBounds

LEMMA OverrunKeeps == InBounds /\ Decompressor!Overrun => InBounds'
BY
   DEF InBounds, ReadFields, Decompressor!InArrays, Decompressor!Overrun, Decompressor!callVars,
   Decompressor!AtMatch

LEMMA IdleKeeps == InBounds /\ UNCHANGED Decompressor!decompressVars => InBounds'
BY
   DEF InBounds, ReadFields, Decompressor!InArrays, Decompressor!decompressVars,
   Decompressor!callVars, Decompressor!AtMatch

(* Whatever block it is given, and however little room, each decompressor  *)
(* of the three algorithms reads inside the block and writes inside the    *)
(* room; what its tests leave out is never needed.                         *)
THEOREM StaysInArrays == Decompressor!DecompressSpec => []Decompressor!InArrays
<1>1. InBounds /\ [Decompressor!Next]_(Decompressor!decompressVars) => InBounds'
  BY StartKeeps, ReadByteKeeps, CopyRunKeeps, CopyMatchKeeps, MatchDoneKeeps, EofFoundKeeps,
     OverrunKeeps, IdleKeeps DEF Decompressor!Next
<1>2. InBounds => Decompressor!InArrays
  BY DEF InBounds
<1> QED
  BY Initially, <1>1, <1>2, PTL DEF Decompressor!DecompressSpec

-----------------------------------------------------------------------------
(* A match in a block that compress wrote, or in the first bytes of it *)

(* The first byte of a match has been read. *)
TokenRead ==
    /\ bytes \in Seq(Byte) /\ out \in Seq(Byte) /\ BeginningOf(bytes, out)
    /\ algorithm \in Algorithms
    /\ state = "match"
    /\ taken \in Nat /\ taken >= 1 /\ t = At(out, taken - 1)

(* Of a match, either something is missing, and nothing is if the block is *)
(* whole; or it is the match that was written.                             *)
LEMMA TokenMatch ==
    ASSUME TokenRead,
           NEW len \in Nat, len >= 4, NEW off \in 1 .. M4_MAX_OFFSET,
           StandsCounted(MatchCode(algorithm, len, off), out, taken - 1)
    PROVE  LET next == taken - 1 + Len(MatchCode(algorithm, len, off)) IN
            /\ ~Decompressor!LengthCut /\ ~Decompressor!MatchCut =>
                  Decompressor!Match = [len |-> len, off |-> off, next |-> next]
            /\ bytes = out => ~Decompressor!LengthCut /\ ~Decompressor!MatchCut
<1> DEFINE p == taken - 1
           next == p + Len(MatchCode(algorithm, len, off))
           match == [len |-> len, off |-> off, next |-> next]
           cut == Decompressor!LengthCut \/ Decompressor!MatchCut
<1>1. /\ p \in Nat /\ p + 1 = taken /\ taken \in Nat
      /\ Len(bytes) \in Nat /\ Len(out) \in Nat /\ state = "match"
      /\ bytes \in Seq(Byte) /\ out \in Seq(Byte) /\ BeginningOf(bytes, out)
      /\ algorithm \in Algorithms
  BY LenProperties DEF TokenRead
<1>2. next \in Nat /\ next <= Len(out)
  <2>1. Len(MatchCode(algorithm, len, off)) \in Nat
    BY <1>1, MatchCodeBytes
  <2> QED
    BY <1>1, <2>1 DEF StandsCounted
<1>3. /\ Decompressor!Match = Decompressor!Match1x /\ ~Decompressor!RepeatsOffset
      /\ Decompressor!AtMatch
  <2>1. algorithm # LZO1Z
    BY <1>1 DEF Algorithms, LZO1X, LZO1Y, LZO1Z
  <2> QED
    BY <1>1, <2>1, SameAlgorithms
       DEF Decompressor!Match, Decompressor!RepeatsOffset, Decompressor!AtMatch
<1>4. \/ /\ t \in Nat /\ 64 <= t /\ next = p + 2
         /\ M2Match(algorithm, t, At(out, p + 1)) = [len |-> len, off |-> off]
      \/ /\ t \in Nat /\ 32 <= t /\ t <= 63
         /\ M3Match(out, p + 1, t) = match
         /\ t % 32 = 0 => CountEnds(out, p + 1)
      \/ /\ t \in Nat /\ 16 <= t /\ t <= 31
         /\ M4Match(out, p + 1, t) = match
         /\ t % 8 = 0 => CountEnds(out, p + 1)
  <2>1. StandsCounted(MatchCode(algorithm, len, off), out, p) /\ len >= 3
    OBVIOUS
  <2>2. algorithm \in Algorithms /\ out \in Seq(Byte) /\ t = At(out, p) /\ p \in Nat
    BY <1>1 DEF TokenRead
  <2> QED
    BY <1>1, <2>1, <2>2, MatchInverse, SMTT(30)
<1>5. CASE /\ t \in Nat /\ 64 <= t /\ next = p + 2
           /\ M2Match(algorithm, t, At(out, p + 1)) = [len |-> len, off |-> off]
  <2>1. ~Decompressor!IsLong
    <3>1. t \in Nat /\ 64 <= t
      BY <1>5
    <3> QED
      BY <3>1 DEF Decompressor!IsLong
  <2>2. ~Decompressor!LengthCut /\ (Decompressor!MatchCut <=> Len(bytes) < taken + 1)
    BY <1>1, <1>3, <2>1
       DEF Decompressor!LengthCut, Decompressor!MatchCut, Decompressor!Left
  <2>3. ASSUME ~Decompressor!MatchCut PROVE Decompressor!Match = match
    <3>1. At(bytes, taken) = At(out, taken)
      BY <1>1, <2>2, <2>3, SameAt
    <3>2. Decompressor!ShortMatch = [len |-> len, off |-> off]
      BY <1>1, <1>5, <3>1, SameCounts, SameShortMatches DEF Decompressor!ShortMatch
    <3>3. next = taken + 1
      BY <1>1, <1>5
    <3> QED
      BY <1>3, <2>1, <3>2, <3>3 DEF Decompressor!Match1x
  <2>4. bytes = out => ~Decompressor!MatchCut
    BY <1>1, <1>2, <1>5, <2>2
  <2> QED
    BY <2>2, <2>3, <2>4
<1>6. ASSUME NEW low \in Nat, NEW base \in Nat, Decompressor!IsLong,
             Decompressor!LengthBits = low,
             low = 0 => CountEnds(out, taken),
             Count(out, taken, low, base).next + 2 = next
      PROVE  /\ ~cut => /\ low # 0 \/ CountEnds(bytes, taken)
                        /\ Count(bytes, taken, low, base).next + 2 <= Len(bytes)
             /\ bytes = out => ~cut
  <2>1. Decompressor!LengthCut <=> low = 0 /\ ~CountEnds(bytes, taken)
    BY <1>6, SameCounts DEF Decompressor!LengthCut
  <2>2. Decompressor!MatchCut
          <=> Len(bytes) - (Count(bytes, taken, low, base).next + 2) < 0
    <3>1. Decompressor!Count(bytes, taken, Decompressor!LengthBits, 0)
            = Count(bytes, taken, low, 0)
      BY <1>6, SameCounts
    <3>2. Count(bytes, taken, low, 0).next = Count(bytes, taken, low, base).next
      BY CountNext
    <3> QED
      BY <1>6, <3>1, <3>2 DEF Decompressor!MatchCut, Decompressor!Left
  <2>3. CASE bytes = out
    BY <1>1, <1>2, <1>6, <2>1, <2>2, <2>3
  <2>4. ASSUME ~cut
        PROVE  /\ low # 0 \/ CountEnds(bytes, taken)
               /\ Count(bytes, taken, low, base).next + 2 <= Len(bytes)
    <3>1. low # 0 \/ CountEnds(bytes, taken)
      BY <2>1, <2>4
    <3>2. Count(bytes, taken, low, base).next \in Nat
      BY <1>1, <3>1, CountIs DEF CountGoesOn
    <3> QED
      BY <1>1, <2>2, <2>4, <3>1, <3>2
  <2> QED
    BY <2>3, <2>4
<1>7. CASE /\ t \in Nat /\ 32 <= t /\ t <= 63
           /\ M3Match(out, p + 1, t) = match
           /\ t % 32 = 0 => CountEnds(out, p + 1)
  <2> DEFINE low == t % 32
  <2>1. Decompressor!IsLong /\ Decompressor!LengthBits = low /\ low \in Nat
    <3>1. t \in Nat /\ 32 <= t /\ t <= 63
      BY <1>7
    <3>2. state = "match" /\ t \in 16 .. 63 /\ t >= 32 /\ low \in Nat
      BY <1>1, <3>1
    <3> QED
      BY <3>2, Zenon DEF Decompressor!IsLong, Decompressor!LengthBits
  <2>2. M3Match(out, taken, t) = match /\ (low = 0 => CountEnds(out, taken))
    BY <1>1, <1>7
  <2>3. Count(out, taken, low, 31).next + 2 = next
    BY <2>2 DEF M3Match
  <2>4. /\ ~cut => /\ low # 0 \/ CountEnds(bytes, taken)
                   /\ Count(bytes, taken, low, 31).next + 2 <= Len(bytes)
        /\ bytes = out => ~cut
    BY <1>6, <2>1, <2>2, <2>3, 31 \in Nat
  <2>5. ASSUME ~cut PROVE Decompressor!Match = match
    <3>1. LET count == Count(bytes, taken, low, 31) IN
            /\ count = Count(out, taken, low, 31)
            /\ Distance(bytes, count.next) = Distance(out, count.next)
      BY <1>1, <2>1, <2>4, <2>5, SameLong, 31 \in Nat
    <3>2. M3Match(bytes, taken, t) = M3Match(out, taken, t)
      BY <3>1 DEF M3Match
    <3> QED
      BY <1>3, <1>7, <2>1, <2>2, <3>2, SameMatches DEF Decompressor!Match1x
  <2> QED
    BY <2>4, <2>5
<1>8. CASE /\ t \in Nat /\ 16 <= t /\ t <= 31
           /\ M4Match(out, p + 1, t) = match
           /\ t % 8 = 0 => CountEnds(out, p + 1)
  <2> DEFINE low == t % 8
  <2>1. Decompressor!IsLong /\ Decompressor!LengthBits = low /\ low \in Nat
    <3>1. t \in Nat /\ 16 <= t /\ t <= 31
      BY <1>8
    <3>2. state = "match" /\ t \in 16 .. 63 /\ ~(t >= 32) /\ low \in Nat
      BY <1>1, <3>1
    <3> QED
      BY <3>2, Zenon DEF Decompressor!IsLong, Decompressor!LengthBits
  <2>2. M4Match(out, taken, t) = match /\ (low = 0 => CountEnds(out, taken))
    BY <1>1, <1>8
  <2>3. Count(out, taken, low, 7).next + 2 = next
    BY <2>2 DEF M4Match
  <2>4. /\ ~cut => /\ low # 0 \/ CountEnds(bytes, taken)
                   /\ Count(bytes, taken, low, 7).next + 2 <= Len(bytes)
        /\ bytes = out => ~cut
    BY <1>6, <2>1, <2>2, <2>3, 7 \in Nat
  <2>5. ASSUME ~cut PROVE Decompressor!Match = match
    <3>1. LET count == Count(bytes, taken, low, 7) IN
            /\ count = Count(out, taken, low, 7)
            /\ Distance(bytes, count.next) = Distance(out, count.next)
      BY <1>1, <2>1, <2>4, <2>5, SameLong, 7 \in Nat
    <3>2. M4Match(bytes, taken, t) = M4Match(out, taken, t)
      BY <3>1 DEF M4Match
    <3>3. ~(t >= 32)
      BY <1>8
    <3> QED
      BY <1>3, <2>1, <2>2, <3>2, <3>3, SameMatches DEF Decompressor!Match1x
  <2> QED
    BY <2>4, <2>5
<1> QED
  BY <1>4, <1>5, <1>7, <1>8

(* The mark of the end is found if the block is whole, and otherwise       *)
(* something is missing of it.                                             *)
LEMMA TokenEof ==
    ASSUME TokenRead,
           NEW d, EofStands(out, orig, taken - 1, d)
    PROVE  /\ ~Decompressor!LengthCut
           /\ Decompressor!MatchCut <=> bytes # out
           /\ bytes = out => Decompressor!IsEof /\ Decompressor!Match.next = Len(bytes)
<1> DEFINE p == taken - 1
<1>1. /\ p \in Nat /\ p + 1 = taken /\ taken \in Nat
      /\ Len(bytes) \in Nat /\ Len(out) \in Nat /\ state = "match"
      /\ bytes \in Seq(Byte) /\ out \in Seq(Byte) /\ BeginningOf(bytes, out)
      /\ algorithm \in Algorithms
  BY LenProperties DEF TokenRead
<1>2. /\ p + 3 = Len(out) /\ Len(EofCode) = 3
      /\ \A i \in 1 .. 3 : out[p + i] = EofCode[i]
  BY DEF EofStands, Stands, EofCode
<1>3. out[p + 1] = 17 /\ out[p + 2] = 0 /\ out[p + 3] = 0
  BY <1>2 DEF EofCode, M4_MARKER
<1>4. t = 17 /\ At(out, taken) = 0 /\ At(out, taken + 1) = 0
  BY <1>1, <1>3 DEF At, TokenRead
<1>5. algorithm # LZO1Z
  BY <1>1 DEF Algorithms, LZO1X, LZO1Y, LZO1Z
<1>6. Decompressor!IsLong /\ Decompressor!LengthBits = 1
  BY <1>1, <1>4 DEF Decompressor!IsLong, Decompressor!LengthBits
<1>7. ~Decompressor!LengthCut
  BY <1>6 DEF Decompressor!LengthCut
<1>8. Count(bytes, taken, 1, 0).next = taken /\ Count(bytes, taken, 1, 7).next = taken
  BY DEF Count
<1>9. Decompressor!MatchCut <=> Len(bytes) - (taken + 2) < 0
  BY <1>6, <1>8, SameCounts DEF Decompressor!MatchCut, Decompressor!Left
<1>10. bytes = out <=> Len(bytes) = Len(out)
  <2>1. ASSUME Len(bytes) = Len(out) PROVE bytes = out
    <3>1. \A i \in 1 .. Len(bytes) : bytes[i] = out[i]
      BY <1>1 DEF BeginningOf
    <3> QED
      BY <1>1, <2>1, <3>1, SeqEqual
  <2> QED
    BY <2>1
<1>11. Decompressor!MatchCut <=> bytes # out
  <2>1. Len(bytes) <= Len(out)
    BY <1>1 DEF BeginningOf
  <2> QED
    BY <1>1, <1>2, <1>9, <1>10, <2>1
<1>12. ASSUME bytes = out
       PROVE  Decompressor!IsEof /\ Decompressor!Match.next = Len(bytes)
  <2>1. Decompressor!Match = M4Match(bytes, taken, t)
    BY <1>1, <1>4, <1>5, <1>6, SameAlgorithms, SameMatches
       DEF Decompressor!Match, Decompressor!Match1x
  <2>2. t % 8 = 1 /\ (t \div 8) % 2 = 0
    BY <1>4
  <2>3. Count(bytes, taken, t % 8, 7).next = taken
    BY <1>8, <2>2
  <2>4. Distance(bytes, taken) = 0
    BY <1>4, <1>12 DEF Distance
  <2>5. M4Match(bytes, taken, t).off = 0 /\ M4Match(bytes, taken, t).next = taken + 2
    BY <2>2, <2>3, <2>4 DEF M4Match
  <2> QED
    BY <1>1, <1>2, <1>4, <1>6, <1>12, <2>1, <2>5 DEF Decompressor!IsEof
<1> QED
  BY <1>7, <1>11, <1>12

(* What CopyMatch appends *)
LEMMA RepeatIs ==
    ASSUME op \in Seq(Byte), NEW s \in Seq(Byte), BeginningOf(op, s),
           NEW n \in Nat, NEW off \in Nat, Copies(s, Len(op), Len(op) + n, off)
    PROVE  LET w == Decompressor!Repeat(n, off) IN
            BeginningOf(w, s) /\ Len(w) = Len(op) + n
<1> DEFINE copy == [i \in 1 .. n |-> op[Len(op) - off + 1 + ((i - 1) % off)]]
<1>1. Len(op) \in Nat /\ Len(s) \in Nat /\ off >= 1 /\ off <= Len(op) /\ Len(op) + n <= Len(s)
  BY LenProperties DEF Copies
<1>2. \A i \in 1 .. n : s[Len(op) + i] = s[Len(op) - off + 1 + ((i - 1) % off)]
  <2>1. Periodic(s, Len(op), n, off)
    BY <1>1, CopiesAround
  <2> QED
    BY <2>1 DEF Periodic
<1>3. ASSUME NEW i \in 1 .. n
      PROVE  copy[i] \in Byte /\ copy[i] = s[Len(op) + i]
  <2> DEFINE j == Len(op) - off + 1 + ((i - 1) % off)
  <2>1. j \in 1 .. Len(op)
    <3>1. (i - 1) % off \in Nat /\ (i - 1) % off < off
      <4>1. i - 1 \in Nat
        OBVIOUS
      <4> QED
        BY <1>1, <4>1, Around
    <3> QED
      BY <1>1, <3>1
  <2>2. copy[i] = op[j] /\ s[Len(op) + i] = s[j]
    BY <1>2
  <2> HIDE DEF j
  <2>3. op[j] \in Byte /\ op[j] = s[j]
    BY <2>1, ElementOfSeq DEF BeginningOf
  <2> QED
    BY <2>2, <2>3
<1>4. Decompressor!Repeat(n, off) = op \o copy
  BY DEF Decompressor!Repeat
<1>5. copy = [i \in 1 .. n |-> copy[i]]
  OBVIOUS
<1> HIDE DEF copy
<1>6. copy \in Seq(Byte) /\ Len(copy) = n
  <2>1. \A i \in 1 .. n : copy[i] \in Byte
    BY <1>3
  <2>2. copy \in [1 .. n -> Byte]
    BY <1>5, <2>1, Zenon
  <2> HIDE DEF copy
  <2> QED
    BY <2>2, SMTT(20)
<1>7. \A k \in 1 .. Len(copy) : copy[k] = s[Len(op) + k]
  BY <1>3, <1>6
<1> QED
  BY <1>1, <1>4, <1>6, <1>7, Grown

-----------------------------------------------------------------------------
(* A decompressor on its way through what compress wrote *)

AllRead == bytes = out /\ capacity = Len(orig)

(* What has been copied is right, and at each state the places of the      *)
(* block say what comes next.                                              *)
Reads(places) ==
    /\ state \in {"start", "outer", "run", "first_run", "match_next", "first_literal_run",
                  "match", "match_done"}
    /\ state = "start" => taken = 0 /\ op = << >>
    /\ state = "outer" =>
        \/ <<taken, Len(op)>> \in places /\ NoneAnnounced(out, taken)
        \/ taken >= Len(bytes) /\ ~AllRead
    /\ state = "run" =>
        /\ taken >= 1 /\ t = At(out, taken - 1)
        /\ \E n, p \in Nat : /\ ManyLits(out, orig, taken - 1, Len(op), n, p)
                             /\ Token(algorithm, out, orig, places, p, Len(op) + n)
    /\ state \in {"first_run", "match_next"} =>
        Ahead(algorithm, out, orig, places, taken, Len(op), t)
    /\ state = "first_literal_run" => Token(algorithm, out, orig, places, taken, Len(op))
    /\ state = "match" =>
        /\ taken >= 1 /\ t = At(out, taken - 1)
        /\ Token(algorithm, out, orig, places, taken - 1, Len(op))
    /\ state = "match_done" => <<taken, Len(op)>> \in places

(* The call: some first bytes of the block, into some of the room *)
Called ==
    /\ algorithm \in Algorithms /\ orig \in Seq(Byte) /\ out \in Seq(Byte)
    /\ bytes # << >> /\ BeginningOf(bytes, out)
    /\ capacity <= Len(orig)

Travels(places) ==
    /\ Called
    /\ Complete(algorithm, out, orig, places)
    /\ BeginningOf(op, orig)
    /\ code = Decompressor!RUNNING
    /\ Reads(places)

LEMMA Sizes ==
    ASSUME InBounds, NEW places, Travels(places)
    PROVE  /\ algorithm \in Algorithms /\ algorithm # LZO1Z
           /\ orig \in Seq(Byte) /\ out \in Seq(Byte) /\ bytes \in Seq(Byte) /\ op \in Seq(Byte)
           /\ Len(orig) \in Nat /\ Len(out) \in Nat /\ Len(bytes) \in Nat /\ Len(op) \in Nat
           /\ BeginningOf(bytes, out) /\ Len(bytes) <= Len(out) /\ Len(bytes) >= 1
           /\ BeginningOf(op, orig) /\ Len(op) <= capacity /\ capacity <= Len(orig)
           /\ taken \in Nat /\ taken <= Len(bytes) /\ t \in Nat /\ capacity \in Nat
           /\ places \in SUBSET (Nat \X Nat) /\ <<0, 0>> \in places
           /\ \A x \in places : Leads(algorithm, out, orig, places, x)
<1>1. /\ algorithm \in Algorithms /\ orig \in Seq(Byte) /\ out \in Seq(Byte)
      /\ bytes # << >> /\ BeginningOf(bytes, out) /\ capacity <= Len(orig)
      /\ BeginningOf(op, orig)
  BY DEF Travels, Called
<1>2. /\ bytes \in Seq(Byte) /\ op \in Seq(Byte) /\ capacity \in Nat /\ t \in Byte
      /\ Len(op) <= capacity /\ taken \in 0 .. Len(bytes)
  BY DEF InBounds, ReadFields, Decompressor!InArrays
<1>3. /\ places \in SUBSET (Nat \X Nat) /\ <<0, 0>> \in places
      /\ \A x \in places : Leads(algorithm, out, orig, places, x)
  BY DEF Travels, Complete
<1>4. algorithm # LZO1Z
  BY <1>1 DEF Algorithms, LZO1X, LZO1Y, LZO1Z
<1>5. Len(orig) \in Nat /\ Len(out) \in Nat /\ Len(bytes) \in Nat /\ Len(op) \in Nat
  BY <1>1, <1>2, LenProperties
<1>6. Len(bytes) <= Len(out) /\ Len(bytes) # 0
  BY <1>1, <1>2, EmptySeq DEF BeginningOf
<1>7. t \in Nat
  BY <1>2 DEF Byte
<1> QED
  BY <1>1, <1>2, <1>3, <1>4, <1>5, <1>6, <1>7

LEMMA StillCalled ==
    ASSUME NEW places, Travels(places), UNCHANGED callVars, UNCHANGED <<bytes, capacity>>
    PROVE  /\ Called' /\ Complete(algorithm, out, orig, places)'
           /\ out' = out /\ orig' = orig /\ algorithm' = algorithm
BY DEF Travels, Called, callVars

LEMMA StartTravels ==
    ASSUME InBounds, NEW places, Travels(places), Decompressor!Start, UNCHANGED callVars
    PROVE  Travels(places)'
<1>1. /\ bytes \in Seq(Byte) /\ out \in Seq(Byte) /\ BeginningOf(bytes, out) /\ Len(bytes) >= 1
      /\ <<0, 0>> \in places /\ Leads(algorithm, out, orig, places, <<0, 0>>)
      /\ Len(bytes) \in Nat
  BY Sizes
<1>2. state = "start" /\ taken = 0 /\ op = << >> /\ Len(op) = 0
  BY DEF Decompressor!Start, Travels, Reads
<1>3. /\ Called' /\ Complete(algorithm, out, orig, places)'
      /\ out' = out /\ orig' = orig /\ algorithm' = algorithm
      /\ op' = op /\ code' = code /\ bytes' = bytes
  <2>1. UNCHANGED <<bytes, capacity>>
    BY DEF Decompressor!Start, Decompressor!callVars
  <2> QED
    BY <2>1, StillCalled DEF Decompressor!Start, Decompressor!callVars
<1> DEFINE b == At(out, 0)
<1>4. At(bytes, 0) = b
  BY <1>1, SameAt
<1>5. b \in Nat
  <2>1. At(bytes, 0) \in Byte
    BY <1>1, ByteAt
  <2> QED
    BY <1>4, <2>1 DEF Byte
<1> HIDE DEF b
<1>6. CASE b > 17
  <2>1. taken' = 1 /\ t' = b - 17 /\ state' \in {"match_next", "first_run"}
    BY <1>4, <1>6, SameCounts DEF Decompressor!Start
  <2>2. Ahead(algorithm, out, orig, places, 1, 0, b - 17)
    BY <1>1, <1>5, <1>6, FirstAhead DEF b
  <2>3. Reads(places)'
    BY <1>2, <1>3, <2>1, <2>2 DEF Reads
  <2> QED
    BY <1>3, <2>3 DEF Travels
<1>7. CASE ~(b > 17)
  <2>1. taken' = 0 /\ state' = "outer"
    BY <1>2, <1>4, <1>7, SameCounts DEF Decompressor!Start
  <2>2. NoneAnnounced(out, 0)
    BY <1>5, <1>7 DEF NoneAnnounced, At, b
  <2>3. Reads(places)'
    BY <1>1, <1>2, <1>3, <2>1, <2>2 DEF Reads
  <2> QED
    BY <1>3, <2>3 DEF Travels
<1> QED
  BY <1>6, <1>7

LEMMA ReadByteTravels ==
    ASSUME InBounds, NEW places, Travels(places), Decompressor!ReadByte, UNCHANGED callVars
    PROVE  Travels(places)'
<1>1. /\ bytes \in Seq(Byte) /\ out \in Seq(Byte) /\ BeginningOf(bytes, out)
      /\ Len(bytes) \in Nat /\ Len(op) \in Nat /\ taken \in Nat /\ algorithm \in Algorithms
      /\ places \in SUBSET (Nat \X Nat)
      /\ \A x \in places : Leads(algorithm, out, orig, places, x)
  BY Sizes
<1>2. taken < Len(bytes)
  <2>1. CASE state = "outer"
    BY <1>1, <2>1
       DEF Decompressor!ReadByte, Decompressor!Fits, Decompressor!Problem, Decompressor!AtRun,
       Decompressor!AtMatch, Decompressor!Left, Decompressor!LZO_E_EOF_NOT_FOUND,
       Decompressor!LZO_E_OK
  <2>2. CASE state = "first_literal_run"
    BY <2>2 DEF InBounds, Decompressor!InArrays
  <2> QED
    BY <2>1, <2>2 DEF Decompressor!ReadByte
<1>3. At(bytes, taken) = At(out, taken)
  BY <1>1, <1>2, SameAt
<1>4. /\ Called' /\ Complete(algorithm, out, orig, places)'
      /\ out' = out /\ orig' = orig /\ algorithm' = algorithm
      /\ op' = op /\ code' = code /\ bytes' = bytes
  <2>1. UNCHANGED <<bytes, capacity>>
    BY DEF Decompressor!ReadByte, Decompressor!callVars
  <2> QED
    BY <2>1, StillCalled DEF Decompressor!ReadByte, Decompressor!callVars
<1>5. taken' = taken + 1 /\ t' = At(out, taken)
  BY <1>3, SameCounts DEF Decompressor!ReadByte
<1>6. taken' - 1 = taken /\ taken' >= 1
  BY <1>1, <1>5
<1>7. CASE state = "outer"
  <2>1. <<taken, Len(op)>> \in places /\ NoneAnnounced(out, taken)
    BY <1>1, <1>2, <1>7 DEF Travels, Reads
  <2>2. \/ At(out, taken) >= 16 /\ Token(algorithm, out, orig, places, taken, Len(op))
        \/ /\ ~(At(out, taken) >= 16)
           /\ \E n, p \in Nat : /\ ManyLits(out, orig, taken, Len(op), n, p)
                                /\ Token(algorithm, out, orig, places, p, Len(op) + n)
    BY <1>1, <2>1, NoneAhead
  <2>3. CASE At(out, taken) >= 16 /\ Token(algorithm, out, orig, places, taken, Len(op))
    <3>1. state' = "match"
      BY <1>5, <1>7, <2>3 DEF Decompressor!ReadByte
    <3>2. Reads(places)'
      BY <1>4, <1>5, <1>6, <2>3, <3>1 DEF Reads
    <3> QED
      BY <1>4, <3>2 DEF Travels
  <2>4. CASE /\ ~(At(out, taken) >= 16)
             /\ \E n, p \in Nat : /\ ManyLits(out, orig, taken, Len(op), n, p)
                                  /\ Token(algorithm, out, orig, places, p, Len(op) + n)
    <3>1. state' = "run"
      BY <1>5, <1>7, <2>4 DEF Decompressor!ReadByte
    <3>2. Reads(places)'
      BY <1>4, <1>5, <1>6, <2>4, <3>1 DEF Reads
    <3> QED
      BY <1>4, <3>2 DEF Travels
  <2> QED
    BY <2>2, <2>3, <2>4
<1>8. CASE state = "first_literal_run"
  <2>1. Token(algorithm, out, orig, places, taken, Len(op))
    BY <1>8 DEF Travels, Reads
  <2>2. At(out, taken) >= 16
    BY <1>1, <2>1, TokenInside
  <2>3. state' = "match"
    BY <1>5, <2>2 DEF Decompressor!ReadByte
  <2>4. Reads(places)'
    BY <1>4, <1>5, <1>6, <2>1, <2>3 DEF Reads
  <2> QED
    BY <1>4, <2>4 DEF Travels
<1> QED
  BY <1>7, <1>8 DEF Decompressor!ReadByte

(* A run whose count is not cut is the literals that were written. *)
LEMMA RunAhead ==
    ASSUME InBounds, NEW places, Travels(places), Decompressor!AtRun
    PROVE  /\ bytes = out => ~Decompressor!CountCut
           /\ ~Decompressor!CountCut =>
                /\ Decompressor!Run.n \in Nat /\ Decompressor!Run.from \in Nat
                /\ state # "run" => Decompressor!Run.n = t /\ Decompressor!Run.from = taken
                /\ Ahead(algorithm, out, orig, places, Decompressor!Run.from, Len(op),
                         Decompressor!Run.n)
<1>1. /\ bytes \in Seq(Byte) /\ out \in Seq(Byte) /\ BeginningOf(bytes, out)
      /\ Len(op) \in Nat /\ taken \in Nat /\ t \in Nat
  BY Sizes
<1>2. CASE state # "run"
  <2>1. Ahead(algorithm, out, orig, places, taken, Len(op), t)
    BY <1>2 DEF Travels, Reads, Decompressor!AtRun
  <2>2. Decompressor!Run.n = t /\ Decompressor!Run.from = taken /\ ~Decompressor!CountCut
    BY <1>2 DEF Decompressor!Run, Decompressor!CountCut
  <2> QED
    BY <1>1, <2>1, <2>2
<1>3. CASE state = "run"
  <2> DEFINE b == taken - 1
             count == Count(out, b + 1, At(out, b), 15)
  <2>1. /\ taken >= 1 /\ t = At(out, b)
        /\ \E n, p \in Nat : /\ ManyLits(out, orig, b, Len(op), n, p)
                             /\ Token(algorithm, out, orig, places, p, Len(op) + n)
    BY <1>3 DEF Travels, Reads
  <2>2. PICK n \in Nat, p \in Nat : /\ ManyLits(out, orig, b, Len(op), n, p)
                                    /\ Token(algorithm, out, orig, places, p, Len(op) + n)
    BY <2>1
  <2>3. b \in Nat /\ b + 1 = taken
    BY <1>1, <2>1
  <2>4. /\ count.n + 3 = n /\ count.next \in Nat
        /\ At(out, b) = 0 => CountEnds(out, b + 1)
        /\ Ahead(algorithm, out, orig, places, count.next, Len(op), n)
    <3> HIDE DEF b
    <3> QED
      BY <1>1, <2>2, <2>3, ManyAhead
  <2>5. count = Count(out, taken, t, 15)
    BY <2>1, <2>3
  <2> HIDE DEF count
  <2>6. Decompressor!CountCut <=> t = 0 /\ ~CountEnds(bytes, taken)
    BY <1>3, SameCounts DEF Decompressor!CountCut
  <2>7. bytes = out => ~Decompressor!CountCut
    BY <2>1, <2>3, <2>4, <2>6
  <2>8. ASSUME ~Decompressor!CountCut
        PROVE  Decompressor!Run.n = n /\ Decompressor!Run.from = count.next
    <3>1. Count(bytes, taken, t, 15) = count
      <4>1. t # 0 \/ CountEnds(bytes, taken)
        BY <2>6, <2>8
      <4>2. Count(bytes, taken, t, 15) = Count(out, taken, t, 15)
        BY <1>1, <4>1, SameCount
      <4> QED
        BY <2>5, <4>2
    <3>2. Decompressor!Run = [n |-> count.n + 3, from |-> count.next]
      BY <1>3, <3>1, SameCounts DEF Decompressor!Run
    <3> QED
      BY <2>4, <3>2
  <2> QED
    BY <1>3, <2>4, <2>7, <2>8
<1> QED
  BY <1>2, <1>3

LEMMA CopyRunTravels ==
    ASSUME InBounds, NEW places, Travels(places), Decompressor!CopyRun, UNCHANGED callVars
    PROVE  Travels(places)'
<1> DEFINE n == Decompressor!Run.n
           from == Decompressor!Run.from
           part == SubSeq(bytes, from + 1, from + n)
           d == Len(op)
<1>1. /\ bytes \in Seq(Byte) /\ out \in Seq(Byte) /\ orig \in Seq(Byte) /\ op \in Seq(Byte)
      /\ BeginningOf(bytes, out) /\ BeginningOf(op, orig)
      /\ Len(bytes) \in Nat /\ Len(out) \in Nat /\ Len(orig) \in Nat /\ d \in Nat
      /\ taken \in Nat /\ capacity \in Nat /\ capacity <= Len(orig)
      /\ algorithm \in Algorithms /\ places \in SUBSET (Nat \X Nat)
  BY Sizes
<1>2. /\ ~Decompressor!CountCut /\ ~(Decompressor!Room < n)
      /\ ~(Decompressor!Left(from) < n + 1) /\ Decompressor!AtRun
  BY DEF Decompressor!CopyRun, Decompressor!Fits, Decompressor!Problem, Decompressor!RunProblem,
     Decompressor!EXCEPTION, Decompressor!LZO_E_INPUT_OVERRUN,
     Decompressor!LZO_E_OUTPUT_OVERRUN, Decompressor!LZO_E_OK
<1>3. /\ n \in Nat /\ from \in Nat /\ (state # "run" => n = t /\ from = taken)
      /\ Ahead(algorithm, out, orig, places, from, d, n)
  BY <1>2, RunAhead
<1>4. /\ Called' /\ Complete(algorithm, out, orig, places)'
      /\ out' = out /\ orig' = orig /\ algorithm' = algorithm
      /\ code' = code /\ bytes' = bytes /\ capacity' = capacity
  <2>1. UNCHANGED <<bytes, capacity>>
    BY DEF Decompressor!CopyRun, Decompressor!callVars
  <2> QED
    BY <2>1, StillCalled DEF Decompressor!CopyRun, Decompressor!callVars
<1>5. op' = op \o part
  BY DEF Decompressor!CopyRun
<1>6. /\ state # "match_next" => taken' = from + n /\ state' = "first_literal_run"
      /\ state = "match_next" =>
            /\ taken' = taken + t + 1 /\ t' = At(bytes, taken + t)
            /\ state' = IF safe /\ Decompressor!Left(taken') <= 0 THEN "outer" ELSE "match"
  BY SameCounts DEF Decompressor!CopyRun
<1> HIDE DEF n, from
<1>7. from + n < Len(bytes)
  BY <1>1, <1>2, <1>3 DEF Decompressor!Left
<1>8. /\ part \in Seq(Byte) /\ Len(part) = n
      /\ \A k \in 1 .. n : part[k] = bytes[from + k]
  <2>1. bytes \in Seq(Byte) /\ n \in Nat /\ from \in Nat /\ from + n <= Len(bytes)
    BY <1>1, <1>3, <1>7
  <2> QED
    BY <2>1, PartIs
<1> HIDE DEF part
<1>9. /\ d + n <= Len(orig)
      /\ \A k \in 1 .. n : out[from + k] = orig[d + k]
      /\ Token(algorithm, out, orig, places, from + n, d + n)
  BY <1>3 DEF Ahead, LitsStand
<1>10. BeginningOf(op', orig) /\ Len(op') = d + n
  <2>1. \A k \in 1 .. Len(part) : part[k] = orig[Len(op) + k]
    <3>1. \A k \in 1 .. n : from + k \in 1 .. Len(bytes)
      BY <1>1, <1>3, <1>7
    <3>2. \A k \in 1 .. n : bytes[from + k] = out[from + k]
      BY <1>1, <3>1 DEF BeginningOf
    <3> QED
      BY <1>8, <1>9, <3>2
  <2> QED
    BY <1>1, <1>5, <1>8, <1>9, <2>1, Grown
<1> HIDE DEF d
<1>11. CASE state # "match_next"
  <2>1. Token(algorithm, out, orig, places, taken', Len(op'))
    BY <1>6, <1>9, <1>10, <1>11
  <2>2. Reads(places)'
    BY <1>4, <1>6, <1>11, <2>1 DEF Reads
  <2> QED
    BY <1>4, <1>10, <2>2 DEF Travels
<1>12. CASE state = "match_next"
  <2> DEFINE p == taken + t
  <2>1. n = t /\ from = taken
    BY <1>2, <1>3, <1>12
  <2>2. p \in Nat /\ p < Len(bytes) /\ taken' = p + 1 /\ t' = At(bytes, p) /\ p = from + n
    BY <1>1, <1>3, <1>6, <1>7, <1>12, <2>1
  <2>3. Token(algorithm, out, orig, places, p, Len(op'))
    BY <1>9, <1>10, <2>2
  <2> HIDE DEF p
  <2>4. At(bytes, p) = At(out, p)
    BY <1>1, <2>2, SameAt
  <2>5. p + 2 <= Len(out)
    <3>1. d + n \in Nat
      BY <1>1, <1>3
    <3> QED
      BY <1>1, <1>10, <2>2, <2>3, <3>1, TokenInside
  <2>6. CASE Decompressor!Left(taken') <= 0 /\ state' = "outer"
    <3>1. taken' >= Len(bytes) /\ bytes # out
      BY <1>1, <2>2, <2>5, <2>6 DEF Decompressor!Left
    <3>2. Reads(places)'
      BY <1>4, <2>6, <3>1 DEF Reads, AllRead
    <3> QED
      BY <1>4, <1>10, <3>2 DEF Travels
  <2>7. CASE state' = "match"
    <3>1. taken' - 1 = p /\ taken' >= 1
      BY <2>2
    <3>2. Reads(places)'
      BY <1>4, <2>2, <2>3, <2>4, <2>7, <3>1 DEF Reads
    <3> QED
      BY <1>4, <1>10, <3>2 DEF Travels
  <2> QED
    BY <1>6, <1>12, <2>6, <2>7
<1> QED
  BY <1>11, <1>12

(* The match at hand was written, or the mark of the end. *)
Written1x(places) ==
    \E y \in places, off \in 1 .. M4_MAX_OFFSET :
        LET len == y[2] - Len(op) IN
        /\ len \in Nat /\ len >= 4
        /\ Copies(orig, Len(op), y[2], off)
        /\ StandsCounted(MatchCode(algorithm, len, off), out, taken - 1)
        /\ y[1] = taken - 1 + Len(MatchCode(algorithm, len, off))

LEMMA MatchAhead ==
    ASSUME InBounds, NEW places, Travels(places), Decompressor!AtMatch
    PROVE  /\ TokenRead
           /\ Written1x(places) \/ EofStands(out, orig, taken - 1, Len(op))
<1>1. /\ bytes \in Seq(Byte) /\ out \in Seq(Byte) /\ BeginningOf(bytes, out)
      /\ Len(op) \in Nat /\ taken \in Nat /\ algorithm \in Algorithms
      /\ places \in SUBSET (Nat \X Nat)
  BY Sizes
<1>2. /\ state = "match" /\ taken >= 1 /\ t = At(out, taken - 1)
      /\ Token(algorithm, out, orig, places, taken - 1, Len(op))
  BY DEF Travels, Reads, Decompressor!AtMatch
<1>3. TokenRead
  BY <1>1, <1>2 DEF TokenRead
<1>4. ASSUME NEW y \in places,
             MatchStands(algorithm, out, orig, taken - 1, Len(op), y[1], y[2])
      PROVE  Written1x(places)
  <2>1. PICK off \in Nat :
          /\ Copies(orig, Len(op), y[2], off)
          /\ StandsCounted(MatchCode(algorithm, y[2] - Len(op), off), out, taken - 1)
          /\ y[1] = taken - 1 + Len(MatchCode(algorithm, y[2] - Len(op), off))
    BY <1>4 DEF MatchStands
  <2>2. y[2] \in Nat
    BY <1>1
  <2>3. y[2] - Len(op) >= 4 /\ y[2] - Len(op) \in Nat
    BY <1>1, <1>4, <2>2 DEF MatchStands
  <2>4. off \in 1 .. M4_MAX_OFFSET
    BY <2>1 DEF Copies
  <2> QED
    BY <2>1, <2>3, <2>4 DEF Written1x
<1> QED
  BY <1>2, <1>3, <1>4 DEF Token

(* It is read for what was written. *)
LEMMA MatchIsWritten ==
    ASSUME InBounds, NEW places, Travels(places), Decompressor!AtMatch, Written1x(places)
    PROVE  /\ bytes = out => ~Decompressor!LengthCut /\ ~Decompressor!MatchCut
           /\ ~Decompressor!LengthCut /\ ~Decompressor!MatchCut =>
                /\ Decompressor!Match.len \in Nat
                /\ Decompressor!Match.off \in 1 .. Len(op)
                /\ Copies(orig, Len(op), Len(op) + Decompressor!Match.len,
                          Decompressor!Match.off)
                /\ <<Decompressor!Match.next, Len(op) + Decompressor!Match.len>> \in places
<1>1. Len(op) \in Nat /\ places \in SUBSET (Nat \X Nat)
  BY Sizes
<1>2. TokenRead
  BY MatchAhead
<1>3. PICK y \in places, off \in 1 .. M4_MAX_OFFSET :
        LET len == y[2] - Len(op) IN
        /\ len \in Nat /\ len >= 4
        /\ Copies(orig, Len(op), y[2], off)
        /\ StandsCounted(MatchCode(algorithm, len, off), out, taken - 1)
        /\ y[1] = taken - 1 + Len(MatchCode(algorithm, len, off))
  BY DEF Written1x
<1> DEFINE len == y[2] - Len(op)
           next == taken - 1 + Len(MatchCode(algorithm, len, off))
<1>4. y \in Nat \X Nat /\ Len(op) + len = y[2] /\ y = <<y[1], y[2]>> /\ y[1] = next
  BY <1>1, <1>3
<1>5. /\ len \in Nat /\ len >= 4 /\ StandsCounted(MatchCode(algorithm, len, off), out, taken - 1)
      /\ Copies(orig, Len(op), Len(op) + len, off)
  BY <1>3, <1>4
<1>6. off \in 1 .. Len(op)
  BY <1>1, <1>5 DEF Copies
<1> HIDE DEF len
<1>7. /\ ~Decompressor!LengthCut /\ ~Decompressor!MatchCut =>
            Decompressor!Match = [len |-> len, off |-> off, next |-> next]
      /\ bytes = out => ~Decompressor!LengthCut /\ ~Decompressor!MatchCut
  BY <1>2, <1>5, TokenMatch
<1> HIDE DEF next
<1>8. <<next, Len(op) + len>> \in places
  BY <1>4
<1> QED
  BY <1>5, <1>6, <1>7, <1>8

LEMMA CopyMatchTravels ==
    ASSUME InBounds, NEW places, Travels(places), Decompressor!CopyMatch, UNCHANGED callVars
    PROVE  Travels(places)'
<1> DEFINE len == Decompressor!Match.len
           off == Decompressor!Match.off
<1>1. /\ orig \in Seq(Byte) /\ op \in Seq(Byte) /\ BeginningOf(op, orig)
      /\ Decompressor!AtMatch /\ ~Decompressor!AtRun
  BY Sizes DEF Decompressor!CopyMatch, Decompressor!AtMatch, Decompressor!AtRun
<1>2. ~Decompressor!LengthCut /\ ~Decompressor!MatchCut /\ ~Decompressor!IsEof
  BY <1>1 DEF Decompressor!CopyMatch, Decompressor!Fits, Decompressor!Problem,
     Decompressor!MatchProblem, Decompressor!EXCEPTION, Decompressor!LZO_E_INPUT_OVERRUN,
     Decompressor!LZO_E_OUTPUT_OVERRUN, Decompressor!LZO_E_LOOKBEHIND_OVERRUN,
     Decompressor!LZO_E_OK
<1>3. Written1x(places)
  <2>1. ~EofStands(out, orig, taken - 1, Len(op))
    BY <1>1, <1>2, MatchAhead, TokenEof
  <2> QED
    BY <1>1, <2>1, MatchAhead
<1>4. /\ len \in Nat /\ off \in 1 .. Len(op)
      /\ Copies(orig, Len(op), Len(op) + len, off)
      /\ <<Decompressor!Match.next, Len(op) + len>> \in places
  BY <1>1, <1>2, <1>3, MatchIsWritten
<1>5. /\ op' = Decompressor!Repeat(len, off)
      /\ taken' = Decompressor!Match.next /\ state' = "match_done" /\ code' = code
  BY DEF Decompressor!CopyMatch
<1> HIDE DEF len, off
<1>6. BeginningOf(op', orig) /\ Len(op') = Len(op) + len
  <2>1. off \in Nat
    BY <1>4, LenProperties, <1>1
  <2> QED
    BY <1>1, <1>4, <1>5, <2>1, RepeatIs
<1>7. Called' /\ Complete(algorithm, out, orig, places)' /\ orig' = orig
  <2>1. UNCHANGED <<bytes, capacity>>
    BY DEF Decompressor!CopyMatch, Decompressor!callVars
  <2> QED
    BY <2>1, StillCalled
<1>8. Reads(places)'
  BY <1>4, <1>5, <1>6 DEF Reads
<1> QED
  BY <1>5, <1>6, <1>7, <1>8 DEF Travels

LEMMA MatchDoneTravels ==
    ASSUME InBounds, NEW places, Travels(places), Decompressor!MatchDone, UNCHANGED callVars
    PROVE  Travels(places)'
<1>1. /\ bytes \in Seq(Byte) /\ out \in Seq(Byte) /\ BeginningOf(bytes, out)
      /\ Len(op) \in Nat /\ Len(bytes) \in Nat /\ taken \in Nat /\ taken <= Len(bytes)
      /\ algorithm # LZO1Z
      /\ \A x \in places : Leads(algorithm, out, orig, places, x)
  BY Sizes
<1>2. <<taken, Len(op)>> \in places /\ taken >= 2
  BY <1>1, SameAlgorithms
     DEF Travels, Reads, Decompressor!MatchDone, InBounds, Decompressor!InArrays
<1>3. /\ Called' /\ Complete(algorithm, out, orig, places)'
      /\ out' = out /\ orig' = orig /\ algorithm' = algorithm
      /\ op' = op /\ code' = code /\ taken' = taken
  <2>1. UNCHANGED <<bytes, capacity>>
    BY DEF Decompressor!MatchDone, Decompressor!callVars
  <2> QED
    BY <2>1, StillCalled DEF Decompressor!MatchDone, Decompressor!callVars
<1>4. t' = Announced(out, taken)
  <2>1. At(bytes, taken - 2) = At(out, taken - 2)
    <3>1. taken - 2 \in Nat /\ taken - 2 < Len(bytes)
      BY <1>1, <1>2
    <3> QED
      BY <1>1, <3>1, SameAt
  <2>2. t' = Announced(bytes, taken)
    BY <1>1, SameCounts, SameAlgorithms DEF Decompressor!MatchDone
  <2> QED
    BY <2>1, <2>2 DEF Announced
<1>5. state' = IF t' = 0 THEN "outer" ELSE "match_next"
  BY DEF Decompressor!MatchDone
<1>6. CASE t' = 0
  <2>1. NoneAnnounced(out, taken)
    BY <1>2, <1>4, <1>6 DEF NoneAnnounced
  <2>2. Reads(places)'
    BY <1>2, <1>3, <1>5, <1>6, <2>1 DEF Reads
  <2> QED
    BY <1>3, <2>2 DEF Travels
<1>7. CASE t' # 0
  <2>1. Ahead(algorithm, out, orig, places, taken, Len(op), t')
    BY <1>1, <1>2, <1>4, <1>7, FewAhead
  <2>2. Reads(places)'
    BY <1>3, <1>5, <1>7, <2>1 DEF Reads
  <2> QED
    BY <1>3, <2>2 DEF Travels
<1> QED
  BY <1>6, <1>7

(* The call has returned. *)
Ended ==
    /\ state = "end" /\ code # Decompressor!RUNNING
    /\ BeginningOf(op, orig)
    /\ code = Decompressor!LZO_E_OK => AllRead /\ op = orig
    /\ AllRead => code = Decompressor!LZO_E_OK

LEMMA EofFoundEnds ==
    ASSUME InBounds, NEW places, Travels(places), Decompressor!EofFound, UNCHANGED callVars
    PROVE  Ended'
<1>1. /\ bytes \in Seq(Byte) /\ orig \in Seq(Byte) /\ op \in Seq(Byte) /\ out \in Seq(Byte)
      /\ Len(op) \in Nat /\ Len(orig) \in Nat /\ capacity \in Nat
      /\ BeginningOf(op, orig) /\ Len(op) <= capacity /\ capacity <= Len(orig)
      /\ Decompressor!AtMatch /\ ~Decompressor!AtRun
  BY Sizes DEF Decompressor!EofFound, Decompressor!AtMatch, Decompressor!AtRun
<1>2. ~Decompressor!LengthCut /\ ~Decompressor!MatchCut /\ Decompressor!IsEof
  BY <1>1 DEF Decompressor!EofFound, Decompressor!Fits, Decompressor!Problem,
     Decompressor!MatchProblem, Decompressor!EXCEPTION, Decompressor!LZO_E_INPUT_OVERRUN,
     Decompressor!LZO_E_OUTPUT_OVERRUN, Decompressor!LZO_E_LOOKBEHIND_OVERRUN,
     Decompressor!LZO_E_OK
<1>3. EofStands(out, orig, taken - 1, Len(op))
  <2>1. ASSUME Written1x(places) PROVE FALSE
    <3>1. Decompressor!Match.off \in 1 .. Len(op)
      BY <1>1, <1>2, <2>1, MatchIsWritten
    <3>2. Decompressor!Match.off # 0
      BY <3>1
    <3> QED
      BY <1>2, <3>2 DEF Decompressor!IsEof
  <2> QED
    BY <1>1, <2>1, MatchAhead
<1>4. bytes = out /\ Decompressor!Match.next = Len(bytes)
  BY <1>1, <1>2, <1>3, MatchAhead, TokenEof
<1>5. Len(op) = Len(orig)
  BY <1>3 DEF EofStands
<1>6. op = orig
  <2>1. \A i \in 1 .. Len(op) : op[i] = orig[i]
    BY <1>1 DEF BeginningOf
  <2> QED
    BY <1>1, <1>5, <2>1, SeqEqual
<1>7. capacity = Len(orig)
  BY <1>1, <1>5
<1>8. /\ code' = Decompressor!LZO_E_OK /\ state' = "end" /\ op' = op /\ bytes' = bytes
      /\ capacity' = capacity /\ orig' = orig /\ out' = out
  BY <1>4 DEF Decompressor!EofFound, Decompressor!callVars, callVars
<1>9. code' # Decompressor!RUNNING
  BY <1>8 DEF Decompressor!LZO_E_OK, Decompressor!RUNNING
<1> QED
  BY <1>1, <1>4, <1>6, <1>7, <1>8, <1>9 DEF Ended, AllRead

(* No test fails if all of the block is there and all of the room. *)
LEMMA NoProblem ==
    ASSUME InBounds, NEW places, Travels(places), AllRead
    PROVE  Decompressor!Problem = Decompressor!LZO_E_OK
<1>1. /\ bytes \in Seq(Byte) /\ out \in Seq(Byte) /\ orig \in Seq(Byte)
      /\ Len(bytes) \in Nat /\ Len(out) \in Nat /\ Len(orig) \in Nat /\ Len(op) \in Nat
      /\ taken \in Nat /\ t \in Nat /\ capacity \in Nat
      /\ algorithm \in Algorithms /\ places \in SUBSET (Nat \X Nat)
      /\ \A x \in places : Leads(algorithm, out, orig, places, x)
  BY Sizes
<1>2. bytes = out /\ capacity = Len(orig)
  BY DEF AllRead
<1>3. CASE Decompressor!AtRun
  <2> DEFINE n == Decompressor!Run.n
             from == Decompressor!Run.from
  <2>1. ~Decompressor!CountCut
    BY <1>2, <1>3, RunAhead
  <2>2. /\ n \in Nat /\ from \in Nat /\ (state # "run" => n = t /\ from = taken)
        /\ Ahead(algorithm, out, orig, places, from, Len(op), n)
    BY <1>3, <2>1, RunAhead
  <2> HIDE DEF n, from
  <2>3. /\ Len(op) + n <= Len(orig)
        /\ Token(algorithm, out, orig, places, from + n, Len(op) + n)
    BY <2>2 DEF Ahead, LitsStand
  <2>4. from + n + 2 <= Len(out)
    <3>1. from + n \in Nat /\ Len(op) + n \in Nat
      BY <1>1, <2>2
    <3> QED
      BY <1>1, <2>3, <3>1, TokenInside
  <2>5. ~Decompressor!AloneInBlock
    <3> SUFFICES ASSUME Decompressor!AloneInBlock PROVE FALSE
      OBVIOUS
    <3>1. state = "match_next" /\ taken = 1 /\ Len(bytes) - 1 = 0
      BY DEF Decompressor!AloneInBlock, Decompressor!Left
    <3>2. from = 1
      BY <2>2, <3>1
    <3>3. PICK m \in Nat, size \in Nat : m = n /\ size = Len(out)
      BY <1>1, <2>2
    <3>4. size - 1 = 0
      BY <1>2, <3>1, <3>3
    <3>5. 1 + m + 2 <= size
      BY <2>4, <3>2, <3>3
    <3> QED
      BY <3>4, <3>5
  <2>6. ~(Decompressor!Room < n) /\ ~(Decompressor!Left(from) < n + 1)
    BY <1>1, <1>2, <2>2, <2>3, <2>4 DEF Decompressor!Room, Decompressor!Left
  <2>7. Decompressor!RunProblem = Decompressor!LZO_E_OK
    BY <2>1, <2>5, <2>6 DEF Decompressor!RunProblem, n, from
  <2> QED
    BY <1>3, <2>7 DEF Decompressor!Problem
<1>4. CASE Decompressor!AtMatch
  <2>1. ~Decompressor!AtRun
    BY <1>4 DEF Decompressor!AtRun, Decompressor!AtMatch
  <2>2. CASE EofStands(out, orig, taken - 1, Len(op))
    <3>1. ~Decompressor!LengthCut /\ ~Decompressor!MatchCut /\ Decompressor!IsEof
      BY <1>2, <1>4, <2>2, MatchAhead, TokenEof
    <3> QED
      BY <1>4, <2>1, <3>1 DEF Decompressor!Problem, Decompressor!MatchProblem
  <2>3. CASE Written1x(places)
    <3>1. ~Decompressor!LengthCut /\ ~Decompressor!MatchCut
      BY <1>2, <1>4, <2>3, MatchIsWritten
    <3>2. /\ Decompressor!Match.len \in Nat /\ Decompressor!Match.off \in 1 .. Len(op)
          /\ Len(op) + Decompressor!Match.len <= Len(orig)
      BY <1>4, <2>3, <3>1, MatchIsWritten DEF Copies
    <3>3. ~(Decompressor!Room < Decompressor!Match.len)
      BY <1>1, <1>2, <3>2 DEF Decompressor!Room
    <3> QED
      BY <1>4, <2>1, <3>1, <3>2, <3>3 DEF Decompressor!Problem, Decompressor!MatchProblem
  <2> QED
    BY <1>4, <2>2, <2>3, MatchAhead
<1>5. CASE state = "outer"
  <2>1. <<taken, Len(op)>> \in places
    BY <1>5 DEF Travels, Reads
  <2>2. <<taken, Len(op)>>[1] + 2 <= Len(out)
    <3> DEFINE x == <<taken, Len(op)>>
    <3>1. x \in Nat \X Nat /\ Leads(algorithm, out, orig, places, x)
      BY <1>1, <2>1
    <3> HIDE DEF x
    <3>2. x[1] + 2 <= Len(out)
      BY <1>1, <3>1, LeadsInside
    <3> QED
      BY <3>2 DEF x
  <2>3. ~(Decompressor!Left(taken) <= 0)
    BY <1>1, <1>2, <2>2 DEF Decompressor!Left
  <2> QED
    BY <1>5, <2>3
       DEF Decompressor!Problem, Decompressor!AtRun, Decompressor!AtMatch
<1>6. CASE ~Decompressor!AtRun /\ ~Decompressor!AtMatch /\ state # "outer"
  BY <1>6 DEF Decompressor!Problem
<1> QED
  BY <1>3, <1>4, <1>5, <1>6

LEMMA OverrunEnds ==
    ASSUME InBounds, NEW places, Travels(places), Decompressor!Overrun, UNCHANGED callVars
    PROVE  Ended'
<1>1. ~AllRead
  BY NoProblem DEF Decompressor!Overrun
<1>2. /\ state' = "end" /\ op' = op /\ bytes' = bytes /\ capacity' = capacity
      /\ orig' = orig /\ out' = out
      /\ code' = IF safe THEN Decompressor!Problem ELSE Decompressor!EXCEPTION
  BY DEF Decompressor!Overrun, Decompressor!callVars, callVars
<1>3. Decompressor!Problem # Decompressor!LZO_E_OK
  BY DEF Decompressor!Overrun
<1>4. Decompressor!Problem # Decompressor!RUNNING
  BY DEF Decompressor!Problem, Decompressor!RunProblem, Decompressor!MatchProblem,
     Decompressor!RUNNING, Decompressor!LZO_E_OK, Decompressor!LZO_E_INPUT_OVERRUN,
     Decompressor!LZO_E_OUTPUT_OVERRUN, Decompressor!LZO_E_LOOKBEHIND_OVERRUN,
     Decompressor!LZO_E_EOF_NOT_FOUND, Decompressor!EXCEPTION
<1>5. code' # Decompressor!LZO_E_OK /\ code' # Decompressor!RUNNING
  BY <1>2, <1>3, <1>4
     DEF Decompressor!RUNNING, Decompressor!LZO_E_OK, Decompressor!EXCEPTION
<1>6. ~AllRead' /\ BeginningOf(op, orig)'
  BY <1>1, <1>2 DEF AllRead, Travels
<1> QED
  BY <1>2, <1>5, <1>6 DEF Ended

-----------------------------------------------------------------------------
(* LZO1X-1 and LZO1Y-1, from the input to what comes back *)

Reading ==
    /\ Called
    /\ \/ Ended
       \/ \E places \in SUBSET (Nat \X Nat) : Travels(places)

ThereAndBack ==
    /\ ~both
    /\ IInv /\ Laying /\ Small
    /\ InBounds
    /\ bytes = << >> => Decompressor!Begin
    /\ bytes # << >> => label = "written" /\ Reading

AlgInv == constraint = NONE => ThereAndBack

LEMMA AlgInitially == AlgInit => AlgInv
<1> SUFFICES ASSUME AlgInit, constraint = NONE PROVE ThereAndBack
  BY DEF AlgInv
<1>1. /\ algorithm \in Algorithms /\ orig \in Inputs /\ Ready
      /\ ~both /\ bytes = << >> /\ capacity = 0 /\ Decompressor!Begin
  BY DEF AlgInit, NONE, COMPRESSION, ORIGINAL
<1>2. Init
  BY <1>1 DEF Init
<1>3. IInv /\ Laying /\ Small
  BY <1>2, InitInv, InitLaying, InitSmall
<1>4. InBounds
  <2>1. bytes \in Seq(Byte) /\ Len(bytes) = 0 /\ op = << >> /\ op \in Seq(Byte) /\ Len(op) = 0
    BY <1>1 DEF Decompressor!Begin
  <2>2. algorithm \in AllAlgorithms
    BY <1>1 DEF Algorithms, AllAlgorithms
  <2> QED
    BY <1>1, <2>1, <2>2
       DEF Decompressor!Begin, InBounds, ReadFields, Decompressor!InArrays,
       Decompressor!AtMatch, Byte
<1> QED
  BY <1>1, <1>3, <1>4 DEF ThereAndBack

(* What the decompressor's invariant is about stays when it does. *)
LEMMA ReadKept ==
    ASSUME ThereAndBack, UNCHANGED callVars, UNCHANGED readVars
    PROVE  /\ InBounds' /\ (Decompressor!Begin => Decompressor!Begin')
           /\ Reading => Reading'
<1>1. UNCHANGED Decompressor!decompressVars
  BY DEF callVars, readVars, Decompressor!decompressVars, Decompressor!callVars
<1>2. InBounds'
  BY <1>1, IdleKeeps DEF ThereAndBack
<1>3. /\ algorithm' = algorithm /\ orig' = orig /\ out' = out
      /\ bytes' = bytes /\ capacity' = capacity /\ taken' = taken /\ op' = op /\ t' = t
      /\ state' = state /\ code' = code /\ last_m_off' = last_m_off
  BY DEF callVars, readVars
<1>4. Called => Called'
  BY <1>3 DEF Called
<1>5. Ended => Ended'
  BY <1>3 DEF Ended, AllRead
<1>6. ASSUME NEW places, Travels(places) PROVE Travels(places)'
  <2>1. Reads(places)'
    BY <1>3, <1>6 DEF Travels, Reads, AllRead
  <2> QED
    BY <1>3, <1>4, <1>6, <2>1 DEF Travels
<1>7. Decompressor!Begin => Decompressor!Begin'
  BY <1>3 DEF Decompressor!Begin
<1> QED
  BY <1>2, <1>4, <1>5, <1>6, <1>7 DEF Reading

LEMMA CompressKeeps ==
    ASSUME ThereAndBack, constraint = NONE, Compress
    PROVE  ThereAndBack'
<1>1. bytes' = bytes /\ both' = both /\ UNCHANGED readVars /\ Next
  BY DEF Compress, readVars
<1>2. IInv' /\ Laying' /\ Small'
  BY <1>1, NextKeeps, NextLays DEF ThereAndBack
<1>3. label # "written"
  BY <1>1 DEF Next, StartChunk, Literal, Lookup, EmitMatch, EndChunk, Finish
<1>4. bytes = << >> /\ Decompressor!Begin
  BY <1>3 DEF ThereAndBack
<1>5. Decompressor!Begin' /\ InBounds'
  <2>1. algorithm' = algorithm
    BY <1>1 DEF Next, StartChunk, Literal, Lookup, EmitMatch, EndChunk, Finish, callVars
  <2>2. UNCHANGED Decompressor!decompressVars
    BY <1>1, <2>1 DEF readVars, Decompressor!decompressVars, Decompressor!callVars
  <2>3. InBounds'
    BY <2>2, IdleKeeps DEF ThereAndBack
  <2>4. Decompressor!Begin'
    BY <1>1, <1>4 DEF Decompressor!Begin, readVars
  <2> QED
    BY <2>3, <2>4
<1> QED
  BY <1>1, <1>2, <1>4, <1>5 DEF ThereAndBack

LEMMA CompressorStays ==
    ASSUME IInv, Laying, Small, UNCHANGED vars
    PROVE  IInv' /\ Laying' /\ Small'
BY NextKeeps, NextLays

LEMMA WrittenWhen ==
    ASSUME constraint = NONE
    PROVE  Written <=> label = "written"
<1>1. constraint # COMPRESSION /\ constraint # ORIGINAL
  BY DEF NONE, COMPRESSION, ORIGINAL
<1> QED
  BY <1>1 DEF Written

LEMMA CallKeeps ==
    ASSUME ThereAndBack, constraint = NONE, Call
    PROVE  ThereAndBack'
<1>1. /\ IInv /\ Laying /\ label = "written" /\ bytes = << >> /\ Decompressor!Begin
  BY WrittenWhen DEF ThereAndBack, Call
<1>2. /\ algorithm \in Algorithms /\ algorithm \in AllAlgorithms /\ orig \in Seq(Byte)
      /\ out \in Seq(Byte) /\ Len(orig) \in Nat /\ Len(out) \in Nat
      /\ Describes(algorithm, out, orig)
  <2>1. algorithm \in Algorithms /\ out \in Seq(Byte) /\ orig \in Seq(Byte)
    BY <1>1, Lengths DEF IInv, Fields, Room
  <2> QED
    BY <1>1, <2>1, LenProperties DEF Laying, Algorithms, AllAlgorithms
<1>3. Block = out
  BY DEF Block, NONE, ORIGINAL
<1>4. PICK cut \in Missing, short \in Missing :
        /\ bytes' = SubSeq(out, 1, Len(out) - cut) /\ capacity' = Len(orig) - short
        /\ cut < Len(out) /\ short <= Len(orig)
  BY <1>3 DEF Call
<1>5. cut \in Nat /\ short \in Nat
  BY MissingAssumption
<1>6. /\ UNCHANGED vars /\ UNCHANGED callVars /\ both' = both /\ constraint' = constraint
      /\ taken' = taken /\ op' = op /\ t' = t /\ state' = state
      /\ last_m_off' = last_m_off /\ code' = code
  BY DEF Call, vars
<1>7. /\ bytes' \in Seq(Byte) /\ Len(bytes') \in Nat /\ Len(bytes') >= 1
      /\ BeginningOf(bytes', out) /\ capacity' \in Nat /\ capacity' <= Len(orig)
  <2> DEFINE n == Len(out) - cut
             part == SubSeq(out, 0 + 1, 0 + n)
  <2>1. n \in Nat /\ n >= 1 /\ 0 + n <= Len(out) /\ bytes' = part
    BY <1>2, <1>4, <1>5
  <2> HIDE DEF n
  <2>2. part \in Seq(Byte) /\ Len(part) = n /\ \A k \in 1 .. n : part[k] = out[0 + k]
    BY <1>2, <2>1, PartIs, 0 \in Nat
  <2> HIDE DEF part
  <2>3. BeginningOf(part, out)
    <3>1. \A k \in 1 .. n : 0 + k = k
      BY <2>1
    <3> QED
      BY <2>1, <2>2, <3>1 DEF BeginningOf
  <2>4. capacity' \in Nat /\ capacity' <= Len(orig)
    BY <1>2, <1>4, <1>5
  <2> QED
    BY <2>1, <2>2, <2>3, <2>4
<1>8. bytes' # << >>
  BY <1>7
<1>9. taken = 0 /\ op = << >> /\ t = 0 /\ last_m_off = 0 /\ state = "start"
      /\ code = Decompressor!RUNNING /\ op \in Seq(Byte) /\ Len(op) = 0
  BY <1>1 DEF Decompressor!Begin
<1>10. InBounds'
  BY <1>2, <1>6, <1>7, <1>9
     DEF InBounds, ReadFields, Decompressor!InArrays, Decompressor!AtMatch, Byte, callVars
<1>11. Called'
  BY <1>2, <1>6, <1>7, <1>8 DEF Called, callVars
<1>12. \E places \in SUBSET (Nat \X Nat) : Travels(places)'
  <2>1. PICK places \in SUBSET (Nat \X Nat) : Complete(algorithm, out, orig, places)
    BY <1>2 DEF Describes
  <2>2. Complete(algorithm, out, orig, places)'
    BY <1>6, <2>1 DEF callVars
  <2>3. BeginningOf(op, orig)'
    BY <1>2, <1>6, <1>9 DEF BeginningOf, callVars
  <2>4. Reads(places)'
    BY <1>6, <1>9 DEF Reads
  <2>5. Travels(places)'
    BY <1>6, <1>9, <1>11, <2>2, <2>3, <2>4 DEF Travels
  <2> QED
    BY <2>5
<1>13. Reading'
  BY <1>11, <1>12 DEF Reading
<1>14. IInv' /\ Laying' /\ Small' /\ label' = label
  BY <1>6, CompressorStays DEF ThereAndBack, vars, scanVars
<1> QED
  BY <1>1, <1>6, <1>8, <1>10, <1>13, <1>14 DEF ThereAndBack

LEMMA DecompressKeeps ==
    ASSUME ThereAndBack, constraint = NONE, Decompress
    PROVE  ThereAndBack'
<1>1. /\ Decompressor!Next /\ UNCHANGED vars /\ UNCHANGED callVars /\ both' = both
      /\ label' = label
  BY DEF Decompress, vars, scanVars
<1>2. IInv' /\ Laying' /\ Small'
  BY <1>1, CompressorStays DEF ThereAndBack
<1>3. InBounds'
  BY <1>1, StartKeeps, ReadByteKeeps, CopyRunKeeps, CopyMatchKeeps, MatchDoneKeeps,
     EofFoundKeeps, OverrunKeeps DEF Decompressor!Next, ThereAndBack
<1>4. bytes' = bytes /\ capacity' = capacity
  BY <1>1 DEF Decompressor!Next, Decompressor!Start, Decompressor!ReadByte,
     Decompressor!CopyRun, Decompressor!CopyMatch, Decompressor!MatchDone,
     Decompressor!EofFound, Decompressor!Overrun, Decompressor!callVars
<1>5. bytes # << >>
  <2> SUFFICES ASSUME bytes = << >> PROVE FALSE
    OBVIOUS
  <2>1. state = "start"
    BY DEF ThereAndBack, Decompressor!Begin
  <2>2. Decompressor!Problem = Decompressor!LZO_E_OK
    BY <2>1 DEF Decompressor!Problem, Decompressor!AtRun, Decompressor!AtMatch
  <2> QED
    BY <1>1, <2>1, <2>2
       DEF Decompressor!Next, Decompressor!Start, Decompressor!ReadByte,
       Decompressor!CopyRun, Decompressor!CopyMatch, Decompressor!MatchDone,
       Decompressor!EofFound, Decompressor!Overrun, Decompressor!AtRun, Decompressor!AtMatch
<1>6. label = "written" /\ Reading /\ InBounds
  BY <1>5 DEF ThereAndBack
<1>7. ~Ended
  BY <1>1 DEF Ended, Decompressor!Next, Decompressor!Start, Decompressor!ReadByte,
     Decompressor!CopyRun, Decompressor!CopyMatch, Decompressor!MatchDone,
     Decompressor!EofFound, Decompressor!Overrun, Decompressor!AtRun, Decompressor!AtMatch
<1>8. PICK places \in SUBSET (Nat \X Nat) : Travels(places)
  BY <1>6, <1>7 DEF Reading
<1>9. Called'
  BY <1>1, <1>4, <1>8, StillCalled
<1>10. Travels(places)' \/ Ended'
  BY <1>1, <1>6, <1>8, StartTravels, ReadByteTravels, CopyRunTravels, CopyMatchTravels,
     MatchDoneTravels, EofFoundEnds, OverrunEnds DEF Decompressor!Next
<1>11. Reading'
  BY <1>9, <1>10 DEF Reading
<1> QED
  BY <1>1, <1>2, <1>3, <1>4, <1>5, <1>6, <1>11 DEF ThereAndBack

LEMMA AlgKeeps == AlgInv /\ [AlgNext]_algVars => AlgInv'
<1> SUFFICES ASSUME AlgInv, [AlgNext]_algVars, constraint' = NONE
             PROVE  ThereAndBack'
  BY DEF AlgInv
<1>1. constraint' = constraint
  BY DEF AlgNext, Compress, CompressBest, CompressOriginal, Call, Decompress, Done, algVars
<1>2. ThereAndBack /\ constraint = NONE
  BY <1>1 DEF AlgInv
<1>3. CASE Compress
  BY <1>2, <1>3, CompressKeeps
<1>4. CASE CompressBest
  BY <1>2, <1>4 DEF CompressBest, NONE, COMPRESSION
<1>5. CASE CompressOriginal
  BY <1>2, <1>5 DEF CompressOriginal, NONE, ORIGINAL, ThereAndBack
<1>6. CASE Call
  BY <1>2, <1>6, CallKeeps
<1>7. CASE Decompress
  BY <1>2, <1>7, DecompressKeeps
<1>8. CASE Done \/ UNCHANGED algVars
  <2>1. /\ UNCHANGED vars /\ UNCHANGED callVars /\ UNCHANGED readVars
        /\ both' = both /\ bytes' = bytes /\ label' = label
    BY <1>8 DEF Done, algVars, vars, scanVars, readVars
  <2>2. IInv' /\ Laying' /\ Small'
    BY <1>2, <2>1, CompressorStays DEF ThereAndBack
  <2>3. InBounds' /\ (Decompressor!Begin => Decompressor!Begin') /\ (Reading => Reading')
    BY <1>2, <2>1, ReadKept
  <2> QED
    BY <1>2, <2>1, <2>2, <2>3 DEF ThereAndBack
<1> QED
  BY <1>3, <1>4, <1>5, <1>6, <1>7, <1>8 DEF AlgNext

LEMMA AlgInductive == AlgSpec => []AlgInv
BY AlgInitially, AlgKeeps, PTL DEF AlgSpec

(* Where the call has returned, the invariant says how. *)
LEMMA ReturnedSo ==
    ASSUME AlgInv, constraint = NONE, Returned
    PROVE  Ended /\ Called /\ (Whole <=> AllRead) /\ op \in Seq(Byte)
<1>1. ThereAndBack /\ state = "end"
  BY DEF AlgInv, Returned
<1>2. bytes # << >>
  BY <1>1 DEF ThereAndBack, Decompressor!Begin
<1>3. Called /\ Ended
  BY <1>1, <1>2 DEF ThereAndBack, Reading, Travels, Reads
<1>4. Block = out
  BY DEF Block, NONE, ORIGINAL
<1>5. op \in Seq(Byte)
  BY <1>1 DEF ThereAndBack, InBounds, ReadFields
<1> QED
  BY <1>3, <1>4, <1>5 DEF Whole, AllRead

(* What LzoCompressor1x_1 or LzoCompressor1y_1 compressed comes back, byte *)
(* for byte and with LZO_E_OK, into an array of its very length, from the  *)
(* decompressor with SAFETY and from the one without.                      *)
THEOREM CodecRoundTrips == AlgSpec => [](constraint = NONE => CodecRoundTrip)
<1>1. AlgInv => (constraint = NONE => CodecRoundTrip)
  BY ReturnedSo DEF CodecRoundTrip, Ended
<1> QED
  BY AlgInductive, <1>1, PTL

(* Of a block of theirs that is cut off, or into an array too short, the   *)
(* decompressor with SAFETY does not say that it is good, and what it has  *)
(* written until that is found is the beginning of what was compressed.    *)
THEOREM SafetyTells == AlgSpec => [](constraint = NONE => SafeTells)
<1>1. ASSUME AlgInv, constraint = NONE, Returned, ~Whole
      PROVE  code # Decompressor!LZO_E_OK /\ op = SubSeq(orig, 1, Len(op))
  <2>1. Ended /\ Called /\ ~AllRead /\ op \in Seq(Byte) /\ orig \in Seq(Byte)
    BY <1>1, ReturnedSo DEF Called
  <2>2. code # Decompressor!LZO_E_OK /\ BeginningOf(op, orig)
    BY <2>1 DEF Ended
  <2> DEFINE n == Len(op)
             part == SubSeq(orig, 0 + 1, 0 + n)
  <2>3. n \in Nat /\ 0 + n <= Len(orig) /\ \A i \in 1 .. n : op[i] = orig[i]
    BY <2>1, <2>2, LenProperties DEF BeginningOf
  <2>4. SubSeq(orig, 1, Len(op)) = part
    BY <2>3
  <2> HIDE DEF n
  <2>5. part \in Seq(Byte) /\ Len(part) = n /\ \A k \in 1 .. n : part[k] = orig[0 + k]
    BY <2>1, <2>3, PartIs, 0 \in Nat
  <2> HIDE DEF part
  <2>6. op = part
    <3>1. \A i \in 1 .. n : op[i] = part[i]
      <4>1. \A k \in 1 .. n : 0 + k = k
        BY <2>3
      <4> QED
        BY <2>3, <2>5, <4>1
    <3> QED
      BY <2>1, <2>5, <3>1, SeqEqual DEF n
  <2> QED
    BY <2>2, <2>4, <2>6
<1>2. AlgInv => (constraint = NONE => SafeTells)
  BY <1>1 DEF SafeTells
<1> QED
  BY AlgInductive, <1>2, PTL

(* Their block always fits the array that LzoOutputStream makes for it. *)
THEOREM BlocksFit == AlgSpec => [](constraint = NONE => OutputFits)
<1>1. ASSUME AlgInv, constraint = NONE, Written
      PROVE  Len(Block) <= Len(orig) + Len(orig) \div 16 + 64 + 3
  <2>1. label = "written" /\ Block = out
    BY <1>1, WrittenWhen DEF Block, NONE, ORIGINAL
  <2>2. 16 * Len(out) <= 17 * Len(orig) + 64
    BY <1>1, <2>1 DEF AlgInv, ThereAndBack, Small
  <2>3. Len(out) \in Nat /\ Len(orig) \in Nat
    <3>1. out \in Seq(Byte) /\ orig \in Seq(Byte)
      BY <1>1, Lengths DEF AlgInv, ThereAndBack, IInv, Room
    <3> QED
      BY <3>1, LenProperties
  <2> QED
    BY <2>1, <2>2, <2>3
<1>2. AlgInv => (constraint = NONE => OutputFits)
  BY <1>1 DEF OutputFits
<1> QED
  BY AlgInductive, <1>2, PTL

=============================================================================
