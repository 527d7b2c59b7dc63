----------------------- MODULE LzoCompressor1x_1_proofs -----------------------
(***************************************************************************)
(* Proofs about the tokens of LZO1X, LZO1Y and LZO1Z, and about            *)
(* LzoCompressor1x_1 and LzoCompressor1y_1, for every input, chunk length, *)
(* hash and offset limits.                                                 *)
(*                                                                         *)
(* A token is read back as what it was written for, for every length and   *)
(* every offset the offsets' bounds allow.  The tokens of LZO1Z have the   *)
(* counts and the heads of LZO1X, and the bytes of a distance the other    *)
(* way round.                                                              *)
(*                                                                         *)
(* Two things keep the compressor sound.  No entry of the dictionary is    *)
(* beyond the byte last looked at, so that a match never repeats itself    *)
(* from in front of where it began; and while nothing is written, at least *)
(* four literals are before in_ptr, so that a run too short to have a byte *)
(* of its own always follows a match, which ends in two free bits.         *)
(*                                                                         *)
(* What has been written is a path of places, each a pair of how far the   *)
(* block has been read and how much of the input that gave, from <<0, 0>>  *)
(* to where the next literals are to be put; a token written behind it     *)
(* changes nothing before but the two bits that count its literals.        *)
(***************************************************************************)
EXTENDS LzoCompressor1x_1, Lzo1zTokens, SequenceTheorems, WellFoundedInduction, TLAPS

Byte == 0 .. 255

-----------------------------------------------------------------------------
(* Counts *)

(* What Extended writes: zeros, and then a byte that is not zero. *)
LEMMA ExtendedBytes ==
    ASSUME NEW n \in Nat, n >= 1
    PROVE  LET z == (n - 1) \div 255 IN
            /\ z \in Nat
            /\ Extended(n) \in Seq(Byte)
            /\ Len(Extended(n)) = z + 1
            /\ \A i \in 1 .. z : Extended(n)[i] = 0
            /\ Extended(n)[z + 1] = n - 255 * z
            /\ n - 255 * z \in 1 .. 255
<1> DEFINE z == (n - 1) \div 255
           zeros == [i \in 1 .. z |-> 0]
           rest == <<n - 255 * z>>
<1>1. z \in Nat /\ n - 255 * z \in 1 .. 255
  OBVIOUS
<1>2. Extended(n) = zeros \o rest
  BY DEF Extended
<1> HIDE DEF z
<1>3. zeros \in Seq(Byte) /\ Len(zeros) = z /\ \A i \in 1 .. z : zeros[i] = 0
  BY <1>1 DEF Byte
<1>4. rest \in Seq(Byte) /\ Len(rest) = 1 /\ rest[1] = n - 255 * z
  BY <1>1 DEF Byte
<1> HIDE DEF zeros, rest
<1>5. /\ Extended(n) \in Seq(Byte)
      /\ Len(Extended(n)) = z + 1
      /\ \A i \in 1 .. z : Extended(n)[i] = zeros[i]
      /\ Extended(n)[z + 1] = rest[1]
  <2>1. /\ zeros \o rest \in Seq(Byte)
        /\ Len(zeros \o rest) = z + 1
        /\ \A i \in 1 .. z + 1 : (zeros \o rest)[i] = IF i <= z THEN zeros[i] ELSE rest[i - z]
    <3>1. zeros \in Seq(Byte) /\ rest \in Seq(Byte)
      BY <1>3, <1>4
    <3>2. /\ zeros \o rest \in Seq(Byte)
          /\ Len(zeros \o rest) = Len(zeros) + Len(rest)
          /\ \A i \in 1 .. Len(zeros) + Len(rest) :
                (zeros \o rest)[i] = IF i <= Len(zeros) THEN zeros[i] ELSE rest[i - Len(zeros)]
      BY <3>1, ConcatProperties, ZenonT(60)
    <3> QED
      BY <3>2, <1>1, <1>3, <1>4
  <2>2. (zeros \o rest)[z + 1] = rest[1]
    BY <2>1, <1>1, z + 1 \in 1 .. z + 1, (z + 1) - z = 1
  <2>3. \A i \in 1 .. z : (zeros \o rest)[i] = zeros[i]
    BY <2>1, <1>1
  <2> QED
    BY <1>2, <2>1, <2>2, <2>3
<1> QED
  BY <1>1, <1>3, <1>4, <1>5 DEF z

(* A part of bytes, from ptr on *)
Stands(part, bytes, ptr) ==
    /\ ptr + Len(part) <= Len(bytes)
    /\ \A i \in 1 .. Len(part) : bytes[ptr + i] = part[i]

(* A count that was extended is read back, in LzoDecompressor's loops, and  *)
(* the loop ends where the count does.                                     *)
THEOREM CountInverse ==
    ASSUME NEW bytes \in Seq(Byte), NEW ptr \in Nat, NEW base \in Nat,
           NEW n \in Nat, n >= 1, Stands(Extended(n), bytes, ptr)
    PROVE  /\ CountEnds(bytes, ptr)
           /\ Count(bytes, ptr, 0, base)
                = [n |-> base + n, next |-> ptr + Len(Extended(n))]
<1> DEFINE z == (n - 1) \div 255
           S == {k \in ptr .. Len(bytes) - 1 : At(bytes, k) # 0}
<1>1. /\ z \in Nat
      /\ Len(Extended(n)) = z + 1
      /\ \A i \in 1 .. z : Extended(n)[i] = 0
      /\ Extended(n)[z + 1] = n - 255 * z
      /\ n - 255 * z \in 1 .. 255
  BY ExtendedBytes
<1> HIDE DEF z
<1>2. ptr + z + 1 <= Len(bytes) /\ At(bytes, ptr + z) = n - 255 * z
  BY <1>1 DEF Stands, At
<1>3. \A k \in ptr .. ptr + z - 1 : At(bytes, k) = 0
  <2> TAKE k \in ptr .. ptr + z - 1
  <2>1. PICK i \in 1 .. z : ptr + i = k + 1
    BY <1>1, k + 1 - ptr \in 1 .. z
  <2>2. bytes[ptr + i] = Extended(n)[i] /\ Extended(n)[i] = 0
    BY <1>1, i \in 1 .. Len(Extended(n)) DEF Stands
  <2>3. bytes[k + 1] = 0
    BY <2>1, <2>2
  <2> QED
    BY <2>3 DEF At
<1>4. ptr + z \in S /\ \A k \in S : ptr + z <= k
  BY <1>1, <1>2, <1>3
<1>5. S \subseteq Int
  OBVIOUS
<1> HIDE DEF S
<1>6. Smallest(S) = ptr + z
  <2>1. Smallest(S) \in S /\ \A k \in S : Smallest(S) <= k
    BY <1>4 DEF Smallest
  <2>2. Smallest(S) \in Int /\ Smallest(S) <= ptr + z /\ ptr + z <= Smallest(S)
    BY <2>1, <1>4, <1>5
  <2> QED
    BY <2>2, <1>1
<1>7. CountEnds(bytes, ptr)
  BY <1>4 DEF CountEnds, S
<1>8. Count(bytes, ptr, 0, base)
        = [n |-> base + 255 * (ptr + z - ptr) + At(bytes, ptr + z),
           next |-> ptr + z + 1]
  BY <1>1, <1>6 DEF Count, S
<1> QED
  BY <1>1, <1>2, <1>7, <1>8

LEMMA StandsParts ==
    ASSUME NEW bytes \in Seq(Byte), NEW ptr \in Nat,
           NEW front \in Seq(Byte), NEW back \in Seq(Byte),
           Stands(front \o back, bytes, ptr)
    PROVE  Stands(front, bytes, ptr) /\ Stands(back, bytes, ptr + Len(front))
<1> DEFINE whole == front \o back
<1>1. /\ Len(whole) = Len(front) + Len(back)
      /\ \A i \in 1 .. Len(front) + Len(back) :
            whole[i] = IF i <= Len(front) THEN front[i] ELSE back[i - Len(front)]
  BY ConcatProperties, ZenonT(60)
<1>2. Len(front) \in Nat /\ Len(back) \in Nat /\ Len(bytes) \in Nat
  OBVIOUS
<1>3. /\ ptr + Len(whole) <= Len(bytes)
      /\ \A i \in 1 .. Len(whole) : bytes[ptr + i] = whole[i]
  BY DEF Stands
<1> HIDE DEF whole
<1>4. ASSUME NEW i \in 1 .. Len(front) PROVE bytes[ptr + i] = front[i]
  BY <1>1, <1>2, <1>3, SMTT(30)
<1>5. ASSUME NEW i \in 1 .. Len(back) PROVE bytes[(ptr + Len(front)) + i] = back[i]
  <2> DEFINE j == Len(front) + i
  <2>1. /\ j \in 1 .. Len(front) + Len(back)
        /\ ~(j <= Len(front)) /\ j - Len(front) = i
        /\ (ptr + Len(front)) + i = ptr + j
    BY <1>2
  <2> HIDE DEF j
  <2>2. whole[j] = back[i]
    BY <1>1, <2>1
  <2>3. bytes[ptr + j] = whole[j]
    BY <1>1, <1>3, <2>1
  <2> QED
    BY <2>1, <2>2, <2>3
<1> QED
  BY <1>1, <1>2, <1>3, <1>4, <1>5 DEF Stands

(* A run of four literals and more: decompress takes the first byte for a  *)
(* count less three, or for a count that goes on, from 15.                 *)
THEOREM RunInverse ==
    ASSUME NEW n \in Nat, n >= 4, NEW bytes \in Seq(Byte), NEW ptr \in Nat,
           Stands(RunCode(n), bytes, ptr)
    PROVE  LET count == Count(bytes, ptr + 1, At(bytes, ptr), 15) IN
            /\ At(bytes, ptr) < 16
            /\ At(bytes, ptr) = 0 => CountEnds(bytes, ptr + 1)
            /\ count = [n |-> n - 3, next |-> ptr + Len(RunCode(n))]
<1>1. CASE n <= 18
  <2>1. RunCode(n) = <<n - 3>>
    BY <1>1 DEF RunCode
  <2>2. At(bytes, ptr) = n - 3
    BY <2>1 DEF Stands, At
  <2> QED
    BY <1>1, <2>1, <2>2 DEF Count
<1>2. CASE n > 18
  <2> DEFINE ext == Extended(n - 18)
  <2>1. RunCode(n) = <<0>> \o ext
    BY <1>2 DEF RunCode
  <2>2. ext \in Seq(Byte) /\ <<0>> \in Seq(Byte)
    BY <1>2, ExtendedBytes, n - 18 \in Nat, n - 18 >= 1 DEF Byte
  <2> HIDE DEF ext
  <2>3. Stands(<<0>>, bytes, ptr) /\ Stands(ext, bytes, ptr + Len(<<0>>))
    BY <2>1, <2>2, StandsParts, ZenonT(60)
  <2>4. At(bytes, ptr) = 0
    BY <2>3 DEF Stands, At
  <2>5. Len(RunCode(n)) = 1 + Len(ext)
    BY <2>1, <2>2, ConcatProperties
  <2>6. /\ CountEnds(bytes, ptr + 1)
        /\ Count(bytes, ptr + 1, 0, 15) = [n |-> 15 + (n - 18), next |-> ptr + 1 + Len(ext)]
    BY <1>2, <2>3, CountInverse, n - 18 \in Nat, n - 18 >= 1, ptr + 1 \in Nat, SMTT(30) DEF ext
  <2> QED
    BY <1>2, <2>2, <2>4, <2>5, <2>6
<1> QED
  BY <1>1, <1>2

-----------------------------------------------------------------------------
(* Matches *)

LongHead(marker, max, len) ==
    IF len <= max THEN <<marker + len - 2>> ELSE <<marker>> \o Extended(len - max)

LongTail(dist) == <<LZO_BYTE(dist * 4), LZO_BYTE(dist \div 64)>>

LEMMA LongCodeBytes ==
    ASSUME NEW marker \in {16, 24, 32}, NEW max \in {9, 33},
           NEW len \in Nat, len >= 2, NEW dist \in Nat
    PROVE  /\ LongCode(marker, max, len, dist) = LongHead(marker, max, len) \o LongTail(dist)
           /\ LongHead(marker, max, len) \in Seq(Byte)
           /\ Len(LongHead(marker, max, len)) >= 1
           /\ LongTail(dist) \in Seq(Byte)
           /\ Len(LongTail(dist)) = 2
<1>1. LongCode(marker, max, len, dist) = LongHead(marker, max, len) \o LongTail(dist)
  BY DEF LongCode, LongHead, LongTail
<1>2. LongHead(marker, max, len) \in Seq(Byte) /\ Len(LongHead(marker, max, len)) >= 1
  <2>1. CASE len <= max
    <3>1. LongHead(marker, max, len) = <<marker + len - 2>>
      BY <2>1 DEF LongHead
    <3>2. marker + len - 2 \in Byte
      BY <2>1 DEF Byte
    <3> QED
      BY <3>1, <3>2
  <2>2. CASE len > max
    <3>1. Extended(len - max) \in Seq(Byte)
      BY <2>2, ExtendedBytes, len - max \in Nat, len - max >= 1
    <3>2. <<marker>> \in Seq(Byte) /\ Len(<<marker>>) = 1
      BY DEF Byte
    <3>3. LongHead(marker, max, len) = <<marker>> \o Extended(len - max)
      BY <2>2 DEF LongHead
    <3>4. /\ <<marker>> \o Extended(len - max) \in Seq(Byte)
          /\ Len(<<marker>> \o Extended(len - max)) = 1 + Len(Extended(len - max))
      BY <3>1, <3>2, ConcatProperties
    <3> QED
      BY <3>1, <3>3, <3>4
  <2> QED
    BY <2>1, <2>2
<1>3. LongTail(dist) \in Seq(Byte) /\ Len(LongTail(dist)) = 2
  BY DEF LongTail, LZO_BYTE, Byte
<1> QED
  BY <1>1, <1>2, <1>3

(* What M3Match and M4Match read, for a length that is in the first byte   *)
(* or goes on after it.                                                    *)
Low(max, len) == IF len <= max THEN len - 2 ELSE 0

(* The head alone, up to the distance *)
HeadRead(marker, max, len, bytes, ptr) ==
    LET next == ptr + Len(LongHead(marker, max, len)) IN
    /\ At(bytes, ptr) = marker + Low(max, len)
    /\ Low(max, len) = 0 => CountEnds(bytes, ptr + 1)
    /\ Count(bytes, ptr + 1, Low(max, len), max - 2) = [n |-> len - 2, next |-> next]

LEMMA HeadInverse ==
    ASSUME NEW marker \in {16, 24, 32}, NEW max \in {9, 33},
           NEW len \in Nat, len > 2,
           NEW bytes \in Seq(Byte), NEW ptr \in Nat,
           Stands(LongHead(marker, max, len), bytes, ptr)
    PROVE  HeadRead(marker, max, len, bytes, ptr)
<1> DEFINE head == LongHead(marker, max, len)
           at == ptr + Len(head)
           low == Low(max, len)
<1> SUFFICES /\ At(bytes, ptr) = marker + low
             /\ low = 0 => CountEnds(bytes, ptr + 1)
             /\ Count(bytes, ptr + 1, low, max - 2) = [n |-> len - 2, next |-> at]
  BY DEF HeadRead
<1>1. CASE len <= max
  <2>1. head = <<marker + len - 2>>
    BY <1>1 DEF LongHead
  <2>2. At(bytes, ptr) = marker + len - 2
    BY <2>1 DEF Stands, At
  <2>3. low = len - 2 /\ low # 0
    BY <1>1 DEF Low
  <2>4. at = ptr + 1
    BY <2>1
  <2>5. Count(bytes, ptr + 1, low, max - 2) = [n |-> len - 2, next |-> ptr + 1]
    BY <2>3 DEF Count
  <2> QED
    BY <2>2, <2>3, <2>4, <2>5
<1>2. CASE len > max
  <2> DEFINE m == len - max
             ext == Extended(m)
  <2>1. m \in Nat /\ m >= 1
    BY <1>2
  <2> HIDE DEF m
  <2>2. ext \in Seq(Byte) /\ Len(ext) \in Nat
    <3>1. ext \in Seq(Byte)
      BY <2>1, ExtendedBytes, ZenonT(60)
    <3> QED
      BY <3>1, LenProperties
  <2>3. <<marker>> \in Seq(Byte) /\ Len(<<marker>>) = 1
    BY DEF Byte
  <2>4. head = <<marker>> \o ext
    BY <1>2 DEF LongHead, m
  <2>5. Stands(<<marker>>, bytes, ptr) /\ Stands(ext, bytes, ptr + 1)
    <3>1. Stands(<<marker>> \o ext, bytes, ptr)
      BY <2>4
    <3>2. Stands(<<marker>>, bytes, ptr) /\ Stands(ext, bytes, ptr + Len(<<marker>>))
      BY <3>1, <2>2, <2>3, StandsParts, ZenonT(60)
    <3> QED
      BY <3>2, <2>3
  <2>6. Len(head) = 1 + Len(ext)
    BY <2>2, <2>3, <2>4, ConcatProperties
  <2>7. At(bytes, ptr) = marker
    BY <2>3, <2>5 DEF Stands, At
  <2>8. low = 0
    BY <1>2 DEF Low
  <2>9. /\ CountEnds(bytes, ptr + 1)
        /\ Count(bytes, ptr + 1, 0, max - 2)
             = [n |-> (max - 2) + m, next |-> (ptr + 1) + Len(ext)]
    <3> DEFINE from == ptr + 1
               base == max - 2
    <3>1. from \in Nat /\ base \in Nat
      OBVIOUS
    <3>2. Stands(Extended(m), bytes, from)
      BY <2>5
    <3> HIDE DEF from, base
    <3>3. /\ CountEnds(bytes, from)
          /\ Count(bytes, from, 0, base) = [n |-> base + m, next |-> from + Len(Extended(m))]
      BY <2>1, <3>1, <3>2, CountInverse, ZenonT(60)
    <3> QED
      BY <3>3 DEF from, base
  <2>10. (max - 2) + m = len - 2 /\ (ptr + 1) + Len(ext) = at
    BY <2>2, <2>6 DEF m
  <2>11. Count(bytes, ptr + 1, low, max - 2) = [n |-> len - 2, next |-> at]
    BY <2>8, <2>9, <2>10
  <2> QED
    BY <2>7, <2>8, <2>9, <2>11
<1> QED
  BY <1>1, <1>2

(* A match's code, from ptr on, whatever the two bits that count literals  *)
(* have been set to since                                                  *)
StandsCounted(c, bytes, ptr) ==
    /\ ptr + Len(c) <= Len(bytes)
    /\ \A i \in 1 .. Len(c) : i # Len(c) - 1 => bytes[ptr + i] = c[i]
    /\ bytes[ptr + Len(c) - 1] \div 4 = c[Len(c) - 1] \div 4

LongRead(marker, max, len, dist, bytes, ptr) ==
    LET next == ptr + Len(LongCode(marker, max, len, dist)) - 2 IN
    /\ next \in Nat
    /\ At(bytes, ptr) = marker + Low(max, len)
    /\ Low(max, len) = 0 => CountEnds(bytes, ptr + 1)
    /\ Count(bytes, ptr + 1, Low(max, len), max - 2) = [n |-> len - 2, next |-> next]
    /\ Distance(bytes, next) = dist % 16384

LEMMA LongInverse ==
    ASSUME NEW marker \in {16, 24, 32}, NEW max \in {9, 33},
           NEW len \in Nat, len > 2, NEW dist \in Nat,
           NEW bytes \in Seq(Byte), NEW ptr \in Nat,
           StandsCounted(LongCode(marker, max, len, dist), bytes, ptr)
    PROVE  LongRead(marker, max, len, dist, bytes, ptr)
<1> DEFINE head == LongHead(marker, max, len)
           tail == LongTail(dist)
           at == ptr + Len(head)
           low == Low(max, len)
<1>1. /\ LongCode(marker, max, len, dist) = head \o tail
      /\ head \in Seq(Byte) /\ Len(head) \in Nat /\ Len(head) >= 1
      /\ tail \in Seq(Byte) /\ Len(tail) = 2
  <2>1. len >= 2
    OBVIOUS
  <2>2. /\ LongCode(marker, max, len, dist) = head \o tail
        /\ head \in Seq(Byte) /\ tail \in Seq(Byte)
    BY <2>1, LongCodeBytes, ZenonT(60)
  <2>3. Len(head) >= 1 /\ Len(tail) = 2
    BY <2>1, LongCodeBytes, ZenonT(60)
  <2> QED
    BY <2>2, <2>3, LenProperties
<1>2. /\ Stands(head, bytes, ptr)
      /\ bytes[at + 1] \div 4 = tail[1] \div 4 /\ bytes[at + 2] = tail[2]
  <2> DEFINE c == LongCode(marker, max, len, dist)
             n == Len(head)
  <2>1. /\ n \in Nat /\ Len(c) = n + 2 /\ Len(bytes) \in Nat
        /\ \A i \in 1 .. n + 2 : c[i] = IF i <= n THEN head[i] ELSE tail[i - n]
    <3>1. /\ Len(head \o tail) = Len(head) + Len(tail)
          /\ \A i \in 1 .. Len(head) + Len(tail) :
                (head \o tail)[i] = IF i <= Len(head) THEN head[i] ELSE tail[i - Len(head)]
      BY <1>1, ConcatProperties
    <3> QED
      BY <1>1, <3>1, LenProperties
  <2>2. StandsCounted(c, bytes, ptr)
    OBVIOUS
  <2> HIDE DEF c, head, tail, n
  <2>3. /\ ptr + (n + 2) <= Len(bytes)
        /\ \A i \in 1 .. n + 2 : i # n + 1 => bytes[ptr + i] = c[i]
        /\ bytes[ptr + (n + 1)] \div 4 = c[n + 1] \div 4
    <3>1. (n + 2) - 1 = n + 1 /\ ptr + (n + 2) - 1 = ptr + (n + 1)
      BY <2>1
    <3> QED
      BY <2>1, <2>2, <3>1, SMTT(20) DEF StandsCounted
  <2>4. \A i \in 1 .. n : bytes[ptr + i] = head[i]
    BY <2>1, <2>3
  <2>5. /\ n + 1 \in 1 .. n + 2 /\ n + 2 \in 1 .. n + 2
        /\ ~(n + 1 <= n) /\ ~(n + 2 <= n) /\ (n + 1) - n = 1 /\ (n + 2) - n = 2
    BY <2>1
  <2>6. c[n + 1] = tail[1] /\ c[n + 2] = tail[2]
    BY <2>1, <2>5
  <2>7. n + 2 # n + 1 /\ ptr + (n + 1) = at + 1 /\ ptr + (n + 2) = at + 2
    BY <2>1 DEF n
  <2>8. Stands(head, bytes, ptr)
    BY <2>1, <2>3, <2>4 DEF Stands, n
  <2>9. bytes[at + 2] = tail[2]
    BY <2>3, <2>5, <2>6, <2>7
  <2> QED
    BY <2>3, <2>6, <2>7, <2>8, <2>9
<1>3. ptr + Len(LongCode(marker, max, len, dist)) - 2 = at /\ at \in Nat
  <2>1. Len(head \o tail) = Len(head) + Len(tail)
    BY <1>1, ConcatProperties
  <2> QED
    BY <1>1, <2>1
<1>4. Distance(bytes, at) = dist % 16384
  <2>1. tail[1] = (dist * 4) % 256 /\ tail[2] = (dist \div 64) % 256
    BY DEF LongTail, LZO_BYTE
  <2>2. bytes[at + 1] \div 4 = tail[1] \div 4 /\ bytes[at + 2] = tail[2]
    BY <1>2
  <2>3. Distance(bytes, at) = ((dist * 4) % 256) \div 4 + ((dist \div 64) % 256) * 64
    BY <1>3, <2>1, <2>2, (at + 1) + 1 = at + 2, SMTT(30) DEF Distance, At
  <2> QED
    BY <2>3
<1>5. /\ At(bytes, ptr) = marker + low
      /\ low = 0 => CountEnds(bytes, ptr + 1)
      /\ Count(bytes, ptr + 1, low, max - 2) = [n |-> len - 2, next |-> at]
  <2>1. HeadRead(marker, max, len, bytes, ptr)
    BY <1>2, HeadInverse
  <2> QED
    BY <2>1 DEF HeadRead
<1> QED
  BY <1>3, <1>4, <1>5, SMTT(30) DEF LongRead

LEMMA PairBytes ==
    ASSUME NEW b1 \in Int, NEW b2 \in Int
    PROVE  LET c == <<LZO_BYTE(b1 * 4), LZO_BYTE(b2)>> IN
            c \in Seq(Byte) /\ Len(c) = 2 /\ c[1] % 4 = 0
<1>1. LZO_BYTE(b1 * 4) \in Byte /\ LZO_BYTE(b2) \in Byte /\ LZO_BYTE(b1 * 4) % 4 = 0
  BY DEF LZO_BYTE, Byte
<1> QED
  BY <1>1

(* What follows front keeps its free bits. *)
LEMMA LastBits ==
    ASSUME NEW front \in Seq(Byte), NEW c \in Seq(Byte),
           Len(c) >= 2, c[Len(c) - 1] % 4 = 0
    PROVE  LET whole == front \o c IN
            /\ whole \in Seq(Byte) /\ Len(whole) >= 2
            /\ whole[Len(whole) - 1] % 4 = 0
<1> DEFINE whole == front \o c
<1>1. Len(front) \in Nat /\ Len(c) \in Nat
  BY LenProperties
<1>2. /\ whole \in Seq(Byte) /\ Len(whole) = Len(front) + Len(c)
      /\ \A i \in 1 .. Len(front) + Len(c) :
            whole[i] = IF i <= Len(front) THEN front[i] ELSE c[i - Len(front)]
  BY ConcatProperties, ZenonT(60)
<1> HIDE DEF whole
<1> DEFINE i == Len(front) + (Len(c) - 1)
<1>3. /\ i \in 1 .. Len(front) + Len(c) /\ ~(i <= Len(front))
      /\ i - Len(front) = Len(c) - 1 /\ Len(whole) - 1 = i /\ Len(whole) >= 2
  BY <1>1, <1>2
<1> HIDE DEF i
<1>4. whole[i] = c[Len(c) - 1]
  BY <1>2, <1>3
<1> QED
  BY <1>2, <1>3, <1>4 DEF whole

(* A match ends in two bytes of which the first has two free bits. *)
LEMMA MatchCodeBytes ==
    ASSUME NEW a \in Algorithms, NEW len \in Nat, len >= 3, NEW off \in Nat, off >= 1
    PROVE  LET c == MatchCode(a, len, off) IN
            /\ c \in Seq(Byte) /\ Len(c) \in Nat /\ Len(c) >= 2
            /\ c[Len(c) - 1] % 4 = 0
<1> DEFINE c == MatchCode(a, len, off)
           Fine(s) == s \in Seq(Byte) /\ Len(s) >= 2 /\ s[Len(s) - 1] % 4 = 0
<1> SUFFICES Fine(c)
  BY LenProperties
<1>1. Fine(M2Code(a, len, off))
  <2> DEFINE b1 == IF a = LZO1X THEN (len - 1) * 8 + ((off - 1) % 8)
                                ELSE (len + 1) * 4 + ((off - 1) % 4)
             b2 == IF a = LZO1X THEN (off - 1) \div 8 ELSE (off - 1) \div 4
  <2>1. b1 \in Int /\ b2 \in Int
    OBVIOUS
  <2>2. M2Code(a, len, off) = <<LZO_BYTE(b1 * 4), LZO_BYTE(b2)>>
    <3>1. CASE a = LZO1X
      <4>1. b1 * 4 = (len - 1) * 32 + ((off - 1) % 8) * 4
        BY <3>1
      <4> QED
        BY <3>1, <4>1 DEF M2Code
    <3>2. CASE a # LZO1X
      <4>1. b1 * 4 = (len + 1) * 16 + ((off - 1) % 4) * 4
        BY <3>2
      <4> QED
        BY <3>2, <4>1 DEF M2Code
    <3> QED
      BY <3>1, <3>2
  <2> HIDE DEF b1, b2
  <2>3. /\ <<LZO_BYTE(b1 * 4), LZO_BYTE(b2)>> \in Seq(Byte)
        /\ Len(<<LZO_BYTE(b1 * 4), LZO_BYTE(b2)>>) = 2
        /\ <<LZO_BYTE(b1 * 4), LZO_BYTE(b2)>>[1] % 4 = 0
    BY <2>1, PairBytes, ZenonT(60)
  <2>4. 2 >= 2 /\ 2 - 1 = 1
    OBVIOUS
  <2> QED
    BY <2>2, <2>3, <2>4
<1>2. ASSUME NEW marker \in {16, 24, 32}, NEW max \in {9, 33}, NEW dist \in Nat
      PROVE  Fine(LongCode(marker, max, len, dist))
  <2>1. /\ LongCode(marker, max, len, dist) = LongHead(marker, max, len) \o LongTail(dist)
        /\ LongHead(marker, max, len) \in Seq(Byte)
    BY LongCodeBytes, len >= 2, ZenonT(60)
  <2>2. /\ LongTail(dist) \in Seq(Byte) /\ Len(LongTail(dist)) = 2
        /\ LongTail(dist)[1] % 4 = 0
    BY PairBytes, dist \in Int, dist \div 64 \in Int DEF LongTail
  <2>3. LongTail(dist)[Len(LongTail(dist)) - 1] % 4 = 0 /\ Len(LongTail(dist)) >= 2
    BY <2>2, 2 - 1 = 1
  <2> QED
    BY <2>1, <2>2, <2>3, LastBits, ZenonT(60)
<1>3. CASE len <= M2_MAX_LEN[a] /\ off <= M2_MAX_OFFSET[a]
  BY <1>1, <1>3 DEF MatchCode
<1>4. CASE ~(len <= M2_MAX_LEN[a] /\ off <= M2_MAX_OFFSET[a]) /\ off <= M3_MAX_OFFSET
  <2>1. c = LongCode(32, 33, len, off - 1)
    BY <1>4 DEF MatchCode, M3Code, M3_MARKER, M3_MAX_LEN
  <2>2. off - 1 \in Nat
    OBVIOUS
  <2> QED
    BY <1>2, <2>1, <2>2, ZenonT(60)
<1>5. CASE ~(len <= M2_MAX_LEN[a] /\ off <= M2_MAX_OFFSET[a]) /\ ~(off <= M3_MAX_OFFSET)
  <2> DEFINE dist == off - M3_MAX_OFFSET
             marker == 16 + ((dist \div 16384) % 2) * 8
  <2>1. M3_MAX_OFFSET \in Nat
    BY OffsetsAssumption
  <2>2. dist \in Nat
    BY <1>5, <2>1
  <2>3. c = LongCode(marker, 9, len, dist)
    BY <1>5 DEF MatchCode, M4Code, M4_MARKER, M4_MAX_LEN
  <2> HIDE DEF dist
  <2>4. marker \in {16, 24, 32}
    <3> DEFINE h == (dist \div 16384) % 2
    <3>1. h = 0 \/ h = 1
      BY <2>2
    <3> QED
      BY <3>1
  <2> HIDE DEF marker
  <2>5. Fine(LongCode(marker, 9, len, dist))
    BY <1>2, <2>2, <2>4, ZenonT(60)
  <2> QED
    BY <2>3, <2>5
<1> QED
  BY <1>3, <1>4, <1>5

LEMMA SameHighBits ==
    ASSUME NEW t \in Nat, NEW b \in Nat, t \div 4 = b \div 4
    PROVE  /\ 64 <= b => 64 <= t
           /\ t \div 16 = b \div 16 /\ t \div 32 = b \div 32
<1> DEFINE q == t \div 4
<1>1. q \in Nat /\ 4 * q <= t /\ t < 4 * q + 4 /\ 4 * q <= b /\ b < 4 * q + 4
  OBVIOUS
<1> HIDE DEF q
<1>2. t \div 16 = q \div 4 /\ b \div 16 = q \div 4
  BY <1>1
<1>3. t \div 32 = q \div 8 /\ b \div 32 = q \div 8
  BY <1>1
<1> QED
  BY <1>1, <1>2, <1>3

LEMMA TwoBytes ==
    ASSUME NEW b1, NEW b2, NEW bytes \in Seq(Byte), NEW ptr \in Nat,
           StandsCounted(<<b1, b2>>, bytes, ptr)
    PROVE  /\ At(bytes, ptr) \in Nat /\ At(bytes, ptr) \div 4 = b1 \div 4
           /\ At(bytes, ptr + 1) = b2
<1>1. Len(<<b1, b2>>) = 2 /\ 2 # 2 - 1 /\ 2 - 1 = 1
  OBVIOUS
<1>2. /\ ptr + 2 <= Len(bytes) /\ bytes[ptr + 2] = b2
      /\ bytes[ptr + 2 - 1] \div 4 = b1 \div 4
  BY <1>1 DEF StandsCounted
<1>3. ptr + 2 - 1 = ptr + 1 /\ (ptr + 1) + 1 = ptr + 2 /\ ptr + 1 \in 1 .. Len(bytes)
  BY <1>2, LenProperties
<1>4. bytes[ptr + 1] \in Nat
  <2>1. bytes[ptr + 1] \in Byte
    BY <1>3, ElementOfSeq
  <2>2. \A x \in Byte : x \in Nat
    BY DEF Byte
  <2> QED
    BY <2>1, <2>2
<1>5. At(bytes, ptr) = bytes[ptr + 1] /\ At(bytes, ptr + 1) = bytes[ptr + 2]
  BY <1>3 DEF At
<1>6. bytes[ptr + 1] \div 4 = b1 \div 4
  BY <1>2, <1>3
<1> QED
  BY <1>2, <1>4, <1>5, <1>6

(* Every match compress writes is read back by decompress: by its first    *)
(* byte it is known to be of the kind it is, and M2Match, M3Match or       *)
(* M4Match gives its length and offset and goes on where it ends, however  *)
(* many literals have been counted in it since.                            *)
THEOREM MatchInverse ==
    ASSUME NEW a \in Algorithms, NEW len \in Nat, len >= 3,
           NEW off \in 1 .. M4_MAX_OFFSET,
           NEW bytes \in Seq(Byte), NEW ptr \in Nat,
           StandsCounted(MatchCode(a, len, off), bytes, ptr)
    PROVE  LET t == At(bytes, ptr)
               next == ptr + Len(MatchCode(a, len, off))
               match == [len |-> len, off |-> off, next |-> next]
           IN  \/ /\ t \in Nat /\ 64 <= t /\ next = ptr + 2
                  /\ M2Match(a, t, At(bytes, ptr + 1)) = [len |-> len, off |-> off]
               \/ /\ t \in Nat /\ 32 <= t /\ t <= 63
                  /\ M3Match(bytes, ptr + 1, t) = match
                  /\ t % 32 = 0 => CountEnds(bytes, ptr + 1)
               \/ /\ t \in Nat /\ 16 <= t /\ t <= 31
                  /\ M4Match(bytes, ptr + 1, t) = match
                  /\ t % 8 = 0 => CountEnds(bytes, ptr + 1)
<1> DEFINE t == At(bytes, ptr)
           next == ptr + Len(MatchCode(a, len, off))
           match == [len |-> len, off |-> off, next |-> next]
           IsM2 == /\ t \in Nat /\ 64 <= t /\ next = ptr + 2
                   /\ M2Match(a, t, At(bytes, ptr + 1)) = [len |-> len, off |-> off]
           IsM3 == /\ t \in Nat /\ 32 <= t /\ t <= 63
                   /\ M3Match(bytes, ptr + 1, t) = match
                   /\ t % 32 = 0 => CountEnds(bytes, ptr + 1)
           IsM4 == /\ t \in Nat /\ 16 <= t /\ t <= 31
                   /\ M4Match(bytes, ptr + 1, t) = match
                   /\ t % 8 = 0 => CountEnds(bytes, ptr + 1)
<1> SUFFICES IsM2 \/ IsM3 \/ IsM4
  OBVIOUS
<1>1. /\ M2_MAX_OFFSET[LZO1X] \in Nat /\ M2_MAX_OFFSET[LZO1X] <= 2048
      /\ M2_MAX_OFFSET[LZO1Y] \in Nat /\ M2_MAX_OFFSET[LZO1Y] <= 1024
      /\ M3_MAX_OFFSET \in Nat /\ M3_MAX_OFFSET <= 16384 /\ M4_MAX_OFFSET \in Nat
      /\ M4_MAX_OFFSET <= M3_MAX_OFFSET + 32767
  BY OffsetsAssumption DEF Algorithms
<1>2. Len(MatchCode(a, len, off)) \in Nat
  BY <1>1, MatchCodeBytes
<1>3. CASE len <= M2_MAX_LEN[a] /\ off <= M2_MAX_OFFSET[a]
  <2>1. MatchCode(a, len, off) = M2Code(a, len, off)
    BY <1>3 DEF MatchCode
  <2>2. CASE a = LZO1X
    <3>1. len <= 8 /\ off \in Nat /\ 1 <= off /\ off <= 2048
      BY <1>1, <1>3, <2>2 DEF M2_MAX_LEN, Algorithms
    <3> DEFINE b1 == (len - 1) * 32 + ((off - 1) % 8) * 4
               b2 == (off - 1) \div 8
    <3>2. /\ b1 \in Nat /\ 64 <= b1 /\ b1 < 256 /\ b2 \in Nat /\ b2 < 256
          /\ b1 \div 32 + 1 = len /\ 1 + ((b1 \div 4) % 8) + b2 * 8 = off
      BY <3>1
    <3>3. MatchCode(a, len, off) = <<LZO_BYTE(b1), LZO_BYTE(b2)>>
      BY <2>1, <2>2 DEF M2Code
    <3> HIDE DEF b1, b2
    <3>4. MatchCode(a, len, off) = <<b1, b2>>
      BY <3>2, <3>3 DEF LZO_BYTE
    <3>5. t \div 4 = b1 \div 4 /\ At(bytes, ptr + 1) = b2 /\ next = ptr + 2 /\ t \in Nat
      BY <3>4, TwoBytes
    <3>6. /\ 64 <= t
          /\ t \div 32 = b1 \div 32
      BY <3>2, <3>5, SameHighBits
    <3>7. M2Match(a, t, b2) = [len |-> t \div 32 + 1, off |-> 1 + ((t \div 4) % 8) + b2 * 8]
      BY <2>2 DEF M2Match
    <3>8. M2Match(a, t, b2) = [len |-> len, off |-> off]
      BY <3>2, <3>5, <3>6, <3>7
    <3> QED
      BY <3>2, <3>5, <3>6, <3>8
  <2>3. CASE a = LZO1Y
    <3>1. len <= 14 /\ off \in Nat /\ 1 <= off /\ off <= 1024
      BY <1>1, <1>3, <2>3 DEF M2_MAX_LEN, Algorithms, LZO1X, LZO1Y
    <3> DEFINE b1 == (len + 1) * 16 + ((off - 1) % 4) * 4
               b2 == (off - 1) \div 4
    <3>2. /\ b1 \in Nat /\ 64 <= b1 /\ b1 < 256 /\ b2 \in Nat /\ b2 < 256
          /\ b1 \div 16 - 1 = len /\ 1 + ((b1 \div 4) % 4) + b2 * 4 = off
      BY <3>1
    <3>3. MatchCode(a, len, off) = <<LZO_BYTE(b1), LZO_BYTE(b2)>>
      BY <2>1, <2>3 DEF M2Code, LZO1X, LZO1Y
    <3> HIDE DEF b1, b2
    <3>4. MatchCode(a, len, off) = <<b1, b2>>
      BY <3>2, <3>3 DEF LZO_BYTE
    <3>5. t \div 4 = b1 \div 4 /\ At(bytes, ptr + 1) = b2 /\ next = ptr + 2 /\ t \in Nat
      BY <3>4, TwoBytes
    <3>6. /\ 64 <= t
          /\ t \div 16 = b1 \div 16
      BY <3>2, <3>5, SameHighBits
    <3>7. M2Match(a, t, b2) = [len |-> t \div 16 - 1, off |-> 1 + ((t \div 4) % 4) + b2 * 4]
      BY <2>3 DEF M2Match, LZO1X, LZO1Y
    <3>8. M2Match(a, t, b2) = [len |-> len, off |-> off]
      BY <3>2, <3>5, <3>6, <3>7
    <3> QED
      BY <3>2, <3>5, <3>6, <3>8
  <2> QED
    BY <2>2, <2>3 DEF Algorithms
<1>4. CASE ~(len <= M2_MAX_LEN[a] /\ off <= M2_MAX_OFFSET[a]) /\ off <= M3_MAX_OFFSET
  <2> DEFINE low == Low(33, len)
             dist == off - 1
  <2>1. MatchCode(a, len, off) = LongCode(32, 33, len, dist)
    BY <1>4 DEF MatchCode, M3Code, M3_MARKER, M3_MAX_LEN
  <2>2. dist \in Nat /\ dist < 16384 /\ 1 + dist = off
    BY <1>1, <1>4
  <2>3. low \in Nat /\ low < 32
    BY DEF Low
  <2> HIDE DEF dist
  <2>4. PICK after \in Nat :
            /\ after = next - 2
            /\ t = 32 + low
            /\ low = 0 => CountEnds(bytes, ptr + 1)
            /\ Count(bytes, ptr + 1, low, 33 - 2) = [n |-> len - 2, next |-> after]
            /\ Distance(bytes, after) = dist % 16384
    <3>1. StandsCounted(LongCode(32, 33, len, dist), bytes, ptr)
      BY <2>1
    <3>2. 32 \in {16, 24, 32} /\ 33 \in {9, 33} /\ len > 2
      OBVIOUS
    <3>3. LongRead(32, 33, len, dist, bytes, ptr)
      BY <2>2, <3>1, <3>2, LongInverse
    <3>4. next = ptr + Len(LongCode(32, 33, len, dist))
      BY <2>1
    <3> QED
      BY <3>3, <3>4 DEF LongRead
  <2>5. t % 32 = low /\ 32 <= t /\ t <= 63 /\ t \in Nat
    <3>1. t = 32 + low
      BY <2>4
    <3>2. t \div 32 = 1
      BY <2>3, <3>1
    <3> QED
      BY <2>3, <3>1, <3>2, SMTT(30)
  <2>6. Distance(bytes, after) = dist
    BY <2>2, <2>4, SMTT(30)
  <2>7. Count(bytes, ptr + 1, t % 32, 31) = [n |-> len - 2, next |-> after]
    BY <2>4, <2>5, 33 - 2 = 31
  <2>8. M3Match(bytes, ptr + 1, t) = [len |-> (len - 2) + 2, off |-> 1 + dist, next |-> after + 2]
    BY <2>6, <2>7, SMTT(30) DEF M3Match
  <2>9. next = after + 2 /\ (len - 2) + 2 = len
    BY <1>2, <2>4
  <2>10. M3Match(bytes, ptr + 1, t) = match
    BY <2>2, <2>8, <2>9
  <2> QED
    BY <2>4, <2>5, <2>10
<1>5. CASE ~(len <= M2_MAX_LEN[a] /\ off <= M2_MAX_OFFSET[a]) /\ off > M3_MAX_OFFSET
  <2> DEFINE dist == off - M3_MAX_OFFSET
             high == (dist \div 16384) % 2
             low == Low(9, len)
  <2>1. /\ dist \in Nat /\ 1 <= dist /\ dist <= 32767 /\ dist + M3_MAX_OFFSET = off
        /\ high \in 0 .. 1 /\ dist = high * 16384 + (dist % 16384)
    <3>1. /\ dist \in Nat /\ 1 <= dist /\ dist <= 32767 /\ dist + M3_MAX_OFFSET = off
      BY <1>1, <1>5
    <3> HIDE DEF dist
    <3>2. /\ dist \div 16384 = 0 \/ dist \div 16384 = 1
          /\ dist = (dist \div 16384) * 16384 + (dist % 16384)
      BY <3>1
    <3>3. high = dist \div 16384
      BY <3>2
    <3> QED
      BY <3>1, <3>2, <3>3
  <2>2. MatchCode(a, len, off) = LongCode(16 + high * 8, 9, len, dist)
    <3>1. MatchCode(a, len, off) = M4Code(len, off)
      BY <1>1, <1>5 DEF MatchCode
    <3> QED
      BY <3>1 DEF M4Code, M4_MARKER, M4_MAX_LEN
  <2>3. low \in Nat /\ low < 8
    BY DEF Low
  <2> HIDE DEF dist, high
  <2>4. 16 + high * 8 \in {16, 24, 32}
    <3>1. high = 0 \/ high = 1
      BY <2>1
    <3> QED
      BY <3>1
  <2>5. PICK after \in Nat :
            /\ after = next - 2
            /\ t = (16 + high * 8) + low
            /\ low = 0 => CountEnds(bytes, ptr + 1)
            /\ Count(bytes, ptr + 1, low, 9 - 2) = [n |-> len - 2, next |-> after]
            /\ Distance(bytes, after) = dist % 16384
    <3>1. StandsCounted(LongCode(16 + high * 8, 9, len, dist), bytes, ptr)
      BY <2>2
    <3>2. 16 + high * 8 \in {16, 24, 32} /\ 9 \in {9, 33} /\ len > 2
      BY <2>4
    <3>3. LongRead(16 + high * 8, 9, len, dist, bytes, ptr)
      BY <2>1, <2>4, <3>1, <3>2, LongInverse
    <3>4. next = ptr + Len(LongCode(16 + high * 8, 9, len, dist))
      BY <2>2
    <3> QED
      BY <3>3, <3>4 DEF LongRead
  <2>6. /\ t % 8 = low /\ (t \div 8) % 2 = high
        /\ 16 <= t /\ t <= 31 /\ t \in Nat
    <3>1. high = 0 \/ high = 1
      BY <2>1
    <3>2. CASE high = 0
      <4>1. t = 16 + low
        BY <2>3, <2>5, <3>2
      <4>2. t \div 8 = 2
        BY <2>3, <4>1
      <4> QED
        BY <2>3, <3>2, <4>1, <4>2
    <3>3. CASE high = 1
      <4>1. t = 24 + low
        BY <2>3, <2>5, <3>3
      <4>2. t \div 8 = 3
        BY <2>3, <4>1
      <4> QED
        BY <2>3, <3>3, <4>1, <4>2, SMTT(30)
    <3> QED
      BY <3>1, <3>2, <3>3
  <2>7. high * 16384 + Distance(bytes, after) = dist
    BY <2>1, <2>5, SMTT(30)
  <2>8. Count(bytes, ptr + 1, t % 8, 7) = [n |-> len - 2, next |-> after]
    BY <2>5, <2>6, 9 - 2 = 7
  <2>9. M4Match(bytes, ptr + 1, t)
          = [len |-> (len - 2) + 2, off |-> dist + M3_MAX_OFFSET, next |-> after + 2]
    <3>1. ((t \div 8) % 2) * 16384 + Distance(bytes, after) = dist
      BY <2>6, <2>7
    <3>2. dist # 0
      BY <2>1
    <3> DEFINE count == Count(bytes, ptr + 1, t % 8, 7)
               d == ((t \div 8) % 2) * 16384 + Distance(bytes, count.next)
    <3>3. M4Match(bytes, ptr + 1, t)
            = [len |-> count.n + 2, off |-> IF d = 0 THEN 0 ELSE d + M3_MAX_OFFSET,
               next |-> count.next + 2]
      BY DEF M4Match
    <3>4. count.n = len - 2 /\ count.next = after
      BY <2>8
    <3> HIDE DEF count
    <3>5. d = dist
      BY <3>1, <3>4
    <3> HIDE DEF d
    <3> QED
      BY <3>2, <3>3, <3>4, <3>5
  <2>10. next = after + 2 /\ (len - 2) + 2 = len
    BY <1>2, <2>5
  <2>11. M4Match(bytes, ptr + 1, t) = match
    BY <2>1, <2>9, <2>10
  <2> QED
    BY <2>5, <2>6, <2>11
<1> QED
  BY <1>1, <1>3, <1>4, <1>5 DEF Algorithms

(* The matches of two and of three bytes that only LzoCompressor1x_999     *)
(* writes: two bytes, of which the first is less than 16.                  *)
THEOREM ShortMatchInverse ==
    ASSUME NEW off \in Nat
    PROVE  /\ off \in 1 .. M1_MAX_OFFSET =>
                LET c == M1Code(off) IN
                 /\ c[1] \in 0 .. 15 /\ c[1] % 4 = 0 /\ c[2] \in Byte
                 /\ M1Match(c[1], c[2]) = [len |-> 2, off |-> off]
           /\ off \in M2_MAX_OFFSET[LZO1X] + 1 .. MX_MAX_OFFSET =>
                LET c == MXCode(off) IN
                 /\ c[1] \in 0 .. 15 /\ c[1] % 4 = 0 /\ c[2] \in Byte
                 /\ MXMatch(LZO1X, c[1], c[2]) = [len |-> 3, off |-> off]
<1>1. /\ M1_MAX_OFFSET \in Nat /\ M1_MAX_OFFSET <= 1024
      /\ M2_MAX_OFFSET[LZO1X] \in Nat /\ M2_MAX_OFFSET[LZO1X] <= 2048
  BY OffsetsAssumption DEF Algorithms
<1>2. ASSUME NEW dist \in Nat, dist < 1024
      PROVE  LET c == ShortCode(dist) IN
              /\ c[1] \in 0 .. 15 /\ c[1] % 4 = 0 /\ c[2] \in Byte
              /\ ShortDistance(c[1], c[2]) = dist
  <2> DEFINE b1 == (dist % 4) * 4
             b2 == dist \div 4
  <2>1. b1 \in Nat /\ b1 <= 15 /\ b1 % 4 = 0 /\ b2 \in Nat /\ b2 < 256
        /\ b1 \div 4 + b2 * 4 = dist
    <3>1. dist % 4 \in Nat /\ dist % 4 < 4 /\ b2 \in Nat /\ (dist % 4) + b2 * 4 = dist
      OBVIOUS
    <3> HIDE DEF b2
    <3>2. b2 < 256
      BY <1>2, <3>1
    <3>3. b1 \in Nat /\ b1 <= 15 /\ b1 % 4 = 0 /\ b1 \div 4 = dist % 4
      BY <3>1
    <3> QED
      BY <3>1, <3>3, <3>2
  <2>2. ShortCode(dist) = <<b1, LZO_BYTE(b2)>>
    BY DEF ShortCode
  <2> HIDE DEF b1, b2
  <2>3. ShortCode(dist)[1] = b1 /\ ShortCode(dist)[2] = b2
    BY <2>1, <2>2 DEF LZO_BYTE
  <2> QED
    BY <2>1, <2>3 DEF ShortDistance, Byte
<1>3. ASSUME off \in 1 .. M1_MAX_OFFSET
      PROVE  LET c == M1Code(off) IN
              /\ c[1] \in 0 .. 15 /\ c[1] % 4 = 0 /\ c[2] \in Byte
              /\ M1Match(c[1], c[2]) = [len |-> 2, off |-> off]
  <2> DEFINE dist == off - 1
  <2>1. dist \in Nat /\ dist < 1024 /\ 1 + dist = off
    BY <1>1, <1>3
  <2> HIDE DEF dist
  <2>2. M1Code(off) = ShortCode(dist)
    BY DEF M1Code, dist
  <2> QED
    BY <1>2, <2>1, <2>2 DEF M1Match
<1>4. ASSUME off \in M2_MAX_OFFSET[LZO1X] + 1 .. MX_MAX_OFFSET
      PROVE  LET c == MXCode(off) IN
              /\ c[1] \in 0 .. 15 /\ c[1] % 4 = 0 /\ c[2] \in Byte
              /\ MXMatch(LZO1X, c[1], c[2]) = [len |-> 3, off |-> off]
  <2> DEFINE dist == off - M2_MAX_OFFSET[LZO1X] - 1
  <2>1. dist \in Nat /\ dist < 1024 /\ 1 + M2_MAX_OFFSET[LZO1X] + dist = off
    BY <1>1, <1>4 DEF MX_MAX_OFFSET
  <2> HIDE DEF dist
  <2>2. MXCode(off) = ShortCode(dist)
    BY DEF MXCode, dist
  <2> QED
    BY <1>2, <2>1, <2>2 DEF MXMatch
<1> QED
  BY <1>3, <1>4

-----------------------------------------------------------------------------
(* LZO1Z *)

LEMMA ShortCode1zBytes ==
    ASSUME NEW dist \in Nat, dist < 1792
    PROVE  LET c == ShortCode1z(dist) IN
            /\ c = <<dist \div 64, (dist % 64) * 4>>
            /\ dist \div 64 \in 0 .. 27 /\ (dist % 64) * 4 \in 0 .. 252
            /\ ShortDistance1z(dist \div 64, (dist % 64) * 4) = dist
<1> DEFINE high == dist \div 64
           low == dist % 64
<1>1. high \in Nat /\ low \in Nat /\ low < 64 /\ dist = 64 * high + low
  OBVIOUS
<1>2. (dist * 4) % 256 = low * 4
  OBVIOUS
<1> HIDE DEF high, low
<1>3. high <= 27
  BY <1>1
<1>4. (low * 4) \div 4 = low
  BY <1>1
<1>5. ShortCode1z(dist) = <<high, low * 4>>
  BY <1>2 DEF ShortCode1z, LZO_BYTE, high
<1>6. high * 64 + (low * 4) \div 4 = dist
  BY <1>1, <1>4
<1> QED
  BY <1>1, <1>3, <1>5, <1>6 DEF ShortDistance1z, high, low

(* A match of two bytes, and one of three from beyond M2_MAX_OFFSET, is    *)
(* read back from two bytes, of which the first is less than 16.           *)
THEOREM ShortMatch1zInverse ==
    ASSUME NEW dist \in Nat, dist < 1024
    PROVE  LET c == ShortCode1z(dist) IN
            /\ c[1] \in 0 .. 15 /\ c[2] \in Byte /\ c[2] % 4 = 0
            /\ ShortDistance1z(c[1], c[2]) = dist
<1> DEFINE high == dist \div 64
           low == dist % 64
<1>1. ShortCode1z(dist) = <<high, low * 4>> /\ ShortDistance1z(high, low * 4) = dist
  BY ShortCode1zBytes
<1>2. high \in Nat /\ low \in Nat /\ low < 64 /\ dist = 64 * high + low
  OBVIOUS
<1> HIDE DEF high, low
<1>3. high <= 15 /\ low * 4 <= 252 /\ (low * 4) % 4 = 0
  BY <1>2
<1> QED
  BY <1>1, <1>2, <1>3 DEF Byte

M2Read1z(len, off, last, bytes, ptr) ==
    LET t == At(bytes, ptr) IN
    /\ t \in 64 .. 255
    /\ M2Match1z(bytes, ptr + 1, t, last)
         = [len |-> len, off |-> off, next |-> ptr + Len(M2Code1z(len, off, last))]

(* A match of three to eight bytes is read back from two bytes, or from a  *)
(* single one if it goes as far back as the match before it: no offset     *)
(* that is written out looks like that one.                                *)
LEMMA M2Match1zInverse ==
    ASSUME NEW len \in Nat, len >= 3, len <= 8,
           NEW off \in Nat, off >= 1, NEW last \in Nat,
           off <= M2_MAX_OFFSET_1Z \/ off = last,
           NEW bytes \in Seq(Byte), NEW ptr \in Nat,
           Stands(M2Code1z(len, off, last), bytes, ptr)
    PROVE  M2Read1z(len, off, last, bytes, ptr)
<1> DEFINE t == At(bytes, ptr)
<1> SUFFICES /\ t \in 64 .. 255
             /\ M2Match1z(bytes, ptr + 1, t, last)
                  = [len |-> len, off |-> off, next |-> ptr + Len(M2Code1z(len, off, last))]
  BY DEF M2Read1z
<1>1. CASE off = last
  <2> DEFINE b == (len - 1) * 32 + SAME_OFFSET
  <2>1. M2Code1z(len, off, last) = <<b>>
    BY <1>1 DEF M2Code1z
  <2>2. b \in 64 .. 255 /\ b % 32 = 28 /\ b \div 32 + 1 = len
    BY DEF SAME_OFFSET
  <2> HIDE DEF b
  <2>3. t = b
    BY <2>1 DEF Stands, At
  <2>4. M2Match1z(bytes, ptr + 1, t, last) = [len |-> b \div 32 + 1, off |-> last, next |-> ptr + 1]
    BY <2>2, <2>3 DEF M2Match1z, SAME_OFFSET
  <2> QED
    BY <1>1, <2>1, <2>2, <2>3, <2>4
<1>2. CASE off # last
  <2> DEFINE dist == off - 1
             high == dist \div 64
             low == dist % 64
             b == (len - 1) * 32 + high
  <2>1. dist \in Nat /\ dist < 1792 /\ 1 + dist = off
    BY <1>2, OffsetsAssumption1z
  <2>2. M2Code1z(len, off, last) = <<b, LZO_BYTE(dist * 4)>>
    BY <1>2 DEF M2Code1z
  <2> HIDE DEF dist
  <2>3. /\ ShortCode1z(dist) = <<high, low * 4>>
        /\ high \in 0 .. 27 /\ low * 4 \in 0 .. 252
        /\ ShortDistance1z(high, low * 4) = dist
    BY <2>1, ShortCode1zBytes, ZenonT(60)
  <2>4. LZO_BYTE(dist * 4) = low * 4
    BY <2>3 DEF ShortCode1z
  <2> HIDE DEF high, low
  <2>5. b \in 64 .. 255 /\ b % 32 = high /\ b \div 32 + 1 = len
    BY <2>3
  <2> HIDE DEF b
  <2>6. t = b /\ At(bytes, ptr + 1) = low * 4
    BY <2>2, <2>4, (ptr + 1) + 1 = ptr + 2 DEF Stands, At
  <2>7. M2Match1z(bytes, ptr + 1, t, last)
          = [len |-> len, off |-> 1 + dist, next |-> (ptr + 1) + 1]
    <3>1. ~(t % 32 >= SAME_OFFSET) /\ t % 32 = high /\ t \div 32 + 1 = len
      BY <2>3, <2>5, <2>6 DEF SAME_OFFSET
    <3>2. ShortDistance1z(t % 32, At(bytes, ptr + 1)) = dist
      BY <2>3, <2>6, <3>1
    <3> QED
      BY <3>1, <3>2, Zenon DEF M2Match1z
  <2>8. Len(M2Code1z(len, off, last)) = 2
    BY <2>2
  <2> QED
    BY <2>1, <2>5, <2>6, <2>7, <2>8
<1> QED
  BY <1>1, <1>2

-----------------------------------------------------------------------------
(* Longer matches *)

LEMMA SwappedParts ==
    ASSUME NEW head \in Seq(Byte), NEW tail \in Seq(Byte), Len(tail) = 2,
           NEW bytes \in Seq(Byte), NEW ptr \in Nat,
           Stands(Swapped(head \o tail), bytes, ptr)
    PROVE  /\ Len(Swapped(head \o tail)) = Len(head) + 2
           /\ Stands(head, bytes, ptr)
           /\ At(bytes, ptr + Len(head)) = tail[2]
           /\ At(bytes, ptr + Len(head) + 1) = tail[1]
<1> DEFINE code == head \o tail
           n == Len(code)
           once == [code EXCEPT ![n - 1] = code[n]]
           m == Len(head)
<1>1. /\ code \in Seq(Byte) /\ m \in Nat /\ n = m + 2
      /\ \A i \in 1 .. m + 2 : code[i] = IF i <= m THEN head[i] ELSE tail[i - m]
  <2>1. m \in Nat
    BY LenProperties
  <2>2. /\ code \in Seq(Byte) /\ n = m + Len(tail)
        /\ \A i \in 1 .. m + Len(tail) : code[i] = IF i <= m THEN head[i] ELSE tail[i - m]
    BY ConcatProperties, ZenonT(60)
  <2> QED
    BY <2>1, <2>2
<1>2. Swapped(code) = [once EXCEPT ![n] = code[n - 1]]
  BY DEF Swapped
<1>3. code[n] = tail[2] /\ code[n - 1] = tail[1]
  BY <1>1
<1> HIDE DEF code, n, m
<1>4. /\ once \in Seq(Byte) /\ Len(once) = n
      /\ once[n - 1] = code[n]
      /\ \A i \in 1 .. n : i # n - 1 => once[i] = code[i]
  <2>1. n - 1 \in 1 .. n /\ code[n] \in Byte /\ Len(code) = n
    BY <1>1 DEF n
  <2> QED
    BY <1>1, <2>1, ExceptSeq
<1> HIDE DEF once
<1>5. /\ Len(Swapped(code)) = n
      /\ Swapped(code)[n] = code[n - 1]
      /\ \A i \in 1 .. n : i # n => Swapped(code)[i] = once[i]
  <2>1. n \in 1 .. n /\ code[n - 1] \in Byte /\ Len(once) = n
    BY <1>1, <1>4 DEF n
  <2> QED
    BY <1>2, <1>4, <2>1, ExceptSeq
<1>6. Stands(Swapped(code), bytes, ptr)
  BY DEF code
<1>7. bytes[ptr + n] = tail[1] /\ bytes[ptr + (n - 1)] = tail[2]
  <2>1. n \in 1 .. n /\ n - 1 \in 1 .. n /\ n - 1 # n
    BY <1>1
  <2> QED
    BY <1>3, <1>4, <1>5, <1>6, <2>1 DEF Stands
<1>8. Stands(head, bytes, ptr)
  <2>1. ptr + m <= Len(bytes)
    BY <1>1, <1>5, <1>6 DEF Stands
  <2>2. ASSUME NEW i \in 1 .. m PROVE bytes[ptr + i] = head[i]
    <3>1. i \in 1 .. n /\ i # n - 1 /\ i # n /\ i <= m /\ i \in 1 .. m + 2
      BY <1>1
    <3>2. bytes[ptr + i] = Swapped(code)[i]
      BY <1>5, <1>6, <3>1 DEF Stands
    <3>3. Swapped(code)[i] = code[i] /\ code[i] = head[i]
      BY <1>1, <1>4, <1>5, <3>1
    <3> QED
      BY <3>2, <3>3
  <2> QED
    BY <2>1, <2>2 DEF Stands, m
<1>9. ptr + n = ((ptr + m) + 1) + 1 /\ ptr + (n - 1) = (ptr + m) + 1
  BY <1>1
<1> QED
  BY <1>1, <1>5, <1>7, <1>8, <1>9 DEF At, code, m

LongRead1z(marker, max, len, dist, bytes, ptr) ==
    LET next == ptr + Len(LongHead(marker, max, len)) IN
    /\ next \in Nat
    /\ ptr + Len(Swapped(LongCode(marker, max, len, dist))) = next + 2
    /\ At(bytes, ptr) = marker + Low(max, len)
    /\ Low(max, len) = 0 => CountEnds(bytes, ptr + 1)
    /\ \A base \in Nat : base = max - 2 =>
            Count(bytes, ptr + 1, Low(max, len), base) = [n |-> len - 2, next |-> next]
    /\ Distance1z(bytes, next) = dist % 16384

LEMMA Long1zInverse ==
    ASSUME NEW marker \in {16, 24, 32}, NEW max \in {9, 33},
           NEW len \in Nat, len > 2, NEW dist \in Nat,
           NEW bytes \in Seq(Byte), NEW ptr \in Nat,
           Stands(Swapped(LongCode(marker, max, len, dist)), bytes, ptr)
    PROVE  LongRead1z(marker, max, len, dist, bytes, ptr)
<1> DEFINE head == LongHead(marker, max, len)
           tail == LongTail(dist)
           at == ptr + Len(head)
<1>1. /\ LongCode(marker, max, len, dist) = head \o tail
      /\ head \in Seq(Byte) /\ tail \in Seq(Byte) /\ Len(tail) = 2
  <2>1. len >= 2
    OBVIOUS
  <2> QED
    BY <2>1, LongCodeBytes, ZenonT(60)
<1>2. /\ Len(Swapped(head \o tail)) = Len(head) + 2
      /\ Stands(head, bytes, ptr)
      /\ At(bytes, at) = tail[2] /\ At(bytes, at + 1) = tail[1]
  BY <1>1, SwappedParts
<1>3. HeadRead(marker, max, len, bytes, ptr)
  BY <1>2, HeadInverse
<1>4. at \in Nat /\ ptr + Len(Swapped(LongCode(marker, max, len, dist))) = at + 2
  <2>1. Len(head) \in Nat
    BY <1>1, LenProperties
  <2> QED
    BY <1>1, <1>2, <2>1
<1>5. Distance1z(bytes, at) = dist % 16384
  <2>1. tail[1] = (dist * 4) % 256 /\ tail[2] = (dist \div 64) % 256
    BY DEF LongTail, LZO_BYTE
  <2>2. Distance1z(bytes, at) = ((dist \div 64) % 256) * 64 + ((dist * 4) % 256) \div 4
    BY <1>2, <2>1 DEF Distance1z
  <2> QED
    BY <2>2
<1> QED
  BY <1>3, <1>4, <1>5 DEF LongRead1z, HeadRead

LEMMA HeadBits3 ==
    ASSUME NEW low \in Nat, low < 32
    PROVE  (32 + low) % 32 = low /\ 32 + low \in 32 .. 63
<1>1. (32 + low) \div 32 = 1
  OBVIOUS
<1> QED
  BY <1>1

LEMMA HeadBits4 ==
    ASSUME NEW high \in 0 .. 1, NEW low \in Nat, low < 8
    PROVE  LET t == 16 + high * 8 + low IN
            t % 8 = low /\ (t \div 8) % 2 = high /\ t \in 16 .. 31
<1>1. CASE high = 0
  <2>1. (16 + low) \div 8 = 2
    OBVIOUS
  <2> QED
    BY <1>1, <2>1
<1>2. CASE high = 1
  <2>1. (24 + low) \div 8 = 3
    OBVIOUS
  <2> QED
    BY <1>2, <2>1
<1> QED
  BY <1>1, <1>2

(* A match of any length up to M4_MAX_OFFSET back is read back from what   *)
(* code_match writes for it, wherever it stands in a block.                *)
THEOREM Match1zInverse ==
    ASSUME NEW len \in Nat, len >= 3, NEW off \in 1 .. M4_MAX_OFFSET, NEW last \in Nat,
           NEW bytes \in Seq(Byte), NEW ptr \in Nat,
           Stands(MatchCode1z(len, off, last), bytes, ptr)
    PROVE  LET t == At(bytes, ptr)
               match == [len |-> len, off |-> off,
                         next |-> ptr + Len(MatchCode1z(len, off, last))]
           IN  \/ t \in 64 .. 255 /\ M2Match1z(bytes, ptr + 1, t, last) = match
               \/ /\ t \in 32 .. 63 /\ M3Match1z(bytes, ptr + 1, t) = match
                  /\ t % 32 = 0 => CountEnds(bytes, ptr + 1)
               \/ /\ t \in 16 .. 31 /\ M4Match1z(bytes, ptr + 1, t) = match
                  /\ t % 8 = 0 => CountEnds(bytes, ptr + 1)
<1> DEFINE t == At(bytes, ptr)
           next == ptr + Len(MatchCode1z(len, off, last))
           match == [len |-> len, off |-> off, next |-> next]
           IsM2 == t \in 64 .. 255 /\ M2Match1z(bytes, ptr + 1, t, last) = match
           IsM3 == /\ t \in 32 .. 63 /\ M3Match1z(bytes, ptr + 1, t) = match
                   /\ t % 32 = 0 => CountEnds(bytes, ptr + 1)
           IsM4 == /\ t \in 16 .. 31 /\ M4Match1z(bytes, ptr + 1, t) = match
                   /\ t % 8 = 0 => CountEnds(bytes, ptr + 1)
           small == len <= 8 /\ (off <= M2_MAX_OFFSET_1Z \/ off = last)
<1> SUFFICES IsM2 \/ IsM3 \/ IsM4
  OBVIOUS
<1>1. /\ M3_MAX_OFFSET \in Nat /\ M3_MAX_OFFSET <= 16384 /\ M4_MAX_OFFSET \in Nat
      /\ M4_MAX_OFFSET <= M3_MAX_OFFSET + 32767
      /\ off \in Nat /\ off >= 1
  BY OffsetsAssumption
<1>2. CASE small
  <2>1. MatchCode1z(len, off, last) = M2Code1z(len, off, last)
    BY <1>2 DEF MatchCode1z
  <2>2. len <= 8 /\ (off <= M2_MAX_OFFSET_1Z \/ off = last)
    BY <1>2
  <2>3. Stands(M2Code1z(len, off, last), bytes, ptr)
    BY <2>1
  <2>4. IsM2
    <3>1. M2Read1z(len, off, last, bytes, ptr)
      BY <1>1, <2>2, <2>3, M2Match1zInverse
    <3> QED
      BY <2>1, <3>1 DEF M2Read1z
  <2> QED
    BY <2>4
<1>3. CASE ~small /\ off <= M3_MAX_OFFSET
  <2> DEFINE low == Low(33, len)
             dist == off - 1
  <2>1. MatchCode1z(len, off, last) = Swapped(LongCode(32, 33, len, dist))
    BY <1>3 DEF MatchCode1z, M3Code, M3_MARKER, M3_MAX_LEN
  <2>2. dist \in Nat /\ dist < 16384 /\ 1 + dist = off /\ dist % 16384 = dist
    BY <1>1, <1>3
  <2>3. low \in Nat /\ low < 32
    BY DEF Low
  <2> HIDE DEF dist
  <2>4. LongRead1z(32, 33, len, dist, bytes, ptr)
    <3>1. Stands(Swapped(LongCode(32, 33, len, dist)), bytes, ptr)
      BY <2>1
    <3>2. 32 \in {16, 24, 32} /\ 33 \in {9, 33} /\ len > 2
      OBVIOUS
    <3> QED
      BY <2>2, <3>1, <3>2, Long1zInverse
  <2> DEFINE after == ptr + Len(LongHead(32, 33, len))
  <2>5. /\ after \in Nat /\ next = after + 2
        /\ t = 32 + low
        /\ low = 0 => CountEnds(bytes, ptr + 1)
        /\ Count(bytes, ptr + 1, low, 31) = [n |-> len - 2, next |-> after]
        /\ Distance1z(bytes, after) = dist
    BY <2>1, <2>2, <2>4, 33 - 2 = 31, 31 \in Nat, SMTT(20) DEF LongRead1z
  <2>6. t % 32 = low /\ t \in 32 .. 63
    BY <2>3, <2>5, HeadBits3
  <2>7. after + 2 = next /\ (after + 2) - 2 = after /\ (len - 2) + 2 = len
    BY <2>5
  <2> HIDE DEF after, low
  <2>8. M3Match(bytes, ptr + 1, t)
          = [len |-> len, off |-> 1 + Distance(bytes, after), next |-> next]
    <3> DEFINE count == Count(bytes, ptr + 1, t % 32, 31)
    <3>1. count.n + 2 = len /\ count.next = after
      BY <2>5, <2>6, <2>7
    <3>2. M3Match(bytes, ptr + 1, t)
            = [len |-> count.n + 2, off |-> 1 + Distance(bytes, count.next),
               next |-> count.next + 2]
      BY DEF M3Match
    <3> HIDE DEF count
    <3> QED
      BY <2>5, <3>1, <3>2
  <2>9. M3Match1z(bytes, ptr + 1, t) = [len |-> len, off |-> 1 + dist, next |-> next]
    <3> DEFINE m3 == M3Match(bytes, ptr + 1, t)
    <3>1. M3Match1z(bytes, ptr + 1, t)
            = [m3 EXCEPT !.off = 1 + Distance1z(bytes, m3.next - 2)]
      BY DEF M3Match1z
    <3>2. Distance1z(bytes, m3.next - 2) = dist
      BY <2>5, <2>7, <2>8
    <3> QED
      BY <2>8, <3>1, <3>2
  <2>10. IsM3
    BY <2>2, <2>5, <2>6, <2>9
  <2> QED
    BY <2>10
<1>4. CASE ~small /\ off > M3_MAX_OFFSET
  <2> DEFINE dist == off - M3_MAX_OFFSET
             high == (dist \div 16384) % 2
             low == Low(9, len)
             marker == 16 + high * 8
  <2>1. /\ dist \in Nat /\ 1 <= dist /\ dist <= 32767 /\ dist + M3_MAX_OFFSET = off
        /\ high = 0 \/ high = 1
        /\ dist = high * 16384 + (dist % 16384)
    <3>1. /\ dist \in Nat /\ 1 <= dist /\ dist <= 32767 /\ dist + M3_MAX_OFFSET = off
      BY <1>1, <1>4
    <3> HIDE DEF dist
    <3>2. /\ dist \div 16384 = 0 \/ dist \div 16384 = 1
          /\ dist = (dist \div 16384) * 16384 + (dist % 16384)
      BY <3>1
    <3>3. high = dist \div 16384
      BY <3>2
    <3> QED
      BY <3>1, <3>2, <3>3
  <2>2. MatchCode1z(len, off, last) = Swapped(LongCode(marker, 9, len, dist))
    <3>1. MatchCode1z(len, off, last) = Swapped(M4Code(len, off))
      BY <1>1, <1>4 DEF MatchCode1z
    <3> QED
      BY <3>1 DEF M4Code, M4_MARKER, M4_MAX_LEN
  <2>3. low \in Nat /\ low < 8
    BY DEF Low
  <2> HIDE DEF dist, high
  <2>4. marker \in {16, 24, 32}
    BY <2>1
  <2>5. LongRead1z(marker, 9, len, dist, bytes, ptr)
    <3>1. Stands(Swapped(LongCode(marker, 9, len, dist)), bytes, ptr)
      BY <2>2
    <3>2. 9 \in {9, 33} /\ len > 2
      OBVIOUS
    <3> QED
      BY <2>1, <2>4, <3>1, <3>2, Long1zInverse
  <2> DEFINE after == ptr + Len(LongHead(marker, 9, len))
  <2>6. /\ after \in Nat /\ next = after + 2
        /\ t = marker + low
        /\ low = 0 => CountEnds(bytes, ptr + 1)
        /\ Count(bytes, ptr + 1, low, 7) = [n |-> len - 2, next |-> after]
        /\ high * 16384 + Distance1z(bytes, after) = dist
    BY <2>1, <2>2, <2>5, 9 - 2 = 7, 7 \in Nat DEF LongRead1z
  <2>7. t % 8 = low /\ (t \div 8) % 2 = high /\ t \in 16 .. 31
    <3>1. high \in 0 .. 1 /\ t = 16 + high * 8 + low
      BY <2>1, <2>6
    <3> DEFINE b == 16 + high * 8 + low
    <3>2. b % 8 = low /\ (b \div 8) % 2 = high /\ b \in 16 .. 31
      BY <2>3, <3>1, HeadBits4
    <3> HIDE DEF b
    <3>3. t = b
      BY <3>1 DEF b
    <3> QED
      BY <3>2, <3>3
  <2>8. after + 2 = next /\ (after + 2) - 2 = after /\ (len - 2) + 2 = len
    BY <2>6
  <2> HIDE DEF after, marker, low
  <2> DEFINE m4 == M4Match(bytes, ptr + 1, t)
  <2>9. \E o : m4 = [len |-> len, off |-> o, next |-> next]
    <3>1. Count(bytes, ptr + 1, t % 8, 7) = [n |-> len - 2, next |-> after]
      BY <2>6, <2>7
    <3> DEFINE count == Count(bytes, ptr + 1, t % 8, 7)
    <3>2. count.n + 2 = len /\ count.next + 2 = next
      BY <2>8, <3>1
    <3> DEFINE d == ((t \div 8) % 2) * 16384 + Distance(bytes, count.next)
               o == IF d = 0 THEN 0 ELSE d + M3_MAX_OFFSET
    <3>3. m4 = [len |-> count.n + 2, off |-> o, next |-> count.next + 2]
      BY DEF M4Match
    <3> HIDE DEF count, m4, o
    <3>4. m4 = [len |-> len, off |-> o, next |-> next]
      BY <3>2, <3>3
    <3> QED
      BY <3>4
  <2>10. M4Match1z(bytes, ptr + 1, t) = match
    <3>1. PICK o : m4 = [len |-> len, off |-> o, next |-> next]
      BY <2>9
    <3> DEFINE d == ((t \div 8) % 2) * 16384 + Distance1z(bytes, m4.next - 2)
    <3>2. M4Match1z(bytes, ptr + 1, t)
            = [m4 EXCEPT !.off = IF d = 0 THEN 0 ELSE d + M3_MAX_OFFSET]
      BY DEF M4Match1z
    <3>3. d = dist
      BY <2>6, <2>7, <2>8, <3>1
    <3> HIDE DEF m4, d
    <3>4. d # 0 /\ d + M3_MAX_OFFSET = off
      BY <2>1, <3>3
    <3> QED
      BY <3>1, <3>2, <3>4
  <2> QED
    BY <2>6, <2>7, <2>10
<1> QED
  BY <1>1, <1>2, <1>3, <1>4

-----------------------------------------------------------------------------
(* The compressor *)

Scanning == label \in {"literal", "next", "match"}

(* What the fields are, but for what the bytes written are *)
Fields ==
    /\ algorithm \in Algorithms
    /\ orig \in Inputs
    /\ chunkAt \in Nat /\ left \in Nat /\ pending \in Nat
    /\ in_ptr \in Nat /\ ii \in Nat
    /\ dict \in [Slots -> Nat]
    /\ m_pos \in Nat
    /\ label \in {"chunk", "literal", "next", "match", "written"}

Positions ==
    /\ chunkAt + left = Len(orig)
    /\ pending <= chunkAt
    /\ Scanning =>
        /\ left > 20
        /\ ii <= in_ptr /\ chunkAt <= in_ptr /\ ii <= chunkAt + ll

(* The dictionary is behind the scan. *)
Behind ==
    /\ label \in {"literal", "match"} => \A s \in Slots : dict[s] <= in_ptr - chunkAt
    /\ label = "next" => \A s \in Slots : dict[s] < in_ptr - chunkAt
    /\ label = "match" =>
        /\ in_ptr < ip_end
        /\ chunkAt <= m_pos /\ m_pos < in_ptr
        /\ Four(m_pos) = Four(in_ptr)

(* What is written ends in free bits, or is nothing; then a run of four is *)
(* due.                                                                    *)
Room ==
    /\ out \in Seq(Byte)
    /\ label # "written" /\ out # << >> => Len(out) >= 2 /\ out[Len(out) - 1] % 4 = 0
    /\ Scanning /\ out = << >> => in_ptr - ii >= 4

IInv == Fields /\ Positions /\ Behind /\ Room

-----------------------------------------------------------------------------
LEMMA SmallestIs ==
    ASSUME NEW S \in SUBSET Nat, S # {}
    PROVE  Smallest(S) \in S /\ \A y \in S : Smallest(S) <= y
<1> DEFINE R == {ss \in Nat \X Nat : ss[1] < ss[2]}
<1>1. IsWellFoundedOn(R, Nat)
  BY NatLessThanWellFounded DEF OpToRel
<1> HIDE DEF R
<1>2. PICK x \in S : \A y \in S : ~ (<<y, x>> \in R)
  BY <1>1, WFMin, Zenon
<1>3. ASSUME NEW y \in S PROVE x <= y
  <2>1. x \in Nat /\ y \in Nat /\ <<y, x>> \in Nat \X Nat
    OBVIOUS
  <2>2. ~(y < x)
    BY <1>2, <2>1 DEF R
  <2> QED
    BY <2>1, <2>2
<1> QED
  BY <1>2, <1>3, Zenon DEF Smallest

LEMMA Lengths ==
    ASSUME Fields, Positions
    PROVE  /\ Chunk \in Nat /\ Chunk > 20 /\ M4_MAX_OFFSET \in Nat /\ Chunk <= M4_MAX_OFFSET + 1
           /\ orig \in Seq(Byte) /\ Len(orig) \in Nat
           /\ ll \in Nat /\ ll <= left /\ ll <= Chunk
           /\ ip_end \in Int /\ ip_end = chunkAt + ll - 20 /\ ip_end + 20 <= Len(orig)
           /\ left > 20 => ll > 20
<1>1. Chunk \in Nat /\ Chunk > 20 /\ M4_MAX_OFFSET \in Nat /\ Chunk <= M4_MAX_OFFSET + 1
  BY ChunkAssumption, OffsetsAssumption
<1>2. orig \in Seq(Byte) /\ Len(orig) \in Nat
  <2>1. orig \in Seq(Byte)
    BY InputsAssumption DEF Fields, Byte
  <2> QED
    BY <2>1, LenProperties
<1>3. left \in Nat /\ chunkAt \in Nat /\ chunkAt + left = Len(orig)
  BY DEF Fields, Positions
<1>4. ll \in Nat /\ ll <= left /\ ll <= Chunk /\ (left > 20 => ll > 20)
  BY <1>1, <1>3 DEF ll, Least
<1> QED
  BY <1>1, <1>2, <1>3, <1>4 DEF ip_end

(* The four bytes at a position the scan reaches *)
LEMMA FourBytes ==
    ASSUME Fields, Positions, NEW p \in Nat, p + 20 <= Len(orig)
    PROVE  /\ DINDEX(Four(p)) \in Slots
           /\ \A k \in 0 .. 3 : Four(p)[k + 1] = At(orig, p + k)
<1>1. orig \in Inputs /\ orig \in Seq(Byte) /\ Len(orig) \in Nat
  BY Lengths DEF Fields
<1>2. DINDEX(SubSeq(orig, p + 1, p + 4)) \in Slots
  <2>1. p \in 0 .. Len(orig) - 4
    BY <1>1
  <2> QED
    BY <1>1, <2>1, HashAssumption
<1>3. \A i \in 1 .. 4 : SubSeq(orig, p + 1, p + 4)[i] = orig[p + i]
  <2> DEFINE m == p + 1
             n == p + 4
  <2>1. m \in Int /\ n \in Int /\ n - m + 1 = 4
    OBVIOUS
  <2>2. \A i \in m .. n : orig[i] \in Byte
    BY <1>1
  <2>3. \A i \in 1 .. 4 : m + i - 1 = p + i
    OBVIOUS
  <2> HIDE DEF m, n
  <2>4. \A i \in 1 .. n - m + 1 : SubSeq(orig, m, n)[i] = orig[m + i - 1]
    BY <2>1, <2>2, SubSeqProperties
  <2> QED
    BY <2>1, <2>3, <2>4 DEF m, n
<1>4. \A k \in 0 .. 3 : k + 1 \in 1 .. 4 /\ p + (k + 1) = (p + k) + 1
  OBVIOUS
<1> QED
  BY <1>2, <1>3, <1>4 DEF Four, At

(* How far a match may go, whatever is in the chunk *)
LEMMA MatchEnds ==
    ASSUME Fields, Positions, Behind, label = "match"
    PROVE  /\ MatchLen \in Nat /\ MatchLen >= 4
           /\ in_ptr + MatchLen <= chunkAt + ll
           /\ \A k \in 0 .. MatchLen - 1 : At(orig, in_ptr + k) = At(orig, m_pos + k)
<1> DEFINE S == {m \in 4 .. Len(orig) - in_ptr - 1 :
                    \/ At(orig, in_ptr + m) # At(orig, m_pos + m)
                    \/ m > 4 /\ in_ptr + m >= ip_end}
           far == IF in_ptr + 5 >= ip_end THEN 5 ELSE ip_end - in_ptr
<1>1. /\ in_ptr \in Nat /\ m_pos \in Nat /\ chunkAt \in Nat
      /\ in_ptr < ip_end /\ m_pos < in_ptr /\ Four(m_pos) = Four(in_ptr)
  BY DEF Fields, Behind
<1>2. /\ Len(orig) \in Nat /\ ll \in Nat /\ ip_end \in Int
      /\ ip_end = chunkAt + ll - 20 /\ ip_end + 20 <= Len(orig)
  BY Lengths
<1>3. far \in Nat /\ far > 4 /\ in_ptr + far >= ip_end /\ in_ptr + far <= ip_end + 4
  BY <1>1, <1>2
<1> HIDE DEF far
<1>4. far \in S
  BY <1>1, <1>2, <1>3
<1>5. S \in SUBSET Nat
  OBVIOUS
<1>6. MatchLen = Smallest(S)
  BY DEF MatchLen
<1>7. MatchLen \in S /\ \A y \in S : MatchLen <= y
  BY <1>4, <1>5, <1>6, SmallestIs
<1>8. MatchLen \in Nat /\ MatchLen >= 4 /\ MatchLen <= Len(orig) - in_ptr - 1
  BY <1>1, <1>2, <1>7
<1>9. MatchLen <= far
  BY <1>4, <1>7
<1>10. ASSUME NEW k \in 0 .. MatchLen - 1
       PROVE  At(orig, in_ptr + k) = At(orig, m_pos + k)
  <2>1. CASE k < 4
    <3>1. k \in 0 .. 3
      BY <2>1, <1>8
    <3>2. in_ptr + 20 <= Len(orig) /\ m_pos + 20 <= Len(orig)
      BY <1>1, <1>2
    <3>3. Four(in_ptr)[k + 1] = At(orig, in_ptr + k) /\ Four(m_pos)[k + 1] = At(orig, m_pos + k)
      BY <1>1, <3>1, <3>2, FourBytes
    <3> QED
      BY <1>1, <3>3
  <2>2. CASE k >= 4
    <3>1. k \in 4 .. Len(orig) - in_ptr - 1 /\ ~(MatchLen <= k)
      BY <2>2, <1>1, <1>2, <1>8
    <3>2. k \notin S
      BY <1>7, <3>1
    <3> QED
      BY <3>1, <3>2
  <2> QED
    BY <2>1, <2>2, <1>8
<1> QED
  BY <1>1, <1>2, <1>3, <1>8, <1>9, <1>10

-----------------------------------------------------------------------------
(* What is written *)

LEMMA Bytes == \A x : x \in Byte <=> x \in Nat /\ x < 256
BY DEF Byte

LEMMA FreeBits ==
    ASSUME NEW b \in Nat, b < 256, b % 4 = 0, NEW t \in Nat, t <= 3
    PROVE  OrCount(b, t) \in Nat /\ OrCount(b, t) < 256
<1>1. PICK q \in Nat : b = 4 * q
  <2>1. b \div 4 \in Nat /\ b = 4 * (b \div 4) + (b % 4)
    OBVIOUS
  <2> QED
    BY <2>1
<1>2. q <= 63
  BY <1>1
<1>3. b \div 2 = 2 * q /\ b % 2 = 0
  BY <1>1
<1>4. (b \div 2) % 2 = 0
  BY <1>3
<1> QED
  BY <1>1, <1>2, <1>3, <1>4 DEF OrCount

LEMMA RunCodeBytes ==
    ASSUME NEW t \in Nat, t >= 4
    PROVE  RunCode(t) \in Seq(Byte)
<1>1. CASE t <= 18
  <2>1. t - 3 \in Byte
    BY <1>1 DEF Byte
  <2> QED
    BY <1>1, <2>1 DEF RunCode
<1>2. CASE ~(t <= 18)
  <2> DEFINE n == t - 18
  <2>1. n \in Nat /\ n >= 1
    BY <1>2
  <2>2. RunCode(t) = <<0>> \o Extended(n)
    BY <1>2 DEF RunCode
  <2> HIDE DEF n
  <2>3. Extended(n) \in Seq(Byte)
    BY <2>1, ExtendedBytes
  <2>4. <<0>> \in Seq(Byte)
    BY DEF Byte
  <2> QED
    BY <2>2, <2>3, <2>4, ConcatProperties
<1> QED
  BY <1>1, <1>2

(* A run is written in bytes, if a short one finds the free bits. *)
LEMMA WithRunBytes ==
    ASSUME NEW o \in Seq(Byte), NEW lits \in Seq(Byte), Len(lits) >= 1,
           Len(lits) <= 3 => Len(o) >= 2 /\ o[Len(o) - 1] % 4 = 0
    PROVE  WithRun(o, lits) \in Seq(Byte)
<1> DEFINE t == Len(lits)
<1>1. t \in Nat
  BY LenProperties
<1>2. CASE t <= 3
  <2> DEFINE i == Len(o) - 1
             b == o[i]
             c == OrCount(b, t)
  <2>1. i \in 1 .. Len(o) /\ b % 4 = 0
    BY <1>2, LenProperties
  <2>2. b \in Byte
    BY <2>1
  <2>3. c \in Byte
    <3>1. b \in Nat /\ b < 256
      BY <2>2, Bytes
    <3>2. t <= 3
      BY <1>2
    <3> HIDE DEF b, t
    <3> QED
      BY <1>1, <2>1, <3>1, <3>2, FreeBits, Bytes
  <2>4. WithRun(o, lits) = [o EXCEPT ![i] = c] \o lits
    BY <1>2 DEF WithRun
  <2> HIDE DEF i, c
  <2>5. [o EXCEPT ![i] = c] \in Seq(Byte)
    BY <2>1, <2>3, ExceptSeq
  <2> QED
    BY <2>4, <2>5, ConcatProperties
<1>3. CASE ~(t <= 3)
  <2>1. WithRun(o, lits) = o \o RunCode(t) \o lits
    BY <1>3 DEF WithRun
  <2>2. RunCode(t) \in Seq(Byte)
    BY <1>1, <1>3, RunCodeBytes
  <2>3. o \o RunCode(t) \in Seq(Byte)
    BY <2>2, ConcatProperties
  <2> QED
    BY <2>1, <2>3, ConcatProperties
<1> QED
  BY <1>2, <1>3

LEMMA WithAnyRunBytes ==
    ASSUME NEW o \in Seq(Byte), NEW lits \in Seq(Byte), Len(lits) >= 1,
           o # << >> => Len(o) >= 2 /\ o[Len(o) - 1] % 4 = 0
    PROVE  WithAnyRun(o, lits) \in Seq(Byte)
<1>1. CASE o = << >> /\ Len(lits) <= 238
  <2>1. Len(lits) \in Nat
    BY LenProperties
  <2>2. 17 + Len(lits) \in Byte
    <3> DEFINE n == Len(lits)
    <3>1. n \in Nat /\ n <= 238
      BY <1>1, <2>1
    <3> HIDE DEF n
    <3>2. 17 + n \in Nat /\ 17 + n < 256
      BY <3>1
    <3>3. 17 + n \in Byte
      BY <3>2, Bytes
    <3> QED
      BY <3>3 DEF n
  <2>3. <<17 + Len(lits)>> \in Seq(Byte)
    BY <2>2
  <2>4. WithAnyRun(o, lits) = <<17 + Len(lits)>> \o lits
    BY <1>1 DEF WithAnyRun
  <2> QED
    BY <2>3, <2>4, ConcatProperties
<1>2. CASE ~(o = << >> /\ Len(lits) <= 238)
  <2>1. WithAnyRun(o, lits) = WithRun(o, lits)
    BY <1>2 DEF WithAnyRun
  <2>2. Len(lits) <= 3 => o # << >>
    BY <1>2, LenProperties
  <2> QED
    BY <2>1, <2>2, WithRunBytes
<1> QED
  BY <1>1, <1>2

(* A part of the input *)
LEMMA PartOfInput ==
    ASSUME Fields, Positions, NEW from \in Nat, NEW to \in Nat, to <= Len(orig)
    PROVE  /\ SubSeq(orig, from + 1, to) \in Seq(Byte)
           /\ from <= to => Len(SubSeq(orig, from + 1, to)) = to - from
<1>1. orig \in Seq(Byte) /\ Len(orig) \in Nat
  BY Lengths
<1> DEFINE m == from + 1
<1>2. m \in Int /\ to \in Int /\ m >= 1
  OBVIOUS
<1>3. \A i \in m .. to : orig[i] \in Byte
  BY <1>1, <1>2
<1>4. from <= to => (IF m <= to THEN to - m + 1 ELSE 0) = to - from
  OBVIOUS
<1> HIDE DEF m
<1>5. SubSeq(orig, m, to) \in Seq(Byte) /\ Len(SubSeq(orig, m, to)) = IF m <= to THEN to - m + 1 ELSE 0
  BY <1>2, <1>3, SubSeqProperties
<1> QED
  BY <1>4, <1>5 DEF m

-----------------------------------------------------------------------------
LEMMA InitInv == Init => IInv
<1> SUFFICES ASSUME Init PROVE IInv
  OBVIOUS
<1> USE DEF Init, Ready
<1>1. Len(orig) \in Nat
  <2>1. orig \in Seq(0 .. 255)
    BY InputsAssumption
  <2> QED
    BY <2>1, LenProperties
<1>2. Fields
  BY <1>1 DEF Fields
<1>3. Positions
  BY <1>1 DEF Positions, Scanning
<1>4. Behind
  BY DEF Behind
<1>5. Room
  BY DEF Room, Scanning
<1> QED
  BY <1>2, <1>3, <1>4, <1>5 DEF IInv

LEMMA StartChunkKeeps ==
    ASSUME IInv, StartChunk
    PROVE  IInv'
<1> USE DEF IInv, StartChunk, callVars
<1>1. /\ chunkAt \in Nat /\ left \in Nat /\ pending \in Nat /\ pending <= chunkAt
      /\ left > 20 /\ ll \in Nat /\ ll > 20
      /\ chunkAt' = chunkAt /\ left' = left /\ pending' = pending /\ orig' = orig
  BY Lengths DEF Fields, Positions, WorthScanning
<1>2. /\ ii' = chunkAt - pending /\ ii' \in Nat
      /\ in_ptr' \in Nat /\ in_ptr' >= chunkAt /\ in_ptr' - ii' >= 4 /\ ii' <= in_ptr'
  BY <1>1
<1>3. Fields'
  BY <1>1, <1>2 DEF Fields
<1>4. Positions'
  BY <1>1, <1>2 DEF Positions, Scanning, ll
<1>5. Behind'
  <2>1. \A s \in Slots : dict'[s] = 0
    OBVIOUS
  <2> QED
    BY <1>1, <1>2, <2>1 DEF Behind
<1>6. Room'
  BY <1>2 DEF Room, Scanning
<1> QED
  BY <1>3, <1>4, <1>5, <1>6

LEMMA LiteralKeeps ==
    ASSUME IInv, Literal
    PROVE  IInv'
<1> USE DEF IInv, Literal, callVars
<1>1. /\ chunkAt \in Nat /\ in_ptr \in Nat /\ ii \in Nat /\ ii <= in_ptr /\ chunkAt <= in_ptr
      /\ dict \in [Slots -> Nat]
  BY DEF Fields, Positions, Scanning
<1>2. in_ptr' \in Nat /\ in_ptr' > in_ptr
  <2>1. in_ptr - ii \in Nat
    BY <1>1
  <2>2. (in_ptr - ii) \div 32 \in Nat
    BY <2>1
  <2> QED
    BY <1>1, <2>2
<1>3. Fields'
  BY <1>2 DEF Fields
<1>4. Positions'
  BY <1>1, <1>2 DEF Positions, Scanning, ll
<1>5. Behind'
  <2>1. \A s \in Slots : dict[s] <= in_ptr - chunkAt
    BY DEF Behind
  <2>2. \A s \in Slots : dict[s] < in_ptr' - chunkAt
    BY <1>1, <1>2, <2>1
  <2> QED
    BY <2>2 DEF Behind
<1>6. Room'
  BY <1>1, <1>2 DEF Room, Scanning
<1> QED
  BY <1>3, <1>4, <1>5, <1>6

LEMMA LookupKeeps ==
    ASSUME IInv, Lookup
    PROVE  IInv'
<1> DEFINE d == DINDEX(Four(in_ptr))
<1> USE DEF IInv, callVars
<1>1. /\ chunkAt \in Nat /\ in_ptr \in Nat /\ ii \in Nat /\ ii <= in_ptr /\ chunkAt <= in_ptr
      /\ dict \in [Slots -> Nat]
      /\ \A s \in Slots : dict[s] < in_ptr - chunkAt
  BY DEF Fields, Positions, Scanning, Behind, Lookup
<1>2. in_ptr < ip_end /\ ip_end \in Int /\ ip_end + 20 <= Len(orig) /\ Len(orig) \in Nat
  BY Lengths DEF Lookup
<1>3. d \in Slots
  BY <1>1, <1>2, FourBytes
<1> HIDE DEF d
<1>4. /\ m_pos' = chunkAt + dict[d]
      /\ dict' = [dict EXCEPT ![d] = in_ptr - chunkAt]
      /\ label' = IF Four(m_pos') = Four(in_ptr) THEN "match" ELSE "literal"
      /\ algorithm' = algorithm /\ orig' = orig /\ out' = out
      /\ chunkAt' = chunkAt /\ left' = left /\ pending' = pending
      /\ in_ptr' = in_ptr /\ ii' = ii /\ label = "next"
  BY DEF Lookup, d
<1>5. m_pos' \in Nat /\ chunkAt <= m_pos' /\ m_pos' < in_ptr
  BY <1>1, <1>3, <1>4
<1>6. dict' \in [Slots -> Nat] /\ \A s \in Slots : dict'[s] <= in_ptr - chunkAt
  BY <1>1, <1>3, <1>4
<1>7. Fields'
  BY <1>4, <1>5, <1>6 DEF Fields
<1>8. Positions'
  BY <1>4 DEF Positions, Scanning, ll
<1>9. Behind'
  <2>1. ip_end' = ip_end
    BY <1>4 DEF ip_end, ll
  <2>2. label' = "match" => Four(m_pos)' = Four(in_ptr)'
    BY <1>4 DEF Four
  <2> QED
    BY <1>2, <1>4, <1>5, <1>6, <2>1, <2>2 DEF Behind
<1>10. Room'
  BY <1>4 DEF Room, Scanning
<1> QED
  BY <1>7, <1>8, <1>9, <1>10

LEMMA EmitMatchKeeps ==
    ASSUME IInv, EmitMatch
    PROVE  IInv'
<1> DEFINE len == MatchLen
           off == in_ptr - m_pos
           lits == SubSeq(orig, ii + 1, in_ptr)
<1> USE DEF IInv, callVars
<1>1. /\ chunkAt \in Nat /\ in_ptr \in Nat /\ ii \in Nat /\ m_pos \in Nat
      /\ ii <= in_ptr /\ chunkAt <= in_ptr /\ m_pos < in_ptr
      /\ in_ptr < ip_end /\ left > 20 /\ dict \in [Slots -> Nat]
      /\ \A s \in Slots : dict[s] <= in_ptr - chunkAt
  BY DEF Fields, Positions, Scanning, Behind, EmitMatch
<1>2. ll \in Nat /\ ip_end \in Int /\ ip_end + 20 <= Len(orig) /\ Len(orig) \in Nat
  BY Lengths
<1>3. len \in Nat /\ len >= 4 /\ in_ptr + len <= chunkAt + ll
  BY MatchEnds DEF EmitMatch
<1>4. off \in Nat /\ off >= 1
  BY <1>1
<1> HIDE DEF len, off
<1>5. /\ out' = WithPending \o MatchCode(algorithm, len, off)
      /\ in_ptr' = in_ptr + len /\ ii' = in_ptr + len /\ label' = "next" /\ label = "match"
      /\ algorithm' = algorithm /\ orig' = orig
      /\ chunkAt' = chunkAt /\ left' = left /\ pending' = pending
      /\ dict' = dict /\ m_pos' = m_pos
  BY DEF EmitMatch, len, off
<1>6. in_ptr' \in Nat /\ ii' \in Nat /\ in_ptr' > in_ptr
  BY <1>1, <1>3, <1>5
<1>7. Fields'
  BY <1>5, <1>6 DEF Fields
<1>8. Positions'
  <2>1. ll' = ll
    BY <1>5 DEF ll
  <2>2. ii' <= in_ptr' /\ chunkAt' <= in_ptr' /\ ii' <= chunkAt' + ll'
    BY <1>1, <1>3, <1>5, <1>6, <2>1
  <2> QED
    BY <1>1, <1>5, <2>2 DEF Positions
<1>9. Behind'
  <2>1. \A s \in Slots : dict[s] < in_ptr' - chunkAt
    BY <1>1, <1>6
  <2> QED
    BY <1>5, <2>1 DEF Behind
<1>10. Room'
  <2>1. WithPending \in Seq(Byte)
    <3>1. CASE in_ptr = ii
      BY <3>1 DEF WithPending, Room
    <3>2. CASE in_ptr # ii
      <4>1. lits \in Seq(Byte) /\ Len(lits) = in_ptr - ii
        BY <1>1, <1>2, PartOfInput, in_ptr <= Len(orig)
      <4>2. out \in Seq(Byte)
        BY DEF Room
      <4> HIDE DEF lits
      <4>3. Len(lits) >= 1
        BY <1>1, <3>2, <4>1
      <4>4. Len(lits) <= 3 => out # << >>
        BY <1>1, <1>5, <4>1 DEF Room, Scanning
      <4>5. Len(lits) <= 3 => Len(out) >= 2 /\ out[Len(out) - 1] % 4 = 0
        BY <1>5, <4>4 DEF Room
      <4>6. WithRun(out, lits) \in Seq(Byte)
        BY <4>1, <4>2, <4>3, <4>5, WithRunBytes
      <4> QED
        BY <3>2, <4>6 DEF WithPending, lits
    <3> QED
      BY <3>1, <3>2
  <2> DEFINE c == MatchCode(algorithm, len, off)
             front == WithPending
  <2>2. algorithm \in Algorithms
    BY DEF Fields
  <2>3. c \in Seq(Byte) /\ Len(c) \in Nat /\ Len(c) >= 2 /\ c[Len(c) - 1] % 4 = 0
    BY <1>3, <1>4, <2>2, MatchCodeBytes, len >= 3
  <2> HIDE DEF c, front
  <2>4. front \in Seq(Byte)
    BY <2>1 DEF front
  <2>5. front \o c \in Seq(Byte) /\ Len(front \o c) >= 2
        /\ (front \o c)[Len(front \o c) - 1] % 4 = 0
    BY <2>3, <2>4, LastBits
  <2>6. out' = front \o c
    BY <1>5 DEF front, c
  <2>7. Len(out') >= 2 /\ out' \in Seq(Byte) /\ out'[Len(out') - 1] % 4 = 0
    BY <2>5, <2>6
  <2>8. out' # << >>
    BY <2>7
  <2> QED
    BY <2>7, <2>8 DEF Room
<1> QED
  BY <1>7, <1>8, <1>9, <1>10

LEMMA EndChunkKeeps ==
    ASSUME IInv, EndChunk
    PROVE  IInv'
<1> USE DEF IInv, callVars
<1>1. /\ chunkAt \in Nat /\ left \in Nat /\ ii \in Nat /\ ii <= chunkAt + ll
      /\ chunkAt + left = Len(orig) /\ ll \in Nat /\ ll <= left
  BY Lengths DEF Fields, Positions, Scanning, EndChunk
<1>2. /\ pending' = chunkAt + ll - ii /\ chunkAt' = chunkAt + ll /\ left' = left - ll
      /\ label' = "chunk" /\ label = "next" /\ algorithm' = algorithm /\ orig' = orig
      /\ out' = out /\ in_ptr' = in_ptr /\ ii' = ii /\ dict' = dict /\ m_pos' = m_pos
  BY DEF EndChunk
<1>3. pending' \in Nat /\ chunkAt' \in Nat /\ left' \in Nat /\ pending' <= chunkAt'
  BY <1>1, <1>2
<1>4. Fields'
  BY <1>2, <1>3 DEF Fields
<1>5. Positions'
  BY <1>1, <1>2, <1>3 DEF Positions, Scanning
<1>6. Behind'
  BY <1>2 DEF Behind
<1>7. Room'
  BY <1>2 DEF Room, Scanning
<1> QED
  BY <1>4, <1>5, <1>6, <1>7

LEMMA FinishKeeps ==
    ASSUME IInv, Finish
    PROVE  IInv'
<1> DEFINE t == pending + left
           lits == SubSeq(orig, Len(orig) - t + 1, Len(orig))
           head == IF t > 0 THEN WithAnyRun(out, lits) ELSE out
<1> USE DEF IInv
<1>1. /\ chunkAt \in Nat /\ left \in Nat /\ pending \in Nat /\ pending <= chunkAt
      /\ chunkAt + left = Len(orig) /\ Len(orig) \in Nat
  BY Lengths DEF Fields, Positions
<1>2. out' = head \o EofCode
  BY DEF Finish
<1>3. head \in Seq(Byte)
  <2>1. out \in Seq(Byte) /\ (out # << >> => Len(out) >= 2 /\ out[Len(out) - 1] % 4 = 0)
    BY DEF Room, Finish
  <2>2. CASE t > 0
    <3> DEFINE from == Len(orig) - t
               to == Len(orig)
    <3>1. from \in Nat /\ to \in Nat /\ from <= to /\ to <= Len(orig) /\ to - from = t
      BY <1>1
    <3>2. lits = SubSeq(orig, from + 1, to)
      OBVIOUS
    <3> HIDE DEF from, to, lits, t
    <3>3. lits \in Seq(Byte) /\ Len(lits) = t
      <4>1. /\ SubSeq(orig, from + 1, to) \in Seq(Byte)
            /\ Len(SubSeq(orig, from + 1, to)) = to - from
        BY <3>1, PartOfInput
      <4> QED
        BY <3>1, <3>2, <4>1
    <3> USE DEF t
    <3>4. t \in Nat
      BY <1>1
    <3> HIDE DEF lits, t
    <3>5. WithAnyRun(out, lits) \in Seq(Byte)
      BY <2>1, <2>2, <3>3, <3>4, WithAnyRunBytes, Len(lits) >= 1
    <3> QED
      BY <2>2, <3>5
  <2>3. CASE ~(t > 0)
    BY <2>1, <2>3
  <2> QED
    BY <2>2, <2>3
<1> HIDE DEF head
<1>4. EofCode \in Seq(Byte)
  <2>1. 17 \in Byte /\ 0 \in Byte
    BY Bytes
  <2> QED
    BY <2>1 DEF EofCode, M4_MARKER
<1>5. out' \in Seq(Byte)
  BY <1>2, <1>3, <1>4, ConcatProperties
<1>6. /\ label' = "written"
      /\ UNCHANGED <<algorithm, orig, chunkAt, left, pending, in_ptr, ii, dict, m_pos>>
  BY DEF Finish
<1>7. Fields'
  BY <1>6 DEF Fields
<1>8. Positions'
  BY <1>6 DEF Positions, Scanning
<1>9. Behind'
  BY <1>6 DEF Behind
<1>10. Room'
  BY <1>5, <1>6 DEF Room, Scanning
<1> QED
  BY <1>7, <1>8, <1>9, <1>10

LEMMA StutterKeeps == IInv /\ UNCHANGED vars => IInv'
<1> SUFFICES ASSUME IInv, UNCHANGED vars PROVE IInv'
  OBVIOUS
<1>1. /\ algorithm' = algorithm /\ orig' = orig /\ out' = out
      /\ chunkAt' = chunkAt /\ left' = left /\ pending' = pending
      /\ in_ptr' = in_ptr /\ ii' = ii /\ dict' = dict /\ m_pos' = m_pos /\ label' = label
  BY DEF vars, callVars, scanVars
<1>2. ll' = ll /\ ip_end' = ip_end /\ Four(m_pos)' = Four(m_pos) /\ Four(in_ptr)' = Four(in_ptr)
  BY <1>1 DEF ll, ip_end, Four
<1>3. Fields'
  BY <1>1 DEF IInv, Fields
<1>4. Positions'
  BY <1>1, <1>2 DEF IInv, Positions, Scanning
<1>5. Behind'
  BY <1>1, <1>2 DEF IInv, Behind
<1>6. Room'
  BY <1>1 DEF IInv, Room, Scanning
<1> QED
  BY <1>3, <1>4, <1>5, <1>6 DEF IInv

-----------------------------------------------------------------------------
LEMMA NextKeeps == IInv /\ [Next]_vars => IInv'
<1> SUFFICES ASSUME IInv, [Next]_vars PROVE IInv'
  OBVIOUS
<1>1. CASE StartChunk
  BY <1>1, StartChunkKeeps
<1>2. CASE Literal
  BY <1>2, LiteralKeeps
<1>3. CASE Lookup
  BY <1>3, LookupKeeps
<1>4. CASE EmitMatch
  BY <1>4, EmitMatchKeeps
<1>5. CASE EndChunk
  BY <1>5, EndChunkKeeps
<1>6. CASE Finish
  BY <1>6, FinishKeeps
<1>7. CASE UNCHANGED vars
  BY <1>7, StutterKeeps
<1> QED
  BY <1>1, <1>2, <1>3, <1>4, <1>5, <1>6, <1>7 DEF Next

THEOREM Inductive == Spec => []IInv
BY InitInv, NextKeeps, PTL DEF Spec

(* The fields of a compressor keep their types, for every input and every  *)
(* length of chunk: all it writes are bytes.                               *)
THEOREM CompressorTypes == Spec => []TypeOK
<1>1. IInv => TypeOK
  BY DEF IInv, Fields, Room, Byte, TypeOK
<1> QED
  BY Inductive, <1>1, PTL

(* The match that do_compress is about to write repeats what is before it, *)
(* within the offsets a token has, and does not leave the chunk.           *)
THEOREM MatchesAreTrue == Spec => []MatchIsTrue
<1>1. IInv => MatchIsTrue
  <2> SUFFICES ASSUME IInv, label = "match"
               PROVE  /\ in_ptr - m_pos \in 1 .. M4_MAX_OFFSET
                      /\ in_ptr + MatchLen <= chunkAt + ll
                      /\ \A k \in 0 .. MatchLen - 1 :
                            At(orig, in_ptr + k) = At(orig, m_pos + k)
    BY DEF MatchIsTrue
  <2> USE DEF IInv
  <2>1. /\ in_ptr \in Nat /\ m_pos \in Nat /\ chunkAt \in Nat
        /\ in_ptr < ip_end /\ chunkAt <= m_pos /\ m_pos < in_ptr
    BY DEF Fields, Behind
  <2>2. /\ Chunk \in Nat /\ M4_MAX_OFFSET \in Nat /\ Chunk <= M4_MAX_OFFSET + 1
        /\ ll \in Nat /\ ll <= Chunk /\ ip_end = chunkAt + ll - 20
    BY Lengths
  <2>3. in_ptr - m_pos \in 1 .. M4_MAX_OFFSET
    BY <2>1, <2>2
  <2> QED
    BY <2>3, MatchEnds
<1> QED
  BY Inductive, <1>1, PTL

(* Where one to three literals come before a match, the byte that is to    *)
(* count them has been written, and its two low bits are free.             *)
THEOREM CountsHaveRoom == Spec => []CountHasRoom
<1>1. IInv => CountHasRoom
  <2> SUFFICES ASSUME IInv, label = "match", in_ptr - ii \in 1 .. 3
               PROVE  Len(out) >= 2 /\ out[Len(out) - 1] % 4 = 0
    BY DEF CountHasRoom
  <2>1. out # << >>
    <3>1. in_ptr \in Nat /\ ii \in Nat /\ ~(in_ptr - ii >= 4)
      BY DEF IInv, Fields
    <3> QED
      BY <3>1 DEF IInv, Room, Scanning
  <2> QED
    BY <2>1 DEF IInv, Room
<1> QED
  BY Inductive, <1>1, PTL

-----------------------------------------------------------------------------
(* The block as decompress takes it.  A place is how many bytes of the     *)
(* block have been read, and how many bytes of the original they gave.     *)

(* w begins with what o is, up to the bits that count literals at its end. *)
Kept(o, w, e) ==
    /\ e <= Len(o) /\ e <= Len(w)
    /\ \A i \in 1 .. e : i # e - 1 => w[i] = o[i]
    /\ e >= 2 => w[e - 1] \div 4 = o[e - 1] \div 4

(* The n bytes of the original from d on stand in the block from p on. *)
LitsStand(o, s, p, d, n) ==
    /\ p + n <= Len(o) /\ d + n <= Len(s)
    /\ \A k \in 1 .. n : o[p + k] = s[d + k]

NoneAnnounced(o, b) == IF b = 0 THEN o[1] <= 17 ELSE b >= 2 /\ Announced(o, b) = 0

(* The n literals behind the place <<b, d>>; p is where they end. *)
FewLits(o, s, b, d, n, p) ==
    /\ n \in 1 .. 3 /\ b >= 2 /\ Announced(o, b) = n
    /\ p = b + n
    /\ LitsStand(o, s, b, d, n)
ManyLits(o, s, b, d, n, p) ==
    /\ n >= 4 /\ NoneAnnounced(o, b)
    /\ Stands(RunCode(n), o, b)
    /\ p = b + Len(RunCode(n)) + n
    /\ LitsStand(o, s, b + Len(RunCode(n)), d, n)
FirstLits(o, s, b, d, n, p) ==
    /\ n \in 1 .. 238 /\ b = 0 /\ o[1] = 17 + n
    /\ p = 1 + n
    /\ LitsStand(o, s, 1, d, n)
Lits(o, s, b, d, n, p) ==
    \/ n = 0 /\ p = b /\ d <= Len(s) /\ NoneAnnounced(o, b)
    \/ FewLits(o, s, b, d, n, p)
    \/ ManyLits(o, s, b, d, n, p)
    \/ FirstLits(o, s, b, d, n, p)

(* The f - d bytes of the original from d on are the ones off before. *)
Copies(s, d, f, off) ==
    /\ off \in 1 .. M4_MAX_OFFSET /\ off <= d /\ f <= Len(s)
    /\ \A k \in 1 .. f - d : s[d + k] = s[d + k - off]

(* A match from p on, that leads from d bytes to the place <<e, f>>. *)
MatchStands(a, o, s, p, d, e, f) ==
    /\ f - d >= 4
    /\ \E off \in Nat :
        /\ Copies(s, d, f, off)
        /\ StandsCounted(MatchCode(a, f - d, off), o, p)
        /\ e = p + Len(MatchCode(a, f - d, off))

EofStands(o, s, p, d) == Stands(EofCode, o, p) /\ p + 3 = Len(o) /\ d = Len(s)

(* From place x, literals and a match lead to place y. *)
Segment(a, o, s, x, y) ==
    \E n, p \in Nat :
        /\ Lits(o, s, x[1], x[2], n, p) /\ (x[1] = 0 => n >= 4)
        /\ MatchStands(a, o, s, p, x[2] + n, y[1], y[2])

(* A block that goes on at z: every place before it leads to another. *)
Laid(a, o, s, places, z) ==
    /\ places \subseteq Nat \X Nat
    /\ <<0, 0>> \in places /\ z \in places
    /\ \A x \in places \ {z} :
        /\ x[1] + 2 <= z[1]
        /\ \E y \in places : Segment(a, o, s, x, y)

(* The literals and the match, or the end, behind p, where d bytes have    *)
(* been given                                                              *)
Token(a, o, s, places, p, d) ==
    \/ \E y \in places : MatchStands(a, o, s, p, d, y[1], y[2])
    \/ EofStands(o, s, p, d)
Leads(a, o, s, places, x) ==
    \E n, p \in Nat :
        /\ Lits(o, s, x[1], x[2], n, p)
        /\ Token(a, o, s, places, p, x[2] + n)

(* A block that is complete *)
Complete(a, o, s, places) ==
    /\ places \subseteq Nat \X Nat
    /\ <<0, 0>> \in places
    /\ \A x \in places : Leads(a, o, s, places, x)

Describes(a, o, s) == \E places \in SUBSET (Nat \X Nat) : Complete(a, o, s, places)

-----------------------------------------------------------------------------
(* What is written behind a place does not change what is before it. *)

LEMMA KeptUpTo ==
    ASSUME NEW o \in Seq(Byte), NEW w \in Seq(Byte), NEW m \in Nat, NEW e \in Nat,
           Kept(o, w, m), e = m \/ e + 2 <= m
    PROVE  Kept(o, w, e)
<1>1. Len(o) \in Nat /\ Len(w) \in Nat /\ m <= Len(o) /\ m <= Len(w)
  BY LenProperties DEF Kept
<1>2. CASE e = m
  BY <1>2
<1>3. CASE e + 2 <= m
  <2>1. \A i \in 1 .. e : w[i] = o[i]
    BY <1>3 DEF Kept
  <2>2. e >= 2 => w[e - 1] = o[e - 1]
    BY <2>1
  <2> QED
    BY <1>1, <1>3, <2>1, <2>2 DEF Kept
<1> QED
  BY <1>2, <1>3

LEMMA LitsKept ==
    ASSUME NEW o \in Seq(Byte), NEW w \in Seq(Byte), NEW s,
           NEW b \in Nat, NEW d \in Nat, NEW n \in Nat, NEW p \in Nat, NEW e \in Nat,
           Kept(o, w, e), p + 2 <= e, b = 0 => n >= 4, Lits(o, s, b, d, n, p)
    PROVE  Lits(w, s, b, d, n, p)
<1>1. /\ Len(o) \in Nat /\ Len(w) \in Nat /\ e <= Len(o) /\ e <= Len(w)
      /\ \A i \in 1 .. p : w[i] = o[i]
  BY LenProperties DEF Kept
<1>2. ASSUME NEW q \in Nat, q + n = p, LitsStand(o, s, q, d, n)
      PROVE  LitsStand(w, s, q, d, n)
  <2>1. \A k \in 1 .. n : q + k \in 1 .. p
    BY <1>2
  <2>2. q + n <= Len(w)
    BY <1>1, <1>2
  <2> QED
    BY <1>1, <1>2, <2>1, <2>2 DEF LitsStand
<1>3. ASSUME b <= p, b = 0 => p >= 1, NoneAnnounced(o, b)
      PROVE  NoneAnnounced(w, b)
  BY <1>1, <1>3 DEF NoneAnnounced, Announced, At
<1>4. CASE n = 0 /\ p = b /\ d <= Len(s) /\ NoneAnnounced(o, b)
  BY <1>3, <1>4 DEF Lits
<1>5. CASE FewLits(o, s, b, d, n, p)
  <2>1. n \in 1 .. 3 /\ b >= 2 /\ p = b + n /\ Announced(o, b) = n /\ LitsStand(o, s, b, d, n)
    BY <1>5 DEF FewLits
  <2>2. Announced(w, b) = n
    BY <1>1, <2>1 DEF Announced, At
  <2>3. LitsStand(w, s, b, d, n)
    BY <1>2, <2>1
  <2> QED
    BY <2>1, <2>2, <2>3 DEF FewLits, Lits
<1>6. CASE ManyLits(o, s, b, d, n, p)
  <2> DEFINE m == Len(RunCode(n))
  <2>1. /\ n >= 4 /\ NoneAnnounced(o, b) /\ p = (b + m) + n
        /\ Stands(RunCode(n), o, b) /\ LitsStand(o, s, b + m, d, n)
    BY <1>6 DEF ManyLits
  <2>2. m \in Nat
    BY <2>1, RunCodeBytes, LenProperties
  <2>3. Stands(RunCode(n), w, b)
    <3>1. b + m <= p
      BY <2>1, <2>2
    <3> HIDE DEF m
    <3>2. \A i \in 1 .. m : w[b + i] = o[b + i]
      BY <1>1, <2>2, <3>1
    <3>3. b + m <= Len(w)
      BY <1>1, <3>1, <2>2
    <3>4. \A i \in 1 .. Len(RunCode(n)) : o[b + i] = RunCode(n)[i]
      BY <2>1 DEF Stands
    <3> QED
      BY <3>2, <3>3, <3>4 DEF Stands, m
  <2> HIDE DEF m
  <2>4. LitsStand(w, s, b + m, d, n)
    BY <1>2, <2>1, <2>2
  <2>5. NoneAnnounced(w, b)
    BY <1>3, <2>1, <2>2
  <2> QED
    BY <2>1, <2>3, <2>4, <2>5 DEF ManyLits, Lits, m
<1>7. CASE FirstLits(o, s, b, d, n, p)
  <2>1. n \in 1 .. 238 /\ b = 0 /\ o[1] = 17 + n /\ p = 1 + n /\ LitsStand(o, s, 1, d, n)
    BY <1>7 DEF FirstLits
  <2>2. w[1] = 17 + n /\ LitsStand(w, s, 1, d, n)
    BY <1>1, <1>2, <2>1
  <2> QED
    BY <2>1, <2>2 DEF FirstLits, Lits
<1> QED
  BY <1>4, <1>5, <1>6, <1>7 DEF Lits

LEMMA MatchLong ==
    ASSUME NEW a \in Algorithms, NEW o, NEW s, NEW p \in Nat, NEW d \in Nat,
           NEW e \in Nat, NEW f \in Nat, MatchStands(a, o, s, p, d, e, f)
    PROVE  p + 2 <= e
<1>1. PICK off \in Nat : Copies(s, d, f, off) /\ e = p + Len(MatchCode(a, f - d, off))
  BY DEF MatchStands
<1>2. off >= 1 /\ f - d \in Nat /\ f - d >= 3
  BY <1>1 DEF Copies, MatchStands
<1>3. Len(MatchCode(a, f - d, off)) \in Nat /\ Len(MatchCode(a, f - d, off)) >= 2
  BY <1>2, MatchCodeBytes
<1> QED
  BY <1>1, <1>3

LEMMA MatchKept ==
    ASSUME NEW a \in Algorithms, NEW o \in Seq(Byte), NEW w \in Seq(Byte), NEW s,
           NEW p \in Nat, NEW d \in Nat, NEW e \in Nat, NEW f \in Nat,
           Kept(o, w, e), MatchStands(a, o, s, p, d, e, f)
    PROVE  MatchStands(a, w, s, p, d, e, f)
<1>1. PICK off \in Nat :
        /\ Copies(s, d, f, off)
        /\ StandsCounted(MatchCode(a, f - d, off), o, p)
        /\ e = p + Len(MatchCode(a, f - d, off))
  BY DEF MatchStands
<1> DEFINE c == MatchCode(a, f - d, off)
           m == Len(c)
<1>2. off >= 1 /\ f - d \in Nat /\ f - d >= 3
  BY <1>1 DEF Copies, MatchStands
<1>3. m \in Nat /\ m >= 2
  BY <1>2, MatchCodeBytes
<1>4. e = p + m /\ StandsCounted(c, o, p)
  BY <1>1
<1> HIDE DEF c
<1>5. StandsCounted(c, w, p)
  <2>1. /\ \A i \in 1 .. m : i # m - 1 => o[p + i] = c[i]
        /\ o[p + m - 1] \div 4 = c[m - 1] \div 4
    BY <1>4 DEF StandsCounted
  <2> HIDE DEF m
  <2>2. \A i \in 1 .. m : p + i \in 1 .. e /\ (i # m - 1 => p + i # e - 1)
    BY <1>3, <1>4
  <2>3. \A i \in 1 .. m : i # m - 1 => w[p + i] = o[p + i]
    BY <2>2 DEF Kept
  <2>4. w[e - 1] \div 4 = o[e - 1] \div 4 /\ e <= Len(w)
    BY <1>3, <1>4 DEF Kept
  <2>5. p + m <= Len(w) /\ w[p + m - 1] \div 4 = c[m - 1] \div 4
    <3>1. e - 1 = p + m - 1
      BY <1>3, <1>4
    <3> QED
      BY <1>4, <2>1, <2>4, <3>1
  <2> QED
    BY <2>1, <2>3, <2>5 DEF StandsCounted, m
<1> QED
  BY <1>1, <1>4, <1>5 DEF MatchStands, c

LEMMA SegmentKept ==
    ASSUME NEW a \in Algorithms, NEW o \in Seq(Byte), NEW w \in Seq(Byte), NEW s,
           NEW x \in Nat \X Nat, NEW y \in Nat \X Nat,
           Kept(o, w, Len(o)), y[1] = Len(o) \/ y[1] + 2 <= Len(o),
           Segment(a, o, s, x, y)
    PROVE  Segment(a, w, s, x, y)
<1>1. PICK n \in Nat, p \in Nat :
        /\ Lits(o, s, x[1], x[2], n, p) /\ (x[1] = 0 => n >= 4)
        /\ MatchStands(a, o, s, p, x[2] + n, y[1], y[2])
  BY DEF Segment
<1>2. x[1] \in Nat /\ x[2] \in Nat /\ y[1] \in Nat /\ y[2] \in Nat /\ x[2] + n \in Nat
  OBVIOUS
<1>3. Kept(o, w, y[1])
  BY <1>2, KeptUpTo, LenProperties
<1>4. p + 2 <= y[1]
  BY <1>1, <1>2, MatchLong
<1>5. Lits(w, s, x[1], x[2], n, p)
  BY <1>1, <1>2, <1>3, <1>4, LitsKept
<1>6. MatchStands(a, w, s, p, x[2] + n, y[1], y[2])
  BY <1>1, <1>2, <1>3, MatchKept
<1> QED
  BY <1>1, <1>5, <1>6 DEF Segment

LEMMA ConcatLen ==
    ASSUME NEW u \in Seq(Byte), NEW v \in Seq(Byte)
    PROVE  u \o v \in Seq(Byte) /\ Len(u \o v) = Len(u) + Len(v)
BY ConcatProperties

LEMMA OrFree ==
    ASSUME NEW b \in Nat, b % 4 = 0, NEW n \in 1 .. 3
    PROVE  OrCount(b, n) % 4 = n /\ OrCount(b, n) \div 4 = b \div 4
<1>1. PICK q \in Nat : b = 4 * q
  <2>1. b \div 4 \in Nat /\ b = 4 * (b \div 4) + (b % 4)
    OBVIOUS
  <2> QED
    BY <2>1
<1>2. b \div 2 = 2 * q /\ b % 2 = 0
  BY <1>1
<1>3. (b \div 2) % 2 = 0
  BY <1>2
<1>4. OrCount(b, n) = 4 * q + n
  BY <1>1, <1>2, <1>3 DEF OrCount
<1>5. (4 * q + n) % 4 = n /\ (4 * q + n) \div 4 = q /\ b \div 4 = q
  BY <1>1
<1> QED
  BY <1>4, <1>5

LEMMA RunHead ==
    ASSUME NEW n \in Nat, n >= 4
    PROVE  /\ Len(RunCode(n)) \in Nat /\ Len(RunCode(n)) >= 1
           /\ RunCode(n)[1] \in 0 .. 15
<1>1. CASE n <= 18
  BY <1>1 DEF RunCode
<1>2. CASE ~(n <= 18)
  <2> DEFINE m == n - 18
  <2>1. m \in Nat /\ m >= 1
    BY <1>2
  <2>2. RunCode(n) = <<0>> \o Extended(m)
    BY <1>2 DEF RunCode
  <2> HIDE DEF m
  <2>3. Extended(m) \in Seq(Byte)
    BY <2>1, ExtendedBytes
  <2>4. <<0>> \in Seq(Byte) /\ Len(<<0>>) = 1 /\ <<0>>[1] = 0
    BY DEF Byte
  <2>5. Len(Extended(m)) \in Nat
    BY <2>3, LenProperties
  <2>6. /\ Len(RunCode(n)) = 1 + Len(Extended(m))
        /\ RunCode(n)[1] = <<0>>[1]
    BY <2>2, <2>3, <2>4, <2>5, ConcatProperties, 1 \in 1 .. 1 + Len(Extended(m))
  <2> QED
    BY <2>4, <2>5, <2>6
<1> QED
  BY <1>1, <1>2

(* A run of literals is one behind the place where the block ended, and    *)
(* changes nothing of it but the bits that count it.                       *)
LEMMA RunWritten ==
    ASSUME NEW o \in Seq(Byte), NEW s \in Seq(Byte), NEW d \in Nat, NEW n \in Nat, n >= 1,
           d + n <= Len(s),
           NEW lits \in Seq(Byte), Len(lits) = n, \A k \in 1 .. n : lits[k] = s[d + k],
           n <= 3 => Len(o) # 0,
           Len(o) # 0 => Len(o) >= 2 /\ o[Len(o) - 1] % 4 = 0,
           NEW w \in Seq(Byte), Stands(WithRun(o, lits), w, 0)
    PROVE  /\ Kept(o, w, Len(o))
           /\ Lits(w, s, Len(o), d, n, Len(WithRun(o, lits)))
<1> DEFINE b == Len(o)
<1>1. b \in Nat /\ Len(w) \in Nat /\ Len(s) \in Nat
  BY LenProperties
<1>2. CASE n <= 3
  <2> DEFINE i == b - 1
             c == OrCount(o[i], n)
             first == [o EXCEPT ![i] = c]
  <2>1. b >= 2 /\ o[i] % 4 = 0 /\ i \in 1 .. b
    BY <1>1, <1>2
  <2>2. o[i] \in Nat /\ o[i] < 256
    <3>1. o[i] \in Byte
      BY <2>1, ElementOfSeq
    <3> QED
      BY <3>1, Bytes
  <2>3. c % 4 = n /\ c \div 4 = o[i] \div 4
    <3>1. n \in 1 .. 3
      BY <1>2
    <3> QED
      BY <2>1, <2>2, <3>1, OrFree
  <2>4. c \in Byte
    BY <1>2, <2>1, <2>2, FreeBits, Bytes
  <2>5. WithRun(o, lits) = first \o lits
    BY <1>2 DEF WithRun
  <2> HIDE DEF c
  <2>6. /\ first \in Seq(Byte) /\ Len(first) = b
        /\ \A j \in 1 .. b : first[j] = IF j = i THEN c ELSE o[j]
    BY <2>1, <2>4, ExceptSeq
  <2> HIDE DEF first, i, b
  <2>7. Stands(first, w, 0) /\ Stands(lits, w, 0 + b)
    BY <2>5, <2>6, StandsParts
  <2>8. b <= Len(w) /\ \A j \in 1 .. b : w[j] = first[j]
    <3>1. \A j \in 1 .. b : 0 + j = j
      OBVIOUS
    <3> QED
      BY <2>6, <2>7, <3>1 DEF Stands
  <2>9. b + n <= Len(w) /\ \A k \in 1 .. n : w[b + k] = lits[k]
    <3>1. 0 + b = b
      BY <1>1
    <3> QED
      BY <2>7, <3>1 DEF Stands
  <2>10. w[i] % 4 = n /\ w[i] \div 4 = o[i] \div 4
    BY <2>1, <2>3, <2>6, <2>8
  <2>11. Kept(o, w, b)
    BY <1>1, <2>6, <2>8, <2>10 DEF Kept, i, b
  <2>12. Announced(w, b) = n
    <3>1. b - 2 + 1 = i
      BY <1>1 DEF i
    <3> QED
      BY <2>10, <3>1 DEF Announced, At
  <2>13. LitsStand(w, s, b, d, n)
    BY <2>9 DEF LitsStand
  <2>14. Len(WithRun(o, lits)) = b + n
    <3>1. Len(first \o lits) = Len(first) + Len(lits)
      BY <2>6, ConcatLen
    <3> QED
      BY <2>5, <2>6, <3>1
  <2>15. n \in 1 .. 3
    BY <1>2
  <2>16. Lits(w, s, b, d, n, b + n)
    BY <2>1, <2>12, <2>13, <2>15 DEF Lits, FewLits
  <2> QED
    BY <2>11, <2>14, <2>16 DEF b
<1>3. CASE n >= 4
  <2> DEFINE head == RunCode(n)
             front == o \o head
  <2>1. head \in Seq(Byte) /\ Len(head) \in Nat
    BY <1>3, RunCodeBytes, LenProperties
  <2>2. WithRun(o, lits) = front \o lits
    BY <1>3 DEF WithRun
  <2> HIDE DEF head
  <2>3. front \in Seq(Byte) /\ Len(front) = b + Len(head)
    BY <2>1, ConcatProperties
  <2>4. Stands(front, w, 0) /\ Stands(lits, w, 0 + Len(front))
    <3> HIDE DEF front
    <3>1. Stands(front \o lits, w, 0)
      BY <2>2
    <3> QED
      BY <2>3, <3>1, StandsParts
  <2>5. Stands(o, w, 0) /\ Stands(head, w, 0 + b)
    BY <2>1, <2>4, StandsParts
  <2>6. Len(WithRun(o, lits)) = b + Len(head) + n
    <3> HIDE DEF front
    <3>1. Len(front \o lits) = Len(front) + Len(lits)
      BY <2>3, ConcatLen
    <3> QED
      BY <2>2, <2>3, <3>1
  <2> HIDE DEF front, b
  <2>7. 0 + b = b /\ 0 + Len(front) = b + Len(head)
    BY <1>1, <2>1, <2>3
  <2>8. b <= Len(w) /\ \A j \in 1 .. b : w[j] = o[j]
    <3>1. \A j \in 1 .. b : 0 + j = j
      OBVIOUS
    <3> QED
      BY <2>5, <2>7, <3>1 DEF Stands, b
  <2>9. Kept(o, w, b)
    <3>1. b >= 2 => b - 1 \in 1 .. b
      BY <1>1
    <3>2. b <= Len(o)
      BY <1>1 DEF b
    <3>3. b >= 2 => w[b - 1] = o[b - 1]
      BY <2>8, <3>1, Zenon
    <3> QED
      BY <2>8, <3>2, <3>3, Zenon DEF Kept
  <2>10. NoneAnnounced(w, b)
    <3>1. CASE b = 0
      <4>1. w[b + 1] = head[1]
        <5>1. 1 \in 1 .. Len(head)
          BY <1>3, RunHead DEF head
        <5> QED
          BY <2>5, <2>7, <5>1 DEF Stands
      <4>2. \A x \in 0 .. 15 : x <= 17
        OBVIOUS
      <4>3. head[1] \in 0 .. 15
        BY <1>3, RunHead DEF head
      <4>4. w[1] <= 17
        BY <3>1, <4>1, <4>2, <4>3, 0 + 1 = 1
      <4> QED
        BY <3>1, <4>4 DEF NoneAnnounced
    <3>2. CASE b # 0
      <4>1. b >= 2 /\ o[b - 1] % 4 = 0 /\ b - 2 + 1 = b - 1 /\ b - 1 \in 1 .. b
        BY <1>1, <3>2 DEF b
      <4> QED
        BY <2>8, <3>2, <4>1 DEF NoneAnnounced, Announced, At
    <3> QED
      BY <3>1, <3>2
  <2>11. LitsStand(w, s, b + Len(head), d, n)
    BY <2>4, <2>7 DEF LitsStand, Stands
  <2>12. Lits(w, s, b, d, n, b + Len(head) + n)
    BY <1>3, <2>5, <2>7, <2>10, <2>11 DEF Lits, ManyLits, head
  <2> QED
    BY <2>6, <2>9, <2>12 DEF b
<1> QED
  BY <1>2, <1>3

(* A run and a match lead from where a block ended to where it ends now. *)
LEMMA LaidOn ==
    ASSUME NEW a \in Algorithms, NEW o \in Seq(Byte), NEW w \in Seq(Byte), NEW s,
           NEW places, NEW d \in Nat, NEW n \in Nat, NEW p \in Nat, NEW f \in Nat,
           Laid(a, o, s, places, <<Len(o), d>>), Kept(o, w, Len(o)),
           Lits(w, s, Len(o), d, n, p), Len(o) = 0 => n >= 4,
           p >= Len(o), MatchStands(a, w, s, p, d + n, Len(w), f)
    PROVE  \E more : Laid(a, w, s, more, <<Len(w), f>>)
<1> DEFINE z == <<Len(o), d>>
           y == <<Len(w), f>>
           more == places \cup {y}
<1>1. Len(o) \in Nat /\ Len(w) \in Nat /\ p + 2 <= Len(w)
  BY LenProperties, MatchLong
<1>2. /\ places \subseteq Nat \X Nat /\ <<0, 0>> \in places /\ z \in places
      /\ \A x \in places \ {z} :
            x[1] + 2 <= z[1] /\ \E x2 \in places : Segment(a, o, s, x, x2)
  BY DEF Laid
<1>3. z \in Nat \X Nat /\ z[1] = Len(o) /\ z[2] = d /\ y \in Nat \X Nat /\ y[1] = Len(w) /\ y[2] = f
  BY <1>1
<1>4. Segment(a, w, s, z, y)
  BY <1>3 DEF Segment
<1> HIDE DEF z, y
<1>5. ASSUME NEW x \in more \ {y}
      PROVE  x[1] + 2 <= y[1] /\ \E x2 \in more : Segment(a, w, s, x, x2)
  <2>1. x \in places /\ x \in Nat \X Nat /\ x[1] \in Nat
    BY <1>2
  <2>2. CASE x = z
    BY <1>1, <1>3, <1>4, <2>2
  <2>3. CASE x # z
    <3>1. x[1] + 2 <= z[1]
      BY <1>2, <2>1, <2>3
    <3>2. PICK x2 \in places : Segment(a, o, s, x, x2)
      BY <1>2, <2>1, <2>3
    <3>3. x2[1] = z[1] \/ x2[1] + 2 <= z[1]
      BY <1>2
    <3>4. x2 \in Nat \X Nat
      BY <1>2
    <3>5. Segment(a, w, s, x, x2)
      BY <1>3, <2>1, <3>2, <3>3, <3>4, SegmentKept
    <3> QED
      BY <1>1, <1>3, <2>1, <3>1, <3>5
  <2> QED
    BY <2>2, <2>3
<1>6. more \subseteq Nat \X Nat /\ <<0, 0>> \in more /\ y \in more
  BY <1>2, <1>3
<1> HIDE DEF more
<1>7. Laid(a, w, s, more, y)
  BY <1>5, <1>6 DEF Laid
<1> QED
  BY <1>7 DEF y

(* The last run, and the mark of the end *)
LEMMA LaidEnds ==
    ASSUME NEW a \in Algorithms, NEW o \in Seq(Byte), NEW w \in Seq(Byte), NEW s,
           NEW places, NEW d \in Nat, NEW n \in Nat, NEW p \in Nat,
           Laid(a, o, s, places, <<Len(o), d>>), Kept(o, w, Len(o)),
           Lits(w, s, Len(o), d, n, p), EofStands(w, s, p, d + n)
    PROVE  Describes(a, w, s)
<1> DEFINE z == <<Len(o), d>>
<1>1. /\ places \subseteq Nat \X Nat /\ <<0, 0>> \in places /\ z \in places
      /\ \A x \in places \ {z} :
            x[1] + 2 <= z[1] /\ \E x2 \in places : Segment(a, o, s, x, x2)
  BY DEF Laid
<1>2. z[1] = Len(o) /\ z[2] = d /\ Len(o) \in Nat
  BY LenProperties
<1>3. Leads(a, w, s, places, z)
  BY <1>2 DEF Leads, Token
<1> HIDE DEF z
<1>4. ASSUME NEW x \in places
      PROVE  Leads(a, w, s, places, x)
  <2>1. CASE x = z
    BY <1>3, <2>1
  <2>2. CASE x # z
    <3>1. PICK y \in places : Segment(a, o, s, x, y)
      BY <1>1, <2>2
    <3>2. y[1] = z[1] \/ y[1] + 2 <= z[1]
      BY <1>1
    <3>3. x \in Nat \X Nat /\ y \in Nat \X Nat
      BY <1>1
    <3>4. Segment(a, w, s, x, y)
      BY <1>2, <3>1, <3>2, <3>3, SegmentKept
    <3> QED
      BY <3>4 DEF Segment, Leads, Token
  <2> QED
    BY <2>1, <2>2
<1>5. Complete(a, w, s, places)
  BY <1>1, <1>4 DEF Complete
<1> QED
  BY <1>1, <1>5 DEF Describes

LEMMA JoinStands ==
    ASSUME NEW u \in Seq(Byte), NEW v \in Seq(Byte)
    PROVE  /\ u \o v \in Seq(Byte) /\ Len(u \o v) = Len(u) + Len(v)
           /\ Stands(u, u \o v, 0) /\ Stands(v, u \o v, Len(u))
<1>1. /\ u \o v \in Seq(Byte) /\ Len(u \o v) = Len(u) + Len(v)
      /\ Len(u \o v) \in Nat /\ Len(u) \in Nat /\ Len(v) \in Nat
  BY ConcatLen, LenProperties
<1> DEFINE w == u \o v
<1>2. \A i \in 1 .. Len(w) : w[0 + i] = w[i]
  BY <1>1
<1>3. Stands(w, w, 0)
  BY <1>1, <1>2 DEF Stands
<1>4. Stands(u, w, 0) /\ Stands(v, w, 0 + Len(u))
  <2>1. Stands(u \o v, w, 0) /\ w \in Seq(Byte)
    BY <1>1, <1>3
  <2> HIDE DEF w
  <2> QED
    BY <2>1, StandsParts
<1> QED
  BY <1>1, <1>4, 0 + Len(u) = Len(u)

LEMMA KeptFirst ==
    ASSUME NEW o \in Seq(Byte), NEW w \in Seq(Byte), Stands(o, w, 0)
    PROVE  Kept(o, w, Len(o)) /\ \A i \in 1 .. Len(o) : w[i] = o[i]
<1>1. Len(o) \in Nat /\ Len(w) \in Nat /\ Len(o) <= Len(w)
  BY LenProperties DEF Stands
<1>2. \A i \in 1 .. Len(o) : 0 + i = i
  OBVIOUS
<1>3. \A i \in 1 .. Len(o) : w[i] = o[i]
  BY <1>2 DEF Stands
<1>4. Len(o) >= 2 => Len(o) - 1 \in 1 .. Len(o)
  BY <1>1
<1> QED
  BY <1>1, <1>3, <1>4 DEF Kept

LEMMA MatchWritten ==
    ASSUME NEW a \in Algorithms, NEW u \in Seq(Byte), NEW s, NEW d \in Nat, NEW len \in Nat,
           NEW off \in Nat, len >= 4, Copies(s, d, d + len, off)
    PROVE  LET w == u \o MatchCode(a, len, off) IN
            MatchStands(a, w, s, Len(u), d, Len(w), d + len)
<1> DEFINE c == MatchCode(a, len, off)
           w == u \o c
<1>1. c \in Seq(Byte) /\ Len(c) \in Nat /\ Len(c) >= 2
  BY MatchCodeBytes DEF Copies
<1>2. (d + len) - d = len
  OBVIOUS
<1> HIDE DEF c
<1>3. w \in Seq(Byte) /\ Len(w) = Len(u) + Len(c) /\ Stands(c, w, Len(u))
  BY <1>1, JoinStands
<1> HIDE DEF w
<1>4. StandsCounted(c, w, Len(u))
  <2>1. Len(c) - 1 \in 1 .. Len(c) /\ Len(u) + (Len(c) - 1) = Len(u) + Len(c) - 1
    BY <1>1, LenProperties
  <2>2. w[Len(u) + (Len(c) - 1)] = c[Len(c) - 1]
    BY <1>3, <2>1 DEF Stands
  <2>3. w[Len(u) + Len(c) - 1] \div 4 = c[Len(c) - 1] \div 4
    BY <2>1, <2>2
  <2> QED
    BY <1>3, <2>3 DEF Stands, StandsCounted
<1>5. MatchStands(a, w, s, Len(u), d, Len(w), d + len)
  BY <1>2, <1>3, <1>4 DEF MatchStands, c
<1> QED
  BY <1>5 DEF w, c

-----------------------------------------------------------------------------
(* What is written describes what is read: up to ii while the scan goes    *)
(* on, and then the whole input.                                           *)
Laying ==
    /\ label = "chunk" => ii + pending = chunkAt
    /\ label # "written" =>
        \E places : Laid(algorithm, out, orig, places, <<Len(out), ii>>)
    /\ label = "written" => Describes(algorithm, out, orig)

LEMMA InitLaying == Init => Laying
<1> SUFFICES ASSUME Init PROVE Laying
  OBVIOUS
<1>1. out = << >> /\ ii = 0 /\ chunkAt = 0 /\ pending = 0 /\ label = "chunk"
  BY DEF Init, Ready
<1>2. Laid(algorithm, out, orig, {<<0, 0>>}, <<Len(out), ii>>)
  <2>1. <<Len(out), ii>> = <<0, 0>>
    BY <1>1
  <2> QED
    BY <2>1 DEF Laid
<1> QED
  BY <1>1, <1>2 DEF Laying

LEMMA ScanLaying ==
    ASSUME IInv, Laying, StartChunk \/ Literal \/ Lookup \/ EndChunk \/ UNCHANGED vars
    PROVE  Laying'
<1>1. chunkAt \in Nat /\ pending \in Nat /\ ii \in Nat /\ pending <= chunkAt
  BY DEF IInv, Fields, Positions
<1>2. CASE StartChunk
  <2>1. label = "chunk" /\ label' = "literal" /\ ii' = chunkAt - pending
    BY <1>2 DEF StartChunk
  <2>2. ii' = ii
    BY <1>1, <2>1 DEF Laying
  <2> QED
    BY <1>2, <2>1, <2>2 DEF Laying, StartChunk, callVars
<1>3. CASE EndChunk
  <2>1. /\ label = "next" /\ label' = "chunk" /\ ii' = ii
        /\ pending' = chunkAt + ll - ii /\ chunkAt' = chunkAt + ll
    BY <1>3 DEF EndChunk
  <2>2. ll \in Nat
    BY Lengths DEF IInv
  <2>3. ii' + pending' = chunkAt'
    BY <1>1, <2>1, <2>2
  <2> QED
    BY <1>3, <2>1, <2>3 DEF Laying, EndChunk, callVars
<1>4. CASE Literal \/ Lookup
  <2>1. label # "written" /\ label' \notin {"chunk", "written"} /\ ii' = ii
    BY <1>4 DEF Literal, Lookup
  <2> QED
    BY <1>4, <2>1 DEF Laying, Literal, Lookup, callVars
<1>5. CASE UNCHANGED vars
  BY <1>5 DEF Laying, vars, callVars, scanVars
<1> QED
  BY <1>2, <1>3, <1>4, <1>5

(* The pending literals, before the match is written *)
LEMMA PendingWritten ==
    ASSUME IInv, EmitMatch
    PROVE  /\ WithPending \in Seq(Byte) /\ Len(WithPending) >= Len(out)
           /\ \A w \in Seq(Byte) : Stands(WithPending, w, 0) =>
                /\ Kept(out, w, Len(out))
                /\ Lits(w, orig, Len(out), ii, in_ptr - ii, Len(WithPending))
           /\ Len(out) = 0 => in_ptr - ii >= 4
<1> DEFINE n == in_ptr - ii
           lits == SubSeq(orig, ii + 1, in_ptr)
<1> USE DEF IInv
<1>1. /\ in_ptr \in Nat /\ ii \in Nat /\ ii <= in_ptr /\ in_ptr < ip_end
      /\ out \in Seq(Byte) /\ label = "match"
  BY DEF Fields, Positions, Behind, Room, Scanning, EmitMatch
<1>2. /\ orig \in Seq(Byte) /\ Len(orig) \in Nat /\ in_ptr <= Len(orig)
      /\ Len(out) \in Nat
  <2>1. ip_end \in Int /\ ip_end + 20 <= Len(orig)
    BY Lengths
  <2> QED
    BY <1>1, <2>1, Lengths, LenProperties
<1>3. /\ Len(out) = 0 => n >= 4
      /\ Len(out) # 0 => Len(out) >= 2 /\ out[Len(out) - 1] % 4 = 0
  <2>1. out = << >> <=> Len(out) = 0
    BY <1>1, EmptySeq
  <2> QED
    BY <1>1, <2>1 DEF Room, Scanning
<1>4. n \in Nat /\ ii + n = in_ptr
  BY <1>1
<1>5. CASE n = 0
  <2>1. WithPending = out
    BY <1>1, <1>5 DEF WithPending
  <2>2. ASSUME NEW w \in Seq(Byte), Stands(out, w, 0)
        PROVE  Kept(out, w, Len(out)) /\ Lits(w, orig, Len(out), ii, n, Len(out))
    <3>1. Kept(out, w, Len(out)) /\ \A i \in 1 .. Len(out) : w[i] = out[i]
      BY <1>1, <2>2, KeptFirst
    <3>2. /\ Len(out) # 0 /\ Len(out) >= 2 /\ Len(out) - 2 + 1 = Len(out) - 1
          /\ Len(out) - 1 \in 1 .. Len(out)
      BY <1>2, <1>3, <1>5
    <3>3. NoneAnnounced(w, Len(out))
      BY <1>3, <3>1, <3>2 DEF NoneAnnounced, Announced, At
    <3> QED
      BY <1>1, <1>2, <1>5, <3>1, <3>3 DEF Lits
  <2> QED
    BY <1>1, <1>2, <1>3, <2>1, <2>2
<1>6. CASE n # 0
  <2>1. WithPending = WithRun(out, lits)
    BY <1>1, <1>6 DEF WithPending
  <2>2. /\ lits \in Seq(Byte) /\ Len(lits) = n
        /\ \A k \in 1 .. n : lits[k] = orig[ii + k]
    <3>1. lits \in Seq(Byte) /\ Len(lits) = n
      BY <1>1, <1>2, PartOfInput
    <3>2. \A k \in 1 .. n : lits[k] = orig[ii + k]
      BY <1>1, <1>2, <1>4, <3>1
    <3> QED
      BY <3>1, <3>2
  <2> HIDE DEF lits, n
  <2>3. n >= 1 /\ (n <= 3 => Len(out) # 0) /\ ii + n <= Len(orig)
    BY <1>2, <1>3, <1>4, <1>6
  <2>4. WithPending \in Seq(Byte)
    BY <1>1, <1>3, <2>1, <2>2, <2>3, WithRunBytes
  <2>5. ASSUME NEW w \in Seq(Byte), Stands(WithPending, w, 0)
        PROVE  Kept(out, w, Len(out)) /\ Lits(w, orig, Len(out), ii, n, Len(WithPending))
    <3>1. Stands(WithRun(out, lits), w, 0)
      BY <2>1, <2>5
    <3>2. /\ out \in Seq(Byte) /\ orig \in Seq(Byte) /\ ii \in Nat /\ n \in Nat
          /\ Len(out) # 0 => Len(out) >= 2 /\ out[Len(out) - 1] % 4 = 0
      BY <1>1, <1>2, <1>3, <1>4
    <3>3. /\ Kept(out, w, Len(out))
          /\ Lits(w, orig, Len(out), ii, n, Len(WithRun(out, lits)))
      BY <2>2, <2>3, <3>1, <3>2, RunWritten, ZenonT(30)
    <3> QED
      BY <2>1, <3>3
  <2>6. Len(WithPending) >= Len(out)
    <3>1. Len(WithPending) \in Nat /\ Stands(WithPending, WithPending, 0)
      <4>1. \A i \in 1 .. Len(WithPending) : 0 + i = i
        OBVIOUS
      <4> QED
        BY <2>4, <4>1, LenProperties DEF Stands
    <3>2. Kept(out, WithPending, Len(out))
      BY <2>4, <2>5, <3>1
    <3> QED
      BY <1>2, <3>1, <3>2 DEF Kept
  <2> QED
    BY <1>3, <2>4, <2>5, <2>6 DEF n
<1> QED
  BY <1>5, <1>6

LEMMA EmitLaying ==
    ASSUME IInv, Laying, EmitMatch
    PROVE  Laying'
<1> DEFINE len == MatchLen
           off == in_ptr - m_pos
           n == in_ptr - ii
           front == WithPending
<1> USE DEF IInv
<1>1. /\ in_ptr \in Nat /\ m_pos \in Nat /\ ii \in Nat /\ chunkAt \in Nat /\ left \in Nat
      /\ ii <= in_ptr /\ chunkAt <= m_pos /\ m_pos < in_ptr /\ in_ptr < ip_end
      /\ label = "match" /\ chunkAt + left = Len(orig)
      /\ algorithm \in Algorithms /\ out \in Seq(Byte)
  BY DEF Fields, Positions, Behind, Room, Scanning, EmitMatch
<1>2. /\ Chunk \in Nat /\ M4_MAX_OFFSET \in Nat /\ Chunk <= M4_MAX_OFFSET + 1
      /\ ll \in Nat /\ ll <= Chunk /\ ll <= left /\ ip_end = chunkAt + ll - 20
      /\ Len(orig) \in Nat
  BY Lengths
<1>3. /\ len \in Nat /\ len >= 4 /\ in_ptr + len <= chunkAt + ll
      /\ \A k \in 0 .. len - 1 : At(orig, in_ptr + k) = At(orig, m_pos + k)
  BY <1>1, MatchEnds
<1>4. off \in 1 .. M4_MAX_OFFSET /\ off <= in_ptr /\ m_pos = in_ptr - off /\ off \in Nat
  BY <1>1, <1>2
<1>5. /\ out' = front \o MatchCode(algorithm, len, off)
      /\ ii' = in_ptr + len /\ label' = "next" /\ algorithm' = algorithm /\ orig' = orig
  BY DEF EmitMatch, callVars
<1> HIDE DEF len, off
<1>6. Copies(orig, in_ptr, in_ptr + len, off)
  <2>1. ASSUME NEW k \in 1 .. (in_ptr + len) - in_ptr
        PROVE  orig[in_ptr + k] = orig[in_ptr + k - off]
    <3> DEFINE j == k - 1
    <3>1. j \in 0 .. len - 1 /\ (in_ptr + j) + 1 = in_ptr + k /\ (m_pos + j) + 1 = in_ptr + k - off
      BY <1>1, <1>3, <1>4
    <3> HIDE DEF j
    <3>2. At(orig, in_ptr + j) = At(orig, m_pos + j)
      BY <1>3, <3>1
    <3> QED
      BY <3>1, <3>2 DEF At
  <2>2. in_ptr + len <= Len(orig)
    BY <1>1, <1>2, <1>3
  <2> QED
    BY <1>4, <2>1, <2>2 DEF Copies
<1>7. /\ front \in Seq(Byte) /\ Len(front) >= Len(out)
      /\ \A w \in Seq(Byte) : Stands(front, w, 0) =>
            Kept(out, w, Len(out)) /\ Lits(w, orig, Len(out), ii, n, Len(front))
      /\ Len(out) = 0 => n >= 4
  BY PendingWritten
<1>8. n \in Nat /\ ii + n = in_ptr
  BY <1>1
<1> HIDE DEF front, n
<1> DEFINE w == front \o MatchCode(algorithm, len, off)
<1>9. w \in Seq(Byte) /\ Stands(front, w, 0)
  <2>1. MatchCode(algorithm, len, off) \in Seq(Byte)
    BY <1>1, <1>3, <1>4, MatchCodeBytes
  <2> QED
    BY <1>7, <2>1, JoinStands
<1>10. MatchStands(algorithm, w, orig, Len(front), ii + n, Len(w), in_ptr + len)
  BY <1>1, <1>3, <1>4, <1>6, <1>7, <1>8, MatchWritten
<1>11. Kept(out, w, Len(out)) /\ Lits(w, orig, Len(out), ii, n, Len(front))
  BY <1>7, <1>9
<1> HIDE DEF w
<1>12. PICK places : Laid(algorithm, out, orig, places, <<Len(out), ii>>)
  BY <1>1 DEF Laying
<1>13. \E more : Laid(algorithm, w, orig, more, <<Len(w), in_ptr + len>>)
  <2>1. Len(front) \in Nat /\ in_ptr + len \in Nat
    BY <1>1, <1>3, <1>7, LenProperties
  <2> QED
    BY <1>1, <1>7, <1>8, <1>9, <1>10, <1>11, <1>12, <2>1, LaidOn
<1>14. out' = w
  BY <1>5 DEF w
<1> QED
  BY <1>5, <1>13, <1>14 DEF Laying

LEMMA EofBytes == EofCode \in Seq(Byte) /\ Len(EofCode) = 3
<1>1. 17 \in Byte /\ 0 \in Byte
  BY DEF Byte
<1> QED
  BY <1>1 DEF EofCode, M4_MARKER

LEMMA EofWritten ==
    ASSUME NEW u \in Seq(Byte), NEW s \in Seq(Byte)
    PROVE  LET w == u \o EofCode IN
            /\ w \in Seq(Byte) /\ Stands(u, w, 0) /\ Stands(EofCode, w, Len(u))
            /\ EofStands(w, s, Len(u), Len(s))
<1>1. EofCode \in Seq(Byte) /\ Len(EofCode) = 3
  BY EofBytes
<1> DEFINE w == u \o EofCode
<1>2. w \in Seq(Byte) /\ Len(w) = Len(u) + 3 /\ Stands(u, w, 0) /\ Stands(EofCode, w, Len(u))
  <2>1. EofCode \in Seq(Byte)
    BY <1>1
  <2>2. /\ w \in Seq(Byte) /\ Len(w) = Len(u) + Len(EofCode)
        /\ Stands(u, w, 0) /\ Stands(EofCode, w, Len(u))
    BY <2>1, JoinStands
  <2> QED
    BY <1>1, <2>2
<1> HIDE DEF w
<1>3. EofStands(w, s, Len(u), Len(s))
  BY <1>2 DEF EofStands
<1> QED
  BY <1>2, <1>3 DEF w

LEMMA FinishLaying ==
    ASSUME IInv, Laying, Finish
    PROVE  Laying'
<1> DEFINE n == pending + left
           lits == SubSeq(orig, Len(orig) - n + 1, Len(orig))
           head == IF n > 0 THEN WithAnyRun(out, lits) ELSE out
           w == head \o EofCode
<1> USE DEF IInv
<1>1. /\ pending \in Nat /\ left \in Nat /\ ii \in Nat /\ chunkAt \in Nat
      /\ chunkAt + left = Len(orig) /\ label = "chunk"
      /\ algorithm \in Algorithms /\ out \in Seq(Byte)
  BY DEF Fields, Positions, Room, Finish
<1>2. orig \in Seq(Byte) /\ Len(orig) \in Nat /\ Len(out) \in Nat
  BY <1>1, Lengths, LenProperties
<1>3. n \in Nat /\ ii + n = Len(orig) /\ Len(orig) - n = ii
  <2>1. ii + pending = chunkAt
    BY <1>1 DEF Laying
  <2> QED
    BY <1>1, <1>2, <2>1
<1>4. /\ out' = w /\ label' = "written" /\ algorithm' = algorithm /\ orig' = orig
  BY DEF Finish
<1>5. /\ Len(out) # 0 => Len(out) >= 2 /\ out[Len(out) - 1] % 4 = 0
      /\ out = << >> <=> Len(out) = 0
  <2>1. out = << >> <=> Len(out) = 0
    BY <1>1, EmptySeq
  <2> QED
    BY <1>1, <2>1 DEF Room
<1>6. /\ lits \in Seq(Byte) /\ Len(lits) = n
      /\ \A k \in 1 .. n : lits[k] = orig[ii + k]
  <2>1. lits = SubSeq(orig, ii + 1, Len(orig)) /\ Len(orig) - ii = n
    <3> HIDE DEF n
    <3> QED
      BY <1>1, <1>2, <1>3
  <2> HIDE DEF lits, n
  <2>2. lits \in Seq(Byte) /\ Len(lits) = n
    BY <1>1, <1>2, <1>3, <2>1, PartOfInput, ii <= Len(orig)
  <2>3. \A k \in 1 .. n : lits[k] = orig[ii + k]
    BY <1>1, <1>2, <1>3, <2>1, <2>2
  <2> QED
    BY <2>2, <2>3
<1> HIDE DEF lits, n
<1>7. /\ head \in Seq(Byte)
      /\ \A v \in Seq(Byte) : Stands(head, v, 0) /\ Stands(EofCode, v, Len(head)) =>
            Kept(out, v, Len(out)) /\ Lits(v, orig, Len(out), ii, n, Len(head))
  <2>1. CASE n = 0
    <3>1. head = out
      BY <1>3, <2>1
    <3>2. ASSUME NEW v \in Seq(Byte), Stands(out, v, 0), Stands(EofCode, v, Len(out))
          PROVE  Kept(out, v, Len(out)) /\ Lits(v, orig, Len(out), ii, n, Len(out))
      <4>1. Kept(out, v, Len(out)) /\ \A i \in 1 .. Len(out) : v[i] = out[i]
        BY <1>1, <3>2, KeptFirst
      <4>2. NoneAnnounced(v, Len(out))
        <5>1. CASE Len(out) = 0
          <6>1. 1 \in 1 .. Len(EofCode) /\ EofCode[1] = 17
            BY DEF EofCode, M4_MARKER
          <6>2. v[0 + 1] = 17
            BY <3>2, <5>1, <6>1 DEF Stands
          <6> QED
            BY <5>1, <6>2, 0 + 1 = 1 DEF NoneAnnounced
        <5>2. CASE Len(out) # 0
          <6>1. /\ Len(out) >= 2 /\ Len(out) - 2 + 1 = Len(out) - 1
                /\ Len(out) - 1 \in 1 .. Len(out)
            BY <1>2, <1>5, <5>2
          <6> QED
            BY <1>5, <4>1, <5>2, <6>1 DEF NoneAnnounced, Announced, At
        <5> QED
          BY <5>1, <5>2
      <4> QED
        BY <1>1, <1>2, <1>3, <2>1, <4>1, <4>2 DEF Lits
    <3> QED
      BY <1>1, <3>1, <3>2
  <2>2. CASE n # 0 /\ Len(out) = 0 /\ n <= 238
    <3> DEFINE first == <<17 + n>>
    <3>1. head = first \o lits
      BY <1>3, <1>5, <1>6, <2>2 DEF WithAnyRun
    <3>2. 17 + n \in Nat /\ 17 + n < 256 /\ n \in 1 .. 238
      BY <1>3, <2>2
    <3>3. first \in Seq(Byte) /\ Len(first) = 1 /\ first[1] = 17 + n
      <4>1. 17 + n \in Byte
        BY <3>2, Bytes
      <4> QED
        BY <4>1
    <3> HIDE DEF first, head
    <3>4. head \in Seq(Byte) /\ Len(head) = 1 + n
      BY <1>6, <3>1, <3>3, ConcatLen
    <3>5. ASSUME NEW v \in Seq(Byte), Stands(head, v, 0)
          PROVE  Kept(out, v, Len(out)) /\ Lits(v, orig, Len(out), ii, n, Len(head))
      <4>1. Stands(first, v, 0) /\ Stands(lits, v, 0 + 1)
        BY <1>6, <3>1, <3>3, <3>5, StandsParts
      <4>2. v[0 + 1] = first[1]
        BY <3>3, <4>1 DEF Stands
      <4>3. v[1] = 17 + n
        BY <3>3, <4>2, 0 + 1 = 1
      <4>4. LitsStand(v, orig, 1, ii, n)
        BY <1>2, <1>3, <1>6, <4>1, 0 + 1 = 1 DEF LitsStand, Stands
      <4>5. Lits(v, orig, Len(out), ii, n, Len(head))
        BY <2>2, <3>2, <3>4, <4>3, <4>4 DEF Lits, FirstLits
      <4>6. Kept(out, v, Len(out))
        <5>1. Stands(out, v, 0)
          BY <2>2, LenProperties DEF Stands
        <5> QED
          BY <1>1, <5>1, KeptFirst
      <4> QED
        BY <4>5, <4>6
    <3> QED
      BY <3>4, <3>5
  <2>3. CASE n # 0 /\ ~(Len(out) = 0 /\ n <= 238)
    <3>1. head = WithRun(out, lits)
      BY <1>3, <1>5, <1>6, <2>3 DEF WithAnyRun
    <3>2. n >= 1 /\ (n <= 3 => Len(out) # 0) /\ ii + n <= Len(orig)
      BY <1>2, <1>3, <2>3
    <3> HIDE DEF head
    <3>3. head \in Seq(Byte)
      BY <1>1, <1>5, <1>6, <3>1, <3>2, WithRunBytes
    <3>4. ASSUME NEW v \in Seq(Byte), Stands(head, v, 0)
          PROVE  Kept(out, v, Len(out)) /\ Lits(v, orig, Len(out), ii, n, Len(head))
      <4>1. Stands(WithRun(out, lits), v, 0)
        BY <3>1, <3>4
      <4>2. /\ Kept(out, v, Len(out))
            /\ Lits(v, orig, Len(out), ii, n, Len(WithRun(out, lits)))
        <5>1. out \in Seq(Byte) /\ orig \in Seq(Byte) /\ ii \in Nat /\ n \in Nat /\ n >= 1
          BY <1>1, <1>2, <1>3, <3>2
        <5>2. lits \in Seq(Byte) /\ Len(lits) = n /\ \A k \in 1 .. n : lits[k] = orig[ii + k]
          BY <1>6
        <5>3. Len(out) # 0 => Len(out) >= 2 /\ out[Len(out) - 1] % 4 = 0
          BY <1>5
        <5>4. ii + n <= Len(orig) /\ (n <= 3 => Len(out) # 0)
          BY <3>2
        <5> QED
          BY <4>1, <5>1, <5>2, <5>3, <5>4, RunWritten, ZenonT(30)
      <4> QED
        BY <3>1, <4>2
    <3> QED
      BY <3>3, <3>4
  <2> QED
    BY <2>1, <2>2, <2>3
<1> HIDE DEF head
<1>8. /\ w \in Seq(Byte) /\ Stands(head, w, 0) /\ Stands(EofCode, w, Len(head))
      /\ EofStands(w, orig, Len(head), ii + n)
  BY <1>2, <1>3, <1>7, EofWritten
<1> HIDE DEF w
<1>9. PICK places : Laid(algorithm, out, orig, places, <<Len(out), ii>>)
  BY <1>1 DEF Laying
<1>10. Kept(out, w, Len(out)) /\ Lits(w, orig, Len(out), ii, n, Len(head)) /\ Len(head) \in Nat
  BY <1>7, <1>8, LenProperties
<1>11. Describes(algorithm, w, orig)
  BY <1>1, <1>3, <1>8, <1>9, <1>10, LaidEnds
<1> QED
  BY <1>4, <1>11 DEF Laying

-----------------------------------------------------------------------------
(* How long the block gets *)

LEMMA ExtendedShort ==
    ASSUME NEW n \in Nat, n >= 1
    PROVE  Len(Extended(n)) \in Nat /\ 255 * (Len(Extended(n)) - 1) < n
<1> DEFINE z == (n - 1) \div 255
<1>1. Len(Extended(n)) = z + 1
  BY ExtendedBytes
<1>2. z \in Nat /\ 255 * z <= n - 1
  OBVIOUS
<1> HIDE DEF z
<1> QED
  BY <1>1, <1>2

(* A match of four bytes or more takes fewer bytes than it stands for. *)
LEMMA MatchShort ==
    ASSUME NEW a \in Algorithms, NEW len \in Nat, len >= 4, NEW off \in Nat
    PROVE  Len(MatchCode(a, len, off)) \in Nat /\ Len(MatchCode(a, len, off)) <= len - 1
<1>1. ASSUME NEW marker, NEW max \in {9, 33}, NEW dist
      PROVE  LET c == LongCode(marker, max, len, dist) IN Len(c) \in Nat /\ Len(c) <= len - 1
  <2> DEFINE tail == <<LZO_BYTE(dist * 4), LZO_BYTE(dist \div 64)>>
  <2>1. CASE len <= max
    <3>1. LongCode(marker, max, len, dist) = <<marker + len - 2>> \o tail
      BY <2>1 DEF LongCode
    <3> DEFINE head == <<marker + len - 2>>
               any == {marker + len - 2} \cup {LZO_BYTE(dist * 4), LZO_BYTE(dist \div 64)}
    <3>2. head \in Seq(any) /\ tail \in Seq(any) /\ Len(head) = 1 /\ Len(tail) = 2
      OBVIOUS
    <3> HIDE DEF head, tail, any
    <3>3. Len(head \o tail) = Len(head) + Len(tail)
      BY <3>2, ConcatProperties
    <3> QED
      BY <3>1, <3>2, <3>3 DEF head
  <2>2. CASE len > max
    <3> DEFINE m == len - max
               ext == Extended(m)
    <3>1. m \in Nat /\ m >= 1
      BY <2>2
    <3>2. LongCode(marker, max, len, dist) = (<<marker>> \o ext) \o tail
      <4>1. ~(len <= max)
        BY <2>2
      <4> HIDE DEF tail
      <4>2. LongCode(marker, max, len, dist)
              = (<<marker>> \o Extended(len - max)) \o <<LZO_BYTE(dist * 4), LZO_BYTE(dist \div 64)>>
        BY <4>1, Zenon DEF LongCode
      <4> QED
        BY <4>2, Zenon DEF tail
    <3> HIDE DEF m
    <3>3. ext \in Seq(Byte) /\ Len(ext) \in Nat /\ 255 * (Len(ext) - 1) < m
      BY <3>1, ExtendedBytes, ExtendedShort
    <3> HIDE DEF ext
    <3>4. Len((<<marker>> \o ext) \o tail) = 1 + Len(ext) + 2
      <4>1. <<marker>> \in Seq({marker} \cup Byte) /\ ext \in Seq({marker} \cup Byte)
        BY <3>3
      <4>2. Len(<<marker>> \o ext) = 1 + Len(ext)
        BY <4>1, ConcatProperties
      <4> QED
        BY <3>3, <4>1, <4>2, SMTT(30)
    <3>5. 1 + Len(ext) + 2 <= len - 1
      BY <3>3, <2>2, <3>1 DEF m
    <3> QED
      BY <3>2, <3>3, <3>4, <3>5
  <2> QED
    BY <2>1, <2>2
<1>2. CASE len <= M2_MAX_LEN[a] /\ off <= M2_MAX_OFFSET[a]
  <2>1. MatchCode(a, len, off) = M2Code(a, len, off)
    BY <1>2 DEF MatchCode
  <2>2. Len(M2Code(a, len, off)) = 2
    BY DEF M2Code
  <2> QED
    BY <2>1, <2>2
<1>3. CASE ~(len <= M2_MAX_LEN[a] /\ off <= M2_MAX_OFFSET[a])
  <2>1. MatchCode(a, len, off) = M3Code(len, off) \/ MatchCode(a, len, off) = M4Code(len, off)
    BY <1>3 DEF MatchCode
  <2>2. \E marker, dist : \E max \in {9, 33} :
            MatchCode(a, len, off) = LongCode(marker, max, len, dist)
    BY <2>1 DEF M3Code, M4Code, M3_MAX_LEN, M4_MAX_LEN
  <2> QED
    BY <1>1, <2>2
<1> QED
  BY <1>2, <1>3

(* A run adds a byte, or two and one for each 255, to its literals. *)
LEMMA RunShort ==
    ASSUME NEW o \in Seq(Byte), NEW lits \in Seq(Byte), NEW n \in Nat, Len(lits) = n, n >= 1,
           n <= 3 => Len(o) >= 2 /\ o[Len(o) - 1] % 4 = 0
    PROVE  \E h \in Nat : Len(WithRun(o, lits)) = Len(o) + h + n /\ 16 * h <= n + 16
<1>1. Len(o) \in Nat
  BY LenProperties
<1>2. CASE n <= 3
  <2> DEFINE i == Len(o) - 1
             c == OrCount(o[i], n)
             first == [o EXCEPT ![i] = c]
  <2>1. WithRun(o, lits) = first \o lits
    BY <1>2 DEF WithRun
  <2>2. i \in 1 .. Len(o) /\ o[i] % 4 = 0
    BY <1>1, <1>2
  <2>3. c \in Byte
    <3>1. o[i] \in Byte
      BY <2>2, ElementOfSeq
    <3>2. o[i] \in Nat /\ o[i] < 256
      BY <3>1, Bytes
    <3> QED
      BY <1>2, <2>2, <3>2, FreeBits, Bytes
  <2> HIDE DEF c, i
  <2>4. first \in Seq(Byte) /\ Len(first) = Len(o)
    BY <2>2, <2>3, ExceptSeq
  <2> HIDE DEF first
  <2>5. Len(first \o lits) = Len(o) + n
    BY <2>4, ConcatLen
  <2>6. Len(WithRun(o, lits)) = Len(o) + 0 + n /\ 16 * 0 <= n + 16
    BY <1>1, <2>1, <2>5
  <2> QED
    BY <2>6
<1>3. CASE n >= 4
  <2> DEFINE head == RunCode(n)
  <2>1. WithRun(o, lits) = (o \o head) \o lits
    BY <1>3 DEF WithRun
  <2>2. head \in Seq(Byte) /\ Len(head) \in Nat
    BY <1>3, RunCodeBytes, LenProperties
  <2>3. 16 * Len(head) <= n + 16
    <3>1. CASE n <= 18
      BY <1>3, <3>1 DEF RunCode
    <3>2. CASE ~(n <= 18)
      <4> DEFINE m == n - 18
                 ext == Extended(m)
      <4>1. m \in Nat /\ m >= 1
        BY <3>2
      <4>2. head = <<0>> \o ext
        BY <3>2 DEF RunCode
      <4> HIDE DEF m
      <4>3. ext \in Seq(Byte)
        BY <4>1, ExtendedBytes
      <4>4. Len(ext) \in Nat /\ 255 * (Len(ext) - 1) < m
        BY <4>1, ExtendedShort
      <4> HIDE DEF ext
      <4>5. <<0>> \in Seq(Byte) /\ Len(<<0>>) = 1
        BY DEF Byte
      <4>6. Len(<<0>> \o ext) = 1 + Len(ext)
        BY <4>3, <4>5, ConcatLen
      <4> HIDE DEF head
      <4> QED
        BY <4>2, <4>4, <4>6 DEF m
    <3> QED
      BY <3>1, <3>2
  <2> HIDE DEF head
  <2>4. o \o head \in Seq(Byte) /\ Len(o \o head) = Len(o) + Len(head)
    BY <2>2, ConcatLen
  <2>5. Len((o \o head) \o lits) = Len(o) + Len(head) + n
    BY <2>4, ConcatLen
  <2> QED
    BY <2>1, <2>2, <2>3, <2>5
<1> QED
  BY <1>2, <1>3

Small ==
    /\ label # "written" => 16 * Len(out) <= 17 * ii
    /\ label = "written" => 16 * Len(out) <= 17 * Len(orig) + 64

LEMMA InitSmall == Init => Small
BY DEF Init, Ready, Small

LEMMA ScanSmall ==
    ASSUME IInv, Laying, Small,
           StartChunk \/ Literal \/ Lookup \/ EndChunk \/ UNCHANGED vars
    PROVE  Small'
<1>1. chunkAt \in Nat /\ pending \in Nat /\ ii \in Nat /\ pending <= chunkAt
  BY DEF IInv, Fields, Positions
<1>2. CASE StartChunk
  <2>1. label = "chunk" /\ label' = "literal" /\ ii' = chunkAt - pending /\ out' = out
    BY <1>2 DEF StartChunk, callVars
  <2>2. ii' = ii
    BY <1>1, <2>1 DEF Laying
  <2> QED
    BY <2>1, <2>2 DEF Small
<1>3. CASE Literal \/ Lookup \/ EndChunk
  BY <1>3 DEF Small, Literal, Lookup, EndChunk, callVars
<1>4. CASE UNCHANGED vars
  BY <1>4 DEF Small, vars, callVars, scanVars
<1> QED
  BY <1>2, <1>3, <1>4

LEMMA EmitSmall ==
    ASSUME IInv, Small, EmitMatch
    PROVE  Small'
<1> DEFINE len == MatchLen
           off == in_ptr - m_pos
           n == in_ptr - ii
           lits == SubSeq(orig, ii + 1, in_ptr)
           c == MatchCode(algorithm, len, off)
<1> USE DEF IInv
<1>1. /\ in_ptr \in Nat /\ ii \in Nat /\ ii <= in_ptr /\ m_pos \in Nat /\ m_pos < in_ptr
      /\ in_ptr < ip_end /\ algorithm \in Algorithms /\ out \in Seq(Byte) /\ label = "match"
  BY DEF Fields, Positions, Behind, Room, Scanning, EmitMatch
<1>2. in_ptr <= Len(orig) /\ Len(orig) \in Nat /\ Len(out) \in Nat
  <2>1. ip_end \in Int /\ ip_end + 20 <= Len(orig)
    BY Lengths
  <2> QED
    BY <1>1, <2>1, Lengths, LenProperties
<1>3. len \in Nat /\ len >= 4
  BY <1>1, MatchEnds
<1>4. /\ out' = WithPending \o c /\ ii' = in_ptr + len /\ label' = "next"
  BY DEF EmitMatch
<1>5. off \in Nat /\ off >= 1
  BY <1>1
<1> HIDE DEF len, off
<1>6. c \in Seq(Byte) /\ Len(c) \in Nat /\ Len(c) <= len - 1
  BY <1>1, <1>3, <1>5, MatchCodeBytes, MatchShort
<1> HIDE DEF c
<1>7. /\ WithPending \in Seq(Byte)
      /\ \E h \in Nat : Len(WithPending) = Len(out) + h + n /\ 16 * h <= n + 16
  <2>1. WithPending \in Seq(Byte)
    BY PendingWritten
  <2>2. CASE n = 0
    <3>1. WithPending = out
      BY <1>1, <2>2 DEF WithPending
    <3> QED
      BY <1>1, <1>2, <2>2, <3>1, 0 \in Nat
  <2>3. CASE n # 0
    <3>1. WithPending = WithRun(out, lits)
      BY <1>1, <2>3 DEF WithPending
    <3>2. lits \in Seq(Byte) /\ Len(lits) = n
      BY <1>1, <1>2, PartOfInput
    <3>3. n \in Nat /\ n >= 1
      BY <1>1, <2>3
    <3>4. n <= 3 => Len(out) >= 2 /\ out[Len(out) - 1] % 4 = 0
      BY <1>1 DEF Room, Scanning
    <3> HIDE DEF n, lits
    <3>5. \E h \in Nat : Len(WithRun(out, lits)) = Len(out) + h + n /\ 16 * h <= n + 16
      BY <1>1, <3>2, <3>3, <3>4, RunShort
    <3> QED
      BY <2>1, <3>1, <3>5
  <2> QED
    BY <2>2, <2>3
<1>8. PICK h \in Nat : Len(WithPending) = Len(out) + h + n /\ 16 * h <= n + 16
  BY <1>7
<1>9. Len(out') = Len(out) + h + n + Len(c)
  <2>1. Len(WithPending \o c) = Len(WithPending) + Len(c)
    BY <1>6, <1>7, ConcatLen
  <2> QED
    BY <1>4, <1>8, <2>1
<1>10. 16 * Len(out) <= 17 * ii /\ n \in Nat /\ ii + n = in_ptr
  BY <1>1 DEF Small
<1> HIDE DEF n
<1>11. 16 * Len(out') <= 17 * ii'
  BY <1>1, <1>2, <1>3, <1>4, <1>6, <1>8, <1>9, <1>10
<1> QED
  BY <1>4, <1>11 DEF Small

LEMMA FinishSmall ==
    ASSUME IInv, Laying, Small, Finish
    PROVE  Small'
<1> DEFINE n == pending + left
           lits == SubSeq(orig, Len(orig) - n + 1, Len(orig))
           head == IF n > 0 THEN WithAnyRun(out, lits) ELSE out
<1> USE DEF IInv
<1>1. /\ pending \in Nat /\ left \in Nat /\ ii \in Nat /\ chunkAt \in Nat
      /\ chunkAt + left = Len(orig) /\ label = "chunk" /\ out \in Seq(Byte)
  BY DEF Fields, Positions, Room, Finish
<1>2. orig \in Seq(Byte) /\ Len(orig) \in Nat /\ Len(out) \in Nat
  BY <1>1, Lengths, LenProperties
<1>3. n \in Nat /\ ii + n = Len(orig)
  <2>1. ii + pending = chunkAt
    BY <1>1 DEF Laying
  <2> QED
    BY <1>1, <1>2, <2>1
<1>4. out' = head \o EofCode /\ label' = "written" /\ orig' = orig
  BY DEF Finish
<1>5. /\ out = << >> <=> Len(out) = 0
      /\ Len(out) # 0 => Len(out) >= 2 /\ out[Len(out) - 1] % 4 = 0
  <2>1. out = << >> <=> Len(out) = 0
    BY <1>1, EmptySeq
  <2> QED
    BY <1>1, <2>1 DEF Room
<1>6. lits \in Seq(Byte) /\ Len(lits) = n
  <2> DEFINE from == Len(orig) - n
             to == Len(orig)
  <2>1. from \in Nat /\ to \in Nat /\ from <= to /\ to <= Len(orig) /\ to - from = n
    <3> HIDE DEF n
    <3>1. from = ii
      BY <1>1, <1>2, <1>3
    <3> HIDE DEF from
    <3> QED
      BY <1>1, <1>2, <1>3, <3>1
  <2>2. lits = SubSeq(orig, from + 1, to)
    OBVIOUS
  <2> HIDE DEF from, to, lits, n
  <2>3. SubSeq(orig, from + 1, to) \in Seq(Byte) /\ Len(SubSeq(orig, from + 1, to)) = to - from
    BY <2>1, PartOfInput
  <2> QED
    BY <2>1, <2>2, <2>3
<1> HIDE DEF n, lits
<1>7. /\ head \in Seq(Byte)
      /\ \E h \in Nat : Len(head) = Len(out) + h + n /\ 16 * h <= n + 16
  <2>1. CASE n = 0
    <3>1. Len(head) = Len(out) + 0 + n /\ 16 * 0 <= n + 16 /\ head = out
      BY <1>1, <1>2, <2>1
    <3> QED
      BY <1>1, <3>1
  <2>2. CASE n # 0 /\ Len(out) = 0 /\ n <= 238
    <3> DEFINE first == <<17 + n>>
    <3>1. head = first \o lits
      BY <1>3, <1>5, <1>6, <2>2 DEF WithAnyRun
    <3>2. 17 + n \in Nat /\ 17 + n < 256
      BY <1>3, <2>2
    <3>3. first \in Seq(Byte) /\ Len(first) = 1
      <4>1. 17 + n \in Byte
        BY <3>2, Bytes
      <4> QED
        BY <4>1
    <3> HIDE DEF first, head
    <3>4. head \in Seq(Byte) /\ Len(head) = 1 + n
      BY <1>6, <3>1, <3>3, ConcatLen
    <3> QED
      BY <1>3, <2>2, <3>4, 1 \in Nat
  <2>3. CASE n # 0 /\ ~(Len(out) = 0 /\ n <= 238)
    <3>1. head = WithRun(out, lits)
      BY <1>3, <1>5, <1>6, <2>3 DEF WithAnyRun
    <3>2. n >= 1 /\ (n <= 3 => Len(out) >= 2 /\ out[Len(out) - 1] % 4 = 0)
      BY <1>2, <1>3, <1>5, <2>3
    <3> HIDE DEF head
    <3>3. head \in Seq(Byte)
      BY <1>1, <1>5, <1>6, <3>1, <3>2, WithRunBytes
    <3>4. \E h \in Nat : Len(WithRun(out, lits)) = Len(out) + h + n /\ 16 * h <= n + 16
      BY <1>1, <1>3, <1>6, <3>2, RunShort
    <3> QED
      BY <3>1, <3>3, <3>4
  <2> QED
    BY <2>1, <2>2, <2>3
<1> HIDE DEF head
<1>8. PICK h \in Nat : Len(head) = Len(out) + h + n /\ 16 * h <= n + 16
  BY <1>7
<1>9. Len(out') = Len(out) + h + n + 3
  <2>1. EofCode \in Seq(Byte) /\ Len(EofCode) = 3
    BY EofBytes
  <2>2. Len(head \o EofCode) = Len(head) + Len(EofCode)
    BY <1>7, <2>1, ConcatLen
  <2> QED
    BY <1>4, <1>8, <2>1, <2>2
<1>10. 16 * Len(out) <= 17 * ii
  BY <1>1 DEF Small
<1>11. 16 * Len(out') <= 17 * Len(orig) + 64
  BY <1>1, <1>2, <1>3, <1>8, <1>9, <1>10
<1> QED
  BY <1>4, <1>11 DEF Small

-----------------------------------------------------------------------------
LEMMA NextLays == IInv /\ Laying /\ Small /\ [Next]_vars => Laying' /\ Small'
<1> SUFFICES ASSUME IInv, Laying, Small, [Next]_vars
             PROVE  Laying' /\ Small'
  OBVIOUS
<1>1. CASE StartChunk \/ Literal \/ Lookup \/ EndChunk \/ UNCHANGED vars
  BY <1>1, ScanLaying, ScanSmall
<1>2. CASE EmitMatch
  BY <1>2, EmitLaying, EmitSmall
<1>3. CASE Finish
  BY <1>3, FinishLaying, FinishSmall
<1> QED
  BY <1>1, <1>2, <1>3 DEF Next

LEMMA AlwaysLaid == Spec => [](Laying /\ Small)
BY InitInv, InitLaying, InitSmall, NextKeeps, NextLays, PTL DEF Spec

(* What compress leaves describes its input, whatever the input and the    *)
(* length of a chunk: from the first byte to the last, literals that are   *)
(* the input's own and matches that repeat what is before them follow one  *)
(* another, each counted where decompress looks for it, up to the mark of  *)
(* the end, at which all the input has been given.                         *)
THEOREM BlocksDescribe == Spec => [](label = "written" => Describes(algorithm, out, orig))
<1>1. Laying => (label = "written" => Describes(algorithm, out, orig))
  BY DEF Laying
<1> QED
  BY AlwaysLaid, <1>1, PTL

(* A block is longer than its input by no more than a sixteenth and four   *)
(* bytes.                                                                  *)
THEOREM BlocksAreSmall ==
    Spec => [](label = "written" => 16 * Len(out) <= 17 * Len(orig) + 64)
<1>1. Small => (label = "written" => 16 * Len(out) <= 17 * Len(orig) + 64)
  BY DEF Small
<1> QED
  BY AlwaysLaid, <1>1, PTL

-----------------------------------------------------------------------------
(* Reading a block that compress wrote, or the first bytes of it *)

LEMMA ByteAt ==
    ASSUME NEW bs \in Seq(Byte), NEW ptr \in Nat, ptr < Len(bs)
    PROVE  At(bs, ptr) \in Byte
<1> DEFINE j == ptr + 1
<1>1. j \in 1 .. Len(bs)
  OBVIOUS
<1> HIDE DEF j
<1>2. bs[j] \in Byte
  BY <1>1, ElementOfSeq
<1> QED
  BY <1>2 DEF At, j

CountGoesOn(bs, ptr, first, base) ==
    LET count == Count(bs, ptr, first, base) IN
    /\ count.n \in Nat
    /\ count.next \in Nat /\ count.next >= ptr

(* A count that ends is one, and ends behind its first byte. *)
LEMMA CountIs ==
    ASSUME NEW bs \in Seq(Byte), NEW ptr \in Nat, NEW first \in Nat, NEW base \in Nat,
           first # 0 \/ CountEnds(bs, ptr)
    PROVE  CountGoesOn(bs, ptr, first, base)
<1>1. CASE first # 0
  BY <1>1 DEF Count, CountGoesOn
<1>2. CASE first = 0
  <2> DEFINE S == {k \in ptr .. Len(bs) - 1 : At(bs, k) # 0}
             last == Smallest(S)
  <2>1. S \in SUBSET Nat /\ S # {}
    BY <1>2 DEF CountEnds
  <2>2. last \in S
    BY <2>1, SmallestIs
  <2>3. last \in Nat /\ ptr <= last /\ last + 1 \in 1 .. Len(bs)
    BY <2>2
  <2> HIDE DEF S, last
  <2>4. At(bs, last) \in Nat
    <3>1. last < Len(bs) /\ last \in Nat
      BY <2>3
    <3>2. At(bs, last) \in Byte
      BY <3>1, ByteAt
    <3>3. \A x \in Byte : x \in Nat
      BY DEF Byte
    <3> QED
      BY <3>2, <3>3
  <2>5. Count(bs, ptr, first, base)
          = [n |-> base + 255 * (last - ptr) + At(bs, last), next |-> last + 1]
    BY <1>2 DEF Count, S, last
  <2> QED
    BY <2>3, <2>4, <2>5 DEF CountGoesOn
<1> QED
  BY <1>1, <1>2

(* Where the next token is does not depend on what the count starts from. *)
LEMMA CountNext ==
    ASSUME NEW bs, NEW ptr, NEW first, NEW b1, NEW b2
    PROVE  Count(bs, ptr, first, b1).next = Count(bs, ptr, first, b2).next
BY DEF Count

LEMMA RemainderIn ==
    ASSUME NEW a \in Nat, NEW b \in Nat, b >= 1
    PROVE  a % b \in Nat /\ a % b < b
OBVIOUS

BeginningOf(bs, o) == Len(bs) <= Len(o) /\ \A i \in 1 .. Len(bs) : bs[i] = o[i]

LEMMA SameAt ==
    ASSUME NEW bs \in Seq(Byte), NEW o \in Seq(Byte), BeginningOf(bs, o),
           NEW ptr \in Nat, ptr < Len(bs)
    PROVE  At(bs, ptr) = At(o, ptr)
<1>1. ptr + 1 \in 1 .. Len(bs)
  BY LenProperties
<1> QED
  BY <1>1 DEF BeginningOf, At

(* A count that ends in the first bytes is the count. *)
LEMMA SameCount ==
    ASSUME NEW bs \in Seq(Byte), NEW o \in Seq(Byte), BeginningOf(bs, o), NEW ptr \in Nat,
           NEW low, NEW base, low # 0 \/ CountEnds(bs, ptr)
    PROVE  Count(bs, ptr, low, base) = Count(o, ptr, low, base)
<1>1. CASE low # 0
  BY <1>1 DEF Count
<1>2. CASE low = 0
  <2> DEFINE A == {k \in ptr .. Len(bs) - 1 : At(bs, k) # 0}
             B == {k \in ptr .. Len(o) - 1 : At(o, k) # 0}
             x == Smallest(A)
             y == Smallest(B)
  <2>1. Len(bs) \in Nat /\ Len(o) \in Nat /\ Len(bs) <= Len(o)
    BY LenProperties DEF BeginningOf
  <2>2. \A k \in ptr .. Len(bs) - 1 : k \in Nat /\ k < Len(bs) /\ At(bs, k) = At(o, k)
    BY <2>1, SameAt
  <2>3. A \in SUBSET Nat /\ A # {} /\ A \subseteq B /\ B \in SUBSET Nat
    <3>1. A # {}
      BY <1>2 DEF CountEnds
    <3> QED
      BY <2>1, <2>2, <3>1
  <2>4. (\A k \in A : k < Len(bs)) /\ \A k \in B : k < Len(bs) => k \in A
    BY <2>1, <2>2
  <2> HIDE DEF A, B
  <2>5. x \in A /\ (\A k \in A : x <= k) /\ y \in B /\ (\A k \in B : y <= k)
    BY <2>3, SmallestIs
  <2> HIDE DEF x, y
  <2>6. x = y
    <3>1. x \in Nat /\ y \in Nat /\ y <= x /\ x < Len(bs)
      BY <2>3, <2>4, <2>5
    <3>2. y \in A
      BY <2>1, <2>4, <2>5, <3>1
    <3> QED
      BY <2>5, <3>1, <3>2
  <2>7. At(bs, x) = At(o, x)
    <3>1. x \in Nat /\ x < Len(bs)
      BY <2>3, <2>4, <2>5
    <3> QED
      BY <3>1, SameAt
  <2>8. Count(bs, ptr, low, base)
          = [n |-> base + 255 * (x - ptr) + At(bs, x), next |-> x + 1]
    BY <1>2 DEF Count, x, A
  <2>9. Count(o, ptr, low, base)
          = [n |-> base + 255 * (y - ptr) + At(o, y), next |-> y + 1]
    BY <1>2 DEF Count, y, B
  <2> QED
    BY <2>6, <2>7, <2>8, <2>9
<1> QED
  BY <1>1, <1>2

LEMMA SameLong ==
    ASSUME NEW bs \in Seq(Byte), NEW o \in Seq(Byte), BeginningOf(bs, o), NEW ptr \in Nat,
           NEW low \in Nat, NEW base \in Nat, low # 0 \/ CountEnds(bs, ptr),
           Count(bs, ptr, low, base).next + 2 <= Len(bs)
    PROVE  LET count == Count(bs, ptr, low, base) IN
            /\ count = Count(o, ptr, low, base)
            /\ Distance(bs, count.next) = Distance(o, count.next)
<1> DEFINE count == Count(bs, ptr, low, base)
           j == count.next
<1>1. count = Count(o, ptr, low, base)
  BY SameCount
<1>2. j \in Nat
  BY CountIs DEF CountGoesOn
<1>3. j + 2 <= Len(bs) /\ Len(bs) \in Nat
  BY LenProperties
<1> HIDE DEF count, j
<1>4. At(bs, j) = At(o, j) /\ At(bs, j + 1) = At(o, j + 1)
  <2>1. j + 1 \in Nat /\ j < Len(bs) /\ j + 1 < Len(bs)
    BY <1>2, <1>3
  <2> QED
    BY <1>2, <2>1, SameAt
<1> QED
  BY <1>1, <1>4 DEF Distance, count, j

-----------------------------------------------------------------------------
(* What is at a place of a block *)

(* A token begins with a byte from 16 on, and has one more at least. *)
LEMMA TokenInside ==
    ASSUME NEW a \in Algorithms, NEW o \in Seq(Byte), NEW s, NEW places \in SUBSET (Nat \X Nat),
           NEW p \in Nat, NEW d \in Nat, Token(a, o, s, places, p, d)
    PROVE  p + 2 <= Len(o) /\ At(o, p) \in Nat /\ At(o, p) >= 16
<1>1. CASE EofStands(o, s, p, d)
  <2>1. p + 3 = Len(o) /\ Len(EofCode) = 3 /\ \A i \in 1 .. 3 : o[p + i] = EofCode[i]
    BY <1>1 DEF EofStands, Stands, EofCode
  <2>2. o[p + 1] = 17
    BY <2>1 DEF EofCode, M4_MARKER
  <2> QED
    BY <2>1, <2>2 DEF At
<1>2. ASSUME NEW y \in places, MatchStands(a, o, s, p, d, y[1], y[2])
      PROVE  p + 2 <= Len(o) /\ At(o, p) \in Nat /\ At(o, p) >= 16
  <2>1. y[1] \in Nat /\ y[2] \in Nat
    OBVIOUS
  <2>2. PICK off \in Nat :
          /\ Copies(s, d, y[2], off)
          /\ StandsCounted(MatchCode(a, y[2] - d, off), o, p)
    BY <1>2 DEF MatchStands
  <2>3. y[2] - d \in Nat /\ y[2] - d >= 3 /\ off \in 1 .. M4_MAX_OFFSET /\ off >= 1
    <3>1. y[2] - d >= 4
      BY <1>2, Zenon DEF MatchStands
    <3>2. off \in 1 .. M4_MAX_OFFSET
      BY <2>2, Zenon DEF Copies
    <3> QED
      BY <2>1, <3>1, <3>2
  <2>4. Len(MatchCode(a, y[2] - d, off)) \in Nat /\ Len(MatchCode(a, y[2] - d, off)) >= 2
    BY <2>3, MatchCodeBytes
  <2>5. p + 2 <= Len(o)
    BY <2>2, <2>4, LenProperties DEF StandsCounted
  <2>6. At(o, p) \in Nat /\ At(o, p) >= 16
    <3> DEFINE len == y[2] - d
    <3>1. len \in Nat /\ len >= 3 /\ StandsCounted(MatchCode(a, len, off), o, p)
      BY <2>2, <2>3
    <3> HIDE DEF len
    <3>2. LET b == At(o, p) IN
            \/ b \in Nat /\ 64 <= b
            \/ b \in Nat /\ 32 <= b
            \/ b \in Nat /\ 16 <= b
      BY <2>3, <3>1, MatchInverse
    <3> QED
      BY <3>2
  <2> QED
    BY <2>5, <2>6
<1> QED
  BY <1>1, <1>2 DEF Token

(* What begins at a place: nothing is beyond the block. *)
LEMMA LeadsInside ==
    ASSUME NEW a \in Algorithms, NEW o \in Seq(Byte), NEW s, NEW places \in SUBSET (Nat \X Nat),
           NEW x \in Nat \X Nat, Leads(a, o, s, places, x)
    PROVE  x[1] + 2 <= Len(o)
<1>1. PICK n \in Nat, p \in Nat :
        Lits(o, s, x[1], x[2], n, p) /\ Token(a, o, s, places, p, x[2] + n)
  BY DEF Leads
<1>2. x[1] \in Nat /\ x[2] \in Nat /\ x[2] + n \in Nat
  OBVIOUS
<1>3. p + 2 <= Len(o)
  BY <1>1, <1>2, TokenInside
<1>4. p >= x[1]
  <2>1. CASE ManyLits(o, s, x[1], x[2], n, p)
    <3>1. n >= 4 /\ p = x[1] + Len(RunCode(n)) + n
      BY <2>1 DEF ManyLits
    <3>2. Len(RunCode(n)) \in Nat
      BY <3>1, RunHead
    <3> QED
      BY <1>2, <3>1, <3>2
  <2> QED
    BY <1>1, <1>2, <2>1 DEF Lits, FewLits, FirstLits
<1> QED
  BY <1>2, <1>3, <1>4, LenProperties

(* Which literals a place has is told by the bits before it and its first  *)
(* byte, as decompress does it.                                            *)
LEMMA NoneAhead ==
    ASSUME NEW a \in Algorithms, NEW o \in Seq(Byte), NEW s, NEW places \in SUBSET (Nat \X Nat),
           NEW b \in Nat, NEW d \in Nat, Leads(a, o, s, places, <<b, d>>), NoneAnnounced(o, b)
    PROVE  \/ At(o, b) >= 16 /\ Token(a, o, s, places, b, d)
           \/ /\ ~(At(o, b) >= 16)
              /\ \E n, p \in Nat :
                    ManyLits(o, s, b, d, n, p) /\ Token(a, o, s, places, p, d + n)
<1>1. PICK n \in Nat, p \in Nat : Lits(o, s, b, d, n, p) /\ Token(a, o, s, places, p, d + n)
  BY DEF Leads
<1>2. CASE n = 0 /\ p = b
  BY <1>1, <1>2, TokenInside
<1>3. CASE ManyLits(o, s, b, d, n, p)
  <2>1. n >= 4 /\ Stands(RunCode(n), o, b)
    BY <1>3 DEF ManyLits
  <2>2. Len(RunCode(n)) \in Nat /\ Len(RunCode(n)) >= 1 /\ RunCode(n)[1] \in 0 .. 15
    BY <2>1, RunHead
  <2>3. At(o, b) = RunCode(n)[1]
    BY <2>1, <2>2 DEF Stands, At
  <2>4. ~(At(o, b) >= 16)
    <3>1. \A x \in 0 .. 15 : ~(x >= 16)
      OBVIOUS
    <3> QED
      BY <2>2, <2>3, <3>1, Zenon
  <2>5. \E k, q \in Nat : ManyLits(o, s, b, d, k, q) /\ Token(a, o, s, places, q, d + k)
    <3>1. ManyLits(o, s, b, d, n, p) /\ Token(a, o, s, places, p, d + n)
      BY <1>1, <1>3
    <3> QED
      BY <3>1
  <2> QED
    BY <2>4, <2>5, Zenon
<1>4. ~FewLits(o, s, b, d, n, p)
  BY DEF FewLits, NoneAnnounced
<1>5. ~FirstLits(o, s, b, d, n, p)
  BY DEF FirstLits, NoneAnnounced
<1> QED
  BY <1>1, <1>2, <1>3, <1>4, <1>5 DEF Lits

(* Literals whose number has been read, and what follows them *)
Ahead(a, o, s, places, ptr, d, n) ==
    /\ LitsStand(o, s, ptr, d, n)
    /\ Token(a, o, s, places, ptr + n, d + n)

LEMMA FewAhead ==
    ASSUME NEW a, NEW o, NEW s, NEW places, NEW b \in Nat, NEW d \in Nat,
           Leads(a, o, s, places, <<b, d>>), b >= 2, Announced(o, b) # 0
    PROVE  Ahead(a, o, s, places, b, d, Announced(o, b))
<1>1. PICK n \in Nat, p \in Nat : Lits(o, s, b, d, n, p) /\ Token(a, o, s, places, p, d + n)
  BY DEF Leads
<1>2. FewLits(o, s, b, d, n, p)
  BY <1>1 DEF Lits, ManyLits, FirstLits, NoneAnnounced
<1> QED
  BY <1>1, <1>2 DEF FewLits, Ahead

LEMMA FirstAhead ==
    ASSUME NEW a, NEW o, NEW s, NEW places, Leads(a, o, s, places, <<0, 0>>),
           At(o, 0) \in Nat, At(o, 0) > 17
    PROVE  At(o, 0) - 17 \in Nat /\ Ahead(a, o, s, places, 1, 0, At(o, 0) - 17)
<1>1. PICK n \in Nat, p \in Nat : Lits(o, s, 0, 0, n, p) /\ Token(a, o, s, places, p, 0 + n)
  BY DEF Leads
<1>2. ~NoneAnnounced(o, 0)
  BY DEF NoneAnnounced, At
<1>3. FirstLits(o, s, 0, 0, n, p)
  BY <1>1, <1>2 DEF Lits, ManyLits, FewLits
<1>4. At(o, 0) = 17 + n /\ p = 1 + n
  BY <1>3 DEF FirstLits, At
<1>5. At(o, 0) - 17 = n
  BY <1>4
<1> QED
  BY <1>1, <1>3, <1>4, <1>5 DEF FirstLits, Ahead

LEMMA ManyAhead ==
    ASSUME NEW a, NEW o \in Seq(Byte), NEW s, NEW places, NEW b \in Nat, NEW d \in Nat,
           NEW n \in Nat, NEW p \in Nat,
           ManyLits(o, s, b, d, n, p), Token(a, o, s, places, p, d + n)
    PROVE  LET count == Count(o, b + 1, At(o, b), 15) IN
            /\ count.n + 3 = n /\ count.next \in Nat
            /\ At(o, b) = 0 => CountEnds(o, b + 1)
            /\ Ahead(a, o, s, places, count.next, d, n)
<1> DEFINE count == Count(o, b + 1, At(o, b), 15)
           m == Len(RunCode(n))
<1>1. /\ n >= 4 /\ Stands(RunCode(n), o, b) /\ p = b + m + n
      /\ LitsStand(o, s, b + m, d, n) /\ m \in Nat
  BY RunHead DEF ManyLits
<1>2. count = [n |-> n - 3, next |-> b + m] /\ (At(o, b) = 0 => CountEnds(o, b + 1))
  BY <1>1, RunInverse
<1> HIDE DEF count, m
<1>3. count.n + 3 = n /\ count.next = b + m
  BY <1>2
<1>4. LitsStand(o, s, count.next, d, n) /\ Token(a, o, s, places, count.next + n, d + n)
  BY <1>1, <1>3
<1> QED
  BY <1>1, <1>2, <1>3, <1>4 DEF Ahead, count

-----------------------------------------------------------------------------
(* What is copied of it *)

LEMMA PartIs ==
    ASSUME NEW bs \in Seq(Byte), NEW from \in Nat, NEW n \in Nat, from + n <= Len(bs)
    PROVE  LET part == SubSeq(bs, from + 1, from + n) IN
            /\ part \in Seq(Byte) /\ Len(part) = n
            /\ \A k \in 1 .. n : part[k] = bs[from + k]
<1> DEFINE first == from + 1
           last == from + n
           part == SubSeq(bs, first, last)
<1>1. /\ Len(bs) \in Nat
      /\ first \in Int /\ last \in Int /\ first >= 1 /\ last <= Len(bs)
      /\ (IF first <= last THEN last - first + 1 ELSE 0) = n
      /\ \A k \in 1 .. n : first + k - 1 = from + k
  BY LenProperties
<1> HIDE DEF first, last
<1>2. \A i \in first .. last : bs[i] \in Byte
  <2> TAKE i \in first .. last
  <2>1. i \in 1 .. Len(bs)
    BY <1>1
  <2> QED
    BY <2>1, ElementOfSeq
<1>3. part \in Seq(Byte) /\ Len(part) = n /\ \A k \in 1 .. n : part[k] = bs[first + k - 1]
  BY <1>1, <1>2, SubSeqProperties
<1> QED
  BY <1>1, <1>3 DEF first, last

LEMMA Grown ==
    ASSUME NEW u \in Seq(Byte), NEW part \in Seq(Byte), NEW s \in Seq(Byte), BeginningOf(u, s),
           Len(u) + Len(part) <= Len(s),
           \A k \in 1 .. Len(part) : part[k] = s[Len(u) + k]
    PROVE  BeginningOf(u \o part, s) /\ Len(u \o part) = Len(u) + Len(part)
<1> DEFINE w == u \o part
<1>1. Len(w) = Len(u) + Len(part) /\ Len(u) \in Nat /\ Len(part) \in Nat
  BY ConcatLen, LenProperties
<1>2. \A i \in 1 .. Len(u) + Len(part) :
        w[i] = IF i <= Len(u) THEN u[i] ELSE part[i - Len(u)]
  BY ConcatProperties, Zenon
<1> HIDE DEF w
<1>3. ASSUME NEW i \in 1 .. Len(u) + Len(part) PROVE w[i] = s[i]
  <2>1. CASE i <= Len(u)
    BY <1>1, <1>2, <2>1 DEF BeginningOf
  <2>2. CASE ~(i <= Len(u))
    <3> DEFINE k == i - Len(u)
    <3>1. k \in 1 .. Len(part) /\ Len(u) + k = i
      BY <1>1, <2>2
    <3>2. w[i] = part[k]
      BY <1>2, <2>2
    <3> HIDE DEF k
    <3> QED
      BY <3>1, <3>2
  <2> QED
    BY <2>1, <2>2
<1>4. BeginningOf(w, s)
  BY <1>1, <1>3 DEF BeginningOf
<1> QED
  BY <1>1, <1>4 DEF w

LEMMA Around ==
    ASSUME NEW i \in Nat, NEW off \in Nat, off >= 1
    PROVE  /\ i % off \in Nat /\ i % off < off
           /\ i < off => i % off = i
           /\ (i + off) % off = i % off
<1> DEFINE q1 == i \div off
           r1 == i % off
           q2 == (i + off) \div off
           r2 == (i + off) % off
<1>1. ASSUME NEW j \in Nat
      PROVE  /\ j \div off \in Int /\ j % off \in Nat /\ j % off < off
             /\ j = off * (j \div off) + (j % off)
  <2>1. j % off \in Nat /\ j % off < off
    BY <1>1, RemainderIn
  <2> QED
    BY <1>1, <2>1
<1>2. q1 \in Int /\ r1 \in Nat /\ r1 < off /\ i = off * q1 + r1
  BY <1>1
<1>3. q2 \in Int /\ r2 \in Nat /\ r2 < off /\ i + off = off * q2 + r2
  <2>1. i + off \in Nat
    OBVIOUS
  <2> QED
    BY <1>1, <2>1
<1> HIDE DEF q1, r1, q2, r2
<1>4. r1 = r2
  <2> DEFINE k == q2 - q1 - 1
  <2>1. k \in Int /\ q2 = q1 + 1 + k
    BY <1>2, <1>3
  <2> HIDE DEF k
  <2>2. off * q2 = off * q1 + off + off * k
    BY <1>2, <2>1
  <2>3. off * k = r1 - r2 /\ off * k \in Int
    BY <1>2, <1>3, <2>1, <2>2
  <2>4. k = 0
    <3>1. k >= 1 => off * k >= off
      BY <2>1
    <3>2. k <= -1 => off * k <= -off
      BY <2>1
    <3> QED
      BY <1>2, <1>3, <2>1, <2>3, <3>1, <3>2
  <2> QED
    BY <1>2, <1>3, <2>3, <2>4
<1>5. i < off => r1 = i
  <2> SUFFICES ASSUME i < off PROVE r1 = i
    OBVIOUS
  <2>1. q1 >= 1 => off * q1 >= off
    BY <1>2
  <2>2. q1 <= -1 => off * q1 <= -off
    BY <1>2
  <2> QED
    BY <1>2, <2>1, <2>2
<1> QED
  BY <1>2, <1>4, <1>5 DEF r1, r2

(* A match that repeats itself is the bytes before it over and over. *)
Periodic(s, d, n, off) ==
    \A i \in 1 .. n : s[d + i] = s[d - off + 1 + ((i - 1) % off)]

LEMMA CopiesAround ==
    ASSUME NEW s, NEW d \in Nat, NEW n \in Nat, NEW off \in Nat, Copies(s, d, d + n, off)
    PROVE  Periodic(s, d, n, off)
<1> DEFINE Same(i) == s[d + i] = s[d - off + 1 + ((i - 1) % off)]
           Bad == {i \in 1 .. n : ~Same(i)}
<1>1. off >= 1 /\ off <= d /\ \A k \in 1 .. n : s[d + k] = s[d + k - off]
  BY DEF Copies
<1>2. ASSUME NEW i \in 1 .. n, i <= off PROVE Same(i)
  <2>1. (i - 1) % off = i - 1
    <3>1. i - 1 \in Nat /\ i - 1 < off
      BY <1>2
    <3> QED
      BY <1>1, <3>1, Around
  <2>2. d - off + 1 + (i - 1) = d + i - off
    BY <1>1
  <2> QED
    BY <1>1, <2>1, <2>2
<1>3. ASSUME NEW i \in 1 .. n, ~(i <= off), Same(i - off) PROVE Same(i)
  <2> DEFINE j == i - off
  <2>1. j \in Nat /\ j >= 1 /\ j - 1 \in Nat /\ (j - 1) + off = i - 1 /\ d + j = d + i - off
    BY <1>1, <1>3
  <2> HIDE DEF j
  <2>2. (i - 1) % off = (j - 1) % off
    BY <1>1, <2>1, Around
  <2>3. s[d + i] = s[d + j]
    BY <1>1, <2>1
  <2>4. s[d + j] = s[d - off + 1 + ((j - 1) % off)]
    BY <1>3 DEF j
  <2> QED
    BY <2>2, <2>3, <2>4
<1> HIDE DEF Same
<1>4. Bad = {}
  <2> SUFFICES ASSUME Bad # {} PROVE FALSE
    OBVIOUS
  <2>1. Bad \in SUBSET Nat
    OBVIOUS
  <2> DEFINE i == Smallest(Bad)
  <2>2. i \in Bad /\ \A k \in Bad : i <= k
    BY <2>1, SmallestIs
  <2> HIDE DEF i
  <2>3. i \in 1 .. n /\ ~Same(i) /\ ~(i <= off)
    BY <1>2, <2>2
  <2>4. i - off \in 1 .. n /\ i - off < i
    BY <1>1, <2>3
  <2>5. Same(i - off)
    BY <2>2, <2>4
  <2> QED
    BY <1>3, <2>3, <2>5
<1> QED
  BY <1>4 DEF Same, Periodic

=============================================================================
