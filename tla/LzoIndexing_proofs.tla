------------------------- MODULE LzoIndexing_proofs -------------------------
(***************************************************************************)
(* Proofs about LzoIndexing, for any number of indexers, any file and any  *)
(* failures.                                                               *)
(***************************************************************************)
EXTENDS LzoIndexing, LzoFrames_proofs

-----------------------------------------------------------------------------
(* The size of a block *)

One(name, S) == IF name \in S THEN 1 ELSE 0

LEMMA OneMore ==
    ASSUME NEW S, IsFiniteSet(S), NEW T, NEW x, x \notin S
    PROVE  /\ IsFiniteSet(S \cup (T \cap {x}))
           /\ Cardinality(S \cup (T \cap {x})) = Cardinality(S) + One(x, T)
<1> DEFINE U == S \cup (T \cap {x})
<1>1. CASE x \in T
  <2>1. U = S \cup {x} /\ One(x, T) = 1
    BY <1>1 DEF One
  <2> HIDE DEF U
  <2>2. IsFiniteSet(U) /\ Cardinality(U) = Cardinality(S) + 1
    BY <2>1, FS_AddElement
  <2> QED
    BY <2>1, <2>2 DEF U
<1>2. CASE x \notin T
  <2>1. U = S /\ One(x, T) = 0
    BY <1>2 DEF One
  <2>2. Cardinality(S) \in Nat
    BY FS_CardinalityType
  <2> HIDE DEF U
  <2>3. IsFiniteSet(U) /\ Cardinality(U) = Cardinality(S) + 0
    BY <2>1, <2>2
  <2> QED
    BY <2>1, <2>3 DEF U
<1> QED
  BY <1>1, <1>2

DNames == {"ADLER32_D", "CRC32_D"}
AllNames == {"ADLER32_D", "CRC32_D", "ADLER32_C", "CRC32_C"}

(* How many checksums a set of flags has. *)
LEMMA ChecksumCounts ==
    ASSUME NEW S \in SUBSET AllNames
    PROVE  /\ Cardinality(S \cap DNames) = One("ADLER32_D", S) + One("CRC32_D", S)
           /\ Cardinality(S) = One("ADLER32_D", S) + One("CRC32_D", S)
                               + One("ADLER32_C", S) + One("CRC32_C", S)
<1> DEFINE S1 == {} \cup (S \cap {"ADLER32_D"})
           S2 == S1 \cup (S \cap {"CRC32_D"})
           S3 == S2 \cup (S \cap {"ADLER32_C"})
           S4 == S3 \cup (S \cap {"CRC32_C"})
<1>1. IsFiniteSet({}) /\ Cardinality({}) = 0
  BY FS_EmptySet
<1>2. IsFiniteSet(S1) /\ Cardinality(S1) = 0 + One("ADLER32_D", S)
  BY <1>1, OneMore
<1>3. IsFiniteSet(S2) /\ Cardinality(S2) = Cardinality(S1) + One("CRC32_D", S)
  <2>1. "CRC32_D" \notin S1
    OBVIOUS
  <2> HIDE DEF S1
  <2> QED
    BY <1>2, <2>1, OneMore
<1>4. IsFiniteSet(S3) /\ Cardinality(S3) = Cardinality(S2) + One("ADLER32_C", S)
  <2>1. "ADLER32_C" \notin S2
    OBVIOUS
  <2> HIDE DEF S2
  <2> QED
    BY <1>3, <2>1, OneMore
<1>5. IsFiniteSet(S4) /\ Cardinality(S4) = Cardinality(S3) + One("CRC32_C", S)
  <2>1. "CRC32_C" \notin S3
    OBVIOUS
  <2> HIDE DEF S3
  <2> QED
    BY <1>4, <2>1, OneMore
<1>6. S2 = S \cap DNames /\ S4 = S
  BY DEF DNames, AllNames
<1>7. \A x : One(x, S) \in Nat
  BY DEF One
<1> HIDE DEF S1, S2, S3, S4
<1> QED
  BY <1>2, <1>3, <1>4, <1>5, <1>6, <1>7

Pairs == (Nat \ {0}) \X (Nat \ {0})
IsSize(size) == size \in Pairs

Skipped(on, size) == IF size[2] < size[1] THEN on ELSE on \cap DNames

LEMMA ChecksumIsSeq ==
    ASSUME NEW name, NEW on, NEW data, NEW T, Checksum(name, data) \in T
    PROVE  /\ WriteChecksum(name, on, data) \in Seq(T)
           /\ Len(WriteChecksum(name, on, data)) = One(name, on)
<1>1. CASE name \in on
  <2>1. WriteChecksum(name, on, data) = <<Checksum(name, data)>> /\ One(name, on) = 1
    BY <1>1 DEF WriteChecksum, One
  <2> QED
    BY <2>1
<1>2. CASE name \notin on
  <2>1. WriteChecksum(name, on, data) = << >> /\ One(name, on) = 0
    BY <1>2 DEF WriteChecksum, One
  <2> QED
    BY <2>1
<1> QED
  BY <1>1, <1>2

LEMMA TwoParts ==
    ASSUME NEW T, NEW s \in Seq(T), NEW t \in Seq(T), Len(s) >= 2
    PROVE  /\ s \o t \in Seq(T)
           /\ Len(s \o t) = Len(s) + Len(t)
           /\ (s \o t)[1] = s[1] /\ (s \o t)[2] = s[2]
           /\ Len(s \o t) >= 2
OBVIOUS

LEMMA FiveParts ==
    ASSUME NEW T, NEW a \in Seq(T), NEW b \in Seq(T), NEW c \in Seq(T),
           NEW d \in Seq(T), NEW e \in Seq(T), NEW s, Len(a) >= 2,
           s = a \o b \o c \o d \o e
    PROVE  /\ Len(s) = Len(a) + Len(b) + Len(c) + Len(d) + Len(e)
           /\ s[1] = a[1] /\ s[2] = a[2]
<1> DEFINE s2 == a \o b
           s3 == s2 \o c
           s4 == s3 \o d
           s5 == s4 \o e
<1>1. /\ s2 \in Seq(T) /\ Len(s2) = Len(a) + Len(b) /\ s2[1] = a[1] /\ s2[2] = a[2]
      /\ Len(s2) >= 2
  BY TwoParts
<1> HIDE DEF s2
<1>2. /\ s3 \in Seq(T) /\ Len(s3) = Len(s2) + Len(c) /\ s3[1] = s2[1] /\ s3[2] = s2[2]
      /\ Len(s3) >= 2
  BY <1>1, TwoParts
<1> HIDE DEF s3
<1>3. /\ s4 \in Seq(T) /\ Len(s4) = Len(s3) + Len(d) /\ s4[1] = s3[1] /\ s4[2] = s3[2]
      /\ Len(s4) >= 2
  BY <1>2, TwoParts
<1> HIDE DEF s4
<1>4. /\ s5 \in Seq(T) /\ Len(s5) = Len(s4) + Len(e) /\ s5[1] = s4[1] /\ s5[2] = s4[2]
      /\ Len(s5) >= 2
  BY <1>3, TwoParts
<1> HIDE DEF s5
<1>5. s5[1] = a[1] /\ s5[2] = a[2] /\ Len(s5) = Len(a) + Len(b) + Len(c) + Len(d) + Len(e)
  BY <1>1, <1>2, <1>3, <1>4
<1>6. s5 = s
  BY DEF s5, s4, s3, s2
<1> QED
  BY <1>5, <1>6, Zenon

(* A block begins with its lengths, and its other tokens are the checksums *)
(* that the indexer skips and the data.                                    *)
LEMMA BlockTokensAre ==
    ASSUME NEW on \in SUBSET AllNames, NEW size, IsSize(size)
    PROVE  /\ BlockTokens(on, size)[1].value = size[1]
           /\ BlockTokens(on, size)[2].value = IF size[2] < size[1] THEN size[2] ELSE size[1]
           /\ Len(BlockTokens(on, size)) - 1 = 2 + Cardinality(Skipped(on, size))
<1> DEFINE bytes == [j \in 1 .. size[1] |-> j]
           packed == size[2] < size[1]
           data == Data(bytes, packed)
           plain == Data(bytes, FALSE)
           second == IF packed THEN size[2] ELSE size[1]
           W(name, d) == WriteChecksum(name, on, d)
<1>1. size[1] \in Nat \ {0} /\ size[2] \in Nat \ {0} /\ Len(bytes) = size[1]
  BY DEF IsSize, Pairs
<1>2. BlockTokens(on, size) =
        <<Word(size[1]), Word(second)>> \o W("ADLER32_D", plain) \o W("CRC32_D", plain)
        \o (IF packed THEN W("ADLER32_C", data) \o W("CRC32_C", data) ELSE << >>) \o <<data>>
  BY <1>1 DEF BlockTokens, LzopBlock
<1> DEFINE T == {Word(size[1]), Word(second), data} \cup
                {Checksum("ADLER32_D", plain), Checksum("CRC32_D", plain),
                 Checksum("ADLER32_C", data), Checksum("CRC32_C", data)}
           a == <<Word(size[1]), Word(second)>>
           b == W("ADLER32_D", plain)
           c == W("CRC32_D", plain)
           d1 == W("ADLER32_C", data)
           d2 == W("CRC32_C", data)
           d == IF packed THEN d1 \o d2 ELSE << >>
<1>3. /\ a \in Seq(T) /\ Len(a) = 2 /\ a[1] = Word(size[1]) /\ a[2] = Word(second)
      /\ <<data>> \in Seq(T) /\ Len(<<data>>) = 1
  OBVIOUS
<1>4. /\ b \in Seq(T) /\ Len(b) = One("ADLER32_D", on)
      /\ c \in Seq(T) /\ Len(c) = One("CRC32_D", on)
      /\ d1 \in Seq(T) /\ Len(d1) = One("ADLER32_C", on)
      /\ d2 \in Seq(T) /\ Len(d2) = One("CRC32_C", on)
  <2> DEFINE x1 == Checksum("ADLER32_D", plain)
             x2 == Checksum("CRC32_D", plain)
             x3 == Checksum("ADLER32_C", data)
             x4 == Checksum("CRC32_C", data)
  <2>1. x1 \in T /\ x2 \in T /\ x3 \in T /\ x4 \in T
    OBVIOUS
  <2> HIDE DEF T, data, plain
  <2>2. /\ b \in Seq(T) /\ Len(b) = One("ADLER32_D", on)
        /\ c \in Seq(T) /\ Len(c) = One("CRC32_D", on)
        /\ d1 \in Seq(T) /\ Len(d1) = One("ADLER32_C", on)
        /\ d2 \in Seq(T) /\ Len(d2) = One("CRC32_C", on)
    BY <2>1, ChecksumIsSeq
  <2> QED
    BY <2>2
<1>5. \A x : One(x, on) \in Nat
  BY DEF One
<1> DEFINE z == <<data>>
<1>6. d \in Seq(T) /\ Len(d) = IF packed THEN One("ADLER32_C", on) + One("CRC32_C", on) ELSE 0
  <2> HIDE DEF T, d1, d2
  <2> QED
    BY <1>4, <1>5
<1>7. BlockTokens(on, size) = a \o b \o c \o d \o z
  BY <1>2
<1>8. z \in Seq(T) /\ Len(z) = 1
  BY <1>3
<1> HIDE DEF a, b, c, d, z, T
<1>9. /\ Len(BlockTokens(on, size)) = 2 + Len(b) + Len(c) + Len(d) + Len(z)
      /\ BlockTokens(on, size)[1] = a[1]
      /\ BlockTokens(on, size)[2] = a[2]
  <2>1. Len(a) >= 2 /\ Len(a) = 2 /\ a \in Seq(T)
    BY <1>3
  <2> HIDE DEF BlockTokens
  <2>2. /\ Len(BlockTokens(on, size)) = Len(a) + Len(b) + Len(c) + Len(d) + Len(z)
        /\ BlockTokens(on, size)[1] = a[1] /\ BlockTokens(on, size)[2] = a[2]
    <3> DEFINE s == BlockTokens(on, size)
    <3>1. s = a \o b \o c \o d \o z
      BY <1>7
    <3> HIDE DEF s
    <3>2. /\ Len(s) = Len(a) + Len(b) + Len(c) + Len(d) + Len(z)
          /\ s[1] = a[1] /\ s[2] = a[2]
      <4>1. a \in Seq(T) /\ b \in Seq(T) /\ c \in Seq(T) /\ d \in Seq(T) /\ z \in Seq(T)
        BY <1>4, <1>6, <1>8, <2>1
      <4>2. Len(a) >= 2
        BY <2>1
      <4> QED
        BY <3>1, <4>1, <4>2, FiveParts, SMTT(60)
    <3> QED
      BY <3>2 DEF s
  <2> QED
    BY <2>1, <2>2
<1>10. Len(BlockTokens(on, size)) - 1 = 2 + One("ADLER32_D", on) + One("CRC32_D", on) + Len(d)
  <2>1. Len(d) \in Nat
    BY <1>6, LenProperties
  <2> QED
    BY <1>4, <1>5, <1>8, <1>9, <2>1
<1>11. Len(BlockTokens(on, size)) - 1 = 2 + Cardinality(Skipped(on, size))
  <2>1. /\ One("ADLER32_D", on) \in Nat /\ One("CRC32_D", on) \in Nat
        /\ One("ADLER32_C", on) \in Nat /\ One("CRC32_C", on) \in Nat
    BY <1>5
  <2>2. CASE packed
    <3>1. Len(d) = One("ADLER32_C", on) + One("CRC32_C", on)
      BY <1>6, <2>2
    <3>2. Skipped(on, size) = on
      BY <2>2 DEF Skipped
    <3>3. Cardinality(on) = One("ADLER32_D", on) + One("CRC32_D", on)
                            + One("ADLER32_C", on) + One("CRC32_C", on)
      BY ChecksumCounts
    <3> QED
      BY <1>10, <2>1, <3>1, <3>2, <3>3
  <2>3. CASE ~packed
    <3>1. Len(d) = 0
      BY <1>6, <2>3
    <3>2. Skipped(on, size) = on \cap DNames
      BY <2>3 DEF Skipped
    <3>3. Cardinality(on \cap DNames) = One("ADLER32_D", on) + One("CRC32_D", on)
      BY ChecksumCounts
    <3> QED
      BY <1>10, <2>1, <3>1, <3>2, <3>3
  <2> QED
    BY <2>2, <2>3
<1>12. BlockTokens(on, size)[1] = Word(size[1]) /\ BlockTokens(on, size)[2] = Word(second)
  BY <1>3, <1>9
<1> QED
  BY <1>11, <1>12 DEF Word, second

-----------------------------------------------------------------------------
(* Where the blocks of a file are *)

Second(size) == IF size[2] < size[1] THEN size[2] ELSE size[1]

LEMMA BlockBytesAre ==
    ASSUME NEW on \in SUBSET AllNames, NEW size, IsSize(size)
    PROVE  /\ Second(size) \in Nat \ {0}
           /\ Cardinality(Skipped(on, size)) \in Nat
           /\ BlockBytes(on, size) = 8 + 4 * Cardinality(Skipped(on, size)) + Second(size)
           /\ BlockBytes(on, size) \in Nat
           /\ BlockBytes(on, size) > 8
<1>1. size[1] \in Nat \ {0} /\ size[2] \in Nat \ {0}
  BY DEF IsSize, Pairs
<1>2. Second(size) \in Nat \ {0}
  BY <1>1 DEF Second
<1>3. Cardinality(Skipped(on, size)) \in Nat
  <2>1. /\ One("ADLER32_D", on) \in Nat /\ One("CRC32_D", on) \in Nat
        /\ One("ADLER32_C", on) \in Nat /\ One("CRC32_C", on) \in Nat
    BY DEF One
  <2>2. Cardinality(on) \in Nat /\ Cardinality(on \cap DNames) \in Nat
    BY <2>1, ChecksumCounts
  <2> QED
    BY <2>2 DEF Skipped
<1>4. BlockBytes(on, size) = 4 * (2 + Cardinality(Skipped(on, size))) + Second(size)
  BY BlockTokensAre DEF BlockBytes, Second
<1> QED
  BY <1>2, <1>3, <1>4

LEMMA Starts ==
    ASSUME NEW on \in SUBSET AllNames, NEW n \in Nat, NEW blocks \in [1 .. n -> Pairs]
    PROVE  /\ Start(on, blocks, 1) = HeaderLen
           /\ \A i \in 1 .. n + 1 : Start(on, blocks, i) \in Nat
           /\ \A i \in 1 .. n :
                Start(on, blocks, i + 1) = Start(on, blocks, i) + BlockBytes(on, blocks[i])
           /\ \A i, j \in 1 .. n + 1 : i <= j => Start(on, blocks, i) <= Start(on, blocks, j)
<1> DEFINE f == [j \in DOMAIN blocks |-> BlockBytes(on, blocks[j])]
<1>1. \A j \in 1 .. n : f[j] = BlockBytes(on, blocks[j])
  OBVIOUS
<1>2. \A j \in 1 .. n : f[j] \in Nat
  <2> TAKE j \in 1 .. n
  <2>1. IsSize(blocks[j])
    BY DEF IsSize
  <2> QED
    BY <1>1, <2>1, BlockBytesAre
<1>3. \A i : Start(on, blocks, i) = HeaderLen + Total(f, i - 1)
  BY DEF Start
<1> HIDE DEF f
<1>4. Start(on, blocks, 1) = HeaderLen
  <2>1. Total(f, 1 - 1) = 0
    BY TotalOfNone
  <2> QED
    BY <1>3, <2>1 DEF HeaderLen
<1>5. ASSUME NEW i \in 1 .. n + 1 PROVE Total(f, i - 1) \in Nat
  <2>1. i - 1 \in Nat /\ \A j \in 1 .. i - 1 : f[j] \in Nat
    BY <1>2
  <2> QED
    BY <2>1, TotalIsNat
<1>6. ASSUME NEW i \in 1 .. n
      PROVE  Start(on, blocks, i + 1) = Start(on, blocks, i) + BlockBytes(on, blocks[i])
  <2> DEFINE k == i - 1
  <2>1. k \in Nat /\ (\A j \in 1 .. k + 1 : f[j] \in Nat) /\ k + 1 = i /\ (i + 1) - 1 = k + 1
    BY <1>2
  <2> HIDE DEF k
  <2>2. Total(f, k + 1) = Total(f, k) + f[k + 1]
    BY <2>1, TotalGrows
  <2>3. /\ Start(on, blocks, i + 1) = HeaderLen + Total(f, k + 1)
        /\ Start(on, blocks, i) = HeaderLen + Total(f, k)
    BY <1>3, <2>1 DEF k
  <2>4. f[k + 1] = BlockBytes(on, blocks[i]) /\ f[k + 1] \in Nat /\ Total(f, k) \in Nat
    BY <1>1, <1>2, <1>5, <2>1 DEF k
  <2> QED
    BY <2>2, <2>3, <2>4 DEF HeaderLen
<1>7. ASSUME NEW i \in 1 .. n + 1, NEW j \in 1 .. n + 1, i <= j
      PROVE  Start(on, blocks, i) <= Start(on, blocks, j)
  <2> DEFINE k == i - 1
             m == j - 1
  <2>1. k \in Nat /\ m \in Nat /\ k <= m /\ \A h \in 1 .. m : f[h] \in Nat
    BY <1>2, <1>7
  <2>2. Total(f, k) \in Nat /\ Total(f, m) \in Nat
    BY <1>5
  <2> HIDE DEF k, m
  <2>3. Total(f, k) <= Total(f, m)
    BY <2>1, TotalIsMonotone
  <2>4. Start(on, blocks, i) = HeaderLen + Total(f, k) /\ Start(on, blocks, j) = HeaderLen + Total(f, m)
    BY <1>3 DEF k, m
  <2> QED
    BY <2>2, <2>3, <2>4 DEF HeaderLen
<1>8. \A i \in 1 .. n + 1 : Start(on, blocks, i) \in Nat
  BY <1>3, <1>5 DEF HeaderLen
<1> QED
  BY <1>4, <1>6, <1>7, <1>8

(* The words of the file are at different places. *)
LEMMA WordsAre ==
    ASSUME NEW on \in SUBSET AllNames, NEW n \in Nat, NEW blocks \in [1 .. n -> Pairs],
           NEW w \in Words(on, blocks)
    PROVE  \/ \E i \in 1 .. n : w = [at |-> Start(on, blocks, i), value |-> blocks[i][1]]
           \/ \E i \in 1 .. n : w = [at |-> Start(on, blocks, i) + 4, value |-> Second(blocks[i])]
           \/ w = [at |-> Start(on, blocks, n + 1), value |-> 0]
<1>1. DOMAIN blocks = 1 .. n /\ Len(blocks) = n
  OBVIOUS
<1>2. CASE w = [at |-> Start(on, blocks, Len(blocks) + 1), value |-> Terminator.value]
  <2>1. Terminator.value = 0
    BY DEF Terminator, Word
  <2> QED
    BY <1>1, <1>2, <2>1, Zenon
<1>3. ASSUME NEW i \in 1 .. n, w \in Lengths(on, blocks[i], Start(on, blocks, i))
      PROVE  \/ w = [at |-> Start(on, blocks, i), value |-> blocks[i][1]]
             \/ w = [at |-> Start(on, blocks, i) + 4, value |-> Second(blocks[i])]
  <2>1. PICK k \in 1 .. 2 : w = [at |-> Start(on, blocks, i) + 4 * (k - 1),
                                 value |-> BlockTokens(on, blocks[i])[k].value]
    BY <1>3 DEF Lengths
  <2>2. /\ BlockTokens(on, blocks[i])[1].value = blocks[i][1]
        /\ BlockTokens(on, blocks[i])[2].value = Second(blocks[i])
    <3>1. IsSize(blocks[i])
      BY DEF IsSize
    <3> QED
      BY <3>1, BlockTokensAre DEF Second
  <2>3. Start(on, blocks, i) \in Nat
    <3>1. i \in 1 .. n + 1
      OBVIOUS
    <3> QED
      BY <3>1, Starts
  <2>4. Start(on, blocks, i) + 4 * (1 - 1) = Start(on, blocks, i) /\ 4 * (2 - 1) = 4
    BY <2>3
  <2>5. k = 1 \/ k = 2
    OBVIOUS
  <2> QED
    BY <2>1, <2>2, <2>4, <2>5
<1>4. \/ \E i \in 1 .. n : w \in Lengths(on, blocks[i], Start(on, blocks, i))
      \/ w = [at |-> Start(on, blocks, Len(blocks) + 1), value |-> Terminator.value]
  BY <1>1 DEF Words
<1> QED
  BY <1>2, <1>3, <1>4, Zenon

LEMMA WordsThere ==
    ASSUME NEW on \in SUBSET AllNames, NEW n \in Nat, NEW blocks \in [1 .. n -> Pairs]
    PROVE  /\ \A i \in 1 .. n :
                /\ [at |-> Start(on, blocks, i), value |-> blocks[i][1]] \in Words(on, blocks)
                /\ [at |-> Start(on, blocks, i) + 4, value |-> Second(blocks[i])] \in Words(on, blocks)
           /\ [at |-> Start(on, blocks, n + 1), value |-> 0] \in Words(on, blocks)
<1>1. DOMAIN blocks = 1 .. n /\ Len(blocks) = n
  OBVIOUS
<1>2. [at |-> Start(on, blocks, n + 1), value |-> 0] \in Words(on, blocks)
  <2>1. Terminator.value = 0
    BY DEF Terminator, Word
  <2>2. [at |-> Start(on, blocks, Len(blocks) + 1), value |-> Terminator.value] \in Words(on, blocks)
    BY Zenon DEF Words
  <2> QED
    BY <1>1, <2>1, <2>2, Zenon
<1>3. ASSUME NEW i \in 1 .. n
      PROVE  /\ [at |-> Start(on, blocks, i), value |-> blocks[i][1]]
                    \in Lengths(on, blocks[i], Start(on, blocks, i))
             /\ [at |-> Start(on, blocks, i) + 4, value |-> Second(blocks[i])]
                    \in Lengths(on, blocks[i], Start(on, blocks, i))
  <2>1. /\ BlockTokens(on, blocks[i])[1].value = blocks[i][1]
        /\ BlockTokens(on, blocks[i])[2].value = Second(blocks[i])
    <3>1. IsSize(blocks[i])
      BY DEF IsSize
    <3> QED
      BY <3>1, BlockTokensAre DEF Second
  <2>2. Start(on, blocks, i) \in Nat
    <3>1. i \in 1 .. n + 1
      OBVIOUS
    <3> QED
      BY <3>1, Starts
  <2>3. /\ Start(on, blocks, i) + 4 * (1 - 1) = Start(on, blocks, i)
        /\ Start(on, blocks, i) + 4 * (2 - 1) = Start(on, blocks, i) + 4
    BY <2>2
  <2>4. 1 \in 1 .. 2 /\ 2 \in 1 .. 2
    OBVIOUS
  <2> QED
    BY <2>1, <2>3, <2>4 DEF Lengths
<1> QED
  BY <1>1, <1>2, <1>3 DEF Words

LEMMA Apart ==
    \A a, b \in Nat : a + 8 < b \/ b + 8 < a => a # b /\ a + 4 # b /\ a + 4 # b + 4 /\ a # b + 4
OBVIOUS

LEMMA WordsDiffer ==
    ASSUME NEW on \in SUBSET AllNames, NEW n \in Nat, NEW blocks \in [1 .. n -> Pairs],
           NEW w \in Words(on, blocks), NEW v \in Words(on, blocks), w.at = v.at
    PROVE  w = v
<1> DEFINE s == [i \in 1 .. n + 1 |-> Start(on, blocks, i)]
           first == [i \in 1 .. n |-> blocks[i][1]]
           second == [i \in 1 .. n |-> Second(blocks[i])]
<1>1. /\ \A i \in 1 .. n + 1 : s[i] \in Nat
      /\ \A i \in 1 .. n : s[i] + 8 < s[i + 1]
      /\ \A i, j \in 1 .. n + 1 : i <= j => s[i] <= s[j]
  <2>1. ASSUME NEW i \in 1 .. n PROVE s[i] + 8 < s[i + 1]
    <3>1. IsSize(blocks[i])
      BY DEF IsSize
    <3>2. BlockBytes(on, blocks[i]) \in Nat /\ BlockBytes(on, blocks[i]) > 8
      BY <3>1, BlockBytesAre
    <3>3. s[i + 1] = s[i] + BlockBytes(on, blocks[i]) /\ s[i] \in Nat
      <4>1. i \in 1 .. n + 1 /\ i + 1 \in 1 .. n + 1
        OBVIOUS
      <4> QED
        BY <4>1, Starts
    <3> QED
      BY <3>2, <3>3
  <2> QED
    BY <2>1, Starts
<1>2. \A x \in {w, v} : \/ \E i \in 1 .. n : x = [at |-> s[i], value |-> first[i]]
                        \/ \E i \in 1 .. n : x = [at |-> s[i] + 4, value |-> second[i]]
                        \/ x = [at |-> s[n + 1], value |-> 0]
  <2> TAKE x \in {w, v}
  <2>1. /\ \A i \in 1 .. n : /\ s[i] = Start(on, blocks, i)
                            /\ first[i] = blocks[i][1] /\ second[i] = Second(blocks[i])
        /\ s[n + 1] = Start(on, blocks, n + 1)
    OBVIOUS
  <2> HIDE DEF s, first, second
  <2>2. x \in Words(on, blocks)
    OBVIOUS
  <2>3. \/ \E i \in 1 .. n : x = [at |-> Start(on, blocks, i), value |-> blocks[i][1]]
        \/ \E i \in 1 .. n : x = [at |-> Start(on, blocks, i) + 4, value |-> Second(blocks[i])]
        \/ x = [at |-> Start(on, blocks, n + 1), value |-> 0]
    BY <2>2, WordsAre, Zenon
  <2> QED
    BY <2>1, <2>3, Zenon
<1> HIDE DEF s, first, second
<1>3. ASSUME NEW i \in 1 .. n + 1, NEW j \in 1 .. n + 1, i # j
      PROVE  s[i] # s[j] /\ s[i] + 4 # s[j] /\ s[i] + 4 # s[j] + 4 /\ s[i] # s[j] + 4
  <2>1. s[i] \in Nat /\ s[j] \in Nat
    BY <1>1
  <2>2. ASSUME NEW h \in 1 .. n + 1, NEW k \in 1 .. n + 1, h < k PROVE s[h] + 8 < s[k]
    <3>1. h \in 1 .. n /\ h + 1 \in 1 .. n + 1 /\ h + 1 <= k
      BY <2>2
    <3>2. s[h] + 8 < s[h + 1] /\ s[h + 1] <= s[k] /\ s[h + 1] \in Nat /\ s[h] \in Nat /\ s[k] \in Nat
      BY <1>1, <3>1
    <3> QED
      BY <3>2
  <2>3. i < j \/ j < i
    BY <1>3
  <2>4. s[i] + 8 < s[j] \/ s[j] + 8 < s[i]
    BY <2>2, <2>3
  <2> QED
    BY <2>1, <2>4, Apart
<1>4. \A i \in 1 .. n + 1 : s[i] # s[i] + 4
  BY <1>1
<1>5. \A i \in 1 .. n : i \in 1 .. n + 1 /\ i # n + 1
  OBVIOUS
<1>6. n + 1 \in 1 .. n + 1
  OBVIOUS
<1> DEFINE Is1(x, i) == x = [at |-> s[i], value |-> first[i]]
           Is2(x, i) == x = [at |-> s[i] + 4, value |-> second[i]]
           Is3(x) == x = [at |-> s[n + 1], value |-> 0]
<1>7. \A x \in {w, v} : Is3(x) \/ \E i \in 1 .. n : Is1(x, i) \/ Is2(x, i)
  BY <1>2
<1>8. ASSUME NEW i \in 1 .. n, NEW j \in 1 .. n, Is1(w, i) \/ Is2(w, i), Is1(v, j) \/ Is2(v, j)
      PROVE  w = v
  <2>1. w.at \in {s[i], s[i] + 4} /\ v.at \in {s[j], s[j] + 4}
    BY <1>8
  <2>2. i = j
    BY <1>3, <1>5, <2>1
  <2> QED
    BY <1>4, <1>5, <1>8, <2>2
<1>9. ASSUME NEW i \in 1 .. n, NEW x, NEW y, Is1(x, i) \/ Is2(x, i), Is3(y) PROVE x.at # y.at
  <2>1. x.at \in {s[i], s[i] + 4} /\ y.at = s[n + 1]
    BY <1>9
  <2> QED
    BY <1>3, <1>5, <1>6, <2>1
<1>10. CASE Is3(w) /\ Is3(v)
  BY <1>10
<1> HIDE DEF Is1, Is2, Is3
<1> QED
  BY <1>7, <1>8, <1>9, <1>10

-----------------------------------------------------------------------------
(* What walking such a file from block to block meets *)

(* Where the walk is when it has met k blocks. *)
Following(k) == IF k = 0 THEN HeaderLen ELSE AfterBlock(file.starts[k])

Walkable ==
    /\ file.starts \in Seq(Nat)
    /\ \A k \in 0 .. Len(file.starts) :
        /\ BlockHere(Following(k)) =>
                k < Len(file.starts) /\ file.starts[k + 1] = Following(k)
        /\ EndHere(Following(k)) => file.whole /\ k = Len(file.starts)
        /\ file.whole /\ k < Len(file.starts) =>
                BlockHere(Following(k)) /\ AfterBlock(Following(k)) <= file.len
        /\ file.whole /\ k = Len(file.starts) => EndHere(Following(k))

(* How many blocks begin with both lengths in front of len. *)
LEMMA Begun ==
    ASSUME NEW n \in Nat, NEW s, NEW len \in Nat,
           \A i \in 1 .. n : s[i] \in Nat,
           \A i, j \in 1 .. n : i <= j => s[i] <= s[j]
    PROVE  \E k \in 0 .. n : \A i \in 1 .. n : i <= k <=> s[i] + 8 <= len
<1> DEFINE K == {k \in 0 .. n : \A i \in 1 .. n : k < i => ~(s[i] + 8 <= len)}
<1>1. n \in K
  OBVIOUS
<1>2. PICK k \in K : \A m \in K : k <= m
  <2>1. K \subseteq Nat /\ K # {}
    BY <1>1, SMTT(20)
  <2> HIDE DEF K
  <2> QED
    BY <2>1, Least
<1>3. ASSUME NEW i \in 1 .. n, i <= k PROVE s[i] + 8 <= len
  <2> SUFFICES ASSUME ~(s[i] + 8 <= len) PROVE FALSE
    OBVIOUS
  <2>1. i - 1 \in 0 .. n /\ k \in 0 .. n
    OBVIOUS
  <2>2. ASSUME NEW j \in 1 .. n, i - 1 < j PROVE ~(s[j] + 8 <= len)
    <3>1. i <= j
      BY <2>2
    <3>2. s[i] <= s[j] /\ s[i] \in Nat /\ s[j] \in Nat
      BY <3>1
    <3> QED
      BY <3>2
  <2>3. i - 1 \in K
    BY <2>1, <2>2
  <2>4. k <= i - 1
    BY <1>2, <2>3
  <2> QED
    BY <1>3, <2>1, <2>4
<1>4. \A i \in 1 .. n : i <= k <=> s[i] + 8 <= len
  <2> TAKE i \in 1 .. n
  <2>1. k \in 0 .. n /\ (k < i => ~(s[i] + 8 <= len))
    OBVIOUS
  <2> QED
    BY <1>3, <2>1
<1> QED
  BY <1>4

LEMMA LayoutIsWalkable ==
    ASSUME NEW on \in SUBSET AllNames, NEW n \in Nat, NEW blocks \in [1 .. n -> Pairs],
           NEW missing \in Nat, file = Layout(on, blocks, missing)
    PROVE  Walkable
<1> DEFINE s == [i \in 1 .. n + 1 |-> Start(on, blocks, i)]
           first == [i \in 1 .. n |-> blocks[i][1]]
           second == [i \in 1 .. n |-> Second(blocks[i])]
           skipped == [i \in 1 .. n |-> Cardinality(Skipped(on, blocks[i]))]
           size == s[n + 1] + 4
           len == IF missing < size THEN size - missing ELSE 0
           Good(k) == \A i \in 1 .. n : i <= k <=> s[i] + 8 <= len
           begun == CHOOSE k \in 0 .. n : Good(k)
<1>1. /\ DOMAIN blocks = 1 .. n /\ Len(blocks) = n
      /\ n + 1 \in 1 .. n + 1
      /\ \A i \in 1 .. n : IsSize(blocks[i]) /\ i \in 1 .. n + 1 /\ i + 1 \in 1 .. n + 1
  BY DEF IsSize
<1>2. /\ s[1] = HeaderLen
      /\ \A i \in 1 .. n + 1 : s[i] \in Nat
      /\ \A i \in 1 .. n : s[i + 1] = s[i] + 8 + 4 * skipped[i] + second[i]
      /\ \A i, j \in 1 .. n + 1 : i <= j => s[i] <= s[j]
  <2>1. 1 \in 1 .. n + 1
    OBVIOUS
  <2>2. ASSUME NEW i \in 1 .. n PROVE s[i + 1] = s[i] + 8 + 4 * skipped[i] + second[i]
    <3>1. Start(on, blocks, i + 1) = Start(on, blocks, i) + BlockBytes(on, blocks[i])
      BY Starts
    <3>2. BlockBytes(on, blocks[i]) = 8 + 4 * Cardinality(Skipped(on, blocks[i])) + Second(blocks[i])
      BY <1>1, BlockBytesAre
    <3>3. Start(on, blocks, i) \in Nat /\ Cardinality(Skipped(on, blocks[i])) \in Nat /\ Second(blocks[i]) \in Nat
      BY <1>1, BlockBytesAre, Starts
    <3> QED
      BY <1>1, <3>1, <3>2, <3>3
  <2> QED
    BY <2>1, <2>2, Starts
<1>3. \A i \in 1 .. n : first[i] \in Nat \ {0} /\ second[i] \in Nat \ {0} /\ skipped[i] \in Nat
  <2>1. \A i \in 1 .. n : Second(blocks[i]) \in Nat \ {0} /\ Cardinality(Skipped(on, blocks[i])) \in Nat
    BY <1>1, BlockBytesAre
  <2>2. \A i \in 1 .. n : blocks[i][1] \in Nat \ {0}
    BY DEF Pairs
  <2> QED
    BY <2>1, <2>2
<1>4. \A i \in 1 .. n : /\ first[i] = second[i] => skipped[i] = Cardinality(on \cap DNames)
                        /\ first[i] # second[i] => skipped[i] = Cardinality(on)
  <2> TAKE i \in 1 .. n
  <2>1. blocks[i][1] \in Nat /\ blocks[i][2] \in Nat
    BY DEF Pairs
  <2> QED
    BY <2>1 DEF Second, Skipped
<1>5. /\ file.flags = on /\ file.len = len /\ file.whole = (missing = 0)
      /\ file.ints = {w \in Words(on, blocks) : w.at + 4 <= len}
      /\ file.starts = [i \in 1 .. begun |-> Start(on, blocks, i)]
  <2>1. Start(on, blocks, Len(blocks) + 1) = s[n + 1]
    BY <1>1
  <2>2. begun = CHOOSE k \in 0 .. Len(blocks) :
                    \A i \in DOMAIN blocks : i <= k <=> Start(on, blocks, i) + 8 <= len
    <3>1. \A i \in 1 .. n : s[i] = Start(on, blocks, i)
      BY <1>1
    <3> HIDE DEF s, len
    <3>2. \A k \in 0 .. n : Good(k) <=> \A i \in 1 .. n : i <= k <=> Start(on, blocks, i) + 8 <= len
      BY <3>1
    <3> QED
      BY <1>1, <3>2
  <2> HIDE DEF begun, s
  <2> QED
    BY <2>1, <2>2 DEF Layout
<1>6. len \in Nat /\ size \in Nat
  BY <1>1, <1>2
<1>7. begun \in 0 .. n /\ Good(begun)
  <2>1. (\A i \in 1 .. n : s[i] \in Nat) /\ (\A i, j \in 1 .. n : i <= j => s[i] <= s[j])
    BY <1>1, <1>2
  <2> HIDE DEF s, len
  <2>2. \E k \in 0 .. n : Good(k)
    BY <1>6, <2>1, Begun
  <2> HIDE DEF Good
  <2> QED
    BY <2>2
<1>8. \A w \in Words(on, blocks) :
        \/ \E i \in 1 .. n : w = [at |-> s[i], value |-> first[i]]
        \/ \E i \in 1 .. n : w = [at |-> s[i] + 4, value |-> second[i]]
        \/ w = [at |-> s[n + 1], value |-> 0]
  <2> TAKE w \in Words(on, blocks)
  <2>1. /\ \A i \in 1 .. n : /\ s[i] = Start(on, blocks, i)
                            /\ first[i] = blocks[i][1] /\ second[i] = Second(blocks[i])
        /\ s[n + 1] = Start(on, blocks, n + 1)
    BY <1>1
  <2> HIDE DEF s, first, second
  <2>2. \/ \E i \in 1 .. n : w = [at |-> Start(on, blocks, i), value |-> blocks[i][1]]
        \/ \E i \in 1 .. n : w = [at |-> Start(on, blocks, i) + 4, value |-> Second(blocks[i])]
        \/ w = [at |-> Start(on, blocks, n + 1), value |-> 0]
    BY WordsAre, Zenon
  <2> QED
    BY <2>1, <2>2, ZenonT(40)
<1>9. /\ \A i \in 1 .. n : [at |-> s[i], value |-> first[i]] \in Words(on, blocks)
      /\ \A i \in 1 .. n : [at |-> s[i] + 4, value |-> second[i]] \in Words(on, blocks)
      /\ [at |-> s[n + 1], value |-> 0] \in Words(on, blocks)
  <2>1. /\ \A i \in 1 .. n : /\ s[i] = Start(on, blocks, i)
                            /\ first[i] = blocks[i][1] /\ second[i] = Second(blocks[i])
        /\ s[n + 1] = Start(on, blocks, n + 1)
    BY <1>1
  <2> HIDE DEF s, first, second
  <2> QED
    BY <2>1, WordsThere, Zenon
<1>10. \A w, v \in Words(on, blocks) : w.at = v.at => w = v
  BY WordsDiffer
<1> HIDE DEF s, first, second, skipped, len, begun, size
(* Reading a word of the file. *)
<1>11. ASSUME NEW w \in Words(on, blocks)
       PROVE  /\ IsInt(w.at) <=> w.at + 4 <= len
              /\ IsInt(w.at) => ReadInt(w.at) = w.value
  <2>1. IsInt(w.at) => w.at + 4 <= len
    BY <1>5 DEF IsInt
  <2>2. w.at + 4 <= len => w \in file.ints
    BY <1>5
  <2>3. w \in file.ints => IsInt(w.at)
    BY DEF IsInt
  <2>4. ASSUME w \in file.ints PROVE ReadInt(w.at) = w.value
    <3>1. \A v \in file.ints : v.at = w.at => v = w
      BY <1>5, <1>10
    <3>2. (CHOOSE v \in file.ints : v.at = w.at) = w
      BY <2>4, <3>1
    <3> QED
      BY <3>2 DEF ReadInt
  <2> QED
    BY <2>1, <2>2, <2>3, <2>4
<1>12. Len(file.starts) = begun /\ file.starts \in Seq(Nat) /\ \A k \in 1 .. begun : file.starts[k] = s[k]
  <2>1. \A k \in 1 .. begun : k \in 1 .. n + 1 /\ s[k] \in Nat /\ s[k] = Start(on, blocks, k)
    BY <1>2, <1>7 DEF s
  <2>2. file.starts \in [1 .. begun -> Nat] /\ begun \in Nat
    BY <1>5, <1>7, <2>1, SMTT(20)
  <2>3. \A k \in 1 .. begun : file.starts[k] = s[k]
    BY <1>5, <2>1
  <2> QED
    BY <2>2, <2>3
(* The words of a block. *)
<1>13. ASSUME NEW i \in 1 .. n
       PROVE  /\ IsInt(s[i]) <=> s[i] + 4 <= len
              /\ IsInt(s[i]) => ReadInt(s[i]) = first[i]
              /\ IsInt(s[i] + 4) <=> s[i] + 8 <= len
              /\ IsInt(s[i] + 4) => ReadInt(s[i] + 4) = second[i]
  <2> DEFINE w == [at |-> s[i], value |-> first[i]]
             v == [at |-> s[i] + 4, value |-> second[i]]
  <2>1. w \in Words(on, blocks) /\ v \in Words(on, blocks)
    BY <1>9
  <2>2. w.at = s[i] /\ w.value = first[i] /\ v.at = s[i] + 4 /\ v.value = second[i]
    OBVIOUS
  <2>3. s[i] \in Nat /\ (s[i] + 4) + 4 = s[i] + 8
    BY <1>1, <1>2
  <2> HIDE DEF w, v
  <2>4. /\ IsInt(w.at) <=> w.at + 4 <= len
        /\ IsInt(w.at) => ReadInt(w.at) = w.value
        /\ IsInt(v.at) <=> v.at + 4 <= len
        /\ IsInt(v.at) => ReadInt(v.at) = v.value
    BY <1>11, <2>1
  <2> QED
    BY <2>2, <2>3, <2>4
<1>14. /\ IsInt(s[n + 1]) <=> s[n + 1] + 4 <= len
       /\ IsInt(s[n + 1]) => ReadInt(s[n + 1]) = 0
  <2> DEFINE w == [at |-> s[n + 1], value |-> 0]
  <2>1. w \in Words(on, blocks)
    BY <1>9
  <2>2. w.at = s[n + 1] /\ w.value = 0
    OBVIOUS
  <2> HIDE DEF w
  <2>3. /\ IsInt(w.at) <=> w.at + 4 <= len
        /\ IsInt(w.at) => ReadInt(w.at) = w.value
    BY <1>11, <2>1
  <2> QED
    BY <2>2, <2>3
<1>15. ASSUME NEW i \in 1 .. n, i <= begun PROVE AfterBlock(s[i]) = s[i + 1]
  <2>1. s[i] + 8 <= len /\ s[i] \in Nat
    BY <1>1, <1>2, <1>7, <1>15
  <2>2. IsInt(s[i]) /\ IsInt(s[i] + 4) /\ ReadInt(s[i]) = first[i] /\ ReadInt(s[i] + 4) = second[i]
    BY <1>6, <1>13, <2>1
  <2>3. Skip(s[i]) = 4 * skipped[i]
    <3>1. skipped[i] = IF first[i] = second[i] THEN Cardinality(on \cap DNames) ELSE Cardinality(on)
      BY <1>4
    <3>2. Skip(s[i]) = 4 * Cardinality(IF first[i] = second[i] THEN on \cap DNames ELSE on)
      BY <1>5, <2>2 DEF Skip, DNames
    <3> QED
      BY <3>1, <3>2
  <2>4. s[i + 1] = s[i] + 8 + 4 * skipped[i] + second[i]
    BY <1>2
  <2>5. skipped[i] \in Nat /\ second[i] \in Nat
    BY <1>3
  <2> QED
    BY <2>1, <2>2, <2>3, <2>4, <2>5, SMTT(20) DEF AfterBlock
<1>16. ASSUME NEW k \in 0 .. begun PROVE Following(k) = s[k + 1]
  <2>1. CASE k = 0
    BY <1>2, <2>1 DEF Following
  <2>2. CASE k # 0
    <3>1. k \in 1 .. n /\ k <= begun /\ k \in 1 .. begun
      BY <1>7, <2>2
    <3>2. file.starts[k] = s[k] /\ AfterBlock(s[k]) = s[k + 1]
      BY <1>12, <1>15, <3>1
    <3> QED
      BY <2>2, <3>2 DEF Following
  <2> QED
    BY <2>1, <2>2
<1>17. missing = 0 => begun = n /\ len = s[n + 1] + 4 /\ \A i \in 1 .. n : s[i] + 8 <= len
  <2> SUFFICES ASSUME missing = 0 PROVE begun = n /\ len = s[n + 1] + 4 /\ \A i \in 1 .. n : s[i] + 8 <= len
    OBVIOUS
  <2>1. len = s[n + 1] + 4 /\ s[n + 1] \in Nat
    BY <1>1, <1>2 DEF len, size
  <2>2. ASSUME NEW i \in 1 .. n PROVE s[i] + 8 <= len
    <3>1. s[i] \in Nat /\ s[i + 1] \in Nat /\ s[i + 1] <= s[n + 1]
      <4>1. i + 1 <= n + 1
        OBVIOUS
      <4> QED
        BY <1>1, <1>2, <4>1
    <3>2. s[i] + 8 <= s[i + 1]
      <4>1. s[i + 1] = s[i] + 8 + 4 * skipped[i] + second[i] /\ skipped[i] \in Nat /\ second[i] \in Nat
        BY <1>2, <1>3
      <4> DEFINE a == s[i]
                 b == s[i + 1]
                 c == skipped[i]
                 d == second[i]
      <4>2. a \in Nat /\ b = a + 8 + 4 * c + d /\ c \in Nat /\ d \in Nat
        BY <3>1, <4>1
      <4> HIDE DEF a, b, c, d
      <4>3. a + 8 <= b
        BY <4>2
      <4> QED
        BY <4>3 DEF a, b
    <3> QED
      BY <2>1, <3>1, <3>2, SMTT(20)
  <2>3. begun = n
    <3>1. CASE n = 0
      BY <1>7, <3>1
    <3>2. CASE n # 0
      <4>1. n \in 1 .. n
        BY <3>2
      <4>2. n <= begun
        BY <1>7, <2>2, <4>1
      <4> QED
        BY <1>7, <4>2
    <3> QED
      BY <3>1, <3>2
  <2> QED
    BY <2>1, <2>2, <2>3
<1>18. ASSUME NEW k \in 0 .. begun
       PROVE  /\ BlockHere(s[k + 1]) => k < begun
              /\ EndHere(s[k + 1]) => missing = 0 /\ k = begun
              /\ missing = 0 /\ k < begun =>
                    BlockHere(s[k + 1]) /\ AfterBlock(s[k + 1]) <= file.len
              /\ missing = 0 /\ k = begun => EndHere(s[k + 1])
  <2>1. CASE k < n
    <3> DEFINE i == k + 1
    <3>1. i \in 1 .. n /\ i - 1 = k /\ i + 1 \in 1 .. n + 1
      BY <1>7, <2>1
    <3> HIDE DEF i
    <3>2. BlockHere(s[i]) <=> s[i] + 4 <= len /\ s[i] + 8 <= len
      BY <1>3, <1>13, <3>1 DEF BlockHere
    <3>3. ~EndHere(s[i])
      BY <1>3, <1>13, <3>1 DEF EndHere
    <3>4. s[i] + 8 <= len <=> i <= begun
      BY <1>7, <3>1
    <3>5. BlockHere(s[i]) => k < begun
      BY <1>7, <3>2, <3>4 DEF i
    <3>6. ASSUME missing = 0 PROVE BlockHere(s[i]) /\ AfterBlock(s[i]) <= file.len
      <4>1. begun = n /\ len = s[n + 1] + 4 /\ s[i] + 8 <= len /\ s[i] \in Nat
        BY <1>1, <1>2, <1>17, <3>1, <3>6
      <4>2. BlockHere(s[i])
        BY <1>6, <3>2, <4>1
      <4>3. AfterBlock(s[i]) = s[i + 1]
        BY <1>15, <3>1, <4>1
      <4>4. s[i + 1] <= s[n + 1] /\ s[i + 1] \in Nat /\ s[n + 1] \in Nat
        BY <1>1, <1>2, <3>1
      <4> QED
        BY <1>5, <4>1, <4>2, <4>3, <4>4
    <3>7. missing = 0 => k # begun
      BY <1>17, <2>1
    <3> QED
      BY <3>3, <3>5, <3>6, <3>7 DEF i
  <2>2. CASE k = n
    <3>1. begun = n
      BY <1>7, <2>2
    <3>2. ~BlockHere(s[n + 1])
      BY <1>14 DEF BlockHere
    <3>3. EndHere(s[n + 1]) <=> s[n + 1] + 4 <= len
      BY <1>14 DEF EndHere
    <3>4. s[n + 1] + 4 <= len <=> missing = 0
      <4>1. s[n + 1] \in Nat
        BY <1>1, <1>2
      <4> QED
        BY <4>1 DEF len, size
    <3> QED
      BY <2>2, <3>1, <3>2, <3>3, <3>4
  <2> QED
    BY <1>7, <2>1, <2>2
<1>19. ASSUME NEW k \in 0 .. begun, k < begun PROVE file.starts[k + 1] = s[k + 1]
  <2>1. k + 1 \in 1 .. begun
    BY <1>7, <1>19
  <2> QED
    BY <1>12, <2>1
<1>20. file.whole <=> missing = 0
  BY <1>5
<1>21. ASSUME NEW k \in 0 .. Len(file.starts)
       PROVE  /\ BlockHere(Following(k)) =>
                    k < Len(file.starts) /\ file.starts[k + 1] = Following(k)
              /\ EndHere(Following(k)) => file.whole /\ k = Len(file.starts)
              /\ file.whole /\ k < Len(file.starts) =>
                    BlockHere(Following(k)) /\ AfterBlock(Following(k)) <= file.len
              /\ file.whole /\ k = Len(file.starts) => EndHere(Following(k))
  <2>1. Len(file.starts) = begun
    BY <1>12
  <2>2. k \in 0 .. begun
    BY <2>1
  <2>3. Following(k) = s[k + 1]
    BY <1>16, <2>2
  <2> QED
    BY <1>18, <1>19, <1>20, <2>1, <2>2, <2>3
<1> QED
  BY <1>12, <1>21 DEF Walkable

-----------------------------------------------------------------------------
(* The invariant that holds whatever happens *)

(* What is written to a file are the positions of the first blocks.        *)
PrefixWritten(p) ==
    /\ Len(written[p]) <= Len(file.starts)
    /\ \A i \in 1 .. Len(written[p]) : written[p][i] = file.starts[i]

(* Where an indexer is, what it has written and where its input is.  One   *)
(* that is about to rename a file by its own doing has written all of it.  *)
Place(p) ==
    /\ PrefixWritten(p)
    /\ pc[p] \in {"start", "create", "deleteIndex", "setup"} => written[p] = << >>
    /\ pc[p] \in {"create", "deleteIndex", "setup", "walk"} => at[p] = Following(Len(written[p]))
    /\ pc[p] \in {"deleteIndex", "setup"} => BlockHere(at[p])
    /\ p \in open => pc[p] \in {"walk", "close", "cleanup"}
    /\ pc[p] \in {"close", "rename"} /\ (p \in Clients \/ p \notin threw) =>
            file.whole /\ written[p] = file.starts

Fields ==
    /\ tmp \in Indexers \cup {None} /\ index \in Indexers \cup {None}
    /\ written \in [Indexers -> Seq(Nat)]
    /\ open \subseteq Indexers
    /\ pc \in [Indexers -> {"start", "create", "deleteIndex", "setup", "walk", "close",
                            "cleanup", "delete", "rename", "done"}]
    /\ DOMAIN at = Indexers
    /\ failures \in Nat
    /\ threw \subseteq Indexers
    /\ overlapped \in BOOLEAN

JobField ==
    /\ DOMAIN job = {"pc", "len", "index"}
    /\ job.pc \in {"exists", "length", "read", "failed", "done"}
    /\ job.len \in Nat
    /\ job.pc = "done" =>
            /\ job.index \in Seq(Nat)
            /\ Len(job.index) <= Len(file.starts)
            /\ \A i \in 1 .. Len(job.index) : job.index[i] = file.starts[i]

Base ==
    /\ Walkable
    /\ Fields
    /\ JobField
    /\ \A p \in Indexers : Place(p)

(* As long as one works at a time, the temporary file is its own, and an   *)
(* index is the work of one that has ended.                                *)
AtWorkAlone ==
    ~overlapped =>
        /\ \A p, q \in Indexers : Active(p) /\ Active(q) => p = q
        /\ \A p \in Indexers : pc[p] \in {"walk", "close", "cleanup", "rename"} => tmp = p
        /\ index # None =>
                /\ pc[index] = "done"
                /\ index \notin Tasks \cap threw => file.whole /\ written[index] = file.starts

(* When nothing fails and the file is whole, an indexer whose file is      *)
(* there is at work on it or has written all of it.                        *)
Untroubled == failures = 0 /\ file.whole

AtWorkTogether ==
    Untroubled =>
        \A p \in Indexers :
            /\ pc[p] # "delete"
            /\ Alive(p) => pc[p] \in {"walk", "close", "rename", "done"}
            /\ Alive(p) /\ pc[p] \in {"close", "rename", "done"} => written[p] = file.starts

(* Only LzoIndexers: if there is no index yet, the temporary file will be. *)
ClientsAtWork ==
    Untroubled /\ (\A p \in Tasks : pc[p] = "start") /\ index = None
    /\ (\E p \in Clients : pc[p] \notin {"start", "create"}) =>
        tmp \in Clients /\ pc[tmp] \in {"walk", "close", "rename"}

-----------------------------------------------------------------------------

LEMMA StartsWalkable == IndexingAssumption /\ Init => Walkable
<1> SUFFICES ASSUME IndexingAssumption, Init PROVE Walkable
  OBVIOUS
<1>1. PICK on \in FlagSets, blocks \in Files, missing \in Missing :
        file = Layout(on, blocks, missing)
  BY DEF Init
<1>2. blocks \in Seq(Pairs)
  BY DEF IndexingAssumption, Pairs
<1>3. Len(blocks) \in Nat /\ blocks \in [1 .. Len(blocks) -> Pairs]
  BY <1>2
<1>4. on \in SUBSET AllNames /\ missing \in Nat
  BY DEF IndexingAssumption, AllNames
<1> QED
  BY <1>1, <1>3, <1>4, LayoutIsWalkable

LEMMA StartsBase == IndexingAssumption /\ Init => Base
<1> SUFFICES ASSUME IndexingAssumption, Init PROVE Base
  OBVIOUS
<1>1. Walkable
  BY StartsWalkable
<1>2. Fields
  <2>1. << >> \in Seq(Nat) /\ DOMAIN at = Indexers
    BY DEF Init
  <2> QED
    BY <2>1 DEF Init, Fields
<1>3. JobField
  BY DEF Init, JobField
<1>4. ASSUME NEW p \in Indexers PROVE Place(p)
  <2>1. pc[p] = "start" /\ written[p] = << >> /\ p \notin open
    BY DEF Init
  <2>2. Len(file.starts) \in Nat
    BY <1>1 DEF Walkable
  <2> QED
    BY <2>1, <2>2 DEF Place, PrefixWritten
<1> QED
  BY <1>1, <1>2, <1>3, <1>4 DEF Base

(* No step changes the file. *)
LEMMA FileSame ==
    ASSUME file' = file
    PROVE  /\ \A k : Following(k)' = Following(k)
           /\ \A k : BlockHere(k)' = BlockHere(k)
           /\ Walkable <=> Walkable'
<1>1. /\ \A k : IsInt(k)' = IsInt(k)
      /\ \A k : ReadInt(k)' = ReadInt(k)
  BY DEF IsInt, ReadInt
<1>2. /\ \A k : Skip(k)' = Skip(k)
      /\ \A k : BlockHere(k)' = BlockHere(k)
      /\ \A k : EndHere(k)' = EndHere(k)
  BY <1>1 DEF Skip, BlockHere, EndHere
<1>3. \A k : AfterBlock(k)' = AfterBlock(k)
  BY <1>1, <1>2 DEF AfterBlock
<1>4. \A k : Following(k)' = Following(k)
  BY <1>3 DEF Following
<1> QED
  BY <1>2, <1>3, <1>4 DEF Walkable

(* A step of one process leaves the others where they are. *)
LEMMA OneActs ==
    ASSUME Base, file' = file, job' = job, Fields',
           NEW p \in Indexers, Place(p)',
           \A q \in Indexers \ {p} :
                /\ pc'[q] = pc[q] /\ written'[q] = written[q] /\ at'[q] = at[q]
                /\ q \in open' => q \in open
                /\ q \in threw => q \in threw'
    PROVE  Base'
<1>1. Walkable'
  BY FileSame DEF Base
<1>2. JobField'
  BY DEF Base, JobField
<1>3. ASSUME NEW q \in Indexers \ {p} PROVE Place(q)'
  <2>1. Place(q)
    BY DEF Base
  <2>2. \A k : Following(k)' = Following(k) /\ BlockHere(k)' = BlockHere(k)
    BY FileSame
  <2>3. /\ pc'[q] = pc[q] /\ written'[q] = written[q] /\ at'[q] = at[q]
        /\ q \in open' => q \in open
        /\ q \in threw => q \in threw'
    OBVIOUS
  <2> QED
    BY <2>1, <2>2, <2>3 DEF Place, PrefixWritten
<1>4. \A q \in Indexers : Place(q)'
  BY <1>3
<1> QED
  BY <1>1, <1>2, <1>4 DEF Base

(* The labels at which an indexer has written nothing, or walks. *)
Before == {"start", "create", "deleteIndex", "setup"}
Walking == {"create", "deleteIndex", "setup", "walk"}

(* A step that writes nothing. *)
Move(p, to) ==
    /\ to \in {"create", "deleteIndex", "setup", "walk", "close", "cleanup", "delete",
               "rename", "done"}
    /\ file' = file /\ job' = job /\ written' = written /\ at' = at
    /\ pc' = [pc EXCEPT ![p] = to]
    /\ tmp' \in Indexers \cup {None} /\ index' \in Indexers \cup {None}
    /\ open' \subseteq open \cup {p}
    /\ threw \subseteq threw' /\ threw' \subseteq Indexers
    /\ failures' \in Nat /\ overlapped' \in BOOLEAN
    /\ to \in Before => pc[p] \in Before
    /\ to \in Walking => pc[p] \in Walking
    /\ to \in {"deleteIndex", "setup"} => BlockHere(at[p])
    /\ p \in open' => to \in {"walk", "close", "cleanup"}
    /\ to \in {"close", "rename"} /\ (p \in Clients \/ p \notin threw') =>
            file.whole /\ written[p] = file.starts

LEMMA Moves ==
    ASSUME Base, NEW p \in Indexers, NEW to, Move(p, to)
    PROVE  Base'
<1>1. Fields
  BY DEF Base
<1>2. Fields'
  BY <1>1 DEF Fields, Move
<1>3. Place(p)'
  <2>1. Place(p)
    BY DEF Base
  <2>2. \A k : Following(k)' = Following(k) /\ BlockHere(k)' = BlockHere(k)
    BY FileSame DEF Move
  <2>3. pc'[p] = to
    BY <1>1 DEF Fields, Move
  <2> QED
    BY <2>1, <2>2, <2>3 DEF Place, PrefixWritten, Before, Walking, Move
<1>4. /\ \A q \in Indexers \ {p} :
            /\ pc'[q] = pc[q] /\ written'[q] = written[q] /\ at'[q] = at[q]
            /\ q \in open' => q \in open
            /\ q \in threw => q \in threw'
      /\ file' = file /\ job' = job
  BY <1>1 DEF Fields, Move
<1> QED
  BY <1>2, <1>3, <1>4, OneActs

(* A walk that finds the null word has met every block. *)
LEMMA NullWordMeansAll ==
    ASSUME Base, NEW p \in Indexers, pc[p] \in Walking, EndHere(at[p])
    PROVE  file.whole /\ written[p] = file.starts
<1>1. Place(p) /\ Walkable /\ Fields
  BY DEF Base
<1> DEFINE k == Len(written[p])
<1>2. at[p] = Following(k) /\ PrefixWritten(p)
  BY <1>1 DEF Place, Walking
<1>3. written[p] \in Seq(Nat) /\ file.starts \in Seq(Nat)
  BY <1>1 DEF Fields, Walkable
<1>4. k \in 0 .. Len(file.starts)
  BY <1>2, <1>3 DEF PrefixWritten
<1>5. file.whole /\ k = Len(file.starts)
  BY <1>1, <1>2, <1>4 DEF Walkable
<1>6. \A i \in 1 .. Len(written[p]) : written[p][i] = file.starts[i]
  BY <1>2 DEF PrefixWritten
<1> QED
  BY <1>3, <1>5, <1>6, SeqEqual

(* A position that is recorded is that of the next block. *)
LEMMA Records ==
    ASSUME Base, file' = file, job' = job, NEW p \in Indexers, pc[p] \in Walking,
           BlockHere(at[p]), Record(p, at[p], "walk"),
           tmp' \in Indexers \cup {None}, index' \in Indexers \cup {None},
           open' \subseteq Indexers, \A q \in open' : q # p => q \in open,
           threw' = threw, failures' = failures, overlapped' = overlapped
    PROVE  Base'
<1>1. Place(p) /\ Walkable /\ Fields
  BY DEF Base
<1>2. PICK k : k = Len(written[p])
  OBVIOUS
<1>3. at[p] = Following(k) /\ PrefixWritten(p)
  BY <1>2, <1>1 DEF Place, Walking
<1>4. written[p] \in Seq(Nat) /\ file.starts \in Seq(Nat)
  BY <1>1 DEF Fields, Walkable
<1>5. k \in 0 .. Len(file.starts)
  BY <1>2, <1>3, <1>4 DEF PrefixWritten
<1>6. k < Len(file.starts) /\ file.starts[k + 1] = at[p]
  BY <1>1, <1>3, <1>5 DEF Walkable
<1>7. at[p] \in Nat
  BY <1>4, <1>5, <1>6
<1>8. PICK w : w = Append(written[p], at[p])
  OBVIOUS
<1>9. /\ w \in Seq(Nat) /\ Len(w) = k + 1
      /\ \A i \in 1 .. k : w[i] = written[p][i]
      /\ w[k + 1] = at[p]
  BY <1>2, <1>4, <1>7, <1>8
<1>10. /\ written' = [written EXCEPT ![p] = w]
       /\ pc' = [pc EXCEPT ![p] = "walk"]
       /\ at' = [at EXCEPT ![p] = AfterBlock(at[p])]
  BY <1>8 DEF Record, Goto
<1>11. Fields'
  BY <1>1, <1>9, <1>10 DEF Fields
<1>12. /\ pc'[p] = "walk" /\ written'[p] = w /\ at'[p] = AfterBlock(at[p])
       /\ \A q \in Indexers \ {p} :
                pc'[q] = pc[q] /\ written'[q] = written[q] /\ at'[q] = at[q]
  BY <1>1, <1>10 DEF Fields
<1>13. Following(k + 1) = AfterBlock(at[p])
  BY <1>5, <1>6 DEF Following
<1>14. Place(p)'
  <2>1. Following(k + 1)' = AfterBlock(at[p])
    BY <1>13, FileSame
  <2>2. \A i \in 1 .. Len(w) : w[i] = file.starts[i]
    <3> TAKE i \in 1 .. Len(w)
    <3>1. i \in 1 .. k \/ i = k + 1
      BY <1>5, <1>9
    <3> QED
      BY <1>2, <1>3, <1>6, <1>9, <3>1 DEF PrefixWritten
  <2>3. Len(w) <= Len(file.starts)
    BY <1>4, <1>5, <1>6, <1>9
  <2>4. PrefixWritten(p)'
    BY <1>12, <2>2, <2>3 DEF PrefixWritten
  <2>5. at'[p] = Following(Len(written[p]))'
    BY <1>9, <1>12, <2>1
  <2> QED
    BY <1>12, <2>4, <2>5 DEF Place
<1> QED
  BY <1>11, <1>12, <1>14, OneActs

-----------------------------------------------------------------------------

LEMMA BeginKeepsBase ==
    ASSUME Base, NEW p \in Indexers, NEW needed \in BOOLEAN, Begin(p, needed)
    PROVE  Base'
<1>1. Fields /\ Place(p) /\ pc[p] = "start"
  BY DEF Base, Begin
<1>2. Fields'
  BY <1>1 DEF Fields, Begin, Goto
<1>3. /\ pc'[p] \in {"create", "done"} /\ written'[p] = written[p] /\ at'[p] = HeaderLen
      /\ \A q \in Indexers \ {p} :
            pc'[q] = pc[q] /\ written'[q] = written[q] /\ at'[q] = at[q]
      /\ open' = open /\ threw' = threw /\ file' = file /\ job' = job
  BY <1>1 DEF Fields, Begin, Goto
<1>4. written[p] = << >>
  BY <1>1 DEF Place
<1>5. Following(0)' = HeaderLen
  BY DEF Following, HeaderLen
<1>6. PrefixWritten(p)'
  <2>1. written'[p] = written[p] /\ file' = file /\ PrefixWritten(p)
    BY <1>1, <1>3 DEF Place
  <2> QED
    BY <2>1 DEF PrefixWritten
<1>7. at'[p] = Following(Len(written[p]))'
  BY <1>3, <1>4, <1>5
<1>8. Place(p)'
  BY <1>1, <1>3, <1>4, <1>6, <1>7 DEF Place
<1> QED
  BY <1>2, <1>3, <1>8, OneActs

LEMMA CrashKeepsBase ==
    ASSUME Base, NEW p \in Indexers, Crash(p)
    PROVE  Base'
<1>1. Fields /\ Place(p)
  BY DEF Base
<1>2. PICK k \in 0 .. Len(written[p]) : written' = [written EXCEPT ![p] = SubSeq(written[p], 1, k)]
  BY DEF Crash
<1>3. written[p] \in Seq(Nat)
  BY <1>1 DEF Fields
<1>4. PICK w : w = SubSeq(written[p], 1, k)
  OBVIOUS
<1>5. w \in Seq(Nat) /\ Len(w) = k /\ \A i \in 1 .. k : w[i] = written[p][i]
  BY <1>3, <1>4
<1>6. Fields'
  <2>1. written' \in [Indexers -> Seq(Nat)]
    BY <1>1, <1>2, <1>4, <1>5 DEF Fields
  <2> QED
    BY <1>1, <2>1 DEF Fields, Crash, Throws, Goto, Injected
<1>7. /\ pc'[p] = "done" /\ written'[p] = w /\ p \notin open'
      /\ \A q \in Indexers \ {p} :
            pc'[q] = pc[q] /\ written'[q] = written[q] /\ at'[q] = at[q]
      /\ open' \subseteq open /\ threw \subseteq threw' /\ file' = file /\ job' = job
  BY <1>1, <1>2, <1>4 DEF Fields, Crash, Throws, Goto
<1>8. PrefixWritten(p)'
  <2>1. PrefixWritten(p) /\ Len(written[p]) \in Nat /\ Len(file.starts) \in Nat
    BY <1>1, <1>3 DEF Place, Base, Walkable
  <2>2. k <= Len(file.starts) /\ \A i \in 1 .. k : w[i] = file.starts[i]
    <3>1. /\ Len(written[p]) <= Len(file.starts)
          /\ \A i \in 1 .. Len(written[p]) : written[p][i] = file.starts[i]
      BY <2>1 DEF PrefixWritten
    <3>2. k \in Nat /\ k <= Len(written[p])
      BY <2>1
    <3>3. \A i \in 1 .. k : i \in 1 .. Len(written[p])
      BY <2>1, <3>2
    <3>4. ASSUME NEW i \in 1 .. k PROVE w[i] = file.starts[i]
      <4>1. w[i] = written[p][i]
        BY <1>5
      <4>2. written[p][i] = file.starts[i]
        BY <3>1, <3>3
      <4> QED
        BY <4>1, <4>2
    <3>5. k <= Len(file.starts)
      BY <2>1, <3>1, <3>2
    <3> QED
      BY <3>4, <3>5
  <2>3. file' = file /\ written'[p] = w /\ Len(w) = k
    BY <1>5, <1>7
  <2> QED
    BY <2>2, <2>3 DEF PrefixWritten
<1>9. Place(p)'
  BY <1>7, <1>8 DEF Place
<1> QED
  BY <1>6, <1>7, <1>9, OneActs

LEMMA StepKeepsBase ==
    ASSUME IndexingAssumption, Base, NEW p \in Indexers, Step(p) \/ ClientCreateFails(p)
    PROVE  Base'
<1>1. Fields /\ Place(p) /\ p # None
  BY DEF Base, IndexingAssumption, Indexers
<1>2. CASE ClientCreate(p)
  <2>1. /\ file' = file /\ job' = job /\ written' = written /\ at' = at
        /\ overlapped' = overlapped /\ pc' = [pc EXCEPT ![p] = "walk"]
    BY <1>2 DEF ClientCreate, Created, Goto
  <2>2. /\ tmp' \in Indexers \cup {None} /\ index' \in Indexers \cup {None}
        /\ threw \subseteq threw' /\ threw' \subseteq Indexers /\ failures' \in Nat
    BY <1>1, <1>2 DEF ClientCreate, Created, Goto, Fields
  <2>3. open' \subseteq open \cup {p} /\ (p \in open' => "walk" \in {"walk", "close", "cleanup"})
    BY <1>1, <1>2 DEF ClientCreate, Created, Goto, Place
  <2>4. pc[p] \in Before /\ pc[p] \in Walking
    BY <1>1, <1>2 DEF ClientCreate, Before, Walking, Place
  <2>5. Move(p, "walk")
    BY <1>1, <2>1, <2>2, <2>3, <2>4 DEF Move, Fields, Before, Walking
  <2> QED
    BY <2>5, Moves
<1>3. CASE ClientCreateFails(p)
  <2>1. /\ file' = file /\ job' = job /\ written' = written /\ at' = at
        /\ overlapped' = overlapped /\ pc' = [pc EXCEPT ![p] = "delete"]
    BY <1>3 DEF ClientCreateFails, Injected, Goto
  <2>2. /\ tmp' \in Indexers \cup {None} /\ index' \in Indexers \cup {None}
        /\ threw \subseteq threw' /\ threw' \subseteq Indexers /\ failures' \in Nat
    BY <1>1, <1>3 DEF ClientCreateFails, Injected, Goto, Fields
  <2>3. open' \subseteq open \cup {p} /\ (p \in open' => "delete" \in {"walk", "close", "cleanup"})
    BY <1>1, <1>3 DEF ClientCreateFails, Injected, Goto, Place
  <2>4. Move(p, "delete")
    BY <1>1, <2>1, <2>2, <2>3 DEF Move, Fields, Before, Walking
  <2> QED
    BY <2>4, Moves
<1>4. CASE ClientWalkFails(p)
  <2>1. /\ file' = file /\ job' = job /\ written' = written /\ at' = at
        /\ overlapped' = overlapped /\ pc' = [pc EXCEPT ![p] = "cleanup"]
    BY <1>4 DEF ClientWalkFails, Injected, Goto
  <2>2. /\ tmp' \in Indexers \cup {None} /\ index' \in Indexers \cup {None}
        /\ threw \subseteq threw' /\ threw' \subseteq Indexers /\ failures' \in Nat
    BY <1>1, <1>4 DEF ClientWalkFails, Injected, Goto, Fields
  <2>3. open' \subseteq open \cup {p} /\ (p \in open' => "cleanup" \in {"walk", "close", "cleanup"})
    BY <1>1, <1>4 DEF ClientWalkFails, Injected, Goto, Place
  <2>4. Move(p, "cleanup")
    BY <1>1, <2>1, <2>2, <2>3 DEF Move, Fields, Before, Walking
  <2> QED
    BY <2>4, Moves
<1>5. CASE ClientDelete(p)
  <2>1. /\ file' = file /\ job' = job /\ written' = written /\ at' = at
        /\ overlapped' = overlapped /\ pc' = [pc EXCEPT ![p] = "done"]
    BY <1>5 DEF ClientDelete, Throws, Goto
  <2>2. /\ tmp' \in Indexers \cup {None} /\ index' \in Indexers \cup {None}
        /\ threw \subseteq threw' /\ threw' \subseteq Indexers /\ failures' \in Nat
    BY <1>1, <1>5 DEF ClientDelete, Throws, Goto, Fields
  <2>3. open' \subseteq open \cup {p} /\ (p \in open' => "done" \in {"walk", "close", "cleanup"})
    BY <1>1, <1>5 DEF ClientDelete, Throws, Goto, Place
  <2>4. Move(p, "done")
    BY <1>1, <2>1, <2>2, <2>3 DEF Move, Fields, Before, Walking
  <2> QED
    BY <2>4, Moves
<1>6. CASE ClientRename(p)
  <2>1. /\ file' = file /\ job' = job /\ written' = written /\ at' = at
        /\ overlapped' = overlapped /\ pc' = [pc EXCEPT ![p] = "done"]
    BY <1>6 DEF ClientRename, Renamed, Goto
  <2>2. /\ tmp' \in Indexers \cup {None} /\ index' \in Indexers \cup {None}
        /\ threw \subseteq threw' /\ threw' \subseteq Indexers /\ failures' \in Nat
    BY <1>1, <1>6 DEF ClientRename, Renamed, Goto, Fields
  <2>3. open' \subseteq open \cup {p} /\ (p \in open' => "done" \in {"walk", "close", "cleanup"})
    BY <1>1, <1>6 DEF ClientRename, Renamed, Goto, Place
  <2>4. Move(p, "done")
    BY <1>1, <2>1, <2>2, <2>3 DEF Move, Fields, Before, Walking
  <2> QED
    BY <2>4, Moves
<1>7. CASE TaskDeleteTmp(p)
  <2>1. /\ file' = file /\ job' = job /\ written' = written /\ at' = at
        /\ overlapped' = overlapped /\ pc' = [pc EXCEPT ![p] = "deleteIndex"]
    BY <1>7 DEF TaskDeleteTmp, Goto
  <2>2. /\ tmp' \in Indexers \cup {None} /\ index' \in Indexers \cup {None}
        /\ threw \subseteq threw' /\ threw' \subseteq Indexers /\ failures' \in Nat
    BY <1>1, <1>7 DEF TaskDeleteTmp, Goto, Fields
  <2>3. open' \subseteq open \cup {p} /\ (p \in open' => "deleteIndex" \in {"walk", "close", "cleanup"})
    BY <1>1, <1>7 DEF TaskDeleteTmp, Goto, Place
  <2>4. pc[p] \in Before /\ pc[p] \in Walking /\ BlockHere(at[p])
    BY <1>1, <1>7 DEF TaskDeleteTmp, Before, Walking, Place
  <2>5. Move(p, "deleteIndex")
    BY <1>1, <2>1, <2>2, <2>3, <2>4 DEF Move, Fields, Before, Walking
  <2> QED
    BY <2>5, Moves
<1>8. CASE TaskDeleteIndex(p)
  <2>1. /\ file' = file /\ job' = job /\ written' = written /\ at' = at
        /\ overlapped' = overlapped /\ pc' = [pc EXCEPT ![p] = "setup"]
    BY <1>8 DEF TaskDeleteIndex, Goto
  <2>2. /\ tmp' \in Indexers \cup {None} /\ index' \in Indexers \cup {None}
        /\ threw \subseteq threw' /\ threw' \subseteq Indexers /\ failures' \in Nat
    BY <1>1, <1>8 DEF TaskDeleteIndex, Goto, Fields
  <2>3. open' \subseteq open \cup {p} /\ (p \in open' => "setup" \in {"walk", "close", "cleanup"})
    BY <1>1, <1>8 DEF TaskDeleteIndex, Goto, Place
  <2>4. pc[p] \in Before /\ pc[p] \in Walking /\ BlockHere(at[p])
    BY <1>1, <1>8 DEF TaskDeleteIndex, Before, Walking, Place
  <2>5. Move(p, "setup")
    BY <1>1, <2>1, <2>2, <2>3, <2>4 DEF Move, Fields, Before, Walking
  <2> QED
    BY <2>5, Moves
<1>9. CASE TaskCreateRefused(p)
  <2>1. /\ file' = file /\ job' = job /\ written' = written /\ at' = at
        /\ overlapped' = overlapped /\ pc' = [pc EXCEPT ![p] = "done"]
    BY <1>9 DEF TaskCreateRefused, Throws, Goto
  <2>2. /\ tmp' \in Indexers \cup {None} /\ index' \in Indexers \cup {None}
        /\ threw \subseteq threw' /\ threw' \subseteq Indexers /\ failures' \in Nat
    BY <1>1, <1>9 DEF TaskCreateRefused, Throws, Goto, Fields
  <2>3. open' \subseteq open \cup {p} /\ (p \in open' => "done" \in {"walk", "close", "cleanup"})
    BY <1>1, <1>9 DEF TaskCreateRefused, Throws, Goto, Place
  <2>4. Move(p, "done")
    BY <1>1, <2>1, <2>2, <2>3 DEF Move, Fields, Before, Walking
  <2> QED
    BY <2>4, Moves
<1>10. CASE TaskRename(p)
  <2>1. /\ file' = file /\ job' = job /\ written' = written /\ at' = at
        /\ overlapped' = overlapped /\ pc' = [pc EXCEPT ![p] = "done"]
    BY <1>10 DEF TaskRename, Renamed, Goto
  <2>2. /\ tmp' \in Indexers \cup {None} /\ index' \in Indexers \cup {None}
        /\ threw \subseteq threw' /\ threw' \subseteq Indexers /\ failures' \in Nat
    BY <1>1, <1>10 DEF TaskRename, Renamed, Goto, Fields
  <2>3. open' \subseteq open \cup {p} /\ (p \in open' => "done" \in {"walk", "close", "cleanup"})
    BY <1>1, <1>10 DEF TaskRename, Renamed, Goto, Place
  <2>4. Move(p, "done")
    BY <1>1, <2>1, <2>2, <2>3 DEF Move, Fields, Before, Walking
  <2> QED
    BY <2>4, Moves
<1>11. CASE ClientWalkEnds(p) \/ TaskWalkEnds(p)
  <2>1. pc[p] \in Walking /\ EndHere(at[p])
    BY <1>11 DEF ClientWalkEnds, TaskWalkEnds, Walking
  <2>2. file.whole /\ written[p] = file.starts
    BY <2>1, NullWordMeansAll
  <2>3. PICK to \in {"close", "done"} : pc' = [pc EXCEPT ![p] = to] /\ (pc[p] = "walk" => to = "close")
    BY <1>11 DEF ClientWalkEnds, TaskWalkEnds, Goto
  <2>4. /\ file' = file /\ job' = job /\ written' = written /\ at' = at /\ tmp' = tmp /\ index' = index
        /\ open' = open /\ threw' = threw /\ failures' = failures /\ overlapped' = overlapped
    BY <1>11 DEF ClientWalkEnds, TaskWalkEnds
  <2>5. p \in open => to = "close"
    BY <1>1, <2>1, <2>3 DEF Place, Walking
  <2>6. Move(p, to)
    BY <1>1, <2>2, <2>3, <2>4, <2>5 DEF Move, Fields, Before, Walking
  <2> QED
    BY <2>6, Moves
<1>12. CASE ClientClose(p) \/ TaskClose(p)
  <2>1. PICK to \in {"rename", "delete", "done"} :
            /\ pc' = [pc EXCEPT ![p] = to]
            /\ to = "rename" => pc[p] = "close"
    BY <1>12 DEF ClientClose, TaskClose, Goto, Throws
  <2>2. /\ file' = file /\ job' = job /\ written' = written /\ at' = at /\ tmp' = tmp /\ index' = index
        /\ open' = open \ {p} /\ failures' = failures /\ overlapped' = overlapped
        /\ threw \subseteq threw' /\ threw' \subseteq threw \cup {p}
    BY <1>12 DEF ClientClose, TaskClose, Throws
  <2>3. to = "rename" /\ (p \in Clients \/ p \notin threw') => file.whole /\ written[p] = file.starts
    BY <1>1, <2>1, <2>2 DEF Place
  <2>4. Move(p, to)
    BY <1>1, <2>1, <2>2, <2>3 DEF Move, Fields, Before, Walking
  <2> QED
    BY <2>4, Moves
<1>13. CASE TaskFails(p)
  <2>1. PICK to \in {"close", "done"} :
            pc' = [pc EXCEPT ![p] = to] /\ (p \in open' => to = "close")
    BY <1>1, <1>13 DEF TaskFails, Goto
  <2>2. /\ file' = file /\ job' = job /\ written' = written /\ at' = at /\ tmp' = tmp /\ index' = index
        /\ open' \subseteq open /\ failures' \in Nat /\ overlapped' = overlapped
        /\ threw' = threw \cup {p} /\ p \in Tasks
    BY <1>1, <1>13 DEF TaskFails, Injected, Fields
  <2>3. p \notin Clients
    BY <2>2 DEF IndexingAssumption
  <2>4. Move(p, to)
    BY <1>1, <2>1, <2>2, <2>3 DEF Move, Fields, Before, Walking
  <2> QED
    BY <2>4, Moves
<1>14. CASE ClientWalk(p)
  BY <1>1, <1>14, Records DEF ClientWalk, Fields, Walking
<1>15. CASE TaskWalk(p)
  BY <1>1, <1>15, Records DEF TaskWalk, Fields, Walking
<1>16. CASE TaskCreate(p)
  <2>1. pc[p] \in Walking /\ Record(p, at[p], "walk")
    BY <1>16 DEF TaskCreate, Walking
  <2>2. BlockHere(at[p])
    BY <1>1, <1>16 DEF TaskCreate, Place
  <2>3. file' = file /\ job' = job /\ threw' = threw /\ failures' = failures
        /\ overlapped' = overlapped
    BY <1>16 DEF TaskCreate
  <2>4. /\ tmp' \in Indexers \cup {None} /\ index' \in Indexers \cup {None}
        /\ open' \subseteq Indexers /\ \A q \in open' : q # p => q \in open
    BY <1>1, <1>16 DEF TaskCreate, Created, Fields
  <2> QED
    BY <1>1, <2>1, <2>2, <2>3, <2>4, Records
<1> QED
  BY <1>2, <1>3, <1>4, <1>5, <1>6, <1>7, <1>8, <1>9, <1>10, <1>11, <1>12, <1>13, <1>14, <1>15, <1>16 DEF Step

LEMMA JobKeepsBase == Base /\ (JobExists \/ JobLength \/ JobRead) => Base'
<1> SUFFICES ASSUME Base, JobExists \/ JobLength \/ JobRead PROVE Base'
  OBVIOUS
<1>1. /\ file' = file /\ written' = written /\ open' = open /\ pc' = pc /\ at' = at
      /\ failures' = failures /\ threw' = threw /\ overlapped' = overlapped
      /\ tmp' = tmp /\ index' = index
  BY DEF JobExists, JobLength, JobRead, JobStep
<1>2. Walkable' /\ Fields'
  BY <1>1, FileSame DEF Base, Fields
<1>3. ASSUME NEW p \in Indexers PROVE Place(p)'
  <2>1. Place(p)
    BY DEF Base
  <2>2. \A k : Following(k)' = Following(k) /\ BlockHere(k)' = BlockHere(k)
    BY <1>1, FileSame
  <2> QED
    BY <1>1, <2>1, <2>2 DEF Place, PrefixWritten
<1>4. JobField'
  <2>1. JobField /\ Fields /\ Walkable
    BY DEF Base
  <2>2. CASE JobExists
    BY <1>1, <2>1, <2>2 DEF JobExists, JobStep, JobField, Walkable
  <2>3. CASE JobLength
    <3>1. \A f \in Indexers : Visible(f) \subseteq Nat
      BY <2>1 DEF Visible, Fields
    <3> QED
      <4>1. \/ job' = [job EXCEPT !.pc = "failed"]
            \/ \E len \in Nat : job' = [job EXCEPT !.pc = "read", !.len = len]
        <5>1. CASE index = None
          BY <2>3, <5>1 DEF JobLength, JobStep
        <5>2. CASE index # None
          <6>1. PICK len \in Visible(index) : job' = [job EXCEPT !.pc = "read", !.len = len]
            BY <2>3, <5>2 DEF JobLength, JobStep
          <6>2. len \in Nat
            BY <2>1, <3>1, <5>2, <6>1 DEF Fields
          <6> QED
            BY <6>1, <6>2
        <5> QED
          BY <5>1, <5>2
      <4> QED
        BY <2>1, <4>1 DEF JobField
  <2>4. CASE JobRead
    <3>1. \/ job' = [job EXCEPT !.pc = "failed"]
          \/ index # None /\ \E seen \in Visible(index) :
                /\ ~(seen < job.len)
                /\ job' = [job EXCEPT !.pc = "done", !.index = SubSeq(written[index], 1, job.len)]
      BY <2>4 DEF JobRead, JobStep
    <3>2. CASE job' = [job EXCEPT !.pc = "failed"]
      BY <1>1, <2>1, <3>2 DEF JobField
    <3>3. CASE index # None /\ ~(job' = [job EXCEPT !.pc = "failed"])
      <4>1. PICK seen \in Visible(index) :
                /\ ~(seen < job.len)
                /\ job' = [job EXCEPT !.pc = "done", !.index = SubSeq(written[index], 1, job.len)]
        BY <3>1, <3>3
      <4>2. index \in Indexers /\ written[index] \in Seq(Nat) /\ PrefixWritten(index)
        BY <2>1, <3>3 DEF Fields, Base, Place
      <4>3. seen <= Len(written[index]) /\ seen \in Nat
        BY <4>2 DEF Visible
      <4>4. job.len \in Nat /\ job.len <= Len(written[index])
        BY <2>1, <4>1, <4>2, <4>3 DEF JobField
      <4>5. PICK s : s = SubSeq(written[index], 1, job.len)
        OBVIOUS
      <4>6. s \in Seq(Nat) /\ Len(s) = job.len /\ \A i \in 1 .. job.len : s[i] = written[index][i]
        BY <4>2, <4>4, <4>5
      <4>7. Len(file.starts) \in Nat
        BY <2>1 DEF Walkable
      <4>8. Len(s) <= Len(file.starts) /\ \A i \in 1 .. Len(s) : s[i] = file.starts[i]
        <5>1. Len(written[index]) \in Nat /\ Len(written[index]) <= Len(file.starts)
          BY <4>2 DEF PrefixWritten
        <5>2. Len(s) <= Len(file.starts)
          BY <4>4, <4>6, <4>7, <5>1
        <5>3. ASSUME NEW i \in 1 .. Len(s) PROVE s[i] = file.starts[i]
          <6>1. i \in 1 .. job.len /\ i \in 1 .. Len(written[index])
            BY <4>4, <4>6, <5>1
          <6> QED
            BY <4>2, <4>6, <6>1 DEF PrefixWritten
        <5> QED
          BY <5>2, <5>3
      <4>9. /\ job'.pc = "done" /\ job'.len = job.len /\ job'.index = s
            /\ DOMAIN job' = {"pc", "len", "index"}
        BY <2>1, <4>1, <4>5 DEF JobField
      <4> QED
        BY <1>1, <2>1, <4>6, <4>8, <4>9 DEF JobField
    <3> QED
      BY <3>1, <3>2, <3>3
  <2> QED
    BY <2>2, <2>3, <2>4
<1> QED
  BY <1>2, <1>3, <1>4 DEF Base

LEMMA StutterKeepsBase == Base /\ UNCHANGED vars => Base'
<1> SUFFICES ASSUME Base, UNCHANGED vars PROVE Base'
  OBVIOUS
<1>1. Walkable' /\ Fields' /\ JobField'
  BY FileSame DEF Base, Fields, JobField, vars
<1>2. ASSUME NEW p \in Indexers PROVE Place(p)'
  <2>1. Place(p)
    BY DEF Base
  <2>2. \A k : Following(k)' = Following(k) /\ BlockHere(k)' = BlockHere(k)
    BY FileSame DEF vars
  <2> QED
    BY <2>1, <2>2 DEF Place, PrefixWritten, vars
<1> QED
  BY <1>1, <1>2 DEF Base

LEMMA BaseIsInductive == IndexingAssumption /\ Base /\ [Next]_vars => Base'
<1> SUFFICES ASSUME IndexingAssumption, Base, [Next]_vars PROVE Base'
  OBVIOUS
<1>1. CASE UNCHANGED vars
  BY <1>1, StutterKeepsBase
<1>2. ASSUME NEW p \in Indexers, ClientBegin(p) \/ TaskBegin(p) PROVE Base'
  <2>1. PICK needed \in BOOLEAN : Begin(p, needed)
    BY <1>2 DEF ClientBegin, TaskBegin
  <2> QED
    BY <2>1, BeginKeepsBase
<1>3. ASSUME NEW p \in Indexers, Step(p) \/ ClientCreateFails(p) PROVE Base'
  BY <1>3, StepKeepsBase
<1>4. ASSUME NEW p \in Indexers, Crash(p) PROVE Base'
  BY <1>4, CrashKeepsBase
<1>5. CASE JobExists \/ JobLength \/ JobRead
  BY <1>5, JobKeepsBase
<1> QED
  BY <1>1, <1>2, <1>3, <1>4, <1>5 DEF Next

(* The invariant, for every number of indexers, file and failures: the     *)
(* walk of each indexer stands on a block or behind the last one, and its  *)
(* file holds the positions of the blocks it has passed.                   *)
THEOREM SpecBase == Spec => []Base
<1>1. Init => Base
  BY IndexingAssumption, StartsBase
<1>2. Base /\ [Next]_vars => Base'
  BY IndexingAssumption, BaseIsInductive
<1> QED
  BY <1>1, <1>2, PTL DEF Spec

(* What is at the index a job reads is, whatever the indexers are doing    *)
(* and whatever fails, the positions of the first blocks of the file: the  *)
(* places where getSplits may cut it.                                      *)
THEOREM JobsReadPrefixes == Spec => []JobReadsPrefix
<1>1. Base => JobReadsPrefix
  <2> SUFFICES ASSUME Base, job.pc = "done" PROVE IsPrefix(job.index, file.starts)
    BY DEF JobReadsPrefix
  <2>1. /\ job.index \in Seq(Nat) /\ file.starts \in Seq(Nat)
        /\ Len(job.index) <= Len(file.starts)
        /\ \A i \in 1 .. Len(job.index) : job.index[i] = file.starts[i]
    BY DEF Base, JobField, Walkable
  <2> DEFINE n == Len(job.index)
             s == SubSeq(job.index, 1, n)
             t == SubSeq(file.starts, 1, n)
  <2>2. n \in 0 .. Len(job.index) /\ n \in 0 .. Len(file.starts)
    BY <2>1
  <2> HIDE DEF n
  <2>3. s \in Seq(Nat) /\ Len(s) = n /\ \A i \in 1 .. n : s[i] = job.index[i]
    BY <2>1, <2>2, SMTT(20)
  <2>4. t \in Seq(Nat) /\ Len(t) = n /\ \A i \in 1 .. n : t[i] = file.starts[i]
    BY <2>1, <2>2
  <2> HIDE DEF s, t
  <2>5. \A i \in 1 .. n : job.index[i] = file.starts[i]
    BY <2>1 DEF n
  <2>6. s = t
    BY <2>3, <2>4, <2>5, SeqEqual
  <2> QED
    BY <2>1, <2>6 DEF s, t, n, IsPrefix
<1> QED
  BY <1>1, SpecBase, PTL

-----------------------------------------------------------------------------
(* One at a time *)

Acts(p) == Step(p) \/ ClientCreateFails(p) \/ Crash(p)

(* What a step of p has in common with every other: the others' files and  *)
(* labels stay, and p was at work.                                         *)
OnlyMine(p) ==
    /\ file' = file /\ overlapped' = overlapped
    /\ Active(p)
    /\ \A q \in Indexers \ {p} : pc'[q] = pc[q] /\ written'[q] = written[q]
    /\ threw \subseteq threw'

LEMMA ActsOnlyMine ==
    ASSUME Fields, NEW p \in Indexers, Acts(p)
    PROVE  OnlyMine(p)
<1>1. CASE ClientCreate(p)
  BY <1>1 DEF ClientCreate, Fields, OnlyMine, Active, Goto
<1>2. CASE ClientWalk(p)
  BY <1>2 DEF ClientWalk, Fields, OnlyMine, Active, Goto, Record
<1>3. CASE ClientWalkEnds(p)
  BY <1>3 DEF ClientWalkEnds, Fields, OnlyMine, Active, Goto
<1>4. CASE ClientWalkFails(p)
  BY <1>4 DEF ClientWalkFails, Fields, OnlyMine, Active, Goto
<1>5. CASE ClientClose(p)
  BY <1>5 DEF ClientClose, Fields, OnlyMine, Active, Goto, Throws
<1>6. CASE ClientDelete(p)
  BY <1>6 DEF ClientDelete, Fields, OnlyMine, Active, Goto, Throws
<1>7. CASE ClientRename(p)
  BY <1>7 DEF ClientRename, Fields, OnlyMine, Active, Goto
<1>8. CASE TaskDeleteTmp(p)
  BY <1>8 DEF TaskDeleteTmp, Fields, OnlyMine, Active, Goto
<1>9. CASE TaskDeleteIndex(p)
  BY <1>9 DEF TaskDeleteIndex, Fields, OnlyMine, Active, Goto
<1>10. CASE TaskCreate(p)
  BY <1>10 DEF TaskCreate, Fields, OnlyMine, Active, Goto, Record
<1>11. CASE TaskCreateRefused(p)
  BY <1>11 DEF TaskCreateRefused, Fields, OnlyMine, Active, Goto, Throws
<1>12. CASE TaskWalk(p)
  BY <1>12 DEF TaskWalk, Fields, OnlyMine, Active, Goto, Record
<1>13. CASE TaskWalkEnds(p)
  BY <1>13 DEF TaskWalkEnds, Fields, OnlyMine, Active, Goto
<1>14. CASE TaskFails(p)
  BY <1>14 DEF TaskFails, Fields, OnlyMine, Active, Goto
<1>15. CASE TaskClose(p)
  BY <1>15 DEF TaskClose, Fields, OnlyMine, Active, Goto, Throws
<1>16. CASE TaskRename(p)
  BY <1>16 DEF TaskRename, Fields, OnlyMine, Active, Goto
<1>17. CASE ClientCreateFails(p)
  BY <1>17 DEF ClientCreateFails, Fields, OnlyMine, Active, Goto
<1>18. CASE Crash(p)
  BY <1>18 DEF Crash, Fields, OnlyMine, Active, Goto, Throws
<1> QED
  BY <1>1, <1>2, <1>3, <1>4, <1>5, <1>6, <1>7, <1>8, <1>9, <1>10, <1>11, <1>12, <1>13, <1>14, <1>15, <1>16, <1>17, <1>18 DEF Acts, Step

LEMMA StartsAlone == Init => AtWorkAlone
BY DEF Init, AtWorkAlone, Active

LEMMA AloneActs ==
    ASSUME Fields, Fields', AtWorkAlone, ~overlapped, NEW p \in Indexers, OnlyMine(p), None \notin Indexers,
           pc'[p] \in {"walk", "close", "cleanup", "rename"} => tmp' = p,
           \/ index' \in {index, None}
           \/ /\ index' = p /\ pc'[p] = "done"
              /\ p \notin Tasks \cap threw' => file.whole /\ written'[p] = file.starts
    PROVE  AtWorkAlone'
<1>1. /\ \A q, r \in Indexers : Active(q) /\ Active(r) => q = r
      /\ \A q \in Indexers : pc[q] \in {"walk", "close", "cleanup", "rename"} => tmp = q
      /\ index # None =>
            /\ pc[index] = "done"
            /\ index \notin Tasks \cap threw => file.whole /\ written[index] = file.starts
  BY DEF AtWorkAlone
<1>2. \A q \in Indexers \ {p} : ~Active(q) /\ ~Active(q)'
  BY <1>1 DEF OnlyMine, Active
<1>3. \A q, r \in Indexers : Active(q)' /\ Active(r)' => q = r
  BY <1>2
<1>4. \A q \in Indexers : pc'[q] \in {"walk", "close", "cleanup", "rename"} => tmp' = q
  BY <1>2 DEF Active
<1>5. ASSUME index' # None
      PROVE  /\ pc'[index'] = "done"
             /\ index' \notin Tasks \cap threw' => file'.whole /\ written'[index'] = file'.starts
  <2>1. CASE index' = index
    <3>1. index \in Indexers /\ pc[index] = "done" /\ index # p
      BY <1>1, <1>5, <2>1 DEF Fields, OnlyMine, Active
    <3>2. pc'[index] = pc[index] /\ written'[index] = written[index]
      BY <3>1 DEF OnlyMine
    <3> QED
      BY <1>1, <1>5, <2>1, <3>1, <3>2 DEF OnlyMine
  <2>2. CASE index' # index
    BY <1>5, <2>2 DEF OnlyMine
  <2> QED
    BY <2>1, <2>2
<1> QED
  BY <1>3, <1>4, <1>5 DEF AtWorkAlone

LEMMA ActsAlone ==
    ASSUME IndexingAssumption, Base, Fields', AtWorkAlone, ~overlapped, NEW p \in Indexers, Acts(p)
    PROVE  AtWorkAlone'
<1>1. Fields /\ Place(p) /\ None \notin Indexers /\ OnlyMine(p)
  BY ActsOnlyMine DEF Base, IndexingAssumption, Indexers
<1> DEFINE Own == {"walk", "close", "cleanup", "rename"}
<1>2. pc[p] \in Own => tmp = p
  BY DEF AtWorkAlone
<1> DEFINE Good == (pc'[p] \in Own => tmp' = p) /\ index' \in {index, None}
<1>3. CASE ClientWalk(p)
  BY <1>1, <1>2, <1>3, AloneActs DEF ClientWalk, Record, Goto, Fields
<1>4. CASE ClientWalkEnds(p)
  BY <1>1, <1>2, <1>4, AloneActs DEF ClientWalkEnds, Goto, Fields
<1>5. CASE ClientWalkFails(p)
  BY <1>1, <1>2, <1>5, AloneActs DEF ClientWalkFails, Goto, Fields
<1>6. CASE ClientClose(p)
  BY <1>1, <1>2, <1>6, AloneActs DEF ClientClose, Goto, Throws, Fields
<1>7. CASE ClientDelete(p)
  BY <1>1, <1>2, <1>7, AloneActs DEF ClientDelete, Goto, Throws, Fields
<1>8. CASE TaskDeleteTmp(p)
  BY <1>1, <1>2, <1>8, AloneActs DEF TaskDeleteTmp, Goto, Fields
<1>9. CASE TaskDeleteIndex(p)
  BY <1>1, <1>2, <1>9, AloneActs DEF TaskDeleteIndex, Goto, Fields
<1>10. CASE TaskCreateRefused(p)
  BY <1>1, <1>2, <1>10, AloneActs DEF TaskCreateRefused, Goto, Throws, Fields
<1>11. CASE TaskWalk(p)
  BY <1>1, <1>2, <1>11, AloneActs DEF TaskWalk, Record, Goto, Fields
<1>12. CASE TaskWalkEnds(p)
  BY <1>1, <1>2, <1>12, AloneActs DEF TaskWalkEnds, Goto, Fields
<1>13. CASE TaskFails(p)
  <2>1. /\ tmp' = tmp /\ index' = index
        /\ pc'[p] = "done" \/ (pc[p] = "walk" /\ pc'[p] = "close")
    BY <1>1, <1>13 DEF TaskFails, Goto, Fields
  <2>2. pc'[p] \in Own => tmp' = p
    BY <1>2, <2>1
  <2> QED
    BY <1>1, <2>1, <2>2, AloneActs
<1>14. CASE TaskClose(p)
  BY <1>1, <1>2, <1>14, AloneActs DEF TaskClose, Goto, Throws, Fields
<1>15. CASE ClientCreateFails(p)
  BY <1>1, <1>2, <1>15, AloneActs DEF ClientCreateFails, Goto, Fields
<1>16. CASE Crash(p)
  BY <1>1, <1>2, <1>16, AloneActs DEF Crash, Goto, Throws, Fields
<1>17. CASE ClientCreate(p)
  BY <1>1, <1>2, <1>17, AloneActs DEF ClientCreate, Created, Goto, Fields
<1>18. CASE TaskCreate(p)
  BY <1>1, <1>2, <1>18, AloneActs DEF TaskCreate, Created, Record, Goto, Fields
<1>19. CASE ClientRename(p) \/ TaskRename(p)
  <2>1. pc[p] = "rename" /\ tmp = p /\ pc'[p] = "done" /\ written' = written /\ threw' = threw
    BY <1>1, <1>2, <1>19 DEF ClientRename, TaskRename, Goto, Fields
  <2>2. index' = index \/ index' = p
    BY <1>19, <2>1 DEF ClientRename, TaskRename, Renamed
  <2>3. p \notin Tasks \cap threw' => file.whole /\ written'[p] = file.starts
    <3>1. p \notin Tasks \cap threw => p \in Clients \/ p \notin threw
      BY DEF Indexers
    <3> QED
      BY <1>1, <2>1, <3>1 DEF Place
  <2> QED
    BY <1>1, <2>1, <2>2, <2>3, AloneActs
<1> QED
  BY <1>3, <1>4, <1>5, <1>6, <1>7, <1>8, <1>9, <1>10, <1>11, <1>12, <1>13, <1>14, <1>15, <1>16, <1>17, <1>18, <1>19 DEF Acts, Step

LEMMA BeginsAlone ==
    ASSUME Fields, AtWorkAlone, None \notin Indexers, NEW p \in Indexers, NEW needed \in BOOLEAN, Begin(p, needed)
    PROVE  AtWorkAlone'
<1> SUFFICES ASSUME ~overlapped' PROVE AtWorkAlone'
  BY DEF AtWorkAlone
<1>1. /\ ~overlapped /\ pc[p] = "start"
      /\ file' = file /\ written' = written /\ threw' = threw /\ tmp' = tmp /\ index' = index
      /\ pc'[p] = IF needed THEN "create" ELSE "done"
      /\ \A q \in Indexers \ {p} : pc'[q] = pc[q]
      /\ needed => \A q \in Indexers : ~Active(q)
  BY DEF Begin, Goto, Fields
<1>2. /\ \A q, r \in Indexers : Active(q) /\ Active(r) => q = r
      /\ \A q \in Indexers : pc[q] \in {"walk", "close", "cleanup", "rename"} => tmp = q
      /\ index # None =>
            /\ pc[index] = "done"
            /\ index \notin Tasks \cap threw => file.whole /\ written[index] = file.starts
  BY <1>1 DEF AtWorkAlone
<1>3. \A q, r \in Indexers : Active(q)' /\ Active(r)' => q = r
  BY <1>1, <1>2 DEF Active
<1>4. \A q \in Indexers : pc'[q] \in {"walk", "close", "cleanup", "rename"} => tmp' = q
  BY <1>1, <1>2
<1>5. index' # None =>
            /\ pc'[index'] = "done"
            /\ index' \notin Tasks \cap threw' => file'.whole /\ written'[index'] = file'.starts
  <2>1. index # None => index \in Indexers \ {p}
    BY <1>1, <1>2 DEF Fields
  <2> QED
    BY <1>1, <1>2, <2>1
<1> QED
  BY <1>3, <1>4, <1>5 DEF AtWorkAlone

LEMMA AloneIsInductive ==
    IndexingAssumption /\ Base /\ Base' /\ AtWorkAlone /\ [Next]_vars => AtWorkAlone'
<1> SUFFICES ASSUME IndexingAssumption, Base, Base', AtWorkAlone, [Next]_vars PROVE AtWorkAlone'
  OBVIOUS
<1>1. Fields /\ Fields' /\ None \notin Indexers
  BY DEF Base, IndexingAssumption, Indexers
<1>2. CASE UNCHANGED vars
  BY <1>2 DEF AtWorkAlone, Active, vars
<1>3. ASSUME NEW p \in Indexers, ClientBegin(p) \/ TaskBegin(p) PROVE AtWorkAlone'
  <2>1. PICK needed \in BOOLEAN : Begin(p, needed)
    BY <1>3 DEF ClientBegin, TaskBegin
  <2> QED
    BY <1>1, <2>1, BeginsAlone
<1>4. ASSUME NEW p \in Indexers, Acts(p) PROVE AtWorkAlone'
  <2>1. CASE overlapped
    <3>1. overlapped'
      BY <1>1, <1>4, <2>1, ActsOnlyMine DEF OnlyMine
    <3> QED
      BY <3>1 DEF AtWorkAlone
  <2>2. CASE ~overlapped
    BY <1>1, <1>4, <2>2, ActsAlone
  <2> QED
    BY <2>1, <2>2
<1>5. CASE JobExists \/ JobLength \/ JobRead
  <2>1. /\ file' = file /\ written' = written /\ threw' = threw /\ tmp' = tmp /\ index' = index
        /\ pc' = pc /\ overlapped' = overlapped
    BY <1>5 DEF JobExists, JobLength, JobRead, JobStep
  <2> QED
    BY <2>1 DEF AtWorkAlone, Active
<1> QED
  BY <1>2, <1>3, <1>4, <1>5 DEF Next, Acts

(* Indexers that run one at a time leave a complete index of a whole file, *)
(* whatever fails and wherever one of them dies, unless Hadoop closes the  *)
(* writer of a task that has failed.                                       *)
THEOREM AloneComplete == Spec => []AloneIsComplete
<1>1. Init => AtWorkAlone
  BY StartsAlone
<1>2. Base /\ Base' /\ AtWorkAlone /\ [Next]_vars => AtWorkAlone'
  BY IndexingAssumption, AloneIsInductive
<1>3. Base /\ AtWorkAlone => AloneIsComplete
  <2> SUFFICES ASSUME Base, AtWorkAlone, ~overlapped, index # None, ~(index \in Tasks /\ index \in threw)
               PROVE  file.whole /\ IsWhole(index)
    BY DEF AloneIsComplete
  <2>1. pc[index] = "done" /\ file.whole /\ written[index] = file.starts
    BY DEF AtWorkAlone
  <2>2. index \in Indexers /\ Place(index)
    BY DEF Base, Fields
  <2> QED
    BY <2>1, <2>2 DEF Place, IsWhole
<1> QED
  BY <1>1, <1>2, <1>3, SpecBase, PTL DEF Spec

(* A task that has deleted the index finds none until it renames its own.  *)
Deleted ==
    ~overlapped => \A p \in Tasks : pc[p] \in {"setup", "walk", "close", "rename"} => index = None

LEMMA StartsDeleted == IndexingAssumption /\ Init => Deleted
<1> SUFFICES ASSUME IndexingAssumption, Init PROVE Deleted
  OBVIOUS
<1>1. \A p \in Tasks : pc[p] = "start"
  BY DEF Init, Indexers
<1> QED
  BY <1>1 DEF Deleted

(* What the indexer at work does to its own place and to the index. *)
LEMMA ActsDeleted ==
    ASSUME IndexingAssumption, Base, AtWorkAlone, Deleted, ~overlapped, NEW p \in Indexers, Acts(p)
    PROVE  Deleted'
<1> DEFINE Behind == {"setup", "walk", "close", "rename"}
<1>1. Fields /\ OnlyMine(p) /\ Tasks \subseteq Indexers /\ Clients \cap Tasks = {}
  BY ActsOnlyMine DEF Base, IndexingAssumption, Indexers
<1>2. /\ \A q, r \in Indexers : Active(q) /\ Active(r) => q = r
      /\ \A q \in Tasks : pc[q] \in Behind => index = None
  BY DEF AtWorkAlone, Deleted
<1>3. \A q \in Tasks \ {p} : pc'[q] \notin Behind
  BY <1>1, <1>2 DEF OnlyMine, Active
<1>4. ASSUME p \in Tasks, pc'[p] \in Behind PROVE index' = None
  <2>1. CASE TaskDeleteTmp(p)
    BY <1>1, <1>4, <2>1 DEF TaskDeleteTmp, Goto, Fields
  <2>2. CASE TaskDeleteIndex(p)
    BY <2>2 DEF TaskDeleteIndex
  <2>3. CASE TaskCreate(p) \/ TaskWalk(p) \/ TaskClose(p)
    BY <1>2, <1>4, <2>3 DEF TaskCreate, TaskWalk, TaskClose
  <2>4. CASE TaskWalkEnds(p)
    BY <1>1, <1>2, <1>4, <2>4 DEF TaskWalkEnds, Goto, Fields
  <2>5. CASE TaskFails(p)
    BY <1>1, <1>2, <1>4, <2>5 DEF TaskFails, Goto, Fields
  <2>6. CASE TaskCreateRefused(p) \/ TaskRename(p) \/ Crash(p)
    BY <1>1, <1>4, <2>6 DEF TaskCreateRefused, TaskRename, Crash, Goto, Throws, Fields
  <2>7. ~(ClientCreate(p) \/ ClientWalk(p) \/ ClientWalkEnds(p) \/ ClientWalkFails(p)
          \/ ClientClose(p) \/ ClientDelete(p) \/ ClientRename(p) \/ ClientCreateFails(p))
    BY <1>1, <1>4 DEF ClientCreate, ClientWalk, ClientWalkEnds, ClientWalkFails,
       ClientClose, ClientDelete, ClientRename, ClientCreateFails
  <2> QED
    BY <2>1, <2>2, <2>3, <2>4, <2>5, <2>6, <2>7 DEF Acts, Step
<1> QED
  BY <1>3, <1>4 DEF Deleted

LEMMA DeletedIsInductive ==
    IndexingAssumption /\ Base /\ AtWorkAlone /\ Deleted /\ [Next]_vars => Deleted'
<1> SUFFICES ASSUME IndexingAssumption, Base, AtWorkAlone, Deleted, [Next]_vars PROVE Deleted'
  OBVIOUS
<1>1. Fields /\ Tasks \subseteq Indexers
  BY DEF Base, Indexers
<1>2. CASE UNCHANGED <<pc, index, overlapped>>
  BY <1>2 DEF Deleted
<1>3. ASSUME NEW p \in Indexers, ClientBegin(p) \/ TaskBegin(p) PROVE Deleted'
  <2>1. PICK needed \in BOOLEAN : Begin(p, needed)
    BY <1>3 DEF ClientBegin, TaskBegin
  <2>2. /\ index' = index /\ pc'[p] \in {"create", "done"}
        /\ \A q \in Indexers \ {p} : pc'[q] = pc[q]
        /\ overlapped => overlapped'
    BY <1>1, <2>1 DEF Begin, Goto, Fields
  <2> QED
    BY <1>1, <2>2 DEF Deleted
<1>4. ASSUME NEW p \in Indexers, Acts(p) PROVE Deleted'
  <2>1. CASE overlapped
    <3>1. overlapped'
      BY <1>1, <1>4, <2>1, ActsOnlyMine DEF OnlyMine
    <3> QED
      BY <3>1 DEF Deleted
  <2>2. CASE ~overlapped
    BY <1>4, <2>2, ActsDeleted
  <2> QED
    BY <2>1, <2>2
<1>5. CASE JobExists \/ JobLength \/ JobRead
  <2>1. UNCHANGED <<pc, index, overlapped>>
    BY <1>5 DEF JobExists, JobLength, JobRead, JobStep
  <2> QED
    BY <1>2, <2>1
<1> QED
  BY <1>2, <1>3, <1>4, <1>5 DEF Next, Acts, vars

(* A task that comes to its end without a failure leaves its own index,    *)
(* complete, whatever attempts before it have left: as long as one indexer *)
(* works at a time, and for any number of them.                            *)
THEOREM RetriesRepair == Spec => RetryRepairs
<1> DEFINE Repairs ==
        \A p \in Tasks :
            ~overlapped /\ pc[p] = "rename" /\ pc'[p] = "done" /\ p \notin threw' =>
                index' = p /\ file.whole /\ IsWhole(p)'
<1>1. Init => AtWorkAlone /\ Deleted
  BY IndexingAssumption, StartsAlone, StartsDeleted
<1>2. Base /\ Base' /\ AtWorkAlone /\ Deleted /\ [Next]_vars => (AtWorkAlone /\ Deleted)'
  BY IndexingAssumption, AloneIsInductive, DeletedIsInductive
<1>3. ASSUME Base, Base', AtWorkAlone, Deleted, [Next]_vars PROVE [Repairs]_vars
  <2> SUFFICES ASSUME Base, Base', AtWorkAlone, Deleted, [Next]_vars, NEW p \in Tasks,
                      ~overlapped, pc[p] = "rename", pc'[p] = "done", p \notin threw'
               PROVE  index' = p /\ file.whole /\ IsWhole(p)'
    BY <1>3
  <2>1. p \in Indexers /\ p # None /\ p \notin Clients
    BY IndexingAssumption DEF IndexingAssumption, Indexers
  <2>2. Fields /\ Place(p) /\ Place(p)' /\ Active(p)
    BY <2>1 DEF Base, Active
  <2>3. tmp = p /\ index = None
    <3>1. \A q \in Tasks : pc[q] \in {"setup", "walk", "close", "rename"} => index = None
      BY DEF Deleted
    <3>2. \A q \in Indexers : Active(q) /\ pc[q] = "rename" => tmp = q
      BY DEF AtWorkAlone
    <3> QED
      BY <2>1, <2>2, <3>1, <3>2
  <2>4. TaskRename(p)
    <3>1. ASSUME NEW q \in Indexers, Acts(q) PROVE Acts(p)
      <4>1. OnlyMine(q)
        BY <2>2, <3>1, ActsOnlyMine
      <4>2. q = p
        BY <2>1, <4>1 DEF OnlyMine
      <4> QED
        BY <3>1, <4>2
    <3>2. ASSUME NEW q \in Indexers, ClientBegin(q) \/ TaskBegin(q) PROVE FALSE
      <4>1. PICK needed \in BOOLEAN : Begin(q, needed)
        BY <3>2 DEF ClientBegin, TaskBegin
      <4>2. pc'[p] = "rename" \/ pc'[p] = "create"
        BY <2>1, <2>2, <4>1 DEF Begin, Goto, Fields
      <4> QED
        BY <4>2
    <3>3. pc' # pc
      OBVIOUS
    <3>4. ~(JobExists \/ JobLength \/ JobRead)
      BY <3>3 DEF JobExists, JobLength, JobRead, JobStep
    <3>5. Acts(p)
      BY <3>1, <3>2, <3>3, <3>4 DEF Next, Acts, vars
    <3> QED
      BY <2>1, <3>5 DEF Acts, Step, ClientCreateFails, Crash, Throws, ClientCreate, ClientWalk,
         ClientWalkEnds, ClientWalkFails, ClientClose, ClientDelete, ClientRename, TaskDeleteTmp,
         TaskDeleteIndex, TaskCreate, TaskCreateRefused, TaskWalk, TaskWalkEnds, TaskFails, TaskClose
  <2>5. index' = p /\ threw' = threw /\ file' = file /\ written' = written
    BY <2>3, <2>4 DEF TaskRename, Renamed
  <2>6. file.whole /\ written[p] = file.starts
    BY <2>2, <2>5 DEF Place
  <2>7. p \notin open'
    BY <2>2 DEF Place
  <2> QED
    BY <2>5, <2>6, <2>7 DEF IsWhole
<1> QED
  BY <1>1, <1>2, <1>3, SpecBase, PTL DEF Spec, RetryRepairs

-----------------------------------------------------------------------------
(* Nothing fails *)

LEMMA StartsTogether == IndexingAssumption /\ Init => AtWorkTogether /\ ClientsAtWork
<1> SUFFICES ASSUME IndexingAssumption, Init PROVE AtWorkTogether /\ ClientsAtWork
  OBVIOUS
<1>1. None \notin Indexers /\ Clients \subseteq Indexers
  BY DEF IndexingAssumption, Indexers
<1>2. \A p \in Indexers : pc[p] = "start" /\ ~Alive(p)
  BY <1>1 DEF Init, Alive
<1> QED
  BY <1>1, <1>2 DEF AtWorkTogether, ClientsAtWork

(* In a whole file the walk meets a block or the null word. *)
LEMMA WholeGoesOn ==
    ASSUME Base, NEW p \in Indexers, pc[p] \in Walking, file.whole
    PROVE  EndHere(at[p]) \/ (BlockHere(at[p]) /\ AfterBlock(at[p]) <= file.len)
<1>1. Place(p) /\ Walkable /\ Fields
  BY DEF Base
<1>2. PICK k : k = Len(written[p])
  OBVIOUS
<1>3. at[p] = Following(k) /\ PrefixWritten(p)
  BY <1>1, <1>2 DEF Place, Walking
<1>4. written[p] \in Seq(Nat) /\ file.starts \in Seq(Nat)
  BY <1>1 DEF Fields, Walkable
<1>5. k \in 0 .. Len(file.starts)
  BY <1>2, <1>3, <1>4 DEF PrefixWritten
<1>6. k < Len(file.starts) \/ k = Len(file.starts)
  BY <1>4, <1>5
<1> QED
  BY <1>1, <1>3, <1>5, <1>6 DEF Walkable

(* A file that is there was written as far as its indexer has come. *)
Fine(p) ==
    /\ pc[p] # "delete"
    /\ Alive(p) => pc[p] \in {"walk", "close", "rename", "done"}
    /\ Alive(p) /\ pc[p] \in {"close", "rename", "done"} => written[p] = file.starts

(* A step that takes no file away but p's own, or some. *)
LEMMA TogetherActs ==
    ASSUME Fields, AtWorkTogether, NEW p \in Indexers, file' = file, failures' = failures,
           \A q \in Indexers \ {p} : pc'[q] = pc[q] /\ written'[q] = written[q],
           \A q \in Indexers \ {p} : Alive(q)' => Alive(q),
           Untroubled => Fine(p)'
    PROVE  AtWorkTogether'
<1> SUFFICES ASSUME Untroubled, NEW q \in Indexers PROVE Fine(q)'
  BY DEF AtWorkTogether, Untroubled, Fine
<1>1. Fine(q)
  BY DEF AtWorkTogether, Fine
<1>2. CASE q # p
  BY <1>1, <1>2 DEF Fine
<1> QED
  BY <1>2

LEMMA ActsTogether ==
    ASSUME IndexingAssumption, Base, AtWorkTogether, NEW p \in Indexers, Acts(p)
    PROVE  AtWorkTogether'
<1>1. Fields /\ Place(p) /\ None \notin Indexers /\ OnlyMine(p)
  BY ActsOnlyMine DEF Base, IndexingAssumption, Indexers
<1>2. Untroubled => Fine(p)
  BY DEF AtWorkTogether, Fine
<1>3. /\ file' = file
      /\ \A q \in Indexers \ {p} : pc'[q] = pc[q] /\ written'[q] = written[q]
  BY <1>1 DEF OnlyMine
<1>4. ASSUME Untroubled, pc[p] \in Walking, EndHere(at[p]) PROVE written[p] = file.starts
  BY <1>4, NullWordMeansAll
<1>5. CASE failures' = failures + 1
  BY <1>1, <1>5 DEF Fields, AtWorkTogether, Untroubled
<1>6. CASE ClientCreate(p)
  <2>1. failures' = failures /\ \A q \in Indexers \ {p} : Alive(q)' => Alive(q)
    BY <1>1, <1>6 DEF ClientCreate, Created, Goto, Alive
  <2>2. Untroubled => Fine(p)'
    BY <1>1, <1>2, <1>6 DEF ClientCreate, Created, Goto, Alive, Fine, Fields
  <2> QED
    BY <1>1, <1>3, <2>1, <2>2, TogetherActs
<1>7. CASE ClientWalk(p)
  <2>1. failures' = failures /\ \A q \in Indexers \ {p} : Alive(q)' => Alive(q)
    BY <1>1, <1>7 DEF ClientWalk, Record, Goto, Alive
  <2>2. Untroubled => Fine(p)'
    BY <1>1, <1>2, <1>7 DEF ClientWalk, Record, Goto, Alive, Fine, Fields
  <2> QED
    BY <1>1, <1>3, <2>1, <2>2, TogetherActs
<1>8. CASE ClientDelete(p)
  <2>1. failures' = failures /\ \A q \in Indexers \ {p} : Alive(q)' => Alive(q)
    BY <1>1, <1>8 DEF ClientDelete, Throws, Goto, Alive
  <2>2. Untroubled => Fine(p)'
    BY <1>1, <1>2, <1>8 DEF ClientDelete, Throws, Goto, Alive, Fine, Fields
  <2> QED
    BY <1>1, <1>3, <2>1, <2>2, TogetherActs
<1>9. CASE TaskDeleteTmp(p)
  <2>1. failures' = failures /\ \A q \in Indexers \ {p} : Alive(q)' => Alive(q)
    BY <1>1, <1>9 DEF TaskDeleteTmp, Goto, Alive
  <2>2. Untroubled => Fine(p)'
    BY <1>1, <1>2, <1>9 DEF TaskDeleteTmp, Goto, Alive, Fine, Fields
  <2> QED
    BY <1>1, <1>3, <2>1, <2>2, TogetherActs
<1>10. CASE TaskDeleteIndex(p)
  <2>1. failures' = failures /\ \A q \in Indexers \ {p} : Alive(q)' => Alive(q)
    BY <1>1, <1>10 DEF TaskDeleteIndex, Goto, Alive
  <2>2. Untroubled => Fine(p)'
    BY <1>1, <1>2, <1>10 DEF TaskDeleteIndex, Goto, Alive, Fine, Fields
  <2> QED
    BY <1>1, <1>3, <2>1, <2>2, TogetherActs
<1>11. CASE TaskCreate(p)
  <2>1. failures' = failures /\ \A q \in Indexers \ {p} : Alive(q)' => Alive(q)
    BY <1>1, <1>11 DEF TaskCreate, Created, Record, Goto, Alive
  <2>2. Untroubled => Fine(p)'
    BY <1>1, <1>2, <1>11 DEF TaskCreate, Created, Record, Goto, Alive, Fine, Fields
  <2> QED
    BY <1>1, <1>3, <2>1, <2>2, TogetherActs
<1>12. CASE TaskCreateRefused(p)
  <2>1. failures' = failures /\ \A q \in Indexers \ {p} : Alive(q)' => Alive(q)
    BY <1>1, <1>12 DEF TaskCreateRefused, Throws, Goto, Alive
  <2>2. Untroubled => Fine(p)'
    BY <1>1, <1>2, <1>12 DEF TaskCreateRefused, Throws, Goto, Alive, Fine, Fields
  <2> QED
    BY <1>1, <1>3, <2>1, <2>2, TogetherActs
<1>13. CASE TaskWalk(p)
  <2>1. failures' = failures /\ \A q \in Indexers \ {p} : Alive(q)' => Alive(q)
    BY <1>1, <1>13 DEF TaskWalk, Record, Goto, Alive
  <2>2. Untroubled => Fine(p)'
    BY <1>1, <1>2, <1>13 DEF TaskWalk, Record, Goto, Alive, Fine, Fields
  <2> QED
    BY <1>1, <1>3, <2>1, <2>2, TogetherActs
<1>14. CASE ClientWalkEnds(p) \/ TaskWalkEnds(p)
  <2>1. /\ failures' = failures /\ tmp' = tmp /\ index' = index /\ written' = written
        /\ pc[p] \in {"create", "walk"} /\ EndHere(at[p])
        /\ pc'[p] = IF pc[p] = "walk" THEN "close" ELSE "done"
    BY <1>1, <1>14 DEF ClientWalkEnds, TaskWalkEnds, Goto, Fields
  <2>2. \A q : Alive(q)' <=> Alive(q)
    BY <2>1 DEF Alive
  <2>3. Untroubled => Fine(p)'
    BY <1>2, <1>3, <1>4, <2>1, <2>2 DEF Fine, Walking
  <2> QED
    BY <1>1, <1>3, <2>1, <2>2, <2>3, TogetherActs
<1>15. CASE (ClientWalkFails(p) \/ TaskFails(p)) /\ failures' # failures + 1
  <2>1. /\ failures' = failures /\ tmp' = tmp /\ index' = index /\ written' = written
        /\ pc[p] \in {"create", "walk"}
        /\ pc'[p] \in {"cleanup", "close", "done"}
        /\ \/ ~EndHere(at[p]) /\ ~(BlockHere(at[p]) /\ AfterBlock(at[p]) <= file.len)
           \/ ~Alive(p)
    BY <1>1, <1>15 DEF ClientWalkFails, TaskFails, Injected, Goto, Fields
  <2>2. \A q : Alive(q)' <=> Alive(q)
    BY <2>1 DEF Alive
  <2>3. Untroubled => ~Alive(p)
    BY <2>1, WholeGoesOn DEF Walking, Untroubled
  <2>4. Untroubled => Fine(p)'
    BY <2>1, <2>2, <2>3 DEF Fine
  <2> QED
    BY <1>1, <1>3, <2>1, <2>2, <2>4, TogetherActs
<1>16. CASE ClientClose(p) \/ TaskClose(p)
  <2>1. /\ failures' = failures /\ tmp' = tmp /\ index' = index /\ written' = written
        /\ pc[p] \in {"close", "cleanup"}
        /\ pc'[p] = IF ~Alive(p) THEN "done" ELSE IF pc[p] = "close" THEN "rename" ELSE "delete"
    BY <1>1, <1>16 DEF ClientClose, TaskClose, Goto, Throws, Fields
  <2>2. \A q : Alive(q)' <=> Alive(q)
    BY <2>1 DEF Alive
  <2>3. Untroubled => Fine(p)'
    BY <1>2, <1>3, <2>1, <2>2 DEF Fine
  <2> QED
    BY <1>1, <1>3, <2>1, <2>2, <2>3, TogetherActs
<1>17. CASE ClientRename(p) \/ TaskRename(p)
  <2>1. /\ failures' = failures /\ written' = written
        /\ pc[p] = "rename" /\ pc'[p] = "done"
    BY <1>1, <1>17 DEF ClientRename, TaskRename, Goto, Fields
  <2>2. \A q \in Indexers : Alive(q)' => Alive(q)
    BY <1>1, <1>17 DEF Alive, ClientRename, TaskRename, Renamed
  <2>3. Untroubled => Fine(p)'
    BY <1>2, <1>3, <2>1, <2>2 DEF Fine
  <2> QED
    BY <1>1, <1>3, <2>1, <2>2, <2>3, TogetherActs
<1>18. CASE ClientCreateFails(p) \/ Crash(p)
  <2>1. failures' = failures + 1
    BY <1>18 DEF ClientCreateFails, Crash, Injected
  <2> QED
    BY <1>5, <2>1
<1> QED
  BY <1>5, <1>6, <1>7, <1>8, <1>9, <1>10, <1>11, <1>12, <1>13, <1>14, <1>15, <1>16, <1>17, <1>18 DEF Acts, Step

LEMMA BeginsTogether ==
    ASSUME Fields, AtWorkTogether, NEW p \in Indexers, NEW needed \in BOOLEAN, Begin(p, needed)
    PROVE  AtWorkTogether'
<1>1. /\ file' = file /\ failures' = failures /\ tmp' = tmp /\ index' = index /\ written' = written
      /\ pc[p] = "start" /\ pc'[p] \in {"create", "done"}
      /\ \A q \in Indexers \ {p} : pc'[q] = pc[q]
  BY DEF Begin, Goto, Fields
<1>2. \A q : Alive(q)' <=> Alive(q)
  BY <1>1 DEF Alive
<1>3. Untroubled => Fine(p)'
  BY <1>1, <1>2 DEF AtWorkTogether, Fine
<1> QED
  BY <1>1, <1>2, <1>3, TogetherActs

LEMMA BeginsClients ==
    ASSUME Fields, ClientsAtWork, NEW p \in Indexers, ClientBegin(p) \/ TaskBegin(p)
    PROVE  ClientsAtWork'
<1>1. /\ file' = file /\ failures' = failures /\ tmp' = tmp /\ index' = index
      /\ pc[p] = "start" /\ pc'[p] \in {"create", "done"}
      /\ \A q \in Indexers \ {p} : pc'[q] = pc[q]
      /\ p \notin Tasks /\ index = None => pc'[p] = "create"
  BY DEF ClientBegin, TaskBegin, Begin, Goto, Fields
<1> SUFFICES ASSUME Untroubled', \A q \in Tasks : pc'[q] = "start", index' = None,
                    NEW c \in Clients, pc'[c] \notin {"start", "create"}
             PROVE  tmp' \in Clients /\ pc'[tmp'] \in {"walk", "close", "rename"}
  BY DEF ClientsAtWork
<1>2. p \notin Tasks /\ pc'[p] = "create"
  BY <1>1
<1>3. /\ Untroubled /\ index = None /\ \A q \in Tasks : pc[q] = "start"
      /\ pc[c] \notin {"start", "create"}
  BY <1>1, <1>2 DEF Untroubled, Indexers
<1>4. tmp \in Clients /\ pc[tmp] \in {"walk", "close", "rename"}
  BY <1>3 DEF ClientsAtWork
<1> QED
  BY <1>1, <1>4 DEF Indexers

LEMMA ActsClients ==
    ASSUME IndexingAssumption, Base, AtWorkTogether, ClientsAtWork, NEW p \in Indexers, Acts(p)
    PROVE  ClientsAtWork'
<1>1. Fields /\ None \notin Indexers /\ OnlyMine(p)
  BY ActsOnlyMine DEF Base, IndexingAssumption, Indexers
<1> SUFFICES ASSUME Untroubled', \A q \in Tasks : pc'[q] = "start", index' = None,
                    NEW c \in Clients, pc'[c] \notin {"start", "create"}
             PROVE  tmp' \in Clients /\ pc'[tmp'] \in {"walk", "close", "rename"}
  BY DEF ClientsAtWork
<1>2. failures' = 0 /\ file'.whole /\ failures \in Nat /\ file' = file
  BY <1>1 DEF Untroubled, Fields, OnlyMine
<1>3. failures' = failures
  <2>1. failures' = failures \/ failures' = failures + 1
    BY DEF Acts, Step, ClientCreate, ClientWalk, ClientWalkEnds, ClientWalkFails, ClientClose,
           ClientDelete, ClientRename, TaskDeleteTmp, TaskDeleteIndex, TaskCreate,
           TaskCreateRefused, TaskWalk, TaskWalkEnds, TaskFails, TaskClose, TaskRename,
           ClientCreateFails, Crash, Injected
  <2> QED
    BY <1>2, <2>1
<1>4. Untroubled /\ Fine(p)
  BY <1>2, <1>3 DEF Untroubled, AtWorkTogether, Fine
<1>5. p \in Clients /\ p \notin Tasks
  <2>1. p \in Tasks => pc'[p] # "start"
    BY <1>1 DEF Acts, Step, ClientCreate, ClientWalk, ClientWalkEnds, ClientWalkFails, ClientClose,
           ClientDelete, ClientRename, TaskDeleteTmp, TaskDeleteIndex, TaskCreate,
           TaskCreateRefused, TaskWalk, TaskWalkEnds, TaskFails, TaskClose, TaskRename,
           ClientCreateFails, Crash, Goto, Throws, Record, IndexingAssumption, Fields
  <2> QED
    BY <2>1 DEF Indexers
<1>6. \A q \in Tasks : pc[q] = "start"
  BY <1>1, <1>5 DEF OnlyMine, Indexers
<1>7. \/ ClientCreate(p) \/ ClientWalk(p) \/ ClientWalkEnds(p) \/ ClientWalkFails(p)
      \/ ClientClose(p) \/ ClientDelete(p) \/ ClientRename(p)
  <2>1. ~Crash(p) /\ ~ClientCreateFails(p)
    BY <1>2, <1>3 DEF Crash, ClientCreateFails, Injected
  <2> QED
    BY <1>5, <2>1 DEF Acts, Step, TaskDeleteTmp, TaskDeleteIndex, TaskCreate,
           TaskCreateRefused, TaskWalk, TaskWalkEnds, TaskFails, TaskClose, TaskRename
<1>8. CASE ClientCreate(p)
  BY <1>1, <1>5, <1>8 DEF ClientCreate, Created, Goto, Fields
<1>9. CASE ~ClientCreate(p)
  <2>1. pc[p] \notin {"start", "create"}
    BY <1>7, <1>9 DEF ClientWalk, ClientWalkEnds, ClientWalkFails, ClientClose, ClientDelete, ClientRename
  <2>2. \/ index = None /\ ~ClientRename(p) /\ tmp' = tmp
        \/ ClientRename(p) /\ index = None
        \/ ClientDelete(p)
    BY <1>7, <1>9 DEF ClientWalk, ClientWalkEnds, ClientWalkFails, ClientClose, ClientRename, Renamed
  <2>3. ~ClientDelete(p)
    BY <1>4 DEF ClientDelete, Fine
  <2>4. tmp \in Clients /\ pc[tmp] \in {"walk", "close", "rename"}
    BY <1>4, <1>5, <1>6, <2>1, <2>2, <2>3 DEF ClientsAtWork
  <2>5. ~ClientRename(p)
    BY <1>1, <2>4 DEF ClientRename, Renamed, Indexers
  <2>6. tmp' = tmp
    BY <2>2, <2>3, <2>5
  <2>7. pc'[tmp] \in {"walk", "close", "rename"}
    <3>1. CASE tmp # p
      BY <1>1, <2>4, <3>1 DEF OnlyMine, Indexers
    <3>2. CASE tmp = p
      <4>1. Alive(p)
        BY <3>2 DEF Alive
      <4>2. ~ClientWalkFails(p)
        <5> SUFFICES ASSUME ClientWalkFails(p) PROVE FALSE
          OBVIOUS
        <5>1. pc[p] \in Walking /\ ~EndHere(at[p]) /\ ~BlockHere(at[p])
          BY <1>2, <1>3, <4>1 DEF ClientWalkFails, Injected, Walking
        <5> QED
          BY <1>4, <5>1, WholeGoesOn DEF Untroubled
      <4> QED
        BY <1>1, <1>4, <1>7, <1>9, <2>3, <2>5, <3>2, <4>1, <4>2
           DEF ClientWalk, ClientWalkEnds, ClientClose, Goto, Record, Throws, Fine, Fields
    <3> QED
      BY <3>1, <3>2
  <2> QED
    BY <2>4, <2>6, <2>7
<1> QED
  BY <1>8, <1>9

LEMMA TogetherIsInductive ==
    IndexingAssumption /\ Base /\ AtWorkTogether /\ ClientsAtWork /\ [Next]_vars =>
        AtWorkTogether' /\ ClientsAtWork'
<1> SUFFICES ASSUME IndexingAssumption, Base, AtWorkTogether, ClientsAtWork, [Next]_vars
             PROVE  AtWorkTogether' /\ ClientsAtWork'
  OBVIOUS
<1>1. Fields /\ \A p \in Indexers : Place(p)
  BY DEF Base
<1>2. CASE UNCHANGED <<file, tmp, index, written, pc, failures>>
  <2>1. \A q : Alive(q)' <=> Alive(q)
    BY <1>2 DEF Alive
  <2> QED
    BY <1>2, <2>1 DEF AtWorkTogether, ClientsAtWork, Untroubled
<1>3. ASSUME NEW p \in Indexers, ClientBegin(p) \/ TaskBegin(p)
      PROVE  AtWorkTogether' /\ ClientsAtWork'
  <2>1. PICK needed \in BOOLEAN : Begin(p, needed)
    BY <1>3 DEF ClientBegin, TaskBegin
  <2> QED
    BY <1>1, <1>3, <2>1, BeginsTogether, BeginsClients
<1>4. ASSUME NEW p \in Indexers, Acts(p) PROVE AtWorkTogether' /\ ClientsAtWork'
  BY <1>4, ActsTogether, ActsClients
<1>5. CASE JobExists \/ JobLength \/ JobRead
  BY <1>2, <1>5 DEF JobExists, JobLength, JobRead, JobStep
<1>6. CASE UNCHANGED vars
  BY <1>2, <1>6 DEF vars
<1> QED
  BY <1>3, <1>4, <1>5, <1>6 DEF Next, Acts

(* However many indexers of a whole file run at once and take each other's *)
(* temporary files away: when nothing failed and all have come to rest, an *)
(* index is complete, and if only LzoIndexers ran there is one.            *)
THEOREM RestIsComplete == Spec => []CompleteAtRest
<1>1. Init => AtWorkTogether /\ ClientsAtWork
  BY IndexingAssumption, StartsTogether
<1>2. Base /\ AtWorkTogether /\ ClientsAtWork /\ [Next]_vars => AtWorkTogether' /\ ClientsAtWork'
  BY IndexingAssumption, TogetherIsInductive
<1>3. Base /\ AtWorkTogether /\ ClientsAtWork => CompleteAtRest
  <2> SUFFICES ASSUME Base, AtWorkTogether, ClientsAtWork, Untroubled, \A p \in Indexers : ~Active(p)
               PROVE  /\ index # None => IsWhole(index)
                      /\ (\A p \in Tasks : pc[p] = "start") /\ (\E p \in Clients : pc[p] = "done") =>
                            index # None
    BY DEF CompleteAtRest, Untroubled
  <2>1. ASSUME index # None PROVE IsWhole(index)
    <3>1. index \in Indexers /\ Place(index) /\ Alive(index)
      BY <2>1 DEF Base, Fields, Alive
    <3>2. pc[index] = "done" /\ written[index] = file.starts
      BY <3>1 DEF AtWorkTogether, Active
    <3> QED
      BY <3>1, <3>2 DEF Place, IsWhole
  <2>2. ASSUME \A p \in Tasks : pc[p] = "start", NEW c \in Clients, pc[c] = "done" PROVE index # None
    <3> SUFFICES ASSUME index = None PROVE FALSE
      OBVIOUS
    <3>1. tmp \in Clients /\ pc[tmp] \in {"walk", "close", "rename"}
      BY <2>2 DEF ClientsAtWork
    <3> QED
      BY <3>1 DEF Active, Indexers
  <2> QED
    BY <2>1, <2>2
<1> QED
  BY <1>1, <1>2, <1>3, SpecBase, PTL DEF Spec

=============================================================================
