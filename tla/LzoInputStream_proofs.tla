------------------------ MODULE LzoInputStream_proofs ------------------------
(***************************************************************************)
(* What LzoInputStream and LzopInputStream hand out, for every file of     *)
(* blocks, the lzop file with any of the checksums, cut anywhere or        *)
(* damaged, and every sequence of reads.                                   *)
(***************************************************************************)
EXTENDS CommonsInputStream, LzopInputStream, LzoFrames_proofs

-----------------------------------------------------------------------------
(* The file of a list of blocks *)

LEMMA TotalOfThrees ==
    ASSUME NEW n \in Nat, NEW f, \A j \in 1 .. n : f[j] = 3
    PROVE  Total(f, n) = 3 * n
<1> DEFINE Bad == {m \in 0 .. n : Total(f, m) # 3 * m}
<1>1. SUFFICES ASSUME Bad # {} PROVE FALSE
  OBVIOUS
<1>2. PICK m \in Bad : \A k \in Bad : m <= k
  <2>1. Bad \in SUBSET Nat
    OBVIOUS
  <2> HIDE DEF Bad
  <2> QED
    BY <1>1, <2>1, Least
<1>3. m # 0
  BY TotalOfNone
<1>4. PICK k \in Nat : m = k + 1 /\ k \in 0 .. n /\ ~(m <= k)
  BY <1>3
<1>5. Total(f, k) = 3 * k
  BY <1>2, <1>4
<1>6. \A j \in 1 .. k + 1 : f[j] = 3
  BY <1>4
<1>7. Total(f, k + 1) = Total(f, k) + f[k + 1]
  BY <1>6, TotalGrows
<1> QED
  BY <1>4, <1>5, <1>6, <1>7

Lengths == Seq(Nat \ {0})
Parts(lens) == [i \in DOMAIN lens |-> LzoBlock(BlockAt(lens, i), 1)]

LEMMA BlockBytesAt ==
    ASSUME NEW lens \in Lengths, NEW i \in 1 .. Len(lens)
    PROVE  /\ Total(lens, i - 1) \in Nat /\ lens[i] \in Nat \ {0}
           /\ Total(lens, i) = Total(lens, i - 1) + lens[i]
           /\ Total(lens, i) <= Total(lens, Len(lens)) /\ Total(lens, Len(lens)) \in Nat
           /\ BlockAt(lens, i) \in Seq(Nat) /\ Len(BlockAt(lens, i)) = lens[i]
<1>1. PICK h \in Nat : h = i - 1
  OBVIOUS
<1>2. \A j \in 1 .. Len(lens) : lens[j] \in Nat \ {0}
  BY DEF Lengths
<1>3. h + 1 = i /\ i \in Nat /\ i <= Len(lens) /\ Len(lens) \in Nat
  BY <1>1 DEF Lengths
<1>4. Total(lens, h) \in Nat
  <2>1. \A j \in 1 .. h : lens[j] \in Nat
    BY <1>2, <1>3
  <2> QED
    BY <2>1, TotalIsNat
<1>5. Total(lens, h + 1) = Total(lens, h) + lens[h + 1]
  <2>1. \A j \in 1 .. h + 1 : lens[j] \in Nat
    BY <1>2, <1>3
  <2> QED
    BY <2>1, TotalGrows
<1>6. \A j \in 1 .. Len(lens) : lens[j] \in Nat
  BY <1>2
<1>7. Total(lens, Len(lens)) \in Nat
  BY <1>3, <1>6, TotalIsNat
<1>8. Total(lens, i) <= Total(lens, Len(lens))
  BY <1>3, <1>6, TotalIsMonotone
<1>9. BlockAt(lens, i) = [j \in 1 .. lens[i] |-> Total(lens, h) + j]
  BY <1>1 DEF BlockAt
<1>10. lens[i] \in Nat \ {0}
  BY <1>2
<1> HIDE DEF Total
<1>11. BlockAt(lens, i) \in Seq(Nat) /\ Len(BlockAt(lens, i)) = lens[i]
  BY <1>4, <1>9, <1>10
<1> QED
  BY <1>1, <1>3, <1>4, <1>5, <1>7, <1>8, <1>10, <1>11

LEMMA FileAt ==
    ASSUME NEW lens \in Lengths
    PROVE  LET f == FlattenSeq(Parts(lens)) IN
           /\ f \in Seq(Tokens)
           /\ Len(f) = 3 * Len(lens)
           /\ \A i \in 1 .. Len(lens) :
                /\ f[3 * i - 2] = Word(lens[i])
                /\ f[3 * i - 1] = Word(1)
                /\ f[3 * i] = Data(BlockAt(lens, i), TRUE)
<1> DEFINE s == Parts(lens)
<1>1. Len(lens) \in Nat /\ DOMAIN lens = 1 .. Len(lens)
  BY DEF Lengths
<1>2. ASSUME NEW i \in 1 .. Len(lens)
      PROVE  /\ s[i] = <<Word(lens[i]), Word(1), Data(BlockAt(lens, i), TRUE)>>
             /\ s[i] \in Seq(Tokens) /\ Len(s[i]) = 3
  <2>1. s[i] = <<Word(Len(BlockAt(lens, i))), Word(1), Data(BlockAt(lens, i), TRUE)>>
    BY <1>1 DEF Parts, LzoBlock
  <2>2. Len(BlockAt(lens, i)) = lens[i] /\ lens[i] \in Nat /\ BlockAt(lens, i) \in Seq(Nat)
    BY BlockBytesAt
  <2>3. PICK a, b, c : a = Word(lens[i]) /\ b = Word(1) /\ c = Data(BlockAt(lens, i), TRUE)
    OBVIOUS
  <2>4. a \in Tokens /\ b \in Tokens /\ c \in Tokens
    <3>1. a \in WordTokens /\ b \in WordTokens
      BY <2>2, <2>3 DEF WordTokens, Word
    <3>2. c \in DataTokens
      BY <2>2, <2>3 DEF DataTokens, Data
    <3> QED
      BY <3>1, <3>2 DEF Tokens
  <2>5. s[i] = <<a, b, c>>
    BY <2>1, <2>2, <2>3
  <2> HIDE DEF s, Tokens
  <2>6. <<a, b, c>> \in Seq(Tokens) /\ Len(<<a, b, c>>) = 3
    BY <2>4
  <2> QED
    BY <2>3, <2>5, <2>6
<1>3. s \in Seq(Seq(Tokens)) /\ Len(s) = Len(lens)
  <2>1. s = [i \in 1 .. Len(lens) |-> LzoBlock(BlockAt(lens, i), 1)]
    BY <1>1 DEF Parts
  <2>2. s \in [1 .. Len(lens) -> Seq(Tokens)]
    <3>1. \A i \in 1 .. Len(lens) : s[i] \in Seq(Tokens)
      BY <1>2
    <3> HIDE DEF Tokens, LzoBlock
    <3> QED
      BY <2>1, <3>1
  <2> HIDE DEF s, Tokens
  <2> QED
    BY <1>1, <2>2, FunctionIsSeq
<1>4. PICK f : f = FlattenSeq(s)
  OBVIOUS
<1> HIDE DEF s
<1>5. f \in Seq(Tokens) /\ Pieces(s, Len(s), f)
  BY <1>3, <1>4, FlattenPieces
<1>6. \A i \in 0 .. Len(lens) : Total(Lens(s), i) = 3 * i
  <2>1. TAKE i \in 0 .. Len(lens)
  <2>2. ASSUME NEW j \in 1 .. i PROVE Lens(s)[j] = 3
    <3>1. j \in DOMAIN s /\ j \in 1 .. Len(lens)
      BY <1>1, <1>3
    <3> QED
      BY <1>2, <3>1 DEF Lens
  <2> QED
    BY <1>1, <2>2, TotalOfThrees
<1>7. Len(f) = 3 * Len(lens)
  BY <1>1, <1>3, <1>5, <1>6 DEF Pieces
<1>8. ASSUME NEW i \in 1 .. Len(lens)
      PROVE  /\ f[3 * i - 2] = Word(lens[i])
             /\ f[3 * i - 1] = Word(1)
             /\ f[3 * i] = Data(BlockAt(lens, i), TRUE)
  <2>1. Total(Lens(s), i - 1) = 3 * (i - 1)
    BY <1>1, <1>6
  <2>2. \A k \in 1 .. 3 : f[3 * (i - 1) + k] = s[i][k]
    <3>1. i \in 1 .. Len(s) /\ Len(s[i]) = 3
      BY <1>2, <1>3
    <3>2. \A k \in 1 .. Len(s[i]) : f[Total(Lens(s), i - 1) + k] = s[i][k]
      BY <1>5, <3>1 DEF Pieces
    <3> QED
      BY <2>1, <3>1, <3>2
  <2>3. PICK a, b, c : a = Word(lens[i]) /\ b = Word(1) /\ c = Data(BlockAt(lens, i), TRUE)
    OBVIOUS
  <2>4. s[i] = <<a, b, c>>
    BY <1>2, <2>3
  <2>5. f[3 * i - 2] = s[i][1] /\ f[3 * i - 1] = s[i][2] /\ f[3 * i] = s[i][3]
    <3>1. 3 * (i - 1) + 1 = 3 * i - 2 /\ 3 * (i - 1) + 2 = 3 * i - 1 /\ 3 * (i - 1) + 3 = 3 * i
      OBVIOUS
    <3>2. 1 \in 1 .. 3 /\ 2 \in 1 .. 3 /\ 3 \in 1 .. 3
      OBVIOUS
    <3> QED
      BY <2>2, <3>1, <3>2
  <2> QED
    BY <2>3, <2>4, <2>5
<1> QED
  BY <1>4, <1>5, <1>7, <1>8 DEF s

(* Token 3i of a file is the data of its i-th block, and those in front of *)
(* it are the two lengths; whatever became of the file since, its lengths  *)
(* and what is there of its data are as long as they were.                 *)
LengthAt(lens, i) ==
    3 * i - 2 <= Len(file) /\ file[3 * i - 2] # Part =>
        file[3 * i - 2].kind = "int" /\ file[3 * i - 2].value = lens[i]

PackedAt(i) ==
    3 * i - 1 <= Len(file) /\ file[3 * i - 1] # Part => file[3 * i - 1].kind = "int"

DataAt(lens, i) ==
    3 * i <= Len(file) /\ file[3 * i] # Part =>
        /\ file[3 * i].kind = "data"
        /\ file[3 * i].intact \in BOOLEAN
        /\ file[3 * i].bytes \in Seq(Nat) /\ Len(file[3 * i].bytes) = lens[i]
        /\ file[3 * i].intact => file[3 * i].bytes = BlockAt(lens, i)

FileOfBlocks(lens) ==
    /\ Len(file) \in Nat /\ Len(file) <= 3 * Len(lens) /\ DOMAIN file = 1 .. Len(file)
    /\ \A j \in 1 .. Len(file) : file[j] = Part => j = Len(file)
    /\ \A i \in 1 .. Len(lens) : LengthAt(lens, i) /\ PackedAt(i) /\ DataAt(lens, i)

LEMMA FileAged ==
    ASSUME NEW lens \in Lengths, file \in Aged(FlattenSeq(Parts(lens)))
    PROVE  FileOfBlocks(lens)
<1>1. PICK f : f = FlattenSeq(Parts(lens))
  OBVIOUS
<1>2. /\ f \in Seq(Tokens)
      /\ Len(f) = 3 * Len(lens)
      /\ \A i \in 1 .. Len(lens) :
            /\ f[3 * i - 2] = Word(lens[i])
            /\ f[3 * i - 1] = Word(1)
            /\ f[3 * i] = Data(BlockAt(lens, i), TRUE)
  BY <1>1, FileAt
<1>3. TokensAged(f, file)
  BY <1>1, <1>2, AgedTokens
<1>4. /\ Len(file) \in Nat /\ Len(file) <= 3 * Len(lens) /\ DOMAIN file = 1 .. Len(file)
      /\ \A j \in 1 .. Len(file) : TokenAged(f, file, j)
  BY <1>2, <1>3 DEF TokensAged
<1>5. ASSUME NEW j \in 1 .. Len(file), file[j] = Part PROVE j = Len(file)
  <2>1. TokenAged(f, file, j)
    BY <1>4
  <2>2. f[j] \in Tokens
    BY <1>2, <1>4
  <2>3. f[j].kind \in {"int", "data"}
    BY <2>2 DEF Tokens, WordTokens, DataTokens
  <2>4. f[j].kind = "data" => Harmed(f[j]).kind = "data"
    BY <2>2 DEF Harmed, Tokens, WordTokens, DataTokens
  <2>5. file[j].kind = "part"
    BY <1>5 DEF Part
  <2> QED
    BY <2>1, <2>3, <2>4, <2>5 DEF TokenAged
<1>6. ASSUME NEW i \in 1 .. Len(lens) PROVE LengthAt(lens, i)
  <2>1. SUFFICES ASSUME 3 * i - 2 <= Len(file), file[3 * i - 2] # Part
        PROVE  file[3 * i - 2].kind = "int" /\ file[3 * i - 2].value = lens[i]
    BY DEF LengthAt
  <2>2. TokenAged(f, file, 3 * i - 2)
    <3>1. 3 * i - 2 \in 1 .. Len(file)
      BY <1>4, <2>1
    <3> QED
      BY <1>4, <3>1
  <2>3. f[3 * i - 2] = Word(lens[i])
    BY <1>2
  <2> QED
    BY <2>1, <2>2, <2>3 DEF TokenAged, Word
<1>7. ASSUME NEW i \in 1 .. Len(lens) PROVE PackedAt(i)
  <2>1. SUFFICES ASSUME 3 * i - 1 <= Len(file), file[3 * i - 1] # Part
        PROVE  file[3 * i - 1].kind = "int"
    BY DEF PackedAt
  <2>2. TokenAged(f, file, 3 * i - 1)
    <3>1. 3 * i - 1 \in 1 .. Len(file)
      BY <1>4, <2>1
    <3> QED
      BY <1>4, <3>1
  <2>3. f[3 * i - 1] = Word(1)
    BY <1>2
  <2> QED
    BY <2>1, <2>2, <2>3 DEF TokenAged, Word
<1>8. ASSUME NEW i \in 1 .. Len(lens) PROVE DataAt(lens, i)
  <2>1. SUFFICES ASSUME 3 * i <= Len(file), file[3 * i] # Part
        PROVE  /\ file[3 * i].kind = "data"
               /\ file[3 * i].intact \in BOOLEAN
               /\ file[3 * i].bytes \in Seq(Nat) /\ Len(file[3 * i].bytes) = lens[i]
               /\ file[3 * i].intact => file[3 * i].bytes = BlockAt(lens, i)
    BY DEF DataAt
  <2>2. TokenAged(f, file, 3 * i)
    <3>1. 3 * i \in 1 .. Len(file)
      BY <1>4, <2>1
    <3> QED
      BY <1>4, <3>1
  <2>3. PICK b : b = BlockAt(lens, i)
    OBVIOUS
  <2>4. b \in Seq(Nat) /\ Len(b) = lens[i] /\ f[3 * i] = Data(b, TRUE)
    BY <1>2, <2>3, BlockBytesAt
  <2>5. CASE file[3 * i] = f[3 * i]
    BY <2>3, <2>4, <2>5 DEF Data
  <2>6. CASE file[3 * i] = Harmed(f[3 * i])
    <3>1. /\ file[3 * i].kind = "data" /\ file[3 * i].intact = FALSE
          /\ file[3 * i].bytes = [k \in DOMAIN b |-> 0]
      BY <2>4, <2>6 DEF Data, Harmed
    <3>2. [k \in DOMAIN b |-> 0] \in Seq(Nat) /\ Len([k \in DOMAIN b |-> 0]) = Len(b)
      BY <2>4
    <3> QED
      BY <2>4, <3>1, <3>2
  <2> QED
    BY <2>1, <2>2, <2>4, <2>5, <2>6 DEF TokenAged, Data
<1> QED
  BY <1>4, <1>5, <1>6, <1>7, <1>8 DEF FileOfBlocks

LEMMA Third ==
    ASSUME NEW n \in Nat, NEW j \in 1 .. 3 * n
    PROVE  \E m \in 1 .. n : j = 3 * m - 2 \/ j = 3 * m - 1 \/ j = 3 * m
<1> DEFINE m == (j + 2) \div 3
<1>1. m \in Int /\ 3 * m <= j + 2 /\ j + 2 < 3 * m + 3
  OBVIOUS
<1> HIDE DEF m
<1>2. m \in 1 .. n /\ (j = 3 * m - 2 \/ j = 3 * m - 1 \/ j = 3 * m)
  BY <1>1
<1> QED
  BY <1>2

LEMMA TotalOfThirds ==
    ASSUME NEW n \in Nat, NEW f, NEW g,
           \A m \in 1 .. n : /\ g[3 * m - 2] = 0 /\ g[3 * m - 1] = 0
                             /\ g[3 * m] = f[m] /\ f[m] \in Nat
    PROVE  Total(g, 3 * n) = Total(f, n)
<1> DEFINE Bad == {m \in 0 .. n : Total(g, 3 * m) # Total(f, m)}
<1>1. SUFFICES ASSUME Bad # {} PROVE FALSE
  OBVIOUS
<1>2. PICK m \in Bad : \A k \in Bad : m <= k
  <2>1. Bad \in SUBSET Nat
    OBVIOUS
  <2> HIDE DEF Bad
  <2> QED
    BY <1>1, <2>1, Least
<1>3. m # 0
  <2>1. Total(g, 3 * 0) = 0 /\ Total(f, 0) = 0
    BY TotalOfNone
  <2> QED
    BY <2>1
<1>4. PICK k \in Nat : m = k + 1 /\ k \in 0 .. n /\ ~(m <= k)
  BY <1>3
<1>5. Total(g, 3 * k) = Total(f, k)
  BY <1>2, <1>4
<1>6. \A j \in 1 .. k + 1 : f[j] \in Nat
  BY <1>4
<1>7. Total(f, k + 1) = Total(f, k) + f[k + 1]
  BY <1>6, TotalGrows
<1>8. \A j \in 1 .. 3 * k + 3 : g[j] \in Nat
  <2>1. TAKE j \in 1 .. 3 * k + 3
  <2>2. PICK h \in 1 .. k + 1 : j = 3 * h - 2 \/ j = 3 * h - 1 \/ j = 3 * h
    <3>1. PICK b \in Nat : b = k + 1
      OBVIOUS
    <3>2. j \in 1 .. 3 * b
      BY <3>1
    <3> QED
      BY <3>1, <3>2, Third
  <2>3. h \in 1 .. n
    BY <1>4
  <2>4. g[3 * h - 2] = 0 /\ g[3 * h - 1] = 0 /\ g[3 * h] = f[h] /\ f[h] \in Nat
    BY <2>3
  <2> QED
    BY <2>2, <2>4
<1>9. PICK a \in Nat : a = 3 * k
  OBVIOUS
<1>10. g[a + 1] = 0 /\ g[a + 2] = 0 /\ g[a + 3] = f[k + 1]
  BY <1>4, <1>9
<1>11. Total(g, a + 1) = Total(g, a) + g[a + 1]
  <2>1. \A j \in 1 .. a + 1 : g[j] \in Nat
    BY <1>8, <1>9
  <2> QED
    BY <2>1, TotalGrows
<1>12. Total(g, a + 1 + 1) = Total(g, a + 1) + g[a + 1 + 1]
  <2>1. a + 1 \in Nat /\ \A j \in 1 .. (a + 1) + 1 : g[j] \in Nat
    BY <1>8, <1>9
  <2> QED
    BY <2>1, TotalGrows
<1>13. Total(g, a + 2 + 1) = Total(g, a + 2) + g[a + 2 + 1]
  <2>1. a + 2 \in Nat /\ \A j \in 1 .. (a + 2) + 1 : g[j] \in Nat
    BY <1>8, <1>9
  <2> QED
    BY <2>1, TotalGrows
<1>14. Total(g, a) \in Nat /\ f[k + 1] \in Nat
  <2>1. \A j \in 1 .. a : g[j] \in Nat
    BY <1>8, <1>9
  <2> QED
    BY <1>6, <2>1, TotalIsNat
<1>15. a + 1 + 1 = a + 2 /\ a + 2 + 1 = a + 3 /\ 3 * m = a + 3
  BY <1>4, <1>9
<1> HIDE DEF Total
<1>16. Total(g, a + 3) = Total(g, a) + f[k + 1]
  BY <1>10, <1>11, <1>12, <1>13, <1>14, <1>15
<1>17. Total(g, 3 * m) = Total(f, m)
  BY <1>4, <1>5, <1>7, <1>9, <1>15, <1>16
<1> QED
  BY <1>17

(* The bytes of a file that ends behind a block are those of its blocks. *)
LEMMA BytesOfBlocks ==
    ASSUME NEW lens \in Lengths, FileOfBlocks(lens), NEW i \in 0 .. Len(lens),
           Len(file) = 3 * i, i # 0 => file[3 * i] # Part
    PROVE  Len(BytesIn(file)) = Total(lens, i)
<1> DEFINE s == [j \in DOMAIN file |-> IF file[j].kind = "data" THEN file[j].bytes ELSE << >>]
<1>1. i \in Nat /\ i <= Len(lens) /\ Len(lens) \in Nat /\ DOMAIN file = 1 .. 3 * i
  BY DEF FileOfBlocks, Lengths
<1>2. ASSUME NEW m \in 1 .. i
      PROVE  /\ s[3 * m - 2] = << >> /\ s[3 * m - 1] = << >>
             /\ s[3 * m] \in Seq(Nat) /\ Len(s[3 * m]) = lens[m] /\ lens[m] \in Nat
  <2>1. m \in 1 .. Len(lens) /\ {3 * m - 2, 3 * m - 1, 3 * m} \subseteq 1 .. Len(file)
    BY <1>1
  <2>2. LengthAt(lens, m) /\ PackedAt(m) /\ DataAt(lens, m)
    BY <2>1 DEF FileOfBlocks
  <2>3. file[3 * m - 2] # Part /\ file[3 * m - 1] # Part /\ file[3 * m] # Part
    BY <1>1, <2>1 DEF FileOfBlocks
  <2>4. 3 * m - 2 <= Len(file) /\ 3 * m - 1 <= Len(file) /\ 3 * m <= Len(file)
    BY <1>1
  <2>5. /\ file[3 * m - 2].kind = "int" /\ file[3 * m - 1].kind = "int"
        /\ file[3 * m].kind = "data"
        /\ file[3 * m].bytes \in Seq(Nat) /\ Len(file[3 * m].bytes) = lens[m]
    BY <2>2, <2>3, <2>4 DEF LengthAt, PackedAt, DataAt
  <2>6. lens[m] \in Nat
    BY <2>1 DEF Lengths
  <2> QED
    BY <1>1, <2>1, <2>5, <2>6
<1>3. s \in Seq(Seq(Nat)) /\ Len(s) = 3 * i
  <2>1. ASSUME NEW j \in 1 .. 3 * i PROVE s[j] \in Seq(Nat)
    <3>1. PICK m \in 1 .. i : j = 3 * m - 2 \/ j = 3 * m - 1 \/ j = 3 * m
      BY <1>1, Third
    <3>2. << >> \in Seq(Nat)
      OBVIOUS
    <3> HIDE DEF s
    <3>3. s[3 * m - 2] \in Seq(Nat) /\ s[3 * m - 1] \in Seq(Nat) /\ s[3 * m] \in Seq(Nat)
      BY <1>2, <3>2
    <3> QED
      BY <3>1, <3>3
  <2>2. s \in [1 .. 3 * i -> Seq(Nat)]
    BY <1>1, <2>1
  <2> HIDE DEF s
  <2> QED
    BY <1>1, <2>2, FunctionIsSeq
<1>4. BytesIn(file) = FlattenSeq(s)
  BY DEF BytesIn
<1> HIDE DEF s
<1>5. Len(FlattenSeq(s)) = Total(Lens(s), 3 * i)
  <2>1. Pieces(s, Len(s), FlattenSeq(s))
    BY <1>3, FlattenPieces
  <2> QED
    BY <1>3, <2>1 DEF Pieces
<1>6. ASSUME NEW m \in 1 .. i
      PROVE  /\ Lens(s)[3 * m - 2] = 0 /\ Lens(s)[3 * m - 1] = 0
             /\ Lens(s)[3 * m] = lens[m] /\ lens[m] \in Nat
  <2>1. {3 * m - 2, 3 * m - 1, 3 * m} \subseteq DOMAIN s
    BY <1>1, <1>3
  <2> QED
    BY <1>2, <2>1 DEF Lens
<1>7. Total(Lens(s), 3 * i) = Total(lens, i)
  BY <1>1, <1>6, TotalOfThirds
<1> QED
  BY <1>4, <1>5, <1>7

-----------------------------------------------------------------------------
(* The invariant *)

Fields ==
    /\ pos \in Nat /\ pos <= Len(file)
    /\ outputBuffer \in Seq(Nat)
    /\ outputBufferPos \in Nat /\ outputBufferLen \in Nat
    /\ outputBufferPos <= outputBufferLen /\ outputBufferLen <= Len(outputBuffer)
    /\ want \in Nat \cup {Idle}
    /\ delivered \in Seq(Nat)
    /\ failed \in BOOLEAN

(* i blocks have been consumed. *)
Behind(lens, i) ==
    /\ i \in 0 .. Len(lens)
    /\ pos = 3 * i
    /\ i # 0 => file[3 * i] # Part

Exhausted == pos = Len(file) /\ Available = 0

(* The reader stands between two blocks, or a cut has sent it to the end.  *)
OnBlock(lens) == pos = Len(file) \/ \E i \in 0 .. Len(lens) : Behind(lens, i)

(* As long as nothing was thrown, what was handed out and what is in the   *)
(* buffer are as many bytes as the blocks consumed had.                    *)
Counted(lens) ==
    ~failed => \E i \in 0 .. Len(lens) :
                    Behind(lens, i) /\ Len(delivered) + Available = Total(lens, i)

(* What was handed out is 1, 2, ...; what is in the buffer goes on there. *)
Handed ==
    /\ \A k \in 1 .. Len(delivered) : delivered[k] = k
    /\ \A k \in 1 .. Available : outputBuffer[outputBufferPos + k] = Len(delivered) + k

(* In an undamaged file that holds even after an exception, which only a   *)
(* cut can cause, and behind a cut there is nothing to be read.            *)
InOrder(lens) ==
    Undamaged(file) =>
        /\ Handed
        /\ Len(delivered) + Available <= Total(lens, Len(lens))
        /\ failed => Exhausted

Ended == result = "end" => Exhausted

Written(lens) == content = Stream(lens) /\ FileOfBlocks(lens)

Reading(lens) == Fields /\ OnBlock(lens) /\ Counted(lens) /\ InOrder(lens) /\ Ended

Inv == \E lens \in Lengths : Written(lens) /\ Reading(lens)

-----------------------------------------------------------------------------
(* Steps *)

LEMMA FileKept ==
    ASSUME NEW lens, FileOfBlocks(lens), file' = file
    PROVE  FileOfBlocks(lens)'
<1> QED
  BY DEF FileOfBlocks, LengthAt, PackedAt, DataAt

LEMMA UndamagedKept == file' = file => (Undamaged(file)' <=> Undamaged(file))
<1> QED
  BY DEF Undamaged

LEMMA NextBlock ==
    ASSUME NEW lens \in Lengths, FileOfBlocks(lens), Fields,
           NEW i, Behind(lens, i), Whole(3)
    PROVE  /\ i + 1 \in 1 .. Len(lens) /\ i + 1 \in 0 .. Len(lens) /\ i + 1 # 0
           /\ pos + 3 = 3 * (i + 1) /\ pos + 3 <= Len(file) /\ file[3 * (i + 1)] # Part
           /\ file[pos + 1].value = lens[i + 1] /\ lens[i + 1] \in Nat \ {0}
           /\ file[pos + 3].kind = "data"
           /\ file[pos + 3].intact \in BOOLEAN
           /\ file[pos + 3].bytes \in Seq(Nat) /\ Len(file[pos + 3].bytes) = lens[i + 1]
           /\ file[pos + 3].intact => file[pos + 3].bytes = BlockAt(lens, i + 1)
<1>1. /\ Len(lens) \in Nat /\ Len(file) \in Nat /\ Len(file) <= 3 * Len(lens)
      /\ i \in 0 .. Len(lens) /\ pos = 3 * i /\ pos + 3 <= Len(file)
      /\ file[pos + 1] # Part /\ file[pos + 3] # Part
  <2>1. Len(file) \in Nat /\ Len(file) <= 3 * Len(lens)
    BY DEF FileOfBlocks
  <2>2. Len(lens) \in Nat
    BY DEF Lengths
  <2>3. i \in 0 .. Len(lens) /\ pos = 3 * i
    BY DEF Behind
  <2>4. pos + 3 <= Len(file) /\ \A k \in 1 .. 3 : file[pos + k] # Part
    BY DEF Whole
  <2> QED
    BY <2>1, <2>2, <2>3, <2>4
<1>2. PICK j \in 1 .. Len(lens) : j = i + 1
  BY <1>1
<1>3. 3 * j - 2 = pos + 1 /\ 3 * j = pos + 3 /\ j # 0
  BY <1>1, <1>2
<1>4. LengthAt(lens, j) /\ DataAt(lens, j)
  BY DEF FileOfBlocks
<1>5. file[pos + 1].value = lens[j]
  BY <1>1, <1>3, <1>4 DEF LengthAt
<1>6. /\ file[pos + 3].kind = "data"
      /\ file[pos + 3].intact \in BOOLEAN
      /\ file[pos + 3].bytes \in Seq(Nat) /\ Len(file[pos + 3].bytes) = lens[j]
      /\ file[pos + 3].intact => file[pos + 3].bytes = BlockAt(lens, j)
  BY <1>1, <1>3, <1>4 DEF DataAt
<1>7. lens[j] \in Nat \ {0}
  BY DEF Lengths
<1> QED
  BY <1>1, <1>2, <1>3, <1>5, <1>6, <1>7

LEMMA ReadKeeps ==
    ASSUME NEW lens \in Lengths, Reading(lens), NEW len \in Nat, Read(len)
    PROVE  Reading(lens)'
<1>1. /\ file' = file /\ pos' = pos /\ outputBuffer' = outputBuffer
      /\ outputBufferPos' = outputBufferPos /\ outputBufferLen' = outputBufferLen
      /\ result' = result /\ delivered' = delivered /\ failed' = failed /\ want' \in Nat
  BY DEF Read, output
<1>2. Fields'
  BY <1>1 DEF Reading, Fields
<1>3. Available' = Available
  BY <1>1 DEF Available
<1>4. Counted(lens)'
  BY <1>1, <1>3 DEF Reading, Counted, Behind
<1>5. InOrder(lens)'
  BY <1>1, <1>3, UndamagedKept DEF Reading, InOrder, Handed, Exhausted
<1>6. OnBlock(lens)' /\ Ended'
  BY <1>1, <1>3 DEF Reading, OnBlock, Behind, Ended, Exhausted
<1> QED
  BY <1>2, <1>4, <1>5, <1>6 DEF Reading

(* n of the a bytes of a buffer are appended to what was handed out. *)
HandingOver(b, p, a, d, n, e) ==
    p + a <= Len(b) /\ n <= a /\ e = d \o SubSeq(b, p + 1, p + n)

HandedOver(b, p, a, d, n, e) ==
    /\ e \in Seq(Nat) /\ Len(e) = Len(d) + n
    /\ (\A k \in 1 .. Len(d) : d[k] = k) /\ (\A k \in 1 .. a : b[p + k] = Len(d) + k)
         => /\ \A k \in 1 .. Len(e) : e[k] = k
            /\ \A k \in 1 .. a - n : b[p + n + k] = Len(e) + k

LEMMA HandOver ==
    ASSUME NEW b \in Seq(Nat), NEW p \in Nat, NEW a \in Nat, NEW d \in Seq(Nat), NEW n \in Nat,
           NEW e, HandingOver(b, p, a, d, n, e)
    PROVE  HandedOver(b, p, a, d, n, e)
<1> p + a <= Len(b) /\ n <= a
  BY DEF HandingOver
<1>1. PICK s : s = SubSeq(b, p + 1, p + n) /\ e = d \o s
  BY DEF HandingOver
<1>2. s \in Seq(Nat) /\ Len(s) = n /\ \A k \in 1 .. n : s[k] = b[p + k]
  <2>1. p + n <= Len(b) /\ p + n \in Nat /\ n \in Nat
    OBVIOUS
  <2>2. s \in Seq(Nat) /\ Len(s) = n
    BY <1>1, <2>1, SMTT(30)
  <2>3. \A k \in 1 .. n : s[k] = b[p + 1 + k - 1]
    BY <1>1, <2>1, <2>2
  <2>4. \A k \in 1 .. n : p + 1 + k - 1 = p + k
    OBVIOUS
  <2> QED
    BY <2>2, <2>3, <2>4
<1>3. e \in Seq(Nat) /\ Len(e) = Len(d) + n
  BY <1>1, <1>2
<1>4. \A k \in 1 .. Len(d) : e[k] = d[k]
  BY <1>1, <1>2
<1>5. \A k \in 1 .. n : e[Len(d) + k] = s[k]
  <2>1. TAKE k \in 1 .. n
  <2>2. PICK t \in Seq(Nat) : t = s
    BY <1>2
  <2>3. PICK h : h = Len(d) + k
    OBVIOUS
  <2>4. k \in 1 .. Len(t) /\ h \in Len(d) + 1 .. Len(d) + Len(t) /\ h - Len(d) = k
    BY <1>2, <2>2, <2>3
  <2>5. (d \o t)[h] = t[h - Len(d)]
    BY <2>4
  <2> QED
    BY <1>1, <2>2, <2>3, <2>4, <2>5
<1>6. ASSUME \A k \in 1 .. Len(d) : d[k] = k, \A k \in 1 .. a : b[p + k] = Len(d) + k
      PROVE  /\ \A k \in 1 .. Len(e) : e[k] = k
             /\ \A k \in 1 .. a - n : b[p + n + k] = Len(e) + k
  <2>1. ASSUME NEW k \in 1 .. Len(e) PROVE e[k] = k
    <3>1. CASE k <= Len(d)
      <4>1. k \in 1 .. Len(d)
        BY <3>1
      <4> QED
        BY <1>4, <1>6, <4>1
    <3>2. CASE ~(k <= Len(d))
      <4>1. PICK h : h = k - Len(d)
        OBVIOUS
      <4>2. h \in 1 .. n /\ h \in 1 .. a /\ k = Len(d) + h
        BY <1>3, <3>2, <4>1
      <4>3. e[Len(d) + h] = b[p + h] /\ b[p + h] = Len(d) + h
        BY <1>2, <1>5, <1>6, <4>2
      <4> QED
        BY <4>2, <4>3
    <3> QED
      BY <3>1, <3>2
  <2>2. ASSUME NEW k \in 1 .. a - n PROVE b[p + n + k] = Len(e) + k
    <3>1. PICK h : h = n + k
      OBVIOUS
    <3>2. h \in 1 .. a /\ p + n + k = p + h /\ Len(e) + k = Len(d) + h
      <4>1. PICK y, z : y = Len(d) /\ z = Len(e)
        OBVIOUS
      <4>2. y \in Nat /\ z = y + n
        BY <1>3, <4>1
      <4>3. n \in Nat /\ n <= a /\ k \in Nat /\ 1 <= k /\ k <= a - n
        OBVIOUS
      <4>4. h \in 1 .. a /\ p + n + k = p + h /\ z + k = y + h
        BY <3>1, <4>2, <4>3
      <4> QED
        BY <4>1, <4>4
    <3>3. b[p + h] = Len(d) + h
      BY <1>6, <3>2
    <3> QED
      BY <3>2, <3>3
  <2> QED
    BY <2>1, <2>2
<1> QED
  BY <1>3, <1>6 DEF HandedOver

(* What Deliver does to what was handed out, in any subclass. *)
LEMMA DeliverHands ==
    ASSUME Fields, Deliver
    PROVE  /\ Fields'
           /\ Len(delivered)' + Available' = Len(delivered) + Available
           /\ Len(delivered) + Available \in Nat
           /\ Handed => Handed'
<1>1. /\ outputBuffer \in Seq(Nat) /\ delivered \in Seq(Nat)
      /\ outputBufferPos \in Nat /\ outputBufferLen \in Nat
      /\ outputBufferPos <= outputBufferLen /\ outputBufferLen <= Len(outputBuffer)
      /\ want \in Nat
  BY DEF Fields, Deliver, Idle
<1>2. PICK a \in Nat : a = Available
  BY <1>1 DEF Available
<1>3. PICK n \in 0 .. a : n = IF want < a THEN want ELSE a
  BY <1>1
<1>4. PICK b \in Seq(Nat), p \in Nat, d \in Seq(Nat) :
        b = outputBuffer /\ p = outputBufferPos /\ d = delivered
  BY <1>1
<1>5. p + a <= Len(b) /\ p + a = outputBufferLen
  BY <1>1, <1>2, <1>4 DEF Available
<1>6. PICK e : e = d \o SubSeq(b, p + 1, p + n)
  OBVIOUS
<1>7. /\ delivered' = e /\ outputBufferPos' = p + n
      /\ want' = Idle /\ file' = file /\ pos' = pos /\ outputBuffer' = b
      /\ outputBufferLen' = outputBufferLen /\ failed' = failed
  BY <1>2, <1>3, <1>4, <1>6 DEF Deliver
<1>8. /\ e \in Seq(Nat) /\ Len(e) = Len(d) + n
      /\ (\A k \in 1 .. Len(d) : d[k] = k) /\ (\A k \in 1 .. a : b[p + k] = Len(d) + k)
            => /\ \A k \in 1 .. Len(e) : e[k] = k
               /\ \A k \in 1 .. a - n : b[p + n + k] = Len(e) + k
  <2>1. HandingOver(b, p, a, d, n, e) /\ n \in Nat
    BY <1>5, <1>6 DEF HandingOver
  <2>2. HandedOver(b, p, a, d, n, e)
    BY <2>1, HandOver
  <2> QED
    BY <2>2 DEF HandedOver
<1>9. Fields'
  <2>1. pos' \in Nat /\ pos' <= Len(file)' /\ want' \in Nat \cup {Idle} /\ failed' \in BOOLEAN
    BY <1>7 DEF Fields
  <2>2. /\ outputBuffer' \in Seq(Nat) /\ outputBufferPos' \in Nat /\ outputBufferLen' \in Nat
        /\ outputBufferPos' <= outputBufferLen' /\ outputBufferLen' <= Len(outputBuffer')
    BY <1>1, <1>4, <1>5, <1>7
  <2> QED
    BY <1>7, <1>8, <2>1, <2>2 DEF Fields
<1>10. Available' = a - n
  BY <1>5, <1>7 DEF Available
<1>11. Len(delivered)' + Available' = Len(delivered) + Available /\ Len(delivered) + Available \in Nat
  <2>1. Len(e) + (a - n) = Len(d) + a /\ Len(d) + a \in Nat
    BY <1>8
  <2> QED
    BY <1>2, <1>4, <1>7, <1>10, <2>1
<1>12. Handed => Handed'
  <2>1. Handed <=> (\A k \in 1 .. Len(d) : d[k] = k) /\ (\A k \in 1 .. a : b[p + k] = Len(d) + k)
    BY <1>2, <1>4 DEF Handed
  <2>2. Handed' <=> (\A k \in 1 .. Len(e) : e[k] = k)
                    /\ (\A k \in 1 .. a - n : b[p + n + k] = Len(e) + k)
    BY <1>7, <1>10 DEF Handed
  <2> QED
    BY <1>8, <2>1, <2>2
<1> QED
  BY <1>9, <1>11, <1>12

LEMMA DeliverKeeps ==
    ASSUME NEW lens \in Lengths, Reading(lens), Deliver
    PROVE  Reading(lens)'
<1>1. Fields /\ Available # 0
  BY DEF Reading, Deliver
<1>2. /\ Fields' /\ Len(delivered)' + Available' = Len(delivered) + Available
      /\ Handed => Handed'
  BY <1>1, DeliverHands
<1>3. /\ file' = file /\ pos' = pos /\ failed' = failed /\ result' = "ok"
  BY DEF Deliver
<1>4. Counted(lens)'
  BY <1>2, <1>3 DEF Reading, Counted, Behind
<1>5. InOrder(lens)'
  BY <1>1, <1>2, <1>3, UndamagedKept DEF Reading, InOrder, Exhausted
<1>6. OnBlock(lens)' /\ Ended'
  BY <1>3 DEF Reading, OnBlock, Behind, Ended
<1> QED
  BY <1>2, <1>4, <1>5, <1>6 DEF Reading

LEMMA EndKeeps ==
    ASSUME NEW lens \in Lengths, Reading(lens), EndOfFile
    PROVE  Reading(lens)'
<1>1. /\ file' = file /\ pos' = pos /\ outputBuffer' = outputBuffer
      /\ outputBufferPos' = outputBufferPos /\ outputBufferLen' = outputBufferLen
      /\ delivered' = delivered /\ failed' = failed /\ want' = Idle
      /\ pos = Len(file) /\ Available = 0
  BY DEF EndOfFile, EndRead, output, Filling
<1>2. Fields'
  BY <1>1 DEF Reading, Fields
<1>3. Available' = Available
  BY <1>1 DEF Available
<1>4. Counted(lens)'
  BY <1>1, <1>3 DEF Reading, Counted, Behind
<1>5. InOrder(lens)'
  BY <1>1, <1>3, UndamagedKept DEF Reading, InOrder, Handed, Exhausted
<1>6. OnBlock(lens)' /\ Ended'
  BY <1>1, <1>3 DEF Reading, OnBlock, Behind, Ended, Exhausted
<1> QED
  BY <1>2, <1>4, <1>5, <1>6 DEF Reading

LEMMA GrownHasRoom ==
    ASSUME Fields, NEW n \in Nat
    PROVE  /\ Grown(n) \in Seq(Nat) /\ n <= Len(Grown(n))
           /\ Len(outputBuffer) <= Len(Grown(n)) /\ DOMAIN Grown(n) = 1 .. Len(Grown(n))
<1>1. outputBuffer \in Seq(Nat)
  BY DEF Fields
<1>2. CASE n > Len(outputBuffer)
  <2>1. Grown(n) = [i \in 1 .. n |-> Junk]
    BY <1>2 DEF Grown
  <2>2. Grown(n) \in [1 .. n -> Nat]
    BY <2>1 DEF Junk
  <2> HIDE DEF Grown
  <2>3. Grown(n) \in Seq(Nat) /\ Len(Grown(n)) = n
    BY <2>2, FunctionIsSeq
  <2> QED
    BY <1>1, <1>2, <2>3
<1>3. CASE ~(n > Len(outputBuffer))
  BY <1>1, <1>3 DEF Grown
<1> QED
  BY <1>2, <1>3

(* decompress() of intact data behind a buffer that was handed out. *)
LEMMA DecompressedHands ==
    ASSUME Fields, Available = 0, NEW buf \in Seq(Nat), NEW data, data.bytes \in Seq(Nat),
           Len(data.bytes) <= Len(buf), Decompressed(buf, data), delivered' = delivered
    PROVE  /\ outputBuffer' \in Seq(Nat) /\ outputBufferPos' = 0
           /\ outputBufferLen' = Len(data.bytes) /\ Available' = Len(data.bytes)
           /\ outputBufferLen' <= Len(outputBuffer')
           /\ Handed /\ (\A k \in 1 .. Len(data.bytes) : data.bytes[k] = Len(delivered) + k)
                => Handed'
<1>1. PICK b \in Seq(Nat) : b = data.bytes
  OBVIOUS
<1>2. PICK o : o = Over(buf, b)
  OBVIOUS
<1>3. o \in [1 .. Len(buf) -> Nat] /\ \A k \in 1 .. Len(b) : o[k] = b[k]
  <2>1. o = [i \in 1 .. Len(buf) |-> IF i <= Len(b) THEN b[i] ELSE buf[i]]
    BY <1>2 DEF Over
  <2> QED
    BY <1>1, <2>1
<1>4. o \in Seq(Nat) /\ Len(o) = Len(buf)
  <2>1. Len(buf) \in Nat
    OBVIOUS
  <2> QED
    BY <1>3, <2>1, FunctionIsSeq
<1>5. outputBuffer' = o /\ outputBufferPos' = 0 /\ outputBufferLen' = Len(b)
  BY <1>1, <1>2 DEF Decompressed
<1>6. Available' = Len(b)
  BY <1>5 DEF Available
<1>7. ASSUME Handed, \A k \in 1 .. Len(b) : b[k] = Len(delivered) + k PROVE Handed'
  <2>1. \A k \in 1 .. Len(delivered) : delivered[k] = k
    BY <1>7 DEF Handed
  <2>2. \A k \in 1 .. Len(b) : o[0 + k] = Len(delivered) + k
    BY <1>3, <1>7
  <2> QED
    BY <1>5, <1>6, <2>1, <2>2 DEF Handed
<1> QED
  BY <1>1, <1>4, <1>5, <1>6, <1>7

LEMMA CutKeeps ==
    ASSUME NEW lens \in Lengths, FileOfBlocks(lens), Reading(lens), CutShort
    PROVE  Reading(lens)'
<1>1. /\ file' = file /\ pos' = Len(file)
      /\ outputBufferPos' = outputBufferPos /\ outputBufferLen' = outputBufferLen
      /\ delivered' = delivered /\ failed' = TRUE /\ want' = Idle /\ result' = "failed"
      /\ Available = 0 /\ pos < Len(file)
      /\ outputBuffer' = IF Whole(1) THEN Grown(file[pos + 1].value) ELSE outputBuffer
  BY DEF CutShort, ThrowRead, Filling
<1>2. outputBuffer' \in Seq(Nat) /\ Len(outputBuffer) <= Len(outputBuffer')
  <2>1. CASE Whole(1)
    <3>1. PICK i \in 0 .. Len(lens) : Behind(lens, i)
      <4>1. pos # Len(file)
        <5>1. pos \in Nat /\ Len(file) \in Nat
          BY DEF Reading, Fields, FileOfBlocks
        <5> QED
          BY <1>1, <5>1
      <4> QED
        BY <4>1 DEF Reading, OnBlock
    <3>2. pos + 1 <= Len(file) /\ file[pos + 1] # Part /\ pos = 3 * i
      BY <2>1, <3>1 DEF Whole, Behind
    <3>3. PICK j \in 1 .. Len(lens) : 3 * j - 2 = pos + 1
      <4>1. Len(file) \in Nat /\ Len(lens) \in Nat /\ Len(file) <= 3 * Len(lens)
        <5>1. Len(file) \in Nat /\ Len(file) <= 3 * Len(lens)
          BY DEF FileOfBlocks
        <5> QED
          BY <5>1 DEF Lengths
      <4>2. i + 1 \in 1 .. Len(lens) /\ 3 * (i + 1) - 2 = pos + 1
        BY <3>2, <4>1
      <4> QED
        BY <4>2
    <3>4. file[pos + 1].value = lens[j] /\ lens[j] \in Nat
      <4>1. LengthAt(lens, j)
        BY DEF FileOfBlocks
      <4>2. lens[j] \in Nat
        BY DEF Lengths
      <4> QED
        BY <3>2, <3>3, <4>1, <4>2 DEF LengthAt
    <3> QED
      BY <1>1, <2>1, <3>4, GrownHasRoom DEF Reading
  <2>2. CASE ~Whole(1)
    BY <1>1, <2>2 DEF Reading, Fields
  <2> QED
    BY <2>1, <2>2
<1>3. Fields'
  <2>1. Len(file) \in Nat /\ Fields
    BY DEF Reading, FileOfBlocks
  <2>2. outputBufferLen' <= Len(outputBuffer')
    BY <1>1, <1>2, <2>1 DEF Fields
  <2> QED
    BY <1>1, <1>2, <2>1, <2>2 DEF Fields
<1>4. Available' = 0 /\ Exhausted'
  BY <1>1 DEF Available, Exhausted
<1>5. Counted(lens)' /\ OnBlock(lens)' /\ Ended'
  BY <1>1, <1>4 DEF Counted, OnBlock, Ended
<1>6. InOrder(lens)'
  <2>1. SUFFICES ASSUME Undamaged(file) PROVE InOrder(lens)'
    BY <1>1, UndamagedKept DEF InOrder
  <2>2. Handed /\ Len(delivered) + Available <= Total(lens, Len(lens))
    BY <2>1 DEF Reading, InOrder
  <2>3. Handed'
    BY <1>1, <1>4, <2>2 DEF Handed
  <2> QED
    BY <1>1, <1>4, <2>2, <2>3 DEF InOrder
<1> QED
  BY <1>3, <1>5, <1>6 DEF Reading

(* What reading block i + 1 does to all but the buffer. *)
BlockRead(lens, i) ==
    /\ file' = file /\ delivered' = delivered /\ pos' = 3 * (i + 1)
    /\ i + 1 \in 0 .. Len(lens) /\ Behind(lens, i + 1)'
    /\ Total(lens, i + 1) = Total(lens, i) + lens[i + 1]
    /\ Total(lens, i) \in Nat /\ lens[i + 1] \in Nat
    /\ Total(lens, i + 1) <= Total(lens, Len(lens))

LEMMA BlockIsRead ==
    ASSUME NEW lens \in Lengths, FileOfBlocks(lens), Fields,
           NEW i, Behind(lens, i), Whole(3),
           file' = file, delivered' = delivered, pos' = pos + 3
    PROVE  BlockRead(lens, i)
<1>1. /\ i + 1 \in 1 .. Len(lens) /\ i + 1 \in 0 .. Len(lens) /\ i + 1 # 0
      /\ pos + 3 = 3 * (i + 1) /\ file[3 * (i + 1)] # Part
  BY NextBlock
<1>2. PICK j \in 1 .. Len(lens) : j = i + 1 /\ j - 1 = i
  <2>1. i \in Int
    BY DEF Behind
  <2> QED
    BY <1>1, <2>1
<1>3. /\ Total(lens, j - 1) \in Nat /\ lens[j] \in Nat \ {0}
      /\ Total(lens, j) = Total(lens, j - 1) + lens[j]
      /\ Total(lens, j) <= Total(lens, Len(lens))
  BY BlockBytesAt
<1>4. Behind(lens, i + 1)'
  BY <1>1 DEF Behind
<1> QED
  BY <1>1, <1>2, <1>3, <1>4 DEF BlockRead

(* A reader that has something to read stands between two blocks. *)
LEMMA StandsOnBlock ==
    ASSUME NEW lens \in Lengths, FileOfBlocks(lens), Reading(lens), Whole(3)
    PROVE  \E i : Behind(lens, i)
<1>1. pos \in Nat /\ Len(file) \in Nat /\ pos + 3 <= Len(file)
  BY DEF Reading, Fields, FileOfBlocks, Whole
<1>2. pos # Len(file)
  BY <1>1
<1> QED
  BY <1>2 DEF Reading, OnBlock

LEMMA BlockKeeps ==
    ASSUME NEW lens \in Lengths, FileOfBlocks(lens), Reading(lens), ReadBlock
    PROVE  Reading(lens)'
<1>1. Fields /\ Available = 0 /\ Whole(3) /\ file[pos + 3].intact
  BY DEF Reading, ReadBlock, Filling
<1>2. /\ file' = file /\ delivered' = delivered /\ pos' = pos + 3
      /\ want' = want /\ result' = result /\ failed' = failed
      /\ Decompressed(Grown(file[pos + 1].value), file[pos + 3])
  BY DEF ReadBlock, Filled
<1>3. PICK i : Behind(lens, i)
  BY <1>1, StandsOnBlock
<1>4. /\ i + 1 \in 1 .. Len(lens)
      /\ pos + 3 <= Len(file)
      /\ file[pos + 1].value = lens[i + 1] /\ lens[i + 1] \in Nat \ {0}
      /\ file[pos + 3].bytes \in Seq(Nat) /\ Len(file[pos + 3].bytes) = lens[i + 1]
      /\ file[pos + 3].bytes = BlockAt(lens, i + 1)
  BY <1>1, <1>3, NextBlock
<1>5. BlockRead(lens, i)
  BY <1>1, <1>2, <1>3, BlockIsRead
<1>6. PICK n, buf, data : n = lens[i + 1] /\ buf = Grown(n) /\ data = file[pos + 3] /\ n \in Nat
  BY <1>4
<1>7. buf \in Seq(Nat) /\ n <= Len(buf)
  BY <1>1, <1>6, GrownHasRoom
<1>8. /\ data.bytes \in Seq(Nat) /\ Len(data.bytes) = n /\ data.bytes = BlockAt(lens, i + 1)
      /\ Decompressed(buf, data)
  BY <1>2, <1>4, <1>6
<1>9. /\ outputBuffer' \in Seq(Nat) /\ outputBufferPos' = 0
      /\ outputBufferLen' = n /\ Available' = n
      /\ outputBufferLen' <= Len(outputBuffer')
      /\ Handed /\ (\A k \in 1 .. n : data.bytes[k] = Len(delivered) + k) => Handed'
  <2>1. Len(data.bytes) <= Len(buf)
    BY <1>7, <1>8
  <2>2. /\ outputBuffer' \in Seq(Nat) /\ outputBufferPos' = 0
        /\ outputBufferLen' = Len(data.bytes) /\ Available' = Len(data.bytes)
        /\ outputBufferLen' <= Len(outputBuffer')
        /\ Handed /\ (\A k \in 1 .. Len(data.bytes) : data.bytes[k] = Len(delivered) + k)
             => Handed'
    BY <1>1, <1>2, <1>7, <1>8, <2>1, DecompressedHands
  <2> QED
    BY <1>8, <2>2
<1>10. Fields'
  <2>1. pos' \in Nat /\ pos' <= Len(file)
    BY <1>1, <1>2, <1>4 DEF Fields
  <2> QED
    BY <1>1, <1>2, <1>6, <1>9, <2>1 DEF Fields
<1>11. ASSUME ~failed PROVE Len(delivered) = Total(lens, i)
  <2>1. PICK h \in 0 .. Len(lens) : Behind(lens, h) /\ Len(delivered) + Available = Total(lens, h)
    BY <1>11 DEF Reading, Counted
  <2>2. h = i
    <3>1. h \in Int /\ i \in Int /\ pos = 3 * h /\ pos = 3 * i
      BY <1>3, <2>1 DEF Behind
    <3> QED
      BY <3>1
  <2>3. Len(delivered) \in Nat
    BY <1>1 DEF Fields
  <2> QED
    BY <1>1, <2>1, <2>2, <2>3
<1>12. ASSUME ~failed
       PROVE  Len(delivered)' + Available' = Total(lens, i + 1)
  BY <1>2, <1>5, <1>6, <1>9, <1>11, <1>12 DEF BlockRead
<1>13. Counted(lens)' /\ OnBlock(lens)'
  BY <1>2, <1>5, <1>12 DEF BlockRead, Counted, OnBlock
<1>14. Ended'
  <2>1. pos # Len(file)
    <3>1. pos \in Nat /\ Len(file) \in Nat
      BY <1>1 DEF Fields, FileOfBlocks
    <3> QED
      BY <1>4, <3>1
  <2> QED
    BY <1>2, <2>1 DEF Reading, Ended, Exhausted
<1>15. InOrder(lens)'
  <2>1. SUFFICES ASSUME Undamaged(file) PROVE InOrder(lens)'
    BY <1>2, UndamagedKept DEF InOrder
  <2>2. Handed /\ (failed => Exhausted)
    BY <2>1 DEF Reading, InOrder
  <2>3. ~failed
    <3>1. pos \in Nat /\ Len(file) \in Nat
      BY <1>1 DEF Fields, FileOfBlocks
    <3> QED
      BY <1>4, <2>2, <3>1 DEF Exhausted
  <2>4. \A k \in 1 .. n : data.bytes[k] = Len(delivered) + k
    <3>1. PICK j \in 1 .. Len(lens) : j = i + 1 /\ j - 1 = i
      <4>1. i \in Int
        BY <1>3 DEF Behind
      <4> QED
        BY <1>4, <4>1
    <3>2. BlockAt(lens, j) = [k \in 1 .. lens[j] |-> Total(lens, i) + k]
      BY <3>1 DEF BlockAt
    <3> QED
      BY <1>6, <1>8, <1>11, <2>3, <3>1, <3>2
  <2>5. Handed'
    BY <1>9, <2>2, <2>4
  <2>6. Len(delivered)' + Available' <= Total(lens, Len(lens))
    BY <1>5, <1>12, <2>3 DEF BlockRead
  <2> QED
    BY <1>2, <2>3, <2>5, <2>6 DEF InOrder
<1> QED
  BY <1>10, <1>13, <1>14, <1>15 DEF Reading

LEMMA GarbledKeeps ==
    ASSUME NEW lens \in Lengths, FileOfBlocks(lens), Reading(lens), ReadGarbled
    PROVE  Reading(lens)'
<1>1. /\ Fields /\ Available = 0 /\ Whole(3) /\ ~file[pos + 3].intact /\ want \in Nat
  BY DEF Reading, Fields, ReadGarbled, Filling
<1>2. /\ file' = file /\ delivered' = delivered /\ pos' = pos + 3
      /\ Garbled(Grown(file[pos + 1].value))
      /\ \/ want' = want /\ result' = result /\ failed' = failed
            /\ outputBufferLen' = file[pos + 1].value
         \/ want' = Idle /\ result' = "failed" /\ failed' = TRUE
  BY DEF ReadGarbled, Filled, ThrowRead
<1>3. PICK i : Behind(lens, i)
  BY <1>1, StandsOnBlock
<1>4. /\ i + 1 \in 1 .. Len(lens)
      /\ pos + 3 <= Len(file)
      /\ file[pos + 1].value = lens[i + 1] /\ lens[i + 1] \in Nat \ {0}
      /\ file[pos + 3].kind = "data"
  BY <1>1, <1>3, NextBlock
<1>5. BlockRead(lens, i)
  BY <1>1, <1>2, <1>3, BlockIsRead
<1>6. PICK n, buf : n = lens[i + 1] /\ buf = Grown(n) /\ n \in Nat
  BY <1>4
<1>7. buf \in Seq(Nat) /\ DOMAIN buf = 1 .. Len(buf)
  BY <1>1, <1>6, GrownHasRoom
<1>8. /\ outputBuffer' = [k \in DOMAIN buf |-> Junk]
      /\ outputBufferPos' = 0 /\ outputBufferLen' \in 0 .. Len(buf)
  BY <1>2, <1>4, <1>6 DEF Garbled
<1>9. outputBuffer' \in Seq(Nat) /\ Len(outputBuffer') = Len(buf)
  <2>1. PICK o : o = [k \in 1 .. Len(buf) |-> Junk]
    OBVIOUS
  <2>2. o \in [1 .. Len(buf) -> Nat] /\ Len(buf) \in Nat
    BY <1>7, <2>1 DEF Junk
  <2>3. o \in Seq(Nat) /\ Len(o) = Len(buf)
    BY <2>2, FunctionIsSeq
  <2> QED
    BY <1>7, <1>8, <2>1, <2>3
<1>10. Fields'
  <2>1. pos' \in Nat /\ pos' <= Len(file)
    BY <1>1, <1>2, <1>4 DEF Fields
  <2>2. /\ outputBufferPos' \in Nat /\ outputBufferLen' \in Nat
        /\ outputBufferPos' <= outputBufferLen' /\ outputBufferLen' <= Len(outputBuffer')
    BY <1>7, <1>8, <1>9
  <2>3. want' \in Nat \cup {Idle} /\ failed' \in BOOLEAN /\ delivered' \in Seq(Nat)
    BY <1>1, <1>2 DEF Fields
  <2> QED
    BY <1>2, <1>9, <2>1, <2>2, <2>3 DEF Fields
<1>11. ASSUME ~failed'
       PROVE  Len(delivered)' + Available' = Total(lens, i + 1)
  <2>1. ~failed /\ outputBufferLen' = n
    BY <1>2, <1>4, <1>6, <1>11
  <2>2. PICK h \in 0 .. Len(lens) : Behind(lens, h) /\ Len(delivered) + Available = Total(lens, h)
    BY <2>1 DEF Reading, Counted
  <2>3. h = i
    <3>1. h \in Int /\ i \in Int /\ pos = 3 * h /\ pos = 3 * i
      BY <1>3, <2>2 DEF Behind
    <3> QED
      BY <3>1
  <2>4. Len(delivered) \in Nat
    BY <1>1 DEF Fields
  <2>5. Len(delivered) = Total(lens, i)
    BY <1>1, <2>2, <2>3, <2>4
  <2>6. Available' = n
    BY <1>8, <2>1 DEF Available
  <2> QED
    BY <1>2, <1>5, <1>6, <2>5, <2>6 DEF BlockRead
<1>12. Counted(lens)' /\ OnBlock(lens)'
  BY <1>2, <1>5, <1>11 DEF BlockRead, Counted, OnBlock
<1>13. Ended'
  <2>1. pos # Len(file)
    <3>1. pos \in Nat /\ Len(file) \in Nat
      BY <1>1 DEF Fields, FileOfBlocks
    <3> QED
      BY <1>4, <3>1
  <2> QED
    BY <1>2, <2>1 DEF Reading, Ended, Exhausted
<1>14. InOrder(lens)'
  <2>1. ~Undamaged(file)
    <3>1. pos + 3 \in DOMAIN file
      <4>1. pos \in Nat /\ DOMAIN file = 1 .. Len(file) /\ Len(file) \in Nat
        BY <1>1 DEF Fields, FileOfBlocks
      <4> QED
        BY <1>4, <4>1
    <3> QED
      BY <1>1, <1>4, <3>1 DEF Undamaged
  <2> QED
    BY <1>2, <2>1, UndamagedKept DEF InOrder
<1> QED
  BY <1>10, <1>12, <1>13, <1>14 DEF Reading

-----------------------------------------------------------------------------
(* The stream *)

LEMMA LengthsOf ==
    ASSUME NEW lens \in SeqOf(1 .. MaxBlock, MaxBlocks)
    PROVE  lens \in Lengths
<1>1. PICK m \in 0 .. MaxBlocks : lens \in [1 .. m -> 1 .. MaxBlock]
  BY ReaderAssumption DEF SeqOf
<1>2. m \in Nat /\ MaxBlock \in Nat
  BY ReaderAssumption
<1>3. lens \in [1 .. m -> Nat \ {0}]
  BY <1>1, <1>2
<1> QED
  BY <1>2, <1>3, FunctionIsSeq DEF Lengths

LEMMA NothingRead ==
    ASSUME NEW lens \in Lengths, FileOfBlocks(lens), ReaderInit
    PROVE  Reading(lens)
<1>1. /\ pos = 0 /\ outputBuffer = << >> /\ outputBufferPos = 0 /\ outputBufferLen = 0
      /\ want = Idle /\ result = "ok" /\ delivered = << >> /\ failed = FALSE
  BY DEF ReaderInit
<1>2. Len(file) \in Nat /\ Len(lens) \in Nat
  <2>1. Len(file) \in Nat
    BY DEF FileOfBlocks
  <2>2. Len(lens) \in Nat
    BY DEF Lengths
  <2> QED
    BY <2>1, <2>2
<1>3. Fields
  <2>1. pos \in Nat /\ pos <= Len(file)
    BY <1>1, <1>2
  <2>2. outputBuffer \in Seq(Nat) /\ Len(outputBuffer) = 0 /\ delivered \in Seq(Nat)
    BY <1>1
  <2>3. /\ outputBufferPos \in Nat /\ outputBufferLen \in Nat
        /\ outputBufferPos <= outputBufferLen /\ outputBufferLen <= 0
    BY <1>1
  <2> QED
    BY <1>1, <2>1, <2>2, <2>3 DEF Fields
<1>4. Behind(lens, 0) /\ 0 \in 0 .. Len(lens)
  BY <1>1, <1>2 DEF Behind
<1>5. Len(delivered) = 0 /\ Available = 0
  BY <1>1 DEF Available
<1>6. Total(lens, 0) = 0
  BY TotalOfNone
<1>7. Total(lens, Len(lens)) \in Nat
  <2>1. \A j \in 1 .. Len(lens) : lens[j] \in Nat
    BY DEF Lengths
  <2> QED
    BY <1>2, <2>1, TotalIsNat
<1>8. OnBlock(lens) /\ Counted(lens)
  <2>1. Len(delivered) + Available = Total(lens, 0)
    BY <1>5, <1>6
  <2> QED
    BY <1>4, <2>1 DEF OnBlock, Counted
<1>9. InOrder(lens) /\ Ended
  <2>1. Handed
    BY <1>5 DEF Handed
  <2> QED
    BY <1>1, <1>5, <1>7, <2>1 DEF InOrder, Ended
<1> QED
  BY <1>3, <1>8, <1>9 DEF Reading

LEMMA InitReads == Init => Inv
<1>1. SUFFICES ASSUME Init PROVE Inv
  OBVIOUS
<1>2. PICK lens \in SeqOf(1 .. MaxBlock, MaxBlocks) :
        /\ content = Stream(lens)
        /\ file \in Aged(FlattenSeq([i \in DOMAIN lens |-> LzoBlock(BlockAt(lens, i), 1)]))
  BY <1>1 DEF Init
<1>3. lens \in Lengths
  BY LengthsOf
<1>4. file \in Aged(FlattenSeq(Parts(lens)))
  BY <1>2 DEF Parts
<1>5. FileOfBlocks(lens)
  BY <1>3, <1>4, FileAged
<1>6. Reading(lens)
  BY <1>1, <1>3, <1>5, NothingRead DEF Init
<1> QED
  BY <1>2, <1>3, <1>5, <1>6 DEF Inv, Written

AnyRead == \E len \in Nat : Read(len)

LEMMA StepReads ==
    ASSUME Inv, AnyRead \/ Step \/ UNCHANGED vars
    PROVE  Inv'
<1>1. PICK lens \in Lengths : Written(lens) /\ Reading(lens)
  BY DEF Inv
<1>2. content = Stream(lens) /\ FileOfBlocks(lens)
  BY <1>1 DEF Written
<1>3. file' = file /\ content' = content
  <2>1. CASE AnyRead
    BY <2>1 DEF AnyRead, Read
  <2>2. CASE Deliver
    BY <2>2 DEF Deliver
  <2>3. CASE EndOfFile
    BY <2>3 DEF EndOfFile, EndRead
  <2>4. CASE CutShort
    BY <2>4 DEF CutShort, ThrowRead
  <2>5. CASE ReadBlock
    BY <2>5 DEF ReadBlock, Filled
  <2>6. CASE ReadGarbled
    BY <2>6 DEF ReadGarbled, Filled, ThrowRead
  <2>7. CASE UNCHANGED vars
    BY <2>7 DEF vars
  <2> QED
    BY <2>1, <2>2, <2>3, <2>4, <2>5, <2>6, <2>7 DEF Step
<1>4. Reading(lens)'
  <2>1. CASE AnyRead
    BY <1>1, <2>1, ReadKeeps DEF AnyRead
  <2>2. CASE Deliver
    BY <1>1, <2>2, DeliverKeeps
  <2>3. CASE EndOfFile
    BY <1>1, <2>3, EndKeeps
  <2>4. CASE CutShort
    BY <1>1, <1>2, <2>4, CutKeeps
  <2>5. CASE ReadBlock
    BY <1>1, <1>2, <2>5, BlockKeeps
  <2>6. CASE ReadGarbled
    BY <1>1, <1>2, <2>6, GarbledKeeps
  <2>7. CASE UNCHANGED vars
    <3>1. /\ UNCHANGED <<file, pos, outputBuffer, outputBufferPos, outputBufferLen>>
          /\ UNCHANGED <<want, result, delivered, failed>>
      BY <2>7 DEF vars, output
    <3>2. Available' = Available
      BY <3>1 DEF Available
    <3>3. Fields' /\ OnBlock(lens)' /\ Counted(lens)'
      BY <1>1, <3>1, <3>2 DEF Reading, Fields, OnBlock, Counted, Behind
    <3>4. InOrder(lens)' /\ Ended'
      BY <1>1, <3>1, <3>2, UndamagedKept DEF Reading, InOrder, Ended, Handed, Exhausted
    <3> QED
      BY <3>3, <3>4 DEF Reading
  <2> QED
    BY <2>1, <2>2, <2>3, <2>4, <2>5, <2>6, <2>7 DEF Step
<1>5. FileOfBlocks(lens)'
  BY <1>2, <1>3, FileKept
<1> QED
  BY <1>2, <1>3, <1>4, <1>5 DEF Inv, Written

LEMMA InvIsKept == Inv /\ [Next]_vars => Inv'
<1>1. ReadCall => AnyRead
  BY ReaderAssumption DEF ReadCall, AnyRead
<1> QED
  BY <1>1, StepReads DEF Next

StartOf(d, lens) ==
    /\ d \in Seq(Nat) /\ Len(d) <= Total(lens, Len(lens))
    /\ \A k \in 1 .. Len(d) : d[k] = k

LEMMA StartIsPrefix ==
    ASSUME NEW lens \in Lengths
    PROVE  /\ Len(Stream(lens)) = Total(lens, Len(lens))
           /\ \A d : StartOf(d, lens) => IsPrefix(d, Stream(lens))
<1>1. PICK T, c : T = Total(lens, Len(lens)) /\ c = Stream(lens)
  OBVIOUS
<1>2. T \in Nat
  <2>1. Len(lens) \in Nat /\ \A j \in 1 .. Len(lens) : lens[j] \in Nat
    BY DEF Lengths
  <2> QED
    BY <1>1, <2>1, TotalIsNat
<1>3. c = [k \in 1 .. T |-> k]
  BY <1>1 DEF Stream
<1>4. c \in Seq(Nat) /\ Len(c) = T
  <2>1. c \in [1 .. T -> Nat]
    BY <1>2, <1>3
  <2> QED
    BY <1>2, <2>1, FunctionIsSeq
<1>5. ASSUME NEW d, StartOf(d, lens) PROVE IsPrefix(d, c)
  <2>1. d \in Seq(Nat) /\ Len(d) <= T /\ \A k \in 1 .. Len(d) : d[k] = k
    BY <1>1, <1>5 DEF StartOf
  <2>2. PICK n \in Nat : n = Len(d) /\ n <= T
    BY <2>1
  <2>3. SubSeq(d, 1, n) = d
    BY <2>1, <2>2
  <2>4. SubSeq(c, 1, n) = [k \in 1 .. n |-> k]
    BY <1>2, <1>3, <1>4, <2>2
  <2>5. d = [k \in 1 .. n |-> k]
    BY <2>1, <2>2
  <2>6. SubSeq(d, 1, n) = SubSeq(c, 1, n)
    BY <2>3, <2>4, <2>5
  <2> QED
    BY <1>4, <2>2, <2>6 DEF IsPrefix
<1> QED
  BY <1>1, <1>4, <1>5

LEMMA HandedIsPrefix ==
    ASSUME Inv, Undamaged(file)
    PROVE  IsPrefix(delivered, content)
<1>1. PICK lens \in Lengths : Written(lens) /\ Reading(lens)
  BY DEF Inv
<1>2. delivered \in Seq(Nat) /\ outputBufferPos \in Nat /\ outputBufferLen \in Nat
      /\ outputBufferPos <= outputBufferLen
  BY <1>1 DEF Reading, Fields
<1>3. /\ Len(delivered) + Available <= Total(lens, Len(lens))
      /\ \A k \in 1 .. Len(delivered) : delivered[k] = k
  BY <1>1 DEF Reading, InOrder, Handed
<1>4. Total(lens, Len(lens)) \in Nat
  <2>1. Len(lens) \in Nat /\ \A j \in 1 .. Len(lens) : lens[j] \in Nat
    BY DEF Lengths
  <2> QED
    BY <2>1, TotalIsNat
<1>5. Len(delivered) <= Total(lens, Len(lens))
  BY <1>2, <1>3, <1>4 DEF Available
<1>6. StartOf(delivered, lens)
  BY <1>2, <1>3, <1>5 DEF StartOf
<1> QED
  BY <1>1, <1>6, StartIsPrefix DEF Written

LEMMA ExhaustedIsComplete ==
    ASSUME Inv, Exhausted, ~failed
    PROVE  Len(delivered) = Len(BytesIn(file)) /\ Len(file) % 3 = 0
<1>1. PICK lens \in Lengths : Written(lens) /\ Reading(lens)
  BY DEF Inv
<1>2. PICK i \in 0 .. Len(lens) : Behind(lens, i) /\ Len(delivered) + Available = Total(lens, i)
  BY <1>1 DEF Reading, Counted
<1>3. Len(file) = 3 * i /\ (i # 0 => file[3 * i] # Part) /\ i \in Int
  BY <1>2 DEF Behind, Exhausted
<1>4. Len(BytesIn(file)) = Total(lens, i)
  BY <1>1, <1>3, BytesOfBlocks DEF Written
<1>5. Len(delivered) = Total(lens, i)
  <2>1. Len(delivered) \in Nat /\ Available = 0
    BY <1>1 DEF Reading, Fields, Exhausted
  <2> QED
    BY <1>2, <2>1
<1>6. Len(file) % 3 = 0
  BY <1>3
<1> QED
  BY <1>4, <1>5, <1>6

(* Reading an undamaged file, whole or cut, gives a prefix of the bytes it *)
(* was written from, whatever the sizes of its blocks and of the arrays it *)
(* is read into: no byte of an earlier, larger block shows again.          *)
THEOREM ReadsInOrder == Spec => []ReadInOrder
<1>1. Inv => ReadInOrder
  BY HandedIsPrefix DEF ReadInOrder
<1> QED
  BY <1>1, InitReads, InvIsKept, PTL DEF Spec

(* When the end of the file is answered and nothing was thrown before, the *)
(* bytes handed out are as many as there are in the blocks of the file,    *)
(* which does not end inside a block.                                      *)
THEOREM EndsComplete == Spec => []EndIsComplete
<1>1. Inv => EndIsComplete
  <2>1. Inv /\ result = "end" => Exhausted
    BY DEF Inv, Reading, Ended
  <2> QED
    BY <2>1, ExhaustedIsComplete DEF EndIsComplete
<1> QED
  BY <1>1, InitReads, InvIsKept, PTL DEF Spec

-----------------------------------------------------------------------------
(* The stream behind java.io.InputStream's read of an array *)

(* A caller who was not told of an exception had none, and -1 means that   *)
(* there is nothing left.                                                  *)
Told == wrapped => (failed => noticed) /\ (answer = "end" => Exhausted)

CommonsInv == Inv /\ Told

(* Nothing but the end can be read where there is nothing left. *)
LEMMA ExhaustedOnlyEnds ==
    ASSUME Inv, Exhausted
    PROVE  ~Deliver /\ ~CutShort /\ ~ReadBlock /\ ~ReadGarbled
<1>1. pos \in Nat /\ pos = Len(file) /\ Available = 0
  BY DEF Inv, Reading, Fields, Exhausted
<1>2. ~Whole(3) /\ ~(pos < Len(file))
  <2>1. ~(pos + 3 <= Len(file)) /\ ~(pos < Len(file))
    BY <1>1
  <2> QED
    BY <2>1 DEF Whole
<1> QED
  BY <1>1, <1>2 DEF Deliver, CutShort, ReadBlock, ReadGarbled

LEMMA StillExhausted ==
    ASSUME Exhausted, \/ UNCHANGED vars \/ AnyRead \/ EndOfFile
    PROVE  Exhausted' /\ failed' = failed
<1>1. /\ file' = file /\ pos' = pos /\ failed' = failed
      /\ outputBufferPos' = outputBufferPos /\ outputBufferLen' = outputBufferLen
  BY DEF vars, output, AnyRead, Read, EndOfFile, EndRead
<1> QED
  BY <1>1 DEF Exhausted, Available

LEMMA CommonsStepReads ==
    CommonsInv /\ [CommonsNext]_commonsVars => CommonsInv'
<1>1. SUFFICES ASSUME CommonsInv, [CommonsNext]_commonsVars PROVE CommonsInv'
  OBVIOUS
<1>2. Inv /\ Told
  BY <1>1 DEF CommonsInv
<1>3. ReadCall => AnyRead
  BY ReaderAssumption DEF ReadCall, AnyRead
<1>4. Read(1) => AnyRead
  BY DEF AnyRead
<1>5. ASSUME UNCHANGED vars \/ AnyRead, UNCHANGED <<wrapped, answer, noticed>>
      PROVE  CommonsInv'
  <2>1. Inv'
    BY <1>2, <1>5, StepReads
  <2>2. failed' = failed
    BY <1>5 DEF vars, AnyRead, Read
  <2>3. Exhausted => Exhausted'
    BY <1>5, StillExhausted
  <2> QED
    BY <1>2, <1>5, <2>1, <2>2, <2>3 DEF CommonsInv, Told
<1>6. CASE UNCHANGED commonsVars
  BY <1>5, <1>6 DEF commonsVars, call
<1>7. CASE DirectRead
  BY <1>3, <1>5, <1>7 DEF DirectRead, call
<1>8. ASSUME NEW len \in ReadLens, ArrayRead(len) PROVE CommonsInv'
  BY <1>5, <1>8 DEF ArrayRead
<1>9. CASE NextByte
  BY <1>4, <1>5, <1>9 DEF NextByte, call
<1>10. CASE DirectStep
  <2>1. Inv'
    BY <1>2, <1>10, StepReads DEF DirectStep
  <2> QED
    BY <1>10, <2>1 DEF DirectStep, CommonsInv, Told
<1>11. CASE WrapperStep
  <2>1. wrapped /\ wrapped' = wrapped
    BY <1>11 DEF WrapperStep
  <2>2. CASE TakeByte
    <3>1. Deliver /\ failed' = failed
      BY <2>2 DEF TakeByte, Deliver
    <3>2. Inv' /\ ~Exhausted
      BY <1>2, <3>1, StepReads, ExhaustedOnlyEnds DEF Step
    <3>3. answer # "end"
      BY <1>2, <2>1, <3>2 DEF Told
    <3>4. answer' # "end" /\ (noticed => noticed')
      BY <2>2, <3>3 DEF TakeByte, Answer, KeepCall
    <3> QED
      BY <1>2, <2>1, <3>1, <3>2, <3>4 DEF CommonsInv, Told
  <2>3. CASE TakeEnd
    <3>1. EndOfFile
      BY <2>3 DEF TakeEnd
    <3>2. Exhausted
      BY <3>1 DEF EndOfFile, Filling, Exhausted
    <3>3. Inv' /\ Exhausted' /\ failed' = failed
      BY <1>2, <3>1, <3>2, StepReads, StillExhausted DEF Step
    <3>4. noticed => noticed'
      BY <2>3 DEF TakeEnd, Answer
    <3> QED
      BY <1>2, <2>1, <3>3, <3>4 DEF CommonsInv, Told
  <2>4. CASE TakeIOException
    <3>1. Inv'
      BY <1>2, <2>4, StepReads DEF TakeIOException, Step
    <3>2. answer' # "end" /\ noticed'
      BY <2>4 DEF TakeIOException, Answer
    <3> QED
      BY <3>1, <3>2 DEF CommonsInv, Told
  <2>5. CASE TakeRuntimeException
    <3>1. Inv'
      BY <1>2, <2>5, StepReads DEF TakeRuntimeException, Step
    <3>2. answer' # "end" /\ noticed'
      BY <2>5 DEF TakeRuntimeException, Answer
    <3> QED
      BY <3>1, <3>2 DEF CommonsInv, Told
  <2>6. CASE GoOn
    <3>1. Inv' /\ ~Exhausted
      BY <1>2, <2>6, StepReads, ExhaustedOnlyEnds DEF GoOn, Step
    <3>2. failed' = failed
      <4>1. CASE ReadBlock
        BY <4>1 DEF ReadBlock, Filled
      <4>2. CASE ReadGarbled /\ want' # Idle
        BY <4>2 DEF ReadGarbled, Filled, ThrowRead
      <4> QED
        BY <2>6, <4>1, <4>2 DEF GoOn
    <3>3. answer' = answer /\ noticed' = noticed
      BY <2>6 DEF GoOn
    <3> QED
      BY <1>2, <2>1, <3>1, <3>2, <3>3 DEF CommonsInv, Told
  <2> QED
    BY <1>11, <2>2, <2>3, <2>4, <2>5, <2>6 DEF WrapperStep
<1> QED
  BY <1>1, <1>6, <1>7, <1>8, <1>9, <1>10, <1>11 DEF CommonsNext, StreamRead, StreamStep

(* What is left of the two when the stream is read through commons-compress *)
(* and an exception is dropped: the arrays hold a prefix of the bytes of an *)
(* undamaged file, however the calls ended, and a caller whose arrays were  *)
(* all filled until -1 came has every byte of a file cut in no block.       *)
THEOREM ArraysAreTold == CommonsSpec => []ArraysTell
<1>1. CommonsInit => CommonsInv
  <2>1. CommonsInit => Init /\ failed = FALSE /\ answer = "none"
    BY DEF CommonsInit, Init, ReaderInit
  <2> QED
    BY <2>1, InitReads DEF CommonsInv, Told
<1>2. CommonsInv => ArraysTell
  <2>1. SUFFICES ASSUME CommonsInv, wrapped
        PROVE  /\ Undamaged(file) => IsPrefix(delivered, content)
               /\ answer = "end" /\ ~noticed =>
                       Len(delivered) = Len(BytesIn(file)) /\ Len(file) % 3 = 0
    BY DEF ArraysTell
  <2>2. Inv /\ (failed => noticed) /\ (answer = "end" => Exhausted)
    BY <2>1 DEF CommonsInv, Told
  <2> QED
    BY <2>2, HandedIsPrefix, ExhaustedIsComplete
<1> QED
  BY <1>1, <1>2, CommonsStepReads, PTL DEF CommonsSpec

-----------------------------------------------------------------------------
(* LzopInputStream: the file of a list of blocks *)

PackedSize(lens, shrunk, i) == IF i \in shrunk THEN lens[i] - 1 ELSE lens[i]

Blocks(on, lens, shrunk) ==
    [i \in DOMAIN lens |-> LzopBlock(on, BlockAt(lens, i), PackedSize(lens, shrunk, i))]

Wrote(lens, shrunk) ==
    lens \in Lengths /\ shrunk \subseteq DOMAIN lens /\ \A i \in shrunk : lens[i] > 1

(* How many tokens the first i blocks have. *)
Off(on, lens, shrunk, i) == Total(Lens(Blocks(on, lens, shrunk)), i)

BlockShape(f, o, on, lens, shrunk, i) ==
    BlockBehind(f, o, on, BlockAt(lens, i), i \in shrunk, PackedSize(lens, shrunk, i))

LEMMA BlockOf ==
    ASSUME NEW on, NEW lens, NEW shrunk, Wrote(lens, shrunk), NEW i \in 1 .. Len(lens)
    PROVE  /\ Blocks(on, lens, shrunk)[i] \in Seq(LzopTokens)
           /\ Len(Blocks(on, lens, shrunk)[i]) = SizeOf(on, i \in shrunk)
           /\ BlockShape(Blocks(on, lens, shrunk)[i], 0, on, lens, shrunk, i)
<1>1. lens \in Lengths /\ DOMAIN lens = 1 .. Len(lens) /\ (i \in shrunk => lens[i] > 1)
  BY DEF Wrote, Lengths
<1>2. PICK b, p, t : b = BlockAt(lens, i) /\ p = PackedSize(lens, shrunk, i)
                     /\ t = Blocks(on, lens, shrunk)[i]
  OBVIOUS
<1>3. b \in Seq(Nat) /\ Len(b) = lens[i] /\ lens[i] \in Nat
  BY <1>1, <1>2, BlockBytesAt
<1>4. p \in Nat /\ p <= Len(b) /\ (i \in shrunk <=> p < Len(b))
  BY <1>1, <1>2, <1>3 DEF PackedSize
<1>5. t = LzopBlock(on, b, p)
  BY <1>1, <1>2 DEF Blocks
<1>6. PICK packed : packed = (i \in shrunk)
  OBVIOUS
<1>7. /\ t \in Seq(LzopTokens) /\ Len(t) = SizeOf(on, packed)
      /\ BlockBehind(t, 0, on, b, packed, p)
  <2>1. packed \in BOOLEAN
    BY <1>6
  <2>2. IsBlock(t, on, b, packed, p)
    BY <1>4, <1>5, <1>6 DEF IsBlock
  <2> QED
    BY <1>3, <1>4, <2>1, <2>2, LzopBlockTokens
<1> QED
  BY <1>2, <1>6, <1>7 DEF BlockShape

FileShape(f, on, lens, shrunk) ==
    /\ Len(f) = Off(on, lens, shrunk, Len(lens)) + 2
    /\ f[1] = Header(on)
    /\ f[Off(on, lens, shrunk, Len(lens)) + 2] = Terminator
    /\ \A i \in 1 .. Len(lens) : BlockShape(f, 1 + Off(on, lens, shrunk, i - 1), on, lens, shrunk, i)

LEMMA Offsets ==
    ASSUME NEW on, NEW lens, NEW shrunk, Wrote(lens, shrunk)
    PROVE  /\ \A i \in 0 .. Len(lens) : Off(on, lens, shrunk, i) \in Nat
           /\ Off(on, lens, shrunk, 0) = 0
           /\ \A i \in 0 .. Len(lens) : Off(on, lens, shrunk, i) <= Off(on, lens, shrunk, Len(lens))
           /\ \A i \in 1 .. Len(lens) :
                Off(on, lens, shrunk, i) = Off(on, lens, shrunk, i - 1) + SizeOf(on, i \in shrunk)
<1>1. PICK g, n : g = Lens(Blocks(on, lens, shrunk)) /\ n = Len(lens)
  OBVIOUS
<1>2. n \in Nat /\ DOMAIN lens = 1 .. n
  BY <1>1 DEF Wrote, Lengths
<1>3. \A j \in 1 .. n : g[j] = SizeOf(on, j \in shrunk) /\ g[j] \in Nat
  <2>1. TAKE j \in 1 .. n
  <2>2. Len(Blocks(on, lens, shrunk)[j]) = SizeOf(on, j \in shrunk)
    BY <1>1, BlockOf
  <2>3. g[j] = Len(Blocks(on, lens, shrunk)[j])
    BY <1>1, <1>2 DEF Lens, Blocks
  <2>4. SizeOf(on, j \in shrunk) \in Nat
    <3>1. (j \in shrunk) \in BOOLEAN
      OBVIOUS
    <3> QED
      BY <3>1, NamesLens
  <2> QED
    BY <2>2, <2>3, <2>4
<1>4. \A i \in 0 .. n : Total(g, i) \in Nat
  <2>1. TAKE i \in 0 .. n
  <2>2. i \in Nat /\ \A j \in 1 .. i : g[j] \in Nat
    BY <1>2, <1>3
  <2> QED
    BY <2>2, TotalIsNat
<1>5. \A i \in 0 .. n : Total(g, i) <= Total(g, n)
  BY <1>2, <1>3, TotalIsMonotone
<1>6. \A i \in 1 .. n : Total(g, i) = Total(g, i - 1) + SizeOf(on, i \in shrunk)
  <2>1. TAKE i \in 1 .. n
  <2>2. PICK h \in Nat : h = i - 1
    OBVIOUS
  <2>3. h + 1 = i /\ \A j \in 1 .. h + 1 : g[j] \in Nat
    BY <1>2, <1>3, <2>2
  <2>4. Total(g, h + 1) = Total(g, h) + g[h + 1]
    BY <2>3, TotalGrows
  <2> QED
    BY <1>3, <2>2, <2>3, <2>4
<1>7. Total(g, 0) = 0
  BY TotalOfNone
<1> QED
  BY <1>1, <1>4, <1>5, <1>6, <1>7 DEF Off

LEMMA FileTokens ==
    ASSUME NEW on, NEW lens, NEW shrunk, Wrote(lens, shrunk),
           NEW f, f = FileOf(on, lens, shrunk)
    PROVE  f \in Seq(LzopTokens \cup {Header(on)}) /\ FileShape(f, on, lens, shrunk)
<1>1. PICK s, m, n, S : /\ s = Blocks(on, lens, shrunk) /\ m = FlattenSeq(s) /\ n = Len(lens)
                        /\ S = LzopTokens \cup {Header(on)}
  OBVIOUS
<1>2. n \in Nat /\ DOMAIN lens = 1 .. n
  BY <1>1 DEF Wrote, Lengths
<1>3. s \in Seq(Seq(S)) /\ Len(s) = n
  <2>1. \A i \in 1 .. n : s[i] \in Seq(S)
    <3>1. \A i \in 1 .. n : s[i] \in Seq(LzopTokens)
      BY <1>1, BlockOf
    <3>2. LzopTokens \subseteq S
      BY <1>1
    <3>3. Seq(LzopTokens) \subseteq Seq(S)
      BY <3>2, SeqMonotonic
    <3> QED
      BY <3>1, <3>3
  <2>2. s = [i \in 1 .. n |-> s[i]]
    BY <1>1, <1>2 DEF Blocks
  <2>3. s \in [1 .. n -> Seq(S)]
    BY <2>1, <2>2
  <2> QED
    BY <1>2, <2>3, FunctionIsSeq
<1>4. m \in Seq(S) /\ Pieces(s, n, m)
  BY <1>1, <1>3, FlattenPieces
<1>5. PICK h, e : h = <<Header(on)>> /\ e = <<Terminator>>
  OBVIOUS
<1>6. h \in Seq(S) /\ Len(h) = 1 /\ h[1] = Header(on)
  BY <1>1, <1>5
<1>7. e \in Seq(S) /\ Len(e) = 1 /\ e[1] = Terminator
  <2>1. Terminator \in S
    BY <1>1 DEF Terminator, Word, LzopTokens, Tokens, WordTokens
  <2> QED
    BY <1>5, <2>1
<1>8. f = h \o m \o e
  <2>1. s = [i \in DOMAIN lens |-> LzopBlock(on, BlockAt(lens, i), IF i \in shrunk THEN lens[i] - 1 ELSE lens[i])]
    BY <1>1 DEF Blocks, PackedSize
  <2> QED
    BY <1>1, <1>5, <2>1 DEF FileOf
<1>9. PICK u : u = h \o m
  OBVIOUS
<1>10. u \in Seq(S) /\ Joined(h, m, u)
  <2>1. JoinOf(S, h, m, u)
    BY <1>4, <1>6, <1>9 DEF JoinOf
  <2> QED
    BY <2>1, JoinedParts
<1>11. f \in Seq(S) /\ Joined(u, e, f)
  <2>1. JoinOf(S, u, e, f)
    BY <1>7, <1>8, <1>9, <1>10 DEF JoinOf
  <2> QED
    BY <2>1, JoinedParts
<1>12. PICK z \in Nat : z = Len(m)
  BY <1>4
<1>13. Len(u) = 1 + z /\ u[1] = Header(on) /\ \A k \in 1 .. z : u[1 + k] = m[k]
  BY <1>6, <1>10, <1>12 DEF Joined
<1>14. Len(f) = z + 2 /\ f[z + 2] = Terminator /\ \A k \in 1 .. 1 + z : f[k] = u[k]
  <2>1. Len(f) = (1 + z) + 1 /\ f[(1 + z) + 1] = Terminator /\ \A k \in 1 .. 1 + z : f[k] = u[k]
    BY <1>7, <1>11, <1>13 DEF Joined
  <2>2. (1 + z) + 1 = z + 2
    OBVIOUS
  <2> QED
    BY <2>1, <2>2
<1>15. f[1] = Header(on) /\ \A k \in 1 .. z : f[1 + k] = m[k]
  BY <1>13, <1>14
<1>16. z = Off(on, lens, shrunk, n)
  BY <1>1, <1>4, <1>12 DEF Pieces, Off
<1>17. ASSUME NEW i \in 1 .. n
       PROVE  BlockShape(f, 1 + Off(on, lens, shrunk, i - 1), on, lens, shrunk, i)
  <2>1. PICK o, size, t : /\ o = Off(on, lens, shrunk, i - 1)
                          /\ size = SizeOf(on, i \in shrunk) /\ t = s[i]
    OBVIOUS
  <2>2. o \in Nat /\ o + size <= z /\ size \in Nat
    <3>1. i - 1 \in 0 .. Len(lens) /\ i \in 0 .. Len(lens) /\ (i \in shrunk) \in BOOLEAN
      BY <1>1, <1>2
    <3>2. Off(on, lens, shrunk, i) = o + size /\ o \in Nat
      BY <1>1, <2>1, <3>1, Offsets
    <3>3. Off(on, lens, shrunk, i) <= z
      BY <1>1, <1>16, <3>1, Offsets
    <3>4. size \in Nat
      BY <2>1, <3>1, NamesLens
    <3> QED
      BY <3>2, <3>3, <3>4
  <2>3. Len(t) = size /\ BlockShape(t, 0, on, lens, shrunk, i)
    BY <1>1, <2>1, BlockOf
  <2>4. \A k \in 1 .. size : m[o + k] = t[k]
    BY <1>1, <1>4, <2>1, <2>3 DEF Pieces, Off
  <2>5. \A k \in 1 .. size : f[1 + o + k] = t[0 + k]
    <3>1. TAKE k \in 1 .. size
    <3>2. o + k \in 1 .. z /\ 1 + (o + k) = 1 + o + k /\ 0 + k = k
      BY <2>2
    <3>3. f[1 + (o + k)] = m[o + k]
      BY <1>15, <3>2
    <3> QED
      BY <2>4, <3>2, <3>3
  <2>6. PICK b, p, packed : b = BlockAt(lens, i) /\ p = PackedSize(lens, shrunk, i) /\ packed = (i \in shrunk)
    OBVIOUS
  <2>7. BlockBehind(f, 1 + o, on, b, packed, p)
    <3>1. BlockBehind(t, 0, on, b, packed, p)
      BY <2>3, <2>6 DEF BlockShape
    <3>2. PICK x, y : x = Len(DNamesOf(on)) /\ y = Len(CNamesOf(on))
      OBVIOUS
    <3>3. x \in Nat /\ y \in Nat /\ size = 3 + x + (IF packed THEN y ELSE 0)
      BY <2>1, <2>6, <3>2, NamesLens DEF SizeOf
    <3>4. /\ f[1 + o + 1] = t[0 + 1] /\ f[1 + o + 2] = t[0 + 2] /\ f[1 + o + size] = t[0 + size]
      BY <2>5, <3>3
    <3>5. \A k \in 1 .. x : f[1 + o + 2 + k] = t[0 + 2 + k]
      <4>1. TAKE k \in 1 .. x
      <4>2. PICK h2 : h2 = 2 + k
        OBVIOUS
      <4>3. h2 \in 1 .. size /\ 1 + o + 2 + k = 1 + o + h2 /\ 0 + 2 + k = 0 + h2
        BY <2>2, <3>3, <4>2
      <4> QED
        BY <2>5, <4>3
    <3>6. packed => \A k \in 1 .. y : f[1 + o + 2 + x + k] = t[0 + 2 + x + k]
      <4>1. SUFFICES ASSUME packed, NEW k \in 1 .. y PROVE f[1 + o + 2 + x + k] = t[0 + 2 + x + k]
        OBVIOUS
      <4>2. PICK h2 : h2 = 2 + x + k
        OBVIOUS
      <4>3. h2 \in 1 .. size /\ 1 + o + 2 + x + k = 1 + o + h2 /\ 0 + 2 + x + k = 0 + h2
        BY <2>2, <3>3, <4>1, <4>2
      <4> QED
        BY <2>5, <4>3
    <3>7. f[1 + o + 1] = Word(Len(b)) /\ f[1 + o + 2] = Word(p)
      BY <3>1, <3>4 DEF BlockBehind
    <3>8. \A k \in 1 .. x : f[1 + o + 2 + k] = Checksum(DNamesOf(on)[k], Data(b, FALSE))
      BY <3>1, <3>2, <3>5 DEF BlockBehind
    <3>9. packed => \A k \in 1 .. y :
                f[1 + o + 2 + x + k] = Checksum(CNamesOf(on)[k], Data(b, TRUE))
      BY <3>1, <3>2, <3>6 DEF BlockBehind
    <3>10. f[1 + o + size] = Data(b, packed)
      BY <2>1, <2>6, <3>1, <3>4 DEF BlockBehind
    <3> QED
      BY <2>1, <2>6, <3>2, <3>7, <3>8, <3>9, <3>10 DEF BlockBehind
  <2> QED
    BY <2>1, <2>6, <2>7 DEF BlockShape
<1> QED
  BY <1>1, <1>11, <1>14, <1>15, <1>16, <1>17 DEF FileShape

-----------------------------------------------------------------------------
(* What is left of the file *)

LzopFile(on, lens, shrunk) ==
    Wrote(lens, shrunk) /\ TokensAged(FileOf(on, lens, shrunk), file)

(* The header and i blocks have been consumed. *)
LzopAt(on, lens, shrunk, i) ==
    flags = on /\ i \in 0 .. Len(lens) /\ pos = 1 + Off(on, lens, shrunk, i)

TokenKept(f, j) ==
    /\ f[j].kind \notin {"data", "sum"} => file[j] = f[j]
    /\ f[j].kind = "data" => file[j] = f[j] \/ file[j] = Harmed(f[j])
    /\ \A name, data : f[j] = Checksum(name, data) =>
         file[j] = f[j] \/ file[j] = Checksum(name, Data(<< >>, FALSE))

LEMMA Survives ==
    ASSUME NEW f, TokensAged(f, file), NEW j \in 1 .. Len(file), file[j] # Part
    PROVE  TokenKept(f, j)
<1>1. TokenAged(f, file, j)
  BY DEF TokensAged
<1>2. ASSUME NEW name, NEW data, f[j] = Checksum(name, data)
      PROVE  file[j] = f[j] \/ file[j] = Checksum(name, Data(<< >>, FALSE))
  <2>1. f[j].kind = "sum" /\ f[j].kind # "data"
    BY <1>2 DEF Checksum
  <2>2. CASE file[j] = [f[j] EXCEPT !.of = Data(<< >>, FALSE)]
    <3>1. PICK e : e = Data(<< >>, FALSE)
      OBVIOUS
    <3>2. file[j] = [[kind |-> "sum", name |-> name, of |-> data] EXCEPT !.of = e]
      BY <1>2, <2>2, <3>1 DEF Checksum
    <3>3. file[j] = [kind |-> "sum", name |-> name, of |-> e]
      BY <3>2
    <3> QED
      BY <3>1, <3>3 DEF Checksum
  <2> QED
    BY <1>1, <2>1, <2>2 DEF TokenAged
<1>3. /\ f[j].kind \notin {"data", "sum"} => file[j] = f[j]
      /\ f[j].kind = "data" => file[j] = f[j] \/ file[j] = Harmed(f[j])
  BY <1>1 DEF TokenAged
<1> QED
  BY <1>2, <1>3 DEF TokenKept

LEMMA WordAt ==
    ASSUME NEW on, NEW lens, NEW shrunk, LzopFile(on, lens, shrunk), Fields,
           NEW i, LzopAt(on, lens, shrunk, i), Whole(1)
    PROVE  /\ i # Len(lens) => i + 1 \in 1 .. Len(lens) /\ ULen = lens[i + 1] /\ lens[i + 1] \in Nat \ {0}
           /\ i = Len(lens) => ULen = 0
<1>1. PICK f, n, o : /\ f = FileOf(on, lens, shrunk) /\ n = Len(lens)
                     /\ o = Off(on, lens, shrunk, i)
  OBVIOUS
<1>2. FileShape(f, on, lens, shrunk) /\ TokensAged(f, file)
  BY <1>1, FileTokens DEF LzopFile
<1>3. /\ n \in Nat /\ i \in 0 .. n /\ pos \in Nat /\ pos = 1 + o /\ o \in Nat
      /\ pos + 1 <= Len(file) /\ file[pos + 1] # Part /\ Len(file) \in Nat
  <2>1. n \in Nat /\ i \in 0 .. n
    BY <1>1 DEF LzopFile, Wrote, Lengths, LzopAt
  <2>2. pos \in Nat /\ pos = 1 + o
    BY <1>1 DEF Fields, LzopAt
  <2>3. pos + 1 <= Len(file) /\ file[pos + 1] # Part
    BY DEF Whole
  <2>4. Len(file) \in Nat
    BY <1>2 DEF TokensAged
  <2>5. o \in Nat
    BY <1>1, <2>1, Offsets DEF LzopFile
  <2> QED
    BY <2>1, <2>2, <2>3, <2>4, <2>5
<1>4. pos + 1 \in 1 .. Len(file)
  BY <1>3
<1>5. CASE i # n
  <2>1. PICK j \in 1 .. n : j = i + 1 /\ j - 1 = i
    BY <1>3, <1>5
  <2>2. BlockShape(f, 1 + o, on, lens, shrunk, j)
    BY <1>1, <1>2, <2>1 DEF FileShape
  <2>3. Len(BlockAt(lens, j)) = lens[j] /\ lens[j] \in Nat \ {0}
    BY <1>1, BlockBytesAt DEF LzopFile, Wrote
  <2>4. f[pos + 1] = Word(lens[j])
    BY <1>3, <2>2, <2>3 DEF BlockShape, BlockBehind
  <2>5. file[pos + 1] = Word(lens[j])
    <3>1. TokenKept(f, pos + 1)
      BY <1>2, <1>3, <1>4, Survives
    <3> QED
      BY <2>4, <3>1 DEF TokenKept, Word
  <2> QED
    BY <1>1, <1>5, <2>1, <2>3, <2>5 DEF ULen, Word
<1>6. CASE i = n
  <2>1. f[pos + 1] = Terminator
    <3>1. pos + 1 = o + 2
      BY <1>3
    <3> QED
      BY <1>1, <1>2, <1>6, <3>1 DEF FileShape
  <2>2. file[pos + 1] = Terminator
    <3>1. TokenKept(f, pos + 1)
      BY <1>2, <1>3, <1>4, Survives
    <3> QED
      BY <2>1, <3>1 DEF TokenKept, Word, Terminator
  <2> QED
    BY <1>1, <1>6, <2>2 DEF ULen, Word, Terminator
<1> QED
  BY <1>5, <1>6

(* The block at pos is the one behind the i-th, with damaged data or a     *)
(* damaged checksum if it is not as it was written.                        *)
BlockIs(on, lens, shrunk, i, b, packed) ==
    /\ b \in Seq(Nat) /\ Len(b) = ULen /\ ULen \in Nat \ {0} /\ packed \in BOOLEAN
    /\ (Stored <=> ~packed)
    /\ i + 1 \in 0 .. Len(lens) /\ pos + BlockLen = 1 + Off(on, lens, shrunk, i + 1)
    /\ pos + BlockLen \in 1 .. Len(file)
    /\ BlockData \in {Data(b, packed), Harmed(Data(b, packed))}
    /\ \A k \in 1 .. Len(DNames) :
            file[pos + 2 + k] \in {Checksum(DNames[k], Data(x, FALSE)) : x \in {b, << >>}}
    /\ packed => \A k \in 1 .. Len(CNames) :
            file[pos + HeadLen + k] \in {Checksum(CNames[k], Data(b, TRUE)), Checksum(CNames[k], Data(<< >>, FALSE))}

LEMMA BlockTokensAt ==
    ASSUME NEW on, NEW lens, NEW shrunk, LzopFile(on, lens, shrunk), Fields,
           NEW i, LzopAt(on, lens, shrunk, i), BlockWhole, ULen # 0
    PROVE  BlockIs(on, lens, shrunk, i, BlockAt(lens, i + 1), i + 1 \in shrunk)
<1>1. PICK f, n, o, x, y : /\ f = FileOf(on, lens, shrunk) /\ n = Len(lens)
                           /\ o = Off(on, lens, shrunk, i)
                           /\ x = Len(DNamesOf(on)) /\ y = Len(CNamesOf(on))
  OBVIOUS
<1>2. FileShape(f, on, lens, shrunk) /\ TokensAged(f, file)
  BY <1>1, FileTokens DEF LzopFile
<1>3. DNames = DNamesOf(on) /\ CNames = CNamesOf(on)
  BY DEF LzopAt, DNames, CNames, Flagged, DNamesOf, CNamesOf, NamesOf
<1>4. x \in Nat /\ y \in Nat /\ HeadLen = 2 + x
  BY <1>1, <1>3, NamesLens DEF HeadLen
<1>5. BlockLen = 3 + x + (IF Stored THEN 0 ELSE y)
  <2>1. CASE Stored
    BY <1>4, <2>1 DEF BlockLen
  <2>2. CASE ~Stored
    <3>1. Len(CNames) = y
      BY <1>1, <1>3
    <3> QED
      BY <1>4, <2>2, <3>1 DEF BlockLen
  <2> QED
    BY <2>1, <2>2
<1>6. PICK size \in Nat : size = BlockLen /\ size >= 3 + x
  BY <1>4, <1>5
<1>7. /\ pos \in Nat /\ pos = 1 + o /\ pos + size <= Len(file) /\ Len(file) \in Nat
      /\ \A k \in 1 .. size : file[pos + k] # Part
  BY <1>1, <1>2, <1>6 DEF Fields, LzopAt, BlockWhole, Whole, TokensAged
<1>8. Whole(1)
  <2>1. pos + 1 <= Len(file) /\ \A k \in 1 .. 1 : file[pos + k] # Part
    <3>1. 1 \in 1 .. size /\ \A k \in 1 .. 1 : k \in 1 .. size
      BY <1>4, <1>6
    <3> QED
      BY <1>6, <1>7, <3>1
  <2> QED
    BY <2>1 DEF Whole
<1>9. i + 1 \in 1 .. n /\ i \in Int /\ n \in Nat
  BY <1>1, <1>8, WordAt DEF LzopAt, LzopFile, Wrote, Lengths
<1>10. PICK j \in 1 .. n : j = i + 1 /\ j - 1 = i
  BY <1>9
<1>11. PICK b, packed, p : /\ b = BlockAt(lens, j) /\ packed = (j \in shrunk)
                           /\ p = PackedSize(lens, shrunk, j)
  OBVIOUS
<1>12. packed \in BOOLEAN
  BY <1>11
<1>13. b \in Seq(Nat) /\ Len(b) = lens[j] /\ lens[j] \in Nat \ {0}
  BY <1>1, <1>11, BlockBytesAt DEF LzopFile, Wrote
<1>14. BlockBehind(f, pos, on, b, packed, p)
  BY <1>1, <1>2, <1>7, <1>10, <1>11 DEF FileShape, BlockShape
<1>15. \A k \in 1 .. size : pos + k \in 1 .. Len(file) /\ TokenKept(f, pos + k)
  <2>1. TAKE k \in 1 .. size
  <2>2. pos + k \in 1 .. Len(file) /\ file[pos + k] # Part
    BY <1>7
  <2> QED
    BY <1>2, <2>2, Survives
<1>16. file[pos + 1] = Word(lens[j]) /\ file[pos + 2] = Word(p)
  <2>1. f[pos + 1] = Word(lens[j]) /\ f[pos + 2] = Word(p)
    BY <1>13, <1>14 DEF BlockBehind
  <2>2. 1 \in 1 .. size /\ 2 \in 1 .. size
    BY <1>4, <1>6
  <2> QED
    <3>1. TokenKept(f, pos + 1) /\ TokenKept(f, pos + 2)
      BY <1>15, <2>2
    <3> QED
      BY <2>1, <3>1 DEF TokenKept, Word
<1>17. ULen = lens[j] /\ (Stored <=> p = lens[j])
  BY <1>16 DEF ULen, Stored, Word
<1>18. Stored <=> ~packed
  <2>1. CASE j \in shrunk
    <3>1. p = lens[j] - 1 /\ packed
      BY <1>11, <2>1 DEF PackedSize
    <3> QED
      BY <1>13, <1>17, <3>1
  <2>2. CASE j \notin shrunk
    <3>1. p = lens[j] /\ ~packed
      BY <1>11, <2>2 DEF PackedSize
    <3> QED
      BY <1>17, <3>1
  <2> QED
    BY <2>1, <2>2
<1>19. size = SizeOf(on, packed)
  BY <1>1, <1>5, <1>6, <1>12, <1>18 DEF SizeOf
<1>20. pos + size = 1 + Off(on, lens, shrunk, j)
  <2>1. Off(on, lens, shrunk, j) = Off(on, lens, shrunk, j - 1) + SizeOf(on, j \in shrunk)
    BY <1>1, Offsets DEF LzopFile
  <2>2. Off(on, lens, shrunk, j) = o + size
    BY <1>1, <1>10, <1>11, <1>19, <2>1
  <2>3. o \in Nat
    <3>1. i \in 0 .. Len(lens)
      BY <1>1, <1>9
    <3> QED
      BY <1>1, <3>1, Offsets DEF LzopFile
  <2> QED
    BY <1>7, <2>2, <2>3
<1>21. file[pos + size] \in {Data(b, packed), Harmed(Data(b, packed))}
  <2>1. f[pos + size] = Data(b, packed)
    BY <1>14, <1>19 DEF BlockBehind
  <2>2. size \in 1 .. size
    BY <1>4, <1>6
  <2> QED
    <3>1. TokenKept(f, pos + size)
      BY <1>15, <2>2
    <3> QED
      BY <2>1, <3>1 DEF TokenKept, Data
<1>22. \A k \in 1 .. x :
         file[pos + 2 + k] \in {Checksum(DNames[k], Data(z, FALSE)) : z \in {b, << >>}}
  <2>1. TAKE k \in 1 .. x
  <2>2. PICK h : h = 2 + k
    OBVIOUS
  <2>3. h \in 1 .. size /\ pos + 2 + k = pos + h
    BY <1>4, <1>6, <1>7, <2>2
  <2>4. f[pos + h] = Checksum(DNames[k], Data(b, FALSE))
    BY <1>1, <1>3, <1>14, <2>3 DEF BlockBehind
  <2>5. \/ file[pos + h] = Checksum(DNames[k], Data(b, FALSE))
        \/ file[pos + h] = Checksum(DNames[k], Data(<< >>, FALSE))
    <3>1. TokenKept(f, pos + h)
      BY <1>15, <2>3
    <3> QED
      BY <2>4, <3>1 DEF TokenKept
  <2> QED
    BY <2>3, <2>5
<1>23. ASSUME packed
       PROVE  \A k \in 1 .. y : file[pos + HeadLen + k] \in
                {Checksum(CNames[k], Data(b, TRUE)), Checksum(CNames[k], Data(<< >>, FALSE))}
  <2>1. TAKE k \in 1 .. y
  <2>2. PICK h : h = 2 + x + k
    OBVIOUS
  <2>3. size = 3 + x + y
    BY <1>5, <1>6, <1>18, <1>23
  <2>4. h \in 1 .. size /\ pos + HeadLen + k = pos + h /\ pos + 2 + x + k = pos + h
    BY <1>4, <1>7, <2>2, <2>3
  <2>5. f[pos + h] = Checksum(CNames[k], Data(b, TRUE))
    BY <1>1, <1>3, <1>14, <1>23, <2>4 DEF BlockBehind
  <2>6. \/ file[pos + h] = Checksum(CNames[k], Data(b, TRUE))
        \/ file[pos + h] = Checksum(CNames[k], Data(<< >>, FALSE))
    <3>1. TokenKept(f, pos + h)
      BY <1>15, <2>4
    <3> QED
      BY <2>5, <3>1 DEF TokenKept
  <2> QED
    BY <2>4, <2>6
<1>24. pos + BlockLen \in 1 .. Len(file) /\ i + 1 \in 0 .. Len(lens)
  <2>1. size \in 1 .. size
    BY <1>4, <1>6
  <2> QED
    BY <1>1, <1>6, <1>9, <1>15, <2>1
<1>25. BlockIs(on, lens, shrunk, i, b, packed)
  <2>1. Len(b) = ULen /\ ULen \in Nat \ {0}
    BY <1>13, <1>17
  <2>2. pos + BlockLen = 1 + Off(on, lens, shrunk, i + 1)
    BY <1>6, <1>10, <1>20
  <2>3. BlockData \in {Data(b, packed), Harmed(Data(b, packed))}
    BY <1>6, <1>21 DEF BlockData
  <2>4. Len(DNames) = x /\ Len(CNames) = y
    BY <1>1, <1>3
  <2> QED
    BY <1>12, <1>13, <1>18, <1>22, <1>23, <1>24, <2>1, <2>2, <2>3, <2>4 DEF BlockIs
<1> QED
  BY <1>10, <1>11, <1>25

-----------------------------------------------------------------------------
(* What the checksums tell *)

LEMMA SumsTellApart ==
    ASSUME NEW name, NEW d, NEW e, Checksum(name, d) = Checksum(name, e)
    PROVE  d = e
<1>1. Checksum(name, d).of = d /\ Checksum(name, e).of = e
  BY DEF Checksum
<1> QED
  BY <1>1

LEMMA DataTellApart ==
    ASSUME NEW x, NEW y, NEW p, NEW q, Data(x, p) = Data(y, q)
    PROVE  x = y
<1>1. Data(x, p).bytes = x /\ Data(y, q).bytes = y
  BY DEF Data
<1> QED
  BY <1>1

(* Bytes that pass the test of a checksum of bytes are those of the block. *)
LEMMA DSumTells ==
    ASSUME NEW on, NEW lens, NEW shrunk, NEW i, NEW b, NEW packed,
           BlockIs(on, lens, shrunk, i, b, packed),
           NEW buf \in Seq(Nat), ULen <= Len(buf), DMatch(buf), 1 \in DOMAIN DNames
    PROVE  SubSeq(buf, 1, ULen) = b
<1>1. PICK x : x = SubSeq(buf, 1, ULen)
  OBVIOUS
<1>2. ULen \in Nat \ {0} /\ 1 \in 1 .. Len(DNames)
  <2>1. DOMAIN DNames = 1 .. Len(DNames)
    <3>1. DNames = DNamesOf(flags)
      BY DEF DNames, Flagged, DNamesOf, NamesOf
    <3>2. DNamesOf(flags) \in Seq({"ADLER32_D", "CRC32_D"})
      BY NamesAreSeq DEF DNamesOf
    <3> QED
      BY <3>1, <3>2
  <2> QED
    BY <2>1 DEF BlockIs
<1>3. Len(x) = ULen /\ x # << >>
  BY <1>1, <1>2
<1>4. file[pos + 2 + 1] = Checksum(DNames[1], Data(x, FALSE))
  BY <1>1 DEF DMatch, Match
<1>5. \/ file[pos + 2 + 1] = Checksum(DNames[1], Data(b, FALSE))
      \/ file[pos + 2 + 1] = Checksum(DNames[1], Data(<< >>, FALSE))
  BY <1>2 DEF BlockIs
<1>6. Data(x, FALSE) = Data(b, FALSE) \/ Data(x, FALSE) = Data(<< >>, FALSE)
  BY <1>4, <1>5, SumsTellApart
<1>7. x = b \/ x = << >>
  BY <1>6, DataTellApart
<1> QED
  BY <1>1, <1>3, <1>7

(* Damaged data does not pass the test of a checksum of compressed data. *)
LEMMA CSumTells ==
    ASSUME NEW on, NEW lens, NEW shrunk, NEW i, NEW b,
           BlockIs(on, lens, shrunk, i, b, TRUE), CMatch, 1 \in DOMAIN CNames
    PROVE  BlockData.intact
<1>1. 1 \in 1 .. Len(CNames)
  <2>1. CNames = CNamesOf(flags)
    BY DEF CNames, Flagged, CNamesOf, NamesOf
  <2>2. CNamesOf(flags) \in Seq({"ADLER32_C", "CRC32_C"})
    BY NamesAreSeq DEF CNamesOf
  <2> QED
    BY <2>1, <2>2
<1>2. file[pos + HeadLen + 1] = Checksum(CNames[1], BlockData)
  BY DEF CMatch, Match
<1>3. \/ file[pos + HeadLen + 1] = Checksum(CNames[1], Data(b, TRUE))
      \/ file[pos + HeadLen + 1] = Checksum(CNames[1], Data(<< >>, FALSE))
  BY <1>1 DEF BlockIs
<1>4. BlockData = Data(b, TRUE) \/ BlockData = Data(<< >>, FALSE)
  BY <1>2, <1>3, SumsTellApart
<1> QED
  BY <1>4 DEF Data

(* A block that is read with no exception, in a file all of whose damage   *)
(* the checksums cover, is as it was written.                              *)
LEMMA CoveredIsRead ==
    ASSUME NEW on, NEW lens, NEW shrunk, NEW i, NEW b, NEW packed,
           BlockIs(on, lens, shrunk, i, b, packed), DOMAIN file = 1 .. Len(file), Guarded,
           NEW buf \in Seq(Nat), ULen <= Len(buf), DMatch(buf), Stored \/ CMatch,
           BlockData.intact => SubSeq(buf, 1, ULen) = BlockData.bytes
    PROVE  SubSeq(buf, 1, ULen) = b
<1>1. /\ BlockData = Data(b, packed) \/ BlockData = Harmed(Data(b, packed))
      /\ packed \in BOOLEAN /\ (Stored <=> ~packed)
  BY DEF BlockIs
<1>2. CASE BlockData.intact
  <2>1. BlockData = Data(b, packed)
    BY <1>1, <1>2 DEF Harmed, Data
  <2>2. BlockData.bytes = b
    BY <2>1 DEF Data
  <2> QED
    BY <1>2, <2>2
<1>3. CASE ~BlockData.intact
  <2>1. BlockData = Harmed(Data(b, packed))
    BY <1>1, <1>3 DEF Data
  <2>2. BlockData.kind = "data" /\ BlockData.packed = packed
    BY <2>1 DEF Harmed, Data
  <2>3. Covered(BlockData)
    <3>1. pos + BlockLen \in DOMAIN file
      BY DEF BlockIs
    <3> QED
      BY <1>3, <2>2, <3>1 DEF Guarded, BlockData
  <2>4. CASE flags \cap {"ADLER32_D", "CRC32_D"} # {}
    <3>1. 1 \in DOMAIN DNames
      BY <2>4 DEF DNames, Flagged
    <3> QED
      BY <3>1, DSumTells
  <2>5. CASE packed /\ flags \cap {"ADLER32_C", "CRC32_C"} # {}
    <3>1. 1 \in DOMAIN CNames
      BY <2>5 DEF CNames, Flagged
    <3>2. BlockIs(on, lens, shrunk, i, b, TRUE) /\ CMatch
      BY <1>1, <2>5
    <3> QED
      BY <1>3, <3>1, <3>2, CSumTells
  <2> QED
    BY <2>2, <2>3, <2>4, <2>5 DEF Covered
<1> QED
  BY <1>2, <1>3

-----------------------------------------------------------------------------
(* The invariant *)

(* Nothing is kept of a reader that has thrown: whoever reads on is not    *)
(* promised anything.                                                      *)
Unopened == pos = 0 /\ delivered = << >> /\ Available = 0 /\ want = Idle /\ result # "end"

LzopCounted(on, lens, shrunk) ==
    IF eof THEN Len(delivered) + Available = Total(lens, Len(lens))
    ELSE \E i : LzopAt(on, lens, shrunk, i) /\ Len(delivered) + Available = Total(lens, i)

LzopReading(on, lens, shrunk) ==
    /\ Fields
    /\ IF opened THEN flags = on /\ LzopCounted(on, lens, shrunk) ELSE ~eof /\ Unopened
    /\ result = "end" => eof /\ Available = 0
    /\ Guarded => Handed

LzopOf(on, lens, shrunk) ==
    /\ content = Stream(lens)
    /\ LzopFile(on, lens, shrunk)
    /\ ~failed => LzopReading(on, lens, shrunk)

LzopInv == \E on, lens, shrunk : LzopOf(on, lens, shrunk)

-----------------------------------------------------------------------------
(* Steps *)

LEMMA GuardedKept == file' = file /\ flags' = flags => (Guarded' <=> Guarded)
<1> QED
  BY DEF Guarded, Covered

LEMMA AtKept ==
    ASSUME NEW on, NEW lens, NEW shrunk, NEW i, flags' = flags, pos' = pos
    PROVE  LzopAt(on, lens, shrunk, i)' <=> LzopAt(on, lens, shrunk, i)
<1> QED
  BY DEF LzopAt

LEMMA HeaderKeeps ==
    ASSUME NEW on, NEW lens, NEW shrunk, LzopFile(on, lens, shrunk),
           LzopReading(on, lens, shrunk), ReadHeader
    PROVE  LzopReading(on, lens, shrunk)'
<1>1. /\ Whole(1) /\ file[1].kind = "header" /\ flags' = file[1].flags /\ pos' = 1
      /\ opened' = TRUE /\ ~opened
      /\ UNCHANGED <<file, outputBuffer, outputBufferPos, outputBufferLen>>
      /\ UNCHANGED <<want, result, delivered, failed, eof>>
  BY DEF ReadHeader, output
<1>2. Fields /\ ~eof /\ pos = 0 /\ delivered = << >> /\ Available = 0 /\ result # "end"
  BY <1>1 DEF LzopReading, Unopened
<1>3. PICK f : f = FileOf(on, lens, shrunk)
  OBVIOUS
<1>4. FileShape(f, on, lens, shrunk) /\ TokensAged(f, file)
  BY <1>3, FileTokens DEF LzopFile
<1>5. Len(file) \in Nat /\ 1 <= Len(file)
  <2>1. pos + 1 <= Len(file)
    BY <1>1 DEF Whole
  <2> QED
    BY <1>2, <1>4, <2>1 DEF TokensAged
<1>6. file[1] = Header(on)
  <2>1. file[1] # Part
    BY <1>1 DEF Part
  <2>2. TokenKept(f, 1)
    <3>1. 1 \in 1 .. Len(file)
      BY <1>5
    <3> QED
      BY <1>4, <2>1, <3>1, Survives
  <2>3. f[1] = Header(on)
    BY <1>4 DEF FileShape
  <2> QED
    BY <2>2, <2>3 DEF TokenKept, Header
<1>7. flags' = on
  BY <1>1, <1>6 DEF Header
<1>8. Available' = 0 /\ Len(delivered') = 0
  BY <1>1, <1>2 DEF Available
<1>9. Fields'
  BY <1>1, <1>2, <1>5 DEF Fields
<1>10. LzopCounted(on, lens, shrunk)'
  <2>1. Off(on, lens, shrunk, 0) = 0 /\ 0 \in 0 .. Len(lens)
    <3>1. Len(lens) \in Nat
      BY DEF LzopFile, Wrote, Lengths
    <3> QED
      BY <3>1, Offsets DEF LzopFile
  <2>2. LzopAt(on, lens, shrunk, 0)'
    BY <1>1, <1>7, <2>1 DEF LzopAt
  <2>3. Len(delivered)' + Available' = Total(lens, 0)
    BY <1>8, TotalOfNone
  <2>4. ~eof'
    BY <1>1, <1>2
  <2> QED
    BY <2>2, <2>3, <2>4 DEF LzopCounted
<1>11. Handed'
  BY <1>8 DEF Handed
<1> QED
  BY <1>1, <1>2, <1>7, <1>9, <1>10, <1>11 DEF LzopReading

LEMMA LzopReadKeeps ==
    ASSUME NEW on, NEW lens, NEW shrunk, LzopReading(on, lens, shrunk), opened,
           AnyRead, UNCHANGED <<flags, eof, opened>>
    PROVE  LzopReading(on, lens, shrunk)'
<1>1. /\ file' = file /\ pos' = pos /\ outputBuffer' = outputBuffer
      /\ outputBufferPos' = outputBufferPos /\ outputBufferLen' = outputBufferLen
      /\ result' = result /\ delivered' = delivered /\ failed' = failed /\ want' \in Nat
  BY DEF AnyRead, Read, output
<1>2. Fields'
  BY <1>1 DEF LzopReading, Fields
<1>3. Available' = Available /\ (Guarded' <=> Guarded)
  BY <1>1, GuardedKept DEF Available
<1>4. LzopCounted(on, lens, shrunk)'
  BY <1>1, <1>3, AtKept DEF LzopReading, LzopCounted
<1>5. Handed' <=> Handed
  BY <1>1, <1>3 DEF Handed
<1> QED
  BY <1>1, <1>2, <1>3, <1>4, <1>5 DEF LzopReading

LEMMA LzopDeliverKeeps ==
    ASSUME NEW on, NEW lens, NEW shrunk, LzopReading(on, lens, shrunk), opened,
           Deliver, UNCHANGED <<flags, eof, opened>>
    PROVE  LzopReading(on, lens, shrunk)'
<1>1. Fields
  BY DEF LzopReading
<1>2. /\ Fields' /\ Len(delivered)' + Available' = Len(delivered) + Available
      /\ Handed => Handed'
  BY <1>1, DeliverHands
<1>3. file' = file /\ pos' = pos /\ result' = "ok"
  BY DEF Deliver
<1>4. Guarded' <=> Guarded
  BY <1>3, GuardedKept
<1>5. LzopCounted(on, lens, shrunk)'
  BY <1>2, <1>3, AtKept DEF LzopReading, LzopCounted
<1> QED
  BY <1>2, <1>3, <1>4, <1>5 DEF LzopReading

LEMMA NullWordKeeps ==
    ASSUME NEW on, NEW lens, NEW shrunk, LzopFile(on, lens, shrunk),
           LzopReading(on, lens, shrunk), opened, NullWord
    PROVE  LzopReading(on, lens, shrunk)'
<1>1. /\ Available = 0 /\ ~eof /\ Whole(1) /\ ULen = 0
      /\ pos' = pos + 1 /\ eof' = TRUE /\ want' = Idle /\ result' = "end"
      /\ file' = file /\ flags' = flags /\ opened' = opened
      /\ outputBuffer' = outputBuffer /\ outputBufferPos' = outputBufferPos
      /\ outputBufferLen' = outputBufferLen /\ delivered' = delivered /\ failed' = failed
  BY DEF NullWord, Filling, EndRead, output
<1>2. Fields /\ flags = on
  BY DEF LzopReading
<1>3. PICK i : LzopAt(on, lens, shrunk, i) /\ Len(delivered) + Available = Total(lens, i)
  BY <1>1 DEF LzopReading, LzopCounted
<1>4. i = Len(lens)
  <2>1. i # Len(lens) => ULen = lens[i + 1] /\ lens[i + 1] \in Nat \ {0}
    BY <1>1, <1>2, <1>3, WordAt
  <2> QED
    BY <1>1, <2>1
<1>5. Available' = Available /\ (Guarded' <=> Guarded)
  BY <1>1, GuardedKept DEF Available
<1>6. Fields'
  <2>1. pos' \in Nat /\ pos' <= Len(file)
    BY <1>1, <1>2 DEF Fields, Whole
  <2> QED
    BY <1>1, <1>2, <2>1 DEF Fields
<1>7. LzopCounted(on, lens, shrunk)'
  BY <1>1, <1>3, <1>4, <1>5 DEF LzopCounted
<1>8. Handed' <=> Handed
  BY <1>1, <1>5 DEF Handed
<1> QED
  BY <1>1, <1>2, <1>5, <1>6, <1>7, <1>8 DEF LzopReading

LEMMA AfterNullWordKeeps ==
    ASSUME NEW on, NEW lens, NEW shrunk, LzopReading(on, lens, shrunk), opened, AfterNullWord
    PROVE  LzopReading(on, lens, shrunk)'
<1>1. /\ Available = 0 /\ eof /\ eof' = eof /\ want' = Idle
      /\ pos' = pos /\ file' = file /\ flags' = flags /\ opened' = opened
      /\ outputBuffer' = outputBuffer /\ outputBufferPos' = outputBufferPos
      /\ outputBufferLen' = outputBufferLen /\ delivered' = delivered /\ failed' = failed
  BY DEF AfterNullWord, Filling, EndRead, output
<1>2. Fields'
  BY <1>1 DEF LzopReading, Fields
<1>3. Available' = Available /\ (Guarded' <=> Guarded)
  BY <1>1, GuardedKept DEF Available
<1>4. LzopCounted(on, lens, shrunk)'
  BY <1>1, <1>3 DEF LzopReading, LzopCounted
<1>5. Handed' <=> Handed
  BY <1>1, <1>3 DEF Handed
<1> QED
  BY <1>1, <1>2, <1>3, <1>4, <1>5 DEF LzopReading

(* A reader about to read a whole block has the one behind those it read. *)
LEMMA BlockAtHand ==
    ASSUME NEW on, NEW lens, NEW shrunk, LzopFile(on, lens, shrunk),
           LzopReading(on, lens, shrunk), opened, AtBlock, BlockWhole
    PROVE  \E i : /\ LzopAt(on, lens, shrunk, i) /\ Len(delivered) + Available = Total(lens, i)
                 /\ BlockIs(on, lens, shrunk, i, BlockAt(lens, i + 1), i + 1 \in shrunk)
<1>1. ~eof /\ Fields
  BY DEF AtBlock, LzopReading
<1>2. PICK i : LzopAt(on, lens, shrunk, i) /\ Len(delivered) + Available = Total(lens, i)
  BY <1>1 DEF LzopReading, LzopCounted
<1>3. ULen # 0
  <2>1. Len(DNames) \in Nat
    <3>1. DNames = DNamesOf(flags)
      BY DEF DNames, Flagged, DNamesOf, NamesOf
    <3> QED
      BY <3>1, NamesLens
  <2>2. 1 \in 1 .. HeadLen /\ HeadLen \in Nat /\ \A k \in 1 .. 1 : k \in 1 .. HeadLen
    BY <2>1 DEF HeadLen
  <2>3. Len(file) \in Nat /\ pos \in Nat
    BY <1>1 DEF Fields, LzopFile, TokensAged
  <2>4. Whole(1)
    BY <2>2, <2>3 DEF BlockWhole, HeadWhole, Whole
  <2> QED
    BY <2>4 DEF AtBlock
<1>4. BlockIs(on, lens, shrunk, i, BlockAt(lens, i + 1), i + 1 \in shrunk)
  BY <1>1, <1>2, <1>3, BlockTokensAt
<1> QED
  BY <1>2, <1>4

(* A block has been put into the buffer and its checksums have matched. *)
Landed(buf) ==
    /\ AtBlock /\ BlockWhole /\ Filled
    /\ pos' = pos + BlockLen
    /\ outputBuffer' = buf /\ outputBufferPos' = 0 /\ outputBufferLen' = ULen
    /\ buf \in Seq(Nat) /\ ULen <= Len(buf)
    /\ DMatch(buf) /\ (Stored \/ CMatch)
    /\ BlockData.intact => SubSeq(buf, 1, ULen) = BlockData.bytes

LEMMA LandedKeeps ==
    ASSUME NEW on, NEW lens, NEW shrunk, LzopFile(on, lens, shrunk),
           LzopReading(on, lens, shrunk), opened, UNCHANGED <<flags, eof, opened>>,
           NEW buf, Landed(buf)
    PROVE  LzopReading(on, lens, shrunk)'
<1>1. /\ Available = 0 /\ want # Idle /\ ~eof /\ BlockWhole
      /\ pos' = pos + BlockLen /\ outputBuffer' = buf /\ outputBufferPos' = 0
      /\ outputBufferLen' = ULen /\ buf \in Seq(Nat) /\ ULen <= Len(buf)
      /\ file' = file /\ want' = want /\ result' = result /\ delivered' = delivered
      /\ failed' = failed
  BY DEF Landed, AtBlock, Filling, Filled
<1>2. Fields /\ flags = on /\ DOMAIN file = 1 .. Len(file) /\ Len(file) \in Nat
  BY DEF LzopReading, LzopFile, TokensAged
<1>3. PICK i : /\ LzopAt(on, lens, shrunk, i) /\ Len(delivered) + Available = Total(lens, i)
               /\ BlockIs(on, lens, shrunk, i, BlockAt(lens, i + 1), i + 1 \in shrunk)
  BY BlockAtHand DEF Landed
<1>4. PICK j, b, packed : j = i + 1 /\ b = BlockAt(lens, j) /\ packed = (j \in shrunk)
  OBVIOUS
<1>5. BlockIs(on, lens, shrunk, i, b, packed)
  BY <1>3, <1>4
<1>6. /\ ULen \in Nat \ {0} /\ Len(b) = ULen /\ j \in 0 .. Len(lens)
      /\ pos + BlockLen = 1 + Off(on, lens, shrunk, j) /\ pos + BlockLen \in 1 .. Len(file)
  BY <1>4, <1>5 DEF BlockIs
<1>7. Available' = ULen
  BY <1>1, <1>6 DEF Available
<1>8. Fields'
  <2>1. pos' \in Nat /\ pos' <= Len(file)
    BY <1>1, <1>2, <1>6
  <2> QED
    BY <1>1, <1>2, <1>6, <2>1 DEF Fields
<1>9. Len(delivered) = Total(lens, i) /\ Len(delivered) \in Nat
  BY <1>1, <1>2, <1>3 DEF Fields
<1>10. i \in 0 .. Len(lens) /\ j \in 1 .. Len(lens) /\ j - 1 = i
  <2>1. i \in 0 .. Len(lens) /\ Len(lens) \in Nat
    BY <1>3 DEF LzopAt, LzopFile, Wrote, Lengths
  <2> QED
    BY <1>4, <1>6, <2>1
<1>11. LzopCounted(on, lens, shrunk)'
  <2>1. LzopAt(on, lens, shrunk, j)'
    BY <1>1, <1>2, <1>6 DEF LzopAt
  <2>2. /\ Total(lens, j) = Total(lens, j - 1) + lens[j]
        /\ Len(BlockAt(lens, j)) = lens[j]
    BY <1>10, BlockBytesAt DEF LzopFile, Wrote
  <2>3. Len(delivered)' + Available' = Total(lens, j)
    BY <1>1, <1>4, <1>6, <1>7, <1>9, <1>10, <2>2
  <2> QED
    BY <1>1, <2>1, <2>3 DEF LzopCounted
<1>12. result' # "end"
  BY <1>1 DEF LzopReading
<1>13. ASSUME Guarded PROVE Handed'
  <2>1. SubSeq(buf, 1, ULen) = b
    BY <1>1, <1>2, <1>5, <1>13, CoveredIsRead DEF Landed
  <2>2. Handed
    BY <1>13 DEF LzopReading
  <2>3. \A k \in 1 .. ULen : b[k] = Len(delivered) + k
    <3>1. b = [k \in 1 .. lens[j] |-> Total(lens, i) + k]
      BY <1>4, <1>10 DEF BlockAt
    <3>2. lens[j] = ULen
      BY <1>4, <1>6, <1>10, BlockBytesAt DEF LzopFile, Wrote
    <3> QED
      BY <1>9, <3>1, <3>2
  <2>4. \A k \in 1 .. ULen : buf[0 + k] = Len(delivered) + k
    <3>1. \A k \in 1 .. ULen : SubSeq(buf, 1, ULen)[k] = buf[k]
      BY <1>1, <1>6
    <3> QED
      BY <2>1, <2>3, <3>1
  <2> QED
    BY <1>1, <1>7, <2>2, <2>4 DEF Handed
<1>14. Guarded' <=> Guarded
  BY <1>1, GuardedKept
<1> QED
  BY <1>2, <1>8, <1>11, <1>12, <1>13, <1>14 DEF LzopReading

LEMMA OverIsFront ==
    ASSUME NEW g \in Seq(Nat), NEW d \in Seq(Nat), Len(d) <= Len(g), NEW o, o = Over(g, d)
    PROVE  o \in Seq(Nat) /\ Len(o) = Len(g) /\ SubSeq(o, 1, Len(d)) = d
<1>1. o = [k \in 1 .. Len(g) |-> IF k <= Len(d) THEN d[k] ELSE g[k]]
  BY DEF Over
<1>2. o \in [1 .. Len(g) -> Nat] /\ Len(g) \in Nat
  BY <1>1
<1>3. o \in Seq(Nat) /\ Len(o) = Len(g)
  BY <1>2, FunctionIsSeq
<1>4. \A k \in 1 .. Len(d) : o[k] = d[k]
  BY <1>1
<1>5. PICK f : f = SubSeq(o, 1, Len(d))
  OBVIOUS
<1>6. f = [k \in 1 .. Len(d) |-> o[k]]
  <2>1. f = [k \in 1 .. (Len(d) - 1 + 1) |-> o[1 + k - 1]]
    BY <1>5
  <2>2. Len(d) - 1 + 1 = Len(d) /\ \A k \in 1 .. Len(d) : 1 + k - 1 = k
    OBVIOUS
  <2> QED
    BY <2>1, <2>2
<1>7. d = [k \in 1 .. Len(d) |-> d[k]]
  OBVIOUS
<1>8. f = d
  BY <1>4, <1>6, <1>7
<1> QED
  BY <1>3, <1>5, <1>8

(* What is in the data of the block at pos, damaged or not. *)
LEMMA DataAtHand ==
    ASSUME NEW on, NEW lens, NEW shrunk, NEW i, NEW b, NEW packed,
           BlockIs(on, lens, shrunk, i, b, packed)
    PROVE  /\ BlockData.bytes \in Seq(Nat) /\ Len(BlockData.bytes) = ULen /\ ULen \in Nat
<1>1. b \in Seq(Nat) /\ Len(b) = ULen /\ ULen \in Nat
  BY DEF BlockIs
<1>2. BlockData = Data(b, packed) \/ BlockData = Harmed(Data(b, packed))
  BY DEF BlockIs
<1>3. PICK z : z = [k \in DOMAIN b |-> 0]
  OBVIOUS
<1>4. z \in Seq(Nat) /\ Len(z) = Len(b)
  <2>1. z = [k \in 1 .. Len(b) |-> 0]
    BY <1>1, <1>3
  <2>2. z \in [1 .. Len(b) -> Nat] /\ Len(b) \in Nat
    BY <1>1, <2>1
  <2> QED
    BY <2>2, FunctionIsSeq
<1>5. BlockData.bytes = b \/ BlockData.bytes = z
  <2>1. PICK d : d = [kind |-> "data", bytes |-> b, packed |-> packed, intact |-> TRUE]
    OBVIOUS
  <2>2. d.bytes = b /\ Data(b, packed) = d
    BY <2>1 DEF Data
  <2>3. Harmed(d).bytes = [k \in DOMAIN d.bytes |-> 0]
    BY <2>1 DEF Harmed
  <2> QED
    BY <1>2, <1>3, <2>2, <2>3
<1> QED
  BY <1>1, <1>4, <1>5

LEMMA StoredLands ==
    ASSUME NEW on, NEW lens, NEW shrunk, LzopFile(on, lens, shrunk),
           LzopReading(on, lens, shrunk), opened, ReadStored, ~failed'
    PROVE  \E buf : Landed(buf)
<1>1. /\ AtBlock /\ BlockWhole /\ Stored /\ pos' = pos + BlockLen
      /\ Decompressed(Grown(ULen), BlockData)
      /\ IF DMatch(outputBuffer') THEN Filled ELSE ThrowRead
  BY DEF ReadStored
<1>2. PICK i : BlockIs(on, lens, shrunk, i, BlockAt(lens, i + 1), i + 1 \in shrunk)
  BY <1>1, BlockAtHand
<1>3. PICK d, g, o : d = BlockData.bytes /\ g = Grown(ULen) /\ o = outputBuffer'
  OBVIOUS
<1>4. d \in Seq(Nat) /\ Len(d) = ULen /\ ULen \in Nat
  BY <1>2, <1>3, DataAtHand
<1>5. g \in Seq(Nat) /\ ULen <= Len(g)
  BY <1>3, <1>4, GrownHasRoom DEF LzopReading
<1>6. o = Over(g, d) /\ outputBufferPos' = 0 /\ outputBufferLen' = ULen
  BY <1>1, <1>3, <1>4 DEF Decompressed
<1>7. o \in Seq(Nat) /\ Len(o) = Len(g) /\ SubSeq(o, 1, ULen) = d
  BY <1>4, <1>5, <1>6, OverIsFront
<1>8. DMatch(o) /\ Filled
  BY <1>1, <1>3 DEF ThrowRead
<1>9. Landed(o)
  BY <1>1, <1>3, <1>5, <1>6, <1>7, <1>8 DEF Landed
<1> QED
  BY <1>9

LEMMA PackedLands ==
    ASSUME NEW on, NEW lens, NEW shrunk, LzopFile(on, lens, shrunk),
           LzopReading(on, lens, shrunk), opened, ReadPacked, ~failed'
    PROVE  \E buf : Landed(buf)
<1>1. /\ AtBlock /\ BlockWhole /\ CMatch /\ pos' = pos + BlockLen
      /\ IF BlockData.intact THEN Decompressed(Grown(ULen), BlockData) ELSE Garbled(Grown(ULen))
      /\ \/ outputBufferLen' = ULen /\ DMatch(outputBuffer') /\ Filled
         \/ ThrowRead
  BY DEF ReadPacked
<1>2. PICK i : BlockIs(on, lens, shrunk, i, BlockAt(lens, i + 1), i + 1 \in shrunk)
  BY <1>1, BlockAtHand
<1>3. PICK d, g, o : d = BlockData.bytes /\ g = Grown(ULen) /\ o = outputBuffer'
  OBVIOUS
<1>4. d \in Seq(Nat) /\ Len(d) = ULen /\ ULen \in Nat
  BY <1>2, <1>3, DataAtHand
<1>5. g \in Seq(Nat) /\ ULen <= Len(g)
  BY <1>3, <1>4, GrownHasRoom DEF LzopReading
<1>6. DMatch(o) /\ Filled /\ outputBufferLen' = ULen
  BY <1>1, <1>3 DEF ThrowRead
<1>7. /\ outputBufferPos' = 0 /\ o \in Seq(Nat) /\ Len(o) = Len(g)
      /\ BlockData.intact => SubSeq(o, 1, ULen) = d
  <2>1. CASE BlockData.intact
    <3>1. o = Over(g, d) /\ outputBufferPos' = 0
      BY <1>1, <1>3, <2>1 DEF Decompressed
    <3> QED
      BY <1>4, <1>5, <3>1, OverIsFront
  <2>2. CASE ~BlockData.intact
    <3>1. o = [k \in DOMAIN g |-> Junk] /\ outputBufferPos' = 0
      BY <1>1, <1>3, <2>2 DEF Garbled
    <3>2. o = [k \in 1 .. Len(g) |-> Junk]
      BY <1>5, <3>1
    <3>3. o \in [1 .. Len(g) -> Nat] /\ Len(g) \in Nat
      BY <1>5, <3>2 DEF Junk
    <3> QED
      BY <2>2, <3>1, <3>3, FunctionIsSeq
  <2> QED
    BY <2>1, <2>2
<1>8. Landed(o)
  BY <1>1, <1>3, <1>5, <1>6, <1>7 DEF Landed
<1> QED
  BY <1>8

-----------------------------------------------------------------------------
(* The stream *)

LEMMA LzopInitReads == LzopInit => LzopInv
<1>1. SUFFICES ASSUME LzopInit PROVE LzopInv
  OBVIOUS
<1>2. PICK on \in FlagSets, lens \in SeqOf(1 .. MaxBlock, MaxBlocks) :
        /\ content = Stream(lens)
        /\ \E shrunk \in SUBSET {i \in DOMAIN lens : lens[i] > 1} :
                file \in Aged(FileOf(on, lens, shrunk))
  BY <1>1 DEF LzopInit
<1>3. PICK shrunk \in SUBSET {i \in DOMAIN lens : lens[i] > 1} :
        file \in Aged(FileOf(on, lens, shrunk))
  BY <1>2
<1>4. Wrote(lens, shrunk)
  BY LengthsOf DEF Wrote
<1>5. LzopFile(on, lens, shrunk)
  <2>1. PICK f : f = FileOf(on, lens, shrunk)
    OBVIOUS
  <2>2. f \in Seq(LzopTokens \cup {Header(on)})
    BY <1>4, <2>1, FileTokens
  <2>3. TokensAged(f, file)
    BY <1>3, <2>1, <2>2, AgedTokens
  <2> QED
    BY <1>4, <2>1, <2>3 DEF LzopFile
<1>6. ReaderInit /\ ~eof /\ ~opened
  BY <1>1 DEF LzopInit
<1>7. LzopReading(on, lens, shrunk)
  <2>1. /\ pos = 0 /\ outputBuffer = << >> /\ outputBufferPos = 0 /\ outputBufferLen = 0
        /\ want = Idle /\ result = "ok" /\ delivered = << >> /\ failed = FALSE
    BY <1>6 DEF ReaderInit
  <2>2. Available = 0
    BY <2>1 DEF Available
  <2>3. Fields
    <3>1. pos \in Nat /\ pos <= Len(file)
      BY <1>5, <2>1 DEF LzopFile, TokensAged
    <3>2. outputBuffer \in Seq(Nat) /\ Len(outputBuffer) = 0 /\ delivered \in Seq(Nat)
      BY <2>1
    <3>3. /\ outputBufferPos \in Nat /\ outputBufferLen \in Nat
          /\ outputBufferPos <= outputBufferLen /\ outputBufferLen <= 0
      BY <2>1
    <3> QED
      BY <2>1, <3>1, <3>2, <3>3 DEF Fields
  <2>4. Handed
    BY <2>1, <2>2 DEF Handed
  <2> QED
    BY <1>6, <2>1, <2>2, <2>3, <2>4 DEF LzopReading, Unopened
<1> QED
  BY <1>2, <1>5, <1>7 DEF LzopInv, LzopOf

(* Only what was read with no exception before is read with none after. *)
LEMMA LzopFrame ==
    ASSUME [LzopNext]_lzopVars
    PROVE  file' = file /\ content' = content /\ (failed => failed')
<1>1. CASE ReadHeader
  BY <1>1 DEF ReadHeader
<1>2. CASE ReadCall
  BY <1>2 DEF ReadCall, Read
<1>3. CASE Deliver
  BY <1>3 DEF Deliver
<1>4. CASE NullWord \/ AfterNullWord
  BY <1>4 DEF NullWord, AfterNullWord, EndRead
<1>5. CASE LzopCutShort \/ StoredCutShort \/ RefusePacked
  BY <1>5 DEF LzopCutShort, StoredCutShort, RefusePacked, ThrowRead
<1>6. CASE ReadStored
  BY <1>6 DEF ReadStored, Filled, ThrowRead
<1>7. CASE ReadPacked
  BY <1>7 DEF ReadPacked, Filled, ThrowRead
<1>8. CASE UNCHANGED lzopVars
  BY <1>8 DEF lzopVars, vars
<1> QED
  BY <1>1, <1>2, <1>3, <1>4, <1>5, <1>6, <1>7, <1>8 DEF LzopNext, LzopStep

LEMMA LzopStepReads == LzopInv /\ [LzopNext]_lzopVars => LzopInv'
<1>1. SUFFICES ASSUME LzopInv, [LzopNext]_lzopVars PROVE LzopInv'
  OBVIOUS
<1>2. PICK on, lens, shrunk : LzopOf(on, lens, shrunk)
  BY <1>1 DEF LzopInv
<1>3. content = Stream(lens) /\ LzopFile(on, lens, shrunk)
      /\ (~failed => LzopReading(on, lens, shrunk))
  BY <1>2 DEF LzopOf
<1>4. file' = file /\ content' = content /\ (failed => failed')
  BY <1>1, LzopFrame
<1>5. LzopFile(on, lens, shrunk)'
  BY <1>3, <1>4 DEF LzopFile, TokensAged, TokenAged
<1>6. ASSUME ~failed' PROVE LzopReading(on, lens, shrunk)'
  <2>1. LzopReading(on, lens, shrunk)
    BY <1>3, <1>4, <1>6
  <2>2. CASE ReadHeader
    BY <1>3, <2>1, <2>2, HeaderKeeps
  <2>3. CASE opened /\ ReadCall /\ UNCHANGED <<flags, eof, opened>>
    <3>1. AnyRead
      BY <2>3, ReaderAssumption DEF ReadCall, AnyRead
    <3> QED
      BY <2>1, <2>3, <3>1, LzopReadKeeps
  <2>4. CASE opened /\ Deliver /\ UNCHANGED <<flags, eof, opened>>
    BY <2>1, <2>4, LzopDeliverKeeps
  <2>5. CASE opened /\ NullWord
    BY <1>3, <2>1, <2>5, NullWordKeeps
  <2>6. CASE opened /\ AfterNullWord
    BY <2>1, <2>6, AfterNullWordKeeps
  <2>7. CASE opened /\ (LzopCutShort \/ StoredCutShort \/ RefusePacked)
    BY <1>6, <2>7 DEF LzopCutShort, StoredCutShort, RefusePacked, ThrowRead
  <2>8. CASE opened /\ ReadStored
    <3>1. PICK buf : Landed(buf)
      BY <1>3, <1>6, <2>1, <2>8, StoredLands
    <3>2. UNCHANGED <<flags, eof, opened>>
      BY <2>8 DEF ReadStored
    <3> QED
      BY <1>3, <2>1, <2>8, <3>1, <3>2, LandedKeeps
  <2>9. CASE opened /\ ReadPacked
    <3>1. PICK buf : Landed(buf)
      BY <1>3, <1>6, <2>1, <2>9, PackedLands
    <3>2. UNCHANGED <<flags, eof, opened>>
      BY <2>9 DEF ReadPacked
    <3> QED
      BY <1>3, <2>1, <2>9, <3>1, <3>2, LandedKeeps
  <2>10. CASE UNCHANGED lzopVars
    <3>1. /\ UNCHANGED <<file, pos, outputBuffer, outputBufferPos, outputBufferLen>>
          /\ UNCHANGED <<want, result, delivered, failed, flags, eof, opened>>
      BY <2>10 DEF lzopVars, vars, output
    <3>2. Available' = Available /\ (Guarded' <=> Guarded)
      BY <3>1, GuardedKept DEF Available
    <3>3. Fields' /\ (Handed' <=> Handed)
      BY <2>1, <3>1, <3>2 DEF LzopReading, Fields, Handed
    <3>4. LzopCounted(on, lens, shrunk)' <=> LzopCounted(on, lens, shrunk)
      BY <3>1, <3>2, AtKept DEF LzopCounted
    <3> QED
      BY <2>1, <3>1, <3>2, <3>3, <3>4 DEF LzopReading, Unopened
  <2> QED
    BY <1>1, <2>2, <2>3, <2>4, <2>5, <2>6, <2>7, <2>8, <2>9, <2>10 DEF LzopNext, LzopStep
<1> QED
  BY <1>3, <1>4, <1>5, <1>6 DEF LzopInv, LzopOf

(* An lzop file read with no exception gives a prefix of the bytes it was  *)
(* written from, if every damage in it is one that a checksum it was       *)
(* written with tells of: a block whose data passes the tests is right.    *)
THEOREM LzopReadsInOrder == LzopSpec => []LzopInOrder
<1>1. LzopInv => LzopInOrder
  <2>1. SUFFICES ASSUME LzopInv, Guarded, ~failed PROVE IsPrefix(delivered, content)
    BY DEF LzopInOrder
  <2>2. PICK on, lens, shrunk : LzopOf(on, lens, shrunk)
    BY <2>1 DEF LzopInv
  <2>3. content = Stream(lens) /\ lens \in Lengths /\ LzopReading(on, lens, shrunk)
    BY <2>1, <2>2 DEF LzopOf, LzopFile, Wrote
  <2>4. delivered \in Seq(Nat) /\ \A k \in 1 .. Len(delivered) : delivered[k] = k
    BY <2>1, <2>3 DEF LzopReading, Fields, Handed
  <2>5. PICK i \in 0 .. Len(lens) :
          Len(delivered) + Available = Total(lens, i) \/ delivered = << >>
    <3>1. Len(lens) \in Nat
      BY <2>3 DEF Lengths
    <3>2. CASE opened /\ eof
      BY <2>3, <3>1, <3>2 DEF LzopReading, LzopCounted
    <3>3. CASE opened /\ ~eof
      BY <2>3, <3>3 DEF LzopReading, LzopCounted, LzopAt
    <3>4. CASE ~opened
      BY <2>3, <3>1, <3>4 DEF LzopReading, Unopened
    <3> QED
      BY <3>2, <3>3, <3>4
  <2>6. /\ Total(lens, i) \in Nat /\ Total(lens, i) <= Total(lens, Len(lens))
        /\ Total(lens, Len(lens)) \in Nat
    <3>1. PICK n \in Nat : n = Len(lens)
      BY <2>3 DEF Lengths
    <3>2. i \in Nat /\ i <= n /\ (\A j \in 1 .. n : lens[j] \in Nat) /\ (\A j \in 1 .. i : lens[j] \in Nat)
      BY <2>3, <3>1 DEF Lengths
    <3> QED
      BY <3>1, <3>2, TotalIsNat, TotalIsMonotone
  <2>7. Len(delivered) <= Total(lens, Len(lens))
    <3>1. Available \in Nat
      BY <2>3 DEF LzopReading, Fields, Available
    <3>2. Len(delivered) \in Nat /\ (delivered = << >> => Len(delivered) = 0)
      BY <2>4
    <3> QED
      BY <2>5, <2>6, <3>1, <3>2
  <2>8. StartOf(delivered, lens)
    BY <2>4, <2>7 DEF StartOf
  <2> QED
    BY <2>3, <2>8, StartIsPrefix
<1> QED
  BY <1>1, LzopInitReads, LzopStepReads, PTL DEF LzopSpec

(* A file that was cut, between two blocks or in one, never reads as one   *)
(* that has ended: -1 comes only of the null word behind the last block.   *)
THEOREM LzopEndsComplete == LzopSpec => []LzopEndIsComplete
<1>1. LzopInv => LzopEndIsComplete
  <2>1. SUFFICES ASSUME LzopInv, result = "end", ~failed PROVE Len(delivered) = Len(content)
    BY DEF LzopEndIsComplete
  <2>2. PICK on, lens, shrunk : LzopOf(on, lens, shrunk)
    BY <2>1 DEF LzopInv
  <2>3. content = Stream(lens) /\ lens \in Lengths /\ LzopReading(on, lens, shrunk)
    BY <2>1, <2>2 DEF LzopOf, LzopFile, Wrote
  <2>4. eof /\ Available = 0 /\ opened
    BY <2>1, <2>3 DEF LzopReading
  <2>5. Len(delivered) + 0 = Total(lens, Len(lens))
    BY <2>3, <2>4 DEF LzopReading, LzopCounted
  <2>6. Len(delivered) \in Nat
    BY <2>3 DEF LzopReading, Fields
  <2> QED
    BY <2>3, <2>5, <2>6, StartIsPrefix
<1> QED
  BY <1>1, LzopInitReads, LzopStepReads, PTL DEF LzopSpec

=============================================================================
