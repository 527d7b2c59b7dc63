-------------------------- MODULE LzoFrames_proofs --------------------------
(***************************************************************************)
(* Lemmas about LzoFrames that the proofs about the readers and about the  *)
(* indexers of a file share.                                               *)
(***************************************************************************)
EXTENDS LzoFrames, FiniteSetTheorems, FunctionTheorems, SequenceTheorems,
        WellFoundedInduction, TLAPS

-----------------------------------------------------------------------------
(* A set of natural numbers has a least element. *)
LEMMA Least ==
    ASSUME NEW S \in SUBSET Nat, S # {}
    PROVE  \E m \in S : \A n \in S : m <= n
<1> DEFINE R == {ss \in Nat \X Nat : ss[1] < ss[2]}
<1>1. IsWellFoundedOn(R, Nat)
  BY NatLessThanWellFounded DEF OpToRel
<1> HIDE DEF R
<1>2. PICK m \in S : \A n \in S : ~(<<n, m>> \in R)
  BY <1>1, WFMin, Zenon
<1>3. ASSUME NEW n \in S PROVE m <= n
  <2>1. m \in Nat /\ n \in Nat /\ <<n, m>> \in Nat \X Nat
    OBVIOUS
  <2>2. ~(n < m)
    BY <1>2, <2>1 DEF R
  <2> QED
    BY <2>1, <2>2
<1> QED
  BY <1>3

-----------------------------------------------------------------------------
(* Total *)

LEMMA UpTo ==
    ASSUME NEW k \in Nat
    PROVE  IsFiniteSet(1 .. k) /\ Cardinality(1 .. k) = k
<1>1. k \in Int /\ 1 \in Int
  OBVIOUS
<1>2. IsFiniteSet(1 .. k) /\ Cardinality(1 .. k) = IF 1 > k THEN 0 ELSE k - 1 + 1
  BY <1>1, FS_Interval
<1> QED
  BY <1>2

Pile(f, n) == UNION {{j} \X (1 .. f[j]) : j \in 1 .. n}

LEMMA TotalIsNat ==
    ASSUME NEW n \in Nat, NEW f, \A j \in 1 .. n : f[j] \in Nat
    PROVE  IsFiniteSet(Pile(f, n)) /\ Total(f, n) \in Nat
<1> DEFINE S == {{j} \X (1 .. f[j]) : j \in 1 .. n}
           g == [j \in 1 .. n |-> {j} \X (1 .. f[j])]
<1>1. g \in Surjection(1 .. n, S)
  BY DEF Surjection
<1>2. IsFiniteSet(1 .. n)
  BY FS_Interval
<1>3. IsFiniteSet(S)
  <2> HIDE DEF S, g
  <2> QED
    BY <1>1, <1>2, FS_Surjection
<1>4. ASSUME NEW T \in S PROVE IsFiniteSet(T)
  <2>1. PICK j \in 1 .. n : T = {j} \X (1 .. f[j])
    OBVIOUS
  <2>2. IsFiniteSet({j}) /\ IsFiniteSet(1 .. f[j])
    BY FS_Singleton, UpTo
  <2> QED
    BY <2>1, <2>2, FS_Product
<1>5. IsFiniteSet(UNION S)
  <2> HIDE DEF S
  <2> QED
    BY <1>3, <1>4, FS_UNION
<1>6. IsFiniteSet(Pile(f, n))
  BY <1>5 DEF Pile
<1> QED
  BY <1>6, FS_CardinalityType DEF Total, Pile

LEMMA TotalGrows ==
    ASSUME NEW n \in Nat, NEW f, \A j \in 1 .. n + 1 : f[j] \in Nat
    PROVE  Total(f, n + 1) = Total(f, n) + f[n + 1]
<1> DEFINE P == Pile(f, n)
           T == {n + 1} \X (1 .. f[n + 1])
<1>1. IsFiniteSet(P) /\ Cardinality(P) \in Nat
  <2>1. \A j \in 1 .. n : f[j] \in Nat
    OBVIOUS
  <2>2. IsFiniteSet(Pile(f, n)) /\ Total(f, n) \in Nat
    BY <2>1, TotalIsNat
  <2> QED
    BY <2>2 DEF Total, Pile
<1>2. f[n + 1] \in Nat
  OBVIOUS
<1>3. IsFiniteSet(T) /\ Cardinality(T) = f[n + 1]
  <2>1. IsFiniteSet({n + 1}) /\ Cardinality({n + 1}) = 1
    BY FS_Singleton
  <2>2. IsFiniteSet(1 .. f[n + 1]) /\ Cardinality(1 .. f[n + 1]) = f[n + 1]
    BY <1>2, UpTo
  <2>3. PICK A, B : A = {n + 1} /\ B = 1 .. f[n + 1]
    OBVIOUS
  <2>4. IsFiniteSet(A) /\ Cardinality(A) = 1 /\ IsFiniteSet(B) /\ Cardinality(B) = f[n + 1]
    BY <2>1, <2>2, <2>3
  <2>5. IsFiniteSet(A \X B) /\ Cardinality(A \X B) = Cardinality(A) * Cardinality(B)
    BY <2>4, FS_Product
  <2>6. T = A \X B
    BY <2>3
  <2> QED
    <3>1. 1 * f[n + 1] = f[n + 1]
      BY <1>2
    <3> QED
      BY <2>4, <2>5, <2>6, <3>1
<1>4. Pile(f, n + 1) = P \cup T
  <2>1. 1 .. n + 1 = (1 .. n) \cup {n + 1}
    OBVIOUS
  <2> QED
    BY <2>1 DEF Pile
<1>5. P \cap T = {}
  BY DEF Pile
<1>6. Cardinality(P \cap T) = 0
  BY <1>5, FS_EmptySet
<1> HIDE DEF P, T
<1>7. Cardinality(P \cup T) = Cardinality(P) + Cardinality(T) - Cardinality(P \cap T)
  BY <1>1, <1>3, FS_Union
<1>8. Cardinality(P \cup T) = Cardinality(P) + f[n + 1]
  BY <1>1, <1>2, <1>3, <1>6, <1>7
<1> QED
  BY <1>4, <1>8 DEF P, Total, Pile

LEMMA TotalOfNone ==
    ASSUME NEW f
    PROVE  Total(f, 0) = 0
<1>1. Pile(f, 0) = {}
  BY DEF Pile
<1> QED
  BY <1>1, FS_EmptySet DEF Total, Pile

LEMMA TotalIsMonotone ==
    ASSUME NEW n \in Nat, NEW m \in Nat, m <= n, NEW f, \A j \in 1 .. n : f[j] \in Nat
    PROVE  Total(f, m) <= Total(f, n)
<1>1. Pile(f, m) \subseteq Pile(f, n)
  <2>1. 1 .. m \subseteq 1 .. n
    OBVIOUS
  <2> QED
    BY <2>1 DEF Pile
<1>2. IsFiniteSet(Pile(f, n))
  BY TotalIsNat
<1>3. Cardinality(Pile(f, m)) <= Cardinality(Pile(f, n))
  BY <1>1, <1>2, FS_Subset
<1> QED
  BY <1>3 DEF Total, Pile

-----------------------------------------------------------------------------
(* FlattenSeq *)

(* What FlattenSeq has put together of the first n parts, part by part. *)
Upto(s, n, f) == f = [i \in 1 .. n |-> IF i = 1 THEN s[i] ELSE f[i - 1] \o s[i]]

LEMMA UptoExists ==
    ASSUME NEW s, NEW n \in Nat
    PROVE  \E f : Upto(s, n, f)
<1> DEFINE Bad == {m \in Nat : ~ \E f : Upto(s, m, f)}
<1>1. SUFFICES ASSUME Bad # {} PROVE FALSE
  OBVIOUS
<1>2. PICK m \in Bad : \A k \in Bad : m <= k
  BY <1>1, Least
<1>3. m \in Nat /\ ~ \E f : Upto(s, m, f)
  OBVIOUS
<1>4. Upto(s, 0, << >>)
  BY DEF Upto
<1>5. m - 1 \in Nat
  BY <1>3, <1>4
<1>6. PICK f : Upto(s, m - 1, f)
  BY <1>2, <1>5
<1> DEFINE g == [i \in 1 .. m |-> IF i = m THEN (IF m = 1 THEN s[1] ELSE f[m - 1] \o s[m]) ELSE f[i]]
<1>7. \A i \in 1 .. m : g[i] = IF i = 1 THEN s[i] ELSE g[i - 1] \o s[i]
  <2>1. \A i \in 1 .. m - 1 : f[i] = IF i = 1 THEN s[i] ELSE f[i - 1] \o s[i]
    BY <1>6 DEF Upto
  <2>2. TAKE i \in 1 .. m
  <2>3. CASE i = m
    BY <2>3, <1>3
  <2>4. CASE i # m
    <3>1. i \in 1 .. m - 1 /\ (i # 1 => i - 1 \in 1 .. m /\ i - 1 # m)
      BY <2>4, <1>3
    <3> QED
      BY <2>1, <2>4, <3>1
  <2> QED
    BY <2>3, <2>4
<1>8. Upto(s, m, g)
  <2> HIDE DEF g
  <2>1. g = [i \in 1 .. m |-> g[i]]
    BY DEF g
  <2> QED
    BY <1>7, <2>1 DEF Upto
<1> QED
  BY <1>3, <1>8

LEMMA FlattenOf ==
    ASSUME NEW s, Len(s) \in Nat, Len(s) # 0
    PROVE  \E f : Upto(s, Len(s), f) /\ FlattenSeq(s) = f[Len(s)]
<1> QED
  BY UptoExists DEF FlattenSeq, Upto
LEMMA UptoAt ==
    ASSUME NEW s, NEW n \in Nat, NEW f, Upto(s, n, f), NEW i \in 1 .. n
    PROVE  f[i] = IF i = 1 THEN s[i] ELSE f[i - 1] \o s[i]
<1> QED
  BY DEF Upto

LEMMA UptoAgrees ==
    ASSUME NEW s, NEW t, NEW n \in Nat, NEW m \in Nat, n <= m,
           NEW f, NEW g, Upto(s, n, f), Upto(t, m, g), \A i \in 1 .. n : s[i] = t[i]
    PROVE  \A i \in 1 .. n : f[i] = g[i]
<1> DEFINE Bad == {i \in 1 .. n : f[i] # g[i]}
<1>1. SUFFICES ASSUME Bad # {} PROVE FALSE
  OBVIOUS
<1>2. PICK i \in Bad : \A k \in Bad : i <= k
  <2>1. Bad \in SUBSET Nat
    OBVIOUS
  <2> HIDE DEF Bad
  <2> QED
    BY <1>1, <2>1, Least
<1>3. i \in 1 .. n /\ i \in 1 .. m /\ f[i] # g[i]
  OBVIOUS
<1>4. /\ f[i] = IF i = 1 THEN s[i] ELSE f[i - 1] \o s[i]
      /\ g[i] = IF i = 1 THEN t[i] ELSE g[i - 1] \o t[i]
  BY <1>3 DEF Upto
<1>5. i # 1
  BY <1>3, <1>4
<1>6. i - 1 \in 1 .. n /\ ~(i <= i - 1)
  BY <1>3, <1>5
<1>7. f[i - 1] = g[i - 1]
  BY <1>2, <1>6
<1> QED
  BY <1>3, <1>4, <1>5, <1>7

Lens(s) == [i \in DOMAIN s |-> Len(s[i])]

(* The pieces of a sequence made of sequences are where their lengths say. *)
Pieces(s, n, t) ==
    /\ Len(t) = Total(Lens(s), n)
    /\ \A i \in 1 .. n : \A k \in 1 .. Len(s[i]) : t[Total(Lens(s), i - 1) + k] = s[i][k]

LEMMA PiecesGrow ==
    ASSUME NEW S, NEW s \in Seq(Seq(S)), NEW n \in Nat, n < Len(s),
           NEW t \in Seq(S), Pieces(s, n, t)
    PROVE  t \o s[n + 1] \in Seq(S) /\ Pieces(s, n + 1, t \o s[n + 1])
<1>1. /\ n + 1 \in DOMAIN s /\ s[n + 1] \in Seq(S)
      /\ \A i \in 1 .. n + 1 : i \in DOMAIN s /\ Lens(s)[i] = Len(s[i]) /\ Lens(s)[i] \in Nat
  BY DEF Lens
<1>2. Total(Lens(s), n + 1) = Total(Lens(s), n) + Len(s[n + 1])
  <2>1. \A j \in 1 .. n + 1 : Lens(s)[j] \in Nat
    BY <1>1
  <2>2. Total(Lens(s), n + 1) = Total(Lens(s), n) + Lens(s)[n + 1]
    BY <2>1, TotalGrows
  <2> QED
    BY <1>1, <2>2
<1>3. \A i \in 1 .. n : \A k \in 1 .. Len(s[i]) :
        Total(Lens(s), i - 1) + k \in 1 .. Len(t)
  <2>1. TAKE i \in 1 .. n
  <2>2. TAKE k \in 1 .. Len(s[i])
  <2>3. i - 1 \in Nat /\ i \in Nat /\ i <= n /\ i - 1 + 1 = i
    OBVIOUS
  <2>4. \A j \in 1 .. i : Lens(s)[j] \in Nat
    BY <1>1
  <2>5. Total(Lens(s), i) = Total(Lens(s), i - 1) + Len(s[i])
    <3>1. PICK h \in Nat : h = i - 1
      BY <2>3
    <3>2. \A j \in 1 .. h + 1 : Lens(s)[j] \in Nat
      BY <2>4, <3>1
    <3>3. Total(Lens(s), h + 1) = Total(Lens(s), h) + Lens(s)[h + 1]
      BY <3>2, TotalGrows
    <3> QED
      BY <1>1, <2>3, <3>1, <3>3
  <2>6. \A j \in 1 .. n : Lens(s)[j] \in Nat
    BY <1>1
  <2>7. Total(Lens(s), i) <= Total(Lens(s), n)
    BY <2>3, <2>6, TotalIsMonotone
  <2>8. Total(Lens(s), i - 1) \in Nat
    BY <2>3, <2>4, TotalIsNat
  <2>9. Len(t) \in Nat /\ Len(t) = Total(Lens(s), n)
    BY DEF Pieces
  <2>10. Len(s[i]) \in Nat /\ k \in Nat /\ 1 <= k /\ k <= Len(s[i])
    BY <1>1, <2>1
  <2> HIDE DEF Total
  <2> QED
    BY <2>5, <2>7, <2>8, <2>9, <2>10, SMTT(20)
<1>4. PICK u : u = t \o s[n + 1]
  OBVIOUS
<1>5. /\ u \in Seq(S) /\ Len(u) = Len(t) + Len(s[n + 1])
      /\ \A k \in 1 .. Len(t) : u[k] = t[k]
      /\ \A k \in 1 .. Len(s[n + 1]) : u[Len(t) + k] = s[n + 1][k]
  BY <1>1, <1>4
<1>6. Len(u) = Total(Lens(s), n + 1)
  BY <1>2, <1>5 DEF Pieces
<1>7. \A i \in 1 .. n + 1 : \A k \in 1 .. Len(s[i]) : u[Total(Lens(s), i - 1) + k] = s[i][k]
  <2>1. TAKE i \in 1 .. n + 1
  <2>2. TAKE k \in 1 .. Len(s[i])
  <2>3. CASE i = n + 1
    BY <1>5, <2>3, SMTT(20) DEF Pieces
  <2>4. CASE i # n + 1
    <3>1. i \in 1 .. n
      BY <2>4
    <3> QED
      BY <1>3, <1>5, <3>1 DEF Pieces
  <2> QED
    BY <2>3, <2>4
<1> QED
  BY <1>4, <1>5, <1>6, <1>7 DEF Pieces

LEMMA FlattenPieces ==
    ASSUME NEW S, NEW s \in Seq(Seq(S))
    PROVE  FlattenSeq(s) \in Seq(S) /\ Pieces(s, Len(s), FlattenSeq(s))
<1>1. Pieces(s, 0, << >>)
  BY TotalOfNone DEF Pieces
<1>2. CASE Len(s) = 0
  <2>1. FlattenSeq(s) = << >>
    BY <1>2 DEF FlattenSeq
  <2> QED
    BY <1>1, <1>2, <2>1
<1>3. CASE Len(s) # 0
  <2>1. PICK f : Upto(s, Len(s), f) /\ FlattenSeq(s) = f[Len(s)]
    BY <1>3, FlattenOf
  <2> DEFINE Bad == {i \in 1 .. Len(s) : ~(f[i] \in Seq(S) /\ Pieces(s, i, f[i]))}
  <2>2. SUFFICES ASSUME Bad # {} PROVE FALSE
    <3>1. Len(s) \in 1 .. Len(s)
      BY <1>3
    <3> QED
      BY <2>1, <3>1
  <2>3. PICK i \in Bad : \A k \in Bad : i <= k
    <3>1. Bad \in SUBSET Nat
      OBVIOUS
    <3> HIDE DEF Bad
    <3> QED
      BY <2>2, <3>1, Least
  <2>4. i \in 1 .. Len(s) /\ ~(f[i] \in Seq(S) /\ Pieces(s, i, f[i]))
    OBVIOUS
  <2>5. f[i] = IF i = 1 THEN s[i] ELSE f[i - 1] \o s[i]
    BY <2>1, <2>4 DEF Upto
  <2>6. CASE i = 1
    <3>1. << >> \in Seq(S) /\ 0 \in Nat /\ 0 < Len(s) /\ 0 + 1 = 1
      BY <1>3
    <3>2. << >> \o s[0 + 1] \in Seq(S) /\ Pieces(s, 0 + 1, << >> \o s[0 + 1])
      BY <1>1, <3>1, PiecesGrow
    <3>3. s[1] \in Seq(S)
      BY <3>1
    <3>4. << >> \o s[0 + 1] = s[1]
      BY <3>3
    <3> QED
      BY <2>4, <2>5, <2>6, <3>2, <3>4
  <2>7. CASE i # 1
    <3>1. i - 1 \in 1 .. Len(s) /\ ~(i <= i - 1)
      BY <2>4, <2>7
    <3>2. f[i - 1] \in Seq(S) /\ Pieces(s, i - 1, f[i - 1])
      BY <2>3, <3>1
    <3>3. i - 1 \in Nat /\ i - 1 < Len(s) /\ i - 1 + 1 = i
      BY <2>4, <2>7
    <3>4. PICK h : h = i - 1
      OBVIOUS
    <3>5. f[h] \o s[h + 1] \in Seq(S) /\ Pieces(s, h + 1, f[h] \o s[h + 1])
      BY <3>2, <3>3, <3>4, PiecesGrow
    <3> QED
      BY <2>4, <2>5, <2>7, <3>3, <3>4, <3>5
  <2> QED
    BY <2>6, <2>7
<1> QED
  BY <1>2, <1>3

LEMMA FlattenLonger ==
    ASSUME NEW n \in Nat, n # 0, NEW s, NEW t, Len(s) = n, Len(t) = n + 1,
           \A i \in 1 .. n : s[i] = t[i]
    PROVE  FlattenSeq(t) = FlattenSeq(s) \o t[n + 1]
<1>1. PICK f : Upto(s, n, f) /\ FlattenSeq(s) = f[n]
  BY FlattenOf
<1>2. PICK g : Upto(t, n + 1, g) /\ FlattenSeq(t) = g[n + 1]
  BY FlattenOf
<1>3. g[n + 1] = g[n] \o t[n + 1]
  <2>1. PICK m \in Nat : m = n + 1
    OBVIOUS
  <2>2. m \in 1 .. m /\ m # 1 /\ m - 1 = n /\ Upto(t, m, g)
    BY <1>2, <2>1
  <2>3. g[m] = IF m = 1 THEN t[m] ELSE g[m - 1] \o t[m]
    <3>1. PICK i \in 1 .. m : i = m
      BY <2>2
    <3>2. Upto(t, m, g)
      BY <2>2
    <3>3. g[i] = IF i = 1 THEN t[i] ELSE g[i - 1] \o t[i]
      BY <3>2 DEF Upto
    <3> QED
      BY <3>1, <3>3
  <2> QED
    BY <2>1, <2>2, <2>3
<1>4. f[n] = g[n]
  <2>1. PICK m \in Nat : m = n + 1
    OBVIOUS
  <2>2. n <= m /\ n \in 1 .. n /\ Upto(s, n, f) /\ Upto(t, m, g)
    BY <1>1, <1>2, <2>1
  <2>3. \A i \in 1 .. n : f[i] = g[i]
    BY <2>2, UptoAgrees
  <2> QED
    BY <2>2, <2>3
<1> QED
  BY <1>1, <1>2, <1>3, <1>4

LEMMA FlattenAppend ==
    ASSUME NEW S, NEW s \in Seq(Seq(S)), NEW x \in Seq(S)
    PROVE  FlattenSeq(Append(s, x)) = FlattenSeq(s) \o x
<1>1. PICK t : t = Append(s, x)
  OBVIOUS
<1>2. /\ t \in Seq(Seq(S)) /\ Len(t) = Len(s) + 1 /\ t[Len(s) + 1] = x
      /\ \A i \in 1 .. Len(s) : s[i] = t[i]
  BY <1>1
<1>3. PICK n \in Nat : n = Len(s)
  OBVIOUS
<1>4. CASE n = 0
  <2>1. FlattenSeq(s) = << >>
    <3>1. Len(s) = 0 /\ s = << >>
      BY <1>3, <1>4, EmptySeq
    <3> QED
      BY <3>1 DEF FlattenSeq
  <2>2. PICK f : Upto(t, Len(t), f) /\ FlattenSeq(t) = f[Len(t)]
    <3>1. Len(t) \in Nat /\ Len(t) # 0
      BY <1>2, <1>3
    <3> QED
      BY <3>1, FlattenOf
  <2>3. f[1] = t[1] /\ Len(t) = 1
    <3>1. 1 \in 1 .. 1 /\ Len(t) = 1 /\ 1 \in Nat /\ Upto(t, 1, f)
      BY <1>2, <1>3, <1>4, <2>2
    <3> QED
      BY <3>1 DEF Upto
  <2> QED
    BY <1>1, <1>2, <1>3, <1>4, <2>1, <2>2, <2>3
<1>5. CASE n # 0
  <2>1. Len(s) = n /\ Len(t) = n + 1 /\ \A i \in 1 .. n : s[i] = t[i]
    BY <1>2, <1>3
  <2>2. FlattenSeq(t) = FlattenSeq(s) \o t[n + 1]
    BY <1>5, <2>1, FlattenLonger
  <2> QED
    BY <1>1, <1>2, <1>3, <2>2
<1> QED
  BY <1>4, <1>5

-----------------------------------------------------------------------------
(* The tokens of a block *)

WordTokens == [kind : {"int"}, value : Nat]
DataTokens == [kind : {"data"}, bytes : Seq(Nat), packed : BOOLEAN, intact : {TRUE}]
Tokens == WordTokens \cup DataTokens

Names == {"ADLER32_D", "CRC32_D", "ADLER32_C", "CRC32_C"}
SumTokens == [kind : {"sum"}, name : Names, of : DataTokens]
LzopTokens == Tokens \cup SumTokens

NamesOf(on, a, b) ==
    (IF a \in on THEN <<a>> ELSE << >>) \o (IF b \in on THEN <<b>> ELSE << >>)
DNamesOf(on) == NamesOf(on, "ADLER32_D", "CRC32_D")
CNamesOf(on) == NamesOf(on, "ADLER32_C", "CRC32_C")

LEMMA TwoTogether ==
    ASSUME NEW S, NEW x \in S, NEW y \in S, NEW t, t = <<x>> \o <<y>>
    PROVE  t \in Seq(S) /\ Len(t) = 2 /\ t[1] = x /\ t[2] = y
<1>1. PICK a : a = <<x>>
  OBVIOUS
<1>2. PICK b : b = <<y>>
  OBVIOUS
<1>3. /\ a \in Seq(S) /\ Len(a) = 1 /\ a[1] = x
      /\ b \in Seq(S) /\ Len(b) = 1 /\ b[1] = y
  BY <1>1, <1>2
<1>4. /\ a \o b \in Seq(S) /\ Len(a \o b) = Len(a) + Len(b)
      /\ \A i \in 1 .. Len(a) + Len(b) : (a \o b)[i] = IF i <= Len(a) THEN a[i] ELSE b[i - Len(a)]
  BY <1>3, ConcatProperties
<1>5. t = a \o b
  BY <1>1, <1>2
<1> QED
  BY <1>3, <1>4, <1>5

LEMMA NamesAreSeq ==
    ASSUME NEW on, NEW a, NEW b
    PROVE  NamesOf(on, a, b) \in Seq({a, b})
<1>1. PICK n : n = NamesOf(on, a, b)
  OBVIOUS
<1>2. CASE a \in on /\ b \in on
  <2>1. a \in {a, b} /\ b \in {a, b} /\ n = <<a>> \o <<b>>
    BY <1>1, <1>2 DEF NamesOf
  <2> QED
    BY <1>1, <2>1, TwoTogether
<1>3. CASE a \in on /\ b \notin on
  <2>1. n = <<a>>
    BY <1>1, <1>3 DEF NamesOf
  <2> QED
    BY <1>1, <2>1
<1>4. CASE a \notin on /\ b \in on
  <2>1. n = <<b>>
    BY <1>1, <1>4 DEF NamesOf
  <2> QED
    BY <1>1, <2>1
<1>5. CASE a \notin on /\ b \notin on
  <2>1. n = << >>
    BY <1>1, <1>5 DEF NamesOf
  <2> QED
    BY <1>1, <2>1
<1> QED
  BY <1>2, <1>3, <1>4, <1>5

SumsOf(on, a, b, data, w) == w = WriteChecksum(a, on, data) \o WriteChecksum(b, on, data)

Summed(on, a, b, data, w) ==
    /\ w \in Seq(LzopTokens) /\ Len(NamesOf(on, a, b)) \in Nat
    /\ Len(w) = Len(NamesOf(on, a, b))
    /\ \A k \in 1 .. Len(w) : w[k] = Checksum(NamesOf(on, a, b)[k], data)
    /\ Len(NamesOf(on, a, b)) = 0 => a \notin on /\ b \notin on

LEMMA TwoSums ==
    ASSUME NEW on, NEW a \in Names, NEW b \in Names, NEW data \in DataTokens,
           NEW w, SumsOf(on, a, b, data, w)
    PROVE  Summed(on, a, b, data, w)
<1>1. PICK x, y : x = Checksum(a, data) /\ y = Checksum(b, data)
  OBVIOUS
<1>2. x \in LzopTokens /\ y \in LzopTokens
  BY <1>1 DEF LzopTokens, SumTokens, Checksum
<1>3. w = (IF a \in on THEN <<x>> ELSE << >>) \o (IF b \in on THEN <<y>> ELSE << >>)
  BY <1>1 DEF WriteChecksum, SumsOf
<1> HIDE DEF LzopTokens
<1>4. CASE a \in on /\ b \in on
  <2>1. w \in Seq(LzopTokens) /\ Len(w) = 2 /\ w[1] = x /\ w[2] = y
    <3>1. w = <<x>> \o <<y>>
      BY <1>3, <1>4
    <3> QED
      BY <1>2, <3>1, TwoTogether
  <2>2. PICK n : n = NamesOf(on, a, b)
    OBVIOUS
  <2>3. n \in Seq(Names) /\ Len(n) = 2 /\ n[1] = a /\ n[2] = b
    <3>1. n = <<a>> \o <<b>>
      BY <1>4, <2>2 DEF NamesOf
    <3> QED
      BY <3>1, TwoTogether
  <2>4. \A k \in 1 .. 2 : w[k] = Checksum(n[k], data)
    BY <1>1, <2>1, <2>3
  <2> QED
    BY <2>1, <2>2, <2>3, <2>4 DEF Summed
<1>5. CASE a \in on /\ b \notin on
  <2>1. w = <<x>>
    BY <1>2, <1>3, <1>5
  <2>2. NamesOf(on, a, b) = <<a>>
    BY <1>5 DEF NamesOf
  <2> QED
    BY <1>1, <1>2, <1>5, <2>1, <2>2 DEF Summed
<1>6. CASE a \notin on /\ b \in on
  <2>1. w = <<y>>
    BY <1>2, <1>3, <1>6
  <2>2. NamesOf(on, a, b) = <<b>>
    BY <1>6 DEF NamesOf
  <2> QED
    BY <1>1, <1>2, <1>6, <2>1, <2>2 DEF Summed
<1>7. CASE a \notin on /\ b \notin on
  <2>1. w = << >> /\ NamesOf(on, a, b) = << >>
    BY <1>3, <1>7 DEF NamesOf
  <2> QED
    BY <1>7, <2>1 DEF Summed
<1> QED
  BY <1>4, <1>5, <1>6, <1>7

LEMMA FunctionIsSeq ==
    ASSUME NEW S, NEW n \in Nat, NEW f \in [1 .. n -> S]
    PROVE  f \in Seq(S) /\ Len(f) = n
<1> QED
  OBVIOUS

JoinOf(S, s, t, u) == s \in Seq(S) /\ t \in Seq(S) /\ u = s \o t

Joined(s, t, u) ==
    /\ Len(u) = Len(s) + Len(t)
    /\ \A k \in 1 .. Len(s) : u[k] = s[k]
    /\ \A h \in 1 .. Len(t) : u[Len(s) + h] = t[h]

LEMMA JoinedParts ==
    ASSUME NEW S, NEW s, NEW t, NEW u, JoinOf(S, s, t, u)
    PROVE  u \in Seq(S) /\ Joined(s, t, u)
<1>1. s \in Seq(S) /\ t \in Seq(S) /\ u = s \o t
  BY DEF JoinOf
<1>2. /\ u \in Seq(S) /\ Len(u) = Len(s) + Len(t)
      /\ \A i \in 1 .. Len(s) + Len(t) : u[i] = IF i <= Len(s) THEN s[i] ELSE t[i - Len(s)]
  BY <1>1, ConcatProperties
<1>3. \A k \in 1 .. Len(s) : u[k] = s[k]
  BY <1>1, <1>2
<1>4. \A k \in 1 .. Len(t) : u[Len(s) + k] = t[k]
  BY <1>1, <1>2
<1> QED
  BY <1>2, <1>3, <1>4 DEF Joined

(* Four sequences one after the other. *)
LEMMA FourParts ==
    ASSUME NEW S, NEW s1 \in Seq(S), NEW s2 \in Seq(S), NEW s3 \in Seq(S), NEW s4 \in Seq(S),
           NEW t, t = s1 \o s2 \o s3 \o s4
    PROVE  /\ t \in Seq(S) /\ Len(t) = Len(s1) + Len(s2) + Len(s3) + Len(s4)
           /\ \A k \in 1 .. Len(s1) : t[k] = s1[k]
           /\ \A k \in 1 .. Len(s2) : t[Len(s1) + k] = s2[k]
           /\ \A k \in 1 .. Len(s3) : t[Len(s1) + Len(s2) + k] = s3[k]
           /\ \A k \in 1 .. Len(s4) : t[Len(s1) + Len(s2) + Len(s3) + k] = s4[k]
<1>1. PICK u : u = s1 \o s2
  OBVIOUS
<1>2. PICK v : v = s3 \o s4
  OBVIOUS
<1>3. /\ u \in Seq(S) /\ Len(u) = Len(s1) + Len(s2)
      /\ \A k \in 1 .. Len(s1) : u[k] = s1[k]
      /\ \A k \in 1 .. Len(s2) : u[Len(s1) + k] = s2[k]
  <2>1. JoinOf(S, s1, s2, u)
    BY <1>1 DEF JoinOf
  <2> QED
    BY <2>1, JoinedParts DEF Joined
<1>4. /\ v \in Seq(S) /\ Len(v) = Len(s3) + Len(s4)
      /\ \A k \in 1 .. Len(s3) : v[k] = s3[k]
      /\ \A k \in 1 .. Len(s4) : v[Len(s3) + k] = s4[k]
  <2>1. JoinOf(S, s3, s4, v)
    BY <1>2 DEF JoinOf
  <2> QED
    BY <2>1, JoinedParts DEF Joined
<1>5. /\ t \in Seq(S) /\ Len(t) = Len(u) + Len(v)
      /\ \A k \in 1 .. Len(u) : t[k] = u[k]
      /\ \A k \in 1 .. Len(v) : t[Len(u) + k] = v[k]
  <2>1. t = (u \o s3) \o s4
    BY <1>1
  <2>2. (u \o s3) \o s4 = u \o (s3 \o s4)
    <3>1. u \in Seq(S)
      BY <1>3
    <3> QED
      BY <3>1, ConcatAssociative, SMTT(30)
  <2>3. JoinOf(S, u, v, t)
    BY <1>2, <1>3, <1>4, <2>1, <2>2 DEF JoinOf
  <2>4. t \in Seq(S) /\ Joined(u, v, t)
    BY <2>3, JoinedParts
  <2> QED
    BY <2>4 DEF Joined
<1>6. \A k \in 1 .. Len(s1) : t[k] = s1[k]
  BY <1>3, <1>5
<1>7. \A k \in 1 .. Len(s2) : t[Len(s1) + k] = s2[k]
  <2>1. \A k \in 1 .. Len(s2) : Len(s1) + k \in 1 .. Len(u)
    BY <1>3
  <2> QED
    BY <1>3, <1>5, <2>1
<1>8. \A k \in 1 .. Len(s3) : t[Len(s1) + Len(s2) + k] = s3[k]
  <2>1. \A k \in 1 .. Len(s3) : k \in 1 .. Len(v)
    BY <1>4
  <2> QED
    BY <1>3, <1>4, <1>5, <2>1
<1>9. \A k \in 1 .. Len(s4) : t[Len(s1) + Len(s2) + Len(s3) + k] = s4[k]
  <2>1. TAKE k \in 1 .. Len(s4)
  <2>2. PICK h : h = Len(s3) + k
    OBVIOUS
  <2>3. h \in 1 .. Len(v) /\ Len(s1) + Len(s2) + Len(s3) + k = Len(u) + h
    BY <1>3, <1>4, <2>2
  <2>4. t[Len(u) + h] = v[h] /\ v[h] = s4[k]
    BY <1>4, <1>5, <2>2, <2>3
  <2> QED
    BY <2>3, <2>4
<1>10. Len(t) = Len(s1) + Len(s2) + Len(s3) + Len(s4)
  BY <1>3, <1>4, <1>5
<1> QED
  BY <1>5, <1>6, <1>7, <1>8, <1>9, <1>10

SizeOf(on, packed) == 3 + Len(DNamesOf(on)) + (IF packed THEN Len(CNamesOf(on)) ELSE 0)

(* The tokens behind the o-th are those of a block of these bytes. *)
BlockBehind(f, o, on, bytes, packed, size) ==
    /\ f[o + 1] = Word(Len(bytes)) /\ f[o + 2] = Word(size)
    /\ \A k \in 1 .. Len(DNamesOf(on)) :
            f[o + 2 + k] = Checksum(DNamesOf(on)[k], Data(bytes, FALSE))
    /\ packed => \A k \in 1 .. Len(CNamesOf(on)) :
            f[o + 2 + Len(DNamesOf(on)) + k] = Checksum(CNamesOf(on)[k], Data(bytes, TRUE))
    /\ f[o + SizeOf(on, packed)] = Data(bytes, packed)

LEMMA NamesLens ==
    ASSUME NEW on
    PROVE  /\ Len(DNamesOf(on)) \in Nat /\ Len(CNamesOf(on)) \in Nat
           /\ \A packed \in BOOLEAN : SizeOf(on, packed) \in Nat /\ SizeOf(on, packed) >= 3
<1>1. PICK data : data = Data(<< >>, FALSE)
  OBVIOUS
<1>2. data \in DataTokens
  <2>1. << >> \in Seq(Nat)
    OBVIOUS
  <2> QED
    BY <1>1, <2>1 DEF DataTokens, Data
<1>3. \A a \in Names, b \in Names : Len(NamesOf(on, a, b)) \in Nat
  <2>1. TAKE a \in Names, b \in Names
  <2>2. PICK w : SumsOf(on, a, b, data, w)
    BY DEF SumsOf
  <2> QED
    BY <1>2, <2>2, TwoSums DEF Summed
<1>4. Len(DNamesOf(on)) \in Nat /\ Len(CNamesOf(on)) \in Nat
  BY <1>3 DEF DNamesOf, CNamesOf, Names
<1>5. PICK n \in Nat : n = Len(DNamesOf(on))
  BY <1>4
<1>6. PICK m \in Nat : m = Len(CNamesOf(on))
  BY <1>4
<1>7. \A packed \in BOOLEAN : SizeOf(on, packed) = 3 + n + (IF packed THEN m ELSE 0)
  BY <1>5, <1>6 DEF SizeOf
<1> QED
  BY <1>4, <1>7

IsBlock(t, on, bytes, packed, size) ==
    size <= Len(bytes) /\ (packed <=> size < Len(bytes)) /\ t = LzopBlock(on, bytes, size)

LEMMA LzopBlockTokens ==
    ASSUME NEW on, NEW bytes \in Seq(Nat), NEW size \in Nat, NEW packed \in BOOLEAN,
           NEW t, IsBlock(t, on, bytes, packed, size)
    PROVE  /\ t \in Seq(LzopTokens) /\ Len(t) = SizeOf(on, packed)
           /\ BlockBehind(t, 0, on, bytes, packed, size)
<1> size <= Len(bytes) /\ (packed <=> size < Len(bytes)) /\ t = LzopBlock(on, bytes, size)
  BY DEF IsBlock
<1>1. PICK w1, w2, plain, data :
        /\ w1 = Word(Len(bytes)) /\ w2 = Word(size)
        /\ plain = Data(bytes, FALSE) /\ data = Data(bytes, packed)
  OBVIOUS
<1>2. w1 \in LzopTokens /\ w2 \in LzopTokens /\ data \in LzopTokens /\ plain \in DataTokens
      /\ data \in DataTokens
  <2>1. w1 \in WordTokens /\ w2 \in WordTokens
    BY <1>1 DEF WordTokens, Word
  <2>2. plain \in DataTokens /\ data \in DataTokens
    BY <1>1 DEF DataTokens, Data
  <2> QED
    BY <2>1, <2>2 DEF LzopTokens, Tokens
<1>3. PICK a1, a2, c1, c2 :
        /\ a1 = WriteChecksum("ADLER32_D", on, plain) /\ a2 = WriteChecksum("CRC32_D", on, plain)
        /\ c1 = WriteChecksum("ADLER32_C", on, data) /\ c2 = WriteChecksum("CRC32_C", on, data)
  OBVIOUS
<1>4. PICK d, c : d = a1 \o a2 /\ c = IF packed THEN c1 \o c2 ELSE << >>
  OBVIOUS
<1>5. /\ d \in Seq(LzopTokens) /\ Len(d) = Len(DNamesOf(on))
      /\ \A k \in 1 .. Len(d) : d[k] = Checksum(DNamesOf(on)[k], plain)
  <2>1. "ADLER32_D" \in Names /\ "CRC32_D" \in Names /\ plain \in DataTokens
    BY <1>2 DEF Names
  <2>2. SumsOf(on, "ADLER32_D", "CRC32_D", plain, d)
    BY <1>3, <1>4 DEF SumsOf
  <2>3. Summed(on, "ADLER32_D", "CRC32_D", plain, d)
    BY <2>1, <2>2, TwoSums
  <2> QED
    BY <2>3 DEF Summed, DNamesOf
<1>6. /\ c \in Seq(LzopTokens) /\ Len(c) = IF packed THEN Len(CNamesOf(on)) ELSE 0
      /\ packed => \A k \in 1 .. Len(c) : c[k] = Checksum(CNamesOf(on)[k], data)
  <2>1. CASE packed
    <3>1. "ADLER32_C" \in Names /\ "CRC32_C" \in Names /\ data \in DataTokens
      BY <1>2 DEF Names
    <3>2. SumsOf(on, "ADLER32_C", "CRC32_C", data, c)
      BY <1>3, <1>4, <2>1 DEF SumsOf
    <3>3. /\ c \in Seq(LzopTokens) /\ Len(c) = Len(CNamesOf(on))
          /\ \A k \in 1 .. Len(c) : c[k] = Checksum(CNamesOf(on)[k], data)
      <4>1. Summed(on, "ADLER32_C", "CRC32_C", data, c)
        BY <3>1, <3>2, TwoSums
      <4> QED
        BY <4>1 DEF Summed, CNamesOf
    <3> QED
      BY <2>1, <3>3
  <2>2. CASE ~packed
    BY <1>4, <2>2
  <2> QED
    BY <2>1, <2>2
<1>7. t = <<w1, w2>> \o d \o c \o <<data>>
  <2>1. a1 \in Seq(LzopTokens) /\ a2 \in Seq(LzopTokens)
    <3>1. \A a \in Names : Checksum(a, plain) \in LzopTokens
      BY <1>2 DEF LzopTokens, SumTokens, Checksum
    <3> HIDE DEF LzopTokens
    <3>2. \A a \in Names : WriteChecksum(a, on, plain) \in Seq(LzopTokens)
      BY <3>1 DEF WriteChecksum
    <3> QED
      BY <1>3, <3>2 DEF Names
  <2>2. t = <<w1, w2>> \o a1 \o a2 \o c \o <<data>>
    <3>1. data = Data(bytes, size < Len(bytes)) /\ (packed <=> size < Len(bytes))
      BY <1>1
    <3>2. w2 = Word(IF size < Len(bytes) THEN size ELSE Len(bytes))
      BY <1>1
    <3> QED
      BY <1>1, <1>3, <1>4, <3>1, <3>2 DEF LzopBlock
  <2>3. <<w1, w2>> \in Seq(LzopTokens)
    BY <1>2
  <2>4. (<<w1, w2>> \o a1) \o a2 = <<w1, w2>> \o (a1 \o a2)
    BY <2>1, <2>3, ConcatAssociative
  <2> QED
    BY <1>4, <2>2, <2>4
<1>8. PICK h, e : h = <<w1, w2>> /\ e = <<data>>
  OBVIOUS
<1>9. /\ h \in Seq(LzopTokens) /\ e \in Seq(LzopTokens)
      /\ Len(h) = 2 /\ h[1] = w1 /\ h[2] = w2 /\ Len(e) = 1 /\ e[1] = data
  <2> HIDE DEF LzopTokens
  <2> QED
    BY <1>2, <1>8
<1>10. /\ t \in Seq(LzopTokens) /\ Len(t) = Len(h) + Len(d) + Len(c) + Len(e)
       /\ \A k \in 1 .. Len(h) : t[k] = h[k]
       /\ \A k \in 1 .. Len(d) : t[Len(h) + k] = d[k]
       /\ \A k \in 1 .. Len(c) : t[Len(h) + Len(d) + k] = c[k]
       /\ \A k \in 1 .. Len(e) : t[Len(h) + Len(d) + Len(c) + k] = e[k]
  <2>1. t = h \o d \o c \o e
    BY <1>7, <1>8
  <2>2. h \in Seq(LzopTokens) /\ d \in Seq(LzopTokens) /\ c \in Seq(LzopTokens) /\ e \in Seq(LzopTokens)
    BY <1>5, <1>6, <1>9
  <2> HIDE DEF LzopTokens
  <2> QED
    BY <2>1, <2>2, FourParts
<1>11. PICK n, m : n = Len(DNamesOf(on)) /\ m = (IF packed THEN Len(CNamesOf(on)) ELSE 0)
  OBVIOUS
<1>12. n \in Nat /\ m \in Nat /\ Len(d) = n /\ Len(c) = m /\ SizeOf(on, packed) = 3 + n + m
  BY <1>5, <1>6, <1>11, NamesLens DEF SizeOf
<1>13. Len(t) = 3 + n + m
  BY <1>9, <1>10, <1>12
<1>14. t[1] = w1 /\ t[2] = w2
  BY <1>9, <1>10
<1>15. \A k \in 1 .. n : t[2 + k] = Checksum(DNamesOf(on)[k], plain)
  BY <1>5, <1>9, <1>10, <1>12
<1>16. packed => \A k \in 1 .. m : t[2 + n + k] = Checksum(CNamesOf(on)[k], data)
  BY <1>6, <1>9, <1>10, <1>12
<1>17. t[3 + n + m] = data
  <2>1. t[2 + n + m + 1] = e[1]
    BY <1>9, <1>10, <1>12
  <2>2. 2 + n + m + 1 = 3 + n + m
    BY <1>12
  <2> QED
    BY <1>9, <2>1, <2>2
<1>18. BlockBehind(t, 0, on, bytes, packed, size)
  <2>1. t[0 + 1] = w1 /\ t[0 + 2] = w2 /\ t[0 + SizeOf(on, packed)] = data
    BY <1>12, <1>14, <1>17
  <2>2. \A k \in 1 .. n : t[0 + 2 + k] = Checksum(DNamesOf(on)[k], plain)
    BY <1>15
  <2>3. packed => \A k \in 1 .. m : t[0 + 2 + n + k] = Checksum(CNamesOf(on)[k], data)
    BY <1>16
  <2> QED
    BY <1>1, <1>11, <2>1, <2>2, <2>3 DEF BlockBehind
<1> QED
  BY <1>10, <1>12, <1>13, <1>18

-----------------------------------------------------------------------------
(* Files *)

(* What may have become of the j-th token of a file. *)
TokenAged(tokens, aged, j) ==
    \/ aged[j] = tokens[j]
    \/ aged[j] = Part /\ j = Len(aged)
    \/ tokens[j].kind = "data" /\ aged[j] = Harmed(tokens[j])
    \/ tokens[j].kind = "sum" /\ aged[j] = [tokens[j] EXCEPT !.of = Data(<< >>, FALSE)]

TokensAged(tokens, aged) ==
    /\ Len(aged) \in Nat /\ Len(aged) <= Len(tokens) /\ DOMAIN aged = 1 .. Len(aged)
    /\ \A j \in 1 .. Len(aged) : TokenAged(tokens, aged, j)

LEMMA TornTokens ==
    ASSUME NEW T, NEW tokens \in Seq(T), NEW aged \in Torn(tokens)
    PROVE  TokensAged(tokens, aged)
<1>1. PICK k \in 0 .. Len(tokens) - 1 :
        aged = SubSeq(tokens, 1, k) \/ aged = Append(SubSeq(tokens, 1, k), Part)
  BY DEF Torn
<1>2. PICK t : t = SubSeq(tokens, 1, k)
  OBVIOUS
<1>3. t \in Seq(T) /\ Len(t) = k /\ k < Len(tokens) /\ \A j \in 1 .. k : t[j] = tokens[j]
  BY <1>2
<1>4. CASE aged = t
  <2>1. Len(aged) \in Nat /\ Len(aged) <= Len(tokens) /\ DOMAIN aged = 1 .. Len(aged)
    BY <1>3, <1>4
  <2>2. \A j \in 1 .. Len(aged) : aged[j] = tokens[j]
    BY <1>3, <1>4
  <2> QED
    BY <2>1, <2>2 DEF TokensAged, TokenAged
<1>5. CASE aged = Append(t, Part)
  <2>1. t \in Seq(T \cup {Part}) /\ Part \in T \cup {Part}
    BY <1>3
  <2> HIDE DEF Part
  <2>2. /\ Len(aged) = k + 1 /\ DOMAIN aged = 1 .. k + 1 /\ aged[k + 1] = Part
        /\ \A j \in 1 .. k : aged[j] = t[j]
    BY <1>3, <1>5, <2>1
  <2>3. Len(aged) \in Nat /\ Len(aged) <= Len(tokens) /\ DOMAIN aged = 1 .. Len(aged)
    BY <1>3, <2>2
  <2>4. \A j \in 1 .. Len(aged) : aged[j] = tokens[j] \/ (aged[j] = Part /\ j = Len(aged))
    BY <1>3, <2>2
  <2> QED
    BY <2>3, <2>4 DEF TokensAged, TokenAged
<1> QED
  BY <1>1, <1>2, <1>4, <1>5

LEMMA AgedTokens ==
    ASSUME NEW T, NEW tokens \in Seq(T), NEW aged \in Aged(tokens)
    PROVE  TokensAged(tokens, aged)
<1>1. CASE aged \in Torn(tokens)
  BY <1>1, TornTokens
<1>2. CASE aged = tokens
  BY <1>2 DEF TokensAged, TokenAged
<1>3. ASSUME NEW i \in DOMAIN tokens, tokens[i].kind = "data",
             aged = [tokens EXCEPT ![i] = Harmed(@)]
      PROVE  TokensAged(tokens, aged)
  <2>1. PICK h : h = Harmed(tokens[i])
    OBVIOUS
  <2>2. aged = [tokens EXCEPT ![i] = h]
    BY <1>3, <2>1
  <2>3. Len(aged) = Len(tokens) /\ DOMAIN aged = 1 .. Len(tokens)
    BY <2>2
  <2>4. \A j \in 1 .. Len(tokens) : aged[j] = IF j = i THEN h ELSE tokens[j]
    BY <2>2
  <2> QED
    <3>1. i \in 1 .. Len(tokens) /\ Len(tokens) \in Nat
      OBVIOUS
    <3>2. ASSUME NEW j \in 1 .. Len(tokens) PROVE TokenAged(tokens, aged, j)
      <4>1. CASE j = i
        BY <1>3, <2>1, <2>4, <3>1, <4>1 DEF TokenAged
      <4>2. CASE j # i
        BY <2>4, <3>1, <4>2 DEF TokenAged
      <4> QED
        BY <4>1, <4>2
    <3> QED
      BY <2>3, <3>1, <3>2 DEF TokensAged
<1>4. ASSUME NEW i \in DOMAIN tokens, tokens[i].kind = "sum",
             aged = [tokens EXCEPT ![i].of = Data(<< >>, FALSE)]
      PROVE  TokensAged(tokens, aged)
  <2>1. PICK h : h = [tokens[i] EXCEPT !.of = Data(<< >>, FALSE)]
    OBVIOUS
  <2>2. aged = [tokens EXCEPT ![i] = h]
    BY <1>4, <2>1
  <2>3. Len(aged) = Len(tokens) /\ DOMAIN aged = 1 .. Len(tokens)
    BY <2>2
  <2>4. \A j \in 1 .. Len(tokens) : aged[j] = IF j = i THEN h ELSE tokens[j]
    BY <2>2
  <2> QED
    <3>1. i \in 1 .. Len(tokens) /\ Len(tokens) \in Nat
      OBVIOUS
    <3>2. ASSUME NEW j \in 1 .. Len(tokens) PROVE TokenAged(tokens, aged, j)
      <4>1. CASE j = i
        BY <1>4, <2>1, <2>4, <3>1, <4>1 DEF TokenAged
      <4>2. CASE j # i
        BY <2>4, <3>1, <4>2 DEF TokenAged
      <4> QED
        BY <4>1, <4>2
    <3> QED
      BY <2>3, <3>1, <3>2 DEF TokensAged
<1> QED
  BY <1>1, <1>2, <1>3, <1>4 DEF Aged

=============================================================================
