----------------------- MODULE HadoopRoundTrip_proofs -----------------------
(***************************************************************************)
(* Proofs about HadoopRoundTrip, for buffers of any size and any sequence  *)
(* of calls.                                                               *)
(***************************************************************************)
EXTENDS HadoopRoundTrip, LzoFrames_proofs

-----------------------------------------------------------------------------
(* What the stream sends: the sums of its blocks.                          *)

Lengths == [kind : {"ulen"}, value : Nat]
Chunks == [kind : {"chunk"}, block : Seq(Nat), from : Nat, whole : BOOLEAN]
Sendings == Lengths \cup Chunks

Size(t) == IF t.kind = "chunk" THEN Len(t.block) ELSE 0
Bytes(s) == [k \in DOMAIN s |-> IF s[k].kind = "chunk" THEN Len(s[k].block) ELSE 0]
Sum(s, n) == Total(Bytes(s), n)

LEMMA TotalSame ==
    ASSUME NEW n, NEW f, NEW g, \A j \in 1 .. n : f[j] = g[j]
    PROVE  Total(f, n) = Total(g, n)
<1>1. {{j} \X (1 .. f[j]) : j \in 1 .. n} = {{j} \X (1 .. g[j]) : j \in 1 .. n}
  OBVIOUS
<1> QED
  BY <1>1 DEF Total

LEMMA SizeIsNat ==
    ASSUME NEW t \in Sendings
    PROVE  Size(t) \in Nat /\ t.kind \in {"ulen", "chunk"}
<1>1. CASE t \in Lengths
  BY <1>1 DEF Lengths, Size
<1>2. CASE t \in Chunks
  BY <1>2 DEF Chunks, Size
<1> QED
  BY <1>1, <1>2 DEF Sendings

LEMMA SumGrows ==
    ASSUME NEW s \in Seq(Sendings)
    PROVE  /\ \A n \in 0 .. Len(s) : Sum(s, n) \in Nat
           /\ \A n \in 0 .. Len(s) - 1 : Sum(s, n + 1) = Sum(s, n) + Size(s[n + 1])
           /\ \A m, n \in 0 .. Len(s) : m <= n => Sum(s, m) <= Sum(s, n)
           /\ Sum(s, 0) = 0
<1>1. Len(s) \in Nat /\ \A j \in 1 .. Len(s) : Bytes(s)[j] = Size(s[j]) /\ Bytes(s)[j] \in Nat
  <2>1. \A j \in 1 .. Len(s) : s[j] \in Sendings
    OBVIOUS
  <2> QED
    BY <2>1, SizeIsNat DEF Bytes, Size
<1>2. ASSUME NEW n \in 0 .. Len(s) PROVE Sum(s, n) \in Nat
  BY <1>1, TotalIsNat DEF Sum
<1>3. ASSUME NEW n \in 0 .. Len(s) - 1 PROVE Sum(s, n + 1) = Sum(s, n) + Size(s[n + 1])
  <2>1. n \in Nat /\ (\A j \in 1 .. n + 1 : Bytes(s)[j] \in Nat) /\ n + 1 \in 1 .. Len(s)
    BY <1>1
  <2>2. Total(Bytes(s), n + 1) = Total(Bytes(s), n) + Bytes(s)[n + 1]
    BY <2>1, TotalGrows
  <2> QED
    BY <1>1, <2>1, <2>2 DEF Sum
<1>4. ASSUME NEW m \in 0 .. Len(s), NEW n \in 0 .. Len(s), m <= n PROVE Sum(s, m) <= Sum(s, n)
  BY <1>1, <1>4, TotalIsMonotone DEF Sum
<1> QED
  BY <1>2, <1>3, <1>4, TotalOfNone DEF Sum

(* Another token at the end.                                               *)
Longer(s, t, u) ==
    /\ u \in Seq(Sendings) /\ Len(u) = Len(s) + 1 /\ u[Len(s) + 1] = t
    /\ \A i \in 1 .. Len(s) : u[i] = s[i]
    /\ \A n \in 0 .. Len(s) : Sum(u, n) = Sum(s, n)
    /\ Sum(u, Len(s) + 1) = Sum(s, Len(s)) + Size(t)

LEMMA AppendIs ==
    ASSUME NEW s \in Seq(Sendings), NEW t \in Sendings, NEW u, u = Append(s, t)
    PROVE  Longer(s, t, u)
<1>1. /\ u \in Seq(Sendings) /\ Len(u) = Len(s) + 1 /\ u[Len(s) + 1] = t
      /\ \A i \in 1 .. Len(s) : u[i] = s[i]
  OBVIOUS
<1>2. Len(s) \in Nat
  OBVIOUS
<1>3. ASSUME NEW n \in 0 .. Len(s) PROVE Sum(u, n) = Sum(s, n)
  <2>1. \A j \in 1 .. n : Bytes(u)[j] = Bytes(s)[j]
    BY <1>1, <1>2 DEF Bytes
  <2> QED
    BY <2>1, TotalSame DEF Sum
<1>4. Sum(u, Len(s) + 1) = Sum(u, Len(s)) + Size(u[Len(s) + 1])
  <2>1. Len(s) \in 0 .. Len(u) - 1
    BY <1>1, <1>2
  <2> QED
    BY <1>1, <2>1, SumGrows
<1> QED
  BY <1>1, <1>2, <1>3, <1>4 DEF Longer

-----------------------------------------------------------------------------
(* Up to the first chunk that is not whole, the chunks hold the bytes that *)
(* were written, in order.                                                 *)
GoodUpTo(s, n) == \A i \in 1 .. n : s[i].kind = "chunk" => s[i].whole

InOrderAt(s, k) ==
    /\ Len(s[k].block) \in 1 .. MaxInput
    /\ \A b \in 1 .. Len(s[k].block) : s[k].block[b] = Sum(s, k - 1) + b

ChunksInOrder(s) ==
    \A k \in 1 .. Len(s) : s[k].kind = "chunk" /\ GoodUpTo(s, k) => InOrderAt(s, k)

LEMMA GoodLonger ==
    ASSUME NEW s \in Seq(Sendings), NEW t \in Sendings, NEW u, Longer(s, t, u)
    PROVE  /\ \A n \in 0 .. Len(s) : GoodUpTo(u, n) <=> GoodUpTo(s, n)
           /\ GoodUpTo(u, Len(u)) <=> GoodUpTo(s, Len(s)) /\ (t.kind = "chunk" => t.whole)
<1>1. /\ u \in Seq(Sendings) /\ Len(u) = Len(s) + 1 /\ u[Len(s) + 1] = t /\ Len(s) \in Nat
      /\ \A i \in 1 .. Len(s) : u[i] = s[i]
  BY DEF Longer
<1>2. ASSUME NEW n \in 0 .. Len(s) PROVE GoodUpTo(u, n) <=> GoodUpTo(s, n)
  <2>1. \A i \in 1 .. n : u[i] = s[i]
    BY <1>1
  <2> QED
    BY <2>1 DEF GoodUpTo
<1>3. GoodUpTo(u, Len(s) + 1) <=> GoodUpTo(u, Len(s)) /\ (t.kind = "chunk" => t.whole)
  <2>1. 1 .. Len(s) + 1 = (1 .. Len(s)) \cup {Len(s) + 1}
    BY <1>1
  <2> QED
    BY <1>1, <2>1, Zenon DEF GoodUpTo
<1> QED
  BY <1>1, <1>2, <1>3

LEMMA OrderLonger ==
    ASSUME NEW s \in Seq(Sendings), NEW t \in Sendings, NEW u, Longer(s, t, u), ChunksInOrder(s),
           t.kind = "chunk" /\ t.whole /\ GoodUpTo(s, Len(s)) => InOrderAt(u, Len(u))
    PROVE  ChunksInOrder(u)
<1>1. /\ Len(u) = Len(s) + 1 /\ u[Len(s) + 1] = t /\ Len(s) \in Nat
      /\ \A i \in 1 .. Len(s) : u[i] = s[i]
      /\ \A n \in 0 .. Len(s) : Sum(u, n) = Sum(s, n)
  BY DEF Longer
<1>2. SUFFICES ASSUME NEW k \in 1 .. Len(u), u[k].kind = "chunk", GoodUpTo(u, k)
               PROVE  InOrderAt(u, k)
  BY DEF ChunksInOrder
<1>3. CASE k = Len(s) + 1
  BY <1>1, <1>2, <1>3, GoodLonger
<1>4. CASE k # Len(s) + 1
  <2>1. k \in 1 .. Len(s) /\ k \in 0 .. Len(s) /\ k - 1 \in 0 .. Len(s)
    BY <1>1, <1>4
  <2>2. InOrderAt(s, k)
    BY <1>1, <1>2, <2>1, GoodLonger DEF ChunksInOrder
  <2>3. u[k] = s[k] /\ Sum(u, k - 1) = Sum(s, k - 1)
    BY <1>1, <2>1
  <2> QED
    BY <2>2, <2>3 DEF InOrderAt
<1> QED
  BY <1>3, <1>4

-----------------------------------------------------------------------------
(* Each length is followed by chunks that hold as many bytes; to the last  *)
(* one, debt bytes are missing.                                            *)
GroupIn(s, i, j) ==
    /\ s[i].kind = "ulen" /\ i <= j
    /\ \A k \in i + 1 .. j : s[k].kind = "chunk"
    /\ j < Len(s) => s[j + 1].kind = "ulen"

HonestIn(s, debt) ==
    /\ s # << >> => s[1].kind = "ulen"
    /\ \A i, j \in 1 .. Len(s) :
            GroupIn(s, i, j) =>
                s[i].value = Sum(s, j) - Sum(s, i) + (IF j = Len(s) THEN debt ELSE 0)

LEMMA GroupBefore ==
    ASSUME NEW s \in Seq(Sendings), NEW t \in Sendings, NEW u, Longer(s, t, u),
           NEW i \in 1 .. Len(s), NEW j \in 1 .. Len(s), GroupIn(u, i, j)
    PROVE  GroupIn(s, i, j)
<1>1. /\ Len(u) = Len(s) + 1 /\ Len(s) \in Nat /\ \A k \in 1 .. Len(s) : u[k] = s[k]
  BY DEF Longer
<1>2. \A k \in i + 1 .. j : k \in 1 .. Len(s)
  BY <1>1
<1>3. j < Len(s) => j + 1 \in 1 .. Len(s) /\ j < Len(u)
  BY <1>1
<1> QED
  BY <1>1, <1>2, <1>3 DEF GroupIn

LEMMA HonestLength ==
    ASSUME NEW s \in Seq(Sendings), NEW t \in Lengths, NEW u, Longer(s, t, u), HonestIn(s, 0)
    PROVE  HonestIn(u, t.value)
<1>1. /\ Len(u) = Len(s) + 1 /\ u[Len(s) + 1] = t /\ Len(s) \in Nat
      /\ \A k \in 1 .. Len(s) : u[k] = s[k]
      /\ \A n \in 0 .. Len(s) : Sum(u, n) = Sum(s, n)
  BY DEF Longer
<1>2. t \in Sendings /\ t.kind = "ulen" /\ t.value \in Nat
  BY DEF Sendings, Lengths
<1>3. u[1].kind = "ulen"
  <2>1. CASE s = << >>
    BY <1>1, <1>2, <2>1
  <2>2. CASE s # << >>
    <3>1. Len(s) # 0
      BY <2>2, EmptySeq
    <3> QED
      BY <1>1, <2>2, <3>1 DEF HonestIn
  <2> QED
    BY <2>1, <2>2
<1>4. ASSUME NEW i \in 1 .. Len(u), NEW j \in 1 .. Len(u), GroupIn(u, i, j)
      PROVE  u[i].value = Sum(u, j) - Sum(u, i) + (IF j = Len(u) THEN t.value ELSE 0)
  <2>1. i <= j /\ \A k \in i + 1 .. j : u[k].kind = "chunk"
    BY <1>4 DEF GroupIn
  <2>2. CASE j = Len(u)
    <3>1. i = Len(u)
      BY <1>1, <1>2, <2>1, <2>2
    <3>2. Sum(u, Len(u)) \in Nat
      BY <1>1, SumGrows DEF Longer
    <3> QED
      BY <1>1, <1>2, <2>2, <3>1, <3>2
  <2>3. CASE j # Len(u)
    <3>1. i \in 1 .. Len(s) /\ j \in 1 .. Len(s) /\ i \in 0 .. Len(s) /\ j \in 0 .. Len(s)
      BY <1>1, <2>1, <2>3
    <3>2. s[i].value = Sum(s, j) - Sum(s, i) + (IF j = Len(s) THEN 0 ELSE 0)
      BY <1>2, <1>4, <3>1, GroupBefore DEF HonestIn
    <3>3. u[i] = s[i] /\ Sum(u, j) = Sum(s, j) /\ Sum(u, i) = Sum(s, i)
      BY <1>1, <3>1
    <3> QED
      BY <2>3, <3>2, <3>3
  <2> QED
    BY <2>2, <2>3
<1> QED
  BY <1>3, <1>4 DEF HonestIn

LEMMA HonestChunk ==
    ASSUME NEW s \in Seq(Sendings), NEW t \in Chunks, NEW u, Longer(s, t, u),
           NEW debt \in Nat, HonestIn(s, debt), s # << >>
    PROVE  HonestIn(u, debt - Len(t.block))
<1>1. /\ Len(u) = Len(s) + 1 /\ u[Len(s) + 1] = t /\ Len(s) \in Nat
      /\ \A k \in 1 .. Len(s) : u[k] = s[k]
      /\ \A n \in 0 .. Len(s) : Sum(u, n) = Sum(s, n)
      /\ Sum(u, Len(s) + 1) = Sum(s, Len(s)) + Size(t)
  BY DEF Longer
<1>2. t \in Sendings /\ t.kind = "chunk" /\ Size(t) = Len(t.block) /\ Len(t.block) \in Nat
  BY DEF Sendings, Chunks, Size
<1>3. u[1].kind = "ulen"
  <2>1. Len(s) # 0
    BY EmptySeq
  <2> QED
    BY <1>1, <2>1 DEF HonestIn
<1>4. ASSUME NEW i \in 1 .. Len(u), NEW j \in 1 .. Len(u), GroupIn(u, i, j)
      PROVE  u[i].value = Sum(u, j) - Sum(u, i) + (IF j = Len(u) THEN debt - Len(t.block) ELSE 0)
  <2>1. u[i].kind = "ulen" /\ i <= j /\ (\A k \in i + 1 .. j : u[k].kind = "chunk")
        /\ (j < Len(u) => u[j + 1].kind = "ulen")
    BY <1>4 DEF GroupIn
  <2>2. i \in 1 .. Len(s) /\ i \in 0 .. Len(s)
    BY <1>1, <1>2, <2>1
  <2>3. u[i] = s[i] /\ Sum(u, i) = Sum(s, i) /\ Sum(s, i) \in Nat /\ Sum(s, Len(s)) \in Nat
    BY <1>1, <2>2, SumGrows
  <2>4. CASE j = Len(u)
    <3>1. GroupIn(s, i, Len(s))
      <4>1. \A k \in i + 1 .. Len(s) : k \in i + 1 .. j /\ u[k] = s[k]
        BY <1>1, <2>2, <2>4
      <4> QED
        BY <2>1, <2>2, <2>3, <4>1 DEF GroupIn
    <3>2. s[i].value = Sum(s, Len(s)) - Sum(s, i) + debt
      BY <1>1, <2>2, <3>1 DEF HonestIn
    <3> QED
      BY <1>1, <1>2, <2>3, <2>4, <3>2
  <2>5. CASE j # Len(u)
    <3>1. j \in 1 .. Len(s) - 1 /\ j \in 1 .. Len(s) /\ j \in 0 .. Len(s)
      BY <1>1, <1>2, <2>1, <2>5
    <3>2. s[i].value = Sum(s, j) - Sum(s, i) + (IF j = Len(s) THEN debt ELSE 0)
      BY <1>2, <1>4, <2>2, <3>1, GroupBefore DEF HonestIn
    <3>3. Sum(u, j) = Sum(s, j) /\ Sum(s, j) \in Nat
      BY <1>1, <3>1, SumGrows
    <3> QED
      BY <1>1, <2>3, <2>5, <3>1, <3>2, <3>3
  <2> QED
    BY <2>4, <2>5
<1> QED
  BY <1>3, <1>4 DEF HonestIn

(* What a length promises is at least what has followed it so far, and all *)
(* of it where the next length comes.                                      *)
LEMMA GroupHolds ==
    ASSUME NEW s \in Seq(Sendings), NEW debt \in Nat, HonestIn(s, debt),
           NEW i \in 1 .. Len(s), NEW p \in i .. Len(s), s[i].kind = "ulen",
           \A k \in i + 1 .. p : s[k].kind = "chunk"
    PROVE  /\ Sum(s, p) - Sum(s, i) <= s[i].value
           /\ p < Len(s) /\ s[p + 1].kind = "ulen" => s[i].value = Sum(s, p) - Sum(s, i)
           /\ p = Len(s) => s[i].value = Sum(s, p) - Sum(s, i) + debt
<1> DEFINE Stops == {j \in p .. Len(s) : j = Len(s) \/ s[j + 1].kind = "ulen"}
<1>1. Len(s) \in Nat /\ \A k \in 1 .. Len(s) : s[k] \in Sendings /\ s[k].kind \in {"ulen", "chunk"}
  BY SizeIsNat
<1>2. PICK j \in Stops : \A k \in Stops : j <= k
  <2>1. Stops \in SUBSET Nat /\ Len(s) \in Stops
    BY <1>1
  <2> HIDE DEF Stops
  <2> QED
    BY <2>1, Least
<1>3. j \in p .. Len(s) /\ (j = Len(s) \/ s[j + 1].kind = "ulen")
  OBVIOUS
<1>4. ASSUME NEW k \in i + 1 .. j PROVE s[k].kind = "chunk"
  <2>1. CASE k <= p
    BY <2>1
  <2>2. CASE k > p
    <3>1. k - 1 \in p .. Len(s) /\ k - 1 < j /\ k \in 1 .. Len(s) /\ k - 1 + 1 = k
      BY <1>1, <1>3, <2>2
    <3>2. k - 1 \notin Stops
      <4> HIDE DEF Stops
      <4> QED
        BY <1>2, <1>3, <3>1
    <3>3. s[k].kind # "ulen"
      BY <3>1, <3>2
    <3> QED
      BY <1>1, <3>1, <3>3
  <2> QED
    BY <1>1, <1>3, <2>1, <2>2
<1>5. GroupIn(s, i, j) /\ j \in 1 .. Len(s)
  BY <1>1, <1>3, <1>4 DEF GroupIn
<1>6. s[i].value = Sum(s, j) - Sum(s, i) + (IF j = Len(s) THEN debt ELSE 0)
  BY <1>5 DEF HonestIn
<1>7. Sum(s, p) <= Sum(s, j) /\ Sum(s, p) \in Nat /\ Sum(s, j) \in Nat /\ Sum(s, i) \in Nat
  BY <1>1, <1>3, SumGrows
<1>8. p < Len(s) /\ s[p + 1].kind = "ulen" => j = p
  <2>1. p < Len(s) /\ s[p + 1].kind = "ulen" => p \in Stops
    BY <1>1
  <2> HIDE DEF Stops
  <2> QED
    BY <1>2, <1>3, <2>1
<1>9. p = Len(s) => j = p
  BY <1>1, <1>3
<1> QED
  BY <1>1, <1>3, <1>6, <1>7, <1>8, <1>9

-----------------------------------------------------------------------------
(* The writer whose compressor has room for whatever the stream gives it   *)
(* at a time: nothing is held over, and a block goes out in one piece.     *)
Roomy == N >= MaxInput

Inputs(n) == [array : [0 .. n - 1 -> Nat], len : 0 .. n, hold : {NoHoldover}]
Outputs == [block : Seq(Nat), size : Nat, pos : Nat, good : BOOLEAN]

Outputted(out) ==
    /\ out \in Outputs /\ out.pos <= out.size
    /\ out.good => out.size - out.pos = 0

DataFields ==
    /\ N \in Nat
    /\ inputs \in Inputs(N)
    /\ Outputted(output)
    /\ sent \in Seq(Sendings)

CallFields ==
    /\ finished \in BOOLEAN
    /\ inputByteCount \in Nat /\ accepted \in Nat /\ pending \in Nat /\ failures \in Nat
    /\ pc \in {"idle", "give", "segment", "empty", "drain"}
    /\ then \in {"done", "give", "segment"}

(* A call gives the compressor no more than there is room for.             *)
Fits ==
    /\ inputs.len <= inputByteCount /\ inputByteCount <= MaxInput
    /\ pc = "give" /\ pending <= MaxInput => inputByteCount + pending <= MaxInput
    /\ pc = "give" /\ pending > MaxInput => inputByteCount = 0
    /\ pc = "segment" => inputByteCount = 0

(* The bytes that are not in chunks are in inputBuffer, unless the         *)
(* compressor has failed: then a chunk that is not whole is still to go    *)
(* out.                                                                    *)
Rests(in, out, s, bytes) ==
    GoodUpTo(s, Len(s)) =>
        IF out.good
        THEN /\ bytes = Sum(s, Len(s)) + in.len
             /\ \A b \in 0 .. in.len - 1 : in.array[b] = Sum(s, Len(s)) + b + 1
        ELSE out.size - out.pos > 0

WriterOrder ==
    /\ ChunksInOrder(sent)
    /\ Rests(inputs, output, sent, accepted)
    /\ failures = 0 => GoodUpTo(sent, Len(sent)) /\ output.good

(* What the last length that was written promises beyond the chunks that   *)
(* came after it.                                                          *)
Debt ==
    CASE pc = "segment" -> pending
      [] pc = "drain" -> inputs.len + (IF then = "segment" THEN pending ELSE 0)
      [] OTHER -> 0

Calls ==
    /\ pc # "empty"
    /\ pc \in {"give", "segment"} => ~finished
    /\ pc \in {"idle", "give"} => inputs.len = IF finished THEN 0 ELSE inputByteCount
    /\ pc = "drain" => finished
    /\ pc \in {"segment", "drain"} => sent # << >>

Accounts == failures = 0 /\ N > MaxInput => Calls /\ HonestIn(sent, Debt)

WriterInv == DataFields /\ CallFields /\ Fits /\ WriterOrder /\ Accounts

(* The sizes of the blocks. *)
LEMMA BlocksFit ==
    /\ StreamBuffer \in Nat \ {0} /\ MaxInput \in Nat
    /\ \A len \in 0 .. MaxInput : \A size \in Sizes(len) : size \in 1 .. StreamBuffer
<1>1. StreamBuffer \in Nat \ {0}
  BY CompressorAssumption
<1>2. MaxInput \in Nat
  BY <1>1 DEF MaxInput, Overhead
<1>3. ASSUME NEW len \in 0 .. MaxInput, NEW size \in Sizes(len) PROVE size \in 1 .. StreamBuffer
  <2>1. len \in Nat /\ len <= StreamBuffer - (StreamBuffer \div 4 + 1)
    BY <1>2 DEF MaxInput, Overhead
  <2>2. len \div 4 \in Nat /\ len \div 4 <= StreamBuffer \div 4 /\ StreamBuffer \div 4 \in Nat
    BY <1>1, <2>1
  <2>3. size = 1 \/ size = len + (len \div 4 + 1)
    BY DEF Sizes, Overhead
  <2> QED
    BY <1>1, <2>1, <2>2, <2>3
<1> QED
  BY <1>1, <1>2, <1>3

LEMMA BufferStays ==
    ASSUME NEW n \in Nat, inputs \in Inputs(n), inputs' \in Inputs(n)
    PROVE  N' = N
BY DEF N, Inputs

(* setInput() of what fits puts it behind what is there. *)
Grown(g, n, len) ==
    /\ g \in Inputs(n) /\ g.len = inputs.len + len
    /\ \A b \in 0 .. inputs.len - 1 : g.array[b] = inputs.array[b]
    /\ \A b \in inputs.len .. inputs.len + len - 1 : g.array[b] = accepted + (b - inputs.len) + 1

LEMMA GivenFits ==
    ASSUME NEW n \in Nat, N = n, inputs \in Inputs(n), accepted \in Nat,
           NEW len \in Nat, inputs.len + len <= n
    PROVE  Grown(Given(len), n, len)
<1>1. PICK a \in [0 .. n - 1 -> Nat], l \in 0 .. n : a = inputs.array /\ l = inputs.len
  BY DEF Inputs
<1>2. PICK h : h = [buf |-> NextBytes(len), pos |-> 0, len |-> len]
  OBVIOUS
<1>3. inputs = [array |-> a, len |-> l, hold |-> NoHoldover]
  BY <1>1 DEF Inputs
<1>4. PICK in : in = [array |-> a, len |-> l, hold |-> h]
  OBVIOUS
<1>5. Given(len) = Compacted(in)
  BY <1>2, <1>3, <1>4 DEF Given
<1>6. h # NoHoldover /\ h.len = len /\ h.pos = 0 /\ h.buf = NextBytes(len)
  BY <1>2 DEF NoHoldover
<1>7. Lesser(len, n - l) = len /\ ~(l = 0 /\ len > n)
  BY <1>1 DEF Lesser
<1>8. Compacted(in) = [array |-> ArrayCopy(NextBytes(len), 0, a, l, len), len |-> l + len,
                       hold |-> NoHoldover]
  BY <1>4, <1>6, <1>7 DEF Compacted, Rest
<1>9. PICK c : c = ArrayCopy(NextBytes(len), 0, a, l, len)
  OBVIOUS
<1>10. /\ c \in [0 .. n - 1 -> Nat]
       /\ \A b \in 0 .. l - 1 : c[b] = a[b]
       /\ \A b \in l .. l + len - 1 : c[b] = accepted + (b - l) + 1
  <2>1. \A i \in 0 .. len - 1 : NextBytes(len)[i] = accepted + i + 1
    BY DEF NextBytes
  <2>2. c = [i \in 0 .. n - 1 |-> IF i \in l .. l + len - 1 THEN NextBytes(len)[0 + (i - l)] ELSE a[i]]
    BY <1>1, <1>9 DEF ArrayCopy
  <2>3. \A i \in l .. l + len - 1 : /\ i \in 0 .. n - 1 /\ 0 + (i - l) = i - l /\ i - l \in 0 .. len - 1
                                    /\ accepted + (i - l) + 1 \in Nat
    <3>1. l + len <= n /\ l \in Nat
      BY <1>1
    <3> QED
      BY <3>1
  <2>4. \A b \in l .. l + len - 1 : c[b] = accepted + (b - l) + 1
    BY <2>1, <2>2, <2>3
  <2>5. \A b \in 0 .. n - 1 : b \notin l .. l + len - 1 => c[b] = a[b]
    BY <2>2
  <2>6. \A b \in 0 .. l - 1 : b \in 0 .. n - 1 /\ b \notin l .. l + len - 1
    BY <1>1
  <2>7. \A b \in 0 .. n - 1 : c[b] \in Nat
    BY <1>1, <2>3, <2>4, <2>5
  <2> QED
    BY <2>2, <2>4, <2>5, <2>6, <2>7
<1>11. Given(len) = [array |-> c, len |-> l + len, hold |-> NoHoldover]
  BY <1>5, <1>8, <1>9
<1> QED
  BY <1>1, <1>10, <1>11 DEF Grown, Inputs

(* compress() takes all of inputBuffer. *)
LEMMA TakesAll ==
    ASSUME NEW n \in Nat, inputs \in Inputs(n), inputs.len > 0
    PROVE  /\ Taken.block \in Seq(Nat) /\ Len(Taken.block) = inputs.len
           /\ \A b \in 1 .. inputs.len : Taken.block[b] = inputs.array[b - 1]
           /\ Taken.after \in Inputs(n) /\ Taken.after.len = 0
<1>1. PICK a \in [0 .. n - 1 -> Nat], l \in 1 .. n : a = inputs.array /\ l = inputs.len
  BY DEF Inputs
<1>2. inputs = [array |-> a, len |-> l, hold |-> NoHoldover]
  BY <1>1 DEF Inputs
<1>3. PICK in : in = [array |-> a, len |-> 0, hold |-> NoHoldover]
  OBVIOUS
<1>4. Compacted(in) = in
  BY <1>3 DEF Compacted
<1>5. PICK block : block = Slice(a, 0, l)
  OBVIOUS
<1>6. Taken = [block |-> block, after |-> in]
  BY <1>1, <1>2, <1>3, <1>4, <1>5 DEF Taken, FromInput
<1>7. block \in [1 .. l -> Nat] /\ \A b \in 1 .. l : block[b] = a[b - 1]
  <2>1. \A b \in 1 .. l : 0 + b - 1 = b - 1 /\ b - 1 \in 0 .. n - 1
    OBVIOUS
  <2> QED
    BY <1>5, <2>1 DEF Slice
<1>8. block \in Seq(Nat) /\ Len(block) = l
  BY <1>7, FunctionIsSeq
<1> QED
  BY <1>1, <1>3, <1>6, <1>7, <1>8 DEF Inputs

LEMMA NoneHeld ==
    ASSUME DataFields
    PROVE  inputs.hold = NoHoldover /\ inputs.len \in 0 .. N /\ inputs.len \in Nat
           /\ (HasInput <=> inputs.len > 0)
BY DEF DataFields, Inputs, HasInput

(* compress() puts out all of inputBuffer as one chunk.                    *)
WholeChunk(t) ==
    /\ t \in Chunks /\ Longer(sent, t, sent') /\ t.whole
    /\ Len(t.block) = inputs.len /\ \A b \in 1 .. inputs.len : t.block[b] = inputs.array[b - 1]
    /\ inputs' \in Inputs(N) /\ inputs'.len = 0
    /\ Outputted(output') /\ output'.good

LEMMA CompressNextIs ==
    ASSUME DataFields, inputs.len \in 1 .. MaxInput, CompressNext
    PROVE  \E t : WholeChunk(t)
<1>1. inputs \in Inputs(N) /\ N \in Nat /\ sent \in Seq(Sendings)
  BY DEF DataFields
<1>2. PICK block, after : block = Taken.block /\ after = Taken.after
  OBVIOUS
<1>3. /\ block \in Seq(Nat) /\ Len(block) = inputs.len
      /\ \A b \in 1 .. inputs.len : block[b] = inputs.array[b - 1]
      /\ after \in Inputs(N) /\ after.len = 0
  BY <1>1, <1>2, TakesAll
<1>4. PICK size \in Sizes(Len(block)) :
        LET fresh == [block |-> block, size |-> size, pos |-> 0, good |-> TRUE]
            len == Lesser(StreamBuffer, size)
        IN  /\ inputs' = after
            /\ output' = [fresh EXCEPT !.pos = len]
            /\ sent' = Append(sent, Chunk(fresh, len))
  BY <1>2 DEF CompressNext
<1>5. size \in 1 .. StreamBuffer /\ StreamBuffer \in Nat
  <2>1. inputs.len \in 0 .. MaxInput
    BY BlocksFit
  <2> QED
    BY <1>3, <1>4, <2>1, BlocksFit
<1>6. Lesser(StreamBuffer, size) = size
  BY <1>5 DEF Lesser
<1>7. PICK t : t = [kind |-> "chunk", block |-> block, from |-> 0, whole |-> TRUE]
  OBVIOUS
<1>8. Chunk([block |-> block, size |-> size, pos |-> 0, good |-> TRUE], size) = t
  BY <1>7 DEF Chunk
<1>9. output' = [block |-> block, size |-> size, pos |-> size, good |-> TRUE]
      /\ inputs' = after /\ sent' = Append(sent, t)
  BY <1>4, <1>6, <1>8
<1>10. t \in Chunks /\ t \in Sendings
  BY <1>3, <1>7 DEF Chunks, Sendings
<1>11. Longer(sent, t, sent')
  BY <1>1, <1>9, <1>10, AppendIs
<1>12. Outputted(output') /\ output'.good
  BY <1>3, <1>5, <1>9 DEF Outputted, Outputs
<1>13. t.whole /\ t.block = block
  BY <1>7
<1>14. inputs' \in Inputs(N) /\ inputs'.len = 0
  BY <1>3, <1>9
<1>15. WholeChunk(t)
  BY <1>3, <1>10, <1>11, <1>12, <1>13, <1>14 DEF WholeChunk
<1> QED
  BY <1>15

(* What is left of a failed compression goes out as chunks that are not    *)
(* whole.                                                                  *)
BrokenChunk(t) ==
    /\ t \in Chunks /\ Longer(sent, t, sent') /\ ~t.whole
    /\ inputs' = inputs /\ ~output.good
    /\ Outputted(output') /\ ~output'.good

LEMMA CompressRestIs ==
    ASSUME DataFields, Left > 0, CompressRest
    PROVE  \E t : BrokenChunk(t)
<1>1. sent \in Seq(Sendings) /\ Outputted(output)
  BY DEF DataFields
<1>2. PICK block \in Seq(Nat), size \in Nat, pos \in Nat :
        /\ output = [block |-> block, size |-> size, pos |-> pos, good |-> FALSE]
        /\ Left = size - pos /\ pos < size
  <2>1. ~output.good /\ output \in Outputs /\ output.pos <= output.size
    BY <1>1 DEF Outputted, Left
  <2> QED
    BY <2>1 DEF Outputs, Left
<1>3. PICK len : len = Lesser(StreamBuffer, size - pos)
  OBVIOUS
<1>4. len \in 1 .. size - pos
  BY <1>2, <1>3, BlocksFit DEF Lesser
<1>5. PICK t : t = [kind |-> "chunk", block |-> block, from |-> pos, whole |-> FALSE]
  OBVIOUS
<1>6. /\ output' = [output EXCEPT !.pos = @ + len]
      /\ sent' = Append(sent, Chunk(output, len))
      /\ inputs' = inputs
  BY <1>2, <1>3 DEF CompressRest
<1>7. Chunk(output, len) = t
  BY <1>2, <1>5 DEF Chunk
<1>8. t \in Chunks /\ t \in Sendings
  BY <1>2, <1>5 DEF Chunks, Sendings
<1>9. Longer(sent, t, sent')
  BY <1>1, <1>6, <1>7, <1>8, AppendIs
<1>10. output' = [block |-> block, size |-> size, pos |-> pos + len, good |-> FALSE]
  BY <1>2, <1>6
<1>11. Outputted(output') /\ ~output'.good
  BY <1>2, <1>4, <1>10 DEF Outputted, Outputs
<1> QED
  BY <1>2, <1>5, <1>6, <1>8, <1>9, <1>11 DEF BrokenChunk

(* So a call of compress() keeps the order.                                *)
LEMMA CompressKeeps ==
    ASSUME DataFields, WriterOrder, inputs.len <= MaxInput, Compress, UNCHANGED <<accepted, failures>>
    PROVE  /\ DataFields' /\ WriterOrder' /\ N' = N /\ inputs'.len \in Nat /\ inputs'.len <= inputs.len
           /\ failures = 0 => inputs'.len = 0 /\ \E t \in Chunks : Longer(sent, t, sent')
                                                                   /\ Len(t.block) = inputs.len
<1>1. /\ inputs \in Inputs(N) /\ N \in Nat /\ sent \in Seq(Sendings) /\ Outputted(output)
      /\ inputs.len \in Nat /\ (HasInput <=> inputs.len > 0)
  BY NoneHeld DEF DataFields
<1>2. CASE Left = 0 /\ HasInput /\ CompressNext
  <2>1. inputs.len \in 1 .. MaxInput
    BY <1>1, <1>2, BlocksFit
  <2>2. PICK t : WholeChunk(t)
    BY <1>2, <2>1, CompressNextIs
  <2>3. /\ t \in Chunks /\ t \in Sendings /\ Longer(sent, t, sent') /\ t.whole /\ t.kind = "chunk"
        /\ Len(t.block) = inputs.len /\ \A b \in 1 .. inputs.len : t.block[b] = inputs.array[b - 1]
        /\ inputs' \in Inputs(N) /\ inputs'.len = 0 /\ Outputted(output') /\ output'.good
    BY <2>2 DEF WholeChunk, Sendings, Chunks
  <2>4. Size(t) = inputs.len
    BY <2>3 DEF Size
  <2>5. /\ sent' \in Seq(Sendings) /\ Len(sent') = Len(sent) + 1 /\ sent'[Len(sent) + 1] = t
        /\ Sum(sent', Len(sent)) = Sum(sent, Len(sent))
        /\ Sum(sent', Len(sent) + 1) = Sum(sent, Len(sent)) + inputs.len
        /\ Len(sent) \in Nat /\ Sum(sent, Len(sent)) \in Nat
    BY <1>1, <2>3, <2>4, SumGrows DEF Longer
  <2>6. GoodUpTo(sent', Len(sent')) <=> GoodUpTo(sent, Len(sent))
    BY <1>1, <2>3, GoodLonger
  <2>7. GoodUpTo(sent, Len(sent)) =>
            /\ output.good
            /\ accepted = Sum(sent, Len(sent)) + inputs.len
            /\ \A b \in 0 .. inputs.len - 1 : inputs.array[b] = Sum(sent, Len(sent)) + b + 1
    BY <1>2 DEF WriterOrder, Rests, Left
  <2>8. ChunksInOrder(sent')
    <3>1. ASSUME GoodUpTo(sent, Len(sent)) PROVE InOrderAt(sent', Len(sent'))
      <4>1. ASSUME NEW b \in 1 .. inputs.len PROVE t.block[b] = Sum(sent, Len(sent)) + b
        <5>1. b - 1 \in 0 .. inputs.len - 1 /\ b - 1 + 1 = b
          BY <1>1
        <5>2. inputs.array[b - 1] = Sum(sent, Len(sent)) + (b - 1) + 1
          BY <2>7, <3>1, <5>1
        <5> QED
          BY <2>3, <2>5, <5>1, <5>2
      <4>2. Len(sent') - 1 = Len(sent)
        BY <2>5
      <4> QED
        BY <2>1, <2>3, <2>5, <4>1, <4>2 DEF InOrderAt
    <3> QED
      BY <1>1, <2>3, <3>1, OrderLonger DEF WriterOrder
  <2>9. Rests(inputs', output', sent', accepted')
    <3>1. SUFFICES ASSUME GoodUpTo(sent', Len(sent'))
                   PROVE  accepted' = Sum(sent', Len(sent')) + 0
      BY <2>3 DEF Rests
    <3>2. accepted = Sum(sent, Len(sent)) + inputs.len /\ accepted' = accepted
      BY <2>6, <2>7, <3>1
    <3> QED
      BY <1>1, <2>5, <3>2
  <2>10. DataFields' /\ N' = N
    <3>1. N' = N
      BY <1>1, <2>3, BufferStays
    <3> QED
      BY <1>1, <2>3, <2>5, <3>1 DEF DataFields
  <2>11. WriterOrder'
    BY <2>3, <2>6, <2>8, <2>9 DEF WriterOrder
  <2> QED
    BY <1>1, <2>3, <2>10, <2>11
<1>3. CASE Left > 0 /\ CompressRest
  <2>1. PICK t : BrokenChunk(t)
    BY <1>3, CompressRestIs
  <2>2. /\ t \in Chunks /\ t \in Sendings /\ Longer(sent, t, sent') /\ ~t.whole /\ t.kind = "chunk"
        /\ inputs' = inputs /\ ~output.good /\ Outputted(output') /\ ~output'.good
    BY <2>1 DEF BrokenChunk, Sendings, Chunks
  <2>3. ~GoodUpTo(sent', Len(sent'))
    BY <1>1, <2>2, GoodLonger
  <2>4. ChunksInOrder(sent')
    BY <1>1, <2>2, OrderLonger DEF WriterOrder
  <2>5. N' = N /\ sent' \in Seq(Sendings)
    BY <1>1, <2>2, BufferStays DEF Longer
  <2>6. DataFields'
    BY <1>1, <2>2, <2>5 DEF DataFields
  <2>7. failures # 0
    BY <2>2 DEF WriterOrder
  <2>8. WriterOrder'
    BY <2>3, <2>4, <2>7 DEF WriterOrder, Rests
  <2> QED
    BY <1>1, <2>2, <2>5, <2>6, <2>7, <2>8
<1> QED
  BY <1>2, <1>3 DEF Compress

-----------------------------------------------------------------------------
(* The steps of the writer.                                                *)

(* reset() when all has gone out. *)
LEMMA ResetKeeps ==
    ASSUME DataFields, WriterOrder, inputs.len = 0, Left = 0, Reset, UNCHANGED <<sent, accepted, failures>>
    PROVE  /\ DataFields' /\ WriterOrder' /\ N' = N
           /\ inputs'.len = 0 /\ inputByteCount' = 0 /\ finished' = FALSE
<1>1. inputs \in Inputs(N) /\ N \in Nat
  BY DEF DataFields
<1>2. inputs' \in Inputs(N) /\ inputs'.len = 0
  BY <1>1 DEF Reset, Inputs
<1>3. output' = NoOutput
  BY DEF Reset
<1>4. Outputted(output') /\ output'.good
  BY <1>3, EmptySeq DEF NoOutput, Outputted, Outputs
<1>5. DataFields' /\ N' = N
  <2>1. N' = N
    BY <1>1, <1>2, BufferStays
  <2> QED
    BY <1>2, <1>4, <2>1 DEF DataFields
<1>6. Rests(inputs', output', sent', accepted')
  BY <1>2, <1>4 DEF WriterOrder, Rests, Left
<1>7. WriterOrder'
  BY <1>4, <1>6 DEF WriterOrder
<1> QED
  BY <1>2, <1>5, <1>7 DEF Reset

(* A length goes out. *)
LEMMA LengthOut ==
    ASSUME sent \in Seq(Sendings), ChunksInOrder(sent), NEW v \in Nat, sent' = Append(sent, Ulen(v))
    PROVE  /\ sent' \in Seq(Sendings) /\ Longer(sent, Ulen(v), sent') /\ sent' # << >>
           /\ ChunksInOrder(sent')
           /\ GoodUpTo(sent', Len(sent')) <=> GoodUpTo(sent, Len(sent))
           /\ \A in, out, bytes : Rests(in, out, sent, bytes) => Rests(in, out, sent', bytes)
<1>1. Ulen(v) \in Lengths /\ Ulen(v) \in Sendings /\ Ulen(v).kind = "ulen"
  BY DEF Ulen, Lengths, Sendings
<1>2. Longer(sent, Ulen(v), sent')
  BY <1>1, AppendIs
<1>3. /\ sent' \in Seq(Sendings) /\ Len(sent') = Len(sent) + 1 /\ Len(sent) \in Nat
      /\ Sum(sent', Len(sent')) = Sum(sent, Len(sent))
  <2>1. Size(Ulen(v)) = 0
    BY <1>1 DEF Size
  <2> QED
    BY <1>2, <2>1, SumGrows DEF Longer
<1>4. sent' # << >>
  BY <1>3, EmptySeq
<1>5. GoodUpTo(sent', Len(sent')) <=> GoodUpTo(sent, Len(sent))
  BY <1>1, <1>2, GoodLonger
<1>6. ChunksInOrder(sent')
  BY <1>1, <1>2, OrderLonger
<1>7. \A in, out, bytes : Rests(in, out, sent, bytes) => Rests(in, out, sent', bytes)
  BY <1>3, <1>5 DEF Rests
<1> QED
  BY <1>2, <1>3, <1>4, <1>5, <1>6, <1>7

LEMMA LengthKeeps ==
    ASSUME DataFields, WriterOrder, NEW v \in Nat, sent' = Append(sent, Ulen(v)),
           UNCHANGED <<inputs, output, accepted, failures>>
    PROVE  /\ DataFields' /\ WriterOrder' /\ Longer(sent, Ulen(v), sent') /\ sent' # << >>
<1>1. sent \in Seq(Sendings) /\ ChunksInOrder(sent) /\ N' = N
  BY DEF DataFields, WriterOrder, N
<1>2. /\ sent' \in Seq(Sendings) /\ Longer(sent, Ulen(v), sent') /\ sent' # << >>
      /\ ChunksInOrder(sent')
      /\ GoodUpTo(sent', Len(sent')) <=> GoodUpTo(sent, Len(sent))
      /\ Rests(inputs, output, sent, accepted) => Rests(inputs, output, sent', accepted)
  BY <1>1, LengthOut
<1> QED
  BY <1>1, <1>2 DEF WriterOrder, DataFields

(* setInput() of what fits. *)
LEMMA SetInputKeeps ==
    ASSUME DataFields, Rests(inputs, output, sent, accepted), accepted \in Nat,
           NEW len \in Nat, inputs.len + len <= N, SetInput(len)
    PROVE  /\ inputs' \in Inputs(N) /\ inputs'.len = inputs.len + len
           /\ inputs'.hold = NoHoldover /\ N' = N
           /\ Rests(inputs', output, sent, accepted')
<1>1. PICK n \in Nat : n = N
  BY DEF DataFields
<1>2. inputs \in Inputs(n) /\ inputs.len \in Nat /\ inputs.len + len <= n
  BY <1>1, NoneHeld DEF DataFields
<1>3. Grown(inputs', n, len)
  BY <1>1, <1>2, GivenFits DEF SetInput
<1>4. /\ inputs' \in Inputs(n) /\ inputs'.len = inputs.len + len
      /\ \A b \in 0 .. inputs.len - 1 : inputs'.array[b] = inputs.array[b]
      /\ \A b \in inputs.len .. inputs.len + len - 1 : inputs'.array[b] = accepted + (b - inputs.len) + 1
  BY <1>3 DEF Grown
<1>5. N' = N /\ inputs'.hold = NoHoldover
  BY <1>1, <1>2, <1>4, BufferStays DEF Inputs
<1>6. Rests(inputs', output, sent, accepted')
  <2>1. CASE ~GoodUpTo(sent, Len(sent))
    BY <2>1 DEF Rests
  <2>2. CASE ~output.good
    BY <2>2 DEF Rests
  <2>3. CASE GoodUpTo(sent, Len(sent)) /\ output.good
    <3>1. PICK q \in Nat : q = Sum(sent, Len(sent))
      <4>1. sent \in Seq(Sendings) /\ Len(sent) \in 0 .. Len(sent)
        BY DEF DataFields
      <4> QED
        BY <4>1, SumGrows
    <3>2. accepted = q + inputs.len /\ \A b \in 0 .. inputs.len - 1 : inputs.array[b] = q + b + 1
      BY <2>3, <3>1 DEF Rests
    <3>3. accepted' = q + inputs'.len
      BY <1>2, <1>4, <3>2 DEF SetInput
    <3>4. ASSUME NEW b \in 0 .. inputs'.len - 1 PROVE inputs'.array[b] = q + b + 1
      <4>1. CASE b < inputs.len
        <5>1. b \in 0 .. inputs.len - 1
          BY <1>2, <4>1
        <5> QED
          BY <1>4, <3>2, <5>1
      <4>2. CASE b >= inputs.len
        <5>1. b \in inputs.len .. inputs.len + len - 1
          BY <1>2, <1>4, <4>2
        <5>2. inputs'.array[b] = accepted + (b - inputs.len) + 1
          BY <1>4, <5>1
        <5> QED
          BY <1>2, <3>2, <5>2
      <4> QED
        BY <1>2, <4>1, <4>2
    <3> QED
      BY <2>3, <3>1, <3>3, <3>4 DEF Rests
  <2> QED
    BY <2>1, <2>2, <2>3
<1> QED
  BY <1>1, <1>4, <1>5, <1>6

LEMMA Facts ==
    ASSUME WriterInv, Roomy
    PROVE  /\ DataFields /\ CallFields /\ Fits /\ WriterOrder /\ Accounts
           /\ N \in Nat /\ inputs \in Inputs(N) /\ inputs.hold = NoHoldover /\ inputs.len \in 0 .. N
           /\ inputs.len \in Nat /\ inputs.len <= MaxInput /\ MaxInput <= N /\ MaxInput \in Nat
           /\ (HasInput <=> inputs.len > 0) /\ (output.good => Left = 0)
<1>1. DataFields /\ CallFields /\ Fits /\ WriterOrder /\ Accounts
  BY DEF WriterInv
<1>2. inputs.len <= MaxInput
  BY <1>1, NoneHeld, BlocksFit DEF Fits, CallFields
<1> QED
  BY <1>1, <1>2, NoneHeld, BlocksFit DEF DataFields, Outputted, Left, Roomy

(* finish(), also when write() calls it. *)
LEMMA StartDrainKeeps ==
    ASSUME WriterInv, Roomy, pc = "idle", ~Finished, NEW next \in {"done", "give"}, StartDrain(next),
           pending' \in Nat, UNCHANGED <<accepted, failures>>
    PROVE  WriterInv' /\ N' = N
<1>1. /\ DataFields /\ CallFields /\ Fits /\ WriterOrder /\ Accounts
      /\ inputs.hold = NoHoldover /\ inputs.len \in Nat /\ (output.good => Left = 0)
  BY Facts
<1>2. /\ sent' = Append(sent, Ulen(inputByteCount)) /\ finished' = TRUE /\ pc' = "drain" /\ then' = next
      /\ UNCHANGED <<inputs, output, inputByteCount>>
  BY DEF StartDrain
<1>3. inputByteCount \in Nat
  BY <1>1 DEF CallFields
<1>4. DataFields' /\ WriterOrder' /\ Longer(sent, Ulen(inputByteCount), sent') /\ sent' # << >>
  BY <1>1, <1>2, <1>3, LengthKeeps
<1>5. N' = N
  BY <1>2 DEF N
<1>6. CallFields' /\ Fits'
  <2>1. CallFields'
    BY <1>1, <1>2 DEF CallFields
  <2> QED
    BY <1>1, <1>2, <2>1 DEF Fits, MaxInput
<1>7. Accounts'
  <2>1. SUFFICES ASSUME failures' = 0, N' > MaxInput PROVE Calls' /\ HonestIn(sent', Debt')
    BY DEF Accounts, MaxInput
  <2>2. Calls /\ HonestIn(sent, Debt) /\ Debt = 0
    BY <1>1, <1>5, <2>1 DEF Accounts, Debt
  <2>3. output.good
    BY <1>1, <2>1 DEF WriterOrder
  <2>4. ~finished
    BY <1>1, <2>2, <2>3 DEF Calls, Finished, CallFields
  <2>5. inputs.len = inputByteCount
    BY <2>2, <2>4 DEF Calls
  <2>6. Debt' = inputByteCount
    BY <1>1, <1>2, <2>5 DEF Debt
  <2>7. HonestIn(sent', inputByteCount)
    <3>1. Ulen(inputByteCount) \in Lengths /\ Ulen(inputByteCount).value = inputByteCount
      BY <1>3 DEF Ulen, Lengths
    <3>2. sent \in Seq(Sendings) /\ Ulen(inputByteCount) \in Sendings
      BY <1>1, <3>1 DEF DataFields, Sendings
    <3> QED
      BY <1>4, <2>2, <3>1, <3>2, HonestLength
  <2> QED
    BY <1>2, <1>4, <2>6, <2>7 DEF Calls
<1> QED
  BY <1>4, <1>5, <1>6, <1>7 DEF WriterInv

LEMMA WriteKeeps ==
    ASSUME WriterInv, Roomy, NEW len \in WriteLens, Write(len)
    PROVE  WriterInv' /\ N' = N
<1>1. /\ DataFields /\ CallFields /\ Fits /\ WriterOrder /\ Accounts
      /\ inputs.hold = NoHoldover /\ inputs.len \in Nat /\ (output.good => Left = 0)
      /\ inputByteCount \in Nat /\ MaxInput \in Nat
  BY Facts DEF CallFields
<1>2. pc = "idle" /\ ~Finished /\ pending' = len /\ UNCHANGED <<accepted, failures>>
  BY DEF Write
<1>3. len \in Nat \ {0}
  BY CompressorAssumption
<1>4. CASE StartDrain("give")
  BY <1>2, <1>3, <1>4, StartDrainKeeps
<1>5. CASE /\ ~(len + inputByteCount > MaxInput /\ (FlushesEmpty \/ inputByteCount > 0))
           /\ pc' = "give"
           /\ UNCHANGED <<inputs, output, finished, inputByteCount, then, sent>>
  <2>1. N' = N /\ MaxInput' = MaxInput
    BY <1>5 DEF N, MaxInput
  <2>2. DataFields'
    BY <1>1, <1>5, <2>1 DEF DataFields
  <2>3. CallFields'
    BY <1>1, <1>2, <1>3, <1>5 DEF CallFields
  <2>4. Fits'
    <3>1. inputByteCount = 0 \/ len + inputByteCount <= MaxInput
      BY <1>1, <1>3, <1>5
    <3> QED
      BY <1>1, <1>2, <1>3, <1>5, <2>1, <3>1 DEF Fits
  <2>5. WriterOrder'
    BY <1>1, <1>2, <1>5 DEF WriterOrder
  <2>6. Accounts'
    <3>1. SUFFICES ASSUME failures' = 0, N' > MaxInput PROVE Calls' /\ HonestIn(sent', Debt')
      BY DEF Accounts, MaxInput
    <3>2. Calls /\ HonestIn(sent, Debt) /\ Debt = 0
      BY <1>1, <1>2, <2>1, <3>1 DEF Accounts, Debt
    <3>3. output.good
      BY <1>1, <1>2, <3>1 DEF WriterOrder
    <3>4. ~finished
      BY <1>1, <1>2, <3>2, <3>3 DEF Calls, Finished, CallFields
    <3>5. Debt' = 0
      BY <1>5 DEF Debt
    <3> QED
      BY <1>2, <1>5, <3>2, <3>4, <3>5 DEF Calls
  <2> QED
    BY <2>1, <2>2, <2>3, <2>4, <2>5, <2>6 DEF WriterInv
<1> QED
  BY <1>4, <1>5 DEF Write

LEMMA FinishKeeps ==
    ASSUME WriterInv, Roomy, Finish
    PROVE  WriterInv' /\ N' = N
<1>1. pending' \in Nat
  BY DEF Finish, WriterInv, CallFields
<1> QED
  BY <1>1, StartDrainKeeps DEF Finish

LEMMA GiveAllKeeps ==
    ASSUME WriterInv, Roomy, GiveAll
    PROVE  WriterInv' /\ N' = N
<1>1. /\ DataFields /\ CallFields /\ Fits /\ WriterOrder /\ Accounts /\ N \in Nat
      /\ inputs.len \in Nat /\ inputByteCount \in Nat /\ MaxInput \in Nat /\ pending \in Nat
      /\ accepted \in Nat /\ MaxInput <= N
  BY Facts DEF CallFields
<1>2. /\ pc = "give" /\ pending <= MaxInput /\ SetInput(pending) /\ pending' = 0
      /\ UNCHANGED <<output, finished, then, failures>>
      /\ inputByteCount' = inputByteCount + pending /\ accepted' = accepted + pending
  BY DEF GiveAll, SetInput
<1>3. inputByteCount + pending <= MaxInput /\ inputs.len <= inputByteCount
  BY <1>1, <1>2 DEF Fits
<1>4. /\ inputs' \in Inputs(N) /\ inputs'.len = inputs.len + pending
      /\ inputs'.hold = NoHoldover /\ N' = N
      /\ Rests(inputs', output, sent, accepted')
  <2>1. inputs.len + pending <= N
    BY <1>1, <1>3
  <2> QED
    BY <1>1, <1>2, <2>1, SetInputKeeps DEF WriterOrder
<1>5. NeedsInput(inputs') <=> inputs.len + pending < N
  BY <1>4 DEF NeedsInput
<1>6. inputByteCount' \in Nat /\ accepted' \in Nat /\ inputs'.len <= inputByteCount'
      /\ inputByteCount' <= MaxInput /\ MaxInput' = MaxInput
  BY <1>1, <1>2, <1>3, <1>4 DEF MaxInput
<1>7. sent \in Seq(Sendings) /\ ChunksInOrder(sent)
  BY <1>1 DEF DataFields, WriterOrder
<1>8. CASE NeedsInput(inputs')
  <2>1. pc' = "idle" /\ sent' = sent
    BY <1>8 DEF GiveAll
  <2>2. DataFields' /\ WriterOrder'
    BY <1>1, <1>2, <1>4, <2>1 DEF DataFields, WriterOrder
  <2>3. CallFields' /\ Fits'
    BY <1>1, <1>2, <1>6, <2>1 DEF CallFields, Fits
  <2>4. Accounts'
    <3>1. SUFFICES ASSUME failures' = 0, N' > MaxInput PROVE Calls' /\ HonestIn(sent', Debt')
      BY DEF Accounts, MaxInput
    <3>2. Calls /\ HonestIn(sent, Debt) /\ Debt = 0
      BY <1>1, <1>2, <1>4, <3>1 DEF Accounts, Debt
    <3>3. Debt' = 0
      BY <2>1 DEF Debt
    <3>4. ~finished /\ inputs.len = inputByteCount
      BY <1>2, <3>2 DEF Calls
    <3> QED
      BY <1>2, <1>4, <2>1, <3>2, <3>3, <3>4 DEF Calls
  <2> QED
    BY <1>4, <2>2, <2>3, <2>4 DEF WriterInv
<1>9. CASE ~NeedsInput(inputs')
  <2>1. pc' = "empty" /\ sent' = Append(sent, Ulen(inputByteCount'))
    BY <1>9 DEF GiveAll
  <2>2. /\ sent' \in Seq(Sendings) /\ ChunksInOrder(sent')
        /\ GoodUpTo(sent', Len(sent')) <=> GoodUpTo(sent, Len(sent))
        /\ Rests(inputs', output, sent', accepted')
    <3>1. PICK v : v = inputByteCount'
      OBVIOUS
    <3> QED
      BY <1>4, <1>6, <1>7, <2>1, <3>1, LengthOut
  <2>3. DataFields' /\ WriterOrder'
    BY <1>1, <1>2, <1>4, <2>2 DEF DataFields, WriterOrder
  <2>4. CallFields' /\ Fits'
    BY <1>1, <1>2, <1>6, <2>1 DEF CallFields, Fits
  <2>5. Accounts'
    BY <1>1, <1>3, <1>4, <1>5, <1>9 DEF Accounts, MaxInput
  <2> QED
    BY <1>4, <2>3, <2>4, <2>5 DEF WriterInv
<1> QED
  BY <1>8, <1>9

LEMMA GiveLargeKeeps ==
    ASSUME WriterInv, Roomy, GiveLarge
    PROVE  WriterInv' /\ N' = N
<1>1. /\ DataFields /\ CallFields /\ Fits /\ WriterOrder /\ Accounts /\ pending \in Nat
  BY Facts DEF CallFields
<1>2. /\ pc = "give" /\ pending > MaxInput /\ pc' = "segment" /\ sent' = Append(sent, Ulen(pending))
      /\ UNCHANGED <<inputs, output, finished, inputByteCount, pending, then, accepted, failures>>
  BY DEF GiveLarge
<1>3. DataFields' /\ WriterOrder' /\ Longer(sent, Ulen(pending), sent') /\ sent' # << >>
  BY <1>1, <1>2, LengthKeeps
<1>4. N' = N /\ MaxInput' = MaxInput
  BY <1>2 DEF N, MaxInput
<1>5. CallFields' /\ Fits'
  <2>1. CallFields'
    BY <1>1, <1>2 DEF CallFields
  <2> QED
    BY <1>1, <1>2, <1>4, <2>1 DEF Fits
<1>6. Accounts'
  <2>1. SUFFICES ASSUME failures' = 0, N' > MaxInput PROVE Calls' /\ HonestIn(sent', Debt')
    BY DEF Accounts, MaxInput
  <2>2. Calls /\ HonestIn(sent, Debt) /\ Debt = 0
    BY <1>1, <1>2, <1>4, <2>1 DEF Accounts, Debt
  <2>3. Debt' = pending
    BY <1>2 DEF Debt
  <2>4. HonestIn(sent', pending)
    <3>1. Ulen(pending) \in Lengths /\ Ulen(pending).value = pending
      BY <1>1 DEF Ulen, Lengths
    <3>2. sent \in Seq(Sendings) /\ Ulen(pending) \in Sendings
      BY <1>1, <3>1 DEF DataFields, Sendings
    <3> QED
      BY <1>3, <2>2, <3>1, <3>2, HonestLength
  <2> QED
    BY <1>2, <1>3, <2>2, <2>3, <2>4 DEF Calls
<1> QED
  BY <1>3, <1>4, <1>5, <1>6 DEF WriterInv

LEMMA GiveSegmentKeeps ==
    ASSUME WriterInv, Roomy, GiveSegment
    PROVE  WriterInv' /\ N' = N
<1>1. /\ DataFields /\ CallFields /\ Fits /\ WriterOrder /\ Accounts /\ N \in Nat
      /\ inputs.len \in Nat /\ inputByteCount \in Nat /\ MaxInput \in Nat /\ pending \in Nat
      /\ accepted \in Nat /\ MaxInput <= N
  BY Facts DEF CallFields
<1>2. PICK len : len = Lesser(pending, MaxInput)
  OBVIOUS
<1>3. len \in Nat /\ len <= pending /\ len <= MaxInput
  BY <1>1, <1>2 DEF Lesser
<1>4. /\ pc = "segment" /\ SetInput(len) /\ finished' = TRUE /\ pending' = pending - len
      /\ pc' = "drain" /\ then' = "segment" /\ UNCHANGED <<output, sent, failures>>
      /\ inputByteCount' = inputByteCount + len /\ accepted' = accepted + len
  BY <1>2 DEF GiveSegment, SetInput
<1>5. inputByteCount = 0 /\ inputs.len = 0
  BY <1>1, <1>4 DEF Fits
<1>6. /\ inputs' \in Inputs(N) /\ inputs'.len = len /\ N' = N
      /\ Rests(inputs', output, sent, accepted')
  <2>1. inputs.len + len <= N /\ inputs.len + len = len
    BY <1>1, <1>3, <1>5
  <2> QED
    BY <1>1, <1>3, <1>4, <2>1, SetInputKeeps DEF WriterOrder
<1>7. DataFields' /\ WriterOrder'
  BY <1>1, <1>4, <1>6 DEF DataFields, WriterOrder
<1>8. CallFields' /\ Fits'
  <2>1. CallFields'
    BY <1>1, <1>3, <1>4 DEF CallFields
  <2> QED
    BY <1>1, <1>3, <1>4, <1>5, <1>6, <2>1 DEF Fits, MaxInput
<1>9. Accounts'
  <2>1. SUFFICES ASSUME failures' = 0, N' > MaxInput PROVE Calls' /\ HonestIn(sent', Debt')
    BY DEF Accounts, MaxInput
  <2>2. Calls /\ HonestIn(sent, Debt) /\ Debt = pending
    BY <1>1, <1>4, <1>6, <2>1 DEF Accounts, Debt
  <2>3. Debt' = pending
    <3>1. Debt' = inputs'.len + pending'
      BY <1>4 DEF Debt
    <3> QED
      BY <1>1, <1>3, <1>4, <1>6, <3>1
  <2> QED
    BY <1>4, <2>2, <2>3 DEF Calls
<1> QED
  BY <1>6, <1>7, <1>8, <1>9 DEF WriterInv

(* setInput() never refuses. *)
LEMMA RefuseInputNot ==
    ASSUME WriterInv, Roomy
    PROVE  ~RefuseInput
BY Facts DEF RefuseInput

LEMMA EmptyBufferKeeps ==
    ASSUME WriterInv, Roomy, EmptyBuffer
    PROVE  WriterInv' /\ N' = N
<1>1. /\ DataFields /\ CallFields /\ Fits /\ WriterOrder /\ Accounts /\ inputs.len <= MaxInput
      /\ inputs.len \in Nat /\ inputByteCount \in Nat /\ MaxInput \in Nat /\ N \in Nat
      /\ inputs \in Inputs(N)
  BY Facts DEF CallFields
<1>2. /\ pc = "empty" /\ Compress /\ pc' \in {"idle", "empty"}
      /\ UNCHANGED <<finished, inputByteCount, pending, then, accepted, failures>>
  BY DEF EmptyBuffer
<1>3. DataFields' /\ WriterOrder' /\ N' = N /\ inputs'.len \in Nat /\ inputs'.len <= inputs.len
  BY <1>1, <1>2, CompressKeeps
<1>4. CallFields' /\ Fits'
  <2>1. CallFields'
    BY <1>1, <1>2 DEF CallFields
  <2> QED
    BY <1>1, <1>2, <1>3, <2>1 DEF Fits, MaxInput
<1>5. Accounts'
  BY <1>1, <1>2, <1>3 DEF Accounts, Calls, MaxInput
<1> QED
  BY <1>3, <1>4, <1>5 DEF WriterInv

LEMMA DrainBufferKeeps ==
    ASSUME WriterInv, Roomy, DrainBuffer
    PROVE  WriterInv' /\ N' = N
<1>1. /\ DataFields /\ CallFields /\ Fits /\ WriterOrder /\ Accounts /\ inputs.len <= MaxInput
      /\ inputs.len \in Nat /\ inputByteCount \in Nat /\ MaxInput \in Nat /\ pending \in Nat
  BY Facts DEF CallFields
<1>2. /\ pc = "drain" /\ Compress
      /\ UNCHANGED <<finished, inputByteCount, pc, pending, then, accepted, failures>>
  BY DEF DrainBuffer
<1>3. /\ DataFields' /\ WriterOrder' /\ N' = N /\ inputs'.len \in Nat /\ inputs'.len <= inputs.len
      /\ failures = 0 => inputs'.len = 0 /\ \E t \in Chunks : Longer(sent, t, sent')
                                                              /\ Len(t.block) = inputs.len
  BY <1>1, <1>2, CompressKeeps
<1>4. CallFields' /\ Fits'
  <2>1. CallFields'
    BY <1>1, <1>2 DEF CallFields
  <2> QED
    BY <1>1, <1>2, <1>3, <2>1 DEF Fits, MaxInput
<1>5. Accounts'
  <2>1. SUFFICES ASSUME failures' = 0, N' > MaxInput PROVE Calls' /\ HonestIn(sent', Debt')
    BY DEF Accounts, MaxInput
  <2>2. Calls /\ HonestIn(sent, Debt) /\ finished /\ sent # << >>
    BY <1>1, <1>2, <1>3, <2>1 DEF Accounts, Calls
  <2>3. PICK rest \in Nat : rest = IF then = "segment" THEN pending ELSE 0
    BY <1>1
  <2>4. Debt = inputs.len + rest
    BY <1>2, <2>3 DEF Debt
  <2>5. inputs'.len = 0
    BY <1>2, <1>3, <2>1
  <2>6. Debt' = rest
    <3>1. Debt' = inputs'.len + (IF then = "segment" THEN pending ELSE 0)
      BY <1>2 DEF Debt
    <3> QED
      BY <2>3, <2>5, <3>1
  <2>7. PICK t \in Chunks : Longer(sent, t, sent') /\ Len(t.block) = inputs.len
    BY <1>2, <1>3, <2>1
  <2>8. HonestIn(sent', rest)
    <3>1. inputs.len + rest \in Nat /\ inputs.len + rest - Len(t.block) = rest
      BY <1>1, <2>3, <2>7
    <3>2. sent \in Seq(Sendings) /\ t \in Sendings
      BY <1>1 DEF DataFields, Sendings
    <3>3. HonestIn(sent', inputs.len + rest - Len(t.block))
      BY <2>2, <2>4, <2>7, <3>1, <3>2, HonestChunk
    <3> QED
      BY <3>1, <3>3
  <2>9. sent' # << >>
    <3>1. Len(sent') = Len(sent) + 1 /\ Len(sent) \in Nat
      BY <1>1, <2>7 DEF Longer, DataFields
    <3> QED
      BY <3>1, EmptySeq
  <2> QED
    BY <1>2, <2>2, <2>6, <2>8, <2>9 DEF Calls
<1> QED
  BY <1>3, <1>4, <1>5 DEF WriterInv

LEMMA DrainedKeeps ==
    ASSUME WriterInv, Roomy, Drained
    PROVE  WriterInv' /\ N' = N
<1>1. /\ DataFields /\ CallFields /\ Fits /\ WriterOrder /\ Accounts /\ MaxInput \in Nat
      /\ pending \in Nat
  BY Facts DEF CallFields
<1>2. /\ pc = "drain" /\ finished /\ Left = 0 /\ inputs.len = 0
      /\ UNCHANGED <<pending, then, sent, accepted, failures>>
  BY DEF Drained, Finished
<1>3. CASE /\ then = "done" /\ pc' = "idle"
           /\ UNCHANGED <<inputs, output, finished, inputByteCount>>
  <2>1. N' = N /\ MaxInput' = MaxInput
    BY <1>3 DEF N, MaxInput
  <2>2. DataFields' /\ WriterOrder'
    BY <1>1, <1>2, <1>3, <2>1 DEF DataFields, WriterOrder
  <2>3. CallFields' /\ Fits'
    BY <1>1, <1>2, <1>3, <2>1 DEF CallFields, Fits
  <2>4. Accounts'
    <3>1. SUFFICES ASSUME failures' = 0, N' > MaxInput PROVE Calls' /\ HonestIn(sent', Debt')
      BY DEF Accounts, MaxInput
    <3>2. Calls /\ HonestIn(sent, Debt)
      BY <1>1, <1>2, <2>1, <3>1 DEF Accounts
    <3>3. Debt = 0 /\ Debt' = 0
      BY <1>2, <1>3 DEF Debt
    <3> QED
      BY <1>2, <1>3, <3>2, <3>3 DEF Calls
  <2> QED
    BY <2>1, <2>2, <2>3, <2>4 DEF WriterInv
<1>4. CASE /\ then # "done" /\ Reset
           /\ pc' = IF then = "segment" /\ pending = 0 THEN "idle" ELSE then
  <2>1. /\ DataFields' /\ WriterOrder' /\ N' = N
        /\ inputs'.len = 0 /\ inputByteCount' = 0 /\ finished' = FALSE
    BY <1>1, <1>2, <1>4, ResetKeeps
  <2>2. N' = N /\ MaxInput' = MaxInput
    BY <2>1 DEF MaxInput
  <2>3. CallFields' /\ Fits'
    <3>1. CallFields'
      BY <1>1, <1>2, <1>4, <2>1 DEF CallFields
    <3> QED
      BY <1>1, <1>2, <1>4, <2>1, <2>2, <3>1 DEF Fits
  <2>4. Accounts'
    <3>1. SUFFICES ASSUME failures' = 0, N' > MaxInput PROVE Calls' /\ HonestIn(sent', Debt')
      BY DEF Accounts, MaxInput
    <3>2. Calls /\ HonestIn(sent, Debt)
      BY <1>1, <1>2, <2>2, <3>1 DEF Accounts
    <3>3. Debt = IF then = "segment" THEN pending ELSE 0
      BY <1>1, <1>2 DEF Debt
    <3>4. Debt' = Debt /\ pc' \in {"idle", "give", "segment"}
      <4>1. CASE then = "segment" /\ pending = 0
        BY <1>2, <1>4, <3>3, <4>1 DEF Debt
      <4>2. CASE then = "segment" /\ pending # 0
        BY <1>2, <1>4, <3>3, <4>2 DEF Debt
      <4>3. CASE then = "give"
        BY <1>2, <1>4, <3>3, <4>3 DEF Debt
      <4> QED
        BY <1>1, <1>4, <4>1, <4>2, <4>3 DEF CallFields
    <3> QED
      BY <1>2, <2>1, <3>2, <3>4 DEF Calls
  <2> QED
    BY <2>1, <2>2, <2>3, <2>4 DEF WriterInv
<1> QED
  BY <1>3, <1>4 DEF Drained

LEMMA ResetStateKeeps ==
    ASSUME WriterInv, Roomy, ResetState
    PROVE  WriterInv' /\ N' = N
<1>1. DataFields /\ CallFields /\ Fits /\ WriterOrder /\ Accounts /\ MaxInput \in Nat
  BY Facts
<1>2. /\ pc = "idle" /\ Left = 0 /\ inputs.len = 0 /\ Reset
      /\ UNCHANGED <<pc, pending, then, sent, accepted, failures>>
  BY DEF ResetState, Finished
<1>3. /\ DataFields' /\ WriterOrder' /\ N' = N
      /\ inputs'.len = 0 /\ inputByteCount' = 0 /\ finished' = FALSE
  BY <1>1, <1>2, ResetKeeps
<1>4. N' = N /\ MaxInput' = MaxInput
  BY <1>3 DEF MaxInput
<1>5. CallFields' /\ Fits'
  <2>1. CallFields'
    BY <1>1, <1>2, <1>3 DEF CallFields
  <2> QED
    BY <1>1, <1>2, <1>3, <1>4, <2>1 DEF Fits
<1>6. Accounts'
  <2>1. SUFFICES ASSUME failures' = 0, N' > MaxInput PROVE Calls' /\ HonestIn(sent', Debt')
    BY DEF Accounts, MaxInput
  <2>2. Calls /\ HonestIn(sent, Debt)
    BY <1>1, <1>2, <1>4, <2>1 DEF Accounts
  <2>3. Debt = 0 /\ Debt' = 0
    BY <1>2 DEF Debt
  <2> QED
    BY <1>2, <1>3, <2>2, <2>3 DEF Calls
<1> QED
  BY <1>3, <1>4, <1>5, <1>6 DEF WriterInv

LEMMA CompressorFailsKeeps ==
    ASSUME WriterInv, Roomy, CompressorFails
    PROVE  WriterInv' /\ N' = N
<1>1. /\ DataFields /\ CallFields /\ Fits /\ WriterOrder /\ Accounts /\ MaxInput \in Nat /\ N \in Nat
      /\ inputs \in Inputs(N) /\ (HasInput <=> inputs.len > 0) /\ inputs.len \in Nat
  BY Facts
<1>2. /\ HasInput /\ failures' = failures + 1 /\ inputs' = Taken.after /\ pc' = "idle" /\ pending' = 0
      /\ output' = [block |-> Taken.block, size |-> N + Overhead(N), pos |-> 0, good |-> FALSE]
      /\ UNCHANGED <<finished, inputByteCount, then, sent, accepted>>
  BY DEF CompressorFails
<1>3. inputs' \in Inputs(N) /\ inputs'.len = 0 /\ Taken.block \in Seq(Nat)
  BY <1>1, <1>2, TakesAll
<1>4. N + Overhead(N) \in Nat /\ N + Overhead(N) > 0
  BY <1>1 DEF Overhead
<1>5. Outputted(output') /\ ~output'.good /\ output'.size - output'.pos > 0
  <2>1. PICK block \in Seq(Nat), size \in Nat \ {0} : block = Taken.block /\ size = N + Overhead(N)
    BY <1>3, <1>4
  <2>2. output' = [block |-> block, size |-> size, pos |-> 0, good |-> FALSE]
    BY <1>2, <2>1
  <2> QED
    BY <2>2 DEF Outputted, Outputs
<1>6. N' = N /\ MaxInput' = MaxInput
  BY <1>1, <1>3, BufferStays DEF MaxInput
<1>7. DataFields' /\ CallFields' /\ Fits'
  <2>1. DataFields'
    BY <1>1, <1>2, <1>3, <1>5, <1>6 DEF DataFields
  <2>2. CallFields'
    BY <1>1, <1>2 DEF CallFields
  <2>3. Fits'
    BY <1>1, <1>2, <1>3, <1>6, <2>2 DEF Fits, CallFields
  <2> QED
    BY <2>1, <2>2, <2>3
<1>8. failures' # 0
  BY <1>1, <1>2 DEF CallFields
<1>9. WriterOrder' /\ Accounts'
  BY <1>1, <1>2, <1>5, <1>8 DEF WriterOrder, Rests, Accounts
<1> QED
  BY <1>6, <1>7, <1>9 DEF WriterInv

LEMMA WriterKeeps ==
    ASSUME WriterInv, Roomy, [Next]_vars
    PROVE  WriterInv' /\ N' = N
<1>1. CASE UNCHANGED vars
  <2>1. N' = N /\ MaxInput' = MaxInput
    BY <1>1 DEF vars, N, MaxInput
  <2>2. DataFields' /\ CallFields' /\ Fits'
    BY <1>1, <2>1 DEF WriterInv, DataFields, CallFields, Fits, vars
  <2>3. WriterOrder' /\ Accounts'
    <3>1. Debt' = Debt /\ (Calls' <=> Calls)
      BY <1>1 DEF vars, Debt, Calls
    <3> QED
      BY <1>1, <2>1, <3>1 DEF WriterInv, WriterOrder, Accounts, vars
  <2> QED
    BY <2>1, <2>2, <2>3 DEF WriterInv
<1>2. CASE \E len \in WriteLens : Write(len)
  BY <1>2, WriteKeeps
<1>3. CASE Finish
  BY <1>3, FinishKeeps
<1>4. CASE ResetState
  BY <1>4, ResetStateKeeps
<1>5. CASE Step
  BY <1>5, GiveAllKeeps, GiveLargeKeeps, GiveSegmentKeeps, RefuseInputNot, EmptyBufferKeeps,
     DrainBufferKeeps, DrainedKeeps, CompressorFailsKeeps DEF Step
<1> QED
  BY <1>1, <1>2, <1>3, <1>4, <1>5 DEF Next, Call

(* The buffer is the same throughout, whatever its size.                   *)
Shape == \E a, l, h : inputs = [array |-> a, len |-> l, hold |-> h]

LEMMA BufferInit ==
    ASSUME Init
    PROVE  Shape /\ N \in Nat
<1>1. PICK n \in Ns : inputs = [array |-> [i \in 0 .. n - 1 |-> 0], len |-> 0, hold |-> NoHoldover]
  BY DEF Init
<1>2. n \in Nat
  BY CompressorAssumption
<1>3. DOMAIN inputs.array = 0 .. n - 1
  BY <1>1
<1>4. Cardinality(0 .. n - 1) = n
  BY <1>2, FS_Interval
<1> QED
  BY <1>1, <1>2, <1>3, <1>4 DEF N, Shape

LEMMA WriterInit ==
    ASSUME Init, Roomy
    PROVE  WriterInv
<1>1. PICK n \in Ns : inputs = [array |-> [i \in 0 .. n - 1 |-> 0], len |-> 0, hold |-> NoHoldover]
  BY DEF Init
<1>2. n \in Nat \ {0} /\ MaxInput \in Nat
  BY CompressorAssumption, BlocksFit
<1>3. N = n
  <2>1. DOMAIN inputs.array = 0 .. n - 1
    BY <1>1
  <2>2. Cardinality(0 .. n - 1) = n
    BY <1>2, FS_Interval
  <2> QED
    BY <2>1, <2>2 DEF N
<1>4. /\ output = NoOutput /\ finished = FALSE /\ inputByteCount = 0 /\ pc = "idle" /\ pending = 0
      /\ then = "done" /\ sent = << >> /\ accepted = 0 /\ failures = 0
  BY DEF Init
<1>5. DataFields
  <2>1. inputs \in Inputs(n)
    BY <1>1, <1>2 DEF Inputs
  <2>2. Outputted(output)
    BY <1>4, EmptySeq DEF Outputted, Outputs, NoOutput
  <2> QED
    BY <1>2, <1>3, <1>4, <2>1, <2>2, EmptySeq DEF DataFields
<1>6. CallFields /\ Fits
  <2>1. CallFields
    BY <1>4 DEF CallFields
  <2>2. inputs.len = 0
    BY <1>1
  <2> QED
    BY <1>2, <1>4, <2>1, <2>2 DEF Fits
<1>7. sent \in Seq(Sendings) /\ Len(sent) = 0 /\ Sum(sent, 0) = 0
  <2>1. sent \in Seq(Sendings) /\ Len(sent) = 0
    BY <1>4, EmptySeq
  <2> QED
    BY <2>1, SumGrows
<1>8. WriterOrder
  <2>1. output.good
    BY <1>4 DEF NoOutput
  <2>2. ChunksInOrder(sent) /\ GoodUpTo(sent, Len(sent))
    BY <1>7 DEF ChunksInOrder, GoodUpTo
  <2>3. Rests(inputs, output, sent, accepted)
    BY <1>1, <1>4, <1>7, <2>1 DEF Rests
  <2> QED
    BY <2>1, <2>2, <2>3 DEF WriterOrder
<1>9. Accounts
  <2>1. Calls
    BY <1>1, <1>4 DEF Calls
  <2>2. HonestIn(sent, Debt)
    BY <1>4, <1>7 DEF HonestIn
  <2> QED
    BY <2>1, <2>2 DEF Accounts
<1> QED
  BY <1>5, <1>6, <1>8, <1>9 DEF WriterInv

Buffer(in, a) == \E b, l, h : in = [array |-> b, len |-> l, hold |-> h] /\ DOMAIN b = DOMAIN a

LEMMA CompactedShape ==
    ASSUME NEW a, NEW in, Buffer(in, a)
    PROVE  Buffer(Compacted(in), a)
<1>1. PICK c, l, h : in = [array |-> c, len |-> l, hold |-> h] /\ DOMAIN c = DOMAIN a
  BY DEF Buffer
<1>2. CASE in.hold = NoHoldover \/ (in.len = 0 /\ in.hold.len > N)
  BY <1>2 DEF Compacted
<1>3. CASE ~(in.hold = NoHoldover \/ (in.len = 0 /\ in.hold.len > N))
  <2>1. PICK k : k = Lesser(in.hold.len, N - in.len)
    OBVIOUS
  <2>2. PICK b : b = ArrayCopy(in.hold.buf, in.hold.pos, in.array, in.len, k)
    OBVIOUS
  <2>3. Compacted(in) = [array |-> b, len |-> in.len + k, hold |-> Rest(in.hold, k)]
    BY <1>3, <2>1, <2>2 DEF Compacted
  <2>4. DOMAIN b = DOMAIN a
    BY <1>1, <2>2 DEF ArrayCopy
  <2> QED
    BY <2>3, <2>4 DEF Buffer
<1> QED
  BY <1>2, <1>3

LEMMA BufferKeeps ==
    ASSUME Shape, [Next]_vars
    PROVE  Shape' /\ N' = N
<1>1. PICK a, l, h : inputs = [array |-> a, len |-> l, hold |-> h]
  BY DEF Shape
<1>2. ASSUME Buffer(inputs', inputs.array) PROVE Shape' /\ N' = N
  <2>1. PICK b, k, g : inputs' = [array |-> b, len |-> k, hold |-> g] /\ DOMAIN b = DOMAIN inputs.array
    BY <1>2 DEF Buffer
  <2>2. DOMAIN inputs'.array = DOMAIN inputs.array
    BY <2>1
  <2> QED
    BY <2>1, <2>2 DEF Shape, N
<1>3. CASE inputs' = inputs
  BY <1>1, <1>3 DEF Shape, N
<1>4. CASE \E len : SetInput(len)
  <2>1. PICK len : inputs' = Given(len)
    BY <1>4 DEF SetInput
  <2>2. PICK f : f = [buf |-> NextBytes(len), pos |-> 0, len |-> len]
    OBVIOUS
  <2>3. Given(len) = Compacted([array |-> a, len |-> l, hold |-> f])
    BY <1>1, <2>2 DEF Given
  <2>4. Buffer([array |-> a, len |-> l, hold |-> f], a)
    BY DEF Buffer
  <2>5. Buffer(inputs', inputs.array)
    BY <1>1, <2>1, <2>3, <2>4, CompactedShape
  <2> QED
    BY <1>2, <2>5
<1>5. CASE Reset
  <2>1. inputs' = [array |-> a, len |-> 0, hold |-> NoHoldover]
    BY <1>1, <1>5 DEF Reset
  <2>2. Buffer(inputs', inputs.array)
    BY <1>1, <2>1 DEF Buffer
  <2> QED
    BY <1>2, <2>2
<1>6. CASE inputs' = Taken.after
  <2>1. PICK m, f : Taken.after = Compacted([array |-> a, len |-> m, hold |-> f])
    <3>1. FromInput.after = Compacted([array |-> a, len |-> 0, hold |-> h])
      BY <1>1 DEF FromInput
    <3>2. \E f : FromHoldover.after = Compacted([array |-> a, len |-> l, hold |-> f])
      <4>1. PICK f : f = Rest(inputs.hold, Lesser(N, inputs.hold.len))
        OBVIOUS
      <4>2. FromHoldover.after = Compacted([inputs EXCEPT !.hold = f])
        BY <4>1 DEF FromHoldover
      <4>3. [inputs EXCEPT !.hold = f] = [array |-> a, len |-> l, hold |-> f]
        BY <1>1
      <4> QED
        BY <4>2, <4>3
    <3> QED
      BY <3>1, <3>2 DEF Taken
  <2>2. Buffer([array |-> a, len |-> m, hold |-> f], a)
    BY DEF Buffer
  <2>3. Buffer(inputs', inputs.array)
    BY <1>1, <1>6, <2>1, <2>2, CompactedShape
  <2> QED
    BY <1>2, <2>3
<1>7. Compress => inputs' = inputs \/ inputs' = Taken.after
  BY DEF Compress, CompressNext, CompressRest
<1>8. \/ inputs' = inputs \/ (\E len : SetInput(len)) \/ Reset \/ inputs' = Taken.after
  <2>1. CASE UNCHANGED vars
    BY <2>1 DEF vars
  <2>2. CASE Call
    BY <2>2 DEF Call, Write, Finish, ResetState, StartDrain
  <2>3. CASE GiveAll
    BY <2>3 DEF GiveAll
  <2>4. CASE GiveLarge \/ RefuseInput
    BY <2>4 DEF GiveLarge, RefuseInput
  <2>5. CASE GiveSegment
    BY <2>5 DEF GiveSegment
  <2>6. CASE EmptyBuffer \/ DrainBuffer
    BY <1>7, <2>6 DEF EmptyBuffer, DrainBuffer
  <2>7. CASE Drained
    BY <2>7 DEF Drained
  <2>8. CASE CompressorFails
    BY <2>8 DEF CompressorFails
  <2> QED
    BY <2>1, <2>2, <2>3, <2>4, <2>5, <2>6, <2>7, <2>8 DEF Next, Step
<1> QED
  BY <1>3, <1>4, <1>5, <1>6, <1>8

-----------------------------------------------------------------------------
(* The reader.                                                             *)

(* The last of the tokens that were sent. *)
Behind(f, s) ==
    /\ f \in Seq(Sendings) /\ Len(f) <= Len(s)
    /\ \A i \in 1 .. Len(f) : f[i] = s[Len(s) - Len(f) + i]

LEMMA TailBehind ==
    ASSUME NEW s \in Seq(Sendings), NEW f, Behind(f, s), f # << >>
    PROVE  /\ Len(s) - Len(f) \in 0 .. Len(s) - 1
           /\ Head(f) = s[Len(s) - Len(f) + 1] /\ Head(f) \in Sendings
           /\ Behind(Tail(f), s) /\ Len(s) - Len(Tail(f)) = Len(s) - Len(f) + 1
<1>1. PICK n \in Nat, m \in Nat : n = Len(s) /\ m = Len(f)
  BY DEF Behind
<1>2. f \in Seq(Sendings) /\ m <= n /\ m # 0 /\ \A i \in 1 .. m : f[i] = s[n - m + i]
  <2>1. f \in Seq(Sendings)
    BY DEF Behind
  <2> QED
    BY <1>1, <2>1, EmptySeq DEF Behind
<1>3. PICK g : g = Tail(f)
  OBVIOUS
<1>4. g \in Seq(Sendings) /\ Len(g) = m - 1 /\ \A i \in 1 .. m - 1 : g[i] = f[i + 1]
  BY <1>1, <1>2, <1>3
<1>5. Head(f) = f[1] /\ 1 \in 1 .. m
  BY <1>1, <1>2
<1>6. \A i \in 1 .. m - 1 : g[i] = s[n - (m - 1) + i]
  <2>1. \A i \in 1 .. m - 1 : i + 1 \in 1 .. m /\ n - m + (i + 1) = n - (m - 1) + i
    BY <1>1
  <2> QED
    BY <1>2, <1>4, <2>1
<1>7. Behind(g, s)
  BY <1>1, <1>2, <1>4, <1>6 DEF Behind
<1> QED
  BY <1>1, <1>2, <1>3, <1>4, <1>5, <1>7

(* What was delivered, d, and what is left of the last chunk, h, are the   *)
(* first bytes, up to the p-th token.                                      *)
InOrderUpTo(s, d, h, p) ==
    /\ GoodUpTo(s, p)
    /\ Len(d) + Len(h) = Sum(s, p)
    /\ \A i \in 1 .. Len(d) : d[i] = i
    /\ \A i \in 1 .. Len(h) : h[i] = Len(d) + i

(* The place of the reader: in the group of the i-th token, a length, or   *)
(* before the first.                                                       *)
InGroup(s, i, p, d, size, n) ==
    IF i = 0 THEN p = 0 /\ size = 0 /\ n = 0 /\ Len(d) = 0
    ELSE /\ s[i].kind = "ulen" /\ s[i].value = size
         /\ \A k \in i + 1 .. p : s[k].kind = "chunk"
         /\ Len(d) = Sum(s, i) + n

At == Len(sent) - Len(file)

ReaderFields ==
    /\ {room, want, original, uncompressed, errors} \subseteq Nat
    /\ held \in Seq(Nat) /\ delivered \in Seq(Nat)
    /\ rpc \in {"closed", "idle", "read", "end", "lost"}
    /\ Behind(file, sent)
    /\ rpc = "closed" => /\ file = << >> /\ delivered = << >> /\ held = << >> /\ ~complete
                         /\ errors = 0 /\ original = 0 /\ uncompressed = 0
    /\ complete => inputs.len = 0

ReadOrder == rpc # "closed" /\ errors = 0 => InOrderUpTo(sent, delivered, held, At)

Sufficient == N > MaxInput /\ room >= MaxInput /\ failures = 0 /\ ~ZeroInside

ReadBack ==
    rpc # "closed" /\ Sufficient =>
        /\ errors = 0 /\ rpc # "lost"
        /\ rpc \in {"idle", "read"} => \E i \in 0 .. At : InGroup(sent, i, At, delivered, original, uncompressed)
        /\ rpc = "read" => uncompressed < original
        /\ rpc = "end" => Len(delivered) = Sum(sent, Len(sent))

ReaderInv == WriterInv /\ Roomy /\ ReaderFields /\ ReadOrder /\ ReadBack

(* What the reader knows while it is not closed. *)
LEMMA Frozen ==
    ASSUME ReaderInv
    PROVE  /\ sent \in Seq(Sendings) /\ Len(sent) \in Nat /\ Len(file) \in Nat /\ At \in 0 .. Len(sent)
           /\ ChunksInOrder(sent) /\ Behind(file, sent) /\ Debt \in Nat
           /\ MaxInput \in Nat
           /\ Sufficient => HonestIn(sent, Debt) /\ GoodUpTo(sent, Len(sent))
<1>1. WriterInv /\ DataFields /\ CallFields /\ WriterOrder /\ Accounts /\ Behind(file, sent)
  BY DEF ReaderInv, WriterInv, ReaderFields
<1>2. sent \in Seq(Sendings) /\ Len(sent) \in Nat /\ Len(file) \in Nat /\ Len(file) <= Len(sent)
  BY <1>1 DEF DataFields, Behind
<1>3. Debt \in Nat
  BY <1>1, NoneHeld DEF Debt, CallFields
<1>4. Sufficient => HonestIn(sent, Debt) /\ GoodUpTo(sent, Len(sent))
  BY <1>1 DEF Sufficient, Accounts, WriterOrder
<1> QED
  BY <1>1, <1>2, <1>3, <1>4, BlocksFit DEF WriterOrder, At

(* The reader's steps leave the writer alone.                              *)
LEMMA WriterRests ==
    ASSUME ReaderInv, UNCHANGED vars
    PROVE  /\ WriterInv' /\ Roomy' /\ sent' = sent /\ inputs' = inputs
           /\ (N > MaxInput)' <=> N > MaxInput
           /\ failures' = failures /\ (ZeroInside' <=> ZeroInside)
<1>1. [Next]_vars /\ sent' = sent /\ inputs' = inputs /\ failures' = failures
  BY DEF vars
<1>2. WriterInv' /\ N' = N
  BY <1>1, WriterKeeps DEF ReaderInv
<1> QED
  BY <1>1, <1>2 DEF ReaderInv, Roomy, MaxInput, ZeroInside

(* One more token read. *)
LEMMA OneMore ==
    ASSUME ReaderInv, file # << >>
    PROVE  /\ At \in 0 .. Len(sent) - 1 /\ Head(file) = sent[At + 1] /\ Head(file) \in Sendings
           /\ Head(file).kind \in {"ulen", "chunk"}
           /\ Behind(Tail(file), sent) /\ Len(sent) - Len(Tail(file)) = At + 1
           /\ Sum(sent, At) \in Nat /\ Sum(sent, At + 1) = Sum(sent, At) + Size(Head(file))
           /\ (Head(file).kind = "ulen" \/ Head(file).whole) /\ GoodUpTo(sent, At) => GoodUpTo(sent, At + 1)
<1>1. sent \in Seq(Sendings) /\ Behind(file, sent)
  BY Frozen
<1>2. /\ At \in 0 .. Len(sent) - 1 /\ Head(file) = sent[At + 1] /\ Head(file) \in Sendings
      /\ Behind(Tail(file), sent) /\ Len(sent) - Len(Tail(file)) = At + 1
  BY <1>1, TailBehind DEF At
<1>3. Head(file).kind \in {"ulen", "chunk"}
  BY <1>2, SizeIsNat
<1>4. Sum(sent, At) \in Nat /\ Sum(sent, At + 1) = Sum(sent, At) + Size(Head(file))
  BY <1>1, <1>2, SumGrows
<1>5. ASSUME Head(file).kind = "ulen" \/ Head(file).whole, GoodUpTo(sent, At) PROVE GoodUpTo(sent, At + 1)
  <2>1. 1 .. At + 1 = (1 .. At) \cup {At + 1}
    BY <1>2
  <2> QED
    BY <1>2, <1>5, <2>1 DEF GoodUpTo
<1> QED
  BY <1>2, <1>3, <1>4, <1>5

(* A chunk that is in order. *)
LEMMA ChunkIs ==
    ASSUME ReaderInv, file # << >>, Head(file).kind = "chunk", GoodUpTo(sent, At + 1)
    PROVE  /\ Head(file).block \in Seq(Nat) /\ Len(Head(file).block) \in 1 .. MaxInput
           /\ Size(Head(file)) = Len(Head(file).block) /\ Head(file).whole
           /\ \A b \in 1 .. Len(Head(file).block) : Head(file).block[b] = Sum(sent, At) + b
<1>1. /\ At \in 0 .. Len(sent) - 1 /\ Head(file) = sent[At + 1] /\ Head(file) \in Sendings
      /\ ChunksInOrder(sent) /\ Len(sent) \in Nat
  BY OneMore, Frozen
<1>2. At + 1 \in 1 .. Len(sent) /\ At + 1 - 1 = At
  BY <1>1
<1>3. InOrderAt(sent, At + 1)
  BY <1>1, <1>2 DEF ChunksInOrder
<1>4. Head(file) \in Chunks
  BY <1>1 DEF Sendings, Lengths
<1>5. Head(file).whole
  BY <1>1, <1>2 DEF GoodUpTo
<1> QED
  BY <1>1, <1>2, <1>3, <1>4, <1>5 DEF InOrderAt, Chunks, Size

(* Where the stream is done with a length or with a chunk, it has          *)
(* delivered all that came before; a chunk that follows is still of the    *)
(* same length.                                                            *)
LEMMA GroupDone ==
    ASSUME ReaderInv, rpc \in {"idle", "read"}, Sufficient, original = uncompressed \/ held = << >>
    PROVE  /\ file = << >> => Len(delivered) = Sum(sent, Len(sent))
           /\ file # << >> /\ Head(file).kind = "ulen" =>
                Len(delivered) = Sum(sent, At) /\ uncompressed = original
           /\ file # << >> /\ Head(file).kind = "chunk" => uncompressed < original
<1>1. PICK p \in Nat : p = At
  BY Frozen
<1>2. PICK len \in Nat : len = Len(sent)
  BY Frozen
<1>3. /\ sent \in Seq(Sendings) /\ p \in 0 .. len /\ HonestIn(sent, Debt) /\ Debt \in Nat
      /\ GoodUpTo(sent, len)
  BY <1>1, <1>2, Frozen
<1>4. PICK i \in 0 .. p : InGroup(sent, i, p, delivered, original, uncompressed)
  BY <1>1 DEF ReaderInv, ReadBack
<1>5. /\ InOrderUpTo(sent, delivered, held, p) /\ original \in Nat /\ uncompressed \in Nat
      /\ delivered \in Seq(Nat) /\ held \in Seq(Nat)
  BY <1>1 DEF ReaderInv, ReadOrder, ReadBack, ReaderFields
<1>6. PICK d \in Nat, h \in Nat : d = Len(delivered) /\ h = Len(held)
  BY <1>5
<1>7. d + h = Sum(sent, p) /\ (held = << >> => h = 0) /\ Sum(sent, p) \in Nat
  BY <1>3, <1>2, <1>5, <1>6, SumGrows DEF InOrderUpTo
<1>8. file = << >> <=> p = len
  <2>1. file \in Seq(Sendings) /\ p = len - Len(file)
    BY <1>1, <1>2 DEF At, ReaderInv, ReaderFields, Behind
  <2> QED
    BY <1>2, <2>1, EmptySeq
<1>9. file # << >> => /\ p + 1 \in 1 .. len /\ Head(file) = sent[p + 1]
                      /\ Sum(sent, p + 1) = Sum(sent, p) + Size(sent[p + 1])
  BY <1>1, <1>2, OneMore
<1>10. file # << >> /\ Head(file).kind = "chunk" => Size(sent[p + 1]) >= 1
  <2>1. SUFFICES ASSUME file # << >>, Head(file).kind = "chunk" PROVE Size(sent[p + 1]) >= 1
    OBVIOUS
  <2>2. GoodUpTo(sent, At + 1)
    BY <1>1, <1>2, <1>3, <1>9, <2>1 DEF GoodUpTo
  <2> QED
    BY <1>9, <2>1, <2>2, ChunkIs, BlocksFit
<1>11. original = uncompressed \/ h = 0
  BY <1>7
<1>12. PICK q \in Nat : q = Sum(sent, p)
  BY <1>7
<1>13. CASE i = 0
  <2>1. p = 0 /\ original = 0 /\ uncompressed = 0 /\ d = 0
    BY <1>4, <1>6, <1>13 DEF InGroup
  <2>2. file # << >> => sent[1].kind = "ulen"
    <3>1. file # << >> => sent # << >>
      BY <1>2, <1>9, EmptySeq
    <3> QED
      BY <1>3, <3>1 DEF HonestIn
  <2>3. Sum(sent, 0) = 0
    BY <1>3, SumGrows
  <2> QED
    BY <1>1, <1>2, <1>6, <1>8, <1>9, <2>1, <2>2, <2>3
<1>14. CASE i # 0
  <2>1. /\ sent[i].kind = "ulen" /\ sent[i].value = original
        /\ \A k \in i + 1 .. p : sent[k].kind = "chunk"
        /\ d = Sum(sent, i) + uncompressed
    BY <1>4, <1>6, <1>14 DEF InGroup
  <2>2. i \in 1 .. len /\ p \in i .. len /\ i \in 0 .. len
    BY <1>2, <1>3, <1>14
  <2>3. PICK g \in Nat : g = Sum(sent, i)
    BY <1>2, <1>3, <2>2, SumGrows
  <2>4. /\ p < len /\ sent[p + 1].kind = "ulen" => original = q - g
        /\ p = len => original = q - g + Debt
    <3>1. /\ p < len /\ sent[p + 1].kind = "ulen" => original = Sum(sent, p) - Sum(sent, i)
          /\ p = len => original = Sum(sent, p) - Sum(sent, i) + Debt
      BY <1>2, <1>3, <2>1, <2>2, GroupHolds, SMTT(30)
    <3> QED
      BY <1>12, <2>3, <3>1
  <2>5. d + h = q /\ d = g + uncompressed /\ original \in Nat /\ uncompressed \in Nat
        /\ d \in Nat /\ h \in Nat /\ q \in Nat
    BY <1>5, <1>6, <1>7, <1>12, <2>1, <2>3
  <2>6. ASSUME file # << >>, Head(file).kind = "chunk" PROVE uncompressed < original
    <3>1. p + 1 \in i .. len /\ \A k \in i + 1 .. p + 1 : k \in i + 1 .. p \/ k = p + 1
      BY <1>9, <2>2, <2>6
    <3>2. \A k \in i + 1 .. p + 1 : sent[k].kind = "chunk"
      BY <1>9, <2>1, <2>6, <3>1
    <3>3. Sum(sent, p + 1) - Sum(sent, i) <= original
      BY <1>2, <1>3, <2>1, <2>2, <3>1, <3>2, GroupHolds
    <3>4. PICK c : c = Size(sent[p + 1])
      OBVIOUS
    <3>5. c \in Nat /\ c >= 1 /\ Sum(sent, p + 1) = q + c
      <4>1. sent[p + 1] \in Sendings
        BY <1>2, <1>3, <1>9, <2>6
      <4> QED
        BY <1>9, <1>10, <1>12, <2>6, <3>4, <4>1, SizeIsNat
    <3>6. q + c - g <= original
      BY <2>3, <3>3, <3>5
    <3>7. CASE h = 0
      BY <2>3, <2>5, <3>5, <3>6, <3>7
    <3>8. CASE original = uncompressed
      BY <2>3, <2>5, <3>5, <3>6, <3>8
    <3> QED
      BY <1>11, <3>7, <3>8
  <2>7. ASSUME original = q - g \/ original = q - g + Debt PROVE d = q
    <3>1. CASE h = 0
      BY <2>5, <3>1
    <3>2. CASE original = uncompressed
      <4>1. PICK debt \in Nat : original = q - g + debt
        <5>1. original = q - g + 0 \/ original = q - g + Debt
          BY <2>3, <2>5, <2>7
        <5> QED
          BY <1>3, <5>1
      <4>2. uncompressed = q - g + debt
        BY <3>2, <4>1
      <4>3. d = q + debt
        BY <2>3, <2>5, <4>1, <4>2
      <4> QED
        BY <2>5, <4>1, <4>3
    <3> QED
      BY <1>11, <3>1, <3>2
  <2>8. file = << >> => d = Sum(sent, len)
    BY <1>8, <1>12, <2>4, <2>7
  <2>9. ASSUME file # << >>, Head(file).kind = "ulen" PROVE d = q /\ uncompressed = original
    <3>1. p < len /\ sent[p + 1].kind = "ulen"
      BY <1>9, <2>9
    <3>2. original = q - g
      BY <2>4, <3>1
    <3>3. d = q
      BY <2>7, <3>2
    <3> QED
      BY <1>12, <2>3, <2>5, <3>2, <3>3
  <2> QED
    BY <1>1, <1>2, <1>6, <1>12, <2>6, <2>8, <2>9
<1> QED
  BY <1>13, <1>14

-----------------------------------------------------------------------------
(* The steps of the reader.                                                *)

LEMMA OpenKeeps ==
    ASSUME WriterInv, Roomy, ReaderFields, Open
    PROVE  ReaderInv'
<1>1. /\ rpc = "closed" /\ room' \in Rooms /\ file' = sent /\ rpc' = "idle"
      /\ complete' = (pc = "idle" /\ NothingInside)
      /\ UNCHANGED <<vars, held, want, original, uncompressed, delivered, errors>>
  BY DEF Open
<1>2. /\ delivered = << >> /\ held = << >> /\ errors = 0 /\ original = 0 /\ uncompressed = 0
      /\ want \in Nat
  BY <1>1 DEF ReaderFields
<1>3. [Next]_vars /\ sent' = sent /\ inputs' = inputs
  BY <1>1 DEF vars
<1>4. WriterInv' /\ Roomy'
  BY <1>3, WriterKeeps DEF Roomy, MaxInput
<1>5. sent \in Seq(Sendings) /\ Len(sent) \in Nat /\ Behind(sent, sent)
  BY DEF WriterInv, DataFields, Behind
<1>6. At' = 0
  BY <1>1, <1>3, <1>5 DEF At
<1>7. ReaderFields'
  <2>1. room' \in Nat
    BY <1>1, DecompressorAssumption
  <2>2. complete' => inputs'.len = 0
    BY <1>1, <1>3 DEF NothingInside
  <2>3. held' = << >> /\ delivered' = << >> /\ << >> \in Seq(Nat)
    BY <1>1, <1>2, EmptySeq
  <2> QED
    BY <1>1, <1>2, <1>3, <1>5, <2>1, <2>2, <2>3 DEF ReaderFields
<1>8. delivered' = << >> /\ held' = << >> /\ Len(delivered') = 0 /\ Len(held') = 0
  BY <1>1, <1>2, EmptySeq
<1>9. ReadOrder'
  <2>1. Sum(sent, 0) = 0
    BY <1>5, SumGrows
  <2>2. InOrderUpTo(sent', delivered', held', 0)
    BY <1>3, <1>8, <2>1 DEF InOrderUpTo, GoodUpTo
  <2> QED
    BY <1>6, <2>2 DEF ReadOrder
<1>10. ReadBack'
  <2>1. InGroup(sent', 0, 0, delivered', original', uncompressed')
    BY <1>1, <1>2, <1>8 DEF InGroup
  <2> QED
    BY <1>1, <1>2, <1>6, <2>1 DEF ReadBack
<1> QED
  BY <1>4, <1>7, <1>9, <1>10 DEF ReaderInv

(* No more than its length promises has come out of a group.               *)
LEMMA WithinGroup ==
    ASSUME ReaderInv, rpc \in {"idle", "read"}, Sufficient
    PROVE  uncompressed <= original
<1>1. PICK p \in Nat, len \in Nat : p = At /\ len = Len(sent)
  BY Frozen
<1>2. sent \in Seq(Sendings) /\ p \in 0 .. len /\ HonestIn(sent, Debt) /\ Debt \in Nat
  BY <1>1, Frozen
<1>3. PICK i \in 0 .. p : InGroup(sent, i, p, delivered, original, uncompressed)
  BY <1>1 DEF ReaderInv, ReadBack
<1>4. /\ InOrderUpTo(sent, delivered, held, p) /\ original \in Nat /\ uncompressed \in Nat
      /\ delivered \in Seq(Nat) /\ held \in Seq(Nat)
  BY <1>1 DEF ReaderInv, ReadOrder, ReadBack, ReaderFields
<1>5. PICK d \in Nat, h \in Nat : d = Len(delivered) /\ h = Len(held)
  BY <1>4
<1>6. PICK q \in Nat : q = Sum(sent, p)
  BY <1>1, <1>2, SumGrows
<1>7. d + h = q
  BY <1>4, <1>5, <1>6 DEF InOrderUpTo
<1>8. CASE i = 0
  BY <1>3, <1>8 DEF InGroup
<1>9. CASE i # 0
  <2>1. /\ sent[i].kind = "ulen" /\ sent[i].value = original
        /\ \A k \in i + 1 .. p : sent[k].kind = "chunk"
        /\ d = Sum(sent, i) + uncompressed
    BY <1>3, <1>5, <1>9 DEF InGroup
  <2>2. i \in 1 .. len /\ p \in i .. len /\ i \in 0 .. len
    BY <1>2, <1>9
  <2>3. PICK g \in Nat : g = Sum(sent, i)
    BY <1>1, <1>2, <2>2, SumGrows
  <2>4. q - g <= original
    BY <1>1, <1>2, <1>6, <2>1, <2>2, <2>3, GroupHolds
  <2>5. d = g + uncompressed /\ d + h = q
    BY <1>7, <2>1, <2>3
  <2>6. original \in Nat /\ uncompressed \in Nat /\ d \in Nat /\ h \in Nat /\ q \in Nat /\ g \in Nat
    BY <1>4, <1>5, <1>6, <2>3
  <2> QED
    BY <2>4, <2>5, <2>6
<1> QED
  BY <1>8, <1>9

(* What a step that reads one token has to leave.                          *)
LEMMA Assemble ==
    ASSUME ReaderInv, UNCHANGED <<vars, room, complete>>, ReaderFields',
           errors' = 0 => InOrderUpTo(sent, delivered', held', Len(sent) - Len(file')),
           rpc \notin {"closed"} /\ rpc' \notin {"closed"},
           Sufficient =>
             /\ errors' = 0 /\ rpc' # "lost"
             /\ rpc' \in {"idle", "read"} =>
                    \E i \in 0 .. Len(sent) - Len(file') :
                        InGroup(sent, i, Len(sent) - Len(file'), delivered', original', uncompressed')
             /\ rpc' = "read" => uncompressed' < original'
             /\ rpc' = "end" => Len(delivered') = Sum(sent, Len(sent))
    PROVE  ReaderInv'
<1>1. sent' = sent /\ room' = room /\ MaxInput' = MaxInput
  BY DEF vars, MaxInput
<1>2. WriterInv' /\ Roomy' /\ ((N > MaxInput)' <=> N > MaxInput) /\ failures' = failures
      /\ (ZeroInside' <=> ZeroInside)
  BY WriterRests
<1>3. Sufficient' <=> Sufficient
  BY <1>1, <1>2 DEF Sufficient
<1>4. ReadOrder'
  BY <1>1 DEF ReadOrder, At
<1>5. ReadBack'
  BY <1>1, <1>3 DEF ReadBack, At
<1> QED
  BY <1>2, <1>4, <1>5 DEF ReaderInv

(* A length is read where all that came before it has been delivered.      *)
LEMMA ReadKeeps ==
    ASSUME ReaderInv, NEW len \in ReadLens, Read(len), UNCHANGED <<vars, complete>>
    PROVE  ReaderInv'
<1>1. /\ rpc = "idle" /\ want' = len /\ len \in Nat
      /\ room' = room /\ held' = held /\ delivered' = delivered /\ errors' = errors
      /\ UNCHANGED <<vars, complete>>
  BY DecompressorAssumption DEF Read
<1>2. ReaderFields /\ ReadOrder /\ ReadBack
  BY DEF ReaderInv
<1>3. sent' = sent /\ inputs' = inputs
  BY <1>1 DEF vars
<1>4. errors = 0 => InOrderUpTo(sent, delivered, held, At)
  BY <1>1, <1>2 DEF ReadOrder
<1>5. Sufficient => errors = 0 /\ \E i \in 0 .. At : InGroup(sent, i, At, delivered, original, uncompressed)
  BY <1>1, <1>2 DEF ReadBack
<1>6. CASE /\ uncompressed # original \/ file = << >> \/ Head(file).kind # "ulen"
           /\ UNCHANGED <<file, original, uncompressed>>
           /\ rpc' = IF uncompressed # original THEN "read" ELSE IF file = << >> THEN "end" ELSE "lost"
  <2>1. ReaderFields'
    BY <1>1, <1>2, <1>3, <1>6 DEF ReaderFields
  <2>2. Len(sent) - Len(file') = At
    BY <1>6 DEF At
  <2>3. ASSUME Sufficient
        PROVE  /\ rpc' # "lost"
               /\ rpc' = "read" => uncompressed' < original'
               /\ rpc' = "end" => Len(delivered') = Sum(sent, Len(sent))
    <3>1. CASE uncompressed # original
      <4>1. uncompressed <= original /\ uncompressed \in Nat /\ original \in Nat
        BY <1>1, <1>2, <2>3, WithinGroup DEF ReaderFields
      <4> QED
        BY <1>6, <3>1, <4>1
    <3>2. CASE uncompressed = original
      <4>1. /\ file = << >> => Len(delivered) = Sum(sent, Len(sent))
            /\ file # << >> /\ Head(file).kind = "chunk" => uncompressed < original
        BY <1>1, <2>3, <3>2, GroupDone
      <4>2. original \in Nat /\ (file # << >> => Head(file).kind \in {"ulen", "chunk"})
        BY <1>2, OneMore DEF ReaderFields
      <4>3. file = << >>
        BY <1>6, <3>2, <4>1, <4>2
      <4> QED
        BY <1>1, <1>6, <3>2, <4>1, <4>3
    <3> QED
      BY <3>1, <3>2
  <2> QED
    BY <1>1, <1>4, <1>5, <1>6, <2>1, <2>2, <2>3, Assemble
<1>7. CASE /\ uncompressed = original /\ file # << >> /\ Head(file).kind = "ulen"
           /\ file' = Tail(file) /\ original' = Head(file).value /\ uncompressed' = 0
           /\ rpc' = IF original' = 0 THEN "end" ELSE "read"
  <2>1. PICK p \in Nat, n \in Nat : p = At /\ n = Len(sent)
    BY Frozen
  <2>2. /\ p \in 0 .. n - 1 /\ Head(file) = sent[p + 1] /\ Head(file) \in Sendings
        /\ Behind(Tail(file), sent) /\ n - Len(file') = p + 1
        /\ Sum(sent, p + 1) = Sum(sent, p) + Size(Head(file)) /\ Sum(sent, p) \in Nat
        /\ (GoodUpTo(sent, p) => GoodUpTo(sent, p + 1))
    BY <1>7, <2>1, OneMore
  <2>3. Size(Head(file)) = 0 /\ Head(file).value \in Nat
    BY <1>7, <2>2 DEF Size, Sendings, Lengths, Chunks
  <2>4. Sum(sent, p + 1) = Sum(sent, p)
    BY <2>2, <2>3
  <2>5. ReaderFields'
    BY <1>1, <1>2, <1>3, <1>7, <2>2, <2>3 DEF ReaderFields
  <2>6. errors' = 0 => InOrderUpTo(sent, delivered', held', Len(sent) - Len(file'))
    BY <1>1, <1>4, <2>1, <2>2, <2>4 DEF InOrderUpTo
  <2>7. ASSUME Sufficient
        PROVE  /\ InGroup(sent, p + 1, p + 1, delivered', original', uncompressed')
               /\ rpc' = "read" => uncompressed' < original'
               /\ rpc' = "end" => Len(delivered') = Sum(sent, n)
    <3>1. Len(delivered) = Sum(sent, p)
      BY <1>1, <1>7, <2>1, <2>7, GroupDone
    <3>2. InGroup(sent, p + 1, p + 1, delivered', original', uncompressed')
      <4>1. p + 1 # 0 /\ \A k \in p + 1 + 1 .. p + 1 : FALSE
        BY <2>1
      <4>2. Len(delivered') = Sum(sent, p + 1) + uncompressed'
        BY <1>1, <1>7, <2>2, <2>4, <3>1
      <4> QED
        BY <1>7, <2>2, <4>1, <4>2 DEF InGroup
    <3>3. original' = 0 => p + 1 = n
      <4>1. original' = 0 => p + 1 \notin 1 .. n - 1
        BY <1>7, <2>1, <2>2, <2>7 DEF Sufficient, ZeroInside
      <4> QED
        BY <2>1, <2>2, <4>1
    <3>4. original' \in Nat
      BY <1>7, <2>3
    <3> QED
      BY <1>1, <1>7, <2>4, <3>1, <3>2, <3>3, <3>4
  <2>8. p + 1 \in 0 .. n - Len(file') /\ rpc' \in {"end", "read"}
    BY <1>7, <2>1, <2>2
  <2> QED
    BY <1>1, <1>5, <2>1, <2>2, <2>5, <2>6, <2>7, <2>8, Assemble
<1>8. Read(len) => \/ /\ uncompressed # original \/ file = << >> \/ Head(file).kind # "ulen"
                      /\ UNCHANGED <<file, original, uncompressed>>
                      /\ rpc' = IF uncompressed # original THEN "read"
                                ELSE IF file = << >> THEN "end" ELSE "lost"
                   \/ /\ uncompressed = original /\ file # << >> /\ Head(file).kind = "ulen"
                      /\ file' = Tail(file) /\ original' = Head(file).value /\ uncompressed' = 0
                      /\ rpc' = IF original' = 0 THEN "end" ELSE "read"
  BY DEF Read, ReadLength
<1> QED
  BY <1>6, <1>7, <1>8

(* The first n bytes of what is held go behind what was delivered.         *)
Handing(d, h, n, e, g) ==
    /\ d \in Seq(Nat) /\ h \in Seq(Nat) /\ n \in 0 .. Len(h)
    /\ e = d \o SubSeq(h, 1, n) /\ g = SubSeq(h, n + 1, Len(h))

Handed(d, h, n, e, g) ==
    /\ e \in Seq(Nat) /\ g \in Seq(Nat) /\ Len(e) = Len(d) + n /\ Len(g) = Len(h) - n
    /\ \A s, p : InOrderUpTo(s, d, h, p) => InOrderUpTo(s, e, g, p)

LEMMA HandedOver ==
    ASSUME NEW d, NEW h, NEW n, NEW e, NEW g, Handing(d, h, n, e, g)
    PROVE  Handed(d, h, n, e, g)
<1>1. /\ d \in Seq(Nat) /\ h \in Seq(Nat) /\ n \in 0 .. Len(h)
      /\ e = d \o SubSeq(h, 1, n) /\ g = SubSeq(h, n + 1, Len(h))
  BY DEF Handing
<1>2. PICK a \in Nat, b \in Nat : a = Len(d) /\ b = Len(h)
  BY <1>1
<1>3. PICK f : f = SubSeq(h, 1, n)
  OBVIOUS
<1>4. f \in Seq(Nat) /\ Len(f) = n /\ \A i \in 1 .. n : f[i] = h[i]
  BY <1>1, <1>2, <1>3
<1>5. g \in Seq(Nat) /\ Len(g) = b - n /\ \A i \in 1 .. b - n : g[i] = h[n + i]
  BY <1>1, <1>2, SMTT(30)
<1>6. /\ e \in Seq(Nat) /\ Len(e) = a + n /\ \A i \in 1 .. a : e[i] = d[i]
      /\ \A i \in 1 .. n : e[a + i] = h[i]
  <2>1. e = d \o f
    BY <1>1, <1>3
  <2>2. e \in Seq(Nat) /\ Len(e) = a + n /\ \A i \in 1 .. a : e[i] = d[i]
    BY <1>1, <1>2, <1>4, <2>1
  <2>3. \A i \in 1 .. n : e[a + i] = f[i]
    BY <1>1, <1>2, <1>4, <2>1
  <2> QED
    BY <1>4, <2>2, <2>3
<1>7. ASSUME NEW s, NEW p, InOrderUpTo(s, d, h, p) PROVE InOrderUpTo(s, e, g, p)
  <2>1. /\ GoodUpTo(s, p) /\ a + b = Sum(s, p) /\ \A i \in 1 .. a : d[i] = i
        /\ \A i \in 1 .. b : h[i] = a + i
    BY <1>2, <1>7 DEF InOrderUpTo
  <2>2. ASSUME NEW i \in 1 .. a + n PROVE e[i] = i
    <3>1. CASE i <= a
      BY <1>1, <1>2, <1>6, <2>1, <3>1
    <3>2. CASE i > a
      <4>1. i - a \in 1 .. n /\ i - a \in 1 .. b /\ a + (i - a) = i
        BY <1>1, <1>2, <3>2
      <4>2. e[a + (i - a)] = h[i - a] /\ h[i - a] = a + (i - a)
        BY <1>6, <2>1, <4>1
      <4> QED
        BY <4>1, <4>2
    <3> QED
      BY <1>1, <1>2, <3>1, <3>2
  <2>3. ASSUME NEW i \in 1 .. b - n PROVE g[i] = a + n + i
    <3>1. n + i \in 1 .. b /\ a + (n + i) = a + n + i
      BY <1>1, <1>2
    <3> QED
      BY <1>5, <2>1, <3>1
  <2>4. a + n + (b - n) = a + b
    BY <1>1, <1>2
  <2> QED
    BY <1>5, <1>6, <2>1, <2>2, <2>3, <2>4 DEF InOrderUpTo
<1> QED
  BY <1>2, <1>5, <1>6, <1>7 DEF Handed

LEMMA DecompressKeeps ==
    ASSUME ReaderInv, Decompress, UNCHANGED <<vars, complete>>
    PROVE  ReaderInv'
<1>1. PICK n : n = Shorter(want, Len(held))
  OBVIOUS
<1>2. /\ rpc = "read" /\ delivered' = delivered \o SubSeq(held, 1, n)
      /\ held' = SubSeq(held, n + 1, Len(held)) /\ uncompressed' = uncompressed + n /\ rpc' = "idle"
      /\ UNCHANGED <<room, file, want, original, errors>> /\ UNCHANGED <<vars, complete>>
  BY <1>1 DEF Decompress
<1>3. ReaderFields /\ ReadOrder /\ ReadBack
  BY DEF ReaderInv
<1>4. delivered \in Seq(Nat) /\ held \in Seq(Nat) /\ n \in 0 .. Len(held) /\ uncompressed \in Nat
  BY <1>1, <1>3 DEF ReaderFields, Shorter
<1>5. /\ delivered' \in Seq(Nat) /\ held' \in Seq(Nat) /\ Len(delivered') = Len(delivered) + n
      /\ \A p : InOrderUpTo(sent, delivered, held, p) => InOrderUpTo(sent, delivered', held', p)
  <2>1. Handing(delivered, held, n, delivered', held')
    BY <1>2, <1>4 DEF Handing
  <2>2. Handed(delivered, held, n, delivered', held')
    BY <2>1, HandedOver
  <2> QED
    BY <2>2 DEF Handed
<1>6. sent' = sent /\ inputs' = inputs /\ Len(sent) - Len(file') = At
  BY <1>2 DEF vars, At
<1>7. ReaderFields'
  <2>1. uncompressed' \in Nat /\ delivered' \in Seq(Nat) /\ held' \in Seq(Nat)
    BY <1>2, <1>4, <1>5
  <2>2. Behind(file', sent')
    BY <1>2, <1>3, <1>6 DEF ReaderFields
  <2>3. {room', want', original', errors'} \subseteq Nat
    BY <1>2, <1>3 DEF ReaderFields
  <2>4. complete' => inputs'.len = 0
    BY <1>2, <1>3, <1>6 DEF ReaderFields
  <2> QED
    BY <1>2, <2>1, <2>2, <2>3, <2>4 DEF ReaderFields
<1>8. errors' = 0 => InOrderUpTo(sent, delivered', held', At)
  BY <1>2, <1>3, <1>5 DEF ReadOrder
<1>9. ASSUME Sufficient PROVE errors' = 0 /\ \E i \in 0 .. At :
                                InGroup(sent, i, At, delivered', original', uncompressed')
  <2>1. errors = 0
    BY <1>2, <1>3, <1>9 DEF ReadBack
  <2>2. PICK i \in 0 .. At : InGroup(sent, i, At, delivered, original, uncompressed)
    BY <1>2, <1>3, <1>9 DEF ReadBack
  <2>3. uncompressed < original
    BY <1>2, <1>3, <1>9 DEF ReadBack
  <2>4. i # 0
    BY <2>2, <2>3 DEF InGroup
  <2>5. i \in 0 .. Len(sent) /\ sent \in Seq(Sendings)
    BY Frozen
  <2>6. PICK g \in Nat : g = Sum(sent, i)
    BY <2>5, SumGrows
  <2>7. Len(delivered') = Sum(sent, i) + uncompressed'
    <3>1. Len(delivered) = g + uncompressed /\ n \in Nat
      BY <1>4, <2>2, <2>4, <2>6 DEF InGroup
    <3>2. Len(delivered') = g + (uncompressed + n)
      BY <1>4, <1>5, <2>6, <3>1
    <3> QED
      BY <1>2, <2>6, <3>2
  <2>8. InGroup(sent, i, At, delivered', original', uncompressed')
    BY <1>2, <2>2, <2>4, <2>7 DEF InGroup
  <2> QED
    BY <1>2, <2>1, <2>8
<1> QED
  BY <1>2, <1>6, <1>7, <1>8, <1>9, Assemble

(* What is left of a chunk.                                                *)
LEMMA OutcomesOf ==
    ASSUME NEW chunk \in Chunks, NEW r \in Outcomes(chunk), room \in Nat
    PROVE  /\ r.held \in Seq(Nat) /\ r.ok \in BOOLEAN
           /\ r.ok => chunk.whole /\ r.held = chunk.block
           /\ chunk.whole /\ Len(chunk.block) <= room => r.ok
<1>1. chunk.block \in Seq(Nat)
  BY DEF Chunks
<1>2. CASE chunk.whole /\ Len(chunk.block) <= room
  <2>1. r = [held |-> chunk.block, ok |-> TRUE]
    BY <1>2 DEF Outcomes
  <2> QED
    BY <1>1, <1>2, <2>1
<1>3. CASE ~(chunk.whole /\ Len(chunk.block) <= room)
  <2> DEFINE prefixes == {SubSeq(chunk.block, 1, n) : n \in 0 .. Shorter(room, Len(chunk.block))}
             part == IF safe /\ chunk.from = 0 THEN prefixes ELSE {<< >>, <<JUNK>>}
  <2>1. r \in [held : IF chunk.whole /\ ~safe THEN {<< >>} ELSE part, ok : {FALSE}]
    BY <1>3 DEF Outcomes
  <2>2. prefixes \subseteq Seq(Nat)
    <3>1. ASSUME NEW n \in 0 .. Shorter(room, Len(chunk.block))
          PROVE  SubSeq(chunk.block, 1, n) \in Seq(Nat)
      <4>1. n \in 0 .. Len(chunk.block)
        BY <1>1 DEF Shorter
      <4> QED
        BY <1>1, <4>1
    <3> QED
      BY <3>1
  <2>3. {<< >>, <<JUNK>>} \subseteq Seq(Nat)
    BY EmptySeq DEF JUNK
  <2> HIDE DEF prefixes
  <2>4. r.held \in Seq(Nat) /\ r.ok = FALSE
    BY <2>1, <2>2, <2>3
  <2> QED
    BY <1>3, <2>4
<1> QED
  BY <1>2, <1>3

LEMMA TakeChunkKeeps ==
    ASSUME ReaderInv, TakeChunk, UNCHANGED <<vars, complete>>
    PROVE  ReaderInv'
<1>1. /\ rpc = "read" /\ held = << >> /\ uncompressed < original /\ file # << >>
      /\ Head(file).kind = "chunk" /\ file' = Tail(file)
      /\ UNCHANGED <<room, want, original, uncompressed, delivered>> /\ UNCHANGED <<vars, complete>>
  BY DEF TakeChunk
<1>2. PICK r \in Outcomes(Head(file)) :
        /\ held' = r.held /\ errors' = (IF r.ok THEN errors ELSE errors + 1)
        /\ rpc' = (IF r.ok THEN "read" ELSE "idle")
  BY DEF TakeChunk
<1>3. ReaderFields /\ ReadOrder /\ ReadBack
  BY DEF ReaderInv
<1>4. PICK p \in Nat, n \in Nat : p = At /\ n = Len(sent)
  BY Frozen
<1>5. /\ p \in 0 .. n - 1 /\ Head(file) = sent[p + 1] /\ Head(file) \in Sendings
      /\ Behind(file', sent) /\ n - Len(file') = p + 1
      /\ Sum(sent, p + 1) = Sum(sent, p) + Size(Head(file)) /\ Sum(sent, p) \in Nat
      /\ (Head(file).whole /\ GoodUpTo(sent, p) => GoodUpTo(sent, p + 1))
  BY <1>1, <1>4, OneMore
<1>6. Head(file) \in Chunks
  BY <1>1, <1>5 DEF Sendings, Lengths
<1>7. /\ held' \in Seq(Nat) /\ r.ok \in BOOLEAN /\ errors \in Nat
      /\ r.ok => Head(file).whole /\ held' = Head(file).block
      /\ Head(file).whole /\ Len(Head(file).block) <= room => r.ok
  BY <1>2, <1>3, <1>6, OutcomesOf DEF ReaderFields
<1>8. sent' = sent /\ inputs' = inputs
  BY <1>1 DEF vars
<1>9. ReaderFields'
  <2>1. errors' \in Nat /\ rpc' \in {"read", "idle"}
    BY <1>2, <1>7
  <2> QED
    BY <1>1, <1>3, <1>5, <1>7, <1>8, <2>1 DEF ReaderFields
<1>10. ASSUME errors' = 0 PROVE InOrderUpTo(sent, delivered', held', p + 1)
  <2>1. r.ok /\ errors = 0
    BY <1>2, <1>7, <1>10
  <2>2. InOrderUpTo(sent, delivered, held, p) /\ delivered \in Seq(Nat)
    BY <1>1, <1>3, <1>4, <2>1 DEF ReadOrder, ReaderFields
  <2>3. GoodUpTo(sent, p + 1)
    BY <1>5, <1>7, <2>1, <2>2 DEF InOrderUpTo
  <2>4. /\ Len(held') = Size(Head(file)) /\ Len(held') \in Nat
        /\ \A b \in 1 .. Len(held') : held'[b] = Sum(sent, p) + b
    BY <1>1, <1>4, <1>7, <2>1, <2>3, ChunkIs
  <2>5. Len(held) = 0
    BY <1>1, EmptySeq
  <2>6. Len(delivered) = Sum(sent, p) /\ \A i \in 1 .. Len(delivered) : delivered[i] = i
    BY <2>2, <2>5 DEF InOrderUpTo
  <2> QED
    BY <1>1, <1>5, <2>3, <2>4, <2>6 DEF InOrderUpTo
<1>11. ASSUME Sufficient
       PROVE  /\ errors' = 0 /\ rpc' = "read"
              /\ \E i \in 0 .. p + 1 : InGroup(sent, i, p + 1, delivered', original', uncompressed')
  <2>1. GoodUpTo(sent, n)
    BY <1>4, <1>11, Frozen
  <2>2. GoodUpTo(sent, p + 1)
    BY <1>4, <1>5, <2>1 DEF GoodUpTo
  <2>3. Head(file).whole /\ Len(Head(file).block) \in 1 .. MaxInput
    BY <1>1, <1>4, <2>2, ChunkIs
  <2>4. room >= MaxInput /\ room \in Nat /\ MaxInput \in Nat /\ errors = 0
    BY <1>1, <1>3, <1>11, BlocksFit DEF Sufficient, ReaderFields, ReadBack
  <2>5. r.ok
    BY <1>7, <2>3, <2>4
  <2>6. PICK i \in 0 .. p : InGroup(sent, i, p, delivered, original, uncompressed)
    BY <1>1, <1>3, <1>4, <1>11 DEF ReadBack
  <2>7. i # 0
    <3>1. uncompressed < original
      BY <1>1
    <3> QED
      BY <2>6, <3>1 DEF InGroup
  <2>8. \A k \in i + 1 .. p + 1 : sent[k].kind = "chunk"
    <3>1. \A k \in i + 1 .. p + 1 : k \in i + 1 .. p \/ k = p + 1
      BY <1>4
    <3> QED
      BY <1>1, <1>5, <2>6, <2>7, <3>1 DEF InGroup
  <2>9. InGroup(sent, i, p + 1, delivered', original', uncompressed') /\ i \in 0 .. p + 1
    BY <1>1, <1>4, <2>6, <2>7, <2>8 DEF InGroup
  <2> QED
    BY <1>2, <2>4, <2>5, <2>9
<1>12. rpc' \in {"read", "idle"}
  BY <1>2
<1> QED
  BY <1>1, <1>4, <1>5, <1>9, <1>10, <1>11, <1>12, Assemble

LEMMA NoMoreChunksKeeps ==
    ASSUME ReaderInv, NoMoreChunks, UNCHANGED <<vars, complete>>
    PROVE  ReaderInv'
<1>1. /\ rpc = "read" /\ held = << >>
      /\ \/ (uncompressed >= original \/ file = << >>) /\ rpc' = "end"
         \/ ~(uncompressed >= original \/ file = << >>) /\ Head(file).kind # "chunk" /\ rpc' = "lost"
      /\ UNCHANGED <<room, held, file, want, original, uncompressed, delivered, errors>>
      /\ UNCHANGED <<vars, complete>>
  BY DEF NoMoreChunks
<1>2. ReaderFields /\ ReadOrder /\ ReadBack
  BY DEF ReaderInv
<1>3. sent' = sent /\ inputs' = inputs /\ Len(sent) - Len(file') = At
  BY <1>1 DEF vars, At
<1>4. ReaderFields'
  BY <1>1, <1>2, <1>3 DEF ReaderFields
<1>5. errors' = 0 => InOrderUpTo(sent, delivered', held', At)
  BY <1>1, <1>2 DEF ReadOrder
<1>6. ASSUME Sufficient PROVE errors' = 0 /\ rpc' = "end" /\ Len(delivered') = Sum(sent, Len(sent))
  <2>1. errors = 0 /\ uncompressed < original /\ uncompressed \in Nat /\ original \in Nat
    BY <1>1, <1>2, <1>6 DEF ReadBack, ReaderFields
  <2>2. /\ file = << >> => Len(delivered) = Sum(sent, Len(sent))
        /\ file # << >> /\ Head(file).kind = "ulen" => uncompressed = original
    BY <1>1, <1>6, GroupDone
  <2>3. file # << >> => Head(file).kind \in {"ulen", "chunk"}
    BY OneMore
  <2> QED
    BY <1>1, <2>1, <2>2, <2>3
<1>7. rpc' \in {"end", "lost"}
  BY <1>1
<1> QED
  BY <1>1, <1>3, <1>4, <1>5, <1>6, <1>7, Assemble

-----------------------------------------------------------------------------
(* Writer and reader together.                                             *)

FileInv ==
    /\ Shape /\ N \in Nat
    /\ Roomy => WriterInv /\ ReaderFields /\ ReadOrder /\ ReadBack

LEMMA FileInitially ==
    ASSUME FileInit
    PROVE  FileInv
<1>1. Init /\ ReaderInit /\ complete = FALSE
  BY DEF FileInit
<1>2. Shape /\ N \in Nat
  BY <1>1, BufferInit
<1>3. Roomy => WriterInv
  BY <1>1, WriterInit
<1>4. sent = << >> /\ file = << >> /\ rpc = "closed"
  BY <1>1 DEF Init, ReaderInit
<1>5. ReaderFields
  <2>1. Behind(file, sent)
    BY <1>4, EmptySeq DEF Behind
  <2> QED
    BY <1>1, <1>4, <2>1, EmptySeq DEF ReaderInit, ReaderFields
<1> QED
  BY <1>2, <1>3, <1>4, <1>5 DEF FileInv, ReadOrder, ReadBack

(* Nothing of the file is there while it is written.                       *)
LEMMA WritingKeeps ==
    ASSUME WriterInv, Roomy, ReaderFields, [Next]_vars, WriterOnly
    PROVE  WriterInv' /\ ReaderFields' /\ ReadOrder' /\ ReadBack'
<1>1. WriterInv'
  BY WriterKeeps
<1>2. rpc = "closed" /\ UNCHANGED <<readerVars, complete>>
  BY DEF WriterOnly
<1>3. rpc' = "closed" /\ file' = << >> /\ ~complete' /\ sent' \in Seq(Sendings)
  BY <1>1, <1>2 DEF ReaderFields, readerVars, WriterInv, DataFields
<1>4. Behind(file', sent')
  <2>1. file' \in Seq(Sendings) /\ Len(file') = 0 /\ Len(sent') \in Nat
    BY <1>3, EmptySeq
  <2> QED
    BY <2>1 DEF Behind
<1>5. ReaderFields'
  BY <1>2, <1>3, <1>4 DEF ReaderFields, readerVars
<1> QED
  BY <1>1, <1>3, <1>5 DEF ReadOrder, ReadBack

(* The steps of the reader, and those of neither.                          *)
LEMMA ReadingKeeps ==
    ASSUME ReaderInv,
           \/ (\E len \in ReadLens : Read(len)) /\ UNCHANGED <<vars, complete>>
           \/ ReaderStep
    PROVE  ReaderInv'
<1>1. CASE (\E len \in ReadLens : Read(len)) /\ UNCHANGED <<vars, complete>>
  BY <1>1, ReadKeeps
<1>2. CASE ReaderStep
  BY <1>2, DecompressKeeps, TakeChunkKeeps, NoMoreChunksKeeps DEF ReaderStep, ReadStep
<1> QED
  BY <1>1, <1>2

LEMMA FileKeeps ==
    ASSUME FileInv, [FileNext]_fileVars
    PROVE  FileInv'
<1>1. FileNext \/ UNCHANGED fileVars
  OBVIOUS
<1>2. [Next]_vars
  <2>1. Open => UNCHANGED vars
    BY DEF Open
  <2> QED
    BY <1>1, <2>1 DEF FileNext, WriterStep, ReaderStep, Next, fileVars
<1>3. Shape' /\ N' = N /\ N' \in Nat
  BY <1>2, BufferKeeps DEF FileInv
<1>4. SUFFICES ASSUME Roomy' PROVE WriterInv' /\ ReaderFields' /\ ReadOrder' /\ ReadBack'
  BY <1>3 DEF FileInv
<1>5. Roomy /\ WriterInv /\ ReaderFields /\ ReadOrder /\ ReadBack
  BY <1>3, <1>4 DEF FileInv, Roomy, MaxInput
<1>6. ReaderInv
  BY <1>5 DEF ReaderInv
<1>7. CASE (Call \/ Step) /\ WriterOnly
  BY <1>2, <1>5, <1>7, WritingKeeps
<1>8. CASE Open
  <2>1. ReaderInv'
    BY <1>5, <1>8, OpenKeeps
  <2> QED
    BY <2>1 DEF ReaderInv
<1>9. CASE \/ (\E len \in ReadLens : Read(len)) /\ UNCHANGED <<vars, complete>>
           \/ ReaderStep
  <2>1. ReaderInv'
    BY <1>6, <1>9, ReadingKeeps
  <2> QED
    BY <2>1 DEF ReaderInv
<1>10. CASE UNCHANGED fileVars
  <2>1. WriterInv' /\ sent' = sent /\ inputs' = inputs
    BY <1>2, <1>5, <1>10, WriterKeeps DEF fileVars, vars
  <2>2. UNCHANGED readerVars /\ UNCHANGED complete /\ UNCHANGED vars
    BY <1>10 DEF fileVars
  <2>3. ReaderFields' /\ ReadOrder'
    BY <1>5, <2>1, <2>2 DEF ReaderFields, ReadOrder, readerVars, At
  <2>4. Sufficient' <=> Sufficient
    BY <1>3, <2>1, <2>2 DEF Sufficient, readerVars, vars, MaxInput, ZeroInside
  <2>5. ReadBack'
    BY <1>5, <2>1, <2>2, <2>4 DEF ReadBack, readerVars, At
  <2> QED
    BY <2>1, <2>3, <2>5
<1> QED
  BY <1>1, <1>7, <1>8, <1>9, <1>10 DEF FileNext, WriterStep

THEOREM FileIsInv == FileSpec => []FileInv
<1>1. FileInit => FileInv
  BY FileInitially
<1>2. FileInv /\ [FileNext]_fileVars => FileInv'
  BY FileKeeps
<1> QED
  BY <1>1, <1>2, PTL DEF FileSpec

-----------------------------------------------------------------------------
(* The properties.                                                         *)

(* The bytes of the chunks are counted twice in this project: as the runs  *)
(* see them and as the proofs do.                                          *)
LEMMA SameSums ==
    Carried = Bytes(sent)
BY DEF Carried, Bytes

(* UlenHonest: each length in the file is the sum of what follows it, for  *)
(* a buffer with more room than the stream fills at a time.                *)
THEOREM LengthsAreHonest == FileSpec => []UlenHonest
<1>1. ASSUME FileInv PROVE UlenHonest
  <2>1. SUFFICES ASSUME failures = 0, N > MaxInput, pc = "idle"
                 PROVE  /\ sent # << >> => sent[1].kind = "ulen"
                        /\ \A i, j \in DOMAIN sent :
                              sent[i].kind = "ulen" /\ ChunksUpTo(i, j) =>
                                sent[i].value = Total(Carried, j) - Total(Carried, i)
    BY DEF UlenHonest
  <2>2. N \in Nat /\ MaxInput \in Nat
    BY <1>1, BlocksFit DEF FileInv
  <2>3. WriterInv
    BY <1>1, <2>1, <2>2 DEF FileInv, Roomy
  <2>4. HonestIn(sent, 0)
    BY <2>1, <2>3 DEF WriterInv, Accounts, Debt
  <2>5. sent \in Seq(Sendings)
    BY <2>3 DEF WriterInv, DataFields
  <2>6. ASSUME NEW i \in DOMAIN sent, NEW j \in DOMAIN sent, sent[i].kind = "ulen", ChunksUpTo(i, j)
        PROVE  sent[i].value = Total(Carried, j) - Total(Carried, i)
    <3>1. GroupIn(sent, i, j)
      BY <2>6 DEF ChunksUpTo, GroupIn
    <3>2. i \in 1 .. Len(sent) /\ j \in 1 .. Len(sent)
      BY <2>5
    <3>3. sent[i].value = Sum(sent, j) - Sum(sent, i) + 0
      BY <2>4, <3>1, <3>2 DEF HonestIn
    <3>4. Sum(sent, j) \in Nat /\ Sum(sent, i) \in Nat
      BY <2>5, <3>2, SumGrows
    <3>5. sent[i].value = Sum(sent, j) - Sum(sent, i)
      BY <3>3, <3>4
    <3> QED
      BY <3>5, SameSums DEF Sum
  <2> QED
    BY <2>4, <2>6 DEF HonestIn
<1> QED
  BY <1>1, FileIsInv, PTL

(* ReadUntilError: until it throws, the stream gives the first of the      *)
(* bytes that were written, whatever has failed in the compressor and      *)
(* wherever the file was cut.                                              *)
THEOREM ReadsOrThrows == FileSpec => []ReadUntilError
<1>1. ASSUME FileInv PROVE ReadUntilError
  <2>1. SUFFICES ASSUME N >= MaxInput, errors = 0
                 PROVE  delivered = [i \in 1 .. Len(delivered) |-> i]
    BY DEF ReadUntilError
  <2>2. ReaderFields /\ ReadOrder
    BY <1>1, <2>1 DEF FileInv, Roomy
  <2>3. delivered \in Seq(Nat)
    BY <2>2 DEF ReaderFields
  <2>4. \A i \in 1 .. Len(delivered) : delivered[i] = i
    <3>1. CASE rpc = "closed"
      <4>1. Len(delivered) = 0
        BY <2>2, <3>1, EmptySeq DEF ReaderFields
      <4> QED
        BY <4>1
    <3>2. CASE rpc # "closed"
      BY <2>1, <2>2, <3>2 DEF ReadOrder, InOrderUpTo
    <3> QED
      BY <3>1, <3>2
  <2>5. delivered = [i \in 1 .. Len(delivered) |-> delivered[i]]
    BY <2>3
  <2> QED
    BY <2>4, <2>5
<1> QED
  BY <1>1, FileIsInv, PTL

(* ReadsBack: what was written without a failure is read without an        *)
(* exception, and all of it before the end.                                *)
THEOREM WrittenIsRead == FileSpec => []ReadsBack
<1>1. ASSUME FileInv PROVE ReadsBack
  <2>1. SUFFICES ASSUME Sufficient
                 PROVE  /\ errors = 0 /\ rpc # "lost"
                        /\ rpc = "end" /\ complete => Len(delivered) = accepted
    BY DEF ReadsBack, Sufficient
  <2>2. N \in Nat /\ MaxInput \in Nat /\ N > MaxInput /\ failures = 0
    BY <1>1, <2>1, BlocksFit DEF FileInv, Sufficient
  <2>3. WriterInv /\ ReaderFields /\ ReadBack
    BY <1>1, <2>2 DEF FileInv, Roomy
  <2>4. CASE rpc = "closed"
    BY <2>3, <2>4 DEF ReaderFields
  <2>5. CASE rpc # "closed"
    <3>1. errors = 0 /\ rpc # "lost" /\ (rpc = "end" => Len(delivered) = Sum(sent, Len(sent)))
      BY <2>1, <2>3, <2>5 DEF ReadBack
    <3>2. complete => accepted = Sum(sent, Len(sent)) + 0
      BY <2>2, <2>3 DEF WriterInv, WriterOrder, Rests, ReaderFields
    <3>3. Sum(sent, Len(sent)) \in Nat
      <4>1. sent \in Seq(Sendings) /\ Len(sent) \in 0 .. Len(sent)
        BY <2>3 DEF WriterInv, DataFields
      <4> QED
        BY <4>1, SumGrows
    <3> QED
      BY <3>1, <3>2, <3>3
  <2> QED
    BY <2>4, <2>5
<1> QED
  BY <1>1, FileIsInv, PTL

-----------------------------------------------------------------------------
(* The user's array, for any size of the compressor's buffer.              *)
Dropped ==
    /\ Shape /\ failures \in Nat
    /\ failures = 0 /\ pc \in {"idle", "give", "segment"} => inputs.hold = NoHoldover

LEMMA DroppedKeeps ==
    ASSUME Dropped, [Next]_vars
    PROVE  Dropped'
<1>1. PICK a, l, h : inputs = [array |-> a, len |-> l, hold |-> h]
  BY DEF Dropped, Shape
<1>2. Shape'
  BY BufferKeeps DEF Dropped
<1>3. failures \in Nat /\ (failures = 0 /\ pc \in {"idle", "give", "segment"} => inputs.hold = NoHoldover)
  BY DEF Dropped
<1>4. Reset => inputs'.hold = NoHoldover
  BY <1>1 DEF Reset
<1>5. CASE UNCHANGED vars
  BY <1>2, <1>3, <1>5 DEF Dropped, vars
<1>6. CASE \E len \in WriteLens : Write(len)
  BY <1>2, <1>3, <1>6 DEF Dropped, Write, StartDrain
<1>7. CASE Finish
  BY <1>2, <1>3, <1>7 DEF Dropped, Finish, StartDrain
<1>8. CASE ResetState
  BY <1>2, <1>3, <1>4, <1>8 DEF Dropped, ResetState
<1>9. CASE GiveAll
  BY <1>2, <1>3, <1>9 DEF Dropped, GiveAll, NeedsInput
<1>10. CASE GiveLarge
  BY <1>2, <1>3, <1>10 DEF Dropped, GiveLarge
<1>11. CASE GiveSegment
  BY <1>2, <1>3, <1>11 DEF Dropped, GiveSegment
<1>12. CASE RefuseInput
  BY <1>2, <1>3, <1>12 DEF Dropped, RefuseInput
<1>13. CASE EmptyBuffer
  BY <1>2, <1>3, <1>13 DEF Dropped, EmptyBuffer, NeedsInput
<1>14. CASE DrainBuffer
  BY <1>2, <1>3, <1>14 DEF Dropped, DrainBuffer
<1>15. CASE Drained
  BY <1>2, <1>3, <1>4, <1>15 DEF Dropped, Drained, Finished
<1>16. CASE CompressorFails
  BY <1>2, <1>3, <1>16 DEF Dropped, CompressorFails
<1> QED
  BY <1>5, <1>6, <1>7, <1>8, <1>9, <1>10, <1>11, <1>12, <1>13, <1>14, <1>15, <1>16
     DEF Next, Call, Step

(* PointerDropped: between calls the compressor has no array of the user's *)
(* left, unless the lzo compressor has failed.                             *)
THEOREM PointerIsDropped == FileSpec => []PointerDropped
<1>1. FileInit => Dropped
  <2>1. ASSUME Init PROVE Dropped
    <3>1. PICK n \in Ns :
            inputs = [array |-> [i \in 0 .. n - 1 |-> 0], len |-> 0, hold |-> NoHoldover]
      BY <2>1 DEF Init
    <3>2. Shape /\ inputs.hold = NoHoldover
      BY <2>1, <3>1, BufferInit
    <3>3. failures = 0
      BY <2>1 DEF Init
    <3> QED
      BY <3>2, <3>3 DEF Dropped
  <2> QED
    BY <2>1 DEF FileInit
<1>2. Dropped /\ [FileNext]_fileVars => Dropped'
  <2>1. Open => UNCHANGED vars
    BY DEF Open
  <2>2. [FileNext]_fileVars => [Next]_vars
    BY <2>1 DEF FileNext, WriterStep, ReaderStep, Next, fileVars
  <2> QED
    BY <2>2, DroppedKeeps
<1>3. Dropped => PointerDropped
  BY DEF Dropped, PointerDropped
<1> QED
  BY <1>1, <1>2, <1>3, PTL DEF FileSpec

=============================================================================
