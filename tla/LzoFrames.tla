----------------------------- MODULE LzoFrames ------------------------------
(***************************************************************************)
(* What the output streams put on disk and the input streams take from it, *)
(* as a sequence of tokens: the header of an lzop file, a 4-byte integer,  *)
(* a checksum, the data of a block.  Part is a token whose write stopped   *)
(* in the middle.                                                          *)
(*                                                                         *)
(* A checksum is the data it was computed from: what the model trusts is   *)
(* that two different blocks do not share a checksum.                      *)
(***************************************************************************)
EXTENDS Integers, SequencesExt

(* f[1] + ... + f[n], as the size of a set. *)
Total(f, n) == Cardinality(UNION {{j} \X (1 .. f[j]) : j \in 1 .. n})

Header(flags) == [kind |-> "header", flags |-> flags]

Word(n) == [kind |-> "int", value |-> n]

(* The bytes of a block, as they are or compressed. *)
Data(bytes, packed) ==
    [kind |-> "data", bytes |-> bytes, packed |-> packed, intact |-> TRUE]

Checksum(name, data) == [kind |-> "sum", name |-> name, of |-> data]

Part == [kind |-> "part"]

(* The stream of LzoOutputStream: both lengths, then compressed data. *)
LzoBlock(block, packedLen) ==
    <<Word(Len(block)), Word(packedLen), Data(block, TRUE)>>

(* writeChecksum: none when the flag for it is not set. *)
WriteChecksum(name, flags, data) ==
    IF name \in flags THEN <<Checksum(name, data)>> ELSE << >>

(* Bug: the checksums of the block are taken of what is written. *)
LzopBlockSumsOfWritten(flags, block, packedLen) ==
    LET packed == packedLen < Len(block)
        data == Data(block, packed)
    IN  <<Word(Len(block)), Word(IF packed THEN packedLen ELSE Len(block))>>
        \o WriteChecksum("ADLER32_D", flags, data)
        \o WriteChecksum("CRC32_D", flags, data)
        \o (IF packed THEN WriteChecksum("ADLER32_C", flags, data)
                           \o WriteChecksum("CRC32_C", flags, data)
                      ELSE << >>)
        \o <<data>>

(* The block of LzopOutputStream: one that does not shrink is stored. *)
LzopBlock(flags, block, packedLen) ==
    LET packed == packedLen < Len(block)
        data == Data(block, packed)
    IN  <<Word(Len(block)), Word(IF packed THEN packedLen ELSE Len(block))>>
        \o WriteChecksum("ADLER32_D", flags, Data(block, FALSE))
        \o WriteChecksum("CRC32_D", flags, Data(block, FALSE))
        \o (IF packed THEN WriteChecksum("ADLER32_C", flags, data)
                           \o WriteChecksum("CRC32_C", flags, data)
                      ELSE << >>)
        \o <<data>>

(* The null word that ends the blocks of an lzop file. *)
Terminator == Word(0)

(* The blocks of a stream whose k-th byte is k, cut to these lengths. *)
BlockAt(lens, i) == [j \in 1 .. lens[i] |-> Total(lens, i - 1) + j]

Stream(lens) == [k \in 1 .. Total(lens, Len(lens)) |-> k]

(* What a write of the tokens leaves when it stops before their end. *)
Torn(tokens) ==
    LET cut == {SubSeq(tokens, 1, k) : k \in 0 .. Len(tokens) - 1} IN
    cut \cup {Append(t, Part) : t \in cut}

(* Data damaged on the disk: other bytes, as many. *)
Harmed(data) == [data EXCEPT !.intact = FALSE, !.bytes = [i \in DOMAIN data.bytes |-> 0]]

(* A file as it was written, cut short, or with the data of one block or a *)
(* checksum damaged.                                                       *)
Aged(tokens) ==
    LET OfKind(kind) == {i \in DOMAIN tokens : tokens[i].kind = kind} IN
    {tokens} \cup Torn(tokens)
    \cup {[tokens EXCEPT ![i] = Harmed(@)] : i \in OfKind("data")}
    \cup {[tokens EXCEPT ![i].of = Data(<< >>, FALSE)] : i \in OfKind("sum")}

(* The bytes of the blocks that are there in full. *)
BytesIn(tokens) ==
    FlattenSeq([i \in DOMAIN tokens |->
                    IF tokens[i].kind = "data" THEN tokens[i].bytes ELSE << >>])

Undamaged(tokens) == \A i \in DOMAIN tokens : tokens[i].kind = "data" => tokens[i].intact

=============================================================================
