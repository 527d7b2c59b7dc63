--------------------------- MODULE MC_LzoAlgorithms ---------------------------
(***************************************************************************)
(* Offsets cut down to a few dozen, so that every kind of token is used    *)
(* within a few dozen bytes, a chunk of 45 bytes and a window of 100.  No  *)
(* input of the Java compressors has a byte that is 0 or above 127.        *)
(***************************************************************************)
EXTENDS LzoAlgorithms

(* Bytes among which no three in a row come twice *)
Plain(n) == [i \in 1 .. n |-> 1 + ((i * i + (i \div 97) * 31 * i + (i \div 5)) % 113)]

(* One word after other, in every order *)
Words == UNION {[1 .. n -> 1 .. 2] : n \in 0 .. 10}

(* A word that comes back soon or late, with few or many literals between *)
Echoes ==
    {Plain(8) \o w \o SubSeq(Plain(60), 40, 39 + k) \o w \o Plain(20) :
        w \in [1 .. 6 -> 1 .. 2], k \in {0, 1, 2, 3, 4, 13}}

(* Longer than the window and than three chunks *)
NoiseAt(seed, kinds, n) ==
    [i \in 1 .. n |-> 1 + (((i * i * i + seed * i * i) \div (seed + 3)) % kinds)]
Noises == {NoiseAt(seed, 3, 150) : seed \in 1 .. 20}

(* Counts at and beyond what one byte holds *)
Runs == {Plain(n) : n \in {3, 4, 18, 19, 22, 32, 238, 239, 290}}
Repeats == {Plain(n) \o [i \in 1 .. 70 |-> 1] \o Plain(n) \o Plain(n) : n \in {1, 20, 40}}

(* A match of two bytes is all that remains of one that gives way to a     *)
(* longer one two bytes later.                                             *)
Word == Plain(6)
Rest(q) == SubSeq(Plain(60), 30, 29 + q)
Alike(n) == [i \in 1 .. n |-> 120]
Shortened ==
    {Word \o Word \o Alike(k) \o Rest(q) \o Word \o <<101>> \o Alike(k + 3) \o Rest(q) \o <<9>> :
        k \in {7, 8}, q \in {8, 12}}

(* As long as the window, or nearly *)
Fitting == {NoiseAt(18, 4, 100), NoiseAt(17, 3, 100), NoiseAt(27, 3, 90)}

MCInputs == Words \cup Echoes \cup Noises \cup Runs \cup Repeats \cup Shortened \cup Fitting

(* Longer than a window of 32, all zeros but one *)
ZeroInputs ==
    {[i \in 1 .. n |-> IF i = k THEN 1 ELSE 0] : n \in 33 .. 40, k \in 20 .. 40}

(* Words of four bytes that begin alike and differ in the third, and words *)
(* that repeat what follows them                                           *)
Follow == <<10, 11, 12, 13, 14, 15, 16, 17>>
Near == <<4, 88, 240>> \o SubSeq(Follow, 1, 5)
HashInputs ==
    {<<4, 88, 0>> \o Follow \o <<63, 90>> \o Near \o <<113, 90>> \o Near \o <<114, 87>>
        \o <<4, 88, 240>> \o Follow \o <<101, 110, 100>>}

(* For lzo1x_9x.c: some of the inputs above, and some that it can take and *)
(* its translation cannot.                                                 *)
MCOriginals ==
    UNION {[1 .. n -> 1 .. 2] : n \in 0 .. 5}
        \cup {Plain(8) \o w \o SubSeq(Plain(60), 40, 39 + k) \o w \o Plain(20) :
                 w \in {<<1, 1, 2, 1>>, <<1, 2, 2, 2>>}, k \in {0, 1, 3, 4, 13}}
        \cup Shortened \cup Fitting
        \cup {NoiseAt(27, 3, 150), NoiseAt(18, 4, 120), NoiseAt(22, 5, 120)}
        \cup {Plain(20) \o [i \in 1 .. 70 |-> 1] \o Plain(20) \o Plain(20), Plain(30)}
        \cup HashInputs
        \cup {[i \in 1 .. 104 |-> IF i \in {60, 98} THEN 255 ELSE 0]}
MCDicts == {<< >>, <<1, 2, 1, 1, 2>>}

MCM2 == [a \in Algorithms |-> IF a = LZO1X THEN 6 ELSE 4]
MCHash(dv) == (dv[1] + dv[4]) % 3

=============================================================================
