-------------------------- MODULE LzoCompressor1x_999 -------------------------
(***************************************************************************)
(* LzoCompressor1x_999.compress: a search for the longest match at every   *)
(* position, by hash chains in a sliding window, and a choice between that *)
(* match and one that begins a byte or two later.                          *)
(*                                                                         *)
(* The arrays of Lzo1x999SWD are no state here: what a cell of the window, *)
(* a chain or a head holds follows from the position searched and from     *)
(* what the positions before it left, the variable past.                   *)
(***************************************************************************)
EXTENDS Lzo1xTokens, SequencesExt

CONSTANT
    F               \* 0x800: how far a search looks ahead

VARIABLES
    level,          \* the one the compressor is made with
    orig, out,      \* the call: the bytes given, the bytes written
    past,           \* for each position searched or passed: the hash of its three
                    \* bytes, its two bytes, and best3, the length found there
    found,          \* c.m_len, c.m_off and best_off, from the last search
    lit, ii,        \* the literals not yet written, and where they begin
    cur,            \* m_len, m_off, ahead, max_ahead and l1
    label

vars9 == <<level, orig, out, past, found, lit, ii, cur, label>>

-----------------------------------------------------------------------------
(* The levels *)
try_lazy     == <<0, 0, 0, 1, 1, 1, 2, 2, 2>>[level]
good_length  == <<32, 32, 32, 4, 8, 8, 8, 32, F>>[level]
max_lazy     == <<32, 32, 32, 4, 16, 16, 32, 128, F>>[level]
max_chain    == <<4, 8, 16, 16, 32, 128, 256, 2048, 4096>>[level]
use_best_off == level >= 8

-----------------------------------------------------------------------------
(* The window *)
N == M4_MAX_OFFSET
B_SIZE == N + F
UNSEARCHED == F + 1

(* How many bytes are in the window when position p is searched, and how   *)
(* many of them lie ahead.                                                 *)
Loaded(p) == Least(Len(orig), F + p)
Look(p) == Loaded(p) - p

(* s.b[i] when position p is searched: the last byte loaded into the cell. *)
(* The cells from B_SIZE on, which a comparison that begins near the end   *)
(* of the window runs into, are never loaded.                              *)
Cell(i, p) ==
    LET last == Loaded(p) - 1
        at == last - ((last - i) % B_SIZE)
    IN  IF i >= B_SIZE \/ at < 0 THEN 0 ELSE At(orig, at)

(* The k-th byte from position q on, as the search at position p reads it *)
Read(q, k, p) == Cell((q % B_SIZE) + k, p)

(* The hash shifts and combines Java's signed bytes in an int, of which 19 *)
(* bits matter: 14 remain after a shift by 5.                              *)
WORD == 2 ^ 19
Signed(b) == IF b > 127 THEN b + WORD - 256 ELSE b
Shifted(w) == (w * 32) % WORD
Xor(v, w) ==
    MapThenSumSet(LAMBDA n : 2 ^ n * ((v \div 2 ^ n + w \div 2 ^ n) % 2), 0 .. 18)

Key(b0, b1, b2) ==
    LET w == Xor(Shifted(Xor(Shifted(Signed(b0)), Signed(b1))), Signed(b2))
        product == ((40799 * (w \div 1024)) % 512) * 1024 + 40799 * (w % 1024)
    IN  (product % WORD) \div 32

KeyAt(p) == Key(Read(p, 0, p), Read(p, 1, p), Read(p, 2, p))
TwoAt(p) == <<Read(p, 0, p), Read(p, 1, p)>>

Passed(p, len) == [key |-> KeyAt(p), two |-> TwoAt(p), best3 |-> len]

-----------------------------------------------------------------------------
(* The search *)

(* head3 and succ3, cut off at llen3 and max_chain: the positions in the   *)
(* window with p's hash, the last one first.                               *)
Chain(p, before, chain) ==
    LET key == KeyAt(p)
        same == SelectSeq([i \in 1 .. Least(p, N) |-> p - i],
                          LAMBDA q : before[q + 1].key = key)
    IN  SubSeq(same, 1, Least(chain, Len(same)))

(* head2: the positions in the window with p's two bytes *)
SameTwo(p, before) ==
    LET two == TwoAt(p)
    IN  {q \in p - Least(p, N) .. p - 1 : before[q + 1].two = two}

(* How long the match with q is.  The third byte is not compared here, and  *)
(* by Visit only until a match of four is found.                           *)
Extent(q, p) ==
    LET from[k \in 3 .. Look(p)] ==
            IF k = Look(p) \/ Read(q, k, p) # Read(p, k, p) THEN k ELSE from[k + 1]
    IN  from[3]

(* One step of swd_search. *)
Visit(s, q, p, before) ==
    IF s.done \/ \E k \in {0, 1, s.len - 1, s.len} : Read(q, k, p) # Read(p, k, p) THEN s
    ELSE LET len == Extent(q, p)
             best == IF len < 34 /\ s.best[len] = 0 THEN [s.best EXCEPT ![len] = p - q]
                                                    ELSE s.best
         IN  IF len <= s.len THEN [s EXCEPT !.best = best]
             ELSE [len |-> len, off |-> p - q, best |-> best,
                   done |-> len = Look(p) \/ len >= F \/ len > before[q + 1].best3]

NoOffsets == [i \in 2 .. 33 |-> 0]

(* swd_findbest at p, after before; prior is best_off as it was. *)
FindBest(p, before, chain, prior) ==
    LET same == SameTwo(p, before)
        start == p - CHOOSE q \in same : \A r \in same : r <= q
        two == [len |-> 2, off |-> start, best |-> [NoOffsets EXCEPT ![2] = start],
                done |-> Look(p) < 3]
    IN  IF Look(p) <= 1
        THEN [len |-> Look(p), off |-> 0, best |-> prior]
        ELSE IF same = {} THEN [len |-> 1, off |-> 0, best |-> NoOffsets]
        ELSE FoldLeft(LAMBDA s, q : Visit(s, q, p, before), two, Chain(p, before, chain))

(* find_match: swd_accept takes in skipped positions, then the next one is *)
(* searched.                                                               *)
FindMatch(skipped, chain) ==
    LET p == Len(past) + skipped
        before == past \o [i \in 1 .. skipped |-> Passed(Len(past) + i - 1, UNSEARCHED)]
    IN  \E best \in {FindBest(p, before, chain, found.best_off)} :
            /\ past' = Append(before, Passed(p, IF Look(p) <= 1 THEN UNSEARCHED ELSE best.len))
            /\ found' = [m_len |-> best.len, m_off |-> best.off, best_off |-> best.best]

bp == Len(past) - 1
look == IF bp = Len(orig) THEN 0 ELSE Loaded(bp + 1) - bp

-----------------------------------------------------------------------------
(* The choice *)

(* What a match costs in bytes; 0 if it cannot be written. *)
LenOfCodedMatch(len, off, lits) ==
    LET long(max) == IF len <= max THEN 3 ELSE 4 + (len - max - 1) \div 255 IN
    IF len < 2 THEN 0
    ELSE IF len = 2 THEN IF off <= M1_MAX_OFFSET /\ lits \in 1 .. 3 THEN 2 ELSE 0
    ELSE IF len <= 8 /\ off <= M2_MAX_OFFSET[LZO1X] THEN 2
    ELSE IF len = 3 /\ off <= MX_MAX_OFFSET /\ lits >= 4 THEN 2
    ELSE IF off <= M3_MAX_OFFSET THEN long(M3_MAX_LEN)
    ELSE IF off <= M4_MAX_OFFSET THEN long(M4_MAX_LEN)
    ELSE 0

(* A match one or two bytes shorter that takes a smaller token *)
BetterMatch(f) ==
    LET near(len, max) == len \in 2 .. 33 /\ f.best_off[len] \in 1 .. max
        take(len) == [f EXCEPT !.m_len = len, !.m_off = f.best_off[len]]
    IN  IF ~use_best_off \/ f.m_len <= 3 \/ f.m_off <= M2_MAX_OFFSET[LZO1X] THEN f
        ELSE IF f.m_len <= 9 /\ near(f.m_len - 1, M2_MAX_OFFSET[LZO1X]) THEN take(f.m_len - 1)
        ELSE IF f.m_off <= M3_MAX_OFFSET THEN f
        ELSE IF f.m_len = 10 /\ near(8, M2_MAX_OFFSET[LZO1X]) THEN take(8)
        ELSE IF f.m_len \in 10 .. 34 /\ near(f.m_len - 1, M3_MAX_OFFSET) THEN take(f.m_len - 1)
        ELSE f

MinGain(ahead, l1, l2, l3) ==
    LET more == IF lit <= 3 THEN IF lit + ahead <= 3 THEN 0 ELSE 2
                ELSE IF lit <= 18 /\ lit + ahead > 18 THEN 1 ELSE 0
        gain == ahead + more + (l2 - l1) * 2 - (IF l3 # 0 THEN (ahead - l3) * 2 ELSE 0)
    IN  IF gain < 0 THEN 0 ELSE gain

CodeMatch(len, off) ==
    IF len = 2 THEN M1Code(off)
    ELSE IF len = 3 /\ off \in M2_MAX_OFFSET[LZO1X] + 1 .. MX_MAX_OFFSET /\ lit >= 4
    THEN MXCode(off)
    ELSE MatchCode(LZO1X, len, off)

Lits == SubSeq(orig, ii + 1, ii + lit)
WithLits == IF lit = 0 THEN out ELSE WithAnyRun(out, Lits)

-----------------------------------------------------------------------------
NoMatch == [m_len |-> 0, m_off |-> 0, ahead |-> 0, max_ahead |-> 0, l1 |-> 0]

Init9 ==
    /\ out = << >>
    /\ past = << >>
    /\ found = [m_len |-> 0, m_off |-> 0, best_off |-> NoOffsets]
    /\ lit = 0 /\ ii = 0
    /\ cur = NoMatch
    /\ label = "start"

Start9 ==
    /\ label = "start"
    /\ FindMatch(0, max_chain)
    /\ label' = "loop"
    /\ UNCHANGED <<level, orig, out, lit, ii, cur>>

(* A match of two needs one to three literals before it, one of three must *)
(* not be far once a run of literals has a byte of its own, and none comes *)
(* first in the block.                                                     *)
Usable ==
    LET len == found.m_len
        off == found.m_off
    IN  /\ len >= 2
        /\ len = 2 => off <= M1_MAX_OFFSET /\ lit \in 1 .. 3 /\ out # << >>
        /\ ~(out = << >> /\ lit = 0)
        /\ len = 3 => ~(off > MX_MAX_OFFSET /\ lit >= 4)

RunStart == IF lit = 0 THEN bp ELSE ii

Literal9 ==
    /\ label = "loop" /\ look > 0 /\ ~Usable
    /\ ii' = RunStart
    /\ lit' = lit + 1
    /\ FindMatch(0, max_chain)
    /\ UNCHANGED <<level, orig, out, cur, label>>

Consider ==
    /\ label = "loop" /\ look > 0 /\ Usable
    /\ ii' = RunStart
    /\ LET m == BetterMatch(found)
           lazy == try_lazy > 0 /\ m.m_len < max_lazy
           l1 == IF lazy THEN LenOfCodedMatch(m.m_len, m.m_off, lit) ELSE 0
       IN  cur' = [m_len |-> m.m_len, m_off |-> m.m_off, ahead |-> 0,
                   max_ahead |-> IF lazy THEN Least(try_lazy, l1 - 1) ELSE 0, l1 |-> l1]
    /\ label' = "lazy"
    /\ UNCHANGED <<level, orig, out, past, found, lit>>

MayLookAhead == cur.ahead < cur.max_ahead /\ look > cur.m_len

LazyChain == IF cur.m_len >= good_length THEN max_chain \div 4 ELSE max_chain

LookAhead ==
    /\ label = "lazy" /\ MayLookAhead
    /\ FindMatch(0, LazyChain)
    /\ cur' = [cur EXCEPT !.ahead = @ + 1]
    /\ label' = "weigh"
    /\ UNCHANGED <<level, orig, out, lit, ii>>

(* The match at the next position, if it is longer or nearer, is taken     *)
(* when the bytes it saves make up for the literals, or the match of two,  *)
(* that precede it.                                                        *)
Weigh ==
    /\ label = "weigh"
    /\ LET ahead == cur.ahead
           longer == \/ found.m_len > cur.m_len
                     \/ found.m_len = cur.m_len /\ found.m_off < cur.m_off
           l3 == IF out = << >> THEN 0 ELSE LenOfCodedMatch(ahead, cur.m_off, lit)
           l2 == LenOfCodedMatch(found'.m_len, found'.m_off, lit + ahead)
           taken == /\ longer /\ l2 # 0
                    /\ found'.m_len >= cur.m_len + MinGain(ahead, cur.l1, l2, l3)
       IN  /\ found' = IF longer THEN BetterMatch(found) ELSE found
           /\ label' = IF taken THEN "loop" ELSE "lazy"
           /\ out' = IF taken /\ l3 # 0 THEN WithLits \o CodeMatch(ahead, cur.m_off) ELSE out
           /\ lit' = IF ~taken THEN lit ELSE IF l3 # 0 THEN 0 ELSE lit + ahead
    /\ UNCHANGED <<level, orig, past, ii, cur>>

TakeMatch ==
    /\ label = "lazy" /\ ~MayLookAhead
    /\ out' = WithLits \o CodeMatch(cur.m_len, cur.m_off)
    /\ lit' = 0
    /\ LET skipped == cur.m_len - 1 - cur.ahead
       IN  FindMatch(IF skipped > 0 THEN skipped ELSE 0, max_chain)
    /\ label' = "loop"
    /\ UNCHANGED <<level, orig, ii, cur>>

Finish9 ==
    /\ label = "loop" /\ look = 0
    /\ out' = WithLits \o EofCode
    /\ label' = "written"
    /\ UNCHANGED <<level, orig, past, found, lit, ii, cur>>

Next9 ==
    Start9 \/ Literal9 \/ Consider \/ LookAhead \/ Weigh \/ TakeMatch \/ Finish9

=============================================================================
