------------------------------- MODULE Lzo1x9x -------------------------------
(***************************************************************************)
(* lzo1x_9x.c, of which LzoCompressor1x_999 is a translation: the LZO1X,   *)
(* LZO1Y and LZO1Z compressors that find the longest match at every        *)
(* position and weigh it against one that begins a byte or two later.      *)
(*                                                                         *)
(* c is LZO_COMPRESS_T and swd the dictionary.  The asserts are not part   *)
(* of the steps; AssertsHold collects them.                                *)
(***************************************************************************)
EXTENDS Lzo1zTokens, SequencesExt

CONSTANT
    F                   \* SWD_F: 2048

VARIABLES
    algorithm, orig, dict, level,       \* the call
    op,                 \* the bytes written to out
    swd, c,
    ii, lit,            \* the literals not yet written: where they begin, how many
    cur,                \* m_len, m_off, ahead, max_ahead and l1
    at                  \* where in the code

callVars == <<algorithm, orig, dict, level>>
vars9x == <<callVars, op, swd, c, ii, lit, cur, at>>

Swd == INSTANCE LzoSwd WITH SWD_N <- M4_MAX_OFFSET, SWD_F <- F

-----------------------------------------------------------------------------
(* The levels; a 0 of the table stands for the default. *)
try_lazy     == <<0, 0, 0, 1, 1, 1, 2, 2, 2>>[level]
good_length  == <<32, 32, 32, 4, 8, 8, 8, 32, F>>[level]
max_lazy     == <<32, 32, 32, 4, 16, 16, 32, 128, F>>[level]
max_chain    == <<4, 8, 16, 16, 32, 128, 256, 2048, 4096>>[level]
use_best_off == level >= 8

M2_MIN_LEN == 3
M1Max == M1_MAX_OFFSET
M2Max == MaxM2Offset(algorithm)
MXMax == M1_MAX_OFFSET + M2Max
M2Longest == MaxM2Len(algorithm)

SameOffset(off) == algorithm = LZO1Z /\ off = c.last_m_off

-----------------------------------------------------------------------------
(* The output *)

(* Two bytes for a distance of up to 10 bits *)
Short(dist) == IF algorithm = LZO1Z THEN ShortCode1z(dist) ELSE ShortCode(dist)

(* code_match; r1_lit literals came before, if any did. *)
code_match(m_len, m_off, r1_lit) ==
    LET near == m_len = M2_MIN_LEN /\ m_off \in M2Max + 1 .. MXMax
    IN  IF m_len = 2 THEN Short(m_off - 1)
        ELSE IF near /\ ~SameOffset(m_off) /\ r1_lit >= 4 THEN Short(m_off - 1 - M2Max)
        ELSE IF algorithm = LZO1Z THEN MatchCode1z(m_len, m_off, c.last_m_off)
        ELSE MatchCode(algorithm, m_len, m_off)

(* STORE_RUN *)
STORE_RUN(t) ==
    LET lits == SubSeq(orig, ii + 1, ii + t) IN
    IF op = << >> /\ t <= 238 THEN <<17 + t>> \o lits
    ELSE IF algorithm = LZO1Z THEN WithRun1z(op, lits)
    ELSE WithRun(op, lits)

code_run == IF lit = 0 THEN op ELSE STORE_RUN(lit)

-----------------------------------------------------------------------------
(* The costs *)

(* In bytes; 0 if the match cannot be written. *)
len_of_coded_match(m_len, m_off, r1_lit) ==
    LET long(max) == IF m_len <= max THEN 3 ELSE 4 + (m_len - max - 1) \div 255 IN
    IF m_len < 2 THEN 0
    ELSE IF m_len = 2 THEN IF m_off <= M1Max /\ r1_lit \in 1 .. 3 THEN 2 ELSE 0
    ELSE IF m_len <= M2Longest /\ m_off <= M2Max THEN 2
    ELSE IF m_len = M2_MIN_LEN /\ m_off <= MXMax /\ r1_lit >= 4 THEN 2
    ELSE IF m_off <= M3_MAX_OFFSET THEN long(M3_MAX_LEN)
    ELSE IF m_off <= M4_MAX_OFFSET THEN long(M4_MAX_LEN)
    ELSE 0

(* How much longer a later match must be *)
min_gain(ahead, lit1, lit2, l1, l2, l3) ==
    LET more == IF lit1 <= 3 THEN IF lit2 <= 3 THEN 0 ELSE 2
                ELSE IF lit1 <= 18 /\ lit2 > 18 THEN 1 ELSE 0
        gain == ahead + more + (l2 - l1) * 2 - (IF l3 # 0 THEN (ahead - l3) * 2 ELSE 0)
    IN  IF gain < 0 THEN 0 ELSE gain

(* A match one or two bytes shorter that takes a smaller token *)
better_match(m) ==
    LET best(len) == IF len \in 2 .. Swd!SWD_BEST_OFF - 1 THEN swd.best_off[len] ELSE 0
        near(len, max) == best(len) \in 1 .. max
        take(len) == [m_len |-> len, m_off |-> best(len)]
        len == m.m_len
    IN  IF ~use_best_off \/ len <= M2_MIN_LEN \/ (SameOffset(m.m_off) /\ len <= M2Longest) THEN m
        ELSE IF c.last_m_off # 0 /\ len <= M2Longest + 1 /\ SameOffset(best(len - 1))
        THEN take(len - 1)
        ELSE IF m.m_off <= M2Max THEN m
        ELSE IF len <= M2Longest + 1 /\ near(len - 1, M2Max) THEN take(len - 1)
        ELSE IF m.m_off <= M3_MAX_OFFSET \/ len <= M4_MAX_LEN THEN m
        ELSE IF len <= M2Longest + 2 /\ near(len - 2, M2Max) THEN take(len - 2)
        ELSE IF len <= M3_MAX_LEN + 1 /\ near(len - 1, M3_MAX_OFFSET) THEN take(len - 1)
        ELSE m

-----------------------------------------------------------------------------
(* find_match: `skipped' positions are taken in, the next one is searched. *)
find_match(from, skipped, chain, last) ==
    \E ready \in {Swd!swd_accept(from, orig, skipped)} :
    \E r \in {Swd!Match(ready, chain)} :
    \E found \in {Swd!swd_findbest(ready, r, use_best_off)} :
    \E next \in {Swd!swd_getbyte(found, orig)} :
        LET look == IF found.look = 0 THEN 0 ELSE next.look + 1 IN
        /\ swd' = next
        /\ c' = [c EXCEPT !.look = look,
                          !.m_len = IF look = 0 THEN 0 ELSE found.m_len,
                          !.m_off = found.m_off,
                          !.bp = next.read - look,
                          !.last_m_off = last]

Found == [m_len |-> c.m_len, m_off |-> c.m_off]
NoMatch9x == [m_len |-> 0, m_off |-> 0, ahead |-> 0, max_ahead |-> 0, l1 |-> 0]

Init9x ==
    /\ op = << >>
    /\ swd = << >>
    /\ c = [look |-> 0, m_len |-> 0, m_off |-> 0, bp |-> 0, last_m_off |-> 0]
    /\ ii = 0 /\ lit = 0
    /\ cur = NoMatch9x
    /\ at = "start"

(* The work memory holds something. *)
Start9x ==
    /\ at = "start"
    /\ \E junk \in {0, 255} : find_match(Swd!swd_init(orig, dict, junk), 0, max_chain, 0)
    /\ at' = "loop"
    /\ UNCHANGED <<callVars, op, ii, lit, cur>>

(* "Do not accept this match for compressed-data compatibility": a match   *)
(* of two needs one to three literals before it; none comes first in the   *)
(* block.  One of three that is far costs more than its literals.          *)
Usable ==
    /\ c.m_len >= 2
    /\ c.m_len = 2 => c.m_off <= M1Max /\ lit \in 1 .. 3 /\ op # << >>
    /\ ~(op = << >> /\ lit = 0)
    /\ c.m_len = M2_MIN_LEN => ~(c.m_off > MXMax /\ lit >= 4)

RunStart == IF lit = 0 THEN c.bp ELSE ii

Literal9x ==
    /\ at = "loop" /\ c.look > 0 /\ ~Usable
    /\ ii' = RunStart
    /\ lit' = lit + 1
    /\ find_match(swd, 0, max_chain, c.last_m_off)
    /\ UNCHANGED <<callVars, op, cur, at>>

Consider9x ==
    /\ at = "loop" /\ c.look > 0 /\ Usable
    /\ ii' = RunStart
    /\ LET m == better_match(Found)
           lazy == try_lazy > 0 /\ m.m_len < max_lazy
           l1 == IF lazy THEN len_of_coded_match(m.m_len, m.m_off, lit) ELSE 0
       IN  cur' = [m_len |-> m.m_len, m_off |-> m.m_off, ahead |-> 0,
                   max_ahead |-> IF lazy THEN Least(try_lazy, l1 - 1) ELSE 0, l1 |-> l1]
    /\ at' = "lazy"
    /\ UNCHANGED <<callVars, op, swd, c, lit>>

MayLookAhead9x == cur.ahead < cur.max_ahead /\ c.look > cur.m_len

LookAhead9x ==
    /\ at = "lazy" /\ MayLookAhead9x
    /\ find_match(swd, 0, IF cur.m_len >= good_length THEN max_chain \div 4 ELSE max_chain,
                  c.last_m_off)
    /\ cur' = [cur EXCEPT !.ahead = @ + 1]
    /\ at' = "weigh"
    /\ UNCHANGED <<callVars, op, ii, lit>>

(* In LZO1Z a match that can do without an offset is not given up for one  *)
(* that cannot.                                                            *)
Discarded ==
    /\ SameOffset(cur.m_off) /\ ~SameOffset(c.m_off)
    /\ cur.m_len \in M2_MIN_LEN .. M2Longest

Later == IF Discarded THEN [Found EXCEPT !.m_len = 0] ELSE Found

(* Bug: of two matches of one length the nearer one is not preferred. *)
WorseOrAlike == Later.m_len <= cur.m_len

(* The next position's match is worse than the one at hand. *)
Worse ==
    \/ Later.m_len < cur.m_len
    \/ Later.m_len = cur.m_len /\ Later.m_off >= cur.m_off

(* The longer match is taken when it makes up for the literals, or for the *)
(* shortened match, that precede it.                                       *)
Weigh9x ==
    LET ahead == cur.ahead
        m == IF Worse THEN Later ELSE better_match(Later)
        l2 == len_of_coded_match(m.m_len, m.m_off, lit + ahead)
        l3 == IF op = << >> THEN 0 ELSE len_of_coded_match(ahead, cur.m_off, lit)
        taken == /\ ~Worse /\ l2 # 0
                 /\ m.m_len >= cur.m_len + min_gain(ahead, lit, lit + ahead, cur.l1, l2, l3)
        shortened == taken /\ l3 # 0
    IN  /\ at = "weigh"
        /\ op' = IF shortened THEN code_run \o code_match(ahead, cur.m_off, lit) ELSE op
        /\ lit' = IF ~taken THEN lit ELSE IF shortened THEN 0 ELSE lit + ahead
        /\ c' = [c EXCEPT !.m_len = m.m_len, !.m_off = m.m_off,
                          !.last_m_off = IF shortened THEN cur.m_off ELSE @]
        /\ at' = IF taken THEN "loop" ELSE "lazy"
        /\ UNCHANGED <<callVars, swd, ii, cur>>

CodeMatch9x ==
    /\ at = "lazy" /\ ~MayLookAhead9x
    /\ op' = code_run \o code_match(cur.m_len, cur.m_off, lit)
    /\ lit' = 0
    /\ find_match(swd, cur.m_len - 1 - cur.ahead, max_chain, cur.m_off)
    /\ at' = "loop"
    /\ UNCHANGED <<callVars, ii, cur>>

(* The work memory is the caller's again. *)
Finish9x ==
    /\ at = "loop" /\ c.look = 0
    /\ op' = code_run \o EofCode
    /\ swd' = << >>
    /\ at' = "written"
    /\ UNCHANGED <<callVars, c, ii, lit, cur>>

Next9x ==
    \/ Start9x \/ Literal9x \/ Consider9x \/ LookAhead9x \/ Weigh9x \/ CodeMatch9x
    \/ Finish9x

-----------------------------------------------------------------------------
(* Properties *)

(* How many bytes from position p on are those from q on; at most max *)
Common(text, q, p, max) ==
    LET differs(k) == k = max \/ At(text, q + k) # At(text, p + k)
    IN  CHOOSE k \in 0 .. max : differs(k) /\ \A j \in 0 .. k - 1 : ~differs(j)

IsMatch(m_len, m_off, pos) ==
    LET p == Len(dict) + pos
    IN  /\ m_off \in 1 .. Least(p, M4_MAX_OFFSET)
        /\ pos + m_len <= Len(orig)
        /\ Common(dict \o orig, p - m_off, p, m_len) = m_len

(* "assert_match(swd,m_len,m_off)", "assert(ii + lit + ahead == c->bp)",   *)
(* and the asserts of lzo_swd.ch: bytes of one hash that begin with the    *)
(* same two are the same three, and what leaves the window was counted.    *)
AssertsHold ==
    /\ at \notin {"start", "written"} => swd.asserted
    /\ at \in {"loop", "weigh"} /\ c.m_len >= 2 => IsMatch(c.m_len, c.m_off, c.bp)
    /\ at = "lazy" => IsMatch(cur.m_len, cur.m_off, c.bp - cur.ahead)
    /\ at \in {"loop", "weigh", "lazy"} /\ lit > 0 =>
            ii + lit + (IF at = "loop" THEN 0 ELSE cur.ahead) = c.bp

(* Where no chain is cut off, a search finds the longest match that the    *)
(* window has, at the smallest offset: nothing is missed when it stops     *)
(* early, nor when the ring has come round.                                *)
LongestFound ==
    at \in {"loop", "weigh", "lazy"} /\ c.look >= 2 /\ max_chain \div 4 >= M4_MAX_OFFSET =>
        LET p == Len(dict) + c.bp
            window == 1 .. Least(p, M4_MAX_OFFSET)
            text == dict \o orig
            len == [off \in window |-> Common(text, p - off, p, Least(c.look, F))]
        IN  IF swd.m_len = 1 THEN \A off \in window : len[off] < 2
            ELSE /\ swd.m_len = len[swd.m_off]
                 /\ \A off \in window :
                        len[off] < swd.m_len \/ (len[off] = swd.m_len /\ off >= swd.m_off)

=============================================================================
