-------------------------------- MODULE LzoSwd -------------------------------
(***************************************************************************)
(* The sliding window dictionary of lzo_swd.ch: a ring of the bytes that   *)
(* were compressed last and of those that come next, and for a hash of     *)
(* three bytes the chain of the positions that have it.                    *)
(*                                                                         *)
(* s is the struct; an operator named after a function gives the struct    *)
(* the function leaves.  The work memory is not initialized: it holds some *)
(* byte or index everywhere.  An assert that fails has no effect but on    *)
(* s.asserted; the release build has none.                                 *)
(***************************************************************************)
EXTENDS Integers, SequencesExt

CONSTANTS
    SWD_N,              \* how far back the window reaches: M4_MAX_OFFSET
    SWD_F               \* how far a search looks ahead: 2048

SWD_THRESHOLD == 1
SWD_BEST_OFF == 34
NIL2 == -1
b_size == SWD_N + SWD_F

Ring(i) == i % b_size
Cells == 0 .. b_size + SWD_F - 1

(* The tables indexed by a hash are kept where something was put in. *)
Put(table, key, value) == (key :> value) @@ table
Got(table, key, none) == IF key \in DOMAIN table THEN table[key] ELSE none

(* (w << 5) ^ byte: the five low bits of w meet none of byte but its top   *)
(* three.                                                                  *)
Joined(w, byte) ==
    LET bit(i) == ((w \div 2^i + byte \div 2^(i + 5)) % 2) * 2^(i + 5)
    IN  (w \div 8) * 256 + bit(0) + bit(1) + bit(2) + (byte % 32)

(* (0x9f5f * w) >> 5, of which 14 bits are kept *)
Hash(w) == ((((40799 * (w \div 1024)) % 512) * 1024 + 40799 * (w % 1024)) % 524288) \div 32

(* Bug: the third byte is signed; 19 bits of its sign count. *)
HEAD3Signed(b, p) ==
    LET w == Joined(Joined(b[p], b[p + 1]), b[p + 2])
    IN  Hash(IF b[p + 2] > 127 THEN (2047 - w \div 256) * 256 + (w % 256) ELSE w)

HEAD3(b, p) == Hash(Joined(Joined(b[p], b[p + 1]), b[p + 2]))

HEAD2(b, p) == <<b[p], b[p + 1]>>

SameBytes(b, p, q, n) == \A k \in 0 .. n - 1 : b[p + k] = b[q + k]

swd_pos2off(s, pos) == IF s.bp > pos THEN s.bp - pos ELSE b_size - (pos - s.bp)

-----------------------------------------------------------------------------
(* node goes to the head of its chain, with the length found there; no     *)
(* chain is longer than max.                                               *)
Linked(s, node, len, max) ==
    LET key == HEAD3(s.b, node)
        count == Got(s.llen3, key, 0)
    IN  [s EXCEPT !.succ3[node] = Got(s.head3, key, s.junk),
                  !.head3 = Put(@, key, node),
                  !.best3[node] = len,
                  !.llen3 = Put(@, key, count + 1),
                  !.asserted = @ /\ count < max]

Headed(s, node) == [s EXCEPT !.head2 = Put(@, HEAD2(s.b, node), node)]

swd_insertdict(s, len) ==
    LET with[n \in 0 .. len] ==
            IF n = 0 THEN [s EXCEPT !.node_count = SWD_N - len, !.first_rp = 0]
            ELSE Headed(Linked(with[n - 1], n - 1, SWD_F + 1, SWD_N), n - 1)
    IN  with[len]

(* The window with the end of dict in it, and what follows of in. *)
swd_init(in, dict, junk) ==
    LET dict_len == IF Len(dict) > SWD_N THEN SWD_N ELSE Len(dict)
        look == IF Len(in) > SWD_F THEN SWD_F ELSE Len(in)
        known == SubSeq(dict, Len(dict) - dict_len + 1, Len(dict)) \o SubSeq(in, 1, look)
                    \o (IF look < 3 THEN <<0, 0, 0>> ELSE << >>)
        s == [b |-> [i \in Cells |-> IF i < Len(known) THEN known[i + 1] ELSE junk],
              ip |-> Ring(dict_len + look), bp |-> dict_len, rp |-> 0, look |-> look,
              read |-> look, node_count |-> SWD_N, first_rp |-> dict_len,
              head3 |-> << >>, llen3 |-> << >>, head2 |-> << >>,
              succ3 |-> [i \in 0 .. b_size - 1 |-> junk],
              best3 |-> [i \in 0 .. b_size - 1 |-> junk],
              m_len |-> 0, m_off |-> 0, best_off |-> [i \in 2 .. SWD_BEST_OFF - 1 |-> 0],
              junk |-> junk, asserted |-> TRUE]
        with == IF look >= 2 /\ dict_len > 0 THEN swd_insertdict(s, dict_len) ELSE s
    IN  [with EXCEPT !.rp = Ring(with.first_rp + b_size - with.node_count)]

(* Bug: the cells behind the end of the ring stay as they were. *)
swd_getbyteNoWrap(s, in) ==
    LET more == s.read < Len(in)
    IN  [s EXCEPT !.b = IF more THEN [@ EXCEPT ![s.ip] = in[s.read + 1]] ELSE @,
                  !.read = IF more THEN @ + 1 ELSE @,
                  !.look = IF more \/ @ = 0 THEN @ ELSE @ - 1,
                  !.ip = Ring(@ + 1), !.bp = Ring(@ + 1), !.rp = Ring(@ + 1)]

(* The first cells of the ring are there once more behind its end. *)
swd_getbyte(s, in) ==
    LET more == s.read < Len(in)
        byte == in[s.read + 1]
        twin == IF s.ip < SWD_F THEN b_size + s.ip ELSE s.ip
    IN  [s EXCEPT !.b = IF more THEN [@ EXCEPT ![s.ip] = byte, ![twin] = byte] ELSE @,
                  !.read = IF more THEN @ + 1 ELSE @,
                  !.look = IF more \/ @ = 0 THEN @ ELSE @ - 1,
                  !.ip = Ring(@ + 1), !.bp = Ring(@ + 1), !.rp = Ring(@ + 1)]

(* node has the oldest position of the window. *)
swd_remove_node(s, node) ==
    IF s.node_count > 0 THEN [s EXCEPT !.node_count = @ - 1]
    ELSE LET key == HEAD3(s.b, node)
             two == HEAD2(s.b, node)
         IN  [s EXCEPT !.llen3 = Put(@, key, Got(@, key, 0) - 1),
                       !.head2 = IF Got(@, two, NIL2) = node THEN Put(@, two, NIL2) ELSE @,
                       !.asserted = @ /\ Got(s.llen3, key, 0) > 0 /\ Got(s.head2, two, NIL2) # NIL2]

Accepted(s, in) ==
    LET room == swd_remove_node(s, s.rp)
    IN  swd_getbyte(Headed(Linked(room, s.bp, SWD_F + 1, SWD_N), s.bp), in)

swd_accept(s, in, n) ==
    LET after[k \in 0 .. n] == IF k = 0 THEN s ELSE Accepted(after[k - 1], in)
    IN  after[n]

-----------------------------------------------------------------------------
(* The search.  r is what it has found: m_len, m_pos and best_pos; and the *)
(* node it is at.                                                          *)

Extent(s, node) ==
    LET differs(k) == k = s.look \/ s.b[node + k] # s.b[s.bp + k]
    IN  CHOOSE k \in 3 .. s.look : differs(k) /\ \A j \in 3 .. k - 1 : ~differs(j)

(* A match longer than what was found at node is not surpassed by an older *)
(* one.                                                                    *)
Visit(r, s) ==
    LET next == [r EXCEPT !.node = s.succ3[@]]
        alike == \A k \in {0, 1, r.m_len - 1, r.m_len} : s.b[r.node + k] = s.b[s.bp + k]
        i == Extent(s, r.node)
        seen == [next EXCEPT
                    !.best_pos = IF i < SWD_BEST_OFF /\ @[i] = NIL2 THEN [@ EXCEPT ![i] = r.node]
                                                                    ELSE @,
                    !.asserted = @ /\ SameBytes(s.b, s.bp, r.node, i)]
    IN  IF r.done THEN r
        ELSE IF ~alike THEN next
        ELSE IF i <= r.m_len THEN seen
        ELSE [seen EXCEPT !.m_len = i, !.m_pos = r.node,
                          !.done = i = s.look \/ i >= SWD_F \/ i > s.best3[r.node]]

swd_search(r, s, cnt) ==
    LET after[k \in 0 .. cnt] == IF k = 0 THEN r ELSE Visit(after[k - 1], s)
    IN  after[cnt]

(* The last position with the same two bytes, if there is one *)
swd_search2(r, s) ==
    LET key == Got(s.head2, HEAD2(s.b, s.bp), NIL2) IN
    IF key = NIL2 THEN r
    ELSE [r EXCEPT !.best_pos[2] = key, !.m_len = 2, !.m_pos = key,
                   !.asserted = @ /\ SameBytes(s.b, s.bp, key, 2)]

(* The longest match of at least two bytes, and the last one of each length *)
Match(s, max_chain) ==
    LET key == HEAD3(s.b, s.bp)
        llen == Got(s.llen3, key, 0)
        none == [m_len |-> SWD_THRESHOLD, m_pos |-> NIL2, node |-> Got(s.head3, key, s.junk),
                 best_pos |-> [i \in 2 .. SWD_BEST_OFF - 1 |-> NIL2],
                 done |-> FALSE, asserted |-> s.asserted]
        two == swd_search2(none, s)
    IN  IF s.look <= SWD_THRESHOLD THEN none
        ELSE IF two.m_len = 2 /\ s.look >= 3
        THEN swd_search(two, s, IF llen > max_chain THEN max_chain ELSE llen)
        ELSE two

(* r is Match(s, max_chain). *)
swd_findbest(s, r, use_best_off) ==
    LET searched == s.look > SWD_THRESHOLD
        best_off == [i \in 2 .. SWD_BEST_OFF - 1 |->
                        IF r.best_pos[i] = NIL2 THEN 0 ELSE swd_pos2off(s, r.best_pos[i])]
        linked == Linked(s, s.bp, IF searched THEN r.m_len ELSE SWD_F + 1, b_size)
        found == [linked EXCEPT
                    !.m_len = r.m_len,
                    !.m_off = IF r.m_len > SWD_THRESHOLD THEN swd_pos2off(s, r.m_pos) ELSE 0,
                    !.best_off = IF searched /\ use_best_off THEN best_off ELSE @,
                    !.asserted = @ /\ r.asserted]
    IN  Headed(swd_remove_node(found, s.rp), s.bp)

=============================================================================
