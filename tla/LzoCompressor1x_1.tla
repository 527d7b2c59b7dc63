--------------------------- MODULE LzoCompressor1x_1 --------------------------
(***************************************************************************)
(* LzoCompressor1x_1.compress (and LzoCompressor1y_1, the same code with   *)
(* LZO1Y's tokens): the block is cut into chunks, each compressed with a   *)
(* dictionary of its own, which for a hash of four bytes holds where they  *)
(* were last looked at.  Literals pile up from ii to in_ptr until a match  *)
(* is found; after each 32 of them in_ptr skips one byte more.  The last   *)
(* 20 bytes of a chunk start no match, and wait for the next chunk.        *)
(***************************************************************************)
EXTENDS Lzo1xTokens

CONSTANTS
    Inputs,         \* the byte sequences to compress
    Chunk,          \* 49152: no offset within a chunk is too large for M4
    Slots,          \* the dictionary's indices
    DINDEX(_)       \* the hash of four bytes

ASSUME ChunkAssumption == Chunk \in 21 .. M4_MAX_OFFSET + 1
ASSUME InputsAssumption == \A in \in Inputs : in \in Seq(0 .. 255)
ASSUME HashAssumption ==
    \A in \in Inputs : \A ptr \in 0 .. Len(in) - 4 :
        DINDEX(SubSeq(in, ptr + 1, ptr + 4)) \in Slots

VARIABLES
    algorithm, orig,    \* the call: which class, and the bytes it is given
    out,                \* the bytes written
    chunkAt, left,      \* compress: where the next chunk is, the bytes from there on
    pending,            \* t: the literals before it that are not yet written
    in_ptr, ii,         \* do_compress: the scan, and the first literal not yet written
    dict, m_pos,
    label               \* where in the code

callVars == <<algorithm, orig, out>>
scanVars == <<chunkAt, left, pending, in_ptr, ii, dict, m_pos, label>>
vars == <<callVars, scanVars>>

-----------------------------------------------------------------------------
Four(ptr) == SubSeq(orig, ptr + 1, ptr + 4)

ll == Least(left, Chunk)
ip_end == chunkAt + ll - 20

Ready ==
    /\ out = << >>
    /\ chunkAt = 0 /\ left = Len(orig) /\ pending = 0
    /\ in_ptr = 0 /\ ii = 0
    /\ dict = [s \in Slots |-> 0]
    /\ m_pos = 0
    /\ label = "chunk"

Init == algorithm \in Algorithms /\ orig \in Inputs /\ Ready

(* Neither few bytes nor few bytes with what is pending are worth a scan. *)
WorthScanning == left > 20 /\ (pending + ll) \div 32 > 0

(* Definitions marked "Bug:" are slips the properties must notice; nothing *)
(* else refers to them.                                                    *)

(* Bug: the pending literals do not count towards the four. *)
StartChunkAtOnce ==
    /\ label = "chunk" /\ WorthScanning
    /\ dict' = [s \in Slots |-> 0]
    /\ ii' = chunkAt - pending
    /\ in_ptr' = chunkAt
    /\ label' = "literal"
    /\ UNCHANGED <<callVars, chunkAt, left, pending, m_pos>>

(* Bug: the dictionary of the chunk before is kept. *)
StartChunkSameDict ==
    /\ label = "chunk" /\ WorthScanning
    /\ ii' = chunkAt - pending
    /\ in_ptr' = IF pending < 4 THEN chunkAt + 4 - pending ELSE chunkAt
    /\ label' = "literal"
    /\ UNCHANGED <<callVars, chunkAt, left, pending, dict, m_pos>>

StartChunk ==
    /\ label = "chunk" /\ WorthScanning
    /\ dict' = [s \in Slots |-> 0]
    /\ ii' = chunkAt - pending
    /\ in_ptr' = IF pending < 4 THEN chunkAt + 4 - pending ELSE chunkAt
    /\ label' = "literal"
    /\ UNCHANGED <<callVars, chunkAt, left, pending, m_pos>>

Literal ==
    /\ label = "literal"
    /\ in_ptr' = in_ptr + 1 + (in_ptr - ii) \div 32
    /\ label' = "next"
    /\ UNCHANGED <<callVars, chunkAt, left, pending, ii, dict, m_pos>>

(* Whatever the dictionary has, an entry of this chunk or none, counts     *)
(* when its four bytes are the same.                                       *)
Lookup ==
    /\ label = "next" /\ in_ptr < ip_end
    /\ LET dindex == DINDEX(Four(in_ptr)) IN
        /\ m_pos' = chunkAt + dict[dindex]
        /\ dict' = [dict EXCEPT ![dindex] = in_ptr - chunkAt]
    /\ label' = IF Four(m_pos') = Four(in_ptr) THEN "match" ELSE "literal"
    /\ UNCHANGED <<callVars, chunkAt, left, pending, in_ptr, ii>>

(* How far the match goes: to the first byte that differs, or, once past   *)
(* the fifth, to ip_end.                                                   *)
MatchLen ==
    Smallest({m \in 4 .. Len(orig) - in_ptr - 1 :
                \/ At(orig, in_ptr + m) # At(orig, m_pos + m)
                \/ m > 4 /\ in_ptr + m >= ip_end})

WithPending == IF in_ptr = ii THEN out ELSE WithRun(out, SubSeq(orig, ii + 1, in_ptr))

(* Bug: ii stays where it is. *)
EmitMatchKeepsLiterals ==
    /\ label = "match"
    /\ out' = WithPending \o MatchCode(algorithm, MatchLen, in_ptr - m_pos)
    /\ in_ptr' = in_ptr + MatchLen
    /\ label' = "next"
    /\ UNCHANGED <<algorithm, orig, chunkAt, left, pending, ii, dict, m_pos>>

EmitMatch ==
    /\ label = "match"
    /\ out' = WithPending \o MatchCode(algorithm, MatchLen, in_ptr - m_pos)
    /\ in_ptr' = in_ptr + MatchLen
    /\ ii' = in_ptr'
    /\ label' = "next"
    /\ UNCHANGED <<algorithm, orig, chunkAt, left, pending, dict, m_pos>>

EndChunk ==
    /\ label = "next" /\ in_ptr >= ip_end
    /\ pending' = chunkAt + ll - ii
    /\ chunkAt' = chunkAt + ll
    /\ left' = left - ll
    /\ label' = "chunk"
    /\ UNCHANGED <<callVars, in_ptr, ii, dict, m_pos>>

(* What is left is literals; then the mark of the end. *)
Finish ==
    /\ label = "chunk" /\ ~WorthScanning
    /\ LET t == pending + left IN
        out' = (IF t > 0 THEN WithAnyRun(out, SubSeq(orig, Len(orig) - t + 1, Len(orig)))
                         ELSE out) \o EofCode
    /\ label' = "written"
    /\ UNCHANGED <<algorithm, orig, chunkAt, left, pending, in_ptr, ii, dict, m_pos>>

Next == StartChunk \/ Literal \/ Lookup \/ EmitMatch \/ EndChunk \/ Finish

Spec == Init /\ [][Next]_vars

-----------------------------------------------------------------------------
(* Properties *)

TypeOK ==
    /\ algorithm \in Algorithms
    /\ orig \in Inputs
    /\ out \in Seq(0 .. 255)
    /\ chunkAt \in Nat /\ left \in Nat /\ pending \in Nat
    /\ in_ptr \in Nat /\ ii \in Nat
    /\ dict \in [Slots -> Nat]
    /\ m_pos \in Nat
    /\ label \in {"chunk", "literal", "next", "match", "written"}

(* A match that is about to be written repeats bytes of the input that are *)
(* before it, no further back than a token can say, and stays in the       *)
(* chunk.                                                                  *)
MatchIsTrue ==
    label = "match" =>
        /\ in_ptr - m_pos \in 1 .. M4_MAX_OFFSET
        /\ in_ptr + MatchLen <= chunkAt + ll
        /\ \A k \in 0 .. MatchLen - 1 : At(orig, in_ptr + k) = At(orig, m_pos + k)

(* One to three literals are counted in a byte that has been written and   *)
(* whose low bits are free, since a run of literals never comes first with *)
(* so few.                                                                 *)
CountHasRoom ==
    label = "match" /\ in_ptr - ii \in 1 .. 3 =>
        Len(out) >= 2 /\ out[Len(out) - 1] % 4 = 0

=============================================================================
