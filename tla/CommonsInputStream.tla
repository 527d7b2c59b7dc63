------------------------- MODULE CommonsInputStream -------------------------
(***************************************************************************)
(* org.anarres.lzo.commons.LzoCompressorInputStream: an LzoInputStream     *)
(* behind the CompressorInputStream of commons-compress 1.13.              *)
(*                                                                         *)
(* Only read() is overridden.  read(b, off, len) is java.io.InputStream's: *)
(* it calls read() for each byte, and an IOException it meets behind the   *)
(* first byte is dropped and answered with the number of bytes so far.     *)
(* count() adds up getBytesRead(), the length of `delivered`.              *)
(***************************************************************************)
EXTENDS LzoInputStream

VARIABLES
    wrapped,            \* the stream is read through the wrapper
    asked,              \* the len of the call of read(b, off, len), or Idle
    got,                \* how many bytes it has put into the array
    answer,             \* how the last call ended
    noticed             \* history: a call threw or did not fill its array

call == <<asked, got, answer, noticed>>
commonsVars == <<vars, wrapped, call>>

-----------------------------------------------------------------------------
CommonsInit ==
    /\ Init
    /\ wrapped \in BOOLEAN
    /\ asked = Idle
    /\ got = 0
    /\ answer = "none"
    /\ noticed = FALSE

Quiet == asked = Idle /\ want = Idle

(* The caller has the LzoInputStream itself. *)
DirectRead ==
    /\ ~wrapped
    /\ ReadCall
    /\ UNCHANGED <<wrapped, call>>

(* read(b, off, len): an array of no bytes is answered at once.  read() is *)
(* as an array of one.                                                     *)
ArrayRead(len) ==
    /\ wrapped
    /\ Quiet
    /\ len # 0
    /\ asked' = len
    /\ got' = 0
    /\ UNCHANGED <<vars, wrapped, answer, noticed>>

(* Its next read(), of one byte. *)
NextByte ==
    /\ asked # Idle
    /\ Read(1)
    /\ UNCHANGED <<wrapped, call>>

(* The call is over; only a full array is no reason to look closer. *)
Answer(how) ==
    /\ asked' = Idle
    /\ answer' = how
    /\ noticed' = (noticed \/ how \in {"short", "thrown"})

KeepCall == UNCHANGED <<asked, answer, noticed>>

(* read() returned a byte. *)
TakeByte ==
    /\ Deliver
    /\ got' = got + 1
    /\ IF got + 1 = asked THEN Answer("full") ELSE KeepCall

(* read() returned -1. *)
TakeEnd ==
    /\ EndOfFile
    /\ UNCHANGED got
    /\ Answer(IF got = 0 THEN "end" ELSE "short")

(* read() threw an IOException: at a cut, or out of an index that was out  *)
(* of bounds, when decompress() has set the length to 0.                   *)
TakeIOException ==
    /\ CutShort \/ (ReadGarbled /\ want' = Idle /\ outputBufferLen' = 0)
    /\ UNCHANGED got
    /\ Answer(IF got = 0 THEN "thrown" ELSE "short")

(* read() threw an IllegalArgumentException or IllegalStateException. *)
TakeRuntimeException ==
    /\ ReadGarbled
    /\ want' = Idle
    /\ UNCHANGED got
    /\ Answer("thrown")

(* read() goes on to another block. *)
GoOn ==
    /\ ReadBlock \/ (ReadGarbled /\ want' # Idle)
    /\ UNCHANGED <<got, asked, answer, noticed>>

WrapperStep ==
    /\ wrapped
    /\ UNCHANGED wrapped
    /\ TakeByte \/ TakeEnd \/ TakeIOException \/ TakeRuntimeException \/ GoOn

DirectStep == ~wrapped /\ Step /\ UNCHANGED <<wrapped, call>>

StreamStep == NextByte \/ WrapperStep \/ DirectStep

StreamRead == DirectRead \/ \E len \in ReadLens : ArrayRead(len)

CommonsNext == StreamRead \/ StreamStep

(* A read runs in the thread of its caller; nothing makes a caller read. *)
CommonsSpec == CommonsInit /\ [][CommonsNext]_commonsVars /\ WF_commonsVars(StreamStep)

-----------------------------------------------------------------------------
(* Properties *)

(* What java.io.InputStream's read leaves of the LzoInputStream's promises *)
(* when it drops an exception: the arrays of an undamaged file still hold  *)
(* a prefix of the bytes it was written from, however the calls ended; and *)
(* a caller all of whose arrays were filled until -1 came has every byte   *)
(* of a file that was not cut inside a block.                              *)
ArraysTell ==
    wrapped =>
        /\ Undamaged(file) => IsPrefix(delivered, content)
        /\ answer = "end" /\ ~noticed =>
                /\ Len(delivered) = Len(BytesIn(file))
                /\ Len(file) % 3 = 0

(* fill(): "Always consumes 8 bytes, so guaranteed to terminate."  Both    *)
(* the single reads and the calls for an array return.                     *)
ReadsEnd == ~Quiet ~> Quiet

=============================================================================
