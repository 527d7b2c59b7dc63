------------------------ MODULE CommonsOutputStream -------------------------
(***************************************************************************)
(* org.anarres.lzo.commons.LzoCompressorOutputStream: an LzoOutputStream   *)
(* behind the CompressorOutputStream of commons-compress 1.13.             *)
(*                                                                         *)
(* The two write methods delegate.  flush() and close() are not overridden *)
(* and those that are inherited, from java.io.OutputStream, do nothing.    *)
(***************************************************************************)
EXTENDS LzoOutputStream

VARIABLE
    acceptedAtClose     \* history: bytes written when close() was first called

commonsVars == <<vars, acceptedAtClose>>

NotClosed == -1

-----------------------------------------------------------------------------
CommonsInit == Init /\ acceptedAtClose = NotClosed

CommonsWrite ==
    /\ (\E len \in WriteLens : Write(len)) \/ RefuseWrite
    /\ UNCHANGED acceptedAtClose

(* java.io.OutputStream.flush() and close(), external. *)
CommonsFlush ==
    /\ op = "none"
    /\ UNCHANGED commonsVars

CommonsClose ==
    /\ op = "none"
    /\ acceptedAtClose' = IF acceptedAtClose = NotClosed THEN accepted ELSE acceptedAtClose
    /\ UNCHANGED vars

CommonsStep == Step /\ UNCHANGED acceptedAtClose

CommonsNext == CommonsWrite \/ CommonsFlush \/ CommonsClose \/ CommonsStep

CommonsSpec == CommonsInit /\ [][CommonsNext]_commonsVars /\ WF_commonsVars(CommonsStep)

-----------------------------------------------------------------------------
(* Properties *)

(* What was written before the first close() is in the sink once close()   *)
(* has returned, when no call has failed: the test of                      *)
(* LzoCompressorStreamProviderTest writes, closes and reads back.  What is *)
(* written after the close does not count.  Violated: the wrapper's        *)
(* close() reaches neither the buffers nor the sink.                       *)
CloseWritesAll ==
    acceptedAtClose # NotClosed /\ failures = 0 /\ op = "none" =>
        1 .. acceptedAtClose \subseteq Written

=============================================================================
