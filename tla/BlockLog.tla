------------------------------ MODULE BlockLog ------------------------------
(***************************************************************************)
(* What a buffering block compressor promises to the code that writes to   *)
(* it, whatever it does with its buffers: the bytes it accepts leave it in *)
(* the order in which they came, in blocks of 1..N bytes, each byte once.  *)
(* A block can be lost only in a call that reports a failure, and such a   *)
(* call loses one block.                                                   *)
(*                                                                         *)
(* The k-th byte accepted is written k: nothing promised here depends on   *)
(* the value of a byte.                                                    *)
(***************************************************************************)
EXTENDS Naturals, Sequences

CONSTANT N                      \* The largest block.

VARIABLES
    accepted,                   \* How many bytes were accepted.
    dispatched,                 \* How many of them have left the buffers.
    log,                        \* The blocks in the order they left.
    failures                    \* How many calls reported a failure.

vars == <<accepted, dispatched, log, failures>>

(* The k bytes that follow the first `from` bytes of the stream. *)
Run(from, k) == [i \in 1 .. k |-> from + i]

Frame(data, whole) == [data |-> data, whole |-> whole]

Init ==
    /\ accepted = 0
    /\ dispatched = 0
    /\ log = << >>
    /\ failures = 0

(* The caller hands over more bytes, or none. *)
Accept ==
    /\ accepted' \in Nat
    /\ accepted' >= accepted
    /\ UNCHANGED <<dispatched, log, failures>>

(* The next k accepted bytes leave the buffers: into the log, or, when the *)
(* call fails, nowhere or into the log as a torn frame.                    *)
Dispatch ==
    \E k \in 1 .. N :
        /\ dispatched + k <= accepted
        /\ dispatched' = dispatched + k
        /\ UNCHANGED accepted
        /\ \/ /\ log' = Append(log, Frame(Run(dispatched, k), TRUE))
              /\ UNCHANGED failures
           \/ /\ log' \in {log, Append(log, Frame(Run(dispatched, k), FALSE))}
              /\ failures' = failures + 1

(* A call can also fail without losing anything (closing the sink). *)
Fail ==
    /\ failures' = failures + 1
    /\ UNCHANGED <<accepted, dispatched, log>>

Next == Accept \/ Dispatch \/ Fail

Spec == Init /\ [][Next]_vars

=============================================================================
