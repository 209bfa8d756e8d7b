----------------------------- MODULE ByteQueue ------------------------------
(***************************************************************************)
(* What a byte buffer promises its user: bytes come out in the order they  *)
(* went in, and what is out is the last piece taken.                       *)
(***************************************************************************)
EXTENDS Naturals, Sequences

CONSTANT Pieces  \* the sequences of bytes that may be put in at once

VARIABLES q,    \* the bytes put in and not yet taken
          out   \* the piece last taken

Init == q = <<>> /\ out = <<>>

Put == \E d \in Pieces : q' = q \o d /\ out' = <<>>

Take == \E n \in 0..Len(q) :
            out' = SubSeq(q, 1, n) /\ q' = SubSeq(q, n + 1, Len(q))

Next == Put \/ Take

Spec == Init /\ [][Next]_<<q, out>>
=============================================================================
