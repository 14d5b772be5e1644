--------------------------- MODULE MCFrameChannel ---------------------------
(***************************************************************************)
(* Frames on both sides of the change from the short to the long size,     *)
(* which is at RADIX - 1 = 8 bytes, and of the capacity, 10 bytes.         *)
(***************************************************************************)
EXTENDS FrameChannel

Body(n) == [i \in 1 .. n |-> i % RADIX]

MCOutgoing ==
    {[more |-> m, is_command |-> FALSE, body |-> Body(n)] : m \in BOOLEAN, n \in {0, 8, 9}}
    \cup {[more |-> FALSE, is_command |-> TRUE, body |-> Body(n)] : n \in {1, 8, 9, 10}}
=============================================================================
