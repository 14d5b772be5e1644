--------------------------- MODULE MCFrameDecoder ---------------------------
(***************************************************************************)
(* Streams for the decoder: every pair of the frames below, one after the  *)
(* other, so that each kind of header follows each kind of frame.          *)
(***************************************************************************)
EXTENDS FrameDecoder

MCFrames == {
    <<0, 0>>,                               \* empty message
    <<1, 2, 7, 0>>,                         \* message with MORE
    <<0, 3, 1, 2, 3>>,                      \* body of exactly CAP bytes
    <<0, 4, 1, 2, 3, 4>>,                   \* one byte too many
    <<4, 1, 5>>,                            \* command
    <<5, 1, 5>>,                            \* command with MORE: invalid
    <<8, 0>>,                               \* reserved flag bit: invalid
    <<2, 0, 0, 0, 0, 0, 0, 0, 0>>,          \* long size, empty body
    <<2, 0, 0, 0, 0, 0, 0, 0, 2, 6, 3>>,    \* long size, body of two
    <<6, 0, 0, 0, 0, 0, 0, 0, 4, 1, 2, 3, 4>>,   \* long command, too large
    <<2, 0, 0, 0, 1, 0, 0, 0, 2, 6, 3>>,    \* announces RADIX^4 + 2 bytes
    <<2, 8, 8, 8, 8, 8, 8, 8, 8>>           \* announces the largest size
}

MCWires == {f \o g : f, g \in MCFrames}
=============================================================================
