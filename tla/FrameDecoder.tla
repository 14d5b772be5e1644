---------------------------- MODULE FrameDecoder ----------------------------
(***************************************************************************)
(* FrameDecoder of frame.rs at work on a byte stream: wire is everything   *)
(* the peer sends, and the caller presents any part of what is not         *)
(* consumed yet, cut wherever the transport happened to cut it.            *)
(***************************************************************************)
EXTENDS Frame

CONSTANT Wires      \* the byte streams a peer may send

ASSUME WiresAssumption == Wires \subseteq Seq(Bytes)

VARIABLES
    wire,       \* the stream, fixed at the start
    dec,        \* the decoder
    pos,        \* bytes of wire the decoder reported as consumed
    start,      \* ghost: where in wire the frame being decoded starts
    offered,    \* ghost: the end of the last input, as a position of wire
    out         \* the last return value, [res, frame, start of that frame]

vars == <<wire, dec, pos, start, offered, out>>

Init ==
    /\ wire \in Wires
    /\ dec = NewDecoder
    /\ pos = 0 /\ start = 0 /\ offered = 0
    /\ out = [res |-> "None", frame |-> NoFrame, start |-> 0]

\* The next n bytes are presented to feed.
FeedChunk(n) ==
    LET r == Feed(dec, SubSeq(wire, pos + 1, pos + n))
    IN  /\ n \in 0 .. Len(wire) - pos
        /\ dec' = r.dec
        /\ pos' = pos + r.consumed
        /\ start' = IF r.res = "Some" THEN pos + r.consumed ELSE start
        /\ offered' = pos + n
        /\ out' = [res |-> r.res, frame |-> r.frame, start |-> start]
        /\ UNCHANGED wire

\* FrameDecoder::reset: what follows is taken as the start of a frame.
Reset ==
    /\ dec' = NewDecoder
    /\ start' = pos
    /\ out' = [res |-> "None", frame |-> NoFrame, start |-> pos]
    /\ offered' = pos
    /\ UNCHANGED <<wire, pos>>

Next == Reset \/ \E n \in 0 .. Len(wire) - pos : FeedChunk(n)

Spec == Init /\ [][Next]_vars

\* A caller that again and again presents everything it has.
FairSpec == Spec /\ WF_vars(FeedChunk(Len(wire) - pos))

-----------------------------------------------------------------------------
(***************************************************************************)
(* Reference: what a decoder must know after the bytes p of a frame, given *)
(* at once, with no notion of a chunk.                                     *)
(***************************************************************************)
HeaderLen(p)   == 1 + SizeNeeded(LongBit(p[1]))
SizeField(p)   == SubSeq(p, 2, HeaderLen(p))
SizeKnown(p)   == Len(p) >= HeaderLen(p)
FrameLen(p)    == BodyLen(LongBit(p[1]), SizeField(p))

\* The bytes p show that no valid frame starts with them.
Invalid(p) ==
    /\ p # <<>>
    /\ BadFlags(p[1]) \/ (SizeKnown(p) /\ FrameLen(p) > CAP)

\* p is one complete frame.
IsFrame(p) ==
    /\ p # <<>> /\ ~Invalid(p)
    /\ SizeKnown(p)
    /\ Len(p) = HeaderLen(p) + FrameLen(p)

\* The frame that p encodes.
FrameOf(p) ==
    [more |-> MoreBit(p[1]), is_command |-> CommandBit(p[1]),
     body |-> SubSeq(p, HeaderLen(p) + 1, Len(p))]

\* p is the beginning of a frame and not all of it.
Partial(p) ==
    /\ ~Invalid(p)
    /\ p # <<>> /\ SizeKnown(p) => Len(p) < HeaderLen(p) + FrameLen(p)

\* The state that stands for the incomplete but valid frame p.
StateAfter(p) ==
    IF p = <<>> THEN NewDecoder
    ELSE IF ~SizeKnown(p)
    THEN NeedSize(MoreBit(p[1]), CommandBit(p[1]), LongBit(p[1]), SubSeq(p, 2, Len(p)))
    ELSE NeedBody(MoreBit(p[1]), CommandBit(p[1]),
                  FrameLen(p) - (Len(p) - HeaderLen(p)),
                  SubSeq(p, HeaderLen(p) + 1, Len(p)))

\* The bytes of the frame in progress, and the bytes of the last frame.
Seen      == SubSeq(wire, start + 1, pos)
LastFrame == SubSeq(wire, out.start + 1, pos)

-----------------------------------------------------------------------------
Results == {"None", "Some", "ReservedFlagBits", "BodyTooLarge"}

\* Every variable has its type.  The body received and the body still
\* expected always fit the buffer: the slice written by the NeedBody arm
\* (frame.rs, copy_from_slice) is within buf.
TypeOK ==
    /\ wire \in Seq(Bytes)
    /\ dec \in Decoders
    /\ Len(dec.buf) + dec.remaining <= CAP
    /\ Len(dec.size) < 8
    /\ pos \in 0 .. Len(wire)
    /\ start \in 0 .. pos
    /\ offered \in pos .. Len(wire)
    /\ out.res \in Results /\ out.frame \in Frames /\ out.start \in 0 .. pos

\* The cuts are invisible: as long as it is not poisoned, the decoder is in
\* the state that the bytes of the current frame determine, however many
\* calls of feed brought them.
ChunkingInvisible ==
    dec.st # "Poisoned" =>
        Partial(Seen) /\ dec = StateAfter(Seen)

\* The decoder is poisoned only by an invalid frame: the bytes offered since
\* the start of the frame do hold bad flags or too large a size.
PoisonedByInvalid ==
    dec.st = "Poisoned" =>
        \E k \in pos .. Len(wire) : Invalid(SubSeq(wire, start + 1, k))

\* A frame handed to the caller is the frame on the wire: its flags, and all
\* and only the bytes after its header, whatever the chunks they came in.
FrameFaithful ==
    out.res = "Some" =>
        /\ IsFrame(LastFrame)
        /\ start = pos
        /\ out.frame = FrameOf(LastFrame)

\* "BodyTooLarge if the decoded body length exceeds the decoder's capacity":
\* no frame is delivered for which the sender announced more than CAP bytes.
OversizeRejected ==
    out.res = "Some" => Announced(LongBit(LastFrame[1]), SizeField(LastFrame)) <= CAP

\* "More bytes needed; all input bytes were consumed": the caller may drop
\* what it presented whenever feed asks for more.
NoneConsumesAll == out.res = "None" => offered = pos

\* A caller that presents all it has gets to the end of the stream or to an
\* error, even when it resets the decoder in between: feed never returns without having consumed a byte, which is what
\* the loops around it rely on.
StreamIsDrained == <>(pos = Len(wire) \/ dec.st = "Poisoned")
=============================================================================
