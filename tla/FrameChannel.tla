---------------------------- MODULE FrameChannel ----------------------------
(***************************************************************************)
(* The two halves of frame.rs together: a sender writes frames, each as    *)
(* the header of an encoder and its body, into a byte stream, and a        *)
(* decoder reads the stream in chunks.                                     *)
(***************************************************************************)
EXTENDS Frame

CONSTANTS
    Outgoing,       \* the frames that are sent, [more, is_command, body]
    MaxFrames       \* bound: frames sent

ASSUME OutgoingAssumption ==
    \A f \in Outgoing :
        /\ f \in Frames
        /\ Len(f.body) <= CAP /\ Len(f.body) < USIZE
        /\ ~(f.more /\ f.is_command)

VARIABLES
    stream,     \* bytes written and not yet consumed
    receiver,   \* the decoder
    sent,       \* the frames sent, in order
    delivered   \* the frames delivered, in order

channelVars == <<stream, receiver, sent, delivered>>

ChannelInit == stream = <<>> /\ receiver = NewDecoder /\ sent = <<>> /\ delivered = <<>>

Header(f) ==
    IF f.is_command THEN EncodeCommandFrame(Len(f.body))
    ELSE EncodeMessageFrame(f.more, Len(f.body))

Send(f) ==
    /\ Len(sent) < MaxFrames
    /\ stream' = stream \o Header(f) \o f.body
    /\ sent' = Append(sent, f)
    /\ UNCHANGED <<receiver, delivered>>

\* The next n bytes are presented to feed.
Receive(n) ==
    LET r == Feed(receiver, SubSeq(stream, 1, n))
    IN  /\ receiver' = r.dec
        /\ stream' = SubSeq(stream, r.consumed + 1, Len(stream))
        /\ delivered' = IF r.res = "Some" THEN Append(delivered, r.frame) ELSE delivered
        /\ UNCHANGED sent

ChannelNext ==
    \/ \E f \in Outgoing : Send(f)
    \/ \E n \in 1 .. Len(stream) : Receive(n)

ChannelSpec == ChannelInit /\ [][ChannelNext]_channelVars

FairChannelSpec == ChannelSpec /\ WF_channelVars(\E n \in 1 .. Len(stream) : Receive(n))

-----------------------------------------------------------------------------
\* The frames delivered are the first of those sent, in order and unchanged,
\* and none is missing when the stream is used up: what encode_message_frame
\* and encode_command_frame write, feed reads, with either kind of size.
RoundTrip ==
    /\ Len(delivered) <= Len(sent)
    /\ \A i \in DOMAIN delivered : delivered[i] = sent[i]
    /\ stream = <<>> => delivered = sent

\* Everything sent is delivered in the end, whatever the chunks.
AllDelivered == <>[](delivered = sent)
=============================================================================
