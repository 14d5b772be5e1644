------------------------------- MODULE Frame -------------------------------
(***************************************************************************)
(* ZMTP 3.1 frames: the header encoders and the streaming decoder of       *)
(* frame.rs, as pure operators over byte sequences.                        *)
(*                                                                         *)
(* A byte is a number below RADIX.  The code has RADIX = 256; a smaller    *)
(* RADIX keeps every case of the code (the three flag bits, the reserved   *)
(* flag bits, the one-byte and the eight-byte size) within the integers of *)
(* TLC.  Nothing below depends on its value beyond RADIX > 8.              *)
(***************************************************************************)
EXTENDS Integers, Sequences

CONSTANTS
    CAP,      \* capacity of the decoder's body buffer (const generic CAP)
    RADIX,    \* number of values of a byte: 256 in the code
    USIZE     \* number of values of usize: 2^64, or 2^32 on the thumb targets

ASSUME FrameAssumption ==
    /\ CAP \in Nat
    /\ RADIX \in Nat /\ RADIX > 8
    /\ USIZE \in Nat /\ USIZE > CAP /\ USIZE > RADIX

Bytes == 0 .. RADIX - 1

AtMost(a, b) == IF a <= b THEN a ELSE b

-----------------------------------------------------------------------------
(* Header encoders *)

\* Mutant: least significant first.
ToLE(len) == [i \in 1 .. 8 |-> (len \div RADIX^(i - 1)) % RADIX]

\* A size as eight bytes, most significant first: (len as u64).to_be_bytes().
ToBE(len) ==
    LET q1 == len \div RADIX
        q2 == q1 \div RADIX
        q3 == q2 \div RADIX
        q4 == q3 \div RADIX
        q5 == q4 \div RADIX
        q6 == q5 \div RADIX
        q7 == q6 \div RADIX
    IN  <<q7 % RADIX, q6 % RADIX, q5 % RADIX, q4 % RADIX,
          q3 % RADIX, q2 % RADIX, q1 % RADIX, len % RADIX>>

\* Mutant: off by one.
FitsShortOff(len) == len <= RADIX

\* Both encoders choose the one-byte size whenever the length fits a byte.
\* The size is cast to the byte (as u8).
FitsShort(len) == len <= RADIX - 1

EncodeMessageFrame(more, len) ==
    LET moreBit == IF more THEN 1 ELSE 0
    IN  IF FitsShort(len) THEN <<moreBit, len % RADIX>> ELSE <<moreBit + 2>> \o ToBE(len)

EncodeCommandFrame(len) ==
    IF FitsShort(len) THEN <<4, len % RADIX>> ELSE <<6>> \o ToBE(len)

-----------------------------------------------------------------------------
(* The flags byte *)

ReservedBits(b) == b \div 8 # 0
MoreBit(b)      == b % 2 = 1
LongBit(b)      == (b \div 2) % 2 = 1
CommandBit(b)   == (b \div 4) % 2 = 1

\* Reserved bits set, or MORE on a command frame.
BadFlags(b) == ReservedBits(b) \/ (CommandBit(b) /\ MoreBit(b))

-----------------------------------------------------------------------------
(* The size field *)

SizeNeeded(long) == IF long THEN 8 ELSE 1

\* u64::from_be_bytes
FromBE(s) ==
    ((((((s[1] * RADIX + s[2]) * RADIX + s[3]) * RADIX + s[4]) * RADIX + s[5])
        * RADIX + s[6]) * RADIX + s[7]) * RADIX + s[8]

\* The length the sender announces: the value on the wire.
Announced(long, s) == IF long THEN FromBE(s) ELSE s[1]

\* Mutant: the size goes through a u32.
BodyLenU32(long, s) == IF long THEN FromBE(s) % RADIX^4 ELSE s[1]

\* The length the decoder works with: the announced one cast to usize.
BodyLen(long, s) == IF long THEN FromBE(s) % USIZE ELSE s[1]

\* Mutants: the check against the capacity is missing, or off by one.
TooLargeNever(len) == FALSE
TooLargeAtCap(len) == len >= CAP

TooLarge(len) == len > CAP

-----------------------------------------------------------------------------
(***************************************************************************)
(* The decoder.  A variant of the code's State enum is the tag st together *)
(* with the fields of that variant; the fields another variant owns hold   *)
(* their initial value.  size is size_buf[..size_pos] and buf is           *)
(* buf[..buf_pos]: what lies beyond is never read.                         *)
(***************************************************************************)
Decoders ==
    [st : {"NeedFlags", "NeedSize", "NeedBody", "Poisoned"},
     more : BOOLEAN, is_command : BOOLEAN, long : BOOLEAN,
     size : Seq(Bytes), remaining : Nat, buf : Seq(Bytes)]

NewDecoder ==
    [st |-> "NeedFlags", more |-> FALSE, is_command |-> FALSE, long |-> FALSE,
     size |-> <<>>, remaining |-> 0, buf |-> <<>>]

NeedSize(more, cmd, long, size) ==
    [st |-> "NeedSize", more |-> more, is_command |-> cmd, long |-> long,
     size |-> size, remaining |-> 0, buf |-> <<>>]

NeedBody(more, cmd, remaining, buf) ==
    [st |-> "NeedBody", more |-> more, is_command |-> cmd, long |-> FALSE,
     size |-> <<>>, remaining |-> remaining, buf |-> buf]

Poisoned ==
    [st |-> "Poisoned", more |-> FALSE, is_command |-> FALSE, long |-> FALSE,
     size |-> <<>>, remaining |-> 0, buf |-> <<>>]

NoFrame == [more |-> FALSE, is_command |-> FALSE, body |-> <<>>]

Frames == [more : BOOLEAN, is_command : BOOLEAN, body : Seq(Bytes)]

\* What feed returns: Ok((consumed, None)), Ok((consumed, Some(frame))) and
\* Err(error), which tells the caller nothing about the bytes consumed.
Pending(d, pos) ==
    [dec |-> d, res |-> "None", consumed |-> pos, frame |-> NoFrame]

Complete(pos, more, cmd, body) ==
    [dec |-> NewDecoder, res |-> "Some", consumed |-> pos,
     frame |-> [more |-> more, is_command |-> cmd, body |-> body]]

DecodeError(e) ==
    [dec |-> Poisoned, res |-> e, consumed |-> 0, frame |-> NoFrame]

\* Mutants: the body restarts with every call; it takes all the input there
\* is, not only what remains; the last byte of the input is not looked at.
FeedBodyRestarts(d, input, pos) ==
    LET n    == AtMost(Len(input) - pos, d.remaining)
        body == SubSeq(input, pos + 1, pos + n)
    IN  IF n = d.remaining
        THEN Complete(pos + n, d.more, d.is_command, body)
        ELSE Pending(NeedBody(d.more, d.is_command, d.remaining - n, body), pos + n)

FeedBodyTakesAll(d, input, pos) ==
    LET n    == Len(input) - pos
        body == d.buf \o SubSeq(input, pos + 1, pos + n)
    IN  IF n >= d.remaining
        THEN Complete(pos + n, d.more, d.is_command, body)
        ELSE Pending(NeedBody(d.more, d.is_command, d.remaining - n, body), pos + n)

FeedBodyStalls(d, input, pos) ==
    LET n    == AtMost(Len(input) - pos - 1, d.remaining)
        body == d.buf \o SubSeq(input, pos + 1, pos + n)
    IN  IF n = d.remaining
        THEN Complete(pos + n, d.more, d.is_command, body)
        ELSE Pending(NeedBody(d.more, d.is_command, d.remaining - n, body), pos + n)

\* The NeedBody arm, with pos bytes of input used and at least one left.
FeedBody(d, input, pos) ==
    LET n    == AtMost(Len(input) - pos, d.remaining)
        body == d.buf \o SubSeq(input, pos + 1, pos + n)
    IN  IF n = d.remaining
        THEN Complete(pos + n, d.more, d.is_command, body)
        ELSE Pending(NeedBody(d.more, d.is_command, d.remaining - n, body), pos + n)

\* The NeedSize arm, and the arms the loop goes on to.
FeedSize(d, input, pos) ==
    LET n    == AtMost(Len(input) - pos, SizeNeeded(d.long) - Len(d.size))
        size == d.size \o SubSeq(input, pos + 1, pos + n)
        len  == BodyLen(d.long, size)
        body == NeedBody(d.more, d.is_command, len, <<>>)
    IN  IF Len(size) < SizeNeeded(d.long)
        THEN Pending(NeedSize(d.more, d.is_command, d.long, size), pos + n)
        ELSE IF TooLarge(len) THEN DecodeError("BodyTooLarge")
        ELSE IF len = 0 THEN Complete(pos + n, d.more, d.is_command, <<>>)
        ELSE IF pos + n = Len(input) THEN Pending(body, pos + n)
        ELSE FeedBody(body, input, pos + n)

\* Mutant: feed returns after the flags byte, with input left.
FeedFlagsReturns(input) ==
    LET b == input[1]
    IN  IF BadFlags(b) THEN DecodeError("ReservedFlagBits")
        ELSE Pending(NeedSize(MoreBit(b), CommandBit(b), LongBit(b), <<>>), 1)

\* The NeedFlags arm, and the arms the loop goes on to.
FeedFlags(input) ==
    LET b    == input[1]
        size == NeedSize(MoreBit(b), CommandBit(b), LongBit(b), <<>>)
    IN  IF BadFlags(b) THEN DecodeError("ReservedFlagBits")
        ELSE IF Len(input) = 1 THEN Pending(size, 1)
        ELSE FeedSize(size, input, 1)

\* FrameDecoder::feed.  The end of the input is tested before the state, so
\* that an empty input is Ok even for a poisoned decoder.
Feed(d, input) ==
    CASE input = <<>>                          -> Pending(d, 0)
      [] input # <<>> /\ d.st = "Poisoned"  -> DecodeError("ReservedFlagBits")
      [] input # <<>> /\ d.st = "NeedFlags" -> FeedFlags(input)
      [] input # <<>> /\ d.st = "NeedSize"  -> FeedSize(d, input, 0)
      [] input # <<>> /\ d.st = "NeedBody"  -> FeedBody(d, input, 0)
=============================================================================
