----------------------------- MODULE Handshake -----------------------------
(***************************************************************************)
(* What the connections of connection.rs and radio_connection.rs have in   *)
(* common: the greeting, PLAIN, the decoder, the output methods.  The two  *)
(* files hold the same text for these; it is stated once, as pure          *)
(* operators from the connection and the arguments to the new connection   *)
(* and the result.                                                         *)
(*                                                                         *)
(* The bytes of the peer are abstracted to units, the pieces the code      *)
(* tells apart.  The 64 bytes of a greeting are three units, of which the  *)
(* first two are the 11 bytes that are checked early; a frame is two, so   *)
(* that it may be cut.  A unit is [what, of, i]: the i-th unit of the      *)
(* greeting or frame of.  Two units for a frame are enough because the     *)
(* decoder's state after a part of a frame depends on that part alone      *)
(* (FrameDecoderProofs, ChunkingCorrect).                                  *)
(***************************************************************************)
EXTENDS Integers, Sequences

CONSTANTS
    CTX_CAP,        \* bytes of a PING context that are kept: 16 in the code
    Accepted        \* the credentials the authenticator accepts

GREETING_LEN == 3
GREETING_PARTIAL_LEN == 2
FRAME_LEN == 2

\* A peer's greeting: signature and major version valid or not, mechanism,
\* as_server, minor version.
Greeting(sig, mech, server, minor) ==
    [sig |-> sig, mech |-> mech, server |-> server, minor |-> minor]

\* A frame: a command named kind, or for kinds MSG_* a message.  The decoder
\* refuses BAD for its flags and OVERSIZE for its size; BIG_READY is a READY of
\* more than 255 bytes.
Frame(kind, arg) == [kind |-> kind, arg |-> arg]

GreetingUnits(g) == [i \in 1 .. GREETING_LEN |-> [what |-> "greeting", of |-> g, i |-> i]]
FrameUnits(f)    == [i \in 1 .. FRAME_LEN |-> [what |-> "frame", of |-> f, i |-> i]]

SmallerOf(a, b) == IF a <= b THEN a ELSE b

-----------------------------------------------------------------------------
(* The frame decoder, on units: Feed of Frame, as FeedOutcome states it.    *)

NewDecoder == [poisoned |-> FALSE, got |-> <<>>]

\* The units cannot be the beginning of a valid frame.  A unit out of place is
\* refused: one comes up only after an error that the caller has ignored.
Refused(units) ==
    \/ units[1].what # "frame" \/ units[1].i # 1
    \/ units[1].of.kind = "BAD"
    \/ units[1].of.kind = "OVERSIZE" /\ Len(units) >= FRAME_LEN

\* Mutant: what is kept of an incomplete frame is not reported as consumed.
DecoderFeedKeeps(dec, input) ==
    LET bytes == dec.got \o input
        Result(d, res, n) == [dec |-> d, res |-> res, consumed |-> n]
    IN  IF input = <<>> THEN Result(dec, "None", 0)
        ELSE IF dec.poisoned \/ Refused(bytes)
        THEN Result([poisoned |-> TRUE, got |-> <<>>], "Err", 0)
        ELSE IF Len(bytes) < FRAME_LEN THEN Result(dec, "None", 0)
        ELSE Result(NewDecoder, "Some", FRAME_LEN - Len(dec.got))

DecoderFeed(dec, input) ==
    LET bytes == dec.got \o input
        Result(d, res, n) == [dec |-> d, res |-> res, consumed |-> n]
    IN  IF input = <<>> THEN Result(dec, "None", 0)
        ELSE IF dec.poisoned \/ Refused(bytes)
        THEN Result([poisoned |-> TRUE, got |-> <<>>], "Err", 0)
        ELSE IF Len(bytes) < FRAME_LEN
        THEN Result([poisoned |-> FALSE, got |-> bytes], "None", Len(input))
        ELSE Result(NewDecoder, "Some", FRAME_LEN - Len(dec.got))

\* The frame that DecoderFeed completes.
DecodedFrame(dec, input) == (dec.got \o input)[1].of

-----------------------------------------------------------------------------
(* The connection, without its table *)

States == {"Greeting", "Ready", "PlainHello", "PlainReady", "Established", "Failed"}

\* The result of a method: the connection, "Ok" or the error, and the number
\* of units consumed or written.
Ok(c, n)  == [conn |-> c, res |-> "Ok", n |-> n]
Err(c, e) == [conn |-> c, res |-> e, n |-> 0]

-----------------------------------------------------------------------------
(* Output.  fits says whether the caller's buffer is large enough. *)

WriteGreeting(c, fits) ==
    IF c.state # "Greeting" \/ c.our_greeting_sent THEN Err(c, "WrongState")
    ELSE IF ~fits THEN Err(c, "BufferTooSmall")
    ELSE Ok([c EXCEPT !.our_greeting_sent = TRUE], 1)

MayWriteReady(c) ==
    IF c.mechanism = "Null" THEN c.state = "Ready"
    ELSE c.state = "Ready" \/ (c.state = "PlainReady" /\ c.our_welcome_sent)

WriteReady(c, fits) ==
    IF ~MayWriteReady(c) \/ c.our_ready_sent THEN Err(c, "WrongState")
    ELSE IF ~fits THEN Err(c, "BufferTooSmall")
    ELSE Ok([c EXCEPT !.our_ready_sent = TRUE], 1)

\* Mutant: the state is not looked at.
WriteWelcomeAnytime(c, fits) ==
    IF c.our_welcome_sent THEN Err(c, "WrongState")
    ELSE IF ~fits THEN Err(c, "PlainError")
    ELSE Ok([c EXCEPT !.our_welcome_sent = TRUE], 1)

WriteWelcome(c, fits) ==
    IF c.state # "PlainReady" \/ c.our_welcome_sent THEN Err(c, "WrongState")
    ELSE IF ~fits THEN Err(c, "PlainError")
    ELSE Ok([c EXCEPT !.our_welcome_sent = TRUE], 1)

\* No guard on the state, and no change of it.
WriteError(c, fits) == IF fits THEN Ok(c, 1) ELSE Err(c, "NullError")

\* Mutant: the PONG stays pending.
WritePongKeeps(c, fits) ==
    IF c.pending_pong = <<>> THEN Ok(c, 0)
    ELSE IF ~fits THEN Err(c, "BufferTooSmall")
    ELSE Ok(c, 1)

\* Ok with n = 0 is Ok(None).
WritePong(c, fits) ==
    IF c.pending_pong = <<>> THEN Ok(c, 0)
    ELSE IF ~fits THEN Err(c, "BufferTooSmall")
    ELSE Ok([c EXCEPT !.pending_pong = <<>>], 1)

-----------------------------------------------------------------------------
(* Input *)

IsGreetingUnit(u, i) == u.what = "greeting" /\ u.i = i

\* parse_partial_greeting
ParsePartialGreeting(buf) ==
    \A i \in 1 .. GREETING_PARTIAL_LEN : IsGreetingUnit(buf[i], i) /\ buf[i].of.sig

\* Mutant: the part that was checked early is not checked again.
ParseGreetingRest(mechanism, buf) ==
    /\ IsGreetingUnit(buf[3], 3)
    /\ buf[3].of.mech = mechanism
    /\ ~buf[3].of.server

\* parse_greeting and parse_plain_greeting check the first part once more.
ParseGreeting(mechanism, buf) ==
    /\ ParsePartialGreeting(buf)
    /\ IsGreetingUnit(buf[3], 3)
    /\ buf[3].of.mech = mechanism
    /\ ~buf[3].of.server

\* feed_greeting.  An error leaves the state Greeting and the bytes in the
\* buffer; a complete buffer is parsed again by every later call.
FeedGreeting(c, input) ==
    LET n    == SmallerOf(Len(input), GREETING_LEN - Len(c.greeting_buf))
        buf  == c.greeting_buf \o SubSeq(input, 1, n)
        c1   == [c EXCEPT !.greeting_buf = buf]
        next == IF c.mechanism = "Null" THEN "Ready" ELSE "PlainHello"
    IN  IF /\ Len(c.greeting_buf) < GREETING_PARTIAL_LEN
           /\ Len(buf) >= GREETING_PARTIAL_LEN
           /\ ~ParsePartialGreeting(buf)
        THEN Err(c1, "GreetingError")
        ELSE IF Len(buf) < GREETING_LEN THEN Ok(c1, n)
        ELSE IF ~ParseGreeting(c.mechanism, buf) THEN Err(c1, "GreetingError")
        ELSE Ok([c1 EXCEPT !.peer_version_minor = buf[3].of.minor,
                           !.peer_greeting_received = TRUE,
                           !.state = IF c.our_greeting_sent THEN next ELSE @], n)

\* The frame handlers begin with the decoder: a decode error changes nothing
\* else, an incomplete frame is waited for, and a frame goes on to Handle*.
TakeFrame(c, input) ==
    LET r  == DecoderFeed(c.frame_decoder, input)
        c1 == [c EXCEPT !.frame_decoder = r.dec]
    IN  IF r.res = "Err" THEN Err(c1, "DecodeError")
        ELSE IF r.res = "None" THEN Ok(c1, r.consumed)
        ELSE [conn |-> c1, res |-> "Some", n |-> r.consumed,
              frame |-> DecodedFrame(c.frame_decoder, input)]

\* feed_ready_inner on a frame, given whether the parser takes it for a READY
\* of the right peer: that establishes the connection, everything else, such as
\* a READY of more than 255 bytes, ends it.
HandleReady(c, f, valid, n) ==
    IF f.kind # "BIG_READY" /\ valid THEN Ok([c EXCEPT !.state = "Established"], n)
    ELSE Err([c EXCEPT !.state = "Failed"], "NullError")

\* parse_hello_from and AuthCheck::check.
HandleHello(c, f, n) ==
    IF f.kind = "HELLO" /\ f.arg \in Accepted THEN Ok([c EXCEPT !.state = "PlainReady"], n)
    ELSE Err([c EXCEPT !.state = "Failed"], "PlainError")

FeedPlainHello(c, input) ==
    LET t == TakeFrame(c, input)
    IN  IF t.res = "Some" THEN HandleHello(t.conn, t.frame, t.n) ELSE t

PingContext(f) == SubSeq(f.arg, 1, SmallerOf(Len(f.arg), CTX_CAP))
=============================================================================
