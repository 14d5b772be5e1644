-------------------------- MODULE RadioConnection --------------------------
(***************************************************************************)
(* The sans-IO RADIO connection of radio_connection.rs.  Everything up to  *)
(* the READY of the peer is that of the PUB connection, word for word;     *)
(* then come the READY of a DISH, the commands JOIN, LEAVE and PING, and   *)
(* publishing by exact group.                                              *)
(***************************************************************************)
EXTENDS Integers, Sequences

CONSTANTS
    GROUP_CAP, NAME_CAP,    \* capacities of the group table
    CTX_CAP, Accepted       \* as in Handshake

H == INSTANCE Handshake
G == INSTANCE GroupTable

\* RadioConnection::new and RadioConnection::new_plain.
NewRadioConnection(mechanism) ==
    [state |-> "Greeting",
     our_greeting_sent |-> FALSE,
     peer_greeting_received |-> FALSE,
     peer_version_minor |-> 0,
     our_ready_sent |-> FALSE,
     our_welcome_sent |-> FALSE,
     mechanism |-> mechanism,
     greeting_buf |-> <<>>,
     frame_decoder |-> H!NewDecoder,
     group_table |-> <<>>,
     pending_pong |-> <<>>]

-----------------------------------------------------------------------------
(* Output *)

WriteGreeting(c, fits) == H!WriteGreeting(c, fits)

\* Mutant: READY may be encoded any number of times.
WriteReadyAgain(c, fits) ==
    IF ~H!MayWriteReady(c) THEN H!Err(c, "WrongState")
    ELSE IF ~fits THEN H!Err(c, "BufferTooSmall")
    ELSE H!Ok([c EXCEPT !.our_ready_sent = TRUE], 1)

WriteReady(c, fits)   == H!WriteReady(c, fits)
WriteWelcome(c, fits) == H!WriteWelcome(c, fits)
WriteError(c, fits)   == H!WriteError(c, fits)
WritePong(c, fits)    == H!WritePong(c, fits)

\* publish_headers: Ok with n = 0 is Ok(None), the peer is not in the group.
PublishHeaders(c, group) ==
    IF c.state # "Established" THEN H!Err(c, "WrongState")
    ELSE IF ~G!MatchesGroup(c.group_table, group) THEN H!Ok(c, 0)
    ELSE H!Ok(c, 1)

\* publish: the headers, then the size of the buffer.
Publish(c, group, fits) ==
    LET r == PublishHeaders(c, group)
    IN  IF r.res = "Ok" /\ r.n = 1 /\ ~fits THEN H!Err(c, "BufferTooSmall") ELSE r

-----------------------------------------------------------------------------
(* Input *)

FeedGreeting(c, input) == H!FeedGreeting(c, input)

\* Mutant: the parser of the PUB connection.
ParseReadyPub(f) == f.kind = "READY" /\ f.arg \in {<<"SUB">>, <<"XSUB">>, <<"DISH">>}

\* parse_ready_radio_from
ParseReady(f) == f.kind = "READY" /\ f.arg = <<"DISH">>

FeedReadyInner(c, input) ==
    LET t == H!TakeFrame(c, input)
    IN  IF t.res = "Some" THEN H!HandleReady(t.conn, t.frame, ParseReady(t.frame), t.n) ELSE t

FeedReady(c, input) ==
    IF ~c.our_ready_sent THEN H!Err(c, "WrongState") ELSE FeedReadyInner(c, input)

FeedPlainHello(c, input) == H!FeedPlainHello(c, input)

FeedPlainReady(c, input) ==
    IF ~c.our_welcome_sent \/ ~c.our_ready_sent THEN H!Err(c, "WrongState")
    ELSE FeedReadyInner(c, input)

\* Mutant: PING is answered whatever the version of the peer.
ApplyFrameAnyVersion(c, f) ==
    CASE f.kind = "JOIN"  -> [c EXCEPT !.group_table = G!Join(@, f.arg)]
      [] f.kind = "LEAVE" -> [c EXCEPT !.group_table = G!Leave(@, f.arg)]
      [] f.kind = "PING"  -> [c EXCEPT !.pending_pong = <<H!PingContext(f)>>]
      [] OTHER -> c

\* The effect of one frame on an established connection.  The result of join
\* is dropped; messages, subscriptions of ZMTP 3.0 among them, are ignored.
ApplyFrame(c, f) ==
    CASE f.kind = "JOIN"  -> [c EXCEPT !.group_table = G!Join(@, f.arg)]
      [] f.kind = "LEAVE" -> [c EXCEPT !.group_table = G!Leave(@, f.arg)]
      [] f.kind = "PING" /\ c.peer_version_minor >= 1 ->
            [c EXCEPT !.pending_pong = <<H!PingContext(f)>>]
      [] OTHER -> c

FeedEstablished(c, input) ==
    LET t == H!TakeFrame(c, input)
    IN  IF t.res = "Some" THEN H!Ok(ApplyFrame(t.conn, t.frame), t.n) ELSE t

FeedConn(c, input) ==
    CASE c.state = "Greeting"    -> FeedGreeting(c, input)
      [] c.state = "Ready"       -> FeedReady(c, input)
      [] c.state = "PlainHello"  -> FeedPlainHello(c, input)
      [] c.state = "PlainReady"  -> FeedPlainReady(c, input)
      [] c.state = "Established" -> FeedEstablished(c, input)
      [] c.state = "Failed"      -> H!Err(c, "WrongState")
=============================================================================
