----------------------------- MODULE Connection -----------------------------
(***************************************************************************)
(* The sans-IO PUB connection of connection.rs: Handshake with the table   *)
(* of subscriptions, the READY of a subscriber, the commands of an         *)
(* established connection, and publishing by prefix.                       *)
(***************************************************************************)
EXTENDS SubTable, Handshake

\* Connection::new and Connection::new_plain.
NewConnection(mechanism) ==
    [state |-> "Greeting",
     our_greeting_sent |-> FALSE,
     peer_greeting_received |-> FALSE,
     peer_version_minor |-> 0,
     our_ready_sent |-> FALSE,
     our_welcome_sent |-> FALSE,
     mechanism |-> mechanism,
     greeting_buf |-> <<>>,
     frame_decoder |-> NewDecoder,
     sub_table |-> <<>>,
     pending_pong |-> <<>>]        \* an Option: empty, or the context

\* publish_headers: Ok with n = 0 is Ok(None), no subscription matches.
PublishHeaders(c, topic) ==
    IF c.state # "Established" THEN Err(c, "WrongState")
    ELSE IF ~Matches(c.sub_table, topic) THEN Ok(c, 0)
    ELSE Ok(c, 1)

\* publish: the headers, then the size of the buffer.
Publish(c, topic, fits) ==
    LET r == PublishHeaders(c, topic)
    IN  IF r.res = "Ok" /\ r.n = 1 /\ ~fits THEN Err(c, "BufferTooSmall") ELSE r

-----------------------------------------------------------------------------
(* Input *)

\* parse_ready_from
ParseReady(f) == f.kind = "READY" /\ f.arg \in {<<"SUB">>, <<"XSUB">>}

\* feed_ready_inner
FeedReadyInner(c, input) ==
    LET t == TakeFrame(c, input)
    IN  IF t.res = "Some" THEN HandleReady(t.conn, t.frame, ParseReady(t.frame), t.n) ELSE t

FeedReady(c, input) ==
    IF ~c.our_ready_sent THEN Err(c, "WrongState") ELSE FeedReadyInner(c, input)

FeedPlainReady(c, input) ==
    IF ~c.our_welcome_sent \/ ~c.our_ready_sent THEN Err(c, "WrongState")
    ELSE FeedReadyInner(c, input)

\* The effect of one frame on an established connection.  The result of
\* subscribe is dropped, and what is not understood is ignored.
ApplyFrame(c, f) ==
    CASE f.kind \in {"SUBSCRIBE", "MSG_SUB"} ->
            [c EXCEPT !.sub_table = Subscribe(@, f.arg)]
      [] f.kind \in {"CANCEL", "MSG_CANCEL"} ->
            [c EXCEPT !.sub_table = Cancel(@, f.arg)]
      [] f.kind = "PING" /\ c.peer_version_minor >= 1 ->
            [c EXCEPT !.pending_pong = <<PingContext(f)>>]
      [] OTHER -> c

\* Mutant: a command is then handled as a message, too.
HandleEstablishedTwice(c, f, n) == Ok(ApplyFrame(ApplyFrame(c, f), f), n)

HandleEstablished(c, f, n) == Ok(ApplyFrame(c, f), n)

FeedEstablished(c, input) ==
    LET t == TakeFrame(c, input)
    IN  IF t.res = "Some" THEN HandleEstablished(t.conn, t.frame, t.n) ELSE t

FeedConn(c, input) ==
    CASE c.state = "Greeting"    -> FeedGreeting(c, input)
      [] c.state = "Ready"       -> FeedReady(c, input)
      [] c.state = "PlainHello"  -> FeedPlainHello(c, input)
      [] c.state = "PlainReady"  -> FeedPlainReady(c, input)
      [] c.state = "Established" -> FeedEstablished(c, input)
      [] c.state = "Failed"      -> Err(c, "WrongState")
=============================================================================
