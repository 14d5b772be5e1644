--------------------------- MODULE ConnectionSpec ---------------------------
(***************************************************************************)
(* A PUB connection in the hands of any caller.                            *)
(***************************************************************************)
EXTENDS Connection, Caller

CONSTANT
    Topics          \* topics that are published

Init == \E s \in Streams : InitWith(NewConnection(s.mechanism), s.units)

DoWriteGreeting(fits) == Output(WriteGreeting(conn, fits), "GREETING", <<>>)
DoWriteReady(fits)    == Output(WriteReady(conn, fits), "READY", <<>>)
DoWriteWelcome(fits)  == Output(WriteWelcome(conn, fits), "WELCOME", <<>>)
DoWriteError(fits)    == MaySayMore /\ Output(WriteError(conn, fits), "ERROR", <<>>)
DoWritePong(fits)     == MaySayMore /\ Output(WritePong(conn, fits), "PONG", conn.pending_pong)
DoPublish(topic, fits) == MaySayMore /\ Output(Publish(conn, topic, fits), "MESSAGE", topic)

DoFeed(n) == Feeds(n, FeedConn(conn, Input(n)))

Next ==
    \/ \E fits \in BOOLEAN :
          \/ DoWriteGreeting(fits)
          \/ DoWriteReady(fits)
          \/ DoWriteWelcome(fits)
          \/ DoWriteError(fits)
          \/ DoWritePong(fits)
          \/ \E t \in Topics : DoPublish(t, fits)
    \/ \E n \in 0 .. Len(wire) - pos : DoFeed(n)

Spec == Init /\ [][Next]_vars

-----------------------------------------------------------------------------
\* A PUB connection is established only by a valid greeting for its mechanism,
\* accepted credentials with PLAIN, and a READY of a SUB or XSUB socket, in
\* this order.
EstablishedMeansValid == EstablishedBy({<<"SUB">>, <<"XSUB">>})

\* The table that frames make of an empty one.
TableAfter(frames) ==
    LET after[n \in Nat] ==
            IF n = 0 THEN <<>>
            ELSE CASE frames[n].kind \in {"SUBSCRIBE", "MSG_SUB"} ->
                        Subscribe(after[n - 1], frames[n].arg)
                   [] frames[n].kind \in {"CANCEL", "MSG_CANCEL"} ->
                        Cancel(after[n - 1], frames[n].arg)
                   [] OTHER -> after[n - 1]
    IN  after[Len(frames)]

\* Every frame after the handshake was applied once and in order: the table
\* is what those frames make of an empty one.
TableFollowsFrames == conn.sub_table = TableAfter(Traffic)
=============================================================================
