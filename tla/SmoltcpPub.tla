----------------------------- MODULE SmoltcpPub -----------------------------
(***************************************************************************)
(* A PUB connection over a smoltcp socket: the adapter of io/smoltcp.rs    *)
(* and the loop of examples/smoltcp_pub.rs that is to show its use.        *)
(* Neither read nor write waits: the program has to call Interface::poll   *)
(* for anything to move, and the loop does so once in a round.  Between    *)
(* two polls nothing else touches the socket, so that a round is one step. *)
(* The socket's buffers hold units of the peer and parts of our output.    *)
(***************************************************************************)
EXTENDS Connection, PeerTraffic

CONSTANTS
    RX_CAP,         \* units rx_buf holds: 512 bytes in the code
    RX_RING,        \* units the socket's receive buffer holds: 2048 bytes
    TX_RING,        \* parts the socket's transmit buffer holds: 2048 bytes
    Streams,        \* what the peer may send
    Valid           \* the units of those peers that keep to the protocol

ASSUME SmoltcpAssumption ==
    /\ {RX_CAP, RX_RING, TX_RING} \subseteq Nat \ {0}
    /\ \A s \in Streams : s.units \in Seq(UnitsOf(Streams))

VARIABLES
    app,        \* the variables of main, and the socket: see NewApp
    pc,         \* what main does next: "poll" the interface, or a "round"
    wire,       \* the units the peer sends in all
    psent,      \* how many of them it has sent
    net,        \* units sent and not yet in the socket
    out         \* what the peer has received: see Sees

vars == <<app, pc, wire, psent, net, out>>

\* Main before its loop.  The socket is connecting.  ended: main has returned
\* an "error" or met a "panic".  fed is a ghost: the units feed consumed.
NewApp ==
    [conn |-> NewConnection("Null"),
     greeting_buf |-> FALSE,        \* an Option: whether it is Some
     greeting_done |-> FALSE,
     rx |-> <<>>,                   \* rx_buf[..rx_len]
     sock |-> [state |-> "connecting", rx |-> <<>>, tx |-> <<>>],
     res |-> "Ok",                  \* of the last write_all
     ended |-> "no",
     fed |-> <<>>]

Part(what, arg) == [what |-> what, arg |-> arg]

\* What each of the four writes of a message writes.
MessagePart(i) == Part("MESSAGE", <<i>>)

Init ==
    /\ app = NewApp
    /\ pc = "poll"
    /\ wire \in {s.units : s \in Streams}
    /\ psent = 0 /\ net = <<>>
    /\ out = [items |-> <<>>, part |-> 0]

-----------------------------------------------------------------------------
(* The adapter *)

\* Mutant: write_all gives up on a full buffer, as if it were an error.
WriteAllGivesUp(a, part) ==
    IF a.ended # "no" THEN a
    ELSE IF a.sock.state # "open" \/ Len(a.sock.tx) = TX_RING THEN [a EXCEPT !.res = "Err"]
    ELSE [a EXCEPT !.res = "Ok", !.sock.tx = Append(@, part)]

\* write_all over TcpAdapter::write: an error while the socket cannot send.
\* With a full buffer send_slice and write return Ok(0), at which write_all of
\* embedded_io panics.
WriteAll(a, part) ==
    IF a.ended # "no" THEN a
    ELSE IF a.sock.state # "open" THEN [a EXCEPT !.res = "Err"]
    ELSE IF Len(a.sock.tx) = TX_RING THEN [a EXCEPT !.ended = "panic"]
    ELSE [a EXCEPT !.res = "Ok", !.sock.tx = Append(@, part)]

\* TcpAdapter::read into the rest of rx_buf.  Ok(0) and the errors, before the
\* connection and after it, leave everything as it is.
ReadSome(a) ==
    LET n == SmallerOf(Len(a.sock.rx), RX_CAP - Len(a.rx))
    IN  [a EXCEPT !.rx = @ \o SubSeq(a.sock.rx, 1, n),
                  !.sock.rx = SubSeq(@, n + 1, Len(@))]

-----------------------------------------------------------------------------
(* A round of the loop *)

\* Mutant: the greeting is encoded again for every attempt to write it.
SendGreetingAgain(a) ==
    LET r == WriteGreeting(a.conn, TRUE)
        b == WriteAll([a EXCEPT !.conn = r.conn], Part("GREETING", <<>>))
    IN  IF a.greeting_done THEN a
        ELSE IF r.res # "Ok" THEN [a EXCEPT !.ended = "error"]
        ELSE [b EXCEPT !.greeting_done = (b.res = "Ok")]

\* The greeting, encoded once and written when the socket takes it.
SendGreeting(a) ==
    LET r == WriteGreeting(a.conn, TRUE)
        b == IF a.greeting_buf THEN a
             ELSE IF r.res # "Ok" THEN [a EXCEPT !.ended = "error"]
             ELSE [a EXCEPT !.conn = r.conn, !.greeting_buf = TRUE]
        w == WriteAll(b, Part("GREETING", <<>>))
    IN  IF a.greeting_done THEN a
        ELSE [w EXCEPT !.greeting_done = (w.ended = "no" /\ w.res = "Ok")]

\* One call of feed.  What it does not consume stays in rx_buf, but if it
\* consumes nothing, for an error or otherwise, everything is thrown away.
FeedRx(a) ==
    LET r == FeedConn(a.conn, a.rx)
    IN  [a EXCEPT !.conn = r.conn,
                  !.rx = IF r.n > 0 THEN SubSeq(@, r.n + 1, Len(@)) ELSE <<>>,
                  !.fed = @ \o SubSeq(a.rx, 1, r.n)]

\* Mutant: what feed leaves is forgotten.
FeedOnceForgets(a) == IF a.rx = <<>> THEN a ELSE [FeedRx(a) EXCEPT !.rx = <<>>]

\* Mutant: all of rx_buf is fed before anything is answered.
FeedOnceAll(a) ==
    LET b == FeedRx(a)
    IN  IF a.rx = <<>> THEN a ELSE IF b.rx = <<>> THEN b ELSE FeedRx(b)

FeedOnce(a) == IF a.rx = <<>> THEN a ELSE FeedRx(a)

SendReady(a) ==
    LET r == WriteReady(a.conn, TRUE)
    IN  IF a.conn.state # "Ready" \/ r.res # "Ok" THEN a
        ELSE WriteAll([a EXCEPT !.conn = r.conn], Part("READY", <<>>))

SendPong(a) ==
    LET r == WritePong(a.conn, TRUE)
    IN  IF r.n = 0 THEN a
        ELSE WriteAll([a EXCEPT !.conn = r.conn], Part("PONG", a.conn.pending_pong))

\* publish_headers for "hello", and the four writes, whose results are dropped.
PublishHello(a) ==
    LET r == PublishHeaders(a.conn, <<"hello">>)
        Write(b, i) == WriteAll(b, MessagePart(i))
    IN  IF r.res = "Ok" /\ r.n = 1 THEN Write(Write(Write(Write(a, 1), 2), 3), 4) ELSE a

\* b is what a becomes unless main has ended.
Unless(a, b) == IF a.ended = "no" THEN b ELSE a

\* The steps of a round, one after the other.
Round ==
    /\ pc = "round" /\ app.ended = "no"
    /\ \E a1 \in {SendGreeting(app)} :
       \E a2 \in {Unless(a1, ReadSome(a1))} :
       \E a3 \in {Unless(a2, FeedOnce(a2))} :
       \E a4 \in {Unless(a3, SendReady(a3))} :
       \E a5 \in {Unless(a4, SendPong(a4))} :
          app' = Unless(a5, PublishHello(a5))
    /\ pc' = "poll"
    /\ UNCHANGED <<wire, psent, net, out>>

-----------------------------------------------------------------------------
(* Interface::poll, the network and the peer *)

\* What the peer sees of a part: a message is complete with its fourth part,
\* and CUT stands for one that anything else interrupts.
Sees(seen, p) ==
    IF p.what = "MESSAGE" /\ p.arg = <<seen.part + 1>>
    THEN [seen EXCEPT !.part = (@ + 1) % 4]
    ELSE IF p.what = "MESSAGE" \/ seen.part # 0
    THEN [seen EXCEPT !.items = Append(@, Part("CUT", <<>>))]
    ELSE [seen EXCEPT !.items = Append(@, p)]

\* poll sends a part; it may go on with others before it does what follows.
Sends ==
    /\ pc = "poll" /\ app.ended = "no"
    /\ app.sock.state = "open" /\ app.sock.tx # <<>>
    /\ app' = [app EXCEPT !.sock.tx = Tail(@)]
    /\ out' = Sees(out, Head(app.sock.tx))
    /\ UNCHANGED <<pc, wire, psent, net>>

\* poll takes n units from the network.
Receives(n) ==
    /\ pc = "poll" /\ app.ended = "no" /\ app.sock.state = "open"
    /\ n <= SmallerOf(Len(net), RX_RING - Len(app.sock.rx))
    /\ app' = [app EXCEPT !.sock.rx = @ \o SubSeq(net, 1, n)]
    /\ net' = SubSeq(net, n + 1, Len(net))
    /\ pc' = "round"
    /\ UNCHANGED <<wire, psent, out>>

\* poll receives nothing: it connects, or waits for that, or finds the
\* connection refused, reset or gone.  What has been received can still be read.
Becomes(state) ==
    /\ pc = "poll" /\ app.ended = "no"
    /\ \/ app.sock.state = "connecting" /\ state \in {"connecting", "open"}
       \/ state = "closed"
    /\ app' = [app EXCEPT !.sock.state = state,
                          !.sock.tx = IF state = "closed" THEN <<>> ELSE @]
    /\ pc' = "round"
    /\ UNCHANGED <<wire, psent, net, out>>

\* The peer sends a unit, ahead of our handshake or not.
PeerSend ==
    /\ psent < Len(wire) /\ app.sock.state = "open"
    /\ psent' = psent + 1
    /\ net' = Append(net, wire[psent + 1])
    /\ UNCHANGED <<app, pc, wire, out>>

-----------------------------------------------------------------------------
Next ==
    \/ PeerSend
    \/ Sends
    \/ \E n \in 0 .. Len(net) : Receives(n)
    \/ \E state \in {"connecting", "open", "closed"} : Becomes(state)
    \/ Round

Spec == Init /\ [][Next]_vars

\* The peer is bound to send only what does not have to wait for us: its
\* greeting for ours, the rest for our READY.
PeerMustSend ==
    /\ Len(HandshakeIn(out.items)) >= IF psent < GREETING_LEN THEN 1 ELSE 2
    /\ PeerSend

\* The peer goes on when it must, main loops, and the network is not idle for
\* ever: again and again it connects, delivers what the peer sent, and takes
\* something there is to send.
FairSpec ==
    /\ Spec
    /\ WF_vars(PeerMustSend) /\ WF_vars(Round)
    /\ WF_vars(\E n \in 0 .. Len(net) : Receives(n))
    /\ SF_vars(Becomes("open"))
    /\ SF_vars(\E n \in 1 .. Len(net) : Receives(n))
    /\ SF_vars(Sends)

-----------------------------------------------------------------------------
\* The connection c has refused the peer: it is failed, its decoder is poisoned,
\* or the greeting it holds is not valid.
RefusesPeer(c) ==
    \/ c.state = "Failed"
    \/ c.frame_decoder.poisoned
    \/ /\ c.state = "Greeting" /\ Len(c.greeting_buf) >= GREETING_PARTIAL_LEN
       /\ \/ ~ParsePartialGreeting(c.greeting_buf)
          \/ Len(c.greeting_buf) = GREETING_LEN /\ ~ParseGreeting("Null", c.greeting_buf)

\* The loop throws away what feed does not consume; but unless the connection
\* has refused the peer, no unit is lost on its way through the network, the
\* socket and rx_buf, whatever comes in one read.
NothingLost ==
    \/ RefusesPeer(app.conn)
    \/ app.fed \o app.rx \o app.sock.rx \o net = SubSeq(wire, 1, psent)

\* Every PING gets its PONG in the round that reads it, in order, although the
\* connection remembers one at a time.
PongPerPing ==
    app.sock.state = "open" /\ app.ended = "no" =>
        PongsIn(out.items \o app.sock.tx) =
            IF app.conn.peer_version_minor >= 1 THEN PingsIn(TrafficIn("Null", app.fed)) ELSE <<>>

\* Whatever the transmit buffer holds back, the peer receives one greeting, one
\* READY, then PONGs and whole messages.
OutputWellFormed ==
    LET n == Len(HandshakeIn(out.items))
    IN  /\ IsPrefix(HandshakeIn(out.items), FullHandshake("Null"))
        /\ out.part # 0 => n = Len(FullHandshake("Null"))
        /\ \A i \in DOMAIN out.items : i > n => out.items[i].what = "PONG"

\* With a peer that keeps to the protocol, the loop gets through the handshake
\* and processes everything the peer sends, however often the network delivers
\* nothing and whatever it holds back; only the end of the TCP connection or
\* a transmit buffer that is full before it is drained can prevent it.
GetsThrough ==
    \/ <>(app.sock.state = "closed" \/ app.ended = "panic")
    \/ <>[](wire \in Valid => app.conn.state = "Established" /\ app.fed = wire)
=============================================================================
