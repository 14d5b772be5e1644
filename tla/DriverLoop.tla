----------------------------- MODULE DriverLoop -----------------------------
(***************************************************************************)
(* What the drivers of io/sync.rs have in common: a connection, its        *)
(* receive buffer and the transport, with the peer at the other end and    *)
(* the caller that polls and publishes.  The connection is given by the    *)
(* results of its methods.  A driver is used through &mut self, so that    *)
(* only the peer and the transport move between its steps: one pass of the *)
(* loop of drain_buffer, with the writes it makes, is one step.            *)
(***************************************************************************)
EXTENDS PeerTraffic

CONSTANTS
    RX_CAP,         \* units the receive buffer holds: 512 bytes in the code
    READS_FAIL,     \* whether a read may fail although something has arrived
    WRITES_FAIL,    \* whether a write of the transport may fail
    Retries,        \* kinds of errors after which the caller polls again
    Streams,        \* [mechanism, units]: what the peer may send to whom
    Valid,          \* the units of those peers that keep to the protocol
    MaxOut,         \* bound: no message is published after so many items
    MaxWork         \* bound: the caller gives up after so many items and units

ASSUME DriverAssumption ==
    /\ RX_CAP \in Nat \ {0}
    /\ {READS_FAIL, WRITES_FAIL} \subseteq BOOLEAN
    /\ Retries \subseteq {"read", "write", "protocol"}

VARIABLES
    conn,       \* the connection
    rx,         \* rx_buf[..rx_len]
    tc,         \* total_consumed of drain_buffer
    pc,         \* where the driver is: see Places
    wire,       \* the units the peer sends in all
    psent,      \* how many of them it has sent
    net,        \* units sent and not yet read
    out,        \* the items written to the transport, as [what, arg]
    fed         \* ghost: the units that feed consumed

loopVars == <<conn, rx, tc, pc, wire, psent, net, out, fed>>

\* Before the constructor; with the caller; in the first and in the second
\* drain_buffer of poll; at the read between them; dropped by the caller, after
\* an error of the transport or after one about the peer.
Places == {"new", "idle", "drain1", "drain2", "read", "closed", "refused"}
Draining == pc \in {"drain1", "drain2"}

Item(what, arg) == [what |-> what, arg |-> arg]
Cut == Item("CUT", <<>>)        \* a part of an item whose write failed

InitWith(c, units) ==
    /\ conn = c
    /\ wire = units
    /\ psent = 0 /\ net = <<>>
    /\ rx = <<>> /\ tc = 0 /\ pc = "new"
    /\ out = <<>> /\ fed = <<>>

-----------------------------------------------------------------------------
(* The peer and the transport *)

\* The peer sends a unit, ahead of our handshake or not.
PeerSend ==
    /\ psent < Len(wire)
    /\ psent' = psent + 1
    /\ net' = Append(net, wire[psent + 1])
    /\ UNCHANGED <<conn, rx, tc, pc, wire, out, fed>>

\* How many items of our handshake a peer may wait for before its next unit:
\* our greeting before its own and before HELLO, everything before READY.
Awaited ==
    IF psent < GREETING_LEN + FRAME_LEN * (HandshakeFrames(conn.mechanism) - 1)
    THEN 1 ELSE Len(FullHandshake(conn.mechanism))

\* The peer, which has received items, has nothing to wait for.
MayNotWait(items) == Len(HandshakeIn(items)) >= Awaited

\* A write fails when part of it, possibly nothing, has gone out.
Failing(items) == {SubSeq(items, 1, k) \o c : k \in 0 .. Len(items) - 1, c \in {<<>>, <<Cut>>}}

\* The driver returns an error: the caller polls again or drops it.  work is
\* what it had done so far.
ReturnAfter(kind, work) ==
    pc' = IF kind \in Retries /\ work < MaxWork THEN "idle"
          ELSE IF kind = "protocol" THEN "refused" ELSE "closed"

Return(kind) == ReturnAfter(kind, Len(out) + Len(fed))

-----------------------------------------------------------------------------
(* The constructors.  After an error there is no driver. *)

Construct ==
    LET r == WriteGreeting(conn, TRUE)
    IN  /\ pc = "new"
        /\ \/ pc' = "idle" /\ conn' = r.conn /\ out' = <<Item("GREETING", <<>>)>>
           \/ /\ WRITES_FAIL
              /\ pc' = "closed" /\ conn' = r.conn
              /\ out' \in Failing(<<Item("GREETING", <<>>)>>)
        /\ UNCHANGED <<rx, tc, wire, psent, net, fed>>

\* The encoders drain_buffer calls; their buffers have room.
Encode(c, what) ==
    CASE what = "READY"   -> WriteReady(c, TRUE)
      [] what = "WELCOME" -> WriteWelcome(c, TRUE)
      [] what = "PONG"    -> WritePong(c, TRUE)

\* Encode and write one item after another, up to the first error.
Answer(acc, what) ==
    LET r == Encode(acc.conn, what)
        arg == IF what = "PONG" THEN acc.conn.pending_pong ELSE <<>>
    IN  IF acc.res # "Ok" THEN acc
        ELSE [conn  |-> r.conn,
              res   |-> r.res,
              items |-> IF r.n = 1 THEN Append(acc.items, Item(what, arg)) ELSE acc.items]

\* The answers whats, of which drain_buffer has two at most.
Answers(c, whats) ==
    LET none  == [conn |-> c, res |-> "Ok", items |-> <<>>]
        first == Answer(none, whats[1])
    IN  CASE Len(whats) = 0 -> none
          [] Len(whats) = 1 -> first
          [] Len(whats) = 2 -> Answer(first, whats[2])

-----------------------------------------------------------------------------
(* poll *)

\* The READY that poll writes first when it has not been written yet.
OwesReady == conn.state = "Ready" /\ WriteReady(conn, TRUE).res = "Ok"

\* Mutant: what is left in the buffer waits until more has been read.
BeginPollReads ==
    /\ pc = "idle" /\ pc' = "read" /\ tc' = 0
    /\ UNCHANGED <<conn, rx, wire, psent, net, out, fed>>

\* The beginning of poll, up to drain_buffer or read.
BeginPoll ==
    /\ pc = "idle"
    /\ IF OwesReady
       THEN /\ conn' = WriteReady(conn, TRUE).conn
            /\ \/ out' = Append(out, Item("READY", <<>>)) /\ pc' = "idle"
               \/ /\ WRITES_FAIL
                  /\ \E o \in Failing(<<Item("READY", <<>>)>>) : out' = out \o o
                  /\ Return("write")
       ELSE /\ pc' = IF rx # <<>> THEN "drain1" ELSE "read"
            /\ UNCHANGED <<conn, out>>
    /\ tc' = 0
    /\ UNCHANGED <<rx, wire, psent, net, fed>>

\* What read may give: nothing when nothing has arrived, or when there is no
\* room left in the buffer.
Readable == SmallerOf(Len(net), RX_CAP - Len(rx))

Receive(n) ==
    /\ pc = "read" /\ n \in 1 .. Readable
    /\ rx' = rx \o SubSeq(net, 1, n)
    /\ net' = SubSeq(net, n + 1, Len(net))
    /\ pc' = "drain2" /\ tc' = 0
    /\ UNCHANGED <<conn, wire, psent, out, fed>>

\* A timeout, WouldBlock or the end of the stream, all of them errors of poll.
ReceiveFails ==
    /\ pc = "read" /\ (Readable = 0 \/ READS_FAIL)
    /\ Return("read")
    /\ UNCHANGED <<conn, rx, tc, wire, psent, net, out, fed>>

\* Mutant: the buffer is emptied, what was not consumed included.
CompactAll(total) == rx' = <<>> /\ tc' = 0

\* The end of drain_buffer: the total units that were consumed leave the buffer.
Compact(total) == rx' = SubSeq(rx, total + 1, Len(rx)) /\ tc' = 0

\* Where poll goes then: it returns, or reads if the first drain achieved nothing.
AfterDrain(total) == IF pc = "drain1" /\ total = 0 THEN "read" ELSE "idle"

\* What drain_buffer offers to feed.
Offered == SubSeq(rx, tc + 1, Len(rx))

\* The loop ends after a change of state that was answered, when feed consumed
\* nothing, and at the end of the buffer.
Breaks(ws, n) == ws # <<"PONG">> \/ n = 0 \/ tc + n = Len(rx)

\* feed returned r, and the answers ws are written.
DrainPass(r, ws) ==
    LET a     == Answers(r.conn, ws)
        total == tc + r.n
    IN  /\ Draining /\ r.res = "Ok"
        /\ conn' = a.conn
        /\ out' = out \o a.items
        /\ fed' = fed \o SubSeq(rx, tc + 1, total)
        /\ IF a.res # "Ok"
           THEN Return("protocol") /\ tc' = 0 /\ UNCHANGED rx
           ELSE IF Breaks(ws, r.n)
           THEN Compact(total) /\ pc' = AfterDrain(total)
           ELSE tc' = total /\ UNCHANGED <<rx, pc>>
        /\ UNCHANGED <<wire, psent, net>>

\* feed returned r, and the k-th of the writes fails: the item is encoded, the
\* connection takes it as sent, and drain_buffer returns without removing
\* what was consumed from the buffer.
DrainPassWriteFails(r, ws) ==
    /\ Draining /\ r.res = "Ok"
    /\ WRITES_FAIL
    /\ \E k \in DOMAIN ws :
          LET a    == Answers(r.conn, SubSeq(ws, 1, k))
              done == Answers(r.conn, SubSeq(ws, 1, k - 1)).items
          IN  /\ a.res = "Ok" /\ Len(a.items) = k
              /\ conn' = a.conn
              /\ \E c \in {<<>>, <<Cut>>} : out' = out \o done \o c
    /\ fed' = fed \o SubSeq(rx, tc + 1, tc + r.n)
    /\ Return("write")
    /\ tc' = 0
    /\ UNCHANGED <<rx, wire, psent, net>>

\* feed returned the error r.  A failed connection says ERROR, as well as it
\* can; the buffer is left as it is.
DrainPassErr(r) ==
    /\ Draining /\ r.res # "Ok"
    /\ conn' = r.conn
    /\ IF r.conn.state = "Failed"
       THEN \E o \in {<<Item("ERROR", <<>>)>>}
                     \cup (IF WRITES_FAIL THEN Failing(<<Item("ERROR", <<>>)>>) ELSE {}) :
               out' = out \o o
       ELSE UNCHANGED out
    /\ Return("protocol")
    /\ tc' = 0
    /\ UNCHANGED <<rx, wire, psent, net, fed>>

-----------------------------------------------------------------------------
(* publish: two headers, the topic and the payload in four writes.  It     *)
(* changes nothing before the connection is established or when nothing    *)
(* matches.                                                                *)

\* Mutant: a write that fails is not reported.
WriteMessageIgnores(r, topic) ==
    /\ pc = "idle" /\ r.res = "Ok" /\ r.n = 1
    /\ Len(out) < MaxOut
    /\ \E o \in Failing(<<Item("MESSAGE", topic)>>) \cup {<<Item("MESSAGE", topic)>>} :
          out' = out \o o
    /\ UNCHANGED <<conn, rx, tc, pc, wire, psent, net, fed>>

\* publish_headers returned r for topic.
WriteMessage(r, topic) ==
    /\ pc = "idle" /\ r.res = "Ok" /\ r.n = 1
    /\ Len(out) < MaxOut
    /\ \/ out' = Append(out, Item("MESSAGE", topic)) /\ pc' = "idle"
       \/ /\ WRITES_FAIL
          /\ \E o \in Failing(<<Item("MESSAGE", topic)>>) : out' = out \o o
          /\ Return("write")
    /\ UNCHANGED <<conn, rx, tc, wire, psent, net, fed>>

-----------------------------------------------------------------------------
Live == pc \notin {"closed", "refused"}
Traffic == TrafficIn(conn.mechanism, fed)

\* Until the caller drops the driver, no unit of the peer is lost, repeated or
\* moved on its way through the transport, the buffer and its compaction into
\* the connection: what is fed, what is still in the buffer and what has not
\* been read make up what the peer has sent.
ExactlyOnce ==
    Live => fed \o SubSeq(rx, tc + 1, Len(rx)) \o net = SubSeq(wire, 1, psent)

\* Every PING of a 3.1 peer is answered by one PONG with its context, in
\* order, even when several arrive in one read; a 3.0 peer gets none.
PongPerPing ==
    Live => PongsIn(out) = IF conn.peer_version_minor >= 1 THEN PingsIn(Traffic) ELSE <<>>

\* When poll waits for the peer the driver owes it nothing: no received byte
\* is left unprocessed, no PONG is pending, and every part of our handshake
\* that the peer may be waiting for is written.
BlockedOwesNothing ==
    pc = "read" =>
        /\ rx = <<>>
        /\ conn.pending_pong = <<>>
        /\ Len(HandshakeIn(out)) =
              IF conn.state \in {"Greeting", "PlainHello"} THEN 1
              ELSE Len(FullHandshake(conn.mechanism))

\* What the peer receives is the handshake in its order, then PONGs and
\* messages, and only as the last thing an ERROR or an item that was cut off.
OutputWellFormed ==
    LET hs == Len(HandshakeIn(out))
    IN  /\ IsPrefix(HandshakeIn(out), FullHandshake(conn.mechanism))
        /\ \A i \in DOMAIN out :
              /\ out[i].what \in {"MESSAGE", "PONG"} =>
                    i > Len(FullHandshake(conn.mechanism))
              /\ out[i].what \in {"ERROR", "CUT"} => i = Len(out) /\ ~Live
        /\ \A i \in 1 .. hs : out[i].what = HandshakeIn(out)[i]

\* Unless a write fails, the connection to a peer that keeps to the protocol
\* is established and everything the peer sends is processed, though the peer
\* may send ahead or wait for us wherever it may and a read may time out with
\* something there.
GetsThrough ==
    \/ <>(pc = "closed")
    \/ <>[](wire \in Valid => conn.state = "Established" /\ fed = wire)
=============================================================================
