------------------------------- MODULE Caller -------------------------------
(***************************************************************************)
(* A sans-IO connection in the hands of any caller, as far as it is the    *)
(* same for PUB and for RADIO: the methods are called in any order, with   *)
(* buffers that are too small or not, and with the peer's stream cut       *)
(* anywhere.                                                               *)
(***************************************************************************)
EXTENDS PeerTraffic

CONSTANTS
    Streams,        \* [mechanism, units]: what the peer may send to whom
    MaxSent         \* bound: outputs, beyond which only the handshake goes on

VARIABLES
    conn,       \* the connection
    wire,       \* the units the peer sends
    pos,        \* how many of them the caller is done with
    fed,        \* ghost: the units feed reported as consumed
    sent,       \* ghost: what the methods wrote, in order, as [what, arg]
    rejected,   \* ghost: feed returned an error about the peer in the handshake
    res         \* the result of the last call

vars == <<conn, wire, pos, fed, sent, rejected, res>>

\* A stream of the peer, and a new connection.
InitWith(c, units) ==
    /\ conn = c
    /\ wire = units
    /\ pos = 0 /\ fed = <<>> /\ sent = <<>>
    /\ rejected = FALSE
    /\ res = "Ok"

\* A method with result r that writes the item what if it succeeds.
Output(r, what, arg) ==
    /\ conn' = r.conn
    /\ res' = r.res
    /\ sent' = IF r.res = "Ok" /\ r.n = 1
               THEN Append(sent, [what |-> what, arg |-> arg]) ELSE sent
    /\ UNCHANGED <<wire, pos, fed, rejected>>

\* More may be written than the handshake.
MaySayMore == Len(sent) < MaxSent

\* The next n units of the peer, for feed.
Input(n) == SubSeq(wire, pos + 1, pos + n)

\* feed was given the next n units and returned r.  After an error the caller
\* presents them again, or drops them: feed does not say how many it used.
\* What was refused as WrongState has not been looked at and is kept.
Feeds(n, r) ==
    LET ok == r.res = "Ok"
    IN  /\ n \in 0 .. Len(wire) - pos
        /\ conn' = r.conn
        /\ res' = r.res
        /\ \/ ok /\ pos' = pos + r.n
           \/ ~ok /\ pos' = pos
           \/ ~ok /\ r.res # "WrongState" /\ pos' = pos + n
        /\ fed' = IF ok THEN fed \o SubSeq(Input(n), 1, r.n) ELSE fed
        /\ rejected' = (rejected \/ (conn.state # "Established" /\ r.res \notin {"Ok", "WrongState"}))
        /\ UNCHANGED <<wire, sent>>

-----------------------------------------------------------------------------
FedGreeting == SubSeq(fed, 1, GREETING_LEN)
FedFrames   == FramesIn(fed)
Traffic     == TrafficIn(conn.mechanism, fed)
ReadyAt     == HandshakeFrames(conn.mechanism)

HelloAccepted ==
    /\ FedFrames # <<>>
    /\ FedFrames[1].kind = "HELLO" /\ FedFrames[1].arg \in Accepted

-----------------------------------------------------------------------------
\* Whatever the order of the calls, what goes out is a prefix of the
\* handshake of the mechanism, followed by messages and PONGs only when the
\* handshake is complete on both sides.
HandshakeOrder ==
    /\ IsPrefix(HandshakeIn(sent), FullHandshake(conn.mechanism))
    /\ conn.state = "Established" => HandshakeIn(sent) = FullHandshake(conn.mechanism)
    /\ ItemsOf({"MESSAGE", "PONG"}, sent) # <<>> => conn.state = "Established"

\* A peer is welcomed only after its credentials were accepted.
WelcomeMeansAccepted == ItemsOf({"WELCOME"}, sent) # <<>> => HelloAccepted

\* An established connection has consumed, in this order, a valid greeting
\* for its mechanism, accepted credentials with PLAIN, and a READY of one of
\* the types of socket.
EstablishedBy(types) ==
    conn.state = "Established" =>
        /\ ParsePartialGreeting(FedGreeting)
        /\ FedGreeting[3].of.mech = conn.mechanism /\ ~FedGreeting[3].of.server
        /\ Len(FedFrames) >= ReadyAt
        /\ conn.mechanism = "Plain" => HelloAccepted
        /\ FedFrames[ReadyAt].kind = "READY"
        /\ FedFrames[ReadyAt].arg \in types

\* A peer that was refused during the handshake is never established, though
\* the greeting and the decode errors leave the state as it was and the
\* caller may go on feeding.
RejectedStaysRejected == rejected => conn.state # "Established"

\* A PONG is the answer to one PING: the PONGs are, in order, the contexts of
\* some of the PINGs (one that is overtaken by another before write_pong is
\* called gets none), and a 3.0 peer gets none at all.
PongsAnswerPings ==
    LET expected == IF conn.peer_version_minor >= 1 THEN PingsIn(Traffic) ELSE <<>>
    IN  IsSubsequence(PongsIn(sent) \o conn.pending_pong, expected)
=============================================================================
