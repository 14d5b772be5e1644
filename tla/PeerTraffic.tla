---------------------------- MODULE PeerTraffic ----------------------------
(***************************************************************************)
(* What a peer has said, read off the units it sent: a reference for the   *)
(* state a connection should be in.  Also what a connection has said, read *)
(* off the items [what, arg] it wrote.                                     *)
(***************************************************************************)
EXTENDS Handshake, SequencesExt

\* The units of streams, each of them [mechanism, units].
UnitsOf(streams) == UNION {{s.units[i] : i \in DOMAIN s.units} : s \in streams}

\* The elements of s at the places in S, in their order.  (SelectSeq has no
\* definition the proof system can use.)
ElementsAt(s, S) ==
    LET upTo[n \in Nat] ==
            IF n = 0 THEN <<>>
            ELSE IF n \in S THEN Append(upTo[n - 1], s[n]) ELSE upTo[n - 1]
    IN  upTo[Len(s)]

\* The frames that units hold from beginning to end, after the greeting.
FramesIn(units) ==
    [k \in 1 .. (Len(units) - GREETING_LEN) \div FRAME_LEN |->
        units[GREETING_LEN + FRAME_LEN * (k - 1) + 1].of]

\* The frames of the handshake: HELLO with PLAIN, and READY.
HandshakeFrames(mechanism) == IF mechanism = "Null" THEN 1 ELSE 2

\* The frames after the handshake.
TrafficIn(mechanism, units) ==
    LET fs == FramesIn(units)
    IN  SubSeq(fs, HandshakeFrames(mechanism) + 1, Len(fs))

\* The contexts of the PINGs among frames.
PingsIn(frames) ==
    LET ps == ElementsAt(frames, {i \in DOMAIN frames : frames[i].kind = "PING"})
    IN  [k \in DOMAIN ps |-> PingContext(ps[k])]

\* The items of some kinds, and the contexts of the PONGs.
ItemsOf(kinds, items) ==
    ElementsAt(items, {i \in DOMAIN items : items[i].what \in kinds})
PongsIn(items) == [k \in DOMAIN ItemsOf({"PONG"}, items) |-> ItemsOf({"PONG"}, items)[k].arg[1]]

HandshakeIn(items) ==
    LET hs == ItemsOf({"GREETING", "WELCOME", "READY"}, items)
    IN  [k \in DOMAIN hs |-> hs[k].what]

FullHandshake(mechanism) ==
    IF mechanism = "Null" THEN <<"GREETING", "READY">>
    ELSE <<"GREETING", "WELCOME", "READY">>

\* s is t with some elements left out.
IsSubsequence(s, t) ==
    \E at \in [DOMAIN s -> DOMAIN t] :
        /\ \A i, j \in DOMAIN s : i < j => at[i] < at[j]
        /\ \A i \in DOMAIN s : s[i] = t[at[i]]
=============================================================================
