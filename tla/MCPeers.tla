------------------------------ MODULE MCPeers ------------------------------
(***************************************************************************)
(* The vocabulary of the peers that the instances put together.            *)
(***************************************************************************)
EXTENDS Handshake, SequencesExt

\* The peer of a connection with mechanism mech: its greeting and its frames.
Stream(mech, g, frames) ==
    [mechanism |-> mech,
     units |-> GreetingUnits(g) \o FlattenSeq([k \in DOMAIN frames |-> FrameUnits(frames[k])])]

NullG  == Greeting(TRUE, "Null", FALSE, 1)
NullG0 == Greeting(TRUE, "Null", FALSE, 0)      \* a peer with ZMTP 3.0
PlainG == Greeting(TRUE, "Plain", FALSE, 1)

SubReady  == Frame("READY", <<"SUB">>)
DishReady == Frame("READY", <<"DISH">>)
Hello(c)  == Frame("HELLO", <<c>>)
Ping(x)   == Frame("PING", <<x>>)
Sub(p)    == Frame("SUBSCRIBE", p)
Unsub(p)  == Frame("CANCEL", p)
Join(g)   == Frame("JOIN", <<g>>)
Leave(g)  == Frame("LEAVE", <<g>>)

MCAccepted == {<<"secret">>}
MCTopics   == {<<"a", "b">>}
MCGroups   == {<<"a">>, <<"b">>}

RetryRead == {"read"}
RetryAll  == {"read", "write", "protocol"}
=============================================================================
