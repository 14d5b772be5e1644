---------------------------- MODULE MCSmoltcpPub ----------------------------
(***************************************************************************)
(* Peers for the smoltcp loop, which publishes one topic, "hello".         *)
(***************************************************************************)
EXTENDS SmoltcpPub, MCPeers

ValidStreams == {
    Stream("Null", NullG, <<SubReady, Sub(<<"hello">>), Ping("x"), Ping("y"), Unsub(<<"hello">>)>>),
    Stream("Null", NullG0, <<SubReady, Ping("x"), Frame("MSG_SUB", <<"hello">>)>>)
}

AllStreams == ValidStreams \cup {
    Stream("Null", NullG, <<SubReady, Sub(<<"hello">>), Frame("BAD", <<>>), Unsub(<<"hello">>)>>),
    Stream("Null", PlainG, <<SubReady>>),
    Stream("Null", NullG, <<DishReady, SubReady>>)
}

ValidUnits == {s.units : s \in ValidStreams}
=============================================================================
