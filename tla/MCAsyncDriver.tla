--------------------------- MODULE MCAsyncDriver ---------------------------
(***************************************************************************)
(* Peers for the async drivers.                                            *)
(***************************************************************************)
EXTENDS AsyncDrivers, MCPeers

ValidStreams == {
    Stream("Null", NullG, <<SubReady, Sub(<<"a">>), Ping("x"), Ping("y"), Unsub(<<"a">>)>>),
    Stream("Plain", PlainG, <<Hello("secret"), SubReady, Sub(<<"a">>), Ping("x")>>)
}

AllStreams == ValidStreams \cup {
    Stream("Null", NullG0, <<SubReady, Frame("MSG_SUB", <<"a">>), Ping("x"), Frame("BAD", <<>>)>>),
    Stream("Null", NullG, <<Frame("READY", <<"DISH">>), SubReady>>),
    Stream("Plain", PlainG, <<Hello("guess"), SubReady>>)
}

ValidRadio == {
    Stream("Null", NullG, <<DishReady, Join("a"), Ping("x"), Ping("y"), Leave("a")>>),
    Stream("Null", NullG0, <<DishReady, Join("a"), Ping("x"), Join("b")>>)
}

AllRadio == ValidRadio \cup {
    Stream("Null", NullG, <<DishReady, Join("a"), Frame("BAD", <<>>)>>),
    Stream("Null", NullG, <<SubReady, DishReady>>)
}

ValidUnits == {s.units : s \in ValidStreams \cup ValidRadio}

Anywhere == {"read", "write"}
=============================================================================
