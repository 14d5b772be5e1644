------------------------------ MODULE MCDriver ------------------------------
(***************************************************************************)
(* Peers for the drivers: those that behave, which the progress property   *)
(* is about, and some with one thing wrong.                                *)
(***************************************************************************)
EXTENDS Drivers, MCPeers

ValidStreams == {
    Stream("Null", NullG, <<SubReady, Sub(<<"a">>), Ping("x"), Ping("y"), Unsub(<<"a">>)>>),
    Stream("Null", NullG0,
           <<SubReady, Frame("MSG_SUB", <<"a", "b">>), Ping("x"), Frame("MSG_CANCEL", <<"a", "b">>)>>),
    Stream("Null", NullG, <<SubReady, Unsub(<<"a">>), Sub(<<"a">>), Sub(<<"a">>), Unsub(<<"a">>)>>),
    Stream("Null", NullG, <<SubReady, Sub(<<"a">>), Sub(<<"a", "b">>), Unsub(<<"a">>), Unsub(<<"a", "b">>)>>),
    Stream("Plain", PlainG, <<Hello("secret"), SubReady, Sub(<<"a">>), Ping("x")>>)
}

AllStreams == ValidStreams \cup {
    Stream("Null", NullG, <<SubReady, Sub(<<"a">>), Frame("BAD", <<>>), Unsub(<<"a">>)>>),
    Stream("Null", NullG, <<SubReady, Sub(<<"a">>), Frame("OVERSIZE", <<>>), Unsub(<<"a">>)>>),
    Stream("Null", PlainG, <<SubReady>>),
    Stream("Null", NullG, <<Frame("READY", <<"DISH">>), SubReady>>),
    Stream("Plain", PlainG, <<Hello("guess"), SubReady>>),
    Stream("Plain", PlainG, <<Hello("secret"), Frame("BIG_READY", <<"SUB">>), SubReady>>)
}

\* The first fits into the receive buffer as a whole.
ValidRadio == {
    Stream("Null", NullG, <<DishReady>>),
    Stream("Null", NullG, <<DishReady, Join("a"), Ping("x"), Ping("y"), Leave("a")>>),
    Stream("Null", NullG0, <<DishReady, Join("a"), Ping("x"), Join("a"), Leave("a")>>),
    Stream("Null", NullG, <<DishReady, Leave("b"), Join("b"), Join("a"), Leave("b")>>)
}

AllRadio == ValidRadio \cup {
    Stream("Null", NullG, <<DishReady, Join("a"), Frame("OVERSIZE", <<>>), Leave("a")>>),
    Stream("Null", PlainG, <<DishReady>>),
    Stream("Null", NullG, <<SubReady, DishReady>>)
}

ValidUnits == {s.units : s \in ValidStreams \cup ValidRadio}
=============================================================================
