---------------------------- MODULE MCConnection ----------------------------
(***************************************************************************)
(* Peers for a connection of either kind.  Each of the streams is one      *)
(* peer, valid or with one thing wrong.                                    *)
(***************************************************************************)
EXTENDS Connections, MCPeers

PubTopics == {<<"a">>, <<"a", "b">>}

MCStreams == {
    \* valid peers, with the traffic of 3.1 and of 3.0
    Stream("Null", NullG, <<SubReady, Sub(<<"a">>), Frame("PING", <<"x", "y">>),
                            Frame("PING", <<"z">>), Unsub(<<"a">>)>>),
    Stream("Null", NullG0,
           <<Frame("READY", <<"XSUB">>), Frame("MSG_SUB", <<"a", "b">>),
             Frame("PING", <<"x">>), Frame("MSG_CANCEL", <<"a", "b">>)>>),
    Stream("Null", NullG, <<SubReady, Sub(<<"a">>), Sub(<<"a">>), Sub(<<"a", "b">>),
                            Unsub(<<"a">>)>>),
    Stream("Null", NullG, <<SubReady, Sub(<<"a">>), Frame("OTHER", <<>>),
                            Frame("MSG_OTHER", <<>>), Sub(<<"a", "b", "c">>)>>),
    Stream("Plain", PlainG, <<Hello("secret"), SubReady, Sub(<<"a">>), Frame("PING", <<"x">>)>>),
    \* decode errors after the handshake
    Stream("Null", NullG, <<SubReady, Sub(<<"a">>), Frame("BAD", <<>>), Unsub(<<"a">>)>>),
    Stream("Null", NullG, <<SubReady, Sub(<<"a">>), Frame("OVERSIZE", <<>>), Unsub(<<"a">>)>>),
    \* bad greetings, followed by what would be a good one
    [mechanism |-> "Null",
     units |-> GreetingUnits(Greeting(FALSE, "Null", FALSE, 1)) \o GreetingUnits(NullG)
               \o FrameUnits(SubReady)],
    Stream("Null", Greeting(FALSE, "Null", FALSE, 1), <<SubReady>>),
    Stream("Null", PlainG, <<SubReady, SubReady>>),
    Stream("Null", Greeting(TRUE, "Null", TRUE, 1), <<SubReady, SubReady>>),
    \* bad handshake frames, followed by good ones
    Stream("Null", NullG, <<Frame("READY", <<"DISH">>), SubReady>>),
    Stream("Null", NullG, <<Frame("BIG_READY", <<"SUB">>), SubReady>>),
    Stream("Null", NullG, <<Frame("ERROR", <<>>), SubReady>>),
    Stream("Null", NullG, <<Frame("BAD", <<>>), SubReady, SubReady>>),
    Stream("Null", NullG, <<Frame("OVERSIZE", <<>>), SubReady, SubReady>>),
    Stream("Null", NullG, <<Sub(<<"a">>), SubReady>>),
    Stream("Plain", PlainG, <<Hello("guess"), Hello("secret"), SubReady>>),
    Stream("Plain", PlainG, <<SubReady, SubReady>>),
    Stream("Plain", PlainG, <<Frame("BAD", <<>>), Hello("secret"), SubReady>>),
    Stream("Plain", PlainG, <<Hello("secret"), Hello("secret"), SubReady>>),
    Stream("Plain", NullG, <<Hello("secret"), SubReady>>)
}

MCRadioStreams == {
    \* valid peers: joining twice and leaving once, more groups than places,
    \* a name that is too long, PINGs
    Stream("Null", NullG, <<DishReady, Join("a"), Join("a"), Leave("a"), Join("b")>>),
    Stream("Null", NullG, <<DishReady, Join("b"), Join("a"), Leave("b")>>),
    Stream("Null", NullG, <<DishReady, Join("b"), Join("a"), Join("c"), Leave("b"), Leave("c")>>),
    Stream("Null", NullG, <<DishReady, Frame("JOIN", <<"a", "a">>), Join("a"), Frame("PING", <<"x", "y">>),
                            Frame("PING", <<"z">>)>>),
    Stream("Null", NullG0, <<DishReady, Frame("PING", <<"x">>), Join("a")>>),
    \* what only a PUB connection understands
    Stream("Null", NullG, <<DishReady, Frame("SUBSCRIBE", <<"a">>), Frame("MSG_SUB", <<"b">>), Leave("a")>>),
    Stream("Plain", PlainG, <<Hello("secret"), DishReady, Join("a"), Frame("PING", <<"x">>)>>),
    \* decode errors after the handshake
    Stream("Null", NullG, <<DishReady, Join("a"), Frame("BAD", <<>>), Leave("a")>>),
    \* bad greetings
    [mechanism |-> "Null",
     units |-> GreetingUnits(Greeting(FALSE, "Null", FALSE, 1)) \o GreetingUnits(NullG)
               \o FrameUnits(DishReady)],
    Stream("Null", PlainG, <<DishReady, DishReady>>),
    Stream("Plain", Greeting(TRUE, "Plain", TRUE, 1), <<Hello("secret"), DishReady>>),
    \* bad handshake frames, followed by good ones
    Stream("Null", NullG, <<Frame("READY", <<"SUB">>), DishReady>>),
    Stream("Null", NullG, <<Frame("BIG_READY", <<"DISH">>), DishReady>>),
    Stream("Null", NullG, <<Frame("OVERSIZE", <<>>), DishReady, DishReady>>),
    Stream("Null", NullG, <<Join("a"), DishReady>>),
    Stream("Plain", PlainG, <<Hello("guess"), Hello("secret"), DishReady>>),
    Stream("Plain", PlainG, <<DishReady, DishReady>>)
}
=============================================================================
