------------------------------- MODULE Driver -------------------------------
(***************************************************************************)
(* The blocking PUB driver of io/sync.rs, Driver: DriverLoop with a PUB    *)
(* connection, over NULL or PLAIN.                                         *)
(***************************************************************************)
EXTENDS Connection, DriverLoop

CONSTANT
    Topics          \* topics that are published

vars == loopVars

Init == \E s \in Streams : InitWith(NewConnection(s.mechanism), s.units)

\* Mutant: READY is left to poll.
RepliesWelcome(prev, c) ==
    IF prev = "Greeting" /\ c.state = "Ready" THEN <<"READY">>
    ELSE IF prev = "PlainHello" /\ c.state = "PlainReady" THEN <<"WELCOME">>
    ELSE <<"PONG">>

\* What drain_buffer writes when feed has taken the connection from state
\* prev to c.
Replies(prev, c) ==
    IF prev = "Greeting" /\ c.state = "Ready" THEN <<"READY">>
    ELSE IF prev = "PlainHello" /\ c.state = "PlainReady" THEN <<"WELCOME", "READY">>
    ELSE <<"PONG">>

New     == Construct
Poll    == BeginPoll
Read(n) == Receive(n)
ReadFails == ReceiveFails

\* drain_buffer: what feed returns for the rest of the buffer, and what follows.
Fed             == FeedConn(conn, Offered)
DrainOk         == \E r \in {Fed} : DrainPass(r, Replies(conn.state, r.conn))
DrainWriteFails == \E r \in {Fed} : DrainPassWriteFails(r, Replies(conn.state, r.conn))
DrainErr        == \E r \in {Fed} : DrainPassErr(r)

PublishMessage(topic) == WriteMessage(PublishHeaders(conn, topic), topic)

-----------------------------------------------------------------------------
Next ==
    \/ PeerSend
    \/ New
    \/ Poll
    \/ \E n \in 1 .. Readable : Read(n)
    \/ ReadFails
    \/ DrainOk
    \/ DrainWriteFails
    \/ DrainErr
    \/ \E t \in Topics : PublishMessage(t)

Spec == Init /\ [][Next]_vars

\* The driver and its caller, who polls again and again, go on.
Step == New \/ Poll \/ ReadFails \/ DrainOk \/ DrainErr
-----------------------------------------------------------------------------
\* The peer subscribes to a prefix of topic: from some frame on, the frames
\* fed hold more subscriptions to it than cancellations.
Wanted(topic) ==
    \E i \in DOMAIN Traffic :
        LET p == Traffic[i].arg
            Count(kinds) == Cardinality({j \in i .. Len(Traffic) :
                                           Traffic[j].kind \in kinds /\ Traffic[j].arg = p})
        IN  /\ StartsWith(topic, p)
            /\ Count({"SUBSCRIBE", "MSG_SUB"}) > Count({"CANCEL", "MSG_CANCEL"})

\* A message is written only to a peer that subscribes to it by the frames
\* that were fed when it goes out: nothing is left of a cancelled
\* subscription, whichever reads its frames came in.
WritesWanted ==
    \A t \in Topics : out' = Append(out, Item("MESSAGE", t)) => Wanted(t)

\* One subscription is one table entry: "two identical SUBSCRIBE frames
\* require two CANCEL frames", hence one frame requires one.
OneEntryPerSubscribe ==
    \A p \in {conn.sub_table[i] : i \in DOMAIN conn.sub_table} :
        Cardinality(Positions(conn.sub_table, p)) <=
        Cardinality({i \in DOMAIN FramesIn(wire) :
                        /\ FramesIn(wire)[i].kind \in {"SUBSCRIBE", "MSG_SUB"}
                        /\ FramesIn(wire)[i].arg = p})
=============================================================================
