---------------------------- MODULE AsyncDriver ----------------------------
(***************************************************************************)
(* The async PUB driver of io/async.rs, Driver: AsyncLoop with a PUB       *)
(* connection, over NULL or PLAIN.                                         *)
(***************************************************************************)
EXTENDS Connection, AsyncLoop

CONSTANT
    Topics          \* topics that are published

vars == asyncVars

Init == \E s \in Streams : AsyncInitWith(NewConnection(s.mechanism), s.units)

\* Mutant: READY is left to poll.
RepliesWelcome(prev, c) ==
    IF prev = "Greeting" /\ c.state = "Ready" THEN <<"READY">>
    ELSE IF prev = "PlainHello" /\ c.state = "PlainReady" THEN <<"WELCOME">>
    ELSE <<"PONG">>

\* What drain_buffer writes when feed has taken the connection from state
\* prev to c.
Replies(prev, c) ==
    IF prev = "Greeting" /\ c.state = "Ready" THEN <<"READY">>
    ELSE IF prev = "PlainHello" /\ c.state = "PlainReady" THEN <<"WELCOME", "READY">>
    ELSE <<"PONG">>

New       == AsyncConstruct
Poll      == AsyncBeginPoll
Read(n)   == AsyncReceive(n)
ReadFails == AsyncReceiveFails

\* drain_buffer: what feed returns for the rest of the buffer, and what follows.
Fed      == FeedConn(conn, Offered)
DrainOk  == \E r \in {Fed} : AsyncDrainPass(r, Replies(conn.state, r.conn), AfterDrain(tc + r.n))
DrainErr == \E r \in {Fed} : AsyncDrainPassErr(r)
Written  == WriteDone(AfterDrain(tc + job.n))

PublishMessage(topic) == AsyncWriteMessage(PublishHeaders(conn, topic), topic)

-----------------------------------------------------------------------------
Next ==
    \/ AsyncPeerSend
    \/ PeerReads
    \/ New
    \/ Poll
    \/ \E n \in 1 .. Readable : Read(n)
    \/ ReadFails
    \/ CancelRead
    \/ DrainOk
    \/ DrainErr
    \/ \E t \in Topics : PublishMessage(t)
    \/ Written
    \/ WriteFails
    \/ CancelWrite

Spec == Init /\ [][Next]_vars

\* The driver and its caller, who polls again and again, go on, and an executor
\* polls what is ready.
Step == New \/ Poll \/ ReadFails \/ DrainOk \/ DrainErr \/ Written
=============================================================================
