-------------------------- MODULE AsyncRadioDriver --------------------------
(***************************************************************************)
(* The async RADIO driver of io/async.rs, RadioDriver: AsyncLoop with a    *)
(* RADIO connection, over NULL only.  Unlike the other drivers its poll    *)
(* returns after the first drain_buffer even when that achieved nothing.   *)
(***************************************************************************)
EXTENDS AsyncLoop

CONSTANTS
    GROUP_CAP, NAME_CAP,    \* as in GroupTable
    Groups                  \* groups that are published to

Radio == INSTANCE RadioConnection

vars == asyncVars

Init == \E s \in Streams : AsyncInitWith(Radio!NewRadioConnection("Null"), s.units)

\* What drain_buffer writes when feed has taken the connection from state
\* prev to c: READY once the peer's greeting is there.
Replies(prev, c) == IF c.state = "Ready" /\ prev # "Ready" THEN <<"READY">> ELSE <<"PONG">>

New       == AsyncConstruct
Poll      == AsyncBeginPoll
Read(n)   == AsyncReceive(n)
ReadFails == AsyncReceiveFails

\* drain_buffer: what feed returns for the rest of the buffer, and what follows.
Fed      == Radio!FeedConn(conn, Offered)
DrainOk  == \E r \in {Fed} : AsyncDrainPass(r, Replies(conn.state, r.conn), "idle")
DrainErr == \E r \in {Fed} : AsyncDrainPassErr(r)
Written  == WriteDone("idle")

PublishMessage(group) == AsyncWriteMessage(Radio!PublishHeaders(conn, group), group)

-----------------------------------------------------------------------------
Next ==
    \/ AsyncPeerSend
    \/ PeerReads
    \/ New
    \/ Poll
    \/ \E n \in 1 .. Readable : Read(n)
    \/ ReadFails
    \/ CancelRead
    \/ DrainOk
    \/ DrainErr
    \/ \E g \in Groups : PublishMessage(g)
    \/ Written
    \/ WriteFails
    \/ CancelWrite

Spec == Init /\ [][Next]_vars

\* The driver and its caller, who polls again and again, go on, and an executor
\* polls what is ready.
Step == New \/ Poll \/ ReadFails \/ DrainOk \/ DrainErr \/ Written
=============================================================================
