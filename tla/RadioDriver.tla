---------------------------- MODULE RadioDriver ----------------------------
(***************************************************************************)
(* The blocking RADIO driver of io/sync.rs, RadioDriver: DriverLoop with a *)
(* RADIO connection, over NULL only.                                       *)
(***************************************************************************)
EXTENDS DriverLoop

CONSTANTS
    GROUP_CAP, NAME_CAP,    \* as in GroupTable
    Groups                  \* groups that are published to

Radio == INSTANCE RadioConnection

vars == loopVars

Init == \E s \in Streams : InitWith(Radio!NewRadioConnection("Null"), s.units)

\* What drain_buffer writes when feed has taken the connection from state
\* prev to c: READY once the peer's greeting is there.
Replies(prev, c) == IF c.state = "Ready" /\ prev # "Ready" THEN <<"READY">> ELSE <<"PONG">>

New     == Construct
Poll    == BeginPoll
Read(n) == Receive(n)
ReadFails == ReceiveFails

\* drain_buffer: what feed returns for the rest of the buffer, and what follows.
Fed             == Radio!FeedConn(conn, Offered)
DrainOk         == \E r \in {Fed} : DrainPass(r, Replies(conn.state, r.conn))
DrainWriteFails == \E r \in {Fed} : DrainPassWriteFails(r, Replies(conn.state, r.conn))
DrainErr        == \E r \in {Fed} : DrainPassErr(r)

PublishMessage(group) == WriteMessage(Radio!PublishHeaders(conn, group), group)

-----------------------------------------------------------------------------
Next ==
    \/ PeerSend
    \/ New
    \/ Poll
    \/ \E n \in 1 .. Readable : Read(n)
    \/ ReadFails
    \/ DrainOk
    \/ DrainWriteFails
    \/ DrainErr
    \/ \E g \in Groups : PublishMessage(g)

Spec == Init /\ [][Next]_vars

\* The driver and its caller, who polls again and again, go on.
Step == New \/ Poll \/ ReadFails \/ DrainOk \/ DrainErr
-----------------------------------------------------------------------------
\* The last that the peer said about group g, in what was fed, was that it joins.
LastSaidJoin(g) ==
    \E i \in DOMAIN Traffic :
        /\ Traffic[i].kind = "JOIN" /\ Traffic[i].arg = g
        /\ \A j \in i + 1 .. Len(Traffic) :
              ~(Traffic[j].kind = "LEAVE" /\ Traffic[j].arg = g)

\* A message is written only to a peer that is in the group by the frames
\* that were fed when it goes out, whichever reads they came in.
WritesToMember ==
    \A g \in Groups : out' = Append(out, Item("MESSAGE", g)) => LastSaidJoin(g)
=============================================================================
