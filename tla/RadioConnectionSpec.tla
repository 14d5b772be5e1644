------------------------ MODULE RadioConnectionSpec ------------------------
(***************************************************************************)
(* A RADIO connection in the hands of any caller.                          *)
(***************************************************************************)
EXTENDS Caller

CONSTANTS
    GROUP_CAP, NAME_CAP,    \* as in GroupTable
    Groups                  \* groups that are published to

Radio == INSTANCE RadioConnection

Init == \E s \in Streams : InitWith(Radio!NewRadioConnection(s.mechanism), s.units)

DoWriteGreeting(fits) == Output(Radio!WriteGreeting(conn, fits), "GREETING", <<>>)
DoWriteReady(fits)    == Output(Radio!WriteReady(conn, fits), "READY", <<>>)
DoWriteWelcome(fits)  == Output(Radio!WriteWelcome(conn, fits), "WELCOME", <<>>)
DoWriteError(fits)    == MaySayMore /\ Output(Radio!WriteError(conn, fits), "ERROR", <<>>)
DoWritePong(fits)     == MaySayMore /\ Output(Radio!WritePong(conn, fits), "PONG", conn.pending_pong)
DoPublish(group, fits) == MaySayMore /\ Output(Radio!Publish(conn, group, fits), "MESSAGE", group)

DoFeed(n) == Feeds(n, Radio!FeedConn(conn, Input(n)))

Next ==
    \/ \E fits \in BOOLEAN :
          \/ DoWriteGreeting(fits)
          \/ DoWriteReady(fits)
          \/ DoWriteWelcome(fits)
          \/ DoWriteError(fits)
          \/ DoWritePong(fits)
          \/ \E g \in Groups : DoPublish(g, fits)
    \/ \E n \in 0 .. Len(wire) - pos : DoFeed(n)

Spec == Init /\ [][Next]_vars
-----------------------------------------------------------------------------
\* A RADIO connection is established only by a valid greeting for its
\* mechanism, accepted credentials with PLAIN, and a READY of a DISH socket,
\* in this order: a subscriber is turned away.
EstablishedMeansDish == EstablishedBy({<<"DISH">>})

\* The last that the peer said about group g was that it joins.
LastSaidJoin(g) ==
    \E i \in DOMAIN Traffic :
        /\ Traffic[i].kind = "JOIN" /\ Traffic[i].arg = g
        /\ \A j \in i + 1 .. Len(Traffic) :
              ~(Traffic[j].kind = "LEAVE" /\ Traffic[j].arg = g)

\* What is published in a step goes to a peer whose last word on the group was
\* JOIN, however often it joined before it left, whatever joins were refused,
\* and whatever subscriptions of the other kind of socket it sent.
SendsToMember ==
    \A g \in Groups : sent' = Append(sent, [what |-> "MESSAGE", arg |-> g]) => LastSaidJoin(g)

\* While no more distinct groups were named than the table holds, a peer whose
\* last word on a group was JOIN gets its messages.
MembersAreServed ==
    LET named == {Traffic[i].arg : i \in {k \in DOMAIN Traffic : Traffic[k].kind = "JOIN"}}
    IN  (/\ conn.state = "Established"
         /\ Cardinality(named) <= GROUP_CAP
         /\ \A g \in named : Len(g) <= NAME_CAP) =>
            \A g \in Groups :
                LastSaidJoin(g) => Radio!Publish(conn, g, TRUE) = Ok(conn, 1)
=============================================================================
