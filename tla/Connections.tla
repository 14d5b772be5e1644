---------------------------- MODULE Connections ----------------------------
(***************************************************************************)
(* A connection of either kind, PUB or RADIO, in the hands of any caller.  *)
(***************************************************************************)
EXTENDS ConnectionSpec, Sockets

CONSTANTS
    Groups,         \* as in RadioConnectionSpec
    RadioStreams    \* what the peer of a RADIO connection may send

\* The units that peers send.
Units == UnitsOf(Streams \cup RadioStreams)

\* A stream is for a connection with one of the mechanisms.
ASSUME StreamsAssumption ==
    \A s \in Streams \cup RadioStreams :
        s.mechanism \in {"Null", "Plain"} /\ s.units \in Seq(Units)

\* The name of a group is a sequence.
ASSUME NamesAssumption ==
    \A x \in Units : x.what = "frame" /\ x.of.kind = "JOIN" => Len(x.of.arg) \in Nat

R == INSTANCE RadioConnectionSpec WITH Streams <- RadioStreams

IsRadio == "group_table" \in DOMAIN conn

EitherInit == Init \/ R!Init
EitherNext == (~IsRadio /\ Next) \/ (IsRadio /\ R!Next)
EitherSpec == EitherInit /\ [][EitherNext]_vars

\* A connection is established only by a valid greeting, accepted credentials
\* with PLAIN, and a READY of a socket of the matching kind, in this order.
EstablishedRightly == IF IsRadio THEN R!EstablishedMeansDish ELSE EstablishedMeansValid

\* For PUB, the table is what the frames after the handshake make of an empty
\* one: each of them was applied once and in order.
SubscriptionsFollowFrames == ~IsRadio => TableFollowsFrames

\* A member of a group that had room gets its messages.
MembersAreServed == IsRadio => R!MembersAreServed

\* For RADIO, a message goes out only to a peer whose last word on the group
\* was JOIN, however often it joined before it left.
OnlyToMembers == [][IsRadio => R!SendsToMember]_vars
=============================================================================
