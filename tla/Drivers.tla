------------------------------ MODULE Drivers ------------------------------
(***************************************************************************)
(* A blocking driver of either kind, PUB or RADIO.                         *)
(***************************************************************************)
EXTENDS Driver, Sockets

CONSTANTS
    Groups,         \* as in RadioDriver
    RadioStreams    \* what the peer of a RADIO driver may send

\* The units that peers send.
Units == UnitsOf(Streams \cup RadioStreams)

\* A stream is for a driver with one of the mechanisms.
ASSUME PeersAssumption ==
    \A s \in Streams \cup RadioStreams :
        s.mechanism \in {"Null", "Plain"} /\ s.units \in Seq(Units)

R == INSTANCE RadioDriver WITH Streams <- RadioStreams

IsRadio == "group_table" \in DOMAIN conn

EitherInit == Init \/ R!Init
EitherNext == (~IsRadio /\ Next) \/ (IsRadio /\ R!Next)
EitherSpec == EitherInit /\ [][EitherNext]_vars

\* The peer sends at least what it may not wait with, the driver goes on, and
\* a read gives what has arrived, though not always: a timeout may come first,
\* but not every time.
EitherFairSpec ==
    /\ EitherSpec
    /\ WF_vars(MayNotWait(out) /\ PeerSend)
    /\ WF_vars((~IsRadio /\ Step) \/ (IsRadio /\ R!Step))
    /\ SF_vars(\E n \in 1 .. Readable : Read(n))

\* A message is written only to a peer that wants it by the frames that were
\* fed when it goes out, whichever reads they came in: for PUB, it holds a
\* subscription; for RADIO, it was in the group last.
PublishedWanted == [][IF IsRadio THEN R!WritesToMember ELSE WritesWanted]_vars
=============================================================================
