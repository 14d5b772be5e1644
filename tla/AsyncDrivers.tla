---------------------------- MODULE AsyncDrivers ----------------------------
(***************************************************************************)
(* An async driver of either kind, and how it implements the blocking one. *)
(***************************************************************************)
EXTENDS AsyncDriver, Sockets

CONSTANTS
    Groups,         \* as in AsyncRadioDriver
    RadioStreams    \* what the peer of a RADIO driver may send

\* The units that peers send.
Units == UnitsOf(Streams \cup RadioStreams)

\* A stream is for a driver with one of the mechanisms.
ASSUME PeersAssumption ==
    \A s \in Streams \cup RadioStreams :
        s.mechanism \in {"Null", "Plain"} /\ s.units \in Seq(Units)

R == INSTANCE AsyncRadioDriver WITH Streams <- RadioStreams

IsRadio == "group_table" \in DOMAIN conn

EitherInit == Init \/ R!Init
EitherNext == (~IsRadio /\ Next) \/ (IsRadio /\ R!Next)
EitherSpec == EitherInit /\ [][EitherNext]_vars

\* The peer reads, and sends at least what it may not wait with by what it has
\* read, the driver goes on, and a read gives what has arrived unless a timeout
\* or a dropped future comes first, though not every time.
EitherFairSpec ==
    /\ EitherSpec
    /\ WF_vars(PeerReads)
    /\ WF_vars(MayNotWait(SubSeq(out, 1, acked)) /\ AsyncPeerSend)
    /\ WF_vars((~IsRadio /\ Step) \/ (IsRadio /\ R!Step))
    /\ SF_vars(\E n \in 1 .. Readable : Read(n))

-----------------------------------------------------------------------------
Blocking == INSTANCE Drivers WITH
    conn <- ShownConn,
    out <- ShownOut,
    READS_FAIL <- (READS_FAIL \/ "read" \in CANCELS),
    WRITES_FAIL <- (WRITES_FAIL \/ "write" \in CANCELS)

\* The async drivers implement the blocking ones: their awaits, the peer's moves
\* during them and the room the transport has are invisible, and a future that
\* is dropped is to the driver a transport that fails.  That the RADIO poll does
\* not go on to the read when the first drain_buffer achieved nothing makes no
\* difference: what is left in the buffer when poll begins can be consumed.
ImplementsBlocking == Blocking!EitherSpec

\* One subscription is one table entry: "two identical SUBSCRIBE frames
\* require two CANCEL frames", hence one frame requires one.
OneEntryPerSubscribe == Blocking!OneEntryPerSubscribe
=============================================================================
