---------------------------- MODULE CommandsSpec ----------------------------
(***************************************************************************)
(* The parsers of Commands on the body of a command, as the peer puts it   *)
(* together: well formed or not, ending anywhere, with sizes that point    *)
(* beyond the end.  The references say what a body is by the encoding,     *)
(* without a position that moves.                                          *)
(***************************************************************************)
EXTENDS Commands, SequencesExt

CONSTANTS
    Octets,     \* the octets the peer uses
    Beginnings,   \* the beginnings of the bodies
    MaxMore     \* bound: octets after the beginning

ASSUME BodiesAssumption ==
    /\ Octets \subseteq Octet /\ Beginnings \subseteq Seq(Octet)
    /\ MaxMore \in Nat

VARIABLES
    body,       \* the body of a command
    more        \* how many octets have been added

vars == <<body, more>>

Init == body \in Beginnings /\ more = 0

\* The peer adds an octet.
AddOctet(b) ==
    /\ more < MaxMore
    /\ body' = Append(body, b)
    /\ more' = more + 1

Next == \E b \in Octets : AddOctet(b)

Spec == Init /\ [][Next]_vars

-----------------------------------------------------------------------------
(* References *)

\* The octets after the first m and up to the n-th are a property.
IsProperty(m, n) ==
    \E l, v \in 0 .. n - m :
        /\ n = m + 1 + l + W + v
        /\ body[m + 1] = l
        /\ SubSeq(body, m + l + 2, m + l + 1 + W) = ToBE(v)

\* They are one with the name of the socket type.
IsSocketType(m, n) ==
    IsProperty(m, n) /\ \E name \in SocketType : IsPrefix(Named(name), SubSeq(body, m + 1, n))

\* The first n octets are the name of the command and whole properties.
Whole(start) ==
    LET To[n \in start .. Len(body)] ==
            n = start \/ \E m \in start .. n - 1 : IsProperty(m, n) /\ To[m]
    IN  {n \in start .. Len(body) : To[n]}

\* The value of the first socket type among the properties.
ReferenceMetadata(start) ==
    LET types == {mn \in Whole(start) \X (start .. Len(body)) : IsSocketType(mn[1], mn[2])}
        first == CHOOSE mn \in types : \A other \in types : mn[1] <= other[1]
        len   == first[1] + 2 + W     \* up to the value, whose name is one octet
    IN  IF types # {} THEN Value(SubSeq(body, len + 1, first[2]))
        ELSE IF Len(body) \in Whole(start) THEN Fails("WrongSocketType")
        ELSE Fails("MalformedMetadata")

\* The name that the body begins with, as a set of one or none.
Names == {n \in {SubSeq(body, 2, k) : k \in 1 .. Len(body)} : IsPrefix(Named(n), body)}

ReferenceCommand(name, malformed, rest) ==
    IF Names = {} THEN Fails(malformed)
    ELSE IF Names = {ERROR} THEN Fails("PeerError")
    ELSE IF Names # {name} THEN Fails("UnknownCommand")
    ELSE rest

\* The pairs of fields that the body may be read as after its name.
Hellos ==
    LET Slices == {SubSeq(body, i, j) : i, j \in 1 .. Len(body)}
    IN  {up \in Slices \X Slices : IsPrefix(Named(HELLO) \o Named(up[1]) \o Named(up[2]), body)}

-----------------------------------------------------------------------------
\* Whatever the peer sends, READY is taken apart as its encoding says: the
\* first Socket-Type decides, what follows it is not looked at, what precedes
\* it must be whole properties; every other body gets the error of its first
\* fault.  A whole frame is read as its body is, whatever comes behind it.
ReadyAgrees ==
    LET r == ReferenceCommand(READY, "MalformedMetadata", ReferenceMetadata(1 + Len(READY)))
        Of(types) == IF r.res = "Ok" /\ r.val \notin types THEN Fails("WrongSocketType") ELSE r
    IN  \A types \in {{SUB, XSUB}, {DISH}} :
            /\ ParseReadyFrom(TRUE, body, types) = Of(types)
            /\ body # <<>> => ParseReady(CommandFrame(body) \o body, types) = Of(types)

\* Credentials are read from a HELLO in one way only, and from nothing else.
HelloAgrees ==
    LET r == ParseHelloFrom(TRUE, body)
    IN  /\ (r.res = "Ok") = (Hellos # {})
        /\ r.res = "Ok" => Hellos = {r.val}
        /\ r.res # "Ok" =>
              r = ReferenceCommand(HELLO, "MalformedHello", Fails("MalformedHello"))

\* "Returns MalformedMetadata if the body is too short or structurally
\* invalid": no size, however large, makes the parser leave the body.
NeverPanics == ParseReadyCommand(TRUE, body).res # "panic"

\* What is encoded fits its size, on both sides of the limit, and is what the
\* parsers take it for: our READY is no subscriber's, an ERROR with any reason is
\* the peer's error in both mechanisms, and a WELCOME is none of their commands.
EncodersAgree ==
    LET limit  == RADIX - 1 - 2 - Len(ERROR)
        Reason(n) == body \o [i \in 1 .. n - Len(body) |-> 0]
        Body(frame) == SubSeq(frame, 3, Len(frame))
    IN  /\ \A n \in {Len(body), limit, limit + 1} : n >= Len(body) =>
              LET r == EncodeError(2 * RADIX, Reason(n))
              IN  IF n > limit THEN r.res = "ReasonTooLong"
                  ELSE /\ r.val[2] = Len(Body(r.val))
                       /\ ParseReady(r.val, {SUB}).res = "PeerError"
                       /\ ParseHelloFrom(TRUE, Body(r.val)).res = "PeerError"
                       /\ EncodeError(Len(r.val) - 1, Reason(n)).res = "BufferTooSmall"
        /\ ParseReady(EncodeReady(RADIX).val, {PUB}) = Value(PUB)
        /\ ParseReady(EncodeReadyRadio(RADIX).val, {RADIO}) = Value(RADIO)
        /\ ParseReady(EncodeReady(RADIX).val, {SUB, XSUB}).res = "WrongSocketType"
        /\ ParseHelloFrom(TRUE, Body(EncodeWelcome(RADIX).val)).res = "UnknownCommand"
=============================================================================
