------------------------------ MODULE Commands ------------------------------
(***************************************************************************)
(* The commands of the handshake, octet by octet: READY and ERROR of       *)
(* null.rs, HELLO and WELCOME of plain.rs.  An octet is a number below     *)
(* RADIX.  A name, "READY" or "Socket-Type", is one octet long; what       *)
(* matters is that its length is written before it.  A value size has W    *)
(* octets, and sums of positions are taken in a usize.                     *)
(***************************************************************************)
EXTENDS Naturals, Sequences

CONSTANTS
    RADIX,      \* values of an octet: 256 in the code
    W,          \* octets of a value size: 4 in the code
    USIZE       \* values of a usize: RADIX^4 or RADIX^8

\* The powers of RADIX: Power[W] is the number of values of a value size.
Power[k \in 0 .. W] == IF k = 0 THEN 1 ELSE Power[k - 1] * RADIX

ASSUME CommandsAssumption ==
    /\ RADIX \in Nat /\ RADIX > 15
    /\ W \in Nat \ {0}
    /\ USIZE \in Nat /\ USIZE >= Power[W]

Octet == 0 .. RADIX - 1

COMMAND == 4            \* the flag

READY   == <<1>>
ERROR   == <<2>>
HELLO   == <<15>>
WELCOME == <<3>>
SocketType == {<<1>>, <<2>>}    \* the name of the property, in two spellings
SUB   == <<1>>
XSUB  == <<2>>
DISH  == <<15>>
PUB   == <<5>>
RADIO == <<6>>

\* A result: "Ok" with a value, or an error.
Value(v)  == [res |-> "Ok", val |-> v]
Fails(e)  == [res |-> e, val |-> <<>>]

\* The digits of n in W octets, and the number they stand for.
ToBE(n)   == [i \in 1 .. W |-> (n \div Power[W - i]) % RADIX]
FromBE(s) ==
    LET Read[i \in 0 .. W] == IF i = 0 THEN 0 ELSE Read[i - 1] * RADIX + s[i]
    IN  Read[W]

\* A name with its length, and a property with its value.
Named(name) == <<Len(name)>> \o name
Prop(name, val) == Named(name) \o ToBE(Len(val)) \o val

-----------------------------------------------------------------------------
(* Encoders, into a buffer of buf octets *)

Encoded(frame, buf) ==
    IF buf < Len(frame) THEN Fails("BufferTooSmall") ELSE Value(frame)

CommandFrame(body) == <<COMMAND, Len(body)>> \o body

EncodeReady(buf) ==
    Encoded(CommandFrame(Named(READY) \o Prop(CHOOSE n \in SocketType : TRUE, PUB)), buf)

EncodeReadyRadio(buf) ==
    Encoded(CommandFrame(Named(READY) \o Prop(CHOOSE n \in SocketType : TRUE, RADIO)), buf)

EncodeWelcome(buf) == Encoded(CommandFrame(Named(WELCOME)), buf)

\* Mutant: a size that an octet cannot hold.
ReasonTooLongOff(body_size) == body_size > RADIX

ReasonTooLong(body_size) == body_size > RADIX - 1

\* The size is cast to an octet.
EncodeError(buf, reason) ==
    LET body_size == 1 + Len(ERROR) + 1 + Len(reason)
    IN  IF ReasonTooLong(body_size) THEN Fails("ReasonTooLong")
        ELSE Encoded(<<COMMAND, body_size % RADIX>> \o Named(ERROR)
                        \o <<Len(reason) % RADIX>> \o reason, buf)

-----------------------------------------------------------------------------
(* Parsers *)

\* The beginning of parse_ready_command and of parse_hello_from.
CheckName(is_command, body, expected, malformed) ==
    IF ~is_command THEN "NotACommand"
    ELSE IF body = <<>> \/ Len(body) < 1 + body[1] THEN malformed
    ELSE LET name == SubSeq(body, 2, 1 + body[1])
         IN  IF name = ERROR THEN "PeerError"
             ELSE IF name # expected THEN "UnknownCommand" ELSE "Ok"

\* Mutant: the end of the value is computed in the width of its size.
EndOfU32(at, len) == (at + len) % Power[W]

\* at + len in a usize.  A sum that wraps is a panic where overflow is checked.
\* Where it is not it is less than at, passes for a position in the body, and
\* the slice from at to it panics.
EndOf(at, len) == (at + len) % USIZE

\* One turn of the loop over the metadata, for the property after pos octets.
ReadProperty(body, pos) ==
    LET name_at == pos + 1
        size_at == name_at + body[pos + 1]
        val_at  == size_at + W
        end     == EndOf(val_at, FromBE(SubSeq(body, size_at + 1, val_at)))
    IN  IF \/ size_at > Len(body)
           \/ val_at > Len(body)
           \/ end > Len(body)
        THEN [res |-> "MalformedMetadata"]
        ELSE IF end < val_at THEN [res |-> "panic"]
        ELSE [res |-> "Ok", name |-> SubSeq(body, name_at + 1, size_at),
              val |-> SubSeq(body, val_at + 1, end), next |-> end]

\* Mutant: the loop ends with the first property.
FindSocketTypeFirst(body, start) ==
    LET p == ReadProperty(body, start)
    IN  IF start >= Len(body) THEN Fails("WrongSocketType")
        ELSE IF p.res # "Ok" THEN Fails(p.res)
        ELSE IF p.name \in SocketType THEN Value(p.val) ELSE Fails("WrongSocketType")

\* The loop: the value of the first property named Socket-Type.
FindSocketType(body, start) ==
    LET From[pos \in 0 .. Len(body)] ==
            IF pos = Len(body) THEN Fails("WrongSocketType")
            ELSE LET p == ReadProperty(body, pos)
                 IN  IF p.res # "Ok" THEN Fails(p.res)
                     ELSE IF p.name \in SocketType THEN Value(p.val)
                     ELSE From[p.next]
    IN  From[start]

ParseReadyCommand(is_command, body) ==
    LET res == CheckName(is_command, body, READY, "MalformedMetadata")
    IN  IF res # "Ok" THEN Fails(res) ELSE FindSocketType(body, 1 + body[1])

\* parse_ready_from and parse_ready_radio_from, by the types they take.
ParseReadyFrom(is_command, body, types) ==
    LET r == ParseReadyCommand(is_command, body)
    IN  IF r.res = "Ok" /\ r.val \notin types THEN Fails("WrongSocketType") ELSE r

\* parse_ready and parse_ready_radio, on a frame with a size of one octet.
ParseReady(buf, types) ==
    IF Len(buf) < 3 \/ Len(buf) < 2 + buf[2] THEN Fails("MalformedMetadata")
    ELSE ParseReadyFrom((buf[1] \div COMMAND) % 2 = 1, SubSeq(buf, 3, 2 + buf[2]), types)

\* Mutant: one octet has to follow.
ReadFieldBefore(body, pos) ==
    IF pos >= Len(body) \/ pos + 1 + body[pos + 1] >= Len(body)
    THEN Fails("MalformedHello")
    ELSE Value(SubSeq(body, pos + 2, pos + 1 + body[pos + 1]))

\* The field of a HELLO after pos octets: its length and its octets.
ReadField(body, pos) ==
    IF pos >= Len(body) \/ pos + 1 + body[pos + 1] > Len(body)
    THEN Fails("MalformedHello")
    ELSE Value(SubSeq(body, pos + 2, pos + 1 + body[pos + 1]))

\* The user name and the password; anything may follow.
ParseHelloFrom(is_command, body) ==
    LET res  == CheckName(is_command, body, HELLO, "MalformedHello")
        at   == 1 + body[1]
        user == ReadField(body, at)
        pass == ReadField(body, at + 1 + Len(user.val))
    IN  IF res # "Ok" THEN Fails(res)
        ELSE IF user.res # "Ok" THEN user
        ELSE IF pass.res # "Ok" THEN pass
        ELSE Value(<<user.val, pass.val>>)
=============================================================================
