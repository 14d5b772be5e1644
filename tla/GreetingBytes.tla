--------------------------- MODULE GreetingBytes ---------------------------
(***************************************************************************)
(* The greeting of greeting.rs, octet by octet, as it arrives: the         *)
(* encoders, the early check of the first octets and the final parsers.    *)
(* The padding of the signature and the filler, which nothing looks at,    *)
(* are one octet together, and the field of the mechanism is shorter.      *)
(***************************************************************************)
EXTENDS Naturals, Sequences

CONSTANT MECH_LEN       \* octets of the mechanism: 20 in the code

\* The field has room for the names; in the code they have at most 5 octets.
ASSUME FieldAssumption == MECH_LEN \in Nat /\ MECH_LEN >= 2

\* Positions, from 1.
SIG0 == 1
SIG9 == 2
VERSION_MAJOR == 3
VERSION_MINOR == 4
MECHANISM == 5
AS_SERVER == MECHANISM + MECH_LEN
GREETING_LEN == AS_SERVER + 1
GREETING_PARTIAL_LEN == VERSION_MAJOR

\* The names of the mechanisms; one is longer than the other.
NULL  == <<1>>
PLAIN == <<2, 1>>
Parsed == {NULL, PLAIN}         \* what the parsers expect

Padded(name) == [i \in 1 .. MECH_LEN |-> IF i <= Len(name) THEN name[i] ELSE 0]

\* encode_greeting and encode_plain_greeting: a PLAIN server says that it is one.
EncodeGreeting(name) ==
    <<255, 127, 3, 1>> \o Padded(name) \o <<IF name = PLAIN THEN 1 ELSE 0>> \o <<0>>

-----------------------------------------------------------------------------
\* Mutant: the version is left to the final check.
ParsePartialSignature(g) ==
    IF g[SIG0] # 255 \/ g[SIG9] # 127 THEN "InvalidSignature" ELSE "Ok"

ParsePartialGreeting(g) ==
    IF g[SIG0] # 255 \/ g[SIG9] # 127 THEN "InvalidSignature"
    ELSE IF g[VERSION_MAJOR] # 3 THEN "UnsupportedVersionMajor"
    ELSE "Ok"

\* Mutant: the name is enough, whatever follows it in the field.
IsMechanismPrefix(g, name) == SubSeq(g, MECHANISM, MECHANISM + Len(name) - 1) = name

\* The name, and zeros up to the end of the field.
IsMechanism(g, name) ==
    /\ SubSeq(g, MECHANISM, MECHANISM + Len(name) - 1) = name
    /\ \A i \in MECHANISM + Len(name) .. MECHANISM + MECH_LEN - 1 : g[i] = 0

\* parse_greeting for NULL and parse_plain_greeting for PLAIN.
ParseGreeting(g, name) ==
    IF g[SIG0] # 255 \/ g[SIG9] # 127 THEN "InvalidSignature"
    ELSE IF g[VERSION_MAJOR] # 3 THEN "UnsupportedVersionMajor"
    ELSE IF ~IsMechanism(g, name) THEN "UnsupportedMechanism"
    ELSE IF g[AS_SERVER] # 0 THEN "InvalidAsServer"
    ELSE "Ok"

-----------------------------------------------------------------------------
(* The peer's greeting arrives. *)

VARIABLES
    g,          \* the octets so far
    early       \* what the early check said, when there was enough for it

greetingVars == <<g, early>>

\* Right and wrong octets for each position.
OctetsAt(i) ==
    IF i = SIG0 THEN {255, 0}
    ELSE IF i = SIG9 THEN {127, 0}
    ELSE IF i = VERSION_MAJOR THEN {2, 3}
    ELSE IF i \in MECHANISM .. AS_SERVER - 1 THEN {0, 1, 2}
    ELSE {0, 1}

GreetingInit == g = <<>> /\ early = "none"

\* feed_greeting calls the early check once, when there is enough for it.
Receive(b) ==
    /\ Len(g) < GREETING_LEN
    /\ g' = Append(g, b)
    /\ early' = IF Len(g') = GREETING_PARTIAL_LEN THEN ParsePartialGreeting(g') ELSE early

GreetingNext == Len(g) < GREETING_LEN /\ \E b \in OctetsAt(Len(g) + 1) : Receive(b)

GreetingSpec == GreetingInit /\ [][GreetingNext]_greetingVars

-----------------------------------------------------------------------------
Complete == Len(g) = GREETING_LEN

\* A peer that is refused early would have been refused by the whole greeting,
\* for the same reason, and the other way round: whether its greeting comes in one
\* read or in many makes no difference.
EarlyIsFinal ==
    Complete =>
        \A name \in Parsed :
            LET final == ParseGreeting(g, name)
            IN  /\ early # "Ok" => final = early
                /\ early = "Ok" => final \notin {"InvalidSignature", "UnsupportedVersionMajor"}

\* A greeting is accepted only if it is what a client of that mechanism sends,
\* but for the minor version and what nothing looks at; so that no name that
\* begins like a mechanism passes for it, and two PLAIN servers never talk.
AcceptedIsEncoded ==
    Complete =>
        \A name \in Parsed :
            (ParseGreeting(g, name) = "Ok") =
                ([EncodeGreeting(name) EXCEPT ![VERSION_MINOR] = g[VERSION_MINOR],
                                              ![GREETING_LEN] = g[GREETING_LEN],
                                              ![AS_SERVER] = 0] = g)
=============================================================================
