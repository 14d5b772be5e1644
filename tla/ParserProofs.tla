---------------------------- MODULE ParserProofs ----------------------------
(***************************************************************************)
(* The parsers of the handshake agree with the encoding and with the       *)
(* encoders: the greeting, for every length of the mechanism's field that  *)
(* has room for the names, and the commands READY, HELLO and ERROR, for    *)
(* every body, every width of a value's size and every base of an octet    *)
(* that has room for the encoders' bodies.                                 *)
(***************************************************************************)
EXTENDS GreetingBytes, CommandsSpec, Integers, SequenceTheorems, WellFoundedInduction, TLAPS

-----------------------------------------------------------------------------
(* The greeting *)

GreetingOctets == {0, 1, 2, 3, 127, 255}

\* What has arrived fits the greeting, and once there is enough for it the
\* early check has said what it says of the octets now.
GInv ==
    /\ g \in Seq(GreetingOctets) /\ Len(g) <= GREETING_LEN
    /\ Len(g) >= GREETING_PARTIAL_LEN => early = ParsePartialGreeting(g)

-----------------------------------------------------------------------------
\* The early check looks at nothing beyond the major version.
LEMMA EarlyLooksAtBeginning ==
    ASSUME NEW s \in Seq(GreetingOctets), NEW b \in GreetingOctets, Len(s) >= GREETING_PARTIAL_LEN
    PROVE  ParsePartialGreeting(Append(s, b)) = ParsePartialGreeting(s)
  <1>1. Len(s) \in Nat /\ Len(s) >= 3
    BY DEF GREETING_PARTIAL_LEN, VERSION_MAJOR
  <1>2. \A i \in 1 .. Len(s) : Append(s, b)[i] = s[i]
    OBVIOUS
  <1>3. Append(s, b)[1] = s[1] /\ Append(s, b)[2] = s[2] /\ Append(s, b)[3] = s[3]
    BY <1>1, <1>2
  <1> QED
    BY <1>3 DEF ParsePartialGreeting, SIG0, SIG9, VERSION_MAJOR

\* The invariant of the greeting, however it is cut.
THEOREM Invariance ==
    GreetingSpec => []GInv
  <1>1. GREETING_LEN \in Nat /\ GREETING_PARTIAL_LEN = 3
    BY FieldAssumption DEF GREETING_LEN, AS_SERVER, MECHANISM, GREETING_PARTIAL_LEN, VERSION_MAJOR
  <1>2. GreetingInit => GInv
    BY <1>1 DEF GreetingInit, GInv
  <1>3. ASSUME GInv, [GreetingNext]_greetingVars PROVE GInv'
    <2>1. CASE UNCHANGED greetingVars
      BY <1>3, <2>1 DEF GInv, greetingVars
    <2>2. CASE GreetingNext
      <3>1. PICK b \in OctetsAt(Len(g) + 1) : Receive(b)
        BY <2>2 DEF GreetingNext
      <3>2. b \in GreetingOctets
        BY DEF OctetsAt, GreetingOctets
      <3>3. g \in Seq(GreetingOctets) /\ Len(g) \in Nat /\ Len(g) < GREETING_LEN
        BY <1>3, <3>1 DEF GInv, Receive
      <3>4. g' = Append(g, b) /\ g' \in Seq(GreetingOctets) /\ Len(g') = Len(g) + 1
        BY <3>1, <3>2, <3>3 DEF Receive
      <3>5. CASE Len(g) < 2
        BY <1>1, <3>3, <3>4, <3>5 DEF GInv
      <3>6. CASE Len(g) = 2
        BY <1>1, <3>1, <3>3, <3>4, <3>6 DEF GInv, Receive
      <3>7. CASE Len(g) >= 3
        <4>1. early' = early /\ early = ParsePartialGreeting(g)
          BY <1>1, <1>3, <3>1, <3>3, <3>4, <3>7 DEF GInv, Receive
        <4>2. ParsePartialGreeting(g') = ParsePartialGreeting(g)
          BY <1>1, <3>2, <3>3, <3>4, <3>7, EarlyLooksAtBeginning
        <4>3. Len(g') <= GREETING_LEN
          BY <1>1, <3>3, <3>4
        <4>4. early' = ParsePartialGreeting(g')
          BY <4>1, <4>2
        <4> QED
          BY <3>4, <4>3, <4>4 DEF GInv
      <3>8. Len(g) < 2 \/ Len(g) = 2 \/ Len(g) >= 3
        <4>1. \A k \in Nat : k < 2 \/ k = 2 \/ k >= 3
          OBVIOUS
        <4> QED
          BY <3>3, <4>1, Zenon
      <3> QED
        BY <3>5, <3>6, <3>7, <3>8
    <2> QED
      BY <1>3, <2>1, <2>2
  <1> QED
    BY <1>2, <1>3, PTL DEF GreetingSpec

\* However the octets of a greeting come in reads, a peer that is refused
\* early is refused by the whole greeting for the same reason, and one that is
\* not is not refused for such a reason later.
THEOREM EarlyIsFinalCorrect ==
    GreetingSpec => []EarlyIsFinal
  <1>1. GInv => EarlyIsFinal
    <2> SUFFICES ASSUME GInv, Complete, NEW name \in Parsed
                 PROVE  /\ early # "Ok" => ParseGreeting(g, name) = early
                        /\ early = "Ok" =>
                              ParseGreeting(g, name) \notin {"InvalidSignature", "UnsupportedVersionMajor"}
      BY DEF EarlyIsFinal
    <2>1. early = ParsePartialGreeting(g)
      BY FieldAssumption DEF GInv, Complete, GREETING_LEN, AS_SERVER, MECHANISM, GREETING_PARTIAL_LEN, VERSION_MAJOR
    <2> QED
      BY <2>1 DEF ParsePartialGreeting, ParseGreeting
  <1> QED
    BY <1>1, Invariance, PTL

-----------------------------------------------------------------------------
\* What two sequences together have at each place.
LEMMA Joined ==
    ASSUME NEW s \in Seq(GreetingOctets), NEW t \in Seq(GreetingOctets)
    PROVE  /\ s \o t \in Seq(GreetingOctets) /\ Len(s \o t) = Len(s) + Len(t)
           /\ \A i \in 1 .. Len(s) : (s \o t)[i] = s[i]
           /\ \A i \in 1 .. Len(t) : (s \o t)[Len(s) + i] = t[i]
  <1>1. \A i \in 1 .. Len(s) + Len(t) : (s \o t)[i] = IF i <= Len(s) THEN s[i] ELSE t[i - Len(s)]
    BY ConcatProperties
  <1>2. s \o t \in Seq(GreetingOctets) /\ Len(s \o t) = Len(s) + Len(t)
    BY ConcatProperties
  <1>3. ASSUME NEW i \in 1 .. Len(s) PROVE (s \o t)[i] = s[i]
    BY <1>1
  <1>4. ASSUME NEW i \in 1 .. Len(t) PROVE (s \o t)[Len(s) + i] = t[i]
    <2>1. Len(s) + i \in 1 .. Len(s) + Len(t) /\ ~(Len(s) + i <= Len(s)) /\ (Len(s) + i) - Len(s) = i
      OBVIOUS
    <2> QED
      BY <1>1, <2>1
  <1> QED
    BY <1>2, <1>3, <1>4

\* The octets of the greeting that is written, place by place.
LEMMA EncodedOctets ==
    ASSUME NEW name \in Parsed
    PROVE  /\ EncodeGreeting(name) \in Seq(GreetingOctets) /\ Len(EncodeGreeting(name)) = MECH_LEN + 6
           /\ EncodeGreeting(name)[1] = 255 /\ EncodeGreeting(name)[2] = 127 /\ EncodeGreeting(name)[3] = 3
           /\ \A i \in 1 .. MECH_LEN : EncodeGreeting(name)[4 + i] = Padded(name)[i]
  <1>1. MECH_LEN \in Nat /\ MECH_LEN >= 2
    BY FieldAssumption
  <1>2. PICK h \in Seq(GreetingOctets) : h = <<255, 127, 3, 1>> /\ Len(h) = 4 /\ h[1] = 255 /\ h[2] = 127 /\ h[3] = 3
    <2>1. <<255, 127, 3, 1>> \in Seq(GreetingOctets)
      BY DEF GreetingOctets
    <2> QED
      BY <2>1
  <1>3. PICK p \in Seq(GreetingOctets) : p = Padded(name) /\ Len(p) = MECH_LEN
    <2> DEFINE q == Padded(name)
    <2>1. \A i \in 1 .. MECH_LEN : q[i] \in GreetingOctets
      BY <1>1 DEF Padded, GreetingOctets, Parsed, NULL, PLAIN
    <2>2. DOMAIN q = 1 .. MECH_LEN /\ q = [i \in 1 .. MECH_LEN |-> q[i]]
      BY DEF Padded
    <2> HIDE DEF q
    <2>3. q \in [1 .. MECH_LEN -> GreetingOctets]
      BY <2>1, <2>2
    <2>4. q \in Seq(GreetingOctets) /\ Len(q) = MECH_LEN
      BY <1>1, <2>2, <2>3
    <2> QED
      BY <2>4, Zenon DEF q
  <1>4. PICK a \in Seq(GreetingOctets) : a = <<IF name = PLAIN THEN 1 ELSE 0>> /\ Len(a) = 1
    <2>1. (IF name = PLAIN THEN 1 ELSE 0) \in GreetingOctets
      BY DEF GreetingOctets
    <2>2. \A x \in GreetingOctets : <<x>> \in Seq(GreetingOctets) /\ Len(<<x>>) = 1
      OBVIOUS
    <2> QED
      BY <2>1, <2>2, Zenon
  <1>5. PICK z \in Seq(GreetingOctets) : z = <<0>> /\ Len(z) = 1
    <2>1. <<0>> \in Seq(GreetingOctets) /\ Len(<<0>>) = 1
      BY DEF GreetingOctets
    <2> QED
      BY <2>1
  <1>6. EncodeGreeting(name) = ((h \o p) \o a) \o z
    <2>1. h = <<255, 127, 3, 1>> /\ p = Padded(name) /\ a = <<IF name = PLAIN THEN 1 ELSE 0>> /\ z = <<0>>
      BY <1>2, <1>3, <1>4, <1>5, Zenon
    <2>2. EncodeGreeting(name) = ((<<255, 127, 3, 1>> \o Padded(name)) \o <<IF name = PLAIN THEN 1 ELSE 0>>) \o <<0>>
      BY DEF EncodeGreeting
    <2> QED
      BY <2>1, <2>2
  <1>7. /\ EncodeGreeting(name) \in Seq(GreetingOctets) /\ Len(EncodeGreeting(name)) = MECH_LEN + 6
        /\ EncodeGreeting(name)[1] = h[1] /\ EncodeGreeting(name)[2] = h[2] /\ EncodeGreeting(name)[3] = h[3]
        /\ \A i \in 1 .. MECH_LEN : EncodeGreeting(name)[4 + i] = p[i]
    <2>1. Len(h) = 4 /\ Len(p) = MECH_LEN /\ Len(a) = 1 /\ Len(z) = 1
      BY <1>2, <1>3, <1>4, <1>5, Zenon
    <2>2. PICK e : e = EncodeGreeting(name)
      OBVIOUS
    <2>3. e = ((h \o p) \o a) \o z
      BY <1>6, <2>2, Zenon
    <2>4. /\ h \o p \in Seq(GreetingOctets) /\ Len(h \o p) = 4 + MECH_LEN
          /\ \A i \in 1 .. 4 : (h \o p)[i] = h[i]
          /\ \A i \in 1 .. MECH_LEN : (h \o p)[4 + i] = p[i]
      <3>1. /\ h \o p \in Seq(GreetingOctets) /\ Len(h \o p) = Len(h) + Len(p)
            /\ \A i \in 1 .. Len(h) : (h \o p)[i] = h[i]
            /\ \A i \in 1 .. Len(p) : (h \o p)[Len(h) + i] = p[i]
        BY Joined, Zenon
      <3> QED
        BY <2>1, <3>1, Zenon
    <2>5. PICK u : u = h \o p
      OBVIOUS
    <2>6. /\ u \in Seq(GreetingOctets) /\ Len(u) = 4 + MECH_LEN
          /\ \A i \in 1 .. 4 : u[i] = h[i]
          /\ \A i \in 1 .. MECH_LEN : u[4 + i] = p[i]
      BY <2>4, <2>5, Zenon
    <2>7. PICK v : v = u \o a
      OBVIOUS
    <2>8. v \in Seq(GreetingOctets) /\ Len(v) = (4 + MECH_LEN) + 1 /\ \A i \in 1 .. 4 + MECH_LEN : v[i] = u[i]
      <3>1. /\ u \o a \in Seq(GreetingOctets) /\ Len(u \o a) = Len(u) + Len(a)
            /\ \A i \in 1 .. Len(u) : (u \o a)[i] = u[i]
        BY <2>6, Joined, Zenon
      <3> QED
        BY <2>1, <2>6, <2>7, <3>1, Zenon
    <2>9. e = v \o z
      BY <2>3, <2>5, <2>7, Zenon
    <2>10. /\ e \in Seq(GreetingOctets) /\ Len(e) = ((4 + MECH_LEN) + 1) + 1
           /\ \A i \in 1 .. (4 + MECH_LEN) + 1 : e[i] = v[i]
      <3>1. /\ v \o z \in Seq(GreetingOctets) /\ Len(v \o z) = Len(v) + Len(z)
            /\ \A i \in 1 .. Len(v) : (v \o z)[i] = v[i]
        BY <2>8, Joined, Zenon
      <3> QED
        BY <2>1, <2>8, <2>9, <3>1, Zenon
    <2>11. \A i \in 1 .. 4 + MECH_LEN : i \in 1 .. (4 + MECH_LEN) + 1
      BY <1>1
    <2>12. \A i \in 1 .. 4 + MECH_LEN : e[i] = u[i]
      BY <2>8, <2>10, <2>11, Zenon
    <2>13. e[1] = h[1] /\ e[2] = h[2] /\ e[3] = h[3]
      <3>1. \A i \in 1 .. 4 : i \in 1 .. 4 + MECH_LEN
        BY <1>1
      <3>2. \A i \in 1 .. 4 : e[i] = h[i]
        BY <2>6, <2>12, <3>1, Zenon
      <3> QED
        BY <3>2
    <2>14. \A i \in 1 .. MECH_LEN : e[4 + i] = p[i]
      <3>1. \A i \in 1 .. MECH_LEN : 4 + i \in 1 .. 4 + MECH_LEN
        BY <1>1
      <3> QED
        BY <2>6, <2>12, <3>1, Zenon
    <2>15. ((4 + MECH_LEN) + 1) + 1 = MECH_LEN + 6
      BY <1>1
    <2> QED
      BY <2>2, <2>10, <2>13, <2>14, <2>15, Zenon
  <1> QED
    BY <1>2, <1>3, <1>7, Zenon

\* The octets that nothing looks at, and one more, replaced.
LEMMA ThreeReplaced ==
    ASSUME NEW n \in Nat, n >= 2, NEW c, DOMAIN c = 1 .. n + 6, NEW x, NEW y,
           NEW b, b = [c EXCEPT ![4] = x, ![n + 6] = y, ![n + 5] = 0]
    PROVE  /\ DOMAIN b = 1 .. n + 6 /\ b[n + 5] = 0 /\ b[4] = x /\ b[n + 6] = y
           /\ \A i \in 1 .. n + 6 : i \notin {4, n + 5, n + 6} => b[i] = c[i]
  <1>1. 4 \in 1 .. n + 6 /\ n + 5 \in 1 .. n + 6 /\ n + 6 \in 1 .. n + 6 /\ n + 5 # n + 6 /\ n + 5 # 4 /\ n + 6 # 4
    OBVIOUS
  <1> QED
    BY <1>1

\* The first octets of the field, cut out.
LEMMA Cut ==
    ASSUME NEW s \in Seq(GreetingOctets), Len(s) >= 6
    PROVE  SubSeq(s, 5, 5) = <<s[5]>> /\ SubSeq(s, 5, 6) = <<s[5], s[6]>>
  <1>1. 5 \in 1 .. Len(s) + 1 /\ 5 \in 1 .. Len(s) /\ 6 \in 1 .. Len(s)
    OBVIOUS
  <1>2. /\ SubSeq(s, 5, 5) \in Seq(GreetingOctets) /\ Len(SubSeq(s, 5, 5)) = 1
        /\ SubSeq(s, 5, 5)[1] = s[5]
    BY <1>1
  <1>3. /\ SubSeq(s, 5, 6) \in Seq(GreetingOctets) /\ Len(SubSeq(s, 5, 6)) = 2
        /\ SubSeq(s, 5, 6)[1] = s[5] /\ SubSeq(s, 5, 6)[2] = s[6]
    BY <1>1
  <1> DEFINE u == SubSeq(s, 5, 5)
             v == SubSeq(s, 5, 6)
  <1> HIDE DEF u, v
  <1>4. u = <<s[5]>>
    <2>1. u \in Seq(GreetingOctets) /\ Len(u) = 1 /\ u[1] = s[5]
      BY <1>2 DEF u
    <2> QED
      BY <2>1
  <1>5. v = <<s[5], s[6]>>
    <2>1. v \in Seq(GreetingOctets) /\ Len(v) = 2 /\ v[1] = s[5] /\ v[2] = s[6]
      BY <1>3 DEF v
    <2> QED
      BY <2>1
  <1> QED
    BY <1>4, <1>5 DEF u, v

\* The field of the mechanism is checked octet by octet.
LEMMA MechanismOctets ==
    ASSUME NEW s \in Seq(GreetingOctets), Len(s) = GREETING_LEN, NEW name \in Parsed
    PROVE  IsMechanism(s, name) <=> \A i \in 1 .. MECH_LEN : s[4 + i] = Padded(name)[i]
  <1>1. MECH_LEN \in Nat /\ MECH_LEN >= 2 /\ Len(s) = MECH_LEN + 6 /\ MECHANISM = 5
    BY FieldAssumption DEF GREETING_LEN, AS_SERVER, MECHANISM
  <1>2. CASE name = <<1>>
    <2>1. Len(name) = 1 /\ name[1] = 1 /\ \A i \in 1 .. MECH_LEN : Padded(name)[i] = IF i = 1 THEN 1 ELSE 0
      BY <1>1, <1>2 DEF Padded
    <2>2. SubSeq(s, 5, 5) = <<s[5]>>
      BY <1>1, Cut
    <2>3. SubSeq(s, 5, 5) = name <=> s[5] = 1
      BY <1>2, <2>2
    <2>4. IsMechanism(s, name) <=> s[5] = 1 /\ \A i \in 6 .. MECH_LEN + 4 : s[i] = 0
      BY <1>1, <2>1, <2>3 DEF IsMechanism
    <2>5. ASSUME \A i \in 1 .. MECH_LEN : s[4 + i] = IF i = 1 THEN 1 ELSE 0
          PROVE  s[5] = 1 /\ \A i \in 6 .. MECH_LEN + 4 : s[i] = 0
      <3>1. s[4 + 1] = 1
        BY <1>1, <2>5
      <3>2. ASSUME NEW i \in 6 .. MECH_LEN + 4 PROVE s[i] = 0
        <4>1. i - 4 \in 1 .. MECH_LEN /\ i - 4 # 1 /\ 4 + (i - 4) = i
          BY <1>1
        <4> QED
          BY <2>5, <4>1
      <3> QED
        BY <3>1, <3>2
    <2>6. ASSUME s[5] = 1, \A i \in 6 .. MECH_LEN + 4 : s[i] = 0, NEW i \in 1 .. MECH_LEN
          PROVE  s[4 + i] = IF i = 1 THEN 1 ELSE 0
      BY <1>1, <2>6
    <2> QED
      BY <2>1, <2>4, <2>5, <2>6
  <1>3. CASE name = <<2, 1>>
    <2>1. /\ Len(name) = 2 /\ name[1] = 2 /\ name[2] = 1
          /\ \A i \in 1 .. MECH_LEN : Padded(name)[i] = IF i = 1 THEN 2 ELSE IF i = 2 THEN 1 ELSE 0
      BY <1>1, <1>3 DEF Padded
    <2>2. SubSeq(s, 5, 6) = <<s[5], s[6]>>
      BY <1>1, Cut
    <2>3. SubSeq(s, 5, 6) = name <=> s[5] = 2 /\ s[6] = 1
      BY <1>3, <2>2
    <2>4. IsMechanism(s, name) <=> s[5] = 2 /\ s[6] = 1 /\ \A i \in 7 .. MECH_LEN + 4 : s[i] = 0
      BY <1>1, <2>1, <2>3 DEF IsMechanism
    <2>5. ASSUME \A i \in 1 .. MECH_LEN : s[4 + i] = IF i = 1 THEN 2 ELSE IF i = 2 THEN 1 ELSE 0
          PROVE  s[5] = 2 /\ s[6] = 1 /\ \A i \in 7 .. MECH_LEN + 4 : s[i] = 0
      <3>1. s[4 + 1] = 2 /\ s[4 + 2] = 1
        <4>1. 1 \in 1 .. MECH_LEN /\ 2 \in 1 .. MECH_LEN
          BY <1>1
        <4> QED
          BY <2>5, <4>1
      <3>2. ASSUME NEW i \in 7 .. MECH_LEN + 4 PROVE s[i] = 0
        <4>1. i - 4 \in 1 .. MECH_LEN /\ i - 4 # 1 /\ i - 4 # 2 /\ 4 + (i - 4) = i
          BY <1>1
        <4> QED
          BY <2>5, <4>1
      <3> QED
        BY <3>1, <3>2
    <2>6. ASSUME s[5] = 2, s[6] = 1, \A i \in 7 .. MECH_LEN + 4 : s[i] = 0, NEW i \in 1 .. MECH_LEN
          PROVE  s[4 + i] = IF i = 1 THEN 2 ELSE IF i = 2 THEN 1 ELSE 0
      BY <1>1, <2>6
    <2> QED
      BY <2>1, <2>4, <2>5, <2>6
  <1> QED
    BY <1>2, <1>3 DEF Parsed, NULL, PLAIN

\* A greeting is accepted exactly if it is, but for the minor version and what
\* nothing looks at, what a client of the mechanism writes: no other name
\* passes for that of a mechanism, and two PLAIN servers never talk.
THEOREM AcceptedIsEncodedCorrect ==
    GreetingSpec => []AcceptedIsEncoded
  <1>1. GInv => AcceptedIsEncoded
    <2> SUFFICES ASSUME GInv, Complete, NEW name \in Parsed
                 PROVE  (ParseGreeting(g, name) = "Ok") =
                           ([EncodeGreeting(name) EXCEPT ![VERSION_MINOR] = g[VERSION_MINOR],
                                                         ![GREETING_LEN] = g[GREETING_LEN],
                                                         ![AS_SERVER] = 0] = g)
      BY DEF AcceptedIsEncoded
    <2> DEFINE e == EncodeGreeting(name)
               n == MECH_LEN
               d == [e EXCEPT ![4] = g[4], ![n + 6] = g[n + 6], ![n + 5] = 0]
    <2>1. n \in Nat /\ n >= 2 /\ GREETING_LEN = n + 6 /\ AS_SERVER = n + 5 /\ VERSION_MINOR = 4
      BY FieldAssumption DEF GREETING_LEN, AS_SERVER, MECHANISM, VERSION_MINOR
    <2>2. g \in Seq(GreetingOctets) /\ Len(g) = n + 6
      BY <2>1 DEF GInv, Complete
    <2>3. /\ e \in Seq(GreetingOctets) /\ Len(e) = n + 6 /\ e[1] = 255 /\ e[2] = 127 /\ e[3] = 3
          /\ \A i \in 1 .. n : e[4 + i] = Padded(name)[i]
      BY <2>1, EncodedOctets
    <2>4. ParseGreeting(g, name) = "Ok" <=>
             /\ g[1] = 255 /\ g[2] = 127 /\ g[3] = 3
             /\ \A i \in 1 .. n : g[4 + i] = Padded(name)[i]
             /\ g[n + 5] = 0
      <3>1. IsMechanism(g, name) <=> \A i \in 1 .. n : g[4 + i] = Padded(name)[i]
        BY <2>1, <2>2, MechanismOctets
      <3> QED
        BY <2>1, <3>1 DEF ParseGreeting, SIG0, SIG9, VERSION_MAJOR
    <2> HIDE DEF e, n
    <2>5. /\ DOMAIN d = 1 .. n + 6 /\ DOMAIN g = 1 .. n + 6 /\ d[n + 5] = 0
          /\ d[4] = g[4] /\ d[n + 6] = g[n + 6]
          /\ \A i \in 1 .. n + 6 : i \notin {4, n + 5, n + 6} => d[i] = e[i]
      <3>1. DOMAIN e = 1 .. n + 6 /\ DOMAIN g = 1 .. n + 6
        BY <2>2, <2>3
      <3> HIDE DEF d
      <3>2. d = [e EXCEPT ![4] = g[4], ![n + 6] = g[n + 6], ![n + 5] = 0]
        BY Zenon DEF d
      <3> QED
        BY <2>1, <3>1, <3>2, ThreeReplaced
    <2>6. d = [i \in DOMAIN d |-> d[i]] /\ g = [i \in DOMAIN g |-> g[i]]
      BY <2>2
    <2> HIDE DEF d
    <2>7. d = g <=> \A i \in 1 .. n + 6 : d[i] = g[i]
      BY <2>5, <2>6
    <2>8. ASSUME g[1] = 255, g[2] = 127, g[3] = 3, g[n + 5] = 0,
                 \A i \in 1 .. n : g[4 + i] = Padded(name)[i], NEW i \in 1 .. n + 6
          PROVE  d[i] = g[i]
      <3>1. CASE i \in {1, 2, 3}
        BY <2>1, <2>3, <2>5, <2>8, <3>1
      <3>2. CASE i \in {4, n + 5, n + 6}
        BY <2>5, <2>8, <3>2
      <3>3. CASE i \notin {1, 2, 3, 4, n + 5, n + 6}
        <4>1. i - 4 \in 1 .. n /\ 4 + (i - 4) = i
          BY <2>1, <3>3
        <4>2. e[i] = g[i]
          BY <2>3, <2>8, <4>1
        <4> QED
          BY <2>5, <3>3, <4>2
      <3> QED
        BY <3>1, <3>2, <3>3
    <2>9. ASSUME \A i \in 1 .. n + 6 : d[i] = g[i]
          PROVE  /\ g[1] = 255 /\ g[2] = 127 /\ g[3] = 3 /\ g[n + 5] = 0
                 /\ \A i \in 1 .. n : g[4 + i] = Padded(name)[i]
      <3>1. g[1] = 255 /\ g[2] = 127 /\ g[3] = 3 /\ g[n + 5] = 0
        BY <2>1, <2>3, <2>5, <2>9
      <3>2. ASSUME NEW i \in 1 .. n PROVE g[4 + i] = Padded(name)[i]
        <4>1. 4 + i \in 1 .. n + 6 /\ 4 + i \notin {4, n + 5, n + 6}
          BY <2>1
        <4> QED
          BY <2>3, <2>5, <2>9, <4>1
      <3> QED
        BY <3>1, <3>2
    <2>10. ParseGreeting(g, name) = "Ok" <=> d = g
      BY <2>4, <2>7, <2>8, <2>9
    <2> QED
      BY <2>1, <2>10, Zenon DEF d, e
  <1> QED
    BY <1>1, Invariance, PTL

-----------------------------------------------------------------------------
(* What stands in a body *)

\* The octets s stand in b after the first p.
At(b, p, s) == p + Len(s) <= Len(b) /\ \A i \in 1 .. Len(s) : b[p + i] = s[i]

\* A slice, octet by octet.
LEMMA SliceAt ==
    ASSUME NEW b \in Seq(Nat), NEW p \in Nat, NEW k \in Nat, p + k <= Len(b)
    PROVE  /\ SubSeq(b, p + 1, p + k) \in Seq(Nat) /\ Len(SubSeq(b, p + 1, p + k)) = k
           /\ At(b, p, SubSeq(b, p + 1, p + k))
  <1>1. Len(b) \in Nat
    OBVIOUS
  <1>2. PICK m \in Nat, n \in Nat : m = p + 1 /\ n = p + k
    OBVIOUS
  <1>3. \A i \in m .. n : b[i] \in Nat
    BY <1>1, <1>2
  <1>4. PICK s : s = SubSeq(b, m, n)
    OBVIOUS
  <1>5. n + 1 - m = k
    BY <1>2
  <1>6. s \in Seq(Nat) /\ Len(s) = k /\ \A i \in 1 .. k : s[i] = b[m + i - 1]
    <2>1. m \in Int /\ n \in Int /\ n - m + 1 = k /\ (m <= n \/ k = 0)
      BY <1>2, <1>5
    <2>2. /\ s \in Seq(Nat) /\ Len(s) = IF m <= n THEN n - m + 1 ELSE 0
          /\ \A i \in 1 .. n - m + 1 : s[i] = b[m + i - 1]
      BY <1>3, <1>4, <2>1, SubSeqProperties
    <2> QED
      BY <1>2, <2>1, <2>2
  <1>7. \A i \in 1 .. k : m + i - 1 = p + i
    BY <1>2
  <1>8. At(b, p, s)
    BY <1>6, <1>7 DEF At
  <1> QED
    BY <1>2, <1>4, <1>6, <1>8, Zenon

\* Two octet sequences of the same length that stand in the same place are the same.
LEMMA AtSame ==
    ASSUME NEW b, NEW p, NEW s \in Seq(Nat), NEW t \in Seq(Nat), At(b, p, s), At(b, p, t),
           Len(s) = Len(t)
    PROVE  s = t
  <1>1. \A i \in 1 .. Len(s) : s[i] = t[i]
    BY DEF At
  <1> QED
    BY <1>1, SeqEqual

\* What stands in a place is the slice there.
LEMMA SliceIs ==
    ASSUME NEW b \in Seq(Nat), NEW p \in Nat, NEW s \in Seq(Nat), At(b, p, s)
    PROVE  Len(s) \in Nat /\ p + Len(s) <= Len(b) /\ SubSeq(b, p + 1, p + Len(s)) = s
  <1>1. PICK k \in Nat : k = Len(s) /\ p + k <= Len(b)
    BY DEF At
  <1>2. PICK t : t = SubSeq(b, p + 1, p + k)
    OBVIOUS
  <1>3. t \in Seq(Nat) /\ Len(t) = k /\ At(b, p, t)
    <2>1. /\ SubSeq(b, p + 1, p + k) \in Seq(Nat) /\ Len(SubSeq(b, p + 1, p + k)) = k
          /\ At(b, p, SubSeq(b, p + 1, p + k))
      BY <1>1, SliceAt
    <2> QED
      BY <1>2, <2>1, Zenon
  <1>4. t = s
    BY <1>1, <1>3, AtSame
  <1> QED
    BY <1>1, <1>2, <1>4, Zenon

\* A slice of octets is octets.
LEMMA SliceType ==
    ASSUME NEW b \in Seq(Nat), NEW i \in 1 .. Len(b), NEW j \in 1 .. Len(b)
    PROVE  SubSeq(b, i, j) \in Seq(Nat)
  <1>1. i \in Int /\ j \in Int /\ \A x \in i .. j : b[x] \in Nat
    OBVIOUS
  <1> QED
    BY <1>1, SubSeqProperties

\* A prefix stands at the beginning.
LEMMA PrefixAt ==
    ASSUME NEW b \in Seq(Nat), NEW s \in Seq(Nat)
    PROVE  IsPrefix(s, b) <=> At(b, 0, s)
  <1>1. Len(b) \in Nat /\ Len(s) \in Nat /\ SubSeq(s, 1, Len(s)) = s
    OBVIOUS
  <1>2. CASE Len(s) <= Len(b)
    <2>1. PICK t : t = SubSeq(b, 0 + 1, 0 + Len(s))
      OBVIOUS
    <2>2. t \in Seq(Nat) /\ Len(t) = Len(s) /\ At(b, 0, t)
      <3>1. 0 \in Nat /\ 0 + Len(s) <= Len(b)
        BY <1>1, <1>2
      <3>2. PICK k \in Nat : k = Len(s) /\ 0 + k <= Len(b)
        BY <1>1, <3>1
      <3>3. /\ SubSeq(b, 0 + 1, 0 + k) \in Seq(Nat) /\ Len(SubSeq(b, 0 + 1, 0 + k)) = k
            /\ At(b, 0, SubSeq(b, 0 + 1, 0 + k))
        BY <3>1, <3>2, SliceAt
      <3> QED
        BY <2>1, <3>2, <3>3, Zenon
    <2>3. t = SubSeq(b, 1, Len(s))
      BY <1>1, <2>1
    <2>4. At(b, 0, s) => s = t
      BY <2>2, AtSame
    <2> QED
      BY <1>1, <1>2, <2>2, <2>3, <2>4, Zenon DEF IsPrefix
  <1>3. CASE ~(Len(s) <= Len(b))
    BY <1>1, <1>3 DEF IsPrefix, At
  <1> QED
    BY <1>2, <1>3

\* Two parts stand one after the other.
LEMMA AtBoth ==
    ASSUME NEW b \in Seq(Nat), NEW p \in Nat, NEW s \in Seq(Nat), NEW t \in Seq(Nat)
    PROVE  At(b, p, s \o t) <=> At(b, p, s) /\ At(b, p + Len(s), t)
  <1>1. PICK k \in Nat, n \in Nat, len \in Nat : k = Len(s) /\ n = Len(t) /\ len = Len(b)
    OBVIOUS
  <1>2. PICK st : st = s \o t
    OBVIOUS
  <1>3. /\ Len(st) = k + n
        /\ \A i \in 1 .. k : st[i] = s[i]
        /\ \A i \in 1 .. n : st[k + i] = t[i]
    BY <1>1, <1>2
  <1>4. ASSUME At(b, p, st) PROVE At(b, p, s) /\ At(b, p + k, t)
    <2>1. p + (k + n) <= len /\ \A i \in 1 .. k + n : b[p + i] = st[i]
      BY <1>1, <1>3, <1>4 DEF At
    <2>2. At(b, p, s)
      <3>1. \A i \in 1 .. k : i \in 1 .. k + n
        OBVIOUS
      <3>2. p + k <= len
        BY <2>1
      <3> QED
        BY <1>1, <1>3, <2>1, <3>1, <3>2, Zenon DEF At
    <2>3. At(b, p + k, t)
      <3>1. \A i \in 1 .. n : k + i \in 1 .. k + n /\ p + (k + i) = (p + k) + i
        OBVIOUS
      <3>2. (p + k) + n <= len
        BY <2>1
      <3>3. \A i \in 1 .. n : b[(p + k) + i] = t[i]
        BY <1>3, <2>1, <3>1
      <3> QED
        BY <1>1, <3>2, <3>3, Zenon DEF At
    <2> QED
      BY <2>2, <2>3
  <1>5. ASSUME At(b, p, s), At(b, p + k, t) PROVE At(b, p, st)
    <2>1. /\ \A i \in 1 .. k : b[p + i] = s[i]
          /\ (p + k) + n <= len /\ \A i \in 1 .. n : b[(p + k) + i] = t[i]
      BY <1>1, <1>5 DEF At
    <2>2. ASSUME NEW i \in 1 .. k + n PROVE b[p + i] = st[i]
      <3>1. CASE i <= k
        <4>1. i \in 1 .. k
          BY <3>1
        <4> QED
          BY <1>3, <2>1, <4>1, Zenon
      <3>2. CASE ~(i <= k)
        <4>1. PICK j \in 1 .. n : i = k + j
          <5>1. i - k \in 1 .. n /\ i = k + (i - k)
            BY <3>2
          <5> QED
            BY <5>1
        <4>2. p + i = (p + k) + j
          BY <4>1
        <4> QED
          BY <1>3, <2>1, <4>1, <4>2
      <3> QED
        BY <3>1, <3>2
    <2>3. p + (k + n) <= len
      BY <2>1
    <2> QED
      BY <1>1, <1>3, <2>2, <2>3 DEF At
  <1> QED
    BY <1>1, <1>2, <1>4, <1>5, Zenon

\* A single octet.
LEMMA AtOne ==
    ASSUME NEW b \in Seq(Nat), NEW p \in Nat, NEW x \in Nat
    PROVE  At(b, p, <<x>>) <=> p < Len(b) /\ b[p + 1] = x
  <1>1. Len(<<x>>) = 1 /\ <<x>>[1] = x /\ 1 .. 1 = {1} /\ Len(b) \in Nat
    OBVIOUS
  <1> QED
    BY <1>1 DEF At

\* A name with its length stands where the length is followed by the name.
LEMMA AtNamed ==
    ASSUME NEW b \in Seq(Nat), NEW p \in Nat, NEW x \in Seq(Nat)
    PROVE  At(b, p, Named(x)) <=> p < Len(b) /\ b[p + 1] = Len(x) /\ At(b, p + 1, x)
  <1>1. <<Len(x)>> \in Seq(Nat) /\ Len(<<Len(x)>>) = 1 /\ Len(x) \in Nat
    OBVIOUS
  <1>2. At(b, p, <<Len(x)>> \o x) <=> At(b, p, <<Len(x)>>) /\ At(b, p + Len(<<Len(x)>>), x)
    BY <1>1, AtBoth
  <1> QED
    BY <1>1, <1>2, AtOne DEF Named

\* There is one name at most.
LEMMA OneName ==
    ASSUME NEW b \in Seq(Nat), NEW p \in Nat, NEW x \in Seq(Nat), NEW y \in Seq(Nat),
           At(b, p, Named(x)), At(b, p, Named(y))
    PROVE  x = y
  BY AtNamed, AtSame

\* There is one exactly if the length is there, and as much as it says.
LEMMA NameThere ==
    ASSUME NEW b \in Seq(Nat), NEW p \in Nat
    PROVE  IF p < Len(b) /\ p + 1 + b[p + 1] <= Len(b)
           THEN /\ SubSeq(b, p + 2, p + 1 + b[p + 1]) \in Seq(Nat)
                /\ Len(SubSeq(b, p + 2, p + 1 + b[p + 1])) = b[p + 1]
                /\ At(b, p, Named(SubSeq(b, p + 2, p + 1 + b[p + 1])))
           ELSE \A x \in Seq(Nat) : ~At(b, p, Named(x))
  <1>1. Len(b) \in Nat
    OBVIOUS
  <1>2. CASE p < Len(b) /\ p + 1 + b[p + 1] <= Len(b)
    <2>1. PICK l \in Nat : l = b[p + 1]
      BY <1>1, <1>2
    <2>2. PICK x : x = SubSeq(b, (p + 1) + 1, (p + 1) + l)
      OBVIOUS
    <2>3. p + 1 \in Nat /\ (p + 1) + l <= Len(b)
      BY <1>2, <2>1
    <2>4. x \in Seq(Nat) /\ Len(x) = l /\ At(b, p + 1, x)
      BY <2>2, <2>3, SliceAt
    <2>5. At(b, p, Named(x))
      BY <1>2, <2>1, <2>4, AtNamed
    <2>6. (p + 1) + 1 = p + 2 /\ (p + 1) + l = p + 1 + l
      OBVIOUS
    <2> QED
      BY <1>2, <2>1, <2>2, <2>4, <2>5, <2>6, Zenon
  <1>3. CASE ~(p < Len(b) /\ p + 1 + b[p + 1] <= Len(b))
    <2> SUFFICES ASSUME NEW x \in Seq(Nat), At(b, p, Named(x)) PROVE FALSE
      BY <1>3
    <2>1. p < Len(b) /\ b[p + 1] = Len(x) /\ At(b, p + 1, x)
      BY AtNamed
    <2>2. (p + 1) + Len(x) <= Len(b)
      BY <2>1 DEF At
    <2> QED
      BY <1>3, <2>1, <2>2
  <1> QED
    BY <1>2, <1>3

-----------------------------------------------------------------------------
(* Names and credentials *)

\* The body is octets, which are numbers.
BodyInv ==
    /\ body \in Seq(Octet) /\ more \in 0 .. MaxMore
    /\ \E b \in Beginnings : Len(body) = Len(b) + more

\* An octet is a number.
LEMMA OctetFacts ==
    /\ RADIX \in Nat /\ RADIX > 15 /\ \A x \in Octet : x \in Nat /\ x < RADIX
    /\ \A s \in Seq(Octet) : s \in Seq(Nat)
  <1>1. RADIX \in Nat /\ RADIX > 15
    BY CommandsAssumption
  <1>2. \A x \in Octet : x \in Nat /\ x < RADIX
    BY <1>1 DEF Octet
  <1>3. Octet \subseteq Nat
    BY <1>2
  <1>4. \A s \in Seq(Octet) : s \in Seq(Nat)
    BY <1>3, SeqMonotonic
  <1> QED
    BY <1>1, <1>2, <1>4

\* The bodies stay octets.
LEMMA BodyInvariance == Spec => []BodyInv
  <1>1. Init => BodyInv
    <2> SUFFICES ASSUME Init PROVE BodyInv
      OBVIOUS
    <2>1. body \in Beginnings /\ more = 0 /\ body \in Seq(Octet) /\ MaxMore \in Nat
      BY BodiesAssumption DEF Init
    <2>2. Len(body) = Len(body) + 0 /\ 0 \in 0 .. MaxMore
      BY <2>1
    <2> QED
      BY <2>1, <2>2 DEF BodyInv
  <1>2. BodyInv /\ [Next]_vars => BodyInv'
    <2> SUFFICES ASSUME BodyInv, [Next]_vars PROVE BodyInv'
      OBVIOUS
    <2>1. ASSUME NEW x \in Octets, AddOctet(x) PROVE BodyInv'
      <3>1. x \in Octet /\ MaxMore \in Nat
        BY BodiesAssumption
      <3>2. body' = Append(body, x) /\ more' = more + 1 /\ more < MaxMore
        BY <2>1 DEF AddOctet
      <3>3. PICK b \in Beginnings : Len(body) = Len(b) + more
        BY DEF BodyInv
      <3>4. Len(b) \in Nat /\ more \in Nat /\ body \in Seq(Octet)
        BY BodiesAssumption DEF BodyInv
      <3>5. body' \in Seq(Octet) /\ Len(body') = Len(b) + more'
        BY <3>1, <3>2, <3>3, <3>4
      <3>6. more' \in 0 .. MaxMore
        BY <3>1, <3>2, <3>4
      <3> QED
        BY <3>5, <3>6 DEF BodyInv
    <2>2. CASE UNCHANGED vars
      BY <2>2 DEF BodyInv, vars
    <2> QED
      BY <2>1, <2>2 DEF Next
  <1> QED
    BY <1>1, <1>2, PTL DEF Spec

\* Its name is all that the body begins with.
LEMMA NameRead ==
    ASSUME body \in Seq(Nat), NEW expected, NEW malformed
    PROVE  \/ Names = {} /\ CheckName(TRUE, body, expected, malformed) = malformed
           \/ \E n \in Seq(Nat) :
                /\ Names = {n} /\ At(body, 0, Named(n))
                /\ CheckName(TRUE, body, expected, malformed) =
                       IF n = ERROR THEN "PeerError"
                       ELSE IF n # expected THEN "UnknownCommand" ELSE "Ok"
  <1>1. Len(body) \in Nat /\ 0 \in Nat /\ (body = <<>> <=> Len(body) = 0)
    OBVIOUS
  <1>2. \A n \in Seq(Nat) : Named(n) \in Seq(Nat)
    BY DEF Named
  <1>3. ASSUME NEW n \in Names PROVE n \in Seq(Nat) /\ At(body, 0, Named(n))
    <2>1. PICK k \in 1 .. Len(body) : n = SubSeq(body, 2, k) /\ IsPrefix(Named(n), body)
      BY DEF Names
    <2>2. n \in Seq(Nat)
      <3>1. PICK j \in Nat : k = 1 + j /\ 1 + j <= Len(body) /\ 2 = 1 + 1 /\ 1 \in Nat
        <4>1. k - 1 \in Nat /\ k = 1 + (k - 1) /\ 1 + (k - 1) <= Len(body) /\ 2 = 1 + 1
          BY <1>1
        <4> QED
          BY <4>1
      <3>2. SubSeq(body, 1 + 1, 1 + j) \in Seq(Nat)
        BY <3>1, SliceAt
      <3> QED
        BY <2>1, <3>1, <3>2, Zenon
    <2> QED
      BY <1>2, <2>1, <2>2, PrefixAt
  <1>4. CASE 0 < Len(body) /\ 1 + body[1] <= Len(body)
    <2>1. PICK n : n = SubSeq(body, 2, 1 + body[1])
      OBVIOUS
    <2>2. n \in Seq(Nat) /\ At(body, 0, Named(n))
      <3>1. 0 + 1 = 1 /\ 0 + 2 = 2
        OBVIOUS
      <3>2. IF 0 < Len(body) /\ 0 + 1 + body[0 + 1] <= Len(body)
            THEN /\ SubSeq(body, 0 + 2, 0 + 1 + body[0 + 1]) \in Seq(Nat)
                 /\ Len(SubSeq(body, 0 + 2, 0 + 1 + body[0 + 1])) = body[0 + 1]
                 /\ At(body, 0, Named(SubSeq(body, 0 + 2, 0 + 1 + body[0 + 1])))
            ELSE \A x \in Seq(Nat) : ~At(body, 0, Named(x))
        BY <1>1, NameThere
      <3> QED
        BY <1>4, <2>1, <3>1, <3>2
    <2>3. n \in Names
      <3>1. IsPrefix(Named(n), body)
        BY <1>2, <2>2, PrefixAt
      <3>2. 1 + body[1] \in 1 .. Len(body)
        BY <1>1, <1>4
      <3> QED
        BY <2>1, <3>1, <3>2 DEF Names
    <2>4. Names = {n}
      BY <1>1, <1>3, <2>2, <2>3, OneName
    <2>5. CheckName(TRUE, body, expected, malformed) =
              IF n = ERROR THEN "PeerError" ELSE IF n # expected THEN "UnknownCommand" ELSE "Ok"
      <3>1. body # <<>> /\ ~(Len(body) < 1 + body[1])
        BY <1>1, <1>4
      <3> QED
        BY <2>1, <3>1, Zenon DEF CheckName
    <2> QED
      BY <2>2, <2>4, <2>5
  <1>5. CASE ~(0 < Len(body) /\ 1 + body[1] <= Len(body))
    <2>1. \A x \in Seq(Nat) : ~At(body, 0, Named(x))
      <3>1. 0 + 1 = 1
        OBVIOUS
      <3> QED
        BY <1>1, <1>5, <3>1, NameThere
    <2>2. Names = {}
      BY <1>3, <2>1
    <2>3. body = <<>> \/ Len(body) < 1 + body[1]
      <3>1. body # <<>> => body[1] \in Nat
        BY <1>1
      <3> QED
        BY <1>1, <1>5, <3>1
    <2>4. CheckName(TRUE, body, expected, malformed) = malformed
      BY <2>3, Zenon DEF CheckName
    <2> QED
      BY <2>2, <2>4
  <1> QED
    BY <1>4, <1>5

\* A field is read if it is there.
LEMMA FieldRead ==
    ASSUME NEW b \in Seq(Nat), NEW p \in Nat
    PROVE  \/ \E x \in Seq(Nat) : At(b, p, Named(x)) /\ ReadField(b, p) = Value(x)
           \/ /\ \A x \in Seq(Nat) : ~At(b, p, Named(x))
              /\ ReadField(b, p) = Fails("MalformedHello")
  <1>1. Len(b) \in Nat
    OBVIOUS
  <1>2. CASE p < Len(b) /\ p + 1 + b[p + 1] <= Len(b)
    <2>1. PICK x \in Seq(Nat) : x = SubSeq(b, p + 2, p + 1 + b[p + 1]) /\ At(b, p, Named(x))
      BY <1>2, NameThere
    <2>2. ~(p >= Len(b) \/ p + 1 + b[p + 1] > Len(b))
      <3>1. b[p + 1] \in Nat
        BY <1>1, <1>2
      <3> QED
        BY <1>1, <1>2, <3>1
    <2>3. ReadField(b, p) = Value(x)
      BY <2>1, <2>2, Zenon DEF ReadField
    <2> QED
      BY <2>1, <2>3
  <1>3. CASE ~(p < Len(b) /\ p + 1 + b[p + 1] <= Len(b))
    <2>1. \A x \in Seq(Nat) : ~At(b, p, Named(x))
      BY <1>3, NameThere
    <2>2. p >= Len(b) \/ p + 1 + b[p + 1] > Len(b)
      <3>1. p < Len(b) => b[p + 1] \in Nat
        BY <1>1
      <3> QED
        BY <1>1, <1>3, <3>1
    <2>3. ReadField(b, p) = Fails("MalformedHello")
      BY <2>2, Zenon DEF ReadField
    <2> QED
      BY <2>1, <2>3
  <1> QED
    BY <1>2, <1>3

\* The pairs of fields that a HELLO may be read as.
LEMMA HelloPairs ==
    ASSUME body \in Seq(Nat), NEW u, NEW w
    PROVE  <<u, w>> \in Hellos <=>
               /\ u \in Seq(Nat) /\ w \in Seq(Nat) /\ At(body, 0, Named(HELLO))
               /\ At(body, 2, Named(u)) /\ At(body, 3 + Len(u), Named(w))
  <1> DEFINE Slices == {SubSeq(body, i, j) : i, j \in 1 .. Len(body)}
  <1>1. Len(body) \in Nat
    OBVIOUS
  <1>2. Slices \subseteq Seq(Nat)
    <2>1. PICK P : P = 1 .. Len(body)
      OBVIOUS
    <2>2. \A i \in P, j \in P : SubSeq(body, i, j) \in Seq(Nat)
      BY <2>1, SliceType
    <2>3. Slices = {SubSeq(body, i, j) : i, j \in P}
      BY <2>1
    <2> HIDE DEF Slices
    <2>4. ASSUME NEW x \in Slices PROVE x \in Seq(Nat)
      <3>1. PICK i \in P, j \in P : x = SubSeq(body, i, j)
        BY <2>3
      <3>2. SubSeq(body, i, j) \in Seq(Nat)
        BY <2>2
      <3> QED
        BY <3>1, <3>2, Zenon
    <2> QED
      BY <2>4
  <1>3. ASSUME NEW p \in Nat, NEW s \in Seq(Nat), At(body, p, s), Len(body) >= 2 PROVE s \in Slices
    <2>1. PICK k \in Nat : k = Len(s) /\ p + k <= Len(body)
      BY <1>3 DEF At
    <2>2. SubSeq(body, p + 1, p + k) = s
      BY <1>3, <2>1, SliceIs
    <2>3. CASE k = 0
      <3>1. SubSeq(body, 2, 1) = <<>> /\ s = <<>>
        <4>1. s = <<>>
          <5>1. Len(s) = 0
            BY <2>1, <2>3
          <5> QED
            BY <5>1, EmptySeq
        <4>2. SubSeq(body, 2, 1) = <<>>
          BY SubSeqEmpty
        <4> QED
          BY <4>1, <4>2
      <3>2. 1 \in 1 .. Len(body) /\ 2 \in 1 .. Len(body)
        BY <1>1, <1>3
      <3> QED
        BY <3>1, <3>2
    <2>4. CASE k # 0
      <3>1. p + 1 \in 1 .. Len(body) /\ p + k \in 1 .. Len(body)
        BY <1>1, <2>1, <2>4
      <3> QED
        BY <2>2, <3>1
    <2> QED
      BY <2>3, <2>4
  <1>4. ASSUME NEW x \in Seq(Nat), NEW y \in Seq(Nat)
        PROVE  IsPrefix(Named(HELLO) \o Named(x) \o Named(y), body) <=>
                   /\ At(body, 0, Named(HELLO)) /\ At(body, 2, Named(x))
                   /\ At(body, 3 + Len(x), Named(y))
    <2>1. PICK h \in Seq(Nat), nx \in Seq(Nat), ny \in Seq(Nat) :
              /\ h = Named(HELLO) /\ nx = Named(x) /\ ny = Named(y)
              /\ Len(h) = 2 /\ Len(nx) = 1 + Len(x)
      <3>1. Named(HELLO) \in Seq(Nat) /\ Len(Named(HELLO)) = 2
        BY DEF Named, HELLO
      <3>2. Named(x) \in Seq(Nat) /\ Len(Named(x)) = 1 + Len(x)
        BY DEF Named
      <3>3. Named(y) \in Seq(Nat)
        BY DEF Named
      <3> QED
        BY <3>1, <3>2, <3>3, Zenon
    <2>2. PICK hx \in Seq(Nat) : hx = h \o nx /\ Len(hx) = Len(h) + Len(nx)
      <3>1. h \o nx \in Seq(Nat) /\ Len(h \o nx) = Len(h) + Len(nx)
        OBVIOUS
      <3> QED
        BY <3>1, Zenon
    <2>3. hx \o ny \in Seq(Nat)
      OBVIOUS
    <2>4. IsPrefix(hx \o ny, body) <=> At(body, 0, hx \o ny)
      BY <2>3, PrefixAt
    <2>5. At(body, 0, hx \o ny) <=> At(body, 0, hx) /\ At(body, 0 + Len(hx), ny)
      BY AtBoth
    <2>6. At(body, 0, h \o nx) <=> At(body, 0, h) /\ At(body, 0 + Len(h), nx)
      BY AtBoth
    <2>7. Len(x) \in Nat /\ 0 + Len(h) = 2 /\ 0 + Len(hx) = 3 + Len(x)
      BY <2>1, <2>2
    <2> QED
      BY <2>1, <2>2, <2>4, <2>5, <2>6, <2>7, Zenon
  <1>5. Hellos = {up \in Slices \X Slices : IsPrefix(Named(HELLO) \o Named(up[1]) \o Named(up[2]), body)}
    BY DEF Hellos
  <1> HIDE DEF Slices
  <1>6. <<u, w>> \in Hellos <=>
           /\ u \in Slices /\ w \in Slices
           /\ IsPrefix(Named(HELLO) \o Named(u) \o Named(w), body)
    BY <1>5
  <1>7. ASSUME u \in Seq(Nat), w \in Seq(Nat), At(body, 0, Named(HELLO)),
               At(body, 2, Named(u)), At(body, 3 + Len(u), Named(w))
        PROVE  u \in Slices /\ w \in Slices
    <2>1. Len(u) \in Nat /\ 3 + Len(u) \in Nat /\ (3 + Len(u)) + 1 \in Nat /\ 2 \in Nat /\ 2 + 1 \in Nat
      BY <1>7
    <2>2. 2 < Len(body) /\ At(body, 2 + 1, u)
      BY <1>7, <2>1, AtNamed
    <2>3. At(body, (3 + Len(u)) + 1, w)
      BY <1>7, <2>1, AtNamed
    <2>4. Len(body) >= 2
      BY <1>1, <2>2
    <2> QED
      BY <1>3, <1>7, <2>1, <2>2, <2>3, <2>4
  <1> QED
    BY <1>2, <1>4, <1>6, <1>7

\* The elements of Hellos are pairs.
LEMMA HellosArePairs == \A h \in Hellos : \E u, w : h = <<u, w>>
  <1> DEFINE Slices == {SubSeq(body, i, j) : i, j \in 1 .. Len(body)}
  <1>1. Hellos \subseteq Slices \X Slices
    BY DEF Hellos
  <1> HIDE DEF Slices
  <1> QED
    BY <1>1

\* HelloAgrees for every set of octets and every body: parse_hello_from takes a
\* user name and a password from a HELLO exactly if both stand in it, in the
\* one way that their lengths allow.
THEOREM HelloAgreesCorrect == Spec => []HelloAgrees
  <1>1. BodyInv => HelloAgrees
    <2> SUFFICES ASSUME BodyInv PROVE HelloAgrees
      OBVIOUS
    <2>1. body \in Seq(Nat)
      BY OctetFacts DEF BodyInv
    <2>2. PICK r : r = ParseHelloFrom(TRUE, body)
      OBVIOUS
    <2>3. PICK res : res = CheckName(TRUE, body, HELLO, "MalformedHello")
      OBVIOUS
    <2>4. HELLO \in Seq(Nat) /\ HELLO # ERROR /\ 0 \in Nat /\ 2 \in Nat
      BY DEF HELLO, ERROR
    <2>5. ASSUME NEW h \in Hellos
          PROVE  \E u \in Seq(Nat), w \in Seq(Nat) :
                    /\ h = <<u, w>> /\ At(body, 0, Named(HELLO))
                    /\ At(body, 2, Named(u)) /\ At(body, 3 + Len(u), Named(w))
      <3>1. PICK u, w : h = <<u, w>>
        BY HellosArePairs
      <3> QED
        BY <2>1, <3>1, HelloPairs
    <2>6. Names = {} \/ \E n \in Seq(Nat) : Names = {n} /\ At(body, 0, Named(n))
      BY <2>1, NameRead
    <2>7. CASE res # "Ok"
      <3>1. r = Fails(res)
        BY <2>2, <2>3, <2>7, Zenon DEF ParseHelloFrom
      <3>2. r.res = res
        BY <3>1 DEF Fails
      <3>3. /\ Names = {} => res = "MalformedHello"
            /\ \A n \in Seq(Nat) : Names = {n} =>
                  res = IF n = ERROR THEN "PeerError" ELSE IF n # HELLO THEN "UnknownCommand" ELSE "Ok"
        BY <2>1, <2>3, NameRead
      <3>4. ~At(body, 0, Named(HELLO))
        <4> SUFFICES ASSUME At(body, 0, Named(HELLO)) PROVE FALSE
          OBVIOUS
        <4>1. PICK n \in Seq(Nat) : Names = {n} /\ At(body, 0, Named(n))
          <5>1. PICK e \in Seq(Nat) : e = HELLO
            BY <2>4
          <5>2. e \in Seq(Nat) /\ At(body, 0, Named(e))
            BY <5>1
          <5>3. IsPrefix(Named(e), body)
            <6>1. Named(e) \in Seq(Nat)
              BY DEF Named
            <6> QED
              BY <2>1, <5>2, <6>1, PrefixAt
          <5>4. Names # {}
            <6>1. 0 < Len(body) /\ body[0 + 1] = Len(e) /\ At(body, 0 + 1, e)
              BY <2>1, <2>4, <5>2, AtNamed
            <6>2. Len(e) = 1
              BY <5>1 DEF HELLO
            <6>3. (0 + 1) + 1 <= Len(body)
              BY <6>1, <6>2 DEF At
            <6>4. SubSeq(body, (0 + 1) + 1, (0 + 1) + 1) = e
              <7>1. 0 + 1 \in Nat /\ 1 \in Nat
                OBVIOUS
              <7>2. SubSeq(body, (0 + 1) + 1, (0 + 1) + Len(e)) = e
                BY <2>1, <5>2, <6>1, <7>1, SliceIs
              <7> QED
                BY <6>2, <7>2
            <6>5. e = SubSeq(body, 2, 2) /\ 2 \in 1 .. Len(body)
              BY <2>1, <6>3, <6>4
            <6> QED
              BY <5>3, <6>5 DEF Names
          <5> QED
            BY <2>6, <5>4
        <4>2. n = HELLO
          BY <2>1, <2>4, <4>1, OneName
        <4> QED
          BY <2>4, <2>7, <3>3, <4>1, <4>2
      <3>5. Hellos = {}
        BY <2>5, <3>4
      <3>6. r = ReferenceCommand(HELLO, "MalformedHello", Fails("MalformedHello"))
        <4>1. CASE Names = {}
          BY <3>1, <3>3, <4>1, Zenon DEF ReferenceCommand
        <4>2. CASE Names # {}
          <5>1. PICK n \in Seq(Nat) : Names = {n}
            BY <2>6, <4>2
          <5>2. res = IF n = ERROR THEN "PeerError" ELSE IF n # HELLO THEN "UnknownCommand" ELSE "Ok"
            BY <3>3, <5>1
          <5>3. (Names = {ERROR} <=> n = ERROR) /\ (Names # {HELLO} <=> n # HELLO)
            BY <5>1
          <5> QED
            BY <2>7, <3>1, <4>2, <5>2, <5>3 DEF ReferenceCommand
        <4> QED
          BY <4>1, <4>2
      <3> QED
        BY <2>2, <2>7, <3>2, <3>5, <3>6, Zenon DEF HelloAgrees
    <2>8. CASE res = "Ok"
      <3>1. Names = {HELLO} /\ At(body, 0, Named(HELLO))
        BY <2>1, <2>3, <2>8, NameRead
      <3>2. body[1] = 1
        <4>1. body[0 + 1] = Len(HELLO)
          BY <2>1, <2>4, <3>1, AtNamed
        <4> QED
          BY <4>1 DEF HELLO
      <3>3. 1 + body[1] = 2
        BY <3>2
      <3>4. ReferenceCommand(HELLO, "MalformedHello", Fails("MalformedHello")) = Fails("MalformedHello")
        <4>1. Names # {} /\ Names # {ERROR}
          BY <2>4, <3>1
        <4> QED
          BY <3>1, <4>1, Zenon DEF ReferenceCommand
      <3>5. PICK user : user = ReadField(body, 2)
        OBVIOUS
      <3>6. PICK pass : pass = ReadField(body, 2 + 1 + Len(user.val))
        OBVIOUS
      <3>7. r = IF user.res # "Ok" THEN user ELSE IF pass.res # "Ok" THEN pass
                ELSE Value(<<user.val, pass.val>>)
        BY <2>2, <2>3, <2>8, <3>3, <3>5, <3>6, Zenon DEF ParseHelloFrom
      <3>8. CASE \A x \in Seq(Nat) : ~At(body, 2, Named(x))
        <4>1. user = Fails("MalformedHello")
          BY <2>1, <2>4, <3>5, <3>8, FieldRead
        <4>2. r = Fails("MalformedHello") /\ r.res = "MalformedHello"
          BY <3>7, <4>1 DEF Fails
        <4>3. Hellos = {}
          BY <2>5, <3>8
        <4> QED
          BY <2>2, <3>4, <4>2, <4>3 DEF HelloAgrees
      <3>9. CASE \E x \in Seq(Nat) : At(body, 2, Named(x))
        <4>1. PICK x \in Seq(Nat) : At(body, 2, Named(x)) /\ user = Value(x)
          BY <2>1, <2>4, <3>5, <3>9, FieldRead
        <4>2. user.res = "Ok" /\ user.val = x
          BY <4>1 DEF Value
        <4>3. 2 + 1 + Len(user.val) = 3 + Len(x) /\ 3 + Len(x) \in Nat
          BY <4>1, <4>2
        <4>4. CASE \A y \in Seq(Nat) : ~At(body, 3 + Len(x), Named(y))
          <5>1. pass = Fails("MalformedHello")
            BY <2>1, <3>6, <4>3, <4>4, FieldRead
          <5>2. r = Fails("MalformedHello") /\ r.res = "MalformedHello"
            BY <3>7, <4>2, <5>1 DEF Fails
          <5>3. Hellos = {}
            <6> SUFFICES ASSUME NEW h \in Hellos PROVE FALSE
              OBVIOUS
            <6>1. PICK u \in Seq(Nat), w \in Seq(Nat) :
                      At(body, 2, Named(u)) /\ At(body, 3 + Len(u), Named(w))
              BY <2>5
            <6>2. u = x
              BY <2>1, <2>4, <4>1, <6>1, OneName
            <6> QED
              BY <4>4, <6>1, <6>2
          <5> QED
            BY <2>2, <3>4, <5>2, <5>3 DEF HelloAgrees
        <4>5. CASE \E y \in Seq(Nat) : At(body, 3 + Len(x), Named(y))
          <5>1. PICK y \in Seq(Nat) : At(body, 3 + Len(x), Named(y)) /\ pass = Value(y)
            BY <2>1, <3>6, <4>3, <4>5, FieldRead
          <5>2. r.res = "Ok" /\ r.val = <<x, y>>
            BY <3>7, <4>2, <5>1 DEF Value
          <5>3. <<x, y>> \in Hellos
            BY <2>1, <3>1, <4>1, <5>1, HelloPairs
          <5>4. ASSUME NEW h \in Hellos PROVE h = <<x, y>>
            <6>1. PICK u \in Seq(Nat), w \in Seq(Nat) :
                      h = <<u, w>> /\ At(body, 2, Named(u)) /\ At(body, 3 + Len(u), Named(w))
              BY <2>5
            <6>2. u = x
              BY <2>1, <2>4, <4>1, <6>1, OneName
            <6>3. w = y
              BY <2>1, <4>3, <5>1, <6>1, <6>2, OneName
            <6> QED
              BY <6>1, <6>2, <6>3
          <5>5. Hellos = {r.val}
            BY <5>2, <5>3, <5>4
          <5> QED
            BY <2>2, <5>2, <5>5 DEF HelloAgrees
        <4> QED
          BY <4>4, <4>5
      <3> QED
        BY <3>8, <3>9
    <2> QED
      BY <2>7, <2>8
  <1> QED
    BY <1>1, BodyInvariance, PTL

-----------------------------------------------------------------------------
(* Recursion *)

\* Induction on a set of numbers.
LEMMA EveryNat ==
    ASSUME NEW S, S \subseteq Nat, 0 \in S, \A n \in S : n + 1 \in S
    PROVE  S = Nat
  <1> SUFFICES ASSUME Nat \ S # {} PROVE FALSE
    OBVIOUS
  <1>1. PICK x \in Nat \ S : \A y \in Nat \ S : <<y, x>> \notin OpToRel(<, Nat)
    BY WFMin, NatLessThanWellFounded, Zenon
  <1>2. \A y \in Nat \ S : ~(y < x)
    BY <1>1 DEF OpToRel
  <1>3. x # 0
    OBVIOUS
  <1>4. x - 1 \in S
    BY <1>2, <1>3
  <1> QED
    BY <1>4

\* The functions that agree with what G makes of them below the rank m.
Agrees(G, D, rank, m, f) == \A x \in D : rank[x] < m => G[f][x] = f[x]

\* G computes functions from D to V, and what it computes for x depends on
\* arguments of a lower rank only, which is less than top.
IsRecursion(G, D, V, rank, top) ==
    /\ V # {} /\ rank \in [D -> Nat] /\ top \in Nat /\ \A x \in D : rank[x] < top
    /\ \A u \in [D -> V] : G[u] \in [D -> V]
    /\ \A u, h \in [D -> V] : \A x \in D :
           (\A y \in D : rank[y] < rank[x] => u[y] = h[y]) => G[u][x] = G[h][x]

\* A recursion on a bounded rank has a solution.
LEMMA Recursion ==
    ASSUME NEW D, NEW V, NEW G, NEW rank, NEW top, IsRecursion(G, D, V, rank, top)
    PROVE  \E f \in [D -> V] : \A x \in D : f[x] = G[f][x]
  <1> USE DEF IsRecursion
  <1> DEFINE S == {m \in Nat : \E f \in [D -> V] : Agrees(G, D, rank, m, f)}
  <1>1. 0 \in S
    <2>1. PICK v \in V : TRUE
      OBVIOUS
    <2>2. PICK f0 \in [D -> V] : f0 = [x \in D |-> v]
      OBVIOUS
    <2>3. \A x \in D : rank[x] \in Nat
      OBVIOUS
    <2>4. Agrees(G, D, rank, 0, f0)
      BY <2>3 DEF Agrees
    <2> QED
      BY <2>4
  <1>2. ASSUME NEW m \in S PROVE m + 1 \in S
    <2>1. PICK f \in [D -> V] : Agrees(G, D, rank, m, f)
      OBVIOUS
    <2>2. PICK u \in [D -> V] : u = G[f]
      OBVIOUS
    <2>3. ASSUME NEW x \in D, rank[x] < m + 1 PROVE G[u][x] = u[x]
      <3>1. ASSUME NEW y \in D, rank[y] < rank[x] PROVE u[y] = f[y]
        <4>1. rank[x] \in Nat /\ rank[y] \in Nat /\ m \in Nat
          OBVIOUS
        <4>2. rank[y] < m
          BY <2>3, <3>1, <4>1
        <4> QED
          BY <2>1, <2>2, <4>2 DEF Agrees
      <3>2. G[u][x] = G[f][x]
        BY <3>1
      <3> QED
        BY <2>2, <3>2
    <2>4. Agrees(G, D, rank, m + 1, u)
      BY <2>3 DEF Agrees
    <2> QED
      BY <2>4
  <1>3. S = Nat
    <2> HIDE DEF S
    <2>1. S \subseteq Nat
      BY DEF S
    <2> QED
      BY <1>1, <1>2, <2>1, EveryNat
  <1>4. PICK f \in [D -> V] : Agrees(G, D, rank, top, f)
    BY <1>3
  <1>5. \A x \in D : G[f][x] = f[x]
    BY <1>4 DEF Agrees
  <1> QED
    BY <1>5

-----------------------------------------------------------------------------
(* Digits *)

\* The powers of RADIX.
LEMMA PowerFacts ==
    /\ Power \in [0 .. W -> Nat] /\ Power[0] = 1
    /\ \A k \in 0 .. W : k # 0 => k - 1 \in 0 .. W /\ Power[k] = Power[k - 1] * RADIX
  <1>1. W \in Nat /\ RADIX \in Nat
    BY CommandsAssumption
  <1>2. PICK D : D = 0 .. W
    OBVIOUS
  <1> DEFINE G == [u \in [D -> Nat] |-> [k \in D |-> IF k = 0 THEN 1 ELSE u[k - 1] * RADIX]]
             rank == [k \in D |-> k]
  <1>3. ASSUME NEW k \in D, k # 0 PROVE k - 1 \in D /\ k - 1 < k
    BY <1>1, <1>2, <1>3
  <1>4. ASSUME NEW u \in [D -> Nat], NEW k \in D
        PROVE  (IF k = 0 THEN 1 ELSE u[k - 1] * RADIX) \in Nat
    BY <1>1, <1>3
  <1>5. \A u \in [D -> Nat] : G[u] \in [D -> Nat]
    BY <1>4
  <1>6. rank \in [D -> Nat] /\ W + 1 \in Nat /\ \A k \in D : rank[k] < W + 1
    BY <1>1, <1>2
  <1>7. \A u, h \in [D -> Nat] : \A k \in D :
            (\A y \in D : rank[y] < rank[k] => u[y] = h[y]) => G[u][k] = G[h][k]
    BY <1>3
  <1>8. IsRecursion(G, D, Nat, rank, W + 1)
    <2> HIDE DEF G, rank
    <2>1. Nat # {}
      OBVIOUS
    <2> QED
      BY <1>5, <1>6, <1>7, <2>1 DEF IsRecursion
  <1>9. PICK f \in [D -> Nat] : \A k \in D : f[k] = G[f][k]
    <2> HIDE DEF G, rank
    <2> QED
      BY <1>8, Recursion
  <1>10. \A k \in D : f[k] = IF k = 0 THEN 1 ELSE f[k - 1] * RADIX
    BY <1>9
  <1>11. f = [k \in 0 .. W |-> IF k = 0 THEN 1 ELSE f[k - 1] * RADIX]
    <2>1. PICK u : u = [k \in D |-> IF k = 0 THEN 1 ELSE f[k - 1] * RADIX]
      OBVIOUS
    <2>2. f = u
      BY <1>10, <2>1
    <2> QED
      BY <1>2, <2>1, <2>2, Zenon
  <1>12. Power = [k \in 0 .. W |-> IF k = 0 THEN 1 ELSE Power[k - 1] * RADIX]
    BY <1>11, Zenon DEF Power
  <1> HIDE DEF G, rank
  <1>13. DOMAIN Power = 0 .. W /\ \A k \in 0 .. W : Power[k] = IF k = 0 THEN 1 ELSE Power[k - 1] * RADIX
    BY <1>12, Zenon
  <1>14. Power[0] = 1 /\ \A k \in 0 .. W : k # 0 => k - 1 \in 0 .. W /\ Power[k] = Power[k - 1] * RADIX
    BY <1>1, <1>13
  <1>15. Power = [k \in 0 .. W |-> Power[k]]
    BY <1>12, Zenon
  <1> DEFINE S == {n \in Nat : n \in 0 .. W => Power[n] \in Nat}
  <1>16. 0 \in S
    BY <1>14
  <1>17. ASSUME NEW n \in S PROVE n + 1 \in S
    <2> SUFFICES ASSUME n + 1 \in 0 .. W PROVE Power[n + 1] \in Nat
      OBVIOUS
    <2>1. n \in 0 .. W /\ (n + 1) - 1 = n /\ n + 1 # 0
      BY <1>1
    <2>2. Power[n + 1] = Power[n] * RADIX
      BY <1>14, <2>1
    <2> QED
      BY <1>1, <2>1, <2>2
  <1>18. S = Nat
    <2> HIDE DEF S
    <2>1. S \subseteq Nat
      BY DEF S
    <2> QED
      BY <1>16, <1>17, <2>1, EveryNat
  <1>19. \A n \in 0 .. W : Power[n] \in Nat
    BY <1>1, <1>18
  <1>20. Power \in [0 .. W -> Nat]
    BY <1>15, <1>19, Zenon
  <1> QED
    BY <1>14, <1>20

\* Quotient and remainder.
LEMMA DivFacts ==
    ASSUME NEW a \in Nat, NEW b \in Nat, b > 0
    PROVE  /\ a \div b \in Nat /\ a % b \in Nat /\ a % b < b
           /\ a = (a \div b) * b + (a % b)
  <1>1. a \div b \in Nat /\ a % b \in Nat /\ a % b < b
    OBVIOUS
  <1>2. a = b * (a \div b) + (a % b)
    OBVIOUS
  <1>3. \A x, y \in Nat : x * y = y * x
    OBVIOUS
  <1> QED
    BY <1>1, <1>2, <1>3

\* A product is monotonic.
LEMMA TimesMonotonic ==
    ASSUME NEW x \in Nat, NEW y \in Nat, NEW z \in Nat, x < y
    PROVE  x * z \in Nat /\ y * z \in Nat /\ x * z + z <= y * z
  <1>1. PICK d \in Nat : y = x + 1 + d
    <2>1. y - x - 1 \in Nat /\ y = x + 1 + (y - x - 1)
      OBVIOUS
    <2> QED
      BY <2>1
  <1>2. y * z = x * z + z + d * z
    BY <1>1
  <1>3. x * z \in Nat /\ d * z \in Nat
    OBVIOUS
  <1> QED
    BY <1>2, <1>3

\* There is one quotient and one remainder.
LEMMA DivUnique ==
    ASSUME NEW b \in Nat, NEW q \in Nat, NEW r \in Nat, NEW p \in Nat, NEW t \in Nat,
           r < b, t < b, q * b + r = p * b + t
    PROVE  q = p /\ r = t
  <1>1. q * b \in Nat /\ p * b \in Nat
    OBVIOUS
  <1>2. ~(q < p)
    <2> SUFFICES ASSUME q < p PROVE FALSE
      OBVIOUS
    <2>1. q * b + b <= p * b
      BY TimesMonotonic
    <2> QED
      BY <1>1, <2>1
  <1>3. ~(p < q)
    <2> SUFFICES ASSUME p < q PROVE FALSE
      OBVIOUS
    <2>1. p * b + b <= q * b
      BY TimesMonotonic
    <2> QED
      BY <1>1, <2>1
  <1>4. q = p
    BY <1>2, <1>3
  <1> QED
    BY <1>1, <1>4

\* The quotient and the remainder, by what they are.
LEMMA DivIs ==
    ASSUME NEW b \in Nat, NEW q \in Nat, NEW r \in Nat, r < b
    PROVE  q * b + r \in Nat /\ (q * b + r) \div b = q /\ (q * b + r) % b = r
  <1>1. PICK a \in Nat : a = q * b + r
    <2>1. q * b + r \in Nat
      OBVIOUS
    <2> QED
      BY <2>1
  <1>2. PICK p \in Nat, t \in Nat : p = a \div b /\ t = a % b /\ t < b /\ a = p * b + t
    BY DivFacts
  <1>3. p = q /\ t = r
    BY <1>1, <1>2, DivUnique
  <1> QED
    BY <1>1, <1>2, <1>3

\* A number that is smaller is its own remainder.
LEMMA ModSmall ==
    ASSUME NEW a \in Nat, NEW b \in Nat, a < b
    PROVE  a % b = a
  <1>1. 0 \in Nat /\ 0 * b + a = a
    OBVIOUS
  <1>2. (0 * b + a) % b = a
    BY <1>1, DivIs, Zenon
  <1> QED
    BY <1>1, <1>2, Zenon

\* Dividing twice.
LEMMA DivDiv ==
    ASSUME NEW v \in Nat, NEW p \in Nat, NEW r \in Nat, p > 0, r > 0
    PROVE  v \div (p * r) = (v \div p) \div r
  <1>1. PICK q \in Nat, e \in Nat : q = v \div p /\ e < p /\ v = q * p + e
    BY DivFacts
  <1>2. PICK q2 \in Nat, d \in Nat : q2 = q \div r /\ d < r /\ q = q2 * r + d
    BY DivFacts
  <1>3. PICK pr \in Nat : pr = p * r
    OBVIOUS
  <1>4. PICK f \in Nat : f = d * p + e
    OBVIOUS
  <1>5. v = q2 * pr + f
    <2>1. v = (q2 * r + d) * p + e
      BY <1>1, <1>2
    <2>2. (q2 * r + d) * p = (q2 * r) * p + d * p
      OBVIOUS
    <2>3. (q2 * r) * p = q2 * (p * r)
      OBVIOUS
    <2>4. (q2 * r) * p \in Nat /\ d * p \in Nat
      OBVIOUS
    <2> QED
      BY <1>3, <1>4, <2>1, <2>2, <2>3, <2>4
  <1>6. f < pr
    <2>1. d * p + p <= r * p /\ d * p \in Nat
      BY <1>2, TimesMonotonic
    <2>2. r * p = pr
      BY <1>3
    <2> QED
      BY <1>1, <1>4, <2>1, <2>2
  <1>7. v \div pr = q2
    BY <1>5, <1>6, DivIs
  <1> QED
    BY <1>1, <1>2, <1>3, <1>7

\* A power is not zero.
LEMMA PowerPositive == \A k \in 0 .. W : Power[k] \in Nat /\ Power[k] > 0
  <1>1. W \in Nat /\ RADIX \in Nat /\ RADIX > 0
    BY CommandsAssumption
  <1> DEFINE S == {n \in Nat : n \in 0 .. W => Power[n] > 0}
  <1>2. 0 \in S
    BY PowerFacts
  <1>3. ASSUME NEW n \in S PROVE n + 1 \in S
    <2> SUFFICES ASSUME n + 1 \in 0 .. W PROVE Power[n + 1] > 0
      OBVIOUS
    <2>1. n \in 0 .. W /\ (n + 1) - 1 = n /\ n + 1 # 0
      BY <1>1
    <2>2. Power[n + 1] = Power[n] * RADIX /\ Power[n] \in Nat /\ Power[n] > 0
      BY <2>1, PowerFacts
    <2>3. \A x, y \in Nat : x > 0 /\ y > 0 => x * y > 0
      OBVIOUS
    <2> QED
      BY <1>1, <2>2, <2>3
  <1>4. S = Nat
    <2> HIDE DEF S
    <2>1. S \subseteq Nat
      BY DEF S
    <2> QED
      BY <1>2, <1>3, <2>1, EveryNat
  <1>5. \A k \in 0 .. W : Power[k] > 0
    BY <1>1, <1>4
  <1>6. \A k \in 0 .. W : Power[k] \in Nat
    BY PowerFacts
  <1> QED
    BY <1>5, <1>6

\* The numbers that the first octets of s stand for.
IsRead(s, read) ==
    /\ read \in [0 .. W -> Nat] /\ read[0] = 0
    /\ \A k \in 1 .. W : read[k] = read[k - 1] * RADIX + s[k]

\* from_be_bytes reads the octets one after the other.
LEMMA FromBEReads ==
    ASSUME NEW s \in [1 .. W -> Nat]
    PROVE  \E read : IsRead(s, read) /\ FromBE(s) = read[W]
  <1>1. W \in Nat /\ RADIX \in Nat
    BY CommandsAssumption
  <1>2. PICK D : D = 0 .. W
    OBVIOUS
  <1> DEFINE G == [u \in [D -> Nat] |-> [k \in D |-> IF k = 0 THEN 0 ELSE u[k - 1] * RADIX + s[k]]]
             rank == [k \in D |-> k]
  <1>3. ASSUME NEW k \in D, k # 0 PROVE k - 1 \in D /\ k - 1 < k /\ s[k] \in Nat
    BY <1>1, <1>2, <1>3
  <1>4. ASSUME NEW u \in [D -> Nat], NEW k \in D
        PROVE  (IF k = 0 THEN 0 ELSE u[k - 1] * RADIX + s[k]) \in Nat
    <2>1. \A x, y, z \in Nat : x * y + z \in Nat
      OBVIOUS
    <2>2. k # 0 => u[k - 1] \in Nat /\ s[k] \in Nat
      BY <1>3
    <2> QED
      BY <1>1, <2>1, <2>2
  <1>5. \A u \in [D -> Nat] : G[u] \in [D -> Nat]
    BY <1>4
  <1>6. rank \in [D -> Nat] /\ W + 1 \in Nat /\ \A k \in D : rank[k] < W + 1
    BY <1>1, <1>2
  <1>7. \A u, h \in [D -> Nat] : \A k \in D :
            (\A y \in D : rank[y] < rank[k] => u[y] = h[y]) => G[u][k] = G[h][k]
    BY <1>3
  <1>8. IsRecursion(G, D, Nat, rank, W + 1)
    <2> HIDE DEF G, rank
    <2>1. Nat # {}
      OBVIOUS
    <2> QED
      BY <1>5, <1>6, <1>7, <2>1 DEF IsRecursion
  <1>9. PICK f \in [D -> Nat] : \A k \in D : f[k] = G[f][k]
    <2> HIDE DEF G, rank
    <2> QED
      BY <1>8, Recursion
  <1>10. \A k \in D : f[k] = IF k = 0 THEN 0 ELSE f[k - 1] * RADIX + s[k]
    BY <1>9
  <1>11. f = [k \in 0 .. W |-> IF k = 0 THEN 0 ELSE f[k - 1] * RADIX + s[k]]
    <2>1. PICK u : u = [k \in D |-> IF k = 0 THEN 0 ELSE f[k - 1] * RADIX + s[k]]
      OBVIOUS
    <2>2. f = u
      BY <1>10, <2>1
    <2> QED
      BY <1>2, <2>1, <2>2, Zenon
  <1> HIDE DEF G, rank
  <1>12. PICK read : /\ FromBE(s) = read[W]
                     /\ read = [k \in 0 .. W |-> IF k = 0 THEN 0 ELSE read[k - 1] * RADIX + s[k]]
    BY <1>11, Zenon DEF FromBE
  <1>13. \A k \in 0 .. W : read[k] = IF k = 0 THEN 0 ELSE read[k - 1] * RADIX + s[k]
    BY <1>12, Zenon
  <1>14. read = [k \in 0 .. W |-> read[k]]
    BY <1>12, Zenon
  <1>15. read[0] = 0 /\ \A k \in 1 .. W : read[k] = read[k - 1] * RADIX + s[k]
    BY <1>1, <1>13
  <1> DEFINE S == {n \in Nat : n \in 0 .. W => read[n] \in Nat}
  <1>16. 0 \in S
    BY <1>15
  <1>17. ASSUME NEW n \in S PROVE n + 1 \in S
    <2> SUFFICES ASSUME n + 1 \in 0 .. W PROVE read[n + 1] \in Nat
      OBVIOUS
    <2>1. n \in 0 .. W /\ (n + 1) - 1 = n /\ n + 1 \in 1 .. W
      BY <1>1
    <2>2. read[n + 1] = read[n] * RADIX + s[n + 1] /\ s[n + 1] \in Nat
      BY <1>15, <2>1
    <2>3. \A x, y, z \in Nat : x * y + z \in Nat
      OBVIOUS
    <2>4. read[n] \in Nat
      BY <2>1
    <2> QED
      BY <1>1, <2>2, <2>3, <2>4
  <1>18. S = Nat
    <2> HIDE DEF S
    <2>1. S \subseteq Nat
      BY DEF S
    <2> QED
      BY <1>16, <1>17, <2>1, EveryNat
  <1>19. \A n \in 0 .. W : read[n] \in Nat
    BY <1>1, <1>18
  <1>20. read \in [0 .. W -> Nat]
    BY <1>14, <1>19, Zenon
  <1> QED
    BY <1>12, <1>15, <1>20 DEF IsRead

\* What W octets stand for is less than Power[W], and they are its digits.
LEMMA ToBEFromBE ==
    ASSUME NEW s \in [1 .. W -> Octet]
    PROVE  FromBE(s) \in Nat /\ FromBE(s) < Power[W] /\ ToBE(FromBE(s)) = s
  <1>1. W \in Nat /\ RADIX \in Nat /\ RADIX > 0 /\ s \in [1 .. W -> Nat]
    BY CommandsAssumption, OctetFacts
  <1>2. \A k \in 1 .. W : s[k] \in Nat /\ s[k] < RADIX
    BY OctetFacts
  <1>3. PICK read : IsRead(s, read) /\ FromBE(s) = read[W]
    BY <1>1, FromBEReads
  <1>4. PICK N \in Nat : N = FromBE(s) /\ N = read[W]
    BY <1>1, <1>3 DEF IsRead
  <1>5. ASSUME NEW k \in 1 .. W
        PROVE  k - 1 \in 0 .. W /\ read[k - 1] \in Nat /\ read[k] = read[k - 1] * RADIX + s[k]
    BY <1>1, <1>3 DEF IsRead
  <1> DEFINE S == {n \in Nat : n \in 0 .. W => read[n] < Power[n]}
  <1>6. 0 \in S
    BY <1>3, PowerFacts DEF IsRead
  <1>7. ASSUME NEW n \in S PROVE n + 1 \in S
    <2> SUFFICES ASSUME n + 1 \in 0 .. W PROVE read[n + 1] < Power[n + 1]
      OBVIOUS
    <2>1. n \in 0 .. W /\ (n + 1) - 1 = n /\ n + 1 # 0 /\ n + 1 \in 1 .. W
      BY <1>1
    <2>2. PICK x \in Nat, y \in Nat, d \in Nat :
              /\ x = read[n] /\ y = Power[n] /\ d = s[n + 1] /\ d < RADIX /\ x < y
      BY <1>2, <1>5, <2>1, PowerFacts
    <2>3. read[n + 1] = x * RADIX + d /\ Power[n + 1] = y * RADIX
      BY <1>5, <2>1, <2>2, PowerFacts
    <2>4. x * RADIX + RADIX <= y * RADIX /\ x * RADIX \in Nat /\ y * RADIX \in Nat
      BY <1>1, <2>2, TimesMonotonic
    <2>5. \A i, j, k, l \in Nat : i + l <= j /\ k < l => i + k < j
      OBVIOUS
    <2>6. x * RADIX + d < y * RADIX
      BY <1>1, <2>2, <2>4, <2>5, Zenon
    <2> QED
      BY <2>3, <2>6, Zenon
  <1>8. S = Nat
    <2> HIDE DEF S
    <2>1. S \subseteq Nat
      BY DEF S
    <2> QED
      BY <1>6, <1>7, <2>1, EveryNat
  <1>9. N < Power[W]
    BY <1>1, <1>4, <1>8
  <1> DEFINE T == {n \in Nat : n \in 0 .. W => N \div Power[n] = read[W - n]}
  <1>10. 0 \in T
    <2>1. W - 0 = W /\ N \div 1 = N
      BY <1>1
    <2> QED
      BY <1>4, <2>1, PowerFacts
  <1>11. ASSUME NEW n \in T PROVE n + 1 \in T
    <2> SUFFICES ASSUME n + 1 \in 0 .. W PROVE N \div Power[n + 1] = read[W - (n + 1)]
      OBVIOUS
    <2>1. n \in 0 .. W /\ (n + 1) - 1 = n /\ n + 1 # 0 /\ W - n \in 1 .. W /\ (W - n) - 1 = W - (n + 1)
      BY <1>1
    <2>2. PICK p \in Nat : p = Power[n] /\ p > 0 /\ Power[n + 1] = p * RADIX
      BY <2>1, PowerFacts, PowerPositive
    <2>3. PICK x \in Nat, d \in Nat :
              x = read[W - (n + 1)] /\ d = s[W - n] /\ d < RADIX /\ read[W - n] = x * RADIX + d
      BY <1>2, <1>5, <2>1
    <2>4. N \div p = x * RADIX + d
      BY <2>1, <2>2, <2>3
    <2>5. N \div (p * RADIX) = (N \div p) \div RADIX
      <3>1. N \in Nat /\ p \in Nat /\ RADIX \in Nat /\ p > 0 /\ RADIX > 0
        BY <1>1, <2>2
      <3> QED
        BY <3>1, DivDiv
    <2>6. (x * RADIX + d) \div RADIX = x
      <3>1. \A q, r \in Nat : r < RADIX => (q * RADIX + r) \div RADIX = q
        BY <1>1, DivIs, Zenon
      <3>2. x \in Nat /\ d \in Nat /\ d < RADIX
        BY <2>3
      <3> QED
        BY <3>1, <3>2, Zenon
    <2> QED
      BY <2>2, <2>3, <2>4, <2>5, <2>6, Zenon
  <1>12. T = Nat
    <2> HIDE DEF T
    <2>1. T \subseteq Nat
      BY DEF T
    <2> QED
      BY <1>10, <1>11, <2>1, EveryNat
  <1>13. ASSUME NEW i \in 1 .. W PROVE (N \div Power[W - i]) % RADIX = s[i]
    <2>1. W - i \in 0 .. W /\ W - i \in Nat /\ W - (W - i) = i
      BY <1>1
    <2>2. N \div Power[W - i] = read[i]
      BY <1>12, <2>1
    <2>3. PICK x \in Nat, d \in Nat : d = s[i] /\ d < RADIX /\ read[i] = x * RADIX + d
      BY <1>2, <1>5
    <2>4. (x * RADIX + d) % RADIX = d
      BY <1>1, <2>3, DivIs, Zenon
    <2> QED
      BY <2>2, <2>3, <2>4, Zenon
  <1>14. ToBE(N) = s
    BY <1>13 DEF ToBE
  <1> QED
    BY <1>4, <1>9, <1>14

\* The digits of a number below Power[W] stand for it.
LEMMA FromBEToBE ==
    ASSUME NEW v \in Nat, v < Power[W]
    PROVE  ToBE(v) \in [1 .. W -> Octet] /\ FromBE(ToBE(v)) = v
  <1>1. W \in Nat /\ RADIX \in Nat /\ RADIX > 0
    BY CommandsAssumption
  <1>2. PICK s : s = ToBE(v)
    OBVIOUS
  <1>3. ASSUME NEW i \in 1 .. W
        PROVE  /\ s[i] \in Octet /\ s[i] \in Nat
               /\ v \div Power[W - i] \in Nat
               /\ v \div Power[W - i] = (v \div Power[W - (i - 1)]) * RADIX + s[i]
    <2>1. W - i \in 0 .. W /\ W - (i - 1) \in 0 .. W /\ W - (i - 1) # 0
          /\ (W - (i - 1)) - 1 = W - i
      BY <1>1
    <2>2. PICK p \in Nat : p = Power[W - i] /\ p > 0 /\ Power[W - (i - 1)] = p * RADIX
      BY <2>1, PowerFacts, PowerPositive
    <2>3. PICK q \in Nat : q = v \div p
      BY <2>2, DivFacts
    <2>4. s[i] = q % RADIX
      BY <1>2, <2>2, <2>3 DEF ToBE
    <2>5. q \div RADIX \in Nat /\ q % RADIX \in Nat /\ q % RADIX < RADIX
          /\ q = (q \div RADIX) * RADIX + (q % RADIX)
      BY <1>1, DivFacts
    <2>6. v \div (p * RADIX) = q \div RADIX
      BY <1>1, <2>2, <2>3, DivDiv
    <2>7. s[i] \in Octet /\ s[i] \in Nat
      <3>1. \A x \in Nat : x < RADIX => x \in 0 .. RADIX - 1
        BY <1>1
      <3> QED
        BY <2>4, <2>5, <3>1 DEF Octet
    <2> QED
      BY <2>2, <2>3, <2>4, <2>5, <2>6, <2>7, Zenon
  <1>4. s \in [1 .. W -> Octet] /\ s \in [1 .. W -> Nat]
    BY <1>2, <1>3 DEF ToBE
  <1>5. PICK read : IsRead(s, read) /\ FromBE(s) = read[W]
    BY <1>4, FromBEReads
  <1> DEFINE S == {n \in Nat : n \in 0 .. W => read[n] = v \div Power[W - n]}
  <1>6. 0 \in S
    <2>1. W - 0 = W /\ Power[W] \in Nat /\ Power[W] > 0
      BY <1>1, PowerPositive
    <2>2. PICK b \in Nat : b = Power[W] /\ v < b
      BY <2>1
    <2>3. 0 * b + v = v /\ 0 \in Nat
      OBVIOUS
    <2>4. v \div b = 0
      BY <2>2, <2>3, DivIs
    <2> QED
      BY <1>5, <2>1, <2>2, <2>4 DEF IsRead
  <1>7. ASSUME NEW n \in S PROVE n + 1 \in S
    <2> SUFFICES ASSUME n + 1 \in 0 .. W PROVE read[n + 1] = v \div Power[W - (n + 1)]
      OBVIOUS
    <2>1. n \in 0 .. W /\ (n + 1) - 1 = n /\ n + 1 \in 1 .. W
      BY <1>1
    <2>2. read[n + 1] = read[n] * RADIX + s[n + 1]
      BY <1>5, <2>1 DEF IsRead
    <2>3. v \div Power[W - (n + 1)] = (v \div Power[W - n]) * RADIX + s[n + 1]
      BY <1>3, <2>1
    <2>4. read[n] = v \div Power[W - n]
      BY <2>1
    <2> QED
      BY <2>2, <2>3, <2>4, Zenon
  <1>8. S = Nat
    <2> HIDE DEF S
    <2>1. S \subseteq Nat
      BY DEF S
    <2> QED
      BY <1>6, <1>7, <2>1, EveryNat
  <1>9. read[W] = v \div Power[W - W]
    BY <1>1, <1>8
  <1>10. v \div Power[W - W] = v
    <2>1. W - W = 0 /\ v \div 1 = v
      BY <1>1
    <2> QED
      BY <2>1, PowerFacts
  <1> QED
    BY <1>2, <1>4, <1>5, <1>9, <1>10

-----------------------------------------------------------------------------
(* Properties *)

\* The octets after the first m and up to the n-th are a property: IsProperty
\* of any octets.
HasProperty(b, m, n) ==
    \E l, v \in 0 .. n - m :
        /\ n = m + 1 + l + W + v
        /\ b[m + 1] = l
        /\ SubSeq(b, m + l + 2, m + l + 1 + W) = ToBE(v)

\* The result of reading a property that ends with the n-th octet.
PropertyRead(b, pos, n) ==
    [res |-> "Ok", name |-> SubSeq(b, pos + 2, pos + 1 + b[pos + 1]),
     val |-> SubSeq(b, pos + b[pos + 1] + W + 2, n), next |-> n]

\* The sizes are small enough for a usize: no sum of positions wraps.
Fits(b) == Len(b) < Power[W] /\ Len(b) + Power[W] <= USIZE

\* W octets in a body.
LEMMA SizeSlice ==
    ASSUME NEW b \in Seq(Octet), NEW p \in Nat, p + W <= Len(b)
    PROVE  SubSeq(b, p + 1, p + W) \in [1 .. W -> Octet]
  <1>1. W \in Nat /\ Len(b) \in Nat
    BY CommandsAssumption
  <1>2. PICK m \in Nat, n \in Nat : m = p + 1 /\ n = p + W
    BY <1>1
  <1>3. \A i \in m .. n : b[i] \in Octet
    BY <1>1, <1>2
  <1>4. n - m + 1 = W /\ (m <= n <=> W # 0)
    BY <1>1, <1>2
  <1>5. SubSeq(b, m, n) \in Seq(Octet) /\ Len(SubSeq(b, m, n)) = W
    BY <1>1, <1>2, <1>3, <1>4, SubSeqProperties
  <1>6. PICK s \in Seq(Octet) : s = SubSeq(b, m, n) /\ Len(s) = W
    BY <1>5
  <1>7. s \in [1 .. W -> Octet]
    BY <1>6, LenProperties
  <1> QED
    BY <1>2, <1>6, <1>7, Zenon

\* A turn of the loop reads the property that is there.
LEMMA ReadsProperty ==
    ASSUME NEW b \in Seq(Octet), NEW pos \in Nat, pos < Len(b), Fits(b)
    PROVE  \/ /\ ReadProperty(b, pos) = [res |-> "MalformedMetadata"]
              /\ \A n \in 0 .. Len(b) : ~HasProperty(b, pos, n)
           \/ \E n \in pos + 1 .. Len(b) :
                 /\ HasProperty(b, pos, n)
                 /\ \A k \in 0 .. Len(b) : HasProperty(b, pos, k) => k = n
                 /\ ReadProperty(b, pos) = PropertyRead(b, pos, n)
  <1>1. W \in Nat /\ USIZE \in Nat /\ Len(b) \in Nat /\ Power[W] \in Nat
    BY CommandsAssumption, PowerFacts
  <1>2. PICK len \in Nat, P \in Nat : len = Len(b) /\ P = Power[W] /\ len < P /\ len + P <= USIZE
    BY <1>1 DEF Fits
  <1>3. PICK l \in Nat : l = b[pos + 1]
    BY <1>1, OctetFacts
  <1>4. PICK size_at \in Nat, val_at \in Nat :
            size_at = pos + 1 + l /\ val_at = size_at + W /\ val_at = pos + 1 + l + W
    BY <1>1
  <1>5. PICK s : s = SubSeq(b, size_at + 1, val_at)
    OBVIOUS
  <1>6. PICK end : end = EndOf(val_at, FromBE(s))
    OBVIOUS
  <1>7. ReadProperty(b, pos) =
          IF size_at > Len(b) \/ val_at > Len(b) \/ end > Len(b)
          THEN [res |-> "MalformedMetadata"]
          ELSE IF end < val_at THEN [res |-> "panic"]
          ELSE [res |-> "Ok", name |-> SubSeq(b, (pos + 1) + 1, size_at),
                val |-> SubSeq(b, val_at + 1, end), next |-> end]
    BY <1>3, <1>4, <1>5, <1>6, Zenon DEF ReadProperty
  <1>8. ASSUME NEW k \in 0 .. len, HasProperty(b, pos, k)
        PROVE  /\ val_at <= len
               /\ \E v \in Nat : k = val_at + v /\ v < P /\ s = ToBE(v)
    <2>1. PICK i \in 0 .. k - pos, v \in 0 .. k - pos :
              /\ k = pos + 1 + i + W + v /\ b[pos + 1] = i
              /\ SubSeq(b, pos + i + 2, pos + i + 1 + W) = ToBE(v)
      BY <1>8 DEF HasProperty
    <2>2. i = l /\ v \in Nat /\ k \in Nat
      BY <1>3, <2>1
    <2>3. k = val_at + v
      BY <1>1, <1>4, <2>1, <2>2
    <2>4. val_at <= len /\ v < P
      BY <1>2, <1>8, <2>2, <2>3
    <2>5. pos + l + 2 = size_at + 1 /\ pos + l + 1 + W = val_at
      BY <1>1, <1>4
    <2>6. s = ToBE(v)
      BY <1>5, <2>1, <2>2, <2>5, Zenon
    <2> QED
      BY <2>2, <2>3, <2>4, <2>6
  <1>9. CASE ~(val_at <= len)
    <2>1. val_at > Len(b)
      BY <1>2, <1>9
    <2>2. ReadProperty(b, pos) = [res |-> "MalformedMetadata"]
      BY <1>7, <2>1, Zenon
    <2>3. \A n \in 0 .. Len(b) : ~HasProperty(b, pos, n)
      BY <1>2, <1>8, <1>9
    <2> QED
      BY <2>2, <2>3
  <1>10. CASE val_at <= len
    <2>1. s \in [1 .. W -> Octet]
      <3>1. SubSeq(b, size_at + 1, size_at + W) \in [1 .. W -> Octet]
        BY <1>2, <1>4, <1>10, SizeSlice
      <3> QED
        BY <1>4, <1>5, <3>1, Zenon
    <2>2. PICK v \in Nat : v = FromBE(s) /\ v < P /\ s = ToBE(v)
      BY <1>2, <2>1, ToBEFromBE
    <2>3. end = val_at + v
      <3>1. val_at + v \in Nat /\ val_at + v < USIZE
        BY <1>1, <1>2, <1>10, <2>2
      <3>2. PICK e \in Nat : e = val_at + v /\ e < USIZE
        BY <3>1
      <3>3. e % USIZE = e
        BY <1>1, <3>2, ModSmall
      <3> QED
        BY <1>6, <2>2, <3>2, <3>3 DEF EndOf
    <2>4. ASSUME NEW k \in 0 .. len, HasProperty(b, pos, k) PROVE k = end
      <3>1. PICK w \in Nat : k = val_at + w /\ w < P /\ s = ToBE(w)
        BY <1>8, <2>4
      <3>2. FromBE(s) = w
        BY <1>2, <3>1, FromBEToBE
      <3> QED
        BY <2>2, <2>3, <3>1, <3>2
    <2>5. end \in Nat /\ ~(end < val_at) /\ ~(size_at > Len(b)) /\ ~(val_at > Len(b))
      BY <1>1, <1>2, <1>4, <1>10, <2>3
    <2>6. CASE end > Len(b)
      <3>1. ReadProperty(b, pos) = [res |-> "MalformedMetadata"]
        BY <1>7, <2>6, Zenon
      <3>2. ASSUME NEW k \in 0 .. Len(b) PROVE ~HasProperty(b, pos, k)
        <4>1. k \in 0 .. len /\ k # end
          BY <1>1, <1>2, <2>5, <2>6
        <4> QED
          BY <2>4, <4>1
      <3> QED
        BY <3>1, <3>2
    <2>7. CASE ~(end > Len(b))
      <3>1. end \in pos + 1 .. Len(b)
        BY <1>1, <1>2, <1>4, <2>3, <2>5, <2>7
      <3>2. HasProperty(b, pos, end)
        <4>1. l \in 0 .. end - pos /\ v \in 0 .. end - pos /\ end = pos + 1 + l + W + v
          <5>1. end = pos + 1 + l + W + v
            BY <1>1, <1>4, <2>3
          <5>2. end - pos = 1 + l + W + v
            BY <1>1, <5>1
          <5> QED
            BY <1>1, <5>1, <5>2
        <4>2. pos + l + 2 = size_at + 1 /\ pos + l + 1 + W = val_at
          BY <1>1, <1>4
        <4>3. SubSeq(b, pos + l + 2, pos + l + 1 + W) = ToBE(v)
          BY <1>5, <2>2, <4>2, Zenon
        <4> QED
          BY <1>3, <4>1, <4>3 DEF HasProperty
      <3>3. \A k \in 0 .. Len(b) : HasProperty(b, pos, k) => k = end
        BY <1>2, <2>4
      <3>4. ReadProperty(b, pos) = PropertyRead(b, pos, end)
        <4>1. ReadProperty(b, pos) =
                [res |-> "Ok", name |-> SubSeq(b, (pos + 1) + 1, size_at),
                 val |-> SubSeq(b, val_at + 1, end), next |-> end]
          BY <1>7, <2>5, <2>7, Zenon
        <4>2. (pos + 1) + 1 = pos + 2 /\ size_at = pos + 1 + l /\ val_at + 1 = pos + l + W + 2
          BY <1>1, <1>4
        <4> QED
          BY <1>3, <4>1, <4>2, Zenon DEF PropertyRead
      <3> QED
        BY <3>1, <3>2, <3>3, <3>4
    <2> QED
      BY <2>6, <2>7
  <1> QED
    BY <1>9, <1>10

\* A turn of the loop of parse_ready_command, after which it goes on with from.
Turn(b, from, pos) ==
    IF pos = Len(b) THEN Fails("WrongSocketType")
    ELSE LET p == ReadProperty(b, pos)
         IN  IF p.res # "Ok" THEN Fails(p.res)
             ELSE IF p.name \in SocketType THEN Value(p.val)
             ELSE from[p.next]

\* A turn, by the property that it reads.
LEMMA TurnCases ==
    ASSUME NEW b \in Seq(Octet), Fits(b), NEW pos \in 0 .. Len(b), NEW from
    PROVE  \/ pos = Len(b) /\ Turn(b, from, pos) = Fails("WrongSocketType")
           \/ /\ pos < Len(b) /\ Turn(b, from, pos) = Fails("MalformedMetadata")
              /\ \A n \in 0 .. Len(b) : ~HasProperty(b, pos, n)
           \/ \E n \in pos + 1 .. Len(b) :
                 /\ pos < Len(b) /\ HasProperty(b, pos, n)
                 /\ \A k \in 0 .. Len(b) : HasProperty(b, pos, k) => k = n
                 /\ Turn(b, from, pos) =
                      IF SubSeq(b, pos + 2, pos + 1 + b[pos + 1]) \in SocketType
                      THEN Value(SubSeq(b, pos + b[pos + 1] + W + 2, n))
                      ELSE from[n]
  <1>1. CASE pos = Len(b)
    BY <1>1, Zenon DEF Turn
  <1>2. CASE pos # Len(b)
    <2>1. pos \in Nat /\ Len(b) \in Nat /\ pos < Len(b)
      BY <1>2
    <2>2. PICK p : p = ReadProperty(b, pos)
      OBVIOUS
    <2>3. Turn(b, from, pos) =
             IF p.res # "Ok" THEN Fails(p.res)
             ELSE IF p.name \in SocketType THEN Value(p.val)
             ELSE from[p.next]
      BY <1>2, <2>2, Zenon DEF Turn
    <2>4. CASE /\ p = [res |-> "MalformedMetadata"]
               /\ \A n \in 0 .. Len(b) : ~HasProperty(b, pos, n)
      <3>1. p.res = "MalformedMetadata"
        BY <2>4
      <3>2. Turn(b, from, pos) = Fails("MalformedMetadata")
        BY <2>3, <3>1
      <3> QED
        BY <2>1, <2>4, <3>2
    <2>5. CASE \E n \in pos + 1 .. Len(b) :
                 /\ HasProperty(b, pos, n)
                 /\ \A k \in 0 .. Len(b) : HasProperty(b, pos, k) => k = n
                 /\ p = PropertyRead(b, pos, n)
      <3>1. PICK n \in pos + 1 .. Len(b) :
                 /\ HasProperty(b, pos, n)
                 /\ \A k \in 0 .. Len(b) : HasProperty(b, pos, k) => k = n
                 /\ p = PropertyRead(b, pos, n)
        BY <2>5
      <3>2. PICK name, val : name = SubSeq(b, pos + 2, pos + 1 + b[pos + 1])
                             /\ val = SubSeq(b, pos + b[pos + 1] + W + 2, n)
        OBVIOUS
      <3>3. p = [res |-> "Ok", name |-> name, val |-> val, next |-> n]
        BY <3>1, <3>2, Zenon DEF PropertyRead
      <3>4. p.res = "Ok" /\ p.name = name /\ p.val = val /\ p.next = n
        BY <3>3
      <3>5. Turn(b, from, pos) = IF name \in SocketType THEN Value(val) ELSE from[n]
        BY <2>3, <3>4, Zenon
      <3> QED
        BY <2>1, <3>1, <3>2, <3>5, Zenon
    <2> QED
      BY <2>1, <2>2, <2>4, <2>5, ReadsProperty
  <1> QED
    BY <1>1, <1>2

\* Whatever a turn reads, the position only moves forward, and stays in the body.
LEMMA ReadsForward ==
    ASSUME NEW b \in Seq(Octet), NEW pos \in Nat, pos < Len(b)
    PROVE  \/ ReadProperty(b, pos) = [res |-> "MalformedMetadata"]
           \/ ReadProperty(b, pos) = [res |-> "panic"]
           \/ \E n \in pos + 1 .. Len(b) : ReadProperty(b, pos) = PropertyRead(b, pos, n)
  <1>1. W \in Nat /\ USIZE \in Nat /\ USIZE > 0 /\ Len(b) \in Nat
    <2>1. Power[W] > 0 /\ Power[W] \in Nat
      BY CommandsAssumption, PowerPositive
    <2> QED
      BY <2>1, CommandsAssumption
  <1>2. PICK l \in Nat : l = b[pos + 1]
    BY <1>1, OctetFacts
  <1>3. PICK size_at \in Nat, val_at \in Nat :
            size_at = pos + 1 + l /\ val_at = size_at + W /\ val_at = pos + 1 + l + W
    BY <1>1
  <1>4. PICK s : s = SubSeq(b, size_at + 1, val_at)
    OBVIOUS
  <1>5. PICK end : end = EndOf(val_at, FromBE(s))
    OBVIOUS
  <1>6. ReadProperty(b, pos) =
          IF size_at > Len(b) \/ val_at > Len(b) \/ end > Len(b)
          THEN [res |-> "MalformedMetadata"]
          ELSE IF end < val_at THEN [res |-> "panic"]
          ELSE [res |-> "Ok", name |-> SubSeq(b, (pos + 1) + 1, size_at),
                val |-> SubSeq(b, val_at + 1, end), next |-> end]
    BY <1>2, <1>3, <1>4, <1>5, Zenon DEF ReadProperty
  <1>7. CASE size_at > Len(b) \/ val_at > Len(b) \/ end > Len(b)
    BY <1>6, <1>7, Zenon
  <1>8. CASE ~(size_at > Len(b) \/ val_at > Len(b) \/ end > Len(b)) /\ end < val_at
    BY <1>6, <1>8, Zenon
  <1>9. CASE ~(size_at > Len(b) \/ val_at > Len(b) \/ end > Len(b)) /\ ~(end < val_at)
    <2>1. s \in [1 .. W -> Octet]
      <3>1. size_at + W <= Len(b)
        BY <1>1, <1>3, <1>9
      <3>2. SubSeq(b, size_at + 1, size_at + W) \in [1 .. W -> Octet]
        BY <3>1, SizeSlice
      <3> QED
        BY <1>3, <1>4, <3>2, Zenon
    <2>2. PICK sum \in Nat : sum = val_at + FromBE(s)
      BY <2>1, ToBEFromBE
    <2>3. end \in Nat
      BY <1>1, <1>5, <2>2, DivFacts DEF EndOf
    <2>4. end \in pos + 1 .. Len(b)
      BY <1>1, <1>3, <1>9, <2>3
    <2>5. ReadProperty(b, pos) =
            [res |-> "Ok", name |-> SubSeq(b, (pos + 1) + 1, size_at),
             val |-> SubSeq(b, val_at + 1, end), next |-> end]
      BY <1>6, <1>9, Zenon
    <2>6. (pos + 1) + 1 = pos + 2 /\ size_at = pos + 1 + l /\ val_at + 1 = pos + l + W + 2
      BY <1>1, <1>3
    <2>7. ReadProperty(b, pos) = PropertyRead(b, pos, end)
      BY <1>2, <2>5, <2>6, Zenon DEF PropertyRead
    <2> QED
      BY <2>4, <2>7
  <1> QED
    BY <1>7, <1>8, <1>9

\* The loop takes one turn after the other.
LEMMA LoopTurns ==
    ASSUME NEW b \in Seq(Octet)
    PROVE  \E from : /\ \A start : FindSocketType(b, start) = from[start]
                     /\ \A pos \in 0 .. Len(b) : from[pos] = Turn(b, from, pos)
  <1>1. Len(b) \in Nat /\ W \in Nat
    BY CommandsAssumption
  <1>2. PICK D : D = 0 .. Len(b)
    OBVIOUS
  <1> DEFINE V == {Fails("WrongSocketType"), Fails("MalformedMetadata"), Fails("panic")}
                  \cup {Value(SubSeq(b, ij[1], ij[2])) : ij \in Nat \X Nat}
             G == [u \in [D -> V] |-> [pos \in D |-> Turn(b, u, pos)]]
             rank == [pos \in D |-> Len(b) - pos]
  <1>3. ASSUME NEW pos \in D, NEW u \in [D -> V] PROVE Turn(b, u, pos) \in V
    <2> DEFINE F == {Value(SubSeq(b, ij[1], ij[2])) : ij \in Nat \X Nat}
    <2>1. /\ Fails("WrongSocketType") \in V /\ Fails("MalformedMetadata") \in V
          /\ Fails("panic") \in V
      OBVIOUS
    <2>2. ASSUME NEW i \in Nat, NEW n \in Nat PROVE Value(SubSeq(b, i, n)) \in V
      <3>1. <<i, n>> \in Nat \X Nat /\ <<i, n>>[1] = i /\ <<i, n>>[2] = n
        OBVIOUS
      <3>2. Value(SubSeq(b, <<i, n>>[1], <<i, n>>[2])) \in F
        BY <3>1, Zenon
      <3> QED
        BY <3>1, <3>2, Zenon
    <2> HIDE DEF V
    <2>3. CASE pos = Len(b)
      BY <2>1, <2>3, Zenon DEF Turn
    <2>4. CASE pos # Len(b)
      <3>1. pos \in Nat /\ pos < Len(b)
        BY <1>1, <1>2, <2>4
      <3>2. PICK p : p = ReadProperty(b, pos)
        OBVIOUS
      <3>3. Turn(b, u, pos) = IF p.res # "Ok" THEN Fails(p.res)
                              ELSE IF p.name \in SocketType THEN Value(p.val)
                              ELSE u[p.next]
        BY <2>4, <3>2, Zenon DEF Turn
      <3>4. CASE p = [res |-> "MalformedMetadata"] \/ p = [res |-> "panic"]
        <4>1. p.res = "MalformedMetadata" \/ p.res = "panic"
          BY <3>4
        <4> QED
          BY <2>1, <3>3, <4>1
      <3>5. ASSUME NEW n \in pos + 1 .. Len(b), p = PropertyRead(b, pos, n)
            PROVE  Turn(b, u, pos) \in V
        <4>1. n \in D /\ n \in Nat
          BY <1>1, <1>2, <3>1
        <4>2. u[n] \in V
          BY <4>1
        <4>3. b[pos + 1] \in Nat
          BY <1>1, <3>1, OctetFacts
        <4>4. PICK i \in Nat : i = pos + b[pos + 1] + W + 2
          BY <1>1, <3>1, <4>3
        <4>5. p.res = "Ok" /\ p.val = SubSeq(b, i, n) /\ p.next = n
          <5>1. PICK name, val : name = SubSeq(b, pos + 2, pos + 1 + b[pos + 1]) /\ val = SubSeq(b, i, n)
            OBVIOUS
          <5>2. p = [res |-> "Ok", name |-> name, val |-> val, next |-> n]
            BY <3>5, <4>4, <5>1, Zenon DEF PropertyRead
          <5> QED
            BY <5>1, <5>2
        <4>6. Value(SubSeq(b, i, n)) \in V
          BY <2>2, <4>1
        <4> QED
          BY <3>3, <4>2, <4>5, <4>6, Zenon
      <3> QED
        BY <3>1, <3>2, <3>4, <3>5, ReadsForward
    <2> QED
      BY <2>3, <2>4
  <1> HIDE DEF V
  <1>4. V # {}
    BY DEF V
  <1>5. \A u \in [D -> V] : G[u] \in [D -> V]
    BY <1>3
  <1>6. rank \in [D -> Nat] /\ Len(b) + 1 \in Nat /\ \A pos \in D : rank[pos] < Len(b) + 1
    BY <1>1, <1>2
  <1>7. ASSUME NEW u \in [D -> V], NEW h \in [D -> V], NEW pos \in D,
               \A y \in D : rank[y] < rank[pos] => u[y] = h[y]
        PROVE  G[u][pos] = G[h][pos]
    <2>1. pos \in 0 .. Len(b) /\ pos \in Nat
      BY <1>1, <1>2
    <2>2. ASSUME NEW n \in pos + 1 .. Len(b) PROVE u[n] = h[n]
      <3>1. n \in D /\ Len(b) - n < Len(b) - pos
        BY <1>1, <1>2, <2>1
      <3> QED
        BY <1>7, <3>1
    <2>3. Turn(b, u, pos) = Turn(b, h, pos)
      <3>1. CASE pos = Len(b)
        BY <3>1, Zenon DEF Turn
      <3>2. CASE pos # Len(b)
        <4>1. pos < Len(b)
          BY <1>1, <2>1, <3>2
        <4>2. PICK p : p = ReadProperty(b, pos)
          OBVIOUS
        <4>3. p.res = "Ok" => p.next \in pos + 1 .. Len(b)
          <5>1. ASSUME NEW n \in pos + 1 .. Len(b), p = PropertyRead(b, pos, n)
                PROVE  p.next \in pos + 1 .. Len(b)
            BY <5>1 DEF PropertyRead
          <5>2. p = [res |-> "MalformedMetadata"] \/ p = [res |-> "panic"] => p.res # "Ok"
            OBVIOUS
          <5> QED
            BY <2>1, <4>1, <4>2, <5>1, <5>2, ReadsForward
        <4>4. p.res = "Ok" => u[p.next] = h[p.next]
          BY <2>2, <4>3
        <4> QED
          BY <3>2, <4>2, <4>4, Zenon DEF Turn
      <3> QED
        BY <3>1, <3>2
    <2> QED
      BY <2>3
  <1>8. IsRecursion(G, D, V, rank, Len(b) + 1)
    <2> HIDE DEF G, rank
    <2> QED
      BY <1>4, <1>5, <1>6, <1>7 DEF IsRecursion
  <1>9. PICK f \in [D -> V] : \A pos \in D : f[pos] = G[f][pos]
    <2> HIDE DEF G, rank
    <2> QED
      BY <1>8, Recursion
  <1>10. \A pos \in D : f[pos] = Turn(b, f, pos)
    BY <1>9
  <1>11. f = [pos \in 0 .. Len(b) |-> Turn(b, f, pos)]
    <2>1. PICK u : u = [pos \in D |-> Turn(b, f, pos)]
      OBVIOUS
    <2>2. f = u
      BY <1>10, <2>1
    <2> QED
      BY <1>2, <2>1, <2>2, Zenon
  <1> HIDE DEF G, rank
  <1> DEFINE from == CHOOSE u : u = [pos \in 0 .. Len(b) |-> Turn(b, u, pos)]
  <1>12. from = [pos \in 0 .. Len(b) |-> Turn(b, from, pos)]
    BY <1>11, Zenon
  <1>13. \A start : FindSocketType(b, start) = from[start]
    BY Zenon DEF FindSocketType, Turn
  <1> HIDE DEF from
  <1>14. \A pos \in 0 .. Len(b) : from[pos] = Turn(b, from, pos)
    BY <1>12, Zenon
  <1> QED
    BY <1>13, <1>14

\* What the function of Whole computes for n from its other values.
Reaches(start, to, n) == n = start \/ \E m \in start .. n - 1 : IsProperty(m, n) /\ to[m]

\* Whole properties end where a property ends that begins where they do.
LEMMA WholeReaches ==
    ASSUME Len(body) \in Nat, NEW start \in Nat
    PROVE  /\ Whole(start) \subseteq start .. Len(body)
           /\ \A n \in start .. Len(body) :
                  n \in Whole(start) <=>
                      n = start \/ \E m \in Whole(start) : m < n /\ IsProperty(m, n)
  <1>1. PICK D : D = start .. Len(body)
    OBVIOUS
  <1> DEFINE G == [u \in [D -> BOOLEAN] |-> [n \in D |-> Reaches(start, u, n)]]
             rank == [n \in D |-> n]
  <1>2. \A u, n : Reaches(start, u, n) \in BOOLEAN
    BY DEF Reaches
  <1>3. \A u \in [D -> BOOLEAN] : G[u] \in [D -> BOOLEAN]
    BY <1>2
  <1>4. rank \in [D -> Nat] /\ Len(body) + 1 \in Nat /\ \A n \in D : rank[n] < Len(body) + 1
    BY <1>1
  <1>5. ASSUME NEW u \in [D -> BOOLEAN], NEW h \in [D -> BOOLEAN], NEW n \in D,
               \A y \in D : rank[y] < rank[n] => u[y] = h[y]
        PROVE  G[u][n] = G[h][n]
    <2>1. ASSUME NEW m \in start .. n - 1 PROVE u[m] = h[m]
      <3>1. m \in D /\ m < n
        BY <1>1
      <3> QED
        BY <1>5, <3>1
    <2>2. Reaches(start, u, n) = Reaches(start, h, n)
      BY <2>1, Zenon DEF Reaches
    <2> QED
      BY <2>2
  <1>6. IsRecursion(G, D, BOOLEAN, rank, Len(body) + 1)
    <2> HIDE DEF G, rank
    <2>1. BOOLEAN # {}
      OBVIOUS
    <2> QED
      BY <1>3, <1>4, <1>5, <2>1 DEF IsRecursion
  <1>7. PICK f \in [D -> BOOLEAN] : \A n \in D : f[n] = G[f][n]
    <2> HIDE DEF G, rank
    <2> QED
      BY <1>6, Recursion
  <1>8. \A n \in D : f[n] = Reaches(start, f, n)
    BY <1>7
  <1>9. f = [n \in start .. Len(body) |-> Reaches(start, f, n)]
    <2>1. PICK u : u = [n \in D |-> Reaches(start, f, n)]
      OBVIOUS
    <2>2. f = u
      BY <1>8, <2>1
    <2> QED
      BY <1>1, <2>1, <2>2, Zenon
  <1> HIDE DEF G, rank
  <1> DEFINE to == CHOOSE u : u = [n \in start .. Len(body) |-> Reaches(start, u, n)]
  <1>10. to = [n \in start .. Len(body) |-> Reaches(start, to, n)]
    BY <1>9, Zenon
  <1>11. Whole(start) = {n \in start .. Len(body) : to[n]}
    BY Zenon DEF Whole, Reaches
  <1> HIDE DEF to
  <1>12. \A n \in start .. Len(body) : to[n] = Reaches(start, to, n)
    BY <1>10, Zenon
  <1>13. Whole(start) \subseteq start .. Len(body)
    BY <1>11, Zenon
  <1>14. ASSUME NEW n \in start .. Len(body)
         PROVE  n \in Whole(start) <=>
                   n = start \/ \E m \in Whole(start) : m < n /\ IsProperty(m, n)
    <2>1. \A m : m \in start .. n - 1 <=> m \in start .. Len(body) /\ m < n
      OBVIOUS
    <2>2. n \in Whole(start) <=> n = start \/ \E m \in start .. n - 1 : IsProperty(m, n) /\ to[m]
      BY <1>11, <1>12, Zenon DEF Reaches
    <2> QED
      BY <1>11, <2>1, <2>2, Zenon
  <1> QED
    BY <1>13, <1>14

\* A property of the body.
LEMMA PropertyHere ==
    ASSUME NEW m, NEW n
    PROVE  IsProperty(m, n) <=> HasProperty(body, m, n)
  BY Zenon DEF IsProperty, HasProperty

\* The parts of a property are in the body.
LEMMA PropertyBounds ==
    ASSUME body \in Seq(Octet), NEW m \in Nat, NEW n \in 0 .. Len(body), IsProperty(m, n)
    PROVE  /\ body[m + 1] \in Nat /\ m + 1 + body[m + 1] < n /\ m < n
  <1>1. W \in Nat /\ W > 0 /\ Len(body) \in Nat
    BY CommandsAssumption
  <1>2. PICK l \in 0 .. n - m, v \in 0 .. n - m : n = m + 1 + l + W + v /\ body[m + 1] = l
    BY DEF IsProperty
  <1>3. l \in Nat /\ v \in Nat /\ n \in Nat
    BY <1>1
  <1> QED
    BY <1>1, <1>2, <1>3

\* The name of the socket type is one octet long and stands at the beginning of
\* the property.
LEMMA SocketTypeIs ==
    ASSUME body \in Seq(Octet), NEW m \in Nat, NEW n \in 0 .. Len(body), IsProperty(m, n)
    PROVE  /\ IsSocketType(m, n) <=> SubSeq(body, m + 2, m + 1 + body[m + 1]) \in SocketType
           /\ SubSeq(body, m + 2, m + 1 + body[m + 1]) \in SocketType => body[m + 1] = 1
  <1>1. body \in Seq(Nat) /\ Len(body) \in Nat
    BY OctetFacts
  <1>2. PICK l \in Nat : l = body[m + 1] /\ m + 1 + l < n /\ m < n
    BY PropertyBounds
  <1>3. PICK u : u = SubSeq(body, (m + 1) + 1, (m + 1) + l)
    OBVIOUS
  <1>4. u \in Seq(Nat) /\ Len(u) = l /\ At(body, m + 1, u)
    <2>1. m + 1 \in Nat /\ (m + 1) + l <= Len(body)
      BY <1>1, <1>2
    <2>2. /\ SubSeq(body, (m + 1) + 1, (m + 1) + l) \in Seq(Nat)
          /\ Len(SubSeq(body, (m + 1) + 1, (m + 1) + l)) = l
          /\ At(body, m + 1, SubSeq(body, (m + 1) + 1, (m + 1) + l))
      BY <1>1, <2>1, SliceAt
    <2> QED
      BY <1>3, <2>2, Zenon
  <1>5. u = SubSeq(body, m + 2, m + 1 + body[m + 1])
    <2>1. (m + 1) + 1 = m + 2 /\ (m + 1) + l = m + 1 + l
      OBVIOUS
    <2> QED
      BY <1>2, <1>3, <2>1, Zenon
  <1>6. PICK k \in Nat : n = m + k /\ k > 1 + l /\ m + k <= Len(body)
    <2>1. n \in Nat /\ n <= Len(body)
      BY <1>1
    <2>2. n - m \in Nat /\ n = m + (n - m) /\ n - m > 1 + l
      BY <1>2, <2>1
    <2> QED
      BY <2>1, <2>2
  <1>7. PICK t : t = SubSeq(body, m + 1, m + k)
    OBVIOUS
  <1>8. t \in Seq(Nat) /\ Len(t) = k /\ At(body, m, t)
    <2>1. /\ SubSeq(body, m + 1, m + k) \in Seq(Nat) /\ Len(SubSeq(body, m + 1, m + k)) = k
          /\ At(body, m, SubSeq(body, m + 1, m + k))
      BY <1>1, <1>6, SliceAt
    <2> QED
      BY <1>7, <2>1, Zenon
  <1>9. \A i \in 1 .. k : t[i] = body[m + i]
    BY <1>8 DEF At
  <1>10. ASSUME NEW x \in Nat
         PROVE  IsPrefix(Named(<<x>>), t) <=> l = 1 /\ body[m + 2] = x
    <2>1. <<x>> \in Seq(Nat) /\ Named(<<x>>) \in Seq(Nat) /\ Len(<<x>>) = 1 /\ 0 \in Nat /\ 1 \in Nat
      BY DEF Named
    <2>2. IsPrefix(Named(<<x>>), t) <=> At(t, 0, Named(<<x>>))
      BY <1>8, <2>1, PrefixAt
    <2>3. At(t, 0, Named(<<x>>)) <=> 0 < Len(t) /\ t[0 + 1] = 1 /\ At(t, 0 + 1, <<x>>)
      BY <1>8, <2>1, AtNamed
    <2>4. At(t, 1, <<x>>) <=> 1 < Len(t) /\ t[1 + 1] = x
      BY <1>8, <2>1, AtOne
    <2>5. 0 + 1 = 1 /\ 1 + 1 = 2 /\ 0 < k /\ 1 < k /\ 1 \in 1 .. k /\ 2 \in 1 .. k
      BY <1>6
    <2>6. t[1] = l /\ t[2] = body[m + 2]
      BY <1>2, <1>9, <2>5
    <2> QED
      BY <1>8, <2>2, <2>3, <2>4, <2>5, <2>6, Zenon
  <1>11. ASSUME NEW x \in Nat
         PROVE  u = <<x>> <=> l = 1 /\ body[m + 2] = x
    <2>1. <<x>> \in Seq(Nat) /\ Len(<<x>>) = 1 /\ <<x>>[1] = x /\ m + 1 \in Nat
      OBVIOUS
    <2>2. l = 1 => u[1] = body[(m + 1) + 1]
      BY <1>4 DEF At
    <2>3. (m + 1) + 1 = m + 2
      OBVIOUS
    <2>4. ASSUME u = <<x>> PROVE l = 1 /\ body[m + 2] = x
      BY <1>4, <2>1, <2>2, <2>3, <2>4
    <2>5. ASSUME l = 1, body[m + 2] = x PROVE u = <<x>>
      <3>1. Len(u) = Len(<<x>>) /\ \A i \in 1 .. Len(u) : u[i] = <<x>>[i]
        BY <1>4, <2>1, <2>2, <2>3, <2>5
      <3> QED
        BY <1>4, <2>1, <3>1, SeqEqual
    <2> QED
      BY <2>4, <2>5
  <1>12. \A name \in SocketType : \E x \in Nat : name = <<x>>
    BY DEF SocketType
  <1>13. t = SubSeq(body, m + 1, n)
    BY <1>6, <1>7, Zenon
  <1>14. ASSUME NEW name \in SocketType
         PROVE  (IsPrefix(Named(name), t) <=> u = name) /\ (u = name => l = 1)
    <2>1. PICK x \in Nat : name = <<x>>
      BY <1>12
    <2> QED
      BY <1>10, <1>11, <2>1
  <1>15. IsSocketType(m, n) <=> \E name \in SocketType : IsPrefix(Named(name), t)
    BY <1>13, Zenon DEF IsSocketType
  <1>16. IsSocketType(m, n) <=> u \in SocketType
    BY <1>14, <1>15
  <1>17. u \in SocketType => l = 1
    BY <1>14
  <1> QED
    BY <1>2, <1>5, <1>16, <1>17, Zenon

\* The properties before pos are whole, and none of them is a socket type.
Past(start, pos) ==
    /\ pos \in Whole(start)
    /\ \A m \in Whole(start) : m < pos =>
          \A n \in start .. Len(body) : IsProperty(m, n) => n <= pos /\ ~IsSocketType(m, n)

\* Where the property after pos ends, the next one begins.
LEMMA NoneBetween ==
    ASSUME Len(body) \in Nat, NEW start \in Nat, NEW pos, Past(start, pos), NEW next \in Nat,
           \A n \in start .. Len(body) : IsProperty(pos, n) => n >= next
    PROVE  \A k \in Whole(start) : k <= pos \/ k >= next
  <1>1. pos \in Nat /\ start <= pos /\ Whole(start) \subseteq start .. Len(body)
    BY WholeReaches DEF Past
  <1> DEFINE S == {n \in Nat : \A k \in Whole(start) : k < n => k <= pos \/ k >= next}
  <1>2. 0 \in S
    BY <1>1
  <1>3. ASSUME NEW n \in S PROVE n + 1 \in S
    <2> SUFFICES ASSUME NEW k \in Whole(start), k < n + 1 PROVE k <= pos \/ k >= next
      OBVIOUS
    <2>1. k \in start .. Len(body) /\ k \in Nat
      BY <1>1
    <2>2. CASE k < n
      BY <2>2
    <2>3. CASE k = n
      <3>1. CASE k = start
        BY <1>1, <3>1
      <3>2. CASE k # start
        <4>1. PICK m \in Whole(start) : m < k /\ IsProperty(m, k)
          BY <2>1, <3>2, WholeReaches
        <4>2. m \in Nat
          BY <1>1
        <4>3. m <= pos \/ m >= next
          BY <2>3, <4>1
        <4>4. CASE m < pos
          BY <2>1, <4>1, <4>4 DEF Past
        <4>5. CASE m = pos
          BY <2>1, <4>1, <4>5
        <4>6. CASE m >= next
          BY <2>1, <4>1, <4>2, <4>6
        <4> QED
          BY <1>1, <4>2, <4>3, <4>4, <4>5, <4>6
      <3> QED
        BY <3>1, <3>2
    <2> QED
      BY <2>1, <2>2, <2>3
  <1>4. S = Nat
    <2> HIDE DEF S
    <2>1. S \subseteq Nat
      BY DEF S
    <2> QED
      BY <1>2, <1>3, <2>1, EveryNat
  <1>5. ASSUME NEW k \in Whole(start) PROVE k <= pos \/ k >= next
    <2>1. k \in Nat /\ k + 1 \in Nat /\ k < k + 1
      BY <1>1
    <2> QED
      BY <1>4, <2>1
  <1> QED
    BY <1>5

\* The reference, where no property is a socket type.
LEMMA ReferenceNone ==
    ASSUME NEW start, \A m \in Whole(start), n \in start .. Len(body) : ~IsSocketType(m, n)
    PROVE  ReferenceMetadata(start) = IF Len(body) \in Whole(start) THEN Fails("WrongSocketType")
                                      ELSE Fails("MalformedMetadata")
  <1> DEFINE types == {mn \in Whole(start) \X (start .. Len(body)) : IsSocketType(mn[1], mn[2])}
  <1>1. types = {}
    OBVIOUS
  <1> QED
    BY <1>1, Zenon DEF ReferenceMetadata

\* The reference, where there is a first socket type.
LEMMA ReferenceFirst ==
    ASSUME NEW start \in Nat, Whole(start) \subseteq Nat,
           NEW m \in Whole(start), NEW n \in start .. Len(body), IsSocketType(m, n),
           \A i \in Whole(start), j \in start .. Len(body) :
               IsSocketType(i, j) => m <= i /\ (i = m => j = n)
    PROVE  ReferenceMetadata(start) = Value(SubSeq(body, m + 2 + W + 1, n))
  <1> DEFINE types == {mn \in Whole(start) \X (start .. Len(body)) : IsSocketType(mn[1], mn[2])}
             first == CHOOSE mn \in types : \A other \in types : mn[1] <= other[1]
  <1>1. ReferenceMetadata(start) =
          IF types # {} THEN Value(SubSeq(body, first[1] + 2 + W + 1, first[2]))
          ELSE IF Len(body) \in Whole(start) THEN Fails("WrongSocketType")
          ELSE Fails("MalformedMetadata")
    BY Zenon DEF ReferenceMetadata
  <1>2. <<m, n>> \in types
    OBVIOUS
  <1>3. ASSUME NEW o \in types
        PROVE  o = <<o[1], o[2]>> /\ o[1] \in Whole(start) /\ o[2] \in start .. Len(body)
               /\ m <= o[1] /\ (o[1] = m => o[2] = n)
    OBVIOUS
  <1>4. <<m, n>>[1] = m /\ <<m, n>>[2] = n
    OBVIOUS
  <1> HIDE DEF types
  <1>5. \A other \in types : <<m, n>>[1] <= other[1]
    BY <1>3, <1>4
  <1>6. first \in types /\ \A other \in types : first[1] <= other[1]
    BY <1>2, <1>5, Zenon
  <1> HIDE DEF first
  <1>7. first[1] <= m /\ m <= first[1] /\ first[1] \in Nat /\ m \in Nat
    BY <1>2, <1>3, <1>4, <1>6
  <1>8. first[1] = m
    BY <1>7
  <1>9. first[2] = n
    BY <1>3, <1>6, <1>8
  <1> QED
    BY <1>1, <1>2, <1>8, <1>9, Zenon

\* The loop finds what the reference says, from the end of the body backwards.
LEMMA LoopAgrees ==
    ASSUME body \in Seq(Octet), Fits(body), NEW start \in 0 .. Len(body)
    PROVE  FindSocketType(body, start) = ReferenceMetadata(start)
  <1>1. Len(body) \in Nat /\ start \in Nat /\ W \in Nat
    BY CommandsAssumption
  <1>2. PICK from : /\ \A pos : FindSocketType(body, pos) = from[pos]
                    /\ \A pos \in 0 .. Len(body) : from[pos] = Turn(body, from, pos)
    BY LoopTurns
  <1>3. /\ Whole(start) \subseteq start .. Len(body) /\ Whole(start) \subseteq Nat
        /\ \A n \in start .. Len(body) :
               n \in Whole(start) <=>
                   n = start \/ \E m \in Whole(start) : m < n /\ IsProperty(m, n)
    <2>1. Whole(start) \subseteq start .. Len(body)
      BY <1>1, WholeReaches
    <2>2. Whole(start) \subseteq Nat
      BY <1>1, <2>1
    <2> QED
      BY <1>1, <2>1, <2>2, WholeReaches
  <1>4. ASSUME NEW m \in Whole(start), NEW n \in start .. Len(body), IsSocketType(m, n)
        PROVE  IsProperty(m, n) /\ m < n /\ n \in 0 .. Len(body)
    <2>1. IsProperty(m, n)
      BY <1>4 DEF IsSocketType
    <2>2. m \in Nat /\ n \in 0 .. Len(body)
      BY <1>1, <1>3
    <2> QED
      BY <2>1, <2>2, PropertyBounds
  <1> DEFINE Ref == ReferenceMetadata(start)
             S == {d \in Nat : \A pos \in Whole(start) :
                                  Len(body) - pos < d /\ Past(start, pos) => from[pos] = Ref}
  <1> HIDE DEF Ref
  <1>5. 0 \in S
    <2>1. \A pos \in Whole(start) : ~(Len(body) - pos < 0)
      BY <1>1, <1>3
    <2> QED
      BY <2>1
  <1>6. ASSUME NEW d \in S PROVE d + 1 \in S
    <2> SUFFICES ASSUME NEW pos \in Whole(start), Len(body) - pos < d + 1, Past(start, pos)
                 PROVE  from[pos] = Ref
      OBVIOUS
    <2>1. pos \in start .. Len(body) /\ pos \in 0 .. Len(body) /\ pos \in Nat
      BY <1>1, <1>3
    <2>2. from[pos] = Turn(body, from, pos)
      BY <1>2, <2>1
    <2>3. ASSUME NEW m \in Whole(start), NEW n \in start .. Len(body), IsSocketType(m, n)
          PROVE  ~(m < pos)
      BY <1>4, <2>3 DEF Past
    <2>4. CASE pos = Len(body) /\ Turn(body, from, pos) = Fails("WrongSocketType")
      <3>1. ASSUME NEW m \in Whole(start), NEW n \in start .. Len(body) PROVE ~IsSocketType(m, n)
        <4> SUFFICES ASSUME IsSocketType(m, n) PROVE FALSE
          OBVIOUS
        <4>1. m < n /\ ~(m < pos) /\ m \in Nat /\ n \in Nat /\ n <= Len(body)
          BY <1>1, <1>3, <1>4, <2>3
        <4> QED
          BY <1>1, <2>4, <4>1
      <3>2. Ref = Fails("WrongSocketType")
        BY <2>4, <3>1, ReferenceNone DEF Ref
      <3> QED
        BY <2>2, <2>4, <3>2
    <2>5. CASE /\ pos < Len(body) /\ Turn(body, from, pos) = Fails("MalformedMetadata")
               /\ \A n \in 0 .. Len(body) : ~HasProperty(body, pos, n)
      <3>1. \A n \in start .. Len(body) : ~IsProperty(pos, n)
        <4>1. \A n \in start .. Len(body) : n \in 0 .. Len(body)
          BY <1>1
        <4> QED
          BY <2>5, <4>1, PropertyHere
      <3>2. \A k \in Whole(start) : k <= pos
        <4>1. Len(body) + 1 \in Nat
          BY <1>1
        <4>2. \A k \in Whole(start) : k <= pos \/ k >= Len(body) + 1
          BY <1>1, <3>1, <4>1, NoneBetween
        <4> QED
          BY <1>1, <1>3, <4>2
      <3>3. ASSUME NEW m \in Whole(start), NEW n \in start .. Len(body) PROVE ~IsSocketType(m, n)
        <4> SUFFICES ASSUME IsSocketType(m, n) PROVE FALSE
          OBVIOUS
        <4>1. IsProperty(m, n) /\ ~(m < pos) /\ m <= pos /\ m \in Nat
          BY <1>3, <1>4, <2>3, <3>2
        <4>2. m = pos
          BY <2>1, <4>1
        <4> QED
          BY <3>1, <4>1, <4>2
      <3>4. Len(body) \notin Whole(start)
        BY <1>1, <2>1, <2>5, <3>2
      <3>5. Ref = Fails("MalformedMetadata")
        BY <3>3, <3>4, ReferenceNone DEF Ref
      <3> QED
        BY <2>2, <2>5, <3>5
    <2>6. ASSUME NEW n \in pos + 1 .. Len(body), HasProperty(body, pos, n),
                 \A k \in 0 .. Len(body) : HasProperty(body, pos, k) => k = n,
                 Turn(body, from, pos) =
                    IF SubSeq(body, pos + 2, pos + 1 + body[pos + 1]) \in SocketType
                    THEN Value(SubSeq(body, pos + body[pos + 1] + W + 2, n))
                    ELSE from[n]
          PROVE  from[pos] = Ref
      <3>1. n \in start .. Len(body) /\ n \in 0 .. Len(body) /\ n \in Nat /\ pos < n
        BY <1>1, <2>1
      <3>2. IsProperty(pos, n) /\ \A k \in start .. Len(body) : IsProperty(pos, k) => k = n
        <4>1. \A k \in start .. Len(body) : k \in 0 .. Len(body)
          BY <1>1
        <4> QED
          BY <2>6, <4>1, PropertyHere
      <3>3. PICK name : name = SubSeq(body, pos + 2, pos + 1 + body[pos + 1])
        OBVIOUS
      <3>4. (IsSocketType(pos, n) <=> name \in SocketType) /\ (name \in SocketType => body[pos + 1] = 1)
        BY <2>1, <3>1, <3>2, <3>3, SocketTypeIs
      <3>5. CASE name \in SocketType
        <4>1. IsSocketType(pos, n) /\ body[pos + 1] = 1
          BY <3>4, <3>5
        <4>2. from[pos] = Value(SubSeq(body, pos + body[pos + 1] + W + 2, n))
          BY <2>2, <2>6, <3>3, <3>5
        <4>3. pos + 1 + W + 2 = pos + 2 + W + 1
          BY <1>1, <2>1
        <4>4. ASSUME NEW i \in Whole(start), NEW j \in start .. Len(body), IsSocketType(i, j)
              PROVE  pos <= i /\ (i = pos => j = n)
          <5>1. ~(i < pos) /\ IsProperty(i, j) /\ i \in Nat
            BY <1>3, <1>4, <2>3, <4>4
          <5> QED
            BY <2>1, <3>2, <5>1
        <4>5. Ref = Value(SubSeq(body, pos + 2 + W + 1, n))
          BY <1>1, <1>3, <3>1, <4>1, <4>4, ReferenceFirst DEF Ref
        <4> QED
          BY <4>1, <4>2, <4>3, <4>5, Zenon
      <3>6. CASE name \notin SocketType
        <4>1. from[pos] = from[n]
          BY <2>2, <2>6, <3>3, <3>6
        <4>2. n \in Whole(start)
          BY <1>3, <3>1, <3>2
        <4>3. \A k \in Whole(start) : k <= pos \/ k >= n
          BY <1>1, <3>1, <3>2, NoneBetween
        <4>4. ASSUME NEW m \in Whole(start), m < n, NEW j \in start .. Len(body), IsProperty(m, j)
              PROVE  j <= n /\ ~IsSocketType(m, j)
          <5>1. m \in Nat /\ m <= pos /\ j \in Nat
            BY <1>1, <1>3, <3>1, <4>3, <4>4
          <5>2. CASE m = pos
            <6>1. j = n
              BY <3>2, <4>4, <5>2
            <6> QED
              BY <3>1, <3>4, <3>6, <5>2, <6>1
          <5>3. CASE m < pos
            <6>1. j <= pos /\ ~IsSocketType(m, j)
              BY <4>4, <5>3 DEF Past
            <6> QED
              BY <2>1, <3>1, <5>1, <6>1
          <5> QED
            BY <2>1, <5>1, <5>2, <5>3
        <4>5. Past(start, n)
          BY <4>2, <4>4 DEF Past
        <4>6. Len(body) - n < d
          BY <1>1, <2>1, <3>1
        <4>7. from[n] = Ref
          BY <4>2, <4>5, <4>6
        <4> QED
          BY <4>1, <4>7
      <3> QED
        BY <3>5, <3>6
    <2> QED
      BY <2>1, <2>4, <2>5, <2>6, TurnCases
  <1>7. S = Nat
    <2> HIDE DEF S
    <2>1. S \subseteq Nat
      BY DEF S
    <2> QED
      BY <1>5, <1>6, <2>1, EveryNat
  <1>8. start \in Whole(start)
    <2>1. start \in start .. Len(body)
      BY <1>1
    <2> QED
      BY <1>3, <2>1
  <1>9. Past(start, start)
    <2>1. \A m \in Whole(start) : ~(m < start)
      BY <1>1, <1>3
    <2> QED
      BY <1>8, <2>1 DEF Past
  <1>10. Len(body) - start < Len(body) + 1 /\ Len(body) + 1 \in Nat
    BY <1>1
  <1>11. from[start] = Ref
    BY <1>7, <1>8, <1>9, <1>10
  <1> QED
    BY <1>2, <1>11 DEF Ref

\* A command in a frame is read as its body is, whatever comes behind it.
LEMMA FrameRead ==
    ASSUME NEW b \in Seq(Nat), b # <<>>, NEW rest \in Seq(Nat), NEW types
    PROVE  ParseReady(CommandFrame(b) \o rest, types) = ParseReadyFrom(TRUE, b, types)
  <1>1. PICK len \in Nat : len = Len(b) /\ len > 0
    OBVIOUS
  <1>2. PICK head \in Seq(Nat) : head = <<COMMAND, Len(b)>> /\ Len(head) = 2
                                 /\ head[1] = 4 /\ head[2] = len
    <2>1. /\ <<COMMAND, len>> \in Seq(Nat) /\ Len(<<COMMAND, len>>) = 2
          /\ <<COMMAND, len>>[1] = 4 /\ <<COMMAND, len>>[2] = len
      BY DEF COMMAND
    <2> QED
      BY <1>1, <2>1, Zenon
  <1>3. PICK frame \in Seq(Nat) : frame = head \o b /\ Len(frame) = 2 + len
                                  /\ frame[1] = 4 /\ frame[2] = len
    <2>1. /\ head \o b \in Seq(Nat) /\ Len(head \o b) = 2 + len
          /\ (head \o b)[1] = 4 /\ (head \o b)[2] = len
      BY <1>1, <1>2
    <2> QED
      BY <2>1, Zenon
  <1>4. PICK buf \in Seq(Nat) : buf = frame \o rest /\ Len(buf) = 2 + len + Len(rest)
                                /\ buf[1] = 4 /\ buf[2] = len
    <2>1. /\ frame \o rest \in Seq(Nat) /\ Len(frame \o rest) = 2 + len + Len(rest)
          /\ (frame \o rest)[1] = 4 /\ (frame \o rest)[2] = len
      <3>1. frame \o rest \in Seq(Nat) /\ Len(frame \o rest) = Len(frame) + Len(rest)
        OBVIOUS
      <3>2. \A i \in 1 .. Len(frame) : (frame \o rest)[i] = frame[i]
        OBVIOUS
      <3>3. 1 \in 1 .. Len(frame) /\ 2 \in 1 .. Len(frame)
        BY <1>1, <1>3
      <3> QED
        BY <1>1, <1>3, <3>1, <3>2, <3>3
    <2> QED
      BY <2>1, Zenon
  <1>5. SubSeq(buf, 3, 2 + len) = b
    <2>1. At(frame, 0, frame) /\ At(buf, 0, frame \o rest)
      BY <1>3, <1>4 DEF At
    <2>2. At(buf, 0, head \o b)
      BY <1>3, <2>1, AtBoth
    <2>3. At(buf, 0 + Len(head), b)
      BY <2>2, AtBoth
    <2>4. 0 + Len(head) = 2 /\ 2 \in Nat
      BY <1>2
    <2>5. At(buf, 2, b)
      BY <2>3, <2>4
    <2>6. SubSeq(buf, 2 + 1, 2 + Len(b)) = b
      BY <2>4, <2>5, SliceIs
    <2> QED
      BY <1>1, <2>6
  <1>6. ~(Len(buf) < 3 \/ Len(buf) < 2 + buf[2])
    <2>1. PICK k \in Nat, z \in Nat : k = Len(rest) /\ z = Len(buf) /\ z = 2 + len + k
      BY <1>4
    <2>2. ~(z < 3) /\ ~(z < 2 + len)
      BY <1>1, <2>1
    <2> QED
      BY <1>4, <2>1, <2>2, Zenon
  <1>7. ((buf[1] \div COMMAND) % 2 = 1) = TRUE
    BY <1>4 DEF COMMAND
  <1>8. ParseReady(buf, types) =
          ParseReadyFrom((buf[1] \div COMMAND) % 2 = 1, SubSeq(buf, 3, 2 + buf[2]), types)
    BY <1>6, Zenon DEF ParseReady
  <1>9. ParseReady(buf, types) = ParseReadyFrom(TRUE, b, types)
    BY <1>4, <1>5, <1>7, <1>8, Zenon
  <1>10. CommandFrame(b) \o rest = buf
    BY <1>2, <1>3, <1>4 DEF CommandFrame
  <1> QED
    BY <1>9, <1>10, Zenon

\* The bodies are smaller than the numbers that a size can be: four octets in the
\* code, and a usize of eight.
BodiesFit == \A b \in Beginnings : Len(b) + MaxMore < Power[W] /\ Len(b) + MaxMore + Power[W] <= USIZE

\* The command parser computes the reference.
LEMMA ParseReadyIs ==
    ASSUME BodiesFit, BodyInv
    PROVE  ParseReadyCommand(TRUE, body) =
               ReferenceCommand(READY, "MalformedMetadata", ReferenceMetadata(1 + Len(READY)))
  <1>1. body \in Seq(Octet) /\ body \in Seq(Nat) /\ Len(body) \in Nat
    BY OctetFacts DEF BodyInv
  <1>2. Fits(body)
    <2>1. PICK b \in Beginnings : Len(body) = Len(b) + more /\ more \in 0 .. MaxMore
      BY DEF BodyInv
    <2>2. MaxMore \in Nat /\ Len(b) \in Nat
      BY BodiesAssumption
    <2>3. USIZE \in Nat /\ Power[W] \in Nat
      BY CommandsAssumption, PowerFacts
    <2>4. Len(b) + MaxMore < Power[W] /\ Len(b) + MaxMore + Power[W] <= USIZE
      BY <2>1 DEF BodiesFit
    <2> QED
      BY <1>1, <2>1, <2>2, <2>3, <2>4 DEF Fits
  <1>3. PICK r : r = ReferenceCommand(READY, "MalformedMetadata", ReferenceMetadata(1 + Len(READY)))
    OBVIOUS
  <1>4. PICK res : res = CheckName(TRUE, body, READY, "MalformedMetadata")
    OBVIOUS
  <1>5. ParseReadyCommand(TRUE, body) = IF res # "Ok" THEN Fails(res) ELSE FindSocketType(body, 1 + body[1])
    BY <1>4, Zenon DEF ParseReadyCommand
  <1>6. READY # ERROR /\ READY \in Seq(Nat) /\ Len(READY) = 1
    BY DEF READY, ERROR
  <1>7. ParseReadyCommand(TRUE, body) = r
    <2>1. CASE Names = {}
      <3>1. res = "MalformedMetadata"
        BY <1>1, <1>4, <2>1, NameRead
      <3>2. r = Fails("MalformedMetadata")
        BY <1>3, <2>1, Zenon DEF ReferenceCommand
      <3> QED
        BY <1>5, <3>1, <3>2
    <2>2. CASE Names # {}
      <3>1. PICK n \in Seq(Nat) :
              /\ Names = {n} /\ At(body, 0, Named(n))
              /\ res = IF n = ERROR THEN "PeerError"
                       ELSE IF n # READY THEN "UnknownCommand" ELSE "Ok"
        <4>1. \/ Names = {} /\ CheckName(TRUE, body, READY, "MalformedMetadata") = "MalformedMetadata"
              \/ \E n \in Seq(Nat) :
                   /\ Names = {n} /\ At(body, 0, Named(n))
                   /\ CheckName(TRUE, body, READY, "MalformedMetadata") =
                          IF n = ERROR THEN "PeerError"
                          ELSE IF n # READY THEN "UnknownCommand" ELSE "Ok"
          BY <1>1, NameRead
        <4> QED
          BY <1>4, <2>2, <4>1, Zenon
      <3>2. (Names = {ERROR} <=> n = ERROR) /\ (Names # {READY} <=> n # READY)
        BY <3>1
      <3>3. r = IF n = ERROR THEN Fails("PeerError")
                ELSE IF n # READY THEN Fails("UnknownCommand")
                ELSE ReferenceMetadata(1 + Len(READY))
        BY <1>3, <2>2, <3>2, Zenon DEF ReferenceCommand
      <3>4. CASE n # READY
        BY <1>5, <3>1, <3>3, <3>4
      <3>5. CASE n = READY
        <4>1. res = "Ok" /\ r = ReferenceMetadata(1 + Len(READY))
          BY <1>6, <3>1, <3>3, <3>5
        <4>2. body[0 + 1] = Len(READY) /\ At(body, 0 + 1, READY)
          BY <1>1, <1>6, <3>1, <3>5, AtNamed
        <4>3. 1 + body[1] = 1 + Len(READY) /\ 0 + 1 = 1
          BY <4>2
        <4>4. 1 + Len(READY) \in 0 .. Len(body)
          BY <1>1, <1>6, <4>2 DEF At
        <4>5. FindSocketType(body, 1 + Len(READY)) = ReferenceMetadata(1 + Len(READY))
          BY <1>1, <1>2, <4>4, LoopAgrees
        <4> QED
          BY <1>5, <4>1, <4>3, <4>5
      <3> QED
        BY <3>4, <3>5
    <2> QED
      BY <2>1, <2>2
  <1> QED
    BY <1>3, <1>7, Zenon

\* ReadyAgrees for every set of octets and every body that a usize can measure:
\* whatever the peer sends, the loop of parse_ready_command finds the first
\* Socket-Type among the whole properties or the first fault of the body.
THEOREM ReadyAgreesCorrect ==
    ASSUME BodiesFit
    PROVE  Spec => []ReadyAgrees
  <1>1. BodyInv => ReadyAgrees
    <2> SUFFICES ASSUME BodyInv PROVE ReadyAgrees
      OBVIOUS
    <2>1. body \in Seq(Nat)
      BY OctetFacts DEF BodyInv
    <2>2. PICK r : r = ReferenceCommand(READY, "MalformedMetadata", ReferenceMetadata(1 + Len(READY)))
      OBVIOUS
    <2>3. ParseReadyCommand(TRUE, body) = r
      BY <2>2, ParseReadyIs
    <2>4. ASSUME NEW types
          PROVE  ParseReadyFrom(TRUE, body, types) =
                    IF r.res = "Ok" /\ r.val \notin types THEN Fails("WrongSocketType") ELSE r
      BY <2>3, Zenon DEF ParseReadyFrom
    <2>5. ASSUME NEW types, body # <<>>
          PROVE  ParseReady(CommandFrame(body) \o body, types) = ParseReadyFrom(TRUE, body, types)
      BY <2>1, <2>5, FrameRead
    <2> QED
      BY <2>2, <2>4, <2>5, Zenon DEF ReadyAgrees
  <1> QED
    BY <1>1, BodyInvariance, PTL

\* NeverPanics where a usize is wider than a value size: the bodies that make
\* parse_ready_command panic need a usize in which the end of a value wraps.
THEOREM NeverPanicsWide ==
    ASSUME BodiesFit
    PROVE  Spec => []NeverPanics
  <1>1. BodyInv => NeverPanics
    <2> SUFFICES ASSUME BodyInv PROVE NeverPanics
      OBVIOUS
    <2>1. PICK m : m = ReferenceMetadata(1 + Len(READY))
      OBVIOUS
    <2>2. m.res # "panic"
      <3>1. \/ \E v : m = Value(v)
            \/ m = Fails("WrongSocketType") \/ m = Fails("MalformedMetadata")
        BY <2>1, Zenon DEF ReferenceMetadata
      <3> QED
        BY <3>1 DEF Value, Fails
    <2>3. PICK r : r = ReferenceCommand(READY, "MalformedMetadata", m)
      OBVIOUS
    <2>4. \/ r = m \/ r = Fails("MalformedMetadata") \/ r = Fails("PeerError")
          \/ r = Fails("UnknownCommand")
      BY <2>3, Zenon DEF ReferenceCommand
    <2>5. r.res # "panic"
      BY <2>2, <2>4 DEF Fails
    <2>6. ParseReadyCommand(TRUE, body) = r
      BY <2>1, <2>3, ParseReadyIs, Zenon
    <2> QED
      BY <2>5, <2>6, Zenon DEF NeverPanics
  <1> QED
    BY <1>1, BodyInvariance, PTL

-----------------------------------------------------------------------------
(* What is encoded *)

\* The result for a body whose name is n.
NameResult(n, expected) ==
    IF n = ERROR THEN "PeerError" ELSE IF n # expected THEN "UnknownCommand" ELSE "Ok"

\* The name at the beginning decides.
LEMMA CheckNameAt ==
    ASSUME NEW b \in Seq(Nat), NEW n \in Seq(Nat), At(b, 0, Named(n)), NEW expected, NEW malformed
    PROVE  CheckName(TRUE, b, expected, malformed) = NameResult(n, expected)
  <1>1. 0 < Len(b) /\ b[0 + 1] = Len(n) /\ At(b, 0 + 1, n) /\ 0 + 1 = 1 /\ 1 \in Nat
    BY AtNamed
  <1>2. b[1] = Len(n) /\ At(b, 1, n)
    BY <1>1
  <1>3. Len(n) \in Nat /\ 1 + Len(n) <= Len(b) /\ SubSeq(b, 1 + 1, 1 + Len(n)) = n
    BY <1>1, <1>2, SliceIs
  <1>4. 1 + 1 = 2 /\ ~(b = <<>> \/ Len(b) < 1 + Len(n))
    BY <1>1, <1>3
  <1>5. SubSeq(b, 2, 1 + b[1]) = n /\ ~(b = <<>> \/ Len(b) < 1 + b[1])
    BY <1>2, <1>3, <1>4, Zenon
  <1> QED
    BY <1>5, Zenon DEF CheckName, NameResult

\* The frame of a command, and its body.
LEMMA FrameFacts ==
    ASSUME NEW b \in Seq(Nat)
    PROVE  /\ CommandFrame(b) \in Seq(Nat) /\ Len(CommandFrame(b)) = 2 + Len(b)
           /\ CommandFrame(b)[2] = Len(b) /\ CommandFrame(b) \o <<>> = CommandFrame(b)
           /\ SubSeq(CommandFrame(b), 3, Len(CommandFrame(b))) = b
  <1>1. PICK head \in Seq(Nat) : head = <<COMMAND, Len(b)>> /\ Len(head) = 2 /\ head[2] = Len(b)
    <2>1. /\ <<COMMAND, Len(b)>> \in Seq(Nat) /\ Len(<<COMMAND, Len(b)>>) = 2
          /\ <<COMMAND, Len(b)>>[2] = Len(b)
      BY DEF COMMAND
    <2> QED
      BY <2>1, Zenon
  <1>2. PICK frame \in Seq(Nat) : frame = head \o b /\ Len(frame) = 2 + Len(b) /\ frame[2] = Len(b)
    <2>1. head \o b \in Seq(Nat) /\ Len(head \o b) = 2 + Len(b)
      BY <1>1
    <2>2. (head \o b)[2] = Len(b)
      BY <1>1
    <2> QED
      BY <2>1, <2>2, Zenon
  <1>3. At(frame, 0, head \o b)
    BY <1>2 DEF At
  <1>4. At(frame, 0 + Len(head), b)
    BY <1>3, AtBoth
  <1>5. 0 + Len(head) = 2 /\ 2 \in Nat /\ 2 + 1 = 3
    BY <1>1
  <1>6. At(frame, 2, b)
    BY <1>4, <1>5
  <1>7. SubSeq(frame, 2 + 1, 2 + Len(b)) = b
    BY <1>5, <1>6, SliceIs
  <1>8. frame \o <<>> = frame
    BY ConcatEmptySeq
  <1>9. CommandFrame(b) = frame
    BY <1>1, <1>2, Zenon DEF CommandFrame
  <1> QED
    BY <1>2, <1>5, <1>7, <1>8, <1>9, Zenon

\* The two ways to put three sequences together give the same.
Associates(x, y, z) == (x \o y) \o z = x \o (y \o z)

\* Concatenation is associative.
LEMMA OctetsAssociative ==
    ASSUME NEW x \in Seq(Nat), NEW y \in Seq(Nat), NEW z \in Seq(Nat)
    PROVE  Associates(x, y, z)
  <1>1. PICK xy \in Seq(Nat), yz \in Seq(Nat) :
            xy = x \o y /\ yz = y \o z /\ Len(xy) = Len(x) + Len(y) /\ Len(yz) = Len(y) + Len(z)
    <2>1. x \o y \in Seq(Nat) /\ Len(x \o y) = Len(x) + Len(y)
      OBVIOUS
    <2>2. y \o z \in Seq(Nat) /\ Len(y \o z) = Len(y) + Len(z)
      OBVIOUS
    <2> QED
      BY <2>1, <2>2, Zenon
  <1>2. PICK s \in Seq(Nat), t \in Seq(Nat) :
            s = xy \o z /\ t = x \o yz /\ Len(s) = Len(xy) + Len(z) /\ Len(t) = Len(x) + Len(yz)
    <2>1. xy \o z \in Seq(Nat) /\ Len(xy \o z) = Len(xy) + Len(z)
      OBVIOUS
    <2>2. x \o yz \in Seq(Nat) /\ Len(x \o yz) = Len(x) + Len(yz)
      OBVIOUS
    <2> QED
      BY <2>1, <2>2, Zenon
  <1>3. Len(s) = Len(t)
    <2>1. Len(x) \in Nat /\ Len(y) \in Nat /\ Len(z) \in Nat
      OBVIOUS
    <2> QED
      BY <1>1, <1>2, <2>1
  <1>4. At(t, 0, t) /\ 0 \in Nat
    BY DEF At
  <1>5. PICK k \in Nat : k = Len(x) /\ 0 + k = k
    OBVIOUS
  <1>6. At(t, 0, x) /\ At(t, k, yz)
    <2>1. At(t, 0, x \o yz)
      BY <1>2, <1>4, Zenon
    <2>2. At(t, 0, x) /\ At(t, 0 + Len(x), yz)
      BY <1>4, <2>1, AtBoth, Zenon
    <2> QED
      BY <1>5, <2>2, Zenon
  <1>7. At(t, k, y) /\ At(t, k + Len(y), z)
    <2>1. At(t, k, y \o z)
      BY <1>1, <1>6, Zenon
    <2> QED
      BY <2>1, AtBoth, Zenon
  <1>8. At(t, 0, xy)
    <2>1. At(t, 0 + Len(x), y)
      BY <1>5, <1>7, Zenon
    <2>2. At(t, 0, x \o y)
      BY <1>4, <1>6, <2>1, AtBoth, Zenon
    <2> QED
      BY <1>1, <2>2, Zenon
  <1>9. 0 + Len(xy) = k + Len(y)
    BY <1>1, <1>5
  <1>10. At(t, 0, s)
    <2>1. At(t, 0 + Len(xy), z)
      BY <1>7, <1>9, Zenon
    <2>2. At(t, 0, xy \o z)
      BY <1>4, <1>8, <2>1, AtBoth, Zenon
    <2> QED
      BY <1>2, <2>2, Zenon
  <1>11. s = t
    BY <1>3, <1>4, <1>10, AtSame, Zenon
  <1> QED
    BY <1>1, <1>2, <1>11, Zenon DEF Associates

\* An ERROR with a reason that its size allows.
LEMMA ErrorEncoded ==
    ASSUME NEW reason \in Seq(Nat), Len(reason) <= RADIX - 4, NEW buf \in Nat
    PROVE  \E b \in Seq(Nat) :
              /\ Len(b) = 3 + Len(reason) /\ At(b, 0, Named(ERROR))
              /\ EncodeError(buf, reason) = Encoded(CommandFrame(b), buf)
  <1>1. RADIX \in Nat /\ RADIX > 15
    BY CommandsAssumption
  <1>2. PICK n \in Nat : n = Len(reason) /\ n <= RADIX - 4
    OBVIOUS
  <1>3. PICK size \in Nat : size = 3 + n /\ size = 1 + Len(ERROR) + 1 + Len(reason) /\ size <= RADIX - 1
    <2>1. Len(ERROR) = 1
      BY DEF ERROR
    <2>2. 3 + n \in Nat /\ 3 + n = 1 + 1 + 1 + n /\ 3 + n <= RADIX - 1
      BY <1>1, <1>2
    <2> QED
      BY <1>2, <2>1, <2>2
  <1>4. size % RADIX = size /\ n % RADIX = n
    <2>1. \A x \in Nat : x <= RADIX - 1 => x % RADIX = x
      BY <1>1
    <2>2. n <= RADIX - 1
      BY <1>1, <1>2
    <2> QED
      BY <1>3, <2>1, <2>2
  <1>5. PICK h \in Seq(Nat), e \in Seq(Nat), c \in Seq(Nat) :
            /\ h = <<COMMAND, size>> /\ e = Named(ERROR) /\ c = <<n>>
            /\ Len(h) = 2 /\ Len(e) = 2 /\ Len(c) = 1
    <2>1. <<COMMAND, size>> \in Seq(Nat) /\ Len(<<COMMAND, size>>) = 2
      BY DEF COMMAND
    <2>2. Named(ERROR) \in Seq(Nat) /\ Len(Named(ERROR)) = 2
      BY DEF Named, ERROR
    <2>3. <<n>> \in Seq(Nat) /\ Len(<<n>>) = 1
      OBVIOUS
    <2> QED
      BY <2>1, <2>2, <2>3, Zenon
  <1>6. EncodeError(buf, reason) = Encoded(((h \o e) \o c) \o reason, buf)
    <2>1. ~ReasonTooLong(size)
      BY <1>1, <1>3 DEF ReasonTooLong
    <2> QED
      BY <1>2, <1>3, <1>4, <1>5, <2>1, Zenon DEF EncodeError
  <1>7. PICK b \in Seq(Nat) : b = (e \o c) \o reason /\ Len(b) = size /\ At(b, 0, e)
    <2>1. PICK ec \in Seq(Nat) : ec = e \o c /\ Len(ec) = 3
      <3>1. e \o c \in Seq(Nat) /\ Len(e \o c) = Len(e) + Len(c)
        OBVIOUS
      <3>2. Len(e \o c) = 3
        BY <1>5, <3>1
      <3> QED
        BY <3>1, <3>2, Zenon
    <2>2. PICK b \in Seq(Nat) : b = ec \o reason /\ Len(b) = size
      <3>1. ec \o reason \in Seq(Nat) /\ Len(ec \o reason) = size
        BY <1>2, <1>3, <2>1
      <3> QED
        BY <3>1, Zenon
    <2>3. At(b, 0, ec \o reason)
      BY <2>2 DEF At
    <2>4. At(b, 0, ec)
      BY <2>3, AtBoth
    <2>5. At(b, 0, e)
      BY <2>1, <2>4, AtBoth
    <2> QED
      BY <2>1, <2>2, <2>5, Zenon
  <1>8. ((h \o e) \o c) \o reason = h \o b
    <2>1. PICK ec \in Seq(Nat) : ec = e \o c
      <3>1. e \o c \in Seq(Nat)
        OBVIOUS
      <3> QED
        BY <3>1, Zenon
    <2>2. Associates(h, e, c) /\ Associates(h, ec, reason)
      BY OctetsAssociative, Zenon
    <2>3. (h \o e) \o c = h \o ec
      BY <2>1, <2>2, Zenon DEF Associates
    <2>4. (h \o ec) \o reason = h \o (ec \o reason)
      BY <2>2, Zenon DEF Associates
    <2> QED
      BY <1>7, <2>1, <2>3, <2>4, Zenon
  <1>9. h \o b = CommandFrame(b)
    BY <1>5, <1>7, Zenon DEF CommandFrame
  <1>10. Len(b) = 3 + Len(reason)
    BY <1>2, <1>3, <1>7
  <1> QED
    BY <1>5, <1>6, <1>7, <1>8, <1>9, <1>10, Zenon

\* A function on the first n numbers is a sequence.
LEMMA FunctionSeq ==
    ASSUME NEW n \in Nat, NEW S, NEW f \in [1 .. n -> S]
    PROVE  f \in Seq(S) /\ Len(f) = n
  <1>1. f \in Seq(S)
    BY SeqDef
  <1> QED
    BY <1>1, LenProperties

\* The size of our READY fits the one octet of a short frame: the code has 256
\* values of an octet and four octets of a value's size.
ReadyFits == W + 7 <= RADIX

\* Our READY is read back.
LEMMA ReadyRead ==
    ASSUME ReadyFits, NEW name \in SocketType, NEW t \in Nat, NEW types
    PROVE  \E b \in Seq(Nat) :
              /\ b = Named(READY) \o Prop(name, <<t>>)
              /\ Len(b) = W + 5 /\ b # <<>>
              /\ (t \in Octet => ParseReadyFrom(TRUE, b, types) =
                    IF <<t>> \in types THEN Value(<<t>>) ELSE Fails("WrongSocketType"))
  <1>1. W \in Nat /\ W > 0 /\ RADIX \in Nat /\ RADIX > 15 /\ USIZE \in Nat
    BY CommandsAssumption
  <1>2. Power[W] \in Nat /\ Power[W] >= RADIX /\ USIZE >= Power[W]
    <2>1. W \in 0 .. W /\ W - 1 \in 0 .. W /\ W # 0
      BY <1>1
    <2>2. PICK p \in Nat : p = Power[W - 1] /\ p > 0 /\ Power[W] = p * RADIX
      BY <2>1, PowerFacts, PowerPositive
    <2>3. 0 * RADIX + RADIX <= p * RADIX /\ p * RADIX \in Nat /\ 0 * RADIX = 0
      BY <1>1, <2>2, TimesMonotonic
    <2> QED
      BY <1>1, <2>2, <2>3, CommandsAssumption
  <1>3. PICK x \in Nat : name = <<x>> /\ x \in Octet /\ (x = 1 \/ x = 2)
    <2>1. name = <<1>> \/ name = <<2>>
      BY DEF SocketType
    <2>2. 1 \in Octet /\ 2 \in Octet
      BY <1>1 DEF Octet
    <2> QED
      BY <2>1, <2>2
  <1>4. PICK d : d = ToBE(1)
    OBVIOUS
  <1>5. d \in Seq(Octet) /\ d \in Seq(Nat) /\ Len(d) = W /\ FromBE(d) = 1
    <2>1. d \in [1 .. W -> Octet] /\ FromBE(d) = 1
      BY <1>1, <1>2, <1>4, FromBEToBE
    <2>2. d \in Seq(Octet)
      BY <1>1, <2>1, FunctionSeq
    <2>3. Len(d) = W
      BY <1>1, <2>1, FunctionSeq
    <2> QED
      BY <2>1, <2>2, <2>3, OctetFacts
  <1>6. PICK r \in Seq(Nat), n \in Seq(Nat), v \in Seq(Nat) :
            /\ r = Named(READY) /\ n = Named(name) /\ v = <<t>>
            /\ Len(r) = 2 /\ Len(n) = 2 /\ Len(v) = 1
    <2>1. Named(READY) \in Seq(Nat) /\ Len(Named(READY)) = 2
      BY DEF Named, READY
    <2>2. Named(name) \in Seq(Nat) /\ Len(Named(name)) = 2
      BY <1>3 DEF Named
    <2>3. <<t>> \in Seq(Nat) /\ Len(<<t>>) = 1
      OBVIOUS
    <2> QED
      BY <2>1, <2>2, <2>3, Zenon
  <1>7. PICK nd \in Seq(Nat) : nd = n \o d /\ Len(nd) = 2 + W
    <2>1. PICK e \in Seq(Nat) : e = d /\ Len(e) = W
      BY <1>5
    <2>2. n \o e \in Seq(Nat) /\ Len(n \o e) = Len(n) + Len(e)
      OBVIOUS
    <2> QED
      BY <1>6, <2>1, <2>2, Zenon
  <1>8. PICK p \in Seq(Nat) : p = nd \o v /\ Len(p) = 3 + W
    <2>1. nd \o v \in Seq(Nat) /\ Len(nd \o v) = Len(nd) + Len(v)
      OBVIOUS
    <2>2. Len(nd \o v) = 3 + W
      BY <1>1, <1>6, <1>7, <2>1
    <2> QED
      BY <2>1, <2>2, Zenon
  <1>9. PICK b \in Seq(Nat) : b = r \o p /\ Len(b) = W + 5
    <2>1. r \o p \in Seq(Nat) /\ Len(r \o p) = Len(r) + Len(p)
      OBVIOUS
    <2>2. Len(r \o p) = W + 5
      BY <1>1, <1>6, <1>8, <2>1
    <2> QED
      BY <2>1, <2>2, Zenon
  <1>10. b = Named(READY) \o Prop(name, <<t>>)
    <2>1. Len(<<t>>) = 1
      OBVIOUS
    <2> QED
      BY <1>4, <1>6, <1>7, <1>8, <1>9, <2>1, Zenon DEF Prop
  <1>11. b # <<>>
    BY <1>1, <1>9
  <1>12. At(b, 0, r) /\ At(b, 2, n) /\ At(b, 4, d) /\ At(b, 4 + W, v)
    <2>1. At(b, 0, r \o p)
      BY <1>9 DEF At
    <2>2. At(b, 0, r) /\ At(b, 2, p) /\ 2 \in Nat
      <3>1. At(b, 0, r) /\ At(b, 0 + Len(r), p)
        BY <2>1, AtBoth
      <3>2. 0 + Len(r) = 2
        BY <1>6
      <3> QED
        BY <3>1, <3>2
    <2>3. At(b, 2, nd \o v)
      BY <1>8, <2>2
    <2>4. At(b, 2, nd) /\ At(b, 4 + W, v)
      <3>1. At(b, 2, nd) /\ At(b, 2 + Len(nd), v)
        BY <2>3, AtBoth
      <3>2. 2 + Len(nd) = 4 + W
        BY <1>1, <1>7
      <3> QED
        BY <3>1, <3>2
    <2>5. At(b, 2, n) /\ At(b, 4, d)
      <3>1. At(b, 2, n \o d) /\ d \in Seq(Nat)
        BY <1>5, <1>7, <2>4
      <3>2. At(b, 2, n) /\ At(b, 2 + Len(n), d)
        BY <3>1, AtBoth
      <3>3. 2 + Len(n) = 4
        BY <1>6
      <3> QED
        BY <3>2, <3>3
    <2> QED
      BY <2>2, <2>4, <2>5
  <1>13. READY \in Seq(Nat) /\ READY # ERROR /\ Len(READY) = 1
    BY DEF READY, ERROR
  <1>14. CheckName(TRUE, b, READY, "MalformedMetadata") = "Ok"
    <2>1. At(b, 0, Named(READY))
      BY <1>6, <1>12
    <2>2. CheckName(TRUE, b, READY, "MalformedMetadata") = NameResult(READY, READY)
      BY <1>13, <2>1, CheckNameAt, Zenon
    <2> QED
      BY <1>13, <2>2 DEF NameResult
  <1>15. 1 + b[1] = 2
    <2>1. b[0 + 1] = Len(READY)
      BY <1>6, <1>12, <1>13, AtNamed
    <2> QED
      BY <1>13, <2>1
  <1>16. ASSUME t \in Octet PROVE b \in Seq(Octet)
    <2>1. \A i \in 1 .. 2 : b[0 + i] = r[i] /\ b[2 + i] = n[i]
      BY <1>6, <1>12 DEF At
    <2>2. \A i \in 1 .. W : b[4 + i] = d[i] /\ d[i] \in Octet
      BY <1>5, <1>12 DEF At
    <2>3. b[(4 + W) + 1] = t
      BY <1>6, <1>12 DEF At
    <2>4. r[1] = 1 /\ r[2] = 1 /\ n[1] = 1 /\ n[2] = x
      BY <1>3, <1>6 DEF Named, READY
    <2>5. 1 \in Octet
      BY <1>1 DEF Octet
    <2>6. b[1] \in Octet /\ b[2] \in Octet /\ b[3] \in Octet /\ b[4] \in Octet
      <3>1. /\ 1 \in 1 .. 2 /\ 2 \in 1 .. 2 /\ 0 + 1 = 1 /\ 0 + 2 = 2 /\ 2 + 1 = 3 /\ 2 + 2 = 4
        OBVIOUS
      <3>2. b[0 + 1] = r[1] /\ b[0 + 2] = r[2] /\ b[2 + 1] = n[1] /\ b[2 + 2] = n[2]
        BY <2>1, <3>1, Zenon
      <3>3. b[1] = 1 /\ b[2] = 1 /\ b[3] = 1 /\ b[4] = x
        BY <2>4, <3>1, <3>2
      <3> QED
        BY <1>3, <2>5, <3>3
    <2>7. ASSUME NEW i \in 1 .. Len(b) PROVE b[i] \in Octet
      <3>1. CASE i <= 4
        <4>1. i = 1 \/ i = 2 \/ i = 3 \/ i = 4
          BY <3>1
        <4> QED
          BY <2>6, <4>1
      <3>2. CASE i > 4 /\ i <= 4 + W
        <4>1. i - 4 \in 1 .. W /\ 4 + (i - 4) = i
          BY <1>1, <3>2
        <4> QED
          BY <2>2, <4>1
      <3>3. CASE i > 4 + W
        <4>1. i = (4 + W) + 1
          BY <1>1, <1>9, <3>3
        <4> QED
          BY <1>16, <2>3, <4>1
      <3> QED
        BY <1>1, <3>1, <3>2, <3>3
    <2>8. Len(b) \in Nat /\ b \in [1 .. Len(b) -> Nat]
      BY LenProperties
    <2>9. b \in [1 .. Len(b) -> Octet]
      BY <2>7, <2>8
    <2>10. PICK len \in Nat : len = Len(b)
      BY <2>8
    <2>11. b \in [1 .. len -> Octet]
      BY <2>9, <2>10
    <2> QED
      BY <2>11, FunctionSeq
  <1>17. ReadProperty(b, 2) = [res |-> "Ok", name |-> <<x>>, val |-> v, next |-> W + 5]
    <2>1. b[2 + 1] = 1 /\ At(b, 2 + 1, <<x>>) /\ 2 + 1 = 3 /\ <<x>> \in Seq(Nat) /\ Len(<<x>>) = 1
      <3>1. <<x>> \in Seq(Nat) /\ Len(<<x>>) = 1 /\ 2 \in Nat /\ 2 + 1 = 3
        OBVIOUS
      <3>2. At(b, 2, Named(<<x>>))
        BY <1>3, <1>6, <1>12
      <3>3. b[2 + 1] = Len(<<x>>) /\ At(b, 2 + 1, <<x>>)
        BY <3>1, <3>2, AtNamed
      <3> QED
        BY <3>1, <3>3
    <2>2. SubSeq(b, 3 + 1, 3 + 1) = <<x>>
      <3>1. 3 \in Nat /\ At(b, 3, <<x>>)
        BY <2>1
      <3>2. PICK q \in Seq(Nat) : q = <<x>> /\ Len(q) = 1 /\ At(b, 3, q)
        BY <2>1, <3>1, Zenon
      <3>3. PICK k \in Nat : k = 3 /\ At(b, k, q)
        BY <3>1, <3>2
      <3>4. SubSeq(b, k + 1, k + Len(q)) = q
        BY <3>3, SliceIs
      <3> QED
        BY <3>2, <3>3, <3>4
    <2>3. SubSeq(b, 4 + 1, 4 + W) = d
      <3>1. SubSeq(b, 4 + 1, 4 + Len(d)) = d
        <4>1. 4 \in Nat /\ d \in Seq(Nat) /\ At(b, 4, d)
          BY <1>5, <1>12
        <4> QED
          BY <4>1, SliceIs
      <3> QED
        BY <1>5, <3>1
    <2>4. SubSeq(b, (4 + W) + 1, (4 + W) + 1) = v
      <3>1. 4 + W \in Nat
        BY <1>1
      <3>2. PICK q \in Nat : q = 4 + W /\ At(b, q, v)
        BY <1>12, <3>1
      <3>3. SubSeq(b, q + 1, q + Len(v)) = v
        BY <3>2, SliceIs
      <3> QED
        BY <1>6, <3>2, <3>3
    <2>5. PICK end : end = EndOf(4 + W, FromBE(d))
      OBVIOUS
    <2>6. end = W + 5
      <3>1. (4 + W) + 1 \in Nat /\ (4 + W) + 1 < USIZE /\ (4 + W) + 1 = W + 5
        BY <1>1, <1>2 DEF ReadyFits
      <3>2. PICK e \in Nat : e = (4 + W) + 1 /\ e < USIZE
        BY <3>1
      <3>3. e % USIZE = e
        BY <1>1, <3>2, ModSmall
      <3> QED
        BY <1>5, <2>5, <3>1, <3>2, <3>3 DEF EndOf
    <2>7. /\ 2 + 1 = 3 /\ 3 + 1 = 4 /\ (4 + W) + 1 = W + 5
          /\ ~(4 > Len(b)) /\ ~(4 + W > Len(b)) /\ ~(W + 5 > Len(b)) /\ ~(W + 5 < 4 + W)
      BY <1>1, <1>9
    <2>8. PICK one, name_at, size_at, val_at :
             one = b[2 + 1] /\ name_at = 2 + 1 /\ size_at = name_at + one /\ val_at = size_at + W
      OBVIOUS
    <2>9. one = 1 /\ name_at = 3 /\ size_at = 4 /\ val_at = 4 + W
      BY <2>1, <2>7, <2>8
    <2>10. ReadProperty(b, 2) =
            LET e == EndOf(val_at, FromBE(SubSeq(b, size_at + 1, val_at)))
            IN  IF size_at > Len(b) \/ val_at > Len(b) \/ e > Len(b)
                THEN [res |-> "MalformedMetadata"]
                ELSE IF e < val_at THEN [res |-> "panic"]
                ELSE [res |-> "Ok", name |-> SubSeq(b, name_at + 1, size_at),
                      val |-> SubSeq(b, val_at + 1, e), next |-> e]
      BY <2>8, Zenon DEF ReadProperty
    <2>11. EndOf(val_at, FromBE(SubSeq(b, size_at + 1, val_at))) = W + 5
      BY <2>3, <2>5, <2>6, <2>9, Zenon
    <2>12. SubSeq(b, name_at + 1, size_at) = <<x>> /\ SubSeq(b, val_at + 1, W + 5) = v
      BY <2>2, <2>4, <2>7, <2>9, Zenon
    <2> QED
      BY <2>7, <2>9, <2>10, <2>11, <2>12, Zenon
  <1>18. ASSUME t \in Octet PROVE FindSocketType(b, 2) = Value(v)
    <2>1. PICK from : /\ \A start : FindSocketType(b, start) = from[start]
                      /\ \A pos \in 0 .. Len(b) : from[pos] = Turn(b, from, pos)
      BY <1>16, <1>18, LoopTurns
    <2>2. 2 \in 0 .. Len(b) /\ 2 # Len(b)
      BY <1>1, <1>9
    <2>3. PICK q : q = ReadProperty(b, 2)
      OBVIOUS
    <2>4. q.res = "Ok" /\ q.name = <<x>> /\ q.val = v
      BY <1>17, <2>3
    <2>5. <<x>> \in SocketType
      BY <1>3
    <2>6. Turn(b, from, 2) = Value(v)
      BY <2>2, <2>3, <2>4, <2>5, Zenon DEF Turn
    <2> QED
      BY <2>1, <2>2, <2>6
  <1>19. ASSUME t \in Octet
         PROVE  ParseReadyFrom(TRUE, b, types) =
                    IF <<t>> \in types THEN Value(<<t>>) ELSE Fails("WrongSocketType")
    <2>1. ParseReadyCommand(TRUE, b) = Value(v)
      BY <1>14, <1>15, <1>18, <1>19, Zenon DEF ParseReadyCommand
    <2>2. Value(v).res = "Ok" /\ Value(v).val = v
      BY DEF Value
    <2> QED
      BY <1>6, <2>1, <2>2, Zenon DEF ParseReadyFrom
  <1> QED
    BY <1>9, <1>10, <1>11, <1>19, Zenon

\* A reason that is filled up to n octets.
LEMMA ReasonFacts ==
    ASSUME NEW b \in Seq(Nat), NEW n \in Nat, n >= Len(b)
    PROVE  /\ b \o [i \in 1 .. n - Len(b) |-> 0] \in Seq(Nat)
           /\ Len(b \o [i \in 1 .. n - Len(b) |-> 0]) = n
  <1>1. PICK k \in Nat : k = n - Len(b) /\ n = Len(b) + k
    <2>1. n - Len(b) \in Nat /\ n = Len(b) + (n - Len(b))
      OBVIOUS
    <2> QED
      BY <2>1
  <1>2. PICK z : z = [i \in 1 .. k |-> 0]
    OBVIOUS
  <1>3. z \in [1 .. k -> Nat]
    BY <1>2
  <1>4. z \in Seq(Nat) /\ Len(z) = k
    BY <1>3, FunctionSeq
  <1>5. b \o z \in Seq(Nat) /\ Len(b \o z) = Len(b) + Len(z)
    BY <1>4
  <1>6. Len(b \o z) = n
    BY <1>1, <1>4, <1>5
  <1> QED
    BY <1>1, <1>2, <1>5, <1>6, Zenon

\* What EncodersAgree says of a reason of n octets.
LEMMA ErrorAgrees ==
    ASSUME NEW reason \in Seq(Nat)
    PROVE  IF Len(reason) > RADIX - 4
           THEN EncodeError(2 * RADIX, reason).res = "ReasonTooLong"
           ELSE \E b \in Seq(Nat) :
                  /\ EncodeError(2 * RADIX, reason) = Value(CommandFrame(b))
                  /\ ParseReady(CommandFrame(b), {SUB}).res = "PeerError"
                  /\ ParseHelloFrom(TRUE, b).res = "PeerError"
                  /\ EncodeError(Len(CommandFrame(b)) - 1, reason).res = "BufferTooSmall"
  <1>1. RADIX \in Nat /\ RADIX > 15 /\ 2 * RADIX \in Nat /\ Len(reason) \in Nat
    BY CommandsAssumption
  <1>2. CASE Len(reason) > RADIX - 4
    <2>1. Len(ERROR) = 1
      BY DEF ERROR
    <2>2. 1 + Len(ERROR) + 1 + Len(reason) > RADIX - 1
      BY <1>1, <1>2, <2>1
    <2>3. EncodeError(2 * RADIX, reason) = Fails("ReasonTooLong")
      BY <2>2, Zenon DEF EncodeError, ReasonTooLong
    <2>4. Fails("ReasonTooLong").res = "ReasonTooLong"
      BY DEF Fails
    <2> QED
      BY <1>2, <2>3, <2>4, Zenon
  <1>3. CASE ~(Len(reason) > RADIX - 4)
    <2>1. Len(reason) <= RADIX - 4
      BY <1>1, <1>3
    <2>2. PICK b \in Seq(Nat) :
              /\ Len(b) = 3 + Len(reason) /\ At(b, 0, Named(ERROR))
              /\ EncodeError(2 * RADIX, reason) = Encoded(CommandFrame(b), 2 * RADIX)
      BY <1>1, <2>1, ErrorEncoded
    <2>3. PICK frame \in Seq(Nat) : /\ frame = CommandFrame(b) /\ Len(frame) = 2 + Len(b)
                                    /\ frame \o <<>> = frame
      BY FrameFacts
    <2>4. PICK len \in Nat : len = Len(frame) /\ len = 5 + Len(reason)
      BY <1>1, <2>2, <2>3
    <2>5. ~(2 * RADIX < Len(frame))
      BY <1>1, <2>1, <2>4
    <2>6. EncodeError(2 * RADIX, reason) = Value(CommandFrame(b))
      BY <2>2, <2>3, <2>5, Zenon DEF Encoded
    <2>7. ERROR \in Seq(Nat)
      BY DEF ERROR
    <2>8. /\ CheckName(TRUE, b, READY, "MalformedMetadata") = "PeerError"
          /\ CheckName(TRUE, b, HELLO, "MalformedHello") = "PeerError"
      <3>1. /\ CheckName(TRUE, b, READY, "MalformedMetadata") = NameResult(ERROR, READY)
            /\ CheckName(TRUE, b, HELLO, "MalformedHello") = NameResult(ERROR, HELLO)
        BY <2>2, <2>7, CheckNameAt, Zenon
      <3> QED
        BY <3>1 DEF NameResult
    <2>9. "PeerError" # "Ok" /\ Fails("PeerError").res = "PeerError"
      BY DEF Fails
    <2>10. ParseReadyFrom(TRUE, b, {SUB}) = Fails("PeerError")
      <3>1. ParseReadyCommand(TRUE, b) = Fails("PeerError")
        BY <2>8, <2>9, Zenon DEF ParseReadyCommand
      <3> QED
        BY <2>9, <3>1, Zenon DEF ParseReadyFrom
    <2>11. ParseHelloFrom(TRUE, b) = Fails("PeerError")
      BY <2>8, <2>9, Zenon DEF ParseHelloFrom
    <2>12. ParseReady(CommandFrame(b), {SUB}) = Fails("PeerError")
      <3>1. <<>> \in Seq(Nat) /\ b # <<>>
        BY <1>1, <2>2
      <3>2. ParseReady(CommandFrame(b) \o <<>>, {SUB}) = ParseReadyFrom(TRUE, b, {SUB})
        BY <3>1, FrameRead
      <3> QED
        BY <2>3, <2>10, <3>2, Zenon
    <2>13. EncodeError(Len(CommandFrame(b)) - 1, reason).res = "BufferTooSmall"
      <3>1. PICK buf \in Nat : buf = Len(frame) - 1 /\ buf < len
        <4>1. len - 1 \in Nat /\ len - 1 < len
          BY <1>1, <2>4
        <4> QED
          BY <2>4, <4>1
      <3>2. PICK c \in Seq(Nat) :
              /\ Len(c) = 3 + Len(reason)
              /\ EncodeError(buf, reason) = Encoded(CommandFrame(c), buf)
        BY <2>1, <3>1, ErrorEncoded
      <3>3. Len(CommandFrame(c)) = 2 + Len(c)
        BY FrameFacts
      <3>4. buf < Len(CommandFrame(c))
        BY <1>1, <2>4, <3>1, <3>2, <3>3
      <3>5. EncodeError(buf, reason) = Fails("BufferTooSmall")
        BY <3>2, <3>4, Zenon DEF Encoded
      <3>6. Fails("BufferTooSmall").res = "BufferTooSmall"
        BY DEF Fails
      <3> QED
        BY <2>3, <3>1, <3>5, <3>6, Zenon
    <2> QED
      BY <1>3, <2>6, <2>9, <2>11, <2>12, <2>13, Zenon
  <1> QED
    BY <1>2, <1>3

\* A WELCOME is not a HELLO.
LEMMA WelcomeName == CheckName(TRUE, Named(WELCOME), HELLO, "MalformedHello") = "UnknownCommand"
  <1>1. WELCOME \in Seq(Nat) /\ WELCOME # ERROR /\ WELCOME # HELLO
    BY DEF WELCOME, ERROR, HELLO
  <1>2. PICK b \in Seq(Nat) : b = Named(WELCOME)
    <2>1. Named(WELCOME) \in Seq(Nat)
      BY <1>1 DEF Named
    <2> QED
      BY <2>1
  <1>3. At(b, 0, Named(WELCOME))
    BY <1>2 DEF At
  <1>4. CheckName(TRUE, b, HELLO, "MalformedHello") = NameResult(WELCOME, HELLO)
    BY <1>1, <1>3, CheckNameAt, Zenon
  <1> QED
    BY <1>1, <1>2, <1>4 DEF NameResult

\* EncodersAgree for every set of octets and every body: encode_error fits its size
\* or refuses the reason, the parsers take it for the peer's error, and the READY
\* and WELCOME that we send are read as what they are.
THEOREM EncodersAgreeCorrect ==
    ASSUME ReadyFits
    PROVE  Spec => []EncodersAgree
  <1>1. BodyInv => EncodersAgree
    <2> SUFFICES ASSUME BodyInv PROVE EncodersAgree
      OBVIOUS
    <2>1. RADIX \in Nat /\ RADIX > 15 /\ W \in Nat /\ W > 0 /\ W + 7 <= RADIX
      BY CommandsAssumption DEF ReadyFits
    <2>2. body \in Seq(Nat) /\ Len(body) \in Nat
      BY OctetFacts DEF BodyInv
    <2> DEFINE limit == RADIX - 1 - 2 - Len(ERROR)
               Reason(n) == body \o [i \in 1 .. n - Len(body) |-> 0]
               Body(frame) == SubSeq(frame, 3, Len(frame))
               ErrorsAgree(n) ==
                   LET r == EncodeError(2 * RADIX, Reason(n))
                   IN  IF n > limit THEN r.res = "ReasonTooLong"
                       ELSE /\ r.val[2] = Len(Body(r.val))
                            /\ ParseReady(r.val, {SUB}).res = "PeerError"
                            /\ ParseHelloFrom(TRUE, Body(r.val)).res = "PeerError"
                            /\ EncodeError(Len(r.val) - 1, Reason(n)).res = "BufferTooSmall"
    <2>3. limit \in Nat /\ limit = RADIX - 4
      <3>1. Len(ERROR) = 1
        BY DEF ERROR
      <3>2. RADIX - 4 \in Nat /\ RADIX - 1 - 2 - 1 = RADIX - 4
        BY <2>1
      <3> QED
        BY <3>1, <3>2
    <2> HIDE DEF limit
    <2>4. ASSUME NEW n \in {Len(body), limit, limit + 1}, n >= Len(body)
          PROVE  ErrorsAgree(n)
      <3> HIDE DEF ErrorsAgree, Reason
      <3>1. n \in Nat
        BY <2>2, <2>3
      <3>2. PICK reason \in Seq(Nat) : reason = Reason(n) /\ Len(reason) = n
        <4>1. Reason(n) \in Seq(Nat) /\ Len(Reason(n)) = n
          BY <2>2, <2>4, <3>1, ReasonFacts DEF Reason
        <4> QED
          BY <4>1, Zenon
      <3>3. PICK r : r = EncodeError(2 * RADIX, reason)
        OBVIOUS
      <3>4. CASE n > limit
        <4>1. r.res = "ReasonTooLong"
          BY <2>3, <3>2, <3>3, <3>4, ErrorAgrees
        <4> QED
          BY <3>2, <3>3, <3>4, <4>1, Zenon DEF ErrorsAgree
      <3>5. CASE ~(n > limit)
        <4>1. PICK b \in Seq(Nat) :
                  /\ r = Value(CommandFrame(b))
                  /\ ParseReady(CommandFrame(b), {SUB}).res = "PeerError"
                  /\ ParseHelloFrom(TRUE, b).res = "PeerError"
                  /\ EncodeError(Len(CommandFrame(b)) - 1, reason).res = "BufferTooSmall"
          BY <2>3, <3>2, <3>3, <3>5, ErrorAgrees
        <4>2. r.val = CommandFrame(b)
          BY <4>1 DEF Value
        <4>3. /\ CommandFrame(b)[2] = Len(b)
              /\ SubSeq(CommandFrame(b), 3, Len(CommandFrame(b))) = b
          BY FrameFacts
        <4> QED
          BY <3>2, <3>3, <3>5, <4>1, <4>2, <4>3, Zenon DEF ErrorsAgree
      <3> QED
        BY <3>4, <3>5
    <2>5. PICK name \in SocketType : name = CHOOSE n \in SocketType : TRUE
      BY DEF SocketType
    <2>6. ASSUME NEW t \in Nat, t \in Octet, NEW types
          PROVE  ParseReady(Encoded(CommandFrame(Named(READY) \o Prop(name, <<t>>)), RADIX).val, types)
                   = IF <<t>> \in types THEN Value(<<t>>) ELSE Fails("WrongSocketType")
      <3>1. PICK b \in Seq(Nat) :
              /\ b = Named(READY) \o Prop(name, <<t>>)
              /\ Len(b) = W + 5 /\ b # <<>>
              /\ ParseReadyFrom(TRUE, b, types) =
                    IF <<t>> \in types THEN Value(<<t>>) ELSE Fails("WrongSocketType")
        BY <2>6, ReadyRead
      <3>2. Len(CommandFrame(b)) = 2 + Len(b) /\ CommandFrame(b) \o <<>> = CommandFrame(b)
        BY FrameFacts
      <3>3. ~(RADIX < Len(CommandFrame(b)))
        BY <2>1, <3>1, <3>2
      <3>4. Encoded(CommandFrame(b), RADIX) = Value(CommandFrame(b))
        BY <3>3, Zenon DEF Encoded
      <3>5. Encoded(CommandFrame(b), RADIX).val = CommandFrame(b)
        BY <3>4 DEF Value
      <3>6. <<>> \in Seq(Nat)
        OBVIOUS
      <3>7. ParseReady(CommandFrame(b) \o <<>>, types) = ParseReadyFrom(TRUE, b, types)
        BY <3>1, <3>6, FrameRead
      <3> QED
        BY <3>1, <3>2, <3>5, <3>7, Zenon
    <2>7. 5 \in Octet /\ 6 \in Octet /\ 5 \in Nat /\ 6 \in Nat
      BY <2>1 DEF Octet
    <2>8. ParseReady(EncodeReady(RADIX).val, {PUB}) = Value(PUB)
      <3>1. <<5>> \in {PUB} /\ PUB = <<5>>
        BY DEF PUB
      <3> QED
        BY <2>5, <2>6, <2>7, <3>1, Zenon DEF EncodeReady
    <2>9. ParseReady(EncodeReadyRadio(RADIX).val, {RADIO}) = Value(RADIO)
      <3>1. <<6>> \in {RADIO} /\ RADIO = <<6>>
        BY DEF RADIO
      <3> QED
        BY <2>5, <2>6, <2>7, <3>1, Zenon DEF EncodeReadyRadio
    <2>10. ParseReady(EncodeReady(RADIX).val, {SUB, XSUB}).res = "WrongSocketType"
      <3>1. <<5>> \notin {SUB, XSUB} /\ PUB = <<5>>
        BY DEF PUB, SUB, XSUB
      <3>2. ParseReady(EncodeReady(RADIX).val, {SUB, XSUB}) = Fails("WrongSocketType")
        BY <2>5, <2>6, <2>7, <3>1, Zenon DEF EncodeReady
      <3> QED
        BY <3>2 DEF Fails
    <2>11. ParseHelloFrom(TRUE, SubSeq(EncodeWelcome(RADIX).val, 3, Len(EncodeWelcome(RADIX).val))).res
             = "UnknownCommand"
      <3>1. PICK b \in Seq(Nat) : b = Named(WELCOME) /\ Len(b) = 2
        <4>1. Named(WELCOME) \in Seq(Nat) /\ Len(Named(WELCOME)) = 2
          BY DEF Named, WELCOME
        <4> QED
          BY <4>1, Zenon
      <3>2. /\ Len(CommandFrame(b)) = 2 + Len(b)
            /\ SubSeq(CommandFrame(b), 3, Len(CommandFrame(b))) = b
        BY FrameFacts
      <3>3. ~(RADIX < Len(CommandFrame(b)))
        BY <2>1, <3>1, <3>2
      <3>4. EncodeWelcome(RADIX) = Value(CommandFrame(b))
        BY <3>1, <3>3, Zenon DEF Encoded, EncodeWelcome
      <3>5. EncodeWelcome(RADIX).val = CommandFrame(b)
        BY <3>4 DEF Value
      <3>6. CheckName(TRUE, b, HELLO, "MalformedHello") = "UnknownCommand"
        BY <3>1, WelcomeName
      <3>7. "UnknownCommand" # "Ok" /\ Fails("UnknownCommand").res = "UnknownCommand"
        BY DEF Fails
      <3>8. ParseHelloFrom(TRUE, b) = Fails("UnknownCommand")
        BY <3>6, <3>7, Zenon DEF ParseHelloFrom
      <3> QED
        BY <3>2, <3>5, <3>7, <3>8, Zenon
    <2> QED
      BY <2>4, <2>8, <2>9, <2>10, <2>11, Zenon DEF EncodersAgree, limit
  <1> QED
    BY <1>1, BodyInvariance, PTL
=============================================================================
