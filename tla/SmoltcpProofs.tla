--------------------------- MODULE SmoltcpProofs ---------------------------
(***************************************************************************)
(* The loop over a smoltcp socket loses nothing of what it receives,       *)
(* answers every PING and sends a well-formed stream, for every peer and   *)
(* every size of its buffers.                                              *)
(***************************************************************************)
EXTENDS SmoltcpPub, HandshakeProofs

\* What the peer may send.
Units == UnitsOf(Streams)

\* What the loop writes.
Parts ==
    {Part("GREETING", <<>>), Part("READY", <<>>)}
    \cup {Part("PONG", <<z>>) : z \in ContextsOf(Units)}
    \cup {MessagePart(i) : i \in 1 .. 4}

\* The fields of main's record, and of the socket in it.
AppFields == {"conn", "greeting_buf", "greeting_done", "rx", "sock", "res", "ended", "fed"}
IsApp(a) == DOMAIN a = AppFields /\ DOMAIN a.sock = {"state", "rx", "tx"}

\* The types of main's variables and of the socket.
Typed(a) ==
    /\ IsApp(a)
    /\ IsPub(a.conn, Units) /\ a.conn.mechanism = "Null"
    /\ a.greeting_buf \in BOOLEAN /\ a.greeting_done \in BOOLEAN
    /\ a.rx \in Seq(Units) /\ Len(a.rx) <= RX_CAP
    /\ a.sock.rx \in Seq(Units) /\ a.fed \in Seq(Units)
    /\ a.sock.tx \in Seq(Parts)

\* The connection c is what the units u make of it.
Knows(c, u) == \E rej \in BOOLEAN : FedInv(c, u, rej, PubTypes)

\* A greeting that is complete and still looked at has been refused.
Decided(c) == c.state = "Greeting" /\ Len(c.greeting_buf) = GREETING_LEN => RefusesPeer(c)

\* NothingLost, with the units n on their way and the units w sent.
Kept(a, n, w) == RefusesPeer(a.conn) \/ a.fed \o a.rx \o a.sock.rx \o n = w

\* The place k of the output holds what belongs there.
InPlace(k, what) ==
    IF k = 1 THEN what = "GREETING" ELSE IF k = 2 THEN what = "READY" ELSE what \in {"PONG", "MESSAGE"}

\* A part may follow when part parts of a message have been written, and how
\* many have been after it.
Follows(part, e) == IF e.what = "MESSAGE" THEN e.arg = <<part + 1>> ELSE part = 0
After(e) == IF e.what = "MESSAGE" THEN e.arg[1] % 4 ELSE 0

\* The parts t may follow, each its predecessor.
Train(part, t) ==
    /\ t # <<>> => Follows(part, t[1])
    /\ \A i \in 1 .. Len(t) - 1 : Follows(After(t[i]), t[i + 1])
AtEnd(part, t) == IF t = <<>> THEN part ELSE After(t[Len(t)])

\* The peer has seen the handshake as far as it goes, then PONGs and messages.
Seen(o) ==
    /\ DOMAIN o = {"items", "part"} /\ o.items \in Seq(Parts) /\ o.part \in 0 .. 3
    /\ \A i \in DOMAIN o.items : InPlace(i, o.items[i].what) /\ o.items[i].what # "MESSAGE"
    /\ HandshakeIn(o.items) = SubSeq(FullHandshake("Null"), 1, SmallerOf(Len(o.items), 2))
    /\ o.part # 0 => Len(o.items) >= 2

\* What waits in the socket goes on where the peer is, and ends with k parts of
\* a message.
GoesOn(t, o, k) ==
    /\ \A i \in DOMAIN t : InPlace(Len(o.items) + i, t[i].what)
    /\ Train(o.part, t) /\ AtEnd(o.part, t) = k

\* The flags say what has been written when len items have been.
Marks(a, len) ==
    /\ a.greeting_done <=> len >= 1
    /\ a.conn.our_ready_sent <=> len >= 2

Open(a) == a.sock.state = "open" /\ a.ended = "no"

\* Every PING among the units u is answered, by a PONG the peer has seen, in
\* the queue t or pending.
Due(t, o, c, u) == PongsIn(o.items \o t) \o c.pending_pong = PingsDue(c, u)

\* The output so far.
Queued(a, o, k) ==
    Open(a) =>
        /\ GoesOn(a.sock.tx, o, k)
        /\ Marks(a, Len(o.items) + Len(a.sock.tx))
        /\ Due(a.sock.tx, o, a.conn, a.fed)

\* Nothing moves before our greeting is in the socket, and that is connected.
Begun(a, o) ==
    /\ a.conn.our_greeting_sent = a.greeting_buf
    /\ a.greeting_done => a.greeting_buf
    /\ a.sock.state = "connecting" => ~a.greeting_done
    /\ ~a.greeting_done =>
          /\ a.rx = <<>> /\ a.sock.rx = <<>> /\ a.fed = <<>> /\ a.sock.tx = <<>>
          /\ o.items = <<>> /\ o.part = 0

\* Main's variables, with k parts of a message written.
AppAt(a, o, n, w, k) ==
    /\ Typed(a) /\ Knows(a.conn, a.fed) /\ Decided(a.conn) /\ Kept(a, n, w)
    /\ Queued(a, o, k) /\ Begun(a, o)

\* Nothing is owed to the peer.
Idle(c) == c.pending_pong = <<>> /\ (c.state = "Ready" => c.our_ready_sent)

\* If the socket is usable our greeting is in it, or has been.
Started(a) == Open(a) => a.greeting_done

\* The inductive invariant.
SInv ==
    /\ wire \in Seq(Units) /\ psent \in 0 .. Len(wire) /\ net \in Seq(Units)
    /\ Seen(out) /\ AppAt(app, out, net, SubSeq(wire, 1, psent), 0)
    /\ app.ended = "no" => Idle(app.conn)
    /\ pc = "poll" => Started(app)

-----------------------------------------------------------------------------
(* Sequences of parts *)

\* One more part at the end of the queue.
LEMMA TrainAppend ==
    ASSUME NEW t \in Seq(Parts), NEW e \in Parts, NEW part, Train(part, t), Follows(AtEnd(part, t), e)
    PROVE  Train(part, Append(t, e)) /\ AtEnd(part, Append(t, e)) = After(e)
  <1> DEFINE v == Append(t, e)
  <1>1. v \in Seq(Parts) /\ Len(v) = Len(t) + 1 /\ v # <<>> /\ v[Len(t) + 1] = e
        /\ \A i \in 1 .. Len(t) : v[i] = t[i]
    OBVIOUS
  <1> HIDE DEF v
  <1>2. AtEnd(part, v) = After(e)
    BY <1>1 DEF AtEnd
  <1>3. Follows(part, v[1])
    <2>1. CASE t = <<>>
      BY <1>1, <2>1 DEF AtEnd
    <2>2. CASE t # <<>>
      BY <1>1, <2>2 DEF Train
    <2> QED
      BY <2>1, <2>2
  <1>4. ASSUME NEW i \in 1 .. Len(v) - 1 PROVE Follows(After(v[i]), v[i + 1])
    <2>1. CASE i < Len(t)
      <3>1. i \in 1 .. Len(t) - 1 /\ v[i] = t[i] /\ v[i + 1] = t[i + 1]
        BY <1>1, <2>1
      <3> QED
        BY <3>1 DEF Train
    <2>2. CASE i = Len(t)
      <3>1. t # <<>> /\ v[i] = t[Len(t)] /\ v[i + 1] = e
        BY <1>1, <2>2
      <3> QED
        BY <3>1 DEF AtEnd
    <2> QED
      BY <1>1, <2>1, <2>2
  <1>5. Train(part, v)
    BY <1>3, <1>4 DEF Train
  <1> QED
    BY <1>2, <1>5 DEF v

\* The first part of the queue leaves it.
LEMMA TrainTail ==
    ASSUME NEW t \in Seq(Parts), t # <<>>, NEW part, Train(part, t)
    PROVE  /\ Follows(part, Head(t))
           /\ Train(After(Head(t)), Tail(t))
           /\ AtEnd(After(Head(t)), Tail(t)) = AtEnd(part, t)
  <1> DEFINE v == Tail(t)
  <1>1. /\ Head(t) = t[1] /\ v \in Seq(Parts) /\ Len(v) = Len(t) - 1 /\ Len(t) \in Nat /\ Len(t) >= 1
        /\ \A i \in 1 .. Len(v) : v[i] = t[i + 1]
    OBVIOUS
  <1> HIDE DEF v
  <1>2. Follows(part, Head(t))
    BY <1>1 DEF Train
  <1>3. ASSUME v # <<>> PROVE Follows(After(t[1]), v[1])
    <2>1. Len(v) >= 1 /\ 1 \in 1 .. Len(t) - 1 /\ v[1] = t[1 + 1]
      BY <1>1, <1>3
    <2> QED
      BY <2>1 DEF Train
  <1>4. ASSUME NEW i \in 1 .. Len(v) - 1 PROVE Follows(After(v[i]), v[i + 1])
    <2>1. i + 1 \in 1 .. Len(t) - 1 /\ v[i] = t[i + 1] /\ v[i + 1] = t[(i + 1) + 1]
      BY <1>1
    <2> QED
      BY <2>1 DEF Train
  <1>5. AtEnd(After(t[1]), v) = AtEnd(part, t)
    <2>1. CASE v = <<>>
      <3>1. Len(t) = 1
        BY <1>1, <2>1
      <3> QED
        BY <2>1, <3>1 DEF AtEnd
    <2>2. CASE v # <<>>
      <3>1. v[Len(v)] = t[Len(t)]
        BY <1>1, <2>2
      <3> QED
        BY <2>2, <3>1 DEF AtEnd
    <2> QED
      BY <2>1, <2>2
  <1>6. Train(After(t[1]), v)
    BY <1>3, <1>4 DEF Train
  <1> QED
    BY <1>1, <1>2, <1>5, <1>6 DEF v

\* One more part y after s and after s with e.
LEMMA PongsSkipStep ==
    ASSUME NEW T, NEW s \in Seq(T), NEW q \in Seq(T), NEW y \in Seq(T), NEW z \in T,
           PongsIn(q \o y) = PongsIn(s \o y)
    PROVE  PongsIn(q \o Append(y, z)) = PongsIn(s \o Append(y, z))
  <1>1. q \o Append(y, z) = Append(q \o y, z) /\ q \o y \in Seq(T)
    BY AppendEnd
  <1>2. s \o Append(y, z) = Append(s \o y, z) /\ s \o y \in Seq(T)
    BY AppendEnd
  <1>3. PongsIn(Append(q \o y, z)) =
            IF z.what = "PONG" THEN Append(PongsIn(q \o y), z.arg[1]) ELSE PongsIn(q \o y)
    BY <1>1, PongsInAppend, Zenon
  <1>4. PongsIn(Append(s \o y, z)) =
            IF z.what = "PONG" THEN Append(PongsIn(s \o y), z.arg[1]) ELSE PongsIn(s \o y)
    BY <1>2, PongsInAppend, Zenon
  <1> QED
    BY <1>1, <1>2, <1>3, <1>4, Zenon

\* What is not a PONG may be left out anywhere.
LEMMA PongsSkip ==
    ASSUME NEW T, NEW s \in Seq(T), NEW e \in T, e.what # "PONG", NEW v \in Seq(T)
    PROVE  PongsIn(Append(s, e) \o v) = PongsIn(s \o v)
  <1>0. Append(s, e) \in Seq(T)
    OBVIOUS
  <1>1. PICK q \in Seq(T) : q = Append(s, e)
    BY <1>0, Zenon
  <1> DEFINE P(n) == n <= Len(v) => PongsIn(q \o SubSeq(v, 1, n)) = PongsIn(s \o SubSeq(v, 1, n))
             S == {n \in Nat : P(n)}
  <1>2. P(0)
    <2>1. SubSeq(v, 1, 0) = <<>> /\ q \o <<>> = q /\ s \o <<>> = s
      OBVIOUS
    <2>2. PongsIn(q) = PongsIn(s)
      BY <1>1, PongsInAppend
    <2> QED
      BY <2>1, <2>2, Zenon
  <1>3. ASSUME NEW n \in Nat, P(n) PROVE P(n + 1)
    <2> SUFFICES ASSUME n + 1 <= Len(v)
                 PROVE  PongsIn(q \o SubSeq(v, 1, n + 1)) = PongsIn(s \o SubSeq(v, 1, n + 1))
      BY Zenon
    <2>1. n < Len(v) /\ n <= Len(v) /\ v[n + 1] \in T /\ SubSeq(v, 1, n) \in Seq(T)
      OBVIOUS
    <2>2. PongsIn(q \o SubSeq(v, 1, n)) = PongsIn(s \o SubSeq(v, 1, n))
      BY <1>3, <2>1, Zenon
    <2>3. SubSeq(v, 1, n + 1) = Append(SubSeq(v, 1, n), v[n + 1])
      BY <2>1, OneMore
    <2>4. \A y \in Seq(T), z \in T :
              PongsIn(q \o y) = PongsIn(s \o y) =>
                  PongsIn(q \o Append(y, z)) = PongsIn(s \o Append(y, z))
      BY <1>1, PongsSkipStep
    <2> QED
      BY <2>1, <2>2, <2>3, <2>4, Zenon
  <1>4. S = Nat
    <2> HIDE DEF P
    <2>1. S \subseteq Nat /\ 0 \in S /\ \A n \in S : n + 1 \in S
      BY <1>2, <1>3
    <2> QED
      BY <2>1, InductiveSet
  <1>5. Len(v) \in Nat /\ Len(v) <= Len(v) /\ SubSeq(v, 1, Len(v)) = v
    OBVIOUS
  <1>6. P(Len(v))
    BY <1>4, <1>5, Zenon
  <1> QED
    BY <1>1, <1>5, <1>6, Zenon

\* The first part of the queue moves to the end of what was seen.
LEMMA PartMoves ==
    ASSUME NEW T, NEW s \in Seq(T), NEW t \in Seq(T), t # <<>>
    PROVE  /\ Head(t) \in T /\ Tail(t) \in Seq(T)
           /\ Append(s, Head(t)) \o Tail(t) = s \o t
  OBVIOUS

-----------------------------------------------------------------------------
(* Parts *)

\* The parts, each with its argument.
LEMMA PartFacts ==
    ASSUME NEW e \in Parts
    PROVE  \/ e.what \in {"GREETING", "READY"}
           \/ e.what = "PONG" /\ \E z \in ContextsOf(Units) : e.arg = <<z>>
           \/ e.what = "MESSAGE" /\ \E i \in 1 .. 4 : e.arg = <<i>> /\ e.arg[1] = i
  BY DEF Parts, Part, MessagePart

\* The fields of the parts that are written.
LEMMA PartsWritten ==
    /\ Part("GREETING", <<>>) \in Parts /\ Part("GREETING", <<>>).what = "GREETING"
    /\ Part("READY", <<>>) \in Parts /\ Part("READY", <<>>).what = "READY"
    /\ \A z \in ContextsOf(Units) :
          /\ Part("PONG", <<z>>) \in Parts /\ Part("PONG", <<z>>).what = "PONG"
          /\ Part("PONG", <<z>>).arg = <<z>> /\ Part("PONG", <<z>>).arg[1] = z
    /\ \A i \in 1 .. 4 :
          /\ MessagePart(i) \in Parts /\ MessagePart(i).what = "MESSAGE"
          /\ MessagePart(i).arg = <<i>> /\ MessagePart(i).arg[1] = i
  BY DEF Parts, Part, MessagePart

\* A part that is added to the queue.
LEMMA QueueMore ==
    ASSUME NEW t \in Seq(Parts), NEW o, Seen(o), NEW k, GoesOn(t, o, k),
           NEW p \in Parts, Follows(k, p), InPlace(Len(o.items) + Len(t) + 1, p.what)
    PROVE  /\ Append(t, p) \in Seq(Parts) /\ Len(Append(t, p)) = Len(t) + 1
           /\ GoesOn(Append(t, p), o, After(p))
           /\ PongsIn(o.items \o Append(t, p)) =
                  IF p.what = "PONG" THEN Append(PongsIn(o.items \o t), p.arg[1])
                  ELSE PongsIn(o.items \o t)
  <1>1. o.items \in Seq(Parts) /\ Len(o.items) \in Nat
    BY DEF Seen
  <1>2. Train(o.part, t) /\ AtEnd(o.part, t) = k
    BY DEF GoesOn
  <1>3. Train(o.part, Append(t, p)) /\ AtEnd(o.part, Append(t, p)) = After(p)
    BY <1>2, TrainAppend
  <1>4. PICK v : v = Append(t, p)
    OBVIOUS
  <1>5. v \in Seq(Parts) /\ Len(v) = Len(t) + 1 /\ DOMAIN v = 1 .. Len(t) + 1
        /\ v[Len(t) + 1] = p /\ \A i \in 1 .. Len(t) : v[i] = t[i] /\ i \in DOMAIN t
    BY <1>4
  <1>6. ASSUME NEW i \in DOMAIN v PROVE InPlace(Len(o.items) + i, v[i].what)
    <2>1. CASE i = Len(t) + 1
      <3>1. Len(o.items) + i = Len(o.items) + Len(t) + 1
        <4> HIDE DEF Parts
        <4>1. \A x, y, z \in Nat : z = y + 1 => x + z = x + y + 1
          OBVIOUS
        <4>2. Len(t) \in Nat /\ i \in Nat
          BY <1>5
        <4> QED
          BY <1>1, <2>1, <4>1, <4>2, Zenon
      <3> QED
        BY <1>5, <2>1, <3>1, Zenon
    <2>2. CASE i # Len(t) + 1
      <3>1. i \in DOMAIN t /\ v[i] = t[i]
        BY <1>5, <2>2
      <3> QED
        BY <3>1 DEF GoesOn
    <2> QED
      BY <2>1, <2>2
  <1>7. o.items \o Append(t, p) = Append(o.items \o t, p) /\ o.items \o t \in Seq(Parts)
    <2>1. \A s \in Seq(Parts) : s \o Append(t, p) = Append(s \o t, p) /\ s \o t \in Seq(Parts)
      BY AppendEnd
    <2> QED
      BY <1>1, <2>1, Zenon
  <1>8. PongsIn(o.items \o Append(t, p)) =
            IF p.what = "PONG" THEN Append(PongsIn(o.items \o t), p.arg[1]) ELSE PongsIn(o.items \o t)
    BY <1>7, PongsInAppend, Zenon
  <1>9. GoesOn(Append(t, p), o, After(p))
    BY <1>3, <1>4, <1>6 DEF GoesOn
  <1> QED
    BY <1>4, <1>5, <1>8, <1>9

-----------------------------------------------------------------------------
(* What the loop feeds *)

\* What feed does to x on c, seen from the loop: an error consumes nothing, a
\* peer that is refused stays refused, and whoever consumes nothing refuses.
Eats(c, x, r) ==
    /\ r.n \in 0 .. Len(x)
    /\ r.res # "Ok" => r.n = 0
    /\ Decided(r.conn)
    /\ RefusesPeer(c) \/ r.n = 0 => RefusesPeer(r.conn)

\* A greeting buffer that refuses the peer.
BadBuf(buf) ==
    /\ Len(buf) >= 2
    /\ ~ParsePartialGreeting(buf) \/ (Len(buf) = 3 /\ ~ParseGreeting("Null", buf))

\* RefusesPeer while the greeting is looked at.
LEMMA BadBufRefuses ==
    ASSUME NEW c, c.state = "Greeting", c.frame_decoder = NewDecoder
    PROVE  RefusesPeer(c) <=> BadBuf(c.greeting_buf)
  BY DEF RefusesPeer, BadBuf, NewDecoder, GREETING_LEN, GREETING_PARTIAL_LEN

\* A buffer that refuses the peer does so with more units.
LEMMA BadBufMore ==
    ASSUME NEW U, NEW g \in Seq(U), NEW b \in Seq(U), Len(g) <= Len(b), Len(b) <= 3,
           \A i \in 1 .. Len(g) : b[i] = g[i], BadBuf(g)
    PROVE  BadBuf(b)
  <1>1. b[1] = g[1] /\ b[2] = g[2] /\ Len(b) >= 2
    BY DEF BadBuf
  <1>2. ParsePartialGreeting(b) <=> ParsePartialGreeting(g)
    BY <1>1 DEF ParsePartialGreeting, GREETING_PARTIAL_LEN
  <1>3. CASE ~ParsePartialGreeting(g)
    BY <1>1, <1>2, <1>3 DEF BadBuf
  <1>4. CASE Len(g) = 3 /\ ~ParseGreeting("Null", g)
    <2>1. Len(b) = 3 /\ b[3] = g[3]
      BY <1>4
    <2>2. ~ParseGreeting("Null", b)
      BY <1>2, <1>4, <2>1 DEF ParseGreeting
    <2> QED
      BY <1>1, <2>1, <2>2 DEF BadBuf
  <1> QED
    BY <1>3, <1>4 DEF BadBuf

\* feed in the state Greeting.
LEMMA GreetingEats ==
    ASSUME NEW c, IsConn(c, Units), c.mechanism = "Null", c.state = "Greeting", c.our_greeting_sent,
           c.frame_decoder = NewDecoder, Decided(c),
           NEW x \in Seq(Units), x # <<>>, NEW r, r = FeedGreeting(c, x)
    PROVE  Eats(c, x, r)
  <1>1. PICK g \in Seq(Units) : g = c.greeting_buf /\ Len(g) <= 3
    BY DEF IsConn, GREETING_LEN
  <1>2. PICK n : n = SmallerOf(Len(x), 3 - Len(g))
    OBVIOUS
  <1>3. n \in 0 .. Len(x) /\ Len(g) + n <= 3 /\ (n = 0 => Len(g) = 3)
    <2>1. Len(x) \in Nat \ {0} /\ Len(g) \in 0 .. 3
      <3>1. \A v \in Seq(Units) : Len(v) \in Nat /\ (Len(v) = 0 => v = <<>>)
        OBVIOUS
      <3>2. \A k \in Nat : k <= 3 => k \in 0 .. 3
        OBVIOUS
      <3> QED
        BY <1>1, <3>1, <3>2
    <2>2. \A i \in Nat \ {0}, j \in 0 .. 3 :
              LET k == SmallerOf(i, 3 - j) IN k \in 0 .. i /\ j + k <= 3 /\ (k = 0 => j = 3)
      BY DEF SmallerOf
    <2> QED
      BY <1>2, <2>1, <2>2, Zenon
  <1>4. PICK b : b = g \o SubSeq(x, 1, n)
    OBVIOUS
  <1>5. b \in Seq(Units) /\ Len(b) = Len(g) + n /\ \A i \in 1 .. Len(g) : b[i] = g[i]
    BY <1>3, <1>4
  <1>6. BadBuf(g) => BadBuf(b)
    BY <1>3, <1>5, BadBufMore
  <1>7. RefusesPeer(c) <=> BadBuf(g)
    BY <1>1, BadBufRefuses
  <1>8. PICK d : d = [c EXCEPT !.greeting_buf = b]
    OBVIOUS
  <1>9. /\ d.state = "Greeting" /\ d.frame_decoder = NewDecoder /\ d.greeting_buf = b
        /\ ConnFields \subseteq DOMAIN d
    BY <1>8 DEF IsConn, ConnFields
  <1>10. RefusesPeer(d) <=> BadBuf(b)
    BY <1>9, BadBufRefuses
  <1>11. r = IF Len(g) < 2 /\ Len(b) >= 2 /\ ~ParsePartialGreeting(b) THEN Err(d, "GreetingError")
             ELSE IF Len(b) < 3 THEN Ok(d, n)
             ELSE IF ~ParseGreeting("Null", b) THEN Err(d, "GreetingError")
             ELSE Ok([d EXCEPT !.peer_version_minor = b[3].of.minor,
                               !.peer_greeting_received = TRUE,
                               !.state = "Ready"], n)
    <2>1. r = LET next == IF c.mechanism = "Null" THEN "Ready" ELSE "PlainHello"
              IN  IF Len(g) < 2 /\ Len(b) >= 2 /\ ~ParsePartialGreeting(b)
                  THEN Err(d, "GreetingError")
                  ELSE IF Len(b) < 3 THEN Ok(d, n)
                  ELSE IF ~ParseGreeting(c.mechanism, b) THEN Err(d, "GreetingError")
                  ELSE Ok([d EXCEPT !.peer_version_minor = b[3].of.minor,
                                    !.peer_greeting_received = TRUE,
                                    !.state = IF c.our_greeting_sent THEN next ELSE @], n)
      BY <1>1, <1>2, <1>4, <1>8, Zenon DEF FeedGreeting, GREETING_LEN, GREETING_PARTIAL_LEN
    <2> QED
      BY <2>1
  <1>12. CASE r = Err(d, "GreetingError")
    <2>1. r.conn = d /\ r.n = 0 /\ r.res # "Ok"
      BY <1>12 DEF Err
    <2>2. BadBuf(b)
      <3>1. \/ Len(b) >= 2 /\ ~ParsePartialGreeting(b)
            \/ Len(b) >= 3 /\ ~ParseGreeting("Null", b)
        BY <1>11, <2>1 DEF Ok
      <3> QED
        BY <1>3, <1>5, <3>1 DEF BadBuf
    <2> QED
      BY <1>10, <2>1, <2>2 DEF Eats, Decided
  <1>13. CASE r = Ok(d, n) /\ Len(b) < 3
    <2>1. r.conn = d /\ r.n = n /\ r.res = "Ok"
      BY <1>13 DEF Ok
    <2>2. n # 0
      <3> SUFFICES ASSUME n = 0 PROVE FALSE
        OBVIOUS
      <3>1. Len(b) = 3 + 0
        BY <1>3, <1>5, Zenon
      <3>2. Len(b) < 3
        BY <1>13
      <3> QED
        BY <3>1, <3>2
    <2>3. Decided(d)
      BY <1>9, <1>13 DEF Decided, GREETING_LEN
    <2> QED
      BY <1>3, <1>6, <1>7, <1>10, <2>1, <2>2, <2>3 DEF Eats
  <1>14. CASE /\ Len(b) >= 3 /\ ParseGreeting("Null", b)
              /\ r = Ok([d EXCEPT !.peer_version_minor = b[3].of.minor,
                                  !.peer_greeting_received = TRUE,
                                  !.state = "Ready"], n)
    <2>0. PICK e : e = [d EXCEPT !.peer_version_minor = b[3].of.minor,
                                 !.peer_greeting_received = TRUE, !.state = "Ready"]
      OBVIOUS
    <2>1. r.conn.state = "Ready" /\ r.n = n /\ r.res = "Ok"
      <3>1. e.state = "Ready"
        BY <1>9, <2>0 DEF ConnFields
      <3>2. r = Ok(e, n)
        BY <1>14, <2>0, Zenon
      <3> QED
        BY <3>1, <3>2 DEF Ok
    <2>2. ~BadBuf(b)
      BY <1>14 DEF BadBuf, ParseGreeting
    <2>3. ~RefusesPeer(c)
      BY <1>6, <1>7, <2>2
    <2>4. n # 0
      <3> SUFFICES ASSUME n = 0 PROVE FALSE
        OBVIOUS
      <3>1. Len(c.greeting_buf) = 3
        BY <1>1, <1>3
      <3> QED
        BY <2>3, <3>1 DEF Decided, GREETING_LEN
    <2>5. Decided(r.conn)
      BY <2>1 DEF Decided
    <2> QED
      BY <1>3, <2>1, <2>3, <2>4, <2>5 DEF Eats
  <1> QED
    BY <1>3, <1>5, <1>11, <1>12, <1>13, <1>14

\* A peer that is refused after the greeting.
LEMMA RefusesLater ==
    ASSUME NEW c, c.state # "Greeting"
    PROVE  /\ RefusesPeer(c) <=> c.state = "Failed" \/ c.frame_decoder.poisoned
           /\ Decided(c)
  BY DEF RefusesPeer, Decided

\* What a handler returns for what TakeFrame did.
Handles(t, r) ==
    IF t.res = "Some"
    THEN (r.res = "Ok" /\ r.n = t.n) \/ (r.res # "Ok" /\ r.n = 0 /\ r.conn.state = "Failed")
    ELSE r = t

\* feed in a state in which it takes frames.
LEMMA FramesEat ==
    ASSUME NEW c, IsConn(c, Units), c.state \notin {"Greeting", "Failed"},
           NEW x \in Seq(Units), x # <<>>, NEW t, t = TakeFrame(c, x),
           NEW r, r.conn.state # "Greeting", Handles(t, r)
    PROVE  Eats(c, x, r)
  <1>1. RefusesPeer(c) <=> c.frame_decoder.poisoned
    BY RefusesLater
  <1>2. RefusesPeer(r.conn) <=> r.conn.state = "Failed" \/ r.conn.frame_decoder.poisoned
    BY RefusesLater
  <1>3. Decided(r.conn)
    BY RefusesLater
  <1>4. Len(x) \in Nat \ {0}
    <2>1. \A v \in Seq(Units) : Len(v) \in Nat /\ (Len(v) = 0 => v = <<>>)
      OBVIOUS
    <2> QED
      BY <2>1
  <1>5. ~Idles(c, x, t)
    BY DEF Idles
  <1>6. CASE Halves(c, x, t)
    <2>1. ~c.frame_decoder.poisoned /\ r = t /\ t.n = 1 /\ t.res = "Ok"
      BY <1>6 DEF Halves, Holding, Handles
    <2> QED
      BY <1>1, <1>3, <1>4, <2>1 DEF Eats
  <1>7. CASE Spoils(c, x, t)
    <2>1. r = t /\ t.res # "Ok" /\ t.conn.frame_decoder.poisoned
      BY <1>7 DEF Spoils, IsConn, ConnFields, Poisoned, Handles
    <2>2. t.n = 0
      BY <1>7 DEF Spoils, TakeFrame, Err, Ok
    <2> QED
      BY <1>2, <1>3, <1>4, <2>1, <2>2 DEF Eats
  <1>8. CASE \E g \in Seq(Units) : Len(g) < FRAME_LEN /\ Completes(c, x, t, g)
    <2>1. PICK g \in Seq(Units) : Len(g) < FRAME_LEN /\ Completes(c, x, t, g)
      BY <1>8
    <2>2. ~c.frame_decoder.poisoned /\ t.res = "Some" /\ t.n \in 1 .. Len(x)
      <3>1. ~c.frame_decoder.poisoned /\ t.res = "Some" /\ t.n = 2 - Len(g) /\ Len(x) >= t.n
        BY <2>1 DEF Completes, Holding, FRAME_LEN
      <3>2. Len(g) \in Nat /\ Len(g) < 2
        BY <2>1 DEF FRAME_LEN
      <3> QED
        BY <1>4, <3>1, <3>2
    <2>3. CASE r.res = "Ok" /\ r.n = t.n
      BY <1>1, <1>3, <2>2, <2>3 DEF Eats
    <2>4. CASE r.n = 0 /\ r.conn.state = "Failed"
      BY <1>2, <1>3, <1>4, <2>4 DEF Eats
    <2> QED
      BY <2>2, <2>3, <2>4 DEF Handles
  <1> QED
    BY <1>5, <1>6, <1>7, <1>8, TakeFrameCases

\* The state after TakeFrame is the one before.
LEMMA TakeFrameState ==
    ASSUME NEW c, IsConn(c, Units), NEW x \in Seq(Units), NEW t, t = TakeFrame(c, x)
    PROVE  t.conn.state = c.state /\ ConnFields \subseteq DOMAIN t.conn
  BY TakeFrameKeeps DEF DiffersIn, IsConn, ConnFields

\* feed as the loop calls it: with our greeting written, and our READY when the
\* peer's greeting has come.
LEMMA LoopEats ==
    ASSUME NEW c, IsPub(c, Units), c.mechanism = "Null", c.our_greeting_sent,
           c.state = "Ready" => c.our_ready_sent, Decided(c),
           NEW u \in Seq(Units), Knows(c, u),
           NEW x \in Seq(Units), x # <<>>, NEW r, r = FeedConn(c, x)
    PROVE  Eats(c, x, r)
  <1>1. IsConn(c, Units) /\ c.state \in States
    BY DEF IsPub, IsConn
  <1>2. c.state \notin {"PlainHello", "PlainReady"} /\ (c.state = "Greeting" => c.frame_decoder = NewDecoder)
    BY DEF Knows, FedInv, Received, Greets
  <1>3. PICK t : t = TakeFrame(c, x)
    OBVIOUS
  <1>4. t.conn.state = c.state /\ ConnFields \subseteq DOMAIN t.conn
    BY <1>1, <1>3, TakeFrameState
  <1>5. CASE c.state = "Greeting"
    <2>1. r = FeedGreeting(c, x)
      BY <1>5 DEF FeedConn
    <2> QED
      BY <1>1, <1>2, <1>5, <2>1, GreetingEats
  <1>6. CASE c.state = "Ready"
    <2>1. r = IF t.res = "Some" THEN HandleReady(t.conn, t.frame, ParseReady(t.frame), t.n) ELSE t
      BY <1>3, <1>6 DEF FeedConn, FeedReady, FeedReadyInner
    <2>2. r.conn.state # "Greeting" /\ Handles(t, r)
      <3>1. CASE t.res # "Some"
        BY <1>4, <1>6, <2>1, <3>1 DEF Handles
      <3>2. CASE t.res = "Some"
        <4>1. \/ r = Ok([t.conn EXCEPT !.state = "Established"], t.n)
              \/ r = Err([t.conn EXCEPT !.state = "Failed"], "NullError")
          BY <2>1, <3>2 DEF HandleReady
        <4>3. CASE r = Ok([t.conn EXCEPT !.state = "Established"], t.n)
          <5>0. PICK e : e = [t.conn EXCEPT !.state = "Established"]
            OBVIOUS
          <5>1. r.conn.state = "Established" /\ r.res = "Ok" /\ r.n = t.n
            <6>1. e.state = "Established"
              BY <1>4, <5>0 DEF ConnFields
            <6>2. r = Ok(e, t.n)
              BY <4>3, <5>0, Zenon
            <6> QED
              BY <6>1, <6>2 DEF Ok
          <5> QED
            BY <3>2, <5>1 DEF Handles
        <4>4. CASE r = Err([t.conn EXCEPT !.state = "Failed"], "NullError")
          <5>0. PICK e : e = [t.conn EXCEPT !.state = "Failed"]
            OBVIOUS
          <5>1. r.conn.state = "Failed" /\ r.res # "Ok" /\ r.n = 0
            <6>1. e.state = "Failed"
              BY <1>4, <5>0 DEF ConnFields
            <6>2. r = Err(e, "NullError")
              BY <4>4, <5>0, Zenon
            <6> QED
              BY <6>1, <6>2 DEF Err
          <5> QED
            BY <3>2, <5>1 DEF Handles
        <4> QED
          BY <4>1, <4>3, <4>4
      <3> QED
        BY <3>1, <3>2
    <2> QED
      BY <1>1, <1>3, <1>6, <2>2, FramesEat
  <1>7. CASE c.state = "Established"
    <2>1. r = IF t.res = "Some" THEN Ok(ApplyFrame(t.conn, t.frame), t.n) ELSE t
      BY <1>3, <1>7 DEF FeedConn, FeedEstablished, HandleEstablished
    <2>2. IsPub(t.conn, Units)
      BY <1>1, <1>3, TakeFrameKeeps DEF IsPub, DiffersIn
    <2>3. ApplyFrame(t.conn, t.frame).state = "Established"
      BY <1>4, <1>7, <2>2, PubApplies DEF ChangesLittle
    <2>4. r.conn.state # "Greeting" /\ Handles(t, r)
      <3>1. CASE t.res # "Some"
        BY <1>4, <1>7, <2>1, <3>1 DEF Handles
      <3>2. CASE t.res = "Some"
        BY <2>1, <2>3, <3>2 DEF Handles, Ok
      <3> QED
        BY <3>1, <3>2
    <2> QED
      BY <1>1, <1>3, <1>7, <2>4, FramesEat
  <1>8. CASE c.state = "Failed"
    <2>1. r.conn = c /\ r.n = 0
      BY <1>8 DEF FeedConn, Err
    <2>2. RefusesPeer(c)
      BY <1>8 DEF RefusesPeer
    <2>3. Len(x) \in Nat
      OBVIOUS
    <2> QED
      BY <2>1, <2>2, <2>3 DEF Eats
  <1> QED
    BY <1>1, <1>2, <1>5, <1>6, <1>7, <1>8 DEF States

\* FeedPings with the units of the peers.
LEMMA LoopPings ==
    ASSUME NEW c, IsConn(c, Units), NEW u \in Seq(Units), NEW rej \in BOOLEAN, NEW types,
           FedInv(c, u, rej, types), c.pending_pong = <<>>,
           NEW x \in Seq(Units), NEW r, FeedsTo(Units, c, x, r, types)
    PROVE  PingsDue(r.conn, FedBy(u, x, r)) = PingsDue(c, u) \o r.conn.pending_pong
  BY FeedPings, SMT

\* The same for whatever the connection has rejected.
LEMMA KnownPings ==
    ASSUME NEW c, IsConn(c, Units), NEW u \in Seq(Units), Knows(c, u), c.pending_pong = <<>>,
           NEW x \in Seq(Units), NEW r, FeedsTo(Units, c, x, r, PubTypes)
    PROVE  PingsDue(r.conn, FedBy(u, x, r)) = PingsDue(c, u) \o r.conn.pending_pong
  <1>1. ASSUME NEW rej \in BOOLEAN, FedInv(c, u, rej, PubTypes)
        PROVE  PingsDue(r.conn, FedBy(u, x, r)) = PingsDue(c, u) \o r.conn.pending_pong
    BY <1>1, LoopPings
  <1> QED
    BY <1>1, Zenon DEF Knows

\* The connection c, with the units u behind it, may be fed by the loop.
MayFeed(c, u) ==
    /\ IsPub(c, Units) /\ c.mechanism = "Null" /\ c.our_greeting_sent /\ c.pending_pong = <<>>
    /\ c.state = "Ready" => c.our_ready_sent
    /\ Decided(c) /\ u \in Seq(Units) /\ Knows(c, u)

\* What feed makes of it and of the PINGs, with the units v now behind it.
HasFed(c, u, x, r, v) ==
    /\ Eats(c, x, r) /\ IsPub(r.conn, Units) /\ KeepsFlags(c, r.conn)
    /\ v \in Seq(Units) /\ Knows(r.conn, v)
    /\ PingsDue(r.conn, v) = PingsDue(c, u) \o r.conn.pending_pong

\* The one follows from the other.
LEMMA LoopFeeds ==
    ASSUME NEW c, NEW u, MayFeed(c, u), NEW x \in Seq(Units), x # <<>>, NEW r, r = FeedConn(c, x),
           NEW v, v = u \o SubSeq(x, 1, r.n)
    PROVE  HasFed(c, u, x, r, v)
  <1> USE DEF MayFeed
  <1>1. IsConn(c, Units) /\ FeedsTo(Units, c, x, r, PubTypes)
    BY PubFeeds DEF IsPub
  <1>2. PICK rej \in BOOLEAN : FedInv(c, u, rej, PubTypes)
    BY DEF Knows
  <1>3. Eats(c, x, r)
    BY LoopEats
  <1>4. FedBy(u, x, r) = u \o SubSeq(x, 1, r.n)
    <2>1. CASE r.res = "Ok"
      BY <2>1 DEF FedBy
    <2>2. CASE r.res # "Ok"
      <3>1. r.n = 0
        BY <1>3, <2>2 DEF Eats
      <3>2. u \o SubSeq(x, 1, 0) = u
        OBVIOUS
      <3> QED
        BY <2>2, <3>1, <3>2 DEF FedBy
    <2> QED
      BY <2>1, <2>2
  <1>5. /\ IsConn(r.conn, Units) /\ FedBy(u, x, r) \in Seq(Units)
        /\ FedInv(r.conn, FedBy(u, x, r), RejectedBy(c, rej, r), PubTypes)
    BY <1>1, <1>2, FeedInv
  <1>6. RejectedBy(c, rej, r) \in BOOLEAN
    BY DEF RejectedBy
  <1>7. Knows(r.conn, FedBy(u, x, r))
    BY <1>5, <1>6, Zenon DEF Knows
  <1>8. IsPub(r.conn, Units)
    <2>1. DOMAIN r.conn = DOMAIN c
      BY PubFeeds DEF TableFed
    <2> QED
      BY <1>5, <2>1 DEF IsPub
  <1>9. KeepsFlags(c, r.conn)
    BY <1>1, FeedKeepsFlags
  <1>10. PingsDue(r.conn, FedBy(u, x, r)) = PingsDue(c, u) \o r.conn.pending_pong
    BY <1>1, KnownPings
  <1> QED
    BY <1>3, <1>4, <1>5, <1>7, <1>8, <1>9, <1>10, Zenon DEF HasFed

-----------------------------------------------------------------------------
(* Writing a part *)

\* b differs from a in the connection, the transmit buffer and the results.
Alike(a, b) ==
    /\ b.greeting_buf = a.greeting_buf /\ b.greeting_done = a.greeting_done
    /\ b.rx = a.rx /\ b.fed = a.fed
    /\ b.sock.rx = a.sock.rx /\ b.sock.state = a.sock.state

\* Whatever keeps write_all from writing, the socket is not usable after it.
LEMMA WriteAllFacts ==
    ASSUME NEW a, IsApp(a), a.ended = "no", NEW p, NEW b, b = WriteAll(a, p)
    PROVE  /\ IsApp(b) /\ Alike(a, b) /\ b.conn = a.conn
           /\ \/ ~Open(b) /\ b.sock.tx = a.sock.tx /\ ~(b.ended = "no" /\ b.res = "Ok")
              \/ /\ Open(a) /\ Open(b) /\ b.ended = "no" /\ b.res = "Ok"
                 /\ b.sock.tx = Append(a.sock.tx, p)
  <1>1. CASE a.sock.state # "open"
    <2>1. b = [a EXCEPT !.res = "Err"]
      BY <1>1 DEF WriteAll
    <2> QED
      BY <1>1, <2>1 DEF IsApp, AppFields, Alike, Open
  <1>2. CASE a.sock.state = "open" /\ Len(a.sock.tx) = TX_RING
    <2>1. b = [a EXCEPT !.ended = "panic"]
      BY <1>2 DEF WriteAll
    <2> QED
      BY <1>2, <2>1 DEF IsApp, AppFields, Alike, Open
  <1>3. CASE a.sock.state = "open" /\ Len(a.sock.tx) # TX_RING
    <2>1. b = [a EXCEPT !.res = "Ok", !.sock.tx = Append(@, p)]
      BY <1>3 DEF WriteAll
    <2>2. PICK q : q = [a.sock EXCEPT !.tx = Append(@, p)]
      OBVIOUS
    <2>3. /\ DOMAIN q = {"state", "rx", "tx"} /\ q.state = a.sock.state /\ q.rx = a.sock.rx
          /\ q.tx = Append(a.sock.tx, p)
      BY <2>2 DEF IsApp
    <2>4. /\ DOMAIN b = AppFields /\ b.sock = q /\ b.res = "Ok" /\ b.ended = a.ended
          /\ b.conn = a.conn /\ b.greeting_buf = a.greeting_buf /\ b.greeting_done = a.greeting_done
          /\ b.rx = a.rx /\ b.fed = a.fed
      BY <2>1, <2>2 DEF IsApp, AppFields
    <2> QED
      BY <1>3, <2>3, <2>4 DEF IsApp, Alike, Open
  <1> QED
    BY <1>1, <1>2, <1>3

\* The connection c may take the place of a's when p is written, with k parts of
\* a message before it.
Rewrites(a, o, k, c, p) ==
    /\ IsPub(c, Units) /\ c.mechanism = "Null" /\ Knows(c, a.fed) /\ Decided(c)
    /\ RefusesPeer(a.conn) => RefusesPeer(c)
    /\ c.our_greeting_sent = a.conn.our_greeting_sent
    /\ PingsDue(c, a.fed) = PingsDue(a.conn, a.fed)
    /\ IF p.what = "PONG" THEN a.conn.pending_pong = p.arg /\ c.pending_pong = <<>>
       ELSE c.pending_pong = a.conn.pending_pong
    /\ Open(a) =>
          /\ Follows(k, p) /\ InPlace(Len(o.items) + Len(a.sock.tx) + 1, p.what)
          /\ c.our_ready_sent /\ Len(o.items) + Len(a.sock.tx) >= 1

\* The PONGs, those written and the pending one, after a part is written.
LEMMA PongsAfter ==
    ASSUME NEW o, Seen(o), NEW k, NEW a, Typed(a), Queued(a, o, k), Open(a),
           NEW c, NEW p \in Parts, Rewrites(a, o, k, c, p)
    PROVE  Due(Append(a.sock.tx, p), o, c, a.fed)
  <1>1. PICK t \in Seq(Parts) : t = a.sock.tx
    BY DEF Typed
  <1>2. PICK s : s = PongsIn(o.items \o t)
    OBVIOUS
  <1>3. /\ PongsIn(o.items \o t) \in Seq({e.arg[1] : e \in Parts})
    <2>1. \A v \in Seq(Parts) : v \o t \in Seq(Parts)
      OBVIOUS
    <2>2. o.items \o t \in Seq(Parts)
      BY <2>1 DEF Seen
    <2> QED
      BY <2>2, PongsInType
  <1>4. s \o a.conn.pending_pong = PingsDue(c, a.fed)
    BY <1>1, <1>2 DEF Queued, Rewrites, Due
  <1>5. PongsIn(o.items \o Append(t, p)) = IF p.what = "PONG" THEN Append(s, p.arg[1]) ELSE s
    <2>1. GoesOn(t, o, k) /\ Follows(k, p) /\ InPlace(Len(o.items) + Len(t) + 1, p.what)
      BY <1>1 DEF Queued, Rewrites
    <2> QED
      BY <1>2, <2>1, QueueMore
  <1>6. CASE p.what # "PONG"
    <2>1. c.pending_pong = a.conn.pending_pong
      BY <1>6 DEF Rewrites
    <2> QED
      BY <1>1, <1>4, <1>5, <1>6, <2>1 DEF Due
  <1>7. CASE p.what = "PONG"
    <2>1. PICK z : p.arg = <<z>> /\ z = p.arg[1]
      BY <1>7, PartFacts
    <2>2. a.conn.pending_pong = <<z>> /\ c.pending_pong = <<>>
      BY <1>7, <2>1 DEF Rewrites
    <2>3. z \in {e.arg[1] : e \in Parts}
      BY <2>1
    <2>4. PICK T : T = {e.arg[1] : e \in Parts}
      OBVIOUS
    <2>5. s \in Seq(T) /\ z \in T
      BY <1>2, <1>3, <2>3, <2>4
    <2>6. s \o <<z>> = Append(s, z) /\ Append(s, z) \o <<>> = Append(s, z)
      BY <2>5
    <2> QED
      BY <1>1, <1>4, <1>5, <1>7, <2>1, <2>2, <2>6 DEF Due
  <1> QED
    BY <1>6, <1>7

\* A part is written, or the socket is not usable any more.
LEMMA PartWritten ==
    ASSUME NEW o, Seen(o), NEW n, NEW w, NEW k, NEW a, AppAt(a, o, n, w, k), a.ended = "no",
           a.greeting_done, NEW d, IsApp(d), Alike(a, d), d.ended = "no", d.sock = a.sock,
           NEW p \in Parts, Rewrites(a, o, k, d.conn, p), NEW b, b = WriteAll(d, p)
    PROVE  AppAt(b, o, n, w, After(p)) /\ b.conn = d.conn /\ b.greeting_done
  <1>1. /\ IsApp(b) /\ Alike(d, b) /\ b.conn = d.conn
        /\ \/ ~Open(b) /\ b.sock.tx = d.sock.tx
           \/ Open(d) /\ Open(b) /\ b.sock.tx = Append(d.sock.tx, p)
    BY WriteAllFacts
  <1>2. Alike(a, b) /\ b.greeting_done
    BY <1>1 DEF Alike
  <1>3. Append(a.sock.tx, p) \in Seq(Parts) /\ a.sock.tx \in Seq(Parts) /\ Len(a.sock.tx) \in Nat
        /\ Len(Append(a.sock.tx, p)) = Len(a.sock.tx) + 1
    <2>1. \A t \in Seq(Parts) : /\ Append(t, p) \in Seq(Parts) /\ Len(t) \in Nat
                                /\ Len(Append(t, p)) = Len(t) + 1
      OBVIOUS
    <2> QED
      BY <2>1 DEF AppAt, Typed
  <1>4. Typed(b)
    <2>1. Typed(a)
      BY DEF AppAt
    <2> QED
      BY <1>1, <1>2, <1>3, <2>1 DEF Typed, Alike, Rewrites
  <1>5. Knows(b.conn, b.fed) /\ Decided(b.conn)
    BY <1>1, <1>2 DEF Alike, Rewrites
  <1>6. Kept(b, n, w)
    BY <1>1, <1>2 DEF AppAt, Kept, Alike, Rewrites
  <1>7. Begun(b, o)
    <2>1. Begun(a, o)
      BY DEF AppAt
    <2> QED
      BY <1>1, <1>2, <2>1 DEF Begun, Alike, Rewrites
  <1>8. ASSUME Open(b) PROVE Queued(b, o, After(p))
    <2>1. Open(a) /\ b.sock.tx = Append(a.sock.tx, p)
      BY <1>1, <1>8 DEF Open, Alike
    <2>2. GoesOn(a.sock.tx, o, k) /\ Follows(k, p) /\ InPlace(Len(o.items) + Len(a.sock.tx) + 1, p.what)
      BY <2>1 DEF AppAt, Queued, Rewrites
    <2>3. GoesOn(b.sock.tx, o, After(p))
      BY <1>3, <2>1, <2>2, QueueMore
    <2>4. Due(b.sock.tx, o, b.conn, b.fed)
      <3>1. Typed(a) /\ Queued(a, o, k)
        BY DEF AppAt
      <3>2. Due(Append(a.sock.tx, p), o, d.conn, a.fed)
        BY <2>1, <3>1, PongsAfter
      <3> QED
        BY <1>1, <1>2, <2>1, <3>2 DEF Alike
    <2>5. Marks(b, Len(o.items) + Len(b.sock.tx))
      <3>1. Len(o.items) \in Nat
        BY DEF Seen
      <3>2. d.conn.our_ready_sent /\ Len(o.items) + Len(a.sock.tx) >= 1
        BY <2>1 DEF Rewrites
      <3>3. Len(o.items) + Len(b.sock.tx) >= 2 /\ Len(o.items) + Len(b.sock.tx) >= 1
        <4>1. \A i, j, m \in Nat : m = j + 1 /\ i + j >= 1 => i + m >= 2 /\ i + m >= 1
          OBVIOUS
        <4>2. Len(b.sock.tx) = Len(a.sock.tx) + 1 /\ Len(b.sock.tx) \in Nat
          BY <1>3, <2>1
        <4> QED
          BY <1>3, <3>1, <3>2, <4>1, <4>2
      <3> QED
        BY <1>1, <1>2, <3>2, <3>3 DEF Marks
    <2> QED
      BY <2>3, <2>4, <2>5 DEF Queued
  <1>9. Queued(b, o, After(p))
    BY <1>8 DEF Queued
  <1> QED
    BY <1>1, <1>2, <1>4, <1>5, <1>6, <1>7, <1>9 DEF AppAt

-----------------------------------------------------------------------------
(* The output methods, as the loop calls them *)

\* The output methods leave alone what the peer's units have made.
Steady(c, d) ==
    /\ d.mechanism = c.mechanism /\ d.state = c.state /\ d.greeting_buf = c.greeting_buf
    /\ d.frame_decoder = c.frame_decoder /\ d.peer_version_minor = c.peer_version_minor

\* Such a change is none for the peer.
LEMMA SteadyFacts ==
    ASSUME NEW c, NEW d, Steady(c, d), NEW u
    PROVE  /\ RefusesPeer(d) <=> RefusesPeer(c)
           /\ Decided(c) => Decided(d)
           /\ PingsDue(d, u) = PingsDue(c, u)
  BY DEF Steady, RefusesPeer, Decided, PingsDue

\* What one of the output methods returns.
Writes(c, r) ==
    \/ r = WriteGreeting(c, TRUE)
    \/ r = WriteReady(c, TRUE)
    \/ r = WritePong(c, TRUE)

\* Their effect.
LEMMA WritesFields ==
    ASSUME NEW c, IsPub(c, Units), NEW r, Writes(c, r)
    PROVE  Steady(c, r.conn) /\ DOMAIN r.conn = DOMAIN c
  <1>1. ConnFields \subseteq DOMAIN c
    BY DEF IsPub, IsConn
  <1>2. CASE r = WriteGreeting(c, TRUE)
    BY <1>1, <1>2 DEF WriteGreeting, Ok, Err, Steady, ConnFields
  <1>3. CASE r = WriteReady(c, TRUE)
    BY <1>1, <1>3 DEF WriteReady, Ok, Err, Steady, ConnFields
  <1>4. CASE r = WritePong(c, TRUE)
    BY <1>1, <1>4 DEF WritePong, Ok, Err, Steady, ConnFields
  <1> QED
    BY <1>2, <1>3, <1>4 DEF Writes

\* They keep what is known of the connection.
LEMMA WritesKnow ==
    ASSUME NEW c, IsPub(c, Units), NEW u, Knows(c, u), NEW r, Writes(c, r)
    PROVE  IsPub(r.conn, Units) /\ Knows(r.conn, u)
  <1>1. IsConn(c, Units) /\ TRUE \in BOOLEAN
    BY DEF IsPub
  <1>2. ASSUME NEW rej \in BOOLEAN, FedInv(c, u, rej, PubTypes)
        PROVE  IsConn(r.conn, Units) /\ FedInv(r.conn, u, rej, PubTypes)
    <2>1. CASE r = WriteGreeting(c, TRUE)
      BY <1>1, <1>2, <2>1, WriteGreetingInv
    <2>2. CASE r = WriteReady(c, TRUE)
      BY <1>1, <1>2, <2>2, WriteReadyInv
    <2>3. CASE r = WritePong(c, TRUE)
      BY <1>1, <1>2, <2>3, WritePongInv
    <2> QED
      BY <2>1, <2>2, <2>3 DEF Writes
  <1>3. IsConn(r.conn, Units) /\ Knows(r.conn, u)
    BY <1>2 DEF Knows
  <1>4. DOMAIN r.conn = DOMAIN c
    BY WritesFields
  <1> QED
    BY <1>3, <1>4 DEF IsPub

-----------------------------------------------------------------------------
(* The steps of a round *)

\* Before the first unit there is no PING.
LEMMA NoPings ==
    ASSUME NEW c, c.mechanism = "Null"
    PROVE  PingsDue(c, <<>>) = <<>>
  <1>0. <<>> \in Seq(Units) /\ Len(<<>>) = 0
    OBVIOUS
  <1>1. PICK u \in Seq(Units) : u = <<>> /\ Len(u) = 0
    BY <1>0, Zenon
  <1>2. Len(u) < GREETING_LEN + FRAME_LEN
    BY <1>1 DEF GREETING_LEN, FRAME_LEN
  <1>3. Len(FramesIn(u)) = 0
    BY <1>1, <1>2, FramesInNone
  <1>4. Len(FramesIn(u)) <= HandshakeFrames("Null")
    BY <1>3 DEF HandshakeFrames
  <1>5. TrafficIn("Null", u) = <<>>
    BY <1>4, TrafficNone
  <1> QED
    BY <1>1, <1>5, PingsInNone DEF PingsDue

\* Before the first unit the connection waits for the greeting.
LEMMA NothingFed ==
    ASSUME NEW c, Knows(c, <<>>)
    PROVE  c.state = "Greeting" /\ ~c.our_ready_sent /\ c.pending_pong = <<>>
  <1>1. Len(<<>>) = 0
    OBVIOUS
  <1> QED
    BY <1>1 DEF Knows, FedInv, Greeted, Greets, GREETING_LEN

\* The two parts of SendGreeting: to encode the greeting, and to note that it is
\* written.
Encoded(a) ==
    IF a.greeting_buf THEN a
    ELSE IF WriteGreeting(a.conn, TRUE).res # "Ok" THEN [a EXCEPT !.ended = "error"]
    ELSE [a EXCEPT !.conn = WriteGreeting(a.conn, TRUE).conn, !.greeting_buf = TRUE]
Noted(e) == [e EXCEPT !.greeting_done = (e.ended = "no" /\ e.res = "Ok")]

\* SendGreeting is made of them.
LEMMA SendGreetingParts ==
    ASSUME NEW a
    PROVE  SendGreeting(a) = IF a.greeting_done THEN a
                             ELSE Noted(WriteAll(Encoded(a), Part("GREETING", <<>>)))
  BY DEF SendGreeting, Encoded, Noted

\* Our greeting is in its buffer, and nothing else has happened.
LEMMA GreetingEncoded ==
    ASSUME NEW a, NEW o, Typed(a), Knows(a.conn, a.fed), Decided(a.conn), Begun(a, o), ~a.greeting_done,
           NEW d, d = Encoded(a)
    PROVE  /\ IsApp(d) /\ d.sock = a.sock /\ d.rx = a.rx /\ d.fed = a.fed /\ d.ended = a.ended
           /\ ~d.greeting_done /\ d.greeting_buf = TRUE
           /\ IsPub(d.conn, Units) /\ d.conn.mechanism = "Null" /\ Knows(d.conn, d.fed)
           /\ Decided(d.conn) /\ (RefusesPeer(a.conn) => RefusesPeer(d.conn))
           /\ d.conn.our_greeting_sent = TRUE
  <1>1. CASE a.greeting_buf
    BY <1>1 DEF Typed, Begun, Encoded
  <1>2. CASE ~a.greeting_buf
    <2>1. a.fed = <<>> /\ ~a.conn.our_greeting_sent
      BY <1>2 DEF Begun
    <2>2. a.conn.state = "Greeting"
      BY <2>1, NothingFed
    <2>3. PICK r : r = WriteGreeting(a.conn, TRUE)
      OBVIOUS
    <2>4. ConnFields \subseteq DOMAIN a.conn
      BY DEF Typed, IsPub, IsConn
    <2>5. r.res = "Ok" /\ r.conn.our_greeting_sent = TRUE
      BY <2>1, <2>2, <2>3, <2>4 DEF WriteGreeting, Ok, ConnFields
    <2>6. d = [a EXCEPT !.conn = r.conn, !.greeting_buf = TRUE]
      BY <1>2, <2>3, <2>5 DEF Encoded
    <2>7. /\ IsApp(d) /\ d.sock = a.sock /\ d.rx = a.rx /\ d.fed = a.fed /\ d.ended = a.ended
          /\ d.greeting_done = a.greeting_done /\ d.greeting_buf = TRUE /\ d.conn = r.conn
      BY <2>6 DEF Typed, IsApp, AppFields
    <2>8. IsPub(a.conn, Units) /\ a.conn.mechanism = "Null"
      BY DEF Typed
    <2>9. Writes(a.conn, r)
      BY <2>3 DEF Writes
    <2>10. Steady(a.conn, r.conn) /\ IsPub(r.conn, Units) /\ Knows(r.conn, a.fed)
      BY <2>8, <2>9, WritesFields, WritesKnow
    <2>11. Decided(r.conn) /\ (RefusesPeer(a.conn) => RefusesPeer(r.conn)) /\ r.conn.mechanism = "Null"
      BY <2>8, <2>10, SteadyFacts DEF Steady
    <2> QED
      BY <2>5, <2>7, <2>10, <2>11
  <1> QED
    BY <1>1, <1>2

\* The greeting is the first part of the queue.
LEMMA GreetingQueued ==
    ASSUME NEW o, Seen(o), o.items = <<>>, o.part = 0, NEW t, t = Append(<<>>, Part("GREETING", <<>>)),
           NEW c, c.mechanism = "Null", c.pending_pong = <<>>
    PROVE  /\ t \in Seq(Parts) /\ GoesOn(t, o, 0) /\ Len(o.items) + Len(t) = 1
           /\ Due(t, o, c, <<>>)
  <1>1. PICK p \in Parts : p = Part("GREETING", <<>>) /\ p.what = "GREETING"
    BY PartsWritten
  <1>2. <<>> \in Seq(Parts) /\ Len(<<>>) = 0 /\ DOMAIN <<>> = {} /\ <<>> \o <<>> = <<>>
    OBVIOUS
  <1>3. PICK e \in Seq(Parts) : e = <<>> /\ Len(e) = 0
    BY <1>2, Zenon
  <1>4. Train(0, <<>>) /\ AtEnd(0, <<>>) = 0
    BY DEF Train, AtEnd
  <1>5. GoesOn(e, o, 0)
    BY <1>2, <1>3, <1>4 DEF GoesOn
  <1>6. Follows(0, p) /\ After(p) = 0
    BY <1>1 DEF Follows, After
  <1>7. Len(o.items) + Len(e) + 1 = 1
    BY <1>2, <1>3
  <1>8. InPlace(Len(o.items) + Len(e) + 1, p.what)
    BY <1>1, <1>7 DEF InPlace
  <1>9. /\ Append(e, p) \in Seq(Parts) /\ Len(Append(e, p)) = Len(e) + 1
        /\ GoesOn(Append(e, p), o, After(p))
        /\ PongsIn(o.items \o Append(e, p)) = PongsIn(o.items \o e)
    BY <1>1, <1>5, <1>6, <1>8, QueueMore
  <1>10. t = Append(e, p)
    BY <1>1, <1>3
  <1>11. PongsIn(o.items \o t) = <<>>
    BY <1>2, <1>3, <1>9, <1>10, PongsInNone
  <1>12. Due(t, o, c, <<>>)
    BY <1>2, <1>11, NoPings DEF Due
  <1>13. Len(o.items) + Len(t) = 1
    BY <1>2, <1>3, <1>9, <1>10
  <1> QED
    BY <1>6, <1>9, <1>10, <1>12, <1>13

\* The first step: our greeting is in the socket if that is open.
LEMMA SendGreetingStep ==
    ASSUME NEW o, Seen(o), NEW n, NEW w, NEW a, AppAt(a, o, n, w, 0), Idle(a.conn), a.ended = "no",
           NEW b, b = SendGreeting(a)
    PROVE  /\ AppAt(b, o, n, w, 0)
           /\ b.ended = "no" => Idle(b.conn)
           /\ Started(b)
  <1>1. CASE a.greeting_done
    BY <1>1 DEF SendGreeting, Started
  <1>2. CASE ~a.greeting_done
    <2>1. Typed(a) /\ Knows(a.conn, a.fed) /\ Decided(a.conn) /\ Begun(a, o) /\ Kept(a, n, w)
      BY DEF AppAt
    <2>2. PICK d : d = Encoded(a)
      OBVIOUS
    <2>3. /\ IsApp(d) /\ d.sock = a.sock /\ d.rx = a.rx /\ d.fed = a.fed /\ d.ended = "no"
          /\ ~d.greeting_done /\ d.greeting_buf = TRUE
          /\ IsPub(d.conn, Units) /\ d.conn.mechanism = "Null" /\ Knows(d.conn, d.fed)
          /\ Decided(d.conn) /\ (RefusesPeer(a.conn) => RefusesPeer(d.conn))
          /\ d.conn.our_greeting_sent = TRUE
      BY <1>2, <2>1, <2>2, GreetingEncoded
    <2>4. PICK e : e = WriteAll(d, Part("GREETING", <<>>))
      OBVIOUS
    <2>5. b = [e EXCEPT !.greeting_done = (e.ended = "no" /\ e.res = "Ok")]
      <3>1. b = Noted(e)
        BY <1>2, <2>2, <2>4, SendGreetingParts, Zenon
      <3> QED
        BY <3>1 DEF Noted
    <2>6. /\ IsApp(e) /\ Alike(d, e) /\ e.conn = d.conn
          /\ \/ ~Open(e) /\ e.sock.tx = d.sock.tx /\ ~(e.ended = "no" /\ e.res = "Ok")
             \/ /\ Open(d) /\ Open(e) /\ e.ended = "no" /\ e.res = "Ok"
                /\ e.sock.tx = Append(d.sock.tx, Part("GREETING", <<>>))
      <3>1. IsApp(d) /\ d.ended = "no"
        BY <2>3
      <3> QED
        BY <2>4, <3>1, WriteAllFacts, SMTT(20)
    <2>7. /\ IsApp(b) /\ b.conn = d.conn /\ b.sock = e.sock /\ b.rx = a.rx /\ b.fed = a.fed
          /\ b.greeting_buf = TRUE /\ b.ended = e.ended /\ b.sock.rx = a.sock.rx
          /\ b.sock.state = a.sock.state /\ b.greeting_done = (e.ended = "no" /\ e.res = "Ok")
      BY <2>3, <2>5, <2>6 DEF IsApp, AppFields, Alike
    <2>8. /\ a.rx = <<>> /\ a.sock.rx = <<>> /\ a.fed = <<>> /\ a.sock.tx = <<>>
          /\ o.items = <<>> /\ o.part = 0
      BY <1>2, <2>1 DEF Begun
    <2>9. d.conn.state = "Greeting" /\ ~d.conn.our_ready_sent /\ d.conn.pending_pong = <<>>
      BY <2>3, <2>8, NothingFed
    <2>10. Kept(b, n, w)
      BY <2>1, <2>3, <2>7 DEF Kept
    <2>11. Idle(b.conn)
      BY <2>7, <2>9 DEF Idle
    <2>12. CASE ~Open(e) /\ e.sock.tx = d.sock.tx /\ ~(e.ended = "no" /\ e.res = "Ok")
      <3>1. ~b.greeting_done /\ b.greeting_done \in BOOLEAN /\ ~Open(b) /\ b.sock.tx = <<>>
        BY <2>3, <2>7, <2>8, <2>12 DEF Open
      <3>2. Typed(b)
        BY <2>1, <2>3, <2>7, <2>8, <3>1 DEF Typed
      <3>3. Begun(b, o)
        BY <2>3, <2>7, <2>8, <3>1 DEF Begun
      <3>4. Queued(b, o, 0)
        BY <3>1 DEF Queued
      <3> QED
        BY <2>3, <2>7, <2>10, <2>11, <3>1, <3>2, <3>3, <3>4 DEF AppAt, Started
    <2>13. CASE /\ Open(d) /\ Open(e) /\ e.ended = "no" /\ e.res = "Ok"
                /\ e.sock.tx = Append(d.sock.tx, Part("GREETING", <<>>))
      <3>1. b.greeting_done = TRUE /\ b.sock.tx = Append(<<>>, Part("GREETING", <<>>))
            /\ b.sock.state = "open"
        BY <2>3, <2>7, <2>8, <2>13 DEF Open
      <3>2. /\ b.sock.tx \in Seq(Parts) /\ GoesOn(b.sock.tx, o, 0)
            /\ Len(o.items) + Len(b.sock.tx) = 1 /\ Due(b.sock.tx, o, b.conn, <<>>)
        BY <2>3, <2>7, <2>8, <2>9, <3>1, GreetingQueued
      <3>3. Typed(b)
        BY <2>1, <2>3, <2>7, <3>1, <3>2 DEF Typed
      <3>4. Begun(b, o)
        BY <2>3, <2>7, <3>1 DEF Begun
      <3>5. Marks(b, 1)
        BY <2>7, <2>9, <3>1 DEF Marks
      <3>6. Queued(b, o, 0)
        BY <2>7, <2>8, <3>2, <3>5 DEF Queued
      <3> QED
        BY <2>3, <2>7, <2>10, <2>11, <3>1, <3>3, <3>4, <3>6 DEF AppAt, Started
    <2> QED
      BY <2>6, <2>12, <2>13
  <1> QED
    BY <1>1, <1>2

\* x with s at its end, and z, hold what x and y do.
SameUnits(f, x, y, n, s, z) == f \o (x \o s) \o z \o n = f \o x \o y \o n

\* Units move from the socket to rx_buf, in their order.
LEMMA ReadKeeps ==
    ASSUME NEW f \in Seq(Units), NEW x \in Seq(Units), NEW y \in Seq(Units), NEW k \in 0 .. Len(y), NEW n
    PROVE  SameUnits(f, x, y, n, SubSeq(y, 1, k), SubSeq(y, k + 1, Len(y)))
  <1>1. PICK s \in Seq(Units) : s = SubSeq(y, 1, k)
    BY RestType
  <1>2. (f \o x) \o s = f \o (x \o s) /\ f \o x \in Seq(Units)
    <2>1. (f \o x) \o s = f \o (x \o s)
      BY ThreeParts, SMTT(30)
    <2>2. f \o x \in Seq(Units)
      OBVIOUS
    <2> QED
      BY <2>1, <2>2
  <1>3. ((f \o x) \o SubSeq(y, 1, k)) \o SubSeq(y, k + 1, Len(y)) = (f \o x) \o y
    BY <1>2, ReadMore
  <1> QED
    BY <1>1, <1>2, <1>3, Zenon DEF SameUnits

\* The second step: what the socket has received is read, as much as rx_buf takes.
LEMMA ReadSomeStep ==
    ASSUME NEW o, NEW n, NEW w, NEW a, AppAt(a, o, n, w, 0), NEW b, b = ReadSome(a)
    PROVE  /\ AppAt(b, o, n, w, 0) /\ b.conn = a.conn /\ b.ended = a.ended
           /\ Started(a) => Started(b)
  <1>1. Typed(a) /\ Knows(a.conn, a.fed) /\ Decided(a.conn) /\ Begun(a, o) /\ Kept(a, n, w)
        /\ Queued(a, o, 0)
    BY DEF AppAt
  <1>2. PICK y \in Seq(Units) : y = a.sock.rx
    BY <1>1 DEF Typed
  <1>3. PICK x \in Seq(Units) : x = a.rx /\ Len(x) <= RX_CAP
    BY <1>1 DEF Typed
  <1>4. PICK k : k = SmallerOf(Len(y), RX_CAP - Len(x))
    OBVIOUS
  <1>5. k \in 0 .. Len(y) /\ Len(x) + k <= RX_CAP
    <2>1. RX_CAP \in Nat /\ Len(x) \in Nat /\ Len(y) \in Nat
      BY SmoltcpAssumption
    <2> QED
      <3>1. \A i, j, m \in Nat :
                j <= m => SmallerOf(i, m - j) \in 0 .. i /\ j + SmallerOf(i, m - j) <= m
        BY DEF SmallerOf
      <3> QED
        BY <1>3, <1>4, <2>1, <3>1
  <1>6. PICK q : q = [a.sock EXCEPT !.rx = SubSeq(@, k + 1, Len(@))]
    OBVIOUS
  <1>7. DOMAIN q = {"state", "rx", "tx"} /\ q.state = a.sock.state /\ q.tx = a.sock.tx
        /\ q.rx = SubSeq(y, k + 1, Len(y))
    BY <1>1, <1>2, <1>6 DEF Typed, IsApp
  <1>8. b = [a EXCEPT !.rx = x \o SubSeq(y, 1, k), !.sock = q]
    BY <1>1, <1>2, <1>3, <1>4, <1>6 DEF ReadSome, Typed, IsApp, AppFields
  <1>9. /\ IsApp(b) /\ b.conn = a.conn /\ b.greeting_buf = a.greeting_buf
        /\ b.greeting_done = a.greeting_done /\ b.ended = a.ended /\ b.fed = a.fed
        /\ b.sock = q /\ b.rx = x \o SubSeq(y, 1, k)
    BY <1>1, <1>7, <1>8 DEF Typed, IsApp, AppFields
  <1>10. x \o SubSeq(y, 1, k) \in Seq(Units) /\ Len(x \o SubSeq(y, 1, k)) = Len(x) + k
         /\ SubSeq(y, k + 1, Len(y)) \in Seq(Units)
    BY <1>5
  <1>11. Typed(b)
    BY <1>1, <1>5, <1>7, <1>9, <1>10 DEF Typed
  <1>12. Kept(b, n, w)
    <2>1. PICK f \in Seq(Units) : f = a.fed
      BY <1>1 DEF Typed
    <2>1a. PICK s, z : s = SubSeq(y, 1, k) /\ z = SubSeq(y, k + 1, Len(y))
      OBVIOUS
    <2>2. f \o (x \o s) \o z \o n = f \o x \o y \o n
      <3>1. k \in 0 .. Len(y)
        BY <1>5
      <3>2. SameUnits(f, x, y, n, SubSeq(y, 1, k), SubSeq(y, k + 1, Len(y)))
        BY <3>1, ReadKeeps
      <3> QED
        BY <2>1a, <3>2, Zenon DEF SameUnits
    <2>3. RefusesPeer(a.conn) \/ f \o x \o y \o n = w
      BY <1>1, <1>2, <1>3, <2>1 DEF Kept
    <2>4. RefusesPeer(b.conn) \/ f \o b.rx \o b.sock.rx \o n = w
      BY <1>7, <1>9, <2>1a, <2>2, <2>3, Zenon
    <2> QED
      BY <1>9, <2>1, <2>4 DEF Kept
  <1>13. Queued(b, o, 0)
    BY <1>1, <1>7, <1>9 DEF Queued, Open, Marks
  <1>14. Begun(b, o)
    <2>1. ASSUME ~a.greeting_done PROVE b.rx = <<>> /\ b.sock.rx = <<>>
      <3>1. x = <<>> /\ y = <<>>
        BY <1>1, <1>2, <1>3, <2>1 DEF Begun
      <3>2. Len(y) = 0 /\ k = 0
        BY <1>5, <3>1
      <3>3. SubSeq(y, 1, k) = <<>> /\ SubSeq(y, k + 1, Len(y)) = <<>> /\ <<>> \o <<>> = <<>>
        BY <3>2
      <3> QED
        BY <1>7, <1>9, <3>1, <3>3
    <2> QED
      BY <1>1, <1>7, <1>9, <2>1 DEF Begun
  <1> QED
    BY <1>1, <1>7, <1>9, <1>11, <1>12, <1>13, <1>14 DEF AppAt, Started, Open

\* The third step: feed takes what it can, and more only if it refuses.
LEMMA FeedOnceStep ==
    ASSUME NEW o, Seen(o), NEW n, NEW w, NEW a, AppAt(a, o, n, w, 0), Idle(a.conn), NEW b, b = FeedOnce(a)
    PROVE  AppAt(b, o, n, w, 0) /\ b.ended = a.ended /\ (Started(a) => Started(b))
  <1>1. CASE a.rx = <<>>
    BY <1>1 DEF FeedOnce
  <1>2. CASE a.rx # <<>>
    <2>1. Typed(a) /\ Knows(a.conn, a.fed) /\ Decided(a.conn) /\ Begun(a, o) /\ Kept(a, n, w)
          /\ Queued(a, o, 0)
      BY DEF AppAt
    <2>2. PICK x \in Seq(Units) : x = a.rx /\ Len(x) <= RX_CAP
      BY <2>1 DEF Typed
    <2>3. PICK u \in Seq(Units) : u = a.fed
      BY <2>1 DEF Typed
    <2>4. PICK c : c = a.conn
      OBVIOUS
    <2>5. a.greeting_done /\ c.our_greeting_sent
      BY <1>2, <2>1, <2>4 DEF Begun
    <2>6. /\ IsPub(c, Units) /\ c.mechanism = "Null" /\ c.pending_pong = <<>> /\ Decided(c)
          /\ (c.state = "Ready" => c.our_ready_sent) /\ Knows(c, u)
      BY <2>1, <2>3, <2>4 DEF Typed, Idle
    <2>7. PICK r : r = FeedConn(c, x)
      OBVIOUS
    <2>8. PICK v : v = u \o SubSeq(x, 1, r.n)
      OBVIOUS
    <2>9. /\ Eats(c, x, r) /\ IsPub(r.conn, Units) /\ KeepsFlags(c, r.conn)
          /\ v \in Seq(Units) /\ Knows(r.conn, v)
          /\ PingsDue(r.conn, v) = PingsDue(c, u) \o r.conn.pending_pong
      <3>1. MayFeed(c, u) /\ x # <<>>
        BY <1>2, <2>2, <2>5, <2>6 DEF MayFeed
      <3>2. HasFed(c, u, x, r, v)
        BY <2>7, <2>8, <3>1, LoopFeeds
      <3> QED
        BY <3>2 DEF HasFed
    <2>10. PICK y : y = IF r.n > 0 THEN SubSeq(x, r.n + 1, Len(x)) ELSE <<>>
      OBVIOUS
    <2>11. b = [a EXCEPT !.conn = r.conn, !.rx = y, !.fed = v]
      <3>1. b = FeedRx(a)
        BY <1>2 DEF FeedOnce
      <3>2. FeedRx(a) =
                [a EXCEPT !.conn = FeedConn(a.conn, a.rx).conn,
                          !.rx = IF FeedConn(a.conn, a.rx).n > 0
                                 THEN SubSeq(@, FeedConn(a.conn, a.rx).n + 1, Len(@)) ELSE <<>>,
                          !.fed = @ \o SubSeq(a.rx, 1, FeedConn(a.conn, a.rx).n)]
        BY Zenon DEF FeedRx
      <3>3. FeedConn(a.conn, a.rx) = r
        BY <2>2, <2>4, <2>7
      <3>4. b = [a EXCEPT !.conn = r.conn,
                          !.rx = IF r.n > 0 THEN SubSeq(@, r.n + 1, Len(@)) ELSE <<>>,
                          !.fed = @ \o SubSeq(a.rx, 1, r.n)]
        BY <3>1, <3>2, <3>3, Zenon
      <3> QED
        BY <2>1, <2>2, <2>3, <2>8, <2>10, <3>4 DEF Typed, IsApp, AppFields
    <2>12. /\ IsApp(b) /\ b.conn = r.conn /\ b.greeting_buf = a.greeting_buf
           /\ b.greeting_done = a.greeting_done /\ b.ended = a.ended /\ b.fed = v
           /\ b.sock = a.sock /\ b.rx = y
      BY <2>1, <2>11 DEF Typed, IsApp, AppFields
    <2>13. y \in Seq(Units) /\ Len(y) <= RX_CAP
      <3>1. r.n \in 0 .. Len(x)
        BY <2>9 DEF Eats
      <3>2. SubSeq(x, r.n + 1, Len(x)) \in Seq(Units) /\ Len(SubSeq(x, r.n + 1, Len(x))) = Len(x) - r.n
        BY <3>1, RestType
      <3>3. <<>> \in Seq(Units) /\ Len(<<>>) = 0 /\ RX_CAP \in Nat /\ Len(x) \in Nat
        BY SmoltcpAssumption
      <3> QED
        BY <2>2, <2>10, <3>1, <3>2, <3>3
    <2>14. Typed(b)
      <3>1. r.conn.mechanism = "Null"
        BY <2>6, <2>9 DEF KeepsFlags
      <3> QED
        BY <2>1, <2>9, <2>12, <2>13, <3>1 DEF Typed
    <2>15. Kept(b, n, w)
      <3>1. CASE RefusesPeer(r.conn)
        BY <2>12, <3>1 DEF Kept
      <3>2. CASE ~RefusesPeer(r.conn)
        <4>1. ~RefusesPeer(c) /\ r.n \in 0 .. Len(x) /\ r.n # 0
          BY <2>9, <3>2 DEF Eats
        <4>2. y = SubSeq(x, r.n + 1, Len(x))
          <5>1. r.n > 0
            BY <4>1
          <5> QED
            BY <2>10, <5>1
        <4>3. (u \o SubSeq(x, 1, r.n)) \o SubSeq(x, r.n + 1, Len(x)) = u \o x
          BY <4>1, ReadMore
        <4>4. u \o x \o a.sock.rx \o n = w
          BY <2>1, <2>2, <2>3, <2>4, <4>1 DEF Kept
        <4>5. v \o y \o a.sock.rx \o n = w
          BY <2>8, <4>2, <4>3, <4>4, Zenon
        <4> QED
          BY <2>12, <4>5 DEF Kept
      <3> QED
        BY <3>1, <3>2
    <2>16. Queued(b, o, 0)
      <3> SUFFICES ASSUME Open(b) PROVE GoesOn(b.sock.tx, o, 0)
                      /\ Marks(b, Len(o.items) + Len(b.sock.tx)) /\ Due(b.sock.tx, o, b.conn, b.fed)
        BY DEF Queued
      <3>1. GoesOn(a.sock.tx, o, 0) /\ Marks(a, Len(o.items) + Len(a.sock.tx)) /\ Due(a.sock.tx, o, c, u)
        BY <2>1, <2>3, <2>4, <2>12 DEF Queued, Open
      <3>2. r.conn.our_ready_sent = c.our_ready_sent
        BY <2>9 DEF KeepsFlags
      <3>3. Marks(b, Len(o.items) + Len(b.sock.tx))
        BY <2>4, <2>12, <3>1, <3>2 DEF Marks
      <3>4. PICK T, g : g = PongsIn(o.items \o a.sock.tx) /\ g \in Seq(T)
        <4>1. \A v1, v2 \in Seq(Parts) : v1 \o v2 \in Seq(Parts)
          OBVIOUS
        <4>2. o.items \o a.sock.tx \in Seq(Parts)
          BY <2>1, <4>1 DEF Seen, Typed
        <4>3. PongsIn(o.items \o a.sock.tx) \in Seq({e.arg[1] : e \in Parts})
          BY <4>2, PongsInType
        <4> QED
          BY <4>3, Zenon
      <3>5. g \o <<>> = g
        BY <3>4
      <3>6. g = PingsDue(c, u)
        BY <2>6, <3>1, <3>4, <3>5 DEF Due
      <3>7. Due(a.sock.tx, o, r.conn, v)
        BY <2>9, <3>4, <3>6 DEF Due
      <3> QED
        BY <2>12, <3>1, <3>3, <3>7
    <2>17. Begun(b, o)
      <3>1. r.conn.our_greeting_sent = c.our_greeting_sent
        BY <2>9 DEF KeepsFlags
      <3> QED
        BY <2>1, <2>4, <2>5, <2>12, <3>1 DEF Begun
    <2> QED
      BY <2>5, <2>9, <2>12, <2>14, <2>15, <2>16, <2>17 DEF AppAt, Eats, Started
  <1> QED
    BY <1>1, <1>2

\* After the greeting of the peer, ours is written.
LEMMA AfterGreeting ==
    ASSUME NEW o, NEW n, NEW w, NEW k, NEW a, AppAt(a, o, n, w, k), a.conn.state # "Greeting"
    PROVE  a.greeting_done
  <1>1. Knows(a.conn, a.fed) /\ Begun(a, o)
    BY DEF AppAt
  <1>2. a.fed # <<>>
    BY <1>1, NothingFed
  <1> QED
    BY <1>1, <1>2 DEF Begun

\* An established connection has said its READY.
LEMMA AfterReady ==
    ASSUME NEW o, NEW n, NEW w, NEW k, NEW a, AppAt(a, o, n, w, k), a.conn.state = "Established", Seen(o)
    PROVE  /\ a.greeting_done /\ a.conn.our_ready_sent
           /\ Open(a) => /\ Len(o.items) + Len(a.sock.tx) >= 1
                         /\ \A what \in {"PONG", "MESSAGE"} :
                               InPlace(Len(o.items) + Len(a.sock.tx) + 1, what)
  <1>1. a.greeting_done
    BY AfterGreeting
  <1>2. a.conn.our_ready_sent
    BY DEF AppAt, Knows, FedInv, Received
  <1>3. ASSUME Open(a)
        PROVE  /\ Len(o.items) + Len(a.sock.tx) >= 1
               /\ \A what \in {"PONG", "MESSAGE"} : InPlace(Len(o.items) + Len(a.sock.tx) + 1, what)
    <2>1. Len(o.items) \in Nat /\ Len(a.sock.tx) \in Nat
      BY DEF AppAt, Typed, Seen
    <2>2. PICK i \in Nat : i = Len(o.items) + Len(a.sock.tx)
      <3>1. \A x, y \in Nat : x + y \in Nat
        OBVIOUS
      <3> QED
        BY <2>1, <3>1, Zenon
    <2>3. i >= 2
      BY <1>2, <1>3, <2>2 DEF AppAt, Queued, Marks
    <2>4. i >= 1 /\ i + 1 # 1 /\ i + 1 # 2
      <3>1. \A j \in Nat : j >= 2 => j >= 1 /\ j + 1 # 1 /\ j + 1 # 2
        OBVIOUS
      <3> QED
        BY <2>3, <3>1, Zenon
    <2> QED
      BY <2>2, <2>4 DEF InPlace
  <1> QED
    BY <1>1, <1>2, <1>3

\* The record in which the connection is replaced.
LEMMA Replaced ==
    ASSUME NEW a, IsApp(a), NEW c, NEW d, d = [a EXCEPT !.conn = c]
    PROVE  IsApp(d) /\ Alike(a, d) /\ d.ended = a.ended /\ d.sock = a.sock /\ d.conn = c
  BY DEF IsApp, AppFields, Alike

\* The fourth step: our READY as soon as the peer's greeting has come.
LEMMA SendReadyStep ==
    ASSUME NEW o, Seen(o), NEW n, NEW w, NEW a, AppAt(a, o, n, w, 0), a.ended = "no",
           NEW b, b = SendReady(a)
    PROVE  /\ AppAt(b, o, n, w, 0) /\ (b.conn.state = "Ready" => b.conn.our_ready_sent)
           /\ Started(a) => Started(b)
  <1>1. Typed(a) /\ Knows(a.conn, a.fed) /\ Decided(a.conn) /\ Queued(a, o, 0)
    BY DEF AppAt
  <1>2. PICK c : c = a.conn
    OBVIOUS
  <1>3. IsApp(a) /\ IsPub(c, Units) /\ c.mechanism = "Null" /\ ConnFields \subseteq DOMAIN c
    BY <1>1, <1>2 DEF Typed, IsPub, IsConn
  <1>4. PICK r : r = WriteReady(c, TRUE)
    OBVIOUS
  <1>5. CASE c.state # "Ready" \/ c.our_ready_sent
    <2>1. c.state = "Ready" => r.res # "Ok"
      BY <1>4, <1>5 DEF WriteReady, Err
    <2>2. b = a
      BY <1>2, <1>4, <2>1 DEF SendReady
    <2> QED
      BY <1>2, <1>5, <2>2
  <1>6. CASE c.state = "Ready" /\ ~c.our_ready_sent
    <2>1. r = Ok([c EXCEPT !.our_ready_sent = TRUE], 1)
      BY <1>3, <1>4, <1>6 DEF WriteReady, MayWriteReady
    <2>2. /\ r.res = "Ok" /\ r.conn.our_ready_sent = TRUE
          /\ r.conn.pending_pong = c.pending_pong /\ r.conn.our_greeting_sent = c.our_greeting_sent
      BY <1>3, <2>1 DEF Ok, ConnFields
    <2>3. PICK d : d = [a EXCEPT !.conn = r.conn]
      OBVIOUS
    <2>4. IsApp(d) /\ Alike(a, d) /\ d.ended = "no" /\ d.sock = a.sock /\ d.conn = r.conn
      BY <1>3, <2>3, Replaced
    <2>5. PICK p \in Parts : p = Part("READY", <<>>) /\ p.what = "READY"
      BY PartsWritten
    <2>6. b = WriteAll(d, p)
      BY <1>2, <1>4, <1>6, <2>2, <2>3, <2>5 DEF SendReady
    <2>7. Writes(c, r)
      BY <1>4 DEF Writes
    <2>8. Steady(c, r.conn) /\ IsPub(r.conn, Units) /\ Knows(r.conn, a.fed)
      BY <1>1, <1>2, <1>3, <2>7, WritesFields, WritesKnow
    <2>9. Decided(r.conn) /\ (RefusesPeer(c) => RefusesPeer(r.conn)) /\ r.conn.mechanism = "Null"
          /\ PingsDue(r.conn, a.fed) = PingsDue(c, a.fed)
      BY <1>1, <1>2, <1>3, <2>8, SteadyFacts DEF Steady
    <2>10. a.greeting_done
      BY <1>2, <1>6, AfterGreeting
    <2>11. ASSUME Open(a) PROVE /\ Follows(0, p) /\ InPlace(Len(o.items) + Len(a.sock.tx) + 1, p.what)
                                /\ Len(o.items) + Len(a.sock.tx) >= 1
      <3>1. Len(o.items) \in Nat /\ Len(a.sock.tx) \in Nat
        BY <1>1 DEF Typed, Seen
      <3>2. PICK i \in Nat : i = Len(o.items) + Len(a.sock.tx)
        <4>1. \A x, y \in Nat : x + y \in Nat
          OBVIOUS
        <4> QED
          BY <3>1, <4>1, Zenon
      <3>3. i >= 1 /\ ~(i >= 2)
        BY <1>1, <1>2, <1>6, <2>10, <2>11, <3>2 DEF Queued, Marks
      <3>4. i + 1 = 2 /\ i >= 1
        <4>1. \A j \in Nat : j >= 1 /\ ~(j >= 2) => j + 1 = 2
          OBVIOUS
        <4> QED
          BY <3>3, <4>1, Zenon
      <3>5. Follows(0, p) /\ InPlace(2, p.what)
        BY <2>5 DEF Follows, InPlace
      <3> QED
        BY <3>2, <3>4, <3>5, Zenon
    <2>12. Rewrites(a, o, 0, d.conn, p)
      BY <1>2, <2>2, <2>4, <2>5, <2>8, <2>9, <2>11 DEF Rewrites
    <2>13. AppAt(b, o, n, w, After(p)) /\ b.conn = d.conn /\ b.greeting_done
      BY <2>4, <2>6, <2>10, <2>12, PartWritten
    <2>14. After(p) = 0
      BY <2>5 DEF After
    <2> QED
      BY <2>2, <2>4, <2>13, <2>14 DEF Started
  <1> QED
    BY <1>5, <1>6

\* The fifth step: the PONG that is pending.
LEMMA SendPongStep ==
    ASSUME NEW o, Seen(o), NEW n, NEW w, NEW a, AppAt(a, o, n, w, 0), a.ended = "no",
           a.conn.state = "Ready" => a.conn.our_ready_sent, NEW b, b = SendPong(a)
    PROVE  AppAt(b, o, n, w, 0) /\ Idle(b.conn) /\ (Started(a) => Started(b))
  <1>1. Typed(a) /\ Knows(a.conn, a.fed) /\ Decided(a.conn) /\ Queued(a, o, 0)
    BY DEF AppAt
  <1>2. PICK c : c = a.conn
    OBVIOUS
  <1>3. IsApp(a) /\ IsPub(c, Units) /\ c.mechanism = "Null" /\ ConnFields \subseteq DOMAIN c
    BY <1>1, <1>2 DEF Typed, IsPub, IsConn
  <1>4. PICK r : r = WritePong(c, TRUE)
    OBVIOUS
  <1>5. CASE c.pending_pong = <<>>
    <2>1. r.n = 0
      BY <1>4, <1>5 DEF WritePong, Ok
    <2>2. b = a
      BY <1>2, <1>4, <2>1 DEF SendPong
    <2> QED
      BY <1>2, <1>5, <2>2 DEF Idle
  <1>6. CASE c.pending_pong # <<>>
    <2>1. r = Ok([c EXCEPT !.pending_pong = <<>>], 1)
      BY <1>4, <1>6 DEF WritePong
    <2>2. /\ r.n = 1 /\ r.conn.pending_pong = <<>>
          /\ r.conn.our_ready_sent = c.our_ready_sent /\ r.conn.our_greeting_sent = c.our_greeting_sent
      BY <1>3, <2>1 DEF Ok, ConnFields
    <2>3. PICK d : d = [a EXCEPT !.conn = r.conn]
      OBVIOUS
    <2>4. IsApp(d) /\ Alike(a, d) /\ d.ended = "no" /\ d.sock = a.sock /\ d.conn = r.conn
      BY <1>3, <2>3, Replaced
    <2>5. PICK z \in ContextsOf(Units) : c.pending_pong = <<z>>
      <3>0. <<>> \in Seq(ContextsOf(Units))
        OBVIOUS
      <3>1. c.pending_pong \in Seq(ContextsOf(Units)) /\ Len(c.pending_pong) <= 1
        BY <1>3 DEF IsPub, IsConn
      <3> QED
        BY <1>6, <3>0, <3>1, PendingFacts
    <2>6. PICK p \in Parts : p = Part("PONG", c.pending_pong) /\ p.what = "PONG" /\ p.arg = c.pending_pong
      BY <2>5, PartsWritten
    <2>7. b = WriteAll(d, p)
      <3>1. SendPong(a) = IF WritePong(a.conn, TRUE).n = 0 THEN a
                          ELSE WriteAll([a EXCEPT !.conn = WritePong(a.conn, TRUE).conn],
                                        Part("PONG", a.conn.pending_pong))
        BY Zenon DEF SendPong
      <3>2. b = IF r.n = 0 THEN a ELSE WriteAll(d, p)
        BY <1>2, <1>4, <2>3, <2>6, <3>1, Zenon
      <3> QED
        BY <2>2, <3>2
    <2>8. Writes(c, r)
      BY <1>4 DEF Writes
    <2>9. Steady(c, r.conn) /\ IsPub(r.conn, Units) /\ Knows(r.conn, a.fed)
      BY <1>1, <1>2, <1>3, <2>8, WritesFields, WritesKnow
    <2>10. Decided(r.conn) /\ (RefusesPeer(c) => RefusesPeer(r.conn)) /\ r.conn.mechanism = "Null"
           /\ PingsDue(r.conn, a.fed) = PingsDue(c, a.fed)
      BY <1>1, <1>2, <1>3, <2>9, SteadyFacts DEF Steady
    <2>11. c.state = "Established"
      BY <1>1, <1>2, <1>6 DEF Knows, FedInv, Received
    <2>12. /\ a.greeting_done /\ c.our_ready_sent
           /\ Open(a) => /\ Len(o.items) + Len(a.sock.tx) >= 1
                         /\ InPlace(Len(o.items) + Len(a.sock.tx) + 1, p.what)
      BY <1>2, <2>6, <2>11, AfterReady
    <2>13. Follows(0, p) /\ After(p) = 0
      BY <2>6 DEF Follows, After
    <2>14. Rewrites(a, o, 0, d.conn, p)
      BY <1>2, <2>2, <2>4, <2>6, <2>9, <2>10, <2>12, <2>13 DEF Rewrites
    <2>15. AppAt(b, o, n, w, After(p)) /\ b.conn = d.conn /\ b.greeting_done
      BY <2>4, <2>7, <2>12, <2>14, PartWritten
    <2>16. Idle(b.conn)
      BY <2>2, <2>4, <2>9, <2>11, <2>15 DEF Idle, Steady
    <2> QED
      BY <2>13, <2>15, <2>16 DEF Started
  <1> QED
    BY <1>5, <1>6

\* A part of a message is written, after the one before it.
LEMMA MessageStep ==
    ASSUME NEW o, Seen(o), NEW n, NEW w, NEW i \in 1 .. 4, NEW k, k + 1 = i,
           NEW a, AppAt(a, o, n, w, k), a.conn.state = "Established",
           NEW b, b = WriteAll(a, MessagePart(i))
    PROVE  AppAt(b, o, n, w, i % 4) /\ b.conn = a.conn /\ b.greeting_done
  <1>1. /\ a.greeting_done /\ a.conn.our_ready_sent
        /\ Open(a) => /\ Len(o.items) + Len(a.sock.tx) >= 1
                      /\ InPlace(Len(o.items) + Len(a.sock.tx) + 1, "MESSAGE")
    BY AfterReady
  <1>2. CASE a.ended # "no"
    <2>1. b = a
      BY <1>2 DEF WriteAll
    <2>2. Queued(a, o, i % 4)
      BY <1>2 DEF Queued, Open
    <2> QED
      BY <1>1, <2>1, <2>2 DEF AppAt
  <1>3. CASE a.ended = "no"
    <2>1. PICK p \in Parts : p = MessagePart(i) /\ p.what = "MESSAGE" /\ p.arg = <<i>> /\ p.arg[1] = i
      BY PartsWritten
    <2>2. Follows(k, p) /\ After(p) = i % 4
      BY <2>1 DEF Follows, After
    <2>3. IsApp(a) /\ Alike(a, a) /\ Typed(a) /\ Knows(a.conn, a.fed) /\ Decided(a.conn)
      BY DEF AppAt, Typed, Alike
    <2>4. Rewrites(a, o, k, a.conn, p)
      BY <1>1, <2>1, <2>2, <2>3 DEF Rewrites, Typed
    <2>5. b = WriteAll(a, p)
      BY <2>1
    <2>6. AppAt(b, o, n, w, After(p)) /\ b.conn = a.conn /\ b.greeting_done
      BY <1>1, <1>3, <2>3, <2>4, <2>5, PartWritten
    <2> QED
      BY <2>2, <2>6
  <1> QED
    BY <1>2, <1>3

\* The last step: a whole message, unless main panics in it.
LEMMA PublishHelloStep ==
    ASSUME NEW o, Seen(o), NEW n, NEW w, NEW a, AppAt(a, o, n, w, 0), NEW b, b = PublishHello(a)
    PROVE  AppAt(b, o, n, w, 0) /\ b.conn = a.conn /\ (Started(a) => Started(b))
  <1>1. PICK r : r = PublishHeaders(a.conn, <<"hello">>)
    OBVIOUS
  <1>2. CASE ~(r.res = "Ok" /\ r.n = 1)
    <2>1. b = a
      BY <1>1, <1>2 DEF PublishHello
    <2> QED
      BY <2>1
  <1>3. CASE r.res = "Ok" /\ r.n = 1
    <2>1. a.conn.state = "Established"
      BY <1>1, <1>3 DEF PublishHeaders, Err
    <2>2. PICK b1 : b1 = WriteAll(a, MessagePart(1))
      OBVIOUS
    <2>3. PICK b2 : b2 = WriteAll(b1, MessagePart(2))
      OBVIOUS
    <2>4. PICK b3 : b3 = WriteAll(b2, MessagePart(3))
      OBVIOUS
    <2>5. b = WriteAll(b3, MessagePart(4))
      BY <1>1, <1>3, <2>2, <2>3, <2>4, Zenon DEF PublishHello
    <2>6. AppAt(b1, o, n, w, 1 % 4) /\ b1.conn = a.conn
      BY <2>1, <2>2, MessageStep
    <2>7. 1 % 4 = 1 /\ 2 % 4 = 2 /\ 3 % 4 = 3 /\ 4 % 4 = 0
      OBVIOUS
    <2>8. AppAt(b2, o, n, w, 2 % 4) /\ b2.conn = a.conn
      BY <2>1, <2>3, <2>6, <2>7, MessageStep
    <2>9. AppAt(b3, o, n, w, 3 % 4) /\ b3.conn = a.conn
      BY <2>1, <2>4, <2>7, <2>8, MessageStep
    <2>10. AppAt(b, o, n, w, 4 % 4) /\ b.conn = a.conn /\ b.greeting_done
      BY <2>1, <2>5, <2>7, <2>9, MessageStep
    <2> QED
      BY <2>7, <2>10 DEF Started
  <1> QED
    BY <1>2, <1>3

\* A round keeps what is known of main's variables, and leaves nothing owed.
LEMMA RoundStep ==
    ASSUME SInv, Round
    PROVE  SInv'
  <1>1. PICK o : o = out
    OBVIOUS
  <1>2. PICK w : w = SubSeq(wire, 1, psent)
    OBVIOUS
  <1>3. Seen(o) /\ AppAt(app, o, net, w, 0) /\ Idle(app.conn) /\ app.ended = "no"
    BY <1>1, <1>2 DEF SInv, Round
  <1>4. PICK a1 \in {SendGreeting(app)} :
        \E a2 \in {Unless(a1, ReadSome(a1))} :
        \E a3 \in {Unless(a2, FeedOnce(a2))} :
        \E a4 \in {Unless(a3, SendReady(a3))} :
        \E a5 \in {Unless(a4, SendPong(a4))} :
           app' = Unless(a5, PublishHello(a5))
    BY Zenon DEF Round
  <1>5. PICK a2, a3, a4, a5 :
        /\ a2 = Unless(a1, ReadSome(a1)) /\ a3 = Unless(a2, FeedOnce(a2))
        /\ a4 = Unless(a3, SendReady(a3)) /\ a5 = Unless(a4, SendPong(a4))
        /\ app' = Unless(a5, PublishHello(a5))
    BY <1>4, SMT
  <1>6. /\ AppAt(a1, o, net, w, 0) /\ Started(a1)
        /\ a1.ended = "no" => Idle(a1.conn)
    BY <1>3, <1>4, SendGreetingStep
  <1>7. /\ AppAt(a2, o, net, w, 0) /\ Started(a2)
        /\ a2.ended = "no" => Idle(a2.conn)
    <2>1. CASE a1.ended # "no"
      BY <1>5, <1>6, <2>1 DEF Unless
    <2>2. CASE a1.ended = "no"
      <3>1. a2 = ReadSome(a1)
        BY <1>5, <2>2 DEF Unless
      <3> QED
        BY <1>6, <2>2, <3>1, ReadSomeStep
    <2> QED
      BY <2>1, <2>2
  <1>8. AppAt(a3, o, net, w, 0) /\ Started(a3)
    <2>1. CASE a2.ended # "no"
      BY <1>5, <1>7, <2>1 DEF Unless
    <2>2. CASE a2.ended = "no"
      <3>1. a3 = FeedOnce(a2)
        BY <1>5, <2>2 DEF Unless
      <3> QED
        BY <1>3, <1>7, <2>2, <3>1, FeedOnceStep
    <2> QED
      BY <2>1, <2>2
  <1>9. /\ AppAt(a4, o, net, w, 0) /\ Started(a4)
        /\ a4.ended = "no" => (a4.conn.state = "Ready" => a4.conn.our_ready_sent)
    <2>1. CASE a3.ended # "no"
      BY <1>5, <1>8, <2>1 DEF Unless
    <2>2. CASE a3.ended = "no"
      <3>1. a4 = SendReady(a3)
        BY <1>5, <2>2 DEF Unless
      <3> QED
        BY <1>3, <1>8, <2>2, <3>1, SendReadyStep
    <2> QED
      BY <2>1, <2>2
  <1>10. /\ AppAt(a5, o, net, w, 0) /\ Started(a5)
         /\ a5.ended = "no" => Idle(a5.conn)
    <2>1. CASE a4.ended # "no"
      BY <1>5, <1>9, <2>1 DEF Unless
    <2>2. CASE a4.ended = "no"
      <3>1. a5 = SendPong(a4)
        BY <1>5, <2>2 DEF Unless
      <3> QED
        BY <1>3, <1>9, <2>2, <3>1, SendPongStep
    <2> QED
      BY <2>1, <2>2
  <1>11. PICK a6 : a6 = Unless(a5, PublishHello(a5))
    OBVIOUS
  <1>12. /\ AppAt(a6, o, net, w, 0) /\ Started(a6)
         /\ a6.ended = "no" => Idle(a6.conn)
    <2>1. CASE a5.ended # "no"
      BY <1>10, <1>11, <2>1 DEF Unless
    <2>2. CASE a5.ended = "no"
      <3>1. a6 = PublishHello(a5)
        BY <1>11, <2>2 DEF Unless
      <3> QED
        BY <1>3, <1>10, <2>2, <3>1, PublishHelloStep
    <2> QED
      BY <2>1, <2>2
  <1>13. app' = a6 /\ wire' = wire /\ psent' = psent /\ net' = net /\ out' = out
    BY <1>5, <1>11 DEF Round
  <1>14. AppAt(app', out', net', SubSeq(wire', 1, psent'), 0)
    BY <1>1, <1>2, <1>12, <1>13, Zenon
  <1> QED
    BY <1>12, <1>13, <1>14 DEF SInv

-----------------------------------------------------------------------------
(* The network *)

\* What the peer has seen, p instead of o, when the queue is v instead of t.
Moves(o, t, p, v) ==
    /\ Seen(p) /\ GoesOn(v, p, 0)
    /\ PongsIn(p.items \o v) = PongsIn(o.items \o t)
    /\ \A i \in {1, 2} : Len(p.items) + Len(v) >= i <=> Len(o.items) + Len(t) >= i

\* The peer receives the part of a message.
LEMMA MessageMoves ==
    ASSUME NEW o, Seen(o), NEW t \in Seq(Parts), t # <<>>, GoesOn(t, o, 0), Head(t).what = "MESSAGE"
    PROVE  Moves(o, t, Sees(o, Head(t)), Tail(t))
  <1>1. PICK e \in Parts : e = Head(t)
    BY PartMoves
  <1>2. PICK v \in Seq(Parts) : v = Tail(t)
    BY PartMoves
  <1>3. Len(t) = Len(v) + 1 /\ Len(v) \in Nat /\ e = t[1] /\ 1 \in DOMAIN t
        /\ \A i \in 1 .. Len(v) : v[i] = t[i + 1] /\ i + 1 \in DOMAIN t
    BY <1>1, <1>2
  <1>4. o.items \in Seq(Parts) /\ Len(o.items) \in Nat /\ o.part \in 0 .. 3 /\ DOMAIN o = {"items", "part"}
    BY DEF Seen
  <1>5. Follows(o.part, e) /\ Train(After(e), v) /\ AtEnd(After(e), v) = 0
    <2>1. Train(o.part, t) /\ AtEnd(o.part, t) = 0
      BY DEF GoesOn
    <2> QED
      BY <1>1, <1>2, <2>1, TrainTail
  <1>6. e.what = "MESSAGE" /\ e.arg = <<o.part + 1>>
    BY <1>1, <1>5 DEF Follows
  <1>7. PICK p : p = Sees(o, e)
    OBVIOUS
  <1>8. p = [o EXCEPT !.part = (o.part + 1) % 4]
    BY <1>6, <1>7 DEF Sees
  <1>9. DOMAIN p = {"items", "part"} /\ p.items = o.items /\ p.part = (o.part + 1) % 4
    BY <1>4, <1>8
  <1>10. p.part \in 0 .. 3 /\ After(e) = p.part
    <2>1. \A k \in 0 .. 3 : (k + 1) % 4 \in 0 .. 3
      OBVIOUS
    <2>2. p.part \in 0 .. 3
      BY <1>4, <1>9, <2>1
    <2>3. e.arg[1] = o.part + 1
      BY <1>6
    <2> QED
      BY <1>6, <1>9, <2>2, <2>3 DEF After
  <1>11. Len(o.items) >= 2
    <2>1. InPlace(Len(o.items) + 1, e.what)
      BY <1>3 DEF GoesOn
    <2>2. Len(o.items) + 1 # 1 /\ Len(o.items) + 1 # 2
      BY <1>6, <2>1 DEF InPlace
    <2>3. \A k \in Nat : k + 1 # 1 /\ k + 1 # 2 => k >= 2
      OBVIOUS
    <2> QED
      BY <1>4, <2>2, <2>3
  <1>12. Seen(p)
    BY <1>9, <1>10, <1>11 DEF Seen
  <1>13. ASSUME NEW i \in DOMAIN v PROVE InPlace(Len(p.items) + i, v[i].what)
    <2>1. i \in 1 .. Len(v) /\ i \in Nat /\ i >= 1
      OBVIOUS
    <2>2. InPlace(Len(o.items) + (i + 1), v[i].what)
      BY <1>3, <2>1 DEF GoesOn
    <2>3. \A j, k \in Nat : j >= 1 /\ k >= 2 =>
              k + (j + 1) # 1 /\ k + (j + 1) # 2 /\ k + j # 1 /\ k + j # 2
      OBVIOUS
    <2>4. /\ Len(o.items) + (i + 1) # 1 /\ Len(o.items) + (i + 1) # 2
          /\ Len(o.items) + i # 1 /\ Len(o.items) + i # 2
      BY <1>4, <1>11, <2>1, <2>3
    <2> QED
      BY <1>9, <2>2, <2>4 DEF InPlace
  <1>14. GoesOn(v, p, 0)
    BY <1>5, <1>10, <1>13 DEF GoesOn
  <1>15. PongsIn(p.items \o v) = PongsIn(o.items \o t)
    <2>1. PICK s \in Seq(Parts) : s = o.items
      BY <1>4
    <2>2. Append(s, e) \o v = s \o t
      BY <1>1, <1>2, PartMoves
    <2>3. PongsIn(Append(s, e) \o v) = PongsIn(s \o v)
      BY <1>6, PongsSkip
    <2> QED
      BY <1>9, <2>1, <2>2, <2>3, Zenon
  <1>16. ASSUME NEW i \in {1, 2}
         PROVE  Len(p.items) + Len(v) >= i <=> Len(o.items) + Len(t) >= i
    <2>1. \A j, k, m \in Nat : j >= 2 /\ m = k + 1 => j + k >= i /\ j + m >= i
      OBVIOUS
    <2>2. Len(t) \in Nat
      OBVIOUS
    <2> QED
      BY <1>3, <1>4, <1>9, <1>11, <2>1, <2>2
  <1>17. Moves(o, t, p, v)
    BY <1>12, <1>14, <1>15, <1>16 DEF Moves
  <1> QED
    BY <1>1, <1>2, <1>7, <1>17, Zenon

\* A sequence of two.
LEMMA TwoWords ==
    ASSUME NEW a, NEW b
    PROVE  Append(<<a>>, b) = <<a, b>>
  <1> DEFINE s == Append(<<a>>, b)
  <1>1. <<a>> \in Seq({a, b}) /\ Len(<<a>>) = 1 /\ <<a>>[1] = a
    OBVIOUS
  <1>2. s \in Seq({a, b}) /\ Len(s) = 2 /\ s[1] = a /\ s[2] = b
    BY <1>1
  <1>3. <<a, b>> \in Seq({a, b}) /\ Len(<<a, b>>) = 2 /\ <<a, b>>[1] = a /\ <<a, b>>[2] = b
    OBVIOUS
  <1>4. \A i \in 1 .. 2 : s[i] = <<a, b>>[i]
    <2>1. \A i \in 1 .. 2 : i = 1 \/ i = 2
      OBVIOUS
    <2> QED
      BY <1>2, <1>3, <2>1, Zenon
  <1> HIDE DEF s
  <1> QED
    BY <1>2, <1>3, <1>4, SeqEqual DEF s

\* The handshake as far as it goes, and one item more.
LEMMA HandshakeMore ==
    ASSUME NEW s \in Seq(Parts), NEW e \in Parts, e.what # "MESSAGE", InPlace(Len(s) + 1, e.what),
           HandshakeIn(s) = SubSeq(FullHandshake("Null"), 1, SmallerOf(Len(s), 2))
    PROVE  HandshakeIn(Append(s, e)) = SubSeq(FullHandshake("Null"), 1, SmallerOf(Len(s) + 1, 2))
  <1>1. HandshakeIn(Append(s, e)) =
            IF e.what \in HandshakeItems THEN Append(HandshakeIn(s), e.what) ELSE HandshakeIn(s)
    BY HandshakeInAppend
  <1>2. FullHandshake("Null") = <<"GREETING", "READY">>
    BY DEF FullHandshake
  <1>3. /\ SubSeq(<<"GREETING", "READY">>, 1, 0) = <<>>
        /\ SubSeq(<<"GREETING", "READY">>, 1, 1) = <<"GREETING">>
        /\ SubSeq(<<"GREETING", "READY">>, 1, 2) = <<"GREETING", "READY">>
        /\ Append(<<>>, "GREETING") = <<"GREETING">>
        /\ Append(<<"GREETING">>, "READY") = <<"GREETING", "READY">>
    <2>1. /\ SubSeq(<<"GREETING", "READY">>, 1, 0) = <<>>
          /\ SubSeq(<<"GREETING", "READY">>, 1, 1) = <<"GREETING">>
          /\ SubSeq(<<"GREETING", "READY">>, 1, 2) = <<"GREETING", "READY">>
      BY TupleParts, Zenon
    <2>2. Append(<<>>, "GREETING") = <<"GREETING">>
      OBVIOUS
    <2>3. Append(<<"GREETING">>, "READY") = <<"GREETING", "READY">>
      BY TwoWords
    <2> QED
      BY <2>1, <2>2, <2>3, Zenon
  <1>4. CASE Len(s) = 0
    <2>1. e.what = "GREETING" /\ SmallerOf(Len(s), 2) = 0 /\ SmallerOf(Len(s) + 1, 2) = 1
      BY <1>4 DEF InPlace, SmallerOf
    <2> QED
      BY <1>1, <1>2, <1>3, <2>1 DEF HandshakeItems
  <1>5. CASE Len(s) = 1
    <2>1. e.what = "READY" /\ SmallerOf(Len(s), 2) = 1 /\ SmallerOf(Len(s) + 1, 2) = 2
      BY <1>5 DEF InPlace, SmallerOf
    <2> QED
      BY <1>1, <1>2, <1>3, <2>1 DEF HandshakeItems
  <1>6. CASE Len(s) >= 2
    <2>1. \A k \in Nat : k >= 2 => SmallerOf(k, 2) = 2 /\ SmallerOf(k + 1, 2) = 2 /\ k + 1 # 1 /\ k + 1 # 2
      BY DEF SmallerOf
    <2>2. Len(s) \in Nat
      OBVIOUS
    <2>3. SmallerOf(Len(s), 2) = SmallerOf(Len(s) + 1, 2) /\ Len(s) + 1 # 1 /\ Len(s) + 1 # 2
      BY <1>6, <2>1, <2>2
    <2>4. e.what = "PONG"
      BY <2>3 DEF InPlace
    <2> QED
      BY <1>1, <2>3, <2>4 DEF HandshakeItems
  <1>7. Len(s) = 0 \/ Len(s) = 1 \/ Len(s) >= 2
    <2>1. \A k \in Nat : k = 0 \/ k = 1 \/ k >= 2
      OBVIOUS
    <2>2. Len(s) \in Nat
      OBVIOUS
    <2> QED
      BY <2>1, <2>2
  <1> QED
    BY <1>4, <1>5, <1>6, <1>7

\* The peer receives a greeting, a READY or a PONG.
LEMMA ItemMoves ==
    ASSUME NEW o, Seen(o), NEW t \in Seq(Parts), t # <<>>, GoesOn(t, o, 0), Head(t).what # "MESSAGE"
    PROVE  Moves(o, t, Sees(o, Head(t)), Tail(t))
  <1>1. PICK e \in Parts : e = Head(t)
    BY PartMoves
  <1>2. PICK v \in Seq(Parts) : v = Tail(t)
    BY PartMoves
  <1>3. Len(t) = Len(v) + 1 /\ Len(v) \in Nat /\ e = t[1] /\ 1 \in DOMAIN t
        /\ \A i \in 1 .. Len(v) : v[i] = t[i + 1] /\ i + 1 \in DOMAIN t
    BY <1>1, <1>2
  <1>4. PICK s \in Seq(Parts) : s = o.items
    BY DEF Seen
  <1>5. Len(s) \in Nat /\ DOMAIN o = {"items", "part"} /\ e.what # "MESSAGE"
    BY <1>1 DEF Seen
  <1>6. Follows(o.part, e) /\ Train(After(e), v) /\ AtEnd(After(e), v) = 0
    <2>1. Train(o.part, t) /\ AtEnd(o.part, t) = 0
      BY DEF GoesOn
    <2> QED
      BY <1>1, <1>2, <2>1, TrainTail
  <1>7. o.part = 0 /\ After(e) = 0
    BY <1>5, <1>6 DEF Follows, After
  <1>8. PICK p : p = Sees(o, e)
    OBVIOUS
  <1>9. p = [o EXCEPT !.items = Append(@, e)]
    BY <1>5, <1>7, <1>8 DEF Sees
  <1>10. DOMAIN p = {"items", "part"} /\ p.items = Append(s, e) /\ p.part = 0
    BY <1>4, <1>5, <1>7, <1>9
  <1>11. Append(s, e) \in Seq(Parts) /\ Len(Append(s, e)) = Len(s) + 1
         /\ DOMAIN Append(s, e) = 1 .. Len(s) + 1 /\ Append(s, e)[Len(s) + 1] = e
         /\ \A i \in 1 .. Len(s) : Append(s, e)[i] = s[i] /\ i \in DOMAIN s
    OBVIOUS
  <1>12. InPlace(Len(s) + 1, e.what)
    BY <1>3, <1>4 DEF GoesOn
  <1>13. HandshakeIn(p.items) = SubSeq(FullHandshake("Null"), 1, SmallerOf(Len(p.items), 2))
    <2>1. HandshakeIn(s) = SubSeq(FullHandshake("Null"), 1, SmallerOf(Len(s), 2))
      BY <1>4 DEF Seen
    <2>2. HandshakeIn(Append(s, e)) = SubSeq(FullHandshake("Null"), 1, SmallerOf(Len(s) + 1, 2))
      BY <1>5, <1>12, <2>1, HandshakeMore
    <2> QED
      BY <1>10, <1>11, <2>2
  <1>14. ASSUME NEW i \in DOMAIN p.items
         PROVE  InPlace(i, p.items[i].what) /\ p.items[i].what # "MESSAGE"
    <2>1. CASE i = Len(s) + 1
      BY <1>5, <1>10, <1>11, <1>12, <2>1
    <2>2. CASE i # Len(s) + 1
      <3>1. i \in DOMAIN s /\ p.items[i] = s[i]
        BY <1>10, <1>11, <2>2
      <3> QED
        BY <1>4, <3>1 DEF Seen
    <2> QED
      BY <2>1, <2>2
  <1>15. Seen(p)
    <2>1. p.items \in Seq(Parts) /\ p.part \in 0 .. 3 /\ (p.part # 0 => Len(p.items) >= 2)
      BY <1>10, <1>11
    <2> QED
      BY <1>10, <1>13, <1>14, <2>1, Zenon DEF Seen
  <1>16. ASSUME NEW i \in DOMAIN v PROVE InPlace(Len(p.items) + i, v[i].what)
    <2>1. i \in 1 .. Len(v) /\ i \in Nat
      OBVIOUS
    <2>2. InPlace(Len(s) + (i + 1), v[i].what)
      BY <1>3, <1>4, <2>1 DEF GoesOn
    <2>3. \A j, k \in Nat : k + (j + 1) = (k + 1) + j
      OBVIOUS
    <2>4. Len(p.items) + i = Len(s) + (i + 1)
      BY <1>5, <1>10, <1>11, <2>1, <2>3
    <2> QED
      BY <2>2, <2>4
  <1>17. GoesOn(v, p, 0)
    BY <1>6, <1>7, <1>10, <1>16 DEF GoesOn
  <1>18. p.items \o v = o.items \o t
    BY <1>1, <1>2, <1>4, <1>10, PartMoves
  <1>19. Len(p.items) + Len(v) = Len(o.items) + Len(t)
    <2>1. \A j, k \in Nat : (k + 1) + j = k + (j + 1)
      OBVIOUS
    <2> QED
      BY <1>3, <1>4, <1>5, <1>10, <1>11, <2>1
  <1>20. Moves(o, t, p, v)
    BY <1>15, <1>17, <1>18, <1>19, Zenon DEF Moves
  <1> QED
    BY <1>1, <1>2, <1>8, <1>20, Zenon

\* The variables of a and b are the same but for the socket.
BesideSock(a, b) ==
    /\ b.conn = a.conn /\ b.greeting_buf = a.greeting_buf /\ b.greeting_done = a.greeting_done
    /\ b.rx = a.rx /\ b.fed = a.fed /\ b.ended = a.ended

\* poll changes the socket.
LEMMA SockChanges ==
    ASSUME NEW a, Typed(a), NEW q, DOMAIN q = {"state", "rx", "tx"}, q.rx \in Seq(Units),
           q.tx \in Seq(Parts), NEW b, b = [a EXCEPT !.sock = q]
    PROVE  Typed(b) /\ b.sock = q /\ BesideSock(a, b)
  <1>1. IsApp(b) /\ b.sock = q /\ BesideSock(a, b)
    BY DEF Typed, IsApp, AppFields, BesideSock
  <1>2. Typed(b)
    BY <1>1 DEF Typed, BesideSock
  <1> QED
    BY <1>1, <1>2

\* With the greeting written, what main knows does not depend on the socket.
LEMMA SockKeeps ==
    ASSUME NEW o, NEW n, NEW w, NEW a, AppAt(a, o, n, w, 0), NEW b, Typed(b), BesideSock(a, b),
           NEW p, NEW m, NEW v, Kept(b, m, v), Queued(b, p, 0), Begun(b, p)
    PROVE  AppAt(b, p, m, v, 0)
  <1>1. Knows(a.conn, a.fed) /\ Decided(a.conn)
    BY DEF AppAt
  <1>2. Knows(b.conn, b.fed) /\ Decided(b.conn)
    BY <1>1 DEF BesideSock
  <1> QED
    BY <1>2 DEF AppAt

\* The part at the head of the queue reaches the peer.
LEMMA SendsStep ==
    ASSUME SInv, Sends
    PROVE  SInv'
  <1>1. PICK o : o = out
    OBVIOUS
  <1>2. PICK w : w = SubSeq(wire, 1, psent)
    OBVIOUS
  <1>3. Seen(o) /\ AppAt(app, o, net, w, 0) /\ Idle(app.conn)
    BY <1>1, <1>2 DEF SInv, Sends
  <1>4. app.sock.state = "open" /\ app.ended = "no" /\ app.greeting_done
    BY DEF SInv, Sends, Started, Open
  <1>5. Typed(app) /\ Kept(app, net, w) /\ Begun(app, o) /\ Queued(app, o, 0)
    BY <1>3 DEF AppAt
  <1>6. PICK t \in Seq(Parts) : t = app.sock.tx /\ t # <<>>
    BY <1>5 DEF Typed, Sends
  <1>7. GoesOn(t, o, 0) /\ Marks(app, Len(o.items) + Len(t)) /\ Due(t, o, app.conn, app.fed)
    BY <1>4, <1>5, <1>6 DEF Queued, Open
  <1>8. PICK p : p = Sees(o, Head(t))
    OBVIOUS
  <1>9. PICK v \in Seq(Parts) : v = Tail(t)
    BY <1>6, PartMoves
  <1>10. Moves(o, t, p, v)
    <2>1. CASE Head(t).what = "MESSAGE"
      <3>1. Moves(o, t, Sees(o, Head(t)), Tail(t))
        BY <1>3, <1>6, <1>7, <2>1, MessageMoves
      <3> QED
        BY <1>8, <1>9, <3>1, Zenon
    <2>2. CASE Head(t).what # "MESSAGE"
      <3>1. Moves(o, t, Sees(o, Head(t)), Tail(t))
        BY <1>3, <1>6, <1>7, <2>2, ItemMoves
      <3> QED
        BY <1>8, <1>9, <3>1, Zenon
    <2> QED
      BY <2>1, <2>2
  <1>11. PICK q : q = [app.sock EXCEPT !.tx = v]
    OBVIOUS
  <1>12. DOMAIN q = {"state", "rx", "tx"} /\ q.state = "open" /\ q.rx = app.sock.rx /\ q.tx = v
    BY <1>4, <1>5, <1>11 DEF Typed, IsApp
  <1>13. PICK b : b = [app EXCEPT !.sock = q]
    OBVIOUS
  <1>14. app' = b /\ out' = p /\ pc' = pc /\ wire' = wire /\ psent' = psent /\ net' = net
    <2>1. app' = b
      BY <1>5, <1>6, <1>9, <1>11, <1>13 DEF Sends, Typed, IsApp, AppFields
    <2>2. out' = p
      BY <1>1, <1>6, <1>8, Zenon DEF Sends
    <2> QED
      BY <2>1, <2>2 DEF Sends
  <1>15. Typed(b) /\ b.sock = q /\ BesideSock(app, b)
    <2>1. app.sock.rx \in Seq(Units)
      BY <1>5 DEF Typed
    <2> QED
      BY <1>5, <1>12, <1>13, <2>1, SockChanges
  <1>16. Kept(b, net, w)
    BY <1>5, <1>12, <1>15 DEF Kept, BesideSock
  <1>17. Begun(b, p)
    BY <1>4, <1>5, <1>12, <1>15 DEF Begun, BesideSock
  <1>18. Queued(b, p, 0)
    <2>1. GoesOn(b.sock.tx, p, 0)
      BY <1>10, <1>12, <1>15 DEF Moves
    <2>2. Marks(b, Len(p.items) + Len(v))
      <3>1. \A i \in {1, 2} : Len(p.items) + Len(v) >= i <=> Len(o.items) + Len(t) >= i
        BY <1>10 DEF Moves
      <3> QED
        BY <1>7, <1>15, <3>1 DEF Marks, BesideSock
    <2>3. Due(v, p, b.conn, b.fed)
      BY <1>7, <1>10, <1>15, Zenon DEF Due, Moves, BesideSock
    <2> QED
      BY <1>12, <1>15, <2>1, <2>2, <2>3, Zenon DEF Queued
  <1>19. AppAt(b, p, net, w, 0)
    BY <1>3, <1>15, <1>16, <1>17, <1>18, SockKeeps
  <1>20. AppAt(app', out', net', SubSeq(wire', 1, psent'), 0)
    BY <1>2, <1>14, <1>19, Zenon
  <1>21. Seen(out')
    BY <1>10, <1>14 DEF Moves
  <1>22. Idle(app'.conn) /\ Started(app')
    BY <1>3, <1>4, <1>14, <1>15 DEF BesideSock, Started
  <1>23. wire \in Seq(Units) /\ psent \in 0 .. Len(wire) /\ net \in Seq(Units)
    BY DEF SInv
  <1> QED
    BY <1>14, <1>20, <1>21, <1>22, <1>23 DEF SInv

\* The units z are what is left of m when s has been taken from it, after y.
Arrives(g, y, m, s, z) == g \o (y \o s) \o z = g \o y \o m

\* What is received moves from the network into the socket.
LEMMA ArrivesInOrder ==
    ASSUME NEW g \in Seq(Units), NEW y \in Seq(Units), NEW m \in Seq(Units), NEW k \in 0 .. Len(m)
    PROVE  Arrives(g, y, m, SubSeq(m, 1, k), SubSeq(m, k + 1, Len(m)))
  <1>1. PICK s \in Seq(Units) : s = SubSeq(m, 1, k)
    BY RestType
  <1>2. PICK z : z = SubSeq(m, k + 1, Len(m))
    OBVIOUS
  <1>3. g \o y \in Seq(Units)
    OBVIOUS
  <1>4. ((g \o y) \o s) \o z = (g \o y) \o m
    BY <1>1, <1>2, <1>3, ReadMore, Zenon
  <1>5. (g \o y) \o s = g \o (y \o s)
    BY ThreeParts, SMTT(30)
  <1> QED
    BY <1>1, <1>2, <1>4, <1>5, Zenon DEF Arrives

\* Units of the network reach the socket.
LEMMA ReceivesStep ==
    ASSUME SInv, NEW k \in 0 .. Len(net), Receives(k)
    PROVE  SInv'
  <1>1. PICK o : o = out
    OBVIOUS
  <1>2. PICK w : w = SubSeq(wire, 1, psent)
    OBVIOUS
  <1>3. Seen(o) /\ AppAt(app, o, net, w, 0) /\ Idle(app.conn)
    BY <1>1, <1>2 DEF SInv, Receives
  <1>4. app.sock.state = "open" /\ app.ended = "no" /\ app.greeting_done
    BY DEF SInv, Receives, Started, Open
  <1>5. Typed(app) /\ Kept(app, net, w) /\ Begun(app, o) /\ Queued(app, o, 0)
    BY <1>3 DEF AppAt
  <1>6. PICK y \in Seq(Units) : y = app.sock.rx
    BY <1>5 DEF Typed
  <1>7. PICK m \in Seq(Units) : m = net
    BY DEF SInv
  <1>8. PICK s \in Seq(Units), z \in Seq(Units) : s = SubSeq(m, 1, k) /\ z = SubSeq(m, k + 1, Len(m))
    <2>1. k \in 0 .. Len(m)
      BY <1>7
    <2> QED
      BY <2>1, RestType
  <1>9. PICK q : q = [app.sock EXCEPT !.rx = y \o s]
    OBVIOUS
  <1>10. /\ DOMAIN q = {"state", "rx", "tx"} /\ q.state = "open" /\ q.rx = y \o s
         /\ q.tx = app.sock.tx /\ q.rx \in Seq(Units) /\ q.tx \in Seq(Parts)
    BY <1>4, <1>5, <1>9 DEF Typed, IsApp
  <1>11. PICK b : b = [app EXCEPT !.sock = q]
    OBVIOUS
  <1>12. app' = b /\ net' = z /\ pc' = "round" /\ out' = o /\ wire' = wire /\ psent' = psent
    <2>1. app' = b
      BY <1>5, <1>6, <1>7, <1>8, <1>9, <1>11 DEF Receives, Typed, IsApp, AppFields
    <2>2. net' = z
      BY <1>7, <1>8, Zenon DEF Receives
    <2> QED
      BY <1>1, <2>1, <2>2 DEF Receives
  <1>13. Typed(b) /\ b.sock = q /\ BesideSock(app, b)
    <2>1. DOMAIN q = {"state", "rx", "tx"} /\ q.rx \in Seq(Units) /\ q.tx \in Seq(Parts)
      BY <1>10
    <2> QED
      BY <1>5, <1>11, <2>1, SockChanges
  <1>14. Kept(b, z, w)
    <2>1. PICK g \in Seq(Units) : g = app.fed \o app.rx
      <3>1. app.fed \in Seq(Units) /\ app.rx \in Seq(Units)
        BY <1>5 DEF Typed
      <3>2. app.fed \o app.rx \in Seq(Units)
        BY <3>1
      <3> QED
        BY <3>2
    <2>2. g \o (y \o s) \o z = g \o y \o m
      <3>1. k \in 0 .. Len(m)
        BY <1>7
      <3>2. Arrives(g, y, m, SubSeq(m, 1, k), SubSeq(m, k + 1, Len(m)))
        BY <3>1, ArrivesInOrder
      <3> QED
        BY <1>8, <3>2, Zenon DEF Arrives
    <2>3. RefusesPeer(app.conn) \/ g \o y \o m = w
      BY <1>5, <1>6, <1>7, <2>1, Zenon DEF Kept
    <2> QED
      BY <1>10, <1>13, <2>1, <2>2, <2>3, Zenon DEF Kept, BesideSock
  <1>15. Begun(b, o)
    BY <1>4, <1>5, <1>10, <1>13 DEF Begun, BesideSock
  <1>16. Queued(b, o, 0)
    BY <1>4, <1>5, <1>10, <1>13 DEF Queued, Open, Marks, BesideSock
  <1>17. AppAt(b, o, z, w, 0)
    BY <1>3, <1>13, <1>14, <1>15, <1>16, SockKeeps
  <1>18. AppAt(app', out', net', SubSeq(wire', 1, psent'), 0)
    BY <1>2, <1>12, <1>17, Zenon
  <1>19. Seen(out') /\ Idle(app'.conn)
    BY <1>3, <1>12, <1>13 DEF BesideSock
  <1>20. wire \in Seq(Units) /\ psent \in 0 .. Len(wire)
    BY DEF SInv
  <1> QED
    BY <1>8, <1>12, <1>18, <1>19, <1>20 DEF SInv

\* The socket connects, or is closed.
LEMMA BecomesStep ==
    ASSUME SInv, NEW state, Becomes(state)
    PROVE  SInv'
  <1>1. PICK o : o = out
    OBVIOUS
  <1>2. PICK w : w = SubSeq(wire, 1, psent)
    OBVIOUS
  <1>3. Seen(o) /\ AppAt(app, o, net, w, 0) /\ Idle(app.conn)
    BY <1>1, <1>2 DEF SInv, Becomes
  <1>4. Typed(app) /\ Kept(app, net, w) /\ Begun(app, o) /\ Knows(app.conn, app.fed)
    BY <1>3 DEF AppAt
  <1>5. PICK q : q = [app.sock EXCEPT !.state = state,
                                      !.tx = IF state = "closed" THEN <<>> ELSE @]
    OBVIOUS
  <1>6. /\ DOMAIN q = {"state", "rx", "tx"} /\ q.state = state /\ q.rx = app.sock.rx
        /\ q.tx = IF state = "closed" THEN <<>> ELSE app.sock.tx
        /\ q.rx \in Seq(Units) /\ q.tx \in Seq(Parts)
    BY <1>4, <1>5 DEF Typed, IsApp
  <1>7. PICK b : b = [app EXCEPT !.sock = q]
    OBVIOUS
  <1>8. app' = b /\ net' = net /\ pc' = "round" /\ out' = o /\ wire' = wire /\ psent' = psent
    <2>1. app' = b
      BY <1>4, <1>5, <1>7 DEF Becomes, Typed, IsApp, AppFields
    <2> QED
      BY <1>1, <2>1 DEF Becomes
  <1>9. Typed(b) /\ b.sock = q /\ BesideSock(app, b)
    <2>1. DOMAIN q = {"state", "rx", "tx"} /\ q.rx \in Seq(Units) /\ q.tx \in Seq(Parts)
      BY <1>6
    <2> QED
      BY <1>4, <1>7, <2>1, SockChanges
  <1>10. Kept(b, net, w)
    BY <1>4, <1>6, <1>9 DEF Kept, BesideSock
  <1>11. Queued(b, o, 0) /\ Begun(b, o)
    <2>1. CASE state = "closed"
      BY <1>4, <1>6, <1>9, <2>1 DEF Queued, Open, Begun, BesideSock
    <2>2. CASE app.sock.state = "connecting" /\ state \in {"connecting", "open"}
      <3>1. /\ ~app.greeting_done /\ app.fed = <<>> /\ app.sock.tx = <<>> /\ app.sock.rx = <<>>
            /\ app.rx = <<>> /\ o.items = <<>> /\ o.part = 0
        BY <1>4, <2>2 DEF Begun
      <3>2. ~b.greeting_done /\ b.sock.tx = <<>> /\ b.fed = <<>> /\ b.sock.rx = <<>> /\ b.rx = <<>>
            /\ b.conn = app.conn
        BY <1>6, <1>9, <2>2, <3>1 DEF BesideSock
      <3>3. ~b.conn.our_ready_sent /\ b.conn.pending_pong = <<>> /\ b.conn.mechanism = "Null"
        <4>1. Knows(app.conn, <<>>)
          BY <1>4, <3>1
        <4> QED
          BY <1>9, <3>2, <4>1, NothingFed DEF Typed
      <3>4. Begun(b, o)
        BY <1>4, <1>9, <3>1, <3>2 DEF Begun, BesideSock
      <3>5. GoesOn(<<>>, o, 0)
        <4>1. Train(0, <<>>) /\ AtEnd(0, <<>>) = 0 /\ DOMAIN <<>> = {}
          BY DEF Train, AtEnd
        <4> QED
          BY <3>1, <4>1 DEF GoesOn
      <3>6. Marks(b, Len(o.items) + Len(<<>>))
        <4>1. Len(<<>>) = 0 /\ Len(o.items) + Len(<<>>) = 0
          BY <3>1
        <4> QED
          BY <3>2, <3>3, <4>1 DEF Marks
      <3>7. Due(<<>>, o, b.conn, <<>>)
        <4>1. <<>> \o <<>> = <<>>
          OBVIOUS
        <4> QED
          BY <3>1, <3>3, <4>1, NoPings, PongsInNone, Zenon DEF Due
      <3>8. Queued(b, o, 0)
        BY <3>2, <3>5, <3>6, <3>7, Zenon DEF Queued
      <3> QED
        BY <3>4, <3>8
    <2> QED
      BY <2>1, <2>2 DEF Becomes
  <1>12. AppAt(b, o, net, w, 0)
    BY <1>3, <1>9, <1>10, <1>11, SockKeeps
  <1>13. AppAt(app', out', net', SubSeq(wire', 1, psent'), 0)
    BY <1>2, <1>8, <1>12, Zenon
  <1>14. Seen(out') /\ Idle(app'.conn)
    BY <1>3, <1>8, <1>9 DEF BesideSock
  <1>15. wire \in Seq(Units) /\ psent \in 0 .. Len(wire) /\ net \in Seq(Units)
    BY DEF SInv
  <1> QED
    BY <1>8, <1>13, <1>14, <1>15 DEF SInv

\* The peer sends its next unit.
LEMMA PeerSendStep ==
    ASSUME SInv, PeerSend
    PROVE  SInv'
  <1>1. PICK o : o = out
    OBVIOUS
  <1>2. PICK w : w = SubSeq(wire, 1, psent)
    OBVIOUS
  <1>3. AppAt(app, o, net, w, 0) /\ Kept(app, net, w) /\ Typed(app)
    BY <1>1, <1>2 DEF SInv, AppAt
  <1>4. PICK m \in Seq(Units) : m = net
    BY DEF SInv
  <1>5. wire \in Seq(Units) /\ psent \in Nat /\ psent < Len(wire) /\ psent + 1 \in 0 .. Len(wire)
        /\ wire[psent + 1] \in Units
    BY DEF SInv, PeerSend
  <1>6. PICK e \in Units : e = wire[psent + 1]
    BY <1>5
  <1>7. SubSeq(wire, 1, psent + 1) = Append(w, e)
    BY <1>2, <1>5, <1>6, OneMore, Zenon
  <1>8. Append(m, e) \in Seq(Units)
    OBVIOUS
  <1>9. Kept(app, Append(m, e), Append(w, e))
    <2>1. PICK g \in Seq(Units) : g = app.fed \o app.rx \o app.sock.rx
      <3>1. app.fed \in Seq(Units) /\ app.rx \in Seq(Units) /\ app.sock.rx \in Seq(Units)
        BY <1>3 DEF Typed
      <3>2. app.fed \o app.rx \o app.sock.rx \in Seq(Units)
        <4>1. app.fed \o app.rx \in Seq(Units)
          BY <3>1
        <4> QED
          BY <3>1, <4>1
      <3> QED
        BY <3>2
    <2>2. g \o Append(m, e) = Append(g \o m, e)
      BY AppendEnd
    <2> QED
      BY <1>3, <1>4, <2>1, <2>2, Zenon DEF Kept
  <1>10. AppAt(app, o, Append(m, e), Append(w, e), 0)
    BY <1>3, <1>9 DEF AppAt
  <1>11. /\ app' = app /\ out' = out /\ pc' = pc /\ wire' = wire /\ psent' = psent + 1
         /\ net' = Append(m, e)
    BY <1>4, <1>6 DEF PeerSend
  <1>12. AppAt(app', out', net', SubSeq(wire', 1, psent'), 0)
    BY <1>1, <1>7, <1>10, <1>11, Zenon
  <1>13. Seen(out) /\ (app.ended = "no" => Idle(app.conn)) /\ (pc = "poll" => Started(app))
    BY DEF SInv
  <1> QED
    BY <1>5, <1>8, <1>11, <1>12, <1>13 DEF SInv

-----------------------------------------------------------------------------
(* The invariant and what follows from it *)

\* The loop begins with a new connection and a socket that connects.
LEMMA InitStep ==
    ASSUME Init
    PROVE  SInv
  <1>1. wire \in Seq(Units)
    BY SmoltcpAssumption DEF Init, Units
  <1>2. psent = 0 /\ net = <<>> /\ net \in Seq(Units) /\ psent \in 0 .. Len(wire)
    BY <1>1 DEF Init
  <1>3. SubSeq(wire, 1, psent) = <<>>
    BY <1>1, <1>2
  <1>4. DOMAIN out = {"items", "part"} /\ out.items = <<>> /\ out.part = 0
    BY DEF Init
  <1>5. Seen(out)
    <2>1. <<>> \in Seq(Parts) /\ DOMAIN <<>> = {} /\ Len(<<>>) = 0 /\ 0 \in 0 .. 3
      OBVIOUS
    <2>2. SmallerOf(0, 2) = 0
      BY DEF SmallerOf
    <2>3. SubSeq(FullHandshake("Null"), 1, 0) = <<>>
      BY TupleParts, Zenon DEF FullHandshake
    <2> QED
      BY <1>4, <2>1, <2>2, <2>3, HandshakeInNone DEF Seen
  <1>6. PICK c : c = NewConnection("Null")
    OBVIOUS
  <1>7. Fresh(c) /\ DOMAIN c = ConnFields \cup {"sub_table"} /\ c.mechanism = "Null"
        /\ c.state = "Greeting" /\ c.greeting_buf = <<>> /\ c.pending_pong = <<>>
        /\ c.our_greeting_sent = FALSE
    BY <1>6 DEF NewConnection, Fresh, ConnFields, Mechanisms
  <1>8. IsPub(c, Units) /\ Knows(c, <<>>)
    <2>1. IsConn(c, Units) /\ FedInv(c, <<>>, FALSE, PubTypes)
      BY <1>7, FreshInv
    <2> QED
      BY <1>7, <2>1, Zenon DEF IsPub, Knows
  <1>9. Decided(c)
    <2>1. Len(<<>>) = 0
      OBVIOUS
    <2> QED
      BY <1>7, <2>1 DEF Decided, GREETING_LEN
  <1>10. /\ IsApp(app) /\ app.conn = c /\ app.greeting_buf = FALSE /\ app.greeting_done = FALSE
         /\ app.rx = <<>> /\ app.fed = <<>> /\ app.ended = "no"
         /\ app.sock.state = "connecting" /\ app.sock.rx = <<>> /\ app.sock.tx = <<>>
    BY <1>6 DEF Init, NewApp, IsApp, AppFields
  <1>11. Typed(app)
    <2>1. <<>> \in Seq(Units) /\ <<>> \in Seq(Parts) /\ Len(<<>>) = 0 /\ 0 <= RX_CAP
      BY SmoltcpAssumption
    <2> QED
      BY <1>7, <1>8, <1>10, <2>1 DEF Typed
  <1>12. Kept(app, net, <<>>)
    <2>1. <<>> \o <<>> = <<>>
      OBVIOUS
    <2> QED
      BY <1>2, <1>10, <2>1, Zenon DEF Kept
  <1>13. ~Open(app)
    BY <1>10 DEF Open
  <1>14. Queued(app, out, 0) /\ Begun(app, out) /\ Started(app) /\ Idle(app.conn)
    BY <1>4, <1>7, <1>10, <1>13 DEF Queued, Begun, Started, Idle
  <1>15. AppAt(app, out, net, SubSeq(wire, 1, psent), 0)
    BY <1>3, <1>8, <1>9, <1>10, <1>11, <1>12, <1>14 DEF AppAt
  <1> QED
    BY <1>1, <1>2, <1>5, <1>14, <1>15 DEF SInv

\* SInv is an invariant of the loop over the socket, whatever the peer sends and
\* whatever the network does.
THEOREM Invariance == Spec => []SInv
  <1>1. Init => SInv
    BY InitStep
  <1>2. SInv /\ [Next]_vars => SInv'
    <2> SUFFICES ASSUME SInv, [Next]_vars PROVE SInv'
      OBVIOUS
    <2>1. CASE PeerSend
      BY <2>1, PeerSendStep
    <2>2. CASE Sends
      BY <2>2, SendsStep
    <2>3. ASSUME NEW n \in 0 .. Len(net), Receives(n) PROVE SInv'
      BY <2>3, ReceivesStep
    <2>4. ASSUME NEW state \in {"connecting", "open", "closed"}, Becomes(state) PROVE SInv'
      BY <2>4, BecomesStep
    <2>5. CASE Round
      BY <2>5, RoundStep
    <2>6. CASE UNCHANGED vars
      BY <2>6 DEF SInv, vars
    <2> QED
      BY <2>1, <2>2, <2>3, <2>4, <2>5, <2>6, Zenon DEF Next
  <1> QED
    BY <1>1, <1>2, PTL DEF Spec

\* The loop throws away what feed does not consume, but it consumes everything of
\* a peer it has not refused: no unit is lost between the peer and feed, whatever
\* comes in one read and whatever the sizes of the buffers.
THEOREM NothingLostCorrect == Spec => []NothingLost
  <1>1. SInv => NothingLost
    BY Zenon DEF SInv, AppAt, Kept, NothingLost
  <1> QED
    BY <1>1, Invariance, PTL

\* The connection remembers one PING, and every PING gets its PONG, in order: a
\* round answers each before it feeds the next.
THEOREM PongPerPingCorrect == Spec => []PongPerPing
  <1>1. SInv => PongPerPing
    <2> SUFFICES ASSUME SInv, app.sock.state = "open", app.ended = "no"
                 PROVE  PongsIn(out.items \o app.sock.tx) =
                            IF app.conn.peer_version_minor >= 1
                            THEN PingsIn(TrafficIn("Null", app.fed)) ELSE <<>>
      BY DEF PongPerPing
    <2>1. Typed(app) /\ Queued(app, out, 0) /\ Seen(out) /\ Idle(app.conn)
      BY DEF SInv, AppAt
    <2>2. PongsIn(out.items \o app.sock.tx) \o <<>> = PingsDue(app.conn, app.fed)
      BY <2>1 DEF Queued, Open, Due, Idle
    <2>3. PongsIn(out.items \o app.sock.tx) \o <<>> = PongsIn(out.items \o app.sock.tx)
      <3>1. PICK s \in Seq(Parts) : s = out.items \o app.sock.tx
        <4>1. out.items \in Seq(Parts) /\ app.sock.tx \in Seq(Parts)
          BY <2>1 DEF Seen, Typed
        <4>2. out.items \o app.sock.tx \in Seq(Parts)
          BY <4>1
        <4> QED
          BY <4>2
      <3> QED
        BY <3>1, PongsInType
    <2>4. PingsDue(app.conn, app.fed) =
              IF app.conn.peer_version_minor >= 1
              THEN PingsIn(TrafficIn("Null", app.fed)) ELSE <<>>
      BY <2>1 DEF PingsDue, Typed
    <2> QED
      BY <2>2, <2>3, <2>4, Zenon
  <1> QED
    BY <1>1, Invariance, PTL

\* The peer receives one greeting, then one READY, then PONGs and whole messages,
\* whatever the socket holds back and however the connection ends.
THEOREM OutputCorrect == Spec => []OutputWellFormed
  <1>1. SInv => OutputWellFormed
    <2> SUFFICES ASSUME SInv PROVE OutputWellFormed
      OBVIOUS
    <2>1. PICK s \in Seq(Parts) : s = out.items
      BY DEF SInv, Seen
    <2>2. HandshakeIn(s) = SubSeq(FullHandshake("Null"), 1, SmallerOf(Len(s), 2))
      BY <2>1 DEF SInv, Seen
    <2>3. FullHandshake("Null") = <<"GREETING", "READY">>
      BY DEF FullHandshake
    <2>4. PICK n : n = SmallerOf(Len(s), 2)
      OBVIOUS
    <2>5. Len(s) \in Nat /\ n \in {0, 1, 2} /\ (Len(s) >= 2 => n = 2) /\ (n # 2 => n = Len(s))
      <3>1. \A k \in Nat : /\ SmallerOf(k, 2) \in {0, 1, 2} /\ (k >= 2 => SmallerOf(k, 2) = 2)
                           /\ (SmallerOf(k, 2) # 2 => SmallerOf(k, 2) = k)
        BY DEF SmallerOf
      <3>2. Len(s) \in Nat
        OBVIOUS
      <3> QED
        BY <2>4, <3>1, <3>2
    <2>6. /\ Len(HandshakeIn(s)) = n /\ IsPrefix(HandshakeIn(s), FullHandshake("Null"))
          /\ Len(FullHandshake("Null")) = 2
      <3>1. /\ SubSeq(<<"GREETING", "READY">>, 1, 0) = <<>>
            /\ SubSeq(<<"GREETING", "READY">>, 1, 1) = <<"GREETING">>
            /\ SubSeq(<<"GREETING", "READY">>, 1, 2) = <<"GREETING", "READY">>
        BY TupleParts, Zenon
      <3>2. /\ IsPrefix(<<>>, <<"GREETING", "READY">>)
            /\ IsPrefix(<<"GREETING">>, <<"GREETING", "READY">>)
            /\ IsPrefix(<<"GREETING", "READY">>, <<"GREETING", "READY">>)
        BY DEF IsPrefix
      <3>3. Len(<<>>) = 0 /\ Len(<<"GREETING">>) = 1 /\ Len(<<"GREETING", "READY">>) = 2
        OBVIOUS
      <3> QED
        BY <2>2, <2>3, <2>4, <2>5, <3>1, <3>2, <3>3
    <2>7. out.part # 0 => n = 2
      BY <2>1, <2>5 DEF SInv, Seen
    <2>8. ASSUME NEW i \in DOMAIN s, i > n PROVE s[i].what = "PONG"
      <3>1. InPlace(i, s[i].what) /\ s[i].what # "MESSAGE"
        BY <2>1 DEF SInv, Seen
      <3>2. i # 1 /\ i # 2
        BY <2>5, <2>8
      <3> QED
        BY <3>1, <3>2 DEF InPlace
    <2> QED
      BY <2>1, <2>6, <2>7, <2>8 DEF OutputWellFormed
  <1> QED
    BY <1>1, Invariance, PTL
=============================================================================
