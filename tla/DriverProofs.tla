---------------------------- MODULE DriverProofs ----------------------------
(***************************************************************************)
(* A blocking driver of either kind is correct, for every size of its      *)
(* buffer and whatever the peer sends, if its caller drops it after an     *)
(* error other than one of a read: the inductive invariant DInv, and what  *)
(* follows from it.                                                        *)
(***************************************************************************)
EXTENDS Drivers, HandshakeProofs

\* The socket types that are let in.
ReadyTypes == IF IsRadio THEN DishTypes ELSE PubTypes

\* What may be written, by kind and argument.
Items == [what : {"GREETING", "READY", "WELCOME", "ERROR", "PONG", "MESSAGE", "CUT"},
          arg  : Topics \cup Groups \cup Seq(ContextsOf(Units))]

-----------------------------------------------------------------------------
(* The inductive invariant *)

\* What c has said fills the beginning of o, and messages and PONGs the rest.
OutShape(c, o) ==
    /\ Len(Said(c)) <= Len(o)
    /\ Len(Said(c)) < Len(o) => c.state = "Established"
    /\ \A i \in DOMAIN o : IF i <= Len(Said(c)) THEN o[i].what = Said(c)[i]
                           ELSE o[i].what \in {"MESSAGE", "PONG"}

\* The connection c was fed u and has written o, and nothing went wrong.
Sound(c, u, o, types) ==
    /\ IsConn(c, Units) /\ u \in Seq(Units) /\ o \in Seq(Items)
    /\ FedInv(c, u, FALSE, types) /\ SentInv(c, o) /\ OutShape(c, o)
    /\ PongsIn(o) \o c.pending_pong = PingsDue(c, u)

\* Nothing is owed to the peer.
Settled(c) ==
    /\ c.our_greeting_sent /\ c.pending_pong = <<>>
    /\ c.state \in {"Ready", "PlainReady"} => c.our_ready_sent
    /\ c.state = "Greeting" => Len(c.greeting_buf) < GREETING_LEN
    /\ c.state # "Failed"

\* Each variable has its type, and a RADIO driver knows NULL only.
DriverTypes ==
    /\ wire \in Seq(Units) /\ net \in Seq(Units) /\ rx \in Seq(Units) /\ fed \in Seq(Units)
    /\ psent \in 0 .. Len(wire) /\ tc \in 0 .. Len(rx) /\ Len(rx) <= RX_CAP
    /\ pc \in Places /\ out \in Seq(Items)
    /\ conn.mechanism \in Mechanisms
    /\ DOMAIN conn = ConnFields \cup {IF IsRadio THEN "group_table" ELSE "sub_table"}
    /\ IsRadio => conn.mechanism = "Null"

\* Where poll is, and the buffer.
BufferInv ==
    /\ pc = "new" => rx = <<>> /\ fed = <<>> /\ out = <<>> /\ ~conn.our_greeting_sent
    /\ IF Draining THEN tc < Len(rx) ELSE tc = 0
    /\ pc = "read" => rx = <<>>

LiveInv ==
    Live =>
        /\ ExactlyOnce
        /\ BufferInv
        /\ Sound(conn, fed, out, ReadyTypes)
        /\ pc # "new" => Settled(conn)
        /\ pc = "new" => conn.pending_pong = <<>> /\ conn.state = "Greeting" /\ conn.greeting_buf = <<>>

DInv == DriverTypes /\ LiveInv /\ OutputWellFormed
-----------------------------------------------------------------------------
(* feed, of a connection that nothing is owed by *)

\* Of which state a feed can lead to which other, and with how much consumed.
Moves(c, x, r) ==
    /\ r.n \in 1 .. Len(x)
    /\ r.conn.state # "Failed"
    /\ r.conn.state = "Greeting" => c.state = "Greeting" /\ Len(r.conn.greeting_buf) < GREETING_LEN
    /\ r.conn.state = "PlainHello" => c.state \in {"Greeting", "PlainHello"}
    /\ r.conn.state = "Ready" => c.state \in {"Greeting", "Ready"}
    /\ r.conn.state = "PlainReady" => c.state \in {"PlainHello", "PlainReady"}

\* A feed that succeeds consumes something and goes forward.
LEMMA FeedMoves ==
    ASSUME NEW U, NEW c, IsConn(c, U), NEW u \in Seq(U), NEW types, FedInv(c, u, FALSE, types),
           Settled(c), NEW x \in Seq(U), x # <<>>, NEW r, FeedsTo(U, c, x, r, types), r.res = "Ok"
    PROVE  Moves(c, x, r)
  <1>0. Len(x) \in Nat /\ Len(x) # 0
    OBVIOUS
  <1>1. CASE c.state = "Greeting" /\ r = FeedGreeting(c, x)
    <2> DEFINE b == c.greeting_buf
               n == SmallerOf(Len(x), GREETING_LEN - Len(b))
               w == b \o SubSeq(x, 1, n)
               c1 == [c EXCEPT !.greeting_buf = w]
               next == IF c.mechanism = "Null" THEN "Ready" ELSE "PlainHello"
               c2 == [c1 EXCEPT !.peer_version_minor = w[3].of.minor,
                                !.peer_greeting_received = TRUE,
                                !.state = IF c.our_greeting_sent THEN next ELSE @]
    <2>1. Len(b) \in Nat /\ Len(b) < 3 /\ c.our_greeting_sent
      BY <1>1 DEF IsConn, GREETING_LEN, Settled
    <2>2. n \in 1 .. Len(x)
      BY <1>0, <2>1 DEF SmallerOf, GREETING_LEN
    <2>3. \/ r = Ok(c1, n) /\ Len(w) < GREETING_LEN
          \/ r = Ok(c2, n)
      BY <1>1 DEF FeedGreeting, Ok, Err
    <2>4. c1.state = "Greeting" /\ c1.greeting_buf = w /\ c2.state = next
      BY <1>1, <2>1 DEF IsConn, ConnFields
    <2> HIDE DEF n, w, c1, c2
    <2>5. CASE r = Ok(c1, n) /\ Len(w) < GREETING_LEN
      BY <1>1, <2>2, <2>4, <2>5 DEF Ok, Moves
    <2>6. CASE r = Ok(c2, n)
      BY <1>1, <2>2, <2>4, <2>6 DEF Ok, Moves
    <2> QED
      BY <2>3, <2>5, <2>6
  <1>2. CASE Halves(c, x, r) /\ c.state \notin {"Greeting", "Failed"}
    <2>1. r.n = 1 /\ Len(x) = 1
      BY <1>2 DEF Halves
    <2>2. r.conn.state = c.state
      BY <1>2 DEF Halves, IsConn, ConnFields
    <2>3. r.n \in 1 .. Len(x)
      BY <2>1
    <2> QED
      BY <1>2, <2>2, <2>3 DEF Moves
  <1>3. ASSUME NEW t, NEW g \in Seq(U), Len(g) < FRAME_LEN, Completes(c, x, t, g),
               c.state \notin {"Greeting", "Failed"},
               TakesStep(c, t, r, types) \/ Applies(U, c, t, r)
        PROVE  Moves(c, x, r)
    <2>1. r.n \in 1 .. Len(x)
      <3>1. r.n = 2 - Len(g) /\ Len(x) >= r.n /\ Len(g) < 2 /\ Len(g) \in Nat
        BY <1>3 DEF Completes, FRAME_LEN, TakesStep, Applies
      <3> QED
        BY <1>0, <3>1
    <2>2. CASE Applies(U, c, t, r)
      BY <2>1, <2>2 DEF Applies, Handled, Moves
    <2>3. CASE TakesStep(c, t, r, types)
      <3>1. "state" \in DOMAIN t.conn
        BY <1>3 DEF Completes, IsConn, ConnFields
      <3>2. PICK st \in {"PlainReady", "Established"} :
                    Advances(c, t.frame, st, types) /\ Restated(t.conn, r.conn, st)
        BY <2>3 DEF TakesStep
      <3>3. r.conn.state = st
        BY <3>1, <3>2 DEF Restated
      <3>4. st = "PlainReady" => c.state = "PlainHello"
        BY <3>2 DEF Advances
      <3> QED
        BY <2>1, <3>3, <3>4 DEF Moves
    <2> QED
      BY <1>3, <2>2, <2>3
  <1>4. \/ c.state = "Greeting" /\ r = FeedGreeting(c, x)
        \/ Halves(c, x, r) /\ c.state \notin {"Greeting", "Failed"}
        \/ \E t : \E g \in Seq(U) :
              /\ Len(g) < FRAME_LEN /\ Completes(c, x, t, g)
              /\ c.state \notin {"Greeting", "Failed"}
              /\ TakesStep(c, t, r, types) \/ Applies(U, c, t, r)
    BY DEF FeedsTo, Idles, Spoils, EndsHere
  <1> QED
    BY <1>1, <1>2, <1>3, <1>4

-----------------------------------------------------------------------------
(* The output *)

\* An item of the handshake is the next one.
LEMMA ShapeMore ==
    ASSUME NEW T, NEW o \in Seq(T), NEW e \in T, NEW c, NEW d, OutShape(c, o),
           c.state # "Established", NEW s \in Seq(HandshakeItems), Said(c) = s, Said(d) = Append(s, e.what)
    PROVE  OutShape(d, Append(o, e))
  <1>1. Len(o) = Len(s) /\ \A i \in DOMAIN o : o[i].what = s[i]
    BY DEF OutShape
  <1>2. /\ Len(Append(o, e)) = Len(o) + 1 /\ Len(Append(s, e.what)) = Len(s) + 1
        /\ \A i \in DOMAIN o : Append(o, e)[i] = o[i] /\ Append(s, e.what)[i] = s[i]
        /\ Append(o, e)[Len(o) + 1] = e /\ Append(s, e.what)[Len(o) + 1] = e.what
        /\ DOMAIN Append(o, e) = DOMAIN o \cup {Len(o) + 1}
        /\ \A i \in DOMAIN Append(o, e) : i <= Len(s) + 1
    BY <1>1
  <1> QED
    BY <1>1, <1>2 DEF OutShape

\* Messages and PONGs come after the handshake.
LEMMA ShapeTail ==
    ASSUME NEW T, NEW o \in Seq(T), NEW e \in T, NEW c, NEW d, OutShape(c, o),
           d.state = "Established", Said(d) = Said(c), Len(Said(c)) \in Nat,
           e.what \in {"MESSAGE", "PONG"}
    PROVE  OutShape(d, Append(o, e))
  <1>1. /\ Len(Append(o, e)) = Len(o) + 1 /\ Len(o) \in Nat
        /\ \A i \in DOMAIN o : Append(o, e)[i] = o[i]
        /\ Append(o, e)[Len(o) + 1] = e
        /\ DOMAIN Append(o, e) = DOMAIN o \cup {Len(o) + 1}
    OBVIOUS
  <1> QED
    BY <1>1 DEF OutShape

\* What was said is a sequence.
LEMMA SaidType == \A c : Said(c) \in Seq(HandshakeItems)
  <1>1. /\ <<>> \in Seq(HandshakeItems) /\ <<"GREETING">> \in Seq(HandshakeItems)
        /\ <<"GREETING", "WELCOME">> \in Seq(HandshakeItems)
        /\ <<"GREETING", "READY">> \in Seq(HandshakeItems)
        /\ <<"GREETING", "WELCOME", "READY">> \in Seq(HandshakeItems)
    BY DEF HandshakeItems
  <1> QED
    BY <1>1, Zenon DEF Said

\* Items.
LEMMA ItemTypes ==
    /\ \A what \in {"GREETING", "READY", "WELCOME", "ERROR", "CUT"} : Item(what, <<>>) \in Items
    /\ \A arg \in Topics \cup Groups : Item("MESSAGE", arg) \in Items
    /\ \A arg \in Seq(ContextsOf(Units)) : Item("PONG", arg) \in Items
  <1>1. <<>> \in Seq(ContextsOf(Units))
    OBVIOUS
  <1> QED
    BY <1>1 DEF Items, Item

\* What was written holds the PONGs due, but for the one that is pending.
LEMMA NoneOwed ==
    ASSUME NEW c, NEW u, NEW o, NEW types, Sound(c, u, o, types), c.pending_pong = <<>>
    PROVE  PongsIn(o) = PingsDue(c, u)
  <1> DEFINE p == PongsIn(o)
             Z == {e.arg[1] : e \in Items}
  <1>1. p \in Seq(Z) /\ p \o <<>> = PingsDue(c, u)
    BY PongsInType DEF Sound
  <1>2. p \o <<>> = p
    <2> HIDE DEF p, Z
    <2> QED
      BY <1>1
  <1> QED
    BY <1>1, <1>2, Zenon

\* feed keeps all this.
LEMMA SoundFed ==
    ASSUME NEW c, NEW u, NEW o, NEW types, Sound(c, u, o, types), Settled(c),
           NEW x \in Seq(Units), x # <<>>, NEW r, FeedsTo(Units, c, x, r, types), r.res = "Ok"
    PROVE  /\ Sound(r.conn, u \o SubSeq(x, 1, r.n), o, types)
           /\ Moves(c, x, r) /\ KeepsFlags(c, r.conn)
  <1> DEFINE v == u \o SubSeq(x, 1, r.n)
             d == r.conn
  <1>1. /\ IsConn(c, Units) /\ u \in Seq(Units) /\ o \in Seq(Items) /\ FedInv(c, u, FALSE, types)
        /\ SentInv(c, o) /\ OutShape(c, o) /\ c.pending_pong = <<>>
    BY DEF Sound, Settled
  <1>2. FedBy(u, x, r) = v /\ RejectedBy(c, FALSE, r) = FALSE
    BY DEF FedBy, RejectedBy
  <1>3. IsConn(d, Units) /\ v \in Seq(Units) /\ FedInv(d, v, FALSE, types)
    <2>1. PICK rej \in BOOLEAN : rej = FALSE
      OBVIOUS
    <2>2. FedInv(c, u, rej, types)
      BY <1>1, <2>1, Zenon
    <2>3. /\ IsConn(d, Units) /\ FedBy(u, x, r) \in Seq(Units)
          /\ FedInv(d, FedBy(u, x, r), RejectedBy(c, rej, r), types)
      BY <1>1, <2>2, FeedInv
    <2> QED
      BY <1>2, <2>1, <2>3, Zenon
  <1>4. KeepsFlags(c, d)
    BY <1>1, FeedKeepsFlags
  <1>5. SentInv(d, o)
    BY <1>1, FeedSentInv
  <1>6. OutShape(d, o)
    <2>1. Said(d) = Said(c)
      BY <1>4 DEF Said, KeepsFlags
    <2> QED
      BY <1>1, <1>4, <2>1 DEF OutShape, KeepsFlags
  <1>7. PongsIn(o) \o d.pending_pong = PingsDue(d, v)
    <2>1. PongsIn(o) = PingsDue(c, u)
      BY <1>1, NoneOwed
    <2>2. PICK rej \in BOOLEAN : rej = FALSE
      OBVIOUS
    <2>2a. FedInv(c, u, rej, types)
      BY <1>1, <2>2, Zenon
    <2>3. PingsDue(d, FedBy(u, x, r)) = PingsDue(c, u) \o d.pending_pong
      BY <1>1, <2>2a, FeedPings
    <2> QED
      BY <1>2, <2>1, <2>3, Zenon
  <1>8. Moves(c, x, r)
    BY <1>1, FeedMoves
  <1> HIDE DEF d, v
  <1>9. Sound(d, v, o, types)
    BY <1>1, <1>3, <1>5, <1>6, <1>7 DEF Sound
  <1> QED
    BY <1>4, <1>8, <1>9 DEF d, v


-----------------------------------------------------------------------------
(* The answers *)

\* An item of the handshake that was written with success keeps all this.
LEMMA SoundSays ==
    ASSUME NEW c, NEW u, NEW o, NEW types, Sound(c, u, o, types), c.state # "Established",
           NEW what \in HandshakeItems, NEW r, r.res = "Ok", r.n = 1,
           IsConn(r.conn, Units), FedInv(r.conn, u, FALSE, types),
           SentInv(r.conn, SentWith(o, r, what, <<>>)), SamePongs(c, r.conn),
           Said(r.conn) = Append(Said(c), what)
    PROVE  Sound(r.conn, u, Append(o, Item(what, <<>>)), types)
  <1> DEFINE d == r.conn
             e == Item(what, <<>>)
             s == Said(c)
  <1>1. /\ u \in Seq(Units) /\ o \in Seq(Items)
        /\ OutShape(c, o) /\ PongsIn(o) \o c.pending_pong = PingsDue(c, u)
    BY DEF Sound
  <1>2. e \in Items /\ e.what = what /\ e = [what |-> what, arg |-> <<>>]
    BY ItemTypes DEF Item, HandshakeItems
  <1>3. SentInv(d, Append(o, e))
    BY <1>2, Zenon DEF SentWith
  <1>4. Append(o, e) \in Seq(Items)
    <2> HIDE DEF e
    <2> QED
      BY <1>1, <1>2
  <1>5. OutShape(d, Append(o, e))
    <2>1. s \in Seq(HandshakeItems)
      BY SaidType
    <2>2. Said(d) = Append(s, e.what)
      BY <1>2
    <2> HIDE DEF d, e
    <2> QED
      BY <1>1, <1>2, <2>1, <2>2, ShapeMore
  <1>6. PongsIn(Append(o, e)) = PongsIn(o)
    <2>1. e.what # "PONG"
      BY <1>2 DEF HandshakeItems
    <2> HIDE DEF e
    <2> QED
      BY <1>1, <1>2, <2>1, PongsInAppend
  <1>7. PingsDue(d, u) = PingsDue(c, u) /\ d.pending_pong = c.pending_pong
    BY DEF PingsDue, SamePongs
  <1> HIDE DEF d, e
  <1>8. PongsIn(Append(o, e)) \o d.pending_pong = PingsDue(d, u)
    BY <1>1, <1>6, <1>7, Zenon
  <1>9. IsConn(d, Units) /\ FedInv(d, u, FALSE, types)
    BY DEF d
  <1>10. Sound(d, u, Append(o, e), types)
    BY <1>1, <1>3, <1>4, <1>5, <1>8, <1>9 DEF Sound
  <1> QED
    BY <1>10 DEF d, e

\* The flags of a connection.
Flags == {"our_greeting_sent", "our_ready_sent", "our_welcome_sent"}

\* d is c but for a flag that is set.
Flagged(c, d, flag) == DiffersIn(c, d, flag) /\ d[flag]

\* The greeting that a constructor encodes.
EncodeGreeting(c) == WriteGreeting(c, TRUE)

\* The encoders' buffers have room.
LEMMA Encoders ==
    /\ \A c : \E fits \in BOOLEAN : fits /\ EncodeGreeting(c) = WriteGreeting(c, fits)
    /\ \A c : \E fits \in BOOLEAN : fits /\ Encode(c, "READY") = WriteReady(c, fits)
    /\ \A c : \E fits \in BOOLEAN : fits /\ Encode(c, "WELCOME") = WriteWelcome(c, fits)
    /\ \A c : \E fits \in BOOLEAN : fits /\ Encode(c, "PONG") = WritePong(c, fits)
  <1> USE DEF Encode, EncodeGreeting
  <1>1. \A c : \E fits \in BOOLEAN : fits /\ EncodeGreeting(c) = WriteGreeting(c, fits)
    BY Zenon
  <1>2. \A c : \E fits \in BOOLEAN : fits /\ Encode(c, "READY") = WriteReady(c, fits)
    BY Zenon
  <1>3. \A c : \E fits \in BOOLEAN : fits /\ Encode(c, "WELCOME") = WriteWelcome(c, fits)
    BY Zenon
  <1>4. \A c : \E fits \in BOOLEAN : fits /\ Encode(c, "PONG") = WritePong(c, fits)
    BY Zenon
  <1> QED
    BY <1>1, <1>2, <1>3, <1>4, Zenon

\* A GREETING is written to begin with.
LEMMA SaysGreeting ==
    ASSUME NEW c, NEW u, NEW o, NEW types, Sound(c, u, o, types),
           c.state = "Greeting", ~c.our_greeting_sent, NEW r, r = EncodeGreeting(c)
    PROVE  /\ r.res = "Ok" /\ r.n = 1 /\ Flagged(c, r.conn, "our_greeting_sent")
           /\ Sound(r.conn, u, Append(o, Item("GREETING", <<>>)), types)
  <1> DEFINE d == r.conn
             c1 == [c EXCEPT !.our_greeting_sent = TRUE]
  <1>0. PICK fits \in BOOLEAN : fits /\ r = WriteGreeting(c, fits)
    BY Encoders, Zenon
  <1>1. /\ IsConn(c, Units) /\ o \in Seq(Items) /\ FedInv(c, u, FALSE, types) /\ SentInv(c, o)
    BY DEF Sound
  <1>2. [what |-> "GREETING", arg |-> <<>>] \in Items
    BY ItemTypes DEF Item
  <1>3. r = Ok(c1, 1)
    BY <1>0 DEF WriteGreeting
  <1>4. Flagged(c, c1, "our_greeting_sent")
    BY <1>1 DEF IsConn, ConnFields, Flagged, DiffersIn
  <1> HIDE DEF c1
  <1>5. r.res = "Ok" /\ r.n = 1 /\ d = c1
    BY <1>3 DEF Ok
  <1>6. IsConn(d, Units) /\ FedInv(d, u, FALSE, types)
    BY <1>0, <1>1, WriteGreetingInv
  <1>7. SentInv(d, SentWith(o, r, "GREETING", <<>>)) /\ SamePongs(c, d)
    BY <1>0, <1>1, <1>2, WriteGreetingSentInv
  <1>8. Said(d) = Append(Said(c), "GREETING")
    <2>1. ~c.our_ready_sent /\ ~c.our_welcome_sent
      BY <1>1 DEF FedInv, Greets
    <2>2. d.our_greeting_sent /\ ~d.our_ready_sent /\ ~d.our_welcome_sent
      BY <1>1, <1>4, <1>5, <2>1 DEF Flagged, DiffersIn, IsConn, ConnFields
    <2>3. Said(c) = <<>> /\ Said(d) = <<"GREETING">>
      BY <2>1, <2>2, Zenon DEF Said
    <2>4. <<"GREETING">> = Append(<<>>, "GREETING")
      OBVIOUS
    <2> QED
      BY <2>3, <2>4, Zenon
  <1> HIDE DEF d
  <1>9. Sound(d, u, Append(o, Item("GREETING", <<>>)), types)
    BY <1>1, <1>5, <1>6, <1>7, <1>8, SoundSays DEF HandshakeItems, d
  <1> QED
    BY <1>4, <1>5, <1>9, Zenon DEF d

\* READY is written once the peer was heard.
LEMMA SaysReady ==
    ASSUME NEW c, NEW u, NEW o, NEW types, Sound(c, u, o, types),
           c.state = "Ready" \/ (c.state = "PlainReady" /\ c.our_welcome_sent),
           ~c.our_ready_sent, NEW r, r = Encode(c, "READY")
    PROVE  /\ r.res = "Ok" /\ r.n = 1 /\ Flagged(c, r.conn, "our_ready_sent")
           /\ Sound(r.conn, u, Append(o, Item("READY", <<>>)), types)
  <1> DEFINE d == r.conn
             c1 == [c EXCEPT !.our_ready_sent = TRUE]
  <1>0. PICK fits \in BOOLEAN : fits /\ r = WriteReady(c, fits)
    BY Encoders, Zenon
  <1>1. /\ IsConn(c, Units) /\ o \in Seq(Items) /\ FedInv(c, u, FALSE, types) /\ SentInv(c, o)
    BY DEF Sound
  <1>2. [what |-> "READY", arg |-> <<>>] \in Items
    BY ItemTypes DEF Item
  <1>3. r = Ok(c1, 1)
    <2>1. MayWriteReady(c)
      BY <1>1 DEF MayWriteReady, FedInv, Received
    <2> QED
      BY <1>0, <2>1 DEF WriteReady
  <1>4. Flagged(c, c1, "our_ready_sent")
    BY <1>1 DEF IsConn, ConnFields, Flagged, DiffersIn
  <1> HIDE DEF c1
  <1>5. r.res = "Ok" /\ r.n = 1 /\ d = c1
    BY <1>3 DEF Ok
  <1>6. IsConn(d, Units) /\ FedInv(d, u, FALSE, types)
    BY <1>0, <1>1, WriteReadyInv
  <1>7. SentInv(d, SentWith(o, r, "READY", <<>>)) /\ SamePongs(c, d)
    BY <1>0, <1>1, <1>2, WriteReadySentInv
  <1>8. Said(d) = Append(Said(c), "READY")
    <2>1. c.our_greeting_sent
      BY <1>1 DEF FedInv, Greeted
    <2>2. d.our_greeting_sent /\ d.our_ready_sent /\ d.our_welcome_sent = c.our_welcome_sent
      BY <1>1, <1>4, <1>5, <2>1 DEF Flagged, DiffersIn, IsConn, ConnFields
    <2>3. \/ Said(c) = <<"GREETING">> /\ Said(d) = <<"GREETING", "READY">>
          \/ Said(c) = <<"GREETING", "WELCOME">> /\ Said(d) = <<"GREETING", "WELCOME", "READY">>
      BY <2>1, <2>2, Zenon DEF Said
    <2>4. /\ <<"GREETING", "READY">> = Append(<<"GREETING">>, "READY")
          /\ <<"GREETING", "WELCOME", "READY">> = Append(<<"GREETING", "WELCOME">>, "READY")
      OBVIOUS
    <2> QED
      BY <2>3, <2>4, Zenon
  <1> HIDE DEF d
  <1>9. Sound(d, u, Append(o, Item("READY", <<>>)), types)
    BY <1>1, <1>5, <1>6, <1>7, <1>8, SoundSays DEF HandshakeItems, d
  <1> QED
    BY <1>4, <1>5, <1>9, Zenon DEF d

\* WELCOME is written once HELLO was accepted.
LEMMA SaysWelcome ==
    ASSUME NEW c, NEW u, NEW o, NEW types, Sound(c, u, o, types),
           c.state = "PlainReady", ~c.our_welcome_sent, NEW r, r = Encode(c, "WELCOME")
    PROVE  /\ r.res = "Ok" /\ r.n = 1 /\ Flagged(c, r.conn, "our_welcome_sent")
           /\ Sound(r.conn, u, Append(o, Item("WELCOME", <<>>)), types)
  <1> DEFINE d == r.conn
             c1 == [c EXCEPT !.our_welcome_sent = TRUE]
  <1>0. PICK fits \in BOOLEAN : fits /\ r = WriteWelcome(c, fits)
    BY Encoders, Zenon
  <1>1. /\ IsConn(c, Units) /\ o \in Seq(Items) /\ FedInv(c, u, FALSE, types) /\ SentInv(c, o)
    BY DEF Sound
  <1>2. [what |-> "WELCOME", arg |-> <<>>] \in Items
    BY ItemTypes DEF Item
  <1>3. r = Ok(c1, 1)
    BY <1>0 DEF WriteWelcome
  <1>4. Flagged(c, c1, "our_welcome_sent")
    BY <1>1 DEF IsConn, ConnFields, Flagged, DiffersIn
  <1> HIDE DEF c1
  <1>5. r.res = "Ok" /\ r.n = 1 /\ d = c1
    BY <1>3 DEF Ok
  <1>6. IsConn(d, Units) /\ FedInv(d, u, FALSE, types)
    BY <1>0, <1>1, WriteWelcomeInv
  <1>7. SentInv(d, SentWith(o, r, "WELCOME", <<>>)) /\ SamePongs(c, d)
    BY <1>0, <1>1, <1>2, WriteWelcomeSentInv
  <1>8. Said(d) = Append(Said(c), "WELCOME")
    <2>1. c.our_greeting_sent /\ ~c.our_ready_sent
      BY <1>1 DEF FedInv, Greeted, Received, IsConn
    <2>2. d.our_greeting_sent /\ d.our_welcome_sent /\ ~d.our_ready_sent
      BY <1>1, <1>4, <1>5, <2>1 DEF Flagged, DiffersIn, IsConn, ConnFields
    <2>3. Said(c) = <<"GREETING">> /\ Said(d) = <<"GREETING", "WELCOME">>
      BY <2>1, <2>2, Zenon DEF Said
    <2>4. <<"GREETING", "WELCOME">> = Append(<<"GREETING">>, "WELCOME")
      OBVIOUS
    <2> QED
      BY <2>3, <2>4, Zenon
  <1> HIDE DEF d
  <1>9. Sound(d, u, Append(o, Item("WELCOME", <<>>)), types)
    BY <1>1, <1>5, <1>6, <1>7, <1>8, SoundSays DEF HandshakeItems, d
  <1> QED
    BY <1>4, <1>5, <1>9, Zenon DEF d

\* A PONG or a message keeps all this.
LEMMA SoundAdds ==
    ASSUME NEW c, NEW u, NEW o, NEW types, Sound(c, u, o, types), c.state = "Established",
           NEW what, what \in {"PONG", "MESSAGE"}, NEW arg, Item(what, arg) \in Items,
           NEW d, IsConn(d, Units), FedInv(d, u, FALSE, types), KeepsFlags(c, d),
           PongsIn(Append(o, Item(what, arg))) \o d.pending_pong = PingsDue(d, u)
    PROVE  Sound(d, u, Append(o, Item(what, arg)), types)
  <1> DEFINE e == Item(what, arg)
             r == Ok(d, 1)
  <1>1. u \in Seq(Units) /\ o \in Seq(Items) /\ OutShape(c, o) /\ SentInv(c, o)
    BY DEF Sound
  <1>2. e.what = what /\ e = [what |-> what, arg |-> arg] /\ e \in Items
    BY DEF Item
  <1>3. r.res = "Ok" /\ r.n = 1 /\ r.conn = d /\ d.state = c.state
    BY DEF Ok, KeepsFlags
  <1>4. SentInv(d, Append(o, e))
    <2> HIDE DEF r
    <2>1. SentInv(r.conn, SentWith(o, r, what, arg))
      BY <1>1, <1>2, <1>3, OtherSentInv
    <2>2. SentWith(o, r, what, arg) = Append(o, e)
      BY <1>2, <1>3, Zenon DEF SentWith
    <2> QED
      BY <1>3, <2>1, <2>2, Zenon
  <1>5. Append(o, e) \in Seq(Items)
    <2> HIDE DEF e
    <2> QED
      BY <1>1, <1>2
  <1>6. OutShape(d, Append(o, e))
    <2>1. Said(d) = Said(c)
      BY DEF Said, KeepsFlags
    <2>2. Len(Said(c)) \in Nat
      BY SaidType
    <2>3. e \in Items /\ e.what \in {"MESSAGE", "PONG"}
      BY <1>2
    <2> HIDE DEF e, r
    <2> QED
      BY <1>1, <1>3, <2>1, <2>2, <2>3, ShapeTail
  <1> HIDE DEF e, r
  <1>7. PongsIn(Append(o, e)) \o d.pending_pong = PingsDue(d, u)
    BY Zenon DEF e
  <1>8. Sound(d, u, Append(o, e), types)
    BY <1>1, <1>4, <1>5, <1>6, <1>7 DEF Sound
  <1> QED
    BY <1>8 DEF e

\* A message is written when the connection is established.
LEMMA SaysMessage ==
    ASSUME NEW c, NEW u, NEW o, NEW types, Sound(c, u, o, types), c.state = "Established",
           NEW arg \in Topics \cup Groups
    PROVE  Sound(c, u, Append(o, Item("MESSAGE", arg)), types)
  <1> DEFINE e == Item("MESSAGE", arg)
  <1>1. e \in Items /\ e.what # "PONG"
    BY ItemTypes DEF Item
  <1>2. /\ IsConn(c, Units) /\ o \in Seq(Items) /\ FedInv(c, u, FALSE, types)
        /\ PongsIn(o) \o c.pending_pong = PingsDue(c, u)
    BY DEF Sound
  <1>3. KeepsFlags(c, c)
    BY DEF KeepsFlags
  <1> HIDE DEF e
  <1>4. PongsIn(Append(o, e)) = PongsIn(o)
    BY <1>1, <1>2, PongsInAppend
  <1>5. PongsIn(Append(o, e)) \o c.pending_pong = PingsDue(c, u)
    BY <1>2, <1>4, Zenon
  <1> QED
    BY <1>1, <1>2, <1>3, <1>5, SoundAdds DEF e

\* The PONG that is pending, if there is one, is written.
LEMMA SaysPong ==
    ASSUME NEW c, NEW u, NEW o, NEW types, Sound(c, u, o, types), NEW r, r = Encode(c, "PONG")
    PROVE  /\ r.res = "Ok"
           /\ \/ c.pending_pong = <<>> /\ r.n = 0 /\ r.conn = c
              \/ /\ c.state = "Established" /\ r.n = 1
                 /\ DiffersIn(c, r.conn, "pending_pong") /\ r.conn.pending_pong = <<>>
                 /\ Sound(r.conn, u, Append(o, Item("PONG", c.pending_pong)), types)
  <1>0. PICK fits \in BOOLEAN : fits /\ r = WritePong(c, fits)
    BY Encoders, Zenon
  <1>1. /\ IsConn(c, Units) /\ o \in Seq(Items) /\ FedInv(c, u, FALSE, types)
        /\ PongsIn(o) \o c.pending_pong = PingsDue(c, u)
    BY DEF Sound
  <1>2. CASE c.pending_pong = <<>>
    BY <1>0, <1>2 DEF WritePong, Ok
  <1>3. CASE c.pending_pong # <<>>
    <2> DEFINE d == r.conn
               c1 == [c EXCEPT !.pending_pong = <<>>]
               e == Item("PONG", c.pending_pong)
    <2>1. r = Ok(c1, 1)
      BY <1>0, <1>3 DEF WritePong
    <2>2. DiffersIn(c, c1, "pending_pong") /\ c1.pending_pong = <<>>
      BY <1>1 DEF IsConn, ConnFields, DiffersIn
    <2> HIDE DEF c1
    <2>3. r.res = "Ok" /\ r.n = 1 /\ d = c1
      BY <2>1 DEF Ok
    <2>4. IsConn(d, Units) /\ FedInv(d, u, FALSE, types)
      BY <1>0, <1>1, WritePongInv
    <2>5. c.state = "Established"
      BY <1>1, <1>3 DEF FedInv, Received
    <2>6. /\ KeepsFlags(c, d) /\ d.pending_pong = <<>>
          /\ d.mechanism = c.mechanism /\ d.peer_version_minor = c.peer_version_minor
      BY <1>1, <2>2, <2>3 DEF DiffersIn, KeepsFlags, IsConn, ConnFields
    <2>7. e \in Items /\ e.what = "PONG" /\ e.arg = c.pending_pong
      BY <1>1, ItemTypes DEF Item, IsConn
    <2>8. PongsIn(Append(o, e)) \o d.pending_pong = PingsDue(d, u)
      <3> DEFINE p == PongsIn(o)
                 q == c.pending_pong
                 Z == {x.arg[1] : x \in Items}
      <3>1. PongsIn(Append(o, e)) = Append(p, q[1])
        <4> HIDE DEF e, p
        <4> QED
          BY <1>1, <2>7, PongsInAppend DEF p
      <3>2. p \in Seq(Z) /\ q \in Seq(ContextsOf(Units)) /\ Len(q) <= 1 /\ q # <<>>
        BY <1>1, <1>3, PongsInType DEF IsConn
      <3>3. Append(p, q[1]) \o <<>> = p \o q
        <4> DEFINE W == Z \cup ContextsOf(Units)
        <4>1. p \in Seq(W) /\ q \in Seq(W) /\ Len(q) <= 1 /\ q # <<>>
          <5> HIDE DEF p, q, Z
          <5> QED
            BY <3>2
        <4> HIDE DEF p, q, W
        <4>2. PICK z \in W : q = <<z>> /\ p \o q = Append(p, z)
          BY <4>1, PendingFacts
        <4>3. q[1] = z /\ Append(p, z) \in Seq(W)
          BY <4>1, <4>2
        <4>4. Append(p, z) \o <<>> = Append(p, z)
          BY <4>3
        <4> QED
          BY <4>2, <4>3, <4>4, Zenon
      <3>4. PingsDue(d, u) = PingsDue(c, u)
        BY <2>6 DEF PingsDue
      <3> QED
        BY <1>1, <2>6, <3>1, <3>3, <3>4, Zenon
    <2> HIDE DEF d, e
    <2>9. Sound(d, u, Append(o, e), types)
      BY <2>4, <2>5, <2>6, <2>7, <2>8, SoundAdds DEF e
    <2> QED
      BY <2>2, <2>3, <2>5, <2>9, Zenon DEF d, e
  <1> QED
    BY <1>2, <1>3

\* Between c and d nothing changes but what was said and what is pending.
Answered(c, d) ==
    /\ DOMAIN d = DOMAIN c
    /\ \A k \in DOMAIN c : k \notin Flags \cup {"pending_pong"} => d[k] = c[k]

\* The answers a of the connection d, to which v was fed, go well after o.
Good(d, v, o, a, types) ==
    /\ a.res = "Ok" /\ a.items \in Seq(Items)
    /\ Sound(a.conn, v, o \o a.items, types)
    /\ Answered(d, a.conn)

\* No answers yet.
None(d) == [conn |-> d, res |-> "Ok", items |-> <<>>]

\* The answers, for the lists of answers there are.
LEMMA AnswersAre ==
    /\ \A d : Answers(d, <<>>) = None(d)
    /\ \A d, w : Answers(d, <<w>>) = Answer(None(d), w)
    /\ \A d, w, z : Answers(d, <<w, z>>) = Answer(Answer(None(d), w), z)
  <1>1. ASSUME NEW d
        PROVE  Answers(d, <<>>) = None(d)
    BY DEF Answers, None
  <1>2. ASSUME NEW d, NEW w
        PROVE  Answers(d, <<w>>) = Answer(None(d), w)
    <2>1. Len(<<w>>) = 1 /\ <<w>>[1] = w
      OBVIOUS
    <2> QED
      BY <2>1 DEF Answers, None
  <1>3. ASSUME NEW d, NEW w, NEW z
        PROVE  Answers(d, <<w, z>>) = Answer(Answer(None(d), w), z)
    <2>1. Len(<<w, z>>) = 2 /\ <<w, z>>[1] = w /\ <<w, z>>[2] = z
      OBVIOUS
    <2> QED
      BY <2>1 DEF Answers, None
  <1> QED
    BY <1>1, <1>2, <1>3

\* One more answer of the handshake.
LEMMA AnswerIs ==
    ASSUME NEW acc, acc.res = "Ok", NEW what, what # "PONG", NEW r, r = Encode(acc.conn, what), r.n = 1
    PROVE  /\ Answer(acc, what).conn = r.conn /\ Answer(acc, what).res = r.res
           /\ Answer(acc, what).items = Append(acc.items, Item(what, <<>>))
  BY DEF Answer

\* The only answer, when it is a PONG.
LEMMA PongIs ==
    ASSUME NEW d, NEW r, r = Encode(d, "PONG")
    PROVE  /\ Answer(None(d), "PONG").conn = r.conn /\ Answer(None(d), "PONG").res = r.res
           /\ Answer(None(d), "PONG").items =
                 IF r.n = 1 THEN Append(<<>>, Item("PONG", d.pending_pong)) ELSE <<>>
  BY DEF Answer, None

\* A list without answers.
LEMMA NoneGood ==
    ASSUME NEW d, NEW v, NEW o, NEW types, Sound(d, v, o, types)
    PROVE  Good(d, v, o, None(d), types)
  <1>1. o \in Seq(Items)
    BY DEF Sound
  <1>2. o \o <<>> = o /\ <<>> \in Seq(Items)
    BY <1>1
  <1>3. Answered(d, d)
    BY DEF Answered
  <1>4. None(d).conn = d /\ None(d).res = "Ok" /\ None(d).items = <<>>
    BY DEF None
  <1> QED
    BY <1>2, <1>3, <1>4, Zenon DEF Good

\* The encoder of what goes well after the answers acc, and sets flag.
Encoded(acc, what, flag, r, v, o, types) ==
    /\ r = Encode(acc.conn, what) /\ r.res = "Ok" /\ r.n = 1
    /\ Flagged(acc.conn, r.conn, flag)
    /\ Sound(r.conn, v, Append(o \o acc.items, Item(what, <<>>)), types)

\* An answer of the handshake goes well if its encoder does.
LEMMA GoodMore ==
    ASSUME NEW d, NEW v, NEW o, NEW types, o \in Seq(Items), NEW acc, Good(d, v, o, acc, types),
           NEW what \in HandshakeItems, NEW flag \in Flags, NEW r,
           Encoded(acc, what, flag, r, v, o, types), NEW a, a = Answer(acc, what)
    PROVE  Good(d, v, o, a, types) /\ Flagged(acc.conn, a.conn, flag)
  <1>0. /\ r = Encode(acc.conn, what) /\ r.res = "Ok" /\ r.n = 1
        /\ Flagged(acc.conn, r.conn, flag)
        /\ Sound(r.conn, v, Append(o \o acc.items, Item(what, <<>>)), types)
    BY DEF Encoded
  <1> DEFINE e == Item(what, <<>>)
  <1>1. /\ acc.res = "Ok" /\ acc.items \in Seq(Items) /\ Answered(d, acc.conn)
    BY DEF Good
  <1>2. what # "PONG" /\ e \in Items
    BY ItemTypes DEF HandshakeItems
  <1> HIDE DEF e
  <1>3. a.conn = r.conn /\ a.res = r.res /\ a.items = Append(acc.items, e)
    <2>1. /\ Answer(acc, what).conn = r.conn /\ Answer(acc, what).res = r.res
          /\ Answer(acc, what).items = Append(acc.items, Item(what, <<>>))
      BY <1>0, <1>1, <1>2, AnswerIs
    <2> QED
      BY <2>1, Zenon DEF e
  <1>4. Append(acc.items, e) \in Seq(Items) /\ o \o Append(acc.items, e) = Append(o \o acc.items, e)
    BY <1>1, <1>2, AppendEnd
  <1>5. Sound(a.conn, v, o \o a.items, types)
    BY <1>0, <1>3, <1>4, Zenon DEF e
  <1>6. Answered(d, r.conn)
    BY <1>0, <1>1 DEF Answered, Flagged, DiffersIn
  <1> QED
    BY <1>0, <1>3, <1>4, <1>5, <1>6, Zenon DEF Good

\* A PONG goes well.
LEMMA PongGood ==
    ASSUME NEW d, NEW v, NEW o, NEW types, Sound(d, v, o, types),
           NEW a, a = Answer(None(d), "PONG")
    PROVE  Good(d, v, o, a, types) /\ a.conn.pending_pong = <<>> /\ KeepsFlags(d, a.conn)
  <1> DEFINE e == Item("PONG", d.pending_pong)
             r == Encode(d, "PONG")
             n == None(d)
  <1>1. n.conn = d /\ n.res = "Ok" /\ n.items = <<>>
    BY DEF None
  <1>2. a.conn = r.conn /\ a.res = r.res /\ a.items = IF r.n = 1 THEN Append(<<>>, e) ELSE <<>>
    <2> HIDE DEF r
    <2>1. r = Encode(d, "PONG")
      BY DEF r
    <2> QED
      BY <2>1, PongIs, Zenon
  <1>3. o \in Seq(Items) /\ IsConn(d, Units)
    BY DEF Sound
  <1>4. e \in Items
    BY <1>3, ItemTypes DEF IsConn
  <1> HIDE DEF e, r, n
  <1>5. CASE d.pending_pong = <<>> /\ r.res = "Ok" /\ r.n = 0 /\ r.conn = d
    <2>1. Good(d, v, o, n, types)
      BY NoneGood DEF n
    <2>2. a.conn = n.conn /\ a.res = n.res /\ a.items = n.items
      BY <1>1, <1>2, <1>5
    <2>3. Good(d, v, o, a, types)
      BY <2>1, <2>2, Zenon DEF Good
    <2>4. KeepsFlags(d, d)
      BY DEF KeepsFlags
    <2> QED
      BY <1>2, <1>5, <2>3, <2>4, Zenon
  <1>6. CASE /\ r.res = "Ok" /\ r.n = 1
             /\ DiffersIn(d, r.conn, "pending_pong") /\ r.conn.pending_pong = <<>>
             /\ Sound(r.conn, v, Append(o, e), types)
    <2>1. a.items = Append(<<>>, e)
      BY <1>2, <1>6
    <2>2. Append(<<>>, e) \in Seq(Items) /\ o \o Append(<<>>, e) = Append(o, e)
      BY <1>3, <1>4
    <2>3. Sound(a.conn, v, o \o a.items, types)
      BY <1>2, <1>6, <2>1, <2>2, Zenon
    <2>4. Answered(d, r.conn) /\ KeepsFlags(d, r.conn)
      BY <1>3, <1>6 DEF Answered, DiffersIn, KeepsFlags, IsConn, ConnFields
    <2> QED
      BY <1>2, <1>6, <2>1, <2>2, <2>3, <2>4, Zenon DEF Good
  <1> QED
    BY <1>5, <1>6, SaysPong DEF r, e

\* When feed has taken a connection from state prev to d, ws are the answers.
Replied(prev, d, ws) ==
    \/ ws = <<"READY">> /\ prev = "Greeting" /\ d.state = "Ready"
    \/ ws = <<"WELCOME", "READY">> /\ prev = "PlainHello" /\ d.state = "PlainReady"
    \/ /\ ws = <<"PONG">>
       /\ ~(prev = "Greeting" /\ d.state = "Ready")
       /\ ~(prev = "PlainHello" /\ d.state = "PlainReady")

\* What feed has led to from a connection that owed nothing.
Arrived(c, x, r, v, o, types) ==
    /\ Settled(c) /\ Moves(c, x, r) /\ KeepsFlags(c, r.conn)
    /\ \E u : Sound(c, u, o, types)
    /\ Sound(r.conn, v, o, types)

\* The READY of NULL goes well.
LEMMA ReadyGood ==
    ASSUME NEW d, NEW v, NEW o, NEW types, Sound(d, v, o, types),
           d.state = "Ready", ~d.our_ready_sent, NEW a, a = Answer(None(d), "READY")
    PROVE  Good(d, v, o, a, types) /\ Flagged(d, a.conn, "our_ready_sent")
  <1> DEFINE n == None(d)
             r == Encode(d, "READY")
  <1>1. n.conn = d /\ n.res = "Ok" /\ n.items = <<>>
    BY DEF None
  <1>2. o \in Seq(Items)
    BY DEF Sound
  <1>3. o \o <<>> = o
    BY <1>2
  <1>4. Good(d, v, o, n, types)
    BY NoneGood
  <1> HIDE DEF n, r
  <1>5. /\ r.res = "Ok" /\ r.n = 1 /\ Flagged(d, r.conn, "our_ready_sent")
        /\ Sound(r.conn, v, Append(o, Item("READY", <<>>)), types)
    BY SaysReady DEF r
  <1>6. Sound(r.conn, v, Append(o \o n.items, Item("READY", <<>>)), types)
    BY <1>1, <1>3, <1>5, Zenon
  <1>7. Encoded(n, "READY", "our_ready_sent", r, v, o, types)
    BY <1>1, <1>5, <1>6, Zenon DEF Encoded, r
  <1>8. "READY" \in HandshakeItems /\ "our_ready_sent" \in Flags
    BY DEF HandshakeItems, Flags
  <1>9. Good(d, v, o, Answer(n, "READY"), types) /\ Flagged(n.conn, Answer(n, "READY").conn, "our_ready_sent")
    BY <1>2, <1>4, <1>7, <1>8, GoodMore
  <1> QED
    BY <1>1, <1>9, Zenon DEF n

\* The WELCOME of PLAIN goes well.
LEMMA WelcomeGood ==
    ASSUME NEW d, NEW v, NEW o, NEW types, Sound(d, v, o, types),
           d.state = "PlainReady", ~d.our_welcome_sent, NEW a, a = Answer(None(d), "WELCOME")
    PROVE  Good(d, v, o, a, types) /\ Flagged(d, a.conn, "our_welcome_sent")
  <1> DEFINE n == None(d)
             r == Encode(d, "WELCOME")
  <1>1. n.conn = d /\ n.res = "Ok" /\ n.items = <<>>
    BY DEF None
  <1>2. o \in Seq(Items)
    BY DEF Sound
  <1>3. o \o <<>> = o
    BY <1>2
  <1>4. Good(d, v, o, n, types)
    BY NoneGood
  <1> HIDE DEF n, r
  <1>5. /\ r.res = "Ok" /\ r.n = 1 /\ Flagged(d, r.conn, "our_welcome_sent")
        /\ Sound(r.conn, v, Append(o, Item("WELCOME", <<>>)), types)
    BY SaysWelcome DEF r
  <1>6. Sound(r.conn, v, Append(o \o n.items, Item("WELCOME", <<>>)), types)
    BY <1>1, <1>3, <1>5, Zenon
  <1>7. Encoded(n, "WELCOME", "our_welcome_sent", r, v, o, types)
    BY <1>1, <1>5, <1>6, Zenon DEF Encoded, r
  <1>8. "WELCOME" \in HandshakeItems /\ "our_welcome_sent" \in Flags
    BY DEF HandshakeItems, Flags
  <1>9. Good(d, v, o, Answer(n, "WELCOME"), types) /\ Flagged(n.conn, Answer(n, "WELCOME").conn, "our_welcome_sent")
    BY <1>2, <1>4, <1>7, <1>8, GoodMore
  <1> QED
    BY <1>1, <1>9, Zenon DEF n

\* The READY that follows WELCOME goes well.
LEMMA WelcomeReadyGood ==
    ASSUME NEW d, NEW v, NEW o, NEW types, Sound(d, v, o, types),
           d.state = "PlainReady", ~d.our_welcome_sent, ~d.our_ready_sent,
           NEW b, b = Answer(None(d), "WELCOME"), NEW a, a = Answer(b, "READY")
    PROVE  /\ Good(d, v, o, a, types)
           /\ Flagged(d, b.conn, "our_welcome_sent") /\ Flagged(b.conn, a.conn, "our_ready_sent")
  <1> DEFINE r == Encode(b.conn, "READY")
  <1>1. Good(d, v, o, b, types) /\ Flagged(d, b.conn, "our_welcome_sent")
    BY WelcomeGood
  <1>2. o \in Seq(Items) /\ ConnFields \subseteq DOMAIN d
    BY DEF Sound, IsConn
  <1>3. Sound(b.conn, v, o \o b.items, types)
    BY <1>1 DEF Good
  <1>4. b.conn.state = "PlainReady" /\ ~b.conn.our_ready_sent /\ b.conn.our_welcome_sent
    BY <1>1, <1>2 DEF Flagged, DiffersIn, ConnFields
  <1> HIDE DEF r
  <1>5. /\ r.res = "Ok" /\ r.n = 1 /\ Flagged(b.conn, r.conn, "our_ready_sent")
        /\ Sound(r.conn, v, Append(o \o b.items, Item("READY", <<>>)), types)
    BY <1>3, <1>4, SaysReady DEF r
  <1>6. Encoded(b, "READY", "our_ready_sent", r, v, o, types)
    BY <1>5, Zenon DEF Encoded, r
  <1>7. "READY" \in HandshakeItems /\ "our_ready_sent" \in Flags
    BY DEF HandshakeItems, Flags
  <1>8. Good(d, v, o, a, types) /\ Flagged(b.conn, a.conn, "our_ready_sent")
    BY <1>1, <1>2, <1>6, <1>7, GoodMore
  <1> QED
    BY <1>1, <1>8, Zenon

\* All the answers go well, and nothing is owed then.
LEMMA AnswersGood ==
    ASSUME NEW c, NEW x, NEW r, NEW v, NEW o, NEW types, Arrived(c, x, r, v, o, types),
           NEW ws, Replied(c.state, r.conn, ws), NEW a, a = Answers(r.conn, ws)
    PROVE  Good(r.conn, v, o, a, types) /\ Settled(a.conn)
  <1> DEFINE d == r.conn
  <1>1. PICK u : Sound(c, u, o, types)
    BY DEF Arrived
  <1>2. /\ Settled(c) /\ Moves(c, x, r) /\ KeepsFlags(c, d) /\ Sound(d, v, o, types)
    BY DEF Arrived
  <1>3. /\ IsConn(c, Units) /\ FedInv(c, u, FALSE, types)
        /\ IsConn(d, Units) /\ FedInv(d, v, FALSE, types)
    BY <1>1, <1>2 DEF Sound
  <1>4. /\ d.our_greeting_sent /\ d.state # "Failed"
        /\ d.state = "Greeting" => Len(d.greeting_buf) < GREETING_LEN
        /\ d.state # "Established" => d.pending_pong = <<>>
        /\ d.our_ready_sent = c.our_ready_sent /\ d.our_welcome_sent = c.our_welcome_sent
    BY <1>2, <1>3 DEF Settled, Moves, KeepsFlags, FedInv, Received
  <1>5. CASE ws = <<"READY">> /\ c.state = "Greeting" /\ d.state = "Ready"
    <2>1. ~d.our_ready_sent
      BY <1>3, <1>4, <1>5 DEF FedInv, Greets
    <2>2. a = Answer(None(d), "READY")
      BY <1>5, AnswersAre, Zenon
    <2>3. Good(d, v, o, a, types) /\ Flagged(d, a.conn, "our_ready_sent")
      BY <1>2, <1>5, <2>1, <2>2, ReadyGood
    <2>4. a.conn.state = "Ready" /\ a.conn.our_greeting_sent /\ a.conn.our_ready_sent /\ a.conn.pending_pong = <<>>
      BY <1>3, <1>4, <1>5, <2>3 DEF Flagged, DiffersIn, IsConn, ConnFields
    <2> QED
      BY <2>3, <2>4 DEF Settled
  <1>6. CASE ws = <<"WELCOME", "READY">> /\ c.state = "PlainHello" /\ d.state = "PlainReady"
    <2> DEFINE b == Answer(None(d), "WELCOME")
    <2>1. ~c.our_welcome_sent /\ ~c.our_ready_sent
      BY <1>3, <1>6 DEF FedInv, Received, IsConn
    <2>1a. ~d.our_welcome_sent /\ ~d.our_ready_sent
      BY <2>1, <1>4
    <2>2. a = Answer(b, "READY")
      <3>1. Answers(d, <<"WELCOME", "READY">>) = Answer(b, "READY")
        BY AnswersAre
      <3> HIDE DEF b
      <3> QED
        BY <1>6, <3>1, Zenon
    <2>3. /\ Good(d, v, o, a, types)
          /\ Flagged(d, b.conn, "our_welcome_sent") /\ Flagged(b.conn, a.conn, "our_ready_sent")
      BY <1>2, <1>6, <2>1a, <2>2, WelcomeReadyGood
    <2> HIDE DEF b
    <2>4. /\ a.conn.state = "PlainReady" /\ a.conn.our_greeting_sent
          /\ a.conn.our_ready_sent /\ a.conn.pending_pong = <<>>
      BY <1>3, <1>4, <1>6, <2>3 DEF Flagged, DiffersIn, IsConn, ConnFields
    <2> QED
      BY <2>3, <2>4 DEF Settled
  <1>7. CASE /\ ws = <<"PONG">>
             /\ ~(c.state = "Greeting" /\ d.state = "Ready")
             /\ ~(c.state = "PlainHello" /\ d.state = "PlainReady")
    <2>1. a = Answer(None(d), "PONG")
      BY <1>7, AnswersAre, Zenon
    <2>2. Good(d, v, o, a, types) /\ a.conn.pending_pong = <<>> /\ KeepsFlags(d, a.conn)
      BY <1>2, <2>1, PongGood
    <2>3. a.conn.state = d.state /\ a.conn.greeting_buf = d.greeting_buf
      BY <1>3, <2>2 DEF Good, Answered, Flags, IsConn, ConnFields
    <2>4. d.state \in {"Ready", "PlainReady"} => c.state = d.state
      BY <1>2, <1>7 DEF Moves
    <2>5. a.conn.state \in {"Ready", "PlainReady"} => a.conn.our_ready_sent
      BY <1>2, <1>4, <2>2, <2>3, <2>4 DEF Settled, KeepsFlags
    <2> QED
      BY <1>4, <2>2, <2>3, <2>5 DEF Settled, KeepsFlags
  <1> QED
    BY <1>5, <1>6, <1>7 DEF Replied

\* As many of the answers as are written before one fails go well.
LEMMA AnswersBegin ==
    ASSUME NEW c, NEW x, NEW r, NEW v, NEW o, NEW types, Arrived(c, x, r, v, o, types),
           NEW ws, Replied(c.state, r.conn, ws), NEW k \in DOMAIN ws,
           NEW a, a = Answers(r.conn, SubSeq(ws, 1, k)),
           NEW b, b = Answers(r.conn, SubSeq(ws, 1, k - 1))
    PROVE  Good(r.conn, v, o, a, types) /\ Good(r.conn, v, o, b, types)
  <1> DEFINE d == r.conn
  <1>1. Sound(d, v, o, types)
    BY DEF Arrived
  <1>2. Answers(d, <<>>) = None(d) /\ Good(d, v, o, None(d), types)
    BY <1>1, AnswersAre, NoneGood
  <1>3. Good(d, v, o, Answers(d, ws), types)
    BY AnswersGood
  <1>4. ASSUME NEW w, ws = <<w>>
        PROVE  Good(d, v, o, a, types) /\ Good(d, v, o, b, types)
    <2>1. DOMAIN <<w>> = {1} /\ SubSeq(<<w>>, 1, 1) = <<w>> /\ SubSeq(<<w>>, 1, 0) = <<>>
      BY TupleParts
    <2>2. k = 1 /\ k - 1 = 0
      BY <1>4, <2>1
    <2> QED
      BY <1>2, <1>3, <1>4, <2>1, <2>2, Zenon
  <1>5. CASE ws = <<"WELCOME", "READY">> /\ c.state = "PlainHello" /\ d.state = "PlainReady"
    <2>1. /\ SubSeq(ws, 1, 0) = <<>> /\ SubSeq(ws, 1, 1) = <<"WELCOME">> /\ SubSeq(ws, 1, 2) = ws
          /\ DOMAIN ws = {1, 2}
      BY <1>5, TupleParts, Zenon
    <2>1a. (k = 1 /\ k - 1 = 0) \/ (k = 2 /\ k - 1 = 1)
      BY <2>1
    <2>2. Answers(d, <<"WELCOME">>) = Answer(None(d), "WELCOME")
      BY AnswersAre, Zenon
    <2>3. ~d.our_welcome_sent
      BY <1>5 DEF Arrived, Sound, FedInv, Received, KeepsFlags
    <2>4. Good(d, v, o, Answers(d, <<"WELCOME">>), types)
      BY <1>1, <1>5, <2>2, <2>3, WelcomeGood
    <2>5. CASE k = 1 /\ k - 1 = 0
      BY <1>2, <2>1, <2>4, <2>5, Zenon
    <2>6. CASE k = 2 /\ k - 1 = 1
      BY <1>3, <2>1, <2>4, <2>6, Zenon
    <2> QED
      BY <2>1a, <2>5, <2>6
  <1> QED
    BY <1>4, <1>5 DEF Replied

-----------------------------------------------------------------------------
(* What the peer receives *)

\* OutputWellFormed, of what was written, the mechanism and the place.
WellFormed(o, m, p) ==
    LET hs == Len(HandshakeIn(o))
    IN  /\ IsPrefix(HandshakeIn(o), FullHandshake(m))
        /\ \A i \in DOMAIN o :
              /\ o[i].what \in {"MESSAGE", "PONG"} => i > Len(FullHandshake(m))
              /\ o[i].what \in {"ERROR", "CUT"} => i = Len(o) /\ p \in {"closed", "refused"}
        /\ \A i \in 1 .. hs : o[i].what = HandshakeIn(o)[i]

\* As it is used, now and in the next state.
LEMMA WellFormedIs ==
    /\ OutputWellFormed <=> WellFormed(out, conn.mechanism, pc)
    /\ OutputWellFormed' <=> WellFormed(out', conn'.mechanism, pc')
  BY DEF OutputWellFormed, WellFormed, Live

\* What was said is the beginning of the handshake, and all of it when the
\* connection is established.
LEMMA SaidInOrder ==
    ASSUME NEW U, NEW c, IsConn(c, U), NEW u, NEW types, FedInv(c, u, FALSE, types)
    PROVE  /\ IsPrefix(Said(c), FullHandshake(c.mechanism))
           /\ c.state = "Established" => Said(c) = FullHandshake(c.mechanism)
  <1>1. /\ c.mechanism \in {"Null", "Plain"}
        /\ c.our_greeting_sent \in BOOLEAN /\ c.our_ready_sent \in BOOLEAN /\ c.our_welcome_sent \in BOOLEAN
        /\ c.state = "Greeting" => ~c.our_ready_sent /\ ~c.our_welcome_sent
        /\ c.state # "Greeting" => c.our_greeting_sent
        /\ c.our_welcome_sent => c.mechanism = "Plain"
        /\ c.our_ready_sent /\ c.mechanism = "Plain" => c.our_welcome_sent
        /\ c.state = "Established" => c.our_ready_sent
    BY DEF IsConn, Mechanisms, FedInv, Greets, Greeted, Received
  <1>2. /\ FullHandshake("Null") = <<"GREETING", "READY">>
        /\ FullHandshake("Plain") = <<"GREETING", "WELCOME", "READY">>
    BY DEF FullHandshake
  <1>3. CASE c.mechanism = "Null"
    <2> DEFINE full == <<"GREETING", "READY">>
    <2>1. \/ Said(c) = <<>> /\ c.state # "Established"
          \/ Said(c) = <<"GREETING">> /\ c.state # "Established"
          \/ Said(c) = full
      BY <1>1, <1>3, Zenon DEF Said
    <2>2. IsPrefix(<<>>, full) /\ IsPrefix(<<"GREETING">>, full) /\ IsPrefix(full, full)
      BY DEF IsPrefix
    <2> QED
      BY <1>2, <1>3, <2>1, <2>2, Zenon
  <1>4. CASE c.mechanism = "Plain"
    <2> DEFINE full == <<"GREETING", "WELCOME", "READY">>
    <2>1. \/ Said(c) = <<>> /\ c.state # "Established"
          \/ Said(c) = <<"GREETING">> /\ c.state # "Established"
          \/ Said(c) = <<"GREETING", "WELCOME">> /\ c.state # "Established"
          \/ Said(c) = full
      BY <1>1, <1>4, Zenon DEF Said
    <2>2. /\ IsPrefix(<<>>, full) /\ IsPrefix(<<"GREETING">>, full)
          /\ IsPrefix(<<"GREETING", "WELCOME">>, full) /\ IsPrefix(full, full)
      BY DEF IsPrefix
    <2> QED
      BY <1>2, <1>4, <2>1, <2>2, Zenon
  <1> QED
    BY <1>1, <1>3, <1>4

\* What was written while nothing went wrong is well formed.
LEMMA SoundWellFormed ==
    ASSUME NEW c, NEW u, NEW o, NEW types, Sound(c, u, o, types), NEW p
    PROVE  WellFormed(o, c.mechanism, p)
  <1> DEFINE s == Said(c)
             full == FullHandshake(c.mechanism)
  <1>1. /\ IsConn(c, Units) /\ FedInv(c, u, FALSE, types) /\ OutShape(c, o) /\ HandshakeIn(o) = s
        /\ o \in Seq(Items)
    BY DEF Sound, SentInv
  <1>2. IsPrefix(s, full) /\ (c.state = "Established" => s = full)
    BY <1>1, SaidInOrder
  <1>3. s \in Seq(HandshakeItems)
    BY SaidType
  <1>4. \A i \in 1 .. Len(s) : s[i] \notin {"MESSAGE", "PONG", "ERROR", "CUT"}
    <2> HIDE DEF s
    <2> QED
      BY <1>3 DEF HandshakeItems
  <1>5. /\ Len(s) <= Len(o) /\ Len(s) \in Nat
        /\ Len(s) < Len(o) => c.state = "Established"
        /\ \A i \in DOMAIN o : IF i <= Len(s) THEN o[i].what = s[i] ELSE o[i].what \in {"MESSAGE", "PONG"}
    BY <1>1, <1>3 DEF OutShape
  <1>6. DOMAIN o = 1 .. Len(o) /\ Len(o) \in Nat
    BY <1>1
  <1> HIDE DEF s, full
  <1>7. ASSUME NEW i \in DOMAIN o
        PROVE  /\ o[i].what \in {"MESSAGE", "PONG"} => i > Len(full)
               /\ o[i].what \notin {"ERROR", "CUT"}
    <2>1. CASE i <= Len(s)
      BY <1>4, <1>5, <1>6, <2>1
    <2>2. CASE ~(i <= Len(s))
      BY <1>2, <1>5, <1>6, <2>2
    <2> QED
      BY <2>1, <2>2
  <1>8. \A i \in 1 .. Len(s) : o[i].what = s[i]
    BY <1>5, <1>6
  <1> QED
    BY <1>1, <1>2, <1>7, <1>8, Zenon DEF WellFormed, full

\* The last thing may be an ERROR or a part of an item.
LEMMA LastWellFormed ==
    ASSUME NEW c, NEW u, NEW o, NEW types, Sound(c, u, o, types), NEW m, m = c.mechanism,
           NEW e \in Items, e.what \in {"ERROR", "CUT"}, NEW p \in {"closed", "refused"}
    PROVE  WellFormed(Append(o, e), m, p)
  <1> DEFINE h == HandshakeIn(o)
             v == Append(o, e)
             full == FullHandshake(m)
  <1>0. o \in Seq(Items) /\ h = Said(c) /\ Len(Said(c)) <= Len(o)
    BY DEF Sound, SentInv, OutShape
  <1>1. HandshakeIn(v) = h
    <2>1. e.what \notin HandshakeItems
      BY DEF HandshakeItems
    <2> QED
      BY <1>0, <2>1, HandshakeInAppend
  <1>2. /\ IsPrefix(h, full)
        /\ \A i \in DOMAIN o :
              /\ o[i].what \in {"MESSAGE", "PONG"} => i > Len(full)
              /\ o[i].what \notin {"ERROR", "CUT"}
        /\ \A i \in 1 .. Len(h) : o[i].what = h[i]
    <2>1. WellFormed(o, m, "idle")
      BY SoundWellFormed
    <2> QED
      BY <2>1 DEF WellFormed
  <1>4. /\ DOMAIN v = DOMAIN o \cup {Len(v)} /\ v[Len(v)] = e
        /\ \A i \in DOMAIN o : v[i] = o[i]
    BY <1>0
  <1>4a. DOMAIN o = 1 .. Len(o) /\ Len(o) \in Nat
    BY <1>0
  <1>5. Len(h) <= Len(o) /\ Len(h) \in Nat
    BY <1>0, SaidType
  <1> HIDE DEF h, v, full
  <1>6. \A i \in DOMAIN v :
              /\ v[i].what \in {"MESSAGE", "PONG"} => i > Len(full)
              /\ v[i].what \in {"ERROR", "CUT"} => i = Len(v) /\ p \in {"closed", "refused"}
    BY <1>2, <1>4
  <1>7. \A i \in 1 .. Len(h) : v[i].what = h[i]
    <2> TAKE i \in 1 .. Len(h)
    <2>1. i \in DOMAIN o
      BY <1>4a, <1>5
    <2> QED
      BY <1>2, <1>4, <2>1
  <1>8. WellFormed(v, m, p)
    BY <1>1, <1>2, <1>6, <1>7, Zenon DEF WellFormed, full
  <1> QED
    BY <1>8 DEF v

-----------------------------------------------------------------------------
(* Both drivers run the same loop *)

\* The RADIO connection of RadioDriver is that of Sockets.
LEMMA SameRadio ==
    /\ \A c, x : R!Radio!FeedConn(c, x) = Radio!FeedConn(c, x)
    /\ \A c, g : R!Radio!PublishHeaders(c, g) = Radio!PublishHeaders(c, g)
  <1>1. \A c, n : R!Radio!H!Ok(c, n) = Radio!H!Ok(c, n)
    BY Zenon DEF R!Radio!H!Ok, Radio!H!Ok
  <1>2. \A c, e : R!Radio!H!Err(c, e) = Radio!H!Err(c, e)
    BY Zenon DEF R!Radio!H!Err, Radio!H!Err
  <1>3. \A f : R!Radio!H!PingContext(f) = Radio!H!PingContext(f)
    BY Zenon DEF R!Radio!H!PingContext, Radio!H!PingContext, R!Radio!H!SmallerOf, Radio!H!SmallerOf
  <1>4. \A c, x : R!Radio!H!TakeFrame(c, x) = Radio!H!TakeFrame(c, x)
    <2>1. \A v : R!Radio!H!Refused(v) <=> Radio!H!Refused(v)
      BY DEF R!Radio!H!Refused, Radio!H!Refused, R!Radio!H!FRAME_LEN, Radio!H!FRAME_LEN
    <2>2. \A d, x : R!Radio!H!DecoderFeed(d, x) = Radio!H!DecoderFeed(d, x)
      BY <2>1 DEF R!Radio!H!DecoderFeed, Radio!H!DecoderFeed, R!Radio!H!NewDecoder, Radio!H!NewDecoder,
                  R!Radio!H!FRAME_LEN, Radio!H!FRAME_LEN
    <2>3. \A d, x : R!Radio!H!DecodedFrame(d, x) = Radio!H!DecodedFrame(d, x)
      BY DEF R!Radio!H!DecodedFrame, Radio!H!DecodedFrame
    <2> QED
      BY <1>1, <1>2, <2>2, <2>3 DEF R!Radio!H!TakeFrame, Radio!H!TakeFrame
  <1>5. \A c, x : R!Radio!H!FeedGreeting(c, x) = Radio!H!FeedGreeting(c, x)
    <2>1. \A v : R!Radio!H!ParsePartialGreeting(v) <=> Radio!H!ParsePartialGreeting(v)
      BY DEF R!Radio!H!ParsePartialGreeting, Radio!H!ParsePartialGreeting, R!Radio!H!IsGreetingUnit,
             Radio!H!IsGreetingUnit, R!Radio!H!GREETING_PARTIAL_LEN, Radio!H!GREETING_PARTIAL_LEN
    <2>2. \A m, v : R!Radio!H!ParseGreeting(m, v) <=> Radio!H!ParseGreeting(m, v)
      BY <2>1 DEF R!Radio!H!ParseGreeting, Radio!H!ParseGreeting, R!Radio!H!IsGreetingUnit, Radio!H!IsGreetingUnit
    <2>3. \A v, w : R!Radio!H!SmallerOf(v, w) = Radio!H!SmallerOf(v, w)
      BY DEF R!Radio!H!SmallerOf, Radio!H!SmallerOf
    <2>4. /\ R!Radio!H!GREETING_LEN = Radio!H!GREETING_LEN
          /\ R!Radio!H!GREETING_PARTIAL_LEN = Radio!H!GREETING_PARTIAL_LEN
      BY DEF R!Radio!H!GREETING_LEN, Radio!H!GREETING_LEN, R!Radio!H!GREETING_PARTIAL_LEN, Radio!H!GREETING_PARTIAL_LEN
    <2> SUFFICES ASSUME NEW c, NEW x PROVE R!Radio!H!FeedGreeting(c, x) = Radio!H!FeedGreeting(c, x)
      OBVIOUS
    <2> DEFINE n       == Radio!H!SmallerOf(Len(x), Radio!H!GREETING_LEN - Len(c.greeting_buf))
               m       == R!Radio!H!SmallerOf(Len(x), R!Radio!H!GREETING_LEN - Len(c.greeting_buf))
               Buf(k)  == c.greeting_buf \o SubSeq(x, 1, k)
               C1(k)   == [c EXCEPT !.greeting_buf = Buf(k)]
               C2(k)   == [C1(k) EXCEPT !.peer_version_minor = Buf(k)[3].of.minor,
                              !.peer_greeting_received = TRUE,
                              !.state = IF c.our_greeting_sent
                                        THEN IF c.mechanism = "Null" THEN "Ready" ELSE "PlainHello" ELSE @]
    <2>5. Radio!H!FeedGreeting(c, x) =
             IF /\ Len(c.greeting_buf) < Radio!H!GREETING_PARTIAL_LEN
                /\ Len(Buf(n)) >= Radio!H!GREETING_PARTIAL_LEN
                /\ ~Radio!H!ParsePartialGreeting(Buf(n))
             THEN Radio!H!Err(C1(n), "GreetingError")
             ELSE IF Len(Buf(n)) < Radio!H!GREETING_LEN THEN Radio!H!Ok(C1(n), n)
             ELSE IF ~Radio!H!ParseGreeting(c.mechanism, Buf(n)) THEN Radio!H!Err(C1(n), "GreetingError")
             ELSE Radio!H!Ok(C2(n), n)
      BY DEF Radio!H!FeedGreeting
    <2>6. R!Radio!H!FeedGreeting(c, x) =
             IF /\ Len(c.greeting_buf) < R!Radio!H!GREETING_PARTIAL_LEN
                /\ Len(Buf(m)) >= R!Radio!H!GREETING_PARTIAL_LEN
                /\ ~R!Radio!H!ParsePartialGreeting(Buf(m))
             THEN R!Radio!H!Err(C1(m), "GreetingError")
             ELSE IF Len(Buf(m)) < R!Radio!H!GREETING_LEN THEN R!Radio!H!Ok(C1(m), m)
             ELSE IF ~R!Radio!H!ParseGreeting(c.mechanism, Buf(m)) THEN R!Radio!H!Err(C1(m), "GreetingError")
             ELSE R!Radio!H!Ok(C2(m), m)
      BY DEF R!Radio!H!FeedGreeting
    <2>7. m = n
      BY <2>3, <2>4
    <2> HIDE DEF n, m, Buf, C1, C2
    <2> QED
      BY <1>1, <1>2, <2>1, <2>2, <2>4, <2>5, <2>6, <2>7
  <1>6. \A c, f, n : R!Radio!H!HandleHello(c, f, n) = Radio!H!HandleHello(c, f, n)
    BY Zenon DEF R!Radio!H!HandleHello, Radio!H!HandleHello, R!Radio!H!Ok, Radio!H!Ok, R!Radio!H!Err, Radio!H!Err
  <1>7. \A c, f, v, n : R!Radio!H!HandleReady(c, f, v, n) = Radio!H!HandleReady(c, f, v, n)
    BY Zenon DEF R!Radio!H!HandleReady, Radio!H!HandleReady, R!Radio!H!Ok, Radio!H!Ok, R!Radio!H!Err, Radio!H!Err
  <1>8. \A c, x : R!Radio!H!FeedPlainHello(c, x) = Radio!H!FeedPlainHello(c, x)
    BY <1>4, <1>6, Zenon DEF R!Radio!H!FeedPlainHello, Radio!H!FeedPlainHello
  <1>9. \A c, f : R!Radio!ApplyFrame(c, f) = Radio!ApplyFrame(c, f)
    <2>1. \A e, g : R!Radio!G!Join(e, g) = Radio!G!Join(e, g)
      BY Zenon DEF R!Radio!G!Join, Radio!G!Join, R!Radio!G!Refused, Radio!G!Refused,
                   R!Radio!G!TableFull, Radio!G!TableFull, R!Radio!G!GroupTooLong,
                   Radio!G!GroupTooLong, R!Radio!G!Stored, Radio!G!Stored
    <2>2. \A e, g : R!Radio!G!Leave(e, g) = Radio!G!Leave(e, g)
      BY Zenon DEF R!Radio!G!Leave, Radio!G!Leave, R!Radio!G!Stored, Radio!G!Stored
    <2> QED
      BY <1>3, <2>1, <2>2, Zenon DEF R!Radio!ApplyFrame, Radio!ApplyFrame
  <1>10. \A c, x : R!Radio!FeedReadyInner(c, x) = Radio!FeedReadyInner(c, x)
    BY <1>4, <1>7, Zenon DEF R!Radio!FeedReadyInner, Radio!FeedReadyInner, R!Radio!ParseReady, Radio!ParseReady
  <1>11. \A c, x : R!Radio!FeedEstablished(c, x) = Radio!FeedEstablished(c, x)
    BY <1>1, <1>4, <1>9, Zenon DEF R!Radio!FeedEstablished, Radio!FeedEstablished
  <1>12. \A c, x : R!Radio!FeedConn(c, x) = Radio!FeedConn(c, x)
    BY <1>2, <1>5, <1>8, <1>10, <1>11, Zenon
       DEF R!Radio!FeedConn, Radio!FeedConn, R!Radio!FeedGreeting, Radio!FeedGreeting,
           R!Radio!FeedPlainHello, Radio!FeedPlainHello, R!Radio!FeedReady, Radio!FeedReady,
           R!Radio!FeedPlainReady, Radio!FeedPlainReady
  <1>13. \A c, g : R!Radio!PublishHeaders(c, g) = Radio!PublishHeaders(c, g)
    BY <1>1, <1>2, Zenon DEF R!Radio!PublishHeaders, Radio!PublishHeaders, R!Radio!G!MatchesGroup,
                             Radio!G!MatchesGroup, R!Radio!G!Stored, Radio!G!Stored
  <1> QED
    BY <1>12, <1>13

\* A write fails in the same ways.
LEMMA SameFailing == \A items : R!Failing(items) = Failing(items)
  <1> SUFFICES ASSUME NEW items
               PROVE  R!Failing(items) = Failing(items)
    OBVIOUS
  <1> DEFINE F(k, c) == SubSeq(items, 1, k) \o c
             K == 0 .. Len(items) - 1
             C == {<<>>, <<Cut>>}
             D == {<<>>, <<R!Cut>>}
  <1>1. Failing(items) = {F(k, c) : k \in K, c \in C}
    BY DEF Failing
  <1>2. R!Failing(items) = {F(k, c) : k \in K, c \in D}
    BY DEF R!Failing
  <1>3. D = C
    BY DEF R!Cut, Cut, R!Item, Item
  <1> HIDE DEF F, K, C, D
  <1>4. \A y : y \in R!Failing(items) <=> y \in Failing(items)
    BY <1>1, <1>2, <1>3
  <1> QED
    BY <1>4

\* The steps of RadioDriver that do not feed are those of Driver.
LEMMA SameSteps ==
    /\ R!PeerSend <=> PeerSend
    /\ R!New <=> Construct
    /\ R!Poll <=> BeginPoll
    /\ \A n : R!Read(n) <=> Receive(n)
    /\ R!Readable = Readable
    /\ R!ReadFails <=> ReceiveFails
    /\ \A r, t : R!WriteMessage(r, t) <=> WriteMessage(r, t)
  <1>1. \A c, n : R!Ok(c, n) = Ok(c, n)
    BY Zenon DEF R!Ok, Ok
  <1>2. \A c, e : R!Err(c, e) = Err(c, e)
    BY Zenon DEF R!Err, Err
  <1>3. \A c, fits : R!WriteGreeting(c, fits) = WriteGreeting(c, fits)
    BY <1>1, <1>2, Zenon DEF R!WriteGreeting, WriteGreeting
  <1>4. \A c, fits : R!WriteReady(c, fits) = WriteReady(c, fits)
    BY <1>1, <1>2, Zenon DEF R!WriteReady, WriteReady, R!MayWriteReady, MayWriteReady
  <1>5. \A what, arg : R!Item(what, arg) = Item(what, arg)
    BY Zenon DEF R!Item, Item
  <1>6. \A items : R!Failing(items) = Failing(items)
    BY SameFailing, Zenon
  <1>7. \A kind : R!Return(kind) <=> Return(kind)
    BY Zenon DEF R!Return, Return, R!ReturnAfter, ReturnAfter
  <1>8. R!PeerSend <=> PeerSend
    BY Zenon DEF R!PeerSend, PeerSend
  <1>9. R!New <=> Construct
    BY <1>3, <1>5, <1>6, Zenon DEF R!New, R!Construct, Construct
  <1>10. R!Poll <=> BeginPoll
    BY <1>4, <1>5, <1>6, <1>7, Zenon DEF R!Poll, R!BeginPoll, BeginPoll, R!OwesReady, OwesReady
  <1>11. R!Readable = Readable
    BY Zenon DEF R!Readable, Readable, R!SmallerOf, SmallerOf
  <1>12. \A n : R!Read(n) <=> Receive(n)
    BY <1>11, Zenon DEF R!Read, R!Receive, Receive
  <1>13. R!ReadFails <=> ReceiveFails
    BY <1>7, <1>11, Zenon DEF R!ReadFails, R!ReceiveFails, ReceiveFails
  <1>14. \A r, t : R!WriteMessage(r, t) <=> WriteMessage(r, t)
    BY <1>5, <1>6, <1>7, Zenon DEF R!WriteMessage, WriteMessage
  <1> QED
    BY <1>8, <1>9, <1>10, <1>11, <1>12, <1>13, <1>14

\* So are the passes of the loop of drain_buffer.
LEMMA SamePasses ==
    /\ \A r, ws : R!DrainPass(r, ws) <=> DrainPass(r, ws)
    /\ \A r, ws : R!DrainPassWriteFails(r, ws) <=> DrainPassWriteFails(r, ws)
    /\ \A r : R!DrainPassErr(r) <=> DrainPassErr(r)
    /\ R!Offered = Offered
  <1>1. \A c, n : R!Ok(c, n) = Ok(c, n)
    BY Zenon DEF R!Ok, Ok
  <1>2. \A c, e : R!Err(c, e) = Err(c, e)
    BY Zenon DEF R!Err, Err
  <1>3. \A what, arg : R!Item(what, arg) = Item(what, arg)
    BY Zenon DEF R!Item, Item
  <1>4. \A c, fits : R!WriteReady(c, fits) = WriteReady(c, fits)
    BY <1>1, <1>2, Zenon DEF R!WriteReady, WriteReady, R!MayWriteReady, MayWriteReady
  <1>5. \A c, fits : R!WriteWelcome(c, fits) = WriteWelcome(c, fits)
    BY <1>1, <1>2, Zenon DEF R!WriteWelcome, WriteWelcome
  <1>6. \A c, fits : R!WritePong(c, fits) = WritePong(c, fits)
    BY <1>1, <1>2, Zenon DEF R!WritePong, WritePong
  <1>7. \A c, what : R!Encode(c, what) = Encode(c, what)
    BY <1>4, <1>5, <1>6, Zenon DEF R!Encode, Encode
  <1>8. \A acc, what : R!Answer(acc, what) = Answer(acc, what)
    BY <1>3, <1>7, Zenon DEF R!Answer, Answer
  <1>9. \A c, whats : R!Answers(c, whats) = Answers(c, whats)
    BY <1>8, Zenon DEF R!Answers, Answers
  <1>10. \A items : R!Failing(items) = Failing(items)
    BY SameFailing, Zenon
  <1>11. \A kind : R!Return(kind) <=> Return(kind)
    BY Zenon DEF R!Return, Return, R!ReturnAfter, ReturnAfter
  <1>12. R!Draining <=> Draining
    BY Zenon DEF R!Draining, Draining
  <1>13. /\ \A ws, n : R!Breaks(ws, n) <=> Breaks(ws, n)
         /\ \A n : R!Compact(n) <=> Compact(n)
         /\ \A n : R!AfterDrain(n) = AfterDrain(n)
    BY Zenon DEF R!Breaks, Breaks, R!Compact, Compact, R!AfterDrain, AfterDrain
  <1>14. \A r, ws : R!DrainPass(r, ws) <=> DrainPass(r, ws)
    BY <1>9, <1>11, <1>12, <1>13, ZenonT(60) DEF R!DrainPass, DrainPass
  <1>15. \A r, ws : R!DrainPassWriteFails(r, ws) <=> DrainPassWriteFails(r, ws)
    <2> SUFFICES ASSUME NEW r, NEW ws
                 PROVE  R!DrainPassWriteFails(r, ws) <=> DrainPassWriteFails(r, ws)
      OBVIOUS
    <2> DEFINE Fails(a, done, k, cut) ==
                   /\ a.res = "Ok" /\ Len(a.items) = k
                   /\ conn' = a.conn
                   /\ \E c \in {<<>>, <<cut>>} : out' = out \o done.items \o c
               Rest == /\ fed' = fed \o SubSeq(rx, tc + 1, tc + r.n)
                       /\ tc' = 0
                       /\ UNCHANGED <<rx, wire, psent, net>>
               FirstOf(k) == SubSeq(ws, 1, k)
    <2>1. DrainPassWriteFails(r, ws) <=>
            /\ Draining /\ r.res = "Ok" /\ WRITES_FAIL
            /\ \E k \in DOMAIN ws :
                  Fails(Answers(r.conn, FirstOf(k)), Answers(r.conn, FirstOf(k - 1)), k, Cut)
            /\ Return("write") /\ Rest
      BY Zenon DEF DrainPassWriteFails
    <2>2. R!DrainPassWriteFails(r, ws) <=>
            /\ R!Draining /\ r.res = "Ok" /\ WRITES_FAIL
            /\ \E k \in DOMAIN ws :
                  Fails(R!Answers(r.conn, FirstOf(k)), R!Answers(r.conn, FirstOf(k - 1)), k, R!Cut)
            /\ R!Return("write") /\ Rest
      BY Zenon DEF R!DrainPassWriteFails
    <2>3. R!Cut = Cut
      BY <1>3, Zenon DEF R!Cut, Cut
    <2> HIDE DEF Fails, Rest, FirstOf
    <2> QED
      BY <1>9, <1>11, <1>12, <2>1, <2>2, <2>3, Zenon
  <1>16. \A r : R!DrainPassErr(r) <=> DrainPassErr(r)
    BY <1>3, <1>10, <1>11, <1>12, Zenon DEF R!DrainPassErr, DrainPassErr
  <1>17. R!Offered = Offered
    BY Zenon DEF R!Offered, Offered
  <1> QED
    BY <1>14, <1>15, <1>16, <1>17, Zenon

-----------------------------------------------------------------------------
(* The steps that do not feed *)

\* The caller polls again after errors of a read only.
RetriesReads == Retries \subseteq {"read"}

\* After another error there is no driver.
LEMMA Returns ==
    ASSUME RetriesReads, NEW kind, Return(kind)
    PROVE  /\ kind \in {"write", "protocol"} => pc' \in {"closed", "refused"}
           /\ kind = "read" => pc' \in {"idle", "closed"}
  <1>1. "write" \notin Retries /\ "protocol" \notin Retries
    BY DEF RetriesReads
  <1> QED
    BY <1>1 DEF Return, ReturnAfter

\* The kind of the connection does not change with its fields.
LEMMA SameKind ==
    ASSUME DOMAIN conn' = DOMAIN conn
    PROVE  (IsRadio' <=> IsRadio) /\ ReadyTypes' = ReadyTypes
  BY DEF IsRadio, ReadyTypes

\* The variables of a driver that is dropped.
LEMMA DroppedInv ==
    ASSUME DriverTypes', pc' \in {"closed", "refused"}, OutputWellFormed'
    PROVE  DInv'
  <1>1. ~Live'
    BY DEF Live
  <1> QED
    BY <1>1 DEF DInv, LiveInv

\* The peer sends a unit.
LEMMA PeerSendStep ==
    ASSUME DInv, PeerSend
    PROVE  DInv'
  <1> DEFINE rest == SubSeq(rx, tc + 1, Len(rx))
             w == wire[psent + 1]
  <1>1. DriverTypes /\ LiveInv /\ OutputWellFormed
    BY DEF DInv
  <1>2. /\ psent < Len(wire) /\ psent' = psent + 1 /\ net' = Append(net, w)
        /\ conn' = conn /\ rx' = rx /\ tc' = tc /\ pc' = pc /\ wire' = wire /\ out' = out /\ fed' = fed
    BY DEF PeerSend
  <1>3. /\ wire \in Seq(Units) /\ net \in Seq(Units) /\ rx \in Seq(Units) /\ fed \in Seq(Units)
        /\ psent \in 0 .. Len(wire) /\ tc \in 0 .. Len(rx)
    BY <1>1 DEF DriverTypes
  <1>4. psent \in Nat /\ w \in Units /\ psent + 1 \in 0 .. Len(wire)
    BY <1>2, <1>3
  <1>5. (IsRadio' <=> IsRadio) /\ ReadyTypes' = ReadyTypes
    BY <1>2, SameKind
  <1>6. DriverTypes'
    <2>1. net' \in Seq(Units)
      <3> HIDE DEF w
      <3> QED
        BY <1>2, <1>3, <1>4
    <2> QED
      BY <1>1, <1>2, <1>4, <1>5, <2>1 DEF DriverTypes
  <1>7. OutputWellFormed'
    BY <1>1, <1>2 DEF OutputWellFormed, Live
  <1>8. LiveInv'
    <2> SUFFICES ASSUME Live' PROVE LiveInv'
      BY DEF LiveInv
    <2>1. Live
      BY <1>2 DEF Live
    <2>2. /\ ExactlyOnce /\ BufferInv /\ Sound(conn, fed, out, ReadyTypes)
          /\ pc # "new" => Settled(conn)
          /\ pc = "new" => conn.pending_pong = <<>> /\ conn.state = "Greeting" /\ conn.greeting_buf = <<>>
      BY <1>1, <2>1 DEF LiveInv
    <2>3. ExactlyOnce'
      <3>1. (fed \o rest) \o net = SubSeq(wire, 1, psent)
        BY <2>1, <2>2 DEF ExactlyOnce
      <3>2. rest \in Seq(Units)
        BY <1>3, RestType
      <3> HIDE DEF rest
      <3>3. fed \o rest \in Seq(Units)
        BY <1>3, <3>2
      <3>4. (fed \o rest) \o Append(net, w) = SubSeq(wire, 1, psent + 1)
        <4>1. SubSeq(wire, 1, psent + 1) = Append(SubSeq(wire, 1, psent), w)
          BY <1>2, <1>3, <1>4, OneMore
        <4> HIDE DEF w
        <4>2. \A s \in Seq(Units) : s \o Append(net, w) = Append(s \o net, w)
          BY <1>3, <1>4, AppendEnd, SMTT(30)
        <4> QED
          BY <3>1, <3>3, <4>1, <4>2, Zenon
      <3> QED
        BY <1>2, <3>4 DEF ExactlyOnce, rest
    <2>4. BufferInv'
      BY <1>2, <2>2 DEF BufferInv, Draining
    <2>5. Sound(conn, fed, out, ReadyTypes)'
      BY <1>2, <1>5, <2>2, Zenon
    <2> QED
      BY <1>2, <2>2, <2>3, <2>4, <2>5 DEF LiveInv
  <1> QED
    BY <1>6, <1>7, <1>8 DEF DInv

\* poll begins: nothing is owed, so that the buffer comes first.
LEMMA BeginPollStep ==
    ASSUME DInv, BeginPoll
    PROVE  DInv'
  <1>1. DriverTypes /\ LiveInv /\ OutputWellFormed /\ pc = "idle" /\ Live
    BY DEF DInv, BeginPoll, Live
  <1>2. /\ ExactlyOnce /\ BufferInv /\ Sound(conn, fed, out, ReadyTypes) /\ Settled(conn)
    BY <1>1 DEF LiveInv
  <1>3. ~OwesReady
    <2>1. conn.state = "Ready" => conn.our_ready_sent
      BY <1>2 DEF Settled
    <2>2. \E fits \in BOOLEAN : fits /\ Encode(conn, "READY") = WriteReady(conn, fits)
      BY Encoders, Zenon
    <2>3. WriteReady(conn, TRUE) = Encode(conn, "READY")
      BY Zenon DEF Encode
    <2>4. conn.our_ready_sent => Encode(conn, "READY").res # "Ok"
      BY <2>2 DEF WriteReady, Err
    <2> QED
      BY <2>1, <2>3, <2>4, Zenon DEF OwesReady
  <1>4. /\ pc' = (IF rx # <<>> THEN "drain1" ELSE "read") /\ tc' = 0
        /\ conn' = conn /\ rx' = rx /\ wire' = wire /\ out' = out /\ fed' = fed
        /\ psent' = psent /\ net' = net
    BY <1>3 DEF BeginPoll
  <1>5. (IsRadio' <=> IsRadio) /\ ReadyTypes' = ReadyTypes
    BY <1>4, SameKind
  <1>6. rx \in Seq(Units) /\ Len(rx) \in Nat /\ (rx # <<>> => Len(rx) > 0)
    BY <1>1 DEF DriverTypes
  <1>7. tc = 0
    BY <1>1, <1>2 DEF BufferInv, Draining
  <1>8. DriverTypes'
    BY <1>1, <1>4, <1>5, <1>6 DEF DriverTypes, Places
  <1>9. OutputWellFormed'
    BY <1>1, <1>4 DEF OutputWellFormed, Live
  <1>10. BufferInv'
    BY <1>4, <1>6 DEF BufferInv, Draining
  <1>11. ExactlyOnce'
    BY <1>1, <1>2, <1>4, <1>7 DEF ExactlyOnce
  <1>12. Sound(conn, fed, out, ReadyTypes)'
    BY <1>2, <1>4, <1>5, Zenon
  <1>13. Settled(conn)' /\ pc' # "new"
    BY <1>2, <1>4
  <1> QED
    BY <1>8, <1>9, <1>10, <1>11, <1>12, <1>13 DEF DInv, LiveInv

\* A read gives n units.
LEMMA ReceiveStep ==
    ASSUME DInv, NEW n, Receive(n)
    PROVE  DInv'
  <1> DEFINE x == SubSeq(net, 1, n)
             y == SubSeq(net, n + 1, Len(net))
  <1>1. DriverTypes /\ LiveInv /\ OutputWellFormed /\ pc = "read" /\ Live
    BY DEF DInv, Receive, Live
  <1>2. /\ ExactlyOnce /\ BufferInv /\ Sound(conn, fed, out, ReadyTypes) /\ Settled(conn)
    BY <1>1 DEF LiveInv
  <1>3. /\ n \in 1 .. Readable /\ rx' = rx \o x /\ net' = y /\ pc' = "drain2" /\ tc' = 0
        /\ conn' = conn /\ wire' = wire /\ out' = out /\ fed' = fed /\ psent' = psent
    BY DEF Receive
  <1>4. (IsRadio' <=> IsRadio) /\ ReadyTypes' = ReadyTypes
    BY <1>3, SameKind
  <1>5. /\ rx = <<>> /\ tc = 0 /\ net \in Seq(Units) /\ fed \in Seq(Units) /\ Len(net) \in Nat
        /\ RX_CAP \in Nat
    BY <1>1, <1>2, DriverAssumption DEF DriverTypes, BufferInv, Draining
  <1>6. n \in Nat /\ n >= 1 /\ n <= Len(net) /\ n <= RX_CAP
    BY <1>3, <1>5 DEF Readable, SmallerOf
  <1>7. x \in Seq(Units) /\ Len(x) = n /\ y \in Seq(Units)
    BY <1>5, <1>6
  <1> HIDE DEF x, y
  <1>8. rx' = x
    BY <1>3, <1>5, <1>7
  <1>9. DriverTypes'
    <2>1. rx' \in Seq(Units) /\ net' \in Seq(Units) /\ tc' \in 0 .. Len(rx') /\ Len(rx') <= RX_CAP
      BY <1>3, <1>6, <1>7, <1>8
    <2> QED
      BY <1>1, <1>3, <1>4, <2>1 DEF DriverTypes, Places
  <1>10. OutputWellFormed'
    BY <1>1, <1>3 DEF OutputWellFormed, Live
  <1>11. BufferInv'
    BY <1>3, <1>6, <1>7, <1>8 DEF BufferInv, Draining
  <1>12. ExactlyOnce'
    <2>1. (fed \o <<>>) \o net = SubSeq(wire, 1, psent)
      <3>1. SubSeq(<<>>, 1, 0) = <<>> /\ Len(<<>>) = 0 /\ 0 + 1 = 1
        OBVIOUS
      <3>2. fed \o SubSeq(rx, tc + 1, Len(rx)) \o net = SubSeq(wire, 1, psent)
        BY <1>1, <1>2 DEF ExactlyOnce
      <3> QED
        BY <1>5, <3>1, <3>2, Zenon
    <2>2. fed \o <<>> = fed
      BY <1>5
    <2>3. (fed \o x) \o y = fed \o net
      <3>1. n \in 0 .. Len(net)
        BY <1>5, <1>6
      <3> QED
        BY <1>5, <3>1, ReadMore DEF x, y
    <2>4. SubSeq(x, 1, Len(x)) = x
      BY <1>7, WholeSeq
    <2>5. fed' \o SubSeq(rx', tc' + 1, Len(rx')) \o net' = SubSeq(wire', 1, psent')
      <3>1. tc' + 1 = 1
        BY <1>3
      <3> QED
        BY <1>3, <1>8, <2>1, <2>2, <2>3, <2>4, <3>1, Zenon
    <2> QED
      BY <2>5 DEF ExactlyOnce
  <1>13. Sound(conn, fed, out, ReadyTypes)'
    BY <1>2, <1>3, <1>4, Zenon
  <1>14. Settled(conn)' /\ pc' # "new"
    BY <1>2, <1>3
  <1> QED
    BY <1>9, <1>10, <1>11, <1>12, <1>13, <1>14 DEF DInv, LiveInv

\* A read fails, and the caller polls again or not.
LEMMA ReceiveFailsStep ==
    ASSUME RetriesReads, DInv, ReceiveFails
    PROVE  DInv'
  <1>1. DriverTypes /\ LiveInv /\ OutputWellFormed /\ pc = "read" /\ Live
    BY DEF DInv, ReceiveFails, Live
  <1>2. /\ ExactlyOnce /\ BufferInv /\ Sound(conn, fed, out, ReadyTypes) /\ Settled(conn)
    BY <1>1 DEF LiveInv
  <1>3. /\ pc' \in {"idle", "closed"}
        /\ conn' = conn /\ rx' = rx /\ tc' = tc /\ wire' = wire /\ psent' = psent /\ net' = net
        /\ out' = out /\ fed' = fed
    BY Returns DEF ReceiveFails
  <1>4. (IsRadio' <=> IsRadio) /\ ReadyTypes' = ReadyTypes
    BY <1>3, SameKind
  <1>5. DriverTypes'
    BY <1>1, <1>3, <1>4 DEF DriverTypes, Places
  <1>6. OutputWellFormed'
    BY <1>1, <1>3 DEF OutputWellFormed, Live
  <1>7. BufferInv'
    BY <1>1, <1>2, <1>3 DEF BufferInv, Draining
  <1>8. ExactlyOnce'
    BY <1>1, <1>2, <1>3 DEF ExactlyOnce
  <1>9. Sound(conn, fed, out, ReadyTypes)'
    BY <1>2, <1>3, <1>4, Zenon
  <1>10. Settled(conn)' /\ pc' # "new"
    BY <1>2, <1>3
  <1> QED
    BY <1>5, <1>6, <1>7, <1>8, <1>9, <1>10 DEF DInv, LiveInv

\* Writing one item fails before or within it.
LEMMA FailingOne ==
    ASSUME NEW e, NEW o \in Failing(<<e>>)
    PROVE  o = <<>> \/ o = <<Cut>>
  <1> DEFINE s == <<e>>
  <1>1. s \in Seq({e}) /\ Len(s) = 1
    OBVIOUS
  <1>2. Len(s) - 1 = 0 /\ 0 .. 0 = {0} /\ SubSeq(s, 1, 0) = <<>>
    BY <1>1
  <1> DEFINE F(k, c) == SubSeq(s, 1, k) \o c
             K == 0 .. Len(s) - 1
             C == {<<>>, <<Cut>>}
  <1>3. Failing(s) = {F(k, c) : k \in K, c \in C}
    BY DEF Failing
  <1>4. K = {0}
    BY <1>2
  <1>5. F(0, <<>>) = <<>> /\ F(0, <<Cut>>) = <<Cut>>
    <2>1. <<>> \o <<>> = <<>>
      OBVIOUS
    <2>2. \A z : <<>> \o <<z>> = <<z>>
      OBVIOUS
    <2> QED
      BY <1>2, <2>1, <2>2, Zenon
  <1> HIDE DEF F, K
  <1>6. \E k \in K, c \in C : o = F(k, c)
    BY <1>3
  <1> QED
    BY <1>4, <1>5, <1>6

\* What was written when an item fails after o.
LEMMA FailedOutput ==
    ASSUME NEW c, NEW u, NEW o, NEW types, Sound(c, u, o, types), NEW m, m = c.mechanism,
           NEW q, q = <<>> \/ q = <<Cut>> \/ q = <<Item("ERROR", <<>>)>>, NEW p \in {"closed", "refused"}
    PROVE  WellFormed(o \o q, m, p) /\ o \o q \in Seq(Items)
  <1>1. o \in Seq(Items)
    BY DEF Sound
  <1>2. /\ Cut \in Items /\ Cut.what = "CUT"
        /\ Item("ERROR", <<>>) \in Items /\ Item("ERROR", <<>>).what = "ERROR"
    BY ItemTypes DEF Cut, Item
  <1>3. CASE q = <<>>
    <2>1. o \o q = o
      BY <1>1, <1>3
    <2> QED
      BY <1>1, <2>1, SoundWellFormed
  <1>4. ASSUME NEW e \in Items, e.what \in {"ERROR", "CUT"}, q = <<e>>
        PROVE  WellFormed(o \o q, m, p) /\ o \o q \in Seq(Items)
    <2>1. o \o <<e>> = Append(o, e) /\ Append(o, e) \in Seq(Items)
      BY <1>1
    <2>2. WellFormed(Append(o, e), m, p)
      BY <1>4, LastWellFormed
    <2> QED
      BY <1>4, <2>1, <2>2, Zenon
  <1> QED
    BY <1>2, <1>3, <1>4

\* A new driver writes its greeting.
LEMMA ConstructStep ==
    ASSUME DInv, Construct
    PROVE  DInv'
  <1> DEFINE r == EncodeGreeting(conn)
             e == Item("GREETING", <<>>)
  <1>1. DriverTypes /\ LiveInv /\ pc = "new" /\ Live
    BY DEF DInv, Construct, Live
  <1>2. /\ ExactlyOnce /\ BufferInv /\ Sound(conn, fed, out, ReadyTypes)
        /\ conn.pending_pong = <<>> /\ conn.state = "Greeting" /\ conn.greeting_buf = <<>>
        /\ rx = <<>> /\ tc = 0 /\ out = <<>> /\ ~conn.our_greeting_sent
    BY <1>1 DEF LiveInv, BufferInv, Draining
  <1>3. /\ conn' = r.conn
        /\ \/ pc' = "idle" /\ out' = <<e>>
           \/ pc' = "closed" /\ out' \in Failing(<<e>>)
        /\ rx' = rx /\ tc' = tc /\ wire' = wire /\ psent' = psent /\ net' = net /\ fed' = fed
    BY Zenon DEF Construct, EncodeGreeting
  <1> HIDE DEF r
  <1>4. /\ Flagged(conn, r.conn, "our_greeting_sent")
        /\ Sound(r.conn, fed, Append(out, e), ReadyTypes)
    BY <1>2, SaysGreeting DEF r
  <1>5. /\ DOMAIN r.conn = DOMAIN conn /\ r.conn.state = "Greeting" /\ r.conn.mechanism = conn.mechanism
        /\ r.conn.greeting_buf = <<>> /\ r.conn.pending_pong = <<>> /\ r.conn.our_greeting_sent
    <2>1. ConnFields \subseteq DOMAIN conn
      BY <1>2 DEF Sound, IsConn
    <2> QED
      BY <1>2, <1>4, <2>1 DEF Flagged, DiffersIn, ConnFields
  <1>6. (IsRadio' <=> IsRadio) /\ ReadyTypes' = ReadyTypes
    BY <1>3, <1>5, SameKind
  <1>7. e \in Items
    BY ItemTypes
  <1> HIDE DEF e
  <1>8. Append(out, e) = <<e>> /\ <<e>> \in Seq(Items)
    BY <1>2, <1>7
  <1>9. CASE pc' = "idle" /\ out' = <<e>>
    <2>1. DriverTypes'
      BY <1>1, <1>3, <1>5, <1>6, <1>8, <1>9 DEF DriverTypes, Places
    <2>2. Sound(conn, fed, out, ReadyTypes)'
      BY <1>3, <1>4, <1>6, <1>8, <1>9, Zenon
    <2>3. OutputWellFormed'
      <3>1. WellFormed(<<e>>, r.conn.mechanism, "idle")
        BY <1>4, <1>8, SoundWellFormed
      <3> QED
        BY <1>3, <1>9, <3>1, WellFormedIs, Zenon
    <2>4. ExactlyOnce'
      BY <1>1, <1>2, <1>3, <1>9 DEF ExactlyOnce
    <2>5. BufferInv'
      BY <1>2, <1>3, <1>9 DEF BufferInv, Draining
    <2>6. Settled(conn)' /\ pc' # "new"
      <3>1. Len(r.conn.greeting_buf) < GREETING_LEN
        BY <1>5 DEF GREETING_LEN
      <3> QED
        BY <1>3, <1>5, <1>9, <3>1 DEF Settled
    <2> QED
      BY <2>1, <2>2, <2>3, <2>4, <2>5, <2>6 DEF DInv, LiveInv
  <1>10. CASE pc' = "closed" /\ out' \in Failing(<<e>>)
    <2>1. out' = <<>> \/ out' = <<Cut>>
      BY <1>10, FailingOne
    <2>2. WellFormed(out \o out', conn.mechanism, pc') /\ out \o out' \in Seq(Items)
      BY <1>2, <1>10, <2>1, FailedOutput
    <2>3. out \o out' = out'
      <3>1. \A z : <<>> \o <<z>> = <<z>>
        OBVIOUS
      <3>2. <<>> \o <<>> = <<>>
        OBVIOUS
      <3> QED
        BY <1>2, <2>1, <3>1, <3>2, Zenon
    <2>4. out' \in Seq(Items) /\ OutputWellFormed'
      BY <1>3, <1>5, <2>2, <2>3, WellFormedIs, Zenon
    <2>5. DriverTypes'
      BY <1>1, <1>3, <1>5, <1>6, <1>10, <2>4 DEF DriverTypes, Places
    <2> QED
      BY <1>10, <2>4, <2>5, DroppedInv
  <1> QED
    BY <1>3, <1>9, <1>10

\* publish writes a message.
LEMMA MessageStep ==
    ASSUME RetriesReads, DInv, NEW r, NEW t \in Topics \cup Groups, WriteMessage(r, t),
           conn.state = "Established"
    PROVE  DInv'
  <1> DEFINE e == Item("MESSAGE", t)
  <1>1. DriverTypes /\ LiveInv /\ OutputWellFormed /\ pc = "idle" /\ Live
    BY DEF DInv, WriteMessage, Live
  <1>2. /\ ExactlyOnce /\ BufferInv /\ Sound(conn, fed, out, ReadyTypes) /\ Settled(conn)
    BY <1>1 DEF LiveInv
  <1>3. /\ \/ out' = Append(out, e) /\ pc' = "idle"
           \/ (\E o \in Failing(<<e>>) : out' = out \o o) /\ Return("write")
        /\ conn' = conn /\ rx' = rx /\ tc' = tc /\ wire' = wire /\ psent' = psent /\ net' = net
        /\ fed' = fed
    BY Zenon DEF WriteMessage
  <1>4. (IsRadio' <=> IsRadio) /\ ReadyTypes' = ReadyTypes
    BY <1>3, SameKind
  <1>5. Sound(conn, fed, Append(out, e), ReadyTypes)
    BY <1>2, SaysMessage
  <1> HIDE DEF e
  <1>6. CASE out' = Append(out, e) /\ pc' = "idle"
    <2>1. Append(out, e) \in Seq(Items)
      BY <1>5 DEF Sound
    <2>2. DriverTypes'
      BY <1>1, <1>3, <1>4, <1>6, <2>1 DEF DriverTypes, Places
    <2>3. Sound(conn, fed, out, ReadyTypes)'
      BY <1>3, <1>4, <1>5, <1>6, Zenon
    <2>4. OutputWellFormed'
      <3>1. WellFormed(Append(out, e), conn.mechanism, "idle")
        BY <1>5, SoundWellFormed
      <3> QED
        BY <1>3, <1>6, <3>1, WellFormedIs, Zenon
    <2>5. ExactlyOnce'
      BY <1>1, <1>2, <1>3, <1>6 DEF ExactlyOnce
    <2>6. BufferInv'
      BY <1>1, <1>2, <1>3, <1>6 DEF BufferInv, Draining
    <2>7. Settled(conn)' /\ pc' # "new"
      BY <1>2, <1>3, <1>6
    <2> QED
      BY <2>2, <2>3, <2>4, <2>5, <2>6, <2>7 DEF DInv, LiveInv
  <1>7. CASE (\E o \in Failing(<<e>>) : out' = out \o o) /\ Return("write")
    <2>1. PICK o \in Failing(<<e>>) : out' = out \o o
      BY <1>7
    <2>2. pc' \in {"closed", "refused"}
      BY <1>7, Returns
    <2>3. o = <<>> \/ o = <<Cut>>
      BY FailingOne
    <2>4. WellFormed(out \o o, conn.mechanism, pc') /\ out \o o \in Seq(Items)
      BY <1>2, <2>2, <2>3, FailedOutput
    <2>5. out' \in Seq(Items) /\ OutputWellFormed'
      BY <1>3, <2>1, <2>4, WellFormedIs, Zenon
    <2>6. DriverTypes'
      BY <1>1, <1>3, <1>4, <2>2, <2>5 DEF DriverTypes, Places
    <2> QED
      BY <2>2, <2>5, <2>6, DroppedInv
  <1> QED
    BY <1>3, <1>6, <1>7

\* The invariant holds initially.
LEMMA InitDInv == EitherInit => DInv
  <1>1. ASSUME NEW u \in Seq(Units), Fresh(conn), wire = u, InitWith(conn, u),
               DOMAIN conn = ConnFields \cup {IF IsRadio THEN "group_table" ELSE "sub_table"},
               IsRadio => conn.mechanism = "Null"
        PROVE  DInv
    <2>1. /\ psent = 0 /\ net = <<>> /\ rx = <<>> /\ tc = 0 /\ pc = "new" /\ out = <<>> /\ fed = <<>>
      BY <1>1 DEF InitWith
    <2>2. /\ IsConn(conn, Units) /\ FedInv(conn, <<>>, FALSE, ReadyTypes) /\ SentInv(conn, <<>>)
          /\ TrafficIn(conn.mechanism, <<>>) = <<>>
      BY <1>1, FreshInv
    <2>3. /\ ~conn.our_greeting_sent /\ conn.pending_pong = <<>> /\ conn.state = "Greeting"
          /\ conn.greeting_buf = <<>>
      BY <1>1 DEF Fresh
    <2>4. /\ <<>> \in Seq(Units) /\ <<>> \in Seq(Items) /\ Len(<<>>) = 0 /\ SubSeq(<<>>, 1, 0) = <<>>
          /\ SubSeq(u, 1, 0) = <<>> /\ <<>> \o <<>> = <<>> /\ Len(u) \in Nat /\ DOMAIN <<>> = {}
      BY <1>1
    <2>5. Said(conn) = <<>>
      BY <2>3, Zenon DEF Said
    <2>6. Sound(conn, fed, out, ReadyTypes)
      <3>1. OutShape(conn, <<>>)
        BY <2>4, <2>5 DEF OutShape
      <3>2. PongsIn(<<>>) \o conn.pending_pong = PingsDue(conn, <<>>)
        <4>1. PingsDue(conn, <<>>) = <<>>
          BY <2>2, PingsInNone, Zenon DEF PingsDue
        <4> QED
          BY <2>3, <2>4, <4>1, PongsInNone, Zenon
      <3> QED
        BY <2>1, <2>2, <2>4, <3>1, <3>2, Zenon DEF Sound
    <2>7. ExactlyOnce
      <3>1. fed \o SubSeq(rx, tc + 1, Len(rx)) \o net = SubSeq(wire, 1, psent)
        <4>1. tc + 1 = 1
          BY <2>1
        <4> QED
          BY <1>1, <2>1, <2>4, <4>1, Zenon
      <3> QED
        BY <3>1 DEF ExactlyOnce
    <2>8. BufferInv
      BY <2>1, <2>3 DEF BufferInv, Draining
    <2>9. OutputWellFormed
      BY <2>6, SoundWellFormed, WellFormedIs
    <2>10. DriverTypes
      <3>1. conn.mechanism \in Mechanisms
        BY <1>1 DEF Fresh
      <3>2. psent \in 0 .. Len(wire) /\ tc \in 0 .. Len(rx) /\ Len(rx) <= RX_CAP
        BY <1>1, <2>1, <2>4, DriverAssumption
      <3> QED
        BY <1>1, <2>1, <2>4, <3>1, <3>2 DEF DriverTypes, Places
    <2> QED
      BY <2>1, <2>3, <2>6, <2>7, <2>8, <2>9, <2>10 DEF DInv, LiveInv
  <1>2. ASSUME Init PROVE DInv
    <2>1. PICK s \in Streams : InitWith(NewConnection(s.mechanism), s.units)
      BY <1>2 DEF Init
    <2>2. s.mechanism \in Mechanisms /\ s.units \in Seq(Units)
      BY PeersAssumption DEF Mechanisms
    <2>3. conn = NewConnection(s.mechanism) /\ wire = s.units /\ InitWith(conn, s.units)
      BY <2>1 DEF InitWith
    <2>4. DOMAIN conn = ConnFields \cup {"sub_table"} /\ ~IsRadio
      BY <2>3 DEF NewConnection, ConnFields, IsRadio
    <2>5. Fresh(conn)
      BY <2>2, <2>3 DEF NewConnection, Fresh, ConnFields
    <2> QED
      BY <1>1, <2>2, <2>3, <2>4, <2>5
  <1>3. ASSUME R!Init PROVE DInv
    <2>1. PICK s \in RadioStreams : R!InitWith(R!Radio!NewRadioConnection("Null"), s.units)
      BY <1>3 DEF R!Init
    <2>2. s.units \in Seq(Units)
      BY PeersAssumption
    <2>3. /\ conn = R!Radio!NewRadioConnection("Null") /\ wire = s.units /\ InitWith(conn, s.units)
      BY <2>1 DEF R!InitWith, InitWith
    <2>4. DOMAIN conn = ConnFields \cup {"group_table"} /\ IsRadio
      BY <2>3 DEF R!Radio!NewRadioConnection, ConnFields, IsRadio
    <2>5. Fresh(conn) /\ conn.mechanism = "Null"
      BY <2>3 DEF R!Radio!NewRadioConnection, R!Radio!H!NewDecoder, NewDecoder, Fresh, ConnFields, Mechanisms
    <2> QED
      BY <1>1, <2>2, <2>3, <2>4, <2>5
  <1> QED
    BY <1>2, <1>3 DEF EitherInit

-----------------------------------------------------------------------------
(* The passes of the loop *)

\* A part of the rest of the buffer, and what remains then.
LEMMA Slices ==
    ASSUME NEW U, NEW x \in Seq(U), NEW t \in 0 .. Len(x), NEW s, s = SubSeq(x, t + 1, Len(x)),
           NEW k \in 0 .. Len(x) - t
    PROVE  /\ SubSeq(s, 1, k) = SubSeq(x, t + 1, t + k)
           /\ SubSeq(s, k + 1, Len(s)) = SubSeq(x, t + k + 1, Len(x))
  <1>1. t \in Nat /\ k \in Nat /\ Len(x) \in Nat /\ t + k <= Len(x)
    OBVIOUS
  <1>2. s \in Seq(U) /\ Len(s) = Len(x) - t /\ \A i \in 1 .. Len(x) - t : s[i] = x[t + i]
    BY <1>1
  <1>3. SubSeq(s, 1, k) = SubSeq(x, t + 1, t + k)
    <2> DEFINE a == SubSeq(s, 1, k)
               b == SubSeq(x, t + 1, t + k)
    <2>1. a \in Seq(U) /\ Len(a) = k /\ \A i \in 1 .. k : a[i] = s[i]
      BY <1>1, <1>2
    <2>2. b \in Seq(U) /\ Len(b) = k /\ \A i \in 1 .. k : b[i] = x[t + i]
      BY <1>1
    <2> HIDE DEF a, b
    <2>3. ASSUME NEW i \in 1 .. k
          PROVE  a[i] = b[i]
      <3>1. i \in 1 .. Len(x) - t
        BY <1>1
      <3> QED
        BY <1>2, <2>1, <2>2, <3>1
    <2>4. a = b
      BY <2>1, <2>2, <2>3, SeqEqual
    <2> QED
      BY <2>4 DEF a, b
  <1>4. SubSeq(s, k + 1, Len(s)) = SubSeq(x, t + k + 1, Len(x))
    <2> DEFINE n == Len(x) - t - k
               a == SubSeq(s, k + 1, Len(s))
               b == SubSeq(x, t + k + 1, Len(x))
    <2>0. n \in Nat /\ Len(s) = k + n /\ Len(x) = t + k + n
      BY <1>1, <1>2
    <2>1. a \in Seq(U) /\ Len(a) = n /\ \A i \in 1 .. n : a[i] = s[k + i]
      BY <1>1, <1>2, <2>0
    <2>2. b \in Seq(U) /\ Len(b) = n /\ \A i \in 1 .. n : b[i] = x[t + k + i]
      BY <1>1, <2>0
    <2> HIDE DEF a, b, n
    <2>3. ASSUME NEW i \in 1 .. n
          PROVE  a[i] = b[i]
      <3>1. k + i \in 1 .. Len(x) - t /\ t + (k + i) = t + k + i
        BY <1>1, <2>0
      <3> QED
        BY <1>2, <2>1, <2>2, <3>1
    <2>4. a = b
      BY <2>1, <2>2, <2>3, SeqEqual
    <2> QED
      BY <2>4 DEF a, b
  <1> QED
    BY <1>3, <1>4

\* While the buffer is drained.
LEMMA DrainingFacts ==
    ASSUME DInv, Draining
    PROVE  /\ Live /\ pc # "new" /\ ExactlyOnce /\ BufferInv
           /\ Sound(conn, fed, out, ReadyTypes) /\ Settled(conn)
           /\ tc \in Nat /\ tc < Len(rx) /\ Len(rx) \in Nat /\ rx \in Seq(Units)
           /\ Offered \in Seq(Units) /\ Offered # <<>> /\ Len(Offered) = Len(rx) - tc
  <1>1. Live /\ pc # "new"
    BY DEF Draining, Live
  <1>2. /\ ExactlyOnce /\ BufferInv /\ Sound(conn, fed, out, ReadyTypes) /\ Settled(conn)
    BY <1>1 DEF DInv, LiveInv
  <1>3. rx \in Seq(Units) /\ Len(rx) \in Nat /\ tc \in 0 .. Len(rx) /\ tc < Len(rx)
    BY <1>2 DEF DInv, DriverTypes, BufferInv
  <1>4. Offered \in Seq(Units) /\ Len(Offered) = Len(rx) - tc
    BY <1>3, RestType DEF Offered
  <1>5. Offered # <<>>
    BY <1>3, <1>4
  <1> QED
    BY <1>1, <1>2, <1>3, <1>4, <1>5

\* What feed leads to when it succeeds.
LEMMA PassFacts ==
    ASSUME DInv, Draining, NEW r, r.res = "Ok", FeedsTo(Units, conn, Offered, r, ReadyTypes),
           NEW v, v = fed \o SubSeq(rx, tc + 1, tc + r.n)
    PROVE  /\ r.n \in 1 .. Len(rx) - tc
           /\ Arrived(conn, Offered, r, v, out, ReadyTypes)
           /\ v \in Seq(Units)
           /\ v \o SubSeq(rx, tc + r.n + 1, Len(rx)) = fed \o Offered
  <1>1. /\ Sound(conn, fed, out, ReadyTypes) /\ Settled(conn)
        /\ tc \in Nat /\ tc < Len(rx) /\ Len(rx) \in Nat /\ rx \in Seq(Units)
        /\ Offered \in Seq(Units) /\ Offered # <<>> /\ Len(Offered) = Len(rx) - tc
    BY DrainingFacts
  <1>2. /\ Sound(r.conn, fed \o SubSeq(Offered, 1, r.n), out, ReadyTypes)
        /\ Moves(conn, Offered, r) /\ KeepsFlags(conn, r.conn)
    BY <1>1, SoundFed
  <1>3. r.n \in 1 .. Len(rx) - tc
    BY <1>1, <1>2 DEF Moves
  <1>4. /\ SubSeq(Offered, 1, r.n) = SubSeq(rx, tc + 1, tc + r.n)
        /\ SubSeq(Offered, r.n + 1, Len(Offered)) = SubSeq(rx, tc + r.n + 1, Len(rx))
    <2>1. r.n \in 0 .. Len(rx) - tc /\ tc \in 0 .. Len(rx)
      BY <1>1, <1>3
    <2> QED
      BY <1>1, <2>1, Slices DEF Offered
  <1>5. Sound(r.conn, v, out, ReadyTypes)
    BY <1>2, <1>4, Zenon
  <1>6. v \in Seq(Units) /\ fed \in Seq(Units)
    BY <1>1, <1>5 DEF Sound
  <1>7. (fed \o SubSeq(Offered, 1, r.n)) \o SubSeq(Offered, r.n + 1, Len(Offered)) = fed \o Offered
    <2>1. r.n \in 0 .. Len(Offered)
      BY <1>1, <1>3
    <2> QED
      BY <1>1, <1>6, <2>1, ReadMore
  <1>8. v \o SubSeq(rx, tc + r.n + 1, Len(rx)) = fed \o Offered
    BY <1>4, <1>7, Zenon
  <1>9. Arrived(conn, Offered, r, v, out, ReadyTypes)
    BY <1>1, <1>2, <1>5 DEF Arrived
  <1> QED
    BY <1>3, <1>6, <1>8, <1>9

\* The fields of the connection that answers do not change.
LEMMA AnsweredKeeps ==
    ASSUME NEW c, ConnFields \subseteq DOMAIN c, NEW d, Answered(c, d)
    PROVE  DOMAIN d = DOMAIN c /\ d.mechanism = c.mechanism
  BY DEF Answered, ConnFields, Flags

\* A pass of the loop that succeeds.
LEMMA DrainOkStep ==
    ASSUME RetriesReads, DInv, NEW r, FeedsTo(Units, conn, Offered, r, ReadyTypes),
           DOMAIN r.conn = DOMAIN conn, NEW ws, Replied(conn.state, r.conn, ws), DrainPass(r, ws)
    PROVE  DInv'
  <1> DEFINE a == Answers(r.conn, ws)
             total == tc + r.n
             v == fed \o SubSeq(rx, tc + 1, total)
             left == SubSeq(rx, total + 1, Len(rx))
  <1>1. Draining /\ r.res = "Ok" /\ DriverTypes
    BY DEF DrainPass, DInv
  <1>2. /\ Live /\ pc # "new" /\ ExactlyOnce /\ BufferInv
        /\ tc \in Nat /\ tc < Len(rx) /\ Len(rx) \in Nat /\ rx \in Seq(Units)
    BY <1>1, DrainingFacts
  <1>3. /\ r.n \in 1 .. Len(rx) - tc
        /\ Arrived(conn, Offered, r, v, out, ReadyTypes)
        /\ v \in Seq(Units) /\ v \o left = fed \o Offered
    BY <1>1, PassFacts
  <1>4. Good(r.conn, v, out, a, ReadyTypes) /\ Settled(a.conn)
    <2> HIDE DEF v
    <2> QED
      BY <1>3, AnswersGood
  <1> HIDE DEF a
  <1>5. /\ a.res = "Ok" /\ a.items \in Seq(Items)
        /\ Sound(a.conn, v, out \o a.items, ReadyTypes) /\ Answered(r.conn, a.conn)
    BY <1>4, Zenon DEF Good
  <1>6. /\ conn' = a.conn /\ out' = out \o a.items /\ fed' = v
        /\ wire' = wire /\ psent' = psent /\ net' = net
        /\ \/ rx' = left /\ tc' = 0 /\ pc' = AfterDrain(total)
           \/ tc' = total /\ rx' = rx /\ pc' = pc /\ total # Len(rx)
    BY <1>5 DEF DrainPass, a, Compact, Breaks
  <1>7. total \in Nat /\ total >= 1 /\ total <= Len(rx)
    <2>1. tc \in Nat /\ Len(rx) \in Nat /\ tc < Len(rx)
      BY <1>2
    <2>2. r.n \in 1 .. Len(rx) - tc
      BY <1>3
    <2> QED
      BY <2>1, <2>2
  <1>8. pc' = "idle" \/ (pc' = pc /\ tc' = total /\ rx' = rx /\ total < Len(rx))
    BY <1>2, <1>6, <1>7 DEF AfterDrain
  <1>9. left \in Seq(Units) /\ Len(left) = Len(rx) - total
    BY <1>2, <1>7, RestType
  <1> HIDE DEF total, v, left
  <1>10. /\ DOMAIN a.conn = DOMAIN conn /\ a.conn.mechanism = conn.mechanism
    <2>1. ConnFields \subseteq DOMAIN r.conn /\ r.conn.mechanism = conn.mechanism
      BY <1>3 DEF Arrived, Sound, IsConn, KeepsFlags
    <2> QED
      BY <1>5, <2>1, AnsweredKeeps
  <1>11. (IsRadio' <=> IsRadio) /\ ReadyTypes' = ReadyTypes
    BY <1>6, <1>10, SameKind
  <1>12. Sound(conn, fed, out, ReadyTypes)'
    BY <1>5, <1>6, <1>11, Zenon
  <1>13. OutputWellFormed'
    <2>1. WellFormed(out \o a.items, a.conn.mechanism, pc')
      BY <1>5, SoundWellFormed
    <2> QED
      BY <1>6, <2>1, WellFormedIs, Zenon
  <1>14. /\ rx' \in Seq(Units) /\ tc' \in 0 .. Len(rx') /\ Len(rx') <= Len(rx)
    BY <1>2, <1>6, <1>7, <1>9
  <1>15. pc' \in {"idle", "drain1", "drain2"}
    BY <1>1, <1>8 DEF Draining
  <1>16. DriverTypes'
    <2>1. out \o a.items \in Seq(Items)
      BY <1>5 DEF Sound
    <2>2. Len(rx') <= RX_CAP
      BY <1>1, <1>2, <1>14, DriverAssumption DEF DriverTypes
    <2>3. pc' \in Places
      BY <1>15 DEF Places
    <2> QED
      BY <1>1, <1>3, <1>6, <1>10, <1>11, <1>14, <2>1, <2>2, <2>3 DEF DriverTypes
  <1>17. ExactlyOnce'
    <2>1. (fed \o Offered) \o net = SubSeq(wire, 1, psent)
      BY <1>2 DEF ExactlyOnce, Offered
    <2>2. SubSeq(rx', tc' + 1, Len(rx')) = left
      <3>1. CASE rx' = left /\ tc' = 0
        <4>1. tc' + 1 = 1
          BY <3>1
        <4>2. SubSeq(left, 1, Len(left)) = left
          BY <1>9, WholeSeq
        <4> QED
          BY <3>1, <4>1, <4>2, Zenon
      <3>2. CASE rx' = rx /\ tc' = total
        BY <3>2, Zenon DEF left
      <3> QED
        BY <1>6, <3>1, <3>2
    <2>3. (fed' \o SubSeq(rx', tc' + 1, Len(rx'))) \o net' = SubSeq(wire', 1, psent')
      BY <1>3, <1>6, <2>1, <2>2, Zenon
    <2> QED
      BY <2>3 DEF ExactlyOnce
  <1>18. BufferInv'
    <2>1. CASE rx' = left /\ tc' = 0 /\ pc' = "idle"
      BY <2>1 DEF BufferInv, Draining
    <2>2. CASE pc' = pc /\ tc' = total /\ rx' = rx /\ total < Len(rx)
      BY <1>1, <2>2 DEF BufferInv, Draining
    <2>3. pc' = "idle" => tc' = 0 /\ rx' = left
      BY <1>1, <1>6 DEF Draining
    <2> QED
      BY <1>8, <2>1, <2>2, <2>3
  <1>19. Settled(conn)' /\ pc' # "new"
    BY <1>4, <1>6, <1>15
  <1> QED
    BY <1>12, <1>13, <1>16, <1>17, <1>18, <1>19 DEF DInv, LiveInv

\* A pass of the loop in which a write fails.
LEMMA DrainWriteFailsStep ==
    ASSUME RetriesReads, DInv, NEW r, FeedsTo(Units, conn, Offered, r, ReadyTypes),
           DOMAIN r.conn = DOMAIN conn, NEW ws, Replied(conn.state, r.conn, ws),
           DrainPassWriteFails(r, ws)
    PROVE  DInv'
  <1> DEFINE v == fed \o SubSeq(rx, tc + 1, tc + r.n)
  <1>1. Draining /\ r.res = "Ok" /\ DriverTypes
    BY DEF DrainPassWriteFails, DInv
  <1>2. PICK k \in DOMAIN ws :
            /\ conn' = Answers(r.conn, SubSeq(ws, 1, k)).conn
            /\ \E c \in {<<>>, <<Cut>>} :
                  out' = out \o Answers(r.conn, SubSeq(ws, 1, k - 1)).items \o c
    BY DEF DrainPassWriteFails
  <1>3. /\ fed' = v /\ Return("write") /\ tc' = 0
        /\ rx' = rx /\ wire' = wire /\ psent' = psent /\ net' = net
    BY DEF DrainPassWriteFails
  <1>4. /\ Arrived(conn, Offered, r, v, out, ReadyTypes) /\ v \in Seq(Units)
    BY <1>1, PassFacts
  <1> DEFINE a == Answers(r.conn, SubSeq(ws, 1, k))
             b == Answers(r.conn, SubSeq(ws, 1, k - 1))
  <1> HIDE DEF v
  <1>5. Good(r.conn, v, out, a, ReadyTypes) /\ Good(r.conn, v, out, b, ReadyTypes)
    BY <1>4, AnswersBegin
  <1>6. PICK c : (c = <<>> \/ c = <<Cut>>) /\ conn' = a.conn /\ out' = (out \o b.items) \o c
    BY <1>2
  <1> HIDE DEF a, b
  <1>7. /\ Answered(r.conn, a.conn) /\ Answered(r.conn, b.conn)
        /\ Sound(b.conn, v, out \o b.items, ReadyTypes)
    BY <1>5, Zenon DEF Good
  <1>8. /\ DOMAIN a.conn = DOMAIN conn /\ a.conn.mechanism = conn.mechanism
        /\ b.conn.mechanism = conn.mechanism
    <2>1. ConnFields \subseteq DOMAIN r.conn /\ r.conn.mechanism = conn.mechanism
      BY <1>4 DEF Arrived, Sound, IsConn, KeepsFlags
    <2> QED
      BY <1>7, <2>1, AnsweredKeeps
  <1>9. (IsRadio' <=> IsRadio) /\ ReadyTypes' = ReadyTypes
    BY <1>6, <1>8, SameKind
  <1>10. pc' \in {"closed", "refused"}
    BY <1>3, Returns
  <1>11. /\ WellFormed((out \o b.items) \o c, b.conn.mechanism, pc')
         /\ (out \o b.items) \o c \in Seq(Items)
    BY <1>6, <1>7, <1>10, FailedOutput
  <1>12. OutputWellFormed' /\ out' \in Seq(Items)
    BY <1>6, <1>8, <1>11, WellFormedIs, Zenon
  <1>13. DriverTypes'
    <2>1. tc' \in 0 .. Len(rx') /\ pc' \in Places
      BY <1>1, <1>3, <1>10 DEF DriverTypes, Places
    <2> QED
      BY <1>1, <1>3, <1>4, <1>6, <1>8, <1>9, <1>12, <2>1 DEF DriverTypes
  <1> QED
    BY <1>10, <1>12, <1>13, DroppedInv

\* A pass of the loop in which feed fails.
LEMMA DrainErrStep ==
    ASSUME RetriesReads, DInv, NEW r, FeedsTo(Units, conn, Offered, r, ReadyTypes),
           DOMAIN r.conn = DOMAIN conn, DrainPassErr(r)
    PROVE  DInv'
  <1>1. Draining /\ DriverTypes
    BY DEF DrainPassErr, DInv
  <1>2. Sound(conn, fed, out, ReadyTypes) /\ Offered \in Seq(Units)
    BY <1>1, DrainingFacts
  <1>3. /\ conn' = r.conn /\ Return("protocol") /\ tc' = 0
        /\ rx' = rx /\ wire' = wire /\ psent' = psent /\ net' = net /\ fed' = fed
    BY DEF DrainPassErr
  <1>4. r.conn.mechanism = conn.mechanism
    <2>1. IsConn(conn, Units)
      BY <1>2 DEF Sound
    <2> QED
      BY <1>2, <2>1, FeedKeepsFlags DEF KeepsFlags
  <1>5. (IsRadio' <=> IsRadio) /\ ReadyTypes' = ReadyTypes
    BY <1>3, SameKind
  <1>6. pc' \in {"closed", "refused"}
    BY <1>3, Returns
  <1>7. \E q : (q = <<>> \/ q = <<Cut>> \/ q = <<Item("ERROR", <<>>)>>) /\ out' = out \o q
    <2>1. CASE r.conn.state = "Failed"
      <3>1. PICK o : /\ o = <<Item("ERROR", <<>>)>> \/ o \in Failing(<<Item("ERROR", <<>>)>>)
                     /\ out' = out \o o
        BY <2>1 DEF DrainPassErr
      <3>2. o = <<>> \/ o = <<Cut>> \/ o = <<Item("ERROR", <<>>)>>
        BY <3>1, FailingOne
      <3> QED
        BY <3>1, <3>2, Zenon
    <2>2. CASE r.conn.state # "Failed"
      <3>1. out' = out
        BY <2>2 DEF DrainPassErr
      <3>2. out \o <<>> = out
        BY <1>2 DEF Sound
      <3> QED
        BY <3>1, <3>2, Zenon
    <2> QED
      BY <2>1, <2>2
  <1>8. PICK q : (q = <<>> \/ q = <<Cut>> \/ q = <<Item("ERROR", <<>>)>>) /\ out' = out \o q
    BY <1>7
  <1>9. WellFormed(out \o q, conn.mechanism, pc') /\ out \o q \in Seq(Items)
    BY <1>2, <1>6, <1>8, FailedOutput
  <1>10. OutputWellFormed' /\ out' \in Seq(Items)
    BY <1>3, <1>4, <1>8, <1>9, WellFormedIs, Zenon
  <1>11. DriverTypes'
    <2>1. tc' \in 0 .. Len(rx') /\ pc' \in Places
      BY <1>1, <1>3, <1>6 DEF DriverTypes, Places
    <2> QED
      BY <1>1, <1>3, <1>4, <1>5, <1>10, <2>1 DEF DriverTypes
  <1> QED
    BY <1>6, <1>10, <1>11, DroppedInv

-----------------------------------------------------------------------------
(* The invariant *)

\* The replies of both drivers, after a feed that succeeded.
LEMMA PubReplies ==
    ASSUME NEW prev, NEW d
    PROVE  Replied(prev, d, Replies(prev, d))
  BY DEF Replied, Replies

\* The same for RADIO, where only NULL is spoken.
LEMMA RadioReplies ==
    ASSUME NEW c, NEW x, NEW r, NEW v, NEW o, NEW types, Arrived(c, x, r, v, o, types),
           c.mechanism = "Null"
    PROVE  Replied(c.state, r.conn, R!Replies(c.state, r.conn))
  <1>1. r.conn.state = "Ready" => c.state \in {"Greeting", "Ready"}
    BY DEF Arrived, Moves
  <1>2. r.conn.state # "PlainReady"
    BY DEF Arrived, Sound, FedInv, Received, KeepsFlags
  <1> QED
    BY <1>1, <1>2 DEF Replied, R!Replies

\* The connection is of its kind while the driver drains.
LEMMA PubDrains ==
    ASSUME DInv, Draining, ~IsRadio, NEW r, r = FeedConn(conn, Offered)
    PROVE  FeedsTo(Units, conn, Offered, r, ReadyTypes) /\ DOMAIN r.conn = DOMAIN conn
  <1>1. Sound(conn, fed, out, ReadyTypes) /\ Offered \in Seq(Units)
    BY DrainingFacts
  <1>2. IsPub(conn, Units) /\ ReadyTypes = PubTypes
    BY <1>1 DEF Sound, IsPub, DInv, DriverTypes, ReadyTypes
  <1> QED
    BY <1>1, <1>2, PubFeeds DEF TableFed

\* The same for RADIO.
LEMMA RadioDrains ==
    ASSUME DInv, Draining, IsRadio, NEW r, r = R!Radio!FeedConn(conn, R!Offered)
    PROVE  /\ FeedsTo(Units, conn, Offered, r, ReadyTypes) /\ DOMAIN r.conn = DOMAIN conn
           /\ conn.mechanism = "Null"
  <1>1. Sound(conn, fed, out, ReadyTypes) /\ Offered \in Seq(Units)
    BY DrainingFacts
  <1>2. IsRadioConn(conn, Units) /\ ReadyTypes = DishTypes /\ conn.mechanism = "Null"
    BY <1>1 DEF Sound, IsRadioConn, DInv, DriverTypes, ReadyTypes
  <1>3. r = Radio!FeedConn(conn, Offered)
    BY SameRadio, SamePasses, Zenon
  <1> QED
    BY <1>1, <1>2, <1>3, RadioFeeds DEF GroupsFed

\* A step of the PUB driver.
LEMMA PubStep ==
    ASSUME RetriesReads, DInv, ~IsRadio, Next
    PROVE  DInv'
  <1>1. CASE PeerSend
    BY <1>1, PeerSendStep
  <1>2. CASE New
    BY <1>2, ConstructStep DEF New
  <1>3. CASE Poll
    BY <1>3, BeginPollStep DEF Poll
  <1>4. ASSUME NEW n, Read(n) PROVE DInv'
    BY <1>4, ReceiveStep DEF Read
  <1>5. CASE ReadFails
    BY <1>5, ReceiveFailsStep DEF ReadFails
  <1>6. CASE DrainOk
    <2>1. PICK r : r = FeedConn(conn, Offered) /\ DrainPass(r, Replies(conn.state, r.conn))
      BY <1>6, Zenon DEF DrainOk, Fed
    <2>2. Draining
      BY <2>1 DEF DrainPass
    <2> QED
      BY <2>1, <2>2, PubDrains, PubReplies, DrainOkStep
  <1>7. CASE DrainWriteFails
    <2>1. PICK r : r = FeedConn(conn, Offered) /\ DrainPassWriteFails(r, Replies(conn.state, r.conn))
      BY <1>7, Zenon DEF DrainWriteFails, Fed
    <2>2. Draining
      BY <2>1 DEF DrainPassWriteFails
    <2> QED
      BY <2>1, <2>2, PubDrains, PubReplies, DrainWriteFailsStep
  <1>8. CASE DrainErr
    <2>1. PICK r : r = FeedConn(conn, Offered) /\ DrainPassErr(r)
      BY <1>8, Zenon DEF DrainErr, Fed
    <2>2. Draining
      BY <2>1 DEF DrainPassErr
    <2> QED
      BY <2>1, <2>2, PubDrains, DrainErrStep
  <1>9. ASSUME NEW t \in Topics, PublishMessage(t) PROVE DInv'
    <2> DEFINE r == PublishHeaders(conn, t)
    <2>1. WriteMessage(r, t) /\ r.res = "Ok"
      BY <1>9 DEF PublishMessage, WriteMessage
    <2>2. conn.state = "Established"
      BY <2>1 DEF PublishHeaders, Err
    <2> HIDE DEF r
    <2> QED
      BY <2>1, <2>2, MessageStep
  <1> QED
    BY <1>1, <1>2, <1>3, <1>4, <1>5, <1>6, <1>7, <1>8, <1>9 DEF Next

\* A step of the RADIO driver.
LEMMA RadioStep ==
    ASSUME RetriesReads, DInv, IsRadio, R!Next
    PROVE  DInv'
  <1>1. CASE R!PeerSend
    BY <1>1, SameSteps, PeerSendStep
  <1>2. CASE R!New
    BY <1>2, SameSteps, ConstructStep
  <1>3. CASE R!Poll
    BY <1>3, SameSteps, BeginPollStep
  <1>4. ASSUME NEW n, R!Read(n) PROVE DInv'
    BY <1>4, SameSteps, ReceiveStep
  <1>5. CASE R!ReadFails
    BY <1>5, SameSteps, ReceiveFailsStep
  <1>6. CASE R!DrainOk
    <2>1. PICK r : /\ r = R!Radio!FeedConn(conn, R!Offered)
                   /\ DrainPass(r, R!Replies(conn.state, r.conn))
      BY <1>6, SamePasses, Zenon DEF R!DrainOk, R!Fed
    <2>2. Draining /\ r.res = "Ok"
      BY <2>1 DEF DrainPass
    <2>3. FeedsTo(Units, conn, Offered, r, ReadyTypes) /\ DOMAIN r.conn = DOMAIN conn /\ conn.mechanism = "Null"
      BY <2>1, <2>2, RadioDrains
    <2>4. PICK v : v = fed \o SubSeq(rx, tc + 1, tc + r.n)
      OBVIOUS
    <2>5. Arrived(conn, Offered, r, v, out, ReadyTypes)
      BY <2>2, <2>3, <2>4, PassFacts
    <2>6. Replied(conn.state, r.conn, R!Replies(conn.state, r.conn))
      BY <2>3, <2>5, RadioReplies
    <2> QED
      BY <2>1, <2>3, <2>6, DrainOkStep
  <1>7. CASE R!DrainWriteFails
    <2>1. PICK r : /\ r = R!Radio!FeedConn(conn, R!Offered)
                   /\ DrainPassWriteFails(r, R!Replies(conn.state, r.conn))
      BY <1>7, SamePasses, Zenon DEF R!DrainWriteFails, R!Fed
    <2>2. Draining /\ r.res = "Ok"
      BY <2>1 DEF DrainPassWriteFails
    <2>3. FeedsTo(Units, conn, Offered, r, ReadyTypes) /\ DOMAIN r.conn = DOMAIN conn /\ conn.mechanism = "Null"
      BY <2>1, <2>2, RadioDrains
    <2>4. PICK v : v = fed \o SubSeq(rx, tc + 1, tc + r.n)
      OBVIOUS
    <2>5. Arrived(conn, Offered, r, v, out, ReadyTypes)
      BY <2>2, <2>3, <2>4, PassFacts
    <2>6. Replied(conn.state, r.conn, R!Replies(conn.state, r.conn))
      BY <2>3, <2>5, RadioReplies
    <2> QED
      BY <2>1, <2>3, <2>6, DrainWriteFailsStep
  <1>8. CASE R!DrainErr
    <2>1. PICK r : r = R!Radio!FeedConn(conn, R!Offered) /\ DrainPassErr(r)
      BY <1>8, SamePasses, Zenon DEF R!DrainErr, R!Fed
    <2>2. Draining
      BY <2>1 DEF DrainPassErr
    <2> QED
      BY <2>1, <2>2, RadioDrains, DrainErrStep
  <1>9. ASSUME NEW g \in Groups, R!PublishMessage(g) PROVE DInv'
    <2> DEFINE r == R!Radio!PublishHeaders(conn, g)
    <2>1. R!WriteMessage(r, g)
      BY <1>9 DEF R!PublishMessage
    <2>2. WriteMessage(r, g)
      BY <2>1, SameSteps, Zenon
    <2>3. r.res = "Ok"
      BY <2>2 DEF WriteMessage
    <2>4. conn.state = "Established"
      BY <2>3 DEF R!Radio!PublishHeaders, R!Radio!H!Err
    <2> HIDE DEF r
    <2> QED
      BY <2>2, <2>4, MessageStep
  <1> QED
    BY <1>1, <1>2, <1>3, <1>4, <1>5, <1>6, <1>7, <1>8, <1>9 DEF R!Next

\* The invariant holds in the next state.
LEMMA NextDInv ==
    ASSUME RetriesReads, DInv, [EitherNext]_vars
    PROVE  DInv'
  <1>1. CASE UNCHANGED vars
    BY <1>1 DEF vars, loopVars, DInv, DriverTypes, LiveInv, BufferInv, ExactlyOnce, OutputWellFormed,
                Live, Draining, IsRadio, ReadyTypes
  <1>2. CASE EitherNext
    BY <1>2, PubStep, RadioStep DEF EitherNext
  <1> QED
    BY <1>1, <1>2

\* A driver whose caller polls again after errors of a read only is in a
\* state of DInv throughout: the connection is sound, and nothing is owed to
\* the peer between two calls.
THEOREM Invariance ==
    ASSUME RetriesReads
    PROVE  EitherSpec => []DInv
  BY InitDInv, NextDInv, PTL DEF EitherSpec

\* No unit of the peer is lost, repeated or moved on its way through the
\* transport, the receive buffer and its compaction into the connection,
\* whatever the size of the buffer and however the reads cut the stream.
THEOREM ExactlyOnceCorrect ==
    ASSUME RetriesReads
    PROVE  EitherSpec => []ExactlyOnce
  <1>1. DInv => ExactlyOnce
    BY DEF DInv, LiveInv, ExactlyOnce
  <1> QED
    BY <1>1, Invariance, PTL

\* Every PING of a 3.1 peer is answered by one PONG with its context, in order.
THEOREM PongPerPingCorrect ==
    ASSUME RetriesReads
    PROVE  EitherSpec => []PongPerPing
  <1>1. DInv => PongPerPing
    <2> SUFFICES ASSUME DInv, Live
                 PROVE  PongsIn(out) = PingsDue(conn, fed)
      BY DEF PongPerPing, PingsDue, Traffic
    <2>1. Sound(conn, fed, out, ReadyTypes) /\ conn.pending_pong = <<>>
      BY DEF DInv, LiveInv, Settled
    <2> QED
      BY <2>1, NoneOwed
  <1> QED
    BY <1>1, Invariance, PTL

\* When poll waits for the peer the driver owes it nothing.
THEOREM BlockedOwesNothingCorrect ==
    ASSUME RetriesReads
    PROVE  EitherSpec => []BlockedOwesNothing
  <1>1. DInv => BlockedOwesNothing
    <2> SUFFICES ASSUME DInv, pc = "read"
                 PROVE  /\ rx = <<>> /\ conn.pending_pong = <<>>
                        /\ Len(HandshakeIn(out)) =
                              IF conn.state \in {"Greeting", "PlainHello"} THEN 1
                              ELSE Len(FullHandshake(conn.mechanism))
      BY DEF BlockedOwesNothing
    <2>1. /\ rx = <<>> /\ Sound(conn, fed, out, ReadyTypes) /\ Settled(conn)
      BY DEF DInv, LiveInv, Live, BufferInv
    <2>2. /\ IsConn(conn, Units) /\ FedInv(conn, fed, FALSE, ReadyTypes) /\ HandshakeIn(out) = Said(conn)
      BY <2>1 DEF Sound, SentInv
    <2>3. CASE conn.state \in {"Greeting", "PlainHello"}
      <3>1. conn.our_greeting_sent /\ ~conn.our_ready_sent /\ ~conn.our_welcome_sent
        BY <2>1, <2>2, <2>3 DEF Settled, FedInv, Greets, Received, IsConn
      <3>2. Said(conn) = <<"GREETING">>
        BY <3>1, Zenon DEF Said
      <3> QED
        BY <2>1, <2>2, <2>3, <3>2 DEF Settled
    <2>4. CASE conn.state \in {"Ready", "PlainReady", "Established"}
      <3>1. conn.our_greeting_sent /\ conn.our_ready_sent
        BY <2>1, <2>2, <2>4 DEF Settled, FedInv, Received
      <3>2. conn.our_welcome_sent <=> conn.mechanism = "Plain"
        BY <2>2, <3>1 DEF FedInv, Received, IsConn
      <3>3. Said(conn) = FullHandshake(conn.mechanism)
        BY <2>2, <3>1, <3>2, Zenon DEF Said, FullHandshake, IsConn, Mechanisms
      <3> QED
        BY <2>1, <2>2, <2>4, <3>3 DEF Settled
    <2>5. conn.state \in {"Greeting", "PlainHello", "Ready", "PlainReady", "Established"}
      BY <2>1, <2>2 DEF Settled, IsConn, States
    <2> QED
      BY <2>3, <2>4, <2>5
  <1> QED
    BY <1>1, Invariance, PTL

\* What the peer receives is the handshake in its order, then PONGs and
\* messages, and only as the last thing an ERROR or an item that was cut off.
THEOREM OutputCorrect ==
    ASSUME RetriesReads
    PROVE  EitherSpec => []OutputWellFormed
  <1>1. DInv => OutputWellFormed
    BY DEF DInv
  <1> QED
    BY <1>1, Invariance, PTL

-----------------------------------------------------------------------------
(* Messages go to a peer that wants them *)

\* What the frames of the peer are about.
Args == {f.arg : f \in FramesOf(Units)}

\* The peer's last word on every group in the table, after the frames fs, was
\* JOIN.
MembersInv(table, fs) ==
    /\ table \in Seq(Args) /\ Distinct(table)
    /\ \A g \in InTable(table) : SaidJoin(fs, g)

\* The table of c is no larger than the frames of u warrant.
TableOk(c, u) ==
    IF "group_table" \in DOMAIN c THEN MembersInv(c.group_table, TrafficIn(c.mechanism, u))
    ELSE SubsInv(c.sub_table, TrafficIn(c.mechanism, u), Args)

TableInv == Live => TableOk(conn, fed)

\* The table and what its meaning depends on are the same in d as in c.
SameTable(c, d) ==
    /\ DOMAIN d = DOMAIN c /\ d.mechanism = c.mechanism
    /\ "group_table" \in DOMAIN c => d.group_table = c.group_table
    /\ "sub_table" \in DOMAIN c => d.sub_table = c.sub_table

\* A connection of either kind.
HasTable(c) ==
    \/ DOMAIN c = ConnFields \cup {"sub_table"}
    \/ DOMAIN c = ConnFields \cup {"group_table"}

\* What the invariant of the types says about the fields of the connection.
LEMMA ConnHasTable ==
    ASSUME DInv
    PROVE  HasTable(conn)
  BY DEF DInv, DriverTypes, HasTable

\* The invariant of the table depends on nothing else.
LEMMA SameTableOk ==
    ASSUME NEW c, NEW d, NEW u, HasTable(c), SameTable(c, d), TableOk(c, u)
    PROVE  TableOk(d, u)
  <1>1. CASE DOMAIN c = ConnFields \cup {"sub_table"}
    <2>1. "group_table" \notin DOMAIN c /\ "sub_table" \in DOMAIN c
      BY <1>1 DEF ConnFields
    <2> QED
      BY <2>1, Zenon DEF SameTable, TableOk
  <1>2. CASE DOMAIN c = ConnFields \cup {"group_table"}
    <2>1. "group_table" \in DOMAIN c
      BY <1>2
    <2> QED
      BY <2>1, Zenon DEF SameTable, TableOk
  <1> QED
    BY <1>1, <1>2 DEF HasTable

\* No groups without frames.
LEMMA MembersNone == MembersInv(<<>>, <<>>)
  <1>1. <<>> \in Seq(Args) /\ DOMAIN <<>> = {}
    OBVIOUS
  <1>2. InTable(<<>>) = {} /\ Distinct(<<>>)
    BY <1>1 DEF InTable, Distinct
  <1> QED
    BY <1>1, <1>2 DEF MembersInv

\* One more frame: JOIN, LEAVE or another.
LEMMA MembersMore ==
    ASSUME NEW table, NEW T, NEW fs \in Seq(T), NEW f \in T, MembersInv(table, fs), f.arg \in Args
    PROVE  MembersInv(GroupsWith(table, f), Append(fs, f))
  <1> DEFINE gs == Append(fs, f)
             new == GroupsWith(table, f)
  <1>1. table \in Seq(Args) /\ Distinct(table) /\ \A g \in InTable(table) : SaidJoin(fs, g)
    BY DEF MembersInv
  <1>2. \A g : SaidJoin(gs, g) <=>
              \/ f.kind = "JOIN" /\ f.arg = g
              \/ SaidJoin(fs, g) /\ ~(f.kind = "LEAVE" /\ f.arg = g)
    BY SaidJoinAppend
  <1>3. CASE f.kind = "JOIN"
    <2>1. new = Radio!G!Join(table, f.arg)
      BY <1>3 DEF GroupsWith
    <2> HIDE DEF new, gs
    <2>2. new \in Seq(Args) /\ Distinct(new) /\ InTable(new) \subseteq InTable(table) \cup {f.arg}
      BY <1>1, <2>1, JoinFacts
    <2> QED
      BY <1>1, <1>2, <1>3, <2>2 DEF MembersInv, gs, new
  <1>4. CASE f.kind = "LEAVE"
    <2>1. new = Radio!G!Leave(table, f.arg)
      BY <1>4 DEF GroupsWith
    <2> HIDE DEF new, gs
    <2>2. new \in Seq(Args) /\ Distinct(new) /\ InTable(new) = InTable(table) \ {f.arg}
      BY <1>1, <2>1, LeaveTakes
    <2> QED
      BY <1>1, <1>2, <1>4, <2>2 DEF MembersInv, gs, new
  <1>5. CASE f.kind # "JOIN" /\ f.kind # "LEAVE"
    <2>1. new = table
      BY <1>5 DEF GroupsWith
    <2> HIDE DEF new, gs
    <2> QED
      BY <1>1, <1>2, <1>5, <2>1 DEF MembersInv, gs, new
  <1> QED
    BY <1>3, <1>4, <1>5

\* The invariant of the table holds of a new driver.
LEMMA InitTableInv == EitherInit => TableInv
  <1>1. ASSUME Init PROVE TableInv
    <2>1. PICK s \in Streams : InitWith(NewConnection(s.mechanism), s.units)
      BY <1>1 DEF Init
    <2>2. conn = NewConnection(s.mechanism) /\ fed = <<>> /\ s.mechanism \in Mechanisms
      BY <2>1, PeersAssumption DEF InitWith, Mechanisms
    <2>3. Fresh(conn) /\ conn.sub_table = <<>> /\ "group_table" \notin DOMAIN conn
      BY <2>2 DEF NewConnection, Fresh, ConnFields
    <2>4. TrafficIn(conn.mechanism, <<>>) = <<>>
      BY <2>3, FreshInv
    <2> QED
      BY <2>2, <2>3, <2>4, SubsNone, Zenon DEF TableInv, TableOk
  <1>2. ASSUME R!Init PROVE TableInv
    <2>1. PICK s \in RadioStreams : R!InitWith(R!Radio!NewRadioConnection("Null"), s.units)
      BY <1>2 DEF R!Init
    <2>2. conn = R!Radio!NewRadioConnection("Null") /\ fed = <<>>
      BY <2>1 DEF R!InitWith
    <2>3. Fresh(conn) /\ conn.group_table = <<>> /\ "group_table" \in DOMAIN conn
      BY <2>2 DEF R!Radio!NewRadioConnection, R!Radio!H!NewDecoder, NewDecoder, Fresh, ConnFields, Mechanisms
    <2>4. TrafficIn(conn.mechanism, <<>>) = <<>>
      BY <2>3, FreshInv
    <2> QED
      BY <2>2, <2>3, <2>4, MembersNone, Zenon DEF TableInv, TableOk
  <1> QED
    BY <1>1, <1>2 DEF EitherInit

\* Nothing, or something that does not end with a message.
NoMessage(s) ==
    \/ s = <<>>
    \/ \E e : s = <<e>> /\ e.what # "MESSAGE"
    \/ \E e, g : s = Append(<<e>>, g) /\ g.what # "MESSAGE"

\* Nothing and a message are different things to add.
LEMMA NotMessage ==
    ASSUME NEW T, NEW o \in Seq(T), NEW s \in Seq(T), NoMessage(s), NEW t
    PROVE  o \o s # Append(o, Item("MESSAGE", t))
  <1> DEFINE m == Item("MESSAGE", t)
             n == Len(o)
  <1>0. m.what = "MESSAGE"
    BY DEF Item
  <1> HIDE DEF m
  <1>1. n \in Nat /\ Len(Append(o, m)) = n + 1 /\ Append(o, m)[n + 1] = m
    OBVIOUS
  <1>2. Len(o \o s) = n + Len(s) /\ \A i \in 1 .. Len(s) : (o \o s)[n + i] = s[i]
    OBVIOUS
  <1>3. CASE s = <<>>
    <2>1. Len(o \o s) = n
      BY <1>1, <1>2, <1>3
    <2> QED
      BY <1>1, <2>1 DEF m
  <1>4. ASSUME NEW e, s = <<e>>, e.what # "MESSAGE" PROVE o \o s # Append(o, m)
    <2>1. Len(s) = 1 /\ s[1] = e
      BY <1>4
    <2>2. (o \o s)[n + 1] = e
      BY <1>2, <2>1
    <2> QED
      BY <1>0, <1>1, <1>4, <2>2
  <1>5. ASSUME NEW e, NEW g, s = Append(<<e>>, g) PROVE o \o s # Append(o, m)
    <2>1. Len(s) = 2
      BY <1>5
    <2>2. Len(o \o s) = n + 2
      BY <1>2, <2>1
    <2> QED
      BY <1>1, <2>2
  <1> QED
    BY <1>3, <1>4, <1>5 DEF NoMessage, m

\* What is written in this step is no message.
Quiet == \A t : out' # Append(out, Item("MESSAGE", t))

\* A step that leaves the connection's table and the frames alone.
LEMMA TableKept ==
    ASSUME DInv, TableInv, SameTable(conn, conn'), fed' = fed, Live' => Live
    PROVE  TableInv'
  <1>1. HasTable(conn)
    BY ConnHasTable
  <1>2. ASSUME Live' PROVE TableOk(conn', fed')
    <2>1. TableOk(conn, fed)
      BY <1>2 DEF TableInv
    <2> QED
      BY <1>1, <2>1, SameTableOk
  <1> QED
    BY <1>2 DEF TableInv

\* A step that writes nothing.
LEMMA NothingWritten ==
    ASSUME DInv, out' = out
    PROVE  Quiet
  <1>1. out \in Seq(Items)
    BY DEF DInv, DriverTypes
  <1>2. <<>> \in Seq(Items) /\ out \o <<>> = out
    BY <1>1
  <1>3. NoMessage(<<>>)
    BY DEF NoMessage
  <1>4. \A t : out \o <<>> # Append(out, Item("MESSAGE", t))
    BY <1>1, <1>2, <1>3, NotMessage
  <1> QED
    BY <1>2, <1>4 DEF Quiet

\* A step that writes one item, or part of it.
LEMMA OneWritten ==
    ASSUME DInv, NEW what, what \in {"GREETING", "READY", "ERROR"}, NEW q,
           q = <<>> \/ q = <<Cut>> \/ q = <<Item(what, <<>>)>>, out' = out \o q
    PROVE  Quiet
  <1>1. out \in Seq(Items)
    BY DEF DInv, DriverTypes
  <1>2. Cut \in Items /\ Item(what, <<>>) \in Items
    BY ItemTypes DEF Cut
  <1>3. q \in Seq(Items)
    <2>1. <<>> \in Seq(Items) /\ <<Cut>> \in Seq(Items) /\ <<Item(what, <<>>)>> \in Seq(Items)
      BY <1>2
    <2> QED
      BY <2>1, Zenon
  <1>4. NoMessage(q)
    <2>1. Cut.what # "MESSAGE" /\ Item(what, <<>>).what # "MESSAGE"
      BY DEF Cut, Item
    <2> QED
      BY <2>1, Zenon DEF NoMessage
  <1> QED
    BY <1>1, <1>3, <1>4, NotMessage DEF Quiet

-----------------------------------------------------------------------------
(* The steps of the drivers, what they write and what becomes of the table *)

\* The peer and read change neither what was written nor the connection.
LEMMA TransportQuiet ==
    ASSUME DInv, TableInv, PeerSend \/ (\E n : Receive(n)) \/ ReceiveFails
    PROVE  Quiet /\ TableInv'
  <1>1. out' = out /\ conn' = conn /\ fed' = fed /\ (Live' => Live)
    BY DEF PeerSend, Receive, ReceiveFails, Live
  <1>2. SameTable(conn, conn')
    BY <1>1, Zenon DEF SameTable
  <1> QED
    BY <1>1, <1>2, NothingWritten, TableKept

\* A flag of the handshake is set.
LEMMA FlagKeepsTable ==
    ASSUME NEW c, HasTable(c), NEW flag \in Flags, NEW d, d = [c EXCEPT ![flag] = TRUE]
    PROVE  SameTable(c, d)
  <1>1. "mechanism" \in DOMAIN c
    BY DEF HasTable, ConnFields
  <1> QED
    BY <1>1 DEF SameTable, Flags

\* The encoders of the greeting and of READY keep the table.
LEMMA EncodersKeepTable ==
    ASSUME NEW c, HasTable(c)
    PROVE  /\ SameTable(c, WriteGreeting(c, TRUE).conn)
           /\ SameTable(c, WriteReady(c, TRUE).conn)
  <1>1. SameTable(c, c)
    BY Zenon DEF SameTable
  <1>2. WriteGreeting(c, TRUE).conn = c \/ WriteGreeting(c, TRUE).conn = [c EXCEPT !["our_greeting_sent"] = TRUE]
    BY DEF WriteGreeting, Ok, Err
  <1>3. WriteReady(c, TRUE).conn = c \/ WriteReady(c, TRUE).conn = [c EXCEPT !["our_ready_sent"] = TRUE]
    BY DEF WriteReady, Ok, Err
  <1>4. "our_greeting_sent" \in Flags /\ "our_ready_sent" \in Flags
    BY DEF Flags
  <1>5. SameTable(c, [c EXCEPT !["our_greeting_sent"] = TRUE]) /\ SameTable(c, [c EXCEPT !["our_ready_sent"] = TRUE])
    BY <1>4, FlagKeepsTable
  <1>6. SameTable(c, WriteGreeting(c, TRUE).conn)
    BY <1>1, <1>2, <1>5, Zenon
  <1>7. SameTable(c, WriteReady(c, TRUE).conn)
    BY <1>1, <1>3, <1>5, Zenon
  <1> QED
    BY <1>6, <1>7

\* The constructor writes the greeting.
LEMMA ConstructQuiet ==
    ASSUME DInv, TableInv, Construct
    PROVE  Quiet /\ TableInv'
  <1> DEFINE g == <<Item("GREETING", <<>>)>>
             d == WriteGreeting(conn, TRUE).conn
  <1>1. pc = "new" /\ conn' = d /\ fed' = fed /\ (out' = g \/ out' \in Failing(g))
    BY DEF Construct
  <1>2. SameTable(conn, d)
    BY ConnHasTable, EncodersKeepTable
  <1>3. Live /\ out = <<>>
    BY <1>1 DEF DInv, LiveInv, BufferInv, Live
  <1>4. out' = <<>> \/ out' = <<Cut>> \/ out' = g
    BY <1>1, FailingOne
  <1> HIDE DEF g, d
  <1>5. PICK q : (q = <<>> \/ q = <<Cut>> \/ q = g) /\ out' = q
    BY <1>4
  <1>6. out' = out \o q
    <2>1. q \in Seq(Items)
      <3>1. Cut \in Items /\ Item("GREETING", <<>>) \in Items
        BY ItemTypes DEF Cut
      <3>2. <<>> \in Seq(Items) /\ <<Cut>> \in Seq(Items) /\ g \in Seq(Items)
        BY <3>1 DEF g
      <3> QED
        BY <1>5, <3>2, Zenon
    <2>2. <<>> \o q = q
      BY <2>1
    <2> QED
      BY <1>3, <1>5, <2>2, Zenon
  <1>7. Quiet
    BY <1>5, <1>6, OneWritten DEF g
  <1>8. TableInv'
    BY <1>1, <1>2, <1>3, TableKept
  <1> QED
    BY <1>7, <1>8

\* The beginning of poll writes READY at most.
LEMMA BeginPollQuiet ==
    ASSUME DInv, TableInv, BeginPoll
    PROVE  Quiet /\ TableInv'
  <1> DEFINE g == <<Item("READY", <<>>)>>
             d == WriteReady(conn, TRUE).conn
  <1>1. pc = "idle" /\ fed' = fed /\ Live
    BY DEF BeginPoll, Live
  <1>2. HasTable(conn) /\ SameTable(conn, conn) /\ SameTable(conn, d)
    BY ConnHasTable, EncodersKeepTable, Zenon DEF SameTable
  <1>3. \/ conn' = conn /\ out' = out
        \/ conn' = d /\ \E q : (q = g \/ q \in Failing(g)) /\ out' = out \o q
    <2>1. CASE OwesReady
      <3>1. conn' = d /\ (out' = Append(out, Item("READY", <<>>)) \/ \E o \in Failing(g) : out' = out \o o)
        BY <2>1 DEF BeginPoll
      <3>2. Append(out, Item("READY", <<>>)) = out \o g
        BY DEF DInv, DriverTypes
      <3> QED
        BY <3>1, <3>2, Zenon
    <2>2. CASE ~OwesReady
      BY <2>2 DEF BeginPoll
    <2> QED
      BY <2>1, <2>2
  <1> HIDE DEF d
  <1>4. SameTable(conn, conn')
    BY <1>2, <1>3, Zenon
  <1>5. ASSUME out' = out PROVE Quiet
    BY <1>5, NothingWritten
  <1>6. ASSUME NEW q, q = g \/ q \in Failing(g), out' = out \o q PROVE Quiet
    <2>1. q = <<>> \/ q = <<Cut>> \/ q = g
      BY <1>6, FailingOne
    <2> QED
      BY <1>6, <2>1, OneWritten
  <1> HIDE DEF g
  <1>7. Quiet
    BY <1>3, <1>5, <1>6
  <1>8. TableInv'
    BY <1>1, <1>4, TableKept
  <1> QED
    BY <1>7, <1>8

\* What drain_buffer answers is no message.
LEMMA AnswersAreQuiet ==
    ASSUME NEW d, NEW ws,
           \/ ws = <<>>
           \/ \E w : ws = <<w>> /\ w # "MESSAGE"
           \/ \E w, z : ws = <<w, z>> /\ w # "MESSAGE" /\ z # "MESSAGE"
    PROVE  NoMessage(Answers(d, ws).items)
  <1> DEFINE One(s) == s = <<>> \/ \E e : s = <<e>> /\ e.what # "MESSAGE"
  <1>1. \A s : One(s) => NoMessage(s)
    BY Zenon DEF NoMessage
  <1>2. None(d).items = <<>> /\ None(d).res = "Ok"
    BY DEF None
  <1>3. ASSUME NEW acc, NEW w, w # "MESSAGE"
        PROVE  \/ Answer(acc, w).items = acc.items
               \/ \E e : e.what # "MESSAGE" /\ Answer(acc, w).items = Append(acc.items, e)
    <2> DEFINE e == Item(w, IF w = "PONG" THEN acc.conn.pending_pong ELSE <<>>)
    <2>1. Answer(acc, w).items = acc.items \/ Answer(acc, w).items = Append(acc.items, e)
      BY DEF Answer
    <2>2. e.what # "MESSAGE"
      BY <1>3 DEF Item
    <2> QED
      BY <2>1, <2>2
  <1>4. \A e : Append(<<>>, e) = <<e>>
    OBVIOUS
  <1>6. ASSUME NEW w, w # "MESSAGE" PROVE One(Answer(None(d), w).items)
    BY <1>2, <1>3, <1>4, <1>6, Zenon
  <1>7. CASE ws = <<>>
    <2>1. Answers(d, ws).items = <<>>
      BY <1>2, <1>7, AnswersAre, Zenon
    <2> QED
      BY <2>1, Zenon DEF NoMessage
  <1>8. ASSUME NEW w, ws = <<w>>, w # "MESSAGE" PROVE NoMessage(Answers(d, ws).items)
    <2>1. Answers(d, ws).items = Answer(None(d), w).items
      BY <1>8, AnswersAre, Zenon
    <2> QED
      BY <1>1, <1>6, <1>8, <2>1, Zenon
  <1>9. ASSUME NEW w, NEW z, ws = <<w, z>>, w # "MESSAGE", z # "MESSAGE"
        PROVE  NoMessage(Answers(d, ws).items)
    <2> DEFINE b == Answer(None(d), w)
    <2>1. Answers(d, ws) = Answer(b, z)
      BY <1>9, AnswersAre
    <2>2. One(b.items)
      BY <1>6, <1>9, Zenon
    <2>3. \/ Answer(b, z).items = b.items
          \/ \E e : e.what # "MESSAGE" /\ Answer(b, z).items = Append(b.items, e)
      BY <1>3, <1>9, Zenon
    <2> HIDE DEF b
    <2>4. CASE Answer(b, z).items = b.items
      BY <1>1, <2>1, <2>2, <2>4, Zenon
    <2>5. ASSUME NEW g, g.what # "MESSAGE", Answer(b, z).items = Append(b.items, g)
          PROVE  NoMessage(Append(b.items, g))
      <3>1. CASE b.items = <<>>
        BY <1>4, <2>5, <3>1, Zenon DEF NoMessage
      <3>2. ASSUME NEW e, b.items = <<e>> PROVE NoMessage(Append(b.items, g))
        BY <2>5, <3>2, Zenon DEF NoMessage
      <3> QED
        BY <2>2, <3>1, <3>2
    <2> QED
      BY <2>1, <2>3, <2>4, <2>5, Zenon
  <1> QED
    BY <1>7, <1>8, <1>9

\* The answers to a change of state, and the first of them.
LEMMA RepliesQuiet ==
    ASSUME NEW prev, NEW d, NEW ws, Replied(prev, d, ws)
    PROVE  /\ NoMessage(Answers(d, ws).items)
           /\ \A k \in DOMAIN ws : NoMessage(Answers(d, SubSeq(ws, 1, k - 1)).items)
  <1>0. NoMessage(Answers(d, <<>>).items)
    BY AnswersAreQuiet
  <1>1. ASSUME NEW w, ws = <<w>>, w # "MESSAGE"
        PROVE  /\ NoMessage(Answers(d, ws).items)
               /\ \A k \in DOMAIN ws : NoMessage(Answers(d, SubSeq(ws, 1, k - 1)).items)
    <2>1. DOMAIN <<w>> = {1} /\ SubSeq(<<w>>, 1, 0) = <<>>
      BY TupleParts
    <2>2. NoMessage(Answers(d, ws).items)
      BY <1>1, AnswersAreQuiet
    <2>3. ASSUME NEW k \in DOMAIN ws PROVE NoMessage(Answers(d, SubSeq(ws, 1, k - 1)).items)
      <3>1. k - 1 = 0
        BY <1>1, <2>1, <2>3
      <3> QED
        BY <1>0, <1>1, <2>1, <3>1, Zenon
    <2> QED
      BY <2>2, <2>3
  <1>2. CASE ws = <<"WELCOME", "READY">>
    <2>1. /\ SubSeq(ws, 1, 0) = <<>> /\ SubSeq(ws, 1, 1) = <<"WELCOME">> /\ DOMAIN ws = {1, 2}
      BY <1>2, TupleParts, Zenon
    <2>2. NoMessage(Answers(d, ws).items)
      <3>1. \E w, z : ws = <<w, z>> /\ w # "MESSAGE" /\ z # "MESSAGE"
        BY <1>2
      <3> QED
        BY <3>1, AnswersAreQuiet
    <2>3. NoMessage(Answers(d, <<"WELCOME">>).items)
      <3>1. \E w : <<"WELCOME">> = <<w>> /\ w # "MESSAGE"
        OBVIOUS
      <3> QED
        BY <3>1, AnswersAreQuiet
    <2>4. ASSUME NEW k \in DOMAIN ws PROVE NoMessage(Answers(d, SubSeq(ws, 1, k - 1)).items)
      <3>1. k - 1 = 0 \/ k - 1 = 1
        BY <2>1, <2>4
      <3> QED
        BY <1>0, <2>1, <2>3, <3>1, Zenon
    <2> QED
      BY <2>2, <2>4
  <1>3. ws = <<"READY">> \/ ws = <<"PONG">> \/ ws = <<"WELCOME", "READY">>
    BY DEF Replied
  <1> QED
    BY <1>1, <1>2, <1>3

\* feed makes of the table what the frame it took warrants, for PUB.
LEMMA PubTableFed ==
    ASSUME DInv, TableInv, Draining, ~IsRadio, NEW r, r = FeedConn(conn, Offered), r.res = "Ok"
    PROVE  TableOk(r.conn, FedBy(fed, Offered, r)) /\ HasTable(r.conn)
  <1> DEFINE f == TakeFrame(conn, Offered).frame
             u == FedBy(fed, Offered, r)
             m == conn.mechanism
  <1>1. /\ Live /\ Sound(conn, fed, out, ReadyTypes) /\ Offered \in Seq(Units)
    BY DrainingFacts
  <1>2. IsPub(conn, Units) /\ IsConn(conn, Units) /\ ReadyTypes = PubTypes
    BY <1>1 DEF Sound, IsPub, DInv, DriverTypes, ReadyTypes
  <1>3. FeedsTo(Units, conn, Offered, r, ReadyTypes) /\ TableFed(conn, Offered, r)
    BY <1>1, <1>2, PubFeeds
  <1>4. PICK rej \in BOOLEAN : fed \in Seq(Units) /\ FedInv(conn, fed, rej, ReadyTypes)
    BY <1>1, Zenon DEF Sound
  <1>5. r.conn.mechanism = m
    BY <1>1, <1>2, <1>3, FeedKeepsFlags DEF KeepsFlags
  <1>6. "group_table" \notin DOMAIN conn /\ DOMAIN r.conn = DOMAIN conn
    BY <1>3 DEF IsRadio, TableFed
  <1>7. SubsInv(conn.sub_table, TrafficIn(m, fed), Args)
    BY <1>1, <1>6 DEF TableInv, TableOk
  <1>8. \/ ~FrameTaken(conn, Offered) /\ TrafficIn(m, u) = TrafficIn(m, fed)
        \/ /\ FrameTaken(conn, Offered)
           /\ TrafficIn(m, fed) \in Seq(FramesOf(Units)) /\ f \in FramesOf(Units)
           /\ TrafficIn(m, u) = Append(TrafficIn(m, fed), f)
    <2>1. IsConn(conn, Units) /\ Offered \in Seq(Units) /\ FeedsTo(Units, conn, Offered, r, ReadyTypes)
      BY <1>1, <1>2, <1>3
    <2> QED
      BY <1>4, <2>1, FeedTraffic
  <1>9. SubsInv(r.conn.sub_table, TrafficIn(m, u), Args)
    <2>1. CASE ~FrameTaken(conn, Offered) /\ TrafficIn(m, u) = TrafficIn(m, fed)
      BY <1>3, <1>7, <2>1 DEF TableFed
    <2>2. CASE /\ FrameTaken(conn, Offered)
               /\ TrafficIn(m, fed) \in Seq(FramesOf(Units)) /\ f \in FramesOf(Units)
               /\ TrafficIn(m, u) = Append(TrafficIn(m, fed), f)
      <3>1. r.conn.sub_table = TableWith(conn.sub_table, f)
        BY <1>3, <2>2 DEF TableFed
      <3>2. f.arg \in Args
        BY <2>2 DEF Args
      <3> HIDE DEF f, u, m
      <3>3. SubsInv(TableWith(conn.sub_table, f), Append(TrafficIn(m, fed), f), Args)
        BY <1>7, <2>2, <3>2, SubsMore
      <3> QED
        BY <2>2, <3>1, <3>3, Zenon
    <2> QED
      BY <1>8, <2>1, <2>2
  <1>10. HasTable(r.conn)
    BY <1>6, ConnHasTable DEF HasTable
  <1> HIDE DEF u
  <1> QED
    BY <1>5, <1>6, <1>9, <1>10, Zenon DEF TableOk, u

\* The same for RADIO.
LEMMA RadioTableFed ==
    ASSUME DInv, TableInv, Draining, IsRadio, NEW r, r = R!Radio!FeedConn(conn, R!Offered), r.res = "Ok"
    PROVE  TableOk(r.conn, FedBy(fed, Offered, r)) /\ HasTable(r.conn)
  <1> DEFINE f == TakeFrame(conn, Offered).frame
             u == FedBy(fed, Offered, r)
             m == conn.mechanism
  <1>1. /\ Live /\ Sound(conn, fed, out, ReadyTypes) /\ Offered \in Seq(Units)
    BY DrainingFacts
  <1>2. IsRadioConn(conn, Units) /\ IsConn(conn, Units) /\ ReadyTypes = DishTypes
    BY <1>1 DEF Sound, IsRadioConn, DInv, DriverTypes, ReadyTypes
  <1>2a. r = Radio!FeedConn(conn, Offered)
    BY SameRadio, SamePasses, Zenon
  <1>3. FeedsTo(Units, conn, Offered, r, ReadyTypes) /\ GroupsFed(conn, Offered, r)
    BY <1>1, <1>2, <1>2a, RadioFeeds
  <1>4. PICK rej \in BOOLEAN : fed \in Seq(Units) /\ FedInv(conn, fed, rej, ReadyTypes)
    BY <1>1, Zenon DEF Sound
  <1>5. r.conn.mechanism = m
    BY <1>1, <1>2, <1>3, FeedKeepsFlags DEF KeepsFlags
  <1>6. "group_table" \in DOMAIN conn /\ DOMAIN r.conn = DOMAIN conn
    BY <1>3 DEF IsRadio, GroupsFed
  <1>7. MembersInv(conn.group_table, TrafficIn(m, fed))
    BY <1>1, <1>6 DEF TableInv, TableOk
  <1>8. \/ ~FrameTaken(conn, Offered) /\ TrafficIn(m, u) = TrafficIn(m, fed)
        \/ /\ FrameTaken(conn, Offered)
           /\ TrafficIn(m, fed) \in Seq(FramesOf(Units)) /\ f \in FramesOf(Units)
           /\ TrafficIn(m, u) = Append(TrafficIn(m, fed), f)
    <2>1. IsConn(conn, Units) /\ Offered \in Seq(Units) /\ FeedsTo(Units, conn, Offered, r, ReadyTypes)
      BY <1>1, <1>2, <1>3
    <2> QED
      BY <1>4, <2>1, FeedTraffic
  <1>9. MembersInv(r.conn.group_table, TrafficIn(m, u))
    <2>1. CASE ~FrameTaken(conn, Offered) /\ TrafficIn(m, u) = TrafficIn(m, fed)
      BY <1>3, <1>7, <2>1 DEF GroupsFed
    <2>2. CASE /\ FrameTaken(conn, Offered)
               /\ TrafficIn(m, fed) \in Seq(FramesOf(Units)) /\ f \in FramesOf(Units)
               /\ TrafficIn(m, u) = Append(TrafficIn(m, fed), f)
      <3>1. r.conn.group_table = GroupsWith(conn.group_table, f)
        BY <1>3, <2>2 DEF GroupsFed
      <3>2. f.arg \in Args
        BY <2>2 DEF Args
      <3> HIDE DEF f, u, m
      <3>3. MembersInv(GroupsWith(conn.group_table, f), Append(TrafficIn(m, fed), f))
        BY <1>7, <2>2, <3>2, MembersMore
      <3> QED
        BY <2>2, <3>1, <3>3, Zenon
    <2> QED
      BY <1>8, <2>1, <2>2
  <1>10. HasTable(r.conn)
    BY <1>6, ConnHasTable DEF HasTable
  <1> HIDE DEF u
  <1> QED
    BY <1>5, <1>6, <1>9, <1>10, Zenon DEF TableOk, u

\* A pass of the loop that succeeds.
LEMMA PassQuiet ==
    ASSUME DInv, NEW r, FeedsTo(Units, conn, Offered, r, ReadyTypes), HasTable(r.conn),
           TableOk(r.conn, FedBy(fed, Offered, r)), NEW ws, Replied(conn.state, r.conn, ws), DrainPass(r, ws)
    PROVE  Quiet /\ TableInv'
  <1> DEFINE a == Answers(r.conn, ws)
             v == fed \o SubSeq(rx, tc + 1, tc + r.n)
  <1>1. Draining /\ r.res = "Ok"
    BY DEF DrainPass
  <1>2. /\ r.n \in 1 .. Len(rx) - tc /\ Arrived(conn, Offered, r, v, out, ReadyTypes)
    BY <1>1, PassFacts
  <1>3. conn' = a.conn /\ out' = out \o a.items /\ fed' = v
    BY DEF DrainPass
  <1>4. FedBy(fed, Offered, r) = v
    <2>1. tc \in Nat /\ tc < Len(rx) /\ Len(rx) \in Nat /\ rx \in Seq(Units)
      BY <1>1, DrainingFacts
    <2>2. tc \in 0 .. Len(rx) /\ r.n \in 0 .. Len(rx) - tc
      BY <1>2, <2>1
    <2>3. SubSeq(Offered, 1, r.n) = SubSeq(rx, tc + 1, tc + r.n)
      <3>1. PICK x \in Seq(Units) : x = rx
        BY <2>1
      <3>2. PICK s : s = SubSeq(x, tc + 1, Len(x))
        OBVIOUS
      <3>3. tc \in 0 .. Len(x) /\ r.n \in 0 .. Len(x) - tc
        BY <2>2, <3>1
      <3>4. SubSeq(s, 1, r.n) = SubSeq(x, tc + 1, tc + r.n)
        BY <3>2, <3>3, Slices, SMTT(30)
      <3> QED
        BY <3>1, <3>2, <3>4 DEF Offered
    <2> QED
      BY <1>1, <2>3, Zenon DEF FedBy
  <1> HIDE DEF v
  <1>5. Good(r.conn, v, out, a, ReadyTypes)
    BY <1>2, AnswersGood
  <1>6. NoMessage(a.items)
    BY RepliesQuiet
  <1> HIDE DEF a
  <1>7. a.items \in Seq(Items) /\ Answered(r.conn, a.conn)
    BY <1>5 DEF Good
  <1>8. out \in Seq(Items)
    BY DEF DInv, DriverTypes
  <1>9. Quiet
    BY <1>3, <1>6, <1>7, <1>8, NotMessage DEF Quiet
  <1>10. SameTable(r.conn, a.conn)
    BY <1>7 DEF HasTable, Answered, SameTable, ConnFields, Flags
  <1>11. TableOk(a.conn, v)
    BY <1>4, <1>10, SameTableOk
  <1> QED
    BY <1>3, <1>9, <1>11 DEF TableInv

\* A pass of the loop in which a write fails.
LEMMA PassWriteFailsQuiet ==
    ASSUME RetriesReads, DInv, NEW r, FeedsTo(Units, conn, Offered, r, ReadyTypes),
           NEW ws, Replied(conn.state, r.conn, ws), DrainPassWriteFails(r, ws)
    PROVE  Quiet /\ TableInv'
  <1> DEFINE v == fed \o SubSeq(rx, tc + 1, tc + r.n)
  <1>1. Draining /\ r.res = "Ok" /\ Return("write")
    BY DEF DrainPassWriteFails
  <1>2. PICK k \in DOMAIN ws :
            \E c \in {<<>>, <<Cut>>} : out' = out \o Answers(r.conn, SubSeq(ws, 1, k - 1)).items \o c
    BY DEF DrainPassWriteFails
  <1>3. Arrived(conn, Offered, r, v, out, ReadyTypes)
    BY <1>1, PassFacts
  <1> DEFINE b == Answers(r.conn, SubSeq(ws, 1, k - 1))
  <1> HIDE DEF v
  <1>4. Good(r.conn, v, out, b, ReadyTypes) /\ NoMessage(b.items)
    BY <1>3, AnswersBegin, RepliesQuiet
  <1>5. PICK c : (c = <<>> \/ c = <<Cut>>) /\ out' = (out \o b.items) \o c
    BY <1>2
  <1> HIDE DEF b
  <1>6. b.items \in Seq(Items) /\ out \in Seq(Items)
    BY <1>4 DEF Good, DInv, DriverTypes
  <1>7. ASSUME c = <<>> PROVE Quiet
    <2>1. out' = out \o b.items
      BY <1>5, <1>6, <1>7
    <2> QED
      BY <1>4, <1>6, <2>1, NotMessage DEF Quiet
  <1>8. ASSUME c = <<Cut>> PROVE Quiet
    <2>1. Cut \in Items /\ Cut.what # "MESSAGE"
      BY ItemTypes DEF Cut, Item
    <2>2. ASSUME NEW t, out' = Append(out, Item("MESSAGE", t)) PROVE FALSE
      <3> DEFINE o == out \o b.items
      <3>1. o \in Seq(Items) /\ out' = o \o <<Cut>>
        BY <1>5, <1>6, <1>8
      <3> HIDE DEF o
      <3>2. out'[Len(out')] = Cut
        BY <2>1, <3>1
      <3> DEFINE e == Item("MESSAGE", t)
      <3>3. e.what = "MESSAGE" /\ out' = Append(out, e)
        BY <2>2 DEF Item
      <3> HIDE DEF e
      <3>4. out'[Len(out')] = e
        BY <1>6, <3>3
      <3> QED
        BY <2>1, <3>2, <3>3, <3>4
    <2> QED
      BY <2>2 DEF Quiet
  <1>9. ~Live'
    BY <1>1, Returns DEF Live
  <1> QED
    BY <1>5, <1>7, <1>8, <1>9 DEF TableInv

\* A pass of the loop in which feed returns an error.
LEMMA PassErrQuiet ==
    ASSUME RetriesReads, DInv, NEW r, DrainPassErr(r)
    PROVE  Quiet /\ TableInv'
  <1> DEFINE g == <<Item("ERROR", <<>>)>>
  <1>1. ~Live'
    BY Returns DEF DrainPassErr, Live
  <1>2. out' = out \/ \E q : (q = g \/ q \in Failing(g)) /\ out' = out \o q
    BY DEF DrainPassErr
  <1>3. ASSUME out' = out PROVE Quiet
    BY <1>3, NothingWritten
  <1>4. ASSUME NEW q, q = g \/ q \in Failing(g), out' = out \o q PROVE Quiet
    <2>1. q = <<>> \/ q = <<Cut>> \/ q = g
      BY <1>4, FailingOne
    <2> QED
      BY <1>4, <2>1, OneWritten
  <1> HIDE DEF g
  <1> QED
    BY <1>1, <1>2, <1>3, <1>4 DEF TableInv

\* publish changes nothing of the table, and writes what it was called for.
LEMMA MessageSays ==
    ASSUME DInv, TableInv, NEW r, NEW h, WriteMessage(r, h)
    PROVE  /\ TableInv' /\ Live /\ r.res = "Ok" /\ r.n = 1
           /\ \A t : out' = Append(out, Item("MESSAGE", t)) => t = h
  <1>1. pc = "idle" /\ r.res = "Ok" /\ r.n = 1 /\ conn' = conn /\ fed' = fed
    BY DEF WriteMessage
  <1>2. Live /\ SameTable(conn, conn')
    BY <1>1, Zenon DEF Live, SameTable
  <1>3. TableInv'
    BY <1>1, <1>2, TableKept
  <1>4. ASSUME NEW t, out' = Append(out, Item("MESSAGE", t)) PROVE t = h
    <2>1. out \in Seq(Items)
      BY DEF DInv, DriverTypes
    <2>2. CASE out' = Append(out, Item("MESSAGE", h))
      <3> DEFINE a == Item("MESSAGE", t)
                 b == Item("MESSAGE", h)
      <3>1. a.arg = t /\ b.arg = h /\ Append(out, a) = Append(out, b)
        BY <1>4, <2>2 DEF Item
      <3> HIDE DEF a, b
      <3>2. Append(out, a)[Len(out) + 1] = a /\ Append(out, b)[Len(out) + 1] = b
        BY <2>1
      <3> QED
        BY <3>1, <3>2
    <2>3. ASSUME NEW o \in Failing(<<Item("MESSAGE", h)>>), out' = out \o o PROVE FALSE
      <3>1. o = <<>> \/ o = <<Cut>>
        BY <2>3, FailingOne
      <3>2. Quiet
        BY <2>3, <3>1, OneWritten
      <3> QED
        BY <1>4, <3>2 DEF Quiet
    <2> QED
      BY <2>2, <2>3 DEF WriteMessage
  <1> QED
    BY <1>1, <1>2, <1>3, <1>4

\* A PUB driver writes a message only by publish, and its steps keep the
\* invariant of the table.
LEMMA PubTableStep ==
    ASSUME RetriesReads, DInv, TableInv, ~IsRadio, Next
    PROVE  TableInv' /\ (Quiet \/ \E h \in Topics : PublishMessage(h))
  <1>1. CASE PeerSend \/ ReadFails \/ \E n \in 1 .. Readable : Read(n)
    BY <1>1, TransportQuiet DEF Read, ReadFails
  <1>2. CASE New
    BY <1>2, ConstructQuiet DEF New
  <1>3. CASE Poll
    BY <1>3, BeginPollQuiet DEF Poll
  <1>4. CASE DrainOk
    <2>1. PICK r : r = FeedConn(conn, Offered) /\ DrainPass(r, Replies(conn.state, r.conn))
      BY <1>4, Zenon DEF DrainOk, Fed
    <2>2. Draining /\ r.res = "Ok"
      BY <2>1 DEF DrainPass
    <2>3. TableOk(r.conn, FedBy(fed, Offered, r)) /\ HasTable(r.conn)
      BY <2>1, <2>2, PubTableFed
    <2> QED
      BY <2>1, <2>2, <2>3, PubDrains, PubReplies, PassQuiet
  <1>5. CASE DrainWriteFails
    <2>1. PICK r : r = FeedConn(conn, Offered) /\ DrainPassWriteFails(r, Replies(conn.state, r.conn))
      BY <1>5, Zenon DEF DrainWriteFails, Fed
    <2>2. Draining
      BY <2>1 DEF DrainPassWriteFails
    <2> QED
      BY <2>1, <2>2, PubDrains, PubReplies, PassWriteFailsQuiet
  <1>6. CASE DrainErr
    <2>1. PICK r : DrainPassErr(r)
      BY <1>6, Zenon DEF DrainErr
    <2> QED
      BY <2>1, PassErrQuiet
  <1>7. ASSUME NEW h \in Topics, PublishMessage(h) PROVE TableInv'
    BY <1>7, MessageSays DEF PublishMessage
  <1> QED
    BY <1>1, <1>2, <1>3, <1>4, <1>5, <1>6, <1>7 DEF Next

\* The same for a RADIO driver.
LEMMA RadioTableStep ==
    ASSUME RetriesReads, DInv, TableInv, IsRadio, R!Next
    PROVE  TableInv' /\ (Quiet \/ \E h \in Groups : R!PublishMessage(h))
  <1>1. CASE R!PeerSend \/ R!ReadFails \/ \E n \in 1 .. R!Readable : R!Read(n)
    BY <1>1, SameSteps, TransportQuiet
  <1>2. CASE R!New
    BY <1>2, SameSteps, ConstructQuiet
  <1>3. CASE R!Poll
    BY <1>3, SameSteps, BeginPollQuiet
  <1>4. CASE R!DrainOk
    <2>1. PICK r : /\ r = R!Radio!FeedConn(conn, R!Offered)
                   /\ DrainPass(r, R!Replies(conn.state, r.conn))
      BY <1>4, SamePasses, Zenon DEF R!DrainOk, R!Fed
    <2>2. Draining /\ r.res = "Ok"
      BY <2>1 DEF DrainPass
    <2>3. FeedsTo(Units, conn, Offered, r, ReadyTypes) /\ conn.mechanism = "Null"
      BY <2>1, <2>2, RadioDrains
    <2>4. PICK v : v = fed \o SubSeq(rx, tc + 1, tc + r.n)
      OBVIOUS
    <2>5. Arrived(conn, Offered, r, v, out, ReadyTypes)
      BY <2>2, <2>3, <2>4, PassFacts
    <2>6. Replied(conn.state, r.conn, R!Replies(conn.state, r.conn))
      BY <2>3, <2>5, RadioReplies
    <2>7. TableOk(r.conn, FedBy(fed, Offered, r)) /\ HasTable(r.conn)
      BY <2>1, <2>2, RadioTableFed
    <2> QED
      BY <2>1, <2>3, <2>6, <2>7, PassQuiet
  <1>5. CASE R!DrainWriteFails
    <2>1. PICK r : /\ r = R!Radio!FeedConn(conn, R!Offered)
                   /\ DrainPassWriteFails(r, R!Replies(conn.state, r.conn))
      BY <1>5, SamePasses, Zenon DEF R!DrainWriteFails, R!Fed
    <2>2. Draining /\ r.res = "Ok"
      BY <2>1 DEF DrainPassWriteFails
    <2>3. FeedsTo(Units, conn, Offered, r, ReadyTypes) /\ conn.mechanism = "Null"
      BY <2>1, <2>2, RadioDrains
    <2>4. PICK v : v = fed \o SubSeq(rx, tc + 1, tc + r.n)
      OBVIOUS
    <2>5. Arrived(conn, Offered, r, v, out, ReadyTypes)
      BY <2>2, <2>3, <2>4, PassFacts
    <2>6. Replied(conn.state, r.conn, R!Replies(conn.state, r.conn))
      BY <2>3, <2>5, RadioReplies
    <2> QED
      BY <2>1, <2>3, <2>6, PassWriteFailsQuiet
  <1>6. CASE R!DrainErr
    <2>1. PICK r : DrainPassErr(r)
      BY <1>6, SamePasses, Zenon DEF R!DrainErr
    <2> QED
      BY <2>1, PassErrQuiet
  <1>7. ASSUME NEW h \in Groups, R!PublishMessage(h) PROVE TableInv'
    <2>1. WriteMessage(R!Radio!PublishHeaders(conn, h), h)
      BY <1>7, SameSteps, Zenon DEF R!PublishMessage
    <2> QED
      BY <2>1, MessageSays
  <1> QED
    BY <1>1, <1>2, <1>3, <1>4, <1>5, <1>6, <1>7 DEF R!Next

\* The invariant of the table holds throughout.
LEMMA TableInvariance ==
    ASSUME RetriesReads
    PROVE  EitherSpec => []TableInv
  <1>1. ASSUME DInv, TableInv, [EitherNext]_vars PROVE TableInv'
    <2>1. CASE UNCHANGED vars
      BY <1>1, <2>1 DEF vars, loopVars, TableInv, Live
    <2>2. CASE EitherNext
      BY <1>1, <2>2, PubTableStep, RadioTableStep DEF EitherNext
    <2> QED
      BY <1>1, <2>1, <2>2
  <1> QED
    BY <1>1, InitTableInv, Invariance, PTL DEF EitherSpec

\* A topic that a subscription in the table matches is wanted.
LEMMA MatchesWanted ==
    ASSUME DInv, TableInv, Live, ~IsRadio, NEW t, Matches(conn.sub_table, t)
    PROVE  Wanted(t)
  <1>1. SubsInv(conn.sub_table, Traffic, Args)
    BY DEF TableInv, TableOk, IsRadio, Traffic
  <1>2. Traffic \in Seq(FramesOf(Units))
    BY TrafficType DEF DInv, DriverTypes, Traffic
  <1>3. conn.sub_table \in Seq(Args)
    BY <1>1 DEF SubsInv
  <1>4. PICK k \in DOMAIN conn.sub_table : StartsWith(t, conn.sub_table[k])
    BY DEF Matches
  <1> DEFINE p == conn.sub_table[k]
  <1>5. Positions(conn.sub_table, p) # {}
    BY <1>4 DEF Positions
  <1>6. Copies(conn.sub_table, p) \in Nat /\ Copies(conn.sub_table, p) > 0
    BY <1>3, <1>5, CopiesFacts
  <1>7. StartsWith(t, p)
    BY <1>4
  <1> HIDE DEF p
  <1>8. PICK i \in DOMAIN Traffic :
            /\ Traffic[i].arg = p
            /\ Cardinality(SubsFrom(Traffic, i, p)) >=
                  Copies(conn.sub_table, p) + Cardinality(CancelsFrom(Traffic, i, p))
    BY <1>1, <1>5 DEF SubsInv
  <1>9. Cardinality(SubsFrom(Traffic, i, p)) \in Nat /\ Cardinality(CancelsFrom(Traffic, i, p)) \in Nat
    <2>1. i \in 1 .. Len(Traffic) /\ Traffic[i] \in FramesOf(Units)
      BY <1>2
    <2> QED
      BY <1>2, <2>1, FramesCounted DEF SubsFrom, CancelsFrom
  <1>10. Cardinality(SubsFrom(Traffic, i, p)) > Cardinality(CancelsFrom(Traffic, i, p))
    BY <1>6, <1>8, <1>9
  <1> QED
    BY <1>7, <1>8, <1>10, Zenon DEF Wanted, SubsFrom, CancelsFrom, Chosen

\* The traffic of RadioDriver is that of DriverLoop.
LEMMA SameTraffic ==
    /\ R!Traffic = Traffic
    /\ \A g : R!LastSaidJoin(g) <=> SaidJoin(Traffic, g)
  <1>1. R!Traffic = Traffic
    BY DEF R!Traffic, Traffic, R!TrafficIn, TrafficIn, R!FramesIn, FramesIn, R!GREETING_LEN, GREETING_LEN,
           R!FRAME_LEN, FRAME_LEN, R!HandshakeFrames, HandshakeFrames
  <1>2. \A g : R!LastSaidJoin(g) <=> SaidJoin(Traffic, g)
    BY <1>1 DEF R!LastSaidJoin, SaidJoin
  <1> QED
    BY <1>1, <1>2

\* A driver writes a message only to a peer that wants it by the frames that
\* were fed when it goes out: to a subscriber with a subscription that was not
\* cancelled, to a member of the group.
THEOREM PublishedWantedCorrect ==
    ASSUME RetriesReads
    PROVE  EitherSpec => PublishedWanted
  <1>1. ASSUME DInv, TableInv, [EitherNext]_vars
        PROVE  [IF IsRadio THEN R!WritesToMember ELSE WritesWanted]_vars
    <2> SUFFICES ASSUME EitherNext PROVE IF IsRadio THEN R!WritesToMember ELSE WritesWanted
      BY <1>1
    <2>1. ASSUME ~IsRadio, NEW t \in Topics, out' = Append(out, Item("MESSAGE", t)) PROVE Wanted(t)
      <3>1. PICK h \in Topics : PublishMessage(h)
        BY <1>1, <2>1, PubTableStep DEF EitherNext, Quiet
      <3> DEFINE r == PublishHeaders(conn, h)
      <3>2. Live /\ r.res = "Ok" /\ r.n = 1 /\ t = h
        BY <1>1, <2>1, <3>1, MessageSays DEF PublishMessage
      <3>3. Matches(conn.sub_table, t)
        BY <3>2 DEF PublishHeaders, Ok, Err
      <3> QED
        BY <1>1, <2>1, <3>2, <3>3, MatchesWanted
    <2>2. ASSUME IsRadio, NEW g \in Groups, out' = Append(out, Item("MESSAGE", g))
          PROVE  R!LastSaidJoin(g)
      <3>1. PICK h \in Groups : R!PublishMessage(h)
        BY <1>1, <2>2, RadioTableStep DEF EitherNext, Quiet
      <3> DEFINE r == R!Radio!PublishHeaders(conn, h)
      <3>2. WriteMessage(r, h)
        BY <3>1, SameSteps, Zenon DEF R!PublishMessage
      <3>3. Live /\ r.res = "Ok" /\ r.n = 1 /\ g = h
        BY <1>1, <2>2, <3>2, MessageSays
      <3>4. R!Radio!G!MatchesGroup(conn.group_table, g)
        BY <3>3 DEF R!Radio!PublishHeaders, R!Radio!H!Ok, R!Radio!H!Err
      <3>5. g \in InTable(conn.group_table)
        BY <3>4 DEF R!Radio!G!MatchesGroup, R!Radio!G!Stored, InTable
      <3>6. MembersInv(conn.group_table, Traffic)
        BY <1>1, <2>2, <3>3 DEF TableInv, TableOk, IsRadio, Traffic
      <3> QED
        BY <3>5, <3>6, SameTraffic DEF MembersInv
    <2>3. R!WritesToMember <=> \A g \in Groups : out' = Append(out, Item("MESSAGE", g)) => R!LastSaidJoin(g)
      BY DEF R!WritesToMember, R!Item, Item
    <2> QED
      BY <2>1, <2>2, <2>3 DEF WritesWanted
  <1> QED
    BY <1>1, Invariance, TableInvariance, PTL DEF EitherSpec, PublishedWanted
=============================================================================
