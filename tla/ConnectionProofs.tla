-------------------------- MODULE ConnectionProofs --------------------------
(***************************************************************************)
(* A connection of either kind is correct in the hands of any caller, for  *)
(* every capacity and whatever the peer sends: the inductive invariant     *)
(* IInv, and what follows from it.                                         *)
(***************************************************************************)
EXTENDS Connections, HandshakeProofs
-----------------------------------------------------------------------------
(* The table that frames make of an empty one *)

After(frames) ==
    LET after[n \in Nat] ==
            IF n = 0 THEN <<>>
            ELSE CASE frames[n].kind \in {"SUBSCRIBE", "MSG_SUB"} ->
                        Subscribe(after[n - 1], frames[n].arg)
                   [] frames[n].kind \in {"CANCEL", "MSG_CANCEL"} ->
                        Cancel(after[n - 1], frames[n].arg)
                   [] OTHER -> after[n - 1]
    IN  after

\* A table of prefixes stays one when a frame is applied.
LEMMA TableWithType ==
    ASSUME NEW A, NEW table \in Seq(A), NEW f, f.arg \in A
    PROVE  TableWith(table, f) \in Seq(A)
  <1>1. Subscribe(table, f.arg) \in Seq(A)
    BY DEF Subscribe
  <1>2. Cancel(table, f.arg) \in Seq(A)
    <2>1. CASE Positions(table, f.arg) = {}
      BY <2>1 DEF Cancel
    <2>2. CASE Positions(table, f.arg) # {}
      <3> DEFINE i == FirstPosition(table, f.arg)
      <3>1. Cancel(table, f.arg) =
               [j \in 1 .. Len(table) - 1 |-> IF j = i THEN table[Len(table)] ELSE table[j]]
        BY <2>2 DEF Cancel, SwapRemove
      <3>2. Len(table) \in Nat /\ Len(table) >= 1
        BY <2>2 DEF Positions
      <3> HIDE DEF i
      <3>3. Len(table) - 1 \in Nat
        BY <3>2
      <3>4. \A j \in 1 .. Len(table) - 1 : (IF j = i THEN table[Len(table)] ELSE table[j]) \in A
        BY <3>2
      <3> QED
        BY <3>1, <3>3, <3>4
    <2> QED
      BY <2>1, <2>2
  <1> QED
    BY <1>1, <1>2 DEF TableWith

\* TableAfter's function has the values that its equation gives it.
LEMMA AfterFacts ==
    ASSUME NEW frames
    PROVE  /\ After(frames)[0] = <<>>
           /\ \A n \in Nat : After(frames)[n + 1] = TableWith(After(frames)[n], frames[n + 1])
  <1> DEFINE A == {frames[n].arg : n \in Nat}
             Q == Seq(A)
             none == <<>>
             Step(x, n) == TableWith(x, frames[n])
             F == [p \in Q \X Nat |-> Step(p[1], p[2])]
             IsAfter(g) == g = [n \in Nat |-> IF n = 0 THEN none ELSE Step(g[n - 1], n)]
             u == After(frames)
             Body(x, f) == CASE f.kind \in {"SUBSCRIBE", "MSG_SUB"} -> Subscribe(x, f.arg)
                             [] f.kind \in {"CANCEL", "MSG_CANCEL"} -> Cancel(x, f.arg)
                             [] OTHER -> x
             IsBody(g) == g = [n \in Nat |-> IF n = 0 THEN <<>> ELSE Body(g[n - 1], frames[n])]
  <1>1. u = CHOOSE g : IsAfter(g)
    <2>1. \A x, f : Body(x, f) = TableWith(x, f)
      BY DEF TableWith
    <2>2. u = CHOOSE g : g = [n \in Nat |-> IF n = 0 THEN <<>> ELSE Body(g[n - 1], frames[n])]
      BY DEF After
    <2> HIDE DEF Body
    <2>3. \A g : [n \in Nat |-> IF n = 0 THEN <<>> ELSE Body(g[n - 1], frames[n])]
                    = [n \in Nat |-> IF n = 0 THEN <<>> ELSE TableWith(g[n - 1], frames[n])]
      BY <2>1
    <2>4. \A g : IsAfter(g) <=> g = [n \in Nat |-> IF n = 0 THEN <<>> ELSE Body(g[n - 1], frames[n])]
      BY <2>3
    <2>5. \A g : IsAfter(g) <=> IsBody(g)
      BY <2>4 DEF IsBody
    <2>6. u = CHOOSE g : IsBody(g)
      BY <2>2, Zenon DEF IsBody
    <2> HIDE DEF IsAfter, IsBody, u
    <2> QED
      BY <2>5, <2>6, Zenon
  <1>2. IsStep(F, Q)
    <2>1. ASSUME NEW x \in Q, NEW n \in Nat PROVE Step(x, n) \in Q
      BY TableWithType
    <2> HIDE DEF Q, Step
    <2> QED
      BY <2>1 DEF IsStep
  <1>3. none \in Q
    OBVIOUS
  <1> HIDE DEF Q, none, Step, u
  <1>4. PICK f \in [Nat -> Q] : f[0] = none /\ \A n \in Nat : f[n + 1] = Step(f[n], n + 1)
    <2>1. PICK f : IsRecursive(f, Q, none, F)
      <3> HIDE DEF F
      <3> QED
        BY <1>2, <1>3, RecursionExists
    <2>2. ASSUME NEW n \in Nat PROVE f[n + 1] = Step(f[n], n + 1)
      <3>1. <<f[n], n + 1>> \in Q \X Nat
        BY <2>1 DEF IsRecursive
      <3>2. F[<<f[n], n + 1>>] = Step(f[n], n + 1)
        BY <3>1
      <3> QED
        BY <2>1, <3>2 DEF IsRecursive
    <2> QED
      BY <2>1, <2>2 DEF IsRecursive
  <1>5. IsAfter(f)
    <2>1. ASSUME NEW n \in Nat, n # 0 PROVE f[n] = Step(f[n - 1], n)
      <3>1. n - 1 \in Nat /\ (n - 1) + 1 = n
        BY <2>1
      <3> QED
        BY <1>4, <3>1
    <2> QED
      BY <1>4, <2>1
  <1>6. IsAfter(u)
    <2> HIDE DEF IsAfter
    <2> QED
      BY <1>1, <1>5
  <1>7. ASSUME NEW n \in Nat PROVE u[n + 1] = Step(u[n], n + 1)
    <2>1. n + 1 \in Nat /\ n + 1 # 0 /\ (n + 1) - 1 = n
      OBVIOUS
    <2> QED
      BY <1>6, <2>1
  <1>8. u[0] = none
    BY <1>6
  <1> QED
    BY <1>7, <1>8 DEF Step, u, none

\* No frame leaves the table empty.
LEMMA TableAfterNone == TableAfter(<<>>) = <<>>
  <1>1. TableAfter(<<>>) = After(<<>>)[0]
    BY DEF TableAfter, After
  <1> QED
    BY <1>1, AfterFacts

\* One more frame is applied to the table that the others left.
LEMMA TableAfterAppend ==
    ASSUME NEW T, NEW fs \in Seq(T), NEW f \in T
    PROVE  TableAfter(Append(fs, f)) = TableWith(TableAfter(fs), f)
  <1> DEFINE gs == Append(fs, f)
             m == Len(fs)
             u == After(fs)
             v == After(gs)
             N == {n \in Nat : n <= m => v[n] = u[n]}
  <1>1. Len(gs) = m + 1 /\ gs[m + 1] = f /\ m \in Nat /\ \A i \in 1 .. m : gs[i] = fs[i]
    OBVIOUS
  <1>2. TableAfter(fs) = u[m] /\ TableAfter(gs) = v[m + 1]
    <2>1. TableAfter(fs) = u[Len(fs)] /\ TableAfter(gs) = v[Len(gs)]
      <3> HIDE DEF gs
      <3> QED
        BY DEF TableAfter, After
    <2> HIDE DEF gs, u, v
    <2> QED
      BY <1>1, <2>1
  <1>3. /\ u[0] = <<>> /\ \A n \in Nat : u[n + 1] = TableWith(u[n], fs[n + 1])
        /\ v[0] = <<>> /\ \A n \in Nat : v[n + 1] = TableWith(v[n], gs[n + 1])
    BY AfterFacts, Zenon
  <1> HIDE DEF gs, u, v, m
  <1>4. 0 \in N
    BY <1>3
  <1>5. ASSUME NEW n \in N PROVE n + 1 \in N
    <2>1. CASE n + 1 <= m
      <3>1. n + 1 \in 1 .. m /\ v[n] = u[n] /\ n \in Nat
        BY <1>1, <2>1
      <3>2. gs[n + 1] = fs[n + 1]
        BY <1>1, <3>1
      <3>3. v[n + 1] = u[n + 1]
        BY <1>3, <3>1, <3>2, Zenon
      <3> QED
        BY <3>1, <3>3
    <2>2. CASE ~(n + 1 <= m)
      BY <2>2
    <2> QED
      BY <2>1, <2>2
  <1>6. N = Nat
    <2>1. N \subseteq Nat
      OBVIOUS
    <2> HIDE DEF N
    <2> QED
      BY <1>4, <1>5, <2>1, InductiveSet
  <1>7. v[m] = u[m]
    BY <1>1, <1>6
  <1>8. v[m + 1] = TableWith(u[m], f)
    BY <1>1, <1>3, <1>7, Zenon
  <1> QED
    BY <1>2, <1>8 DEF gs
-----------------------------------------------------------------------------
(* The inductive invariant *)

\* What may be written, by kind and argument.
Items == [what : {"GREETING", "READY", "WELCOME", "ERROR", "PONG", "MESSAGE"},
          arg  : Topics \cup Groups \cup Seq(ContextsOf(Units))]

\* What frames are about: prefixes, groups, socket types, credentials.
Args == {f.arg : f \in FramesOf(Units)}

\* The socket types that are let in.
ReadyTypes == IF IsRadio THEN DishTypes ELSE PubTypes

\* Each variable has its type, res aside, which nothing reads.
TypeInv ==
    /\ IsConn(conn, Units)
    /\ wire \in Seq(Units) /\ fed \in Seq(Units) /\ sent \in Seq(Items)
    /\ pos \in 0 .. Len(wire)
    /\ rejected \in BOOLEAN

\* The table is what the frames after the handshake account for.
TableInv ==
    IF IsRadio
    THEN DOMAIN conn = ConnFields \cup {"group_table"} /\ GroupsInv(conn.group_table, Traffic, Args)
    ELSE DOMAIN conn = ConnFields \cup {"sub_table"} /\ conn.sub_table = TableAfter(Traffic)

\* None of the parts is inductive alone: what a call does depends on the state,
\* on the flags and on what the decoder holds, and each is tied to what was fed
\* or sent by another part.
IInv ==
    /\ TypeInv
    /\ FedInv(conn, fed, rejected, ReadyTypes)
    /\ SentInv(conn, sent)
    /\ PongInv(conn, fed, sent)
    /\ TableInv

\* The inductive invariant holds initially.
LEMMA InitIInv == EitherInit => IInv
  <1> SUFFICES ASSUME EitherInit PROVE IInv
    OBVIOUS
  <1>1. ASSUME NEW s, s \in Streams \cup RadioStreams, wire = s.units, pos = 0, fed = <<>>,
               sent = <<>>, rejected = FALSE, Fresh(conn)
        PROVE  /\ TypeInv
               /\ FedInv(conn, fed, rejected, ReadyTypes)
               /\ SentInv(conn, sent)
               /\ PongInv(conn, fed, sent)
               /\ Traffic = <<>>
    <2>1. wire \in Seq(Units)
      BY <1>1, StreamsAssumption
    <2>2. <<>> \in Seq(Units) /\ <<>> \in Seq(Items)
      OBVIOUS
    <2>3. 0 \in 0 .. Len(wire)
      BY <2>1
    <2>4. /\ IsConn(conn, Units) /\ FedInv(conn, <<>>, FALSE, ReadyTypes)
          /\ SentInv(conn, <<>>) /\ PongInv(conn, <<>>, <<>>)
          /\ TrafficIn(conn.mechanism, <<>>) = <<>>
      BY <1>1, FreshInv
    <2> QED
      BY <1>1, <2>1, <2>2, <2>3, <2>4 DEF TypeInv, Traffic
  <1>2. CASE Init
    <2>1. PICK s \in Streams : InitWith(NewConnection(s.mechanism), s.units)
      BY <1>2 DEF Init
    <2>2. s.mechanism \in Mechanisms
      BY StreamsAssumption DEF Mechanisms
    <2>3. Fresh(conn) /\ DOMAIN conn = ConnFields \cup {"sub_table"} /\ conn.sub_table = <<>>
      BY <2>1, <2>2 DEF InitWith, NewConnection, Fresh, ConnFields
    <2>4. ~IsRadio
      BY <2>3 DEF IsRadio, ConnFields
    <2> QED
      BY <1>1, <2>1, <2>3, <2>4, TableAfterNone DEF InitWith, IInv, TableInv
  <1>3. CASE R!Init
    <2>1. PICK s \in RadioStreams : R!InitWith(R!Radio!NewRadioConnection(s.mechanism), s.units)
      BY <1>3 DEF R!Init
    <2>2. s.mechanism \in Mechanisms
      BY StreamsAssumption DEF Mechanisms
    <2>3. Fresh(conn) /\ DOMAIN conn = ConnFields \cup {"group_table"} /\ conn.group_table = <<>>
      BY <2>1, <2>2 DEF R!InitWith, R!Radio!NewRadioConnection, R!Radio!H!NewDecoder, NewDecoder, Fresh, ConnFields
    <2>4. IsRadio
      BY <2>3 DEF IsRadio
    <2> QED
      BY <1>1, <2>1, <2>3, <2>4, GroupsNone DEF R!InitWith, IInv, TableInv
  <1> QED
    BY <1>2, <1>3 DEF EitherInit
-----------------------------------------------------------------------------
(* The output methods *)

\* The table and the traffic are not touched.
KeepsTable(c, d) ==
    /\ DOMAIN d = DOMAIN c /\ d.mechanism = c.mechanism
    /\ "sub_table" \in DOMAIN c => d.sub_table = c.sub_table
    /\ "group_table" \in DOMAIN c => d.group_table = c.group_table

\* A write method that keeps the parts of the invariant and the table keeps
\* the whole.
LEMMA OutputStep ==
    ASSUME IInv, NEW r, NEW what, NEW arg, Output(r, what, arg),
           IsConn(r.conn, Units), FedInv(r.conn, fed, rejected, ReadyTypes),
           SentInv(r.conn, SentWith(sent, r, what, arg)), SentWith(sent, r, what, arg) \in Seq(Items),
           PongInv(r.conn, fed, SentWith(sent, r, what, arg)),
           KeepsTable(conn, r.conn)
    PROVE  IInv'
  <1>1. /\ conn' = r.conn /\ sent' = SentWith(sent, r, what, arg)
        /\ wire' = wire /\ pos' = pos /\ fed' = fed /\ rejected' = rejected
    BY DEF Output, SentWith
  <1>2. IsRadio' = IsRadio /\ ReadyTypes' = ReadyTypes /\ Traffic' = Traffic
    BY <1>1 DEF IsRadio, ReadyTypes, Traffic, KeepsTable
  <1>3. TypeInv'
    BY <1>1 DEF IInv, TypeInv
  <1>4. TableInv'
    <2>1. CASE IsRadio
      BY <1>1, <1>2, <2>1 DEF IInv, TableInv, KeepsTable, ConnFields
    <2>2. CASE ~IsRadio
      BY <1>1, <1>2, <2>2 DEF IInv, TableInv, KeepsTable, ConnFields
    <2> QED
      BY <2>1, <2>2
  <1> QED
    BY <1>1, <1>2, <1>3, <1>4 DEF IInv

\* What is written is an item.
LEMMA ItemTypes ==
    ASSUME NEW what \in {"GREETING", "READY", "WELCOME", "ERROR", "PONG", "MESSAGE"},
           NEW arg \in Topics \cup Groups \cup Seq(ContextsOf(Units))
    PROVE  [what |-> what, arg |-> arg] \in Items
    BY DEF Items

\* Most items have no argument.
LEMMA NoArg == <<>> \in Topics \cup Groups \cup Seq(ContextsOf(Units))
    OBVIOUS

\* The inductive invariant is kept by write_greeting.
LEMMA GreetingStep ==
    ASSUME IInv, NEW fits \in BOOLEAN, Output(WriteGreeting(conn, fits), "GREETING", <<>>)
    PROVE  IInv'
  <1> DEFINE r == WriteGreeting(conn, fits)
  <1>1. [what |-> "GREETING", arg |-> <<>>] \in Items
    BY ItemTypes, NoArg
  <1>2. /\ IsConn(conn, Units) /\ FedInv(conn, fed, rejected, ReadyTypes) /\ SentInv(conn, sent)
        /\ PongInv(conn, fed, sent) /\ sent \in Seq(Items)
    BY DEF IInv, TypeInv
  <1>3. IsConn(r.conn, Units) /\ FedInv(r.conn, fed, rejected, ReadyTypes)
    BY <1>2, WriteGreetingInv
  <1>4. /\ SentInv(r.conn, SentWith(sent, r, "GREETING", <<>>))
        /\ SentWith(sent, r, "GREETING", <<>>) \in Seq(Items)
        /\ SamePongs(conn, r.conn)
    BY <1>1, <1>2, WriteGreetingSentInv
  <1>5. KeepsTable(conn, r.conn)
    BY <1>2 DEF KeepsTable, WriteGreeting, Ok, Err, IsConn, ConnFields
  <1> HIDE DEF r
  <1>6. PongInv(r.conn, fed, SentWith(sent, r, "GREETING", <<>>))
    BY <1>1, <1>2, <1>4, OtherItemPongInv
  <1>7. Output(r, "GREETING", <<>>)
    BY DEF r
  <1> QED
    BY <1>3, <1>4, <1>5, <1>6, <1>7, OutputStep

\* The inductive invariant is kept by write_ready.
LEMMA ReadyStep ==
    ASSUME IInv, NEW fits \in BOOLEAN, Output(WriteReady(conn, fits), "READY", <<>>)
    PROVE  IInv'
  <1> DEFINE r == WriteReady(conn, fits)
  <1>1. [what |-> "READY", arg |-> <<>>] \in Items
    BY ItemTypes, NoArg
  <1>2. /\ IsConn(conn, Units) /\ FedInv(conn, fed, rejected, ReadyTypes) /\ SentInv(conn, sent)
        /\ PongInv(conn, fed, sent) /\ sent \in Seq(Items)
    BY DEF IInv, TypeInv
  <1>3. IsConn(r.conn, Units) /\ FedInv(r.conn, fed, rejected, ReadyTypes)
    BY <1>2, WriteReadyInv
  <1>4. /\ SentInv(r.conn, SentWith(sent, r, "READY", <<>>))
        /\ SentWith(sent, r, "READY", <<>>) \in Seq(Items)
        /\ SamePongs(conn, r.conn)
    BY <1>1, <1>2, WriteReadySentInv
  <1>5. KeepsTable(conn, r.conn)
    BY <1>2 DEF KeepsTable, WriteReady, Ok, Err, IsConn, ConnFields
  <1> HIDE DEF r
  <1>6. PongInv(r.conn, fed, SentWith(sent, r, "READY", <<>>))
    BY <1>1, <1>2, <1>4, OtherItemPongInv
  <1>7. Output(r, "READY", <<>>)
    BY DEF r
  <1> QED
    BY <1>3, <1>4, <1>5, <1>6, <1>7, OutputStep

\* The inductive invariant is kept by write_welcome.
LEMMA WelcomeStep ==
    ASSUME IInv, NEW fits \in BOOLEAN, Output(WriteWelcome(conn, fits), "WELCOME", <<>>)
    PROVE  IInv'
  <1> DEFINE r == WriteWelcome(conn, fits)
  <1>1. [what |-> "WELCOME", arg |-> <<>>] \in Items
    BY ItemTypes, NoArg
  <1>2. /\ IsConn(conn, Units) /\ FedInv(conn, fed, rejected, ReadyTypes) /\ SentInv(conn, sent)
        /\ PongInv(conn, fed, sent) /\ sent \in Seq(Items)
    BY DEF IInv, TypeInv
  <1>3. IsConn(r.conn, Units) /\ FedInv(r.conn, fed, rejected, ReadyTypes)
    BY <1>2, WriteWelcomeInv
  <1>4. /\ SentInv(r.conn, SentWith(sent, r, "WELCOME", <<>>))
        /\ SentWith(sent, r, "WELCOME", <<>>) \in Seq(Items)
        /\ SamePongs(conn, r.conn)
    BY <1>1, <1>2, WriteWelcomeSentInv
  <1>5. KeepsTable(conn, r.conn)
    BY <1>2 DEF KeepsTable, WriteWelcome, Ok, Err, IsConn, ConnFields
  <1> HIDE DEF r
  <1>6. PongInv(r.conn, fed, SentWith(sent, r, "WELCOME", <<>>))
    BY <1>1, <1>2, <1>4, OtherItemPongInv
  <1>7. Output(r, "WELCOME", <<>>)
    BY DEF r
  <1> QED
    BY <1>3, <1>4, <1>5, <1>6, <1>7, OutputStep

\* write_error and publish change nothing but what has been said.
LEMMA SayStep ==
    ASSUME IInv, NEW r, r.conn = conn, NEW what, what \in {"ERROR", "MESSAGE"},
           r.res = "Ok" /\ r.n = 1 => what = "ERROR" \/ conn.state = "Established",
           NEW arg \in Topics \cup Groups \cup Seq(ContextsOf(Units)), Output(r, what, arg)
    PROVE  IInv'
  <1>1. [what |-> what, arg |-> arg] \in Items
    BY ItemTypes
  <1>2. /\ IsConn(conn, Units) /\ FedInv(conn, fed, rejected, ReadyTypes) /\ SentInv(conn, sent)
        /\ PongInv(conn, fed, sent) /\ sent \in Seq(Items)
    BY DEF IInv, TypeInv
  <1>3. /\ SentInv(r.conn, SentWith(sent, r, what, arg))
        /\ SentWith(sent, r, what, arg) \in Seq(Items)
    <2>1. KeepsFlags(conn, r.conn) /\ r.conn.state = conn.state
      BY DEF KeepsFlags
    <2>2. what \in {"ERROR", "PONG", "MESSAGE"}
      OBVIOUS
    <2> QED
      BY <1>1, <1>2, <2>1, <2>2, OtherSentInv
  <1>4. SamePongs(conn, r.conn) /\ KeepsTable(conn, r.conn)
    BY DEF SamePongs, KeepsTable
  <1>5. PongInv(r.conn, fed, SentWith(sent, r, what, arg))
    BY <1>1, <1>2, <1>4, OtherItemPongInv
  <1> QED
    BY <1>2, <1>3, <1>4, <1>5, OutputStep

\* The inductive invariant is kept by write_pong.
LEMMA PongStep ==
    ASSUME IInv, NEW fits \in BOOLEAN, Output(WritePong(conn, fits), "PONG", conn.pending_pong)
    PROVE  IInv'
  <1> DEFINE r == WritePong(conn, fits)
             q == conn.pending_pong
  <1>2. /\ IsConn(conn, Units) /\ FedInv(conn, fed, rejected, ReadyTypes) /\ SentInv(conn, sent)
        /\ PongInv(conn, fed, sent) /\ sent \in Seq(Items)
    BY DEF IInv, TypeInv
  <1>1. [what |-> "PONG", arg |-> q] \in Items
    <2>1. q \in Topics \cup Groups \cup Seq(ContextsOf(Units))
      BY <1>2 DEF IsConn
    <2> QED
      BY <2>1, ItemTypes
  <1>3. IsConn(r.conn, Units) /\ FedInv(r.conn, fed, rejected, ReadyTypes)
    BY <1>2, WritePongInv
  <1>4. PongInv(r.conn, fed, SentWith(sent, r, "PONG", q))
    BY <1>1, <1>2, WritePongPongInv
  <1>5. KeepsTable(conn, r.conn)
    BY <1>2 DEF KeepsTable, WritePong, Ok, Err, IsConn, ConnFields
  <1>6. KeepsFlags(conn, r.conn) /\ r.conn.state = conn.state
    BY <1>2 DEF KeepsFlags, WritePong, Ok, Err, IsConn, ConnFields
  <1>7. r.res = "Ok" /\ r.n = 1 => conn.state = "Established"
    BY <1>2 DEF WritePong, Ok, Err, FedInv, Received
  <1>8. Output(r, "PONG", q)
    OBVIOUS
  <1> HIDE DEF r, q
  <1>9. /\ SentInv(r.conn, SentWith(sent, r, "PONG", q))
        /\ SentWith(sent, r, "PONG", q) \in Seq(Items)
    <2>1. "PONG" \in {"ERROR", "PONG", "MESSAGE"}
      OBVIOUS
    <2> QED
      BY <1>1, <1>2, <1>6, <1>7, <2>1, OtherSentInv
  <1> QED
    BY <1>3, <1>4, <1>5, <1>8, <1>9, OutputStep
-----------------------------------------------------------------------------
(* feed *)

\* A piece of a sequence.
LEMMA PieceFacts ==
    ASSUME NEW U, NEW s \in Seq(U), NEW a \in Nat, NEW b \in Nat, a + b <= Len(s)
    PROVE  SubSeq(s, a + 1, a + b) \in Seq(U) /\ Len(SubSeq(s, a + 1, a + b)) = b
  <1>1. SubSeq(s, a + 1, a + b) \in Seq(U)
    OBVIOUS
  <1>2. (a + b) - (a + 1) + 1 = b /\ a + 1 <= (a + b) + 1
    OBVIOUS
  <1>3. Len(SubSeq(s, a + 1, a + b)) = b
    <2>1. CASE b = 0
      <3>1. a + b < a + 1
        BY <2>1
      <3>2. SubSeq(s, a + 1, a + b) = <<>>
        BY <3>1
      <3> QED
        BY <2>1, <3>2
    <2>2. CASE b # 0
      <3>1. a + 1 <= a + b
        BY <2>2
      <3>2. Len(SubSeq(s, a + 1, a + b)) = (a + b) - (a + 1) + 1
        BY <3>1
      <3> QED
        BY <1>2, <3>2
    <2> QED
      BY <2>1, <2>2
  <1> QED
    BY <1>1, <1>3

\* The part of the invariant that does not depend on the table.
LEMMA FeedStepCommon ==
    ASSUME IInv, NEW n, NEW r, Feeds(n, r), FeedsTo(Units, conn, Input(n), r, ReadyTypes),
           DOMAIN r.conn = DOMAIN conn
    PROVE  /\ Input(n) \in Seq(Units)
           /\ conn' = r.conn /\ fed' = FedBy(fed, Input(n), r)
           /\ IsRadio' = IsRadio /\ ReadyTypes' = ReadyTypes
           /\ TypeInv'
           /\ FedInv(conn, fed, rejected, ReadyTypes)'
           /\ SentInv(conn, sent)'
           /\ PongInv(conn, fed, sent)'
  <1> DEFINE x == Input(n)
  <1>1. /\ IsConn(conn, Units) /\ FedInv(conn, fed, rejected, ReadyTypes) /\ SentInv(conn, sent)
        /\ PongInv(conn, fed, sent) /\ sent \in Seq(Items)
        /\ wire \in Seq(Units) /\ fed \in Seq(Units) /\ pos \in 0 .. Len(wire) /\ rejected \in BOOLEAN
    BY DEF IInv, TypeInv
  <1>2. n \in 0 .. Len(wire) - pos /\ pos \in Nat /\ n \in Nat /\ Len(wire) \in Nat
    BY <1>1 DEF Feeds
  <1>3. x \in Seq(Units) /\ Len(x) = n
    <2>1. pos + n <= Len(wire)
      BY <1>1, <1>2
    <2> QED
      BY <1>1, <1>2, <2>1, PieceFacts DEF Input
  <1>4. /\ conn' = r.conn
        /\ fed' = FedBy(fed, x, r)
        /\ rejected' = RejectedBy(conn, rejected, r)
        /\ wire' = wire /\ sent' = sent
    BY DEF Feeds, FedBy, RejectedBy
  <1> HIDE DEF x
  <1>5. /\ IsConn(r.conn, Units) /\ FedBy(fed, x, r) \in Seq(Units)
        /\ FedInv(r.conn, FedBy(fed, x, r), RejectedBy(conn, rejected, r), ReadyTypes)
    BY <1>1, <1>3, FeedInv DEF x
  <1>6. SentInv(r.conn, sent)
    BY <1>1, <1>3, FeedSentInv DEF x
  <1>7. PongInv(r.conn, FedBy(fed, x, r), sent)
    BY <1>1, <1>3, FeedPongInv DEF x
  <1>8. IsRadio' = IsRadio /\ ReadyTypes' = ReadyTypes
    BY <1>4 DEF IsRadio, ReadyTypes
  <1>9. pos' \in 0 .. Len(wire')
    <2>1. r.res = "Ok" => r.n \in 0 .. n
      BY <1>1, <1>3, FeedCount DEF x
    <2>2. \/ r.res = "Ok" /\ pos' = pos + r.n
          \/ pos' = pos
          \/ pos' = pos + n
      BY DEF Feeds
    <2> QED
      BY <1>1, <1>2, <1>4, <2>1, <2>2
  <1>10. rejected' \in BOOLEAN
    BY <1>4 DEF RejectedBy
  <1>11. TypeInv'
    BY <1>1, <1>4, <1>5, <1>9, <1>10 DEF TypeInv
  <1> QED
    BY <1>3, <1>4, <1>5, <1>6, <1>7, <1>8, <1>11 DEF x

\* What feed does to the traffic.
LEMMA FeedStepTraffic ==
    ASSUME IInv, NEW n, NEW r, Feeds(n, r), FeedsTo(Units, conn, Input(n), r, ReadyTypes),
           DOMAIN r.conn = DOMAIN conn
    PROVE  \/ ~FrameTaken(conn, Input(n)) /\ Traffic' = Traffic
           \/ /\ FrameTaken(conn, Input(n))
              /\ Traffic \in Seq(FramesOf(Units))
              /\ TakeFrame(conn, Input(n)).frame \in FramesOf(Units)
              /\ Traffic' = Append(Traffic, TakeFrame(conn, Input(n)).frame)
  <1>1. /\ Input(n) \in Seq(Units) /\ conn' = r.conn /\ fed' = FedBy(fed, Input(n), r)
    BY FeedStepCommon
  <1>2. /\ IsConn(conn, Units) /\ fed \in Seq(Units) /\ rejected \in BOOLEAN
        /\ FedInv(conn, fed, rejected, ReadyTypes)
    BY DEF IInv, TypeInv
  <1>3. Traffic = TrafficIn(conn.mechanism, fed)
        /\ Traffic' = TrafficIn(conn.mechanism, FedBy(fed, Input(n), r))
    <2>1. r.conn.mechanism = conn.mechanism
      BY <1>1, <1>2, FeedKeepsFlags DEF KeepsFlags
    <2> QED
      BY <1>1, <2>1 DEF Traffic
  <1> QED
    BY <1>1, <1>2, <1>3, FeedTraffic

\* The inductive invariant is kept by feed of a PUB connection, whatever
\* piece of the stream it is given.
LEMMA PubFeedStep ==
    ASSUME IInv, ~IsRadio, NEW n, DoFeed(n)
    PROVE  IInv'
  <1> DEFINE r == FeedConn(conn, Input(n))
             f == TakeFrame(conn, Input(n)).frame
  <1>0. Feeds(n, r)
    BY DEF DoFeed
  <1>1. IsPub(conn, Units) /\ ReadyTypes = PubTypes /\ conn.sub_table = TableAfter(Traffic)
    BY DEF IInv, TypeInv, TableInv, IsPub, ReadyTypes
  <1>2. Input(n) \in Seq(Units)
    <2>1. wire \in Seq(Units) /\ pos \in Nat /\ n \in Nat /\ pos + n <= Len(wire)
      BY <1>0 DEF Feeds, IInv, TypeInv
    <2> QED
      BY <2>1 DEF Input
  <1>3. FeedsTo(Units, conn, Input(n), r, ReadyTypes) /\ TableFed(conn, Input(n), r)
    BY <1>1, <1>2, PubFeeds
  <1>4. DOMAIN r.conn = DOMAIN conn
    BY <1>3 DEF TableFed
  <1> HIDE DEF r
  <1>5. /\ conn' = r.conn /\ IsRadio' = IsRadio /\ TypeInv'
        /\ FedInv(conn, fed, rejected, ReadyTypes)' /\ SentInv(conn, sent)' /\ PongInv(conn, fed, sent)'
    BY <1>0, <1>3, <1>4, FeedStepCommon
  <1>6. conn'.sub_table = TableAfter(Traffic')
    <2>1. CASE ~FrameTaken(conn, Input(n)) /\ Traffic' = Traffic
      BY <1>1, <1>3, <1>5, <2>1 DEF TableFed
    <2>2. CASE /\ FrameTaken(conn, Input(n))
               /\ Traffic \in Seq(FramesOf(Units)) /\ f \in FramesOf(Units)
               /\ Traffic' = Append(Traffic, f)
      <3>1. conn'.sub_table = TableWith(TableAfter(Traffic), f)
        BY <1>1, <1>3, <1>5, <2>2 DEF TableFed
      <3> HIDE DEF f
      <3>2. TableAfter(Append(Traffic, f)) = TableWith(TableAfter(Traffic), f)
        BY <2>2, TableAfterAppend
      <3> QED
        BY <2>2, <3>1, <3>2
    <2> QED
      BY <1>0, <1>3, <1>4, <2>1, <2>2, FeedStepTraffic
  <1>7. TableInv'
    BY <1>1, <1>4, <1>5, <1>6 DEF TableInv, IsPub
  <1> QED
    BY <1>5, <1>7 DEF IInv

\* The RADIO connection of RadioConnectionSpec is that of Sockets.
LEMMA SameRadio ==
    /\ \A c, x : R!Radio!FeedConn(c, x) = Radio!FeedConn(c, x)
    /\ \A c, g : R!Radio!PublishHeaders(c, g) = Radio!PublishHeaders(c, g)
  <1>1. \A c, n : R!Radio!H!Ok(c, n) = Radio!H!Ok(c, n)
    BY Zenon DEF R!Radio!H!Ok, Radio!H!Ok
  <1>2. \A c, e : R!Radio!H!Err(c, e) = Radio!H!Err(c, e)
    BY Zenon DEF R!Radio!H!Err, Radio!H!Err
  <1>3. \A f : R!Radio!H!PingContext(f) = Radio!H!PingContext(f)
    BY Zenon DEF R!Radio!H!PingContext, Radio!H!PingContext, R!Radio!H!SmallerOf, Radio!H!SmallerOf
  <1>4. \A c, x : R!Radio!H!TakeFrame(c, x) = Radio!H!TakeFrame(c, x)
    <2>1. \A v : R!Radio!H!Refused(v) <=> Radio!H!Refused(v)
      BY DEF R!Radio!H!Refused, Radio!H!Refused, R!Radio!H!FRAME_LEN, Radio!H!FRAME_LEN
    <2>2. \A d, x : R!Radio!H!DecoderFeed(d, x) = Radio!H!DecoderFeed(d, x)
      BY <2>1 DEF R!Radio!H!DecoderFeed, Radio!H!DecoderFeed, R!Radio!H!NewDecoder, Radio!H!NewDecoder,
                  R!Radio!H!FRAME_LEN, Radio!H!FRAME_LEN
    <2>3. \A d, x : R!Radio!H!DecodedFrame(d, x) = Radio!H!DecodedFrame(d, x)
      BY DEF R!Radio!H!DecodedFrame, Radio!H!DecodedFrame
    <2> QED
      BY <1>1, <1>2, <2>2, <2>3 DEF R!Radio!H!TakeFrame, Radio!H!TakeFrame
  <1>5. \A c, x : R!Radio!H!FeedGreeting(c, x) = Radio!H!FeedGreeting(c, x)
    <2>1. \A v : R!Radio!H!ParsePartialGreeting(v) <=> Radio!H!ParsePartialGreeting(v)
      BY DEF R!Radio!H!ParsePartialGreeting, Radio!H!ParsePartialGreeting, R!Radio!H!IsGreetingUnit,
             Radio!H!IsGreetingUnit, R!Radio!H!GREETING_PARTIAL_LEN, Radio!H!GREETING_PARTIAL_LEN
    <2>2. \A m, v : R!Radio!H!ParseGreeting(m, v) <=> Radio!H!ParseGreeting(m, v)
      BY <2>1 DEF R!Radio!H!ParseGreeting, Radio!H!ParseGreeting, R!Radio!H!IsGreetingUnit, Radio!H!IsGreetingUnit
    <2>3. \A v, w : R!Radio!H!SmallerOf(v, w) = Radio!H!SmallerOf(v, w)
      BY DEF R!Radio!H!SmallerOf, Radio!H!SmallerOf
    <2>4. /\ R!Radio!H!GREETING_LEN = Radio!H!GREETING_LEN
          /\ R!Radio!H!GREETING_PARTIAL_LEN = Radio!H!GREETING_PARTIAL_LEN
      BY DEF R!Radio!H!GREETING_LEN, Radio!H!GREETING_LEN, R!Radio!H!GREETING_PARTIAL_LEN, Radio!H!GREETING_PARTIAL_LEN
    <2> SUFFICES ASSUME NEW c, NEW x PROVE R!Radio!H!FeedGreeting(c, x) = Radio!H!FeedGreeting(c, x)
      OBVIOUS
    <2> DEFINE n       == Radio!H!SmallerOf(Len(x), Radio!H!GREETING_LEN - Len(c.greeting_buf))
               m       == R!Radio!H!SmallerOf(Len(x), R!Radio!H!GREETING_LEN - Len(c.greeting_buf))
               Buf(k)  == c.greeting_buf \o SubSeq(x, 1, k)
               C1(k)   == [c EXCEPT !.greeting_buf = Buf(k)]
               C2(k)   == [C1(k) EXCEPT !.peer_version_minor = Buf(k)[3].of.minor,
                              !.peer_greeting_received = TRUE,
                              !.state = IF c.our_greeting_sent
                                        THEN IF c.mechanism = "Null" THEN "Ready" ELSE "PlainHello" ELSE @]
    <2>5. Radio!H!FeedGreeting(c, x) =
             IF /\ Len(c.greeting_buf) < Radio!H!GREETING_PARTIAL_LEN
                /\ Len(Buf(n)) >= Radio!H!GREETING_PARTIAL_LEN
                /\ ~Radio!H!ParsePartialGreeting(Buf(n))
             THEN Radio!H!Err(C1(n), "GreetingError")
             ELSE IF Len(Buf(n)) < Radio!H!GREETING_LEN THEN Radio!H!Ok(C1(n), n)
             ELSE IF ~Radio!H!ParseGreeting(c.mechanism, Buf(n)) THEN Radio!H!Err(C1(n), "GreetingError")
             ELSE Radio!H!Ok(C2(n), n)
      BY DEF Radio!H!FeedGreeting
    <2>6. R!Radio!H!FeedGreeting(c, x) =
             IF /\ Len(c.greeting_buf) < R!Radio!H!GREETING_PARTIAL_LEN
                /\ Len(Buf(m)) >= R!Radio!H!GREETING_PARTIAL_LEN
                /\ ~R!Radio!H!ParsePartialGreeting(Buf(m))
             THEN R!Radio!H!Err(C1(m), "GreetingError")
             ELSE IF Len(Buf(m)) < R!Radio!H!GREETING_LEN THEN R!Radio!H!Ok(C1(m), m)
             ELSE IF ~R!Radio!H!ParseGreeting(c.mechanism, Buf(m)) THEN R!Radio!H!Err(C1(m), "GreetingError")
             ELSE R!Radio!H!Ok(C2(m), m)
      BY DEF R!Radio!H!FeedGreeting
    <2>7. m = n
      BY <2>3, <2>4
    <2> HIDE DEF n, m, Buf, C1, C2
    <2> QED
      BY <1>1, <1>2, <2>1, <2>2, <2>4, <2>5, <2>6, <2>7
  <1>6. \A c, f, n : R!Radio!H!HandleHello(c, f, n) = Radio!H!HandleHello(c, f, n)
    BY Zenon DEF R!Radio!H!HandleHello, Radio!H!HandleHello, R!Radio!H!Ok, Radio!H!Ok, R!Radio!H!Err, Radio!H!Err
  <1>7. \A c, f, v, n : R!Radio!H!HandleReady(c, f, v, n) = Radio!H!HandleReady(c, f, v, n)
    BY Zenon DEF R!Radio!H!HandleReady, Radio!H!HandleReady, R!Radio!H!Ok, Radio!H!Ok, R!Radio!H!Err, Radio!H!Err
  <1>8. \A c, x : R!Radio!H!FeedPlainHello(c, x) = Radio!H!FeedPlainHello(c, x)
    BY <1>4, <1>6, Zenon DEF R!Radio!H!FeedPlainHello, Radio!H!FeedPlainHello
  <1>9. \A c, f : R!Radio!ApplyFrame(c, f) = Radio!ApplyFrame(c, f)
    <2>1. \A e, g : R!Radio!G!Join(e, g) = Radio!G!Join(e, g)
      BY Zenon DEF R!Radio!G!Join, Radio!G!Join, R!Radio!G!Refused, Radio!G!Refused,
                   R!Radio!G!TableFull, Radio!G!TableFull, R!Radio!G!GroupTooLong,
                   Radio!G!GroupTooLong, R!Radio!G!Stored, Radio!G!Stored
    <2>2. \A e, g : R!Radio!G!Leave(e, g) = Radio!G!Leave(e, g)
      BY Zenon DEF R!Radio!G!Leave, Radio!G!Leave, R!Radio!G!Stored, Radio!G!Stored
    <2> QED
      BY <1>3, <2>1, <2>2, Zenon DEF R!Radio!ApplyFrame, Radio!ApplyFrame
  <1>10. \A c, x : R!Radio!FeedReadyInner(c, x) = Radio!FeedReadyInner(c, x)
    BY <1>4, <1>7, Zenon DEF R!Radio!FeedReadyInner, Radio!FeedReadyInner, R!Radio!ParseReady, Radio!ParseReady
  <1>11. \A c, x : R!Radio!FeedEstablished(c, x) = Radio!FeedEstablished(c, x)
    BY <1>1, <1>4, <1>9, Zenon DEF R!Radio!FeedEstablished, Radio!FeedEstablished
  <1>12. \A c, x : R!Radio!FeedConn(c, x) = Radio!FeedConn(c, x)
    BY <1>2, <1>5, <1>8, <1>10, <1>11, Zenon
       DEF R!Radio!FeedConn, Radio!FeedConn, R!Radio!FeedGreeting, Radio!FeedGreeting,
           R!Radio!FeedPlainHello, Radio!FeedPlainHello, R!Radio!FeedReady, Radio!FeedReady,
           R!Radio!FeedPlainReady, Radio!FeedPlainReady
  <1>13. \A c, g : R!Radio!PublishHeaders(c, g) = Radio!PublishHeaders(c, g)
    BY <1>1, <1>2, Zenon DEF R!Radio!PublishHeaders, Radio!PublishHeaders, R!Radio!G!MatchesGroup,
                             Radio!G!MatchesGroup, R!Radio!G!Stored, Radio!G!Stored
  <1> QED
    BY <1>12, <1>13

\* The inductive invariant is kept by feed of a RADIO connection, whatever
\* piece of the stream it is given.
LEMMA RadioFeedStep ==
    ASSUME IInv, IsRadio, NEW n, R!DoFeed(n)
    PROVE  IInv'
  <1> DEFINE r == R!Radio!FeedConn(conn, Input(n))
             f == TakeFrame(conn, Input(n)).frame
  <1>0. Feeds(n, r)
    BY DEF R!DoFeed, R!Feeds, Feeds, R!Input, Input
  <1>1. /\ IsRadioConn(conn, Units) /\ ReadyTypes = DishTypes
        /\ GroupsInv(conn.group_table, Traffic, Args)
    BY DEF IInv, TypeInv, TableInv, IsRadioConn, ReadyTypes
  <1>2. Input(n) \in Seq(Units)
    <2>1. wire \in Seq(Units) /\ pos \in Nat /\ n \in Nat /\ pos + n <= Len(wire)
      BY <1>0 DEF Feeds, IInv, TypeInv
    <2> QED
      BY <2>1 DEF Input
  <1>2a. r = Radio!FeedConn(conn, Input(n))
    BY SameRadio, Zenon
  <1> HIDE DEF r
  <1>3. FeedsTo(Units, conn, Input(n), r, ReadyTypes) /\ GroupsFed(conn, Input(n), r)
    BY <1>1, <1>2, <1>2a, RadioFeeds
  <1>4. DOMAIN r.conn = DOMAIN conn
    BY <1>3 DEF GroupsFed
  <1>5. /\ conn' = r.conn /\ IsRadio' = IsRadio /\ TypeInv'
        /\ FedInv(conn, fed, rejected, ReadyTypes)' /\ SentInv(conn, sent)' /\ PongInv(conn, fed, sent)'
    BY <1>0, <1>3, <1>4, FeedStepCommon
  <1>6. GroupsInv(conn'.group_table, Traffic', Args)
    <2>1. CASE ~FrameTaken(conn, Input(n)) /\ Traffic' = Traffic
      BY <1>1, <1>3, <1>5, <2>1 DEF GroupsFed
    <2>2. CASE /\ FrameTaken(conn, Input(n))
               /\ Traffic \in Seq(FramesOf(Units)) /\ f \in FramesOf(Units)
               /\ Traffic' = Append(Traffic, f)
      <3>1. conn'.group_table = GroupsWith(conn.group_table, f)
        BY <1>1, <1>3, <1>5, <2>2 DEF GroupsFed
      <3>2. f.arg \in Args
        BY <2>2 DEF Args
      <3>3. f.kind = "JOIN" => Len(f.arg) \in Nat
        <4>1. \E y \in Units : y.what = "frame" /\ f = y.of
          BY <1>1, <1>2, <2>2, TakenFrame DEF FrameTaken, IsRadioConn
        <4> HIDE DEF f
        <4> QED
          BY <4>1, NamesAssumption
      <3> HIDE DEF f
      <3>4. GroupsInv(GroupsWith(conn.group_table, f), Append(Traffic, f), Args)
        BY <1>1, <2>2, <3>2, <3>3, GroupsMore
      <3> QED
        BY <2>2, <3>1, <3>4
    <2> QED
      BY <1>0, <1>3, <1>4, <2>1, <2>2, FeedStepTraffic
  <1>7. TableInv'
    BY <1>1, <1>4, <1>5, <1>6 DEF TableInv, IsRadioConn, Args
  <1> QED
    BY <1>5, <1>7 DEF IInv

-----------------------------------------------------------------------------
(* Every step *)

\* The inductive invariant is kept by each step of a PUB connection.
LEMMA PubStep ==
    ASSUME IInv, ~IsRadio, Next
    PROVE  IInv'
  <1>1. ASSUME NEW fits \in BOOLEAN, DoWriteGreeting(fits) PROVE IInv'
    BY <1>1, GreetingStep DEF DoWriteGreeting
  <1>2. ASSUME NEW fits \in BOOLEAN, DoWriteReady(fits) PROVE IInv'
    BY <1>2, ReadyStep DEF DoWriteReady
  <1>3. ASSUME NEW fits \in BOOLEAN, DoWriteWelcome(fits) PROVE IInv'
    BY <1>3, WelcomeStep DEF DoWriteWelcome
  <1>4. ASSUME NEW fits \in BOOLEAN, DoWriteError(fits) PROVE IInv'
    <2> DEFINE r == WriteError(conn, fits)
    <2>1. r.conn = conn /\ Output(r, "ERROR", <<>>)
      BY <1>4 DEF DoWriteError, WriteError, Ok, Err
    <2> HIDE DEF r
    <2> QED
      BY <2>1, NoArg, SayStep
  <1>5. ASSUME NEW fits \in BOOLEAN, DoWritePong(fits) PROVE IInv'
    BY <1>5, PongStep DEF DoWritePong
  <1>6. ASSUME NEW fits \in BOOLEAN, NEW t \in Topics, DoPublish(t, fits) PROVE IInv'
    <2> DEFINE r == Publish(conn, t, fits)
    <2>1. /\ r.conn = conn /\ Output(r, "MESSAGE", t)
          /\ r.res = "Ok" /\ r.n = 1 => conn.state = "Established"
      BY <1>6 DEF DoPublish, Publish, PublishHeaders, Ok, Err
    <2> HIDE DEF r
    <2> QED
      BY <2>1, SayStep
  <1>7. ASSUME NEW n, DoFeed(n) PROVE IInv'
    BY <1>7, PubFeedStep
  <1> QED
    BY <1>1, <1>2, <1>3, <1>4, <1>5, <1>6, <1>7 DEF Next

\* The write methods of radio_connection.rs do what those of connection.rs
\* do.
LEMMA SameOutput ==
    /\ \A c, fits : R!Radio!WriteGreeting(c, fits) = WriteGreeting(c, fits)
    /\ \A c, fits : R!Radio!WriteReady(c, fits) = WriteReady(c, fits)
    /\ \A c, fits : R!Radio!WriteWelcome(c, fits) = WriteWelcome(c, fits)
    /\ \A c, fits : R!Radio!WriteError(c, fits) = WriteError(c, fits)
    /\ \A c, fits : R!Radio!WritePong(c, fits) = WritePong(c, fits)
  <1>1. \A c, fits : R!Radio!WriteGreeting(c, fits) = WriteGreeting(c, fits)
    BY Zenon DEF R!Radio!H!Ok, Ok, R!Radio!H!Err, Err, R!Radio!WriteGreeting, R!Radio!H!WriteGreeting, WriteGreeting
  <1>2. \A c, fits : R!Radio!WriteReady(c, fits) = WriteReady(c, fits)
    BY Zenon DEF R!Radio!H!Ok, Ok, R!Radio!H!Err, Err, R!Radio!WriteReady, R!Radio!H!WriteReady, WriteReady,
                           R!Radio!H!MayWriteReady, MayWriteReady
  <1>3. \A c, fits : R!Radio!WriteWelcome(c, fits) = WriteWelcome(c, fits)
    BY Zenon DEF R!Radio!H!Ok, Ok, R!Radio!H!Err, Err, R!Radio!WriteWelcome, R!Radio!H!WriteWelcome, WriteWelcome
  <1>4. \A c, fits : R!Radio!WriteError(c, fits) = WriteError(c, fits)
    BY Zenon DEF R!Radio!H!Ok, Ok, R!Radio!H!Err, Err, R!Radio!WriteError, R!Radio!H!WriteError, WriteError
  <1>5. \A c, fits : R!Radio!WritePong(c, fits) = WritePong(c, fits)
    BY Zenon DEF R!Radio!H!Ok, Ok, R!Radio!H!Err, Err, R!Radio!WritePong, R!Radio!H!WritePong, WritePong
  <1> QED
    BY <1>1, <1>2, <1>3, <1>4, <1>5

\* The inductive invariant is kept by each step of a RADIO connection.
LEMMA RadioStep ==
    ASSUME IInv, IsRadio, R!Next
    PROVE  IInv'
  <1>0. ASSUME NEW r, NEW what, NEW arg, R!Output(r, what, arg) PROVE Output(r, what, arg)
    BY <1>0 DEF R!Output, Output
  <1>1. ASSUME NEW fits \in BOOLEAN, R!DoWriteGreeting(fits) PROVE IInv'
    BY <1>0, <1>1, GreetingStep, SameOutput DEF R!DoWriteGreeting
  <1>2. ASSUME NEW fits \in BOOLEAN, R!DoWriteReady(fits) PROVE IInv'
    BY <1>0, <1>2, ReadyStep, SameOutput DEF R!DoWriteReady
  <1>3. ASSUME NEW fits \in BOOLEAN, R!DoWriteWelcome(fits) PROVE IInv'
    BY <1>0, <1>3, WelcomeStep, SameOutput DEF R!DoWriteWelcome
  <1>4. ASSUME NEW fits \in BOOLEAN, R!DoWriteError(fits) PROVE IInv'
    <2> DEFINE r == WriteError(conn, fits)
    <2>1. Output(r, "ERROR", <<>>)
      BY <1>0, <1>4, SameOutput DEF R!DoWriteError
    <2>2. r.conn = conn
      BY DEF WriteError, Ok, Err
    <2> HIDE DEF r
    <2> QED
      BY <2>1, <2>2, NoArg, SayStep
  <1>5. ASSUME NEW fits \in BOOLEAN, R!DoWritePong(fits) PROVE IInv'
    BY <1>0, <1>5, PongStep, SameOutput DEF R!DoWritePong
  <1>6. ASSUME NEW fits \in BOOLEAN, NEW g \in Groups, R!DoPublish(g, fits) PROVE IInv'
    <2> DEFINE r == R!Radio!Publish(conn, g, fits)
    <2>1. Output(r, "MESSAGE", g)
      BY <1>0, <1>6 DEF R!DoPublish
    <2>2. r.conn = conn /\ (r.res = "Ok" /\ r.n = 1 => conn.state = "Established")
      BY DEF R!Radio!Publish, R!Radio!PublishHeaders, R!Radio!H!Ok, R!Radio!H!Err
    <2> HIDE DEF r
    <2> QED
      BY <2>1, <2>2, SayStep
  <1>7. ASSUME NEW n, R!DoFeed(n) PROVE IInv'
    BY <1>7, RadioFeedStep
  <1> QED
    BY <1>1, <1>2, <1>3, <1>4, <1>5, <1>6, <1>7 DEF R!Next

\* In the hands of any caller, whatever the peer sends and in whatever pieces
\* it arrives, a connection of either kind is in a state that what it was fed
\* and what it has sent account for.
THEOREM Invariance == EitherSpec => []IInv
  <1>1. EitherInit => IInv
    BY InitIInv
  <1>2. IInv /\ [EitherNext]_vars => IInv'
    <2> SUFFICES ASSUME IInv, [EitherNext]_vars PROVE IInv'
      OBVIOUS
    <2>1. CASE EitherNext
      BY <2>1, PubStep, RadioStep DEF EitherNext
    <2>2. CASE UNCHANGED vars
      BY <2>2 DEF vars, IInv, TypeInv, TableInv, ReadyTypes, IsRadio, Traffic
    <2> QED
      BY <2>1, <2>2
  <1> QED
    BY <1>1, <1>2, PTL DEF EitherSpec
-----------------------------------------------------------------------------
(* What follows from it *)

\* By the invariant, what was sent of our handshake is what the flags say,
\* and the flags are set in the order of the handshake.
LEMMA SaidFacts ==
    ASSUME IInv
    PROVE  /\ HandshakeIn(sent) = Said(conn)
           /\ conn.mechanism \in {"Null", "Plain"}
           /\ ~conn.our_greeting_sent => ~conn.our_ready_sent /\ ~conn.our_welcome_sent
           /\ conn.our_welcome_sent => conn.mechanism = "Plain"
           /\ conn.our_ready_sent /\ conn.mechanism = "Plain" => conn.our_welcome_sent
           /\ conn.state = "Established" => conn.our_greeting_sent /\ conn.our_ready_sent
  BY DEF IInv, TypeInv, IsConn, Mechanisms, FedInv, SentInv, Greets, Greeted, Received

\* The beginnings of our handshake, with either mechanism.
LEMMA PrefixFacts ==
    /\ IsPrefix(<<>>, <<"GREETING", "READY">>)
    /\ IsPrefix(<<"GREETING">>, <<"GREETING", "READY">>)
    /\ IsPrefix(<<"GREETING", "READY">>, <<"GREETING", "READY">>)
    /\ IsPrefix(<<>>, <<"GREETING", "WELCOME", "READY">>)
    /\ IsPrefix(<<"GREETING">>, <<"GREETING", "WELCOME", "READY">>)
    /\ IsPrefix(<<"GREETING", "WELCOME">>, <<"GREETING", "WELCOME", "READY">>)
    /\ IsPrefix(<<"GREETING", "WELCOME", "READY">>, <<"GREETING", "WELCOME", "READY">>)
  BY DEF IsPrefix

\* The caller may call the write methods in any order: our handshake goes out
\* in its order, each part once, and whole before the connection is
\* established; messages and PONGs go out only then.
THEOREM HandshakeOrderCorrect == EitherSpec => []HandshakeOrder
  <1>1. IInv => HandshakeOrder
    <2> SUFFICES ASSUME IInv PROVE HandshakeOrder
      OBVIOUS
    <2>1. IsPrefix(Said(conn), FullHandshake(conn.mechanism))
      BY SaidFacts, PrefixFacts, Zenon DEF Said, FullHandshake
    <2>2. conn.state = "Established" => Said(conn) = FullHandshake(conn.mechanism)
      BY SaidFacts, Zenon DEF Said, FullHandshake
    <2>3. ItemsOf({"MESSAGE", "PONG"}, sent) # <<>> => conn.state = "Established"
      BY DEF IInv, SentInv
    <2> QED
      BY <2>1, <2>2, <2>3, SaidFacts DEF HandshakeOrder
  <1> QED
    BY <1>1, Invariance, PTL

\* WELCOME is written only after the HELLO of the peer was accepted.
THEOREM WelcomeCorrect == EitherSpec => []WelcomeMeansAccepted
  <1>1. IInv => WelcomeMeansAccepted
    BY DEF IInv, SentInv, FedInv, Received, HelloIn, WelcomeMeansAccepted, HelloAccepted, FedFrames
  <1> QED
    BY <1>1, Invariance, PTL

\* What was fed to an established connection, by the invariant.
LEMMA EstablishedFacts ==
    ASSUME IInv, conn.state = "Established"
    PROVE  /\ ParsePartialGreeting(FedGreeting)
           /\ FedGreeting[3].of.mech = conn.mechanism /\ ~FedGreeting[3].of.server
           /\ Len(FedFrames) >= ReadyAt
           /\ conn.mechanism = "Plain" => HelloAccepted
           /\ FedFrames[ReadyAt].kind = "READY"
           /\ FedFrames[ReadyAt].arg \in ReadyTypes
  <1>1. ParseGreeting(conn.mechanism, FedGreeting)
    BY DEF IInv, FedInv, Greeted, FedGreeting
  <1>2. Received(conn, fed, ReadyTypes)
    BY DEF IInv, FedInv
  <1> QED
    BY <1>1, <1>2 DEF ParseGreeting, Received, HelloIn, HelloAccepted, FedFrames, ReadyAt

\* feed establishes a connection only after a valid greeting, accepted
\* credentials with PLAIN, and a READY of a socket of the matching kind,
\* however the stream was cut into pieces.
THEOREM EstablishedCorrect == EitherSpec => []EstablishedRightly
  <1>1. IInv => EstablishedRightly
    <2> SUFFICES ASSUME IInv PROVE EstablishedRightly
      OBVIOUS
    <2>1. CASE IsRadio
      <3>1. SUFFICES ASSUME conn.state = "Established" PROVE R!EstablishedMeansDish
        BY <2>1 DEF EstablishedRightly, R!EstablishedMeansDish, R!EstablishedBy
      <3>2. R!FramesIn(fed) = FramesIn(fed)
        BY DEF R!FramesIn, FramesIn, R!GREETING_LEN, GREETING_LEN, R!FRAME_LEN, FRAME_LEN
      <3>3. R!FedGreeting = FedGreeting /\ R!FedFrames = FedFrames /\ R!ReadyAt = ReadyAt
        BY <3>2 DEF R!FedGreeting, FedGreeting, R!GREETING_LEN, GREETING_LEN, R!FedFrames, FedFrames,
               R!ReadyAt, ReadyAt, R!HandshakeFrames, HandshakeFrames
      <3>4. ParsePartialGreeting(FedGreeting) => R!ParsePartialGreeting(FedGreeting)
        BY DEF ParsePartialGreeting, R!ParsePartialGreeting, R!GREETING_PARTIAL_LEN,
               GREETING_PARTIAL_LEN, R!IsGreetingUnit, IsGreetingUnit
      <3>5. HelloAccepted => R!HelloAccepted
        BY <3>3 DEF HelloAccepted, R!HelloAccepted
      <3>6. ReadyTypes = {<<"DISH">>}
        BY <2>1 DEF ReadyTypes, DishTypes
      <3> QED
        BY <3>1, <3>3, <3>4, <3>5, <3>6, EstablishedFacts DEF R!EstablishedMeansDish, R!EstablishedBy
    <2>2. CASE ~IsRadio
      <3>1. ReadyTypes = {<<"SUB">>, <<"XSUB">>}
        BY <2>2 DEF ReadyTypes, PubTypes
      <3> QED
        BY <2>2, <3>1, EstablishedFacts DEF EstablishedRightly, EstablishedMeansValid, EstablishedBy
    <2> QED
      BY <2>1, <2>2
  <1> QED
    BY <1>1, Invariance, PTL

\* A peer that feed turned away in the handshake is never established, though
\* the caller goes on feeding: a refused greeting stays in the buffer, and a
\* refused frame fails the connection or poisons its decoder.
THEOREM RejectionCorrect == EitherSpec => []RejectedStaysRejected
  <1>1. IInv => RejectedStaysRejected
    BY DEF IInv, FedInv, Rejects, RejectedStaysRejected
  <1> QED
    BY <1>1, Invariance, PTL

\* The table of a PUB connection is what the frames after the handshake make
\* of an empty one, each applied once and in order by feed.
THEOREM SubscriptionsCorrect == EitherSpec => []SubscriptionsFollowFrames
  <1>1. IInv => SubscriptionsFollowFrames
    BY DEF IInv, TableInv, SubscriptionsFollowFrames, TableFollowsFrames
  <1> QED
    BY <1>1, Invariance, PTL

\* The PONGs written, with the one pending, answer PINGs that were fed in
\* their order, and only those of a peer of 3.1.
THEOREM PongsCorrect == EitherSpec => []PongsAnswerPings
  <1>1. IInv => PongsAnswerPings
    BY DEF IInv, PongInv, PingsDue, PongsAnswerPings, Traffic
  <1> QED
    BY <1>1, Invariance, PTL

\* What RADIO says of the peer's traffic is what PUB says of it.
LEMMA SameTraffic ==
    /\ R!Traffic = Traffic
    /\ \A g : R!LastSaidJoin(g) <=> SaidJoin(Traffic, g)
  <1>1. R!Traffic = Traffic
    BY DEF R!Traffic, Traffic, R!TrafficIn, TrafficIn, R!FramesIn, FramesIn, R!GREETING_LEN, GREETING_LEN,
           R!FRAME_LEN, FRAME_LEN, R!HandshakeFrames, HandshakeFrames
  <1>2. \A g : R!LastSaidJoin(g) <=> SaidJoin(Traffic, g)
    BY <1>1 DEF R!LastSaidJoin, SaidJoin
  <1> QED
    BY <1>1, <1>2

\* While the groups that were named fit the table, publish of a RADIO
\* connection serves every group the peer's last word on was JOIN.
THEOREM MembersCorrect == EitherSpec => []MembersAreServed
  <1>1. IInv => MembersAreServed
    <2> SUFFICES ASSUME IInv, IsRadio PROVE R!MembersAreServed
      BY DEF MembersAreServed
    <2>1. GroupsInv(conn.group_table, Traffic, Args)
      BY DEF IInv, TableInv
    <2>2. ASSUME conn.state = "Established", Cardinality(JoinedIn(Traffic)) <= GROUP_CAP,
                 \A g \in JoinedIn(Traffic) : Len(g) <= NAME_CAP,
                 NEW g \in Groups, R!LastSaidJoin(g)
          PROVE  R!Radio!Publish(conn, g, TRUE) = R!Ok(conn, 1)
      <3>1. g \in InTable(conn.group_table)
        BY <2>1, <2>2, SameTraffic DEF GroupsInv
      <3>2. R!Radio!G!MatchesGroup(conn.group_table, g)
        BY <3>1 DEF R!Radio!G!MatchesGroup, R!Radio!G!Stored, InTable
      <3> QED
        BY <2>2, <3>2 DEF R!Radio!Publish, R!Radio!PublishHeaders, R!Radio!H!Ok, R!Ok
    <2> DEFINE named == {R!Traffic[i].arg : i \in {k \in DOMAIN R!Traffic : R!Traffic[k].kind = "JOIN"}}
    <2>3. named = JoinedIn(Traffic)
      BY SameTraffic, Zenon DEF JoinedIn
    <2>3a. \A S : R!Cardinality(S) = Cardinality(S)
      BY DEF R!Cardinality, Cardinality
    <2>4. R!MembersAreServed <=>
             ((/\ conn.state = "Established"
               /\ R!Cardinality(named) <= GROUP_CAP
               /\ \A g \in named : Len(g) <= NAME_CAP) =>
                 \A g \in Groups :
                    R!LastSaidJoin(g) => R!Radio!Publish(conn, g, TRUE) = R!Ok(conn, 1))
      BY DEF R!MembersAreServed
    <2> HIDE DEF named
    <2> QED
      BY <2>2, <2>3, <2>3a, <2>4
  <1> QED
    BY <1>1, Invariance, PTL

\* A RADIO connection appends a message to what it has sent only by publish.
LEMMA PublishesToMember ==
    ASSUME IInv, IsRadio, R!Next, NEW g \in Groups,
           sent' = Append(sent, [what |-> "MESSAGE", arg |-> g])
    PROVE  R!LastSaidJoin(g)
  <1>0. sent \in Seq(Items) /\ GroupsInv(conn.group_table, Traffic, Args)
    BY DEF IInv, TypeInv, TableInv
  <1>1. sent' # sent
    BY <1>0
  <1>2. ASSUME NEW what, NEW arg, sent' = Append(sent, [what |-> what, arg |-> arg])
        PROVE  what = "MESSAGE" /\ arg = g
    <2>1. [what |-> what, arg |-> arg] = [what |-> "MESSAGE", arg |-> g]
      BY <1>0, <1>2
    <2> QED
      BY <2>1
  <1>3. ASSUME NEW r, NEW what, NEW arg, R!Output(r, what, arg)
        PROVE  what = "MESSAGE" /\ arg = g /\ r.res = "Ok" /\ r.n = 1
    BY <1>1, <1>2, <1>3 DEF R!Output
  <1>4. PICK h \in Groups, fits \in BOOLEAN : R!DoPublish(h, fits)
    BY <1>1, <1>3 DEF R!Next, R!DoWriteGreeting, R!DoWriteReady, R!DoWriteWelcome, R!DoWriteError,
                      R!DoWritePong, R!DoFeed, R!Feeds
  <1> DEFINE r == R!Radio!Publish(conn, h, fits)
  <1>5. h = g /\ r.res = "Ok" /\ r.n = 1
    BY <1>3, <1>4 DEF R!DoPublish
  <1>6. R!Radio!G!MatchesGroup(conn.group_table, g)
    BY <1>5 DEF R!Radio!Publish, R!Radio!PublishHeaders, R!Radio!H!Ok, R!Radio!H!Err
  <1>7. g \in InTable(conn.group_table)
    BY <1>6 DEF R!Radio!G!MatchesGroup, R!Radio!G!Stored, InTable
  <1> QED
    BY <1>0, <1>7, SameTraffic DEF GroupsInv

\* A RADIO connection writes a message only for a group that the peer's last
\* word on was JOIN.
THEOREM OnlyToMembersCorrect == EitherSpec => OnlyToMembers
  <1>1. IInv /\ [EitherNext]_vars => [IsRadio => R!SendsToMember]_vars
    <2> SUFFICES ASSUME IInv, EitherNext, IsRadio PROVE R!SendsToMember
      OBVIOUS
    <2>1. R!Next
      BY DEF EitherNext
    <2> QED
      BY <2>1, PublishesToMember DEF R!SendsToMember
  <1> QED
    BY <1>1, Invariance, PTL DEF EitherSpec, OnlyToMembers
============================================================================
