---------------------------- MODULE AsyncProofs ----------------------------
(***************************************************************************)
(* The async drivers implement the blocking ones, for every size of the    *)
(* buffers and the tables, every peer and every choice of the errors after *)
(* which the caller goes on.  The definitions of AsyncDrivers and of the   *)
(* blocking Drivers it instantiates are first shown to be the same; then   *)
(* there is a lemma for each action.                                       *)
(***************************************************************************)
EXTENDS AsyncDrivers, HandshakeProofs

\* The connection of the blocking PUB driver is that of the async one.
LEMMA SamePub ==
    /\ \A c, x : Blocking!FeedConn(c, x) = FeedConn(c, x)
    /\ \A c, t : Blocking!PublishHeaders(c, t) = PublishHeaders(c, t)
  <1>1. \A c, x : Blocking!TakeFrame(c, x) = TakeFrame(c, x)
    BY SMT DEF Blocking!TakeFrame, Blocking!DecoderFeed, Blocking!Refused,
           Blocking!FRAME_LEN, Blocking!NewDecoder, Blocking!DecodedFrame, Blocking!Ok,
           Blocking!Err, TakeFrame, DecoderFeed, Refused, FRAME_LEN, NewDecoder,
           DecodedFrame, Ok, Err
  <1>2. \A c, x : Blocking!FeedGreeting(c, x) = FeedGreeting(c, x)
    BY SMT DEF Blocking!FeedGreeting, Blocking!SmallerOf, Blocking!GREETING_LEN,
           Blocking!GREETING_PARTIAL_LEN, Blocking!ParseGreeting,
           Blocking!ParsePartialGreeting, Blocking!IsGreetingUnit, Blocking!Ok,
           Blocking!Err, FeedGreeting, SmallerOf, GREETING_LEN, GREETING_PARTIAL_LEN,
           ParseGreeting, ParsePartialGreeting, IsGreetingUnit, Ok, Err
  <1>3. \A c, f, n : Blocking!HandleHello(c, f, n) = HandleHello(c, f, n)
    BY Zenon DEF Blocking!HandleHello, Blocking!Ok, Blocking!Err, HandleHello, Ok, Err
  <1>4. \A c, f, v, n : Blocking!HandleReady(c, f, v, n) = HandleReady(c, f, v, n)
    BY Zenon DEF Blocking!HandleReady, Blocking!Ok, Blocking!Err, HandleReady, Ok, Err
  <1>5. \A f : Blocking!PingContext(f) = PingContext(f)
    BY Zenon DEF Blocking!PingContext, Blocking!SmallerOf, PingContext, SmallerOf
  <1>6. \A c, n : Blocking!Ok(c, n) = Ok(c, n)
    BY Zenon DEF Blocking!Ok, Ok
  <1>7. \A c, e : Blocking!Err(c, e) = Err(c, e)
    BY Zenon DEF Blocking!Err, Err
  <1>8. \A e, p : Blocking!Subscribe(e, p) = Subscribe(e, p)
    BY Zenon DEF Blocking!Subscribe, Blocking!TooLong, Blocking!Full, Subscribe, TooLong,
           Full
  <1>9. \A e, p : Blocking!Cancel(e, p) = Cancel(e, p)
    BY Zenon DEF Blocking!Cancel, Blocking!Positions, Blocking!SwapRemove,
           Blocking!FirstPosition, Cancel, Positions, SwapRemove, FirstPosition
  <1>10. \A c, f : Blocking!ApplyFrame(c, f) = ApplyFrame(c, f)
    BY <1>5, <1>8, <1>9 DEF Blocking!ApplyFrame, ApplyFrame
  <1>11. \A c, x : Blocking!FeedReadyInner(c, x) = FeedReadyInner(c, x)
    BY <1>1, <1>4 DEF Blocking!FeedReadyInner, Blocking!ParseReady, FeedReadyInner,
           ParseReady
  <1>12. \A c, x : Blocking!FeedEstablished(c, x) = FeedEstablished(c, x)
    BY <1>1, <1>6, <1>10 DEF Blocking!FeedEstablished, Blocking!HandleEstablished,
           FeedEstablished, HandleEstablished
  <1>13. \A c, x : Blocking!FeedPlainHello(c, x) = FeedPlainHello(c, x)
    BY <1>1, <1>3 DEF Blocking!FeedPlainHello, FeedPlainHello
  <1>14. \A c, x : Blocking!FeedConn(c, x) = FeedConn(c, x)
    BY <1>2, <1>7, <1>11, <1>12, <1>13 DEF Blocking!FeedConn, Blocking!FeedReady,
           Blocking!FeedPlainReady, FeedConn, FeedReady, FeedPlainReady
  <1>15. \A c, t : Blocking!PublishHeaders(c, t) = PublishHeaders(c, t)
    BY <1>6, <1>7 DEF Blocking!PublishHeaders, Blocking!Matches, Blocking!StartsWith,
           PublishHeaders, Matches, StartsWith
  <1> QED
    BY <1>14, <1>15

\* The connection of the async RADIO driver is that of Sockets.
LEMMA SameRadio ==
    /\ \A c, x : R!Radio!FeedConn(c, x) = Radio!FeedConn(c, x)
    /\ \A c, g : R!Radio!PublishHeaders(c, g) = Radio!PublishHeaders(c, g)
  <1>1. \A c, x : R!Radio!H!TakeFrame(c, x) = Radio!H!TakeFrame(c, x)
    BY SMT DEF R!Radio!H!TakeFrame, R!Radio!H!DecoderFeed, R!Radio!H!Refused,
           R!Radio!H!FRAME_LEN, R!Radio!H!NewDecoder, R!Radio!H!DecodedFrame, R!Radio!H!Ok,
           R!Radio!H!Err, Radio!H!TakeFrame, Radio!H!DecoderFeed, Radio!H!Refused,
           Radio!H!FRAME_LEN, Radio!H!NewDecoder, Radio!H!DecodedFrame, Radio!H!Ok,
           Radio!H!Err
  <1>2. \A c, x : R!Radio!H!FeedGreeting(c, x) = Radio!H!FeedGreeting(c, x)
    BY SMT DEF R!Radio!H!FeedGreeting, R!Radio!H!SmallerOf, R!Radio!H!GREETING_LEN,
           R!Radio!H!GREETING_PARTIAL_LEN, R!Radio!H!ParseGreeting,
           R!Radio!H!ParsePartialGreeting, R!Radio!H!IsGreetingUnit, R!Radio!H!Ok,
           R!Radio!H!Err, Radio!H!FeedGreeting, Radio!H!SmallerOf, Radio!H!GREETING_LEN,
           Radio!H!GREETING_PARTIAL_LEN, Radio!H!ParseGreeting,
           Radio!H!ParsePartialGreeting, Radio!H!IsGreetingUnit, Radio!H!Ok, Radio!H!Err
  <1>3. \A c, f, n : R!Radio!H!HandleHello(c, f, n) = Radio!H!HandleHello(c, f, n)
    BY Zenon DEF R!Radio!H!HandleHello, R!Radio!H!Ok, R!Radio!H!Err, Radio!H!HandleHello,
           Radio!H!Ok, Radio!H!Err
  <1>4. \A c, f, v, n : R!Radio!H!HandleReady(c, f, v, n) = Radio!H!HandleReady(c, f, v, n)
    BY Zenon DEF R!Radio!H!HandleReady, R!Radio!H!Ok, R!Radio!H!Err, Radio!H!HandleReady,
           Radio!H!Ok, Radio!H!Err
  <1>5. \A f : R!Radio!H!PingContext(f) = Radio!H!PingContext(f)
    BY Zenon DEF R!Radio!H!PingContext, R!Radio!H!SmallerOf, Radio!H!PingContext,
           Radio!H!SmallerOf
  <1>6. \A c, n : R!Radio!H!Ok(c, n) = Radio!H!Ok(c, n)
    BY Zenon DEF R!Radio!H!Ok, Radio!H!Ok
  <1>7. \A c, e : R!Radio!H!Err(c, e) = Radio!H!Err(c, e)
    BY Zenon DEF R!Radio!H!Err, Radio!H!Err
  <1>8. \A e, g : R!Radio!G!Join(e, g) = Radio!G!Join(e, g)
    BY Zenon DEF R!Radio!G!Join, R!Radio!G!Refused, R!Radio!G!TableFull,
           R!Radio!G!GroupTooLong, R!Radio!G!Stored, Radio!G!Join, Radio!G!Refused,
           Radio!G!TableFull, Radio!G!GroupTooLong, Radio!G!Stored
  <1>9. \A e, g : R!Radio!G!Leave(e, g) = Radio!G!Leave(e, g)
    BY Zenon DEF R!Radio!G!Leave, R!Radio!G!Stored, Radio!G!Leave, Radio!G!Stored
  <1>10. \A c, f : R!Radio!ApplyFrame(c, f) = Radio!ApplyFrame(c, f)
    BY <1>5, <1>8, <1>9 DEF R!Radio!ApplyFrame, Radio!ApplyFrame
  <1>11. \A c, x : R!Radio!FeedReadyInner(c, x) = Radio!FeedReadyInner(c, x)
    BY <1>1, <1>4 DEF R!Radio!FeedReadyInner, R!Radio!ParseReady, Radio!FeedReadyInner,
           Radio!ParseReady
  <1>12. \A c, x : R!Radio!FeedEstablished(c, x) = Radio!FeedEstablished(c, x)
    BY <1>1, <1>6, <1>10 DEF R!Radio!FeedEstablished, Radio!FeedEstablished
  <1>13. \A c, x : R!Radio!FeedPlainHello(c, x) = Radio!FeedPlainHello(c, x)
    BY <1>1, <1>3 DEF R!Radio!FeedPlainHello, Radio!FeedPlainHello,
           R!Radio!H!FeedPlainHello, Radio!H!FeedPlainHello
  <1>14. \A c, x : R!Radio!FeedConn(c, x) = Radio!FeedConn(c, x)
    BY <1>2, <1>7, <1>11, <1>12, <1>13 DEF R!Radio!FeedConn, R!Radio!FeedGreeting,
           R!Radio!FeedReady, R!Radio!FeedPlainReady, Radio!FeedConn, Radio!FeedGreeting,
           Radio!FeedReady, Radio!FeedPlainReady
  <1>15. \A c, g : R!Radio!PublishHeaders(c, g) = Radio!PublishHeaders(c, g)
    BY <1>6, <1>7 DEF R!Radio!PublishHeaders, R!Radio!G!MatchesGroup, R!Radio!G!Stored,
           Radio!PublishHeaders, Radio!G!MatchesGroup, Radio!G!Stored
  <1> QED
    BY <1>14, <1>15

\* And so is that of the blocking one.
LEMMA SameBlockingRadio ==
    /\ \A c, x : Blocking!R!Radio!FeedConn(c, x) = Radio!FeedConn(c, x)
    /\ \A c, g : Blocking!R!Radio!PublishHeaders(c, g) = Radio!PublishHeaders(c, g)
  <1>1. \A c, x : Blocking!R!Radio!H!TakeFrame(c, x) = Radio!H!TakeFrame(c, x)
    BY SMT DEF Blocking!R!Radio!H!TakeFrame, Blocking!R!Radio!H!DecoderFeed,
           Blocking!R!Radio!H!Refused, Blocking!R!Radio!H!FRAME_LEN,
           Blocking!R!Radio!H!NewDecoder, Blocking!R!Radio!H!DecodedFrame,
           Blocking!R!Radio!H!Ok, Blocking!R!Radio!H!Err, Radio!H!TakeFrame,
           Radio!H!DecoderFeed, Radio!H!Refused, Radio!H!FRAME_LEN, Radio!H!NewDecoder,
           Radio!H!DecodedFrame, Radio!H!Ok, Radio!H!Err
  <1>2. \A c, x : Blocking!R!Radio!H!FeedGreeting(c, x) = Radio!H!FeedGreeting(c, x)
    BY SMT DEF Blocking!R!Radio!H!FeedGreeting, Blocking!R!Radio!H!SmallerOf,
           Blocking!R!Radio!H!GREETING_LEN, Blocking!R!Radio!H!GREETING_PARTIAL_LEN,
           Blocking!R!Radio!H!ParseGreeting, Blocking!R!Radio!H!ParsePartialGreeting,
           Blocking!R!Radio!H!IsGreetingUnit, Blocking!R!Radio!H!Ok, Blocking!R!Radio!H!Err,
           Radio!H!FeedGreeting, Radio!H!SmallerOf, Radio!H!GREETING_LEN,
           Radio!H!GREETING_PARTIAL_LEN, Radio!H!ParseGreeting,
           Radio!H!ParsePartialGreeting, Radio!H!IsGreetingUnit, Radio!H!Ok, Radio!H!Err
  <1>3. \A c, f, n : Blocking!R!Radio!H!HandleHello(c, f, n) = Radio!H!HandleHello(c, f, n)
    BY Zenon DEF Blocking!R!Radio!H!HandleHello, Blocking!R!Radio!H!Ok,
           Blocking!R!Radio!H!Err, Radio!H!HandleHello, Radio!H!Ok, Radio!H!Err
  <1>4. \A c, f, v, n : Blocking!R!Radio!H!HandleReady(c, f, v, n) = Radio!H!HandleReady(c, f, v, n)
    BY Zenon DEF Blocking!R!Radio!H!HandleReady, Blocking!R!Radio!H!Ok,
           Blocking!R!Radio!H!Err, Radio!H!HandleReady, Radio!H!Ok, Radio!H!Err
  <1>5. \A f : Blocking!R!Radio!H!PingContext(f) = Radio!H!PingContext(f)
    BY Zenon DEF Blocking!R!Radio!H!PingContext, Blocking!R!Radio!H!SmallerOf,
           Radio!H!PingContext, Radio!H!SmallerOf
  <1>6. \A c, n : Blocking!R!Radio!H!Ok(c, n) = Radio!H!Ok(c, n)
    BY Zenon DEF Blocking!R!Radio!H!Ok, Radio!H!Ok
  <1>7. \A c, e : Blocking!R!Radio!H!Err(c, e) = Radio!H!Err(c, e)
    BY Zenon DEF Blocking!R!Radio!H!Err, Radio!H!Err
  <1>8. \A e, g : Blocking!R!Radio!G!Join(e, g) = Radio!G!Join(e, g)
    BY Zenon DEF Blocking!R!Radio!G!Join, Blocking!R!Radio!G!Refused,
           Blocking!R!Radio!G!TableFull, Blocking!R!Radio!G!GroupTooLong,
           Blocking!R!Radio!G!Stored, Radio!G!Join, Radio!G!Refused, Radio!G!TableFull,
           Radio!G!GroupTooLong, Radio!G!Stored
  <1>9. \A e, g : Blocking!R!Radio!G!Leave(e, g) = Radio!G!Leave(e, g)
    BY Zenon DEF Blocking!R!Radio!G!Leave, Blocking!R!Radio!G!Stored, Radio!G!Leave,
           Radio!G!Stored
  <1>10. \A c, f : Blocking!R!Radio!ApplyFrame(c, f) = Radio!ApplyFrame(c, f)
    BY <1>5, <1>8, <1>9 DEF Blocking!R!Radio!ApplyFrame, Radio!ApplyFrame
  <1>11. \A c, x : Blocking!R!Radio!FeedReadyInner(c, x) = Radio!FeedReadyInner(c, x)
    BY <1>1, <1>4 DEF Blocking!R!Radio!FeedReadyInner, Blocking!R!Radio!ParseReady,
           Radio!FeedReadyInner, Radio!ParseReady
  <1>12. \A c, x : Blocking!R!Radio!FeedEstablished(c, x) = Radio!FeedEstablished(c, x)
    BY <1>1, <1>6, <1>10 DEF Blocking!R!Radio!FeedEstablished, Radio!FeedEstablished
  <1>13. \A c, x : Blocking!R!Radio!FeedPlainHello(c, x) = Radio!FeedPlainHello(c, x)
    BY <1>1, <1>3 DEF Blocking!R!Radio!FeedPlainHello, Radio!FeedPlainHello,
           Blocking!R!Radio!H!FeedPlainHello, Radio!H!FeedPlainHello
  <1>14. \A c, x : Blocking!R!Radio!FeedConn(c, x) = Radio!FeedConn(c, x)
    BY <1>2, <1>7, <1>11, <1>12, <1>13 DEF Blocking!R!Radio!FeedConn,
           Blocking!R!Radio!FeedGreeting, Blocking!R!Radio!FeedReady,
           Blocking!R!Radio!FeedPlainReady, Radio!FeedConn, Radio!FeedGreeting,
           Radio!FeedReady, Radio!FeedPlainReady
  <1>15. \A c, g : Blocking!R!Radio!PublishHeaders(c, g) = Radio!PublishHeaders(c, g)
    BY <1>6, <1>7 DEF Blocking!R!Radio!PublishHeaders, Blocking!R!Radio!G!MatchesGroup,
           Blocking!R!Radio!G!Stored, Radio!PublishHeaders, Radio!G!MatchesGroup,
           Radio!G!Stored
  <1> QED
    BY <1>14, <1>15

\* The encoders drain_buffer calls are the same for both drivers.
LEMMA SameAnswers == \A c, ws : R!Answers(c, ws) = Answers(c, ws)
  <1>1. \A c, what : R!Encode(c, what) = Encode(c, what)
    BY SMT DEF R!Encode, R!WriteReady, R!MayWriteReady, R!WriteWelcome, R!WritePong, R!Ok,
           R!Err, Encode, WriteReady, MayWriteReady, WriteWelcome, WritePong, Ok, Err
  <1>2. \A acc, what : R!Answer(acc, what) = Answer(acc, what)
    BY <1>1 DEF R!Answer, R!Item, Answer, Item
  <1> QED
    BY <1>2 DEF R!Answers, Answers

\* The steps of the async RADIO driver are those of the loop.
LEMMA SameSteps ==
    /\ R!AsyncPeerSend <=> AsyncPeerSend
    /\ R!PeerReads <=> PeerReads
    /\ R!New <=> AsyncConstruct
    /\ R!Poll <=> AsyncBeginPoll
    /\ \A n : R!Read(n) <=> AsyncReceive(n)
    /\ R!ReadFails <=> AsyncReceiveFails
    /\ R!CancelRead <=> CancelRead
    /\ \A r, t : R!AsyncWriteMessage(r, t) <=> AsyncWriteMessage(r, t)
  <1>1. R!AsyncPeerSend <=> AsyncPeerSend
    BY DEF R!AsyncPeerSend, R!PeerSend, AsyncPeerSend, PeerSend
  <1>2. R!PeerReads <=> PeerReads
    BY DEF R!PeerReads, R!loopVars, PeerReads, loopVars
  <1>3. R!WriteGreeting(conn, TRUE) = WriteGreeting(conn, TRUE)
    BY DEF R!WriteGreeting, R!Ok, R!Err, WriteGreeting, Ok, Err
  <1>4. R!WriteReady(conn, TRUE) = WriteReady(conn, TRUE)
    BY DEF R!WriteReady, R!MayWriteReady, R!Ok, R!Err, WriteReady, MayWriteReady, Ok, Err
  <1>5. \A s, what, arg : R!JobOf(s, what, arg) = JobOf(s, what, arg)
    BY DEF R!JobOf, R!Job, R!Item, JobOf, Job, Item
  <1>6. R!Suspended <=> Suspended
    BY DEF R!Suspended, R!NoJob, Suspended, NoJob
  <1>7. R!New <=> AsyncConstruct
    BY <1>3, <1>5, <1>6 DEF R!New, R!AsyncConstruct, AsyncConstruct
  <1>8. R!Poll <=> AsyncBeginPoll
    BY <1>4, <1>5, <1>6 DEF R!Poll, R!AsyncBeginPoll, R!OwesReady, AsyncBeginPoll, OwesReady
  <1>9. R!Readable = Readable
    BY DEF R!Readable, R!SmallerOf, Readable, SmallerOf
  <1>10. \A n : R!Read(n) <=> AsyncReceive(n)
    BY <1>9 DEF R!Read, R!AsyncReceive, R!Receive, AsyncReceive, Receive
  <1>11. R!ReadFails <=> AsyncReceiveFails
    BY <1>9 DEF R!ReadFails, R!AsyncReceiveFails, R!ReceiveFails, R!Return, R!ReturnAfter,
           AsyncReceiveFails, ReceiveFails, Return, ReturnAfter
  <1>12. R!CancelRead <=> CancelRead
    BY DEF R!CancelRead, R!Return, R!ReturnAfter, CancelRead, Return, ReturnAfter
  <1>13. \A r, t : R!AsyncWriteMessage(r, t) <=> AsyncWriteMessage(r, t)
    BY <1>5, <1>6 DEF R!AsyncWriteMessage, AsyncWriteMessage
  <1> QED
    BY <1>1, <1>2, <1>7, <1>8, <1>10, <1>11, <1>12, <1>13

\* And so are its passes and its writes.
LEMMA SamePasses ==
    /\ R!Offered = Offered /\ R!Readable = Readable
    /\ \A r, ws, p : R!AsyncDrainPass(r, ws, p) <=> AsyncDrainPass(r, ws, p)
    /\ \A r : R!AsyncDrainPassErr(r) <=> AsyncDrainPassErr(r)
    /\ \A p : R!WriteDone(p) <=> WriteDone(p)
    /\ R!WriteFails <=> WriteFails
    /\ R!CancelWrite <=> CancelWrite
  <1>1. R!Offered = Offered /\ R!Readable = Readable
    BY DEF R!Offered, R!Readable, R!SmallerOf, Offered, Readable, SmallerOf
  <1>2. R!Suspended <=> Suspended
    BY DEF R!Suspended, R!NoJob, Suspended, NoJob
  <1>3. R!Draining <=> Draining
    BY DEF R!Draining, Draining
  <1>4. \A s, i, rest, k, b : R!Job(s, i, rest, k, b) = Job(s, i, rest, k, b)
    BY DEF R!Job, Job
  <1>5. \A s, what, arg : R!JobOf(s, what, arg) = JobOf(s, what, arg)
    BY DEF R!JobOf, R!Job, R!Item, JobOf, Job, Item
  <1>6. \A ws, k : R!Breaks(ws, k) = Breaks(ws, k)
    BY DEF R!Breaks, Breaks
  <1>7. \A k, b, p : R!Advance(k, b, p) <=> Advance(k, b, p)
    BY DEF R!Advance, R!Compact, Advance, Compact
  <1>8. \A r, ws, p : R!AsyncDrainPass(r, ws, p) <=> AsyncDrainPass(r, ws, p)
    BY SameAnswers, <1>2, <1>3, <1>4, <1>6, <1>7 DEF R!AsyncDrainPass, AsyncDrainPass
  <1>9. \A r : R!AsyncDrainPassErr(r) <=> AsyncDrainPassErr(r)
    BY <1>2, <1>3, <1>5 DEF R!AsyncDrainPassErr, R!Return, R!ReturnAfter, AsyncDrainPassErr,
           Return, ReturnAfter
  <1>10. \A kind, w : R!ReturnAfter(kind, w) <=> ReturnAfter(kind, w)
    BY DEF R!ReturnAfter, ReturnAfter
  <1>11. \A p : R!WriteDone(p) <=> WriteDone(p)
    BY SameAnswers, <1>2, <1>7, <1>10 DEF R!WriteDone, R!NoJob, R!WorkBefore, R!Answered,
           WriteDone, NoJob, WorkBefore, Answered
  <1>12. R!WriteEnds <=> WriteEnds
    BY <1>2, <1>10 DEF R!WriteEnds, R!EndCall, R!WorkBefore, R!NoJob, R!Cut, R!Item,
           WriteEnds, EndCall, WorkBefore, NoJob, Cut, Item
  <1> QED
    BY <1>1, <1>8, <1>9, <1>11, <1>12 DEF R!WriteFails, WriteFails, R!CancelWrite, CancelWrite

-----------------------------------------------------------------------------
(* When a step is one of the blocking driver, of either kind *)

WritesFail == WRITES_FAIL \/ "write" \in CANCELS
ReadsFail == READS_FAIL \/ "read" \in CANCELS

\* What a write of one item that fails may leave.
LEMMA FailingHas ==
    \A e : /\ {<<>>, <<Cut>>} \subseteq Blocking!Failing(<<e>>)
           /\ {<<>>, <<Cut>>} \subseteq Blocking!R!Failing(<<e>>)
  <1> SUFFICES ASSUME NEW e
               PROVE  /\ {<<>>, <<Cut>>} \subseteq Blocking!Failing(<<e>>)
                      /\ {<<>>, <<Cut>>} \subseteq Blocking!R!Failing(<<e>>)
    OBVIOUS
  <1> DEFINE s == <<e>>
             F(k, c) == SubSeq(s, 1, k) \o c
             K == 0 .. Len(s) - 1
             C == {<<>>, <<Cut>>}
  <1>1. 0 \in K /\ SubSeq(s, 1, 0) = <<>>
    <2>1. s \in Seq({e}) /\ Len(s) = 1
      OBVIOUS
    <2> QED
      BY <2>1
  <1>2. F(0, <<>>) = <<>> /\ F(0, <<Cut>>) = <<Cut>>
    <2>1. <<>> \o <<>> = <<>>
      OBVIOUS
    <2>2. \A z : <<>> \o <<z>> = <<z>>
      OBVIOUS
    <2> QED
      BY <1>1, <2>1, <2>2, Zenon
  <1>3. Blocking!Cut = Cut /\ Blocking!R!Cut = Cut
    BY DEF Blocking!Cut, Blocking!Item, Blocking!R!Cut, Blocking!R!Item, Cut, Item
  <1>4. Blocking!Failing(s) = {F(k, c) : k \in K, c \in C}
    BY <1>3 DEF Blocking!Failing
  <1>5. Blocking!R!Failing(s) = {F(k, c) : k \in K, c \in C}
    BY <1>3 DEF Blocking!R!Failing
  <1>6. 0 \in K
    BY <1>1
  <1> HIDE DEF F, K
  <1> QED
    BY <1>2, <1>4, <1>5, <1>6

\* The encoders of the blocking drivers.
LEMMA SameEncoders ==
    /\ \A c : /\ Blocking!WriteGreeting(c, TRUE) = WriteGreeting(c, TRUE)
              /\ Blocking!R!WriteGreeting(c, TRUE) = WriteGreeting(c, TRUE)
    /\ \A c : /\ Blocking!WriteReady(c, TRUE) = WriteReady(c, TRUE)
              /\ Blocking!R!WriteReady(c, TRUE) = WriteReady(c, TRUE)
    /\ \A c, ws : Blocking!Answers(c, ws) = Answers(c, ws) /\ Blocking!R!Answers(c, ws) = Answers(c, ws)
    /\ \A w, arg : Blocking!Item(w, arg) = Item(w, arg) /\ Blocking!R!Item(w, arg) = Item(w, arg)
  <1>1. \A c : /\ Blocking!WriteGreeting(c, TRUE) = WriteGreeting(c, TRUE)
               /\ Blocking!R!WriteGreeting(c, TRUE) = WriteGreeting(c, TRUE)
    BY DEF Blocking!WriteGreeting, Blocking!R!WriteGreeting, WriteGreeting, Blocking!Ok, Blocking!Err,
           Blocking!R!Ok, Blocking!R!Err, Ok, Err
  <1>2. \A c : /\ Blocking!WriteReady(c, TRUE) = WriteReady(c, TRUE)
               /\ Blocking!R!WriteReady(c, TRUE) = WriteReady(c, TRUE)
    BY DEF Blocking!WriteReady, Blocking!R!WriteReady, WriteReady, Blocking!Ok, Blocking!Err,
           Blocking!R!Ok, Blocking!R!Err, Ok, Err,
           Blocking!MayWriteReady, Blocking!R!MayWriteReady, MayWriteReady
  <1>3. \A c, what : Blocking!Encode(c, what) = Encode(c, what)
    BY SMT DEF Blocking!Encode, Blocking!WriteReady, Blocking!MayWriteReady, Blocking!WriteWelcome,
           Blocking!WritePong, Blocking!Ok, Blocking!Err, Encode, WriteReady, MayWriteReady,
           WriteWelcome, WritePong, Ok, Err
  <1>4. \A c, what : Blocking!R!Encode(c, what) = Encode(c, what)
    BY SMT DEF Blocking!R!Encode, Blocking!R!WriteReady, Blocking!R!MayWriteReady,
           Blocking!R!WriteWelcome, Blocking!R!WritePong, Blocking!R!Ok, Blocking!R!Err,
           Encode, WriteReady, MayWriteReady, WriteWelcome, WritePong, Ok, Err
  <1>5. \A acc, what : Blocking!Answer(acc, what) = Answer(acc, what)
    BY <1>3 DEF Blocking!Answer, Blocking!Item, Answer, Item
  <1>6. \A acc, what : Blocking!R!Answer(acc, what) = Answer(acc, what)
    BY <1>4 DEF Blocking!R!Answer, Blocking!R!Item, Answer, Item
  <1>7. \A c, ws : Blocking!Answers(c, ws) = Answers(c, ws) /\ Blocking!R!Answers(c, ws) = Answers(c, ws)
    BY <1>5, <1>6 DEF Blocking!Answers, Blocking!R!Answers, Answers
  <1>8. \A w, arg : Blocking!Item(w, arg) = Item(w, arg) /\ Blocking!R!Item(w, arg) = Item(w, arg)
    BY DEF Blocking!Item, Blocking!R!Item, Item
  <1> QED
    BY <1>1, <1>2, <1>7, <1>8

\* The caller's decision is the same, by what the blocking driver has done.
LEMMA SameReturns ==
    ASSUME NEW kind, ReturnAfter(kind, Len(ShownOut) + Len(fed))
    PROVE  Blocking!Return(kind) /\ Blocking!R!Return(kind)
  BY DEF ReturnAfter, Blocking!Return, Blocking!ReturnAfter, Blocking!R!Return, Blocking!R!ReturnAfter

\* The peer sends.
LEMMA BlockingSend ==
    ASSUME PeerSend, UNCHANGED <<ShownConn, ShownOut>>
    PROVE  Blocking!EitherNext
  <1>1. Blocking!PeerSend
    BY DEF PeerSend, Blocking!PeerSend
  <1>2. Blocking!R!PeerSend
    BY DEF PeerSend, Blocking!R!PeerSend
  <1> QED
    BY <1>1, <1>2, Zenon DEF Blocking!EitherNext, Blocking!Next, Blocking!R!Next

\* The constructor, whose write may fail.
LEMMA BlockingNew ==
    ASSUME pc = "new", ShownConn' = WriteGreeting(ShownConn, TRUE).conn,
           \/ pc' = "idle" /\ ShownOut' = <<Item("GREETING", <<>>)>>
           \/ WritesFail /\ pc' = "closed" /\ ShownOut' \in {<<>>, <<Cut>>},
           UNCHANGED <<rx, tc, wire, psent, net, fed>>
    PROVE  Blocking!EitherNext
  <1>1. Blocking!New
    BY FailingHas, SameEncoders DEF Blocking!New, Blocking!Construct, WritesFail
  <1>2. Blocking!R!New
    BY FailingHas, SameEncoders DEF Blocking!R!New, Blocking!R!Construct, WritesFail
  <1> QED
    BY <1>1, <1>2, Zenon DEF Blocking!EitherNext, Blocking!Next, Blocking!R!Next

\* The beginning of poll, when READY is owed.
LEMMA BlockingPollOwing ==
    ASSUME pc = "idle", ShownConn.state = "Ready", WriteReady(ShownConn, TRUE).res = "Ok",
           ShownConn' = WriteReady(ShownConn, TRUE).conn, tc' = 0,
           \/ ShownOut' = Append(ShownOut, Item("READY", <<>>)) /\ pc' = "idle"
           \/ /\ WritesFail /\ \E o \in {<<>>, <<Cut>>} : ShownOut' = ShownOut \o o
              /\ ReturnAfter("write", Len(ShownOut) + Len(fed)),
           UNCHANGED <<rx, wire, psent, net, fed>>
    PROVE  Blocking!EitherNext
  <1>1. Blocking!Poll
    BY FailingHas, SameEncoders, SameReturns
       DEF Blocking!Poll, Blocking!BeginPoll, Blocking!OwesReady, WritesFail
  <1>2. Blocking!R!Poll
    BY FailingHas, SameEncoders, SameReturns
       DEF Blocking!R!Poll, Blocking!R!BeginPoll, Blocking!R!OwesReady, WritesFail
  <1> QED
    BY <1>1, <1>2, Zenon DEF Blocking!EitherNext, Blocking!Next, Blocking!R!Next

\* And when it is not.
LEMMA BlockingPoll ==
    ASSUME pc = "idle", ~(ShownConn.state = "Ready" /\ WriteReady(ShownConn, TRUE).res = "Ok"),
           pc' = IF rx # <<>> THEN "drain1" ELSE "read", tc' = 0,
           UNCHANGED <<ShownConn, ShownOut, rx, wire, psent, net, fed>>
    PROVE  Blocking!EitherNext
  <1>1. Blocking!Poll
    BY SameEncoders DEF Blocking!Poll, Blocking!BeginPoll, Blocking!OwesReady
  <1>2. Blocking!R!Poll
    BY SameEncoders DEF Blocking!R!Poll, Blocking!R!BeginPoll, Blocking!R!OwesReady
  <1> QED
    BY <1>1, <1>2, Zenon DEF Blocking!EitherNext, Blocking!Next, Blocking!R!Next

\* A read.
LEMMA BlockingRead ==
    ASSUME NEW n, Receive(n), UNCHANGED <<ShownConn, ShownOut>>
    PROVE  Blocking!EitherNext
  <1>1. n \in 1 .. Readable /\ Blocking!Readable = Readable /\ Blocking!R!Readable = Readable
    BY DEF Receive, Blocking!Readable, Blocking!SmallerOf, Blocking!R!Readable, Blocking!R!SmallerOf,
           Readable, SmallerOf
  <1>2. Blocking!Read(n)
    BY <1>1 DEF Receive, Blocking!Read, Blocking!Receive
  <1>3. Blocking!R!Read(n)
    BY <1>1 DEF Receive, Blocking!R!Read, Blocking!R!Receive
  <1> QED
    BY <1>1, <1>2, <1>3, Zenon DEF Blocking!EitherNext, Blocking!Next, Blocking!R!Next

\* A read that fails.
LEMMA BlockingReadFails ==
    ASSUME pc = "read", Readable = 0 \/ ReadsFail, ReturnAfter("read", Len(ShownOut) + Len(fed)),
           UNCHANGED <<ShownConn, rx, tc, wire, psent, net, ShownOut, fed>>
    PROVE  Blocking!EitherNext
  <1>1. Blocking!Readable = Readable /\ Blocking!R!Readable = Readable
    BY DEF Blocking!Readable, Blocking!SmallerOf, Blocking!R!Readable, Blocking!R!SmallerOf,
           Readable, SmallerOf
  <1>2. Blocking!ReadFails
    BY <1>1, SameReturns DEF Blocking!ReadFails, Blocking!ReceiveFails, ReadsFail
  <1>3. Blocking!R!ReadFails
    BY <1>1, SameReturns DEF Blocking!R!ReadFails, Blocking!R!ReceiveFails, ReadsFail
  <1> QED
    BY <1>2, <1>3, Zenon DEF Blocking!EitherNext, Blocking!Next, Blocking!R!Next

\* What feed, drain_buffer and publish_headers do for the connection c of
\* either kind, and what may be published to it.
IsRadioKind(c) == "group_table" \in DOMAIN c
FeedNow(c, x) == IF IsRadioKind(c) THEN Radio!FeedConn(c, x) ELSE FeedConn(c, x)
RepliesNow(c, d) == IF IsRadioKind(c) THEN R!Replies(c.state, d) ELSE Replies(c.state, d)
HeadersNow(c, t) == IF IsRadioKind(c) THEN Radio!PublishHeaders(c, t) ELSE PublishHeaders(c, t)
Messages(c) == IF IsRadioKind(c) THEN Groups ELSE Topics

\* The blocking drivers decide as the async ones do.
LEMMA SameDecisions ==
    /\ Blocking!IsRadio <=> IsRadioKind(ShownConn)
    /\ Blocking!Offered = Offered /\ Blocking!R!Offered = Offered
    /\ (Blocking!Draining <=> Draining) /\ (Blocking!R!Draining <=> Draining)
    /\ \A p, d : Blocking!Replies(p, d) = Replies(p, d) /\ Blocking!R!Replies(p, d) = R!Replies(p, d)
  <1>1. Blocking!IsRadio <=> IsRadioKind(ShownConn)
    BY DEF Blocking!IsRadio, IsRadioKind
  <1>2. Blocking!Offered = Offered /\ Blocking!R!Offered = Offered
    BY DEF Blocking!Offered, Blocking!R!Offered, Offered
  <1>3. (Blocking!Draining <=> Draining) /\ (Blocking!R!Draining <=> Draining)
    BY DEF Blocking!Draining, Blocking!R!Draining, Draining
  <1>4. \A p, d : Blocking!Replies(p, d) = Replies(p, d) /\ Blocking!R!Replies(p, d) = R!Replies(p, d)
    BY DEF Blocking!Replies, Blocking!R!Replies, Replies, R!Replies
  <1> QED
    BY <1>1, <1>2, <1>3, <1>4

\* What feed returns and drain_buffer writes for it is in the blocking driver
\* what it is here.
LEMMA SameFed ==
    ASSUME NEW r, r = FeedNow(ShownConn, Offered)
    PROVE  IF Blocking!IsRadio
           THEN /\ r \in {Blocking!R!Fed}
                /\ Blocking!R!Replies(ShownConn.state, r.conn) = RepliesNow(ShownConn, r.conn)
           ELSE /\ r \in {Blocking!Fed}
                /\ Blocking!Replies(ShownConn.state, r.conn) = RepliesNow(ShownConn, r.conn)
  <1>1. CASE Blocking!IsRadio
    <2>1. IsRadioKind(ShownConn) /\ Blocking!R!Offered = Offered
      BY <1>1, SameDecisions
    <2>2. r = Blocking!R!Radio!FeedConn(ShownConn, Blocking!R!Offered)
      BY <2>1, SameBlockingRadio DEF FeedNow
    <2>3. r = Blocking!R!Fed
      BY <2>2 DEF Blocking!R!Fed
    <2> QED
      BY <1>1, <2>1, <2>3, SameDecisions DEF RepliesNow
  <1>2. CASE ~Blocking!IsRadio
    <2>1. ~IsRadioKind(ShownConn) /\ Blocking!Offered = Offered
      BY <1>2, SameDecisions
    <2>2. r = Blocking!FeedConn(ShownConn, Blocking!Offered)
      BY <2>1, SamePub DEF FeedNow
    <2>3. r = Blocking!Fed
      BY <2>2 DEF Blocking!Fed
    <2> QED
      BY <1>2, <2>1, <2>3, SameDecisions DEF RepliesNow
  <1> QED
    BY <1>1, <1>2

\* A pass of drain_buffer.
LEMMA BlockingDrain ==
    ASSUME Draining, NEW r, r = FeedNow(ShownConn, Offered), r.res = "Ok",
           NEW ws, ws = RepliesNow(ShownConn, r.conn), NEW a, a = Answers(r.conn, ws), a.res = "Ok",
           ShownConn' = a.conn, ShownOut' = ShownOut \o a.items,
           fed' = fed \o SubSeq(rx, tc + 1, tc + r.n),
           IF Breaks(ws, r.n) THEN Compact(tc + r.n) /\ pc' = AfterDrain(tc + r.n)
           ELSE tc' = tc + r.n /\ UNCHANGED <<rx, pc>>,
           UNCHANGED <<wire, psent, net>>
    PROVE  Blocking!EitherNext
  <1>1. Blocking!DrainPass(r, ws)
    BY SameEncoders, SameDecisions DEF Blocking!DrainPass, Blocking!Breaks, Blocking!Compact,
           Blocking!AfterDrain, Breaks, Compact, AfterDrain
  <1>2. Blocking!R!DrainPass(r, ws)
    BY SameEncoders, SameDecisions DEF Blocking!R!DrainPass, Blocking!R!Breaks, Blocking!R!Compact,
           Blocking!R!AfterDrain, Breaks, Compact, AfterDrain
  <1>3. IF Blocking!IsRadio THEN Blocking!R!DrainOk ELSE Blocking!DrainOk
    BY <1>1, <1>2, SameFed DEF Blocking!DrainOk, Blocking!R!DrainOk
  <1> QED
    BY <1>3, Zenon DEF Blocking!EitherNext, Blocking!Next, Blocking!R!Next

\* A pass of drain_buffer of which the k-th write fails.
LEMMA BlockingDrainFails ==
    ASSUME Draining, NEW r, r = FeedNow(ShownConn, Offered), r.res = "Ok",
           NEW ws, ws = RepliesNow(ShownConn, r.conn), NEW k \in DOMAIN ws,
           NEW a, a = Answers(r.conn, SubSeq(ws, 1, k)), a.res = "Ok", Len(a.items) = k,
           NEW b, b = Answers(r.conn, SubSeq(ws, 1, k - 1)),
           ShownConn' = a.conn, NEW c \in {<<>>, <<Cut>>}, ShownOut' = ShownOut \o b.items \o c,
           fed' = fed \o SubSeq(rx, tc + 1, tc + r.n), WritesFail,
           ReturnAfter("write", Len(ShownOut) + Len(fed)), tc' = 0,
           UNCHANGED <<rx, wire, psent, net>>
    PROVE  Blocking!EitherNext
  <1>1. Blocking!Cut = Cut /\ Blocking!R!Cut = Cut
    BY DEF Blocking!Cut, Blocking!Item, Blocking!R!Cut, Blocking!R!Item, Cut, Item
  <1>2. Blocking!DrainPassWriteFails(r, ws)
    BY <1>1, SameEncoders, SameDecisions, SameReturns DEF Blocking!DrainPassWriteFails, WritesFail
  <1>3. Blocking!R!DrainPassWriteFails(r, ws)
    BY <1>1, SameEncoders, SameDecisions, SameReturns DEF Blocking!R!DrainPassWriteFails, WritesFail
  <1>4. IF Blocking!IsRadio THEN Blocking!R!DrainWriteFails ELSE Blocking!DrainWriteFails
    BY <1>2, <1>3, SameFed DEF Blocking!DrainWriteFails, Blocking!R!DrainWriteFails
  <1> QED
    BY <1>4, Zenon DEF Blocking!EitherNext, Blocking!Next, Blocking!R!Next

\* A pass in which feed fails.
LEMMA BlockingDrainErr ==
    ASSUME Draining, NEW r, r = FeedNow(ShownConn, Offered), r.res # "Ok", ShownConn' = r.conn,
           IF r.conn.state = "Failed"
           THEN \E o \in {<<Item("ERROR", <<>>)>>} \cup (IF WritesFail THEN {<<>>, <<Cut>>} ELSE {}) :
                   ShownOut' = ShownOut \o o
           ELSE ShownOut' = ShownOut,
           ReturnAfter("protocol", Len(ShownOut) + Len(fed)), tc' = 0,
           UNCHANGED <<rx, wire, psent, net, fed>>
    PROVE  Blocking!EitherNext
  <1>1. Blocking!DrainPassErr(r)
    BY FailingHas, SameEncoders, SameDecisions, SameReturns DEF Blocking!DrainPassErr, WritesFail
  <1>2. Blocking!R!DrainPassErr(r)
    BY FailingHas, SameEncoders, SameDecisions, SameReturns DEF Blocking!R!DrainPassErr, WritesFail
  <1>3. IF Blocking!IsRadio THEN Blocking!R!DrainErr ELSE Blocking!DrainErr
    BY <1>1, <1>2, SameFed DEF Blocking!DrainErr, Blocking!R!DrainErr
  <1> QED
    BY <1>3, Zenon DEF Blocking!EitherNext, Blocking!Next, Blocking!R!Next

\* A message is published.
LEMMA BlockingPublish ==
    ASSUME pc = "idle", NEW t \in Messages(ShownConn),
           HeadersNow(ShownConn, t).res = "Ok", HeadersNow(ShownConn, t).n = 1, Len(ShownOut) < MaxOut,
           \/ ShownOut' = Append(ShownOut, Item("MESSAGE", t)) /\ pc' = "idle"
           \/ /\ WritesFail /\ \E o \in {<<>>, <<Cut>>} : ShownOut' = ShownOut \o o
              /\ ReturnAfter("write", Len(ShownOut) + Len(fed)),
           UNCHANGED <<ShownConn, rx, tc, wire, psent, net, fed>>
    PROVE  Blocking!EitherNext
  <1>1. CASE Blocking!IsRadio
    <2>1. IsRadioKind(ShownConn)
      BY <1>1, SameDecisions
    <2>2. t \in Groups /\ HeadersNow(ShownConn, t) = Blocking!R!Radio!PublishHeaders(ShownConn, t)
      BY <2>1, SameBlockingRadio DEF Messages, HeadersNow
    <2>3. Blocking!R!PublishMessage(t)
      BY <2>2, FailingHas, SameEncoders, SameReturns
         DEF Blocking!R!PublishMessage, Blocking!R!WriteMessage, WritesFail
    <2> QED
      BY <1>1, <2>2, <2>3, Zenon DEF Blocking!EitherNext, Blocking!R!Next
  <1>2. CASE ~Blocking!IsRadio
    <2>1. ~IsRadioKind(ShownConn)
      BY <1>2, SameDecisions
    <2>2. t \in Topics /\ HeadersNow(ShownConn, t) = Blocking!PublishHeaders(ShownConn, t)
      BY <2>1, SamePub DEF Messages, HeadersNow
    <2>3. Blocking!PublishMessage(t)
      BY <2>2, FailingHas, SameEncoders, SameReturns
         DEF Blocking!PublishMessage, Blocking!WriteMessage, WritesFail
    <2> QED
      BY <1>2, <2>2, <2>3, Zenon DEF Blocking!EitherNext, Blocking!Next
  <1> QED
    BY <1>1, <1>2

-----------------------------------------------------------------------------
(* The connection of a driver *)

\* The types of socket whose READY establishes the connection c.
TypesOf(c) == IF IsRadioKind(c) THEN DishTypes ELSE PubTypes

\* What holds of it through everything that feed and the encoders do to it,
\* whether or not the caller goes on after an error.  A greeting that is
\* complete and was not accepted will not be accepted either.
ConnInv(c) ==
    /\ IsConn(c, Units)
    /\ DOMAIN c = ConnFields \cup {IF IsRadioKind(c) THEN "group_table" ELSE "sub_table"}
    /\ \E u \in Seq(Units), rej \in BOOLEAN : FedInv(c, u, rej, TypesOf(c))
    /\ c.state = "Greeting" /\ Len(c.greeting_buf) = GREETING_LEN =>
          ~ParseGreeting(c.mechanism, c.greeting_buf)

\* feed is that of HandshakeProofs, and keeps the kind of the connection.
LEMMA NowFeeds ==
    ASSUME NEW c, ConnInv(c), NEW x \in Seq(Units), NEW r, r = FeedNow(c, x)
    PROVE  FeedsTo(Units, c, x, r, TypesOf(c)) /\ DOMAIN r.conn = DOMAIN c
  <1>1. CASE IsRadioKind(c)
    <2>1. IsRadioConn(c, Units)
      BY <1>1 DEF ConnInv, IsRadioConn
    <2> QED
      BY <1>1, <2>1, RadioFeeds DEF FeedNow, TypesOf, GroupsFed
  <1>2. CASE ~IsRadioKind(c)
    <2>1. IsPub(c, Units)
      BY <1>2 DEF ConnInv, IsPub
    <2> QED
      BY <1>2, <2>1, PubFeeds DEF FeedNow, TypesOf, TableFed
  <1> QED
    BY <1>1, <1>2

\* feed_greeting on a connection whose greeting was sent consumes something of
\* what it accepts, and leaves no complete greeting behind that is valid.
LEMMA GreetingMoves ==
    ASSUME NEW c, ConnInv(c), c.our_greeting_sent, c.state = "Greeting",
           NEW x \in Seq(Units), NEW r, r = FeedGreeting(c, x)
    PROVE  /\ r.conn.state = "Greeting" /\ Len(r.conn.greeting_buf) = GREETING_LEN =>
                 ~ParseGreeting(r.conn.mechanism, r.conn.greeting_buf)
           /\ r.res = "Ok" /\ x # <<>> => r.n \in 1 .. Len(x)
           /\ r.conn.state \in {"Greeting", "Ready", "PlainHello"}
  <1> DEFINE b == c.greeting_buf
             n == SmallerOf(Len(x), GREETING_LEN - Len(b))
             w == b \o SubSeq(x, 1, n)
             c1 == [c EXCEPT !.greeting_buf = w]
             next == IF c.mechanism = "Null" THEN "Ready" ELSE "PlainHello"
             c2 == [c1 EXCEPT !.peer_version_minor = w[3].of.minor,
                              !.peer_greeting_received = TRUE,
                              !.state = IF c.our_greeting_sent THEN next ELSE @]
  <1>1. /\ Len(b) \in Nat /\ Len(b) <= 3 /\ Len(x) \in Nat /\ b \in Seq(Units)
        /\ x # <<>> => Len(x) # 0
    BY DEF ConnInv, IsConn, GREETING_LEN
  <1>2. n \in 0 .. Len(x) /\ (n = 0 => Len(x) = 0 \/ Len(b) = 3)
    BY <1>1 DEF SmallerOf, GREETING_LEN
  <1>3. /\ c1.state = "Greeting" /\ c1.greeting_buf = w /\ c1.mechanism = c.mechanism
        /\ c2.state = next
    BY DEF ConnInv, IsConn, ConnFields
  <1>4. \/ r = Err(c1, "GreetingError") /\ Len(b) < GREETING_PARTIAL_LEN /\ ~ParsePartialGreeting(w)
        \/ r = Ok(c1, n) /\ Len(w) < GREETING_LEN
        \/ r = Err(c1, "GreetingError") /\ ~ParseGreeting(c.mechanism, w)
        \/ r = Ok(c2, n) /\ ~(Len(w) < GREETING_LEN) /\ ParseGreeting(c.mechanism, w)
    BY DEF FeedGreeting
  <1>5. ~ParsePartialGreeting(w) => ~ParseGreeting(c.mechanism, w)
    BY DEF ParseGreeting
  <1>6. Len(w) = Len(b) + n
    BY <1>1, <1>2
  <1>7. Len(b) = 3 => ~ParseGreeting(c.mechanism, w)
    <2> SUFFICES ASSUME Len(b) = 3 PROVE ~ParseGreeting(c.mechanism, w)
      OBVIOUS
    <2>1. n = 0
      BY <1>1 DEF SmallerOf, GREETING_LEN
    <2>2. w = b
      BY <1>1, <2>1
    <2> QED
      BY <2>2 DEF ConnInv, GREETING_LEN
  <1>8. Len(b) # 3 /\ x # <<>> => n \in 1 .. Len(x)
    BY <1>1, <1>2
  <1>9. next \in {"Ready", "PlainHello"}
    OBVIOUS
  <1> HIDE DEF n, w, c1, c2, b, next
  <1>10. Len(w) < GREETING_LEN => Len(b) # 3
    <2>1. n \in Nat /\ Len(b) \in Nat
      BY <1>1, <1>2
    <2>2. Len(b) = 3 => ~(Len(b) + n < 3)
      BY <2>1
    <2> QED
      BY <1>6, <2>2 DEF GREETING_LEN
  <1>11. CASE r = Ok(c1, n) /\ Len(w) < GREETING_LEN
    <2>1. Len(w) # GREETING_LEN
      BY <1>1, <1>2, <1>6, <1>11 DEF GREETING_LEN
    <2> QED
      BY <1>3, <1>8, <1>10, <1>11, <2>1 DEF Ok
  <1>12. CASE r = Ok(c2, n) /\ ParseGreeting(c.mechanism, w)
    BY <1>3, <1>7, <1>8, <1>9, <1>12 DEF Ok
  <1>13. CASE r = Err(c1, "GreetingError") /\ ~ParseGreeting(c.mechanism, w)
    BY <1>3, <1>13 DEF Err
  <1> QED
    BY <1>4, <1>5, <1>11, <1>12, <1>13

\* feed on any connection whose greeting was sent.  What it accepts it consumes
\* at least in part, and only the states before lead to those that are answered.
LEMMA ConnFed ==
    ASSUME NEW c, ConnInv(c), c.our_greeting_sent, NEW x \in Seq(Units), NEW r, r = FeedNow(c, x)
    PROVE  /\ ConnInv(r.conn) /\ DOMAIN r.conn = DOMAIN c /\ KeepsFlags(c, r.conn)
           /\ r.res = "Ok" => r.n \in 0 .. Len(x)
           /\ r.res = "Ok" /\ x # <<>> => r.n \in 1 .. Len(x)
           /\ r.conn.state = "Ready" => c.state \in {"Greeting", "Ready"}
  <1>1. FeedsTo(Units, c, x, r, TypesOf(c)) /\ DOMAIN r.conn = DOMAIN c
    BY NowFeeds
  <1>2. PICK u \in Seq(Units), rej \in BOOLEAN : FedInv(c, u, rej, TypesOf(c))
    BY DEF ConnInv
  <1>3. IsConn(c, Units)
    BY DEF ConnInv
  <1>4. /\ IsConn(r.conn, Units) /\ FedBy(u, x, r) \in Seq(Units)
        /\ FedInv(r.conn, FedBy(u, x, r), RejectedBy(c, rej, r), TypesOf(c))
    BY <1>1, <1>2, <1>3, FeedInv
  <1>5. RejectedBy(c, rej, r) \in BOOLEAN
    BY DEF RejectedBy
  <1>6. KeepsFlags(c, r.conn)
    BY <1>1, <1>3, FeedKeepsFlags
  <1>7. r.res = "Ok" => r.n \in 0 .. Len(x)
    BY <1>1, <1>3, FeedCount
  <1>8. TypesOf(r.conn) = TypesOf(c) /\ (IsRadioKind(r.conn) <=> IsRadioKind(c))
    BY <1>1 DEF TypesOf, IsRadioKind
  <1> DEFINE Shut(d) == d.state = "Greeting" /\ Len(d.greeting_buf) = GREETING_LEN =>
                            ~ParseGreeting(d.mechanism, d.greeting_buf)
             Goal == /\ Shut(r.conn)
                     /\ r.res = "Ok" /\ x # <<>> => r.n \in 1 .. Len(x)
                     /\ r.conn.state = "Ready" => c.state \in {"Greeting", "Ready"}
  <1>9. Goal
    <2>1. CASE r.res = "WrongState" /\ r.conn = c
      BY <2>1 DEF ConnInv
    <2>2. CASE c.state = "Greeting" /\ r = FeedGreeting(c, x)
      BY <2>2, GreetingMoves
    <2>3. CASE c.state \notin {"Greeting", "Failed"} /\ (Idles(c, x, r) \/ Halves(c, x, r) \/ Spoils(c, x, r))
      <3>1. r.conn.state = c.state
        BY <2>3, <1>3 DEF Idles, Halves, Spoils, IsConn, ConnFields
      <3>2. r.res = "Ok" /\ x # <<>> => r.n = 1 /\ Len(x) = 1
        BY <2>3 DEF Idles, Halves, Spoils
      <3> QED
        BY <2>3, <3>1, <3>2
    <2>4. ASSUME NEW t, NEW g \in Seq(Units), Len(g) < FRAME_LEN, Completes(c, x, t, g),
                 c.state \notin {"Greeting", "Failed"},
                 TakesStep(c, t, r, TypesOf(c)) \/ EndsHere(c, t, r) \/ Applies(Units, c, t, r)
          PROVE  Goal
      <3>1. "state" \in DOMAIN t.conn
        BY <1>3, <2>4 DEF Completes, IsConn, ConnFields
      <3>2. r.conn.state \in {"PlainReady", "Established", "Failed"}
        BY <2>4, <3>1 DEF TakesStep, EndsHere, Applies, Restated, Handled
      <3>3. r.res = "Ok" => r.n = 2 - Len(g) /\ Len(x) >= r.n /\ Len(g) < 2 /\ Len(g) \in Nat
        BY <2>4 DEF Completes, FRAME_LEN, TakesStep, EndsHere, Applies
      <3>4. Len(x) \in Nat
        OBVIOUS
      <3>5. r.res = "Ok" => r.n \in 1 .. Len(x)
        BY <3>3, <3>4
      <3> QED
        BY <3>2, <3>5
    <2> HIDE DEF Goal
    <2> QED
      BY <1>1, <2>1, <2>2, <2>3, <2>4 DEF FeedsTo
  <1>10. ConnInv(r.conn)
    BY <1>1, <1>4, <1>5, <1>8, <1>9 DEF ConnInv
  <1> QED
    BY <1>1, <1>6, <1>7, <1>9, <1>10

\* What drain_buffer writes when feed succeeded, and that it can: nothing of it
\* has been written before.
Replying(d, ws) ==
    \/ ws = <<"READY">> /\ d.state = "Ready" /\ ~d.our_ready_sent
    \/ /\ ws = <<"WELCOME", "READY">> /\ d.state = "PlainReady" /\ d.mechanism = "Plain"
       /\ ~d.our_welcome_sent /\ ~d.our_ready_sent
    \/ ws = <<"PONG">>

\* What drain_buffer is to write has not been written.
LEMMA RepliesFit ==
    ASSUME NEW c, ConnInv(c), c.our_greeting_sent, NEW x \in Seq(Units), NEW r, r = FeedNow(c, x),
           NEW ws, ws = RepliesNow(c, r.conn)
    PROVE  Replying(r.conn, ws)
  <1>1. KeepsFlags(c, r.conn) /\ (r.conn.state = "Ready" => c.state \in {"Greeting", "Ready"})
    BY ConnFed
  <1>2. PICK u \in Seq(Units), rej \in BOOLEAN : FedInv(c, u, rej, TypesOf(c))
    BY DEF ConnInv
  <1>3. c.state = "Greeting" => ~c.our_ready_sent
    BY <1>2 DEF FedInv, Greets
  <1>4. c.state = "PlainHello" => c.mechanism = "Plain" /\ ~c.our_welcome_sent /\ ~c.our_ready_sent
    BY <1>2 DEF FedInv, Received
  <1>5. \/ ws = <<"READY">> /\ r.conn.state = "Ready" /\ c.state = "Greeting"
        \/ ws = <<"WELCOME", "READY">> /\ r.conn.state = "PlainReady" /\ c.state = "PlainHello"
        \/ ws = <<"PONG">>
    BY <1>1 DEF RepliesNow, Replies, R!Replies
  <1> QED
    BY <1>1, <1>3, <1>4, <1>5 DEF Replying, KeepsFlags

\* The encoders keep what holds of the connection.
LEMMA ConnEncoded ==
    ASSUME NEW c, ConnInv(c), NEW r,
           \/ r = WriteReady(c, TRUE) \/ r = WriteWelcome(c, TRUE) \/ r = WritePong(c, TRUE)
    PROVE  /\ ConnInv(r.conn) /\ DOMAIN r.conn = DOMAIN c
           /\ r.conn.our_greeting_sent = c.our_greeting_sent
  <1>1. PICK u \in Seq(Units), rej \in BOOLEAN : FedInv(c, u, rej, TypesOf(c))
    BY DEF ConnInv
  <1>2. IsConn(c, Units)
    BY DEF ConnInv
  <1>3. IsConn(r.conn, Units) /\ FedInv(r.conn, u, rej, TypesOf(c))
    BY <1>1, <1>2, WriteReadyInv, WriteWelcomeInv, WritePongInv
  <1>4. /\ DOMAIN r.conn = DOMAIN c /\ r.conn.our_greeting_sent = c.our_greeting_sent
        /\ r.conn.state = c.state /\ r.conn.mechanism = c.mechanism
        /\ r.conn.greeting_buf = c.greeting_buf
    BY <1>2 DEF WriteReady, WriteWelcome, WritePong, Ok, Err, IsConn, ConnFields
  <1>5. TypesOf(r.conn) = TypesOf(c) /\ (IsRadioKind(r.conn) <=> IsRadioKind(c))
    BY <1>4 DEF TypesOf, IsRadioKind
  <1> QED
    BY <1>1, <1>3, <1>4, <1>5 DEF ConnInv

\* A new connection, before and after its greeting is encoded.
Unused(c) == c.state = "Greeting" /\ c.our_greeting_sent = FALSE /\ c.greeting_buf = <<>>

\* The greeting is encoded once, on a new connection.
LEMMA ConnGreets ==
    ASSUME NEW c, ConnInv(c), Unused(c), NEW r, r = WriteGreeting(c, TRUE)
    PROVE  ConnInv(r.conn) /\ DOMAIN r.conn = DOMAIN c /\ r.conn.our_greeting_sent
  <1>1. PICK u \in Seq(Units), rej \in BOOLEAN : FedInv(c, u, rej, TypesOf(c))
    BY DEF ConnInv
  <1>2. IsConn(c, Units)
    BY DEF ConnInv
  <1>3. IsConn(r.conn, Units) /\ FedInv(r.conn, u, rej, TypesOf(c))
    BY <1>1, <1>2, WriteGreetingInv
  <1>4. /\ DOMAIN r.conn = DOMAIN c /\ r.conn.our_greeting_sent
        /\ r.conn.greeting_buf = <<>>
    BY <1>2 DEF Unused, WriteGreeting, Ok, Err, IsConn, ConnFields
  <1>5. TypesOf(r.conn) = TypesOf(c) /\ (IsRadioKind(r.conn) <=> IsRadioKind(c))
    BY <1>4 DEF TypesOf, IsRadioKind
  <1>6. Len(r.conn.greeting_buf) # GREETING_LEN
    <2>1. Len(<<>>) # 3
      OBVIOUS
    <2> QED
      BY <1>4, <2>1, Zenon DEF GREETING_LEN
  <1> QED
    BY <1>1, <1>3, <1>4, <1>5, <1>6 DEF ConnInv

-----------------------------------------------------------------------------
(* The invariant *)

Items == [what : {"GREETING", "READY", "WELCOME", "ERROR", "PONG", "MESSAGE", "CUT"},
          arg  : Topics \cup Groups \cup Seq(ContextsOf(Units))]

JobFields == {"step", "item", "rest", "n", "breaks", "from"}

\* The suspended call j, with the connection c, the output o, the place p, the
\* buffer b and t units of it consumed: from what it began with, it has got as
\* far as the write of j.item.
NewJob(j, c, o, p) ==
    /\ j.step = "new" /\ p = "new" /\ j.rest = <<>> /\ o = j.from.out
    /\ j.item = Item("GREETING", <<>>)
    /\ c = WriteGreeting(j.from.conn, TRUE).conn /\ c.our_greeting_sent

PollJob(j, c, o, p) ==
    /\ j.step = "poll" /\ p = "idle" /\ j.rest = <<>> /\ o = j.from.out
    /\ j.item = Item("READY", <<>>)
    /\ j.from.conn.state = "Ready" /\ WriteReady(j.from.conn, TRUE).res = "Ok"
    /\ c = WriteReady(j.from.conn, TRUE).conn

PublishJob(j, c, o, p) ==
    /\ j.step = "publish" /\ p = "idle" /\ j.rest = <<>> /\ o = j.from.out /\ c = j.from.conn
    /\ Len(o) < MaxOut
    /\ \E t \in Messages(c) :
          j.item = Item("MESSAGE", t) /\ HeadersNow(c, t).res = "Ok" /\ HeadersNow(c, t).n = 1

ErrorJob(j, c, o, p, x) ==
    /\ j.step = "error" /\ p \in {"drain1", "drain2"} /\ j.rest = <<>> /\ o = j.from.out
    /\ j.item = Item("ERROR", <<>>)
    /\ FeedNow(j.from.conn, x).res # "Ok"
    /\ c = FeedNow(j.from.conn, x).conn /\ c.state = "Failed"

\* Which of the answers ws to the connection d is being written.
Midway(j, c, o, d, ws) ==
    \/ /\ ws = <<"READY">> /\ c = WriteReady(d, TRUE).conn /\ o = j.from.out
       /\ j.item = Item("READY", <<>>) /\ j.rest = <<>>
    \/ /\ ws = <<"PONG">> /\ d.pending_pong # <<>> /\ c = WritePong(d, TRUE).conn /\ o = j.from.out
       /\ j.item = Item("PONG", d.pending_pong) /\ j.rest = <<>>
    \/ /\ ws = <<"WELCOME", "READY">> /\ c = WriteWelcome(d, TRUE).conn /\ o = j.from.out
       /\ j.item = Item("WELCOME", <<>>) /\ j.rest = <<"READY">>
    \/ /\ ws = <<"WELCOME", "READY">>
       /\ c = WriteReady(WriteWelcome(d, TRUE).conn, TRUE).conn
       /\ o = Append(j.from.out, Item("WELCOME", <<>>))
       /\ j.item = Item("READY", <<>>) /\ j.rest = <<>>

BreaksAt(ws, n, b, t) == ws # <<"PONG">> \/ n = 0 \/ t + n = Len(b)

DrainJob(j, c, o, p, b, t, x) ==
    /\ j.step = "drain" /\ p \in {"drain1", "drain2"}
    /\ \E r, ws : /\ r = FeedNow(j.from.conn, x) /\ r.res = "Ok" /\ j.n = r.n
                  /\ ws = RepliesNow(j.from.conn, r.conn)
                  /\ j.breaks = BreaksAt(ws, r.n, b, t)
                  /\ Midway(j, c, o, r.conn, ws)

JobOk(j, c, o, p, b, t) ==
    LET x == SubSeq(b, t + 1, Len(b))
    IN  /\ j # NoJob /\ DOMAIN j = JobFields
        /\ ConnInv(j.from.conn) /\ DOMAIN j.from.conn = DOMAIN c
        /\ p # "new" => j.from.conn.our_greeting_sent
        /\ j.from.out \in Seq(Items) /\ j.item \in Items
        /\ \/ NewJob(j, c, o, p) \/ PollJob(j, c, o, p) \/ PublishJob(j, c, o, p)
           \/ ErrorJob(j, c, o, p, x) \/ DrainJob(j, c, o, p, b, t, x)

AsyncTypes ==
    /\ wire \in Seq(Units) /\ net \in Seq(Units) /\ rx \in Seq(Units) /\ fed \in Seq(Units)
    /\ psent \in Nat /\ out \in Seq(Items) /\ pc \in Places

Cursor == IF Draining THEN tc \in Nat /\ tc < Len(rx) ELSE tc = 0

Began ==
    /\ ConnInv(conn)
    /\ IF pc = "new" THEN out = <<>> /\ (job = NoJob => Unused(conn)) ELSE conn.our_greeting_sent

AInv == AsyncTypes /\ Cursor /\ Began /\ (job = NoJob \/ JobOk(job, conn, out, pc, rx, tc))

-----------------------------------------------------------------------------
(* One lemma for each action: it keeps the invariant, and is a step of the  *)
(* blocking driver or one that it does not see.                             *)

Implements == AInv' /\ (Blocking!EitherNext \/ UNCHANGED Blocking!vars)

\* What is shown.
LEMMA ShownFacts ==
    /\ job = NoJob => ShownConn = conn /\ ShownOut = out
    /\ job # NoJob => ShownConn = job.from.conn /\ ShownOut = job.from.out
    /\ job' = NoJob => ShownConn' = conn' /\ ShownOut' = out'
    /\ job' # NoJob => ShownConn' = job'.from.conn /\ ShownOut' = job'.from.out
    /\ UNCHANGED <<conn, out, job>> => UNCHANGED <<ShownConn, ShownOut>>
  BY DEF ShownConn, ShownOut, Suspended

\* A step the blocking driver does not see.
LEMMA Unseen ==
    ASSUME UNCHANGED <<ShownConn, rx, tc, pc, wire, psent, net, ShownOut, fed>>
    PROVE  UNCHANGED Blocking!vars
  BY DEF Blocking!vars, Blocking!loopVars

\* A call that is suspended in its first write.
Begins(j, s, item, rest, n, breaks, c, o) ==
    /\ j # NoJob /\ DOMAIN j = JobFields
    /\ j.step = s /\ j.item = item /\ j.rest = rest /\ j.n = n /\ j.breaks = breaks
    /\ j.from.conn = c /\ j.from.out = o

\* Job makes such a call of what it is given.
LEMMA JobIs ==
    ASSUME NEW s, s # "none", NEW item, NEW rest, NEW n, NEW breaks
    PROVE  Begins(Job(s, item, rest, n, breaks), s, item, rest, n, breaks, conn, out)
  <1> DEFINE j == Job(s, item, rest, n, breaks)
  <1>1. /\ DOMAIN j = JobFields
        /\ j.step = s /\ j.item = item /\ j.rest = rest /\ j.n = n /\ j.breaks = breaks
        /\ j.from.conn = conn /\ j.from.out = out
    BY DEF Job, JobFields
  <1>2. NoJob.step = "none"
    BY DEF NoJob
  <1> HIDE DEF j
  <1>3. Begins(j, s, item, rest, n, breaks, conn, out)
    BY <1>1, <1>2 DEF Begins
  <1> QED
    BY <1>3 DEF j

\* The items have their type.
LEMMA ItemTypes ==
    /\ \A what \in {"GREETING", "READY", "WELCOME", "ERROR", "CUT"} : Item(what, <<>>) \in Items
    /\ \A c, t : t \in Messages(c) => Item("MESSAGE", t) \in Items
    /\ \A arg \in Seq(ContextsOf(Units)) : Item("PONG", arg) \in Items
  <1>1. <<>> \in Seq(ContextsOf(Units))
    OBVIOUS
  <1>2. \A c, t : t \in Messages(c) => t \in Topics \cup Groups
    BY DEF Messages
  <1> QED
    BY <1>1, <1>2 DEF Item, Items

\* The peer sends, whatever the driver is doing.
LEMMA SendStep ==
    ASSUME AInv, AsyncPeerSend
    PROVE  Implements
  <1>1. PeerSend /\ UNCHANGED <<job, conn, out, rx, tc, pc, wire, fed>>
    BY DEF AsyncPeerSend, PeerSend
  <1>2. AInv'
    <2>1. net' \in Seq(Units) /\ psent' \in Nat
      <3>1. wire[psent + 1] \in Units
        BY <1>1 DEF PeerSend, AInv, AsyncTypes
      <3> QED
        BY <1>1, <3>1 DEF PeerSend, AInv, AsyncTypes
    <2> QED
      BY <1>1, <2>1 DEF AInv, AsyncTypes, Cursor, Draining, Began
  <1>3. Blocking!EitherNext
    BY <1>1, ShownFacts, BlockingSend
  <1> QED
    BY <1>2, <1>3 DEF Implements

\* The peer reads.
LEMMA PeerReadsStep ==
    ASSUME AInv, PeerReads
    PROVE  Implements
  <1>1. UNCHANGED <<conn, rx, tc, pc, wire, psent, net, out, fed, job>>
    BY DEF PeerReads, loopVars
  <1>2. AInv'
    BY <1>1 DEF AInv, AsyncTypes, Cursor, Draining, Began
  <1> QED
    BY <1>1, <1>2, ShownFacts, Unseen DEF Implements

\* The constructor, up to its write.
LEMMA ConstructStep ==
    ASSUME AInv, AsyncConstruct
    PROVE  Implements
  <1>1. /\ pc = "new" /\ job = NoJob /\ conn' = WriteGreeting(conn, TRUE).conn
        /\ job' = Job("new", Item("GREETING", <<>>), <<>>, 0, TRUE)
        /\ UNCHANGED <<rx, tc, pc, wire, psent, net, out, fed>>
    BY DEF AsyncConstruct, JobOf, Suspended
  <1>2. /\ job' # NoJob /\ DOMAIN job' = JobFields /\ job'.step = "new" /\ job'.rest = <<>>
        /\ job'.item = Item("GREETING", <<>>) /\ job'.from.conn = conn /\ job'.from.out = out
    <2>1. Begins(job', "new", Item("GREETING", <<>>), <<>>, 0, TRUE, conn, out)
      BY <1>1, JobIs
    <2> QED
      BY <2>1 DEF Begins
  <1>3. ConnInv(conn) /\ Unused(conn)
    BY <1>1 DEF AInv, Began
  <1>4. ConnInv(conn') /\ DOMAIN conn' = DOMAIN conn /\ conn'.our_greeting_sent
    BY <1>1, <1>3, ConnGreets
  <1>5. NewJob(job', conn', out', pc')
    BY <1>1, <1>2, <1>4 DEF NewJob
  <1>6. JobOk(job', conn', out', pc', rx', tc')
    BY <1>1, <1>2, <1>3, <1>4, <1>5, ItemTypes DEF JobOk, AInv, AsyncTypes
  <1>7. AInv'
    BY <1>1, <1>2, <1>4, <1>6 DEF AInv, AsyncTypes, Cursor, Draining, Began
  <1> QED
    BY <1>1, <1>2, <1>7, ShownFacts, Unseen DEF Implements

\* The beginning of poll.
LEMMA BeginPollStep ==
    ASSUME AInv, AsyncBeginPoll
    PROVE  Implements
  <1>1. /\ pc = "idle" /\ job = NoJob /\ tc' = 0 /\ tc = 0
        /\ UNCHANGED <<rx, wire, psent, net, out, fed>>
        /\ ConnInv(conn) /\ conn.our_greeting_sent
    BY DEF AsyncBeginPoll, Suspended, AInv, Cursor, Draining, Began
  <1>2. CASE OwesReady
    <2>1. /\ conn' = WriteReady(conn, TRUE).conn /\ pc' = pc
          /\ job' = Job("poll", Item("READY", <<>>), <<>>, 0, TRUE)
          /\ conn.state = "Ready" /\ WriteReady(conn, TRUE).res = "Ok"
      BY <1>2 DEF AsyncBeginPoll, JobOf, OwesReady
    <2>2. /\ job' # NoJob /\ DOMAIN job' = JobFields /\ job'.step = "poll" /\ job'.rest = <<>>
          /\ job'.item = Item("READY", <<>>) /\ job'.from.conn = conn /\ job'.from.out = out
      <3>1. Begins(job', "poll", Item("READY", <<>>), <<>>, 0, TRUE, conn, out)
        BY <2>1, JobIs
      <3> QED
        BY <3>1 DEF Begins
    <2>3. ConnInv(conn') /\ DOMAIN conn' = DOMAIN conn /\ conn'.our_greeting_sent
      BY <1>1, <2>1, ConnEncoded
    <2>4. PollJob(job', conn', out', pc')
      BY <1>1, <2>1, <2>2 DEF PollJob
    <2>5. JobOk(job', conn', out', pc', rx', tc')
      BY <1>1, <2>1, <2>2, <2>3, <2>4, ItemTypes DEF JobOk, AInv, AsyncTypes
    <2>6. AInv'
      BY <1>1, <2>1, <2>3, <2>5 DEF AInv, AsyncTypes, Cursor, Draining, Began
    <2>7. UNCHANGED <<ShownConn, ShownOut, tc, pc>>
      BY <1>1, <2>1, <2>2, ShownFacts
    <2> QED
      BY <1>1, <2>6, <2>7, Unseen DEF Implements
  <1>3. CASE ~OwesReady
    <2>1. /\ pc' = (IF rx # <<>> THEN "drain1" ELSE "read") /\ UNCHANGED <<conn, job>>
          /\ ~(conn.state = "Ready" /\ WriteReady(conn, TRUE).res = "Ok")
      BY <1>3 DEF AsyncBeginPoll, OwesReady
    <2>2. rx # <<>> => 0 < Len(rx)
      BY DEF AInv, AsyncTypes
    <2>3. Cursor' /\ pc' \in Places /\ pc' # "new"
      BY <1>1, <2>1, <2>2 DEF Cursor, Draining, Places
    <2>4. AInv'
      BY <1>1, <2>1, <2>3 DEF AInv, AsyncTypes, Began
    <2>5. Blocking!EitherNext
      BY <1>1, <2>1, ShownFacts, BlockingPoll
    <2> QED
      BY <2>4, <2>5 DEF Implements
  <1> QED
    BY <1>2, <1>3

\* No call is suspended in a write while poll reads.
LEMMA ReadingFacts ==
    ASSUME AInv, pc = "read"
    PROVE  /\ job = NoJob /\ tc = 0 /\ ConnInv(conn) /\ conn.our_greeting_sent
           /\ ShownConn = conn /\ ShownOut = out
  BY ShownFacts DEF AInv, Cursor, Draining, Began, JobOk, NewJob, PollJob, PublishJob, ErrorJob, DrainJob

\* A read.
LEMMA ReceiveStep ==
    ASSUME AInv, NEW n, AsyncReceive(n)
    PROVE  Implements
  <1>1. /\ Receive(n) /\ pc = "read" /\ pc' = "drain2" /\ tc' = 0 /\ n \in 1 .. Readable
        /\ rx' = rx \o SubSeq(net, 1, n) /\ net' = SubSeq(net, n + 1, Len(net))
        /\ UNCHANGED <<conn, wire, psent, out, fed, job>>
    BY DEF AsyncReceive, Receive
  <1>2. job = NoJob /\ ConnInv(conn) /\ conn.our_greeting_sent
    BY <1>1, ReadingFacts
  <1>3. /\ rx \in Seq(Units) /\ net \in Seq(Units) /\ Len(rx) \in Nat /\ Len(net) \in Nat
        /\ RX_CAP \in Nat
    BY DriverAssumption DEF AInv, AsyncTypes
  <1>4. n \in 1 .. Len(net)
    BY <1>1, <1>3 DEF Readable, SmallerOf
  <1>5. /\ SubSeq(net, 1, n) \in Seq(Units) /\ Len(SubSeq(net, 1, n)) = n
        /\ net' \in Seq(Units)
    BY <1>1, <1>3, <1>4
  <1>6. rx' \in Seq(Units) /\ 0 < Len(rx')
    BY <1>1, <1>3, <1>4, <1>5
  <1>7. AInv'
    BY <1>1, <1>2, <1>5, <1>6 DEF AInv, AsyncTypes, Cursor, Draining, Began, Places
  <1>8. Blocking!EitherNext
    BY <1>1, ShownFacts, BlockingRead
  <1> QED
    BY <1>7, <1>8 DEF Implements

\* Where an error takes the driver.
LEMMA ReturnPlaces ==
    ASSUME NEW kind, NEW work, ReturnAfter(kind, work)
    PROVE  pc' \in {"idle", "closed", "refused"} /\ pc' \in Places
  BY DEF ReturnAfter, Places

\* A read that fails, and one that is dropped.
LEMMA ReadEndsStep ==
    ASSUME AInv, AsyncReceiveFails \/ CancelRead
    PROVE  Implements
  <1>1. /\ pc = "read" /\ ReturnAfter("read", Len(out) + Len(fed)) /\ (Readable = 0 \/ ReadsFail)
        /\ UNCHANGED <<conn, rx, tc, wire, psent, net, out, fed, job>>
    BY DEF AsyncReceiveFails, ReceiveFails, CancelRead, Return, ReadsFail
  <1>2. job = NoJob /\ tc = 0 /\ ConnInv(conn) /\ conn.our_greeting_sent
    BY <1>1, ReadingFacts
  <1>3. ShownConn = conn /\ ShownOut = out /\ UNCHANGED <<ShownConn, ShownOut>>
    BY <1>1, <1>2, ShownFacts
  <1>4. pc' \in {"idle", "closed", "refused"} /\ pc' \in Places
    BY <1>1, ReturnPlaces
  <1>5. AInv'
    BY <1>1, <1>2, <1>4 DEF AInv, AsyncTypes, Cursor, Draining, Began
  <1>6. ReturnAfter("read", Len(ShownOut) + Len(fed))
    BY <1>1, <1>3
  <1>7. Blocking!EitherNext
    BY <1>1, <1>3, <1>6, BlockingReadFails
  <1> QED
    BY <1>5, <1>7 DEF Implements

-----------------------------------------------------------------------------
(* The answers of drain_buffer *)

\* Nothing answered, and one answer after another.
NoAnswer(d) == [conn |-> d, res |-> "Ok", items |-> <<>>]

\* drain_buffer has no answer, one or two.
LEMMA AnswersAre ==
    /\ \A d : Answers(d, <<>>) = NoAnswer(d)
    /\ \A d, w : Answers(d, <<w>>) = Answer(NoAnswer(d), w)
    /\ \A d, w, z : Answers(d, <<w, z>>) = Answer(Answer(NoAnswer(d), w), z)
  <1>1. ASSUME NEW d
        PROVE  Answers(d, <<>>) = NoAnswer(d)
    BY DEF Answers, NoAnswer
  <1>2. ASSUME NEW d, NEW w
        PROVE  Answers(d, <<w>>) = Answer(NoAnswer(d), w)
    <2>1. Len(<<w>>) = 1 /\ <<w>>[1] = w
      OBVIOUS
    <2> QED
      BY <2>1 DEF Answers, NoAnswer
  <1>3. ASSUME NEW d, NEW w, NEW z
        PROVE  Answers(d, <<w, z>>) = Answer(Answer(NoAnswer(d), w), z)
    <2>1. Len(<<w, z>>) = 2 /\ <<w, z>>[1] = w /\ <<w, z>>[2] = z
      OBVIOUS
    <2> QED
      BY <2>1 DEF Answers, NoAnswer
  <1> QED
    BY <1>1, <1>2, <1>3

\* The answers a are items, and leave the connection c.
Says(a, c, items) == a.conn = c /\ a.res = "Ok" /\ a.items = items

\* READY is said where it may be and has not been.
LEMMA ReadySaid ==
    ASSUME NEW c, ~c.our_ready_sent,
           c.state = "Ready" \/ (c.state = "PlainReady" /\ c.mechanism = "Plain" /\ c.our_welcome_sent)
    PROVE  Says(Answers(c, <<"READY">>), WriteReady(c, TRUE).conn, <<Item("READY", <<>>)>>)
  <1>1. WriteReady(c, TRUE).res = "Ok" /\ WriteReady(c, TRUE).n = 1
    BY DEF WriteReady, MayWriteReady, Ok
  <1>2. Encode(c, "READY") = WriteReady(c, TRUE)
    BY DEF Encode
  <1>3. \A e : Append(<<>>, e) = <<e>>
    OBVIOUS
  <1>4. NoAnswer(c).conn = c /\ NoAnswer(c).res = "Ok" /\ NoAnswer(c).items = <<>>
    BY DEF NoAnswer
  <1>5. Says(Answer(NoAnswer(c), "READY"), WriteReady(c, TRUE).conn, <<Item("READY", <<>>)>>)
    BY <1>1, <1>2, <1>3, <1>4 DEF Answer, Says
  <1> QED
    BY <1>5, AnswersAre

\* So is WELCOME.
LEMMA WelcomeSaid ==
    ASSUME NEW c, ~c.our_welcome_sent, c.state = "PlainReady"
    PROVE  Says(Answers(c, <<"WELCOME">>), WriteWelcome(c, TRUE).conn, <<Item("WELCOME", <<>>)>>)
  <1>1. WriteWelcome(c, TRUE).res = "Ok" /\ WriteWelcome(c, TRUE).n = 1
    BY DEF WriteWelcome, Ok
  <1>2. Encode(c, "WELCOME") = WriteWelcome(c, TRUE)
    BY DEF Encode
  <1>3. \A e : Append(<<>>, e) = <<e>>
    OBVIOUS
  <1>4. NoAnswer(c).conn = c /\ NoAnswer(c).res = "Ok" /\ NoAnswer(c).items = <<>>
    BY DEF NoAnswer
  <1>5. Says(Answer(NoAnswer(c), "WELCOME"), WriteWelcome(c, TRUE).conn, <<Item("WELCOME", <<>>)>>)
    BY <1>1, <1>2, <1>3, <1>4 DEF Answer, Says
  <1> QED
    BY <1>5, AnswersAre

\* PONG is said when it is owed.
LEMMA PongSaid ==
    ASSUME NEW c
    PROVE  Says(Answers(c, <<"PONG">>), WritePong(c, TRUE).conn,
                IF c.pending_pong = <<>> THEN <<>> ELSE <<Item("PONG", c.pending_pong)>>)
  <1> DEFINE r == WritePong(c, TRUE)
             acc == NoAnswer(c)
  <1>1. /\ r.res = "Ok"
        /\ c.pending_pong = <<>> => r.n = 0
        /\ c.pending_pong # <<>> => r.n = 1
    BY DEF WritePong, Ok
  <1>2. Encode(c, "PONG") = r
    BY DEF Encode
  <1>3. \A e : Append(<<>>, e) = <<e>>
    OBVIOUS
  <1>4. acc.conn = c /\ acc.res = "Ok" /\ acc.items = <<>>
    BY DEF NoAnswer
  <1> HIDE DEF r, acc
  <1>5. Says(Answer(acc, "PONG"), r.conn,
             IF c.pending_pong = <<>> THEN <<>> ELSE <<Item("PONG", c.pending_pong)>>)
    BY <1>1, <1>2, <1>3, <1>4 DEF Answer, Says
  <1>6. Answers(c, <<"PONG">>) = Answer(acc, "PONG")
    BY AnswersAre DEF acc
  <1> QED
    BY <1>5, <1>6 DEF r

\* The connection that has welcomed may say READY.
LEMMA Welcomed ==
    ASSUME NEW c, ConnInv(c), ~c.our_welcome_sent, ~c.our_ready_sent, c.state = "PlainReady",
           c.mechanism = "Plain", NEW d, d = WriteWelcome(c, TRUE).conn
    PROVE  d.state = "PlainReady" /\ d.mechanism = "Plain" /\ d.our_welcome_sent /\ ~d.our_ready_sent
  BY DEF ConnInv, IsConn, ConnFields, WriteWelcome, Ok

\* And then both.
LEMMA BothSaid ==
    ASSUME NEW c, ConnInv(c), ~c.our_welcome_sent, ~c.our_ready_sent, c.state = "PlainReady",
           c.mechanism = "Plain"
    PROVE  Says(Answers(c, <<"WELCOME", "READY">>), WriteReady(WriteWelcome(c, TRUE).conn, TRUE).conn,
                <<Item("WELCOME", <<>>), Item("READY", <<>>)>>)
  <1> DEFINE d == WriteWelcome(c, TRUE).conn
             acc == Answer(NoAnswer(c), "WELCOME")
  <1>1. Says(acc, d, <<Item("WELCOME", <<>>)>>)
    BY WelcomeSaid, AnswersAre
  <1>2. Answers(c, <<"WELCOME", "READY">>) = Answer(acc, "READY")
    BY AnswersAre
  <1>3. d.state = "PlainReady" /\ d.mechanism = "Plain" /\ d.our_welcome_sent /\ ~d.our_ready_sent
    BY Welcomed
  <1> HIDE DEF d, acc
  <1>4. WriteReady(d, TRUE).res = "Ok" /\ WriteReady(d, TRUE).n = 1
    BY <1>3 DEF WriteReady, MayWriteReady, Ok
  <1>5. Encode(d, "READY") = WriteReady(d, TRUE)
    BY DEF Encode
  <1>6. ASSUME NEW e, NEW f
        PROVE  Append(<<e>>, f) = <<e, f>>
    <2>1. <<e>> \in Seq({e, f}) /\ <<e, f>> \in Seq({e, f}) /\ Len(<<e>>) = 1 /\ Len(<<e, f>>) = 2
      OBVIOUS
    <2>2. Append(<<e>>, f) \in Seq({e, f}) /\ Len(Append(<<e>>, f)) = 2
      BY <2>1
    <2>3. Append(<<e>>, f)[1] = e /\ Append(<<e>>, f)[2] = f
      BY <2>1
    <2>4. <<e, f>>[1] = e /\ <<e, f>>[2] = f /\ \A i \in 1 .. 2 : i = 1 \/ i = 2
      OBVIOUS
    <2>5. \A i \in 1 .. Len(Append(<<e>>, f)) : Append(<<e>>, f)[i] = <<e, f>>[i]
      BY <2>2, <2>3, <2>4, Zenon
    <2> QED
      BY <2>1, <2>2, <2>5, SeqEqual, Zenon
  <1>7. Says(Answer(acc, "READY"), WriteReady(d, TRUE).conn, <<Item("WELCOME", <<>>), Item("READY", <<>>)>>)
    <2>1. acc.conn = d /\ acc.res = "Ok" /\ acc.items = <<Item("WELCOME", <<>>)>>
      BY <1>1 DEF Says
    <2>2. Answer(acc, "READY").conn = WriteReady(d, TRUE).conn /\ Answer(acc, "READY").res = "Ok"
      BY <1>4, <1>5, <2>1 DEF Answer
    <2>3. Answer(acc, "READY").items = Append(<<Item("WELCOME", <<>>)>>, Item("READY", <<>>))
      BY <1>4, <1>5, <2>1 DEF Answer
    <2> QED
      BY <1>6, <2>2, <2>3, Zenon DEF Says
  <1> QED
    BY <1>7, <1>2, Zenon DEF d

-----------------------------------------------------------------------------
(* The passes of drain_buffer *)

\* What feed does to the connection c when it is offered the rest of the buffer.
LEMMA PassFacts ==
    ASSUME AInv, Draining, NEW c, ConnInv(c), c.our_greeting_sent, NEW r, r = FeedNow(c, Offered)
    PROVE  /\ ConnInv(r.conn) /\ DOMAIN r.conn = DOMAIN c /\ r.conn.our_greeting_sent
           /\ Replying(r.conn, RepliesNow(c, r.conn))
           /\ r.res = "Ok" => /\ r.n \in 1 .. Len(rx) - tc
                              /\ fed \o SubSeq(rx, tc + 1, tc + r.n) \in Seq(Units)
                              /\ AfterDrain(tc + r.n) = "idle"
           /\ tc \in Nat /\ tc < Len(rx) /\ rx \in Seq(Units)
  <1>1. tc \in Nat /\ tc < Len(rx) /\ rx \in Seq(Units) /\ Len(rx) \in Nat /\ fed \in Seq(Units)
    BY DEF AInv, AsyncTypes, Cursor
  <1>2. Offered \in Seq(Units) /\ Len(Offered) = Len(rx) - tc
    BY <1>1 DEF Offered
  <1>3. Offered # <<>>
    BY <1>1, <1>2
  <1>4. /\ ConnInv(r.conn) /\ DOMAIN r.conn = DOMAIN c /\ KeepsFlags(c, r.conn)
        /\ r.res = "Ok" => r.n \in 1 .. Len(Offered)
    BY <1>2, <1>3, ConnFed
  <1>5. Replying(r.conn, RepliesNow(c, r.conn))
    BY <1>2, RepliesFit
  <1>6. r.conn.our_greeting_sent
    BY <1>4 DEF KeepsFlags
  <1>7. ASSUME r.res = "Ok"
        PROVE  /\ r.n \in 1 .. Len(rx) - tc
               /\ fed \o SubSeq(rx, tc + 1, tc + r.n) \in Seq(Units)
               /\ AfterDrain(tc + r.n) = "idle"
    <2>1. r.n \in 1 .. Len(rx) - tc
      BY <1>2, <1>4, <1>7
    <2>2. SubSeq(rx, tc + 1, tc + r.n) \in Seq(Units)
      BY <1>1, <2>1
    <2>3. tc + r.n # 0
      BY <1>1, <2>1
    <2> QED
      BY <1>1, <2>1, <2>2, <2>3 DEF AfterDrain
  <1> QED
    BY <1>1, <1>4, <1>5, <1>6, <1>7

\* The end of a pass that consumed n units.
LEMMA AdvanceFacts ==
    ASSUME AInv, Draining, NEW ws, NEW n \in 1 .. Len(rx) - tc, NEW breaks,
           breaks = Breaks(ws, n), Advance(n, breaks, "idle"), AfterDrain(tc + n) = "idle"
    PROVE  /\ rx' \in Seq(Units) /\ Cursor' /\ pc' \in Places /\ pc' # "new"
           /\ fed' = fed \o SubSeq(rx, tc + 1, tc + n)
           /\ IF Breaks(ws, n) THEN Compact(tc + n) /\ pc' = AfterDrain(tc + n)
              ELSE tc' = tc + n /\ UNCHANGED <<rx, pc>>
  <1>1. tc \in Nat /\ tc < Len(rx) /\ rx \in Seq(Units) /\ Len(rx) \in Nat /\ pc \in {"drain1", "drain2"}
    BY DEF AInv, AsyncTypes, Cursor, Draining
  <1>2. CASE Breaks(ws, n)
    <2>1. rx' = SubSeq(rx, tc + n + 1, Len(rx)) /\ tc' = 0 /\ pc' = "idle"
      BY <1>2 DEF Advance, Compact
    <2>2. rx' \in Seq(Units)
      BY <1>1, <2>1
    <2> QED
      BY <1>2, <2>1, <2>2 DEF Advance, Compact, Cursor, Draining, Places
  <1>3. CASE ~Breaks(ws, n)
    <2>1. tc' = tc + n /\ UNCHANGED <<rx, pc>> /\ tc + n # Len(rx)
      BY <1>3 DEF Advance, Breaks
    <2>2. tc + n \in Nat /\ tc + n < Len(rx)
      BY <1>1, <2>1
    <2> QED
      BY <1>1, <1>3, <2>1, <2>2 DEF Advance, Cursor, Draining, Places
  <1> QED
    BY <1>2, <1>3

\* A pair, its parts and what is left of it.
LEMMA TwoParts ==
    ASSUME NEW w, NEW z
    PROVE  Head(<<w, z>>) = w /\ Tail(<<w, z>>) = <<z>>
  <1>1. <<w, z>> \in Seq({w, z}) /\ <<z>> \in Seq({w, z}) /\ <<w, z>> # <<>>
    OBVIOUS
  <1>2. Len(<<w, z>>) = 2 /\ <<w, z>>[1] = w /\ <<w, z>>[2] = z /\ Len(<<z>>) = 1 /\ <<z>>[1] = z
    OBVIOUS
  <1>3. Tail(<<w, z>>) \in Seq({w, z}) /\ Len(Tail(<<w, z>>)) = 1 /\ Tail(<<w, z>>)[1] = z
    BY <1>1, <1>2
  <1>4. \A i \in 1 .. Len(Tail(<<w, z>>)) : Tail(<<w, z>>)[i] = <<z>>[i]
    <2>1. \A i \in 1 .. 1 : i = 1
      OBVIOUS
    <2> QED
      BY <1>2, <1>3, <2>1, Zenon
  <1>5. Tail(<<w, z>>) = <<z>>
    BY <1>1, <1>2, <1>3, <1>4, SeqEqual, Zenon
  <1> QED
    BY <1>1, <1>2, <1>5

\* Appending one item, and appending two.
LEMMA AppendedAre ==
    \A S : \A o \in Seq(S), e \in S :
        /\ Append(o, e) = o \o <<e>>
        /\ \A f \in S : Append(Append(o, e), f) = o \o <<e, f>>
  <1>1. ASSUME NEW S, NEW o \in Seq(S), NEW e \in S
        PROVE  Append(o, e) = o \o <<e>>
    OBVIOUS
  <1>2. ASSUME NEW S, NEW o \in Seq(S), NEW e \in S, NEW f \in S
        PROVE  Append(Append(o, e), f) = o \o <<e, f>>
    <2> DEFINE s == Append(Append(o, e), f)
               t == o \o <<e, f>>
    <2>1. <<e, f>> \in Seq(S) /\ Len(<<e, f>>) = 2 /\ <<e, f>>[1] = e /\ <<e, f>>[2] = f
      OBVIOUS
    <2>2. s \in Seq(S) /\ Len(s) = Len(o) + 2
      OBVIOUS
    <2>3. t \in Seq(S) /\ Len(t) = Len(o) + 2
      BY <2>1
    <2>4. ASSUME NEW i \in 1 .. Len(o) + 2
          PROVE  s[i] = t[i]
      <3>1. CASE i <= Len(o)
        BY <2>1, <3>1
      <3>2. CASE i = Len(o) + 1
        BY <2>1, <3>2
      <3>3. CASE i = Len(o) + 2
        BY <2>1, <3>3
      <3> QED
        BY <3>1, <3>2, <3>3
    <2> HIDE DEF s, t
    <2>5. s = t
      BY <2>2, <2>3, <2>4, SeqEqual, Zenon
    <2> QED
      BY <2>5 DEF s, t
  <1> QED
    BY <1>1, <1>2

\* A pass that is suspended in its first write.
LEMMA DrainBegins ==
    ASSUME AInv, Draining, job = NoJob, NEW r, r = FeedNow(conn, Offered), r.res = "Ok",
           NEW ws, ws = RepliesNow(conn, r.conn), NEW item \in Items, NEW rest,
           job' = Job("drain", item, rest, r.n, Breaks(ws, r.n)),
           Begins(job', "drain", item, rest, r.n, Breaks(ws, r.n), conn, out) =>
              Midway(job', conn', out, r.conn, ws),
           ConnInv(conn'), DOMAIN conn' = DOMAIN conn, conn'.our_greeting_sent,
           UNCHANGED <<rx, tc, pc, fed, wire, psent, net, out>>
    PROVE  Implements
  <1>1. Begins(job', "drain", item, rest, r.n, Breaks(ws, r.n), conn, out)
    BY JobIs
  <1>2. /\ job' # NoJob /\ DOMAIN job' = JobFields /\ job'.step = "drain" /\ job'.item = item
        /\ job'.n = r.n /\ job'.breaks = Breaks(ws, r.n)
        /\ job'.from.conn = conn /\ job'.from.out = out
    BY <1>1 DEF Begins
  <1>3. Midway(job', conn', out, r.conn, ws)
    BY <1>1
  <1>4. ConnInv(conn) /\ conn.our_greeting_sent /\ pc \in {"drain1", "drain2"} /\ out \in Seq(Items)
    BY DEF AInv, AsyncTypes, Began, Draining
  <1>5. Breaks(ws, r.n) = BreaksAt(ws, r.n, rx, tc)
    BY DEF Breaks, BreaksAt
  <1>6. DrainJob(job', conn', out, pc, rx, tc, Offered)
    BY <1>2, <1>3, <1>4, <1>5 DEF DrainJob
  <1>7. JobOk(job', conn', out, pc, rx, tc)
    BY <1>2, <1>4, <1>6 DEF JobOk, Offered
  <1>8. AInv'
    BY <1>4, <1>7 DEF AInv, AsyncTypes, Cursor, Draining, Began
  <1> QED
    BY <1>2, <1>8, ShownFacts, Unseen DEF Implements

\* A pass of drain_buffer, up to its first write or, without one, to its end.
LEMMA DrainPassStep ==
    ASSUME AInv, NEW r, r = FeedNow(conn, Offered), NEW ws, ws = RepliesNow(conn, r.conn),
           NEW place \in {"idle", AfterDrain(tc + r.n)}, AsyncDrainPass(r, ws, place)
    PROVE  Implements
  <1> DEFINE d == r.conn
             a == Answers(d, <<Head(ws)>>)
  <1>1. /\ Draining /\ job = NoJob /\ r.res = "Ok" /\ conn' = a.conn
        /\ UNCHANGED <<wire, psent, net, out>>
        /\ a.items = <<>> => Advance(r.n, Breaks(ws, r.n), place) /\ UNCHANGED job
        /\ a.items # <<>> => /\ job' = Job("drain", a.items[1], Tail(ws), r.n, Breaks(ws, r.n))
                             /\ UNCHANGED <<rx, tc, pc, fed>>
    BY DEF AsyncDrainPass, Suspended
  <1>2. ConnInv(conn) /\ conn.our_greeting_sent
    BY <1>1 DEF AInv, Began, Draining
  <1>3. /\ ConnInv(d) /\ DOMAIN d = DOMAIN conn /\ d.our_greeting_sent
        /\ Replying(d, ws)
        /\ r.n \in 1 .. Len(rx) - tc /\ fed \o SubSeq(rx, tc + 1, tc + r.n) \in Seq(Units)
        /\ AfterDrain(tc + r.n) = "idle"
    BY <1>1, <1>2, PassFacts
  <1>4. conn' = a.conn
    BY <1>1
  <1>5. ASSUME NEW e, e = WriteReady(d, TRUE) \/ e = WriteWelcome(d, TRUE) \/ e = WritePong(d, TRUE),
               a.conn = e.conn
        PROVE  ConnInv(conn') /\ DOMAIN conn' = DOMAIN conn /\ conn'.our_greeting_sent
    <2>1. ConnInv(e.conn) /\ DOMAIN e.conn = DOMAIN d /\ e.conn.our_greeting_sent = d.our_greeting_sent
      BY <1>3, <1>5, ConnEncoded
    <2>2. conn' = e.conn
      BY <1>4, <1>5
    <2> HIDE DEF a, d
    <2> QED
      BY <1>3, <2>1, <2>2
  <1>6. place = "idle"
    BY <1>3
  <1> HIDE DEF d, a
  <1>7. \A e : <<e>> # <<>> /\ <<e>>[1] = e
    OBVIOUS
  <1>8. CASE ws = <<"READY">> /\ d.state = "Ready" /\ ~d.our_ready_sent
    <2>1. Head(ws) = "READY" /\ Tail(ws) = <<>>
      BY <1>8
    <2>2. a.conn = WriteReady(d, TRUE).conn /\ a.items = <<Item("READY", <<>>)>>
      BY <1>8, <2>1, ReadySaid DEF Says, a
    <2>3. /\ job' = Job("drain", Item("READY", <<>>), <<>>, r.n, Breaks(ws, r.n))
          /\ UNCHANGED <<rx, tc, pc, fed>>
      BY <1>1, <1>7, <2>1, <2>2, Zenon
    <2>4. Begins(job', "drain", Item("READY", <<>>), <<>>, r.n, Breaks(ws, r.n), conn, out) =>
             Midway(job', conn', out, d, ws)
      BY <1>1, <1>8, <2>2 DEF Begins, Midway
    <2>5. ConnInv(conn') /\ DOMAIN conn' = DOMAIN conn /\ conn'.our_greeting_sent
      BY <1>5, <2>2
    <2>6. Item("READY", <<>>) \in Items
      BY ItemTypes
    <2> QED
      BY <1>1, <2>3, <2>4, <2>5, <2>6, DrainBegins DEF d
  <1>9. CASE /\ ws = <<"WELCOME", "READY">> /\ d.state = "PlainReady" /\ d.mechanism = "Plain"
             /\ ~d.our_welcome_sent /\ ~d.our_ready_sent
    <2>1. Head(ws) = "WELCOME" /\ Tail(ws) = <<"READY">>
      BY <1>9, TwoParts
    <2>2. a.conn = WriteWelcome(d, TRUE).conn /\ a.items = <<Item("WELCOME", <<>>)>>
      BY <1>9, <2>1, WelcomeSaid DEF Says, a
    <2>3. /\ job' = Job("drain", Item("WELCOME", <<>>), <<"READY">>, r.n, Breaks(ws, r.n))
          /\ UNCHANGED <<rx, tc, pc, fed>>
      BY <1>1, <1>7, <2>1, <2>2, Zenon
    <2>4. Begins(job', "drain", Item("WELCOME", <<>>), <<"READY">>, r.n, Breaks(ws, r.n), conn, out) =>
             Midway(job', conn', out, d, ws)
      BY <1>1, <1>9, <2>2 DEF Begins, Midway
    <2>5. ConnInv(conn') /\ DOMAIN conn' = DOMAIN conn /\ conn'.our_greeting_sent
      BY <1>5, <2>2
    <2>6. Item("WELCOME", <<>>) \in Items
      BY ItemTypes
    <2> QED
      BY <1>1, <2>3, <2>4, <2>5, <2>6, DrainBegins DEF d
  <1>10. CASE ws = <<"PONG">> /\ d.pending_pong # <<>>
    <2>1. Head(ws) = "PONG" /\ Tail(ws) = <<>>
      BY <1>10
    <2>2. a.conn = WritePong(d, TRUE).conn /\ a.items = <<Item("PONG", d.pending_pong)>>
      BY <1>10, <2>1, PongSaid DEF Says, a
    <2>3. /\ job' = Job("drain", Item("PONG", d.pending_pong), <<>>, r.n, Breaks(ws, r.n))
          /\ UNCHANGED <<rx, tc, pc, fed>>
      BY <1>1, <1>7, <2>1, <2>2, Zenon
    <2>4. Begins(job', "drain", Item("PONG", d.pending_pong), <<>>, r.n, Breaks(ws, r.n), conn, out) =>
             Midway(job', conn', out, d, ws)
      BY <1>1, <1>10, <2>2 DEF Begins, Midway
    <2>5. ConnInv(conn') /\ DOMAIN conn' = DOMAIN conn /\ conn'.our_greeting_sent
      BY <1>5, <2>2
    <2>6. Item("PONG", d.pending_pong) \in Items
      BY <1>3, ItemTypes DEF ConnInv, IsConn
    <2> QED
      BY <1>1, <2>3, <2>4, <2>5, <2>6, DrainBegins DEF d
  <1>11. CASE ws = <<"PONG">> /\ d.pending_pong = <<>>
    <2>1. Head(ws) = "PONG" /\ <<Head(ws)>> = ws
      BY <1>11
    <2>2. a.conn = WritePong(d, TRUE).conn /\ a.items = <<>> /\ a.res = "Ok"
      BY <1>11, <2>1, PongSaid DEF Says, a
    <2>3. a = Answers(d, ws)
      BY <2>1, Zenon DEF a
    <2>4. ConnInv(conn') /\ DOMAIN conn' = DOMAIN conn /\ conn'.our_greeting_sent
      BY <1>5, <2>2
    <2>5. Advance(r.n, Breaks(ws, r.n), "idle") /\ job' = NoJob
      BY <1>1, <1>6, <2>2
    <2>6. /\ rx' \in Seq(Units) /\ Cursor' /\ pc' \in Places /\ pc' # "new"
          /\ fed' = fed \o SubSeq(rx, tc + 1, tc + r.n)
          /\ IF Breaks(ws, r.n) THEN Compact(tc + r.n) /\ pc' = AfterDrain(tc + r.n)
             ELSE tc' = tc + r.n /\ UNCHANGED <<rx, pc>>
      BY <1>1, <1>3, <2>5, AdvanceFacts
    <2>7. AInv'
      BY <1>1, <1>3, <2>4, <2>5, <2>6 DEF AInv, AsyncTypes, Began
    <2>8. ShownConn = conn /\ ShownOut = out /\ ShownConn' = conn' /\ ShownOut' = out'
      BY <1>1, <2>5, ShownFacts
    <2>9. ShownOut' = ShownOut \o a.items
      BY <1>1, <2>2, <2>8 DEF AInv, AsyncTypes
    <2>10. Blocking!EitherNext
      BY <1>1, <2>2, <2>3, <2>6, <2>8, <2>9, BlockingDrain DEF d
    <2> QED
      BY <2>7, <2>10 DEF Implements
  <1> QED
    BY <1>3, <1>8, <1>9, <1>10, <1>11 DEF Replying

\* feed fails: the end of poll, or the beginning of the write of ERROR.
LEMMA DrainErrStep ==
    ASSUME AInv, NEW r, r = FeedNow(conn, Offered), AsyncDrainPassErr(r)
    PROVE  Implements
  <1>1. /\ Draining /\ job = NoJob /\ r.res # "Ok" /\ conn' = r.conn
        /\ UNCHANGED <<rx, wire, psent, net, out, fed>>
        /\ r.conn.state = "Failed" =>
              job' = Job("error", Item("ERROR", <<>>), <<>>, 0, TRUE) /\ UNCHANGED <<pc, tc>>
        /\ r.conn.state # "Failed" =>
              ReturnAfter("protocol", Len(out) + Len(fed)) /\ tc' = 0 /\ UNCHANGED job
    BY DEF AsyncDrainPassErr, Suspended, JobOf, Return
  <1>2. ConnInv(conn) /\ conn.our_greeting_sent
    BY <1>1 DEF AInv, Began, Draining
  <1>3. ConnInv(conn') /\ DOMAIN conn' = DOMAIN conn /\ conn'.our_greeting_sent
    BY <1>1, <1>2, PassFacts
  <1>4. CASE r.conn.state = "Failed"
    <2>1. /\ job' # NoJob /\ DOMAIN job' = JobFields /\ job'.step = "error" /\ job'.rest = <<>>
          /\ job'.item = Item("ERROR", <<>>) /\ job'.from.conn = conn /\ job'.from.out = out
      <3>1. Begins(job', "error", Item("ERROR", <<>>), <<>>, 0, TRUE, conn, out)
        BY <1>1, <1>4, JobIs
      <3> QED
        BY <3>1 DEF Begins
    <2>2. pc \in {"drain1", "drain2"} /\ out \in Seq(Items)
      BY <1>1 DEF Draining, AInv, AsyncTypes
    <2>3. ErrorJob(job', conn', out, pc, Offered)
      BY <1>1, <1>4, <2>1, <2>2 DEF ErrorJob
    <2>4. JobOk(job', conn', out, pc, rx, tc)
      BY <1>2, <1>3, <2>1, <2>2, <2>3, ItemTypes DEF JobOk, Offered
    <2>5. AInv'
      BY <1>1, <1>3, <1>4, <2>2, <2>4 DEF AInv, AsyncTypes, Cursor, Draining, Began
    <2> QED
      BY <1>1, <1>4, <2>1, <2>5, ShownFacts, Unseen DEF Implements
  <1>5. CASE r.conn.state # "Failed"
    <2>1. ReturnAfter("protocol", Len(out) + Len(fed)) /\ tc' = 0 /\ job' = NoJob
      BY <1>1, <1>5
    <2>2. pc' \in {"idle", "closed", "refused"} /\ pc' \in Places
      BY <2>1, ReturnPlaces
    <2>3. AInv'
      BY <1>1, <1>3, <2>1, <2>2 DEF AInv, AsyncTypes, Cursor, Draining, Began
    <2>4. ShownConn = conn /\ ShownOut = out /\ ShownConn' = conn' /\ ShownOut' = out'
      BY <1>1, <2>1, ShownFacts
    <2>5. ReturnAfter("protocol", Len(ShownOut) + Len(fed))
      BY <2>1, <2>4
    <2>6. Blocking!EitherNext
      BY <1>1, <1>5, <2>1, <2>4, <2>5, BlockingDrainErr
    <2> QED
      BY <2>3, <2>6 DEF Implements
  <1> QED
    BY <1>4, <1>5

\* publish, up to its write.
LEMMA MessageStep ==
    ASSUME AInv, NEW t \in Messages(conn), AsyncWriteMessage(HeadersNow(conn, t), t)
    PROVE  Implements
  <1>1. /\ pc = "idle" /\ job = NoJob /\ HeadersNow(conn, t).res = "Ok" /\ HeadersNow(conn, t).n = 1
        /\ Len(out) < MaxOut /\ job' = Job("publish", Item("MESSAGE", t), <<>>, 0, TRUE)
        /\ UNCHANGED <<conn, rx, tc, pc, wire, psent, net, out, fed>>
    BY DEF AsyncWriteMessage, Suspended, JobOf
  <1>2. /\ job' # NoJob /\ DOMAIN job' = JobFields /\ job'.step = "publish" /\ job'.rest = <<>>
        /\ job'.item = Item("MESSAGE", t) /\ job'.from.conn = conn /\ job'.from.out = out
    <2>1. Begins(job', "publish", Item("MESSAGE", t), <<>>, 0, TRUE, conn, out)
      BY <1>1, JobIs
    <2> QED
      BY <2>1 DEF Begins
  <1>3. ConnInv(conn) /\ conn.our_greeting_sent /\ out \in Seq(Items)
    BY <1>1 DEF AInv, Began, AsyncTypes
  <1>4. PublishJob(job', conn, out, pc)
    BY <1>1, <1>2 DEF PublishJob
  <1>5. JobOk(job', conn, out, pc, rx, tc)
    BY <1>1, <1>2, <1>3, <1>4, ItemTypes DEF JobOk
  <1>6. AInv'
    BY <1>1, <1>3, <1>5 DEF AInv, AsyncTypes, Cursor, Draining, Began
  <1> QED
    BY <1>1, <1>2, <1>6, ShownFacts, Unseen DEF Implements
-----------------------------------------------------------------------------
(* The ends of the writes *)

\* The call that is suspended, and what the blocking driver is meanwhile.
LEMMA JobFacts ==
    ASSUME AInv, job # NoJob
    PROVE  /\ JobOk(job, conn, out, pc, rx, tc)
           /\ ShownConn = job.from.conn /\ ShownOut = job.from.out
           /\ ConnInv(job.from.conn) /\ DOMAIN job.from.conn = DOMAIN conn
           /\ pc # "new" => job.from.conn.our_greeting_sent
           /\ job.from.out \in Seq(Items) /\ job.item \in Items /\ DOMAIN job = JobFields
           /\ \/ NewJob(job, conn, out, pc) \/ PollJob(job, conn, out, pc) \/ PublishJob(job, conn, out, pc)
              \/ ErrorJob(job, conn, out, pc, Offered) \/ DrainJob(job, conn, out, pc, rx, tc, Offered)
           /\ ConnInv(conn) /\ out \in Seq(Items)
  BY ShownFacts DEF AInv, AsyncTypes, Began, JobOk, Offered

\* What a drain_buffer that is suspended is about to do.
LEMMA DrainJobFacts ==
    ASSUME AInv, job # NoJob, DrainJob(job, conn, out, pc, rx, tc, Offered)
    PROVE  \E r, ws :
              /\ Draining /\ r = FeedNow(job.from.conn, Offered) /\ r.res = "Ok" /\ job.n = r.n
              /\ ws = RepliesNow(job.from.conn, r.conn) /\ job.breaks = Breaks(ws, r.n)
              /\ Midway(job, conn, out, r.conn, ws)
              /\ ConnInv(r.conn) /\ DOMAIN r.conn = DOMAIN conn /\ r.conn.our_greeting_sent
              /\ Replying(r.conn, ws)
              /\ r.n \in 1 .. Len(rx) - tc /\ fed \o SubSeq(rx, tc + 1, tc + r.n) \in Seq(Units)
              /\ AfterDrain(tc + r.n) = "idle"
              /\ job.step = "drain" /\ conn.our_greeting_sent
  <1>1. /\ Draining /\ job.step = "drain" /\ pc # "new"
        /\ ConnInv(job.from.conn) /\ DOMAIN job.from.conn = DOMAIN conn /\ job.from.conn.our_greeting_sent
        /\ conn.our_greeting_sent
    BY JobFacts DEF DrainJob, Draining, AInv, Began
  <1>2. PICK r, ws : /\ r = FeedNow(job.from.conn, Offered) /\ r.res = "Ok" /\ job.n = r.n
                     /\ ws = RepliesNow(job.from.conn, r.conn) /\ job.breaks = BreaksAt(ws, r.n, rx, tc)
                     /\ Midway(job, conn, out, r.conn, ws)
    BY DEF DrainJob
  <1>3. job.breaks = Breaks(ws, r.n)
    BY <1>2 DEF Breaks, BreaksAt
  <1>4. /\ ConnInv(r.conn) /\ DOMAIN r.conn = DOMAIN job.from.conn /\ r.conn.our_greeting_sent
        /\ Replying(r.conn, ws)
        /\ r.n \in 1 .. Len(rx) - tc /\ fed \o SubSeq(rx, tc + 1, tc + r.n) \in Seq(Units)
        /\ AfterDrain(tc + r.n) = "idle"
    BY <1>1, <1>2, PassFacts
  <1> QED
    BY <1>1, <1>2, <1>3, <1>4

\* The answers that may be written are told apart.
LEMMA RepliesDiffer ==
    /\ <<"READY">> # <<"PONG">>
    /\ <<"WELCOME", "READY">> # <<"READY">>
    /\ <<"WELCOME", "READY">> # <<"PONG">>
    /\ \A e : <<e>> # <<>>
  OBVIOUS

\* What each of them says.
LEMMA RepliesSaid ==
    ASSUME NEW d, ConnInv(d), NEW ws, Replying(d, ws)
    PROVE  /\ ws = <<"READY">> =>
                 Says(Answers(d, ws), WriteReady(d, TRUE).conn, <<Item("READY", <<>>)>>)
           /\ ws = <<"PONG">> /\ d.pending_pong # <<>> =>
                 Says(Answers(d, ws), WritePong(d, TRUE).conn, <<Item("PONG", d.pending_pong)>>)
           /\ ws = <<"WELCOME", "READY">> =>
                 /\ Says(Answers(d, <<"WELCOME">>), WriteWelcome(d, TRUE).conn, <<Item("WELCOME", <<>>)>>)
                 /\ Says(Answers(d, ws), WriteReady(WriteWelcome(d, TRUE).conn, TRUE).conn,
                         <<Item("WELCOME", <<>>), Item("READY", <<>>)>>)
                 /\ Says(Answers(WriteWelcome(d, TRUE).conn, <<"READY">>),
                         WriteReady(WriteWelcome(d, TRUE).conn, TRUE).conn, <<Item("READY", <<>>)>>)
  <1>1. CASE ws = <<"READY">>
    <2>1. d.state = "Ready" /\ ~d.our_ready_sent
      BY <1>1, RepliesDiffer DEF Replying
    <2>2. Says(Answers(d, <<"READY">>), WriteReady(d, TRUE).conn, <<Item("READY", <<>>)>>)
      BY <2>1, ReadySaid
    <2> QED
      BY <1>1, <2>2, RepliesDiffer, Zenon
  <1>2. CASE ws = <<"PONG">>
    <2>1. ASSUME d.pending_pong # <<>>
          PROVE  Says(Answers(d, <<"PONG">>), WritePong(d, TRUE).conn, <<Item("PONG", d.pending_pong)>>)
      BY <2>1, PongSaid, Zenon
    <2> QED
      BY <1>2, <2>1, RepliesDiffer, Zenon
  <1>3. CASE ws = <<"WELCOME", "READY">>
    <2>1. /\ d.state = "PlainReady" /\ d.mechanism = "Plain"
          /\ ~d.our_welcome_sent /\ ~d.our_ready_sent
      BY <1>3, RepliesDiffer DEF Replying
    <2>2. Says(Answers(d, <<"WELCOME">>), WriteWelcome(d, TRUE).conn, <<Item("WELCOME", <<>>)>>)
      BY <2>1, WelcomeSaid
    <2>3. Says(Answers(d, <<"WELCOME", "READY">>), WriteReady(WriteWelcome(d, TRUE).conn, TRUE).conn,
               <<Item("WELCOME", <<>>), Item("READY", <<>>)>>)
      BY <2>1, BothSaid
    <2>4. Says(Answers(WriteWelcome(d, TRUE).conn, <<"READY">>),
               WriteReady(WriteWelcome(d, TRUE).conn, TRUE).conn, <<Item("READY", <<>>)>>)
      <3> DEFINE e == WriteWelcome(d, TRUE).conn
      <3>1. e.state = "PlainReady" /\ e.mechanism = "Plain" /\ e.our_welcome_sent /\ ~e.our_ready_sent
        BY <2>1, Welcomed
      <3> HIDE DEF e
      <3>2. Says(Answers(e, <<"READY">>), WriteReady(e, TRUE).conn, <<Item("READY", <<>>)>>)
        BY <3>1, ReadySaid
      <3> QED
        BY <3>2 DEF e
    <2> QED
      BY <1>3, <2>2, <2>3, <2>4, RepliesDiffer, Zenon
  <1> QED
    BY <1>1, <1>2, <1>3 DEF Replying

\* The write that is not the last: WELCOME, and READY is encoded.
LEMMA NextWriteStep ==
    ASSUME AInv, NEW place, WriteDone(place), job.rest # <<>>
    PROVE  Implements
  <1> DEFINE a == Answers(conn, <<Head(job.rest)>>)
  <1>1. /\ job # NoJob /\ out' = Append(out, job.item) /\ conn' = a.conn
        /\ job' = [job EXCEPT !.item = a.items[1], !.rest = Tail(job.rest)]
        /\ UNCHANGED <<rx, tc, pc, fed, wire, psent, net>>
    BY DEF WriteDone, Suspended
  <1>2. DrainJob(job, conn, out, pc, rx, tc, Offered)
    BY <1>1, JobFacts DEF NewJob, PollJob, PublishJob, ErrorJob
  <1>3. PICK r, ws :
           /\ Draining /\ r = FeedNow(job.from.conn, Offered) /\ r.res = "Ok" /\ job.n = r.n
           /\ ws = RepliesNow(job.from.conn, r.conn) /\ job.breaks = Breaks(ws, r.n)
           /\ Midway(job, conn, out, r.conn, ws)
           /\ ConnInv(r.conn) /\ DOMAIN r.conn = DOMAIN conn /\ r.conn.our_greeting_sent
           /\ Replying(r.conn, ws)
           /\ job.step = "drain" /\ conn.our_greeting_sent
    BY <1>1, <1>2, DrainJobFacts
  <1> DEFINE d == r.conn
  <1>4. /\ ws = <<"WELCOME", "READY">> /\ conn = WriteWelcome(d, TRUE).conn /\ out = job.from.out
        /\ job.item = Item("WELCOME", <<>>) /\ job.rest = <<"READY">>
    BY <1>3 DEF Midway
  <1>5. Says(Answers(conn, <<"READY">>), WriteReady(conn, TRUE).conn, <<Item("READY", <<>>)>>)
    BY <1>3, <1>4, RepliesSaid
  <1>6. Head(job.rest) = "READY" /\ Tail(job.rest) = <<>>
    BY <1>4
  <1>7. a.conn = WriteReady(conn, TRUE).conn /\ a.items = <<Item("READY", <<>>)>>
    BY <1>5, <1>6 DEF Says
  <1> HIDE DEF a
  <1>8. a.items[1] = Item("READY", <<>>)
    <2>1. \A e : <<e>>[1] = e
      OBVIOUS
    <2> QED
      BY <1>7, <2>1, Zenon
  <1>9. DOMAIN job = JobFields /\ ConnInv(job.from.conn) /\ DOMAIN job.from.conn = DOMAIN conn
    BY <1>1, JobFacts
  <1>10. /\ DOMAIN job' = JobFields /\ job'.step = "drain" /\ job'.n = job.n /\ job'.breaks = job.breaks
         /\ job'.from = job.from /\ job'.item = Item("READY", <<>>) /\ job'.rest = <<>>
    BY <1>1, <1>3, <1>6, <1>8, <1>9 DEF JobFields
  <1>11. job' # NoJob
    BY <1>10 DEF NoJob
  <1>12. ConnInv(conn') /\ DOMAIN conn' = DOMAIN conn /\ conn'.our_greeting_sent
    <2>1. ConnInv(conn) /\ conn' = WriteReady(conn, TRUE).conn /\ conn.our_greeting_sent
      BY <1>1, <1>3, <1>7 DEF AInv, Began
    <2> QED
      BY <2>1, ConnEncoded
  <1>13. Midway(job', conn', out', d, ws)
    BY <1>1, <1>4, <1>7, <1>10 DEF Midway
  <1>14. DrainJob(job', conn', out', pc, rx, tc, Offered)
    <2>1. pc \in {"drain1", "drain2"}
      BY <1>2 DEF DrainJob
    <2>2. job'.breaks = BreaksAt(ws, r.n, rx, tc)
      BY <1>3, <1>10 DEF Breaks, BreaksAt
    <2> QED
      BY <1>3, <1>10, <1>13, <2>1, <2>2 DEF DrainJob
  <1>15. out' \in Seq(Items) /\ job'.from.out \in Seq(Items) /\ job'.item \in Items
    BY <1>1, <1>4, <1>10, ItemTypes, JobFacts
  <1>16. pc # "new" /\ job.from.conn.our_greeting_sent
    BY <1>1, <1>2, JobFacts DEF DrainJob
  <1>17. JobOk(job', conn', out', pc, rx, tc)
    BY <1>9, <1>10, <1>11, <1>12, <1>14, <1>15, <1>16 DEF JobOk, Offered
  <1>18. AInv'
    BY <1>1, <1>12, <1>15, <1>16, <1>17 DEF AInv, AsyncTypes, Cursor, Draining, Began
  <1>19. UNCHANGED <<ShownConn, ShownOut>>
    BY <1>1, <1>10, <1>11, ShownFacts
  <1> QED
    BY <1>1, <1>18, <1>19, Unseen DEF Implements

\* What a write that ends the call leaves of it, when the driver is at place p.
LEMMA Ended ==
    ASSUME AInv, job # NoJob, job' = NoJob, UNCHANGED <<conn, wire, psent, net>>,
           out' \in Seq(Items), fed' \in Seq(Units), rx' \in Seq(Units), pc' \in Places, pc' # "new", Cursor'
    PROVE  AInv' /\ ShownConn' = conn /\ ShownOut' = out'
  <1>1. ConnInv(conn) /\ conn.our_greeting_sent
    BY JobFacts DEF AInv, Began, PollJob, PublishJob, ErrorJob, DrainJob, NewJob
  <1> QED
    BY <1>1, ShownFacts DEF AInv, AsyncTypes, Began

\* The last write of a call.
LEMMA LastWriteStep ==
    ASSUME AInv, NEW place \in {"idle", AfterDrain(tc + job.n)}, WriteDone(place), job.rest = <<>>
    PROVE  Implements
  <1>1. /\ job # NoJob /\ out' = Append(out, job.item) /\ job' = NoJob
        /\ UNCHANGED <<conn, wire, psent, net>>
        /\ job.step \in {"new", "poll", "publish"} => pc' = "idle" /\ UNCHANGED <<rx, tc, fed>>
        /\ job.step = "drain" => Advance(job.n, job.breaks, place)
        /\ job.step = "error" =>
              /\ ReturnAfter("protocol", Len(job.from.out) + Len(fed)) /\ tc' = 0
              /\ UNCHANGED <<rx, fed>>
    BY DEF WriteDone, Suspended, Answered, WorkBefore
  <1>2. /\ ShownConn = job.from.conn /\ ShownOut = job.from.out /\ ConnInv(conn)
        /\ out \in Seq(Items) /\ job.item \in Items /\ out' \in Seq(Items)
        /\ \/ NewJob(job, conn, out, pc) \/ PollJob(job, conn, out, pc) \/ PublishJob(job, conn, out, pc)
           \/ ErrorJob(job, conn, out, pc, Offered) \/ DrainJob(job, conn, out, pc, rx, tc, Offered)
    BY <1>1, JobFacts
  <1>3. rx \in Seq(Units) /\ fed \in Seq(Units)
    BY DEF AInv, AsyncTypes
  <1>4. CASE NewJob(job, conn, out, pc) \/ PollJob(job, conn, out, pc) \/ PublishJob(job, conn, out, pc)
    <2>1. pc' = "idle" /\ UNCHANGED <<rx, tc, fed>> /\ out = job.from.out
      BY <1>1, <1>4 DEF NewJob, PollJob, PublishJob
    <2>2. tc = 0 /\ (pc = "new" => out = <<>>)
      BY <1>4 DEF AInv, Cursor, Began, Draining, NewJob, PollJob, PublishJob
    <2>3. AInv' /\ ShownConn' = conn /\ ShownOut' = Append(ShownOut, job.item)
      BY <1>1, <1>2, <1>3, <2>1, <2>2, Ended DEF Cursor, Draining, Places
    <2>4. CASE NewJob(job, conn, out, pc)
      <3>1. pc = "new" /\ job.item = Item("GREETING", <<>>) /\ conn = WriteGreeting(job.from.conn, TRUE).conn
        BY <2>4 DEF NewJob
      <3>2. \A e : Append(<<>>, e) = <<e>>
        OBVIOUS
      <3>3. ShownOut' = <<Item("GREETING", <<>>)>>
        BY <1>2, <2>1, <2>2, <2>3, <3>1, <3>2
      <3>4. ShownConn' = WriteGreeting(ShownConn, TRUE).conn
        BY <1>2, <2>3, <3>1
      <3> QED
        BY <1>1, <2>1, <2>3, <3>1, <3>3, <3>4, BlockingNew DEF Implements
    <2>5. CASE PollJob(job, conn, out, pc)
      <3>1. /\ pc = "idle" /\ job.item = Item("READY", <<>>) /\ job.from.conn.state = "Ready"
            /\ WriteReady(job.from.conn, TRUE).res = "Ok" /\ conn = WriteReady(job.from.conn, TRUE).conn
        BY <2>5 DEF PollJob
      <3>2. /\ ShownConn.state = "Ready" /\ WriteReady(ShownConn, TRUE).res = "Ok"
            /\ ShownConn' = WriteReady(ShownConn, TRUE).conn
            /\ ShownOut' = Append(ShownOut, Item("READY", <<>>))
        BY <1>2, <2>3, <3>1
      <3> QED
        BY <1>1, <2>1, <2>2, <2>3, <3>1, <3>2, BlockingPollOwing DEF Implements
    <2>6. CASE PublishJob(job, conn, out, pc)
      <3>1. pc = "idle" /\ conn = job.from.conn /\ Len(out) < MaxOut
        BY <2>6 DEF PublishJob
      <3>2. PICK t \in Messages(conn) : /\ job.item = Item("MESSAGE", t)
                                        /\ HeadersNow(conn, t).res = "Ok" /\ HeadersNow(conn, t).n = 1
        BY <2>6 DEF PublishJob
      <3>3. /\ t \in Messages(ShownConn) /\ HeadersNow(ShownConn, t).res = "Ok"
            /\ HeadersNow(ShownConn, t).n = 1 /\ Len(ShownOut) < MaxOut /\ ShownConn' = ShownConn
            /\ ShownOut' = Append(ShownOut, Item("MESSAGE", t))
        BY <1>2, <2>1, <2>3, <3>1, <3>2
      <3> QED
        BY <1>1, <2>1, <2>3, <3>1, <3>3, BlockingPublish DEF Implements
    <2> QED
      BY <1>4, <2>4, <2>5, <2>6
  <1>5. CASE ErrorJob(job, conn, out, pc, Offered)
    <2>1. /\ job.step = "error" /\ Draining /\ out = job.from.out /\ job.item = Item("ERROR", <<>>)
          /\ FeedNow(job.from.conn, Offered).res # "Ok"
          /\ conn = FeedNow(job.from.conn, Offered).conn /\ conn.state = "Failed"
      BY <1>5 DEF ErrorJob, Draining
    <2>2. /\ ReturnAfter("protocol", Len(job.from.out) + Len(fed)) /\ tc' = 0
          /\ UNCHANGED <<rx, fed>>
      BY <1>1, <2>1
    <2>3. pc' \in {"idle", "closed", "refused"} /\ pc' \in Places
      BY <2>2, ReturnPlaces
    <2>4. AInv' /\ ShownConn' = conn /\ ShownOut' = out'
      BY <1>1, <1>2, <1>3, <2>2, <2>3, Ended DEF Cursor, Draining
    <2>5. ShownOut' = ShownOut \o <<Item("ERROR", <<>>)>>
      BY <1>1, <1>2, <2>1, <2>4, AppendedAre
    <2>6. ReturnAfter("protocol", Len(ShownOut) + Len(fed))
      BY <1>2, <2>2
    <2>7. Blocking!EitherNext
      BY <1>1, <1>2, <2>1, <2>2, <2>4, <2>5, <2>6, BlockingDrainErr
    <2> QED
      BY <2>4, <2>7 DEF Implements
  <1>6. CASE DrainJob(job, conn, out, pc, rx, tc, Offered)
    <2>1. PICK r, ws :
             /\ Draining /\ r = FeedNow(job.from.conn, Offered) /\ r.res = "Ok" /\ job.n = r.n
             /\ ws = RepliesNow(job.from.conn, r.conn) /\ job.breaks = Breaks(ws, r.n)
             /\ Midway(job, conn, out, r.conn, ws)
             /\ ConnInv(r.conn) /\ DOMAIN r.conn = DOMAIN conn /\ r.conn.our_greeting_sent
             /\ Replying(r.conn, ws)
             /\ r.n \in 1 .. Len(rx) - tc /\ fed \o SubSeq(rx, tc + 1, tc + r.n) \in Seq(Units)
             /\ AfterDrain(tc + r.n) = "idle"
             /\ job.step = "drain" /\ conn.our_greeting_sent
      BY <1>1, <1>6, DrainJobFacts
    <2>2. Advance(r.n, Breaks(ws, r.n), "idle")
      BY <1>1, <2>1
    <2>3. /\ rx' \in Seq(Units) /\ Cursor' /\ pc' \in Places /\ pc' # "new"
          /\ fed' = fed \o SubSeq(rx, tc + 1, tc + r.n)
          /\ IF Breaks(ws, r.n) THEN Compact(tc + r.n) /\ pc' = AfterDrain(tc + r.n)
             ELSE tc' = tc + r.n /\ UNCHANGED <<rx, pc>>
      BY <2>1, <2>2, AdvanceFacts
    <2>4. fed' \in Seq(Units)
      BY <2>1, <2>3
    <2>5. AInv' /\ ShownConn' = conn /\ ShownOut' = out'
      BY <1>1, <1>2, <2>3, <2>4, Ended
    <2> DEFINE d == r.conn
               a == Answers(d, ws)
    <2>6. a.res = "Ok" /\ conn = a.conn /\ out' = job.from.out \o a.items
      <3>1. CASE /\ ws = <<"READY">> /\ conn = WriteReady(d, TRUE).conn /\ out = job.from.out
                 /\ job.item = Item("READY", <<>>)
        <4>1. Says(a, WriteReady(d, TRUE).conn, <<Item("READY", <<>>)>>)
          BY <2>1, <3>1, RepliesSaid
        <4> HIDE DEF a
        <4>2. out' = out \o <<job.item>>
          BY <1>1, <1>2, AppendedAre
        <4> QED
          BY <3>1, <4>1, <4>2, Zenon DEF Says
      <3>2. CASE /\ ws = <<"PONG">> /\ d.pending_pong # <<>> /\ conn = WritePong(d, TRUE).conn
                 /\ out = job.from.out /\ job.item = Item("PONG", d.pending_pong)
        <4>1. Says(a, WritePong(d, TRUE).conn, <<Item("PONG", d.pending_pong)>>)
          BY <2>1, <3>2, RepliesSaid
        <4> HIDE DEF a
        <4>2. out' = out \o <<job.item>>
          BY <1>1, <1>2, AppendedAre
        <4> QED
          BY <3>2, <4>1, <4>2, Zenon DEF Says
      <3>3. CASE /\ ws = <<"WELCOME", "READY">>
                 /\ conn = WriteReady(WriteWelcome(d, TRUE).conn, TRUE).conn
                 /\ out = Append(job.from.out, Item("WELCOME", <<>>))
                 /\ job.item = Item("READY", <<>>)
        <4>1. Says(a, WriteReady(WriteWelcome(d, TRUE).conn, TRUE).conn,
                   <<Item("WELCOME", <<>>), Item("READY", <<>>)>>)
          BY <2>1, <3>3, RepliesSaid
        <4>2. job.from.out \in Seq(Items) /\ Item("WELCOME", <<>>) \in Items /\ Item("READY", <<>>) \in Items
          BY <1>1, JobFacts, ItemTypes
        <4> HIDE DEF a
        <4>3. Append(Append(job.from.out, Item("WELCOME", <<>>)), Item("READY", <<>>))
                 = job.from.out \o <<Item("WELCOME", <<>>), Item("READY", <<>>)>>
          BY <4>2, AppendedAre
        <4> QED
          BY <1>1, <3>3, <4>1, <4>3, Zenon DEF Says
      <3> QED
        BY <2>1, <3>1, <3>2, <3>3, RepliesDiffer DEF Midway
    <2> HIDE DEF a
    <2>7. ShownConn' = a.conn /\ ShownOut' = ShownOut \o a.items
      BY <1>2, <2>5, <2>6
    <2>8. Blocking!EitherNext
      BY <1>1, <1>2, <2>1, <2>3, <2>6, <2>7, BlockingDrain DEF a
    <2> QED
      BY <2>5, <2>8 DEF Implements
  <1> QED
    BY <1>2, <1>4, <1>5, <1>6

\* A call that ends in its write, by an error or by being dropped.
LEMMA WriteEndsStep ==
    ASSUME AInv, WriteFails \/ CancelWrite
    PROVE  Implements
  <1>1. /\ job # NoJob /\ job' = NoJob /\ tc' = 0 /\ UNCHANGED <<conn, rx, wire, psent, net>>
        /\ out' = out \/ out' = Append(out, Cut)
        /\ fed' = (IF job.step = "drain" THEN fed \o SubSeq(rx, tc + 1, tc + job.n) ELSE fed)
        /\ job.step = "new" => pc' = "closed"
        /\ job.step = "error" => ReturnAfter("protocol", Len(job.from.out) + Len(fed))
        /\ job.step \notin {"new", "error"} => ReturnAfter("write", Len(job.from.out) + Len(fed))
    BY DEF WriteFails, CancelWrite, WriteEnds, Suspended, EndCall, WorkBefore
  <1>2. WritesFail
    BY DEF WriteFails, CancelWrite, WritesFail
  <1>3. /\ ShownConn = job.from.conn /\ ShownOut = job.from.out /\ ConnInv(conn)
        /\ out \in Seq(Items) /\ job.from.out \in Seq(Items)
        /\ \/ NewJob(job, conn, out, pc) \/ PollJob(job, conn, out, pc) \/ PublishJob(job, conn, out, pc)
           \/ ErrorJob(job, conn, out, pc, Offered) \/ DrainJob(job, conn, out, pc, rx, tc, Offered)
    BY <1>1, JobFacts
  <1>4. Cut \in Items
    BY ItemTypes DEF Cut
  <1>5. PICK cut \in {<<>>, <<Cut>>} : out' = out \o cut
    <2>1. out = out \o <<>> /\ Append(out, Cut) = out \o <<Cut>>
      BY <1>3, <1>4
    <2> QED
      BY <1>1, <2>1
  <1>6. out' \in Seq(Items) /\ rx' \in Seq(Units) /\ fed \in Seq(Units)
    <2>1. rx \in Seq(Units) /\ fed \in Seq(Units) /\ rx' = rx
      BY <1>1 DEF AInv, AsyncTypes
    <2>2. out' = out \/ out' = Append(out, Cut)
      BY <1>1
    <2>3. Append(out, Cut) \in Seq(Items)
      BY <1>3, <1>4
    <2> QED
      BY <1>3, <2>1, <2>2, <2>3, Zenon
  <1>7. pc' \in {"idle", "closed", "refused"} /\ pc' \in Places
    BY <1>1, ReturnPlaces DEF Places
  <1>8. Cursor'
    BY <1>1, <1>7 DEF Cursor, Draining
  <1>9. CASE \/ NewJob(job, conn, out, pc) \/ PollJob(job, conn, out, pc) \/ PublishJob(job, conn, out, pc)
             \/ ErrorJob(job, conn, out, pc, Offered)
    <2>1. UNCHANGED fed /\ out = job.from.out
      BY <1>1, <1>9 DEF NewJob, PollJob, PublishJob, ErrorJob
    <2>2. AInv' /\ ShownConn' = conn /\ ShownOut' = ShownOut \o cut
      BY <1>1, <1>3, <1>5, <1>6, <1>7, <1>8, <2>1, Ended
    <2>3. CASE NewJob(job, conn, out, pc)
      <3>1. /\ pc = "new" /\ pc' = "closed" /\ conn = WriteGreeting(job.from.conn, TRUE).conn /\ out = <<>>
            /\ tc = 0
        BY <1>1, <2>3 DEF NewJob, AInv, Began, Cursor, Draining
      <3>2. <<>> \o cut = cut
        <4>1. <<>> \o <<>> = <<>>
          OBVIOUS
        <4>2. \A z : <<>> \o <<z>> = <<z>>
          OBVIOUS
        <4> QED
          BY <4>1, <4>2, Zenon
      <3>3. ShownOut' \in {<<>>, <<Cut>>}
        BY <1>3, <2>1, <2>2, <3>1, <3>2, Zenon
      <3>4. ShownConn' = WriteGreeting(ShownConn, TRUE).conn
        BY <1>3, <2>2, <3>1
      <3> QED
        BY <1>1, <1>2, <2>1, <2>2, <3>1, <3>3, <3>4, BlockingNew DEF Implements
    <2>4. CASE PollJob(job, conn, out, pc)
      <3>1. /\ pc = "idle" /\ job.step = "poll" /\ job.from.conn.state = "Ready"
            /\ WriteReady(job.from.conn, TRUE).res = "Ok" /\ conn = WriteReady(job.from.conn, TRUE).conn
        BY <2>4 DEF PollJob
      <3>2. /\ ShownConn.state = "Ready" /\ WriteReady(ShownConn, TRUE).res = "Ok"
            /\ ShownConn' = WriteReady(ShownConn, TRUE).conn
        BY <1>3, <2>2, <3>1
      <3>3. ReturnAfter("write", Len(ShownOut) + Len(fed))
        BY <1>1, <1>3, <3>1
      <3>4. Blocking!EitherNext
        BY <1>1, <1>2, <2>1, <2>2, <3>1, <3>2, <3>3, BlockingPollOwing
      <3> QED
        BY <2>2, <3>4 DEF Implements
    <2>5. CASE PublishJob(job, conn, out, pc)
      <3>1. pc = "idle" /\ job.step = "publish" /\ conn = job.from.conn /\ Len(out) < MaxOut /\ tc = 0
        BY <2>5 DEF PublishJob, AInv, Cursor, Draining
      <3>2. PICK t \in Messages(conn) : HeadersNow(conn, t).res = "Ok" /\ HeadersNow(conn, t).n = 1
        BY <2>5 DEF PublishJob
      <3>3. /\ t \in Messages(ShownConn) /\ HeadersNow(ShownConn, t).res = "Ok"
            /\ HeadersNow(ShownConn, t).n = 1 /\ Len(ShownOut) < MaxOut /\ ShownConn' = ShownConn
        BY <1>3, <2>1, <2>2, <3>1, <3>2
      <3>4. ReturnAfter("write", Len(ShownOut) + Len(fed))
        BY <1>1, <1>3, <3>1
      <3>5. Blocking!EitherNext
        BY <1>1, <1>2, <2>1, <2>2, <3>1, <3>3, <3>4, BlockingPublish
      <3> QED
        BY <2>2, <3>5 DEF Implements
    <2>6. CASE ErrorJob(job, conn, out, pc, Offered)
      <3>1. /\ job.step = "error" /\ Draining /\ FeedNow(job.from.conn, Offered).res # "Ok"
            /\ conn = FeedNow(job.from.conn, Offered).conn /\ conn.state = "Failed"
        BY <2>6 DEF ErrorJob, Draining
      <3>2. ReturnAfter("protocol", Len(ShownOut) + Len(fed))
        BY <1>1, <1>3, <3>1
      <3>3. Blocking!EitherNext
        BY <1>1, <1>2, <1>3, <2>1, <2>2, <3>1, <3>2, BlockingDrainErr
      <3> QED
        BY <2>2, <3>3 DEF Implements
    <2> QED
      BY <1>9, <2>3, <2>4, <2>5, <2>6
  <1>10. CASE DrainJob(job, conn, out, pc, rx, tc, Offered)
    <2>1. PICK r, ws :
             /\ Draining /\ r = FeedNow(job.from.conn, Offered) /\ r.res = "Ok" /\ job.n = r.n
             /\ ws = RepliesNow(job.from.conn, r.conn) /\ job.breaks = Breaks(ws, r.n)
             /\ Midway(job, conn, out, r.conn, ws)
             /\ ConnInv(r.conn) /\ DOMAIN r.conn = DOMAIN conn /\ r.conn.our_greeting_sent
             /\ Replying(r.conn, ws)
             /\ r.n \in 1 .. Len(rx) - tc /\ fed \o SubSeq(rx, tc + 1, tc + r.n) \in Seq(Units)
             /\ AfterDrain(tc + r.n) = "idle"
             /\ job.step = "drain" /\ conn.our_greeting_sent
      BY <1>1, <1>10, DrainJobFacts
    <2>2. fed' = fed \o SubSeq(rx, tc + 1, tc + r.n) /\ fed' \in Seq(Units)
      BY <1>1, <2>1
    <2>3. AInv' /\ ShownConn' = conn /\ ShownOut' = out \o cut
      BY <1>1, <1>5, <1>6, <1>7, <1>8, <2>2, Ended
    <2>4. ReturnAfter("write", Len(ShownOut) + Len(fed))
      BY <1>1, <1>3, <2>1
    <2> DEFINE d == r.conn
    <2>5. \E k \in DOMAIN ws :
             /\ Answers(d, SubSeq(ws, 1, k)).res = "Ok" /\ Len(Answers(d, SubSeq(ws, 1, k)).items) = k
             /\ conn = Answers(d, SubSeq(ws, 1, k)).conn
             /\ out = job.from.out \o Answers(d, SubSeq(ws, 1, k - 1)).items
      <3>1. \A e, f : Len(<<e>>) = 1 /\ Len(<<e, f>>) = 2
        OBVIOUS
      <3>2. job.from.out = job.from.out \o <<>>
        BY <1>3
      <3>3. Answers(d, <<>>).items = <<>>
        BY AnswersAre DEF NoAnswer
      <3>4. ASSUME NEW w, ws = <<w>>, NEW e, Says(Answers(d, ws), conn, <<e>>), out = job.from.out
            PROVE  /\ 1 \in DOMAIN ws /\ 1 - 1 = 0
                   /\ Answers(d, SubSeq(ws, 1, 1)).res = "Ok" /\ Len(Answers(d, SubSeq(ws, 1, 1)).items) = 1
                   /\ conn = Answers(d, SubSeq(ws, 1, 1)).conn
                   /\ out = job.from.out \o Answers(d, SubSeq(ws, 1, 0)).items
        <4>1. 1 \in DOMAIN ws /\ SubSeq(ws, 1, 1) = ws /\ SubSeq(ws, 1, 0) = <<>>
          BY <3>4, TupleParts
        <4>2. 1 - 1 = 0
          OBVIOUS
        <4> QED
          BY <3>1, <3>2, <3>3, <3>4, <4>1, <4>2, Zenon DEF Says
      <3>5. CASE ws = <<"READY">> /\ conn = WriteReady(d, TRUE).conn /\ out = job.from.out
        <4>1. Says(Answers(d, ws), conn, <<Item("READY", <<>>)>>)
          BY <2>1, <3>5, RepliesSaid
        <4> QED
          BY <3>4, <3>5, <4>1, Zenon
      <3>6. CASE /\ ws = <<"PONG">> /\ d.pending_pong # <<>> /\ conn = WritePong(d, TRUE).conn
                 /\ out = job.from.out
        <4>1. Says(Answers(d, ws), conn, <<Item("PONG", d.pending_pong)>>)
          BY <2>1, <3>6, RepliesSaid
        <4> QED
          BY <3>4, <3>6, <4>1, Zenon
      <3>7. CASE ws = <<"WELCOME", "READY">> /\ conn = WriteWelcome(d, TRUE).conn /\ out = job.from.out
        <4>1. 1 \in DOMAIN ws /\ SubSeq(ws, 1, 1) = <<"WELCOME">> /\ SubSeq(ws, 1, 0) = <<>>
          BY <3>7, TupleParts
        <4>2. 1 - 1 = 0
          OBVIOUS
        <4>3. Says(Answers(d, <<"WELCOME">>), conn, <<Item("WELCOME", <<>>)>>)
          BY <2>1, <3>7, RepliesSaid
        <4> QED
          BY <3>1, <3>2, <3>3, <3>7, <4>1, <4>2, <4>3, Zenon DEF Says
      <3>8. CASE /\ ws = <<"WELCOME", "READY">>
                 /\ conn = WriteReady(WriteWelcome(d, TRUE).conn, TRUE).conn
                 /\ out = Append(job.from.out, Item("WELCOME", <<>>))
        <4>1. 2 \in DOMAIN ws /\ SubSeq(ws, 1, 2) = ws /\ SubSeq(ws, 1, 1) = <<"WELCOME">>
          BY <3>8, TupleParts
        <4>2. 2 - 1 = 1
          OBVIOUS
        <4>3. /\ Says(Answers(d, ws), conn, <<Item("WELCOME", <<>>), Item("READY", <<>>)>>)
              /\ Answers(d, <<"WELCOME">>).items = <<Item("WELCOME", <<>>)>>
          <5>1. Says(Answers(d, ws), conn, <<Item("WELCOME", <<>>), Item("READY", <<>>)>>)
            BY <2>1, <3>8, RepliesSaid
          <5>2. Says(Answers(d, <<"WELCOME">>), WriteWelcome(d, TRUE).conn, <<Item("WELCOME", <<>>)>>)
            BY <2>1, <3>8, RepliesSaid
          <5> QED
            BY <5>1, <5>2, Zenon DEF Says
        <4>4. out = job.from.out \o <<Item("WELCOME", <<>>)>>
          BY <1>3, <3>8, ItemTypes, AppendedAre
        <4> QED
          BY <3>1, <4>1, <4>2, <4>3, <4>4, Zenon DEF Says
      <3> QED
        BY <2>1, <3>5, <3>6, <3>7, <3>8 DEF Midway
    <2>6. PICK k \in DOMAIN ws :
             /\ Answers(d, SubSeq(ws, 1, k)).res = "Ok" /\ Len(Answers(d, SubSeq(ws, 1, k)).items) = k
             /\ conn = Answers(d, SubSeq(ws, 1, k)).conn
             /\ out = job.from.out \o Answers(d, SubSeq(ws, 1, k - 1)).items
      BY <2>5
    <2> DEFINE a == Answers(d, SubSeq(ws, 1, k))
               b == Answers(d, SubSeq(ws, 1, k - 1))
    <2>7. /\ a.res = "Ok" /\ Len(a.items) = k /\ ShownConn' = a.conn
          /\ ShownOut' = ShownOut \o b.items \o cut
      BY <1>3, <2>3, <2>6
    <2>8. a = Answers(d, SubSeq(ws, 1, k)) /\ b = Answers(d, SubSeq(ws, 1, k - 1))
      OBVIOUS
    <2> HIDE DEF a, b
    <2>9. Blocking!EitherNext
      BY <1>1, <1>2, <1>3, <2>1, <2>2, <2>4, <2>7, <2>8, BlockingDrainFails
    <2> QED
      BY <2>3, <2>9 DEF Implements
  <1> QED
    BY <1>3, <1>9, <1>10

-----------------------------------------------------------------------------
(* The specification *)

\* The drivers begin as the blocking ones do, and with the invariant.
LEMMA InitImplements == EitherInit => AInv /\ Blocking!EitherInit
  <1>1. ASSUME NEW u \in Seq(Units), Fresh(conn), AsyncInitWith(conn, u),
               DOMAIN conn = ConnFields \cup {IF IsRadioKind(conn) THEN "group_table" ELSE "sub_table"}
        PROVE  AInv /\ ShownConn = conn /\ ShownOut = <<>>
    <2>1. /\ psent = 0 /\ net = <<>> /\ rx = <<>> /\ tc = 0 /\ pc = "new" /\ out = <<>> /\ fed = <<>>
          /\ wire = u /\ job = NoJob
      BY <1>1 DEF AsyncInitWith, InitWith
    <2>2. IsConn(conn, Units) /\ FedInv(conn, <<>>, FALSE, TypesOf(conn))
      BY <1>1, FreshInv
    <2>3. Unused(conn)
      BY <1>1 DEF Fresh, Unused
    <2>4. <<>> \in Seq(Units) /\ <<>> \in Seq(Items) /\ Len(<<>>) = 0
      OBVIOUS
    <2>5. ConnInv(conn)
      <3>1. Len(conn.greeting_buf) # GREETING_LEN
        BY <2>3, <2>4 DEF Unused, GREETING_LEN
      <3>2. \E v \in Seq(Units), rej \in BOOLEAN : FedInv(conn, v, rej, TypesOf(conn))
        BY <2>2, <2>4
      <3> QED
        BY <1>1, <2>2, <3>1, <3>2 DEF ConnInv
    <2>6. AInv
      BY <1>1, <2>1, <2>3, <2>4, <2>5 DEF AInv, AsyncTypes, Cursor, Draining, Began, Places
    <2> QED
      BY <2>1, <2>6, ShownFacts
  <1>2. ASSUME Init
        PROVE  AInv /\ Blocking!EitherInit
    <2>1. PICK s \in Streams : AsyncInitWith(NewConnection(s.mechanism), s.units)
      BY <1>2 DEF Init
    <2>2. s.mechanism \in Mechanisms /\ s.units \in Seq(Units)
      BY PeersAssumption DEF Mechanisms
    <2>3. conn = NewConnection(s.mechanism) /\ AsyncInitWith(conn, s.units)
      BY <2>1 DEF AsyncInitWith, InitWith
    <2>4. DOMAIN conn = ConnFields \cup {"sub_table"} /\ ~IsRadioKind(conn)
      BY <2>3 DEF NewConnection, ConnFields, IsRadioKind
    <2>5. Fresh(conn)
      BY <2>2, <2>3 DEF NewConnection, Fresh, ConnFields
    <2>6. AInv /\ ShownConn = conn /\ ShownOut = <<>>
      BY <1>1, <2>2, <2>3, <2>4, <2>5
    <2>7. Blocking!NewConnection(s.mechanism) = NewConnection(s.mechanism)
      BY DEF Blocking!NewConnection, Blocking!NewDecoder, NewConnection, NewDecoder
    <2>8. Blocking!InitWith(Blocking!NewConnection(s.mechanism), s.units)
      BY <2>3, <2>6, <2>7 DEF AsyncInitWith, InitWith, Blocking!InitWith
    <2> QED
      BY <2>6, <2>8 DEF Blocking!EitherInit, Blocking!Init
  <1>3. ASSUME R!Init
        PROVE  AInv /\ Blocking!EitherInit
    <2>1. PICK s \in RadioStreams : R!AsyncInitWith(R!Radio!NewRadioConnection("Null"), s.units)
      BY <1>3 DEF R!Init
    <2>2. s.units \in Seq(Units)
      BY PeersAssumption
    <2>3. conn = R!Radio!NewRadioConnection("Null") /\ AsyncInitWith(conn, s.units)
      BY <2>1 DEF R!AsyncInitWith, R!InitWith, R!NoJob, AsyncInitWith, InitWith, NoJob
    <2>4. DOMAIN conn = ConnFields \cup {"group_table"} /\ IsRadioKind(conn)
      BY <2>3 DEF R!Radio!NewRadioConnection, ConnFields, IsRadioKind
    <2>5. Fresh(conn)
      BY <2>3 DEF R!Radio!NewRadioConnection, R!Radio!H!NewDecoder, NewDecoder, Fresh, ConnFields, Mechanisms
    <2>6. AInv /\ ShownConn = conn /\ ShownOut = <<>>
      BY <1>1, <2>2, <2>3, <2>4, <2>5
    <2>7. Blocking!R!Radio!NewRadioConnection("Null") = R!Radio!NewRadioConnection("Null")
      BY DEF Blocking!R!Radio!NewRadioConnection, Blocking!R!Radio!H!NewDecoder,
             R!Radio!NewRadioConnection, R!Radio!H!NewDecoder
    <2>8. Blocking!R!InitWith(Blocking!R!Radio!NewRadioConnection("Null"), s.units)
      BY <2>3, <2>6, <2>7 DEF AsyncInitWith, InitWith, Blocking!R!InitWith
    <2> QED
      BY <2>6, <2>8 DEF Blocking!EitherInit, Blocking!R!Init
  <1> QED
    BY <1>2, <1>3 DEF EitherInit

\* A step of the PUB driver.
LEMMA PubStep ==
    ASSUME AInv, ~IsRadioKind(conn), Next
    PROVE  Implements
  <1>1. /\ FeedNow(conn, Offered) = Fed
        /\ \A d : RepliesNow(conn, d) = Replies(conn.state, d)
        /\ \A t : HeadersNow(conn, t) = PublishHeaders(conn, t)
        /\ Messages(conn) = Topics
    BY DEF FeedNow, Fed, RepliesNow, HeadersNow, Messages
  <1>2. CASE AsyncPeerSend \/ PeerReads \/ New \/ Poll
    BY <1>2, SendStep, PeerReadsStep, ConstructStep, BeginPollStep DEF New, Poll
  <1>3. CASE (\E n \in 1 .. Readable : Read(n)) \/ ReadFails \/ CancelRead
    BY <1>3, ReceiveStep, ReadEndsStep DEF Read, ReadFails
  <1>4. CASE DrainOk
    <2> DEFINE r == Fed
    <2>1. AsyncDrainPass(r, Replies(conn.state, r.conn), AfterDrain(tc + r.n))
      BY <1>4 DEF DrainOk
    <2>2. AfterDrain(tc + r.n) \in {"idle", AfterDrain(tc + r.n)}
      OBVIOUS
    <2>3. r = FeedNow(conn, Offered) /\ Replies(conn.state, r.conn) = RepliesNow(conn, r.conn)
      BY <1>1
    <2> HIDE DEF r
    <2> QED
      BY <2>1, <2>2, <2>3, DrainPassStep
  <1>5. CASE DrainErr
    BY <1>1, <1>5, DrainErrStep DEF DrainErr
  <1>6. CASE \E t \in Topics : PublishMessage(t)
    BY <1>1, <1>6, MessageStep DEF PublishMessage
  <1>7. CASE Written
    <2>1. WriteDone(AfterDrain(tc + job.n))
      BY <1>7 DEF Written
    <2>2. AfterDrain(tc + job.n) \in {"idle", AfterDrain(tc + job.n)}
      OBVIOUS
    <2> QED
      BY <2>1, <2>2, NextWriteStep, LastWriteStep
  <1>8. CASE WriteFails \/ CancelWrite
    BY <1>8, WriteEndsStep
  <1> QED
    BY <1>2, <1>3, <1>4, <1>5, <1>6, <1>7, <1>8 DEF Next

\* A step of the RADIO driver.
LEMMA RadioStep ==
    ASSUME AInv, IsRadioKind(conn), R!Next
    PROVE  Implements
  <1>1. /\ FeedNow(conn, Offered) = R!Fed
        /\ \A d : RepliesNow(conn, d) = R!Replies(conn.state, d)
        /\ \A t : HeadersNow(conn, t) = R!Radio!PublishHeaders(conn, t)
        /\ Messages(conn) = Groups
    BY SameRadio, SamePasses DEF FeedNow, R!Fed, RepliesNow, HeadersNow, Messages
  <1>2. CASE R!AsyncPeerSend \/ R!PeerReads \/ R!New \/ R!Poll
    BY <1>2, SameSteps, SendStep, PeerReadsStep, ConstructStep, BeginPollStep
  <1>3. CASE (\E n \in 1 .. R!Readable : R!Read(n)) \/ R!ReadFails \/ R!CancelRead
    BY <1>3, SameSteps, ReceiveStep, ReadEndsStep
  <1>4. CASE R!DrainOk
    <2> DEFINE r == R!Fed
    <2>1. AsyncDrainPass(r, R!Replies(conn.state, r.conn), "idle")
      BY <1>4, SamePasses DEF R!DrainOk
    <2>2. "idle" \in {"idle", AfterDrain(tc + r.n)}
      OBVIOUS
    <2>3. r = FeedNow(conn, Offered) /\ R!Replies(conn.state, r.conn) = RepliesNow(conn, r.conn)
      BY <1>1
    <2> HIDE DEF r
    <2> QED
      BY <2>1, <2>2, <2>3, DrainPassStep
  <1>5. CASE R!DrainErr
    BY <1>1, <1>5, DrainErrStep, SamePasses DEF R!DrainErr
  <1>6. CASE \E g \in Groups : R!PublishMessage(g)
    BY <1>1, <1>6, MessageStep, SameSteps DEF R!PublishMessage
  <1>7. CASE R!Written
    <2>1. WriteDone("idle")
      BY <1>7, SamePasses DEF R!Written
    <2>2. "idle" \in {"idle", AfterDrain(tc + job.n)}
      OBVIOUS
    <2> QED
      BY <2>1, <2>2, NextWriteStep, LastWriteStep
  <1>8. CASE R!WriteFails \/ R!CancelWrite
    BY <1>8, WriteEndsStep, SamePasses
  <1> QED
    BY <1>2, <1>3, <1>4, <1>5, <1>6, <1>7, <1>8 DEF R!Next

\* Every step keeps the invariant, and is one of the blocking driver or one it
\* does not see.
LEMMA NextImplements ==
    ASSUME AInv, [EitherNext]_vars
    PROVE  AInv' /\ [Blocking!EitherNext]_Blocking!vars
  <1>1. CASE EitherNext
    <2>1. Implements
      BY <1>1, PubStep, RadioStep DEF EitherNext, IsRadio, IsRadioKind
    <2> QED
      BY <2>1 DEF Implements
  <1>2. CASE UNCHANGED vars
    <2>1. UNCHANGED <<conn, rx, tc, pc, wire, psent, net, out, fed, job>>
      BY <1>2 DEF vars, asyncVars, loopVars
    <2>2. AInv'
      BY <2>1 DEF AInv, AsyncTypes, Cursor, Draining, Began
    <2> QED
      BY <2>1, <2>2, ShownFacts, Unseen
  <1> QED
    BY <1>1, <1>2

\* The invariant of the async drivers: the connection is one that feed and the
\* encoders can produce, and a call that is suspended in a write has got from
\* what it began with as far as that write.
THEOREM AsyncInvariance == EitherSpec => []AInv
  BY InitImplements, NextImplements, PTL DEF EitherSpec

\* The async drivers of io/async.rs implement the blocking ones of io/sync.rs:
\* whatever the peer does during the awaits, whatever room the transport has and
\* wherever a future is dropped, in every behaviour every call does what the
\* blocking driver's call does, a dropped future being a transport that fails.
THEOREM Refinement == EitherSpec => ImplementsBlocking
  <1>1. EitherInit => AInv /\ Blocking!EitherInit
    BY InitImplements
  <1>2. AInv /\ [EitherNext]_vars => AInv' /\ [Blocking!EitherNext]_Blocking!vars
    BY NextImplements
  <1> QED
    BY <1>1, <1>2, PTL DEF EitherSpec, ImplementsBlocking, Blocking!EitherSpec
=============================================================================
