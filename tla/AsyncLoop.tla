----------------------------- MODULE AsyncLoop -----------------------------
(***************************************************************************)
(* What the drivers of io/async.rs have in common.  Their text is that of  *)
(* the blocking ones, but every read and every write is an await: while a  *)
(* write waits for room the peer moves, and the future of the call may be  *)
(* dropped.  Then its local variables are gone, total_consumed among them, *)
(* while the driver stays as it is.                                        *)
(***************************************************************************)
EXTENDS DriverLoop

CONSTANTS
    TX_CAP,         \* items the transport takes before the peer has to read
    CANCELS         \* the awaits at which the future of a call may be dropped

ASSUME AsyncAssumption == TX_CAP \in Nat \ {0} /\ CANCELS \subseteq {"read", "write"}

VARIABLES
    job,        \* the call that is suspended in a write, or NoJob
    acked       \* how many of the items written the peer has read

asyncVars == <<loopVars, job, acked>>

\* A job is the item whose write_all is awaited, what the same call will
\* encode and write after it, and how the call goes on: in the constructor, at
\* the beginning of poll, in drain_buffer after feed consumed n units (breaks:
\* and then leaving its loop), with the ERROR after which drain_buffer fails, or
\* in publish.  from is a ghost: the connection and the output when the step
\* began.
NoJob == [step |-> "none"]

Job(step, item, rest, n, breaks) ==
    [step |-> step, item |-> item, rest |-> rest, n |-> n, breaks |-> breaks,
     from |-> [conn |-> conn, out |-> out]]

JobOf(step, what, arg) == Job(step, Item(what, arg), <<>>, 0, TRUE)

Suspended == job # NoJob

AsyncInitWith(c, units) ==
    /\ InitWith(c, units)
    /\ job = NoJob /\ acked = 0

-----------------------------------------------------------------------------
(* The peer *)

AsyncPeerSend == PeerSend /\ UNCHANGED <<job, acked>>

PeerReads ==
    /\ acked < Len(out)
    /\ acked' = acked + 1
    /\ UNCHANGED <<loopVars, job>>

-----------------------------------------------------------------------------
(* The calls, up to their first await *)

AsyncConstruct ==
    /\ pc = "new" /\ ~Suspended
    /\ conn' = WriteGreeting(conn, TRUE).conn
    /\ job' = JobOf("new", "GREETING", <<>>)
    /\ UNCHANGED <<rx, tc, pc, wire, psent, net, out, fed, acked>>

AsyncBeginPoll ==
    /\ pc = "idle" /\ ~Suspended
    /\ IF OwesReady
       THEN /\ conn' = WriteReady(conn, TRUE).conn
            /\ job' = JobOf("poll", "READY", <<>>)
            /\ UNCHANGED pc
       ELSE /\ pc' = IF rx # <<>> THEN "drain1" ELSE "read"
            /\ UNCHANGED <<conn, job>>
    /\ tc' = 0
    /\ UNCHANGED <<rx, wire, psent, net, out, fed, acked>>

AsyncReceive(n) == Receive(n) /\ UNCHANGED <<job, acked>>

AsyncReceiveFails == ReceiveFails /\ UNCHANGED <<job, acked>>

\* The future of poll is dropped while it waits for the peer, whether or not
\* something has arrived: an error of the read, to the driver.
CancelRead ==
    /\ "read" \in CANCELS
    /\ pc = "read"
    /\ Return("read")
    /\ UNCHANGED <<conn, rx, tc, wire, psent, net, out, fed, job, acked>>

\* drain_buffer has consumed n more units and written its answers: it goes on,
\* or compacts the buffer, and poll then goes to place.
Advance(n, breaks, place) ==
    /\ fed' = fed \o SubSeq(rx, tc + 1, tc + n)
    /\ IF breaks
       THEN Compact(tc + n) /\ pc' = place
       ELSE tc' = tc + n /\ UNCHANGED <<rx, pc>>

\* feed returned r, and the first of the answers ws is encoded; if there is
\* nothing to write the pass ends at once.
AsyncDrainPass(r, ws, place) ==
    LET a == Answers(r.conn, <<Head(ws)>>)
    IN  /\ Draining /\ ~Suspended /\ r.res = "Ok" /\ a.res = "Ok"
        /\ conn' = a.conn
        /\ IF a.items = <<>>
           THEN Advance(r.n, Breaks(ws, r.n), place) /\ UNCHANGED job
           ELSE /\ job' = Job("drain", a.items[1], Tail(ws), r.n, Breaks(ws, r.n))
                /\ UNCHANGED <<rx, tc, pc, fed>>
        /\ UNCHANGED <<wire, psent, net, out, acked>>

\* feed returned the error r; a failed connection says ERROR.
AsyncDrainPassErr(r) ==
    /\ Draining /\ ~Suspended /\ r.res # "Ok"
    /\ conn' = r.conn
    /\ IF r.conn.state = "Failed"
       THEN job' = JobOf("error", "ERROR", <<>>) /\ UNCHANGED <<pc, tc>>
       ELSE Return("protocol") /\ tc' = 0 /\ UNCHANGED job
    /\ UNCHANGED <<rx, wire, psent, net, out, fed, acked>>

\* publish_headers returned r for topic.
AsyncWriteMessage(r, topic) ==
    /\ pc = "idle" /\ ~Suspended /\ r.res = "Ok" /\ r.n = 1
    /\ Len(out) < MaxOut
    /\ job' = JobOf("publish", "MESSAGE", topic)
    /\ UNCHANGED <<conn, rx, tc, pc, wire, psent, net, out, fed, acked>>

-----------------------------------------------------------------------------
(* The awaits of write_all *)

\* How much the call had done when it began the step, as Return counts it.
WorkBefore == Len(job.from.out) + Len(fed)

\* Mutant: one unit less leaves the buffer than was consumed.
AnsweredShort(place) == Advance(job.n - 1, job.breaks, place)

\* drain_buffer after its last answer.
Answered(place) == Advance(job.n, job.breaks, place)

\* There is room, and the item is written; the call encodes the next one, or
\* goes on to its end.  A drain_buffer that ends takes poll to place.
WriteDone(place) ==
    /\ Suspended
    /\ Len(out) - acked < TX_CAP
    /\ out' = Append(out, job.item)
    /\ IF job.rest # <<>>
       THEN LET a == Answers(conn, <<Head(job.rest)>>)
            IN  /\ conn' = a.conn
                /\ job' = [job EXCEPT !.item = a.items[1], !.rest = Tail(@)]
                /\ UNCHANGED <<rx, tc, pc, fed>>
       ELSE /\ job' = NoJob
            /\ UNCHANGED conn
            /\ CASE job.step \in {"new", "poll", "publish"} ->
                      pc' = "idle" /\ UNCHANGED <<rx, tc, fed>>
                 [] job.step = "drain" -> Answered(place)
                 [] job.step = "error" ->
                      ReturnAfter("protocol", WorkBefore) /\ tc' = 0 /\ UNCHANGED <<rx, fed>>
    /\ UNCHANGED <<wire, psent, net, acked>>

\* Mutant: the call goes on as if the item had been written.
EndCallIgnores == pc' = "idle"

\* Where a call goes that ends in its write.  A constructor leaves no driver.
EndCall ==
    IF job.step = "new" THEN pc' = "closed"
    ELSE ReturnAfter(IF job.step = "error" THEN "protocol" ELSE "write", WorkBefore)

\* The call ends in its write, when part of the item, possibly nothing, has
\* gone out.  What was encoded counts as sent, and what feed consumed stays in
\* the buffer.
WriteEnds ==
    /\ Suspended
    /\ \/ UNCHANGED out
       \/ Len(out) - acked < TX_CAP /\ out' = Append(out, Cut)
    /\ job' = NoJob
    /\ tc' = 0
    /\ fed' = IF job.step = "drain" THEN fed \o SubSeq(rx, tc + 1, tc + job.n) ELSE fed
    /\ EndCall
    /\ UNCHANGED <<conn, rx, wire, psent, net, acked>>

\* The transport fails: every call but that for ERROR returns the error.
WriteFails == WRITES_FAIL /\ WriteEnds

\* The future is dropped.
CancelWrite == "write" \in CANCELS /\ WriteEnds

-----------------------------------------------------------------------------
\* The driver as a blocking one shows itself: a step that is under way has not
\* begun.
ShownConn == IF Suspended THEN job.from.conn ELSE conn
ShownOut  == IF Suspended THEN job.from.out ELSE out
=============================================================================
