# mzmq in TLA+

TLA+ models, TLC runs and TLAPS proofs for `mzmq`, a `no_std`, allocation-free
ZMTP 3.1 PUB/RADIO library. Paths such as `src/frame.rs` are those of the
repository; the exact lines behind every definition are in `PROJECT.json`
under `map`.

## 1. The system

Bytes come in from a transport, pass a frame decoder, and drive a connection
state machine that keeps what the peer subscribes to. The library is sans-IO:
the state machines never read or write, and a driver moves the bytes.

```
 application -- publish, poll --> driver (io/sync.rs, io/async.rs) <--> transport
                                     | feed, write_*, publish_headers
                                     v
                      Connection / RadioConnection  --> greeting, null, plain, auth
                        | feed                  | subscribe, cancel, matches
                        v                       v
                   FrameDecoder            SubTable / GroupTable
```

| Component | State | Operations | Correct means |
|---|---|---|---|
| frame codec (`frame.rs`) | decoder state, size bytes, body buffer of `CAP` bytes | `encode_*_frame`, `feed`, `reset` | the cuts between reads leave no trace; every frame delivered is the one on the wire; too large a frame is refused; what is encoded is decoded |
| subscription table (`sub_table.rs`) | up to `MAX_ENTRIES` prefixes, with duplicates | `subscribe`, `cancel`, `matches` | a bag of prefixes, although `swap_remove` reorders it and a full table drops |
| group table (`group_table.rs`) | up to `MAX_ENTRIES` names, without duplicates | `join`, `leave`, `matches` | exactly the memberships granted and not given up |
| greeting, NULL, PLAIN, auth | none | parsers, encoders, credentials check | only a peer that passes all of them is established |
| PUB connection (`connection.rs`) | handshake state, flags of what was sent, greeting buffer, decoder, table, pending PONG | `write_greeting`, `write_ready`, `write_welcome`, `write_error`, `write_pong`, `publish(_headers)`, `feed` | outputs in the order of the handshake whatever the caller does; a refused peer stays refused; each frame applied once |
| RADIO connection (`radio_connection.rs`) | the same with a group table | the same with JOIN and LEAVE | the same |
| blocking drivers (`io/sync.rs`) | connection, `rx_buf`, `rx_len` | `new`, `poll`, `publish` | each byte fed exactly once; never waiting for the peer while the peer waits for us; output well formed |
| async drivers (`io/async.rs`) | the same | the same, with awaits | they do nothing that the blocking drivers could not do |
| smoltcp adapter (`io/smoltcp.rs`) and its example | a borrowed socket; the loop's buffer and flags | `read`, `write`, `flush`; the loop | no byte lost, output well formed, though nothing ever waits |

Nothing is persistent and the library starts no threads, so there is no crash
recovery and no data race. What is hard is elsewhere: bytes that arrive in any
chunks and ahead of the handshake; public methods that can be called in any
order; a loop that stops in the middle of its buffer; a write that fails, or a
future that is dropped, when its effect on the state machine is already recorded;
two ends that wait for each other; a read that finds nothing, a buffer that is
full; capacities that are reached; the width of `usize` on the targets with 32
bits. `hazards` in `PROJECT.json` lists these at their lines, with the properties
that watch them.

## 2. Modules

| Module | Models | Built on |
|---|---|---|
| `Frame` | `frame.rs` as pure operators over byte sequences | |
| `FrameDecoder` | a decoder on a stream that is cut anywhere; the reference `StateAfter`, `IsFrame`, `FrameOf` | `Frame` |
| `FrameChannel` | encoders, a byte stream and a decoder | `Frame` |
| `FrameDecoderProofs` | theorems about both | `FrameDecoder`, `FrameChannel` |
| `SubTable` | `sub_table.rs` as pure operators | |
| `SubBag` | the abstract bag of prefixes | |
| `SubTableSpec` | a table and its peer; shown to implement `SubBag` | `SubTable`, `SubBag` |
| `GroupTable`, `GroupTableSpec` | `group_table.rs`, and a table with its peer | |
| `TableProofs` | theorems about both tables | `SubTableSpec`, `GroupTableSpec` |
| `GreetingBytes` | `greeting.rs` octet by octet, on a greeting that arrives | |
| `Commands` | the encoders and parsers of `null.rs` and `plain.rs`, octet by octet | |
| `CommandsSpec` | all bodies up to a length, and a reference reading of them | `Commands` |
| `ParserProofs` | theorems about the parsers of the handshake | `GreetingBytes`, `CommandsSpec` |
| `Handshake` | what `connection.rs` and `radio_connection.rs` have in common | |
| `Connection` | every method of `connection.rs` as a pure operator | `Handshake`, `SubTable` |
| `RadioConnection` | every method of `radio_connection.rs` | `Handshake`, `GroupTable` |
| `PeerTraffic` | what a stream of units says, as a reference | `Handshake` |
| `Caller` | a caller that may call anything, over a peer's stream | `PeerTraffic` |
| `ConnectionSpec`, `RadioConnectionSpec` | a connection in the hands of that caller | `Caller` |
| `Sockets` | the connections of both kinds side by side | `Connection`, `RadioConnection` |
| `Connections` | a connection of either kind in the hands of that caller | `ConnectionSpec`, `RadioConnectionSpec`, `Sockets` |
| `HandshakeProofs` | lemmas about a connection of either kind: frames and items of a sequence, each write method, the decoder, the handshake, `feed` and its table | `Sockets`, `PeerTraffic` |
| `ConnectionProofs` | theorems about connections | `Connections`, `HandshakeProofs` |
| `DriverLoop` | what the drivers of `io/sync.rs` have in common, with transport, peer and caller | `PeerTraffic` |
| `Driver`, `RadioDriver` | the two blocking drivers | `DriverLoop` |
| `Drivers` | a blocking driver of either kind | `Driver`, `RadioDriver`, `Sockets` |
| `DriverProofs` | theorems about it | `Drivers`, `HandshakeProofs` |
| `AsyncLoop` | the same loop with a step per await | `DriverLoop` |
| `AsyncDriver`, `AsyncRadioDriver` | the two async drivers | `AsyncLoop` |
| `AsyncDrivers` | an async driver of either kind; shown to implement the blocking one | `AsyncDriver`, `AsyncRadioDriver`, `Drivers` |
| `AsyncProofs` | the proof that it does | `AsyncDrivers`, `HandshakeProofs` |
| `SmoltcpPub` | `io/smoltcp.rs` in the loop of `examples/smoltcp_pub.rs` | `Connection`, `PeerTraffic` |
| `SmoltcpProofs` | theorems about it | `SmoltcpPub`, `HandshakeProofs` |
| `MCPeers` | words for the streams of peers | |
| `MC*` | instances for TLC; `MCTables` and `MCHandshakeBytes` put two small systems into one run, one at a time | |

**Bytes.** `Frame` works on bytes. A byte is a number below `RADIX`, 256 in
the code and 9 in the runs: the flags need three bits, a fourth stands for the
reserved ones, and eight digits of base 9 fit the integers of TLC. The theorems
hold for every `RADIX` above 8. `USIZE` is the number of values of `usize`;
`BodyLen` reduces the announced size by it as the cast in the code does.

**Decoder state.** A variant of the code's `State` enum is the field `st` with
the fields of that variant. `size` and `buf` are the parts of `size_buf` and
`buf` that have been written; the code never reads beyond them. The arms of
the loop of `feed` are `FeedFlags`, `FeedSize` and `FeedBody`, each going on
with the next one when input is left. An error returns no count of consumed
bytes, so `pos` does not move.

**Octets of commands and greetings.** `Commands` keeps the order of the checks
of the parsers, and with it which error a body gets. Names are one octet each
(the code compares whole names), a value size has `W` digits of base `RADIX`,
and sums are taken modulo `USIZE`; an index that leaves the body is the result
`"panic"`. `GreetingBytes` keeps the order of the fields; octets that nothing looks
at are reduced to one, and the mechanism field has `MECH_LEN` octets.

**Units.** From `Handshake` upwards the stream is made of units: a greeting is
three (the first two are the eleven bytes that `parse_partial_greeting` checks),
a frame is two, so that both can be cut. That two are enough follows from
`ChunkingCorrect`: after part of a frame the decoder's state is determined by
that part, however it arrived. That an early check of the greeting decides
nothing the final one would not follows from `EarlyIsFinal`. A frame is refused
at its first unit (`BAD`, flags) or at its second (`OVERSIZE`, size). Contents
are what the code tells apart: command names, socket types, credentials,
prefixes, groups, contexts.

**Connections.** A method is an operator from the connection, as a record with
the fields of the Rust struct, and the arguments to the new connection, the
result and a count. `fits` is whether the caller's buffer is large enough.
What is easily overlooked and kept: an error in the greeting leaves the state
`Greeting` and the bytes buffered, and a complete buffer is parsed again by each
later call; a decode error changes nothing but the decoder; the results of
`subscribe` and `join` are dropped; a second PING overwrites the pending PONG;
`write_error` has no guard.

**Blocking drivers.** `pc` says where `poll` is: with the caller (`idle`), in the
first or second `drain_buffer` (`drain1`, `drain2`), at `read`. One pass of the loop
of `drain_buffer` with its writes is one step, because the driver is used through
`&mut self`: only peer and transport move meanwhile. A write can fail before
or after part of it went out (`Cut`); as in the code the connection has then
recorded the item as sent, and `rx_buf` keeps what was consumed. A read can fail
although something has arrived (`READS_FAIL`): a timeout may come first. `Retries`
is the set of errors after which the caller polls again. In `publish` the four
writes are one step with the same two ways to fail. Nothing happens when
`publish` is refused or nothing matches.

**Async drivers.** A call that awaits a write is a `job`: the item, what the
same call will write after it, and how it goes on. The transport takes `TX_CAP`
items before the peer has to read, so a write waits for the peer while the peer
may wait for us. A job can be done (`Written`), fail, or be dropped
(`CancelWrite`), which loses the local variables of the call and leaves the
driver as it is. `poll` of the RADIO driver differs from the others: it returns
after its first `drain_buffer` whatever that achieved.

**Either kind.** A PUB and a RADIO system share their variables and differ in the
connection record, which has a subscription table or a group table; `IsRadio` tells
them apart. `Connections`, `Drivers` and `AsyncDrivers` start as one or the other
and stay what they are.

**Refinement.** `ImplementsBlocking` says that each async driver is the
corresponding blocking driver. While a job lasts, the blocking driver has not yet
made its step: the mapping (`ShownConn`, `ShownOut`) shows connection and output
as they were when the job began. A dropped future is then a transport that
fails, so nothing the blocking driver guarantees after a failed write is lost,
and nothing more is gained. The safety properties checked of the blocking
drivers therefore hold of the async ones and are not checked again. `ImplementsBag` says
the same of the subscription table and the bag of subscriptions. Both refinements
are proved (section 4).

**smoltcp.** Reads and writes return at once and data moves only in
`Interface::poll`, so a round of the loop is one step, and the network moves
between rounds. A round that meets an error or a panic ends the program as it
does in the example. `read`'s `Ok(0)`, `write`'s `Ok(0)` with a full buffer, and
the errors before and after the connection all occur. That `write_all` panics at
`Ok(0)` is what `embedded_io` documents; that library, the socket and the
interface are external.

**Faults.** Reads that fail while data is there, writes that fail before or in the
middle of an item, futures dropped at any await, TCP connections that are refused
or reset, transmit windows that stay closed, peers that are cut anywhere, send
ahead, send rubbish or wait. Reordering and loss are TCP's affair.

## 3. Runs

| Run | Question | Result |
|---|---|---|
| `decoder` | does the streaming decoder do, cut in any way and reset at any point, what a decoder given each frame at once would do, and does a caller that presents all it has get through? | holds |
| `decoder_usize32` | is an oversize frame refused where `usize` is narrower than the size? | violated, finding 1 |
| `channel` | does the decoder read what the encoders write, and all of it in the end? | holds |
| `tables` | is the subscription table the bag of what the peer holds, and the group table the set of what it was granted? | holds |
| `handshake_bytes` | are READY and HELLO read as their encoding says, whatever the body; do the early and the final check of a greeting agree, and does only a client of the right mechanism pass? | holds |
| `handshake_usize32` | is READY read also where `usize` is as wide as a value size? | violated, finding 4 |
| `connection` | is the handshake of either kind safe with any caller and any peer, is each frame applied once, and are exactly the members of a group served? | holds |
| `driver` | is each byte fed once, each PING answered, the output well formed, no wait mutual, nothing published that is not wanted, and is the handshake completed and everything processed unless an error ends the driver? | holds |
| `driver_retry` | does polling on after a failed write leave subscriptions alone? | violated, finding 2 |
| `async_driver` | do the async drivers implement the blocking ones, with awaits, failures and dropped futures, and do peer and driver never wait for each other when writes wait too? | holds |
| `async_driver_cancel` | may a future of `poll` be dropped and polled anew? | violated, finding 3 |
| `smoltcp` | does the loop lose nothing, send nothing malformed and get through? | holds |

A type invariant is checked where a proof rests on it, of the decoder and of the
tables; elsewhere a wrong type breaks one of the other properties.

**Bounds.** `decoder`: `CAP` = 3 and all pairs of twelve frames, so that every
kind of header, valid or not, with bodies of 0, 2, `CAP` and `CAP` + 1 bytes,
follows every kind of frame; two frames are enough since the decoder returns to
its initial state after one, which is itself checked. `channel`: bodies of 8
and 9 bytes lie on both sides of the change of size format at `RADIX` - 1, 10 is
the capacity. `tables`: three entries, names of which one is too long and, for
prefixes, some prefixes of others; more subscriptions and groups than places; one
table moves while the other is empty, since they share nothing.
`handshake_bytes`: for greetings, right and wrong octets at every position in every
combination, names longer and shorter than those of the mechanisms; for commands,
every body of up to `MaxMore` octets after each of `MCBeginnings`, which reach each
check of the parsers, so that properties before Socket-Type, two of them, cut ones,
and sizes at the limit all occur. `connection`: two table entries, contexts of one
byte, and peers that each do one thing wrong followed by what would be right, so
that a wrong acceptance shows; `MaxSent` = 5 bounds the items written. Drivers: a
buffer of six units holds the end of one thing and the beginning of another (a
greeting with a frame and a half, or three frames), or all a short peer has to
say; `MaxOut` bounds the messages, `MaxWork` the patience of a caller that retries.
Async: `TX_CAP` = 2, so that the second PONG or a message of several parts waits
for the peer. `smoltcp`: a receive ring smaller than `rx_buf`, which is smaller
than the stream, and a transmit ring that fills with two messages.

**Deadlock** is checked except where the system may stop: `channel` and
`handshake_bytes` stop at the end of their input, the drivers when the caller has
dropped them or the stream is done, the smoltcp loop when the program has
ended.

**Fairness.** `decoder`: the caller goes on presenting what is left, as the loops
in the drivers do. `channel`: the receiver goes on reading. Drivers: the
application polls again and again, which is the documented use of `poll`, and a
step of the driver that can go on goes on (for the async drivers: the executor
polls a future that is ready). The peer need only send what it may not wait with
(`MayNotWait`): it may hold back its READY until it has seen ours, or everything
until it has seen a greeting, as ZMTP allows, so that progress never rests on a peer
that happens to send ahead. A read is strongly fair: a timeout, or a dropped
future, may come before the data any number of times, but not every time. There is
no fairness on failures, on dropped futures or on `publish`. `smoltcp`: the loop goes
round, and the network is strongly fair: a connection is made, what the peer sent is
delivered and what is in the transmit ring is taken in some poll, not in each.

`GetsThrough` promises that a valid peer's stream is processed to its end unless the
transport fails and the caller drops the driver (`closed`). An error about the peer
leads to `refused` instead and excuses nothing, so the property also says that a
valid peer is never refused. A peer that breaks the protocol is left out of the
promise, not of the run. For smoltcp the excuses are the end of the TCP connection
and the panic of `write_all`.

### Findings

1. `frame.rs:229` casts the 64-bit size to `usize` before comparing it with
   `CAP`. With 32 bits a frame that announces 2^32 + 2 bytes is delivered as one
   of two bytes. The documentation of `feed` promises `BodyTooLarge`.
   `OversizeCorrect` proves the promise where `usize` is wide enough.
2. When a write fails inside `drain_buffer`, what was consumed stays in `rx_buf`.
   A caller that polls on, as `examples/pub_hello.rs` does after any error, has
   it fed again: one SUBSCRIBE becomes two entries. Dropping the driver after a
   failed write avoids it: run `driver` shows that all is well then, and
   `DriverProofs` proves the safety properties of that run under this hypothesis.
3. The same with a future of `poll` that is dropped in the write of a PONG
   (`io/async.rs:187`), in a `select` or a timeout, without any fault of the
   transport. Dropping it at the read is harmless, as `async_driver` shows.
4. `null.rs:205` adds a 32-bit value size to a position: where `usize` has 32 bits
   the sum overflows and the parser panics instead of returning
   `MalformedMetadata`.

Also met while modelling, without a run of their own:

* `frame.rs:182` says that callers discard a decoder after an error. `Connection`
  keeps it and feeds it again (`connection.rs:312`). Safe in itself, since each
  later call fails, but the connection stays `Established`, `publish` works on, and
  the table no longer follows the peer.
* The README's example makes the stream nonblocking and leaves its handshake
  loop with `?` at the first error; `poll` reports `WouldBlock` as one
  (`io/sync.rs:138`), so the loop ends if the peer's greeting is not there yet.
  The examples ignore the error instead, and run `driver` shows that this gets
  through.
* The smoltcp example writes with `write_all`, which panics when the adapter
  returns the `Ok(0)` it documents for a full buffer (`io/smoltcp.rs:18`); in
  `SmoltcpPub` this is the place `panic`.

## 4. Proofs

`FrameDecoderProofs`, for every `CAP`, `RADIX` > 8, `USIZE` above both, and every
set of streams (`FrameAssumption`, `WiresAssumption`):

* `TypeCorrect`, `ChunkingCorrect`, `PoisonCorrect`, `FrameCorrect`, `NoneCorrect`:
  the invariants of run `decoder`;
* `OversizeCorrect`: the same for `OversizeRejected`, assuming that `usize` holds
  every value of eight bytes. Finding 1 shows that the assumption is needed.

None of the properties is inductive by itself: what `feed` does is known only
in the states that `ChunkingInvisible` describes, that these are states at all
needs the types, and that the frame delivered is the one on the wire needs to
know what the decoder has seen. Their conjunction `IInv` is inductive. The heart
is the lemma `FeedOutcome`: if the decoder is in the state `StateAfter(p)` of the
part p of a frame, then `Feed` on x gives what the bytes p \o x determine: an error
if they show an invalid frame, the frame if it is complete, and otherwise
`StateAfter(p \o x)`. It is proved arm by arm (`FeedBodyOutcome`, `FeedSizeOutcome`,
then the flags), with `OutcomeShift` to pass from the rest of the input to all
of it. `FeedChunkIInv` then only has to place p and x in the stream.

The same module has `RoundTripCorrect`, the invariant of run `channel`: what the encoders
write, `feed` reads, for every set of frames that fit the capacity
(`OutgoingAssumption`), any number of them and every chunking. It assumes that a `usize`
is no wider than the eight bytes of a long size, which the cast of the encoder takes
for granted. `SizeRoundTrip` undoes the eight divisions digit by digit, and
`EncodedIsFrame` concludes that an encoded frame is a frame in the sense of `IsFrame`
and `FrameOf`. The invariant `CInv` names the bytes from the start of the frame being read:
they spell frames (`Spells`), the decoder is in the state of their first m, the stream
is the rest, and the frames spelled are those sent and not delivered. By `BeginningsOf`
a beginning of such bytes is part of the first frame until it is all of it and never
invalid, so that `FeedOutcome` leaves nothing open.

`TableProofs`, about the group table, for every capacity, limit of names and set of groups:
`GroupTypeCorrect`, `NoDuplicatesCorrect`, `MembersCorrect`. The invariant adds that no
stored name is too long: otherwise a JOIN could be refused for a group that is
in the table. `LeaveFacts` shows that `swap_remove` takes away the group and
nothing else.

`TableProofs`, about the subscription table, for every capacity, limit of prefixes, set of
prefixes and bound `MaxHeld` (`SubTableAssumption`, `MaxHeldAssumption`): `TypeCorrect`,
`NothingUnwantedCorrect`, `NothingMissingCorrect` and `Refinement`, that the table
implements `SubBag`. The invariant keeps `Count` below the peer's account always and
equal to it until a subscription is refused; neither half gives the other. Under it
are `AppendFacts` and `SwapRemoveFacts`: an entry that moves is counted at its new
place, so that only the number of copies of the cancelled prefix changes, also when the
last entry is itself a copy of it.

`ParserProofs`, about the greeting, for every length of the mechanism's field with room for a name
(`FieldAssumption`): `EarlyIsFinalCorrect` and `AcceptedIsEncodedCorrect`. The invariant
`GInv` says that once enough octets are there the early check has given the answer that
it gives of all that have arrived; by `EarlyLooksAtBeginning` no later octet changes
that answer.

`ParserProofs`, about the commands, for every base of an octet, every width of a value's
size, every set of octets and every body (`CommandsAssumption`, `BodiesAssumption`):
`HelloAgreesCorrect`, `ReadyAgreesCorrect`, `EncodersAgreeCorrect`, and `NeverPanicsWide`,
which is the property of run `handshake_usize32`. Two hypotheses bound the widths.
`BodiesFit`, for `ReadyAgreesCorrect` and `NeverPanicsWide`: a body is shorter
than the numbers of a value's size, and a usize has room for the sum of both, as with
64 bits; finding 4 is what happens without it. `ReadyFits`, for `EncodersAgreeCorrect`: the
READY that we write fits a short frame, as it does with 256 values of an octet. The run
`handshake_bytes` satisfies both.

There is no invariant to find, since a parser is one step: the work is in what a recursive
function computes. `Recursion` shows that a function whose value at x depends on its values
at places of smaller rank exists and satisfies its equation; it gives `Power`, the digits
(`FromBEToBE`, `ToBEFromBE`), the loop of `parse_ready_command` (`LoopTurns`, the rank being
what is left of the body) and `Whole`, the positions at which a property may begin
(`WholeReaches`). `ReadsProperty` says of one turn that it ends where a property of the
encoding ends, or fails if there is none. `LoopAgrees` then goes backwards through the
body: from a position that is reached, the loop finds the first Socket-Type there is from
that position on, or the fault that `ReferenceMetadata` names. For HELLO and the encoders
`AtBoth` suffices: what stands in a body one after the other.

`ConnectionProofs`, for a connection of either kind, every capacity of table and
context, every set of accepted credentials, every set of streams of which each is a
sequence of units for one of the two mechanisms (`StreamsAssumption`), and group
names that have a length (`NamesAssumption`, `CapsAssumption`): all the properties of
run `connection`, by `HandshakeOrderCorrect`, `WelcomeCorrect`, `EstablishedCorrect`,
`RejectionCorrect`, `SubscriptionsCorrect`, `PongsCorrect`, `MembersCorrect` and, for
the action property, `OnlyToMembersCorrect`. The inductive invariant `IInv` has these
parts:

* `TypeInv`: the fields of the connection, what it was fed, what it has sent;
* `FedInv`: state, greeting buffer, decoder and version are what the units fed so far
  make of them. The state alone says nothing of the peer: that an established
  connection has seen a valid greeting, accepted credentials and the right READY needs
  to know which frame the decoder is in, and that a greeting refused stays in its
  buffer and is refused again;
* `SentInv`: the flags `our_*_sent` and the state say what has been written (`Said`).
  The methods look at the flags only, so the order of the output is lost without it;
* `PongInv`: the PONGs written and the pending one are a subsequence of the PINGs due;
* `TableInv`: the table is `TableAfter` of the traffic for PUB; for RADIO it holds no
  group twice, only groups whose last word was JOIN, and all of those while they fit.

The heart is `FeedsTo`, which says what `feed` may do in each state without naming a
kind of socket. `PubFeeds` and `RadioFeeds` show that `feed` of either kind does it;
everything about the handshake is then proved once. How the frames of a stream change
when it grows by part of a frame or by the end of one is `FramesInHalf` and
`FramesInMore`. The reference operators recurse over
the naturals, and the prover cannot instantiate an induction theorem with a predicate:
`InductiveSet` does induction over a set of naturals instead, and `RecursionExists`
shows from it that the functions the references define exist and satisfy their
equations.

`DriverProofs`, for a blocking driver of either kind, every `RX_CAP` above 0
(`DriverAssumption`), every table capacity, every peer as above (`PeersAssumption`),
reads of any size that may fail at any time, and writes that may fail anywhere:
`ExactlyOnceCorrect`, `PongPerPingCorrect`, `BlockedOwesNothingCorrect`,
`OutputCorrect` and, for the action property, `PublishedWantedCorrect`. They share one
hypothesis, `RetriesReads`: after an error other than
one of a read the caller drops the driver. Finding 2 shows that it is needed, and run
`driver` uses a caller that satisfies it. The invariant `DInv` says of a driver that has
not ended:

* `ExactlyOnce` and `BufferInv`: the buffer is empty at `read`, and a pass of
  `drain_buffer` begins only with something left in it;
* `Sound`: connection, units fed and items written belong together. It takes `FedInv`
  and `SentInv` from the proofs of the connection, and replaces the subsequence of
  `PongInv` by an equality, PONGs written with the one pending against PINGs due:
  the driver, unlike a caller in general, loses none;
* `Settled`: between passes nothing is owed. This is what makes `feed` find
  `pending_pong` empty, so that no PING overwrites another, and what
  `BlockedOwesNothing` says at the read.

What a pass does is proved for the connection and the replies alone (`AnswersGood`
follows each write of `Replies` in its order; `PassFacts` adds the feed and the
compaction), and used by every action. `SameRadio`, `SameSteps` and `SamePasses` show
that the actions of `RadioDriver` are those of the PUB driver but for feed and replies,
so that each action is treated once.

`PublishedWantedCorrect` needs the table as well. `TableInv`, of `ConnectionProofs`, says
what the table is after the frames fed; for PUB, `PublishedWanted` then follows as a prefix in
the table is one subscribed and not cancelled since, and for RADIO as a group in it is one
whose last word was JOIN.

`AsyncProofs`, for an async driver of either kind, with the assumptions of the drivers
and `AsyncAssumption`, and none on `Retries`: `Refinement`, that `EitherSpec` implies
`ImplementsBlocking`. The module first shows that each definition of the instance
`Blocking` is the one of the async module (`SamePub`, `SameEncoders`, `SameDecisions`, ...):
the two differ only in connection and output, which the mapping replaces, and in
`WRITES_FAIL` and `READS_FAIL`, to which it adds cancellation. A lemma for each action of the
blocking drivers (`BlockingDrain`, `BlockingDrainFails`, ...) then says what a step
has to do to be that action, and each async step is shown to do it or to stutter.
What an async step does when a write ends depends on where its call began, so the
mapping needs the invariant `AInv` (`AsyncInvariance`): a `job` that waits in a write has got
from the connection and buffer that `poll` took it up with (`job.from`) as far as that
write and no further (`JobOk`), wherever it may be dropped.

`SmoltcpProofs`, for every size of `rx_buf` and of the two rings and every peer
(`SmoltcpAssumption`): `NothingLostCorrect`, `PongPerPingCorrect`, `OutputCorrect`. The loop
has no state of its own to rely on between two writes, and any write may find the socket
closed or its ring full, so the parts of the invariant `SInv` hold after every statement of
a round (`AppAt`), for each statement in turn:

* `Typed`, `Knows`: the types, and `FedInv` for what was fed;
* `Kept`: fed, `rx_buf`, socket and network are the stream, unless the connection has
  refused the peer (`RefusesPeer`). `Decided` adds that a complete greeting still in its
  buffer is a refused one; without it an empty result of `feed`, at which the loop
  throws `rx_buf` away, could be one of a peer that is not refused;
* `Queued`: what waits in the transmit ring continues what the peer has received, in the
  order of the handshake and with the four writes of a message one after the other, and
  the PONGs in both with the pending one answer the PINGs fed. It is stated while the socket is
  open and the program runs (`Open`): afterwards nothing more leaves the ring;
* `Begun`: nothing is read before the greeting is written;
* `Idle` and `Started`, between rounds: no PONG is pending and our READY is written when it
  can be, so that the next `feed` finds room for the context of a PING.

`Eats` is the lemma behind `Kept`: `feed` of a connection in these states consumes
something or refuses the peer.

Only model-checked:

* the liveness properties `StreamIsDrained`, `AllDelivered` and `GetsThrough` (the prover
  has no ENABLED).

## 5. Not modelled

* Tests and their mock transports: read as documentation of what is intended.
* Fuzz targets, `sizing/` and scripts: no logic of the protocol.
* The deadlines, logging and sleeping of the examples; what they do after an error
  is the constant `Retries`.
* The smoltcp snippet of `README.md`, which ends before it sends a greeting.
* `BufferTooSmall` of the frame header encoders, whose callers all pass nine bytes;
  `len`, `is_empty` and the other methods that change nothing.

## 6. Plan

Every invariant, every safety action property and both refinements that a passing run
checks are proved. Liveness stays with TLC. A change of the code is followed by a change of
the module that models it, the runs, and the proofs of the modules above it.
