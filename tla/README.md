# A verification project for httpadapter

TLA+ models of the Go library `powerpuffpenguin/httpadapter`, checked with TLC
and, for its core, proved with TLAPS. Paths such as `channel.go:302` are
relative to `src/`.

httpadapter lets a client make HTTP, websocket and TCP requests through one TCP
connection, the *tcp-chain*. On the tcp-chain client and server multiplex
*channels*, each of which looks like a `net.Conn`, with a receive window and
credit-based flow control. The server takes requests from its channels, makes
them, and sends the answers back.

## 1. Inventory

| component | files | state | operations |
|---|---|---|---|
| channel | `channel.go` | unsent bytes `b`, `writed`, the Go channels `write`, `confirm`, `sendConfirm`, `closed`/`ctx`, the receive pipe | `Serve`/`choose`, `serveConfirm`, `Write`, `Read`, `Pipe`, `Confirm`, `Close`, deadlines |
| ring | `pipe/read_writer.go` | `buffer`, `offset`, `size` | `Write`, `Read`, `Clear` |
| pipe reader | `pipe/pipe_reader.go` | ring, mutex and condition, `wait`, `closed` | `Read`, `Write`, `Close` |
| transports | `base_transport.go`, `client_transport.go`, `server_transport.go` | `keys` (id to channel or pending Create), the queue `ch`, `done`, the connection | the two reader loops `Serve`, `Create`, `createResult`, `postWrite`, `serveWrite`, `sendClose`, `delete`, `Close` |
| ping | `base_transport.go:38-68` | time of the last activity, timer, `active` | `servePing` |
| client | `client.go` | current transport, `keys`, `used`, `done` | `serve`, `DialContext`, `newTransport`, `Close` |
| server | `server.go`, `http.go` | `done`, listener, per connection: timer, hello, buffer | `Serve`, `serve`, `hello`, `sendHello`, `Close`, `httpListner.Accept` |
| hello codec | `core/hello.go` | none | `ReadClientHello`, `ReadServerHello`, `MarshalTo` |
| request forwarding | `server_handler.go`, `pipe/io.go`, `core/message.go` | connection to the target or the body of its answer, the two copies of a tunnel | `Serve`, `tcp`, `websocket`, `unary`, `sendOk`, `sendText`, `delayWait`, `readWS`, `writeWS`, `pipe.Copy` |
| unary client | `client_unary.go` | one goroutine per request | `unary`, `Unary`, `Body.Close` |
| tcp and websocket dialling | `client_tcp.go`, `client_websocket.go` | none | `Connect`, `Websocket` |
| websocket framing | `websocket.go` | fragment header, `closed`, `err` | `NextWriter`, `NextReader`, `Write`, `Read` |
| options | `client_options.go`, `server_options.go` | values | setters |
| command line program | `cmd/httpadapter/` | configuration | `server`, `client`, `tunnel` |

How they interact. `Client.serve` owns the current transport and hands it to
`DialContext`, which calls `Create` on it. `Create` sends a frame and waits; the
client's reader loop turns the answer into an `ioChannel` and delivers it through
`createResult`. On the server the reader loop makes the `ioChannel`, starts its
`Serve` and the handler, and answers through `postWrite`. From then on the two
`ioChannel`s talk in Write and Confirm frames through the queue `t.ch` and
`serveWrite`; the reader loops call `Pipe` and `Confirm`, and a Close frame, `delete`
and `sendClose` keep the two `keys` tables in step. `servePing` listens to both
loops through `active`. `Server.serve` decides with the hello whether a connection
becomes a transport, goes to a backend, or to `http.Serve`.

A request has a channel of its own. `Client.unary` writes metadata and body to it in a
goroutine and reads the header of the answer; the handler of the server,
`forwardConn.Serve`, reads the metadata, calls the target with the rest of the channel as
request body, and writes header and body of the answer. It closes the channel only after
`delayWait`, since `Close` drops what the channel has not sent. With status 101 the
channel becomes a tunnel: two goroutines copy between channel and target, and whoever
notices an end closes one side at once and the other 3 seconds later. A websocket
tunnel carries messages in fragments with a header each.

What is hard: every channel has three goroutines, every transport three, and they meet in
selects with several ready cases; a tunnel adds two goroutines that close the same two
connections as the handler; frames of the two directions cross; the contexts of callers
end at any moment; queues are bounded and the reader loop itself waits for room in them;
the connection may fail between any two steps. Nothing is persisted, and a tcp-chain loses
frames only by ending.

What makes each component correct:

- channel: nobody sends more than the peer's window; bytes arrive in order; credit
  is neither lost nor made up; written data is read while the channel is open; a
  close at one end ends both and releases goroutines and table entries;
- pipe reader with its ring: a queue of bytes, no lost wake-up, `io.EOF` is final;
- transports: no channel exists at one end only, a Create is answered once and
  returns, what a caller abandons is freed, a lost connection ends both transports;
- ping: returns with its transport, never waits on a dead timer, pings when idle;
- client: unique channel ids, no transport outlives `Close`, `Close` frees callers;
- server: no leaked connection, one user of the buffer at a time, bounded hello,
  `Close` makes `Serve` return;
- hello codec: what is written is read back or refused, through any buffer and from a
  connection that ends anywhere; both sides draw the same conclusion from a handshake;
- forwarding, unary client, dialling: an answer and the data of a tunnel are passed on
  whole before the channel is closed over them; a call returns with its context; the
  handler, its copies and the target end with the channel; nobody keeps a channel that
  nobody can close;
- websocket framing: messages come out as they went in, cut at most at the end - but for
  the empty message of a target, which the code drops.

## 2. Modules

| module | models | to read with it |
|---|---|---|
| `CreditStream` | abstract: two byte streams with credit | specification of `IOChannel` |
| `IOChannel` | both ends of one channel and what the transports do to it | `channel.go`, cases of the reader loops |
| `MCIOChannel` | values of its constants | |
| `IOChannelProofs` | inductive invariants and refinement, proved | |
| `ByteQueue` | abstract: a queue of bytes | specification of `ReadWriter` |
| `ReadWriter` | the ring buffer | `pipe/read_writer.go` |
| `PipeReader` | mutex, condition and flag of the receive pipe | `pipe/pipe_reader.go` |
| `Pipe` | `PipeReader` with an instance of `ReadWriter` | both files |
| `PipeProofs` | invariant of `PipeReader`, the ring is a queue, proved | |
| `Transport`, `MCTransport` | both transports, all channels of a tcp-chain | the three `*_transport.go` |
| `TransportProofs` | one Create, one answer, one channel at each end, and who answers a Create that waits: the books, proved | |
| `Ping`, `PingProofs` | `servePing`; its invariant, proved | `base_transport.go` |
| `Client`, `ClientProofs` | the `Client`; its ids and the end of its transports, proved | `client.go` |
| `HelloCodec` | both hellos, their writers and readers, and what each side concludes | `core/hello.go`, `Server.hello`, `newClientTransport` |
| `Server` | the `Server`, on top of `HelloCodec` | `server.go`, `http.go` |
| `ServerProofs` | its invariants and both hellos, for any versions and buffers, proved | |
| `Forward` | one forwarded request, from `Client.unary` to the target and its tunnel | `client_unary.go`, `client_tcp.go`, `client_websocket.go`, `server_handler.go`, `pipe/io.go` |
| `ForwardProofs` | answers and tunnels are passed on whole, messages are read back, proved (extends `MCForward`) | |
| `SequenceLemmas` | induction over numbers, recursive functions, flattened sequences | used by `ServerProofs` and `ForwardProofs` |
| `WebsocketFraming` | fragments of websocket messages, both directions | `websocket.go`, `readWS`, `writeWS` |
| `MCForward` | both together, with the property that joins them | |

The modules split the system along the interfaces of the code. `IOChannel` takes one
channel and looks at every byte, and of the transports keeps one FIFO per direction
and the `keys` entry; `Transport` takes many ids and looks at the tables, the queues
and the contexts, and of a channel keeps only whether it is open. `IOChannel` uses the
receive pipe as an interval of byte positions; that the pipe
justifies this (a queue with a capacity, no lost wake-up, nothing after `io.EOF`) is what
`Pipe` shows. `Forward` uses a channel as `IOChannel` implements it: a window, data in
order, a close that drops what is not sent and reaches the peer behind what was. `Client`
sees a transport as a counter of ids, `Server` sees it as running or ended. `Ping` shares
with `Transport` only the queue.

Every module has one type invariant. Where a run checks it, it is the first conjunct of
the invariant named after the module (`PingInv`, `ClientInv`, `ServerInv`, `TransportInv`,
`ForwardInv`) or of the inductive invariant (`IndInv`, `PipeInv`).

### How state and actions correspond to the code

**IOChannel.** The k-th byte that an end accepts is the number k, a slice is an interval
`[lo, hi]` and stands for the bytes lo+1..hi, its length is hi - lo. `b[e]` is the
variable `b` of `Serve`; its `lo` is the number of bytes already sent. A frame Confirm
carries the interval it is about, and handlers use its length only. `pcServe` is `choose`
in the select of `choose`, `send` at `ch <- data`, then `delete` and `sendClose` in the
deferred function. A select with several ready cases is a choice of actions, so that every
outcome of Go's random choice is covered. `Write` is the meeting of `c.write <- buffer`
with the case of `choose`. `ReaderWrite` takes a frame in pieces, as the reader loop does
with its buffer. `ioChannel.Close` cancels the context and closes the pipe in two
statements; the model does both at once, the only effect of the gap being data that is
stored for a reader that is already told to leave. `sendClose`, of the deferred function
as of the reader loop (label `at`), waits for room in `t.ch` or for the end of the
transport, and the loop takes no frame meanwhile. A full queue is a wait that may last any
time, except for `Jam`: then it is full for good (`full`), the loop is in `sendClose`, for
this or another channel, and only `t.done` lets anybody go on. That stands for the states
`Stuck` and `Jammed` that `Transport` reaches.

**ReadWriter.** One step of `Read` is one turn of its loop, since the offset wraps
between turns. **PipeReader.** Code inside the mutex is cut where it reads `closed`,
which others set without the mutex; that the field is read without an atomic operation
is covered by the same cut. **Pipe.** The ring is `ReadWriter` with `size` replaced by
`size - Len(got)`: a Read takes its turns with the mutex held, and for `PipeReader`, which
sees it only when it is complete, the bytes copied so far are still in the pipe.

**Transport.** `entry[e][i]` is the record in `keys` (absent, pending, with a channel, or
left over from a refusal), `chan[e][i]` the channel with its goroutine `Serve`, `dial[i]`
the call of `Create`, `offer[i]` the goroutine that `createResult` leaves behind,
`posted` those of `postWrite`. `confirms` is history: what `ioChannel.Confirm` has done so
far; with an earlier confirmation that `Serve` may not have taken, the next may be reported
for an overflow (`ReaderOverflow`), after which the client closes its channel and the server
keeps it. A reader loop that waits for room in `t.ch` is at label
`sendClose`, and takes no frame meanwhile. `wire` is the connection with its buffers.
The panic of `client_transport.go:155` ends the client's process and so the connection.

**Ping.** Ages and distances instead of times; equality of `time.Since(at)` and
`duration` is possible in ticks. **Client.** `reply[d]` is the one-place channel that a
caller passes to `serve`; `Create` only draws an id.

**HelloCodec.** A hello on the wire is a record of its fields and of `got`, the number of
its bytes that arrive before the connection ends; every early return of the readers is a
comparison of lengths, and they are kept in the order of the code. **Server** takes from
`Hello(m)` where it goes on with a hello `m`; its inputs are one hello for each way that
can go, with lists of 246 and 256 bytes, on which the reader slices past its buffer: nothing
recovers from that panic, and the process ends (`HelloPanics`, `Alive`).

**Forward.** Data is counted in units. `call` is the caller of `Unary`, `Connect` or
`Websocket` and what it does with the answer, `go` the goroutine of `Client.unary`, `h`
the handler, `copy` the two goroutines of a tunnel; a copy at `closeTarget` or `closeChan`
has closed one side and sleeps before it closes the other. `pending` is what `Serve` of
the channel has taken from a Write and not sent; frames in flight are merged into `Send`,
and the Close frame arrives behind the data (`CloseArrives`). `Upload` is the http
transport, which reads the request body while the handler goes on. A Read of the caller's
Body is a step of the caller (`GoBodyRead`, `GoBodyEnds`) and its write one of the
goroutine (`GoBody`). `moved.sent` counts what a target has sent, whether a copy has read
it or not; an ended target can still be read to its end, one that was closed cannot.
`late`, `ended` and `cut` are history: a wait was over before all was passed on; the
target has ended its connection; a failed write has closed the target at once. `wide` is
an answer whose metadata is longer than its 16-bit length can say
(`server_handler.go:404`).

**WebsocketFraming.** A stream is a sequence of numbers, in which the two bytes of a length
are one. `Written` and `Relayed` put messages into it (client and server); `Rest` and
`Messages` are what the loops of both readers find in it, which differ only in what they
do with a type they do not know. A message of a target that ends before its first Read gives
anything is dropped by `readWS` (`Relayed`); `Kept` is the rest.

## 3. Runs

| run | question | result |
|---|---|---|
| `channel_safety` | order of bytes, confirmations, where each byte's credit is, the invariant of the proofs, the refinement of `CreditStream`; under closes and link loss | holds |
| `channel_live` | written bytes are read, with gathering and a shut window; one end closed or the link lost, both released, with ends that jam | holds |
| `channel_false_overflow` | a correct peer is never reported for an overflow | violated |
| `pipe` | with its ring: bytes come out as from a queue, a short `Read` has emptied it; wake-ups, `io.EOF`, the invariant of the proofs, `Close` | holds |
| `transport_limit` | two ids, one channel allowed, queues of one: one answer, an owner | holds |
| `transport_live` | one id with data frames, queues and wires of one, an overflow: no orphan, Create returns, abandoned channels go, link loss ends both | holds |
| `transport_panic` | a cancelled Create does not break the client | violated |
| `ping` | timer handling, end of `servePing` | holds |
| `ping_idle` | an idle connection is pinged | violated |
| `client` | ids, transports and callers of a Client, `Close` | holds |
| `server` | hellos are read back and both sides agree; connections, buffer, handoff, `Close` | holds |
| `forward` | answers and tunnels whole, calls return, handlers end, nothing stays open; websocket messages read back | holds |

What the violated ones show, each a statement of a document or comment that the code
does not keep:

- **False overflow** (`channel.go:302`). Two confirmations that add up to the window
  are what a peer sends that has read the whole window; the sum is compared with `>=`.
- **Cancelled Create** (`client_transport.go:155`). `val.channel` is nil in that branch.
- **Idle ping** (`base_transport.go:52`). The test is the wrong way round: a timer that
  finds the connection idle for longer than the duration waits again.

More behaviours show up in the models without a run of their own: no document says
otherwise, or the property that would forbid them restates the code. Each can be
reproduced by the change named.

- **Overflow at the server** (`server_transport.go:181`). The server sends a Close and
  keeps its channel; the client drops its entry and has nothing left to send a Close
  for. `CloseAgreement` names the exception; without it the property fails with windows of
  two bytes and two bytes written at the server (`Values(2, 2)` and `Values(0, 2)`). So does
  `NoOrphan` in `transport_live`: the channel of the server is then open with nobody but its
  handler to close it.
- **Refused Create** (`client_transport.go:171`). Codes 1 and 2 leave the entry behind
  until the transport ends, where `document/transport.md:91` has the client release it.
  `NewChannel` models this, and `entry` has a value for it.
- **Forgotten Create** (`base_transport.go:148`). With a full queue the answer is sent by
  a goroutine and may arrive after the Close of the same channel: that Create waits for
  its context (`Forgotten`). `WaitingKnown` and `DialReturns` name the exception, a channel
  of the server that is gone already; without it `WaitingKnown` fails with two ids, one of
  which fills the queue, `QueueCap = 1` and `Channels = 0` (no limit).
- **Transport that never ends** (`base_transport.go:72`, `158`). `serveWrite` ends with a
  write error while the reader loop waits in `sendClose` for room in the full queue: nobody
  empties it, nobody closes `t.done`. `LinkLossEndsBoth` names this state (`Stuck`) and
  says that it is the only exception; without it the property fails in `transport_live`.
  `DialReturns` and `AbandonedFreed` name it for their end. For a channel it is the state
  `Jammed` of `IOChannel`, of which `Jam` is the way in: `Released`, `CloseAgreement` and
  `Delivery` except such an end, and fail without that, but hold for the other one.
- **Both loops wait** (`base_transport.go:164`). Confirm frames for a channel that is gone
  at both ends are answered with Close frames until both queues and both directions of the
  connection are full (`Jammed`, in `DialReturns` and `AbandonedFreed`). TLC reaches the
  state with one id, queues and wires of one frame and three Write frames each way
  (`Values(3, 3)`), not with the two of the server in `transport_live`. Then no ping
  leaves either. `IOChannel` has this state among the jammed ones, in every channel of the
  tcp-chain.
- **A list of versions longer than what is left** (`core/hello.go:101`). A list of 246 to
  256 bytes passes the test against the buffer of the server and is read into a slice that
  is shorter. `ReadClientHello` returns "panic" there, which ends the server's process:
  `HelloBounded`, `HandoffEnds` and `CloseReturns` hold unless it does (`~Alive`).
  `ClientHelloReadBack` and `HandshakeAgrees` speak of lists that fit what is left.
- **A websocket message without Write** (`websocket.go:174`). `Close` sends the last
  fragment without the type, and the reader takes what follows for the rest of a header:
  `Written(t, << >>)`. `FramesReadBack` takes messages of a client with at least one Write,
  which may be empty.
- **The empty message of a target is dropped** (`server_handler.go:244`). The first `Read`
  returns `io.EOF`, and `readWS` returns without writing a frame, where
  `document/forward.md:113-124` has a frame, with at least one part, for every message. With
  `ms` in place of `Kept(ms)` in `LostToClient`, `FramesReadBack` fails.
- **A failed write to the target loses what it has sent** (`pipe/io.go:24-26`,
  `server_handler.go:229`). The copy to the target closes it at once, the other copy may
  have more to read from it. A websocket fails like that also with the target open, when
  its writer refuses the type of a message (`server_handler.go:294`). `TunnelWhole`
  excludes what was not read by then (`cut`), and says that what was read is passed on.
- **A Body that blocks** (`client_unary.go:50`). The goroutine of a call stays in `io.Copy`
  while the caller's `Body.Read` does, though the call has returned with its context.
  `CallReturns` names this as the one way for the goroutine not to end.
- **An early answer is lost** (`client_unary.go:50`). The request body is written whole
  before the answer is read. A target that answers early and reads no more leaves the
  goroutine writing until the handler closes the channel, and the call fails.
- **A request body cut short** (`server_handler.go:327`). When the channel closes in the
  middle, the LimitReader ends with `io.EOF`, as if the body were complete; the context of
  the request is cancelled at about the same time, and the http transport decides.
- **Metadata of more than 65535 bytes** (`server_handler.go:404`). Its length is cut to 16
  bits; the call fails. The client tests its own metadata (`client_unary.go:27`).
- **A computed length that is not used** (`client_unary.go:157`). `Unary` computes `bodylen`
  and passes `req.BodyLen`; the requests of `Forward` have a Body when they have a length.
- **A target that never reads.** A copy blocked in a write to it keeps its goroutine and
  the connection for good; `HandlerEnds` assumes a target that takes what it is sent.

### Bounds

- *channel*: windows of 1 to 6 bytes, up to 3 bytes written per end, frames of at most 2
  bytes (`MaxUint16`) taken one byte at a time (`RecvBuf`), one place in `sendConfirm`.
  That is small enough to finish and large enough that a write exceeds window and frame,
  confirmations are split, gathered (a window of 6 has a third of 2), merged, and fill
  `sendConfirm`. Window 1 at the server shuts after every byte (`channel_live`); windows 6
  and 3 leave room to merge confirmations short of an overflow (`channel_safety`). In
  `channel_live` either end may jam at any moment (`CanJam`). An end that is jammed only
  does less, so that the runs of invariants have none (`CanJam = {}`); the theorems are
  for any. Larger instances add no new guard: only comparisons with 0, with the window and
  with the two sizes are made, and the main safety properties are proved for all values.
- *pipe*: a ring of three cells and slices of up to two bytes, so that a copy begins and
  ends at each cell, and a Read of two bytes has both one and two turns; two readers, a
  writer and two closers: enough for a wake-up to go to the wrong reader and for a Close to
  lose the swap to another.
- *transport*: queues and wires of one frame, so that `postWrite` and `sendClose` find the
  queue full and the reader loops wait. In `transport_limit` two ids share a limit of one
  channel; in `transport_live` one id carries two Write frames of the server
  (`MaxWrites`), so that the client may confirm twice and the server find an overflow. The
  run also finishes without error with two of the client, and with one of the client and
  two of the server, which is too slow to repeat. `NoOrphan` is checked with one id,
  channels of a tcp-chain meeting in the queues only, and proved for all.
- *ping*: a duration of three ticks, ages up to eight told apart.
- *client*: three dials, two transports, ids up to two, so that a transport is replaced
  and its successor starts again.
- *server*: two connections and every combination of options. The codec is checked with
  the code's sizes (11 bytes of flag, buffers of 128 and 256) and every length at which one
  of its comparisons changes; `MaxUint16` is 300, above both buffers.
- *forward*: a window of one unit, so that every Write may wait; request bodies of up to
  one unit and answers of up to two, either of which may be shorter than announced; three
  units through a tunnel, sent by its two sides in any division (`MaxTunnel`): one in the
  channel, one in the hands of a copy and one behind it. Two of each side were checked as
  well, without error, and are slower. Framing: fragments of up to two numbers, slices of
  up to three, messages of up to two slices, those of a target also of none, streams of
  two messages and every point at which they can break off.

Deadlock is checked in `pipe`, `ping` and `ping_idle`; elsewhere the system stops when every
channel, dial or connection is done, and the cfgs say so.

Symmetry is used for the ids of `transport_limit` only, which checks invariants alone.

### Fairness

A goroutine that can go on does (weak fairness of each goroutine's steps). Strong fairness
is used in two places: a goroutine that waits for a `sync.Mutex` gets it in the end, for
which Go's mutex has its starvation mode; and a select that finds the done channel ready
again and again takes that case in the end, Go choosing at random (`Ping`, `Client`). In
`IOChannel` the reading application keeps reading, as `net.Conn` users do, and a queue
`t.ch` that is full has room in the end unless the transport is jammed; nothing makes a
jammed transport go on but its end.

In `Forward` a target in a tunnel takes what it is sent, and a request or a dial may hang
as long as its context is not done (`HandlerStep`, `TargetStep`). The channel is that of a
transport that is not jammed. A wait of 3 or 5 seconds may be over at any moment; when it
is before all that it waits for was passed on, `late` records it, and the two properties
about whole data step back. A Read of the caller's Body (`GoBodyRead`, `GoBodyEnds`) and
what a target sends are under no fairness.

Nothing is assumed of callers, peers or the network: no call, no close, no hello and no
failure has to come, except that a read from a connection that is closed fails.
`Client.newTransport` has no deadline, so that it returns is not assumed:
`CloseFreesDials` holds without it, and `CloseEnds` has it as its premise.

## 4. Proofs

Every safety property that a run checks, but `FramesReadBack`, is also a theorem, for
every value of the constants; so are the refinements. The theorems are in the modules
`*Proofs`, which extend what they prove about.

**Channel** (`IOChannelProofs`), for all windows, frame sizes, buffer and queue lengths and
any amount of data. A first layer says that nothing is out of place:

- `Invariance`: `IndInv` is invariant. For the direction e -> p all positions are in one
  line: confirmations applied and stored <= Confirm frames in flight <= being confirmed
  <= queued in `sendConfirm` <= being read <= read from the pipe <= in the pipe <=
  Write frames in flight <= sent <= accepted. `Chain` and `SliceChain` say this of the
  sequences. `WindowRespected` and `ConfirmWithinWrited` alone are not inductive: a
  confirmation in flight must be known to stay below what is read, and so on back to
  the pipe. `SenderInv` adds that `writed` stays within the window and below what is
  sent, which keeps the unsigned subtraction of `channel.go:153` and `158` from wrapping.
- `TypeCorrect`, `FlowControl`, `ConfirmBound`: consequences.
- `Refinement`: every step is a step of `CreditStream` or a stutter, using `IndInv`.

A second layer, `WholeInv`, says that nothing is missing: as long as the receiving end is
open the Write frames in flight leave no gap behind the pipe (`DataWhole`), and as long as
both are, Confirm frames and `sendConfirm` leave none either (`AckWhole`). It gives

- `ByteOrder` (`InOrder`) and `CreditKept` (`CreditConserved`). The second needs every
  place that holds credit; `LifeInv` says that the gathering goroutine has nothing in hand
  while it waits, and that `Read` has handed over what it took.

Lemmas on `Append`, `Tail` and the replacement of a head say what each does to a chain and
to what it covers; each action then has a lemma, with a step per part that it touches.

**Pipe** (`PipeProofs`), for any finite set of readers, any writers and closers, any
window and slices. `PipeInvariance`, `NeverLostWakeup` and `EOFFinality` are about
`PipeReader`. The strengthening says who holds the mutex at which label, that the notify
list is the set of parked readers, and, for the window between the test of `closed` and
`cond.Wait`, that a Close that has swapped the flag has its broadcast still ahead of it
(`ParkInv`). `PipeImplementsReader` carries them over to `Pipe` (`PipeKeepsInvariant`),
whose ring takes slices and turns. `RingIsQueue` is the refinement of `ByteQueue`:
`RingInv` says that between calls nothing is half read; an index that has passed the end
once is `Wrap`ped (`ModWrap`); `WriteAppends` follows a slice through both parts of its
copy, `TurnTakes` one turn of `Read`, and `TakeStep` puts the turns together to the oldest
bytes. `ShortReads` is an action property from the same invariant.

**Transports** (`TransportProofs`), for any ids, limits, capacities of queues and wires
and numbers of Write frames. A direction of the tcp-chain is one sequence, the wire and
the queue behind it, and is looked at only through how often it has a frame (`Count`). A
Create goes through stages: its frame, the answer in flight or left to a goroutine of
`postWrite`, the answer in the hands of the client's loop. `TokenInv` says that a channel
has at most one of these at a time, and none before it was asked for. None of
`AnsweredOnce`, `Owned` and `NoOrphan` is inductive by itself: that a late answer finds no
channel needs that nothing was sent because of it (`FreshInv`) and that the server knew
nothing before (`AskedInv`); that no channel is orphaned needs that a Close under way
belongs to a channel that is not open, or is that of a server that has reported an
overflow (`CloseInv`). `BooksBalance` is the invariant of all of this, from it
`TransportTypes`, `CreateAnsweredOnce`, `ChannelsAreOwned` and `NoChannelForgotten`.
`NoCreateForgotten` adds a layer that follows a waiting Create: what every step does to
network, table and call of a channel is stated once (`WaitNet`, `WaitEntry`, `WaitDial`)
and suffices for all of them.

**Ping** (`PingProofs`): while `servePing` waits for room in the queue its timer is drained,
and an armed one has time left; without these two `TimerLive` is not inductive.

**Client** (`ClientProofs`), for any dials and transports and any largest id.
`NoTransportOutlivesServe` needs that `keys` is what was started. `IdsAreFresh`: ids are
drawn later than they are counted, and by fewer than were counted; so `used` bounds the
number of dials that a transport was handed to (`UsedInv`), those bound the ids drawn from
it, and the counter is their number (`IdInv`), which therefore has not wrapped around.

**Server** (`ServerProofs`), for any connections: `BufferIsExclusive` and `NoConnLeaks`,
with the fact that `serve` has a result of the hello only when it has ended
(`OutcomeInv`). A hello that panics ends the process and changes nothing else. The other
theorems are about the codec, which is a set of functions: `ServerHelloReadBack` and
`AnswerUnderstood` follow the answer of a server of any code, window and message through
any buffer that holds it; `ClientHelloIsAsWritten` says that what the server accepts, of a
hello of any versions, cut anywhere and read through any buffer, is what `MarshalTo`
wrote, `ClientHelloIsAccepted` that none is refused that is whole and fits;
`HandshakeUnderstood` puts both directions together. Two facts carry them: `JoinLength`,
that the size `MarshalTo` works out is the length of what `strings.Join` gives; and
`SplitJoin`, that `Split` undoes `Join` for lists without commas (`JoinAt` says what
stands where in the joined text, `SplitFrom` solves the recursion of `Split`, and an
induction from the last version to the first takes one comma at a time). The properties
that the run checks, `ClientHelloReadBack` and `HandshakeAgrees`, take finite sets of
hellos; `SafeClientHelloReadBack` and `SafeHandshakeAgrees` derive them.

**Forward** (`ForwardProofs`), for any windows and lengths. `TunnelInv` relates the labels
of call, goroutine, handler and copies to who has closed what: in particular a copy that
closes the target after reading the end of the channel has left nothing in the pipe
(`UpInv`). That is the half of `TunnelWhole` about the way up. For the way down `WholeInv`
counts: as long as nothing has disturbed the exchange (`Undisturbed`: the tcp-chain is up,
no wait was over too early, the client has not given up), what has arrived is what was
sent (`Arrived = Sent`), and the channel is closed only when nothing is pending
(`CloseOrder`). `DrainInv` relates that to what the target sent: it is closed only when
all of it has been read, unless a failed write has closed it (`cut`). `AnswersAreWhole`
and `TunnelsAreDrained` follow.

**Framing** (also `ForwardProofs`), for any messages, in any Writes, and streams that
break off anywhere. `Carries(s, d)` says of a piece of a stream, at whatever place it
stands, that the loops over it read the data `d` from it if it is there whole, and a
beginning of `d` if it is not. A fragment has that (`FragmentCarries`), it is kept under
concatenation (`CarriesConcat`), therefore fragments have it in any number
(`CarriesFlatten`) and a message is read as its data (`MessageRead`). `StreamRead` goes
from the last message to the first. `MessagesReachTarget` and `MessagesReachClient` are
the result for all messages. The second has the messages of a target as it sends them,
empty ones included, of which nothing is in the stream: it is the stream of `Kept(ms)`
(`KeptStream`). `FramesReadBack` is checked with TLC only, on finite sets of messages that
are instances of these theorems.

Induction over data, for `Split`, the two reading loops and flattened sequences, is done
in `SequenceLemmas` without an operator as a parameter: the predicate is written as a set
of numbers, and `Induction` says that such a set has all numbers if it has 0 and
successors. `Recursion` says that a function given by such an equation exists, so that
`CHOOSE` finds it.

Assumptions: only the named ASSUMEs on constants (positive window and sizes, disjoint
finite sets, `nil` and `none` not being transports), which TLC evaluates in the runs of
those modules.

Model-checked only: all liveness, since it depends on fairness and ENABLED, which the prover
does not handle.

## 5. Not modelled, and the plan

Not modelled:

- the options: setters; their values are CONSTANTS or choices of `Init`;
- `cmd/` with its web assets and scripts: configuration around the library. The program
  `tunnel` joins a listener and `Connect` with two copies, as the server does;
- the deadlines of a channel. They only make `Write` give up before it hands anything
  over; that `SetWriteDeadline` alone does nothing (`channel.go:231`) is in the hazards;
- the contents of headers and metadata, and the pooled buffers of `forwardConn`;
- that `httpConn` (`http.go`) gives out again the bytes that the hello has read.

The order in which the project is extended:

1. A specification of the channel as its users see it, implemented by `IOChannel` and used
   by `Forward` in place of its own actions of the channel.
2. `Deadlines` of `ioChannel.Write`, and the program `tunnel` as a second pair of copies
   behind the first.
