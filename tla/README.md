# cpp-CAN in TLA+

A verification project for cpp-CAN, a C++ library of CAN buses and the protocols
above them. It holds TLA+ modules translated from the code, TLC configurations
that check them on small instances, and TLAPS proofs. Paths in this file are
relative to the root of the repository; `PROJECT.json` names the same files with
the prefix `src/`, the directory of the checkout.

## 1. The system

```
   cli/main.cpp        j1939::Bus       isotp::Conn     safety::Protector/Receiver
       |                   |                 |              (payloads only)
   CanAdapter              |                 |
       |                   |                 |
       +---------------- can::IBus ----------+        dbc::DB (text -> signals)
                        /         \
             virt::Bus             socketcan::Bus -- kernel socket, reader thread
                        \         /
                        Chan<Frame>  (one per subscription)
```

| Component | State | Operations | Used by |
|---|---|---|---|
| `Chan<T>` (`include/can/channel.hpp`) | `buf_`, `capacity_`, `closed_`, one mutex, two condition variables | `send`/`push`, `try_send`, `send_drop_oldest`, `recv`, `recv_for`, `try_recv`, `close` | every other component: it is the only way frames reach a subscriber |
| `virt::Bus` (`src/virtual/bus.cpp`) | `mu_` (shared mutex), `closed_`, `subs_`, six atomic counters | `send`, `subscribe`, `close`, `close_with_drain`, `health`, `metrics`, `loan`, `send_loaned` | application threads, all at once |
| `isotp::Conn` (`src/isotp/transport.cpp`) | the locals of `send` and `recv`, one subscription `rx_ch_` shared by both | `send`, `recv`, `wait_fc`, `recv_cf` | one thread that sends, one that receives |
| `safety::Protector`, `Receiver` (`src/safety/e2e.cpp`) | `seq_`; `last_seq_`, `first_`, a mutex | `protect`; `unwrap` | senders and receivers of safety payloads |
| `j1939::Bus` (`src/j1939/pgn.cpp`) | source address; per subscription a thread with a map of BAM sessions | `send`, `subscribe`, `send_tp`, `subscribe_tp`, `close` | application threads |
| `socketcan::Bus` (`src/socketcan/bus.cpp`) | `fd_`, `closed_`, `subs_`, mutex, reader thread | `send`, `subscribe`, `close`, `read_loop` | application threads and the kernel |
| `CanAdapter` (`src/can.cpp`) | an `IBus`, an atomic `seq_`, one bridge thread per subscription | `send`, `subscribe`, `close` | RELAY applications, the command line tool |
| Frame rules (`src/can.cpp`) | none | `validate_frame`, `Filter::matches`, `to_message`, `from_message` | every bus |
| `dbc::DB` (`src/dbc/parser.cpp`) | messages and signals; while parsing, the current message | `parse`, `decode`, `physical_to_label` | applications |
| Command line tool (`cli/`) | none | `send` and `convert` on standard input and output; `version`, `capabilities`, `status` | users |
| Interoperability harness (`interop/`) | of `exec_capture`: a child process, a pipe, a deadline | `run_writer`, `run_reader`, `exec_capture` | the two-process tests |

How they interact. A bus puts a frame into the channel of each matching
subscription; what happens when a channel is full is the subscription's
back-pressure policy. `isotp::Conn` and `j1939::Bus` are clients of a bus: they
subscribe without options and so get a `DropNewest` channel of 64 frames, and
they cannot see what it dropped. Everything that ends, ends by `close`: the bus
closes its channels, a channel wakes its waiters, a thread that reads a channel
sees it closed and empty and closes its own output.

What is hard here:

* **Interleaving.** Senders walk the subscriptions concurrently under a shared
  lock; `notify_one` goes to one waiter while another thread takes the item;
  the two threads of an ISO-TP connection read one channel; `unwrap` checks the
  checksum before it takes its mutex.
* **Blocking.** A `Block` subscription stops a sender that holds the shared lock
  of the bus; `close` must release everybody.
* **Loss, repetition, time-outs.** Frames are dropped by full channels and by the
  medium; `wait_fc`, `recv_cf`, the BAM session timer T1 and `close_with_drain`
  race with late answers. `exec_capture` polls a pipe, a process and a clock in turn.
* **Numbers that wrap.** The ISO-TP sequence number (4 bits on the wire), the E2E
  counter (32 bits), the sign bit of a signal as long as its integer.
* **Limits.** Channel capacity, number of BAM sessions, payload lengths, a pipe that fills.
* **Order of lines.** What a line of a DBC file belongs to, and what of a stream of
  messages has been sent when one of them is bad.

What makes each component correct, in short: the channel is an atomic bounded FIFO
that loses no wake-up; the bus keeps each sender's order, skips no subscriber,
counts what it drops, and leaves nothing open or growing after `close`; ISO-TP and
BAM deliver whole payloads or none and every call returns; the E2E receiver hands
out undamaged payloads in an unbroken sequence and refuses nothing that is in
sequence; what a J1939 ECU or a RELAY node hands out stands for what was on the wire;
a database says what its file says; a stream is sent up to its first fault; and
`exec_capture` returns with everything its process wrote.
`PROJECT.json` lists the hazards behind these at their lines.

## 2. Modules

| Module | Models | Extends / uses |
|---|---|---|
| `BoundedChannel` | what `Chan<T>` promises: atomic operations on a bounded FIFO and a flag | |
| `Chan` | `Chan<T>` at the level of its critical sections and wait sets | `INSTANCE BoundedChannel` |
| `ChanProofs` | theorems about `Chan` | `Chan`, TLAPS |
| `VirtualBus` | `virt::Bus` | channels as in `BoundedChannel` |
| `VirtualBusProofs` | theorems about `VirtualBus` | `VirtualBus`, TLAPS |
| `IsoTp` | two `isotp::Conn` and the medium between them | |
| `IsoTpProofs` | theorems about `IsoTp` | `IsoTp`, TLAPS |
| `InOrderStream` | what the E2E protection promises: payloads in order, each at most once | |
| `E2E` | `Protector`, `Receiver`, the medium, several callers | `INSTANCE InOrderStream` |
| `E2EProofs` | theorems about `E2E` | `E2E`, TLAPS |
| `J1939Bam` | `send_tp`, the thread of `subscribe_tp`, the medium, other ECUs | |
| `J1939Frames` | `send`, the identifier codec, the thread of `subscribe` | |
| `J1939Proofs` | theorems about `J1939Bam` and `J1939Frames` | both, TLAPS |
| `Frames` | frame rules, conversion to and from messages, the kernel's frames | |
| `SocketCan` | `socketcan::Bus` and the kernel socket | `Frames` |
| `RelayNode` | `CanAdapter` over a `socketcan::Bus` | `SocketCan` |
| `RelayNodeProofs` | theorems about `RelayNode` | `RelayNode`, TLAPS |
| `Dbc` | the DBC parser line by line, `Signal::decode`, `physical_to_label` | |
| `JsonLines` | JSON objects, base64 and hexadecimal of the two tools | |
| `Cli` | `cpp-can-cli`: `main`, `convert`, `send` | `JsonLines`, `Frames` |
| `Interop` | a writer and a reader process, each under `exec_capture` | `JsonLines` |
| `ToolsProofs` | theorems about `Dbc`, `Cli` and `Interop` | all three, `SequenceLemmas`, TLAPS |
| `SequenceLemmas` | lemmas about appending to a sequence and about its ends | TLAPS |
| `MC*` | constants for TLC; which of several scenarios a behaviour is about | the module after `MC`; `MCTools` extends `Dbc`, `Cli`, `Interop` |

Each module keeps definitions named `X_Something`, marked "Fault": a version of `X`
with a plausible mistake, used by the mutants of `PROJECT.json` to show that the
properties notice it. They are not part of any specification.

### Chan and BoundedChannel

A critical section - from the acquisition of `mu_` to its release or to the wait
that releases it - is one action. A condition variable is the set of threads
blocked on it (`notEmpty`, `notFull`). Notifying, timing out and waking
spuriously move a thread to `woken`: it has left the wait set, must win `mu_`
again and then evaluates the predicate of the `wait` again, so other threads may
overtake it. `notify_one` picks any waiter. The step of an operation is therefore
enabled for a thread that has just called it and for a woken one, and it is the
same step: acquire, test, act or block. `push` forwards to `send`.

`BoundedChannel` has the same `buf`, `closed`, `op`, `item`, `ret` and no wait
sets. The refinement mapping is the identity on those five variables.
`RecvFor` may give up at any time the buffer is empty and never when there is
an item: `wait_for` tests its predicate once more after the deadline.

### VirtualBus

`mu_` is the pair `readers`, `writer`. `send` is `SendInvalid | SendClosed |
SendEnter`, then per subscription `Skip`, or `DropNewest | DropOldest | Block`
followed by `Tally` - the channel operation and the atomic counter are separate
steps, other senders run between them - then `SendReturn`. `Block` is enabled
only when the channel has room or is closed: until then the sender stays in
`readers`. `close` is `CloseEnter`, one `CloseChannel` per subscription,
`CloseReturn`; consumers see their channels closed one by one. `close_with_drain`
is the loop `DrainScan`, `ScanEmpty`, `ScanNotEmpty`, `ScanDone`, `DrainTimeout`
around them: `all_drained` takes the lock shared and gives it back before
`close` takes it again. The operations of a channel are atomic, which the runs
and proofs of `Chan` justify. `validate_frame` appears through the
frame id `BadId`. The byte counters follow the frame counters and are left out.

History variables (`accepted`, `done`, `base`) record what entered each channel,
which sends succeeded, and which sends had begun when a subscriber arrived; no
guard reads them.

### IsoTp

A payload is a number and a length; a frame carries the interval of bytes it
transports, so `Integrity` can say of a reassembled buffer that it is one
payload, whole, in order. `snd[e].stage` is the place in `send` (the first wait,
the wait after a `Wait`, the wait at the end of a block, the loop), `rcv[e].stage`
that in `recv`. Both read `rx[e]`, and each throws away the frames of the
other kind (`DiscardFrame`, `SkipFrame`), as the code does. The bus is
`Transmit`: the peer's channel takes the frame, drops it when full, or the medium
loses it. A receiver of this library answers only clear-to-send; `FlowStatus` adds
another ECU's Wait and Overflow, with `Resume` for the flow control it sends after a Wait
(one of `AfterWait`). The
STmin sleep changes no state. `rcv[e].buf` lists the chunks `recv` has put together and
`rcv[e].size` their bytes; they differ from what was sent when a chunk is missing.

`Retries` and `Patient` describe the environment: whether the application calls
`send` again after one that failed, and whether time-outs are so long that one
fires only when nothing else can happen.

### E2E

A payload is the number of the call of `protect` that carried it. `unwrap` is
`Check` (length and checksum, no mutex) and then `Accept` or `Reject` (mutex held):
callers may overtake each other in between. The medium delivers any frame of
the last `Lifetime` ones, any number of times in any order, unchanged or damaged
in one of the ways `Damaged` lists. The checksum is ideal - equal only on equal
contents; CRC-16 is weaker and its arithmetic is not modelled yet.

### J1939Bam

`raw` is the subscription of the reassembly thread, `Read` one iteration of its
loop: the sweep of expired sessions is part of every iteration, including those
that ignore the frame. A frame carries which part of which message it is, and a session
the message it was opened for (`of`); the code has neither, and no guard looks at them.
`T1Expires` makes a session stale at any moment; it dies at the next sweep.
The medium may lose or repeat any frame, announcements too. Two histories serve the
properties and no guard: `disturbed`, the source addresses whose traffic something has cut
short (`Reaches` exempts them), and `unannounced`, those that lost an announcement: the
packets of the next message then complete the session of the last one, and nothing in the
protocol can tell. `Whole` says that even then every packet is in its place, and that other
sources get whole messages.

### J1939Frames

`send` packs priority, PGN, source and destination into 29 bits (`EncodeId`), or hands a
payload of more than eight bytes to `send_tp`; the thread of `subscribe` takes the ids of all
frames on the bus apart (`DecodeId`), the transport packets and other nodes' frames among
them. `log` is what was on the bus, and a payload is its place there. Arithmetic replaces
shifts and masks; the operands are sums of disjoint bit fields.

### Frames, SocketCan and RelayNode

`Frames` holds operators only. A frame's data is its length, `sdt` stands for the four
fields of CAN XL, a text that should be a number is that number or `NotANumber`.
`Encode` and `Decode` are the two directions between a frame and the kernel's
`can_frame` or `canfd_frame`, whose size tells which of the two it is.

`SocketCan` is the bus: `fd` is what the object holds, `sock` what the kernel holds. `send`
is `SendRefused | SendClosed | SendEnter` and then `LoadFd`, `Write`, both outside the
lock, so that a close can come between any two of them. `close` is `CloseEnter | CloseAgain`
and then `StopReader`, `JoinReader`, `CloseFd`, `ClearFd`, `CloseChannels`. The reader is
`ReaderTop`, `ReadFrame | ReadTimeout | ReadFails`, `FanOut`; it puts a frame into every
matching channel with `try_send`, as the code does for every policy. What the
kernel has received and not yet handed over needs no queue: a frame arrives when it is
read, and a read that finds nothing may happen at any time before that.

`RelayNode` puts the adapter on top and turns `SocketCan` into a whole system. A bridge
thread is `BridgeRecv`, `Stamp` (the atomic increment), `Push`, and `BridgeEnd` when its
channel is closed and empty. `emitted` is a history of what entered each subscriber's
channel.

### Dbc

A line is a record: its kind, what the parser takes from it, and whether taking it throws; how
the text is split into fields is left out. The file is chosen line by line while it is
read, so TLC tries every file. `curMsg` is the variable the parser keeps between lines.
`ReadsTheFile` does not follow the parser: it says of every message, signal and label which
line of the whole file it must come from. `RawBits` and `Walk` go bit by bit as `extract_raw`
does; `DecodesExactly` compares them with one division and one remainder of the payload
taken as a number. `int64_t` has `IntBits` bits. `OneShifted` is the undefined shift of
`src/dbc/parser.cpp:54`: either result a build may produce.

The value, its product with the factor and the sum with the offset are doubles
(`src/dbc/parser.cpp:50-57`). `ToDouble` rounds an integer to `Mantissa` digits, halves to
even; `Physical` rounds after each operation, or once at the end of the last two where a
compiler fuses them, so `DecodeSignal` is a set of results. `Round` rounds the quotient of
`physical_to_label` to a double before `std::round`, and `Cast` is the conversion to `int64_t`.
Hence what `DecodesExactly` says: the result is the rounded one, always; it is the exact one,
and a label is found again, when value, product and sum have no more digits than a double - not
for every signal of 64 bits. Factors and offsets are integers in the model, as
`DbcAssumption` says; a factor such as 0.1 is rounded itself before anything is multiplied. The
exponent of a double has no bound, and a decoded value neither infinities nor NaN.

### JsonLines, Cli and Interop

A JSON object is a function from keys to typed values; the parsers of the tools look a key up
anywhere in the text and take a value of another type for a missing one. base64 and
hexadecimal are computed, character by character of the alphabet as numbers.

`Cli` is one process from its arguments (`MainRefuses | MainTells | MainStarts`) to its exit
code: `Convert` reads one frame, `SkipBlank | Publish | StopAtLine` one line each of a
stream. `BusCloses` is another owner of the bus `send_json_stream` is given.

`Interop` is two processes and two callers. `exec_capture` is `Fork`, `SetNonBlocking`
(which may fail when the process runs already, and then kills it), then round and round
`ReadSome | ReadEnd | ReadNothing`, `WaitPid`, `Clock`; the process runs between any two of
them and waits for room in the pipe. A process that ends closes its pipe; a line is one write.
The writer and reader loops end with a summary line and an exit code. The reader's socket
and the thread that empties it are `SocketCan` cut down to what a reader sees. A line of a
frame has its id, its five flags and its data; `noise` is what other nodes have sent.
`PeersAgree` asks of two peers that both report success that each says, field by field, the
frames of the writer's command line; of the reader only when no frame of another node
had the id, for such a frame passes its filter.

## 3. Runs

| Run | Instance | Shows |
|---|---|---|
| `chan` | 2 producers, 2 consumers, 2 items, capacity 2, any operation by any thread at any time, forever | types; no lost wake-up; refinement of the atomic channel, safety and liveness |
| `vbus_safety` | 2 senders (2 and 1 frames, ids x, y and an invalid one), 1 closer, 2 subscriptions of depth 1 (`DropNewest`, default depth; `DropOldest` or `Block`, filter x), the second may close its own channel | order and filtering, nothing skipped, the counters agree with what happened, what `close` leaves, nothing delivered after it |
| `vbus_live` | the same policies, 1 frame per sender, a closer and a drainer | a drained bus was empty when it was last looked at; every call returns when the consumers of `Block` subscriptions keep receiving and the others may stop |
| `vbus_close_stuck` | one sender, one drainer, a `Block` subscription nobody reads | finding 1 |
| `isotp` | block size 2, sequence numbers modulo 4, channels of 3 frames, one lost frame, time-outs at any moment. "one way": 2 sends of length 0, 5, 13, 20, 27, 41 or 4096, Overflow, and Wait followed by clear-to-send or Overflow; "duplex": both ends send | types; never more than a block in flight; whole payloads only; every call returns although each thread throws away the other's frames |
| `isotp_retry` | one way, the application sends again after a time-out | finding 2 |
| `isotp_block` | 20 bytes, block size 2, nothing lost | finding 3 |
| `e2e` | 7 payloads, a counter that wraps after 4, 2 callers, all damage | undamaged payloads, no successor refused, an in-order stream (refinement of `InOrderStream`) |
| `j1939` | "bam": 2 senders (2 and 1 messages of 2 packets, or of a refused size), another ECU with good and malformed announcements, 2 frames lost or repeated, at most 2 sessions, an output channel of 1; "frames": 2 ECUs with source addresses 0 and 254, 2 requests over every kind of PGN, a frame of another node | whole messages only; an expired session delivers nothing; what nothing disturbed arrives; single frames arrive field by field, in order |
| `node` | channels of 1 or 2, a reader that may die. "bridge": three kernel frames (one of another size, a remote request with a length, extended FD), two bridges with every policy; "send": two threads sending a frame or a message of every kind, valid or breaking one rule, two closers | numbering and order; what a node hands out stands for what was on the wire and can be sent on; what is written stands for what was given; the descriptor is closed only when nobody reads it, nothing is written after the close; every call returns and every subscriber is told of the close |
| `tools` | "dbc": every file of up to 5 lines over 12 lines, every signal of a grid of starts, lengths, orders and signs against 5 payloads, with doubles of 6 digits; "cli": command lines, frames with one thing wrong each, streams of up to 4 lines; "interop": 2 frames, a pipe of 2 lines, one frame of another node with the peers' id or another, start-up failures, a time-out of the writer's caller | the database is what the file says; decoding is exact up to the rounding of doubles; a stream is sent up to its fault; `send` understands what `convert` writes; `exec_capture` loses nothing and returns; two peers that report success agree |
| `dbc_sign64` | signed signals as long as the integer | finding 4 |

An MC module with scenarios fixes one of them in the initial state, so that one run covers
several instances that would be too large together.

### Bounds, and why they are enough

* `chan`: two threads on each side are the least that can barge, be
  notified in place of another and time out while notified; capacity 2 lets one
  `notify_one` be pending while a second item arrives. There is no bound on
  the number of calls. The proofs remove the bounds on threads, items and capacity.
* `vbus_*`: `MaxSends`, one drain per drainer. Two subscriptions
  are the least where one can see a frame the other has not yet; depth 1 makes every
  policy act at the second frame; three frames from two senders give reordering within
  and across senders. Calls of `close` are not bounded.
* `isotp*`: `MaxMsgs`, `MaxLoss`, `MaxWaits` (two flow control frames after a Wait: one for each
  of two blocks). With sequence numbers modulo 4 (`SnModulus`; 16
  in the code) 41 bytes, six frames, let the number wrap; 20 bytes end exactly with a block,
  13 with their second frame, 5 fit a single frame, 0 and 4096 are the refused lengths. Two
  messages are needed for frames of one transfer to reach the next. Three frames of room
  are a block and a flow control: they overflow when the other side sends too. The duplex
  scenario leaves out Wait and Overflow, which the one-way scenario has, and has 5 or 27 bytes
  one way and 13 the other.
* `e2e`: `MaxSends`, `Lifetime`. The counter wraps once and nearly twice.
  `Lifetime < SeqModulus` is the assumption every sequence check needs: a frame that is
  older than a whole turn of the counter cannot be told from a new one. With 2^32
  frames in a turn it is safe.
* `j1939`, "bam": `MaxMsgs`, `MaxQueue`, `MaxForeign`, `MaxFaults`. Sizes 8 (refused) and
  14 (two packets); two faults are what it takes to lose an announcement together with
  a packet of the message before. Two sessions for three sources reach the session limit, an
  output channel of 1 fills. The session limit and the output depth are constants of the code
  (256 and 64) made small so that they are reached. "frames": `MaxRequests`, `MaxOthers`;
  two requests suffice for order, and the PGNs take each branch of the codec: for one
  receiver, for one receiver with a low byte that means nothing, for all, on the second data
  page, with a bit more than a PGN has. `RawDepth` and `FramesDepth` of 2 are filled by a long payload.
* `node`: `MaxSends`, the length of `Traffic`. Two readable frames fill a channel of one
  behind a bridge, two bridges share the counter, two closers make one of them return
  early. Calls of `close` are not bounded. The senders take a frame for each rule of
  `validate_frame` that breaks that rule alone. The two scenarios are two halves of one
  system: senders and bridges meet only in `close`, and both scenarios close.
* `tools`: `max` of an input, `MaxStream`, `MaxNoise`. Five lines are a message, its signal, a
  label, the same message again and one line more. Signals of 1 to 9 bits in integers of 8
  (`IntBits`) take every branch of `extract_raw` at every alignment, and go past the
  end of payloads of two bytes. Doubles of 6 digits (`Mantissa`; 53 in the code) are short of
  the longest values, products and sums, as 53 digits are of 64 bits: some are rounded, most not. Payloads of 0 to 4 bytes are every remainder modulo 3 of base64. A
  pipe of two lines is smaller than the three lines a process writes. `MaxU32` is a number
  just above the largest id instead of 2^32 - 1, which TLC's integers do not reach. The writer
  sends FD frames with a bit rate switch (`PeerFlags`), so that two flags are set and three not.

`CHECK_DEADLOCK FALSE` is used in `j1939`, where the bounds let every sender finish
and a closed system has nothing left to do, in `tools` and
`dbc_sign64`, whose programs end, and in `vbus_close_stuck`, where a stuck system is the
point.

### Fairness

* `Chan!FairSpec`: a thread inside an operation that is not blocked eventually runs its
  critical section, and the deadline of `recv_for` eventually passes. Nothing is
  assumed of `notify_one`'s choice, of spurious wake-ups, or of anybody calling
  anything. Weak fairness per thread is the scheduler giving every runnable thread time
  and a mutex being handed out whenever it stays free for that thread.
* `VirtualBus!FairSpec`: the same for the threads of the bus, and clocks advance. A
  `shared_mutex` prefers nobody; a waiting writer gets weak fairness only, so `close`
  returns in the model because the number of sends is bounded. A stream of senders that
  never leaves the lock free could starve it on some implementations.
  `ConsumerFairness`, only in `vbus_live` and only for `Block` subscriptions: those
  consumers keep receiving. The documentation of the policy implies it; finding 1 shows
  that it is needed.
* `IsoTp!Fairness`: both threads run and their timers fire.
* `RelayNode!Fairness`: threads inside a call, the reader and the bridges run, and a `read`
  with nothing to read ends after the receive time-out the socket is given
  (`src/socketcan/bus.cpp:51`). Subscribers that asked for `Block` keep receiving: without
  that a bridge stays in `out->send` and the subscriber's channel is never closed.
* `Interop!InteropFairness`: both processes and both callers run, and time passes for the
  reader, whose loop has a deadline of its own (`interop/can_interop_peer.cpp:184`). Nothing
  is assumed of the deadline of `exec_capture`: `EveryExecReturns` holds without it.
* `E2E`, `J1939Bam`, `J1939Frames`, `Dbc` and `Cli` have safety properties only.

The scenarios of `MCIsoTp` and `MCRelayNode` restrict what is called with what and what the
environment does, never a step that fairness demands of a thread inside a call.

## 4. What is proved

`ChanProofs` proves, for every set of threads and items and every capacity:

* `TypeCorrect == Spec => []TypeOK`. `TypeOK` is inductive by itself: besides the types it
  says who may block where.
* `WakeupsNotLost == Spec => []NoLostWakeup`. The obvious claim - a blocked receiver
  means an empty buffer - is false, because a notified receiver needs time to win the
  mutex. The invariant counts instead: if a receiver is blocked, at least `Len(buf)` woken
  receivers are on their way; if a sender is blocked, at least `Capacity - Len(buf)`
  woken senders are; a closed channel blocks nobody. It is inductive together with
  `TypeOK`. The argument goes by operation: a put adds an item and either wakes a receiver
  or finds none blocked (`PutWakes`); a take removes an item, so the receiver that leaves
  is paid for (`TakeWakes`); a call may leave without taking only when there is nothing to
  take (`AnswerKeeps`); time-outs and spurious wake-ups only add woken threads (`WakesKeep`).
  `recv_for` is the delicate case: a call that is notified at its deadline must not leave
  with the item untaken, and does not because the predicate is evaluated again.
* `Refinement == Spec => ImplementsChannel`. Initial states agree; a critical section that
  completes an operation is that operation's atomic effect, one that blocks is a stutter,
  and so are time-outs and spurious wake-ups.

Assumption: `ChanAssumption` - a positive capacity (the buses normalise a depth of zero or
less), finitely many threads (`Cardinality` counts them), a null item that is no item. TLC
evaluates it in the run `chan`, and the assumptions below in the runs of their modules.

`VirtualBusProofs`, for any number of senders, closers, drainers and subscriptions, any
filters, policies and depths (`VirtualBusAssumption`):

* `ClosesAll == Spec => []CloseIsComplete` and `SilentOnceClosed == Spec => NothingAfterClose`.
  The invariant is `LockInv`: `Shapes` of the variables; `Lock` - the readers of `mu_` are the
  threads that are inside a loop over `subs_`, a writer is alone, and a send under way keeps
  the bus open; `Handed` - a channel that was handed out is in `subs_` until it is
  closed, whether or not it ever took a frame, and the channels before the writer's place in `subs_` are closed. `NothingAfterClose`
  needs only `Lock`, `CloseIsComplete` needs `Handed`.
* `InOrderAndFiltered == Spec => []OrderedAndFiltered`. On top of `LockInv`, `OrderInv`: the
  frame a sender carries is its last one and a subscription occurs once in `subs_` (`Fields`);
  the channels a send has not come to yet hold only older frames of that sender (`Ahead`);
  what a channel has taken passes its filters, rises sender by sender and is no newer than the
  sender's last frame (`Taken`).
* `SkipsNothing == Spec => []NothingSkipped`, from `DeliveryInv`: a finished frame is one its
  sender has left (`Finished`); a send at place `i` of `subs_` has served the open
  subscriptions before `i` (`Passed`); and a subscription in `subs_` has every finished frame
  that was begun after it arrived (`Kept`). `subs_` grows only under the writer's lock, when
  no send is at any place: that is where `LockInv` is needed.
* `DrainsFirst == Spec => []DrainedBeforeClose`, from `StoreInv` - what a channel holds is the
  end of what it took, and a channel outside `subs_` of an open bus has taken nothing - and
  `SeenInv`: the frames whose sends had returned when the drainer began its look are gone from
  the channels it has passed, and from all of them when it is not looking (`Looks`). A frame that
  enters a channel later is not one of those.
* `Types == Spec => []TypeOK`, from the parts above.
* `CountsAgree == Spec => []CountersAgree`, from `CountInv`: the frames an open `DropNewest`
  subscription missed, with those a send has dropped and not counted yet, are as many as
  `drop_count` says (`DropInv`); the frames that entered channels are no more than
  `deliver_count` and the sends that are about to update it (`EnterInv`); and a frame on its
  way is in neither set (`Standing`). `CountersAgree` counts sets of pairs of a subscription
  and a frame; a counter and its set change in two different steps.

`IsoTpProofs`, for any two ends, block sizes, channel depths, payloads, losses and time-outs
(`IsoTpAssumption`):

* `Types == Spec => []TypeOK`, whatever the peer answers: no send runs past its payload and
  no recv past the length announced to it.
* `FlowControl == Spec => []FlowControlled` and `NeverMixed == Spec => []Integrity`, both under
  `Orderly`: no Wait follows a Wait, and the application does not call `send` again after one
  that failed. A `Conn` never answers Wait; another ECU may, and may answer Overflow.
  `Integrity` needs both conditions: finding 2, and the first remark of section 5. The invariant
  `LibInv` says the same of each direction (`Dir`): unread data frames carry bytes
  of payloads that were sent (`Genuine`), nothing of a transfer follows a First Frame, and
  Consecutive Frames are of one payload and in order (`Ordered`); what is reassembled is of
  that payload too, ends before the frames still to be read, and lacks bytes if and only if it has a
  gap (`Session`); and what was returned is whole (`Returned`). While no send has failed (`Turn`)
  a flow control frame is on its way, or held back by a receiver that said Wait, only when the
  sender expects one and `recv` has everything it has sent (`FlowInBack`, `UpToDate`); of
  two on their way the first says Wait and the second does not. That a receiver at the end of
  a block is not behind needs `Reach`: until its last frame a receiver that has missed a frame
  has counted fewer frames than it would need to reach the end of the block. So a gap the
  sequence number does not show - frames lost up to a multiple of its range - still leaves
  `recv` short of the length at the last frame, and it times out instead of returning.

`RelayNodeProofs`, for any number of senders, closers and subscribers, any traffic, policies
and depths (`SocketCanAssumption`, `RelayNodeAssumption`):

* `ReaderOwns`, `ClosesCompletely`, `SilentAfterClose` from `CloseInv`: `Places` of the threads;
  `Protocol` - one thread at most is inside `close`, and each of its places says what it has
  already done; `HandedOut` - a channel handed out is in `subs_` until it is closed.
* `NumbersInOrder == Spec => []NumberedInOrder` from `OrderInv`: along the way from the reader
  through channel, bridge and output the frames of a subscriber stay in one rising line
  (`Line`), so do their numbers (`Numbers`), and no two bridges hold the same number (`Apart`).
* `WritesExactly == Spec => []WireExact`: a lemma about the codec - `Decode` undoes `Encode` on
  every frame `validate_frame` accepts - and an invariant that carries what was given to `send`
  from the call to the wire.
* `HandsOnExactly`: `Spec => []Forwardable` when the CAN FD frames on the bus have lengths that
  CAN FD has (`CanonicalTraffic`: the length is coded in four bits on the wire). A lemma says
  what `to_message` makes of a frame and `from_message` of that, `CarryInv` that a message stays
  attached to its frame on its way through channel, bridge and output.
* `Types == Spec => []TypeOK`, from `CloseInv` and `OrderInv`.

`E2EProofs`, for any number of callers, any range of the counter and any lifetime below it
(`E2EAssumption`):

* `TypeCorrect`, `Intact`, `SuccessorAccepted`, and `Refinement == Spec => ImplementsStream`.
  The invariant says that the counter is the number of payloads sent, modulo its range; that
  the baseline is the number of the last payload returned; and that a frame that passed the
  checksum is an undamaged one less than a turn old. The sequence check compares
  remainders; what it means for the payloads is arithmetic (`Follower`, `Successor`, `Newer`):
  a remainder that follows, on a frame less than a turn old, is newer by one and some whole
  turns. That is `InOrderStream!Follows`.

`J1939Proofs`, for any senders, message lengths, parameter groups, other ECUs, faults and
limits (`J1939BamAssumption`: each sender has a source address of its own):

* `DeliversWhole == Spec => []Whole`, `ExpiredNeverDelivers == Spec => ExpiredIsDead` and
  `SessionsBounded == Spec => []TypeOK`. `Whole` speaks of what has been delivered; what
  makes it true is said about the sessions and the frames still to be read. `Inv` has
  `Honest` - a sender's announcement describes one of its messages; `Sound` - a session
  counts the packets it holds, each at its place, and one of a sender was opened for a message
  of that sender and holds nothing else; and, for sources that lost no announcement,
  `InTurn`: whatever session or announcement stands before a packet of message `m` in the
  queue, the announcement of `m` stands between them (`Ready`). So a packet read first
  (place 1, nothing before it) finds no session or that of its own message. `Ready` survives
  sending (`ReadyKept`, `ReadyBehind`, `ReadyAnnounced`) and reading (`ReadyTail`), where the
  frame read either leaves a session alone, closes it, or is what the new one was opened for.
  Losing or repeating packets and repeating announcements never disturb it; losing an
  announcement does, hence `unannounced`.
* `ReachesAll == Spec => []Reaches`, the other half. Each message of a source nothing has
  disturbed is delivered or on its way: its session is open or its announcement is in the
  queue, and each of its packets is still to be sent, in the queue behind the last
  announcement, or in a session that no announcement in the queue will empty (`Expected`). A session
  always lacks a packet; with nothing to send or to read nothing can be lacking.
* `FramesDecoded == FramesSpec => []FramesArrive`, for any ECUs, requests, frames of other
  nodes and depths (`J1939FramesAssumption`). `Packed`, `PgnParts` and `Encoded` are the
  arithmetic of the identifier: `DecodeId` gives back the four fields `EncodeId` was given,
  the PGN without what 29 bits do not hold. `FramesInv` follows a frame from the bus
  (`OnLog`) through the channel of the bus (`Unread`) to the subscriber (`Passed`), and
  accounts for each one (`Accounted`).

`ToolsProofs`:

* `StreamPublished == CliSpec => []SendsUpToTheFault`, for any stream and any moment the bus is
  closed. A line is published at the place it has among the lines before it that are not
  blank; the invariant `CliInv` counts them.
* `OutputCaptured == InteropSpec => []OutputWhole`, for any count, pipe and end of the processes
  (`InteropAssumption`). `ExecInv`: what was captured, followed by what is in the pipe, is what
  was written (`Kept`); a call that returns without a kill leaves the pipe empty.
* `TwoPeersAgree == InteropSpec => []PeersAgree`. `Story` says what a process has written from
  where it is: a line for each frame it counts and one more at its end, which tells success if
  and only if the exit code does. `Tally` is the heart, and holds while no other node uses the id:
  the frames of the id the reader has taken or still may take - printed, in hand, in its
  channel, in its socket - are fewer than the writer has sent, or are exactly those, in that
  order (`InStep`). Other frames stand between them in the socket, so a function `g` counts
  those of the id up to each place of it (`Tracks`); some `g` always does (`SocketGrows`, and
  the case of `Pump`). A frame missed before the subscription, at a full channel or at the end
  can never be made up for, so a reader that reaches `Count` when the writer sent `Count` has
  missed none. Killing the writer between `send` and its line breaks the tally; its caller
  then reports a time-out, or has thrown (`Killed`). What was written stands for what was sent:
  hexadecimal gives back any bytes (`HexSurvives`), a line every field of its frame
  (`FrameSurvives`).
* `EncodedIsDecoded`: base64 gives back any bytes, whatever their number modulo three. The
  decoder is a recursive function over the characters; after each group of four it is as at the start
  (`Fresh`) and has put out three bytes more, which is shown for every group by induction over
  their number (`NatInd`). The last one, two or three bytes are a case each.
* `ConvertedIsSendable == CliSpec => []ConvertFeedsSend`, for any frames (`JsonAssumption`,
  `CliAssumption`: the types of the values the tool reads). The theorem above, the same for the
  fields of the message, and what `convert` has printed when it ends (`ConvertInv`).
* `FileIsRead == DbcSpec => []ReadsTheFile`, for any lines and files of any length
  (`DbcAssumption`). `ReadsTheFile` looks at the whole file and `parse` at one line and
  `curMsg`. The invariant `DbcInv` adds what `curMsg` stands for (`Current`): the
  last line that is no signal, when that is the definition of a message, which is then also the
  last definition of its id. Lemmas say what one more line does to `Under`, `DefinedAt`,
  `SignalAt` and the places of labels; `WithLabels` is followed pair by pair with `NatInd`.

Only model-checked:

* Liveness: the prover does not reason about fairness and `ENABLED`.
* `DecodesExactly` of `Dbc`. It compares a sum over a set of bits with a division by a power of
  two. `MapThenSumSet` takes an operator, which no lemma of the library can be instantiated with,
  and the provers know a power only with a number for its exponent; the rounding of doubles is
  made of powers too. Of signed signals as long as the integer it is false (finding 4).
* `IsoTp`, `VirtualBus` and `RelayNode` state no abstract specification; refinements are proved of
  `Chan` and `E2E`.

## 5. Findings

1. `vbus_close_stuck`. A sender blocked on a full `Block` channel (`src/virtual/bus.cpp:68`)
   holds the shared lock of the bus. `close` and the `close` inside `close_with_drain` wait
   for it without limit, so the timeout of `close_with_drain` is not kept and closing the
   bus cannot release the sender that blocks it.
2. `isotp_retry`. A send that timed out leaves its First Frame in the receiver's channel.
   The receiver later answers it, the next send takes that answer for its own, its own First
   Frame is skipped by `recv_cf`, and `recv` returns the start of one payload with the rest of
   another. The sequence check cannot see it: both start at 1.
3. `isotp_block`. When the last consecutive frame completes a block the sender waits for a
   flow control that the receiver, being done, never sends: the payload arrives and `send`
   reports a time-out (`src/isotp/transport.cpp:111` against `179`).
4. `dbc_sign64`. Sign extension shifts by the length of the signal (`src/dbc/parser.cpp:54`).
   Length 64 passes the guard and is undefined; on x86 the shift gives 1 and a signed 64-bit
   signal of value -1 decodes to -2. For length 63 the shift is defined and the subtraction
   overflows (for a negative value), undefined as well; the builds wrap, and so does the model
   (`ToInt`), which gives the right value. The sanitizer run of `.github/workflows/ci.yml`
   would report it, if a test had such a signal.

Remarks met while modelling, not counted as findings:

* After a Wait `send` reads one more flow control frame and goes on, whatever that frame says:
  the test at `src/isotp/transport.cpp:93` is an `if`. With an ECU that says Wait twice the
  send may have returned before the receiver says clear-to-send. That frame answers the First
  Frame of the next send, which the receiver, still reassembling, throws away; if the last frame
  of the first payload was lost, `recv` returns bytes of both. TLC shows it as a violation of
  `Integrity` when `isotp_retry` is given `Lengths = {13}`, `BlockSize = 2`, `MaxLoss = 1`,
  `FlowStatus = AfterWait = {"CTS", "Wait"}`, `MaxWaits = 2`, `Retries = FALSE` and
  `Patient = TRUE`. `FlowControlled` holds on that instance. A `Conn` itself never says Wait.
* `deliver_count_` is incremented also when a `DropOldest` or `Block` channel has been closed
  by its consumer (`src/virtual/bus.cpp:62`, `68`); hence `CountersAgree` bounds it from below.
* `close_with_drain` may report success with a frame left: a send can run between
  `all_drained` and `close` (`src/virtual/bus.cpp:141`). `DrainedBeforeClose` says what does hold.
* After a lost frame the E2E receiver refuses every frame until the counter has gone round
  (`src/safety/e2e.cpp:120`). REQ-SEC-006 asks for it.
* `socketcan::Bus` ignores the back-pressure policy it is given
  (`src/socketcan/bus.cpp:134`, `208`); `REQ-SCAN-005` says the semantics are those of
  `virt::Bus`. The model follows the code.
* A late `send` may use a descriptor number that `close` has given back
  (`src/socketcan/bus.cpp:98`, `115`). In the model such a write fails; a process that has
  opened another file meanwhile would write there.
* The second of two concurrent calls of `close` returns before the bus is closed
  (`src/socketcan/bus.cpp:149`), hence `CloseComplete` speaks of the first.
* A remote request that carries a length is received as a frame with data
  (`src/socketcan/bus.cpp:186`) which `validate_frame` refuses: `Forwardable` says that
  it is the only frame a node cannot send on.
* `CanAdapter` uses `channel_depth` as it is (`src/can.cpp:184`), unlike the buses, which
  normalise it; `RelayNodeAssumption` excludes zero.
* BAM cannot tell messages apart when an announcement is lost along with a packet of the
  message before it (`src/j1939/pgn.cpp:226`), nor when two threads call `send_tp` with one
  source address (`143`), which the model excludes by giving each sender its own.
* A J1939 payload of more than eight bytes goes to everybody even when its PGN is for one
  receiver (`src/j1939/pgn.cpp:54`, `123`); bit 17 of a PGN is dropped by `encode_id`; a filter
  that holds a peer-to-peer PGN with a low byte that is not 0 never matches.
* A double has 53 digits: a signal of more bits decodes to a neighbour of its value, and
  `physical_to_label` may then miss its label (`src/dbc/parser.cpp:50-62`); REQ-DBC-005 and
  REQ-DBC-006 do not speak of rounding.
* `parse` throws `std::invalid_argument` for a number it cannot read;
  `include/can/dbc/parser.hpp` speaks of `std::runtime_error`. The model has one "threw".
* A list of bytes in JSON is silently cut at the first number above 255 (`cli/json.hpp:123`), and
  `sdt` is taken modulo 256. `Cli` does the same.
* `exec_capture` does not look at its deadline while output keeps coming
  (`interop/interop_common.hpp:157`).
* REQ-RELAY-028 asks `close_with_drain` for what `src/virtual/bus.cpp:141`
  can only do as of its last look.

## 6. Not modelled

* The arithmetic of CRC-16: the checksum of `E2E` is ideal. No property of the receiver tells
  one good checksum from another, and its strength against damage is no state property.
* The text of a DBC file or of JSON: regular expressions, quoting, the search for a key.
* `parse_args` of the interoperability peer and the runs of `cangen` and `candump`.
* `socketcan::Bus::create`: a failure leaves no bus; success is the initial state.
* The life time of objects: the detached bridge threads of `CanAdapter` use its counter.
* `health`, `metrics`, `is_closed`, `size`, `capacity`: they only read.
* `LoanedFrame`: owns a frame; `virt::Bus::loan` has no pool behind it.
* `src/relay.cpp`, `include/can/relay.hpp`: error codes, options, names; `effective_depth` is in
  `VirtualBus`.
* `tests/`, scripts: they exercise the library.
* ISO-TP frames that are malformed in length, and J1939 packets shorter than eight bytes: the
  senders of the model produce none; the code refuses them before it changes any state.

## 7. Plan

Done: the core (`Chan`, `VirtualBus`, `IsoTp`, `E2E`, `J1939Bam`), the node (`Frames`,
`SocketCan`, `RelayNode`), the codecs and programs (`J1939Frames`, `Dbc`, `Cli`, `Interop`),
and the proofs of section 4. Left, in this order:

1. Proofs: `DecodesExactly` with powers and sums written as recursive functions.
2. An instance with a bridge of depth zero, and one where two threads share a J1939 source
   address, as statements of what goes wrong.
3. `Interop` over `SocketCan` instead of its short form of a reader.
