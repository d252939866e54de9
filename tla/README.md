# Verification of hydrasdr-rs

TLA+ models of the `hydrasdr-rs` driver (a Rust driver for the HydraSDR RFOne
receiver), checked with TLC on small instances and, where a property matters for
every instance, proved with TLAPS. Source paths are relative to the repository
(`src/src/session.rs` is the crate's `session.rs`).

## The system

An application opens a `Device<M>` (`M` is `RawAdc` or `F32Iq`), configures it
with setters that send vendor control transfers, opens at most one
`RxStream<M>` at a time, starts and stops it, and reads blocks or IQ samples.
Everything can be awaited or waited for, and everything can fail or be cancelled
at any await.

| Component | State it keeps | Operations | Talks to |
|---|---|---|---|
| Hardware session (`session.rs`) | `DeviceLifecycle`, `ClaimAvailability`, receive settings, each under a mutex | open, apply an update, shut down, final cleanup in `Drop` | device handle and streams share it by `Arc` |
| Stream claim (`session.rs`) | `ReceiverState` of its stream | acquire, begin_start, begin_stop, release, close, cleanup in `Drop` | session, control transfers |
| Device handle (`device.rs`, `config.rs`) | configuration snapshot | setters, `set_packing`, `set_decimation_policy`, `rx_stream`, `shutdown` | session |
| Receiver (`rx/receiver.rs`) | the queue, if any; the sample processor; statistics | start, stop, next block, IQ read, close | claim, queue, processor |
| Queue (`rx/queue.rs`) | buffer pool, current block, discard countdown, statistics | new, initialize, pause, accept, release, close | bulk endpoint |
| IQ processor and converter (`rx/processing.rs`, `converter.rs`) | offset into the block, carried sample, filter rings | process | queue's current block |
| Protocol (`protocol.rs`, `rfone.rs`) | none; the radio's registers, which cannot be read back | commands per operation, rate selection, gain plans, validation of responses | transport |
| Combinators (`maybe_future.rs`) | the first or the second future of each combinator | `wait`, `poll`, and dropping, of every operation above | an executor, or the waiting thread |
| Transport (`usb/mod.rs`) | the claimed interface | open, control transfers, bulk IN queue | operating system |
| Discovery (`discovery.rs`) | none | select a device, ask a browser's user for permission | USB bus, browser |
| Errors and crate surface (`errors.rs`, `lib.rs`) | none | | |

### What is hard here

* **Shared state in two hands.** The device handle and the stream may live on
  two threads; the lifecycle, the claim and the settings are read under a mutex
  and used after it is released.
* **Cancellation.** Every operation is a chain of awaits that the application
  may drop. A control transfer submitted before the drop may still take effect.
* **Failures half way.** Start, stop, close, shutdown and every configuration
  update are sequences of transfers any of which can fail.
* **Cleanup after the last owner.** A stream's `Drop` spawns or runs a cleanup
  that holds the session; the session's own `Drop` cleans up after that.
* **Write-only registers.** The radio holds what commands left there, of this
  program or an earlier one, of this mode or the other; the driver knows only a
  snapshot, and an update is up to ten commands.
* **Two ways to run everything.** Each combinator implements waiting and polling
  apart; both must send the same commands, and polling must never lose its waker.
* **A moving bus.** Devices come, go and are claimed by others between the list
  and the claimed interface.
* **Reuse.** A stop keeps the queue with its pending transfers; a restart must
  not show what they captured before.

The hazards are listed line by line in `PROJECT.json`, each with the properties
that would catch it.

## Modules

| Module | Models |
|---|---|
| `Session` | `session.rs` and the device handle: opening, updates command by command, shutdown, dropping the handle, `Session::drop`; the operators of the claim |
| `Receiver` (extends `Session`) | one `RxStream` per slot: claim, start, stop, read, close, drop and its cleanup |
| `Driver` (extends `Receiver`) | both composed; the properties of the whole; the refinement mapping |
| `HardwareCustody` | the abstract specification: who is responsible for receiver and bias power, and what each may do to them |
| `MCDriver` | constants for TLC |
| `RxQueue` | `rx/queue.rs` from inside: buffers, transfers, discards, statistics, and the endpoint |
| `IqProcessor` | `rx/processing.rs` with the IQ reads of `rx/receiver.rs`: cutting blocks into samples for reads of any length |
| `Converter` | the rings, the delay line, the decimation stages and the scratch buffers of `converter.rs` |
| `Rfone` | operators: tables and limits of `rfone.rs`, validation of `config.rs`, rate selection and gain plans of `protocol.rs` |
| `Configuration` (extends `Rfone`) | registers, receive settings and snapshot through openings and updates, command by command |
| `SettingsPromise` | the abstract specification of `Device::config()`: which fields may be wrong after what |
| `Operations` | the operations of the driver as trees of combinators |
| `MaybeFuture` | `maybe_future.rs`: polling call by call, and waiting as a recursive function, for any numbered trees of combinators |
| `MCMaybeFuture` (extends `Operations`, `MaybeFuture`) | the trees of `Operations`, numbered, as constants for TLC |
| `Discovery` | `discovery.rs` and `NusbTransport::open`: selector, permission, and the steps to an open radio on a moving bus |
| `MCConfiguration`, `MCDiscovery` | constants for TLC |
| `DriverProofs`, `DriverRefinement` (extends `DriverProofs`) | the theorems about `Driver` |
| `ConverterProofs` | the theorems about `Converter` |
| `RxQueueProofs` | the theorems about `RxQueue` |
| `ConfigurationProofs` | the theorems about `Rfone` and `Configuration` |
| `IqProcessorProofs` | the theorems about `IqProcessor` |
| `DiscoveryProofs` | the theorems about `Discovery` |
| `MaybeFutureProofs` | the theorems about `MaybeFuture` |

### Correspondence with the code

*Session.* `device`, `claim` and `receive` are the three mutex-protected fields;
`owners` is the set of holders of the `Arc`. `op`, `update` and `rxOff` are the
program counter and the locals of whatever operation of the handle is awaiting
(the handle's methods take `&mut self`, so there is one at a time). Opening
creates the session, reads metadata, applies the initial configuration
and only then hands it out (`opened`). An update is its list of commands; each
`CommandOk` or `CommandErr` settles the front one and submits the next, and
`CommitUpdate` is `apply_update`, which sets the snapshot and the session's
settings under one call. `ShutdownBegin`, `ShutdownRx` and `ShutdownBias` are
the three segments of `shutdown`. `SessionDrop*` are the segments of
`Session::drop`, in the background.

*Receiver.* `pc[s]` is the await a stream's operation is at and `recv[s]` its
`ReceiverState`. `StartBegin` decides whether the queue can be kept;
`StartPipeline` reads the settings a second time, as the code does; then the
receiver-off and receiver-on commands, the queue's `clear_halt`, and the fallback
that turns the receiver off again. `CancelControl` drops the pending operation
at any of these. `Drop` and `Cleanup*` are `RxStreamClaim::drop` and its task.

*RxQueue.* Buffers are counted, transfers in flight are a sequence whose elements
remember (as history) whether they were submitted before the latest stop. The
lifecycle around it is that of `Receiver`, reduced to what drives the queue.

*IqProcessor.* A sample is its position in the capture, so that a lost, repeated
or misplaced one shows. `offset`, `pending` and `block` are those of the
code; `Process` is `process()` with its loop: after one conversion either the
output is full, or the block is used up, or the next conversion finds no whole
group, which is the error of the code. A blocking read takes the decimation
once, an awaited one at every poll (`Poll`). How a block gets there is
`RxQueue`'s subject; how a stop and its failures go is `Receiver`'s.

*Converter.* Values are numbers of pushes, so that a window shows which samples a
filter reads. Actions are the iterations of the code's loops: one chunk of four
raw samples, or four pairs in one decimation stage. `scratch` records how often
the contents of either buffer were halved. Kernel values are left out, except
that the taps that are 0, and so are not read, are known.

*Rfone.* An `Option` is a set of at most one element. `Candidates` and
`Preferred` are the filter and the choice of `sample_rate_hardware_config`; gain
plans are sequences of `Write`s in the order in which the code builds them;
the tables are those of `rfone.rs`, entry by entry.

*Configuration.* `hw` is what the registers hold, `Unknown` for what an earlier
program or the AGC left. `update` is the state of `apply_update` and
`Sequence`: the commands still to send, and the `Config` and `ReceiveSettings` that
the last response commits. `Answered` is one iteration of the sequence with
`InRequest::validate`; `Refused` and `Lost` are its two error paths and the
cancellation. `Commands` is `protocol::configuration`; the set `Updates` holds
what each setter sends after its argument passed validation. Opening
(`Open`) is `Session::initialize` with the same commands, from the state a
handle has before them, and undoes itself when it fails (`GiveUp`). The
session's own life beyond that is `Session`'s subject.

*Operations and MaybeFuture.* An operation is a tree of combinators, transcribed
in `Operations` from where the code builds it; a continuation is the function from
the value it is called with to the part it builds. `MaybeFuture` is about any
such trees: a future is a number, a part has a smaller one than the whole, and
`Tree` says what each is. Numbers keep the definitions by recursion finite without
recursive operators, which the prover does not take. A future that has been polled
is one path through its tree (`live`), since a combinator holds its first part or
its second; a frame of the path says which (`stage`). `Poll`, `Descend`, `Begin`,
`PollLeaf`, `Continue`, `ReturnPending`, `ReturnReady` and `EndPoll` are calls of
`poll` and their returns, `Onward` the continuation, if it is called. A sequence
is what is left of it: its frame is replaced by that of the rest. `Waiting` is the
recursion of `wait()`. `Built` says what constructing an operation submits, which is
nothing only because of `defer`: nusb submits a control transfer where it is
built (`usb/mod.rs:102`). `LazyConstruction` states that consequence of `defer`.

*Discovery.* `Found` is the place of the first match in the list; `Offered` is
what a browser offers for the filters that `request_nusb_device` makes, and `MatchesDevice` what the driver
takes. `Select`, `Opened`, `ClaimInterface`, `BoardRead` and `FirmwareRead`
are the awaits between the list entry and a recognized radio; `End` is their
failure. A program that asks for a serial number written in lower case gets no
offer from the browser for such a device, although native discovery finds it;
and serial number 0 makes no filter, so that everything is offered and the check
after the choice decides.

### Abstractions

* A control transfer answers `ok` and took effect, or `err` and may or may not
  have. A cancelled transfer is one whose answer nobody sees. The control pipe
  is first in, first out.
* A power register starts as `"Unknown"`: what an earlier program left behind.
* In `Session` and `Driver`, frequencies, gains, ports and rate parameters are one
  kind of command without effect on their properties; packing, decimation, bias
  power and the receiver mode are kept. `Configuration` has them all, with one
  handle and no streams.
* In `Configuration` registers are numbers, a switch 0 or 1. A stage whose AGC is
  on, or may be on, has an unknown gain from then on (`Tuned`), which is the worst
  the hardware can do. The firmware refuses rates and ports only, the two
  requests whose response the code checks. A cleanup leaves bias power off or
  everything as it was.
* In `MaybeFuture` two commands stand for the list of a configuration, a leaf is
  a `ready` value or a transfer, and dropping a future has no effect of its
  own: what a dropped operation makes the session do is in `Session` and
  `Receiver`.
* In `Discovery` a serial string is one of four forms: absent, as the firmware
  writes it, the same in lower case, or anything else.
* Samples are positions or push numbers, never values.

## Runs

| Run | Question | Bounds |
|---|---|---|
| `driver_raw` | Are the claim, the receiver and bias power under control with failures and cancellations anywhere, and does `Driver` implement `HardwareCustody`? | two stream slots, so that a second stream is claimed while the first is being cleaned up; packing on and off |
| `driver_live` | In IQ mode, with a decimation that changes under a live stream: does a restart keep the queue, and do cleanups end, when every transfer may fail? | two slots, decimations 1 and 2 |
| `driver_quiet` | Does an abandoned device end quiet when no transfer fails? | one slot, `MayFail = FALSE` |
| `driver_race`, `driver_aba` | Two statements of the documentation that the code does not keep (see Findings) | smallest that shows it |
| `queue_raw` | Pool, discards, freshness and statistics without transfer cancellation (WebUSB); does a waiting read end? | three transfers; counters saturate at three |
| `queue_iq` | Do the statistics add up with cancellation (native) and IQ reads, which drop parts of blocks? | the same |
| `iq_reads` | Is every sample delivered once and in order, whatever the lengths of the reads? | three decimations, blocks of 16 raw samples, reads of up to 9, four blocks |
| `converter` | Do windows, delay and stages hold over the wraps of all rings? | the ring sizes of the code; decimations 1, 2, 8 and 64; 768 pairs, half as many again as the longest ring; calls of one or two groups |
| `configuration` | Do registers and receive settings keep the promise of `Device::config()`, with commands refused, lost or cancelled anywhere? | both modes in one behaviour; values at and just beyond every limit; two faults |
| `maybe_future` | Is awaiting the same as waiting, and does it end? | seven operations, every outcome of every transfer |
| `discovery` | Is what is opened what was asked for, and does a granted permission suffice? | five devices of all kinds, three of them plugged in at a time, under WebUSB |

Two slots are enough because claims exclude each other: at most one stream holds
the claim, and one more is in the only other interesting state, still tearing
down. A slot is reused after it is free, so sequences of streams are unbounded.
Three transfers give a queue with one old, one fresh and one exposed buffer, and
every split of them; nothing in the code depends on the number
(`RFONE_TRANSFER_COUNT`). `StatCap` bounds counters by saturation, which keeps
the inequalities the properties state. In `IqProcessor` a block of 16 holds
one group of the largest decimation and four of the smallest, and reads of up to
9 end within, at and after a block; `Horizon` ends the capture after four
blocks. In `Converter`, `MaxPairs` ends a run after every ring in use has
wrapped, and `MaxGroups` bounds a call.

In `Configuration` two faults are one update that spoils some registers and a
second fault in whatever tries to repair it, or in an opening; the number is
not a parameter of the proofs. Frequencies and gains lie at and one beyond their limits; the rates
are 0, one that divides the firmware rates but has no factor, and one with two
choices of factor; whole configurations bring the rest, also from one mode to
the other over a close. In `MaybeFuture` nothing is bounded: each operation is
finite. In `Discovery`, three devices on the bus are one that is wanted, one that
matches too, and one that does not, in every order of the list.

Each property has a mutant: a definition of the model with one plausible slip
(its name ends in `_` and a word) under which TLC finds the property violated.

### Fairness

`Driver` assumes weak fairness of the cleanup of a dropped stream and of
`Session::drop` only: they run without the application, as a blocking drop or a
spawned task, and every control transfer has a timeout of 500 ms
(`protocol.rs:18`), so each of their steps is answered. Nothing is assumed of
the application: it may stop calling at any point. `RxQueue` assumes that a
waiting read is polled on every completion and that a receiver that is on keeps
completing transfers. `MaybeFuture` assumes what an executor promises: it polls a
future that was woken, and only then has to; that a poll that began returns; and
that a transfer is answered at the latest by its timeout.

## Findings

* **Packing read twice in `start`** (`driver_race`). `start` reads the receive
  settings to decide whether the paused queue can be kept (`receiver.rs:55`) and
  `start_pipeline` reads them again (`receiver.rs:68`). A `set_packing` committed by
  the device handle on another thread in between keeps the queue and gives it
  the other packing: buffers have one length and `accept` expects the other.
  `README.md:32` says that packing changes recreate the queue.
* **Packing there and back** (`driver_aba`). `packing_changed` compares the
  queue's packing with the current one. In the counterexample a block call has
  returned its block; then packing is switched on and off again while the
  receiver is on and the queue has its transfers submitted; and the next block
  call finds the two values equal and takes its block from the queue as it is.
  The queue has been in flight while the device sent the other format. Same
  sentence of the README. The history field `seen` of a queue makes this a
  property of one step: it notes a packing change only after a block was handed
  out under the packing then in force, and only while the receiver is on with an
  initialized queue. A change committed earlier, before anything can have been
  captured, does not count.

## Proofs

`DriverProofs` proves `Spec => []TypeOK` and the safety invariants; `DriverRefinement` three action properties and the refinement. They
hold for any set of streams, any set of decimations containing 1, both modes, and
with or without failures; the assumptions are those declared in `Session`
(`Handle` is not a stream, `Mode` is one of two, decimations are naturals with 1
among them, `MayFail` is Boolean).

The safety invariants are not inductive alone. `IInv` in `DriverProofs` is
`TypeOK` with three parts:

* `Ownership`: in which phase of an operation a stream or the handle is an owner,
  that a stream that is an owner holds the claim, and that no two do. It
  excludes, for instance, a shutdown that begins while a stream is alive.
* `StreamStage`: for each await of a stream's operation, the receiver state that
  goes with it, what its locals remember of the queue, and that nothing but
  this stream changes them.
* `Reception`: who is responsible for switching the receiver off in every state,
  and what a finished step of a shutdown established. It needs `Ownership` to know
  that no other stream turns the receiver on behind the one that stops.

Each conjunct is shown to survive each action; the action properties and the
refinement are then single-step consequences of `IInv`. The refinement maps the
session's lifecycle, claim and owners to the custody of `HardwareCustody`
(`Custody` in `Driver`).

Two further invariants ride on `IInv`. `Agreement` says that the snapshot of the
handle and the receive settings of the session agree once the device is open, and
that an update on its way proposes the same for both, or leaves the session's
alone (`SnapshotMatchesSession`). `Decisions` says that a start whose decision
is made keeps an initialized queue in IQ mode (`RestartKeepsQueue`): there is no
packing to differ, so the two looks at the settings, at the decision and after
it, cannot disagree (`NoPacking`), and no other stream and no step of the handle
touches the slot (`OtherSlots`, `DeviceDecision`).

`ConverterProofs` proves that every window of the FIR ring, every value taken
from the delay line and every window of a half-band stage is what a shift
register would give, for every ring, kernel and delay length that fit each other
(`Taps <= History`, `QDelay <= 16`), every set of decimations and every sequence
of calls and resets. Its invariant, `RingsHold`, says of each entry of a ring what
it holds by its age; a store makes every other entry one push older, also where
the index wraps (`StoreHolds`), and the entries after the newest, once around, are
the latest pushes (`EntriesAreLatest`).

`Flow` in the same module counts samples between the loops, and proves `TypeOK`,
`StagesInPhase` and `ScratchInTurn` for up to six stages and any number of groups
in a call. It names, while a loop runs, the number of groups of its call: the
stages already run weigh as much as all pairs pushed, the running one lacks four
samples for each iteration left, the later ones still lack the whole call; and
what the running one reads and has written follows from the iterations done. The
two scratch buffers change roles at `EnterFlow`; each stage takes half the fours
of the one before and weighs twice as much (`Halving`).

`RxQueueProofs` proves `PoolConserved`, `DiscardsAreOldest` and `NoOldBlock`, for
every number of transfers, both modes, with or without cancellation and failures.
Its invariant, `QueueInv`, is the pool count with two parts: `Aged`, the transfers
on the endpoint from before the latest pause are the first `discard` ones, and
`Shape`, what the phase and the flags say of the buffers. A pause makes all
transfers old (`PauseAged`), a completion takes the oldest (`TakeAged`), a
submission goes behind them (`SubmitAged`); so a block is exposed only when no
old transfer is left. `Shape` is needed because a completion is only taken while a
read waits, and then no block is held that a discard could lose.

The statistics are a second invariant, `StatsInv`, about `Grand`, the sum of the
retired queues' counters and the living one's. Every step counts one of five
events in `Grand` or nothing (`StepCounts`): retiring a queue only moves its
counters (`CombinedFacts`), also where counters stop at the bound, as saturating
addition is associative (`PlusFacts`). Each event keeps the relations between the
counters (`BalanceKept`) and takes none back, which gives `StatsConsistent` and
`StatsNeverDecrease`; `Shape` is needed for `TypeOK`.

`ConfigurationProofs` proves `TypeOK`, `SnapshotIsValid`,
`RegistersInRange` and the refinement `ImplementsPromise`, for any values asked
for, valid or not, either mode, and any number of faults. The assumptions are the
types of the requests (`ValuesAssumption`, `GainsAssumption`,
`RequestsAssumption`): what Rust's types give. `RateServedIffOffered` is the
arithmetic underneath: validation and rate selection go by two tables, and a
rate is in one exactly if the other has a firmware rate and a factor for it.
The promise is not inductive: between two commands of an update nothing is as
the snapshot says. `SettingsInv` therefore says of every unfinished update that
it is `OnCourse`: from the registers as they are now, whatever they are, the
commands that are left make what is proposed in every field the update is
about, and leave all other fields alone (`KeepsTheRest`). Each plan is shown to
be on course from arbitrary registers (`UpdatesAreGood`), which is where the order
of its commands counts: a gain written before its AGC is off would be `Unknown`.
One answered command keeps an update on course, and the last makes it `Settled`.

`IqProcessorProofs` proves all five properties of `iq_reads`, for any
decimations, any block length that is a whole number of groups of each
(`BlockLenAssumption`), any capture and reads of any length. `IqInv` has two
parts. `BlockInv`: the block is the latest one and whole groups of it are used;
`ConversionFits` shows that a conversion uses whole groups, stays in its block,
and uses it up if it makes less than was asked. `StreamInv`: what is due is the
carried sample or else the next to be converted, and the filters heard
everything before that. `OutputContinues` joins carried and converted samples, and
shows that the last one delivered is one step before what is then due.

`DiscoveryProofs` proves `OpenIsWanted` and `PermissionSuffices`, for any devices,
any number of sockets and any selectors, under WebUSB and elsewhere. `OpenInv` says
what each step of an opening has established about the device it holds: that it is
plugged in and matches, once it is claimed that nobody else has it, at the end that its
firmware is known. `PermissionInv` says that as long as a permission counts there is
a device on the bus that it is good for. `FoundMatches` is what makes a selection
right: it finds a device exactly if one is visible and matches, and then one of
those. Devices are in a list, and `PlugLists` and `UnplugLists` say which are in it
after one came, at any place, or went.

`MaybeFutureProofs` proves `AwaitIsWait` and `OneAtATime`, for every set of futures,
every tree and every outcome. `AwaitIsWait` holds in two ways of computing the
same thing, so its invariant has to relate a poll that is half way through a tree
to a recursion over that tree. `PathInv` says what a path looks like: every future
but the last is a combinator that holds the next, and a value is always that of
the last. `AwaitInv` says that there is a forecast `e` for the path (`Foretells`):
of the last future, what is submitted so far and then what waiting for it submits,
with its value; of every other, what its continuation makes of the forecast for
the part it holds (`Resume`); and the forecast for the whole operation is `Wait(op)`. A
step changes the end of the path only, and leaves the forecast for what comes before
as it was (`ForetellsBegin`, `ForetellsSecond`, `ForetellsCut`). It needs that a
combinator goes on in the same way whatever was submitted before (`ThenWaitAfter`);
a dropped future has then done a beginning of `Wait(op)`, since forecasts only
extend what was submitted (`ForetellsExtends`).

`OneAtATime` has a hypothesis, `LazyConstruction`: nothing that is built ahead of
its turn submits anything. It is a fact about the trees of the driver, and TLC
evaluates it on them (`LazyAssumption` in `MCMaybeFuture`); without `defer` it is
false, and so is the property, as the mutant shows. From it follows that building
any future submits one transfer at most (`BuiltShort`), and `QuietInv` says that
only the last future of the path can be waiting for it.

Two facts carry the recursion. A set of naturals has a least element
(`LeastNatural`, from `WFMin`), so what fails for some number fails for a first one:
induction without the library's theorems that take an operator, which the
installed provers cannot instantiate. And a recursion whose value rests on smaller
numbers defines a function (`RecursionDefines`), stated with functions instead of
operators for the same reason; it gives `Built` and `Waiting` their equations.

Not proved, only model-checked: liveness, which is out of the prover's reach
(`ReadEnds`, `CleanupEnds`, `FinalCleanupEnds`, `AbandonedEndsQuiet`, `Completes`).
Every invariant and action property of a passing run is stated by a theorem.

## Not modelled

Floating-point filter values (kernels, DC removal, scaling), the bytes of requests
and responses, and error values with their texts: which operation fails is in the
models, with which words is not. The crate surface (`lib.rs`) only re-exports.
The nusb library, the radio's firmware, the browser and the executor are external: only
what the driver can meet of them is modelled.

## Plan

What was planned is modelled, and every safety property is proved. What could
follow: the trees of `Operations` themselves as a lemma, so that `LazyConstruction`
is proved of them instead of evaluated; and a refinement between `RxQueue` and what
`Receiver` assumes of a queue.
