# zlibs in TLA+

TLA+ models of [zlibs](../src/README.md), a C++ utility library for Zephyr, with
the properties that TLC checks on small instances and the theorems that TLAPS
proves for every instance. Sources are quoted relative to `src/module/`: headers
are under `include/zlibs/`, implementations under `src/`.

1. [The system](#the-system): components, state, interactions, what is hard
2. [The modules](#the-modules) and how they correspond to the code
3. [The runs](#the-runs): what is checked, in which bounds
4. [Fairness](#fairness)
5. [What is proved](#what-is-proved)
6. [Findings](#findings) and [weaknesses without a run](#weaknesses-the-models-show-without-a-run-of-their-own)
7. [Not modelled](#not-modelled) and [the plan](#the-plan)

`PROJECT.json` holds the same information for tools: the lines each definition
stands for, the runs, a mutant per property, the hazards.

## The system

A device built on zlibs runs a handful of Zephyr threads (the application, the
signaling dispatcher, work queues) and interrupt handlers (UART, timers). The
library gives them storage, messages between threads, and MIDI protocols.

    application threads ── publish / drain / dispatch_sync ──> Signaling ──> callbacks
         │        │                                              (one UserThread)
         │        └── SysExConf ── MIDI ── transports ── UART / USB drivers
         │                │                                  (ring buffers, ISRs)
         └── LessDb ── EmuEEPROM ── flash (Hwa)
         └── MotorControl ── timer ISR + work items

| component | state | operations | what is hard | what makes it correct |
|---|---|---|---|---|
| **EmuEEPROM** `utils/emueeprom` | two flash pages and a factory page, each an append-only log of (value, address) entries and page status records; RAM: page-status cache, value mirror, next-offset cache, one staged write block | `init`, `read`, `write` (cached or not), `flush`, `page_transfer`, `format`, `store_to_factory`, `restore_from_factory`, `page_status` | power loss between any two flash operations; failing flash; four caches of the same truth; entries that share a write block; boot-time repair | what was durable stays durable; caches agree with flash; a legal call never fails; boot repairs every header |
| **Signaling** `utils/signaling` | lifecycle, FIFO and slab of dispatch nodes, enqueue lock and generation; per signal type: subscribers, mutex, latest signal | `publish`, `subscribe`, dropping a `Subscription`, `drain`, `dispatch_sync`, destruction | several client threads and a dispatcher; callbacks that publish; an exhausted pool; a mutex held while a node is allocated; stopping | no node lost; each subscriber gets each signal once; waiting callers outlive their payload; calls return; stop ends |
| **Threads** `utils/threads` | one thread or work queue, a running flag | `run`, `destroy`, work submission | join timeout then abort | nothing runs after `destroy`, a thread is started once |
| **LessDb** `utils/lessdb` | block and section layout, last-read cache, initial value providers, storage through a callback | `set_layout`, `read`, `update`, `init_data`, `clear`, `register_layout_init_provider` | bit packing, half-written defaults, a cache that survives `clear` | read returns the last update; a call changes no parameter but its own; success means stored |
| **SysExConf** `utils/sysex_conf` | one buffer for the message being received and the answer, `_configuration_enabled`, custom requests, ignore mode | `handle_packet`, `close_connection`, `send_custom_message`, `set_layout`, `setup_custom_requests`, `reset` | requests in packets with other calls between them; answers in parts; partial SET | each request is put together whole and answered as the protocol says; nothing is set while the connection is closed; a backup can be restored |
| **MotorControl** `utils/motor_control` | per motor: movement, work item, lock; a shared timer and its `_timer_started` | `setup_movement`, `stop_movement`, `movement_state`, timer interrupt, work handler | thread, interrupt and work item share one movement; a cancel that waits under a lock | a movement that starts ends; steps are not lost; callers are not blocked for ever |
| **Ring buffer, timer, delayable work, mutex** `utils/misc` | indices and storage; kernel objects | `insert`, `remove`, `start`, `stop`, `cancel` | single producer and consumer without a lock; cancelling a running handler | FIFO order, bounded, nothing read twice |
| **UART, USB drivers** `drivers` | transmit and receive rings | `read`, `write`, interrupt handler | transmission started by a thread and ended by the interrupt | every accepted byte is sent once, in order |
| **MIDI and transports** `utils/midi` | parser, thru interfaces, BLE packets, `_tx_mutex` | `init`, `deinit`, `read`, `send`, `thru`, `register_thru_interface` and its counterpart | senders, a reader that forwards and an interrupt on one wire; packets cut off | the packets read at the other end are those written, and arrivals are read once |
| **Filters, Settings, StateMachine** | filter windows; the current state of a variant | updates | nothing concurrent, no error path of their own | tests cover them by value |
| **pure helpers** | none | conversions | boundaries | tests cover them by value |

How the parts interact: LessDb reads and writes through a storage class that an
application usually builds on EmuEEPROM; SysExConf calls user handlers that read
and update LessDb; MIDI drives the UART and USB drivers through transports;
Signaling runs on `UserThread` and is otherwise independent. LessDb and SysExConf hold
one mutex for the whole of every public function. EmuEEPROM contains no locking: it
is used by one thread at a time.

## The modules

| module | what it is |
|---|---|
| `EmuEeprom` | the emulated EEPROM, one action per flash step |
| `EmuEepromProperties` | its type invariant, safety invariants, action and liveness properties |
| `EepromStore` | what it promises: a durable table, without pages or logs |
| `EmuEepromRefinement` | the refinement mapping from the first to the third |
| `EmuEepromProofs` | its theorems for every flash and every failure: types, Valid pages, `init()`; lemmas about logs |
| `EmuEepromProtectedProofs` | its theorems where flash does not fail: page headers, offsets, calls that succeed |
| `EmuEepromStoreProofs` | its theorems where flash does not fail: the refinement, the mirror, durability |
| `Signaling` | client threads, dispatcher, channel and stop, one action per step another thread can see |
| `SignalingProperties` | its properties |
| `SignalingProofs` | its theorems: nodes, locks and callers; what the subscribers of a channel receive |
| `LessDb` | parameters of five widths packed into bytes, the last-read cache, resets |
| `LessDbProofs` | its theorems: fresh reads, stored values, neighbours that keep theirs; lemmas about powers, digits and sums |
| `MotorControl` | client threads, the timer interrupt and the cleanup work item |
| `MotorControlProofs` | its theorems |
| `SysExConf` | the configuration protocol: packets, requests, answers, its public functions |
| `SysExConfProofs` | its theorems: who sets values, messages that fit, requests that are answered, backups that restore |
| `Midi1Stream` | the MIDI 1 byte stream: packets as bytes, the parser, split SysEx |
| `BleStream` | BLE-MIDI packets: filling one, reading one |
| `UartHw` | the UART driver over two ring buffers, threads against the interrupt |
| `Midi` | an interface composed of the three: senders, reader, thru, `deinit()` and `init()` |
| `MidiProofs` | its theorems: types, packets that cross the wire whole, arrivals read once, bytes that somebody will send; lemmas about the parser, BLE packets and the ring buffer |
| `MCEmuEeprom`, `MCEmuEepromRefinement`, `MCSignaling`, `MCLessDb`, `MCMotorControl`, `MCSysExConf`, `MCMidi` | instances for TLC |

A definition whose comment says *Mutant* is not part of a model: it is what a property
is tried against, and nothing refers to it.

### EmuEeprom

*State.* `flash` holds three logs of entries; an offset counts entries where the
code counts bytes, `EntriesPerBlock` entries make a backend write block. `status`,
`cache`, `cacheDirty`, `next` and `block` are `_page_status_cache`, `_cache`,
`_cache_dirty`, `_next_write_offset_cache` and the staged `_write_block_*` fields.
`pc`, `op`, `entry`, `flag`, `oldPage` and `cursor` are the position and the locals
of the running call, `result` what the last one returned. A status record is an
entry at the reserved address 0xFFFF with a status as its value, as in the code.

*Steps.* A public call is a sequence of steps, each of which changes flash at most
once, so that power may fail between any two. A call without a flash operation
(`Read`, `WriteCached`, `PageStatus`) is one step. `write()` into a block with room
is one step; into a full page it is `WriteInternal` after the transfer: `XferFlush`,
`XferReceiving`, one `XferCopy` per address, `XferCopied`, `XferErase`, `XferFormatted`,
`XferValid`, `XferReload`. `init()` is `StartInit`, which chooses a repair from the
headers alone (`Repair`), then the repair's steps or the rest of an interrupted
transfer, then `FinalReload`. `format`, `store_to_factory` and `restore_from_factory`
are the `Format…`, `Store…` and `Restore…` actions. Every step that uses the Hwa has
a failing variant (`…Fails`, `Faulty`, `Refuses`), whose error path is the code's: a
failed repair formats, a failed `format` returns false.

*The Hwa is external.* It programs a write block or erases a page atomically, and it
refuses what NOR flash cannot do, which is a zero-to-one change (`Accepts`): an entry
written twice to one block is a failed call, not a silent success. A failing Hwa
leaves flash as it was. `PowerLoss` keeps `flash` and drops the rest.

*Abstractions.* Values are model values; 0xFFFF is the constant `ERASED` and, as in
the code, both the erased word and the status of an empty page. Values that callers
write differ from 0xFFFF (see [weaknesses](#weaknesses-the-models-show-without-a-run-of-their-own)).
`Hwa::init` and `Hwa::read` do not fail. Linear scans over a log are set expressions
(`NewestStatus`, `NewestValue`, `FirstFree`) with the scan limits of the code, because
the limits are where a stale cache would hurt.

### EepromStore and the refinement

`EepromStore` has no pages: `visible` is what readers see, `durable` what a power loss
leaves, `buffered` what is accepted and waits for its block to fill, `factory` the
snapshot. A cut keeps `durable` and `factory`; a start shows exactly `durable`; a
format, a snapshot or a restore is all or nothing once it returns.
`EmuEepromRefinement` maps the device to it: `visible` is the RAM mirror, `buffered` the
staged block, `durable` what `init()` would recover from the present headers
(`Recovered`), or the new page while the old one is being replaced. The variable `view`
stores the value of that mapping so that TLC computes it once per state; it is
determined by the other variables and restricts nothing.

The device does not implement the store when power fails in three places; they are
named (`Exposed`, `RestoresFullPage`), excluded by `ProtectedNext`, and reported below.
Everywhere else, repairs and interrupted transfers included, nothing durable is lost.

### Signaling

*State.* `lifecycle`, `fifo`, `free` (nodes left in the slab), `enqueueLock` and
`generation` are the dispatcher's fields; `channelLock`, `subscribers`, `nextId`,
`lastSignal` one `Channel`'s. `frames` is the stack of `Channel::publish()` and
`replay()` calls in progress, with what is `publish_depth` as its length; `loop` and
`running` are where `run_loop()` is and its node. Each thread has a `pc`, the kind of
its `call`, `drain()`'s `before`, and its semaphore `done`. Signals are numbered in the
order they are published; a slot records, for the properties alone, the signals it
`got`, the one that was latest when it `joined`, and whether its subscriber was told
that the replay was `dropped`.

*Steps.* A step is what a thread does between two points where another thread's step
can matter: an atomic access, a lock, the slab, the FIFO, a semaphore, a callback's
start and end. A call goes `Allocate` (or `NoWaitEmpty`, `TimesOut`), `Check`, `Lock`,
`Recheck`, `Put`, and for `drain()` and `dispatch_sync()` `Wake` and `Recount`.
`subscribe()` is `Subscribe` (its assertions), `Register` under the channel's mutex and,
with a replay, the same steps while the mutex is held. The dispatcher goes `Get`,
`Invoke`, then `Deliver` / `CallbackReturns` per subscriber and `EndLoop`, `Release`, and
`Finish` after a stop. A callback may publish at once on the dispatcher (`PublishSync`,
nested up to `MaxDepth`), a `dispatch_sync()` callback may also subscribe and unsubscribe.
`RequestStop` and `WakeUp` are `request_stop()`.

*Contract of the callers*, from the module's README and assertions: subscribers'
callbacks do not subscribe or unsubscribe, and the dispatcher does not call `drain()` or
`dispatch_sync()`. One signal type is modelled; types share the dispatcher but no
channel.

### LessDb

*State.* `storage` is what is behind the Hwa; `layout`, `initialAddress`, `lastAddress`,
`lastValue` and `providers` are the fields of `LessDb`; `reset` and `cursor` are where
`init_data()` is; `call` and `answer` are the last call and what it returned.

*Steps.* A public function holds `_mutex` from start to end and is one action (`read`,
`update`, `set_layout`, `clear`, the providers); `init_data()` is `init_data`, one
`InitWrites` per storage unit (a byte full of packed parameters, or one wide parameter)
and `InitDone`, because it stops at the first unit that fails. `Rejected` stands for
calls refused before they touch anything. Any Hwa operation may fail, up to `MaxFaults`
times, and a failed write of a wide parameter leaves any number of its bytes behind.

*Data.* Addresses, places in a byte and values are the code's arithmetic (`AddressOf`,
`Place`, `Updated`, the wrap of the `uint8_t` array index as `IndexLimit`) for bytes of
`BYTE_BIT_COUNT` bits. `ResetValue` is what a provider or the default says, cut to the
type's width. `layout_uid()` is a constant of the layout and has no state. Powers and
sums are recursive functions (`Power`, `Sum`), which the provers can reason about.

### MotorControl

*State.* `motor` holds each `Motor`'s `_run_state`, `_acceleration_counter`,
`_movement_pulses_sent`, `_movement`, `_stop_requested` and
`_pulses_before_deceleration`; `enabled` its output stage, `lock` its `_movement_lock`,
`pending`, `worker` and `workStep` the `_kwork_reset_movement` items on the one work
queue; `timerStarted` and `timerRunning` are `_timer_started` and the timer; `client` is
where each caller is. The histories `asked`, `raced` and `stuck` are for the properties;
a motor is in `stuck` from a `disable()` that failed to the next one, or `enable()`, that
works.

*Steps.* `check_motors` is the timer interrupt, which no thread interleaves with: each
moving motor's tick is early, due, past the maximum run time, or fails at the Hwa
(`Luck`). The work queue takes an item (`WorkStarts`), cleans up under the lock
(`WorkCleansUp`, whose `disable()` may fail unseen: `Disables`) and calls the stop callback
without it. A client's `setup_movement()` goes `SetupAccepted`, `SetupEnables` (or
`SetupFails`: `enable()` fails, or the direction cannot be set, and the `disable()` that
follows may fail too: `SetupPowers`), `SetupWrites`, `SetupGoes`,
`SetupUnlocks`, `SetupStartsTimer`; a `stop_movement()` `StopMarks`, `StopLoads`,
`StopSlows` or, forced, `StopResets`, `StopClears`; then `StopScans`, `StopExchanges`,
`StopStopsTimer`. Between two of these the interrupt, the work queue or another client
may run.

*Abstractions.* Intervals and clocks are left out: an acceleration step is an index
into the table, whose values decide only how long a tick is early. Pulse counters stop
at `SentBound`, which is above every movement's pulses.

### SysExConf

*State.* `response` is `_response_array` up to `_response_counter`, which holds the
request while packets arrive and the answer afterwards; `active`, `enabled`, `ignore`,
`layout` and `customs` are fields; `store` is what the external data handler keeps;
`tool` is the request a tool is sending. `event` records what the last call handled and
sent, and is read (`AnswersAreRead`) before the next.

*Steps.* Every public function is one action, because it holds the recursive `_lock`:
`ToolBegins` and `ToolGoesOn` are `handle_packet()` of the next packet of a request
(`PacketCollected`, `PacketHandled`), `OtherPacket` one that is not SysEx, then
`send_custom_message`, `set_layout`, `setup_custom_requests`, `close_connection`,
`set_user_error_ignore_mode` and `reset`. `handle_request` gives the answers, the new
values and the connection of a request: `decode_standard_request` with its checks in
their order, `ReadOutcome` (GET and BACKUP, part by part up to the first error),
`WriteOutcome` (SET, value by value up to the first refused), special and custom
requests. The handler may refuse any one value; custom handlers have the outcomes of
`CustomOutcomes`.

*Abstractions.* A message is a sequence with an element per field: the manufacturer id
is one, and so is a 14-bit value, whose two bytes only split and merge it.

### MIDI: Midi1Stream, BleStream, UartHw, Midi

`Midi1Stream` names a status byte by its message; one name stands for all that the code
treats alike. `parse` is `Midi1ByteToUmpParser::parse()` with running status, pending
bytes and SysEx in pieces; `Midi1Bytes` and `SysEx7Packets` are the writers. `BleStream`
is the packet being filled and `TakeByte`, a round of the BLE transport's read loop.

`UartHw` has threads that hold `_mutex` in `write()` (`UartWrite`, `Put`, `Publish`,
`Enable`) and `read()` (`UartRead`, `Advance`), split where the ring buffer stores its
indices, against an interrupt that takes nothing (`IsrReceive`, `IsrSend`, `IsrIdle`,
`IsrFails`); `UartClose` and `UartOpen` are `shutdown()` and `init()`.

`Midi` composes them into one interface. `Send` takes `_tx_mutex` and starts a packet
(`StartWrite`), whose bytes go through the serial transport (`SerialByte` and the
driver's steps, or `SerialRefused`) or into BLE packets. There `inByte` is where a thread
is in `write_midi_byte()`: it compares the size (`BleChecks`), sends a full packet
(`BleFlushes`, or `BleFails`), starts the next (`BleStarts`) and adds its byte with `at()`
(`BleAppends`), which ends the thread when there is no room (`BleAborts`); `BleDone` sends
the rest. A writer that holds no common lock may come between any two of these. The reader
fetches and parses a byte (`SerialRead`, `SerialParse`,
`BleFetch`, `BleParse`) and, for each packet, writes to a copy of the thru table
(`Thru`), without the `_tx_mutex` of the destination, as the code does. `Register` and
`Unregister` run at any time, `Deinit`, `CloseTransport`, `Reopen` close and open the
interface. The peer at the other end reads the wire with the library's own parser, so
that `WireCarriesPackets` is about writer and parser together. That the serial
transport's Hwa is the UART driver is an assumption: an application wires them.

A `Scenario` fixes what the senders send and what arrives; everything else is free.

## The runs

Each passing run answers one question; every property of a run has a mutant in
`PROJECT.json`, a plausible bug in one definition that makes the run fail.
A violation run checks one statement of the documentation that the code breaks.

| run | instance | question and answer |
|---|---|---|
| `eeprom_calls` | 2 addresses, 5 write blocks of 2 entries, 1 value, every call but the factory ones, no Hwa failure | Do the caches agree with flash after any history of calls, boots and power losses, and does every legal call succeed? Yes: `StatusCacheIsCurrent`, `MirrorMatchesLog`, `NextOffsetIsFree`, `FlushMakesDurable`, `CallsSucceed`. And does it implement `EepromStore` where an accepted write may be staged only? Yes: `ImplementsStore`. |
| `eeprom_faults` | 1 address, 4 blocks of 1 entry (full capacity), every header of `AnyDevice`, 2 Hwa failures anywhere; every call inside the address range, `flush()` as the first half of `store_to_factory()` | Do the error paths leave something `init()` cannot repair? No: `BootRepairs`, `NeverTwoValid`, `NoBlockStagedAtStatus`. |
| `eeprom_store` | 1 address, 4 blocks of 1 entry, 2 values, factory calls | Does the device implement `EepromStore`, and does it keep coming back to serve? Yes, where power holds through the exposed steps: `ImplementsStore`, `KeepsServing`. |
| `eeprom_swap` | 1 address, 4 blocks of 1 entry, `write` and `flush` | `NothingVanishes` fails: finding 1. |
| `eeprom_flush_fault` | 1 address, 5 blocks of 1 entry, 1 Hwa failure | `NoFlushedValueVanishes` fails: finding 2. |
| `signaling_calls` | 2 clients, pool of 2, 3 calls, publishes nested 2 deep, a stop at any time | Are nodes, signals, replays and waiting callers safe, does `drain()` mean what it says, does everything return? Yes: nine properties. |
| `lessdb_calls` | bytes of 2 bits, 3 addresses, every type in 4 layouts and the empty one, 2 start addresses, 1 provider, 1 Hwa failure | Does a read return what is stored, does success mean stored, and does no call change a neighbour? Yes: `ReadIsFresh` (but for two calls named there), `SuccessIsStored`, `ChangesAreOwned`. |
| `motor_calls` | 1 motor, 2 clients, a table of 3 steps, an endless and a counted movement | Are movements ticked, as asked, powered, ended and cleaned up, and do calls return? Yes, unless a stop raced (a motor at rest is off even then, if its last `disable()` worked), and except in `CancelDeadlock`: six properties. |
| `sysex_calls` | 2 values to a part, sections of 3, 1 and 0 values, some 60 requests, right and wrong, in packets of 6 | Are requests answered as the protocol says whatever comes between their packets, is nothing set without a connection, can a backup be restored? Yes: `RequestsAreAnswered`, `OnlyOpenSets`, `BackupRestores`. |
| `midi_calls` | the scenarios of `MCMidi` on both transports, rings of 2, BLE packets of 5, a failure, a `deinit()` | Do packets cross the wire whole and in order, are arrivals read once, does every accepted byte leave, is there room for every byte of a BLE packet? Yes, but for overlapping writers: `TypeOK`, `WireCarriesPackets`, `ReadsAreArrivals`, `AcceptedBytesLeave`. |
| `signaling_assert` | 1 client | `AssertionsHold` fails: finding 3. |
| `signaling_stop` | 1 client, 1 call | `AcceptedWorkRuns` fails: finding 4. |

*Why these bounds are enough.* A page of the EEPROM has three status records in its
life and a log of entries. Four or five blocks make pages fill up, transfer and
swap within a few writes, so every state of the header protocol is reached from
every other; two entries to a block are the smallest number with a partly filled
block, which `FlushBlock`'s rounding and the staged block are about; one entry to a
block is the smallest, and with four of them the page is at full capacity. Two addresses
tell apart a value from its neighbour's; two values tell an old value from a new one, and
where only presence matters one is enough. Values
are only compared, so they may be interchanged (`ValueSymmetry`) where no liveness
is checked. `AnyDevice` combines, for both pages, every header that a power loss or
other firmware leaves. Two Hwa failures are one that starts an error path and one
inside it. The length of a history is not bounded: the state spaces are finite and
explored completely.

For signaling, two clients and the dispatcher are the three parties of every
interleaving in question (one waits, one races it, one runs); a pool of two is
emptied by two calls; three calls are a publish, a subscription with replay and a
`drain()` in any order, or two waiting callers and a publish between them; depth two
is a publish inside a callback. `calls` is the only counter that ends behaviours
(subscriptions, nested publishes and the three calls count), so `CHECK_DEADLOCK
FALSE` is set: a system with its calls used up, or with a dispatcher that has ended,
really has nothing left to do. The runs of the EEPROM, LessDb, SysExConf and MIDI check
deadlock.

LessDb's arithmetic depends on how a parameter lies in a byte: bytes of two bits hold two
bit parameters or two half bytes, words of two bytes and double words of three cross
them, and an index limit of one makes the wrap of the array index happen within two
bytes. One Hwa failure at any operation is enough, since a failed call returns at once.

For the motors, two clients are a setup against a stop, or two stops, with the interrupt
and the work queue as third and fourth party. A table of three steps is the smallest in
which a motor can be decelerating and still has a pulse to send; with two steps some
races could not show. A counted movement of three pulses accelerates, runs and
decelerates. `CHECK_DEADLOCK FALSE` is set because the code really stops in
`CancelDeadlock`. One motor is enough for the lock and the work item; the timer is
shared, and a second motor would only keep it running longer. The theorems hold for any
number of motors and clients.

A SysExConf section of three values is a full part and a shorter one; one value is a
part that is not full, none has no part. Requests of up to 12 fields take one packet or
two. `MAX_MESSAGE_SIZE` follows from the part size, and some requests and one
custom answer are longer. A message sent by the application has the shape of the
fields of a SET.

For MIDI, three bytes and a ring of two make the ring fill up within a packet; a SysEx of
three bytes takes two packets of two, which is a start and an end; BLE packets of five
bytes are full after three, so that a forwarded message and a SysEx that is sent meet
at the last free byte. The two data bytes tell bytes apart. One failure and one
`deinit()` fall anywhere, but for the scenario that forwards and sends over BLE, where
threads meet at every step of a byte: it has the failure and no `deinit()`, which the
scenarios of `Arriving` have while BLE messages are forwarded and those of `Sending`
while they are sent.

## Fairness

*EmuEEPROM*: `WF(Step)`, the steps of a call that has been made. The code is
sequential: a call, once entered, runs until it returns. Which call is made, and
whether power fails, is not fair. `KeepsServing` therefore excludes behaviours in
which power fails infinitely often.

*Signaling*: weak fairness of each thread's steps, of the dispatcher's and of
`request_stop()`'s second half. Zephyr runs every ready thread as long as no thread
of higher priority runs for ever; callbacks return. Locks and the slab are taken in
any order among waiters, which weak fairness suffices for, because the bound on
`calls` ends contention. Not fair: making a call, dropping a subscription, publishing
from a callback, timing out (`TimesOut` belongs to `Choice`, so no property relies on
a timeout), and asking to stop.

*MotorControl*: weak fairness of a tick in which every interval has passed (the timer
expires as long as it runs) and of the work queue; strong fairness of each client's
steps, because Zephyr hands a mutex to the thread that has waited for it, so that a
client is not overtaken for ever. No call has to be made, and no Hwa has to fail.

*MIDI*: weak fairness of the transmit interrupt with a byte to send, and of a thread that
is inside the driver with its mutex. Nothing says that a reader reads or a sender sends.

## What is proved

The theorems hold for every value of the constants that the assumptions allow.
TLC has checked each of the invariants on the instances above.

**EmuEepromProofs**, under `ConstantsAssumption` (the static assertions of the class
template: a non-empty block, and room for every address in the blocks beyond the three
reserved ones; legal initial flash).

- `TypeCorrect`: `Spec => []TypeOK`. It says that no cached offset leaves a page and
  no block is staged across one, for every geometry, initial flash and number of
  failures.
- `StatusRecordsStandAlone`: `Spec => []NoBlockStagedAtStatus`.

Both follow from `IndInv`. `TypeOK` alone is not inductive: the cursor of a copying
loop must be known to stand at the start of a block (or `BlockErased` would look past
the page), `store_copy` must have a page to read, and every step of `ClearSteps` must
be reached with nothing staged, because `write_page_status()` would otherwise flush a
block at an offset the new record then takes. `StepPreserves` has one lemma per group
of actions; the lemmas before it type the operators on logs and offsets.

About the pages, with any flash and failures anywhere:

- `OnePageIsValid`: `Spec => NeverTwoValid`. `OneAtATime` says that wherever a Valid record is
  about to be written the other page is not Valid. It is needed for a block that could
  not be programmed: a Valid record stays staged after its call has failed, and a later
  flush writes it.
- `BootsRepair`: `Spec => []BootRepairs`. Nothing is known of flash when `init()` starts, so
  `BootAt` collects what it has made sure of before each step: which page serves, that
  the other one is blank or has the header just written, and during a resumed transfer
  that the new page is records and then erased blocks with the staged block behind
  them (`CleanLog`, `Staging`), without which its Valid record would not be its newest
  one. A failing step ends in `format()` or in an `init()` that returned false, which
  know nothing again. The lemmas about logs before it serve the next two modules as well.

**EmuEepromProtectedProofs**, about `ProtectedSpec` (power holds through the `Exposed`
steps) with `MaxFaults = 0` and `OwnFlash`: the initial flash holds what this firmware
leaves, which is records without gaps, no address beyond the range, and nothing behind a
Formatted header. After an Hwa failure these theorems are false (finding 2 is one way).

- `StatusesAreCurrent` and `NextEntryGoesToFreeSpace`: `ProtectedSpec => []StatusCacheIsCurrent`
  and `[]NextOffsetIsFree`. Both follow from `Orderly`: every log is records and then
  erased blocks (`CleanPages`), a page that waits for a transfer has its header only
  (`HeaderPages`), and for every step of a call which page serves, what the other one's
  header says and which of the two is cached (`StatusAt`), and where the next entry goes
  (`StagedAt`). Between calls that is `Home`: one page Valid, the other Formatted.
  Half-way through a transfer, a boot or a format each step has a case of its own.
  `EntryAt` is about the retry after a transfer.
- `EveryCallSucceeds`: `[]CallsSucceed`, with a write block to spare (`SpareBlock`) and
  without `restore_from_factory`, which may find no snapshot. `RoomAt` carries the space
  through a transfer: the copy of all addresses leaves room for the Valid record and a
  block, so that the second attempt of a write cannot find the page full.

**EmuEepromStoreProofs**, about the same device, with `OwnValues` (initial flash holds
values that callers write) and `Storable` (0xFFFF is not one of them; see below).

- `DeviceIsStore`: `ProtectedSpec => ImplementsStore`, the step simulation. For each
  action of `EmuEeprom` a lemma shows that `View` makes a step of `EepromStore` or stays:
  `write()` is `Write` also where a transfer comes between the two attempts, programming
  the staged block is `Drain`, the Valid record of a transfer changes nothing, a boot
  ends in what `Recovered` said at the power loss. `Truthful` is the invariant behind
  them: what the mirror, the staged block and the log of the serving page say together
  at each step (`MirrorAt`), that a transfer has copied the mirror up to the cursor
  (`CopyAt`), and what a format or a restore has left (`WipeAt`, `RestoreAt`). The lemmas
  before it say what a log holds after a record, an entry or an erase, without
  induction: a scan is the greatest offset of a set.
- `MirrorIsTheLog` and `FlushedIsDurable`: `[]MirrorMatchesLog` and `[]FlushMakesDurable`,
  from the same invariant.
- `BlankDeviceIsOwn` says that the assumptions hold of a device that was never written.

**SignalingProofs**, under `ClientsAssumption` (finitely many clients, distinct from the
dispatcher and the owner; a pool of at least one node).

- `UnsubscribeWaits`: `Spec => []CallbackIsSubscribed`. From `LockHeld`: whoever is in a
  loop over the subscribers, or queues a replay for one, holds the channel's mutex, and
  the dispatcher subscribes only inside a `dispatch_sync()` callback. So `Unregister`
  is disabled while a frame exists, and every frame's slot stays.
- `CallersWait`: `Spec => []CallerWaits`. `Waiters` adds that no two pending nodes have
  the same waiting caller (the first would wake it with the second queued) and that a
  semaphore is given only to a caller that waits.
- `NodesAreConserved`: `Spec => []NodesConserved`, a count over the threads that hold a
  node. It needs `HasJob`: the dispatcher has a node exactly between `Get` and `Release`.
- `TypeCorrect`: `Spec => []TypeOK`; the bound `free <= PoolSize` follows from the count.
- `DrainDrains`: `Spec => DrainLeavesNothing`. `Barriers`: as long as the generation is the
  one `drain()` saw, its barrier is queued with nothing counted behind it, or it is the
  dispatcher's node and nothing counted is queued, or nothing counted is left at all.
  Queueing counted work breaks that and raises the generation in the same step.

About the channel, under the same assumption:

- `SubscribersGetEachSignalOnce`: `Spec => []EachSignalOnce`. The property says nothing of a
  subscriber while a loop runs, so it is not inductive. A callback that publishes starts
  a loop inside its loop, and the inner one reaches the subscribers behind it first:
  `Coming(i)` is the set of signals whose loops have not come to position `i`, and `InStep`
  says that what a subscriber has received and what is coming to it are disjoint and
  are together everything published since it joined. `Loops`, that a replay is the
  outermost loop only and every publish loop has its own signal, is what makes a signal
  leave `Coming` exactly when it is received. That slots do not shift under a loop comes
  from `LockHeld`.
- `ReplaysAreKept`: `Spec => []NoReplayLost`. `ReplayUnderWay` lists where the replay of a waiting
  subscriber may be: its subscriber's thread is still queueing it (then its slot is the
  last one), or a replay node is queued, about to be handled, or looping at or before it.
  One replay serves all that wait, which is why no slot needs a node of its own.

**MotorControlProofs**, under `MotorAssumption` (a table of at least one step; movements
of a counted number of pulses; `Nobody` is no thread and no motor).

- `TypesHold`: `FairSpec => []TypeOK`. `_acceleration_counter` stays in the table and every
  counter in its range for any number of motors, clients and movements. Needs only that
  a client in a call has a motor.
- `PulsesArePowered`: `FairSpec => PulsesNeedPower`. `Locked`: a setup between `SetupAccepted`
  and `SetupUnlocks` holds the lock of its motor, so two of them have different motors and
  the cleanup waits. `Powered`, as long as no stop has raced: a motor that moves is
  enabled; one whose setup is under way is at rest, and enabled once `SetupEnables` is
  done. The case that matters is `WorkCleansUp`, which takes the power off a motor only
  with the lock free and the motor at rest.

- `ActiveMotorsTick`: `FairSpec => []ActiveIsTicked`. `Ticking` takes the places where a motor
  is active and its timer is not yet started, or marked as started and not yet running,
  together with the client that is about to do so.
- `AskedMovesAreMade`: `FairSpec => []MovesAsAsked`. `Carried` adds to the property what a
  setup has written so far (`Written`), since the movement becomes visible to the
  interrupt before its client returns.
- `RestingMotorsAreOff`: `FairSpec => []RestIsUnpowered`, raced stops included. `OffAtRest`: an
  enabled motor moves, waits for its cleanup, is being cleaned up, or has a setup that
  will start it or clear up after itself; or the Hwa refused its last `disable()`
  (`stuck`), which no code repeats.

**SysExConfProofs**, under `SysExAssumption` (parts and packets that hold something, a
layout of sections with natural counts and limits, requests that are sequences of
numbers) and `CallersAssumption`, which the code leaves to its callers: what
`send_custom_message()` is given fits the buffer, which it does not check
(`sysex_conf.cpp:851`), and a section has limits in order and at most 126 parts, since a
part's number is one byte in which 126 and 127 mean all parts.

- `OnlyOpenConnectionSets`: `Spec => OnlyOpenSets`, for every layout, request, packet size
  and order of calls. `Typed` is the inductive part: the buffer is a sequence of numbers
  whatever is appended, and the layout is the one given. `AcceptedSet` says that only a
  request that passes `decode_standard_request` and is no read has an outcome with other
  values; `AcceptedIsOpen` that such a request was accepted under an open connection and
  is a SET; `AssignedInRange` that the values it changes are in its section and in range.
- `MessagesFit`: `Spec => []TypeOK`. A request fits because `PacketFits` shows that
  `handle_packet()` compares the length that the packet would make, the end marker
  included. An answer overwrites fields of a request that fitted and then appends:
  `AddedFits` says that `add_to_response()` keeps room for the marker, `PartAnswerFits` that
  a read stays in its part whatever value fails, `SpecialFits` and `WriteTyped` do the rest.
- `BackupsRestore`: `Spec => []BackupRestores`. The property hands each answer to
  `handle_request()` again, so its proof runs a request through both sides.
  `BackupAnswer` says that an answer is `Restores`: a SET of its part with the values in the
  store (`PartHolds` counts them, a last part that is not full included).
  `RestoreIsAcked` says that such a request passes each check of
  `decode_standard_request()` and writes what is there. The second needs `InRange`, that
  every stored value is one that a SET may carry, which `ChangesByOpenSet` preserves.
  `AnswersStand` keeps the first true until the answers are read.
- `RequestsGetAnswers`: `Spec => RequestsAreAnswered`. `Gathered` is what the assembly of
  packets keeps: while a message is put together, the buffer followed by what the tool
  still has to send is the message, unless it was `crossed`. The rest is about one
  request: `ErrorFollows`, a part is read with an Ack or ends the answers with an error;
  `WholeReadSends`, a read of all parts flattens to the values of the section
  (`FlattenIs`: one table of prefixes, one piece per part, and `PartCarries` for each);
  `SetIsStored`, the assignments of an acknowledged SET have different parameters, so
  each is what the store holds afterwards.

**LessDbProofs**, under `LessDbAssumption` (a byte of an even number of bits, wide types of
at least one byte, layouts of sections with natural counts and defaults) and
`ProviderAssumption` (a provider has a number or nothing for every parameter of a
section it can be registered for):

- `TypeCorrect`: `Spec => []TypeOK`; `ReadsAreFresh`: `Spec => []ReadIsFresh`;
  `SuccessMeansStored`: `Spec => []SuccessIsStored`; `OnlyOwnedChange`: `Spec => ChangesAreOwned`.
  `ParametersApart` says that the accesses of two parameters meet only in a byte of one
  packed section, which is what `make_block()` and `make_layout()` are for.
- `Inv` adds to the properties: `TypeInv`, a layout in place is one that was accepted, and
  providers are as they were registered; `CacheIsFresh`, the cached byte is the stored one
  for every packed parameter that would use it (`ReadIsFresh` is about the last call only,
  and `lastAddress` is also set by reads that leave `lastValue` alone); and `ResetSoFar`,
  every unit that `init_data()` has passed holds its reset values, which a later unit must
  not disturb.
- What they rest on are facts about data for all sizes: the digits of a number
  (`AroundDigit`, `OtherDigits`), that a sum of digits times powers has these digits
  (`DigitsOfSum`, `SumOfDigits`), that prefix sums place sections without overlap
  (`SectionsApart`, `SectionRange`), that a wide value reads back what was written
  (`WideReadsBack`). The induction is over sets of numbers: `NumbersFrom0` derives from the
  well-foundedness of `<` that a set with 0 and every successor has all numbers, and a
  recursive function is what it computes once a table with its equation is known to exist
  (`PowersExist`, `SumsExist`).

**MidiProofs**, under `StreamAssumption` (a SysEx packet carries at least a byte; data bytes
are no status bytes), `BleAssumption` (a BLE packet has room for a byte behind header and
timestamp), `UartAssumption` (rings of at least one byte) and `MidiAssumption`, what a
scenario is: packets sent have all the bytes their message has (`WholePackets`: short
messages complete, all pieces of a SysEx but the last full, as
`write_sysex7_payload_as_ump_packets()` builds them), and the peer sends any bytes at all.

- `RoundTrip`: the parser reads back every sequence of packets that the library writes, of
  which a packet goes on with a SysEx if and only if the one before left it open, and
  whatever it had read before. `Settled` is where it stands in between: a piece of a SysEx
  stays in the parser until the next byte.
- `TypeCorrect`: `Spec => []TypeOK`. `Typed` adds that a parser is good (`GoodParser`: what is
  pending is the beginning of a message), that the thread inside the driver carries the
  next byte of its packet, and that a sender holds `_tx_mutex`. `BleInv` is about
  `write_midi_byte()` over BLE: only a writer with bytes left is in it, and one that has
  met no other finds the packet as it was when it compared its size, so that `at()` has
  room. With two writers at once (`disturbed`) that is false, see below.
- `PacketsArrive`: `Spec => []WireCarriesPackets`, for any packets, rings and BLE packets, any
  number of senders, and failures anywhere. The invariant is `Carrying`. `QueueInv`: unless
  clobbered, the transmit ring holds exactly the bytes that calls have queued, also
  between the three steps of a `write()`, in which the slot being filled is the free one
  behind the head. `CarryInv`: the bytes in the ring and those the one writer has left,
  read by the peer, complete what was `written`; and of a packet that does not go on with
  a SysEx nothing arrives before its last byte (`Carried`, `NothingEarly`), which is why a
  packet that is cut off leaves no trace. On BLE the bytes go by packets: what a writer has left
  includes those waiting in the packet, until it is sent (`Unsent`), and `Flowing`
  says that a timestamp is looked for nowhere inside a SysEx, so that the reader takes all
  of them (`PayloadTaken`).
- `ReadsArrive`: `Spec => []ReadsAreArrivals`, if the messages a scenario names are those in
  the bytes it sends (`MessagesIn`), as they are in the scenarios of `MCMidi`. `ReadInv`
  follows the bytes: those that arrived are those parsed and then those in the receive
  ring (`SerialReading`), the thread inside `read()` holds the oldest (`RxHeld`), and a BLE
  reader is in some round of the last packet, with all before it parsed (`BleReading`).
- `BytesAreAwaited`: `Spec => []Awaited`. A byte in the transmit ring has the interrupt on, a
  thread about to turn it on, or a failure or a shutdown behind it (`stalled`), whatever
  the interleaving: the interrupt turns itself off over an empty ring only. It is the
  safety half of `AcceptedBytesLeave`; that the interrupt then runs is fairness.

The recursive functions of the models (`ParsedAll`, `TakeAll`) are reasoned about as in
LessDbProofs; an induction over sequences is one over a set of them (`SequencesFromEmpty`).

*Model-checked only.* Liveness: `KeepsServing`, `CallsReturn`, `StopEnds`,
`AcceptedBytesLeave`. Their proofs need `ENABLED`, which the prover does not handle.

## Findings

1. **A power loss during a page swap loses everything** (`eeprom_swap`).
   `page_transfer()` erases the old page (`emueeprom.cpp:735`) before it writes the Valid
   record of the new one (`:745`). In between no page is Valid and `init()` formats both,
   although the new page is complete and its header (Receiving) says so.
2. **`flush()` returns true for a value the next boot erases** (`eeprom_flush_fault`).
   When a transfer fails after its Receiving record, `find_valid_page(Write)` goes on
   choosing that page (`:489-495`); `init()` erases it (`:150-155`).
3. **The callback assertions fail for bystanders** (`signaling_assert`). `subscribe()`
   and `unsubscribe()` assert `publish_depth == 0` before they take the mutex
   (`signaling.h:287`, `:313`), and `publish_depth` is raised by the dispatcher for all.
4. **Work accepted during a stop is never run** (`signaling_stop`). `request_stop()`
   changes the lifecycle without `_enqueue_lock` (`signaling.cpp:66`), so a node may be
   queued after the dispatcher's last drain. `publish()` has returned true; `drain()` or
   `dispatch_sync()` would wait for ever.

## Weaknesses the models show without a run of their own

- `restore_from_factory()` of a snapshot of a full page has no room for the second
  Valid record (`emueeprom.cpp:384`) and fails with both pages erased
  (`RestoresFullPage`).
- A power loss during `store_to_factory()` leaves a part of a snapshot under a Valid
  record, which is copied first (`:319`); one during the copy of
  `restore_from_factory()` has erased both pages (`Exposed`).
- With the address range at its maximum and every address written, a transferred page
  is full at once: `write()` returns `PageFull` from then on. `CallsSucceed` is
  checked with one spare block.
- A stored 0xFFFF looks like "not cached" to `read()` (`:406`), which then finds an older
  value in the log and puts it back into the mirror. The models' values are not 0xFFFF.
- A callback that publishes makes the subscribers after it receive the newer signal
  before the older one (`signaling.h:350`).
- A replay that was reported as dropped may still come later, together with the next
  replay of another subscriber, because its slot keeps `needs_replay` (`:655`, `:387`).
- *LessDb*: `clear()` and `set_layout()` leave the last-read cache, so the next read of a
  packed parameter in that byte answers from before (`lessdb.cpp:302`; `ReadIsFresh`
  excludes them by `outlived`). The array index of a bit section is a `uint8_t` (`:62`), so
  parameters past 2047 share a bit with earlier ones (`Aliases`). A failing write leaves
  `init_data()` half done.
- *MotorControl, a deadlock*: `setup_movement()` waits in `cancel()` with `_movement_lock` held
  (`motor.cpp:201`); when the cleanup handler has started and waits for that lock, neither
  goes on (`CancelDeadlock`). For the same reason a stop callback that sets up its own motor
  cancels the handler it runs in. A handler that is cancelled before it starts takes the
  stop callback of the earlier movement with it.
- *MotorControl, raced stops*: `stop_movement()` checks the state (`motor.cpp:346`) and writes
  later (`:359`, `:366`, `:388`), without the lock. When the interrupt ends the movement in
  between, the motor is Decelerating or Stopping with its timer stopped, for ever. With a
  new setup in between, a forced stop clears the new movement, and the work item it
  schedules can switch the output stage off under a motor that a second late stop makes
  decelerate: pulses go to a stage that is off. Two clients are enough for that. A stop
  that has found no motor moving stops the timer (`motor_control.cpp:98-102`) under a
  motor set up meanwhile. All of these set `raced`, and `ActiveIsTicked`, `MovesAsAsked`,
  `PulsesNeedPower` and
  `StopEnds` are about the rest. A motor at rest is switched off even so, unless `disable()`
  failed (`RestIsUnpowered`).
- *MotorControl, a `disable()` that fails*: when the direction cannot be set and `disable()`
  fails as well (`motor.cpp:193`), the refused setup leaves a motor at rest powered. The
  cleanup ignores the result of its `disable()` (`:43`) and calls the stop callback. Neither
  is tried again before the motor's next movement; `RestIsUnpowered` exempts such motors
  (`stuck`).
- *SysExConf*: an application's message between two packets of a request is written into the
  buffer the request is put together in, and the rest is appended to it
  (`sysex_conf.cpp:851`; `crossed`). A packet that is not SysEx between them drops the
  request without an answer. A read of all parts of an empty section has no answer. The
  answer to a BACKUP of a single value is not a request that sets it. In ignore mode a
  value that cannot be read is 0 in a backup. A refused table of custom requests leaves
  none. A SET applies the values before the first that is refused.
- *MIDI*: `thru()` writes to a transport without its `_tx_mutex` (`midi.cpp:120` against `:79`),
  so its bytes mix with those of a `send()`, as does a packet that comes between those of
  a SysEx (`disturbed`). Over BLE both can find room for one byte
  (`transport_ble.cpp:57`); the second `at()` (`:67`) is then out of range and ends its
  thread, a sender with `_tx_mutex` held. `TypeOK` shows that two writers are needed for
  that. `midi.h:21` calls `send()` thread-safe. A real-time byte inside a SysEx or a
  pending message is read, and
  the message around it is lost (`midi_common.h:952`, `:992`).
  `write_sysex7_payload_as_ump_packets()` does not end for an empty payload (`:834`). A
  forwarded packet is still written to an interface unregistered meanwhile.
- *UART*: with loopback the interrupt inserts into the ring that a `write()` inserts into
  (`uart_hw.cpp:222`; `clobbered`), against `ring_buffer.h:16`. After a failed
  `uart_fifo_fill()` (`:254`) or a `shutdown()` (`:86`) bytes stay until the next `write()`.

## Not modelled

- *In EmuEEPROM*: failures of `Hwa::init` and `Hwa::read`; blocks and erases torn by a
  power loss; more than one thread, against which the code has no protection.
- *In Signaling*: the observable adaptors (they wrap callbacks), `last_signal_data()`,
  several signal types, a callback that breaks the contract, and the join that turns
  into an abort after 100 ms (`threads.h:134`).
- *In SysExConf*: a handler that calls back into SysExConf through the recursive lock, and a
  `send_custom_message()` longer than its buffer, which the code does not check.
- *In MotorControl*: a second `init()`, the index assertions, the length of intervals.
- *In MIDI and the drivers*: the builders and readers of single fields in `midi1.h`; thru
  hooks other than the defaults; the USB transport, which passes packets on; more than one
  reader; writers of one BLE packet that meet inside an append, a `start_packet()` or a
  `flush_packet()` rather than between them, and the count past the capacity that
  `at(size++)` leaves when it throws. The ring buffer's `OverwriteOldest` and `reset()`
  have no user. Configuration errors of the UART, and an
  interrupt on another core.
- *Threads*: wrappers over Zephyr threads and work queues. What remains of their own is the
  join that becomes an abort, whose outcome depends on where Zephyr stops the thread;
  their users' models have threads that run and end.
- *Filters, Settings, StateMachine*: sequential templates without concurrency or an error path
  that several steps could reach; every behaviour is one call, which the tests check by
  value.
- *USB driver, mocks, helpers, application, tests, build files*: calls into Zephyr, test doubles,
  stateless functions, configuration.

## The plan

The models cover every component with several actors, a failure path or a protocol, and
every safety property of a passing run is stated by a theorem, those of the protected device
and its store for an Hwa that does not fail. What is left to prove:

- EmuEEPROM: the theorems about the protected device after a failure whose call has
  formatted.
