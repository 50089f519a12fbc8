-------------------------------- MODULE Midi --------------------------------
(***************************************************************************)
(* A MIDI interface (module/src/utils/midi) on a serial line or on BLE.    *)
(*                                                                         *)
(* Senders call send() under _tx_mutex; the reader calls read(), which     *)
(* forwards each packet to the registered thru interfaces.  Forwarding     *)
(* calls the destination's transport directly, without the _tx_mutex of    *)
(* that destination; the one modelled is the interface's own transport.    *)
(* The serial Hwa is the UART driver.  The peer at the other end reads the *)
(* wire with the parser of this library.                                   *)
(***************************************************************************)
EXTENDS UartHw, BleStream

CONSTANTS
  Senders, Reader, \* the threads
  Scenarios,       \* records: the transport (link, loopback), each sender's
                   \* message as packets (outgoing), what the peer sends,
                   \* byte by byte or in BLE packets (units), and the messages in it
                   \* (packets), who may be registered (sinks), how often the
                   \* hardware fails and deinit() is called (faults, deinits)
  ThruSlots        \* CONFIG_ZLIBS_UTILS_MIDI_MAX_THRU_INTERFACES

\* The interface's own transport and any other one.
Sinks == {"own", "other"}

ASSUME MidiAssumption ==
  /\ Threads = Senders \cup {Reader} /\ Reader \notin Senders
  /\ ThruSlots \in Nat \ {0}
  /\ \A s \in Scenarios :
       /\ s.link \in {"serial", "ble"} /\ s.loopback \in BOOLEAN
       /\ s.outgoing \in [Senders -> Seq(WholePackets)]
       /\ s.units \in Seq(IF s.link = "serial" THEN [1 .. 1 -> Bytes] ELSE BlePackets)
       /\ s.sinks \subseteq Sinks /\ s.deinits \in Nat /\ s.faults \in Nat

VARIABLES
  scenario,
  open,          \* the interface: "up", "closing" inside deinit(), "down"
  _thru_interfaces,
  _tx_mutex,
  writing,       \* each thread's Transport::write(): packet and bytes to go
  todo,          \* packets left of the message each sender sends
  forward,       \* sinks thru() has still to write to
  _parser,       \* of the transport
  txBuffer,      \* BLE: the packet being filled
  inByte,        \* BLE: where each thread is in write_midi_byte()
  ble,           \* BLE: the packet being read
  arrived,       \* how much has arrived of what the peer sends
  received,      \* history: packets read() has returned or is forwarding
  deinitsLeft,
  written,       \* history: packets that went to the wire
  peer,          \* history: the peer's transport and the packets it has read
  disturbed      \* history: packets of two writers met on the wire

baseVars == <<open, _thru_interfaces, _tx_mutex, todo, forward, deinitsLeft>>
readVars == <<_parser, ble, arrived, received>>
wireVars == <<txBuffer, inByte, peer>>
vars == <<uartVars, scenario, baseVars, readVars, wireVars, writing, written, disturbed>>

link == scenario.link

NotWriting == [step |-> "none", packet |-> <<>>, bytes |-> <<>>]

Init ==
  /\ scenario \in Scenarios /\ UartInit(scenario)
  /\ open = "up"
  /\ _thru_interfaces = [i \in 1 .. ThruSlots |-> "none"]
  /\ _tx_mutex = Nobody
  /\ writing = [t \in Threads |-> NotWriting] /\ inByte = [t \in Threads |-> "check"]
  /\ todo = scenario.outgoing
  /\ forward = <<>>
  /\ _parser = ResetParser /\ txBuffer = StartedPacket /\ ble = IdleReader
  /\ arrived = 0 /\ received = <<>>
  /\ deinitsLeft = scenario.deinits
  /\ written = <<>> /\ disturbed = FALSE
  /\ peer = [reader |-> IdleReader, parser |-> ResetParser, packets |-> <<>>]

-----------------------------------------------------------------------------
(* The wire.                                                                 *)

\* The peer reads bytes that have come through.
PeerReads(bytes, reader) ==
  LET parsed == ParsedAll(peer.parser, bytes)
  IN peer' = [reader |-> reader, parser |-> parsed.parser,
              packets |-> peer.packets \o parsed.out]

Transmit ==
  /\ IsrSend /\ PeerReads(<<peek(tx)>>, peer.reader)
  /\ UNCHANGED <<scenario, baseVars, readVars, txBuffer, inByte, writing, written,
                 disturbed>>

Interrupt ==
  /\ IsrIdle \/ IsrFails
  /\ UNCHANGED <<scenario, baseVars, readVars, wireVars, writing, written,
                 disturbed>>

\* An echo puts a foreign byte between those of the packets sent.
Receive ==
  /\ link = "serial" /\ arrived < Len(scenario.units)
  /\ IsrReceive(Head(scenario.units[arrived + 1]))
  /\ arrived' = arrived + 1
  /\ disturbed' = (disturbed \/ loopback)
  /\ UNCHANGED <<scenario, baseVars, _parser, ble, received, wireVars, writing,
                 written>>

-----------------------------------------------------------------------------
(* Transport::write(), called by send() and by thru().                       *)

Continues(p) == p.part \in {"Continue", "End"}
OpenSysEx == written # <<>> /\ Last(written).part \in {"Start", "Continue"}

\* The packet goes to the wire from here on.  Another thread in the middle of
\* a packet, or a packet between those of a SysEx, disturbs the stream.
StartWrite(t, p) ==
  /\ writing' = [writing EXCEPT
       ![t] = [step |-> "bytes", packet |-> <<p>>, bytes |-> Midi1Bytes(p)]]
  /\ written' = Append(written, p)
  /\ disturbed' = \/ disturbed
                  \/ \E u \in Threads \ {t} : writing[u].step # "none"
                  \/ Continues(p) # OpenSysEx
  /\ txBuffer' = IF link = "ble" THEN StartedPacket ELSE txBuffer

\* What the caller of write() does with its result.
SendReturns(t, ok) ==
  /\ _tx_mutex' = Nobody
  /\ todo' = [todo EXCEPT ![t] = IF ok THEN Tail(@) ELSE <<>>]
  /\ UNCHANGED forward

ThruReturns == forward' = Tail(forward) /\ UNCHANGED <<_tx_mutex, todo>>

\* A packet cut off before its end does not arrive; when the peer has got a
\* part of its SysEx already, that part is lost with it.
WriteReturns(t, ok) ==
  /\ writing' = [writing EXCEPT ![t] = NotWriting]
  /\ IF ok THEN UNCHANGED <<written, disturbed>>
     ELSE /\ written' = IF disturbed THEN written ELSE Front(written)
          /\ disturbed' = (disturbed \/ Continues(Head(writing[t].packet)))
  /\ IF t = Reader THEN ThruReturns ELSE SendReturns(t, ok)
  /\ UNCHANGED <<open, _thru_interfaces, deinitsLeft>>

Writes(t) == writing[t].step = "bytes" /\ access[t].step = "none"

\* write_midi_byte() of the serial transport.
SerialByte(t) ==
  /\ link = "serial" /\ Writes(t)
  /\ UartWrite(t, Head(writing[t].bytes))
  /\ UNCHANGED <<scenario, baseVars, readVars, wireVars, writing, written,
                 disturbed>>

\* Mutant: a byte that is refused is skipped.
SerialRefused_Skips(t) ==
  /\ link = "serial" /\ Writes(t) /\ UartRefuses
  /\ IF Len(writing[t].bytes) = 1 THEN WriteReturns(t, FALSE)
     ELSE /\ writing' = [writing EXCEPT ![t].bytes = Tail(@)]
          /\ UNCHANGED <<baseVars, written, disturbed>>
  /\ UNCHANGED <<uartVars, scenario, readVars, wireVars>>

\* The driver refuses a byte and the rest of the packet is not written.
SerialRefused(t) ==
  /\ link = "serial" /\ Writes(t) /\ UartRefuses
  /\ WriteReturns(t, FALSE)
  /\ UNCHANGED <<uartVars, scenario, readVars, wireVars>>

SerialMemory(t) ==
  /\ Put(t) \/ Publish(t)
  /\ UNCHANGED <<scenario, baseVars, readVars, wireVars, writing, written,
                 disturbed>>

SerialDone(t) ==
  /\ Enable(t)
  /\ IF Len(writing[t].bytes) = 1 THEN WriteReturns(t, TRUE)
     ELSE /\ writing' = [writing EXCEPT ![t].bytes = Tail(@)]
          /\ UNCHANGED <<baseVars, written, disturbed>>
  /\ UNCHANGED <<scenario, readVars, wireVars>>

\* flush_packet(): a packet with a byte in it goes to the Hwa.
FlushPacket ==
  IF Len(txBuffer) <= 2 THEN UNCHANGED peer
  ELSE LET taken == TakeAll(peer.reader, txBuffer)
       IN PeerReads(taken.out, taken.reader)

\* write_midi_byte() of the BLE transport.  Writers that do not share a lock
\* meet between its steps; that the accesses inside one step can meet as well is
\* left out: then only the bytes differ, of which nothing is said any more.
InByte(t, step) ==
  link = "ble" /\ Writes(t) /\ writing[t].bytes # <<>> /\ inByte[t] = step

ByteGoesOn(t, step) ==
  /\ inByte' = [inByte EXCEPT ![t] = step]
  /\ UNCHANGED <<uartVars, scenario, baseVars, readVars, written, disturbed>>

\* Mutant: a packet is sent one byte too late.
BleChecks_Late(t) ==
  /\ InByte(t, "check")
  /\ ByteGoesOn(t, IF Len(txBuffer) > BLE_MAX_PACKET_SIZE THEN "flush" ELSE "append")
  /\ UNCHANGED <<txBuffer, peer, writing>>

\* A full packet is sent first.
BleChecks(t) ==
  /\ InByte(t, "check")
  /\ ByteGoesOn(t, IF Len(txBuffer) >= BLE_MAX_PACKET_SIZE THEN "flush" ELSE "append")
  /\ UNCHANGED <<txBuffer, peer, writing>>

BleFlushes(t) ==
  /\ InByte(t, "flush") /\ FlushPacket /\ ByteGoesOn(t, "start")
  /\ UNCHANGED <<txBuffer, writing>>

BleStarts(t) ==
  /\ InByte(t, "start") /\ txBuffer' = StartedPacket /\ ByteGoesOn(t, "append")
  /\ UNCHANGED <<peer, writing>>

BleAppends(t) ==
  /\ InByte(t, "append") /\ Len(txBuffer) < BLE_MAX_PACKET_SIZE
  /\ txBuffer' = Append(txBuffer, Head(writing[t].bytes))
  /\ writing' = [writing EXCEPT ![t].bytes = Tail(@)]
  /\ ByteGoesOn(t, "check")
  /\ UNCHANGED peer

\* at() finds no room: the thread ends where it is.  What becomes of the others
\* is up to the application's error handler.
BleAborts(t) ==
  /\ InByte(t, "append") /\ Len(txBuffer) >= BLE_MAX_PACKET_SIZE
  /\ ByteGoesOn(t, "aborted")
  /\ UNCHANGED <<txBuffer, peer, writing>>

\* write() of the BLE transport sends what is left.
BleDone(t) ==
  /\ link = "ble" /\ Writes(t) /\ writing[t].bytes = <<>>
  /\ FlushPacket /\ WriteReturns(t, TRUE)
  /\ UNCHANGED <<uartVars, scenario, readVars, txBuffer, inByte>>

\* Hwa::write() fails for a packet that is full or the last one.
BleFails(t) ==
  /\ link = "ble" /\ Writes(t) /\ faultsLeft > 0
  /\ writing[t].bytes = <<>> \/ inByte[t] = "flush"
  /\ Len(txBuffer) > 2
  /\ WriteReturns(t, FALSE)
  /\ inByte' = [inByte EXCEPT ![t] = "check"]
  /\ faultsLeft' = faultsLeft - 1
  /\ UNCHANGED <<uartUp, loopback, mutex, rx, tx, txIrq, access, history>>
  /\ UNCHANGED <<scenario, readVars, txBuffer, peer>>

Write(t) ==
  \/ SerialByte(t) \/ SerialRefused(t) \/ SerialMemory(t) \/ SerialDone(t)
  \/ BleChecks(t) \/ BleFlushes(t) \/ BleStarts(t) \/ BleAppends(t) \/ BleAborts(t)
  \/ BleDone(t) \/ BleFails(t)

-----------------------------------------------------------------------------
(* send() and its callers.                                                   *)

\* A sender's next packet; write_sysex7_payload_as_ump_packets() has split long
\* messages.
Send(t) ==
  /\ todo[t] # <<>> /\ _tx_mutex = Nobody
  /\ _tx_mutex' = t
  /\ StartWrite(t, Head(todo[t]))
  /\ UNCHANGED <<uartVars, scenario, open, _thru_interfaces, todo, forward,
                 deinitsLeft, readVars, inByte, peer>>

-----------------------------------------------------------------------------
(* read() and thru().                                                        *)

Reading == forward = <<>> /\ access[Reader].step = "none" /\ writing[Reader].step = "none"

\* thru() copies the table when a packet has been read.
Deliver(parsed) ==
  /\ _parser' = parsed.parser
  /\ received' = received \o parsed.out
  /\ forward' = IF parsed.out = <<>> THEN <<>>
                ELSE SelectSeq(_thru_interfaces, LAMBDA s : s # "none")

SerialRead ==
  /\ link = "serial" /\ Reading /\ UartRead(Reader)
  /\ UNCHANGED <<scenario, baseVars, readVars, wireVars, writing, written,
                 disturbed>>

SerialParse ==
  /\ Advance(Reader) /\ Deliver(parse(_parser, access[Reader].byte))
  /\ UNCHANGED <<scenario, open, _thru_interfaces, _tx_mutex, todo, deinitsLeft,
                 ble, arrived, wireVars, writing, written, disturbed>>

\* read() returns nothing.
ReadNothing ==
  /\ Reading
  /\ IF link = "serial" THEN UartEmpty
     ELSE (ble.active => Spent(ble)) /\ arrived = Len(scenario.units)
  /\ UNCHANGED vars

\* Hwa::read() has a packet.
BleFetch ==
  /\ link = "ble" /\ Reading /\ (ble.active => Spent(ble))
  /\ arrived < Len(scenario.units)
  /\ ble' = Fetched(ble, scenario.units[arrived + 1])
  /\ arrived' = arrived + 1
  /\ UNCHANGED <<uartVars, scenario, baseVars, _parser, received, wireVars, writing,
                 written, disturbed>>

BleParse ==
  LET taken == TakeByte(ble) IN
  /\ link = "ble" /\ Reading /\ ble.active /\ ~Spent(ble)
  /\ ble' = taken.reader
  /\ Deliver(ParsedAll(_parser, taken.out))
  /\ UNCHANGED <<uartVars, scenario, open, _thru_interfaces, _tx_mutex, todo,
                 deinitsLeft, arrived, wireVars, writing, written, disturbed>>

\* thru() writes the packet to the next interface, if it is this one.
Thru ==
  /\ forward # <<>> /\ writing[Reader].step = "none"
  /\ IF Head(forward) = "own"
     THEN StartWrite(Reader, Last(received)) /\ UNCHANGED forward
     ELSE forward' = Tail(forward) /\ UNCHANGED <<writing, written, disturbed,
                                                  txBuffer>>
  /\ UNCHANGED <<uartVars, scenario, open, _thru_interfaces, _tx_mutex, todo,
                 deinitsLeft, readVars, inByte, peer>>

-----------------------------------------------------------------------------
(* register_thru_interface(), unregister_thru_interface(), deinit(), init().*)

Slots == 1 .. ThruSlots
FreeSlots == {i \in Slots : _thru_interfaces[i] = "none"}

\* The first free slot, unless the interface is registered or the table full.
Register(s) ==
  /\ \A i \in Slots : _thru_interfaces[i] # s
  /\ \E i \in FreeSlots :
       /\ \A j \in FreeSlots : i <= j
       /\ _thru_interfaces' = [_thru_interfaces EXCEPT ![i] = s]
  /\ UNCHANGED <<uartVars, scenario, open, _tx_mutex, todo, forward, deinitsLeft,
                 readVars, wireVars, writing, written, disturbed>>

Unregister(s) ==
  /\ _thru_interfaces' =
       [i \in Slots |-> IF _thru_interfaces[i] = s THEN "none" ELSE _thru_interfaces[i]]
  /\ UNCHANGED <<uartVars, scenario, open, _tx_mutex, todo, forward, deinitsLeft,
                 readVars, wireVars, writing, written, disturbed>>

\* deinit() forgets the interfaces before it closes the transport.
Deinit ==
  /\ open = "up" /\ deinitsLeft > 0
  /\ open' = "closing" /\ deinitsLeft' = deinitsLeft - 1
  /\ _thru_interfaces' = [i \in Slots |-> "none"]
  /\ UNCHANGED <<uartVars, scenario, _tx_mutex, todo, forward, readVars,
                 wireVars, writing, written, disturbed>>

CloseTransport ==
  /\ open = "closing" /\ open' = "down"
  /\ IF link = "serial" THEN UartClose ELSE UNCHANGED uartVars
  /\ UNCHANGED <<scenario, _thru_interfaces, _tx_mutex, todo, forward, deinitsLeft,
                 readVars, wireVars, writing, written, disturbed>>

\* init(): the BLE transport starts over, the serial one keeps its parser.
Reopen ==
  /\ open = "down" /\ open' = "up"
  /\ IF link = "serial" THEN UartOpen /\ UNCHANGED <<_parser, ble>>
     ELSE /\ _parser' = ResetParser
          /\ ble' = [ble EXCEPT !.active = FALSE, !.index = 0, !.search = TRUE, !.sysex = FALSE]
          /\ UNCHANGED uartVars
  /\ UNCHANGED <<scenario, _thru_interfaces, _tx_mutex, todo, forward, deinitsLeft,
                 arrived, received, wireVars, writing, written, disturbed>>

-----------------------------------------------------------------------------
Next ==
  \/ Transmit \/ Interrupt \/ Receive
  \/ \E t \in Threads : Write(t)
  \/ \E t \in Senders : Send(t)
  \/ SerialRead \/ SerialParse \/ ReadNothing \/ BleFetch \/ BleParse \/ Thru
  \/ \E s \in scenario.sinks : Register(s) \/ Unregister(s)
  \/ Deinit \/ CloseTransport \/ Reopen

Spec == Init /\ [][Next]_vars

\* The transmit interrupt is served, and a thread inside the driver runs on.
FairSpec ==
  /\ Spec
  /\ WF_vars(Transmit)
  /\ \A t \in Threads : WF_vars(SerialMemory(t) \/ SerialDone(t))

-----------------------------------------------------------------------------
Writings ==
  [step : {"none", "bytes"}, packet : BoundedSeq(Packets, 1),
   bytes : BoundedSeq(Bytes, SYSEX7_DATA64_MAX_PAYLOAD_SIZE + 2)]

UartTyped ==
  /\ {uartUp, loopback, txIrq, clobbered, stalled, overrun} \subseteq BOOLEAN
  /\ mutex \in Threads \cup {Nobody}
  /\ rx \in Rings(RxCapacity) /\ tx \in Rings(TxCapacity)
  /\ \A t \in Threads : access[t].step \in {"none", "put", "publish", "enable", "advance"}
  /\ faultsLeft \in 0 .. scenario.faults

BaseTyped ==
  /\ open \in {"up", "closing", "down"}
  /\ _thru_interfaces \in [Slots -> Sinks \cup {"none"}]
  /\ _tx_mutex \in Senders \cup {Nobody}
  /\ \A t \in Threads : writing[t] \in Writings
  /\ inByte \in [Threads -> {"check", "flush", "start", "append", "aborted"}]

\* Every variable keeps its type; in particular a parser never holds more than
\* a message, an interface is in the thru table once, one thread at a time is
\* inside the driver, and a BLE packet has room for every byte of its writer
\* unless two writers met (transport_ble.cpp:57 and :67, midi.cpp:120).
TypeOK ==
  /\ UartTyped /\ BaseTyped
  /\ _parser \in Parsers /\ peer.parser \in Parsers
  /\ txBuffer \in BlePackets /\ ble \in BleReaders /\ peer.reader \in BleReaders
  /\ \A i, j \in Slots :
       i # j /\ _thru_interfaces[i] = _thru_interfaces[j] => _thru_interfaces[i] = "none"
  /\ \A t \in Threads : access[t].step # "none" => mutex = t
  /\ \A t \in Threads : inByte[t] = "aborted" => disturbed

\* Nothing is on its way to the peer, and no SysEx is half sent.
WireIsQuiet ==
  is_empty(tx) /\ ~OpenSysEx /\ \A t \in Threads : writing[t].step = "none"

\* What the peer reads is what was written, in order, each packet once and
\* whole: a packet cut off by a full ring, a failing Hwa or a deinit() takes
\* none of its neighbours with it.  Two writers at once, a packet in the middle
\* of a SysEx and an echo are what it does not survive (midi.cpp:120 writes
\* without the lock of midi.cpp:79).
WireCarriesPackets ==
  ~disturbed =>
    /\ IsPrefix(peer.packets, written)
    /\ WireIsQuiet => peer.packets = written

\* All that has arrived has been read.
AllRead ==
  /\ arrived = Len(scenario.units) /\ Reading
  /\ IF link = "serial" THEN is_empty(rx) ELSE ble.active => Spent(ble)

\* read() returns the messages the peer has sent, each once and in order, also
\* under running status, in pieces or with a SysEx cut short, unless the receive
\* ring overflowed or a BLE interface was opened anew.
ReadsAreArrivals ==
  ~overrun /\ (link = "ble" => deinitsLeft = scenario.deinits) =>
    /\ IsPrefix(received, scenario.packets)
    /\ AllRead => received = scenario.packets

\* Every byte write() has accepted leaves, in order: the interrupt that finds
\* the ring empty never turns itself off over a byte just inserted.  Bytes stay
\* when the hardware fails or the driver is shut down, until the next write().
AcceptedBytesLeave ==
  queued # <<>> ~> (queued = <<>> \/ stalled \/ clobbered)
=============================================================================
