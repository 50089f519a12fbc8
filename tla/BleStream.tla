------------------------------ MODULE BleStream ------------------------------
(***************************************************************************)
(* How MIDI 1 bytes travel in BLE-MIDI packets                             *)
(* (module/src/utils/midi/transport/transport_ble.cpp): the packet being   *)
(* filled and the packet being read.  Header and timestamps are bytes with *)
(* the top bit set.                                                        *)
(***************************************************************************)
EXTENDS Midi1Stream

CONSTANT BLE_MAX_PACKET_SIZE  \* CONFIG_ZLIBS_UTILS_MIDI_BLE_MAX_PACKET_SIZE

ASSUME BleAssumption == BLE_MAX_PACKET_SIZE \in Nat /\ BLE_MAX_PACKET_SIZE > 2

\* start_packet()
StartedPacket == <<"timestamp", "timestamp">>

BlePackets == BoundedSeq(Bytes, BLE_MAX_PACKET_SIZE)

\* The fields _rx_*, with _rx_packet_index counting from 0 as in the code.
BleReaders ==
  [packet : BlePackets, index : 0 .. BLE_MAX_PACKET_SIZE, active : BOOLEAN,
   search : BOOLEAN, sysex : BOOLEAN]

\* init()
IdleReader ==
  [packet |-> <<>>, index |-> 0, active |-> FALSE, search |-> TRUE, sysex |-> FALSE]

\* read_midi_byte() has got a packet from the Hwa.
Fetched(reader, packet) ==
  [reader EXCEPT !.packet = packet, !.index = 1, !.active = TRUE, !.search = TRUE]

Spent(reader) == reader.index >= Len(reader.packet)

\* A round of the inner loop: the byte it returns, if any.  Where a timestamp
\* is due, a data byte is taken only in front of everything else; elsewhere it
\* ends the packet.  Behind a byte outside SysEx a set top bit announces a
\* timestamp.
TakeByte(reader) ==
  LET byte == reader.packet[reader.index + 1]
      next == [reader EXCEPT !.index = @ + 1]
      inSysEx == (reader.sysex \/ byte = "sysex") /\ byte # "sysex_end"
      last == next.index >= Len(reader.packet)
  IN CASE reader.search /\ byte \in StatusBytes ->
            [reader |-> [next EXCEPT !.search = FALSE], out |-> <<>>]
       [] reader.search /\ byte \in Data /\ reader.index = 1 ->
            [reader |-> [next EXCEPT !.search = FALSE], out |-> <<byte>>]
       [] reader.search /\ byte \in Data /\ reader.index > 1 ->
            [reader |-> [next EXCEPT !.active = FALSE], out |-> <<>>]
       [] OTHER ->
            [reader |-> [next EXCEPT
                           !.sysex = inSysEx,
                           !.search = /\ ~inSysEx /\ ~last
                                      /\ reader.packet[next.index + 1] \in StatusBytes],
             out |-> <<byte>>]

\* All bytes of a packet, for a reader that takes it whole.
TakeAll(reader, packet) ==
  LET upTo[n \in 1 .. Len(packet)] ==
        IF n = 1 THEN [reader |-> Fetched(reader, packet), out |-> <<>>]
        ELSE LET before == upTo[n - 1]
                 taken == TakeByte(before.reader)
             IN IF ~before.reader.active THEN before
                ELSE [reader |-> taken.reader, out |-> before.out \o taken.out]
  IN upTo[Len(packet)]
=============================================================================
