----------------------------- MODULE Midi1Stream -----------------------------
(***************************************************************************)
(* The MIDI 1 byte stream of module/include/zlibs/utils/midi/midi_common.h:*)
(* how a Universal MIDI Packet is written as bytes and what the parser     *)
(* makes of bytes.                                                         *)
(*                                                                         *)
(* A status byte is named by its message; one name stands for all messages *)
(* that the code treats alike.  A packet is its message, its data bytes    *)
(* and, for SysEx7, its status nibble.  The UMP group is left out: it is   *)
(* not on the wire and a reader uses DEFAULT_RX_GROUP.                     *)
(***************************************************************************)
EXTENDS Integers, Sequences, SequencesExt

CONSTANTS
  Data,                           \* data bytes: below MIDI_STATUS_MIN
  SYSEX7_DATA64_MAX_PAYLOAD_SIZE  \* payload bytes of a SysEx7 packet: 6

\* Channel messages, with the number of bytes a message takes.
ChannelSize == [note_on |-> 3, program_change |-> 2]

\* System messages; "clock" stands for Tune Request and all real-time messages.
SystemSize == [song_position |-> 3, song_select |-> 2, clock |-> 1]

\* Bytes from MIDI_STATUS_MIN on: is_channel_message(), the system messages,
\* SYS_EX_START, SYS_EX_END, statuses without a type, and BLE timestamps.
Messages == DOMAIN ChannelSize \cup DOMAIN SystemSize
StatusBytes == Messages \cup {"sysex", "sysex_end", "undefined", "timestamp"}
Bytes == Data \cup StatusBytes

ASSUME StreamAssumption ==
  SYSEX7_DATA64_MAX_PAYLOAD_SIZE \in Nat \ {0} /\ Data \cap StatusBytes = {}

expected_size(status) ==
  IF status \in DOMAIN ChannelSize THEN ChannelSize[status] ELSE SystemSize[status]

-----------------------------------------------------------------------------
(* Packets and the bytes they are written as.                                *)

SysEx7Statuses == {"Complete", "Start", "Continue", "End"}

Message(bytes) == [message |-> Head(bytes), data |-> Tail(bytes), part |-> "none"]
SysEx7(part, data) == [message |-> "sysex", data |-> data, part |-> part]

Packets ==
  [message : Messages, data : BoundedSeq(Data, 2), part : {"none"}] \cup
  [message : {"sysex"}, data : BoundedSeq(Data, SYSEX7_DATA64_MAX_PAYLOAD_SIZE),
   part : SysEx7Statuses]

\* Packets with all the bytes their message has, as the library builds them: all
\* packets of a long SysEx but the last are full, and none follows an empty one.
WholePackets ==
  {p \in Packets :
     IF p.message # "sysex" THEN Len(p.data) + 1 = expected_size(p.message)
     ELSE /\ p.part \in {"Start", "Continue"}
               => Len(p.data) = SYSEX7_DATA64_MAX_PAYLOAD_SIZE
          /\ p.part = "End" => p.data # <<>>}

sysex7_starts_message(p) == p.part \in {"Complete", "Start"}
sysex7_ends_message(p) == p.part \in {"Complete", "End"}

\* What write_ump_as_midi1_bytes() writes, byte by byte.
Midi1Bytes(p) ==
  IF p.message # "sysex" THEN <<p.message>> \o p.data
  ELSE (IF sysex7_starts_message(p) THEN <<"sysex">> ELSE <<>>)
         \o p.data
         \o (IF sysex7_ends_message(p) THEN <<"sysex_end">> ELSE <<>>)

\* The packets of write_sysex7_payload_as_ump_packets(), for a payload that is
\* not empty (with an empty one it does not end).
SysEx7Packets(payload) ==
  LET size == SYSEX7_DATA64_MAX_PAYLOAD_SIZE
      count == (Len(payload) + size - 1) \div size
      chunk(i) == SubSeq(payload, (i - 1) * size + 1,
                         IF i = count THEN Len(payload) ELSE i * size)
      part(i) == IF count = 1 THEN "Complete"
                 ELSE IF i = 1 THEN "Start"
                 ELSE IF i = count THEN "End" ELSE "Continue"
  IN [i \in 1 .. count |-> SysEx7(part(i), chunk(i))]

-----------------------------------------------------------------------------
(* Midi1ByteToUmpParser.                                                     *)

\* reset()
ResetParser ==
  [running |-> "none", pending |-> <<>>, sysex |-> <<>>, active |-> FALSE, multi |-> FALSE]

Parsers ==
  [running : DOMAIN ChannelSize \cup {"none"},
   pending : BoundedSeq(Bytes, 2),
   sysex   : BoundedSeq(Data, SYSEX7_DATA64_MAX_PAYLOAD_SIZE),
   active  : BOOLEAN,
   multi   : BOOLEAN]

\* A call of parse(): the parser it leaves and the packet it returns, if any.
Parsed(parser, out) == [parser |-> parser, out |-> out]

\* Mutant: a message that is complete leaves no running status behind.
complete_message_NoRunning(parser) ==
  Parsed([parser EXCEPT !.pending = <<>>, !.running = "none"], <<Message(parser.pending)>>)

complete_message(parser) ==
  LET status == Head(parser.pending) IN
  Parsed([parser EXCEPT
            !.pending = <<>>,
            !.running = IF status \in DOMAIN ChannelSize THEN status ELSE "none"],
         <<Message(parser.pending)>>)

\* The byte just appended to _pending may have completed the message.
Appended(parser) ==
  IF Len(parser.pending) = expected_size(Head(parser.pending))
  THEN complete_message(parser) ELSE Parsed(parser, <<>>)

\* parse() with nothing pending: a status, or a data byte under running status.
FirstByte(parser, b) ==
  LET pending == IF b \in Data /\ parser.running # "none"
                 THEN <<parser.running, b>> ELSE <<b>>
  IN CASE b = "clock" -> Parsed(parser, <<Message(pending)>>)
       [] b # "clock" /\ Head(pending) \in Messages ->
            Appended([parser EXCEPT !.pending = pending])
       [] OTHER -> Parsed(ResetParser, <<>>)

\* A packet leaves when its payload is full and one more byte arrives; any
\* status but SYS_EX_END abandons the SysEx.
parse_sysex_byte(parser, b) ==
  CASE b = "sysex_end" ->
         Parsed([parser EXCEPT !.active = FALSE, !.sysex = <<>>],
                <<SysEx7(IF parser.multi THEN "End" ELSE "Complete", parser.sysex)>>)
    [] b \in StatusBytes \ {"sysex_end"} -> FirstByte(ResetParser, b)
    [] b \in Data /\ Len(parser.sysex) = SYSEX7_DATA64_MAX_PAYLOAD_SIZE ->
         Parsed([parser EXCEPT !.sysex = <<b>>, !.multi = TRUE],
                <<SysEx7(IF parser.multi THEN "Continue" ELSE "Start", parser.sysex)>>)
    [] OTHER -> Parsed([parser EXCEPT !.sysex = Append(@, b)], <<>>)

\* parse(): a status byte ends whatever was pending.
parse(parser, b) ==
  CASE b = "sysex" -> Parsed([ResetParser EXCEPT !.active = TRUE], <<>>)
    [] b # "sysex" /\ parser.active -> parse_sysex_byte(parser, b)
    [] b # "sysex" /\ ~parser.active /\ parser.pending = <<>> -> FirstByte(parser, b)
    [] b \in StatusBytes \ {"sysex"} /\ ~parser.active /\ parser.pending # <<>> ->
         FirstByte(ResetParser, b)
    [] OTHER -> Appended([parser EXCEPT !.pending = Append(@, b)])

\* The parser and the packets after a run of bytes.
ParsedAll(parser, bytes) ==
  LET upTo[n \in 0 .. Len(bytes)] ==
        IF n = 0 THEN Parsed(parser, <<>>)
        ELSE LET before == upTo[n - 1]
                 next == parse(before.parser, bytes[n])
             IN Parsed(next.parser, before.out \o next.out)
  IN upTo[Len(bytes)]
=============================================================================
