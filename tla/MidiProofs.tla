----------------------------- MODULE MidiProofs -----------------------------
(***************************************************************************)
(* Theorems about Midi, for any messages, packets, senders, capacities of  *)
(* the rings and of a BLE packet, and any number of hardware failures.     *)
(*                                                                         *)
(* What the parser and the BLE reader make of a run of bytes is a          *)
(* recursive function over it, so the module first proves, by induction    *)
(* over a set of sequences, what they compute.                             *)
(***************************************************************************)
EXTENDS Midi, SequenceTheorems, FiniteSetTheorems, WellFoundedInduction, TLAPS

-----------------------------------------------------------------------------
(* Sequences.                                                                *)

\* A set of numbers that has 0, and with every number the next, has them all:
\* induction, with the formula to be shown as a set.
LEMMA NumbersFrom0 ==
  ASSUME NEW P, 0 \in P, \A n \in Nat : n \in P => n + 1 \in P
  PROVE  Nat \subseteq P
<1> DEFINE R == OpToRel(<, Nat)
           T == Nat \ P
<1>1. IsWellFoundedOn(R, Nat)
  BY NatLessThanWellFounded
<1>2. R = {ss \in Nat \X Nat : ss[1] < ss[2]}
  BY DEF OpToRel
<1> HIDE DEF R
<1> SUFFICES ASSUME T # {} PROVE FALSE
  OBVIOUS
<1>3. PICK x \in T : \A y \in T : ~(<<y, x>> \in R)
  <2>1. T \subseteq Nat
    OBVIOUS
  <2> HIDE DEF T
  <2> QED BY <1>1, <2>1, WFMin
<1>4. x # 0 /\ x \in Nat
  BY <1>3
<1>5. x - 1 \in Nat /\ x - 1 \notin T
  <2>1. x - 1 \in Nat
    BY <1>4
  <2>2. <<x - 1, x>> \in R
    BY <1>2, <1>4, <2>1
  <2> QED BY <1>3, <2>1, <2>2
<1>6. x - 1 \in P /\ (x - 1) + 1 = x
  BY <1>4, <1>5
<1> QED BY <1>3, <1>5, <1>6

\* A set of sequences that has the empty one, and with every sequence those
\* with an element more, has them all.
LEMMA SequencesFromEmpty ==
  ASSUME NEW S, NEW P, <<>> \in P,
         \A s \in Seq(S), e \in S : s \in P => Append(s, e) \in P
  PROVE  Seq(S) \subseteq P
<1> DEFINE N == {n \in Nat : \A s \in Seq(S) : Len(s) = n => s \in P}
<1>1. 0 \in N
  <2>1. \A s \in Seq(S) : Len(s) = 0 => s = <<>>
    BY EmptySeq
  <2> QED BY <2>1
<1>2. ASSUME NEW n \in Nat, n \in N PROVE n + 1 \in N
  <2> SUFFICES ASSUME NEW s \in Seq(S), Len(s) = n + 1 PROVE s \in P
    OBVIOUS
  <2>1. s # <<>>
    BY EmptySeq
  <2>2. PICK t \in Seq(S), e \in S : s = Append(t, e)
    BY <2>1, SequenceEmptyOrAppend
  <2>3. Len(s) = Len(t) + 1 /\ Len(t) \in Nat
    BY <2>2, AppendProperties, LenProperties
  <2>4. t \in P
    BY <1>2, <2>3
  <2> QED BY <2>2, <2>4
<1> HIDE DEF N
<1>3. Nat \subseteq N
  BY <1>1, <1>2, NumbersFrom0
<1> QED BY <1>3, LenProperties DEF N

\* The sequences that BoundedSeq has.
LEMMA Bounded ==
  ASSUME NEW S, NEW n \in Nat, NEW s
  PROVE  s \in BoundedSeq(S, n) <=> s \in Seq(S) /\ Len(s) <= n
<1>1. BoundedSeq(S, n) = UNION {[1 .. m -> S] : m \in 0 .. n}
  BY DEF BoundedSeq, SeqOf
<1>2. ASSUME s \in BoundedSeq(S, n) PROVE s \in Seq(S) /\ Len(s) <= n
  <2>1. PICK m \in 0 .. n : s \in [1 .. m -> S]
    BY <1>1, <1>2
  <2>2. s \in Seq(S)
    BY <2>1, SeqDef
  <2>3. Len(s) = m
    BY <2>1, <2>2, LenProperties
  <2> QED BY <2>2, <2>3
<1>3. ASSUME s \in Seq(S), Len(s) <= n PROVE s \in BoundedSeq(S, n)
  <2>1. Len(s) \in 0 .. n /\ s \in [1 .. Len(s) -> S]
    BY <1>3, LenProperties
  <2> QED BY <1>1, <2>1
<1> QED BY <1>2, <1>3

\* The empty sequence is one of them.
LEMMA EmptyIsBounded ==
  ASSUME NEW S, NEW n \in Nat
  PROVE  <<>> \in BoundedSeq(S, n)
<1>1. <<>> \in Seq(S) /\ Len(<<>>) <= n
  BY EmptySeq
<1> QED BY <1>1, Bounded

-----------------------------------------------------------------------------
(* The parser.                                                               *)

\* What a parser holds, beyond its type: a message that is begun and not
\* complete, and a byte of a SysEx that goes on.
GoodParser(parser) ==
  /\ parser \in Parsers
  /\ parser.pending # <<>> =>
       /\ Head(parser.pending) \in Messages
       /\ Len(parser.pending) < expected_size(Head(parser.pending))
       /\ Tail(parser.pending) \in Seq(Data)
  /\ parser.active /\ parser.multi => parser.sysex # <<>>

\* The number of bytes of each message.
LEMMA Sizes ==
  /\ DOMAIN ChannelSize = {"note_on", "program_change"}
  /\ DOMAIN SystemSize = {"song_position", "song_select", "clock"}
  /\ Messages = {"note_on", "program_change", "song_position", "song_select", "clock"}
  /\ expected_size("note_on") = 3 /\ expected_size("program_change") = 2
  /\ expected_size("song_position") = 3 /\ expected_size("song_select") = 2
  /\ expected_size("clock") = 1
<1>1. DOMAIN ChannelSize = {"note_on", "program_change"}
  BY DEF ChannelSize
<1>2. DOMAIN SystemSize = {"song_position", "song_select", "clock"}
  BY DEF SystemSize
<1>3. Messages = {"note_on", "program_change", "song_position", "song_select", "clock"}
  BY <1>1, <1>2 DEF Messages
<1>4. /\ expected_size("note_on") = 3 /\ expected_size("program_change") = 2
      /\ expected_size("song_position") = 3 /\ expected_size("song_select") = 2
      /\ expected_size("clock") = 1
  BY <1>1 DEF expected_size, ChannelSize, SystemSize
<1> QED BY <1>1, <1>2, <1>3, <1>4

\* Statuses and data bytes are different.
LEMMA ByteKinds ==
  /\ Bytes = Data \cup StatusBytes /\ Data \cap StatusBytes = {}
  /\ StatusBytes = Messages \cup {"sysex", "sysex_end", "undefined", "timestamp"}
  /\ SYSEX7_DATA64_MAX_PAYLOAD_SIZE \in Nat \ {0}
BY StreamAssumption DEF Bytes, StatusBytes

\* A parser after reset() is good.
LEMMA ResetIsGood == GoodParser(ResetParser) /\ ResetParser.pending = <<>>
<1>1. \A S : \A n \in Nat : <<>> \in BoundedSeq(S, n)
  BY EmptyIsBounded
<1>2. ResetParser \in Parsers
  BY <1>1, ByteKinds DEF ResetParser, Parsers
<1> QED BY <1>2 DEF GoodParser, ResetParser

\* A message that has all its bytes is a packet.
LEMMA MessageIsWhole ==
  ASSUME NEW m \in Messages, NEW data \in Seq(Data), Len(data) + 1 = expected_size(m)
  PROVE  /\ Message(<<m>> \o data) = [message |-> m, data |-> data, part |-> "none"]
         /\ Message(<<m>> \o data) \in WholePackets
<1> DEFINE s == <<m>> \o data
           p == [message |-> m, data |-> data, part |-> "none"]
<1>1. Head(s) = m /\ Tail(s) = data
  OBVIOUS
<1>2. Len(data) <= 2 /\ Len(data) \in Nat
  BY Sizes, LenProperties
<1>3. data \in BoundedSeq(Data, 2)
  BY <1>2, Bounded
<1>4. p \in Packets
  BY <1>3 DEF Packets
<1>5. m # "sysex"
  BY Sizes
<1>6. Message(s) = p
  BY <1>1 DEF Message
<1>7. p.message = m /\ p.data = data
  OBVIOUS
<1> HIDE DEF p
<1>8. p \in WholePackets
  BY <1>4, <1>5, <1>7 DEF WholePackets
<1> QED BY <1>6, <1>8 DEF p

\* The message just appended to is complete or goes on.
LEMMA AppendedIsGood ==
  ASSUME NEW parser, parser \in [running : DOMAIN ChannelSize \cup {"none"},
                                 pending : Seq(Bytes),
                                 sysex : BoundedSeq(Data, SYSEX7_DATA64_MAX_PAYLOAD_SIZE),
                                 active : BOOLEAN, multi : BOOLEAN],
         parser.active /\ parser.multi => parser.sysex # <<>>,
         NEW m \in Messages, NEW data \in Seq(Data),
         parser.pending = <<m>> \o data, Len(data) + 1 <= expected_size(m)
  PROVE  /\ GoodParser(Appended(parser).parser)
         /\ Appended(parser).out \in Seq(WholePackets)
         /\ Len(data) + 1 < expected_size(m) => Appended(parser) = Parsed(parser, <<>>)
         /\ Len(data) + 1 = expected_size(m) =>
              Appended(parser).out = <<[message |-> m, data |-> data, part |-> "none"]>>
<1>1. /\ Head(parser.pending) = m /\ Tail(parser.pending) = data
      /\ Len(parser.pending) = Len(data) + 1 /\ Len(data) \in Nat
  BY LenProperties
<1>2. expected_size(m) \in Nat /\ expected_size(m) <= 3
  BY Sizes
<1>3. CASE Len(data) + 1 < expected_size(m)
  <2>1. Appended(parser) = Parsed(parser, <<>>)
    BY <1>1, <1>3 DEF Appended
  <2>2. parser.pending \in BoundedSeq(Bytes, 2)
    <3>1. parser.pending \in Seq(Bytes) /\ Len(parser.pending) <= 2 /\ 2 \in Nat
      BY <1>1, <1>2, <1>3
    <3> QED BY <3>1, Bounded
  <2>3. parser \in Parsers
    BY <2>2 DEF Parsers
  <2>4. GoodParser(parser)
    BY <1>1, <1>3, <2>3 DEF GoodParser
  <2> QED BY <1>3, <2>1, <2>4 DEF Parsed
<1>4. CASE Len(data) + 1 = expected_size(m)
  <2> DEFINE q == [parser EXCEPT !.pending = <<>>,
                     !.running = IF m \in DOMAIN ChannelSize THEN m ELSE "none"]
             out == <<Message(parser.pending)>>
  <2>1. Appended(parser) = Parsed(q, out)
    BY <1>1, <1>4 DEF Appended, complete_message
  <2>2. Message(parser.pending) \in WholePackets /\
        Message(parser.pending) = [message |-> m, data |-> data, part |-> "none"]
    BY <1>4, MessageIsWhole
  <2>3. <<>> \in BoundedSeq(Bytes, 2)
    BY EmptyIsBounded
  <2>4. q \in Parsers
    BY <2>3 DEF Parsers
  <2>5. q.pending = <<>> /\ q.active = parser.active /\ q.multi = parser.multi
        /\ q.sysex = parser.sysex
    OBVIOUS
  <2> HIDE DEF q
  <2>6. GoodParser(q)
    BY <2>4, <2>5 DEF GoodParser
  <2>7. Appended(parser).parser = q /\ Appended(parser).out = out
    BY <2>1 DEF Parsed
  <2>8. out \in Seq(WholePackets)
    BY <2>2
  <2> QED BY <1>1, <1>4, <2>2, <2>6, <2>7, <2>8
<1> QED BY <1>2, <1>3, <1>4, <1>1

\* parse() with nothing pending leaves a good parser.
LEMMA FirstByteIsGood ==
  ASSUME NEW parser, GoodParser(parser), parser.pending = <<>>, NEW b \in Bytes
  PROVE  /\ GoodParser(FirstByte(parser, b).parser)
         /\ FirstByte(parser, b).out \in Seq(WholePackets)
<1> DEFINE pending == IF b \in Data /\ parser.running # "none"
                      THEN <<parser.running, b>> ELSE <<b>>
           q == [parser EXCEPT !.pending = pending]
<1>1. CASE b = "clock"
  <2>1. FirstByte(parser, b) = Parsed(parser, <<Message(<<b>>)>>)
    BY <1>1, ByteKinds, Sizes DEF FirstByte
  <2>2. <<b>> \o <<>> = <<b>> /\ <<>> \in Seq(Data) /\ Len(<<>>) = 0
    BY EmptySeq
  <2>3. Message(<<b>>) \in WholePackets
    <3>1. b \in Messages /\ Len(<<>>) + 1 = expected_size(b)
      BY <1>1, <2>2, Sizes
    <3> QED BY <2>2, <3>1, MessageIsWhole
  <2> QED BY <2>1, <2>3 DEF Parsed
<1>2. CASE b # "clock" /\ Head(pending) \in Messages
  <2> DEFINE m == Head(pending)
             data == IF b \in Data /\ parser.running # "none" THEN <<b>> ELSE <<>>
  <2>1. FirstByte(parser, b) = Appended(q)
    BY <1>2 DEF FirstByte
  <2>2. parser.running \in Messages \cup {"none"} /\ parser.running # "clock"
    BY Sizes DEF GoodParser, Parsers
  <2>3. data \in Seq(Data) /\ pending = <<m>> \o data
    <3>1. CASE b \in Data /\ parser.running # "none"
      <4>1. pending = <<parser.running, b>> /\ data = <<b>>
        BY <3>1
      <4> QED BY <3>1, <4>1
    <3>2. CASE ~(b \in Data /\ parser.running # "none")
      <4>1. pending = <<b>> /\ data = <<>> /\ m = b /\ <<b>> \o <<>> = <<b>>
        BY <3>2
      <4> QED BY <4>1, EmptySeq
    <3> QED BY <3>1, <3>2
  <2>4. Len(data) + 1 <= expected_size(m)
    <3>1. CASE b \in Data /\ parser.running # "none"
      <4>1. parser.running \in {"note_on", "program_change"} /\ m = parser.running
        BY <3>1, Sizes DEF GoodParser, Parsers
      <4> QED BY <3>1, <4>1, Sizes
    <3>2. CASE ~(b \in Data /\ parser.running # "none")
      <4>1. m = b /\ Len(data) = 0
        BY <3>2, EmptySeq
      <4> QED BY <1>2, <4>1, Sizes
    <3> QED BY <3>1, <3>2
  <2>5. pending \in Seq(Bytes)
    <3>1. parser.running # "none" => parser.running \in Bytes
      BY <2>2, ByteKinds
    <3> QED BY <3>1
  <2>6. q \in [running : DOMAIN ChannelSize \cup {"none"}, pending : Seq(Bytes),
               sysex : BoundedSeq(Data, SYSEX7_DATA64_MAX_PAYLOAD_SIZE),
               active : BOOLEAN, multi : BOOLEAN]
    BY <2>5 DEF GoodParser, Parsers
  <2>7. (q.active /\ q.multi => q.sysex # <<>>) /\ q.pending = pending
    BY DEF GoodParser, Parsers
  <2> HIDE DEF q, m, data, pending
  <2>8. m \in Messages
    BY <1>2 DEF m
  <2>9. q.pending = <<m>> \o data
    BY <2>3, <2>7
  <2>10. /\ GoodParser(Appended(q).parser)
         /\ Appended(q).out \in Seq(WholePackets)
    BY <2>3, <2>4, <2>6, <2>7, <2>8, <2>9, AppendedIsGood
  <2> QED BY <2>1, <2>10
<1>3. CASE b # "clock" /\ Head(pending) \notin Messages
  <2>1. FirstByte(parser, b) = Parsed(ResetParser, <<>>)
    BY <1>3 DEF FirstByte
  <2> QED BY <2>1, ResetIsGood, EmptySeq DEF Parsed
<1> QED BY <1>1, <1>2, <1>3

\* A piece of a SysEx is a packet: full unless the last, and then not empty
\* unless it is the only one.
LEMMA PieceIsWhole ==
  ASSUME NEW part \in SysEx7Statuses,
         NEW data \in BoundedSeq(Data, SYSEX7_DATA64_MAX_PAYLOAD_SIZE),
         part \in {"Start", "Continue"} => Len(data) = SYSEX7_DATA64_MAX_PAYLOAD_SIZE,
         part = "End" => data # <<>>
  PROVE  SysEx7(part, data) \in WholePackets
<1>1. SysEx7(part, data) \in Packets
  BY DEF Packets, SysEx7
<1>2. /\ SysEx7(part, data).message = "sysex" /\ SysEx7(part, data).data = data
      /\ SysEx7(part, data).part = part
  BY DEF SysEx7
<1> QED BY <1>1, <1>2 DEF WholePackets

\* parse() inside a SysEx leaves a good parser.
LEMMA SysExByteIsGood ==
  ASSUME NEW parser, GoodParser(parser), parser.active, NEW b \in Bytes
  PROVE  /\ GoodParser(parse_sysex_byte(parser, b).parser)
         /\ parse_sysex_byte(parser, b).out \in Seq(WholePackets)
<1> DEFINE size == SYSEX7_DATA64_MAX_PAYLOAD_SIZE
<1>1. parser \in Parsers /\ parser.sysex \in BoundedSeq(Data, size)
  BY DEF GoodParser, Parsers
<1>2. parser.sysex \in Seq(Data) /\ Len(parser.sysex) <= size /\ Len(parser.sysex) \in Nat
  BY <1>1, ByteKinds, Bounded, LenProperties
<1>3. CASE b = "sysex_end"
  <2> DEFINE q == [parser EXCEPT !.active = FALSE, !.sysex = <<>>]
             part == IF parser.multi THEN "End" ELSE "Complete"
  <2>1. parse_sysex_byte(parser, b) = Parsed(q, <<SysEx7(part, parser.sysex)>>)
    BY <1>3, ByteKinds DEF parse_sysex_byte
  <2>2. SysEx7(part, parser.sysex) \in WholePackets
    <3>1. part \in SysEx7Statuses /\ (part = "End" => parser.sysex # <<>>)
          /\ part \notin {"Start", "Continue"}
      BY DEF SysEx7Statuses, GoodParser
    <3> HIDE DEF part
    <3> QED BY <1>1, <3>1, PieceIsWhole
  <2>3. <<>> \in BoundedSeq(Data, size)
    BY ByteKinds, EmptyIsBounded
  <2>4. q \in Parsers /\ ~q.active /\ q.pending = parser.pending
    BY <1>1, <2>3 DEF Parsers
  <2>5. GoodParser(q)
    BY <2>4 DEF GoodParser
  <2> QED BY <2>1, <2>2, <2>5 DEF Parsed
<1>4. CASE b \in StatusBytes \ {"sysex_end"}
  <2>1. parse_sysex_byte(parser, b) = FirstByte(ResetParser, b)
    BY <1>4, ByteKinds DEF parse_sysex_byte
  <2> QED BY <2>1, ResetIsGood, FirstByteIsGood
<1>5. CASE b \in Data /\ Len(parser.sysex) = size
  <2> DEFINE q == [parser EXCEPT !.sysex = <<b>>, !.multi = TRUE]
             part == IF parser.multi THEN "Continue" ELSE "Start"
  <2>1. parse_sysex_byte(parser, b) = Parsed(q, <<SysEx7(part, parser.sysex)>>)
    BY <1>5, ByteKinds DEF parse_sysex_byte
  <2>2. SysEx7(part, parser.sysex) \in WholePackets
    <3>1. part \in SysEx7Statuses /\ part # "End"
      BY DEF SysEx7Statuses
    <3> HIDE DEF part
    <3> QED BY <1>1, <1>5, <3>1, PieceIsWhole
  <2>3. <<b>> \in BoundedSeq(Data, size)
    <3>1. <<b>> \in Seq(Data) /\ Len(<<b>>) <= size
      BY <1>5, ByteKinds
    <3> QED BY <3>1, ByteKinds, Bounded
  <2>4. q \in Parsers /\ q.sysex = <<b>> /\ q.pending = parser.pending
    BY <1>1, <2>3 DEF Parsers
  <2>5. GoodParser(q)
    BY <2>4 DEF GoodParser
  <2> QED BY <2>1, <2>2, <2>5 DEF Parsed
<1>6. CASE b \in Data /\ Len(parser.sysex) # size
  <2> DEFINE q == [parser EXCEPT !.sysex = Append(@, b)]
  <2>1. parse_sysex_byte(parser, b) = Parsed(q, <<>>)
    BY <1>6, ByteKinds DEF parse_sysex_byte
  <2>2. Append(parser.sysex, b) \in BoundedSeq(Data, size)
    <3>1. Append(parser.sysex, b) \in Seq(Data) /\ Len(Append(parser.sysex, b)) <= size
      BY <1>2, <1>6, ByteKinds
    <3> QED BY <3>1, ByteKinds, Bounded
  <2>3. q \in Parsers /\ q.sysex = Append(parser.sysex, b) /\ q.pending = parser.pending
    BY <1>1, <2>2 DEF Parsers
  <2>4. q.sysex # <<>>
    BY <1>2, <1>6, <2>3
  <2>5. GoodParser(q)
    BY <2>3, <2>4 DEF GoodParser
  <2> QED BY <2>1, <2>5, EmptySeq DEF Parsed
<1> QED BY <1>3, <1>4, <1>5, <1>6, ByteKinds

\* parse() leaves a good parser and returns packets with all their bytes.
LEMMA ParseIsGood ==
  ASSUME NEW parser, GoodParser(parser), NEW b \in Bytes
  PROVE  /\ GoodParser(parse(parser, b).parser)
         /\ parse(parser, b).out \in Seq(WholePackets)
<1>1. CASE b = "sysex"
  <2> DEFINE q == [ResetParser EXCEPT !.active = TRUE]
  <2>1. parse(parser, b) = Parsed(q, <<>>)
    BY <1>1 DEF parse
  <2>2. q \in Parsers /\ q.pending = <<>> /\ q.multi = FALSE
    BY ResetIsGood DEF GoodParser, Parsers, ResetParser
  <2>3. GoodParser(q)
    BY <2>2 DEF GoodParser
  <2> QED BY <2>1, <2>3, EmptySeq DEF Parsed
<1>2. CASE b # "sysex" /\ parser.active
  BY <1>2, SysExByteIsGood DEF parse
<1>3. CASE b # "sysex" /\ ~parser.active /\ parser.pending = <<>>
  <2>1. parse(parser, b) = FirstByte(parser, b)
    BY <1>3 DEF parse
  <2> QED BY <1>3, <2>1, FirstByteIsGood
<1>4. CASE b \in StatusBytes \ {"sysex"} /\ ~parser.active /\ parser.pending # <<>>
  <2>1. parse(parser, b) = FirstByte(ResetParser, b)
    BY <1>4 DEF parse
  <2> QED BY <2>1, ResetIsGood, FirstByteIsGood
<1>5. CASE b \in Data /\ ~parser.active /\ parser.pending # <<>>
  <2> DEFINE q == [parser EXCEPT !.pending = Append(@, b)]
             m == Head(parser.pending)
             data == Append(Tail(parser.pending), b)
  <2>1. parse(parser, b) = Appended(q)
    BY <1>5, ByteKinds DEF parse
  <2>2. /\ parser \in Parsers /\ parser.pending \in Seq(Bytes)
        /\ m \in Messages /\ Len(parser.pending) < expected_size(m)
        /\ Tail(parser.pending) \in Seq(Data)
    <3>1. parser \in Parsers
      BY DEF GoodParser
    <3>2. parser.pending \in BoundedSeq(Bytes, 2)
      BY <3>1 DEF Parsers
    <3> QED BY <1>5, <3>1, <3>2, Bounded DEF GoodParser
  <2>3. data \in Seq(Data) /\ parser.pending = <<m>> \o Tail(parser.pending)
        /\ Len(Tail(parser.pending)) = Len(parser.pending) - 1
        /\ Len(data) = Len(parser.pending) /\ Len(data) \in Nat
    BY <1>5, <2>2
  <2>4. q.pending = <<m>> \o data /\ q.pending \in Seq(Bytes)
    <3>1. q.pending = Append(parser.pending, b)
      BY <2>2 DEF Parsers
    <3>2. Append(parser.pending, b) = <<m>> \o data
      BY <1>5, <2>2, <2>3
    <3>3. Append(parser.pending, b) \in Seq(Bytes)
      BY <2>2
    <3> QED BY <3>1, <3>2, <3>3
  <2>5. q \in [running : DOMAIN ChannelSize \cup {"none"}, pending : Seq(Bytes),
               sysex : BoundedSeq(Data, SYSEX7_DATA64_MAX_PAYLOAD_SIZE),
               active : BOOLEAN, multi : BOOLEAN]
    BY <2>2, <2>4 DEF Parsers
  <2>6. q.active = FALSE
    BY <1>5, <2>2 DEF Parsers
  <2>7. Len(data) + 1 <= expected_size(m)
    BY <2>2, <2>3, Sizes
  <2> HIDE DEF q, m, data
  <2>8. /\ GoodParser(Appended(q).parser)
        /\ Appended(q).out \in Seq(WholePackets)
    BY <2>2, <2>3, <2>4, <2>5, <2>6, <2>7, AppendedIsGood
  <2> QED BY <2>1, <2>8
<1> QED BY <1>1, <1>2, <1>3, <1>4, <1>5, ByteKinds DEF GoodParser, Parsers

-----------------------------------------------------------------------------
(* Runs of bytes.                                                            *)

\* What parse() returns is a pair.
LEMMA ParsedFields == \A p, o : Parsed(p, o).parser = p /\ Parsed(p, o).out = o
BY DEF Parsed

\* One byte more.
ParsedNext(before, b) ==
  LET next == parse(before.parser, b)
  IN Parsed(next.parser, before.out \o next.out)

\* The table that ParsedAll's recursive function is, for the first n bytes.
Runs(parser, bytes, n, u) ==
  u = [i \in 0 .. n |-> IF i = 0 THEN Parsed(parser, <<>>)
                        ELSE ParsedNext(u[i - 1], bytes[i])]

\* There is such a table.
LEMMA RunExists ==
  ASSUME NEW parser, NEW bytes, NEW n \in Nat
  PROVE  \E u : Runs(parser, bytes, n, u)
<1> DEFINE P == {m \in Nat : \E u : Runs(parser, bytes, m, u)}
<1>1. 0 \in P
  <2> DEFINE u == [i \in 0 .. 0 |-> Parsed(parser, <<>>)]
  <2>1. Runs(parser, bytes, 0, u)
    BY DEF Runs
  <2> QED BY <2>1
<1>2. ASSUME NEW m \in Nat, m \in P PROVE m + 1 \in P
  <2>1. PICK u : Runs(parser, bytes, m, u)
    BY <1>2
  <2> DEFINE w == [i \in 0 .. m + 1 |-> IF i <= m THEN u[i] ELSE ParsedNext(u[m], bytes[m + 1])]
  <2>2. ASSUME NEW i \in 0 .. m + 1
        PROVE  w[i] = IF i = 0 THEN Parsed(parser, <<>>) ELSE ParsedNext(w[i - 1], bytes[i])
    <3>1. CASE i <= m
      <4>1. u[i] = IF i = 0 THEN Parsed(parser, <<>>) ELSE ParsedNext(u[i - 1], bytes[i])
        <5>1. i \in 0 .. m
          BY <3>1
        <5> QED BY <2>1, <5>1 DEF Runs
      <4>2. w[i] = u[i] /\ (i # 0 => w[i - 1] = u[i - 1])
        BY <3>1
      <4> QED BY <4>1, <4>2
    <3>2. CASE i = m + 1
      <4>1. w[i] = ParsedNext(u[m], bytes[m + 1]) /\ w[i - 1] = u[m] /\ i # 0
        BY <3>2
      <4> QED BY <3>2, <4>1
    <3> QED BY <3>1, <3>2
  <2>3. Runs(parser, bytes, m + 1, w)
    BY <2>2 DEF Runs
  <2> QED BY <2>3
<1> HIDE DEF P
<1>3. n \in P
  BY <1>1, <1>2, NumbersFrom0
<1> QED BY <1>3 DEF P

\* Any two tables agree as far as the bytes do.
LEMMA RunsAgree ==
  ASSUME NEW parser, NEW s, NEW t, NEW n \in Nat, NEW m \in Nat, n <= m,
         NEW u, Runs(parser, s, n, u), NEW w, Runs(parser, t, m, w),
         \A i \in 1 .. n : s[i] = t[i]
  PROVE  u[n] = w[n]
<1> DEFINE P == {i \in Nat : i <= n => u[i] = w[i]}
<1>1. 0 \in P
  BY DEF Runs
<1>2. ASSUME NEW i \in Nat, i \in P PROVE i + 1 \in P
  <2> SUFFICES ASSUME i + 1 <= n PROVE u[i + 1] = w[i + 1]
    OBVIOUS
  <2>1. /\ i + 1 \in 0 .. n /\ i + 1 \in 0 .. m /\ i + 1 # 0 /\ (i + 1) - 1 = i
        /\ s[i + 1] = t[i + 1] /\ u[i] = w[i]
    BY <1>2
  <2>2. u[i + 1] = ParsedNext(u[i], s[i + 1])
    BY <2>1 DEF Runs
  <2>3. w[i + 1] = ParsedNext(w[i], t[i + 1])
    BY <2>1 DEF Runs
  <2> QED BY <2>1, <2>2, <2>3
<1> HIDE DEF P
<1>3. n \in P
  BY <1>1, <1>2, NumbersFrom0
<1> QED BY <1>3 DEF P

\* The last entry of a table is what ParsedAll returns.
LEMMA RunIs ==
  ASSUME NEW parser, NEW S, NEW bytes \in Seq(S), NEW u, Runs(parser, bytes, Len(bytes), u)
  PROVE  ParsedAll(parser, bytes) = u[Len(bytes)]
<1> DEFINE Body(t) == [i \in 0 .. Len(bytes) |->
                         IF i = 0 THEN Parsed(parser, <<>>) ELSE ParsedNext(t[i - 1], bytes[i])]
           table == CHOOSE t : t = Body(t)
<1>1. u = Body(u)
  BY DEF Runs
<1>2. table = Body(table)
  BY <1>1
<1>3. ParsedAll(parser, bytes) = table[Len(bytes)]
  BY DEF ParsedAll, ParsedNext
<1> HIDE DEF table
<1>4. Runs(parser, bytes, Len(bytes), table)
  BY <1>2 DEF Runs
<1>5. Len(bytes) \in Nat
  BY LenProperties
<1>6. table[Len(bytes)] = u[Len(bytes)]
  BY <1>4, <1>5, RunsAgree
<1> QED BY <1>3, <1>6

\* No byte changes nothing, and one byte more is one more parse().
LEMMA ParsedSteps ==
  /\ \A parser : ParsedAll(parser, <<>>) = Parsed(parser, <<>>)
  /\ \A parser, S : \A s \in Seq(S), b \in S :
       ParsedAll(parser, Append(s, b)) = ParsedNext(ParsedAll(parser, s), b)
<1>1. ASSUME NEW parser PROVE ParsedAll(parser, <<>>) = Parsed(parser, <<>>)
  <2>1. Len(<<>>) = 0 /\ <<>> \in Seq({}) /\ 0 \in Nat
    BY EmptySeq
  <2>2. PICK u : Runs(parser, <<>>, 0, u)
    BY RunExists
  <2>3. ParsedAll(parser, <<>>) = u[0]
    BY <2>1, <2>2, RunIs
  <2>4. u[0] = Parsed(parser, <<>>)
    BY <2>2 DEF Runs
  <2> QED BY <2>3, <2>4
<1>2. ASSUME NEW parser, NEW S, NEW s \in Seq(S), NEW b \in S
      PROVE  ParsedAll(parser, Append(s, b)) = ParsedNext(ParsedAll(parser, s), b)
  <2> DEFINE t == Append(s, b)
             n == Len(s)
  <2>1. /\ t \in Seq(S) /\ Len(t) = n + 1 /\ n \in Nat /\ t[n + 1] = b
        /\ \A i \in 1 .. n : s[i] = t[i]
    BY AppendProperties, LenProperties
  <2>2. PICK u : Runs(parser, s, n, u)
    BY <2>1, RunExists
  <2>3. PICK w : Runs(parser, t, n + 1, w)
    <3>1. n + 1 \in Nat
      BY <2>1
    <3> QED BY <3>1, RunExists
  <2> HIDE DEF t, n
  <2>4. u[n] = w[n]
    <3>1. n <= n + 1 /\ n + 1 \in Nat
      BY <2>1
    <3> QED BY <2>1, <2>2, <2>3, <3>1, RunsAgree
  <2>5. w[n + 1] = ParsedNext(w[n], b)
    <3>1. n + 1 \in 0 .. n + 1 /\ n + 1 # 0 /\ (n + 1) - 1 = n
      BY <2>1
    <3> QED BY <2>1, <2>3, <3>1 DEF Runs
  <2>6. ParsedAll(parser, s) = u[n]
    BY <2>2, RunIs DEF n
  <2>7. ParsedAll(parser, t) = w[n + 1]
    BY <2>1, <2>3, RunIs
  <2> QED BY <2>4, <2>5, <2>6, <2>7 DEF t
<1> QED BY <1>1, <1>2

\* The same for bytes.
LEMMA ByteSteps ==
  \A parser : \A s \in Seq(Bytes), b \in Bytes :
    ParsedAll(parser, Append(s, b)) = ParsedNext(ParsedAll(parser, s), b)
BY ParsedSteps

\* A run of bytes leaves a good parser and returns packets with all their bytes.
LEMMA ParsedIsGood ==
  ASSUME NEW parser, GoodParser(parser), NEW bytes \in Seq(Bytes)
  PROVE  /\ GoodParser(ParsedAll(parser, bytes).parser)
         /\ ParsedAll(parser, bytes).out \in Seq(WholePackets)
<1> DEFINE P == {s \in Seq(Bytes) : /\ GoodParser(ParsedAll(parser, s).parser)
                                    /\ ParsedAll(parser, s).out \in Seq(WholePackets)}
<1>1. <<>> \in P
  <2>1. ParsedAll(parser, <<>>).parser = parser /\ ParsedAll(parser, <<>>).out = <<>>
    BY ParsedSteps, ParsedFields
  <2> QED BY <2>1, EmptySeq
<1>2. ASSUME NEW s \in Seq(Bytes), NEW b \in Bytes, s \in P PROVE Append(s, b) \in P
  <2> DEFINE before == ParsedAll(parser, s)
             next == parse(before.parser, b)
  <2>1. ParsedAll(parser, Append(s, b)) = Parsed(next.parser, before.out \o next.out)
    BY ParsedSteps DEF ParsedNext
  <2>2. GoodParser(before.parser) /\ before.out \in Seq(WholePackets)
    BY <1>2
  <2> HIDE DEF before
  <2>3. GoodParser(next.parser) /\ next.out \in Seq(WholePackets)
    BY <2>2, ParseIsGood
  <2> HIDE DEF next
  <2>4. before.out \o next.out \in Seq(WholePackets)
    BY <2>2, <2>3
  <2>5. Append(s, b) \in Seq(Bytes)
    OBVIOUS
  <2>6. /\ ParsedAll(parser, Append(s, b)).parser = next.parser
        /\ ParsedAll(parser, Append(s, b)).out = before.out \o next.out
    BY <2>1, ParsedFields
  <2> QED BY <2>3, <2>4, <2>5, <2>6
<1> HIDE DEF P
<1>3. bytes \in P
  BY <1>1, <1>2, SequencesFromEmpty
<1> QED BY <1>3 DEF P

\* Two runs, one after the other, are one.
LEMMA ParsedConcat ==
  ASSUME NEW parser, GoodParser(parser), NEW s \in Seq(Bytes), NEW t \in Seq(Bytes)
  PROVE  LET first == ParsedAll(parser, s)
             second == ParsedAll(first.parser, t)
         IN ParsedAll(parser, s \o t) = Parsed(second.parser, first.out \o second.out)
<1> DEFINE first == ParsedAll(parser, s)
           Second(r) == ParsedAll(first.parser, r)
           P == {r \in Seq(Bytes) : ParsedAll(parser, s \o r)
                                      = Parsed(Second(r).parser, first.out \o Second(r).out)}
<1>1. GoodParser(first.parser) /\ first.out \in Seq(WholePackets)
  BY ParsedIsGood
<1>2. <<>> \in P
  <2>1. s \o <<>> = s /\ first.out \o <<>> = first.out /\ <<>> \in Seq(Bytes)
    BY <1>1, ConcatEmptySeq, EmptySeq
  <2>2. Second(<<>>) = Parsed(first.parser, <<>>)
    BY ParsedSteps
  <2>3. first = Parsed(first.parser, first.out)
    <3>1. CASE s = <<>>
      BY <3>1, ParsedSteps DEF Parsed
    <3>2. CASE s # <<>>
      <4>1. PICK r \in Seq(Bytes), b \in Bytes : s = Append(r, b)
        BY <3>2, SequenceEmptyOrAppend
      <4>2. first = ParsedNext(ParsedAll(parser, r), b)
        BY <4>1, ByteSteps
      <4> QED BY <4>2 DEF ParsedNext, Parsed
    <3> QED BY <3>1, <3>2
  <2> HIDE DEF first
  <2>4. Second(<<>>).parser = first.parser /\ Second(<<>>).out = <<>>
    BY <2>2 DEF Parsed
  <2> QED BY <2>1, <2>3, <2>4 DEF first
<1>3. ASSUME NEW r \in Seq(Bytes), NEW b \in Bytes, r \in P PROVE Append(r, b) \in P
  <2>1. s \o Append(r, b) = Append(s \o r, b) /\ s \o r \in Seq(Bytes)
    OBVIOUS
  <2>2. ParsedAll(parser, Append(s \o r, b)) = ParsedNext(ParsedAll(parser, s \o r), b)
    BY <2>1, ByteSteps
  <2>3. ParsedAll(parser, s \o r) = Parsed(Second(r).parser, first.out \o Second(r).out)
    BY <1>3
  <2>4. Second(Append(r, b)) = ParsedNext(Second(r), b)
    BY ParsedSteps
  <2>5. GoodParser(Second(r).parser) /\ Second(r).out \in Seq(WholePackets)
    BY <1>1, ParsedIsGood
  <2> HIDE DEF first, Second
  <2> DEFINE next == parse(Second(r).parser, b)
  <2>6. next.out \in Seq(WholePackets)
    BY <2>5, ParseIsGood
  <2> HIDE DEF next
  <2>7. (first.out \o Second(r).out) \o next.out = first.out \o (Second(r).out \o next.out)
    <3>1. \A x, y, z \in Seq(WholePackets) : (x \o y) \o z = x \o (y \o z)
      BY ConcatAssociative
    <3> QED BY <1>1, <2>5, <2>6, <3>1
  <2>8. ParsedAll(parser, s \o Append(r, b))
          = Parsed(next.parser, (first.out \o Second(r).out) \o next.out)
    BY <2>1, <2>2, <2>3 DEF ParsedNext, Parsed, next
  <2>9. Second(Append(r, b)) = Parsed(next.parser, Second(r).out \o next.out)
    BY <2>4 DEF ParsedNext, next
  <2>10. /\ Second(Append(r, b)).parser = next.parser
         /\ Second(Append(r, b)).out = Second(r).out \o next.out
    <3> DEFINE out == Second(r).out \o next.out
               whole == Parsed(next.parser, out)
    <3>1. whole.parser = next.parser /\ whole.out = out
      BY ParsedFields
    <3>2. Second(Append(r, b)) = whole
      BY <2>9
    <3> HIDE DEF whole
    <3> QED BY <3>1, <3>2
  <2>11. Append(r, b) \in Seq(Bytes)
    OBVIOUS
  <2> QED BY <2>7, <2>8, <2>10, <2>11 DEF first, Second
<1> HIDE DEF P
<1>4. t \in P
  BY <1>2, <1>3, SequencesFromEmpty
<1> QED BY <1>4 DEF P

-----------------------------------------------------------------------------
(* A packet and what the parser makes of its bytes.                          *)

\* What is appended comes last, behind the others.
LEMMA LastAppended ==
  ASSUME NEW S, NEW t \in Seq(S), NEW e \in S
  PROVE  Append(t, e) # <<>> /\ Front(Append(t, e)) = t /\ Last(Append(t, e)) = e
<1> DEFINE u == Append(t, e)
<1>1. /\ u \in Seq(S) /\ u # <<>> /\ Len(u) = Len(t) + 1 /\ Len(t) \in Nat
      /\ (\A i \in 1 .. Len(t) : u[i] = t[i]) /\ u[Len(t) + 1] = e
  BY AppendProperties, LenProperties
<1>2. Last(u) = e
  BY <1>1 DEF Last
<1>3. Front(u) = SubSeq(u, 1, Len(t))
  BY <1>1 DEF Front
<1>4. SubSeq(u, 1, Len(t)) = t
  <2>1. \A i \in 1 .. Len(t) : u[i] \in S
    BY <1>1
  <2>2. /\ SubSeq(u, 1, Len(t)) \in Seq(S)
        /\ Len(SubSeq(u, 1, Len(t))) = Len(t)
        /\ \A i \in 1 .. Len(t) : SubSeq(u, 1, Len(t))[i] = u[i]
    <3> HIDE DEF u
    <3>1. Len(t) - 1 + 1 = Len(t) /\ (1 <= Len(t) \/ Len(t) = 0)
          /\ \A i \in 1 .. Len(t) : 1 + i - 1 = i
      BY <1>1
    <3> QED BY <1>1, <2>1, <3>1, SubSeqProperties
  <2> QED BY <1>1, <2>2, SeqEqual
<1> QED BY <1>1, <1>2, <1>3, <1>4

\* The last element of a sequence and those in front of it.
LEMMA FrontAndLast ==
  ASSUME NEW S, NEW s \in Seq(S)
  PROVE  /\ \A e \in S : Append(s, e) # <<>> /\ Front(Append(s, e)) = s /\ Last(Append(s, e)) = e
         /\ s # <<>> => /\ Front(s) \in Seq(S) /\ Last(s) \in S
                        /\ s = Append(Front(s), Last(s))
<1>1. ASSUME NEW t \in Seq(S), NEW e \in S
      PROVE  Append(t, e) # <<>> /\ Front(Append(t, e)) = t /\ Last(Append(t, e)) = e
  BY LastAppended
<1>2. ASSUME s # <<>>
      PROVE  Front(s) \in Seq(S) /\ Last(s) \in S /\ s = Append(Front(s), Last(s))
  <2>1. PICK t \in Seq(S), e \in S : s = Append(t, e)
    BY <1>2, SequenceEmptyOrAppend
  <2> QED BY <1>1, <2>1
<1> QED BY <1>1, <1>2

\* Bytes in three pieces.
LEMMA Regrouped ==
  ASSUME NEW x \in Seq(Bytes), NEW y \in Seq(Bytes), NEW z \in Seq(Bytes)
  PROVE  (x \o y) \o z = x \o (y \o z) /\ y \o z \in Seq(Bytes)
<1>1. (x \o y) \o z = x \o (y \o z)
  BY ConcatAssociative
<1>2. y \o z \in Seq(Bytes)
  BY ConcatProperties
<1> QED BY <1>1, <1>2

\* The same for packets.
LEMMA PacketsRegrouped ==
  ASSUME NEW x \in Seq(WholePackets), NEW y \in Seq(WholePackets), NEW z \in Seq(WholePackets)
  PROVE  (x \o y) \o z = x \o (y \o z)
BY ConcatAssociative

\* A packet with all its bytes is a message or a piece of a SysEx.
LEMMA WholeIs ==
  ASSUME NEW p \in WholePackets
  PROVE  /\ p.data \in Seq(Data) /\ Len(p.data) \in Nat
         /\ p.message # "sysex" =>
              /\ p.message \in Messages /\ Len(p.data) + 1 = expected_size(p.message)
              /\ p = [message |-> p.message, data |-> p.data, part |-> "none"]
              /\ p.part = "none"
         /\ p.message = "sysex" =>
              /\ p.part \in SysEx7Statuses /\ p = SysEx7(p.part, p.data)
              /\ Len(p.data) <= SYSEX7_DATA64_MAX_PAYLOAD_SIZE
              /\ p.part \in {"Start", "Continue"}
                   => Len(p.data) = SYSEX7_DATA64_MAX_PAYLOAD_SIZE
              /\ p.part = "End" => p.data # <<>>
         /\ p.part \in SysEx7Statuses => p.message = "sysex"
<1>1. p \in Packets
  BY DEF WholePackets
<1>2. CASE p \in [message : Messages, data : BoundedSeq(Data, 2), part : {"none"}]
  <2>1. p.message \in Messages /\ p.part = "none" /\ p.data \in BoundedSeq(Data, 2)
        /\ p = [message |-> p.message, data |-> p.data, part |-> "none"]
    BY <1>2
  <2>2. p.data \in Seq(Data) /\ p.message # "sysex" /\ "none" \notin SysEx7Statuses
    BY <2>1, Bounded, Sizes DEF SysEx7Statuses
  <2>3. Len(p.data) + 1 = expected_size(p.message)
    BY <2>2 DEF WholePackets
  <2> QED BY <2>1, <2>2, <2>3, LenProperties
<1>3. CASE p \in [message : {"sysex"},
                  data : BoundedSeq(Data, SYSEX7_DATA64_MAX_PAYLOAD_SIZE),
                  part : SysEx7Statuses]
  <2>1. p.message = "sysex" /\ p.part \in SysEx7Statuses
        /\ p.data \in BoundedSeq(Data, SYSEX7_DATA64_MAX_PAYLOAD_SIZE)
        /\ p = [message |-> "sysex", data |-> p.data, part |-> p.part]
    BY <1>3
  <2>2. p.data \in Seq(Data) /\ Len(p.data) <= SYSEX7_DATA64_MAX_PAYLOAD_SIZE
    BY <2>1, ByteKinds, Bounded
  <2>3. /\ p.part \in {"Start", "Continue"} => Len(p.data) = SYSEX7_DATA64_MAX_PAYLOAD_SIZE
        /\ p.part = "End" => p.data # <<>>
    BY <2>1 DEF WholePackets
  <2>4. p = SysEx7(p.part, p.data)
    BY <2>1 DEF SysEx7
  <2> QED BY <2>1, <2>2, <2>3, <2>4, LenProperties
<1> QED BY <1>1, <1>2, <1>3 DEF Packets

\* The first byte of a message ends whatever was before it.
LEMMA MessageStarts ==
  ASSUME NEW parser, GoodParser(parser), NEW m \in Messages
  PROVE  LET next == parse(parser, m)
         IN IF expected_size(m) = 1
            THEN next.out = <<[message |-> m, data |-> <<>>, part |-> "none"]>>
            ELSE next.out = <<>> /\ ~next.parser.active /\ next.parser.pending = <<m>>
<1>1. m \in StatusBytes /\ m \notin Data /\ m # "sysex" /\ m # "sysex_end"
  BY ByteKinds, Sizes
<1>2. PICK q : /\ q \in Parsers /\ q.pending = <<>> /\ ~q.active /\ GoodParser(q)
               /\ parse(parser, m) = FirstByte(q, m)
  <2>1. CASE parser.active
    <3>1. parse(parser, m) = FirstByte(ResetParser, m)
      BY <1>1, <2>1 DEF parse, parse_sysex_byte
    <3> QED BY <3>1, ResetIsGood DEF GoodParser, ResetParser
  <2>2. CASE ~parser.active /\ parser.pending = <<>>
    BY <1>1, <2>2 DEF parse, GoodParser
  <2>3. CASE ~parser.active /\ parser.pending # <<>>
    <3>1. parse(parser, m) = FirstByte(ResetParser, m)
      BY <1>1, <2>3 DEF parse
    <3> QED BY <3>1, ResetIsGood DEF GoodParser, ResetParser
  <2> QED BY <2>1, <2>2, <2>3 DEF GoodParser, Parsers
<1>3. CASE m = "clock"
  <2>1. FirstByte(q, m) = Parsed(q, <<Message(<<m>>)>>)
    BY <1>1, <1>3 DEF FirstByte
  <2>2. Message(<<m>>) = [message |-> m, data |-> <<>>, part |-> "none"]
    BY DEF Message
  <2> QED BY <1>2, <1>3, <2>1, <2>2, ParsedFields, Sizes
<1>4. CASE m # "clock"
  <2> DEFINE r == [q EXCEPT !.pending = <<m>>]
  <2>1. FirstByte(q, m) = Appended(r)
    BY <1>1, <1>4 DEF FirstByte
  <2>2. expected_size(m) \in {2, 3}
    BY <1>4, Sizes
  <2>3. r.pending = <<m>> /\ ~r.active
    BY <1>2 DEF Parsers
  <2>4. Appended(r) = Parsed(r, <<>>)
    BY <2>2, <2>3 DEF Appended
  <2> HIDE DEF r
  <2>5. parse(parser, m).parser = r /\ parse(parser, m).out = <<>>
    BY <1>2, <2>1, <2>4, ParsedFields
  <2> QED BY <2>2, <2>3, <2>5
<1> QED BY <1>3, <1>4

\* A data byte goes on with the message that is pending.
LEMMA MessageGoesOn ==
  ASSUME NEW parser, GoodParser(parser), ~parser.active,
         NEW m \in Messages, NEW data \in Seq(Data), parser.pending = <<m>> \o data,
         NEW b \in Data
  PROVE  LET next == parse(parser, b)
             longer == Append(data, b)
         IN IF Len(longer) + 1 < expected_size(m)
            THEN next.out = <<>> /\ ~next.parser.active /\ next.parser.pending = <<m>> \o longer
            ELSE next.out = <<[message |-> m, data |-> longer, part |-> "none"]>>
<1> DEFINE longer == Append(data, b)
           q == [parser EXCEPT !.pending = Append(@, b)]
<1>1. b \in Bytes /\ b \notin StatusBytes /\ b # "sysex"
  BY ByteKinds
<1>2. /\ parser.pending # <<>> /\ Len(parser.pending) = Len(data) + 1
      /\ Head(parser.pending) = m
  OBVIOUS
<1>3. parse(parser, b) = Appended(q)
  BY <1>1, <1>2 DEF parse
<1>4. parser \in Parsers /\ Len(data) + 1 < expected_size(m) /\ Len(data) \in Nat
  BY <1>2, LenProperties DEF GoodParser
<1>5. longer \in Seq(Data) /\ Len(longer) = Len(data) + 1
      /\ Append(parser.pending, b) = <<m>> \o longer
  OBVIOUS
<1>6. q.pending = <<m>> \o longer /\ q.active = FALSE
  BY <1>4, <1>5 DEF Parsers
<1>7. q.pending \in Seq(Bytes)
  <2>1. m \in Bytes /\ Data \subseteq Bytes
    BY ByteKinds
  <2>2. longer \in Seq(Bytes) /\ <<m>> \in Seq(Bytes)
    BY <1>5, <2>1, SeqMonotonic
  <2> QED BY <1>6, <2>2
<1>8. q \in [running : DOMAIN ChannelSize \cup {"none"}, pending : Seq(Bytes),
             sysex : BoundedSeq(Data, SYSEX7_DATA64_MAX_PAYLOAD_SIZE),
             active : BOOLEAN, multi : BOOLEAN]
  BY <1>4, <1>7 DEF Parsers
<1>9. Len(longer) + 1 <= expected_size(m) /\ expected_size(m) \in Nat
  BY <1>4, <1>5, Sizes
<1> HIDE DEF q, longer
<1>10. /\ Len(longer) + 1 < expected_size(m) => Appended(q) = Parsed(q, <<>>)
       /\ Len(longer) + 1 = expected_size(m) =>
            Appended(q).out = <<[message |-> m, data |-> longer, part |-> "none"]>>
  BY <1>5, <1>6, <1>8, <1>9, AppendedIsGood
<1>11. Len(longer) \in Nat
  BY <1>5, LenProperties
<1> QED BY <1>3, <1>6, <1>9, <1>10, <1>11, ParsedFields DEF longer

\* The bytes of a message, up to any of them: nothing before the last one, and
\* then the message.
LEMMA MessageParsed ==
  ASSUME NEW parser, GoodParser(parser), NEW m \in Messages, NEW data \in Seq(Data),
         Len(data) + 1 <= expected_size(m)
  PROVE  LET all == ParsedAll(parser, <<m>> \o data)
         IN IF Len(data) + 1 < expected_size(m)
            THEN all.out = <<>> /\ ~all.parser.active /\ all.parser.pending = <<m>> \o data
            ELSE all.out = <<[message |-> m, data |-> data, part |-> "none"]>>
<1> DEFINE All(s) == ParsedAll(parser, <<m>> \o s)
           Holds(s) ==
             Len(s) + 1 <= expected_size(m) =>
               IF Len(s) + 1 < expected_size(m)
               THEN All(s).out = <<>> /\ ~All(s).parser.active /\ All(s).parser.pending = <<m>> \o s
               ELSE All(s).out = <<[message |-> m, data |-> s, part |-> "none"]>>
           P == {s \in Seq(Data) : Holds(s)}
<1>0. expected_size(m) \in Nat /\ expected_size(m) >= 1 /\ m \in Bytes /\ Data \subseteq Bytes
  BY Sizes, ByteKinds
<1>1. <<>> \in P
  <2>1. <<m>> \o <<>> = <<m>> /\ Append(<<>>, m) = <<m>> /\ <<>> \in Seq(Bytes)
        /\ <<>> \in Seq(Data) /\ Len(<<>>) = 0
    BY EmptySeq
  <2>2. All(<<>>) = ParsedNext(ParsedAll(parser, <<>>), m)
    BY <1>0, <2>1, ByteSteps
  <2>3. ParsedAll(parser, <<>>).parser = parser /\ ParsedAll(parser, <<>>).out = <<>>
    BY ParsedSteps, ParsedFields
  <2> DEFINE next == parse(parser, m)
  <2>4. next.out \in Seq(WholePackets)
    BY <1>0, ParseIsGood
  <2>5. All(<<>>).parser = next.parser /\ All(<<>>).out = next.out
    <3>1. <<>> \o next.out = next.out
      BY <2>4, ConcatEmptySeq
    <3>2. All(<<>>) = Parsed(next.parser, <<>> \o next.out)
      BY <2>2, <2>3 DEF ParsedNext
    <3> QED BY <3>1, <3>2, ParsedFields
  <2>6. IF expected_size(m) = 1
        THEN next.out = <<[message |-> m, data |-> <<>>, part |-> "none"]>>
        ELSE next.out = <<>> /\ ~next.parser.active /\ next.parser.pending = <<m>>
    BY MessageStarts
  <2> HIDE DEF next, All
  <2>7. Holds(<<>>)
    BY <1>0, <2>1, <2>5, <2>6
  <2> QED BY <2>1, <2>7
<1>2. ASSUME NEW s \in Seq(Data), NEW b \in Data, s \in P PROVE Append(s, b) \in P
  <2> DEFINE longer == Append(s, b)
  <2>1. /\ longer \in Seq(Data) /\ Len(longer) = Len(s) + 1 /\ Len(s) \in Nat
        /\ <<m>> \o longer = Append(<<m>> \o s, b)
    BY AppendProperties, LenProperties
  <2> SUFFICES ASSUME Len(longer) + 1 <= expected_size(m) PROVE Holds(longer)
    BY <2>1
  <2>2. <<m>> \o s \in Seq(Bytes)
    <3>1. s \in Seq(Bytes) /\ <<m>> \in Seq(Bytes)
      BY <1>0, SeqMonotonic
    <3> QED BY <3>1
  <2>3. GoodParser(All(s).parser)
    BY <2>2, ParsedIsGood
  <2>4. All(s).out = <<>> /\ ~All(s).parser.active /\ All(s).parser.pending = <<m>> \o s
    <3> DEFINE size == expected_size(m)
               n == Len(s)
               k == Len(longer)
    <3>1. n \in Nat /\ k = n + 1 /\ k + 1 <= size /\ size \in Nat
      BY <1>0, <2>1
    <3> HIDE DEF size, n, k
    <3>2. n + 1 <= size /\ n + 1 < size
      BY <3>1
    <3>3. Holds(s)
      BY <1>2
    <3> HIDE DEF All
    <3> QED BY <3>2, <3>3 DEF size, n
  <2>5. All(longer) = ParsedNext(All(s), b)
    BY <1>0, <2>1, <2>2, ByteSteps
  <2> HIDE DEF All
  <2> DEFINE next == parse(All(s).parser, b)
  <2>6. next.out \in Seq(WholePackets)
    BY <1>0, <2>3, ParseIsGood
  <2>7. IF Len(longer) + 1 < expected_size(m)
        THEN next.out = <<>> /\ ~next.parser.active /\ next.parser.pending = <<m>> \o longer
        ELSE next.out = <<[message |-> m, data |-> longer, part |-> "none"]>>
    BY <2>3, <2>4, MessageGoesOn
  <2>8. All(longer).parser = next.parser /\ All(longer).out = next.out
    <3>1. <<>> \o next.out = next.out
      BY <2>6, ConcatEmptySeq
    <3>2. All(longer) = Parsed(next.parser, <<>> \o next.out)
      BY <2>4, <2>5 DEF ParsedNext
    <3> QED BY <3>1, <3>2, ParsedFields
  <2> HIDE DEF next, longer
  <2> QED BY <2>7, <2>8
<1> HIDE DEF P
<1>3. data \in P
  BY <1>1, <1>2, SequencesFromEmpty
<1> QED BY <1>3 DEF P

\* A data byte in a SysEx: a full packet leaves when one more comes.
LEMMA SysExGoesOn ==
  ASSUME NEW parser, GoodParser(parser), parser.active, NEW b \in Data
  PROVE  LET next == parse(parser, b)
             full == Len(parser.sysex) = SYSEX7_DATA64_MAX_PAYLOAD_SIZE
         IN /\ next.out = IF full
                          THEN <<SysEx7(IF parser.multi THEN "Continue" ELSE "Start", parser.sysex)>>
                          ELSE <<>>
            /\ next.parser.sysex = IF full THEN <<b>> ELSE Append(parser.sysex, b)
            /\ next.parser.multi = IF full THEN TRUE ELSE parser.multi
            /\ next.parser.active
<1>1. b \notin StatusBytes /\ b # "sysex" /\ b # "sysex_end"
  BY ByteKinds
<1>2. parse(parser, b) = parse_sysex_byte(parser, b)
  BY <1>1 DEF parse
<1>3. parser \in Parsers
  BY DEF GoodParser
<1>4. CASE Len(parser.sysex) = SYSEX7_DATA64_MAX_PAYLOAD_SIZE
  <2> DEFINE q == [parser EXCEPT !.sysex = <<b>>, !.multi = TRUE]
             out == <<SysEx7(IF parser.multi THEN "Continue" ELSE "Start", parser.sysex)>>
  <2>1. parse_sysex_byte(parser, b) = Parsed(q, out)
    BY <1>1, <1>4 DEF parse_sysex_byte
  <2>2. q.sysex = <<b>> /\ q.multi = TRUE /\ q.active
    BY <1>3 DEF Parsers
  <2> HIDE DEF q, out
  <2>3. parse(parser, b).parser = q /\ parse(parser, b).out = out
    BY <1>2, <2>1, ParsedFields
  <2> QED BY <1>4, <2>2, <2>3 DEF out
<1>5. CASE Len(parser.sysex) # SYSEX7_DATA64_MAX_PAYLOAD_SIZE
  <2> DEFINE q == [parser EXCEPT !.sysex = Append(@, b)]
  <2>1. parse_sysex_byte(parser, b) = Parsed(q, <<>>)
    BY <1>1, <1>5 DEF parse_sysex_byte
  <2>2. q.sysex = Append(parser.sysex, b) /\ q.multi = parser.multi /\ q.active
    BY <1>3 DEF Parsers
  <2> HIDE DEF q
  <2>3. parse(parser, b).parser = q /\ parse(parser, b).out = <<>>
    BY <1>2, <2>1, ParsedFields
  <2> QED BY <1>5, <2>2, <2>3
<1> QED BY <1>4, <1>5

\* A data byte in a SysEx while there is room for it: it is kept.
LEMMA SysExAdds ==
  ASSUME NEW parser, GoodParser(parser), parser.active, NEW b \in Data,
         Len(parser.sysex) # SYSEX7_DATA64_MAX_PAYLOAD_SIZE
  PROVE  LET next == parse(parser, b)
         IN /\ next.out = <<>> /\ next.parser.sysex = Append(parser.sysex, b)
            /\ next.parser.multi = parser.multi /\ next.parser.active
BY SysExGoesOn

\* The end of a SysEx.
LEMMA SysExEnds ==
  ASSUME NEW parser, GoodParser(parser), parser.active
  PROVE  parse(parser, "sysex_end").out
           = <<SysEx7(IF parser.multi THEN "End" ELSE "Complete", parser.sysex)>>
<1>1. parse(parser, "sysex_end") = parse_sysex_byte(parser, "sysex_end")
  BY DEF parse
<1> DEFINE q == [parser EXCEPT !.active = FALSE, !.sysex = <<>>]
           out == <<SysEx7(IF parser.multi THEN "End" ELSE "Complete", parser.sysex)>>
<1>2. parse_sysex_byte(parser, "sysex_end") = Parsed(q, out)
  BY ByteKinds DEF parse_sysex_byte
<1> QED BY <1>1, <1>2, ParsedFields

\* What one byte more adds to what was parsed.
LEMMA ParsedMore ==
  ASSUME NEW parser, GoodParser(parser), NEW s \in Seq(Bytes), NEW b \in Bytes
  PROVE  LET before == ParsedAll(parser, s)
             next == parse(before.parser, b)
             after == ParsedAll(parser, Append(s, b))
         IN /\ GoodParser(before.parser) /\ next.out \in Seq(WholePackets)
            /\ after.parser = next.parser
            /\ after.out = before.out \o next.out
            /\ before.out = <<>> => after.out = next.out
            /\ next.out = <<>> => after.out = before.out
<1> DEFINE before == ParsedAll(parser, s)
           next == parse(before.parser, b)
<1>1. GoodParser(before.parser) /\ before.out \in Seq(WholePackets)
  BY ParsedIsGood
<1>2. ParsedAll(parser, Append(s, b)) = Parsed(next.parser, before.out \o next.out)
  BY ByteSteps DEF ParsedNext
<1> HIDE DEF before
<1>3. next.out \in Seq(WholePackets)
  BY <1>1, ParseIsGood
<1> HIDE DEF next
<1>4. /\ ParsedAll(parser, Append(s, b)).parser = next.parser
      /\ ParsedAll(parser, Append(s, b)).out = before.out \o next.out
  <2> DEFINE out == before.out \o next.out
             whole == Parsed(next.parser, out)
  <2>1. whole.parser = next.parser /\ whole.out = out
    BY ParsedFields
  <2>2. ParsedAll(parser, Append(s, b)) = whole
    BY <1>2
  <2> HIDE DEF whole
  <2> QED BY <2>1, <2>2
<1>5. <<>> \o next.out = next.out /\ before.out \o <<>> = before.out
  BY <1>1, <1>3, ConcatEmptySeq
<1> QED BY <1>1, <1>3, <1>4, <1>5 DEF before, next

\* The beginning of a SysEx, up to any byte that fits a packet.
LEMMA PieceStarts ==
  ASSUME NEW parser, GoodParser(parser), NEW data \in Seq(Data),
         Len(data) <= SYSEX7_DATA64_MAX_PAYLOAD_SIZE
  PROVE  LET all == ParsedAll(parser, <<"sysex">> \o data)
         IN /\ all.out = <<>> /\ all.parser.active /\ all.parser.multi = FALSE
            /\ all.parser.sysex = data
<1> DEFINE size == SYSEX7_DATA64_MAX_PAYLOAD_SIZE
           All(s) == ParsedAll(parser, <<"sysex">> \o s)
           Holds(s) == /\ All(s).out = <<>> /\ All(s).parser.active /\ All(s).parser.multi = FALSE
                       /\ All(s).parser.sysex = s
           P == {s \in Seq(Data) : Len(s) <= size => Holds(s)}
<1>0. "sysex" \in Bytes /\ Data \subseteq Bytes /\ size \in Nat
  BY ByteKinds
<1>1. <<>> \in P
  <2>1. <<"sysex">> \o <<>> = <<"sysex">> /\ Append(<<>>, "sysex") = <<"sysex">>
        /\ <<>> \in Seq(Bytes) /\ <<>> \in Seq(Data)
    BY EmptySeq
  <2>2. ParsedAll(parser, <<>>).out = <<>>
    BY ParsedSteps, ParsedFields
  <2> DEFINE q == [ResetParser EXCEPT !.active = TRUE]
             r == ParsedAll(parser, <<>>).parser
  <2>3. parse(r, "sysex").parser = q /\ parse(r, "sysex").out = <<>>
    <3>1. parse(r, "sysex") = Parsed(q, <<>>)
      BY DEF parse
    <3> QED BY <3>1, ParsedFields
  <2>4. q.active /\ q.multi = FALSE /\ q.sysex = <<>>
    BY DEF ResetParser
  <2>5. All(<<>>).parser = q /\ All(<<>>).out = <<>>
    <3>1. /\ ParsedAll(parser, Append(<<>>, "sysex")).parser = parse(r, "sysex").parser
          /\ ParsedAll(parser, Append(<<>>, "sysex")).out = parse(r, "sysex").out
      BY <1>0, <2>1, <2>2, ParsedMore
    <3> QED BY <2>1, <2>3, <3>1
  <2> HIDE DEF All, q
  <2> QED BY <2>1, <2>4, <2>5
<1>2. ASSUME NEW s \in Seq(Data), NEW b \in Data, s \in P PROVE Append(s, b) \in P
  <2> DEFINE longer == Append(s, b)
  <2>1. /\ longer \in Seq(Data) /\ Len(longer) = Len(s) + 1 /\ Len(s) \in Nat
        /\ <<"sysex">> \o longer = Append(<<"sysex">> \o s, b)
    BY AppendProperties, LenProperties
  <2> SUFFICES ASSUME Len(longer) <= size PROVE Holds(longer)
    BY <2>1
  <2>2. <<"sysex">> \o s \in Seq(Bytes) /\ b \in Bytes
    <3>1. s \in Seq(Bytes) /\ <<"sysex">> \in Seq(Bytes)
      BY <1>0, SeqMonotonic
    <3> QED BY <1>0, <3>1
  <2>3. Holds(s) /\ Len(s) # size
    BY <1>0, <1>2, <2>1
  <2> DEFINE next == parse(All(s).parser, b)
  <2>4. /\ GoodParser(All(s).parser)
        /\ All(longer).parser = next.parser /\ All(longer).out = next.out
    <3> DEFINE t == <<"sysex">> \o s
    <3>1. t \in Seq(Bytes) /\ b \in Bytes /\ ParsedAll(parser, t).out = <<>>
      BY <2>2, <2>3
    <3> HIDE DEF t
    <3>2. /\ GoodParser(ParsedAll(parser, t).parser)
          /\ ParsedAll(parser, Append(t, b)).parser = parse(ParsedAll(parser, t).parser, b).parser
          /\ ParsedAll(parser, Append(t, b)).out = parse(ParsedAll(parser, t).parser, b).out
      BY <3>1, ParsedMore
    <3> QED BY <2>1, <3>2 DEF t
  <2>5. /\ next.out = <<>> /\ next.parser.sysex = longer
        /\ next.parser.multi = FALSE /\ next.parser.active
    <3> DEFINE r == All(s).parser
    <3>1. /\ GoodParser(r) /\ r.active /\ Len(r.sysex) # size
          /\ r.sysex = s /\ r.multi = FALSE
      BY <2>3, <2>4
    <3> HIDE DEF r
    <3>2. /\ parse(r, b).out = <<>> /\ parse(r, b).parser.sysex = Append(r.sysex, b)
          /\ parse(r, b).parser.multi = r.multi /\ parse(r, b).parser.active
      BY <3>1, SysExAdds
    <3> QED BY <3>1, <3>2 DEF r
  <2> HIDE DEF next, longer, All
  <2> QED BY <2>4, <2>5
<1> HIDE DEF P
<1>3. data \in P
  BY <1>1, <1>2, SequencesFromEmpty
<1> QED BY <1>3 DEF P

\* The bytes behind a full packet of a SysEx, up to any that fits the next one:
\* the full packet leaves with the first.
LEMMA PieceFollows ==
  ASSUME NEW parser, GoodParser(parser), parser.active,
         Len(parser.sysex) = SYSEX7_DATA64_MAX_PAYLOAD_SIZE,
         NEW data \in Seq(Data), data # <<>>, Len(data) <= SYSEX7_DATA64_MAX_PAYLOAD_SIZE
  PROVE  LET all == ParsedAll(parser, data)
         IN /\ all.out = <<SysEx7(IF parser.multi THEN "Continue" ELSE "Start", parser.sysex)>>
            /\ all.parser.active /\ all.parser.multi = TRUE /\ all.parser.sysex = data
<1> DEFINE size == SYSEX7_DATA64_MAX_PAYLOAD_SIZE
           full == <<SysEx7(IF parser.multi THEN "Continue" ELSE "Start", parser.sysex)>>
           All(s) == ParsedAll(parser, s)
           Holds(s) == /\ All(s).out = full /\ All(s).parser.active /\ All(s).parser.multi = TRUE
                       /\ All(s).parser.sysex = s
           P == {s \in Seq(Data) : s # <<>> /\ Len(s) <= size => Holds(s)}
<1>0. Data \subseteq Bytes /\ size \in Nat \ {0}
  BY ByteKinds
<1>1. <<>> \in P
  BY EmptySeq
<1>2. ASSUME NEW s \in Seq(Data), NEW b \in Data, s \in P PROVE Append(s, b) \in P
  <2> DEFINE longer == Append(s, b)
  <2>1. /\ longer \in Seq(Data) /\ Len(longer) = Len(s) + 1 /\ Len(s) \in Nat
    BY AppendProperties, LenProperties
  <2> SUFFICES ASSUME Len(longer) <= size PROVE Holds(longer)
    BY <2>1
  <2>2. s \in Seq(Bytes) /\ b \in Bytes
    BY <1>0, SeqMonotonic
  <2> DEFINE next == parse(All(s).parser, b)
  <2>3. /\ GoodParser(All(s).parser)
        /\ All(longer).parser = next.parser
        /\ All(s).out = <<>> => All(longer).out = next.out
        /\ next.out = <<>> => All(longer).out = All(s).out
    BY <2>2, ParsedMore
  <2>4. CASE s = <<>>
    <3>1. All(s).parser = parser /\ All(s).out = <<>>
      BY <2>4, ParsedSteps, ParsedFields
    <3>2. /\ next.out = full /\ next.parser.sysex = <<b>>
          /\ next.parser.multi = TRUE /\ next.parser.active
      <4>1. next = parse(parser, b)
        BY <3>1
      <4> HIDE DEF next, All
      <4> QED BY <4>1, SysExGoesOn DEF full
    <3>3. longer = <<b>>
      BY <2>4
    <3> HIDE DEF next, longer, All, full
    <3> QED BY <2>3, <3>1, <3>2, <3>3
  <2>5. CASE s # <<>>
    <3>1. Holds(s) /\ Len(s) # size
      BY <1>0, <1>2, <2>1, <2>5
    <3>2. /\ next.out = <<>> /\ next.parser.sysex = longer
          /\ next.parser.multi = TRUE /\ next.parser.active
      <4>1. GoodParser(All(s).parser) /\ All(s).parser.active
            /\ Len(All(s).parser.sysex) # size /\ All(s).parser.sysex = s
            /\ All(s).parser.multi = TRUE
        BY <2>3, <3>1
      <4> DEFINE r == All(s).parser
      <4>2. /\ parse(r, b).out = <<>> /\ parse(r, b).parser.sysex = Append(r.sysex, b)
            /\ parse(r, b).parser.multi = r.multi /\ parse(r, b).parser.active
        <5> HIDE DEF r
        <5>1. GoodParser(r) /\ r.active /\ Len(r.sysex) # size
          BY <4>1 DEF r
        <5> QED BY <5>1, SysExAdds
      <4> QED BY <4>1, <4>2
    <3> HIDE DEF next, longer, All, full
    <3> QED BY <2>3, <3>1, <3>2
  <2> QED BY <2>4, <2>5
<1> HIDE DEF P
<1>3. data \in P
  BY <1>1, <1>2, SequencesFromEmpty
<1> QED BY <1>3 DEF P

\* The bytes of each kind of packet.
LEMMA BytesOf ==
  ASSUME NEW p \in WholePackets
  PROVE  /\ p.message # "sysex" => Midi1Bytes(p) = <<p.message>> \o p.data
         /\ p.part = "Complete" => Midi1Bytes(p) = Append(<<"sysex">> \o p.data, "sysex_end")
         /\ p.part = "Start" => Midi1Bytes(p) = <<"sysex">> \o p.data
         /\ p.part = "Continue" => Midi1Bytes(p) = p.data
         /\ p.part = "End" => Midi1Bytes(p) = Append(p.data, "sysex_end")
<1>1. p.data \in Seq(Data) /\ Data \subseteq Bytes
  BY WholeIs, ByteKinds
<1>2. p.data \in Seq(Bytes)
  BY <1>1, SeqMonotonic
<1>3. p.part \in SysEx7Statuses => p.message = "sysex"
  BY WholeIs
<1>4. CASE p.message # "sysex"
  <2>1. p.part \notin {"Complete", "Start", "Continue", "End"}
    BY <1>3, <1>4 DEF SysEx7Statuses
  <2> QED BY <1>4, <2>1 DEF Midi1Bytes
<1>5. CASE p.part = "Complete"
  <2>1. Midi1Bytes(p) = (<<"sysex">> \o p.data) \o <<"sysex_end">>
    BY <1>3, <1>5 DEF Midi1Bytes, sysex7_starts_message, sysex7_ends_message, SysEx7Statuses
  <2>2. <<"sysex">> \o p.data \in Seq(Bytes) /\ "sysex_end" \in Bytes
    BY <1>2, ByteKinds
  <2>3. Midi1Bytes(p) = Append(<<"sysex">> \o p.data, "sysex_end")
    BY <2>1, <2>2, AppendIsConcat
  <2> QED BY <1>3, <1>5, <2>3 DEF SysEx7Statuses
<1>6. CASE p.part = "Start"
  <2>1. Midi1Bytes(p) = (<<"sysex">> \o p.data) \o <<>>
    BY <1>3, <1>6 DEF Midi1Bytes, sysex7_starts_message, sysex7_ends_message, SysEx7Statuses
  <2>2. <<"sysex">> \o p.data \in Seq(Bytes)
    BY <1>2, ByteKinds
  <2>3. Midi1Bytes(p) = <<"sysex">> \o p.data
    BY <2>1, <2>2, ConcatEmptySeq
  <2> QED BY <1>3, <1>6, <2>3 DEF SysEx7Statuses
<1>7. CASE p.part = "Continue"
  <2>1. Midi1Bytes(p) = (<<>> \o p.data) \o <<>>
    BY <1>3, <1>7 DEF Midi1Bytes, sysex7_starts_message, sysex7_ends_message, SysEx7Statuses
  <2>2. Midi1Bytes(p) = p.data
    BY <1>2, <2>1, ConcatEmptySeq
  <2> QED BY <1>3, <1>7, <2>2 DEF SysEx7Statuses
<1>8. CASE p.part = "End"
  <2>1. Midi1Bytes(p) = (<<>> \o p.data) \o <<"sysex_end">>
    BY <1>3, <1>8 DEF Midi1Bytes, sysex7_starts_message, sysex7_ends_message, SysEx7Statuses
  <2>2. <<>> \o p.data = p.data /\ "sysex_end" \in Bytes
    BY <1>2, ConcatEmptySeq, ByteKinds
  <2>3. Midi1Bytes(p) = Append(p.data, "sysex_end")
    BY <1>2, <2>1, <2>2, AppendIsConcat
  <2> QED BY <1>3, <1>8, <2>3 DEF SysEx7Statuses
<1> QED BY <1>4, <1>5, <1>6, <1>7, <1>8, WholeIs DEF SysEx7Statuses

\* A packet has at least a byte, and no more than fit a Writings.
LEMMA BytesFit ==
  ASSUME NEW p \in WholePackets
  PROVE  /\ Midi1Bytes(p) \in Seq(Bytes) /\ Midi1Bytes(p) # <<>>
         /\ Len(Midi1Bytes(p)) \in Nat
         /\ Len(Midi1Bytes(p)) <= SYSEX7_DATA64_MAX_PAYLOAD_SIZE + 2
<1> DEFINE d == p.data
           size == SYSEX7_DATA64_MAX_PAYLOAD_SIZE
<1>1. /\ d \in Seq(Bytes) /\ d \in Seq(Data) /\ Len(d) \in Nat /\ size \in Nat \ {0}
      /\ "sysex" \in Bytes /\ "sysex_end" \in Bytes /\ Messages \subseteq Bytes
  <2>1. d \in Seq(Data) /\ Data \subseteq Bytes /\ Len(d) \in Nat
    BY WholeIs, ByteKinds
  <2> QED BY <2>1, SeqMonotonic, ByteKinds
<1>2. CASE p.message # "sysex"
  <2>1. p.message \in Messages /\ Len(d) + 1 <= 3
    BY <1>2, WholeIs, Sizes
  <2>2. Midi1Bytes(p) = <<p.message>> \o d
    BY <1>2, BytesOf
  <2>3. p.message \in Bytes
    BY <1>1, <2>1
  <2> HIDE DEF d
  <2> QED BY <1>1, <2>1, <2>2, <2>3
<1>3. CASE p.message = "sysex"
  <2>1. p.part \in SysEx7Statuses /\ Len(d) <= size /\ (p.part = "End" => d # <<>>)
        /\ (p.part = "Continue" => Len(d) = size)
    BY <1>3, WholeIs
  <2>2. \/ Midi1Bytes(p) = Append(<<"sysex">> \o d, "sysex_end")
        \/ Midi1Bytes(p) = <<"sysex">> \o d
        \/ Midi1Bytes(p) = d /\ Len(d) = size
        \/ Midi1Bytes(p) = Append(d, "sysex_end")
    BY <2>1, BytesOf DEF SysEx7Statuses
  <2> HIDE DEF d
  <2>3. /\ Append(<<"sysex">> \o d, "sysex_end") \in Seq(Bytes)
        /\ Len(Append(<<"sysex">> \o d, "sysex_end")) = Len(d) + 2
        /\ <<"sysex">> \o d \in Seq(Bytes) /\ Len(<<"sysex">> \o d) = Len(d) + 1
        /\ Append(d, "sysex_end") \in Seq(Bytes) /\ Len(Append(d, "sysex_end")) = Len(d) + 1
    BY <1>1
  <2>4. Midi1Bytes(p) \in Seq(Bytes)
    BY <1>1, <2>2, <2>3
  <2>5. Len(Midi1Bytes(p)) \in 1 .. size + 2
    BY <1>1, <2>1, <2>2, <2>3
  <2>6. Midi1Bytes(p) # <<>>
    BY <2>4, <2>5, EmptySeq
  <2> QED BY <2>4, <2>5, <2>6
<1> QED BY <1>2, <1>3

\* The beginnings of an element and a sequence behind it.
LEMMA Beginnings ==
  ASSUME NEW S, NEW x \in S, NEW d \in Seq(S), NEW n \in 1 .. Len(d) + 1
  PROVE  /\ SubSeq(<<x>> \o d, 1, n) = <<x>> \o SubSeq(d, 1, n - 1)
         /\ SubSeq(d, 1, n - 1) \in Seq(S) /\ Len(SubSeq(d, 1, n - 1)) = n - 1
<1> DEFINE s == <<x>> \o d
           e == SubSeq(d, 1, n - 1)
<1>1. /\ s \in Seq(S) /\ Len(s) = Len(d) + 1 /\ Len(d) \in Nat
      /\ \A i \in 1 .. Len(d) + 1 : s[i] = IF i = 1 THEN x ELSE d[i - 1]
  <2>1. <<x>> \in Seq(S) /\ Len(<<x>>) = 1 /\ <<x>>[1] = x /\ Len(d) \in Nat
    BY LenProperties
  <2>2. /\ s \in Seq(S) /\ Len(s) = 1 + Len(d)
        /\ \A i \in 1 .. 1 + Len(d) : s[i] = IF i <= 1 THEN <<x>>[i] ELSE d[i - 1]
    BY <2>1, ConcatProperties
  <2> QED BY <2>1, <2>2
<1>2. /\ e \in Seq(S) /\ Len(e) = n - 1 /\ \A i \in 1 .. n - 1 : e[i] = d[i]
  <2>1. \A i \in 1 .. n - 1 : d[i] \in S
    BY <1>1, ElementOfSeq
  <2>2. n - 1 \in Int
    BY <1>1
  <2>3. /\ e \in Seq(S) /\ Len(e) = IF 1 <= n - 1 THEN n - 1 - 1 + 1 ELSE 0
        /\ \A i \in 1 .. n - 1 - 1 + 1 : e[i] = d[1 + i - 1]
    BY <2>1, <2>2, SubSeqProperties
  <2> QED BY <1>1, <2>3
<1>3. /\ SubSeq(s, 1, n) \in Seq(S) /\ Len(SubSeq(s, 1, n)) = n
      /\ \A i \in 1 .. n : SubSeq(s, 1, n)[i] = s[i]
  <2>1. \A i \in 1 .. n : s[i] \in S
    BY <1>1, ElementOfSeq
  <2>2. n \in Int
    BY <1>1
  <2> HIDE DEF s
  <2>3. /\ SubSeq(s, 1, n) \in Seq(S) /\ Len(SubSeq(s, 1, n)) = IF 1 <= n THEN n - 1 + 1 ELSE 0
        /\ \A i \in 1 .. n - 1 + 1 : SubSeq(s, 1, n)[i] = s[1 + i - 1]
    BY <2>1, <2>2, SubSeqProperties
  <2> QED BY <1>1, <2>3
<1>4. /\ <<x>> \o e \in Seq(S) /\ Len(<<x>> \o e) = n
      /\ \A i \in 1 .. n : (<<x>> \o e)[i] = IF i = 1 THEN x ELSE e[i - 1]
  <2> HIDE DEF e
  <2>1. <<x>> \in Seq(S) /\ Len(<<x>>) = 1 /\ <<x>>[1] = x
    OBVIOUS
  <2>2. /\ <<x>> \o e \in Seq(S) /\ Len(<<x>> \o e) = 1 + Len(e)
        /\ \A i \in 1 .. 1 + Len(e) : (<<x>> \o e)[i] = IF i <= 1 THEN <<x>>[i] ELSE e[i - 1]
    BY <1>2, <2>1, ConcatProperties
  <2> QED BY <1>1, <1>2, <2>1, <2>2
<1> HIDE DEF s, e
<1>5. \A i \in 1 .. n : SubSeq(s, 1, n)[i] = (<<x>> \o e)[i]
  BY <1>1, <1>2, <1>3, <1>4
<1>6. SubSeq(s, 1, n) = <<x>> \o e
  BY <1>3, <1>4, <1>5, SeqEqual
<1> QED BY <1>2, <1>6 DEF s, e

\* A packet that does not go on with a SysEx arrives with its last byte.
LEMMA NothingEarly ==
  ASSUME NEW parser, GoodParser(parser), NEW p \in WholePackets, ~Continues(p),
         NEW n \in 0 .. Len(Midi1Bytes(p)) - 1
  PROVE  ParsedAll(parser, SubSeq(Midi1Bytes(p), 1, n)).out = <<>>
<1> DEFINE d == p.data
<1>1. d \in Seq(Data) /\ d \in Seq(Bytes) /\ Len(d) \in Nat /\ "sysex" \in Bytes
      /\ "sysex_end" \in Bytes
  <2>1. d \in Seq(Data) /\ Data \subseteq Bytes /\ Len(d) \in Nat
    BY WholeIs, ByteKinds
  <2> QED BY <2>1, SeqMonotonic, ByteKinds
<1>2. CASE n = 0
  <2>1. SubSeq(Midi1Bytes(p), 1, n) = <<>>
    BY <1>2, SubSeqEmpty
  <2>2. ParsedAll(parser, <<>>) = Parsed(parser, <<>>)
    BY ParsedSteps
  <2>3. ParsedAll(parser, <<>>).out = <<>>
    BY <2>2, ParsedFields
  <2> QED BY <2>1, <2>3
<1>3. CASE n # 0 /\ p.message # "sysex"
  <2>1. /\ Midi1Bytes(p) = <<p.message>> \o d /\ p.message \in Messages
        /\ Len(d) + 1 = expected_size(p.message)
    BY <1>3, BytesOf, WholeIs
  <2>2. Len(Midi1Bytes(p)) = Len(d) + 1
    BY <1>1, <2>1
  <2>3. n \in 1 .. Len(d) + 1 /\ n < Len(d) + 1
    BY <1>1, <1>3, <2>2
  <2> DEFINE e == SubSeq(d, 1, n - 1)
  <2>4. e \in Seq(Data) /\ Len(e) = n - 1
    <3>1. \A i \in 1 .. n - 1 : d[i] \in Data
      BY <1>1, <2>3, ElementOfSeq
    <3>2. n - 1 \in Int
      BY <2>3
    <3>3. e \in Seq(Data) /\ Len(e) = IF 1 <= n - 1 THEN n - 1 - 1 + 1 ELSE 0
      BY <3>1, <3>2, SubSeqProperties
    <3> QED BY <2>3, <3>3
  <2>5. SubSeq(Midi1Bytes(p), 1, n) = <<p.message>> \o e
    <3>1. p.message \in Bytes
      BY <2>1, ByteKinds
    <3> QED BY <1>1, <2>1, <2>3, <3>1, Beginnings
  <2>6. Len(e) + 1 < expected_size(p.message) /\ Len(e) + 1 <= expected_size(p.message)
    BY <1>1, <2>1, <2>3, <2>4
  <2> HIDE DEF e
  <2>7. ParsedAll(parser, <<p.message>> \o e).out = <<>>
    BY <2>1, <2>4, <2>6, MessageParsed
  <2> QED BY <2>5, <2>7
<1>4. CASE n # 0 /\ p.message = "sysex"
  <2>1. /\ p.part \in {"Complete", "Start"}
        /\ Len(d) <= SYSEX7_DATA64_MAX_PAYLOAD_SIZE
    BY <1>4, WholeIs DEF SysEx7Statuses, Continues
  <2> DEFINE s == <<"sysex">> \o d
  <2>2. s \in Seq(Bytes) /\ Len(s) = Len(d) + 1
    BY <1>1
  <2>3. n \in 1 .. Len(d) + 1 /\ SubSeq(Midi1Bytes(p), 1, n) = SubSeq(s, 1, n)
    <3>1. CASE p.part = "Start"
      <4>1. Midi1Bytes(p) = s
        BY <3>1, BytesOf
      <4> QED BY <1>1, <1>4, <2>2, <4>1
    <3>2. CASE p.part = "Complete"
      <4>1. Midi1Bytes(p) = Append(s, "sysex_end")
        BY <3>2, BytesOf
      <4> HIDE DEF s
      <4>2. Midi1Bytes(p) = s \o <<"sysex_end">> /\ <<"sysex_end">> \in Seq(Bytes)
            /\ Len(Midi1Bytes(p)) = Len(s) + 1
        BY <1>1, <2>2, <4>1, AppendIsConcat
      <4>3. n \in 1 .. Len(s) /\ 1 \in 1 .. Len(s)
        BY <1>1, <1>4, <2>2, <4>2
      <4>4. SubSeq(s \o <<"sysex_end">>, 1, n) = SubSeq(s, 1, n)
        BY <2>2, <4>2, <4>3, SubSeqOfConcat1
      <4> QED BY <2>2, <4>2, <4>3, <4>4
    <3> QED BY <2>1, <3>1, <3>2
  <2> DEFINE e == SubSeq(d, 1, n - 1)
  <2>4. e \in Seq(Data) /\ Len(e) = n - 1
    <3>1. \A i \in 1 .. n - 1 : d[i] \in Data
      BY <1>1, <2>3, ElementOfSeq
    <3>2. n - 1 \in Int
      BY <2>3
    <3>3. e \in Seq(Data) /\ Len(e) = IF 1 <= n - 1 THEN n - 1 - 1 + 1 ELSE 0
      BY <3>1, <3>2, SubSeqProperties
    <3> QED BY <2>3, <3>3
  <2>5. SubSeq(s, 1, n) = <<"sysex">> \o e
    BY <1>1, <2>3, Beginnings
  <2>6. Len(e) <= SYSEX7_DATA64_MAX_PAYLOAD_SIZE
    BY <1>1, <2>1, <2>3, <2>4, ByteKinds
  <2> HIDE DEF e, s
  <2>7. ParsedAll(parser, <<"sysex">> \o e).out = <<>>
    BY <2>4, <2>6, PieceStarts
  <2> QED BY <2>3, <2>5, <2>7
<1> QED BY <1>2, <1>3, <1>4

\* A SysEx is half sent after w.
OpenIn(w) == w # <<>> /\ Last(w).part \in {"Start", "Continue"}

\* Where a receiver stands that has read the bytes of w: the last packet of a
\* SysEx that goes on is still in its parser.
Settled(parser, packets, w) ==
  IF OpenIn(w)
  THEN /\ packets = Front(w) /\ parser.active /\ parser.sysex = Last(w).data
       /\ parser.multi <=> Last(w).part = "Continue"
  ELSE packets = w

\* The bytes of a SysEx that goes on bring the packet before, and then this one
\* when it is the last.
LEMMA ContinuedArrives ==
  ASSUME NEW parser, GoodParser(parser), NEW w \in Seq(WholePackets), OpenIn(w),
         parser.active, parser.sysex = Last(w).data,
         parser.multi <=> Last(w).part = "Continue",
         NEW p \in WholePackets, Continues(p)
  PROVE  LET all == ParsedAll(parser, Midi1Bytes(p))
         IN IF p.part = "End" THEN all.out = <<Last(w)>> \o <<p>>
            ELSE /\ all.out = <<Last(w)>> /\ all.parser.active /\ all.parser.multi = TRUE
                 /\ all.parser.sysex = p.data
<1> DEFINE d == p.data
           size == SYSEX7_DATA64_MAX_PAYLOAD_SIZE
           begun == Last(w)
<1>1. begun \in WholePackets /\ begun.part \in {"Start", "Continue"}
  BY FrontAndLast DEF OpenIn
<1>2. /\ begun.message = "sysex" /\ begun = SysEx7(begun.part, begun.data)
      /\ Len(begun.data) = size
  <2> HIDE DEF begun
  <2>1. begun.part \in SysEx7Statuses
    BY <1>1 DEF SysEx7Statuses
  <2> QED BY <1>1, <2>1, WholeIs
<1>3. SysEx7(IF parser.multi THEN "Continue" ELSE "Start", parser.sysex) = begun
  BY <1>1, <1>2
<1>4. /\ d \in Seq(Data) /\ d \in Seq(Bytes) /\ Len(d) <= size /\ d # <<>>
      /\ p.part \in {"Continue", "End"} /\ p = SysEx7(p.part, d) /\ "sysex_end" \in Bytes
  <2>1. p.part \in {"Continue", "End"} /\ p.part \in SysEx7Statuses
    BY DEF Continues, SysEx7Statuses
  <2>2. d \in Seq(Data) /\ Data \subseteq Bytes /\ size # 0
    BY WholeIs, ByteKinds
  <2>3. d \in Seq(Bytes)
    BY <2>2, SeqMonotonic
  <2>4. d # <<>>
    BY <2>1, <2>2, WholeIs, EmptySeq
  <2> QED BY <2>1, <2>2, <2>3, <2>4, WholeIs, ByteKinds
<1> DEFINE read == ParsedAll(parser, d)
<1>5. /\ read.out = <<begun>> /\ read.parser.active /\ read.parser.multi = TRUE
      /\ read.parser.sysex = d
  <2> HIDE DEF d, begun
  <2>1. Len(parser.sysex) = size
    BY <1>2 DEF begun
  <2>2. /\ read.out = <<SysEx7(IF parser.multi THEN "Continue" ELSE "Start", parser.sysex)>>
        /\ read.parser.active /\ read.parser.multi = TRUE /\ read.parser.sysex = d
    <3> DEFINE full == <<SysEx7(IF parser.multi THEN "Continue" ELSE "Start", parser.sysex)>>
    <3> SUFFICES /\ read.out = full
                 /\ read.parser.active /\ read.parser.multi = TRUE /\ read.parser.sysex = d
      OBVIOUS
    <3>1. d \in Seq(Data) /\ d # <<>> /\ Len(d) <= size
      BY <1>4
    <3>2. ASSUME NEW s \in Seq(Data), s # <<>>, Len(s) <= size
          PROVE  /\ ParsedAll(parser, s).out = full
                 /\ ParsedAll(parser, s).parser.active
                 /\ ParsedAll(parser, s).parser.multi = TRUE
                 /\ ParsedAll(parser, s).parser.sysex = s
      BY <2>1, <3>2, PieceFollows
    <3> QED BY <3>1, <3>2
  <2> QED BY <1>3, <2>2
<1>6. CASE p.part = "Continue"
  <2>1. Midi1Bytes(p) = d
    BY <1>6, BytesOf
  <2> QED BY <1>5, <1>6, <2>1
<1>7. CASE p.part = "End"
  <2>1. Midi1Bytes(p) = Append(d, "sysex_end")
    BY <1>7, BytesOf
  <2>2. GoodParser(read.parser)
    BY <1>4, ParsedIsGood
  <2>3. parse(read.parser, "sysex_end").out = <<p>>
    <3> HIDE DEF read
    <3>1. parse(read.parser, "sysex_end").out = <<SysEx7("End", d)>>
      BY <1>5, <2>2, SysExEnds
    <3> QED BY <1>4, <1>7, <3>1
  <2>4. ParsedAll(parser, Append(d, "sysex_end")).out
          = read.out \o parse(read.parser, "sysex_end").out
    BY <1>4, ParsedMore
  <2>5. ParsedAll(parser, Append(d, "sysex_end")).out = <<begun>> \o <<p>>
    <3> HIDE DEF read, begun, d
    <3> QED BY <1>5, <2>3, <2>4
  <2> QED BY <1>7, <2>1, <2>5
<1> QED BY <1>4, <1>6, <1>7

\* A packet that goes on with nothing arrives whatever was before it.
LEMMA StartedArrives ==
  ASSUME NEW parser, GoodParser(parser), NEW p \in WholePackets, ~Continues(p)
  PROVE  LET all == ParsedAll(parser, Midi1Bytes(p))
         IN IF p.part = "Start"
            THEN /\ all.out = <<>> /\ all.parser.active /\ all.parser.multi = FALSE
                 /\ all.parser.sysex = p.data
            ELSE all.out = <<p>>
<1> DEFINE d == p.data
<1>1. /\ d \in Seq(Data) /\ d \in Seq(Bytes) /\ Len(d) \in Nat
      /\ "sysex" \in Bytes /\ "sysex_end" \in Bytes
  <2>1. d \in Seq(Data) /\ Data \subseteq Bytes /\ Len(d) \in Nat
    BY WholeIs, ByteKinds
  <2> QED BY <2>1, SeqMonotonic, ByteKinds
<1>2. CASE p.message # "sysex"
  <2>1. /\ p.message \in Messages /\ Len(d) + 1 = expected_size(p.message)
        /\ p = [message |-> p.message, data |-> d, part |-> "none"] /\ p.part = "none"
        /\ Midi1Bytes(p) = <<p.message>> \o d
    BY <1>2, BytesOf, WholeIs
  <2>2. Len(d) + 1 <= expected_size(p.message) /\ ~(Len(d) + 1 < expected_size(p.message))
    BY <1>1, <2>1
  <2> DEFINE m == p.message
  <2>3. ParsedAll(parser, <<m>> \o d).out = <<[message |-> m, data |-> d, part |-> "none"]>>
    <3> HIDE DEF m, d
    <3> QED BY <1>1, <2>1, <2>2, MessageParsed DEF m
  <2> QED BY <2>1, <2>3
<1>3. CASE p.message = "sysex"
  <2> DEFINE s == <<"sysex">> \o d
             read == ParsedAll(parser, s)
  <2>1. /\ p.part \in {"Complete", "Start"} /\ p = SysEx7(p.part, d)
        /\ Len(d) <= SYSEX7_DATA64_MAX_PAYLOAD_SIZE
    BY <1>3, WholeIs DEF SysEx7Statuses, Continues
  <2>2. s \in Seq(Bytes)
    BY <1>1
  <2>3. /\ read.out = <<>> /\ read.parser.active /\ read.parser.multi = FALSE
        /\ read.parser.sysex = d
    <3> HIDE DEF d
    <3> QED BY <1>1, <2>1, PieceStarts
  <2>4. CASE p.part = "Start"
    <3>1. Midi1Bytes(p) = s
      BY <2>4, BytesOf
    <3> QED BY <2>3, <2>4, <3>1
  <2>5. CASE p.part = "Complete"
    <3>1. Midi1Bytes(p) = Append(s, "sysex_end")
      BY <2>5, BytesOf
    <3> HIDE DEF s
    <3>2. GoodParser(read.parser)
      BY <2>2, ParsedIsGood
    <3>3. ParsedAll(parser, Append(s, "sysex_end")).out
            = parse(read.parser, "sysex_end").out
      BY <1>1, <2>2, <2>3, ParsedMore
    <3> HIDE DEF read
    <3>4. parse(read.parser, "sysex_end").out = <<SysEx7("Complete", d)>>
      BY <2>3, <3>2, SysExEnds
    <3> QED BY <2>1, <2>5, <3>1, <3>3, <3>4
  <2> QED BY <2>1, <2>4, <2>5
<1> QED BY <1>2, <1>3

\* A packet that goes on where the last one left off arrives.
LEMMA PacketArrives ==
  ASSUME NEW parser, GoodParser(parser), NEW w \in Seq(WholePackets), NEW packets,
         Settled(parser, packets, w), NEW p \in WholePackets, Continues(p) = OpenIn(w)
  PROVE  LET all == ParsedAll(parser, Midi1Bytes(p))
         IN Settled(all.parser, packets \o all.out, Append(w, p))
<1> DEFINE all == ParsedAll(parser, Midi1Bytes(p))
           longer == Append(w, p)
<1> SUFFICES Settled(all.parser, packets \o all.out, longer)
  OBVIOUS
<1>1. /\ longer # <<>> /\ Front(longer) = w /\ Last(longer) = p /\ longer = w \o <<p>>
  <2>1. longer # <<>> /\ Front(longer) = w /\ Last(longer) = p
    BY LastAppended
  <2>2. Append(w, p) = w \o <<p>>
    BY AppendIsConcat
  <2> QED BY <2>1, <2>2
<1>2. OpenIn(longer) <=> p.part \in {"Start", "Continue"}
  BY <1>1 DEF OpenIn
<1>3. CASE OpenIn(w)
  <2>1. /\ packets = Front(w) /\ parser.active /\ parser.sysex = Last(w).data
        /\ parser.multi <=> Last(w).part = "Continue"
    BY <1>3 DEF Settled
  <2>2. Continues(p)
    BY <1>3
  <2>3. Front(w) \in Seq(WholePackets) /\ Last(w) \in WholePackets
        /\ w = Append(Front(w), Last(w))
    BY <1>3, FrontAndLast DEF OpenIn
  <2>4. IF p.part = "End" THEN all.out = <<Last(w)>> \o <<p>>
        ELSE /\ all.out = <<Last(w)>> /\ all.parser.active /\ all.parser.multi = TRUE
             /\ all.parser.sysex = p.data
    BY <1>3, <2>1, <2>2, ContinuedArrives
  <2> HIDE DEF all, longer
  <2>5. CASE p.part = "End"
    <3>1. packets \o all.out = Front(w) \o (<<Last(w)>> \o <<p>>)
      BY <2>1, <2>4, <2>5
    <3>2. Front(w) \o (<<Last(w)>> \o <<p>>) = Append(Append(Front(w), Last(w)), p)
      <4> DEFINE f == Front(w)
                 x == Last(w)
      <4>1. f \in Seq(WholePackets) /\ x \in WholePackets
        BY <2>3
      <4> HIDE DEF f, x
      <4>2. /\ <<x>> \in Seq(WholePackets) /\ <<p>> \in Seq(WholePackets)
            /\ Append(f, x) \in Seq(WholePackets)
            /\ Append(f, x) = f \o <<x>> /\ Append(Append(f, x), p) = Append(f, x) \o <<p>>
        BY <4>1, AppendIsConcat, AppendProperties
      <4>3. (f \o <<x>>) \o <<p>> = f \o (<<x>> \o <<p>>)
        BY <4>1, <4>2, ConcatAssociative
      <4> QED BY <4>2, <4>3 DEF f, x
    <3>3. ~OpenIn(longer)
      BY <1>2, <2>5
    <3> QED BY <2>3, <3>1, <3>2, <3>3 DEF Settled, longer
  <2>6. CASE p.part # "End"
    <3>1. p.part = "Continue"
      BY <2>2, <2>6 DEF Continues
    <3>2. packets \o all.out = Append(Front(w), Last(w))
      BY <2>1, <2>3, <2>4, <2>6, AppendIsConcat
    <3>3. packets \o all.out = Front(longer)
      BY <1>1, <2>3, <3>2
    <3> QED BY <1>1, <1>2, <2>4, <2>6, <3>1, <3>3 DEF Settled
  <2> QED BY <2>5, <2>6
<1>4. CASE ~OpenIn(w)
  <2>1. packets = w /\ ~Continues(p)
    BY <1>4 DEF Settled
  <2>2. IF p.part = "Start"
        THEN /\ all.out = <<>> /\ all.parser.active /\ all.parser.multi = FALSE
             /\ all.parser.sysex = p.data
        ELSE all.out = <<p>>
    BY <2>1, StartedArrives
  <2> HIDE DEF all, longer
  <2>3. CASE p.part = "Start"
    <3>1. packets \o all.out = w
      BY <2>1, <2>2, <2>3, ConcatEmptySeq
    <3> QED BY <1>1, <1>2, <2>2, <2>3, <3>1 DEF Settled
  <2>4. CASE p.part # "Start"
    <3>1. ~OpenIn(longer)
      BY <1>2, <2>1, <2>4 DEF Continues
    <3> QED BY <1>1, <2>1, <2>2, <2>4, <3>1 DEF Settled
  <2> QED BY <2>3, <2>4
<1> QED BY <1>3, <1>4

\* What write_ump_as_midi1_bytes() writes of n packets, one after the other,
\* parse() of Midi1ByteToUmpParser reads back, whatever it has read before: all
\* of them, or all but the last when a SysEx goes on behind it.  A packet goes
\* on with a SysEx if and only if the one in front of it left it open.
THEOREM RoundTrip ==
  ASSUME NEW parser, GoodParser(parser), NEW n \in Nat, NEW packets, NEW bytes,
         packets[0] = <<>>, bytes[0] = <<>>,
         \A i \in 0 .. n - 1 : \E p \in WholePackets :
           /\ Continues(p) = OpenIn(packets[i])
           /\ packets[i + 1] = Append(packets[i], p)
           /\ bytes[i + 1] = bytes[i] \o Midi1Bytes(p)
  PROVE  ParsedAll(parser, bytes[n]).out
           = IF OpenIn(packets[n]) THEN Front(packets[n]) ELSE packets[n]
<1> DEFINE Read(i) == ParsedAll(parser, bytes[i])
           Holds(i) == /\ packets[i] \in Seq(WholePackets) /\ bytes[i] \in Seq(Bytes)
                       /\ Settled(Read(i).parser, Read(i).out, packets[i])
           P == {i \in Nat : i <= n => Holds(i)}
<1>1. 0 \in P
  <2>1. Read(0).out = <<>>
    BY ParsedSteps, ParsedFields
  <2>2. ~OpenIn(packets[0])
    BY DEF OpenIn
  <2>3. <<>> \in Seq(WholePackets) /\ <<>> \in Seq(Bytes)
    BY EmptySeq
  <2> QED BY <2>1, <2>2, <2>3 DEF Settled
<1>2. ASSUME NEW i \in Nat, i \in P PROVE i + 1 \in P
  <2> SUFFICES ASSUME i + 1 <= n PROVE Holds(i + 1)
    OBVIOUS
  <2>1. i \in 0 .. n - 1 /\ Holds(i)
    BY <1>2
  <2>2. PICK p \in WholePackets :
          /\ Continues(p) = OpenIn(packets[i])
          /\ packets[i + 1] = Append(packets[i], p)
          /\ bytes[i + 1] = bytes[i] \o Midi1Bytes(p)
    BY <2>1
  <2> DEFINE before == Read(i)
             all == ParsedAll(before.parser, Midi1Bytes(p))
             out == before.out \o all.out
  <2>3. Midi1Bytes(p) \in Seq(Bytes)
    BY BytesFit
  <2>4. GoodParser(before.parser)
    BY <2>1, ParsedIsGood
  <2>5. Read(i + 1) = Parsed(all.parser, out)
    BY <2>1, <2>2, <2>3, ParsedConcat
  <2>6. Settled(all.parser, out, Append(packets[i], p))
    <3>1. Settled(before.parser, before.out, packets[i])
      BY <2>1
    <3> HIDE DEF before
    <3> QED BY <2>1, <2>2, <2>4, <3>1, PacketArrives
  <2>7. packets[i + 1] \in Seq(WholePackets) /\ bytes[i + 1] \in Seq(Bytes)
    <3>1. bytes[i] \o Midi1Bytes(p) \in Seq(Bytes)
      BY <2>1, <2>3, ConcatProperties
    <3> QED BY <2>1, <2>2, <3>1, AppendProperties
  <2> HIDE DEF before, all, out, Read
  <2>8. Read(i + 1).parser = all.parser /\ Read(i + 1).out = out
    BY <2>5, ParsedFields
  <2> QED BY <2>2, <2>6, <2>7, <2>8
<1> HIDE DEF P
<1>3. n \in P
  BY <1>1, <1>2, NumbersFrom0
<1>4. Holds(n)
  <2> HIDE DEF Holds
  <2> QED BY <1>3 DEF P
<1> QED BY <1>4 DEF Settled

-----------------------------------------------------------------------------
(* The ring buffer as a queue.                                               *)

\* The bytes a ring buffer holds, oldest first: how many, and in which slots.
CountOf(head, tail, capacity) ==
  IF head >= tail THEN head - tail ELSE head - tail + capacity + 1
\* The slot of the i-th of them.
Nth(tail, capacity, i) ==
  IF tail + i > capacity THEN tail + i - capacity - 1 ELSE tail + i

\* The same of a ring buffer, and its bytes in order.
Count(ring, capacity) == CountOf(ring.head, ring.tail, capacity)
SlotAt(ring, capacity, i) == Nth(ring.tail, capacity, i)
Content(ring, capacity) ==
  [i \in 1 .. Count(ring, capacity) |-> ring.cells[SlotAt(ring, capacity, i)]]

\* The slots in use go from behind the tail to the head; moving the tail frees
\* the first of them, and moving the head adds one behind the last.
LEMMA Counting ==
  ASSUME NEW capacity \in Nat \ {0}, NEW head \in 0 .. capacity, NEW tail \in 0 .. capacity
  PROVE  /\ CountOf(head, tail, capacity) \in 0 .. capacity
         /\ CountOf(head, tail, capacity) = 0 <=> head = tail
         /\ \A i \in 1 .. CountOf(head, tail, capacity) : Nth(tail, capacity, i) \in 0 .. capacity
BY DEF CountOf, Nth

\* The tail moves on: one byte less, and the second is now the first.
LEMMA CountingLess ==
  ASSUME NEW capacity \in Nat \ {0}, NEW head \in 0 .. capacity, NEW tail \in 0 .. capacity,
         NEW next, next = (IF tail = capacity THEN 0 ELSE tail + 1), head # tail
  PROVE  /\ CountOf(head, next, capacity) = CountOf(head, tail, capacity) - 1
         /\ Nth(tail, capacity, 1) = next
         /\ \A i \in 1 .. CountOf(head, next, capacity) :
              Nth(next, capacity, i) = Nth(tail, capacity, i + 1)
BY DEF CountOf, Nth

\* The head moves on: one byte more, in a slot that was none of theirs.
LEMMA CountingMore ==
  ASSUME NEW capacity \in Nat \ {0}, NEW head \in 0 .. capacity, NEW tail \in 0 .. capacity,
         NEW next, next = (IF head = capacity THEN 0 ELSE head + 1), next # tail
  PROVE  /\ CountOf(next, tail, capacity) = CountOf(head, tail, capacity) + 1
         /\ Nth(tail, capacity, CountOf(head, tail, capacity) + 1) = next
         /\ \A i \in 1 .. CountOf(head, tail, capacity) : Nth(tail, capacity, i) # next
BY DEF CountOf, Nth

\* The slot behind the last one is the first (ring_buffer.h takes the remainder).
LEMMA SlotsGoRound ==
  ASSUME NEW capacity \in Nat \ {0}, NEW ring \in Rings(capacity), NEW i \in 0 .. capacity
  PROVE  /\ NextSlot(ring, i) = IF i = capacity THEN 0 ELSE i + 1
         /\ NextSlot(ring, i) \in 0 .. capacity
<1>1. DOMAIN ring.cells = 0 .. capacity
  BY DEF Rings
<1>2. Cardinality(0 .. capacity) = capacity + 1
  BY FS_Interval
<1>3. CASE i = capacity
  <2>1. (i + 1) % (capacity + 1) = 0
    BY <1>3
  <2> QED BY <1>1, <1>2, <1>3, <2>1 DEF NextSlot
<1>4. CASE i # capacity
  <2>1. (i + 1) % (capacity + 1) = i + 1
    BY <1>4
  <2> QED BY <1>1, <1>2, <1>4, <2>1 DEF NextSlot
<1> QED BY <1>3, <1>4

\* What a ring buffer holds is a sequence of bytes, empty when head = tail.
LEMMA ContentIs ==
  ASSUME NEW capacity \in Nat \ {0}, NEW ring \in Rings(capacity)
  PROVE  /\ Content(ring, capacity) \in Seq(Bytes)
         /\ Len(Content(ring, capacity)) = Count(ring, capacity)
         /\ Count(ring, capacity) \in 0 .. capacity
         /\ is_empty(ring) <=> Content(ring, capacity) = <<>>
         /\ \A i \in 1 .. Count(ring, capacity) :
              /\ SlotAt(ring, capacity, i) \in 0 .. capacity
              /\ Content(ring, capacity)[i] = ring.cells[SlotAt(ring, capacity, i)]
<1>1. /\ ring.head \in 0 .. capacity /\ ring.tail \in 0 .. capacity
      /\ ring.cells \in [0 .. capacity -> Bytes]
  BY DEF Rings
<1>2. Count(ring, capacity) \in 0 .. capacity /\ (Count(ring, capacity) = 0 <=> ring.head = ring.tail)
  <2> DEFINE head == ring.head
             tail == ring.tail
             n == CountOf(head, tail, capacity)
  <2>1. head \in 0 .. capacity /\ tail \in 0 .. capacity
    BY <1>1
  <2>2. Count(ring, capacity) = n
    BY DEF Count
  <2> HIDE DEF head, tail
  <2>3. n \in 0 .. capacity /\ (n = 0 <=> head = tail)
    BY <2>1, Counting
  <2> QED BY <2>2, <2>3 DEF head, tail
<1>3. \A i \in 1 .. Count(ring, capacity) : SlotAt(ring, capacity, i) \in 0 .. capacity
  BY <1>1, Counting DEF Count, SlotAt
<1>4. Content(ring, capacity) \in [1 .. Count(ring, capacity) -> Bytes]
  BY <1>1, <1>3 DEF Content
<1>5. /\ Content(ring, capacity) \in Seq(Bytes)
      /\ Len(Content(ring, capacity)) = Count(ring, capacity)
  BY <1>2, <1>4, IsASeq, LenProperties
<1>6. is_empty(ring) <=> Content(ring, capacity) = <<>>
  BY <1>2, <1>5, EmptySeq DEF is_empty
<1> QED BY <1>2, <1>3, <1>5, <1>6 DEF Content

\* remove() takes the byte peek() returns.
LEMMA RemoveTakesFirst ==
  ASSUME NEW capacity \in Nat \ {0}, NEW ring \in Rings(capacity), ~is_empty(ring)
  PROVE  /\ remove(ring) \in Rings(capacity)
         /\ peek(ring) \in Bytes
         /\ Content(ring, capacity) # <<>>
         /\ Head(Content(ring, capacity)) = peek(ring)
         /\ Content(remove(ring), capacity) = Tail(Content(ring, capacity))
<1> DEFINE next == NextSlot(ring, ring.tail)
           less == remove(ring)
           c == Content(ring, capacity)
<1>1. /\ ring.head \in 0 .. capacity /\ ring.tail \in 0 .. capacity
      /\ ring.cells \in [0 .. capacity -> Bytes] /\ ring.head # ring.tail
  BY DEF Rings, is_empty
<1>2. next = (IF ring.tail = capacity THEN 0 ELSE ring.tail + 1) /\ next \in 0 .. capacity
  BY <1>1, SlotsGoRound
<1>3. less \in Rings(capacity) /\ less.head = ring.head /\ less.tail = next
      /\ less.cells = ring.cells
  BY <1>1, <1>2 DEF Rings, remove
<1>4. peek(ring) = ring.cells[next] /\ peek(ring) \in Bytes
  BY <1>1, <1>2 DEF peek
<1>5. /\ Count(ring, capacity) \in Nat /\ Count(ring, capacity) >= 1
      /\ Count(less, capacity) = Count(ring, capacity) - 1
      /\ SlotAt(ring, capacity, 1) = next
      /\ \A i \in 1 .. Count(less, capacity) :
           SlotAt(less, capacity, i) = SlotAt(ring, capacity, i + 1)
  <2> DEFINE head == ring.head
             tail == ring.tail
             n == CountOf(head, tail, capacity)
             m == CountOf(head, next, capacity)
  <2> HIDE DEF next
  <2>1. head \in 0 .. capacity /\ tail \in 0 .. capacity /\ head # tail
        /\ next = (IF tail = capacity THEN 0 ELSE tail + 1)
    BY <1>1, <1>2
  <2> HIDE DEF head, tail
  <2>2. /\ n \in 0 .. capacity /\ n # 0 /\ m = n - 1 /\ Nth(tail, capacity, 1) = next
        /\ \A i \in 1 .. m : Nth(next, capacity, i) = Nth(tail, capacity, i + 1)
    <3>1. n \in 0 .. capacity /\ n # 0
      BY <2>1, Counting
    <3>2. m = n - 1
      BY <2>1, CountingLess
    <3>3. Nth(tail, capacity, 1) = next
      BY <2>1, CountingLess
    <3>4. \A i \in 1 .. m : Nth(next, capacity, i) = Nth(tail, capacity, i + 1)
      BY <2>1, CountingLess
    <3> QED BY <3>1, <3>2, <3>3, <3>4
  <2>3. Count(ring, capacity) = n /\ Count(less, capacity) = m
    BY <1>3 DEF Count, head, tail
  <2>4. \A i : SlotAt(ring, capacity, i) = Nth(tail, capacity, i)
               /\ SlotAt(less, capacity, i) = Nth(next, capacity, i)
    BY <1>3 DEF SlotAt, tail
  <2> HIDE DEF n, m, less
  <2> QED BY <2>2, <2>3, <2>4
<1>6. \A i \in 1 .. Count(less, capacity) :
        SlotAt(less, capacity, i) = SlotAt(ring, capacity, i + 1)
  BY <1>5
<1>7. /\ c \in Seq(Bytes) /\ Len(c) = Count(ring, capacity) /\ c # <<>>
      /\ \A i \in 1 .. Count(ring, capacity) : c[i] = ring.cells[SlotAt(ring, capacity, i)]
  <2>1. c \in Seq(Bytes) /\ Len(c) = Count(ring, capacity) /\ c # <<>>
    BY ContentIs
  <2> QED BY <2>1, ContentIs
<1>8. Head(c) = peek(ring)
  <2>1. Head(c) = c[1] /\ 1 \in 1 .. Count(ring, capacity)
    BY <1>5, <1>7
  <2> QED BY <1>4, <1>5, <1>7, <2>1
<1>9. Content(less, capacity) = Tail(c)
  <2> DEFINE l == Content(less, capacity)
  <2> HIDE DEF less
  <2>1. /\ l \in Seq(Bytes) /\ Len(l) = Count(less, capacity)
        /\ \A i \in 1 .. Count(less, capacity) : l[i] = less.cells[SlotAt(less, capacity, i)]
    BY <1>3, ContentIs
  <2> HIDE DEF l, c
  <2>2. /\ Tail(c) \in Seq(Bytes) /\ Len(Tail(c)) = Len(c) - 1
        /\ \A i \in 1 .. Len(Tail(c)) : Tail(c)[i] = c[i + 1]
    BY <1>7, HeadTailProperties
  <2>3. \A i \in 1 .. Len(l) : l[i] = Tail(c)[i]
    <3> SUFFICES ASSUME NEW i \in 1 .. Len(l) PROVE l[i] = Tail(c)[i]
      OBVIOUS
    <3>1. i \in 1 .. Count(less, capacity) /\ i \in 1 .. Len(Tail(c))
          /\ i + 1 \in 1 .. Count(ring, capacity)
      BY <1>5, <1>7, <2>1, <2>2
    <3>2. l[i] = ring.cells[SlotAt(ring, capacity, i + 1)]
      BY <1>3, <1>6, <2>1, <3>1
    <3> QED BY <1>7, <2>2, <3>1, <3>2
  <2>4. l = Tail(c)
    BY <1>5, <1>7, <2>1, <2>2, <2>3, SeqEqual
  <2> QED BY <2>4 DEF l
<1> QED BY <1>3, <1>4, <1>7, <1>8, <1>9

\* A byte put into the free slot is not seen before the head moves there.
LEMMA PutIsUnseen ==
  ASSUME NEW capacity \in Nat \ {0}, NEW ring \in Rings(capacity), NEW b \in Bytes,
         NEW slot \in 0 .. capacity
  PROVE  LET after == [ring EXCEPT !.cells[slot] = b]
         IN /\ after \in Rings(capacity)
            /\ after.head = ring.head /\ after.tail = ring.tail
            /\ after.cells[slot] = b
            /\ NextSlot(after, after.head) = NextSlot(ring, ring.head)
            /\ slot = NextSlot(ring, ring.head) /\ slot # ring.tail =>
                 Content(after, capacity) = Content(ring, capacity)
<1> DEFINE after == [ring EXCEPT !.cells[slot] = b]
<1>1. /\ ring.head \in 0 .. capacity /\ ring.tail \in 0 .. capacity
      /\ ring.cells \in [0 .. capacity -> Bytes]
      /\ ring = [cells |-> ring.cells, head |-> ring.head, tail |-> ring.tail]
  BY DEF Rings
<1>2. /\ after \in Rings(capacity)
      /\ after.head = ring.head /\ after.tail = ring.tail /\ after.cells[slot] = b
      /\ \A i \in 0 .. capacity : i # slot => after.cells[i] = ring.cells[i]
  BY <1>1 DEF Rings
<1> HIDE DEF after
<1>3. NextSlot(after, after.head) = NextSlot(ring, ring.head)
  BY <1>1, <1>2, SlotsGoRound
<1>4. ASSUME slot = NextSlot(ring, ring.head), slot # ring.tail
      PROVE  Content(after, capacity) = Content(ring, capacity)
  <2>1. slot = IF ring.head = capacity THEN 0 ELSE ring.head + 1
    BY <1>1, <1>4, SlotsGoRound
  <2>2. Count(after, capacity) = Count(ring, capacity)
        /\ \A i \in 1 .. Count(ring, capacity) :
              /\ SlotAt(after, capacity, i) = SlotAt(ring, capacity, i)
              /\ SlotAt(ring, capacity, i) # slot /\ SlotAt(ring, capacity, i) \in 0 .. capacity
    BY <1>1, <1>2, <1>4, <2>1, Counting, CountingMore DEF Count, SlotAt
  <2>3. \A i \in 1 .. Count(ring, capacity) :
          after.cells[SlotAt(after, capacity, i)] = ring.cells[SlotAt(ring, capacity, i)]
    BY <1>2, <2>2
  <2> QED BY <2>2, <2>3 DEF Content
<1> QED BY <1>2, <1>3, <1>4 DEF after

\* When the head moves to the next slot, the byte there is the last one held.
LEMMA PublishAppends ==
  ASSUME NEW capacity \in Nat \ {0}, NEW ring \in Rings(capacity),
         NEW slot \in 0 .. capacity
  PROVE  LET after == [ring EXCEPT !.head = slot]
         IN /\ after \in Rings(capacity)
            /\ slot = NextSlot(ring, ring.head) /\ slot # ring.tail =>
                 Content(after, capacity) = Append(Content(ring, capacity), ring.cells[slot])
<1> DEFINE after == [ring EXCEPT !.head = slot]
           c == Content(ring, capacity)
           b == ring.cells[slot]
<1>1. /\ ring.head \in 0 .. capacity /\ ring.tail \in 0 .. capacity
      /\ ring.cells \in [0 .. capacity -> Bytes] /\ b \in Bytes
  BY DEF Rings
<1>2. /\ after \in Rings(capacity) /\ after.head = slot /\ after.tail = ring.tail
      /\ after.cells = ring.cells
  BY <1>1 DEF Rings
<1> HIDE DEF after
<1>3. ASSUME slot = NextSlot(ring, ring.head), slot # ring.tail
      PROVE  Content(after, capacity) = Append(c, b)
  <2> DEFINE l == Content(after, capacity)
  <2>1. slot = IF ring.head = capacity THEN 0 ELSE ring.head + 1
    BY <1>1, <1>3, SlotsGoRound
  <2>2. /\ Count(ring, capacity) \in Nat /\ Count(after, capacity) = Count(ring, capacity) + 1
        /\ SlotAt(after, capacity, Count(ring, capacity) + 1) = slot
        /\ \A i \in 1 .. Count(ring, capacity) :
             SlotAt(after, capacity, i) = SlotAt(ring, capacity, i)
    <3> DEFINE head == ring.head
               tail == ring.tail
               n == CountOf(head, tail, capacity)
               m == CountOf(slot, tail, capacity)
    <3>1. head \in 0 .. capacity /\ tail \in 0 .. capacity /\ slot # tail
          /\ slot = (IF head = capacity THEN 0 ELSE head + 1)
      BY <1>1, <1>3, <2>1
    <3> HIDE DEF head, tail
    <3>2. n \in 0 .. capacity /\ m = n + 1 /\ Nth(tail, capacity, n + 1) = slot
      <4>1. n \in 0 .. capacity
        BY <3>1, Counting
      <4>2. m = n + 1
        BY <3>1, CountingMore
      <4>3. Nth(tail, capacity, n + 1) = slot
        BY <3>1, CountingMore
      <4> QED BY <4>1, <4>2, <4>3
    <3>3. Count(ring, capacity) = n /\ Count(after, capacity) = m
      BY <1>2 DEF Count, head, tail
    <3>4. \A i : SlotAt(ring, capacity, i) = Nth(tail, capacity, i)
                 /\ SlotAt(after, capacity, i) = Nth(tail, capacity, i)
      BY <1>2 DEF SlotAt, tail
    <3> HIDE DEF n, m
    <3> QED BY <3>2, <3>3, <3>4
  <2>3. /\ c \in Seq(Bytes) /\ Len(c) = Count(ring, capacity)
        /\ \A i \in 1 .. Count(ring, capacity) : c[i] = ring.cells[SlotAt(ring, capacity, i)]
    BY ContentIs
  <2>4. /\ l \in Seq(Bytes) /\ Len(l) = Count(after, capacity)
        /\ \A i \in 1 .. Count(after, capacity) : l[i] = after.cells[SlotAt(after, capacity, i)]
    BY <1>2, ContentIs
  <2> HIDE DEF l, c, b
  <2>5. /\ Append(c, b) \in Seq(Bytes) /\ Len(Append(c, b)) = Len(c) + 1
        /\ \A i \in 1 .. Len(c) : Append(c, b)[i] = c[i]
        /\ Append(c, b)[Len(c) + 1] = b
    BY <1>1, <2>3, AppendProperties
  <2>6. \A i \in 1 .. Len(l) : l[i] = Append(c, b)[i]
    <3> SUFFICES ASSUME NEW i \in 1 .. Len(l) PROVE l[i] = Append(c, b)[i]
      OBVIOUS
    <3>1. i \in 1 .. Count(after, capacity) /\ l[i] = ring.cells[SlotAt(after, capacity, i)]
      BY <1>2, <2>4
    <3>2. CASE i = Count(ring, capacity) + 1
      BY <2>2, <2>3, <2>5, <3>1, <3>2 DEF b
    <3>3. CASE i \in 1 .. Count(ring, capacity)
      BY <2>2, <2>3, <2>5, <3>1, <3>3
    <3>4. i = Count(ring, capacity) + 1 \/ i \in 1 .. Count(ring, capacity)
      <4> DEFINE n == Count(ring, capacity)
                 m == Count(after, capacity)
      <4>1. n \in Nat /\ m = n + 1 /\ i \in 1 .. m
        BY <2>2, <3>1
      <4> HIDE DEF n, m
      <4>2. i = n + 1 \/ i \in 1 .. n
        BY <4>1
      <4> QED BY <4>2 DEF n
    <3> QED BY <3>2, <3>3, <3>4
  <2>7. l = Append(c, b)
    BY <2>2, <2>3, <2>4, <2>5, <2>6, SeqEqual
  <2> QED BY <2>7 DEF l
<1> QED BY <1>2, <1>3 DEF after, c, b

\* insert() adds a byte behind the others, unless the ring buffer is full.
LEMMA InsertAppends ==
  ASSUME NEW capacity \in Nat \ {0}, NEW ring \in Rings(capacity), NEW b \in Bytes,
         ~NoRoom(ring)
  PROVE  /\ insert(ring, b) \in Rings(capacity)
         /\ insert(ring, b).tail = ring.tail
         /\ Content(insert(ring, b), capacity) = Append(Content(ring, capacity), b)
<1> DEFINE slot == NextSlot(ring, ring.head)
           filled == [ring EXCEPT !.cells[slot] = b]
           after == [filled EXCEPT !.head = slot]
<1>1. slot \in 0 .. capacity /\ slot # ring.tail
  <2>1. ring.head \in 0 .. capacity
    BY DEF Rings
  <2> QED BY <2>1, SlotsGoRound DEF NoRoom
<1>2. insert(ring, b) = after
  BY DEF insert
<1>3. slot = NextSlot(ring, ring.head)
  OBVIOUS
<1> HIDE DEF slot
<1>4. /\ filled \in Rings(capacity) /\ filled.tail = ring.tail /\ filled.cells[slot] = b
      /\ NextSlot(filled, filled.head) = slot
      /\ Content(filled, capacity) = Content(ring, capacity)
  BY <1>1, <1>3, PutIsUnseen
<1> HIDE DEF filled
<1>5. /\ after \in Rings(capacity)
      /\ Content(after, capacity) = Append(Content(filled, capacity), filled.cells[slot])
  BY <1>1, <1>4, PublishAppends
<1>6. after.tail = filled.tail
  BY <1>4 DEF Rings
<1> QED BY <1>2, <1>4, <1>5, <1>6

-----------------------------------------------------------------------------
(* The BLE reader.                                                           *)

\* A round of TakeAll.
TakenNext(before) ==
  LET taken == TakeByte(before.reader)
  IN IF ~before.reader.active THEN before
     ELSE [reader |-> taken.reader, out |-> before.out \o taken.out]

\* The table of TakeAll's recursive function.
Takes(reader, packet, n, u) ==
  u = [i \in 1 .. n |-> IF i = 1 THEN [reader |-> Fetched(reader, packet), out |-> <<>>]
                        ELSE TakenNext(u[i - 1])]

\* There is such a table.
LEMMA TakeExists ==
  ASSUME NEW reader, NEW packet, NEW n \in Nat
  PROVE  \E u : Takes(reader, packet, n, u)
<1> DEFINE start == [reader |-> Fetched(reader, packet), out |-> <<>>]
           P == {m \in Nat : \E u : Takes(reader, packet, m, u)}
<1>1. 0 \in P
  <2> DEFINE u == [i \in 1 .. 0 |-> start]
  <2>1. Takes(reader, packet, 0, u)
    BY DEF Takes
  <2> QED BY <2>1
<1>2. ASSUME NEW m \in Nat, m \in P PROVE m + 1 \in P
  <2>1. PICK u : Takes(reader, packet, m, u)
    BY <1>2
  <2> DEFINE w == [i \in 1 .. m + 1 |-> IF i <= m THEN u[i]
                                        ELSE IF i = 1 THEN start ELSE TakenNext(u[m])]
  <2> HIDE DEF start
  <2>2. ASSUME NEW i \in 1 .. m + 1
        PROVE  w[i] = IF i = 1 THEN start ELSE TakenNext(w[i - 1])
    <3>1. CASE i <= m
      <4>1. u[i] = IF i = 1 THEN start ELSE TakenNext(u[i - 1])
        <5>1. i \in 1 .. m
          BY <3>1
        <5> QED BY <2>1, <5>1 DEF Takes, start
      <4>2. w[i] = u[i] /\ (i # 1 => w[i - 1] = u[i - 1])
        BY <3>1
      <4> QED BY <4>1, <4>2
    <3>2. CASE i = m + 1 /\ i # 1
      <4>1. w[i] = TakenNext(u[m]) /\ w[i - 1] = u[m]
        BY <3>2
      <4> QED BY <3>2, <4>1
    <3>3. CASE i = m + 1 /\ i = 1
      BY <3>3
    <3> QED BY <3>1, <3>2, <3>3
  <2>3. Takes(reader, packet, m + 1, w)
    BY <2>2 DEF Takes, start
  <2> QED BY <2>3
<1> HIDE DEF P
<1>3. n \in P
  BY <1>1, <1>2, NumbersFrom0
<1> QED BY <1>3 DEF P

\* A packet is taken round by round.
LEMMA TakenByRounds ==
  ASSUME NEW reader, NEW packet, Len(packet) \in Nat \ {0}
  PROVE  \E u : /\ u[1] = [reader |-> Fetched(reader, packet), out |-> <<>>]
                /\ \A n \in 1 .. Len(packet) - 1 : u[n + 1] = TakenNext(u[n])
                /\ TakeAll(reader, packet) = u[Len(packet)]
<1> DEFINE start == [reader |-> Fetched(reader, packet), out |-> <<>>]
           Body(t) == [i \in 1 .. Len(packet) |-> IF i = 1 THEN start ELSE TakenNext(t[i - 1])]
           table == CHOOSE t : t = Body(t)
<1>1. PICK u : u = Body(u)
  <2>1. PICK u : Takes(reader, packet, Len(packet), u)
    BY TakeExists
  <2> QED BY <2>1 DEF Takes
<1>2. table = Body(table)
  BY <1>1
<1>3. TakeAll(reader, packet) = table[Len(packet)]
  BY DEF TakeAll, TakenNext
<1> HIDE DEF table, start
<1>4. table[1] = start
  BY <1>2
<1>5. ASSUME NEW n \in 1 .. Len(packet) - 1 PROVE table[n + 1] = TakenNext(table[n])
  <2>1. n + 1 \in 1 .. Len(packet) /\ n + 1 # 1 /\ (n + 1) - 1 = n
    OBVIOUS
  <2> QED BY <1>2, <2>1
<1> QED BY <1>3, <1>4, <1>5 DEF start

\* What a BLE packet and its reader are.
LEMMA BleTypes ==
  /\ BLE_MAX_PACKET_SIZE \in Nat /\ BLE_MAX_PACKET_SIZE > 2
  /\ \A packet : packet \in BlePackets
       <=> packet \in Seq(Bytes) /\ Len(packet) <= BLE_MAX_PACKET_SIZE
  /\ IdleReader \in BleReaders
  /\ StartedPacket \in BlePackets /\ Len(StartedPacket) = 2
  /\ StartedPacket[1] = "timestamp" /\ StartedPacket[2] = "timestamp"
<1>1. /\ BLE_MAX_PACKET_SIZE \in Nat /\ BLE_MAX_PACKET_SIZE > 2
      /\ \A packet : packet \in BlePackets
           <=> packet \in Seq(Bytes) /\ Len(packet) <= BLE_MAX_PACKET_SIZE
  BY BleAssumption, Bounded DEF BlePackets
<1>2. IdleReader \in BleReaders
  <2>1. <<>> \in BlePackets
    BY <1>1, EmptyIsBounded DEF BlePackets
  <2> QED BY <1>1, <2>1 DEF IdleReader, BleReaders
<1>3. StartedPacket \in Seq(Bytes)
  BY ByteKinds DEF StartedPacket
<1>4. /\ Len(StartedPacket) = 2
      /\ StartedPacket[1] = "timestamp" /\ StartedPacket[2] = "timestamp"
  BY DEF StartedPacket
<1>5. StartedPacket \in BlePackets
  <2>1. Len(StartedPacket) <= BLE_MAX_PACKET_SIZE
    BY <1>1, <1>4
  <2> QED BY <1>1, <1>3, <2>1
<1> QED BY <1>1, <1>2, <1>4, <1>5

\* What a reader becomes when some of its fields change.
LEMMA SearchChanges ==
  ASSUME NEW reader \in BleReaders, NEW b \in BOOLEAN
  PROVE  LET r == [reader EXCEPT !.search = b]
         IN /\ r \in BleReaders /\ r.packet = reader.packet /\ r.index = reader.index
            /\ r.active = reader.active /\ r.search = b /\ r.sysex = reader.sysex
BY DEF BleReaders

\* The same for a reader that starts or stops.
LEMMA ActiveChanges ==
  ASSUME NEW reader \in BleReaders, NEW b \in BOOLEAN
  PROVE  LET r == [reader EXCEPT !.active = b]
         IN r \in BleReaders /\ r.packet = reader.packet /\ r.index = reader.index
BY DEF BleReaders

\* The same for a reader that goes in or out of a SysEx.
LEMMA SysExChanges ==
  ASSUME NEW reader \in BleReaders, NEW x \in BOOLEAN, NEW b \in BOOLEAN
  PROVE  LET r == [reader EXCEPT !.sysex = x, !.search = b]
         IN /\ r \in BleReaders /\ r.packet = reader.packet /\ r.index = reader.index
            /\ r.active = reader.active /\ r.search = b /\ r.sysex = x
BY DEF BleReaders

\* The same for a reader that moves on by a byte.
LEMMA IndexMoves ==
  ASSUME NEW reader \in BleReaders, reader.index + 1 <= BLE_MAX_PACKET_SIZE
  PROVE  LET r == [reader EXCEPT !.index = @ + 1]
         IN /\ r \in BleReaders /\ r.packet = reader.packet
            /\ r.index = reader.index + 1 /\ r.active = reader.active
            /\ r.search = reader.search /\ r.sysex = reader.sysex
<1>1. reader.index \in 0 .. BLE_MAX_PACKET_SIZE /\ BLE_MAX_PACKET_SIZE \in Nat
  BY BleTypes DEF BleReaders
<1> DEFINE k == reader.index + 1
<1>2. k \in 0 .. BLE_MAX_PACKET_SIZE
  BY <1>1
<1> HIDE DEF k
<1>3. LET r == [reader EXCEPT !.index = k]
      IN /\ r \in BleReaders /\ r.packet = reader.packet
         /\ r.index = k /\ r.active = reader.active
         /\ r.search = reader.search /\ r.sysex = reader.sysex
  BY <1>2 DEF BleReaders
<1> QED BY <1>3 DEF k

\* A reader that has just fetched a packet.
LEMMA FetchedIs ==
  ASSUME NEW reader \in BleReaders, NEW packet \in BlePackets
  PROVE  LET r == Fetched(reader, packet)
         IN /\ r \in BleReaders /\ r.packet = packet /\ r.index = 1
            /\ r.active = TRUE /\ r.search = TRUE /\ r.sysex = reader.sysex
<1>1. 1 \in 0 .. BLE_MAX_PACKET_SIZE
  BY BleTypes
<1> QED BY <1>1 DEF BleReaders, Fetched

\* A round returns at most the byte it reads.
LEMMA ByteTaken ==
  ASSUME NEW reader \in BleReaders, ~Spent(reader)
  PROVE  /\ TakeByte(reader).reader \in BleReaders
         /\ TakeByte(reader).reader.packet = reader.packet
         /\ TakeByte(reader).reader.index = reader.index + 1
         /\ TakeByte(reader).out \in Seq(Bytes)
<1> DEFINE byte == reader.packet[reader.index + 1]
           next == [reader EXCEPT !.index = @ + 1]
           inSysEx == (reader.sysex \/ byte = "sysex") /\ byte # "sysex_end"
           last == next.index >= Len(reader.packet)
           search == ~inSysEx /\ ~last /\ reader.packet[next.index + 1] \in StatusBytes
           taken == TakeByte(reader)
<1>1. /\ reader.packet \in BlePackets /\ reader.packet \in Seq(Bytes)
      /\ Len(reader.packet) \in Nat /\ Len(reader.packet) <= BLE_MAX_PACKET_SIZE
      /\ reader.index \in Nat /\ reader.index < Len(reader.packet)
      /\ BLE_MAX_PACKET_SIZE \in Nat
  <2>1. reader.packet \in BlePackets /\ reader.index \in Nat
    BY BleTypes DEF BleReaders
  <2>2. reader.packet \in Seq(Bytes) /\ Len(reader.packet) <= BLE_MAX_PACKET_SIZE
    BY <2>1, BleTypes
  <2>3. Len(reader.packet) \in Nat
    BY <2>2, LenProperties
  <2> QED BY <2>1, <2>2, <2>3, BleTypes DEF Spent
<1>2. byte \in Bytes
  <2>1. reader.index + 1 \in 1 .. Len(reader.packet)
    BY <1>1
  <2> QED BY <1>1, <2>1, ElementOfSeq
<1>3. next \in BleReaders /\ next.packet = reader.packet /\ next.index = reader.index + 1
  BY <1>1 DEF BleReaders
<1> HIDE DEF byte, next, inSysEx, last, search
<1>4. \/ taken = [reader |-> [next EXCEPT !.search = FALSE], out |-> <<>>]
      \/ taken = [reader |-> [next EXCEPT !.search = FALSE], out |-> <<byte>>]
      \/ taken = [reader |-> [next EXCEPT !.active = FALSE], out |-> <<>>]
      \/ taken = [reader |-> [next EXCEPT !.sysex = inSysEx, !.search = search], out |-> <<byte>>]
  <2>1. CASE reader.search /\ byte \in StatusBytes
    BY <2>1 DEF TakeByte, byte, next
  <2>2. CASE reader.search /\ byte \in Data
    <3>1. byte \notin StatusBytes
      BY <2>2, ByteKinds
    <3>2. CASE reader.index = 1
      BY <2>2, <3>1, <3>2 DEF TakeByte, byte, next
    <3>3. CASE reader.index > 1
      BY <1>1, <2>2, <3>1, <3>3 DEF TakeByte, byte, next
    <3>4. CASE ~(reader.index = 1) /\ ~(reader.index > 1)
      BY <2>2, <3>1, <3>4 DEF TakeByte, byte, next, inSysEx, last, search
    <3> QED BY <3>2, <3>3, <3>4
  <2>3. CASE ~reader.search
    BY <2>3 DEF TakeByte, byte, next, inSysEx, last, search
  <2>4. reader.search \in BOOLEAN
    BY DEF BleReaders
  <2> QED BY <1>2, <2>1, <2>2, <2>3, <2>4, ByteKinds
<1>5. <<byte>> \in Seq(Bytes) /\ <<>> \in Seq(Bytes) /\ inSysEx \in BOOLEAN /\ search \in BOOLEAN
  BY <1>2 DEF inSysEx, search
<1> HIDE DEF taken
<1>6. /\ taken.reader \in BleReaders /\ taken.reader.packet = next.packet
      /\ taken.reader.index = next.index /\ taken.out \in Seq(Bytes)
  <2>1. CASE taken = [reader |-> [next EXCEPT !.search = FALSE], out |-> <<>>]
    BY <1>3, <2>1, <1>5, SearchChanges
  <2>2. CASE taken = [reader |-> [next EXCEPT !.search = FALSE], out |-> <<byte>>]
    BY <1>3, <2>2, <1>5, SearchChanges
  <2>3. CASE taken = [reader |-> [next EXCEPT !.active = FALSE], out |-> <<>>]
    BY <1>3, <2>3, <1>5, ActiveChanges
  <2>4. CASE taken = [reader |-> [next EXCEPT !.sysex = inSysEx, !.search = search],
                      out |-> <<byte>>]
    <3> DEFINE r == [next EXCEPT !.sysex = inSysEx, !.search = search]
    <3>1. r \in BleReaders /\ r.packet = next.packet /\ r.index = next.index
      <4>1. \A x, y \in BOOLEAN :
              LET q == [next EXCEPT !.sysex = x, !.search = y]
              IN q \in BleReaders /\ q.packet = next.packet /\ q.index = next.index
        BY <1>3 DEF BleReaders
      <4> QED BY <1>5, <4>1
    <3>2. taken.reader = r /\ taken.out = <<byte>>
      BY <2>4
    <3> HIDE DEF r
    <3> QED BY <1>5, <3>1, <3>2
  <2> QED BY <1>4, <2>1, <2>2, <2>3, <2>4
<1> QED BY <1>3, <1>6 DEF taken

\* The rounds that read a packet, from the first on.
Rounds(reader, packet, u) ==
  /\ u[1] = [reader |-> Fetched(reader, packet), out |-> <<>>]
  /\ \A n \in 1 .. Len(packet) - 1 : u[n + 1] = TakenNext(u[n])
  /\ TakeAll(reader, packet) = u[Len(packet)]

\* The bytes of any packet are read within it, one in every round.
LEMMA RoundsKeep ==
  ASSUME NEW reader \in BleReaders, NEW packet \in BlePackets, packet # <<>>,
         NEW u, Rounds(reader, packet, u), NEW round \in 1 .. Len(packet)
  PROVE  /\ u[round].reader \in BleReaders /\ u[round].out \in Seq(Bytes)
         /\ u[round].reader.packet = packet
         /\ u[round].reader.active => u[round].reader.index = round
<1> DEFINE start == [reader |-> Fetched(reader, packet), out |-> <<>>]
<1>1. packet \in Seq(Bytes) /\ Len(packet) \in Nat \ {0} /\ BLE_MAX_PACKET_SIZE \in Nat
      /\ BLE_MAX_PACKET_SIZE > 2
  BY BleTypes, EmptySeq
<1>2. /\ u[1] = start
      /\ \A n \in 1 .. Len(packet) - 1 : u[n + 1] = TakenNext(u[n])
  BY DEF Rounds
<1> DEFINE Holds(n) == /\ u[n].reader \in BleReaders /\ u[n].out \in Seq(Bytes)
                       /\ u[n].reader.packet = packet
                       /\ u[n].reader.active => u[n].reader.index = n
           P == {k \in Nat : k < Len(packet) => Holds(k + 1)}
<1>3. 0 \in P
  <2>1. start.reader \in BleReaders /\ start.reader.packet = packet /\ start.reader.index = 1
    BY FetchedIs
  <2> HIDE DEF start
  <2>2. start.out \in Seq(Bytes)
    BY EmptySeq DEF start
  <2>3. Holds(1)
    BY <1>2, <2>1, <2>2
  <2> QED BY <2>3
<1>4. ASSUME NEW k \in Nat, k \in P PROVE k + 1 \in P
  <2> DEFINE n == k + 1
             before == u[n]
  <2> SUFFICES ASSUME n < Len(packet) PROVE Holds(n + 1)
    OBVIOUS
  <2>1. n \in 1 .. Len(packet) - 1 /\ Holds(n)
    BY <1>1, <1>4
  <2>2. u[n + 1] = TakenNext(before)
    BY <1>2, <2>1
  <2>3. /\ before.reader \in BleReaders /\ before.out \in Seq(Bytes)
        /\ before.reader.packet = packet /\ (before.reader.active => before.reader.index = n)
    BY <2>1
  <2> HIDE DEF before, n
  <2>4. CASE ~before.reader.active
    BY <2>2, <2>3, <2>4 DEF TakenNext
  <2>5. CASE before.reader.active
    <3> DEFINE taken == TakeByte(before.reader)
    <3>1. ~Spent(before.reader)
      BY <1>1, <2>1, <2>3, <2>5 DEF Spent
    <3>2. /\ taken.reader \in BleReaders /\ taken.out \in Seq(Bytes)
          /\ taken.reader.packet = packet /\ taken.reader.index = n + 1
      BY <2>3, <2>5, <3>1, ByteTaken
    <3>3. u[n + 1] = [reader |-> taken.reader, out |-> before.out \o taken.out]
      BY <2>2, <2>5 DEF TakenNext
    <3> HIDE DEF taken
    <3>4. before.out \o taken.out \in Seq(Bytes)
      BY <2>3, <3>2
    <3> QED BY <3>2, <3>3, <3>4
  <2>6. before.reader.active \in BOOLEAN
    BY <2>3 DEF BleReaders
  <2> QED BY <2>4, <2>5
<1> HIDE DEF P
<1>5. round - 1 \in P
  BY <1>1, <1>3, <1>4, NumbersFrom0
<1>6. Holds(round)
  <2>1. (round - 1) + 1 = round /\ round - 1 < Len(packet)
    BY <1>1
  <2> HIDE DEF Holds
  <2> QED BY <1>5, <2>1 DEF P
<1> QED BY <1>6

\* All of them are read.
LEMMA AllTaken ==
  ASSUME NEW reader \in BleReaders, NEW packet \in BlePackets, packet # <<>>
  PROVE  /\ TakeAll(reader, packet).reader \in BleReaders
         /\ TakeAll(reader, packet).out \in Seq(Bytes)
<1>1. packet \in Seq(Bytes) /\ Len(packet) \in Nat \ {0}
  BY BleTypes, EmptySeq
<1>2. PICK u : Rounds(reader, packet, u)
  BY <1>1, TakenByRounds DEF Rounds
<1>3. Len(packet) \in 1 .. Len(packet)
  BY <1>1
<1>4. TakeAll(reader, packet) = u[Len(packet)]
  BY <1>2 DEF Rounds
<1> QED BY <1>2, <1>3, <1>4, RoundsKeep

\* A reader that has given a packet up takes nothing more from it.
LEMMA IdleRounds ==
  ASSUME NEW reader, NEW packet, Len(packet) \in Nat \ {0}, NEW u, Rounds(reader, packet, u),
         NEW k \in 1 .. Len(packet), ~u[k].reader.active
  PROVE  u[k] = TakeAll(reader, packet)
<1> DEFINE P == {i \in Nat : k + i <= Len(packet) => u[k + i] = u[k]}
<1>1. 0 \in P
  OBVIOUS
<1>2. ASSUME NEW i \in Nat, i \in P PROVE i + 1 \in P
  <2> SUFFICES ASSUME k + (i + 1) <= Len(packet) PROVE u[k + (i + 1)] = u[k]
    OBVIOUS
  <2>1. k + i \in 1 .. Len(packet) - 1 /\ k + (i + 1) = (k + i) + 1
    OBVIOUS
  <2>2. u[k + i] = u[k]
    BY <1>2, <2>1
  <2>3. u[(k + i) + 1] = TakenNext(u[k + i])
    BY <2>1 DEF Rounds
  <2> QED BY <2>1, <2>2, <2>3 DEF TakenNext
<1> HIDE DEF P
<1>3. Len(packet) - k \in P
  <2>1. Len(packet) - k \in Nat
    OBVIOUS
  <2> QED BY <1>1, <1>2, <2>1, NumbersFrom0
<1>4. u[Len(packet)] = u[k]
  <2>1. k + (Len(packet) - k) = Len(packet)
    OBVIOUS
  <2> QED BY <1>3, <2>1 DEF P
<1> QED BY <1>4 DEF Rounds

\* What is read of a packet first is the beginning of what is read of it.
LEMMA RoundsGrow ==
  ASSUME NEW reader \in BleReaders, NEW packet \in BlePackets, packet # <<>>,
         NEW u, Rounds(reader, packet, u), NEW k \in 1 .. Len(packet)
  PROVE  \E rest \in Seq(Bytes) : TakeAll(reader, packet).out = u[k].out \o rest
<1> DEFINE Holds(n) == \E rest \in Seq(Bytes) : u[n].out = u[k].out \o rest
           P == {i \in Nat : k + i <= Len(packet) => Holds(k + i)}
<1>1. packet \in Seq(Bytes) /\ Len(packet) \in Nat
  BY BleTypes
<1>2. 0 \in P
  <2>1. u[k].out \o <<>> = u[k].out /\ <<>> \in Seq(Bytes) /\ k + 0 = k
    BY RoundsKeep, ConcatEmptySeq, EmptySeq
  <2> QED BY <2>1
<1>3. ASSUME NEW i \in Nat, i \in P PROVE i + 1 \in P
  <2> DEFINE n == k + i
             before == u[n]
             taken == TakeByte(before.reader)
             first == u[k].out
  <2> SUFFICES ASSUME k + (i + 1) <= Len(packet) PROVE Holds(k + (i + 1))
    OBVIOUS
  <2>1. n \in 1 .. Len(packet) - 1 /\ n \in 1 .. Len(packet) /\ k + (i + 1) = n + 1 /\ n < Len(packet)
    BY <1>1
  <2>2. PICK rest \in Seq(Bytes) : before.out = first \o rest
    BY <1>3, <2>1
  <2>3. u[n + 1] = TakenNext(before)
    BY <2>1 DEF Rounds
  <2>4. first \in Seq(Bytes)
    BY RoundsKeep
  <2>5. /\ before.reader \in BleReaders /\ before.reader.packet = packet
        /\ before.reader.active => before.reader.index = n
    BY <2>1, RoundsKeep
  <2> HIDE DEF n, before, first
  <2>6. CASE ~before.reader.active
    <3>1. u[n + 1].out = first \o rest
      BY <2>2, <2>3, <2>6 DEF TakenNext
    <3> QED BY <2>1, <3>1 DEF first
  <2>7. CASE before.reader.active
    <3>1. ~Spent(before.reader)
      BY <1>1, <2>1, <2>5, <2>7 DEF Spent
    <3>2. taken.out \in Seq(Bytes)
      BY <2>5, <3>1, ByteTaken
    <3> DEFINE out == before.out \o taken.out
    <3>3. u[n + 1] = [reader |-> taken.reader, out |-> out]
      BY <2>3, <2>7 DEF TakenNext
    <3> HIDE DEF taken, out
    <3>4. u[n + 1].out = out
      BY <3>3
    <3>5. (first \o rest) \o taken.out = first \o (rest \o taken.out)
          /\ rest \o taken.out \in Seq(Bytes)
      BY <2>4, <3>2, Regrouped
    <3>6. u[n + 1].out = first \o (rest \o taken.out)
      BY <2>2, <3>4, <3>5 DEF out
    <3> QED BY <2>1, <3>5, <3>6 DEF first
  <2> QED BY <2>6, <2>7
<1> HIDE DEF P
<1>4. Len(packet) - k \in P
  <2>1. Len(packet) - k \in Nat
    BY <1>1
  <2> QED BY <1>2, <1>3, <2>1, NumbersFrom0
<1>5. Holds(Len(packet))
  <2>1. k + (Len(packet) - k) = Len(packet)
    BY <1>1
  <2> HIDE DEF Holds
  <2> QED BY <1>1, <1>4, <2>1 DEF P
<1> QED BY <1>5 DEF Rounds

\* Behind the first of a packet's bytes the only status byte is the end of a
\* SysEx, and it is the last.
Flows(sysex, bytes) ==
  \A i \in 1 .. Len(bytes) :
    /\ bytes[i] = "sysex_end" => i = Len(bytes)
    /\ i >= 2 /\ bytes[i] \in StatusBytes
         => bytes[i] = "sysex_end" /\ (sysex \/ bytes[1] = "sysex")

\* From a BLE packet that write_midi_byte() has filled with such bytes the
\* reader takes them all, and goes on in the SysEx they leave open.
LEMMA PayloadTaken ==
  ASSUME NEW reader \in BleReaders, NEW payload \in Seq(Bytes), payload # <<>>,
         Len(payload) + 2 <= BLE_MAX_PACKET_SIZE, Flows(reader.sysex, payload)
  PROVE  LET all == TakeAll(reader, StartedPacket \o payload)
         IN /\ all.out = payload /\ all.reader \in BleReaders
            /\ /\ reader.sysex \/ payload[1] = "sysex"
               /\ payload[Len(payload)] # "sysex_end"
               => all.reader.sysex
<1> DEFINE packet == StartedPacket \o payload
           m == Len(payload)
           start == [reader |-> Fetched(reader, packet), out |-> <<>>]
           all == TakeAll(reader, packet)
<1>1. m \in Nat \ {0}
  BY EmptySeq
<1>2. /\ packet \in Seq(Bytes) /\ Len(packet) = m + 2 /\ packet[2] = "timestamp"
      /\ \A i \in 1 .. m : packet[i + 2] = payload[i]
  <2>1. StartedPacket \in Seq(Bytes) /\ Len(StartedPacket) = 2 /\ StartedPacket[2] = "timestamp"
    BY BleTypes
  <2>2. /\ packet \in Seq(Bytes) /\ Len(packet) = 2 + m
        /\ \A i \in 1 .. 2 + m :
             packet[i] = IF i <= 2 THEN StartedPacket[i] ELSE payload[i - 2]
    <3> DEFINE begun == StartedPacket
    <3>1. begun \in Seq(Bytes) /\ Len(begun) = 2
      BY <2>1
    <3> HIDE DEF begun
    <3>2. /\ begun \o payload \in Seq(Bytes) /\ Len(begun \o payload) = Len(begun) + m
          /\ \A i \in 1 .. Len(begun) + m :
               (begun \o payload)[i] = IF i <= Len(begun) THEN begun[i] ELSE payload[i - Len(begun)]
      BY <3>1, ConcatProperties
    <3>3. packet = begun \o payload
      BY DEF begun
    <3> HIDE DEF packet, m
    <3>4. \A i \in 1 .. 2 + m : packet[i] = IF i <= 2 THEN begun[i] ELSE payload[i - 2]
      BY <3>1, <3>2, <3>3
    <3> QED BY <3>1, <3>2, <3>3, <3>4 DEF begun
  <2>3. 2 \in 1 .. 2 + m /\ 2 + m = m + 2
    BY <1>1
  <2>4. packet[2] = "timestamp"
    BY <2>1, <2>2, <2>3
  <2>5. \A i \in 1 .. m : i + 2 \in 1 .. 2 + m /\ ~(i + 2 <= 2) /\ (i + 2) - 2 = i
    BY <1>1
  <2> HIDE DEF packet
  <2> QED BY <2>2, <2>3, <2>4, <2>5
<1> HIDE DEF packet
<1>3. packet \in BlePackets /\ packet # <<>>
  BY <1>1, <1>2, BleTypes, EmptySeq
<1>4. all.reader \in BleReaders
  BY <1>3, AllTaken
<1>5. PICK u : /\ u[1] = start
               /\ \A n \in 1 .. Len(packet) - 1 : u[n + 1] = TakenNext(u[n])
               /\ all = u[Len(packet)]
  BY <1>1, <1>2, TakenByRounds
<1> HIDE DEF all
<1> DEFINE begun == reader.sysex \/ payload[1] = "sysex"
           Holds(k) ==
             /\ u[k + 2].reader \in BleReaders /\ u[k + 2].reader.packet = packet
             /\ u[k + 2].reader.index = k + 2 /\ u[k + 2].reader.active
             /\ u[k + 2].reader.search = FALSE /\ u[k + 2].out = SubSeq(payload, 1, k)
             /\ k = 0 => u[k + 2].reader.sysex = reader.sysex
             /\ k > 0 /\ begun /\ payload[k] # "sysex_end" => u[k + 2].reader.sysex
           P == {k \in Nat : k <= m => Holds(k)}
<1>6. 0 \in P
  <2> DEFINE first == start.reader
  <2>1. /\ first \in BleReaders /\ first.packet = packet /\ first.index = 1
        /\ first.active = TRUE /\ first.search = TRUE /\ first.sysex = reader.sysex
    BY <1>3, FetchedIs
  <2>2. u[1].reader = first /\ u[1].out = <<>>
    BY <1>5
  <2> HIDE DEF first
  <2> DEFINE next == [first EXCEPT !.index = @ + 1]
             second == [next EXCEPT !.search = FALSE]
  <2>3. TakeByte(first) = [reader |-> second, out |-> <<>>]
    <3> DEFINE status == first.packet[first.index + 1] \in StatusBytes
    <3>1. first.search /\ status
      BY <1>2, <2>1, ByteKinds
    <3>2. ~(first.index = 1 /\ FALSE)
      OBVIOUS
    <3>3. first.packet[first.index + 1] \notin Data
      BY <3>1, ByteKinds
    <3> HIDE DEF first
    <3> QED BY <3>1, <3>3 DEF TakeByte
  <2>4. /\ second \in BleReaders /\ second.packet = packet /\ second.index = 2
        /\ second.active = TRUE /\ second.search = FALSE /\ second.sysex = reader.sysex
    <3>1. /\ next \in BleReaders /\ next.packet = packet /\ next.index = 2
          /\ next.active = TRUE /\ next.sysex = reader.sysex
      <4>1. first.index \in Nat /\ first.index + 1 <= BLE_MAX_PACKET_SIZE /\ first.index + 1 = 2
        BY <2>1, BleTypes
      <4> QED BY <2>1, <4>1, IndexMoves
    <3> HIDE DEF next
    <3> QED BY <3>1, SearchChanges
  <2> HIDE DEF second
  <2>5. u[2] = TakenNext(u[1])
    <3>1. 1 \in 1 .. Len(packet) - 1 /\ 1 + 1 = 2
      BY <1>1, <1>2
    <3> QED BY <1>5, <3>1
  <2>6. u[2].reader = second /\ u[2].out = <<>>
    <3>1. <<>> \o <<>> = <<>>
      OBVIOUS
    <3> QED BY <2>1, <2>2, <2>3, <2>5, <3>1 DEF TakenNext
  <2>7. SubSeq(payload, 1, 0) = <<>>
    BY SubSeqEmpty
  <2>8. Holds(0)
    <3>1. 0 + 2 = 2 /\ ~(0 > 0)
      OBVIOUS
    <3> HIDE DEF begun
    <3> QED BY <2>4, <2>6, <2>7, <3>1
  <2> QED BY <2>8
<1>7. ASSUME NEW k \in Nat, k \in P PROVE k + 1 \in P
  <2> HIDE DEF Holds
  <2> SUFFICES ASSUME k + 1 <= m PROVE Holds(k + 1)
    OBVIOUS
  <2> USE DEF Holds
  <2> DEFINE r == u[k + 2].reader
             byte == payload[k + 1]
             inSysEx == (r.sysex \/ byte = "sysex") /\ byte # "sysex_end"
             next == [r EXCEPT !.index = @ + 1]
             after == [next EXCEPT !.sysex = inSysEx, !.search = FALSE]
  <2>1. /\ r \in BleReaders /\ r.packet = packet /\ r.index = k + 2 /\ r.active
        /\ r.search = FALSE /\ u[k + 2].out = SubSeq(payload, 1, k)
        /\ k = 0 => r.sysex = reader.sysex
        /\ k > 0 /\ begun /\ payload[k] # "sysex_end" => r.sysex
    BY <1>7
  <2> HIDE DEF r
  <2>2. /\ packet[r.index + 1] = byte /\ byte \in Bytes
        /\ next.index = k + 3 /\ next.packet = packet
    <3>1. k + 1 \in 1 .. m /\ r.index + 1 = (k + 1) + 2 /\ r.index + 1 = k + 3
      BY <1>1, <2>1
    <3>2. packet[(k + 1) + 2] = byte
      BY <1>2, <3>1
    <3>3. next.index = r.index + 1 /\ next.packet = r.packet
      BY <2>1 DEF BleReaders
    <3>4. byte \in Bytes
      BY <3>1, ElementOfSeq
    <3> QED BY <2>1, <3>1, <3>2, <3>3, <3>4
  <2>3. begun /\ byte # "sysex_end" => inSysEx
    <3>1. CASE k = 0
      BY <2>1, <3>1
    <3>2. CASE k > 0
      <4>1. k \in 1 .. m /\ k # m
        BY <1>1, <3>2
      <4>2. payload[k] # "sysex_end"
        BY <4>1 DEF Flows
      <4> QED BY <2>1, <3>2, <4>2
    <3> QED BY <3>1, <3>2
  <2>4. /\ ~inSysEx /\ ~(next.index >= Len(packet)) /\ packet[next.index + 1] \in StatusBytes
        => FALSE
    <3> SUFFICES ASSUME ~inSysEx, ~(next.index >= Len(packet)),
                        packet[next.index + 1] \in StatusBytes
                 PROVE  FALSE
      OBVIOUS
    <3>1. k + 2 \in 1 .. m /\ k + 2 >= 2 /\ next.index + 1 = (k + 2) + 2
          /\ k + 1 \in 1 .. m /\ k + 1 # m
      BY <1>1, <1>2, <2>2
    <3>2. payload[k + 2] \in StatusBytes
      BY <1>2, <3>1
    <3>3. begun
      BY <3>1, <3>2 DEF Flows
    <3>4. byte # "sysex_end"
      BY <3>1 DEF Flows
    <3> QED BY <2>3, <3>3, <3>4
  <2> HIDE DEF inSysEx, next, byte
  <2>5. TakeByte(r) = [reader |-> after, out |-> <<byte>>]
    <3> DEFINE search == /\ ~inSysEx /\ ~(next.index >= Len(packet))
                         /\ packet[next.index + 1] \in StatusBytes
    <3>1. search = FALSE
      BY <2>4
    <3>2. TakeByte(r) = [reader |-> [next EXCEPT !.sysex = inSysEx, !.search = search],
                         out |-> <<byte>>]
      <4>1. ~r.search /\ r.packet = packet /\ packet[r.index + 1] = byte
        BY <2>1, <2>2
      <4> QED BY <4>1 DEF TakeByte, inSysEx, next
    <3> HIDE DEF search
    <3> QED BY <3>1, <3>2
  <2>6. /\ after \in BleReaders /\ after.packet = packet /\ after.index = k + 3
        /\ after.active /\ after.search = FALSE /\ after.sysex = inSysEx
    <3>1. inSysEx \in BOOLEAN
      BY DEF inSysEx
    <3>2. /\ r.index \in Nat /\ r.index + 1 <= BLE_MAX_PACKET_SIZE /\ r.index + 1 = k + 3
      BY <1>1, <2>1, BleTypes
    <3>3. /\ next \in BleReaders /\ next.packet = packet /\ next.index = k + 3
          /\ next.active = r.active
      BY <2>1, <3>2, IndexMoves DEF next
    <3>4. next \in BleReaders /\ inSysEx \in BOOLEAN /\ FALSE \in BOOLEAN
      BY <3>1, <3>3
    <3> HIDE DEF next, inSysEx
    <3>5. /\ after \in BleReaders /\ after.packet = next.packet /\ after.index = next.index
          /\ after.active = next.active /\ after.search = FALSE /\ after.sysex = inSysEx
      BY <3>4, SysExChanges
    <3> HIDE DEF after
    <3> QED BY <2>1, <3>3, <3>5
  <2> HIDE DEF after
  <2>7. u[k + 3] = [reader |-> after, out |-> u[k + 2].out \o <<byte>>]
    <3>1. k + 2 \in 1 .. Len(packet) - 1 /\ (k + 2) + 1 = k + 3
      BY <1>1, <1>2
    <3>2. u[k + 3] = TakenNext(u[k + 2])
      BY <1>5, <3>1
    <3> QED BY <2>1, <2>5, <3>2 DEF TakenNext, r
  <2>8. SubSeq(payload, 1, k) \o <<byte>> = SubSeq(payload, 1, k + 1)
    <3>1. 1 \in 1 .. m /\ k + 1 \in 1 .. m /\ (k + 1) - 1 = k
      BY <1>1
    <3> QED BY <3>1, SubSeqRecursiveSecond DEF byte
  <2>9. /\ u[k + 3].reader = after /\ u[k + 3].out = SubSeq(payload, 1, k + 1)
        /\ (k + 1) + 2 = k + 3 /\ k + 1 # 0
    BY <2>1, <2>7, <2>8
  <2> QED BY <2>3, <2>6, <2>9 DEF byte
<1> HIDE DEF P
<1>8. m \in P
  BY <1>1, <1>6, <1>7, NumbersFrom0
<1>9. Holds(m)
  BY <1>1, <1>8 DEF P
<1>10. u[m + 2] = all /\ SubSeq(payload, 1, m) = payload
  BY <1>2, <1>5, SubSeqFull
<1>11. all.out = payload /\ (begun /\ payload[m] # "sysex_end" => all.reader.sysex)
  BY <1>1, <1>9, <1>10
<1> QED BY <1>4, <1>11 DEF all, packet

-----------------------------------------------------------------------------
(* Type correctness.                                                         *)

\* The driver: only the thread that holds the mutex is inside.
UartInv ==
  /\ {uartUp, txIrq, clobbered, stalled, overrun} \subseteq BOOLEAN
  /\ loopback = scenario.loopback
  /\ mutex \in Threads \cup {Nobody}
  /\ rx \in Rings(RxCapacity) /\ tx \in Rings(TxCapacity)
  /\ access \in [Threads -> [step : {"none", "put", "publish", "enable", "advance"},
                             byte : Bytes, slot : Nat]]
  /\ \A t \in Threads :
       /\ access[t].step # "none" => mutex = t
       /\ access[t].step \in {"put", "publish"} => access[t].slot \in 0 .. TxCapacity
       /\ access[t].step = "advance" => access[t].slot \in 0 .. RxCapacity
  /\ queued \in Seq(Bytes)
  /\ faultsLeft \in 0 .. scenario.faults

\* The interface and its reader.
BaseInv ==
  /\ scenario \in Scenarios
  /\ open \in {"up", "closing", "down"}
  /\ _thru_interfaces \in [Slots -> Sinks \cup {"none"}]
  /\ \A i, j \in Slots :
       i # j /\ _thru_interfaces[i] = _thru_interfaces[j] => _thru_interfaces[i] = "none"
  /\ _tx_mutex \in Senders \cup {Nobody}
  /\ todo \in [Senders -> Seq(WholePackets)]
  /\ GoodParser(_parser) /\ ble \in BleReaders
  /\ arrived \in Nat /\ deinitsLeft \in Nat
  /\ received \in Seq(WholePackets)

\* The wire and the peer.
Payload(buffer) == SubSeq(buffer, 3, Len(buffer))

\* The BLE packet under construction, and the peer.
WireInv ==
  /\ txBuffer \in BlePackets /\ Payload(txBuffer) \in Seq(Bytes)
  /\ txBuffer = StartedPacket \o Payload(txBuffer)
  /\ Len(txBuffer) = Len(Payload(txBuffer)) + 2
  /\ GoodParser(peer.parser) /\ peer.reader \in BleReaders
  /\ peer.packets \in Seq(WholePackets)
  /\ written \in Seq(WholePackets) /\ disturbed \in BOOLEAN

\* The writers: a thread inside the driver writes the next byte of its packet,
\* or is the reader and writes nothing; a sender holds the lock of send().
WriteInv ==
  /\ writing \in [Threads -> Writings]
  /\ \A t \in Threads :
       /\ writing[t].step = "bytes" /\ link = "serial" => writing[t].bytes # <<>>
       /\ access[t].step \in {"put", "publish", "enable"} =>
            /\ link = "serial" /\ writing[t].step = "bytes"
            /\ access[t].byte = Head(writing[t].bytes)
       /\ access[t].step = "advance" =>
            link = "serial" /\ t = Reader /\ writing[t].step = "none" /\ forward = <<>>
       /\ writing[t].step = "bytes" /\ t # Reader => todo[t] # <<>> /\ _tx_mutex = t
  /\ forward # <<>> \/ writing[Reader].step # "none" => received # <<>>

\* Where a thread can be in write_midi_byte(): only a writer with bytes left is
\* in it, and a writer that has met no other finds the packet as it left it.
InByteSteps == {"check", "flush", "start", "append", "aborted"}
BleInv ==
  /\ inByte \in [Threads -> InByteSteps]
  /\ \A t \in Threads : inByte[t] # "check" =>
       link = "ble" /\ writing[t].step = "bytes" /\ writing[t].bytes # <<>>
  /\ ~disturbed =>
       /\ \A t, u \in Threads :
            writing[t].step = "bytes" /\ writing[u].step = "bytes" => t = u
       /\ \A t \in Threads :
            /\ inByte[t] # "aborted"
            /\ inByte[t] = "append" => ~(Len(txBuffer) >= BLE_MAX_PACKET_SIZE)
            /\ inByte[t] = "flush" => Len(txBuffer) >= BLE_MAX_PACKET_SIZE

\* What keeps every type.
Typed == UartInv /\ BaseInv /\ WireInv /\ WriteInv /\ BleInv

\* What the constants are.
LEMMA Given ==
  /\ Threads = Senders \cup {Reader} /\ Reader \notin Senders /\ Nobody \notin Threads
  /\ TxCapacity \in Nat \ {0} /\ RxCapacity \in Nat \ {0}
  /\ ThruSlots \in Nat \ {0} /\ Slots = 1 .. ThruSlots
  /\ "none" \notin Sinks
  /\ \A s \in Scenarios :
       /\ s.link \in {"serial", "ble"} /\ s.loopback \in BOOLEAN
       /\ s.outgoing \in [Senders -> Seq(WholePackets)]
       /\ s.sinks \subseteq Sinks /\ s.deinits \in Nat /\ s.faults \in Nat
       /\ Len(s.units) \in Nat
       /\ \A i \in 1 .. Len(s.units) :
            /\ s.link = "serial" => s.units[i] \in [1 .. 1 -> Bytes]
            /\ s.link = "ble" => s.units[i] \in BlePackets
<1>1. /\ Threads = Senders \cup {Reader} /\ Reader \notin Senders /\ Nobody \notin Threads
      /\ TxCapacity \in Nat \ {0} /\ RxCapacity \in Nat \ {0}
      /\ ThruSlots \in Nat \ {0} /\ Slots = 1 .. ThruSlots
      /\ "none" \notin Sinks
  BY MidiAssumption, UartAssumption DEF Slots, Sinks
<1>2. ASSUME NEW s \in Scenarios
      PROVE  /\ s.link \in {"serial", "ble"} /\ s.loopback \in BOOLEAN
             /\ s.outgoing \in [Senders -> Seq(WholePackets)]
             /\ s.sinks \subseteq Sinks /\ s.deinits \in Nat /\ s.faults \in Nat
             /\ Len(s.units) \in Nat
             /\ \A i \in 1 .. Len(s.units) :
                  /\ s.link = "serial" => s.units[i] \in [1 .. 1 -> Bytes]
                  /\ s.link = "ble" => s.units[i] \in BlePackets
  <2> DEFINE U == IF s.link = "serial" THEN [1 .. 1 -> Bytes] ELSE BlePackets
  <2>1. /\ s.link \in {"serial", "ble"} /\ s.loopback \in BOOLEAN
        /\ s.outgoing \in [Senders -> Seq(WholePackets)]
        /\ s.sinks \subseteq Sinks /\ s.deinits \in Nat /\ s.faults \in Nat
        /\ s.units \in Seq(U)
    BY MidiAssumption
  <2> HIDE DEF U
  <2>2. Len(s.units) \in Nat /\ \A i \in 1 .. Len(s.units) : s.units[i] \in U
    BY <2>1, ElementOfSeq, LenProperties
  <2>3. (s.link = "serial" => U = [1 .. 1 -> Bytes]) /\ (s.link = "ble" => U = BlePackets)
    BY DEF U
  <2> QED BY <2>1, <2>2, <2>3
<1> QED BY <1>1, <1>2

\* A ring is empty at first, and insert() keeps it one.
LEMMA RingsKept ==
  ASSUME NEW capacity \in Nat \ {0}
  PROVE  /\ EmptyRing(capacity) \in Rings(capacity)
         /\ Content(EmptyRing(capacity), capacity) = <<>>
         /\ \A ring \in Rings(capacity), b \in Bytes : insert(ring, b) \in Rings(capacity)
<1>1. EmptyRing(capacity) \in Rings(capacity)
  BY ByteKinds DEF EmptyRing, Rings
<1>2. Content(EmptyRing(capacity), capacity) = <<>>
  <2>1. is_empty(EmptyRing(capacity))
    BY DEF is_empty, EmptyRing
  <2> QED BY <1>1, <2>1, ContentIs
<1>3. ASSUME NEW ring \in Rings(capacity), NEW b \in Bytes
      PROVE  insert(ring, b) \in Rings(capacity)
  <2>1. NextSlot(ring, ring.head) \in 0 .. capacity
    BY SlotsGoRound DEF Rings
  <2> DEFINE slot == NextSlot(ring, ring.head)
  <2> HIDE DEF slot
  <2>2. [ring EXCEPT !.cells[slot] = b, !.head = slot] \in Rings(capacity)
    BY <2>1 DEF Rings, slot
  <2> QED BY <2>2 DEF insert, slot
<1> QED BY <1>1, <1>2, <1>3

\* What a step may do inside the driver.
UartStep ==
  \/ \E t \in Threads, b \in Bytes : UartWrite(t, b)
  \/ \E t \in Threads : Put(t) \/ Publish(t) \/ Enable(t) \/ UartRead(t) \/ Advance(t)
  \/ \E b \in Bytes : IsrReceive(b)
  \/ IsrSend \/ IsrIdle \/ IsrFails \/ UartOpen \/ UartClose
  \/ /\ faultsLeft > 0 /\ faultsLeft' = faultsLeft - 1
     /\ UNCHANGED <<uartUp, loopback, mutex, rx, tx, txIrq, access, history>>
  \/ UNCHANGED uartVars

\* Every step of the driver keeps its invariant.
LEMMA UartKept ==
  ASSUME UartInv, scenario \in Scenarios, scenario' = scenario, UartStep
  PROVE  UartInv'
<1> DEFINE Accesses == [step : {"none", "put", "publish", "enable", "advance"},
                        byte : Bytes, slot : Nat]
<1> USE DEF UartInv, history, uartVars
<1>0. /\ Nobody \notin Threads /\ TxCapacity \in Nat \ {0} /\ RxCapacity \in Nat \ {0}
      /\ scenario.faults \in Nat /\ scenario.loopback \in BOOLEAN
  BY Given
<1>1. ASSUME NEW t \in Threads, NEW b \in Bytes, UartWrite(t, b) PROVE UartInv'
  <2>1. NextSlot(tx, tx.head) \in 0 .. TxCapacity
    BY <1>0, SlotsGoRound DEF Rings
  <2>2. \A u \in Threads : access[u].step = "none"
    BY <1>0, <1>1 DEF UartWrite
  <2> QED BY <1>0, <1>1, <2>1, <2>2 DEF UartWrite, To
<1>2. ASSUME NEW t \in Threads, Put(t) PROVE UartInv'
  <2>1. access[t].slot \in 0 .. TxCapacity /\ access[t].byte \in Bytes
    BY <1>2 DEF Put
  <2>2. tx' \in Rings(TxCapacity)
    BY <1>0, <1>2, <2>1, PutIsUnseen DEF Put
  <2> QED BY <1>0, <1>2, <2>1, <2>2 DEF Put
<1>3. ASSUME NEW t \in Threads, Publish(t) PROVE UartInv'
  <2>1. access[t].slot \in 0 .. TxCapacity /\ access[t].byte \in Bytes
    BY <1>3 DEF Publish
  <2>2. tx' \in Rings(TxCapacity)
    BY <1>0, <1>3, <2>1, PublishAppends DEF Publish
  <2>3. queued' \in Seq(Bytes)
    BY <1>3, <2>1, AppendProperties DEF Publish
  <2> QED BY <1>0, <1>3, <2>1, <2>2, <2>3 DEF Publish
<1>4. ASSUME NEW t \in Threads, Enable(t) PROVE UartInv'
  <2>1. NoAccess \in Accesses /\ NoAccess.step = "none"
    BY ByteKinds DEF NoAccess
  <2>2. \A u \in Threads : u # t => access[u].step = "none"
    BY <1>0, <1>4 DEF Enable
  <2> QED BY <1>0, <1>4, <2>1, <2>2 DEF Enable
<1>5. ASSUME NEW t \in Threads, UartRead(t) PROVE UartInv'
  <2>1. NextSlot(rx, rx.tail) \in 0 .. RxCapacity
    BY <1>0, SlotsGoRound DEF Rings
  <2>2. \A u \in Threads : access[u].step = "none"
    BY <1>0, <1>5 DEF UartRead
  <2>3. peek(rx) \in Bytes
    BY <1>0, <1>5, RemoveTakesFirst DEF UartRead
  <2> QED BY <1>0, <1>5, <2>1, <2>2, <2>3 DEF UartRead, To
<1>6. ASSUME NEW t \in Threads, Advance(t) PROVE UartInv'
  <2>1. NoAccess \in Accesses /\ NoAccess.step = "none"
    BY ByteKinds DEF NoAccess
  <2>2. \A u \in Threads : u # t => access[u].step = "none"
    BY <1>0, <1>6 DEF Advance
  <2>3. rx' \in Rings(RxCapacity)
    BY <1>6 DEF Advance, Rings
  <2> QED BY <1>0, <1>6, <2>1, <2>2, <2>3 DEF Advance
<1>7. ASSUME NEW b \in Bytes, IsrReceive(b) PROVE UartInv'
  <2>1. rx' \in Rings(RxCapacity) /\ tx' \in Rings(TxCapacity)
    BY <1>0, <1>7, RingsKept DEF IsrReceive
  <2>2. queued' \in Seq(Bytes)
    BY <1>7, AppendProperties DEF IsrReceive
  <2>3. {uartUp', txIrq', clobbered', stalled', overrun'} \subseteq BOOLEAN
    BY <1>0, <1>7 DEF IsrReceive, NoRoom
  <2> QED BY <1>0, <1>7, <2>1, <2>2, <2>3 DEF IsrReceive
<1>8. ASSUME IsrSend PROVE UartInv'
  <2>1. tx' \in Rings(TxCapacity)
    BY <1>0, <1>8, RemoveTakesFirst DEF IsrSend
  <2>2. queued' \in Seq(Bytes)
    BY <1>8, HeadTailProperties DEF IsrSend
  <2> QED BY <1>0, <1>8, <2>1, <2>2 DEF IsrSend
<1>9. ASSUME IsrIdle \/ UartOpen \/ UartClose PROVE UartInv'
  BY <1>0, <1>9 DEF IsrIdle, UartOpen, UartClose
<1>10. ASSUME IsrFails PROVE UartInv'
  <2>1. faultsLeft' \in 0 .. scenario.faults
    <3>1. faultsLeft \in 0 .. scenario.faults /\ faultsLeft > 0 /\ faultsLeft' = faultsLeft - 1
      BY <1>10 DEF IsrFails
    <3> QED BY <1>0, <3>1
  <2>2. {uartUp', txIrq', clobbered', stalled', overrun'} \subseteq BOOLEAN
    BY <1>10 DEF IsrFails
  <2>3. UNCHANGED <<uartUp, loopback, mutex, rx, tx, access, queued, clobbered, overrun>>
    BY <1>10 DEF IsrFails
  <2> QED BY <2>1, <2>2, <2>3
<1>11. ASSUME faultsLeft > 0, faultsLeft' = faultsLeft - 1,
              UNCHANGED <<uartUp, loopback, mutex, rx, tx, txIrq, access, history>>
       PROVE  UartInv'
  BY <1>0, <1>11
<1>12. ASSUME UNCHANGED uartVars PROVE UartInv'
  BY <1>12
<1> QED BY <1>1, <1>2, <1>3, <1>4, <1>5, <1>6, <1>7, <1>8, <1>9, <1>10, <1>11, <1>12
        DEF UartStep

\* What a write in progress is made of.
LEMMA WritingTypes ==
  /\ NotWriting \in Writings /\ NotWriting.step = "none"
  /\ \A p \in WholePackets :
       [step |-> "bytes", packet |-> <<p>>, bytes |-> Midi1Bytes(p)] \in Writings
  /\ \A w \in Writings :
       /\ w.bytes \in Seq(Bytes) /\ Len(w.bytes) \in Nat
       /\ w.bytes # <<>> => /\ Head(w.bytes) \in Bytes
                            /\ [w EXCEPT !.bytes = Tail(@)] \in Writings
                            /\ Tail(w.bytes) \in Seq(Bytes)
                            /\ Len(Tail(w.bytes)) = Len(w.bytes) - 1
                            /\ Len(w.bytes) # 1 => Tail(w.bytes) # <<>>
<1> DEFINE most == SYSEX7_DATA64_MAX_PAYLOAD_SIZE + 2
           P == BoundedSeq(Packets, 1)
           B == BoundedSeq(Bytes, most)
<1>1. most \in Nat /\ Writings = [step : {"none", "bytes"}, packet : P, bytes : B]
  BY ByteKinds DEF Writings
<1>2. \A s : s \in B <=> s \in Seq(Bytes) /\ Len(s) <= most
  BY <1>1, Bounded
<1>3. <<>> \in P /\ <<>> \in B
  BY <1>1, EmptyIsBounded
<1>4. \A p \in WholePackets : <<p>> \in P
  <2> SUFFICES ASSUME NEW p \in WholePackets PROVE <<p>> \in P
    OBVIOUS
  <2>1. p \in Packets
    BY DEF WholePackets
  <2>2. <<p>> \in Seq(Packets) /\ Len(<<p>>) <= 1
    BY <2>1
  <2> QED BY <2>2, Bounded
<1> HIDE DEF P, B, most
<1>5. NotWriting \in Writings /\ NotWriting.step = "none"
  BY <1>1, <1>3 DEF NotWriting
<1>6. ASSUME NEW p \in WholePackets
      PROVE  [step |-> "bytes", packet |-> <<p>>, bytes |-> Midi1Bytes(p)] \in Writings
  <2>1. Midi1Bytes(p) \in B /\ <<p>> \in P
    BY <1>2, <1>4, BytesFit DEF most
  <2> QED BY <1>1, <2>1
<1>7. ASSUME NEW w \in Writings
      PROVE  /\ w.bytes \in Seq(Bytes) /\ Len(w.bytes) \in Nat
             /\ w.bytes # <<>> => /\ Head(w.bytes) \in Bytes
                                  /\ [w EXCEPT !.bytes = Tail(@)] \in Writings
                                  /\ Tail(w.bytes) \in Seq(Bytes)
                                  /\ Len(Tail(w.bytes)) = Len(w.bytes) - 1
                                  /\ Len(w.bytes) # 1 => Tail(w.bytes) # <<>>
  <2>1. w.bytes \in B /\ w.bytes \in Seq(Bytes) /\ Len(w.bytes) <= most
    BY <1>1, <1>2
  <2>2. Len(w.bytes) \in Nat
    BY <2>1, LenProperties
  <2>3. ASSUME w.bytes # <<>>
        PROVE  /\ Head(w.bytes) \in Bytes /\ Tail(w.bytes) \in Seq(Bytes)
               /\ Len(Tail(w.bytes)) = Len(w.bytes) - 1
    BY <2>1, <2>3, HeadTailProperties
  <2>4. ASSUME w.bytes # <<>> PROVE [w EXCEPT !.bytes = Tail(@)] \in Writings
    <3>1. Tail(w.bytes) \in B
      <4> DEFINE rest == Tail(w.bytes)
      <4>1. rest \in Seq(Bytes) /\ Len(rest) = Len(w.bytes) - 1
        BY <2>3, <2>4
      <4> HIDE DEF rest
      <4>2. Len(rest) <= most
        BY <1>1, <2>1, <2>2, <4>1
      <4>3. rest \in B
        BY <1>2, <4>1, <4>2
      <4> QED BY <4>3 DEF rest
    <3> QED BY <1>1, <3>1
  <2>5. ASSUME w.bytes # <<>>, Len(w.bytes) # 1 PROVE Tail(w.bytes) # <<>>
    <3>1. Len(Tail(w.bytes)) # 0
      BY <2>2, <2>3, <2>5
    <3>2. Len(<<>>) = 0
      BY EmptySeq
    <3> QED BY <3>1, <3>2
  <2> QED BY <2>1, <2>2, <2>3, <2>4, <2>5
<1> QED BY <1>5, <1>6, <1>7

\* Every step is one the driver knows.
LEMMA NextIsUartStep ==
  ASSUME Typed, [Next]_vars
  PROVE  UartStep /\ scenario' = scenario
<1>1. CASE Transmit
  BY <1>1 DEF Transmit, UartStep
<1>2. CASE Interrupt
  BY <1>2 DEF Interrupt, UartStep
<1>3. CASE Receive
  <2> DEFINE unit == scenario.units[arrived + 1]
  <2>1. /\ arrived + 1 \in 1 .. Len(scenario.units) /\ scenario.link = "serial"
        /\ scenario \in Scenarios
    BY <1>3, Given DEF Receive, Typed, BaseInv, link
  <2>2. unit \in [1 .. 1 -> Bytes]
    BY <2>1, Given
  <2>3. Head(unit) \in Bytes
    BY <2>2
  <2> QED BY <1>3, <2>3 DEF Receive, UartStep
<1>4. ASSUME NEW t \in Threads, Write(t) PROVE UartStep /\ scenario' = scenario
  <2>1. CASE SerialByte(t)
    <3>1. Head(writing[t].bytes) \in Bytes
      <4>1. writing[t] \in Writings /\ writing[t].bytes # <<>>
        BY <2>1 DEF SerialByte, Writes, Typed, WriteInv
      <4> QED BY <4>1, WritingTypes
    <3> QED BY <2>1, <3>1 DEF SerialByte, UartStep
  <2>2. CASE SerialRefused(t)
    BY <2>2 DEF SerialRefused, UartStep
  <2>3. CASE SerialMemory(t)
    BY <2>3 DEF SerialMemory, UartStep
  <2>4. CASE SerialDone(t)
    BY <2>4 DEF SerialDone, UartStep
  <2>5. CASE BleChecks(t) \/ BleFlushes(t) \/ BleStarts(t) \/ BleAppends(t) \/ BleAborts(t)
    BY <2>5 DEF BleChecks, BleFlushes, BleStarts, BleAppends, BleAborts, ByteGoesOn,
       UartStep
  <2>6. CASE BleDone(t)
    BY <2>6 DEF BleDone, UartStep
  <2>7. CASE BleFails(t)
    BY <2>7 DEF BleFails, UartStep
  <2> QED BY <1>4, <2>1, <2>2, <2>3, <2>4, <2>5, <2>6, <2>7 DEF Write
<1>5. ASSUME NEW t \in Senders, Send(t) PROVE UartStep /\ scenario' = scenario
  BY <1>5 DEF Send, UartStep
<1>6. CASE SerialRead
  BY <1>6, Given DEF SerialRead, UartStep
<1>7. CASE SerialParse
  BY <1>7, Given DEF SerialParse, UartStep
<1>8. CASE ReadNothing \/ UNCHANGED vars
  BY <1>8 DEF ReadNothing, UartStep, vars
<1>9. CASE BleFetch \/ BleParse \/ Thru \/ Deinit
  BY <1>9 DEF BleFetch, BleParse, Thru, Deinit, UartStep
<1>10. ASSUME NEW s \in scenario.sinks, Register(s) \/ Unregister(s)
       PROVE  UartStep /\ scenario' = scenario
  BY <1>10 DEF Register, Unregister, UartStep
<1>11. CASE CloseTransport
  BY <1>11 DEF CloseTransport, UartStep
<1>12. CASE Reopen
  BY <1>12 DEF Reopen, UartStep
<1> QED BY <1>1, <1>2, <1>3, <1>4, <1>5, <1>6, <1>7, <1>8, <1>9, <1>10, <1>11, <1>12 DEF Next

\* The initial state is typed.
LEMMA InitIsTyped == Init => Typed
<1> SUFFICES ASSUME Init PROVE Typed
  OBVIOUS
<1>1. scenario \in Scenarios
  BY DEF Init
<1>2. UartInv
  <2>1. NoAccess \in [step : {"none", "put", "publish", "enable", "advance"},
                      byte : Bytes, slot : Nat] /\ NoAccess.step = "none"
    BY ByteKinds DEF NoAccess
  <2>2. rx \in Rings(RxCapacity) /\ tx \in Rings(TxCapacity)
    BY Given, RingsKept DEF Init, UartInit
  <2>3. scenario.faults \in Nat
    BY <1>1, Given
  <2>4. <<>> \in Seq(Bytes)
    BY EmptySeq
  <2>5. /\ loopback = scenario.loopback /\ faultsLeft = scenario.faults
        /\ uartUp = TRUE /\ mutex = Nobody /\ txIrq = FALSE
        /\ access = [t \in Threads |-> NoAccess]
        /\ queued = <<>> /\ clobbered = FALSE /\ stalled = FALSE /\ overrun = FALSE
    BY DEF Init, UartInit
  <2>6. faultsLeft \in 0 .. scenario.faults
    BY <2>3, <2>5
  <2>7. \A t \in Threads : access[t].step = "none"
    BY <2>1, <2>5
  <2> QED BY <2>1, <2>2, <2>4, <2>5, <2>6, <2>7 DEF UartInv
<1>3. BaseInv
  <2>1. /\ scenario.outgoing \in [Senders -> Seq(WholePackets)]
        /\ scenario.deinits \in Nat
    BY <1>1, Given
  <2>2. GoodParser(ResetParser) /\ IdleReader \in BleReaders /\ <<>> \in Seq(WholePackets)
    BY ResetIsGood, BleTypes, EmptySeq
  <2> QED BY <1>1, <2>1, <2>2 DEF Init, BaseInv, Slots
<1>4. WireInv
  <2>1. /\ GoodParser(ResetParser) /\ IdleReader \in BleReaders /\ <<>> \in Seq(WholePackets)
        /\ <<>> \in Seq(Bytes) /\ Len(<<>>) = 0
    BY ResetIsGood, BleTypes, EmptySeq
  <2>2. /\ StartedPacket \in BlePackets /\ Payload(StartedPacket) = <<>>
        /\ StartedPacket \o <<>> = StartedPacket /\ Len(StartedPacket) = 2
    <3>1. StartedPacket \in Seq(Bytes) /\ Len(StartedPacket) = 2
      BY BleTypes
    <3>2. Payload(StartedPacket) = <<>>
      BY <3>1, SubSeqEmpty DEF Payload
    <3> QED BY <3>1, <3>2, BleTypes, ConcatEmptySeq
  <2>3. /\ txBuffer = StartedPacket /\ written = <<>> /\ disturbed = FALSE
        /\ peer.reader = IdleReader /\ peer.parser = ResetParser /\ peer.packets = <<>>
    BY DEF Init
  <2>4. Len(txBuffer) = Len(Payload(txBuffer)) + 2
    BY <2>1, <2>2, <2>3
  <2> QED BY <2>1, <2>2, <2>3, <2>4 DEF WireInv
<1>5. WriteInv
  BY WritingTypes, Given DEF Init, UartInit, WriteInv, NoAccess, link
<1>6. BleInv
  BY WritingTypes DEF Init, BleInv, InByteSteps
<1> QED BY <1>2, <1>3, <1>4, <1>5, <1>6 DEF Typed

\* What the end of a write leaves.
LEMMA Returned ==
  ASSUME Typed, NEW t \in Threads, NEW ok \in BOOLEAN, writing[t].step = "bytes",
         WriteReturns(t, ok)
  PROVE  /\ _tx_mutex' \in Senders \cup {Nobody}
         /\ todo' \in [Senders -> Seq(WholePackets)]
         /\ written' \in Seq(WholePackets) /\ disturbed' \in BOOLEAN
         /\ open' = open /\ _thru_interfaces' = _thru_interfaces
         /\ deinitsLeft' = deinitsLeft
         /\ writing' = [writing EXCEPT ![t] = NotWriting]
         /\ \A u \in Senders : u # t /\ writing[u].step = "bytes" =>
              /\ todo'[u] # <<>> /\ _tx_mutex' = u
         /\ t # Reader => forward' = forward
         /\ t = Reader => received # <<>>
<1> USE DEF Typed, WriteReturns, BaseInv, WireInv, WriteInv
<1>1. written' \in Seq(WholePackets)
  <2>1. Front(written) \in Seq(WholePackets)
    <3>1. CASE written = <<>>
      <4>1. Len(written) = 0
        BY <3>1
      <4>2. Front(written) = <<>>
        BY <4>1, SubSeqEmpty DEF Front
      <4> QED BY <4>2, EmptySeq
    <3>2. CASE written # <<>>
      BY <3>2, FrontAndLast
    <3> QED BY <3>1, <3>2
  <2> QED BY <2>1
<1>2. disturbed' \in BOOLEAN
  BY DEF Continues
<1>3. CASE t = Reader
  <2>1. _tx_mutex' = _tx_mutex /\ todo' = todo
    BY <1>3 DEF ThruReturns
  <2>2. ASSUME NEW u \in Senders, writing[u].step = "bytes"
        PROVE  todo[u] # <<>> /\ _tx_mutex = u
    BY <2>2, Given
  <2>3. received # <<>>
    BY <1>3
  <2> QED BY <1>1, <1>2, <1>3, <2>1, <2>2, <2>3
<1>4. CASE t # Reader
  <2>1. t \in Senders /\ Nobody \notin Threads
    BY <1>4, Given
  <2>2. /\ _tx_mutex' = Nobody /\ forward' = forward /\ _tx_mutex = t
        /\ todo' = [todo EXCEPT ![t] = IF ok THEN Tail(@) ELSE <<>>]
        /\ todo[t] \in Seq(WholePackets) /\ todo[t] # <<>>
    BY <1>4, <2>1 DEF SendReturns
  <2>3. Tail(todo[t]) \in Seq(WholePackets) /\ <<>> \in Seq(WholePackets)
    BY <2>2, HeadTailProperties, EmptySeq
  <2>4. todo' \in [Senders -> Seq(WholePackets)]
    BY <2>1, <2>2, <2>3
  <2>5. \A u \in Senders : u # t => writing[u].step # "bytes"
    BY <2>1, <2>2, Given
  <2> QED BY <1>1, <1>2, <1>4, <2>2, <2>4, <2>5
<1> QED BY <1>3, <1>4

\* read() hands over what has been parsed.
LEMMA Delivered ==
  ASSUME Typed, NEW parsed, GoodParser(parsed.parser), parsed.out \in Seq(WholePackets),
         Deliver(parsed)
  PROVE  /\ GoodParser(_parser') /\ received' \in Seq(WholePackets)
         /\ forward' # <<>> \/ received # <<>> => received' # <<>>
<1>1. received \in Seq(WholePackets)
  BY DEF Typed, BaseInv
<1>2. received' \in Seq(WholePackets)
  BY <1>1, ConcatProperties DEF Deliver
<1>3. received' = <<>> => received = <<>> /\ parsed.out = <<>>
  BY <1>1, ConcatSimplifications DEF Deliver
<1> QED BY <1>2, <1>3 DEF Deliver

\* What read() parses at a time.
LEMMA ReadIsGood ==
  ASSUME Typed
  PROVE  /\ SerialParse => /\ GoodParser(parse(_parser, access[Reader].byte).parser)
                           /\ parse(_parser, access[Reader].byte).out \in Seq(WholePackets)
         /\ BleParse => /\ TakeByte(ble).reader \in BleReaders
                        /\ GoodParser(ParsedAll(_parser, TakeByte(ble).out).parser)
                        /\ ParsedAll(_parser, TakeByte(ble).out).out \in Seq(WholePackets)
<1> USE DEF Typed, BaseInv
<1>1. access[Reader].byte \in Bytes
  BY Given DEF UartInv
<1>2. SerialParse => /\ GoodParser(parse(_parser, access[Reader].byte).parser)
                     /\ parse(_parser, access[Reader].byte).out \in Seq(WholePackets)
  BY <1>1, ParseIsGood
<1>3. ASSUME BleParse
      PROVE  TakeByte(ble).reader \in BleReaders /\ TakeByte(ble).out \in Seq(Bytes)
  BY <1>3, ByteTaken DEF BleParse
<1>4. ASSUME BleParse
      PROVE  /\ GoodParser(ParsedAll(_parser, TakeByte(ble).out).parser)
             /\ ParsedAll(_parser, TakeByte(ble).out).out \in Seq(WholePackets)
  BY <1>3, <1>4, ParsedIsGood
<1> QED BY <1>2, <1>3, <1>4

\* The interface and its reader keep their types.
LEMMA BaseKept ==
  ASSUME Typed, [Next]_vars
  PROVE  BaseInv'
<1>0. BaseInv /\ WriteInv /\ scenario' = scenario /\ scenario \in Scenarios
  BY NextIsUartStep DEF Typed, BaseInv
<1> USE DEF baseVars, readVars
<1>1. CASE UNCHANGED <<scenario, baseVars, readVars>>
  BY <1>0, <1>1 DEF BaseInv
<1>2. CASE Receive
  BY <1>0, <1>2 DEF BaseInv, Receive
<1>3. ASSUME NEW t \in Threads, NEW ok \in BOOLEAN, writing[t].step = "bytes",
             WriteReturns(t, ok), UNCHANGED readVars
      PROVE  BaseInv'
  BY <1>0, <1>3, Returned DEF BaseInv
<1>4. ASSUME NEW t \in Threads, Write(t) PROVE BaseInv'
  <2>1. CASE SerialByte(t) \/ SerialMemory(t)
    BY <1>1, <2>1 DEF SerialByte, SerialMemory
  <2>2. CASE SerialRefused(t)
    BY <1>3, <2>2 DEF SerialRefused, Writes
  <2>3. CASE SerialDone(t)
    <3>1. writing[t].step = "bytes"
      BY <1>0, <2>3 DEF SerialDone, Enable, WriteInv
    <3>2. CASE Len(writing[t].bytes) = 1
      BY <1>3, <2>3, <3>1, <3>2 DEF SerialDone
    <3>3. CASE Len(writing[t].bytes) # 1
      BY <1>1, <2>3, <3>3 DEF SerialDone
    <3> QED BY <3>2, <3>3
  <2>4. CASE BleDone(t) \/ BleFails(t)
    BY <1>3, <2>4 DEF BleDone, BleFails, Writes
  <2>5. CASE BleChecks(t) \/ BleFlushes(t) \/ BleStarts(t) \/ BleAppends(t) \/ BleAborts(t)
    BY <1>1, <2>5 DEF BleChecks, BleFlushes, BleStarts, BleAppends, BleAborts, ByteGoesOn
  <2> QED BY <1>4, <2>1, <2>2, <2>3, <2>4, <2>5 DEF Write
<1>5. ASSUME NEW t \in Senders, Send(t) PROVE BaseInv'
  BY <1>0, <1>5 DEF Send, BaseInv
<1>6. CASE SerialParse
  <2>1. GoodParser(_parser') /\ received' \in Seq(WholePackets)
    BY <1>6, ReadIsGood, Delivered DEF SerialParse
  <2> QED BY <1>0, <1>6, <2>1 DEF SerialParse, BaseInv
<1>7. CASE BleParse
  <2>1. /\ GoodParser(_parser') /\ received' \in Seq(WholePackets)
        /\ ble' \in BleReaders
    BY <1>7, ReadIsGood, Delivered DEF BleParse
  <2> QED BY <1>0, <1>7, <2>1 DEF BleParse, BaseInv
<1>8. CASE BleFetch
  <2>1. arrived + 1 \in 1 .. Len(scenario.units) /\ scenario.link = "ble"
    BY <1>0, <1>8, Given DEF BleFetch, BaseInv, link
  <2>2. scenario.units[arrived + 1] \in BlePackets
    BY <1>0, <2>1, Given
  <2>3. ble' \in BleReaders
    BY <1>0, <1>8, <2>2, FetchedIs DEF BleFetch, BaseInv
  <2> QED BY <1>0, <1>8, <2>3 DEF BleFetch, BaseInv
<1>9. CASE Thru
  BY <1>0, <1>9 DEF Thru, BaseInv
<1>10. ASSUME NEW s \in scenario.sinks, Register(s) PROVE BaseInv'
  <2>1. s \in Sinks /\ "none" \notin Sinks
    BY <1>0, Given
  <2> QED BY <1>0, <1>10, <2>1 DEF Register, BaseInv, FreeSlots
<1>11. ASSUME NEW s \in scenario.sinks, Unregister(s) PROVE BaseInv'
  BY <1>0, <1>11 DEF Unregister, BaseInv
<1>12. CASE Deinit
  BY <1>0, <1>12 DEF Deinit, BaseInv
<1>13. CASE CloseTransport
  BY <1>0, <1>13 DEF CloseTransport, BaseInv
<1>14. CASE Reopen
  <2>1. GoodParser(_parser') /\ ble' \in BleReaders
    <3>1. CASE link = "serial"
      BY <1>0, <1>14, <3>1 DEF Reopen, BaseInv
    <3>2. CASE link # "serial"
      <4>1. 0 \in 0 .. BLE_MAX_PACKET_SIZE
        BY BleTypes
      <4>2. [ble EXCEPT !.active = FALSE, !.index = 0, !.search = TRUE, !.sysex = FALSE]
              \in BleReaders
        BY <1>0, <4>1 DEF BaseInv, BleReaders
      <4>3. /\ _parser' = ResetParser
            /\ ble' = [ble EXCEPT !.active = FALSE, !.index = 0, !.search = TRUE,
                                  !.sysex = FALSE]
        BY <1>14, <3>2 DEF Reopen
      <4> QED BY <4>2, <4>3, ResetIsGood
    <3> QED BY <3>1, <3>2
  <2> QED BY <1>0, <1>14, <2>1 DEF Reopen, BaseInv
<1>15. CASE Transmit \/ Interrupt \/ SerialRead
  BY <1>1, <1>15 DEF Transmit, Interrupt, SerialRead
<1>16. CASE ReadNothing \/ UNCHANGED vars
  BY <1>1, <1>16 DEF ReadNothing, vars
<1> QED BY <1>2, <1>4, <1>5, <1>6, <1>7, <1>8, <1>9, <1>10, <1>11, <1>12, <1>13, <1>14,
           <1>15, <1>16 DEF Next

\* The peer reads bytes.
LEMMA PeerKept ==
  ASSUME WireInv, NEW bytes \in Seq(Bytes), NEW reader \in BleReaders, PeerReads(bytes, reader)
  PROVE  /\ GoodParser(peer'.parser) /\ peer'.reader \in BleReaders
         /\ peer'.packets \in Seq(WholePackets)
<1>1. /\ GoodParser(ParsedAll(peer.parser, bytes).parser)
      /\ ParsedAll(peer.parser, bytes).out \in Seq(WholePackets)
  BY ParsedIsGood DEF WireInv
<1>2. peer.packets \o ParsedAll(peer.parser, bytes).out \in Seq(WholePackets)
  BY <1>1, ConcatProperties DEF WireInv
<1> QED BY <1>1, <1>2 DEF PeerReads

\* A BLE packet goes to the peer.
LEMMA FlushKept ==
  ASSUME WireInv, FlushPacket
  PROVE  /\ GoodParser(peer'.parser) /\ peer'.reader \in BleReaders
         /\ peer'.packets \in Seq(WholePackets)
<1>1. CASE Len(txBuffer) <= 2
  BY <1>1 DEF FlushPacket, WireInv
<1>2. CASE ~(Len(txBuffer) <= 2)
  <2> DEFINE taken == TakeAll(peer.reader, txBuffer)
  <2>1. txBuffer # <<>>
    <3>1. Len(<<>>) = 0
      BY EmptySeq
    <3> QED BY <1>2, <3>1
  <2>2. taken.reader \in BleReaders /\ taken.out \in Seq(Bytes)
    BY <2>1, AllTaken DEF WireInv
  <2>3. PeerReads(taken.out, taken.reader)
    BY <1>2 DEF FlushPacket
  <2> HIDE DEF taken
  <2> QED BY <2>2, <2>3, PeerKept
<1> QED BY <1>1, <1>2

\* A byte more in the BLE packet being filled.
LEMMA BufferGrows ==
  ASSUME NEW buffer \in BlePackets, Payload(buffer) \in Seq(Bytes),
         buffer = StartedPacket \o Payload(buffer), Len(buffer) = Len(Payload(buffer)) + 2,
         ~(Len(buffer) >= BLE_MAX_PACKET_SIZE), NEW b \in Bytes
  PROVE  LET longer == Append(buffer, b)
         IN /\ longer \in BlePackets /\ Payload(longer) = Append(Payload(buffer), b)
            /\ Payload(longer) \in Seq(Bytes)
            /\ longer = StartedPacket \o Payload(longer)
            /\ Len(longer) = Len(Payload(longer)) + 2
<1> DEFINE longer == Append(buffer, b)
           d == Payload(buffer)
<1>1. /\ buffer \in Seq(Bytes) /\ Len(buffer) \in Nat /\ d \in Seq(Bytes) /\ Len(d) \in Nat
      /\ BLE_MAX_PACKET_SIZE \in Nat
      /\ StartedPacket \in Seq(Bytes) /\ Len(StartedPacket) = 2
  BY BleTypes, LenProperties
<1>2. /\ longer \in Seq(Bytes) /\ Len(longer) = Len(buffer) + 1
      /\ Append(d, b) \in Seq(Bytes) /\ Len(Append(d, b)) = Len(d) + 1
  BY <1>1, AppendProperties
<1>3. longer \in BlePackets
  <2> DEFINE n == Len(buffer)
             m == Len(longer)
  <2>1. n \in Nat /\ m = n + 1 /\ ~(n >= BLE_MAX_PACKET_SIZE)
    BY <1>1, <1>2
  <2> HIDE DEF n, m
  <2>2. m <= BLE_MAX_PACKET_SIZE
    BY <1>1, <2>1
  <2> QED BY <1>2, <2>2, BleTypes DEF m
<1>4. longer = StartedPacket \o Append(d, b)
  <2> HIDE DEF d
  <2>1. longer = buffer \o <<b>> /\ Append(d, b) = d \o <<b>> /\ <<b>> \in Seq(Bytes)
    BY <1>1, AppendIsConcat
  <2>2. (StartedPacket \o d) \o <<b>> = StartedPacket \o (d \o <<b>>)
    <3>1. StartedPacket \in Seq(Bytes) /\ d \in Seq(Bytes)
      BY <1>1
    <3> QED BY <2>1, <3>1, Regrouped
  <2>3. buffer = StartedPacket \o d
    BY DEF d
  <2> HIDE DEF longer
  <2>4. (StartedPacket \o d) \o <<b>> = StartedPacket \o (d \o <<b>>)
    BY <2>2
  <2> QED BY <2>1, <2>3, <2>4
<1> HIDE DEF d
<1>5. SubSeq(longer, 3, Len(longer)) = Append(d, b)
  <2> DEFINE e == Append(d, b)
  <2> HIDE DEF e
  <2>1. /\ 3 \in Len(StartedPacket) + 1 .. Len(StartedPacket) + Len(e)
        /\ Len(longer) \in Len(StartedPacket) + 1 .. Len(StartedPacket) + Len(e)
        /\ Len(longer) - 2 = Len(e) /\ 3 - 2 = 1
    BY <1>1, <1>2 DEF d, e
  <2>2. SubSeq(StartedPacket \o e, 3, Len(longer)) = SubSeq(e, 1, Len(e))
    <3> DEFINE m == Len(longer)
    <3>1. /\ StartedPacket \in Seq(Bytes) /\ e \in Seq(Bytes) /\ Len(StartedPacket) = 2
          /\ 3 \in Len(StartedPacket) + 1 .. Len(StartedPacket) + Len(e)
          /\ m \in Len(StartedPacket) + 1 .. Len(StartedPacket) + Len(e)
          /\ m - 2 = Len(e)
      BY <1>1, <1>2, <2>1 DEF e
    <3> HIDE DEF m
    <3>2. SubSeq(StartedPacket \o e, 3, m)
          = SubSeq(e, 3 - Len(StartedPacket), m - Len(StartedPacket))
      BY <3>1, SubSeqOfConcat2
    <3>3. 3 - Len(StartedPacket) = 1 /\ m - Len(StartedPacket) = Len(e)
      BY <3>1
    <3> QED BY <3>2, <3>3 DEF m
  <2>3. SubSeq(e, 1, Len(e)) = e
    BY <1>2, SubSeqFull DEF e
  <2>4. longer = StartedPacket \o e
    BY <1>4 DEF e
  <2> HIDE DEF longer
  <2> QED BY <2>2, <2>3, <2>4 DEF e
<1>6. Payload(longer) = Append(d, b)
  BY <1>5 DEF Payload
<1> QED BY <1>2, <1>3, <1>4, <1>6 DEF d

\* A packet that has just been started.
LEMMA StartedIs ==
  /\ StartedPacket \in BlePackets /\ Payload(StartedPacket) = <<>>
  /\ Payload(StartedPacket) \in Seq(Bytes)
  /\ StartedPacket = StartedPacket \o Payload(StartedPacket)
  /\ Len(StartedPacket) = Len(Payload(StartedPacket)) + 2
  /\ ~(Len(StartedPacket) >= BLE_MAX_PACKET_SIZE)
<1>1. /\ StartedPacket \in Seq(Bytes) /\ Len(StartedPacket) = 2
      /\ <<>> \in Seq(Bytes) /\ Len(<<>>) = 0
  BY BleTypes, EmptySeq
<1>2. Payload(StartedPacket) = <<>>
  BY <1>1, SubSeqEmpty DEF Payload
<1>3. StartedPacket = StartedPacket \o <<>>
  BY <1>1, ConcatEmptySeq
<1>4. Len(StartedPacket) = Len(Payload(StartedPacket)) + 2
  BY <1>1, <1>2
<1>5. ~(Len(StartedPacket) >= BLE_MAX_PACKET_SIZE)
  BY <1>1, BleTypes
<1> QED BY <1>1, <1>2, <1>3, <1>4, <1>5, BleTypes

\* The wire keeps its type, and the packet being filled its beginning.
LEMMA WireKept ==
  ASSUME Typed, [Next]_vars
  PROVE  WireInv'
<1>0. WireInv /\ WriteInv /\ BaseInv /\ UartInv
  BY DEF Typed
<1> USE DEF wireVars
<1>1. CASE UNCHANGED <<txBuffer, peer, written, disturbed>>
  BY <1>0, <1>1 DEF WireInv
<1>2. CASE Receive
  <2>1. disturbed' \in BOOLEAN
    BY <1>2 DEF Receive
  <2> QED BY <1>0, <1>2, <2>1 DEF WireInv, Receive
<1>3. CASE Transmit
  <2>1. peek(tx) \in Bytes
    BY <1>0, <1>3, Given, RemoveTakesFirst DEF Transmit, IsrSend, UartInv
  <2>2. PeerReads(<<peek(tx)>>, peer.reader)
    BY <1>3 DEF Transmit
  <2>3. <<peek(tx)>> \in Seq(Bytes) /\ peer.reader \in BleReaders
    BY <1>0, <2>1 DEF WireInv
  <2>4. /\ GoodParser(peer'.parser) /\ peer'.reader \in BleReaders
        /\ peer'.packets \in Seq(WholePackets)
    BY <1>0, <2>2, <2>3, PeerKept
  <2> QED BY <1>0, <1>3, <2>4 DEF WireInv, Transmit
<1>4. ASSUME NEW t \in Threads, NEW p \in WholePackets, StartWrite(t, p), UNCHANGED peer
      PROVE  WireInv'
  <2>1. written' \in Seq(WholePackets)
    BY <1>0, <1>4, AppendProperties DEF WireInv, StartWrite
  <2>2. disturbed' \in BOOLEAN
    BY <1>0, <1>4 DEF WireInv, StartWrite
  <2>3. txBuffer' = txBuffer \/ txBuffer' = StartedPacket
    BY <1>4 DEF StartWrite
  <2>4. CASE txBuffer' = txBuffer
    BY <1>0, <1>4, <2>1, <2>2, <2>4 DEF WireInv
  <2>5. CASE txBuffer' = StartedPacket
    BY <1>0, <1>4, <2>1, <2>2, <2>5, StartedIs DEF WireInv
  <2> QED BY <2>3, <2>4, <2>5
<1>5. ASSUME NEW t \in Threads, NEW ok \in BOOLEAN, writing[t].step = "bytes",
             WriteReturns(t, ok), UNCHANGED txBuffer,
             GoodParser(peer'.parser), peer'.reader \in BleReaders,
             peer'.packets \in Seq(WholePackets)
      PROVE  WireInv'
  <2>1. written' \in Seq(WholePackets) /\ disturbed' \in BOOLEAN
    BY <1>5, Returned
  <2> QED BY <1>0, <1>5, <2>1 DEF WireInv
<1>6. ASSUME NEW t \in Threads, NEW ok \in BOOLEAN, writing[t].step = "bytes",
             WriteReturns(t, ok), UNCHANGED <<txBuffer, peer>>
      PROVE  WireInv'
  BY <1>0, <1>5, <1>6 DEF WireInv
<1>7. ASSUME NEW t \in Threads, Write(t) PROVE WireInv'
  <2>1. CASE SerialByte(t) \/ SerialMemory(t)
    BY <1>1, <2>1 DEF SerialByte, SerialMemory
  <2>2. CASE SerialRefused(t)
    BY <1>6, <2>2 DEF SerialRefused, Writes
  <2>3. CASE SerialDone(t)
    <3>1. writing[t].step = "bytes"
      BY <1>0, <2>3 DEF SerialDone, Enable, WriteInv
    <3>2. CASE Len(writing[t].bytes) = 1
      BY <1>6, <2>3, <3>1, <3>2 DEF SerialDone
    <3>3. CASE Len(writing[t].bytes) # 1
      BY <1>1, <2>3, <3>3 DEF SerialDone
    <3> QED BY <3>2, <3>3
  <2>4. CASE BleAppends(t)
    <3> DEFINE b == Head(writing[t].bytes)
               longer == Append(txBuffer, b)
    <3>1. b \in Bytes /\ ~(Len(txBuffer) >= BLE_MAX_PACKET_SIZE)
      <4>1. writing[t].bytes # <<>> /\ writing[t] \in Writings
        BY <1>0, <2>4 DEF BleAppends, InByte, WriteInv
      <4>2. Len(txBuffer) \in Nat /\ BLE_MAX_PACKET_SIZE \in Nat
        BY <1>0, BleTypes, LenProperties DEF WireInv
      <4>3. Len(txBuffer) < BLE_MAX_PACKET_SIZE
        BY <2>4 DEF BleAppends
      <4>4. writing[t].bytes \in Seq(Bytes)
        BY <4>1, WritingTypes
      <4>5. b \in Bytes
        BY <4>1, <4>4, HeadTailProperties
      <4> QED BY <4>2, <4>3, <4>5
    <3>2. txBuffer' = longer /\ UNCHANGED <<peer, written, disturbed>>
      BY <2>4 DEF BleAppends, ByteGoesOn
    <3> HIDE DEF b
    <3>3. /\ longer \in BlePackets
          /\ Payload(longer) \in Seq(Bytes)
          /\ longer = StartedPacket \o Payload(longer)
          /\ Len(longer) = Len(Payload(longer)) + 2
      BY <1>0, <3>1, BufferGrows DEF WireInv
    <3> HIDE DEF longer
    <3> QED BY <1>0, <3>2, <3>3 DEF WireInv
  <2>5. CASE BleDone(t)
    <3>1. /\ GoodParser(peer'.parser) /\ peer'.reader \in BleReaders
          /\ peer'.packets \in Seq(WholePackets)
      BY <1>0, <2>5, FlushKept DEF BleDone
    <3> QED BY <1>5, <2>5, <3>1 DEF BleDone, Writes
  <2>6. CASE BleFails(t)
    BY <1>6, <2>6 DEF BleFails, Writes
  <2>7. CASE BleChecks(t) \/ BleAborts(t)
    BY <1>1, <2>7 DEF BleChecks, BleAborts, ByteGoesOn
  <2>8. CASE BleFlushes(t)
    <3>1. /\ GoodParser(peer'.parser) /\ peer'.reader \in BleReaders
          /\ peer'.packets \in Seq(WholePackets)
      BY <1>0, <2>8, FlushKept DEF BleFlushes
    <3> QED BY <1>0, <2>8, <3>1 DEF WireInv, BleFlushes, ByteGoesOn
  <2>9. CASE BleStarts(t)
    BY <1>0, <2>9, StartedIs DEF WireInv, BleStarts, ByteGoesOn
  <2> QED BY <1>7, <2>1, <2>2, <2>3, <2>4, <2>5, <2>6, <2>7, <2>8, <2>9 DEF Write
<1>8. ASSUME NEW t \in Senders, Send(t) PROVE WireInv'
  <2>1. t \in Threads /\ todo[t] \in Seq(WholePackets) /\ todo[t] # <<>>
    BY <1>0, <1>8, Given DEF Send, BaseInv
  <2>2. Head(todo[t]) \in WholePackets
    BY <2>1, HeadTailProperties
  <2> QED BY <1>4, <1>8, <2>1, <2>2 DEF Send
<1>9. CASE Thru
  <2>1. CASE Head(forward) = "own"
    <3>1. received \in Seq(WholePackets) /\ received # <<>> /\ Reader \in Threads
      BY <1>0, <1>9, Given DEF Thru, BaseInv, WriteInv
    <3>2. Last(received) \in WholePackets
      BY <3>1, FrontAndLast
    <3> QED BY <1>4, <1>9, <2>1, <3>1, <3>2 DEF Thru
  <2>2. CASE Head(forward) # "own"
    BY <1>1, <1>9, <2>2 DEF Thru
  <2> QED BY <2>1, <2>2
<1>10. ASSUME NEW s \in scenario.sinks, Register(s) \/ Unregister(s) PROVE WireInv'
  BY <1>1, <1>10 DEF Register, Unregister
<1>11. CASE Interrupt \/ SerialRead \/ SerialParse \/ BleFetch \/ BleParse
  BY <1>1, <1>11 DEF Interrupt, SerialRead, SerialParse, BleFetch, BleParse
<1>12. CASE Deinit \/ CloseTransport \/ Reopen
  BY <1>1, <1>12 DEF Deinit, CloseTransport, Reopen
<1>13. CASE ReadNothing \/ UNCHANGED vars
  BY <1>1, <1>13 DEF ReadNothing, vars
<1> QED BY <1>2, <1>3, <1>7, <1>8, <1>9, <1>10, <1>11, <1>12, <1>13 DEF Next

\* The writers stay as they are described.
LEMMA WriteKept ==
  ASSUME Typed, [Next]_vars
  PROVE  WriteInv'
<1>0. /\ WriteInv /\ scenario' = scenario /\ link' = link
      /\ Reader \in Threads /\ Nobody \notin Threads /\ Reader \notin Senders
      /\ \A t \in Threads : t # Reader => t \in Senders
      /\ \A t \in Senders : t \in Threads
      /\ writing \in [Threads -> Writings]
      /\ access \in [Threads -> [step : {"none", "put", "publish", "enable", "advance"},
                                 byte : Bytes, slot : Nat]]
      /\ \A t \in Threads : access[t].step # "none" => mutex = t
  BY NextIsUartStep, Given DEF Typed, WriteInv, UartInv, link
<1>1. CASE UNCHANGED <<writing, forward, todo, _tx_mutex, access, received>>
  BY <1>0, <1>1 DEF WriteInv
<1>2. ASSUME NEW t \in Threads, NEW ok \in BOOLEAN, writing[t].step = "bytes",
             WriteReturns(t, ok), received' = received, access'[t].step = "none",
             \A u \in Threads : u # t => access'[u] = access[u]
      PROVE  WriteInv'
  <2>1. /\ writing' = [writing EXCEPT ![t] = NotWriting]
        /\ \A u \in Senders : u # t /\ writing[u].step = "bytes" =>
             /\ todo'[u] # <<>> /\ _tx_mutex' = u
        /\ t # Reader => forward' = forward
        /\ t = Reader => received # <<>>
    BY <1>2, Returned
  <2>2. /\ writing' \in [Threads -> Writings] /\ writing'[t].step = "none"
        /\ \A u \in Threads : u # t => writing'[u] = writing[u]
    BY <1>0, <2>1, WritingTypes
  <2>3. ASSUME NEW u \in Threads
        PROVE  /\ writing'[u].step = "bytes" /\ link = "serial" => writing'[u].bytes # <<>>
               /\ access'[u].step \in {"put", "publish", "enable"} =>
                    /\ link = "serial" /\ writing'[u].step = "bytes"
                    /\ access'[u].byte = Head(writing'[u].bytes)
               /\ access'[u].step = "advance" =>
                    /\ link = "serial" /\ u = Reader /\ writing'[u].step = "none"
                    /\ forward' = <<>>
               /\ writing'[u].step = "bytes" /\ u # Reader => todo'[u] # <<>> /\ _tx_mutex' = u
    <3>1. CASE u = t
      BY <1>2, <2>2, <3>1
    <3>2. CASE u # t
      <4>1. writing'[u] = writing[u] /\ access'[u] = access[u]
        BY <1>2, <2>2, <3>2
      <4>2. access[u].step = "advance" => forward' = <<>>
        BY <1>0, <2>1, <3>2 DEF WriteInv
      <4>3. writing[u].step = "bytes" /\ u # Reader => todo'[u] # <<>> /\ _tx_mutex' = u
        BY <1>0, <2>1, <3>2
      <4> QED BY <1>0, <4>1, <4>2, <4>3 DEF WriteInv
    <3> QED BY <3>1, <3>2
  <2>4. forward' # <<>> \/ writing'[Reader].step # "none" => received' # <<>>
    <3>1. CASE t = Reader
      BY <1>2, <2>1, <3>1
    <3>2. CASE t # Reader
      BY <1>0, <1>2, <2>1, <2>2, <3>2 DEF WriteInv
    <3> QED BY <3>1, <3>2
  <2> QED BY <1>0, <2>2, <2>3, <2>4 DEF WriteInv
<1>3. ASSUME NEW t \in Threads, writing[t].bytes # <<>>,
             link = "serial" => Len(writing[t].bytes) # 1,
             writing' = [writing EXCEPT ![t].bytes = Tail(@)],
             UNCHANGED <<forward, todo, _tx_mutex, received>>,
             access'[t].step = "none", \A u \in Threads : u # t => access'[u] = access[u]
      PROVE  WriteInv'
  <2>1. /\ [writing[t] EXCEPT !.bytes = Tail(@)] \in Writings
        /\ link = "serial" => Tail(writing[t].bytes) # <<>>
    BY <1>0, <1>3, WritingTypes
  <2>2. /\ writing' = [writing EXCEPT ![t] = [writing[t] EXCEPT !.bytes = Tail(@)]]
        /\ writing[t] \in Writings
    BY <1>0, <1>3
  <2>3. /\ writing' \in [Threads -> Writings]
        /\ writing'[t].step = writing[t].step
        /\ link = "serial" => writing'[t].bytes # <<>>
        /\ \A u \in Threads : u # t => writing'[u] = writing[u]
    BY <1>0, <2>1, <2>2 DEF Writings
  <2> QED BY <1>0, <1>3, <2>3 DEF WriteInv
<1>4. ASSUME NEW t \in Threads, NEW p \in WholePackets, StartWrite(t, p),
             UNCHANGED <<forward, todo, access, received>>,
             access[t].step = "none",
             t # Reader => _tx_mutex' = t /\ todo[t] # <<>>,
             \A u \in Senders : u # t /\ writing[u].step = "bytes" => _tx_mutex' = u,
             t = Reader => received # <<>>
      PROVE  WriteInv'
  <2>1. /\ writing' = [writing EXCEPT
                         ![t] = [step |-> "bytes", packet |-> <<p>>, bytes |-> Midi1Bytes(p)]]
        /\ [step |-> "bytes", packet |-> <<p>>, bytes |-> Midi1Bytes(p)] \in Writings
    BY <1>4, WritingTypes DEF StartWrite
  <2>2. Midi1Bytes(p) # <<>>
    BY BytesFit
  <2>3. /\ writing' \in [Threads -> Writings]
        /\ writing'[t].step = "bytes" /\ writing'[t].bytes # <<>>
        /\ \A u \in Threads : u # t => writing'[u] = writing[u]
    BY <1>0, <2>1, <2>2
  <2>4. ASSUME NEW u \in Threads
        PROVE  writing'[u].step = "bytes" /\ u # Reader => todo'[u] # <<>> /\ _tx_mutex' = u
    BY <1>0, <1>4, <2>3 DEF WriteInv
  <2>5. forward' # <<>> \/ writing'[Reader].step # "none" => received' # <<>>
    BY <1>0, <1>4, <2>3 DEF WriteInv
  <2>6. ASSUME NEW u \in Threads
        PROVE  /\ writing'[u].step = "bytes" /\ link = "serial" => writing'[u].bytes # <<>>
               /\ access'[u].step \in {"put", "publish", "enable"} =>
                    /\ link = "serial" /\ writing'[u].step = "bytes"
                    /\ access'[u].byte = Head(writing'[u].bytes)
               /\ access'[u].step = "advance" =>
                    /\ link = "serial" /\ u = Reader /\ writing'[u].step = "none"
                    /\ forward' = <<>>
    BY <1>0, <1>4, <2>3 DEF WriteInv
  <2> QED BY <1>0, <2>3, <2>4, <2>5, <2>6 DEF WriteInv
<1>5. ASSUME NEW t \in Threads, Write(t) PROVE WriteInv'
  <2>1. CASE SerialByte(t)
    <3>1. /\ \A u \in Threads : access[u].step = "none"
          /\ access'[t].step = "put" /\ access'[t].byte = Head(writing[t].bytes)
          /\ \A u \in Threads : u # t => access'[u] = access[u]
          /\ link = "serial" /\ writing[t].step = "bytes"
      BY <1>0, <2>1 DEF SerialByte, Writes, UartWrite, To
    <3>2. UNCHANGED <<writing, forward, todo, _tx_mutex, received>>
      BY <2>1 DEF SerialByte, baseVars, readVars
    <3> QED BY <1>0, <3>1, <3>2 DEF WriteInv
  <2>2. CASE SerialRefused(t)
    BY <1>2, <2>2 DEF SerialRefused, Writes, readVars, uartVars
  <2>3. CASE SerialMemory(t)
    <3>1. /\ access[t].step \in {"put", "publish"}
          /\ access'[t].step \in {"publish", "enable"}
          /\ access'[t].byte = access[t].byte
          /\ \A u \in Threads : u # t => access'[u] = access[u]
      BY <1>0, <2>3 DEF SerialMemory, Put, Publish
    <3>2. UNCHANGED <<writing, forward, todo, _tx_mutex, received>>
      BY <2>3 DEF SerialMemory, baseVars, readVars
    <3> QED BY <1>0, <3>1, <3>2 DEF WriteInv
  <2>4. CASE SerialDone(t)
    <3>1. /\ writing[t].step = "bytes" /\ writing[t].bytes # <<>> /\ access'[t].step = "none"
          /\ \A u \in Threads : u # t => access'[u] = access[u]
      BY <1>0, <2>4 DEF SerialDone, Enable, WriteInv, NoAccess
    <3>2. received' = received
      BY <2>4 DEF SerialDone, readVars
    <3>3. CASE Len(writing[t].bytes) = 1
      BY <1>2, <2>4, <3>1, <3>2, <3>3 DEF SerialDone
    <3>4. CASE Len(writing[t].bytes) # 1
      BY <1>3, <2>4, <3>1, <3>2, <3>4 DEF SerialDone, baseVars
    <3> QED BY <3>3, <3>4
  <2>5. CASE BleAppends(t)
    BY <1>3, <2>5 DEF BleAppends, InByte, ByteGoesOn, Writes, baseVars, readVars, uartVars
  <2>6. CASE BleDone(t) \/ BleFails(t)
    BY <1>2, <2>6 DEF BleDone, BleFails, Writes, readVars, uartVars
  <2>7. CASE BleChecks(t) \/ BleFlushes(t) \/ BleStarts(t) \/ BleAborts(t)
    BY <1>1, <2>7 DEF BleChecks, BleFlushes, BleStarts, BleAborts, ByteGoesOn, baseVars,
       readVars, uartVars
  <2> QED BY <1>5, <2>1, <2>2, <2>3, <2>4, <2>5, <2>6, <2>7 DEF Write
<1>6. ASSUME NEW t \in Senders, Send(t) PROVE WriteInv'
  <2>1. t \in Threads /\ todo[t] \in Seq(WholePackets) /\ todo[t] # <<>> /\ t # Reader
    BY <1>0, <1>6 DEF Send, Typed, BaseInv
  <2>2. Head(todo[t]) \in WholePackets
    BY <2>1, HeadTailProperties
  <2>3. \A u \in Senders : writing[u].step # "bytes"
    BY <1>0, <1>6 DEF Send, WriteInv
  <2>4. access[t].step = "none"
    BY <1>0, <1>6, <2>1, <2>3 DEF WriteInv
  <2>5. /\ UNCHANGED <<forward, todo, access, received>> /\ _tx_mutex' = t
        /\ StartWrite(t, Head(todo[t]))
    BY <1>6 DEF Send, uartVars, readVars
  <2> QED BY <1>4, <2>1, <2>2, <2>3, <2>4, <2>5
<1>7. CASE Thru
  <2>1. /\ access[Reader].step = "none" /\ received # <<>>
        /\ received \in Seq(WholePackets)
    BY <1>0, <1>7 DEF Thru, WriteInv, Typed, BaseInv
  <2>2. CASE Head(forward) = "own"
    <3>1. Last(received) \in WholePackets
      BY <2>1, FrontAndLast
    <3>2. /\ StartWrite(Reader, Last(received))
          /\ UNCHANGED <<forward, todo, access, received, _tx_mutex>>
      BY <1>7, <2>2 DEF Thru, uartVars, readVars
    <3>3. \A u \in Senders : writing[u].step = "bytes" => _tx_mutex' = u
      BY <1>0, <3>2 DEF WriteInv
    <3> QED BY <1>0, <1>4, <2>1, <3>1, <3>2, <3>3
  <2>3. CASE Head(forward) # "own"
    <3>1. UNCHANGED <<writing, todo, _tx_mutex, access, received>>
      BY <1>7, <2>3 DEF Thru, uartVars, readVars
    <3> QED BY <1>0, <2>1, <3>1 DEF WriteInv
  <2> QED BY <2>2, <2>3
<1>8. CASE SerialRead
  <2>1. /\ \A u \in Threads : access[u].step = "none"
        /\ access'[Reader].step = "advance"
        /\ \A u \in Threads : u # Reader => access'[u] = access[u]
        /\ link = "serial" /\ writing[Reader].step = "none" /\ forward = <<>>
    BY <1>0, <1>8 DEF SerialRead, Reading, UartRead, To
  <2>2. UNCHANGED <<writing, forward, todo, _tx_mutex, received>>
    BY <1>8 DEF SerialRead, baseVars, readVars
  <2> QED BY <1>0, <2>1, <2>2 DEF WriteInv
<1>9. CASE SerialParse
  <2>1. forward' # <<>> \/ received # <<>> => received' # <<>>
    BY <1>9, ReadIsGood, Delivered DEF SerialParse
  <2>2. /\ access[Reader].step = "advance" /\ access'[Reader].step = "none"
        /\ \A u \in Threads : u # Reader => access'[u] = access[u]
    BY <1>0, <1>9 DEF SerialParse, Advance, NoAccess
  <2>3. UNCHANGED <<writing, todo, _tx_mutex>>
    BY <1>9 DEF SerialParse
  <2> QED BY <1>0, <2>1, <2>2, <2>3 DEF WriteInv
<1>10. CASE BleParse
  <2>1. forward' # <<>> \/ received # <<>> => received' # <<>>
    BY <1>10, ReadIsGood, Delivered DEF BleParse
  <2>2. UNCHANGED <<writing, todo, _tx_mutex, access>> /\ access[Reader].step = "none"
    BY <1>10 DEF BleParse, Reading, uartVars
  <2> QED BY <1>0, <2>1, <2>2 DEF WriteInv
<1>11. CASE Transmit \/ Interrupt \/ Receive \/ BleFetch
  BY <1>1, <1>11 DEF Transmit, Interrupt, Receive, BleFetch, IsrSend, IsrIdle, IsrFails,
                     IsrReceive, baseVars, readVars, uartVars
<1>12. CASE Deinit \/ CloseTransport \/ Reopen
  BY <1>1, <1>12 DEF Deinit, CloseTransport, Reopen, UartClose, UartOpen, readVars, uartVars
<1>13. ASSUME NEW s \in scenario.sinks, Register(s) \/ Unregister(s) PROVE WriteInv'
  BY <1>1, <1>13 DEF Register, Unregister, readVars, uartVars
<1>14. CASE ReadNothing \/ UNCHANGED vars
  BY <1>1, <1>14 DEF ReadNothing, vars, baseVars, readVars, uartVars
<1> QED BY <1>5, <1>6, <1>7, <1>8, <1>9, <1>10, <1>11, <1>12, <1>13, <1>14 DEF Next

\* A writer that meets no other always finds room for its byte.
LEMMA BleKept ==
  ASSUME Typed, [Next]_vars
  PROVE  BleInv'
<1>0. /\ WriteInv /\ BleInv /\ link' = link /\ link \in {"serial", "ble"}
      /\ writing \in [Threads -> Writings] /\ inByte \in [Threads -> InByteSteps]
      /\ disturbed \in BOOLEAN /\ Reader \in Threads
      /\ \A t \in Senders : t \in Threads
      /\ {"check", "flush", "start", "append", "aborted"} = InByteSteps
  BY NextIsUartStep, Given
     DEF Typed, BaseInv, WireInv, WriteInv, BleInv, InByteSteps, link
<1> USE DEF wireVars
<1>1. CASE UNCHANGED <<txBuffer, inByte, writing>> /\ (disturbed => disturbed')
  BY <1>0, <1>1 DEF BleInv
<1>2. ASSUME NEW t \in Threads, NEW p \in WholePackets, StartWrite(t, p),
             writing[t].step # "bytes", UNCHANGED inByte
      PROVE  BleInv'
  <2>1. inByte[t] = "check"
    BY <1>0, <1>2 DEF BleInv
  <2>2. /\ \A u \in Threads : u # t => writing'[u] = writing[u]
        /\ disturbed' \in BOOLEAN
        /\ ~disturbed' => ~disturbed /\ \A u \in Threads : u # t => writing[u].step = "none"
    BY <1>0, <1>2 DEF StartWrite
  <2>3. \A u \in Threads : inByte'[u] # "check" => u # t /\ writing'[u] = writing[u]
    BY <1>2, <2>1, <2>2
  <2>4. ~disturbed' => \A u \in Threads : inByte'[u] = "check"
    BY <1>0, <1>2, <2>1, <2>2 DEF BleInv
  <2>5. ~disturbed' => \A u, v \in Threads :
          writing'[u].step = "bytes" /\ writing'[v].step = "bytes" => u = v
    BY <2>2
  <2> QED BY <1>0, <1>2, <2>3, <2>4, <2>5 DEF BleInv
<1>3. ASSUME NEW t \in Threads, UNCHANGED txBuffer,
             inByte' = [inByte EXCEPT ![t] = "check"],
             \E w : /\ writing' = [writing EXCEPT ![t] = w]
                    /\ w.step = "bytes" => writing[t].step = "bytes",
             disturbed => disturbed'
      PROVE  BleInv'
  <2>1. /\ inByte' \in [Threads -> InByteSteps] /\ inByte'[t] = "check"
        /\ \A u \in Threads : u # t => inByte'[u] = inByte[u] /\ writing'[u] = writing[u]
        /\ writing'[t].step = "bytes" => writing[t].step = "bytes"
    BY <1>0, <1>3
  <2>2. \A u \in Threads : writing'[u].step = "bytes" => writing[u].step = "bytes"
    BY <2>1
  <2>3. \A u \in Threads : inByte'[u] # "check" =>
          /\ inByte'[u] = inByte[u]
          /\ link' = "ble" /\ writing'[u].step = "bytes" /\ writing'[u].bytes # <<>>
    BY <1>0, <2>1 DEF BleInv
  <2> QED BY <1>0, <1>3, <2>1, <2>2, <2>3 DEF BleInv
<1>4. ASSUME NEW t \in Threads, writing[t].step = "bytes", inByte[t] = "check",
             NEW ok \in BOOLEAN, WriteReturns(t, ok), UNCHANGED <<txBuffer, inByte>>
      PROVE  BleInv'
  <2>1. /\ writing' = [writing EXCEPT ![t] = NotWriting] /\ NotWriting.step = "none"
        /\ disturbed => disturbed'
    BY <1>4, WritingTypes DEF WriteReturns
  <2>2. inByte' = [inByte EXCEPT ![t] = "check"]
    BY <1>0, <1>4
  <2> QED BY <1>3, <1>4, <2>1, <2>2
<1>5. ASSUME NEW t \in Threads, InByte(t, inByte[t]), UNCHANGED <<writing, disturbed>>,
             NEW step \in InByteSteps, inByte' = [inByte EXCEPT ![t] = step],
             ~disturbed =>
               /\ step # "aborted"
               /\ step = "append" => ~(Len(txBuffer') >= BLE_MAX_PACKET_SIZE)
               /\ step = "flush" => Len(txBuffer') >= BLE_MAX_PACKET_SIZE
      PROVE  BleInv'
  <2>1. link = "ble" /\ writing[t].step = "bytes" /\ writing[t].bytes # <<>>
    BY <1>5 DEF InByte, Writes
  <2>2. /\ inByte' \in [Threads -> InByteSteps] /\ inByte'[t] = step
        /\ \A u \in Threads : u # t => inByte'[u] = inByte[u]
    BY <1>0, <1>5
  <2>3. ~disturbed => \A u \in Threads : u # t => inByte[u] = "check"
    BY <1>0, <2>1 DEF BleInv
  <2>4. \A u \in Threads : inByte'[u] # "check" =>
          link' = "ble" /\ writing'[u].step = "bytes" /\ writing'[u].bytes # <<>>
    BY <1>0, <1>5, <2>1, <2>2 DEF BleInv
  <2>5. ~disturbed => \A u \in Threads :
          /\ inByte'[u] # "aborted"
          /\ inByte'[u] = "append" => ~(Len(txBuffer') >= BLE_MAX_PACKET_SIZE)
          /\ inByte'[u] = "flush" => Len(txBuffer') >= BLE_MAX_PACKET_SIZE
    BY <1>5, <2>2, <2>3
  <2> QED BY <1>0, <1>5, <2>2, <2>4, <2>5 DEF BleInv
<1>6. ASSUME NEW t \in Threads, Write(t) PROVE BleInv'
  <2>1. CASE SerialByte(t) \/ SerialMemory(t)
    BY <1>1, <2>1 DEF SerialByte, SerialMemory
  <2>2. CASE SerialRefused(t)
    <3>1. inByte[t] = "check"
      BY <1>0, <2>2 DEF SerialRefused, BleInv
    <3> QED BY <1>4, <2>2, <3>1 DEF SerialRefused, Writes
  <2>3. CASE SerialDone(t)
    <3>1. writing[t].step = "bytes" /\ inByte[t] = "check"
      BY <1>0, <2>3 DEF SerialDone, Enable, WriteInv, BleInv
    <3>2. CASE Len(writing[t].bytes) = 1
      BY <1>4, <2>3, <3>1, <3>2 DEF SerialDone
    <3>3. CASE Len(writing[t].bytes) # 1
      <4>1. /\ writing' = [writing EXCEPT ![t] = [writing[t] EXCEPT !.bytes = Tail(@)]]
            /\ UNCHANGED <<txBuffer, inByte, disturbed>>
        BY <2>3, <3>3 DEF SerialDone
      <4>2. inByte' = [inByte EXCEPT ![t] = "check"]
        BY <1>0, <3>1, <4>1
      <4> QED BY <1>3, <3>1, <4>1, <4>2
    <3> QED BY <3>2, <3>3
  <2>4. CASE BleChecks(t)
    <3>1. InByte(t, inByte[t]) /\ UNCHANGED <<txBuffer, writing, disturbed>>
      BY <2>4 DEF BleChecks, ByteGoesOn, InByte
    <3>2. CASE Len(txBuffer) >= BLE_MAX_PACKET_SIZE
      BY <1>0, <1>5, <2>4, <3>1, <3>2 DEF BleChecks, ByteGoesOn
    <3>3. CASE ~(Len(txBuffer) >= BLE_MAX_PACKET_SIZE)
      BY <1>0, <1>5, <2>4, <3>1, <3>3 DEF BleChecks, ByteGoesOn
    <3> QED BY <3>2, <3>3
  <2>5. CASE BleFlushes(t)
    BY <1>0, <1>5, <2>5 DEF BleFlushes, ByteGoesOn, InByte
  <2>6. CASE BleStarts(t)
    BY <1>0, <1>5, <2>6, StartedIs DEF BleStarts, ByteGoesOn, InByte
  <2>7. CASE BleAppends(t)
    <3> DEFINE w == [writing[t] EXCEPT !.bytes = Tail(@)]
    <3>1. /\ writing' = [writing EXCEPT ![t] = w] /\ writing[t].step = "bytes"
          /\ inByte' = [inByte EXCEPT ![t] = "check"] /\ UNCHANGED disturbed
      BY <2>7 DEF BleAppends, ByteGoesOn, InByte, Writes
    <3> HIDE DEF w
    <3>2. /\ inByte' \in [Threads -> InByteSteps] /\ inByte'[t] = "check"
          /\ \A u \in Threads : u # t => inByte'[u] = inByte[u] /\ writing'[u] = writing[u]
      BY <1>0, <3>1
    <3>3. \A u \in Threads : writing'[u].step = "bytes" => writing[u].step = "bytes"
      BY <3>1, <3>2
    <3>4. ~disturbed => \A u \in Threads : inByte'[u] = "check"
      BY <1>0, <3>1, <3>2 DEF BleInv
    <3>5. \A u \in Threads : inByte'[u] # "check" =>
            link' = "ble" /\ writing'[u].step = "bytes" /\ writing'[u].bytes # <<>>
      BY <1>0, <3>2 DEF BleInv
    <3> QED BY <1>0, <3>1, <3>2, <3>3, <3>4, <3>5 DEF BleInv
  <2>8. CASE BleAborts(t)
    <3>1. disturbed
      BY <1>0, <2>8 DEF BleAborts, InByte, BleInv
    <3> QED BY <1>0, <1>5, <2>8, <3>1 DEF BleAborts, ByteGoesOn, InByte
  <2>9. CASE BleDone(t)
    <3>1. inByte[t] = "check"
      BY <1>0, <2>9 DEF BleDone, BleInv
    <3> QED BY <1>4, <2>9, <3>1 DEF BleDone, Writes
  <2>10. CASE BleFails(t)
    <3>1. /\ writing' = [writing EXCEPT ![t] = NotWriting] /\ NotWriting.step = "none"
          /\ disturbed => disturbed'
      BY <2>10, WritingTypes DEF BleFails, WriteReturns
    <3> QED BY <1>3, <2>10, <3>1 DEF BleFails
  <2> QED BY <1>6, <2>1, <2>2, <2>3, <2>4, <2>5, <2>6, <2>7, <2>8, <2>9, <2>10 DEF Write
<1>7. ASSUME NEW t \in Senders, Send(t) PROVE BleInv'
  <2>1. t \in Threads /\ todo[t] \in Seq(WholePackets) /\ todo[t] # <<>> /\ t # Reader
    BY <1>0, <1>7, Given DEF Send, Typed, BaseInv
  <2>2. Head(todo[t]) \in WholePackets
    BY <2>1, HeadTailProperties
  <2>3. writing[t].step # "bytes"
    BY <1>0, <1>7, <2>1, Given DEF Send, WriteInv
  <2> QED BY <1>2, <1>7, <2>1, <2>2, <2>3 DEF Send
<1>8. CASE Thru
  <2>1. CASE Head(forward) = "own"
    <3>1. received \in Seq(WholePackets) /\ received # <<>>
      BY <1>0, <1>8 DEF Thru, Typed, BaseInv, WriteInv
    <3>2. Last(received) \in WholePackets
      BY <3>1, FrontAndLast
    <3>3. writing[Reader].step # "bytes"
      BY <1>8 DEF Thru
    <3> QED BY <1>0, <1>2, <1>8, <2>1, <3>2, <3>3 DEF Thru
  <2>2. CASE Head(forward) # "own"
    BY <1>1, <1>8, <2>2 DEF Thru
  <2> QED BY <2>1, <2>2
<1>9. ASSUME NEW s \in scenario.sinks, Register(s) \/ Unregister(s) PROVE BleInv'
  BY <1>1, <1>9 DEF Register, Unregister
<1>10. CASE \/ Transmit \/ Interrupt \/ Receive \/ SerialRead \/ SerialParse \/ BleFetch
            \/ BleParse
  BY <1>1, <1>10 DEF Transmit, Interrupt, Receive, SerialRead, SerialParse, BleFetch,
     BleParse
<1>11. CASE Deinit \/ CloseTransport \/ Reopen
  BY <1>1, <1>11 DEF Deinit, CloseTransport, Reopen
<1>12. CASE ReadNothing \/ UNCHANGED vars
  BY <1>1, <1>12 DEF ReadNothing, vars
<1> QED BY <1>6, <1>7, <1>8, <1>9, <1>10, <1>11, <1>12 DEF Next

\* Typing is inductive.
LEMMA TypedKept ==
  ASSUME Typed, [Next]_vars
  PROVE  Typed'
<1>1. UartInv'
  <2>1. UartInv /\ scenario \in Scenarios
    BY DEF Typed, BaseInv
  <2> QED BY <2>1, NextIsUartStep, UartKept
<1> QED BY <1>1, BaseKept, WireKept, WriteKept, BleKept DEF Typed

\* Every variable keeps its type: in particular a parser never holds more than a
\* message, an interface is in the thru table once, and one thread at a time is
\* inside the driver (read(), write() and isr() of uart_hw.cpp, thru() and
\* register_thru_interface() of midi.cpp).  A BLE packet is started, filled and
\* flushed so that write_midi_byte() (transport_ble.cpp) finds room for every
\* byte, unless two writers met, thru() and send(): then one can take the slot
\* the other has checked, and at() ends the thread.
THEOREM TypeCorrect == Spec => []TypeOK
<1>1. Typed /\ [Next]_vars => Typed'
  BY TypedKept
<1>2. Typed => TypeOK
  <2> SUFFICES ASSUME Typed PROVE TypeOK
    OBVIOUS
  <2>1. UartTyped
    <3>1. UartInv /\ scenario.loopback \in BOOLEAN
      BY Given DEF Typed, BaseInv
    <3> QED BY <3>1 DEF UartInv, UartTyped
  <2>2. BaseTyped
    BY DEF Typed, BaseInv, WriteInv, BleInv, InByteSteps, BaseTyped
  <2>3. _parser \in Parsers /\ peer.parser \in Parsers
    BY DEF Typed, BaseInv, WireInv, GoodParser
  <2> QED BY <2>1, <2>2, <2>3 DEF Typed, UartInv, BaseInv, WireInv, BleInv, TypeOK
<1> QED BY InitIsTyped, <1>1, <1>2, PTL DEF Spec

-----------------------------------------------------------------------------
(* What is written arrives.                                                  *)

\* The packets a peer has got when it has read s, and where that leaves it.
Got(q, s) == q.packets \o ParsedAll(q.parser, s).out
\* That is all of w, or all but an open SysEx piece that it still keeps.
Arrives(q, s, w) == Settled(ParsedAll(q.parser, s).parser, Got(q, s), w)

\* The bytes in k are on their way, and rest is still to be written: they
\* complete w.  Nothing of a packet that begins anew arrives before its last byte.
Carried(q, k, rest, w) ==
  /\ Arrives(q, k \o rest, w)
  /\ ~Continues(Last(w)) =>
       \A n \in 0 .. Len(rest) - 1 : Got(q, k \o SubSeq(rest, 1, n)) = Front(w)

\* A peer that reads the first bytes on their way gets the others next.
HasRead(q, s, r) == r.parser = ParsedAll(q.parser, s).parser /\ r.packets = Got(q, s)

\* What it gets from later bytes is what it would have got from all of them.
LEMMA ReadOn ==
  ASSUME NEW q, GoodParser(q.parser), q.packets \in Seq(WholePackets),
         NEW s \in Seq(Bytes), NEW r, HasRead(q, s, r), NEW t \in Seq(Bytes)
  PROVE  /\ Got(r, t) = Got(q, s \o t)
         /\ ParsedAll(r.parser, t).parser = ParsedAll(q.parser, s \o t).parser
<1> DEFINE first == ParsedAll(q.parser, s)
           second == ParsedAll(first.parser, t)
           all == ParsedAll(q.parser, s \o t)
           packets == q.packets
<1>1. all.parser = second.parser /\ all.out = first.out \o second.out
  <2>1. all = Parsed(second.parser, first.out \o second.out)
    BY ParsedConcat
  <2> HIDE DEF all, first, second
  <2> QED BY <2>1, ParsedFields
<1>2. /\ first.out \in Seq(WholePackets) /\ second.out \in Seq(WholePackets)
      /\ packets \in Seq(WholePackets)
  BY ParsedIsGood
<1>3. r.parser = first.parser /\ r.packets = packets \o first.out
  BY DEF HasRead, Got
<1>4. Got(r, t) = (packets \o first.out) \o second.out
  BY <1>3 DEF Got
<1>5. Got(q, s \o t) = packets \o all.out
  BY DEF Got
<1>6. ParsedAll(r.parser, t) = second
  BY <1>3
<1> HIDE DEF first, second, all, packets
<1>7. \A x, y, z \in Seq(WholePackets) : (x \o y) \o z = x \o (y \o z)
  BY ConcatAssociative
<1>8. (packets \o first.out) \o second.out = packets \o (first.out \o second.out)
  BY <1>2, <1>7
<1>9. Got(r, t) = Got(q, s \o t)
  BY <1>1, <1>4, <1>5, <1>8
<1>10. ParsedAll(r.parser, t).parser = all.parser
  BY <1>1, <1>6
<1> QED BY <1>9, <1>10 DEF all

\* A byte on its way arrives.
LEMMA CarriedOn ==
  ASSUME NEW q, GoodParser(q.parser), q.packets \in Seq(WholePackets),
         NEW s \in Seq(Bytes), NEW r, HasRead(q, s, r),
         NEW k \in Seq(Bytes), NEW w
  PROVE  /\ Arrives(q, s \o k, w) => Arrives(r, k, w)
         /\ \A rest \in Seq(Bytes) : Carried(q, s \o k, rest, w) => Carried(r, k, rest, w)
<1>0. \A t \in Seq(Bytes) : (s \o k) \o t = s \o (k \o t) /\ k \o t \in Seq(Bytes)
  BY Regrouped
<1>1. \A t \in Seq(Bytes) : /\ Got(r, t) = Got(q, s \o t)
                            /\ Arrives(q, s \o t, w) => Arrives(r, t, w)
  BY ReadOn DEF Arrives
<1>2. ASSUME NEW rest \in Seq(Bytes), Carried(q, s \o k, rest, w)
      PROVE  Carried(r, k, rest, w)
  <2>1. (s \o k) \o rest = s \o (k \o rest) /\ k \o rest \in Seq(Bytes)
    BY <1>0, <1>2
  <2>2. Arrives(r, k \o rest, w)
    BY <1>1, <1>2, <2>1 DEF Carried
  <2>3. ASSUME ~Continues(Last(w)), NEW n \in 0 .. Len(rest) - 1
        PROVE  Got(r, k \o SubSeq(rest, 1, n)) = Front(w)
    <3> DEFINE e == SubSeq(rest, 1, n)
    <3>1. e \in Seq(Bytes)
      BY SubSeqProperties, LenProperties
    <3>2. Got(q, (s \o k) \o e) = Front(w)
      BY <1>2, <2>3 DEF Carried
    <3> HIDE DEF e
    <3>3. (s \o k) \o e = s \o (k \o e) /\ k \o e \in Seq(Bytes)
      BY <1>0, <3>1
    <3>4. Got(r, k \o e) = Got(q, s \o (k \o e))
      BY <1>1, <3>3
    <3> QED BY <3>2, <3>3, <3>4 DEF e
  <2> QED BY <2>2, <2>3 DEF Carried
<1> QED BY <1>1, <1>2

\* What comes before a part of a sequence's beginning.
LEMMA PrefixOfConcat ==
  ASSUME NEW s \in Seq(Bytes), NEW t \in Seq(Bytes), NEW n \in 0 .. Len(t)
  PROVE  /\ SubSeq(s \o t, 1, Len(s) + n) = s \o SubSeq(t, 1, n)
         /\ SubSeq(t, 1, n) \in Seq(Bytes)
         /\ Len(s) + n \in 0 .. Len(s \o t) /\ Len(s \o t) = Len(s) + Len(t)
<1>1. /\ Len(s) \in Nat /\ Len(t) \in Nat /\ s \o t \in Seq(Bytes)
      /\ Len(s \o t) = Len(s) + Len(t)
  BY LenProperties, ConcatProperties
<1>2. SubSeq(t, 1, n) \in Seq(Bytes) /\ Len(SubSeq(t, 1, n)) = n
  BY <1>1, SubSeqProperties
<1>3. Len(s) + n \in 0 .. Len(s \o t)
  BY <1>1
<1> DEFINE all == s \o t
           part == SubSeq(t, 1, n)
           m == Len(s)
<1>4. SubSeq(all, 1, m + n) = s \o part
  <2>1. /\ SubSeq(all, 1, m + n) \in Seq(Bytes)
        /\ Len(SubSeq(all, 1, m + n)) = m + n
        /\ \A i \in 1 .. m + n : SubSeq(all, 1, m + n)[i] = all[i]
    <3>1. /\ 1 \in 1 .. Len(all) + 1 /\ m + n \in 1 - 1 .. Len(all) /\ 1 - 1 = 0
          /\ (m + n) - 1 + 1 = m + n
      BY <1>1
    <3> HIDE DEF all, m
    <3> QED BY <1>1, <3>1, SubSeqProperties DEF all, m
  <2>2. /\ s \o part \in Seq(Bytes) /\ Len(s \o part) = m + n
        /\ \A i \in 1 .. m + n : (s \o part)[i] = IF i <= m THEN s[i] ELSE part[i - m]
    BY <1>1, <1>2, ConcatProperties
  <2>3. \A i \in 1 .. m + n : all[i] = IF i <= m THEN s[i] ELSE t[i - m]
    BY <1>1, ConcatProperties
  <2>4. \A i \in 1 .. n : part[i] = t[i]
    BY <1>1, SubSeqProperties
  <2>5. \A i \in 1 .. m + n : ~(i <= m) => i - m \in 1 .. n
    BY <1>1
  <2>6. \A i \in 1 .. m + n : SubSeq(all, 1, m + n)[i] = (s \o part)[i]
    BY <2>1, <2>2, <2>3, <2>4, <2>5
  <2> HIDE DEF all, part, m
  <2> QED BY <2>1, <2>2, <2>6, SeqEqual
<1> QED BY <1>1, <1>2, <1>3, <1>4

\* Bytes that are written are on their way.
LEMMA MovesOn ==
  ASSUME NEW q, NEW k \in Seq(Bytes), NEW s \in Seq(Bytes), NEW t \in Seq(Bytes), NEW w,
         Carried(q, k, s \o t, w)
  PROVE  Carried(q, k \o s, t, w)
<1>1. Arrives(q, (k \o s) \o t, w)
  BY Regrouped DEF Carried
<1>2. ASSUME ~Continues(Last(w)), NEW n \in 0 .. Len(t) - 1
      PROVE  Got(q, (k \o s) \o SubSeq(t, 1, n)) = Front(w)
  <2> DEFINE e == SubSeq(t, 1, n)
  <2>1. Len(t) \in Nat /\ Len(s) \in Nat
    BY LenProperties
  <2>2. n \in 0 .. Len(t)
    BY <2>1
  <2>3. /\ SubSeq(s \o t, 1, Len(s) + n) = s \o e /\ e \in Seq(Bytes)
        /\ Len(s \o t) = Len(s) + Len(t)
    BY <2>2, PrefixOfConcat
  <2>4. Len(s) + n \in 0 .. Len(s \o t) - 1
    BY <2>1, <2>3
  <2>5. Got(q, k \o SubSeq(s \o t, 1, Len(s) + n)) = Front(w)
    BY <1>2, <2>4 DEF Carried
  <2> HIDE DEF e
  <2>6. (k \o s) \o e = k \o (s \o e)
    BY <2>3, Regrouped
  <2> QED BY <2>3, <2>5, <2>6 DEF e
<1> QED BY <1>1, <1>2 DEF Carried

\* A byte goes into the ring buffer.
LEMMA ByteQueued ==
  ASSUME NEW q, NEW k \in Seq(Bytes), NEW rest \in Seq(Bytes), rest # <<>>, NEW w,
         Carried(q, k, rest, w)
  PROVE  Carried(q, Append(k, Head(rest)), Tail(rest), w)
<1> DEFINE b == Head(rest)
           t == Tail(rest)
<1>1. b \in Bytes /\ t \in Seq(Bytes) /\ rest = <<b>> \o t
  BY HeadTailProperties, ConcatEmptySeq
<1>2. <<b>> \in Seq(Bytes) /\ Append(k, b) = k \o <<b>>
  BY <1>1, AppendIsConcat
<1> HIDE DEF b, t
<1>3. Carried(q, k \o <<b>>, t, w)
  BY <1>1, <1>2, MovesOn
<1> QED BY <1>2, <1>3 DEF b, t

\* A BLE packet goes to the peer.
LEMMA PayloadSent ==
  ASSUME NEW q, GoodParser(q.parser), q.packets \in Seq(WholePackets),
         NEW s \in Seq(Bytes), NEW t \in Seq(Bytes), NEW r, HasRead(q, s, r), NEW w,
         Carried(q, <<>>, s \o t, w)
  PROVE  Carried(r, <<>>, t, w)
<1>1. <<>> \in Seq(Bytes) /\ <<>> \o s = s /\ s \o <<>> = s
  BY EmptySeq, ConcatEmptySeq
<1>2. Carried(q, <<>> \o s, t, w)
  BY <1>1, MovesOn
<1>3. Carried(q, s \o <<>>, t, w)
  BY <1>1, <1>2
<1> QED BY <1>1, <1>3, CarriedOn

\* All bytes of the packet are on their way.
LEMMA AllSent ==
  ASSUME NEW q, NEW k \in Seq(Bytes), NEW w, Carried(q, k, <<>>, w)
  PROVE  Arrives(q, k, w)
<1>1. k \o <<>> = k
  BY ConcatEmptySeq
<1> QED BY <1>1 DEF Carried

\* The packet is cut off, and was not the next of a SysEx.
LEMMA CutOff ==
  ASSUME NEW q, NEW k \in Seq(Bytes), NEW rest \in Seq(Bytes), rest # <<>>, NEW w,
         Carried(q, k, rest, w), ~Continues(Last(w)), ~OpenIn(Front(w))
  PROVE  Arrives(q, k, Front(w))
<1>1. Len(rest) \in Nat \ {0} /\ k \o <<>> = k
  BY EmptySeq, ConcatEmptySeq
<1>2. SubSeq(rest, 1, 0) = <<>> /\ 0 \in 0 .. Len(rest) - 1
  BY <1>1, SubSeqEmpty
<1>3. Got(q, k \o SubSeq(rest, 1, 0)) = Front(w)
  BY <1>2 DEF Carried
<1>4. Got(q, k) = Front(w)
  BY <1>1, <1>2, <1>3
<1> QED BY <1>4 DEF Arrives, Settled

\* A packet is begun where it may be.
LEMMA Begun ==
  ASSUME NEW q, GoodParser(q.parser), q.packets \in Seq(WholePackets),
         NEW k \in Seq(Bytes), NEW w \in Seq(WholePackets), Arrives(q, k, w),
         NEW p \in WholePackets, Continues(p) = OpenIn(w)
  PROVE  Carried(q, k, Midi1Bytes(p), Append(w, p))
<1> DEFINE bytes == Midi1Bytes(p)
           longer == Append(w, p)
           ahead == ParsedAll(q.parser, k)
           r == [parser |-> ahead.parser, packets |-> Got(q, k)]
<1>1. /\ longer # <<>> /\ Front(longer) = w /\ Last(longer) = p
      /\ bytes \in Seq(Bytes) /\ Len(bytes) \in Nat
  <2>1. longer # <<>> /\ Front(longer) = w /\ Last(longer) = p
    BY LastAppended
  <2>2. bytes \in Seq(Bytes) /\ Len(bytes) \in Nat
    BY BytesFit
  <2> QED BY <2>1, <2>2
<1>2. HasRead(q, k, r)
  BY DEF HasRead
<1>3. GoodParser(ahead.parser) /\ Settled(ahead.parser, Got(q, k), w)
  BY ParsedIsGood DEF Arrives
<1>4. r.parser = ahead.parser /\ r.packets = Got(q, k)
  OBVIOUS
<1> HIDE DEF ahead, r
<1>5. \A t \in Seq(Bytes) : /\ Got(r, t) = Got(q, k \o t)
                            /\ ParsedAll(r.parser, t).parser = ParsedAll(q.parser, k \o t).parser
  BY <1>2, ReadOn
<1>6. Arrives(q, k \o bytes, longer)
  <2> DEFINE all == ParsedAll(ahead.parser, bytes)
  <2>1. Settled(all.parser, Got(q, k) \o all.out, longer)
    BY <1>3, PacketArrives
  <2>2. all.parser = ParsedAll(q.parser, k \o bytes).parser
    BY <1>1, <1>4, <1>5
  <2>3. Got(q, k) \o all.out = Got(q, k \o bytes)
    BY <1>1, <1>4, <1>5 DEF Got
  <2> HIDE DEF all, bytes, longer
  <2> QED BY <2>1, <2>2, <2>3 DEF Arrives
<1>7. ASSUME ~Continues(Last(longer)), NEW n \in 0 .. Len(bytes) - 1
      PROVE  Got(q, k \o SubSeq(bytes, 1, n)) = Front(longer)
  <2> DEFINE e == SubSeq(bytes, 1, n)
  <2>1. ~Continues(p) /\ ~OpenIn(w)
    BY <1>1, <1>7
  <2>2. Got(q, k) = w
    BY <1>3, <2>1 DEF Settled
  <2>3. ParsedAll(ahead.parser, e).out = <<>>
    BY <1>3, <2>1, NothingEarly
  <2>4. n \in 0 .. Len(bytes)
    BY <1>1
  <2>5. e \in Seq(Bytes)
    BY <1>1, <2>4, PrefixOfConcat
  <2> HIDE DEF e
  <2>6. Got(r, e) = Got(q, k \o e) /\ Got(r, e) = w \o <<>>
    BY <1>4, <1>5, <2>2, <2>3, <2>5 DEF Got
  <2>7. w \o <<>> = w
    BY ConcatEmptySeq
  <2> QED BY <1>1, <2>6, <2>7 DEF e
<1> QED BY <1>6, <1>7 DEF Carried

\* Bytes that leave a SysEx open.
StaysOpen(sysex, bytes) ==
  /\ sysex \/ bytes[1] = "sysex"
  /\ \A i \in 1 .. Len(bytes) : bytes[i] # "sysex_end"

\* Those of a packet do when more of its SysEx follow; and they never hold a
\* status byte that the reader of a BLE packet could take for a timestamp.
LEMMA BytesFlow ==
  ASSUME NEW p \in WholePackets, NEW sysex \in BOOLEAN, Continues(p) => sysex
  PROVE  /\ Flows(sysex, Midi1Bytes(p))
         /\ p.part \in {"Start", "Continue"} => StaysOpen(sysex, Midi1Bytes(p))
<1> DEFINE d == p.data
           n == Len(d)
<1>1. /\ d \in Seq(Bytes) /\ n \in Nat
      /\ \A i \in 1 .. n : d[i] \in Data /\ d[i] \notin StatusBytes /\ d[i] # "sysex_end"
  <2>1. d \in Seq(Data) /\ Len(d) \in Nat
    BY WholeIs
  <2>2. Data \subseteq Bytes /\ Data \cap StatusBytes = {} /\ "sysex_end" \in StatusBytes
    BY ByteKinds
  <2>3. d \in Seq(Bytes)
    BY <2>1, <2>2, SeqMonotonic
  <2>4. \A i \in 1 .. n : d[i] \in Data
    BY <2>1, ElementOfSeq
  <2> HIDE DEF d
  <2> QED BY <2>1, <2>2, <2>3, <2>4
<1> HIDE DEF d
<1>2. ASSUME NEW x \in Bytes
      PROVE  /\ <<x>> \o d \in Seq(Bytes) /\ Len(<<x>> \o d) = n + 1
             /\ (<<x>> \o d)[1] = x
             /\ \A i \in 2 .. n + 1 : (<<x>> \o d)[i] \notin StatusBytes
                                      /\ (<<x>> \o d)[i] # "sysex_end"
  <2> DEFINE s == <<x>>
             t == s \o d
  <2>1. s \in Seq(Bytes) /\ Len(s) = 1 /\ s[1] = x
    OBVIOUS
  <2> HIDE DEF s
  <2>2. /\ t \in Seq(Bytes) /\ Len(t) = 1 + n
        /\ \A i \in 1 .. 1 + n : t[i] = IF i <= 1 THEN s[i] ELSE d[i - 1]
    <3>1. /\ t \in Seq(Bytes) /\ Len(t) = Len(s) + Len(d)
          /\ \A i \in 1 .. Len(s) + Len(d) :
               t[i] = IF i <= Len(s) THEN s[i] ELSE d[i - Len(s)]
      BY <1>1, <2>1, ConcatProperties
    <3> HIDE DEF t
    <3> QED BY <2>1, <3>1 DEF n
  <2> HIDE DEF t, n
  <2>3. 1 + n = n + 1 /\ 1 \in 1 .. 1 + n
    BY <1>1
  <2>4. t[1] = x
    BY <2>1, <2>2, <2>3
  <2>5. \A i \in 2 .. n + 1 : i \in 1 .. 1 + n /\ i - 1 \in 1 .. n /\ ~(i <= 1)
    BY <1>1
  <2>6. \A i \in 2 .. n + 1 : t[i] = d[i - 1]
    BY <2>2, <2>5
  <2>7. \A i \in 2 .. n + 1 : t[i] \notin StatusBytes /\ t[i] # "sysex_end"
    BY <1>1, <2>5, <2>6
  <2> QED BY <2>2, <2>3, <2>4, <2>7 DEF t, s
<1>3. ASSUME NEW s \in Seq(Bytes), NEW x \in Bytes
      PROVE  /\ Len(Append(s, x)) = Len(s) + 1 /\ Append(s, x)[Len(s) + 1] = x
             /\ \A i \in 1 .. Len(s) : Append(s, x)[i] = s[i]
             /\ Len(s) \in Nat
  BY AppendProperties, LenProperties
<1>4. "sysex" \in Bytes /\ "sysex_end" \in Bytes
  BY ByteKinds
<1>5. CASE p.part = "Start"
  <2>1. Midi1Bytes(p) = <<"sysex">> \o d
    BY <1>5, BytesOf DEF d
  <2> QED BY <1>1, <1>2, <1>4, <1>5, <2>1 DEF Flows, StaysOpen
<1>6. CASE p.part = "Continue"
  <2>1. Midi1Bytes(p) = d
    BY <1>6, BytesOf DEF d
  <2> QED BY <1>1, <1>6, <2>1 DEF Flows, StaysOpen, Continues
<1>7. CASE p.part = "End"
  <2>1. Midi1Bytes(p) = Append(d, "sysex_end")
    BY <1>7, BytesOf DEF d
  <2> DEFINE t == Append(d, "sysex_end")
  <2>2. /\ Len(t) = n + 1 /\ t[n + 1] = "sysex_end"
        /\ \A i \in 1 .. n : t[i] = d[i]
    BY <1>1, <1>3, <1>4
  <2> HIDE DEF t
  <2>3. \A i \in 1 .. Len(t) : i \in 1 .. n \/ i = n + 1
    BY <1>1, <2>2
  <2>4. Flows(sysex, t)
    BY <1>1, <1>7, <2>2, <2>3 DEF Flows, Continues
  <2> QED BY <1>7, <2>1, <2>4 DEF t
<1>8. CASE p.part = "Complete"
  <2> DEFINE s == <<"sysex">> \o d
             t == Append(s, "sysex_end")
  <2>1. Midi1Bytes(p) = t
    BY <1>8, BytesOf DEF d
  <2>2. /\ s \in Seq(Bytes) /\ Len(s) = n + 1 /\ s[1] = "sysex"
        /\ \A i \in 2 .. n + 1 : s[i] \notin StatusBytes /\ s[i] # "sysex_end"
    BY <1>2, <1>4
  <2> HIDE DEF s
  <2>3. /\ Len(t) = n + 2 /\ t[n + 2] = "sysex_end"
        /\ \A i \in 1 .. n + 1 : t[i] = s[i]
    <3>1. /\ Len(t) = Len(s) + 1 /\ t[Len(s) + 1] = "sysex_end"
          /\ \A i \in 1 .. Len(s) : t[i] = s[i]
      BY <1>3, <1>4, <2>2
    <3>2. Len(s) + 1 = n + 2
      BY <1>1, <2>2
    <3> QED BY <2>2, <3>1, <3>2
  <2> HIDE DEF t
  <2>4. \A i \in 1 .. Len(t) : i = 1 \/ i \in 2 .. n + 1 \/ i = n + 2
    BY <1>1, <2>3
  <2>5. 1 \in 1 .. n + 1 /\ \A i \in 2 .. n + 1 : i \in 1 .. n + 1
    BY <1>1
  <2>6. t[1] = "sysex" /\ \A i \in 2 .. n + 1 : t[i] \notin StatusBytes /\ t[i] # "sysex_end"
    BY <2>2, <2>3, <2>5
  <2>7. Flows(sysex, t)
    BY <2>3, <2>4, <2>6 DEF Flows
  <2> QED BY <1>8, <2>1, <2>7
<1>9. CASE p.message # "sysex"
  <2>1. /\ p.part = "none" /\ p.message \in Messages /\ Midi1Bytes(p) = <<p.message>> \o d
    BY <1>9, WholeIs, BytesOf DEF d
  <2>2. p.message \in Bytes /\ p.message # "sysex_end"
    BY <2>1, ByteKinds DEF Messages, ChannelSize, SystemSize
  <2>3. Flows(sysex, <<p.message>> \o d)
    BY <1>1, <1>2, <2>2 DEF Flows
  <2> QED BY <2>1, <2>3
<1> QED BY <1>5, <1>6, <1>7, <1>8, <1>9, WholeIs DEF SysEx7Statuses

\* The bytes of a packet are cut into BLE packets.
LEMMA FlowsOn ==
  ASSUME NEW sysex \in BOOLEAN, NEW s \in Seq(Bytes), s # <<>>, NEW t \in Seq(Bytes),
         Flows(sysex, s \o t)
  PROVE  /\ Flows(sysex, s)
         /\ StaysOpen(sysex, s \o t) =>
              /\ sysex \/ s[1] = "sysex"
              /\ s[Len(s)] # "sysex_end"
         /\ \A after \in BOOLEAN :
              ((sysex \/ s[1] = "sysex") /\ s[Len(s)] # "sysex_end" => after) =>
                /\ Flows(after, t)
                /\ StaysOpen(sysex, s \o t) => StaysOpen(after, t)
<1> DEFINE all == s \o t
           m == Len(s)
           n == Len(t)
<1>1. /\ m \in Nat \ {0} /\ n \in Nat /\ Len(all) = m + n
      /\ \A i \in 1 .. m + n : all[i] = IF i <= m THEN s[i] ELSE t[i - m]
  BY EmptySeq, LenProperties, ConcatProperties
<1> HIDE DEF all
<1>2. /\ \A i \in 1 .. m : all[i] = s[i] /\ i \in 1 .. Len(all)
      /\ \A i \in 1 .. n : all[m + i] = t[i] /\ m + i \in 1 .. Len(all)
                           /\ (m + i = Len(all) <=> i = n)
      /\ 1 \in 1 .. m /\ m \in 1 .. m
  <2>1. ASSUME NEW i \in 1 .. m PROVE all[i] = s[i] /\ i \in 1 .. Len(all)
    <3>1. i \in 1 .. m + n /\ i <= m
      BY <1>1
    <3> HIDE DEF m, n
    <3> QED BY <1>1, <3>1
  <2>2. ASSUME NEW i \in 1 .. n
        PROVE  /\ all[m + i] = t[i] /\ m + i \in 1 .. Len(all)
               /\ (m + i = Len(all) <=> i = n)
    <3>1. m + i \in 1 .. m + n /\ ~(m + i <= m) /\ (m + i) - m = i /\ (m + i = m + n <=> i = n)
      BY <1>1
    <3> HIDE DEF m, n
    <3> QED BY <1>1, <3>1
  <2> QED BY <1>1, <2>1, <2>2
<1>3. all[1] = s[1] /\ all[m] = s[m]
  BY <1>2
<1>4. Flows(sysex, all)
  BY DEF all
<1>5. Flows(sysex, s)
  <2>1. ASSUME NEW i \in 1 .. m
        PROVE  /\ s[i] = "sysex_end" => i = m
               /\ i >= 2 /\ s[i] \in StatusBytes
                    => s[i] = "sysex_end" /\ (sysex \/ s[1] = "sysex")
    <3>1. all[i] = s[i] /\ i \in 1 .. Len(all)
      BY <1>2
    <3>2. s[i] = "sysex_end" => i = m + n
      BY <1>1, <1>4, <3>1 DEF Flows
    <3>3. s[i] = "sysex_end" => i = m
      BY <1>1, <3>2
    <3> QED BY <1>3, <1>4, <3>1, <3>3 DEF Flows
  <2> QED BY <2>1 DEF Flows
<1>6. ASSUME StaysOpen(sysex, all)
      PROVE  (sysex \/ s[1] = "sysex") /\ s[m] # "sysex_end"
  BY <1>2, <1>3, <1>6 DEF StaysOpen
<1>7. ASSUME NEW after \in BOOLEAN,
             (sysex \/ s[1] = "sysex") /\ s[m] # "sysex_end" => after
      PROVE  /\ Flows(after, t)
             /\ StaysOpen(sysex, all) => StaysOpen(after, t)
  <2>1. ASSUME NEW i \in 1 .. n
        PROVE  /\ t[i] = "sysex_end" => i = n
               /\ t[i] \in StatusBytes => t[i] = "sysex_end" /\ after
    <3>1. /\ all[m + i] = t[i] /\ m + i \in 1 .. Len(all) /\ (m + i = Len(all) <=> i = n)
      BY <1>2
    <3>2. m + i >= 2 /\ m # m + n
      BY <1>1
    <3>3. all[m] # "sysex_end"
      BY <1>1, <1>2, <1>4, <3>2 DEF Flows
    <3>4. t[i] = "sysex_end" => i = n
      BY <1>4, <3>1 DEF Flows
    <3>5. t[i] \in StatusBytes => t[i] = "sysex_end" /\ (sysex \/ all[1] = "sysex")
      BY <1>4, <3>1, <3>2 DEF Flows
    <3> QED BY <1>3, <1>7, <3>3, <3>4, <3>5
  <2>2. Flows(after, t)
    BY <2>1 DEF Flows
  <2>3. ASSUME StaysOpen(sysex, all) PROVE StaysOpen(after, t)
    <3>1. after
      BY <1>6, <1>7, <2>3
    <3>2. \A i \in 1 .. n : t[i] # "sysex_end"
      BY <1>2, <2>3 DEF StaysOpen
    <3> QED BY <3>1, <3>2 DEF StaysOpen
  <2> QED BY <2>2, <2>3
<1> QED BY <1>5, <1>6, <1>7 DEF all

-----------------------------------------------------------------------------
(* The transmit ring is the queue of the bytes accepted.                     *)

\* Unless clobbered, the ring buffer holds the bytes that the calls have queued,
\* and a put() on its way owns the free slot behind them.
QueueInv ==
  ~clobbered =>
    /\ queued = Content(tx, TxCapacity)
    /\ \A t \in Threads :
         /\ access[t].step \in {"put", "publish"} =>
              access[t].slot = NextSlot(tx, tx.head) /\ access[t].slot # tx.tail
         /\ access[t].step = "publish" => tx.cells[access[t].slot] = access[t].byte

\* The driver keeps it so, also when the interrupt comes between two steps of
\* a write().
LEMMA QueueKept ==
  ASSUME UartInv, scenario \in Scenarios, UartStep, QueueInv
  PROVE  QueueInv'
<1> SUFFICES ASSUME ~clobbered'
             PROVE  /\ queued' = Content(tx', TxCapacity)
                    /\ \A t \in Threads :
                         /\ access'[t].step \in {"put", "publish"} =>
                              /\ access'[t].slot = NextSlot(tx', tx'.head)
                              /\ access'[t].slot # tx'.tail
                         /\ access'[t].step = "publish" =>
                              tx'.cells[access'[t].slot] = access'[t].byte
  BY DEF QueueInv
<1> DEFINE Follows ==
             /\ queued' = Content(tx', TxCapacity)
             /\ \A t \in Threads :
                  /\ access'[t].step \in {"put", "publish"} =>
                       access'[t].slot = NextSlot(tx', tx'.head) /\ access'[t].slot # tx'.tail
                  /\ access'[t].step = "publish" => tx'.cells[access'[t].slot] = access'[t].byte
           Accesses == [step : {"none", "put", "publish", "enable", "advance"},
                        byte : Bytes, slot : Nat]
<1>0. /\ TxCapacity \in Nat \ {0} /\ Nobody \notin Threads
      /\ tx \in Rings(TxCapacity) /\ tx.head \in 0 .. TxCapacity /\ tx.tail \in 0 .. TxCapacity
      /\ access \in [Threads -> Accesses]
      /\ \A t \in Threads :
           /\ access[t].step # "none" => mutex = t
           /\ access[t].step \in {"put", "publish"} => access[t].slot \in 0 .. TxCapacity
  BY Given DEF UartInv, Rings
<1>1. ASSUME ~clobbered
      PROVE  /\ queued = Content(tx, TxCapacity)
             /\ \A t \in Threads :
                  /\ access[t].step \in {"put", "publish"} =>
                       access[t].slot = NextSlot(tx, tx.head) /\ access[t].slot # tx.tail
                  /\ access[t].step = "publish" => tx.cells[access[t].slot] = access[t].byte
  BY <1>1 DEF QueueInv
<1>2. ASSUME tx' = tx, queued' = queued, ~clobbered,
             \A t \in Threads : access'[t] = access[t] \/ access'[t].step \notin {"put", "publish"}
      PROVE  Follows
  BY <1>1, <1>2
<1> HIDE DEF Follows
<1>3. ASSUME NEW t \in Threads, NEW b \in Bytes, UartWrite(t, b) PROVE Follows
  <2>1. /\ tx' = tx /\ queued' = queued /\ ~clobbered
        /\ \A u \in Threads : access[u].step = "none"
        /\ NextSlot(tx, tx.head) # tx.tail
    BY <1>0, <1>3 DEF UartWrite, history, NoRoom
  <2>2. /\ access'[t].step = "put" /\ access'[t].slot = NextSlot(tx, tx.head)
        /\ \A u \in Threads : u # t => access'[u].step = "none"
    BY <1>0, <1>3, <2>1 DEF UartWrite, To
  <2> QED BY <1>1, <2>1, <2>2 DEF Follows
<1>4. ASSUME NEW t \in Threads, Put(t) PROVE Follows
  <2> DEFINE slot == access[t].slot
             b == access[t].byte
  <2>1. /\ ~clobbered /\ queued' = queued /\ tx' = [tx EXCEPT !.cells[slot] = b]
        /\ access[t].step = "put" /\ slot \in 0 .. TxCapacity /\ b \in Bytes
    BY <1>0, <1>4 DEF Put, history
  <2>2. slot = NextSlot(tx, tx.head) /\ slot # tx.tail
    BY <1>1, <2>1
  <2>3. /\ access'[t].step = "publish" /\ access'[t].slot = slot /\ access'[t].byte = b
        /\ \A u \in Threads : u # t => access'[u].step = "none"
    BY <1>0, <1>4, <2>1 DEF Put
  <2> HIDE DEF slot, b
  <2>4. /\ tx'.head = tx.head /\ tx'.tail = tx.tail /\ tx'.cells[slot] = b
        /\ NextSlot(tx', tx'.head) = NextSlot(tx, tx.head)
        /\ Content(tx', TxCapacity) = Content(tx, TxCapacity)
    <3> DEFINE filled == [tx EXCEPT !.cells[slot] = b]
    <3>1. /\ tx \in Rings(TxCapacity) /\ slot \in 0 .. TxCapacity /\ slot # tx.tail
          /\ slot = NextSlot(tx, tx.head) /\ b \in Bytes /\ TxCapacity \in Nat \ {0}
      BY <1>0, <2>1, <2>2
    <3>2. /\ filled.head = tx.head /\ filled.tail = tx.tail /\ filled.cells[slot] = b
          /\ NextSlot(filled, filled.head) = NextSlot(tx, tx.head)
          /\ Content(filled, TxCapacity) = Content(tx, TxCapacity)
      BY <3>1, PutIsUnseen
    <3>3. tx' = filled
      BY <2>1
    <3> HIDE DEF filled
    <3> QED BY <3>2, <3>3
  <2> QED BY <1>1, <2>1, <2>2, <2>3, <2>4 DEF Follows
<1>5. ASSUME NEW t \in Threads, Publish(t) PROVE Follows
  <2> DEFINE slot == access[t].slot
             b == access[t].byte
  <2>1. /\ ~clobbered /\ queued' = Append(queued, b) /\ tx' = [tx EXCEPT !.head = slot]
        /\ access[t].step = "publish" /\ slot \in 0 .. TxCapacity /\ b \in Bytes
    BY <1>0, <1>5 DEF Publish
  <2>2. slot = NextSlot(tx, tx.head) /\ slot # tx.tail /\ tx.cells[slot] = b
    BY <1>1, <2>1
  <2>3. \A u \in Threads : access'[u].step \notin {"put", "publish"}
    BY <1>0, <1>5, <2>1 DEF Publish
  <2> HIDE DEF slot, b
  <2>4. Content(tx', TxCapacity) = Append(Content(tx, TxCapacity), tx.cells[slot])
    BY <1>0, <2>1, <2>2, PublishAppends
  <2> QED BY <1>1, <2>1, <2>2, <2>3, <2>4 DEF Follows
<1>6. ASSUME NEW t \in Threads, Enable(t) \/ UartRead(t) \/ Advance(t) PROVE Follows
  <2>1. tx' = tx /\ queued' = queued /\ ~clobbered
    BY <1>6 DEF Enable, UartRead, Advance, history
  <2>2. /\ \A u \in Threads : u # t => access'[u] = access[u]
        /\ access'[t].step \notin {"put", "publish"}
    BY <1>0, <1>6 DEF Enable, UartRead, Advance, To, NoAccess
  <2> QED BY <1>2, <2>1, <2>2
<1>7. ASSUME NEW b \in Bytes, IsrReceive(b) PROVE Follows
  <2>1. ~clobbered /\ access' = access
    BY <1>7 DEF IsrReceive
  <2>2. CASE loopback /\ ~NoRoom(tx)
    <3> DEFINE slot == NextSlot(tx, tx.head)
               filled == [tx EXCEPT !.cells[slot] = b]
    <3>1. /\ tx' = insert(tx, b) /\ queued' = Append(queued, b)
          /\ \A t \in Threads : access'[t].step \notin {"put", "publish"}
      BY <1>7, <2>1, <2>2 DEF IsrReceive
    <3>2. slot \in 0 .. TxCapacity /\ slot # tx.tail
      BY <1>0, <2>2, SlotsGoRound DEF NoRoom
    <3>3. tx' = [tx EXCEPT !.cells[slot] = b, !.head = slot]
      BY <2>2, <3>1 DEF insert
    <3>4. tx' = [filled EXCEPT !.head = slot]
      BY <3>3
    <3>4a. /\ tx \in Rings(TxCapacity) /\ TxCapacity \in Nat \ {0}
           /\ slot = NextSlot(tx, tx.head) /\ b \in Bytes
      BY <1>0
    <3> HIDE DEF slot
    <3>4b. /\ filled \in Rings(TxCapacity) /\ filled.cells[slot] = b
          /\ filled.head = tx.head /\ filled.tail = tx.tail
          /\ NextSlot(filled, filled.head) = NextSlot(tx, tx.head)
          /\ Content(filled, TxCapacity) = Content(tx, TxCapacity)
      BY <3>2, <3>4a, PutIsUnseen
    <3>5. /\ filled \in Rings(TxCapacity) /\ filled.cells[slot] = b
          /\ filled.head = tx.head /\ filled.tail = tx.tail
      BY <3>4b
    <3>6. /\ NextSlot(filled, filled.head) = slot
          /\ Content(filled, TxCapacity) = Content(tx, TxCapacity)
      BY <3>4a, <3>4b
    <3> HIDE DEF filled
    <3>7. Content(tx', TxCapacity) = Append(Content(filled, TxCapacity), filled.cells[slot])
      BY <1>0, <3>2, <3>4, <3>5, <3>6, PublishAppends
    <3> QED BY <1>1, <2>1, <3>1, <3>5, <3>6, <3>7 DEF Follows
  <2>3. CASE ~(loopback /\ ~NoRoom(tx))
    BY <1>2, <1>7, <2>1, <2>3 DEF IsrReceive
  <2> QED BY <2>2, <2>3
<1>8. ASSUME IsrSend PROVE Follows
  <2>1. ~clobbered /\ access' = access /\ ~is_empty(tx) /\ tx' = remove(tx)
    BY <1>8 DEF IsrSend
  <2>2. /\ tx' \in Rings(TxCapacity) /\ Content(tx, TxCapacity) # <<>>
        /\ Head(Content(tx, TxCapacity)) = peek(tx)
        /\ Content(tx', TxCapacity) = Tail(Content(tx, TxCapacity))
    BY <1>0, <2>1, RemoveTakesFirst
  <2>3. queued' = Content(tx', TxCapacity)
    BY <1>1, <1>8, <2>1, <2>2 DEF IsrSend
  <2>4. tx'.head = tx.head /\ tx'.tail = NextSlot(tx, tx.tail) /\ tx'.cells = tx.cells
    BY <1>0, <2>1 DEF remove, Rings
  <2>5. NextSlot(tx', tx'.head) = NextSlot(tx, tx.head)
    BY <2>4 DEF NextSlot
  <2>6. NextSlot(tx, tx.head) # NextSlot(tx, tx.tail)
    <3>1. /\ NextSlot(tx, tx.head) = (IF tx.head = TxCapacity THEN 0 ELSE tx.head + 1)
          /\ NextSlot(tx, tx.tail) = (IF tx.tail = TxCapacity THEN 0 ELSE tx.tail + 1)
          /\ tx.head # tx.tail
      BY <1>0, <2>1, SlotsGoRound DEF is_empty
    <3> QED BY <1>0, <3>1
  <2> QED BY <1>1, <2>1, <2>3, <2>4, <2>5, <2>6 DEF Follows
<1>9. ASSUME IsrIdle \/ IsrFails \/ UartOpen \/ UartClose PROVE Follows
  BY <1>2, <1>9 DEF IsrIdle, IsrFails, UartOpen, UartClose, history
<1>10. ASSUME UNCHANGED <<uartUp, loopback, mutex, rx, tx, txIrq, access, history>>
       PROVE  Follows
  BY <1>2, <1>10 DEF history
<1>11. ASSUME UNCHANGED uartVars PROVE Follows
  BY <1>2, <1>11 DEF uartVars, history
<1> QED BY <1>3, <1>4, <1>5, <1>6, <1>7, <1>8, <1>9, <1>10, <1>11 DEF UartStep, Follows

-----------------------------------------------------------------------------
(* The wire carries the packets.                                             *)

\* What waits in the BLE packet: all of it, but for one just sent whose successor
\* is not yet started.
Unsent(t) == IF inByte[t] = "start" THEN <<>> ELSE Payload(txBuffer)

\* Bytes of a packet that thread t has not put into the ring buffer, or that
\* no BLE packet has taken to the peer.
Rest(t) ==
  IF link = "ble" THEN Unsent(t) \o writing[t].bytes
  ELSE IF access[t].step = "enable" THEN Tail(writing[t].bytes) ELSE writing[t].bytes

\* The bytes of p can travel in BLE packets.
Flowing(sysex, rest, p) ==
  /\ rest # <<>> /\ Flows(sysex, rest)
  /\ p.part \in {"Start", "Continue"} => StaysOpen(sysex, rest)

\* Thread t writes the last packet written.
Underway(t) ==
  /\ written # <<>> /\ writing[t].packet = <<Last(written)>>
  /\ Continues(Last(written)) <=> OpenIn(Front(written))
  /\ Carried(peer, queued, Rest(t), written)
  /\ link = "ble" => Flowing(peer.reader.sysex, Rest(t), Last(written))

\* No thread writes.
AtRest ==
  /\ Arrives(peer, queued, written)
  /\ link = "ble" /\ OpenIn(written) => peer.reader.sysex

\* Undisturbed, one write() at most is on its way, and the bytes queued, with
\* what it has left to write, complete what was written.
CarryInv ==
  ~disturbed =>
    /\ \A t, u \in Threads : writing[t].step = "bytes" /\ writing[u].step = "bytes" => t = u
    /\ (\A t \in Threads : writing[t].step = "none") => AtRest
    /\ \A t \in Threads : writing[t].step = "bytes" => Underway(t)

\* An echo that hits a write() has disturbed the stream, and nothing is in the
\* ring buffer of a BLE interface.
TxInv ==
  /\ clobbered => disturbed
  /\ link = "ble" => queued = <<>> /\ ~txIrq

\* The inductive invariant of PacketsArrive.
Carrying == Typed /\ QueueInv /\ TxInv /\ CarryInv

\* What is left to write is a sequence of bytes.
LEMMA RestIs ==
  ASSUME Typed, NEW t \in Threads, writing[t].step = "bytes"
  PROVE  Rest(t) \in Seq(Bytes)
<1>1. /\ writing[t] \in Writings /\ Payload(txBuffer) \in Seq(Bytes)
      /\ link = "serial" => writing[t].bytes # <<>>
      /\ link \in {"serial", "ble"}
  BY Given DEF Typed, WriteInv, WireInv, BaseInv, link
<1>2. /\ writing[t].bytes \in Seq(Bytes)
      /\ writing[t].bytes # <<>> => Tail(writing[t].bytes) \in Seq(Bytes)
  BY <1>1, WritingTypes
<1>3. Unsent(t) \in Seq(Bytes)
  BY <1>1, EmptySeq DEF Unsent
<1>4. Unsent(t) \o writing[t].bytes \in Seq(Bytes)
  BY <1>2, <1>3, ConcatProperties
<1> QED BY <1>1, <1>2, <1>4 DEF Rest

\* A step that has nothing to do with the wire.
LEMMA NothingMoves ==
  ASSUME CarryInv, UNCHANGED <<writing, written, disturbed, queued, peer, scenario>>,
         \A t \in Threads : writing[t].step = "bytes" => Rest(t)' = Rest(t)
  PROVE  CarryInv'
<1>1. link' = link
  BY DEF link
<1>2. AtRest => AtRest'
  BY <1>1 DEF AtRest
<1>3. ASSUME NEW t \in Threads, writing[t].step = "bytes", Underway(t) PROVE Underway(t)'
  BY <1>1, <1>3 DEF Underway
<1> QED BY <1>1, <1>2, <1>3 DEF CarryInv

\* The last packet of a sequence that has got it.
LEMMA PacketAppended ==
  ASSUME NEW w \in Seq(WholePackets), NEW p \in WholePackets
  PROVE  Append(w, p) # <<>> /\ Front(Append(w, p)) = w /\ Last(Append(w, p)) = p
BY LastAppended

\* A packet is begun.
LEMMA WriteBegins ==
  ASSUME Carrying, NEW t \in Threads, NEW p \in WholePackets, StartWrite(t, p),
         writing[t].step = "none", access[t].step = "none",
         UNCHANGED <<queued, peer, access, scenario, inByte>>
  PROVE  CarryInv'
<1> SUFFICES ASSUME ~disturbed'
             PROVE  /\ \A u, v \in Threads :
                         writing'[u].step = "bytes" /\ writing'[v].step = "bytes" => u = v
                    /\ (\A u \in Threads : writing'[u].step = "none") => AtRest'
                    /\ \A u \in Threads : writing'[u].step = "bytes" => Underway(u)'
  BY DEF CarryInv
<1>0. /\ Typed /\ CarryInv /\ link' = link /\ link \in {"serial", "ble"}
      /\ written \in Seq(WholePackets) /\ queued \in Seq(Bytes)
      /\ GoodParser(peer.parser) /\ peer.packets \in Seq(WholePackets)
      /\ peer.reader.sysex \in BOOLEAN
      /\ writing \in [Threads -> Writings]
  BY Given DEF Carrying, Typed, UartInv, BaseInv, WireInv, WriteInv, link, BleReaders
<1>1. /\ ~disturbed /\ \A u \in Threads : u # t => writing[u].step = "none"
      /\ Continues(p) = OpenSysEx
  BY DEF StartWrite
<1>2. Continues(p) = OpenIn(written)
  BY <1>1 DEF OpenSysEx, OpenIn
<1>3. AtRest
  BY <1>0, <1>1 DEF CarryInv
<1>4. /\ written' = Append(written, p)
      /\ writing' = [writing EXCEPT
                       ![t] = [step |-> "bytes", packet |-> <<p>>, bytes |-> Midi1Bytes(p)]]
      /\ link = "ble" => txBuffer' = StartedPacket
  BY DEF StartWrite
<1>5. /\ writing'[t].step = "bytes" /\ writing'[t].packet = <<p>>
      /\ writing'[t].bytes = Midi1Bytes(p)
      /\ \A u \in Threads : u # t => writing'[u].step = "none"
  BY <1>0, <1>1, <1>4
<1>6. written' # <<>> /\ Front(written') = written /\ Last(written') = p
  <2>1. /\ Append(written, p) # <<>> /\ Front(Append(written, p)) = written
        /\ Last(Append(written, p)) = p
    BY <1>0, PacketAppended
  <2> QED BY <1>4, <2>1
<1>7. Midi1Bytes(p) \in Seq(Bytes) /\ Midi1Bytes(p) # <<>>
  BY BytesFit
<1>8. Rest(t)' = Midi1Bytes(p)
  <2>1. Payload(StartedPacket) \o Midi1Bytes(p) = Midi1Bytes(p)
    BY <1>7, StartedIs, ConcatEmptySeq
  <2>2. CASE link = "ble"
    <3>1. inByte'[t] # "start"
      BY <1>0 DEF Typed, BleInv
    <3>2. Rest(t)' = Payload(txBuffer') \o writing'[t].bytes
      BY <1>0, <2>2, <3>1 DEF Rest, Unsent
    <3> QED BY <1>4, <1>5, <2>1, <2>2, <3>2
  <2>3. CASE link # "ble"
    BY <1>0, <1>5, <2>3 DEF Rest
  <2> QED BY <2>2, <2>3
<1>9. Carried(peer, queued, Midi1Bytes(p), Append(written, p))
  BY <1>0, <1>2, <1>3, Begun DEF AtRest
<1>10. link = "ble" => Flowing(peer.reader.sysex, Midi1Bytes(p), p)
  <2>1. ASSUME link = "ble" PROVE Flowing(peer.reader.sysex, Midi1Bytes(p), p)
    <3>1. Continues(p) => peer.reader.sysex
      BY <1>2, <1>3, <2>1 DEF AtRest
    <3>2. /\ Flows(peer.reader.sysex, Midi1Bytes(p))
          /\ p.part \in {"Start", "Continue"} => StaysOpen(peer.reader.sysex, Midi1Bytes(p))
      BY <1>0, <3>1, BytesFlow
    <3> QED BY <1>7, <3>2 DEF Flowing
  <2> QED BY <2>1
<1>11. Underway(t)'
  BY <1>0, <1>2, <1>4, <1>5, <1>6, <1>8, <1>9, <1>10 DEF Underway
<1> QED BY <1>5, <1>11

\* What is known when a write ends and the stream is not disturbed.
LEMMA WriteEnds ==
  ASSUME Carrying, NEW t \in Threads, NEW ok \in BOOLEAN, writing[t].step = "bytes",
         WriteReturns(t, ok), ~disturbed'
  PROVE  /\ ~disturbed /\ Underway(t) /\ Rest(t) \in Seq(Bytes)
         /\ ok => written' = written
         /\ ~ok => /\ written' = Front(written) /\ ~Continues(Last(written))
                   /\ ~OpenIn(Front(written))
         /\ AtRest' => CarryInv'
<1>0. Typed /\ CarryInv /\ writing \in [Threads -> Writings]
  BY DEF Carrying, Typed, WriteInv
<1>1. ~disturbed
  BY DEF WriteReturns
<1>2. /\ Underway(t)
      /\ \A u \in Threads : writing[u].step = "bytes" => u = t
  BY <1>0, <1>1 DEF CarryInv
<1>3. \A u \in Threads : writing'[u].step = "none"
  BY <1>0, <1>2, WritingTypes DEF WriteReturns, Writings
<1>4. ok => written' = written
  BY DEF WriteReturns
<1>5. ~ok => /\ written' = Front(written) /\ ~Continues(Last(written))
             /\ ~OpenIn(Front(written))
  <2>1. Head(writing[t].packet) = Last(written)
    BY <1>2 DEF Underway
  <2> QED BY <1>1, <1>2, <2>1 DEF WriteReturns, Underway
<1>6. AtRest' => CarryInv'
  BY <1>3 DEF CarryInv
<1>7. Rest(t) \in Seq(Bytes)
  BY <1>0, RestIs
<1> QED BY <1>1, <1>2, <1>4, <1>5, <1>6, <1>7

\* What a step does to the driver and the wire: only an echo disturbs a write,
\* and a BLE interface uses no UART.
LEMMA TxKept ==
  ASSUME Carrying, [Next]_vars
  PROVE  TxInv'
<1>0. /\ TxInv /\ link' = link /\ link \in {"serial", "ble"} /\ WriteInv
      /\ {clobbered, txIrq} \subseteq BOOLEAN /\ disturbed \in BOOLEAN
  BY NextIsUartStep, Given DEF Carrying, Typed, UartInv, BaseInv, WireInv, link
<1> USE DEF history, uartVars
<1>1. ASSUME UNCHANGED <<queued, txIrq, clobbered>>, disturbed => disturbed' PROVE TxInv'
  BY <1>0, <1>1 DEF TxInv
<1>2. ASSUME link # "ble", clobbered' = clobbered, disturbed => disturbed' PROVE TxInv'
  BY <1>0, <1>2 DEF TxInv
<1>3. CASE Transmit \/ Interrupt
  <2>1. link # "ble" /\ clobbered' = clobbered /\ disturbed' = disturbed
    BY <1>0, <1>3 DEF Transmit, Interrupt, IsrSend, IsrIdle, IsrFails, TxInv
  <2> QED BY <1>2, <2>1
<1>4. CASE Receive
  <2>1. /\ link # "ble" /\ disturbed' = (disturbed \/ loopback)
        /\ clobbered' => clobbered \/ loopback
    BY <1>4 DEF Receive, IsrReceive
  <2> QED BY <1>0, <2>1 DEF TxInv
<1>5. ASSUME NEW t \in Threads, NEW ok \in BOOLEAN, WriteReturns(t, ok)
      PROVE  disturbed => disturbed'
  BY <1>5 DEF WriteReturns
<1>6. ASSUME NEW t \in Threads, Write(t) PROVE TxInv'
  <2>1. CASE SerialByte(t)
    BY <1>1, <2>1 DEF SerialByte, UartWrite
  <2>2. CASE SerialRefused(t)
    BY <1>1, <1>5, <2>2 DEF SerialRefused
  <2>3. CASE SerialMemory(t)
    <3>1. link # "ble" /\ clobbered' = clobbered /\ disturbed' = disturbed
      BY <1>0, <2>3 DEF SerialMemory, Put, Publish, WriteInv
    <3> QED BY <1>2, <3>1
  <2>4. CASE SerialDone(t)
    <3>1. link # "ble" /\ clobbered' = clobbered
      BY <1>0, <2>4 DEF SerialDone, Enable, WriteInv
    <3>2. disturbed => disturbed'
      BY <1>5, <2>4 DEF SerialDone
    <3> QED BY <1>2, <3>1, <3>2
  <2>5. CASE BleChecks(t) \/ BleFlushes(t) \/ BleStarts(t) \/ BleAppends(t) \/ BleAborts(t)
    BY <1>1, <2>5 DEF BleChecks, BleFlushes, BleStarts, BleAppends, BleAborts, ByteGoesOn
  <2>6. CASE BleDone(t)
    BY <1>1, <1>5, <2>6 DEF BleDone
  <2>7. CASE BleFails(t)
    BY <1>1, <1>5, <2>7 DEF BleFails
  <2> QED BY <1>6, <2>1, <2>2, <2>3, <2>4, <2>5, <2>6, <2>7 DEF Write
<1>7. ASSUME NEW t \in Senders, Send(t) PROVE TxInv'
  BY <1>1, <1>7 DEF Send, StartWrite
<1>8. CASE Thru
  BY <1>1, <1>8 DEF Thru, StartWrite
<1>9. CASE SerialRead
  BY <1>1, <1>9 DEF SerialRead, UartRead
<1>10. CASE SerialParse
  BY <1>1, <1>10 DEF SerialParse, Advance
<1>11. CASE BleFetch \/ BleParse \/ Deinit
  BY <1>1, <1>11 DEF BleFetch, BleParse, Deinit
<1>12. CASE CloseTransport
  <2>1. CASE link = "serial"
    BY <1>2, <1>12, <2>1 DEF CloseTransport, UartClose
  <2>2. CASE link # "serial"
    BY <1>1, <1>12, <2>2 DEF CloseTransport
  <2> QED BY <2>1, <2>2
<1>13. CASE Reopen
  BY <1>1, <1>13 DEF Reopen, UartOpen
<1>14. ASSUME NEW s \in scenario.sinks, Register(s) \/ Unregister(s) PROVE TxInv'
  BY <1>1, <1>14 DEF Register, Unregister
<1>15. CASE ReadNothing \/ UNCHANGED vars
  BY <1>1, <1>15 DEF ReadNothing, vars
<1> QED BY <1>3, <1>4, <1>6, <1>7, <1>8, <1>9, <1>10, <1>11, <1>12, <1>13, <1>14, <1>15 DEF Next

\* The transmit interrupt takes the oldest byte to the peer.
LEMMA TransmitCarries ==
  ASSUME Carrying, Transmit
  PROVE  CarryInv'
<1>0. /\ Typed /\ QueueInv /\ TxInv /\ CarryInv
      /\ TxCapacity \in Nat \ {0} /\ tx \in Rings(TxCapacity)
      /\ queued \in Seq(Bytes) /\ written \in Seq(WholePackets)
      /\ GoodParser(peer.parser) /\ peer.packets \in Seq(WholePackets)
  BY Given DEF Carrying, Typed, UartInv, WireInv
<1>1. /\ UNCHANGED <<scenario, writing, written, disturbed, access, txBuffer>>
      /\ link # "ble" /\ link' = link /\ ~is_empty(tx)
      /\ PeerReads(<<peek(tx)>>, peer.reader)
      /\ queued' = IF queued # <<>> /\ Head(queued) = peek(tx) THEN Tail(queued) ELSE queued
  BY <1>0 DEF Transmit, IsrSend, TxInv, link
<1> SUFFICES ASSUME ~disturbed PROVE CarryInv'
  BY <1>1 DEF CarryInv
<1> DEFINE b == peek(tx)
<1>2. queued # <<>> /\ Head(queued) = b /\ b \in Bytes
  <2>1. queued = Content(tx, TxCapacity)
    BY <1>0 DEF TxInv, QueueInv
  <2> QED BY <1>0, <1>1, <2>1, RemoveTakesFirst
<1>3. queued' = Tail(queued) /\ Tail(queued) \in Seq(Bytes)
  BY <1>0, <1>1, <1>2, HeadTailProperties
<1> DEFINE first == <<b>>
           k == Tail(queued)
<1> HIDE DEF b
<1>4. queued = first \o k /\ first \in Seq(Bytes)
  BY <1>0, <1>2
<1>5. HasRead(peer, first, peer')
  BY <1>1 DEF PeerReads, HasRead, Got, b
<1> HIDE DEF first, k
<1>6. /\ Arrives(peer, first \o k, written) => Arrives(peer', k, written)
      /\ \A rest \in Seq(Bytes) :
           Carried(peer, first \o k, rest, written) => Carried(peer', k, rest, written)
  <2>1. /\ GoodParser(peer.parser) /\ peer.packets \in Seq(WholePackets)
        /\ first \in Seq(Bytes) /\ k \in Seq(Bytes) /\ HasRead(peer, first, peer')
    BY <1>0, <1>3, <1>4, <1>5 DEF k
  <2> QED BY <2>1, CarriedOn
<1>7. /\ Arrives(peer, queued, written) => Arrives(peer', queued', written)
      /\ \A rest \in Seq(Bytes) :
           Carried(peer, queued, rest, written) => Carried(peer', queued', rest, written)
  BY <1>3, <1>4, <1>6 DEF k
<1>8. ASSUME NEW t \in Threads, writing[t].step = "bytes", Underway(t) PROVE Underway(t)'
  <2>1. Rest(t)' = Rest(t) /\ Rest(t) \in Seq(Bytes)
    BY <1>0, <1>1, <1>8, RestIs DEF Rest
  <2>2. Carried(peer', queued', Rest(t), written)
    BY <1>7, <1>8, <2>1 DEF Underway
  <2> QED BY <1>1, <1>8, <2>1, <2>2 DEF Underway
<1>9. AtRest => AtRest'
  BY <1>1, <1>7 DEF AtRest
<1> QED BY <1>0, <1>1, <1>8, <1>9 DEF CarryInv

\* A write that fails takes nothing but its own packet away.
LEMMA FailureCarries ==
  ASSUME Carrying, NEW t \in Threads, writing[t].step = "bytes", WriteReturns(t, FALSE),
         link = "serial" => access[t].step = "none",
         UNCHANGED <<queued, peer, scenario>>
  PROVE  CarryInv'
<1> SUFFICES ASSUME ~disturbed' PROVE CarryInv'
  BY DEF CarryInv
<1>1. /\ ~disturbed /\ Underway(t) /\ Rest(t) \in Seq(Bytes)
      /\ written' = Front(written) /\ ~Continues(Last(written)) /\ ~OpenIn(Front(written))
      /\ AtRest' => CarryInv'
  BY WriteEnds
<1>2. /\ queued \in Seq(Bytes) /\ link' = link /\ link \in {"serial", "ble"}
      /\ link = "serial" => writing[t].bytes # <<>>
  BY Given DEF Carrying, Typed, UartInv, BaseInv, WriteInv, link
<1>3. Rest(t) # <<>>
  <2>1. CASE link = "ble"
    BY <1>1, <2>1 DEF Underway, Flowing
  <2>2. CASE link = "serial"
    BY <1>2, <2>2 DEF Rest
  <2> QED BY <1>2, <2>1, <2>2
<1>4. Carried(peer, queued, Rest(t), written)
  BY <1>1 DEF Underway
<1>5. Arrives(peer, queued, Front(written))
  BY <1>1, <1>2, <1>3, <1>4, CutOff
<1> QED BY <1>1, <1>2, <1>5 DEF AtRest

\* A byte is put into the ring buffer.
LEMMA MemoryCarries ==
  ASSUME Carrying, NEW t \in Threads, SerialMemory(t)
  PROVE  CarryInv'
<1>0. /\ Typed /\ CarryInv /\ link' = link /\ link = "serial"
      /\ writing[t].step = "bytes" /\ writing[t].bytes # <<>>
      /\ access[t].byte = Head(writing[t].bytes) /\ access[t].step \in {"put", "publish"}
      /\ queued \in Seq(Bytes) /\ writing[t] \in Writings
      /\ access \in [Threads -> [step : {"none", "put", "publish", "enable", "advance"},
                                 byte : Bytes, slot : Nat]]
  BY DEF Carrying, Typed, UartInv, WriteInv, SerialMemory, Put, Publish, link
<1>1. UNCHANGED <<scenario, peer, writing, written, disturbed, txBuffer>>
  BY DEF SerialMemory, wireVars
<1>2. CASE Put(t)
  <2>1. /\ queued' = queued /\ access'[t].step = "publish" /\ access[t].step = "put"
        /\ \A u \in Threads : u # t => access'[u] = access[u]
    BY <1>0, <1>2 DEF Put, history
  <2>2. \A u \in Threads : Rest(u)' = Rest(u)
    BY <1>0, <1>1, <2>1 DEF Rest
  <2> QED BY <1>0, <1>1, <2>1, <2>2, NothingMoves
<1>3. CASE Publish(t)
  <2> DEFINE bytes == writing[t].bytes
  <2>1. /\ queued' = Append(queued, Head(bytes)) /\ access'[t].step = "enable"
        /\ access[t].step = "publish"
    BY <1>0, <1>3 DEF Publish
  <2>2. Rest(t) = bytes /\ Rest(t)' = Tail(bytes)
    BY <1>0, <1>1, <2>1 DEF Rest
  <2>3. bytes \in Seq(Bytes) /\ bytes # <<>>
    BY <1>0, WritingTypes
  <2> SUFFICES ASSUME ~disturbed PROVE CarryInv'
    BY <1>1 DEF CarryInv
  <2>4. /\ Underway(t)
        /\ \A u, v \in Threads : writing[u].step = "bytes" /\ writing[v].step = "bytes" => u = v
    BY <1>0 DEF CarryInv
  <2>5. Carried(peer, queued, bytes, written)
    BY <2>2, <2>4 DEF Underway
  <2> HIDE DEF bytes
  <2>6. Carried(peer, Append(queued, Head(bytes)), Tail(bytes), written)
    BY <1>0, <2>3, <2>5, ByteQueued
  <2>7. Underway(t)'
    BY <1>0, <1>1, <2>1, <2>2, <2>4, <2>6 DEF Underway
  <2> QED BY <1>0, <1>1, <2>4, <2>7 DEF CarryInv
<1> QED BY <1>2, <1>3 DEF SerialMemory

\* write() of the driver returns.
LEMMA DoneCarries ==
  ASSUME Carrying, NEW t \in Threads, SerialDone(t)
  PROVE  CarryInv'
<1>0. /\ Typed /\ CarryInv /\ link' = link /\ link = "serial"
      /\ writing[t].step = "bytes" /\ writing[t].bytes # <<>> /\ access[t].step = "enable"
      /\ writing \in [Threads -> Writings]
      /\ access \in [Threads -> [step : {"none", "put", "publish", "enable", "advance"},
                                 byte : Bytes, slot : Nat]]
  BY DEF Carrying, Typed, UartInv, WriteInv, SerialDone, Enable, link
<1>1. /\ UNCHANGED <<scenario, peer, txBuffer, queued>>
      /\ access' = [access EXCEPT ![t] = NoAccess] /\ access'[t].step = "none"
  BY <1>0 DEF SerialDone, Enable, wireVars, NoAccess
<1>2. CASE Len(writing[t].bytes) = 1
  <2> SUFFICES ASSUME ~disturbed' PROVE CarryInv'
    BY DEF CarryInv
  <2>1. WriteReturns(t, TRUE)
    BY <1>2 DEF SerialDone
  <2>2. /\ Underway(t) /\ Rest(t) \in Seq(Bytes) /\ written' = written
        /\ AtRest' => CarryInv'
    BY <1>0, <2>1, WriteEnds
  <2>3. Rest(t) = <<>>
    <3>1. Rest(t) = Tail(writing[t].bytes)
      BY <1>0 DEF Rest
    <3>2. Len(Tail(writing[t].bytes)) = Len(writing[t].bytes) - 1
      BY <1>0, WritingTypes
    <3>3. Len(Rest(t)) = 0
      BY <1>2, <3>1, <3>2
    <3> QED BY <2>2, <3>3, EmptySeq
  <2>4. Carried(peer, queued, <<>>, written)
    BY <2>2, <2>3 DEF Underway
  <2>5. Arrives(peer, queued, written)
    <3>1. queued \in Seq(Bytes)
      BY <1>0 DEF Typed, UartInv
    <3> QED BY <2>4, <3>1, AllSent
  <2> QED BY <1>0, <1>1, <2>2, <2>5 DEF AtRest
<1>3. CASE Len(writing[t].bytes) # 1
  <2>1. /\ writing' = [writing EXCEPT ![t].bytes = Tail(@)]
        /\ UNCHANGED <<written, disturbed>>
    BY <1>3 DEF SerialDone
  <2>2. /\ writing'[t].bytes = Tail(writing[t].bytes)
        /\ writing'[t].step = writing[t].step /\ writing'[t].packet = writing[t].packet
        /\ \A u \in Threads : u # t => writing'[u] = writing[u]
    BY <1>0, <2>1 DEF Writings
  <2>3. \A u \in Threads : Rest(u)' = Rest(u)
    BY <1>0, <1>1, <2>2 DEF Rest
  <2>4. \A u \in Threads : writing'[u].step = writing[u].step
                           /\ writing'[u].packet = writing[u].packet
    BY <2>2
  <2>5. ASSUME NEW u \in Threads, Underway(u) PROVE Underway(u)'
    BY <1>0, <1>1, <2>1, <2>3, <2>4, <2>5 DEF Underway
  <2>6. AtRest => AtRest'
    BY <1>0, <1>1, <2>1 DEF AtRest
  <2> QED BY <1>0, <2>1, <2>4, <2>5, <2>6 DEF CarryInv
<1> QED BY <1>2, <1>3

\* A BLE packet takes to the peer what has been put into it.
LEMMA FlushCarries ==
  ASSUME Carrying, ~disturbed, NEW t \in Threads, writing[t].step = "bytes", link = "ble",
         inByte[t] # "start", FlushPacket, Payload(txBuffer) # <<>>
  PROVE  /\ Carried(peer', <<>>, writing[t].bytes, written)
         /\ writing[t].bytes # <<>> =>
              Flowing(peer'.reader.sysex, writing[t].bytes, Last(written))
         /\ Last(written).part \in {"Start", "Continue"} => peer'.reader.sysex
<1> DEFINE s == Payload(txBuffer)
           bytes == writing[t].bytes
           p == Last(written)
           taken == TakeAll(peer.reader, txBuffer)
<1>0. /\ s \in Seq(Bytes) /\ txBuffer = StartedPacket \o s /\ Len(txBuffer) = Len(s) + 2
      /\ Len(txBuffer) <= BLE_MAX_PACKET_SIZE /\ s # <<>>
      /\ peer.reader \in BleReaders /\ peer.reader.sysex \in BOOLEAN
      /\ GoodParser(peer.parser) /\ peer.packets \in Seq(WholePackets)
      /\ queued = <<>> /\ writing[t] \in Writings
  BY BleTypes DEF Carrying, Typed, WireInv, WriteInv, TxInv, BleReaders
<1>1. bytes \in Seq(Bytes)
  BY <1>0, WritingTypes
<1>2. /\ Carried(peer, <<>>, s \o bytes, written)
      /\ Flowing(peer.reader.sysex, s \o bytes, p)
  <2>1. Underway(t)
    BY DEF Carrying, CarryInv
  <2>2. Rest(t) = s \o bytes
    BY DEF Rest, Unsent
  <2> QED BY <1>0, <2>1, <2>2 DEF Underway
<1> HIDE DEF s, bytes, p
<1>3. /\ Flows(peer.reader.sysex, s \o bytes)
      /\ p.part \in {"Start", "Continue"} => StaysOpen(peer.reader.sysex, s \o bytes)
  BY <1>2 DEF Flowing
<1>4. /\ Flows(peer.reader.sysex, s)
      /\ StaysOpen(peer.reader.sysex, s \o bytes) =>
           /\ peer.reader.sysex \/ s[1] = "sysex"
           /\ s[Len(s)] # "sysex_end"
      /\ \A after \in BOOLEAN :
           ((peer.reader.sysex \/ s[1] = "sysex") /\ s[Len(s)] # "sysex_end" => after) =>
             /\ Flows(after, bytes)
             /\ StaysOpen(peer.reader.sysex, s \o bytes) => StaysOpen(after, bytes)
  BY <1>0, <1>1, <1>3, FlowsOn
<1>5. /\ taken.out = s /\ taken.reader \in BleReaders
      /\ (peer.reader.sysex \/ s[1] = "sysex") /\ s[Len(s)] # "sysex_end"
           => taken.reader.sysex
  <2>1. Len(s) + 2 <= BLE_MAX_PACKET_SIZE
    BY <1>0
  <2> DEFINE all == TakeAll(peer.reader, StartedPacket \o s)
  <2>2. /\ all.out = s /\ all.reader \in BleReaders
        /\ (peer.reader.sysex \/ s[1] = "sysex") /\ s[Len(s)] # "sysex_end"
             => all.reader.sysex
    BY <1>0, <1>4, <2>1, PayloadTaken
  <2>3. taken = all
    BY <1>0
  <2> HIDE DEF taken, all
  <2> QED BY <2>2, <2>3
<1>6. ~(Len(txBuffer) <= 2)
  <2>1. Len(s) \in Nat \ {0}
    BY <1>0, EmptySeq
  <2> QED BY <1>0, <2>1
<1>7. PeerReads(taken.out, taken.reader)
  BY <1>6 DEF FlushPacket
<1> HIDE DEF taken
<1>8. HasRead(peer, s, peer') /\ peer'.reader = taken.reader
  BY <1>5, <1>7 DEF PeerReads, HasRead, Got
<1>9. Carried(peer', <<>>, bytes, written)
  BY <1>0, <1>1, <1>2, <1>8, PayloadSent
<1>10. taken.reader.sysex \in BOOLEAN
  BY <1>5 DEF BleReaders
<1>11. Flows(taken.reader.sysex, bytes)
  BY <1>4, <1>5, <1>10
<1>12. p.part \in {"Start", "Continue"} => StaysOpen(taken.reader.sysex, bytes)
  BY <1>3, <1>4, <1>5, <1>10
<1>13. p.part \in {"Start", "Continue"} => taken.reader.sysex
  BY <1>3, <1>4, <1>5
<1> QED BY <1>8, <1>9, <1>11, <1>12, <1>13 DEF Flowing, bytes, p

\* write_midi_byte() of the BLE transport sends a full packet and starts the next
\* before it adds its byte.
LEMMA BleByteCarries ==
  ASSUME Carrying, NEW t \in Threads,
         BleChecks(t) \/ BleFlushes(t) \/ BleStarts(t) \/ BleAppends(t) \/ BleAborts(t)
  PROVE  CarryInv'
<1> DEFINE s == Payload(txBuffer)
           bytes == writing[t].bytes
           b == Head(bytes)
<1>0. /\ Typed /\ CarryInv /\ link' = link /\ link = "ble" /\ queued = <<>>
      /\ writing[t].step = "bytes" /\ bytes # <<>> /\ writing[t] \in Writings
      /\ writing \in [Threads -> Writings] /\ inByte \in [Threads -> InByteSteps]
      /\ UNCHANGED <<scenario, queued, written, disturbed>>
  BY DEF Carrying, Typed, WriteInv, BleInv, TxInv, BleChecks, BleFlushes, BleStarts,
     BleAppends, BleAborts, InByte, ByteGoesOn, Writes, link, uartVars, history
<1>1. /\ bytes \in Seq(Bytes) /\ b \in Bytes /\ Tail(bytes) \in Seq(Bytes)
      /\ s \in Seq(Bytes) /\ txBuffer = StartedPacket \o s /\ Len(txBuffer) = Len(s) + 2
      /\ txBuffer \in BlePackets
  BY <1>0, WritingTypes DEF Typed, WireInv
<1> SUFFICES ASSUME ~disturbed PROVE CarryInv'
  BY <1>0 DEF CarryInv
<1>2. /\ Underway(t)
      /\ \A u \in Threads : writing[u].step = "bytes" => u = t
      /\ inByte[t] # "aborted"
      /\ inByte[t] = "append" => ~(Len(txBuffer) >= BLE_MAX_PACKET_SIZE)
      /\ inByte[t] = "flush" => Len(txBuffer) >= BLE_MAX_PACKET_SIZE
  BY <1>0 DEF CarryInv, Typed, BleInv
<1>3. ASSUME UNCHANGED <<writing, peer>>, Rest(t)' = Rest(t) PROVE CarryInv'
  BY <1>0, <1>2, <1>3, NothingMoves
<1>4. CASE BleChecks(t)
  <2>1. UNCHANGED <<writing, peer, txBuffer>>
    BY <1>4 DEF BleChecks
  <2>2. inByte[t] # "start" /\ inByte'[t] # "start"
    BY <1>0, <1>4 DEF BleChecks, InByte, ByteGoesOn
  <2>3. Rest(t)' = Rest(t)
    BY <1>0, <2>1, <2>2 DEF Rest, Unsent
  <2> QED BY <1>3, <2>1, <2>3
<1>5. CASE BleFlushes(t)
  <2>1. /\ inByte[t] = "flush" /\ inByte'[t] = "start" /\ FlushPacket /\ writing' = writing
    BY <1>0, <1>5 DEF BleFlushes, InByte, ByteGoesOn
  <2>2. s # <<>>
    <3>1. Len(s) # 0
      BY <1>1, <1>2, <2>1, BleTypes, LenProperties
    <3> QED BY <3>1, EmptySeq
  <2>3. /\ Carried(peer', <<>>, bytes, written)
        /\ Flowing(peer'.reader.sysex, bytes, Last(written))
    BY <1>0, <2>1, <2>2, FlushCarries
  <2>4. Rest(t)' = bytes
    <3>1. Rest(t)' = <<>> \o bytes
      BY <1>0, <2>1 DEF Rest, Unsent
    <3> QED BY <1>1, <3>1, ConcatEmptySeq
  <2>5. Underway(t)'
    BY <1>0, <1>2, <2>1, <2>3, <2>4 DEF Underway
  <2> QED BY <1>0, <1>2, <2>1, <2>5 DEF CarryInv
<1>6. CASE BleStarts(t)
  <2>1. /\ UNCHANGED <<writing, peer>> /\ txBuffer' = StartedPacket
        /\ inByte[t] = "start" /\ inByte'[t] = "append"
    BY <1>0, <1>6 DEF BleStarts, InByte, ByteGoesOn
  <2>2. Rest(t) = <<>> \o bytes
    BY <1>0, <2>1 DEF Rest, Unsent
  <2>3. Rest(t)' = Payload(txBuffer') \o bytes /\ Payload(txBuffer') = <<>>
    BY <1>0, <2>1, StartedIs DEF Rest, Unsent
  <2> QED BY <1>3, <2>1, <2>2, <2>3
<1>7. CASE BleAppends(t)
  <2>1. /\ txBuffer' = Append(txBuffer, b) /\ UNCHANGED peer
        /\ writing' = [writing EXCEPT ![t].bytes = Tail(@)]
        /\ inByte[t] = "append" /\ inByte'[t] = "check"
    BY <1>0, <1>7 DEF BleAppends, InByte, ByteGoesOn
  <2>2. /\ writing'[t].bytes = Tail(bytes)
        /\ writing'[t].step = "bytes" /\ writing'[t].packet = writing[t].packet
        /\ \A u \in Threads : u # t => writing'[u] = writing[u]
    BY <1>0, <2>1 DEF Writings
  <2>3. Rest(t) = s \o bytes
    BY <1>0, <2>1 DEF Rest, Unsent
  <2>4. Payload(txBuffer') = Append(s, b)
    <3>1. ~(Len(txBuffer) >= BLE_MAX_PACKET_SIZE)
      BY <1>2, <2>1
    <3> HIDE DEF b, bytes
    <3> QED BY <1>1, <2>1, <3>1, BufferGrows
  <2>5. Rest(t)' = Append(s, b) \o Tail(bytes)
    BY <1>0, <2>1, <2>2, <2>4 DEF Rest, Unsent
  <2>6. Append(s, b) \o Tail(bytes) = s \o bytes
    <3> DEFINE rest == Tail(bytes)
    <3>1. bytes = <<b>> \o rest
      BY <1>0, <1>1
    <3> HIDE DEF s, bytes, b, rest
    <3>2. Append(s, b) = s \o <<b>> /\ <<b>> \in Seq(Bytes) /\ rest \in Seq(Bytes)
      BY <1>1, AppendIsConcat DEF rest
    <3>3. (s \o <<b>>) \o rest = s \o (<<b>> \o rest)
      BY <1>1, <3>2, Regrouped
    <3> QED BY <3>1, <3>2, <3>3 DEF rest
  <2>7. Rest(t)' = Rest(t)
    BY <2>3, <2>5, <2>6
  <2>8. Underway(t)'
    BY <1>0, <1>2, <2>1, <2>2, <2>7 DEF Underway
  <2> QED BY <1>0, <1>2, <2>2, <2>8 DEF CarryInv
<1>8. CASE BleAborts(t)
  BY <1>2, <1>8 DEF BleAborts, InByte
<1> QED BY <1>4, <1>5, <1>6, <1>7, <1>8

\* The last BLE packet of a packet is sent.
LEMMA BleDoneCarries ==
  ASSUME Carrying, NEW t \in Threads, BleDone(t)
  PROVE  CarryInv'
<1> SUFFICES ASSUME ~disturbed' PROVE CarryInv'
  BY DEF CarryInv
<1>0. /\ Typed /\ link' = link /\ link = "ble" /\ queued = <<>> /\ queued' = queued
      /\ writing[t].step = "bytes" /\ writing[t].bytes = <<>> /\ inByte[t] # "start"
      /\ WriteReturns(t, TRUE) /\ FlushPacket
      /\ Payload(txBuffer) \in Seq(Bytes)
  BY DEF Carrying, Typed, WireInv, BleInv, TxInv, BleDone, Writes, link, uartVars, history
<1>1. /\ ~disturbed /\ Underway(t) /\ written' = written /\ (AtRest' => CarryInv')
  BY <1>0, WriteEnds
<1>2. Payload(txBuffer) # <<>>
  <2>1. Rest(t) = Payload(txBuffer)
    BY <1>0, ConcatEmptySeq DEF Rest, Unsent
  <2> QED BY <1>0, <1>1, <2>1 DEF Underway, Flowing
<1>3. /\ Carried(peer', <<>>, <<>>, written)
      /\ Last(written).part \in {"Start", "Continue"} => peer'.reader.sysex
  BY <1>0, <1>1, <1>2, FlushCarries
<1>4. Arrives(peer', <<>>, written)
  BY <1>3, EmptySeq, AllSent
<1> QED BY <1>0, <1>1, <1>3, <1>4 DEF AtRest, OpenIn

\* Every step carries the packets on.
LEMMA CarryKept ==
  ASSUME Carrying, [Next]_vars
  PROVE  CarryInv'
<1>0. /\ Typed /\ CarryInv /\ scenario' = scenario /\ WriteInv /\ BaseInv
      /\ access \in [Threads -> [step : {"none", "put", "publish", "enable", "advance"},
                                 byte : Bytes, slot : Nat]]
      /\ \A t \in Threads : access[t].step # "none" => mutex = t
      /\ writing \in [Threads -> Writings]
      /\ Nobody \notin Threads /\ Reader \in Threads /\ Reader \notin Senders
      /\ \A t \in Senders : t \in Threads
      /\ link' = link /\ link \in {"serial", "ble"}
  <2>1. Typed /\ CarryInv /\ scenario' = scenario /\ scenario \in Scenarios
    BY NextIsUartStep DEF Carrying, Typed, BaseInv
  <2>2. link' = link /\ link \in {"serial", "ble"}
    BY <2>1, Given DEF link
  <2> QED BY <2>1, <2>2, Given DEF Typed, UartInv, WriteInv
<1> USE DEF baseVars, readVars, wireVars, uartVars, history
<1>1. ASSUME UNCHANGED <<writing, written, disturbed, queued, peer, txBuffer, inByte>>,
             \A t \in Threads : \/ access'[t].step = access[t].step
                                \/ access'[t].step # "enable" /\ access[t].step # "enable"
      PROVE  CarryInv'
  <2>1. \A t \in Threads : Rest(t)' = Rest(t)
    BY <1>0, <1>1 DEF Rest, Unsent
  <2> QED BY <1>0, <1>1, <2>1, NothingMoves
<1>2. CASE Transmit
  BY <1>2, TransmitCarries
<1>3. CASE Interrupt
  BY <1>1, <1>3 DEF Interrupt, IsrIdle, IsrFails
<1>4. CASE Receive
  <2>1. UNCHANGED <<writing, written, peer, txBuffer, access, inByte>>
    BY <1>4 DEF Receive, IsrReceive
  <2>2. disturbed' = (disturbed \/ loopback) /\ (~loopback => queued' = queued)
    BY <1>4 DEF Receive, IsrReceive
  <2>3. CASE disturbed'
    BY <2>3 DEF CarryInv
  <2>4. CASE ~disturbed'
    <3>1. disturbed' = disturbed /\ queued' = queued
      BY <2>2, <2>4, <1>0 DEF Typed, WireInv
    <3> QED BY <1>1, <2>1, <3>1
  <2> QED BY <2>3, <2>4
<1>5. ASSUME NEW t \in Threads, Write(t) PROVE CarryInv'
  <2>1. CASE SerialByte(t)
    <3>1. UNCHANGED <<writing, written, disturbed, queued, peer, txBuffer, inByte>>
      BY <2>1 DEF SerialByte, UartWrite
    <3>2. \A u \in Threads : access'[u].step # "enable" /\ access[u].step # "enable"
      BY <1>0, <2>1 DEF SerialByte, UartWrite, To
    <3> QED BY <1>1, <3>1, <3>2
  <2>2. CASE SerialRefused(t)
    BY <2>2, FailureCarries DEF SerialRefused, Writes
  <2>3. CASE SerialMemory(t)
    BY <2>3, MemoryCarries
  <2>4. CASE SerialDone(t)
    BY <2>4, DoneCarries
  <2>5. CASE BleChecks(t) \/ BleFlushes(t) \/ BleStarts(t) \/ BleAppends(t) \/ BleAborts(t)
    BY <2>5, BleByteCarries
  <2>6. CASE BleDone(t)
    BY <2>6, BleDoneCarries
  <2>7. CASE BleFails(t)
    BY <2>7, FailureCarries DEF BleFails, Writes
  <2> QED BY <1>5, <2>1, <2>2, <2>3, <2>4, <2>5, <2>6, <2>7 DEF Write
<1>6. ASSUME NEW t \in Senders, Send(t) PROVE CarryInv'
  <2>1. t \in Threads /\ t # Reader /\ todo[t] \in Seq(WholePackets) /\ todo[t] # <<>>
    BY <1>0, <1>6 DEF Send, BaseInv
  <2>2. Head(todo[t]) \in WholePackets
    BY <2>1, HeadTailProperties
  <2>3. writing[t].step = "none" /\ access[t].step = "none"
    <3>1. writing[t].step # "bytes"
      BY <1>0, <1>6, <2>1 DEF Send, WriteInv
    <3>2. writing[t].step = "none"
      BY <1>0, <2>1, <3>1 DEF Writings
    <3> QED BY <1>0, <2>1, <3>2 DEF WriteInv
  <2>4. StartWrite(t, Head(todo[t])) /\ UNCHANGED <<queued, peer, access, scenario, inByte>>
    BY <1>6 DEF Send
  <2> QED BY <2>1, <2>2, <2>3, <2>4, WriteBegins
<1>7. CASE Thru
  <2>1. CASE Head(forward) = "own"
    <3>1. /\ received \in Seq(WholePackets) /\ received # <<>>
          /\ writing[Reader].step = "none" /\ access[Reader].step = "none"
      BY <1>0, <1>7 DEF Thru, BaseInv, WriteInv
    <3>2. Last(received) \in WholePackets
      BY <3>1, FrontAndLast
    <3>3. StartWrite(Reader, Last(received)) /\ UNCHANGED <<queued, peer, access, scenario, inByte>>
      BY <1>7, <2>1 DEF Thru
    <3> QED BY <1>0, <3>1, <3>2, <3>3, WriteBegins
  <2>2. CASE Head(forward) # "own"
    BY <1>1, <1>7, <2>2 DEF Thru
  <2> QED BY <2>1, <2>2
<1>8. CASE SerialRead
  <2>1. UNCHANGED <<writing, written, disturbed, queued, peer, txBuffer, inByte>>
    BY <1>8 DEF SerialRead, UartRead
  <2>2. \A u \in Threads : access'[u].step # "enable" /\ access[u].step # "enable"
    BY <1>0, <1>8 DEF SerialRead, UartRead, To
  <2> QED BY <1>1, <2>1, <2>2
<1>9. CASE SerialParse
  <2>1. UNCHANGED <<writing, written, disturbed, queued, peer, txBuffer, inByte>>
    BY <1>9 DEF SerialParse, Advance
  <2>2. /\ access[Reader].step = "advance" /\ access'[Reader].step # "enable"
        /\ \A u \in Threads : u # Reader => access'[u] = access[u]
    BY <1>0, <1>9 DEF SerialParse, Advance, NoAccess
  <2> QED BY <1>1, <2>1, <2>2
<1>10. CASE BleFetch \/ BleParse \/ Deinit
  BY <1>1, <1>10 DEF BleFetch, BleParse, Deinit
<1>11. CASE CloseTransport
  BY <1>1, <1>11 DEF CloseTransport, UartClose
<1>12. CASE Reopen
  BY <1>1, <1>12 DEF Reopen, UartOpen
<1>13. ASSUME NEW s \in scenario.sinks, Register(s) \/ Unregister(s) PROVE CarryInv'
  BY <1>1, <1>13 DEF Register, Unregister
<1>14. CASE ReadNothing \/ UNCHANGED vars
  BY <1>1, <1>14 DEF ReadNothing, vars
<1> QED BY <1>2, <1>3, <1>4, <1>5, <1>6, <1>7, <1>8, <1>9, <1>10, <1>11, <1>12, <1>13, <1>14
        DEF Next

\* The first part of a sequence of packets is a prefix of it.
LEMMA PartIsPrefix ==
  ASSUME NEW x \in Seq(WholePackets), NEW y \in Seq(WholePackets), NEW w, w = x \o y
  PROVE  IsPrefix(x, w)
<1>1. /\ Len(x) \in Nat /\ Len(y) \in Nat /\ Len(w) = Len(x) + Len(y)
      /\ \A i \in 1 .. Len(x) + Len(y) :
           w[i] = IF i <= Len(x) THEN x[i] ELSE y[i - Len(x)]
  BY LenProperties, ConcatProperties
<1>2. Len(x) <= Len(w) /\ \A i \in 1 .. Len(x) : w[i] = x[i] /\ i \in 1 .. Len(w)
  BY <1>1
<1>3. SubSeq(x, 1, Len(x)) = x
  BY SubSeqFull
<1>4. SubSeq(w, 1, Len(x)) = x
  <2> DEFINE n == Len(x)
             z == SubSeq(w, 1, n)
  <2>1. \A i \in 1 .. n : w[i] \in WholePackets
    BY <1>2, ElementOfSeq
  <2>2. /\ z \in Seq(WholePackets) /\ Len(z) = (IF 1 <= n THEN n - 1 + 1 ELSE 0)
        /\ \A i \in 1 .. n - 1 + 1 : z[i] = w[1 + i - 1]
    BY <1>1, <2>1, SubSeqProperties
  <2> HIDE DEF n, z
  <2>3. /\ n \in Nat /\ n - 1 + 1 = n /\ (1 <= n \/ n = 0)
        /\ \A i \in 1 .. n : 1 + i - 1 = i
    BY <1>1 DEF n
  <2>4. Len(z) = n /\ \A i \in 1 .. n : z[i] = w[i]
    BY <2>2, <2>3
  <2>5. Len(z) = Len(x) /\ \A i \in 1 .. Len(z) : z[i] = x[i]
    BY <1>2, <2>4 DEF n
  <2>6. z = x
    BY <2>2, <2>5, SeqEqual
  <2> QED BY <2>6 DEF n, z
<1> QED BY <1>2, <1>3, <1>4 DEF IsPrefix

\* What has arrived is the beginning of what was written.
LEMMA ArrivedIsPrefix ==
  ASSUME NEW q, GoodParser(q.parser), q.packets \in Seq(WholePackets),
         NEW s \in Seq(Bytes), NEW w \in Seq(WholePackets), Arrives(q, s, w)
  PROVE  IsPrefix(q.packets, w)
<1> DEFINE x == q.packets
           out == ParsedAll(q.parser, s).out
<1>1. x \in Seq(WholePackets) /\ out \in Seq(WholePackets) /\ Got(q, s) = x \o out
  BY ParsedIsGood DEF Got
<1> HIDE DEF x, out
<1>2. ASSUME NEW y \in Seq(WholePackets), w = x \o y PROVE IsPrefix(x, w)
  BY <1>1, <1>2, PartIsPrefix
<1>3. CASE ~OpenIn(w)
  <2>1. w = x \o out
    BY <1>1, <1>3 DEF Arrives, Settled
  <2> QED BY <1>1, <1>2, <2>1 DEF x
<1>4. CASE OpenIn(w)
  <2> DEFINE f == Front(w)
             l == Last(w)
  <2>1. f = x \o out
    BY <1>1, <1>4 DEF Arrives, Settled
  <2>2. f \in Seq(WholePackets) /\ l \in WholePackets /\ w = Append(f, l)
    BY <1>4, FrontAndLast DEF OpenIn
  <2> HIDE DEF f, l
  <2>3. w = f \o <<l>> /\ <<l>> \in Seq(WholePackets)
    BY <2>2, AppendIsConcat
  <2>4. (x \o out) \o <<l>> = x \o (out \o <<l>>)
    BY <1>1, <2>3, PacketsRegrouped
  <2>5. w = x \o (out \o <<l>>)
    BY <2>1, <2>3, <2>4
  <2>6. out \o <<l>> \in Seq(WholePackets)
    BY <1>1, <2>3, ConcatProperties
  <2> QED BY <1>2, <2>5, <2>6 DEF x
<1> QED BY <1>3, <1>4

\* Nothing is on its way at first.
LEMMA InitCarries == Init => Carrying
<1> SUFFICES ASSUME Init PROVE Carrying
  OBVIOUS
<1>1. Typed
  BY InitIsTyped
<1>2. /\ queued = <<>> /\ ~clobbered /\ ~txIrq /\ tx = EmptyRing(TxCapacity)
      /\ access = [t \in Threads |-> NoAccess] /\ NoAccess.step = "none"
      /\ ~disturbed /\ written = <<>> /\ writing = [t \in Threads |-> NotWriting]
      /\ NotWriting.step = "none"
      /\ peer.parser = ResetParser /\ peer.packets = <<>>
  BY DEF Init, UartInit, NoAccess, NotWriting
<1>3. QueueInv
  <2>1. Content(tx, TxCapacity) = <<>>
    BY <1>2, Given, RingsKept
  <2> QED BY <1>2, <2>1 DEF QueueInv
<1>4. TxInv
  BY <1>2 DEF TxInv
<1>5. CarryInv
  <2>1. Got(peer, <<>>) = <<>>
    <3>1. ParsedAll(peer.parser, <<>>).out = <<>>
      BY ParsedSteps, ParsedFields
    <3>2. \A x : x = <<>> => x \o x = <<>>
      BY EmptySeq, ConcatEmptySeq
    <3> QED BY <1>2, <3>1, <3>2 DEF Got
  <2>2. ~OpenIn(<<>>)
    BY DEF OpenIn
  <2>3. AtRest
    BY <1>2, <2>1, <2>2 DEF AtRest, Arrives, Settled
  <2> QED BY <1>2, <2>3 DEF CarryInv
<1> QED BY <1>1, <1>3, <1>4, <1>5 DEF Carrying

\* Every step keeps what is on its way.
LEMMA CarryingKept ==
  ASSUME Carrying, [Next]_vars
  PROVE  Carrying'
<1>1. Typed'
  BY TypedKept DEF Carrying
<1>2. QueueInv'
  <2>1. UartInv /\ scenario \in Scenarios /\ QueueInv /\ UartStep
    BY NextIsUartStep DEF Carrying, Typed, BaseInv
  <2> QED BY <2>1, QueueKept
<1> QED BY <1>1, <1>2, TxKept, CarryKept DEF Carrying

\* What the peer reads is what was written, in order, each packet once and
\* whole, unless the stream was disturbed (write() of midi.cpp and its two
\* transports, write() and isr() of uart_hw.cpp over ring_buffer.h, parse() of
\* midi_common.h on the other side): a packet that is cut off by a full ring, a
\* failing Hwa or deinit() takes none of its neighbours with it.
THEOREM PacketsArrive == Spec => []WireCarriesPackets
<1>1. Carrying /\ [Next]_vars => Carrying'
  BY CarryingKept
<1>2. Carrying => WireCarriesPackets
  <2> SUFFICES ASSUME Carrying, ~disturbed
               PROVE  /\ IsPrefix(peer.packets, written)
                      /\ WireIsQuiet => peer.packets = written
    BY DEF WireCarriesPackets
  <2>0. /\ Typed /\ CarryInv /\ QueueInv /\ TxInv
        /\ GoodParser(peer.parser) /\ peer.packets \in Seq(WholePackets)
        /\ queued \in Seq(Bytes) /\ written \in Seq(WholePackets)
        /\ tx \in Rings(TxCapacity) /\ TxCapacity \in Nat \ {0}
        /\ writing \in [Threads -> Writings]
    BY Given DEF Carrying, Typed, UartInv, WireInv, WriteInv
  <2>1. CASE \A t \in Threads : writing[t].step = "none"
    <3>1. Arrives(peer, queued, written)
      BY <2>0, <2>1 DEF CarryInv, AtRest
    <3>2. IsPrefix(peer.packets, written)
      BY <2>0, <3>1, ArrivedIsPrefix
    <3>3. ASSUME WireIsQuiet PROVE peer.packets = written
      <4>1. queued = <<>>
        BY <2>0, <3>3, ContentIs DEF WireIsQuiet, QueueInv, TxInv
      <4>2. ~OpenIn(written)
        BY <3>3 DEF WireIsQuiet, OpenSysEx, OpenIn
      <4>3. Got(peer, <<>>) = written
        BY <3>1, <4>1, <4>2 DEF Arrives, Settled
      <4>4. ParsedAll(peer.parser, <<>>).out = <<>>
        BY ParsedSteps, ParsedFields
      <4>5. peer.packets \o <<>> = peer.packets
        BY <2>0, ConcatEmptySeq
      <4> QED BY <4>3, <4>4, <4>5 DEF Got
    <3> QED BY <3>2, <3>3
  <2>2. ASSUME NEW t \in Threads, writing[t].step # "none"
        PROVE  /\ IsPrefix(peer.packets, written)
               /\ WireIsQuiet => peer.packets = written
    <3>1. writing[t].step = "bytes"
      BY <2>0, <2>2 DEF Writings
    <3>2. Arrives(peer, queued \o Rest(t), written)
      BY <2>0, <3>1 DEF CarryInv, Underway, Carried
    <3>3. queued \o Rest(t) \in Seq(Bytes)
      <4>1. Rest(t) \in Seq(Bytes)
        BY <2>0, <3>1, RestIs
      <4> QED BY <2>0, <4>1, ConcatProperties
    <3>4. IsPrefix(peer.packets, written)
      BY <2>0, <3>2, <3>3, ArrivedIsPrefix
    <3> QED BY <2>2, <3>4 DEF WireIsQuiet
  <2> QED BY <2>1, <2>2
<1> QED BY InitCarries, <1>1, <1>2, PTL DEF Spec

-----------------------------------------------------------------------------
(* No byte accepted is forgotten.                                            *)

\* A byte that waits has the transmit interrupt on, or a thread about to turn it
\* on; or the hardware has failed or the driver was shut down behind it.
Awaited ==
  ~clobbered /\ queued # <<>> =>
    txIrq \/ stalled \/ \E t \in Threads : access[t].step = "enable"

\* The driver keeps it so: the interrupt turns itself off over an empty ring only.
LEMMA AwaitedKept ==
  ASSUME UartInv, UartStep, QueueInv, Awaited
  PROVE  Awaited'
<1>0. /\ TxCapacity \in Nat \ {0} /\ Nobody \notin Threads /\ tx \in Rings(TxCapacity)
      /\ access \in [Threads -> [step : {"none", "put", "publish", "enable", "advance"},
                                 byte : Bytes, slot : Nat]]
      /\ \A t \in Threads : access[t].step # "none" => mutex = t
  BY Given DEF UartInv
<1>1. ASSUME NEW t \in Threads, NEW b \in Bytes, UartWrite(t, b) PROVE Awaited'
  BY <1>0, <1>1 DEF UartWrite, history, Awaited
<1>2. ASSUME NEW t \in Threads, Put(t) PROVE Awaited'
  <2>1. \A u \in Threads : access[u].step = "enable" => access'[u] = access[u]
    BY <1>0, <1>2 DEF Put
  <2> QED BY <1>2, <2>1 DEF Put, history, Awaited
<1>3. ASSUME NEW t \in Threads, Publish(t) PROVE Awaited'
  <2>1. access'[t].step = "enable"
    BY <1>0, <1>3 DEF Publish
  <2> QED BY <2>1 DEF Awaited
<1>4. ASSUME NEW t \in Threads, Enable(t) PROVE Awaited'
  BY <1>4 DEF Enable, Awaited
<1>5. ASSUME NEW t \in Threads, UartRead(t) \/ Advance(t) PROVE Awaited'
  <2>1. \A u \in Threads : access[u].step # "enable"
    BY <1>0, <1>5 DEF UartRead, Advance
  <2> QED BY <1>5, <2>1 DEF UartRead, Advance, history, Awaited
<1>6. ASSUME NEW b \in Bytes, IsrReceive(b) PROVE Awaited'
  BY <1>6 DEF IsrReceive, Awaited
<1>7. CASE IsrSend
  <2>1. txIrq' = TRUE
    BY <1>7 DEF IsrSend, UartInv
  <2> QED BY <2>1 DEF Awaited
<1>8. CASE IsrIdle
  <2>1. ~clobbered => queued = <<>>
    BY <1>0, <1>8, ContentIs DEF IsrIdle, QueueInv
  <2> QED BY <1>8, <2>1 DEF IsrIdle, history, Awaited
<1>9. CASE IsrFails
  BY <1>9 DEF IsrFails, Awaited
<1>10. CASE UartOpen
  BY <1>10 DEF UartOpen, history, Awaited
<1>11. CASE UartClose
  BY <1>11 DEF UartClose, Awaited
<1>12. CASE UNCHANGED <<uartUp, loopback, mutex, rx, tx, txIrq, access, history>>
  BY <1>12 DEF history, Awaited
<1>13. CASE UNCHANGED uartVars
  BY <1>12, <1>13 DEF uartVars
<1> QED BY <1>1, <1>2, <1>3, <1>4, <1>5, <1>6, <1>7, <1>8, <1>9, <1>10, <1>11, <1>12, <1>13
        DEF UartStep

\* A byte that write() has put into the ring is not forgotten (write() and isr()
\* of uart_hw.cpp): the interrupt that turns itself off over an empty ring never
\* does so over a byte just inserted.  With the fairness of the interrupt this is
\* what makes accepted bytes leave.
THEOREM BytesAreAwaited == Spec => []Awaited
<1>1. Init => Awaited
  BY DEF Init, UartInit, Awaited
<1>2. Carrying /\ Awaited /\ [Next]_vars => Carrying' /\ Awaited'
  <2> SUFFICES ASSUME Carrying, Awaited, [Next]_vars PROVE Carrying' /\ Awaited'
    OBVIOUS
  <2>1. Carrying'
    BY CarryingKept
  <2>2. UartInv /\ QueueInv /\ UartStep
    BY NextIsUartStep DEF Carrying, Typed
  <2> QED BY <2>1, <2>2, AwaitedKept
<1> QED BY InitCarries, <1>1, <1>2, PTL DEF Spec

-----------------------------------------------------------------------------
(* What the peer sends is read.                                              *)

\* What a reader that nothing interrupts gets from the first units, one byte
\* of a serial line or one BLE packet after the other (read() of
\* transport_serial.cpp, read_midi_byte() of transport_ble.cpp).
Silence == [reader |-> IdleReader, out |-> <<>>]
HeardNext(s, before, n) ==
  LET unit == s.units[n]
      taken == TakeAll(before.reader, unit)
  IN IF s.link = "serial" THEN [reader |-> before.reader, out |-> before.out \o unit]
     ELSE IF unit = <<>> THEN [reader |-> Fetched(before.reader, unit), out |-> before.out]
     ELSE [reader |-> taken.reader, out |-> before.out \o taken.out]
Heard(s) ==
  LET upTo[n \in 0 .. Len(s.units)] ==
        IF n = 0 THEN Silence ELSE HeardNext(s, upTo[n - 1], n)
  IN upTo

\* The messages the parser finds in it.
MessagesIn(s) == ParsedAll(ResetParser, Heard(s)[Len(s.units)].out).out

\* The table of Heard's recursive function.
HeardUpTo(s, n, u) == u = [i \in 0 .. n |-> IF i = 0 THEN Silence ELSE HeardNext(s, u[i - 1], i)]

\* There is such a table.
LEMMA HeardExists ==
  ASSUME NEW s, NEW n \in Nat
  PROVE  \E u : HeardUpTo(s, n, u)
<1> DEFINE P == {m \in Nat : \E u : HeardUpTo(s, m, u)}
<1>1. 0 \in P
  <2> DEFINE u == [i \in 0 .. 0 |-> Silence]
  <2>1. HeardUpTo(s, 0, u)
    BY DEF HeardUpTo
  <2> QED BY <2>1
<1>2. ASSUME NEW m \in Nat, m \in P PROVE m + 1 \in P
  <2>1. PICK u : HeardUpTo(s, m, u)
    BY <1>2
  <2> DEFINE w == [i \in 0 .. m + 1 |-> IF i <= m THEN u[i] ELSE HeardNext(s, u[m], m + 1)]
  <2>2. ASSUME NEW i \in 0 .. m + 1
        PROVE  w[i] = IF i = 0 THEN Silence ELSE HeardNext(s, w[i - 1], i)
    <3>1. CASE i <= m
      <4>1. u[i] = IF i = 0 THEN Silence ELSE HeardNext(s, u[i - 1], i)
        <5>1. i \in 0 .. m
          BY <3>1
        <5> QED BY <2>1, <5>1 DEF HeardUpTo
      <4>2. w[i] = u[i] /\ (i # 0 => w[i - 1] = u[i - 1])
        BY <3>1
      <4> QED BY <4>1, <4>2
    <3>2. CASE i = m + 1
      <4>1. w[i] = HeardNext(s, u[m], m + 1) /\ w[i - 1] = u[m] /\ i # 0
        BY <3>2
      <4> QED BY <3>2, <4>1
    <3> QED BY <3>1, <3>2
  <2>3. HeardUpTo(s, m + 1, w)
    BY <2>2 DEF HeardUpTo
  <2> QED BY <2>3
<1> HIDE DEF P
<1>3. n \in P
  BY <1>1, <1>2, NumbersFrom0
<1> QED BY <1>3 DEF P

\* Unit after unit is heard.
LEMMA HeardSteps ==
  ASSUME NEW s, Len(s.units) \in Nat
  PROVE  /\ Heard(s)[0] = Silence
         /\ \A n \in 0 .. Len(s.units) - 1 :
              Heard(s)[n + 1] = HeardNext(s, Heard(s)[n], n + 1)
<1> DEFINE Body(t) == [i \in 0 .. Len(s.units) |->
                         IF i = 0 THEN Silence ELSE HeardNext(s, t[i - 1], i)]
           table == CHOOSE t : t = Body(t)
<1>1. PICK u : u = Body(u)
  <2>1. PICK u : HeardUpTo(s, Len(s.units), u)
    BY HeardExists
  <2> QED BY <2>1 DEF HeardUpTo
<1>2. table = Body(table)
  BY <1>1
<1>3. Heard(s) = table
  BY DEF Heard
<1> HIDE DEF table
<1>4. table[0] = Silence
  BY <1>2
<1>5. ASSUME NEW n \in 0 .. Len(s.units) - 1 PROVE table[n + 1] = HeardNext(s, table[n], n + 1)
  <2>1. n + 1 \in 0 .. Len(s.units) /\ n + 1 # 0 /\ (n + 1) - 1 = n
    OBVIOUS
  <2> QED BY <1>2, <2>1
<1> QED BY <1>3, <1>4, <1>5

\* What one more unit adds to what has been heard.
LEMMA HeardMore ==
  ASSUME NEW s \in Scenarios, NEW n \in 0 .. Len(s.units) - 1,
         Heard(s)[n].reader \in BleReaders, Heard(s)[n].out \in Seq(Bytes)
  PROVE  /\ Heard(s)[n + 1].reader \in BleReaders /\ Heard(s)[n + 1].out \in Seq(Bytes)
         /\ \E more \in Seq(Bytes) : Heard(s)[n + 1].out = Heard(s)[n].out \o more
<1> DEFINE before == Heard(s)[n]
           unit == s.units[n + 1]
<1>1. n + 1 \in 1 .. Len(s.units) /\ Len(s.units) \in Nat /\ s.link \in {"serial", "ble"}
  BY Given
<1>2. Heard(s)[n + 1] = HeardNext(s, before, n + 1)
  BY <1>1, HeardSteps
<1>3. before.reader \in BleReaders /\ before.out \in Seq(Bytes)
  OBVIOUS
<1> HIDE DEF before
<1>4. CASE s.link = "serial"
  <2>1. unit \in Seq(Bytes)
    <3>1. unit \in [1 .. 1 -> Bytes]
      BY <1>1, <1>4, Given
    <3>2. 1 \in Nat /\ unit[1] \in Bytes /\ unit = [i \in 1 .. 1 |-> unit[i]]
      BY <3>1
    <3> HIDE DEF unit
    <3> QED BY <3>1, <3>2, IsASeq
  <2>2. Heard(s)[n + 1] = [reader |-> before.reader, out |-> before.out \o unit]
    BY <1>2, <1>4 DEF HeardNext
  <2> HIDE DEF unit
  <2>3. before.out \o unit \in Seq(Bytes)
    BY <1>3, <2>1, ConcatProperties
  <2>4. Heard(s)[n + 1].reader = before.reader /\ Heard(s)[n + 1].out = before.out \o unit
    BY <2>2
  <2>5. Heard(s)[n + 1].reader \in BleReaders /\ Heard(s)[n + 1].out \in Seq(Bytes)
    BY <1>3, <2>3, <2>4
  <2> QED BY <2>1, <2>4, <2>5 DEF before
<1>5. CASE s.link = "ble" /\ unit = <<>>
  <2>1. Heard(s)[n + 1] = [reader |-> Fetched(before.reader, unit), out |-> before.out]
    BY <1>2, <1>5 DEF HeardNext
  <2>2. unit \in BlePackets
    BY <1>1, <1>5, Given
  <2> HIDE DEF unit
  <2>3. Fetched(before.reader, unit) \in BleReaders
    BY <1>3, <2>2, FetchedIs
  <2>4. before.out \o <<>> = before.out /\ <<>> \in Seq(Bytes)
    BY <1>3, ConcatEmptySeq, EmptySeq
  <2>5. /\ Heard(s)[n + 1].reader = Fetched(before.reader, unit)
        /\ Heard(s)[n + 1].out = before.out
    BY <2>1
  <2>6. Heard(s)[n + 1].reader \in BleReaders /\ Heard(s)[n + 1].out \in Seq(Bytes)
    BY <1>3, <2>3, <2>5
  <2> QED BY <2>4, <2>5, <2>6 DEF before
<1>6. CASE s.link = "ble" /\ unit # <<>>
  <2> DEFINE taken == TakeAll(before.reader, unit)
  <2>1. Heard(s)[n + 1] = [reader |-> taken.reader, out |-> before.out \o taken.out]
    BY <1>2, <1>6 DEF HeardNext
  <2>2. unit \in BlePackets
    BY <1>1, <1>6, Given
  <2>3. unit # <<>>
    BY <1>6
  <2> HIDE DEF unit
  <2>4. taken.reader \in BleReaders /\ taken.out \in Seq(Bytes)
    BY <1>3, <2>2, <2>3, AllTaken
  <2> HIDE DEF taken
  <2>5. before.out \o taken.out \in Seq(Bytes)
    BY <1>3, <2>4, ConcatProperties
  <2>6. /\ Heard(s)[n + 1].reader = taken.reader
        /\ Heard(s)[n + 1].out = before.out \o taken.out
    <3> DEFINE out == before.out \o taken.out
    <3>1. Heard(s)[n + 1] = [reader |-> taken.reader, out |-> out]
      BY <2>1
    <3> HIDE DEF out
    <3>2. Heard(s)[n + 1].reader = taken.reader /\ Heard(s)[n + 1].out = out
      BY <3>1
    <3> QED BY <3>2 DEF out
  <2>7. Heard(s)[n + 1].reader \in BleReaders /\ Heard(s)[n + 1].out \in Seq(Bytes)
    BY <2>4, <2>5, <2>6
  <2> QED BY <2>4, <2>6, <2>7 DEF before
<1> QED BY <1>1, <1>4, <1>5, <1>6

\* What has been heard are bytes.
LEMMA HeardIs ==
  ASSUME NEW s \in Scenarios, NEW n \in 0 .. Len(s.units)
  PROVE  Heard(s)[n].reader \in BleReaders /\ Heard(s)[n].out \in Seq(Bytes)
<1> DEFINE Holds(i) == Heard(s)[i].reader \in BleReaders /\ Heard(s)[i].out \in Seq(Bytes)
           P == {i \in Nat : i <= Len(s.units) => Holds(i)}
<1>1. Len(s.units) \in Nat
  BY Given
<1>2. 0 \in P
  <2>1. Heard(s)[0] = Silence
    BY <1>1, HeardSteps
  <2>2. Silence.reader \in BleReaders /\ Silence.out \in Seq(Bytes)
    BY BleTypes, EmptySeq DEF Silence
  <2> QED BY <2>1, <2>2
<1>3. ASSUME NEW i \in Nat, i \in P PROVE i + 1 \in P
  <2> SUFFICES ASSUME i + 1 <= Len(s.units) PROVE Holds(i + 1)
    OBVIOUS
  <2>1. i \in 0 .. Len(s.units) - 1 /\ Holds(i)
    BY <1>1, <1>3
  <2> QED BY <2>1, HeardMore
<1> HIDE DEF P
<1>4. n \in P
  BY <1>1, <1>2, <1>3, NumbersFrom0
<1> QED BY <1>4 DEF P

\* What has been heard is the beginning of all there is to hear.
LEMMA HeardGrows ==
  ASSUME NEW s \in Scenarios, NEW n \in 0 .. Len(s.units)
  PROVE  \E rest \in Seq(Bytes) : Heard(s)[Len(s.units)].out = Heard(s)[n].out \o rest
<1> DEFINE last == Len(s.units)
           Holds(i) == \E rest \in Seq(Bytes) : Heard(s)[n + i].out = Heard(s)[n].out \o rest
           P == {i \in Nat : n + i <= last => Holds(i)}
<1>1. last \in Nat
  BY Given
<1>2. 0 \in P
  <2>1. Heard(s)[n].out \in Seq(Bytes) /\ n + 0 = n
    BY HeardIs
  <2>2. Heard(s)[n].out \o <<>> = Heard(s)[n].out /\ <<>> \in Seq(Bytes)
    BY <2>1, ConcatEmptySeq, EmptySeq
  <2> QED BY <2>1, <2>2
<1>3. ASSUME NEW i \in Nat, i \in P PROVE i + 1 \in P
  <2> HIDE DEF Holds, last
  <2> SUFFICES ASSUME n + (i + 1) <= last PROVE Holds(i + 1)
    OBVIOUS
  <2>1. n + i \in 0 .. last - 1 /\ n + i \in 0 .. last /\ (n + i) + 1 = n + (i + 1)
    BY <1>1
  <2>0. Holds(i)
    <3>1. n + i <= last
      BY <2>1
    <3> QED BY <1>3, <3>1
  <2>2. PICK rest \in Seq(Bytes) : Heard(s)[n + i].out = Heard(s)[n].out \o rest
    BY <2>0 DEF Holds
  <2>3. Heard(s)[n].out \in Seq(Bytes)
    BY HeardIs
  <2>4. Heard(s)[n + i].reader \in BleReaders /\ Heard(s)[n + i].out \in Seq(Bytes)
    BY <2>1, HeardIs DEF last
  <2>5. PICK more \in Seq(Bytes) : Heard(s)[(n + i) + 1].out = Heard(s)[n + i].out \o more
    BY <2>1, <2>4, HeardMore DEF last
  <2> DEFINE h == Heard(s)[n].out
  <2>6. h \in Seq(Bytes) /\ Heard(s)[n + (i + 1)].out = (h \o rest) \o more
    BY <2>1, <2>2, <2>3, <2>5
  <2> HIDE DEF h
  <2>7. (h \o rest) \o more = h \o (rest \o more) /\ rest \o more \in Seq(Bytes)
    BY <2>6, Regrouped
  <2> QED BY <2>6, <2>7 DEF h, Holds
<1> HIDE DEF P
<1>4. last - n \in P
  <2>1. last - n \in Nat
    BY <1>1
  <2> QED BY <1>2, <1>3, <2>1, NumbersFrom0
<1>5. n + (last - n) = last
  BY <1>1
<1>6. Holds(last - n)
  <2> HIDE DEF Holds
  <2> QED BY <1>1, <1>4, <1>5 DEF P
<1> QED BY <1>5, <1>6

\* The parser has got the bytes in h, and read() has returned their messages.
HasParsed(h) ==
  /\ _parser = ParsedAll(ResetParser, h).parser
  /\ received = ParsedAll(ResetParser, h).out

\* The bytes that have arrived are those parsed and those in the ring buffer.
SerialReading ==
  link = "serial" /\ ~overrun =>
    /\ arrived <= Len(scenario.units)
    /\ \E h \in Seq(Bytes) :
         HasParsed(h) /\ Heard(scenario)[arrived].out = h \o Content(rx, RxCapacity)

\* The thread inside the driver's read() holds the oldest byte.
RxHeld ==
  access[Reader].step = "advance" =>
    /\ ~is_empty(rx)
    /\ access[Reader].byte = peek(rx) /\ access[Reader].slot = NextSlot(rx, rx.tail)

\* The reader is in some round of the last packet.
InPacket(before, unit) ==
  \/ unit = <<>> /\ ble = Fetched(before.reader, unit) /\ HasParsed(before.out)
  \/ /\ unit # <<>>
     /\ \E u : \E k \in 1 .. Len(unit) :
          /\ Rounds(before.reader, unit, u)
          /\ ble = u[k].reader /\ HasParsed(before.out \o u[k].out)

\* The messages of all packets before it have been read, and of it as much as
\* the reader has gone through; a BLE interface closed and opened is not
\* followed.
BleReading ==
  link = "ble" /\ deinitsLeft = scenario.deinits =>
    /\ open = "up" /\ arrived <= Len(scenario.units)
    /\ arrived = 0 => ble = IdleReader /\ HasParsed(<<>>)
    /\ arrived > 0 => InPacket(Heard(scenario)[arrived - 1], scenario.units[arrived])

\* The inductive invariant of ReadsArrive.
ReadInv ==
  Typed /\ SerialReading /\ RxHeld /\ BleReading /\ deinitsLeft <= scenario.deinits

\* What is parsed next.
LEMMA ParsedOn ==
  ASSUME NEW h \in Seq(Bytes), HasParsed(h), NEW t \in Seq(Bytes), Deliver(ParsedAll(_parser, t))
  PROVE  HasParsed(h \o t)'
<1> DEFINE first == ParsedAll(ResetParser, h)
           second == ParsedAll(first.parser, t)
           all == ParsedAll(ResetParser, h \o t)
<1>1. all = Parsed(second.parser, first.out \o second.out)
  BY ResetIsGood, ParsedConcat
<1>2. _parser = first.parser /\ received = first.out
  BY DEF HasParsed
<1>3. _parser' = second.parser /\ received' = first.out \o second.out
  BY <1>2 DEF Deliver
<1> DEFINE out == first.out \o second.out
<1> HIDE DEF first, second, all
<1>4. all = Parsed(second.parser, out)
  BY <1>1
<1> HIDE DEF out
<1>5. all.parser = second.parser /\ all.out = out
  BY <1>4, ParsedFields
<1>6. _parser' = all.parser /\ received' = all.out
  BY <1>3, <1>5 DEF out
<1> QED BY <1>6 DEF all, HasParsed

\* The same for a single byte.
LEMMA ByteParsed ==
  ASSUME NEW h \in Seq(Bytes), HasParsed(h), NEW b \in Bytes, Deliver(parse(_parser, b))
  PROVE  HasParsed(Append(h, b))'
<1> DEFINE all == ParsedAll(ResetParser, Append(h, b))
           next == parse(_parser, b)
           out == received \o next.out
<1>1. all = ParsedNext(ParsedAll(ResetParser, h), b)
  BY ByteSteps
<1>2. all = Parsed(next.parser, out)
  BY <1>1 DEF ParsedNext, HasParsed
<1>3. _parser' = next.parser /\ received' = out
  BY DEF Deliver
<1> HIDE DEF next, out, all
<1>4. all.parser = next.parser /\ all.out = out
  BY <1>2, ParsedFields
<1>5. _parser' = all.parser /\ received' = all.out
  BY <1>3, <1>4
<1> QED BY <1>5 DEF all, HasParsed

\* Steps that read nothing.
LEMMA NothingRead ==
  ASSUME ReadInv, scenario' = scenario, UNCHANGED <<readVars, rx, overrun, deinitsLeft, open>>,
         access'[Reader].step = "advance" => access'[Reader] = access[Reader]
  PROVE  SerialReading' /\ RxHeld' /\ BleReading'
<1>1. /\ _parser' = _parser /\ ble' = ble /\ arrived' = arrived /\ received' = received
      /\ rx' = rx /\ overrun' = overrun /\ deinitsLeft' = deinitsLeft /\ open' = open
  BY DEF readVars
<1>2. SerialReading'
  BY <1>1 DEF ReadInv, SerialReading, HasParsed, link
<1>3. RxHeld'
  BY <1>1 DEF ReadInv, RxHeld
<1>4. BleReading'
  BY <1>1 DEF ReadInv, BleReading, InPacket, HasParsed, link
<1> QED BY <1>2, <1>3, <1>4

\* Nothing has arrived at first.
LEMMA InitReads == Init => ReadInv
<1> SUFFICES ASSUME Init PROVE ReadInv
  OBVIOUS
<1>1. /\ scenario \in Scenarios /\ arrived = 0 /\ _parser = ResetParser /\ received = <<>>
      /\ ble = IdleReader /\ open = "up" /\ deinitsLeft = scenario.deinits
      /\ rx = EmptyRing(RxCapacity) /\ access = [t \in Threads |-> NoAccess]
  BY DEF Init, UartInit
<1>2. Len(scenario.units) \in Nat /\ Reader \in Threads /\ scenario.deinits \in Nat
      /\ RxCapacity \in Nat \ {0}
  BY <1>1, Given
<1>3. HasParsed(<<>>)
  <2>1. ParsedAll(ResetParser, <<>>) = Parsed(ResetParser, <<>>)
    BY ParsedSteps
  <2>2. /\ ParsedAll(ResetParser, <<>>).parser = ResetParser
        /\ ParsedAll(ResetParser, <<>>).out = <<>>
    BY <2>1, ParsedFields
  <2> QED BY <1>1, <2>2 DEF HasParsed
<1>4. Heard(scenario)[0].out = <<>> \o Content(rx, RxCapacity) /\ <<>> \in Seq(Bytes)
  <2>1. Content(rx, RxCapacity) = <<>>
    BY <1>1, <1>2, RingsKept
  <2>2. <<>> \in Seq(Bytes) /\ <<>> \o <<>> = <<>>
    BY EmptySeq, ConcatEmptySeq
  <2>3. Heard(scenario)[0] = Silence
    BY <1>2, HeardSteps
  <2> QED BY <2>1, <2>2, <2>3 DEF Silence
<1>5. SerialReading
  <2>1. arrived <= Len(scenario.units)
    BY <1>1, <1>2
  <2>2. Heard(scenario)[arrived].out = <<>> \o Content(rx, RxCapacity)
    BY <1>1, <1>4
  <2>3. \E h \in Seq(Bytes) :
          HasParsed(h) /\ Heard(scenario)[arrived].out = h \o Content(rx, RxCapacity)
    BY <1>3, <1>4, <2>2
  <2> QED BY <2>1, <2>3 DEF SerialReading
<1>6. RxHeld
  BY <1>1, <1>2 DEF RxHeld, NoAccess
<1>7. BleReading
  BY <1>1, <1>2, <1>3 DEF BleReading
<1> QED BY <1>1, <1>2, <1>5, <1>6, <1>7, InitIsTyped DEF ReadInv

\* The interrupt puts a byte into the receive ring.
LEMMA ArrivalRead ==
  ASSUME ReadInv, Receive
  PROVE  SerialReading' /\ RxHeld' /\ BleReading'
<1> DEFINE unit == scenario.units[arrived + 1]
           b == Head(unit)
           c == Content(rx, RxCapacity)
<1>1. /\ link = "serial" /\ scenario' = scenario /\ arrived < Len(scenario.units)
      /\ arrived' = arrived + 1 /\ UNCHANGED <<_parser, ble, received>>
      /\ rx' = insert(rx, b) /\ overrun' = (overrun \/ NoRoom(rx)) /\ access' = access
  BY DEF Receive, IsrReceive
<1>2. /\ scenario \in Scenarios /\ rx \in Rings(RxCapacity) /\ RxCapacity \in Nat \ {0}
      /\ arrived \in Nat /\ Len(scenario.units) \in Nat /\ scenario.link = "serial"
  BY <1>1, Given DEF ReadInv, Typed, UartInv, BaseInv, link
<1>3. b \in Bytes /\ unit = <<b>>
  <2>1. arrived + 1 \in 1 .. Len(scenario.units)
    BY <1>1, <1>2
  <2>2. unit \in [1 .. 1 -> Bytes]
    BY <1>2, <2>1, Given
  <2> QED BY <2>2
<1> HIDE DEF b
<1>4. ASSUME ~NoRoom(rx)
      PROVE  /\ Content(rx', RxCapacity) = Append(c, b)
             /\ rx' \in Rings(RxCapacity) /\ rx'.tail = rx.tail
  <2>1. /\ insert(rx, b) \in Rings(RxCapacity) /\ insert(rx, b).tail = rx.tail
        /\ Content(insert(rx, b), RxCapacity) = Append(Content(rx, RxCapacity), b)
    BY <1>2, <1>3, <1>4, InsertAppends
  <2> QED BY <1>1, <2>1
<1>5. SerialReading'
  <2> SUFFICES ASSUME ~overrun'
               PROVE  /\ arrived' <= Len(scenario.units)
                      /\ \E h \in Seq(Bytes) :
                           /\ HasParsed(h)'
                           /\ Heard(scenario)[arrived'].out = h \o Content(rx', RxCapacity)
    BY <1>1 DEF SerialReading, link
  <2>1. ~overrun /\ ~NoRoom(rx)
    BY <1>1
  <2>2. PICK h \in Seq(Bytes) : HasParsed(h) /\ Heard(scenario)[arrived].out = h \o c
    BY <1>1, <2>1 DEF ReadInv, SerialReading
  <2>3. HasParsed(h)'
    BY <1>1, <2>2 DEF HasParsed
  <2>4. Heard(scenario)[arrived + 1].out = Heard(scenario)[arrived].out \o unit
    <3>1. arrived \in 0 .. Len(scenario.units) - 1
      BY <1>1, <1>2
    <3>2. Heard(scenario)[arrived + 1] = HeardNext(scenario, Heard(scenario)[arrived], arrived + 1)
      BY <1>2, <3>1, HeardSteps
    <3> DEFINE out == Heard(scenario)[arrived].out \o unit
    <3>3. Heard(scenario)[arrived + 1] = [reader |-> Heard(scenario)[arrived].reader, out |-> out]
      BY <1>2, <3>2 DEF HeardNext
    <3> HIDE DEF out
    <3>4. Heard(scenario)[arrived + 1].out = out
      BY <3>3
    <3> QED BY <3>4 DEF out
  <2>5. c \in Seq(Bytes)
    BY <1>2, ContentIs
  <2> HIDE DEF c, unit
  <2>6. (h \o c) \o <<b>> = h \o (c \o <<b>>) /\ Append(c, b) = c \o <<b>>
    <3>1. <<b>> \in Seq(Bytes)
      BY <1>3
    <3> QED BY <1>3, <2>5, <3>1, Regrouped, AppendIsConcat
  <2>7. Content(rx', RxCapacity) = Append(c, b)
    BY <1>4, <2>1
  <2>8. Heard(scenario)[arrived'].out = h \o Content(rx', RxCapacity)
    BY <1>1, <1>3, <2>2, <2>4, <2>6, <2>7
  <2>9. arrived' <= Len(scenario.units)
    BY <1>1, <1>2
  <2> QED BY <2>3, <2>8, <2>9
<1>6. RxHeld'
  <2> SUFFICES ASSUME access[Reader].step = "advance"
               PROVE  /\ ~is_empty(rx')
                      /\ access[Reader].byte = peek(rx')
                      /\ access[Reader].slot = NextSlot(rx', rx'.tail)
    BY <1>1 DEF RxHeld
  <2>1. /\ ~is_empty(rx) /\ access[Reader].byte = peek(rx)
        /\ access[Reader].slot = NextSlot(rx, rx.tail)
    BY DEF ReadInv, RxHeld
  <2>2. CASE NoRoom(rx)
    BY <1>1, <2>1, <2>2 DEF insert
  <2>3. CASE ~NoRoom(rx)
    <3>1. /\ c \in Seq(Bytes) /\ c # <<>> /\ Head(c) = peek(rx)
      BY <1>2, <2>1, ContentIs, RemoveTakesFirst
    <3>2. Content(rx', RxCapacity) = Append(c, b) /\ rx' \in Rings(RxCapacity) /\ rx'.tail = rx.tail
      BY <1>4, <2>3
    <3> HIDE DEF c
    <3>3. Append(c, b) # <<>> /\ Head(Append(c, b)) = Head(c)
      BY <1>3, <3>1
    <3>4. ~is_empty(rx')
      BY <1>2, <3>2, <3>3, ContentIs
    <3>5. peek(rx') = Head(Append(c, b))
      BY <1>2, <3>2, <3>4, RemoveTakesFirst
    <3>6. NextSlot(rx', rx'.tail) = NextSlot(rx, rx.tail)
      <4>1. rx.tail \in 0 .. RxCapacity
        BY <1>2 DEF Rings
      <4> QED BY <1>2, <3>2, <4>1, SlotsGoRound
    <3> QED BY <2>1, <3>1, <3>3, <3>4, <3>5, <3>6
  <2> QED BY <2>2, <2>3
<1>7. BleReading'
  BY <1>1 DEF BleReading, link
<1> QED BY <1>5, <1>6, <1>7

\* read() takes the oldest byte and parses it.
LEMMA SerialParsed ==
  ASSUME ReadInv, SerialParse
  PROVE  SerialReading' /\ RxHeld' /\ BleReading'
<1> DEFINE c == Content(rx, RxCapacity)
<1>8. access[Reader].step = "advance" /\ access[Reader].byte \in Bytes
  BY Given DEF SerialParse, Advance, ReadInv, Typed, UartInv
<1>9. PICK b \in Bytes : b = access[Reader].byte
  BY <1>8
<1>1. /\ access[Reader].step = "advance" /\ rx' = [rx EXCEPT !.tail = access[Reader].slot]
      /\ access' = [access EXCEPT ![Reader] = NoAccess] /\ overrun' = overrun
      /\ scenario' = scenario /\ arrived' = arrived /\ Deliver(parse(_parser, b))
  BY <1>9 DEF SerialParse, Advance, history
<1>2. /\ scenario \in Scenarios /\ rx \in Rings(RxCapacity) /\ RxCapacity \in Nat \ {0}
      /\ link = "serial" /\ Reader \in Threads
  BY <1>1, Given DEF ReadInv, Typed, UartInv, BaseInv, WriteInv
<1>3. ~is_empty(rx) /\ b = peek(rx) /\ rx' = remove(rx)
  BY <1>1, <1>9 DEF ReadInv, RxHeld, remove
<1>4. /\ c \in Seq(Bytes) /\ c # <<>> /\ Head(c) = b /\ Content(rx', RxCapacity) = Tail(c)
  BY <1>2, <1>3, ContentIs, RemoveTakesFirst
<1>5. SerialReading'
  <2> SUFFICES ASSUME ~overrun
               PROVE  /\ arrived <= Len(scenario.units)
                      /\ \E h \in Seq(Bytes) :
                           /\ HasParsed(h)'
                           /\ Heard(scenario)[arrived].out = h \o Content(rx', RxCapacity)
    BY <1>1 DEF SerialReading, link
  <2>1. arrived <= Len(scenario.units)
    BY <1>2 DEF ReadInv, SerialReading
  <2>2. PICK h \in Seq(Bytes) : HasParsed(h) /\ Heard(scenario)[arrived].out = h \o c
    BY <1>2 DEF ReadInv, SerialReading
  <2>3. HasParsed(Append(h, b))'
    BY <1>1, <2>2, ByteParsed
  <2> HIDE DEF c
  <2>4. h \o c = Append(h, b) \o Tail(c) /\ Append(h, b) \in Seq(Bytes)
    <3> DEFINE rest == Tail(c)
    <3>1. c = <<b>> \o rest /\ rest \in Seq(Bytes) /\ <<b>> \in Seq(Bytes)
      BY <1>2, <1>4
    <3> HIDE DEF rest
    <3>2. Append(h, b) = h \o <<b>> /\ Append(h, b) \in Seq(Bytes)
      BY <1>2, AppendIsConcat, AppendProperties
    <3>3. (h \o <<b>>) \o rest = h \o (<<b>> \o rest)
      BY <3>1, Regrouped
    <3> QED BY <3>1, <3>2, <3>3 DEF rest
  <2>5. Heard(scenario)[arrived].out = Append(h, b) \o Content(rx', RxCapacity)
    BY <1>4, <2>2, <2>4
  <2>6. Append(h, b) \in Seq(Bytes)
    BY <2>4
  <2> HIDE DEF HasParsed
  <2> QED BY <2>1, <2>3, <2>5, <2>6
<1>6. RxHeld'
  <2>1. access'[Reader].step = "none"
    BY <1>1, <1>2 DEF NoAccess, ReadInv, Typed, UartInv
  <2> QED BY <2>1 DEF RxHeld
<1>7. BleReading'
  BY <1>1, <1>2 DEF BleReading, link
<1> QED BY <1>5, <1>6, <1>7

\* A reader that has done with its packet is where one that nothing interrupts
\* is.
LEMMA PacketRead ==
  ASSUME ReadInv, link = "ble", deinitsLeft = scenario.deinits, ble.active => Spent(ble)
  PROVE  /\ arrived \in 0 .. Len(scenario.units)
         /\ ble = Heard(scenario)[arrived].reader /\ HasParsed(Heard(scenario)[arrived].out)
<1>1. /\ scenario \in Scenarios /\ scenario.link = "ble" /\ arrived \in Nat
      /\ Len(scenario.units) \in Nat
      /\ arrived <= Len(scenario.units) /\ ble \in BleReaders
  BY Given DEF ReadInv, Typed, BaseInv, BleReading, link
<1>2. CASE arrived = 0
  <2>1. Heard(scenario)[0] = Silence
    BY <1>1, HeardSteps
  <2>2. ble = IdleReader /\ HasParsed(<<>>)
    BY <1>2 DEF ReadInv, BleReading
  <2> QED BY <1>1, <1>2, <2>1, <2>2 DEF Silence
<1>3. CASE arrived > 0
  <2> DEFINE n == arrived - 1
             before == Heard(scenario)[n]
             now == Heard(scenario)[arrived]
             unit == scenario.units[arrived]
             taken == TakeAll(before.reader, unit)
             out == before.out \o taken.out
  <2>1. n \in 0 .. Len(scenario.units) - 1 /\ n + 1 = arrived /\ arrived \in 1 .. Len(scenario.units)
    BY <1>1, <1>3
  <2>2. now = HeardNext(scenario, before, arrived)
    BY <1>1, <2>1, HeardSteps
  <2>3. before.reader \in BleReaders /\ before.out \in Seq(Bytes)
    <3>1. n \in 0 .. Len(scenario.units)
      BY <2>1
    <3> QED BY <1>1, <3>1, HeardIs
  <2>4. unit \in BlePackets
    BY <1>1, <2>1, Given
  <2>5. InPacket(before, unit)
    BY <1>3 DEF ReadInv, BleReading
  <2>6. CASE unit = <<>>
    <3>1. now = [reader |-> Fetched(before.reader, unit), out |-> before.out]
      BY <1>1, <2>2, <2>6 DEF HeardNext
    <3>2. ble = Fetched(before.reader, unit) /\ HasParsed(before.out)
      BY <2>5, <2>6 DEF InPacket
    <3> HIDE DEF before, unit, now
    <3>3. now.reader = ble /\ now.out = before.out
      BY <3>1, <3>2
    <3>4. ble = now.reader /\ HasParsed(now.out)
      BY <3>2, <3>3
    <3> QED BY <1>1, <3>4 DEF now
  <2>7. CASE unit # <<>>
    <3>1. now = [reader |-> taken.reader, out |-> out]
      BY <1>1, <2>2, <2>7 DEF HeardNext
    <3>9. PICK u : \E k \in 1 .. Len(unit) :
            /\ Rounds(before.reader, unit, u)
            /\ ble = u[k].reader /\ HasParsed(before.out \o u[k].out)
      BY <2>5, <2>7 DEF InPacket
    <3>2. PICK k \in 1 .. Len(unit) :
            /\ Rounds(before.reader, unit, u)
            /\ ble = u[k].reader /\ HasParsed(before.out \o u[k].out)
      BY <3>9
    <3>3. unit \in Seq(Bytes) /\ Len(unit) \in Nat \ {0}
      BY <2>4, <2>7, BleTypes, EmptySeq
    <3>4. /\ ble.packet = unit /\ (ble.active => ble.index = k)
      BY <2>3, <2>4, <2>7, <3>2, RoundsKeep
    <3> HIDE DEF before, unit, now
    <3>5. u[k] = TakeAll(before.reader, unit)
      <4>1. CASE ble.active
        <5>1. k = Len(unit)
          BY <3>3, <3>4, <4>1 DEF Spent
        <5> QED BY <3>2, <5>1 DEF Rounds
      <4>2. CASE ~ble.active
        BY <3>2, <3>3, <4>2, IdleRounds
      <4> QED BY <4>1, <4>2
    <3> HIDE DEF taken, out
    <3>6. now.reader = taken.reader /\ now.out = out
      BY <3>1
    <3>7. ble = taken.reader /\ HasParsed(out)
      BY <3>2, <3>5 DEF taken, out
    <3>8. ble = now.reader /\ HasParsed(now.out)
      BY <3>6, <3>7
    <3> QED BY <1>1, <3>8 DEF now
  <2> QED BY <2>6, <2>7
<1> QED BY <1>1, <1>2, <1>3

\* read_midi_byte() begins the next packet.
LEMMA PacketFetched ==
  ASSUME ReadInv, BleFetch
  PROVE  SerialReading' /\ RxHeld' /\ BleReading'
<1>1. /\ link = "ble" /\ scenario' = scenario /\ arrived < Len(scenario.units)
      /\ ble' = Fetched(ble, scenario.units[arrived + 1]) /\ arrived' = arrived + 1
      /\ _parser' = _parser /\ received' = received /\ deinitsLeft' = deinitsLeft /\ open' = open
      /\ rx' = rx /\ access' = access /\ (ble.active => Spent(ble))
  BY DEF BleFetch, baseVars, uartVars
<1>2. SerialReading'
  BY <1>1 DEF SerialReading, link
<1>3. RxHeld'
  BY <1>1 DEF ReadInv, RxHeld
<1>4. BleReading'
  <2> SUFFICES ASSUME deinitsLeft = scenario.deinits PROVE BleReading'
    BY <1>1 DEF BleReading
  <2> DEFINE before == Heard(scenario)[arrived]
  <2>1. /\ arrived \in 0 .. Len(scenario.units)
        /\ ble = before.reader /\ HasParsed(before.out)
    BY <1>1, PacketRead
  <2>2. /\ scenario \in Scenarios /\ open = "up" /\ Len(scenario.units) \in Nat
        /\ scenario.link = "ble" /\ arrived \in Nat
    BY <1>1, Given DEF ReadInv, Typed, BaseInv, BleReading, link
  <2>3. arrived + 1 \in 1 .. Len(scenario.units) /\ (arrived + 1) - 1 = arrived
    BY <1>1, <2>2
  <2>4. PICK unit : unit = scenario.units[arrived + 1]
    OBVIOUS
  <2>5. PICK b : b = before
    OBVIOUS
  <2>6. InPacket(b, unit)'
    <3>1. HasParsed(b.out)'
      BY <1>1, <2>1, <2>5 DEF HasParsed
    <3>2. ble' = Fetched(b.reader, unit)
      BY <1>1, <2>1, <2>4, <2>5
    <3>3. CASE unit = <<>>
      BY <3>1, <3>2, <3>3 DEF InPacket
    <3>4. CASE unit # <<>>
      <4>1. unit \in BlePackets
        BY <2>2, <2>3, <2>4, Given
      <4>2. Len(unit) \in Nat \ {0} /\ 1 \in 1 .. Len(unit)
        BY <3>4, <4>1, BleTypes, EmptySeq
      <4>3. PICK u : Rounds(b.reader, unit, u)
        BY <4>2, TakenByRounds DEF Rounds
      <4>4. u[1].reader = Fetched(b.reader, unit) /\ u[1].out = <<>>
        BY <4>3 DEF Rounds
      <4>5. b.out \in Seq(Bytes)
        BY <2>1, <2>2, <2>5, HeardIs
      <4>6. b.out \o u[1].out = b.out
        BY <4>4, <4>5, ConcatEmptySeq
      <4>7. ble' = u[1].reader /\ HasParsed(b.out \o u[1].out)'
        BY <3>1, <3>2, <4>4, <4>6
      <4> QED BY <3>4, <4>2, <4>3, <4>7 DEF InPacket
    <3> QED BY <3>3, <3>4
  <2>7. InPacket(Heard(scenario)[arrived - 1], scenario.units[arrived])'
    <3>1. Heard(scenario')[arrived' - 1] = b /\ scenario'.units[arrived'] = unit
      BY <1>1, <2>3, <2>4, <2>5
    <3> QED BY <2>6, <3>1 DEF InPacket, HasParsed
  <2>8. open' = "up" /\ arrived' <= Len(scenario'.units) /\ ~(arrived' = 0)
    BY <1>1, <2>2, <2>3
  <2> QED BY <2>7, <2>8 DEF BleReading
<1> QED BY <1>2, <1>3, <1>4

\* read_midi_byte() goes on in its packet.
LEMMA PacketGoesOn ==
  ASSUME ReadInv, BleParse
  PROVE  SerialReading' /\ RxHeld' /\ BleReading'
<1>1. PICK t : t = TakeByte(ble).out
  OBVIOUS
<1>2. /\ link = "ble" /\ scenario' = scenario /\ ble' = TakeByte(ble).reader
      /\ arrived' = arrived /\ deinitsLeft' = deinitsLeft /\ open' = open
      /\ rx' = rx /\ access' = access /\ ble.active /\ ~Spent(ble)
      /\ Deliver(ParsedAll(_parser, t))
  BY <1>1 DEF BleParse, uartVars
<1>3. SerialReading'
  BY <1>2 DEF SerialReading, link
<1>4. RxHeld'
  BY <1>2 DEF ReadInv, RxHeld
<1>5. BleReading'
  <2> SUFFICES ASSUME deinitsLeft = scenario.deinits PROVE BleReading'
    BY <1>2 DEF BleReading
  <2>1. /\ scenario \in Scenarios /\ scenario.link = "ble" /\ open = "up"
        /\ arrived \in Nat /\ arrived <= Len(scenario.units) /\ Len(scenario.units) \in Nat
        /\ ble \in BleReaders
    BY <1>2, Given DEF ReadInv, Typed, BaseInv, BleReading, link
  <2>2. t \in Seq(Bytes)
    BY <1>1, <1>2, <2>1, ByteTaken
  <2>3. arrived > 0
    <3>1. ~IdleReader.active
      BY DEF IdleReader
    <3>2. arrived = 0 => ble = IdleReader
      BY <1>2 DEF ReadInv, BleReading
    <3> QED BY <1>2, <2>1, <3>1, <3>2
  <2>4. PICK unit : unit = scenario.units[arrived]
    OBVIOUS
  <2>5. PICK before : before = Heard(scenario)[arrived - 1]
    OBVIOUS
  <2>6. arrived \in 1 .. Len(scenario.units) /\ arrived - 1 \in 0 .. Len(scenario.units)
    BY <2>1, <2>3
  <2>7. unit \in BlePackets
    BY <2>1, <2>4, <2>6, Given
  <2>8. before.reader \in BleReaders /\ before.out \in Seq(Bytes)
    BY <2>1, <2>5, <2>6, HeardIs
  <2>9. InPacket(before, unit)
    BY <1>2, <2>3, <2>4, <2>5 DEF ReadInv, BleReading
  <2>10. unit # <<>>
    <3> SUFFICES ASSUME unit = <<>> PROVE FALSE
      OBVIOUS
    <3>1. ble = Fetched(before.reader, unit)
      BY <2>9 DEF InPacket
    <3>2. ble.index = 1 /\ ble.packet = unit
      BY <2>7, <2>8, <3>1, FetchedIs
    <3>3. Len(unit) = 0
      BY EmptySeq
    <3> QED BY <1>2, <3>2, <3>3 DEF Spent
  <2>11. PICK u : \E k \in 1 .. Len(unit) :
           /\ Rounds(before.reader, unit, u)
           /\ ble = u[k].reader /\ HasParsed(before.out \o u[k].out)
    BY <2>9, <2>10 DEF InPacket
  <2>12. PICK k \in 1 .. Len(unit) :
           /\ Rounds(before.reader, unit, u)
           /\ ble = u[k].reader /\ HasParsed(before.out \o u[k].out)
    BY <2>11
  <2>13. Len(unit) \in Nat
    BY <2>7, BleTypes
  <2>14. /\ ble.packet = unit /\ ble.index = k /\ u[k].out \in Seq(Bytes)
    BY <1>2, <2>7, <2>8, <2>10, <2>12, RoundsKeep
  <2>15. k \in 1 .. Len(unit) - 1 /\ k + 1 \in 1 .. Len(unit)
    BY <1>2, <2>13, <2>14 DEF Spent
  <2>16. u[k + 1].reader = ble' /\ u[k + 1].out = u[k].out \o t
    <3> DEFINE out == u[k].out \o t
    <3>1. u[k + 1] = TakenNext(u[k])
      BY <2>12, <2>15 DEF Rounds
    <3>2. u[k + 1] = [reader |-> TakeByte(ble).reader, out |-> out]
      BY <1>1, <1>2, <2>12, <3>1 DEF TakenNext
    <3> HIDE DEF out
    <3>3. u[k + 1].reader = TakeByte(ble).reader /\ u[k + 1].out = out
      BY <3>2
    <3> QED BY <1>2, <3>3 DEF out
  <2>17. PICK h : h = before.out \o u[k].out
    OBVIOUS
  <2>18. h \in Seq(Bytes) /\ HasParsed(h)
    BY <2>8, <2>12, <2>14, <2>17, ConcatProperties
  <2>19. HasParsed(h \o t)'
    BY <1>2, <2>2, <2>18, ParsedOn
  <2>20. h \o t = before.out \o u[k + 1].out
    <3>1. PICK x, y : x = before.out /\ y = u[k].out
      OBVIOUS
    <3>2. (x \o y) \o t = x \o (y \o t)
      <4>1. x \in Seq(Bytes) /\ y \in Seq(Bytes)
        BY <2>8, <2>14, <3>1
      <4> QED BY <2>2, <4>1, Regrouped
    <3> QED BY <2>16, <2>17, <3>1, <3>2
  <2>21. InPacket(before, unit)'
    <3>1. HasParsed(before.out \o u[k + 1].out)'
      BY <2>19, <2>20
    <3> QED BY <2>10, <2>12, <2>15, <2>16, <3>1 DEF InPacket
  <2>22. InPacket(Heard(scenario)[arrived - 1], scenario.units[arrived])'
    <3>1. Heard(scenario')[arrived' - 1] = before /\ scenario'.units[arrived'] = unit
      BY <1>2, <2>4, <2>5
    <3> QED BY <2>21, <3>1 DEF InPacket, HasParsed
  <2>23. open' = "up" /\ arrived' <= Len(scenario'.units) /\ ~(arrived' = 0)
    BY <1>2, <2>1, <2>3
  <2> QED BY <2>22, <2>23 DEF BleReading
<1> QED BY <1>3, <1>4, <1>5

\* read() of the driver loads the oldest byte.
LEMMA ByteLoaded ==
  ASSUME ReadInv, SerialRead
  PROVE  SerialReading' /\ RxHeld' /\ BleReading'
<1>1. /\ link = "serial" /\ scenario' = scenario /\ rx' = rx /\ overrun' = overrun
      /\ arrived' = arrived /\ _parser' = _parser /\ received' = received
      /\ ~is_empty(rx) /\ access' = To(Reader, "advance", peek(rx), NextSlot(rx, rx.tail))
  BY DEF SerialRead, UartRead, history, readVars
<1>2. SerialReading'
  BY <1>1 DEF ReadInv, SerialReading, HasParsed, link
<1>3. RxHeld'
  <2>1. access \in [Threads -> [step : {"none", "put", "publish", "enable", "advance"},
                                byte : Bytes, slot : Nat]] /\ Reader \in Threads
    BY Given DEF ReadInv, Typed, UartInv
  <2>2. access'[Reader] = [step |-> "advance", byte |-> peek(rx), slot |-> NextSlot(rx, rx.tail)]
    BY <1>1, <2>1 DEF To
  <2>3. access'[Reader].byte = peek(rx') /\ access'[Reader].slot = NextSlot(rx', rx'.tail)
    BY <1>1, <2>2
  <2> QED BY <1>1, <2>3 DEF RxHeld
<1>4. BleReading'
  BY <1>1 DEF BleReading, link
<1> QED BY <1>2, <1>3, <1>4

\* deinit() and init() of a BLE transport are not followed further.
LEMMA ReopenedRead ==
  ASSUME ReadInv, Deinit \/ CloseTransport \/ Reopen
  PROVE  /\ SerialReading' /\ RxHeld' /\ BleReading'
         /\ deinitsLeft' <= scenario'.deinits
<1>1. /\ scenario' = scenario /\ rx' = rx /\ overrun' = overrun /\ access' = access
      /\ arrived' = arrived /\ received' = received
  BY DEF Deinit, CloseTransport, Reopen, UartClose, UartOpen, uartVars, history, readVars
<1>2. scenario.link \in {"serial", "ble"} /\ scenario.deinits \in Nat /\ deinitsLeft \in Nat
  BY Given DEF ReadInv, Typed, BaseInv
<1>3. link = "serial" => _parser' = _parser
  BY DEF Deinit, CloseTransport, Reopen, readVars
<1>4. SerialReading'
  BY <1>1, <1>3 DEF ReadInv, SerialReading, HasParsed, link
<1>5. RxHeld'
  BY <1>1 DEF ReadInv, RxHeld
<1>6. BleReading'
  <2>1. CASE Deinit
    <3>1. deinitsLeft' < scenario.deinits
      BY <1>2, <2>1 DEF Deinit, ReadInv
    <3> QED BY <1>1, <1>2, <3>1 DEF BleReading
  <2>2. CASE CloseTransport \/ Reopen
    <3>1. deinitsLeft' = deinitsLeft /\ open # "up"
      BY <2>2 DEF CloseTransport, Reopen
    <3> QED BY <1>1, <3>1 DEF ReadInv, BleReading, link
  <2> QED BY <2>1, <2>2
<1>7. deinitsLeft' <= scenario'.deinits
  BY <1>1, <1>2 DEF Deinit, CloseTransport, Reopen, ReadInv
<1> QED BY <1>4, <1>5, <1>6, <1>7

\* The bytes of what the peer sends, and what has been read of them, are
\* followed by every step.
LEMMA ReadKept ==
  ASSUME ReadInv, [Next]_vars
  PROVE  ReadInv'
<1>1. Typed /\ Typed'
  BY TypedKept DEF ReadInv
<1>2. scenario' = scenario /\ deinitsLeft <= scenario.deinits
  BY NextIsUartStep DEF ReadInv
<1>3. access \in [Threads -> [step : {"none", "put", "publish", "enable", "advance"},
                              byte : Bytes, slot : Nat]] /\ Reader \in Threads
  BY Given DEF ReadInv, Typed, UartInv
<1>4. ASSUME UNCHANGED <<readVars, rx, overrun, deinitsLeft, open>>,
             access'[Reader].step = "advance" => access'[Reader] = access[Reader]
      PROVE  ReadInv'
  BY <1>1, <1>2, <1>4, NothingRead DEF ReadInv
<1>5. ASSUME SerialReading' /\ RxHeld' /\ BleReading', deinitsLeft' = deinitsLeft
      PROVE  ReadInv'
  BY <1>1, <1>2, <1>5 DEF ReadInv
<1>6. CASE Transmit
  BY <1>4, <1>6 DEF Transmit, IsrSend, baseVars
<1>7. CASE Interrupt
  BY <1>4, <1>7 DEF Interrupt, IsrIdle, IsrFails, baseVars, history
<1>8. CASE Receive
  BY <1>5, <1>8, ArrivalRead DEF Receive, baseVars
<1>9. ASSUME NEW t \in Threads, Write(t) PROVE ReadInv'
  <2>1. ASSUME NEW step, step # "advance", NEW b, NEW slot,
               access' = To(t, step, b, slot)
        PROVE  access'[Reader].step = "advance" => access'[Reader] = access[Reader]
    BY <1>3, <2>1 DEF To
  <2>2. CASE SerialByte(t)
    <3>1. UNCHANGED <<readVars, rx, overrun, deinitsLeft, open>>
      BY <2>2 DEF SerialByte, UartWrite, history, baseVars
    <3>2. access' = To(t, "put", Head(writing[t].bytes), NextSlot(tx, tx.head))
      BY <2>2 DEF SerialByte, UartWrite
    <3>3. access'[Reader].step = "advance" => access'[Reader] = access[Reader]
      BY <2>1, <3>2
    <3> QED BY <1>4, <3>1, <3>3
  <2>3. CASE SerialRefused(t)
    BY <1>4, <2>3 DEF SerialRefused, WriteReturns, uartVars, history
  <2>4. CASE SerialMemory(t)
    <3>1. UNCHANGED <<readVars, rx, overrun, deinitsLeft, open>>
      BY <2>4 DEF SerialMemory, Put, Publish, history, baseVars
    <3>2. access' = [access EXCEPT ![t].step = "publish"]
          \/ access' = [access EXCEPT ![t].step = "enable"]
      BY <2>4 DEF SerialMemory, Put, Publish
    <3>3. access'[Reader].step = "advance" => access'[Reader] = access[Reader]
      BY <1>3, <3>2
    <3> QED BY <1>4, <3>1, <3>3
  <2>5. CASE SerialDone(t)
    <3>1. UNCHANGED <<readVars, rx, overrun, deinitsLeft, open>>
      BY <2>5 DEF SerialDone, Enable, WriteReturns, baseVars
    <3>2. access' = [access EXCEPT ![t] = NoAccess] /\ NoAccess.step = "none"
      BY <2>5 DEF SerialDone, Enable, NoAccess
    <3>3. access'[Reader].step = "advance" => access'[Reader] = access[Reader]
      BY <1>3, <3>2
    <3> QED BY <1>4, <3>1, <3>3
  <2>6. CASE BleChecks(t) \/ BleFlushes(t) \/ BleStarts(t) \/ BleAppends(t) \/ BleAborts(t)
    BY <1>4, <2>6 DEF BleChecks, BleFlushes, BleStarts, BleAppends, BleAborts, ByteGoesOn,
       uartVars, history, baseVars
  <2>7. CASE BleDone(t)
    BY <1>4, <2>7 DEF BleDone, WriteReturns, uartVars, history
  <2>8. CASE BleFails(t)
    BY <1>4, <2>8 DEF BleFails, WriteReturns, history
  <2> QED BY <1>9, <2>2, <2>3, <2>4, <2>5, <2>6, <2>7, <2>8 DEF Write
<1>10. ASSUME NEW t \in Senders, Send(t) PROVE ReadInv'
  BY <1>4, <1>10 DEF Send, uartVars, history
<1>11. CASE SerialRead
  BY <1>5, <1>11, ByteLoaded DEF SerialRead, baseVars
<1>12. CASE SerialParse
  BY <1>5, <1>12, SerialParsed DEF SerialParse
<1>13. CASE ReadNothing \/ UNCHANGED vars
  BY <1>4, <1>13 DEF ReadNothing, vars, uartVars, history, baseVars
<1>14. CASE BleFetch
  BY <1>5, <1>14, PacketFetched DEF BleFetch, baseVars
<1>15. CASE BleParse
  BY <1>5, <1>15, PacketGoesOn DEF BleParse
<1>16. CASE Thru
  BY <1>4, <1>16 DEF Thru, uartVars, history
<1>17. ASSUME NEW s \in scenario.sinks, Register(s) \/ Unregister(s) PROVE ReadInv'
  BY <1>4, <1>17 DEF Register, Unregister, uartVars, history
<1>18. CASE Deinit \/ CloseTransport \/ Reopen
  BY <1>1, <1>18, ReopenedRead DEF ReadInv
<1> QED BY <1>6, <1>7, <1>8, <1>9, <1>10, <1>11, <1>12, <1>13, <1>14, <1>15, <1>16, <1>17, <1>18
        DEF Next

\* What has been read is the beginning of the messages in what the peer sends.
LEMMA ReadIsBeginning ==
  ASSUME NEW s \in Scenarios, NEW n \in 0 .. Len(s.units),
         NEW h \in Seq(Bytes), NEW rest \in Seq(Bytes), Heard(s)[n].out = h \o rest,
         HasParsed(h)
  PROVE  IsPrefix(received, MessagesIn(s))
<1> DEFINE first == ParsedAll(ResetParser, h)
           second(x) == ParsedAll(first.parser, x)
<1>1. PICK more \in Seq(Bytes) : Heard(s)[Len(s.units)].out = Heard(s)[n].out \o more
  BY HeardGrows
<1>2. PICK x : x = rest \o more
  OBVIOUS
<1>3. Heard(s)[Len(s.units)].out = h \o x /\ x \in Seq(Bytes)
  BY <1>1, <1>2, Regrouped
<1>4. ParsedAll(ResetParser, h \o x) = Parsed(second(x).parser, first.out \o second(x).out)
  BY <1>3, ResetIsGood, ParsedConcat
<1>5. first.out \in Seq(WholePackets) /\ second(x).out \in Seq(WholePackets)
  <2>1. GoodParser(first.parser) /\ first.out \in Seq(WholePackets)
    BY ResetIsGood, ParsedIsGood
  <2> QED BY <1>3, <2>1, ParsedIsGood
<1> DEFINE out == first.out \o second(x).out
<1>6. ParsedAll(ResetParser, h \o x).out = out
  <2>1. ParsedAll(ResetParser, h \o x) = Parsed(second(x).parser, out)
    BY <1>4
  <2> HIDE DEF out, first
  <2> QED BY <2>1, ParsedFields
<1>7. MessagesIn(s) = first.out \o second(x).out
  BY <1>3, <1>6 DEF MessagesIn
<1>8. IsPrefix(first.out, MessagesIn(s))
  <2> HIDE DEF first, second
  <2> QED BY <1>5, <1>7, PartIsPrefix
<1> QED BY <1>8 DEF HasParsed

\* The same in the middle of a BLE packet.
LEMMA ReadOfPacket ==
  ASSUME ReadInv, link = "ble", deinitsLeft = scenario.deinits, ble.active /\ ~Spent(ble)
  PROVE  IsPrefix(received, MessagesIn(scenario))
<1>1. /\ scenario \in Scenarios /\ scenario.link = "ble" /\ arrived \in Nat
      /\ arrived <= Len(scenario.units) /\ Len(scenario.units) \in Nat
  BY Given DEF ReadInv, Typed, BaseInv, BleReading, link
<1>2. arrived > 0
  <2>1. ~IdleReader.active
    BY DEF IdleReader
  <2>2. arrived = 0 => ble = IdleReader
    BY DEF ReadInv, BleReading
  <2> QED BY <1>1, <2>1, <2>2
<1>3. PICK unit : unit = scenario.units[arrived]
  OBVIOUS
<1>4. PICK before : before = Heard(scenario)[arrived - 1]
  OBVIOUS
<1>5. /\ arrived \in 1 .. Len(scenario.units) /\ arrived \in 0 .. Len(scenario.units)
      /\ arrived - 1 \in 0 .. Len(scenario.units) - 1 /\ arrived - 1 \in 0 .. Len(scenario.units)
      /\ (arrived - 1) + 1 = arrived
  BY <1>1, <1>2
<1>6. unit \in BlePackets
  BY <1>1, <1>3, <1>5, Given
<1>7. before.reader \in BleReaders /\ before.out \in Seq(Bytes)
  BY <1>1, <1>4, <1>5, HeardIs
<1>8. InPacket(before, unit)
  BY <1>2, <1>3, <1>4 DEF ReadInv, BleReading
<1>9. unit # <<>>
  <2> SUFFICES ASSUME unit = <<>> PROVE FALSE
    OBVIOUS
  <2>1. ble = Fetched(before.reader, unit)
    BY <1>8 DEF InPacket
  <2>2. ble.index = 1 /\ ble.packet = unit
    BY <1>6, <1>7, <2>1, FetchedIs
  <2>3. Len(unit) = 0
    BY EmptySeq
  <2> QED BY <2>2, <2>3 DEF Spent
<1>10. PICK u : \E k \in 1 .. Len(unit) :
          Rounds(before.reader, unit, u) /\ HasParsed(before.out \o u[k].out)
  BY <1>8, <1>9 DEF InPacket
<1>11. PICK k \in 1 .. Len(unit) :
          Rounds(before.reader, unit, u) /\ HasParsed(before.out \o u[k].out)
  BY <1>10
<1>12. u[k].out \in Seq(Bytes)
  BY <1>6, <1>7, <1>9, <1>11, RoundsKeep
<1>13. PICK rest \in Seq(Bytes) : TakeAll(before.reader, unit).out = u[k].out \o rest
  <2>1. PICK r \in BleReaders : r = before.reader
    BY <1>7
  <2>2. Rounds(r, unit, u)
    BY <1>11, <2>1
  <2>3. \E rest \in Seq(Bytes) : TakeAll(r, unit).out = u[k].out \o rest
    BY <1>6, <1>9, <2>2, RoundsGrow
  <2> QED BY <2>1, <2>3
<1>14. PICK h : h = before.out \o u[k].out
  OBVIOUS
<1>15. h \in Seq(Bytes) /\ HasParsed(h)
  BY <1>7, <1>11, <1>12, <1>14, ConcatProperties
<1>16. Heard(scenario)[arrived].out = h \o rest
  <2> DEFINE taken == TakeAll(before.reader, unit)
             out == before.out \o taken.out
  <2>1. Heard(scenario)[arrived] = HeardNext(scenario, before, arrived)
    BY <1>1, <1>4, <1>5, HeardSteps
  <2>2. Heard(scenario)[arrived] = [reader |-> taken.reader, out |-> out]
    BY <1>1, <1>3, <1>9, <2>1 DEF HeardNext
  <2> HIDE DEF taken, out
  <2>3. Heard(scenario)[arrived].out = out
    BY <2>2
  <2>4. (before.out \o u[k].out) \o rest = before.out \o (u[k].out \o rest)
    BY <1>7, <1>12, Regrouped
  <2> QED BY <1>13, <1>14, <2>3, <2>4 DEF out, taken
<1> QED BY <1>1, <1>5, <1>15, <1>16, ReadIsBeginning

\* read() returns the messages the peer has sent, each once and in order, also
\* under running status, in pieces or with a SysEx cut short, unless the receive
\* ring overflowed or a BLE interface was opened anew (read() of uart_hw.cpp
\* over ring_buffer.h, fed by isr(); read_midi_byte() of transport_ble.cpp;
\* parse() of midi_common.h between two of them).  The messages of a scenario
\* are those in its bytes.
THEOREM ReadsArrive ==
  ASSUME \A s \in Scenarios : s.packets = MessagesIn(s)
  PROVE  Spec => []ReadsAreArrivals
<1>1. ReadInv /\ [Next]_vars => ReadInv'
  BY ReadKept
<1>2. ReadInv => ReadsAreArrivals
  <2> SUFFICES ASSUME ReadInv, ~overrun, link = "ble" => deinitsLeft = scenario.deinits
               PROVE  /\ IsPrefix(received, scenario.packets)
                      /\ AllRead => received = scenario.packets
    BY DEF ReadsAreArrivals
  <2>1. /\ scenario \in Scenarios /\ scenario.packets = MessagesIn(scenario)
        /\ scenario.link \in {"serial", "ble"} /\ arrived \in Nat /\ Len(scenario.units) \in Nat
        /\ rx \in Rings(RxCapacity) /\ RxCapacity \in Nat \ {0}
    BY Given DEF ReadInv, Typed, BaseInv, UartInv
  <2>2. ASSUME HasParsed(Heard(scenario)[Len(scenario.units)].out)
        PROVE  received = scenario.packets
    BY <2>1, <2>2 DEF HasParsed, MessagesIn
  <2>3. CASE link = "serial"
    <3>1. PICK h \in Seq(Bytes) :
            HasParsed(h) /\ Heard(scenario)[arrived].out = h \o Content(rx, RxCapacity)
      BY <2>3 DEF ReadInv, SerialReading
    <3>2. arrived \in 0 .. Len(scenario.units)
      BY <2>1, <2>3 DEF ReadInv, SerialReading
    <3>3. Content(rx, RxCapacity) \in Seq(Bytes)
      BY <2>1, ContentIs
    <3>4. IsPrefix(received, scenario.packets)
      BY <2>1, <3>1, <3>2, <3>3, ReadIsBeginning
    <3>5. ASSUME AllRead PROVE received = scenario.packets
      <4>1. Content(rx, RxCapacity) = <<>> /\ arrived = Len(scenario.units)
        BY <2>1, <2>3, <3>5, ContentIs DEF AllRead
      <4>2. h \o <<>> = h
        BY ConcatEmptySeq
      <4> QED BY <2>2, <3>1, <4>1, <4>2
    <3> QED BY <3>4, <3>5
  <2>4. CASE link = "ble"
    <3>1. ASSUME AllRead PROVE received = scenario.packets
      <4>1. arrived = Len(scenario.units) /\ (ble.active => Spent(ble))
        BY <2>4, <3>1 DEF AllRead
      <4>2. HasParsed(Heard(scenario)[arrived].out)
        BY <2>4, <4>1, PacketRead
      <4> QED BY <2>2, <4>1, <4>2
    <3>2. IsPrefix(received, scenario.packets)
      <4>1. CASE ble.active => Spent(ble)
        <5>1. arrived \in 0 .. Len(scenario.units) /\ HasParsed(Heard(scenario)[arrived].out)
          BY <2>4, <4>1, PacketRead
        <5>2. PICK h : h = Heard(scenario)[arrived].out
          OBVIOUS
        <5>3. h \in Seq(Bytes) /\ <<>> \in Seq(Bytes) /\ h = h \o <<>>
          BY <2>1, <5>1, <5>2, HeardIs, ConcatEmptySeq, EmptySeq
        <5>4. HasParsed(h) /\ Heard(scenario)[arrived].out = h \o <<>>
          BY <5>1, <5>2, <5>3
        <5> QED BY <2>1, <5>1, <5>3, <5>4, ReadIsBeginning
      <4>2. CASE ble.active /\ ~Spent(ble)
        BY <2>1, <2>4, <4>2, ReadOfPacket
      <4> QED BY <4>1, <4>2
    <3> QED BY <3>1, <3>2
  <2> QED BY <2>1, <2>3, <2>4 DEF link
<1> QED BY InitReads, <1>1, <1>2, PTL DEF Spec
=============================================================================
