----------------------------- MODULE SysExConf -----------------------------
(***************************************************************************)
(* SysExConf (module/src/utils/sysex_conf/sysex_conf.cpp): a tool reads    *)
(* and writes a device's parameters with SysEx requests, which arrive as   *)
(* packets and are put together in the buffer that answers are built in.   *)
(*                                                                         *)
(* Every public function holds the recursive _lock from start to end, so   *)
(* each is one action; the data handler, which is external and may refuse  *)
(* any value, does not call back.  A message is a sequence with one element *)
(* per field: the three manufacturer bytes are one element, and so are the *)
(* two bytes of a 14-bit value.                                            *)
(***************************************************************************)
EXTENDS Integers, SequencesExt

CONSTANTS
  PARAMS_PER_MESSAGE,  \* values in one part: 32
  PacketPayload,       \* elements in one packet: 6 bytes
  OwnId,               \* _manufacturer_id
  Layout,              \* the layout set_layout() is given: blocks of sections
  CustomTables,        \* the tables of custom requests, ids and open checks
  Requests,            \* what the tool asks: messages without their markers
  CustomValues,        \* what send_custom_message() sends
  CustomOutcomes       \* what a custom request handler does

START == 240
END == 247
PART_ALL_MESSAGES == 127
PART_ALL_MESSAGES_WITH_ACK == 126

\* The enumerations of sysex_conf_common.h, by their codes.
Wish == [Get |-> 0, Set |-> 1, Backup |-> 2]
Amount == [Single |-> 0, All |-> 1]
SpecialRequest ==
  [ConnClose |-> 0, ConnOpen |-> 1, BytesPerValue |-> 2, ParamsPerMessage |-> 3]
Status ==
  [Request |-> 0, Ack |-> 1, ErrorStatus |-> 2, ErrorConnection |-> 3,
   ErrorWish |-> 4, ErrorAmount |-> 5, ErrorBlock |-> 6, ErrorSection |-> 7,
   ErrorPart |-> 8, ErrorIndex |-> 9, ErrorNewValue |-> 10,
   ErrorMessageLength |-> 11, ErrorWrite |-> 12, ErrorRead |-> 14]

\* ByteOrder, counted in elements from one.
IdByte == 2
StatusByte == 3
PartByte == 4
WishByte == 5
AmountByte == 6
BlockByte == 7
SectionByte == 8
IndexByte == 9
SPECIAL_REQ_MSG_SIZE == WishByte + 1
STD_REQ_MIN_MSG_SIZE == SectionByte + 2 + 1
MAX_MESSAGE_SIZE == STD_REQ_MIN_MSG_SIZE + PARAMS_PER_MESSAGE

ASSUME SysExAssumption ==
  /\ PARAMS_PER_MESSAGE \in Nat \ {0} /\ PacketPayload \in Nat \ {0}
  /\ OwnId \in Nat /\ Requests \subseteq Seq(Nat)
  /\ CustomOutcomes \subseteq [result : Nat, values : Seq(Nat)]
  /\ Layout # <<>> /\ Layout \in Seq(Seq([count : Nat, min : Nat, max : Nat]))

\* What the callers see to.  send_custom_message() does not check that its values
\* fit, with two markers, the id, a status and a part.  The number of a part is
\* one byte, whose values 126 and 127 mean all parts, and is not checked either.
ASSUME CallersAssumption ==
  /\ \A values \in CustomValues : values \in Seq(Nat) /\ Len(values) + 5 <= MAX_MESSAGE_SIZE
  /\ \A b \in DOMAIN Layout : \A s \in DOMAIN Layout[b] :
       /\ Layout[b][s].min <= Layout[b][s].max
       /\ Layout[b][s].count <= PART_ALL_MESSAGES_WITH_ACK * PARAMS_PER_MESSAGE

VARIABLES
  response,  \* _response_array up to _response_counter
  active,    \* _ump_message_active
  enabled,   \* _configuration_enabled
  ignore,    \* _user_error_ignore_mode_enabled
  layout,    \* _layout
  customs,   \* _custom_requests
  store,     \* the data handler's values
  tool,      \* the request the tool sends and what is left of it
  crossed,   \* history: another message was built in the buffer meanwhile
  event      \* history: what the last call handled and sent

device == <<response, active, enabled, ignore, layout, customs>>
vars == <<device, store, tool, crossed, event>>

Params ==
  UNION {UNION {{<<b, s, i>> : i \in 0 .. Layout[b + 1][s + 1].count - 1} :
                  s \in 0 .. Len(Layout[b + 1]) - 1} : b \in 0 .. Len(Layout) - 1}

NoTool == [message |-> <<>>, left |-> <<>>]
NoEvent == [handled |-> <<>>, fails |-> {}, replies |-> <<>>]

-----------------------------------------------------------------------------
(* Requests.                                                                 *)

SectionOf(m) == layout[m[BlockByte] + 1][m[SectionByte] + 1]

\* parts() of a section.
parts(sec) == (sec.count + PARAMS_PER_MESSAGE - 1) \div PARAMS_PER_MESSAGE

AsksWhole(m) == m[PartByte] \in {PART_ALL_MESSAGES, PART_ALL_MESSAGES_WITH_ACK}
Reads(m) == m[WishByte] \in {Wish.Get, Wish.Backup}

check_part(m) ==
  IF AsksWhole(m) THEN Reads(m)
  ELSE IF m[AmountByte] = Amount.All THEN m[PartByte] < parts(SectionOf(m))
  ELSE m[PartByte] = 0

\* The indices of a part: a full one, or what is left of the section.
IndicesOf(sec, part) ==
  LET first == PARAMS_PER_MESSAGE * part
      last == first + PARAMS_PER_MESSAGE - 1
  IN first .. (IF last >= sec.count THEN sec.count - 1 ELSE last)

generate_message_length(m) ==
  LET sec == SectionOf(m)
  IN IF m[AmountByte] = Amount.Single \/ Reads(m) THEN STD_REQ_MIN_MSG_SIZE
     ELSE SectionByte + 1 +
          (IF sec.count <= PARAMS_PER_MESSAGE THEN sec.count
           ELSE IF m[PartByte] + 1 = parts(sec)
           THEN sec.count - (parts(sec) - 1) * PARAMS_PER_MESSAGE
           ELSE PARAMS_PER_MESSAGE)

\* Mutant: the connection is not asked for.
decode_standard_request_NotOpen(m) ==
  IF Len(m) < STD_REQ_MIN_MSG_SIZE - 1 THEN Status.ErrorMessageLength
  ELSE IF m[WishByte] > Wish.Backup THEN Status.ErrorWish
  ELSE IF m[BlockByte] >= Len(layout) THEN Status.ErrorBlock
  ELSE IF m[SectionByte] >= Len(layout[m[BlockByte] + 1]) THEN Status.ErrorSection
  ELSE IF m[AmountByte] > Amount.All THEN Status.ErrorAmount
  ELSE IF ~check_part(m) THEN Status.ErrorPart
  ELSE IF Len(m) # generate_message_length(m) THEN Status.ErrorMessageLength
  ELSE Status.Ack

\* The first check that fails decides the status.
decode_standard_request(m) ==
  IF Len(m) < STD_REQ_MIN_MSG_SIZE - 1 THEN Status.ErrorMessageLength
  ELSE IF ~enabled THEN Status.ErrorConnection
  ELSE IF m[WishByte] > Wish.Backup THEN Status.ErrorWish
  ELSE IF m[BlockByte] >= Len(layout) THEN Status.ErrorBlock
  ELSE IF m[SectionByte] >= Len(layout[m[BlockByte] + 1]) THEN Status.ErrorSection
  ELSE IF m[AmountByte] > Amount.All THEN Status.ErrorAmount
  ELSE IF ~check_part(m) THEN Status.ErrorPart
  ELSE IF Len(m) # generate_message_length(m) THEN Status.ErrorMessageLength
  ELSE Status.Ack

\* The parameter with index i of the request's section.
Param(m, i) == <<m[BlockByte], m[SectionByte], i>>

check_new_value(sec, v) == sec.min # sec.max => sec.min <= v /\ v <= sec.max

-----------------------------------------------------------------------------
(* Answers.  An outcome is what a request leads to: the messages sent, and   *)
(* the values and the connection afterwards.                                 *)

Outcome(replies, values, open) ==
  [replies |-> replies, store |-> values, enabled |-> open]

\* send_response(): the buffer, closed by its marker.
Sent(buffer) == Append(buffer, END)
WithStatus(m, status) == [m EXCEPT ![StatusByte] = status]
Refused(m, status) == Outcome(<<Sent(WithStatus(Front(m), status))>>, store, enabled)

\* add_to_response(), value after value.
Added(buffer, values) ==
  LET room == MAX_MESSAGE_SIZE - 1 - Len(buffer)
  IN buffer \o SubSeq(values, 1, IF room < Len(values) THEN room ELSE Len(values))

\* Mutant: the answer keeps the request's place for an index and a value.
AnswerBase_KeepsIndex(m) ==
  IF m[WishByte] = Wish.Backup
  THEN [Front(m) EXCEPT ![StatusByte] = Status.Request, ![WishByte] = Wish.Set]
  ELSE WithStatus(Front(m), Status.Ack)

\* What an answer to a reading request starts with.  A backup's answer is a
\* request to set the values, without place for an index and a value.
AnswerBase(m) ==
  IF m[WishByte] = Wish.Backup
  THEN [SubSeq(m, 1, SectionByte) EXCEPT ![StatusByte] = Status.Request,
                                         ![WishByte] = Wish.Set]
  ELSE WithStatus(Front(m), Status.Ack)

\* Mutant: the last part is not counted when it is not full.
AnsweredParts_FullOnly(m) ==
  IF AsksWhole(m)
  THEN [j \in 1 .. SectionOf(m).count \div PARAMS_PER_MESSAGE |-> j - 1]
  ELSE <<m[PartByte]>>

\* The parts that are answered, in order.
AnsweredParts(m) ==
  IF AsksWhole(m) THEN [j \in 1 .. parts(SectionOf(m)) |-> j - 1] ELSE <<m[PartByte]>>

\* The parameters that the answer for a part carries, in order.
Answered(m, part) ==
  IF m[AmountByte] = Amount.Single THEN <<m[IndexByte]>>
  ELSE [k \in 1 .. Cardinality(IndicesOf(SectionOf(m), part)) |->
          PARAMS_PER_MESSAGE * part + k - 1]

\* Why a parameter cannot be read, or Ack.
ReadStatus(m, i, fails) ==
  IF m[AmountByte] = Amount.Single /\ i >= SectionOf(m).count THEN Status.ErrorIndex
  ELSE IF Param(m, i) \in fails /\ ~ignore THEN Status.ErrorRead ELSE Status.Ack
ReadValue(m, i, fails) == IF Param(m, i) \in fails THEN 0 ELSE store[Param(m, i)]

\* The positions of a sequence of statuses before the first error.
BeforeError(statuses) ==
  LET bad == {k \in DOMAIN statuses : statuses[k] # Status.Ack}
  IN {k \in DOMAIN statuses : \A e \in bad : k < e}

\* The answer for one part: up to the first value that cannot be read.
PartAnswer(m, part, fails) ==
  LET indices == Answered(m, part)
      statuses == [k \in DOMAIN indices |-> ReadStatus(m, indices[k], fails)]
      good == Cardinality(BeforeError(statuses))
      base == IF AsksWhole(m) THEN [AnswerBase(m) EXCEPT ![PartByte] = part]
              ELSE AnswerBase(m)
      read == Added(base, [k \in 1 .. good |-> ReadValue(m, indices[k], fails)])
  IN [message |-> Sent(IF good = Len(indices) THEN read
                       ELSE WithStatus(read, statuses[good + 1])),
      status |-> IF good = Len(indices) THEN Status.Ack ELSE statuses[good + 1]]

\* The message that ends an answer in parts.  A backup has become a get.
FinalAck(m) ==
  <<START, OwnId, Status.Ack, PART_ALL_MESSAGES_WITH_ACK, Wish.Get, m[AmountByte],
    m[BlockByte], m[SectionByte], 0, 0, END>>

\* GET and BACKUP: part after part, up to the first that fails.
ReadOutcome(m, fails) ==
  LET answers == [j \in DOMAIN AnsweredParts(m) |->
                    PartAnswer(m, AnsweredParts(m)[j], fails)]
      good == Cardinality(BeforeError([j \in DOMAIN answers |-> answers[j].status]))
      complete == good = Len(answers)
      sent == [j \in 1 .. (IF complete THEN good ELSE good + 1) |-> answers[j].message]
  IN Outcome(IF complete /\ m[PartByte] = PART_ALL_MESSAGES_WITH_ACK
             THEN Append(sent, FinalAck(m)) ELSE sent, store, enabled)

\* The values a SET asks for, in the order they are applied.
Assignments(m) ==
  IF m[AmountByte] = Amount.Single
  THEN <<[index |-> m[IndexByte], value |-> m[IndexByte + 1]]>>
  ELSE LET indices == Answered(m, m[PartByte])
       IN [k \in DOMAIN indices |-> [index |-> indices[k], value |-> m[SectionByte + k]]]

WriteStatus(m, a, fails) ==
  IF m[AmountByte] = Amount.Single /\ a.index >= SectionOf(m).count THEN Status.ErrorIndex
  ELSE IF ~check_new_value(SectionOf(m), a.value) THEN Status.ErrorNewValue
  ELSE IF Param(m, a.index) \in fails /\ ~ignore THEN Status.ErrorWrite ELSE Status.Ack

\* The values once the assignments at these positions are made.
Assigned(m, positions, fails) ==
  LET todo == Assignments(m)
      hit(q) == {k \in positions : Param(m, todo[k].index) = q /\ q \notin fails}
  IN [q \in Params |-> IF hit(q) = {} THEN store[q]
                       ELSE todo[CHOOSE k \in hit(q) : TRUE].value]

\* SET: value after value, up to the first that is refused.
WriteOutcome(m, fails) ==
  LET todo == Assignments(m)
      statuses == [k \in DOMAIN todo |-> WriteStatus(m, todo[k], fails)]
      done == BeforeError(statuses)
      status == IF done = DOMAIN todo THEN Status.Ack ELSE statuses[Cardinality(done) + 1]
  IN Outcome(<<Sent(WithStatus(Front(m), status))>>, Assigned(m, done, fails), enabled)

process_standard_request(m, fails) ==
  IF Reads(m) THEN ReadOutcome(m, fails) ELSE WriteOutcome(m, fails)

\* What a custom handler appended and what it returned.
CustomAnswer(m, outcome) ==
  LET overflowed == Len(Front(m)) + Len(outcome.values) >= MAX_MESSAGE_SIZE
      status == IF overflowed THEN Status.ErrorRead
                ELSE IF outcome.result = Status.Request THEN Status.ErrorStatus
                ELSE outcome.result
  IN Outcome(<<Sent(Added(WithStatus(Front(m), status), outcome.values))>>, store, enabled)

process_special_request(m, outcome) ==
  LET wish == m[WishByte]
      accepted(extra, open) ==
        Outcome(<<Sent(WithStatus(Front(m), Status.Ack) \o extra)>>, store, open)
      known == {r \in customs : r.id = wish}
  IN CASE wish = SpecialRequest.ConnOpen -> accepted(<<>>, TRUE)
       [] wish = SpecialRequest.ConnClose -> IF enabled THEN accepted(<<>>, FALSE)
                              ELSE Refused(m, Status.ErrorConnection)
       [] wish \in {SpecialRequest.BytesPerValue, SpecialRequest.ParamsPerMessage} ->
            IF ~enabled THEN Refused(m, Status.ErrorConnection)
            ELSE accepted(<<IF wish = SpecialRequest.BytesPerValue THEN 2
                             ELSE PARAMS_PER_MESSAGE>>, enabled)
       [] OTHER ->
            IF known = {} THEN Refused(m, Status.ErrorWish)
            ELSE IF enabled \/ \E r \in known : ~r.open THEN CustomAnswer(m, outcome)
            ELSE Refused(m, Status.ErrorConnection)

\* Requests that get no answer at all.
Unanswerable(m) ==
  \/ layout = <<>> \/ Len(m) < SPECIAL_REQ_MSG_SIZE \/ Len(m) > MAX_MESSAGE_SIZE
  \/ m[IdByte] # OwnId

handle_request(m, fails, outcome) ==
  IF Unanswerable(m) THEN Outcome(<<>>, store, enabled)
  ELSE IF m[StatusByte] # Status.Request THEN Refused(m, Status.ErrorStatus)
  ELSE IF Len(m) = SPECIAL_REQ_MSG_SIZE THEN process_special_request(m, outcome)
  ELSE IF decode_standard_request(m) # Status.Ack THEN Refused(m, decode_standard_request(m))
  ELSE process_standard_request(m, fails)

-----------------------------------------------------------------------------
(* The functions of SysExConf.  An event's answers are read before the next  *)
(* event: nothing in the device depends on when they are.                    *)

Quiet == event = NoEvent

AnswersAreRead ==
  /\ ~Quiet
  /\ event' = NoEvent
  /\ tool' = IF tool.left = <<>> THEN NoTool ELSE tool
  /\ crossed' = (crossed /\ active)
  /\ UNCHANGED <<device, store>>

\* The buffer that a packet's payload is added to.
Buffer(packet) == IF packet.starts THEN <<START>> ELSE response

\* Mutant: there is no room kept for the end marker.
TooLong_NoEnd(packet) ==
  Len(Buffer(packet)) + Len(packet.payload) > MAX_MESSAGE_SIZE

TooLong(packet) ==
  Len(Buffer(packet)) + Len(packet.payload) + (IF packet.ends THEN 1 ELSE 0)
    > MAX_MESSAGE_SIZE

reset_ump_message == response' = <<>> /\ active' = FALSE

\* handle_packet() of a packet that does not complete a message.
PacketCollected(packet) ==
  /\ IF (~packet.starts /\ ~active) \/ TooLong(packet)
     THEN IF packet.starts \/ active THEN reset_ump_message
          ELSE UNCHANGED <<response, active>>
     ELSE ~packet.ends /\ active' = TRUE /\ response' = Buffer(packet) \o packet.payload
  /\ UNCHANGED <<enabled, store, event>>

\* handle_packet() of one that does, with the values the handler refuses.
PacketHandled(packet) ==
  LET m == Append(Buffer(packet) \o packet.payload, END)
  IN /\ packet.ends /\ (packet.starts \/ active) /\ ~TooLong(packet)
     /\ \E fails \in {{}} \cup {{q} : q \in Params}, outcome \in CustomOutcomes :
          LET result == handle_request(m, fails, outcome)
          IN /\ store' = result.store /\ enabled' = result.enabled
             /\ event' = [handled |-> m, fails |-> fails, replies |-> result.replies]
     /\ reset_ump_message

handle_packet(packet) ==
  /\ PacketCollected(packet) \/ PacketHandled(packet)
  /\ UNCHANGED <<ignore, layout, customs>>

\* The tool's next packet of a request: as much as a packet holds.
ToolSends(m, left, starts) ==
  LET size == IF Len(left) < PacketPayload THEN Len(left) ELSE PacketPayload
      rest == SubSeq(left, size + 1, Len(left))
  IN /\ Quiet
     /\ handle_packet([starts |-> starts, ends |-> rest = <<>>,
                       payload |-> SubSeq(left, 1, size)])
     /\ tool' = IF rest = <<>> /\ event' = NoEvent THEN NoTool
                ELSE [message |-> m, left |-> rest]
     /\ crossed' = (crossed /\ ~starts)

ToolBegins == \E m \in Requests : ToolSends(m, m, TRUE)
ToolGoesOn == tool.left # <<>> /\ ToolSends(tool.message, tool.left, FALSE)

\* A packet that is not SysEx, in the same stream.
OtherPacket ==
  /\ Quiet /\ active
  /\ reset_ump_message
  /\ UNCHANGED <<enabled, ignore, layout, customs, store, tool, crossed, event>>

\* A message of the application's own, built in the same buffer.
send_custom_message(values, ack) ==
  LET message == Sent(<<START, OwnId, IF ack THEN Status.Ack ELSE Status.Request, 0>>
                        \o values)
  IN /\ Quiet
     /\ response' = message
     /\ event' = [NoEvent EXCEPT !.replies = <<message>>]
     /\ crossed' = active
     /\ UNCHANGED <<active, enabled, ignore, layout, customs, store, tool>>

set_layout(l) ==
  /\ Quiet
  /\ enabled' = FALSE
  /\ layout' = IF l = <<>> THEN layout ELSE l
  /\ UNCHANGED <<response, active, ignore, customs, store, tool, crossed, event>>

\* A table that takes a built-in id is refused, and the one before is lost.
setup_custom_requests(table) ==
  /\ Quiet
  /\ customs' = IF \E r \in table : r.id <= SpecialRequest.ParamsPerMessage
                THEN {} ELSE table
  /\ UNCHANGED <<response, active, enabled, ignore, layout, store, tool, crossed,
                 event>>

close_connection ==
  /\ Quiet
  /\ enabled' = FALSE
  /\ UNCHANGED <<response, active, ignore, layout, customs, store, tool, crossed,
                 event>>

set_user_error_ignore_mode(state) ==
  /\ Quiet
  /\ ignore' = state
  /\ UNCHANGED <<response, active, enabled, layout, customs, store, tool,
                 crossed, event>>

reset ==
  /\ Quiet
  /\ enabled' = FALSE /\ ignore' = FALSE /\ layout' = <<>> /\ customs' = {}
  /\ reset_ump_message
  /\ UNCHANGED <<store, tool, crossed, event>>

-----------------------------------------------------------------------------
Init ==
  /\ response = <<>> /\ active = FALSE /\ enabled = FALSE /\ ignore = FALSE
  /\ layout = <<>> /\ customs = {}
  /\ store = [q \in Params |-> Layout[q[1] + 1][q[2] + 1].min]
  /\ tool = NoTool /\ crossed = FALSE /\ event = NoEvent

Next ==
  \/ ToolBegins \/ ToolGoesOn \/ OtherPacket \/ AnswersAreRead
  \/ \E values \in CustomValues, ack \in BOOLEAN : send_custom_message(values, ack)
  \/ \E l \in {<<>>, Layout} : set_layout(l)
  \/ \E table \in CustomTables : setup_custom_requests(table)
  \/ close_connection
  \/ \E state \in BOOLEAN : set_user_error_ignore_mode(state)
  \/ reset

Spec == Init /\ [][Next]_vars

-----------------------------------------------------------------------------
(* Properties.                                                               *)

\* Every variable has its type; no message is longer than _response_array.
TypeOK ==
  /\ Len(response) <= MAX_MESSAGE_SIZE
  /\ Len(event.handled) <= MAX_MESSAGE_SIZE
  /\ \A j \in DOMAIN event.replies : Len(event.replies[j]) <= MAX_MESSAGE_SIZE
  /\ active \in BOOLEAN /\ enabled \in BOOLEAN /\ ignore \in BOOLEAN
  /\ layout \in {<<>>, Layout}
  /\ store \in [Params -> Nat]

Handles == Quiet /\ event'.handled # <<>>
StatusOf(reply) == reply[StatusByte]
Values(reply) == SubSeq(reply, IndexByte, Len(reply) - 1)

\* Standard requests that are not refused at once.
Accepted(m) ==
  /\ ~Unanswerable(m) /\ m[StatusByte] = Status.Request
  /\ Len(m) # SPECIAL_REQ_MSG_SIZE /\ decode_standard_request(m) = Status.Ack

\* What is handled is what the tool sent, whole, unless another message was
\* built in the buffer between two of its packets.
HandledIsSent ==
  crossed' \/ event'.handled = <<START>> \o tool'.message \o <<END>>

\* Every request is answered, and an error is the last answer.
OneVerdict ==
  LET m == event'.handled
      replies == event'.replies
  IN /\ ~Unanswerable(m) /\ replies = <<>> =>
          Accepted(m) /\ AsksWhole(m) /\ parts(SectionOf(m)) = 0
     /\ \A j \in DOMAIN replies :
          StatusOf(replies[j]) \notin {Status.Ack, Status.Request} => j = Len(replies)

\* A read of a whole section sends every value once, in order.
WholeReads ==
  LET m == event'.handled
      n == SectionOf(m).count
      get == m[WishByte] = Wish.Get
      whole == SubSeq(event'.replies, 1, parts(SectionOf(m)))
      sent == FlattenSeq([j \in DOMAIN whole |->
                            IF get THEN SubSeq(Values(whole[j]), 3, Len(Values(whole[j])))
                            ELSE Values(whole[j])])
  IN Accepted(m) /\ AsksWhole(m) /\ m[AmountByte] = Amount.All /\ event'.fails = {}
       => sent = [i \in 1 .. n |-> store[Param(m, i - 1)]]

\* An acknowledged SET has stored every value it carried, up to those that the
\* handler refused in ignore mode.
AckedSets ==
  LET m == event'.handled
      first == IF m[AmountByte] = Amount.Single THEN m[IndexByte]
               ELSE PARAMS_PER_MESSAGE * m[PartByte]
      values == IF m[AmountByte] = Amount.Single THEN <<m[IndexByte + 1]>> ELSE Values(m)
  IN /\ Accepted(m) /\ m[WishByte] = Wish.Set
     /\ StatusOf(event'.replies[1]) = Status.Ack
     => \A k \in DOMAIN values :
          LET q == Param(m, first + k - 1)
          IN store'[q] = values[k] \/ (ignore /\ q \in event'.fails)

\* Requests that arrive in packets are put together and answered as the
\* protocol says, whatever calls come between the packets.
RequestsAreAnswered ==
  [][Handles => HandledIsSent /\ OneVerdict /\ WholeReads /\ AckedSets]_vars

\* The data handler's values change only for a SET handled while the connection
\* is open, and only to values in the section's range.
ChangedByOpenSet ==
  store' # store =>
    /\ Handles /\ enabled /\ event'.handled[WishByte] = Wish.Set
    /\ \A q \in Params : store'[q] # store[q] =>
         /\ q[1] = event'.handled[BlockByte] /\ q[2] = event'.handled[SectionByte]
         /\ check_new_value(Layout[q[1] + 1][q[2] + 1], store'[q])
OnlyOpenSets == [][ChangedByOpenSet]_vars

\* The answers to a BACKUP of a section are requests that restore it: sent back
\* they are acknowledged and leave every value as it is.
BackupRestores ==
  LET m == event.handled
      restored(reply) == handle_request(reply, {}, CHOOSE o \in CustomOutcomes : TRUE)
  IN /\ m # <<>> /\ Accepted(m) /\ event.fails = {}
     /\ m[WishByte] = Wish.Backup /\ m[AmountByte] = Amount.All
     => \A j \in DOMAIN event.replies : StatusOf(event.replies[j]) = Status.Request
          => LET again == restored(event.replies[j])
             IN /\ again.store = store
                /\ Len(again.replies) = 1 /\ StatusOf(again.replies[1]) = Status.Ack
=============================================================================
