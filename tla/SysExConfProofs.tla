-------------------------- MODULE SysExConfProofs --------------------------
(***************************************************************************)
(* Theorems about SysExConf, for any layout, any requests and any bounds   *)
(* on messages and packets.                                                *)
(***************************************************************************)
EXTENDS SysExConf, SequenceTheorems, FiniteSetTheorems, WellFoundedInduction, TLAPS

\* Messages are sequences of natural numbers, the layout is the one the
\* device was given, and the data handler has a value for each parameter.
Typed ==
  /\ response \in Seq(Nat)
  /\ tool.message \in Seq(Nat) /\ tool.left \in Seq(Nat)
  /\ tool = [message |-> tool.message, left |-> tool.left]
  /\ layout \in {<<>>, Layout}
  /\ store = [q \in Params |-> store[q]]

-----------------------------------------------------------------------------
(* A request.                                                                *)

\* Only a SET that is accepted has an outcome with other values.
LEMMA AcceptedSet ==
  ASSUME NEW m \in Seq(Nat), NEW fails, NEW outcome,
         handle_request(m, fails, outcome).store # store
  PROVE  /\ Accepted(m) /\ layout # <<>> /\ decode_standard_request(m) = Status.Ack
         /\ ~Reads(m)
         /\ handle_request(m, fails, outcome).store = WriteOutcome(m, fails).store
<1>1. handle_request(m, fails, outcome) # Outcome(<<>>, store, enabled)
  BY DEF Outcome
<1>2. ~Unanswerable(m)
  BY <1>1 DEF handle_request
<1>3. \A status : handle_request(m, fails, outcome) # Refused(m, status)
  BY DEF Refused, Outcome
<1>4. process_special_request(m, outcome).store = store
  <2>1. CustomAnswer(m, outcome).store = store
    BY DEF CustomAnswer, Outcome
  <2>2. \A status : Refused(m, status).store = store
    BY DEF Refused, Outcome
  <2> QED BY <2>1, <2>2 DEF process_special_request, Outcome
<1>5. handle_request(m, fails, outcome) # process_special_request(m, outcome)
  BY <1>4
<1>6. /\ decode_standard_request(m) = Status.Ack
      /\ m[StatusByte] = Status.Request /\ Len(m) # SPECIAL_REQ_MSG_SIZE
      /\ handle_request(m, fails, outcome) = process_standard_request(m, fails)
  BY <1>2, <1>3, <1>5 DEF handle_request
<1>7. ReadOutcome(m, fails).store = store
  BY DEF ReadOutcome, Outcome
<1>8. Accepted(m)
  BY <1>2, <1>6 DEF Accepted
<1> QED BY <1>2, <1>6, <1>7, <1>8 DEF process_standard_request, Unanswerable

\* A request that is accepted and reads nothing is a SET under an open
\* connection.
LEMMA AcceptedIsOpen ==
  ASSUME NEW m \in Seq(Nat), decode_standard_request(m) = Status.Ack, ~Reads(m)
  PROVE  enabled /\ m[WishByte] = Wish.Set
<1>1. /\ Status.Ack # Status.ErrorMessageLength /\ Status.Ack # Status.ErrorConnection
      /\ Status.Ack # Status.ErrorWish
  BY DEF Status
<1>2. enabled /\ ~(Len(m) < STD_REQ_MIN_MSG_SIZE - 1) /\ ~(m[WishByte] > Wish.Backup)
  BY <1>1 DEF decode_standard_request
<1>3. 5 \in 1 .. Len(m)
  BY <1>2, LenProperties DEF STD_REQ_MIN_MSG_SIZE, SectionByte
<1>4. m[5] \in Nat
  BY <1>3, ElementOfSeq
<1> QED BY <1>2, <1>4 DEF Reads, Wish, WishByte

\* A position before the first error has none.
LEMMA BeforeErrorIsAck ==
  ASSUME NEW statuses, DOMAIN statuses \subseteq Int, NEW k \in BeforeError(statuses)
  PROVE  k \in DOMAIN statuses /\ statuses[k] = Status.Ack
<1>1. k \in DOMAIN statuses /\ k \in Int
  BY DEF BeforeError
<1> QED BY <1>1 DEF BeforeError

\* A SET changes values of its own section only, and to values in its range.
LEMMA AssignedInRange ==
  ASSUME NEW m, NEW fails, store = [q \in Params |-> store[q]], NEW q \in Params,
         WriteOutcome(m, fails).store[q] # store[q]
  PROVE  /\ q[1] = m[BlockByte] /\ q[2] = m[SectionByte]
         /\ check_new_value(SectionOf(m), WriteOutcome(m, fails).store[q])
<1> DEFINE todo == Assignments(m)
           statuses == [k \in DOMAIN todo |-> WriteStatus(m, todo[k], fails)]
           done == BeforeError(statuses)
           hit == {k \in done : Param(m, todo[k].index) = q /\ q \notin fails}
           k == CHOOSE k \in hit : TRUE
<1>1. WriteOutcome(m, fails).store = Assigned(m, done, fails)
  BY DEF WriteOutcome, Outcome
<1>2. Assigned(m, done, fails)[q] = IF hit = {} THEN store[q] ELSE todo[k].value
  BY DEF Assigned
<1>3. k \in hit /\ WriteOutcome(m, fails).store[q] = todo[k].value
  BY <1>1, <1>2
<1>4. k \in DOMAIN todo /\ WriteStatus(m, todo[k], fails) = Status.Ack
  <2>1. DOMAIN statuses = DOMAIN todo /\ DOMAIN todo \subseteq Int
    <3>1. CASE m[AmountByte] = Amount.Single
      BY <3>1 DEF Assignments
    <3>2. CASE m[AmountByte] # Amount.Single
      <4>1. DOMAIN todo = DOMAIN Answered(m, m[PartByte])
        BY <3>2 DEF Assignments
      <4>2. DOMAIN Answered(m, m[PartByte]) \subseteq Int
        BY <3>2 DEF Answered
      <4> QED BY <4>1, <4>2
    <3> QED BY <3>1, <3>2
  <2>2. k \in DOMAIN statuses /\ statuses[k] = Status.Ack
    BY <1>3, <2>1, BeforeErrorIsAck
  <2> QED BY <2>1, <2>2
<1>5. check_new_value(SectionOf(m), todo[k].value)
  BY <1>4 DEF WriteStatus, Status
<1>6. Param(m, todo[k].index) = q
  BY <1>3
<1> HIDE DEF todo, k, hit
<1> QED BY <1>3, <1>5, <1>6 DEF Param

-----------------------------------------------------------------------------
(* Types.                                                                    *)

LEMMA SubSeqTyped ==
  ASSUME NEW s \in Seq(Nat), NEW i \in Nat \ {0}, NEW n \in 0 .. Len(s)
  PROVE  SubSeq(s, i, n) \in Seq(Nat)
<1>1. \A j \in i .. n : s[j] \in Nat
  BY ElementOfSeq, LenProperties
<1> QED BY <1>1, SubSeqProperties, LenProperties

LEMMA TypedInit == Init => Typed
BY EmptySeq DEF Init, Typed, NoTool

\* What handle_packet() leaves in the buffer.
LEMMA PacketTyped ==
  ASSUME Typed, NEW packet, packet.payload \in Seq(Nat), handle_packet(packet)
  PROVE  response' \in Seq(Nat)
<1>1. Buffer(packet) \in Seq(Nat)
  BY DEF Typed, Buffer, START
<1>2. CASE PacketCollected(packet)
  <2>1. \/ response' = <<>> \/ response' = response
        \/ response' = Buffer(packet) \o packet.payload
    BY <1>2 DEF PacketCollected, reset_ump_message
  <2>2. Buffer(packet) \o packet.payload \in Seq(Nat)
    BY <1>1, ConcatProperties
  <2>3. response \in Seq(Nat)
    BY DEF Typed
  <2> QED BY <2>1, <2>2, <2>3, EmptySeq
<1>3. CASE PacketHandled(packet)
  BY <1>3, EmptySeq DEF PacketHandled, reset_ump_message
<1> QED BY <1>2, <1>3 DEF handle_packet

\* The message that is handled.
LEMMA HandledTyped ==
  ASSUME Typed, NEW packet, packet.payload \in Seq(Nat)
  PROVE  LET m == Append(Buffer(packet) \o packet.payload, END)
         IN m \in Seq(Nat) /\ m # <<>>
<1>1. Buffer(packet) \in Seq(Nat)
  BY DEF Typed, Buffer, START
<1>2. Buffer(packet) \o packet.payload \in Seq(Nat)
  BY <1>1, ConcatProperties
<1> QED BY <1>2, AppendProperties DEF END

LEMMA TypedNext == Typed /\ [Next]_vars => Typed'
<1> SUFFICES ASSUME Typed, [Next]_vars PROVE Typed'
  OBVIOUS
<1>1. ASSUME NEW m \in Seq(Nat), NEW left \in Seq(Nat), NEW starts, ToolSends(m, left, starts)
      PROVE  Typed'
  <2> DEFINE size == IF Len(left) < PacketPayload THEN Len(left) ELSE PacketPayload
             rest == SubSeq(left, size + 1, Len(left))
             packet == [starts |-> starts, ends |-> rest = <<>>,
                        payload |-> SubSeq(left, 1, size)]
  <2>1. size \in 0 .. Len(left) /\ Len(left) \in Nat
    BY SysExAssumption, LenProperties
  <2>2. rest \in Seq(Nat) /\ packet.payload \in Seq(Nat)
    BY <2>1, SubSeqTyped
  <2>3. handle_packet(packet)
    BY <1>1 DEF ToolSends
  <2>4. response' \in Seq(Nat)
    BY <2>2, <2>3, PacketTyped
  <2>5. /\ tool'.message \in Seq(Nat) /\ tool'.left \in Seq(Nat)
        /\ tool' = [message |-> tool'.message, left |-> tool'.left]
    <3>1. tool' = NoTool \/ tool' = [message |-> m, left |-> rest]
      BY <1>1 DEF ToolSends
    <3> HIDE DEF rest
    <3>2. CASE tool' = NoTool
      BY <3>2, EmptySeq DEF NoTool
    <3>3. CASE tool' = [message |-> m, left |-> rest]
      BY <2>2, <3>3
    <3> QED BY <3>1, <3>2, <3>3
  <2>6. layout' = layout
    BY <2>3 DEF handle_packet
  <2>7. store' = [q \in Params |-> store'[q]]
    <3>1. CASE PacketCollected(packet)
      BY <3>1 DEF PacketCollected, Typed
    <3>2. CASE PacketHandled(packet)
      <4> DEFINE h == Append(Buffer(packet) \o packet.payload, END)
      <4>1. PICK fails \in {{}} \cup {{q} : q \in Params}, outcome \in CustomOutcomes :
              store' = handle_request(h, fails, outcome).store
        BY <3>2 DEF PacketHandled
      <4>2. h \in Seq(Nat)
        BY <2>2, HandledTyped
      <4> HIDE DEF h
      <4>3. store' = store \/ store' = WriteOutcome(h, fails).store
        BY <4>1, <4>2, AcceptedSet
      <4> QED BY <4>3 DEF WriteOutcome, Outcome, Assigned, Typed
    <3> QED BY <2>3, <3>1, <3>2 DEF handle_packet
  <2> QED BY <2>4, <2>5, <2>6, <2>7 DEF Typed
<1>2. CASE ToolBegins
  BY <1>1, <1>2, SysExAssumption DEF ToolBegins
<1>3. CASE ToolGoesOn
  BY <1>1, <1>3 DEF ToolGoesOn, Typed
<1>4. CASE OtherPacket
  BY <1>4, EmptySeq DEF OtherPacket, reset_ump_message, Typed
<1>5. CASE AnswersAreRead
  BY <1>5, EmptySeq DEF AnswersAreRead, NoTool, device, Typed
<1>6. ASSUME NEW values \in CustomValues, NEW ack \in BOOLEAN, send_custom_message(values, ack)
      PROVE  Typed'
  <2>1. <<START, OwnId, IF ack THEN Status.Ack ELSE Status.Request, 0>> \in Seq(Nat)
    BY SysExAssumption DEF START, Status
  <2>2. values \in Seq(Nat)
    BY CallersAssumption
  <2>3. response' \in Seq(Nat)
    BY <1>6, <2>1, <2>2, ConcatProperties, AppendProperties DEF send_custom_message, Sent, END
  <2> QED BY <1>6, <2>3 DEF send_custom_message, Typed
<1>7. ASSUME NEW l \in {<<>>, Layout}, set_layout(l) PROVE Typed'
  BY <1>7 DEF set_layout, Typed
<1>8. ASSUME NEW table \in CustomTables, setup_custom_requests(table) PROVE Typed'
  BY <1>8 DEF setup_custom_requests, Typed
<1>9. CASE close_connection
  BY <1>9 DEF close_connection, Typed
<1>10. ASSUME NEW state \in BOOLEAN, set_user_error_ignore_mode(state) PROVE Typed'
  BY <1>10 DEF set_user_error_ignore_mode, Typed
<1>11. CASE reset
  BY <1>11, EmptySeq DEF reset, reset_ump_message, Typed
<1>12. CASE UNCHANGED vars
  BY <1>12 DEF vars, device, Typed
<1> QED
  BY <1>2, <1>3, <1>4, <1>5, <1>6, <1>7, <1>8, <1>9, <1>10, <1>11, <1>12 DEF Next

-----------------------------------------------------------------------------
(* Theorems.                                                                 *)

\* Messages and the layout keep their types, whatever packets arrive.
THEOREM TypesPreserved == Spec => []Typed
<1>1. Init => Typed
  BY TypedInit
<1>2. Typed /\ [Next]_vars => Typed'
  BY TypedNext
<1> QED BY <1>1, <1>2, PTL DEF Spec

\* What one packet may do to the data handler's values.
LEMMA PacketOnlySetsOpen ==
  ASSUME Typed, NEW packet, packet.payload \in Seq(Nat),
         handle_packet(packet), store' # store
  PROVE  /\ event'.handled # <<>> /\ enabled /\ event'.handled[WishByte] = Wish.Set
         /\ \A q \in Params : store'[q] # store[q] =>
              /\ q[1] = event'.handled[BlockByte] /\ q[2] = event'.handled[SectionByte]
              /\ check_new_value(Layout[q[1] + 1][q[2] + 1], store'[q])
<1> DEFINE m == Append(Buffer(packet) \o packet.payload, END)
<1>1. PacketHandled(packet)
  BY DEF handle_packet, PacketCollected
<1>2. PICK fails \in {{}} \cup {{q} : q \in Params}, outcome \in CustomOutcomes :
        /\ store' = handle_request(m, fails, outcome).store
        /\ event' = [handled |-> m, fails |-> fails,
                     replies |-> handle_request(m, fails, outcome).replies]
  BY <1>1 DEF PacketHandled
<1>3. m \in Seq(Nat) /\ m # <<>>
  BY HandledTyped
<1> HIDE DEF m
<1>4. /\ layout # <<>> /\ decode_standard_request(m) = Status.Ack /\ ~Reads(m)
      /\ store' = WriteOutcome(m, fails).store
  BY <1>2, <1>3, AcceptedSet
<1>5. enabled /\ m[WishByte] = Wish.Set
  BY <1>3, <1>4, AcceptedIsOpen
<1>6. ASSUME NEW q \in Params, store'[q] # store[q]
      PROVE  /\ q[1] = m[BlockByte] /\ q[2] = m[SectionByte]
             /\ check_new_value(Layout[q[1] + 1][q[2] + 1], store'[q])
  <2>1. store = [p \in Params |-> store[p]]
    BY DEF Typed
  <2>2. /\ q[1] = m[BlockByte] /\ q[2] = m[SectionByte]
        /\ check_new_value(SectionOf(m), store'[q])
    BY <1>4, <1>6, <2>1, AssignedInRange
  <2>3. layout = Layout
    BY <1>4 DEF Typed
  <2> QED BY <2>2, <2>3 DEF SectionOf
<1>7. event'.handled = m
  BY <1>2
<1> QED BY <1>3, <1>5, <1>6, <1>7

LEMMA ChangesByOpenSet == Typed /\ [Next]_vars => ChangedByOpenSet
<1> SUFFICES ASSUME Typed, [Next]_vars, store' # store
             PROVE  ChangedByOpenSet
  BY DEF ChangedByOpenSet
<1>1. ASSUME NEW m \in Seq(Nat), NEW left \in Seq(Nat), NEW starts,
             ToolSends(m, left, starts)
      PROVE  \E packet : /\ Quiet /\ packet.payload \in Seq(Nat)
                         /\ handle_packet(packet)
  <2> DEFINE size == IF Len(left) < PacketPayload THEN Len(left) ELSE PacketPayload
             packet == [starts |-> starts,
                        ends |-> SubSeq(left, size + 1, Len(left)) = <<>>,
                        payload |-> SubSeq(left, 1, size)]
  <2>1. size \in 0 .. Len(left)
    BY SysExAssumption, LenProperties
  <2>2. packet.payload \in Seq(Nat)
    BY <2>1, SubSeqTyped
  <2>3. Quiet /\ handle_packet(packet)
    BY <1>1 DEF ToolSends
  <2> QED BY <2>2, <2>3
<1>2. ToolBegins \/ ToolGoesOn
  BY DEF Next, vars, OtherPacket, AnswersAreRead, send_custom_message,
     set_layout, setup_custom_requests, close_connection,
     set_user_error_ignore_mode, reset
<1>3. PICK packet : Quiet /\ packet.payload \in Seq(Nat) /\ handle_packet(packet)
  BY <1>1, <1>2, SysExAssumption DEF ToolBegins, ToolGoesOn, Typed
<1> QED BY <1>3, PacketOnlySetsOpen DEF Handles, ChangedByOpenSet

\* The values of the device change only for a SET that is handled while the
\* connection is open, and only to values in the range of their section.
THEOREM OnlyOpenConnectionSets == Spec => OnlyOpenSets
<1>1. Typed /\ [Next]_vars => ChangedByOpenSet
  BY ChangesByOpenSet
<1>2. Spec => []Typed
  BY TypesPreserved
<1> QED BY <1>1, <1>2, PTL DEF Spec, OnlyOpenSets

-----------------------------------------------------------------------------
(* Sequences.                                                                *)

LEMMA FunctionIsSeq ==
  ASSUME NEW S, NEW n \in Nat, NEW f \in [1 .. n -> S]
  PROVE  f \in Seq(S) /\ Len(f) = n
<1>1. f \in Seq(S)
  BY SeqDef
<1>2. 1 .. n = 1 .. Len(f) /\ Len(f) \in Nat
  BY <1>1, LenProperties
<1> QED BY <1>1, <1>2

LEMMA FieldSet ==
  ASSUME NEW S, NEW s \in Seq(S), NEW i \in Nat, 1 <= i, i <= Len(s), NEW e \in S
  PROVE  /\ [s EXCEPT ![i] = e] \in Seq(S) /\ Len([s EXCEPT ![i] = e]) = Len(s)
         /\ [s EXCEPT ![i] = e][i] = e
         /\ \A j \in 1 .. Len(s) : j # i => [s EXCEPT ![i] = e][j] = s[j]
<1>1. i \in 1 .. Len(s)
  BY LenProperties
<1> QED BY <1>1, ExceptSeq

LEMMA TwoFieldsSet ==
  ASSUME NEW S, NEW s \in Seq(S), NEW i \in Nat, 1 <= i, i <= Len(s), NEW a \in S,
         NEW j \in Nat, 1 <= j, j <= Len(s), NEW b \in S, i # j
  PROVE  LET t == [s EXCEPT ![i] = a, ![j] = b]
         IN /\ t \in Seq(S) /\ Len(t) = Len(s) /\ t[i] = a /\ t[j] = b
            /\ \A k \in 1 .. Len(s) : k # i /\ k # j => t[k] = s[k]
<1> DEFINE u == [s EXCEPT ![i] = a]
           t == [u EXCEPT ![j] = b]
<1>1. /\ u \in Seq(S) /\ Len(u) = Len(s) /\ u[i] = a
      /\ \A k \in 1 .. Len(s) : k # i => u[k] = s[k]
  BY FieldSet
<1> HIDE DEF u
<1>2. /\ t \in Seq(S) /\ Len(t) = Len(u) /\ t[j] = b
      /\ \A k \in 1 .. Len(u) : k # j => t[k] = u[k]
  BY <1>1, FieldSet
<1> HIDE DEF t
<1>3. i \in 1 .. Len(s)
  BY LenProperties
<1>4. /\ t \in Seq(S) /\ Len(t) = Len(s) /\ t[i] = a /\ t[j] = b
      /\ \A k \in 1 .. Len(s) : k # i /\ k # j => t[k] = s[k]
  BY <1>1, <1>2, <1>3
<1> QED BY <1>4 DEF t, u

LEMMA FrontIs ==
  ASSUME NEW m \in Seq(Nat), m # <<>>
  PROVE  /\ Front(m) \in Seq(Nat) /\ Len(Front(m)) = Len(m) - 1
         /\ \A i \in 1 .. Len(m) - 1 : Front(m)[i] = m[i]
<1>1. PICK n \in Nat : Len(m) = n + 1
  <2>1. Len(m) \in Nat \ {0}
    BY EmptySeq
  <2>2. Len(m) - 1 \in Nat /\ Len(m) = (Len(m) - 1) + 1
    BY <2>1
  <2> QED BY <2>2
<1>2. \A i \in 1 .. n : m[i] \in Nat
  BY <1>1, ElementOfSeq
<1>3. /\ SubSeq(m, 1, n) \in Seq(Nat)
      /\ Len(SubSeq(m, 1, n)) = IF 1 <= n THEN n - 1 + 1 ELSE 0
      /\ \A i \in 1 .. n - 1 + 1 : SubSeq(m, 1, n)[i] = m[1 + i - 1]
  BY <1>2, SubSeqProperties
<1>4. Len(SubSeq(m, 1, n)) = n /\ \A i \in 1 .. n : SubSeq(m, 1, n)[i] = m[i]
  BY <1>3
<1>5. Len(m) - 1 = n
  BY <1>1
<1>6. Front(m) = SubSeq(m, 1, n)
  BY <1>5 DEF Front
<1> QED BY <1>3, <1>4, <1>5, <1>6

LEMMA WithStatusIs ==
  ASSUME NEW S, NEW m \in Seq(S), NEW status \in S, 3 \in 1 .. Len(m)
  PROVE  /\ WithStatus(m, status) \in Seq(S) /\ Len(WithStatus(m, status)) = Len(m)
         /\ WithStatus(m, status)[StatusByte] = status
         /\ \A i \in 1 .. Len(m) : i # StatusByte => WithStatus(m, status)[i] = m[i]
BY ExceptSeq DEF WithStatus, StatusByte

LEMMA SentIs ==
  ASSUME NEW S, Nat \subseteq S, NEW buffer \in Seq(S)
  PROVE  /\ Sent(buffer) \in Seq(S) /\ Len(Sent(buffer)) = Len(buffer) + 1
         /\ \A i \in 1 .. Len(buffer) : Sent(buffer)[i] = buffer[i]
<1>1. END \in S
  BY DEF END
<1> QED BY <1>1, AppendProperties DEF Sent

\* add_to_response() never goes past the place of the end marker, and drops
\* nothing that fits.
LEMMA AddedFits ==
  ASSUME NEW S, NEW buffer \in Seq(S), NEW values \in Seq(S),
         Len(buffer) <= MAX_MESSAGE_SIZE - 1
  PROVE  /\ Added(buffer, values) \in Seq(S)
         /\ Len(buffer) <= Len(Added(buffer, values))
         /\ Len(Added(buffer, values)) <= MAX_MESSAGE_SIZE - 1
         /\ Len(buffer) + Len(values) <= MAX_MESSAGE_SIZE - 1 =>
              Added(buffer, values) = buffer \o values
<1> DEFINE room == MAX_MESSAGE_SIZE - 1 - Len(buffer)
           n == IF room < Len(values) THEN room ELSE Len(values)
<1>1. /\ Len(buffer) \in Nat /\ Len(values) \in Nat /\ MAX_MESSAGE_SIZE \in Nat
      /\ n \in 0 .. Len(values) /\ n <= room
  BY SysExAssumption, LenProperties
  DEF MAX_MESSAGE_SIZE, STD_REQ_MIN_MSG_SIZE, SectionByte
<1>2. Added(buffer, values) = buffer \o SubSeq(values, 1, n)
  BY DEF Added
<1> HIDE DEF n
<1>3. SubSeq(values, 1, n) \in Seq(S) /\ Len(SubSeq(values, 1, n)) = n
  <2>1. \A i \in 1 .. n : values[i] \in S
    BY <1>1, ElementOfSeq
  <2> QED BY <1>1, <2>1, SubSeqProperties
<1>4. Len(buffer) + Len(values) <= MAX_MESSAGE_SIZE - 1 => n = Len(values)
  BY <1>1 DEF n
<1>5. SubSeq(values, 1, Len(values)) = values
  BY SubSeqFull
<1>6. /\ buffer \o SubSeq(values, 1, n) \in Seq(S)
      /\ Len(buffer \o SubSeq(values, 1, n)) = Len(buffer) + n
  BY <1>3, ConcatProperties
<1>7. /\ Len(buffer) <= Len(Added(buffer, values))
      /\ Len(Added(buffer, values)) <= MAX_MESSAGE_SIZE - 1
  <2> HIDE DEF Added
  <2>1. Len(Added(buffer, values)) = Len(buffer) + n
    BY <1>2, <1>6
  <2>2. n <= MAX_MESSAGE_SIZE - 1 - Len(buffer) /\ n \in Nat
    BY <1>1
  <2> QED BY <1>1, <2>1, <2>2
<1>8. Added(buffer, values) \in Seq(S)
  BY <1>2, <1>6
<1>9. Len(buffer) + Len(values) <= MAX_MESSAGE_SIZE - 1 =>
        Added(buffer, values) = buffer \o values
  BY <1>2, <1>4, <1>5
<1> QED BY <1>7, <1>8, <1>9
-----------------------------------------------------------------------------
(* An accepted request.                                                      *)

\* What decode_standard_request() has checked.
LEMMA AcceptedIs ==
  ASSUME NEW m \in Seq(Nat), Accepted(m), layout \in {<<>>, Layout}
  PROVE  /\ layout = Layout /\ m[IdByte] = OwnId /\ m[StatusByte] = Status.Request
         /\ STD_REQ_MIN_MSG_SIZE - 1 <= Len(m) /\ Len(m) <= MAX_MESSAGE_SIZE
         /\ enabled /\ m[WishByte] \in {Wish.Get, Wish.Set, Wish.Backup}
         /\ m[AmountByte] \in {Amount.Single, Amount.All}
         /\ m[BlockByte] \in 0 .. Len(Layout) - 1
         /\ m[SectionByte] \in 0 .. Len(Layout[m[BlockByte] + 1]) - 1
         /\ check_part(m) /\ Len(m) = generate_message_length(m)
<1>1. /\ ~Unanswerable(m) /\ m[StatusByte] = Status.Request
      /\ decode_standard_request(m) = Status.Ack
  BY DEF Accepted
<1>2. layout = Layout /\ Len(m) <= MAX_MESSAGE_SIZE /\ m[IdByte] = OwnId
  <2>1. Len(m) \in Nat /\ MAX_MESSAGE_SIZE \in Nat
    BY LenProperties, SysExAssumption
    DEF MAX_MESSAGE_SIZE, STD_REQ_MIN_MSG_SIZE, SectionByte
  <2> QED BY <1>1, <2>1 DEF Unanswerable
<1>3. /\ Status.Ack # Status.ErrorMessageLength /\ Status.Ack # Status.ErrorConnection
      /\ Status.Ack # Status.ErrorWish /\ Status.Ack # Status.ErrorBlock
      /\ Status.Ack # Status.ErrorSection /\ Status.Ack # Status.ErrorAmount
      /\ Status.Ack # Status.ErrorPart
  BY DEF Status
<1>4. /\ ~(Len(m) < STD_REQ_MIN_MSG_SIZE - 1) /\ enabled
      /\ ~(m[WishByte] > Wish.Backup) /\ ~(m[BlockByte] >= Len(layout))
      /\ ~(m[SectionByte] >= Len(layout[m[BlockByte] + 1]))
      /\ ~(m[AmountByte] > Amount.All) /\ check_part(m)
      /\ Len(m) = generate_message_length(m)
  BY <1>1, <1>3 DEF decode_standard_request
<1>5. \A i \in 1 .. 8 : m[i] \in Nat
  <2>1. Len(m) \in Nat /\ 8 <= Len(m)
    BY <1>4, LenProperties DEF STD_REQ_MIN_MSG_SIZE, SectionByte
  <2> QED BY <2>1, ElementOfSeq
<1>6. /\ Len(Layout) \in Nat
      /\ \A b \in 1 .. Len(Layout) : Len(Layout[b]) \in Nat
  BY SysExAssumption, LenProperties, ElementOfSeq
<1>7. m[WishByte] \in Nat /\ m[AmountByte] \in Nat /\ m[BlockByte] \in Nat /\ m[SectionByte] \in Nat
  BY <1>5 DEF WishByte, AmountByte, BlockByte, SectionByte
<1>8. m[WishByte] \in {Wish.Get, Wish.Set, Wish.Backup}
  <2>1. m[WishByte] \in Nat /\ ~(m[WishByte] > Wish.Backup)
    BY <1>4, <1>7
  <2> QED BY <2>1 DEF Wish
<1>9. m[AmountByte] \in {Amount.Single, Amount.All}
  <2>1. m[AmountByte] \in Nat /\ ~(m[AmountByte] > Amount.All)
    BY <1>4, <1>7
  <2> QED BY <2>1 DEF Amount
<1>10. m[BlockByte] \in 0 .. Len(Layout) - 1
  BY <1>2, <1>4, <1>6, <1>7
<1>11. m[SectionByte] \in 0 .. Len(Layout[m[BlockByte] + 1]) - 1
  <2>1. /\ m[SectionByte] \in Nat
        /\ ~(m[SectionByte] >= Len(Layout[m[BlockByte] + 1]))
    BY <1>2, <1>4, <1>7
  <2>2. Len(Layout[m[BlockByte] + 1]) \in Nat
    BY <1>6, <1>10
  <2> QED BY <2>1, <2>2
<1>12. STD_REQ_MIN_MSG_SIZE - 1 <= Len(m)
  BY <1>4, LenProperties DEF STD_REQ_MIN_MSG_SIZE, SectionByte
<1> QED BY <1>1, <1>2, <1>4, <1>8, <1>9, <1>10, <1>11, <1>12

\* The section a request is about.
LEMMA SectionTyped ==
  ASSUME layout = Layout, NEW m, m[BlockByte] \in 0 .. Len(Layout) - 1,
         m[SectionByte] \in 0 .. Len(Layout[m[BlockByte] + 1]) - 1
  PROVE  /\ SectionOf(m) \in [count : Nat, min : Nat, max : Nat]
         /\ SectionOf(m).min <= SectionOf(m).max
         /\ SectionOf(m).count <= PART_ALL_MESSAGES_WITH_ACK * PARAMS_PER_MESSAGE
         /\ \A i \in 0 .. SectionOf(m).count - 1 : Param(m, i) \in Params
<1> DEFINE b == m[BlockByte]
           s == m[SectionByte]
<1>1. Len(Layout) \in Nat /\ DOMAIN Layout = 1 .. Len(Layout)
  BY SysExAssumption, LenProperties
<1>2. b + 1 \in 1 .. Len(Layout) /\ b \in 0 .. Len(Layout) - 1
  BY <1>1
<1>3. Layout[b + 1] \in Seq([count : Nat, min : Nat, max : Nat])
  BY <1>2, SysExAssumption, ElementOfSeq
<1>4. Len(Layout[b + 1]) \in Nat /\ DOMAIN Layout[b + 1] = 1 .. Len(Layout[b + 1])
  BY <1>3, LenProperties
<1>5. s + 1 \in 1 .. Len(Layout[b + 1]) /\ s \in 0 .. Len(Layout[b + 1]) - 1
  BY <1>4
<1>6. Layout[b + 1][s + 1] \in [count : Nat, min : Nat, max : Nat]
  BY <1>3, <1>5, ElementOfSeq
<1>7. SectionOf(m) = Layout[b + 1][s + 1]
  BY DEF SectionOf
<1>8. \A i \in 0 .. SectionOf(m).count - 1 : Param(m, i) \in Params
  <2> SUFFICES ASSUME NEW i \in 0 .. Layout[b + 1][s + 1].count - 1
               PROVE  <<b, s, i>> \in Params
    BY <1>7 DEF Param
  <2>1. <<b, s, i>> \in {<<b, s, k>> : k \in 0 .. Layout[b + 1][s + 1].count - 1}
    OBVIOUS
  <2> HIDE DEF b, s
  <2> DEFINE Of(d) == UNION {{<<d, t, k>> : k \in 0 .. Layout[d + 1][t + 1].count - 1} :
                                t \in 0 .. Len(Layout[d + 1]) - 1}
  <2>2. <<b, s, i>> \in Of(b)
    BY <1>5, <2>1
  <2>3. Params = UNION {Of(d) : d \in 0 .. Len(Layout) - 1}
    BY DEF Params
  <2> HIDE DEF Of
  <2> QED BY <1>2, <2>2, <2>3
<1> QED BY <1>1, <1>2, <1>4, <1>5, <1>6, <1>7, <1>8, CallersAssumption

-----------------------------------------------------------------------------
(* The parts of a section.                                                   *)

\* A section has as many parts as its values fill, the last one not always.
LEMMA PartsIs ==
  ASSUME NEW sec \in [count : Nat, min : Nat, max : Nat]
  PROVE  /\ parts(sec) \in Nat
         /\ sec.count <= parts(sec) * PARAMS_PER_MESSAGE
         /\ sec.count > 0 => /\ parts(sec) > 0
                             /\ (parts(sec) - 1) * PARAMS_PER_MESSAGE < sec.count
         /\ sec.count = 0 => parts(sec) = 0
         /\ sec.count <= PART_ALL_MESSAGES_WITH_ACK * PARAMS_PER_MESSAGE =>
              parts(sec) <= PART_ALL_MESSAGES_WITH_ACK
<1> DEFINE P == PARAMS_PER_MESSAGE
           c == sec.count
           q == (c + P - 1) \div P
<1>1. P \in Nat /\ P > 0 /\ c \in Nat
  BY SysExAssumption
<1>2. parts(sec) = q
  BY DEF parts
<1> HIDE DEF P, c
<1>3. q \in Nat /\ q * P <= c + P - 1 /\ c + P - 1 < (q + 1) * P
  BY <1>1
<1> HIDE DEF q
<1>4. (q + 1) * P = q * P + P /\ q * P \in Nat
  BY <1>1, <1>3
<1>5. c <= q * P
  BY <1>1, <1>3, <1>4
<1>6. c > 0 => q > 0 /\ (q - 1) * P < c
  <2>1. q = 0 => q * P = 0
    BY <1>1
  <2>2. (q - 1) * P = q * P - P
    BY <1>1, <1>3
  <2> QED BY <1>1, <1>3, <1>4, <1>5, <2>1, <2>2
<1>7. c = 0 => q = 0
  <2>1. q > 0 => P <= q * P
    BY <1>1, <1>3
  <2> QED BY <1>1, <1>3, <1>4, <2>1
<1>8. c <= 126 * P => q <= 126
  <2>1. q > 126 => 127 * P <= q * P
    BY <1>1, <1>3
  <2>2. 127 * P = 126 * P + P
    BY <1>1
  <2> QED BY <1>1, <1>3, <1>4, <2>1, <2>2
<1> QED BY <1>2, <1>3, <1>5, <1>6, <1>7, <1>8 DEF P, c, PART_ALL_MESSAGES_WITH_ACK

\* How many values a part has: what a SET of it must be long.
LEMMA PartHolds ==
  ASSUME NEW sec \in [count : Nat, min : Nat, max : Nat], NEW part \in Nat,
         part < parts(sec)
  PROVE  /\ Cardinality(IndicesOf(sec, part)) =
              IF sec.count <= PARAMS_PER_MESSAGE THEN sec.count
              ELSE IF part + 1 = parts(sec)
                   THEN sec.count - (parts(sec) - 1) * PARAMS_PER_MESSAGE
                   ELSE PARAMS_PER_MESSAGE
         /\ Cardinality(IndicesOf(sec, part)) \in 1 .. PARAMS_PER_MESSAGE
         /\ PARAMS_PER_MESSAGE * part + Cardinality(IndicesOf(sec, part)) <= sec.count
<1> DEFINE P == PARAMS_PER_MESSAGE
           c == sec.count
           q == parts(sec)
           first == P * part
           last == IF first + P - 1 >= c THEN c - 1 ELSE first + P - 1
           n == Cardinality(IndicesOf(sec, part))
<1>1. P \in Nat /\ P > 0 /\ c \in Nat
  BY SysExAssumption
<1>2. q \in Nat /\ c <= q * P /\ c > 0 /\ (q - 1) * P < c
  BY PartsIs
<1> HIDE DEF P, c, q
<1>3. part + 1 <= q /\ part \in Nat
  BY <1>2 DEF q
<1>4. /\ first \in Nat /\ q * P \in Nat /\ (q - 1) * P = q * P - P
      /\ (part + 1) * P = first + P /\ (part + 1) * P <= q * P
  BY <1>1, <1>2, <1>3
<1>5. part + 1 # q => (part + 2) * P <= q * P /\ (part + 2) * P = first + P + P
  BY <1>1, <1>2, <1>3
<1>6. c <= P => part = 0 /\ first = 0
  <2>1. part > 0 => P <= first
    BY <1>1, <1>3
  <2>2. part = 0 => first = 0
    BY <1>1
  <2> QED BY <1>1, <1>2, <1>3, <1>4, <2>1, <2>2
<1>7. part + 1 = q => first = (q - 1) * P
  BY <1>1, <1>2, <1>3, <1>4
<1> HIDE DEF first
<1>8. first < c
  BY <1>1, <1>2, <1>4
<1>9. n = last - first + 1
  <2>1. IndicesOf(sec, part) = first .. last
    BY DEF IndicesOf, first, P, c
  <2>2. first \in Int /\ last \in Int /\ first <= last
    BY <1>1, <1>4, <1>8
  <2> HIDE DEF last
  <2> QED BY <2>1, <2>2, FS_Interval
<1> HIDE DEF n
<1>10. n \in 1 .. P /\ first + n <= c
  BY <1>1, <1>4, <1>8, <1>9
<1>11. CASE c <= P
  BY <1>1, <1>6, <1>9, <1>10, <1>11 DEF n, P, c, first
<1>12. CASE ~(c <= P) /\ part + 1 = q
  <2>1. n = c - (q - 1) * P
    BY <1>1, <1>2, <1>4, <1>7, <1>9, <1>12
  <2> QED BY <1>10, <1>12, <2>1 DEF n, P, c, q, first
<1>13. CASE ~(c <= P) /\ part + 1 # q
  <2>1. n = P
    BY <1>1, <1>2, <1>4, <1>5, <1>9, <1>13
  <2> QED BY <1>10, <1>13, <2>1 DEF n, P, c, q, first
<1> QED BY <1>11, <1>12, <1>13

\* The values a whole part carries.
LEMMA AnsweredIs ==
  ASSUME NEW m, NEW part \in Nat, m[AmountByte] # Amount.Single,
         SectionOf(m) \in [count : Nat, min : Nat, max : Nat], part < parts(SectionOf(m))
  PROVE  LET n == Cardinality(IndicesOf(SectionOf(m), part))
         IN /\ n \in 1 .. PARAMS_PER_MESSAGE
            /\ DOMAIN Answered(m, part) = 1 .. n /\ Len(Answered(m, part)) = n
            /\ \A k \in 1 .. n : /\ Answered(m, part)[k] = PARAMS_PER_MESSAGE * part + k - 1
                                 /\ Answered(m, part)[k] \in 0 .. SectionOf(m).count - 1
<1> DEFINE n == Cardinality(IndicesOf(SectionOf(m), part))
           P == PARAMS_PER_MESSAGE
<1>1. n \in 1 .. P /\ P * part + n <= SectionOf(m).count
  BY PartHolds
<1>2. P \in Nat /\ P * part \in Nat /\ SectionOf(m).count \in Nat
  BY SysExAssumption
<1>3. Answered(m, part) = [k \in 1 .. n |-> P * part + k - 1]
  BY DEF Answered
<1> HIDE DEF n, P
<1>4. \A k \in 1 .. n : P * part + k - 1 \in 0 .. SectionOf(m).count - 1
  BY <1>1, <1>2
<1>5. Len(Answered(m, part)) = n
  <2>1. [k \in 1 .. n |-> P * part + k - 1] \in [1 .. n -> Int]
    BY <1>2
  <2> QED BY <1>1, <1>2, <1>3, <2>1, FunctionIsSeq
<1> QED BY <1>1, <1>3, <1>4, <1>5 DEF n, P
-----------------------------------------------------------------------------
(* Answers fit in the buffer.                                                *)

\* The values before the first error are counted, not more than there are.
LEMMA GoodIs ==
  ASSUME NEW n \in Nat, NEW statuses, DOMAIN statuses = 1 .. n
  PROVE  LET good == Cardinality(BeforeError(statuses))
         IN /\ good \in 0 .. n
            /\ good = n => \A k \in 1 .. n : statuses[k] = Status.Ack
            /\ (\A k \in 1 .. n : statuses[k] = Status.Ack) =>
                 good = n /\ BeforeError(statuses) = 1 .. n
<1> DEFINE before == BeforeError(statuses)
<1>1. IsFiniteSet(1 .. n) /\ Cardinality(1 .. n) = n
  BY FS_Interval
<1>2. before \in SUBSET (1 .. n)
  BY DEF BeforeError
<1>3. \A k \in before : statuses[k] = Status.Ack
  <2>1. DOMAIN statuses \subseteq Int
    OBVIOUS
  <2> QED BY <2>1, BeforeErrorIsAck
<1>4. (\A k \in 1 .. n : statuses[k] = Status.Ack) => before = 1 .. n
  BY DEF BeforeError
<1> HIDE DEF before
<1>5. IsFiniteSet(before) /\ Cardinality(before) <= n /\ (Cardinality(before) = n => before = 1 .. n)
  <2> DEFINE positions == 1 .. n
  <2>1. IsFiniteSet(positions) /\ Cardinality(positions) = n /\ before \in SUBSET positions
    BY <1>1, <1>2
  <2> HIDE DEF positions
  <2>2. IsFiniteSet(before) /\ Cardinality(before) <= n /\ (Cardinality(before) = n => before = positions)
    BY <2>1, FS_Subset
  <2> QED BY <2>2 DEF positions
<1>6. Cardinality(before) \in Nat
  BY <1>5, FS_CardinalityType
<1> QED BY <1>1, <1>3, <1>4, <1>5, <1>6 DEF before

LEMMA StatusesTyped ==
  /\ \A s \in DOMAIN Status : Status[s] \in Nat
  /\ Status.Ack \in Nat /\ Status.Request \in Nat
BY DEF Status

LEMMA BufferSize == MAX_MESSAGE_SIZE \in Nat /\ MAX_MESSAGE_SIZE >= 12
BY SysExAssumption DEF MAX_MESSAGE_SIZE, STD_REQ_MIN_MSG_SIZE, SectionByte

\* An error takes the place of the request's status.
LEMMA RefusedFits ==
  ASSUME NEW m \in Seq(Nat), SPECIAL_REQ_MSG_SIZE <= Len(m), Len(m) <= MAX_MESSAGE_SIZE,
         NEW status \in Nat
  PROVE  /\ Sent(WithStatus(Front(m), status)) \in Seq(Nat)
         /\ Len(Sent(WithStatus(Front(m), status))) = Len(m)
         /\ Sent(WithStatus(Front(m), status))[StatusByte] = status
         /\ WithStatus(Front(m), status) \in Seq(Nat)
         /\ Len(WithStatus(Front(m), status)) = Len(m) - 1
<1>1. Len(m) \in Nat /\ 6 <= Len(m)
  BY LenProperties DEF SPECIAL_REQ_MSG_SIZE, WishByte
<1>2. Front(m) \in Seq(Nat) /\ Len(Front(m)) = Len(m) - 1
  <2>1. m # <<>>
    BY <1>1, EmptySeq
  <2> QED BY <2>1, FrontIs
<1>3. 3 \in 1 .. Len(Front(m))
  BY <1>1, <1>2
<1>4. /\ WithStatus(Front(m), status) \in Seq(Nat)
      /\ Len(WithStatus(Front(m), status)) = Len(m) - 1
      /\ WithStatus(Front(m), status)[StatusByte] = status
  BY <1>2, <1>3, WithStatusIs
<1>5. StatusByte \in 1 .. Len(WithStatus(Front(m), status))
  BY <1>1, <1>4 DEF StatusByte
<1>6. /\ Sent(WithStatus(Front(m), status)) \in Seq(Nat)
      /\ Len(Sent(WithStatus(Front(m), status))) = Len(m) - 1 + 1
      /\ Sent(WithStatus(Front(m), status))[StatusByte] = status
  BY <1>4, <1>5, SentIs
<1> QED BY <1>1, <1>4, <1>6

\* Requests that concern the connection, and the application's own.
LEMMA SpecialFits ==
  ASSUME NEW m \in Seq(Nat), Len(m) = SPECIAL_REQ_MSG_SIZE,
         NEW outcome \in CustomOutcomes, enabled \in BOOLEAN
  PROVE  /\ \A j \in DOMAIN process_special_request(m, outcome).replies :
              Len(process_special_request(m, outcome).replies[j]) <= MAX_MESSAGE_SIZE
         /\ process_special_request(m, outcome).enabled \in BOOLEAN
<1> DEFINE result == process_special_request(m, outcome)
           ok == WithStatus(Front(m), Status.Ack)
           Fits(r) == /\ \A j \in DOMAIN r.replies : Len(r.replies[j]) <= MAX_MESSAGE_SIZE
                      /\ r.enabled \in BOOLEAN
<1>1. Len(m) = 6 /\ SPECIAL_REQ_MSG_SIZE = 6
  BY DEF SPECIAL_REQ_MSG_SIZE, WishByte
<1>0. ASSUME NEW t, Len(t) <= MAX_MESSAGE_SIZE, NEW open \in BOOLEAN
      PROVE  Fits(Outcome(<<t>>, store, open))
  BY <1>0 DEF Outcome
<1>2. ASSUME NEW status \in Nat
      PROVE  /\ Fits(Refused(m, status))
             /\ WithStatus(Front(m), status) \in Seq(Nat) /\ Len(WithStatus(Front(m), status)) = 5
  <2>1. SPECIAL_REQ_MSG_SIZE <= Len(m) /\ Len(m) <= MAX_MESSAGE_SIZE
    BY <1>1, BufferSize
  <2>2. /\ Len(Sent(WithStatus(Front(m), status))) = Len(m)
        /\ WithStatus(Front(m), status) \in Seq(Nat)
        /\ Len(WithStatus(Front(m), status)) = Len(m) - 1
    BY <2>1, RefusedFits
  <2>3. Fits(Outcome(<<Sent(WithStatus(Front(m), status))>>, store, enabled))
    BY <1>0, <2>1, <2>2
  <2> HIDE DEF Fits
  <2> QED BY <1>1, <2>2, <2>3 DEF Refused
<1>3. ASSUME NEW extra \in Seq(Nat), Len(extra) <= 1, NEW open \in BOOLEAN
      PROVE  Fits(Outcome(<<Sent(ok \o extra)>>, store, open))
  <2>1. ok \in Seq(Nat) /\ Len(ok) = 5
    BY <1>2, StatusesTyped
  <2> HIDE DEF ok
  <2>2. ok \o extra \in Seq(Nat) /\ Len(ok \o extra) = 5 + Len(extra)
    <3>1. ok \o extra \in Seq(Nat) /\ Len(ok \o extra) = Len(ok) + Len(extra)
      BY <2>1, ConcatProperties
    <3> QED BY <2>1, <3>1
  <2>3. Len(Sent(ok \o extra)) = 5 + Len(extra) + 1
    BY <2>2, SentIs
  <2>4. Len(extra) \in Nat
    BY LenProperties
  <2> HIDE DEF Fits
  <2> QED BY <1>0, <1>3, <2>3, <2>4, BufferSize
<1>4. Fits(CustomAnswer(m, outcome))
  <2> DEFINE overflowed == Len(Front(m)) + Len(outcome.values) >= MAX_MESSAGE_SIZE
             status == IF overflowed THEN Status.ErrorRead
                       ELSE IF outcome.result = Status.Request THEN Status.ErrorStatus
                       ELSE outcome.result
             built == Added(WithStatus(Front(m), status), outcome.values)
  <2>1. outcome.result \in Nat /\ outcome.values \in Seq(Nat)
    BY SysExAssumption
  <2>2. Status.ErrorRead \in Nat /\ Status.ErrorStatus \in Nat
    BY DEF Status
  <2>3. status \in Nat
    BY <2>1, <2>2
  <2>4. CustomAnswer(m, outcome) = Outcome(<<Sent(built)>>, store, enabled)
    BY DEF CustomAnswer
  <2> HIDE DEF status
  <2>5. WithStatus(Front(m), status) \in Seq(Nat) /\ Len(WithStatus(Front(m), status)) = 5
    BY <1>2, <2>3
  <2>6. built \in Seq(Nat) /\ Len(built) <= MAX_MESSAGE_SIZE - 1
    <3>1. Len(WithStatus(Front(m), status)) <= MAX_MESSAGE_SIZE - 1
      BY <2>5, BufferSize
    <3> QED BY <2>1, <2>5, <3>1, AddedFits
  <2> HIDE DEF built
  <2>7. Len(Sent(built)) = Len(built) + 1 /\ Len(built) \in Nat
    BY <2>6, SentIs, LenProperties
  <2>8. Len(Sent(built)) <= MAX_MESSAGE_SIZE
    BY <2>6, <2>7, BufferSize
  <2> HIDE DEF Fits
  <2> QED BY <1>0, <2>4, <2>8
<1>5. Status.ErrorConnection \in Nat /\ Status.ErrorWish \in Nat
  BY DEF Status
<1>6. Fits(Refused(m, Status.ErrorConnection)) /\ Fits(Refused(m, Status.ErrorWish))
  BY <1>2, <1>5
<1>7. /\ <<>> \in Seq(Nat) /\ Len(<<>>) <= 1
      /\ \A x \in Nat : <<x>> \in Seq(Nat) /\ Len(<<x>>) <= 1
  BY EmptySeq
<1>8. /\ \A open \in BOOLEAN : Fits(Outcome(<<Sent(ok \o <<>>)>>, store, open))
      /\ \A x \in Nat : Fits(Outcome(<<Sent(ok \o <<x>>)>>, store, enabled))
  BY <1>3, <1>7
<1> DEFINE x == IF m[WishByte] = SpecialRequest.BytesPerValue THEN 2 ELSE PARAMS_PER_MESSAGE
<1>9. x \in Nat
  BY SysExAssumption
<1>10. \/ result \in {Refused(m, Status.ErrorConnection), Refused(m, Status.ErrorWish),
                      CustomAnswer(m, outcome)}
       \/ \E open \in BOOLEAN : result = Outcome(<<Sent(ok \o <<>>)>>, store, open)
       \/ result = Outcome(<<Sent(ok \o <<x>>)>>, store, enabled)
  <2> HIDE DEF Fits, ok
  <2> DEFINE wish == m[WishByte]
  <2>1. CASE wish = SpecialRequest.ConnOpen
    <3>1. result = Outcome(<<Sent(ok \o <<>>)>>, store, TRUE)
      BY <2>1 DEF process_special_request, SpecialRequest, ok
    <3> QED BY <3>1
  <2>2. CASE wish = SpecialRequest.ConnClose
    <3>1. result = IF enabled THEN Outcome(<<Sent(ok \o <<>>)>>, store, FALSE)
                   ELSE Refused(m, Status.ErrorConnection)
      BY <2>2 DEF process_special_request, SpecialRequest, ok
    <3> QED BY <3>1
  <2>3. CASE wish \in {SpecialRequest.BytesPerValue, SpecialRequest.ParamsPerMessage}
    BY <2>3 DEF process_special_request, SpecialRequest, ok
  <2>4. CASE wish \notin {SpecialRequest.ConnOpen, SpecialRequest.ConnClose,
                         SpecialRequest.BytesPerValue, SpecialRequest.ParamsPerMessage}
    BY <2>4 DEF process_special_request
  <2> QED BY <2>1, <2>2, <2>3, <2>4
<1> HIDE DEF Fits, result, ok, x
<1>11. Fits(result)
  BY <1>4, <1>6, <1>8, <1>9, <1>10
<1> QED BY <1>11 DEF Fits, result
\* What an answer to a reading request starts with.
LEMMA AnswerBaseFits ==
  ASSUME NEW m \in Seq(Nat), Len(m) = STD_REQ_MIN_MSG_SIZE, NEW part \in Nat
  PROVE  LET base == IF AsksWhole(m) THEN [AnswerBase(m) EXCEPT ![PartByte] = part]
                     ELSE AnswerBase(m)
         IN base \in Seq(Nat) /\ 8 <= Len(base) /\ Len(base) <= 10
<1>1. Len(m) = 11 /\ \A i \in 1 .. 8 : i \in 1 .. Len(m)
  <2>1. Len(m) = 11
    BY DEF STD_REQ_MIN_MSG_SIZE, SectionByte
  <2> QED BY <2>1
<1>2. AnswerBase(m) \in Seq(Nat) /\ 8 <= Len(AnswerBase(m)) /\ Len(AnswerBase(m)) <= 10
  <2>1. CASE m[WishByte] = Wish.Backup
    <3> DEFINE head == SubSeq(m, 1, SectionByte)
               answer == [head EXCEPT ![StatusByte] = Status.Request, ![WishByte] = Wish.Set]
    <3>1. head \in Seq(Nat) /\ Len(head) = 8
      <4>1. \A i \in 1 .. 8 : m[i] \in Nat
        BY <1>1, ElementOfSeq
      <4> QED BY <4>1, SubSeqProperties DEF SectionByte
    <3> HIDE DEF head
    <3>2. /\ StatusByte \in Nat /\ 1 <= StatusByte /\ StatusByte <= Len(head)
          /\ WishByte \in Nat /\ 1 <= WishByte /\ WishByte <= Len(head)
          /\ StatusByte # WishByte
      BY <3>1 DEF StatusByte, WishByte
    <3>3. Status.Request \in Nat /\ Wish.Set \in Nat
      BY DEF Status, Wish
    <3>4. answer \in Seq(Nat) /\ Len(answer) = Len(head)
      <4> DEFINE i == StatusByte
                 j == WishByte
                 a == Status.Request
                 b == Wish.Set
                 S == Nat
      <4>1. /\ i \in Nat /\ 1 <= i /\ i <= Len(head) /\ a \in S
            /\ j \in Nat /\ 1 <= j /\ j <= Len(head) /\ b \in S /\ i # j
            /\ head \in Seq(S)
        BY <3>1, <3>2, <3>3
      <4> HIDE DEF i, j, a, b, S
      <4>2. /\ [head EXCEPT ![i] = a, ![j] = b] \in Seq(S)
            /\ Len([head EXCEPT ![i] = a, ![j] = b]) = Len(head)
        BY <4>1, TwoFieldsSet
      <4> QED BY <4>2 DEF i, j, a, b, S
    <3>5. AnswerBase(m) = answer
      BY <2>1 DEF AnswerBase, head
    <3> HIDE DEF answer
    <3>6. Len(AnswerBase(m)) = 8
      BY <3>1, <3>4, <3>5
    <3>7. 8 <= Len(AnswerBase(m)) /\ Len(AnswerBase(m)) <= 10
      BY <3>6
    <3>8. AnswerBase(m) \in Seq(Nat)
      BY <3>4, <3>5
    <3> QED BY <3>7, <3>8
  <2>2. CASE m[WishByte] # Wish.Backup
    <3>1. SPECIAL_REQ_MSG_SIZE <= Len(m) /\ Len(m) <= MAX_MESSAGE_SIZE
      BY <1>1, BufferSize DEF SPECIAL_REQ_MSG_SIZE, WishByte
    <3>2. /\ WithStatus(Front(m), Status.Ack) \in Seq(Nat)
          /\ Len(WithStatus(Front(m), Status.Ack)) = 10
      <4>1. /\ WithStatus(Front(m), Status.Ack) \in Seq(Nat)
            /\ Len(WithStatus(Front(m), Status.Ack)) = Len(m) - 1
        BY <3>1, StatusesTyped, RefusedFits
      <4> QED BY <1>1, <4>1
    <3>3. AnswerBase(m) = WithStatus(Front(m), Status.Ack)
      BY <2>2 DEF AnswerBase
    <3>4. AnswerBase(m) \in Seq(Nat)
      BY <3>2, <3>3
    <3>5. Len(AnswerBase(m)) = 10
      BY <3>2, <3>3
    <3>6. 8 <= Len(AnswerBase(m)) /\ Len(AnswerBase(m)) <= 10
      BY <3>5
    <3> QED BY <3>4, <3>6
  <2> QED BY <2>1, <2>2
<1>3. /\ [AnswerBase(m) EXCEPT ![PartByte] = part] \in Seq(Nat)
      /\ Len([AnswerBase(m) EXCEPT ![PartByte] = part]) = Len(AnswerBase(m))
  <2>1. PartByte \in 1 .. Len(AnswerBase(m))
    <3>1. Len(AnswerBase(m)) \in Nat
      BY <1>2, LenProperties
    <3> QED BY <1>2, <3>1 DEF PartByte
  <2> QED BY <1>2, <2>1, ExceptSeq
<1> QED BY <1>2, <1>3

\* How many parameters an answer may carry.
LEMMA AnsweredCount ==
  ASSUME NEW m, NEW part \in Nat, SectionOf(m) \in [count : Nat, min : Nat, max : Nat]
  PROVE  Len(Answered(m, part)) \in Nat /\ DOMAIN Answered(m, part) = 1 .. Len(Answered(m, part))
<1>1. CASE m[AmountByte] = Amount.Single
  <2>1. Answered(m, part) = <<m[IndexByte]>>
    BY <1>1 DEF Answered
  <2> QED BY <2>1
<1>2. CASE m[AmountByte] # Amount.Single
  <2> DEFINE indices == IndicesOf(SectionOf(m), part)
             n == Cardinality(indices)
             number(k) == PARAMS_PER_MESSAGE * part + k - 1
  <2>1. PARAMS_PER_MESSAGE * part \in Nat /\ SectionOf(m).count \in Nat /\ PARAMS_PER_MESSAGE \in Nat
    BY SysExAssumption
  <2>2. n \in Nat
    <3>1. \A a, b \in Int : IsFiniteSet(a .. b)
      BY FS_Interval
    <3>2. IsFiniteSet(indices)
      BY <2>1, <3>1 DEF IndicesOf
    <3> QED BY <3>2, FS_CardinalityType
  <2>3. Answered(m, part) = [k \in 1 .. n |-> number(k)]
    BY <1>2 DEF Answered
  <2> HIDE DEF n
  <2>4. [k \in 1 .. n |-> number(k)] \in [1 .. n -> {number(k) : k \in 1 .. n}]
    OBVIOUS
  <2> HIDE DEF number
  <2> QED BY <2>2, <2>3, <2>4, FunctionIsSeq
<1> QED BY <1>1, <1>2

\* An answer to a reading request, whatever the data handler gives.
LEMMA PartAnswerFits ==
  ASSUME NEW m \in Seq(Nat), Len(m) = STD_REQ_MIN_MSG_SIZE, NEW part \in Nat, NEW fails,
         SectionOf(m) \in [count : Nat, min : Nat, max : Nat]
  PROVE  Len(PartAnswer(m, part, fails).message) <= MAX_MESSAGE_SIZE
<1> DEFINE indices == Answered(m, part)
           n == Len(indices)
           statuses == [k \in DOMAIN indices |-> ReadStatus(m, indices[k], fails)]
           good == Cardinality(BeforeError(statuses))
           value(k) == ReadValue(m, indices[k], fails)
           values == [k \in 1 .. good |-> value(k)]
           base == IF AsksWhole(m) THEN [AnswerBase(m) EXCEPT ![PartByte] = part]
                   ELSE AnswerBase(m)
           S == Nat \cup {value(k) : k \in 1 .. good}
           read == Added(base, values)
           full == IF good = n THEN read ELSE WithStatus(read, statuses[good + 1])
<1>1. PartAnswer(m, part, fails).message = Sent(full)
  BY DEF PartAnswer
<1>2. n \in Nat /\ DOMAIN indices = 1 .. n
  BY AnsweredCount
<1>3. good \in 0 .. n
  <2>1. DOMAIN statuses = 1 .. n
    BY <1>2
  <2> HIDE DEF statuses, n
  <2> QED BY <1>2, <2>1, GoodIs
<1>4. good # n => statuses[good + 1] \in Nat
  <2>1. good # n => good + 1 \in DOMAIN indices
    BY <1>2, <1>3
  <2>2. \A i : ReadStatus(m, i, fails) \in Nat
    BY DEF ReadStatus, Status
  <2> HIDE DEF good, indices
  <2> QED BY <2>1, <2>2
<1>5. base \in Seq(Nat) /\ 8 <= Len(base) /\ Len(base) <= 10
  BY AnswerBaseFits
<1> HIDE DEF base, good, statuses
<1>6. values \in Seq(S)
  <2>1. values \in [1 .. good -> S]
    OBVIOUS
  <2> HIDE DEF values, S
  <2> QED BY <1>3, <2>1, FunctionIsSeq
<1>7. base \in Seq(S) /\ Nat \subseteq S
  <2>1. Nat \subseteq S
    OBVIOUS
  <2> HIDE DEF S
  <2> QED BY <1>5, <2>1, SeqMonotonic
<1> HIDE DEF values, S
<1>8. read \in Seq(S) /\ 8 <= Len(read) /\ Len(read) <= MAX_MESSAGE_SIZE - 1
  <2>0. Len(base) \in Nat
    BY <1>5, LenProperties
  <2>1. Len(base) <= MAX_MESSAGE_SIZE - 1
    BY <1>5, <2>0, BufferSize
  <2>2. read \in Seq(S) /\ Len(base) <= Len(read) /\ Len(read) <= MAX_MESSAGE_SIZE - 1
    BY <1>6, <1>7, <2>1, AddedFits
  <2>3. Len(read) \in Nat
    BY <2>2, LenProperties
  <2> QED BY <1>5, <2>0, <2>2, <2>3
<1> HIDE DEF read
<1>9. full \in Seq(S) /\ Len(full) = Len(read)
  <2>1. CASE good = n
    BY <1>8, <2>1
  <2>2. CASE good # n
    <3>1. 3 \in 1 .. Len(read)
      BY <1>8, LenProperties
    <3>2. statuses[good + 1] \in S
      BY <1>4, <1>7, <2>2
    <3>3. /\ WithStatus(read, statuses[good + 1]) \in Seq(S)
          /\ Len(WithStatus(read, statuses[good + 1])) = Len(read)
      BY <1>8, <3>1, <3>2, WithStatusIs
    <3> QED BY <2>2, <3>3
  <2> QED BY <2>1, <2>2
<1> HIDE DEF full
<1>10. Len(Sent(full)) = Len(full) + 1 /\ Len(full) \in Nat
  BY <1>7, <1>9, SentIs, LenProperties
<1> QED BY <1>1, <1>8, <1>9, <1>10, BufferSize
\* The parts that are answered.
LEMMA AnsweredPartsIs ==
  ASSUME NEW m \in Seq(Nat), Len(m) = STD_REQ_MIN_MSG_SIZE,
         SectionOf(m) \in [count : Nat, min : Nat, max : Nat]
  PROVE  /\ Len(AnsweredParts(m)) \in Nat /\ DOMAIN AnsweredParts(m) = 1 .. Len(AnsweredParts(m))
         /\ \A j \in DOMAIN AnsweredParts(m) : AnsweredParts(m)[j] \in Nat
         /\ AsksWhole(m) => \A j \in DOMAIN AnsweredParts(m) :
                              AnsweredParts(m)[j] < parts(SectionOf(m))
         /\ ~AsksWhole(m) => \A j \in DOMAIN AnsweredParts(m) : AnsweredParts(m)[j] = m[PartByte]
<1>1. CASE AsksWhole(m)
  <2> DEFINE n == parts(SectionOf(m))
  <2>1. n \in Nat
    BY PartsIs
  <2>2. AnsweredParts(m) = [j \in 1 .. n |-> j - 1]
    BY <1>1 DEF AnsweredParts
  <2> HIDE DEF n
  <2>3. [j \in 1 .. n |-> j - 1] \in [1 .. n -> Nat]
    BY <2>1
  <2>4. Len(AnsweredParts(m)) = n
    BY <2>1, <2>2, <2>3, FunctionIsSeq
  <2>5. \A j \in 1 .. n : j - 1 \in Nat /\ j - 1 < n
    BY <2>1
  <2> QED BY <1>1, <2>1, <2>2, <2>4, <2>5 DEF n
<1>2. CASE ~AsksWhole(m)
  <2>1. AnsweredParts(m) = <<m[PartByte]>>
    BY <1>2 DEF AnsweredParts
  <2>2. m[PartByte] \in Nat
    <3>1. Len(m) = 11
      BY DEF STD_REQ_MIN_MSG_SIZE, SectionByte
    <3>2. 4 \in 1 .. Len(m)
      BY <3>1
    <3> QED BY <3>2, ElementOfSeq DEF PartByte
  <2> QED BY <1>2, <2>1, <2>2
<1> QED BY <1>1, <1>2

\* The answers to GET and BACKUP.
LEMMA ReadFits ==
  ASSUME NEW m \in Seq(Nat), Len(m) = STD_REQ_MIN_MSG_SIZE, NEW fails,
         SectionOf(m) \in [count : Nat, min : Nat, max : Nat],
         NEW j \in DOMAIN ReadOutcome(m, fails).replies
  PROVE  Len(ReadOutcome(m, fails).replies[j]) <= MAX_MESSAGE_SIZE
<1> DEFINE chosen == AnsweredParts(m)
           answers == [i \in DOMAIN chosen |-> PartAnswer(m, chosen[i], fails)]
           verdicts == [i \in DOMAIN answers |-> answers[i].status]
           good == Cardinality(BeforeError(verdicts))
           complete == good = Len(answers)
           count == IF complete THEN good ELSE good + 1
           sent == [i \in 1 .. count |-> answers[i].message]
           n == Len(chosen)
           S == {answers[i].message : i \in 1 .. count} \cup {FinalAck(m)}
           replies == ReadOutcome(m, fails).replies
<1>1. n \in Nat /\ DOMAIN chosen = 1 .. n /\ \A i \in DOMAIN chosen : chosen[i] \in Nat
  BY AnsweredPartsIs
<1>2. replies = IF complete /\ m[PartByte] = PART_ALL_MESSAGES_WITH_ACK
                THEN Append(sent, FinalAck(m)) ELSE sent
  BY DEF ReadOutcome, Outcome
<1>3. Len(answers) = n /\ DOMAIN answers = 1 .. n
  <2>1. answers \in [1 .. n -> {answers[i] : i \in 1 .. n}]
    BY <1>1
  <2> HIDE DEF n, answers
  <2> QED BY <1>1, <2>1, FunctionIsSeq
<1>4. good \in 0 .. n
  <2>1. DOMAIN verdicts = 1 .. n
    BY <1>3
  <2> HIDE DEF verdicts, n
  <2> QED BY <1>1, <2>1, GoodIs
<1>5. count \in Nat /\ \A i \in 1 .. count : i \in 1 .. n
  <2> HIDE DEF good, n, answers
  <2> QED BY <1>1, <1>3, <1>4
<1>6. \A i \in 1 .. count : Len(answers[i].message) <= MAX_MESSAGE_SIZE
  <2> TAKE i \in 1 .. count
  <2>1. i \in DOMAIN chosen /\ chosen[i] \in Nat
    BY <1>1, <1>5
  <2>2. answers[i].message = PartAnswer(m, chosen[i], fails).message
    BY <2>1
  <2> HIDE DEF answers, chosen
  <2> QED BY <2>1, <2>2, PartAnswerFits
<1>7. Len(FinalAck(m)) <= MAX_MESSAGE_SIZE
  <2>1. Len(FinalAck(m)) = 11
    BY DEF FinalAck
  <2> QED BY <2>1, BufferSize
<1> HIDE DEF answers, count, complete
<1>8. sent \in Seq(S) /\ Len(sent) = count
  <2>1. sent \in [1 .. count -> S]
    OBVIOUS
  <2> HIDE DEF sent, S
  <2> QED BY <1>5, <2>1, FunctionIsSeq
<1>9. replies \in Seq(S)
  <2>1. FinalAck(m) \in S
    OBVIOUS
  <2>2. Append(sent, FinalAck(m)) \in Seq(S)
    <3> HIDE DEF S, sent
    <3> QED BY <1>8, <2>1, AppendProperties
  <2> HIDE DEF S, sent, replies
  <2> QED BY <1>2, <1>8, <2>2
<1>10. replies[j] \in S
  <2> HIDE DEF S, replies
  <2>1. j \in DOMAIN replies
    BY DEF replies
  <2> QED BY <1>9, <2>1, ElementOfSeq, LenProperties
<1> HIDE DEF replies
<1>11. Len(replies[j]) <= MAX_MESSAGE_SIZE
  BY <1>6, <1>7, <1>10
<1> QED BY <1>11 DEF replies

\* What an accepted SET of a part is long, and asks for.
LEMMA PartAssignments ==
  ASSUME NEW m \in Seq(Nat), Accepted(m), ~Reads(m), layout \in {<<>>, Layout},
         m[AmountByte] # Amount.Single
  PROVE  LET part == m[PartByte]
             n == Cardinality(IndicesOf(SectionOf(m), part))
         IN /\ part \in Nat /\ n \in Nat /\ Len(m) = SectionByte + 1 + n
            /\ DOMAIN Assignments(m) = 1 .. n
            /\ \A k \in 1 .. n :
                 /\ Assignments(m)[k].index = PARAMS_PER_MESSAGE * part + k - 1
                 /\ Assignments(m)[k].index \in 0 .. SectionOf(m).count - 1
                 /\ Assignments(m)[k].value = m[SectionByte + k]
                 /\ m[SectionByte + k] \in Nat
<1> DEFINE sec == SectionOf(m)
           part == m[PartByte]
           n == Cardinality(IndicesOf(sec, part))
           indices == Answered(m, part)
<1>1. /\ layout = Layout /\ check_part(m) /\ Len(m) = generate_message_length(m)
      /\ m[BlockByte] \in 0 .. Len(Layout) - 1 /\ STD_REQ_MIN_MSG_SIZE - 1 <= Len(m)
      /\ m[SectionByte] \in 0 .. Len(Layout[m[BlockByte] + 1]) - 1
      /\ m[AmountByte] \in {Amount.Single, Amount.All}
  BY AcceptedIs
<1>2. sec \in [count : Nat, min : Nat, max : Nat]
  BY <1>1, SectionTyped
<1>3. Len(m) \in Nat /\ 10 <= Len(m)
  BY <1>1, LenProperties DEF STD_REQ_MIN_MSG_SIZE, SectionByte
<1>4. part \in Nat
  <2>1. 4 \in 1 .. Len(m)
    BY <1>3
  <2> QED BY <2>1, ElementOfSeq DEF PartByte
<1>5. part < parts(sec)
  BY <1>1 DEF check_part
<1>6. /\ n \in 1 .. PARAMS_PER_MESSAGE /\ DOMAIN indices = 1 .. n
      /\ \A k \in 1 .. n : /\ indices[k] = PARAMS_PER_MESSAGE * part + k - 1
                           /\ indices[k] \in 0 .. sec.count - 1
  BY <1>2, <1>4, <1>5, AnsweredIs
<1>7. Len(m) = SectionByte + 1 + n
  <2>1. n = IF sec.count <= PARAMS_PER_MESSAGE THEN sec.count
            ELSE IF part + 1 = parts(sec)
                 THEN sec.count - (parts(sec) - 1) * PARAMS_PER_MESSAGE
                 ELSE PARAMS_PER_MESSAGE
    BY <1>2, <1>4, <1>5, PartHolds
  <2> HIDE DEF n
  <2> QED BY <1>1, <2>1 DEF generate_message_length
<1>8. Assignments(m) = [k \in DOMAIN indices |->
                          [index |-> indices[k], value |-> m[SectionByte + k]]]
  BY DEF Assignments
<1>9. n \in Nat
  BY <1>6, SysExAssumption
<1> HIDE DEF n, indices
<1>10. \A k \in 1 .. n : m[SectionByte + k] \in Nat
  <2> TAKE k \in 1 .. n
  <2>1. SectionByte + k \in 1 .. Len(m)
    BY <1>3, <1>7, <1>9 DEF SectionByte
  <2> QED BY <2>1, ElementOfSeq
<1>11. /\ DOMAIN Assignments(m) = 1 .. n
       /\ \A k \in 1 .. n : /\ Assignments(m)[k].index = indices[k]
                            /\ Assignments(m)[k].value = m[SectionByte + k]
  BY <1>6, <1>8
<1> QED BY <1>4, <1>6, <1>7, <1>9, <1>10, <1>11 DEF n

\* The values an accepted SET asks for.
LEMMA AssignmentsAre ==
  ASSUME NEW m \in Seq(Nat), Accepted(m), ~Reads(m), layout \in {<<>>, Layout}
  PROVE  \E n \in Nat :
           /\ DOMAIN Assignments(m) = 1 .. n
           /\ \A k \in 1 .. n : /\ Assignments(m)[k].index \in Nat
                                /\ Assignments(m)[k].value \in Nat
<1>1. STD_REQ_MIN_MSG_SIZE - 1 <= Len(m)
  BY AcceptedIs
<1>2. Len(m) \in Nat /\ 10 <= Len(m)
  BY <1>1, LenProperties DEF STD_REQ_MIN_MSG_SIZE, SectionByte
<1>3. CASE m[AmountByte] = Amount.Single
  <2>1. Assignments(m) = <<[index |-> m[IndexByte], value |-> m[IndexByte + 1]]>>
    BY <1>3 DEF Assignments
  <2>2. 9 \in 1 .. Len(m) /\ 10 \in 1 .. Len(m)
    BY <1>2
  <2>3. m[IndexByte] \in Nat /\ m[IndexByte + 1] \in Nat
    BY <2>2, ElementOfSeq DEF IndexByte
  <2>4. /\ DOMAIN Assignments(m) = 1 .. 1
        /\ \A k \in 1 .. 1 : Assignments(m)[k].index \in Nat /\ Assignments(m)[k].value \in Nat
    BY <2>1, <2>3
  <2> QED BY <2>4
<1>4. CASE m[AmountByte] # Amount.Single
  <2> DEFINE n == Cardinality(IndicesOf(SectionOf(m), m[PartByte]))
  <2>1. /\ n \in Nat /\ DOMAIN Assignments(m) = 1 .. n
        /\ \A k \in 1 .. n :
             /\ Assignments(m)[k].index \in 0 .. SectionOf(m).count - 1
             /\ Assignments(m)[k].value = m[SectionByte + k] /\ m[SectionByte + k] \in Nat
    BY <1>4, PartAssignments
  <2>2. SectionOf(m).count \in Nat
    BY AcceptedIs, SectionTyped
  <2> HIDE DEF n
  <2>3. \A k \in 1 .. n : Assignments(m)[k].index \in Nat /\ Assignments(m)[k].value \in Nat
    <3> TAKE k \in 1 .. n
    <3> DEFINE c == SectionOf(m).count
    <3>1. c \in Nat /\ Assignments(m)[k].index \in 0 .. c - 1
      BY <2>1, <2>2
    <3> HIDE DEF c
    <3>2. Assignments(m)[k].index \in Nat
      BY <3>1
    <3> QED BY <2>1, <3>2
  <2> QED BY <2>1, <2>3
<1> QED BY <1>3, <1>4

\* The answer to a SET has a status, and the values stay numbers.
LEMMA WriteTyped ==
  ASSUME NEW m \in Seq(Nat), Accepted(m), ~Reads(m), layout \in {<<>>, Layout}, NEW fails
  PROVE  /\ \E status \in Nat :
              WriteOutcome(m, fails).replies = <<Sent(WithStatus(Front(m), status))>>
         /\ WriteOutcome(m, fails).enabled = enabled
         /\ store \in [Params -> Nat] => WriteOutcome(m, fails).store \in [Params -> Nat]
<1> DEFINE todo == Assignments(m)
           statuses == [k \in DOMAIN todo |-> WriteStatus(m, todo[k], fails)]
           done == BeforeError(statuses)
           status == IF done = DOMAIN todo THEN Status.Ack
                     ELSE statuses[Cardinality(done) + 1]
<1>1. WriteOutcome(m, fails) =
        Outcome(<<Sent(WithStatus(Front(m), status))>>, Assigned(m, done, fails), enabled)
  BY DEF WriteOutcome
<1>2. PICK n \in Nat : DOMAIN todo = 1 .. n /\ \A k \in 1 .. n : todo[k].value \in Nat
  BY AssignmentsAre
<1>3. \A a : WriteStatus(m, a, fails) \in Nat
  BY DEF WriteStatus, Status
<1>4. status \in Nat
  <2>1. DOMAIN statuses = 1 .. n
    BY <1>2
  <2>2. \A k \in 1 .. n : statuses[k] \in Nat
    BY <1>2, <1>3
  <2> HIDE DEF statuses
  <2>3. Cardinality(done) \in 0 .. n /\ (Cardinality(done) = n => done = 1 .. n)
    BY <2>1, GoodIs
  <2> HIDE DEF done
  <2>4. done # 1 .. n => Cardinality(done) + 1 \in 1 .. n
    BY <2>3
  <2> QED BY <1>2, <2>2, <2>4, StatusesTyped
<1>5. done \subseteq DOMAIN todo
  BY DEF BeforeError
<1>6. store \in [Params -> Nat] => Assigned(m, done, fails) \in [Params -> Nat]
  <2> SUFFICES ASSUME store \in [Params -> Nat] PROVE Assigned(m, done, fails) \in [Params -> Nat]
    OBVIOUS
  <2> DEFINE hit(q) == {k \in done : Param(m, todo[k].index) = q /\ q \notin fails}
  <2>1. Assigned(m, done, fails) =
          [q \in Params |-> IF hit(q) = {} THEN store[q] ELSE todo[CHOOSE k \in hit(q) : TRUE].value]
    BY DEF Assigned
  <2>2. ASSUME NEW q \in Params, hit(q) # {} PROVE todo[CHOOSE k \in hit(q) : TRUE].value \in Nat
    <3>1. (CHOOSE k \in hit(q) : TRUE) \in hit(q)
      BY <2>2
    <3>2. hit(q) \subseteq 1 .. n
      BY <1>2, <1>5
    <3> HIDE DEF hit, todo
    <3> QED BY <1>2, <3>1, <3>2
  <2> HIDE DEF hit, todo
  <2> QED BY <2>1, <2>2
<1> HIDE DEF status, done
<1> QED BY <1>1, <1>4, <1>6 DEF Outcome

\* No message that a request leads to is longer than the buffer.
LEMMA AnswersFit ==
  ASSUME NEW m \in Seq(Nat), Len(m) <= MAX_MESSAGE_SIZE, NEW fails,
         NEW outcome \in CustomOutcomes, enabled \in BOOLEAN, layout \in {<<>>, Layout}
  PROVE  /\ \A j \in DOMAIN handle_request(m, fails, outcome).replies :
              Len(handle_request(m, fails, outcome).replies[j]) <= MAX_MESSAGE_SIZE
         /\ handle_request(m, fails, outcome).enabled \in BOOLEAN
<1> DEFINE Fits(r) == /\ \A j \in DOMAIN r.replies : Len(r.replies[j]) <= MAX_MESSAGE_SIZE
                      /\ r.enabled \in BOOLEAN
           result == handle_request(m, fails, outcome)
<1>1. \A t, values : Len(t) <= MAX_MESSAGE_SIZE => Fits(Outcome(<<t>>, values, enabled))
  BY DEF Outcome
<1>2. CASE Unanswerable(m)
  BY <1>2 DEF handle_request, Outcome
<1>3. CASE ~Unanswerable(m)
  <2>1. SPECIAL_REQ_MSG_SIZE <= Len(m)
    BY <1>3, LenProperties DEF Unanswerable, SPECIAL_REQ_MSG_SIZE, WishByte
  <2>2. ASSUME NEW status \in Nat, NEW values
        PROVE  Fits(Outcome(<<Sent(WithStatus(Front(m), status))>>, values, enabled))
    <3>1. Len(Sent(WithStatus(Front(m), status))) = Len(m)
      BY <2>1, RefusedFits
    <3> HIDE DEF Fits
    <3> QED BY <1>1, <3>1
  <2>3. ASSUME NEW status \in Nat PROVE Fits(Refused(m, status))
    BY <2>2 DEF Refused
  <2> HIDE DEF Fits
  <2>4. CASE m[StatusByte] # Status.Request
    <3>1. result = Refused(m, Status.ErrorStatus) /\ Status.ErrorStatus \in Nat
      BY <1>3, <2>4 DEF handle_request, Status
    <3> QED BY <2>3, <3>1 DEF Fits
  <2>5. CASE m[StatusByte] = Status.Request /\ Len(m) = SPECIAL_REQ_MSG_SIZE
    BY <1>3, <2>5, SpecialFits DEF handle_request
  <2>6. CASE /\ m[StatusByte] = Status.Request /\ Len(m) # SPECIAL_REQ_MSG_SIZE
             /\ decode_standard_request(m) # Status.Ack
    <3>1. result = Refused(m, decode_standard_request(m))
      BY <1>3, <2>6 DEF handle_request
    <3>2. decode_standard_request(m) \in Nat
      BY DEF decode_standard_request, Status
    <3> QED BY <2>3, <3>1, <3>2 DEF Fits
  <2>7. CASE /\ m[StatusByte] = Status.Request /\ Len(m) # SPECIAL_REQ_MSG_SIZE
             /\ decode_standard_request(m) = Status.Ack
    <3>1. result = process_standard_request(m, fails)
      BY <1>3, <2>7 DEF handle_request
    <3>2. Accepted(m)
      BY <1>3, <2>7 DEF Accepted
    <3>3. CASE Reads(m)
      <4>1. result = ReadOutcome(m, fails)
        BY <3>1, <3>3 DEF process_standard_request
      <4>2. SectionOf(m) \in [count : Nat, min : Nat, max : Nat]
        BY <3>2, AcceptedIs, SectionTyped
      <4>3. Len(m) = STD_REQ_MIN_MSG_SIZE
        BY <3>2, <3>3, AcceptedIs DEF generate_message_length
      <4>4. ReadOutcome(m, fails).enabled = enabled
        BY DEF ReadOutcome, Outcome
      <4> QED BY <4>1, <4>2, <4>3, <4>4, ReadFits
    <3>4. CASE ~Reads(m)
      <4>1. result = WriteOutcome(m, fails)
        BY <3>1, <3>4 DEF process_standard_request
      <4>2. PICK status \in Nat : result.replies = <<Sent(WithStatus(Front(m), status))>>
        BY <3>2, <3>4, <4>1, WriteTyped
      <4>3. result.enabled \in BOOLEAN
        BY <3>2, <3>4, <4>1, WriteTyped
      <4>4. Len(Sent(WithStatus(Front(m), status))) = Len(m)
        BY <2>1, RefusedFits
      <4> QED BY <4>2, <4>3, <4>4
    <3> QED BY <3>3, <3>4
  <2> QED BY <2>4, <2>5, <2>6, <2>7
<1> QED BY <1>2, <1>3
-----------------------------------------------------------------------------
(* No message outgrows the buffer.                                           *)

\* A parameter is in a section of the layout.
LEMMA ParamHasSection ==
  ASSUME NEW q \in Params
  PROVE  /\ q[1] \in 0 .. Len(Layout) - 1 /\ q[2] \in 0 .. Len(Layout[q[1] + 1]) - 1
         /\ q[3] \in 0 .. Layout[q[1] + 1][q[2] + 1].count - 1 /\ q = <<q[1], q[2], q[3]>>
         /\ Layout[q[1] + 1][q[2] + 1] \in [count : Nat, min : Nat, max : Nat]
         /\ Layout[q[1] + 1][q[2] + 1].min <= Layout[q[1] + 1][q[2] + 1].max
<1> DEFINE Of(b) == UNION {{<<b, s, i>> : i \in 0 .. Layout[b + 1][s + 1].count - 1} :
                             s \in 0 .. Len(Layout[b + 1]) - 1}
<1>1. PICK b \in 0 .. Len(Layout) - 1 : q \in Of(b)
  <2>1. Params = UNION {Of(b) : b \in 0 .. Len(Layout) - 1}
    BY DEF Params
  <2> HIDE DEF Of
  <2> QED BY <2>1
<1>2. PICK s \in 0 .. Len(Layout[b + 1]) - 1 :
        q \in {<<b, s, i>> : i \in 0 .. Layout[b + 1][s + 1].count - 1}
  BY <1>1
<1>3. PICK i \in 0 .. Layout[b + 1][s + 1].count - 1 : q = <<b, s, i>>
  BY <1>2
<1>4. q[1] = b /\ q[2] = s /\ q[3] = i
  BY <1>3
<1>5. /\ Layout[b + 1][s + 1] \in [count : Nat, min : Nat, max : Nat]
      /\ Layout[b + 1][s + 1].min <= Layout[b + 1][s + 1].max
  <2>1. Len(Layout) \in Nat /\ DOMAIN Layout = 1 .. Len(Layout)
    BY SysExAssumption, LenProperties
  <2>2. b + 1 \in 1 .. Len(Layout)
    BY <2>1
  <2>3. Layout[b + 1] \in Seq([count : Nat, min : Nat, max : Nat])
    BY <2>2, SysExAssumption, ElementOfSeq
  <2>4. Len(Layout[b + 1]) \in Nat /\ DOMAIN Layout[b + 1] = 1 .. Len(Layout[b + 1])
    BY <2>3, LenProperties
  <2>5. s + 1 \in 1 .. Len(Layout[b + 1])
    BY <2>4
  <2>6. Layout[b + 1][s + 1] \in [count : Nat, min : Nat, max : Nat]
    BY <2>3, <2>5, ElementOfSeq
  <2> QED BY <2>1, <2>2, <2>4, <2>5, <2>6, CallersAssumption
<1> QED BY <1>3, <1>4, <1>5

LEMMA FitsInit == Init => TypeOK
<1> SUFFICES ASSUME Init PROVE TypeOK
  OBVIOUS
<1>1. store \in [Params -> Nat]
  <2>1. \A q \in Params : Layout[q[1] + 1][q[2] + 1].min \in Nat
    BY ParamHasSection
  <2> QED BY <2>1 DEF Init
<1>2. Len(<<>>) <= MAX_MESSAGE_SIZE
  BY BufferSize, EmptySeq
<1>3. event.handled = <<>> /\ event.replies = <<>> /\ DOMAIN <<>> = {}
  BY DEF Init, NoEvent
<1> QED BY <1>1, <1>2, <1>3 DEF Init, TypeOK

\* handle_packet(): the required size is checked before anything is appended.
LEMMA PacketFits ==
  ASSUME Typed, TypeOK, NEW packet, packet.payload \in Seq(Nat), packet.ends \in BOOLEAN,
         handle_packet(packet)
  PROVE  TypeOK'
<1>1. layout' = layout /\ ignore' = ignore
  BY DEF handle_packet
<1>2. Buffer(packet) \in Seq(Nat) /\ Buffer(packet) \o packet.payload \in Seq(Nat)
  <2>1. Buffer(packet) \in Seq(Nat)
    BY DEF Typed, Buffer, START
  <2> QED BY <2>1, ConcatProperties
<1>3. Len(Buffer(packet) \o packet.payload) = Len(Buffer(packet)) + Len(packet.payload)
  BY <1>2, ConcatProperties
<1>4. Len(Buffer(packet)) \in Nat /\ Len(packet.payload) \in Nat
  BY <1>2, LenProperties
<1>5. Len(<<>>) <= MAX_MESSAGE_SIZE
  BY BufferSize, EmptySeq
<1>6. CASE PacketCollected(packet)
  <2>1. /\ \/ response' = <<>> \/ response' = response
           \/ response' = Buffer(packet) \o packet.payload /\ ~TooLong(packet) /\ ~packet.ends
        /\ active' \in BOOLEAN
    <3>1. CASE (~packet.starts /\ ~active) \/ TooLong(packet)
      BY <1>6, <3>1 DEF PacketCollected, reset_ump_message, TypeOK
    <3>2. CASE ~((~packet.starts /\ ~active) \/ TooLong(packet))
      BY <1>6, <3>2 DEF PacketCollected
    <3> QED BY <3>1, <3>2
  <2>2. ~TooLong(packet) /\ ~packet.ends
          => Len(Buffer(packet) \o packet.payload) <= MAX_MESSAGE_SIZE
    BY <1>3, <1>4, BufferSize DEF TooLong
  <2>3. Len(response') <= MAX_MESSAGE_SIZE
    BY <1>5, <2>1, <2>2 DEF TypeOK
  <2>4. UNCHANGED <<enabled, store, event>>
    BY <1>6 DEF PacketCollected
  <2> QED BY <1>1, <2>1, <2>3, <2>4 DEF TypeOK
<1>7. CASE PacketHandled(packet)
  <2> DEFINE m == Append(Buffer(packet) \o packet.payload, END)
  <2>1. PICK fails \in {{}} \cup {{q} : q \in Params}, outcome \in CustomOutcomes :
          LET result == handle_request(m, fails, outcome)
          IN /\ store' = result.store /\ enabled' = result.enabled
             /\ event' = [handled |-> m, fails |-> fails, replies |-> result.replies]
    BY <1>7 DEF PacketHandled
  <2>2. m \in Seq(Nat) /\ Len(m) <= MAX_MESSAGE_SIZE
    <3>1. m \in Seq(Nat) /\ Len(m) = Len(Buffer(packet)) + Len(packet.payload) + 1
      BY <1>2, <1>3, AppendProperties DEF END
    <3>2. ~TooLong(packet) /\ packet.ends
      BY <1>7 DEF PacketHandled
    <3>3. Len(Buffer(packet)) + Len(packet.payload) + 1 <= MAX_MESSAGE_SIZE
      BY <1>4, <3>2, BufferSize DEF TooLong
    <3> HIDE DEF m
    <3> QED BY <3>1, <3>3
  <2> HIDE DEF m
  <2>3. /\ \A j \in DOMAIN handle_request(m, fails, outcome).replies :
             Len(handle_request(m, fails, outcome).replies[j]) <= MAX_MESSAGE_SIZE
        /\ enabled' \in BOOLEAN
    BY <2>1, <2>2, AnswersFit DEF TypeOK
  <2>4. store' \in [Params -> Nat]
    <3>1. CASE store' = store
      BY <3>1 DEF TypeOK
    <3>2. CASE store' # store
      <4>1. Accepted(m) /\ ~Reads(m) /\ store' = WriteOutcome(m, fails).store
        BY <2>1, <2>2, <3>2, AcceptedSet
      <4> QED BY <2>2, <4>1, WriteTyped DEF TypeOK
    <3> QED BY <3>1, <3>2
  <2>5. Len(response') <= MAX_MESSAGE_SIZE /\ active' \in BOOLEAN
    BY <1>5, <1>7 DEF PacketHandled, reset_ump_message
  <2>6. event'.handled = m /\ event'.replies = handle_request(m, fails, outcome).replies
    BY <2>1
  <2> QED BY <1>1, <2>2, <2>3, <2>4, <2>5, <2>6 DEF TypeOK
<1> QED BY <1>6, <1>7 DEF handle_packet

LEMMA FitsNext == Typed /\ TypeOK /\ [Next]_vars => TypeOK'
<1> SUFFICES ASSUME Typed, TypeOK, [Next]_vars PROVE TypeOK'
  OBVIOUS
<1>0. Len(<<>>) <= MAX_MESSAGE_SIZE
  BY BufferSize, EmptySeq
<1>1. ASSUME NEW m \in Seq(Nat), NEW left \in Seq(Nat), NEW starts, ToolSends(m, left, starts)
      PROVE  TypeOK'
  <2>1. PICK packet : /\ packet.payload \in Seq(Nat) /\ packet.ends \in BOOLEAN
                      /\ handle_packet(packet)
    <3> DEFINE size == IF Len(left) < PacketPayload THEN Len(left) ELSE PacketPayload
               packet == [starts |-> starts,
                          ends |-> SubSeq(left, size + 1, Len(left)) = <<>>,
                          payload |-> SubSeq(left, 1, size)]
    <3>1. size \in 0 .. Len(left)
      BY SysExAssumption, LenProperties
    <3>2. packet.payload \in Seq(Nat)
      BY <3>1, SubSeqTyped
    <3>3. packet.ends \in BOOLEAN
      OBVIOUS
    <3>4. handle_packet(packet)
      BY <1>1 DEF ToolSends
    <3> QED BY <3>2, <3>3, <3>4
  <2> QED BY <2>1, PacketFits
<1>2. CASE ToolBegins
  BY <1>1, <1>2, SysExAssumption DEF ToolBegins
<1>3. CASE ToolGoesOn
  BY <1>1, <1>3 DEF ToolGoesOn, Typed
<1>4. CASE OtherPacket
  BY <1>0, <1>4 DEF OtherPacket, reset_ump_message, TypeOK
<1>5. CASE AnswersAreRead
  BY <1>0, <1>5 DEF AnswersAreRead, NoEvent, device, TypeOK
<1>6. ASSUME NEW values \in CustomValues, NEW ack \in BOOLEAN, send_custom_message(values, ack)
      PROVE  TypeOK'
  <2> DEFINE start == <<START, OwnId, IF ack THEN Status.Ack ELSE Status.Request, 0>>
  <2>1. start \in Seq(Nat) /\ Len(start) = 4
    BY SysExAssumption DEF START, Status
  <2>2. values \in Seq(Nat) /\ Len(values) + 5 <= MAX_MESSAGE_SIZE /\ Len(values) \in Nat
    BY CallersAssumption, LenProperties
  <2>3. response' = Sent(start \o values) /\ event' = [NoEvent EXCEPT !.replies = <<response'>>]
    BY <1>6 DEF send_custom_message
  <2> HIDE DEF start
  <2>4. start \o values \in Seq(Nat) /\ Len(start \o values) = Len(start) + Len(values)
    BY <2>1, <2>2, ConcatProperties
  <2>5. Len(Sent(start \o values)) = Len(start \o values) + 1
    BY <2>4, SentIs
  <2>6. Len(response') <= MAX_MESSAGE_SIZE
    BY <2>1, <2>2, <2>3, <2>4, <2>5, BufferSize
  <2>7. event'.handled = <<>> /\ event'.replies = <<response'>>
    BY <2>3 DEF NoEvent
  <2>8. \A j \in DOMAIN event'.replies : Len(event'.replies[j]) <= MAX_MESSAGE_SIZE
    BY <2>6, <2>7
  <2> QED BY <1>0, <1>6, <2>6, <2>7, <2>8 DEF send_custom_message, TypeOK
<1>7. ASSUME NEW l \in {<<>>, Layout}, set_layout(l) PROVE TypeOK'
  BY <1>7 DEF set_layout, TypeOK
<1>8. ASSUME NEW table \in CustomTables, setup_custom_requests(table) PROVE TypeOK'
  BY <1>8 DEF setup_custom_requests, TypeOK
<1>9. CASE close_connection
  BY <1>9 DEF close_connection, TypeOK
<1>10. ASSUME NEW state \in BOOLEAN, set_user_error_ignore_mode(state) PROVE TypeOK'
  BY <1>10 DEF set_user_error_ignore_mode, TypeOK
<1>11. CASE reset
  BY <1>0, <1>11 DEF reset, reset_ump_message, TypeOK
<1>12. CASE UNCHANGED vars
  BY <1>12 DEF vars, device, TypeOK
<1> QED
  BY <1>2, <1>3, <1>4, <1>5, <1>6, <1>7, <1>8, <1>9, <1>10, <1>11, <1>12 DEF Next

\* Whatever packets, requests and answers of handlers there are, nothing is
\* written behind _response_array, and no message is longer than it.
THEOREM MessagesFit == Spec => []TypeOK
<1>1. Init => Typed /\ TypeOK
  BY TypedInit, FitsInit
<1>2. Typed /\ TypeOK /\ [Next]_vars => (Typed /\ TypeOK)'
  BY TypedNext, FitsNext
<1> QED BY <1>1, <1>2, PTL DEF Spec
-----------------------------------------------------------------------------
(* The answers to a backup restore it.                                       *)

\* Every value is one that a SET of its section may carry.
InRange ==
  \A q \in Params : check_new_value(Layout[q[1] + 1][q[2] + 1], store[q])

\* A request to set the values of a part as they are.
Restores(r, m, part) ==
  LET n == Cardinality(IndicesOf(SectionOf(m), part))
  IN /\ r \in Seq(Nat) /\ Len(r) = SectionByte + 1 + n
     /\ r[IdByte] = OwnId /\ r[StatusByte] = Status.Request /\ r[PartByte] = part
     /\ r[WishByte] = Wish.Set /\ r[AmountByte] = Amount.All
     /\ r[BlockByte] = m[BlockByte] /\ r[SectionByte] = m[SectionByte]
     /\ \A k \in 1 .. n :
          r[SectionByte + k] = store[Param(m, PARAMS_PER_MESSAGE * part + k - 1)]

\* As long as the answers to a backup are not read, they restore what is there.
AnswersStand ==
  /\ event.handled \in Seq(Nat)
  /\ \A m \in {event.handled} :
       /\ m # <<>> /\ Accepted(m) /\ event.fails = {}
       /\ m[WishByte] = Wish.Backup /\ m[AmountByte] = Amount.All
       => \A r \in {event.replies[j] : j \in DOMAIN event.replies} :
            StatusOf(r) = Status.Request
              => \E part \in 0 .. parts(SectionOf(m)) - 1 : Restores(r, m, part)

\* A backup's answer starts as a request to set the part.
LEMMA BackupBase ==
  ASSUME NEW m \in Seq(Nat), Len(m) = STD_REQ_MIN_MSG_SIZE, m[WishByte] = Wish.Backup,
         NEW part \in Nat, AsksWhole(m) \/ part = m[PartByte]
  PROVE  LET base == IF AsksWhole(m) THEN [AnswerBase(m) EXCEPT ![PartByte] = part]
                     ELSE AnswerBase(m)
         IN /\ base \in Seq(Nat) /\ Len(base) = 8
            /\ base[2] = m[2] /\ base[3] = Status.Request /\ base[4] = part
            /\ base[5] = Wish.Set /\ base[6] = m[6] /\ base[7] = m[7] /\ base[8] = m[8]
<1> DEFINE S == Nat
           head == SubSeq(m, 1, SectionByte)
           a == Status.Request
           b == Wish.Set
           answer == [head EXCEPT ![3] = a, ![5] = b]
           whole == [answer EXCEPT ![4] = part]
           i == 3
           j == 5
           k == 4
<1>1. Len(m) = 11
  BY DEF STD_REQ_MIN_MSG_SIZE, SectionByte
<1>2. head \in Seq(S) /\ Len(head) = 8 /\ \A x \in 1 .. 8 : head[x] = m[x]
  <2>1. \A x \in 1 .. 8 : x \in 1 .. Len(m)
    BY <1>1
  <2>2. \A x \in 1 .. 8 : m[x] \in Nat
    BY <2>1, ElementOfSeq
  <2>3. /\ head \in Seq(Nat) /\ Len(head) = IF 1 <= 8 THEN 8 - 1 + 1 ELSE 0
        /\ \A x \in 1 .. 8 - 1 + 1 : head[x] = m[1 + x - 1]
    BY <2>2, SubSeqProperties DEF SectionByte
  <2> HIDE DEF head
  <2> QED BY <2>3
<1>3. a \in S /\ b \in S /\ part \in S
  BY DEF Status, Wish
<1>4. AnswerBase(m) = answer
  BY DEF AnswerBase, StatusByte, WishByte
<1> HIDE DEF S, head, a, b
<1>5. i \in Nat /\ 1 <= i /\ i <= Len(head) /\ j \in Nat /\ 1 <= j /\ j <= Len(head) /\ i # j
  BY <1>2
<1>6. /\ answer \in Seq(S) /\ Len(answer) = Len(head) /\ answer[i] = a /\ answer[j] = b
      /\ \A x \in 1 .. Len(head) : x # i /\ x # j => answer[x] = head[x]
  <2> DEFINE t == [head EXCEPT ![i] = a, ![j] = b]
  <2> HIDE DEF i, j
  <2>1. /\ t \in Seq(S) /\ Len(t) = Len(head) /\ t[i] = a /\ t[j] = b
        /\ \A x \in 1 .. Len(head) : x # i /\ x # j => t[x] = head[x]
    <3>1. /\ head \in Seq(S) /\ a \in S /\ b \in S /\ i # j
          /\ i \in Nat /\ 1 <= i /\ i <= Len(head) /\ j \in Nat /\ 1 <= j /\ j <= Len(head)
      BY <1>2, <1>3, <1>5
    <3>2. t \in Seq(S) /\ Len(t) = Len(head)
      BY <3>1, TwoFieldsSet
    <3>3. t[i] = a /\ t[j] = b
      BY <3>1, TwoFieldsSet
    <3>4. \A x \in 1 .. Len(head) : x # i /\ x # j => t[x] = head[x]
      BY <3>1, TwoFieldsSet
    <3> QED BY <3>2, <3>3, <3>4
  <2> QED BY <2>1 DEF i, j
<1> HIDE DEF answer
<1>7. /\ answer \in Seq(S) /\ Len(answer) = 8 /\ answer[2] = m[2] /\ answer[3] = a
      /\ answer[5] = b /\ answer[6] = m[6] /\ answer[7] = m[7] /\ answer[8] = m[8]
      /\ answer[4] = m[4]
  BY <1>2, <1>6
<1>8. k \in Nat /\ 1 <= k /\ k <= Len(answer)
  BY <1>7
<1>9. /\ whole \in Seq(S) /\ Len(whole) = Len(answer) /\ whole[k] = part
      /\ \A x \in 1 .. Len(answer) : x # k => whole[x] = answer[x]
  <2> DEFINE t == [answer EXCEPT ![k] = part]
  <2> HIDE DEF k
  <2>1. /\ t \in Seq(S) /\ Len(t) = Len(answer) /\ t[k] = part
        /\ \A x \in 1 .. Len(answer) : x # k => t[x] = answer[x]
    <3>1. /\ answer \in Seq(S) /\ part \in S
          /\ k \in Nat /\ 1 <= k /\ k <= Len(answer)
      BY <1>3, <1>7, <1>8
    <3>2. t \in Seq(S) /\ Len(t) = Len(answer)
      BY <3>1, FieldSet
    <3>3. t[k] = part
      BY <3>1, FieldSet
    <3>4. \A x \in 1 .. Len(answer) : x # k => t[x] = answer[x]
      BY <3>1, FieldSet
    <3> QED BY <3>2, <3>3, <3>4
  <2> QED BY <2>1 DEF k
<1> HIDE DEF whole
<1>10. CASE AsksWhole(m)
  <2>1. /\ whole \in Seq(S) /\ Len(whole) = 8 /\ whole[2] = m[2] /\ whole[3] = a
        /\ whole[4] = part /\ whole[5] = b /\ whole[6] = m[6] /\ whole[7] = m[7]
        /\ whole[8] = m[8]
    BY <1>7, <1>9
  <2>2. [AnswerBase(m) EXCEPT ![PartByte] = part] = whole
    BY <1>4 DEF whole, PartByte
  <2> QED BY <1>10, <2>1, <2>2 DEF S, a, b
<1>11. CASE ~AsksWhole(m)
  <2>1. answer[4] = part
    BY <1>7, <1>11 DEF PartByte
  <2> QED BY <1>4, <1>7, <1>11, <2>1 DEF S, a, b
<1> QED BY <1>10, <1>11

\* The answer for a part of a backup is such a request.
LEMMA BackupPart ==
  ASSUME TypeOK, NEW m \in Seq(Nat), Accepted(m),
         m[WishByte] = Wish.Backup, m[AmountByte] = Amount.All,
         NEW part \in Nat, part < parts(SectionOf(m)), AsksWhole(m) \/ part = m[PartByte]
  PROVE  Restores(PartAnswer(m, part, {}).message, m, part)
         /\ PartAnswer(m, part, {}).status = Status.Ack
<1> DEFINE sec == SectionOf(m)
           n == Cardinality(IndicesOf(sec, part))
           indices == Answered(m, part)
           statuses == [k \in DOMAIN indices |-> ReadStatus(m, indices[k], {})]
           good == Cardinality(BeforeError(statuses))
           base == IF AsksWhole(m) THEN [AnswerBase(m) EXCEPT ![PartByte] = part]
                   ELSE AnswerBase(m)
           values == [k \in 1 .. good |-> ReadValue(m, indices[k], {})]
           read == Added(base, values)
           r == PartAnswer(m, part, {}).message
<1>1. /\ layout = Layout /\ m[IdByte] = OwnId /\ Len(m) = generate_message_length(m)
      /\ m[BlockByte] \in 0 .. Len(Layout) - 1
      /\ m[SectionByte] \in 0 .. Len(Layout[m[BlockByte] + 1]) - 1
  BY AcceptedIs DEF TypeOK
<1>2. /\ sec \in [count : Nat, min : Nat, max : Nat]
      /\ \A i \in 0 .. sec.count - 1 : Param(m, i) \in Params
  BY <1>1, SectionTyped
<1>3. m[AmountByte] # Amount.Single
  BY DEF Amount
<1>4. /\ n \in 1 .. PARAMS_PER_MESSAGE /\ DOMAIN indices = 1 .. n /\ Len(indices) = n
      /\ \A k \in 1 .. n : /\ indices[k] = PARAMS_PER_MESSAGE * part + k - 1
                           /\ indices[k] \in 0 .. sec.count - 1
  BY <1>2, <1>3, AnsweredIs
<1>5. n \in Nat /\ n <= PARAMS_PER_MESSAGE /\ PARAMS_PER_MESSAGE \in Nat
  BY <1>4, SysExAssumption
<1>6. good = n
  <2>1. \A i : ReadStatus(m, i, {}) = Status.Ack
    BY <1>3 DEF ReadStatus
  <2>2. DOMAIN statuses = 1 .. n /\ \A k \in 1 .. n : statuses[k] = Status.Ack
    BY <1>4, <2>1
  <2> HIDE DEF statuses, n
  <2> QED BY <1>5, <2>2, GoodIs
<1>7. /\ r = Sent(read) /\ PartAnswer(m, part, {}).status = Status.Ack
  <2>1. PartAnswer(m, part, {}) =
          [message |-> Sent(IF good = Len(indices) THEN read
                            ELSE WithStatus(read, statuses[good + 1])),
           status |-> IF good = Len(indices) THEN Status.Ack ELSE statuses[good + 1]]
    BY DEF PartAnswer
  <2>2. good = Len(indices)
    BY <1>4, <1>6
  <2> HIDE DEF good, indices, read, statuses
  <2> QED BY <2>1, <2>2
<1>8. values = [k \in 1 .. n |-> store[Param(m, indices[k])]]
  <2>1. \A i : ReadValue(m, i, {}) = store[Param(m, i)]
    BY DEF ReadValue
  <2> HIDE DEF good, indices, n
  <2> QED BY <1>6, <2>1
<1>9. Len(m) = STD_REQ_MIN_MSG_SIZE
  BY <1>1 DEF generate_message_length, Reads
<1>10. /\ base \in Seq(Nat) /\ Len(base) = 8
       /\ base[2] = m[2] /\ base[3] = Status.Request /\ base[4] = part
       /\ base[5] = Wish.Set /\ base[6] = m[6] /\ base[7] = m[7] /\ base[8] = m[8]
  BY <1>9, BackupBase
<1> HIDE DEF n, indices, base, good, read, r, values
<1>11. values \in Seq(Nat) /\ Len(values) = n
  <2>1. \A k \in 1 .. n : store[Param(m, indices[k])] \in Nat
    BY <1>2, <1>4 DEF TypeOK
  <2>2. values \in [1 .. n -> Nat]
    BY <1>8, <2>1
  <2> QED BY <1>5, <2>2, FunctionIsSeq
<1>12. read = base \o values
  <2>1. MAX_MESSAGE_SIZE = 11 + PARAMS_PER_MESSAGE
    BY DEF MAX_MESSAGE_SIZE, STD_REQ_MIN_MSG_SIZE, SectionByte
  <2>2. Len(base) <= MAX_MESSAGE_SIZE - 1 /\ Len(base) + Len(values) <= MAX_MESSAGE_SIZE - 1
    BY <1>5, <1>10, <1>11, <2>1
  <2> QED BY <1>10, <1>11, <2>2, AddedFits DEF read
<1>13. /\ base \o values \in Seq(Nat) /\ Len(base \o values) = 8 + n
       /\ \A i \in 1 .. 8 : (base \o values)[i] = base[i]
       /\ \A k \in 1 .. n : (base \o values)[8 + k] = values[k]
  <2>1. /\ base \o values \in Seq(Nat) /\ Len(base \o values) = Len(base) + Len(values)
        /\ \A i \in 1 .. Len(base) + Len(values) :
             (base \o values)[i] = IF i <= Len(base) THEN base[i] ELSE values[i - Len(base)]
    BY <1>10, <1>11, ConcatProperties
  <2> DEFINE s == base \o values
  <2> HIDE DEF s
  <2>2. s \in Seq(Nat) /\ Len(s) = 8 + n
    BY <1>10, <1>11, <2>1 DEF s
  <2>3. \A i \in 1 .. 8 + n : s[i] = IF i <= 8 THEN base[i] ELSE values[i - 8]
    BY <1>10, <1>11, <2>1 DEF s
  <2>4. \A i \in 1 .. 8 : s[i] = base[i]
    <3> TAKE i \in 1 .. 8
    <3>1. i \in 1 .. 8 + n /\ i <= 8
      BY <1>5
    <3> QED BY <2>3, <3>1
  <2>5. \A k \in 1 .. n : s[8 + k] = values[k]
    <3> TAKE k \in 1 .. n
    <3>1. 8 + k \in 1 .. 8 + n /\ ~(8 + k <= 8) /\ 8 + k - 8 = k
      BY <1>5
    <3> QED BY <2>3, <3>1
  <2> QED BY <2>2, <2>4, <2>5 DEF s
<1>14. /\ r \in Seq(Nat) /\ Len(r) = 8 + n + 1 /\ \A i \in 1 .. 8 + n : r[i] = (base \o values)[i]
  <2>1. /\ Sent(read) \in Seq(Nat) /\ Len(Sent(read)) = Len(read) + 1
        /\ \A i \in 1 .. Len(read) : Sent(read)[i] = read[i]
    BY <1>12, <1>13, SentIs
  <2> QED BY <1>7, <1>12, <1>13, <2>1
<1>15. /\ r[2] = m[2] /\ r[3] = Status.Request /\ r[4] = part /\ r[5] = Wish.Set
       /\ r[6] = m[6] /\ r[7] = m[7] /\ r[8] = m[8]
  <2>1. \A i \in 1 .. 8 : r[i] = base[i]
    <3> TAKE i \in 1 .. 8
    <3>1. i \in 1 .. 8 + n
      BY <1>5
    <3> QED BY <1>13, <1>14, <3>1
  <2>2. /\ r[2] = base[2] /\ r[3] = base[3] /\ r[4] = base[4] /\ r[5] = base[5]
        /\ r[6] = base[6] /\ r[7] = base[7] /\ r[8] = base[8]
    BY <2>1
  <2> QED BY <1>10, <2>2
<1>16. \A k \in 1 .. n : r[8 + k] = store[Param(m, PARAMS_PER_MESSAGE * part + k - 1)]
  <2> TAKE k \in 1 .. n
  <2>1. 8 + k \in 1 .. 8 + n
    BY <1>5
  <2>2. r[8 + k] = values[k]
    BY <1>13, <1>14, <2>1
  <2> QED BY <1>4, <1>8, <2>2
<1>17. Len(r) = 8 + 1 + n
  BY <1>5, <1>14
<1> QED BY <1>1, <1>7, <1>14, <1>15, <1>16, <1>17
        DEF Restores, n, r, IdByte, StatusByte, PartByte, WishByte, AmountByte, BlockByte,
            SectionByte
\* Such a request is acknowledged and changes nothing.
LEMMA RestoreIsAcked ==
  ASSUME TypeOK, InRange, layout = Layout, enabled, NEW m,
         m[BlockByte] \in 0 .. Len(Layout) - 1,
         m[SectionByte] \in 0 .. Len(Layout[m[BlockByte] + 1]) - 1,
         NEW part \in Nat, part < parts(SectionOf(m)),
         NEW r, Restores(r, m, part), NEW outcome
  PROVE  /\ handle_request(r, {}, outcome).store = store
         /\ Len(handle_request(r, {}, outcome).replies) = 1
         /\ StatusOf(handle_request(r, {}, outcome).replies[1]) = Status.Ack
<1> DEFINE sec == SectionOf(m)
           n == Cardinality(IndicesOf(sec, part))
           index(k) == PARAMS_PER_MESSAGE * part + k - 1
           todo == Assignments(r)
           statuses == [k \in DOMAIN todo |-> WriteStatus(r, todo[k], {})]
           done == BeforeError(statuses)
<1>1. /\ sec \in [count : Nat, min : Nat, max : Nat]
      /\ sec.count <= PART_ALL_MESSAGES_WITH_ACK * PARAMS_PER_MESSAGE
      /\ \A i \in 0 .. sec.count - 1 : Param(m, i) \in Params
  BY SectionTyped
<1>2. /\ n \in 1 .. PARAMS_PER_MESSAGE
      /\ PARAMS_PER_MESSAGE * part + n <= sec.count
      /\ n = IF sec.count <= PARAMS_PER_MESSAGE THEN sec.count
             ELSE IF part + 1 = parts(sec)
                  THEN sec.count - (parts(sec) - 1) * PARAMS_PER_MESSAGE
                  ELSE PARAMS_PER_MESSAGE
  BY <1>1, PartHolds
<1>3. n \in Nat /\ n >= 1 /\ n <= PARAMS_PER_MESSAGE /\ PARAMS_PER_MESSAGE \in Nat
  BY <1>2, SysExAssumption
<1>4. /\ r \in Seq(Nat) /\ Len(r) = SectionByte + 1 + n
      /\ r[IdByte] = OwnId /\ r[StatusByte] = Status.Request /\ r[PartByte] = part
      /\ r[WishByte] = Wish.Set /\ r[AmountByte] = Amount.All
      /\ r[BlockByte] = m[BlockByte] /\ r[SectionByte] = m[SectionByte]
      /\ \A k \in 1 .. n : r[SectionByte + k] = store[Param(m, index(k))]
  BY DEF Restores
<1>5. SectionOf(r) = sec /\ \A i : Param(r, i) = Param(m, i)
  BY <1>4 DEF SectionOf, Param
<1>6. ~AsksWhole(r) /\ ~Reads(r) /\ r[AmountByte] # Amount.Single
  <2>1. parts(sec) \in Nat /\ parts(sec) <= 126
    BY <1>1, PartsIs DEF PART_ALL_MESSAGES_WITH_ACK
  <2>2. part < 126
    BY <2>1
  <2> QED BY <1>4, <2>2
          DEF AsksWhole, Reads, PART_ALL_MESSAGES, PART_ALL_MESSAGES_WITH_ACK, Wish, Amount
<1> HIDE DEF n, sec
<1>7. Accepted(r)
  <2>1. check_part(r)
    BY <1>4, <1>5, <1>6 DEF check_part, sec
  <2>2. generate_message_length(r) = SectionByte + 1 + n
    BY <1>2, <1>4, <1>5, <1>6 DEF generate_message_length
  <2>3. /\ ~(Len(r) < STD_REQ_MIN_MSG_SIZE - 1) /\ ~(Len(r) < SPECIAL_REQ_MSG_SIZE)
        /\ ~(Len(r) > MAX_MESSAGE_SIZE) /\ Len(r) # SPECIAL_REQ_MSG_SIZE
    BY <1>3, <1>4 DEF STD_REQ_MIN_MSG_SIZE, SPECIAL_REQ_MSG_SIZE, MAX_MESSAGE_SIZE,
       SectionByte, WishByte
  <2>4. Len(Layout) \in Nat /\ Len(Layout[m[BlockByte] + 1]) \in Nat
    <3>1. Len(Layout) \in Nat
      BY SysExAssumption, LenProperties
    <3>2. m[BlockByte] + 1 \in 1 .. Len(Layout)
      BY <3>1
    <3>3. Layout[m[BlockByte] + 1] \in Seq([count : Nat, min : Nat, max : Nat])
      BY <3>2, SysExAssumption, ElementOfSeq
    <3> QED BY <3>1, <3>3, LenProperties
  <2>5. ~(r[BlockByte] >= Len(layout)) /\ ~(r[SectionByte] >= Len(layout[r[BlockByte] + 1]))
    BY <1>4, <2>4
  <2>6. ~(r[WishByte] > Wish.Backup) /\ ~(r[AmountByte] > Amount.All)
    BY <1>4 DEF Wish, Amount
  <2>7. decode_standard_request(r) = Status.Ack
    BY <1>4, <2>1, <2>2, <2>3, <2>5, <2>6 DEF decode_standard_request
  <2>8. ~Unanswerable(r)
    BY <1>4, <2>3, SysExAssumption DEF Unanswerable
  <2> QED BY <1>4, <2>3, <2>7, <2>8 DEF Accepted
<1>8. handle_request(r, {}, outcome) = WriteOutcome(r, {})
  BY <1>6, <1>7 DEF Accepted, handle_request, process_standard_request
<1>9. /\ DOMAIN todo = 1 .. n
      /\ \A k \in 1 .. n : /\ todo[k].index = index(k) /\ index(k) \in 0 .. sec.count - 1
                           /\ todo[k].value = store[Param(r, index(k))]
  <2> DEFINE indices == Answered(r, part)
  <2>1. /\ DOMAIN indices = 1 .. n
        /\ \A k \in 1 .. n : indices[k] = index(k) /\ indices[k] \in 0 .. sec.count - 1
    BY <1>1, <1>5, <1>6, AnsweredIs DEF n, sec
  <2>2. todo = [k \in DOMAIN indices |-> [index |-> indices[k], value |-> r[SectionByte + k]]]
    BY <1>4, <1>6 DEF Assignments
  <2> HIDE DEF indices, todo, index
  <2> QED BY <1>4, <1>5, <2>1, <2>2
<1> HIDE DEF todo, index
<1>10. \A k \in 1 .. n : WriteStatus(r, todo[k], {}) = Status.Ack
  <2> TAKE k \in 1 .. n
  <2> DEFINE q == Param(m, index(k))
  <2>1. q \in Params /\ q[1] = m[BlockByte] /\ q[2] = m[SectionByte]
    BY <1>1, <1>9 DEF Param
  <2>2. check_new_value(Layout[q[1] + 1][q[2] + 1], store[q])
    BY <2>1 DEF InRange
  <2>3. check_new_value(SectionOf(r), todo[k].value)
    BY <1>5, <1>9, <2>1, <2>2 DEF SectionOf, sec
  <2> QED BY <1>6, <2>3 DEF WriteStatus
<1>11. done = DOMAIN todo /\ done = 1 .. n
  <2>1. DOMAIN statuses = 1 .. n /\ \A k \in 1 .. n : statuses[k] = Status.Ack
    BY <1>9, <1>10
  <2> HIDE DEF statuses
  <2> QED BY <1>3, <1>9, <2>1, GoodIs
<1>12. /\ WriteOutcome(r, {}).store = Assigned(r, done, {})
       /\ WriteOutcome(r, {}).replies = <<Sent(WithStatus(Front(r), Status.Ack))>>
  <2>1. WriteOutcome(r, {}) =
          Outcome(<<Sent(WithStatus(Front(r), IF done = DOMAIN todo THEN Status.Ack
                                              ELSE statuses[Cardinality(done) + 1]))>>,
                  Assigned(r, done, {}), enabled)
    BY DEF WriteOutcome, todo
  <2> HIDE DEF done, statuses
  <2> QED BY <1>11, <2>1 DEF Outcome
<1>13. Assigned(r, done, {}) = store
  <2> DEFINE hit(q) == {k \in done : Param(r, todo[k].index) = q /\ q \notin {}}
             new == [q \in Params |-> IF hit(q) = {} THEN store[q]
                                      ELSE todo[CHOOSE k \in hit(q) : TRUE].value]
  <2>1. Assigned(r, done, {}) = new
    BY DEF Assigned, todo
  <2>2. \A q \in Params : new[q] = store[q]
    <3> TAKE q \in Params
    <3>1. CASE hit(q) = {}
      BY <3>1
    <3>2. CASE hit(q) # {}
      <4> DEFINE k == CHOOSE k \in hit(q) : TRUE
      <4>1. k \in hit(q)
        BY <3>2
      <4>2. k \in 1 .. n /\ Param(r, todo[k].index) = q
        BY <1>11, <4>1
      <4>3. new[q] = todo[k].value
        BY <3>2
      <4> HIDE DEF k, new
      <4> QED BY <1>9, <4>2, <4>3
    <3> QED BY <3>1, <3>2
  <2>3. DOMAIN new = Params /\ store = [q \in Params |-> store[q]]
    BY DEF TypeOK
  <2> HIDE DEF new
  <2>4. new = [q \in Params |-> new[q]]
    BY DEF new
  <2> QED BY <2>1, <2>2, <2>3, <2>4
<1>14. StatusOf(Sent(WithStatus(Front(r), Status.Ack))) = Status.Ack
  <2>1. SPECIAL_REQ_MSG_SIZE <= Len(r) /\ Len(r) <= MAX_MESSAGE_SIZE
    BY <1>3, <1>4 DEF STD_REQ_MIN_MSG_SIZE, SPECIAL_REQ_MSG_SIZE, MAX_MESSAGE_SIZE,
       SectionByte, WishByte
  <2> QED BY <1>4, <2>1, StatusesTyped, RefusedFits DEF StatusOf
<1> DEFINE answer == Sent(WithStatus(Front(r), Status.Ack))
<1>15. Len(<<answer>>) = 1 /\ <<answer>>[1] = answer
  OBVIOUS
<1> HIDE DEF answer
<1>16. /\ handle_request(r, {}, outcome).store = store
       /\ handle_request(r, {}, outcome).replies = <<answer>>
  BY <1>8, <1>12, <1>13 DEF answer
<1>17. StatusOf(answer) = Status.Ack
  BY <1>14 DEF answer
<1> QED BY <1>15, <1>16, <1>17

\* Every answer to a backup but the last one of all parts is the one for a part.
LEMMA BackupAnswer ==
  ASSUME TypeOK, NEW m \in Seq(Nat), Accepted(m),
         m[WishByte] = Wish.Backup, m[AmountByte] = Amount.All,
         NEW j \in DOMAIN ReadOutcome(m, {}).replies,
         StatusOf(ReadOutcome(m, {}).replies[j]) = Status.Request
  PROVE  \E part \in Nat : /\ part < parts(SectionOf(m))
                           /\ Restores(ReadOutcome(m, {}).replies[j], m, part)
<1> DEFINE chosen == AnsweredParts(m)
           n == Len(chosen)
           answers == [i \in DOMAIN chosen |-> PartAnswer(m, chosen[i], {})]
           verdicts == [i \in DOMAIN answers |-> answers[i].status]
           good == Cardinality(BeforeError(verdicts))
           complete == good = Len(answers)
           sent == [i \in 1 .. (IF complete THEN good ELSE good + 1) |-> answers[i].message]
           replies == ReadOutcome(m, {}).replies
<1>1. /\ layout = Layout /\ check_part(m) /\ Len(m) = generate_message_length(m)
      /\ m[BlockByte] \in 0 .. Len(Layout) - 1
      /\ m[SectionByte] \in 0 .. Len(Layout[m[BlockByte] + 1]) - 1
  BY AcceptedIs DEF TypeOK
<1>2. SectionOf(m) \in [count : Nat, min : Nat, max : Nat]
  BY <1>1, SectionTyped
<1>3. Len(m) = STD_REQ_MIN_MSG_SIZE
  BY <1>1 DEF generate_message_length, Reads
<1>4. /\ n \in Nat /\ DOMAIN chosen = 1 .. n
      /\ \A i \in DOMAIN chosen : /\ chosen[i] \in Nat /\ chosen[i] < parts(SectionOf(m))
                                  /\ AsksWhole(m) \/ chosen[i] = m[PartByte]
  <2>1. /\ n \in Nat /\ DOMAIN chosen = 1 .. n
        /\ \A i \in DOMAIN chosen : chosen[i] \in Nat
        /\ AsksWhole(m) => \A i \in DOMAIN chosen : chosen[i] < parts(SectionOf(m))
        /\ ~AsksWhole(m) => \A i \in DOMAIN chosen : chosen[i] = m[PartByte]
    BY <1>2, <1>3, AnsweredPartsIs
  <2>2. ~AsksWhole(m) => m[PartByte] < parts(SectionOf(m))
    BY <1>1 DEF check_part
  <2> HIDE DEF n, chosen
  <2> QED BY <2>1, <2>2
<1>5. \A i \in 1 .. n : /\ Restores(answers[i].message, m, chosen[i])
                        /\ answers[i].status = Status.Ack
  <2> TAKE i \in 1 .. n
  <2>1. i \in DOMAIN chosen /\ answers[i] = PartAnswer(m, chosen[i], {})
    BY <1>4
  <2> HIDE DEF answers, chosen
  <2> QED BY <1>4, <2>1, BackupPart
<1>6. Len(answers) = n /\ DOMAIN answers = 1 .. n
  <2>1. answers \in [1 .. n -> {answers[i] : i \in 1 .. n}]
    BY <1>4
  <2> HIDE DEF n, answers
  <2> QED BY <1>4, <2>1, FunctionIsSeq
<1>7. good = n
  <2>1. DOMAIN verdicts = 1 .. n /\ \A i \in 1 .. n : verdicts[i] = Status.Ack
    BY <1>5, <1>6
  <2> HIDE DEF verdicts, n
  <2> QED BY <1>4, <2>1, GoodIs
<1>8. /\ sent = [i \in 1 .. n |-> answers[i].message]
      /\ replies = Append(sent, FinalAck(m)) \/ replies = sent
  <2>1. replies = IF complete /\ m[PartByte] = PART_ALL_MESSAGES_WITH_ACK
                  THEN Append(sent, FinalAck(m)) ELSE sent
    BY DEF ReadOutcome, Outcome
  <2>2. complete
    BY <1>6, <1>7
  <2>3. sent = [i \in 1 .. good |-> answers[i].message]
    BY <2>2
  <2> HIDE DEF replies, answers, n, good
  <2> QED BY <1>7, <2>1, <2>3
<1> HIDE DEF answers, good
<1>9. StatusOf(FinalAck(m)) # Status.Request
  BY DEF FinalAck, StatusOf, StatusByte, Status
<1> DEFINE S == {answers[i].message : i \in 1 .. n} \cup {FinalAck(m)}
<1>10. sent \in Seq(S) /\ Len(sent) = n
  <2>1. sent \in [1 .. n -> S]
    BY <1>8
  <2> HIDE DEF sent, S
  <2> QED BY <1>4, <2>1, FunctionIsSeq
<1>11. replies[j] \in S
  <2>1. FinalAck(m) \in S
    OBVIOUS
  <2>2. replies \in Seq(S)
    <3> HIDE DEF S, sent, replies
    <3>1. Append(sent, FinalAck(m)) \in Seq(S)
      BY <1>10, <2>1, AppendProperties
    <3>2. replies = Append(sent, FinalAck(m)) \/ replies = sent
      BY <1>8
    <3> QED BY <1>10, <3>1, <3>2
  <2>3. j \in DOMAIN replies
    OBVIOUS
  <2> HIDE DEF S, replies
  <2> QED BY <2>2, <2>3, ElementOfSeq, LenProperties
<1>12. PICK i \in 1 .. n : replies[j] = answers[i].message
  <2>1. StatusOf(replies[j]) = Status.Request
    OBVIOUS
  <2> HIDE DEF replies
  <2> QED BY <1>9, <1>11, <2>1
<1>13. Restores(replies[j], m, chosen[i]) /\ chosen[i] \in Nat /\ chosen[i] < parts(SectionOf(m))
  <2> HIDE DEF replies, chosen, n
  <2> QED BY <1>4, <1>5, <1>12
<1> QED BY <1>13
-----------------------------------------------------------------------------
(* The device between a backup's answers and their end.                      *)

\* Whether a request is accepted, and what it restores, depends on nothing else.
LEMMA SameState ==
  ASSUME layout' = layout, enabled' = enabled, store' = store,
         NEW CONSTANT m, NEW CONSTANT r, NEW CONSTANT part
  PROVE  /\ Accepted(m)' <=> Accepted(m)
         /\ parts(SectionOf(m))' = parts(SectionOf(m))
         /\ Restores(r, m, part)' <=> Restores(r, m, part)
<1>1. SectionOf(m)' = SectionOf(m)
  BY DEF SectionOf
<1>2. parts(SectionOf(m))' = parts(SectionOf(m))
  BY <1>1 DEF parts
<1>3. Accepted(m)' <=> Accepted(m)
  <2>1. check_part(m)' <=> check_part(m)
    BY <1>2 DEF check_part
  <2>2. generate_message_length(m)' = generate_message_length(m)
    BY <1>1, <1>2 DEF generate_message_length
  <2>3. decode_standard_request(m)' = decode_standard_request(m)
    BY <2>1, <2>2 DEF decode_standard_request
  <2> QED BY <2>3 DEF Accepted, Unanswerable
<1>4. Restores(r, m, part)' <=> Restores(r, m, part)
  BY <1>1 DEF Restores
<1> QED BY <1>2, <1>3, <1>4

\* A request that is answered leaves the connection alone, if it is no special one.
LEMMA StandardKeepsOpen ==
  ASSUME NEW m, NEW fails, NEW outcome, Len(m) # SPECIAL_REQ_MSG_SIZE
  PROVE  handle_request(m, fails, outcome).enabled = enabled
<1>1. /\ \A status : Refused(m, status).enabled = enabled
      /\ Outcome(<<>>, store, enabled).enabled = enabled
  BY DEF Refused, Outcome
<1>2. process_standard_request(m, fails).enabled = enabled
  BY DEF process_standard_request, ReadOutcome, WriteOutcome, Outcome
<1> QED BY <1>1, <1>2 DEF handle_request

\* handle_packet() of the last packet of a backup.
LEMMA StandsHandled ==
  ASSUME Typed, TypeOK, NEW packet, packet.payload \in Seq(Nat), PacketHandled(packet),
         layout' = layout
  PROVE  AnswersStand'
<1> DEFINE m == Append(Buffer(packet) \o packet.payload, END)
<1>1. PICK fails \in {{}} \cup {{q} : q \in Params}, outcome \in CustomOutcomes :
        LET result == handle_request(m, fails, outcome)
        IN /\ store' = result.store /\ enabled' = result.enabled
           /\ event' = [handled |-> m, fails |-> fails, replies |-> result.replies]
  BY DEF PacketHandled
<1>2. m \in Seq(Nat)
  BY HandledTyped
<1> HIDE DEF m
<1>3. event'.handled = m /\ event'.fails = fails
      /\ event'.replies = handle_request(m, fails, outcome).replies
  BY <1>1
<1>4. ASSUME NEW CONSTANT h, h = m, Accepted(h)', fails = {},
             h[WishByte] = Wish.Backup, h[AmountByte] = Amount.All,
             NEW CONSTANT r, r \in {event'.replies[j] : j \in DOMAIN event'.replies},
             StatusOf(r) = Status.Request
      PROVE  \E part \in 0 .. parts(SectionOf(h))' - 1 : Restores(r, h, part)'
  <2>1. Len(h) # SPECIAL_REQ_MSG_SIZE
    BY <1>4 DEF Accepted
  <2>2. enabled' = enabled
    BY <1>1, <1>4, <2>1, StandardKeepsOpen
  <2>3. Reads(h)
    BY <1>4 DEF Reads
  <2>4. store' = store
    BY <1>1, <1>2, <1>4, <2>3, AcceptedSet
  <2>5. Accepted(h)
    BY <1>4, <2>2, <2>4, SameState
  <2>6. handle_request(h, {}, outcome) = ReadOutcome(h, {})
    BY <2>3, <2>5 DEF Accepted, handle_request, process_standard_request
  <2>7. PICK j \in DOMAIN ReadOutcome(h, {}).replies : r = ReadOutcome(h, {}).replies[j]
    BY <1>3, <1>4, <2>6
  <2>8. PICK part \in Nat : part < parts(SectionOf(h)) /\ Restores(r, h, part)
    BY <1>2, <1>4, <2>5, <2>7, BackupAnswer
  <2>9. parts(SectionOf(h)) \in Nat
    <3>1. SectionOf(h) \in [count : Nat, min : Nat, max : Nat]
      BY <1>2, <1>4, <2>5, AcceptedIs, SectionTyped DEF TypeOK
    <3> QED BY <3>1, PartsIs
  <2>10. part \in 0 .. parts(SectionOf(h))' - 1 /\ Restores(r, h, part)'
    BY <2>2, <2>4, <2>8, <2>9, SameState
  <2> QED BY <2>10
<1>5. ASSUME NEW CONSTANT h \in {event'.handled}, Accepted(h)', event'.fails = {},
             h[WishByte] = Wish.Backup, h[AmountByte] = Amount.All,
             NEW CONSTANT r \in {event'.replies[j] : j \in DOMAIN event'.replies},
             StatusOf(r) = Status.Request
      PROVE  \E part \in 0 .. parts(SectionOf(h))' - 1 : Restores(r, h, part)'
  BY <1>3, <1>4, <1>5
<1>6. event'.handled \in Seq(Nat)
  BY <1>2, <1>3
<1> QED BY <1>5, <1>6 DEF AnswersStand

\* A call that handles nothing leaves no answers.
LEMMA StandsUnhandled ==
  ASSUME event'.handled = <<>>
  PROVE  AnswersStand'
BY EmptySeq DEF AnswersStand

\* Only the tool's packets bring a message that is handled.
LEMMA OnlyPacketsAreHandled ==
  ASSUME Next, ~ToolBegins, ~ToolGoesOn
  PROVE  event'.handled = <<>>
<1>0. Quiet => event.handled = <<>>
  BY DEF Quiet, NoEvent
<1>1. CASE Quiet /\ event' = event
  BY <1>0, <1>1
<1>2. ASSUME NEW values \in CustomValues, NEW ack \in BOOLEAN,
             send_custom_message(values, ack)
      PROVE  event'.handled = <<>>
  BY <1>2 DEF send_custom_message, NoEvent
<1>3. CASE AnswersAreRead
  BY <1>3 DEF AnswersAreRead, NoEvent
<1>4. CASE OtherPacket \/ close_connection \/ reset
  BY <1>1, <1>4 DEF OtherPacket, close_connection, reset
<1>5. CASE \E state \in BOOLEAN : set_user_error_ignore_mode(state)
  BY <1>1, <1>5 DEF set_user_error_ignore_mode
<1>6. CASE \E l \in {<<>>, Layout} : set_layout(l)
  BY <1>1, <1>6 DEF set_layout
<1>7. CASE \E table \in CustomTables : setup_custom_requests(table)
  BY <1>1, <1>7 DEF setup_custom_requests
<1> QED BY <1>2, <1>3, <1>4, <1>5, <1>6, <1>7 DEF Next

\* Until the answers are read only a packet that ends a message brings others.
LEMMA StandsNext == Typed /\ TypeOK /\ AnswersStand /\ [Next]_vars => AnswersStand'
<1> SUFFICES ASSUME Typed, TypeOK, AnswersStand, [Next]_vars PROVE AnswersStand'
  OBVIOUS
<1>0. Quiet => event.handled = <<>>
  BY DEF Quiet, NoEvent
<1>1. ASSUME NEW m \in Seq(Nat), NEW left \in Seq(Nat), NEW starts, ToolSends(m, left, starts)
      PROVE  AnswersStand'
  <2>1. PICK packet : packet.payload \in Seq(Nat) /\ handle_packet(packet)
    <3> DEFINE size == IF Len(left) < PacketPayload THEN Len(left) ELSE PacketPayload
               packet == [starts |-> starts,
                          ends |-> SubSeq(left, size + 1, Len(left)) = <<>>,
                          payload |-> SubSeq(left, 1, size)]
    <3>1. size \in 0 .. Len(left)
      BY SysExAssumption, LenProperties
    <3>2. packet.payload \in Seq(Nat)
      BY <3>1, SubSeqTyped
    <3>3. handle_packet(packet)
      BY <1>1 DEF ToolSends
    <3> QED BY <3>2, <3>3
  <2>2. CASE PacketCollected(packet)
    <3>1. event'.handled = <<>>
      BY <1>0, <1>1, <2>2 DEF PacketCollected, ToolSends
    <3> QED BY <3>1, StandsUnhandled
  <2>3. CASE PacketHandled(packet)
    BY <2>1, <2>3, StandsHandled DEF handle_packet
  <2> QED BY <2>1, <2>2, <2>3 DEF handle_packet
<1>2. CASE ToolBegins
  BY <1>1, <1>2, SysExAssumption DEF ToolBegins
<1>3. CASE ToolGoesOn
  BY <1>1, <1>3 DEF ToolGoesOn, Typed
<1>4. CASE UNCHANGED vars
  <2>1. layout' = layout /\ enabled' = enabled /\ store' = store /\ event' = event
    BY <1>4 DEF vars, device
  <2>2. ASSUME NEW CONSTANT m \in {event'.handled}, m # <<>>, Accepted(m)', event'.fails = {},
               m[WishByte] = Wish.Backup, m[AmountByte] = Amount.All,
               NEW CONSTANT r \in {event'.replies[j] : j \in DOMAIN event'.replies},
               StatusOf(r) = Status.Request
        PROVE  \E part \in 0 .. parts(SectionOf(m))' - 1 : Restores(r, m, part)'
    <3>1. Accepted(m)
      BY <2>1, <2>2, SameState
    <3>2. PICK part \in 0 .. parts(SectionOf(m)) - 1 : Restores(r, m, part)
      BY <2>1, <2>2, <3>1 DEF AnswersStand
    <3> QED BY <2>1, <3>2, SameState
  <2>3. event'.handled \in Seq(Nat)
    BY <2>1 DEF AnswersStand
  <2> QED BY <2>2, <2>3 DEF AnswersStand
<1> QED BY <1>2, <1>3, <1>4, OnlyPacketsAreHandled, StandsUnhandled

\* The values start at the least of their section, and a SET keeps to its range.
LEMMA RangeInit == Init => InRange
<1> SUFFICES ASSUME Init, NEW q \in Params
             PROVE  check_new_value(Layout[q[1] + 1][q[2] + 1], store[q])
  BY DEF InRange
<1> DEFINE sec == Layout[q[1] + 1][q[2] + 1]
<1>1. sec \in [count : Nat, min : Nat, max : Nat] /\ sec.min <= sec.max
  BY ParamHasSection
<1>2. store[q] = sec.min
  BY DEF Init
<1> HIDE DEF sec
<1>3. check_new_value(sec, store[q])
  BY <1>1, <1>2 DEF check_new_value
<1> QED BY <1>3 DEF sec

LEMMA RangeNext == Typed /\ InRange /\ [Next]_vars => InRange'
<1> SUFFICES ASSUME Typed, InRange, [Next]_vars, NEW CONSTANT q \in Params
             PROVE  check_new_value(Layout[q[1] + 1][q[2] + 1], store'[q])
  BY DEF InRange, check_new_value
<1>1. CASE store'[q] = store[q]
  BY <1>1 DEF InRange
<1>2. CASE store'[q] # store[q]
  <2>1. ChangedByOpenSet
    BY ChangesByOpenSet
  <2> QED BY <1>2, <2>1 DEF ChangedByOpenSet
<1> QED BY <1>1, <1>2

\* What is known of the answers and of the values makes each answer restore.
LEMMA StandingAnswersRestore == TypeOK /\ InRange /\ AnswersStand => BackupRestores
<1> DEFINE m == event.handled
           outcome == CHOOSE o \in CustomOutcomes : TRUE
<1> SUFFICES ASSUME TypeOK, InRange, AnswersStand,
                    m # <<>>, Accepted(m), event.fails = {},
                    m[WishByte] = Wish.Backup, m[AmountByte] = Amount.All,
                    NEW j \in DOMAIN event.replies,
                    StatusOf(event.replies[j]) = Status.Request
             PROVE  LET again == handle_request(event.replies[j], {}, outcome)
                    IN /\ again.store = store
                       /\ Len(again.replies) = 1 /\ StatusOf(again.replies[1]) = Status.Ack
  BY DEF BackupRestores
<1>1. m \in Seq(Nat)
  BY DEF AnswersStand
<1>2. PICK part \in 0 .. parts(SectionOf(m)) - 1 : Restores(event.replies[j], m, part)
  BY DEF AnswersStand
<1>3. layout \in {<<>>, Layout}
  BY DEF TypeOK
<1> DEFINE r == event.replies[j]
<1> HIDE DEF m, outcome, r
<1>4. /\ layout = Layout /\ enabled
      /\ m[BlockByte] \in 0 .. Len(Layout) - 1
      /\ m[SectionByte] \in 0 .. Len(Layout[m[BlockByte] + 1]) - 1
  BY <1>1, <1>3, AcceptedIs
<1>5. SectionOf(m) \in [count : Nat, min : Nat, max : Nat]
  BY <1>4, SectionTyped
<1>6. part \in Nat /\ part < parts(SectionOf(m))
  <2>1. parts(SectionOf(m)) \in Nat
    BY <1>5, PartsIs
  <2> QED BY <1>2, <2>1
<1>7. /\ handle_request(r, {}, outcome).store = store
      /\ Len(handle_request(r, {}, outcome).replies) = 1
      /\ StatusOf(handle_request(r, {}, outcome).replies[1]) = Status.Ack
  <2>1. Restores(r, m, part)
    BY <1>2 DEF r
  <2> QED BY <1>4, <1>6, <2>1, RestoreIsAcked
<1> QED BY <1>7 DEF r

\* What a BACKUP of a section answers is requests that restore it: each is
\* acknowledged when it is sent back, and leaves every value as it is.
THEOREM BackupsRestore == Spec => []BackupRestores
<1> DEFINE Inv == Typed /\ TypeOK /\ InRange /\ AnswersStand
<1>1. Init => Inv
  <2>1. Init => AnswersStand
    BY EmptySeq DEF Init, NoEvent, AnswersStand
  <2> QED BY <2>1, TypedInit, FitsInit, RangeInit
<1>2. Inv /\ [Next]_vars => Inv'
  BY TypedNext, FitsNext, RangeNext, StandsNext
<1>3. Inv => BackupRestores
  BY StandingAnswersRestore
<1> QED BY <1>1, <1>2, <1>3, PTL DEF Spec
-----------------------------------------------------------------------------
(* Every request gets one verdict.                                           *)

\* What comes before the first error is the positions up to it.
LEMMA ErrorFollows ==
  ASSUME NEW n \in Nat, NEW statuses, DOMAIN statuses = 1 .. n
  PROVE  LET good == Cardinality(BeforeError(statuses))
         IN /\ good \in 0 .. n /\ BeforeError(statuses) = 1 .. good
            /\ \A k \in 1 .. good : statuses[k] = Status.Ack
            /\ good # n => good + 1 \in 1 .. n /\ statuses[good + 1] # Status.Ack
<1> DEFINE before == BeforeError(statuses)
           bad == {k \in 1 .. n : statuses[k] # Status.Ack}
           good == Cardinality(before)
<1>1. before = {k \in 1 .. n : \A e \in bad : k < e}
  BY DEF BeforeError
<1>2. good \in 0 .. n
  BY GoodIs
<1>3. before \in SUBSET (1 .. n)
  BY <1>1
<1>4. \A k \in before : statuses[k] = Status.Ack
  BY <1>1
<1> HIDE DEF before
<1>5. ASSUME NEW k \in 1 .. n, k \notin before PROVE good < k
  <2>1. PICK e \in bad : ~(k < e)
    BY <1>1, <1>5
  <2>2. before \in SUBSET (1 .. k - 1)
    <3>1. \A i \in before : i \in 1 .. n /\ i < e
      BY <1>1, <2>1
    <3> QED BY <2>1, <3>1
  <2>3. IsFiniteSet(1 .. k - 1) /\ Cardinality(1 .. k - 1) = k - 1
    BY FS_Interval
  <2>4. good <= k - 1
    BY <2>2, <2>3, FS_Subset
  <2> QED BY <1>2, <2>4
<1> HIDE DEF good
<1>6. 1 .. good \in SUBSET before
  BY <1>2, <1>5
<1>7. before = 1 .. good
  <2>1. IsFiniteSet(before)
    <3>1. IsFiniteSet(1 .. n)
      BY FS_Interval
    <3> QED BY <1>3, <3>1, FS_Subset
  <2>2. Cardinality(1 .. good) = good
    BY <1>2, FS_Interval
  <2> QED BY <1>6, <2>1, <2>2, FS_Subset DEF good
<1>8. ASSUME good # n PROVE good + 1 \in 1 .. n /\ statuses[good + 1] # Status.Ack
  <2>1. good + 1 \in 1 .. n /\ good + 1 \notin before
    BY <1>2, <1>7, <1>8
  <2>2. PICK e \in bad : ~(good + 1 < e)
    BY <1>1, <2>1
  <2>3. e \notin before
    BY <1>4
  <2>4. e = good + 1
    BY <1>2, <1>7, <2>2, <2>3
  <2> QED BY <2>1, <2>2, <2>4
<1> QED BY <1>2, <1>4, <1>7, <1>8 DEF before, good

\* add_to_response() leaves what is in the buffer.
LEMMA AddedKeeps ==
  ASSUME NEW S, NEW buffer \in Seq(S), NEW values \in Seq(S),
         Len(buffer) <= MAX_MESSAGE_SIZE - 1, NEW i \in 1 .. Len(buffer)
  PROVE  Added(buffer, values)[i] = buffer[i]
<1> DEFINE room == MAX_MESSAGE_SIZE - 1 - Len(buffer)
           n == IF room < Len(values) THEN room ELSE Len(values)
           tail == SubSeq(values, 1, n)
<1>1. Len(buffer) \in Nat /\ n \in 0 .. Len(values)
  BY BufferSize, LenProperties
<1>2. Added(buffer, values) = buffer \o tail
  BY DEF Added
<1> HIDE DEF n
<1>3. tail \in Seq(S) /\ Len(tail) \in Nat
  <2>1. \A k \in 1 .. n : values[k] \in S
    BY <1>1, ElementOfSeq, LenProperties
  <2>2. n \in Int
    BY <1>1, LenProperties
  <2>3. tail \in Seq(S)
    BY <2>1, <2>2, SubSeqProperties
  <2> QED BY <2>3, LenProperties
<1> HIDE DEF tail
<1>4. i \in 1 .. Len(buffer) + Len(tail)
  BY <1>1, <1>3
<1>5. (buffer \o tail)[i] = buffer[i]
  BY <1>3, <1>4, ConcatProperties
<1> QED BY <1>2, <1>5

\* An answer to a GET starts as the request, acknowledged.
LEMMA GetBase ==
  ASSUME NEW m \in Seq(Nat), Len(m) = STD_REQ_MIN_MSG_SIZE, m[WishByte] # Wish.Backup,
         NEW part \in Nat
  PROVE  LET base == IF AsksWhole(m) THEN [AnswerBase(m) EXCEPT ![PartByte] = part]
                     ELSE AnswerBase(m)
         IN base \in Seq(Nat) /\ Len(base) = 10 /\ base[3] = Status.Ack
<1> DEFINE answer == AnswerBase(m)
           whole == [answer EXCEPT ![4] = part]
<1> HIDE DEF answer, whole
<1>1. Len(m) = 11
  BY DEF STD_REQ_MIN_MSG_SIZE, SectionByte
<1>2. Front(m) \in Seq(Nat) /\ Len(Front(m)) = 10
  <2>1. m # <<>>
    <3>1. Len(<<>>) = 0
      BY EmptySeq
    <3>2. Len(m) # 0
      BY <1>1
    <3> QED BY <3>1, <3>2
  <2>2. Front(m) \in Seq(Nat) /\ Len(Front(m)) = Len(m) - 1
    BY <2>1, FrontIs
  <2> QED BY <1>1, <2>2
<1>3. answer = WithStatus(Front(m), Status.Ack)
  BY DEF AnswerBase, answer
<1>4. answer \in Seq(Nat) /\ Len(answer) = 10 /\ answer[3] = Status.Ack
  <2>1. 3 \in 1 .. Len(Front(m)) /\ Status.Ack \in Nat
    BY <1>2 DEF Status
  <2>2. /\ WithStatus(Front(m), Status.Ack) \in Seq(Nat)
        /\ Len(WithStatus(Front(m), Status.Ack)) = Len(Front(m))
        /\ WithStatus(Front(m), Status.Ack)[StatusByte] = Status.Ack
    <3> DEFINE f == Front(m)
               ack == Status.Ack
    <3> HIDE DEF f, ack
    <3>1. f \in Seq(Nat) /\ 3 \in 1 .. Len(f) /\ ack \in Nat
      BY <1>2, <2>1 DEF f, ack
    <3>2. WithStatus(f, ack) \in Seq(Nat)
      BY <3>1, WithStatusIs
    <3>3. Len(WithStatus(f, ack)) = Len(f)
      BY <3>1, WithStatusIs
    <3>4. WithStatus(f, ack)[StatusByte] = ack
      BY <3>1, WithStatusIs
    <3> QED BY <3>2, <3>3, <3>4 DEF f, ack
  <2> QED BY <1>2, <1>3, <2>2 DEF StatusByte
<1>5. whole \in Seq(Nat) /\ Len(whole) = 10 /\ whole[3] = Status.Ack
  <2>1. 4 \in 1 .. Len(answer) /\ 3 \in 1 .. Len(answer)
    BY <1>4
  <2>2. /\ whole \in Seq(Nat) /\ Len(whole) = Len(answer)
        /\ \A j \in 1 .. Len(answer) : j # 4 => whole[j] = answer[j]
    <3> DEFINE S == Nat
               k == 4
               w == [answer EXCEPT ![k] = part]
    <3>1. answer \in Seq(S) /\ part \in S /\ k \in Nat /\ 1 <= k /\ k <= Len(answer)
      BY <1>4
    <3> HIDE DEF S, k
    <3>2. w \in Seq(S) /\ Len(w) = Len(answer)
      BY <3>1, FieldSet
    <3>3. \A j \in 1 .. Len(answer) : j # k => w[j] = answer[j]
      BY <3>1, FieldSet
    <3> QED BY <3>2, <3>3 DEF S, k, w, whole
  <2> QED BY <1>4, <2>1, <2>2
<1>6. [AnswerBase(m) EXCEPT ![PartByte] = part] = whole
  BY DEF answer, whole, PartByte
<1> QED BY <1>4, <1>5, <1>6 DEF answer

\* A part that could be read is not answered with an error.
LEMMA PartVerdict ==
  ASSUME NEW m \in Seq(Nat), Len(m) = STD_REQ_MIN_MSG_SIZE, NEW part \in Nat, NEW fails,
         SectionOf(m) \in [count : Nat, min : Nat, max : Nat],
         AsksWhole(m) \/ part = m[PartByte], PartAnswer(m, part, fails).status = Status.Ack
  PROVE  StatusOf(PartAnswer(m, part, fails).message) \in {Status.Ack, Status.Request}
<1> DEFINE indices == Answered(m, part)
           n == Len(indices)
           statuses == [k \in DOMAIN indices |-> ReadStatus(m, indices[k], fails)]
           good == Cardinality(BeforeError(statuses))
           value(k) == ReadValue(m, indices[k], fails)
           values == [k \in 1 .. good |-> value(k)]
           base == IF AsksWhole(m) THEN [AnswerBase(m) EXCEPT ![PartByte] = part]
                   ELSE AnswerBase(m)
           S == Nat \cup {value(k) : k \in 1 .. good}
           read == Added(base, values)
<1>1. n \in Nat /\ DOMAIN indices = 1 .. n
  BY AnsweredCount
<1>2. good \in 0 .. n /\ (good # n => good + 1 \in 1 .. n /\ statuses[good + 1] # Status.Ack)
  <2>1. DOMAIN statuses = 1 .. n
    BY <1>1
  <2> HIDE DEF statuses, n
  <2> QED BY <1>1, <2>1, ErrorFollows
<1>3. PartAnswer(m, part, fails) =
        [message |-> Sent(IF good = n THEN read ELSE WithStatus(read, statuses[good + 1])),
         status |-> IF good = n THEN Status.Ack ELSE statuses[good + 1]]
  BY DEF PartAnswer
<1>4. /\ base \in Seq(Nat) /\ 8 <= Len(base) /\ Len(base) <= 10
      /\ base[3] \in {Status.Ack, Status.Request}
  <2>1. base \in Seq(Nat) /\ 8 <= Len(base) /\ Len(base) <= 10
    BY AnswerBaseFits
  <2>2. CASE m[WishByte] = Wish.Backup
    <3>1. base[3] = Status.Request
      BY <2>2, BackupBase
    <3> HIDE DEF base
    <3> QED BY <2>1, <3>1
  <2>3. CASE m[WishByte] # Wish.Backup
    <3>1. base[3] = Status.Ack
      BY <2>3, GetBase
    <3> HIDE DEF base
    <3> QED BY <2>1, <3>1
  <2> QED BY <2>2, <2>3
<1> HIDE DEF base, good, statuses, indices, n
<1>5. values \in Seq(S)
  <2>1. values \in [1 .. good -> S]
    OBVIOUS
  <2> HIDE DEF values, S
  <2> QED BY <1>1, <1>2, <2>1, FunctionIsSeq
<1>6. base \in Seq(S) /\ Nat \subseteq S
  <2>1. Nat \subseteq S
    OBVIOUS
  <2> HIDE DEF S
  <2> QED BY <1>4, <2>1, SeqMonotonic
<1> HIDE DEF values, S
<1>7. Len(base) \in Nat /\ Len(base) <= MAX_MESSAGE_SIZE - 1
  BY <1>4, LenProperties, BufferSize
<1>8. read \in Seq(S) /\ Len(base) <= Len(read) /\ read[3] = base[3]
  <2>1. read \in Seq(S) /\ Len(base) <= Len(read)
    BY <1>5, <1>6, <1>7, AddedFits
  <2>2. read[3] = base[3]
    BY <1>4, <1>5, <1>6, <1>7, AddedKeeps
  <2> QED BY <2>1, <2>2
<1>9. good = n /\ PartAnswer(m, part, fails).message = Sent(read)
  BY <1>2, <1>3
<1> HIDE DEF read
<1>10. 3 \in 1 .. Len(read)
  BY <1>4, <1>7, <1>8, LenProperties
<1>11. Sent(read)[3] = read[3]
  BY <1>6, <1>8, <1>10, SentIs
<1> QED BY <1>4, <1>8, <1>9, <1>11 DEF StatusOf, StatusByte

\* A reading request gets an answer unless it asks for all parts of none, and
\* no answer follows an error.
LEMMA ReadVerdict ==
  ASSUME NEW m \in Seq(Nat), Accepted(m), Reads(m), layout \in {<<>>, Layout}, NEW fails
  PROVE  LET replies == ReadOutcome(m, fails).replies
         IN /\ replies = <<>> => AsksWhole(m) /\ parts(SectionOf(m)) = 0
            /\ \A j \in DOMAIN replies :
                 StatusOf(replies[j]) \notin {Status.Ack, Status.Request} => j = Len(replies)
<1> DEFINE chosen == AnsweredParts(m)
           n == Len(chosen)
           answers == [i \in DOMAIN chosen |-> PartAnswer(m, chosen[i], fails)]
           verdicts == [i \in DOMAIN answers |-> answers[i].status]
           good == Cardinality(BeforeError(verdicts))
           complete == good = Len(answers)
           count == IF complete THEN good ELSE good + 1
           sent == [i \in 1 .. count |-> answers[i].message]
           S == {answers[i].message : i \in 1 .. count} \cup {FinalAck(m)}
           replies == ReadOutcome(m, fails).replies
           Fine(r) == StatusOf(r) \in {Status.Ack, Status.Request}
<1>1. SectionOf(m) \in [count : Nat, min : Nat, max : Nat]
  BY AcceptedIs, SectionTyped
<1>2. Len(m) = STD_REQ_MIN_MSG_SIZE
  BY AcceptedIs DEF generate_message_length
<1>3. /\ n \in Nat /\ DOMAIN chosen = 1 .. n
      /\ \A i \in 1 .. n : chosen[i] \in Nat /\ (AsksWhole(m) \/ chosen[i] = m[PartByte])
  <2>1. /\ n \in Nat /\ DOMAIN chosen = 1 .. n
        /\ \A i \in DOMAIN chosen : chosen[i] \in Nat
        /\ ~AsksWhole(m) => \A i \in DOMAIN chosen : chosen[i] = m[PartByte]
    BY <1>1, <1>2, AnsweredPartsIs
  <2> HIDE DEF n, chosen
  <2> QED BY <2>1
<1>4. n = 0 => AsksWhole(m) /\ parts(SectionOf(m)) = 0
  <2>1. CASE AsksWhole(m)
    <3> DEFINE p == parts(SectionOf(m))
    <3>1. p \in Nat
      BY <1>1, PartsIs
    <3>2. chosen = [j \in 1 .. p |-> j - 1]
      BY <2>1 DEF AnsweredParts
    <3>3. DOMAIN chosen = 1 .. p
      BY <3>2
    <3> HIDE DEF p, chosen, n
    <3>4. 1 .. n = 1 .. p
      BY <1>3, <3>3
    <3>5. n = 0 => p = 0
      BY <3>1, <3>4
    <3> QED BY <2>1, <3>5 DEF p
  <2>2. CASE ~AsksWhole(m)
    <3>1. chosen = <<m[PartByte]>>
      BY <2>2 DEF AnsweredParts
    <3> QED BY <3>1
  <2> QED BY <2>1, <2>2
<1>5. replies = IF complete /\ m[PartByte] = PART_ALL_MESSAGES_WITH_ACK
                THEN Append(sent, FinalAck(m)) ELSE sent
  BY DEF ReadOutcome, Outcome
<1>6. DOMAIN answers = 1 .. n /\ Len(answers) = n
  <2>1. answers \in [1 .. n -> {answers[i] : i \in 1 .. n}]
    BY <1>3
  <2> HIDE DEF n, answers
  <2> QED BY <1>3, <2>1, FunctionIsSeq
<1>7. good \in 0 .. n /\ \A k \in 1 .. good : verdicts[k] = Status.Ack
  <2>1. DOMAIN verdicts = 1 .. n
    BY <1>6
  <2> HIDE DEF verdicts, n
  <2> QED BY <1>3, <2>1, ErrorFollows
<1>8. \A k \in 1 .. good : Fine(answers[k].message)
  <2> TAKE k \in 1 .. good
  <2>1. k \in 1 .. n /\ verdicts[k] = Status.Ack
    <3> HIDE DEF good, n, verdicts
    <3> QED BY <1>3, <1>7
  <2>2. k \in DOMAIN chosen /\ answers[k] = PartAnswer(m, chosen[k], fails)
    BY <1>3, <2>1
  <2>3. answers[k].status = Status.Ack
    BY <1>6, <2>1
  <2> HIDE DEF answers, chosen, n
  <2>4. chosen[k] \in Nat /\ (AsksWhole(m) \/ chosen[k] = m[PartByte])
    BY <1>3, <2>1
  <2> QED BY <1>1, <1>2, <2>2, <2>3, <2>4, PartVerdict
<1>9. Fine(FinalAck(m))
  BY DEF FinalAck, StatusOf, StatusByte
<1> HIDE DEF answers, Fine, S
<1>10. count \in Nat /\ (complete => count = good) /\ (~complete => count = good + 1)
  <2> HIDE DEF good, n
  <2> QED BY <1>3, <1>7
<1>11. complete => good = n
  BY <1>6
<1> HIDE DEF count, complete
<1>12. sent \in Seq(S) /\ Len(sent) = count /\ DOMAIN sent = 1 .. count
  <2>1. sent \in [1 .. count -> S]
    BY DEF S
  <2>2. DOMAIN sent = 1 .. count
    OBVIOUS
  <2> HIDE DEF sent
  <2> QED BY <1>10, <2>1, <2>2, FunctionIsSeq
<1>13. \A k \in 1 .. count : sent[k] = answers[k].message
  OBVIOUS
<1> HIDE DEF sent, good, n, chosen
<1>14. CASE complete /\ m[PartByte] = PART_ALL_MESSAGES_WITH_ACK
  <2>1. replies = Append(sent, FinalAck(m)) /\ FinalAck(m) \in S
    BY <1>5, <1>14 DEF S
  <2> HIDE DEF replies
  <2>2. /\ replies \in Seq(S) /\ replies # <<>> /\ Len(replies) = count + 1
        /\ \A k \in 1 .. count : replies[k] = sent[k]
    BY <1>12, <2>1, AppendProperties
  <2>3. DOMAIN replies = 1 .. count + 1
    BY <2>2, LenProperties
  <2>4. \A j \in 1 .. count : Fine(replies[j])
    BY <1>8, <1>10, <1>13, <1>14, <2>2
  <2>5. \A j \in 1 .. count + 1 : j = count + 1 \/ j \in 1 .. count
    BY <1>10
  <2> QED BY <2>2, <2>3, <2>4, <2>5 DEF Fine, replies
<1>15. CASE ~(complete /\ m[PartByte] = PART_ALL_MESSAGES_WITH_ACK)
  <2>1. replies = sent
    BY <1>5, <1>15
  <2> HIDE DEF replies
  <2>2. DOMAIN replies = 1 .. count /\ Len(replies) = count
    BY <1>12, <2>1
  <2>3. replies = <<>> => n = 0
    <3>1. Len(<<>>) = 0
      BY EmptySeq
    <3>2. replies = <<>> => count = 0
      BY <2>2, <3>1
    <3> QED BY <1>3, <1>7, <1>10, <1>11, <3>2
  <2>4. \A j \in 1 .. count : j = count \/ Fine(replies[j])
    <3> TAKE j \in 1 .. count
    <3>1. j = count \/ j \in 1 .. good
      BY <1>3, <1>7, <1>10
    <3> QED BY <1>8, <1>13, <2>1, <3>1
  <2> QED BY <1>4, <2>2, <2>3, <2>4 DEF Fine, replies
<1> QED BY <1>14, <1>15

\* Any other request that is answered gets one answer.
LEMMA OneReply ==
  ASSUME NEW m, NEW fails, NEW outcome, ~Unanswerable(m), ~(Accepted(m) /\ Reads(m))
  PROVE  \E t : handle_request(m, fails, outcome).replies = <<t>>
<1> DEFINE result == handle_request(m, fails, outcome)
           Single(r) == \E t : r.replies = <<t>>
<1>1. \A t, values, open : Single(Outcome(<<t>>, values, open))
  BY DEF Outcome
<1>2. \A status : Single(Refused(m, status))
  BY <1>1 DEF Refused
<1> HIDE DEF Single
<1>3. CASE m[StatusByte] # Status.Request
  <2>1. result = Refused(m, Status.ErrorStatus)
    BY <1>3 DEF handle_request
  <2> QED BY <1>2, <2>1 DEF Single
<1>4. CASE m[StatusByte] = Status.Request /\ Len(m) = SPECIAL_REQ_MSG_SIZE
  <2>1. result = process_special_request(m, outcome)
    BY <1>4 DEF handle_request
  <2>2. Single(CustomAnswer(m, outcome))
    BY <1>1 DEF CustomAnswer
  <2>3. Single(process_special_request(m, outcome))
    <3> DEFINE wish == m[WishByte]
    <3>1. CASE wish = SpecialRequest.ConnOpen
      <4>1. process_special_request(m, outcome) =
              Outcome(<<Sent(WithStatus(Front(m), Status.Ack) \o <<>>)>>, store, TRUE)
        BY <3>1 DEF process_special_request, SpecialRequest
      <4> QED BY <1>1, <4>1
    <3>2. CASE wish # SpecialRequest.ConnOpen /\ wish = SpecialRequest.ConnClose
      BY <1>1, <1>2, <3>2 DEF process_special_request, SpecialRequest
    <3>3. CASE /\ wish # SpecialRequest.ConnOpen /\ wish # SpecialRequest.ConnClose
               /\ wish \in {SpecialRequest.BytesPerValue, SpecialRequest.ParamsPerMessage}
      BY <1>1, <1>2, <3>3 DEF process_special_request, SpecialRequest
    <3>4. CASE /\ wish # SpecialRequest.ConnOpen /\ wish # SpecialRequest.ConnClose
               /\ wish \notin {SpecialRequest.BytesPerValue, SpecialRequest.ParamsPerMessage}
      <4> DEFINE known == {r \in customs : r.id = wish}
      <4>1. process_special_request(m, outcome) =
              IF known = {} THEN Refused(m, Status.ErrorWish)
              ELSE IF enabled \/ \E r \in known : ~r.open THEN CustomAnswer(m, outcome)
              ELSE Refused(m, Status.ErrorConnection)
        BY <3>4 DEF process_special_request
      <4> QED BY <1>2, <2>2, <4>1
    <3> QED BY <3>1, <3>2, <3>3, <3>4
  <2> QED BY <2>1, <2>3 DEF Single
<1>5. CASE /\ m[StatusByte] = Status.Request /\ Len(m) # SPECIAL_REQ_MSG_SIZE
           /\ decode_standard_request(m) # Status.Ack
  <2>1. result = Refused(m, decode_standard_request(m))
    BY <1>5 DEF handle_request
  <2> QED BY <1>2, <2>1 DEF Single
<1>6. CASE /\ m[StatusByte] = Status.Request /\ Len(m) # SPECIAL_REQ_MSG_SIZE
           /\ decode_standard_request(m) = Status.Ack
  <2>1. ~Reads(m)
    BY <1>6 DEF Accepted
  <2>2. result = WriteOutcome(m, fails)
    BY <1>6, <2>1 DEF handle_request, process_standard_request
  <2>3. Single(WriteOutcome(m, fails))
    BY <1>1 DEF WriteOutcome
  <2> QED BY <2>2, <2>3 DEF Single
<1> QED BY <1>3, <1>4, <1>5, <1>6

-----------------------------------------------------------------------------
(* An acknowledged SET is stored.                                            *)

\* The first n values of a SET are for different indices.
IndicesDiffer(m, n) ==
  \A i, j \in 1 .. n : Assignments(m)[i].index = Assignments(m)[j].index => i = j

\* A value is stored if no other is set at its index and the handler takes it.
LEMMA ValueAssigned ==
  ASSUME NEW m, NEW fails, NEW n, IndicesDiffer(m, n),
         NEW k \in 1 .. n, Param(m, Assignments(m)[k].index) \in Params,
         Param(m, Assignments(m)[k].index) \notin fails
  PROVE  Assigned(m, 1 .. n, fails)[Param(m, Assignments(m)[k].index)] = Assignments(m)[k].value
<1> DEFINE todo == Assignments(m)
           q == Param(m, todo[k].index)
           hit == {i \in 1 .. n : Param(m, todo[i].index) = q /\ q \notin fails}
<1>1. Assigned(m, 1 .. n, fails)[q] =
        IF hit = {} THEN store[q] ELSE todo[CHOOSE i \in hit : TRUE].value
  BY DEF Assigned
<1>2. \A i \in hit : i = k
  <2> TAKE i \in hit
  <2>1. todo[i].index = todo[k].index
    BY DEF Param
  <2> QED BY <2>1 DEF IndicesDiffer
<1>3. k \in hit
  OBVIOUS
<1> HIDE DEF hit
<1>4. (CHOOSE i \in hit : TRUE) = k
  BY <1>2, <1>3
<1> QED BY <1>1, <1>3, <1>4

\* No value of a SET that is acknowledged was refused.
LEMMA AckedRefusesNone ==
  ASSUME NEW m \in Seq(Nat), Accepted(m), ~Reads(m), layout \in {<<>>, Layout}, NEW fails,
         StatusOf(WriteOutcome(m, fails).replies[1]) = Status.Ack,
         NEW n \in Nat, DOMAIN Assignments(m) = 1 .. n
  PROVE  /\ WriteOutcome(m, fails).store = Assigned(m, 1 .. n, fails)
         /\ \A k \in 1 .. n : WriteStatus(m, Assignments(m)[k], fails) = Status.Ack
<1> DEFINE todo == Assignments(m)
           statuses == [k \in DOMAIN todo |-> WriteStatus(m, todo[k], fails)]
           done == BeforeError(statuses)
           good == Cardinality(done)
           status == IF done = DOMAIN todo THEN Status.Ack ELSE statuses[good + 1]
<1>1. WriteOutcome(m, fails) =
        Outcome(<<Sent(WithStatus(Front(m), status))>>, Assigned(m, done, fails), enabled)
  BY DEF WriteOutcome
<1>2. DOMAIN statuses = 1 .. n /\ \A k \in 1 .. n : statuses[k] = WriteStatus(m, todo[k], fails)
  OBVIOUS
<1>3. /\ good \in 0 .. n /\ done = 1 .. good
      /\ \A k \in 1 .. good : statuses[k] = Status.Ack
      /\ good # n => good + 1 \in 1 .. n /\ statuses[good + 1] # Status.Ack
  <2> HIDE DEF statuses
  <2> QED BY <1>2, ErrorFollows
<1>4. \A a : WriteStatus(m, a, fails) \in Nat
  BY DEF WriteStatus, Status
<1> HIDE DEF statuses, good
<1>5. status \in Nat
  <2>1. done # 1 .. n => good # n
    BY <1>3
  <2> QED BY <1>2, <1>3, <1>4, <2>1, StatusesTyped
<1>6. status = Status.Ack
  <2>1. SPECIAL_REQ_MSG_SIZE <= Len(m) /\ Len(m) <= MAX_MESSAGE_SIZE
    <3>1. STD_REQ_MIN_MSG_SIZE - 1 <= Len(m) /\ Len(m) <= MAX_MESSAGE_SIZE
      BY AcceptedIs
    <3>2. Len(m) \in Nat
      BY LenProperties
    <3> QED BY <3>1, <3>2
        DEF SPECIAL_REQ_MSG_SIZE, STD_REQ_MIN_MSG_SIZE, WishByte, SectionByte
  <2> HIDE DEF status
  <2>2. Sent(WithStatus(Front(m), status))[StatusByte] = status
    BY <1>5, <2>1, RefusedFits
  <2>3. WriteOutcome(m, fails).replies[1] = Sent(WithStatus(Front(m), status))
    BY <1>1 DEF Outcome
  <2> QED BY <2>2, <2>3 DEF StatusOf
<1>7. good = n
  <2>1. done = 1 .. n => good = n
    <3>1. Cardinality(1 .. n) = n
      BY FS_Interval
    <3> QED BY <3>1 DEF good
  <2>2. done # 1 .. n => statuses[good + 1] = Status.Ack
    BY <1>6
  <2> QED BY <1>3, <2>1, <2>2
<1>8. WriteOutcome(m, fails).store = Assigned(m, done, fails)
  BY <1>1 DEF Outcome
<1> HIDE DEF done
<1> QED BY <1>2, <1>3, <1>7, <1>8

\* What an acknowledged SET carries is stored.
LEMMA SetIsStored ==
  ASSUME NEW m \in Seq(Nat), Accepted(m), ~Reads(m), layout \in {<<>>, Layout}, NEW fails,
         StatusOf(WriteOutcome(m, fails).replies[1]) = Status.Ack
  PROVE  LET first == IF m[AmountByte] = Amount.Single THEN m[IndexByte]
                      ELSE PARAMS_PER_MESSAGE * m[PartByte]
             values == IF m[AmountByte] = Amount.Single THEN <<m[IndexByte + 1]>> ELSE Values(m)
         IN \A k \in DOMAIN values :
              LET q == Param(m, first + k - 1)
              IN WriteOutcome(m, fails).store[q] = values[k] \/ (ignore /\ q \in fails)
<1> DEFINE todo == Assignments(m)
           after == WriteOutcome(m, fails).store
           count == SectionOf(m).count
<1>1. count \in Nat /\ \A i \in 0 .. count - 1 : Param(m, i) \in Params
  BY AcceptedIs, SectionTyped
<1>2. ASSUME NEW a, WriteStatus(m, a, fails) = Status.Ack
      PROVE  /\ m[AmountByte] = Amount.Single => ~(a.index >= count)
             /\ Param(m, a.index) \in fails => ignore
  BY <1>2 DEF WriteStatus, Status
<1>3. CASE m[AmountByte] = Amount.Single
  <2> DEFINE i == m[IndexByte]
             v == m[IndexByte + 1]
             q == Param(m, i)
  <2>1. todo = <<[index |-> i, value |-> v]>>
    BY <1>3 DEF Assignments
  <2>2. DOMAIN todo = 1 .. 1 /\ todo[1].index = i /\ todo[1].value = v
    BY <2>1
  <2>3. i \in Nat
    <3>1. STD_REQ_MIN_MSG_SIZE - 1 <= Len(m) /\ Len(m) \in Nat
      BY AcceptedIs, LenProperties
    <3>2. IndexByte \in 1 .. Len(m)
      BY <3>1 DEF STD_REQ_MIN_MSG_SIZE, SectionByte, IndexByte
    <3> QED BY <3>2, ElementOfSeq
  <2> HIDE DEF i, v, todo
  <2>4. after = Assigned(m, 1 .. 1, fails) /\ WriteStatus(m, todo[1], fails) = Status.Ack
    <3> DEFINE one == 1
    <3>1. DOMAIN Assignments(m) = 1 .. one /\ one \in Nat
      BY <2>2 DEF todo
    <3>2. 1 \in 1 .. one
      OBVIOUS
    <3> HIDE DEF one
    <3>3. /\ after = Assigned(m, 1 .. one, fails)
          /\ \A k \in 1 .. one : WriteStatus(m, Assignments(m)[k], fails) = Status.Ack
      BY <3>1, AckedRefusesNone
    <3>4. WriteStatus(m, Assignments(m)[1], fails) = Status.Ack
      BY <3>2, <3>3
    <3> QED BY <3>3, <3>4 DEF todo, one
  <2>5. i \in 0 .. count - 1 /\ (q \in fails => ignore)
    <3>1. ~(todo[1].index >= count) /\ (Param(m, todo[1].index) \in fails => ignore)
      BY <1>2, <1>3, <2>4
    <3> HIDE DEF count
    <3> QED BY <1>1, <2>2, <2>3, <3>1
  <2>6. q \in Params
    BY <1>1, <2>5
  <2>7. q \notin fails => after[q] = v
    <3> SUFFICES ASSUME q \notin fails PROVE after[q] = v
      OBVIOUS
    <3>1. \A k \in 1 .. 1 : k = 1
      OBVIOUS
    <3> DEFINE one == 1
    <3> HIDE DEF one
    <3>2. /\ one \in 1 .. one /\ Param(m, Assignments(m)[one].index) = q
          /\ Assignments(m)[one].value = v
          /\ IndicesDiffer(m, one)
      BY <2>2, <3>1 DEF one, todo, IndicesDiffer
    <3>3. Assigned(m, 1 .. one, fails)[Param(m, Assignments(m)[one].index)] = Assignments(m)[one].value
      BY <2>6, <3>2, ValueAssigned
    <3> QED BY <2>4, <3>2, <3>3 DEF one
  <2>8. after[q] = v \/ (ignore /\ q \in fails)
    BY <2>5, <2>7
  <2>9. i + 1 - 1 = i /\ DOMAIN <<v>> = {1} /\ <<v>>[1] = v
    BY <2>3
  <2> QED BY <1>3, <2>8, <2>9 DEF i, v
<1>4. CASE m[AmountByte] # Amount.Single
  <2> DEFINE part == m[PartByte]
             n == Cardinality(IndicesOf(SectionOf(m), part))
             first == PARAMS_PER_MESSAGE * part
             values == Values(m)
  <2>1. /\ part \in Nat /\ n \in Nat /\ Len(m) = SectionByte + 1 + n /\ DOMAIN todo = 1 .. n
        /\ \A k \in 1 .. n : /\ todo[k].index = first + k - 1
                             /\ todo[k].index \in 0 .. count - 1
                             /\ todo[k].value = m[SectionByte + k]
                             /\ m[SectionByte + k] \in Nat
    BY <1>4, PartAssignments
  <2> HIDE DEF n
  <2>2. DOMAIN values = 1 .. n /\ \A k \in 1 .. n : values[k] = m[SectionByte + k]
    <3> DEFINE a == IndexByte
               b == Len(m) - 1
               s == SubSeq(m, a, b)
    <3>1. a = 9 /\ b = 8 + n /\ a \in Int /\ b \in Int
      BY <2>1 DEF IndexByte, SectionByte
    <3>2. \A x \in a .. b : m[x] \in Nat
      <4>1. \A x \in 9 .. 8 + n : x - 8 \in 1 .. n /\ 8 + (x - 8) = x
        BY <2>1
      <4> QED BY <2>1, <3>1, <4>1 DEF SectionByte
    <3>3. values = s
      BY DEF Values
    <3> HIDE DEF a, b, values
    <3>4. /\ s \in Seq(Nat) /\ Len(s) = IF a <= b THEN b - a + 1 ELSE 0
          /\ \A x \in 1 .. b - a + 1 : s[x] = m[a + x - 1]
      BY <3>1, <3>2, SubSeqProperties
    <3> HIDE DEF s
    <3>5. Len(s) = n /\ b - a + 1 = n
      BY <2>1, <3>1, <3>4
    <3>6. \A k \in 1 .. n : a + k - 1 = SectionByte + k
      BY <2>1, <3>1 DEF SectionByte
    <3>7. DOMAIN s = 1 .. n
      BY <3>4, <3>5, LenProperties
    <3> QED BY <3>3, <3>4, <3>5, <3>6, <3>7
  <2> HIDE DEF todo, values, first
  <2>3. /\ after = Assigned(m, 1 .. n, fails)
        /\ \A k \in 1 .. n : WriteStatus(m, todo[k], fails) = Status.Ack
    BY <2>1, AckedRefusesNone DEF todo
  <2>4. first \in Nat
    BY <2>1, SysExAssumption DEF first
  <2>5. \A i, j \in 1 .. n : todo[i].index = todo[j].index => i = j
    BY <2>1, <2>4
  <2>6. ASSUME NEW k \in 1 .. n
        PROVE  LET q == Param(m, first + k - 1)
               IN after[q] = values[k] \/ (ignore /\ q \in fails)
    <3> DEFINE q == Param(m, todo[k].index)
    <3>1. q \in Params /\ q = Param(m, first + k - 1)
      BY <1>1, <2>1
    <3>2. q \in fails => ignore
      BY <1>2, <2>3
    <3>3. q \notin fails => after[q] = todo[k].value
      <4> SUFFICES ASSUME q \notin fails PROVE after[q] = todo[k].value
        OBVIOUS
      <4>1. /\ Param(m, Assignments(m)[k].index) \in Params
            /\ Param(m, Assignments(m)[k].index) \notin fails
            /\ IndicesDiffer(m, n)
        BY <2>5, <3>1 DEF todo, IndicesDiffer
      <4>2. Assigned(m, 1 .. n, fails)[Param(m, Assignments(m)[k].index)] =
              Assignments(m)[k].value
        BY <4>1, ValueAssigned
      <4> HIDE DEF after
      <4> QED BY <2>3, <4>2 DEF todo
    <3> HIDE DEF q, after
    <3> QED BY <2>1, <2>2, <3>1, <3>2, <3>3
  <2> HIDE DEF after
  <2>7. \A k \in DOMAIN values :
          LET q == Param(m, first + k - 1)
          IN after[q] = values[k] \/ (ignore /\ q \in fails)
    BY <2>2, <2>6
  <2> QED BY <1>4, <2>7 DEF after, values, first
<1> QED BY <1>3, <1>4

-----------------------------------------------------------------------------
(* A whole read sends every value once.                                      *)

\* A set of numbers that has 0, and with every number the next, has them all:
\* induction, with the formula to be shown as a set.
LEMMA NumbersFrom0 ==
  ASSUME NEW P, 0 \in P, \A n \in Nat : n \in P => n + 1 \in P
  PROVE  Nat \subseteq P
<1> DEFINE R == OpToRel(<, Nat)
           T == Nat \ P
<1>1. IsWellFoundedOn(R, Nat)
  BY NatLessThanWellFounded
<1>2. R = {ss \in Nat \X Nat : ss[1] < ss[2]}
  BY DEF OpToRel
<1> HIDE DEF R
<1> SUFFICES ASSUME T # {} PROVE FALSE
  OBVIOUS
<1>3. PICK x \in T : \A y \in T : ~(<<y, x>> \in R)
  <2>1. T \subseteq Nat
    OBVIOUS
  <2> HIDE DEF T
  <2> QED BY <1>1, <2>1, WFMin
<1>4. x # 0 /\ x \in Nat
  BY <1>3
<1>5. x - 1 \in Nat /\ x - 1 \notin T
  <2>1. x - 1 \in Nat
    BY <1>4
  <2>2. <<x - 1, x>> \in R
    BY <1>2, <1>4, <2>1
  <2> QED BY <1>3, <2>1, <2>2
<1>6. x - 1 \in P /\ (x - 1) + 1 = x
  BY <1>4, <1>5
<1> QED BY <1>3, <1>5, <1>6

\* The table has the beginnings of a sequence, flattened.
Beginnings(seqs, n, table) ==
  /\ Len(seqs) = n /\ table = [i \in 1 .. n |-> table[i]]
  /\ \A i \in 1 .. n : table[i] = IF i = 1 THEN seqs[i] ELSE table[i - 1] \o seqs[i]

\* Whatever such table there is, its last entry is the flattened sequence.
LEMMA FlattenIs ==
  ASSUME NEW n \in Nat \ {0}, NEW seqs, NEW table, Beginnings(seqs, n, table)
  PROVE  FlattenSeq(seqs) = table[n]
<1> DEFINE Body(t) == [i \in 1 .. n |-> IF i = 1 THEN seqs[i] ELSE t[i - 1] \o seqs[i]]
           flatten == CHOOSE t : t = Body(t)
<1>1. flatten = Body(flatten)
  <2>1. table = Body(table)
    BY DEF Beginnings
  <2> QED BY <2>1
<1>2. FlattenSeq(seqs) = flatten[n]
  BY DEF FlattenSeq, Beginnings
<1> HIDE DEF flatten
<1>3. \A i \in 1 .. n : flatten[i] = IF i = 1 THEN seqs[i] ELSE flatten[i - 1] \o seqs[i]
  BY <1>1
<1>4. \A i \in 1 .. n : table[i] = IF i = 1 THEN seqs[i] ELSE table[i - 1] \o seqs[i]
  BY DEF Beginnings
<1> DEFINE P == {i \in Nat : i \in 1 .. n => flatten[i] = table[i]}
<1>5. 0 \in P
  OBVIOUS
<1>6. ASSUME NEW i \in Nat, i \in P PROVE i + 1 \in P
  <2> SUFFICES ASSUME i + 1 \in 1 .. n PROVE flatten[i + 1] = table[i + 1]
    OBVIOUS
  <2>1. CASE i = 0
    <3>1. i + 1 = 1
      BY <2>1
    <3> QED BY <1>3, <1>4, <3>1
  <2>2. CASE i # 0
    <3>1. i \in 1 .. n /\ i + 1 # 1 /\ (i + 1) - 1 = i
      BY <2>2
    <3>2. flatten[i] = table[i]
      BY <1>6, <3>1
    <3>3. flatten[i + 1] = flatten[(i + 1) - 1] \o seqs[i + 1]
      BY <1>3, <3>1
    <3>4. table[i + 1] = table[(i + 1) - 1] \o seqs[i + 1]
      BY <1>4, <3>1
    <3> QED BY <3>1, <3>2, <3>3, <3>4
  <2> QED BY <2>1, <2>2
<1> HIDE DEF P
<1>7. n \in P
  BY <1>5, <1>6, NumbersFrom0
<1> QED BY <1>2, <1>7 DEF P

\* Two pieces of a sequence that follow each other are one.
LEMMA PiecesJoin ==
  ASSUME NEW a \in Nat, NEW b \in Nat, NEW f, \A x \in 1 .. a + b : f[x] \in Nat
  PROVE  [x \in 1 .. a |-> f[x]] \o [x \in 1 .. b |-> f[a + x]] = [x \in 1 .. a + b |-> f[x]]
<1> DEFINE s == [x \in 1 .. a |-> f[x]]
           t == [x \in 1 .. b |-> f[a + x]]
           u == [x \in 1 .. a + b |-> f[x]]
<1>1. s \in Seq(Nat) /\ Len(s) = a
  <2>1. s \in [1 .. a -> Nat]
    OBVIOUS
  <2> HIDE DEF s
  <2> QED BY <2>1, FunctionIsSeq
<1>2. t \in Seq(Nat) /\ Len(t) = b
  <2>1. \A x \in 1 .. b : a + x \in 1 .. a + b
    OBVIOUS
  <2>2. t \in [1 .. b -> Nat]
    BY <2>1
  <2> HIDE DEF t
  <2> QED BY <2>2, FunctionIsSeq
<1>3. u \in Seq(Nat) /\ Len(u) = a + b
  <2>1. u \in [1 .. a + b -> Nat] /\ a + b \in Nat
    OBVIOUS
  <2> HIDE DEF u
  <2> QED BY <2>1, FunctionIsSeq
<1>4. /\ \A x \in 1 .. a : s[x] = f[x]
      /\ \A x \in 1 .. b : t[x] = f[a + x]
      /\ \A x \in 1 .. a + b : u[x] = f[x]
  OBVIOUS
<1> HIDE DEF s, t, u
<1> DEFINE w == s \o t
<1>5. /\ w \in Seq(Nat) /\ Len(w) = a + b
      /\ \A x \in 1 .. a + b : w[x] = IF x <= a THEN s[x] ELSE t[x - a]
  BY <1>1, <1>2, ConcatProperties
<1> HIDE DEF w
<1>6. \A x \in 1 .. a + b : w[x] = u[x]
  <2> TAKE x \in 1 .. a + b
  <2>1. CASE x <= a
    <3>1. x \in 1 .. a
      BY <2>1
    <3> QED BY <1>4, <1>5, <2>1, <3>1
  <2>2. CASE ~(x <= a)
    <3>1. x - a \in 1 .. b /\ a + (x - a) = x
      BY <2>2
    <3> QED BY <1>4, <1>5, <2>2, <3>1
  <2> QED BY <2>1, <2>2
<1>7. w = u
  BY <1>3, <1>5, <1>6, SeqEqual
<1> QED BY <1>7 DEF w, s, t, u

\* Where the values of a part end.
LEMMA PartEnds ==
  ASSUME NEW sec \in [count : Nat, min : Nat, max : Nat], NEW part \in Nat, part < parts(sec)
  PROVE  PARAMS_PER_MESSAGE * part + Cardinality(IndicesOf(sec, part)) =
           IF part + 1 = parts(sec) THEN sec.count ELSE PARAMS_PER_MESSAGE * (part + 1)
<1> DEFINE P == PARAMS_PER_MESSAGE
           c == sec.count
           q == parts(sec)
           first == P * part
           n == Cardinality(IndicesOf(sec, part))
<1>1. P \in Nat /\ P > 0 /\ c \in Nat
  BY SysExAssumption
<1>2. q \in Nat /\ (c > 0 => (q - 1) * P < c) /\ (c = 0 => q = 0)
  BY PartsIs
<1>3. /\ n = IF c <= P THEN c ELSE IF part + 1 = q THEN c - (q - 1) * P ELSE P
      /\ n \in 1 .. P /\ first + n <= c
  BY PartHolds
<1>4. part < q
  OBVIOUS
<1> HIDE DEF P, c, q, n
<1>5. first \in Nat /\ P * (part + 1) = first + P
  BY <1>1
<1>6. c > 0 /\ (q - 1) * P < c
  BY <1>1, <1>2, <1>4
<1>7. part + 1 = q => first = (q - 1) * P
  BY <1>1, <1>2
<1>8. part + 1 # q => P < c
  <2> SUFFICES ASSUME part + 1 # q PROVE P < c
    OBVIOUS
  <2>1. q - 1 \in Nat /\ 1 <= q - 1
    BY <1>2, <1>4
  <2>2. P <= (q - 1) * P /\ (q - 1) * P \in Nat
    BY <1>1, <2>1
  <2> QED BY <1>1, <1>6, <2>2
<1> HIDE DEF first
<1>9. first + n = IF part + 1 = q THEN c ELSE first + P
  <2>1. CASE c <= P
    BY <1>1, <1>3, <1>5, <1>8, <2>1
  <2>2. CASE ~(c <= P) /\ part + 1 = q
    <3>1. n = c - first
      BY <1>3, <1>7, <2>2
    <3> QED BY <1>1, <1>5, <2>2, <3>1
  <2>3. CASE ~(c <= P) /\ part + 1 # q
    BY <1>3, <2>3
  <2> QED BY <2>1, <2>2, <2>3
<1> QED BY <1>5, <1>9 DEF P, c, q, first, n

\* The answer for a part of a GET carries the part's values.
LEMMA GetPart ==
  ASSUME TypeOK, NEW m \in Seq(Nat), Accepted(m),
         m[WishByte] = Wish.Get, m[AmountByte] = Amount.All,
         NEW part \in Nat, part < parts(SectionOf(m))
  PROVE  LET r == PartAnswer(m, part, {}).message
             n == Cardinality(IndicesOf(SectionOf(m), part))
         IN /\ PartAnswer(m, part, {}).status = Status.Ack
            /\ r \in Seq(Nat) /\ Len(r) = 11 + n
            /\ \A k \in 1 .. n :
                 r[10 + k] = store[Param(m, PARAMS_PER_MESSAGE * part + k - 1)]
<1> DEFINE sec == SectionOf(m)
           n == Cardinality(IndicesOf(sec, part))
           indices == Answered(m, part)
           statuses == [k \in DOMAIN indices |-> ReadStatus(m, indices[k], {})]
           good == Cardinality(BeforeError(statuses))
           base == IF AsksWhole(m) THEN [AnswerBase(m) EXCEPT ![PartByte] = part]
                   ELSE AnswerBase(m)
           values == [k \in 1 .. good |-> ReadValue(m, indices[k], {})]
           read == Added(base, values)
           r == PartAnswer(m, part, {}).message
<1>1. /\ layout = Layout /\ Len(m) = generate_message_length(m)
      /\ m[BlockByte] \in 0 .. Len(Layout) - 1
      /\ m[SectionByte] \in 0 .. Len(Layout[m[BlockByte] + 1]) - 1
  BY AcceptedIs DEF TypeOK
<1>2. /\ sec \in [count : Nat, min : Nat, max : Nat]
      /\ \A i \in 0 .. sec.count - 1 : Param(m, i) \in Params
  BY <1>1, SectionTyped
<1>3. m[AmountByte] # Amount.Single
  BY DEF Amount
<1>4. /\ n \in 1 .. PARAMS_PER_MESSAGE /\ DOMAIN indices = 1 .. n /\ Len(indices) = n
      /\ \A k \in 1 .. n : /\ indices[k] = PARAMS_PER_MESSAGE * part + k - 1
                           /\ indices[k] \in 0 .. sec.count - 1
  BY <1>2, <1>3, AnsweredIs
<1>5. n \in Nat /\ n <= PARAMS_PER_MESSAGE /\ PARAMS_PER_MESSAGE \in Nat
  BY <1>4, SysExAssumption
<1>6. good = n
  <2>1. \A i : ReadStatus(m, i, {}) = Status.Ack
    BY <1>3 DEF ReadStatus
  <2>2. DOMAIN statuses = 1 .. n /\ \A k \in 1 .. n : statuses[k] = Status.Ack
    BY <1>4, <2>1
  <2> HIDE DEF statuses, n
  <2> QED BY <1>5, <2>2, GoodIs
<1>7. r = Sent(read) /\ PartAnswer(m, part, {}).status = Status.Ack
  <2>1. PartAnswer(m, part, {}) =
          [message |-> Sent(IF good = Len(indices) THEN read
                            ELSE WithStatus(read, statuses[good + 1])),
           status |-> IF good = Len(indices) THEN Status.Ack ELSE statuses[good + 1]]
    BY DEF PartAnswer
  <2>2. good = Len(indices)
    BY <1>4, <1>6
  <2> HIDE DEF good, indices, read, statuses
  <2> QED BY <2>1, <2>2
<1>8. values = [k \in 1 .. n |-> store[Param(m, indices[k])]]
  <2>1. \A i : ReadValue(m, i, {}) = store[Param(m, i)]
    BY DEF ReadValue
  <2> HIDE DEF good, indices, n
  <2> QED BY <1>6, <2>1
<1>9. base \in Seq(Nat) /\ Len(base) = 10
  <2>1. Len(m) = STD_REQ_MIN_MSG_SIZE
    BY <1>1 DEF generate_message_length, Reads
  <2>2. m[WishByte] # Wish.Backup
    BY DEF Wish
  <2> QED BY <2>1, <2>2, GetBase
<1> HIDE DEF n, indices, base, good, read, r, values
<1>10. values \in Seq(Nat) /\ Len(values) = n
  <2>1. \A k \in 1 .. n : store[Param(m, indices[k])] \in Nat
    BY <1>2, <1>4 DEF TypeOK
  <2>2. values \in [1 .. n -> Nat]
    BY <1>8, <2>1
  <2> QED BY <1>5, <2>2, FunctionIsSeq
<1>11. read = base \o values
  <2>1. MAX_MESSAGE_SIZE = 11 + PARAMS_PER_MESSAGE
    BY DEF MAX_MESSAGE_SIZE, STD_REQ_MIN_MSG_SIZE, SectionByte
  <2>2. Len(base) <= MAX_MESSAGE_SIZE - 1 /\ Len(base) + Len(values) <= MAX_MESSAGE_SIZE - 1
    BY <1>5, <1>9, <1>10, <2>1
  <2> QED BY <1>9, <1>10, <2>2, AddedFits DEF read
<1>12. /\ read \in Seq(Nat) /\ Len(read) = 10 + n
       /\ \A k \in 1 .. n : read[10 + k] = values[k]
  <2>1. /\ base \o values \in Seq(Nat) /\ Len(base \o values) = Len(base) + Len(values)
        /\ \A i \in 1 .. Len(base) + Len(values) :
             (base \o values)[i] = IF i <= Len(base) THEN base[i] ELSE values[i - Len(base)]
    BY <1>9, <1>10, ConcatProperties
  <2>2. read \in Seq(Nat) /\ Len(read) = 10 + n
    BY <1>9, <1>10, <1>11, <2>1
  <2>3. \A i \in 1 .. 10 + n : read[i] = IF i <= 10 THEN base[i] ELSE values[i - 10]
    BY <1>9, <1>10, <1>11, <2>1
  <2>4. ASSUME NEW k \in 1 .. n PROVE read[10 + k] = values[k]
    <3>1. 10 + k \in 1 .. 10 + n /\ ~(10 + k <= 10) /\ 10 + k - 10 = k
      BY <1>5
    <3> QED BY <2>3, <3>1
  <2> QED BY <2>2, <2>4
<1>13. r \in Seq(Nat) /\ Len(r) = 10 + n + 1 /\ \A i \in 1 .. 10 + n : r[i] = read[i]
  <2>1. /\ Sent(read) \in Seq(Nat) /\ Len(Sent(read)) = Len(read) + 1
        /\ \A i \in 1 .. Len(read) : Sent(read)[i] = read[i]
    BY <1>12, SentIs
  <2> QED BY <1>7, <1>12, <2>1
<1>14. \A k \in 1 .. n : r[10 + k] = store[Param(m, PARAMS_PER_MESSAGE * part + k - 1)]
  <2> TAKE k \in 1 .. n
  <2>1. 10 + k \in 1 .. 10 + n
    BY <1>5
  <2>2. r[10 + k] = values[k]
    BY <1>12, <1>13, <2>1
  <2> QED BY <1>4, <1>8, <2>2
<1>15. Len(r) = 11 + n
  BY <1>5, <1>13
<1> QED BY <1>7, <1>13, <1>14, <1>15 DEF n, r

\* The values in an answer: those of a GET stand behind the place of an index
\* and a value.
Carried(m, r) ==
  IF m[WishByte] = Wish.Get THEN SubSeq(Values(r), 3, Len(Values(r))) ELSE Values(r)

\* What stands in a message between its head and its end marker.
LEMMA ValuesAre ==
  ASSUME NEW r \in Seq(Nat), NEW n \in Nat, Len(r) = SectionByte + 1 + n
  PROVE  /\ Values(r) \in Seq(Nat) /\ Len(Values(r)) = n
         /\ \A k \in 1 .. n : Values(r)[k] = r[SectionByte + k]
<1> DEFINE a == IndexByte
           b == Len(r) - 1
           s == SubSeq(r, a, b)
<1>1. a = 9 /\ b = 8 + n /\ a \in Int /\ b \in Int /\ Len(r) = 9 + n
  BY DEF IndexByte, SectionByte
<1>2. \A x \in a .. b : r[x] \in Nat
  <2>1. \A x \in a .. b : x \in 1 .. Len(r)
    BY <1>1
  <2> QED BY <2>1, ElementOfSeq
<1>3. Values(r) = s
  BY DEF Values
<1> HIDE DEF a, b
<1>4. /\ s \in Seq(Nat) /\ Len(s) = IF a <= b THEN b - a + 1 ELSE 0
      /\ \A x \in 1 .. b - a + 1 : s[x] = r[a + x - 1]
  BY <1>1, <1>2, SubSeqProperties
<1> HIDE DEF s
<1>5. Len(s) = n /\ b - a + 1 = n
  BY <1>1, <1>4
<1>6. \A k \in 1 .. n : a + k - 1 = SectionByte + k
  BY <1>1 DEF SectionByte
<1> QED BY <1>3, <1>4, <1>5, <1>6

\* Every part's answer to a whole read carries the part's values.
LEMMA PartCarries ==
  ASSUME TypeOK, NEW m \in Seq(Nat), Accepted(m), Reads(m), AsksWhole(m),
         m[AmountByte] = Amount.All, NEW part \in Nat, part < parts(SectionOf(m))
  PROVE  LET n == Cardinality(IndicesOf(SectionOf(m), part))
         IN /\ PartAnswer(m, part, {}).status = Status.Ack
            /\ Carried(m, PartAnswer(m, part, {}).message) =
                 [k \in 1 .. n |-> store[Param(m, PARAMS_PER_MESSAGE * part + k - 1)]]
<1> DEFINE n == Cardinality(IndicesOf(SectionOf(m), part))
           r == PartAnswer(m, part, {}).message
           value(k) == store[Param(m, PARAMS_PER_MESSAGE * part + k - 1)]
           expected == [k \in 1 .. n |-> value(k)]
<1>1. n \in Nat
  <2>1. SectionOf(m) \in [count : Nat, min : Nat, max : Nat]
    BY AcceptedIs, SectionTyped DEF TypeOK
  <2>2. n \in 1 .. PARAMS_PER_MESSAGE
    BY <2>1, PartHolds
  <2> QED BY <2>2, SysExAssumption
<1>2. ASSUME NEW s \in Seq(Nat), Len(s) = n, \A k \in 1 .. n : s[k] = value(k)
      PROVE  s = expected
  <2>1. s = [k \in 1 .. Len(s) |-> s[k]]
    BY LenProperties
  <2> HIDE DEF n, value
  <2> QED BY <1>2, <2>1
<1>3. CASE m[WishByte] = Wish.Get
  <2>1. /\ PartAnswer(m, part, {}).status = Status.Ack
        /\ r \in Seq(Nat) /\ Len(r) = 11 + n /\ \A k \in 1 .. n : r[10 + k] = value(k)
    BY <1>3, GetPart
  <2> HIDE DEF n, r, value, expected
  <2> DEFINE v == Values(r)
             i == 3
             s == SubSeq(v, i, Len(v))
             more == 2 + n
  <2>2. more \in Nat /\ Len(r) = SectionByte + 1 + more
    BY <1>1, <2>1 DEF SectionByte
  <2> HIDE DEF more
  <2>3. v \in Seq(Nat) /\ Len(v) = more /\ \A k \in 1 .. more : v[k] = r[SectionByte + k]
    BY <2>1, <2>2, ValuesAre
  <2> HIDE DEF v, i
  <2>4. i \in Int /\ i = 3 /\ Len(v) = 2 + n /\ Len(v) \in Int
    BY <1>1, <2>3 DEF i, more
  <2>5. \A x \in i .. Len(v) : v[x] \in Nat
    <3>1. \A x \in i .. Len(v) : x \in 1 .. Len(v)
      BY <2>4
    <3> QED BY <2>3, <3>1, ElementOfSeq
  <2>6. /\ s \in Seq(Nat) /\ Len(s) = IF i <= Len(v) THEN Len(v) - i + 1 ELSE 0
        /\ \A x \in 1 .. Len(v) - i + 1 : s[x] = v[i + x - 1]
    <3> DEFINE last == Len(v)
    <3> HIDE DEF last
    <3>1. i \in Int /\ last \in Int /\ \A x \in i .. last : v[x] \in Nat
      BY <2>4, <2>5 DEF last
    <3>2. SubSeq(v, i, last) \in Seq(Nat)
      BY <3>1, SubSeqProperties
    <3>3. Len(SubSeq(v, i, last)) = IF i <= last THEN last - i + 1 ELSE 0
      BY <3>1, SubSeqProperties
    <3>4. \A x \in 1 .. last - i + 1 : SubSeq(v, i, last)[x] = v[i + x - 1]
      BY <3>1, SubSeqProperties
    <3> QED BY <3>2, <3>3, <3>4 DEF last
  <2> HIDE DEF s
  <2>7. Len(s) = n /\ Len(v) - i + 1 = n
    BY <1>1, <2>4, <2>6
  <2>8. \A k \in 1 .. n : s[k] = value(k)
    <3> TAKE k \in 1 .. n
    <3>1. i + k - 1 \in 1 .. more /\ SectionByte + (i + k - 1) = 10 + k
      BY <1>1, <2>4 DEF SectionByte, more
    <3>2. s[k] = v[i + k - 1]
      BY <2>6, <2>7
    <3>3. v[i + k - 1] = r[10 + k]
      BY <2>3, <3>1
    <3> QED BY <2>1, <3>2, <3>3
  <2>9. s = expected
    BY <1>2, <2>6, <2>7, <2>8
  <2>10. Carried(m, r) = s
    BY <1>3 DEF Carried, s, v, i
  <2> QED BY <2>1, <2>9, <2>10 DEF n, r, value, expected
<1>4. CASE m[WishByte] # Wish.Get
  <2>1. Restores(r, m, part) /\ PartAnswer(m, part, {}).status = Status.Ack
    <3>1. m[WishByte] = Wish.Backup
      BY <1>4 DEF Reads
    <3> QED BY <3>1, BackupPart
  <2>2. /\ r \in Seq(Nat) /\ Len(r) = SectionByte + 1 + n
        /\ \A k \in 1 .. n : r[SectionByte + k] = value(k)
    BY <2>1 DEF Restores
  <2> HIDE DEF n, r, value, expected
  <2>3. Values(r) \in Seq(Nat) /\ Len(Values(r)) = n
        /\ \A k \in 1 .. n : Values(r)[k] = r[SectionByte + k]
    BY <1>1, <2>2, ValuesAre
  <2>4. Values(r) = expected
    BY <1>2, <2>2, <2>3
  <2>5. Carried(m, r) = Values(r)
    BY <1>4 DEF Carried
  <2> QED BY <2>1, <2>4, <2>5 DEF n, r, value, expected
<1> QED BY <1>3, <1>4

\* The first answers to a whole read are those for its parts.
LEMMA WholeIsParts ==
  ASSUME TypeOK, NEW m \in Seq(Nat), Accepted(m), Reads(m), AsksWhole(m),
         m[AmountByte] = Amount.All
  PROVE  LET p == parts(SectionOf(m))
             whole == SubSeq(ReadOutcome(m, {}).replies, 1, p)
         IN /\ DOMAIN whole = 1 .. p
            /\ \A j \in 1 .. p : whole[j] = PartAnswer(m, j - 1, {}).message
<1> DEFINE p == parts(SectionOf(m))
           chosen == AnsweredParts(m)
           answers == [i \in DOMAIN chosen |-> PartAnswer(m, chosen[i], {})]
           verdicts == [i \in DOMAIN answers |-> answers[i].status]
           good == Cardinality(BeforeError(verdicts))
           complete == good = Len(answers)
           sent == [i \in 1 .. (IF complete THEN good ELSE good + 1) |-> answers[i].message]
           replies == ReadOutcome(m, {}).replies
           S == {answers[i].message : i \in 1 .. p} \cup {FinalAck(m)}
<1>1. p \in Nat
  <2>1. SectionOf(m) \in [count : Nat, min : Nat, max : Nat]
    BY AcceptedIs, SectionTyped DEF TypeOK
  <2> QED BY <2>1, PartsIs
<1>2. chosen = [j \in 1 .. p |-> j - 1]
  BY DEF AnsweredParts
<1>3. answers = [j \in 1 .. p |-> PartAnswer(m, j - 1, {})]
  <2> HIDE DEF p
  <2> QED BY <1>2
<1>4. replies = IF complete /\ m[PartByte] = PART_ALL_MESSAGES_WITH_ACK
                THEN Append(sent, FinalAck(m)) ELSE sent
  BY DEF ReadOutcome, Outcome
<1>5. \A j \in 1 .. p : answers[j].status = Status.Ack
  <2> TAKE j \in 1 .. p
  <2>1. j - 1 \in Nat /\ j - 1 < p
    BY <1>1
  <2>2. PartAnswer(m, j - 1, {}).status = Status.Ack
    BY <2>1, PartCarries
  <2> HIDE DEF answers, p
  <2> QED BY <1>3, <2>2
<1> HIDE DEF p, answers
<1>6. good = p
  <2>1. DOMAIN verdicts = 1 .. p /\ \A j \in 1 .. p : verdicts[j] = Status.Ack
    BY <1>3, <1>5
  <2> HIDE DEF verdicts
  <2> QED BY <1>1, <2>1, GoodIs
<1>7. Len(answers) = p
  <2>1. answers \in [1 .. p -> {answers[i] : i \in 1 .. p}]
    BY <1>3
  <2> QED BY <1>1, <2>1, FunctionIsSeq
<1> HIDE DEF good
<1>8. sent = [i \in 1 .. p |-> answers[i].message]
  BY <1>6, <1>7
<1> HIDE DEF sent, complete
<1>9. sent \in Seq(S) /\ Len(sent) = p
  <2>1. sent \in [1 .. p -> S]
    BY <1>8
  <2> HIDE DEF S
  <2> QED BY <1>1, <2>1, FunctionIsSeq
<1>10. FinalAck(m) \in S
  OBVIOUS
<1> HIDE DEF S, replies
<1>11. replies \in Seq(S) /\ p <= Len(replies) /\ \A j \in 1 .. p : replies[j] = sent[j]
  <2>1. CASE replies = sent
    BY <1>1, <1>9, <2>1
  <2>2. CASE replies = Append(sent, FinalAck(m))
    BY <1>1, <1>9, <1>10, <2>2, AppendProperties
  <2> QED BY <1>4, <2>1, <2>2
<1> DEFINE whole == SubSeq(replies, 1, p)
<1>12. DOMAIN whole = 1 .. p /\ \A j \in 1 .. p : whole[j] = replies[j]
  <2>1. \A j \in 1 .. p : j \in 1 .. Len(replies)
    BY <1>1, <1>11, LenProperties
  <2>2. \A j \in 1 .. p : replies[j] \in S
    BY <1>11, <2>1, ElementOfSeq
  <2> DEFINE one == 1
  <2>3. one \in Int /\ p \in Int /\ \A j \in one .. p : replies[j] \in S
    BY <1>1, <2>2
  <2>4. one = 1
    OBVIOUS
  <2> HIDE DEF one
  <2> DEFINE w == SubSeq(replies, one, p)
  <2>5. /\ w \in Seq(S) /\ Len(w) = IF one <= p THEN p - one + 1 ELSE 0
        /\ \A j \in 1 .. p - one + 1 : w[j] = replies[one + j - 1]
    BY <2>3, SubSeqProperties
  <2> HIDE DEF w
  <2>6. Len(w) = p /\ p - one + 1 = p /\ \A j \in 1 .. p : one + j - 1 = j
    BY <1>1, <2>4, <2>5
  <2>7. DOMAIN w = 1 .. p
    BY <2>5, <2>6, LenProperties
  <2>8. \A j \in 1 .. p : w[j] = replies[j]
    BY <2>5, <2>6
  <2> QED BY <2>4, <2>7, <2>8 DEF w
<1> HIDE DEF whole
<1>13. \A j \in 1 .. p : whole[j] = PartAnswer(m, j - 1, {}).message
  BY <1>3, <1>8, <1>11, <1>12
<1> QED BY <1>12, <1>13 DEF whole, replies, p

\* The values of all parts, one after the other, are the section's.
LEMMA WholeReadSends ==
  ASSUME TypeOK, NEW m \in Seq(Nat), Accepted(m), Reads(m), AsksWhole(m),
         m[AmountByte] = Amount.All
  PROVE  LET whole == SubSeq(ReadOutcome(m, {}).replies, 1, parts(SectionOf(m)))
         IN FlattenSeq([j \in DOMAIN whole |-> Carried(m, whole[j])]) =
              [i \in 1 .. SectionOf(m).count |-> store[Param(m, i - 1)]]
<1> DEFINE sec == SectionOf(m)
           P == PARAMS_PER_MESSAGE
           p == parts(sec)
           c == sec.count
           whole == SubSeq(ReadOutcome(m, {}).replies, 1, p)
           seqs == [j \in DOMAIN whole |-> Carried(m, whole[j])]
           size(part) == Cardinality(IndicesOf(sec, part))
           value(i) == store[Param(m, i)]
           f == [i \in 1 .. c |-> value(i - 1)]
           end(j) == P * (j - 1) + size(j - 1)
           table == [j \in 1 .. p |-> [i \in 1 .. end(j) |-> f[i]]]
<1>1. /\ sec \in [count : Nat, min : Nat, max : Nat]
      /\ \A i \in 0 .. c - 1 : Param(m, i) \in Params
  BY AcceptedIs, SectionTyped DEF TypeOK
<1>2. p \in Nat /\ c \in Nat /\ P \in Nat /\ P > 0 /\ (c > 0 => p > 0) /\ (c = 0 => p = 0)
  BY <1>1, PartsIs, SysExAssumption
<1>3. \A i \in 1 .. c : f[i] \in Nat /\ f[i] = value(i - 1)
  <2> TAKE i \in 1 .. c
  <2>1. i - 1 \in 0 .. c - 1
    BY <1>2
  <2>2. value(i - 1) \in Nat
    BY <1>1, <2>1 DEF TypeOK
  <2> QED BY <2>2
<1>4. ASSUME NEW part \in Nat, part < p
      PROVE  /\ size(part) \in 1 .. P /\ P * part + size(part) <= c
             /\ P * part + size(part) = IF part + 1 = p THEN c ELSE P * (part + 1)
  BY <1>1, <1>4, PartHolds, PartEnds
<1>5. ASSUME NEW part \in Nat, part < p
      PROVE  Carried(m, PartAnswer(m, part, {}).message) =
               [k \in 1 .. size(part) |-> value(P * part + k - 1)]
  BY <1>5, PartCarries
<1>6. DOMAIN whole = 1 .. p /\ \A j \in 1 .. p : whole[j] = PartAnswer(m, j - 1, {}).message
  BY WholeIsParts
<1> HIDE DEF sec, p, c, P, size, value, whole
<1>7. seqs = [j \in 1 .. p |-> Carried(m, PartAnswer(m, j - 1, {}).message)]
  BY <1>6
<1> HIDE DEF f, seqs
<1>8. ASSUME NEW j \in 1 .. p
      PROVE  /\ P * (j - 1) \in Nat /\ size(j - 1) \in Nat /\ end(j) \in Nat /\ end(j) <= c
             /\ seqs[j] = [k \in 1 .. size(j - 1) |-> f[P * (j - 1) + k]]
             /\ end(j) = IF j = p THEN c ELSE P * j
  <2>1. j - 1 \in Nat /\ j - 1 < p /\ (j - 1) + 1 = j
    BY <1>2
  <2>2. /\ size(j - 1) \in 1 .. P /\ end(j) <= c
        /\ end(j) = IF j = p THEN c ELSE P * j
    BY <1>4, <2>1
  <2>3. P * (j - 1) \in Nat /\ size(j - 1) \in Nat
    BY <1>2, <2>1, <2>2
  <2> DEFINE first == P * (j - 1)
             n == size(j - 1)
  <2>4. seqs[j] = [k \in 1 .. n |-> value(first + k - 1)]
    BY <1>5, <1>7, <2>1
  <2>5. first \in Nat /\ n \in Nat /\ first + n <= c
    BY <2>2, <2>3
  <2> HIDE DEF first, n
  <2>6. \A k \in 1 .. n : value(first + k - 1) = f[first + k]
    <3> TAKE k \in 1 .. n
    <3>1. first + k \in 1 .. c /\ (first + k) - 1 = first + k - 1
      BY <1>2, <2>5
    <3> QED BY <1>3, <3>1
  <2>7. seqs[j] = [k \in 1 .. n |-> f[first + k]]
    BY <2>4, <2>6
  <2> QED BY <2>2, <2>3, <2>7 DEF first, n
<1>9. CASE p = 0
  <2>1. seqs = [i \in 1 .. c |-> f[i]] /\ c = 0
    BY <1>2, <1>7, <1>9
  <2>2. FlattenSeq(seqs) = seqs
    <3>1. Len(seqs) = 0
      <4>1. seqs \in [1 .. 0 -> Nat]
        BY <1>7, <1>9
      <4> QED BY <4>1, FunctionIsSeq
    <3> QED BY <3>1 DEF FlattenSeq
  <2>3. [i \in 1 .. c |-> f[i]] = [i \in 1 .. c |-> value(i - 1)]
    BY <1>3
  <2> QED BY <2>1, <2>2, <2>3 DEF seqs, whole, p, sec, c, value
<1>10. CASE p # 0
  <2>1. p \in Nat \ {0} /\ Len(seqs) = p
    <3>1. seqs \in [1 .. p -> {seqs[j] : j \in 1 .. p}]
      BY <1>7
    <3> QED BY <1>2, <1>10, <3>1, FunctionIsSeq
  <2>2. ASSUME NEW j \in 1 .. p
        PROVE  table[j] = IF j = 1 THEN seqs[j] ELSE table[j - 1] \o seqs[j]
    <3> DEFINE a == P * (j - 1)
               b == size(j - 1)
    <3>1. /\ a \in Nat /\ b \in Nat /\ a + b <= c
          /\ seqs[j] = [k \in 1 .. b |-> f[a + k]]
      BY <1>8
    <3>2. table[j] = [i \in 1 .. a + b |-> f[i]]
      OBVIOUS
    <3> HIDE DEF b, table
    <3>3. CASE j = 1
      <4>1. a = 0
        BY <1>2, <3>3
      <4> HIDE DEF a
      <4>2. \A k \in 1 .. b : a + k = k
        BY <3>1, <4>1
      <4>3. a + b = b
        BY <3>1, <4>1
      <4>4. seqs[j] = [k \in 1 .. b |-> f[k]]
        BY <3>1, <4>2
      <4> QED BY <3>2, <3>3, <4>3, <4>4
    <3>4. CASE j # 1
      <4>1. j - 1 \in 1 .. p /\ j - 1 # p
        BY <1>2, <3>4
      <4>2. end(j - 1) = a
        BY <1>8, <4>1
      <4>3. table[j - 1] = [i \in 1 .. a |-> f[i]]
        <5>1. table[j - 1] = [i \in 1 .. end(j - 1) |-> f[i]]
          BY <4>1 DEF table
        <5> HIDE DEF end, a
        <5> QED BY <4>2, <5>1
      <4> HIDE DEF a, end
      <4>4. \A x \in 1 .. a + b : f[x] \in Nat
        BY <1>2, <1>3, <3>1
      <4>5. [x \in 1 .. a |-> f[x]] \o [x \in 1 .. b |-> f[a + x]] = [x \in 1 .. a + b |-> f[x]]
        BY <3>1, <4>4, PiecesJoin
      <4> QED BY <3>1, <3>2, <3>4, <4>3, <4>5
    <3> QED BY <3>3, <3>4
  <2>3. table[p] = [i \in 1 .. c |-> f[i]]
    <3>1. p \in 1 .. p
      BY <1>2, <1>10
    <3>2. end(p) = c
      BY <1>8, <3>1
    <3>3. table[p] = [i \in 1 .. end(p) |-> f[i]]
      BY <3>1
    <3> HIDE DEF end, table
    <3> QED BY <3>2, <3>3
  <2>4. table = [j \in 1 .. p |-> table[j]]
    OBVIOUS
  <2> HIDE DEF table, end
  <2>5. \A j \in 1 .. p : table[j] = IF j = 1 THEN seqs[j] ELSE table[j - 1] \o seqs[j]
    BY <2>2
  <2>6. FlattenSeq(seqs) = table[p]
    <3>1. Beginnings(seqs, p, table)
      BY <2>1, <2>4, <2>5 DEF Beginnings
    <3> QED BY <2>1, <3>1, FlattenIs
  <2>7. [i \in 1 .. c |-> f[i]] = [i \in 1 .. c |-> value(i - 1)]
    BY <1>3
  <2>8. FlattenSeq(seqs) = [i \in 1 .. c |-> value(i - 1)]
    BY <2>3, <2>6, <2>7
  <2> QED BY <2>8 DEF seqs, whole, p, sec, c, value
<1> QED BY <1>9, <1>10

-----------------------------------------------------------------------------
(* Requests are put together, and answered.                                  *)

\* While a message is being put together, what is in the buffer and what the
\* tool has left is the message, unless another one was built there meanwhile.
Gathered ==
  /\ crossed \in BOOLEAN
  /\ active => /\ tool.left # <<>>
               /\ crossed \/ response \o tool.left = <<START>> \o tool.message

\* A step of the tool: what its packet completes is what it sent.
LEMMA SendsGathered ==
  ASSUME Typed, TypeOK, Gathered, NEW m \in Seq(Nat), NEW left \in Seq(Nat),
         NEW starts \in BOOLEAN, ToolSends(m, left, starts),
         IF starts THEN left = m ELSE m = tool.message /\ left = tool.left
  PROVE  Gathered' /\ (Handles => HandledIsSent)
<1> DEFINE size == IF Len(left) < PacketPayload THEN Len(left) ELSE PacketPayload
           payload == SubSeq(left, 1, size)
           rest == SubSeq(left, size + 1, Len(left))
           packet == [starts |-> starts, ends |-> rest = <<>>, payload |-> payload]
           buffer == Buffer(packet)
           sent == Sent(buffer \o payload)
<1>1. /\ Quiet /\ handle_packet(packet)
      /\ tool' = IF rest = <<>> /\ event' = NoEvent THEN NoTool
                 ELSE [message |-> m, left |-> rest]
      /\ crossed' = (crossed /\ ~starts)
  BY DEF ToolSends
<1>2. size \in 0 .. Len(left) /\ Len(left) \in Nat
  BY SysExAssumption, LenProperties
<1>3. payload \in Seq(Nat) /\ rest \in Seq(Nat)
  BY <1>2, SubSeqTyped
<1>4. payload \o rest = left
  <2> DEFINE one == 1
  <2>1. /\ one \in 1 .. Len(left) + 1 /\ size \in one - 1 .. Len(left)
        /\ Len(left) \in size .. Len(left)
    BY <1>2
  <2> HIDE DEF one, size
  <2>2. SubSeq(left, one, size) \o SubSeq(left, size + 1, Len(left)) = SubSeq(left, one, Len(left))
    BY <2>1, ConcatAdjacentSubSeq
  <2>3. SubSeq(left, 1, Len(left)) = left
    BY SubSeqFull
  <2> QED BY <2>2, <2>3 DEF one
<1>5. buffer = IF starts THEN <<START>> ELSE response
  BY DEF Buffer
<1>6. packet.starts = starts /\ packet.ends = (rest = <<>>) /\ packet.payload = payload
  OBVIOUS
<1> HIDE DEF size, payload, rest, packet, buffer
<1>7. buffer \in Seq(Nat)
  <2>1. response \in Seq(Nat)
    BY DEF Typed
  <2>2. <<START>> \in Seq(Nat)
    BY DEF START
  <2>3. CASE starts
    BY <1>5, <2>2, <2>3
  <2>4. CASE ~starts
    BY <1>5, <2>1, <2>4
  <2> QED BY <2>3, <2>4
<1>8. (starts \/ active) => crossed' \/ buffer \o left = <<START>> \o m
  <2>1. CASE starts
    BY <1>5, <2>1
  <2>2. CASE ~starts /\ active
    BY <1>1, <1>5, <2>2 DEF Gathered
  <2> QED BY <2>1, <2>2
<1>9. crossed' \in BOOLEAN
  BY <1>1
<1>10. CASE PacketCollected(packet)
  <2>1. active' => /\ starts \/ active
                   /\ rest # <<>> /\ response' = buffer \o payload
    <3>1. CASE (~packet.starts /\ ~active) \/ TooLong(packet)
      BY <1>10, <3>1 DEF PacketCollected, reset_ump_message, TypeOK
    <3>2. CASE ~((~packet.starts /\ ~active) \/ TooLong(packet))
      BY <1>6, <1>10, <3>2 DEF PacketCollected, buffer
    <3> QED BY <3>1, <3>2
  <2>2. (buffer \o payload) \o rest = buffer \o left
    <3>1. (buffer \o payload) \o rest = buffer \o (payload \o rest)
      <4> DEFINE S == Nat
      <4>1. buffer \in Seq(S) /\ payload \in Seq(S) /\ rest \in Seq(S)
        BY <1>3, <1>7
      <4> HIDE DEF S
      <4> QED BY <4>1, ConcatAssociative
    <3> QED BY <1>4, <3>1
  <2>3. rest # <<>> => tool'.message = m /\ tool'.left = rest
    BY <1>1
  <2>4. event'.handled = <<>>
    BY <1>1, <1>10 DEF PacketCollected, Quiet, NoEvent
  <2>5. ASSUME active'
        PROVE  tool'.left # <<>> /\ (crossed' \/ response' \o tool'.left = <<START>> \o tool'.message)
    BY <1>8, <2>1, <2>2, <2>3, <2>5
  <2>6. Gathered'
    BY <1>9, <2>5 DEF Gathered
  <2> QED BY <2>4, <2>6 DEF Handles
<1>11. CASE PacketHandled(packet)
  <2>1. /\ rest = <<>> /\ (starts \/ active) /\ active' = FALSE
        /\ event'.handled = Append(buffer \o payload, END)
    <3>1. packet.ends /\ (packet.starts \/ active) /\ reset_ump_message
      BY <1>11 DEF PacketHandled
    <3>2. event'.handled = Append(buffer \o packet.payload, END)
      <4>1. PICK fails, replies :
              event' = [handled |-> Append(buffer \o packet.payload, END),
                        fails |-> fails, replies |-> replies]
        BY <1>11 DEF PacketHandled, buffer
      <4> QED BY <4>1
    <3>3. active' = FALSE
      BY <3>1 DEF reset_ump_message
    <3> QED BY <1>6, <3>1, <3>2, <3>3
  <2>2. payload = left
    BY <1>3, <1>4, <2>1, ConcatEmptySeq
  <2>3. buffer \o left \in Seq(Nat)
    BY <1>7, ConcatProperties
  <2>4. event'.handled # <<>> /\ event'.handled = (buffer \o left) \o <<END>>
    <3>1. END \in Nat
      BY DEF END
    <3> DEFINE s == buffer \o left
    <3>2. s \in Seq(Nat) /\ event'.handled = Append(s, END)
      BY <2>1, <2>2, <2>3
    <3> HIDE DEF s
    <3>3. Append(s, END) # <<>>
      BY <3>1, <3>2, AppendProperties
    <3>4. Append(s, END) = s \o <<END>>
      BY <3>1, <3>2, AppendIsConcat
    <3> QED BY <3>2, <3>3, <3>4 DEF s
  <2>5. tool'.message = m
    <3>1. event' # NoEvent
      BY <2>4 DEF NoEvent
    <3> QED BY <1>1, <3>1
  <2>6. crossed' \/ event'.handled = <<START>> \o tool'.message \o <<END>>
    BY <1>8, <2>1, <2>4, <2>5
  <2>7. Gathered'
    BY <1>9, <2>1 DEF Gathered
  <2> QED BY <2>6, <2>7 DEF HandledIsSent
<1> QED BY <1>1, <1>10, <1>11 DEF handle_packet

LEMMA GatheredNext == Typed /\ TypeOK /\ Gathered /\ [Next]_vars => Gathered'
<1> SUFFICES ASSUME Typed, TypeOK, Gathered, [Next]_vars PROVE Gathered'
  OBVIOUS
<1>1. CASE ToolBegins
  <2>1. PICK m \in Requests : ToolSends(m, m, TRUE)
    BY <1>1 DEF ToolBegins
  <2>2. m \in Seq(Nat)
    BY SysExAssumption
  <2> QED BY <2>1, <2>2, SendsGathered
<1>2. CASE ToolGoesOn
  <2>1. ToolSends(tool.message, tool.left, FALSE)
    BY <1>2 DEF ToolGoesOn
  <2>2. tool.message \in Seq(Nat) /\ tool.left \in Seq(Nat)
    BY DEF Typed
  <2> QED BY <2>1, <2>2, SendsGathered
<1>3. CASE AnswersAreRead
  BY <1>3 DEF AnswersAreRead, device, Gathered
<1>4. CASE OtherPacket
  BY <1>4 DEF OtherPacket, reset_ump_message, Gathered
<1>5. CASE \E values \in CustomValues, ack \in BOOLEAN : send_custom_message(values, ack)
  BY <1>5 DEF send_custom_message, Gathered, TypeOK
<1>6. CASE \E l \in {<<>>, Layout} : set_layout(l)
  BY <1>6 DEF set_layout, Gathered
<1>7. CASE \E table \in CustomTables : setup_custom_requests(table)
  BY <1>7 DEF setup_custom_requests, Gathered
<1>8. CASE close_connection
  BY <1>8 DEF close_connection, Gathered
<1>9. CASE \E state \in BOOLEAN : set_user_error_ignore_mode(state)
  BY <1>9 DEF set_user_error_ignore_mode, Gathered
<1>10. CASE reset
  BY <1>10 DEF reset, reset_ump_message, Gathered
<1>11. CASE UNCHANGED vars
  BY <1>11 DEF vars, device, Gathered
<1> QED
  BY <1>1, <1>2, <1>3, <1>4, <1>5, <1>6, <1>7, <1>8, <1>9, <1>10, <1>11 DEF Next

\* What is handled is answered as the protocol says.
LEMMA AnsweredWell ==
  ASSUME TypeOK, NEW CONSTANT h \in Seq(Nat), NEW CONSTANT fails,
         NEW CONSTANT outcome \in CustomOutcomes,
         store' = handle_request(h, fails, outcome).store,
         event' = [handled |-> h, fails |-> fails,
                   replies |-> handle_request(h, fails, outcome).replies]
  PROVE  OneVerdict /\ WholeReads /\ AckedSets
<1> DEFINE result == handle_request(h, fails, outcome)
<1>1. event'.handled = h /\ event'.fails = fails /\ event'.replies = result.replies
  OBVIOUS
<1>2. layout \in {<<>>, Layout}
  BY DEF TypeOK
<1>3. Accepted(h) /\ Reads(h) => result = ReadOutcome(h, fails)
  BY DEF Accepted, handle_request, process_standard_request
<1>4. Accepted(h) /\ ~Reads(h) => result = WriteOutcome(h, fails)
  BY DEF Accepted, handle_request, process_standard_request
<1> HIDE DEF result
<1>5. OneVerdict
  <2> DEFINE replies == result.replies
  <2> SUFFICES /\ ~Unanswerable(h) /\ replies = <<>> =>
                    Accepted(h) /\ AsksWhole(h) /\ parts(SectionOf(h)) = 0
               /\ \A j \in DOMAIN replies :
                    StatusOf(replies[j]) \notin {Status.Ack, Status.Request} => j = Len(replies)
    BY <1>1 DEF OneVerdict
  <2>1. CASE Unanswerable(h)
    <3>1. replies = <<>>
      BY <2>1 DEF result, handle_request, Outcome
    <3> QED BY <2>1, <3>1
  <2>2. CASE Accepted(h) /\ Reads(h)
    BY <1>2, <1>3, <2>2, ReadVerdict
  <2>3. CASE ~Unanswerable(h) /\ ~(Accepted(h) /\ Reads(h))
    <3>1. PICK t : replies = <<t>>
      BY <2>3, OneReply DEF result
    <3> QED BY <3>1
  <2> QED BY <2>1, <2>2, <2>3
<1>6. WholeReads
  <2> DEFINE whole == SubSeq(result.replies, 1, parts(SectionOf(h)))
             get == h[WishByte] = Wish.Get
             carried == [j \in DOMAIN whole |->
                           IF get THEN SubSeq(Values(whole[j]), 3, Len(Values(whole[j])))
                           ELSE Values(whole[j])]
  <2> SUFFICES ASSUME Accepted(h), AsksWhole(h), h[AmountByte] = Amount.All, fails = {}
               PROVE  FlattenSeq(carried) =
                        [i \in 1 .. SectionOf(h).count |-> store[Param(h, i - 1)]]
    BY <1>1 DEF WholeReads
  <2>1. Reads(h)
    BY <1>2, AcceptedIs DEF check_part
  <2>2. result.replies = ReadOutcome(h, {}).replies
    BY <1>3, <2>1
  <2>3. carried = [j \in DOMAIN whole |-> Carried(h, whole[j])]
    BY DEF Carried
  <2>4. FlattenSeq([j \in DOMAIN whole |-> Carried(h, whole[j])]) =
          [i \in 1 .. SectionOf(h).count |-> store[Param(h, i - 1)]]
    BY <2>1, <2>2, WholeReadSends
  <2> HIDE DEF carried
  <2> QED BY <2>3, <2>4
<1>7. AckedSets
  <2> DEFINE first == IF h[AmountByte] = Amount.Single THEN h[IndexByte]
                      ELSE PARAMS_PER_MESSAGE * h[PartByte]
             values == IF h[AmountByte] = Amount.Single THEN <<h[IndexByte + 1]>> ELSE Values(h)
  <2> SUFFICES ASSUME Accepted(h), h[WishByte] = Wish.Set,
                      StatusOf(result.replies[1]) = Status.Ack
               PROVE  \A k \in DOMAIN values :
                        LET q == Param(h, first + k - 1)
                        IN store'[q] = values[k] \/ (ignore /\ q \in fails)
    BY <1>1 DEF AckedSets
  <2>1. ~Reads(h)
    BY DEF Reads, Wish
  <2>2. result = WriteOutcome(h, fails) /\ store' = WriteOutcome(h, fails).store
    BY <1>4, <2>1 DEF result
  <2>3. \A k \in DOMAIN values :
          LET q == Param(h, first + k - 1)
          IN WriteOutcome(h, fails).store[q] = values[k] \/ (ignore /\ q \in fails)
    BY <1>2, <2>1, <2>2, SetIsStored
  <2> HIDE DEF values, first
  <2> QED BY <2>2, <2>3
<1> QED BY <1>5, <1>6, <1>7

\* A step that handles a message handles what was sent, and answers it.
LEMMA HandlesWell ==
  Typed /\ TypeOK /\ Gathered /\ [Next]_vars
    => (Handles => HandledIsSent /\ OneVerdict /\ WholeReads /\ AckedSets)
<1> SUFFICES ASSUME Typed, TypeOK, Gathered, [Next]_vars, Handles
             PROVE  HandledIsSent /\ OneVerdict /\ WholeReads /\ AckedSets
  OBVIOUS
<1>1. ToolBegins \/ ToolGoesOn
  <2>1. ~UNCHANGED vars
    BY DEF Handles, Quiet, NoEvent, vars
  <2> QED BY <2>1, OnlyPacketsAreHandled DEF Handles
<1>2. PICK m \in Seq(Nat), left \in Seq(Nat), starts \in BOOLEAN :
        /\ ToolSends(m, left, starts)
        /\ IF starts THEN left = m ELSE m = tool.message /\ left = tool.left
  <2>1. CASE ToolBegins
    BY <2>1, SysExAssumption DEF ToolBegins
  <2>2. CASE ToolGoesOn
    BY <2>2 DEF ToolGoesOn, Typed
  <2> QED BY <1>1, <2>1, <2>2
<1>3. HandledIsSent
  BY <1>2, SendsGathered
<1> DEFINE size == IF Len(left) < PacketPayload THEN Len(left) ELSE PacketPayload
           packet == [starts |-> starts, ends |-> SubSeq(left, size + 1, Len(left)) = <<>>,
                      payload |-> SubSeq(left, 1, size)]
           h == Append(Buffer(packet) \o packet.payload, END)
<1>4. Quiet /\ handle_packet(packet)
  BY <1>2 DEF ToolSends
<1>5. packet.payload \in Seq(Nat)
  <2>1. size \in 0 .. Len(left)
    BY SysExAssumption, LenProperties
  <2> QED BY <2>1, SubSeqTyped
<1> HIDE DEF packet
<1>6. PacketHandled(packet)
  BY <1>4 DEF handle_packet, PacketCollected, Handles, Quiet, NoEvent
<1>7. h \in Seq(Nat)
  BY <1>5, HandledTyped
<1>8. PICK fails \in {{}} \cup {{q} : q \in Params}, outcome \in CustomOutcomes :
        /\ store' = handle_request(h, fails, outcome).store
        /\ event' = [handled |-> h, fails |-> fails,
                     replies |-> handle_request(h, fails, outcome).replies]
  BY <1>6 DEF PacketHandled
<1> HIDE DEF h
<1>9. PICK g \in Seq(Nat) : g = h
  BY <1>7
<1>10. OneVerdict /\ WholeReads /\ AckedSets
  BY <1>8, <1>9, AnsweredWell
<1> QED BY <1>3, <1>10

\* Requests are put together from their packets whatever comes between them,
\* each is answered once, a whole read sends every value, and a SET that is
\* acknowledged has stored what it carried.
THEOREM RequestsGetAnswers == Spec => RequestsAreAnswered
<1> DEFINE Inv == Typed /\ TypeOK /\ Gathered
<1>1. Init => Inv
  <2>1. Init => Gathered
    BY DEF Init, Gathered
  <2> QED BY <2>1, TypedInit, FitsInit
<1>2. Inv /\ [Next]_vars => Inv'
  BY TypedNext, FitsNext, GatheredNext
<1>3. Inv /\ [Next]_vars
        => (Handles => HandledIsSent /\ OneVerdict /\ WholeReads /\ AckedSets)
  BY HandlesWell
<1> QED BY <1>1, <1>2, <1>3, PTL DEF Spec, RequestsAreAnswered
=============================================================================
