------------------------- MODULE MotorControlProofs -------------------------
(***************************************************************************)
(* Theorems about MotorControl, for any motors, clients and movements.     *)
(***************************************************************************)
EXTENDS MotorControl, TLAPS

MotorRecord ==
  [run : RunStates, acc : 0 .. MAX_ACC_STEPS - 1, sent : 0 .. SentBound,
   decel : 0 .. SentBound, stopRequested : BOOLEAN,
   movement : Movements \cup {NoMovement}]

Holding == {"enable", "wait", "go", "unlock"}
Steps == Holding \cup
         {"idle", "setup", "startTimer", "mark", "load", "slow", "reset", "clear",
          "scan", "exchange", "stopTimer"}

ClientRecord ==
  [step : Steps, motor : Motors \cup {Nobody}, request : Movements \cup {NoMovement},
   seen : RunStates]

\* Each client is at a step of a call on a motor, or in no call.
ClientsTyped ==
  /\ client \in [Clients -> ClientRecord]
  /\ \A c \in Clients : ~At(c, "idle") => Target(c) \in Motors

RestTyped ==
  /\ enabled \subseteq Motors /\ stuck \subseteq Motors
  /\ pending \subseteq Motors /\ callback \subseteq Motors
  /\ lock \in [Motors -> Clients \cup {Nobody}]
  /\ worker \in Motors \cup {Nobody}
  /\ (worker = Nobody) = (workStep = "none")
  /\ DOMAIN asked = Motors

Typed == motor \in [Motors -> MotorRecord] /\ ClientsTyped /\ RestTyped

-----------------------------------------------------------------------------
(* Types.                                                                    *)

LEMMA AtRestTyped == AtRest \in MotorRecord /\ NoMovement \in [pulses : 0 .. SentBound, timed : BOOLEAN]
BY MotorAssumption DEF AtRest, MotorRecord, RunStates, NoMovement

\* A tick keeps the acceleration counter in the table.
LEMMA TickedTyped ==
  ASSUME NEW mo \in MotorRecord, NEW luck
  PROVE  Ticked(mo, luck) \in MotorRecord
<1> DEFINE next == Advanced(mo)
<1>1. \/ next \in MotorRecord
      \/ next.run = "Stopped"
  <2> USE MotorAssumption DEF MotorRecord, RunStates
  <2>1. mo.acc \in 0 .. MAX_ACC_STEPS - 1
    OBVIOUS
  <2>2. CASE mo.run = "Accelerating"
    <3>1. CASE mo.acc + 1 >= MAX_ACC_STEPS
      <4>1. MAX_ACC_STEPS - 1 \in 0 .. MAX_ACC_STEPS - 1
        OBVIOUS
      <4> QED BY <2>2, <3>1, <4>1 DEF Advanced
    <3>2. CASE ~(mo.acc + 1 >= MAX_ACC_STEPS)
      <4>1. mo.acc + 1 \in 0 .. MAX_ACC_STEPS - 1
        BY <2>1, <3>2
      <4> QED BY <2>2, <3>2, <4>1 DEF Advanced
    <3> QED BY <3>1, <3>2
  <2>3. CASE mo.run = "Running"
    BY <2>3 DEF Advanced
  <2>4. CASE mo.run = "Decelerating"
    <3>1. CASE mo.acc - 1 > 0
      <4>1. mo.acc - 1 \in 0 .. MAX_ACC_STEPS - 1
        BY <2>1, <3>1
      <4> QED BY <2>4, <3>1, <4>1 DEF Advanced
    <3>2. CASE ~(mo.acc - 1 > 0)
      BY <2>4, <3>2 DEF Advanced
    <3> QED BY <3>1, <3>2
  <2>5. CASE mo.run = "Stopped"
    BY <2>5 DEF Advanced
  <2> QED BY <2>2, <2>3, <2>4, <2>5
<1>2. next.run = "Stopped" => Ticked(mo, luck) \in {mo, AtRest}
  BY DEF Ticked, Over
<1>3. ASSUME next \in MotorRecord
      PROVE  [next EXCEPT !.sent = IF next.sent < SentBound THEN next.sent + 1 ELSE @]
               \in MotorRecord
  <2> HIDE DEF next
  <2>1. next.sent \in 0 .. SentBound /\ SentBound \in Nat
    BY <1>3, MotorAssumption DEF MotorRecord
  <2>2. (IF next.sent < SentBound THEN next.sent + 1 ELSE next.sent) \in 0 .. SentBound
    BY <2>1
  <2> QED BY <1>3, <2>2 DEF MotorRecord
<1> HIDE DEF next
<1> QED BY <1>1, <1>2, <1>3, AtRestTyped DEF Ticked, next

LEMMA TypedInit == Init => Typed
BY AtRestTyped DEF Init, Typed, ClientsTyped, RestTyped, ClientRecord, Steps, InNoCall,
   RunStates, At, Target

\* The movement a call asks for has as many pulses before its deceleration as
\* a motor's counter can hold.
LEMMA PreparedTyped ==
  ASSUME Typed, NEW m \in Motors, NEW info \in Movements \cup {NoMovement}
  PROVE  Prepared(m, info) \in [Motors -> MotorRecord]
<1>1. info.pulses \in 0 .. SentBound /\ SentBound \in Nat
  BY MotorAssumption, AtRestTyped
<1>2. info.pulses - info.pulses \div 2 \in 0 .. SentBound
  BY <1>1
<1> QED BY <1>2 DEF Typed, Prepared, MotorRecord

LEMMA CallTyped ==
  ASSUME Typed, NEW c \in Clients, Call(c) PROVE Typed'
<1> USE DEF Typed, ClientsTyped, RestTyped, ClientRecord, At, Target, Begin, InNoCall, work,
            hardware
<1>1. ASSUME NEW m \in Motors, register_stop_callback(c, m) PROVE Typed'
  BY <1>1 DEF register_stop_callback
<1>2. ASSUME NEW m \in Motors, NEW info \in Movements, setup_movement(c, m, info)
      PROVE  Typed'
  BY <1>2 DEF setup_movement, Steps, RunStates
<1>3. ASSUME NEW m \in Motors, NEW force \in BOOLEAN, stop_movement(c, m, force)
      PROVE  Typed'
  BY <1>3 DEF stop_movement, Steps, RunStates
<1> QED BY <1>1, <1>2, <1>3 DEF Call

LEMMA CallStepTyped ==
  ASSUME Typed, NEW c \in Clients, CallStep(c) PROVE Typed'
<1> USE DEF RestTyped, At, Goto, Return, GotoOrReturn, work, hardware
<1>1. client[c].step # "idle" /\ Target(c) \in Motors
  BY DEF CallStep, SetupAccepted, SetupEnables, SetupFails, SetupWrites, SetupGoes,
     SetupUnlocks, SetupStartsTimer, StopMarks, StopLoads, StopSlows, StopResets,
     StopClears, StopScans, StopExchanges, StopStopsTimer, Typed, ClientsTyped
<1>2. /\ motor \in [Motors -> MotorRecord] /\ RestTyped
      /\ client \in [Clients -> ClientRecord]
      /\ client[c].request \in Movements \cup {NoMovement} /\ client[c].seen \in RunStates
  BY DEF Typed, ClientsTyped, ClientRecord
<1>3. \/ client' = [client EXCEPT ![c] = InNoCall]
      \/ \E step \in Steps : client' = [client EXCEPT ![c].step = step]
      \/ client' = [client EXCEPT ![c].step = "slow", ![c].seen = motor[Target(c)].run]
  <2>1. /\ {"enable", "wait", "go", "unlock", "startTimer"} \subseteq Steps
        /\ {"load", "slow", "clear", "scan", "exchange", "stopTimer"} \subseteq Steps
    BY DEF Steps, Holding
  <2> QED
    BY <2>1 DEF CallStep, SetupAccepted, SetupEnables, SetupFails, SetupWrites, SetupGoes,
       SetupUnlocks, SetupStartsTimer, StopMarks, StopLoads, StopSlows, StopResets,
       StopClears, StopScans, StopExchanges, StopStopsTimer
<1>4. ClientsTyped'
  <2>1. motor[Target(c)].run \in RunStates /\ "slow" \in Steps /\ InNoCall \in ClientRecord
    BY <1>1, <1>2, AtRestTyped DEF MotorRecord, Steps, InNoCall, ClientRecord, RunStates
  <2>2. CASE client' = [client EXCEPT ![c] = InNoCall]
    BY <2>1, <2>2 DEF Typed, ClientsTyped, Target, InNoCall
  <2>3. ASSUME NEW step \in Steps, client' = [client EXCEPT ![c].step = step]
        PROVE  ClientsTyped'
    BY <1>1, <2>3 DEF Typed, ClientsTyped, Target, ClientRecord
  <2>4. CASE client' = [client EXCEPT ![c].step = "slow", ![c].seen = motor[Target(c)].run]
    <3>1. client' \in [Clients -> ClientRecord]
      <4> DEFINE r == [client[c] EXCEPT !.step = "slow", !.seen = motor[Target(c)].run]
      <4>1. r \in ClientRecord
        BY <1>2, <2>1 DEF ClientRecord
      <4>2. client' = [client EXCEPT ![c] = r]
        BY <1>2, <2>4
      <4> HIDE DEF r
      <4> QED BY <1>2, <4>1, <4>2
    <3>2. \A d \in Clients : client'[d].motor = client[d].motor
      BY <1>2, <2>4 DEF ClientRecord
    <3>3. \A d \in Clients \ {c} : client'[d] = client[d]
      BY <1>2, <2>4
    <3> QED BY <1>1, <3>1, <3>2, <3>3 DEF Typed, ClientsTyped, At, Target
  <2> QED BY <1>3, <2>2, <2>3, <2>4
<1>5. motor' \in [Motors -> MotorRecord]
  <2> DEFINE m == Target(c)
  <2>1. m \in Motors /\ {"Stopped", "Accelerating", "Decelerating"} \subseteq RunStates
    BY <1>1 DEF RunStates
  <2>2. CASE SetupEnables(c) \/ SetupFails(c)
    BY <1>1, <1>2, <2>2, PreparedTyped DEF SetupEnables, SetupFails
  <2>3. CASE SetupWrites(c)
    <3>1. 0 \in 0 .. SentBound /\ 0 \in 0 .. MAX_ACC_STEPS - 1
      BY MotorAssumption
    <3>2. motor' = [motor EXCEPT ![m] = [motor[m] EXCEPT !.movement = client[c].request,
                                                         !.acc = 0, !.sent = 0]]
      BY <2>3 DEF SetupWrites
    <3>3. motor[m] \in MotorRecord
      BY <1>2, <2>1
    <3>4. [motor[m] EXCEPT !.movement = client[c].request, !.acc = 0, !.sent = 0]
            \in MotorRecord
      BY <1>2, <3>1, <3>3 DEF MotorRecord
    <3> QED BY <1>2, <3>2, <3>4
  <2>4. CASE SetupGoes(c)
    <3>1. motor' = [motor EXCEPT ![m] = [motor[m] EXCEPT !.stopRequested = FALSE,
                                                         !.run = "Accelerating"]]
      BY <2>4 DEF SetupGoes
    <3>2. motor[m] \in MotorRecord
      BY <1>2, <2>1
    <3>3. [motor[m] EXCEPT !.stopRequested = FALSE, !.run = "Accelerating"] \in MotorRecord
      BY <2>1, <3>2 DEF MotorRecord
    <3> QED BY <1>2, <3>1, <3>3
  <2>5. CASE StopMarks(c)
    <3>1. motor' = [motor EXCEPT ![m] = [motor[m] EXCEPT !.stopRequested = TRUE]]
      BY <2>5 DEF StopMarks
    <3>2. motor[m] \in MotorRecord
      BY <1>2, <2>1
    <3>3. [motor[m] EXCEPT !.stopRequested = TRUE] \in MotorRecord
      BY <3>2 DEF MotorRecord
    <3> QED BY <1>2, <3>1, <3>3
  <2>6. CASE StopSlows(c)
    BY <1>2, <2>1, <2>6 DEF StopSlows, MotorRecord
  <2>7. CASE StopResets(c)
    BY <1>2, <2>1, <2>7 DEF StopResets, MotorRecord
  <2>8. CASE StopClears(c)
    BY <1>2, <2>1, <2>8, AtRestTyped DEF StopClears, MotorRecord
  <2>9. CASE motor' = motor
    BY <1>2, <2>9
  <2> QED
    BY <2>2, <2>3, <2>4, <2>5, <2>6, <2>7, <2>8, <2>9 DEF CallStep, SetupAccepted,
       SetupUnlocks, SetupStartsTimer, StopLoads, StopScans, StopExchanges, StopStopsTimer
<1>6. RestTyped'
  <2>1. DOMAIN asked' = Motors
    BY <1>2 DEF RestTyped, AskedUntilStop, CallStep, SetupAccepted, SetupEnables,
       SetupFails, SetupWrites, SetupGoes, SetupUnlocks, SetupStartsTimer, StopMarks,
       StopLoads, StopSlows, StopResets, StopClears, StopScans, StopExchanges,
       StopStopsTimer
  <2> QED BY <1>1, <1>2, <2>1 DEF CallStep, SetupAccepted, SetupEnables, SetupFails,
     SetupPowers, SetupWrites, SetupGoes, SetupUnlocks, SetupStartsTimer, StopMarks, StopLoads,
     StopSlows, StopResets, StopClears, StopScans, StopExchanges, StopStopsTimer
<1> QED BY <1>4, <1>5, <1>6 DEF Typed

LEMMA TypedNext == Typed /\ [Next]_vars => Typed'
<1> SUFFICES ASSUME Typed, [Next]_vars PROVE Typed'
  OBVIOUS
<1>1. ASSUME NEW luck, check_motors(luck) PROVE Typed'
  <2>1. motor' \in [Motors -> MotorRecord]
    BY <1>1, TickedTyped DEF check_motors, Typed
  <2>2. DOMAIN asked' = Motors
    BY <1>1 DEF check_motors, AskedUntilStop
  <2> QED BY <1>1, <2>1, <2>2 DEF check_motors, Typed, ClientsTyped, RestTyped, At, Target
<1>2. CASE WorkStep
  <2>1. UNCHANGED <<motor, callback, lock, client>>
    BY <1>2 DEF WorkStep, WorkStarts, WorkCleansUp, WorkCallsBack, hardware
  <2>2. RestTyped'
    BY <1>2, <2>1, MotorAssumption DEF WorkStep, WorkStarts, WorkCleansUp, Disables,
       WorkCallsBack, hardware, Typed, RestTyped
  <2> QED BY <2>1, <2>2 DEF Typed, ClientsTyped, At, Target
<1>3. CASE UNCHANGED vars
  BY <1>3 DEF vars, hardware, work, Typed, ClientsTyped, RestTyped, At, Target
<1> QED BY <1>1, <1>2, <1>3, CallTyped, CallStepTyped DEF Next

-----------------------------------------------------------------------------
(* Power.                                                                    *)

\* A setup that has got this far holds the lock of its motor.
Locked ==
  \A c \in Clients : client[c].step \in Holding => lock[Target(c)] = c

\* Unless a stop raced, a motor that moves has its output stage on, and so has
\* one that is about to, which nobody has started yet.
Powered ==
  ~raced =>
    /\ \A m \in Motors : motor[m].run # "Stopped" => m \in enabled
    /\ \A c \in Clients :
         /\ client[c].step \in {"enable", "wait", "go"} => motor[Target(c)].run = "Stopped"
         /\ client[c].step \in {"wait", "go"} => Target(c) \in enabled

Inv == Typed /\ Locked /\ Powered

\* A tick leaves a motor at rest where it is, or stops it, or keeps its movement.
LEMMA TickedRun ==
  ASSUME NEW mo \in MotorRecord, NEW luck
  PROVE  /\ mo.run = "Stopped" => Ticked(mo, luck).run = "Stopped"
         /\ Ticked(mo, luck).sent > mo.sent => mo.run # "Stopped"
<1>1. ASSUME mo.run = "Stopped" PROVE Ticked(mo, luck) \in {mo, AtRest}
  BY <1>1 DEF Ticked, Advanced, Over
<1>2. mo.sent \in 0 .. SentBound /\ AtRest.sent = 0 /\ AtRest.run = "Stopped"
  BY DEF MotorRecord, AtRest
<1> QED BY <1>1, <1>2, MotorAssumption

LEMMA PowerInit == Init => Locked /\ Powered
BY DEF Init, Locked, Powered, Holding, InNoCall, AtRest

LEMMA LockedNext == Typed /\ Locked /\ [Next]_vars => Locked'
<1> SUFFICES ASSUME Typed, Locked, [Next]_vars PROVE Locked'
  OBVIOUS
<1>1. ASSUME UNCHANGED <<client, lock>> PROVE Locked'
  BY <1>1 DEF Locked, Target
<1>2. ASSUME NEW c \in Clients, Call(c) PROVE Locked'
  <2>1. UNCHANGED lock /\ \/ UNCHANGED client
                          \/ \E step \in {"setup", "reset", "mark"}, m \in Motors,
                                info \in Movements \cup {NoMovement} :
                               Begin(c, step, m, info)
    BY <1>2 DEF Call, register_stop_callback, setup_movement, stop_movement
  <2> QED BY <2>1 DEF Locked, Target, Begin, Holding, Typed, ClientsTyped, InNoCall
<1>3. ASSUME NEW c \in Clients, CallStep(c) PROVE Locked'
  <2>1. Nobody \notin Clients /\ client \in [Clients -> ClientRecord] /\ Target(c) \in Motors
        /\ lock \in [Motors -> Clients \cup {Nobody}]
    BY <1>3, MotorAssumption DEF Typed, ClientsTyped, RestTyped, CallStep, SetupAccepted,
       SetupEnables, SetupFails, SetupWrites, SetupGoes, SetupUnlocks, SetupStartsTimer,
       StopMarks, StopLoads, StopSlows, StopResets, StopClears, StopScans, StopExchanges,
       StopStopsTimer, At
  <2>2. ASSUME NEW d \in Clients \ {c}
        PROVE  client'[d] = client[d]
    BY <1>3, <2>1 DEF CallStep, SetupAccepted, SetupEnables, SetupFails, SetupWrites,
       SetupGoes, SetupUnlocks, SetupStartsTimer, StopMarks, StopLoads, StopSlows,
       StopResets, StopClears, StopScans, StopExchanges, StopStopsTimer, Goto, Return,
       GotoOrReturn
  <2>3. CASE SetupAccepted(c)
    <3>1. lock[Target(c)] = Nobody /\ client'[c].step \in Holding => lock'[Target(c)] = c
      BY <2>1, <2>3 DEF SetupAccepted, Goto, Return, InNoCall, Holding
    <3>2. client'[c].step \in Holding => client'[c].motor = client[c].motor
      BY <2>1, <2>3 DEF SetupAccepted, Goto, Return, InNoCall, Holding, ClientRecord
    <3>3. \A m \in Motors : lock[m] # Nobody => lock'[m] = lock[m]
      BY <2>1, <2>3 DEF SetupAccepted
    <3> QED BY <2>1, <2>2, <2>3, <3>1, <3>2, <3>3 DEF SetupAccepted, Locked, Target, Typed,
        ClientsTyped, At, Holding
  <2>4. CASE SetupFails(c) \/ SetupUnlocks(c)
    <3>1. /\ client[c].step \in {"enable", "unlock"}
          /\ \/ client' = [client EXCEPT ![c] = InNoCall]
             \/ client' = [client EXCEPT ![c].step = "startTimer"]
      BY <2>4 DEF SetupFails, SetupUnlocks, Goto, Return, GotoOrReturn, At
    <3>2. lock' = [lock EXCEPT ![Target(c)] = Nobody]
      BY <2>4 DEF SetupFails, SetupUnlocks
    <3>3. client'[c].step \notin Holding /\ client[c].step \in Holding
      BY <2>1, <3>1 DEF InNoCall, Holding, ClientRecord
    <3> QED BY <2>1, <2>2, <3>2, <3>3 DEF Locked, Target
  <2>5. CASE /\ lock' = lock
             /\ ~SetupAccepted(c) /\ ~SetupFails(c) /\ ~SetupUnlocks(c)
    <3>1. \/ /\ client[c].step \in {"enable", "wait", "go"}
             /\ \E step \in Holding : client' = [client EXCEPT ![c].step = step]
          \/ client' = [client EXCEPT ![c] = InNoCall]
          \/ \E step \in {"load", "slow", "clear", "scan", "exchange", "stopTimer"} :
               client' = [client EXCEPT ![c].step = step]
          \/ client' = [client EXCEPT ![c].step = "slow", ![c].seen = motor[Target(c)].run]
      BY <1>3, <2>5 DEF CallStep, SetupEnables, SetupWrites, SetupGoes,
         SetupStartsTimer, StopMarks, StopLoads, StopSlows, StopResets, StopClears,
         StopScans, StopExchanges, StopStopsTimer, Goto, Return, GotoOrReturn, At, Holding
    <3>2. client'[c].step \in Holding =>
            client[c].step \in Holding /\ client'[c].motor = client[c].motor
      BY <2>1, <3>1 DEF InNoCall, Holding, ClientRecord
    <3> QED BY <2>2, <2>5, <3>2 DEF Locked, Target
  <2> QED BY <1>3, <2>3, <2>4, <2>5 DEF CallStep, SetupEnables, SetupWrites, SetupGoes,
     SetupStartsTimer, StopMarks, StopLoads, StopSlows, StopResets, StopClears, StopScans,
     StopExchanges, StopStopsTimer
<1> QED BY <1>1, <1>2, <1>3 DEF Next, WorkStep, check_motors, WorkStarts, WorkCleansUp,
   WorkCallsBack, vars

LEMMA RacedStays ==
  ASSUME [Next]_vars, ~raced' PROVE ~raced
BY DEF Next, check_motors, WorkStep, WorkStarts, WorkCleansUp, WorkCallsBack, Call,
   register_stop_callback, setup_movement, stop_movement, CallStep, SetupAccepted,
   SetupEnables, SetupFails, SetupWrites, SetupGoes, SetupUnlocks, SetupStartsTimer,
   StopMarks, StopLoads, StopSlows, StopResets, StopClears, StopScans, StopExchanges,
   StopStopsTimer, vars

\* What keeps the power on: per action, the parts of Powered it can disturb.
LEMMA PoweredNext == Inv /\ [Next]_vars => Powered'
<1> SUFFICES ASSUME Inv, [Next]_vars, ~raced' PROVE Powered'
  BY DEF Powered
<1> DEFINE Before(c) == client[c].step \in {"enable", "wait", "go"}
           Enabled(c) == client[c].step \in {"wait", "go"}
<1>1. ~raced
  BY RacedStays
<1>2. /\ \A m \in Motors : motor[m].run # "Stopped" => m \in enabled
      /\ \A c \in Clients : Before(c) => motor[Target(c)].run = "Stopped"
      /\ \A c \in Clients : Enabled(c) => Target(c) \in enabled
      /\ \A c \in Clients : Before(c) => lock[Target(c)] = c
      /\ \A c \in Clients : Before(c) => Target(c) \in Motors
  BY <1>1 DEF Inv, Powered, Locked, Holding, Typed, ClientsTyped, At
<1>3. /\ motor \in [Motors -> MotorRecord] /\ client \in [Clients -> ClientRecord]
      /\ enabled \subseteq Motors /\ lock \in [Motors -> Clients \cup {Nobody}]
      /\ Nobody \notin Clients
  BY MotorAssumption DEF Inv, Typed, ClientsTyped, RestTyped
<1>4. ASSUME UNCHANGED <<motor, client, enabled>> PROVE Powered'
  BY <1>2, <1>4 DEF Powered, Target
<1>5. ASSUME NEW luck, check_motors(luck) PROVE Powered'
  <2>1. \A m \in Motors : motor[m].run = "Stopped" => motor'[m].run = "Stopped"
    BY <1>3, <1>5, TickedRun DEF check_motors
  <2> QED BY <1>2, <1>5, <2>1 DEF check_motors, Powered, Target
<1>6. CASE WorkCleansUp
  <2>1. \A m \in Motors : motor[m].run # "Stopped" => m \in enabled'
    BY <1>2, <1>6 DEF WorkCleansUp, Disables
  <2>2. \A c \in Clients : Enabled(c) => Target(c) \in enabled'
    BY <1>2, <1>3, <1>6 DEF WorkCleansUp, Disables
  <2> QED BY <1>2, <1>6, <2>1, <2>2 DEF WorkCleansUp, Powered, Target
<1>7. ASSUME NEW c \in Clients, Call(c) PROVE Powered'
  <2>1. UNCHANGED <<motor, enabled>>
        /\ \/ UNCHANGED client
           \/ \E step \in {"setup", "reset", "mark"}, m \in Motors,
                 info \in Movements \cup {NoMovement} : Begin(c, step, m, info)
    BY <1>7 DEF Call, register_stop_callback, setup_movement, stop_movement, hardware
  <2>2. /\ \A d \in Clients \ {c} : client'[d] = client[d]
        /\ client' = client \/ ~Before(c)'
    <3>1. CASE UNCHANGED client
      BY <3>1
    <3>2. ASSUME NEW step \in {"setup", "reset", "mark"}, NEW m \in Motors,
                 NEW info \in Movements \cup {NoMovement}, Begin(c, step, m, info)
          PROVE  (\A d \in Clients \ {c} : client'[d] = client[d]) /\ ~Before(c)'
      <4>1. \E r : r.step = step /\ client' = [client EXCEPT ![c] = r]
        BY <3>2 DEF Begin, InNoCall
      <4> QED BY <1>3, <4>1
    <3> QED BY <2>1, <3>1, <3>2
  <2> QED BY <1>2, <2>1, <2>2 DEF Powered, Target
<1>8. ASSUME NEW c \in Clients, CallStep(c) PROVE Powered'
  <2> USE DEF At, Goto, Return, GotoOrReturn, InNoCall, hardware, work
  <2>1. Target(c) \in Motors /\ client[c] \in ClientRecord
    BY <1>3, <1>8 DEF Inv, Typed, ClientsTyped, CallStep, SetupAccepted, SetupEnables,
       SetupFails, SetupWrites, SetupGoes, SetupUnlocks, SetupStartsTimer, StopMarks,
       StopLoads, StopSlows, StopResets, StopClears, StopScans, StopExchanges,
       StopStopsTimer
  <2>2. \A d \in Clients \ {c} : client'[d] = client[d]
    BY <1>3, <1>8 DEF CallStep, SetupAccepted, SetupEnables, SetupFails, SetupWrites,
       SetupGoes, SetupUnlocks, SetupStartsTimer, StopMarks, StopLoads, StopSlows,
       StopResets, StopClears, StopScans, StopExchanges, StopStopsTimer
  <2>3. CASE SetupAccepted(c)
    <3>1. UNCHANGED <<motor, enabled>>
      BY <2>3 DEF SetupAccepted
    <3>2. client'[c].step \in {"enable", "idle"}
          /\ (client'[c].step = "enable" => /\ client'[c].motor = client[c].motor
                                            /\ motor[Target(c)].run = "Stopped")
      BY <1>3, <2>1, <2>3 DEF SetupAccepted, Active, movement_state, ClientRecord
    <3> QED BY <1>2, <2>2, <3>1, <3>2 DEF Powered, Target
  <2>4. CASE SetupEnables(c)
    <3>1. \A m \in Motors : motor'[m].run = motor[m].run
      BY <1>3, <2>4 DEF SetupEnables, Prepared, MotorRecord
    <3>2. enabled' = enabled \cup {Target(c)} /\ Before(c)
          /\ client'[c].motor = client[c].motor
      BY <1>3, <2>1, <2>4 DEF SetupEnables, ClientRecord
    <3> QED BY <1>2, <2>2, <3>1, <3>2 DEF Powered, Target
  <2>5. CASE SetupFails(c)
    <3>1. \A m \in Motors : motor'[m].run = motor[m].run
      BY <1>3, <2>5 DEF SetupFails, Prepared, MotorRecord
    <3>2. enabled \ {Target(c)} \subseteq enabled' /\ Before(c) /\ client'[c].step = "idle"
      BY <1>3, <2>5 DEF SetupFails, SetupPowers
    <3>3. \A d \in Clients \ {c} : Before(d) => Target(d) # Target(c)
      BY <1>2, <3>2
    <3> QED BY <1>2, <2>2, <3>1, <3>2, <3>3 DEF Powered, Target
  <2>6. CASE SetupWrites(c)
    <3>1. (\A m \in Motors : motor'[m].run = motor[m].run) /\ enabled' = enabled
      BY <1>3, <2>1, <2>6 DEF SetupWrites, MotorRecord
    <3>2. Enabled(c) /\ client'[c].motor = client[c].motor
      BY <1>3, <2>1, <2>6 DEF SetupWrites, ClientRecord
    <3> QED BY <1>2, <2>2, <3>1, <3>2 DEF Powered, Target
  <2>7. CASE SetupGoes(c)
    <3>1. /\ \A m \in Motors \ {Target(c)} : motor'[m].run = motor[m].run
          /\ enabled' = enabled /\ Enabled(c) /\ client'[c].step = "unlock"
      BY <1>3, <2>1, <2>7 DEF SetupGoes
    <3>2. \A d \in Clients \ {c} : Before(d) => Target(d) # Target(c)
      BY <1>2, <3>1
    <3> QED BY <1>2, <2>2, <3>1, <3>2 DEF Powered, Target
  <2>8. CASE StopSlows(c)
    <3>1. /\ \A m \in Motors \ {Target(c)} : motor'[m].run = motor[m].run
          /\ enabled' = enabled /\ client'[c].step = "scan"
      BY <1>3, <2>1, <2>8 DEF StopSlows
    <3>2. \/ motor' = motor
          \/ motor[Target(c)].run # "Stopped" /\ lock[Target(c)] = Nobody
      BY <1>1, <2>8 DEF StopSlows
    <3> QED BY <1>2, <1>3, <2>1, <2>2, <3>1, <3>2 DEF Powered, Target
  <2>9. CASE StopMarks(c) \/ StopResets(c) \/ StopClears(c)
    <3>1. \A m \in Motors : motor'[m].run \in {"Stopped", motor[m].run}
      BY <1>3, <2>1, <2>9 DEF StopMarks, StopResets, StopClears, MotorRecord, AtRest
    <3>2. /\ enabled' = enabled
          /\ \/ client' = [client EXCEPT ![c] = InNoCall]
             \/ \E step \in {"load", "clear", "scan"} :
                  client' = [client EXCEPT ![c].step = step]
      BY <2>9 DEF StopMarks, StopResets, StopClears
    <3>3. client'[c].step \notin {"enable", "wait", "go"}
      BY <1>3, <2>1, <3>2 DEF ClientRecord
    <3> QED BY <1>2, <2>2, <3>1, <3>2, <3>3 DEF Powered, Target
  <2>10. CASE \/ SetupUnlocks(c) \/ SetupStartsTimer(c) \/ StopLoads(c) \/ StopScans(c)
              \/ StopExchanges(c) \/ StopStopsTimer(c)
    <3>1. UNCHANGED <<motor, enabled>>
      BY <2>10 DEF SetupUnlocks, SetupStartsTimer, StopLoads, StopScans, StopExchanges,
         StopStopsTimer
    <3>2. \/ client' = [client EXCEPT ![c] = InNoCall]
          \/ \E step \in {"startTimer", "exchange", "stopTimer"} :
               client' = [client EXCEPT ![c].step = step]
          \/ client' = [client EXCEPT ![c].step = "slow", ![c].seen = motor[Target(c)].run]
      BY <2>10 DEF SetupUnlocks, SetupStartsTimer, StopLoads, StopScans,
         StopExchanges, StopStopsTimer
    <3>3. client'[c].step \notin {"enable", "wait", "go"}
      BY <1>3, <2>1, <3>2 DEF ClientRecord
    <3> QED BY <1>2, <2>2, <3>1, <3>2, <3>3 DEF Powered, Target
  <2> QED
    BY <1>8, <2>3, <2>4, <2>5, <2>6, <2>7, <2>8, <2>9, <2>10 DEF CallStep
<1> QED BY <1>4, <1>5, <1>6, <1>7, <1>8 DEF Next, WorkStep, WorkStarts, WorkCallsBack,
   vars, hardware

-----------------------------------------------------------------------------
(* What a client's step leaves alone.                                        *)

\* Where a call goes on, or that it returns.
LEMMA ClientMoves ==
  ASSUME Typed, NEW c \in Clients
  PROVE  /\ \A step : Goto(c, step) => /\ client'[c].step = step
                                       /\ client'[c].motor = client[c].motor
                                       /\ client'[c].request = client[c].request
         /\ Return(c) => client'[c].step = "idle"
<1>1. client \in [Clients -> ClientRecord]
  BY DEF Typed, ClientsTyped
<1> QED BY <1>1 DEF Goto, Return, InNoCall, ClientRecord

\* A step of a call disturbs one client and one motor, the call's.
LEMMA StepFrame ==
  ASSUME Typed, NEW c \in Clients, CallStep(c)
  PROVE  /\ Target(c) \in Motors /\ client[c] \in ClientRecord
         /\ \A d \in Clients \ {c} : client'[d] = client[d]
         /\ \A m \in Motors \ {Target(c)} : motor'[m] = motor[m]
<1>1. client \in [Clients -> ClientRecord] /\ motor \in [Motors -> MotorRecord]
  BY DEF Typed, ClientsTyped
<1>2. Target(c) \in Motors
  BY DEF Typed, ClientsTyped, CallStep, At, SetupAccepted, SetupEnables, SetupFails,
     SetupWrites, SetupGoes, SetupUnlocks, SetupStartsTimer, StopMarks, StopLoads,
     StopSlows, StopResets, StopClears, StopScans, StopExchanges, StopStopsTimer
<1>3. \/ \E step : Goto(c, step)
      \/ Return(c)
      \/ client' = [client EXCEPT ![c].step = "slow", ![c].seen = motor[Target(c)].run]
  BY DEF CallStep, GotoOrReturn, SetupAccepted, SetupEnables, SetupFails,
     SetupWrites, SetupGoes, SetupUnlocks, SetupStartsTimer, StopMarks, StopLoads,
     StopSlows, StopResets, StopClears, StopScans, StopExchanges, StopStopsTimer
<1>4. \A d \in Clients \ {c} : client'[d] = client[d]
  BY <1>1, <1>3 DEF Goto, Return
<1>5. \A m \in Motors \ {Target(c)} : motor'[m] = motor[m]
  BY <1>1 DEF CallStep, Prepared, SetupAccepted, SetupEnables, SetupFails,
     SetupWrites, SetupGoes, SetupUnlocks, SetupStartsTimer, StopMarks, StopLoads,
     StopSlows, StopResets, StopClears, StopScans, StopExchanges, StopStopsTimer
<1> QED BY <1>1, <1>2, <1>4, <1>5

\* The start of a call only moves its client.
LEMMA CallFrame ==
  ASSUME Typed, NEW c \in Clients, Call(c)
  PROVE  /\ UNCHANGED <<motor, hardware, lock, work, timerStarted, asked, raced>>
         /\ \/ UNCHANGED client
            \/ /\ At(c, "idle") /\ client'[c].step \in {"setup", "reset", "mark"}
               /\ \A d \in Clients \ {c} : client'[d] = client[d]
<1>1. client \in [Clients -> ClientRecord]
  BY DEF Typed, ClientsTyped
<1>2. ASSUME NEW step \in {"setup", "reset", "mark"}, NEW m \in Motors,
             NEW info \in Movements \cup {NoMovement}, Begin(c, step, m, info)
      PROVE  /\ At(c, "idle") /\ client'[c].step \in {"setup", "reset", "mark"}
             /\ \A d \in Clients \ {c} : client'[d] = client[d]
  <2>1. \E r : r.step = step /\ client' = [client EXCEPT ![c] = r]
    BY <1>2 DEF Begin, InNoCall
  <2> QED BY <1>1, <1>2, <2>1 DEF Begin
<1>3. /\ UNCHANGED <<motor, hardware, lock, work, timerStarted, asked, raced>>
      /\ \/ UNCHANGED client
         \/ \E step \in {"setup", "reset", "mark"}, m \in Motors,
               info \in Movements \cup {NoMovement} : Begin(c, step, m, info)
  BY DEF Call, register_stop_callback, setup_movement, stop_movement
<1> QED BY <1>2, <1>3

-----------------------------------------------------------------------------
(* The timer.                                                                *)

\* Unless a stop raced, an active motor has the timer started, or its setup is
\* about to; and who found the timer not started is on the way to start it.
Ticking ==
  ~raced =>
    /\ \A m \in Motors : Active(m) =>
         timerStarted \/ \E c \in Clients : At(c, "unlock") /\ Target(c) = m
    /\ timerStarted => timerRunning \/ \E c \in Clients : At(c, "startTimer")

\* A step that leaves the timer alone wakes no motor, unless it is SetupGoes
\* or races.
LEMMA WakesNone ==
  ASSUME Typed, NEW c \in Clients, ~raced',
         \/ SetupAccepted(c) \/ SetupEnables(c) \/ SetupFails(c) \/ SetupWrites(c)
         \/ StopMarks(c) \/ StopLoads(c) \/ StopSlows(c) \/ StopResets(c)
         \/ StopClears(c) \/ StopScans(c)
  PROVE  \A m \in Motors : Active(m)' => Active(m)
<1> SUFFICES ASSUME NEW m \in Motors PROVE Active(m)' => Active(m)
  OBVIOUS
<1>1. motor \in [Motors -> MotorRecord] /\ motor[m] \in MotorRecord
  BY DEF Typed
<1>2. CASE SetupAccepted(c) \/ StopLoads(c) \/ StopScans(c)
  BY <1>2 DEF SetupAccepted, StopLoads, StopScans, Active, movement_state
<1>3. CASE SetupEnables(c) \/ SetupFails(c) \/ SetupWrites(c)
  <2>1. motor'[m].run = motor[m].run /\ motor'[m].stopRequested = motor[m].stopRequested
    BY <1>1, <1>3 DEF SetupEnables, SetupFails, SetupWrites, Prepared, MotorRecord
  <2> QED BY <2>1 DEF Active, movement_state
<1>4. CASE StopMarks(c) \/ StopSlows(c)
  <2>1. motor'[m] = motor[m] \/ motor[m].run # "Stopped"
    BY <1>1, <1>4 DEF StopMarks, StopSlows
  <2> QED BY <2>1 DEF Active, movement_state
<1>5. CASE StopResets(c)
  <2>1. /\ motor'[m].run \in {motor[m].run, "Stopped"}
        /\ motor'[m].stopRequested = motor[m].stopRequested
    BY <1>1, <1>5 DEF StopResets, MotorRecord
  <2> QED BY <2>1 DEF Active, movement_state
<1>6. CASE StopClears(c)
  <2>1. motor'[m] = motor[m] \/ (motor'[m].run = motor[m].run /\ ~motor'[m].stopRequested)
    BY <1>1, <1>6 DEF StopClears, AtRest
  <2> QED BY <2>1 DEF Active, movement_state
<1> QED BY <1>2, <1>3, <1>4, <1>5, <1>6

LEMMA TickingNext == Typed /\ Ticking /\ [Next]_vars => Ticking'
<1> SUFFICES ASSUME Typed, Ticking, [Next]_vars, ~raced' PROVE Ticking'
  BY DEF Ticking
<1> DEFINE Starting(c, m) == At(c, "unlock") /\ Target(c) = m
<1>1. ~raced
  BY RacedStays
<1>2. /\ \A m \in Motors : Active(m) =>
           timerStarted \/ \E c \in Clients : Starting(c, m)
      /\ timerStarted => timerRunning \/ \E c \in Clients : At(c, "startTimer")
  BY <1>1 DEF Ticking
<1>3. ASSUME UNCHANGED <<motor, client, timerStarted, timerRunning>> PROVE Ticking'
  BY <1>2, <1>3 DEF Ticking, Active, movement_state, At, Target
<1>4. ASSUME NEW luck, check_motors(luck) PROVE Ticking'
  <2>1. \A m \in Motors : Active(m)' => Active(m)
    BY <1>4 DEF check_motors, Active, movement_state
  <2>2. \/ \A m \in Motors : ~Active(m)'
        \/ UNCHANGED <<timerStarted, timerRunning>>
    BY <1>4 DEF check_motors
  <2>3. UNCHANGED client /\ (timerStarted' => UNCHANGED <<timerStarted, timerRunning>>)
    BY <1>4 DEF check_motors
  <2> QED BY <1>2, <2>1, <2>2, <2>3 DEF Ticking, At, Target
<1>5. ASSUME NEW c \in Clients, Call(c) PROVE Ticking'
  <2>1. /\ UNCHANGED <<motor, timerStarted, timerRunning>>
        /\ \A d \in Clients : \/ client'[d] = client[d]
                              \/ At(d, "idle")
    BY <1>5, CallFrame DEF hardware
  <2>2. \A d \in Clients : At(d, "unlock") \/ At(d, "startTimer") => client'[d] = client[d]
    BY <2>1 DEF At
  <2> QED BY <1>2, <2>1, <2>2 DEF Ticking, Active, movement_state, At, Target
<1>6. ASSUME NEW c \in Clients, CallStep(c) PROVE Ticking'
  <2>1. \A d \in Clients \ {c} : client'[d] = client[d]
    BY <1>6, StepFrame
  <2>2. CASE SetupGoes(c)
    <3>1. /\ UNCHANGED <<timerStarted, timerRunning>> /\ At(c, "go")
          /\ At(c, "unlock")' /\ Target(c)' = Target(c)
      BY <2>2, ClientMoves DEF SetupGoes, hardware, At, Target
    <3>2. \A m \in Motors : m # Target(c) /\ Active(m)' => Active(m)
      BY <1>6, StepFrame DEF Active, movement_state
    <3> QED BY <1>2, <2>1, <3>1, <3>2 DEF Ticking, At, Target
  <2>3. CASE SetupUnlocks(c)
    <3>1. timerStarted' /\ UNCHANGED timerRunning /\ At(c, "unlock")
          /\ (~timerStarted => At(c, "startTimer")')
      BY <2>3, ClientMoves DEF SetupUnlocks, hardware, GotoOrReturn, At
    <3> QED BY <1>2, <2>1, <3>1 DEF Ticking, At
  <2>4. CASE SetupStartsTimer(c)
    <3>1. timerRunning' /\ UNCHANGED <<motor, timerStarted>> /\ At(c, "startTimer")
      BY <2>4 DEF SetupStartsTimer
    <3> QED BY <1>2, <2>1, <3>1 DEF Ticking, Active, movement_state, At, Target
  <2>5. CASE StopExchanges(c)
    <3>1. ~timerStarted' /\ \A m \in Motors : ~Active(m)'
      BY <2>5 DEF StopExchanges, Active, movement_state
    <3> QED BY <3>1 DEF Ticking
  <2>6. CASE StopStopsTimer(c)
    <3>1. ~timerStarted' /\ UNCHANGED <<motor, timerStarted>> /\ At(c, "stopTimer")
      BY <2>6 DEF StopStopsTimer
    <3> QED BY <1>2, <2>1, <3>1 DEF Ticking, Active, movement_state, At, Target
  <2>7. CASE \/ SetupAccepted(c) \/ SetupEnables(c) \/ SetupFails(c) \/ SetupWrites(c)
             \/ StopMarks(c) \/ StopLoads(c) \/ StopSlows(c) \/ StopResets(c)
             \/ StopClears(c) \/ StopScans(c)
    <3>1. \A m \in Motors : Active(m)' => Active(m)
      BY <2>7, WakesNone
    <3>2. UNCHANGED <<timerStarted, timerRunning>>
          /\ ~At(c, "unlock") /\ ~At(c, "startTimer")
      BY <2>7 DEF SetupAccepted, SetupEnables, SetupFails, SetupWrites, StopMarks,
         StopLoads, StopSlows, StopResets, StopClears, StopScans, At, hardware
    <3> QED BY <1>2, <2>1, <3>1, <3>2 DEF Ticking, At, Target
  <2> QED BY <1>6, <2>2, <2>3, <2>4, <2>5, <2>6, <2>7 DEF CallStep
<1> QED BY <1>3, <1>4, <1>5, <1>6 DEF Next, WorkStep, WorkStarts, WorkCleansUp,
   WorkCallsBack, vars, hardware

-----------------------------------------------------------------------------
(* The output stages.                                                        *)

\* A motor whose output stage is on moves, could not be switched off, waits for
\* its cleanup, or belongs to a call that is about to start it or to ask for the
\* cleanup.
OffAtRest ==
  \A m \in enabled :
    \/ Active(m)
    \/ m \in stuck
    \/ m \in pending
    \/ worker = m /\ workStep = "start"
    \/ \E c \in Clients : client[c].step \in {"wait", "go", "clear"} /\ Target(c) = m

\* A tick leaves the record alone, clears it, or keeps the motor moving.
LEMMA TickedRests ==
  ASSUME NEW mo \in MotorRecord, NEW luck
  PROVE  \/ Ticked(mo, luck) \in {mo, AtRest}
         \/ Ticked(mo, luck).run # "Stopped"
<1> DEFINE next == Advanced(mo)
<1>1. next.run # "Stopped" =>
        [next EXCEPT !.sent = IF next.sent < SentBound THEN next.sent + 1 ELSE @].run
          # "Stopped"
  <2>1. next \in [DOMAIN mo -> {next[f] : f \in DOMAIN mo}]
    BY DEF Advanced, MotorRecord
  <2>2. "run" \in DOMAIN mo
    BY DEF MotorRecord
  <2> HIDE DEF next
  <2> QED BY <2>1, <2>2
<1>2. next.run = "Stopped" => Over(next, luck = "expired")
  BY DEF Over
<1> QED BY <1>1, <1>2 DEF Ticked

LEMMA OffAtRestNext == Typed /\ OffAtRest /\ [Next]_vars => OffAtRest'
<1> SUFFICES ASSUME Typed, OffAtRest, [Next]_vars PROVE OffAtRest'
  OBVIOUS
<1> DEFINE Keeps(c) == client[c].step \in {"wait", "go", "clear"}
<1>1. motor \in [Motors -> MotorRecord]
  BY DEF Typed
<1>2. ASSUME NEW luck, check_motors(luck) PROVE OffAtRest'
  <2>1. ASSUME NEW m \in Motors, Active(m) PROVE Active(m)' \/ m \in pending'
    <3>1. motor'[m] = Ticked(motor[m], luck[m]) /\ (motor'[m] = AtRest => m \in pending')
      BY <1>2, <2>1 DEF check_motors
    <3> QED BY <1>1, <2>1, <3>1, TickedRests DEF Active, movement_state
  <2> QED BY <1>2, <2>1 DEF OffAtRest, check_motors, Target, Typed, RestTyped
<1>3. CASE WorkStep
  <2>1. UNCHANGED <<motor, client>> /\ \A m \in Motors : Active(m)' = Active(m)
    BY <1>3 DEF WorkStep, WorkStarts, WorkCleansUp, WorkCallsBack, Active, movement_state
  <2>2. ASSUME NEW m \in enabled'
        PROVE  /\ m \in enabled
               /\ m \in stuck => m \in stuck'
               /\ \/ Active(m) \/ m \in stuck' \/ m \in pending'
                  \/ worker' = m /\ workStep' = "start"
                  \/ ~(m \in pending \/ (worker = m /\ workStep = "start"))
    <3>1. ASSUME NEW n \in Motors, WorkStarts(n)
          PROVE  m \in enabled /\ stuck' = stuck
                 /\ (m \in pending => m \in pending' \/ worker' = m)
                 /\ workStep' = "start" /\ worker = Nobody
      BY <2>2, <3>1 DEF WorkStarts, hardware
    <3>2. CASE WorkCleansUp
      BY <2>2, <3>2 DEF WorkCleansUp, Disables, Active, movement_state
    <3>3. CASE WorkCallsBack
      BY <2>2, <3>3 DEF WorkCallsBack, hardware
    <3>4. m \in enabled => m \in Motors /\ m # Nobody
      BY MotorAssumption DEF Typed, RestTyped
    <3> QED BY <1>3, <3>1, <3>2, <3>3, <3>4 DEF WorkStep
  <2> QED BY <2>1, <2>2 DEF OffAtRest, Target, Typed, RestTyped
<1>4. ASSUME UNCHANGED <<motor, enabled, stuck, work>>,
             \A d \in Clients : Keeps(d) => client'[d] = client[d]
      PROVE  OffAtRest'
  BY <1>4 DEF OffAtRest, Active, movement_state, Target, work
<1>5. ASSUME NEW c \in Clients, Call(c) PROVE OffAtRest'
  <2>1. \A d \in Clients : Keeps(d) => client'[d] = client[d]
    BY <1>5, CallFrame DEF At
  <2> QED BY <1>4, <1>5, <2>1, CallFrame DEF hardware
<1>6. ASSUME NEW c \in Clients, CallStep(c) PROVE OffAtRest'
  <2>0. PICK t \in Motors : t = Target(c)
    BY <1>6, StepFrame
  <2>1. /\ t \in Motors
        /\ \A d \in Clients \ {c} : client'[d] = client[d]
        /\ \A m \in Motors \ {t} : Active(m)' = Active(m)
        /\ worker' = worker /\ workStep' = workStep
    <3>1. worker' = worker /\ workStep' = workStep
      BY <1>6 DEF CallStep, work, SetupAccepted, SetupEnables, SetupFails, SetupWrites,
         SetupGoes, SetupUnlocks, SetupStartsTimer, StopMarks, StopLoads, StopSlows,
         StopResets, StopClears, StopScans, StopExchanges, StopStopsTimer
    <3> QED BY <1>6, <2>0, <3>1, StepFrame DEF Active, movement_state
  <2>2. \A m \in enabled : m \in Motors
    BY DEF Typed, RestTyped
  <2>3. ASSUME /\ \A m \in enabled' : m \in enabled \/ m \in stuck'
               /\ \A m \in enabled' : m \in stuck => m \in stuck'
               /\ ~Keeps(c)
               /\ Active(t) => Active(t)' \/ t \in pending'
               /\ pending \subseteq pending'
        PROVE  OffAtRest'
    BY <2>0, <2>1, <2>2, <2>3 DEF OffAtRest, Target
  <2>4. CASE SetupEnables(c)
    <3>1. /\ enabled' = enabled \cup {t} /\ pending' = pending \ {t} /\ stuck' = stuck \ {t}
          /\ ~Keeps(c) /\ Keeps(c)' /\ Target(c)' = t
      BY <2>0, <2>4, ClientMoves DEF SetupEnables, At, Target
    <3> QED BY <2>0, <2>1, <2>2, <3>1 DEF OffAtRest, Target
  <2>5. CASE SetupFails(c)
    <3>1. motor'[t].run = motor[t].run /\ motor'[t].stopRequested = motor[t].stopRequested
      BY <1>1, <2>0, <2>5 DEF SetupFails, Prepared, MotorRecord
    <3> QED BY <2>3, <2>5, <3>1 DEF SetupFails, SetupPowers, Active, movement_state, At, work
  <2>6. CASE SetupWrites(c)
    <3>1. /\ UNCHANGED <<enabled, stuck, pending>> /\ Keeps(c)' /\ Target(c)' = t
      BY <2>0, <2>6, ClientMoves DEF SetupWrites, Target, hardware, work
    <3> QED BY <2>0, <2>1, <2>2, <3>1 DEF OffAtRest, Target
  <2>7. CASE SetupGoes(c)
    <3>1. UNCHANGED <<enabled, stuck, pending>> /\ motor'[t].run = "Accelerating"
      BY <1>1, <2>0, <2>7 DEF SetupGoes, hardware, work, MotorRecord
    <3>2. Active(t)'
      BY <3>1 DEF Active, movement_state
    <3> QED BY <2>0, <2>1, <2>2, <3>1, <3>2 DEF OffAtRest, Target
  <2>8. CASE StopMarks(c) \/ StopSlows(c)
    <3>1. \/ motor' = motor
          \/ motor'[t].run = "Decelerating"
          \/ motor'[t].stopRequested
      BY <1>1, <2>0, <2>8 DEF StopMarks, StopSlows, MotorRecord
    <3> QED BY <2>3, <2>8, <3>1 DEF StopMarks, StopSlows, Active, movement_state, At,
       hardware, work
  <2>9. CASE StopResets(c)
    <3>1. UNCHANGED <<enabled, stuck, pending>> /\ Keeps(c)' /\ Target(c)' = t
      BY <2>0, <2>9, ClientMoves DEF StopResets, hardware, work, Target
    <3> QED BY <2>0, <2>1, <2>2, <3>1 DEF OffAtRest, Target
  <2>10. CASE StopClears(c)
    <3>1. UNCHANGED <<enabled, stuck>> /\ pending' = pending \cup {t}
      BY <2>0, <2>10 DEF StopClears, hardware, Target
    <3> QED BY <2>0, <2>1, <2>2, <3>1 DEF OffAtRest, Target
  <2>11. CASE \/ SetupAccepted(c) \/ SetupUnlocks(c) \/ SetupStartsTimer(c)
              \/ StopLoads(c) \/ StopScans(c) \/ StopExchanges(c) \/ StopStopsTimer(c)
    <3>1. UNCHANGED <<motor, enabled, stuck, pending>> /\ ~Keeps(c)
      BY <2>11 DEF SetupAccepted, SetupUnlocks, SetupStartsTimer, StopLoads, StopScans,
         StopExchanges, StopStopsTimer, hardware, work, At
    <3> QED BY <2>3, <3>1 DEF Active, movement_state
  <2> QED BY <1>6, <2>4, <2>5, <2>6, <2>7, <2>8, <2>9, <2>10, <2>11 DEF CallStep
<1>7. CASE UNCHANGED vars
  BY <1>4, <1>7 DEF vars, hardware
<1> QED BY <1>2, <1>3, <1>5, <1>6, <1>7 DEF Next

-----------------------------------------------------------------------------
(* The movements.                                                            *)

MovesOn(m) ==
  motor[m].run # "Stopped" =>
    /\ motor[m].movement = asked[m]
    /\ asked[m].pulses > 0 => motor[m].sent <= asked[m].pulses

\* What a setup has written while it holds the lock.
Written(c) ==
  /\ client[c].step \in {"enable", "wait", "go"} => ~motor[Target(c)].stopRequested
  /\ At(c, "go") => /\ motor[Target(c)].movement = client[c].request
                    /\ motor[Target(c)].sent = 0

\* Unless a stop raced, a motor that moves carries out what was asked last, and
\* nothing touches a motor between its setup's writes and its start.
Carried == ~raced => (\A m \in Motors : MovesOn(m)) /\ (\A c \in Clients : Written(c))

\* A tick keeps the movement and never counts past its pulses.
LEMMA TickedMovesOn ==
  ASSUME NEW mo \in MotorRecord, NEW luck, Ticked(mo, luck).run # "Stopped",
         mo.movement.pulses > 0 => mo.sent <= mo.movement.pulses
  PROVE  /\ mo.run # "Stopped"
         /\ Ticked(mo, luck).movement = mo.movement
         /\ mo.movement.pulses > 0 => Ticked(mo, luck).sent <= mo.movement.pulses
<1> DEFINE next == Advanced(mo)
<1>1. mo.run # "Stopped"
  BY TickedRun
<1>2. CASE Ticked(mo, luck) = mo
  BY <1>1, <1>2
<1>3. CASE Ticked(mo, luck) # mo
  <2>1. /\ next.movement = mo.movement /\ next.sent = mo.sent
        /\ {"sent", "movement"} \subseteq DOMAIN next
    BY DEF Advanced, MotorRecord
  <2>2. ~Over(next, luck = "expired")
        /\ Ticked(mo, luck) = [next EXCEPT !.sent = IF next.sent < SentBound
                                                    THEN next.sent + 1 ELSE @]
    BY <1>3 DEF Ticked, AtRest
  <2>3. mo.sent \in Nat /\ mo.movement.pulses \in Nat
    BY MotorAssumption, AtRestTyped DEF MotorRecord
  <2> HIDE DEF next
  <2>4. /\ Ticked(mo, luck).movement = mo.movement
        /\ Ticked(mo, luck).sent \in {mo.sent, mo.sent + 1}
    BY <2>1, <2>2
  <2>5. mo.movement.pulses > 0 => mo.sent < mo.movement.pulses
    BY <2>1, <2>2, <2>3 DEF Over
  <2> QED BY <1>1, <2>3, <2>4, <2>5
<1> QED BY <1>2, <1>3

\* A motor that a setup has locked is left alone by the other clients.
LEMMA HeldMotor ==
  ASSUME Inv, NEW c \in Clients, CallStep(c), ~raced',
         NEW d \in Clients \ {c}, client[d].step \in {"enable", "wait", "go"}
  PROVE  motor'[Target(d)] = motor[Target(d)]
<1>1. /\ lock[Target(d)] = d /\ Target(d) \in Motors /\ Nobody \notin Clients
      /\ motor \in [Motors -> MotorRecord]
  BY MotorAssumption DEF Inv, Locked, Holding, Typed, ClientsTyped, At
<1>2. CASE Target(d) # Target(c)
  BY <1>1, <1>2, StepFrame DEF Inv
<1>3. CASE client[c].step \in {"enable", "wait", "go"}
  <2>1. lock[Target(c)] = c
    BY <1>3 DEF Inv, Locked, Holding
  <2> QED BY <1>1, <1>2, <2>1
<1>4. CASE client[c].step \in {"mark", "reset", "clear"}
  <2>1. lock[Target(c)] = Nobody
    BY <1>4 DEF CallStep, At, SetupAccepted, SetupEnables, SetupFails, SetupWrites,
       SetupGoes, SetupUnlocks, SetupStartsTimer, StopMarks, StopLoads, StopSlows,
       StopResets, StopClears, StopScans, StopExchanges, StopStopsTimer
  <2> QED BY <1>1, <1>2, <2>1
<1>5. CASE StopSlows(c)
  <2>1. motor' = motor \/ lock[Target(c)] = Nobody
    BY <1>5 DEF StopSlows
  <2> QED BY <1>1, <1>2, <2>1
<1>6. CASE client[c].step \notin {"enable", "wait", "go", "mark", "reset", "clear", "slow"}
  <2>1. motor' = motor
    BY <1>6 DEF CallStep, At, SetupAccepted, SetupEnables, SetupFails, SetupWrites,
       SetupGoes, SetupUnlocks, SetupStartsTimer, StopMarks, StopLoads, StopSlows,
       StopResets, StopClears, StopScans, StopExchanges, StopStopsTimer
  <2> QED BY <2>1
<1>7. client[c].step = "slow" => StopSlows(c)
  BY DEF CallStep, At, SetupAccepted, SetupEnables, SetupFails, SetupWrites,
     SetupGoes, SetupUnlocks, SetupStartsTimer, StopMarks, StopLoads, StopSlows,
     StopResets, StopClears, StopScans, StopExchanges, StopStopsTimer
<1> QED BY <1>3, <1>4, <1>5, <1>6, <1>7

LEMMA CarriedNext == Inv /\ Carried /\ [Next]_vars => Carried'
<1> SUFFICES ASSUME Inv, Carried, [Next]_vars, ~raced' PROVE Carried'
  BY DEF Carried
<1> DEFINE Before(c) == client[c].step \in {"enable", "wait", "go"}
<1>1. ~raced /\ Typed /\ motor \in [Motors -> MotorRecord]
  BY RacedStays DEF Inv, Typed
<1>2. (\A m \in Motors : MovesOn(m)) /\ (\A c \in Clients : Written(c))
  BY <1>1 DEF Carried
<1>3. \A c \in Clients : Before(c) => /\ motor[Target(c)].run = "Stopped"
                                      /\ ~motor[Target(c)].stopRequested
                                      /\ Target(c) \in Motors
  BY <1>1, <1>2 DEF Inv, Powered, Written, Typed, ClientsTyped, At
<1>4. ASSUME UNCHANGED <<motor, client, asked>> PROVE Carried'
  BY <1>2, <1>4 DEF Carried, MovesOn, Written, At, Target
<1>5. ASSUME NEW luck, check_motors(luck) PROVE Carried'
  <2>1. UNCHANGED client
        /\ \A m \in Motors :
             /\ motor'[m] = motor[m] \/ motor'[m] = Ticked(motor[m], luck[m])
             /\ motor[m].run = "Stopped" /\ ~motor[m].stopRequested => motor'[m] = motor[m]
             /\ motor'[m].run # "Stopped" => asked'[m] = asked[m]
    BY <1>5 DEF check_motors, AskedUntilStop, Active, movement_state
  <2>2. ASSUME NEW m \in Motors PROVE MovesOn(m)'
    <3> SUFFICES ASSUME motor'[m].run # "Stopped", motor'[m] # motor[m]
                 PROVE  MovesOn(m)'
      BY <1>2, <2>1 DEF MovesOn
    <3>1. motor[m] \in MotorRecord /\ motor'[m] = Ticked(motor[m], luck[m])
      BY <1>1, <2>1
    <3>2. motor[m].run # "Stopped"
      BY <3>1, TickedRun
    <3> QED BY <1>2, <2>1, <3>1, <3>2, TickedMovesOn DEF MovesOn
  <2>3. \A c \in Clients : Written(c)'
    BY <1>2, <1>3, <2>1 DEF Written, At, Target
  <2> QED BY <2>2, <2>3 DEF Carried
<1>6. ASSUME NEW c \in Clients, Call(c) PROVE Carried'
  <2>1. UNCHANGED <<motor, asked>>
        /\ \A d \in Clients : client'[d] = client[d] \/ ~Before(d)'
    BY <1>1, <1>6, CallFrame
  <2> QED BY <1>2, <2>1 DEF Carried, MovesOn, Written, At, Target
<1>7. ASSUME NEW c \in Clients, CallStep(c) PROVE Carried'
  <2>0. PICK t \in Motors : t = Target(c)
    BY <1>1, <1>7, StepFrame
  <2>1. \A d \in Clients \ {c} : Written(d)'
    <3> SUFFICES ASSUME NEW d \in Clients \ {c} PROVE Written(d)'
      OBVIOUS
    <3>1. client'[d] = client[d]
      BY <1>1, <1>7, StepFrame
    <3>2. Before(d) => motor'[Target(d)] = motor[Target(d)]
      BY <1>7, HeldMotor
    <3> QED BY <1>2, <3>1, <3>2 DEF Written, At, Target
  <2>2. \A m \in Motors : m # t => motor'[m] = motor[m]
    BY <1>1, <1>7, <2>0, StepFrame
  <2>3. ASSUME asked' = asked, ~Before(c)', MovesOn(t)' PROVE Carried'
    BY <1>2, <2>1, <2>2, <2>3 DEF Carried, MovesOn, Written, At
  <2>4. CASE SetupAccepted(c)
    <3>1. UNCHANGED <<motor, asked>>
          /\ \/ ~Before(c)'
             \/ /\ ~motor[t].stopRequested
                /\ client'[c].step = "enable" /\ client'[c].motor = t
      BY <1>1, <2>0, <2>4, ClientMoves DEF SetupAccepted, Active, movement_state, Target
    <3> QED BY <1>2, <2>1, <3>1 DEF Carried, MovesOn, Written, At, Target
  <2>5. CASE SetupEnables(c)
    <3>1. /\ asked' = asked /\ Before(c)
          /\ client'[c].step = "wait" /\ client'[c].motor = t
      BY <1>1, <2>0, <2>5, ClientMoves DEF SetupEnables, At, Target
    <3>2. motor'[t].run = motor[t].run /\ motor'[t].stopRequested = motor[t].stopRequested
      BY <1>1, <2>0, <2>5 DEF SetupEnables, Prepared, MotorRecord
    <3> QED BY <1>2, <1>3, <2>0, <2>1, <2>2, <3>1, <3>2 DEF Carried, MovesOn, Written, At, Target
  <2>6. CASE SetupFails(c)
    <3>1. asked' = asked /\ Before(c) /\ ~Before(c)'
      BY <1>1, <2>6, ClientMoves DEF SetupFails, At
    <3>2. motor'[t].run = motor[t].run
      BY <1>1, <2>0, <2>6 DEF SetupFails, Prepared, MotorRecord
    <3> QED BY <1>3, <2>0, <2>3, <3>1, <3>2 DEF MovesOn
  <2>7. CASE SetupWrites(c)
    <3>1. /\ asked' = asked /\ Before(c) /\ client'[c].step = "go"
          /\ client'[c].motor = t /\ client'[c].request = client[c].request
      BY <1>1, <2>0, <2>7, ClientMoves DEF SetupWrites, At, Target
    <3>2. /\ motor'[t].run = motor[t].run /\ motor'[t].stopRequested = motor[t].stopRequested
          /\ motor'[t].movement = client[c].request /\ motor'[t].sent = 0
      BY <1>1, <2>0, <2>7 DEF SetupWrites, MotorRecord
    <3> QED BY <1>2, <1>3, <2>0, <2>1, <2>2, <3>1, <3>2 DEF Carried, MovesOn, Written, At, Target
  <2>8. CASE SetupGoes(c)
    <3>1. At(c, "go") /\ client'[c].step = "unlock"
      BY <1>1, <2>8, ClientMoves DEF SetupGoes
    <3>2. motor'[t].movement = motor[t].movement /\ motor'[t].sent = motor[t].sent
      BY <1>1, <2>0, <2>8 DEF SetupGoes, MotorRecord
    <3>3. motor[t].movement = client[c].request /\ motor[t].sent = 0
      BY <1>2, <2>0, <3>1 DEF Written
    <3>4. asked' = [asked EXCEPT ![t] = client[c].request] /\ DOMAIN asked = Motors
      BY <1>1, <2>0, <2>8 DEF SetupGoes, Inv, Typed, RestTyped
    <3>5. client[c].request.pulses \in Nat
      BY <1>1, MotorAssumption, AtRestTyped DEF Typed, ClientsTyped, ClientRecord
    <3>6. MovesOn(t)'
      BY <3>2, <3>3, <3>4, <3>5 DEF MovesOn
    <3> QED BY <1>2, <2>1, <2>2, <3>1, <3>4, <3>6 DEF Carried, MovesOn, Written, At
  <2>9. CASE StopMarks(c) \/ StopSlows(c)
    <3>1. asked' = asked /\ ~Before(c)'
      BY <1>1, <2>9, ClientMoves DEF StopMarks, StopSlows, GotoOrReturn
    <3>2. \/ motor' = motor
          \/ /\ motor[t].run # "Stopped" /\ motor'[t].movement = motor[t].movement
             /\ motor'[t].sent = motor[t].sent
      BY <1>1, <2>0, <2>9 DEF StopMarks, StopSlows, MotorRecord
    <3> QED BY <1>2, <2>3, <3>1, <3>2 DEF MovesOn
  <2>10. CASE StopResets(c)
    <3>1. ~Before(c)' /\ \A m \in Motors : motor'[m].run # "Stopped" => asked'[m] = asked[m]
      BY <1>1, <2>10, ClientMoves DEF StopResets, AskedUntilStop
    <3>2. motor'[t].run = "Stopped"
      BY <1>1, <2>0, <2>10 DEF StopResets, MotorRecord
    <3> QED BY <1>2, <2>1, <2>2, <3>1, <3>2 DEF Carried, MovesOn, Written, At
  <2>11. CASE StopClears(c)
    <3>1. asked' = asked /\ ~Before(c)'
      BY <1>1, <2>11, ClientMoves DEF StopClears
    <3>2. motor[t].run = "Stopped"
      BY <2>0, <2>11 DEF StopClears
    <3>3. motor'[t].run = motor[t].run
      BY <1>1, <2>0, <2>11 DEF StopClears, AtRest
    <3> QED BY <2>3, <3>1, <3>2, <3>3 DEF MovesOn
  <2>12. CASE \/ SetupUnlocks(c) \/ SetupStartsTimer(c) \/ StopLoads(c) \/ StopScans(c)
              \/ StopExchanges(c) \/ StopStopsTimer(c)
    <3>1. UNCHANGED <<motor, asked>>
      BY <2>12 DEF SetupUnlocks, SetupStartsTimer, StopLoads, StopScans, StopExchanges,
         StopStopsTimer
    <3>2. client[c] \in ClientRecord /\ client \in [Clients -> ClientRecord]
      BY <1>1 DEF Typed, ClientsTyped
    <3>3. ~Before(c)'
      BY <1>1, <2>12, <3>2, ClientMoves DEF SetupUnlocks, SetupStartsTimer, StopLoads,
         StopScans, StopExchanges, StopStopsTimer, GotoOrReturn, ClientRecord
    <3> QED BY <1>2, <2>3, <3>1, <3>3 DEF MovesOn
  <2> QED
    BY <1>7, <2>4, <2>5, <2>6, <2>7, <2>8, <2>9, <2>10, <2>11, <2>12 DEF CallStep
<1> QED BY <1>4, <1>5, <1>6, <1>7 DEF Next, WorkStep, WorkStarts, WorkCleansUp,
   WorkCallsBack, vars

-----------------------------------------------------------------------------
(* Theorems.                                                                 *)

\* Every variable of the motors keeps its type under any calls, ticks and
\* cleanups: _acceleration_counter never leaves the lookup table.
THEOREM TypesHold == FairSpec => []TypeOK
<1>1. Typed => TypeOK
  BY DEF Typed, RestTyped, TypeOK, MotorRecord
<1> QED BY <1>1, TypedInit, TypedNext, PTL DEF FairSpec

LEMMA InvHolds == FairSpec => []Inv
<1>1. Init => Inv
  BY TypedInit, PowerInit DEF Inv
<1>2. Inv /\ [Next]_vars => Inv'
  BY TypedNext, LockedNext, PoweredNext DEF Inv
<1> QED BY <1>1, <1>2, PTL DEF FairSpec

\* Between calls, and unless a stop raced, the timer ticks while a motor is
\* active: a setup that finds the timer started can rely on it, whoever stops
\* the other motors meanwhile.
THEOREM ActiveMotorsTick == FairSpec => []ActiveIsTicked
<1>1. Init => Ticking
  BY DEF Init, Ticking, Active, movement_state, AtRest
<1>2. Typed /\ Ticking => ActiveIsTicked
  BY DEF Ticking, ActiveIsTicked, At
<1>3. Typed /\ Ticking /\ [Next]_vars => Typed' /\ Ticking'
  BY TypedNext, TickingNext
<1> QED BY <1>1, <1>2, <1>3, TypedInit, PTL DEF FairSpec

\* Unless a stop raced, a motor that moves carries out the movement asked last
\* and stops at its pulses, however setups, ticks and cleanups interleave.
THEOREM AskedMovesAreMade == FairSpec => []MovesAsAsked
<1>1. Init => Carried
  BY DEF Init, Carried, MovesOn, Written, AtRest, InNoCall, At
<1>2. Carried => MovesAsAsked
  BY DEF Carried, MovesOn, MovesAsAsked
<1>3. Inv /\ Carried /\ [Next]_vars => Carried'
  BY CarriedNext
<1> QED BY <1>1, <1>2, <1>3, InvHolds, PTL DEF FairSpec

\* A motor at rest whose cleanup has run is not left powered, whatever stops
\* race, unless the Hwa refused its last disable(): no failed setup or cancelled
\* cleanup forgets the output stage.
THEOREM RestingMotorsAreOff == FairSpec => []RestIsUnpowered
<1>1. Init => OffAtRest
  BY DEF Init, OffAtRest
<1>2. Typed /\ OffAtRest => RestIsUnpowered
  BY DEF OffAtRest, RestIsUnpowered, Quiet, At
<1>3. Typed /\ OffAtRest /\ [Next]_vars => Typed' /\ OffAtRest'
  BY TypedNext, OffAtRestNext
<1> QED BY <1>1, <1>2, <1>3, TypedInit, PTL DEF FairSpec

\* Unless a stop raced, the interrupt sends no step pulse to an output stage
\* that a failed setup or the cleanup work item has switched off.
THEOREM PulsesArePowered == FairSpec => PulsesNeedPower
<1>1. Inv /\ Inv' /\ [Next]_vars => PulseHasPower
  <2> SUFFICES ASSUME Inv, [Next]_vars, ~raced',
                      NEW m \in Motors, motor'[m].sent > motor[m].sent
               PROVE  m \in enabled
    BY DEF PulseHasPower
  <2>1. motor \in [Motors -> MotorRecord] /\ motor'[m].sent # motor[m].sent
        /\ motor[m].sent \in Nat
    BY MotorAssumption DEF Inv, Typed, MotorRecord
  <2>2. ASSUME NEW c \in Clients, CallStep(c) PROVE FALSE
    <3> DEFINE t == Target(c)
    <3>1. \/ \E d : motor' = [motor EXCEPT ![t] = [motor[t] EXCEPT !.decel = d]]
          \/ motor' = [motor EXCEPT ![t] = [motor[t] EXCEPT
                          !.movement = client[c].request, !.acc = 0, !.sent = 0]]
          \/ motor' = [motor EXCEPT ![t] = [motor[t] EXCEPT !.stopRequested = FALSE,
                                                           !.run = "Accelerating"]]
          \/ motor' = [motor EXCEPT ![t] = [motor[t] EXCEPT !.stopRequested = TRUE]]
          \/ \E run : motor' = [motor EXCEPT ![t] = [motor[t] EXCEPT !.run = run]]
          \/ motor' = [motor EXCEPT ![t] = [AtRest EXCEPT !.run = motor[t].run]]
          \/ motor' = motor
      BY <2>2 DEF CallStep, SetupAccepted, SetupEnables, SetupFails, SetupWrites,
         SetupGoes, SetupUnlocks, SetupStartsTimer, StopMarks, StopLoads, StopSlows,
         StopResets, StopClears, StopScans, StopExchanges, StopStopsTimer, Prepared
    <3>2. CASE m # t
      BY <2>1, <3>1, <3>2
    <3>3. CASE m = t
      <4>1. motor[m] \in MotorRecord
        BY <2>1
      <4>2. ASSUME NEW r, motor' = [motor EXCEPT ![t] = r]  PROVE  motor'[m] = r
        BY <2>1, <3>3, <4>2
      <4>3. \A d, run :
              /\ [motor[t] EXCEPT !.decel = d].sent = motor[t].sent
              /\ [motor[t] EXCEPT !.movement = client[c].request, !.acc = 0, !.sent = 0].sent = 0
              /\ [motor[t] EXCEPT !.stopRequested = FALSE, !.run = "Accelerating"].sent
                   = motor[t].sent
              /\ [motor[t] EXCEPT !.stopRequested = TRUE].sent = motor[t].sent
              /\ [motor[t] EXCEPT !.run = run].sent = motor[t].sent
              /\ [AtRest EXCEPT !.run = motor[t].run].sent = 0
        BY <3>3, <4>1 DEF MotorRecord, AtRest
      <4>4. \/ motor' = motor
            \/ \E r : motor' = [motor EXCEPT ![t] = r] /\ r.sent \in {0, motor[t].sent}
        <5> HIDE DEF t
        <5> QED BY <3>1, <4>3
      <4>5. motor'[m].sent \in {0, motor[m].sent}
        BY <3>3, <4>2, <4>4
      <4> QED BY <2>1, <4>5
    <3> QED BY <3>2, <3>3
  <2>3. PICK luck : check_motors(luck)
    BY <2>1, <2>2 DEF Next, WorkStep, WorkStarts, WorkCleansUp, WorkCallsBack, Call,
       register_stop_callback, setup_movement, stop_movement, vars
  <2>4. motor[m].run # "Stopped"
    BY <2>1, <2>3, TickedRun DEF check_motors
  <2> QED BY <2>4, RacedStays DEF Inv, Powered
<1> QED BY <1>1, InvHolds, PTL DEF FairSpec, PulsesNeedPower
=============================================================================
