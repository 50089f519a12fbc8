---------------------------- MODULE MotorControl ----------------------------
(***************************************************************************)
(* Motor control (module/src/utils/motor_control).                         *)
(*                                                                         *)
(* Three kinds of actors share the motors: client threads that call        *)
(* setup_movement() and stop_movement(), the timer interrupt that runs     *)
(* check_motors(), and the work queue thread that cleans up after a        *)
(* movement.  setup_movement() and the cleanup hold the motor's            *)
(* _movement_lock; stop_movement() and the interrupt hold nothing.  The    *)
(* interrupt is one step: threads do not run meanwhile (one core).  A      *)
(* client's step is a run of accesses between which nothing else matters.  *)
(*                                                                         *)
(* Time is abstract: at a tick a moving motor's interval has passed or     *)
(* not, and its maximum run time has been reached or not.                  *)
(***************************************************************************)
EXTENDS Integers, FiniteSets

CONSTANTS
  Motors,         \* _motors
  Clients,        \* threads that call MotorControl
  MAX_ACC_STEPS,  \* entries of _accel_lookup_table: 128
  Movements,      \* what clients ask for: pulses (0: endless), with a time limit
  SentBound,      \* _movement_pulses_sent is counted up to here
  Nobody          \* no thread, no motor

ASSUME MotorAssumption ==
  /\ MAX_ACC_STEPS \in Nat \ {0} /\ SentBound \in Nat
  /\ Movements \subseteq [pulses : 0 .. SentBound, timed : BOOLEAN]
  /\ Nobody \notin Motors \cup Clients

VARIABLES
  motor,         \* the run state of each Motor
  enabled,       \* its output stage: Hwa::enable() and disable()
  stuck,         \* history: motors whose last disable() failed, not enabled since
  callback,      \* the motors that have a _stop_cb
  lock,          \* _movement_lock: who holds it
  pending,       \* motors whose _kwork_reset_movement is queued
  worker,        \* the motor whose work item the work queue thread runs
  workStep,      \* where that handler is: "none", "start" or "callback"
  timerStarted,  \* _timer_started
  timerRunning,  \* _timer
  client,        \* where each client is in its call, and the call's locals
  asked,         \* history: the movement accepted for each motor that moves
  raced          \* history: a stop_movement() acted on a check no longer true

hardware == <<enabled, stuck, timerRunning>>
work == <<pending, worker, workStep>>
vars == <<motor, hardware, callback, lock, work, timerStarted, client, asked, raced>>

RunStates == {"Stopped", "Accelerating", "Running", "Decelerating"}
NoMovement == [pulses |-> 0, timed |-> FALSE]

\* What reset_movement() leaves.
AtRest == [run |-> "Stopped", acc |-> 0, sent |-> 0, movement |-> NoMovement,
           stopRequested |-> FALSE, decel |-> 0]

movement_state(m) ==
  IF motor[m].stopRequested THEN "Stopping"
  ELSE IF motor[m].run # "Stopped" THEN "Moving" ELSE "Stopped"

Active(m) == movement_state(m) # "Stopped"

-----------------------------------------------------------------------------
(* The timer interrupt.                                                      *)

\* Mutant: the acceleration goes one step past the end of the table.
Advanced_PastTable(mo) ==
  IF mo.run = "Accelerating"
  THEN [mo EXCEPT !.acc = mo.acc + 1,
                  !.run = IF mo.acc + 1 > MAX_ACC_STEPS THEN "Running" ELSE mo.run]
  ELSE mo

\* The run state calculate_next_pulse() goes on to.
Advanced(mo) ==
  CASE mo.run = "Accelerating" ->
         IF mo.acc + 1 >= MAX_ACC_STEPS
         THEN [mo EXCEPT !.acc = MAX_ACC_STEPS - 1, !.run = "Running"]
         ELSE [mo EXCEPT !.acc = mo.acc + 1]
    [] mo.run = "Running" /\ mo.movement.pulses > 0 /\ mo.sent >= mo.decel ->
         [mo EXCEPT !.run = "Decelerating"]
    [] mo.run = "Decelerating" ->
         [mo EXCEPT !.acc = mo.acc - 1,
                    !.run = IF mo.acc - 1 > 0 THEN "Decelerating" ELSE "Stopped"]
    [] OTHER -> mo

\* Mutant: one pulse more than asked for.
Over_LatePulse(mo, expired) ==
  \/ mo.run = "Stopped"
  \/ expired /\ mo.movement.timed
  \/ mo.movement.pulses > 0 /\ mo.sent > mo.movement.pulses

\* The movement is over: stopped, out of time or out of pulses.
Over(mo, expired) ==
  \/ mo.run = "Stopped"
  \/ expired /\ mo.movement.timed
  \/ mo.movement.pulses > 0 /\ mo.sent >= mo.movement.pulses

\* What a tick finds: the interval has not passed, it has and the pulse is
\* sent, the maximum run time is reached as well, or the Hwa fails.
Luck == {"early", "due", "expired", "fails"}

\* calculate_and_send_next_pulse().
Ticked(mo, luck) ==
  LET next == Advanced(mo)
  IN IF luck = "early" THEN mo
     ELSE IF Over(next, luck = "expired") \/ luck = "fails" THEN AtRest
     ELSE [next EXCEPT !.sent = IF next.sent < SentBound THEN next.sent + 1 ELSE @]

\* What is asked of a motor, until it stops.
AskedUntilStop == asked' = [m \in Motors |->
                             IF motor'[m].run = "Stopped" THEN NoMovement ELSE asked[m]]

\* Mutant: the timer is stopped, but still taken for started.
check_motors_KeepsFlag(luck) ==
  /\ timerRunning
  /\ motor' = [m \in Motors |->
                 IF Active(m) THEN Ticked(motor[m], luck[m]) ELSE motor[m]]
  /\ pending' = pending \cup {m \in Motors : Active(m) /\ motor'[m] = AtRest}
  /\ timerRunning' = \E m \in Motors : Active(m)'
  /\ AskedUntilStop
  /\ UNCHANGED <<timerStarted, enabled, stuck, callback, lock, worker, workStep,
                 client, raced>>

\* check_motors(): every active motor, then the timer when none is left.
check_motors(luck) ==
  /\ timerRunning
  /\ motor' = [m \in Motors |->
                 IF Active(m) THEN Ticked(motor[m], luck[m]) ELSE motor[m]]
  /\ pending' = pending \cup {m \in Motors : Active(m) /\ motor'[m] = AtRest}
  /\ IF timerStarted /\ \A m \in Motors : ~Active(m)'
     THEN timerStarted' = FALSE /\ timerRunning' = FALSE
     ELSE UNCHANGED <<timerStarted, timerRunning>>
  /\ AskedUntilStop
  /\ UNCHANGED <<enabled, stuck, callback, lock, worker, workStep, client, raced>>

-----------------------------------------------------------------------------
(* The work queue thread: one queue for all motors.                          *)

WorkStarts(m) ==
  /\ worker = Nobody /\ m \in pending
  /\ worker' = m /\ workStep' = "start" /\ pending' = pending \ {m}
  /\ UNCHANGED <<motor, hardware, callback, lock, timerStarted, client, asked,
                 raced>>

\* Hwa::disable(): a failure leaves the output stage as it is.
Disables(m) ==
  \/ enabled' = enabled \ {m} /\ stuck' = stuck \ {m}
  \/ UNCHANGED enabled /\ stuck' = stuck \cup ({m} \cap enabled)

\* Mutant: the handler does not take the lock.
WorkCleansUp_NoLock ==
  /\ workStep = "start"
  /\ IF motor[worker].run = "Stopped" THEN Disables(worker) ELSE UNCHANGED <<enabled, stuck>>
  /\ workStep' = "none" /\ worker' = Nobody
  /\ UNCHANGED <<motor, timerRunning, callback, lock, pending, timerStarted,
                 client, asked, raced>>

\* Under the lock: switch the output stage off unless a movement has begun.
\* Nobody looks at whether that has worked.
WorkCleansUp ==
  /\ workStep = "start" /\ lock[worker] = Nobody
  /\ IF motor[worker].run = "Stopped" THEN Disables(worker) ELSE UNCHANGED <<enabled, stuck>>
  /\ IF motor[worker].run = "Stopped" /\ worker \in callback
     THEN workStep' = "callback" /\ UNCHANGED worker
     ELSE workStep' = "none" /\ worker' = Nobody
  /\ UNCHANGED <<motor, timerRunning, callback, lock, pending, timerStarted,
                 client, asked, raced>>

\* The stop callback runs without the lock and returns.
WorkCallsBack ==
  /\ workStep = "callback"
  /\ workStep' = "none" /\ worker' = Nobody
  /\ UNCHANGED <<motor, hardware, callback, lock, pending, timerStarted, client,
                 asked, raced>>

-----------------------------------------------------------------------------
(* Client threads.                                                           *)

\* The step of the call, its motor, the movement it asks for, and the run
\* state a stop_movement() has loaded.
InNoCall == [step |-> "idle", motor |-> Nobody, request |-> NoMovement,
             seen |-> "Stopped"]

At(c, step) == client[c].step = step
Target(c) == client[c].motor
Begin(c, step, m, info) ==
  /\ At(c, "idle")
  /\ client' = [client EXCEPT ![c] = [InNoCall EXCEPT !.step = step, !.motor = m,
                                                     !.request = info]]
Goto(c, step) == client' = [client EXCEPT ![c].step = step]
Return(c) == client' = [client EXCEPT ![c] = InNoCall]
GotoOrReturn(c, on, step) == IF on THEN Goto(c, step) ELSE Return(c)

register_stop_callback(c, m) ==
  /\ At(c, "idle") /\ lock[m] = Nobody
  /\ callback' = IF Active(m) THEN callback ELSE callback \cup {m}
  /\ UNCHANGED <<motor, hardware, lock, work, timerStarted, client, asked, raced>>

\* setup_movement() ---------------------------------------------------------

setup_movement(c, m, info) ==
  /\ Begin(c, "setup", m, info)
  /\ UNCHANGED <<motor, hardware, callback, lock, work, timerStarted, asked, raced>>

\* The lock, the state, the init callback and the speed: all before any write.
SetupAccepted(c) ==
  /\ At(c, "setup") /\ lock[Target(c)] = Nobody
  /\ \/ /\ ~Active(Target(c))
        /\ lock' = [lock EXCEPT ![Target(c)] = c] /\ Goto(c, "enable")
     \/ Return(c) /\ UNCHANGED lock
  /\ UNCHANGED <<motor, hardware, callback, work, timerStarted, asked, raced>>

\* Half of the pulses, rounded up, come before the deceleration.
Prepared(m, info) ==
  [motor EXCEPT ![m].decel = info.pulses - info.pulses \div 2]

\* enable(), then _kwork_reset_movement.cancel(): it dequeues the handler and
\* has to wait for one that runs.
SetupEnables(c) ==
  LET m == Target(c)
  IN /\ At(c, "enable")
     /\ motor' = Prepared(m, client[c].request)
     /\ enabled' = enabled \cup {m} /\ stuck' = stuck \ {m}
     /\ pending' = pending \ {m}
     /\ Goto(c, "wait")
     /\ UNCHANGED <<timerRunning, callback, lock, worker, workStep, timerStarted,
                    asked, raced>>

\* What a setup that fails does to the output stage: nothing, on and off again,
\* or on for good.
SetupPowers(m) ==
  \/ UNCHANGED <<enabled, stuck>>
  \/ enabled' = enabled \ {m} /\ stuck' = stuck \ {m}
  \/ enabled' = enabled \cup {m} /\ stuck' = stuck \cup {m}

\* Mutant: the output stage stays on when the direction cannot be set.
SetupFails_NoDisable(c) ==
  LET m == Target(c)
  IN /\ At(c, "enable")
     /\ motor' = Prepared(m, client[c].request)
     /\ \/ UNCHANGED <<enabled, stuck>>
        \/ enabled' = enabled \cup {m} /\ stuck' = stuck \ {m}
     /\ lock' = [lock EXCEPT ![m] = Nobody]
     /\ Return(c)
     /\ UNCHANGED <<timerRunning, callback, work, timerStarted, asked, raced>>

\* Mutant: the lock is kept by the call that fails.
SetupFails_KeepsLock(c) ==
  LET m == Target(c)
  IN /\ At(c, "enable")
     /\ motor' = Prepared(m, client[c].request)
     /\ SetupPowers(m)
     /\ Return(c)
     /\ UNCHANGED <<timerRunning, callback, lock, work, timerStarted, asked, raced>>

\* enable() fails, or the direction cannot be set and disable() follows, which
\* may fail as well.
SetupFails(c) ==
  LET m == Target(c)
  IN /\ At(c, "enable")
     /\ motor' = Prepared(m, client[c].request)
     /\ SetupPowers(m)
     /\ lock' = [lock EXCEPT ![m] = Nobody]
     /\ Return(c)
     /\ UNCHANGED <<timerRunning, callback, work, timerStarted, asked, raced>>

SetupWrites(c) ==
  LET m == Target(c)
  IN /\ At(c, "wait") /\ worker # m
     /\ motor' = [motor EXCEPT ![m].movement = client[c].request, ![m].acc = 0, ![m].sent = 0]
     /\ Goto(c, "go")
     /\ UNCHANGED <<hardware, callback, lock, work, timerStarted, asked, raced>>

SetupGoes(c) ==
  LET m == Target(c)
  IN /\ At(c, "go")
     /\ motor' = [motor EXCEPT ![m].stopRequested = FALSE, ![m].run = "Accelerating"]
     /\ asked' = [asked EXCEPT ![m] = client[c].request]
     /\ Goto(c, "unlock")
     /\ UNCHANGED <<hardware, callback, lock, work, timerStarted, raced>>

\* _timer_started.exchange(true): the first one starts the timer.
SetupUnlocks(c) ==
  /\ At(c, "unlock")
  /\ lock' = [lock EXCEPT ![Target(c)] = Nobody]
  /\ timerStarted' = TRUE
  /\ GotoOrReturn(c, ~timerStarted, "startTimer")
  /\ UNCHANGED <<motor, hardware, callback, work, asked, raced>>

SetupStartsTimer(c) ==
  /\ At(c, "startTimer")
  /\ timerRunning' = TRUE
  /\ Return(c)
  /\ UNCHANGED <<motor, enabled, stuck, callback, lock, work, timerStarted, asked, raced>>

\* stop_movement() ----------------------------------------------------------

\* Refused unless the motor moves; then nothing keeps it moving.
stop_movement(c, m, force) ==
  /\ movement_state(m) = "Moving"
  /\ Begin(c, IF force THEN "reset" ELSE "mark", m, NoMovement)
  /\ UNCHANGED <<motor, hardware, callback, lock, work, timerStarted, asked, raced>>

\* _stop_requested, or false when another stop has set it.
StopMarks(c) ==
  LET m == Target(c)
  IN /\ At(c, "mark")
     /\ motor' = [motor EXCEPT ![m].stopRequested = TRUE]
     /\ raced' = (raced \/ motor[m].run = "Stopped" \/ lock[m] # Nobody)
     /\ GotoOrReturn(c, ~motor[m].stopRequested, "load")
     /\ UNCHANGED <<hardware, callback, lock, work, timerStarted, asked>>

StopLoads(c) ==
  /\ At(c, "load")
  /\ client' = [client EXCEPT ![c].step = "slow", ![c].seen = motor[Target(c)].run]
  /\ UNCHANGED <<motor, hardware, callback, lock, work, timerStarted, asked, raced>>

\* Mutant: the deceleration is requested but never begun.
StopSlows_NoSwitch(c) ==
  /\ At(c, "slow")
  /\ Goto(c, "scan")
  /\ UNCHANGED <<motor, hardware, callback, lock, work, timerStarted, asked, raced>>

StopSlows(c) ==
  LET m == Target(c)
  IN /\ At(c, "slow")
     /\ IF client[c].seen \in {"Accelerating", "Running"}
        THEN /\ motor' = [motor EXCEPT ![m].run = "Decelerating"]
             /\ raced' = (raced \/ motor[m].run \notin {"Accelerating", "Running"}
                                \/ lock[m] # Nobody)
        ELSE UNCHANGED <<motor, raced>>
     /\ Goto(c, "scan")
     /\ UNCHANGED <<hardware, callback, lock, work, timerStarted, asked>>

\* reset_movement(): the run state first, then the rest and the work item.
StopResets(c) ==
  LET m == Target(c)
  IN /\ At(c, "reset")
     /\ motor' = [motor EXCEPT ![m].run = "Stopped"]
     /\ raced' = (raced \/ motor[m].run = "Stopped" \/ lock[m] # Nobody)
     /\ Goto(c, "clear") /\ AskedUntilStop
     /\ UNCHANGED <<hardware, callback, lock, work, timerStarted>>

StopClears(c) ==
  LET m == Target(c)
  IN /\ At(c, "clear")
     /\ motor' = [motor EXCEPT ![m] = [AtRest EXCEPT !.run = motor[m].run]]
     /\ pending' = pending \cup {m}
     /\ raced' = (raced \/ motor[m].run # "Stopped" \/ lock[m] # Nobody)
     /\ Goto(c, "scan")
     /\ UNCHANGED <<hardware, callback, lock, worker, workStep, timerStarted,
                    asked>>

StopScans(c) ==
  /\ At(c, "scan")
  /\ GotoOrReturn(c, \A m \in Motors : ~Active(m), "exchange")
  /\ UNCHANGED <<motor, hardware, callback, lock, work, timerStarted, asked, raced>>

\* _timer_started.exchange(false), then _timer.stop().
StopExchanges(c) ==
  /\ At(c, "exchange")
  /\ timerStarted' = FALSE
  /\ raced' = (raced \/ \E m \in Motors : Active(m))
  /\ GotoOrReturn(c, timerStarted, "stopTimer")
  /\ UNCHANGED <<motor, hardware, callback, lock, work, asked>>

StopStopsTimer(c) ==
  /\ At(c, "stopTimer")
  /\ timerRunning' = FALSE
  /\ raced' = (raced \/ timerStarted)
  /\ Return(c)
  /\ UNCHANGED <<motor, enabled, stuck, callback, lock, work, timerStarted, asked>>

-----------------------------------------------------------------------------
Init ==
  /\ motor = [m \in Motors |-> AtRest]
  /\ enabled = {} /\ stuck = {} /\ callback = {} /\ lock = [m \in Motors |-> Nobody]
  /\ pending = {} /\ worker = Nobody /\ workStep = "none"
  /\ timerStarted = FALSE /\ timerRunning = FALSE
  /\ client = [c \in Clients |-> InNoCall]
  /\ asked = [m \in Motors |-> NoMovement] /\ raced = FALSE

\* A call that has started goes on.
CallStep(c) ==
  \/ SetupAccepted(c) \/ SetupEnables(c) \/ SetupFails(c)
  \/ SetupWrites(c) \/ SetupGoes(c) \/ SetupUnlocks(c) \/ SetupStartsTimer(c)
  \/ StopMarks(c) \/ StopLoads(c) \/ StopSlows(c) \/ StopResets(c) \/ StopClears(c)
  \/ StopScans(c) \/ StopExchanges(c) \/ StopStopsTimer(c)

Call(c) ==
  \E m \in Motors :
    \/ register_stop_callback(c, m)
    \/ \E info \in Movements : setup_movement(c, m, info)
    \/ \E force \in BOOLEAN : stop_movement(c, m, force)

WorkStep == (\E m \in Motors : WorkStarts(m)) \/ WorkCleansUp \/ WorkCallsBack

Next ==
  \/ \E luck \in [Motors -> Luck] : check_motors(luck)
  \/ WorkStep
  \/ \E c \in Clients : Call(c) \/ CallStep(c)

\* The timer expires, the intervals pass and threads are scheduled.  A mutex goes
\* to the thread that waits for it when it is given back, hence SF for clients.
FairSpec ==
  /\ Init /\ [][Next]_vars
  /\ WF_vars(check_motors([m \in Motors |-> "due"]))
  /\ WF_vars(WorkStep)
  /\ \A c \in Clients : SF_vars(CallStep(c))

-----------------------------------------------------------------------------
(* Properties.                                                               *)

Quiet(m) == /\ lock[m] = Nobody /\ m \notin pending /\ worker # m
            /\ \A c \in Clients : At(c, "idle")

\* Every variable has its type; _acceleration_counter stays in the table.
TypeOK ==
  /\ motor \in [Motors -> [run : RunStates, acc : 0 .. MAX_ACC_STEPS - 1,
                           sent : 0 .. SentBound, decel : 0 .. SentBound,
                           stopRequested : BOOLEAN,
                           movement : Movements \cup {NoMovement}]]
  /\ {enabled, stuck, pending, callback} \subseteq SUBSET Motors
  /\ lock \in [Motors -> Clients \cup {Nobody}]
  /\ worker \in Motors \cup {Nobody}
  /\ (worker = Nobody) = (workStep = "none")

\* Unless a stop raced, no step pulse goes to an output stage that is switched
\* off, however setups that fail, cleanups and movements overlap.
PulseHasPower ==
  ~raced' => \A m \in Motors : motor'[m].sent > motor[m].sent => m \in enabled
PulsesNeedPower == [][PulseHasPower]_vars

\* Between calls, and unless a stop raced, an active motor is ticked: the
\* timer is not stopped under a movement or left out of its start.
ActiveIsTicked ==
  (~raced /\ \A c \in Clients : At(c, "idle"))
    => \A m \in Motors : Active(m) => timerStarted /\ timerRunning

\* Unless a stop raced, a moving motor carries out the movement that was
\* accepted last, and sends no more pulses than it asks for.
MovesAsAsked ==
  ~raced => \A m \in Motors : motor[m].run # "Stopped" =>
              /\ motor[m].movement = asked[m]
              /\ asked[m].pulses > 0 => motor[m].sent <= asked[m].pulses

\* A motor at rest is not left powered, whatever stops raced: its cleanup was
\* neither lost to a setup that failed nor skipped.  The one exception is a
\* disable() that the Hwa refused, which nothing repeats (motor.cpp:43, :193).
RestIsUnpowered ==
  \A m \in Motors : Quiet(m) /\ ~Active(m) => m \notin enabled \/ m \in stuck

\* The handler is blocked on the lock of a setup that waits for the handler.
CancelDeadlock ==
  \E c \in Clients : At(c, "wait") /\ worker = Target(c) /\ workStep = "start"

\* A stop that was requested ends, unless one raced.
StopEnds ==
  \A m \in Motors : movement_state(m) = "Stopping" ~> (~Active(m) \/ raced)

\* Every call returns, except a setup that meets the handler it cancels.
CallsReturn ==
  \A c \in Clients : ~At(c, "idle") ~> (At(c, "idle") \/ CancelDeadlock)
=============================================================================
