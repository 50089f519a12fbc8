--------------------------- MODULE MCMotorControl ---------------------------
(***************************************************************************)
(* Instances of MotorControl for TLC.                                      *)
(***************************************************************************)
EXTENDS MotorControl

\* An endless movement, and one with pulses to count and a time limit.
SmallMovements ==
  {[pulses |-> 0, timed |-> FALSE], [pulses |-> 3, timed |-> TRUE]}
=============================================================================
