----------------------------- MODULE MCSignaling -----------------------------
(***************************************************************************)
(* Signaling for TLC: the .cfg files name the threads and give the bounds. *)
(* Clients are not declared symmetric, since liveness is checked.          *)
(***************************************************************************)
EXTENDS SignalingProperties
=============================================================================
