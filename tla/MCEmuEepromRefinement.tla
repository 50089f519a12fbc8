------------------------ MODULE MCEmuEepromRefinement ------------------------
(***************************************************************************)
(* Instances of EmuEepromRefinement for TLC.                               *)
(***************************************************************************)
EXTENDS EmuEepromRefinement, MCEmuEeprom
=============================================================================
