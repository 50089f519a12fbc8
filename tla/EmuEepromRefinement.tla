------------------------- MODULE EmuEepromRefinement -------------------------
(***************************************************************************)
(* EmuEeprom implements EepromStore.  The variable view only records the   *)
(* value of the refinement mapping, which is a function of the other       *)
(* variables, so that TLC computes it once per state.                      *)
(***************************************************************************)
EXTENDS EmuEepromProperties

VARIABLE view


InCall(c) == pc # "idle" /\ op = c

AbstractMode ==
  CASE pc = "off" \/ InCall("init") -> "off"
    [] pc # "off" /\ InCall("format") -> IF flag THEN "wiping_all" ELSE "wiping"
    [] pc # "off" /\ InCall("restore_from_factory") -> "restoring"
    [] OTHER -> "serving"

\* The newest value of each address in the staged block; what is staged while a
\* transfer copies is already durable in the old page.
StagedValues ==
  [a \in Addresses |->
     LET hits == {i \in Slots : block.data[i].address = a}
     IN IF ~block.dirty \/ pc = "xfer_copy" \/ hits = {}
        THEN ERASED ELSE block.data[Greatest(hits)].value]

\* What is durable once the running step sequence is not cut: the new page in
\* the swap window, nothing while restore_from_factory() copies.
Durable ==
  CASE pc \in SwapWindow -> Contents(flash[Other(oldPage)])
    [] pc = "restore_copy" -> ErasedCache
    [] OTHER -> Recovered

View ==
  [mode     |-> AbstractMode,
   visible  |-> IF AbstractMode = "off" THEN ErasedCache ELSE cache,
   buffered |-> StagedValues,
   durable  |-> Durable,
   factory  |-> IF pc # "store_copy" /\ StatusOf(flash["Factory"]) = "Valid"
                THEN Contents(flash["Factory"]) ELSE [a \in {} |-> ERASED]]

Store == INSTANCE EepromStore WITH
  Unset    <- ERASED,
  mode     <- view.mode,
  visible  <- view.visible,
  buffered <- view.buffered,
  durable  <- view.durable,
  factory  <- view.factory

\* Where a power loss is not survived: in the swap window values are lost (the run
\* eeprom_swap), in the others a snapshot is cut short (README.md).
Exposed ==
  \/ pc \in SwapWindow
  \/ pc \in {"store_copy", "restore_copy"} /\ cursor > 0

\* A snapshot of a full page leaves restore_from_factory() no room for page 1's
\* Valid record: callers do not restore one.
RestoresFullPage ==
  op' = "restore_from_factory" /\ FirstFree(flash["Factory"]) = PageSize

ProtectedNext ==
  \/ CallStep /\ ~RestoresFullPage
  \/ Step
  \/ ~Exposed /\ PowerLoss

\* The device whose power holds through the exposed steps.
ProtectedSpec ==
  Init /\ view = View /\ [][ProtectedNext /\ view' = View']_<<vars, view>>

\* Calls and repairs run to their end once started; callers and power are free.
FairProtectedSpec == ProtectedSpec /\ WF_<<vars, view>>(Step /\ view' = View')

\* Every behaviour of the protected device is one of the store: a power loss at
\* any other step loses nothing durable, a transfer or an interrupted one
\* resumed by init() changes nothing that callers see, and a format, a snapshot
\* or a restore is all or nothing for its caller.
ImplementsStore == Store!StoreSpec


=============================================================================
