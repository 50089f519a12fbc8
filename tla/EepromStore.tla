----------------------------- MODULE EepromStore -----------------------------
(***************************************************************************)
(* What the emulated EEPROM promises, without pages, logs or headers: a    *)
(* table that callers read and write (visible), the part of it accepted    *)
(* but not yet durable because its write block is only staged (buffered),  *)
(* the table that survives a power failure (durable) and the factory       *)
(* table.                                                                  *)
(***************************************************************************)
CONSTANTS Addresses, Values, Unset

VARIABLES
  mode,      \* "serving", "wiping" during format(), "wiping_all" during
             \* format(true), "restoring", or "off"
  visible, buffered, durable, factory

storeVars == <<mode, visible, buffered, durable, factory>>

Table == [Addresses -> Values \cup {Unset}]
Empty == [a \in Addresses |-> Unset]
NoSnapshot == [a \in {} |-> Unset]
Overlay(t, u) == [a \in Addresses |-> IF u[a] = Unset THEN t[a] ELSE u[a]]

StoreInit ==
  /\ mode = "off"
  /\ visible = Empty /\ buffered = Empty
  /\ durable \in Table
  /\ factory \in Table \cup {NoSnapshot}

\* An accepted write is visible at once; it becomes durable with its block.
StoreWrite(a, v) ==
  LET staged == [buffered EXCEPT ![a] = v] IN
  /\ mode = "serving"
  /\ visible' = [visible EXCEPT ![a] = v]
  /\ \/ buffered' = staged /\ UNCHANGED durable
     \/ buffered' = Empty /\ durable' = Overlay(durable, staged)
  /\ UNCHANGED <<mode, factory>>

\* A cache-only write is visible and nothing else.
StoreWriteCached(a, v) ==
  /\ mode = "serving"
  /\ visible' = [visible EXCEPT ![a] = v]
  /\ UNCHANGED <<mode, buffered, durable, factory>>

\* The staged block is written.
Drain ==
  /\ mode \in {"serving", "off"}
  /\ buffered' = Empty
  /\ durable' = Overlay(durable, buffered)
  /\ UNCHANGED <<mode, visible, factory>>

\* A page transfer makes everything visible durable.
Sync ==
  /\ mode = "serving" /\ buffered = Empty
  /\ durable' = visible
  /\ UNCHANGED <<mode, visible, buffered, factory>>

\* Power fails: what is durable stays, whatever was going on.
Cut ==
  /\ mode' = "off" /\ visible' = Empty /\ buffered' = Empty
  /\ UNCHANGED <<durable, factory>>

\* The device comes up and shows exactly what is durable.
Start ==
  /\ mode = "off" /\ mode' = "serving" /\ visible' = durable
  /\ UNCHANGED <<buffered, durable, factory>>

\* format(): everything may go from the moment it is asked for; once it
\* returns nothing is left.  The factory table goes only when asked for.
BeginWipe ==
  /\ mode = "serving" /\ mode' \in {"wiping", "wiping_all"}
  /\ UNCHANGED <<visible, buffered, durable, factory>>
Wipe ==
  /\ mode \in {"wiping", "wiping_all"}
  /\ visible' \in {visible, Empty} /\ durable' \in {durable, Empty}
  /\ buffered' \in {buffered, Empty}
  /\ \/ UNCHANGED factory
     \/ mode = "wiping_all" /\ factory' = NoSnapshot
  /\ UNCHANGED mode
EndWipe ==
  /\ \/ mode = "wiping"
     \/ mode = "wiping_all" /\ factory = NoSnapshot
  /\ mode' = "serving"
  /\ visible' = Empty /\ durable' = Empty /\ buffered' = Empty
  /\ UNCHANGED factory

\* store_to_factory(): the old snapshot goes, the new one is what is durable.
DropSnapshot ==
  /\ mode = "serving" /\ factory' = NoSnapshot
  /\ UNCHANGED <<mode, visible, buffered, durable>>
Snapshot ==
  /\ mode = "serving" /\ factory' = durable
  /\ UNCHANGED <<mode, visible, buffered, durable>>

\* restore_from_factory(): both tables may be emptied before the factory table
\* replaces them, the durable one first.
BeginRestore ==
  /\ mode = "serving" /\ factory # NoSnapshot
  /\ mode' = "restoring" /\ buffered' = Empty
  /\ UNCHANGED <<visible, durable, factory>>
Refill ==
  /\ mode = "restoring"
  /\ visible' \in {visible, Empty} /\ durable' \in {durable, Empty, factory}
  /\ UNCHANGED <<mode, buffered, factory>>
EndRestore ==
  /\ mode = "restoring" /\ mode' = "serving"
  /\ durable = factory /\ visible' = factory
  /\ UNCHANGED <<buffered, durable, factory>>

StoreNext ==
  \/ \E a \in Addresses, v \in Values : StoreWrite(a, v) \/ StoreWriteCached(a, v)
  \/ Drain \/ Sync \/ Cut \/ Start
  \/ BeginWipe \/ Wipe \/ EndWipe
  \/ DropSnapshot \/ Snapshot
  \/ BeginRestore \/ Refill \/ EndRestore

StoreSpec == StoreInit /\ [][StoreNext]_storeVars
=============================================================================
