----------------------------- MODULE MCEmuEeprom -----------------------------
(***************************************************************************)
(* Instances of EmuEeprom for TLC.                                         *)
(***************************************************************************)
EXTENDS EmuEepromProperties, Sequences, TLC

\* A device that was never used.
BlankDevice == {[p \in Pages |-> ErasedLog]}

LogOf(records) ==
  [o \in Offsets |->
     IF o % EntriesPerBlock = 0 /\ o \div EntriesPerBlock < Len(records)
     THEN records[o \div EntriesPerBlock + 1] ELSE Blank]

Mark(s) == Entry(RESERVED_STATUS_ADDRESS, s)
AnyValue == CHOOSE v \in Values : TRUE
Data == Entry(0, AnyValue)
Alien == Entry(OutOfRange, AnyValue)

Device(l1, l2, l3) ==
  [p \in Pages |-> CASE p = "Page1" -> LogOf(l1)
                     [] p = "Page2" -> LogOf(l2)
                     [] p = "Factory" -> LogOf(l3)]

\* Logs with every page header a power loss or another firmware may leave:
\* interrupted formats and transfers, two Valid pages, data without a header,
\* a record beyond the address range.
AnyLog ==
  { <<>>, <<Data>>, <<Mark("Formatted")>>, <<Mark("Receiving")>>,
    <<Mark("Valid"), Data>>, <<Mark("Valid"), Alien>>, <<Mark("Formatted"), Alien>>,
    <<Mark("Formatted"), Mark("Receiving"), Data>>,
    <<Mark("Formatted"), Mark("Receiving"), Data, Mark("Valid")>> }

AnyDevice ==
  {Device(l1, l2, <<>>) : l1, l2 \in AnyLog} \cup
  {Device(<<>>, <<>>, <<Mark("Valid"), Alien>>)}

ValueSymmetry == Permutations(Values)
=============================================================================
