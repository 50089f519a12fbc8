------------------------- MODULE EmuEepromProperties -------------------------
(***************************************************************************)
(* What the emulated EEPROM has to guarantee, over the states of EmuEeprom.*)
(***************************************************************************)
EXTENDS EmuEeprom

Steps == TransferSteps \cup
  {"off", "idle", "write", "write_again", "flush_block", "store_erase",
   "store_copy", "format_erase1", "format_erase2", "format_erase_factory",
   "format_valid", "format_formatted", "restore_erase1", "restore_erase2",
   "restore_copy", "restore_formatted", "reload", "repair_erase",
   "repair_formatted", "resume_erase", "resume_reload"}

Results == {"Ok", "Error", "WriteError", "ReadError", "PageFull", "NoPage",
            "NoVariable"}

Positions == [page : RuntimePages, offset : 0 .. PageSize]

StagedBlocks ==
  [page    : RuntimePages,
   offset  : {o \in Offsets : o % EntriesPerBlock = 0},
   entries : 0 .. EntriesPerBlock,
   dirty   : BOOLEAN,
   data    : Blocks]

HwaTyped ==
  /\ flash \in [Pages -> Logs]
  /\ faults \in 0 .. MaxFaults

RamTyped ==
  /\ status \in [Pages -> PageStatuses]
  /\ cache \in [Addresses -> Words]
  /\ cacheDirty \in BOOLEAN
  /\ next \in Positions
  /\ block \in StagedBlocks

CallTyped ==
  /\ pc \in Steps
  /\ op \in Calls \cup {"init"}
  /\ entry \in Entries
  /\ flag \in BOOLEAN
  /\ oldPage \in RuntimePages
  /\ cursor \in 0 .. PageSize + EntriesPerBlock
  /\ result \in Results

\* Every variable keeps its type; in particular no cached offset ever points
\* past the end of a page and no block is staged across one (the offsets of
\* write_internal() and flush_write_block()).
TypeOK == HwaTyped /\ RamTyped /\ CallTyped

-----------------------------------------------------------------------------
FlashStatus == [p \in Pages |-> StatusOf(flash[p])]
ValidPages == {p \in RuntimePages : StatusOf(flash[p]) = "Valid"}

\* What init() would make readable if power failed now: nothing when the page
\* headers make it format().
Recovered ==
  IF Cardinality(ValidPages) = 1 /\ \A p \in ValidPages : Decodes(flash[p])
  THEN CHOOSE table \in {Contents(flash[p]) : p \in ValidPages} : TRUE
  ELSE ErasedCache

\* Between the erase of the old page and the Valid record of the new one no
\* page is Valid.
SwapWindow == {"xfer_formatted", "xfer_valid"}

\* A call has returned and the store has a page to serve it from.
Serving == pc = "idle" /\ ReadPage # NoPage

\* No step, failing or not, leaves two Valid runtime pages: init() would answer
\* them by formatting both (emueeprom.cpp:127-133).
NeverTwoValid ==
  [][BothValid([p \in Pages |-> StatusOf(flash'[p])]) => BothValid(FlashStatus)]_vars

\* Between calls the cached page statuses are the newest status records in
\* flash, so page selection never works on a stale header.
StatusCacheIsCurrent == Serving => status = FlashStatus

\* The value a scan of the log with the staged block on top would find.
Logged(a) ==
  LET hits == {i \in Slots : block.dirty /\ block.data[i].address = a}
  IN IF hits = {} THEN Contents(flash[ReadPage])[a]
     ELSE block.data[Greatest(hits)].value

\* Between calls, without cache-only writes, the mirror holds what the log and
\* the staged block say: page_transfer() may dump it in place of the log.
MirrorMatchesLog ==
  Serving /\ ~cacheDirty => \A a \in Addresses : cache[a] = Logged(a)

\* Between calls the offset the next entry is written at is the first free
\* block, or the next slot of the staged block in front of it ("The cached next
\* write offset points at the next free slot", emueeprom.cpp:427).
NextOffsetIsFree ==
  Serving =>
    LET free == FirstFree(flash[ReadPage]) IN
    IF block.dirty
    THEN /\ block.page = ReadPage /\ block.offset = free
         /\ next = At(ReadPage, free + block.entries)
    ELSE WriteOffset(ReadPage) = free

\* No block is staged when a status record is written: its flush has nothing to
\* do, and the record never shares a block with entries.
NoBlockStagedAtStatus ==
  pc \in {"xfer_receiving", "xfer_formatted", "xfer_valid", "format_valid",
          "format_formatted", "repair_formatted", "restore_formatted"}
    => ~block.dirty

\* flush() returning true means that power may fail now and nothing is lost
\* ("Makes all known EEPROM state durable", emueeprom.h:177).
FlushMakesDurable ==
  pc = "idle" /\ op = "flush" /\ result = "Ok" => Recovered = cache

\* A store with no failing Hwa always accepts a write to a legal address, and
\* no transfer, format or flush fails: the reserved blocks are enough after any
\* history of writes, transfers and power losses.
CallsSucceed ==
  pc = "idle" /\ op \notin {"read", "read_beyond", "write_beyond"} => result = "Ok"

\* init() leaves one Valid and one Formatted page whatever it found.
BootRepairs ==
  pc = "idle" /\ op = "init" =>
    /\ OneValid(FlashStatus) /\ Partner(FlashStatus) = "Formatted"
    /\ cache = Recovered

\* Outside format() and restore_from_factory(), no step makes a value that
\* init() could have recovered unrecoverable.
NothingVanishes ==
  [][op \notin {"format", "restore_from_factory"} =>
       \A a \in Addresses : Recovered[a] # ERASED => Recovered'[a] # ERASED]_vars

\* A value in the mirror when flush() returns true is not unset by a power loss.
NoFlushedValueVanishes ==
  pc = "idle" /\ op = "flush" /\ result = "Ok" =>
    \A a \in Addresses : cache[a] # ERASED => Recovered[a] # ERASED

\* Unless power keeps failing, the store keeps coming back to serve calls:
\* neither a repair at boot nor a page transfer goes on for ever.
KeepsServing == []<><<PowerLoss>>_vars \/ []<>(pc = "idle")
=============================================================================
