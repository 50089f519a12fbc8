------------------------------ MODULE EmuEeprom ------------------------------
(***************************************************************************)
(* The emulated EEPROM of zlibs (module/src/utils/emueeprom/emueeprom.cpp).*)
(*                                                                         *)
(* 16-bit values live in an append-only log that alternates between two    *)
(* flash pages; a RAM cache mirrors the newest value of every address, and *)
(* a third page keeps a factory snapshot.  Every public call is a sequence *)
(* of steps, each of which changes flash at most once (one erase or one    *)
(* block write), and power may fail between any two steps.  Offsets count  *)
(* entries where the code counts bytes.  The Hwa behind the pages is       *)
(* external: it programs a block or erases a page atomically, and it may   *)
(* refuse to (at most MaxFaults times).                                    *)
(***************************************************************************)
EXTENDS Integers, FiniteSets

CONSTANTS
  MaxAddress,       \* _max_address: logical addresses are 0 .. MaxAddress - 1
  BlockCount,       \* backend write blocks in a page
  EntriesPerBlock,  \* _entries_per_block
  Values,           \* the 16-bit values callers write
  Calls,            \* the public functions callers use
  MaxFaults,        \* how many Hwa operations may return false
  InitialFlash      \* what the flash may hold when the device first starts

ERASED == "Erased"  \* 0xFFFF: ERASED_VALUE, and PageStatus::Erased

Addresses == 0 .. MaxAddress - 1
\* Every number from MaxAddress up to 0xFFFE acts like MaxAddress.
OutOfRange == MaxAddress
RESERVED_STATUS_ADDRESS == MaxAddress + 1

RuntimePages == {"Page1", "Page2"}
Pages == RuntimePages \cup {"Factory"}
NoPage == "None"
Other(p) == IF p = "Page1" THEN "Page2" ELSE "Page1"

StatusRecords == {"Valid", "Formatted", "Receiving"}
PageStatuses == StatusRecords \cup {ERASED}

MIN_INTERNAL_ENTRY_BLOCK_COUNT == 3
PageSize == BlockCount * EntriesPerBlock
Offsets == 0 .. PageSize - 1
Slots == 0 .. EntriesPerBlock - 1

\* address_count_for()
AddressCount == (BlockCount - MIN_INTERNAL_ENTRY_BLOCK_COUNT) * EntriesPerBlock

Entry(a, v) == [address |-> a, value |-> v]
\* Erased bytes read back as address 0xFFFF and value 0xFFFF.
Blank == Entry(RESERVED_STATUS_ADDRESS, ERASED)
Words == Values \cup PageStatuses
Entries == [address : 0 .. RESERVED_STATUS_ADDRESS, value : Words]
Logs == [Offsets -> Entries]
Blocks == [Slots -> Entries]
ErasedLog == [o \in Offsets |-> Blank]
ErasedCache == [a \in Addresses |-> ERASED]

\* The static_asserts of EmuEeprom<PageSize, WriteBlockSize, Count>.
ASSUME ConstantsAssumption ==
  /\ BlockCount \in Nat /\ EntriesPerBlock \in Nat \ {0}
  /\ MaxAddress \in Nat \ {0} /\ MaxAddress <= AddressCount
  /\ MaxFaults \in Nat
  /\ InitialFlash \subseteq [Pages -> Logs]
  /\ Values \cap StatusRecords = {}

VARIABLES
  flash,       \* the three pages
  status,      \* _page_status_cache
  cache,       \* _cache: the RAM mirror
  cacheDirty,  \* _cache_dirty
  next,        \* _next_write_offset_cache
  block,       \* _write_block_*: the staged backend write block
  pc,          \* the step the running call is at; "idle" and "off" between calls
  op,          \* the last public call
  entry,       \* write()'s entry
  flag,        \* format()'s format_factory_page, init()'s do_cache
  oldPage,     \* page_transfer()'s old_page
  cursor,      \* the next address or offset a copying loop handles
  result,      \* what the last call returned: "Ok" for true, an error for false
  faults       \* Hwa failures so far

ram == <<status, cache, cacheDirty, next, block>>
locals == <<op, entry, flag, oldPage, cursor>>
vars == <<flash, ram, pc, locals, result, faults>>

-----------------------------------------------------------------------------
(* What a log says.                                                          *)

Least(S) == CHOOSE x \in S : \A y \in S : x <= y
Greatest(S) == CHOOSE x \in S : \A y \in S : x >= y

BlockStart(o) == (o \div EntriesPerBlock) * EntriesPerBlock

BlockErased(log, o) == \A i \in Slots : log[o + i] = Blank

FreeBlocks(log) ==
  {o \in Offsets : o % EntriesPerBlock = 0 /\ BlockErased(log, o)}

\* The first erased block, or the page size when the page is full.
FirstFree(log) ==
  IF FreeBlocks(log) = {} THEN PageSize ELSE Least(FreeBlocks(log))

\* Mutant: any record counts as a status record.
NewestStatus_AnyRecord(log, seen) ==
  LET marks == {o \in seen : log[o] # Blank}
  IN IF marks = {} THEN ERASED ELSE log[Greatest(marks)].value

\* The newest status record among the offsets a scan has seen.
NewestStatus(log, seen) ==
  LET marks == {o \in seen : /\ log[o].address = RESERVED_STATUS_ADDRESS
                             /\ log[o].value \in StatusRecords}
  IN IF marks = {} THEN ERASED ELSE log[Greatest(marks)].value

StatusOf(log) == NewestStatus(log, Offsets)

\* The newest value of an address among the offsets a scan has seen.
NewestValue(log, a, seen) ==
  LET hits == {o \in seen : log[o].address = a}
  IN IF hits = {} THEN ERASED ELSE log[Greatest(hits)].value

\* cache(): the mirror rebuilt from a log, up to its first erased block.
Contents(log) ==
  [a \in Addresses |-> NewestValue(log, a, 0 .. FirstFree(log) - 1)]

\* cache() gives up on a record beyond the address range.
Foreign(log) ==
  {o \in 0 .. FirstFree(log) - 1 : log[o].address = OutOfRange}
Decodes(log) == Foreign(log) = {}

-----------------------------------------------------------------------------
(* Page selection: find_valid_page() on the cached statuses.                 *)

WritePageIn(st) ==
  CASE st["Page2"] = "Valid" ->
         IF st["Page1"] = "Receiving" THEN "Page1" ELSE "Page2"
    [] st["Page2"] # "Valid" /\ st["Page1"] = "Valid" ->
         IF st["Page2"] = "Receiving" THEN "Page2" ELSE "Page1"
    [] OTHER -> NoPage

WritePage == WritePageIn(status)

ReadPage ==
  CASE status["Page1"] = "Valid" -> "Page1"
    [] status["Page1"] # "Valid" /\ status["Page2"] = "Valid" -> "Page2"
    [] OTHER -> NoPage

-----------------------------------------------------------------------------
(* Control.                                                                  *)

Goto(from, to) == pc = from /\ pc' = to

Return(res) ==
  /\ pc' = "idle"
  /\ result' = res
  /\ entry' = Blank /\ flag' = FALSE /\ cursor' = 0 /\ oldPage' = "Page1"
  /\ UNCHANGED op

\* The steps whose failure is page_transfer()'s.
TransferSteps == {"xfer_flush", "xfer_receiving", "xfer_copy", "xfer_erase",
                  "xfer_formatted", "xfer_valid", "xfer_reload"}

\* A failing step ends its call, but init() answers a failed page_transfer()
\* with format(); a device whose init() failed is not used until the next one.
Fail(res) ==
  IF op # "init" THEN Return(res)
  ELSE /\ pc' = IF pc \in TransferSteps THEN "format_erase1" ELSE "off"
       /\ flag' = FALSE
       /\ cursor' = 0
       /\ UNCHANGED <<op, entry, oldPage, result>>

-----------------------------------------------------------------------------
(* The Hwa: erase_page() and write().                                        *)

Faulty == faults < MaxFaults /\ faults' = faults + 1 /\ UNCHANGED flash
NoFault == UNCHANGED faults

Erase(p) == NoFault /\ flash' = [flash EXCEPT ![p] = ErasedLog]

Programmed(log, at, data) ==
  [o \in Offsets |-> IF o \in at .. at + EntriesPerBlock - 1
                     THEN data[o - at] ELSE log[o]]

\* Flash cells only go from 1 to 0: a block takes other data once per erase.
Accepts(p, at, data) ==
  \A i \in Slots : flash[p][at + i] \in {Blank, data[i]}

Program(p, at, data) ==
  /\ NoFault
  /\ Accepts(p, at, data)
  /\ flash' = [flash EXCEPT ![p] = Programmed(@, at, data)]

Refuses(p, at, data) ==
  \/ Faulty
  \/ ~Accepts(p, at, data) /\ UNCHANGED <<flash, faults>>

-----------------------------------------------------------------------------
(* The staged write block.                                                   *)

ClearedBlock ==
  [page |-> "Page1", offset |-> 0, entries |-> 0, dirty |-> FALSE,
   data |-> [i \in Slots |-> Blank]]

At(p, o) == [page |-> p, offset |-> o]

\* Mutant: the offset is not rounded up.
AfterFlush_NotRounded == next

\* flush_write_block() rounds the cached offset up to the next block, but only
\* when it points inside the block just written.
AfterFlush ==
  IF /\ block.dirty
     /\ next.page = block.page
     /\ next.offset > block.offset
     /\ next.offset < block.offset + EntriesPerBlock
  THEN At(block.page, block.offset + EntriesPerBlock)
  ELSE next

\* Mutant: the staged block is dropped instead of written.
FlushBlock_Forgets ==
  UNCHANGED <<flash, faults>> /\ next' = AfterFlush /\ block' = ClearedBlock

\* flush_write_block() returning true.
FlushBlock ==
  /\ IF block.dirty THEN Program(block.page, block.offset, block.data)
                    ELSE UNCHANGED <<flash, faults>>
  /\ next' = AfterFlush
  /\ block' = ClearedBlock

\* flush_write_block() returning false: the block stays staged.
FlushBlockFails ==
  /\ block.dirty
  /\ Refuses(block.page, block.offset, block.data)
  /\ UNCHANGED <<next, block>>

-----------------------------------------------------------------------------
(* write_page_status(): a block of its own at the first free block.  Every   *)
(* caller has flushed or cleared the staged block, so its leading            *)
(* flush_write_block() does nothing (NoBlockStagedAtStatus).                 *)

StatusBlock(s) ==
  [i \in Slots |-> IF i = 0 THEN Entry(RESERVED_STATUS_ADDRESS, s) ELSE Blank]

NextAfterStatus(p) ==
  IF next.page = p THEN At(p, FirstFree(flash[p]) + EntriesPerBlock) ELSE next

\* Mutant: the written status is not cached.
WritePageStatus_NotCached(p, s) ==
  /\ FirstFree(flash[p]) < PageSize
  /\ Program(p, FirstFree(flash[p]), StatusBlock(s))
  /\ block' = ClearedBlock
  /\ UNCHANGED status

WritePageStatus(p, s) ==
  /\ FirstFree(flash[p]) < PageSize
  /\ Program(p, FirstFree(flash[p]), StatusBlock(s))
  /\ block' = ClearedBlock
  /\ status' = [status EXCEPT ![p] = s]

\* No free block, or the write fails and leaves the record staged.
WritePageStatusFails(p, s) ==
  /\ \/ /\ FirstFree(flash[p]) = PageSize
        /\ UNCHANGED <<flash, block, faults>>
     \/ /\ FirstFree(flash[p]) < PageSize
        /\ Refuses(p, FirstFree(flash[p]), StatusBlock(s))
        /\ block' = [page |-> p, offset |-> FirstFree(flash[p]), entries |-> 1,
                     dirty |-> TRUE, data |-> StatusBlock(s)]
  /\ UNCHANGED <<status, next>>

-----------------------------------------------------------------------------
(* write_internal() and write_entry(): one entry appended to the log.        *)

WriteOffset(p) ==
  IF next.page = p /\ next.offset # 0 THEN next.offset ELSE FirstFree(flash[p])

HasRoom == WritePage # NoPage /\ WriteOffset(WritePage) < PageSize

\* Another block is staged and must be written before this entry's.
StagedElsewhere ==
  /\ block.dirty
  /\ \/ block.page # WritePage
     \/ block.offset # BlockStart(WriteOffset(WritePage))

\* Mutant: the entry always goes to the block's first slot.
Staged_FirstSlot(e) ==
  LET base == IF block.dirty THEN block
              ELSE [ClearedBlock EXCEPT !.page = WritePage, !.dirty = TRUE,
                     !.offset = BlockStart(WriteOffset(WritePage))]
  IN [base EXCEPT !.data[0] = e,
                  !.entries = IF @ < EntriesPerBlock THEN @ + 1 ELSE @]

\* The staged block with the entry added; the count only matters up to a full
\* block, so it stops there.
Staged(e) ==
  LET p == WritePage
      o == WriteOffset(p)
      base == IF block.dirty THEN block
              ELSE [ClearedBlock EXCEPT !.page = p, !.offset = BlockStart(o),
                                        !.dirty = TRUE]
  IN [base EXCEPT !.data[o - BlockStart(o)] = e,
                  !.entries = IF @ < EntriesPerBlock THEN @ + 1 ELSE @]

BlockFull(b) == b.entries >= EntriesPerBlock

\* The entry is appended: staged, and written with its block when that is full.
AppendEntry(e) ==
  /\ HasRoom /\ ~StagedElsewhere
  /\ LET b == Staged(e) IN
       IF BlockFull(b)
       THEN Program(b.page, b.offset, b.data) /\ block' = ClearedBlock
       ELSE block' = b /\ UNCHANGED <<flash, faults>>
  /\ next' = At(WritePage, WriteOffset(WritePage) + 1)
  /\ cache' = [cache EXCEPT ![e.address] = e.value]

\* The entry is staged but its full block cannot be written.
AppendEntryFails(e) ==
  /\ HasRoom /\ ~StagedElsewhere
  /\ LET b == Staged(e) IN
       BlockFull(b) /\ Refuses(b.page, b.offset, b.data) /\ block' = b
  /\ next' = At(WritePage, WriteOffset(WritePage))
  /\ UNCHANGED cache

\* No page takes the entry, or the page is full.
NoRoom(res) ==
  /\ \/ WritePage = NoPage /\ res = "NoPage" /\ UNCHANGED next
     \/ /\ WritePage # NoPage /\ ~HasRoom /\ res = "PageFull"
        /\ next' = At(WritePage, WriteOffset(WritePage))
  /\ UNCHANGED <<flash, faults, block, cache>>

\* The page transfer's copying loop: addresses still to copy.
ToCopy == {a \in Addresses : a >= cursor /\ cache[a] # ERASED}
CopiedEntry == Entry(Least(ToCopy), cache[Least(ToCopy)])

AppendPoints == {"write", "write_again"} \cup
                (IF ToCopy # {} THEN {"xfer_copy"} ELSE {})

\* An entry for another block first writes out the one left staged.
FlushStale ==
  /\ pc \in AppendPoints /\ HasRoom /\ StagedElsewhere
  /\ Program(block.page, block.offset, block.data)
  /\ block' = ClearedBlock
  /\ next' = At(WritePage, WriteOffset(WritePage))
  /\ UNCHANGED <<status, cache, cacheDirty, pc, locals, result>>

FlushStaleFails ==
  /\ pc \in AppendPoints /\ HasRoom /\ StagedElsewhere
  /\ Refuses(block.page, block.offset, block.data)
  /\ next' = At(WritePage, WriteOffset(WritePage))
  /\ Fail("WriteError")
  /\ UNCHANGED <<block, status, cache, cacheDirty>>

-----------------------------------------------------------------------------
(* Public calls.                                                             *)

Call(c) ==
  /\ pc = "idle" /\ c \in Calls
  /\ op' = c
  /\ UNCHANGED <<faults, oldPage>>

\* A call that ends at once.
Answer(res) ==
  /\ pc' = "idle" /\ result' = res
  /\ UNCHANGED <<entry, flag, cursor>>

\* A call that goes on at step to; what the previous call returned is its
\* caller's and forgotten.
Begin(to) == pc' = to /\ result' = "Ok"

\* write(entry): outside the address range, or on to write_internal().  Calls
\* names a write or read beyond the range "write_beyond" or "read_beyond".
Write(a, v) ==
  /\ Call(IF a = OutOfRange THEN "write_beyond" ELSE "write")
  /\ UNCHANGED <<flash, ram>>
  /\ \/ a = OutOfRange /\ Answer("WriteError")
     \/ /\ a # OutOfRange
        /\ Begin("write")
        /\ entry' = Entry(a, v)
        /\ UNCHANGED <<flag, cursor>>

\* write(entry, true): the mirror only.
WriteCached(a, v) ==
  /\ Call("write_cached")
  /\ Answer("Ok")
  /\ cache' = [cache EXCEPT ![a] = v]
  /\ cacheDirty' = TRUE
  /\ UNCHANGED <<flash, status, next, block>>

\* read(): a miss in the mirror scans the log backwards from the cached offset.
ScanLimit(p) ==
  IF next.page = p /\ next.offset > 0 THEN next.offset ELSE PageSize

Scanned == 0 .. ScanLimit(ReadPage) - 1

Read(a) ==
  /\ Call(IF a = OutOfRange THEN "read_beyond" ELSE "read")
  /\ \/ a = OutOfRange /\ Answer("ReadError") /\ UNCHANGED cache
     \/ /\ a # OutOfRange /\ cache[a] # ERASED
        /\ Answer("Ok") /\ UNCHANGED cache
     \/ /\ a # OutOfRange /\ cache[a] = ERASED /\ ReadPage = NoPage
        /\ Answer("NoPage") /\ UNCHANGED cache
     \/ /\ a # OutOfRange /\ cache[a] = ERASED /\ ReadPage # NoPage
        /\ Answer(IF \E o \in Scanned : flash[ReadPage][o].address = a
                  THEN "Ok" ELSE "NoVariable")
        /\ cache' = [cache EXCEPT ![a] = NewestValue(flash[ReadPage], a, Scanned)]
  /\ UNCHANGED <<flash, status, cacheDirty, next, block>>

\* Where refresh_page_status() starts: below the cached offset of the page that
\* writes would go to, which it looks up when it is unknown.
StatusLimit(p) ==
  IF WritePage = p /\ WriteOffset(p) > 0 THEN WriteOffset(p) ELSE PageSize

PageStatus(p) ==
  /\ Call("page_status")
  /\ Answer("Ok")
  /\ next' = IF WritePage = p THEN At(p, WriteOffset(p)) ELSE next
  /\ status' = [status EXCEPT ![p] =
                  NewestStatus(flash[p], 0 .. StatusLimit(p) - 1)]
  /\ UNCHANGED <<flash, cache, cacheDirty, block>>

\* flush() and store_to_factory(), which flushes first.
Flush(c) ==
  /\ c \in {"flush", "store_to_factory"} /\ Call(c)
  /\ Begin(IF cacheDirty THEN "xfer_flush" ELSE "flush_block")
  /\ UNCHANGED <<flash, ram, entry, flag, cursor>>

PageTransfer ==
  /\ Call("page_transfer")
  /\ Begin("xfer_flush")
  /\ UNCHANGED <<flash, ram, entry, flag, cursor>>

Format(factory) ==
  /\ Call("format")
  /\ Begin("format_erase1")
  /\ flag' = factory
  /\ UNCHANGED <<flash, ram, entry, cursor>>

\* restore_from_factory() needs a valid factory page.
RestoreFromFactory ==
  /\ Call("restore_from_factory")
  /\ status' = [status EXCEPT !["Factory"] = StatusOf(flash["Factory"])]
  /\ \/ /\ StatusOf(flash["Factory"]) = "Valid"
        /\ Begin("restore_erase1")
        /\ block' = ClearedBlock
        /\ UNCHANGED <<entry, flag, cursor>>
     \/ /\ StatusOf(flash["Factory"]) # "Valid"
        /\ Answer("Error")
        /\ UNCHANGED block
  /\ UNCHANGED <<flash, cache, cacheDirty, next>>

-----------------------------------------------------------------------------
(* write(): append, or transfer the page and append once more.               *)

WriteInternal ==
  /\ pc \in {"write", "write_again"}
  /\ UNCHANGED <<status, cacheDirty>>
  /\ \/ AppendEntry(entry) /\ Return("Ok")
     \/ AppendEntryFails(entry) /\ Return("WriteError")
     \/ \E res \in {"NoPage", "PageFull"} :
          /\ NoRoom(res)
          /\ IF pc = "write" /\ res = "PageFull"
             THEN Goto("write", "xfer_flush") /\ UNCHANGED <<locals, result>>
             ELSE Return(res)

-----------------------------------------------------------------------------
(* page_transfer(): the mirror is dumped into the other runtime page, which  *)
(* takes over once the old page is erased.                                   *)

\* flush_write_block(), then find_valid_page(Read).
XferFlush ==
  /\ pc = "xfer_flush"
  /\ UNCHANGED <<status, cache, cacheDirty>>
  /\ \/ /\ FlushBlock /\ ReadPage # NoPage
        /\ pc' = "xfer_receiving"
        /\ oldPage' = ReadPage
        /\ UNCHANGED <<op, entry, flag, cursor, result>>
     \/ FlushBlock /\ ReadPage = NoPage /\ Fail("NoPage")
     \/ FlushBlockFails /\ Fail("WriteError")

XferReceiving ==
  /\ pc = "xfer_receiving"
  /\ UNCHANGED <<cache, cacheDirty>>
  /\ \/ /\ WritePageStatus(Other(oldPage), "Receiving")
        /\ next' = At(Other(oldPage), 0)
        /\ pc' = "xfer_copy" /\ cursor' = 0
        /\ UNCHANGED <<op, entry, flag, oldPage, result>>
     \/ WritePageStatusFails(Other(oldPage), "Receiving") /\ Fail("WriteError")

XferCopy ==
  /\ pc = "xfer_copy" /\ ToCopy # {}
  /\ UNCHANGED <<status, cacheDirty>>
  /\ \/ /\ AppendEntry(CopiedEntry)
        /\ cursor' = Least(ToCopy) + 1
        /\ UNCHANGED <<pc, op, entry, flag, oldPage, result>>
     \/ AppendEntryFails(CopiedEntry) /\ Fail("WriteError")
     \/ \E res \in {"NoPage", "PageFull"} : NoRoom(res) /\ Fail(res)

\* Mutant: the new page becomes Valid and the old one is never erased.
XferCopied_KeepsOld ==
  /\ pc = "xfer_copy" /\ ToCopy = {}
  /\ UNCHANGED <<status, cache, cacheDirty>>
  /\ FlushBlock
  /\ pc' = "xfer_valid" /\ cursor' = 0
  /\ UNCHANGED <<op, entry, flag, oldPage, result>>

XferCopied ==
  /\ pc = "xfer_copy" /\ ToCopy = {}
  /\ UNCHANGED <<status, cache, cacheDirty>>
  /\ \/ /\ FlushBlock
        /\ pc' = "xfer_erase" /\ cursor' = 0
        /\ UNCHANGED <<op, entry, flag, oldPage, result>>
     \/ FlushBlockFails /\ Fail("WriteError")

\* The old page goes first: until xfer_valid no page is Valid.
XferErase ==
  /\ pc = "xfer_erase"
  /\ UNCHANGED ram
  /\ \/ /\ Erase(oldPage)
        /\ pc' = "xfer_formatted"
        /\ UNCHANGED <<locals, result>>
     \/ Faulty /\ Fail("WriteError")

XferStatus(from, p, s, to) ==
  /\ pc = from
  /\ UNCHANGED <<cache, cacheDirty>>
  /\ \/ /\ WritePageStatus(p, s) /\ next' = NextAfterStatus(p)
        /\ pc' = to
        /\ UNCHANGED <<locals, result>>
     \/ WritePageStatusFails(p, s) /\ Fail("WriteError")

XferFormatted == XferStatus("xfer_formatted", oldPage, "Formatted", "xfer_valid")
XferValid == XferStatus("xfer_valid", Other(oldPage), "Valid", "xfer_reload")

-----------------------------------------------------------------------------
(* cache(): the mirror and the cached offset are rebuilt from the page that  *)
(* reads use; false when there is none or it does not decode.                *)

\* Mutant: the cached offset is the last record's instead of the next one's.
Reload_LastRecord ==
  /\ block' = ClearedBlock
  /\ cacheDirty' = FALSE
  /\ ReadPage # NoPage /\ Decodes(flash[ReadPage])
  /\ cache' = Contents(flash[ReadPage])
  /\ next' = At(ReadPage, FirstFree(flash[ReadPage]) - 1)
  /\ UNCHANGED <<flash, status, faults>>

Reload ==
  /\ block' = ClearedBlock
  /\ cacheDirty' = FALSE
  /\ ReadPage # NoPage /\ Decodes(flash[ReadPage])
  /\ cache' = Contents(flash[ReadPage])
  /\ next' = At(ReadPage, FirstFree(flash[ReadPage]))
  /\ UNCHANGED <<flash, status, faults>>

\* What cache() filled before it gave up stays.
ReloadFails ==
  /\ block' = ClearedBlock
  /\ cacheDirty' = FALSE
  /\ \/ ReadPage = NoPage /\ cache' = ErasedCache /\ next' = At("Page1", 0)
     \/ /\ ReadPage # NoPage /\ ~Decodes(flash[ReadPage])
        /\ \E stop \in {Least(Foreign(flash[ReadPage]))} :
             /\ cache' = [a \in Addresses |->
                           NewestValue(flash[ReadPage], a, 0 .. stop - 1)]
             /\ next' = At(ReadPage, BlockStart(stop) + EntriesPerBlock)
  /\ UNCHANGED <<flash, status, faults>>

\* Mutant: write() starts over instead of appending once more.
XferReload_StartsOver ==
  /\ pc = "xfer_reload"
  /\ Reload
  /\ CASE op = "write" -> pc' = "write" /\ UNCHANGED <<locals, result>>
       [] op \in {"flush", "store_to_factory"} ->
            pc' = "flush_block" /\ UNCHANGED <<locals, result>>
       [] OTHER -> Return("Ok")

\* Where a successful page_transfer() returns to.
XferReload ==
  /\ pc = "xfer_reload"
  /\ \/ /\ Reload
        /\ CASE op = "write" -> pc' = "write_again" /\ UNCHANGED <<locals, result>>
             [] op \in {"flush", "store_to_factory"} ->
                  pc' = "flush_block" /\ UNCHANGED <<locals, result>>
             [] OTHER -> Return("Ok")
     \/ ReloadFails /\ Fail("WriteError")

-----------------------------------------------------------------------------
(* flush() and store_to_factory().                                           *)

FlushPending ==
  /\ pc = "flush_block"
  /\ UNCHANGED <<status, cache, cacheDirty>>
  /\ \/ FlushBlock /\ op = "flush" /\ Return("Ok")
     \/ /\ FlushBlock /\ op = "store_to_factory"
        /\ pc' = "store_erase"
        /\ UNCHANGED <<locals, result>>
     \/ FlushBlockFails /\ Return("Error")

StoreErase ==
  /\ pc = "store_erase"
  /\ UNCHANGED <<cache, cacheDirty, next, block>>
  /\ \/ /\ ReadPage # NoPage /\ Erase("Factory")
        /\ status' = [status EXCEPT !["Factory"] = ERASED]
        /\ pc' = "store_copy" /\ cursor' = 0
        /\ UNCHANGED <<op, entry, flag, oldPage, result>>
     \/ ReadPage # NoPage /\ Faulty /\ UNCHANGED status /\ Return("Error")
     \/ ReadPage = NoPage /\ UNCHANGED <<flash, faults, status>> /\ Return("Error")

\* Mutant: the last block is not copied.
CopyDone_OneShort(from) ==
  IF cursor + EntriesPerBlock >= PageSize THEN TRUE
  ELSE BlockErased(flash[from], cursor + EntriesPerBlock)

\* The copying loops stop at the first erased block or at the end of the page.
CopyDone(from) ==
  IF cursor >= PageSize THEN TRUE ELSE BlockErased(flash[from], cursor)

CopyBlock(from, to) ==
  LET data == [i \in Slots |-> flash[from][cursor + i]] IN
  /\ ~CopyDone(from)
  /\ \/ /\ Program(to, cursor, data)
        /\ cursor' = cursor + EntriesPerBlock
        /\ UNCHANGED <<pc, op, entry, flag, oldPage, result>>
     \/ Refuses(to, cursor, data) /\ Return("Error")

StoreCopy ==
  /\ pc = "store_copy"
  /\ UNCHANGED ram
  /\ CopyBlock(ReadPage, "Factory")

StoreDone ==
  /\ pc = "store_copy" /\ CopyDone(ReadPage)
  /\ status' = [status EXCEPT !["Factory"] = status[ReadPage]]
  /\ Return("Ok")
  /\ UNCHANGED <<flash, cache, cacheDirty, next, block, faults>>

-----------------------------------------------------------------------------
(* format(): both runtime pages erased, page 1 Valid and page 2 Formatted.   *)

\* One erase_page() and the cached status it clears, or false.
EraseStep(from, p, to) ==
  /\ pc = from
  /\ \/ /\ Erase(p)
        /\ status' = [status EXCEPT ![p] = ERASED]
        /\ pc' = to
        /\ UNCHANGED <<locals, result>>
     \/ Faulty /\ UNCHANGED status /\ Fail("Error")

\* Mutant: what was staged stays staged.
FormatErase1_KeepsBlock ==
  /\ EraseStep("format_erase1", "Page1", "format_erase2")
  /\ UNCHANGED <<cache, cacheDirty, next, block>>

FormatErase1 ==
  /\ EraseStep("format_erase1", "Page1", "format_erase2")
  /\ block' = ClearedBlock
  /\ UNCHANGED <<cache, cacheDirty, next>>

FormatErase2 ==
  /\ EraseStep("format_erase2", "Page2",
               IF op = "format" /\ flag THEN "format_erase_factory"
                                        ELSE "format_valid")
  /\ UNCHANGED <<cache, cacheDirty, next, block>>

FormatEraseFactory ==
  /\ EraseStep("format_erase_factory", "Factory", "format_valid")
  /\ UNCHANGED <<cache, cacheDirty, next, block>>

FormatValid ==
  /\ pc = "format_valid"
  /\ cache' = ErasedCache /\ cacheDirty' = FALSE
  /\ \/ /\ WritePageStatus("Page1", "Valid") /\ next' = NextAfterStatus("Page1")
        /\ pc' = "format_formatted"
        /\ UNCHANGED <<locals, result>>
     \/ WritePageStatusFails("Page1", "Valid") /\ Fail("Error")

\* init() rebuilds the mirror after a format() only when do_cache is still set.
FormatFormatted ==
  /\ pc = "format_formatted"
  /\ UNCHANGED <<cache, cacheDirty>>
  /\ \/ /\ WritePageStatus("Page2", "Formatted")
        /\ next' = At("Page1", 0)
        /\ IF op = "init" /\ flag
           THEN pc' = "reload" /\ UNCHANGED <<locals, result>>
           ELSE Return("Ok")
     \/ WritePageStatusFails("Page2", "Formatted") /\ Fail("Error")

-----------------------------------------------------------------------------
(* restore_from_factory().                                                   *)

RestoreErase1 ==
  /\ EraseStep("restore_erase1", "Page1", "restore_erase2")
  /\ UNCHANGED <<cache, cacheDirty, next, block>>

RestoreErase2 ==
  /\ pc = "restore_erase2"
  /\ UNCHANGED <<next, block>>
  /\ \/ /\ Erase("Page2")
        /\ status' = [status EXCEPT !["Page2"] = ERASED]
        /\ cache' = ErasedCache /\ cacheDirty' = FALSE
        /\ pc' = "restore_copy" /\ cursor' = 0
        /\ UNCHANGED <<op, entry, flag, oldPage, result>>
     \/ Faulty /\ UNCHANGED <<status, cache, cacheDirty>> /\ Return("Error")

RestoreCopy ==
  /\ pc = "restore_copy"
  /\ UNCHANGED ram
  /\ CopyBlock("Factory", "Page1")

\* Every block is copied: page 1 gets a Valid record of its own.
RestoreValid ==
  /\ pc = "restore_copy" /\ CopyDone("Factory")
  /\ UNCHANGED <<cache, cacheDirty>>
  /\ \/ /\ WritePageStatus("Page1", "Valid") /\ next' = NextAfterStatus("Page1")
        /\ pc' = "restore_formatted" /\ cursor' = 0
        /\ UNCHANGED <<op, entry, flag, oldPage, result>>
     \/ WritePageStatusFails("Page1", "Valid") /\ Return("Error")

RestoreFormatted ==
  /\ pc = "restore_formatted"
  /\ UNCHANGED <<cache, cacheDirty>>
  /\ \/ /\ WritePageStatus("Page2", "Formatted")
        /\ next' = At("Page1", 0)
        /\ pc' = "reload"
        /\ UNCHANGED <<locals, result>>
     \/ WritePageStatusFails("Page2", "Formatted") /\ Return("Error")

\* The last cache() of init(), which falls back on format(), and of
\* restore_from_factory(), which reports it.
FinalReload ==
  /\ pc = "reload"
  /\ \/ Reload /\ Return("Ok")
     \/ /\ ReloadFails
        /\ IF op = "init"
           THEN Goto("reload", "format_erase1") /\ flag' = FALSE
                /\ UNCHANGED <<op, entry, oldPage, cursor, result>>
           ELSE Return("Error")

-----------------------------------------------------------------------------
(* init(): the mirror starts empty and the page headers decide what has to   *)
(* be repaired before the last cache().                                      *)

OneValid(st) == (st["Page1"] = "Valid") # (st["Page2"] = "Valid")
BothValid(st) == st["Page1"] = "Valid" /\ st["Page2"] = "Valid"
\* With one page Valid, the status of the other one.
Partner(st) == IF st["Page1"] = "Valid" THEN st["Page2"] ELSE st["Page1"]

\* Mutants: an erased partner is left as it is; an interrupted transfer is
\* formatted away.
Repair_LeavesErased(st) ==
  CASE OneValid(st) /\ Partner(st) \in {"Formatted", ERASED} -> "reload"
    [] OneValid(st) /\ Partner(st) = "Receiving" -> "resume_erase"
    [] OTHER                                     -> "format_erase1"
Repair_DropsTransfer(st) ==
  CASE OneValid(st) /\ Partner(st) = "Formatted" -> "reload"
    [] OneValid(st) /\ Partner(st) = ERASED      -> "repair_erase"
    [] OTHER                                     -> "format_erase1"

Repair(st) ==
  CASE OneValid(st) /\ Partner(st) = "Formatted" -> "reload"
    [] OneValid(st) /\ Partner(st) = ERASED      -> "repair_erase"
    [] OneValid(st) /\ Partner(st) = "Receiving" -> "resume_erase"
    [] OTHER                                     -> "format_erase1"

\* init() up to the repair.  The statuses are refreshed one page at a time, and
\* a page that the statuses cached so far select for writing has its next
\* offset looked up first; only an init() after an earlier one finds any.
StartInit ==
  /\ op' = "init"
  /\ status' = [p \in Pages |-> StatusOf(flash[p])]
  /\ next' = LET first == [status EXCEPT !["Page1"] = StatusOf(flash["Page1"])] IN
             CASE WritePageIn(first) = "Page2" -> At("Page2", FirstFree(flash["Page2"]))
               [] WritePageIn(first) # "Page2" /\ WritePage = "Page1" ->
                    At("Page1", FirstFree(flash["Page1"]))
               [] OTHER -> At("Page1", 0)
  /\ block' = ClearedBlock
  /\ cache' = ErasedCache /\ cacheDirty' = FALSE
  /\ pc' = Repair(status')
  /\ flag' = BothValid(status')
  /\ UNCHANGED <<flash, entry, oldPage, cursor, result, faults>>

\* The firmware starts, or an init() that failed is called again.
Boot == pc = "off" /\ StartInit

\* init() called on a running device.
InitCall == pc = "idle" /\ "init" \in Calls /\ StartInit

\* The page that is not Valid is erased before it is used again; its cached
\* status stays.
RepairErase(from, to) ==
  /\ pc = from
  /\ UNCHANGED ram
  /\ \/ Erase(Other(ReadPage)) /\ pc' = to /\ UNCHANGED <<locals, result>>
     \/ Faulty /\ Fail("Error")

EraseUnused == RepairErase("repair_erase", "repair_formatted")
EraseReceiving == RepairErase("resume_erase", "resume_reload")

RepairFormatted ==
  /\ pc = "repair_formatted"
  /\ UNCHANGED <<cache, cacheDirty>>
  /\ \/ /\ WritePageStatus(Other(ReadPage), "Formatted")
        /\ next' = NextAfterStatus(Other(ReadPage))
        /\ pc' = "reload"
        /\ UNCHANGED <<locals, result>>
     \/ WritePageStatusFails(Other(ReadPage), "Formatted") /\ Fail("Error")

\* An interrupted page_transfer() starts over from the page that is still Valid.
ResumeReload ==
  /\ pc = "resume_reload"
  /\ UNCHANGED <<locals, result>>
  /\ \/ Reload /\ pc' = "xfer_flush"
     \/ ReloadFails /\ pc' = "format_erase1"

\* Power fails: only flash survives.
PowerLoss ==
  /\ pc # "off"
  /\ pc' = "off"
  /\ op' = "init" /\ entry' = Blank /\ flag' = FALSE /\ oldPage' = "Page1"
  /\ cursor' = 0 /\ result' = "Ok"
  /\ status' = [p \in Pages |-> ERASED]
  /\ cache' = ErasedCache /\ cacheDirty' = FALSE
  /\ next' = At("Page1", 0) /\ block' = ClearedBlock
  /\ UNCHANGED <<flash, faults>>

-----------------------------------------------------------------------------
Init ==
  /\ flash \in InitialFlash
  /\ status = [p \in Pages |-> ERASED]
  /\ cache = ErasedCache /\ cacheDirty = FALSE
  /\ next = At("Page1", 0) /\ block = ClearedBlock
  /\ pc = "off" /\ op = "init" /\ entry = Blank /\ flag = FALSE
  /\ oldPage = "Page1" /\ cursor = 0 /\ result = "Ok" /\ faults = 0

CallStep ==
  \/ \E a \in 0 .. OutOfRange, v \in Values : Write(a, v)
  \/ \E a \in Addresses, v \in Values : WriteCached(a, v)
  \/ \E a \in 0 .. OutOfRange : Read(a)
  \/ \E p \in Pages : PageStatus(p)
  \/ \E c \in Calls : Flush(c)
  \/ PageTransfer
  \/ \E factory \in BOOLEAN : Format(factory)
  \/ RestoreFromFactory
  \/ InitCall

AppendStep == WriteInternal \/ FlushStale \/ FlushStaleFails
TransferStep == \/ XferFlush \/ XferReceiving \/ XferCopy \/ XferCopied
                \/ XferErase \/ XferFormatted \/ XferValid \/ XferReload
FactoryStep == \/ FlushPending \/ StoreErase \/ StoreCopy \/ StoreDone
               \/ RestoreErase1 \/ RestoreErase2 \/ RestoreCopy
               \/ RestoreValid \/ RestoreFormatted
FormatStep == \/ FormatErase1 \/ FormatErase2 \/ FormatEraseFactory
              \/ FormatValid \/ FormatFormatted
BootStep == \/ Boot \/ EraseUnused \/ EraseReceiving \/ RepairFormatted
            \/ ResumeReload \/ FinalReload

\* What the code does on its own once it is called or started.
Step == AppendStep \/ TransferStep \/ FactoryStep \/ FormatStep \/ BootStep

Next == CallStep \/ Step \/ PowerLoss

Spec == Init /\ [][Next]_vars
=============================================================================
