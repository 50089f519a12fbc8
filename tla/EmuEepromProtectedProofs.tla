----------------------- MODULE EmuEepromProtectedProofs -----------------------
(***************************************************************************)
(* Theorems about the device of EmuEepromRefinement: power holds through   *)
(* the exposed steps, no Hwa operation fails (MaxFaults = 0), and the      *)
(* flash holds nothing but what this firmware writes.                      *)
(***************************************************************************)
EXTENDS EmuEepromProofs, EmuEepromRefinement

CleanPages == \A p \in Pages : CleanLog(flash[p])

-----------------------------------------------------------------------------
(* The inductive invariant.                                                  *)

\* While page 1 is restored it holds the first blocks of the snapshot.
HeaderPages ==
  \A p \in RuntimePages : pc # "restore_copy" \/ p # "Page1" => OneBlock(flash[p])

HomeSteps == {"idle", "write", "write_again", "flush_block", "store_erase",
              "store_copy", "restore_erase1", "reload", "xfer_reload"}

TransferAt ==
  /\ pc = "xfer_flush" => IF op = "init" THEN Resumed ELSE Home
  /\ pc = "xfer_receiving" =>
       /\ Serves(oldPage, IF op = "init" THEN "Receiving" ELSE "Formatted")
       /\ FirstFree(flash[Other(oldPage)]) <= EntriesPerBlock
  /\ pc \in {"xfer_copy", "xfer_erase"} =>
       Serves(oldPage, "Receiving") /\ Current(Other(oldPage))
  /\ pc \in {"xfer_formatted", "xfer_valid"} =>
       /\ status[Other(oldPage)] = "Receiving" /\ Current(Other(oldPage))
       /\ IF pc = "xfer_formatted" THEN IsBlank(oldPage) ELSE status[oldPage] = "Formatted" /\ Current(oldPage)
  /\ pc \in {"xfer_erase", "xfer_formatted", "xfer_valid"} =>
       FirstFree(flash[Other(oldPage)]) + EntriesPerBlock <= PageSize

RepairAt ==
  /\ pc = "off" => \A p \in Pages : status[p] = ERASED
  /\ pc = "repair_erase" => \E h \in RuntimePages : Serves(h, ERASED)
  /\ pc = "repair_formatted" =>
       \E h \in RuntimePages : Serves(h, ERASED) /\ IsBlank(Other(h))
  /\ pc = "resume_erase" => \E h \in RuntimePages : Serves(h, "Receiving")
  /\ pc = "resume_reload" => Resumed
  /\ pc \in {"resume_erase", "resume_reload"} => op = "init"

FormatAt ==
  /\ pc \in {"format_erase2", "restore_erase2", "format_erase_factory", "format_valid"} =>
       IsBlank("Page1") /\ status["Page1"] = ERASED
  /\ pc \in {"format_erase_factory", "format_valid", "restore_copy"} =>
       IsBlank("Page2") /\ status["Page1"] = ERASED /\ status["Page2"] = ERASED
  /\ pc \in {"format_formatted", "restore_formatted"} =>
       IsBlank("Page2") /\ status["Page1"] = "Valid" /\ Current("Page1")

FactoryAt ==
  /\ pc \notin {"off", "store_copy"} => Current("Factory")
  /\ pc \in {"restore_erase1", "restore_erase2", "restore_copy"} =>
       FirstFree(flash["Factory"]) < PageSize
  /\ pc = "store_copy" => /\ cursor <= FirstFree(flash[ReadPage])
                          /\ flash["Factory"] = Prefix(flash[ReadPage], cursor)
  /\ pc = "restore_copy" => /\ cursor <= FirstFree(flash["Factory"])
                            /\ flash["Page1"] = Prefix(flash["Factory"], cursor)

StatusAt ==
  /\ pc \in HomeSteps => Home
  /\ TransferAt /\ RepairAt /\ FormatAt /\ FactoryAt

StagingSteps == {"idle", "write", "write_again", "flush_block", "store_erase",
                 "store_copy", "xfer_copy"}

StagedAt ==
  /\ pc \in StagingSteps \/ (pc = "xfer_flush" /\ op # "init") => Staging
  /\ pc = "xfer_flush" /\ op = "init" => ~block.dirty
  /\ pc = "xfer_copy" => /\ WriteOffset(WritePage) <= 2 * EntriesPerBlock + cursor
                         /\ cursor <= MaxAddress

WriteSteps == TransferSteps \cup {"write", "write_again"}

EntryAt ==
  /\ pc \in {"write", "write_again"} => op = "write"
  /\ op = "write" /\ pc \in WriteSteps => entry.address \in Addresses

Orderly == CleanPages /\ HeaderPages /\ StatusAt /\ StagedAt /\ EntryAt

-----------------------------------------------------------------------------
(* Pages.                                                                    *)

LEMMA NeverFaulty ==
  ASSUME MaxFaults = 0, HwaTyped
  PROVE  ~Faulty
BY DEF HwaTyped, Faulty

LEMMA PageErased ==
  ASSUME HwaTyped, CleanPages, NEW p \in Pages, Erase(p)
  PROVE  /\ CleanPages' /\ flash'[p] = ErasedLog
         /\ \A q \in Pages : q # p => flash'[q] = flash[q]
<1>1. flash' = [flash EXCEPT ![p] = ErasedLog] /\ flash \in [Pages -> Logs]
  BY DEF Erase, HwaTyped
<1>2. flash'[p] = ErasedLog /\ \A q \in Pages : q # p => flash'[q] = flash[q]
  BY <1>1
<1> QED BY <1>2, ErasedIsClean DEF CleanPages

\* The same, with the other pages.
LEMMA RecordWritten ==
  ASSUME HwaTyped, RamTyped, CleanPages, NEW p \in RuntimePages,
         NEW s \in StatusRecords, WritePageStatus(p, s)
  PROVE  /\ CleanPages' /\ StatusOf(flash'[p]) = s
         /\ FirstFree(flash'[p]) = FirstFree(flash[p]) + EntriesPerBlock
         /\ status'[p] = s /\ ~block'.dirty
         /\ \A q \in Pages : q # p => flash'[q] = flash[q] /\ status'[q] = status[q]
<1>1. CleanLog(flash[p])
  BY PageNames DEF CleanPages
<1> QED BY <1>1, RecordOnPage DEF CleanPages

\* Nothing but a full page keeps a status record from being written.
LEMMA RecordFits ==
  ASSUME MaxFaults = 0, HwaTyped, CleanPages, NEW p \in RuntimePages,
         NEW s \in StatusRecords, WritePageStatusFails(p, s)
  PROVE  FirstFree(flash[p]) = PageSize
<1>1. flash[p] \in Logs /\ CleanLog(flash[p])
  BY PageNames DEF HwaTyped, CleanPages
<1> SUFFICES ASSUME FirstFree(flash[p]) < PageSize,
                    Refuses(p, FirstFree(flash[p]), StatusBlock(s))
             PROVE  FALSE
  BY DEF WritePageStatusFails
<1>2. \A i \in Slots : flash[p][FirstFree(flash[p]) + i] = Blank
  BY <1>1, AppendedLog, StatusBlockIs
<1>3. Accepts(p, FirstFree(flash[p]), StatusBlock(s))
  BY <1>2 DEF Accepts
<1> QED BY <1>3, NeverFaulty DEF Refuses

LEMMA Flushed ==
  ASSUME HwaTyped, RamTyped, CleanPages, WritePage \in RuntimePages, Staging,
         FlushBlock, status' = status
  PROVE  /\ CleanPages'
         /\ \A q \in Pages : StatusOf(flash'[q]) = StatusOf(flash[q])
         /\ \A q \in Pages : q # WritePage => flash'[q] = flash[q]
         /\ WritePage' = WritePage /\ Staging' /\ ~block'.dirty
         /\ IF block.dirty
            THEN FirstFree(flash'[WritePage]) = FirstFree(flash[WritePage]) + EntriesPerBlock
            ELSE flash' = flash
<1>1. CleanLog(flash[WritePage])
  BY PageNames DEF CleanPages
<1> QED BY <1>1, FlushedOnPage DEF CleanPages

LEMMA FlushNeverFails ==
  ASSUME MaxFaults = 0, HwaTyped, RamTyped, CleanPages, WritePage \in RuntimePages,
         Staging
  PROVE  ~FlushBlockFails
<1> SUFFICES ASSUME FlushBlockFails PROVE FALSE
  OBVIOUS
<1>1. block.dirty /\ StagedFits
  BY DEF FlushBlockFails, Staging
<1>2. Accepts(block.page, block.offset, block.data)
  BY <1>1, StagedData, FreeBlockAccepts DEF StagedFits
<1> QED BY <1>2, NeverFaulty DEF FlushBlockFails, Refuses

LEMMA Appended ==
  ASSUME HwaTyped, RamTyped, CleanPages, WritePage \in RuntimePages, Staging,
         NEW e \in Entries, e.address \in Addresses, AppendEntry(e), status' = status
  PROVE  /\ CleanPages'
         /\ \A q \in Pages : StatusOf(flash'[q]) = StatusOf(flash[q])
         /\ \A q \in Pages : q # WritePage => flash'[q] = flash[q]
         /\ WritePage' = WritePage /\ Staging'
         /\ WriteOffset(WritePage)' = WriteOffset(WritePage) + 1
<1>1. CleanLog(flash[WritePage])
  BY PageNames DEF CleanPages
<1> QED BY <1>1, AppendedOnPage DEF CleanPages

LEMMA AppendNeverFails ==
  ASSUME MaxFaults = 0, HwaTyped, RamTyped, CleanPages, WritePage \in RuntimePages,
         Staging, NEW e \in Entries, e.address \in Addresses
  PROVE  ~AppendEntryFails(e)
<1> SUFFICES ASSUME AppendEntryFails(e) PROVE FALSE
  OBVIOUS
<1>1. HasRoom /\ Refuses(Staged(e).page, Staged(e).offset, Staged(e).data)
  BY DEF AppendEntryFails
<1>2. Accepts(Staged(e).page, Staged(e).offset, Staged(e).data)
  BY <1>1, EntryStaged, StagedIs, FreeBlockAccepts
<1> QED BY <1>1, <1>2, NeverFaulty DEF Refuses

-----------------------------------------------------------------------------
(* Calls, and write().                                                       *)

LEMMA HomeIs ==
  ASSUME Home
  PROVE  /\ ReadPage \in RuntimePages /\ ReadPage # NoPage /\ WritePage = ReadPage
         /\ Serves(ReadPage, "Formatted") /\ Current(Other(ReadPage))
         /\ StatusOf(flash[ReadPage]) = "Valid"
         /\ StatusOf(flash[Other(ReadPage)]) = "Formatted"
<1>1. PICK h \in RuntimePages : Serves(h, "Formatted") /\ Current(Other(h))
  BY DEF Home
<1>2. ReadPage = h /\ WritePage = h
  BY <1>1, ServingPages
<1> QED BY <1>1, <1>2, PageNames DEF Serves, Current

\* A step that only adds values to the page that is written.
LEMMA HomeStays ==
  ASSUME Home, HeaderPages, pc # "restore_copy", status' = status,
         \A q \in Pages : StatusOf(flash'[q]) = StatusOf(flash[q]),
         \A q \in Pages : q # ReadPage => flash'[q] = flash[q]
  PROVE  /\ Home' /\ ReadPage' = ReadPage
         /\ \A p \in RuntimePages : OneBlock(flash'[p])
         /\ \A p \in Pages : Current(p) => Current(p)'
<1>1. \A p \in Pages : Current(p) => Current(p)'
  BY DEF Current
<1>2. PICK h \in RuntimePages : Serves(h, "Formatted") /\ Current(Other(h))
  BY DEF Home
<1>3. Serves(h, "Formatted")' /\ Current(Other(h))'
  BY <1>1, <1>2, PageNames DEF Serves
<1>4. ReadPage' = ReadPage
  BY DEF ReadPage
<1>5. ASSUME NEW p \in RuntimePages PROVE OneBlock(flash'[p])
  <2>1. CASE p = ReadPage
    BY <2>1, HomeIs, PageNames DEF OneBlock
  <2>2. CASE p # ReadPage
    BY <2>2, PageNames DEF HeaderPages
  <2> QED BY <2>1, <2>2
<1> QED BY <1>1, <1>3, <1>4, <1>5 DEF Home

\* Where the steps of calls that keep the store at home arrive.
LEMMA AtHome ==
  ASSUME CleanPages', \A p \in RuntimePages : OneBlock(flash'[p]), Home',
         Current("Factory")', Staging', EntryAt',
         pc' \in {"idle", "write", "write_again", "flush_block", "store_erase"}
  PROVE  Orderly'
<1>1. HeaderPages'
  BY DEF HeaderPages
<1>2. StatusAt'
  BY DEF StatusAt, TransferAt, RepairAt, FormatAt, FactoryAt
<1>3. StagedAt'
  BY DEF StagedAt
<1> QED BY <1>1, <1>2, <1>3 DEF Orderly

\* What the running call returned is its caller's.
LEMMA CallEnds ==
  ASSUME NEW res, Return(res)
  PROVE  pc' = "idle" /\ EntryAt'
BY DEF Return, EntryAt, WriteSteps, TransferSteps

\* The store that calls find.
LEMMA IdleIs ==
  ASSUME Orderly, pc \in {"idle", "write", "write_again", "flush_block", "store_erase"}
  PROVE  /\ CleanPages /\ HeaderPages /\ Home /\ Staging /\ Current("Factory")
         /\ WritePage \in RuntimePages /\ WritePage = ReadPage
         /\ \A p \in RuntimePages : OneBlock(flash[p])
<1>1. CleanPages /\ HeaderPages /\ Home /\ Staging /\ Current("Factory")
  BY DEF Orderly, StatusAt, FactoryAt, StagedAt, HomeSteps, StagingSteps
<1> QED BY <1>1, HomeIs DEF HeaderPages

LEMMA SameStore ==
  ASSUME UNCHANGED <<flash, status, next, block>>
  PROVE  /\ CleanPages => CleanPages'
         /\ Home => Home'
         /\ Staging => Staging'
         /\ ReadPage' = ReadPage /\ WritePage' = WritePage
         /\ \A p \in Pages : Current(p) => Current(p)'
<1>1. WriteOffset(WritePage)' = WriteOffset(WritePage) /\ WritePage' = WritePage
      /\ ReadPage' = ReadPage
  BY DEF WriteOffset, WritePage, ReadPage
<1>2. StagedFits => StagedFits'
  BY <1>1 DEF StagedFits
<1>3. \A p \in Pages : Current(p) => Current(p)'
  BY DEF Current
<1>4. Home => Home'
  BY DEF Home, Serves, Current
<1> QED BY <1>1, <1>2, <1>3, <1>4 DEF Staging, CleanPages

\* A call that leaves the store alone and begins or answers.
LEMMA CallBegins ==
  ASSUME Orderly, pc = "idle", UNCHANGED <<flash, status, next, block>>,
         \/ pc' \in {"idle", "flush_block", "format_erase1"} /\ op' # "write"
         \/ pc' = "xfer_flush" /\ op' \notin {"init", "write"}
         \/ pc' = "write" /\ op' = "write" /\ entry'.address \in Addresses
  PROVE  Orderly'
<1>1. /\ CleanPages /\ HeaderPages /\ Home /\ Staging /\ Current("Factory")
      /\ \A p \in RuntimePages : OneBlock(flash[p])
  BY IdleIs
<1>2. /\ CleanPages' /\ Home' /\ Staging' /\ Current("Factory")'
      /\ \A p \in RuntimePages : OneBlock(flash'[p])
  BY <1>1, SameStore, PageNames
<1>3. EntryAt'
  BY DEF EntryAt, WriteSteps, TransferSteps
<1>4. CASE pc' \in {"idle", "flush_block", "write"}
  BY <1>2, <1>3, <1>4, AtHome
<1>5. CASE pc' \in {"format_erase1", "xfer_flush"}
  <2>1. HeaderPages'
    BY <1>2 DEF HeaderPages
  <2>2. StatusAt'
    BY <1>2, <1>5
       DEF StatusAt, TransferAt, RepairAt, FormatAt, FactoryAt, HomeSteps
  <2>3. StagedAt'
    BY <1>2, <1>5 DEF StagedAt, StagingSteps
  <2> QED BY <1>2, <1>3, <2>1, <2>2, <2>3 DEF Orderly
<1> QED BY <1>4, <1>5

\* refresh_page_status() finds what is cached already.
LEMMA PageStatusOrderly ==
  ASSUME IndInv, Orderly, NEW p \in Pages, PageStatus(p)
  PROVE  Orderly' /\ status' = status
<1>1. /\ pc = "idle" /\ pc' = "idle" /\ op' = "page_status"
      /\ UNCHANGED <<flash, block, entry>>
      /\ next' = (IF WritePage = p THEN At(p, WriteOffset(p)) ELSE next)
      /\ status' = [status EXCEPT ![p] = NewestStatus(flash[p], 0 .. StatusLimit(p) - 1)]
  BY DEF PageStatus, Call, Answer
<1>2. /\ CleanPages /\ HeaderPages /\ Home /\ Staging /\ Current("Factory")
      /\ WritePage \in RuntimePages /\ WritePage = ReadPage
      /\ \A q \in RuntimePages : OneBlock(flash[q])
  BY <1>1, IdleIs
<1>3. HwaTyped /\ RamTyped
  BY DEF IndInv, TypeOK
<1>4. Current(p)
  BY <1>2, HomeIs, PageNames DEF Serves, Pages
<1>5. StatusLimit(p) \in 0 .. PageSize /\ StatusLimit(p) >= FirstFree(flash[p])
  <2>1. FirstFree(flash[p]) \in 0 .. PageSize /\ PageSize \in Nat /\ PageSize \in 0 .. PageSize
    BY FirstFreeNat, GeometryType
  <2>2. CASE WritePage = p
    <3>1. WriteOffset(p) \in 0 .. PageSize /\ WriteOffset(p) = FirstFree(flash[p]) + StagedCount
          /\ StagedCount \in Nat
      BY <1>2, <1>3, <2>2, StagedIs, WriteOffsetType DEF Slots
    <3> QED BY <2>1, <2>2, <3>1 DEF StatusLimit
  <2> QED BY <2>1, <2>2 DEF StatusLimit
<1>6. NewestStatus(flash[p], 0 .. StatusLimit(p) - 1) = StatusOf(flash[p])
  BY <1>2, <1>5, ScanFindsStatus DEF CleanPages, CleanLog
<1>7. status' = status
  BY <1>1, <1>3, <1>4, <1>6 DEF Current, RamTyped
<1>8. /\ CleanPages' /\ Home' /\ Current("Factory")'
      /\ \A q \in RuntimePages : OneBlock(flash'[q])
  BY <1>1, <1>2, <1>7, HomeStays, PageNames DEF CleanPages
<1>9. Staging'
  <2>1. CASE WritePage # p
    BY <1>1, <1>2, <1>7, <2>1, SameStore
  <2>2. CASE WritePage = p
    BY <1>1, <1>2, <1>3, <1>7, <2>2, OffsetRefreshed
  <2> QED BY <2>1, <2>2
<1>10. EntryAt'
  BY <1>1 DEF EntryAt, WriteSteps, TransferSteps
<1> QED BY <1>1, <1>7, <1>8, <1>9, <1>10, AtHome

\* init() looks at the page headers before anything else.
LEMMA StartInitOrderly ==
  ASSUME IndInv, CleanPages, \A p \in RuntimePages : OneBlock(flash[p]), StartInit
  PROVE  Orderly'
<1>1. /\ flash' = flash /\ op' = "init" /\ pc' = Repair(status')
      /\ status' = [p \in Pages |-> StatusOf(flash[p])]
  BY DEF StartInit
<1>2. pc' \in {"reload", "repair_erase", "resume_erase", "format_erase1"}
  BY <1>1 DEF Repair
<1>3. \A p \in Pages : Current(p)'
  BY <1>1 DEF Current
<1>4. CleanPages' /\ HeaderPages'
  BY <1>1 DEF CleanPages, HeaderPages
<1>5. pc' # "format_erase1" =>
        \E h \in RuntimePages :
          /\ status'[h] = "Valid"
          /\ pc' = "reload" => status'[Other(h)] = "Formatted"
          /\ pc' = "repair_erase" => status'[Other(h)] = ERASED
          /\ pc' = "resume_erase" => status'[Other(h)] = "Receiving"
  <2>1. CASE status'["Page1"] = "Valid"
    BY <1>1, <2>1, PageNames DEF Repair, OneValid, Partner
  <2>2. CASE status'["Page1"] # "Valid"
    BY <1>1, <2>2, PageNames DEF Repair, OneValid, Partner
  <2> QED BY <2>1, <2>2
<1>6. StatusAt'
  <2>1. CASE pc' = "format_erase1"
    BY <1>3, <2>1, PageNames
       DEF StatusAt, TransferAt, RepairAt, FormatAt, FactoryAt, HomeSteps
  <2>2. CASE pc' # "format_erase1"
    <3>1. PICK h \in RuntimePages :
            /\ status'[h] = "Valid"
            /\ pc' = "reload" => status'[Other(h)] = "Formatted"
            /\ pc' = "repair_erase" => status'[Other(h)] = ERASED
            /\ pc' = "resume_erase" => status'[Other(h)] = "Receiving"
      BY <1>5, <2>2
    <3>2. /\ pc' = "reload" => Serves(h, "Formatted")' /\ Current(Other(h))'
          /\ pc' = "repair_erase" => Serves(h, ERASED)'
          /\ pc' = "resume_erase" => Serves(h, "Receiving")'
          /\ Current("Factory")'
      BY <1>3, <3>1, PageNames DEF Serves
    <3>3. /\ pc' = "reload" => Home'
          /\ pc' = "repair_erase" => \E g \in RuntimePages : Serves(g, ERASED)'
          /\ pc' = "resume_erase" => \E g \in RuntimePages : Serves(g, "Receiving")'
      BY <3>2 DEF Home
    <3> QED BY <1>1, <1>2, <2>2, <3>2, <3>3
            DEF StatusAt, TransferAt, RepairAt, FormatAt, FactoryAt, HomeSteps
  <2> QED BY <2>1, <2>2
<1>7. StagedAt' /\ EntryAt'
  BY <1>1, <1>2 DEF StagedAt, StagingSteps, EntryAt
<1> QED BY <1>4, <1>6, <1>7 DEF Orderly

LEMMA RestoreCallOrderly ==
  ASSUME IndInv, Orderly, RestoreFromFactory, ~RestoresFullPage
  PROVE  Orderly'
<1>1. /\ pc = "idle" /\ op' = "restore_from_factory" /\ UNCHANGED <<flash, next>>
      /\ status' = [status EXCEPT !["Factory"] = StatusOf(flash["Factory"])]
      /\ \/ pc' = "restore_erase1"
         \/ pc' = "idle" /\ block' = block
  BY DEF RestoreFromFactory, Call, Begin, Answer
<1>2. /\ CleanPages /\ HeaderPages /\ Home /\ Staging /\ Current("Factory")
      /\ \A p \in RuntimePages : OneBlock(flash[p])
  BY <1>1, IdleIs
<1>3. status' = status
  BY <1>1, <1>2 DEF Current, IndInv, TypeOK, RamTyped
<1>4. CASE pc' = "idle" /\ block' = block
  BY <1>1, <1>3, <1>4, CallBegins
<1>5. CASE pc' = "restore_erase1"
  <2>1. /\ CleanPages' /\ Home' /\ Current("Factory")'
        /\ \A q \in RuntimePages : OneBlock(flash'[q])
    BY <1>1, <1>2, <1>3, HomeStays, PageNames DEF CleanPages
  <2>2. FirstFree(flash["Factory"]) < PageSize
    BY <1>1, FirstFreeNat, GeometryType DEF RestoresFullPage
  <2>3. HeaderPages'
    BY <2>1 DEF HeaderPages
  <2>4. StatusAt'
    BY <1>1, <1>5, <2>1, <2>2
       DEF StatusAt, TransferAt, RepairAt, FormatAt, FactoryAt, HomeSteps
  <2>5. StagedAt' /\ EntryAt'
    BY <1>1, <1>5 DEF StagedAt, StagingSteps, EntryAt
  <2> QED BY <2>1, <2>3, <2>4, <2>5 DEF Orderly
<1> QED BY <1>1, <1>4, <1>5

LEMMA CallsOrderly ==
  ASSUME IndInv, Orderly, CallStep, ~RestoresFullPage
  PROVE  Orderly'
<1>1. ASSUME NEW a \in 0 .. OutOfRange, NEW v \in Values, Write(a, v) PROVE Orderly'
  <2>1. pc = "idle" /\ UNCHANGED <<flash, status, next, block>>
    BY <1>1 DEF Write, Call, ram
  <2>2. CASE a = OutOfRange
    <3>1. pc' = "idle" /\ op' = "write_beyond"
      BY <1>1, <2>2 DEF Write, Call, Answer
    <3> QED BY <2>1, <3>1, CallBegins
  <2>3. CASE a # OutOfRange
    <3>1. a \in Addresses
      BY <2>3, GeometryType DEF OutOfRange, Addresses
    <3>2. pc' = "write" /\ op' = "write" /\ entry'.address \in Addresses
      BY <1>1, <2>3, <3>1 DEF Write, Call, Begin, Entry
    <3> QED BY <2>1, <3>2, CallBegins
  <2> QED BY <2>2, <2>3
<1>2. ASSUME NEW a \in Addresses, NEW v \in Values, WriteCached(a, v) PROVE Orderly'
  <2>1. pc = "idle" /\ pc' = "idle" /\ op' = "write_cached" /\ UNCHANGED <<flash, status, next, block>>
    BY <1>2 DEF WriteCached, Call, Answer
  <2> QED BY <2>1, CallBegins
<1>3. ASSUME NEW a \in 0 .. OutOfRange, Read(a) PROVE Orderly'
  <2>1. pc = "idle" /\ pc' = "idle" /\ op' # "write" /\ UNCHANGED <<flash, status, next, block>>
    BY <1>3 DEF Read, Call, Answer
  <2> QED BY <2>1, CallBegins
<1>4. ASSUME NEW p \in Pages, PageStatus(p) PROVE Orderly'
  BY <1>4, PageStatusOrderly
<1>5. ASSUME NEW c \in Calls, Flush(c) PROVE Orderly'
  <2>1. /\ pc = "idle" /\ pc' \in {"xfer_flush", "flush_block"}
        /\ op' \in {"flush", "store_to_factory"} /\ UNCHANGED <<flash, status, next, block>>
    BY <1>5 DEF Flush, Call, Begin, ram
  <2> QED BY <2>1, CallBegins
<1>6. CASE PageTransfer
  <2>1. /\ pc = "idle" /\ pc' = "xfer_flush" /\ op' = "page_transfer"
        /\ UNCHANGED <<flash, status, next, block>>
    BY <1>6 DEF PageTransfer, Call, Begin, ram
  <2> QED BY <2>1, CallBegins
<1>7. ASSUME NEW factory \in BOOLEAN, Format(factory) PROVE Orderly'
  <2>1. /\ pc = "idle" /\ pc' = "format_erase1" /\ op' = "format"
        /\ UNCHANGED <<flash, status, next, block>>
    BY <1>7 DEF Format, Call, Begin, ram
  <2> QED BY <2>1, CallBegins
<1>8. CASE RestoreFromFactory
  BY <1>8, RestoreCallOrderly
<1>9. CASE InitCall
  BY <1>9, IdleIs, StartInitOrderly DEF InitCall
<1> QED BY <1>1, <1>2, <1>3, <1>4, <1>5, <1>6, <1>7, <1>8, <1>9 DEF CallStep

LEMMA AppendsOrderly ==
  ASSUME MaxFaults = 0, IndInv, Orderly, WriteInternal
  PROVE  /\ Orderly'
         /\ ~AppendEntryFails(entry)
<1>1. pc \in {"write", "write_again"} /\ UNCHANGED status
  BY DEF WriteInternal
<1>2. /\ CleanPages /\ HeaderPages /\ Home /\ Staging /\ Current("Factory")
      /\ WritePage \in RuntimePages /\ WritePage = ReadPage /\ WritePage # NoPage
      /\ \A p \in RuntimePages : OneBlock(flash[p])
  BY <1>1, IdleIs, PageNames
<1>3. HwaTyped /\ RamTyped /\ entry \in Entries
  BY DEF IndInv, TypeOK, CallTyped
<1>4. op = "write" /\ entry.address \in Addresses
  BY <1>1 DEF Orderly, EntryAt, WriteSteps
<1>5. ASSUME AppendEntry(entry), Return("Ok") PROVE Orderly'
  <2>1. /\ CleanPages' /\ Staging'
        /\ \A q \in Pages : StatusOf(flash'[q]) = StatusOf(flash[q])
        /\ \A q \in Pages : q # ReadPage => flash'[q] = flash[q]
    BY <1>1, <1>2, <1>3, <1>4, <1>5, Appended
  <2>2. Home' /\ Current("Factory")' /\ \A p \in RuntimePages : OneBlock(flash'[p])
    BY <1>1, <1>2, <2>1, HomeStays, PageNames
  <2> QED BY <1>5, <2>1, <2>2, CallEnds, AtHome
<1>6. ~AppendEntryFails(entry)
  BY <1>2, <1>3, <1>4, AppendNeverFails
<1>7. ASSUME NEW res \in {"NoPage", "PageFull"}, NoRoom(res),
             IF pc = "write" /\ res = "PageFull"
             THEN Goto("write", "xfer_flush") /\ UNCHANGED <<locals, result>>
             ELSE Return(res)
      PROVE  Orderly'
  <2>1. next' = At(WritePage, WriteOffset(WritePage)) /\ UNCHANGED <<flash, block>>
    BY <1>2, <1>7 DEF NoRoom
  <2>3. Staging'
    BY <1>1, <1>2, <1>3, <2>1, OffsetRefreshed
  <2>4. /\ CleanPages' /\ Home' /\ Current("Factory")'
        /\ \A p \in RuntimePages : OneBlock(flash'[p])
    BY <1>1, <1>2, <2>1, HomeStays, PageNames DEF CleanPages
  <2>5. CASE Return(res)
    BY <2>3, <2>4, <2>5, CallEnds, AtHome
  <2>6. CASE pc' = "xfer_flush" /\ UNCHANGED <<locals, result>>
    <3>1. op' = "write" /\ entry' = entry
      BY <1>4, <2>6 DEF locals
    <3>2. HeaderPages'
      BY <2>4 DEF HeaderPages
    <3>3. StatusAt'
      BY <2>4, <2>6, <3>1
         DEF StatusAt, TransferAt, RepairAt, FormatAt, FactoryAt, HomeSteps
    <3>4. StagedAt' /\ EntryAt'
      BY <1>4, <2>3, <2>6, <3>1 DEF StagedAt, StagingSteps, EntryAt
    <3> QED BY <2>4, <3>2, <3>3, <3>4 DEF Orderly
  <2> QED BY <1>7, <2>5, <2>6 DEF Goto
<1> QED BY <1>5, <1>6, <1>7 DEF WriteInternal

\* The entry always belongs to the staged block.
LEMMA NothingStale ==
  ASSUME IndInv, Orderly
  PROVE  ~FlushStale /\ ~FlushStaleFails
<1> SUFFICES ASSUME pc \in {"write", "write_again", "xfer_copy"}, HasRoom, StagedElsewhere
             PROVE  FALSE
  BY DEF FlushStale, FlushStaleFails, AppendPoints
<1>1. HwaTyped /\ RamTyped /\ CleanPages /\ Staging
  BY DEF IndInv, TypeOK, Orderly, StagedAt, StagingSteps
<1>2. WritePage \in RuntimePages
  BY PagesType DEF HasRoom
<1> QED BY <1>1, <1>2, StagedIs
-----------------------------------------------------------------------------
(* page_transfer().                                                          *)

\* Every step of page_transfer() but its first and last works on a store whose
\* snapshot is left alone.
LEMMA AtTransfer ==
  ASSUME CleanPages', \A p \in RuntimePages : OneBlock(flash'[p]),
         Current("Factory")', EntryAt',
         pc' \in {"xfer_receiving", "xfer_copy", "xfer_erase", "xfer_formatted",
                  "xfer_valid"},
         TransferAt',
         pc' = "xfer_copy" =>
           /\ Staging' /\ WriteOffset(WritePage)' <= 2 * EntriesPerBlock + cursor'
           /\ cursor' <= MaxAddress
  PROVE  Orderly'
<1>1. HeaderPages'
  BY DEF HeaderPages
<1>2. StatusAt'
  BY DEF StatusAt, RepairAt, FormatAt, FactoryAt, HomeSteps
<1>3. StagedAt'
  BY DEF StagedAt, StagingSteps
<1> QED BY <1>1, <1>2, <1>3 DEF Orderly

LEMMA SameEntry ==
  ASSUME Orderly, pc \in WriteSteps, pc' \in WriteSteps, op' = op, entry' = entry,
         pc' \in {"write", "write_again"} => op = "write"
  PROVE  EntryAt'
BY DEF EntryAt, Orderly

\* What page_transfer() finds and keeps.
LEMMA TransferIs ==
  ASSUME IndInv, Orderly, pc \in TransferSteps
  PROVE  /\ HwaTyped /\ RamTyped /\ CleanPages /\ Current("Factory") /\ StatusAt /\ StagedAt
         /\ \A p \in RuntimePages : OneBlock(flash[p])
         /\ oldPage \in RuntimePages /\ Other(oldPage) \in RuntimePages
         /\ oldPage \in Pages /\ Other(oldPage) \in Pages /\ Other(oldPage) # oldPage
         /\ Other(Other(oldPage)) = oldPage /\ oldPage # "Factory"
<1>1. oldPage \in RuntimePages
  BY DEF IndInv, TypeOK, CallTyped
<1>2. pc # "restore_copy" /\ pc \notin {"off", "store_copy"}
  BY DEF TransferSteps
<1> QED BY <1>1, <1>2, PageNames
        DEF IndInv, TypeOK, Orderly, StatusAt, FactoryAt, HeaderPages

LEMMA XferFlushOrderly ==
  ASSUME MaxFaults = 0, IndInv, Orderly, XferFlush
  PROVE  /\ Orderly'
         /\ FlushBlock /\ pc' = "xfer_receiving" /\ oldPage' = ReadPage
         /\ op' = op /\ ReadPage \in RuntimePages
<1>1. /\ pc = "xfer_flush" /\ pc \in TransferSteps /\ pc \in WriteSteps
      /\ UNCHANGED status
  BY DEF XferFlush, TransferSteps, WriteSteps
<1>2. /\ HwaTyped /\ RamTyped /\ CleanPages /\ Current("Factory")
      /\ \A p \in RuntimePages : OneBlock(flash[p])
      /\ IF op = "init" THEN Resumed /\ ~block.dirty ELSE Home /\ Staging
  BY <1>1, TransferIs DEF StatusAt, TransferAt, StagedAt
<1>3. ~FlushBlockFails
  BY <1>2, HomeIs, FlushNeverFails DEF FlushBlockFails
<1>4. /\ CleanPages'
      /\ \A q \in Pages : StatusOf(flash'[q]) = StatusOf(flash[q])
      /\ \A q \in Pages : q # ReadPage => flash'[q] = flash[q]
      /\ ReadPage \in RuntimePages
      /\ Serves(ReadPage, IF op = "init" THEN "Receiving" ELSE "Formatted")
      /\ FirstFree(flash[Other(ReadPage)]) <= EntriesPerBlock
  <2>0. FlushBlock
    BY <1>3 DEF XferFlush
  <2>1. CASE op = "init"
    <3>1. PICK h \in RuntimePages : Serves(h, "Receiving") /\ IsBlank(Other(h))
      BY <1>2, <2>1 DEF Resumed
    <3>2. ReadPage = h /\ flash' = flash
      BY <1>2, <2>0, <2>1, <3>1, ServingPages DEF FlushBlock
    <3>3. FirstFree(flash[Other(h)]) <= EntriesPerBlock
      BY <3>1, ErasedIsClean, GeometryType DEF IsBlank
    <3> QED BY <1>2, <2>1, <3>1, <3>2, <3>3 DEF CleanPages
  <2>2. CASE op # "init"
    <3>1. /\ ReadPage \in RuntimePages /\ WritePage = ReadPage
          /\ Serves(ReadPage, "Formatted")
          /\ StatusOf(flash[Other(ReadPage)]) = "Formatted"
      BY <1>2, <2>2, HomeIs
    <3>2. OneBlock(flash[Other(ReadPage)])
      BY <1>2, <3>1, PageNames
    <3>3. /\ CleanPages'
          /\ \A q \in Pages : StatusOf(flash'[q]) = StatusOf(flash[q])
          /\ \A q \in Pages : q # ReadPage => flash'[q] = flash[q]
      BY <1>1, <1>2, <2>0, <2>2, <3>1, Flushed
    <3> QED BY <2>2, <3>1, <3>2, <3>3 DEF OneBlock
  <2> QED BY <2>1, <2>2
<1>5. /\ pc' = "xfer_receiving" /\ oldPage' = ReadPage /\ op' = op /\ entry' = entry
  BY <1>3, <1>4, PageNames DEF XferFlush
<1>6. PICK h \in RuntimePages : h = ReadPage
  BY <1>4
<1>7. Serves(h, IF op = "init" THEN "Receiving" ELSE "Formatted")'
  BY <1>1, <1>4, <1>5, <1>6, PageNames DEF Serves, Current
<1>8. FirstFree(flash'[Other(h)]) <= EntriesPerBlock
  BY <1>4, <1>6, PageNames
<1>9. TransferAt'
  BY <1>5, <1>6, <1>7, <1>8 DEF TransferAt
<1>10. ASSUME NEW p \in RuntimePages PROVE OneBlock(flash'[p])
  <2>1. CASE p = ReadPage
    <3>1. StatusOf(flash'[p]) = "Valid"
      BY <1>4, <2>1, PageNames DEF Serves, Current
    <3> QED BY <3>1 DEF OneBlock
  <2> QED BY <1>2, <1>4, <2>1, PageNames
<1>11. EntryAt' /\ Current("Factory")'
  BY <1>1, <1>2, <1>4, <1>5, SameEntry, PageNames DEF WriteSteps, TransferSteps, Current
<1> QED BY <1>3, <1>4, <1>5, <1>9, <1>10, <1>11, AtTransfer DEF XferFlush

LEMMA XferReceivingOrderly ==
  ASSUME MaxFaults = 0, IndInv, Orderly, XferReceiving
  PROVE  /\ Orderly'
         /\ WritePageStatus(Other(oldPage), "Receiving") /\ pc' = "xfer_copy"
         /\ cursor' = 0 /\ UNCHANGED <<op, oldPage>>
<1> DEFINE new == Other(oldPage)
<1>1. pc = "xfer_receiving" /\ pc \in TransferSteps /\ pc \in WriteSteps
  BY DEF XferReceiving, TransferSteps, WriteSteps
<1>2. /\ HwaTyped /\ RamTyped /\ CleanPages /\ Current("Factory")
      /\ \A p \in RuntimePages : OneBlock(flash[p])
      /\ oldPage \in RuntimePages /\ new \in RuntimePages /\ new # oldPage
      /\ oldPage \in Pages /\ new \in Pages /\ Other(new) = oldPage
      /\ status[oldPage] = "Valid" /\ Current(oldPage)
      /\ FirstFree(flash[new]) <= EntriesPerBlock
  BY <1>1, TransferIs DEF StatusAt, TransferAt, Serves
<1>3. FirstFree(flash[new]) < PageSize /\ FirstFree(flash[new]) \in Nat
  BY <1>2, Room, FirstFreeNat
<1>4. ~WritePageStatusFails(new, "Receiving")
  BY <1>2, <1>3, RecordFits, PageNames
<1>5. /\ WritePageStatus(new, "Receiving") /\ next' = At(new, 0)
      /\ pc' = "xfer_copy" /\ cursor' = 0
      /\ UNCHANGED <<op, entry, flag, oldPage, result>>
  BY <1>4 DEF XferReceiving
<1>6. /\ CleanPages' /\ StatusOf(flash'[new]) = "Receiving"
      /\ FirstFree(flash'[new]) = FirstFree(flash[new]) + EntriesPerBlock
      /\ status'[new] = "Receiving" /\ ~block'.dirty
      /\ \A q \in Pages : q # new => flash'[q] = flash[q] /\ status'[q] = status[q]
  BY <1>2, <1>5, RecordWritten, PageNames
<1>7. PICK h \in RuntimePages : h = oldPage
  BY <1>2
<1>8. Serves(h, "Receiving")' /\ Current(Other(h))'
  BY <1>2, <1>6, <1>7 DEF Serves, Current
<1>9. TransferAt'
  BY <1>5, <1>7, <1>8 DEF TransferAt
<1>10. WritePage' = Other(h) /\ WriteOffset(WritePage)' = FirstFree(flash'[Other(h)])
  <2>1. WritePage' = Other(h)
    BY <1>8 DEF Serves, WritePage, WritePageIn, RuntimePages, Other
  <2> QED BY <1>5, <1>7, <2>1 DEF WriteOffset, At
<1>11. Staging'
  BY <1>6, <1>10 DEF Staging
<1>12. FirstFree(flash'[Other(h)]) <= 2 * EntriesPerBlock
  BY <1>2, <1>3, <1>6, <1>7, GeometryType
<1>13. WriteOffset(WritePage)' <= 2 * EntriesPerBlock + cursor' /\ cursor' <= MaxAddress
  BY <1>5, <1>10, <1>12, FirstFreeNat, GeometryType
<1>14. \A p \in RuntimePages : OneBlock(flash'[p])
  BY <1>2, <1>6, PageNames DEF OneBlock
<1>15. EntryAt' /\ Current("Factory")'
  BY <1>1, <1>2, <1>5, <1>6, SameEntry, PageNames DEF WriteSteps, TransferSteps, Current
<1> QED BY <1>5, <1>6, <1>9, <1>11, <1>13, <1>14, <1>15, AtTransfer

\* While the transfer copies, the page it copies to has room for the rest.
LEMMA CopyingIs ==
  ASSUME IndInv, Orderly, pc = "xfer_copy"
  PROVE  /\ HwaTyped /\ RamTyped /\ CleanPages /\ Current("Factory") /\ Staging
         /\ \A p \in RuntimePages : OneBlock(flash[p])
         /\ oldPage \in RuntimePages /\ WritePage = Other(oldPage)
         /\ WritePage \in RuntimePages /\ WritePage # NoPage
         /\ Serves(oldPage, "Receiving") /\ Current(WritePage)
         /\ StatusOf(flash[WritePage]) = "Receiving"
         /\ WriteOffset(WritePage) <= 2 * EntriesPerBlock + cursor
         /\ cursor <= MaxAddress /\ cursor \in Nat
         /\ FirstFree(flash[WritePage]) + EntriesPerBlock <= PageSize
         /\ block.dirty =>
              FirstFree(flash[WritePage]) + 2 * EntriesPerBlock <= PageSize
<1>1. pc \in TransferSteps
  BY DEF TransferSteps
<1>2. /\ HwaTyped /\ RamTyped /\ CleanPages /\ Current("Factory") /\ Staging
      /\ \A p \in RuntimePages : OneBlock(flash[p])
      /\ oldPage \in RuntimePages /\ Serves(oldPage, "Receiving")
      /\ Current(Other(oldPage))
      /\ WriteOffset(WritePage) <= 2 * EntriesPerBlock + cursor /\ cursor <= MaxAddress
  BY <1>1, TransferIs DEF StatusAt, TransferAt, StagedAt, StagingSteps
<1>3. WritePage = Other(oldPage)
  BY <1>2, ServingPages
<1>4. WritePage \in RuntimePages /\ WritePage # NoPage
  BY <1>2, <1>3, PageNames
<1>5. StatusOf(flash[WritePage]) = "Receiving"
  BY <1>2, <1>3 DEF Serves, Current
<1>6. cursor \in Nat
  BY GeometryType DEF IndInv, TypeOK, CallTyped
<1>7. FirstFree(flash[WritePage]) + EntriesPerBlock <= PageSize
  <2>1. FirstFree(flash[WritePage]) <= WriteOffset(WritePage)
        /\ WriteOffset(WritePage) \in Nat /\ FirstFree(flash[WritePage]) \in Nat
    BY <1>2, <1>4, StagedIs, FirstFreeNat DEF Slots
  <2> QED BY <1>2, <1>6, <2>1, Room
<1>8. ASSUME block.dirty
      PROVE  FirstFree(flash[WritePage]) + 2 * EntriesPerBlock <= PageSize
  <2> DEFINE free == FirstFree(flash[WritePage])
  <2>1. /\ WriteOffset(WritePage) = free + StagedCount /\ StagedCount = block.entries
        /\ block.entries \in 1 .. EntriesPerBlock - 1
        /\ free \in Nat /\ free \in BlockOffsets
    BY <1>2, <1>4, <1>8, StagedIs, FirstFreeNat, FirstFreeLeast
       DEF StagedCount, Staging, StagedFits
  <2> HIDE DEF free
  <2>2. free + EntriesPerBlock < PageSize /\ free < PageSize
    BY <1>2, <1>6, <2>1, Room
  <2>3. free + EntriesPerBlock \in BlockOffsets /\ PageSize \in BlockOffsets
    BY <2>1, <2>2, BlockOffsetsType
  <2>4. (free + EntriesPerBlock) + EntriesPerBlock <= PageSize
    BY <2>2, <2>3, BlocksApart
  <2> QED BY <2>1, <2>4, Room DEF free
<1> QED BY <1>2, <1>3, <1>4, <1>5, <1>6, <1>7, <1>8

LEMMA XferCopyOrderly ==
  ASSUME MaxFaults = 0, IndInv, Orderly, XferCopy
  PROVE  /\ Orderly'
         /\ AppendEntry(CopiedEntry) /\ cursor' = Least(ToCopy) + 1
         /\ UNCHANGED <<pc, op, oldPage>>
         /\ CopiedEntry \in Entries /\ CopiedEntry.address \in Addresses
<1>1. /\ pc = "xfer_copy" /\ pc \in WriteSteps /\ UNCHANGED status /\ ToCopy # {}
  BY DEF XferCopy, TransferSteps, WriteSteps
<1>2. /\ HwaTyped /\ RamTyped /\ CleanPages /\ Current("Factory") /\ Staging
      /\ \A p \in RuntimePages : OneBlock(flash[p])
      /\ oldPage \in RuntimePages /\ WritePage = Other(oldPage)
      /\ WritePage \in RuntimePages /\ WritePage # NoPage
      /\ Serves(oldPage, "Receiving") /\ Current(WritePage)
      /\ StatusOf(flash[WritePage]) = "Receiving"
      /\ WriteOffset(WritePage) <= 2 * EntriesPerBlock + cursor
      /\ cursor <= MaxAddress /\ cursor \in Nat
  BY <1>1, CopyingIs
<1> DEFINE a == Least(ToCopy)
<1>3. a \in Addresses /\ a >= cursor /\ a \in Nat /\ a < MaxAddress
  <2>1. ToCopy \subseteq Nat
    BY DEF ToCopy, Addresses
  <2>2. a \in ToCopy
    BY <1>1, <2>1, LeastExists
  <2> QED BY <2>2, GeometryType DEF ToCopy, Addresses
<1>4. CopiedEntry \in Entries /\ CopiedEntry.address \in Addresses
  BY <1>2, <1>3, GeometryType
     DEF CopiedEntry, Entry, Entries, RamTyped, RESERVED_STATUS_ADDRESS
<1> HIDE DEF a
<1>5. WriteOffset(WritePage) \in Nat /\ WriteOffset(WritePage) < PageSize
  <2>1. WriteOffset(WritePage) \in Nat
    BY <1>2, WriteOffsetType
  <2> QED BY <1>2, <1>3, <2>1, Room
<1>6. ~AppendEntryFails(CopiedEntry)
  BY <1>2, <1>4, AppendNeverFails
<1>7. \A res : ~NoRoom(res)
  BY <1>2, <1>5 DEF NoRoom, HasRoom
<1>8. /\ AppendEntry(CopiedEntry) /\ cursor' = a + 1
      /\ UNCHANGED <<pc, op, entry, flag, oldPage, result>>
  BY <1>6, <1>7 DEF XferCopy, a
<1>9. /\ CleanPages' /\ Staging' /\ WritePage' = WritePage
      /\ \A q \in Pages : StatusOf(flash'[q]) = StatusOf(flash[q])
      /\ \A q \in Pages : q # WritePage => flash'[q] = flash[q]
      /\ WriteOffset(WritePage)' = WriteOffset(WritePage) + 1
  BY <1>1, <1>2, <1>4, <1>8, Appended
<1>10. \A p \in Pages : Current(p) => Current(p)'
  BY <1>1, <1>9 DEF Current
<1>11. PICK h \in RuntimePages : h = oldPage
  BY <1>2
<1>12. Serves(h, "Receiving")' /\ Current(Other(h))'
  BY <1>1, <1>2, <1>10, <1>11, PageNames DEF Serves
<1>13. TransferAt'
  BY <1>1, <1>8, <1>11, <1>12 DEF TransferAt
<1>14. WriteOffset(WritePage)' <= 2 * EntriesPerBlock + cursor' /\ cursor' <= MaxAddress
  BY <1>2, <1>3, <1>5, <1>8, <1>9, GeometryType
<1>15. \A p \in RuntimePages : OneBlock(flash'[p])
  BY <1>2, <1>9, PageNames DEF OneBlock
<1>16. EntryAt' /\ Current("Factory")'
  BY <1>1, <1>2, <1>8, <1>10, SameEntry, PageNames
<1> QED BY <1>1, <1>4, <1>8, <1>9, <1>13, <1>14, <1>15, <1>16, AtTransfer DEF a

LEMMA XferCopiedOrderly ==
  ASSUME MaxFaults = 0, IndInv, Orderly, XferCopied
  PROVE  /\ Orderly'
         /\ FlushBlock /\ pc' = "xfer_erase" /\ UNCHANGED <<op, oldPage>>
<1>1. /\ pc = "xfer_copy" /\ pc \in WriteSteps /\ UNCHANGED status
  BY DEF XferCopied, TransferSteps, WriteSteps
<1>2. /\ HwaTyped /\ RamTyped /\ CleanPages /\ Current("Factory") /\ Staging
      /\ \A p \in RuntimePages : OneBlock(flash[p])
      /\ oldPage \in RuntimePages /\ WritePage = Other(oldPage)
      /\ WritePage \in RuntimePages
      /\ Serves(oldPage, "Receiving") /\ Current(WritePage)
      /\ StatusOf(flash[WritePage]) = "Receiving"
      /\ FirstFree(flash[WritePage]) + EntriesPerBlock <= PageSize
      /\ block.dirty => FirstFree(flash[WritePage]) + 2 * EntriesPerBlock <= PageSize
  BY <1>1, CopyingIs
<1>3. ~FlushBlockFails
  BY <1>2, FlushNeverFails
<1>4. FlushBlock /\ pc' = "xfer_erase" /\ UNCHANGED <<op, entry, flag, oldPage, result>>
  BY <1>3 DEF XferCopied
<1>5. /\ CleanPages'
      /\ \A q \in Pages : StatusOf(flash'[q]) = StatusOf(flash[q])
      /\ \A q \in Pages : q # WritePage => flash'[q] = flash[q]
      /\ IF block.dirty
         THEN FirstFree(flash'[WritePage]) = FirstFree(flash[WritePage]) + EntriesPerBlock
         ELSE flash' = flash
  BY <1>1, <1>2, <1>4, Flushed
<1>6. FirstFree(flash'[WritePage]) + EntriesPerBlock <= PageSize
  BY <1>2, <1>5, FirstFreeNat, GeometryType
<1>7. \A p \in Pages : Current(p) => Current(p)'
  BY <1>1, <1>5 DEF Current
<1>8. PICK h \in RuntimePages : h = oldPage
  BY <1>2
<1>9. Serves(h, "Receiving")' /\ Current(Other(h))'
  BY <1>1, <1>2, <1>7, <1>8, PageNames DEF Serves
<1>10. TransferAt'
  BY <1>2, <1>4, <1>6, <1>8, <1>9 DEF TransferAt
<1>11. \A p \in RuntimePages : OneBlock(flash'[p])
  BY <1>2, <1>5, PageNames DEF OneBlock
<1>12. EntryAt' /\ Current("Factory")'
  BY <1>1, <1>2, <1>4, <1>7, SameEntry, PageNames DEF WriteSteps, TransferSteps
<1> QED BY <1>4, <1>5, <1>10, <1>11, <1>12, AtTransfer

LEMMA XferEraseOrderly ==
  ASSUME MaxFaults = 0, IndInv, Orderly, XferErase
  PROVE  /\ Orderly'
         /\ Erase(oldPage) /\ pc' = "xfer_formatted" /\ UNCHANGED <<op, oldPage>>
<1>1. pc = "xfer_erase" /\ pc \in TransferSteps /\ pc \in WriteSteps /\ UNCHANGED status
  BY DEF XferErase, ram, TransferSteps, WriteSteps
<1>2. /\ HwaTyped /\ RamTyped /\ CleanPages /\ Current("Factory")
      /\ \A p \in RuntimePages : OneBlock(flash[p])
      /\ oldPage \in RuntimePages /\ Other(oldPage) \in Pages /\ Other(oldPage) # oldPage
      /\ oldPage \in Pages
      /\ status[Other(oldPage)] = "Receiving" /\ Current(Other(oldPage))
      /\ FirstFree(flash[Other(oldPage)]) + EntriesPerBlock <= PageSize
  BY <1>1, TransferIs DEF StatusAt, TransferAt, Serves
<1>3. Erase(oldPage) /\ pc' = "xfer_formatted" /\ UNCHANGED <<locals, result>>
  BY <1>2, NeverFaulty DEF XferErase
<1>4. /\ CleanPages' /\ flash'[oldPage] = ErasedLog
      /\ \A q \in Pages : q # oldPage => flash'[q] = flash[q]
  BY <1>2, <1>3, PageErased
<1>5. PICK h \in RuntimePages : h = oldPage
  BY <1>2
<1>6. oldPage' = oldPage /\ op' = op /\ entry' = entry
  BY <1>3 DEF locals
<1>7. /\ status'[Other(h)] = "Receiving" /\ Current(Other(h))' /\ IsBlank(h)'
      /\ FirstFree(flash'[Other(h)]) + EntriesPerBlock <= PageSize
  BY <1>1, <1>2, <1>4, <1>5 DEF Current, IsBlank
<1>8. TransferAt'
  BY <1>3, <1>5, <1>6, <1>7 DEF TransferAt
<1>9. \A p \in RuntimePages : OneBlock(flash'[p])
  BY <1>2, <1>4, ErasedIsClean, PageNames
<1>10. EntryAt' /\ Current("Factory")'
  BY <1>1, <1>2, <1>3, <1>4, <1>6, SameEntry, PageNames
     DEF WriteSteps, TransferSteps, Current
<1> QED BY <1>3, <1>4, <1>6, <1>8, <1>9, <1>10, AtTransfer

LEMMA XferFormattedOrderly ==
  ASSUME MaxFaults = 0, IndInv, Orderly, XferFormatted
  PROVE  /\ Orderly'
         /\ WritePageStatus(oldPage, "Formatted") /\ pc' = "xfer_valid"
         /\ UNCHANGED <<op, oldPage>>
<1>1. pc = "xfer_formatted" /\ pc \in TransferSteps /\ pc \in WriteSteps
  BY DEF XferFormatted, XferStatus, TransferSteps, WriteSteps
<1>2. /\ HwaTyped /\ RamTyped /\ CleanPages /\ Current("Factory")
      /\ \A p \in RuntimePages : OneBlock(flash[p])
      /\ oldPage \in RuntimePages /\ Other(oldPage) \in Pages /\ Other(oldPage) # oldPage
      /\ oldPage \in Pages /\ IsBlank(oldPage)
      /\ status[Other(oldPage)] = "Receiving" /\ Current(Other(oldPage))
      /\ FirstFree(flash[Other(oldPage)]) + EntriesPerBlock <= PageSize
  BY <1>1, TransferIs DEF StatusAt, TransferAt
<1>3. FirstFree(flash[oldPage]) = 0 /\ FirstFree(flash[oldPage]) # PageSize
  BY <1>2, ErasedIsClean, Room DEF IsBlank
<1>4. ~WritePageStatusFails(oldPage, "Formatted")
  BY <1>2, <1>3, RecordFits, PageNames
<1>5. /\ WritePageStatus(oldPage, "Formatted") /\ pc' = "xfer_valid"
      /\ UNCHANGED <<locals, result>>
  BY <1>4 DEF XferFormatted, XferStatus
<1>6. /\ CleanPages' /\ StatusOf(flash'[oldPage]) = "Formatted"
      /\ FirstFree(flash'[oldPage]) = EntriesPerBlock
      /\ status'[oldPage] = "Formatted"
      /\ \A q \in Pages : q # oldPage => flash'[q] = flash[q] /\ status'[q] = status[q]
  BY <1>2, <1>3, <1>5, RecordWritten, PageNames, GeometryType
<1>7. PICK h \in RuntimePages : h = oldPage
  BY <1>2
<1>8. oldPage' = oldPage /\ op' = op /\ entry' = entry
  BY <1>5 DEF locals
<1>9. /\ status'[Other(h)] = "Receiving" /\ Current(Other(h))'
      /\ status'[h] = "Formatted" /\ Current(h)'
      /\ FirstFree(flash'[Other(h)]) + EntriesPerBlock <= PageSize
  BY <1>2, <1>6, <1>7 DEF Current
<1>10. TransferAt'
  BY <1>5, <1>7, <1>8, <1>9 DEF TransferAt
<1>11. \A p \in RuntimePages : OneBlock(flash'[p])
  BY <1>2, <1>6, PageNames, GeometryType DEF OneBlock
<1>12. EntryAt' /\ Current("Factory")'
  BY <1>1, <1>2, <1>5, <1>6, <1>8, SameEntry, PageNames
     DEF WriteSteps, TransferSteps, Current
<1> QED BY <1>5, <1>6, <1>8, <1>10, <1>11, <1>12, AtTransfer

LEMMA XferValidOrderly ==
  ASSUME MaxFaults = 0, IndInv, Orderly, XferValid
  PROVE  /\ Orderly'
         /\ WritePageStatus(Other(oldPage), "Valid") /\ pc' = "xfer_reload"
         /\ UNCHANGED <<op, oldPage>>
<1> DEFINE new == Other(oldPage)
<1>1. pc = "xfer_valid" /\ pc \in TransferSteps /\ pc \in WriteSteps
  BY DEF XferValid, XferStatus, TransferSteps, WriteSteps
<1>2. /\ HwaTyped /\ RamTyped /\ CleanPages /\ Current("Factory")
      /\ \A p \in RuntimePages : OneBlock(flash[p])
      /\ oldPage \in RuntimePages /\ new \in RuntimePages /\ new # oldPage
      /\ oldPage \in Pages /\ new \in Pages /\ Other(new) = oldPage
      /\ status[oldPage] = "Formatted" /\ Current(oldPage)
      /\ FirstFree(flash[new]) + EntriesPerBlock <= PageSize
  BY <1>1, TransferIs DEF StatusAt, TransferAt
<1>3. FirstFree(flash[new]) # PageSize
  BY <1>2, FirstFreeNat, GeometryType
<1>4. ~WritePageStatusFails(new, "Valid")
  BY <1>2, <1>3, RecordFits, PageNames
<1>5. /\ WritePageStatus(new, "Valid") /\ pc' = "xfer_reload" /\ UNCHANGED <<locals, result>>
  BY <1>4 DEF XferValid, XferStatus
<1>6. /\ CleanPages' /\ StatusOf(flash'[new]) = "Valid" /\ status'[new] = "Valid"
      /\ \A q \in Pages : q # new => flash'[q] = flash[q] /\ status'[q] = status[q]
  BY <1>2, <1>5, RecordWritten, PageNames
<1>7. PICK h \in RuntimePages : h = new
  BY <1>2
<1>8. op' = op /\ entry' = entry
  BY <1>5 DEF locals
<1>9. Serves(h, "Formatted")' /\ Current(Other(h))'
  BY <1>2, <1>6, <1>7 DEF Serves, Current
<1>10. Home'
  BY <1>9 DEF Home
<1>11. HeaderPages'
  BY <1>2, <1>6, PageNames DEF OneBlock, HeaderPages
<1>12. EntryAt' /\ Current("Factory")'
  BY <1>1, <1>2, <1>5, <1>6, <1>8, SameEntry, PageNames
     DEF WriteSteps, TransferSteps, Current
<1>13. StatusAt'
  BY <1>5, <1>10, <1>12 DEF StatusAt, TransferAt, RepairAt, FormatAt, FactoryAt, HomeSteps
<1>14. StagedAt'
  BY <1>5 DEF StagedAt, StagingSteps
<1> QED BY <1>5, <1>6, <1>11, <1>12, <1>13, <1>14 DEF Orderly, locals

\* cache() decodes the page that serves reads, and leaves the offset behind its
\* last record.
LEMMA Reloaded ==
  ASSUME CleanPages, ReadPage \in RuntimePages
  PROVE  /\ ~ReloadFails
         /\ Reload => /\ UNCHANGED <<flash, status>> /\ ~block'.dirty
                      /\ WriteOffset(ReadPage)' = FirstFree(flash'[ReadPage])
<1>1. CleanLog(flash[ReadPage]) /\ ReadPage # NoPage
  BY PageNames DEF CleanPages
<1>2. Decodes(flash[ReadPage])
  BY <1>1, FirstFreeType DEF CleanLog, NoForeign, Decodes, Foreign
<1>3. ~ReloadFails
  BY <1>1, <1>2 DEF ReloadFails
<1>4. Reload => /\ UNCHANGED <<flash, status>> /\ ~block'.dirty
                /\ WriteOffset(ReadPage)' = FirstFree(flash'[ReadPage])
  <2> SUFFICES ASSUME Reload
               PROVE  /\ UNCHANGED <<flash, status>> /\ ~block'.dirty
                      /\ WriteOffset(ReadPage)' = FirstFree(flash'[ReadPage])
    OBVIOUS
  <2>1. /\ UNCHANGED <<flash, status>> /\ ~block'.dirty
        /\ next' = At(ReadPage, FirstFree(flash[ReadPage]))
    BY ErasedTypes DEF Reload
  <2>2. ReadPage' = ReadPage
    BY <2>1 DEF ReadPage
  <2> QED BY <2>1, <2>2 DEF WriteOffset, At
<1> QED BY <1>3, <1>4

LEMMA HomeReloaded ==
  ASSUME CleanPages, Home, Current("Factory"), \A p \in RuntimePages : OneBlock(flash[p]),
         Reload
  PROVE  /\ CleanPages' /\ Home' /\ Staging' /\ Current("Factory")'
         /\ \A p \in RuntimePages : OneBlock(flash'[p])
<1>1. ReadPage \in RuntimePages /\ WritePage = ReadPage
  BY HomeIs
<1>2. /\ UNCHANGED <<flash, status>> /\ ~block'.dirty
      /\ WriteOffset(ReadPage)' = FirstFree(flash'[ReadPage])
  BY <1>1, Reloaded
<1>3. ReadPage' = ReadPage /\ WritePage' = WritePage
  BY <1>2 DEF ReadPage, WritePage
<1>4. Staging'
  BY <1>1, <1>2, <1>3 DEF Staging
<1>5. CleanPages' /\ Home' /\ Current("Factory")'
  BY <1>2 DEF CleanPages, Home, Serves, Current
<1> QED BY <1>2, <1>4, <1>5

LEMMA XferReloadOrderly ==
  ASSUME IndInv, Orderly, XferReload
  PROVE  /\ Orderly'
         /\ Reload /\ ~ReloadFails
<1>1. pc = "xfer_reload" /\ pc \in TransferSteps /\ pc \in WriteSteps
  BY DEF XferReload, TransferSteps, WriteSteps
<1>2. /\ CleanPages /\ Current("Factory") /\ Home
      /\ \A p \in RuntimePages : OneBlock(flash[p])
  BY <1>1, TransferIs DEF StatusAt, HomeSteps
<1>3. Reload
  BY <1>2, HomeIs, Reloaded DEF XferReload
<1>4. /\ CleanPages' /\ Home' /\ Staging' /\ Current("Factory")'
      /\ \A p \in RuntimePages : OneBlock(flash'[p])
  BY <1>2, <1>3, HomeReloaded
<1>5. ~ReloadFails
  BY <1>2, HomeIs, Reloaded
<1>6. ASSUME Return("Ok") PROVE Orderly'
  BY <1>4, <1>6, CallEnds, AtHome
<1>7. ASSUME op = "write", pc' = "write_again", UNCHANGED <<locals, result>>
      PROVE  Orderly'
  <2>1. EntryAt'
    BY <1>1, <1>7, SameEntry DEF WriteSteps, locals
  <2> QED BY <1>4, <1>7, <2>1, AtHome
<1>8. ASSUME op \in {"flush", "store_to_factory"}, pc' = "flush_block",
             UNCHANGED <<locals, result>>
      PROVE  Orderly'
  <2>1. EntryAt'
    BY <1>8 DEF EntryAt, WriteSteps, TransferSteps, locals
  <2> QED BY <1>4, <1>8, <2>1, AtHome
<1> QED BY <1>3, <1>5, <1>6, <1>7, <1>8 DEF XferReload

LEMMA TransfersOrderly ==
  ASSUME MaxFaults = 0, IndInv, Orderly, TransferStep
  PROVE  Orderly'
BY XferFlushOrderly, XferReceivingOrderly, XferCopyOrderly, XferCopiedOrderly,
   XferEraseOrderly, XferFormattedOrderly, XferValidOrderly, XferReloadOrderly
   DEF TransferStep
-----------------------------------------------------------------------------
(* flush(), store_to_factory() and restore_from_factory().                   *)

LEMMA FlushPendingOrderly ==
  ASSUME MaxFaults = 0, IndInv, Orderly, FlushPending
  PROVE  /\ Orderly'
         /\ FlushBlock
<1>1. pc = "flush_block" /\ UNCHANGED status
  BY DEF FlushPending
<1>2. /\ CleanPages /\ HeaderPages /\ Home /\ Staging /\ Current("Factory")
      /\ WritePage \in RuntimePages /\ WritePage = ReadPage
  BY <1>1, IdleIs
<1>3. HwaTyped /\ RamTyped
  BY DEF IndInv, TypeOK
<1>4. FlushBlock
  BY <1>2, <1>3, FlushNeverFails DEF FlushPending
<1>5. /\ CleanPages' /\ Staging'
      /\ \A q \in Pages : StatusOf(flash'[q]) = StatusOf(flash[q])
      /\ \A q \in Pages : q # ReadPage => flash'[q] = flash[q]
  BY <1>1, <1>2, <1>3, <1>4, Flushed
<1>6. Home' /\ Current("Factory")' /\ \A p \in RuntimePages : OneBlock(flash'[p])
  BY <1>1, <1>2, <1>5, HomeStays, PageNames
<1>7. ASSUME \E res \in {"Ok", "Error"} : Return(res) PROVE Orderly'
  BY <1>5, <1>6, <1>7, CallEnds, AtHome
<1>8. ASSUME pc' = "store_erase", UNCHANGED <<locals, result>> PROVE Orderly'
  <2>1. EntryAt'
    BY <1>8 DEF EntryAt, WriteSteps, TransferSteps
  <2> QED BY <1>5, <1>6, <1>8, <2>1, AtHome
<1> QED BY <1>4, <1>7, <1>8 DEF FlushPending

\* The factory page is worked on while the runtime pages serve.
LEMMA FactoryKeepsHome ==
  ASSUME Home, HeaderPages, pc # "restore_copy",
         \A q \in RuntimePages : flash'[q] = flash[q] /\ status'[q] = status[q],
         next' = next, block' = block, Staging
  PROVE  /\ Home' /\ HeaderPages' /\ Staging' /\ ReadPage' = ReadPage
         /\ \A p \in RuntimePages : OneBlock(flash'[p])
<1>1. ReadPage' = ReadPage /\ WritePage' = WritePage
  BY PageNames DEF ReadPage, WritePage, WritePageIn
<1>2. Home'
  <2>1. PICK h \in RuntimePages : Serves(h, "Formatted") /\ Current(Other(h))
    BY DEF Home
  <2>2. Serves(h, "Formatted")' /\ Current(Other(h))'
    BY <2>1, PageNames DEF Serves, Current
  <2> QED BY <2>2 DEF Home
<1>3. \A p \in RuntimePages : OneBlock(flash'[p])
  BY DEF HeaderPages
<1>4. HeaderPages'
  BY <1>3 DEF HeaderPages
<1>5. WritePage \in RuntimePages /\ flash'[WritePage] = flash[WritePage]
  BY HomeIs
<1>6. Staging'
  <2>1. WriteOffset(WritePage)' = WriteOffset(WritePage)
    BY <1>1, <1>5 DEF WriteOffset
  <2>2. StagedFits => StagedFits'
    BY <1>1, <1>5 DEF StagedFits
  <2> QED BY <1>1, <1>5, <2>1, <2>2 DEF Staging
<1> QED BY <1>1, <1>2, <1>3, <1>4, <1>6

LEMMA StoreEraseOrderly ==
  ASSUME MaxFaults = 0, IndInv, Orderly, StoreErase
  PROVE  /\ Orderly'
         /\ Erase("Factory") /\ pc' = "store_copy"
<1>1. pc = "store_erase" /\ UNCHANGED <<next, block>>
  BY DEF StoreErase
<1>2. /\ CleanPages /\ HeaderPages /\ Home /\ Staging
      /\ ReadPage \in RuntimePages /\ ReadPage # NoPage
  BY <1>1, IdleIs, HomeIs
<1>3. HwaTyped /\ RamTyped
  BY DEF IndInv, TypeOK
<1>4. /\ Erase("Factory") /\ status' = [status EXCEPT !["Factory"] = ERASED]
      /\ pc' = "store_copy" /\ cursor' = 0
  BY <1>2, <1>3, NeverFaulty DEF StoreErase
<1>5. /\ CleanPages' /\ flash'["Factory"] = ErasedLog
      /\ \A q \in Pages : q # "Factory" => flash'[q] = flash[q]
  BY <1>2, <1>3, <1>4, PageErased, PageNames
<1>6. \A q \in RuntimePages : flash'[q] = flash[q] /\ status'[q] = status[q]
  BY <1>3, <1>4, <1>5, PageNames DEF RamTyped
<1>7. Home' /\ HeaderPages' /\ Staging'
  BY <1>1, <1>2, <1>6, FactoryKeepsHome
<1>8. FactoryAt'
  BY <1>4, <1>5, EmptyPrefix, FirstFreeNat DEF FactoryAt
<1>9. StatusAt'
  BY <1>4, <1>7, <1>8 DEF StatusAt, TransferAt, RepairAt, FormatAt
<1>10. StagedAt' /\ EntryAt'
  BY <1>4, <1>7 DEF StagedAt, EntryAt, WriteSteps, TransferSteps
<1> QED BY <1>4, <1>5, <1>7, <1>9, <1>10 DEF Orderly

\* One round of a copying loop whose target holds what was copied before.
LEMMA Copied ==
  ASSUME MaxFaults = 0, HwaTyped, CleanPages, NEW from \in Pages, NEW to \in Pages,
         from # to, cursor \in BlockOffsets, cursor <= FirstFree(flash[from]),
         flash[to] = Prefix(flash[from], cursor), CopyBlock(from, to)
  PROVE  /\ CleanPages' /\ UNCHANGED <<pc, op, entry, flag, oldPage, result>>
         /\ cursor' <= FirstFree(flash[from])
         /\ flash'[to] = Prefix(flash[from], cursor')
         /\ \A q \in Pages : q # to => flash'[q] = flash[q]
<1> DEFINE data == [i \in Slots |-> flash[from][cursor + i]]
<1>1. flash[from] \in Logs /\ CleanLog(flash[from])
  BY DEF HwaTyped, CleanPages
<1>2. cursor < FirstFree(flash[from])
  <2>1. cursor \in Nat /\ FirstFree(flash[from]) \in Nat
    BY FirstFreeNat, BlockOffsetsType
  <2>2. cursor # FirstFree(flash[from])
    BY CopyDoneIs DEF CopyBlock
  <2> QED BY <2>1, <2>2
<1>3. /\ cursor + EntriesPerBlock \in BlockOffsets
      /\ cursor + EntriesPerBlock <= FirstFree(flash[from])
      /\ \A i \in Slots : flash[to][cursor + i] = Blank
      /\ Programmed(flash[to], cursor, data) = Prefix(flash[from], cursor + EntriesPerBlock)
  BY <1>1, <1>2, CopiedBlock
<1>4. Accepts(to, cursor, data)
  BY <1>3 DEF Accepts
<1>5. ~Refuses(to, cursor, data)
  BY <1>4, NeverFaulty DEF Refuses
<1>6. Program(to, cursor, data) /\ cursor' = cursor + EntriesPerBlock
      /\ UNCHANGED <<pc, op, entry, flag, oldPage, result>>
  BY <1>5 DEF CopyBlock
<1> HIDE DEF data
<1>7. /\ flash'[to] = Prefix(flash[from], cursor + EntriesPerBlock)
      /\ \A q \in Pages : q # to => flash'[q] = flash[q]
  BY <1>3, <1>6 DEF Program, HwaTyped
<1>8. CleanPages'
  BY <1>1, <1>3, <1>7, PrefixLog DEF CleanPages
<1> QED BY <1>3, <1>6, <1>7, <1>8

LEMMA StoreCopyOrderly ==
  ASSUME MaxFaults = 0, IndInv, Orderly, StoreCopy
  PROVE  /\ Orderly'
         /\ UNCHANGED <<pc, op>>
         /\ \A q \in Pages : q # "Factory" => flash'[q] = flash[q]
<1>1. pc = "store_copy" /\ UNCHANGED <<next, block, status>> /\ CopyBlock(ReadPage, "Factory")
  BY DEF StoreCopy, ram
<1>2. /\ CleanPages /\ HeaderPages /\ Home /\ Staging
      /\ cursor <= FirstFree(flash[ReadPage])
      /\ flash["Factory"] = Prefix(flash[ReadPage], cursor)
  BY <1>1 DEF Orderly, StatusAt, StagedAt, FactoryAt, HomeSteps, StagingSteps
<1>3. HwaTyped /\ RamTyped /\ cursor \in BlockOffsets
  BY <1>1 DEF IndInv, TypeOK
<1>4. ReadPage \in RuntimePages /\ ReadPage \in Pages /\ ReadPage # "Factory"
  BY <1>2, HomeIs, PageNames
<1>5. /\ CleanPages' /\ UNCHANGED <<pc, op, entry, flag, oldPage, result>>
      /\ cursor' <= FirstFree(flash[ReadPage])
      /\ flash'["Factory"] = Prefix(flash[ReadPage], cursor')
      /\ \A q \in Pages : q # "Factory" => flash'[q] = flash[q]
  BY <1>1, <1>2, <1>3, <1>4, Copied, PageNames
<1>6. Home' /\ HeaderPages' /\ Staging' /\ ReadPage' = ReadPage
  BY <1>1, <1>2, <1>5, FactoryKeepsHome, PageNames
<1>7. FactoryAt'
  BY <1>1, <1>4, <1>5, <1>6 DEF FactoryAt
<1>8. StatusAt'
  BY <1>1, <1>5, <1>6, <1>7 DEF StatusAt, TransferAt, RepairAt, FormatAt
<1>9. StagedAt' /\ EntryAt'
  BY <1>1, <1>5, <1>6 DEF StagedAt, EntryAt, WriteSteps, TransferSteps
<1> QED BY <1>5, <1>6, <1>8, <1>9 DEF Orderly

LEMMA StoreDoneOrderly ==
  ASSUME IndInv, Orderly, StoreDone
  PROVE  /\ Orderly'
         /\ flash["Factory"] = flash[ReadPage]
<1>1. /\ pc = "store_copy" /\ UNCHANGED <<flash, next, block>> /\ CopyDone(ReadPage)
      /\ status' = [status EXCEPT !["Factory"] = status[ReadPage]] /\ Return("Ok")
  BY DEF StoreDone
<1>2. /\ CleanPages /\ HeaderPages /\ Home /\ Staging
      /\ cursor <= FirstFree(flash[ReadPage])
      /\ flash["Factory"] = Prefix(flash[ReadPage], cursor)
  BY <1>1 DEF Orderly, StatusAt, StagedAt, FactoryAt, HomeSteps, StagingSteps
<1>3. HwaTyped /\ RamTyped /\ cursor \in BlockOffsets
  BY <1>1 DEF IndInv, TypeOK
<1>4. ReadPage \in RuntimePages /\ ReadPage \in Pages /\ Current(ReadPage)
  BY <1>2, HomeIs, PageNames DEF Serves
<1>5. flash["Factory"] = flash[ReadPage]
  <2>1. cursor = FirstFree(flash[ReadPage])
    BY <1>1, <1>2, <1>3, CopyDoneIs
  <2>2. flash[ReadPage] \in Logs /\ Packed(flash[ReadPage])
    BY <1>2, <1>3, <1>4 DEF CleanPages, CleanLog, HwaTyped
  <2> QED BY <1>2, <2>1, <2>2, WholePrefix
<1>6. Current("Factory")' /\ CleanPages'
  BY <1>1, <1>2, <1>3, <1>4, <1>5, PageNames DEF Current, RamTyped, CleanPages
<1>7. \A q \in RuntimePages : flash'[q] = flash[q] /\ status'[q] = status[q]
  BY <1>1, <1>3, PageNames DEF RamTyped
<1>8. Home' /\ Staging' /\ \A p \in RuntimePages : OneBlock(flash'[p])
  BY <1>1, <1>2, <1>7, FactoryKeepsHome
<1> QED BY <1>1, <1>5, <1>6, <1>8, CallEnds, AtHome

\* Every step of format() and restore_from_factory() up to the last cache().
LEMMA AtFormat ==
  ASSUME CleanPages', HeaderPages', Current("Factory")', FormatAt', FactoryAt',
         pc' \in {"format_erase2", "format_erase_factory", "format_valid",
                  "format_formatted", "restore_erase2", "restore_copy",
                  "restore_formatted"}
  PROVE  Orderly'
<1>1. StatusAt'
  BY DEF StatusAt, TransferAt, RepairAt, HomeSteps
<1>2. StagedAt' /\ EntryAt'
  BY DEF StagedAt, StagingSteps, EntryAt, WriteSteps, TransferSteps
<1> QED BY <1>1, <1>2 DEF Orderly

\* What format() and restore_from_factory() find and keep.
LEMMA FormatIs ==
  ASSUME IndInv, Orderly, pc \notin {"off", "store_copy"}
  PROVE  /\ HwaTyped /\ RamTyped /\ CleanPages /\ HeaderPages /\ Current("Factory")
         /\ FormatAt /\ FactoryAt
BY DEF IndInv, TypeOK, Orderly, StatusAt, FactoryAt

LEMMA EraseStepIs ==
  ASSUME MaxFaults = 0, HwaTyped, RamTyped, CleanPages, NEW p \in Pages,
         NEW from, NEW to, EraseStep(from, p, to)
  PROVE  /\ pc = from /\ pc' = to /\ UNCHANGED <<locals, result>>
         /\ CleanPages' /\ flash'[p] = ErasedLog /\ status'[p] = ERASED
         /\ \A q \in Pages : q # p => flash'[q] = flash[q] /\ status'[q] = status[q]
<1>1. /\ Erase(p) /\ status' = [status EXCEPT ![p] = ERASED]
      /\ pc = from /\ pc' = to /\ UNCHANGED <<locals, result>>
  BY NeverFaulty DEF EraseStep
<1>2. /\ CleanPages' /\ flash'[p] = ErasedLog
      /\ \A q \in Pages : q # p => flash'[q] = flash[q]
  BY <1>1, PageErased
<1> QED BY <1>1, <1>2 DEF RamTyped

LEMMA RestoreErase1Orderly ==
  ASSUME MaxFaults = 0, IndInv, Orderly, RestoreErase1
  PROVE  Orderly'
<1>1. EraseStep("restore_erase1", "Page1", "restore_erase2") /\ pc = "restore_erase1"
  BY DEF RestoreErase1, EraseStep
<1>2. /\ HwaTyped /\ RamTyped /\ CleanPages /\ HeaderPages /\ Current("Factory") /\ FactoryAt
  BY <1>1, FormatIs
<1>3. /\ pc' = "restore_erase2" /\ CleanPages' /\ flash'["Page1"] = ErasedLog
      /\ status'["Page1"] = ERASED
      /\ \A q \in Pages : q # "Page1" => flash'[q] = flash[q] /\ status'[q] = status[q]
  BY <1>1, <1>2, EraseStepIs, PageNames
<1>4. HeaderPages'
  BY <1>1, <1>2, <1>3, ErasedIsClean, PageNames DEF HeaderPages
<1>5. FirstFree(flash'["Factory"]) < PageSize /\ Current("Factory")'
  BY <1>1, <1>2, <1>3, PageNames DEF FactoryAt, Current
<1>6. FormatAt' /\ FactoryAt'
  BY <1>3, <1>5 DEF FormatAt, FactoryAt, IsBlank
<1> QED BY <1>3, <1>4, <1>5, <1>6, AtFormat

LEMMA RestoreErase2Orderly ==
  ASSUME MaxFaults = 0, IndInv, Orderly, RestoreErase2
  PROVE  /\ Orderly'
         /\ Erase("Page2") /\ pc' = "restore_copy" /\ UNCHANGED <<op, block>>
         /\ cache' = ErasedCache
<1>1. pc = "restore_erase2"
  BY DEF RestoreErase2
<1>2. /\ HwaTyped /\ RamTyped /\ CleanPages /\ HeaderPages /\ Current("Factory")
      /\ FirstFree(flash["Factory"]) < PageSize
      /\ flash["Page1"] = ErasedLog /\ status["Page1"] = ERASED
  BY <1>1, FormatIs DEF FactoryAt, FormatAt, IsBlank
<1>3. /\ Erase("Page2") /\ status' = [status EXCEPT !["Page2"] = ERASED]
      /\ pc' = "restore_copy" /\ cursor' = 0
      /\ cache' = ErasedCache /\ UNCHANGED <<op, block>>
  BY <1>2, NeverFaulty DEF RestoreErase2
<1>4. /\ CleanPages' /\ flash'["Page2"] = ErasedLog
      /\ \A q \in Pages : q # "Page2" => flash'[q] = flash[q]
  BY <1>2, <1>3, PageErased, PageNames
<1>5. status'["Page2"] = ERASED /\ \A q \in Pages : q # "Page2" => status'[q] = status[q]
  BY <1>2, <1>3, PageNames DEF RamTyped
<1>6. HeaderPages'
  BY <1>3, <1>4, ErasedIsClean, PageNames DEF HeaderPages
<1>7. FirstFree(flash'["Factory"]) < PageSize /\ Current("Factory")'
  BY <1>2, <1>4, <1>5, PageNames DEF Current
<1>8. flash'["Page1"] = Prefix(flash'["Factory"], cursor')
      /\ cursor' <= FirstFree(flash'["Factory"])
  BY <1>2, <1>3, <1>4, EmptyPrefix, FirstFreeNat, PageNames
<1>9. FormatAt' /\ FactoryAt'
  BY <1>2, <1>3, <1>4, <1>5, <1>7, <1>8, PageNames DEF FormatAt, FactoryAt, IsBlank
<1> QED BY <1>2, <1>3, <1>4, <1>6, <1>7, <1>9, AtFormat

LEMMA RestoreCopyOrderly ==
  ASSUME MaxFaults = 0, IndInv, Orderly, RestoreCopy
  PROVE  /\ Orderly'
         /\ UNCHANGED <<pc, op>>
         /\ \A q \in Pages : q # "Page1" => flash'[q] = flash[q]
<1>1. pc = "restore_copy" /\ UNCHANGED status /\ CopyBlock("Factory", "Page1")
  BY DEF RestoreCopy, ram
<1>2. /\ HwaTyped /\ RamTyped /\ CleanPages /\ HeaderPages /\ Current("Factory")
      /\ FirstFree(flash["Factory"]) < PageSize
      /\ cursor <= FirstFree(flash["Factory"])
      /\ flash["Page1"] = Prefix(flash["Factory"], cursor)
      /\ flash["Page2"] = ErasedLog /\ status["Page1"] = ERASED /\ status["Page2"] = ERASED
  BY <1>1, FormatIs DEF FactoryAt, FormatAt, IsBlank
<1>3. cursor \in BlockOffsets
  BY <1>1 DEF IndInv
<1>4. /\ CleanPages' /\ UNCHANGED <<pc, op, entry, flag, oldPage, result>>
      /\ cursor' <= FirstFree(flash["Factory"])
      /\ flash'["Page1"] = Prefix(flash["Factory"], cursor')
      /\ \A q \in Pages : q # "Page1" => flash'[q] = flash[q]
  BY <1>1, <1>2, <1>3, Copied, PageNames
<1>5. flash'["Factory"] = flash["Factory"] /\ flash'["Page2"] = flash["Page2"]
  BY <1>4, PageNames
<1>6. HeaderPages' /\ Current("Factory")'
  BY <1>1, <1>2, <1>4, <1>5, ErasedIsClean, PageNames DEF HeaderPages, Current
<1>7. FormatAt' /\ FactoryAt'
  BY <1>1, <1>2, <1>4, <1>5, <1>6 DEF FormatAt, FactoryAt, IsBlank
<1> QED BY <1>1, <1>4, <1>6, <1>7, AtFormat

\* A snapshot that is not full leaves its copy room for the Valid record.
LEMMA RestoreValidOrderly ==
  ASSUME MaxFaults = 0, IndInv, Orderly, RestoreValid
  PROVE  /\ Orderly'
         /\ WritePageStatus("Page1", "Valid") /\ pc' = "restore_formatted"
         /\ UNCHANGED op /\ flash["Page1"] = flash["Factory"]
<1>1. pc = "restore_copy" /\ CopyDone("Factory")
  BY DEF RestoreValid
<1>2. /\ HwaTyped /\ RamTyped /\ CleanPages /\ HeaderPages /\ Current("Factory")
      /\ FirstFree(flash["Factory"]) < PageSize
      /\ cursor <= FirstFree(flash["Factory"])
      /\ flash["Page1"] = Prefix(flash["Factory"], cursor)
      /\ flash["Page2"] = ErasedLog /\ status["Page1"] = ERASED /\ status["Page2"] = ERASED
  BY <1>1, FormatIs DEF FactoryAt, FormatAt, IsBlank
<1>3. cursor \in BlockOffsets
  BY <1>1 DEF IndInv
<1>4. /\ FirstFree(flash["Page1"]) < PageSize /\ FirstFree(flash["Page1"]) # PageSize
      /\ flash["Page1"] = flash["Factory"]
  <2>1. flash["Page1"] = flash["Factory"]
    <3>1. cursor = FirstFree(flash["Factory"])
      BY <1>1, <1>2, <1>3, CopyDoneIs
    <3>2. flash["Factory"] \in Logs /\ Packed(flash["Factory"])
      BY <1>2, PageNames DEF CleanPages, CleanLog, HwaTyped
    <3> QED BY <1>2, <3>1, <3>2, WholePrefix
  <2> QED BY <1>2, <2>1, FirstFreeNat, GeometryType
<1>5. ~WritePageStatusFails("Page1", "Valid")
  BY <1>2, <1>4, RecordFits, PageNames
<1>6. WritePageStatus("Page1", "Valid") /\ pc' = "restore_formatted" /\ UNCHANGED op
  BY <1>5 DEF RestoreValid
<1>7. /\ CleanPages' /\ StatusOf(flash'["Page1"]) = "Valid" /\ status'["Page1"] = "Valid"
      /\ \A q \in Pages : q # "Page1" => flash'[q] = flash[q] /\ status'[q] = status[q]
  BY <1>2, <1>6, RecordWritten, PageNames
<1>8. HeaderPages' /\ Current("Factory")' /\ Current("Page1")' /\ IsBlank("Page2")'
  BY <1>2, <1>7, ErasedIsClean, PageNames DEF HeaderPages, Current, IsBlank, OneBlock
<1>9. FormatAt' /\ FactoryAt'
  BY <1>6, <1>7, <1>8 DEF FormatAt, FactoryAt
<1> QED BY <1>4, <1>6, <1>7, <1>8, <1>9, AtFormat

\* The header of page 2 completes a format or a restore.
LEMMA SecondHeader ==
  ASSUME MaxFaults = 0, IndInv, Orderly, pc \in {"format_formatted", "restore_formatted"}
  PROVE  /\ ~WritePageStatusFails("Page2", "Formatted")
         /\ WritePageStatus("Page2", "Formatted") /\ next' = At("Page1", 0) =>
              /\ CleanPages' /\ Home' /\ Staging' /\ Current("Factory")'
              /\ \A p \in RuntimePages : OneBlock(flash'[p])
<1>1. /\ HwaTyped /\ RamTyped /\ CleanPages /\ HeaderPages /\ Current("Factory")
      /\ flash["Page2"] = ErasedLog
      /\ status["Page1"] = "Valid" /\ Current("Page1")
  BY FormatIs DEF FormatAt, IsBlank
<1>2. FirstFree(flash["Page2"]) = 0 /\ FirstFree(flash["Page2"]) # PageSize
  BY <1>1, ErasedIsClean, Room
<1>3. ~WritePageStatusFails("Page2", "Formatted")
  BY <1>1, <1>2, RecordFits, PageNames
<1>4. ASSUME WritePageStatus("Page2", "Formatted"), next' = At("Page1", 0)
      PROVE  /\ CleanPages' /\ Home' /\ Staging' /\ Current("Factory")'
             /\ \A p \in RuntimePages : OneBlock(flash'[p])
  <2>1. /\ CleanPages' /\ StatusOf(flash'["Page2"]) = "Formatted"
        /\ FirstFree(flash'["Page2"]) = EntriesPerBlock
        /\ status'["Page2"] = "Formatted" /\ ~block'.dirty
        /\ \A q \in Pages : q # "Page2" => flash'[q] = flash[q] /\ status'[q] = status[q]
    BY <1>1, <1>2, <1>4, RecordWritten, PageNames, GeometryType
  <2>2. Serves("Page1", "Formatted")' /\ Current(Other("Page1"))' /\ Current("Factory")'
    BY <1>1, <2>1, PageNames DEF Serves, Current
  <2>3. Home'
    BY <2>2, PageNames DEF Home
  <2>4. WritePage' = "Page1"
    BY <2>2, PageNames DEF Serves, WritePage, WritePageIn
  <2>5. Staging'
    BY <1>4, <2>1, <2>4 DEF Staging, WriteOffset, At
  <2>6. StatusOf(flash'["Page1"]) = "Valid"
    BY <2>2 DEF Serves, Current
  <2>7. \A p \in RuntimePages : OneBlock(flash'[p])
    <3>1. OneBlock(flash'["Page1"])
      BY <2>6 DEF OneBlock
    <3>2. OneBlock(flash'["Page2"])
      BY <2>1, GeometryType DEF OneBlock
    <3> QED BY <3>1, <3>2, PageNames
  <2> QED BY <2>1, <2>2, <2>3, <2>5, <2>7
<1> QED BY <1>3, <1>4

\* The last cache() of a call is reached with the store at home.
LEMMA AtReload ==
  ASSUME CleanPages', Home', Current("Factory")', pc' = "reload",
         \A p \in RuntimePages : OneBlock(flash'[p])
  PROVE  Orderly'
<1>1. HeaderPages'
  BY DEF HeaderPages
<1>2. StatusAt'
  BY DEF StatusAt, TransferAt, RepairAt, FormatAt, FactoryAt
<1>3. StagedAt' /\ EntryAt'
  BY DEF StagedAt, StagingSteps, EntryAt, WriteSteps, TransferSteps
<1> QED BY <1>1, <1>2, <1>3 DEF Orderly

LEMMA RestoreFormattedOrderly ==
  ASSUME MaxFaults = 0, IndInv, Orderly, RestoreFormatted
  PROVE  Orderly'
<1>1. pc = "restore_formatted"
  BY DEF RestoreFormatted
<1>2. WritePageStatus("Page2", "Formatted") /\ next' = At("Page1", 0) /\ pc' = "reload"
  BY <1>1, SecondHeader DEF RestoreFormatted
<1> QED BY <1>1, <1>2, SecondHeader, AtReload

LEMMA FactoryOrderly ==
  ASSUME MaxFaults = 0, IndInv, Orderly, FactoryStep
  PROVE  Orderly'
BY FlushPendingOrderly, StoreEraseOrderly, StoreCopyOrderly, StoreDoneOrderly,
   RestoreErase1Orderly, RestoreErase2Orderly, RestoreCopyOrderly, RestoreValidOrderly,
   RestoreFormattedOrderly DEF FactoryStep
-----------------------------------------------------------------------------
(* format(), init(), and the loss of power.                                  *)

LEMMA FormatErase1Orderly ==
  ASSUME MaxFaults = 0, IndInv, Orderly, FormatErase1
  PROVE  Orderly'
<1>1. EraseStep("format_erase1", "Page1", "format_erase2") /\ pc = "format_erase1"
  BY DEF FormatErase1, EraseStep
<1>2. /\ HwaTyped /\ RamTyped /\ CleanPages /\ HeaderPages /\ Current("Factory")
  BY <1>1, FormatIs
<1>3. /\ pc' = "format_erase2" /\ CleanPages' /\ flash'["Page1"] = ErasedLog
      /\ status'["Page1"] = ERASED
      /\ \A q \in Pages : q # "Page1" => flash'[q] = flash[q] /\ status'[q] = status[q]
  BY <1>1, <1>2, EraseStepIs, PageNames
<1>4. HeaderPages' /\ Current("Factory")'
  BY <1>1, <1>2, <1>3, ErasedIsClean, PageNames DEF HeaderPages, Current
<1>5. FormatAt' /\ FactoryAt'
  BY <1>3, <1>4 DEF FormatAt, FactoryAt, IsBlank
<1> QED BY <1>3, <1>4, <1>5, AtFormat

LEMMA FormatErase2Orderly ==
  ASSUME MaxFaults = 0, IndInv, Orderly, FormatErase2
  PROVE  Orderly'
<1>1. /\ pc = "format_erase2"
      /\ \E to \in {"format_erase_factory", "format_valid"} :
           EraseStep("format_erase2", "Page2", to)
  BY DEF FormatErase2, EraseStep
<1>2. /\ HwaTyped /\ RamTyped /\ CleanPages /\ HeaderPages /\ Current("Factory")
      /\ flash["Page1"] = ErasedLog /\ status["Page1"] = ERASED
  BY <1>1, FormatIs DEF FormatAt, IsBlank
<1>3. /\ pc' \in {"format_erase_factory", "format_valid"}
      /\ CleanPages' /\ flash'["Page2"] = ErasedLog /\ status'["Page2"] = ERASED
      /\ \A q \in Pages : q # "Page2" => flash'[q] = flash[q] /\ status'[q] = status[q]
  BY <1>1, <1>2, EraseStepIs, PageNames
<1>4. HeaderPages' /\ Current("Factory")'
  BY <1>1, <1>2, <1>3, ErasedIsClean, PageNames DEF HeaderPages, Current
<1>5. FormatAt' /\ FactoryAt'
  BY <1>2, <1>3, <1>4, PageNames DEF FormatAt, FactoryAt, IsBlank
<1> QED BY <1>3, <1>4, <1>5, AtFormat

LEMMA FormatEraseFactoryOrderly ==
  ASSUME MaxFaults = 0, IndInv, Orderly, FormatEraseFactory
  PROVE  Orderly'
<1>1. EraseStep("format_erase_factory", "Factory", "format_valid")
      /\ pc = "format_erase_factory"
  BY DEF FormatEraseFactory, EraseStep
<1>2. /\ HwaTyped /\ RamTyped /\ CleanPages /\ HeaderPages
      /\ flash["Page1"] = ErasedLog /\ status["Page1"] = ERASED
      /\ flash["Page2"] = ErasedLog /\ status["Page2"] = ERASED
  BY <1>1, FormatIs DEF FormatAt, IsBlank
<1>3. /\ pc' = "format_valid" /\ CleanPages'
      /\ flash'["Factory"] = ErasedLog /\ status'["Factory"] = ERASED
      /\ \A q \in Pages : q # "Factory" => flash'[q] = flash[q] /\ status'[q] = status[q]
  BY <1>1, <1>2, EraseStepIs, PageNames
<1>4. HeaderPages' /\ Current("Factory")'
  BY <1>1, <1>2, <1>3, ErasedIsClean, PageNames DEF HeaderPages, Current
<1>5. FormatAt' /\ FactoryAt'
  BY <1>2, <1>3, <1>4, PageNames DEF FormatAt, FactoryAt, IsBlank
<1> QED BY <1>3, <1>4, <1>5, AtFormat

LEMMA FormatValidOrderly ==
  ASSUME MaxFaults = 0, IndInv, Orderly, FormatValid
  PROVE  /\ Orderly'
         /\ WritePageStatus("Page1", "Valid") /\ pc' = "format_formatted"
         /\ UNCHANGED <<op, flag>>
<1>1. pc = "format_valid"
  BY DEF FormatValid
<1>2. /\ HwaTyped /\ RamTyped /\ CleanPages /\ HeaderPages /\ Current("Factory")
      /\ flash["Page1"] = ErasedLog /\ flash["Page2"] = ErasedLog
  BY <1>1, FormatIs DEF FormatAt, IsBlank
<1>3. FirstFree(flash["Page1"]) # PageSize
  BY <1>2, ErasedIsClean, Room
<1>4. ~WritePageStatusFails("Page1", "Valid")
  BY <1>2, <1>3, RecordFits, PageNames
<1>5. WritePageStatus("Page1", "Valid") /\ pc' = "format_formatted" /\ UNCHANGED <<op, flag>>
  BY <1>4 DEF FormatValid, locals
<1>6. /\ CleanPages' /\ StatusOf(flash'["Page1"]) = "Valid" /\ status'["Page1"] = "Valid"
      /\ \A q \in Pages : q # "Page1" => flash'[q] = flash[q] /\ status'[q] = status[q]
  BY <1>2, <1>5, RecordWritten, PageNames
<1>7. HeaderPages' /\ Current("Factory")' /\ Current("Page1")' /\ IsBlank("Page2")'
  BY <1>2, <1>6, ErasedIsClean, PageNames DEF HeaderPages, Current, IsBlank, OneBlock
<1>8. FormatAt' /\ FactoryAt'
  BY <1>5, <1>6, <1>7 DEF FormatAt, FactoryAt
<1> QED BY <1>5, <1>6, <1>7, <1>8, AtFormat

LEMMA FormatFormattedOrderly ==
  ASSUME MaxFaults = 0, IndInv, Orderly, FormatFormatted
  PROVE  Orderly'
<1>1. pc = "format_formatted"
  BY DEF FormatFormatted
<1>2. WritePageStatus("Page2", "Formatted") /\ next' = At("Page1", 0)
  BY <1>1, SecondHeader DEF FormatFormatted
<1>3. /\ CleanPages' /\ Home' /\ Staging' /\ Current("Factory")'
      /\ \A p \in RuntimePages : OneBlock(flash'[p])
  BY <1>1, <1>2, SecondHeader
<1>4. CASE pc' = "reload"
  BY <1>3, <1>4, AtReload
<1>5. CASE Return("Ok")
  BY <1>3, <1>5, CallEnds, AtHome
<1> QED BY <1>1, <1>4, <1>5, SecondHeader DEF FormatFormatted

LEMMA FormatsOrderly ==
  ASSUME MaxFaults = 0, IndInv, Orderly, FormatStep
  PROVE  Orderly'
BY FormatErase1Orderly, FormatErase2Orderly, FormatEraseFactoryOrderly,
   FormatValidOrderly, FormatFormattedOrderly DEF FormatStep

\* The page next to the Valid one is erased and keeps its cached status.
LEMMA RepairErased ==
  ASSUME MaxFaults = 0, IndInv, Orderly, NEW from, NEW to, RepairErase(from, to),
         from \in {"repair_erase", "resume_erase"}
  PROVE  /\ pc = from /\ pc' = to /\ op' = op
         /\ CleanPages' /\ Current("Factory")'
         /\ \A p \in RuntimePages : OneBlock(flash'[p])
         /\ LET s == IF from = "repair_erase" THEN ERASED ELSE "Receiving" IN
            \E h \in RuntimePages : Serves(h, s)' /\ IsBlank(Other(h))'
<1> DEFINE s == IF from = "repair_erase" THEN ERASED ELSE "Receiving"
<1>1. pc = from /\ UNCHANGED status
  BY DEF RepairErase, ram
<1>2. /\ HwaTyped /\ RamTyped /\ CleanPages /\ HeaderPages /\ Current("Factory")
      /\ \A p \in RuntimePages : OneBlock(flash[p])
  BY <1>1, FormatIs DEF HeaderPages
<1>3. PICK h \in RuntimePages : Serves(h, s)
  BY <1>1 DEF Orderly, StatusAt, RepairAt
<1>4. ReadPage = h
  BY <1>3, ServingPages
<1>5. Erase(Other(h)) /\ pc' = to /\ UNCHANGED <<locals, result>>
  BY <1>2, <1>4, NeverFaulty DEF RepairErase
<1>6. /\ CleanPages' /\ flash'[Other(h)] = ErasedLog
      /\ \A q \in Pages : q # Other(h) => flash'[q] = flash[q]
  BY <1>2, <1>3, <1>5, PageErased, PageNames
<1>7. Serves(h, s)' /\ IsBlank(Other(h))' /\ Current("Factory")'
  BY <1>1, <1>2, <1>3, <1>6, PageNames DEF Serves, Current, IsBlank
<1>8. \A p \in RuntimePages : OneBlock(flash'[p])
  BY <1>2, <1>3, <1>6, ErasedIsClean, PageNames
<1> QED BY <1>1, <1>3, <1>5, <1>6, <1>7, <1>8 DEF locals

\* Where the repairs of init() go on.
LEMMA AtRepair ==
  ASSUME CleanPages', Current("Factory")', \A p \in RuntimePages : OneBlock(flash'[p]),
         RepairAt', pc' \in {"repair_formatted", "resume_reload"}
  PROVE  Orderly'
<1>1. HeaderPages'
  BY DEF HeaderPages
<1>2. StatusAt'
  BY DEF StatusAt, TransferAt, FormatAt, FactoryAt, HomeSteps
<1>3. StagedAt' /\ EntryAt'
  BY DEF StagedAt, StagingSteps, EntryAt, WriteSteps, TransferSteps
<1> QED BY <1>1, <1>2, <1>3 DEF Orderly
LEMMA EraseUnusedOrderly ==
  ASSUME MaxFaults = 0, IndInv, Orderly, EraseUnused
  PROVE  Orderly'
<1>1. /\ pc' = "repair_formatted" /\ CleanPages' /\ Current("Factory")'
      /\ \A p \in RuntimePages : OneBlock(flash'[p])
      /\ \E h \in RuntimePages : Serves(h, ERASED)' /\ IsBlank(Other(h))'
  BY RepairErased DEF EraseUnused
<1>2. RepairAt'
  BY <1>1 DEF RepairAt
<1> QED BY <1>1, <1>2, AtRepair

LEMMA EraseReceivingOrderly ==
  ASSUME MaxFaults = 0, IndInv, Orderly, EraseReceiving
  PROVE  Orderly'
<1>1. /\ pc = "resume_erase" /\ pc' = "resume_reload" /\ op' = op
      /\ CleanPages' /\ Current("Factory")'
      /\ \A p \in RuntimePages : OneBlock(flash'[p])
      /\ \E h \in RuntimePages : Serves(h, "Receiving")' /\ IsBlank(Other(h))'
  BY RepairErased DEF EraseReceiving
<1>2. op' = "init"
  BY <1>1 DEF Orderly, StatusAt, RepairAt
<1>3. RepairAt'
  BY <1>1, <1>2 DEF RepairAt, Resumed
<1> QED BY <1>1, <1>3, AtRepair

LEMMA RepairFormattedOrderly ==
  ASSUME MaxFaults = 0, IndInv, Orderly, RepairFormatted
  PROVE  /\ Orderly'
         /\ WritePageStatus(Other(ReadPage), "Formatted") /\ pc' = "reload"
         /\ UNCHANGED op /\ ReadPage \in RuntimePages
<1>1. pc = "repair_formatted"
  BY DEF RepairFormatted
<1>2. /\ HwaTyped /\ RamTyped /\ CleanPages /\ HeaderPages /\ Current("Factory")
      /\ \A p \in RuntimePages : OneBlock(flash[p])
  BY <1>1, FormatIs DEF HeaderPages
<1>3. PICK h \in RuntimePages : Serves(h, ERASED) /\ IsBlank(Other(h))
  BY <1>1 DEF Orderly, StatusAt, RepairAt
<1>4. ReadPage = h /\ Other(h) \in RuntimePages
  BY <1>3, ServingPages, PageNames
<1>5. FirstFree(flash[Other(h)]) = 0 /\ FirstFree(flash[Other(h)]) # PageSize
  BY <1>3, ErasedIsClean, Room DEF IsBlank
<1>6. ~WritePageStatusFails(Other(h), "Formatted")
  BY <1>2, <1>4, <1>5, RecordFits, PageNames
<1>7. WritePageStatus(Other(h), "Formatted") /\ pc' = "reload" /\ UNCHANGED op
  BY <1>4, <1>6 DEF RepairFormatted, locals
<1>8. /\ CleanPages' /\ StatusOf(flash'[Other(h)]) = "Formatted"
      /\ FirstFree(flash'[Other(h)]) = EntriesPerBlock
      /\ status'[Other(h)] = "Formatted"
      /\ \A q \in Pages : q # Other(h) => flash'[q] = flash[q] /\ status'[q] = status[q]
  BY <1>2, <1>4, <1>5, <1>7, RecordWritten, PageNames, GeometryType
<1>9. Serves(h, "Formatted")' /\ Current(Other(h))' /\ Current("Factory")'
  BY <1>2, <1>3, <1>8, PageNames DEF Serves, Current
<1>10. Home'
  BY <1>9 DEF Home
<1>11. ASSUME NEW p \in RuntimePages PROVE OneBlock(flash'[p])
  <2>1. CASE p = Other(h)
    BY <1>8, <2>1, GeometryType DEF OneBlock
  <2> QED BY <1>2, <1>8, <2>1, PageNames
<1> QED BY <1>3, <1>4, <1>7, <1>8, <1>9, <1>10, <1>11, AtReload

LEMMA ResumeReloadOrderly ==
  ASSUME IndInv, Orderly, ResumeReload
  PROVE  /\ Orderly'
         /\ Reload /\ pc' = "xfer_flush" /\ UNCHANGED op
<1>1. pc = "resume_reload"
  BY DEF ResumeReload
<1>2. /\ CleanPages /\ HeaderPages /\ Current("Factory") /\ Resumed /\ op = "init"
  BY <1>1, FormatIs DEF Orderly, StatusAt, RepairAt
<1>3. PICK h \in RuntimePages : Serves(h, "Receiving") /\ IsBlank(Other(h))
  BY <1>2 DEF Resumed
<1>4. ReadPage = h
  BY <1>3, ServingPages
<1>5. /\ Reload /\ pc' = "xfer_flush" /\ op' = op
  BY <1>2, <1>4, Reloaded DEF ResumeReload, locals
<1>6. UNCHANGED <<flash, status>> /\ ~block'.dirty
  BY <1>2, <1>4, <1>5, Reloaded
<1>7. CleanPages' /\ HeaderPages' /\ Current("Factory")' /\ Resumed'
  BY <1>1, <1>2, <1>3, <1>6 DEF CleanPages, HeaderPages, Current, Resumed, Serves, IsBlank
<1>8. StatusAt'
  BY <1>2, <1>5, <1>7 DEF StatusAt, TransferAt, RepairAt, FormatAt, FactoryAt, HomeSteps
<1>9. StagedAt' /\ EntryAt'
  BY <1>2, <1>5, <1>6 DEF StagedAt, StagingSteps, EntryAt
<1> QED BY <1>5, <1>7, <1>8, <1>9 DEF Orderly

LEMMA FinalReloadOrderly ==
  ASSUME IndInv, Orderly, FinalReload
  PROVE  /\ Orderly'
         /\ Reload /\ Return("Ok")
<1>1. pc = "reload"
  BY DEF FinalReload
<1>2. /\ CleanPages /\ Current("Factory") /\ Home
      /\ \A p \in RuntimePages : OneBlock(flash[p])
  BY <1>1, FormatIs DEF HeaderPages, Orderly, StatusAt, HomeSteps
<1>3. Reload /\ Return("Ok")
  BY <1>2, HomeIs, Reloaded DEF FinalReload
<1>4. /\ CleanPages' /\ Home' /\ Staging' /\ Current("Factory")'
      /\ \A p \in RuntimePages : OneBlock(flash'[p])
  BY <1>2, <1>3, HomeReloaded
<1> QED BY <1>3, <1>4, CallEnds, AtHome

LEMMA BootsOrderly ==
  ASSUME MaxFaults = 0, IndInv, Orderly, BootStep
  PROVE  Orderly'
<1>1. CASE Boot
  <2>1. CleanPages /\ \A p \in RuntimePages : OneBlock(flash[p])
    BY <1>1 DEF Boot, Orderly, HeaderPages
  <2> QED BY <1>1, <2>1, StartInitOrderly DEF Boot
<1> QED BY <1>1, EraseUnusedOrderly, EraseReceivingOrderly, RepairFormattedOrderly,
           ResumeReloadOrderly, FinalReloadOrderly DEF BootStep

\* A cold device knows nothing of its flash.
LEMMA OffIsOrderly ==
  ASSUME CleanPages, \A p \in RuntimePages : OneBlock(flash[p]), pc = "off", op = "init",
         \A p \in Pages : status[p] = ERASED
  PROVE  Orderly
<1>1. HeaderPages
  BY DEF HeaderPages
<1>2. StatusAt
  BY DEF StatusAt, TransferAt, RepairAt, FormatAt, FactoryAt, HomeSteps
<1>3. StagedAt /\ EntryAt
  BY DEF StagedAt, StagingSteps, EntryAt
<1> QED BY <1>1, <1>2, <1>3 DEF Orderly

LEMMA PowerLossOrderly ==
  ASSUME IndInv, Orderly, PowerLoss, ~Exposed
  PROVE  Orderly'
<1>1. /\ pc' = "off" /\ op' = "init" /\ flash' = flash
      /\ \A p \in Pages : status'[p] = ERASED
  BY DEF PowerLoss
<1>2. CleanPages /\ HeaderPages
  BY DEF Orderly
<1>3. \A p \in RuntimePages : OneBlock(flash[p])
  <2>1. CASE pc = "restore_copy"
    <3>1. cursor = 0
      <4>1. cursor \in BlockOffsets /\ ~(cursor > 0)
        BY <2>1 DEF Exposed, IndInv
      <4>2. cursor \in 0 .. PageSize
        BY <4>1, BlockOffsetsType
      <4> QED BY <4>1, <4>2
    <3>2. flash["Page1"] = ErasedLog
      BY <2>1, <3>1, EmptyPrefix DEF Orderly, StatusAt, FactoryAt
    <3> QED BY <1>2, <3>2, ErasedIsClean, PageNames DEF HeaderPages
  <2>2. CASE pc # "restore_copy"
    BY <1>2, <2>2 DEF HeaderPages
  <2> QED BY <2>1, <2>2
<1>4. CleanPages' /\ \A p \in RuntimePages : OneBlock(flash'[p])
  BY <1>1, <1>2, <1>3 DEF CleanPages
<1>5. CleanPages' /\ pc' = "off" /\ op' = "init" /\ (\A p \in Pages : status[p] = ERASED)'
      /\ (\A p \in RuntimePages : OneBlock(flash[p]))'
  BY <1>1, <1>4 DEF OneBlock
<1>6. HeaderPages'
  BY <1>4 DEF HeaderPages
<1>7. StatusAt'
  BY <1>1 DEF StatusAt, TransferAt, RepairAt, FormatAt, FactoryAt, HomeSteps
<1>8. StagedAt' /\ EntryAt'
  BY <1>1 DEF StagedAt, StagingSteps, EntryAt
<1> QED BY <1>4, <1>6, <1>7, <1>8 DEF Orderly

-----------------------------------------------------------------------------
(* The invariant, and what it implies.                                       *)

\* What this firmware can have left on the flash it starts from: records without
\* gaps, all inside the address range, and no values behind a Formatted header.
\* The blank device is one of them.
OwnFlash ==
  \A f \in InitialFlash :
    /\ \A p \in Pages : CleanLog(f[p])
    /\ \A p \in RuntimePages : OneBlock(f[p])

LEMMA InitOrderly ==
  ASSUME OwnFlash, Init
  PROVE  Orderly
<1>1. /\ CleanPages /\ \A p \in RuntimePages : OneBlock(flash[p])
  BY DEF Init, OwnFlash, CleanPages
<1>2. pc = "off" /\ op = "init" /\ \A p \in Pages : status[p] = ERASED
  BY DEF Init
<1> QED BY <1>1, <1>2, OffIsOrderly

LEMMA StepOrderly ==
  ASSUME MaxFaults = 0, IndInv, Orderly, [ProtectedNext /\ view' = View']_<<vars, view>>
  PROVE  Orderly'
<1>1. CASE CallStep /\ ~RestoresFullPage
  BY <1>1, CallsOrderly
<1>2. CASE Step
  BY <1>2, AppendsOrderly, NothingStale, TransfersOrderly, FactoryOrderly,
     FormatsOrderly, BootsOrderly DEF Step, AppendStep
<1>3. CASE PowerLoss /\ ~Exposed
  BY <1>3, PowerLossOrderly
<1>4. CASE UNCHANGED <<vars, view>>
  <2>1. UNCHANGED <<flash, status, next, block, pc, op, entry, oldPage, cursor>>
    BY <1>4 DEF vars, ram, locals
  <2>2. ReadPage' = ReadPage /\ WritePage' = WritePage
    BY <2>1 DEF ReadPage, WritePage
  <2>3. /\ CleanPages' /\ HeaderPages' /\ EntryAt'
    BY <2>1 DEF Orderly, CleanPages, HeaderPages, EntryAt
  <2>4. StagedAt'
    BY <2>1, <2>2 DEF Orderly, StagedAt, Staging, StagedFits, WriteOffset
  <2>5. /\ Home => Home'
        /\ Resumed => Resumed'
        /\ \A p \in Pages : Current(p) => Current(p)'
    BY <2>1 DEF Home, Resumed, Serves, Current, IsBlank
  <2>6. TransferAt' /\ RepairAt' /\ FormatAt' /\ FactoryAt'
    BY <2>1, <2>2 DEF Orderly, StatusAt, TransferAt, RepairAt, FormatAt, FactoryAt,
       Home, Resumed, Serves, Current, IsBlank
  <2>7. StatusAt'
    BY <2>1, <2>5, <2>6 DEF Orderly, StatusAt
  <2> QED BY <2>3, <2>4, <2>7 DEF Orderly
<1> QED BY <1>1, <1>2, <1>3, <1>4 DEF ProtectedNext

LEMMA ProtectedInvariance ==
  ASSUME MaxFaults = 0, OwnFlash
  PROVE  ProtectedSpec => [](IndInv /\ Orderly)
<1> DEFINE Inv == IndInv /\ Orderly
           Moves == ProtectedNext /\ view' = View'
<1>1. Init => Inv
  BY InitEstablishes, InitOrderly
<1>2. Inv /\ [Moves]_<<vars, view>> => Inv'
  <2> SUFFICES ASSUME Inv, [Moves]_<<vars, view>> PROVE Inv'
    OBVIOUS
  <2>1. [Next]_vars
    BY DEF ProtectedNext, Next
  <2>2. IndInv'
    BY <2>1, StepPreserves
  <2>3. Orderly'
    BY StepOrderly
  <2> QED BY <2>2, <2>3
<1> QED BY <1>1, <1>2, PTL DEF ProtectedSpec

\* Between calls the cached page statuses are the newest status records, in the
\* flash of a device whose power holds through the exposed steps: no call, repair
\* or power loss leaves find_valid_page() a stale header to choose by.
THEOREM StatusesAreCurrent ==
  ASSUME MaxFaults = 0, OwnFlash
  PROVE  ProtectedSpec => []StatusCacheIsCurrent
<1>1. IndInv /\ Orderly => StatusCacheIsCurrent
  <2> SUFFICES ASSUME IndInv, Orderly, pc = "idle" PROVE status = FlashStatus
    BY DEF StatusCacheIsCurrent, Serving
  <2>1. Home /\ Current("Factory")
    BY IdleIs
  <2>2. \A p \in Pages : status[p] = StatusOf(flash[p])
    BY <2>1, HomeIs, PageNames DEF Serves, Current, Pages
  <2>3. status \in [Pages -> PageStatuses]
    BY DEF IndInv, TypeOK, RamTyped
  <2> QED BY <2>2, <2>3 DEF FlashStatus
<1> QED BY <1>1, ProtectedInvariance, PTL

\* Between calls the next entry goes to the first free block, or behind the
\* entries staged for it: write_internal() neither overwrites a record nor
\* leaves a gap that a scan would stop at.
THEOREM NextEntryGoesToFreeSpace ==
  ASSUME MaxFaults = 0, OwnFlash
  PROVE  ProtectedSpec => []NextOffsetIsFree
<1>1. IndInv /\ Orderly => NextOffsetIsFree
  <2> SUFFICES ASSUME IndInv, Orderly, pc = "idle" PROVE NextOffsetIsFree
    BY DEF NextOffsetIsFree, Serving
  <2>1. Staging /\ WritePage = ReadPage
    BY IdleIs
  <2> QED BY <2>1 DEF NextOffsetIsFree, Staging, StagedFits
<1> QED BY <1>1, ProtectedInvariance, PTL

-----------------------------------------------------------------------------
(* With a spare write block no call fails.                                   *)

\* A page has room for one block of entries behind those of a transfer.
SpareBlock == MaxAddress + EntriesPerBlock <= AddressCount

\* After a transfer there is room for the entry that made it necessary.
RoomAt ==
  /\ pc \in {"xfer_erase", "xfer_formatted", "xfer_valid"} =>
       FirstFree(flash[Other(oldPage)]) + 2 * EntriesPerBlock <= PageSize
  /\ pc = "xfer_reload" => FirstFree(flash[ReadPage]) + EntriesPerBlock <= PageSize
  /\ pc = "write_again" => HasRoom

\* A read may find nothing, a snapshot may be missing, and an address may lie
\* beyond the range.
MayFail == {"read", "read_beyond", "write_beyond", "restore_from_factory"}
Answered == pc = "idle" /\ op \notin MayFail => result = "Ok"

Succeeds == RoomAt' /\ (pc' = "idle" => result' = "Ok")

LEMMA SpareRoom ==
  ASSUME SpareBlock
  PROVE  MaxAddress + 4 * EntriesPerBlock <= PageSize
<1>1. /\ BlockCount \in Nat /\ EntriesPerBlock \in Nat \ {0} /\ MaxAddress \in Nat \ {0}
      /\ MaxAddress + EntriesPerBlock <= (BlockCount - 3) * EntriesPerBlock
  BY ConstantsAssumption DEF SpareBlock, AddressCount, MIN_INTERNAL_ENTRY_BLOCK_COUNT
<1>2. (BlockCount - 3) * EntriesPerBlock = BlockCount * EntriesPerBlock - 3 * EntriesPerBlock
  BY <1>1
<1> QED BY <1>1, <1>2, GeometryType DEF PageSize

\* A step that ends no call and leads to none of the last steps of a transfer.
LEMMA GoesOn ==
  ASSUME pc' \notin {"idle", "xfer_erase", "xfer_formatted", "xfer_valid", "xfer_reload",
                     "write_again"}
  PROVE  Succeeds
BY DEF Succeeds, RoomAt

LEMMA ReturnsOk ==
  ASSUME Return("Ok")
  PROVE  Succeeds
BY DEF Return, Succeeds, RoomAt

LEMMA AppendsSucceed ==
  ASSUME MaxFaults = 0, IndInv, Orderly, RoomAt, AppendStep
  PROVE  Succeeds
<1>1. WriteInternal /\ ~AppendEntryFails(entry)
  BY NothingStale, AppendsOrderly DEF AppendStep
<1>2. pc \in {"write", "write_again"}
  BY <1>1 DEF WriteInternal
<1>3. WritePage # NoPage
  BY <1>2, IdleIs, PageNames
<1>4. ASSUME NEW res \in {"NoPage", "PageFull"}, NoRoom(res)
      PROVE  res = "PageFull" /\ pc = "write"
  BY <1>2, <1>3, <1>4 DEF NoRoom, RoomAt
<1>5. Return("Ok") \/ pc' = "xfer_flush"
  BY <1>1, <1>4 DEF WriteInternal, Goto
<1> QED BY <1>5, ReturnsOk, GoesOn

LEMMA CopiedLeavesRoom ==
  ASSUME MaxFaults = 0, SpareBlock, IndInv, Orderly, XferCopied
  PROVE  Succeeds
<1> DEFINE free == FirstFree(flash[WritePage])
<1>1. pc = "xfer_copy" /\ UNCHANGED status
  BY DEF XferCopied
<1>2. /\ HwaTyped /\ RamTyped /\ CleanPages /\ Staging
      /\ oldPage \in RuntimePages /\ WritePage = Other(oldPage)
      /\ WritePage \in RuntimePages
      /\ WriteOffset(WritePage) <= 2 * EntriesPerBlock + cursor
      /\ cursor <= MaxAddress /\ cursor \in Nat
  BY <1>1, CopyingIs
<1>3. FlushBlock /\ pc' = "xfer_erase" /\ oldPage' = oldPage
  BY XferCopiedOrderly
<1>4. IF block.dirty THEN FirstFree(flash'[WritePage]) = free + EntriesPerBlock
                     ELSE flash' = flash
  BY <1>1, <1>2, <1>3, Flushed
<1>5. WriteOffset(WritePage) = free + StagedCount /\ free \in BlockOffsets /\ free \in Nat
  BY <1>2, StagedIs, FirstFreeNat, FirstFreeLeast
<1> HIDE DEF free
<1>6. WriteOffset(WritePage) + 2 * EntriesPerBlock <= PageSize
  <2>1. WriteOffset(WritePage) \in Nat
    BY <1>2, WriteOffsetType
  <2> QED BY <1>2, <2>1, SpareRoom, Room
<1>7. FirstFree(flash'[WritePage]) + 2 * EntriesPerBlock <= PageSize
  <2>1. CASE ~block.dirty
    BY <1>4, <1>5, <1>6, <2>1 DEF StagedCount, free
  <2>2. CASE block.dirty
    <3>1. StagedCount \in 1 .. EntriesPerBlock - 1
      BY <1>2, <2>2 DEF StagedCount, Staging, StagedFits
    <3>2. /\ free + 2 * EntriesPerBlock < PageSize /\ free + EntriesPerBlock < PageSize
          /\ free < PageSize
      BY <1>5, <1>6, <3>1, Room
    <3>3. free + EntriesPerBlock \in BlockOffsets /\ PageSize \in BlockOffsets
      BY <1>5, <3>2, BlockOffsetsType
    <3>4. (free + EntriesPerBlock) + EntriesPerBlock \in BlockOffsets
      BY <3>2, <3>3, BlockOffsetsType
    <3>5. ((free + EntriesPerBlock) + EntriesPerBlock) + EntriesPerBlock <= PageSize
      BY <1>5, <3>2, <3>3, <3>4, Room, BlocksApart
    <3> QED BY <1>4, <1>5, <2>2, <3>5, Room
  <2> QED BY <2>1, <2>2
<1> QED BY <1>2, <1>3, <1>7 DEF Succeeds, RoomAt

LEMMA TransfersSucceed ==
  ASSUME MaxFaults = 0, SpareBlock, IndInv, Orderly, RoomAt, TransferStep
  PROVE  Succeeds
<1>1. CASE XferFlush \/ XferReceiving \/ XferCopy
  BY <1>1, XferFlushOrderly, XferReceivingOrderly, XferCopyOrderly, GoesOn DEF XferCopy
<1>2. CASE XferCopied
  BY <1>2, CopiedLeavesRoom
<1>3. CASE XferErase
  <2>1. pc = "xfer_erase" /\ pc \in TransferSteps
    BY <1>3 DEF XferErase, TransferSteps
  <2>2. pc' = "xfer_formatted" /\ oldPage' = oldPage /\ Erase(oldPage)
    BY <1>3, XferEraseOrderly
  <2>3. flash'[Other(oldPage)] = flash[Other(oldPage)]
    BY <2>1, <2>2, TransferIs, PageErased
  <2> QED BY <2>1, <2>2, <2>3 DEF Succeeds, RoomAt
<1>4. CASE XferFormatted
  <2>1. pc = "xfer_formatted" /\ pc \in TransferSteps
    BY <1>4 DEF XferFormatted, XferStatus, TransferSteps
  <2>2. pc' = "xfer_valid" /\ oldPage' = oldPage /\ WritePageStatus(oldPage, "Formatted")
    BY <1>4, XferFormattedOrderly
  <2>3. flash'[Other(oldPage)] = flash[Other(oldPage)]
    BY <2>1, <2>2, TransferIs, RecordWritten, PageNames
  <2> QED BY <2>1, <2>2, <2>3 DEF Succeeds, RoomAt
<1>5. CASE XferValid
  <2> DEFINE new == Other(oldPage)
  <2>1. pc = "xfer_valid" /\ pc \in TransferSteps
    BY <1>5 DEF XferValid, XferStatus, TransferSteps
  <2>2. pc' = "xfer_reload" /\ WritePageStatus(new, "Valid") /\ Orderly'
    BY <1>5, XferValidOrderly
  <2>3. /\ FirstFree(flash'[new]) = FirstFree(flash[new]) + EntriesPerBlock
        /\ status'[new] = "Valid" /\ new \in RuntimePages
        /\ status'[Other(new)] = status[Other(new)]
    BY <2>1, <2>2, TransferIs, RecordWritten, PageNames
  <2>4. status[Other(new)] = "Formatted"
    BY <2>1, TransferIs DEF StatusAt, TransferAt
  <2>5. ReadPage' = new
    BY <2>3, <2>4 DEF ReadPage, RuntimePages, Other
  <2>6. FirstFree(flash'[new]) + EntriesPerBlock <= PageSize
    BY <2>1, <2>3, FirstFreeNat, Room DEF RoomAt
  <2> QED BY <2>2, <2>5, <2>6 DEF Succeeds, RoomAt
<1>6. CASE XferReload
  <2>1. pc = "xfer_reload" /\ Reload /\ ~ReloadFails /\ pc \in TransferSteps
    BY <1>6, XferReloadOrderly DEF XferReload, TransferSteps
  <2>2. CASE Return("Ok")
    BY <2>2, ReturnsOk
  <2>3. CASE pc' = "flush_block"
    BY <2>3, GoesOn
  <2>4. CASE pc' = "write_again"
    <3>1. Home /\ CleanPages
      BY <2>1, TransferIs DEF StatusAt, HomeSteps
    <3>2. ReadPage \in RuntimePages /\ WritePage = ReadPage /\ ReadPage # NoPage
      BY <3>1, HomeIs
    <3>3. /\ UNCHANGED <<flash, status>>
          /\ WriteOffset(ReadPage)' = FirstFree(flash'[ReadPage])
      BY <2>1, <3>1, <3>2, Reloaded
    <3>4. ReadPage' = ReadPage /\ WritePage' = WritePage
      BY <3>3 DEF ReadPage, WritePage
    <3>5. FirstFree(flash[ReadPage]) < PageSize
      BY <2>1, FirstFreeNat, Room DEF RoomAt
    <3>6. HasRoom'
      BY <3>2, <3>3, <3>4, <3>5 DEF HasRoom
    <3> QED BY <2>4, <3>6 DEF Succeeds, RoomAt
  <2> QED BY <1>6, <2>1, <2>2, <2>3, <2>4 DEF XferReload
<1> QED BY <1>1, <1>2, <1>3, <1>4, <1>5, <1>6 DEF TransferStep

LEMMA FactorySucceeds ==
  ASSUME MaxFaults = 0, IndInv, Orderly, FactoryStep
  PROVE  Succeeds
<1>1. HwaTyped /\ RamTyped /\ CleanPages
  BY DEF IndInv, TypeOK, Orderly
<1>2. CASE FlushPending
  <2>1. pc = "flush_block"
    BY <1>2 DEF FlushPending
  <2>2. ~FlushBlockFails
    BY <1>1, <2>1, IdleIs, FlushNeverFails
  <2>3. Return("Ok") \/ pc' = "store_erase"
    BY <1>2, <2>2 DEF FlushPending
  <2> QED BY <2>3, ReturnsOk, GoesOn
<1>3. CASE StoreErase \/ StoreCopy \/ RestoreErase2 \/ RestoreCopy \/ RestoreValid
  BY <1>3, StoreEraseOrderly, StoreCopyOrderly, RestoreErase2Orderly, RestoreCopyOrderly,
     RestoreValidOrderly, GoesOn DEF StoreCopy, RestoreCopy
<1>4. CASE StoreDone
  BY <1>4, ReturnsOk DEF StoreDone
<1>5. CASE RestoreErase1
  BY <1>1, <1>5, EraseStepIs, PageNames, GoesOn DEF RestoreErase1
<1>6. CASE RestoreFormatted
  BY <1>6, SecondHeader, GoesOn DEF RestoreFormatted
<1> QED BY <1>2, <1>3, <1>4, <1>5, <1>6 DEF FactoryStep

LEMMA FormatsSucceed ==
  ASSUME MaxFaults = 0, IndInv, Orderly, FormatStep
  PROVE  Succeeds
<1>1. HwaTyped /\ RamTyped /\ CleanPages
  BY DEF IndInv, TypeOK, Orderly
<1>2. CASE FormatErase1
  BY <1>1, <1>2, EraseStepIs, PageNames, GoesOn DEF FormatErase1
<1>3. CASE FormatErase2
  <2>1. pc' \in {"format_erase_factory", "format_valid"}
    BY <1>1, <1>3, EraseStepIs, PageNames DEF FormatErase2
  <2> QED BY <2>1, GoesOn
<1>4. CASE FormatEraseFactory
  BY <1>1, <1>4, EraseStepIs, PageNames, GoesOn DEF FormatEraseFactory
<1>5. CASE FormatValid
  BY <1>5, FormatValidOrderly, GoesOn
<1>6. CASE FormatFormatted
  <2>1. Return("Ok") \/ pc' = "reload"
    BY <1>6, SecondHeader DEF FormatFormatted
  <2> QED BY <2>1, ReturnsOk, GoesOn
<1> QED BY <1>2, <1>3, <1>4, <1>5, <1>6 DEF FormatStep

LEMMA BootsSucceed ==
  ASSUME MaxFaults = 0, IndInv, Orderly, BootStep
  PROVE  Succeeds
<1>1. CASE Boot
  BY <1>1, GoesOn DEF Boot, StartInit, Repair
<1>2. CASE EraseUnused
  BY <1>2, RepairErased, GoesOn DEF EraseUnused
<1>3. CASE EraseReceiving
  BY <1>3, RepairErased, GoesOn DEF EraseReceiving
<1>4. CASE RepairFormatted \/ ResumeReload
  BY <1>4, RepairFormattedOrderly, ResumeReloadOrderly, GoesOn
<1>5. CASE FinalReload
  BY <1>5, FinalReloadOrderly, ReturnsOk
<1> QED BY <1>1, <1>2, <1>3, <1>4, <1>5 DEF BootStep

LEMMA CallsAnswer ==
  ASSUME CallStep
  PROVE  RoomAt' /\ Answered'
<1>1. /\ pc' \notin {"xfer_erase", "xfer_formatted", "xfer_valid", "xfer_reload",
                     "write_again"}
      /\ pc' = "idle" => op' \in MayFail \/ result' = "Ok"
  BY DEF CallStep, Write, WriteCached, Read, PageStatus, Flush, PageTransfer, Format,
         RestoreFromFactory, InitCall, StartInit, Repair, Call, Answer, Begin, MayFail
<1> QED BY <1>1 DEF RoomAt, Answered

LEMMA SuccessStays ==
  ASSUME MaxFaults = 0, SpareBlock, IndInv, Orderly, RoomAt, Answered,
         [ProtectedNext /\ view' = View']_<<vars, view>>
  PROVE  RoomAt' /\ Answered'
<1>1. CASE CallStep
  BY <1>1, CallsAnswer
<1>2. CASE Step
  <2>1. Succeeds
    BY <1>2, AppendsSucceed, TransfersSucceed, FactorySucceeds, FormatsSucceed,
       BootsSucceed DEF Step
  <2> QED BY <2>1 DEF Succeeds, Answered
<1>3. CASE PowerLoss
  BY <1>3 DEF PowerLoss, RoomAt, Answered
<1>4. CASE UNCHANGED <<vars, view>>
  <2>1. UNCHANGED <<flash, status, next, pc, op, oldPage, result>>
    BY <1>4 DEF vars, ram, locals
  <2> QED BY <2>1 DEF RoomAt, Answered, ReadPage, HasRoom, WritePage, WriteOffset
<1> QED BY <1>1, <1>2, <1>3, <1>4 DEF ProtectedNext

LEMMA RequestsSucceed ==
  ASSUME MaxFaults = 0, OwnFlash, SpareBlock
  PROVE  ProtectedSpec => []Answered
<1> DEFINE Moves == ProtectedNext /\ view' = View'
           Inv == IndInv /\ Orderly /\ RoomAt /\ Answered
<1>1. Init => RoomAt /\ Answered
  BY DEF Init, RoomAt, Answered
<1>2. IndInv /\ Orderly /\ RoomAt /\ Answered /\ [Moves]_<<vars, view>> =>
        RoomAt' /\ Answered'
  BY SuccessStays
<1> QED BY <1>1, <1>2, ProtectedInvariance, PTL DEF ProtectedSpec

\* On a device with a flash that does not fail and a write block to spare, write(),
\* flush(), page_transfer(), format(), store_to_factory() and init() always
\* succeed: the three reserved blocks of a page are enough for its headers after
\* any history of partly filled blocks, transfers and power losses.  (A restore
\* may find no snapshot.)
THEOREM EveryCallSucceeds ==
  ASSUME MaxFaults = 0, OwnFlash, SpareBlock, "restore_from_factory" \notin Calls
  PROVE  ProtectedSpec => []CallsSucceed
<1>1. TypeOK /\ Answered => CallsSucceed
  BY DEF TypeOK, CallTyped, Answered, MayFail, CallsSucceed
<1>2. ProtectedSpec => [](IndInv /\ Orderly)
  BY ProtectedInvariance
<1>3. IndInv => TypeOK
  BY DEF IndInv
<1> QED BY <1>1, <1>2, <1>3, RequestsSucceed, PTL
=============================================================================
