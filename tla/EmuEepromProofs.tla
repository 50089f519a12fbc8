---------------------------- MODULE EmuEepromProofs ----------------------------
(***************************************************************************)
(* Theorems about EmuEeprom, for every page geometry, set of values,       *)
(* initial flash content and number of Hwa failures that its assumption    *)
(* allows: types and reads, and which pages can be Valid and what init()   *)
(* makes of them.                                                          *)
(***************************************************************************)
EXTENDS EmuEepromProperties, FiniteSetTheorems, WellFoundedInduction, TLAPS

\* Steps that are reached with nothing staged and stage nothing themselves.
ClearSteps ==
  {"xfer_receiving", "xfer_erase", "xfer_formatted", "xfer_valid", "xfer_reload",
   "store_erase", "store_copy", "format_erase2", "format_erase_factory",
   "format_valid", "format_formatted", "restore_erase1", "restore_erase2",
   "restore_copy", "restore_formatted", "reload", "repair_erase",
   "repair_formatted", "resume_erase", "resume_reload"}

BlockOffsets == {o \in 0 .. PageSize : o % EntriesPerBlock = 0}

\* The inductive invariant: TypeOK alone does not say that a copying loop is at
\* the start of a block and has a page to copy from.
IndInv ==
  /\ TypeOK
  /\ pc \in {"store_copy", "restore_copy"} => cursor \in BlockOffsets
  /\ pc = "store_copy" => ReadPage # NoPage
  /\ pc \in ClearSteps => ~block.dirty

-----------------------------------------------------------------------------
(* Numbers, and offsets in a page.                                           *)

LEMMA LeastExists ==
  ASSUME NEW S, S \subseteq Nat, S # {}
  PROVE  Least(S) \in S /\ \A y \in S : Least(S) <= y
<1>1. IsWellFoundedOn(OpToRel(<,Nat), Nat)
  BY NatLessThanWellFounded
<1>2. PICK x \in S : \A y \in S : ~ (<<y, x>> \in OpToRel(<,Nat))
  BY <1>1, WFMin
<1>3. \A y \in S : y \in Nat /\ x \in Nat /\ ~ (y < x)
  BY <1>2 DEF OpToRel
<1>4. \A y \in S : x <= y
  BY <1>3
<1> QED BY <1>4 DEF Least

LEMMA GreatestExists ==
  ASSUME NEW n \in Int, NEW S, S \subseteq 0 .. n, S # {}
  PROVE  Greatest(S) \in S /\ \A y \in S : Greatest(S) >= y
<1> DEFINE T == {n - x : x \in S}
<1>1. PICK s \in S : TRUE
  OBVIOUS
<1>2. T \subseteq Nat /\ n - s \in T
  BY <1>1
<1>3. Least(T) \in T /\ \A u \in T : Least(T) <= u
  BY <1>2, LeastExists
<1>4. PICK x \in S : Least(T) = n - x
  BY <1>3
<1> HIDE DEF T
<1>5. \A y \in S : x >= y
  <2> TAKE y \in S
  <2>1. Least(T) <= n - y
    BY <1>3 DEF T
  <2> QED BY <2>1, <1>4
<1> QED BY <1>5 DEF Greatest

LEMMA GeometryType ==
  /\ EntriesPerBlock \in Nat \ {0}
  /\ BlockCount \in Nat
  /\ PageSize \in Nat
  /\ PageSize = BlockCount * EntriesPerBlock
  /\ MaxAddress \in Nat /\ MaxAddress <= PageSize
<1>1. BlockCount \in Nat /\ EntriesPerBlock \in Nat \ {0} /\ MaxAddress \in Nat \ {0}
  BY ConstantsAssumption
<1>2. MaxAddress <= (BlockCount - 3) * EntriesPerBlock
  BY ConstantsAssumption DEF AddressCount, MIN_INTERNAL_ENTRY_BLOCK_COUNT
<1>3. (BlockCount - 3) * EntriesPerBlock <= BlockCount * EntriesPerBlock
  BY <1>1
<1> QED BY <1>1, <1>2, <1>3 DEF PageSize

\* A block that starts inside a page ends inside it.
LEMMA BlockFits ==
  ASSUME NEW o \in Offsets, o % EntriesPerBlock = 0
  PROVE  o + EntriesPerBlock <= PageSize
         /\ (o + EntriesPerBlock) % EntriesPerBlock = 0
         /\ \A i \in Slots : o + i \in Offsets
<1> DEFINE n == EntriesPerBlock
           k == o \div n
<1>1. o \in Nat /\ o < PageSize /\ n \in Nat \ {0} /\ BlockCount \in Nat
      /\ PageSize = BlockCount * n
  BY GeometryType DEF Offsets
<1>2. k \in Nat /\ o = k * n
  BY <1>1
<1> HIDE DEF k, n
<1>3. k < BlockCount
  BY <1>1, <1>2
<1>4. k * n + n <= BlockCount * n
  BY <1>1, <1>2, <1>3
<1>5. (o + n) % n = 0
  BY <1>1, <1>2
<1>6. o + n <= PageSize
  BY <1>1, <1>2, <1>4
<1>7. \A i \in Slots : o + i \in Offsets
  BY <1>1, <1>6 DEF Slots, Offsets, n
<1> QED BY <1>5, <1>6, <1>7 DEF n

LEMMA BlockStartType ==
  ASSUME NEW o \in Offsets
  PROVE  /\ BlockStart(o) \in Offsets
         /\ BlockStart(o) % EntriesPerBlock = 0
         /\ o - BlockStart(o) \in Slots
<1> DEFINE n == EntriesPerBlock
           k == o \div n
<1>1. o \in Nat /\ o < PageSize /\ n \in Nat \ {0} /\ PageSize \in Nat
  BY GeometryType DEF Offsets
<1>2. k \in Nat /\ k * n <= o /\ o < k * n + n /\ k * n \in Nat
  BY <1>1
<1>3. (k * n) % n = 0
  BY <1>1, <1>2
<1>4. BlockStart(o) = k * n
  BY DEF BlockStart
<1> HIDE DEF n, k
<1> QED BY <1>1, <1>2, <1>3, <1>4 DEF n, Offsets, Slots

-----------------------------------------------------------------------------
(* What the model's operators return.                                        *)

LEMMA ErasedTypes ==
  /\ Blank \in Entries
  /\ ErasedLog \in Logs
  /\ ErasedCache \in [Addresses -> Words]
  /\ ClearedBlock \in StagedBlocks /\ ~ClearedBlock.dirty
  /\ At("Page1", 0) \in Positions
<1>1. Blank \in Entries /\ ERASED \in Words
  BY GeometryType DEF Blank, Entry, Entries, Words, PageStatuses,
     RESERVED_STATUS_ADDRESS
<1>2. 0 \in {o \in Offsets : o % EntriesPerBlock = 0} /\ 0 \in 0 .. PageSize
  <2>1. PageSize > 0
    BY GeometryType, ConstantsAssumption
  <2> QED BY <2>1, GeometryType DEF Offsets
<1>3. ErasedLog \in Logs /\ ErasedCache \in [Addresses -> Words]
  BY <1>1 DEF ErasedLog, Logs, ErasedCache
<1>4. ClearedBlock \in StagedBlocks /\ ~ClearedBlock.dirty
  BY <1>1, <1>2, GeometryType DEF ClearedBlock, StagedBlocks, RuntimePages, Blocks
<1> QED BY <1>1, <1>2, <1>3, <1>4 DEF At, Positions, RuntimePages

LEMMA StatusBlockType ==
  ASSUME NEW s \in StatusRecords
  PROVE  StatusBlock(s) \in Blocks
BY ErasedTypes, GeometryType
   DEF StatusBlock, Blocks, Entry, Entries, Words, PageStatuses,
       RESERVED_STATUS_ADDRESS

LEMMA FirstFreeType ==
  ASSUME NEW log
  PROVE  /\ FirstFree(log) \in BlockOffsets
         /\ FirstFree(log) < PageSize => FirstFree(log) \in Offsets
         /\ 0 .. FirstFree(log) - 1 \subseteq Offsets
<1>1. FreeBlocks(log) \subseteq Nat
  BY DEF FreeBlocks, Offsets
<1>2. PageSize \in BlockOffsets
  BY GeometryType DEF BlockOffsets
<1>3. FirstFree(log) \in BlockOffsets
  <2>1. CASE FreeBlocks(log) = {}
    BY <2>1, <1>2 DEF FirstFree
  <2>2. CASE FreeBlocks(log) # {}
    <3>1. Least(FreeBlocks(log)) \in FreeBlocks(log)
      BY <1>1, <2>2, LeastExists
    <3> QED BY <3>1, <2>2, GeometryType
            DEF FirstFree, FreeBlocks, Offsets, BlockOffsets
  <2> QED BY <2>1, <2>2
<1> QED BY <1>3, GeometryType DEF BlockOffsets, Offsets

LEMMA NewestIn ==
  ASSUME NEW S, S \subseteq Offsets, S # {}
  PROVE  Greatest(S) \in S /\ \A y \in S : Greatest(S) >= y
<1> DEFINE n == PageSize - 1
<1>1. n \in Int /\ S \subseteq 0 .. n
  BY GeometryType DEF Offsets
<1> HIDE DEF n
<1> QED BY <1>1, GreatestExists

LEMMA NewestStatusType ==
  ASSUME NEW log \in Logs, NEW seen, seen \subseteq Offsets
  PROVE  NewestStatus(log, seen) \in PageStatuses
<1> DEFINE marks == {o \in seen : /\ log[o].address = RESERVED_STATUS_ADDRESS
                                  /\ log[o].value \in StatusRecords}
<1>1. marks # {} => Greatest(marks) \in marks
  BY NewestIn
<1> HIDE DEF marks
<1>2. NewestStatus(log, seen) = IF marks = {} THEN ERASED ELSE log[Greatest(marks)].value
  BY DEF marks, NewestStatus
<1>3. \A o \in marks : log[o].value \in StatusRecords
  BY DEF marks
<1> QED BY <1>1, <1>2, <1>3 DEF PageStatuses

LEMMA NewestValueType ==
  ASSUME NEW log \in Logs, NEW a, NEW seen, seen \subseteq Offsets
  PROVE  NewestValue(log, a, seen) \in Words
<1> DEFINE hits == {o \in seen : log[o].address = a}
<1>1. hits # {} => Greatest(hits) \in hits
  BY NewestIn
<1>2. \A o \in hits : log[o].value \in Words
  BY DEF Logs, Entries
<1> HIDE DEF hits
<1>3. NewestValue(log, a, seen) = IF hits = {} THEN ERASED ELSE log[Greatest(hits)].value
  BY DEF hits, NewestValue
<1> QED BY <1>1, <1>2, <1>3 DEF Words, PageStatuses

LEMMA StatusOfType ==
  ASSUME NEW log \in Logs PROVE StatusOf(log) \in PageStatuses
BY NewestStatusType DEF StatusOf

LEMMA ContentsType ==
  ASSUME NEW log \in Logs PROVE Contents(log) \in [Addresses -> Words]
BY FirstFreeType, NewestValueType DEF Contents

LEMMA ProgrammedType ==
  ASSUME NEW log \in Logs, NEW at \in Nat, NEW data \in Blocks
  PROVE  Programmed(log, at, data) \in Logs
<1>1. \A o \in Offsets : o \in at .. at + EntriesPerBlock - 1 => o - at \in Slots
  BY GeometryType DEF Offsets, Slots
<1> QED BY <1>1 DEF Programmed, Logs, Blocks

LEMMA PagesType ==
  /\ WritePage \in RuntimePages \cup {NoPage}
  /\ ReadPage \in RuntimePages \cup {NoPage}
  /\ RuntimePages \subseteq Pages /\ NoPage \notin Pages
  /\ \A p : Other(p) \in RuntimePages
  /\ ReadPage = NoPage \/ ReadPage \in RuntimePages
<1>1. WritePage \in RuntimePages \cup {NoPage}
  BY DEF WritePage, WritePageIn, RuntimePages
<1>2. ReadPage \in RuntimePages \cup {NoPage}
  BY DEF ReadPage, RuntimePages
<1> QED BY <1>1, <1>2 DEF RuntimePages, Pages, NoPage, Other

LEMMA WriteOffsetType ==
  ASSUME RamTyped, NEW p \in RuntimePages
  PROVE  /\ WriteOffset(p) \in 0 .. PageSize
         /\ At(p, WriteOffset(p)) \in Positions
         /\ WriteOffset(p) < PageSize => WriteOffset(p) \in Offsets
<1>1. FirstFree(flash[p]) \in 0 .. PageSize
  BY FirstFreeType DEF BlockOffsets
<1>2. WriteOffset(p) \in 0 .. PageSize
  BY <1>1 DEF WriteOffset, RamTyped, Positions
<1> QED BY <1>2, GeometryType DEF At, Positions, Offsets

-----------------------------------------------------------------------------
(* What the parts of an action leave behind.                                 *)

LEMMA ProgramType ==
  ASSUME HwaTyped, NEW p \in Pages, NEW at \in Nat, NEW data \in Blocks,
         Program(p, at, data)
  PROVE  HwaTyped'
<1>1. flash' = [flash EXCEPT ![p] = Programmed(flash[p], at, data)]
  BY DEF Program, HwaTyped
<1>2. Programmed(flash[p], at, data) \in Logs
  BY ProgrammedType DEF HwaTyped
<1> QED BY <1>1, <1>2 DEF HwaTyped, Program, NoFault

LEMMA FaultyType ==
  ASSUME HwaTyped, Faulty
  PROVE  HwaTyped'
BY ConstantsAssumption DEF HwaTyped, Faulty

LEMMA RefusesType ==
  ASSUME HwaTyped, NEW p, NEW at, NEW data, Refuses(p, at, data)
  PROVE  HwaTyped'
BY FaultyType DEF HwaTyped, Refuses

LEMMA EraseType ==
  ASSUME HwaTyped, NEW p \in Pages, Erase(p)
  PROVE  HwaTyped'
BY ErasedTypes DEF HwaTyped, Erase, NoFault

LEMMA AfterFlushType ==
  ASSUME RamTyped
  PROVE  AfterFlush \in Positions
<1>1. block.page \in RuntimePages /\ block.offset \in Offsets
      /\ block.offset % EntriesPerBlock = 0 /\ next \in Positions
  BY DEF RamTyped, StagedBlocks
<1>2. block.offset + EntriesPerBlock \in 0 .. PageSize
  BY <1>1, BlockFits, GeometryType DEF Offsets
<1> QED BY <1>1, <1>2 DEF AfterFlush, At, Positions

\* The staged block is written out or was not there.
LEMMA FlushBlockType ==
  ASSUME HwaTyped, RamTyped, FlushBlock
  PROVE  /\ HwaTyped'
         /\ next' \in Positions
         /\ block' = ClearedBlock
<1>1. HwaTyped'
  <2>1. CASE block.dirty
    <3>1. /\ block.page \in Pages
          /\ block.offset \in Nat
          /\ block.data \in Blocks
      BY PagesType DEF RamTyped, StagedBlocks, Offsets
    <3> QED BY <2>1, <3>1, ProgramType DEF FlushBlock
  <2>2. CASE ~block.dirty
    BY <2>2 DEF FlushBlock, HwaTyped
  <2> QED BY <2>1, <2>2
<1> QED BY <1>1, AfterFlushType DEF FlushBlock

LEMMA FlushBlockFailsType ==
  ASSUME HwaTyped, RamTyped, FlushBlockFails
  PROVE  HwaTyped' /\ next' \in Positions /\ block' \in StagedBlocks
BY RefusesType DEF FlushBlockFails, RamTyped

LEMMA NextAfterStatusType ==
  ASSUME RamTyped, NEW p \in RuntimePages, FirstFree(flash[p]) < PageSize
  PROVE  NextAfterStatus(p) \in Positions
<1>1. FirstFree(flash[p]) \in Offsets /\ FirstFree(flash[p]) % EntriesPerBlock = 0
  BY FirstFreeType DEF BlockOffsets
<1>2. FirstFree(flash[p]) + EntriesPerBlock \in 0 .. PageSize
  BY <1>1, BlockFits, GeometryType DEF Offsets
<1> QED BY <1>2 DEF NextAfterStatus, At, Positions, RamTyped

LEMMA WritePageStatusType ==
  ASSUME HwaTyped, RamTyped, NEW p \in RuntimePages, NEW s \in StatusRecords,
         WritePageStatus(p, s)
  PROVE  /\ HwaTyped'
         /\ status' \in [Pages -> PageStatuses]
         /\ block' = ClearedBlock
         /\ NextAfterStatus(p) \in Positions
<1>1. FirstFree(flash[p]) < PageSize /\ FirstFree(flash[p]) \in Nat
  BY FirstFreeType DEF WritePageStatus, Offsets
<1>2. HwaTyped'
  BY <1>1, StatusBlockType, ProgramType, PagesType DEF WritePageStatus
<1>3. NextAfterStatus(p) \in Positions
  BY <1>1, NextAfterStatusType
<1>4. status' \in [Pages -> PageStatuses]
  BY DEF WritePageStatus, RamTyped, PageStatuses
<1> QED BY <1>2, <1>3, <1>4 DEF WritePageStatus

LEMMA WritePageStatusFailsType ==
  ASSUME HwaTyped, RamTyped, NEW p \in RuntimePages, NEW s \in StatusRecords,
         WritePageStatusFails(p, s)
  PROVE  /\ HwaTyped'
         /\ status' = status /\ next' = next
         /\ block' \in StagedBlocks
<1>1. CASE FirstFree(flash[p]) = PageSize /\ UNCHANGED <<flash, block, faults>>
  BY <1>1 DEF WritePageStatusFails, HwaTyped, RamTyped
<1>2. CASE /\ FirstFree(flash[p]) < PageSize
           /\ Refuses(p, FirstFree(flash[p]), StatusBlock(s))
           /\ block' = [page |-> p, offset |-> FirstFree(flash[p]), entries |-> 1,
                        dirty |-> TRUE, data |-> StatusBlock(s)]
  <2>1. FirstFree(flash[p]) \in {o \in Offsets : o % EntriesPerBlock = 0}
    BY <1>2, FirstFreeType DEF BlockOffsets
  <2>2. 1 \in 0 .. EntriesPerBlock
    BY GeometryType
  <2>3. block' \in StagedBlocks
    BY <1>2, <2>1, <2>2, StatusBlockType DEF StagedBlocks
  <2> QED BY <1>2, <2>3, RefusesType DEF WritePageStatusFails
<1> QED BY <1>1, <1>2 DEF WritePageStatusFails

LEMMA StagedType ==
  ASSUME RamTyped, NEW e \in Entries, HasRoom, ~StagedElsewhere
  PROVE  Staged(e) \in StagedBlocks
<1> DEFINE p == WritePage
           o == WriteOffset(p)
           base == IF block.dirty THEN block
                   ELSE [ClearedBlock EXCEPT !.page = p, !.offset = BlockStart(o),
                                             !.dirty = TRUE]
<1>1. p \in RuntimePages /\ o \in Offsets
  BY PagesType, WriteOffsetType DEF HasRoom
<1>2. BlockStart(o) \in {x \in Offsets : x % EntriesPerBlock = 0}
      /\ o - BlockStart(o) \in Slots
  BY <1>1, BlockStartType
<1>3. base \in StagedBlocks
  <2>1. block \in StagedBlocks /\ ClearedBlock \in StagedBlocks
    BY ErasedTypes DEF RamTyped
  <2> HIDE DEF p, o
  <2> QED BY <1>1, <1>2, <2>1 DEF StagedBlocks
<1>4. Staged(e) = [base EXCEPT !.data[o - BlockStart(o)] = e,
                     !.entries = IF @ < EntriesPerBlock THEN @ + 1 ELSE @]
  BY DEF Staged
<1> HIDE DEF base, p, o
<1>5. [base.data EXCEPT ![o - BlockStart(o)] = e] \in Blocks
  BY <1>2, <1>3 DEF StagedBlocks, Blocks
<1>6. (IF base.entries < EntriesPerBlock THEN base.entries + 1 ELSE base.entries)
        \in 0 .. EntriesPerBlock
  BY <1>3, GeometryType DEF StagedBlocks
<1> QED BY <1>3, <1>4, <1>5, <1>6 DEF StagedBlocks

LEMMA AppendEntryType ==
  ASSUME HwaTyped, RamTyped, NEW e \in Entries, AppendEntry(e)
  PROVE  /\ HwaTyped'
         /\ cache' \in [Addresses -> Words]
         /\ next' \in Positions
         /\ block' \in StagedBlocks
<1> DEFINE b == Staged(e)
<1>1. b \in StagedBlocks
  BY StagedType DEF AppendEntry
<1>2. next' \in Positions
  <2>1. WritePage \in RuntimePages /\ WriteOffset(WritePage) \in Offsets
    BY PagesType, WriteOffsetType DEF AppendEntry, HasRoom
  <2> QED BY <2>1, GeometryType DEF AppendEntry, At, Positions, Offsets
<1>3. cache' \in [Addresses -> Words]
  BY DEF AppendEntry, RamTyped, Entries
<1>4. CASE BlockFull(b)
  <2>1. Program(b.page, b.offset, b.data) /\ block' = ClearedBlock
    BY <1>4 DEF AppendEntry
  <2>2. b.page \in Pages /\ b.offset \in Nat /\ b.data \in Blocks
    BY <1>1, PagesType DEF StagedBlocks, Offsets
  <2> HIDE DEF b
  <2> QED BY <1>2, <1>3, <2>1, <2>2, ProgramType, ErasedTypes
<1>5. CASE ~BlockFull(b)
  <2>1. block' = b /\ UNCHANGED <<flash, faults>>
    BY <1>5 DEF AppendEntry
  <2> QED BY <1>1, <1>2, <1>3, <2>1 DEF HwaTyped
<1> QED BY <1>4, <1>5

LEMMA AppendEntryFailsType ==
  ASSUME HwaTyped, RamTyped, NEW e \in Entries, AppendEntryFails(e)
  PROVE  /\ HwaTyped'
         /\ cache' \in [Addresses -> Words]
         /\ next' \in Positions
         /\ block' \in StagedBlocks
<1>1. Staged(e) \in StagedBlocks
  BY StagedType DEF AppendEntryFails
<1>2. WritePage \in RuntimePages
  BY PagesType DEF AppendEntryFails, HasRoom
<1> QED BY <1>1, <1>2, WriteOffsetType, RefusesType DEF AppendEntryFails, RamTyped

LEMMA NoRoomType ==
  ASSUME HwaTyped, RamTyped, NEW res, NoRoom(res)
  PROVE  /\ HwaTyped'
         /\ cache' \in [Addresses -> Words]
         /\ next' \in Positions
         /\ block' \in StagedBlocks
<1>1. next' \in Positions
  BY PagesType, WriteOffsetType DEF NoRoom, RamTyped
<1> QED BY <1>1 DEF NoRoom, HwaTyped, RamTyped

LEMMA ReturnType ==
  ASSUME CallTyped, NEW res \in Results, Return(res)
  PROVE  CallTyped' /\ pc' = "idle"
<1>1. 0 \in 0 .. PageSize + EntriesPerBlock
  BY GeometryType
<1> QED BY <1>1, ErasedTypes DEF CallTyped, Return, Steps, RuntimePages

LEMMA FailType ==
  ASSUME CallTyped, NEW res \in Results, Fail(res)
  PROVE  CallTyped' /\ pc' \in {"idle", "off", "format_erase1"}
<1>1. 0 \in 0 .. PageSize + EntriesPerBlock
  BY GeometryType
<1> QED BY <1>1, ReturnType DEF CallTyped, Fail, Steps

LEMMA ReloadType ==
  ASSUME HwaTyped, RamTyped, Reload
  PROVE  HwaTyped' /\ RamTyped' /\ block' = ClearedBlock
<1>1. ReadPage \in RuntimePages /\ flash[ReadPage] \in Logs
  BY PagesType DEF Reload, HwaTyped
<1>2. FirstFree(flash[ReadPage]) \in 0 .. PageSize
  BY FirstFreeType DEF BlockOffsets
<1>3. next' \in Positions
  BY <1>1, <1>2 DEF Reload, At, Positions
<1> QED BY <1>1, <1>3, ContentsType, ErasedTypes DEF Reload, HwaTyped, RamTyped

LEMMA ReloadFailsType ==
  ASSUME HwaTyped, RamTyped, ReloadFails
  PROVE  HwaTyped' /\ RamTyped' /\ block' = ClearedBlock
<1>1. CASE ReadPage = NoPage /\ cache' = ErasedCache /\ next' = At("Page1", 0)
  BY <1>1, ErasedTypes DEF ReloadFails, HwaTyped, RamTyped
<1>2. CASE ReadPage # NoPage /\ ~Decodes(flash[ReadPage])
  <2> DEFINE log == flash[ReadPage]
             stop == Least(Foreign(log))
  <2>1. ReadPage \in RuntimePages /\ log \in Logs
    BY <1>2, PagesType DEF HwaTyped
  <2>2. Foreign(log) \subseteq Offsets /\ Foreign(log) # {}
    BY <1>2, FirstFreeType DEF Decodes, Foreign
  <2>3. stop \in Offsets
    <3>1. Foreign(log) \subseteq Nat
      BY <2>2 DEF Offsets
    <3> QED BY <2>2, <3>1, LeastExists
  <2>4. /\ cache' = [a \in Addresses |-> NewestValue(log, a, 0 .. stop - 1)]
        /\ next' = At(ReadPage, BlockStart(stop) + EntriesPerBlock)
        /\ cacheDirty' = FALSE /\ block' = ClearedBlock
        /\ UNCHANGED <<flash, status, faults>>
    BY <1>2 DEF ReloadFails
  <2> HIDE DEF log, stop
  <2>5. 0 .. stop - 1 \subseteq Offsets
    BY <2>3, GeometryType DEF Offsets
  <2>6. cache' \in [Addresses -> Words]
    BY <2>1, <2>4, <2>5, NewestValueType
  <2>7. BlockStart(stop) + EntriesPerBlock \in 0 .. PageSize
    <3>1. BlockStart(stop) \in Offsets /\ BlockStart(stop) % EntriesPerBlock = 0
      BY <2>3, BlockStartType
    <3>2. BlockStart(stop) + EntriesPerBlock <= PageSize
      BY <3>1, BlockFits
    <3> QED BY <3>1, <3>2, GeometryType DEF Offsets
  <2>8. next' \in Positions
    BY <2>1, <2>4, <2>7 DEF At, Positions
  <2> QED BY <2>4, <2>6, <2>8, ErasedTypes DEF HwaTyped, RamTyped
<1> QED BY <1>1, <1>2 DEF ReloadFails

\* A copying loop stays at the start of a block.
LEMMA CopyBlockType ==
  ASSUME HwaTyped, CallTyped, NEW from \in RuntimePages \cup {"Factory"},
         NEW to \in Pages, cursor \in BlockOffsets, CopyBlock(from, to)
  PROVE  /\ HwaTyped' /\ CallTyped'
         /\ \/ pc' = pc /\ cursor' \in BlockOffsets
            \/ pc' = "idle"
<1> DEFINE data == [i \in Slots |-> flash[from][cursor + i]]
<1>1. cursor \in Offsets /\ cursor % EntriesPerBlock = 0 /\ cursor \in Nat
  BY GeometryType DEF CopyBlock, CopyDone, BlockOffsets, Offsets
<1>2. data \in Blocks
  <2>1. flash[from] \in Logs
    BY DEF HwaTyped, Pages
  <2>2. \A i \in Slots : cursor + i \in Offsets
    BY <1>1, BlockFits
  <2> QED BY <2>1, <2>2 DEF Blocks, Logs
<1>3. CASE /\ Program(to, cursor, data)
           /\ cursor' = cursor + EntriesPerBlock
           /\ UNCHANGED <<pc, op, entry, flag, oldPage, result>>
  <2>1. cursor' \in BlockOffsets
    BY <1>1, <1>3, BlockFits, GeometryType DEF BlockOffsets, Offsets
  <2>2. cursor' \in 0 .. PageSize + EntriesPerBlock
    BY <2>1, GeometryType DEF BlockOffsets
  <2>3. HwaTyped'
    <3> HIDE DEF data
    <3> QED BY <1>1, <1>2, <1>3, ProgramType
  <2> QED BY <1>3, <2>1, <2>2, <2>3 DEF CallTyped
<1>4. CASE Refuses(to, cursor, data) /\ Return("Error")
  <2> HIDE DEF data
  <2> QED BY <1>4, RefusesType, ReturnType DEF Results
<1> QED BY <1>3, <1>4 DEF CopyBlock

LEMMA EraseStepType ==
  ASSUME HwaTyped, CallTyped, status \in [Pages -> PageStatuses],
         NEW from, NEW p \in Pages, NEW to \in Steps, EraseStep(from, p, to)
  PROVE  /\ HwaTyped' /\ CallTyped' /\ status' \in [Pages -> PageStatuses]
         /\ pc = from /\ pc' \in {to, "idle", "off", "format_erase1"}
<1>1. CASE /\ Erase(p)
           /\ status' = [status EXCEPT ![p] = ERASED]
           /\ pc' = to
           /\ UNCHANGED <<locals, result>>
  BY <1>1, EraseType DEF EraseStep, CallTyped, locals, PageStatuses
<1>2. CASE Faulty /\ UNCHANGED status /\ Fail("Error")
  BY <1>2, FaultyType, FailType DEF EraseStep, Results
<1> QED BY <1>1, <1>2 DEF EraseStep

-----------------------------------------------------------------------------
(* Every action preserves the inductive invariant.                           *)

\* What a step that ends its call, or goes on with nothing staged, has to show.
LEMMA IndInvFrom ==
  ASSUME HwaTyped', RamTyped', CallTyped',
         pc' \notin {"store_copy", "restore_copy"},
         pc' \in ClearSteps => ~block'.dirty
  PROVE  IndInv'
BY DEF IndInv, TypeOK

LEMMA StartInitPreserves ==
  ASSUME IndInv, StartInit
  PROVE  IndInv'
<1> USE DEF IndInv, TypeOK
<1>1. pc' \in {"reload", "repair_erase", "resume_erase", "format_erase1"}
  BY DEF StartInit, Repair
<1>2. CallTyped'
  BY <1>1 DEF StartInit, CallTyped, BothValid, Steps
<1>3. next' \in Positions
  <2>1. \A p \in RuntimePages : At(p, FirstFree(flash[p])) \in Positions
    BY FirstFreeType DEF At, Positions, BlockOffsets
  <2> QED BY <2>1, ErasedTypes DEF StartInit, RuntimePages
<1>4. HwaTyped' /\ RamTyped' /\ ~block'.dirty
  BY <1>3, StatusOfType, ErasedTypes DEF StartInit, HwaTyped, RamTyped
<1> QED BY <1>1, <1>2, <1>4, IndInvFrom

LEMMA CallsPreserve ==
  ASSUME IndInv, CallStep
  PROVE  IndInv'
<1> USE DEF IndInv, TypeOK
<1>0. HwaTyped /\ RamTyped /\ CallTyped
  OBVIOUS
<1>1. ASSUME NEW a \in 0 .. OutOfRange, NEW v \in Values, Write(a, v)
      PROVE  IndInv'
  <2>1. Entry(a, v) \in Entries
    BY GeometryType DEF Entry, Entries, OutOfRange, RESERVED_STATUS_ADDRESS, Words
  <2>2. CallTyped' /\ pc' \in {"idle", "write"}
    BY <1>1, <2>1 DEF Write, Call, Answer, Begin, CallTyped, Steps, Results
  <2>3. HwaTyped' /\ RamTyped'
    BY <1>1 DEF Write, Call, ram, HwaTyped, RamTyped
  <2> QED BY <2>2, <2>3, IndInvFrom DEF ClearSteps
<1>2. ASSUME NEW a \in Addresses, NEW v \in Values, WriteCached(a, v)
      PROVE  IndInv'
  <2>1. CallTyped' /\ pc' = "idle"
    BY <1>2 DEF WriteCached, Call, Answer, CallTyped, Steps, Results
  <2>2. HwaTyped' /\ RamTyped'
    BY <1>2 DEF WriteCached, Call, HwaTyped, RamTyped, Words
  <2> QED BY <2>1, <2>2, IndInvFrom DEF ClearSteps
<1>3. ASSUME NEW a \in 0 .. OutOfRange, Read(a)
      PROVE  IndInv'
  <2>1. CallTyped' /\ pc' = "idle"
    BY <1>3 DEF Read, Call, Answer, CallTyped, Steps, Results
  <2>2. cache' \in [Addresses -> Words]
    <3>1. CASE UNCHANGED cache
      BY <3>1 DEF RamTyped
    <3>2. CASE /\ ReadPage # NoPage
               /\ cache' = [cache EXCEPT ![a] = NewestValue(flash[ReadPage], a, Scanned)]
      <4>1. flash[ReadPage] \in Logs
        BY <3>2, PagesType DEF HwaTyped
      <4>2. Scanned \subseteq Offsets
        BY GeometryType DEF Scanned, ScanLimit, Offsets, RamTyped, Positions
      <4> QED BY <3>2, <4>1, <4>2, NewestValueType DEF RamTyped
    <3> QED BY <1>3, <3>1, <3>2 DEF Read
  <2>3. HwaTyped' /\ RamTyped'
    BY <1>3, <2>2 DEF Read, Call, HwaTyped, RamTyped
  <2> QED BY <2>1, <2>3, IndInvFrom DEF ClearSteps
<1>4. ASSUME NEW p \in Pages, PageStatus(p)
      PROVE  IndInv'
  <2>1. CallTyped' /\ pc' = "idle"
    BY <1>4 DEF PageStatus, Call, Answer, CallTyped, Steps, Results
  <2>2. next' \in Positions
    BY <1>4, PagesType, WriteOffsetType DEF PageStatus, RamTyped, NoPage
  <2>3. 0 .. StatusLimit(p) - 1 \subseteq Offsets
    <3>1. StatusLimit(p) \in 0 .. PageSize
      BY PagesType, WriteOffsetType, GeometryType DEF StatusLimit, NoPage
    <3> QED BY <3>1, GeometryType DEF Offsets
  <2>4. status' \in [Pages -> PageStatuses]
    BY <1>4, <2>3, NewestStatusType DEF PageStatus, RamTyped, HwaTyped
  <2>5. HwaTyped' /\ RamTyped'
    BY <1>4, <2>2, <2>4 DEF PageStatus, Call, HwaTyped, RamTyped
  <2> QED BY <2>1, <2>5, IndInvFrom DEF ClearSteps
<1>5. ASSUME NEW c \in Calls, Flush(c)
      PROVE  IndInv'
  <2>1. CallTyped' /\ pc' \in {"xfer_flush", "flush_block"}
    BY <1>5 DEF Flush, Call, Begin, CallTyped, Steps, TransferSteps, Results
  <2>2. HwaTyped' /\ RamTyped'
    BY <1>5 DEF Flush, Call, ram, HwaTyped, RamTyped
  <2> QED BY <2>1, <2>2, IndInvFrom DEF ClearSteps
<1>6. CASE PageTransfer
  <2>1. CallTyped' /\ pc' = "xfer_flush"
    BY <1>6 DEF PageTransfer, Call, Begin, CallTyped, Steps, TransferSteps, Results
  <2>2. HwaTyped' /\ RamTyped'
    BY <1>6 DEF PageTransfer, Call, ram, HwaTyped, RamTyped
  <2> QED BY <2>1, <2>2, IndInvFrom DEF ClearSteps
<1>7. ASSUME NEW factory \in BOOLEAN, Format(factory)
      PROVE  IndInv'
  <2>1. CallTyped' /\ pc' = "format_erase1"
    BY <1>7 DEF Format, Call, Begin, CallTyped, Steps, Results
  <2>2. HwaTyped' /\ RamTyped'
    BY <1>7 DEF Format, Call, ram, HwaTyped, RamTyped
  <2> QED BY <2>1, <2>2, IndInvFrom DEF ClearSteps
<1>8. CASE RestoreFromFactory
  <2>1. CallTyped' /\ pc' \in {"idle", "restore_erase1"}
    BY <1>8 DEF RestoreFromFactory, Call, Begin, Answer, CallTyped, Steps, Results
  <2>2. status' \in [Pages -> PageStatuses]
    BY <1>8, StatusOfType DEF RestoreFromFactory, RamTyped, HwaTyped, Pages
  <2>3. HwaTyped' /\ RamTyped'
    BY <1>8, <2>2, ErasedTypes DEF RestoreFromFactory, Call, HwaTyped, RamTyped
  <2>4. pc' = "restore_erase1" => ~block'.dirty
    BY <1>8, ErasedTypes DEF RestoreFromFactory, Answer
  <2> QED BY <2>1, <2>3, <2>4, IndInvFrom DEF ClearSteps
<1>9. CASE InitCall
  BY <1>9, StartInitPreserves DEF InitCall
<1> QED BY <1>1, <1>2, <1>3, <1>4, <1>5, <1>6, <1>7, <1>8, <1>9 DEF CallStep

LEMMA AppendsPreserve ==
  ASSUME IndInv, AppendStep
  PROVE  IndInv'
<1> USE DEF IndInv, TypeOK
<1>1. CASE WriteInternal
  <2>1. CASE AppendEntry(entry) /\ Return("Ok")
    <3>1. CallTyped' /\ pc' = "idle"
      BY <2>1, ReturnType DEF Results
    <3>2. HwaTyped' /\ RamTyped'
      BY <1>1, <2>1, AppendEntryType DEF WriteInternal, CallTyped, RamTyped
    <3> QED BY <3>1, <3>2, IndInvFrom DEF ClearSteps
  <2>2. CASE AppendEntryFails(entry) /\ Return("WriteError")
    <3>1. CallTyped' /\ pc' = "idle"
      BY <2>2, ReturnType DEF Results
    <3>2. HwaTyped' /\ RamTyped'
      BY <1>1, <2>2, AppendEntryFailsType DEF WriteInternal, CallTyped, RamTyped
    <3> QED BY <3>1, <3>2, IndInvFrom DEF ClearSteps
  <2>3. ASSUME NEW res \in {"NoPage", "PageFull"}, NoRoom(res),
               IF pc = "write" /\ res = "PageFull"
               THEN Goto("write", "xfer_flush") /\ UNCHANGED <<locals, result>>
               ELSE Return(res)
        PROVE  IndInv'
    <3>1. CallTyped' /\ pc' \in {"idle", "xfer_flush"}
      BY <2>3, ReturnType DEF Results, Goto, CallTyped, locals, Steps, TransferSteps
    <3>2. HwaTyped' /\ RamTyped'
      BY <1>1, <2>3, NoRoomType DEF WriteInternal, RamTyped
    <3> QED BY <3>1, <3>2, IndInvFrom DEF ClearSteps
  <2> QED BY <1>1, <2>1, <2>2, <2>3 DEF WriteInternal
<1>2. CASE FlushStale \/ FlushStaleFails
  <2>1. next' \in Positions
    BY <1>2, PagesType, WriteOffsetType DEF FlushStale, FlushStaleFails, HasRoom
  <2>2. /\ block.page \in Pages /\ block.offset \in Nat /\ block.data \in Blocks
    BY PagesType DEF RamTyped, StagedBlocks, Offsets
  <2>3. HwaTyped'
    BY <1>2, <2>2, ProgramType, RefusesType DEF FlushStale, FlushStaleFails
  <2>4. RamTyped'
    BY <1>2, <2>1, ErasedTypes DEF FlushStale, FlushStaleFails, RamTyped
  <2>5. CallTyped' /\ (pc' = pc \/ pc' \in {"idle", "off", "format_erase1"})
    BY <1>2, FailType DEF FlushStale, FlushStaleFails, CallTyped, Results, locals
  <2>6. pc \in {"write", "write_again", "xfer_copy"}
    BY <1>2 DEF FlushStale, FlushStaleFails, AppendPoints
  <2> QED BY <2>3, <2>4, <2>5, <2>6, IndInvFrom DEF ClearSteps
<1> QED BY <1>1, <1>2 DEF AppendStep

LEMMA XferStatusPreserves ==
  ASSUME IndInv, NEW from, NEW p \in RuntimePages, NEW s \in StatusRecords,
         NEW to \in {"xfer_valid", "xfer_reload"}, XferStatus(from, p, s, to)
  PROVE  IndInv'
<1> USE DEF IndInv, TypeOK
<1>1. CASE /\ WritePageStatus(p, s) /\ next' = NextAfterStatus(p)
           /\ pc' = to
           /\ UNCHANGED <<locals, result>>
  <2>1. CallTyped'
    BY <1>1 DEF CallTyped, locals, Steps, TransferSteps
  <2>2. HwaTyped' /\ RamTyped' /\ ~block'.dirty
    BY <1>1, WritePageStatusType, ErasedTypes DEF XferStatus, RamTyped
  <2> QED BY <1>1, <2>1, <2>2, IndInvFrom
<1>2. CASE WritePageStatusFails(p, s) /\ Fail("WriteError")
  <2>1. CallTyped' /\ pc' \in {"idle", "off", "format_erase1"}
    BY <1>2, FailType DEF Results
  <2>2. HwaTyped' /\ RamTyped'
    BY <1>2, WritePageStatusFailsType DEF XferStatus, RamTyped
  <2> QED BY <2>1, <2>2, IndInvFrom DEF ClearSteps
<1> QED BY <1>1, <1>2 DEF XferStatus

LEMMA TransfersPreserve ==
  ASSUME IndInv, TransferStep
  PROVE  IndInv'
<1> USE DEF IndInv, TypeOK
<1>0. /\ oldPage \in RuntimePages /\ Other(oldPage) \in RuntimePages
      /\ {"Receiving", "Formatted", "Valid"} \subseteq StatusRecords
  BY PagesType DEF CallTyped, StatusRecords
<1>1. CASE XferFlush
  <2>1. CASE /\ FlushBlock /\ ReadPage # NoPage
             /\ pc' = "xfer_receiving"
             /\ oldPage' = ReadPage
             /\ UNCHANGED <<op, entry, flag, cursor, result>>
    <3>1. CallTyped'
      BY <2>1, PagesType DEF CallTyped, Steps, TransferSteps
    <3>2. HwaTyped' /\ RamTyped' /\ ~block'.dirty
      BY <1>1, <2>1, FlushBlockType, ErasedTypes DEF XferFlush, RamTyped
    <3> QED BY <2>1, <3>1, <3>2, IndInvFrom
  <2>2. CASE \/ FlushBlock /\ ReadPage = NoPage /\ Fail("NoPage")
             \/ FlushBlockFails /\ Fail("WriteError")
    <3>1. CallTyped' /\ pc' \in {"idle", "off", "format_erase1"}
      BY <2>2, FailType DEF Results
    <3>2. HwaTyped' /\ RamTyped'
      BY <1>1, <2>2, FlushBlockType, FlushBlockFailsType, ErasedTypes
         DEF XferFlush, RamTyped
    <3> QED BY <3>1, <3>2, IndInvFrom DEF ClearSteps
  <2> QED BY <1>1, <2>1, <2>2 DEF XferFlush
<1>2. CASE XferReceiving
  <2>1. CASE /\ WritePageStatus(Other(oldPage), "Receiving")
             /\ next' = At(Other(oldPage), 0)
             /\ pc' = "xfer_copy" /\ cursor' = 0
             /\ UNCHANGED <<op, entry, flag, oldPage, result>>
    <3>1. CallTyped'
      BY <2>1, GeometryType DEF CallTyped, Steps, TransferSteps
    <3>2. next' \in Positions
      BY <1>0, <2>1, GeometryType DEF At, Positions
    <3>3. HwaTyped' /\ RamTyped'
      BY <1>0, <1>2, <2>1, <3>2, WritePageStatusType, ErasedTypes
         DEF XferReceiving, RamTyped
    <3> QED BY <2>1, <3>1, <3>3, IndInvFrom DEF ClearSteps
  <2>2. CASE WritePageStatusFails(Other(oldPage), "Receiving") /\ Fail("WriteError")
    <3>1. CallTyped' /\ pc' \in {"idle", "off", "format_erase1"}
      BY <2>2, FailType DEF Results
    <3>2. HwaTyped' /\ RamTyped'
      BY <1>0, <1>2, <2>2, WritePageStatusFailsType DEF XferReceiving, RamTyped
    <3> QED BY <3>1, <3>2, IndInvFrom DEF ClearSteps
  <2> QED BY <1>2, <2>1, <2>2 DEF XferReceiving
<1>3. CASE XferCopy
  <2>1. Least(ToCopy) \in Addresses
    <3>1. ToCopy \subseteq Nat /\ ToCopy # {} /\ ToCopy \subseteq Addresses
      BY <1>3 DEF ToCopy, Addresses, XferCopy
    <3> QED BY <3>1, LeastExists
  <2>2. CopiedEntry \in Entries
    BY <2>1, GeometryType
       DEF CopiedEntry, Entry, Entries, RamTyped, Addresses, RESERVED_STATUS_ADDRESS
  <2>3. CASE /\ AppendEntry(CopiedEntry)
             /\ cursor' = Least(ToCopy) + 1
             /\ UNCHANGED <<pc, op, entry, flag, oldPage, result>>
    <3>1. cursor' \in 0 .. PageSize + EntriesPerBlock
      BY <2>1, <2>3, GeometryType DEF Addresses
    <3>2. CallTyped'
      BY <2>3, <3>1 DEF CallTyped
    <3>3. HwaTyped' /\ RamTyped'
      BY <1>3, <2>2, <2>3, AppendEntryType DEF XferCopy, RamTyped
    <3> QED BY <1>3, <2>3, <3>2, <3>3, IndInvFrom DEF ClearSteps, XferCopy
  <2>4. CASE \/ AppendEntryFails(CopiedEntry) /\ Fail("WriteError")
             \/ \E res \in {"NoPage", "PageFull"} : NoRoom(res) /\ Fail(res)
    <3>1. CallTyped' /\ pc' \in {"idle", "off", "format_erase1"}
      BY <2>4, FailType DEF Results
    <3>2. HwaTyped' /\ RamTyped'
      BY <1>3, <2>2, <2>4, AppendEntryFailsType, NoRoomType DEF XferCopy, RamTyped
    <3> QED BY <3>1, <3>2, IndInvFrom DEF ClearSteps
  <2> QED BY <1>3, <2>3, <2>4 DEF XferCopy
<1>4. CASE XferCopied
  <2>1. CASE FlushBlock /\ pc' = "xfer_erase" /\ cursor' = 0
             /\ UNCHANGED <<op, entry, flag, oldPage, result>>
    <3>1. CallTyped'
      BY <2>1, GeometryType DEF CallTyped, Steps, TransferSteps
    <3>2. HwaTyped' /\ RamTyped' /\ ~block'.dirty
      BY <1>4, <2>1, FlushBlockType, ErasedTypes DEF XferCopied, RamTyped
    <3> QED BY <2>1, <3>1, <3>2, IndInvFrom
  <2>2. CASE FlushBlockFails /\ Fail("WriteError")
    <3>1. CallTyped' /\ pc' \in {"idle", "off", "format_erase1"}
      BY <2>2, FailType DEF Results
    <3>2. HwaTyped' /\ RamTyped'
      BY <1>4, <2>2, FlushBlockFailsType DEF XferCopied, RamTyped
    <3> QED BY <3>1, <3>2, IndInvFrom DEF ClearSteps
  <2> QED BY <1>4, <2>1, <2>2 DEF XferCopied
<1>5. CASE XferErase
  <2>1. HwaTyped'
    BY <1>0, <1>5, EraseType, FaultyType, PagesType DEF XferErase
  <2>2. RamTyped' /\ ~block'.dirty
    BY <1>5 DEF XferErase, ram, RamTyped, ClearSteps
  <2>3. CallTyped' /\ pc' \in {"xfer_formatted", "idle", "off", "format_erase1"}
    BY <1>5, FailType DEF XferErase, CallTyped, locals, Results, Steps, TransferSteps
  <2> QED BY <2>1, <2>2, <2>3, IndInvFrom
<1>6. CASE XferFormatted
  BY <1>0, <1>6, XferStatusPreserves DEF XferFormatted
<1>7. CASE XferValid
  BY <1>0, <1>7, XferStatusPreserves DEF XferValid
<1>8. CASE XferReload
  <2>1. HwaTyped' /\ RamTyped' /\ ~block'.dirty
    BY <1>8, ReloadType, ReloadFailsType, ErasedTypes DEF XferReload
  <2>2. CallTyped' /\ pc' \notin {"store_copy", "restore_copy"}
    <3>1. CASE pc' \in {"write_again", "flush_block"} /\ UNCHANGED <<locals, result>>
      BY <3>1 DEF CallTyped, locals, Steps
    <3>2. CASE Return("Ok")
      BY <3>2, ReturnType DEF Results
    <3>3. CASE Fail("WriteError")
      BY <3>3, FailType DEF Results
    <3> QED BY <1>8, <3>1, <3>2, <3>3 DEF XferReload
  <2> QED BY <2>1, <2>2, IndInvFrom
<1> QED BY <1>1, <1>2, <1>3, <1>4, <1>5, <1>6, <1>7, <1>8 DEF TransferStep

LEMMA FactoryPreserves ==
  ASSUME IndInv, FactoryStep
  PROVE  IndInv'
<1> USE DEF IndInv, TypeOK
<1>0. "Factory" \in Pages /\ "Page1" \in Pages /\ "Page2" \in Pages
  BY DEF Pages, RuntimePages
<1>1. CASE FlushPending
  <2>1. HwaTyped' /\ RamTyped'
    BY <1>1, FlushBlockType, FlushBlockFailsType, ErasedTypes
       DEF FlushPending, RamTyped
  <2>2. CASE (FlushBlockFails /\ Return("Error")) \/ Return("Ok")
    BY <2>1, <2>2, ReturnType, IndInvFrom DEF ClearSteps, Results
  <2>3. CASE FlushBlock /\ pc' = "store_erase" /\ UNCHANGED <<locals, result>>
    <3>1. CallTyped'
      BY <2>3 DEF CallTyped, locals, Steps
    <3>2. ~block'.dirty
      BY <2>3, FlushBlockType, ErasedTypes
    <3> QED BY <2>1, <2>3, <3>1, <3>2, IndInvFrom
  <2> QED BY <1>1, <2>2, <2>3 DEF FlushPending
<1>2. CASE StoreErase
  <2>1. HwaTyped'
    BY <1>0, <1>2, EraseType, FaultyType DEF StoreErase, HwaTyped
  <2>2. RamTyped' /\ ~block'.dirty
    BY <1>2 DEF StoreErase, RamTyped, PageStatuses, ClearSteps
  <2>3. CASE Return("Error")
    BY <2>1, <2>2, <2>3, ReturnType, IndInvFrom DEF Results
  <2>4. CASE /\ ReadPage # NoPage
             /\ status' = [status EXCEPT !["Factory"] = ERASED]
             /\ pc' = "store_copy" /\ cursor' = 0
             /\ UNCHANGED <<op, entry, flag, oldPage, result>>
    <3>1. CallTyped' /\ cursor' \in BlockOffsets
      BY <2>4, GeometryType DEF CallTyped, Steps, BlockOffsets
    <3>2. ReadPage' # NoPage
      <4>1. /\ status'["Page1"] = status["Page1"]
            /\ status'["Page2"] = status["Page2"]
        BY <1>0, <2>4 DEF RamTyped
      <4> QED BY <2>4, <4>1 DEF ReadPage
    <3> QED BY <2>1, <2>2, <2>4, <3>1, <3>2
  <2> QED BY <1>2, <2>3, <2>4 DEF StoreErase
<1>3. CASE StoreCopy
  <2>1. ReadPage \in RuntimePages /\ cursor \in BlockOffsets
    BY <1>3, PagesType DEF StoreCopy
  <2>2. /\ HwaTyped' /\ CallTyped'
        /\ \/ pc' = pc /\ cursor' \in BlockOffsets
           \/ pc' = "idle"
    BY <1>0, <1>3, <2>1, CopyBlockType DEF StoreCopy
  <2>3. RamTyped' /\ ~block'.dirty /\ ReadPage' # NoPage
    BY <1>3 DEF StoreCopy, ram, RamTyped, ClearSteps, ReadPage
  <2> QED BY <1>3, <2>2, <2>3 DEF StoreCopy
<1>4. CASE StoreDone
  <2>1. ReadPage \in Pages
    BY <1>4, PagesType DEF StoreDone
  <2>2. HwaTyped' /\ RamTyped'
    BY <1>4, <2>1 DEF StoreDone, HwaTyped, RamTyped
  <2> QED BY <1>4, <2>2, ReturnType, IndInvFrom DEF StoreDone, Results, ClearSteps
<1>5. CASE RestoreErase1
  <2>1. /\ HwaTyped' /\ CallTyped' /\ status' \in [Pages -> PageStatuses]
        /\ pc' \in {"restore_erase2", "idle", "off", "format_erase1"}
        /\ pc = "restore_erase1"
    BY <1>0, <1>5, EraseStepType DEF RestoreErase1, RamTyped, Steps
  <2>2. RamTyped' /\ ~block'.dirty
    BY <1>5, <2>1 DEF RestoreErase1, RamTyped, ClearSteps
  <2> QED BY <2>1, <2>2, IndInvFrom
<1>6. CASE RestoreErase2
  <2>1. HwaTyped'
    BY <1>0, <1>6, EraseType, FaultyType DEF RestoreErase2
  <2>2. RamTyped' /\ ~block'.dirty
    BY <1>6, ErasedTypes DEF RestoreErase2, RamTyped, PageStatuses, ClearSteps
  <2>3. CASE Return("Error")
    BY <2>1, <2>2, <2>3, ReturnType, IndInvFrom DEF Results
  <2>4. CASE /\ pc' = "restore_copy" /\ cursor' = 0
             /\ UNCHANGED <<op, entry, flag, oldPage, result>>
    <3>1. CallTyped' /\ cursor' \in BlockOffsets
      BY <2>4, GeometryType DEF CallTyped, Steps, BlockOffsets
    <3> QED BY <2>1, <2>2, <2>4, <3>1
  <2> QED BY <1>6, <2>3, <2>4 DEF RestoreErase2
<1>7. CASE RestoreCopy
  <2>1. /\ HwaTyped' /\ CallTyped'
        /\ \/ pc' = pc /\ cursor' \in BlockOffsets
           \/ pc' = "idle"
    BY <1>0, <1>7, CopyBlockType DEF RestoreCopy
  <2>2. RamTyped' /\ ~block'.dirty
    BY <1>7 DEF RestoreCopy, ram, RamTyped, ClearSteps
  <2> QED BY <1>7, <2>1, <2>2 DEF RestoreCopy
<1>8. CASE RestoreValid
  <2>1. CASE /\ WritePageStatus("Page1", "Valid") /\ next' = NextAfterStatus("Page1")
             /\ pc' = "restore_formatted" /\ cursor' = 0
             /\ UNCHANGED <<op, entry, flag, oldPage, result>>
    <3>1. CallTyped'
      BY <2>1, GeometryType DEF CallTyped, Steps
    <3>2. HwaTyped' /\ RamTyped' /\ ~block'.dirty
      BY <1>8, <2>1, WritePageStatusType, ErasedTypes
         DEF RestoreValid, RamTyped, StatusRecords, RuntimePages
    <3> QED BY <2>1, <3>1, <3>2, IndInvFrom
  <2>2. CASE WritePageStatusFails("Page1", "Valid") /\ Return("Error")
    <3>1. HwaTyped' /\ RamTyped'
      BY <1>8, <2>2, WritePageStatusFailsType
         DEF RestoreValid, RamTyped, StatusRecords, RuntimePages
    <3> QED BY <2>2, <3>1, ReturnType, IndInvFrom DEF Results, ClearSteps
  <2> QED BY <1>8, <2>1, <2>2 DEF RestoreValid
<1>9. CASE RestoreFormatted
  <2>1. CASE /\ WritePageStatus("Page2", "Formatted")
             /\ next' = At("Page1", 0)
             /\ pc' = "reload"
             /\ UNCHANGED <<locals, result>>
    <3>1. CallTyped'
      BY <2>1 DEF CallTyped, locals, Steps
    <3>2. HwaTyped' /\ RamTyped' /\ ~block'.dirty
      BY <1>9, <2>1, WritePageStatusType, ErasedTypes
         DEF RestoreFormatted, RamTyped, StatusRecords, RuntimePages
    <3> QED BY <2>1, <3>1, <3>2, IndInvFrom
  <2>2. CASE WritePageStatusFails("Page2", "Formatted") /\ Return("Error")
    <3>1. HwaTyped' /\ RamTyped'
      BY <1>9, <2>2, WritePageStatusFailsType
         DEF RestoreFormatted, RamTyped, StatusRecords, RuntimePages
    <3> QED BY <2>2, <3>1, ReturnType, IndInvFrom DEF Results, ClearSteps
  <2> QED BY <1>9, <2>1, <2>2 DEF RestoreFormatted
<1> QED BY <1>1, <1>2, <1>3, <1>4, <1>5, <1>6, <1>7, <1>8, <1>9 DEF FactoryStep

LEMMA FormatsPreserve ==
  ASSUME IndInv, FormatStep
  PROVE  IndInv'
<1> USE DEF IndInv, TypeOK
<1>0. /\ "Factory" \in Pages /\ "Page1" \in Pages /\ "Page2" \in Pages
      /\ "Page1" \in RuntimePages /\ "Page2" \in RuntimePages
      /\ {"Formatted", "Valid"} \subseteq StatusRecords
  BY DEF Pages, RuntimePages, StatusRecords
<1>1. CASE FormatErase1
  <2>1. /\ HwaTyped' /\ CallTyped' /\ status' \in [Pages -> PageStatuses]
        /\ pc' \in {"format_erase2", "idle", "off", "format_erase1"}
    BY <1>0, <1>1, EraseStepType DEF FormatErase1, RamTyped, Steps
  <2>2. RamTyped' /\ ~block'.dirty
    BY <1>1, <2>1, ErasedTypes DEF FormatErase1, RamTyped
  <2> QED BY <2>1, <2>2, IndInvFrom
<1>2. CASE FormatErase2
  <2>1. /\ HwaTyped' /\ CallTyped' /\ status' \in [Pages -> PageStatuses]
        /\ pc' \in {"format_erase_factory", "format_valid", "idle", "off",
                    "format_erase1"}
        /\ pc = "format_erase2"
    BY <1>0, <1>2, EraseStepType DEF FormatErase2, RamTyped, Steps
  <2>2. RamTyped' /\ ~block'.dirty
    BY <1>2, <2>1 DEF FormatErase2, RamTyped, ClearSteps
  <2> QED BY <2>1, <2>2, IndInvFrom
<1>3. CASE FormatEraseFactory
  <2>1. /\ HwaTyped' /\ CallTyped' /\ status' \in [Pages -> PageStatuses]
        /\ pc' \in {"format_valid", "idle", "off", "format_erase1"}
        /\ pc = "format_erase_factory"
    BY <1>0, <1>3, EraseStepType DEF FormatEraseFactory, RamTyped, Steps
  <2>2. RamTyped' /\ ~block'.dirty
    BY <1>3, <2>1 DEF FormatEraseFactory, RamTyped, ClearSteps
  <2> QED BY <2>1, <2>2, IndInvFrom
<1>4. CASE FormatValid
  <2>1. CASE /\ WritePageStatus("Page1", "Valid") /\ next' = NextAfterStatus("Page1")
             /\ pc' = "format_formatted"
             /\ UNCHANGED <<locals, result>>
    <3>1. CallTyped'
      BY <2>1 DEF CallTyped, locals, Steps
    <3>2. HwaTyped' /\ RamTyped' /\ ~block'.dirty
      BY <1>0, <1>4, <2>1, WritePageStatusType, ErasedTypes DEF FormatValid, RamTyped
    <3> QED BY <2>1, <3>1, <3>2, IndInvFrom
  <2>2. CASE WritePageStatusFails("Page1", "Valid") /\ Fail("Error")
    <3>1. CallTyped' /\ pc' \in {"idle", "off", "format_erase1"}
      BY <2>2, FailType DEF Results
    <3>2. HwaTyped' /\ RamTyped'
      BY <1>0, <1>4, <2>2, WritePageStatusFailsType, ErasedTypes
         DEF FormatValid, RamTyped
    <3> QED BY <3>1, <3>2, IndInvFrom DEF ClearSteps
  <2> QED BY <1>4, <2>1, <2>2 DEF FormatValid
<1>5. CASE FormatFormatted
  <2>1. CASE /\ WritePageStatus("Page2", "Formatted")
             /\ next' = At("Page1", 0)
             /\ IF op = "init" /\ flag
                THEN pc' = "reload" /\ UNCHANGED <<locals, result>>
                ELSE Return("Ok")
    <3>1. CallTyped' /\ pc' \in {"reload", "idle"}
      BY <2>1, ReturnType DEF CallTyped, locals, Steps, Results
    <3>2. HwaTyped' /\ RamTyped' /\ ~block'.dirty
      BY <1>0, <1>5, <2>1, WritePageStatusType, ErasedTypes
         DEF FormatFormatted, RamTyped
    <3> QED BY <3>1, <3>2, IndInvFrom
  <2>2. CASE WritePageStatusFails("Page2", "Formatted") /\ Fail("Error")
    <3>1. CallTyped' /\ pc' \in {"idle", "off", "format_erase1"}
      BY <2>2, FailType DEF Results
    <3>2. HwaTyped' /\ RamTyped'
      BY <1>0, <1>5, <2>2, WritePageStatusFailsType DEF FormatFormatted, RamTyped
    <3> QED BY <3>1, <3>2, IndInvFrom DEF ClearSteps
  <2> QED BY <1>5, <2>1, <2>2 DEF FormatFormatted
<1> QED BY <1>1, <1>2, <1>3, <1>4, <1>5 DEF FormatStep

LEMMA RepairErasePreserves ==
  ASSUME IndInv, NEW from \in {"repair_erase", "resume_erase"},
         NEW to \in {"repair_formatted", "resume_reload"}, RepairErase(from, to)
  PROVE  IndInv'
<1> USE DEF IndInv, TypeOK
<1>1. HwaTyped'
  BY EraseType, FaultyType, PagesType DEF RepairErase
<1>2. RamTyped' /\ ~block'.dirty
  BY DEF RepairErase, ram, RamTyped, ClearSteps
<1>3. CASE pc' = to /\ UNCHANGED <<locals, result>>
  <2>1. CallTyped'
    BY <1>3 DEF CallTyped, locals, Steps
  <2> QED BY <1>1, <1>2, <1>3, <2>1, IndInvFrom
<1>4. CASE Fail("Error")
  BY <1>1, <1>2, <1>4, FailType, IndInvFrom DEF Results
<1> QED BY <1>3, <1>4 DEF RepairErase

LEMMA BootsPreserve ==
  ASSUME IndInv, BootStep
  PROVE  IndInv'
<1> USE DEF IndInv, TypeOK
<1>1. CASE Boot
  BY <1>1, StartInitPreserves DEF Boot
<1>2. CASE EraseUnused
  BY <1>2, RepairErasePreserves DEF EraseUnused
<1>3. CASE EraseReceiving
  BY <1>3, RepairErasePreserves DEF EraseReceiving
<1>4. CASE RepairFormatted
  <2>1. CASE /\ WritePageStatus(Other(ReadPage), "Formatted")
             /\ next' = NextAfterStatus(Other(ReadPage))
             /\ pc' = "reload"
             /\ UNCHANGED <<locals, result>>
    <3>1. CallTyped'
      BY <2>1 DEF CallTyped, locals, Steps
    <3>2. HwaTyped' /\ RamTyped' /\ ~block'.dirty
      BY <1>4, <2>1, WritePageStatusType, PagesType, ErasedTypes
         DEF RepairFormatted, RamTyped, StatusRecords
    <3> QED BY <2>1, <3>1, <3>2, IndInvFrom
  <2>2. CASE WritePageStatusFails(Other(ReadPage), "Formatted") /\ Fail("Error")
    <3>1. CallTyped' /\ pc' \in {"idle", "off", "format_erase1"}
      BY <2>2, FailType DEF Results
    <3>2. HwaTyped' /\ RamTyped'
      BY <1>4, <2>2, WritePageStatusFailsType, PagesType
         DEF RepairFormatted, RamTyped, StatusRecords
    <3> QED BY <3>1, <3>2, IndInvFrom DEF ClearSteps
  <2> QED BY <1>4, <2>1, <2>2 DEF RepairFormatted
<1>5. CASE ResumeReload
  <2>1. HwaTyped' /\ RamTyped' /\ ~block'.dirty
    BY <1>5, ReloadType, ReloadFailsType, ErasedTypes DEF ResumeReload
  <2>2. CallTyped' /\ pc' \in {"xfer_flush", "format_erase1"}
    BY <1>5 DEF ResumeReload, CallTyped, locals, Steps, TransferSteps
  <2> QED BY <2>1, <2>2, IndInvFrom
<1>6. CASE FinalReload
  <2>1. HwaTyped' /\ RamTyped' /\ ~block'.dirty
    BY <1>6, ReloadType, ReloadFailsType, ErasedTypes DEF FinalReload
  <2>2. CASE \E res \in {"Ok", "Error"} : Return(res)
    BY <2>1, <2>2, ReturnType, IndInvFrom DEF Results
  <2>3. CASE /\ pc' = "format_erase1" /\ flag' = FALSE
             /\ UNCHANGED <<op, entry, oldPage, cursor, result>>
    <3>1. CallTyped'
      BY <2>3 DEF CallTyped, Steps
    <3> QED BY <2>1, <2>3, <3>1, IndInvFrom
  <2> QED BY <1>6, <2>2, <2>3 DEF FinalReload, Goto
<1> QED BY <1>1, <1>2, <1>3, <1>4, <1>5, <1>6 DEF BootStep

LEMMA PowerLossPreserves ==
  ASSUME IndInv, PowerLoss
  PROVE  IndInv'
<1> USE DEF IndInv, TypeOK
<1>1. HwaTyped' /\ RamTyped'
  BY ErasedTypes DEF PowerLoss, HwaTyped, RamTyped, PageStatuses
<1>2. CallTyped' /\ pc' = "off"
  <2>1. /\ Blank \in Entries /\ 0 \in 0 .. PageSize + EntriesPerBlock
        /\ "Page1" \in RuntimePages /\ "off" \in Steps /\ "Ok" \in Results
    BY ErasedTypes, GeometryType DEF RuntimePages, Steps, Results
  <2> QED BY <2>1 DEF PowerLoss, CallTyped
<1> QED BY <1>1, <1>2, IndInvFrom DEF ClearSteps

-----------------------------------------------------------------------------
(* The invariant, and what it implies.                                       *)

LEMMA InitEstablishes == Init => IndInv
<1> SUFFICES ASSUME Init PROVE IndInv
  OBVIOUS
<1>1. HwaTyped
  BY ConstantsAssumption DEF Init, HwaTyped
<1>2. RamTyped
  BY ErasedTypes DEF Init, RamTyped, PageStatuses
<1>3. CallTyped /\ pc = "off"
  <2>1. /\ Blank \in Entries /\ 0 \in 0 .. PageSize + EntriesPerBlock
        /\ "Page1" \in RuntimePages /\ "off" \in Steps /\ "Ok" \in Results
    BY ErasedTypes, GeometryType DEF RuntimePages, Steps, Results
  <2> QED BY <2>1 DEF Init, CallTyped
<1> QED BY <1>1, <1>2, <1>3 DEF IndInv, TypeOK, ClearSteps

LEMMA StepPreserves == IndInv /\ [Next]_vars => IndInv'
<1> SUFFICES ASSUME IndInv, [Next]_vars PROVE IndInv'
  OBVIOUS
<1>1. CASE UNCHANGED vars
  BY <1>1 DEF vars, ram, locals, IndInv, TypeOK, HwaTyped, RamTyped, CallTyped, ReadPage
<1>2. CASE CallStep
  BY <1>2, CallsPreserve
<1>3. CASE Step
  BY <1>3, AppendsPreserve, TransfersPreserve, FactoryPreserves, FormatsPreserve,
     BootsPreserve DEF Step
<1>4. CASE PowerLoss
  BY <1>4, PowerLossPreserves
<1> QED BY <1>1, <1>2, <1>3, <1>4 DEF Next

LEMMA Invariance == Spec => []IndInv
BY InitEstablishes, StepPreserves, PTL DEF Spec

\* Every variable keeps its type: no cached offset points past the end of a
\* page, no staged block or copied block crosses one (write_internal(),
\* flush_write_block(), store_to_factory()), whatever the geometry, the initial
\* flash and the failures.
THEOREM TypeCorrect == Spec => []TypeOK
<1>1. IndInv => TypeOK
  BY DEF IndInv
<1> QED BY <1>1, Invariance, PTL

\* Whenever write_page_status() runs, no entry block is staged: a status record
\* never shares a block with entries, nor drops one, on any success or error
\* path of transfer, format, restore and init().
THEOREM StatusRecordsStandAlone == Spec => []NoBlockStagedAtStatus
<1>1. IndInv => NoBlockStagedAtStatus
  BY DEF IndInv, NoBlockStagedAtStatus, ClearSteps
<1> QED BY <1>1, Invariance, PTL

-----------------------------------------------------------------------------
(* Pages: which can be Valid, and what init() makes of them.                 *)

ValidMark(e) == e.address = RESERVED_STATUS_ADDRESS /\ e.value = "Valid"

IsValid(p) == StatusOf(flash[p]) = "Valid"

\* A Valid record that could not be written stays staged, and is written by the
\* next flush.
StagesValid == block.dirty /\ \E i \in Slots : ValidMark(block.data[i])
StagedAlone == StagesValid => ~IsValid(Other(block.page))

\* The inductive invariant: wherever a Valid record is about to be written, the
\* other runtime page is not Valid.
OneAtATime ==
  /\ StagedAlone
  /\ ~ValidMark(entry)
  /\ pc \in {"xfer_formatted", "xfer_valid"} => ~IsValid(oldPage)
  /\ pc \in {"format_erase_factory", "format_valid", "restore_copy"}
       => ~IsValid("Page2")

\* The steps before which the invariant says something of a page.
AloneSteps == {"xfer_formatted", "xfer_valid", "format_erase_factory",
               "format_valid", "restore_copy"}

\* A page becomes Valid only while the other one is not.
BecomesAlone ==
  \A p \in RuntimePages : IsValid(p)' => IsValid(p) \/ ~IsValid(Other(p))'

-----------------------------------------------------------------------------
(* What a programmed block does to the newest status record.                 *)

Marks(log) == {o \in Offsets : /\ log[o].address = RESERVED_STATUS_ADDRESS
                               /\ log[o].value \in StatusRecords}

LEMMA StatusOfNewestMark ==
  ASSUME NEW log
  PROVE  /\ Marks(log) = {} => StatusOf(log) = ERASED
         /\ \A m \in Marks(log) :
              (\A o \in Marks(log) : m >= o) => StatusOf(log) = log[m].value
<1>1. StatusOf(log) = IF Marks(log) = {} THEN ERASED ELSE log[Greatest(Marks(log))].value
  BY DEF StatusOf, NewestStatus, Marks
<1>2. ASSUME NEW m \in Marks(log), \A o \in Marks(log) : m >= o
      PROVE  Greatest(Marks(log)) = m
  <2>1. Marks(log) \subseteq Offsets
    BY DEF Marks
  <2>2. Greatest(Marks(log)) \in Marks(log) /\ Greatest(Marks(log)) >= m
    BY <1>2, <2>1, NewestIn
  <2>3. \A o \in Offsets : o \in Int
    BY DEF Offsets
  <2> QED BY <1>2, <2>1, <2>2, <2>3
<1> QED BY <1>1, <1>2

LEMMA ProgrammedStatus ==
  ASSUME NEW log \in Logs, NEW at \in Nat, NEW data \in Blocks,
         \A i \in Slots : log[at + i] \in {Blank, data[i]},
         StatusOf(Programmed(log, at, data)) = "Valid"
  PROVE  StatusOf(log) = "Valid" \/ \E i \in Slots : ValidMark(data[i])
<1> DEFINE new == Programmed(log, at, data)
           m == Greatest(Marks(new))
           written == at .. at + EntriesPerBlock - 1
<1>1. \A o \in Offsets : new[o] = IF o \in written THEN data[o - at] ELSE log[o]
  BY DEF Programmed
<1>2. \A o \in Offsets : o \in written => o - at \in Slots /\ at + (o - at) = o
  BY GeometryType DEF Offsets, Slots
<1> HIDE DEF new, written
<1>3. Marks(new) # {}
  BY StatusOfNewestMark DEF ERASED, new
<1>4. m \in Marks(new) /\ \A o \in Marks(new) : m >= o
  <2>1. Marks(new) \subseteq Offsets
    BY DEF Marks
  <2> QED BY <1>3, <2>1, NewestIn
<1> HIDE DEF m
<1>5. new[m].value = "Valid" /\ new[m].address = RESERVED_STATUS_ADDRESS /\ m \in Offsets
  BY <1>4, StatusOfNewestMark DEF new, Marks
<1>6. CASE m \in written
  BY <1>1, <1>2, <1>5, <1>6 DEF ValidMark
<1>7. CASE m \notin written
  <2>1. log[m] = new[m]
    BY <1>1, <1>5, <1>7
  <2>2. m \in Marks(log)
    BY <1>5, <2>1 DEF Marks, StatusRecords
  <2>3. ASSUME NEW o \in Marks(log) PROVE o \in Marks(new)
    <3>1. o \in Offsets /\ log[o].value \in StatusRecords
      BY DEF Marks
    <3>2. log[o] # Blank
      BY <3>1 DEF Blank, Entry, StatusRecords, ERASED
    <3>3. new[o] = log[o]
      BY <1>1, <1>2, <3>1, <3>2
    <3> QED BY <3>1, <3>3 DEF Marks
  <2>4. StatusOf(log) = log[m].value
    BY <1>4, <2>2, <2>3, StatusOfNewestMark
  <2> QED BY <1>5, <2>1, <2>4
<1> QED BY <1>6, <1>7

LEMMA ErasedIsNotValid == StatusOf(ErasedLog) # "Valid"
<1>1. Marks(ErasedLog) = {}
  BY DEF Marks, ErasedLog, Blank, Entry, StatusRecords, ERASED
<1> QED BY <1>1, StatusOfNewestMark DEF ERASED

LEMMA OtherPage ==
  ASSUME NEW p \in RuntimePages
  PROVE  Other(p) \in RuntimePages /\ Other(p) # p /\ Other(Other(p)) = p
BY DEF Other, RuntimePages

-----------------------------------------------------------------------------
(* What the parts of an action do to the Valid pages.                        *)

LEMMA ProgramMakesValid ==
  ASSUME HwaTyped, NEW p \in Pages, NEW at \in Nat, NEW data \in Blocks,
         Program(p, at, data), NEW q \in Pages, IsValid(q)'
  PROVE  IsValid(q) \/ (q = p /\ \E i \in Slots : ValidMark(data[i]))
<1>1. flash' = [flash EXCEPT ![p] = Programmed(flash[p], at, data)]
      /\ flash \in [Pages -> Logs]
  BY DEF Program, HwaTyped
<1>2. CASE q # p
  BY <1>1, <1>2 DEF IsValid
<1>3. CASE q = p
  <2>1. StatusOf(Programmed(flash[p], at, data)) = "Valid"
    BY <1>1, <1>3 DEF IsValid
  <2>2. \A i \in Slots : flash[p][at + i] \in {Blank, data[i]}
    BY DEF Program, Accepts
  <2>3. flash[p] \in Logs
    BY <1>1
  <2> QED BY <1>3, <2>1, <2>2, <2>3, ProgrammedStatus DEF IsValid
<1> QED BY <1>2, <1>3

LEMMA EraseMakesInvalid ==
  ASSUME HwaTyped, NEW p \in Pages, Erase(p)
  PROVE  \A q \in Pages : IsValid(q)' => IsValid(q) /\ q # p
<1>1. flash' = [flash EXCEPT ![p] = ErasedLog] /\ flash \in [Pages -> Logs]
  BY DEF Erase, HwaTyped
<1> QED BY <1>1, ErasedIsNotValid DEF IsValid

LEMMA RefusesKeepsFlash ==
  ASSUME NEW p, NEW at, NEW data, Refuses(p, at, data)
  PROVE  flash' = flash
BY DEF Refuses, Faulty

LEMMA ClearedStagesNothing ==
  ASSUME block' = ClearedBlock
  PROVE  ~StagesValid' /\ StagedAlone'
BY DEF ClearedBlock, StagesValid, StagedAlone

\* Nothing becomes Valid and nothing new is staged.
LEMMA QuietKeeps ==
  ASSUME \A q \in Pages : IsValid(q)' => IsValid(q),
         RamTyped, StagedAlone,
         block' = block \/ ~block'.dirty \/ ~StagesValid'
  PROVE  BecomesAlone /\ StagedAlone'
<1>1. BecomesAlone
  BY DEF BecomesAlone, Pages
<1>2. CASE ~block'.dirty \/ ~StagesValid'
  BY <1>1, <1>2 DEF StagesValid, StagedAlone
<1>3. CASE block' = block
  <2>1. PICK p \in RuntimePages : p = block.page
    BY DEF RamTyped, StagedBlocks
  <2>2. IsValid(Other(p))' => IsValid(Other(p))
    BY OtherPage DEF Pages
  <2>3. StagesValid' = StagesValid
    BY <1>3 DEF StagesValid
  <2>4. StagesValid => ~IsValid(Other(p))
    BY <2>1 DEF StagedAlone
  <2>5. StagesValid' => ~IsValid(Other(p))'
    BY <2>2, <2>3, <2>4
  <2> QED BY <1>1, <1>3, <2>1, <2>5 DEF StagedAlone, IsValid
<1> QED BY <1>2, <1>3

LEMMA SameFlashQuiet ==
  ASSUME flash' = flash
  PROVE  \A q : IsValid(q)' = IsValid(q)
BY DEF IsValid

\* A block that is programmed makes its page Valid only while the other is not.
LEMMA ProgramAlone ==
  ASSUME HwaTyped, NEW p \in RuntimePages, NEW at \in Nat, NEW data \in Blocks,
         Program(p, at, data),
         (\E i \in Slots : ValidMark(data[i])) => ~IsValid(Other(p))
  PROVE  BecomesAlone
<1> SUFFICES ASSUME NEW q \in RuntimePages, IsValid(q)', ~IsValid(q)
             PROVE  ~IsValid(Other(q))'
  BY DEF BecomesAlone
<1>1. q = p /\ \E i \in Slots : ValidMark(data[i])
  BY ProgramMakesValid DEF Pages
<1>2. ~IsValid(Other(p)) /\ Other(p) \in Pages /\ Other(p) # p
  BY <1>1, OtherPage DEF Pages
<1>3. p \in Pages
  BY DEF Pages
<1>4. IsValid(Other(p))' => IsValid(Other(p))
  BY <1>2, <1>3, ProgramMakesValid
<1> QED BY <1>1, <1>2, <1>4

\* The staged block is written by a flush, on its own or before another entry.
LEMMA StagedIsWritten ==
  ASSUME HwaTyped, RamTyped, StagedAlone, block.dirty,
         Program(block.page, block.offset, block.data)
  PROVE  BecomesAlone
<1>1. PICK p \in RuntimePages : p = block.page
  BY DEF RamTyped, StagedBlocks
<1>2. block.offset \in Nat /\ block.data \in Blocks
  BY DEF RamTyped, StagedBlocks, Offsets
<1>3. (\E i \in Slots : ValidMark(block.data[i])) => ~IsValid(Other(p))
  BY <1>1 DEF StagedAlone, StagesValid
<1> QED BY <1>1, <1>2, <1>3, ProgramAlone

LEMMA FlushBlockAlone ==
  ASSUME HwaTyped, RamTyped, StagedAlone, FlushBlock
  PROVE  BecomesAlone /\ StagedAlone'
<1>1. StagedAlone'
  BY ClearedStagesNothing DEF FlushBlock
<1>2. CASE block.dirty
  BY <1>1, <1>2, StagedIsWritten DEF FlushBlock
<1>3. CASE ~block.dirty
  BY <1>1, <1>3, SameFlashQuiet DEF FlushBlock, BecomesAlone
<1> QED BY <1>2, <1>3

LEMMA FlushBlockFailsAlone ==
  ASSUME RamTyped, StagedAlone, FlushBlockFails
  PROVE  BecomesAlone /\ StagedAlone'
<1>1. flash' = flash
  BY RefusesKeepsFlash DEF FlushBlockFails
<1> QED BY <1>1, SameFlashQuiet, QuietKeeps DEF FlushBlockFails

LEMMA StatusBlockMarks ==
  ASSUME NEW s \in StatusRecords, NEW i \in Slots, ValidMark(StatusBlock(s)[i])
  PROVE  s = "Valid"
BY DEF StatusBlock, ValidMark, Blank, Entry, ERASED

\* Only a Valid record makes a page Valid, and it is written or staged only
\* while the other page is not.
LEMMA WritePageStatusAlone ==
  ASSUME HwaTyped, RamTyped, NEW p \in RuntimePages, NEW s \in StatusRecords,
         s = "Valid" => ~IsValid(Other(p)), WritePageStatus(p, s)
  PROVE  /\ BecomesAlone /\ StagedAlone'
         /\ \A q \in Pages : IsValid(q)' => IsValid(q) \/ (q = p /\ s = "Valid")
<1>1. FirstFree(flash[p]) \in Nat /\ StatusBlock(s) \in Blocks /\ p \in Pages
  BY FirstFreeType, StatusBlockType DEF WritePageStatus, Offsets, Pages
<1>2. Program(p, FirstFree(flash[p]), StatusBlock(s)) /\ block' = ClearedBlock
  BY DEF WritePageStatus
<1>3. (\E i \in Slots : ValidMark(StatusBlock(s)[i])) => s = "Valid"
  BY StatusBlockMarks
<1>4. BecomesAlone
  BY <1>1, <1>2, <1>3, ProgramAlone
<1>5. \A q \in Pages : IsValid(q)' => IsValid(q) \/ (q = p /\ s = "Valid")
  BY <1>1, <1>2, <1>3, ProgramMakesValid
<1> QED BY <1>2, <1>4, <1>5, ClearedStagesNothing

LEMMA WritePageStatusFailsAlone ==
  ASSUME RamTyped, StagedAlone, NEW p \in RuntimePages, NEW s \in StatusRecords,
         s = "Valid" => ~IsValid(Other(p)), WritePageStatusFails(p, s)
  PROVE  BecomesAlone /\ StagedAlone'
<1>1. flash' = flash
  BY RefusesKeepsFlash DEF WritePageStatusFails
<1>2. CASE block' = block
  BY <1>1, <1>2, SameFlashQuiet, QuietKeeps
<1>3. CASE block' = [page |-> p, offset |-> FirstFree(flash[p]), entries |-> 1,
                     dirty |-> TRUE, data |-> StatusBlock(s)]
  <2>1. block'.page = p /\ block'.data = StatusBlock(s)
    BY <1>3
  <2>2. StagesValid' => s = "Valid"
    BY <2>1, StatusBlockMarks DEF StagesValid
  <2>3. ~IsValid(Other(p)) => ~IsValid(Other(p))'
    BY <1>1, SameFlashQuiet
  <2>4. StagedAlone'
    BY <2>1, <2>2, <2>3 DEF StagedAlone, IsValid
  <2> QED BY <1>1, <2>4, SameFlashQuiet DEF BecomesAlone
<1> QED BY <1>2, <1>3 DEF WritePageStatusFails

\* An entry added to the staged block is no status record.
LEMMA StagedMarks ==
  ASSUME RamTyped, StagedAlone, NEW e \in Entries, ~ValidMark(e),
         HasRoom, ~StagedElsewhere, NEW i \in Slots, ValidMark(Staged(e).data[i])
  PROVE  ~IsValid(Other(Staged(e).page))
<1> DEFINE o == WriteOffset(WritePage)
           j == o - BlockStart(o)
           base == IF block.dirty THEN block
                   ELSE [ClearedBlock EXCEPT !.page = WritePage,
                           !.offset = BlockStart(o), !.dirty = TRUE]
<1>1. base \in StagedBlocks
  <2>1. block \in StagedBlocks /\ ClearedBlock \in StagedBlocks
    BY ErasedTypes DEF RamTyped
  <2>2. WritePage \in RuntimePages /\ o \in Offsets
    BY PagesType, WriteOffsetType DEF HasRoom
  <2>3. BlockStart(o) \in {x \in Offsets : x % EntriesPerBlock = 0}
    BY <2>2, BlockStartType
  <2> HIDE DEF o
  <2> QED BY <2>1, <2>2, <2>3 DEF StagedBlocks
<1>2. Staged(e) = [base EXCEPT !.data[j] = e,
                     !.entries = IF @ < EntriesPerBlock THEN @ + 1 ELSE @]
  BY DEF Staged
<1>3. ~block.dirty => \A x \in Slots : base.data[x] = Blank
  BY DEF ClearedBlock
<1>4. block.dirty => base = block
  OBVIOUS
<1> HIDE DEF base, j
<1>5. Staged(e).page = base.page /\ Staged(e).data = [base.data EXCEPT ![j] = e]
  BY <1>1, <1>2 DEF StagedBlocks
<1>6. base.data \in [Slots -> Entries]
  BY <1>1 DEF StagedBlocks, Blocks
<1>7. ValidMark(base.data[i])
  <2>1. Staged(e).data[i] \in {e, base.data[i]}
    BY <1>5, <1>6
  <2> QED BY <2>1
<1>8. ~ValidMark(Blank)
  BY DEF ValidMark, Blank, Entry, ERASED
<1>9. block.dirty
  BY <1>3, <1>7, <1>8
<1>10. StagesValid /\ Staged(e).page = block.page
  BY <1>4, <1>5, <1>7, <1>9 DEF StagesValid
<1> QED BY <1>10 DEF StagedAlone

LEMMA AppendEntryAlone ==
  ASSUME HwaTyped, RamTyped, StagedAlone, NEW e \in Entries, ~ValidMark(e),
         AppendEntry(e)
  PROVE  BecomesAlone /\ StagedAlone'
<1>1. Staged(e) \in StagedBlocks
  BY StagedType DEF AppendEntry
<1>2. PICK b \in StagedBlocks : b = Staged(e)
  BY <1>1
<1>3. (\E i \in Slots : ValidMark(b.data[i])) => ~IsValid(Other(b.page))
  BY <1>2, StagedMarks DEF AppendEntry
<1>4. b.page \in RuntimePages /\ b.offset \in Nat /\ b.data \in Blocks
  BY DEF StagedBlocks, Offsets
<1>5. CASE BlockFull(b)
  <2>1. Program(b.page, b.offset, b.data) /\ block' = ClearedBlock
    BY <1>2, <1>5 DEF AppendEntry
  <2> QED BY <1>3, <1>4, <2>1, ProgramAlone, ClearedStagesNothing
<1>6. CASE ~BlockFull(b)
  <2>1. block' = b /\ flash' = flash
    BY <1>2, <1>6 DEF AppendEntry
  <2>2. StagedAlone'
    BY <1>3, <2>1 DEF StagedAlone, StagesValid, IsValid
  <2> QED BY <2>1, <2>2, SameFlashQuiet DEF BecomesAlone
<1> QED BY <1>5, <1>6

LEMMA AppendEntryFailsAlone ==
  ASSUME RamTyped, StagedAlone, NEW e \in Entries, ~ValidMark(e),
         AppendEntryFails(e)
  PROVE  BecomesAlone /\ StagedAlone'
<1>1. flash' = flash /\ block' = Staged(e)
  BY RefusesKeepsFlash DEF AppendEntryFails
<1>2. StagesValid' => ~IsValid(Other(Staged(e).page))
  BY <1>1, StagedMarks DEF AppendEntryFails, StagesValid
<1>3. StagedAlone'
  BY <1>1, <1>2 DEF StagedAlone, IsValid
<1> QED BY <1>1, <1>3, SameFlashQuiet DEF BecomesAlone

LEMMA NoRoomAlone ==
  ASSUME RamTyped, StagedAlone, NEW res, NoRoom(res)
  PROVE  BecomesAlone /\ StagedAlone'
BY SameFlashQuiet, QuietKeeps DEF NoRoom

LEMMA EraseAlone ==
  ASSUME HwaTyped, RamTyped, StagedAlone, NEW p \in Pages, Erase(p),
         block' = block \/ block' = ClearedBlock
  PROVE  BecomesAlone /\ StagedAlone'
BY EraseMakesInvalid, QuietKeeps, ClearedStagesNothing

LEMMA FaultyAlone ==
  ASSUME RamTyped, StagedAlone, Faulty, block' = block \/ block' = ClearedBlock
  PROVE  BecomesAlone /\ StagedAlone'
BY SameFlashQuiet, QuietKeeps, ClearedStagesNothing DEF Faulty

LEMMA ReloadAlone ==
  ASSUME RamTyped, StagedAlone, Reload \/ ReloadFails
  PROVE  BecomesAlone /\ StagedAlone'
BY SameFlashQuiet, QuietKeeps, ClearedStagesNothing DEF Reload, ReloadFails

-----------------------------------------------------------------------------
(* Every step keeps the invariant and makes a page Valid only on its own.    *)

Alone == BecomesAlone /\ OneAtATime'

LEMMA BlankIsNoMark == ~ValidMark(Blank)
BY DEF ValidMark, Blank, Entry, ERASED

\* What a step that leads to none of AloneSteps has to show.
LEMMA AloneFrom ==
  ASSUME OneAtATime, BecomesAlone, StagedAlone', entry' \in {entry, Blank},
         pc' \notin AloneSteps
  PROVE  Alone
<1>1. ~ValidMark(entry')
  BY BlankIsNoMark DEF OneAtATime
<1> QED BY <1>1 DEF Alone, OneAtATime, AloneSteps, ValidMark

LEMMA EndsCall ==
  ASSUME NEW res, Return(res) \/ Fail(res)
  PROVE  entry' \in {entry, Blank} /\ pc' \in {"idle", "off", "format_erase1"}
         /\ pc' \notin AloneSteps
BY DEF Return, Fail, AloneSteps

LEMMA StartInitAlone ==
  ASSUME IndInv, OneAtATime, StartInit
  PROVE  Alone
<1>1. BecomesAlone /\ StagedAlone'
  BY SameFlashQuiet, ClearedStagesNothing DEF StartInit, BecomesAlone
<1>2. pc' \notin AloneSteps /\ entry' = entry
  BY DEF StartInit, Repair, AloneSteps
<1> QED BY <1>1, <1>2, AloneFrom

LEMMA CallsAlone ==
  ASSUME IndInv, OneAtATime, CallStep
  PROVE  Alone
<1>1. CASE InitCall
  BY <1>1, StartInitAlone DEF InitCall
<1>2. CASE ~InitCall
  <2>1. flash' = flash /\ (block' = block \/ block' = ClearedBlock)
    BY <1>2 DEF CallStep, Write, WriteCached, Read, PageStatus, Flush, PageTransfer,
       Format, RestoreFromFactory, ram
  <2>2. BecomesAlone /\ StagedAlone'
    BY <2>1, SameFlashQuiet, QuietKeeps, ClearedStagesNothing
       DEF IndInv, TypeOK, OneAtATime
  <2>3. pc' \notin AloneSteps
    BY <1>2 DEF CallStep, Write, WriteCached, Read, PageStatus, Flush, PageTransfer,
       Format, RestoreFromFactory, Answer, Begin, AloneSteps
  <2>4. CASE entry' = entry
    BY <2>2, <2>3, <2>4, AloneFrom
  <2>5. CASE entry' # entry
    <3>1. PICK a \in 0 .. OutOfRange, v \in Values : Write(a, v)
      BY <1>2, <2>5 DEF CallStep, WriteCached, Read, PageStatus, Flush, PageTransfer,
         Format, RestoreFromFactory, Answer
    <3>2. entry' = Entry(a, v) /\ a # RESERVED_STATUS_ADDRESS
      BY <2>5, <3>1, GeometryType
         DEF Write, Answer, OutOfRange, RESERVED_STATUS_ADDRESS
    <3>3. ~ValidMark(entry')
      BY <3>2 DEF ValidMark, Entry
    <3> QED BY <2>2, <2>3, <3>3 DEF Alone, OneAtATime, AloneSteps, ValidMark
  <2> QED BY <2>4, <2>5
<1> QED BY <1>1, <1>2

LEMMA AppendsAlone ==
  ASSUME IndInv, OneAtATime, AppendStep
  PROVE  Alone
<1> USE DEF IndInv, TypeOK
<1>0. HwaTyped /\ RamTyped /\ StagedAlone /\ entry \in Entries /\ ~ValidMark(entry)
  BY DEF CallTyped, OneAtATime
<1>1. CASE WriteInternal
  <2>1. BecomesAlone /\ StagedAlone'
    BY <1>0, <1>1, AppendEntryAlone, AppendEntryFailsAlone, NoRoomAlone
       DEF WriteInternal
  <2>2. entry' \in {entry, Blank} /\ pc' \notin AloneSteps
    BY <1>1, EndsCall DEF WriteInternal, Goto, locals, AloneSteps
  <2> QED BY <2>1, <2>2, AloneFrom
<1>2. CASE FlushStale
  <2>1. BecomesAlone /\ StagedAlone'
    BY <1>0, <1>2, StagedIsWritten, ClearedStagesNothing
       DEF FlushStale, StagedElsewhere
  <2>2. entry' = entry /\ pc' \notin AloneSteps
    BY <1>2 DEF FlushStale, AppendPoints, locals, AloneSteps
  <2> QED BY <2>1, <2>2, AloneFrom
<1>3. CASE FlushStaleFails
  <2>1. BecomesAlone /\ StagedAlone'
    BY <1>0, <1>3, RefusesKeepsFlash, SameFlashQuiet, QuietKeeps DEF FlushStaleFails
  <2> QED BY <1>3, <2>1, EndsCall, AloneFrom DEF FlushStaleFails
<1> QED BY <1>1, <1>2, <1>3 DEF AppendStep

LEMMA TransfersAlone ==
  ASSUME IndInv, OneAtATime, TransferStep
  PROVE  Alone
<1> USE DEF IndInv, TypeOK
<1>0. HwaTyped /\ RamTyped /\ StagedAlone /\ oldPage \in RuntimePages
  BY DEF CallTyped, OneAtATime
<1>01. PICK old \in RuntimePages : old = oldPage
  BY <1>0
<1>02. /\ Other(old) \in RuntimePages /\ Other(Other(old)) = old
       /\ {"Receiving", "Formatted", "Valid"} \subseteq StatusRecords /\ old \in Pages
  BY OtherPage DEF StatusRecords, Pages
<1>1. CASE XferFlush
  <2>1. BecomesAlone /\ StagedAlone'
    BY <1>0, <1>1, FlushBlockAlone, FlushBlockFailsAlone DEF XferFlush
  <2>2. entry' \in {entry, Blank} /\ pc' \notin AloneSteps
    BY <1>1, EndsCall DEF XferFlush, AloneSteps
  <2> QED BY <2>1, <2>2, AloneFrom
<1>2. CASE XferReceiving
  <2>1. BecomesAlone /\ StagedAlone'
    BY <1>0, <1>01, <1>02, <1>2, WritePageStatusAlone, WritePageStatusFailsAlone
       DEF XferReceiving
  <2>2. entry' \in {entry, Blank} /\ pc' \notin AloneSteps
    BY <1>2, EndsCall DEF XferReceiving, AloneSteps
  <2> QED BY <2>1, <2>2, AloneFrom
<1>3. CASE XferCopy
  <2>1. Least(ToCopy) \in Addresses
    <3>1. ToCopy \subseteq Nat /\ ToCopy # {} /\ ToCopy \subseteq Addresses
      BY <1>3 DEF ToCopy, Addresses, XferCopy
    <3> QED BY <3>1, LeastExists
  <2>2. CopiedEntry \in Entries /\ ~ValidMark(CopiedEntry)
    BY <2>1, GeometryType
       DEF CopiedEntry, Entry, Entries, RamTyped, Addresses, RESERVED_STATUS_ADDRESS,
           ValidMark
  <2>3. BecomesAlone /\ StagedAlone'
    BY <1>0, <1>3, <2>2, AppendEntryAlone, AppendEntryFailsAlone, NoRoomAlone
       DEF XferCopy
  <2>4. entry' \in {entry, Blank} /\ pc' \notin AloneSteps
    BY <1>3, EndsCall DEF XferCopy, AloneSteps
  <2> QED BY <2>3, <2>4, AloneFrom
<1>4. CASE XferCopied
  <2>1. BecomesAlone /\ StagedAlone'
    BY <1>0, <1>4, FlushBlockAlone, FlushBlockFailsAlone DEF XferCopied
  <2>2. entry' \in {entry, Blank} /\ pc' \notin AloneSteps
    BY <1>4, EndsCall DEF XferCopied, AloneSteps
  <2> QED BY <2>1, <2>2, AloneFrom
<1>5. CASE XferErase
  <2>1. BecomesAlone /\ StagedAlone'
    BY <1>0, <1>01, <1>02, <1>5, EraseAlone, FaultyAlone DEF XferErase, ram
  <2>2. CASE Erase(oldPage) /\ pc' = "xfer_formatted" /\ UNCHANGED <<locals, result>>
    <3>1. ~IsValid(old)'
      BY <1>0, <1>01, <1>02, <2>2, EraseMakesInvalid
    <3>2. oldPage' = old /\ entry' = entry
      BY <1>01, <2>2 DEF locals
    <3> QED BY <2>1, <2>2, <3>1, <3>2 DEF Alone, OneAtATime, IsValid, ValidMark
  <2>3. CASE Fail("WriteError")
    BY <2>1, <2>3, EndsCall, AloneFrom
  <2> QED BY <1>5, <2>2, <2>3 DEF XferErase
<1>6. CASE XferFormatted
  <2>1. BecomesAlone /\ StagedAlone'
    BY <1>0, <1>01, <1>02, <1>6, WritePageStatusAlone, WritePageStatusFailsAlone
       DEF XferFormatted, XferStatus
  <2>2. CASE WritePageStatus(oldPage, "Formatted") /\ pc' = "xfer_valid"
             /\ UNCHANGED <<locals, result>>
    <3>1. ~IsValid(old)
      BY <1>01, <1>6 DEF XferFormatted, XferStatus, OneAtATime
    <3>2. ~IsValid(old)'
      BY <1>0, <1>01, <1>02, <2>2, <3>1, WritePageStatusAlone
    <3>3. oldPage' = old /\ entry' = entry
      BY <1>01, <2>2 DEF locals
    <3> QED BY <2>1, <2>2, <3>2, <3>3 DEF Alone, OneAtATime, IsValid, ValidMark
  <2>3. CASE Fail("WriteError")
    BY <2>1, <2>3, EndsCall, AloneFrom
  <2> QED BY <1>6, <2>2, <2>3 DEF XferFormatted, XferStatus
<1>7. CASE XferValid
  <2>1. ~IsValid(old)
    BY <1>01, <1>7 DEF XferValid, XferStatus, OneAtATime
  <2>2. BecomesAlone /\ StagedAlone'
    BY <1>0, <1>01, <1>02, <1>7, <2>1, WritePageStatusAlone, WritePageStatusFailsAlone
       DEF XferValid, XferStatus
  <2>3. entry' \in {entry, Blank} /\ pc' \notin AloneSteps
    BY <1>7, EndsCall DEF XferValid, XferStatus, locals, AloneSteps
  <2> QED BY <2>2, <2>3, AloneFrom
<1>8. CASE XferReload
  <2>1. BecomesAlone /\ StagedAlone'
    BY <1>0, <1>8, ReloadAlone DEF XferReload
  <2>2. entry' \in {entry, Blank} /\ pc' \notin AloneSteps
    BY <1>8, EndsCall DEF XferReload, locals, AloneSteps
  <2> QED BY <2>1, <2>2, AloneFrom
<1> QED BY <1>1, <1>2, <1>3, <1>4, <1>5, <1>6, <1>7, <1>8 DEF TransferStep

\* The copying loops: the snapshot is no runtime page, and page 1 is restored
\* while page 2 is not Valid.
LEMMA CopyBlockAlone ==
  ASSUME HwaTyped, RamTyped, StagedAlone, UNCHANGED ram,
         cursor \in BlockOffsets, NEW from \in Pages,
         \/ CopyBlock(from, "Factory")
         \/ CopyBlock(from, "Page1") /\ ~IsValid("Page2") /\ ~block.dirty
  PROVE  /\ BecomesAlone /\ StagedAlone'
         /\ IsValid("Page2")' => IsValid("Page2")
<1> DEFINE data == [i \in Slots |-> flash[from][cursor + i]]
<1>1. cursor \in Nat /\ block' = block
  BY GeometryType DEF BlockOffsets, Offsets, ram
<1>2. data \in Blocks
  <2>1. cursor \in Offsets /\ cursor % EntriesPerBlock = 0
    BY GeometryType DEF CopyBlock, CopyDone, BlockOffsets, Offsets
  <2>2. \A i \in Slots : cursor + i \in Offsets
    BY <2>1, BlockFits
  <2> QED BY <2>2 DEF HwaTyped, Blocks, Logs
<1>3. ASSUME NEW to, CopyBlock(from, to)
      PROVE  flash' = flash \/ Program(to, cursor, data)
  BY <1>3, RefusesKeepsFlash DEF CopyBlock
<1> HIDE DEF data
<1>4. CASE flash' = flash
  BY <1>1, <1>4, SameFlashQuiet, QuietKeeps
<1>5. CASE Program("Factory", cursor, data)
  <2>1. \A q \in RuntimePages : IsValid(q)' => IsValid(q)
    BY <1>1, <1>2, <1>5, ProgramMakesValid DEF Pages, RuntimePages
  <2>2. PICK p \in RuntimePages : p = block.page
    BY DEF RamTyped, StagedBlocks
  <2>3. IsValid(Other(p))' => IsValid(Other(p))
    BY <2>1, OtherPage
  <2>4. StagedAlone'
    BY <1>1, <2>2, <2>3 DEF StagedAlone, StagesValid, IsValid
  <2> QED BY <2>1, <2>4 DEF BecomesAlone, RuntimePages
<1>6. CASE Program("Page1", cursor, data) /\ ~IsValid("Page2") /\ ~block.dirty
  <2>1. "Page1" \in RuntimePages /\ "Page2" \in Pages /\ "Page1" \in Pages
        /\ Other("Page1") = "Page2"
    BY DEF RuntimePages, Pages, Other
  <2>2. BecomesAlone
    BY <1>1, <1>2, <1>6, <2>1, ProgramAlone
  <2>3. IsValid("Page2")' => IsValid("Page2")
    BY <1>1, <1>2, <1>6, <2>1, ProgramMakesValid
  <2>4. StagedAlone'
    BY <1>1, <1>6 DEF StagedAlone, StagesValid
  <2> QED BY <2>2, <2>3, <2>4
<1> QED BY <1>3, <1>4, <1>5, <1>6

LEMMA EraseStepAlone ==
  ASSUME IndInv, OneAtATime, NEW from, NEW p \in Pages, NEW to, EraseStep(from, p, to),
         block' = block \/ block' = ClearedBlock
  PROVE  /\ BecomesAlone /\ StagedAlone' /\ entry' \in {entry, Blank}
         /\ pc' = to \/ pc' \in {"idle", "off", "format_erase1"}
         /\ pc' = to /\ to \in AloneSteps
              => \/ p # "Page2" /\ (IsValid("Page2")' => IsValid("Page2"))
                 \/ ~IsValid("Page2")'
<1>1. HwaTyped /\ RamTyped /\ StagedAlone /\ "Page2" \in Pages
  BY DEF IndInv, TypeOK, OneAtATime, Pages, RuntimePages
<1>2. CASE Erase(p) /\ pc' = to /\ UNCHANGED <<locals, result>>
  BY <1>1, <1>2, EraseAlone, EraseMakesInvalid DEF locals
<1>3. CASE Faulty /\ Fail("Error")
  <2>1. pc' \notin AloneSteps
    BY <1>3, EndsCall
  <2> QED BY <1>1, <1>3, <2>1, FaultyAlone, EndsCall
<1> QED BY <1>2, <1>3 DEF EraseStep

LEMMA FactoryAlone ==
  ASSUME IndInv, OneAtATime, FactoryStep
  PROVE  Alone
<1> USE DEF IndInv, TypeOK
<1>0. HwaTyped /\ RamTyped /\ StagedAlone
  BY DEF OneAtATime
<1>01. /\ "Factory" \in Pages /\ "Page1" \in RuntimePages /\ "Page2" \in RuntimePages
       /\ RuntimePages \subseteq Pages
       /\ Other("Page1") = "Page2" /\ {"Valid", "Formatted"} \subseteq StatusRecords
  BY DEF Pages, RuntimePages, Other, StatusRecords
<1>1. CASE FlushPending
  <2>1. BecomesAlone /\ StagedAlone'
    BY <1>0, <1>1, FlushBlockAlone, FlushBlockFailsAlone DEF FlushPending
  <2>2. entry' \in {entry, Blank} /\ pc' \notin AloneSteps
    BY <1>1, EndsCall DEF FlushPending, locals, AloneSteps
  <2> QED BY <2>1, <2>2, AloneFrom
<1>2. CASE StoreErase
  <2>1. block' = block /\ (Erase("Factory") \/ Faulty \/ flash' = flash)
    BY <1>2 DEF StoreErase
  <2>2. BecomesAlone /\ StagedAlone'
    BY <1>0, <1>01, <2>1, EraseAlone, FaultyAlone, SameFlashQuiet, QuietKeeps
  <2>3. entry' \in {entry, Blank} /\ pc' \notin AloneSteps
    BY <1>2, EndsCall DEF StoreErase, AloneSteps
  <2> QED BY <2>2, <2>3, AloneFrom
<1>3. CASE StoreCopy
  <2>1. ReadPage \in Pages /\ cursor \in BlockOffsets
    BY <1>3, PagesType DEF StoreCopy
  <2>2. BecomesAlone /\ StagedAlone'
    BY <1>0, <1>3, <2>1, CopyBlockAlone DEF StoreCopy
  <2>3. entry' \in {entry, Blank} /\ pc' \notin AloneSteps
    BY <1>3, EndsCall DEF StoreCopy, CopyBlock, AloneSteps
  <2> QED BY <2>2, <2>3, AloneFrom
<1>4. CASE StoreDone
  <2>1. BecomesAlone /\ StagedAlone'
    BY <1>0, <1>4, SameFlashQuiet, QuietKeeps DEF StoreDone
  <2> QED BY <1>4, <2>1, EndsCall, AloneFrom DEF StoreDone
<1>5. CASE RestoreErase1
  <2>1. /\ BecomesAlone /\ StagedAlone' /\ entry' \in {entry, Blank}
        /\ pc' \in {"restore_erase2", "idle", "off", "format_erase1"}
    BY <1>01, <1>5, EraseStepAlone DEF RestoreErase1
  <2> QED BY <2>1, AloneFrom DEF AloneSteps
<1>6. CASE RestoreErase2
  <2>1. CASE Erase("Page2") /\ pc' = "restore_copy" /\ UNCHANGED <<entry, block>>
    <3>1. BecomesAlone /\ StagedAlone' /\ ~IsValid("Page2")'
      BY <1>0, <1>01, <2>1, EraseAlone, EraseMakesInvalid
    <3> QED BY <2>1, <3>1 DEF Alone, OneAtATime, ValidMark
  <2>2. CASE Faulty /\ Return("Error")
    <3>1. BecomesAlone /\ StagedAlone'
      BY <1>0, <1>6, <2>2, FaultyAlone DEF RestoreErase2
    <3> QED BY <2>2, <3>1, EndsCall, AloneFrom
  <2> QED BY <1>6, <2>1, <2>2 DEF RestoreErase2
<1>7. CASE RestoreCopy
  <2>1. ~IsValid("Page2") /\ ~block.dirty /\ cursor \in BlockOffsets
    BY <1>7 DEF RestoreCopy, OneAtATime, ClearSteps
  <2>2. BecomesAlone /\ StagedAlone' /\ ~IsValid("Page2")'
    BY <1>0, <1>01, <1>7, <2>1, CopyBlockAlone DEF RestoreCopy
  <2>3. entry' \in {entry, Blank} /\ pc' \in {"restore_copy", "idle"}
    BY <1>7, EndsCall DEF RestoreCopy, CopyBlock, Return
  <2>4. ~ValidMark(entry')
    BY <2>3, BlankIsNoMark DEF OneAtATime
  <2> QED BY <2>2, <2>3, <2>4 DEF Alone, OneAtATime, ValidMark
<1>8. CASE RestoreValid
  <2>1. ~IsValid("Page2")
    BY <1>8 DEF RestoreValid, OneAtATime
  <2>2. BecomesAlone /\ StagedAlone'
    BY <1>0, <1>01, <1>8, <2>1, WritePageStatusAlone, WritePageStatusFailsAlone
       DEF RestoreValid
  <2>3. entry' \in {entry, Blank} /\ pc' \notin AloneSteps
    BY <1>8, EndsCall DEF RestoreValid, AloneSteps
  <2> QED BY <2>2, <2>3, AloneFrom
<1>9. CASE RestoreFormatted
  <2>1. BecomesAlone /\ StagedAlone'
    BY <1>0, <1>01, <1>9, WritePageStatusAlone, WritePageStatusFailsAlone
       DEF RestoreFormatted
  <2>2. entry' \in {entry, Blank} /\ pc' \notin AloneSteps
    BY <1>9, EndsCall DEF RestoreFormatted, locals, AloneSteps
  <2> QED BY <2>1, <2>2, AloneFrom
<1> QED BY <1>1, <1>2, <1>3, <1>4, <1>5, <1>6, <1>7, <1>8, <1>9 DEF FactoryStep

LEMMA FormatsAlone ==
  ASSUME IndInv, OneAtATime, FormatStep
  PROVE  Alone
<1> USE DEF IndInv, TypeOK
<1>0. HwaTyped /\ RamTyped /\ StagedAlone /\ ~ValidMark(entry)
  BY DEF OneAtATime
<1>01. /\ "Factory" \in Pages /\ "Page1" \in RuntimePages /\ "Page2" \in RuntimePages
       /\ RuntimePages \subseteq Pages
       /\ Other("Page1") = "Page2" /\ {"Valid", "Formatted"} \subseteq StatusRecords
  BY DEF Pages, RuntimePages, Other, StatusRecords
<1>1. CASE FormatErase1
  <2>1. /\ BecomesAlone /\ StagedAlone' /\ entry' \in {entry, Blank}
        /\ pc' \in {"format_erase2", "idle", "off", "format_erase1"}
    BY <1>01, <1>1, EraseStepAlone DEF FormatErase1
  <2> QED BY <2>1, AloneFrom DEF AloneSteps
<1>2. CASE FormatErase2 \/ FormatEraseFactory
  <2>1. /\ BecomesAlone /\ StagedAlone' /\ entry' \in {entry, Blank}
        /\ pc' \in {"format_erase_factory", "format_valid", "idle", "off",
                    "format_erase1"}
        /\ pc' \in {"format_erase_factory", "format_valid"} => ~IsValid("Page2")'
    BY <1>01, <1>2, EraseStepAlone
       DEF FormatErase2, FormatEraseFactory, EraseStep, AloneSteps, OneAtATime
  <2>2. ~ValidMark(entry')
    BY <1>0, <2>1, BlankIsNoMark
  <2> QED BY <2>1, <2>2 DEF Alone, OneAtATime, ValidMark
<1>3. CASE FormatValid
  <2>1. ~IsValid("Page2")
    BY <1>3 DEF FormatValid, OneAtATime
  <2>2. BecomesAlone /\ StagedAlone'
    BY <1>0, <1>01, <1>3, <2>1, WritePageStatusAlone, WritePageStatusFailsAlone
       DEF FormatValid
  <2>3. entry' \in {entry, Blank} /\ pc' \notin AloneSteps
    BY <1>3, EndsCall DEF FormatValid, locals, AloneSteps
  <2> QED BY <2>2, <2>3, AloneFrom
<1>4. CASE FormatFormatted
  <2>1. BecomesAlone /\ StagedAlone'
    BY <1>0, <1>01, <1>4, WritePageStatusAlone, WritePageStatusFailsAlone
       DEF FormatFormatted
  <2>2. entry' \in {entry, Blank} /\ pc' \notin AloneSteps
    BY <1>4, EndsCall DEF FormatFormatted, locals, AloneSteps
  <2> QED BY <2>1, <2>2, AloneFrom
<1> QED BY <1>1, <1>2, <1>3, <1>4 DEF FormatStep

LEMMA BootsAlone ==
  ASSUME IndInv, OneAtATime, BootStep
  PROVE  Alone
<1> USE DEF IndInv, TypeOK
<1>0. HwaTyped /\ RamTyped /\ StagedAlone
  BY DEF OneAtATime
<1>01. PICK p \in RuntimePages : p = Other(ReadPage)
  BY PagesType
<1>02. p \in Pages /\ "Formatted" \in StatusRecords
  BY DEF Pages, StatusRecords
<1>1. CASE Boot
  BY <1>1, StartInitAlone DEF Boot
<1>2. CASE EraseUnused \/ EraseReceiving
  <2>1. UNCHANGED ram /\ (Erase(p) \/ Faulty)
    BY <1>01, <1>2 DEF EraseUnused, EraseReceiving, RepairErase
  <2>2. BecomesAlone /\ StagedAlone'
    BY <1>0, <1>02, <2>1, EraseAlone, FaultyAlone DEF ram
  <2>3. entry' \in {entry, Blank} /\ pc' \notin AloneSteps
    BY <1>2, EndsCall DEF EraseUnused, EraseReceiving, RepairErase, locals, AloneSteps
  <2> QED BY <2>2, <2>3, AloneFrom
<1>3. CASE RepairFormatted
  <2>1. BecomesAlone /\ StagedAlone'
    BY <1>0, <1>01, <1>02, <1>3, WritePageStatusAlone, WritePageStatusFailsAlone
       DEF RepairFormatted
  <2>2. entry' \in {entry, Blank} /\ pc' \notin AloneSteps
    BY <1>3, EndsCall DEF RepairFormatted, locals, AloneSteps
  <2> QED BY <2>1, <2>2, AloneFrom
<1>4. CASE ResumeReload \/ FinalReload
  <2>1. BecomesAlone /\ StagedAlone'
    BY <1>0, <1>4, ReloadAlone DEF ResumeReload, FinalReload
  <2>2. entry' \in {entry, Blank} /\ pc' \notin AloneSteps
    BY <1>4, EndsCall DEF ResumeReload, FinalReload, Goto, locals, AloneSteps
  <2> QED BY <2>1, <2>2, AloneFrom
<1> QED BY <1>1, <1>2, <1>3, <1>4 DEF BootStep

LEMMA NextAlone == IndInv /\ OneAtATime /\ [Next]_vars => Alone
<1> SUFFICES ASSUME IndInv, OneAtATime, [Next]_vars PROVE Alone
  OBVIOUS
<1>1. CASE UNCHANGED vars
  <2>1. UNCHANGED <<flash, block, entry, pc, oldPage>>
    BY <1>1 DEF vars, ram, locals
  <2>2. BecomesAlone
    BY <2>1, SameFlashQuiet DEF BecomesAlone
  <2> QED BY <2>1, <2>2 DEF Alone, OneAtATime, StagedAlone, StagesValid, IsValid,
                            ValidMark
<1>2. CASE CallStep
  BY <1>2, CallsAlone
<1>3. CASE Step
  BY <1>3, AppendsAlone, TransfersAlone, FactoryAlone, FormatsAlone, BootsAlone DEF Step
<1>4. CASE PowerLoss
  <2>1. BecomesAlone /\ StagedAlone'
    BY <1>4, SameFlashQuiet, ClearedStagesNothing DEF PowerLoss, BecomesAlone
  <2> QED BY <1>4, <2>1, AloneFrom DEF PowerLoss, AloneSteps
<1> QED BY <1>1, <1>2, <1>3, <1>4 DEF Next

\* No step makes a second runtime page Valid (init() would format both,
\* emueeprom.cpp:127-133), for every geometry and every initial flash, whatever
\* Hwa failures leave a Valid record staged for a later flush.
THEOREM OnePageIsValid == Spec => NeverTwoValid
<1>1. Init => OneAtATime
  BY BlankIsNoMark
     DEF Init, OneAtATime, StagedAlone, StagesValid, ClearedBlock
<1>2. IndInv /\ OneAtATime /\ [Next]_vars => OneAtATime'
  BY NextAlone DEF Alone
<1> DEFINE Guarded ==
      BothValid([p \in Pages |-> StatusOf(flash'[p])]) => BothValid(FlashStatus)
<1>3. IndInv /\ OneAtATime /\ [Next]_vars => Guarded
  <2> SUFFICES ASSUME BecomesAlone,
                      BothValid([p \in Pages |-> StatusOf(flash'[p])])
               PROVE  BothValid(FlashStatus)
    BY NextAlone DEF Alone
  <2>1. IsValid("Page1")' /\ IsValid("Page2")'
    BY DEF BothValid, IsValid, Pages, RuntimePages
  <2>2. IsValid("Page1") /\ IsValid("Page2")
    BY <2>1 DEF BecomesAlone, Other, RuntimePages
  <2> QED BY <2>2 DEF BothValid, FlashStatus, IsValid, Pages, RuntimePages
<1>4. NeverTwoValid <=> [][Guarded]_vars
  BY DEF NeverTwoValid
<1> HIDE DEF Guarded
<1> QED BY <1>1, <1>2, <1>3, <1>4, Invariance, PTL DEF Spec

-----------------------------------------------------------------------------
(* Logs of records and erased blocks.                                       *)

\* Records, then erased blocks.
Packed(log) == \A o \in Offsets : o >= FirstFree(log) => log[o] = Blank

\* A record beyond the address range stops cache().
NoForeign(log) == \A o \in Offsets : log[o].address # OutOfRange

CleanLog(log) == Packed(log) /\ NoForeign(log)

\* A Formatted page holds its header and nothing else.
OneBlock(log) == StatusOf(log) = "Formatted" => FirstFree(log) <= EntriesPerBlock

Prefix(log, n) == [o \in Offsets |-> IF o < n THEN log[o] ELSE Blank]

LEMMA BlocksApart ==
  ASSUME NEW a \in BlockOffsets, NEW b \in BlockOffsets, a < b
  PROVE  a + EntriesPerBlock <= b
<1> DEFINE n == EntriesPerBlock
           j == a \div n
           k == b \div n
<1>1. n \in Nat \ {0} /\ PageSize \in Nat
  BY GeometryType
<1>2. a \in Nat /\ b \in Nat /\ a % n = 0 /\ b % n = 0
  BY <1>1 DEF BlockOffsets
<1>3. j \in Nat /\ k \in Nat /\ a = j * n /\ b = k * n
  BY <1>1, <1>2
<1> HIDE DEF j, k, n
<1>4. j < k
  BY <1>1, <1>2, <1>3
<1>5. j * n + n <= k * n
  BY <1>1, <1>3, <1>4
<1> QED BY <1>3, <1>5 DEF n

LEMMA BlockOffsetsType ==
  /\ BlockOffsets \subseteq 0 .. PageSize /\ 0 \in BlockOffsets /\ PageSize \in BlockOffsets
  /\ \A o \in BlockOffsets : o < PageSize =>
       /\ o \in Offsets /\ o + EntriesPerBlock \in BlockOffsets
       /\ \A i \in Slots : o + i \in Offsets
<1>1. ASSUME NEW o \in BlockOffsets, o < PageSize
      PROVE  /\ o \in Offsets /\ o + EntriesPerBlock \in BlockOffsets
             /\ \A i \in Slots : o + i \in Offsets
  <2>1. o \in Offsets /\ o % EntriesPerBlock = 0
    BY <1>1, GeometryType DEF BlockOffsets, Offsets
  <2>2. /\ o + EntriesPerBlock <= PageSize
        /\ (o + EntriesPerBlock) % EntriesPerBlock = 0
        /\ \A i \in Slots : o + i \in Offsets
    BY <2>1, BlockFits
  <2>3. o + EntriesPerBlock \in 0 .. PageSize
    BY <2>1, <2>2, GeometryType DEF Offsets
  <2> QED BY <2>1, <2>2, <2>3 DEF BlockOffsets
<1> QED BY <1>1, GeometryType DEF BlockOffsets

LEMMA FreeBlocksAre ==
  ASSUME NEW log
  PROVE  FreeBlocks(log) = {o \in BlockOffsets : o < PageSize /\ BlockErased(log, o)}
<1>1. \A o : o \in Offsets <=> o \in 0 .. PageSize /\ o < PageSize
  BY GeometryType DEF Offsets
<1> QED BY <1>1 DEF FreeBlocks, BlockOffsets

LEMMA FirstFreeLeast ==
  ASSUME NEW log
  PROVE  /\ FirstFree(log) \in BlockOffsets
         /\ FirstFree(log) < PageSize => BlockErased(log, FirstFree(log))
         /\ \A o \in BlockOffsets :
              o < PageSize /\ BlockErased(log, o) => FirstFree(log) <= o
<1>1. FreeBlocks(log) \subseteq Nat
  BY DEF FreeBlocks, Offsets
<1>2. CASE FreeBlocks(log) = {}
  BY <1>2, FreeBlocksAre, FirstFreeType, GeometryType DEF FirstFree
<1>3. CASE FreeBlocks(log) # {}
  <2>1. Least(FreeBlocks(log)) \in FreeBlocks(log)
        /\ \A o \in FreeBlocks(log) : Least(FreeBlocks(log)) <= o
    BY <1>1, <1>3, LeastExists
  <2>2. FirstFree(log) = Least(FreeBlocks(log))
    BY <1>3 DEF FirstFree
  <2> QED BY <2>1, <2>2, FreeBlocksAre, FirstFreeType
<1> QED BY <1>2, <1>3

LEMMA FirstFreeNat == \A log : FirstFree(log) \in 0 .. PageSize /\ FirstFree(log) \in Nat
<1> TAKE log
<1>1. FirstFree(log) \in 0 .. PageSize
  BY FirstFreeLeast, BlockOffsetsType
<1> QED BY <1>1

LEMMA FirstFreeIs ==
  ASSUME NEW log, NEW n \in BlockOffsets,
         n < PageSize => BlockErased(log, n),
         \A o \in BlockOffsets : o < n => ~BlockErased(log, o)
  PROVE  FirstFree(log) = n
<1>1. /\ FirstFree(log) \in 0 .. PageSize /\ n \in 0 .. PageSize /\ PageSize \in Nat
      /\ FirstFree(log) \in BlockOffsets
  BY FirstFreeLeast, BlockOffsetsType, GeometryType
<1>2. n < PageSize => FirstFree(log) <= n
  BY FirstFreeLeast
<1>3. ~(FirstFree(log) < n)
  BY <1>1, FirstFreeLeast
<1> QED BY <1>1, <1>2, <1>3

LEMMA PrefixLog ==
  ASSUME NEW log \in Logs, CleanLog(log), NEW n \in BlockOffsets, n <= FirstFree(log)
  PROVE  /\ Prefix(log, n) \in Logs /\ CleanLog(Prefix(log, n))
         /\ FirstFree(Prefix(log, n)) = n
<1> DEFINE new == Prefix(log, n)
<1>1. new \in Logs
  BY ErasedTypes DEF Prefix, Logs
<1>2. \A o \in Offsets : new[o] = IF o < n THEN log[o] ELSE Blank
  BY DEF Prefix
<1>3. n \in 0 .. PageSize /\ PageSize \in Nat /\ FirstFree(log) \in 0 .. PageSize
  BY BlockOffsetsType, FirstFreeLeast, GeometryType
<1> HIDE DEF new
<1>4. n < PageSize => BlockErased(new, n)
  <2> SUFFICES ASSUME n < PageSize, NEW i \in Slots PROVE new[n + i] = Blank
    BY DEF BlockErased
  <2>1. n + i \in Offsets /\ ~(n + i < n)
    BY <1>3, BlockOffsetsType DEF Slots
  <2> QED BY <1>2, <2>1
<1>5. ASSUME NEW o \in BlockOffsets, o < n
      PROVE  ~BlockErased(new, o)
  <2>1. ~BlockErased(log, o) /\ o < PageSize
    BY <1>3, <1>5, FirstFreeLeast, BlockOffsetsType
  <2>2. PICK i \in Slots : log[o + i] # Blank
    BY <2>1 DEF BlockErased
  <2>3. o + EntriesPerBlock <= n /\ o + i \in Offsets /\ o \in 0 .. PageSize
    BY <1>5, <2>1, BlocksApart, BlockOffsetsType
  <2>4. o + i < n
    BY <1>3, <2>3, GeometryType DEF Slots
  <2> QED BY <1>2, <2>2, <2>3, <2>4 DEF BlockErased
<1>6. FirstFree(new) = n
  BY <1>4, <1>5, FirstFreeIs
<1>7. Packed(new)
  BY <1>2, <1>3, <1>6 DEF Packed, Offsets
<1>8. NoForeign(new)
  <2>1. Blank.address # OutOfRange
    BY GeometryType DEF Blank, Entry, RESERVED_STATUS_ADDRESS, OutOfRange
  <2> QED BY <1>2, <2>1 DEF NoForeign, CleanLog
<1> QED BY <1>1, <1>6, <1>7, <1>8 DEF CleanLog, new

LEMMA WholePrefix ==
  ASSUME NEW log \in Logs, Packed(log)
  PROVE  Prefix(log, FirstFree(log)) = log
<1>1. FirstFree(log) \in Int
  BY FirstFreeNat
<1>2. \A o \in Offsets : (IF o < FirstFree(log) THEN log[o] ELSE Blank) = log[o]
  BY <1>1 DEF Packed, Offsets
<1> QED BY <1>2 DEF Prefix, Logs

LEMMA EmptyPrefix == \A log : Prefix(log, 0) = ErasedLog
BY DEF Prefix, ErasedLog, Offsets

LEMMA ErasedIsClean ==
  /\ ErasedLog \in Logs /\ CleanLog(ErasedLog) /\ FirstFree(ErasedLog) = 0
  /\ StatusOf(ErasedLog) = ERASED /\ OneBlock(ErasedLog)
<1>1. \A o \in Offsets : ErasedLog[o] = Blank
  BY DEF ErasedLog
<1>2. BlockErased(ErasedLog, 0) /\ 0 < PageSize
  <2>1. 0 < PageSize
    BY GeometryType, ConstantsAssumption
  <2>2. \A i \in Slots : 0 + i \in Offsets
    BY <2>1, BlockOffsetsType
  <2> QED BY <1>1, <2>1, <2>2 DEF BlockErased
<1>3. FirstFree(ErasedLog) = 0
  <2>1. 0 \in BlockOffsets /\ \A o \in BlockOffsets : ~(o < 0)
    BY BlockOffsetsType
  <2> QED BY <1>2, <2>1, FirstFreeIs
<1>4. Marks(ErasedLog) = {}
  BY DEF Marks, ErasedLog, Blank, Entry, StatusRecords, ERASED
<1>5. StatusOf(ErasedLog) = ERASED
  BY <1>4, StatusOfNewestMark
<1>6. Blank.address # OutOfRange
  BY GeometryType DEF Blank, Entry, RESERVED_STATUS_ADDRESS, OutOfRange
<1> QED BY <1>1, <1>3, <1>5, <1>6, ErasedTypes
        DEF CleanLog, Packed, NoForeign, OneBlock, ERASED

\* A block written behind the last record keeps the log one of records and
\* erased blocks, one block longer.
LEMMA AppendedLog ==
  ASSUME NEW log \in Logs, CleanLog(log), NEW n, n = FirstFree(log), n < PageSize,
         NEW data \in Blocks, data[0] # Blank,
         \A i \in Slots : data[i].address # OutOfRange
  PROVE  /\ Programmed(log, n, data) \in Logs
         /\ CleanLog(Programmed(log, n, data))
         /\ FirstFree(Programmed(log, n, data)) = n + EntriesPerBlock
         /\ \A i \in Slots : log[n + i] = Blank
         /\ \A i \in Slots : n + i \in Offsets /\ Programmed(log, n, data)[n + i] = data[i]
         /\ \A o \in Offsets : o < n => Programmed(log, n, data)[o] = log[o]
         /\ \A o \in Offsets : o >= n + EntriesPerBlock =>
              Programmed(log, n, data)[o] = Blank
<1> DEFINE new == Programmed(log, n, data)
           e == EntriesPerBlock
<1>1. /\ n \in BlockOffsets /\ n \in Nat /\ n + e \in BlockOffsets
      /\ n + e \in 0 .. PageSize
      /\ e \in Nat \ {0} /\ PageSize \in Nat /\ 0 \in Slots
      /\ \A i \in Slots : n + i \in Offsets
  <2>1. n \in BlockOffsets
    BY FirstFreeLeast
  <2> QED BY <2>1, BlockOffsetsType, GeometryType DEF Slots
<1>2. new \in Logs
  BY <1>1, ProgrammedType
<1>3. \A o \in Offsets : new[o] = IF o \in n .. n + e - 1 THEN data[o - n] ELSE log[o]
  BY DEF Programmed
<1> HIDE DEF new
<1>4. \A o \in Offsets : o < n => new[o] = log[o]
  BY <1>1, <1>3 DEF Offsets
<1>5. \A i \in Slots : new[n + i] = data[i]
  <2> TAKE i \in Slots
  <2>1. n + i \in n .. n + e - 1 /\ (n + i) - n = i /\ n + i \in Offsets
    BY <1>1 DEF Slots
  <2> QED BY <1>3, <2>1
<1>6. \A o \in Offsets : o >= n => log[o] = Blank
  BY DEF CleanLog, Packed
<1>7. \A i \in Slots : log[n + i] = Blank
  <2> TAKE i \in Slots
  <2>1. n + i \in Offsets /\ n + i >= n
    BY <1>1 DEF Slots
  <2> QED BY <1>6, <2>1
<1>8. \A o \in Offsets : o >= n + e => new[o] = Blank
  BY <1>1, <1>3, <1>6 DEF Offsets
<1>9. FirstFree(new) = n + e
  <2>1. n + e < PageSize => BlockErased(new, n + e)
    <3> SUFFICES ASSUME n + e < PageSize, NEW i \in Slots
                 PROVE  new[(n + e) + i] = Blank
      BY DEF BlockErased
    <3>1. (n + e) + i \in Offsets
      BY <1>1, BlockOffsetsType
    <3>2. (n + e) + i >= n + e
      BY <1>1 DEF Slots
    <3> QED BY <1>8, <3>1, <3>2
  <2>2. ASSUME NEW o \in BlockOffsets, o < n + e
        PROVE  ~BlockErased(new, o)
    <3>1. o \in 0 .. PageSize
      BY BlockOffsetsType
    <3>2. CASE o < n
      <4>1. ~BlockErased(log, o) /\ o < PageSize
        BY <1>1, <3>1, <3>2, FirstFreeLeast
      <4>2. PICK i \in Slots : log[o + i] # Blank
        BY <4>1 DEF BlockErased
      <4>3. o + e <= n /\ o + i \in Offsets
        BY <1>1, <3>2, <4>1, BlocksApart, BlockOffsetsType
      <4>4. o + i < n
        BY <1>1, <3>1, <4>3 DEF Slots
      <4> QED BY <1>4, <4>2, <4>3, <4>4 DEF BlockErased
    <3>3. CASE o = n
      BY <1>1, <1>5, <3>3 DEF BlockErased
    <3>4. CASE o > n
      <4>1. n + e <= o
        BY <1>1, <3>4, BlocksApart
      <4> QED BY <1>1, <2>2, <3>1, <4>1
    <3> QED BY <1>1, <3>1, <3>2, <3>3, <3>4
  <2> QED BY <1>1, <2>1, <2>2, FirstFreeIs
<1>10. Packed(new)
  BY <1>8, <1>9 DEF Packed
<1>11. NoForeign(new)
  <2> SUFFICES ASSUME NEW o \in Offsets PROVE new[o].address # OutOfRange
    BY DEF NoForeign
  <2>1. CASE o \in n .. n + e - 1
    <3>1. o - n \in Slots
      BY <1>1, <2>1 DEF Slots
    <3> QED BY <1>3, <2>1, <3>1
  <2> QED BY <1>3, <2>1 DEF CleanLog, NoForeign
<1> QED BY <1>1, <1>2, <1>4, <1>5, <1>7, <1>8, <1>9, <1>10, <1>11 DEF CleanLog, new, e

LEMMA MarksBelow ==
  ASSUME NEW log, Packed(log), NEW o \in Marks(log)
  PROVE  o \in Offsets /\ o < FirstFree(log)
<1>1. o \in Offsets /\ log[o] # Blank
  BY DEF Marks, Blank, Entry, StatusRecords, ERASED
<1>2. FirstFree(log) \in 0 .. PageSize
  BY FirstFreeLeast, BlockOffsetsType
<1> QED BY <1>1, <1>2 DEF Packed, Offsets

\* The status record that was appended is the newest one.
LEMMA AppendedStatus ==
  ASSUME NEW log \in Logs, CleanLog(log), FirstFree(log) < PageSize,
         NEW s \in StatusRecords
  PROVE  StatusOf(Programmed(log, FirstFree(log), StatusBlock(s))) = s
<1> DEFINE n == FirstFree(log)
           data == StatusBlock(s)
           new == Programmed(log, n, data)
<1>1. /\ data \in Blocks /\ 0 \in Slots
      /\ data[0] = Entry(RESERVED_STATUS_ADDRESS, s)
      /\ \A i \in Slots : i # 0 => data[i] = Blank
  BY StatusBlockType, GeometryType DEF StatusBlock, Slots
<1>2. data[0] # Blank /\ \A i \in Slots : data[i].address # OutOfRange
  <2>1. Blank.address # OutOfRange /\ s # ERASED /\ RESERVED_STATUS_ADDRESS # OutOfRange
    BY GeometryType DEF Blank, Entry, RESERVED_STATUS_ADDRESS, OutOfRange, ERASED,
       StatusRecords
  <2> QED BY <1>1, <2>1 DEF Entry, Blank
<1> HIDE DEF data
<1>3. /\ \A i \in Slots : n + i \in Offsets /\ new[n + i] = data[i]
      /\ \A o \in Offsets : o >= n + EntriesPerBlock => new[o] = Blank
  BY <1>1, <1>2, AppendedLog
<1>4. n \in Nat
  BY FirstFreeNat
<1> HIDE DEF n, new
<1>5. n \in Offsets /\ new[n] = Entry(RESERVED_STATUS_ADDRESS, s)
  BY <1>1, <1>3, <1>4
<1>6. n \in Marks(new)
  BY <1>5 DEF Marks, Entry
<1>7. ASSUME NEW o \in Marks(new), ~(n >= o) PROVE FALSE
  <2>1. o \in Offsets /\ new[o] # Blank
    BY DEF Marks, Blank, Entry, StatusRecords, ERASED
  <2>2. o < n + EntriesPerBlock
    BY <1>3, <1>4, <2>1, GeometryType DEF Offsets
  <2>3. o - n \in Slots /\ o - n # 0 /\ n + (o - n) = o
    BY <1>4, <1>7, <2>1, <2>2, GeometryType DEF Slots, Offsets
  <2> QED BY <1>1, <1>3, <2>1, <2>3
<1>8. StatusOf(new) = s
  BY <1>5, <1>6, <1>7, StatusOfNewestMark DEF Entry
<1> QED BY <1>8 DEF new, n, data

\* A block of values leaves the newest status record what it was.
LEMMA AppendedKeepsStatus ==
  ASSUME NEW log \in Logs, CleanLog(log), FirstFree(log) < PageSize,
         NEW data \in Blocks, data[0] # Blank,
         \A i \in Slots : data[i].address \in Addresses \/ data[i] = Blank
  PROVE  StatusOf(Programmed(log, FirstFree(log), data)) = StatusOf(log)
<1> DEFINE n == FirstFree(log)
           new == Programmed(log, n, data)
<1>1. \A i \in Slots : data[i].address # OutOfRange
                       /\ (data[i].address = RESERVED_STATUS_ADDRESS => data[i] = Blank)
  BY GeometryType DEF Blank, Entry, RESERVED_STATUS_ADDRESS, OutOfRange, Addresses
<1>2. /\ \A i \in Slots : n + i \in Offsets /\ new[n + i] = data[i]
      /\ \A o \in Offsets : o < n => new[o] = log[o]
      /\ \A o \in Offsets : o >= n + EntriesPerBlock => new[o] = Blank
  BY <1>1, AppendedLog
<1>3. n \in Nat
  BY FirstFreeNat
<1>4. \A o \in Marks(log) : o < n
  BY MarksBelow DEF CleanLog
<1> HIDE DEF n, new
<1>5. ASSUME NEW o \in Marks(new) PROVE o < n
  <2>1. o \in Offsets /\ new[o] # Blank /\ new[o].address = RESERVED_STATUS_ADDRESS
    BY DEF Marks, Blank, Entry, StatusRecords, ERASED
  <2>2. CASE o >= n /\ o < n + EntriesPerBlock
    <3>1. o - n \in Slots /\ n + (o - n) = o
      BY <1>3, <2>1, <2>2, GeometryType DEF Slots, Offsets
    <3> QED BY <1>1, <1>2, <2>1, <3>1
  <2> QED BY <1>2, <1>3, <2>1, <2>2, GeometryType DEF Offsets
<1>6. Marks(new) = Marks(log) /\ \A o \in Marks(log) : new[o].value = log[o].value
  <2>1. \A o \in Offsets : o < n => new[o] = log[o]
    BY <1>2
  <2> QED BY <1>4, <1>5, <2>1 DEF Marks
<1>7. CASE Marks(log) = {}
  BY <1>6, <1>7, StatusOfNewestMark DEF new, n
<1>8. CASE Marks(log) # {}
  <2>1. Marks(log) \subseteq Offsets
    BY DEF Marks
  <2>2. PICK m \in Marks(log) : \A o \in Marks(log) : m >= o
    BY <1>8, <2>1, NewestIn
  <2>3. StatusOf(log) = log[m].value /\ StatusOf(new) = new[m].value
    BY <1>6, <2>2, StatusOfNewestMark
  <2> QED BY <1>6, <2>2, <2>3 DEF new, n
<1> QED BY <1>7, <1>8

\* A scan that starts behind the last record finds the newest status record.
LEMMA ScanFindsStatus ==
  ASSUME NEW log, Packed(log), NEW limit \in 0 .. PageSize, limit >= FirstFree(log)
  PROVE  NewestStatus(log, 0 .. limit - 1) = StatusOf(log)
<1>1. 0 .. limit - 1 \subseteq Offsets /\ \A o \in Offsets : o < limit => o \in 0 .. limit - 1
  BY GeometryType DEF Offsets
<1>2. FirstFree(log) \in 0 .. PageSize
  BY FirstFreeLeast, BlockOffsetsType
<1>3. \A o \in Marks(log) : o \in 0 .. limit - 1
  <2> TAKE o \in Marks(log)
  <2>1. o \in Offsets /\ o < FirstFree(log)
    BY MarksBelow
  <2> QED BY <1>1, <1>2, <2>1, GeometryType DEF Offsets
<1>4. {o \in 0 .. limit - 1 : /\ log[o].address = RESERVED_STATUS_ADDRESS
                              /\ log[o].value \in StatusRecords} = Marks(log)
  BY <1>1, <1>3 DEF Marks
<1>5. {o \in Offsets : /\ log[o].address = RESERVED_STATUS_ADDRESS
                       /\ log[o].value \in StatusRecords} = Marks(log)
  BY DEF Marks
<1> QED BY <1>4, <1>5 DEF StatusOf, NewestStatus

\* One round of a copying loop.
LEMMA CopiedBlock ==
  ASSUME NEW log \in Logs, CleanLog(log), NEW n \in BlockOffsets, n < FirstFree(log)
  PROVE  /\ n + EntriesPerBlock \in BlockOffsets /\ n + EntriesPerBlock <= FirstFree(log)
         /\ \A i \in Slots : n + i \in Offsets /\ Prefix(log, n)[n + i] = Blank
         /\ Programmed(Prefix(log, n), n, [i \in Slots |-> log[n + i]])
              = Prefix(log, n + EntriesPerBlock)
<1> DEFINE e == EntriesPerBlock
           new == Programmed(Prefix(log, n), n, [i \in Slots |-> log[n + i]])
<1>1. /\ n \in Nat /\ n < PageSize /\ e \in Nat \ {0} /\ PageSize \in Nat
      /\ FirstFree(log) \in BlockOffsets
  BY FirstFreeNat, FirstFreeLeast, GeometryType, BlockOffsetsType
<1>2. n + e \in BlockOffsets /\ n + e <= FirstFree(log)
      /\ \A i \in Slots : n + i \in Offsets
  BY <1>1, BlocksApart, BlockOffsetsType
<1>3. \A i \in Slots : Prefix(log, n)[n + i] = Blank
  <2> TAKE i \in Slots
  <2>1. n + i \in Offsets /\ ~(n + i < n)
    BY <1>1, <1>2 DEF Slots
  <2> QED BY <2>1 DEF Prefix
<1>4. \A o \in Offsets :
        (IF o \in n .. n + e - 1 THEN [i \in Slots |-> log[n + i]][o - n]
                                 ELSE Prefix(log, n)[o])
          = IF o < n + e THEN log[o] ELSE Blank
  <2> TAKE o \in Offsets
  <2>1. o \in Nat
    BY DEF Offsets
  <2>2. CASE o \in n .. n + e - 1
    <3>1. o - n \in Slots /\ n + (o - n) = o /\ o < n + e
      BY <1>1, <2>1, <2>2 DEF Slots
    <3> QED BY <2>2, <3>1
  <2>3. CASE o \notin n .. n + e - 1
    <3>1. (o < n) <=> (o < n + e)
      BY <1>1, <2>1, <2>3
    <3> QED BY <2>3, <3>1 DEF Prefix
  <2> QED BY <2>2, <2>3
<1>5. new = Prefix(log, n + e)
  BY <1>4 DEF Programmed, Prefix
<1> QED BY <1>2, <1>3, <1>5

LEMMA CopyDoneIs ==
  ASSUME NEW from, cursor \in BlockOffsets, cursor <= FirstFree(flash[from])
  PROVE  CopyDone(from) <=> cursor = FirstFree(flash[from])
<1>1. cursor \in 0 .. PageSize /\ FirstFree(flash[from]) \in 0 .. PageSize
      /\ PageSize \in Nat
  BY BlockOffsetsType, FirstFreeNat, GeometryType
<1>2. CASE cursor >= PageSize
  BY <1>1, <1>2 DEF CopyDone
<1>3. CASE cursor < PageSize
  <2>1. CopyDone(from) <=> BlockErased(flash[from], cursor)
    BY <1>1, <1>3 DEF CopyDone
  <2> QED BY <1>1, <1>3, <2>1, FirstFreeLeast
<1> QED BY <1>1, <1>2, <1>3

-----------------------------------------------------------------------------
(* Pages and the staged block.                                             *)

IsBlank(p) == flash[p] = ErasedLog
Current(p) == status[p] = StatusOf(flash[p])

\* Reads are served from h, and the other runtime page is cached as s.
Serves(h, s) == status[h] = "Valid" /\ Current(h) /\ status[Other(h)] = s

Home == \E h \in RuntimePages : Serves(h, "Formatted") /\ Current(Other(h))

\* init() has erased the page of an interrupted transfer: its cached status is
\* written again by the transfer that starts over.
Resumed == \E h \in RuntimePages : Serves(h, "Receiving") /\ IsBlank(Other(h))

\* The staged block is the one behind the last record, and next_write_offset
\* points behind the entries it holds.
StagedFits ==
  /\ block.page = WritePage
  /\ block.offset = FirstFree(flash[WritePage])
  /\ block.entries \in 1 .. EntriesPerBlock - 1
  /\ next = At(WritePage, block.offset + block.entries)
  /\ \A i \in Slots : IF i < block.entries THEN block.data[i].address \in Addresses
                                           ELSE block.data[i] = Blank

Staging == IF block.dirty THEN StagedFits
           ELSE WriteOffset(WritePage) = FirstFree(flash[WritePage])

LEMMA Room ==
  /\ MaxAddress + 3 * EntriesPerBlock <= PageSize
  /\ MaxAddress \in Nat \ {0} /\ EntriesPerBlock \in Nat \ {0} /\ PageSize \in Nat
<1>1. /\ BlockCount \in Nat /\ EntriesPerBlock \in Nat \ {0} /\ MaxAddress \in Nat \ {0}
      /\ MaxAddress <= (BlockCount - 3) * EntriesPerBlock
  BY ConstantsAssumption DEF AddressCount, MIN_INTERNAL_ENTRY_BLOCK_COUNT
<1>2. (BlockCount - 3) * EntriesPerBlock = BlockCount * EntriesPerBlock - 3 * EntriesPerBlock
  BY <1>1
<1> QED BY <1>1, <1>2, GeometryType

LEMMA PageNames ==
  /\ "Page1" \in RuntimePages /\ "Page2" \in RuntimePages
  /\ "Page1" \in Pages /\ "Page2" \in Pages /\ "Factory" \in Pages
  /\ Other("Page1") = "Page2" /\ Other("Page2") = "Page1"
  /\ \A p \in RuntimePages : /\ p \in Pages /\ p # "Factory" /\ p # NoPage
                             /\ p = "Page1" \/ p = "Page2"
                             /\ Other(p) \in RuntimePages /\ Other(p) # p
                             /\ Other(Other(p)) = p /\ Other(p) \in Pages
  /\ {"Valid", "Formatted", "Receiving"} \subseteq StatusRecords
BY DEF RuntimePages, Pages, Other, StatusRecords, NoPage

LEMMA ServingPages ==
  ASSUME NEW h \in RuntimePages, NEW s \in {"Formatted", "Receiving", ERASED}, Serves(h, s)
  PROVE  ReadPage = h /\ WritePage = IF s = "Receiving" THEN Other(h) ELSE h
BY DEF Serves, ReadPage, WritePage, WritePageIn, RuntimePages, Other, ERASED

LEMMA StatusBlockIs ==
  ASSUME NEW s \in StatusRecords
  PROVE  /\ StatusBlock(s) \in Blocks /\ StatusBlock(s)[0] # Blank
         /\ \A i \in Slots : StatusBlock(s)[i].address # OutOfRange
<1>1. /\ StatusBlock(s) \in Blocks /\ 0 \in Slots
      /\ StatusBlock(s)[0] = Entry(RESERVED_STATUS_ADDRESS, s)
      /\ \A i \in Slots : i # 0 => StatusBlock(s)[i] = Blank
  BY StatusBlockType, GeometryType DEF StatusBlock, Slots
<1>2. Blank.address # OutOfRange /\ s # ERASED /\ RESERVED_STATUS_ADDRESS # OutOfRange
  BY GeometryType DEF Blank, Entry, RESERVED_STATUS_ADDRESS, OutOfRange, ERASED,
     StatusRecords
<1> QED BY <1>1, <1>2 DEF Entry, Blank

\* A status record that is written becomes the newest one of its page.
LEMMA RecordOnPage ==
  ASSUME HwaTyped, RamTyped, NEW p \in RuntimePages,
         CleanLog(flash[p]), NEW s \in StatusRecords, WritePageStatus(p, s)
  PROVE  /\ CleanLog(flash'[p]) /\ StatusOf(flash'[p]) = s
         /\ FirstFree(flash'[p]) = FirstFree(flash[p]) + EntriesPerBlock
         /\ status'[p] = s /\ ~block'.dirty
         /\ \A q \in Pages : q # p => flash'[q] = flash[q] /\ status'[q] = status[q]
<1> DEFINE log == flash[p]
           new == Programmed(log, FirstFree(log), StatusBlock(s))
<1>1. /\ flash' = [flash EXCEPT ![p] = new] /\ flash \in [Pages -> Logs]
      /\ status' = [status EXCEPT ![p] = s] /\ block' = ClearedBlock
      /\ FirstFree(log) < PageSize /\ p \in Pages /\ status \in [Pages -> PageStatuses]
  BY PageNames DEF WritePageStatus, Program, HwaTyped, RamTyped
<1>2. log \in Logs /\ CleanLog(log)
  BY <1>1
<1>3. CleanLog(new) /\ FirstFree(new) = FirstFree(log) + EntriesPerBlock
  BY <1>1, <1>2, AppendedLog, StatusBlockIs
<1>4. StatusOf(new) = s
  BY <1>1, <1>2, AppendedStatus
<1> HIDE DEF new
<1>5. /\ flash'[p] = new /\ status'[p] = s
      /\ \A q \in Pages : q # p => flash'[q] = flash[q] /\ status'[q] = status[q]
  BY <1>1
<1> QED BY <1>1, <1>3, <1>4, <1>5, ErasedTypes

LEMMA InBlock ==
  ASSUME NEW b \in BlockOffsets, NEW i \in Slots
  PROVE  BlockStart(b + i) = b
<1> DEFINE n == EntriesPerBlock
           k == b \div n
<1>1. n \in Nat \ {0} /\ b \in Nat /\ b % n = 0 /\ i \in 0 .. n - 1
  BY GeometryType DEF BlockOffsets, Slots
<1>2. k \in Nat /\ b = k * n
  BY <1>1
<1> HIDE DEF n, k
<1>3. (k * n + i) \div n = k
  BY <1>1, <1>2
<1>4. BlockStart(b + i) = ((b + i) \div n) * n
  BY DEF BlockStart, n
<1> QED BY <1>2, <1>3, <1>4

LEMMA StagedData ==
  ASSUME HwaTyped, RamTyped, WritePage \in RuntimePages,
         block.dirty, StagedFits
  PROVE  /\ block.data \in Blocks /\ block.data[0] # Blank
         /\ \A i \in Slots : block.data[i].address # OutOfRange
         /\ \A i \in Slots : block.data[i].address \in Addresses \/ block.data[i] = Blank
         /\ FirstFree(flash[WritePage]) < PageSize
         /\ block.entries \in Nat /\ 0 < block.entries /\ block.entries < EntriesPerBlock
<1>1. block.data \in Blocks /\ block.offset \in Offsets /\ block.entries \in 1 .. EntriesPerBlock - 1
      /\ EntriesPerBlock \in Nat \ {0} /\ 0 \in Slots /\ PageSize \in Nat
  BY GeometryType DEF RamTyped, StagedBlocks, StagedFits, Slots
<1>2. Blank.address \notin Addresses /\ Blank.address # OutOfRange /\ OutOfRange \notin Addresses
  BY GeometryType DEF Blank, Entry, RESERVED_STATUS_ADDRESS, OutOfRange, Addresses
<1>3. 0 < block.entries /\ FirstFree(flash[WritePage]) < PageSize
  BY <1>1 DEF StagedFits, Offsets
<1>4. \A i \in Slots : block.data[i].address \in Addresses \/ block.data[i] = Blank
  BY DEF StagedFits
<1>5. block.data[0].address \in Addresses
  BY <1>1, <1>3 DEF StagedFits
<1> QED BY <1>1, <1>2, <1>3, <1>4, <1>5

\* A block of values programmed at the first free block of a page.
LEMMA ValuesOnPage ==
  ASSUME HwaTyped, NEW p \in RuntimePages, CleanLog(flash[p]), NEW data \in Blocks,
         data[0] # Blank,
         \A i \in Slots : data[i].address \in Addresses \/ data[i] = Blank,
         FirstFree(flash[p]) < PageSize,
         Program(p, FirstFree(flash[p]), data)
  PROVE  /\ CleanLog(flash'[p])
         /\ \A q \in Pages : StatusOf(flash'[q]) = StatusOf(flash[q])
         /\ \A q \in Pages : q # p => flash'[q] = flash[q]
         /\ FirstFree(flash'[p]) = FirstFree(flash[p]) + EntriesPerBlock
<1> DEFINE new == Programmed(flash[p], FirstFree(flash[p]), data)
<1>1. p \in Pages /\ flash[p] \in Logs /\ CleanLog(flash[p])
  BY PageNames DEF HwaTyped
<1>2. \A i \in Slots : data[i].address # OutOfRange
  BY GeometryType DEF Blank, Entry, RESERVED_STATUS_ADDRESS, OutOfRange, Addresses
<1>3. CleanLog(new) /\ FirstFree(new) = FirstFree(flash[p]) + EntriesPerBlock
  BY <1>1, <1>2, AppendedLog
<1>4. StatusOf(new) = StatusOf(flash[p])
  BY <1>1, AppendedKeepsStatus
<1>5. flash' = [flash EXCEPT ![p] = new] /\ flash \in [Pages -> Logs]
  BY DEF Program, HwaTyped
<1> HIDE DEF new
<1>6. flash'[p] = new /\ \A q \in Pages : q # p => flash'[q] = flash[q]
  BY <1>1, <1>5
<1> QED BY <1>3, <1>4, <1>6

\* Erased cells take any block.
LEMMA FreeBlockAccepts ==
  ASSUME NEW p, FirstFree(flash[p]) < PageSize, NEW data
  PROVE  Accepts(p, FirstFree(flash[p]), data)
BY FirstFreeLeast DEF Accepts, BlockErased

\* flush_write_block() writes the staged block behind the last record, and the
\* next entry goes behind it.
LEMMA FlushedOnPage ==
  ASSUME HwaTyped, RamTyped, WritePage \in RuntimePages, CleanLog(flash[WritePage]),
         Staging,
         FlushBlock, status' = status
  PROVE  /\ CleanLog(flash'[WritePage])
         /\ \A q \in Pages : StatusOf(flash'[q]) = StatusOf(flash[q])
         /\ \A q \in Pages : q # WritePage => flash'[q] = flash[q]
         /\ WritePage' = WritePage /\ Staging' /\ ~block'.dirty
         /\ IF block.dirty
            THEN FirstFree(flash'[WritePage]) = FirstFree(flash[WritePage]) + EntriesPerBlock
            ELSE flash' = flash
<1>1. WritePage' = WritePage /\ ~block'.dirty
  BY ErasedTypes DEF WritePage, FlushBlock
<1>2. CASE block.dirty
  <2>1. StagedFits
    BY <1>2 DEF Staging
  <2>2. Program(WritePage, FirstFree(flash[WritePage]), block.data)
    BY <1>2, <2>1 DEF FlushBlock, StagedFits
  <2>3. /\ CleanLog(flash'[WritePage])
        /\ \A q \in Pages : StatusOf(flash'[q]) = StatusOf(flash[q])
        /\ \A q \in Pages : q # WritePage => flash'[q] = flash[q]
        /\ FirstFree(flash'[WritePage]) = FirstFree(flash[WritePage]) + EntriesPerBlock
    BY <1>2, <2>1, <2>2, StagedData, ValuesOnPage
  <2>4. next' = At(WritePage, FirstFree(flash[WritePage]) + EntriesPerBlock)
    <3>1. /\ next.page = WritePage /\ next.offset = block.offset + block.entries
          /\ block.page = WritePage /\ block.offset = FirstFree(flash[WritePage])
      BY <2>1 DEF StagedFits, At
    <3>2. /\ block.entries \in Nat /\ 0 < block.entries /\ block.entries < EntriesPerBlock
          /\ FirstFree(flash[WritePage]) \in Nat /\ EntriesPerBlock \in Nat
      BY <1>2, <2>1, StagedData, FirstFreeNat, GeometryType
    <3> QED BY <1>2, <3>1, <3>2 DEF FlushBlock, AfterFlush
  <2>5. WriteOffset(WritePage)' = FirstFree(flash'[WritePage])
    <3>1. FirstFree(flash[WritePage]) + EntriesPerBlock # 0
      BY FirstFreeNat, GeometryType
    <3> QED BY <1>1, <2>3, <2>4, <3>1 DEF WriteOffset, At
  <2> QED BY <1>1, <1>2, <2>3, <2>5 DEF Staging
<1>3. CASE ~block.dirty
  <2>1. flash' = flash /\ next' = next
    BY <1>3 DEF FlushBlock, AfterFlush
  <2> QED BY <1>1, <1>3, <2>1 DEF Staging, WriteOffset
<1> QED BY <1>2, <1>3

\* How many entries are staged.
StagedCount == IF block.dirty THEN block.entries ELSE 0

LEMMA StagedIs ==
  ASSUME HwaTyped, RamTyped, WritePage \in RuntimePages, Staging
  PROVE  /\ StagedCount \in Slots
         /\ WriteOffset(WritePage) = FirstFree(flash[WritePage]) + StagedCount
         /\ HasRoom => /\ FirstFree(flash[WritePage]) < PageSize
                       /\ BlockStart(WriteOffset(WritePage)) = FirstFree(flash[WritePage])
                       /\ ~StagedElsewhere
<1> DEFINE free == FirstFree(flash[WritePage])
<1>1. /\ free \in Nat /\ free \in BlockOffsets /\ EntriesPerBlock \in Nat \ {0}
      /\ PageSize \in Nat /\ 0 \in Slots /\ free <= PageSize
  BY FirstFreeNat, FirstFreeLeast, GeometryType DEF Slots
<1>2. StagedCount \in Slots /\ WriteOffset(WritePage) = free + StagedCount
  <2>1. CASE block.dirty
    <3>1. StagedFits /\ block.entries \in 1 .. EntriesPerBlock - 1
      BY <2>1 DEF Staging, StagedFits
    <3>2. next.page = WritePage /\ next.offset = free + block.entries
      BY <3>1 DEF StagedFits, At
    <3>3. next.offset # 0 /\ block.entries \in Slots
      BY <1>1, <3>1, <3>2 DEF Slots
    <3> QED BY <2>1, <3>2, <3>3 DEF WriteOffset, StagedCount
  <2>2. CASE ~block.dirty
    BY <1>1, <2>2 DEF Staging, StagedCount
  <2> QED BY <2>1, <2>2
<1>3. BlockStart(WriteOffset(WritePage)) = free
  BY <1>1, <1>2, InBlock
<1>4. ASSUME HasRoom PROVE free < PageSize
  BY <1>1, <1>2, <1>4 DEF HasRoom, Slots
<1>5. ~StagedElsewhere
  BY <1>3 DEF StagedElsewhere, Staging, StagedFits
<1> QED BY <1>2, <1>3, <1>4, <1>5

\* The cached offset is looked up again.
LEMMA OffsetRefreshed ==
  ASSUME HwaTyped, RamTyped, WritePage \in RuntimePages, Staging,
         next' = At(WritePage, WriteOffset(WritePage)), UNCHANGED <<flash, status, block>>
  PROVE  Staging'
<1>1. WritePage' = WritePage
  BY DEF WritePage
<1>2. CASE block.dirty
  <2>1. StagedFits /\ block.entries \in 1 .. EntriesPerBlock - 1
    BY <1>2 DEF Staging, StagedFits
  <2>2. WriteOffset(WritePage) = block.offset + block.entries
    BY <1>2, <2>1, StagedIs DEF StagedCount, StagedFits
  <2> QED BY <1>1, <1>2, <2>1, <2>2 DEF Staging, StagedFits
<1>3. CASE ~block.dirty
  <2>1. WriteOffset(WritePage) = FirstFree(flash[WritePage])
    BY <1>3 DEF Staging
  <2> QED BY <1>1, <1>3, <2>1 DEF Staging, WriteOffset, At
<1> QED BY <1>2, <1>3

\* One more entry on the staged block.
LEMMA EntryStaged ==
  ASSUME HwaTyped, RamTyped, WritePage \in RuntimePages, Staging,
         HasRoom, NEW e \in Entries, e.address \in Addresses
  PROVE  /\ Staged(e) \in StagedBlocks /\ Staged(e).dirty
         /\ Staged(e).page = WritePage
         /\ Staged(e).offset = FirstFree(flash[WritePage])
         /\ Staged(e).entries = StagedCount + 1
         /\ \A i \in Slots : IF i < StagedCount + 1
                             THEN Staged(e).data[i].address \in Addresses
                             ELSE Staged(e).data[i] = Blank
         /\ Staged(e).data[StagedCount] = e
         /\ \A i \in Slots : i # StagedCount =>
              Staged(e).data[i] = IF block.dirty THEN block.data[i] ELSE Blank
<1> DEFINE p == WritePage
           o == WriteOffset(p)
           free == FirstFree(flash[p])
           base == IF block.dirty THEN block
                   ELSE [ClearedBlock EXCEPT !.page = p, !.offset = BlockStart(o),
                                             !.dirty = TRUE]
<1>1. /\ StagedCount \in Slots /\ o = free + StagedCount /\ BlockStart(o) = free
      /\ ~StagedElsewhere /\ free \in Nat /\ EntriesPerBlock \in Nat \ {0}
  BY StagedIs, FirstFreeNat, GeometryType
<1>2. o - BlockStart(o) = StagedCount
  BY <1>1 DEF Slots
<1>3. Staged(e) \in StagedBlocks
  BY <1>1, StagedType
<1>4. /\ base \in StagedBlocks /\ base.dirty /\ base.page = p /\ base.offset = free
      /\ base.entries = StagedCount
      /\ \A i \in Slots : IF i < StagedCount THEN base.data[i].address \in Addresses
                                             ELSE base.data[i] = Blank
  <2>1. CASE block.dirty
    <3>1. StagedFits
      BY <2>1 DEF Staging
    <3> QED BY <2>1, <3>1 DEF StagedFits, StagedCount, RamTyped
  <2>2. CASE ~block.dirty
    <3>1. free \in {x \in Offsets : x % EntriesPerBlock = 0}
      BY StagedIs, FirstFreeType DEF BlockOffsets
    <3>2. base = [page |-> p, offset |-> free, entries |-> 0, dirty |-> TRUE,
                  data |-> [i \in Slots |-> Blank]]
      BY <1>1, <2>2 DEF ClearedBlock
    <3>3. [i \in Slots |-> Blank] \in Blocks /\ 0 \in 0 .. EntriesPerBlock
      BY ErasedTypes, GeometryType DEF Blocks
    <3> HIDE DEF base, p, free
    <3>4. base \in StagedBlocks
      BY <3>1, <3>2, <3>3 DEF StagedBlocks, p
    <3>5. StagedCount = 0 /\ \A i \in Slots : ~(i < 0)
      BY <2>2 DEF StagedCount, Slots
    <3> QED BY <3>2, <3>4, <3>5
  <2> QED BY <2>1, <2>2
<1>5. Staged(e) = [base EXCEPT !.data[o - BlockStart(o)] = e,
                     !.entries = IF @ < EntriesPerBlock THEN @ + 1 ELSE @]
  BY DEF Staged
<1> HIDE DEF base
<1>6. Staged(e) = [base EXCEPT !.data[StagedCount] = e,
                     !.entries = IF @ < EntriesPerBlock THEN @ + 1 ELSE @]
  BY <1>2, <1>5
<1>7. StagedCount < EntriesPerBlock /\ StagedCount \in Nat
  BY <1>1 DEF Slots
<1>8. /\ Staged(e).dirty /\ Staged(e).page = p /\ Staged(e).offset = free
      /\ Staged(e).entries = StagedCount + 1
      /\ Staged(e).data = [base.data EXCEPT ![StagedCount] = e]
  BY <1>4, <1>6, <1>7 DEF StagedBlocks
<1>9. ASSUME NEW i \in Slots
      PROVE  IF i < StagedCount + 1 THEN Staged(e).data[i].address \in Addresses
                                    ELSE Staged(e).data[i] = Blank
  <2>1. base.data \in [Slots -> Entries]
    BY <1>4 DEF StagedBlocks, Blocks
  <2>2. CASE i = StagedCount
    BY <1>1, <1>7, <1>8, <2>1, <2>2
  <2>3. CASE i # StagedCount
    <3>1. Staged(e).data[i] = base.data[i]
      BY <1>1, <1>8, <2>1, <2>3
    <3>2. i \in Nat /\ (i < StagedCount + 1 <=> i < StagedCount)
      BY <1>7, <2>3 DEF Slots
    <3> QED BY <1>4, <3>1, <3>2
  <2> QED BY <2>2, <2>3
<1>10. /\ Staged(e).data[StagedCount] = e
       /\ \A i \in Slots : i # StagedCount =>
            Staged(e).data[i] = IF block.dirty THEN block.data[i] ELSE Blank
  <2>1. base.data \in [Slots -> Entries]
    BY <1>4 DEF StagedBlocks, Blocks
  <2>2. \A i \in Slots : base.data[i] = IF block.dirty THEN block.data[i] ELSE Blank
    BY DEF base, ClearedBlock
  <2> QED BY <1>1, <1>8, <2>1, <2>2
<1> QED BY <1>3, <1>8, <1>9, <1>10

\* write_internal() and write_entry(): the entry is staged behind the others,
\* and a block that is full is written behind the last record.
LEMMA AppendedOnPage ==
  ASSUME HwaTyped, RamTyped, WritePage \in RuntimePages, CleanLog(flash[WritePage]),
         Staging,
         NEW e \in Entries, e.address \in Addresses, AppendEntry(e), status' = status
  PROVE  /\ CleanLog(flash'[WritePage])
         /\ \A q \in Pages : StatusOf(flash'[q]) = StatusOf(flash[q])
         /\ \A q \in Pages : q # WritePage => flash'[q] = flash[q]
         /\ WritePage' = WritePage /\ Staging'
         /\ WriteOffset(WritePage)' = WriteOffset(WritePage) + 1
<1> DEFINE b == Staged(e)
           free == FirstFree(flash[WritePage])
<1>1. HasRoom /\ WritePage' = WritePage /\ next' = At(WritePage, WriteOffset(WritePage) + 1)
  BY DEF AppendEntry, WritePage
<1>2. /\ b \in StagedBlocks /\ b.dirty /\ b.page = WritePage /\ b.offset = free
      /\ b.entries = StagedCount + 1
      /\ \A i \in Slots : IF i < StagedCount + 1 THEN b.data[i].address \in Addresses
                                                 ELSE b.data[i] = Blank
  BY <1>1, EntryStaged
<1>3. /\ StagedCount \in Slots /\ WriteOffset(WritePage) = free + StagedCount
      /\ free < PageSize /\ free \in Nat /\ EntriesPerBlock \in Nat \ {0} /\ 0 \in Slots
  BY <1>1, StagedIs, FirstFreeNat, GeometryType DEF Slots
<1>4. IF BlockFull(b) THEN Program(b.page, b.offset, b.data) /\ block' = ClearedBlock
                      ELSE block' = b /\ UNCHANGED <<flash, faults>>
  BY DEF AppendEntry
<1> HIDE DEF b
<1>5. WriteOffset(WritePage)' = WriteOffset(WritePage) + 1
  <2>1. WriteOffset(WritePage) + 1 # 0
    BY <1>3 DEF Slots
  <2> QED BY <1>1, <2>1 DEF WriteOffset, At
<1>6. CASE BlockFull(b)
  <2>1. StagedCount + 1 = EntriesPerBlock
    BY <1>2, <1>3, <1>6 DEF BlockFull, Slots
  <2>2. b.data \in Blocks
    BY <1>2 DEF StagedBlocks
  <2>3. b.data[0] # Blank /\ \A i \in Slots : b.data[i].address \in Addresses \/ b.data[i] = Blank
    <3>1. 0 < StagedCount + 1
      BY <1>3 DEF Slots
    <3>2. Blank.address \notin Addresses
      BY GeometryType DEF Blank, Entry, RESERVED_STATUS_ADDRESS, Addresses
    <3> QED BY <1>2, <1>3, <3>1, <3>2
  <2>4. Program(WritePage, free, b.data) /\ block' = ClearedBlock
    BY <1>2, <1>4, <1>6
  <2>5. /\ CleanLog(flash'[WritePage])
        /\ \A q \in Pages : StatusOf(flash'[q]) = StatusOf(flash[q])
        /\ \A q \in Pages : q # WritePage => flash'[q] = flash[q]
        /\ FirstFree(flash'[WritePage]) = free + EntriesPerBlock
    BY <1>3, <2>2, <2>3, <2>4, ValuesOnPage
  <2>6. WriteOffset(WritePage)' = FirstFree(flash'[WritePage])
    BY <1>3, <1>5, <2>1, <2>5 DEF Slots
  <2>7. Staging'
    BY <1>1, <2>4, <2>6, ErasedTypes DEF Staging
  <2> QED BY <1>1, <1>5, <2>5, <2>7
<1>7. CASE ~BlockFull(b)
  <2>1. block' = b /\ flash' = flash
    BY <1>4, <1>7
  <2>2. b.entries \in 1 .. EntriesPerBlock - 1
    BY <1>2, <1>3, <1>7 DEF BlockFull, Slots
  <2>3. WriteOffset(WritePage) + 1 = b.offset + b.entries
    BY <1>2, <1>3 DEF Slots
  <2>4. StagedFits'
    BY <1>1, <1>2, <2>1, <2>2, <2>3 DEF StagedFits
  <2> QED BY <1>1, <1>2, <1>5, <2>1, <2>4 DEF Staging
<1> QED BY <1>6, <1>7

-----------------------------------------------------------------------------
(* Which calls a step belongs to.                                            *)

CallsAt ==
  /\ pc \in {"off", "repair_erase", "repair_formatted", "resume_erase", "resume_reload"} =>
       op = "init"
  /\ pc \in {"write", "write_again"} => op = "write"
  /\ pc = "flush_block" => op \in {"flush", "store_to_factory"}
  /\ pc \in {"store_erase", "store_copy"} => op = "store_to_factory"
  /\ pc \in TransferSteps =>
       op \in {"init", "write", "flush", "store_to_factory", "page_transfer"}
  /\ pc \in {"format_erase1", "format_erase2", "format_valid", "format_formatted"} =>
       op \in {"format", "init"}
  /\ pc = "format_erase_factory" => op = "format" /\ flag
  /\ pc \in {"restore_erase1", "restore_erase2", "restore_copy", "restore_formatted"} =>
       op = "restore_from_factory"
  /\ pc = "reload" => op \in {"init", "restore_from_factory"}

LEMMA CallsStay ==
  ASSUME CallsAt, Next
  PROVE  CallsAt'
<1>1. CASE CallStep
  <2>1. CASE pc' = "idle"
    BY <2>1 DEF CallsAt, TransferSteps
  <2>2. CASE pc' = "write" /\ op' = "write"
    BY <2>2 DEF CallsAt, TransferSteps
  <2>3. CASE pc' = "flush_block" /\ op' \in {"flush", "store_to_factory"}
    BY <2>3 DEF CallsAt, TransferSteps
  <2>4. CASE pc' = "xfer_flush" /\ op' \in {"flush", "store_to_factory", "page_transfer"}
    BY <2>4 DEF CallsAt, TransferSteps
  <2>5. CASE pc' = "format_erase1" /\ op' \in {"format", "init"}
    BY <2>5 DEF CallsAt, TransferSteps
  <2>6. CASE pc' = "restore_erase1" /\ op' = "restore_from_factory"
    BY <2>6 DEF CallsAt, TransferSteps
  <2>7. CASE pc' \in {"reload", "repair_erase", "resume_erase"} /\ op' = "init"
    BY <2>7 DEF CallsAt, TransferSteps
  <2> QED BY <1>1, <2>1, <2>2, <2>3, <2>4, <2>5, <2>6, <2>7
          DEF CallStep, Write, WriteCached, Read, PageStatus, Flush, PageTransfer, Format,
              RestoreFromFactory, InitCall, StartInit, Repair, Call, Answer, Begin
<1>2. CASE AppendStep
  BY <1>2 DEF AppendStep, WriteInternal, FlushStale, FlushStaleFails, AppendPoints,
     Return, Fail, Goto, locals, CallsAt, TransferSteps
<1>3. CASE TransferStep
  BY <1>3 DEF TransferStep, XferFlush, XferReceiving, XferCopy, XferCopied, XferErase,
     XferFormatted, XferValid, XferStatus, XferReload, Return, Fail, locals, CallsAt,
     TransferSteps
<1>4. CASE FactoryStep
  BY <1>4 DEF FactoryStep, FlushPending, StoreErase, StoreCopy, StoreDone, RestoreErase1,
     RestoreErase2, RestoreCopy, RestoreValid, RestoreFormatted, EraseStep, CopyBlock,
     Return, Fail, locals, CallsAt, TransferSteps
<1>5. CASE FormatStep
  BY <1>5 DEF FormatStep, FormatErase1, FormatErase2, FormatEraseFactory, FormatValid,
     FormatFormatted, EraseStep, Return, Fail, locals, CallsAt, TransferSteps
<1>6. CASE BootStep
  BY <1>6 DEF BootStep, Boot, StartInit, Repair, EraseUnused, EraseReceiving, RepairErase,
     RepairFormatted, ResumeReload, FinalReload, Goto, Return, Fail, locals, CallsAt,
     TransferSteps
<1>7. CASE PowerLoss
  BY <1>7 DEF PowerLoss, CallsAt, TransferSteps
<1> QED BY <1>1, <1>2, <1>3, <1>4, <1>5, <1>6, <1>7 DEF Next, Step

-----------------------------------------------------------------------------
(* What init() would find.                                                   *)

LEMMA UnusedAddresses ==
  /\ Blank.address \notin Addresses /\ RESERVED_STATUS_ADDRESS \notin Addresses
  /\ OutOfRange \notin Addresses /\ 0 \in Addresses /\ Addresses \subseteq Nat
BY GeometryType, ConstantsAssumption
   DEF Blank, Entry, RESERVED_STATUS_ADDRESS, OutOfRange, Addresses

TableIn(f) ==
  LET valid == {p \in RuntimePages : StatusOf(f[p]) = "Valid"} IN
  IF Cardinality(valid) = 1 /\ \A p \in valid : Decodes(f[p])
  THEN CHOOSE table \in {Contents(f[p]) : p \in valid} : TRUE
  ELSE ErasedCache

LEMMA RecoveredIs == Recovered = TableIn(flash)
BY DEF Recovered, TableIn, ValidPages

Finds == Recovered = TableIn(flash)

LEMMA FindsNow == Finds
BY RecoveredIs DEF Finds

LEMMA FindsNext == Finds'
BY FindsNow, PTL

LEMMA RecoveredNext == Recovered' = TableIn(flash')
BY FindsNext DEF Finds

\* The one Valid page is what init() serves reads from, when it decodes.
LEMMA FoundOnPage ==
  ASSUME NEW f, NEW h \in RuntimePages, StatusOf(f[h]) = "Valid",
         StatusOf(f[Other(h)]) # "Valid", Decodes(f[h])
  PROVE  TableIn(f) = Contents(f[h])
<1> DEFINE valid == {p \in RuntimePages : StatusOf(f[p]) = "Valid"}
<1>1. \A p \in RuntimePages : p = h \/ p = Other(h)
  BY PageNames
<1>2. valid = {h}
  BY <1>1
<1>3. Cardinality({h}) = 1
  BY FS_Singleton
<1>4. \A p \in valid : Decodes(f[p])
  BY <1>2
<1>5. {Contents(f[p]) : p \in valid} = {Contents(f[h])}
  BY <1>2
<1> HIDE DEF valid
<1>6. TableIn(f) = CHOOSE table \in {Contents(f[h])} : TRUE
  BY <1>2, <1>3, <1>4, <1>5 DEF TableIn, valid
<1>7. (CHOOSE table \in {Contents(f[h])} : TRUE) \in {Contents(f[h])}
  OBVIOUS
<1> QED BY <1>6, <1>7

LEMMA NothingFound ==
  ASSUME NEW log, \A o \in Offsets : log[o].address \notin Addresses \cup {OutOfRange}
  PROVE  Contents(log) = ErasedCache /\ Decodes(log)
<1>1. 0 .. FirstFree(log) - 1 \subseteq Offsets
  BY FirstFreeType
<1>2. ASSUME NEW a \in Addresses
      PROVE  NewestValue(log, a, 0 .. FirstFree(log) - 1) = ERASED
  <2>1. {o \in 0 .. FirstFree(log) - 1 : log[o].address = a} = {}
    BY <1>1, <1>2
  <2> QED BY <2>1 DEF NewestValue
<1> QED BY <1>1, <1>2 DEF Contents, ErasedCache, Decodes, Foreign

\* A page with nothing but its header.
LEMMA HeaderAlone ==
  ASSUME HwaTyped, NEW p \in RuntimePages, IsBlank(p), NEW s \in StatusRecords,
         WritePageStatus(p, s)
  PROVE  Contents(flash'[p]) = ErasedCache /\ Decodes(flash'[p])
<1> DEFINE new == Programmed(flash[p], FirstFree(flash[p]), StatusBlock(s))
<1>1. flash'[p] = new
  BY PageNames DEF WritePageStatus, Program, HwaTyped
<1>2. flash[p] = ErasedLog /\ FirstFree(flash[p]) = 0
  BY ErasedIsClean DEF IsBlank
<1>3. \A o \in Offsets : new[o] \in {Blank, Entry(RESERVED_STATUS_ADDRESS, s)}
  <2> TAKE o \in Offsets
  <2>1. CASE o \in 0 .. 0 + EntriesPerBlock - 1
    <3>1. o - 0 \in Slots
      BY <2>1, GeometryType DEF Slots, Offsets
    <3> QED BY <1>2, <2>1, <3>1 DEF Programmed, StatusBlock
  <2>2. CASE o \notin 0 .. 0 + EntriesPerBlock - 1
    BY <1>2, <2>2 DEF Programmed, ErasedLog
  <2> QED BY <2>1, <2>2
<1> HIDE DEF new
<1>4. \A o \in Offsets : new[o].address = RESERVED_STATUS_ADDRESS
  BY <1>3 DEF Blank, Entry
<1>5. RESERVED_STATUS_ADDRESS \notin Addresses \cup {OutOfRange}
  BY UnusedAddresses, GeometryType DEF RESERVED_STATUS_ADDRESS, OutOfRange
<1> QED BY <1>1, <1>4, <1>5, NothingFound

-----------------------------------------------------------------------------
(* init() repairs what it finds, whatever that is and whatever fails.        *)

\* The inductive invariant: what init() knows of the pages before each step.
BootAt ==
  op = "init" =>
    /\ pc \in {"reload", "xfer_reload"} => Home
    /\ pc = "repair_erase" => \E h \in RuntimePages : Serves(h, ERASED)
    /\ pc = "repair_formatted" =>
         \E h \in RuntimePages : Serves(h, ERASED) /\ IsBlank(Other(h))
    /\ pc = "resume_erase" => \E h \in RuntimePages : Serves(h, "Receiving")
    /\ pc \in {"resume_reload", "xfer_flush"} => Resumed
    /\ pc = "xfer_flush" => ~block.dirty
    /\ pc = "xfer_receiving" => Serves(oldPage, "Receiving") /\ IsBlank(Other(oldPage))
    /\ pc \in {"xfer_copy", "xfer_erase"} => Serves(oldPage, "Receiving")
    /\ pc \in {"xfer_copy", "xfer_erase", "xfer_formatted", "xfer_valid"} =>
         CleanLog(flash[Other(oldPage)])
    /\ pc = "xfer_copy" => Staging
    /\ pc = "xfer_formatted" => IsBlank(oldPage)
    /\ pc = "xfer_valid" => status[oldPage] = "Formatted" /\ Current(oldPage)
    /\ pc \in {"format_erase2", "format_valid"} => IsBlank("Page1")
    /\ pc = "format_valid" => IsBlank("Page2")
    /\ pc = "format_formatted" =>
         /\ IsBlank("Page2") /\ status["Page1"] = "Valid" /\ Current("Page1")
         /\ cache = ErasedCache /\ Contents(flash["Page1"]) = ErasedCache
         /\ Decodes(flash["Page1"])
    /\ pc = "idle" => BootRepairs

\* init() from the start, and the steps it formats with, rely on nothing.
FreshSteps == {"off", "format_erase1"}

LEMMA FreshBoot ==
  ASSUME pc' \in FreshSteps
  PROVE  BootAt'
BY DEF BootAt, FreshSteps

LEMMA OtherBoot ==
  ASSUME op' # "init"
  PROVE  BootAt'
BY DEF BootAt

\* A step of init() that fails starts over or formats.
LEMMA FailedBoot ==
  ASSUME NEW res, Fail(res)
  PROVE  BootAt'
<1>1. CASE op # "init"
  BY <1>1, OtherBoot DEF Fail, Return
<1>2. CASE op = "init"
  BY <1>2, FreshBoot DEF Fail, FreshSteps
<1> QED BY <1>1, <1>2

\* A Valid page that decodes and a Formatted one are what init() serves.
LEMMA ServedBoot ==
  ASSUME NEW f, NEW h \in RuntimePages, StatusOf(f[h]) = "Valid",
         StatusOf(f[Other(h)]) = "Formatted", Decodes(f[h])
  PROVE  /\ OneValid([p \in Pages |-> StatusOf(f[p])])
         /\ Partner([p \in Pages |-> StatusOf(f[p])]) = "Formatted"
         /\ TableIn(f) = Contents(f[h])
<1>1. TableIn(f) = Contents(f[h])
  BY FoundOnPage
<1> QED BY <1>1, PageNames DEF OneValid, Partner

LEMMA RepairedBoot ==
  ASSUME NEW h \in RuntimePages, StatusOf(flash'[h]) = "Valid",
         StatusOf(flash'[Other(h)]) = "Formatted", Decodes(flash'[h]),
         cache' = Contents(flash'[h]), pc' = "idle"
  PROVE  BootAt'
<1>1. /\ OneValid(FlashStatus)' /\ Partner(FlashStatus)' = "Formatted"
      /\ Recovered' = Contents(flash'[h])
  BY ServedBoot, RecoveredNext DEF FlashStatus
<1> QED BY <1>1 DEF BootAt, BootRepairs

\* The last cache() finds the page that is Valid.
LEMMA ReloadedBoot ==
  ASSUME Home, Reload, pc' = "idle"
  PROVE  BootAt'
<1>1. PICK h \in RuntimePages : Serves(h, "Formatted") /\ Current(Other(h))
  BY DEF Home
<1>2. ReadPage = h
  BY <1>1, ServingPages
<1>3. /\ StatusOf(flash'[h]) = "Valid" /\ StatusOf(flash'[Other(h)]) = "Formatted"
      /\ Decodes(flash'[h]) /\ cache' = Contents(flash'[h])
  BY <1>1, <1>2 DEF Reload, Serves, Current
<1> QED BY <1>3, RepairedBoot

\* What the page headers say decides where init() goes on.
LEMMA StartBoot ==
  ASSUME StartInit
  PROVE  BootAt'
<1>1. /\ flash' = flash /\ pc' = Repair(status')
      /\ status' = [p \in Pages |-> StatusOf(flash[p])]
  BY DEF StartInit
<1>2. pc' \in {"reload", "repair_erase", "resume_erase", "format_erase1"}
  BY <1>1 DEF Repair
<1>3. \A p \in Pages : Current(p)'
  BY <1>1 DEF Current
<1>4. pc' # "format_erase1" =>
        \E h \in RuntimePages :
          /\ status'[h] = "Valid"
          /\ pc' = "reload" => status'[Other(h)] = "Formatted"
          /\ pc' = "repair_erase" => status'[Other(h)] = ERASED
          /\ pc' = "resume_erase" => status'[Other(h)] = "Receiving"
  <2>1. CASE status'["Page1"] = "Valid"
    BY <1>1, <2>1, PageNames DEF Repair, OneValid, Partner
  <2>2. CASE status'["Page1"] # "Valid"
    BY <1>1, <2>2, PageNames DEF Repair, OneValid, Partner
  <2> QED BY <2>1, <2>2
<1>5. CASE pc' = "format_erase1"
  BY <1>5, FreshBoot DEF FreshSteps
<1>6. CASE pc' # "format_erase1"
  <2>1. PICK h \in RuntimePages :
          /\ status'[h] = "Valid"
          /\ pc' = "reload" => status'[Other(h)] = "Formatted"
          /\ pc' = "repair_erase" => status'[Other(h)] = ERASED
          /\ pc' = "resume_erase" => status'[Other(h)] = "Receiving"
    BY <1>4, <1>6
  <2>2. /\ pc' = "reload" => Serves(h, "Formatted")' /\ Current(Other(h))'
        /\ pc' = "repair_erase" => Serves(h, ERASED)'
        /\ pc' = "resume_erase" => Serves(h, "Receiving")'
    BY <1>3, <2>1, PageNames DEF Serves
  <2>3. pc' = "reload" => Home'
    BY <2>2 DEF Home
  <2> QED BY <1>2, <1>6, <2>2, <2>3 DEF BootAt
<1> QED BY <1>5, <1>6

LEMMA CallsBoot ==
  ASSUME CallStep
  PROVE  BootAt'
<1>1. CASE InitCall
  BY <1>1, StartBoot DEF InitCall
<1>2. CASE ~InitCall
  <2>1. op' # "init"
    BY <1>2 DEF CallStep, Write, WriteCached, Read, PageStatus, Flush, PageTransfer,
       Format, RestoreFromFactory, Call
  <2> QED BY <2>1, OtherBoot
<1> QED BY <1>1, <1>2

LEMMA AppendsBoot ==
  ASSUME IndInv, CallsAt, BootAt, AppendStep
  PROVE  BootAt'
<1>1. CASE op # "init"
  BY <1>1, OtherBoot
     DEF AppendStep, WriteInternal, FlushStale, FlushStaleFails, Return, Fail, Goto, locals
<1>2. CASE op = "init"
  <2>1. pc = "xfer_copy" /\ HasRoom /\ StagedElsewhere
    BY <1>2 DEF AppendStep, WriteInternal, FlushStale, FlushStaleFails, AppendPoints, CallsAt
  <2>2. Staging /\ HwaTyped /\ RamTyped /\ WritePage \in RuntimePages
    BY <1>2, <2>1, PagesType DEF BootAt, HasRoom, IndInv, TypeOK
  <2> QED BY <2>1, <2>2, StagedIs
<1> QED BY <1>1, <1>2

\* The steps of page_transfer(), as init() runs them.
LEMMA XferFlushBoot ==
  ASSUME BootAt, op = "init", XferFlush
  PROVE  BootAt'
<1>1. pc = "xfer_flush" /\ ~block.dirty /\ Resumed /\ UNCHANGED status
  BY DEF XferFlush, BootAt
<1>2. PICK h \in RuntimePages : Serves(h, "Receiving") /\ IsBlank(Other(h))
  BY <1>1 DEF Resumed
<1>3. ReadPage = h
  BY <1>2, ServingPages
<1>4. CASE /\ FlushBlock /\ ReadPage # NoPage
           /\ pc' = "xfer_receiving"
           /\ oldPage' = ReadPage
           /\ UNCHANGED <<op, entry, flag, cursor, result>>
  <2>1. flash' = flash /\ oldPage' = h
    BY <1>1, <1>3, <1>4 DEF FlushBlock
  <2>2. Serves(oldPage, "Receiving")' /\ IsBlank(Other(oldPage))'
    BY <1>1, <1>2, <2>1 DEF Serves, Current, IsBlank
  <2> QED BY <1>4, <2>2 DEF BootAt
<1> QED BY <1>1, <1>4, FailedBoot DEF XferFlush

LEMMA XferReceivingBoot ==
  ASSUME IndInv, BootAt, op = "init", XferReceiving
  PROVE  BootAt'
<1> DEFINE new == Other(oldPage)
<1>1. /\ pc = "xfer_receiving" /\ Serves(oldPage, "Receiving") /\ flash[new] = ErasedLog
      /\ HwaTyped /\ RamTyped /\ oldPage \in RuntimePages
  BY DEF XferReceiving, BootAt, IsBlank, IndInv, TypeOK, CallTyped
<1>2. CASE /\ WritePageStatus(new, "Receiving") /\ next' = At(new, 0)
           /\ pc' = "xfer_copy" /\ cursor' = 0
           /\ UNCHANGED <<op, entry, flag, oldPage, result>>
  <2>1. /\ CleanLog(flash'[new]) /\ status'[new] = "Receiving" /\ ~block'.dirty
        /\ flash'[oldPage] = flash[oldPage] /\ status'[oldPage] = status[oldPage]
    <3>1. CleanLog(flash[new])
      BY <1>1, ErasedIsClean
    <3> QED BY <1>1, <1>2, <3>1, RecordOnPage, PageNames
  <2>2. oldPage' = oldPage
    BY <1>2
  <2>3. Serves(oldPage, "Receiving")'
    BY <1>1, <2>1, <2>2 DEF Serves, Current
  <2>4. WritePage' = new
    BY <1>1, <2>1, <2>3, <2>2, PageNames DEF Serves, WritePage, WritePageIn
  <2>5. Staging'
    BY <1>2, <2>1, <2>4 DEF Staging, WriteOffset, At
  <2> QED BY <1>2, <2>1, <2>2, <2>3, <2>5 DEF BootAt
<1> QED BY <1>2, FailedBoot DEF XferReceiving

\* Copying an entry, or writing the last block, goes to the new page.
LEMMA CopyingBoot ==
  ASSUME IndInv, BootAt, op = "init", pc = "xfer_copy"
  PROVE  /\ HwaTyped /\ RamTyped /\ Staging /\ CleanLog(flash[WritePage])
         /\ WritePage = Other(oldPage) /\ WritePage \in RuntimePages
         /\ oldPage \in RuntimePages /\ oldPage # WritePage /\ oldPage \in Pages
<1>1. oldPage \in RuntimePages /\ Serves(oldPage, "Receiving")
  BY DEF BootAt, IndInv, TypeOK, CallTyped
<1>2. WritePage = Other(oldPage)
  BY <1>1, ServingPages
<1> QED BY <1>1, <1>2, PageNames DEF BootAt, IndInv, TypeOK

LEMMA XferCopyBoot ==
  ASSUME IndInv, BootAt, op = "init", XferCopy
  PROVE  BootAt'
<1>1. pc = "xfer_copy" /\ ToCopy # {} /\ UNCHANGED status
  BY DEF XferCopy
<1>2. /\ HwaTyped /\ RamTyped /\ Staging /\ CleanLog(flash[WritePage])
      /\ WritePage = Other(oldPage) /\ WritePage \in RuntimePages
      /\ oldPage \in RuntimePages /\ oldPage # WritePage /\ oldPage \in Pages
  BY <1>1, CopyingBoot
<1>3. CASE /\ AppendEntry(CopiedEntry)
           /\ cursor' = Least(ToCopy) + 1
           /\ UNCHANGED <<pc, op, entry, flag, oldPage, result>>
  <2>1. Least(ToCopy) \in Addresses
    <3>1. ToCopy \subseteq Nat /\ ToCopy \subseteq Addresses
      BY DEF ToCopy, Addresses
    <3> QED BY <1>1, <3>1, LeastExists
  <2>2. Least(ToCopy) \in 0 .. RESERVED_STATUS_ADDRESS /\ cache[Least(ToCopy)] \in Words
    BY <1>2, <2>1, GeometryType DEF RamTyped, Addresses, RESERVED_STATUS_ADDRESS
  <2>3. CopiedEntry \in Entries /\ CopiedEntry.address \in Addresses
    BY <2>1, <2>2 DEF CopiedEntry, Entry, Entries
  <2>4. /\ CleanLog(flash'[WritePage]) /\ Staging' /\ flash'[oldPage] = flash[oldPage]
    BY <1>1, <1>2, <1>3, <2>3, AppendedOnPage
  <2>5. Serves(oldPage, "Receiving")'
    BY <1>1, <1>3, <2>4 DEF BootAt, Serves, Current
  <2>6. CleanLog(flash[Other(oldPage)])'
    BY <1>2, <1>3, <2>4
  <2> QED BY <1>1, <1>3, <2>4, <2>5, <2>6 DEF BootAt
<1> QED BY <1>3, FailedBoot DEF XferCopy

LEMMA XferCopiedBoot ==
  ASSUME IndInv, BootAt, op = "init", XferCopied
  PROVE  BootAt'
<1>1. pc = "xfer_copy" /\ UNCHANGED status
  BY DEF XferCopied
<1>2. /\ HwaTyped /\ RamTyped /\ Staging /\ CleanLog(flash[WritePage])
      /\ WritePage = Other(oldPage) /\ WritePage \in RuntimePages
      /\ oldPage \in RuntimePages /\ oldPage # WritePage /\ oldPage \in Pages
  BY <1>1, CopyingBoot
<1>3. CASE /\ FlushBlock
           /\ pc' = "xfer_erase" /\ cursor' = 0
           /\ UNCHANGED <<op, entry, flag, oldPage, result>>
  <2>1. CleanLog(flash'[WritePage]) /\ flash'[oldPage] = flash[oldPage]
    BY <1>1, <1>2, <1>3, FlushedOnPage
  <2>2. Serves(oldPage, "Receiving")'
    BY <1>1, <1>3, <2>1 DEF BootAt, Serves, Current
  <2>3. CleanLog(flash[Other(oldPage)])'
    BY <1>2, <1>3, <2>1
  <2> QED BY <1>3, <2>2, <2>3 DEF BootAt
<1> QED BY <1>3, FailedBoot DEF XferCopied

LEMMA XferEraseBoot ==
  ASSUME IndInv, BootAt, op = "init", XferErase
  PROVE  BootAt'
<1>1. /\ pc = "xfer_erase" /\ HwaTyped /\ oldPage \in RuntimePages
      /\ CleanLog(flash[Other(oldPage)])
  BY DEF XferErase, BootAt, IndInv, TypeOK, CallTyped
<1>2. CASE /\ Erase(oldPage)
           /\ pc' = "xfer_formatted"
           /\ UNCHANGED <<locals, result>>
  <2>1. oldPage' = oldPage
    BY <1>2 DEF locals
  <2>2. flash'[oldPage] = ErasedLog /\ flash'[Other(oldPage)] = flash[Other(oldPage)]
    BY <1>1, <1>2, PageNames DEF Erase, HwaTyped
  <2>3. IsBlank(oldPage)' /\ CleanLog(flash[Other(oldPage)])'
    BY <1>1, <2>1, <2>2 DEF IsBlank
  <2> QED BY <1>2, <2>3 DEF BootAt
<1> QED BY <1>2, FailedBoot DEF XferErase

LEMMA XferFormattedBoot ==
  ASSUME IndInv, BootAt, op = "init", XferFormatted
  PROVE  BootAt'
<1>1. /\ pc = "xfer_formatted" /\ HwaTyped /\ RamTyped /\ oldPage \in RuntimePages
      /\ flash[oldPage] = ErasedLog /\ CleanLog(flash[Other(oldPage)])
  BY DEF XferFormatted, XferStatus, BootAt, IndInv, TypeOK, CallTyped, IsBlank
<1>2. CASE /\ WritePageStatus(oldPage, "Formatted")
           /\ pc' = "xfer_valid"
           /\ UNCHANGED <<locals, result>>
  <2>1. oldPage' = oldPage
    BY <1>2 DEF locals
  <2>2. /\ StatusOf(flash'[oldPage]) = "Formatted" /\ status'[oldPage] = "Formatted"
        /\ flash'[Other(oldPage)] = flash[Other(oldPage)]
    BY <1>1, <1>2, ErasedIsClean, RecordOnPage, PageNames
  <2>3. /\ status'[oldPage'] = "Formatted" /\ Current(oldPage)'
        /\ CleanLog(flash[Other(oldPage)])'
    BY <1>1, <2>1, <2>2 DEF Current
  <2> QED BY <1>2, <2>3 DEF BootAt
<1> QED BY <1>2, FailedBoot DEF XferFormatted, XferStatus

LEMMA XferValidBoot ==
  ASSUME IndInv, BootAt, op = "init", XferValid
  PROVE  BootAt'
<1> DEFINE new == Other(oldPage)
<1>1. /\ pc = "xfer_valid" /\ HwaTyped /\ RamTyped /\ oldPage \in RuntimePages
      /\ status[oldPage] = "Formatted" /\ StatusOf(flash[oldPage]) = "Formatted"
      /\ CleanLog(flash[new])
  BY DEF XferValid, XferStatus, BootAt, IndInv, TypeOK, CallTyped, Current
<1>2. CASE /\ WritePageStatus(new, "Valid")
           /\ pc' = "xfer_reload"
           /\ UNCHANGED <<locals, result>>
  <2>1. /\ StatusOf(flash'[new]) = "Valid" /\ status'[new] = "Valid"
        /\ flash'[oldPage] = flash[oldPage] /\ status'[oldPage] = status[oldPage]
    BY <1>1, <1>2, RecordOnPage, PageNames
  <2>2. PICK h \in RuntimePages : h = new
    BY <1>1, PageNames
  <2>3. Other(h) = oldPage
    BY <1>1, <2>2, PageNames
  <2>4. Serves(h, "Formatted")' /\ Current(Other(h))'
    BY <1>1, <2>1, <2>2, <2>3 DEF Serves, Current
  <2>5. Home'
    BY <2>4 DEF Home
  <2> QED BY <1>2, <2>5 DEF BootAt
<1> QED BY <1>2, FailedBoot DEF XferValid, XferStatus

LEMMA XferReloadBoot ==
  ASSUME BootAt, op = "init", XferReload
  PROVE  BootAt'
<1>1. Home
  BY DEF XferReload, BootAt
<1>2. CASE Reload /\ Return("Ok")
  BY <1>1, <1>2, ReloadedBoot DEF Return
<1> QED BY <1>2, FailedBoot DEF XferReload

LEMMA TransfersBoot ==
  ASSUME IndInv, BootAt, op = "init", TransferStep
  PROVE  BootAt'
BY XferFlushBoot, XferReceivingBoot, XferCopyBoot, XferCopiedBoot, XferEraseBoot,
   XferFormattedBoot, XferValidBoot, XferReloadBoot DEF TransferStep

\* format(), as init() runs it.
LEMMA FormatErase1Boot ==
  ASSUME IndInv, op = "init", FormatErase1
  PROVE  BootAt'
<1>1. CASE /\ Erase("Page1")
           /\ pc' = "format_erase2"
  <2>1. IsBlank("Page1")'
    BY <1>1, PageNames DEF Erase, IsBlank, IndInv, TypeOK, HwaTyped
  <2> QED BY <1>1, <2>1 DEF BootAt
<1> QED BY <1>1, FailedBoot DEF FormatErase1, EraseStep

LEMMA FormatErase2Boot ==
  ASSUME IndInv, BootAt, op = "init", FormatErase2
  PROVE  BootAt'
<1>1. CASE /\ Erase("Page2")
           /\ pc' = "format_valid"
  <2>1. flash["Page1"] = ErasedLog
    BY DEF FormatErase2, EraseStep, BootAt, IsBlank
  <2>2. IsBlank("Page1")' /\ IsBlank("Page2")'
    BY <1>1, <2>1, PageNames DEF Erase, IsBlank, IndInv, TypeOK, HwaTyped
  <2> QED BY <1>1, <2>2 DEF BootAt
<1> QED BY <1>1, FailedBoot DEF FormatErase2, EraseStep

LEMMA FormatValidBoot ==
  ASSUME IndInv, BootAt, op = "init", FormatValid
  PROVE  BootAt'
<1>1. /\ HwaTyped /\ RamTyped /\ IsBlank("Page1") /\ CleanLog(flash["Page1"])
      /\ flash["Page2"] = ErasedLog
  BY ErasedIsClean DEF FormatValid, BootAt, IsBlank, IndInv, TypeOK
<1>2. CASE /\ WritePageStatus("Page1", "Valid")
           /\ pc' = "format_formatted"
           /\ cache' = ErasedCache
  <2>1. /\ StatusOf(flash'["Page1"]) = "Valid" /\ status'["Page1"] = "Valid"
        /\ flash'["Page2"] = flash["Page2"]
    BY <1>1, <1>2, RecordOnPage, PageNames
  <2>2. Contents(flash'["Page1"]) = ErasedCache /\ Decodes(flash'["Page1"])
    BY <1>1, <1>2, HeaderAlone, PageNames
  <2>3. IsBlank("Page2")' /\ Current("Page1")'
    BY <1>1, <2>1 DEF IsBlank, Current
  <2> QED BY <1>2, <2>1, <2>2, <2>3 DEF BootAt
<1> QED BY <1>2, FailedBoot DEF FormatValid

LEMMA FormatFormattedBoot ==
  ASSUME IndInv, BootAt, op = "init", FormatFormatted
  PROVE  BootAt'
<1>1. /\ HwaTyped /\ RamTyped /\ flash["Page2"] = ErasedLog
      /\ status["Page1"] = "Valid" /\ StatusOf(flash["Page1"]) = "Valid"
      /\ cache = ErasedCache /\ Contents(flash["Page1"]) = ErasedCache
      /\ Decodes(flash["Page1"]) /\ cache' = cache
  BY DEF FormatFormatted, BootAt, IsBlank, Current, IndInv, TypeOK
<1>2. CASE WritePageStatus("Page2", "Formatted") /\ pc' \in {"reload", "idle"}
  <2>1. /\ StatusOf(flash'["Page2"]) = "Formatted" /\ status'["Page2"] = "Formatted"
        /\ flash'["Page1"] = flash["Page1"] /\ status'["Page1"] = status["Page1"]
    BY <1>1, <1>2, ErasedIsClean, RecordOnPage, PageNames
  <2>2. CASE pc' = "idle"
    BY <1>1, <2>1, <2>2, RepairedBoot, PageNames
  <2>3. CASE pc' = "reload"
    <3>1. Serves("Page1", "Formatted")' /\ Current(Other("Page1"))'
      BY <1>1, <2>1, PageNames DEF Serves, Current
    <3>2. Home'
      BY <3>1, PageNames DEF Home
    <3> QED BY <2>3, <3>2 DEF BootAt
  <2> QED BY <1>2, <2>2, <2>3
<1> QED BY <1>2, FailedBoot DEF FormatFormatted, Return

LEMMA FormatsBoot ==
  ASSUME IndInv, CallsAt, BootAt, op = "init", FormatStep
  PROVE  BootAt'
<1>1. ~FormatEraseFactory
  BY DEF FormatEraseFactory, EraseStep, CallsAt
<1> QED BY <1>1, FormatErase1Boot, FormatErase2Boot, FormatValidBoot, FormatFormattedBoot
        DEF FormatStep

\* The repairs.
LEMMA EraseUnusedBoot ==
  ASSUME IndInv, BootAt, op = "init", EraseUnused
  PROVE  BootAt'
<1>1. PICK h \in RuntimePages : Serves(h, ERASED)
  BY DEF EraseUnused, RepairErase, BootAt
<1>2. ReadPage = h
  BY <1>1, ServingPages
<1>3. CASE Erase(Other(ReadPage)) /\ pc' = "repair_formatted"
  <2>1. flash'[Other(h)] = ErasedLog /\ flash'[h] = flash[h]
    BY <1>2, <1>3, PageNames DEF Erase, IndInv, TypeOK, HwaTyped
  <2>2. Serves(h, ERASED)' /\ IsBlank(Other(h))'
    BY <1>1, <2>1 DEF EraseUnused, RepairErase, ram, Serves, Current, IsBlank
  <2> QED BY <1>3, <2>2 DEF BootAt
<1> QED BY <1>3, FailedBoot DEF EraseUnused, RepairErase

LEMMA EraseReceivingBoot ==
  ASSUME IndInv, BootAt, op = "init", EraseReceiving
  PROVE  BootAt'
<1>1. PICK h \in RuntimePages : Serves(h, "Receiving")
  BY DEF EraseReceiving, RepairErase, BootAt
<1>2. ReadPage = h
  BY <1>1, ServingPages
<1>3. CASE Erase(Other(ReadPage)) /\ pc' = "resume_reload"
  <2>1. flash'[Other(h)] = ErasedLog /\ flash'[h] = flash[h]
    BY <1>2, <1>3, PageNames DEF Erase, IndInv, TypeOK, HwaTyped
  <2>2. Serves(h, "Receiving")' /\ IsBlank(Other(h))'
    BY <1>1, <2>1 DEF EraseReceiving, RepairErase, ram, Serves, Current, IsBlank
  <2> QED BY <1>3, <2>2 DEF BootAt, Resumed
<1> QED BY <1>3, FailedBoot DEF EraseReceiving, RepairErase

LEMMA RepairFormattedBoot ==
  ASSUME IndInv, BootAt, op = "init", RepairFormatted
  PROVE  BootAt'
<1>1. PICK h \in RuntimePages : Serves(h, ERASED) /\ IsBlank(Other(h))
  BY DEF RepairFormatted, BootAt
<1>2. ReadPage = h
  BY <1>1, ServingPages
<1>3. CASE WritePageStatus(Other(ReadPage), "Formatted") /\ pc' = "reload"
  <2>1. /\ StatusOf(flash'[Other(h)]) = "Formatted" /\ status'[Other(h)] = "Formatted"
        /\ flash'[h] = flash[h] /\ status'[h] = status[h]
    <3>1. CleanLog(flash[Other(h)]) /\ HwaTyped /\ RamTyped
      BY <1>1, ErasedIsClean DEF IsBlank, IndInv, TypeOK
    <3> QED BY <1>2, <1>3, <3>1, RecordOnPage, PageNames
  <2>2. Serves(h, "Formatted")' /\ Current(Other(h))'
    BY <1>1, <2>1 DEF Serves, Current
  <2> QED BY <1>3, <2>2 DEF BootAt, Home
<1> QED BY <1>3, FailedBoot DEF RepairFormatted

LEMMA ResumeReloadBoot ==
  ASSUME BootAt, op = "init", ResumeReload
  PROVE  BootAt'
<1>1. CASE Reload /\ pc' = "xfer_flush"
  <2>1. PICK h \in RuntimePages : Serves(h, "Receiving") /\ IsBlank(Other(h))
    BY DEF ResumeReload, BootAt, Resumed
  <2>2. /\ Serves(h, "Receiving")' /\ IsBlank(Other(h))' /\ ~block'.dirty
    BY <1>1, <2>1 DEF Reload, ClearedBlock, Serves, Current, IsBlank
  <2> QED BY <1>1, <2>2 DEF BootAt, Resumed
<1> QED BY <1>1, FreshBoot DEF ResumeReload, FreshSteps

LEMMA FinalReloadBoot ==
  ASSUME BootAt, op = "init", FinalReload
  PROVE  BootAt'
<1>1. Home
  BY DEF FinalReload, BootAt
<1>2. CASE Reload /\ Return("Ok")
  BY <1>1, <1>2, ReloadedBoot DEF Return
<1> QED BY <1>2, FreshBoot DEF FinalReload, Goto, FreshSteps

LEMMA BootsBoot ==
  ASSUME IndInv, BootAt, op = "init", BootStep
  PROVE  BootAt'
BY StartBoot, EraseUnusedBoot, EraseReceivingBoot, RepairFormattedBoot, ResumeReloadBoot,
   FinalReloadBoot DEF BootStep, Boot

\* A step of another call stays one.
LEMMA OthersBoot ==
  ASSUME CallsAt, op # "init", Step
  PROVE  op' # "init"
<1>1. CASE AppendStep
  BY <1>1 DEF AppendStep, WriteInternal, FlushStale, FlushStaleFails, Return, Fail, Goto,
     locals
<1>2. CASE TransferStep
  BY <1>2 DEF TransferStep, XferFlush, XferReceiving, XferCopy, XferCopied, XferErase,
     XferFormatted, XferValid, XferStatus, XferReload, Return, Fail, locals
<1>3. CASE FactoryStep
  BY <1>3 DEF FactoryStep, FlushPending, StoreErase, StoreCopy, StoreDone, RestoreErase1,
     RestoreErase2, RestoreCopy, RestoreValid, RestoreFormatted, EraseStep, CopyBlock,
     Return, Fail, locals
<1>4. CASE FormatStep
  BY <1>4 DEF FormatStep, FormatErase1, FormatErase2, FormatEraseFactory, FormatValid,
     FormatFormatted, EraseStep, Return, Fail, locals
<1>5. CASE BootStep
  BY <1>5 DEF BootStep, Boot, CallsAt, EraseUnused, EraseReceiving, RepairErase,
     RepairFormatted, ResumeReload, FinalReload, Goto, Return, Fail, locals
<1> QED BY <1>1, <1>2, <1>3, <1>4, <1>5 DEF Step

LEMMA NextBoot ==
  ASSUME IndInv, CallsAt, BootAt, [Next]_vars
  PROVE  BootAt'
<1>1. CASE UNCHANGED vars
  BY <1>1 DEF vars, ram, locals, BootAt, BootRepairs, FlashStatus, Recovered, ValidPages,
     Home, Resumed, Serves, Current, IsBlank, Staging, StagedFits, WritePage, WriteOffset
<1>2. CASE CallStep
  BY <1>2, CallsBoot
<1>3. CASE Step
  <2>1. CASE op # "init"
    BY <1>3, <2>1, OthersBoot, OtherBoot
  <2>2. CASE op = "init"
    <3>1. ~FactoryStep
      BY <2>2 DEF FactoryStep, FlushPending, StoreErase, StoreCopy, StoreDone,
         RestoreErase1, RestoreErase2, RestoreCopy, RestoreValid, RestoreFormatted,
         EraseStep, CallsAt
    <3> QED BY <1>3, <2>2, <3>1, AppendsBoot, TransfersBoot, FormatsBoot, BootsBoot
            DEF Step
  <2> QED BY <2>1, <2>2
<1>4. CASE PowerLoss
  BY <1>4, FreshBoot DEF PowerLoss, FreshSteps
<1> QED BY <1>1, <1>2, <1>3, <1>4 DEF Next

\* init() leaves one Valid and one Formatted page and the mirror of the Valid
\* one, whatever was in flash, wherever power was lost and whatever Hwa failures
\* there were, in earlier calls or in this one (emueeprom.cpp:27-233).
THEOREM BootsRepair == Spec => []BootRepairs
<1> DEFINE Inv == CallsAt /\ BootAt
<1>1. Init => Inv
  BY DEF Init, CallsAt, TransferSteps, BootAt
<1>2. IndInv /\ Inv /\ [Next]_vars => Inv'
  <2> SUFFICES ASSUME IndInv, CallsAt, BootAt, [Next]_vars PROVE CallsAt' /\ BootAt'
    OBVIOUS
  <2>1. CASE UNCHANGED vars
    BY <2>1, NextBoot DEF vars, ram, locals, CallsAt
  <2> QED BY <2>1, NextBoot, CallsStay
<1>3. Inv => BootRepairs
  BY DEF BootAt, BootRepairs
<1> HIDE DEF Inv
<1> QED BY <1>1, <1>2, <1>3, Invariance, PTL DEF Spec
=============================================================================
