-------------------------- MODULE EmuEepromStoreProofs --------------------------
(***************************************************************************)
(* The protected device with a flash that does not fail implements         *)
(* EepromStore, for every geometry, set of values and history of calls,    *)
(* boots and power losses; and what follows for its mirror and its calls.  *)
(***************************************************************************)
EXTENDS EmuEepromProtectedProofs

\* A stored 0xFFFF would look like a value that is missing (emueeprom.cpp:406).
Storable == ERASED \notin Values

\* The newest value of every address, or ERASED.
Tables == [Addresses -> Values \cup {ERASED}]

\* Entries hold values that callers write.
HoldsValue(e) == e.address \in Addresses => e.value \in Values
Valued(log) == \A o \in Offsets : HoldsValue(log[o])

FlashValued == \A p \in Pages : Valued(flash[p])
BlockValued == \A i \in Slots : HoldsValue(block.data[i])

ValuesAt == FlashValued /\ BlockValued /\ HoldsValue(entry) /\ cache \in Tables

-----------------------------------------------------------------------------
(* The inductive invariant.                                                  *)

\* A page that waits for the next transfer holds no values.
HeaderOnly(log) == StatusOf(log) = "Formatted" => Contents(log) = ErasedCache

HeadersAt ==
  \A p \in RuntimePages : pc # "restore_copy" \/ p # "Page1" => HeaderOnly(flash[p])

AtMostOneValid == ~BothValid(FlashStatus)

\* The values of a block, and of the staged one.
DataValues(data) ==
  [a \in Addresses |->
     LET hits == {i \in Slots : data[i].address = a}
     IN IF hits = {} THEN ERASED ELSE data[Greatest(hits)].value]
BlockValues == IF block.dirty THEN DataValues(block.data) ELSE ErasedCache

Overlay(t, u) == [a \in Addresses |-> IF u[a] = ERASED THEN t[a] ELSE u[a]]

\* Every address reads from the mirror what log and staged block say, unless
\* only the mirror was written.
Mirrors ==
  \A a \in Addresses : \/ cache[a] = Overlay(Contents(flash[ReadPage]), BlockValues)[a]
                       \/ cacheDirty /\ cache[a] # ERASED

Settled == ~block.dirty /\ ~cacheDirty

MirrorSteps == {"idle", "write", "write_again", "flush_block", "store_erase",
                "store_copy"}

MirrorAt ==
  /\ pc \in MirrorSteps \/ (pc = "xfer_flush" /\ op # "init") => Mirrors
  /\ pc = "flush_block" => ~cacheDirty
  /\ pc = "idle" /\ op = "init" => Settled
  /\ pc = "idle" /\ op = "flush" /\ result = "Ok" => Settled

\* A transfer has copied the mirror up to the cursor; one that init() resumes
\* copies what its page holds.
CopyAt ==
  /\ op = "init" /\ pc \in {"xfer_flush", "xfer_receiving", "xfer_copy", "xfer_erase"} =>
       cache = Contents(flash[ReadPage])
  /\ pc = "xfer_receiving" => Contents(flash[Other(oldPage)]) = ErasedCache
  /\ pc = "xfer_copy" =>
       Overlay(Contents(flash[WritePage]), BlockValues)
         = [a \in Addresses |-> IF a < cursor THEN cache[a] ELSE ERASED]
  /\ pc \in {"xfer_erase", "xfer_formatted", "xfer_valid"} =>
       Contents(flash[Other(oldPage)]) = cache
  /\ pc = "xfer_reload" => Contents(flash[ReadPage]) = cache

\* init() formats only when no page is Valid.
WipeAt ==
  /\ op = "init" /\ pc \in {"format_erase1", "format_erase2"} =>
       \A p \in RuntimePages : StatusOf(flash[p]) # "Valid"
  /\ pc = "format_formatted" =>
       /\ cache = ErasedCache /\ ~cacheDirty
       /\ Contents(flash["Page1"]) = ErasedCache
  /\ op = "format" /\ flag /\ pc \in {"format_valid", "format_formatted"} =>
       IsBlank("Factory")

RestoreAt ==
  op = "restore_from_factory" =>
    /\ pc \in {"restore_erase1", "restore_erase2", "restore_copy", "restore_formatted",
               "reload"} =>
         StatusOf(flash["Factory"]) = "Valid"
    /\ pc = "restore_formatted" => Contents(flash["Page1"]) = Contents(flash["Factory"])
    /\ pc = "reload" => Contents(flash[ReadPage]) = Contents(flash["Factory"])

Truthful == HeadersAt /\ MirrorAt /\ CopyAt /\ WipeAt /\ RestoreAt

-----------------------------------------------------------------------------
(* What a log says.                                                          *)

LEMMA GreatestIs ==
  ASSUME NEW S, S \subseteq Nat, NEW m \in S, \A y \in S : m >= y
  PROVE  Greatest(S) = m
<1>1. Greatest(S) \in S /\ \A y \in S : Greatest(S) >= y
  BY DEF Greatest
<1>2. Greatest(S) >= m /\ m >= Greatest(S) /\ m \in Nat /\ Greatest(S) \in Nat
  BY <1>1
<1> QED BY <1>2

\* In a log without gaps a scan from any offset behind the last record finds what
\* the whole log holds.
LEMMA ScanFindsValue ==
  ASSUME NEW log, Packed(log), NEW limit \in 0 .. PageSize, limit >= FirstFree(log),
         NEW a \in Addresses
  PROVE  NewestValue(log, a, 0 .. limit - 1) = NewestValue(log, a, Offsets)
<1>1. limit \in Int /\ PageSize \in Nat /\ FirstFree(log) \in Int
  BY GeometryType, FirstFreeNat
<1>2. ASSUME NEW o \in Offsets, log[o].address = a PROVE o \in 0 .. limit - 1
  <2>1. ~(o >= FirstFree(log))
    BY <1>2, UnusedAddresses DEF Packed
  <2> QED BY <1>1, <2>1 DEF Offsets
<1>3. 0 .. limit - 1 \subseteq Offsets
  BY <1>1 DEF Offsets
<1>4. {o \in 0 .. limit - 1 : log[o].address = a} = {o \in Offsets : log[o].address = a}
  BY <1>2, <1>3
<1> QED BY <1>4 DEF NewestValue

LEMMA ContentsAre ==
  ASSUME NEW log, Packed(log), NEW a \in Addresses
  PROVE  Contents(log)[a] = NewestValue(log, a, Offsets)
<1>1. FirstFree(log) \in 0 .. PageSize /\ FirstFree(log) \in Int
  BY FirstFreeNat
<1>2. NewestValue(log, a, 0 .. FirstFree(log) - 1) = NewestValue(log, a, Offsets)
  BY <1>1, ScanFindsValue
<1> QED BY <1>2 DEF Contents

LEMMA NoValue ==
  ASSUME NEW log, NEW a, \A o \in Offsets : log[o].address # a
  PROVE  NewestValue(log, a, Offsets) = ERASED
<1>1. {o \in Offsets : log[o].address = a} = {}
  OBVIOUS
<1> QED BY <1>1 DEF NewestValue

LEMMA NewestIs ==
  ASSUME NEW log, NEW a, NEW o \in Offsets, log[o].address = a,
         \A x \in Offsets : log[x].address = a => o >= x
  PROVE  NewestValue(log, a, Offsets) = log[o].value
<1> DEFINE hits == {x \in Offsets : log[x].address = a}
<1>1. hits \subseteq Nat /\ o \in hits /\ \A x \in hits : o >= x
  BY DEF Offsets
<1> HIDE DEF hits
<1>2. Greatest(hits) = o /\ hits # {}
  BY <1>1, GreatestIs
<1> QED BY <1>2 DEF NewestValue, hits

LEMMA NewestExists ==
  ASSUME NEW log, NEW a, NEW o \in Offsets, log[o].address = a
  PROVE  \E n \in Offsets :
           log[n].address = a /\ \A x \in Offsets : log[x].address = a => n >= x
<1> DEFINE hits == {x \in Offsets : log[x].address = a}
<1>1. hits \subseteq Offsets /\ hits # {}
  OBVIOUS
<1>2. Greatest(hits) \in hits /\ \A x \in hits : Greatest(hits) >= x
  BY <1>1, NewestIn
<1> QED BY <1>1, <1>2

LEMMA ContentsIn ==
  ASSUME NEW log, Packed(log), Valued(log)
  PROVE  Contents(log) \in Tables
<1>1. ASSUME NEW a \in Addresses PROVE Contents(log)[a] \in Values \cup {ERASED}
  <2>1. CASE \A o \in Offsets : log[o].address # a
    BY <2>1, NoValue, ContentsAre
  <2>2. CASE \E o \in Offsets : log[o].address = a
    <3>1. PICK n \in Offsets :
            log[n].address = a /\ \A x \in Offsets : log[x].address = a => n >= x
      BY <2>2, NewestExists
    <3>2. Contents(log)[a] = log[n].value
      BY <3>1, NewestIs, ContentsAre
    <3> QED BY <3>1, <3>2 DEF Valued, HoldsValue
  <2> QED BY <2>1, <2>2
<1> QED BY <1>1 DEF Contents, Tables

LEMMA BlockHit ==
  ASSUME NEW data, NEW a \in Addresses, NEW i \in Slots, data[i].address = a
  PROVE  \E n \in Slots :
           /\ data[n].address = a /\ DataValues(data)[a] = data[n].value
           /\ \A x \in Slots : data[x].address = a => n >= x
<1> DEFINE hits == {x \in Slots : data[x].address = a}
<1>1. hits \subseteq Slots /\ hits # {}
  OBVIOUS
<1>2. EntriesPerBlock - 1 \in Int /\ hits \subseteq 0 .. EntriesPerBlock - 1
  BY GeometryType DEF Slots
<1>3. Greatest(hits) \in hits /\ \A x \in hits : Greatest(hits) >= x
  BY <1>1, <1>2, GreatestExists
<1>4. DataValues(data)[a] = data[Greatest(hits)].value
  BY <1>1 DEF DataValues
<1> QED BY <1>1, <1>3, <1>4

LEMMA BlockMiss ==
  ASSUME NEW data, NEW a \in Addresses, \A i \in Slots : data[i].address # a
  PROVE  DataValues(data)[a] = ERASED
<1>1. {i \in Slots : data[i].address = a} = {}
  OBVIOUS
<1> QED BY <1>1 DEF DataValues

LEMMA OverlayIs ==
  ASSUME NEW t, NEW u, NEW a \in Addresses
  PROVE  Overlay(t, u)[a] = IF u[a] = ERASED THEN t[a] ELSE u[a]
BY DEF Overlay

LEMMA OverlayNothing ==
  ASSUME NEW t \in Tables
  PROVE  Overlay(t, ErasedCache) = t
BY DEF Overlay, ErasedCache, Tables

\* What a block adds to a log it is appended to.
LEMMA AppendedValues ==
  ASSUME Storable, NEW log \in Logs, CleanLog(log), FirstFree(log) < PageSize,
         NEW data \in Blocks, data[0] # Blank,
         \A i \in Slots : data[i].address # OutOfRange /\ HoldsValue(data[i])
  PROVE  Contents(Programmed(log, FirstFree(log), data))
           = Overlay(Contents(log), DataValues(data))
<1> DEFINE n == FirstFree(log)
           new == Programmed(log, n, data)
<1>1. /\ CleanLog(new)
      /\ \A i \in Slots : log[n + i] = Blank
      /\ \A i \in Slots : n + i \in Offsets /\ new[n + i] = data[i]
      /\ \A o \in Offsets : o < n => new[o] = log[o]
      /\ \A o \in Offsets : o >= n + EntriesPerBlock => new[o] = Blank
  BY AppendedLog
<1>2. Packed(new) /\ Packed(log) /\ n \in Nat /\ EntriesPerBlock \in Nat
  BY <1>1, FirstFreeNat, GeometryType DEF CleanLog
<1> HIDE DEF new
<1>3. ASSUME NEW a \in Addresses
      PROVE  Contents(new)[a] = Overlay(Contents(log), DataValues(data))[a]
  <2>1. CASE \E i \in Slots : data[i].address = a
    <3>1. PICK i \in Slots :
            /\ data[i].address = a /\ DataValues(data)[a] = data[i].value
            /\ \A x \in Slots : data[x].address = a => i >= x
      BY <2>1, BlockHit
    <3>2. n + i \in Offsets /\ new[n + i] = data[i]
      BY <1>1
    <3>3. ASSUME NEW x \in Offsets, new[x].address = a PROVE n + i >= x
      <4>1. x < n + EntriesPerBlock
        BY <1>1, <1>2, <3>3, UnusedAddresses DEF Offsets
      <4>2. CASE x < n
        BY <1>2, <4>2 DEF Offsets, Slots
      <4>3. CASE x >= n
        <5>1. x - n \in Slots /\ n + (x - n) = x
          BY <1>2, <4>1, <4>3 DEF Offsets, Slots
        <5>2. i >= x - n
          BY <1>1, <3>1, <3>3, <5>1
        <5> QED BY <1>2, <5>1, <5>2 DEF Slots, Offsets
      <4> QED BY <1>2, <4>2, <4>3 DEF Offsets
    <3>4. Contents(new)[a] = data[i].value
      BY <1>2, <3>1, <3>2, <3>3, NewestIs, ContentsAre
    <3>5. data[i].value # ERASED
      BY <3>1 DEF HoldsValue, Storable
    <3> QED BY <3>1, <3>4, <3>5, OverlayIs
  <2>2. CASE \A i \in Slots : data[i].address # a
    <3>1. DataValues(data)[a] = ERASED
      BY <2>2, BlockMiss
    <3>2. ASSUME NEW x \in Offsets
          PROVE  new[x].address = a <=> log[x].address = a
      <4>1. CASE x < n
        BY <1>1, <4>1
      <4>2. CASE x >= n /\ x < n + EntriesPerBlock
        <5>1. x - n \in Slots /\ n + (x - n) = x
          BY <1>2, <4>2 DEF Offsets, Slots
        <5> QED BY <1>1, <2>2, <5>1, UnusedAddresses
      <4>3. CASE x >= n + EntriesPerBlock
        <5>1. x >= n
          BY <1>2, <4>3 DEF Offsets
        <5> QED BY <1>1, <1>2, <4>3, <5>1 DEF Packed
      <4> QED BY <1>2, <4>1, <4>2, <4>3 DEF Offsets
    <3>3. ASSUME NEW x \in Offsets, log[x].address = a PROVE new[x] = log[x]
      <4>1. x < n
        BY <1>2, <3>3, UnusedAddresses DEF Packed, Offsets
      <4> QED BY <1>1, <4>1
    <3>4. Contents(new)[a] = Contents(log)[a]
      <4>1. CASE \A x \in Offsets : log[x].address # a
        BY <1>2, <3>2, <4>1, NoValue, ContentsAre
      <4>2. CASE \E x \in Offsets : log[x].address = a
        <5>1. PICK o \in Offsets :
                log[o].address = a /\ \A x \in Offsets : log[x].address = a => o >= x
          BY <4>2, NewestExists
        <5>2. new[o].address = a /\ \A x \in Offsets : new[x].address = a => o >= x
          BY <3>2, <5>1
        <5>3. Contents(new)[a] = new[o].value
          BY <1>2, <5>2, NewestIs, ContentsAre
        <5>4. Contents(log)[a] = log[o].value
          BY <1>2, <5>1, NewestIs, ContentsAre
        <5> QED BY <3>3, <5>1, <5>3, <5>4
      <4> QED BY <4>1, <4>2
    <3> QED BY <3>1, <3>4, OverlayIs
  <2> QED BY <2>1, <2>2
<1>4. Contents(new) = Overlay(Contents(log), DataValues(data))
  BY <1>3 DEF Contents, Overlay
<1> QED BY <1>4 DEF new

\* A status record holds no value.
LEMMA RecordHoldsNothing ==
  ASSUME NEW s
  PROVE  /\ DataValues(StatusBlock(s)) = ErasedCache
         /\ \A i \in Slots : HoldsValue(StatusBlock(s)[i])
<1>1. \A i \in Slots : StatusBlock(s)[i].address \notin Addresses
  BY UnusedAddresses DEF StatusBlock, Entry, Blank
<1>2. \A a \in Addresses : DataValues(StatusBlock(s))[a] = ERASED
  BY <1>1, BlockMiss
<1> QED BY <1>1, <1>2 DEF HoldsValue, DataValues, ErasedCache

LEMMA AppendedRecord ==
  ASSUME Storable, NEW log \in Logs, CleanLog(log), Valued(log),
         FirstFree(log) < PageSize, NEW s \in StatusRecords
  PROVE  Contents(Programmed(log, FirstFree(log), StatusBlock(s))) = Contents(log)
<1>1. Contents(Programmed(log, FirstFree(log), StatusBlock(s)))
        = Overlay(Contents(log), DataValues(StatusBlock(s)))
  BY StatusBlockIs, RecordHoldsNothing, AppendedValues
<1>2. Contents(log) \in Tables
  BY ContentsIn DEF CleanLog
<1> QED BY <1>1, <1>2, RecordHoldsNothing, OverlayNothing

LEMMA ErasedHoldsNothing ==
  Contents(ErasedLog) = ErasedCache /\ Valued(ErasedLog) /\ HoldsValue(Blank)
<1>1. \A o \in Offsets : ErasedLog[o].address \notin Addresses
  BY UnusedAddresses DEF ErasedLog
<1>2. \A a \in Addresses : Contents(ErasedLog)[a] = ERASED
  BY <1>1, ErasedIsClean, NoValue, ContentsAre DEF CleanLog
<1> QED BY <1>1, <1>2, UnusedAddresses DEF Contents, ErasedCache, Valued, HoldsValue

-----------------------------------------------------------------------------
(* What init() would find.                                                   *)

LEMMA CleanDecodes ==
  ASSUME NEW log, NoForeign(log)
  PROVE  Decodes(log)
<1>1. 0 .. FirstFree(log) - 1 \subseteq Offsets
  BY FirstFreeType
<1> QED BY <1>1 DEF Decodes, Foreign, NoForeign

\* The one Valid page is what init() serves reads from.
LEMMA FoundInPage ==
  ASSUME NEW f, NEW h \in RuntimePages, StatusOf(f[h]) = "Valid",
         StatusOf(f[Other(h)]) # "Valid", CleanLog(f[h])
  PROVE  TableIn(f) = Contents(f[h])
BY FoundOnPage, CleanDecodes DEF CleanLog

LEMMA FoundNothing ==
  ASSUME NEW f, \A p \in RuntimePages : StatusOf(f[p]) # "Valid"
  PROVE  TableIn(f) = ErasedCache
<1> DEFINE valid == {p \in RuntimePages : StatusOf(f[p]) = "Valid"}
<1>1. valid = {}
  OBVIOUS
<1>2. Cardinality({}) = 0
  BY FS_EmptySet
<1> HIDE DEF valid
<1>3. Cardinality(valid) # 1
  BY <1>1, <1>2
<1> QED BY <1>3 DEF TableIn, valid

LEMMA Unmarked ==
  /\ StatusOf(ErasedLog) # "Valid" /\ StatusOf(ErasedLog) # "Formatted"
  /\ HeaderOnly(ErasedLog)
BY ErasedIsClean DEF ERASED, HeaderOnly

-----------------------------------------------------------------------------
(* What the steps on a page do to what it holds.                             *)

LEMMA PageHolds ==
  ASSUME HwaTyped, CleanPages, ValuesAt, NEW p \in Pages
  PROVE  /\ flash[p] \in Logs /\ CleanLog(flash[p]) /\ Packed(flash[p])
         /\ Valued(flash[p]) /\ Contents(flash[p]) \in Tables
BY ContentsIn DEF HwaTyped, CleanPages, CleanLog, ValuesAt, FlashValued

LEMMA BlockHolds ==
  ASSUME ValuesAt
  PROVE  BlockValues \in Tables
<1>1. ErasedCache \in Tables
  BY DEF ErasedCache, Tables
<1>2. ASSUME NEW a \in Addresses
      PROVE  DataValues(block.data)[a] \in Values \cup {ERASED}
  <2>1. CASE \A i \in Slots : block.data[i].address # a
    BY <2>1, BlockMiss
  <2>2. CASE \E i \in Slots : block.data[i].address = a
    <3>1. PICK n \in Slots :
            block.data[n].address = a /\ DataValues(block.data)[a] = block.data[n].value
      BY <2>2, BlockHit
    <3> QED BY <3>1 DEF ValuesAt, BlockValued, HoldsValue
  <2> QED BY <2>1, <2>2
<1>3. DataValues(block.data) \in Tables
  BY <1>2 DEF DataValues, Tables
<1> QED BY <1>1, <1>3 DEF BlockValues

\* write_page_status() adds no value to its page.
LEMMA RecordKeepsValues ==
  ASSUME Storable, HwaTyped, RamTyped, CleanPages, ValuesAt, NEW p \in RuntimePages,
         NEW s \in StatusRecords, WritePageStatus(p, s)
  PROVE  \A q \in Pages : Contents(flash'[q]) = Contents(flash[q])
<1> DEFINE new == Programmed(flash[p], FirstFree(flash[p]), StatusBlock(s))
<1>1. flash' = [flash EXCEPT ![p] = new] /\ flash \in [Pages -> Logs] /\ p \in Pages
      /\ FirstFree(flash[p]) < PageSize
  BY PageNames DEF WritePageStatus, Program, HwaTyped
<1>2. Contents(new) = Contents(flash[p])
  BY <1>1, PageHolds, AppendedRecord
<1> HIDE DEF new
<1>3. ASSUME NEW q \in Pages PROVE Contents(flash'[q]) = Contents(flash[q])
  BY <1>1, <1>2
<1> QED BY <1>3

\* flush_write_block() adds the staged values to the page that is written.
LEMMA FlushedValues ==
  ASSUME Storable, HwaTyped, RamTyped, CleanPages, ValuesAt, WritePage \in RuntimePages,
         Staging, FlushBlock
  PROVE  /\ Contents(flash'[WritePage]) = Overlay(Contents(flash[WritePage]), BlockValues)
         /\ BlockValues' = ErasedCache
<1>1. BlockValues' = ErasedCache
  BY ErasedTypes DEF FlushBlock, BlockValues
<1>2. WritePage \in Pages /\ flash[WritePage] \in Logs /\ CleanLog(flash[WritePage])
      /\ Contents(flash[WritePage]) \in Tables
  BY PageHolds, PageNames
<1>3. CASE block.dirty
  <2>1. StagedFits
    BY <1>3 DEF Staging
  <2>2. /\ block.data \in Blocks /\ block.data[0] # Blank
        /\ FirstFree(flash[WritePage]) < PageSize
        /\ \A i \in Slots : block.data[i].address # OutOfRange
    BY <1>3, <2>1, StagedData
  <2>3. \A i \in Slots : HoldsValue(block.data[i])
    BY DEF ValuesAt, BlockValued
  <2>4. Program(WritePage, FirstFree(flash[WritePage]), block.data)
    BY <1>3, <2>1 DEF FlushBlock, StagedFits
  <2>5. flash'[WritePage] = Programmed(flash[WritePage], FirstFree(flash[WritePage]), block.data)
    BY <1>2, <2>4 DEF Program, HwaTyped
  <2>6. Contents(flash'[WritePage])
          = Overlay(Contents(flash[WritePage]), DataValues(block.data))
    BY <1>2, <2>2, <2>3, <2>5, AppendedValues
  <2> QED BY <1>1, <1>3, <2>6 DEF BlockValues
<1>4. CASE ~block.dirty
  <2>1. flash' = flash /\ BlockValues = ErasedCache
    BY <1>4 DEF FlushBlock, BlockValues
  <2> QED BY <1>1, <1>2, <2>1, OverlayNothing
<1> QED BY <1>3, <1>4

LEMMA OverlayOne ==
  ASSUME Storable, NEW t \in Tables, NEW u \in Tables, NEW a \in Addresses, NEW v \in Values
  PROVE  Overlay(t, [u EXCEPT ![a] = v]) = [Overlay(t, u) EXCEPT ![a] = v]
<1>1. v # ERASED
  BY DEF Storable
<1> QED BY <1>1 DEF Overlay, Tables

\* The staged block gains the entry's value.
LEMMA EntryStagedValues ==
  ASSUME HwaTyped, RamTyped, CleanPages, WritePage \in RuntimePages, Staging,
         HasRoom, NEW e \in Entries, e.address \in Addresses
  PROVE  DataValues(Staged(e).data) = [BlockValues EXCEPT ![e.address] = e.value]
<1> DEFINE data == Staged(e).data
           k == StagedCount
           BlockHits(i, a) == block.dirty /\ block.data[i].address = a
<1>1. /\ k \in Slots /\ data[k] = e
      /\ \A i \in Slots : ~(i < k + 1) => data[i] = Blank
      /\ \A i \in Slots : i # k => data[i] = IF block.dirty THEN block.data[i] ELSE Blank
  BY StagedIs, EntryStaged
<1>2. ~block.dirty \/ block.data[k] = Blank
  BY <1>1 DEF Staging, StagedFits, StagedCount, Slots
<1> HIDE DEF data
<1>3. ASSUME NEW a \in Addresses, a # e.address, NEW i \in Slots
      PROVE  data[i].address = a <=> BlockHits(i, a)
  <2>1. CASE i = k
    BY <1>1, <1>2, <1>3, <2>1, UnusedAddresses
  <2>2. CASE i # k
    BY <1>1, <2>2, UnusedAddresses
  <2> QED BY <2>1, <2>2
<1>4. ASSUME NEW a \in Addresses
      PROVE  DataValues(data)[a] = IF a = e.address THEN e.value ELSE BlockValues[a]
  <2>1. CASE a = e.address
    <3>1. PICK n \in Slots :
            /\ data[n].address = a /\ DataValues(data)[a] = data[n].value
            /\ \A x \in Slots : data[x].address = a => n >= x
      BY <1>1, <2>1, BlockHit
    <3>2. n >= k /\ n < k + 1
      BY <1>1, <2>1, <3>1, UnusedAddresses
    <3>3. n = k
      BY <1>1, <3>2 DEF Slots
    <3> QED BY <1>1, <2>1, <3>1, <3>3
  <2>2. CASE a # e.address /\ \A i \in Slots : data[i].address # a
    <3>1. DataValues(data)[a] = ERASED
      BY <2>2, BlockMiss
    <3>2. BlockValues[a] = ERASED
      <4>1. CASE block.dirty
        <5>1. \A i \in Slots : block.data[i].address # a
          BY <1>3, <2>2, <4>1
        <5>2. DataValues(block.data)[a] = ERASED
          BY <5>1, BlockMiss
        <5> QED BY <4>1, <5>2 DEF BlockValues
      <4>2. CASE ~block.dirty
        BY <4>2 DEF BlockValues, ErasedCache
      <4> QED BY <4>1, <4>2
    <3> QED BY <2>2, <3>1, <3>2
  <2>3. CASE a # e.address /\ \E i \in Slots : data[i].address = a
    <3>1. PICK n \in Slots :
            /\ data[n].address = a /\ DataValues(data)[a] = data[n].value
            /\ \A x \in Slots : data[x].address = a => n >= x
      BY <2>3, BlockHit
    <3>2. block.dirty /\ block.data[n].address = a /\ n # k /\ data[n] = block.data[n]
      BY <1>1, <1>3, <2>3, <3>1
    <3>3. PICK m \in Slots :
            /\ block.data[m].address = a /\ DataValues(block.data)[a] = block.data[m].value
            /\ \A x \in Slots : block.data[x].address = a => m >= x
      BY <3>2, BlockHit
    <3>4. n >= m /\ m >= n
      BY <1>3, <2>3, <3>1, <3>2, <3>3
    <3>5. n = m
      BY <3>4 DEF Slots
    <3> QED BY <2>3, <3>1, <3>2, <3>3, <3>5 DEF BlockValues
  <2> QED BY <2>1, <2>2, <2>3
<1>5. DOMAIN BlockValues = Addresses /\ BlockValues = [a \in Addresses |-> BlockValues[a]]
  BY DEF BlockValues, DataValues, ErasedCache
<1>6. DataValues(data)
        = [a \in Addresses |-> IF a = e.address THEN e.value ELSE BlockValues[a]]
  BY <1>4 DEF DataValues
<1> QED BY <1>5, <1>6 DEF data

\* write_internal(): the value is staged, or written with its block.
LEMMA AppendedEntry ==
  ASSUME Storable, HwaTyped, RamTyped, CleanPages, ValuesAt, WritePage \in RuntimePages,
         Staging, NEW e \in Entries, e.address \in Addresses, HoldsValue(e),
         AppendEntry(e)
  PROVE  LET added == [BlockValues EXCEPT ![e.address] = e.value] IN
         \/ flash' = flash /\ BlockValues' = added
         \/ /\ BlockValues' = ErasedCache
            /\ Contents(flash'[WritePage]) = Overlay(Contents(flash[WritePage]), added)
<1> DEFINE b == Staged(e)
           free == FirstFree(flash[WritePage])
<1>1. HasRoom /\ (IF BlockFull(b) THEN Program(b.page, b.offset, b.data) /\ block' = ClearedBlock
                                  ELSE block' = b /\ UNCHANGED <<flash, faults>>)
  BY DEF AppendEntry
<1>2. /\ b \in StagedBlocks /\ b.dirty /\ b.page = WritePage /\ b.offset = free
      /\ \A i \in Slots : IF i < StagedCount + 1 THEN b.data[i].address \in Addresses
                                                 ELSE b.data[i] = Blank
      /\ b.data[StagedCount] = e
      /\ \A i \in Slots : i # StagedCount =>
           b.data[i] = IF block.dirty THEN block.data[i] ELSE Blank
  BY <1>1, EntryStaged
<1>3. DataValues(b.data) = [BlockValues EXCEPT ![e.address] = e.value]
  BY <1>1, EntryStagedValues
<1>4. StagedCount \in Slots /\ free < PageSize
  BY <1>1, StagedIs
<1> HIDE DEF b
<1>5. CASE BlockFull(b)
  <2>1. Program(WritePage, free, b.data) /\ BlockValues' = ErasedCache
    BY <1>1, <1>2, <1>5, ErasedTypes DEF BlockValues
  <2>2. /\ WritePage \in Pages /\ flash[WritePage] \in Logs /\ CleanLog(flash[WritePage])
        /\ b.data \in Blocks
    BY <1>2, PageHolds, PageNames DEF StagedBlocks
  <2>3. b.data[0] # Blank
    <3>1. 0 \in Slots /\ 0 < StagedCount + 1
      BY <1>4, GeometryType DEF Slots
    <3> QED BY <1>2, <3>1, UnusedAddresses
  <2>4. ASSUME NEW i \in Slots PROVE b.data[i].address # OutOfRange /\ HoldsValue(b.data[i])
    <3>1. b.data[i].address # OutOfRange
      <4>1. Blank.address # OutOfRange
        BY GeometryType DEF Blank, Entry, RESERVED_STATUS_ADDRESS, OutOfRange
      <4> QED BY <1>2, <4>1, UnusedAddresses
    <3>2. HoldsValue(b.data[i])
      BY <1>2, ErasedHoldsNothing DEF ValuesAt, BlockValued
    <3> QED BY <3>1, <3>2
  <2>5. flash'[WritePage] = Programmed(flash[WritePage], free, b.data)
    BY <2>1, <2>2 DEF Program, HwaTyped
  <2>6. Contents(flash'[WritePage]) = Overlay(Contents(flash[WritePage]), DataValues(b.data))
    BY <1>4, <2>2, <2>3, <2>4, <2>5, AppendedValues
  <2> QED BY <1>3, <2>1, <2>6
<1>6. CASE ~BlockFull(b)
  <2>1. flash' = flash /\ block' = b
    BY <1>1, <1>6
  <2> QED BY <1>2, <1>3, <2>1 DEF BlockValues
<1> QED BY <1>5, <1>6

-----------------------------------------------------------------------------
(* Only what callers wrote is stored.                                        *)

LEMMA ScanIn ==
  ASSUME NEW log, Valued(log), NEW a \in Addresses, NEW seen, seen \subseteq Offsets
  PROVE  NewestValue(log, a, seen) \in Values \cup {ERASED}
<1> DEFINE hits == {o \in seen : log[o].address = a}
<1>1. CASE hits = {}
  BY <1>1 DEF NewestValue
<1>2. CASE hits # {}
  <2>1. Greatest(hits) \in hits
    BY <1>2, NewestIn
  <2>2. Greatest(hits) \in Offsets /\ log[Greatest(hits)].address = a
    BY <2>1
  <2>3. log[Greatest(hits)].value \in Values
    BY <2>2 DEF Valued, HoldsValue
  <2> QED BY <1>2, <2>3 DEF NewestValue
<1> QED BY <1>1, <1>2

LEMMA ScansIn ==
  ASSUME NEW log, Valued(log), NEW limit \in 0 .. PageSize
  PROVE  [a \in Addresses |-> NewestValue(log, a, 0 .. limit - 1)] \in Tables
<1>1. 0 .. limit - 1 \subseteq Offsets
  BY GeometryType DEF Offsets
<1> QED BY <1>1, ScanIn DEF Tables

LEMMA ProgramValued ==
  ASSUME FlashValued, flash \in [Pages -> Logs], NEW p, NEW at \in Nat, NEW data,
         \A i \in Slots : HoldsValue(data[i]), Program(p, at, data)
  PROVE  FlashValued'
<1>1. flash' = [flash EXCEPT ![p] = Programmed(flash[p], at, data)]
  BY DEF Program
<1>2. ASSUME NEW q \in Pages, NEW o \in Offsets PROVE HoldsValue(flash'[q][o])
  <2>1. HoldsValue(flash[q][o])
    BY DEF FlashValued, Valued
  <2>2. CASE q = p
    <3>1. flash'[q] = Programmed(flash[q], at, data)
      BY <1>1, <2>2
    <3>2. CASE o \in at .. at + EntriesPerBlock - 1
      <4>1. o - at \in Slots
        BY <3>2, GeometryType DEF Slots
      <4>2. flash'[q][o] = data[o - at]
        BY <3>1, <3>2 DEF Programmed
      <4> QED BY <4>1, <4>2
    <3>3. CASE o \notin at .. at + EntriesPerBlock - 1
      BY <2>1, <3>1, <3>3 DEF Programmed
    <3> QED BY <3>2, <3>3
  <2>3. CASE q # p
    BY <1>1, <2>1, <2>3
  <2> QED BY <2>2, <2>3
<1> QED BY <1>2 DEF FlashValued, Valued

LEMMA EraseValued ==
  ASSUME FlashValued, flash \in [Pages -> Logs], NEW p, Erase(p)
  PROVE  FlashValued'
<1>1. flash' = [flash EXCEPT ![p] = ErasedLog]
  BY DEF Erase
<1>2. \A q \in Pages : flash'[q] = flash[q] \/ flash'[q] = ErasedLog
  BY <1>1
<1> QED BY <1>2, ErasedHoldsNothing DEF FlashValued

LEMMA SameFlashValued ==
  ASSUME FlashValued, flash' = flash
  PROVE  FlashValued'
BY DEF FlashValued

LEMMA RefusesValued ==
  ASSUME FlashValued, NEW p, NEW at, NEW data, Refuses(p, at, data)
  PROVE  FlashValued'
BY RefusesKeepsFlash, SameFlashValued

LEMMA FaultyValued ==
  ASSUME FlashValued, Faulty
  PROVE  FlashValued'
BY SameFlashValued DEF Faulty

LEMMA ClearedValued == block' = ClearedBlock => BlockValued'
<1>1. \A i \in Slots : ClearedBlock.data[i] = Blank
  BY DEF ClearedBlock
<1> QED BY <1>1, ErasedHoldsNothing DEF BlockValued

LEMMA SameBlockValued ==
  ASSUME BlockValued, block' = block
  PROVE  BlockValued'
BY DEF BlockValued

LEMMA FlushValued ==
  ASSUME FlashValued, BlockValued, HwaTyped, RamTyped, FlushBlock
  PROVE  FlashValued' /\ BlockValued'
<1>1. flash \in [Pages -> Logs] /\ block.offset \in Nat
  BY GeometryType DEF HwaTyped, RamTyped, StagedBlocks, Offsets
<1>2. CASE block.dirty
  BY <1>1, <1>2, ProgramValued, ClearedValued DEF FlushBlock, BlockValued
<1>3. CASE ~block.dirty
  BY <1>3, SameFlashValued, ClearedValued DEF FlushBlock
<1> QED BY <1>2, <1>3

LEMMA FlushFailsValued ==
  ASSUME FlashValued, BlockValued, FlushBlockFails
  PROVE  FlashValued' /\ BlockValued'
BY RefusesValued, SameBlockValued DEF FlushBlockFails

LEMMA StatusValued ==
  ASSUME FlashValued, HwaTyped, NEW p, NEW s,
         WritePageStatus(p, s)
  PROVE  FlashValued' /\ BlockValued'
<1>1. FirstFree(flash[p]) \in Nat /\ flash \in [Pages -> Logs]
  BY FirstFreeNat DEF HwaTyped
<1> QED BY <1>1, ProgramValued, RecordHoldsNothing, ClearedValued DEF WritePageStatus

LEMMA StatusFailsValued ==
  ASSUME FlashValued, BlockValued, NEW p, NEW s, WritePageStatusFails(p, s)
  PROVE  FlashValued' /\ BlockValued'
<1>1. CASE UNCHANGED <<flash, block, faults>>
  BY <1>1, SameFlashValued, SameBlockValued
<1>2. CASE /\ Refuses(p, FirstFree(flash[p]), StatusBlock(s))
           /\ block' = [page |-> p, offset |-> FirstFree(flash[p]), entries |-> 1,
                        dirty |-> TRUE, data |-> StatusBlock(s)]
  BY <1>2, RefusesValued, RecordHoldsNothing DEF BlockValued
<1> QED BY <1>1, <1>2 DEF WritePageStatusFails

LEMMA StagedHoldsValues ==
  ASSUME BlockValued, RamTyped, NEW e, HoldsValue(e)
  PROVE  \A i \in Slots : HoldsValue(Staged(e).data[i])
<1> DEFINE base == IF block.dirty THEN block
                   ELSE [ClearedBlock EXCEPT !.page = WritePage, !.dirty = TRUE,
                            !.offset = BlockStart(WriteOffset(WritePage))]
           at == WriteOffset(WritePage) - BlockStart(WriteOffset(WritePage))
<1>1. Staged(e) = [base EXCEPT !.data[at] = e,
                     !.entries = IF @ < EntriesPerBlock THEN @ + 1 ELSE @]
  BY DEF Staged, ClearedBlock
<1>2. \A i \in Slots : HoldsValue(base.data[i])
  BY ErasedHoldsNothing DEF BlockValued, ClearedBlock
<1>3. /\ base.data \in [Slots -> Entries]
      /\ base = [page |-> base.page, offset |-> base.offset, entries |-> base.entries,
                 dirty |-> base.dirty, data |-> base.data]
  <2>1. CASE block.dirty
    BY <2>1 DEF RamTyped, StagedBlocks, Blocks
  <2>2. CASE ~block.dirty
    BY <2>2, ErasedTypes DEF ClearedBlock, Blocks
  <2> QED BY <2>1, <2>2
<1> HIDE DEF base, at
<1>4. Staged(e).data = [base.data EXCEPT ![at] = e]
  BY <1>1, <1>3
<1> QED BY <1>2, <1>3, <1>4

LEMMA AppendValued ==
  ASSUME FlashValued, BlockValued, HwaTyped, RamTyped, cache \in Tables,
         NEW e \in Entries, HoldsValue(e), AppendEntry(e)
  PROVE  FlashValued' /\ BlockValued' /\ cache' \in Tables
<1>1. Staged(e) \in StagedBlocks /\ \A i \in Slots : HoldsValue(Staged(e).data[i])
  BY StagedType, StagedHoldsValues DEF AppendEntry
<1>2. flash \in [Pages -> Logs] /\ Staged(e).offset \in Nat
  BY <1>1, GeometryType DEF HwaTyped, StagedBlocks, Offsets
<1>3. cache' = [cache EXCEPT ![e.address] = e.value]
  BY DEF AppendEntry
<1>4. cache' \in Tables
  BY <1>3 DEF Tables, HoldsValue
<1>5. CASE BlockFull(Staged(e))
  BY <1>1, <1>2, <1>4, <1>5, ProgramValued, ClearedValued DEF AppendEntry
<1>6. CASE ~BlockFull(Staged(e))
  BY <1>1, <1>4, <1>6, SameFlashValued DEF AppendEntry, BlockValued
<1> QED BY <1>5, <1>6

LEMMA AppendFailsValued ==
  ASSUME FlashValued, BlockValued, RamTyped, NEW e, HoldsValue(e),
         AppendEntryFails(e)
  PROVE  FlashValued' /\ BlockValued'
BY RefusesValued, StagedHoldsValues DEF AppendEntryFails, BlockValued

LEMMA CopyValued ==
  ASSUME FlashValued, HwaTyped, NEW from \in Pages, NEW to, cursor \in BlockOffsets,
         CopyBlock(from, to)
  PROVE  FlashValued'
<1> DEFINE data == [i \in Slots |-> flash[from][cursor + i]]
<1>1. cursor \in 0 .. PageSize /\ PageSize \in Nat
  BY BlockOffsetsType, GeometryType
<1>2. ~(cursor >= PageSize)
  BY <1>1 DEF CopyBlock, CopyDone
<1>3. \A i \in Slots : cursor + i \in Offsets
  BY <1>1, <1>2, BlockOffsetsType
<1>4. \A i \in Slots : HoldsValue(data[i])
  BY <1>3 DEF FlashValued, Valued
<1> HIDE DEF data
<1>5. Program(to, cursor, data) \/ Refuses(to, cursor, data)
  BY DEF CopyBlock, data
<1>6. flash \in [Pages -> Logs] /\ cursor \in Nat
  BY <1>1 DEF HwaTyped
<1> QED BY <1>4, <1>5, <1>6, ProgramValued, RefusesValued

LEMMA ReloadValued ==
  ASSUME FlashValued, Reload \/ ReloadFails
  PROVE  FlashValued' /\ BlockValued' /\ cache' \in Tables
<1>1. flash' = flash /\ block' = ClearedBlock
  BY DEF Reload, ReloadFails
<1>2. FlashValued' /\ BlockValued'
  BY <1>1, SameFlashValued, ClearedValued
<1>3. ReadPage # NoPage => ReadPage \in Pages
  BY PagesType
<1>4. CASE Reload
  <2>1. FirstFree(flash[ReadPage]) \in 0 .. PageSize /\ Valued(flash[ReadPage])
    BY <1>3, <1>4, FirstFreeNat DEF Reload, FlashValued
  <2>2. Contents(flash[ReadPage]) \in Tables
    BY <2>1, ScansIn DEF Contents
  <2> QED BY <1>2, <1>4, <2>2 DEF Reload
<1>5. CASE ReloadFails /\ ReadPage = NoPage
  BY <1>2, <1>5 DEF ReloadFails, ErasedCache, Tables
<1>6. CASE ReloadFails /\ ReadPage # NoPage
  <2> DEFINE stop == Least(Foreign(flash[ReadPage]))
  <2>1. cache' = [a \in Addresses |-> NewestValue(flash[ReadPage], a, 0 .. stop - 1)]
    BY <1>6 DEF ReloadFails
  <2>2. Foreign(flash[ReadPage]) \subseteq Offsets /\ Foreign(flash[ReadPage]) # {}
    BY <1>6, FirstFreeType DEF ReloadFails, Foreign, Decodes
  <2>3. stop \in Offsets
    BY <2>2, LeastExists DEF Offsets
  <2>4. stop \in 0 .. PageSize
    BY <2>3, GeometryType DEF Offsets
  <2>5. Valued(flash[ReadPage])
    BY <1>3, <1>6 DEF FlashValued
  <2> QED BY <1>2, <2>1, <2>4, <2>5, ScansIn
<1> QED BY <1>4, <1>5, <1>6

LEMMA EntryEnds ==
  ASSUME HoldsValue(entry), entry' \in {entry, Blank}
  PROVE  HoldsValue(entry')
BY ErasedHoldsNothing

LEMMA EmptyIn == ErasedCache \in Tables
BY DEF ErasedCache, Tables

LEMMA ValuesFrom ==
  ASSUME ValuesAt, FlashValued', BlockValued', cache' \in Tables, entry' \in {entry, Blank}
  PROVE  ValuesAt'
BY EntryEnds DEF ValuesAt

LEMMA StartInitValues ==
  ASSUME ValuesAt, StartInit
  PROVE  ValuesAt'
<1>1. flash' = flash /\ block' = ClearedBlock /\ cache' = ErasedCache /\ entry' = entry
  BY DEF StartInit
<1>2. FlashValued' /\ BlockValued'
  BY <1>1, SameFlashValued, ClearedValued DEF ValuesAt
<1> QED BY <1>1, <1>2, EmptyIn, ValuesFrom

LEMMA CallsKeepValues ==
  ASSUME IndInv, ValuesAt, CallStep
  PROVE  ValuesAt'
<1>1. FlashValued /\ BlockValued /\ cache \in Tables /\ HoldsValue(entry)
  BY DEF ValuesAt
<1>2. CASE \E a \in 0 .. OutOfRange, v \in Values : Write(a, v)
  <2>1. PICK a \in 0 .. OutOfRange, v \in Values : Write(a, v)
    BY <1>2
  <2>2. UNCHANGED <<flash, block, cache>>
        /\ (entry' = entry \/ entry' = Entry(a, v))
    BY <2>1 DEF Write, ram, Answer
  <2>3. HoldsValue(entry')
    BY <1>1, <2>2 DEF HoldsValue, Entry
  <2> QED BY <1>1, <2>2, <2>3, SameFlashValued, SameBlockValued DEF ValuesAt
<1>3. CASE \E a \in Addresses, v \in Values : WriteCached(a, v)
  <2>1. PICK a \in Addresses, v \in Values : WriteCached(a, v)
    BY <1>3
  <2>2. UNCHANGED <<flash, block, entry>> /\ cache' = [cache EXCEPT ![a] = v]
    BY <2>1 DEF WriteCached, Answer
  <2>3. cache' \in Tables
    BY <1>1, <2>2 DEF Tables
  <2> QED BY <1>1, <2>2, <2>3, SameFlashValued, SameBlockValued, ValuesFrom
<1>4. CASE \E a \in 0 .. OutOfRange : Read(a)
  <2>1. PICK a \in 0 .. OutOfRange : Read(a)
    BY <1>4
  <2>2. UNCHANGED <<flash, block, entry>>
    BY <2>1 DEF Read, Answer
  <2>3. cache' \in Tables
    <3>1. CASE cache' = cache
      BY <1>1, <3>1
    <3>2. CASE /\ a # OutOfRange /\ ReadPage # NoPage
               /\ cache' = [cache EXCEPT ![a] = NewestValue(flash[ReadPage], a, Scanned)]
      <4>1. a \in Addresses
        BY <3>2, GeometryType DEF OutOfRange, Addresses
      <4>2. Scanned \subseteq Offsets
        <5>1. ScanLimit(ReadPage) \in 0 .. PageSize
          BY GeometryType DEF ScanLimit, IndInv, TypeOK, RamTyped, Positions
        <5> QED BY <5>1, GeometryType DEF Scanned, Offsets
      <4>3. Valued(flash[ReadPage])
        BY <1>1, <3>2, PagesType DEF FlashValued
      <4>4. NewestValue(flash[ReadPage], a, Scanned) \in Values \cup {ERASED}
        BY <4>1, <4>2, <4>3, ScanIn
      <4> QED BY <1>1, <3>2, <4>4 DEF Tables
    <3> QED BY <2>1, <3>1, <3>2 DEF Read
  <2> QED BY <1>1, <2>2, <2>3, SameFlashValued, SameBlockValued, ValuesFrom
<1>5. CASE \/ \E p \in Pages : PageStatus(p)
           \/ \E c \in Calls : Flush(c)
           \/ PageTransfer
           \/ \E factory \in BOOLEAN : Format(factory)
  <2>1. UNCHANGED <<flash, block, cache, entry>>
    BY <1>5 DEF PageStatus, Flush, PageTransfer, Format, Answer, ram
  <2> QED BY <1>1, <2>1, SameFlashValued, SameBlockValued, ValuesFrom
<1>6. CASE RestoreFromFactory
  <2>1. UNCHANGED <<flash, cache, entry>> /\ (block' = block \/ block' = ClearedBlock)
    BY <1>6 DEF RestoreFromFactory, Answer
  <2> QED BY <1>1, <2>1, SameFlashValued, SameBlockValued, ClearedValued, ValuesFrom
<1>7. CASE InitCall
  BY <1>7, StartInitValues DEF InitCall
<1> QED BY <1>2, <1>3, <1>4, <1>5, <1>6, <1>7 DEF CallStep

LEMMA EndsEntry ==
  ASSUME NEW res, Return(res) \/ Fail(res)
  PROVE  entry' \in {entry, Blank}
BY DEF Return, Fail

LEMMA CopiedEntryHolds ==
  ASSUME RamTyped, cache \in Tables, ToCopy # {}
  PROVE  /\ CopiedEntry \in Entries /\ HoldsValue(CopiedEntry)
         /\ Least(ToCopy) \in ToCopy /\ \A a \in ToCopy : Least(ToCopy) <= a
<1>1. ToCopy \subseteq Nat /\ ToCopy \subseteq Addresses
  BY DEF ToCopy, Addresses
<1>2. Least(ToCopy) \in ToCopy /\ \A a \in ToCopy : Least(ToCopy) <= a
  BY <1>1, LeastExists
<1>3. Least(ToCopy) \in Addresses /\ cache[Least(ToCopy)] \in Values
  BY <1>2 DEF ToCopy, Tables
<1>4. Addresses \subseteq 0 .. RESERVED_STATUS_ADDRESS
  BY GeometryType DEF Addresses, RESERVED_STATUS_ADDRESS
<1> QED BY <1>2, <1>3, <1>4 DEF CopiedEntry, Entry, Entries, Words, HoldsValue

LEMMA AppendsKeepValues ==
  ASSUME IndInv, ValuesAt, AppendStep
  PROVE  ValuesAt'
<1>1. /\ FlashValued /\ BlockValued /\ cache \in Tables /\ HoldsValue(entry)
      /\ HwaTyped /\ RamTyped /\ flash \in [Pages -> Logs] /\ entry \in Entries
      /\ block.offset \in Nat
  BY GeometryType DEF ValuesAt, IndInv, TypeOK, HwaTyped, CallTyped, RamTyped,
     StagedBlocks, Offsets
<1>2. CASE WriteInternal
  <2>1. CASE AppendEntry(entry) /\ Return("Ok")
    BY <1>1, <2>1, AppendValued, EndsEntry, ValuesFrom
  <2>2. CASE AppendEntryFails(entry) /\ Return("WriteError")
    <3>1. cache' = cache
      BY <2>2 DEF AppendEntryFails
    <3> QED BY <1>1, <2>2, <3>1, AppendFailsValued, EndsEntry, ValuesFrom
  <2>3. ASSUME NEW res, NoRoom(res), UNCHANGED <<locals, result>> \/ Return(res)
        PROVE  ValuesAt'
    <3>1. UNCHANGED <<flash, block, cache>> /\ entry' \in {entry, Blank}
      BY <2>3, EndsEntry DEF NoRoom, locals
    <3> QED BY <1>1, <3>1, SameFlashValued, SameBlockValued, ValuesFrom
  <2> QED BY <1>2, <2>1, <2>2, <2>3 DEF WriteInternal
<1>3. CASE FlushStale
  <2>1. /\ Program(block.page, block.offset, block.data) /\ block' = ClearedBlock
        /\ UNCHANGED <<cache, entry>>
    BY <1>3 DEF FlushStale, locals
  <2>2. FlashValued' /\ BlockValued'
    BY <1>1, <2>1, ProgramValued, ClearedValued DEF BlockValued
  <2> QED BY <1>1, <2>1, <2>2, ValuesFrom
<1>4. CASE FlushStaleFails
  <2>1. /\ Refuses(block.page, block.offset, block.data) /\ Fail("WriteError")
        /\ UNCHANGED <<block, cache>>
    BY <1>4 DEF FlushStaleFails
  <2> QED BY <1>1, <2>1, RefusesValued, SameBlockValued, EndsEntry, ValuesFrom
<1> QED BY <1>2, <1>3, <1>4 DEF AppendStep

LEMMA RecordStepValues ==
  ASSUME IndInv, ValuesAt, NEW p, NEW s, NEW res,
         \/ WritePageStatus(p, s) /\ entry' \in {entry, Blank}
         \/ WritePageStatusFails(p, s) /\ (Return(res) \/ Fail(res)),
         cache' \in Tables
  PROVE  ValuesAt'
<1>1. FlashValued /\ BlockValued /\ HwaTyped
  BY DEF ValuesAt, IndInv, TypeOK
<1> QED BY <1>1, StatusValued, StatusFailsValued, EndsEntry, ValuesFrom

LEMMA TransfersKeepValues ==
  ASSUME IndInv, ValuesAt, TransferStep
  PROVE  ValuesAt'
<1>1. /\ FlashValued /\ BlockValued /\ cache \in Tables /\ HoldsValue(entry)
      /\ HwaTyped /\ RamTyped /\ flash \in [Pages -> Logs]
  BY DEF ValuesAt, IndInv, TypeOK, HwaTyped
<1>2. ASSUME FlushBlock \/ FlushBlockFails, cache' = cache, entry' \in {entry, Blank}
      PROVE  ValuesAt'
  BY <1>1, <1>2, FlushValued, FlushFailsValued, ValuesFrom
<1>3. CASE XferFlush
  BY <1>2, <1>3, EndsEntry DEF XferFlush
<1>4. CASE XferReceiving
  BY <1>1, <1>4, RecordStepValues DEF XferReceiving
<1>5. CASE XferCopy
  <2>1. /\ CopiedEntry \in Entries /\ HoldsValue(CopiedEntry)
    BY <1>1, <1>5, CopiedEntryHolds DEF XferCopy
  <2>2. CASE AppendEntry(CopiedEntry) /\ entry' = entry
    BY <1>1, <2>1, <2>2, AppendValued, ValuesFrom
  <2>3. CASE AppendEntryFails(CopiedEntry) /\ Fail("WriteError")
    <3>1. cache' = cache
      BY <2>3 DEF AppendEntryFails
    <3> QED BY <1>1, <2>1, <2>3, <3>1, AppendFailsValued, EndsEntry, ValuesFrom
  <2>4. ASSUME NEW res, NoRoom(res), Fail(res) PROVE ValuesAt'
    <3>1. UNCHANGED <<flash, block, cache>>
      BY <2>4 DEF NoRoom
    <3> QED BY <1>1, <2>4, <3>1, EndsEntry, SameFlashValued, SameBlockValued, ValuesFrom
  <2> QED BY <1>5, <2>2, <2>3, <2>4 DEF XferCopy
<1>6. CASE XferCopied
  BY <1>2, <1>6, EndsEntry DEF XferCopied
<1>7. CASE XferErase
  <2>1. (Erase(oldPage) \/ Faulty) /\ UNCHANGED <<block, cache>> /\ entry' \in {entry, Blank}
    BY <1>7, EndsEntry DEF XferErase, ram, locals
  <2> QED BY <1>1, <2>1, EraseValued, FaultyValued, SameBlockValued, ValuesFrom
<1>8. CASE XferFormatted
  BY <1>1, <1>8, RecordStepValues DEF XferFormatted, XferStatus, locals
<1>9. CASE XferValid
  BY <1>1, <1>9, RecordStepValues DEF XferValid, XferStatus, locals
<1>10. CASE XferReload
  <2>1. (Reload \/ ReloadFails) /\ entry' \in {entry, Blank}
    <3>1. CASE Reload
      <4>1. UNCHANGED locals \/ Return("Ok")
        BY <1>10, <3>1, EndsEntry DEF XferReload, Reload, ReloadFails, Fail, Return, locals
      <4> QED BY <3>1, <4>1, EndsEntry DEF locals
    <3>2. CASE ReloadFails /\ Fail("WriteError")
      BY <3>2, EndsEntry
    <3>3. Reload \/ (ReloadFails /\ Fail("WriteError"))
      BY <1>10 DEF XferReload
    <3> QED BY <3>1, <3>2, <3>3
  <2> QED BY <1>1, <2>1, ReloadValued, ValuesFrom
<1> QED BY <1>3, <1>4, <1>5, <1>6, <1>7, <1>8, <1>9, <1>10 DEF TransferStep

LEMMA EraseStepValues ==
  ASSUME IndInv, ValuesAt, NEW from, NEW p, NEW to, EraseStep(from, p, to),
         block' = block \/ block' = ClearedBlock, cache' \in Tables
  PROVE  ValuesAt'
<1>1. FlashValued /\ BlockValued /\ flash \in [Pages -> Logs]
  BY DEF ValuesAt, IndInv, TypeOK, HwaTyped
<1>2. (Erase(p) \/ Faulty) /\ entry' \in {entry, Blank}
  BY EndsEntry DEF EraseStep, locals
<1> QED BY <1>1, <1>2, EraseValued, FaultyValued, SameBlockValued, ClearedValued, ValuesFrom

LEMMA FactoryKeepsValues ==
  ASSUME IndInv, ValuesAt, FactoryStep
  PROVE  ValuesAt'
<1>1. /\ FlashValued /\ BlockValued /\ cache \in Tables /\ HoldsValue(entry)
      /\ HwaTyped /\ RamTyped /\ flash \in [Pages -> Logs]
  BY DEF ValuesAt, IndInv, TypeOK, HwaTyped
<1>2. CASE FlushPending
  <2>1. (FlushBlock \/ FlushBlockFails) /\ cache' = cache /\ entry' \in {entry, Blank}
    BY <1>2, EndsEntry DEF FlushPending, locals
  <2> QED BY <1>1, <2>1, FlushValued, FlushFailsValued, ValuesFrom
<1>3. CASE StoreErase
  <2>1. /\ Erase("Factory") \/ Faulty \/ flash' = flash
        /\ UNCHANGED <<block, cache>> /\ entry' \in {entry, Blank}
    BY <1>3, EndsEntry DEF StoreErase
  <2> QED BY <1>1, <2>1, EraseValued, FaultyValued, SameFlashValued, SameBlockValued, ValuesFrom
<1>4. CASE StoreCopy
  <2>1. /\ CopyBlock(ReadPage, "Factory") /\ UNCHANGED <<block, cache>>
        /\ ReadPage \in Pages /\ cursor \in BlockOffsets
    BY <1>4, PagesType DEF StoreCopy, ram, IndInv
  <2>2. entry' \in {entry, Blank}
    BY <2>1, EndsEntry DEF CopyBlock
  <2> QED BY <1>1, <2>1, <2>2, CopyValued, SameBlockValued, ValuesFrom
<1>5. CASE StoreDone
  <2>1. UNCHANGED <<flash, block, cache>> /\ entry' \in {entry, Blank}
    BY <1>5, EndsEntry DEF StoreDone
  <2> QED BY <1>1, <2>1, SameFlashValued, SameBlockValued, ValuesFrom
<1>6. CASE RestoreErase1
  BY <1>1, <1>6, EraseStepValues DEF RestoreErase1
<1>7. CASE RestoreErase2
  <2>1. /\ Erase("Page2") \/ Faulty
        /\ block' = block /\ cache' \in {cache, ErasedCache} /\ entry' \in {entry, Blank}
    BY <1>7, EndsEntry DEF RestoreErase2
  <2> QED BY <1>1, <2>1, EraseValued, FaultyValued, SameBlockValued, EmptyIn, ValuesFrom
<1>8. CASE RestoreCopy
  <2>1. /\ CopyBlock("Factory", "Page1") /\ UNCHANGED <<block, cache>>
        /\ "Factory" \in Pages /\ cursor \in BlockOffsets
    BY <1>8 DEF RestoreCopy, ram, IndInv, Pages
  <2>2. entry' \in {entry, Blank}
    BY <2>1, EndsEntry DEF CopyBlock
  <2> QED BY <1>1, <2>1, <2>2, CopyValued, SameBlockValued, ValuesFrom
<1>9. CASE RestoreValid
  BY <1>1, <1>9, RecordStepValues DEF RestoreValid
<1>10. CASE RestoreFormatted
  BY <1>1, <1>10, RecordStepValues DEF RestoreFormatted, locals
<1> QED BY <1>2, <1>3, <1>4, <1>5, <1>6, <1>7, <1>8, <1>9, <1>10 DEF FactoryStep

LEMMA FormatsKeepValues ==
  ASSUME IndInv, ValuesAt, FormatStep
  PROVE  ValuesAt'
<1>1. cache \in Tables
  BY DEF ValuesAt
<1>2. CASE FormatErase1
  BY <1>1, <1>2, EraseStepValues DEF FormatErase1
<1>3. CASE FormatErase2
  BY <1>1, <1>3, EraseStepValues DEF FormatErase2
<1>4. CASE FormatEraseFactory
  BY <1>1, <1>4, EraseStepValues DEF FormatEraseFactory
<1>5. CASE FormatValid
  BY <1>5, EmptyIn, RecordStepValues DEF FormatValid, locals
<1>6. CASE FormatFormatted
  <2>1. cache' \in Tables
    BY <1>1, <1>6 DEF FormatFormatted
  <2>2. CASE WritePageStatus("Page2", "Formatted") /\ entry' \in {entry, Blank}
    BY <2>1, <2>2, RecordStepValues
  <2>3. CASE WritePageStatusFails("Page2", "Formatted") /\ Fail("Error")
    BY <2>1, <2>3, RecordStepValues
  <2> QED BY <1>6, <2>2, <2>3, EndsEntry DEF FormatFormatted, locals
<1> QED BY <1>2, <1>3, <1>4, <1>5, <1>6 DEF FormatStep

LEMMA BootsKeepValues ==
  ASSUME IndInv, ValuesAt, BootStep
  PROVE  ValuesAt'
<1>1. /\ FlashValued /\ BlockValued /\ cache \in Tables /\ HoldsValue(entry)
      /\ HwaTyped /\ RamTyped /\ flash \in [Pages -> Logs]
  BY DEF ValuesAt, IndInv, TypeOK, HwaTyped
<1>2. CASE Boot
  BY <1>2, StartInitValues DEF Boot
<1>3. CASE EraseUnused \/ EraseReceiving
  <2>1. /\ Erase(Other(ReadPage)) \/ Faulty
        /\ UNCHANGED <<block, cache>> /\ entry' \in {entry, Blank}
    BY <1>3, EndsEntry DEF EraseUnused, EraseReceiving, RepairErase, ram, locals
  <2> QED BY <1>1, <2>1, EraseValued, FaultyValued, SameBlockValued, ValuesFrom
<1>4. CASE RepairFormatted
  BY <1>1, <1>4, RecordStepValues DEF RepairFormatted, locals
<1>5. CASE ResumeReload
  <2>1. (Reload \/ ReloadFails) /\ entry' = entry
    BY <1>5 DEF ResumeReload, locals
  <2> QED BY <1>1, <2>1, ReloadValued, ValuesFrom
<1>6. CASE FinalReload
  <2>1. (Reload \/ ReloadFails) /\ entry' \in {entry, Blank}
    BY <1>6, EndsEntry DEF FinalReload
  <2> QED BY <1>1, <2>1, ReloadValued, ValuesFrom
<1> QED BY <1>2, <1>3, <1>4, <1>5, <1>6 DEF BootStep

LEMMA ValuesStay ==
  ASSUME IndInv, ValuesAt, Next
  PROVE  ValuesAt'
<1>1. CASE PowerLoss
  <2>1. flash' = flash /\ block' = ClearedBlock /\ cache' = ErasedCache /\ entry' = Blank
    BY <1>1 DEF PowerLoss
  <2> QED BY <2>1, SameFlashValued, ClearedValued, EmptyIn, ValuesFrom DEF ValuesAt
<1> QED BY <1>1, CallsKeepValues, AppendsKeepValues, TransfersKeepValues,
        FactoryKeepsValues, FormatsKeepValues, BootsKeepValues DEF Next, Step

-----------------------------------------------------------------------------
(* The steps of EepromStore, in terms of what its variables stand for.       *)

Visible == IF AbstractMode = "off" THEN ErasedCache ELSE cache

NoTable == [a \in {} |-> ERASED]
FactoryTable == IF pc # "store_copy" /\ StatusOf(flash["Factory"]) = "Valid"
                THEN Contents(flash["Factory"]) ELSE NoTable

Simulated == [Store!StoreNext]_(Store!storeVars)

Watched == view = View /\ view' = View'

ViewMatches ==
  view = View => /\ view.mode = AbstractMode /\ view.visible = Visible
                 /\ view.buffered = StagedValues /\ view.durable = Durable
                 /\ view.factory = FactoryTable

LEMMA ViewIs == ViewMatches
BY DEF ViewMatches, View, Visible, FactoryTable, NoTable

LEMMA ViewStays == ViewMatches'
BY ViewIs, PTL

LEMMA ViewNow ==
  ASSUME Watched
  PROVE  /\ view.mode = AbstractMode /\ view.visible = Visible
         /\ view.buffered = StagedValues /\ view.durable = Durable
         /\ view.factory = FactoryTable
         /\ view.mode' = AbstractMode' /\ view.visible' = Visible'
         /\ view.buffered' = StagedValues' /\ view.durable' = Durable'
         /\ view.factory' = FactoryTable'
BY ViewIs, ViewStays DEF ViewMatches, Watched

LEMMA Stutters ==
  ASSUME Watched, AbstractMode' = AbstractMode, Visible' = Visible,
         StagedValues' = StagedValues, Durable' = Durable, FactoryTable' = FactoryTable
  PROVE  Simulated
BY ViewNow DEF Simulated, Store!storeVars

LEMMA Writes ==
  ASSUME Watched, NEW a \in Addresses, NEW v \in Values,
         AbstractMode = "serving", AbstractMode' = "serving",
         Visible' = [Visible EXCEPT ![a] = v], FactoryTable' = FactoryTable,
         LET staged == [StagedValues EXCEPT ![a] = v] IN
           \/ StagedValues' = staged /\ Durable' = Durable
           \/ StagedValues' = ErasedCache /\ Durable' = Overlay(Durable, staged)
  PROVE  Simulated
<1>1. CASE StagedValues' = [StagedValues EXCEPT ![a] = v] /\ Durable' = Durable
  <2>1. Store!StoreWrite(a, v)
    BY <1>1, ViewNow DEF Store!StoreWrite
  <2> QED BY <2>1 DEF Simulated, Store!StoreNext
<1>2. CASE /\ StagedValues' = ErasedCache
           /\ Durable' = Overlay(Durable, [StagedValues EXCEPT ![a] = v])
  <2>1. Store!Empty = ErasedCache /\ \A t, u : Store!Overlay(t, u) = Overlay(t, u)
    BY DEF Store!Empty, ErasedCache, Store!Overlay, Overlay
  <2>2. Store!StoreWrite(a, v)
    BY <1>2, <2>1, ViewNow DEF Store!StoreWrite
  <2> QED BY <2>2 DEF Simulated, Store!StoreNext
<1> QED BY <1>1, <1>2

LEMMA WritesCached ==
  ASSUME Watched, NEW a \in Addresses, NEW v \in Values,
         AbstractMode = "serving", AbstractMode' = "serving",
         Visible' = [Visible EXCEPT ![a] = v], FactoryTable' = FactoryTable,
         StagedValues' = StagedValues, Durable' = Durable
  PROVE  Simulated
<1>1. Store!StoreWriteCached(a, v)
  BY ViewNow DEF Store!StoreWriteCached
<1> QED BY <1>1 DEF Simulated, Store!StoreNext

LEMMA Drains ==
  ASSUME Watched, AbstractMode \in {"serving", "off"}, AbstractMode' = AbstractMode,
         Visible' = Visible, FactoryTable' = FactoryTable,
         StagedValues' = ErasedCache, Durable' = Overlay(Durable, StagedValues)
  PROVE  Simulated
<1>1. Store!Drain
  BY ViewNow DEF Store!Drain, Store!Empty, ErasedCache,
     Store!Overlay, Overlay
<1> QED BY <1>1 DEF Simulated, Store!StoreNext

LEMMA Syncs ==
  ASSUME Watched, AbstractMode = "serving", AbstractMode' = "serving",
         StagedValues = ErasedCache, StagedValues' = StagedValues,
         Visible' = Visible, FactoryTable' = FactoryTable, Durable' = Visible
  PROVE  Simulated
<1>1. Store!Sync
  BY ViewNow DEF Store!Sync, Store!Empty, ErasedCache
<1> QED BY <1>1 DEF Simulated, Store!StoreNext

LEMMA Cuts ==
  ASSUME Watched, AbstractMode' = "off", Visible' = ErasedCache,
         StagedValues' = ErasedCache, FactoryTable' = FactoryTable, Durable' = Durable
  PROVE  Simulated
<1>1. Store!Cut
  BY ViewNow DEF Store!Cut, Store!Empty, ErasedCache
<1> QED BY <1>1 DEF Simulated, Store!StoreNext

LEMMA Starts ==
  ASSUME Watched, AbstractMode = "off", AbstractMode' = "serving", Visible' = Durable,
         StagedValues' = StagedValues, FactoryTable' = FactoryTable, Durable' = Durable
  PROVE  Simulated
<1>1. Store!Start
  BY ViewNow DEF Store!Start
<1> QED BY <1>1 DEF Simulated, Store!StoreNext

LEMMA BeginsWipe ==
  ASSUME Watched, AbstractMode = "serving", AbstractMode' \in {"wiping", "wiping_all"},
         Visible' = Visible, StagedValues' = StagedValues,
         FactoryTable' = FactoryTable, Durable' = Durable
  PROVE  Simulated
<1>1. Store!BeginWipe
  BY ViewNow DEF Store!BeginWipe
<1> QED BY <1>1 DEF Simulated, Store!StoreNext

LEMMA Wipes ==
  ASSUME Watched, AbstractMode \in {"wiping", "wiping_all"}, AbstractMode' = AbstractMode,
         Visible' \in {Visible, ErasedCache}, StagedValues' \in {StagedValues, ErasedCache},
         Durable' \in {Durable, ErasedCache},
         \/ FactoryTable' = FactoryTable
         \/ AbstractMode = "wiping_all" /\ FactoryTable' = NoTable
  PROVE  Simulated
<1>1. Store!Wipe
  BY ViewNow DEF Store!Wipe, Store!Empty, ErasedCache,
     Store!NoSnapshot, NoTable
<1> QED BY <1>1 DEF Simulated, Store!StoreNext

LEMMA EndsWipe ==
  ASSUME Watched, AbstractMode \in {"wiping", "wiping_all"}, AbstractMode' = "serving",
         AbstractMode = "wiping_all" => FactoryTable = NoTable,
         Visible' = ErasedCache, StagedValues' = ErasedCache, Durable' = ErasedCache,
         FactoryTable' = FactoryTable
  PROVE  Simulated
<1>1. Store!EndWipe
  BY ViewNow DEF Store!EndWipe, Store!Empty, ErasedCache,
     Store!NoSnapshot, NoTable
<1> QED BY <1>1 DEF Simulated, Store!StoreNext

LEMMA DropsSnapshot ==
  ASSUME Watched, AbstractMode = "serving", AbstractMode' = "serving",
         FactoryTable' = NoTable,
         Visible' = Visible, StagedValues' = StagedValues, Durable' = Durable
  PROVE  Simulated
<1>1. Store!DropSnapshot
  BY ViewNow DEF Store!DropSnapshot, Store!NoSnapshot, NoTable
<1> QED BY <1>1 DEF Simulated, Store!StoreNext

LEMMA TakesSnapshot ==
  ASSUME Watched, AbstractMode = "serving", AbstractMode' = "serving",
         FactoryTable' = Durable,
         Visible' = Visible, StagedValues' = StagedValues, Durable' = Durable
  PROVE  Simulated
<1>1. Store!Snapshot
  BY ViewNow DEF Store!Snapshot
<1> QED BY <1>1 DEF Simulated, Store!StoreNext

LEMMA BeginsRestore ==
  ASSUME Watched, AbstractMode = "serving", AbstractMode' = "restoring",
         FactoryTable # NoTable, FactoryTable' = FactoryTable,
         Visible' = Visible, StagedValues' = ErasedCache, Durable' = Durable
  PROVE  Simulated
<1>1. Store!BeginRestore
  BY ViewNow DEF Store!BeginRestore, Store!Empty, ErasedCache,
     Store!NoSnapshot, NoTable
<1> QED BY <1>1 DEF Simulated, Store!StoreNext

LEMMA Refills ==
  ASSUME Watched, AbstractMode = "restoring", AbstractMode' = "restoring",
         Visible' \in {Visible, ErasedCache},
         Durable' \in {Durable, ErasedCache, FactoryTable},
         StagedValues' = StagedValues, FactoryTable' = FactoryTable
  PROVE  Simulated
<1>1. Store!Refill
  BY ViewNow DEF Store!Refill, Store!Empty, ErasedCache
<1> QED BY <1>1 DEF Simulated, Store!StoreNext

LEMMA EndsRestore ==
  ASSUME Watched, AbstractMode = "restoring", AbstractMode' = "serving",
         Durable = FactoryTable, Visible' = FactoryTable,
         StagedValues' = StagedValues, Durable' = Durable, FactoryTable' = FactoryTable
  PROVE  Simulated
<1>1. Store!EndRestore
  BY ViewNow DEF Store!EndRestore
<1> QED BY <1>1 DEF Simulated, Store!StoreNext

-----------------------------------------------------------------------------
(* What the variables of EepromStore stand for at each step.                 *)

InitSteps == pc = "off" \/ (pc # "idle" /\ op = "init")
FormatSteps == pc \notin {"off", "idle"} /\ op = "format"
RestoreSteps == pc \notin {"off", "idle"} /\ op = "restore_from_factory"

ModeIs ==
  /\ InitSteps => AbstractMode = "off" /\ Visible = ErasedCache
  /\ ~InitSteps => AbstractMode # "off" /\ Visible = cache
  /\ FormatSteps => AbstractMode = IF flag THEN "wiping_all" ELSE "wiping"
  /\ RestoreSteps => AbstractMode = "restoring"
  /\ ~InitSteps /\ ~FormatSteps /\ ~RestoreSteps => AbstractMode = "serving"

TablesAre ==
  /\ ~block.dirty => BlockValues = ErasedCache
  /\ pc # "xfer_copy" => StagedValues = BlockValues
  /\ pc = "xfer_copy" => StagedValues = ErasedCache
  /\ pc \notin SwapWindow \cup {"restore_copy"} => Durable = TableIn(flash)
  /\ pc \in SwapWindow => Durable = Contents(flash[Other(oldPage)])
  /\ pc = "restore_copy" => Durable = ErasedCache
  /\ pc # "store_copy" /\ StatusOf(flash["Factory"]) = "Valid" =>
       FactoryTable = Contents(flash["Factory"])
  /\ pc = "store_copy" \/ StatusOf(flash["Factory"]) # "Valid" => FactoryTable = NoTable

\* The table of a device at home is the one of the page that serves reads.
HomeTable ==
  CleanPages /\ Home =>
    /\ TableIn(flash) = Contents(flash[ReadPage])
    /\ ReadPage \in RuntimePages /\ WritePage = ReadPage

LEMMA ModeNow == ModeIs
BY DEF ModeIs, InitSteps, FormatSteps, RestoreSteps, AbstractMode, InCall, Visible

LEMMA ModeNext == ModeIs'
BY ModeNow, PTL

LEMMA StagedValuesAre ==
  StagedValues = IF pc = "xfer_copy" THEN ErasedCache ELSE BlockValues
<1>1. ASSUME NEW a \in Addresses
      PROVE  StagedValues[a] = IF pc = "xfer_copy" THEN ERASED ELSE BlockValues[a]
  <2>1. CASE ~block.dirty \/ pc = "xfer_copy"
    BY <2>1 DEF StagedValues, BlockValues, ErasedCache
  <2>2. CASE block.dirty /\ pc # "xfer_copy"
    BY <2>2 DEF StagedValues, BlockValues, DataValues
  <2> QED BY <2>1, <2>2
<1>2. StagedValues = [a \in Addresses |-> StagedValues[a]]
  BY DEF StagedValues
<1>3. BlockValues = [a \in Addresses |-> BlockValues[a]]
  BY DEF BlockValues, DataValues, ErasedCache
<1>4. CASE pc = "xfer_copy"
  BY <1>1, <1>2, <1>4 DEF ErasedCache
<1>5. CASE pc # "xfer_copy"
  BY <1>1, <1>2, <1>3, <1>5
<1> QED BY <1>4, <1>5

LEMMA TablesNow == TablesAre
<1>1. ~block.dirty => BlockValues = ErasedCache
  BY DEF BlockValues
<1>2. /\ pc \notin SwapWindow \cup {"restore_copy"} => Durable = TableIn(flash)
      /\ pc \in SwapWindow => Durable = Contents(flash[Other(oldPage)])
      /\ pc = "restore_copy" => Durable = ErasedCache
  BY RecoveredIs DEF Durable, SwapWindow
<1> QED BY <1>1, <1>2, StagedValuesAre DEF TablesAre, FactoryTable

LEMMA TablesNext == TablesAre'
BY TablesNow, PTL

LEMMA HomeTableNow == HomeTable
<1> SUFFICES ASSUME CleanPages, Home
             PROVE  /\ TableIn(flash) = Contents(flash[ReadPage])
                    /\ ReadPage \in RuntimePages /\ WritePage = ReadPage
  BY DEF HomeTable
<1>1. /\ ReadPage \in RuntimePages /\ WritePage = ReadPage
      /\ StatusOf(flash[ReadPage]) = "Valid"
      /\ StatusOf(flash[Other(ReadPage)]) = "Formatted"
  BY HomeIs
<1>2. CleanLog(flash[ReadPage])
  BY <1>1, PageNames DEF CleanPages
<1> QED BY <1>1, <1>2, FoundInPage

LEMMA HomeTableNext == HomeTable'
BY HomeTableNow, PTL

\* What every reachable state satisfies besides Truthful.
Sound == IndInv /\ Orderly /\ ValuesAt /\ CallsAt /\ AtMostOneValid

-----------------------------------------------------------------------------
(* Calls.                                                                    *)

LEMMA SoundIs ==
  ASSUME Sound
  PROVE  /\ IndInv /\ Orderly /\ HwaTyped /\ RamTyped /\ CallTyped /\ CleanPages
         /\ HeaderPages /\ ValuesAt /\ CallsAt /\ AtMostOneValid
BY DEF Sound, IndInv, TypeOK, Orderly

\* The same flash keeps its headers and its tables.
LEMMA SameHeaders ==
  ASSUME HeadersAt, flash' = flash, pc = "restore_copy" => pc' = "restore_copy"
  PROVE  HeadersAt'
BY DEF HeadersAt

LEMMA SameMirror ==
  ASSUME Mirrors, UNCHANGED <<flash, status, cache, cacheDirty, block>>
  PROVE  Mirrors'
<1>1. ReadPage' = ReadPage /\ BlockValues' = BlockValues
  BY DEF ReadPage, BlockValues
<1> QED BY <1>1 DEF Mirrors

CallTargets ==
  \/ pc' = "idle" /\ op' \notin {"init", "flush"}
  \/ pc' = "write" /\ op' = "write"
  \/ pc' = "flush_block" /\ ~cacheDirty' /\ op' \in {"flush", "store_to_factory"}
  \/ pc' = "xfer_flush" /\ op' \in {"flush", "store_to_factory", "page_transfer", "write"}

LEMMA CallTruth ==
  ASSUME HeadersAt', Mirrors', CallTargets \/ (pc' = "format_erase1" /\ op' = "format")
  PROVE  Truthful'
<1>1. MirrorAt' /\ CopyAt'
  BY DEF MirrorAt, CopyAt, MirrorSteps, CallTargets
<1>2. WipeAt' /\ RestoreAt'
  BY DEF WipeAt, RestoreAt, CallTargets
<1> QED BY <1>1, <1>2 DEF Truthful

\* What the store is at between two calls.
LEMMA IdleShows ==
  ASSUME Sound, Truthful, pc = "idle"
  PROVE  /\ Home /\ Staging /\ ReadPage \in RuntimePages /\ WritePage = ReadPage
         /\ ReadPage # NoPage /\ HeadersAt /\ Mirrors
         /\ AbstractMode = "serving" /\ Visible = cache
         /\ StagedValues = BlockValues /\ Durable = TableIn(flash)
<1>1. Home /\ Staging /\ CleanPages
  BY SoundIs, IdleIs
<1>2. ReadPage \in RuntimePages /\ WritePage = ReadPage /\ ReadPage # NoPage
  BY <1>1, HomeIs
<1>3. AbstractMode = "serving" /\ Visible = cache
  BY ModeNow DEF ModeIs, InitSteps, FormatSteps, RestoreSteps
<1>4. StagedValues = BlockValues /\ Durable = TableIn(flash)
  BY TablesNow DEF TablesAre, SwapWindow
<1>5. HeadersAt /\ Mirrors
  BY DEF Truthful, MirrorAt, MirrorSteps
<1> QED BY <1>1, <1>2, <1>3, <1>4, <1>5

LEMMA CallShows ==
  ASSUME UNCHANGED <<flash, block>>, CallTargets, pc = "idle"
  PROVE  /\ AbstractMode' = "serving" /\ Visible' = cache'
         /\ StagedValues' = BlockValues /\ Durable' = TableIn(flash)
         /\ FactoryTable' = FactoryTable
<1>1. AbstractMode' = "serving" /\ Visible' = cache'
  BY ModeNext DEF ModeIs, InitSteps, FormatSteps, RestoreSteps, CallTargets
<1>2. BlockValues' = BlockValues
  BY DEF BlockValues
<1>3. StagedValues' = BlockValues' /\ Durable' = TableIn(flash')
  BY TablesNext DEF TablesAre, SwapWindow, CallTargets
<1>4. FactoryTable' = FactoryTable
  BY DEF FactoryTable, CallTargets
<1> QED BY <1>1, <1>2, <1>3, <1>4

LEMMA QuietCall ==
  ASSUME Sound, Truthful, Watched, pc = "idle", CallTargets,
         UNCHANGED <<flash, status, cache, cacheDirty, block>>
  PROVE  Truthful' /\ Simulated
<1>1. HeadersAt' /\ Mirrors'
  BY IdleShows, SameHeaders, SameMirror
<1>2. Truthful'
  BY <1>1, CallTruth
<1>3. /\ AbstractMode' = AbstractMode /\ Visible' = Visible /\ StagedValues' = StagedValues
      /\ Durable' = Durable /\ FactoryTable' = FactoryTable
  BY IdleShows, CallShows
<1> QED BY <1>2, <1>3, Stutters

\* A miss in the mirror finds nothing in the log either.
LEMMA ReadStep ==
  ASSUME Storable, Sound, Truthful, Watched, NEW a \in 0 .. OutOfRange, Read(a)
  PROVE  Truthful' /\ Simulated
<1>1. /\ pc = "idle" /\ pc' = "idle" /\ op' \in {"read", "read_beyond"}
      /\ UNCHANGED <<flash, status, cacheDirty, block>>
  BY DEF Read, Call, Answer
<1>2. cache' = cache
  <2>1. SUFFICES ASSUME a # OutOfRange, cache[a] = ERASED,
                        cache' = [cache EXCEPT ![a] = NewestValue(flash[ReadPage], a, Scanned)]
                 PROVE  cache' = cache
    BY DEF Read
  <2>2. a \in Addresses
    BY <2>1, GeometryType DEF OutOfRange, Addresses
  <2>3. /\ Home /\ Staging /\ ReadPage \in RuntimePages /\ ReadPage \in Pages
        /\ WritePage = ReadPage /\ Mirrors
    BY <1>1, IdleShows, PageNames
  <2>4. Contents(flash[ReadPage])[a] = ERASED
    <3>1. cache[a] = Overlay(Contents(flash[ReadPage]), BlockValues)[a]
      BY <2>1, <2>2, <2>3 DEF Mirrors
    <3> QED BY <2>1, <2>2, <3>1, OverlayIs
  <2>5. ScanLimit(ReadPage) \in 0 .. PageSize
        /\ ScanLimit(ReadPage) >= FirstFree(flash[ReadPage])
    <3>1. /\ FirstFree(flash[ReadPage]) \in 0 .. PageSize /\ PageSize \in Nat
          /\ StagedCount \in Nat
          /\ WriteOffset(ReadPage) = FirstFree(flash[ReadPage]) + StagedCount
          /\ next.offset \in 0 .. PageSize
      BY <2>3, SoundIs, StagedIs, FirstFreeNat, GeometryType DEF Slots, RamTyped, Positions
    <3> QED BY <3>1 DEF ScanLimit, WriteOffset
  <2>6. Packed(flash[ReadPage])
    BY <2>3, SoundIs, PageHolds
  <2>7. NewestValue(flash[ReadPage], a, Scanned) = ERASED
    BY <2>2, <2>4, <2>5, <2>6, ScanFindsValue, ContentsAre DEF Scanned
  <2>8. cache \in [Addresses -> Words]
    BY SoundIs DEF RamTyped
  <2> QED BY <2>1, <2>2, <2>7, <2>8
<1>3. CallTargets
  BY <1>1 DEF CallTargets
<1> QED BY <1>1, <1>2, <1>3, QuietCall

\* write(): begins, or answers at once.
LEMMA WriteStep ==
  ASSUME Sound, Truthful, Watched, NEW a, NEW v, Write(a, v)
  PROVE  Truthful' /\ Simulated
<1>1. pc = "idle" /\ CallTargets /\ UNCHANGED <<flash, status, cache, cacheDirty, block>>
  BY DEF Write, Call, Answer, Begin, CallTargets, ram
<1> QED BY <1>1, QuietCall

LEMMA FlushStep ==
  ASSUME Sound, Truthful, Watched, NEW c, Flush(c)
  PROVE  Truthful' /\ Simulated
<1>1. pc = "idle" /\ CallTargets /\ UNCHANGED <<flash, status, cache, cacheDirty, block>>
  BY DEF Flush, Call, Begin, CallTargets, ram
<1> QED BY <1>1, QuietCall

LEMMA TransferCallStep ==
  ASSUME Sound, Truthful, Watched, PageTransfer
  PROVE  Truthful' /\ Simulated
<1>1. pc = "idle" /\ CallTargets /\ UNCHANGED <<flash, status, cache, cacheDirty, block>>
  BY DEF PageTransfer, Call, Begin, CallTargets, ram
<1> QED BY <1>1, QuietCall

LEMMA PageStatusStep ==
  ASSUME Sound, Truthful, Watched, NEW p \in Pages, PageStatus(p)
  PROVE  Truthful' /\ Simulated
<1>1. pc = "idle" /\ CallTargets /\ UNCHANGED <<flash, cache, cacheDirty, block>>
  BY DEF PageStatus, Call, Answer, CallTargets
<1>2. status' = status
  BY SoundIs, PageStatusOrderly
<1> QED BY <1>1, <1>2, QuietCall

\* A cache-only write: visible, and nothing else.
LEMMA WriteCachedStep ==
  ASSUME Storable, Sound, Truthful, Watched, NEW a \in Addresses, NEW v \in Values,
         WriteCached(a, v)
  PROVE  Truthful' /\ Simulated
<1>1. /\ pc = "idle" /\ pc' = "idle" /\ op' = "write_cached" /\ cacheDirty'
      /\ UNCHANGED <<flash, status, block>> /\ cache' = [cache EXCEPT ![a] = v]
  BY DEF WriteCached, Call, Answer
<1>2. HeadersAt'
  BY <1>1, IdleShows, SameHeaders
<1>3. Mirrors'
  <2>1. ReadPage' = ReadPage /\ BlockValues' = BlockValues
    BY <1>1 DEF ReadPage, BlockValues
  <2>2. Mirrors /\ cache \in [Addresses -> Words] /\ v # ERASED
    BY <1>1, IdleShows, SoundIs DEF RamTyped, Storable
  <2> QED BY <1>1, <2>1, <2>2 DEF Mirrors
<1>4. CallTargets
  BY <1>1 DEF CallTargets
<1>5. Truthful'
  BY <1>2, <1>3, <1>4, CallTruth
<1>6. /\ AbstractMode = "serving" /\ AbstractMode' = "serving"
      /\ Visible' = [Visible EXCEPT ![a] = v] /\ StagedValues' = StagedValues
      /\ Durable' = Durable /\ FactoryTable' = FactoryTable
  BY <1>1, <1>4, IdleShows, CallShows
<1> QED BY <1>5, <1>6, WritesCached

LEMMA FormatStepBegins ==
  ASSUME Sound, Truthful, Watched, NEW factory \in BOOLEAN, Format(factory)
  PROVE  Truthful' /\ Simulated
<1>1. /\ pc = "idle" /\ pc' = "format_erase1" /\ op' = "format"
      /\ UNCHANGED <<flash, status, cache, cacheDirty, block>>
  BY DEF Format, Call, Begin, ram
<1>2. Truthful'
  BY <1>1, IdleShows, SameHeaders, SameMirror, CallTruth
<1>3. AbstractMode' \in {"wiping", "wiping_all"} /\ Visible' = cache'
  BY <1>1, ModeNext DEF ModeIs, InitSteps, FormatSteps, RestoreSteps
<1>4. StagedValues' = BlockValues' /\ BlockValues' = BlockValues /\ Durable' = TableIn(flash')
  BY <1>1, TablesNext DEF TablesAre, SwapWindow, BlockValues
<1>5. FactoryTable' = FactoryTable
  BY <1>1 DEF FactoryTable
<1> QED BY <1>1, <1>2, <1>3, <1>4, <1>5, IdleShows, BeginsWipe

LEMMA RestoreStepBegins ==
  ASSUME Sound, Truthful, Watched, RestoreFromFactory
  PROVE  Truthful' /\ Simulated
<1>1. /\ pc = "idle" /\ op' = "restore_from_factory"
      /\ UNCHANGED <<flash, cache, cacheDirty>>
      /\ status' = [status EXCEPT !["Factory"] = StatusOf(flash["Factory"])]
  BY DEF RestoreFromFactory, Call
<1>2. status' = status
  <2>1. Current("Factory")
    BY <1>1, SoundIs, IdleIs
  <2> QED BY <1>1, <2>1, SoundIs DEF Current, RamTyped
<1>3. CASE StatusOf(flash["Factory"]) # "Valid"
  <2>1. pc' = "idle" /\ block' = block
    BY <1>3 DEF RestoreFromFactory, Answer
  <2>2. CallTargets
    BY <1>1, <2>1 DEF CallTargets
  <2> QED BY <1>1, <1>2, <2>1, <2>2, QuietCall
<1>4. CASE StatusOf(flash["Factory"]) = "Valid"
  <2>1. pc' = "restore_erase1" /\ block' = ClearedBlock
    BY <1>4 DEF RestoreFromFactory, Begin
  <2>2. HeadersAt'
    BY <1>1, IdleShows, SameHeaders
  <2>3. Truthful'
    BY <1>1, <1>4, <2>1, <2>2
       DEF Truthful, MirrorAt, MirrorSteps, CopyAt, WipeAt, RestoreAt
  <2>4. AbstractMode' = "restoring" /\ Visible' = cache'
    BY <1>1, <2>1, ModeNext DEF ModeIs, InitSteps, FormatSteps, RestoreSteps
  <2>5. StagedValues' = ErasedCache /\ Durable' = TableIn(flash')
    BY <2>1, TablesNext, ErasedTypes DEF TablesAre, SwapWindow
  <2>6. FactoryTable' = FactoryTable /\ FactoryTable = Contents(flash["Factory"])
    BY <1>1, <1>4, <2>1 DEF FactoryTable
  <2>7. FactoryTable # NoTable
    <3>1. DOMAIN Contents(flash["Factory"]) = Addresses /\ DOMAIN NoTable = {}
      BY DEF Contents, NoTable
    <3> QED BY <2>6, <3>1, UnusedAddresses
  <2> QED BY <1>1, <2>3, <2>4, <2>5, <2>6, <2>7, IdleShows, BeginsRestore
<1> QED BY <1>3, <1>4

\* init() looks at the headers first and repairs nothing yet.
LEMMA StartInitStep ==
  ASSUME Sound, Truthful, Watched, StartInit, pc \in {"off", "idle"}
  PROVE  Truthful' /\ Simulated
<1>1. /\ flash' = flash /\ op' = "init" /\ block' = ClearedBlock
      /\ cache' = ErasedCache /\ pc' = Repair(status')
      /\ status' = [p \in Pages |-> StatusOf(flash[p])]
  BY DEF StartInit
<1>2. pc' \in {"reload", "repair_erase", "resume_erase", "format_erase1"}
  BY <1>1 DEF Repair
<1>3. HeadersAt'
  BY <1>1, SameHeaders DEF Truthful
<1>4. ASSUME pc' = "format_erase1", NEW p \in RuntimePages
      PROVE  StatusOf(flash'[p]) # "Valid"
  <2>1. ~OneValid(status') /\ ~BothValid(FlashStatus)
    <3>1. OneValid(status') => Repair(status') # "format_erase1"
      <4>1. status' \in [Pages -> PageStatuses]
        BY <1>1, SoundIs, StatusOfType DEF HwaTyped
      <4>2. OneValid(status') => Partner(status') \in {"Formatted", ERASED, "Receiving"}
        BY <4>1, PageNames DEF OneValid, Partner, PageStatuses, StatusRecords
      <4> QED BY <4>2 DEF Repair
    <3> QED BY <1>1, <1>4, <3>1, SoundIs DEF AtMostOneValid
  <2>2. FlashStatus = status'
    BY <1>1 DEF FlashStatus
  <2>3. status'["Page1"] # "Valid" /\ status'["Page2"] # "Valid"
    BY <2>1, <2>2 DEF OneValid, BothValid
  <2> QED BY <1>1, <2>3, PageNames
<1>5. Truthful'
  BY <1>1, <1>2, <1>3, <1>4 DEF Truthful, MirrorAt, MirrorSteps, CopyAt, WipeAt, RestoreAt
<1>6. AbstractMode' = "off" /\ Visible' = ErasedCache
  BY <1>1, <1>2, ModeNext DEF ModeIs, InitSteps
<1>7. StagedValues' = ErasedCache /\ Durable' = TableIn(flash')
  BY <1>1, <1>2, TablesNext, ErasedTypes DEF TablesAre, SwapWindow
<1>8. Durable = TableIn(flash)
  BY TablesNow DEF TablesAre, SwapWindow
<1>9. FactoryTable' = FactoryTable
  BY <1>1, <1>2 DEF FactoryTable
<1> QED BY <1>1, <1>5, <1>6, <1>7, <1>8, <1>9, Cuts

LEMMA CallsSimulated ==
  ASSUME Storable, Sound, Truthful, Watched, CallStep
  PROVE  Truthful' /\ Simulated
<1>1. CASE InitCall
  BY <1>1, StartInitStep DEF InitCall
<1> QED BY <1>1, WriteStep, WriteCachedStep, ReadStep, PageStatusStep, FlushStep,
        TransferCallStep, FormatStepBegins, RestoreStepBegins DEF CallStep

-----------------------------------------------------------------------------
(* write().                                                                  *)

\* A page that is not marked Formatted may hold anything.
LEMMA HeadersStay ==
  ASSUME HeadersAt, pc = "restore_copy" => StatusOf(flash'["Page1"]) # "Formatted",
         \A p \in RuntimePages : \/ flash'[p] = flash[p]
                                 \/ StatusOf(flash'[p]) # "Formatted"
                                 \/ Contents(flash'[p]) = ErasedCache
  PROVE  HeadersAt'
<1> SUFFICES ASSUME NEW p \in RuntimePages PROVE HeaderOnly(flash'[p])
  BY DEF HeadersAt
<1>1. CASE flash'[p] = flash[p] /\ (pc # "restore_copy" \/ p # "Page1")
  BY <1>1 DEF HeadersAt
<1> QED BY <1>1 DEF HeaderOnly

\* Between an entry and its block the page and the block together hold one value
\* more.
LEMMA AppendedMirror ==
  ASSUME Storable, HwaTyped, RamTyped, CleanPages, ValuesAt, CleanPages', ValuesAt',
         WritePage \in RuntimePages, Staging, NEW e \in Entries, e.address \in Addresses,
         HoldsValue(e), AppendEntry(e)
  PROVE  Overlay(Contents(flash'[WritePage]), BlockValues')
           = [Overlay(Contents(flash[WritePage]), BlockValues) EXCEPT ![e.address] = e.value]
<1> DEFINE added == [BlockValues EXCEPT ![e.address] = e.value]
           h == WritePage
<1>1. h \in Pages /\ Contents(flash[h]) \in Tables /\ BlockValues \in Tables
      /\ e.value \in Values
  BY PageHolds, BlockHolds, PageNames DEF HoldsValue
<1>2. Overlay(Contents(flash[h]), added)
        = [Overlay(Contents(flash[h]), BlockValues) EXCEPT ![e.address] = e.value]
  BY <1>1, OverlayOne
<1>3. \/ flash' = flash /\ BlockValues' = added
      \/ BlockValues' = ErasedCache /\ Contents(flash'[h]) = Overlay(Contents(flash[h]), added)
  BY AppendedEntry
<1> HIDE DEF added
<1>4. CASE flash' = flash /\ BlockValues' = added
  BY <1>2, <1>4
<1>5. CASE BlockValues' = ErasedCache /\ Contents(flash'[h]) = Overlay(Contents(flash[h]), added)
  <2>1. CleanLog(flash'[h]) /\ Valued(flash'[h])
    <3>1. PICK p \in RuntimePages : p = h
      OBVIOUS
    <3>2. CleanLog(flash'[p]) /\ Valued(flash'[p])
      BY PageNames DEF CleanPages, ValuesAt, FlashValued
    <3> QED BY <3>1, <3>2
  <2>2. Contents(flash'[h]) \in Tables
    BY <2>1, ContentsIn DEF CleanLog
  <2>3. Overlay(Contents(flash'[h]), ErasedCache) = Contents(flash'[h])
    BY <2>2, OverlayNothing
  <2> QED BY <1>2, <1>5, <2>3
<1> QED BY <1>3, <1>4, <1>5

LEMMA WriteIs ==
  ASSUME Sound, Truthful, pc \in {"write", "write_again"}
  PROVE  /\ op = "write" /\ entry \in Entries /\ entry.address \in Addresses
         /\ entry.value \in Values /\ HoldsValue(entry)
         /\ Home /\ Staging /\ ReadPage \in RuntimePages /\ WritePage = ReadPage
         /\ HeadersAt /\ Mirrors
         /\ AbstractMode = "serving" /\ Visible = cache
         /\ StagedValues = BlockValues /\ Durable = Contents(flash[ReadPage])
<1>1. op = "write" /\ Home /\ Staging /\ CleanPages /\ HoldsValue(entry) /\ entry \in Entries
  BY SoundIs, IdleIs DEF CallsAt, ValuesAt, CallTyped
<1>2. entry.address \in Addresses
  BY <1>1 DEF Sound, Orderly, EntryAt, WriteSteps
<1>3. entry.value \in Values
  BY <1>1, <1>2 DEF HoldsValue
<1>4. AbstractMode = "serving" /\ Visible = cache
  BY <1>1, ModeNow DEF ModeIs, InitSteps, FormatSteps, RestoreSteps
<1>5. StagedValues = BlockValues /\ Durable = TableIn(flash)
  BY TablesNow DEF TablesAre, SwapWindow
<1>6. /\ TableIn(flash) = Contents(flash[ReadPage])
      /\ ReadPage \in RuntimePages /\ WritePage = ReadPage
  BY <1>1, HomeTableNow DEF HomeTable
<1>7. HeadersAt /\ Mirrors
  BY DEF Truthful, MirrorAt, MirrorSteps
<1> QED BY <1>1, <1>2, <1>3, <1>4, <1>5, <1>6, <1>7

LEMMA AppendedStep ==
  ASSUME Storable, Sound, Sound', Truthful, Watched, pc \in {"write", "write_again"},
         UNCHANGED <<status, cacheDirty>>, AppendEntry(entry), Return("Ok")
  PROVE  Truthful' /\ Simulated
<1> DEFINE h == ReadPage
           a == entry.address
           v == entry.value
<1>1. /\ op = "write" /\ entry \in Entries /\ a \in Addresses /\ v \in Values
      /\ HoldsValue(entry) /\ Home /\ Staging /\ h \in RuntimePages /\ WritePage = h
      /\ HeadersAt /\ Mirrors /\ AbstractMode = "serving" /\ Visible = cache
      /\ StagedValues = BlockValues /\ Durable = Contents(flash[h])
  BY WriteIs
<1>2. HwaTyped /\ RamTyped /\ CleanPages /\ ValuesAt /\ CleanPages' /\ ValuesAt'
  BY DEF Sound, IndInv, TypeOK, Orderly
<1>3. pc' = "idle" /\ op' = "write" /\ cache' = [cache EXCEPT ![a] = v]
      /\ ReadPage' = h
  BY <1>1 DEF Return, AppendEntry, ReadPage
<1>4. /\ \A q \in Pages : StatusOf(flash'[q]) = StatusOf(flash[q])
      /\ \A q \in Pages : q # h => flash'[q] = flash[q]
  BY <1>1, <1>2, Appended
<1>5. StatusOf(flash[h]) = "Valid"
  BY <1>1, HomeIs
<1>6. HeadersAt'
  BY <1>1, <1>4, <1>5, PageNames, HeadersStay
<1>7. Overlay(Contents(flash'[h]), BlockValues')
        = [Overlay(Contents(flash[h]), BlockValues) EXCEPT ![a] = v]
  BY <1>1, <1>2, AppendedMirror
<1>8. Mirrors'
  <2> SUFFICES ASSUME NEW x \in Addresses
               PROVE  \/ cache'[x] = Overlay(Contents(flash'[h]), BlockValues')[x]
                      \/ cacheDirty' /\ cache'[x] # ERASED
    BY <1>3 DEF Mirrors
  <2>1. DOMAIN Overlay(Contents(flash[h]), BlockValues) = Addresses
        /\ cache \in [Addresses -> Words]
    BY <1>2 DEF Overlay, RamTyped
  <2>2. CASE x = a
    BY <1>1, <1>3, <1>7, <2>1, <2>2
  <2>3. CASE x # a
    <3>1. /\ cache'[x] = cache[x]
          /\ Overlay(Contents(flash'[h]), BlockValues')[x]
               = Overlay(Contents(flash[h]), BlockValues)[x]
      BY <1>1, <1>3, <1>7, <2>1, <2>3
    <3> QED BY <1>1, <3>1 DEF Mirrors
  <2> QED BY <2>2, <2>3
<1>9. Truthful'
  BY <1>3, <1>6, <1>8, CallTruth DEF CallTargets
<1>10. AbstractMode' = "serving" /\ Visible' = [Visible EXCEPT ![a] = v]
  BY <1>1, <1>3, ModeNext DEF ModeIs, InitSteps, FormatSteps, RestoreSteps
<1>11. StagedValues' = BlockValues' /\ Durable' = Contents(flash'[h])
  <2>1. StagedValues' = BlockValues' /\ Durable' = TableIn(flash')
    BY <1>3, TablesNext DEF TablesAre, SwapWindow
  <2>2. TableIn(flash') = Contents(flash'[h])
    <3>1. PICK p \in RuntimePages : p = h
      BY <1>1
    <3>2. /\ p \in Pages /\ Other(p) \in Pages /\ StatusOf(flash'[p]) = "Valid"
          /\ StatusOf(flash'[Other(p)]) # "Valid" /\ CleanLog(flash'[p])
      BY <1>1, <1>2, <1>4, <3>1, HomeIs, PageNames DEF CleanPages
    <3> QED BY <3>1, <3>2, FoundInPage
  <2> QED BY <2>1, <2>2
<1>12. FactoryTable' = FactoryTable
  <2>1. flash'["Factory"] = flash["Factory"] /\ pc # "store_copy"
    BY <1>1, <1>4, PageNames
  <2> QED BY <1>3, <2>1 DEF FactoryTable
<1>13. LET staged == [StagedValues EXCEPT ![a] = v] IN
         \/ StagedValues' = staged /\ Durable' = Durable
         \/ StagedValues' = ErasedCache /\ Durable' = Overlay(Durable, staged)
  BY <1>1, <1>2, <1>11, AppendedEntry
<1> QED BY <1>1, <1>9, <1>10, <1>12, <1>13, Writes

LEMMA WriteInternalStep ==
  ASSUME MaxFaults = 0, Storable, Sound, Sound', Truthful, Watched, WriteInternal
  PROVE  Truthful' /\ Simulated
<1>1. /\ pc \in {"write", "write_again"} /\ UNCHANGED <<status, cacheDirty>>
      /\ ~AppendEntryFails(entry)
  BY SoundIs, AppendsOrderly DEF WriteInternal
<1>2. CASE AppendEntry(entry) /\ Return("Ok")
  BY <1>1, <1>2, AppendedStep
<1>3. ASSUME NEW res, NoRoom(res),
             (pc' = "xfer_flush" /\ UNCHANGED locals) \/ Return(res)
      PROVE  Truthful' /\ Simulated
  <2>1. /\ op = "write" /\ Home /\ HeadersAt /\ Mirrors
        /\ AbstractMode = "serving" /\ Visible = cache
        /\ StagedValues = BlockValues
    BY <1>1, WriteIs
  <2>2. /\ UNCHANGED <<flash, block, cache, status, cacheDirty>>
        /\ op' = "write" /\ pc' \in {"xfer_flush", "idle"}
    BY <1>1, <1>3, <2>1 DEF NoRoom, Return, locals
  <2>3. HeadersAt' /\ Mirrors' /\ CallTargets
    BY <1>1, <2>1, <2>2, SameHeaders, SameMirror DEF CallTargets
  <2>4. Truthful'
    BY <2>3, CallTruth
  <2>5. AbstractMode' = "serving" /\ Visible' = cache'
    BY <2>2, ModeNext DEF ModeIs, InitSteps, FormatSteps, RestoreSteps
  <2>6. StagedValues' = BlockValues' /\ Durable' = TableIn(flash') /\ BlockValues' = BlockValues
    BY <2>2, TablesNext DEF TablesAre, SwapWindow, BlockValues
  <2>7. Durable = TableIn(flash)
    BY <1>1, TablesNow DEF TablesAre, SwapWindow
  <2>8. FactoryTable' = FactoryTable
    BY <1>1, <2>2 DEF FactoryTable
  <2> QED BY <2>1, <2>2, <2>4, <2>5, <2>6, <2>7, <2>8, Stutters
<1>4. WriteInternal => \/ AppendEntry(entry) /\ Return("Ok")
                       \/ AppendEntryFails(entry)
                       \/ \E res : NoRoom(res) /\ ((pc' = "xfer_flush" /\ UNCHANGED locals) \/ Return(res))
  BY DEF WriteInternal, Goto
<1> QED BY <1>1, <1>2, <1>3, <1>4

-----------------------------------------------------------------------------
(* page_transfer().                                                          *)

\* The page that is Valid holds the table.
ValidTable ==
  CleanPages /\ AtMostOneValid =>
    \A p \in RuntimePages : StatusOf(flash[p]) = "Valid" =>
      TableIn(flash) = Contents(flash[p]) /\ StatusOf(flash[Other(p)]) # "Valid"

LEMMA ValidTableNow == ValidTable
<1> SUFFICES ASSUME CleanPages, AtMostOneValid, NEW p \in RuntimePages,
                    StatusOf(flash[p]) = "Valid"
             PROVE  /\ TableIn(flash) = Contents(flash[p])
                    /\ StatusOf(flash[Other(p)]) # "Valid"
  BY DEF ValidTable
<1>1. StatusOf(flash[Other(p)]) # "Valid"
  BY PageNames DEF AtMostOneValid, BothValid, FlashStatus
<1>2. CleanLog(flash[p])
  BY PageNames DEF CleanPages
<1> QED BY <1>1, <1>2, FoundInPage

LEMMA ValidTableNext == ValidTable'
BY ValidTableNow, PTL

PagesHold ==
  HwaTyped /\ CleanPages /\ ValuesAt =>
    \A p \in Pages : CleanLog(flash[p]) /\ Contents(flash[p]) \in Tables

LEMMA PagesHoldNow == PagesHold
BY PageHolds DEF PagesHold

LEMMA PagesHoldNext == PagesHold'
BY PagesHoldNow, PTL

LEMMA SoundTables ==
  ASSUME Sound, Sound'
  PROVE  /\ \A p \in Pages : Contents(flash[p]) \in Tables
         /\ \A p \in Pages : Contents(flash'[p]) \in Tables
         /\ \A p \in RuntimePages : StatusOf(flash[p]) = "Valid" =>
              TableIn(flash) = Contents(flash[p])
         /\ \A p \in RuntimePages : StatusOf(flash'[p]) = "Valid" =>
              TableIn(flash') = Contents(flash'[p])
<1>1. /\ HwaTyped /\ CleanPages /\ ValuesAt /\ AtMostOneValid
      /\ HwaTyped' /\ CleanPages' /\ ValuesAt' /\ AtMostOneValid'
  BY DEF Sound, IndInv, TypeOK, Orderly
<1>2. /\ \A p \in Pages : Contents(flash[p]) \in Tables
      /\ \A p \in Pages : Contents(flash'[p]) \in Tables
  BY <1>1, PagesHoldNow, PagesHoldNext DEF PagesHold
<1>3. \A p \in RuntimePages : StatusOf(flash[p]) = "Valid" =>
        TableIn(flash) = Contents(flash[p])
  BY <1>1, ValidTableNow DEF ValidTable
<1>4. \A p \in RuntimePages : StatusOf(flash'[p]) = "Valid" =>
        TableIn(flash') = Contents(flash'[p])
  BY <1>1, ValidTableNext DEF ValidTable
<1> QED BY <1>2, <1>3, <1>4

\* A page transfer is one of init()'s or of a call's; callers see its table.
LEMMA TransferShows ==
  ASSUME CallsAt, pc \in TransferSteps
  PROVE  /\ pc \notin {"store_copy", "restore_copy", "off", "idle"}
         /\ op = "init" => AbstractMode = "off" /\ Visible = ErasedCache
         /\ op # "init" => AbstractMode = "serving" /\ Visible = cache
<1>1. /\ pc \notin {"store_copy", "restore_copy", "off", "idle"}
      /\ op \in {"init", "write", "flush", "store_to_factory", "page_transfer"}
  BY DEF CallsAt, TransferSteps
<1> QED BY <1>1, ModeNow DEF ModeIs, InitSteps, FormatSteps, RestoreSteps

TransferModes ==
  CallsAt /\ pc \in TransferSteps =>
    /\ pc \notin {"store_copy", "restore_copy", "off", "idle"}
    /\ op = "init" => AbstractMode = "off" /\ Visible = ErasedCache
    /\ op # "init" => AbstractMode = "serving" /\ Visible = cache

LEMMA TransferModesNow == TransferModes
BY TransferShows DEF TransferModes

LEMMA TransferModesNext == TransferModes'
BY TransferModesNow, PTL

\* What callers see through a step from one part of a transfer to the next.
LEMMA TransferMoves ==
  ASSUME Sound, Sound', pc \in TransferSteps, pc' \in TransferSteps, op' = op,
         cache' = cache, flash'["Factory"] = flash["Factory"]
  PROVE  /\ AbstractMode \in {"serving", "off"}
         /\ AbstractMode' = AbstractMode /\ Visible' = Visible /\ FactoryTable' = FactoryTable
         /\ op # "init" => AbstractMode = "serving" /\ Visible = cache
         /\ op = "init" => AbstractMode = "off" /\ Visible = ErasedCache
<1>1. CallsAt /\ CallsAt'
  BY DEF Sound
<1>2. /\ pc # "store_copy"
      /\ op = "init" => AbstractMode = "off" /\ Visible = ErasedCache
      /\ op # "init" => AbstractMode = "serving" /\ Visible = cache
  BY <1>1, TransferModesNow DEF TransferModes
<1>3. /\ pc' # "store_copy"
      /\ op' = "init" => AbstractMode' = "off" /\ Visible' = ErasedCache
      /\ op' # "init" => AbstractMode' = "serving" /\ Visible' = cache'
  BY <1>1, TransferModesNext DEF TransferModes
<1>4. FactoryTable' = FactoryTable
  BY <1>2, <1>3 DEF FactoryTable
<1> QED BY <1>2, <1>3, <1>4

LEMMA TransferTruth ==
  ASSUME HeadersAt', CopyAt', Sound', pc' \in TransferSteps, pc' # "xfer_flush"
  PROVE  Truthful'
<1>1. op' # "restore_from_factory"
  BY DEF Sound, CallsAt
<1>2. MirrorAt' /\ WipeAt' /\ RestoreAt'
  BY <1>1 DEF MirrorAt, MirrorSteps, WipeAt, RestoreAt, TransferSteps
<1> QED BY <1>2 DEF Truthful

\* The parts of a transfer: the table is the old page's, then the new one's.
LEMMA TransferTables ==
  ASSUME Sound, Sound'
  PROVE  /\ pc \in TransferSteps \ SwapWindow => Durable = TableIn(flash)
         /\ pc' \in TransferSteps \ SwapWindow => Durable' = TableIn(flash')
         /\ pc \in SwapWindow => Durable = Contents(flash[Other(oldPage)])
         /\ pc' \in SwapWindow => Durable' = Contents(flash'[Other(oldPage')])
         /\ pc \in TransferSteps =>
              StagedValues = IF pc = "xfer_copy" THEN ErasedCache ELSE BlockValues
         /\ pc' \in TransferSteps =>
              StagedValues' = IF pc' = "xfer_copy" THEN ErasedCache ELSE BlockValues'
         /\ ~block.dirty => BlockValues = ErasedCache
         /\ ~block'.dirty => BlockValues' = ErasedCache
BY TablesNow, TablesNext DEF TablesAre, SwapWindow, TransferSteps

LEMMA XferFlushStep ==
  ASSUME MaxFaults = 0, Storable, Sound, Sound', Truthful, Watched, XferFlush
  PROVE  Truthful' /\ Simulated
<1> DEFINE h == ReadPage
<1>1. /\ pc = "xfer_flush" /\ pc \in TransferSteps \ SwapWindow
      /\ FlushBlock /\ pc' = "xfer_receiving" /\ pc' \in TransferSteps \ SwapWindow
      /\ oldPage' = h /\ op' = op /\ h \in RuntimePages
      /\ UNCHANGED <<status, cache, cacheDirty>> /\ ReadPage' = h
  BY SoundIs, XferFlushOrderly DEF XferFlush, TransferSteps, SwapWindow, ReadPage
<1>2. /\ HwaTyped /\ RamTyped /\ CleanPages /\ ValuesAt /\ StatusAt /\ StagedAt
      /\ HeadersAt /\ MirrorAt /\ CopyAt
  BY SoundIs DEF Orderly, Truthful
<1>3. h \in Pages /\ Other(h) \in RuntimePages /\ Other(h) \in Pages /\ Other(h) # h
      /\ h # "Factory"
  BY <1>1, PageNames
<1>4. CASE op # "init"
  <2>1. /\ Home /\ Staging /\ Mirrors /\ WritePage = h
        /\ StatusOf(flash[h]) = "Valid" /\ StatusOf(flash[Other(h)]) = "Formatted"
    BY <1>1, <1>2, <1>4, HomeIs DEF StatusAt, TransferAt, StagedAt, MirrorAt
  <2>2. /\ \A q \in Pages : StatusOf(flash'[q]) = StatusOf(flash[q])
        /\ \A q \in Pages : q # h => flash'[q] = flash[q]
        /\ Contents(flash'[h]) = Overlay(Contents(flash[h]), BlockValues)
        /\ BlockValues' = ErasedCache
    BY <1>1, <1>2, <2>1, Flushed, FlushedValues
  <2>3. HeadersAt'
    BY <1>1, <1>2, <1>3, <2>1, <2>2, PageNames, HeadersStay
  <2>4. CopyAt'
    <3>1. Contents(flash'[Other(h)]) = ErasedCache
      BY <1>1, <1>2, <1>3, <2>1, <2>2 DEF HeadersAt, HeaderOnly
    <3> QED BY <1>1, <1>4, <3>1 DEF CopyAt
  <2>5. Truthful'
    BY <1>1, <2>3, <2>4, TransferTruth
  <2>6. flash'["Factory"] = flash["Factory"]
    BY <1>3, <2>2, PageNames
  <2>7. Durable = Contents(flash[h]) /\ Durable' = Contents(flash'[h])
    BY <1>1, <1>3, <2>1, <2>2, SoundTables, TransferTables
  <2>8. StagedValues = BlockValues /\ StagedValues' = BlockValues'
    BY <1>1, TransferTables
  <2> QED BY <1>1, <2>2, <2>5, <2>6, <2>7, <2>8, TransferMoves, Drains
<1>5. CASE op = "init"
  <2>1. Resumed /\ ~block.dirty /\ cache = Contents(flash[h])
    BY <1>1, <1>2, <1>5 DEF StatusAt, TransferAt, StagedAt, CopyAt
  <2>2. PICK g \in RuntimePages : Serves(g, "Receiving") /\ IsBlank(Other(g))
    BY <2>1 DEF Resumed
  <2>3. g = h
    BY <2>2, ServingPages
  <2>4. flash' = flash /\ ~block'.dirty
    BY <1>1, <2>1, ErasedTypes DEF FlushBlock
  <2>5. HeadersAt'
    BY <1>1, <1>2, <2>4, SameHeaders
  <2>6. CopyAt'
    <3>1. Contents(flash'[Other(h)]) = ErasedCache
      BY <2>2, <2>3, <2>4, ErasedHoldsNothing DEF IsBlank
    <3> QED BY <1>1, <2>1, <2>4, <3>1 DEF CopyAt
  <2>7. Truthful'
    BY <1>1, <2>5, <2>6, TransferTruth
  <2>8. StagedValues = ErasedCache /\ StagedValues' = ErasedCache /\ Durable' = Durable
    BY <1>1, <2>1, <2>4, TransferTables
  <2> QED BY <1>1, <2>4, <2>7, <2>8, TransferMoves, Stutters
<1> QED BY <1>4, <1>5

\* The page that takes over is opened.
LEMMA XferReceivingStep ==
  ASSUME MaxFaults = 0, Storable, Sound, Sound', Truthful, Watched, XferReceiving
  PROVE  Truthful' /\ Simulated
<1> DEFINE new == Other(oldPage)
<1>1. /\ pc = "xfer_receiving" /\ pc \in TransferSteps \ SwapWindow
      /\ WritePageStatus(new, "Receiving")
      /\ pc' = "xfer_copy" /\ pc' \in TransferSteps \ SwapWindow
      /\ cursor' = 0 /\ UNCHANGED <<op, oldPage, cache, cacheDirty>>
  BY SoundIs, XferReceivingOrderly DEF XferReceiving, TransferSteps, SwapWindow
<1>2. /\ HwaTyped /\ RamTyped /\ CleanPages /\ ValuesAt /\ StatusAt
      /\ HeadersAt /\ CopyAt
      /\ oldPage \in RuntimePages /\ new \in RuntimePages /\ oldPage \in Pages
      /\ new \in Pages /\ new # oldPage /\ Other(new) = oldPage
  BY <1>1, SoundIs, TransferIs DEF Truthful
<1>3. /\ \E s \in {"Receiving", "Formatted"} : Serves(oldPage, s)
      /\ ~block.dirty /\ Contents(flash[new]) = ErasedCache
  BY <1>1, <1>2, SoundIs DEF StatusAt, TransferAt, IndInv, ClearSteps, CopyAt
<1>4. ReadPage = oldPage /\ status[oldPage] = "Valid" /\ StatusOf(flash[oldPage]) = "Valid"
  BY <1>2, <1>3, ServingPages DEF Serves, Current
<1>5. /\ StatusOf(flash'[new]) = "Receiving" /\ status'[new] = "Receiving" /\ ~block'.dirty
      /\ \A q \in Pages : q # new => flash'[q] = flash[q] /\ status'[q] = status[q]
  BY <1>1, <1>2, RecordWritten, PageNames
<1>6. \A q \in Pages : Contents(flash'[q]) = Contents(flash[q])
  BY <1>1, <1>2, RecordKeepsValues, PageNames
<1>7. status'[oldPage] = "Valid" /\ flash'[oldPage] = flash[oldPage]
      /\ flash'["Factory"] = flash["Factory"]
  BY <1>2, <1>4, <1>5, PageNames
<1>8. ReadPage' = oldPage /\ WritePage' = new
  BY <1>2, <1>5, <1>7 DEF ReadPage, WritePage, WritePageIn, RuntimePages, Other
<1>9. HeadersAt'
  BY <1>1, <1>2, <1>5, PageNames, HeadersStay
<1>10. /\ StagedValues = ErasedCache /\ StagedValues' = ErasedCache
       /\ BlockValues' = ErasedCache /\ Durable = TableIn(flash) /\ Durable' = TableIn(flash')
  BY <1>1, <1>3, <1>5, TransferTables
<1>11. CopyAt'
  <2>1. Overlay(Contents(flash'[new]), ErasedCache) = ErasedCache
    BY <1>2, <1>3, <1>6, EmptyIn, OverlayNothing
  <2>2. [a \in Addresses |-> IF a < 0 THEN cache[a] ELSE ERASED] = ErasedCache
    BY DEF ErasedCache, Addresses
  <2> QED BY <1>1, <1>2, <1>4, <1>6, <1>8, <1>10, <2>1, <2>2 DEF CopyAt
<1>12. Truthful'
  BY <1>1, <1>9, <1>11, TransferTruth
<1>13. Durable' = Durable
  BY <1>2, <1>4, <1>7, <1>10, SoundTables
<1> QED BY <1>1, <1>7, <1>10, <1>12, <1>13, TransferMoves, Stutters

\* What a copying transfer works on.
LEMMA CopyShows ==
  ASSUME Sound, Truthful, pc = "xfer_copy"
  PROVE  /\ HwaTyped /\ RamTyped /\ CleanPages /\ ValuesAt /\ HeadersAt /\ Staging
         /\ oldPage \in RuntimePages /\ oldPage \in Pages /\ oldPage # "Factory"
         /\ WritePage = Other(oldPage) /\ WritePage \in RuntimePages /\ WritePage \in Pages
         /\ WritePage # oldPage /\ WritePage # "Factory"
         /\ ReadPage = oldPage /\ StatusOf(flash[oldPage]) = "Valid"
         /\ StatusOf(flash[WritePage]) = "Receiving"
         /\ cursor \in Nat /\ cursor <= MaxAddress
         /\ Overlay(Contents(flash[WritePage]), BlockValues)
              = [a \in Addresses |-> IF a < cursor THEN cache[a] ELSE ERASED]
         /\ op = "init" => cache = Contents(flash[oldPage])
<1>1. /\ HwaTyped /\ RamTyped /\ CleanPages /\ Staging
      /\ oldPage \in RuntimePages /\ WritePage = Other(oldPage) /\ WritePage \in RuntimePages
      /\ Serves(oldPage, "Receiving") /\ StatusOf(flash[WritePage]) = "Receiving"
      /\ cursor \in Nat /\ cursor <= MaxAddress
  BY CopyingIs, SoundIs
<1>2. ReadPage = oldPage /\ StatusOf(flash[oldPage]) = "Valid"
  BY <1>1, ServingPages DEF Serves, Current
<1>3. HeadersAt /\ CopyAt /\ ValuesAt
  BY SoundIs DEF Truthful
<1> QED BY <1>1, <1>2, <1>3, PageNames DEF CopyAt

\* The mirror holds nothing between the cursor and the entry that is copied.
LEMMA XferCopyStep ==
  ASSUME MaxFaults = 0, Storable, Sound, Sound', Truthful, Watched, XferCopy
  PROVE  Truthful' /\ Simulated
<1> DEFINE m == Least(ToCopy)
           e == CopiedEntry
<1>1. /\ pc = "xfer_copy" /\ pc \in TransferSteps \ SwapWindow
      /\ AppendEntry(e) /\ cursor' = m + 1 /\ UNCHANGED <<pc, op, oldPage, status, cacheDirty>>
      /\ e \in Entries /\ e.address \in Addresses /\ ToCopy # {}
      /\ pc' = "xfer_copy" /\ pc' \in TransferSteps \ SwapWindow
  BY SoundIs, XferCopyOrderly DEF XferCopy, TransferSteps, SwapWindow
<1>2. /\ HwaTyped /\ RamTyped /\ CleanPages /\ ValuesAt /\ HeadersAt /\ Staging
      /\ oldPage \in RuntimePages /\ oldPage \in Pages /\ oldPage # "Factory"
      /\ WritePage = Other(oldPage) /\ WritePage \in RuntimePages /\ WritePage \in Pages
      /\ WritePage # oldPage /\ WritePage # "Factory"
      /\ ReadPage = oldPage /\ StatusOf(flash[oldPage]) = "Valid"
      /\ StatusOf(flash[WritePage]) = "Receiving" /\ cursor \in Nat
      /\ Overlay(Contents(flash[WritePage]), BlockValues)
           = [a \in Addresses |-> IF a < cursor THEN cache[a] ELSE ERASED]
      /\ op = "init" => cache = Contents(flash[oldPage])
  BY <1>1, CopyShows
<1>3. cache \in Tables /\ CleanPages' /\ ValuesAt'
  BY SoundIs DEF ValuesAt, Sound, Orderly
<1>4. /\ HoldsValue(e) /\ m \in ToCopy /\ \A a \in ToCopy : m <= a
      /\ e.address = m /\ e.value = cache[m]
  BY <1>1, <1>2, <1>3, CopiedEntryHolds DEF CopiedEntry, Entry
<1>5. m \in Addresses /\ m \in Nat /\ cursor <= m
      /\ \A a \in Addresses : cursor <= a /\ a < m => cache[a] = ERASED
  <2> HIDE DEF m
  <2>1. \A a \in Addresses : a \in ToCopy <=> (a >= cursor /\ cache[a] # ERASED)
    BY DEF ToCopy
  <2>2. m \in Addresses
    BY <1>4 DEF ToCopy
  <2>3. m \in Nat /\ cursor <= m
    BY <1>2, <1>4, <2>1, <2>2, UnusedAddresses
  <2>4. ASSUME NEW a \in Addresses, cursor <= a, a < m, cache[a] # ERASED
        PROVE  FALSE
    <3>1. a \in Nat /\ a >= cursor
      BY <1>2, <2>4, UnusedAddresses
    <3>2. m <= a
      BY <1>4, <2>1, <2>4, <3>1
    <3> QED BY <2>3, <2>4, <3>1, <3>2
  <2> QED BY <2>2, <2>3, <2>4
<1>6. cache' = cache
  BY <1>1, <1>3, <1>4, <1>5 DEF AppendEntry, Tables
<1>7. /\ \A q \in Pages : StatusOf(flash'[q]) = StatusOf(flash[q])
      /\ \A q \in Pages : q # WritePage => flash'[q] = flash[q]
      /\ WritePage' = WritePage /\ ReadPage' = ReadPage
  BY <1>1, <1>2, Appended DEF ReadPage
<1>8. HeadersAt'
  BY <1>1, <1>2, <1>7, PageNames, HeadersStay
<1>9. Overlay(Contents(flash'[WritePage]), BlockValues')
        = [a \in Addresses |-> IF a < m + 1 THEN cache[a] ELSE ERASED]
  <2>1. Overlay(Contents(flash'[WritePage]), BlockValues')
          = [Overlay(Contents(flash[WritePage]), BlockValues) EXCEPT ![m] = cache[m]]
    BY <1>1, <1>2, <1>3, <1>4, AppendedMirror
  <2> HIDE DEF m
  <2>2. \A a \in Addresses :
          [[x \in Addresses |-> IF x < cursor THEN cache[x] ELSE ERASED]
             EXCEPT ![m] = cache[m]][a]
            = IF a < m + 1 THEN cache[a] ELSE ERASED
    <3> TAKE a \in Addresses
    <3>1. a \in Nat
      BY UnusedAddresses
    <3>2. CASE a = m
      BY <1>5, <3>1, <3>2
    <3>3. CASE a # m
      <4>1. (a < m + 1) <=> (a < m)
        BY <1>5, <3>1, <3>3
      <4>2. a < cursor => a < m
        BY <1>2, <1>5, <3>1
      <4>3. ~(a < cursor) /\ a < m => cache[a] = ERASED
        BY <1>2, <1>5, <3>1
      <4> QED BY <3>3, <4>1, <4>2, <4>3
    <3> QED BY <3>2, <3>3
  <2> QED BY <1>2, <2>1, <2>2
<1>10. CopyAt'
  BY <1>1, <1>2, <1>6, <1>7, <1>9 DEF CopyAt
<1>11. Truthful'
  BY <1>1, <1>8, <1>10, TransferTruth DEF TransferSteps
<1>12. flash'["Factory"] = flash["Factory"]
  BY <1>2, <1>7, PageNames
<1>13. StagedValues = ErasedCache /\ StagedValues' = ErasedCache /\ Durable' = Durable
  BY <1>1, <1>2, <1>7, SoundTables, TransferTables
<1> QED BY <1>1, <1>6, <1>11, <1>12, <1>13, TransferMoves, Stutters

\* Everything is copied: the new page holds the mirror.
LEMMA XferCopiedStep ==
  ASSUME MaxFaults = 0, Storable, Sound, Sound', Truthful, Watched, XferCopied
  PROVE  Truthful' /\ Simulated
<1>1. /\ pc = "xfer_copy" /\ pc \in TransferSteps \ SwapWindow
      /\ FlushBlock /\ UNCHANGED <<op, oldPage, status, cache, cacheDirty>> /\ ToCopy = {}
      /\ pc' = "xfer_erase" /\ pc' \in TransferSteps \ SwapWindow
  BY SoundIs, XferCopiedOrderly DEF XferCopied, TransferSteps, SwapWindow
<1>2. /\ HwaTyped /\ RamTyped /\ CleanPages /\ ValuesAt /\ HeadersAt /\ Staging
      /\ oldPage \in RuntimePages /\ oldPage \in Pages /\ oldPage # "Factory"
      /\ WritePage = Other(oldPage) /\ WritePage \in RuntimePages /\ WritePage \in Pages
      /\ WritePage # oldPage /\ WritePage # "Factory"
      /\ ReadPage = oldPage /\ StatusOf(flash[oldPage]) = "Valid"
      /\ StatusOf(flash[WritePage]) = "Receiving" /\ cursor \in Nat
      /\ Overlay(Contents(flash[WritePage]), BlockValues)
           = [a \in Addresses |-> IF a < cursor THEN cache[a] ELSE ERASED]
      /\ op = "init" => cache = Contents(flash[oldPage])
  BY <1>1, CopyShows
<1>3. /\ \A q \in Pages : StatusOf(flash'[q]) = StatusOf(flash[q])
      /\ \A q \in Pages : q # WritePage => flash'[q] = flash[q]
      /\ Contents(flash'[WritePage]) = Overlay(Contents(flash[WritePage]), BlockValues)
      /\ BlockValues' = ErasedCache /\ ReadPage' = ReadPage
  BY <1>1, <1>2, Flushed, FlushedValues DEF ReadPage
<1>4. Contents(flash'[WritePage]) = cache
  <2>1. cache \in Tables
    BY <1>2 DEF ValuesAt
  <2>2. \A a \in Addresses : (IF a < cursor THEN cache[a] ELSE ERASED) = cache[a]
    <3> TAKE a \in Addresses
    <3>1. a \notin ToCopy
      BY <1>1
    <3>2. ~(a >= cursor /\ cache[a] # ERASED)
      BY <3>1 DEF ToCopy
    <3>3. a \in Nat /\ (a < cursor \/ a >= cursor)
      BY <1>2, UnusedAddresses
    <3> QED BY <3>2, <3>3
  <2>3. [a \in Addresses |-> IF a < cursor THEN cache[a] ELSE ERASED] = cache
    BY <2>1, <2>2 DEF Tables
  <2> QED BY <1>2, <1>3, <2>3
<1>5. HeadersAt'
  BY <1>1, <1>2, <1>3, PageNames, HeadersStay
<1>6. CopyAt'
  BY <1>1, <1>2, <1>3, <1>4 DEF CopyAt
<1>7. Truthful'
  BY <1>1, <1>5, <1>6, TransferTruth
<1>8. flash'["Factory"] = flash["Factory"]
  BY <1>2, <1>3, PageNames
<1>9. StagedValues = ErasedCache /\ StagedValues' = ErasedCache /\ Durable' = Durable
  BY <1>1, <1>2, <1>3, SoundTables, TransferTables
<1> QED BY <1>1, <1>7, <1>8, <1>9, TransferMoves, Stutters

\* The old page goes: from here on the new one is what counts, and what callers
\* see is durable.
LEMMA XferEraseStep ==
  ASSUME MaxFaults = 0, Storable, Sound, Sound', Truthful, Watched, XferErase
  PROVE  Truthful' /\ Simulated
<1> DEFINE new == Other(oldPage)
<1>1. /\ pc = "xfer_erase" /\ pc \in TransferSteps \ SwapWindow
      /\ Erase(oldPage) /\ UNCHANGED <<op, oldPage, ram, cache, status, block>>
      /\ pc' = "xfer_formatted" /\ pc' \in TransferSteps /\ pc' \in SwapWindow
  BY SoundIs, XferEraseOrderly DEF XferErase, TransferSteps, SwapWindow, ram
<1>2. /\ HwaTyped /\ RamTyped /\ CleanPages /\ ValuesAt /\ StatusAt
      /\ HeadersAt /\ CopyAt
      /\ oldPage \in RuntimePages /\ new \in RuntimePages /\ oldPage \in Pages
      /\ new \in Pages /\ new # oldPage /\ oldPage # "Factory"
  BY <1>1, SoundIs, TransferIs DEF Truthful
<1>3. Serves(oldPage, "Receiving") /\ ~block.dirty /\ Contents(flash[new]) = cache
  BY <1>1, <1>2, SoundIs DEF StatusAt, TransferAt, IndInv, ClearSteps, CopyAt
<1>4. ReadPage = oldPage /\ StatusOf(flash[oldPage]) = "Valid"
  BY <1>2, <1>3, ServingPages DEF Serves, Current
<1>5. flash'[oldPage] = ErasedLog /\ \A q \in Pages : q # oldPage => flash'[q] = flash[q]
  BY <1>1, <1>2, PageErased
<1>6. HeadersAt'
  BY <1>1, <1>2, <1>5, ErasedHoldsNothing, PageNames, HeadersStay
<1>7. CopyAt'
  BY <1>1, <1>2, <1>3, <1>5 DEF CopyAt
<1>8. Truthful'
  BY <1>1, <1>6, <1>7, TransferTruth
<1>9. flash'["Factory"] = flash["Factory"]
  BY <1>2, <1>5, PageNames
<1>10. /\ StagedValues = ErasedCache /\ StagedValues' = ErasedCache
       /\ Durable = Contents(flash[oldPage]) /\ Durable' = cache
  BY <1>1, <1>2, <1>3, <1>4, <1>5, SoundTables, TransferTables
<1>11. CASE op # "init"
  BY <1>1, <1>8, <1>9, <1>10, <1>11, TransferMoves, Syncs
<1>12. CASE op = "init"
  <2>1. cache = Contents(flash[oldPage])
    BY <1>1, <1>2, <1>4, <1>12 DEF CopyAt
  <2> QED BY <1>1, <1>8, <1>9, <1>10, <1>12, <2>1, TransferMoves, Stutters
<1> QED BY <1>11, <1>12

LEMMA XferFormattedStep ==
  ASSUME MaxFaults = 0, Storable, Sound, Sound', Truthful, Watched, XferFormatted
  PROVE  Truthful' /\ Simulated
<1> DEFINE new == Other(oldPage)
<1>1. /\ pc = "xfer_formatted" /\ pc \in TransferSteps /\ pc \in SwapWindow
      /\ WritePageStatus(oldPage, "Formatted")
      /\ UNCHANGED <<op, oldPage, cache, cacheDirty>>
      /\ pc' = "xfer_valid" /\ pc' \in TransferSteps /\ pc' \in SwapWindow
  BY SoundIs, XferFormattedOrderly
     DEF XferFormatted, XferStatus, TransferSteps, SwapWindow
<1>2. /\ HwaTyped /\ RamTyped /\ CleanPages /\ ValuesAt /\ StatusAt
      /\ HeadersAt /\ CopyAt
      /\ oldPage \in RuntimePages /\ new \in RuntimePages /\ oldPage \in Pages
      /\ new \in Pages /\ new # oldPage /\ oldPage # "Factory"
  BY <1>1, SoundIs, TransferIs DEF Truthful
<1>3. IsBlank(oldPage) /\ ~block.dirty /\ Contents(flash[new]) = cache
  BY <1>1, <1>2, SoundIs DEF StatusAt, TransferAt, IndInv, ClearSteps, CopyAt
<1>4. /\ ~block'.dirty
      /\ \A q \in Pages : q # oldPage => flash'[q] = flash[q]
      /\ \A q \in Pages : Contents(flash'[q]) = Contents(flash[q])
  BY <1>1, <1>2, RecordWritten, RecordKeepsValues, PageNames
<1>5. Contents(flash'[oldPage]) = ErasedCache
  BY <1>2, <1>3, <1>4, ErasedHoldsNothing DEF IsBlank
<1>6. HeadersAt'
  BY <1>1, <1>2, <1>4, <1>5, PageNames, HeadersStay
<1>7. CopyAt'
  BY <1>1, <1>2, <1>3, <1>4 DEF CopyAt
<1>8. Truthful'
  BY <1>1, <1>6, <1>7, TransferTruth
<1>9. flash'["Factory"] = flash["Factory"]
  BY <1>2, <1>4, PageNames
<1>10. StagedValues' = StagedValues /\ Durable' = Durable
  BY <1>1, <1>2, <1>3, <1>4, TransferTables
<1> QED BY <1>1, <1>8, <1>9, <1>10, TransferMoves, Stutters

\* The new page takes over.
LEMMA XferValidStep ==
  ASSUME MaxFaults = 0, Storable, Sound, Sound', Truthful, Watched, XferValid
  PROVE  Truthful' /\ Simulated
<1> DEFINE new == Other(oldPage)
<1>1. /\ pc = "xfer_valid" /\ pc \in TransferSteps /\ pc \in SwapWindow
      /\ WritePageStatus(new, "Valid")
      /\ UNCHANGED <<op, oldPage, cache, cacheDirty>>
      /\ pc' = "xfer_reload" /\ pc' \in TransferSteps \ SwapWindow
  BY SoundIs, XferValidOrderly DEF XferValid, XferStatus, TransferSteps, SwapWindow
<1>2. /\ HwaTyped /\ RamTyped /\ CleanPages /\ ValuesAt /\ StatusAt
      /\ HeadersAt /\ CopyAt
      /\ oldPage \in RuntimePages /\ new \in RuntimePages /\ oldPage \in Pages
      /\ new \in Pages /\ new # oldPage /\ new # "Factory"
  BY <1>1, SoundIs, TransferIs, PageNames DEF Truthful
<1>3. status[oldPage] = "Formatted" /\ ~block.dirty /\ Contents(flash[new]) = cache
  BY <1>1, <1>2, SoundIs DEF StatusAt, TransferAt, IndInv, ClearSteps, CopyAt
<1>4. /\ StatusOf(flash'[new]) = "Valid" /\ status'[new] = "Valid" /\ ~block'.dirty
      /\ \A q \in Pages : q # new => flash'[q] = flash[q] /\ status'[q] = status[q]
      /\ \A q \in Pages : Contents(flash'[q]) = Contents(flash[q])
  BY <1>1, <1>2, RecordWritten, RecordKeepsValues, PageNames
<1>5. ReadPage' = new
  <2>1. status'[oldPage] = "Formatted"
    BY <1>2, <1>3, <1>4
  <2> QED BY <1>2, <1>4, <2>1 DEF ReadPage, RuntimePages, Other
<1>6. HeadersAt'
  BY <1>1, <1>2, <1>4, PageNames, HeadersStay
<1>7. CopyAt'
  BY <1>1, <1>2, <1>3, <1>4, <1>5 DEF CopyAt
<1>8. Truthful'
  BY <1>1, <1>6, <1>7, TransferTruth
<1>9. flash'["Factory"] = flash["Factory"]
  BY <1>2, <1>4, PageNames
<1>10. Durable = Contents(flash[new]) /\ Durable' = Contents(flash'[new])
       /\ StagedValues' = StagedValues
  BY <1>1, <1>2, <1>3, <1>4, SoundTables, TransferTables
<1> QED BY <1>1, <1>2, <1>4, <1>8, <1>9, <1>10, TransferMoves, Stutters

\* A mirror that was rebuilt holds the table of its page, and nothing waits.
LEMMA Refreshed ==
  ASSUME Sound, Sound', Truthful, Reload, Home, pc # "restore_copy"
  PROVE  /\ UNCHANGED <<flash, status>> /\ cache' = Contents(flash[ReadPage])
         /\ HeadersAt' /\ Mirrors' /\ Settled'
         /\ TableIn(flash) = cache'
         /\ BlockValues' = ErasedCache
<1>1. /\ UNCHANGED <<flash, status>> /\ cache' = Contents(flash[ReadPage])
      /\ cacheDirty' = FALSE /\ block' = ClearedBlock
  BY DEF Reload
<1>2. Settled' /\ BlockValues' = ErasedCache
  BY <1>1, ErasedTypes DEF Settled, BlockValues
<1>3. HeadersAt'
  BY <1>1, SameHeaders DEF Truthful
<1>4. ReadPage \in RuntimePages /\ StatusOf(flash[ReadPage]) = "Valid"
  BY HomeIs
<1>5. TableIn(flash) = cache' /\ Contents(flash[ReadPage]) \in Tables
  BY <1>1, <1>4, SoundTables, PageNames
<1>6. Overlay(Contents(flash'[ReadPage']), BlockValues') = cache'
  <2>1. ReadPage' = ReadPage
    BY <1>1 DEF ReadPage
  <2> QED BY <1>1, <1>2, <1>5, <2>1, OverlayNothing
<1>7. Mirrors'
  BY <1>6 DEF Mirrors
<1> QED BY <1>1, <1>2, <1>3, <1>5, <1>7

\* The mirror may be whatever it is when it matches: no step of a transfer, a
\* format, or a restore is running.
LEMMA ServingTruth ==
  ASSUME HeadersAt', Mirrors', Settled',
         pc' \in {"idle", "write_again", "flush_block"}
  PROVE  Truthful'
<1>1. MirrorAt'
  BY DEF MirrorAt, Settled
<1>2. CopyAt' /\ WipeAt' /\ RestoreAt'
  BY DEF CopyAt, WipeAt, RestoreAt
<1> QED BY <1>1, <1>2 DEF Truthful

LEMMA XferReloadStep ==
  ASSUME MaxFaults = 0, Storable, Sound, Sound', Truthful, Watched, XferReload
  PROVE  Truthful' /\ Simulated
<1>1. /\ pc = "xfer_reload" /\ pc \in TransferSteps \ SwapWindow /\ Reload
  BY SoundIs, XferReloadOrderly DEF XferReload, TransferSteps, SwapWindow
<1>2. Home /\ CallsAt /\ ~block.dirty
  BY <1>1, SoundIs DEF Orderly, StatusAt, HomeSteps, IndInv, ClearSteps
<1>3. /\ op' = op
      /\ \/ op = "write" /\ pc' = "write_again"
         \/ op \in {"flush", "store_to_factory"} /\ pc' = "flush_block"
         \/ op \notin {"write", "flush", "store_to_factory"} /\ pc' = "idle"
  <2>1. ~ReloadFails
    BY SoundIs, XferReloadOrderly
  <2>2. Return("Ok") \/ UNCHANGED <<locals, result>> => op' = op
    BY DEF Return, locals
  <2>3. Return("Ok") => pc' = "idle"
    BY DEF Return
  <2> QED BY <2>1, <2>2, <2>3 DEF XferReload
<1>4. /\ UNCHANGED <<flash, status>> /\ cache' = Contents(flash[ReadPage])
      /\ HeadersAt' /\ Mirrors' /\ Settled'
      /\ TableIn(flash) = cache' /\ BlockValues' = ErasedCache
  BY <1>1, <1>2, Refreshed
<1>5. Truthful'
  BY <1>3, <1>4, ServingTruth
<1>6. cache' = cache
  BY <1>1, <1>4 DEF Truthful, CopyAt
<1>7. /\ StagedValues = ErasedCache /\ StagedValues' = ErasedCache
      /\ Durable = TableIn(flash) /\ Durable' = TableIn(flash')
  <2>1. StagedValues = ErasedCache /\ Durable = TableIn(flash)
    BY <1>1, <1>2, TablesNow DEF TablesAre, SwapWindow
  <2>2. StagedValues' = BlockValues' /\ Durable' = TableIn(flash')
    BY <1>3, TablesNext DEF TablesAre, SwapWindow
  <2> QED BY <1>4, <2>1, <2>2
<1>8. FactoryTable' = FactoryTable
  BY <1>1, <1>3, <1>4 DEF FactoryTable
<1>9. /\ op = "init" => AbstractMode = "off" /\ Visible = ErasedCache
      /\ op # "init" => AbstractMode = "serving" /\ Visible = cache
  BY <1>1, <1>2, TransferShows
<1>10. AbstractMode' = "serving" /\ Visible' = cache'
  <2>1. ~InitSteps' /\ ~FormatSteps' /\ ~RestoreSteps'
    BY <1>1, <1>2, <1>3 DEF CallsAt, InitSteps, FormatSteps, RestoreSteps, TransferSteps
  <2> QED BY <2>1, ModeNext DEF ModeIs
<1>11. CASE op = "init"
  BY <1>4, <1>5, <1>7, <1>8, <1>9, <1>10, <1>11, Starts
<1>12. CASE op # "init"
  BY <1>4, <1>5, <1>6, <1>7, <1>8, <1>9, <1>10, <1>12, Stutters
<1> QED BY <1>11, <1>12

LEMMA TransfersSimulated ==
  ASSUME MaxFaults = 0, Storable, Sound, Sound', Truthful, Watched, TransferStep
  PROVE  Truthful' /\ Simulated
BY XferFlushStep, XferReceivingStep, XferCopyStep, XferCopiedStep, XferEraseStep,
   XferFormattedStep, XferValidStep, XferReloadStep DEF TransferStep

-----------------------------------------------------------------------------
(* flush() and store_to_factory().                                           *)

LEMMA ServingShows ==
  ASSUME Sound, pc \in {"flush_block", "store_erase", "store_copy"}
  PROVE  /\ op \in {"flush", "store_to_factory"}
         /\ AbstractMode = "serving" /\ Visible = cache
         /\ StagedValues = BlockValues /\ Durable = TableIn(flash)
<1>1. op \in {"flush", "store_to_factory"}
  BY DEF Sound, CallsAt
<1>2. AbstractMode = "serving" /\ Visible = cache
  BY <1>1, ModeNow DEF ModeIs, InitSteps, FormatSteps, RestoreSteps
<1> QED BY <1>1, <1>2, TablesNow DEF TablesAre, SwapWindow

LEMMA ServesOn ==
  ASSUME pc' \in {"idle", "store_erase", "store_copy"},
         op' \in {"flush", "store_to_factory"}
  PROVE  /\ AbstractMode' = "serving" /\ Visible' = cache'
         /\ StagedValues' = BlockValues' /\ Durable' = TableIn(flash')
<1>1. AbstractMode' = "serving" /\ Visible' = cache'
  BY ModeNext DEF ModeIs, InitSteps, FormatSteps, RestoreSteps
<1> QED BY <1>1, TablesNext DEF TablesAre, SwapWindow

LEMMA FlushPendingStep ==
  ASSUME MaxFaults = 0, Storable, Sound, Sound', Truthful, Watched, FlushPending
  PROVE  Truthful' /\ Simulated
<1> DEFINE h == ReadPage
<1>1. /\ pc = "flush_block" /\ FlushBlock /\ UNCHANGED <<status, cache, cacheDirty>>
  BY SoundIs, FlushPendingOrderly DEF FlushPending
<1>2. /\ HwaTyped /\ RamTyped /\ CleanPages /\ ValuesAt /\ Home /\ Staging
      /\ HeadersAt /\ Mirrors /\ ~cacheDirty
  BY <1>1, SoundIs, IdleIs DEF Truthful, MirrorAt, MirrorSteps
<1>3. op' = op /\ pc' \in {"idle", "store_erase"}
  BY <1>1 DEF FlushPending, Return, FlushBlockFails, locals
<1>4. /\ h \in RuntimePages /\ WritePage = h /\ h \in Pages /\ h # "Factory"
      /\ StatusOf(flash[h]) = "Valid" /\ ReadPage' = h
  BY <1>1, <1>2, HomeIs, PageNames DEF ReadPage
<1>5. /\ \A q \in Pages : StatusOf(flash'[q]) = StatusOf(flash[q])
      /\ \A q \in Pages : q # h => flash'[q] = flash[q]
      /\ Contents(flash'[h]) = Overlay(Contents(flash[h]), BlockValues)
      /\ BlockValues' = ErasedCache /\ ~block'.dirty
  BY <1>1, <1>2, <1>4, Flushed, FlushedValues
<1>6. HeadersAt'
  BY <1>1, <1>2, <1>4, <1>5, PageNames, HeadersStay
<1>7. Mirrors' /\ Settled'
  <2>1. Contents(flash'[h]) \in Tables
    BY <1>4, SoundTables
  <2>2. Overlay(Contents(flash'[h]), BlockValues')
          = Overlay(Contents(flash[h]), BlockValues)
    BY <1>5, <2>1, OverlayNothing
  <2> QED BY <1>1, <1>2, <1>4, <1>5, <2>2 DEF Mirrors, Settled
<1>8. Truthful'
  <2>1. MirrorAt'
    BY <1>3, <1>7 DEF MirrorAt
  <2>2. CopyAt' /\ WipeAt' /\ RestoreAt'
    BY <1>3 DEF CopyAt, WipeAt, RestoreAt
  <2> QED BY <1>6, <2>1, <2>2 DEF Truthful
<1>9. Durable = Contents(flash[h]) /\ TableIn(flash') = Contents(flash'[h])
  BY <1>1, <1>4, <1>5, SoundTables, ServingShows
<1>10. FactoryTable' = FactoryTable
  <2>1. flash'["Factory"] = flash["Factory"]
    BY <1>4, <1>5, PageNames
  <2> QED BY <1>1, <1>3, <2>1 DEF FactoryTable
<1> QED BY <1>1, <1>3, <1>5, <1>8, <1>9, <1>10, ServingShows, ServesOn, Drains

\* While store_to_factory() copies, everything callers see stays.
LEMMA FactoryTruth ==
  ASSUME Truthful, pc \in {"store_erase", "store_copy"},
         pc' \in {"store_copy", "idle"}, op' = op, op = "store_to_factory",
         \A q \in RuntimePages : flash'[q] = flash[q] /\ status'[q] = status[q],
         ReadPage \in RuntimePages, UNCHANGED <<cache, cacheDirty, block>>
  PROVE  Truthful'
<1>1. HeadersAt'
  BY DEF Truthful, HeadersAt
<1>2. Mirrors'
  <2>1. ReadPage' = ReadPage /\ BlockValues' = BlockValues
    BY DEF ReadPage, BlockValues, RuntimePages
  <2>2. Mirrors
    BY DEF Truthful, MirrorAt, MirrorSteps
  <2>3. flash'[ReadPage] = flash[ReadPage]
    OBVIOUS
  <2> QED BY <2>1, <2>2, <2>3 DEF Mirrors
<1>3. MirrorAt'
  BY <1>2 DEF MirrorAt, MirrorSteps
<1>4. CopyAt' /\ WipeAt' /\ RestoreAt'
  BY DEF CopyAt, WipeAt, RestoreAt
<1> QED BY <1>1, <1>3, <1>4 DEF Truthful

LEMMA SameTables ==
  ASSUME \A q \in RuntimePages : flash'[q] = flash[q]
  PROVE  TableIn(flash') = TableIn(flash)
<1> DEFINE Valids(f) == {p \in RuntimePages : StatusOf(f[p]) = "Valid"}
           Any(T) == CHOOSE table \in T : TRUE
           Found(valid, f) == IF Cardinality(valid) = 1 /\ \A p \in valid : Decodes(f[p])
                              THEN Any({Contents(f[p]) : p \in valid})
                              ELSE ErasedCache
           v == Valids(flash)
<1>1. TableIn(flash') = Found(Valids(flash'), flash') /\ TableIn(flash) = Found(v, flash)
  BY DEF TableIn
<1>2. Valids(flash') = v /\ \A p \in v : flash'[p] = flash[p]
  OBVIOUS
<1>3. Found(v, flash') = Found(v, flash)
  <2> HIDE DEF v, Any
  <2>1. {Contents(flash'[p]) : p \in v} = {Contents(flash[p]) : p \in v}
    BY <1>2
  <2>2. (\A p \in v : Decodes(flash'[p])) <=> (\A p \in v : Decodes(flash[p]))
    BY <1>2
  <2>3. Any({Contents(flash'[p]) : p \in v}) = Any({Contents(flash[p]) : p \in v})
    BY <2>1
  <2> QED BY <2>2, <2>3
<1> HIDE DEF Found, v, Valids
<1> QED BY <1>1, <1>2, <1>3

LEMMA StoreEraseStep ==
  ASSUME MaxFaults = 0, Storable, Sound, Sound', Truthful, Watched, StoreErase
  PROVE  Truthful' /\ Simulated
<1>1. /\ pc = "store_erase" /\ Erase("Factory") /\ pc' = "store_copy"
      /\ UNCHANGED <<cache, cacheDirty, next, block>>
  BY SoundIs, StoreEraseOrderly DEF StoreErase
<1>2. op' = op /\ status' = [status EXCEPT !["Factory"] = ERASED]
  BY <1>1 DEF StoreErase, Return
<1>3. /\ HwaTyped /\ RamTyped /\ CleanPages /\ ReadPage \in RuntimePages
      /\ op = "store_to_factory"
  BY <1>1, SoundIs, IdleIs, HomeIs DEF CallsAt
<1>4. \A q \in RuntimePages : flash'[q] = flash[q] /\ status'[q] = status[q]
  <2>1. \A q \in Pages : q # "Factory" => flash'[q] = flash[q]
    BY <1>1, <1>3, PageErased, PageNames
  <2> QED BY <1>2, <1>3, <2>1, PageNames DEF RamTyped
<1>5. Truthful'
  BY <1>1, <1>2, <1>3, <1>4, FactoryTruth
<1>6. FactoryTable' = NoTable
  BY <1>1 DEF FactoryTable
<1>7. BlockValues' = BlockValues
  BY <1>1 DEF BlockValues
<1>8. TableIn(flash') = TableIn(flash)
  BY <1>4, SameTables
<1> QED BY <1>1, <1>2, <1>3, <1>5, <1>6, <1>7, <1>8, ServingShows, ServesOn, DropsSnapshot

LEMMA StoreCopyStep ==
  ASSUME MaxFaults = 0, Storable, Sound, Sound', Truthful, Watched, StoreCopy
  PROVE  Truthful' /\ Simulated
<1>1. /\ pc = "store_copy" /\ pc' = "store_copy" /\ op' = op
      /\ UNCHANGED <<status, cache, cacheDirty, block>>
      /\ \A q \in Pages : q # "Factory" => flash'[q] = flash[q]
  BY SoundIs, StoreCopyOrderly DEF StoreCopy, ram
<1>2. op = "store_to_factory" /\ ReadPage \in RuntimePages
  BY <1>1, SoundIs, HomeIs DEF CallsAt, Orderly, StatusAt, HomeSteps
<1>3. \A q \in RuntimePages : flash'[q] = flash[q] /\ status'[q] = status[q]
  BY <1>1, PageNames
<1>4. Truthful'
  BY <1>1, <1>2, <1>3, FactoryTruth
<1>5. FactoryTable = NoTable /\ FactoryTable' = NoTable
  BY <1>1 DEF FactoryTable
<1>6. BlockValues' = BlockValues
  BY <1>1 DEF BlockValues
<1>7. TableIn(flash') = TableIn(flash)
  BY <1>3, SameTables
<1> QED BY <1>1, <1>2, <1>4, <1>5, <1>6, <1>7, ServingShows, ServesOn, Stutters

LEMMA StoreDoneStep ==
  ASSUME MaxFaults = 0, Storable, Sound, Sound', Truthful, Watched, StoreDone
  PROVE  Truthful' /\ Simulated
<1> DEFINE h == ReadPage
<1>1. /\ pc = "store_copy" /\ pc' = "idle" /\ op' = op
      /\ UNCHANGED <<flash, cache, cacheDirty, block>>
      /\ status' = [status EXCEPT !["Factory"] = status[ReadPage]]
      /\ flash["Factory"] = flash[h]
  BY SoundIs, StoreDoneOrderly DEF StoreDone, Return
<1>2. op = "store_to_factory" /\ h \in RuntimePages /\ RamTyped
      /\ StatusOf(flash[h]) = "Valid"
  BY <1>1, SoundIs, HomeIs DEF CallsAt, Orderly, StatusAt, HomeSteps
<1>3. \A q \in RuntimePages : flash'[q] = flash[q] /\ status'[q] = status[q]
  BY <1>1, <1>2, PageNames DEF RamTyped
<1>4. Truthful'
  BY <1>1, <1>2, <1>3, FactoryTruth
<1>5. FactoryTable' = Contents(flash[h])
  BY <1>1, <1>2 DEF FactoryTable
<1>6. BlockValues' = BlockValues
  BY <1>1 DEF BlockValues
<1>7. TableIn(flash) = Contents(flash[h])
  BY <1>2, SoundTables
<1> QED BY <1>1, <1>2, <1>4, <1>5, <1>6, <1>7, ServingShows, ServesOn, TakesSnapshot

\* A page that is erased takes its table with it, or held none.
LEMMA ErasedTable ==
  ASSUME Sound, Sound', NEW p \in RuntimePages, flash'[p] = ErasedLog,
         \A q \in Pages : q # p => flash'[q] = flash[q]
  PROVE  /\ TableIn(flash') \in {TableIn(flash), ErasedCache}
         /\ StatusOf(flash'[p]) # "Valid"
<1>1. StatusOf(flash'[p]) # "Valid"
  BY Unmarked
<1>2. /\ Other(p) \in RuntimePages /\ flash'[Other(p)] = flash[Other(p)]
      /\ \A q \in RuntimePages : q = p \/ q = Other(p)
  BY PageNames
<1>3. CASE StatusOf(flash[Other(p)]) = "Valid"
  <2>1. /\ TableIn(flash) = Contents(flash[Other(p)])
        /\ TableIn(flash') = Contents(flash'[Other(p)])
    BY <1>2, <1>3, SoundTables
  <2> QED BY <1>1, <1>2, <2>1
<1>4. CASE StatusOf(flash[Other(p)]) # "Valid"
  <2>1. \A q \in RuntimePages : StatusOf(flash'[q]) # "Valid"
    BY <1>1, <1>2, <1>4
  <2> QED BY <1>1, <2>1, FoundNothing
<1> QED BY <1>3, <1>4

-----------------------------------------------------------------------------
(* restore_from_factory().                                                   *)

RestorePoints == {"restore_erase1", "restore_erase2", "restore_copy", "restore_formatted"}

LEMMA RestoreShows ==
  ASSUME Sound, Truthful,
         pc \in RestorePoints \/ (pc = "reload" /\ op = "restore_from_factory")
  PROVE  /\ op = "restore_from_factory" /\ ~block.dirty
         /\ AbstractMode = "restoring" /\ Visible = cache
         /\ StagedValues = ErasedCache
         /\ Durable = IF pc = "restore_copy" THEN ErasedCache ELSE TableIn(flash)
         /\ StatusOf(flash["Factory"]) = "Valid"
         /\ FactoryTable = Contents(flash["Factory"])
<1>1. op = "restore_from_factory" /\ ~block.dirty
  BY SoundIs DEF CallsAt, RestorePoints, IndInv, ClearSteps
<1>2. AbstractMode = "restoring" /\ Visible = cache
  BY <1>1, ModeNow DEF ModeIs, InitSteps, RestoreSteps, RestorePoints
<1>3. StatusOf(flash["Factory"]) = "Valid"
  BY <1>1 DEF Truthful, RestoreAt, RestorePoints
<1>4. /\ StagedValues = ErasedCache /\ FactoryTable = Contents(flash["Factory"])
      /\ Durable = IF pc = "restore_copy" THEN ErasedCache ELSE TableIn(flash)
  BY <1>1, <1>3, TablesNow DEF TablesAre, SwapWindow, RestorePoints
<1> QED BY <1>1, <1>2, <1>3, <1>4

LEMMA RestoresOn ==
  ASSUME Sound', op' = "restore_from_factory",
         pc' \in {"restore_erase2", "restore_copy", "restore_formatted", "reload"},
         StatusOf(flash'["Factory"]) = "Valid"
  PROVE  /\ AbstractMode' = "restoring" /\ Visible' = cache' /\ StagedValues' = ErasedCache
         /\ Durable' = IF pc' = "restore_copy" THEN ErasedCache ELSE TableIn(flash')
         /\ FactoryTable' = Contents(flash'["Factory"])
<1>1. ~block'.dirty
  BY DEF Sound, IndInv, ClearSteps
<1>2. AbstractMode' = "restoring" /\ Visible' = cache'
  BY ModeNext DEF ModeIs, InitSteps, RestoreSteps
<1>3. /\ StagedValues' = ErasedCache /\ FactoryTable' = Contents(flash'["Factory"])
      /\ Durable' = IF pc' = "restore_copy" THEN ErasedCache ELSE TableIn(flash')
  BY <1>1, TablesNext DEF TablesAre, SwapWindow
<1> QED BY <1>2, <1>3

LEMMA RestoreTruth ==
  ASSUME HeadersAt', RestoreAt', op' = "restore_from_factory",
         pc' \in {"restore_erase2", "restore_copy", "restore_formatted", "reload"}
  PROVE  Truthful'
<1>1. MirrorAt' /\ CopyAt' /\ WipeAt'
  BY DEF MirrorAt, MirrorSteps, CopyAt, WipeAt
<1> QED BY <1>1 DEF Truthful

LEMMA RestoreErase1Step ==
  ASSUME MaxFaults = 0, Storable, Sound, Sound', Truthful, Watched, RestoreErase1
  PROVE  Truthful' /\ Simulated
<1>1. /\ HwaTyped /\ RamTyped /\ CleanPages /\ HeadersAt
      /\ EraseStep("restore_erase1", "Page1", "restore_erase2") /\ cache' = cache
  BY SoundIs DEF Truthful, RestoreErase1
<1>2. /\ pc = "restore_erase1" /\ pc' = "restore_erase2" /\ op' = op
      /\ flash'["Page1"] = ErasedLog /\ \A q \in Pages : q # "Page1" => flash'[q] = flash[q]
  BY <1>1, EraseStepIs, PageNames DEF locals
<1>3. HeadersAt'
  BY <1>1, <1>2, ErasedHoldsNothing, PageNames, HeadersStay
<1>4. /\ op = "restore_from_factory" /\ AbstractMode = "restoring" /\ Visible = cache
      /\ StagedValues = ErasedCache /\ Durable = TableIn(flash)
      /\ StatusOf(flash["Factory"]) = "Valid" /\ FactoryTable = Contents(flash["Factory"])
  BY <1>2, RestoreShows DEF RestorePoints
<1>5. flash'["Factory"] = flash["Factory"]
  BY <1>2, PageNames
<1>6. Truthful'
  BY <1>2, <1>3, <1>4, <1>5, RestoreTruth DEF RestoreAt
<1>7. TableIn(flash') \in {TableIn(flash), ErasedCache}
  BY <1>2, ErasedTable, PageNames
<1> QED BY <1>1, <1>2, <1>4, <1>5, <1>6, <1>7, RestoresOn, Refills

LEMMA RestoreErase2Step ==
  ASSUME MaxFaults = 0, Storable, Sound, Sound', Truthful, Watched, RestoreErase2
  PROVE  Truthful' /\ Simulated
<1>1. /\ HwaTyped /\ CleanPages /\ HeadersAt /\ pc = "restore_erase2"
      /\ Erase("Page2") /\ pc' = "restore_copy" /\ op' = op /\ cache' = ErasedCache
  BY SoundIs, RestoreErase2Orderly DEF Truthful, RestoreErase2
<1>2. flash'["Page2"] = ErasedLog /\ \A q \in Pages : q # "Page2" => flash'[q] = flash[q]
  BY <1>1, PageErased, PageNames
<1>3. HeadersAt'
  BY <1>1, <1>2, ErasedHoldsNothing, PageNames, HeadersStay
<1>4. /\ op = "restore_from_factory" /\ AbstractMode = "restoring" /\ Visible = cache
      /\ StagedValues = ErasedCache
      /\ StatusOf(flash["Factory"]) = "Valid" /\ FactoryTable = Contents(flash["Factory"])
  BY <1>1, RestoreShows DEF RestorePoints
<1>5. flash'["Factory"] = flash["Factory"]
  BY <1>2, PageNames
<1>6. Truthful'
  BY <1>1, <1>3, <1>4, <1>5, RestoreTruth DEF RestoreAt
<1> QED BY <1>1, <1>4, <1>5, <1>6, RestoresOn, Refills

LEMMA RestoreCopyStep ==
  ASSUME MaxFaults = 0, Storable, Sound, Sound', Truthful, Watched, RestoreCopy
  PROVE  Truthful' /\ Simulated
<1>1. /\ HeadersAt /\ pc = "restore_copy" /\ pc' = "restore_copy" /\ op' = op
      /\ cache' = cache /\ \A q \in Pages : q # "Page1" => flash'[q] = flash[q]
  BY SoundIs, RestoreCopyOrderly DEF Truthful, RestoreCopy, ram
<1>2. HeadersAt'
  BY <1>1, PageNames DEF HeadersAt
<1>3. /\ op = "restore_from_factory" /\ AbstractMode = "restoring" /\ Visible = cache
      /\ StagedValues = ErasedCache /\ Durable = ErasedCache
      /\ StatusOf(flash["Factory"]) = "Valid" /\ FactoryTable = Contents(flash["Factory"])
  BY <1>1, RestoreShows DEF RestorePoints
<1>4. flash'["Factory"] = flash["Factory"]
  BY <1>1, PageNames
<1>5. Truthful'
  BY <1>1, <1>2, <1>3, <1>4, RestoreTruth DEF RestoreAt
<1> QED BY <1>1, <1>3, <1>4, <1>5, RestoresOn, Refills

\* The copy becomes the table.
LEMMA RestoreValidStep ==
  ASSUME MaxFaults = 0, Storable, Sound, Sound', Truthful, Watched, RestoreValid
  PROVE  Truthful' /\ Simulated
<1>1. /\ HwaTyped /\ RamTyped /\ CleanPages /\ ValuesAt /\ HeadersAt
      /\ pc = "restore_copy" /\ WritePageStatus("Page1", "Valid")
      /\ pc' = "restore_formatted" /\ op' = op /\ cache' = cache
      /\ flash["Page1"] = flash["Factory"]
  BY SoundIs, RestoreValidOrderly DEF Truthful, RestoreValid
<1>2. /\ StatusOf(flash'["Page1"]) = "Valid"
      /\ \A q \in Pages : q # "Page1" => flash'[q] = flash[q]
      /\ \A q \in Pages : Contents(flash'[q]) = Contents(flash[q])
  BY <1>1, RecordWritten, RecordKeepsValues, PageNames
<1>3. HeadersAt'
  BY <1>1, <1>2, PageNames, HeadersStay
<1>4. /\ op = "restore_from_factory" /\ AbstractMode = "restoring" /\ Visible = cache
      /\ StagedValues = ErasedCache
      /\ StatusOf(flash["Factory"]) = "Valid" /\ FactoryTable = Contents(flash["Factory"])
  BY <1>1, RestoreShows DEF RestorePoints
<1>5. /\ flash'["Factory"] = flash["Factory"]
      /\ Contents(flash'["Page1"]) = Contents(flash'["Factory"])
  BY <1>1, <1>2, PageNames
<1>6. Truthful'
  BY <1>1, <1>3, <1>4, <1>5, RestoreTruth DEF RestoreAt
<1>7. TableIn(flash') = Contents(flash'["Page1"])
  BY <1>2, SoundTables, PageNames
<1> QED BY <1>1, <1>4, <1>5, <1>6, <1>7, RestoresOn, Refills

LEMMA RestoreFormattedStep ==
  ASSUME MaxFaults = 0, Storable, Sound, Sound', Truthful, Watched, RestoreFormatted
  PROVE  Truthful' /\ Simulated
<1>1. /\ HwaTyped /\ RamTyped /\ CleanPages /\ ValuesAt /\ HeadersAt /\ FormatAt
      /\ pc = "restore_formatted" /\ WritePageStatus("Page2", "Formatted")
      /\ pc' = "reload" /\ op' = op /\ cache' = cache
  <2>1. pc = "restore_formatted"
    BY DEF RestoreFormatted
  <2>2. ~WritePageStatusFails("Page2", "Formatted")
    BY <2>1, SoundIs, SecondHeader
  <2> QED BY <2>1, <2>2, SoundIs DEF RestoreFormatted, Truthful, Orderly, StatusAt, locals
<1>2. flash["Page2"] = ErasedLog /\ status["Page1"] = "Valid" /\ Current("Page1")
  BY <1>1 DEF FormatAt, IsBlank
<1>3. /\ \A q \in Pages : q # "Page2" => flash'[q] = flash[q] /\ status'[q] = status[q]
      /\ \A q \in Pages : Contents(flash'[q]) = Contents(flash[q])
  BY <1>1, RecordWritten, RecordKeepsValues, PageNames
<1>4. HeadersAt'
  <2>1. Contents(flash'["Page2"]) = ErasedCache
    BY <1>2, <1>3, ErasedHoldsNothing, PageNames
  <2> QED BY <1>1, <1>3, <2>1, PageNames, HeadersStay
<1>5. /\ op = "restore_from_factory" /\ AbstractMode = "restoring" /\ Visible = cache
      /\ StagedValues = ErasedCache /\ Durable = TableIn(flash)
      /\ StatusOf(flash["Factory"]) = "Valid" /\ FactoryTable = Contents(flash["Factory"])
  BY <1>1, RestoreShows DEF RestorePoints
<1>6. /\ flash'["Factory"] = flash["Factory"] /\ flash'["Page1"] = flash["Page1"]
      /\ status'["Page1"] = "Valid"
  BY <1>2, <1>3, PageNames
<1>7. ReadPage' = "Page1" /\ Contents(flash["Page1"]) = Contents(flash["Factory"])
  BY <1>1, <1>5, <1>6 DEF ReadPage, Truthful, RestoreAt
<1>8. Truthful'
  BY <1>1, <1>4, <1>5, <1>6, <1>7, RestoreTruth DEF RestoreAt
<1>9. TableIn(flash') = TableIn(flash)
  <2>1. StatusOf(flash["Page1"]) = "Valid"
    BY <1>2 DEF Current
  <2> QED BY <1>6, <2>1, SoundTables, PageNames
<1> QED BY <1>1, <1>5, <1>6, <1>8, <1>9, RestoresOn, Refills

LEMMA FactoryStepsSimulated ==
  ASSUME MaxFaults = 0, Storable, Sound, Sound', Truthful, Watched, FactoryStep
  PROVE  Truthful' /\ Simulated
BY FlushPendingStep, StoreEraseStep, StoreCopyStep, StoreDoneStep, RestoreErase1Step,
   RestoreErase2Step, RestoreCopyStep, RestoreValidStep, RestoreFormattedStep
   DEF FactoryStep

-----------------------------------------------------------------------------
(* format().                                                                 *)

FormatPoints == {"format_erase1", "format_erase2", "format_erase_factory",
                 "format_valid", "format_formatted"}

LEMMA FormatShows ==
  ASSUME Sound, pc \in FormatPoints
  PROVE  /\ op \in {"format", "init"} /\ StagedValues = BlockValues
         /\ pc # "format_erase1" => ~block.dirty /\ StagedValues = ErasedCache
         /\ op = "init" => AbstractMode = "off" /\ Visible = ErasedCache
         /\ op = "format" => /\ AbstractMode = IF flag THEN "wiping_all" ELSE "wiping"
                             /\ Visible = cache
         /\ Durable = TableIn(flash)
         /\ StatusOf(flash["Factory"]) # "Valid" => FactoryTable = NoTable
<1>1. op \in {"format", "init"}
  BY SoundIs DEF CallsAt, FormatPoints
<1>2. pc # "format_erase1" => ~block.dirty
  BY SoundIs DEF IndInv, ClearSteps, FormatPoints
<1>3. /\ op = "init" => AbstractMode = "off" /\ Visible = ErasedCache
      /\ op = "format" => /\ AbstractMode = IF flag THEN "wiping_all" ELSE "wiping"
                          /\ Visible = cache
  BY ModeNow DEF ModeIs, InitSteps, FormatSteps, FormatPoints
<1>4. /\ Durable = TableIn(flash) /\ StagedValues = BlockValues
      /\ ~block.dirty => BlockValues = ErasedCache
      /\ StatusOf(flash["Factory"]) # "Valid" => FactoryTable = NoTable
  BY TablesNow DEF TablesAre, SwapWindow, FormatPoints
<1> QED BY <1>1, <1>2, <1>3, <1>4

LEMMA FormatsOn ==
  ASSUME Sound', op' \in {"format", "init"},
         pc' \in {"format_erase2", "format_erase_factory", "format_valid",
                  "format_formatted"}
  PROVE  /\ StagedValues' = ErasedCache /\ Durable' = TableIn(flash')
         /\ op' = "init" => AbstractMode' = "off" /\ Visible' = ErasedCache
         /\ op' = "format" => /\ AbstractMode' = IF flag' THEN "wiping_all" ELSE "wiping"
                              /\ Visible' = cache'
         /\ StatusOf(flash'["Factory"]) # "Valid" => FactoryTable' = NoTable
<1>1. ~block'.dirty
  BY DEF Sound, IndInv, ClearSteps
<1>2. /\ op' = "init" => AbstractMode' = "off" /\ Visible' = ErasedCache
      /\ op' = "format" => /\ AbstractMode' = IF flag' THEN "wiping_all" ELSE "wiping"
                           /\ Visible' = cache'
  BY ModeNext DEF ModeIs, InitSteps, FormatSteps
<1>3. /\ Durable' = TableIn(flash') /\ StagedValues' = ErasedCache
      /\ StatusOf(flash'["Factory"]) # "Valid" => FactoryTable' = NoTable
  BY <1>1, TablesNext DEF TablesAre, SwapWindow
<1> QED BY <1>2, <1>3

LEMMA FormatTruth ==
  ASSUME HeadersAt', WipeAt', op' \in {"format", "init"}, pc' \in FormatPoints
  PROVE  Truthful'
<1>1. MirrorAt' /\ CopyAt' /\ RestoreAt'
  BY DEF MirrorAt, MirrorSteps, CopyAt, RestoreAt, FormatPoints
<1> QED BY <1>1 DEF Truthful

LEMMA FormatErase1Step ==
  ASSUME MaxFaults = 0, Storable, Sound, Sound', Truthful, Watched, FormatErase1
  PROVE  Truthful' /\ Simulated
<1>1. /\ HwaTyped /\ RamTyped /\ CleanPages /\ HeadersAt /\ WipeAt
      /\ EraseStep("format_erase1", "Page1", "format_erase2") /\ cache' = cache
  BY SoundIs DEF Truthful, FormatErase1
<1>2. /\ pc = "format_erase1" /\ pc' = "format_erase2" /\ op' = op /\ flag' = flag
      /\ flash'["Page1"] = ErasedLog /\ \A q \in Pages : q # "Page1" => flash'[q] = flash[q]
  BY <1>1, EraseStepIs, PageNames DEF locals
<1>3. HeadersAt'
  BY <1>1, <1>2, ErasedHoldsNothing, PageNames, HeadersStay
<1>4. TableIn(flash') \in {TableIn(flash), ErasedCache} /\ StatusOf(flash'["Page1"]) # "Valid"
  BY <1>2, ErasedTable, PageNames
<1>5. pc \in FormatPoints /\ pc' \in FormatPoints /\ op \in {"format", "init"}
  BY <1>2, FormatShows DEF FormatPoints
<1>6. op = "init" => \A p \in RuntimePages : StatusOf(flash[p]) # "Valid"
                                             /\ StatusOf(flash'[p]) # "Valid"
  BY <1>1, <1>2, <1>4, PageNames DEF WipeAt
<1>7. Truthful'
  <2>1. WipeAt'
    BY <1>2, <1>6 DEF WipeAt
  <2> QED BY <1>2, <1>3, <1>5, <2>1, FormatTruth
<1>8. FactoryTable' = FactoryTable
  <2>1. flash'["Factory"] = flash["Factory"]
    BY <1>2, PageNames
  <2> QED BY <1>2, <2>1 DEF FactoryTable
<1>9. CASE op = "format"
  BY <1>1, <1>2, <1>4, <1>5, <1>7, <1>8, <1>9, FormatShows, FormatsOn, Wipes
<1>10. CASE op = "init"
  <2>1. TableIn(flash) = ErasedCache /\ TableIn(flash') = ErasedCache
    BY <1>6, <1>10, FoundNothing
  <2> QED BY <1>2, <1>5, <1>7, <1>8, <1>10, <2>1, FormatShows, FormatsOn, Cuts
<1> QED BY <1>5, <1>9, <1>10

LEMMA FormatErase2Step ==
  ASSUME MaxFaults = 0, Storable, Sound, Sound', Truthful, Watched, FormatErase2
  PROVE  Truthful' /\ Simulated
<1> DEFINE to == IF op = "format" /\ flag THEN "format_erase_factory" ELSE "format_valid"
<1>1. /\ HwaTyped /\ RamTyped /\ CleanPages /\ HeadersAt /\ WipeAt
      /\ EraseStep("format_erase2", "Page2", to)
      /\ cache' = cache
  BY SoundIs DEF Truthful, FormatErase2
<1>2. /\ pc = "format_erase2" /\ pc' = to /\ op' = op /\ flag' = flag
      /\ flash'["Page2"] = ErasedLog /\ \A q \in Pages : q # "Page2" => flash'[q] = flash[q]
  BY <1>1, EraseStepIs, PageNames DEF locals
<1>3. HeadersAt'
  BY <1>1, <1>2, ErasedHoldsNothing, PageNames, HeadersStay
<1>4. TableIn(flash') \in {TableIn(flash), ErasedCache}
  BY <1>2, ErasedTable, PageNames
<1>5. pc \in FormatPoints /\ pc' \in FormatPoints /\ op \in {"format", "init"}
      /\ pc # "format_erase1" /\ pc' \in {"format_erase_factory", "format_valid"}
  BY <1>2, FormatShows DEF FormatPoints
<1>6. Truthful'
  <2>1. WipeAt'
    BY <1>2, <1>5 DEF WipeAt
  <2> QED BY <1>2, <1>3, <1>5, <2>1, FormatTruth
<1>7. FactoryTable' = FactoryTable
  <2>1. flash'["Factory"] = flash["Factory"]
    BY <1>2, PageNames
  <2> QED BY <1>2, <1>5, <2>1 DEF FactoryTable
<1>8. CASE op = "format"
  BY <1>1, <1>2, <1>4, <1>5, <1>6, <1>7, <1>8, FormatShows, FormatsOn, Wipes
<1>9. CASE op = "init"
  <2>1. TableIn(flash) = ErasedCache
    BY <1>1, <1>2, <1>9, FoundNothing DEF WipeAt
  <2> QED BY <1>2, <1>4, <1>5, <1>6, <1>7, <1>9, <2>1, FormatShows, FormatsOn, Stutters
<1> QED BY <1>5, <1>8, <1>9

LEMMA FormatEraseFactoryStep ==
  ASSUME MaxFaults = 0, Storable, Sound, Sound', Truthful, Watched, FormatEraseFactory
  PROVE  Truthful' /\ Simulated
<1>1. /\ HwaTyped /\ RamTyped /\ CleanPages /\ HeadersAt
      /\ EraseStep("format_erase_factory", "Factory", "format_valid") /\ cache' = cache
  BY SoundIs DEF Truthful, FormatEraseFactory
<1>2. /\ pc = "format_erase_factory" /\ pc' = "format_valid" /\ op' = op /\ flag' = flag
      /\ flash'["Factory"] = ErasedLog
      /\ \A q \in Pages : q # "Factory" => flash'[q] = flash[q]
  BY <1>1, EraseStepIs, PageNames DEF locals
<1>3. op = "format" /\ flag
  BY <1>2, SoundIs DEF CallsAt
<1>4. HeadersAt'
  BY <1>1, <1>2, PageNames, HeadersStay
<1>5. Truthful'
  <2>1. WipeAt'
    BY <1>2, <1>3 DEF WipeAt, IsBlank
  <2> QED BY <1>2, <1>3, <1>4, <2>1, FormatTruth DEF FormatPoints
<1>6. TableIn(flash') = TableIn(flash)
  BY <1>2, SameTables, PageNames
<1>7. StatusOf(flash'["Factory"]) # "Valid"
  BY <1>2, Unmarked
<1>8. pc \in FormatPoints /\ pc # "format_erase1"
  BY <1>2 DEF FormatPoints
<1> QED BY <1>1, <1>2, <1>3, <1>5, <1>6, <1>7, <1>8, FormatShows, FormatsOn, Wipes

LEMMA FormatValidStep ==
  ASSUME MaxFaults = 0, Storable, Sound, Sound', Truthful, Watched, FormatValid
  PROVE  Truthful' /\ Simulated
<1>1. /\ HwaTyped /\ RamTyped /\ CleanPages /\ ValuesAt /\ HeadersAt /\ FormatAt /\ WipeAt
      /\ WritePageStatus("Page1", "Valid") /\ pc' = "format_formatted"
      /\ UNCHANGED <<op, flag>> /\ pc = "format_valid"
      /\ cache' = ErasedCache /\ ~cacheDirty'
  BY SoundIs, FormatValidOrderly DEF Truthful, FormatValid, Orderly, StatusAt
<1>2. flash["Page1"] = ErasedLog /\ flash["Page2"] = ErasedLog
  BY <1>1 DEF FormatAt, IsBlank
<1>3. /\ StatusOf(flash'["Page1"]) = "Valid"
      /\ \A q \in Pages : q # "Page1" => flash'[q] = flash[q]
      /\ \A q \in Pages : Contents(flash'[q]) = Contents(flash[q])
  BY <1>1, RecordWritten, RecordKeepsValues, PageNames
<1>4. HeadersAt'
  BY <1>1, <1>3, PageNames, HeadersStay
<1>5. flash'["Factory"] = flash["Factory"] /\ Contents(flash'["Page1"]) = ErasedCache
  BY <1>2, <1>3, PageNames, ErasedHoldsNothing
<1>6. pc \in FormatPoints /\ pc' \in FormatPoints /\ op \in {"format", "init"}
      /\ pc # "format_erase1"
  BY <1>1, FormatShows DEF FormatPoints
<1>7. Truthful'
  <2>1. WipeAt'
    BY <1>1, <1>5 DEF WipeAt, IsBlank
  <2> QED BY <1>1, <1>4, <1>6, <2>1, FormatTruth
<1>8. FactoryTable' = FactoryTable
  BY <1>1, <1>5 DEF FactoryTable
<1>9. TableIn(flash') = ErasedCache /\ TableIn(flash) = ErasedCache
  <2>1. TableIn(flash') = Contents(flash'["Page1"])
    BY <1>3, SoundTables, PageNames
  <2>2. \A p \in RuntimePages : StatusOf(flash[p]) # "Valid"
    BY <1>2, Unmarked, PageNames
  <2> QED BY <1>5, <2>1, <2>2, FoundNothing
<1>10. CASE op = "format"
  BY <1>1, <1>6, <1>7, <1>8, <1>9, <1>10, FormatShows, FormatsOn, Wipes
<1>11. CASE op = "init"
  BY <1>1, <1>6, <1>7, <1>8, <1>9, <1>11, FormatShows, FormatsOn, Stutters
<1> QED BY <1>6, <1>10, <1>11

LEMMA FormatFormattedStep ==
  ASSUME MaxFaults = 0, Storable, Sound, Sound', Truthful, Watched, FormatFormatted
  PROVE  Truthful' /\ Simulated
<1>1. /\ HwaTyped /\ RamTyped /\ CleanPages /\ ValuesAt /\ HeadersAt /\ FormatAt /\ WipeAt
      /\ WritePageStatus("Page2", "Formatted") /\ pc = "format_formatted"
      /\ UNCHANGED <<cache, cacheDirty>> /\ op' = op
      /\ pc' = IF op = "init" /\ flag THEN "reload" ELSE "idle"
  <2>1. pc = "format_formatted"
    BY DEF FormatFormatted
  <2>2. ~WritePageStatusFails("Page2", "Formatted")
    BY <2>1, SoundIs, SecondHeader
  <2> QED BY <2>1, <2>2, SoundIs
          DEF FormatFormatted, Truthful, Orderly, StatusAt, locals, Return
<1>2. /\ flash["Page2"] = ErasedLog /\ status["Page1"] = "Valid" /\ Current("Page1")
      /\ cache = ErasedCache /\ ~cacheDirty /\ Contents(flash["Page1"]) = ErasedCache
      /\ op = "format" /\ flag => flash["Factory"] = ErasedLog
  BY <1>1 DEF FormatAt, WipeAt, IsBlank
<1>3. /\ ~block'.dirty
      /\ \A q \in Pages : q # "Page2" => flash'[q] = flash[q] /\ status'[q] = status[q]
      /\ \A q \in Pages : Contents(flash'[q]) = Contents(flash[q])
  BY <1>1, RecordWritten, RecordKeepsValues, PageNames
<1>4. HeadersAt'
  <2>1. Contents(flash'["Page2"]) = ErasedCache
    BY <1>2, <1>3, ErasedHoldsNothing, PageNames
  <2> QED BY <1>1, <1>3, <2>1, PageNames, HeadersStay
<1>5. /\ flash'["Factory"] = flash["Factory"] /\ flash'["Page1"] = flash["Page1"]
      /\ status'["Page1"] = "Valid" /\ StatusOf(flash["Page1"]) = "Valid"
      /\ ReadPage' = "Page1"
  <2>1. status'["Page1"] = "Valid"
    BY <1>2, <1>3, PageNames
  <2> QED BY <1>2, <1>3, <2>1, PageNames DEF Current, ReadPage
<1>6. BlockValues' = ErasedCache /\ StagedValues' = ErasedCache /\ Durable' = TableIn(flash')
  BY <1>1, <1>3, TablesNext DEF TablesAre, SwapWindow
<1>7. TableIn(flash) = ErasedCache /\ TableIn(flash') = ErasedCache
  BY <1>2, <1>5, SoundTables, PageNames
<1>8. Mirrors' /\ Settled'
  <2>1. Overlay(Contents(flash'["Page1"]), ErasedCache) = ErasedCache
    BY <1>2, <1>5, EmptyIn, OverlayNothing
  <2> QED BY <1>1, <1>2, <1>3, <1>5, <1>6, <2>1 DEF Mirrors, Settled
<1>9. FactoryTable' = FactoryTable
  BY <1>1, <1>5 DEF FactoryTable
<1>10. pc \in FormatPoints /\ op \in {"format", "init"} /\ pc # "format_erase1"
  BY <1>1, FormatShows DEF FormatPoints
<1>11. CASE op = "init" /\ flag
  <2>1. Truthful'
    BY <1>1, <1>4, <1>11 DEF Truthful, MirrorAt, MirrorSteps, CopyAt, WipeAt, RestoreAt
  <2>2. AbstractMode' = "off" /\ Visible' = ErasedCache
    BY <1>1, <1>11, ModeNext DEF ModeIs, InitSteps
  <2> QED BY <1>6, <1>7, <1>9, <1>10, <1>11, <2>1, <2>2, FormatShows, Stutters
<1>12. CASE ~(op = "init" /\ flag)
  <2>1. pc' = "idle"
    BY <1>1, <1>12
  <2>2. Truthful'
    BY <1>4, <1>8, <2>1, ServingTruth
  <2>3. AbstractMode' = "serving" /\ Visible' = ErasedCache
    BY <1>1, <1>2, <2>1, ModeNext DEF ModeIs, InitSteps, FormatSteps, RestoreSteps
  <2>4. CASE op = "format"
    <3>1. AbstractMode \in {"wiping", "wiping_all"} /\ (AbstractMode = "wiping_all" => flag)
      BY <1>10, <2>4, FormatShows
    <3>2. flag => FactoryTable = NoTable
      BY <1>2, <1>10, <2>4, FormatShows, Unmarked
    <3> QED BY <1>6, <1>7, <1>9, <2>2, <2>3, <3>1, <3>2, EndsWipe
  <2>5. CASE op = "init"
    BY <1>6, <1>7, <1>9, <1>10, <2>2, <2>3, <2>5, FormatShows, Starts
  <2> QED BY <1>10, <2>4, <2>5
<1> QED BY <1>11, <1>12

LEMMA FormatsSimulated ==
  ASSUME MaxFaults = 0, Storable, Sound, Sound', Truthful, Watched, FormatStep
  PROVE  Truthful' /\ Simulated
BY FormatErase1Step, FormatErase2Step, FormatEraseFactoryStep, FormatValidStep,
   FormatFormattedStep DEF FormatStep

-----------------------------------------------------------------------------
(* init(), and the loss of power.                                            *)

BootPoints == {"repair_erase", "repair_formatted", "resume_erase", "resume_reload",
               "reload", "xfer_flush"}

BootShows ==
  op = "init" /\ pc \in BootPoints /\ ~block.dirty =>
    /\ AbstractMode = "off" /\ Visible = ErasedCache
    /\ StagedValues = ErasedCache /\ Durable = TableIn(flash)

LEMMA BootShowsNow == BootShows
<1> SUFFICES ASSUME op = "init", pc \in BootPoints, ~block.dirty
             PROVE  /\ AbstractMode = "off" /\ Visible = ErasedCache
                    /\ StagedValues = ErasedCache /\ Durable = TableIn(flash)
  BY DEF BootShows
<1>1. AbstractMode = "off" /\ Visible = ErasedCache
  BY ModeNow DEF ModeIs, InitSteps, BootPoints
<1>2. StagedValues = ErasedCache /\ Durable = TableIn(flash)
  BY TablesNow DEF TablesAre, SwapWindow, BootPoints
<1> QED BY <1>1, <1>2

LEMMA BootShowsNext == BootShows'
BY BootShowsNow, PTL

\* Nothing that init() repairs is visible, or changes the table.
LEMMA BootStutters ==
  ASSUME Watched, op = "init", op' = "init", pc \in BootPoints, pc' \in BootPoints,
         ~block.dirty, ~block'.dirty, TableIn(flash') = TableIn(flash),
         flash'["Factory"] = flash["Factory"]
  PROVE  Simulated
<1>1. /\ AbstractMode = "off" /\ Visible = ErasedCache
      /\ StagedValues = ErasedCache /\ Durable = TableIn(flash)
  BY BootShowsNow DEF BootShows
<1>2. /\ AbstractMode' = "off" /\ Visible' = ErasedCache
      /\ StagedValues' = ErasedCache /\ Durable' = TableIn(flash')
  BY BootShowsNext DEF BootShows
<1>3. FactoryTable' = FactoryTable
  BY DEF FactoryTable, BootPoints
<1> QED BY <1>1, <1>2, <1>3, Stutters

LEMMA BootIs ==
  ASSUME Sound, pc \in {"repair_erase", "repair_formatted", "resume_erase", "resume_reload"}
  PROVE  /\ HwaTyped /\ RamTyped /\ CleanPages /\ ValuesAt
         /\ op = "init" /\ ~block.dirty /\ pc \in BootPoints
         /\ ReadPage \in RuntimePages /\ Other(ReadPage) \in RuntimePages
         /\ ReadPage \in Pages /\ Other(ReadPage) \in Pages /\ Other(ReadPage) # ReadPage
         /\ ReadPage # "Factory" /\ Other(ReadPage) # "Factory"
         /\ StatusOf(flash[ReadPage]) = "Valid"
         /\ pc = "repair_formatted" => IsBlank(Other(ReadPage))
<1>1. /\ HwaTyped /\ RamTyped /\ CleanPages /\ ValuesAt /\ op = "init" /\ ~block.dirty
      /\ pc \in BootPoints /\ RepairAt
  BY SoundIs DEF CallsAt, IndInv, ClearSteps, BootPoints, Orderly, StatusAt
<1>2. PICK h \in RuntimePages :
        /\ \E s \in {ERASED, "Receiving"} : Serves(h, s)
        /\ pc = "repair_formatted" => IsBlank(Other(h))
  BY <1>1 DEF RepairAt, Resumed
<1>3. ReadPage = h
  BY <1>2, ServingPages
<1> QED BY <1>1, <1>2, <1>3, PageNames DEF Serves, Current

LEMMA BootTruth ==
  ASSUME HeadersAt', op' = "init", pc' \in {"repair_formatted", "resume_reload", "reload"}
  PROVE  Truthful'
<1>1. MirrorAt' /\ CopyAt' /\ WipeAt' /\ RestoreAt'
  BY DEF MirrorAt, MirrorSteps, CopyAt, WipeAt, RestoreAt
<1> QED BY <1>1 DEF Truthful

LEMMA RepairEraseStep ==
  ASSUME MaxFaults = 0, Storable, Sound, Sound', Truthful, Watched,
         \/ RepairErase("repair_erase", "repair_formatted")
         \/ RepairErase("resume_erase", "resume_reload")
  PROVE  Truthful' /\ Simulated
<1> DEFINE h == ReadPage
<1>1. /\ pc \in {"repair_erase", "resume_erase"}
      /\ pc' \in {"repair_formatted", "resume_reload"}
      /\ op' = op /\ block' = block /\ Erase(Other(h))
  BY SoundIs, NeverFaulty DEF RepairErase, ram, locals
<1>2. /\ HwaTyped /\ CleanPages /\ op = "init" /\ ~block.dirty /\ pc \in BootPoints
      /\ h \in RuntimePages /\ Other(h) \in RuntimePages /\ h \in Pages
      /\ Other(h) \in Pages /\ Other(h) # h /\ h # "Factory" /\ Other(h) # "Factory"
      /\ StatusOf(flash[h]) = "Valid"
  BY <1>1, BootIs
<1>3. /\ flash'[Other(h)] = ErasedLog
      /\ \A q \in Pages : q # Other(h) => flash'[q] = flash[q]
  BY <1>1, <1>2, PageErased
<1>4. HeadersAt'
  BY <1>1, <1>2, <1>3, ErasedHoldsNothing, PageNames, HeadersStay DEF Truthful
<1>5. TableIn(flash') = TableIn(flash)
  BY <1>2, <1>3, SoundTables
<1>6. flash'["Factory"] = flash["Factory"] /\ pc' \in BootPoints
  BY <1>1, <1>2, <1>3, PageNames DEF BootPoints
<1> QED BY <1>1, <1>2, <1>4, <1>5, <1>6, BootTruth, BootStutters

LEMMA RepairFormattedStep ==
  ASSUME MaxFaults = 0, Storable, Sound, Sound', Truthful, Watched, RepairFormatted
  PROVE  Truthful' /\ Simulated
<1> DEFINE h == ReadPage
<1>1. /\ pc = "repair_formatted" /\ pc' = "reload" /\ op' = op
      /\ WritePageStatus(Other(h), "Formatted")
  BY SoundIs, RepairFormattedOrderly DEF RepairFormatted
<1>2. /\ HwaTyped /\ RamTyped /\ CleanPages /\ ValuesAt
      /\ op = "init" /\ ~block.dirty /\ pc \in BootPoints
      /\ h \in RuntimePages /\ Other(h) \in RuntimePages /\ h \in Pages
      /\ Other(h) \in Pages /\ Other(h) # h /\ h # "Factory" /\ Other(h) # "Factory"
      /\ StatusOf(flash[h]) = "Valid" /\ flash[Other(h)] = ErasedLog
  BY <1>1, BootIs DEF IsBlank
<1>3. PICK g \in RuntimePages : g = h
  BY <1>2
<1>4. /\ ~block'.dirty
      /\ \A q \in Pages : q # Other(g) => flash'[q] = flash[q]
      /\ \A q \in Pages : Contents(flash'[q]) = Contents(flash[q])
  BY <1>1, <1>2, <1>3, RecordWritten, RecordKeepsValues, PageNames
<1>5. HeadersAt'
  <2>1. Contents(flash'[Other(g)]) = ErasedCache
    BY <1>2, <1>3, <1>4, ErasedHoldsNothing
  <2> QED BY <1>1, <1>2, <1>3, <1>4, <2>1, PageNames, HeadersStay DEF Truthful
<1>6. TableIn(flash') = TableIn(flash)
  BY <1>2, <1>3, <1>4, SoundTables
<1>7. flash'["Factory"] = flash["Factory"] /\ pc' \in BootPoints
  BY <1>1, <1>2, <1>3, <1>4, PageNames DEF BootPoints
<1> QED BY <1>1, <1>2, <1>4, <1>5, <1>6, <1>7, BootTruth, BootStutters

LEMMA ResumeReloadStep ==
  ASSUME MaxFaults = 0, Storable, Sound, Sound', Truthful, Watched, ResumeReload
  PROVE  Truthful' /\ Simulated
<1>1. pc = "resume_reload" /\ Reload /\ pc' = "xfer_flush" /\ op' = op
  BY SoundIs, ResumeReloadOrderly DEF ResumeReload
<1>2. op = "init" /\ ~block.dirty /\ pc \in BootPoints
  BY <1>1, BootIs
<1>3. /\ UNCHANGED <<flash, status>> /\ cache' = Contents(flash[ReadPage])
      /\ block' = ClearedBlock /\ ReadPage' = ReadPage
  BY <1>1 DEF Reload, ReadPage
<1>4. HeadersAt'
  BY <1>1, <1>3, SameHeaders DEF Truthful
<1>5. Truthful'
  <2>1. MirrorAt' /\ CopyAt' /\ WipeAt' /\ RestoreAt'
    BY <1>1, <1>2, <1>3 DEF MirrorAt, MirrorSteps, CopyAt, WipeAt, RestoreAt
  <2> QED BY <1>4, <2>1 DEF Truthful
<1> QED BY <1>1, <1>2, <1>3, <1>5, ErasedTypes, BootStutters DEF BootPoints

\* The last cache() of init() shows what was durable, that of
\* restore_from_factory() the factory table.
LEMMA FinalReloadStep ==
  ASSUME MaxFaults = 0, Storable, Sound, Sound', Truthful, Watched, FinalReload
  PROVE  Truthful' /\ Simulated
<1>1. pc = "reload" /\ Reload /\ pc' = "idle" /\ op' = op
  BY SoundIs, FinalReloadOrderly DEF FinalReload, Return
<1>2. /\ Home /\ op \in {"init", "restore_from_factory"} /\ ~block.dirty
  BY <1>1, SoundIs DEF Orderly, StatusAt, HomeSteps, CallsAt, IndInv, ClearSteps
<1>3. /\ UNCHANGED <<flash, status>> /\ cache' = Contents(flash[ReadPage])
      /\ HeadersAt' /\ Mirrors' /\ Settled' /\ TableIn(flash) = cache'
      /\ BlockValues' = ErasedCache
  BY <1>1, <1>2, Refreshed
<1>4. Truthful'
  BY <1>1, <1>3, ServingTruth
<1>5. AbstractMode' = "serving" /\ Visible' = cache'
  BY <1>1, ModeNext DEF ModeIs, InitSteps, FormatSteps, RestoreSteps
<1>6. StagedValues' = ErasedCache /\ Durable' = TableIn(flash')
  BY <1>1, <1>3, TablesNext DEF TablesAre, SwapWindow
<1>7. FactoryTable' = FactoryTable
  BY <1>1, <1>3 DEF FactoryTable
<1>8. CASE op = "init"
  <2>1. /\ AbstractMode = "off" /\ StagedValues = ErasedCache /\ Durable = TableIn(flash)
    BY <1>1, <1>2, <1>8, BootShowsNow DEF BootShows, BootPoints
  <2> QED BY <1>3, <1>4, <1>5, <1>6, <1>7, <2>1, Starts
<1>9. CASE op = "restore_from_factory"
  <2>1. /\ AbstractMode = "restoring" /\ StagedValues = ErasedCache
        /\ Durable = TableIn(flash) /\ FactoryTable = Contents(flash["Factory"])
    BY <1>1, <1>9, RestoreShows
  <2>2. Contents(flash[ReadPage]) = Contents(flash["Factory"])
    BY <1>1, <1>9 DEF Truthful, RestoreAt
  <2> QED BY <1>3, <1>4, <1>5, <1>6, <1>7, <2>1, <2>2, EndsRestore
<1> QED BY <1>2, <1>8, <1>9

LEMMA BootsSimulated ==
  ASSUME MaxFaults = 0, Storable, Sound, Sound', Truthful, Watched, BootStep
  PROVE  Truthful' /\ Simulated
<1>1. CASE Boot
  BY <1>1, StartInitStep DEF Boot
<1>2. CASE EraseUnused \/ EraseReceiving
  BY <1>2, RepairEraseStep DEF EraseUnused, EraseReceiving
<1> QED BY <1>1, <1>2, RepairFormattedStep, ResumeReloadStep, FinalReloadStep DEF BootStep

\* Outside the exposed steps nothing durable is lost with the power.
LEMMA PowerLossStep ==
  ASSUME MaxFaults = 0, Storable, Sound, Sound', Truthful, Watched, PowerLoss, ~Exposed
  PROVE  Truthful' /\ Simulated
<1>1. /\ flash' = flash /\ pc' = "off" /\ op' = "init" /\ block' = ClearedBlock
      /\ pc # "off" /\ pc \notin SwapWindow
  BY DEF PowerLoss, Exposed
<1>2. HeadersAt /\ FactoryAt /\ FormatAt /\ IndInv
  BY SoundIs DEF Truthful, Orderly, StatusAt
<1>3. ASSUME pc \in {"store_copy", "restore_copy"}
      PROVE  cursor = 0
  <2>1. cursor \in BlockOffsets /\ ~(cursor > 0)
    BY <1>2, <1>3 DEF IndInv, Exposed
  <2> QED BY <2>1 DEF BlockOffsets
<1>4. pc = "restore_copy" => flash["Page1"] = ErasedLog /\ flash["Page2"] = ErasedLog
  BY <1>2, <1>3, EmptyPrefix DEF FactoryAt, FormatAt, IsBlank
<1>5. pc = "store_copy" => flash["Factory"] = ErasedLog
  BY <1>2, <1>3, EmptyPrefix DEF FactoryAt
<1>6. HeadersAt'
  <2> SUFFICES ASSUME NEW p \in RuntimePages PROVE HeaderOnly(flash[p])
    BY <1>1 DEF HeadersAt
  <2>1. CASE pc = "restore_copy" /\ p = "Page1"
    BY <1>4, <2>1, Unmarked
  <2> QED BY <1>2, <2>1 DEF HeadersAt
<1>7. Truthful'
  <2>1. MirrorAt' /\ CopyAt' /\ WipeAt' /\ RestoreAt'
    BY <1>1 DEF MirrorAt, MirrorSteps, CopyAt, WipeAt, RestoreAt, TransferSteps
  <2> QED BY <1>6, <2>1 DEF Truthful
<1>8. AbstractMode' = "off" /\ Visible' = ErasedCache
  BY <1>1, ModeNext DEF ModeIs, InitSteps
<1>9. StagedValues' = ErasedCache /\ Durable' = TableIn(flash)
  BY <1>1, ErasedTypes, TablesNext DEF TablesAre, SwapWindow
<1>10. Durable = TableIn(flash)
  <2>1. CASE pc = "restore_copy"
    <3>1. TableIn(flash) = ErasedCache
      BY <1>4, <2>1, Unmarked, PageNames, FoundNothing
    <3> QED BY <2>1, <3>1, TablesNow DEF TablesAre
  <2> QED BY <1>1, <2>1, TablesNow DEF TablesAre
<1>11. FactoryTable' = FactoryTable
  BY <1>1, <1>5, Unmarked DEF FactoryTable
<1> QED BY <1>7, <1>8, <1>9, <1>10, <1>11, Cuts

-----------------------------------------------------------------------------
(* The invariant of the protected device, and every step of it.              *)

StoreInv == Sound /\ OneAtATime /\ Truthful

LEMMA SoundStays ==
  ASSUME MaxFaults = 0, Sound, OneAtATime, ProtectedNext, view' = View'
  PROVE  Sound' /\ OneAtATime'
<1>1. IndInv /\ Orderly /\ ValuesAt /\ CallsAt /\ AtMostOneValid /\ Next
  BY DEF Sound, ProtectedNext, Next
<1>2. IndInv' /\ Orderly' /\ ValuesAt' /\ CallsAt'
  BY <1>1, StepPreserves, StepOrderly, ValuesStay, CallsStay
<1>3. BecomesAlone /\ OneAtATime'
  BY <1>1, NextAlone DEF Alone
<1>4. AtMostOneValid'
  <2> SUFFICES ASSUME IsValid("Page1")', IsValid("Page2")' PROVE FALSE
    BY DEF AtMostOneValid, BothValid, FlashStatus, IsValid, Pages, RuntimePages
  <2>1. IsValid("Page1") /\ IsValid("Page2")
    BY <1>3 DEF BecomesAlone, Other, RuntimePages
  <2> QED BY <1>1, <2>1
          DEF AtMostOneValid, BothValid, FlashStatus, IsValid, Pages, RuntimePages
<1> QED BY <1>2, <1>3, <1>4 DEF Sound

\* Nothing happens: the device is what it was.
LEMMA NothingHappens ==
  ASSUME StoreInv, UNCHANGED vars
  PROVE  StoreInv'
<1>1. UNCHANGED <<flash, status, cache, cacheDirty, next, block, pc, op, entry, flag,
                  oldPage, cursor, result, faults>>
  BY DEF vars, ram, locals
<1>2. ReadPage' = ReadPage /\ WritePage' = WritePage /\ BlockValues' = BlockValues
  BY <1>1 DEF ReadPage, WritePage, BlockValues
<1>3. IndInv' /\ OneAtATime'
  BY StepPreserves, NextAlone DEF StoreInv, Sound, Alone
<1>4. CleanPages' /\ HeaderPages' /\ EntryAt'
  BY <1>1 DEF StoreInv, Sound, Orderly, CleanPages, HeaderPages, EntryAt
<1>5. StagedAt'
  BY <1>1, <1>2 DEF StoreInv, Sound, Orderly, StagedAt, Staging, StagedFits, WriteOffset
<1>6. TransferAt' /\ RepairAt' /\ FormatAt' /\ FactoryAt'
  BY <1>1, <1>2 DEF StoreInv, Sound, Orderly, StatusAt, TransferAt, RepairAt, FormatAt,
     FactoryAt, Home, Resumed, Serves, Current, IsBlank
<1>7. StatusAt'
  BY <1>1, <1>6 DEF StoreInv, Sound, Orderly, StatusAt, Home, Resumed, Serves, Current,
     IsBlank
<1>8. ValuesAt' /\ CallsAt' /\ AtMostOneValid'
  BY <1>1 DEF StoreInv, Sound, ValuesAt, FlashValued, BlockValued, CallsAt,
     AtMostOneValid, FlashStatus
<1>9. HeadersAt' /\ MirrorAt'
  BY <1>1, <1>2 DEF StoreInv, Truthful, HeadersAt, MirrorAt, Mirrors, Settled
<1>10. CopyAt'
  BY <1>1, <1>2 DEF StoreInv, Truthful, CopyAt
<1>11. WipeAt' /\ RestoreAt'
  BY <1>1, <1>2 DEF StoreInv, Truthful, WipeAt, RestoreAt, IsBlank
<1> QED BY <1>3, <1>4, <1>5, <1>7, <1>8, <1>9, <1>10, <1>11
        DEF StoreInv, Sound, Orderly, Truthful

\* Every step of the protected device keeps the invariant and is a step of the
\* store, or none.
LEMMA EveryStepSimulated ==
  ASSUME MaxFaults = 0, Storable, StoreInv, view = View, ProtectedNext, view' = View'
  PROVE  StoreInv' /\ Simulated
<1>1. Sound /\ OneAtATime /\ Truthful /\ Watched
  BY DEF StoreInv, Watched
<1>2. Sound' /\ OneAtATime'
  BY <1>1, SoundStays
<1>3. Truthful' /\ Simulated
  <2>1. CASE CallStep
    BY <1>1, <2>1, CallsSimulated
  <2>2. CASE AppendStep
    <3>1. WriteInternal
      BY <1>1, <2>2, NothingStale DEF AppendStep, Sound
    <3> QED BY <1>1, <1>2, <3>1, WriteInternalStep
  <2>3. CASE TransferStep \/ FactoryStep \/ FormatStep \/ BootStep
    BY <1>1, <1>2, <2>3, TransfersSimulated, FactoryStepsSimulated, FormatsSimulated,
       BootsSimulated
  <2>4. CASE PowerLoss /\ ~Exposed
    BY <1>1, <1>2, <2>4, PowerLossStep
  <2> QED BY <2>1, <2>2, <2>3, <2>4 DEF ProtectedNext, Step
<1> QED BY <1>2, <1>3 DEF StoreInv

\* The observed table is a function of the device's state.
LEMMA ViewFollows ==
  ASSUME UNCHANGED vars
  PROVE  View' = View
<1>1. UNCHANGED <<flash, cache, block, pc, op, flag, oldPage>>
  BY DEF vars, ram, locals
<1>2. AbstractMode' = AbstractMode /\ StagedValues' = StagedValues
  BY <1>1 DEF AbstractMode, InCall, StagedValues
<1>3. Durable' = Durable
  BY <1>1 DEF Durable, Recovered, ValidPages
<1> QED BY <1>1, <1>2, <1>3 DEF View

LEMMA StoreStep ==
  ASSUME MaxFaults = 0, Storable, StoreInv, view = View,
         [ProtectedNext /\ view' = View']_<<vars, view>>
  PROVE  StoreInv' /\ view' = View' /\ Simulated
<1>1. CASE ProtectedNext /\ view' = View'
  BY <1>1, EveryStepSimulated
<1>2. CASE UNCHANGED <<vars, view>>
  <2>1. StoreInv' /\ view' = View'
    BY <1>2, NothingHappens, ViewFollows
  <2>2. Simulated
    BY <1>2 DEF Simulated, Store!storeVars
  <2> QED BY <2>1, <2>2
<1> QED BY <1>1, <1>2

-----------------------------------------------------------------------------
(* Where the device starts.                                                  *)

\* What this firmware leaves on the flash it starts from holds values that
\* callers write, none behind a Formatted header, and at most one Valid page.
OwnValues ==
  \A f \in InitialFlash :
    /\ \A p \in Pages : Valued(f[p])
    /\ \A p \in RuntimePages : HeaderOnly(f[p])
    /\ ~(StatusOf(f["Page1"]) = "Valid" /\ StatusOf(f["Page2"]) = "Valid")

LEMMA StartsSound ==
  ASSUME OwnFlash, OwnValues, Init
  PROVE  StoreInv
<1>1. IndInv /\ Orderly
  BY InitEstablishes, InitOrderly
<1>2. flash \in InitialFlash
  BY DEF Init
<1>3. /\ block = ClearedBlock /\ entry = Blank /\ pc = "off" /\ op = "init"
      /\ cache = ErasedCache
  BY DEF Init
<1>4. OneAtATime
  BY <1>3, BlankIsNoMark DEF OneAtATime, StagedAlone, StagesValid, ClearedBlock
<1>5. HoldsValue(Blank)
  BY UnusedAddresses DEF HoldsValue, Blank, Entry
<1>6. BlockValued /\ HoldsValue(entry)
  BY <1>3, <1>5 DEF BlockValued, ClearedBlock
<1>7. ValuesAt
  BY <1>2, <1>3, <1>6, EmptyIn DEF ValuesAt, FlashValued, OwnValues
<1>8. CallsAt
  BY <1>3 DEF CallsAt, TransferSteps
<1>9. AtMostOneValid
  BY <1>2 DEF OwnValues, AtMostOneValid, BothValid, FlashStatus, Pages, RuntimePages
<1>10. HeadersAt
  BY <1>2 DEF OwnValues, HeadersAt
<1>11. MirrorAt /\ CopyAt /\ WipeAt /\ RestoreAt
  BY <1>3 DEF MirrorAt, MirrorSteps, CopyAt, WipeAt, RestoreAt, TransferSteps
<1> QED BY <1>1, <1>4, <1>7, <1>8, <1>9, <1>10, <1>11 DEF StoreInv, Sound, Truthful

LEMMA StartsAsStore ==
  ASSUME OwnFlash, OwnValues, Init, view = View
  PROVE  Store!StoreInit
<1>1. /\ view.mode = AbstractMode /\ view.visible = Visible
      /\ view.buffered = StagedValues /\ view.durable = Durable
      /\ view.factory = FactoryTable
  BY ViewIs DEF ViewMatches
<1>2. pc = "off" /\ op = "init" /\ ~block.dirty
  BY DEF Init, ClearedBlock
<1>3. Sound
  BY StartsSound DEF StoreInv
<1>4. AbstractMode = "off" /\ Visible = ErasedCache
  BY <1>2, ModeNow DEF ModeIs, InitSteps
<1>5. StagedValues = ErasedCache /\ Durable = TableIn(flash)
  BY <1>2, TablesNow DEF TablesAre, SwapWindow
<1>6. \A p \in Pages : Contents(flash[p]) \in Tables
  BY <1>3, PagesHoldNow DEF PagesHold, Sound, IndInv, TypeOK, Orderly
<1>7. TableIn(flash) \in Tables
  <2>1. CASE \E p \in RuntimePages : StatusOf(flash[p]) = "Valid"
    <3>1. PICK p \in RuntimePages : StatusOf(flash[p]) = "Valid"
      BY <2>1
    <3>2. TableIn(flash) = Contents(flash[p])
      BY <1>3, <3>1, ValidTableNow DEF ValidTable, Sound, Orderly
    <3> QED BY <1>6, <3>2, PageNames
  <2>2. CASE \A p \in RuntimePages : StatusOf(flash[p]) # "Valid"
    BY <2>2, FoundNothing, EmptyIn
  <2> QED BY <2>1, <2>2
<1>8. FactoryTable \in Tables \cup {NoTable}
  BY <1>6, TablesNow, PageNames DEF TablesAre
<1>9. /\ Store!Empty = ErasedCache /\ Store!NoSnapshot = NoTable
      /\ Store!Table = Tables
  BY DEF Store!Empty, ErasedCache, Store!NoSnapshot, NoTable, Store!Table, Tables
<1> QED BY <1>1, <1>4, <1>5, <1>7, <1>8, <1>9 DEF Store!StoreInit

-----------------------------------------------------------------------------
(* The theorems.                                                             *)

LEMMA StoreInvariance ==
  ASSUME MaxFaults = 0, OwnFlash, OwnValues, Storable
  PROVE  ProtectedSpec => []StoreInv
<1> DEFINE Moves == ProtectedNext /\ view' = View'
           Inv == StoreInv /\ view = View
<1>1. Init /\ view = View => Inv
  BY StartsSound
<1>2. Inv /\ [Moves]_<<vars, view>> => Inv'
  BY StoreStep
<1> QED BY <1>1, <1>2, PTL DEF ProtectedSpec

\* A device with a flash that does not fail, whose power holds through the
\* exposed steps, is the store: read() sees every accepted write until the power
\* fails, boots show exactly what was durable, page_transfer() and the repairs of
\* init() change nothing that callers see, and format(), store_to_factory() and
\* restore_from_factory() are all or nothing, with any geometry, any values and
\* any history of calls, boots and power losses.
THEOREM DeviceIsStore ==
  ASSUME MaxFaults = 0, OwnFlash, OwnValues, Storable
  PROVE  ProtectedSpec => ImplementsStore
<1> DEFINE Moves == ProtectedNext /\ view' = View'
           Inv == StoreInv /\ view = View
<1>1. Init /\ view = View => Inv /\ Store!StoreInit
  BY StartsSound, StartsAsStore
<1>2. Inv /\ [Moves]_<<vars, view>> => Inv' /\ [Store!StoreNext]_(Store!storeVars)
  BY StoreStep DEF Simulated
<1> QED BY <1>1, <1>2, PTL DEF ProtectedSpec, ImplementsStore, Store!StoreSpec

\* Between two calls.
LEMMA BetweenCalls ==
  ASSUME Sound, Truthful, pc = "idle"
  PROVE  /\ Home /\ Mirrors /\ ReadPage \in RuntimePages
         /\ Recovered = Contents(flash[ReadPage])
         /\ cache \in Tables /\ Contents(flash[ReadPage]) \in Tables
<1>1. Home /\ Mirrors /\ CleanPages
  BY SoundIs, IdleShows
<1>2. ReadPage \in RuntimePages /\ TableIn(flash) = Contents(flash[ReadPage])
  BY <1>1, HomeTableNow DEF HomeTable
<1>3. cache \in Tables /\ Contents(flash[ReadPage]) \in Tables
  BY <1>2, SoundIs, PageHolds, PageNames DEF ValuesAt
<1> QED BY <1>1, <1>2, <1>3, RecoveredIs

\* What a scan finds, with the staged block read first.
LEMMA LoggedIs ==
  ASSUME Storable, ValuesAt, NEW a \in Addresses
  PROVE  Logged(a) = Overlay(Contents(flash[ReadPage]), BlockValues)[a]
<1> DEFINE hits == {i \in Slots : block.dirty /\ block.data[i].address = a}
           same == {i \in Slots : block.data[i].address = a}
<1>1. CASE ~block.dirty
  <2>1. hits = {}
    BY <1>1
  <2>2. BlockValues[a] = ERASED
    BY <1>1 DEF BlockValues, ErasedCache
  <2> QED BY <2>1, <2>2, OverlayIs DEF Logged
<1>2. CASE block.dirty /\ \A i \in Slots : block.data[i].address # a
  <2>1. hits = {}
    BY <1>2
  <2>2. BlockValues[a] = ERASED
    BY <1>2, BlockMiss DEF BlockValues
  <2> QED BY <2>1, <2>2, OverlayIs DEF Logged
<1>3. CASE block.dirty /\ \E i \in Slots : block.data[i].address = a
  <2>1. hits = same /\ hits # {}
    BY <1>3
  <2>2. BlockValues[a] = block.data[Greatest(same)].value
    BY <1>3 DEF BlockValues, DataValues
  <2>3. BlockValues[a] # ERASED
    <3>1. PICK n \in Slots :
            block.data[n].address = a /\ DataValues(block.data)[a] = block.data[n].value
      BY <1>3, BlockHit
    <3> QED BY <1>3, <3>1 DEF BlockValues, ValuesAt, BlockValued, HoldsValue, Storable
  <2>4. Logged(a) = block.data[Greatest(hits)].value
    BY <2>1 DEF Logged
  <2> HIDE DEF hits, same
  <2>5. Logged(a) = BlockValues[a]
    BY <2>1, <2>2, <2>4
  <2> QED BY <2>3, <2>5, OverlayIs
<1> QED BY <1>1, <1>2, <1>3

\* Between calls, without cache-only writes, the mirror holds for every address
\* what a scan of the log with the staged block on top would find: read() may
\* answer from it, and page_transfer() may dump it in place of the log.
THEOREM MirrorIsTheLog ==
  ASSUME MaxFaults = 0, OwnFlash, OwnValues, Storable
  PROVE  ProtectedSpec => []MirrorMatchesLog
<1>1. StoreInv => MirrorMatchesLog
  <2> SUFFICES ASSUME StoreInv, pc = "idle", ~cacheDirty, NEW a \in Addresses
               PROVE  cache[a] = Logged(a)
    BY DEF MirrorMatchesLog, Serving
  <2>1. Mirrors /\ ValuesAt
    BY BetweenCalls, SoundIs DEF StoreInv
  <2> QED BY <2>1, LoggedIs DEF Mirrors
<1> QED BY <1>1, StoreInvariance, PTL

\* When flush() has returned true, what init() would find is what callers see:
\* power may fail then and nothing is lost, RAM-only writes and the entries of a
\* partly filled block included.
THEOREM FlushedIsDurable ==
  ASSUME MaxFaults = 0, OwnFlash, OwnValues, Storable
  PROVE  ProtectedSpec => []FlushMakesDurable
<1>1. StoreInv => FlushMakesDurable
  <2> SUFFICES ASSUME StoreInv, pc = "idle", op = "flush", result = "Ok"
               PROVE  Recovered = cache
    BY DEF FlushMakesDurable
  <2>1. /\ Mirrors /\ Recovered = Contents(flash[ReadPage])
        /\ cache \in Tables /\ Contents(flash[ReadPage]) \in Tables
    BY BetweenCalls DEF StoreInv
  <2>2. ~cacheDirty /\ BlockValues = ErasedCache
    BY DEF StoreInv, Truthful, MirrorAt, Settled, BlockValues
  <2>3. \A a \in Addresses : cache[a] = Contents(flash[ReadPage])[a]
    BY <2>1, <2>2, OverlayNothing DEF Mirrors
  <2> QED BY <2>1, <2>3 DEF Tables
<1> QED BY <1>1, StoreInvariance, PTL

\* The device as it is delivered, with nothing on its flash, is one that the
\* theorems are about.
LEMMA BlankDeviceIsOwn ==
  ASSUME InitialFlash = {[p \in Pages |-> ErasedLog]}
  PROVE  OwnFlash /\ OwnValues
<1>1. CleanLog(ErasedLog) /\ OneBlock(ErasedLog)
  BY ErasedIsClean, Unmarked DEF OneBlock
<1>2. Valued(ErasedLog) /\ HeaderOnly(ErasedLog) /\ StatusOf(ErasedLog) # "Valid"
  BY Unmarked, UnusedAddresses DEF Valued, HoldsValue, ErasedLog
<1> QED BY <1>1, <1>2, PageNames DEF OwnFlash, OwnValues
=============================================================================
