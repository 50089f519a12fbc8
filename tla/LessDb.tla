------------------------------- MODULE LessDb -------------------------------
(***************************************************************************)
(* LessDb (module/src/utils/lessdb/lessdb.cpp): parameters of five widths  *)
(* packed into a byte-addressed storage, with a one-byte read cache for    *)
(* the packed ones.                                                        *)
(*                                                                         *)
(* Every public function holds the mutex, so each is one action, except    *)
(* init_data(): it writes the storage unit by unit and stops at the first  *)
(* unit that fails, so each unit is a step.  The Hwa is external: bytes in *)
(* little-endian order, where up to MaxFaults operations fail; a write     *)
(* that fails may leave any prefix of its bytes behind.                    *)
(* Blocks, sections and layouts are sequences; parameters count from 0.    *)
(***************************************************************************)
EXTENDS Integers, Sequences

CONSTANTS
  BYTE_BIT_COUNT,  \* bits in a byte, an even number
  WORD_SIZE_IN_BYTES, DWORD_SIZE_IN_BYTES,  \* bytes of the wide types: 2 and 4
  IndexLimit,      \* the uint8_t array_index wraps here: 256
  AddressCount,    \* Hwa::address_count()
  Layouts,         \* the layouts callers use
  StartAddresses,  \* the start addresses they ask for
  NewValues,       \* the values they write
  InitProviders,   \* the initial value providers they register
  MaxProviders,    \* how many they register at most
  MaxFaults,       \* how many Hwa operations may fail
  None             \* std::nullopt

INVALID_ADDRESS == AddressCount
\* x to the n: the provers know no exponentiation.
Power(x, n) == LET to[i \in 0 .. n] == IF i = 0 THEN 1 ELSE x * to[i - 1] IN to[n]

Types == {"Bit", "Byte", "HalfByte", "Word", "Dword"}
Packed == {"Bit", "HalfByte"}
ByteSize == Power(2, BYTE_BIT_COUNT)
Bytes == 0 .. ByteSize - 1
Addresses == 0 .. AddressCount - 1

\* Blocks of sections, as make_layout() builds them.
LayoutType ==
  Seq(Seq([count : Nat, type : Types, preserve : BOOLEAN, increment : BOOLEAN,
           default : Nat]))

ASSUME LessDbAssumption ==
  /\ BYTE_BIT_COUNT \in Nat \ {0} /\ BYTE_BIT_COUNT % 2 = 0
  /\ WORD_SIZE_IN_BYTES \in Nat \ {0} /\ DWORD_SIZE_IN_BYTES \in Nat \ {0}
  /\ AddressCount \in Nat /\ IndexLimit \in Nat \ {0}
  /\ MaxFaults \in Nat /\ MaxProviders \in Nat
  /\ NewValues \subseteq Nat /\ StartAddresses \subseteq Nat
  /\ Layouts \subseteq LayoutType
  /\ None \notin Nat \cup BOOLEAN \cup {"Full", "Partial"}

\* A provider has a value or none for every parameter it can be asked for.
ASSUME ProviderAssumption ==
  \A f \in InitProviders, l \in Layouts : \A b \in DOMAIN l : \A s \in DOMAIN l[b] :
    \A p \in 0 .. l[b][s].count - 1 : f[p] \in Nat \cup {None}

VARIABLES
  storage,         \* the bytes behind the Hwa
  layout,          \* _layout, empty before the first set_layout()
  initialAddress,  \* _initial_address
  lastAddress,     \* _last_read_address
  lastValue,       \* _last_read_value
  providers,       \* _init_providers
  reset,           \* the reset type init_data() runs with, None between calls
  cursor,          \* the address from which init_data() goes on
  call,            \* the last call and its arguments
  answer,          \* what it returned
  faults,          \* Hwa failures so far
  outlived         \* history: clear() or set_layout() ran since the cache was filled

cache == <<lastAddress, lastValue, outlived>>
config == <<layout, initialAddress, providers>>
progress == <<reset, cursor>>
vars == <<storage, config, cache, progress, call, answer, faults>>

-----------------------------------------------------------------------------
(* Layouts.                                                                  *)

\* Bytes of one Hwa access, and parameters that share a byte.
Width(t) == 
  CASE t = "Word" -> WORD_SIZE_IN_BYTES [] t = "Dword" -> DWORD_SIZE_IN_BYTES
    [] OTHER -> 1
PerByte(t) ==
  CASE t = "Bit" -> BYTE_BIT_COUNT [] t = "HalfByte" -> 2 [] OTHER -> 1
FieldSize(t) == Power(2, BYTE_BIT_COUNT \div PerByte(t))

\* Mutant: the partly filled last byte of a packed section is not counted.
section_byte_size_Floor(n, t) ==
  IF t \in Packed THEN n \div PerByte(t) ELSE n * Width(t)

section_byte_size(n, t) ==
  IF t \in Packed THEN (n + PerByte(t) - 1) \div PerByte(t) ELSE n * Width(t)

Sum(f) == LET upTo[n \in 0 .. Len(f)] == IF n = 0 THEN 0 ELSE upTo[n - 1] + f[n]
          IN upTo[Len(f)]

\* The addresses make_block() and make_layout() stamp in.
SectionOffset(block, s) ==
  Sum([i \in 1 .. s - 1 |-> section_byte_size(block[i].count, block[i].type)])
BlockSize(block) == SectionOffset(block, Len(block) + 1)
BlockOffset(l, b) == Sum([i \in 1 .. b - 1 |-> BlockSize(l[i])])
layout_size(l) == BlockOffset(l, Len(l) + 1)

\* What the layout UID hashes: counts and types, not the default values.
Uid(l) ==
  [b \in DOMAIN l |-> [s \in DOMAIN l[b] |-> <<l[b][s].count, l[b][s].type>>]]

section_address(b, s) ==
  initialAddress + BlockOffset(layout, b) + SectionOffset(layout[b], s)

\* The parameters check_parameters() accepts.
Parameters ==
  UNION {UNION {{<<b, s, p>> : p \in 0 .. layout[b][s].count - 1} :
                  s \in DOMAIN layout[b]} : b \in DOMAIN layout}
SectionOf(q) == layout[q[1]][q[2]]
TypeOf(q) == SectionOf(q).type

\* The address of the access to a parameter, and its place in the byte there.
AddressOf(q) ==
  section_address(q[1], q[2]) +
  IF TypeOf(q) = "Bit" THEN (q[3] \div BYTE_BIT_COUNT) % IndexLimit
  ELSE IF TypeOf(q) = "HalfByte" THEN q[3] \div 2 ELSE q[3] * Width(TypeOf(q))
Place(q) == Power(FieldSize(TypeOf(q)), q[3] % PerByte(TypeOf(q)))

Field(byte, q) == (byte \div Place(q)) % FieldSize(TypeOf(q))
WithField(byte, q, v) == byte + (v - Field(byte, q)) * Place(q)

-----------------------------------------------------------------------------
(* The Hwa.                                                                  *)

HwaRead(store, a, t) ==
  Sum([i \in 1 .. Width(t) |-> store[a + i - 1] * Power(ByteSize, i - 1)])

\* The storage after the first n bytes of a value are written.
HwaWrite(a, v, n) ==
  [x \in Addresses |-> IF x \in a .. a + n - 1
                       THEN (v \div Power(ByteSize, x - a)) % ByteSize
                       ELSE storage[x]]

HwaFails == faults < MaxFaults /\ faults' = faults + 1

\* What read() of a parameter returns when it asks the Hwa.
Stored(store, q) ==
  IF TypeOf(q) \in Packed THEN Field(store[AddressOf(q)], q)
  ELSE HwaRead(store, AddressOf(q), TypeOf(q))

-----------------------------------------------------------------------------
(* write(): drop the cached byte, write, read back and compare.              *)

\* Mutant: the cached byte survives a write of its address.
Invalidate_Never(a) == a = a /\ UNCHANGED cache

Invalidate(a) ==
  /\ lastAddress' = IF a = lastAddress THEN INVALID_ADDRESS ELSE lastAddress
  /\ UNCHANGED <<lastValue, outlived>>

\* The Hwa took the value and gives back the same.
WriteVerified(a, v, t) ==
  /\ v < Power(ByteSize, Width(t))
  /\ storage' = HwaWrite(a, v, Width(t))
  /\ UNCHANGED faults

\* The Hwa refuses, or the value read back differs.
WriteRefused(a, v, t) ==
  \/ /\ v >= Power(ByteSize, Width(t))
     /\ storage' = HwaWrite(a, v, Width(t))
     /\ UNCHANGED faults
  \/ /\ HwaFails
     /\ \E n \in 0 .. Width(t) : storage' = HwaWrite(a, v, n)

write(a, v, t, written) ==
  /\ Invalidate(a)
  /\ IF written THEN WriteVerified(a, v, t) ELSE WriteRefused(a, v, t)

-----------------------------------------------------------------------------
(* The public functions.                                                     *)

Idle == reset = None

Called(name, at, value) == call' = [name |-> name, at |-> at, value |-> value]

\* Mutant: the start address is not counted against the storage.
set_layout_NoStart(l, a) ==
  /\ Idle
  /\ Called("other", <<>>, None)
  /\ UNCHANGED <<storage, lastAddress, lastValue, providers, progress, faults>>
  /\ IF l = <<>> \/ layout_size(l) > AddressCount
     THEN answer' = FALSE /\ UNCHANGED <<layout, initialAddress, outlived>>
     ELSE /\ layout' = l /\ initialAddress' = a
          /\ answer' = TRUE /\ outlived' = TRUE

set_layout(l, a) ==
  /\ Idle
  /\ Called("other", <<>>, None)
  /\ UNCHANGED <<storage, lastAddress, lastValue, providers, progress, faults>>
  /\ IF a >= AddressCount \/ l = <<>> \/ layout_size(l) > AddressCount - a
     THEN answer' = FALSE /\ UNCHANGED <<layout, initialAddress, outlived>>
     ELSE /\ layout' = l /\ initialAddress' = a
          /\ answer' = TRUE /\ outlived' = TRUE

\* A packed parameter whose byte is the one read last.
ReadCached(q) ==
  /\ TypeOf(q) \in Packed /\ AddressOf(q) = lastAddress
  /\ answer' = Field(lastValue, q)
  /\ UNCHANGED <<cache, faults>>

\* The address is noted for every type but Dword, the value for the packed.
ReadStorage(q) ==
  /\ ~(TypeOf(q) \in Packed /\ AddressOf(q) = lastAddress)
  /\ answer' = Stored(storage, q)
  /\ IF TypeOf(q) = "Dword" THEN UNCHANGED cache
     ELSE /\ lastAddress' = AddressOf(q) /\ outlived' = FALSE
          /\ lastValue' = IF TypeOf(q) \in Packed
                          THEN storage[AddressOf(q)] ELSE lastValue
  /\ UNCHANGED faults

ReadFails(q) ==
  /\ ~(TypeOf(q) \in Packed /\ AddressOf(q) = lastAddress)
  /\ HwaFails
  /\ answer' = None /\ UNCHANGED cache

read(q) ==
  /\ Idle
  /\ Called("read", q, None)
  /\ UNCHANGED <<storage, config, progress>>
  /\ ReadCached(q) \/ ReadStorage(q) \/ ReadFails(q)

\* Mutant: an update writes the whole byte of a packed parameter.
Updated_WholeByte(q, v) == v % Power(FieldSize(TypeOf(q)), Width(TypeOf(q)))

\* What update() writes: the value cut to its width, in its place.
Updated(q, v) ==
  IF TypeOf(q) \in Packed
  THEN WithField(storage[AddressOf(q)], q, v % FieldSize(TypeOf(q)))
  ELSE v % Power(ByteSize, Width(TypeOf(q)))

UpdateWrites(q, v) ==
  \E written \in BOOLEAN :
    /\ write(AddressOf(q), Updated(q, v), TypeOf(q), written)
    /\ answer' = written

\* The byte around a packed parameter cannot be read.
UpdateFails(q) ==
  /\ TypeOf(q) \in Packed /\ HwaFails
  /\ answer' = FALSE /\ UNCHANGED <<storage, cache>>

update(q, v) ==
  /\ Idle
  /\ Called("update", q, v)
  /\ UNCHANGED <<config, progress>>
  /\ UpdateWrites(q, v) \/ UpdateFails(q)

\* read() and update() of what check_parameters() rejects.
Rejected ==
  /\ Idle
  /\ Called("other", <<>>, None) /\ answer' = FALSE
  /\ UNCHANGED <<storage, config, cache, progress, faults>>

clear ==
  /\ Idle
  /\ Called("clear", <<>>, None)
  /\ \/ answer' = TRUE /\ storage' = [a \in Addresses |-> 0] /\ UNCHANGED faults
     \/ answer' = FALSE /\ HwaFails /\ UNCHANGED storage
  /\ outlived' = TRUE
  /\ UNCHANGED <<config, lastAddress, lastValue, progress>>

register_layout_init_provider(b, s, provider) ==
  /\ Idle /\ Len(providers) < MaxProviders
  /\ providers' = Append(providers, [uid |-> Uid(layout), block |-> b,
                                     section |-> s, provider |-> provider])
  /\ Called("other", <<>>, None) /\ answer' = None
  /\ UNCHANGED <<storage, layout, initialAddress, cache, progress, faults>>

clear_init_providers ==
  /\ Idle
  /\ providers' = <<>>
  /\ Called("other", <<>>, None) /\ answer' = None
  /\ UNCHANGED <<storage, layout, initialAddress, cache, progress, faults>>

-----------------------------------------------------------------------------
(* init_data().                                                              *)

\* The providers of a parameter's section that have a value for it.
Overrides(q) ==
  {i \in DOMAIN providers : /\ providers[i].uid = Uid(layout)
                            /\ providers[i].block = q[1]
                            /\ providers[i].section = q[2]
                            /\ providers[i].provider[q[3]] # None}

FirstOf(S) == CHOOSE i \in S : \A j \in S : i <= j

init_value(q, default) ==
  IF Overrides(q) = {} THEN default
  ELSE providers[FirstOf(Overrides(q))].provider[q[3]]

\* The value a parameter is reset to; packed sections do not increment it.
ResetValue(q) ==
  IF TypeOf(q) \in Packed
  THEN init_value(q, SectionOf(q).default) % FieldSize(TypeOf(q))
  ELSE init_value(q, SectionOf(q).default +
                     IF SectionOf(q).increment THEN q[3] ELSE 0)

Skipped(q) == SectionOf(q).preserve /\ reset = "Partial"

\* Where init_data() puts a parameter: the section's next unit, unwrapped.
UnitAddress(q) ==
  section_address(q[1], q[2]) + (q[3] \div PerByte(TypeOf(q))) * Width(TypeOf(q))

\* The parameters of the next unit in address order.
NextUnit ==
  LET todo == {q \in Parameters : ~Skipped(q) /\ UnitAddress(q) >= cursor}
  IN {q \in todo : \A r \in todo : UnitAddress(q) <= UnitAddress(r)}

\* What it writes there: the reset values of the parameters that share the byte.
UnitValue(q) ==
  LET t == TypeOf(q)
      first == q[3] - (q[3] % PerByte(t))
      InUnit(i) == <<q[1], q[2], first + i - 1>>
  IN Sum([i \in 1 .. PerByte(t) |->
            IF first + i - 1 < SectionOf(q).count
            THEN ResetValue(InUnit(i)) * Place(InUnit(i)) ELSE 0])

init_data(type) ==
  /\ Idle
  /\ reset' = type /\ cursor' = 0
  /\ Called("init_data", <<>>, type) /\ answer' = None
  /\ UNCHANGED <<storage, config, cache, faults>>

InitWrites ==
  /\ ~Idle /\ NextUnit # {}
  /\ LET q == CHOOSE x \in NextUnit : TRUE
     IN \E written \in BOOLEAN :
          /\ write(UnitAddress(q), UnitValue(q), TypeOf(q), written)
          /\ IF written
             THEN cursor' = UnitAddress(q) + 1 /\ UNCHANGED <<reset, answer>>
             ELSE reset' = None /\ cursor' = 0 /\ answer' = FALSE
  /\ UNCHANGED <<config, call>>

InitDone ==
  /\ ~Idle /\ NextUnit = {}
  /\ reset' = None /\ cursor' = 0 /\ answer' = TRUE
  /\ UNCHANGED <<storage, config, cache, call, faults>>

-----------------------------------------------------------------------------
Init ==
  /\ storage = [a \in Addresses |-> 0]
  /\ layout = <<>> /\ initialAddress = 0
  /\ lastAddress = INVALID_ADDRESS /\ lastValue = 0 /\ outlived = FALSE
  /\ providers = <<>>
  /\ reset = None /\ cursor = 0
  /\ call = [name |-> "none", at |-> <<>>, value |-> None] /\ answer = None
  /\ faults = 0

Next ==
  \/ \E l \in Layouts, a \in StartAddresses : set_layout(l, a)
  \/ \E q \in Parameters : read(q)
  \/ \E q \in Parameters, v \in NewValues : update(q, v)
  \/ Rejected
  \/ clear
  \/ \E b \in DOMAIN layout, f \in InitProviders : \E s \in DOMAIN layout[b] :
       register_layout_init_provider(b, s, f)
  \/ clear_init_providers
  \/ \E type \in {"Full", "Partial"} : init_data(type)
  \/ InitWrites
  \/ InitDone

Spec == Init /\ [][Next]_vars

-----------------------------------------------------------------------------
(* Properties.                                                               *)

\* Parameters of a bit section whose array_index is the same after the wrap.
Aliases(q, r) ==
  /\ q[1] = r[1] /\ q[2] = r[2]
  /\ AddressOf(q) = AddressOf(r) /\ Place(q) = Place(r)

Fits(q) == AddressOf(q) = UnitAddress(q)
Cut(q, v) == v % Power(FieldSize(TypeOf(q)), Width(TypeOf(q)))

\* Every variable has its type; the cached address is inside the storage.
TypeOK ==
  /\ storage \in [Addresses -> Bytes]
  /\ initialAddress \in Nat
  /\ layout # <<>> => initialAddress + layout_size(layout) <= AddressCount
  /\ lastAddress \in 0 .. INVALID_ADDRESS
  /\ lastValue \in Bytes
  /\ reset \in {None, "Full", "Partial"}
  /\ cursor \in 0 .. AddressCount
  /\ faults \in 0 .. MaxFaults
  /\ outlived \in BOOLEAN

\* What read() returns is what the storage holds, whether the byte came from
\* the cache or from the Hwa: no update, reset or failed write leaves the cache
\* of the last byte behind.  Only clear() and set_layout() do.
ReadIsFresh ==
  (call.name = "read" /\ answer # None /\ ~outlived)
    => answer = Stored(storage, call.at)

\* When update() returns true the parameter has the new value, cut to its
\* width.  When init_data() returns true every parameter it does not preserve
\* has the value of its first willing provider, or its default.
SuccessIsStored ==
  /\ (call.name = "update" /\ answer = TRUE)
       => Stored(storage, call.at) = Cut(call.at, call.value)
  /\ (call.name = "init_data" /\ answer = TRUE)
       => \A q \in Parameters :
            Fits(q) /\ ~(SectionOf(q).preserve /\ call.value = "Partial")
              => Stored(storage, q) = ResetValue(q)

\* A parameter changes only by an update of it (or of one the wrapped
\* array_index mistakes for it), by clear(), or by a reset that does not
\* preserve its section: neighbours in the same byte, other sections and
\* preserved sections keep their values, also when a write fails half way.
ChangesAreOwned ==
  [][storage' # storage
     => \A q \in Parameters :
          \/ Stored(storage', q) = Stored(storage, q)
          \/ call'.name = "clear"
          \/ call'.name = "update" /\ Aliases(q, call'.at)
          \/ call'.name = "init_data" /\ ~Skipped(q)]_vars
=============================================================================
