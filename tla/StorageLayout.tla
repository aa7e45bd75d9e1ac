---------------------------- MODULE StorageLayout ----------------------------
(***************************************************************************)
(* codegen/storage_layout.rs: at which slot and byte each member of an     *)
(* entity is kept, as the generated tests need it to seed members with     *)
(* vm.store; and the seeding itself (codegen/evm_test_codegen.rs).  The    *)
(* contract declares its members in solidity/evm/entity.rs, and solc lays  *)
(* them out; the two have to agree.                                        *)
(*                                                                         *)
(* A type is what compute_layout meets on its walk through it, in order:   *)
(* one token for a value of some bytes, a mapping or array, an Option, and *)
(* two around the fields of a record or of an enum with payloads.          *)
(***************************************************************************)
EXTENDS Integers, Sequences, FiniteSets

CONSTANT Entities     \* their members and how they are built

WordBytes == 32

Tokens ==
  [tok : {"value", "option"}, size : 1..WordBytes]
    \cup [tok : {"dynamic"}, size : {WordBytes}]
    \cup [tok : {"record", "payload", "close"}, size : {0}]

Value(n) == [tok |-> "value", size |-> n]
Option(n) == [tok |-> "option", size |-> n]
Dynamic == [tok |-> "dynamic", size |-> WordBytes]
Record == [tok |-> "record", size |-> 0]
Payload == [tok |-> "payload", size |-> 0]
Close == [tok |-> "close", size |-> 0]

\* How many records and enums are open behind the first k tokens of a type.
Depth(type, k) ==
  Cardinality({ j \in 1..k : type[j].tok \in {"record", "payload"} })
    - Cardinality({ j \in 1..k : type[j].tok = "close" })

\* One value, or one struct with its fields; solc takes no struct without any.
WellNested(type) ==
  /\ type # << >> /\ Depth(type, Len(type)) = 0
  /\ \A k \in 1..(Len(type) - 1) :
       Depth(type, k) > 0 /\ (type[k].tok = "record" => type[k + 1].tok # "close")

\* Nor does solc take a contract that declares a name twice.
EntitiesAssumption ==
  \A e \in Entities :
    /\ e.members \in Seq([ name : STRING, kind : {"identity", "mapping", "array", "plain"},
                           exists : {"never", "transform", "elsewhere"},
                           iterated : BOOLEAN, inner : BOOLEAN, type : Seq(Tokens) ])
    /\ {e.asked, e.built, e.initParams} \subseteq BOOLEAN
    /\ \A i \in DOMAIN e.members :
         /\ WellNested(e.members[i].type)
         /\ e.members[i].kind \in {"mapping", "array"} => e.members[i].type = << Dynamic >>
         /\ \A j \in DOMAIN e.members : e.members[i].name = e.members[j].name => i = j

ASSUME LaidOut == EntitiesAssumption

VARIABLES
  entity,       \* its members and initParams; deterministic, as built and as asked for
  at,           \* the member compute_layout_with_records is at
  rest,         \* what is left of its type
  nest,         \* the records and enums that are open, innermost first
  start,        \* the slot in which the outermost of them starts
  slot, used,   \* next_slot, used_in_slot
  slots,        \* the layout so far: name, slot, offset, size, kind
  stage,        \* "layout", "seed"
  seeded,       \* the members the test's starting state has set
  word          \* the bytes of each slot: which member's byte, and whose value

layoutVars == <<entity, at, rest, nest, start, slot, used, slots, stage, seeded, word>>

Members == entity.members
Member == Members[at]
Fresh == IF used > 0 THEN slot + 1 ELSE slot

\* transforms_use_exists: a transform of some member asks m.exists(k).
ShadowedInLayout(m) == m.kind = "mapping" /\ m.exists = "transform"

\* The sidecars that are declared behind a mapping (emit_members).
Iterated(m) == m.kind = "mapping" /\ m.iterated
Shadowed(m) == m.kind = "mapping" /\ (m.exists # "never" \/ m.iterated)

\* What an entry is of: a member, its exists sidecar, or _initialized.
Itself(name) == <<name, "">>
ExistsOf(name) == <<name, "exists">>
Initialized == <<"", "initialized">>

Entry(name, s, o, n, kind) == [name |-> name, slot |-> s, offset |-> o, size |-> n, kind |-> kind]

-----------------------------------------------------------------------------
Start ==
  /\ at = 1 /\ rest = << >> /\ nest = << >> /\ start = 0
  /\ slot = 0 /\ used = 0 /\ slots = {}
  /\ stage = "layout" /\ seeded = {} /\ word = << >>

LayoutInit == entity \in Entities /\ Start

\* Mutant: a value that fills a word to the end starts the next.
PlaceShort(n) ==
  LET full == used > 0 /\ used + n >= WordBytes
      s == IF full THEN slot + 1 ELSE slot
      o == IF full THEN 0 ELSE used
  IN  [slot |-> s, offset |-> o, next |-> s, used |-> o + n]

\* Where a value of n bytes goes, and what is next behind it.
Place(n) ==
  LET full == used > 0 /\ used + n > WordBytes
      s == IF full THEN slot + 1 ELSE slot
      o == IF full THEN 0 ELSE used
  IN  [slot |-> s, offset |-> o,
       next |-> IF o + n = WordBytes THEN s + 1 ELSE s,
       used |-> IF o + n = WordBytes THEN 0 ELSE o + n]

Laying == stage = "layout" /\ at <= Len(Members)
AtMember == Laying /\ nest = << >>
NextMember == at' = at + 1

\* An identity member is immutable and takes no slot.
SkipIdentity ==
  /\ AtMember /\ Member.kind = "identity"
  /\ NextMember /\ UNCHANGED <<entity, rest, nest, start, slot, used, slots, stage, seeded, word>>

\* A mapping or an array starts a slot and ends it; behind a mapping follows
\* its exists sidecar.
PlaceOwnSlot ==
  /\ AtMember /\ Member.kind \in {"mapping", "array"}
  /\ LET shadow == ShadowedInLayout(Member) IN
       /\ slots' = slots \cup {Entry(Itself(Member.name), Fresh, 0, WordBytes, Member.kind)}
                     \cup IF shadow
                          THEN {Entry(ExistsOf(Member.name), Fresh + 1, 0, WordBytes, "mapping")}
                          ELSE {}
       /\ slot' = Fresh + (IF shadow THEN 2 ELSE 1)
  /\ used' = 0
  /\ NextMember /\ UNCHANGED <<entity, rest, nest, start, stage, seeded, word>>

\* sol_value_nbytes: an Option counts as one word.
SizeOf(t) == IF t.tok = "value" THEN t.size ELSE WordBytes

PlaceValue ==
  /\ AtMember /\ Member.kind = "plain" /\ Head(Member.type).tok \in {"value", "option"}
  /\ LET n == SizeOf(Head(Member.type)) IN
       /\ slots' = slots \cup {Entry(Itself(Member.name), Place(n).slot, Place(n).offset, n, "value")}
       /\ slot' = Place(n).next /\ used' = Place(n).used
  /\ NextMember /\ UNCHANGED <<entity, rest, nest, start, stage, seeded, word>>

\* A record or an enum with payloads starts a slot; the enum's tag is a byte.
OpenStruct(t) ==
  /\ slot' = Fresh /\ used' = IF t.tok = "payload" THEN 1 ELSE 0
  /\ nest' = <<t.tok>> \o nest

OpenMember ==
  /\ AtMember /\ Member.kind = "plain" /\ Head(Member.type).tok \in {"record", "payload"}
  /\ OpenStruct(Head(Member.type))
  /\ start' = Fresh /\ rest' = Tail(Member.type)
  /\ UNCHANGED <<entity, at, slots, stage, seeded, word>>

-----------------------------------------------------------------------------
\* pack_record_fields, pack_payload_enum_fields.
InStruct == Laying /\ nest # << >> /\ rest # << >>
NextField == rest' = Tail(rest) /\ UNCHANGED <<entity, at, start, slots, stage, seeded, word>>

\* Among the payloads of an enum only records are looked into: an enum with
\* payloads counts as one word there.  One that fits is met as an Option is, a
\* larger one is left out.
OpenField ==
  /\ InStruct
  /\ \/ Head(rest).tok = "record"
     \/ Head(rest).tok = "payload" /\ Head(nest) = "record"
  /\ OpenStruct(Head(rest)) /\ NextField

OwnSlotField ==
  /\ InStruct /\ Head(rest).tok = "dynamic" /\ Head(nest) = "record"
  /\ slot' = Fresh + 1 /\ used' = 0
  /\ NextField /\ UNCHANGED nest

ValueField ==
  /\ InStruct
  /\ \/ Head(rest).tok \in {"value", "option"}
     \/ Head(rest).tok = "dynamic" /\ Head(nest) = "payload"
  /\ LET p == Place(SizeOf(Head(rest))) IN slot' = p.next /\ used' = p.used
  /\ NextField /\ UNCHANGED nest

\* What follows a struct starts a slot.
CloseField ==
  /\ InStruct /\ Head(rest).tok = "close" /\ Len(nest) > 1
  /\ slot' = Fresh /\ used' = 0
  /\ nest' = Tail(nest) /\ NextField

CloseMember ==
  /\ InStruct /\ Head(rest).tok = "close" /\ Len(nest) = 1
  /\ slots' = slots \cup {Entry(Itself(Member.name), start, 0, WordBytes * (Fresh - start), "struct")}
  /\ slot' = Fresh /\ used' = 0 /\ nest' = << >> /\ rest' = << >>
  /\ NextMember /\ UNCHANGED <<entity, start, stage, seeded, word>>

\* _initialized is packed behind the members.
Finish ==
  /\ stage = "layout" /\ at > Len(Members)
  /\ stage' = "seed"
  /\ slots' = slots \cup
       IF entity.asked /\ entity.initParams
       THEN {Entry(Initialized, Place(1).slot, Place(1).offset, 1, "value")}
       ELSE {}
  /\ UNCHANGED <<entity, at, rest, nest, start, slot, used, seeded, word>>

-----------------------------------------------------------------------------
(***************************************************************************)
(* The starting state of a test (`with { member: value }`).                *)
(***************************************************************************)
EntryOf(name) == CHOOSE e \in slots : e.name = Itself(name)

\* Mutant: what begins a word is taken for alone in it.
ExclusiveFirst(e) == e.offset = 0

\* is_exclusive: a store of the whole word harms no neighbour.
Exclusive(e) ==
  e.size = WordBytes \/ e.kind = "struct" \/ { f \in slots : f.slot = e.slot } = {e}

\* low_mask is a u128.
Masked(e) == IF e.size > 16 THEN 16 ELSE e.size

ByteOf(name, i) == [of |-> name, byte |-> i]
Blank == [of |-> "zero", byte |-> 0]

\* vm.store of the word, or of the bits of the member in what vm.load gives.
WholeWord(e) ==
  [ a \in { e.slot * WordBytes + i : i \in 0..(WordBytes - 1) } |->
      LET i == a - e.slot * WordBytes IN IF i < e.size THEN ByteOf(e.name[1], i) ELSE Blank ]
PackedField(e) ==
  [ a \in { e.slot * WordBytes + e.offset + i : i \in 0..(Masked(e) - 1) } |->
      ByteOf(e.name[1], a - e.slot * WordBytes - e.offset) ]

Stores(bytes) ==
  [ a \in DOMAIN bytes \cup DOMAIN word |-> IF a \in DOMAIN bytes THEN bytes[a] ELSE word[a] ]

\* gen_state_init seeds values; arrays, identities and unknown members are
\* left with a comment, and structs have no word to store.
Seed(m) ==
  /\ stage = "seed" /\ m.kind = "plain" /\ m.name \notin seeded
  /\ LET e == EntryOf(m.name) IN
       /\ e.kind = "value"
       /\ word' = Stores(IF Exclusive(e) THEN WholeWord(e) ELSE PackedField(e))
  /\ seeded' = seeded \cup {m.name}
  /\ UNCHANGED <<entity, at, rest, nest, start, slot, used, slots, stage>>

LayoutNext ==
  \/ SkipIdentity \/ PlaceOwnSlot \/ PlaceValue \/ OpenMember
  \/ OpenField \/ OwnSlotField \/ ValueField \/ CloseField \/ CloseMember
  \/ Finish \/ \E i \in DOMAIN Members : Seed(Members[i])

LayoutSpec == LayoutInit /\ [][LayoutNext]_layoutVars

-----------------------------------------------------------------------------
Position(e) == e.slot * WordBytes + e.offset

\* No byte of storage belongs to two entries, and a value lies in one word.
NoSharedBytes ==
  /\ \A e, f \in slots :
       e # f => \/ Position(e) + e.size <= Position(f)
                \/ Position(f) + f.size <= Position(e)
  /\ \A e \in slots : e.kind = "value" => e.offset + e.size <= WordBytes

-----------------------------------------------------------------------------
(***************************************************************************)
(* solc's rules, over the declarations of the contract: a value stays in a *)
(* word if it fits, and all else starts one; behind an array, a mapping or *)
(* a struct a new word begins.  Positions are bytes of all storage.        *)
(***************************************************************************)
RoundUp(p) == ((p + WordBytes - 1) \div WordBytes) * WordBytes

SolcPlace(p, t) ==
  IF t.tok = "value" /\ (p % WordBytes) + t.size <= WordBytes THEN p ELSE RoundUp(p)

SolcPast(p, t) == SolcPlace(p, t) + t.size

\* An Option is a struct of a tag and a payload, a payload enum one of a tag
\* and the payloads of all variants.
PastToken(p, t) ==
  CASE t.tok = "option" ->
         SolcPast(SolcPast(SolcPast(SolcPast(p, Record), Value(1)), Value(t.size)), Close)
    [] t.tok = "payload" -> SolcPast(SolcPast(p, Record), Value(1))
    [] OTHER -> SolcPast(p, t)

\* How far solc is behind each token of a type that starts at p or later.
PastTokens(p, type) ==
  LET past[k \in 0..Len(type)] == IF k = 0 THEN p ELSE PastToken(past[k - 1], type[k])
  IN  past
PastType(p, type) == PastTokens(p, type)[Len(type)]

Stored(m) == m.kind # "identity" \/ m.type[1].tok = "dynamic"

\* The mappings and arrays declared behind a mapping, in order.
Sidecars(m) ==
  (IF Shadowed(m) THEN << "exists" >> ELSE << >>)
    \o (IF m.kind = "mapping" /\ m.inner THEN << "inner_exists" >> ELSE << >>)
    \o (IF Iterated(m) THEN << "keys", "keys_index" >> ELSE << >>)

\* What gen_entity_contract declares for a member, and where solc keeps it if
\* all before ends at p.
Declared(m, p) ==
  IF ~Stored(m) THEN {}
  ELSE {[name |-> Itself(m.name), pos |-> SolcPlace(p, m.type[1])]}
         \cup { [name |-> <<m.name, Sidecars(m)[j]>>, pos |-> PastType(p, m.type) + WordBytes * (j - 1)] :
                  j \in DOMAIN Sidecars(m) }

PastMember(p, m) ==
  IF Stored(m) THEN PastType(p, m.type) + WordBytes * Len(Sidecars(m)) ELSE p

PastMembers(ms) ==
  LET past[k \in 0..Len(ms)] == IF k = 0 THEN 0 ELSE PastMember(past[k - 1], ms[k])
  IN  past

\* Where solc keeps what the contract declares.
Contract ==
  LET past == PastMembers(Members) IN
    (UNION { Declared(Members[i], past[i - 1]) : i \in DOMAIN Members })
      \cup IF entity.built /\ entity.initParams
           THEN {[name |-> Initialized, pos |-> SolcPlace(past[Len(Members)], Value(1))]}
           ELSE {}

\* What compute_layout does not see: sidecars that a route, an invariant or a
\* library asks for, an inner exists mapping, identities of a dynamic type,
\* and that an Option of a whole word takes two.
Overlooked(m) ==
  \/ m.kind = "mapping" /\ (m.iterated \/ m.inner \/ m.exists = "elsewhere")
  \/ m.kind = "identity" /\ m.type[1].tok = "dynamic"
  \/ \E k \in DOMAIN m.type : m.type[k] = Option(WordBytes)

AllSeen == \A i \in DOMAIN Members : ~Overlooked(Members[i])

\* Except for these, the layout is solc's: every entry is where the contract
\* keeps the member, and nothing the contract keeps is without an entry.
LayoutIsSolc ==
  stage = "seed" /\ entity.asked = entity.built /\ AllSeen =>
    { [name |-> e.name, pos |-> Position(e)] : e \in slots } = Contract

\* The bytes a member has in its word, if it is a plain value.
IsValue(m) == m.kind = "plain" /\ m.type[1].tok = "value"
BytesOf(m) == { i \in 0..(WordBytes - 1) : i < m.type[1].size }

\* What the contract keeps in the same word.
Sharing(contract, d) ==
  { c \in contract \ {d} : c.pos \div WordBytes = d.pos \div WordBytes }

\* What a test's starting state sets is what the contract reads, and what it
\* does not set is as it was.  Two things are lost: of a packed address the
\* upper four bytes, for a mask of 128 bits, and _initialized behind a lone
\* small value, which the harness takes for alone (it lays out without it).
SeedsReadBack ==
  stage = "seed" /\ ~entity.asked /\ AllSeen =>
    LET contract == Contract
        Set == { Itself(n) : n \in seeded }
    IN  \A d \in contract :
          /\ \A j \in DOMAIN Members :
               LET m == Members[j] IN
                 d.name = Itself(m.name) /\ IsValue(m) =>
                   \A i \in BytesOf(m) :
                     IF m.name \in seeded
                     THEN i < 16 \/ Sharing(contract, d) = {} =>
                            d.pos + i \in DOMAIN word /\ word[d.pos + i] = ByteOf(m.name, i)
                     ELSE d.pos + i \notin DOMAIN word
          /\ d.name \in Set \/ d.pos \notin DOMAIN word
               \/ (d.name = Initialized /\ \E k \in contract : k.name \in Set /\ Sharing(contract, k) = {d})

\* Where tests look for a member is where the contract keeps it
\* (compute_layout_with_records), and what they seed is what it reads
\* (gen_state_init), but for what Overlooked and SeedsReadBack name.
LayoutServesTests == LayoutIsSolc /\ SeedsReadBack

\* analysis.rs:887-893: under-detection of a sidecar "can at worst leave a
\* storage slot unallocated for a sidecar that the codegen will still emit":
\* whatever has an entry is where the contract keeps it.
SidecarsAtWorstUnallocated ==
  stage = "seed" /\ (\A i \in DOMAIN Members : Overlooked(Members[i]) => Members[i].exists = "elsewhere") =>
    { [name |-> e.name, pos |-> Position(e)] : e \in slots } \subseteq Contract
=============================================================================
