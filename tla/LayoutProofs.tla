---------------------------- MODULE LayoutProofs ----------------------------
(***************************************************************************)
(* Of a computed layout, whatever the members and however deep their       *)
(* records and enums nest: no two entries share a byte; each is where solc *)
(* keeps the member; and what a test seeds by it is what the contract      *)
(* reads, but for what the model names.                                    *)
(*                                                                         *)
(* The first argument is a frontier.  Everything placed so far lies before *)
(* the place where the next thing may go: (slot, used) between members,    *)
(* and the first byte of the outermost struct while one is open.  Placing  *)
(* never goes back, so what is placed next lies behind all of it.          *)
(*                                                                         *)
(* The second is that this place, counted in bytes, is the one solc has    *)
(* come to at the same token of the same member; solc's own is a recursive *)
(* function of the tokens, and of the members, and each step of the layout *)
(* is one of its steps.  The third follows from both: a store of a whole   *)
(* word is made only for what has the word for itself.                     *)
(***************************************************************************)
EXTENDS StorageLayout, FiniteSetTheorems, SequenceTheorems, WellFoundedInduction, TLAPS

Frontier == IF nest = << >> THEN slot * WordBytes + used ELSE start * WordBytes

Typed ==
  /\ entity \in Entities
  /\ at \in Nat \ {0}
  /\ rest \in Seq(Tokens) /\ nest \in Seq({"record", "payload"})
  /\ slot \in Nat /\ used \in 0..(WordBytes - 1) /\ start \in Nat
  /\ \A e \in slots : e.slot \in Nat /\ e.offset \in Nat /\ e.size \in Nat

\* A struct that is open started at or before next_slot, and is a member's.
Behind == nest # << >> => start <= slot /\ at <= Len(entity.members)

Placed == stage = "layout" => \A e \in slots : Position(e) + e.size <= Frontier

IInv == Typed /\ Behind /\ Placed /\ NoSharedBytes

-----------------------------------------------------------------------------
\* Where a value goes: in the word the frontier is in or at the start of the
\* next, never across two, and the frontier moves just behind it.
LEMMA PlaceGoesOn ==
  ASSUME slot \in Nat, used \in 0..(WordBytes - 1), NEW n \in 1..WordBytes
  PROVE  /\ Place(n).slot \in Nat /\ Place(n).offset \in Nat
         /\ Place(n).offset + n <= WordBytes
         /\ Place(n).next \in Nat /\ Place(n).used \in 0..(WordBytes - 1)
         /\ slot * WordBytes + used <= Place(n).slot * WordBytes + Place(n).offset
         /\ Place(n).slot * WordBytes + Place(n).offset + n
              = Place(n).next * WordBytes + Place(n).used
         /\ slot <= Place(n).next
BY DEF Place, WordBytes

LEMMA FreshGoesOn ==
  ASSUME slot \in Nat, used \in 0..(WordBytes - 1)
  PROVE  Fresh \in Nat /\ slot <= Fresh /\ slot * WordBytes + used <= Fresh * WordBytes
BY DEF Fresh, WordBytes

LEMMA TokenSizes ==
  ASSUME NEW t \in Tokens, t.tok \in {"value", "option", "dynamic"}
  PROVE  SizeOf(t) \in 1..WordBytes
BY DEF Tokens, SizeOf, WordBytes

LEMMA MemberTyped ==
  ASSUME entity \in Entities, at \in Nat \ {0}, at <= Len(Members)
  PROVE  Member.type \in Seq(Tokens) /\ Member.type # << >>
<1> DEFINE M == [ name : STRING, kind : {"identity", "mapping", "array", "plain"},
                  exists : {"never", "transform", "elsewhere"},
                  iterated : BOOLEAN, inner : BOOLEAN, type : Seq(Tokens) ]
<1>1. Members \in Seq(M)
  BY LaidOut DEF EntitiesAssumption, Members
<1>2. Member \in M
  <2> HIDE DEF M
  <2> QED  BY <1>1 DEF Member
<1>3. Member.type # << >>
  BY LaidOut DEF EntitiesAssumption, Member, Members, WellNested
<1> QED  BY <1>2, <1>3

LEMMA TailStays ==
  ASSUME NEW S, NEW s \in Seq(S), Len(s) > 1
  PROVE  Tail(s) \in Seq(S) /\ Tail(s) # << >>
<1>1. s # << >> /\ Len(s) \in Nat
  BY EmptySeq, LenProperties
<1>2. Tail(s) \in Seq(S) /\ Len(Tail(s)) = Len(s) - 1
  BY <1>1, HeadTailProperties
<1>3. Len(Tail(s)) # 0
  BY <1>1, <1>2
<1>4. Len(<< >>) = 0
  BY EmptySeq
<1> QED  BY <1>2, <1>3, <1>4, Zenon

\* One more entry at or behind the frontier keeps the entries apart.
LEMMA OneMore ==
  ASSUME NEW S, NEW d, NEW end \in Nat,
         \A e \in S : e.slot \in Nat /\ e.offset \in Nat /\ e.size \in Nat,
         d.slot \in Nat, d.offset \in Nat, d.size \in Nat,
         \A e \in S : Position(e) + e.size <= end, end <= Position(d),
         \A e, f \in S : e # f => \/ Position(e) + e.size <= Position(f)
                                  \/ Position(f) + f.size <= Position(e)
  PROVE  /\ \A e, f \in S \cup {d} : e # f => \/ Position(e) + e.size <= Position(f)
                                              \/ Position(f) + f.size <= Position(e)
         /\ \A e \in S \cup {d} : Position(e) + e.size <= Position(d) + d.size
         /\ \A e \in S \cup {d} : e.slot \in Nat /\ e.offset \in Nat /\ e.size \in Nat
BY DEF Position, WordBytes

-----------------------------------------------------------------------------
LEMMA InitFrontier == LayoutInit => IInv
BY DEF LayoutInit, Start, IInv, Typed, Behind, Placed, Frontier, NoSharedBytes, WordBytes, Tokens

LEMMA NextFrontier ==
  ASSUME IInv, [LayoutNext]_layoutVars
  PROVE  IInv'
<1> USE DEF IInv
<1>1. CASE SkipIdentity
  BY <1>1 DEF SkipIdentity, AtMember, Laying, NextMember, Typed, Behind, Placed, Frontier, NoSharedBytes, Position
<1>2. CASE PlaceOwnSlot
  <2> DEFINE d == Entry(Itself(Member.name), Fresh, 0, WordBytes, Member.kind)
             x == Entry(ExistsOf(Member.name), Fresh + 1, 0, WordBytes, "mapping")
             S == slots \cup {d}
  <2>1. /\ Fresh \in Nat /\ slot * WordBytes + used <= Fresh * WordBytes
        /\ nest = << >> /\ stage = "layout" /\ Member.kind # "value"
    BY <1>2, FreshGoesOn DEF PlaceOwnSlot, AtMember, Laying, Typed
  <2>2. /\ d.slot = Fresh /\ d.offset = 0 /\ d.size = WordBytes /\ d.kind # "value"
        /\ Position(d) = Fresh * WordBytes
        /\ x.slot = Fresh + 1 /\ x.offset = 0 /\ x.size = WordBytes /\ x.kind # "value"
        /\ Position(x) = (Fresh + 1) * WordBytes
    BY <2>1 DEF Entry, Position, WordBytes
  <2> DEFINE end == slot * WordBytes + used
  <2> HIDE DEF d, x
  <2>3. end \in Nat /\ \A e \in slots : Position(e) + e.size <= end
    BY <2>1 DEF Placed, Frontier, Typed, WordBytes
  <2>a. end <= Position(d) /\ d.slot \in Nat /\ d.offset \in Nat /\ d.size \in Nat
    BY <2>1, <2>2 DEF WordBytes
  <2>b. /\ \A e \in slots : e.slot \in Nat /\ e.offset \in Nat /\ e.size \in Nat
        /\ \A e, f \in slots : e # f => \/ Position(e) + e.size <= Position(f)
                                         \/ Position(f) + f.size <= Position(e)
    BY DEF Typed, NoSharedBytes
  <2> HIDE DEF end
  <2>4. /\ \A e, f \in S : e # f => \/ Position(e) + e.size <= Position(f)
                                    \/ Position(f) + f.size <= Position(e)
        /\ \A e \in S : Position(e) + e.size <= Position(d) + d.size
        /\ \A e \in S : e.slot \in Nat /\ e.offset \in Nat /\ e.size \in Nat
    BY <2>3, <2>a, <2>b, OneMore
  <2>5. \A e \in S : e.kind = "value" => e.offset + e.size <= WordBytes
    BY <2>2 DEF NoSharedBytes
  <2>6. CASE ~ShadowedInLayout(Member)
    <3>1. slots' = S /\ slot' = Fresh + 1 /\ used' = 0
      BY <1>2, <2>6 DEF PlaceOwnSlot, d
    <3> QED
      BY <3>1, <1>2, <2>1, <2>2, <2>4, <2>5
         DEF PlaceOwnSlot, NextMember, Typed, Behind, Placed, Frontier, NoSharedBytes, Position, WordBytes
  <2>7. CASE ShadowedInLayout(Member)
    <3>1. slots' = S \cup {x} /\ slot' = Fresh + 2 /\ used' = 0
      BY <1>2, <2>7 DEF PlaceOwnSlot, d, x
    <3> DEFINE mid == Position(d) + d.size
    <3>2. /\ mid \in Nat /\ mid <= Position(x) /\ \A e \in S : Position(e) + e.size <= mid
          /\ x.slot \in Nat /\ x.offset \in Nat /\ x.size \in Nat
      BY <2>1, <2>2, <2>4 DEF WordBytes
    <3> HIDE DEF mid, S
    <3>3. /\ \A e, f \in S \cup {x} : e # f => \/ Position(e) + e.size <= Position(f)
                                               \/ Position(f) + f.size <= Position(e)
          /\ \A e \in S \cup {x} : Position(e) + e.size <= Position(x) + x.size
          /\ \A e \in S \cup {x} : e.slot \in Nat /\ e.offset \in Nat /\ e.size \in Nat
      BY <3>2, <2>4, OneMore
    <3> QED
      BY <3>1, <3>3, <1>2, <2>1, <2>2, <2>5
         DEF PlaceOwnSlot, NextMember, Typed, Behind, Placed, Frontier, NoSharedBytes, Position, WordBytes
  <2> QED  BY <2>6, <2>7
<1>3. CASE PlaceValue
  <2> DEFINE n == SizeOf(Head(Member.type))
             d == Entry(Itself(Member.name), Place(n).slot, Place(n).offset, n, "value")
  <2>1. n \in 1..WordBytes /\ nest = << >> /\ stage = "layout"
    <3>1. Head(Member.type) \in Tokens /\ Head(Member.type).tok \in {"value", "option"}
      BY <1>3, MemberTyped DEF PlaceValue, AtMember, Laying, Typed
    <3> QED  BY <3>1, <1>3, TokenSizes DEF PlaceValue, AtMember, Laying
  <2> HIDE DEF n
  <2>2. /\ Place(n).slot \in Nat /\ Place(n).offset \in Nat
        /\ Place(n).offset + n <= WordBytes
        /\ Place(n).next \in Nat /\ Place(n).used \in 0..(WordBytes - 1)
        /\ slot * WordBytes + used <= Place(n).slot * WordBytes + Place(n).offset
        /\ Place(n).slot * WordBytes + Place(n).offset + n
             = Place(n).next * WordBytes + Place(n).used
    BY <2>1, PlaceGoesOn DEF Typed
  <2>3. /\ d.slot = Place(n).slot /\ d.offset = Place(n).offset /\ d.size = n
        /\ Position(d) = Place(n).slot * WordBytes + Place(n).offset
    BY DEF Entry, Position
  <2>4. slots' = slots \cup {d} /\ slot' = Place(n).next /\ used' = Place(n).used
    BY <1>3 DEF PlaceValue, n
  <2> DEFINE end == slot * WordBytes + used
  <2> HIDE DEF d
  <2>5. end \in Nat /\ \A e \in slots : Position(e) + e.size <= end
    BY <2>1 DEF Placed, Frontier, Typed, WordBytes
  <2>a. end <= Position(d) /\ d.slot \in Nat /\ d.offset \in Nat /\ d.size \in Nat
    BY <2>1, <2>2, <2>3 DEF WordBytes
  <2>b. /\ \A e \in slots : e.slot \in Nat /\ e.offset \in Nat /\ e.size \in Nat
        /\ \A e, f \in slots : e # f => \/ Position(e) + e.size <= Position(f)
                                         \/ Position(f) + f.size <= Position(e)
    BY DEF Typed, NoSharedBytes
  <2> HIDE DEF end
  <2>6. /\ \A e, f \in slots \cup {d} : e # f => \/ Position(e) + e.size <= Position(f)
                                                 \/ Position(f) + f.size <= Position(e)
        /\ \A e \in slots \cup {d} : Position(e) + e.size <= Position(d) + d.size
        /\ \A e \in slots \cup {d} : e.slot \in Nat /\ e.offset \in Nat /\ e.size \in Nat
    BY <2>5, <2>a, <2>b, OneMore
  <2>7. \A e \in slots' : e.kind = "value" => e.offset + e.size <= WordBytes
    BY <2>2, <2>3, <2>4 DEF NoSharedBytes
  <2>8. Typed'
    BY <1>3, <2>2, <2>4, <2>6 DEF PlaceValue, NextMember, Typed
  <2>9. Placed' /\ Behind' /\ NoSharedBytes'
    BY <1>3, <2>1, <2>2, <2>3, <2>4, <2>6, <2>7
       DEF PlaceValue, Placed, Behind, Frontier, NoSharedBytes, Position
  <2> QED  BY <2>8, <2>9
<1>4. CASE OpenMember
  <2>1. /\ Fresh \in Nat /\ slot * WordBytes + used <= Fresh * WordBytes
        /\ nest = << >> /\ stage = "layout" /\ at <= Len(entity.members)
    BY <1>4, FreshGoesOn DEF OpenMember, AtMember, Laying, Typed, Members
  <2>2. /\ rest' \in Seq(Tokens) /\ nest' # << >> /\ nest' \in Seq({"record", "payload"})
    <3>1. Head(Member.type).tok \in {"record", "payload"} /\ Member.type \in Seq(Tokens) /\ Member.type # << >>
      BY <1>4, MemberTyped DEF OpenMember, AtMember, Laying, Typed
    <3> QED
      BY <1>4, <2>1, <3>1 DEF OpenMember, OpenStruct
  <2>3. slot' = Fresh /\ used' \in {0, 1} /\ start' = Fresh
        /\ entity' = entity /\ at' = at /\ slots' = slots /\ stage' = stage
    BY <1>4 DEF OpenMember, OpenStruct
  <2>4. Typed' /\ Behind'
    BY <2>1, <2>2, <2>3 DEF Typed, Behind, WordBytes
  <2>5. Placed'
    <3>1. Frontier = slot * WordBytes + used /\ Frontier' = Fresh * WordBytes
      BY <2>1, <2>2, <2>3 DEF Frontier
    <3>2. Frontier \in Int /\ Frontier' \in Int /\ Frontier <= Frontier'
      BY <2>1, <3>1 DEF Typed, WordBytes
    <3>3. \A e \in slots : Position(e) + e.size \in Int /\ Position(e) + e.size <= Frontier
      BY <2>1 DEF Typed, Placed, Position, WordBytes
    <3>4. \A e \in slots : Position(e) + e.size <= Frontier'
      <4> DEFINE end == Frontier'
                 old == Frontier
      <4> HIDE DEF end, old
      <4>1. end \in Int /\ old \in Int /\ old <= end
            /\ \A e \in slots : Position(e) + e.size \in Int /\ Position(e) + e.size <= old
        BY <3>2, <3>3 DEF end, old
      <4>2. \A e \in slots : Position(e) + e.size <= end
        BY <4>1
      <4> QED  BY <4>2 DEF end
    <3> QED
      BY <2>3, <3>4 DEF Placed, Position
  <2>6. NoSharedBytes'
    BY <2>3 DEF NoSharedBytes, Position
  <2> QED  BY <2>4, <2>5, <2>6
<1>5. CASE OpenField
  <2>1. /\ Fresh \in Nat /\ slot <= Fresh /\ rest' \in Seq(Tokens) /\ nest' # << >> /\ nest # << >>
    BY <1>5, FreshGoesOn DEF OpenField, OpenStruct, InStruct, NextField, Typed
  <2> QED
    BY <1>5, <2>1 DEF OpenField, OpenStruct, NextField, Typed, Behind, Placed, Frontier, NoSharedBytes, Position, WordBytes
<1>6. CASE OwnSlotField
  <2>1. /\ Fresh \in Nat /\ slot <= Fresh /\ rest' \in Seq(Tokens) /\ nest # << >>
    BY <1>6, FreshGoesOn DEF OwnSlotField, InStruct, NextField, Typed
  <2> QED
    BY <1>6, <2>1 DEF OwnSlotField, NextField, Typed, Behind, Placed, Frontier, NoSharedBytes, Position, WordBytes
<1>7. CASE ValueField
  <2> DEFINE n == SizeOf(Head(rest))
  <2>1. n \in 1..WordBytes /\ rest' \in Seq(Tokens) /\ nest # << >>
    <3>1. Head(rest) \in Tokens /\ Head(rest).tok \in {"value", "option", "dynamic"} /\ rest' \in Seq(Tokens)
      BY <1>7 DEF ValueField, InStruct, NextField, Typed
    <3> QED  BY <3>1, <1>7, TokenSizes DEF ValueField, InStruct
  <2>2. slot' = Place(n).next /\ used' = Place(n).used
    BY <1>7 DEF ValueField
  <2> HIDE DEF n
  <2>3. Place(n).next \in Nat /\ Place(n).used \in 0..(WordBytes - 1) /\ slot <= Place(n).next
    BY <2>1, PlaceGoesOn DEF Typed
  <2>4. stage' = stage /\ slots' = slots /\ start' = start /\ nest' = nest
        /\ entity' = entity /\ at' = at
    BY <1>7 DEF ValueField, NextField
  <2> QED
    BY <2>1, <2>2, <2>3, <2>4 DEF Typed, Behind, Placed, Frontier, NoSharedBytes, Position
<1>8. CASE CloseField
  <2>1. /\ Fresh \in Nat /\ slot <= Fresh /\ rest' \in Seq(Tokens) /\ nest # << >>
    BY <1>8, FreshGoesOn DEF CloseField, InStruct, NextField, Typed
  <2>2. stage = "layout" /\ stage' = stage /\ slots' = slots /\ start' = start
        /\ entity' = entity /\ at' = at /\ slot' = Fresh /\ used' = 0
    BY <1>8 DEF CloseField, NextField, InStruct, Laying
  <2>3. nest' # << >> /\ nest' \in Seq({"record", "payload"})
    <3>1. Len(nest) > 1 /\ nest' = Tail(nest) /\ nest \in Seq({"record", "payload"})
      BY <1>8 DEF CloseField, Typed
    <3> QED  BY <3>1, TailStays
  <2> QED
    BY <2>1, <2>2, <2>3 DEF Typed, Behind, Placed, Frontier, NoSharedBytes, Position, WordBytes
<1>9. CASE CloseMember
  <2> DEFINE d == Entry(Itself(Member.name), start, 0, WordBytes * (Fresh - start), "struct")
             end == start * WordBytes
  <2>1. Fresh \in Nat /\ start \in Nat /\ start <= Fresh /\ nest # << >> /\ stage = "layout"
    BY <1>9, FreshGoesOn DEF CloseMember, InStruct, Laying, Typed, Behind
  <2>2. /\ d.slot = start /\ d.offset = 0 /\ d.size = WordBytes * (Fresh - start) /\ d.kind = "struct"
        /\ Position(d) = start * WordBytes
    BY <2>1 DEF Entry, Position, WordBytes
  <2>3. slots' = slots \cup {d} /\ slot' = Fresh /\ used' = 0 /\ nest' = << >> /\ rest' = << >>
        /\ stage' = stage /\ start' = start /\ entity' = entity /\ at' = at + 1
    BY <1>9 DEF CloseMember, NextMember
  <2> HIDE DEF d
  <2>4. end \in Nat /\ \A e \in slots : Position(e) + e.size <= end
    BY <2>1 DEF Placed, Frontier, WordBytes
  <2>5. end <= Position(d) /\ d.slot \in Nat /\ d.offset \in Nat /\ d.size \in Nat
        /\ Position(d) + d.size = Fresh * WordBytes
    BY <2>1, <2>2 DEF WordBytes
  <2>6. /\ \A e \in slots : e.slot \in Nat /\ e.offset \in Nat /\ e.size \in Nat
        /\ \A e, f \in slots : e # f => \/ Position(e) + e.size <= Position(f)
                                         \/ Position(f) + f.size <= Position(e)
    BY DEF Typed, NoSharedBytes
  <2> HIDE DEF end
  <2>7. /\ \A e, f \in slots \cup {d} : e # f => \/ Position(e) + e.size <= Position(f)
                                                 \/ Position(f) + f.size <= Position(e)
        /\ \A e \in slots \cup {d} : Position(e) + e.size <= Position(d) + d.size
        /\ \A e \in slots \cup {d} : e.slot \in Nat /\ e.offset \in Nat /\ e.size \in Nat
    BY <2>4, <2>5, <2>6, OneMore
  <2>8. Typed'
    BY <2>1, <2>3, <2>7 DEF Typed, WordBytes
  <2>9. Behind' /\ Placed'
    BY <2>1, <2>3, <2>5, <2>7 DEF Behind, Placed, Frontier, Position, WordBytes
  <2>10. NoSharedBytes'
    BY <2>2, <2>3, <2>7 DEF NoSharedBytes, Position
  <2> QED  BY <2>8, <2>9, <2>10
<1>10. CASE Finish
  <2> DEFINE d == Entry(Initialized, Place(1).slot, Place(1).offset, 1, "value")
             end == slot * WordBytes + used
  <2>1. stage' = "seed" /\ stage = "layout" /\ UNCHANGED <<entity, at, rest, nest, start, slot, used>>
    BY <1>10 DEF Finish
  <2>2. slots' = slots \/ slots' = slots \cup {d}
    BY <1>10 DEF Finish
  <2>3. CASE slots' = slots
    BY <2>1, <2>3 DEF Typed, Behind, Placed, NoSharedBytes, Position
  <2>4. CASE slots' = slots \cup {d}
    <3>1. nest = << >>
      BY <1>10 DEF Finish, Behind, Members, Typed
    <3>2. /\ Place(1).slot \in Nat /\ Place(1).offset \in Nat /\ Place(1).offset + 1 <= WordBytes
          /\ slot * WordBytes + used <= Place(1).slot * WordBytes + Place(1).offset
      <4>1. 1 \in 1..WordBytes
        BY DEF WordBytes
      <4> QED  BY <4>1, PlaceGoesOn DEF Typed
    <3>3. /\ d.slot = Place(1).slot /\ d.offset = Place(1).offset /\ d.size = 1
          /\ Position(d) = Place(1).slot * WordBytes + Place(1).offset
      BY DEF Entry, Position
    <3> HIDE DEF d
    <3>4. end \in Nat /\ \A e \in slots : Position(e) + e.size <= end
      BY <2>1, <3>1 DEF Placed, Frontier, Typed, WordBytes
    <3>5. end <= Position(d) /\ d.slot \in Nat /\ d.offset \in Nat /\ d.size \in Nat
      BY <3>2, <3>3
    <3>6. /\ \A e \in slots : e.slot \in Nat /\ e.offset \in Nat /\ e.size \in Nat
          /\ \A e, f \in slots : e # f => \/ Position(e) + e.size <= Position(f)
                                           \/ Position(f) + f.size <= Position(e)
      BY DEF Typed, NoSharedBytes
    <3> HIDE DEF end
    <3>7. /\ \A e, f \in slots \cup {d} : e # f => \/ Position(e) + e.size <= Position(f)
                                                   \/ Position(f) + f.size <= Position(e)
          /\ \A e \in slots \cup {d} : e.slot \in Nat /\ e.offset \in Nat /\ e.size \in Nat
      BY <3>4, <3>5, <3>6, OneMore
    <3>8. NoSharedBytes'
      BY <3>2, <3>3, <3>7, <2>4 DEF NoSharedBytes, Position
    <3>9. Typed' /\ Behind' /\ Placed'
      BY <2>1, <2>4, <3>1, <3>7 DEF Typed, Behind, Placed
    <3> QED  BY <3>8, <3>9
  <2> QED  BY <2>2, <2>3, <2>4
<1>11. CASE \E i \in DOMAIN Members : Seed(Members[i])
  BY <1>11 DEF Seed, Typed, Behind, Placed, Frontier, NoSharedBytes, Position
<1>12. CASE UNCHANGED layoutVars
  BY <1>12 DEF layoutVars, Typed, Behind, Placed, Frontier, NoSharedBytes, Position
<1> QED
  BY <1>1, <1>2, <1>3, <1>4, <1>5, <1>6, <1>7, <1>8, <1>9, <1>10, <1>11, <1>12 DEF LayoutNext

\* Whatever its members, however records and enums nest in them: no byte of an
\* entity's storage belongs to two members of the layout tests seed by, and no
\* value crosses a word (compute_layout_with_records).
THEOREM EntriesApart == LayoutSpec => []NoSharedBytes
<1>1. IInv => NoSharedBytes
  BY DEF IInv
<1>2. IInv /\ [LayoutNext]_layoutVars => IInv'
  BY NextFrontier
<1> QED  BY InitFrontier, <1>1, <1>2, PTL DEF LayoutSpec

-----------------------------------------------------------------------------
(***************************************************************************)
(* The layout is solc's                                                    *)
(***************************************************************************)
LEMMA LeastOf ==
  ASSUME NEW T, T \subseteq Nat, T # {}
  PROVE  \E x \in T : \A y \in T : x <= y
<1>1. PICK x \in T : \A y \in T : <<y, x>> \notin OpToRel(<, Nat)
  BY NatLessThanWellFounded, WFMin, Zenon
<1>2. \A y \in T : ~(y < x)
  BY <1>1, Zenon DEF OpToRel
<1> QED
  BY <1>2

\* From a number, by steps that keep to numbers, as far as is asked.
LEMMA StepsExist ==
  ASSUME NEW n \in Nat, NEW b \in Nat, NEW step \in [Nat \X (1..n) -> Nat]
  PROVE  \E f \in [0..n -> Nat] : f[0] = b /\ \A k \in 1..n : f[k] = step[<<f[k - 1], k>>]
<1> DEFINE Made(l) == \E f \in [0..l -> Nat] : f[0] = b /\ \A k \in 1..l : f[k] = step[<<f[k - 1], k>>]
           T == { l \in 0..n : ~Made(l) }
<1>1. ASSUME T # {} PROVE FALSE
  <2>1. T \subseteq Nat
    OBVIOUS
  <2>2. PICK l \in T : \A m \in T : l <= m
    BY <1>1, <2>1, LeastOf
  <2>3. l \in 0..n /\ ~Made(l)
    BY <2>2
  <2>4. l # 0
    <3>1. [i \in 0..0 |-> b] \in [0..0 -> Nat] /\ [i \in 0..0 |-> b][0] = b /\ 1..0 = {}
      OBVIOUS
    <3>2. Made(0)
      BY <3>1
    <3> QED
      BY <2>3, <3>2
  <2>5. l - 1 \in 0..n /\ l - 1 \notin T
    <3>1. l - 1 \in 0..n /\ ~(l <= l - 1)
      BY <2>3, <2>4
    <3> HIDE DEF T
    <3> QED
      BY <2>2, <3>1
  <2>6. Made(l - 1)
    BY <2>5
  <2>7. PICK f \in [0..(l - 1) -> Nat] : f[0] = b /\ \A k \in 1..(l - 1) : f[k] = step[<<f[k - 1], k>>]
    BY <2>6
  <2> HIDE DEF T, Made
  <2> DEFINE g == [i \in 0..l |-> IF i = l THEN step[<<f[l - 1], l>>] ELSE f[i]]
  <2>8. step[<<f[l - 1], l>>] \in Nat
    <3>1. f[l - 1] \in Nat /\ l \in 1..n
      BY <2>3, <2>4, <2>7
    <3> QED
      BY <3>1
  <2>9. g \in [0..l -> Nat]
    BY <2>3, <2>7, <2>8
  <2>10. g[0] = b
    BY <2>3, <2>4, <2>7
  <2>11. ASSUME NEW k \in 1..l PROVE g[k] = step[<<g[k - 1], k>>]
    <3>1. CASE k = l
      <4>1. k - 1 \in 0..l /\ k - 1 # l
        BY <2>3, <3>1
      <4>2. g[k] = step[<<f[l - 1], l>>] /\ g[k - 1] = f[l - 1]
        BY <3>1, <4>1
      <4> QED
        BY <3>1, <4>2
    <3>2. CASE k # l
      <4>1. k \in 1..(l - 1) /\ k \in 0..l /\ k - 1 \in 0..l /\ k - 1 # l
        BY <2>3, <3>2
      <4>2. g[k] = f[k] /\ g[k - 1] = f[k - 1]
        BY <3>2, <4>1
      <4> QED
        BY <2>7, <4>1, <4>2
    <3> QED
      BY <3>1, <3>2
  <2> HIDE DEF g
  <2>12. Made(l)
    BY <2>9, <2>10, <2>11 DEF Made
  <2> QED
    BY <2>3, <2>12
<1>2. n \in 0..n /\ ~(n \in T) => Made(n)
  OBVIOUS
<1>3. n \in 0..n
  OBVIOUS
<1> HIDE DEF T, Made
<1>4. Made(n)
  BY <1>1, <1>2, <1>3
<1> QED
  BY <1>4 DEF Made

-----------------------------------------------------------------------------
\* solc's arithmetic, by slots and bytes.
LEMMA RoundUpIsFresh ==
  ASSUME slot \in Nat, used \in 0..(WordBytes - 1)
  PROVE  RoundUp(slot * WordBytes + used) = Fresh * WordBytes
BY DEF RoundUp, Fresh, WordBytes

LEMMA PlaceIsSolc ==
  ASSUME slot \in Nat, used \in 0..(WordBytes - 1), NEW t \in Tokens, t.tok = "value"
  PROVE  /\ SolcPlace(slot * WordBytes + used, t) = Place(t.size).slot * WordBytes + Place(t.size).offset
         /\ SolcPast(slot * WordBytes + used, t) = Place(t.size).next * WordBytes + Place(t.size).used
<1> DEFINE n == t.size
           p == slot * WordBytes + used
<1>1. n \in 1..WordBytes
  BY DEF Tokens
<1>2. p % WordBytes = used /\ p \in Nat
  BY DEF WordBytes
<1>3. RoundUp(p) = Fresh * WordBytes
  BY RoundUpIsFresh
<1>4. SolcPlace(p, t) = IF used + n <= WordBytes THEN p ELSE Fresh * WordBytes
  BY <1>2, <1>3 DEF SolcPlace
<1>5. SolcPast(p, t) = SolcPlace(p, t) + n
  BY DEF SolcPast
<1> HIDE DEF n
<1>6. SolcPlace(p, t) = Place(n).slot * WordBytes + Place(n).offset
  BY <1>1, <1>4 DEF Place, Fresh, WordBytes
<1>7. Place(n).slot * WordBytes + Place(n).offset + n = Place(n).next * WordBytes + Place(n).used
  BY <1>1, PlaceGoesOn
<1> QED
  BY <1>5, <1>6, <1>7 DEF n

\* What each token makes of solc's position.
LEMMA SolcTokenSteps ==
  ASSUME NEW p \in Nat, NEW t \in Tokens
  PROVE  /\ RoundUp(p) \in Nat /\ RoundUp(p) >= p
         /\ PastToken(p, t) \in Nat /\ PastToken(p, t) >= p
         /\ SolcPlace(p, t) \in Nat /\ SolcPlace(p, t) >= p
         /\ t.tok = "value" => PastToken(p, t) = SolcPast(p, t)
         /\ t.tok = "option" /\ t # Option(WordBytes) => PastToken(p, t) = RoundUp(p) + WordBytes
         /\ t.tok = "dynamic" => PastToken(p, t) = RoundUp(p) + WordBytes
         /\ t.tok \in {"record", "close"} => PastToken(p, t) = RoundUp(p)
         /\ t.tok = "payload" => PastToken(p, t) = RoundUp(p) + 1
         /\ t.tok # "value" => SolcPlace(p, t) = RoundUp(p)
<1> DEFINE r == RoundUp(p)
<1>1. /\ r \in Nat /\ r >= p /\ r % WordBytes = 0
  BY DEF RoundUp, WordBytes
<1>2. SolcPlace(p, t) \in Nat /\ SolcPlace(p, t) >= p /\ (t.tok # "value" => SolcPlace(p, t) = r)
  BY <1>1 DEF SolcPlace
<1>3. t.size \in Nat
  BY DEF Tokens, WordBytes
<1>4. SolcPast(p, t) = SolcPlace(p, t) + t.size
  BY DEF SolcPast
<1>5. CASE t.tok = "value"
  <2>1. PastToken(p, t) = SolcPast(p, t)
    BY <1>5 DEF PastToken
  <2> QED
    BY <1>1, <1>2, <1>3, <1>4, <1>5, <2>1
<1>6. CASE t.tok \in {"dynamic", "record", "close"}
  <2>1. PastToken(p, t) = SolcPast(p, t)
    BY <1>6 DEF PastToken
  <2>2. t.size = IF t.tok = "dynamic" THEN WordBytes ELSE 0
    BY <1>6 DEF Tokens
  <2> QED
    BY <1>1, <1>2, <1>3, <1>4, <1>6, <2>1, <2>2 DEF WordBytes
<1>7. SolcPast(p, Record) = r
  BY <1>1 DEF SolcPast, SolcPlace, Record
<1>8. SolcPast(r, Value(1)) = r + 1
  BY <1>1 DEF SolcPast, SolcPlace, Value, WordBytes
<1>9. CASE t.tok = "payload"
  <2>1. PastToken(p, t) = r + 1
    BY <1>7, <1>8, <1>9 DEF PastToken
  <2> QED
    BY <1>1, <1>2, <1>9, <2>1
<1>10. CASE t.tok = "option"
  <2> DEFINE n == t.size
             q == SolcPast(r + 1, Value(n))
  <2>1. n \in 1..WordBytes /\ t = Option(n)
    BY <1>10 DEF Tokens, Option
  <2>2. PastToken(p, t) = SolcPast(q, Close)
    BY <1>7, <1>8, <1>10 DEF PastToken
  <2>3. q = IF 1 + n <= WordBytes THEN r + 1 + n ELSE RoundUp(r + 1) + n
    <3>1. (r + 1) % WordBytes = 1
      BY <1>1 DEF WordBytes
    <3>2. Value(n).tok = "value" /\ Value(n).size = n
      BY DEF Value
    <3> QED
      BY <1>1, <2>1, <3>1, <3>2 DEF SolcPast, SolcPlace
  <2>4. SolcPast(q, Close) = RoundUp(q)
    <3>1. RoundUp(r + 1) \in Nat
      BY <1>1 DEF RoundUp, WordBytes
    <3>2. q \in Nat
      BY <1>1, <2>1, <2>3, <3>1
    <3>3. RoundUp(q) \in Nat
      BY <3>2 DEF RoundUp, WordBytes
    <3>4. Close.tok = "close" /\ Close.size = 0
      BY DEF Close
    <3> HIDE DEF q
    <3> QED
      BY <3>3, <3>4 DEF SolcPast, SolcPlace
  <2>5. q \in Nat /\ q >= p
    <3>1. RoundUp(r + 1) \in Nat /\ RoundUp(r + 1) >= r
      BY <1>1 DEF RoundUp, WordBytes
    <3> HIDE DEF r, q
    <3> QED
      BY <1>1, <2>1, <2>3, <3>1
  <2>6. RoundUp(q) \in Nat /\ RoundUp(q) >= p
    <3> HIDE DEF q
    <3> QED
      BY <2>5 DEF RoundUp, WordBytes
  <2>7. ASSUME n # WordBytes PROVE RoundUp(q) = r + WordBytes
    <3>1. q = r + 1 + n
      BY <1>1, <2>1, <2>3, <2>7 DEF WordBytes
    <3> HIDE DEF r, q, n
    <3> QED
      BY <1>1, <2>1, <2>7, <3>1 DEF RoundUp, WordBytes
  <2>8. t # Option(WordBytes) => n # WordBytes
    BY <2>1
  <2> HIDE DEF r, q, n
  <2> QED
    BY <1>1, <1>2, <1>10, <2>2, <2>4, <2>6, <2>7, <2>8 DEF r
<1>11. t.tok \in {"value", "option", "dynamic", "record", "payload", "close"}
  BY DEF Tokens
<1> QED
  BY <1>5, <1>6, <1>9, <1>10, <1>11

\* solc goes through the tokens of a type one by one.
LEMMA PastTokensSteps ==
  ASSUME NEW p \in Nat, NEW type \in Seq(Tokens)
  PROVE  /\ PastTokens(p, type) \in [0..Len(type) -> Nat]
         /\ PastTokens(p, type)[0] = p
         /\ \A k \in 1..Len(type) : PastTokens(p, type)[k] = PastToken(PastTokens(p, type)[k - 1], type[k])
<1> DEFINE n == Len(type)
           Step(g) == [k \in 0..n |-> IF k = 0 THEN p ELSE PastToken(g[k - 1], type[k])]
           past == CHOOSE g : g = Step(g)
           step == [c \in Nat \X (1..n) |-> PastToken(c[1], type[c[2]])]
<1>1. n \in Nat
  OBVIOUS
<1>2. step \in [Nat \X (1..n) -> Nat]
  <2>1. ASSUME NEW c \in Nat \X (1..n) PROVE PastToken(c[1], type[c[2]]) \in Nat
    <3>1. c[1] \in Nat /\ type[c[2]] \in Tokens
      BY <1>1
    <3> QED
      BY <3>1, SolcTokenSteps
  <2> QED
    BY <2>1
<1>3. p \in Nat
  OBVIOUS
<1>4. PICK f \in [0..n -> Nat] : f[0] = p /\ \A k \in 1..n : f[k] = step[<<f[k - 1], k>>]
  <2> HIDE DEF n, step
  <2>1. \A s \in [Nat \X (1..n) -> Nat] :
           \E f \in [0..n -> Nat] : f[0] = p /\ \A k \in 1..n : f[k] = s[<<f[k - 1], k>>]
    BY <1>1, StepsExist
  <2> QED
    BY <1>2, <2>1, Zenon
<1>5. \A k \in 1..n : f[k - 1] \in Nat /\ f[k] = PastToken(f[k - 1], type[k])
  <2> SUFFICES ASSUME NEW k \in 1..n PROVE f[k - 1] \in Nat /\ f[k] = PastToken(f[k - 1], type[k])
    OBVIOUS
  <2>1. k - 1 \in 0..n
    BY <1>1
  <2>2. f[k - 1] \in Nat
    BY <1>4, <2>1
  <2>3. <<f[k - 1], k>> \in Nat \X (1..n)
    BY <2>2
  <2> QED
    BY <1>4, <2>2, <2>3
<1>6. f = Step(f)
  <2>1. \A k \in 0..n : f[k] = IF k = 0 THEN p ELSE PastToken(f[k - 1], type[k])
    BY <1>1, <1>4, <1>5
  <2> QED
    BY <1>4, <2>1
<1>7. past = Step(past)
  BY <1>6
<1>8. PastTokens(p, type) = past
  BY Zenon DEF PastTokens
<1> HIDE DEF past, step
<1>9. DOMAIN past = 0..n /\ past = [k \in 0..n |-> past[k]]
  BY <1>7
<1>10. \A k \in 0..n : past[k] = IF k = 0 THEN p ELSE PastToken(past[k - 1], type[k])
  BY <1>7
<1>11. \A k \in 0..n : past[k] = f[k]
  <2> DEFINE T == { k \in 0..n : past[k] # f[k] }
  <2>1. ASSUME T # {} PROVE FALSE
    <3>1. T \subseteq Nat
      OBVIOUS
    <3>2. PICK k \in T : \A m \in T : k <= m
      BY <2>1, <3>1, LeastOf
    <3>3. k \in 0..n /\ past[k] # f[k] /\ k # 0
      BY <1>1, <1>4, <1>10, <3>2
    <3>4. k \in 1..n /\ k - 1 \in 0..n /\ ~(k <= k - 1)
      BY <1>1, <3>3
    <3>5. past[k - 1] = f[k - 1]
      BY <3>2, <3>4
    <3> QED
      BY <1>5, <1>10, <3>3, <3>4, <3>5
  <2> QED
    BY <2>1
<1>12. past \in [0..n -> Nat]
  BY <1>4, <1>9, <1>11
<1>13. 0 \in 0..n /\ \A k \in 1..n : k \in 0..n /\ k # 0
  BY <1>1
<1>14. past[0] = p /\ \A k \in 1..n : past[k] = PastToken(past[k - 1], type[k])
  BY <1>10, <1>13
<1> QED
  BY <1>8, <1>12, <1>14

\* Behind a type solc is no further back.
LEMMA PastTypeGoesOn ==
  ASSUME NEW p \in Nat, NEW type \in Seq(Tokens)
  PROVE  PastType(p, type) \in Nat
<1>1. Len(type) \in Nat /\ Len(type) \in 0..Len(type)
  OBVIOUS
<1> QED
  BY <1>1, PastTokensSteps DEF PastType

LEMMA MembersTyped ==
  ASSUME NEW e \in Entities
  PROVE  /\ Len(e.members) \in Nat /\ DOMAIN e.members = 1..Len(e.members)
         /\ \A i \in 1..Len(e.members) :
              /\ e.members[i].type \in Seq(Tokens) /\ WellNested(e.members[i].type)
              /\ e.members[i].kind \in {"identity", "mapping", "array", "plain"}
              /\ e.members[i].kind \in {"mapping", "array"} => e.members[i].type = << Dynamic >>
              /\ e.members[i].exists \in {"never", "transform", "elsewhere"}
              /\ e.members[i].iterated \in BOOLEAN /\ e.members[i].inner \in BOOLEAN
              /\ \A j \in 1..Len(e.members) : e.members[i].name = e.members[j].name => i = j
         /\ e.asked \in BOOLEAN /\ e.built \in BOOLEAN /\ e.initParams \in BOOLEAN
<1> DEFINE M == [ name : STRING, kind : {"identity", "mapping", "array", "plain"},
                  exists : {"never", "transform", "elsewhere"},
                  iterated : BOOLEAN, inner : BOOLEAN, type : Seq(Tokens) ]
<1>1. e.members \in Seq(M)
  BY LaidOut DEF EntitiesAssumption
<1>2. Len(e.members) \in Nat /\ DOMAIN e.members = 1..Len(e.members)
      /\ \A i \in 1..Len(e.members) : e.members[i] \in M
  <2> HIDE DEF M
  <2> QED
    BY <1>1
<1>3. /\ \A i \in DOMAIN e.members :
           /\ WellNested(e.members[i].type)
           /\ e.members[i].kind \in {"mapping", "array"} => e.members[i].type = << Dynamic >>
           /\ \A j \in DOMAIN e.members : e.members[i].name = e.members[j].name => i = j
      /\ {e.asked, e.built, e.initParams} \subseteq BOOLEAN
  BY LaidOut, Zenon DEF EntitiesAssumption
<1>4. \A i \in 1..Len(e.members) :
         /\ e.members[i].type \in Seq(Tokens)
         /\ e.members[i].kind \in {"identity", "mapping", "array", "plain"}
         /\ e.members[i].exists \in {"never", "transform", "elsewhere"}
         /\ e.members[i].iterated \in BOOLEAN /\ e.members[i].inner \in BOOLEAN
  BY <1>2
<1> QED
  BY <1>2, <1>3, <1>4

LEMMA SidecarsLen ==
  ASSUME NEW m
  PROVE  Len(Sidecars(m)) \in Nat /\ DOMAIN Sidecars(m) = 1..Len(Sidecars(m))
BY DEF Sidecars

LEMMA PastMemberNat ==
  ASSUME NEW p \in Nat, NEW m, m.type \in Seq(Tokens)
  PROVE  PastMember(p, m) \in Nat
<1>1. PastType(p, m.type) \in Nat
  BY PastTypeGoesOn
<1>2. Len(Sidecars(m)) \in Nat
  BY SidecarsLen
<1> QED
  BY <1>1, <1>2 DEF PastMember, WordBytes

\* And through the members.
LEMMA PastMembersSteps ==
  ASSUME entity \in Entities
  PROVE  /\ PastMembers(Members) \in [0..Len(Members) -> Nat]
         /\ PastMembers(Members)[0] = 0
         /\ \A k \in 1..Len(Members) : PastMembers(Members)[k] = PastMember(PastMembers(Members)[k - 1], Members[k])
<1> DEFINE n == Len(Members)
           Step(g) == [k \in 0..n |-> IF k = 0 THEN 0 ELSE PastMember(g[k - 1], Members[k])]
           past == CHOOSE g : g = Step(g)
           step == [c \in Nat \X (1..n) |-> PastMember(c[1], Members[c[2]])]
<1>1. n \in Nat
  BY MembersTyped DEF Members
<1>2. step \in [Nat \X (1..n) -> Nat]
  <2>1. ASSUME NEW c \in Nat \X (1..n) PROVE PastMember(c[1], Members[c[2]]) \in Nat
    <3>1. c[1] \in Nat /\ Members[c[2]].type \in Seq(Tokens)
      BY <1>1, MembersTyped DEF Members
    <3> QED
      BY <3>1, PastMemberNat
  <2> QED
    BY <2>1
<1>3. 0 \in Nat
  OBVIOUS
<1>4. PICK f \in [0..n -> Nat] : f[0] = 0 /\ \A k \in 1..n : f[k] = step[<<f[k - 1], k>>]
  <2> HIDE DEF n, step
  <2>1. \A s \in [Nat \X (1..n) -> Nat] :
           \E f \in [0..n -> Nat] : f[0] = 0 /\ \A k \in 1..n : f[k] = s[<<f[k - 1], k>>]
    BY <1>1, <1>3, StepsExist
  <2> QED
    BY <1>2, <2>1, Zenon
<1>5. \A k \in 1..n : f[k - 1] \in Nat /\ f[k] = PastMember(f[k - 1], Members[k])
  <2> SUFFICES ASSUME NEW k \in 1..n PROVE f[k - 1] \in Nat /\ f[k] = PastMember(f[k - 1], Members[k])
    OBVIOUS
  <2>1. k - 1 \in 0..n
    BY <1>1
  <2>2. f[k - 1] \in Nat
    BY <1>4, <2>1
  <2>3. <<f[k - 1], k>> \in Nat \X (1..n)
    BY <2>2
  <2> QED
    BY <1>4, <2>2, <2>3
<1>6. f = Step(f)
  <2>1. \A k \in 0..n : f[k] = IF k = 0 THEN 0 ELSE PastMember(f[k - 1], Members[k])
    BY <1>1, <1>4, <1>5
  <2> QED
    BY <1>4, <2>1
<1>7. past = Step(past)
  BY <1>6
<1>8. PastMembers(Members) = past
  BY Zenon DEF PastMembers
<1> HIDE DEF past, step
<1>9. DOMAIN past = 0..n /\ past = [k \in 0..n |-> past[k]]
  BY <1>7
<1>10. \A k \in 0..n : past[k] = IF k = 0 THEN 0 ELSE PastMember(past[k - 1], Members[k])
  BY <1>7
<1>11. \A k \in 0..n : past[k] = f[k]
  <2> DEFINE T == { k \in 0..n : past[k] # f[k] }
  <2>1. ASSUME T # {} PROVE FALSE
    <3>1. T \subseteq Nat
      OBVIOUS
    <3>2. PICK k \in T : \A m \in T : k <= m
      BY <2>1, <3>1, LeastOf
    <3>3. k \in 0..n /\ past[k] # f[k] /\ k # 0
      BY <1>1, <1>4, <1>10, <3>2
    <3>4. k \in 1..n /\ k - 1 \in 0..n /\ ~(k <= k - 1)
      BY <1>1, <3>3
    <3>5. past[k - 1] = f[k - 1]
      BY <3>2, <3>4
    <3> QED
      BY <1>5, <1>10, <3>3, <3>4, <3>5
  <2> QED
    BY <2>1
<1>12. past \in [0..n -> Nat]
  BY <1>4, <1>9, <1>11
<1>13. 0 \in 0..n /\ \A k \in 1..n : k \in 0..n /\ k # 0
  BY <1>1
<1>14. past[0] = 0 /\ \A k \in 1..n : past[k] = PastMember(past[k - 1], Members[k])
  BY <1>10, <1>13
<1> QED
  BY <1>8, <1>12, <1>14

-----------------------------------------------------------------------------
\* Where compute_layout is, in bytes; of a member, where solc is before it.
Here == slot * WordBytes + used
Before(i) == PastMembers(Members)[i - 1]

\* Between members the two are at the same byte.
AtMembers == nest = << >> => at <= Len(Members) + 1 /\ Here = PastMembers(Members)[at - 1]

\* So are they behind each token of a struct; and a struct that has had a field
\* is no longer empty.
AtToken(k) ==
  LET type == Member.type IN
    /\ k \in 1..Len(type) /\ Len(rest) = Len(type) - k
    /\ \A j \in 1..Len(rest) : rest[j] = type[k + j]
    /\ Len(nest) = Depth(type, k)
    /\ Here = PastTokens(Before(at), type)[k]
    /\ start * WordBytes = RoundUp(Before(at))
    /\ Here > start * WordBytes \/ type[k].tok = "record"
AtTokens ==
  nest # << >> =>
    /\ stage = "layout" /\ Member.kind = "plain" /\ Member.type[1].tok \in {"record", "payload"}
    /\ \E k \in 1..Len(Member.type) : AtToken(k)

\* An entry is of a member, or of its exists sidecar, and where solc keeps that.
IsMember(e, i) ==
  /\ e.name = Itself(Members[i].name) /\ Members[i].kind # "identity"
  /\ Position(e) = SolcPlace(Before(i), Members[i].type[1])
  /\ e.kind = "value" => Members[i].kind = "plain" /\ e.size = SizeOf(Members[i].type[1])
  /\ IsValue(Members[i]) => e.kind = "value"
IsSidecar(e, i) ==
  /\ e.name = ExistsOf(Members[i].name) /\ ShadowedInLayout(Members[i]) /\ e.kind = "mapping"
  /\ Position(e) = PastType(Before(i), Members[i].type)
IsInitialized(e) ==
  /\ stage = "seed" /\ entity.asked /\ entity.initParams
  /\ e.name = Initialized /\ Position(e) = SolcPlace(Here, Value(1))
Known == \A e \in slots : (\E i \in 1..(at - 1) : IsMember(e, i) \/ IsSidecar(e, i)) \/ IsInitialized(e)

\* Every member before `at' has its entries, and no entry is there twice.
Entered ==
  /\ \A i \in 1..(at - 1) :
       /\ Members[i].kind # "identity" => \E e \in slots : e.name = Itself(Members[i].name)
       /\ ShadowedInLayout(Members[i]) => \E e \in slots : e.name = ExistsOf(Members[i].name)
  /\ stage = "seed" /\ entity.asked /\ entity.initParams => \E e \in slots : e.name = Initialized
  /\ stage = "seed" => at = Len(Members) + 1 /\ nest = << >>
Once == \A e, f \in slots : e.name = f.name => e = f

\* An entry takes some bytes, and begins a word or shares it.
Shaped ==
  /\ \A e \in slots : e.size >= 1 /\ e.offset < WordBytes /\ (e.kind # "value" => e.offset = 0)
  /\ \A e \in slots : e.offset > 0 => \E f \in slots : f # e /\ f.slot = e.slot
  /\ nest = << >> /\ used > 0 => \E f \in slots : f.slot = slot
  /\ stage = "seed" /\ ~entity.asked => \A e \in slots : Position(e) + e.size <= Here

SolcInv == AllSeen => AtMembers /\ AtTokens /\ Known /\ Entered /\ Once /\ Shaped

-----------------------------------------------------------------------------
\* A token opens a struct, closes one, or leaves the depth.
LEMMA DepthSteps ==
  ASSUME NEW type \in Seq(Tokens)
  PROVE  /\ Depth(type, 0) = 0
         /\ \A k \in 1..Len(type) :
              Depth(type, k) \in Int
              /\ Depth(type, k) = Depth(type, k - 1) + (IF type[k].tok \in {"record", "payload"} THEN 1
                                                        ELSE IF type[k].tok = "close" THEN -1 ELSE 0)
<1> DEFINE O(k) == { j \in 1..k : type[j].tok \in {"record", "payload"} }
           C(k) == { j \in 1..k : type[j].tok = "close" }
<1>1. \A k \in 0..Len(type) : IsFiniteSet(O(k)) /\ IsFiniteSet(C(k))
                              /\ Cardinality(O(k)) \in Nat /\ Cardinality(C(k)) \in Nat
  <2> SUFFICES ASSUME NEW k \in 0..Len(type)
               PROVE  IsFiniteSet(O(k)) /\ IsFiniteSet(C(k))
                      /\ Cardinality(O(k)) \in Nat /\ Cardinality(C(k)) \in Nat
    OBVIOUS
  <2>1. IsFiniteSet(1..k)
    BY FS_Interval
  <2>2. O(k) \subseteq 1..k /\ C(k) \subseteq 1..k
    OBVIOUS
  <2>3. IsFiniteSet(O(k)) /\ IsFiniteSet(C(k))
    <3> HIDE DEF O, C
    <3> QED
      BY <2>1, <2>2, FS_Subset
  <2> HIDE DEF O, C
  <2> QED
    BY <2>3, FS_CardinalityType
<1>2. \A k \in 0..Len(type) : Depth(type, k) = Cardinality(O(k)) - Cardinality(C(k)) /\ Depth(type, k) \in Int
  <2>1. \A k \in 0..Len(type) : Depth(type, k) = Cardinality(O(k)) - Cardinality(C(k))
    BY DEF Depth
  <2> HIDE DEF O, C
  <2> QED
    BY <1>1, <2>1
<1>3. Depth(type, 0) = 0
  <2>1. O(0) = {} /\ C(0) = {}
    OBVIOUS
  <2>2. 0 \in 0..Len(type)
    OBVIOUS
  <2>3. Cardinality({}) = 0
    BY FS_EmptySet
  <2>4. Depth(type, 0) = Cardinality(O(0)) - Cardinality(C(0))
    <3> HIDE DEF O, C
    <3> QED
      BY <1>2, <2>2
  <2>5. Cardinality(O(0)) = 0 /\ Cardinality(C(0)) = 0
    BY <2>1, <2>3, Zenon
  <2> HIDE DEF O, C
  <2> QED
    BY <2>4, <2>5
<1>4. ASSUME NEW k \in 1..Len(type)
      PROVE  Depth(type, k) = Depth(type, k - 1) + (IF type[k].tok \in {"record", "payload"} THEN 1
                                                    ELSE IF type[k].tok = "close" THEN -1 ELSE 0)
  <2>1. k - 1 \in 0..Len(type) /\ k \in 0..Len(type) /\ 1..k = 1..(k - 1) \cup {k} /\ k \notin 1..(k - 1)
    OBVIOUS
  <2>2. O(k) = (IF type[k].tok \in {"record", "payload"} THEN O(k - 1) \cup {k} ELSE O(k - 1)) /\ k \notin O(k - 1)
    BY <2>1
  <2>3. C(k) = (IF type[k].tok = "close" THEN C(k - 1) \cup {k} ELSE C(k - 1)) /\ k \notin C(k - 1)
    BY <2>1
  <2>4. /\ Depth(type, k) = Cardinality(O(k)) - Cardinality(C(k))
        /\ Depth(type, k - 1) = Cardinality(O(k - 1)) - Cardinality(C(k - 1))
    <3> HIDE DEF O, C
    <3> QED
      BY <1>2, <2>1
  <2>5. IsFiniteSet(O(k - 1)) /\ IsFiniteSet(C(k - 1)) /\ Cardinality(O(k - 1)) \in Nat /\ Cardinality(C(k - 1)) \in Nat
    <3> HIDE DEF O, C
    <3> QED
      BY <1>1, <2>1
  <2> HIDE DEF O, C
  <2>6. Cardinality(O(k)) = Cardinality(O(k - 1)) + IF type[k].tok \in {"record", "payload"} THEN 1 ELSE 0
    <3>1. Cardinality(O(k - 1) \cup {k}) = Cardinality(O(k - 1)) + 1
      BY <2>2, <2>5, FS_AddElement
    <3> QED
      BY <2>2, <2>5, <3>1
  <2>7. Cardinality(C(k)) = Cardinality(C(k - 1)) + IF type[k].tok = "close" THEN 1 ELSE 0
    <3>1. Cardinality(C(k - 1) \cup {k}) = Cardinality(C(k - 1)) + 1
      BY <2>3, <2>5, FS_AddElement
    <3> QED
      BY <2>3, <2>5, <3>1
  <2> QED
    BY <2>4, <2>5, <2>6, <2>7
<1>5. \A k \in 1..Len(type) : k \in 0..Len(type)
  OBVIOUS
<1> QED
  BY <1>2, <1>3, <1>4, <1>5

\* The member compute_layout is at.
LEMMA AtMemberTyped ==
  ASSUME Typed, at <= Len(Members)
  PROVE  /\ at \in 1..Len(Members) /\ Member = Members[at] /\ Len(Members) \in Nat
         /\ Member.type \in Seq(Tokens) /\ WellNested(Member.type) /\ Member.type # << >>
         /\ Len(Member.type) \in Nat \ {0} /\ Member.type[1] = Head(Member.type) /\ Member.type[1] \in Tokens
         /\ Member.kind \in {"mapping", "array"} => Member.type = << Dynamic >>
         /\ Before(at) \in Nat /\ PastMembers(Members)[at] = PastMember(Before(at), Member)
<1>1. entity \in Entities /\ at \in Nat \ {0}
  BY DEF Typed
<1>2. Len(Members) \in Nat /\ at \in 1..Len(Members)
  BY <1>1, MembersTyped DEF Members
<1>3. Member.type \in Seq(Tokens) /\ WellNested(Member.type)
      /\ (Member.kind \in {"mapping", "array"} => Member.type = << Dynamic >>)
  BY <1>1, <1>2, MembersTyped DEF Members, Member
<1>4. Member.type # << >>
  BY <1>3 DEF WellNested
<1>5. at - 1 \in 0..Len(Members)
  BY <1>2
<1>6. Before(at) \in Nat /\ PastMembers(Members)[at] = PastMember(Before(at), Member)
  BY <1>1, <1>2, <1>5, PastMembersSteps DEF Before, Member
<1>7. Len(Member.type) \in Nat \ {0} /\ Member.type[1] = Head(Member.type) /\ Member.type[1] \in Tokens
  BY <1>3, <1>4
<1> QED
  BY <1>2, <1>3, <1>4, <1>6, <1>7 DEF Member

\* A type of one token, if that is no struct's.
LEMMA OneToken ==
  ASSUME NEW type \in Seq(Tokens), WellNested(type), type[1].tok \in {"value", "option", "dynamic"}
  PROVE  Len(type) = 1 /\ \A p \in Nat : PastType(p, type) = PastToken(p, type[1])
<1>1. Len(type) \in Nat \ {0} /\ 1 \in 1..Len(type) /\ 1 - 1 = 0
  BY DEF WellNested
<1>2. Depth(type, 1) = 0
  <2>1. Depth(type, 0) = 0 /\ Depth(type, 1) = Depth(type, 0) + 0
    BY <1>1, DepthSteps
  <2> QED
    BY <2>1
<1>3. Len(type) = 1
  <2>1. Len(type) # 1 => 1 \in 1..(Len(type) - 1)
    <3> DEFINE n == Len(type)
    <3>1. n \in Nat /\ n # 0
      BY <1>1
    <3> HIDE DEF n
    <3>2. n # 1 => 1 \in 1..(n - 1)
      BY <3>1
    <3> QED
      BY <3>2 DEF n
  <2> QED
    BY <1>2, <2>1 DEF WellNested
<1>4. ASSUME NEW p \in Nat PROVE PastType(p, type) = PastToken(p, type[1])
  <2>1. /\ PastTokens(p, type)[0] = p
        /\ \A k \in 1..Len(type) : PastTokens(p, type)[k] = PastToken(PastTokens(p, type)[k - 1], type[k])
    BY PastTokensSteps
  <2>2. PastTokens(p, type)[1] = PastToken(PastTokens(p, type)[1 - 1], type[1])
    BY <1>1, <2>1, Zenon
  <2> QED
    BY <1>1, <1>3, <2>1, <2>2, Zenon DEF PastType
<1> QED
  BY <1>3, <1>4

\* What the program is does not change, and so what solc does with it.
LEMMA SameProgram ==
  ASSUME entity' = entity
  PROVE  /\ Members' = Members /\ PastMembers(Members)' = PastMembers(Members)
         /\ AllSeen' = AllSeen
         /\ \A i : Before(i)' = Before(i)
         /\ at' = at => Member' = Member
<1>1. Members' = Members
  BY DEF Members
<1>2. PastMembers(Members)' = PastMembers(Members)
  BY <1>1
<1> QED
  BY <1>1, <1>2 DEF AllSeen, Overlooked, Before, Member

\* With nothing overlooked, a member takes its type and what compute_layout
\* takes for its sidecar.
LEMMA SeenMember ==
  ASSUME entity \in Entities, AllSeen, NEW i \in 1..Len(Members)
  PROVE  LET m == Members[i] IN
           /\ Stored(m) <=> m.kind # "identity"
           /\ Sidecars(m) = IF ShadowedInLayout(m) THEN << "exists" >> ELSE << >>
           /\ ShadowedInLayout(m) => m.kind = "mapping"
           /\ \A k \in 1..Len(m.type) : m.type[k] # Option(WordBytes)
           /\ \A p \in Nat : PastMember(p, m) =
                IF m.kind = "identity" THEN p
                ELSE IF ShadowedInLayout(m) THEN PastType(p, m.type) + WordBytes ELSE PastType(p, m.type)
<1> DEFINE m == Members[i]
<1>1. /\ m.exists \in {"never", "transform", "elsewhere"} /\ m.iterated \in BOOLEAN /\ m.inner \in BOOLEAN
      /\ i \in DOMAIN Members /\ m.type \in Seq(Tokens)
  BY MembersTyped DEF Members
<1>2. ~Overlooked(m)
  BY <1>1 DEF AllSeen
<1>3. /\ m.kind = "mapping" => ~m.iterated /\ ~m.inner /\ m.exists # "elsewhere"
      /\ m.kind = "identity" => m.type[1].tok # "dynamic"
      /\ \A k \in DOMAIN m.type : m.type[k] # Option(WordBytes)
  BY <1>2, Zenon DEF Overlooked
<1>4. Stored(m) <=> m.kind # "identity"
  BY <1>3 DEF Stored
<1>5. /\ ~Iterated(m) /\ ~(m.kind = "mapping" /\ m.inner)
      /\ Shadowed(m) <=> ShadowedInLayout(m)
  BY <1>1, <1>3 DEF Iterated, Shadowed, ShadowedInLayout
<1>6. Sidecars(m) = IF ShadowedInLayout(m) THEN << "exists" >> ELSE << >>
  <2>1. << "exists" >> \o << >> \o << >> = << "exists" >> /\ << >> \o << >> \o << >> = << >>
    OBVIOUS
  <2> HIDE DEF m
  <2> QED
    BY <1>5, <2>1 DEF Sidecars
<1>7. Len(Sidecars(m)) = IF ShadowedInLayout(m) THEN 1 ELSE 0
  <2> HIDE DEF m
  <2> QED
    BY <1>6
<1>8. \A k \in 1..Len(m.type) : m.type[k] # Option(WordBytes)
  BY <1>1, <1>3
<1>9. ASSUME NEW p \in Nat
      PROVE  PastMember(p, m) = IF m.kind = "identity" THEN p
                ELSE IF ShadowedInLayout(m) THEN PastType(p, m.type) + WordBytes ELSE PastType(p, m.type)
  <2>1. PastType(p, m.type) \in Nat
    BY <1>1, PastTypeGoesOn
  <2> HIDE DEF m
  <2> QED
    BY <1>4, <1>7, <2>1 DEF PastMember, WordBytes
<1>10. ShadowedInLayout(m) => m.kind = "mapping"
  BY DEF ShadowedInLayout
<1> QED
  BY <1>4, <1>6, <1>8, <1>9, <1>10

LEMMA HereNat ==
  ASSUME Typed
  PROVE  Here \in Nat
BY DEF Typed, Here, WordBytes

-----------------------------------------------------------------------------
\* One more token of a struct.
LEMMA NextToken ==
  ASSUME Typed, Behind, AllSeen, AtTokens, InStruct, nest' # << >>, slot' \in Nat, used' \in 0..(WordBytes - 1),
         rest' = Tail(rest), UNCHANGED <<entity, at, start, stage>>,
         Len(nest') = Len(nest) + (IF Head(rest).tok \in {"record", "payload"} THEN 1
                                   ELSE IF Head(rest).tok = "close" THEN -1 ELSE 0),
         Here' = PastToken(Here, Head(rest)),
         Here' > Here \/ Head(rest).tok \in {"record", "close"}
  PROVE  AtTokens'
<1> DEFINE type == Member.type
           t == Head(rest)
<1>1. nest # << >> /\ rest # << >> /\ rest \in Seq(Tokens) /\ at <= Len(Members)
  BY DEF InStruct, Typed, Behind, Members
<1>2. /\ type \in Seq(Tokens) /\ WellNested(type) /\ Len(type) \in Nat \ {0}
      /\ Before(at) \in Nat
  BY <1>1, AtMemberTyped
<1>3. PICK k \in 1..Len(type) : AtToken(k)
  BY <1>1 DEF AtTokens
<1>4. /\ k \in 1..Len(type) /\ Len(rest) = Len(type) - k
      /\ \A j \in 1..Len(rest) : rest[j] = type[k + j]
      /\ Len(nest) = Depth(type, k)
      /\ Here = PastTokens(Before(at), type)[k]
      /\ start * WordBytes = RoundUp(Before(at))
      /\ Here > start * WordBytes \/ type[k].tok = "record"
  BY <1>3 DEF AtToken
<1>5. /\ Len(rest) \in Nat \ {0} /\ t = rest[1] /\ Len(rest') = Len(rest) - 1
      /\ \A j \in 1..Len(rest') : rest'[j] = rest[j + 1]
  BY <1>1
<1> HIDE DEF type, t
<1>6. k + 1 \in 1..Len(type) /\ (k + 1) - 1 = k /\ k \in 1..(Len(type) - 1) /\ 1 \in 1..Len(rest)
  BY <1>2, <1>4, <1>5
<1>7. t = type[k + 1] /\ t \in Tokens
  BY <1>2, <1>4, <1>5, <1>6
<1>8. Here \in Nat /\ Here' \in Nat /\ start \in Nat /\ start * WordBytes \in Nat /\ start * WordBytes <= Here
  <2>1. start \in Nat /\ slot \in Nat /\ used \in Nat /\ start <= slot
    BY <1>1 DEF Typed, Behind, WordBytes
  <2>2. start * WordBytes \in Nat /\ start * WordBytes <= slot * WordBytes + used
    BY <2>1 DEF WordBytes
  <2>3. slot' * WordBytes + used' \in Nat
    <3>1. \A a \in Nat, b \in 0..(WordBytes - 1) : a * WordBytes + b \in Nat
      BY DEF WordBytes
    <3> QED
      BY <3>1, Zenon
  <2> QED
    BY <2>1, <2>2, <2>3, HereNat DEF Here
<1>9. Here' >= Here
  <2>1. PastToken(Here, t) >= Here
    BY <1>7, <1>8, SolcTokenSteps
  <2> QED
    BY <2>1, Zenon DEF t
<1>10. Len(nest') = Depth(type, k + 1)
  <2>1. \A l \in 1..Len(type) :
           Depth(type, l) = Depth(type, l - 1) + (IF type[l].tok \in {"record", "payload"} THEN 1
                                                  ELSE IF type[l].tok = "close" THEN -1 ELSE 0)
    BY <1>2, DepthSteps
  <2>2. Depth(type, k + 1) = Depth(type, k) + (IF type[k + 1].tok \in {"record", "payload"} THEN 1
                                               ELSE IF type[k + 1].tok = "close" THEN -1 ELSE 0)
    BY <1>6, <2>1
  <2> QED
    BY <1>4, <1>7, <2>2, Zenon DEF t
<1>11. Here' = PastTokens(Before(at), type)[k + 1]
  <2>1. PastTokens(Before(at), type)[k + 1] = PastToken(PastTokens(Before(at), type)[k], type[k + 1])
    <3>1. \A l \in 1..Len(type) :
             PastTokens(Before(at), type)[l] = PastToken(PastTokens(Before(at), type)[l - 1], type[l])
      BY <1>2, PastTokensSteps
    <3> QED
      BY <1>6, <3>1
  <2> QED
    BY <1>4, <1>7, <2>1, Zenon DEF t
<1>12. Here' > start * WordBytes \/ type[k + 1].tok = "record"
  <2>1. CASE t.tok = "close"
    <3>1. type[k].tok # "record"
      BY <1>2, <1>6, <1>7, <2>1 DEF WellNested
    <3>2. \A a, b, c \in Nat : c > a /\ b >= c => b > a
      OBVIOUS
    <3> QED
      BY <1>4, <1>8, <1>9, <3>1, <3>2, Zenon
  <2>2. CASE Here' > Here
    <3>1. \A a, b, c \in Nat : a <= c /\ b > c => b > a
      OBVIOUS
    <3> QED
      BY <1>8, <2>2, <3>1, Zenon
  <2>3. CASE t.tok = "record"
    BY <1>7, <2>3
  <2> QED
    BY <2>1, <2>2, <2>3 DEF t
<1>13. Len(rest') = Len(type) - (k + 1) /\ \A j \in 1..Len(rest') : rest'[j] = type[(k + 1) + j]
  <2>1. Len(rest') = Len(type) - (k + 1)
    BY <1>2, <1>4, <1>5
  <2>2. ASSUME NEW j \in 1..Len(rest') PROVE rest'[j] = type[(k + 1) + j]
    <3>1. j + 1 \in 1..Len(rest) /\ k + (j + 1) = (k + 1) + j
      BY <1>4, <1>5
    <3> QED
      BY <1>4, <1>5, <3>1
  <2> QED
    BY <2>1, <2>2
<1>14. Member' = Member /\ Before(at)' = Before(at)
  BY SameProgram
<1>15. type' = type
  BY <1>14 DEF type
<1>16. AtToken(k + 1)'
  BY <1>4, <1>6, <1>10, <1>11, <1>12, <1>13, <1>14, <1>15 DEF AtToken, type
<1>17. stage = "layout" /\ Member.kind = "plain" /\ Member.type[1].tok \in {"record", "payload"}
  BY <1>1 DEF AtTokens
<1> QED
  BY <1>6, <1>14, <1>16, <1>17 DEF AtTokens, type

-----------------------------------------------------------------------------
\* What entries are of has names of its own.
LEMMA NamesApart ==
  ASSUME NEW a, NEW b
  PROVE  /\ Itself(a) = Itself(b) <=> a = b
         /\ ExistsOf(a) = ExistsOf(b) <=> a = b
         /\ Itself(a) # ExistsOf(b) /\ Initialized # Itself(a) /\ Initialized # ExistsOf(a)
<1>1. /\ Itself(a)[1] = a /\ Itself(b)[1] = b /\ Itself(a)[2] = ""
      /\ ExistsOf(a)[1] = a /\ ExistsOf(b)[1] = b /\ ExistsOf(a)[2] = "exists" /\ ExistsOf(b)[2] = "exists"
      /\ Initialized[2] = "initialized"
  BY DEF Itself, ExistsOf, Initialized
<1>2. "" # "exists" /\ "initialized" # "" /\ "initialized" # "exists"
  OBVIOUS
<1> QED
  BY <1>1, <1>2

LEMMA SameEntries ==
  ASSUME entity' = entity
  PROVE  \A e, i : IsMember(e, i)' = IsMember(e, i) /\ IsSidecar(e, i)' = IsSidecar(e, i)
BY SameProgram DEF IsMember, IsSidecar

\* Inside a struct nothing is entered.
LEMMA NothingEntered ==
  ASSUME Known, Entered, Once, Shaped, stage = "layout", nest' # << >>,
         UNCHANGED <<entity, at, slots, stage>>
  PROVE  AtMembers' /\ Known' /\ Entered' /\ Once' /\ Shaped'
<1>1. Members' = Members /\ stage' = "layout"
  BY SameProgram
<1>2. Known'
  <2>1. \A e \in slots : \E i \in 1..(at - 1) : IsMember(e, i) \/ IsSidecar(e, i)
    BY DEF Known, IsInitialized
  <2>2. \A e \in slots' : \E i \in 1..(at' - 1) : IsMember(e, i)' \/ IsSidecar(e, i)'
    BY <2>1, SameEntries
  <2> QED
    BY <2>2 DEF Known
<1>3. Entered'
  BY <1>1 DEF Entered, ShadowedInLayout
<1>4. Once' /\ Shaped'
  BY <1>1 DEF Once, Shaped
<1> QED
  BY <1>2, <1>3, <1>4 DEF AtMembers

\* A member is entered, with its sidecar if it has one.
LEMMA MemberEntered ==
  ASSUME Typed, SolcInv, AllSeen, stage = "layout", at <= Len(Members), at' = at + 1, nest' = << >>,
         UNCHANGED <<entity, stage>>, Here' = PastMembers(Members)[at],
         NEW D, slots' = slots \cup D,
         \A e \in D : IsMember(e, at) \/ IsSidecar(e, at),
         \A e, f \in D : e.name = f.name => e = f,
         Member.kind # "identity" => \E e \in D : e.name = Itself(Member.name),
         ShadowedInLayout(Member) => \E e \in D : e.name = ExistsOf(Member.name),
         \A e \in D : e.size >= 1 /\ e.offset < WordBytes /\ (e.kind # "value" => e.offset = 0),
         \A e \in D : e.offset > 0 => \E f \in slots : f.slot = e.slot,
         used' > 0 => \E f \in slots' : f.slot = slot'
  PROVE  SolcInv'
<1>1. /\ Members' = Members /\ AllSeen' /\ Here' = PastMembers(Members)'[at]
      /\ AtMembers /\ Known /\ Entered /\ Once /\ Shaped
  BY SameProgram DEF SolcInv
<1>2. /\ at \in 1..Len(Members) /\ Len(Members) \in Nat /\ Member = Members[at]
      /\ at' - 1 = at /\ \A i \in 1..(at' - 1) : i \in 1..(at - 1) \/ i = at
      /\ \A i \in 1..(at - 1) : i \in 1..(at' - 1) /\ i \in 1..Len(Members) /\ i # at
      /\ at \in 1..(at' - 1)
  BY AtMemberTyped
<1>3. AtMembers' /\ AtTokens'
  BY <1>1, <1>2 DEF AtMembers, AtTokens
<1>4. \A e \in slots : \E i \in 1..(at - 1) : IsMember(e, i) \/ IsSidecar(e, i)
  BY <1>1 DEF Known, IsInitialized
<1>5. Known'
  <2>1. ASSUME NEW e \in slots' PROVE \E i \in 1..(at' - 1) : IsMember(e, i) \/ IsSidecar(e, i)
    BY <1>2, <1>4
  <2>2. \A e \in slots' : \E i \in 1..(at' - 1) : IsMember(e, i)' \/ IsSidecar(e, i)'
    BY <2>1, SameEntries
  <2> QED
    BY <2>2 DEF Known
<1>6. Entered'
  <2>1. ASSUME NEW i \in 1..(at' - 1)
        PROVE  /\ Members[i].kind # "identity" => \E e \in slots' : e.name = Itself(Members[i].name)
               /\ ShadowedInLayout(Members[i]) => \E e \in slots' : e.name = ExistsOf(Members[i].name)
    <3>1. CASE i \in 1..(at - 1)
      BY <1>1, <3>1 DEF Entered
    <3>2. CASE i = at
      BY <1>2, <3>2
    <3> QED
      BY <1>2, <3>1, <3>2
  <2>2. stage' # "seed"
    OBVIOUS
  <2> QED
    BY <1>1, <2>1, <2>2 DEF Entered, ShadowedInLayout
<1>7. ASSUME NEW e \in slots, NEW f \in D PROVE e.name # f.name
  <2>1. PICK i \in 1..(at - 1) : IsMember(e, i) \/ IsSidecar(e, i)
    BY <1>4
  <2>2. e.name \in {Itself(Members[i].name), ExistsOf(Members[i].name)}
    BY <2>1 DEF IsMember, IsSidecar
  <2>3. f.name \in {Itself(Members[at].name), ExistsOf(Members[at].name)}
    BY DEF IsMember, IsSidecar
  <2>4. Members[i].name # Members[at].name
    <3>1. entity \in Entities /\ i \in 1..Len(Members) /\ i # at
      BY <1>2 DEF Typed
    <3> QED
      BY <1>2, <3>1, MembersTyped DEF Members
  <2> QED
    BY <2>2, <2>3, <2>4, NamesApart
<1>8. Once'
  <2>1. ASSUME NEW e \in slots', NEW f \in slots', e.name = f.name PROVE e = f
    <3>1. e \in slots \/ e \in D
      OBVIOUS
    <3>2. f \in slots \/ f \in D
      OBVIOUS
    <3>3. e \in slots /\ f \in slots => e = f
      BY <1>1, <2>1 DEF Once
    <3> QED
      BY <1>7, <2>1, <3>1, <3>2, <3>3
  <2> QED
    BY <2>1 DEF Once
<1>9. Shaped'
  <2>1. \A e \in slots' : e.size >= 1 /\ e.offset < WordBytes /\ (e.kind # "value" => e.offset = 0)
    BY <1>1 DEF Shaped
  <2>2. ASSUME NEW e \in slots', e.offset > 0 PROVE \E f \in slots' : f # e /\ f.slot = e.slot
    <3>1. CASE e \in slots
      BY <1>1, <2>2, <3>1 DEF Shaped
    <3>2. CASE e \in D
      <4>1. PICK f \in slots : f.slot = e.slot
        BY <2>2, <3>2
      <4>2. f # e /\ f \in slots'
        BY <1>7, <3>2
      <4> QED
        BY <4>1, <4>2
    <3> QED
      BY <3>1, <3>2
  <2>3. stage' # "seed"
    OBVIOUS
  <2> QED
    BY <2>1, <2>2, <2>3 DEF Shaped
<1> QED
  BY <1>3, <1>5, <1>6, <1>8, <1>9 DEF SolcInv

-----------------------------------------------------------------------------
\* solc's position at what compute_layout does next, by slots and bytes.
LEMMA HereSteps ==
  ASSUME Typed
  PROVE  /\ RoundUp(Here) = Fresh * WordBytes
         /\ \A t \in Tokens :
              /\ (t.tok \in {"value", "option"} /\ t # Option(WordBytes)) \/ t.tok = "dynamic" =>
                   /\ PastToken(Here, t) = Place(SizeOf(t)).next * WordBytes + Place(SizeOf(t)).used
                   /\ SolcPlace(Here, t) = Place(SizeOf(t)).slot * WordBytes + Place(SizeOf(t)).offset
                   /\ PastToken(Here, t) > Here
              /\ t.tok = "dynamic" =>
                   PastToken(Here, t) = (Fresh + 1) * WordBytes /\ SolcPlace(Here, t) = Fresh * WordBytes
              /\ t.tok \in {"record", "close"} => PastToken(Here, t) = Fresh * WordBytes
              /\ t.tok = "payload" => PastToken(Here, t) = Fresh * WordBytes + 1
              /\ t.tok # "value" => SolcPlace(Here, t) = Fresh * WordBytes
<1>1. slot \in Nat /\ used \in 0..(WordBytes - 1) /\ Here \in Nat /\ Fresh \in Nat
  BY HereNat, FreshGoesOn DEF Typed
<1>2. RoundUp(Here) = Fresh * WordBytes
  BY <1>1, RoundUpIsFresh DEF Here
<1>3. Fresh * WordBytes \in Nat /\ Fresh * WordBytes + WordBytes = (Fresh + 1) * WordBytes
  BY <1>1 DEF WordBytes
<1>4. ASSUME NEW t \in Tokens
      PROVE  /\ (t.tok \in {"value", "option"} /\ t # Option(WordBytes)) \/ t.tok = "dynamic" =>
                   /\ PastToken(Here, t) = Place(SizeOf(t)).next * WordBytes + Place(SizeOf(t)).used
                   /\ SolcPlace(Here, t) = Place(SizeOf(t)).slot * WordBytes + Place(SizeOf(t)).offset
                   /\ PastToken(Here, t) > Here
             /\ t.tok = "dynamic" =>
                   PastToken(Here, t) = (Fresh + 1) * WordBytes /\ SolcPlace(Here, t) = Fresh * WordBytes
             /\ t.tok \in {"record", "close"} => PastToken(Here, t) = Fresh * WordBytes
             /\ t.tok = "payload" => PastToken(Here, t) = Fresh * WordBytes + 1
             /\ t.tok # "value" => SolcPlace(Here, t) = Fresh * WordBytes
  <2>1. /\ t.tok = "value" => PastToken(Here, t) = SolcPast(Here, t)
        /\ t.tok = "option" /\ t # Option(WordBytes) => PastToken(Here, t) = RoundUp(Here) + WordBytes
        /\ t.tok = "dynamic" => PastToken(Here, t) = RoundUp(Here) + WordBytes
        /\ t.tok \in {"record", "close"} => PastToken(Here, t) = RoundUp(Here)
        /\ t.tok = "payload" => PastToken(Here, t) = RoundUp(Here) + 1
        /\ t.tok # "value" => SolcPlace(Here, t) = RoundUp(Here)
        /\ RoundUp(Here) >= Here
    BY <1>1, SolcTokenSteps
  <2>2. CASE t.tok = "value"
    <3>1. t.size \in 1..WordBytes /\ SizeOf(t) = t.size
      BY <2>2 DEF Tokens, SizeOf
    <3>2. /\ SolcPlace(Here, t) = Place(t.size).slot * WordBytes + Place(t.size).offset
          /\ SolcPast(Here, t) = Place(t.size).next * WordBytes + Place(t.size).used
      BY <1>1, <2>2, PlaceIsSolc DEF Here
    <3>3. SolcPast(Here, t) > Here
      <4>1. SolcPlace(Here, t) \in Nat /\ SolcPlace(Here, t) >= Here
        BY <1>1, SolcTokenSteps
      <4> QED
        BY <1>1, <3>1, <4>1 DEF SolcPast
    <3> QED
      BY <2>1, <2>2, <3>1, <3>2, <3>3
  <2>3. CASE t.tok \in {"option", "dynamic"}
    <3>1. SizeOf(t) = WordBytes
      BY <2>3 DEF SizeOf
    <3>2. /\ Place(WordBytes).slot = Fresh /\ Place(WordBytes).offset = 0
          /\ Place(WordBytes).next = Fresh + 1 /\ Place(WordBytes).used = 0
      BY <1>1 DEF Place, Fresh, WordBytes
    <3>3. /\ Place(WordBytes).next * WordBytes + Place(WordBytes).used = Fresh * WordBytes + WordBytes
          /\ Place(WordBytes).slot * WordBytes + Place(WordBytes).offset = Fresh * WordBytes
      BY <1>1, <1>3, <3>2 DEF WordBytes
    <3>4. Fresh * WordBytes + WordBytes > Here
      BY <1>1, <1>2, <1>3, <2>1 DEF WordBytes
    <3> QED
      BY <1>2, <1>3, <2>1, <2>3, <3>1, <3>3, <3>4
  <2>4. CASE t.tok \in {"record", "payload", "close"}
    BY <1>2, <2>1, <2>4
  <2>5. t.tok \in {"value", "option", "dynamic", "record", "payload", "close"}
    BY DEF Tokens
  <2> QED
    BY <2>2, <2>3, <2>4, <2>5
<1> QED
  BY <1>2, <1>4

\* What a member is placed at lies where solc is at it.
LEMMA AtMemberHere ==
  ASSUME Typed, AllSeen, SolcInv, AtMember
  PROVE  /\ nest = << >> /\ stage = "layout" /\ at <= Len(Members)
         /\ Here = Before(at) /\ at \in 1..Len(Members) /\ Member = Members[at]
         /\ \A k \in 1..Len(Member.type) : Member.type[k] # Option(WordBytes)
<1>1. nest = << >> /\ stage = "layout" /\ at <= Len(Members)
  BY DEF AtMember, Laying
<1>2. Here = Before(at)
  BY <1>1 DEF SolcInv, AtMembers, Before
<1>3. at \in 1..Len(Members) /\ Member = Members[at]
  BY <1>1, AtMemberTyped
<1>4. \A k \in 1..Len(Member.type) : Member.type[k] # Option(WordBytes)
  <2>1. entity \in Entities
    BY DEF Typed
  <2> QED
    BY <1>3, <2>1, SeenMember
<1> QED
  BY <1>1, <1>2, <1>3, <1>4

LEMMA ProgramKept ==
  ASSUME [LayoutNext]_layoutVars
  PROVE  entity' = entity
BY DEF LayoutNext, layoutVars, SkipIdentity, PlaceOwnSlot, PlaceValue, OpenMember, OpenField, OwnSlotField,
       ValueField, CloseField, CloseMember, Finish, Seed, NextField

-----------------------------------------------------------------------------
LEMMA SkipAgrees ==
  ASSUME Typed, AllSeen, SolcInv, SkipIdentity
  PROVE  SolcInv'
<1>1. /\ nest = << >> /\ stage = "layout" /\ at <= Len(Members) /\ at \in 1..Len(Members)
      /\ Here = Before(at) /\ Member = Members[at]
  BY AtMemberHere DEF SkipIdentity
<1>2. Member.kind = "identity" /\ at' = at + 1 /\ UNCHANGED <<entity, nest, slot, used, slots, stage>>
  BY DEF SkipIdentity, NextMember
<1>3. Here' = PastMembers(Members)[at]
  <2>1. entity \in Entities
    BY DEF Typed
  <2>2. Before(at) \in Nat /\ PastMembers(Members)[at] = PastMember(Before(at), Member)
    BY <1>1, AtMemberTyped
  <2>3. PastMember(Before(at), Member) = Before(at)
    BY <1>1, <1>2, <2>1, <2>2, SeenMember
  <2> QED
    BY <1>1, <1>2, <2>2, <2>3 DEF Here
<1>4. ~ShadowedInLayout(Member)
  BY <1>2 DEF ShadowedInLayout
<1>5. used > 0 => \E f \in slots : f.slot = slot
  BY <1>1 DEF SolcInv, Shaped
<1> DEFINE D == {}
<1>6. slots' = slots \cup D /\ \A e \in D : FALSE
  BY <1>2
<1>7. used' > 0 => \E f \in slots' : f.slot = slot'
  BY <1>2, <1>5
<1> HIDE DEF D
<1> QED
  BY <1>1, <1>2, <1>3, <1>4, <1>6, <1>7, MemberEntered

LEMMA OwnSlotAgrees ==
  ASSUME Typed, AllSeen, SolcInv, PlaceOwnSlot
  PROVE  SolcInv'
<1> DEFINE d == Entry(Itself(Member.name), Fresh, 0, WordBytes, Member.kind)
           x == Entry(ExistsOf(Member.name), Fresh + 1, 0, WordBytes, "mapping")
           D == IF ShadowedInLayout(Member) THEN {d, x} ELSE {d}
<1>1. /\ nest = << >> /\ stage = "layout" /\ at <= Len(Members) /\ at \in 1..Len(Members)
      /\ Here = Before(at) /\ Member = Members[at]
  BY AtMemberHere DEF PlaceOwnSlot
<1>2. /\ Member.kind \in {"mapping", "array"} /\ at' = at + 1 /\ used' = 0
      /\ slot' = Fresh + (IF ShadowedInLayout(Member) THEN 2 ELSE 1)
      /\ UNCHANGED <<entity, nest, stage>>
  BY DEF PlaceOwnSlot, NextMember
<1>3. slots' = slots \cup D
  <2>1. slots' = slots \cup {d} \cup IF ShadowedInLayout(Member) THEN {x} ELSE {}
    BY Zenon DEF PlaceOwnSlot
  <2> QED
    BY <2>1
<1>4. /\ Member.type = << Dynamic >> /\ Member.type \in Seq(Tokens) /\ Before(at) \in Nat
      /\ PastMembers(Members)[at] = PastMember(Before(at), Member)
  BY <1>1, <1>2, AtMemberTyped
<1>5. Member.type[1] = Dynamic /\ Dynamic \in Tokens /\ Dynamic.tok = "dynamic" /\ WellNested(Member.type)
  BY <1>1, <1>4, AtMemberTyped DEF Dynamic, Tokens
<1>6. Fresh \in Nat
  BY FreshGoesOn DEF Typed
<1>7. /\ SolcPlace(Before(at), Member.type[1]) = Fresh * WordBytes
      /\ PastType(Before(at), Member.type) = (Fresh + 1) * WordBytes
  <2>1. PastToken(Here, Dynamic) = (Fresh + 1) * WordBytes /\ SolcPlace(Here, Dynamic) = Fresh * WordBytes
    BY <1>5, HereSteps
  <2>2. PastType(Before(at), Member.type) = PastToken(Before(at), Dynamic)
    BY <1>4, <1>5, OneToken
  <2> QED
    BY <1>1, <1>5, <2>1, <2>2
<1>8. /\ d.name = Itself(Member.name) /\ d.slot = Fresh /\ d.offset = 0 /\ d.size = WordBytes /\ d.kind = Member.kind
      /\ x.name = ExistsOf(Member.name) /\ x.slot = Fresh + 1 /\ x.offset = 0 /\ x.size = WordBytes /\ x.kind = "mapping"
  BY DEF Entry
<1>9. Position(d) = Fresh * WordBytes /\ Position(x) = (Fresh + 1) * WordBytes
  BY <1>6, <1>8 DEF Position, WordBytes
<1>10. Here' = PastMembers(Members)[at]
  <2>1. entity \in Entities
    BY DEF Typed
  <2>2. PastMember(Before(at), Member) = IF ShadowedInLayout(Member) THEN PastType(Before(at), Member.type) + WordBytes
                                         ELSE PastType(Before(at), Member.type)
    BY <1>1, <1>2, <1>4, <2>1, SeenMember
  <2>3. Here' = IF ShadowedInLayout(Member) THEN (Fresh + 2) * WordBytes ELSE (Fresh + 1) * WordBytes
    BY <1>2, <1>6 DEF Here, WordBytes
  <2>4. (Fresh + 2) * WordBytes = (Fresh + 1) * WordBytes + WordBytes
    BY <1>6 DEF WordBytes
  <2> QED
    BY <1>4, <1>7, <2>2, <2>3, <2>4
<1> HIDE DEF d, x
<1>11. IsMember(d, at) /\ (ShadowedInLayout(Member) => IsSidecar(x, at))
  BY <1>1, <1>2, <1>7, <1>8, <1>9 DEF IsMember, IsSidecar, IsValue
<1>12. \A e \in D : e = d \/ (e = x /\ ShadowedInLayout(Member))
  OBVIOUS
<1>13. d \in D /\ (ShadowedInLayout(Member) => x \in D)
  OBVIOUS
<1> HIDE DEF D
<1>14. \A e, f \in D : e.name = f.name => e = f
  BY <1>8, <1>12, NamesApart
<1>15. \A e \in D : e.size >= 1 /\ e.offset < WordBytes /\ (e.kind # "value" => e.offset = 0) /\ ~(e.offset > 0)
  BY <1>8, <1>12 DEF WordBytes
<1>16. \A e \in D : IsMember(e, at) \/ IsSidecar(e, at)
  BY <1>11, <1>12
<1>17. ~(used' > 0)
  BY <1>2
<1> QED
  BY <1>1, <1>2, <1>3, <1>8, <1>10, <1>13, <1>14, <1>15, <1>16, <1>17, MemberEntered

LEMMA ValueAgrees ==
  ASSUME Typed, AllSeen, SolcInv, PlaceValue
  PROVE  SolcInv'
<1> DEFINE t == Head(Member.type)
           n == SizeOf(t)
           d == Entry(Itself(Member.name), Place(n).slot, Place(n).offset, n, "value")
<1>1. /\ nest = << >> /\ stage = "layout" /\ at <= Len(Members) /\ at \in 1..Len(Members)
      /\ Here = Before(at) /\ Member = Members[at]
      /\ \A k \in 1..Len(Member.type) : Member.type[k] # Option(WordBytes)
  BY AtMemberHere DEF PlaceValue
<1>2. /\ Member.kind = "plain" /\ t.tok \in {"value", "option"} /\ at' = at + 1
      /\ UNCHANGED <<entity, nest, stage>>
      /\ slots' = slots \cup {d} /\ slot' = Place(n).next /\ used' = Place(n).used
  BY DEF PlaceValue, NextMember
<1>3. /\ Member.type \in Seq(Tokens) /\ WellNested(Member.type) /\ Before(at) \in Nat
      /\ PastMembers(Members)[at] = PastMember(Before(at), Member)
      /\ Member.type[1] = t /\ t \in Tokens /\ Len(Member.type) \in Nat \ {0}
  BY <1>1, AtMemberTyped
<1>4. t # Option(WordBytes)
  <2>1. 1 \in 1..Len(Member.type)
    BY <1>3
  <2> QED
    BY <1>1, <1>3, <2>1
<1> HIDE DEF t
<1>5. n \in 1..WordBytes
  BY <1>2, <1>3, TokenSizes
<1>6. /\ PastToken(Here, t) = Place(n).next * WordBytes + Place(n).used
      /\ SolcPlace(Here, t) = Place(n).slot * WordBytes + Place(n).offset
  BY <1>2, <1>3, <1>4, HereSteps
<1> HIDE DEF n
<1>7. /\ Place(n).slot \in Nat /\ Place(n).offset \in Nat /\ Place(n).offset + n <= WordBytes
      /\ Place(n).next \in Nat /\ Place(n).used \in 0..(WordBytes - 1)
  BY <1>5, PlaceGoesOn DEF Typed
<1>8. /\ Place(n).offset > 0 => Place(n).slot = slot /\ used > 0
      /\ Place(n).used > 0 => Place(n).next = Place(n).slot
  BY <1>5 DEF Place, Typed, WordBytes
<1>9. /\ d.name = Itself(Member.name) /\ d.slot = Place(n).slot /\ d.offset = Place(n).offset
      /\ d.size = n /\ d.kind = "value" /\ Position(d) = Place(n).slot * WordBytes + Place(n).offset
  BY DEF Entry, Position
<1> HIDE DEF d
<1>10. Here' = PastMembers(Members)[at]
  <2>1. entity \in Entities /\ ~ShadowedInLayout(Member)
    BY <1>2 DEF Typed, ShadowedInLayout
  <2>2. PastMember(Before(at), Member) = PastType(Before(at), Member.type)
    BY <1>1, <1>2, <1>3, <2>1, SeenMember
  <2>3. PastType(Before(at), Member.type) = PastToken(Before(at), t)
    <3>1. Member.type[1].tok \in {"value", "option", "dynamic"}
      BY <1>2, <1>3
    <3> QED
      BY <1>3, <3>1, OneToken
  <2> QED
    BY <1>1, <1>2, <1>3, <1>6, <2>2, <2>3 DEF Here
<1>11. IsMember(d, at)
  BY <1>1, <1>2, <1>3, <1>6, <1>9 DEF IsMember, n
<1>12. d.size >= 1 /\ d.offset < WordBytes
  BY <1>5, <1>7, <1>9 DEF WordBytes
<1>13. used > 0 => \E f \in slots : f.slot = slot
  BY <1>1 DEF SolcInv, Shaped
<1>14. d.offset > 0 => \E f \in slots : f.slot = d.slot
  BY <1>8, <1>9, <1>13
<1>15. used' > 0 => \E f \in slots' : f.slot = slot'
  <2>1. d \in slots'
    BY <1>2
  <2> QED
    BY <1>2, <1>8, <1>9, <2>1
<1> DEFINE D == {d}
<1>16. slots' = slots \cup D /\ \A e \in D : e = d
  BY <1>2
<1>17. d \in D
  OBVIOUS
<1> HIDE DEF D
<1>18. ~ShadowedInLayout(Member)
  BY <1>2 DEF ShadowedInLayout
<1>19. /\ \A e \in D : IsMember(e, at) \/ IsSidecar(e, at)
       /\ \A e, f \in D : e.name = f.name => e = f
       /\ \A e \in D : e.size >= 1 /\ e.offset < WordBytes /\ (e.kind # "value" => e.offset = 0)
       /\ \A e \in D : e.offset > 0 => \E f \in slots : f.slot = e.slot
       /\ \E e \in D : e.name = Itself(Member.name)
  BY <1>9, <1>11, <1>12, <1>14, <1>16, <1>17
<1> QED
  BY <1>1, <1>2, <1>10, <1>15, <1>16, <1>18, <1>19, MemberEntered

-----------------------------------------------------------------------------
\* What a struct has next.
LEMMA FieldTyped ==
  ASSUME Typed, Behind, AllSeen, SolcInv, InStruct
  PROVE  /\ Head(rest) \in Tokens /\ Head(rest) # Option(WordBytes)
         /\ nest # << >> /\ Len(nest) \in Nat \ {0} /\ stage = "layout" /\ rest \in Seq(Tokens) /\ rest # << >>
<1>1. nest # << >> /\ rest # << >> /\ rest \in Seq(Tokens) /\ stage = "layout" /\ at <= Len(Members)
  BY DEF InStruct, Laying, Typed
<1>2. /\ Len(Member.type) \in Nat \ {0} /\ Member.type \in Seq(Tokens)
      /\ at \in 1..Len(Members) /\ Member = Members[at]
  BY <1>1, AtMemberTyped
<1>3. PICK k \in 1..Len(Member.type) : AtToken(k)
  BY <1>1 DEF SolcInv, AtTokens
<1>4. /\ Len(rest) = Len(Member.type) - k
      /\ \A j \in 1..Len(rest) : rest[j] = Member.type[k + j]
  BY <1>3 DEF AtToken
<1>5. Len(rest) \in Nat \ {0} /\ Head(rest) = rest[1]
  BY <1>1
<1>6. k + 1 \in 1..Len(Member.type) /\ Head(rest) = Member.type[k + 1]
  BY <1>2, <1>4, <1>5
<1>7. Member.type[k + 1] # Option(WordBytes)
  <2>1. entity \in Entities
    BY DEF Typed
  <2> QED
    BY <1>2, <1>6, <2>1, SeenMember
<1>8. Len(nest) \in Nat \ {0}
  BY <1>1 DEF Typed
<1> QED
  BY <1>1, <1>2, <1>6, <1>7, <1>8

\* A step inside a struct that moves as solc does.
LEMMA FieldAgrees ==
  ASSUME Typed, Behind, AllSeen, SolcInv, InStruct, NextField,
         nest' # << >>, slot' \in Nat, used' \in 0..(WordBytes - 1),
         Len(nest') = Len(nest) + (IF Head(rest).tok \in {"record", "payload"} THEN 1
                                   ELSE IF Head(rest).tok = "close" THEN -1 ELSE 0),
         Here' = PastToken(Here, Head(rest)),
         Here' > Here \/ Head(rest).tok \in {"record", "close"}
  PROVE  SolcInv'
<1>1. rest' = Tail(rest) /\ UNCHANGED <<entity, at, start, slots, stage>> /\ stage = "layout"
  BY DEF NextField, InStruct, Laying
<1>2. AtMembers /\ AtTokens /\ Known /\ Entered /\ Once /\ Shaped
  BY DEF SolcInv
<1>3. AtTokens'
  BY <1>1, <1>2, NextToken
<1>4. AtMembers' /\ Known' /\ Entered' /\ Once' /\ Shaped'
  BY <1>1, <1>2, NothingEntered
<1> QED
  BY <1>3, <1>4 DEF SolcInv

LEMMA OpenFieldAgrees ==
  ASSUME Typed, Behind, AllSeen, SolcInv, OpenField
  PROVE  SolcInv'
<1> DEFINE t == Head(rest)
<1>1. /\ InStruct /\ NextField /\ t.tok \in {"record", "payload"}
      /\ slot' = Fresh /\ used' = (IF t.tok = "payload" THEN 1 ELSE 0) /\ nest' = <<t.tok>> \o nest
  BY DEF OpenField, OpenStruct
<1>2. t \in Tokens /\ nest # << >> /\ Len(nest) \in Nat
  BY <1>1, FieldTyped
<1> HIDE DEF t
<1>3. Fresh \in Nat /\ Here \in Nat /\ Here <= Fresh * WordBytes
  BY FreshGoesOn, HereNat DEF Typed, Here
<1>4. nest' # << >> /\ Len(nest') = Len(nest) + 1
  <2>1. nest \in Seq({"record", "payload"}) /\ <<t.tok>> \in Seq({"record", "payload"})
    BY <1>1 DEF Typed
  <2>2. Len(nest') = Len(nest) + 1
    BY <1>1, <2>1
  <2>3. nest' # << >>
    BY <1>1, <2>1
  <2> QED
    BY <2>2, <2>3
<1>5. used' \in {0, 1} /\ used' \in 0..(WordBytes - 1)
  BY <1>1 DEF WordBytes
<1>6. /\ t.tok = "record" => PastToken(Here, t) = Fresh * WordBytes
      /\ t.tok = "payload" => PastToken(Here, t) = Fresh * WordBytes + 1
  BY <1>2, HereSteps
<1>7. Here' = PastToken(Here, t)
  <2>1. Here' = Fresh * WordBytes + (IF t.tok = "payload" THEN 1 ELSE 0)
    BY <1>1 DEF Here
  <2>2. Fresh * WordBytes + 0 = Fresh * WordBytes
    BY <1>3 DEF WordBytes
  <2> QED
    BY <1>1, <1>6, <2>1, <2>2
<1>8. Here' > Here \/ t.tok = "record"
  BY <1>1, <1>3, <1>6, <1>7 DEF WordBytes
<1> QED
  BY <1>1, <1>3, <1>4, <1>5, <1>7, <1>8, FieldAgrees DEF t

LEMMA OwnSlotFieldAgrees ==
  ASSUME Typed, Behind, AllSeen, SolcInv, OwnSlotField
  PROVE  SolcInv'
<1> DEFINE t == Head(rest)
<1>1. /\ InStruct /\ NextField /\ t.tok = "dynamic"
      /\ slot' = Fresh + 1 /\ used' = 0 /\ nest' = nest
  BY DEF OwnSlotField
<1>2. t \in Tokens /\ nest # << >> /\ Len(nest) \in Nat
  BY <1>1, FieldTyped
<1> HIDE DEF t
<1>3. Fresh \in Nat /\ Fresh + 1 \in Nat
  BY FreshGoesOn DEF Typed
<1>4. PastToken(Here, t) = (Fresh + 1) * WordBytes /\ PastToken(Here, t) > Here
  BY <1>1, <1>2, HereSteps
<1>5. Here' = PastToken(Here, t)
  <2>1. Here' = (Fresh + 1) * WordBytes + 0
    BY <1>1 DEF Here
  <2>2. (Fresh + 1) * WordBytes + 0 = (Fresh + 1) * WordBytes
    BY <1>3 DEF WordBytes
  <2> QED
    BY <1>4, <2>1, <2>2
<1>6. used' \in 0..(WordBytes - 1)
  BY <1>1 DEF WordBytes
<1>7. Len(nest') = Len(nest) + 0
  BY <1>1, <1>2
<1> QED
  BY <1>1, <1>2, <1>3, <1>4, <1>5, <1>6, <1>7, FieldAgrees DEF t

LEMMA ValueFieldAgrees ==
  ASSUME Typed, Behind, AllSeen, SolcInv, ValueField
  PROVE  SolcInv'
<1> DEFINE t == Head(rest)
           n == SizeOf(t)
<1>1. /\ InStruct /\ NextField /\ t.tok \in {"value", "option", "dynamic"}
      /\ slot' = Place(n).next /\ used' = Place(n).used /\ nest' = nest
  BY DEF ValueField
<1>2. t \in Tokens /\ t # Option(WordBytes) /\ nest # << >> /\ Len(nest) \in Nat
  BY <1>1, FieldTyped
<1> HIDE DEF t
<1>3. n \in 1..WordBytes
  BY <1>1, <1>2, TokenSizes
<1>4. PastToken(Here, t) = Place(n).next * WordBytes + Place(n).used /\ PastToken(Here, t) > Here
  BY <1>1, <1>2, HereSteps
<1> HIDE DEF n
<1>5. Place(n).next \in Nat /\ Place(n).used \in 0..(WordBytes - 1)
  BY <1>3, PlaceGoesOn DEF Typed
<1>6. Here' = PastToken(Here, t)
  BY <1>1, <1>4 DEF Here
<1>7. Len(nest') = Len(nest) + 0
  BY <1>1, <1>2
<1> QED
  BY <1>1, <1>2, <1>4, <1>5, <1>6, <1>7, FieldAgrees DEF t

LEMMA CloseFieldAgrees ==
  ASSUME Typed, Behind, AllSeen, SolcInv, CloseField
  PROVE  SolcInv'
<1> DEFINE t == Head(rest)
<1>1. /\ InStruct /\ NextField /\ t.tok = "close" /\ Len(nest) > 1
      /\ slot' = Fresh /\ used' = 0 /\ nest' = Tail(nest)
  BY DEF CloseField
<1>2. t \in Tokens /\ nest # << >> /\ Len(nest) \in Nat
  BY <1>1, FieldTyped
<1> HIDE DEF t
<1>3. Fresh \in Nat
  BY FreshGoesOn DEF Typed
<1>4. PastToken(Here, t) = Fresh * WordBytes
  BY <1>1, <1>2, HereSteps
<1>5. Here' = PastToken(Here, t)
  <2>1. Here' = Fresh * WordBytes + 0
    BY <1>1 DEF Here
  <2>2. Fresh * WordBytes + 0 = Fresh * WordBytes
    BY <1>3 DEF WordBytes
  <2> QED
    BY <1>4, <2>1, <2>2
<1>6. nest' # << >> /\ Len(nest') = Len(nest) + (-1)
  <2>1. nest \in Seq({"record", "payload"})
    BY DEF Typed
  <2>2. nest' # << >>
    BY <1>1, <2>1, TailStays
  <2>3. Len(nest') = Len(nest) - 1
    BY <1>1, <1>2, <2>1
  <2> QED
    BY <1>2, <2>2, <2>3
<1>7. used' \in 0..(WordBytes - 1)
  BY <1>1 DEF WordBytes
<1> QED
  BY <1>1, <1>3, <1>5, <1>6, <1>7, FieldAgrees DEF t

LEMMA OpenMemberAgrees ==
  ASSUME Typed, AllSeen, SolcInv, OpenMember
  PROVE  SolcInv'
<1> DEFINE t == Head(Member.type)
           type == Member.type
<1>1. /\ nest = << >> /\ stage = "layout" /\ at <= Len(Members) /\ at \in 1..Len(Members)
      /\ Here = Before(at) /\ Member = Members[at]
  BY AtMemberHere DEF OpenMember
<1>2. /\ Member.kind = "plain" /\ t.tok \in {"record", "payload"}
      /\ slot' = Fresh /\ used' = (IF t.tok = "payload" THEN 1 ELSE 0) /\ nest' = <<t.tok>> \o nest
      /\ start' = Fresh /\ rest' = Tail(type)
      /\ UNCHANGED <<entity, at, slots, stage>>
  BY DEF OpenMember, OpenStruct
<1>3. /\ type \in Seq(Tokens) /\ type # << >> /\ Before(at) \in Nat
      /\ type[1] = t /\ t \in Tokens /\ Len(type) \in Nat \ {0}
  BY <1>1, AtMemberTyped
<1> HIDE DEF t, type
<1>4. Fresh \in Nat
  BY FreshGoesOn DEF Typed
<1>5. /\ t.tok = "record" => PastToken(Here, t) = Fresh * WordBytes
      /\ t.tok = "payload" => PastToken(Here, t) = Fresh * WordBytes + 1
      /\ RoundUp(Here) = Fresh * WordBytes
  BY <1>3, HereSteps
<1>6. Here' = PastToken(Here, t) /\ (Here' > start' * WordBytes \/ t.tok = "record")
  <2>1. Here' = Fresh * WordBytes + (IF t.tok = "payload" THEN 1 ELSE 0)
    BY <1>2 DEF Here
  <2>2. Fresh * WordBytes + 0 = Fresh * WordBytes /\ Fresh * WordBytes + 1 > Fresh * WordBytes
    BY <1>4 DEF WordBytes
  <2> QED
    BY <1>2, <1>5, <2>1, <2>2
<1>7. nest' # << >> /\ Len(nest') = 1
  <2>1. nest' = <<t.tok>>
    BY <1>1, <1>2
  <2> QED
    BY <2>1
<1>8. 1 \in 1..Len(type) /\ 1 - 1 = 0
  BY <1>3
<1>9. Len(nest') = Depth(type, 1)
  <2>1. Depth(type, 0) = 0 /\ Depth(type, 1) = Depth(type, 0) + 1
    BY <1>2, <1>3, <1>8, DepthSteps
  <2> QED
    BY <1>7, <2>1
<1>10. Here' = PastTokens(Before(at), type)[1]
  <2>1. /\ PastTokens(Before(at), type)[0] = Before(at)
        /\ PastTokens(Before(at), type)[1] = PastToken(PastTokens(Before(at), type)[0], type[1])
    BY <1>3, <1>8, PastTokensSteps
  <2> QED
    BY <1>1, <1>3, <1>6, <2>1
<1>11. Len(rest') = Len(type) - 1 /\ \A j \in 1..Len(rest') : rest'[j] = type[1 + j]
  <2>1. Len(rest') = Len(type) - 1
    BY <1>2, <1>3
  <2>2. \A j \in 1..Len(rest') : rest'[j] = type[j + 1]
    BY <1>2, <1>3
  <2> QED
    BY <2>1, <2>2
<1>12. Member' = Member /\ Before(at)' = Before(at) /\ type' = type
  <2>1. Member' = Member /\ Before(at)' = Before(at)
    BY <1>2, SameProgram
  <2> QED
    BY <2>1 DEF type
<1>13. AtToken(1)'
  BY <1>1, <1>2, <1>3, <1>5, <1>6, <1>8, <1>9, <1>10, <1>11, <1>12 DEF AtToken, type
<1>14. AtTokens'
  BY <1>1, <1>2, <1>3, <1>8, <1>12, <1>13 DEF AtTokens, type
<1>15. AtMembers' /\ Known' /\ Entered' /\ Once' /\ Shaped'
  BY <1>1, <1>2, <1>7, NothingEntered DEF SolcInv
<1> QED
  BY <1>14, <1>15 DEF SolcInv

LEMMA CloseMemberAgrees ==
  ASSUME Typed, Behind, AllSeen, SolcInv, CloseMember
  PROVE  SolcInv'
<1> DEFINE type == Member.type
           d == Entry(Itself(Member.name), start, 0, WordBytes * (Fresh - start), "struct")
<1>1. /\ InStruct /\ Head(rest).tok = "close" /\ Len(nest) = 1
      /\ slots' = slots \cup {d} /\ slot' = Fresh /\ used' = 0 /\ nest' = << >> /\ at' = at + 1
      /\ UNCHANGED <<entity, stage>>
  BY DEF CloseMember, NextMember
<1>2. /\ Head(rest) \in Tokens /\ nest # << >> /\ stage = "layout" /\ rest \in Seq(Tokens) /\ rest # << >>
      /\ at <= Len(Members)
  BY <1>1, FieldTyped DEF InStruct, Laying
<1>3. /\ type \in Seq(Tokens) /\ WellNested(type) /\ Len(type) \in Nat \ {0}
      /\ Before(at) \in Nat /\ at \in 1..Len(Members) /\ Member = Members[at]
      /\ PastMembers(Members)[at] = PastMember(Before(at), Member) /\ type[1] \in Tokens
  BY <1>2, AtMemberTyped
<1>4. Member.kind = "plain" /\ type[1].tok \in {"record", "payload"}
  BY <1>2 DEF SolcInv, AtTokens
<1>5. PICK k \in 1..Len(type) : AtToken(k)
  BY <1>2 DEF SolcInv, AtTokens
<1>6. /\ k \in 1..Len(type) /\ Len(rest) = Len(type) - k
      /\ \A j \in 1..Len(rest) : rest[j] = type[k + j]
      /\ 1 = Depth(type, k)
      /\ Here = PastTokens(Before(at), type)[k]
      /\ start * WordBytes = RoundUp(Before(at))
      /\ Here > start * WordBytes \/ type[k].tok = "record"
  BY <1>1, <1>5 DEF AtToken
<1>7. Len(rest) \in Nat \ {0} /\ Head(rest) = rest[1]
  BY <1>2
<1> HIDE DEF type
<1>8. k + 1 \in 1..Len(type) /\ (k + 1) - 1 = k /\ k \in 1..(Len(type) - 1) /\ 1 \in 1..Len(rest)
  <2>1. \A l \in Nat \ {0} : \A r \in Nat \ {0}, i \in 1..l :
           r = l - i => i + 1 \in 1..l /\ (i + 1) - 1 = i /\ i \in 1..(l - 1) /\ 1 \in 1..r
    OBVIOUS
  <2> QED
    BY <1>3, <1>6, <1>7, <2>1, Zenon
<1>9. type[k + 1] = Head(rest)
  BY <1>6, <1>7, <1>8
<1>10. Depth(type, k + 1) = 0
  <2>1. Depth(type, k + 1) = Depth(type, k) + (-1)
    BY <1>1, <1>3, <1>8, <1>9, DepthSteps
  <2> QED
    BY <1>6, <2>1
<1>11. k + 1 = Len(type)
  <2>1. k + 1 # Len(type) => k + 1 \in 1..(Len(type) - 1)
    BY <1>3, <1>8
  <2>2. \A l \in 1..(Len(type) - 1) : Depth(type, l) > 0
    BY <1>3 DEF WellNested
  <2> QED
    BY <1>10, <2>1, <2>2
<1>12. type[k].tok # "record"
  BY <1>1, <1>3, <1>8, <1>9 DEF WellNested
<1>13. Fresh \in Nat /\ start \in Nat /\ Here <= Fresh * WordBytes /\ Here \in Nat
  BY FreshGoesOn, HereNat DEF Typed, Here
<1>14. start < Fresh
  BY <1>6, <1>12, <1>13 DEF WordBytes
<1>15. Fresh * WordBytes = PastType(Before(at), type)
  <2>1. PastToken(Here, Head(rest)) = Fresh * WordBytes
    BY <1>1, <1>2, HereSteps
  <2>2. PastTokens(Before(at), type)[k + 1] = PastToken(PastTokens(Before(at), type)[k], type[k + 1])
    <3>1. \A l \in 1..Len(type) :
             PastTokens(Before(at), type)[l] = PastToken(PastTokens(Before(at), type)[l - 1], type[l])
      BY <1>3, PastTokensSteps
    <3> QED
      BY <1>8, <3>1
  <2> QED
    BY <1>6, <1>9, <1>11, <2>1, <2>2, Zenon DEF PastType
<1>16. Here' = PastMembers(Members)[at]
  <2>1. entity \in Entities /\ ~ShadowedInLayout(Member)
    BY <1>4 DEF Typed, ShadowedInLayout
  <2>2. PastMember(Before(at), Member) = PastType(Before(at), Member.type)
    BY <1>3, <1>4, <2>1, SeenMember
  <2>3. Here' = Fresh * WordBytes
    <3>1. Here' = Fresh * WordBytes + 0
      BY <1>1 DEF Here
    <3> QED
      BY <1>13, <3>1 DEF WordBytes
  <2> QED
    BY <1>3, <1>15, <2>2, <2>3 DEF type
<1>17. /\ d.name = Itself(Member.name) /\ d.slot = start /\ d.offset = 0
       /\ d.size = WordBytes * (Fresh - start) /\ d.kind = "struct"
  BY DEF Entry
<1> HIDE DEF d
<1>18. Position(d) = start * WordBytes
  BY <1>13, <1>17 DEF Position, WordBytes
<1>19. SolcPlace(Before(at), type[1]) = start * WordBytes
  <2>1. type[1].tok # "value"
    BY <1>4
  <2> QED
    BY <1>3, <1>6, <2>1, SolcTokenSteps
<1>20. IsMember(d, at)
  BY <1>3, <1>4, <1>17, <1>18, <1>19 DEF IsMember, IsValue, type
<1>21. d.size >= 1 /\ d.offset < WordBytes /\ ~(d.offset > 0)
  BY <1>13, <1>14, <1>17 DEF WordBytes
<1> DEFINE D == {d}
<1>22. slots' = slots \cup D /\ \A e \in D : e = d
  BY <1>1
<1>23. d \in D
  OBVIOUS
<1> HIDE DEF D
<1>24. ~ShadowedInLayout(Member)
  BY <1>4 DEF ShadowedInLayout
<1>25. /\ \A e \in D : IsMember(e, at) \/ IsSidecar(e, at)
       /\ \A e, f \in D : e.name = f.name => e = f
       /\ \A e \in D : e.size >= 1 /\ e.offset < WordBytes /\ (e.kind # "value" => e.offset = 0)
       /\ \A e \in D : e.offset > 0 => \E f \in slots : f.slot = e.slot
       /\ \E e \in D : e.name = Itself(Member.name)
  BY <1>17, <1>20, <1>21, <1>22, <1>23
<1>26. ~(used' > 0)
  BY <1>1
<1> QED
  BY <1>1, <1>2, <1>16, <1>22, <1>24, <1>25, <1>26, MemberEntered

LEMMA FinishAgrees ==
  ASSUME Typed, Behind, Placed, AllSeen, SolcInv, Finish
  PROVE  SolcInv'
<1> DEFINE d == Entry(Initialized, Place(1).slot, Place(1).offset, 1, "value")
           told == entity.asked /\ entity.initParams
<1>1. /\ stage = "layout" /\ at > Len(Members) /\ stage' = "seed"
      /\ slots' = (IF told THEN slots \cup {d} ELSE slots)
      /\ UNCHANGED <<entity, at, nest, slot, used>>
  <2>1. slots' = slots \cup IF told THEN {d} ELSE {}
    BY Zenon DEF Finish
  <2> QED
    BY <2>1 DEF Finish
<1>2. AtMembers /\ Known /\ Entered /\ Once /\ Shaped
  BY DEF SolcInv
<1>3. Len(Members) \in Nat /\ at \in Nat /\ slot \in Nat /\ used \in 0..(WordBytes - 1) /\ Here \in Nat
  <2>1. entity \in Entities
    BY DEF Typed
  <2> QED
    BY <2>1, MembersTyped, HereNat DEF Members, Typed
<1>4. nest = << >>
  BY <1>1, <1>3 DEF Behind, Members
<1>5. at = Len(Members) + 1 /\ Here = PastMembers(Members)[at - 1]
  BY <1>1, <1>2, <1>3, <1>4 DEF AtMembers
<1>6. Members' = Members /\ PastMembers(Members)' = PastMembers(Members) /\ Here' = Here
  BY <1>1, SameProgram DEF Here
<1>7. AtMembers' /\ AtTokens'
  <2>1. at <= Len(Members) + 1
    BY <1>3, <1>5
  <2>2. AtMembers'
    BY <1>1, <1>4, <1>5, <1>6, <2>1 DEF AtMembers
  <2>3. AtTokens'
    BY <1>1, <1>4 DEF AtTokens
  <2> QED
    BY <2>2, <2>3
<1>8. \A e \in slots : \E i \in 1..(at - 1) : IsMember(e, i) \/ IsSidecar(e, i)
  BY <1>1, <1>2 DEF Known, IsInitialized
<1>9. \A e \in slots : (\E i \in 1..(at' - 1) : IsMember(e, i)' \/ IsSidecar(e, i)') /\ e.name # Initialized
  <2>1. \A e, i : IsMember(e, i) \/ IsSidecar(e, i) => e.name # Initialized
    BY NamesApart DEF IsMember, IsSidecar
  <2> QED
    BY <1>1, <1>8, <2>1, SameEntries
<1>10. \A i \in 1..(at' - 1) :
         /\ (Members[i].kind # "identity")' => \E e \in slots : e.name = Itself(Members[i].name)'
         /\ ShadowedInLayout(Members[i])' => \E e \in slots : e.name = ExistsOf(Members[i].name)'
  BY <1>1, <1>2, <1>6 DEF Entered, ShadowedInLayout
<1>11. /\ d.name = Initialized /\ d.slot = Place(1).slot /\ d.offset = Place(1).offset /\ d.size = 1
       /\ d.kind = "value" /\ Position(d) = Place(1).slot * WordBytes + Place(1).offset
  BY DEF Entry, Position
<1>12. told' = told
  BY <1>1
<1> HIDE DEF d, told
<1>13. CASE ~told
  <2>1. slots' = slots
    BY <1>1, <1>13
  <2>2. Known' /\ Once'
    BY <1>2, <1>9, <2>1 DEF Known, Once
  <2>3. Entered'
    BY <1>1, <1>4, <1>5, <1>6, <1>10, <1>12, <1>13, <2>1 DEF Entered, told
  <2>4. Shaped'
    <3>1. \A e \in slots : Position(e) + e.size <= Here
      BY <1>1, <1>4 DEF Placed, Frontier, Here
    <3>2. \A e : Position(e)' = Position(e)
      BY DEF Position
    <3> QED
      BY <1>1, <1>2, <1>6, <2>1, <3>1 DEF Shaped, Position
  <2> QED
    BY <1>7, <2>2, <2>3, <2>4 DEF SolcInv
<1>14. CASE told
  <2>1. slots' = slots \cup {d}
    BY <1>1, <1>14
  <2>2. 1 \in 1..WordBytes /\ Value(1) \in Tokens /\ Value(1).tok = "value" /\ Value(1).size = 1
    BY DEF WordBytes, Value, Tokens
  <2>3. Position(d) = SolcPlace(Here, Value(1))
    BY <1>3, <1>11, <2>2, PlaceIsSolc DEF Here
  <2>4. IsInitialized(d)'
    <3>1. Position(d)' = Position(d) /\ SolcPlace(Here, Value(1))' = SolcPlace(Here, Value(1))
      BY <1>1, <1>6 DEF Position, SolcPlace, RoundUp, d, Entry, Place
    <3>2. d' = d
      BY <1>1 DEF d, Entry, Place
    <3> QED
      BY <1>1, <1>11, <1>12, <1>14, <2>3, <3>1, <3>2 DEF IsInitialized, told
  <2>5. Known'
    <3>1. d' = d
      BY <1>1 DEF d, Entry, Place
    <3> QED
      BY <1>9, <2>1, <2>4, <3>1 DEF Known
  <2>6. Once'
    BY <1>2, <1>9, <1>11, <2>1 DEF Once
  <2>7. Entered'
    BY <1>1, <1>4, <1>5, <1>6, <1>10, <1>11, <2>1 DEF Entered
  <2>8. Shaped'
    <3>1. /\ Place(1).slot \in Nat /\ Place(1).offset \in Nat /\ Place(1).offset + 1 <= WordBytes
      BY <1>3, <2>2, PlaceGoesOn
    <3>2. Place(1).offset > 0 => Place(1).slot = slot /\ used > 0
      BY <1>3 DEF Place, WordBytes
    <3>3. d.size >= 1 /\ d.offset < WordBytes
      BY <1>11, <3>1 DEF WordBytes
    <3>4. \A e \in slots' : e.size >= 1 /\ e.offset < WordBytes /\ (e.kind # "value" => e.offset = 0)
      BY <1>2, <1>11, <2>1, <3>3 DEF Shaped
    <3>5. d.offset > 0 => \E f \in slots' : f # d /\ f.slot = d.slot
      <4>1. used > 0 => \E f \in slots : f.slot = slot
        BY <1>2, <1>4 DEF Shaped
      <4> QED
        BY <1>9, <1>11, <2>1, <3>2, <4>1
    <3>6. \A e \in slots' : e.offset > 0 => \E f \in slots' : f # e /\ f.slot = e.slot
      BY <1>2, <2>1, <3>5 DEF Shaped
    <3>7. used' > 0 => \E f \in slots' : f.slot = slot'
      BY <1>1, <1>2, <1>4, <2>1 DEF Shaped
    <3>8. entity'.asked
      BY <1>1, <1>14 DEF told
    <3> QED
      BY <3>4, <3>6, <3>7, <3>8 DEF Shaped
  <2> QED
    BY <1>7, <2>5, <2>6, <2>7, <2>8 DEF SolcInv
<1> QED
  BY <1>13, <1>14

\* Seeding lays nothing out.
LEMMA SameLayout ==
  ASSUME SolcInv, UNCHANGED <<entity, at, rest, nest, start, slot, used, slots, stage>>
  PROVE  SolcInv'
<1>1. /\ Members' = Members /\ AllSeen' = AllSeen /\ Here' = Here /\ Member' = Member
      /\ \A i : Before(i)' = Before(i)
  BY SameProgram DEF Here
<1>2. AtMembers' = AtMembers
  BY SameProgram, <1>1 DEF AtMembers
<1>3. AtTokens' = AtTokens
  BY <1>1 DEF AtTokens, AtToken
<1>4. Known' = Known
  BY <1>1 DEF Known, IsMember, IsSidecar, IsInitialized
<1>5. Entered' = Entered /\ Once' = Once /\ Shaped' = Shaped
  BY <1>1 DEF Entered, Once, Shaped
<1> QED
  BY <1>1, <1>2, <1>3, <1>4, <1>5 DEF SolcInv

LEMMA InitAgrees ==
  ASSUME LayoutInit
  PROVE  SolcInv
<1>1. /\ entity \in Entities /\ at = 1 /\ nest = << >> /\ slot = 0 /\ used = 0 /\ slots = {} /\ stage = "layout"
  BY DEF LayoutInit, Start
<1>2. Len(Members) \in Nat /\ PastMembers(Members)[0] = 0
  BY <1>1, MembersTyped, PastMembersSteps DEF Members
<1>3. AtMembers
  <2>1. Here = 0 /\ at - 1 = 0 /\ at <= Len(Members) + 1
    BY <1>1, <1>2 DEF Here, WordBytes
  <2> QED
    BY <1>2, <2>1 DEF AtMembers
<1>4. AtTokens /\ Known /\ Once /\ Shaped
  BY <1>1 DEF AtTokens, Known, Once, Shaped
<1>5. Entered
  <2>1. 1..(at - 1) = {}
    BY <1>1
  <2> QED
    BY <1>1, <2>1 DEF Entered
<1> QED
  BY <1>3, <1>4, <1>5 DEF SolcInv

LEMMA NextAgrees ==
  ASSUME IInv, SolcInv, [LayoutNext]_layoutVars
  PROVE  SolcInv'
<1>1. Typed /\ Behind /\ Placed
  BY DEF IInv
<1>2. AllSeen' = AllSeen
  BY ProgramKept, SameProgram
<1>3. CASE ~AllSeen
  BY <1>2, <1>3 DEF SolcInv
<1>4. CASE AllSeen
  <2>1. CASE SkipIdentity
    BY <1>1, <1>4, <2>1, SkipAgrees
  <2>2. CASE PlaceOwnSlot
    BY <1>1, <1>4, <2>2, OwnSlotAgrees
  <2>3. CASE PlaceValue
    BY <1>1, <1>4, <2>3, ValueAgrees
  <2>4. CASE OpenMember
    BY <1>1, <1>4, <2>4, OpenMemberAgrees
  <2>5. CASE OpenField
    BY <1>1, <1>4, <2>5, OpenFieldAgrees
  <2>6. CASE OwnSlotField
    BY <1>1, <1>4, <2>6, OwnSlotFieldAgrees
  <2>7. CASE ValueField
    BY <1>1, <1>4, <2>7, ValueFieldAgrees
  <2>8. CASE CloseField
    BY <1>1, <1>4, <2>8, CloseFieldAgrees
  <2>9. CASE CloseMember
    BY <1>1, <1>4, <2>9, CloseMemberAgrees
  <2>10. CASE Finish
    BY <1>1, <1>4, <2>10, FinishAgrees
  <2>11. CASE \E i \in DOMAIN Members : Seed(Members[i])
    BY <2>11, SameLayout DEF Seed
  <2>12. CASE UNCHANGED layoutVars
    BY <2>12, SameLayout DEF layoutVars
  <2> QED
    BY <2>1, <2>2, <2>3, <2>4, <2>5, <2>6, <2>7, <2>8, <2>9, <2>10, <2>11, <2>12 DEF LayoutNext
<1> QED
  BY <1>3, <1>4

-----------------------------------------------------------------------------
\* An entry of a member's name is that member's.
LEMMA EntryIs ==
  ASSUME Typed, AllSeen, SolcInv, stage = "seed", NEW e \in slots, NEW i \in 1..Len(Members)
  PROVE  /\ e.name = Itself(Members[i].name) => IsMember(e, i)
         /\ e.name = ExistsOf(Members[i].name) => IsSidecar(e, i)
<1>1. entity \in Entities /\ at = Len(Members) + 1 /\ Len(Members) \in Nat /\ 1..(at - 1) = 1..Len(Members)
  <2>1. entity \in Entities
    BY DEF Typed
  <2>2. at = Len(Members) + 1
    BY DEF SolcInv, Entered
  <2>3. Len(Members) \in Nat
    BY <2>1, MembersTyped DEF Members
  <2> QED
    BY <2>1, <2>2, <2>3
<1>2. (\E j \in 1..Len(Members) : IsMember(e, j) \/ IsSidecar(e, j)) \/ IsInitialized(e)
  BY <1>1 DEF SolcInv, Known
<1>3. \A j \in 1..Len(Members) : Members[i].name = Members[j].name => i = j
  BY <1>1, MembersTyped DEF Members
<1>4. ASSUME NEW j \in 1..Len(Members), IsMember(e, j)
      PROVE  (e.name = Itself(Members[i].name) => j = i) /\ e.name # ExistsOf(Members[i].name)
  BY <1>3, <1>4, NamesApart DEF IsMember
<1>5. ASSUME NEW j \in 1..Len(Members), IsSidecar(e, j)
      PROVE  (e.name = ExistsOf(Members[i].name) => j = i) /\ e.name # Itself(Members[i].name)
  BY <1>3, <1>5, NamesApart DEF IsSidecar
<1>6. IsInitialized(e) => e.name # Itself(Members[i].name) /\ e.name # ExistsOf(Members[i].name)
  BY NamesApart DEF IsInitialized
<1> QED
  BY <1>2, <1>4, <1>5, <1>6

\* What the contract declares for a member with nothing overlooked.
LEMMA DeclaredSeen ==
  ASSUME entity \in Entities, AllSeen, NEW i \in 1..Len(Members)
  PROVE  LET m == Members[i] IN
           Declared(m, Before(i)) =
             IF m.kind = "identity" THEN {}
             ELSE {[name |-> Itself(m.name), pos |-> SolcPlace(Before(i), m.type[1])]}
                    \cup IF ShadowedInLayout(m)
                         THEN {[name |-> ExistsOf(m.name), pos |-> PastType(Before(i), m.type)]}
                         ELSE {}
<1> DEFINE m == Members[i]
           p == Before(i)
           S == { [name |-> <<m.name, Sidecars(m)[j]>>, pos |-> PastType(p, m.type) + WordBytes * (j - 1)] :
                    j \in DOMAIN Sidecars(m) }
<1>1. /\ Stored(m) <=> m.kind # "identity"
      /\ Sidecars(m) = IF ShadowedInLayout(m) THEN << "exists" >> ELSE << >>
      /\ ShadowedInLayout(m) => m.kind = "mapping"
  BY SeenMember
<1>2. PastType(p, m.type) \in Nat
  <2>1. Len(Members) \in Nat /\ m.type \in Seq(Tokens)
    BY MembersTyped DEF Members
  <2>2. i - 1 \in 0..Len(Members)
    BY <2>1
  <2>3. p \in Nat
    BY <2>2, PastMembersSteps DEF Before
  <2> QED
    BY <2>1, <2>3, PastTypeGoesOn
<1> HIDE DEF m, p
<1>3. S = IF ShadowedInLayout(m) THEN {[name |-> ExistsOf(m.name), pos |-> PastType(p, m.type)]} ELSE {}
  <2>1. CASE ShadowedInLayout(m)
    <3>1. DOMAIN Sidecars(m) = {1} /\ Sidecars(m)[1] = "exists"
      BY <1>1, <2>1
    <3>2. PastType(p, m.type) + WordBytes * (1 - 1) = PastType(p, m.type)
      BY <1>2 DEF WordBytes
    <3>3. S = {[name |-> <<m.name, Sidecars(m)[1]>>, pos |-> PastType(p, m.type) + WordBytes * (1 - 1)]}
      BY <3>1
    <3> QED
      BY <2>1, <3>1, <3>2, <3>3 DEF ExistsOf
  <2>2. CASE ~ShadowedInLayout(m)
    <3>1. DOMAIN Sidecars(m) = {}
      BY <1>1, <2>2
    <3> QED
      BY <2>2, <3>1
  <2> QED
    BY <2>1, <2>2
<1>4. Declared(m, p) = IF ~Stored(m) THEN {} ELSE {[name |-> Itself(m.name), pos |-> SolcPlace(p, m.type[1])]} \cup S
  BY Zenon DEF Declared
<1> HIDE DEF S
<1>5. Declared(m, p) =
        IF m.kind = "identity" THEN {}
        ELSE {[name |-> Itself(m.name), pos |-> SolcPlace(p, m.type[1])]}
               \cup IF ShadowedInLayout(m)
                    THEN {[name |-> ExistsOf(m.name), pos |-> PastType(p, m.type)]}
                    ELSE {}
  BY <1>1, <1>3, <1>4
<1> QED
  BY <1>5 DEF m, p

\* The contract's positions are the entries', _initialized apart.
LEMMA ContractSeen ==
  ASSUME Typed, AllSeen, SolcInv, stage = "seed"
  PROVE  LET i == [name |-> Initialized, pos |-> SolcPlace(Here, Value(1))] IN
           Contract = { [name |-> e.name, pos |-> Position(e)] : e \in { f \in slots : f.name # Initialized } }
                        \cup IF entity.built /\ entity.initParams THEN {i} ELSE {}
<1> DEFINE past == PastMembers(Members)
           C == UNION { Declared(Members[i], past[i - 1]) : i \in DOMAIN Members }
           E == { [name |-> e.name, pos |-> Position(e)] : e \in { f \in slots : f.name # Initialized } }
<1>1. /\ entity \in Entities /\ Len(Members) \in Nat /\ DOMAIN Members = 1..Len(Members)
      /\ at = Len(Members) + 1 /\ nest = << >> /\ 1..(at - 1) = 1..Len(Members) /\ at - 1 = Len(Members)
  <2>1. entity \in Entities
    BY DEF Typed
  <2>2. at = Len(Members) + 1 /\ nest = << >>
    BY DEF SolcInv, Entered
  <2>3. Len(Members) \in Nat /\ DOMAIN Members = 1..Len(Members)
    BY <2>1, MembersTyped DEF Members
  <2> QED
    BY <2>1, <2>2, <2>3
<1>2. Here = past[Len(Members)]
  BY <1>1 DEF SolcInv, AtMembers
<1>3. ASSUME NEW d \in C PROVE d \in E
  <2>1. PICK i \in 1..Len(Members) : d \in Declared(Members[i], Before(i))
    BY <1>1, <1>3 DEF Before
  <2> DEFINE m == Members[i]
  <2>2. /\ m.kind # "identity"
        /\ \/ d = [name |-> Itself(m.name), pos |-> SolcPlace(Before(i), m.type[1])]
           \/ ShadowedInLayout(m) /\ d = [name |-> ExistsOf(m.name), pos |-> PastType(Before(i), m.type)]
    <3>1. Declared(m, Before(i)) =
             IF m.kind = "identity" THEN {}
             ELSE {[name |-> Itself(m.name), pos |-> SolcPlace(Before(i), m.type[1])]}
                    \cup IF ShadowedInLayout(m)
                         THEN {[name |-> ExistsOf(m.name), pos |-> PastType(Before(i), m.type)]}
                         ELSE {}
      BY <1>1, DeclaredSeen
    <3>2. d \in Declared(m, Before(i))
      BY <2>1
    <3> HIDE DEF m
    <3> QED
      BY <3>1, <3>2
  <2>3. CASE d = [name |-> Itself(m.name), pos |-> SolcPlace(Before(i), m.type[1])]
    <3>1. PICK e \in slots : e.name = Itself(m.name)
      BY <1>1, <2>2 DEF SolcInv, Entered
    <3>2. IsMember(e, i)
      BY <3>1, EntryIs
    <3>3. d = [name |-> e.name, pos |-> Position(e)] /\ e.name # Initialized
      BY <2>3, <3>1, <3>2, NamesApart DEF IsMember
    <3> QED
      BY <3>3
  <2>4. CASE ShadowedInLayout(m) /\ d = [name |-> ExistsOf(m.name), pos |-> PastType(Before(i), m.type)]
    <3>1. PICK e \in slots : e.name = ExistsOf(m.name)
      BY <1>1, <2>4 DEF SolcInv, Entered
    <3>2. IsSidecar(e, i)
      BY <3>1, EntryIs
    <3>3. d = [name |-> e.name, pos |-> Position(e)] /\ e.name # Initialized
      BY <2>4, <3>1, <3>2, NamesApart DEF IsSidecar
    <3> QED
      BY <3>3
  <2> QED
    BY <2>2, <2>3, <2>4
<1>4. ASSUME NEW d \in E PROVE d \in C
  <2>1. PICK e \in slots : e.name # Initialized /\ d = [name |-> e.name, pos |-> Position(e)]
    BY <1>4
  <2>2. PICK i \in 1..Len(Members) : IsMember(e, i) \/ IsSidecar(e, i)
    BY <1>1, <2>1 DEF SolcInv, Known, IsInitialized
  <2> DEFINE m == Members[i]
  <2>3. \/ m.kind # "identity" /\ d = [name |-> Itself(m.name), pos |-> SolcPlace(Before(i), m.type[1])]
        \/ ShadowedInLayout(m) /\ d = [name |-> ExistsOf(m.name), pos |-> PastType(Before(i), m.type)]
    BY <2>1, <2>2 DEF IsMember, IsSidecar
  <2>4. d \in Declared(m, Before(i))
    <3>1. Declared(m, Before(i)) =
             IF m.kind = "identity" THEN {}
             ELSE {[name |-> Itself(m.name), pos |-> SolcPlace(Before(i), m.type[1])]}
                    \cup IF ShadowedInLayout(m)
                         THEN {[name |-> ExistsOf(m.name), pos |-> PastType(Before(i), m.type)]}
                         ELSE {}
      BY <1>1, DeclaredSeen
    <3>2. ShadowedInLayout(m) => m.kind # "identity"
      BY DEF ShadowedInLayout
    <3> HIDE DEF m
    <3> QED
      BY <2>3, <3>1, <3>2
  <2> QED
    BY <1>1, <2>4 DEF Before
<1>5. Contract = C \cup IF entity.built /\ entity.initParams
                        THEN {[name |-> Initialized, pos |-> SolcPlace(past[Len(Members)], Value(1))]}
                        ELSE {}
  BY Zenon DEF Contract
<1>6. C = E
  BY <1>3, <1>4
<1> HIDE DEF C, E, past
<1>7. Contract = E \cup IF entity.built /\ entity.initParams
                        THEN {[name |-> Initialized, pos |-> SolcPlace(Here, Value(1))]}
                        ELSE {}
  BY <1>2, <1>5, <1>6
<1> QED
  BY <1>7 DEF E

LEMMA LayoutKeepsSolc ==
  ASSUME Typed, SolcInv
  PROVE  LayoutIsSolc
<1> SUFFICES ASSUME stage = "seed", entity.asked = entity.built, AllSeen
             PROVE  { [name |-> e.name, pos |-> Position(e)] : e \in slots } = Contract
  BY DEF LayoutIsSolc
<1> DEFINE E == { [name |-> e.name, pos |-> Position(e)] : e \in { f \in slots : f.name # Initialized } }
           i == [name |-> Initialized, pos |-> SolcPlace(Here, Value(1))]
           L == { [name |-> e.name, pos |-> Position(e)] : e \in slots }
<1>1. Contract = E \cup IF entity.built /\ entity.initParams THEN {i} ELSE {}
  BY ContractSeen
<1>2. /\ \A e \in slots : e.name = Initialized =>
           entity.asked /\ entity.initParams /\ Position(e) = SolcPlace(Here, Value(1))
      /\ entity.asked /\ entity.initParams => \E e \in slots : e.name = Initialized
  <2>1. ASSUME NEW e \in slots, e.name = Initialized PROVE IsInitialized(e)
    BY <2>1, NamesApart DEF SolcInv, Known, IsMember, IsSidecar
  <2> QED
    BY <2>1 DEF SolcInv, Entered, IsInitialized
<1>3. L \subseteq E \cup IF entity.built /\ entity.initParams THEN {i} ELSE {}
  <2>1. ASSUME NEW e \in slots
        PROVE  [name |-> e.name, pos |-> Position(e)] \in E \cup IF entity.built /\ entity.initParams THEN {i} ELSE {}
    BY <1>2
  <2> QED
    BY <2>1
<1>4. E \cup (IF entity.built /\ entity.initParams THEN {i} ELSE {}) \subseteq L
  <2>1. E \subseteq L
    OBVIOUS
  <2>2. entity.built /\ entity.initParams => i \in L
    BY <1>2
  <2> QED
    BY <2>1, <2>2
<1> HIDE DEF E, i
<1>5. L = Contract
  BY <1>1, <1>3, <1>4, Zenon
<1> QED
  BY <1>5

-----------------------------------------------------------------------------
(***************************************************************************)
(* What tests seed is what the contract reads                              *)
(***************************************************************************)

\* The bytes a seeded member has written: its word, if it is alone in it, or
\* what of its own the mask leaves.
Written(e) ==
  IF Exclusive(e) THEN { e.slot * WordBytes + i : i \in 0..(WordBytes - 1) }
  ELSE { e.slot * WordBytes + e.offset + i : i \in 0..(Masked(e) - 1) }

Seeded(e) == e \in slots /\ e.kind = "value" /\ \E n \in seeded : e.name = Itself(n)

ReadBack(e) ==
  \A i \in 0..(e.size - 1) : i < 16 \/ Exclusive(e) =>
    /\ Position(e) + i \in DOMAIN word
    /\ word[Position(e) + i] = ByteOf(e.name[1], i)

SeedInv ==
  /\ stage = "layout" => seeded = {} /\ word = << >>
  /\ AllSeen =>
       /\ \A a \in DOMAIN word : \E e \in slots : Seeded(e) /\ a \in Written(e)
       /\ \A e \in slots : Seeded(e) => ReadBack(e)

\* The sizes and places of what has an entry.
LEMMA EntryShape ==
  ASSUME Typed, NoSharedBytes, Shaped, NEW e \in slots
  PROVE  /\ e.slot \in Nat /\ e.offset \in 0..(WordBytes - 1) /\ e.size \in Nat \ {0}
         /\ Position(e) \in Nat /\ Position(e) = e.slot * WordBytes + e.offset
         /\ Position(e) \div WordBytes = e.slot
         /\ e.kind = "value" => e.offset + e.size <= WordBytes
<1>1. /\ e.slot \in Nat /\ e.offset \in Nat /\ e.size \in Nat /\ e.size >= 1 /\ e.offset < WordBytes
      /\ e.kind = "value" => e.offset + e.size <= WordBytes
  BY DEF Typed, NoSharedBytes, Shaped
<1>2. \A s \in Nat, o \in 0..(WordBytes - 1) :
         s * WordBytes + o \in Nat /\ (s * WordBytes + o) \div WordBytes = s
  BY DEF WordBytes
<1>3. e.offset \in 0..(WordBytes - 1)
  BY <1>1 DEF WordBytes
<1> QED
  BY <1>1, <1>2, <1>3 DEF Position

\* A value that is stored as a whole word begins it, and has it for itself.
LEMMA ExclusiveShape ==
  ASSUME Typed, NoSharedBytes, Shaped, NEW e \in slots, e.kind = "value", Exclusive(e)
  PROVE  e.offset = 0 /\ (e.size = WordBytes \/ \A f \in slots : f.slot = e.slot => f = e)
<1>1. e.size = WordBytes \/ \A f \in slots : f.slot = e.slot => f = e
  BY DEF Exclusive
<1>2. CASE e.size = WordBytes
  BY <1>1, <1>2, EntryShape DEF WordBytes
<1>3. CASE \A f \in slots : f.slot = e.slot => f = e
  <2>1. ~(e.offset > 0)
    BY <1>3 DEF Shaped
  <2> QED
    BY <1>1, <2>1, EntryShape
<1> QED
  BY <1>1, <1>2, <1>3

\* What is written for a member is none of another's, as far as its first word.
LEMMA WrittenApart ==
  ASSUME Typed, NoSharedBytes, Shaped, NEW e \in slots, e.kind = "value", NEW f \in slots, f # e,
         NEW i \in 0..(f.size - 1), f.offset + i < WordBytes
  PROVE  Position(f) + i \notin Written(e)
<1>1. /\ e.slot \in Nat /\ e.offset \in 0..(WordBytes - 1) /\ e.size \in Nat \ {0}
      /\ Position(e) = e.slot * WordBytes + e.offset /\ e.offset + e.size <= WordBytes
      /\ Position(e) \in Nat
  BY EntryShape
<1>2. /\ f.slot \in Nat /\ f.offset \in 0..(WordBytes - 1) /\ f.size \in Nat \ {0}
      /\ Position(f) = f.slot * WordBytes + f.offset /\ Position(f) \in Nat
  BY EntryShape
<1>3. Position(e) + e.size <= Position(f) \/ Position(f) + f.size <= Position(e)
  BY DEF NoSharedBytes
<1>4. \A j \in 0..(e.size - 1) : Position(f) + i # Position(e) + j
  <2> DEFINE p == Position(e)
             q == Position(f)
  <2> HIDE DEF p, q
  <2>1. p \in Nat /\ q \in Nat /\ (p + e.size <= q \/ q + f.size <= p)
    BY <1>1, <1>2, <1>3 DEF p, q
  <2>2. \A j \in 0..(e.size - 1) : q + i # p + j
    BY <1>1, <1>2, <2>1
  <2> QED
    BY <2>2 DEF p, q
<1>5. CASE Exclusive(e)
  <2>1. e.offset = 0 /\ (e.size = WordBytes \/ \A g \in slots : g.slot = e.slot => g = e)
    BY <1>5, ExclusiveShape
  <2>2. CASE e.size = WordBytes
    <3>1. \A j \in 0..(WordBytes - 1) : Position(f) + i # e.slot * WordBytes + j
      BY <1>1, <1>4, <2>1, <2>2 DEF WordBytes
    <3> QED
      BY <1>5, <3>1 DEF Written
  <2>3. CASE \A g \in slots : g.slot = e.slot => g = e
    <3>1. f.slot # e.slot
      BY <2>3
    <3>2. \A j \in 0..(WordBytes - 1) : f.slot * WordBytes + (f.offset + i) # e.slot * WordBytes + j
      <4>1. \A s \in Nat, r \in Nat, a \in 0..(WordBytes - 1), b \in 0..(WordBytes - 1) :
               s # r => s * WordBytes + a # r * WordBytes + b
        BY DEF WordBytes
      <4>2. f.offset + i \in 0..(WordBytes - 1)
        BY <1>2 DEF WordBytes
      <4> QED
        BY <1>1, <1>2, <3>1, <4>1, <4>2, Zenon
    <3>3. Position(f) + i = f.slot * WordBytes + (f.offset + i)
      BY <1>2 DEF WordBytes
    <3> QED
      BY <1>5, <3>2, <3>3 DEF Written
  <2> QED
    BY <2>1, <2>2, <2>3
<1>6. CASE ~Exclusive(e)
  <2>1. Masked(e) \in Nat /\ Masked(e) <= e.size
    BY <1>1 DEF Masked
  <2>2. \A j \in 0..(Masked(e) - 1) : j \in 0..(e.size - 1)
    BY <1>1, <2>1
  <2>3. \A j \in 0..(Masked(e) - 1) : Position(f) + i # e.slot * WordBytes + e.offset + j
    BY <1>1, <1>4, <2>2
  <2> QED
    BY <1>6, <2>3 DEF Written
<1> QED
  BY <1>5, <1>6

\* The entry a test seeds by.
LEMMA EntryFound ==
  ASSUME SolcInv, AllSeen, Typed, stage = "seed", NEW i \in DOMAIN Members, Members[i].kind = "plain"
  PROVE  EntryOf(Members[i].name) \in slots /\ EntryOf(Members[i].name).name = Itself(Members[i].name)
<1>1. at = Len(Members) + 1 /\ DOMAIN Members = 1..Len(Members) /\ Len(Members) \in Nat
  BY MembersTyped DEF SolcInv, Entered, Typed, Members
<1>2. i \in 1..(at - 1)
  BY <1>1
<1>3. \E e \in slots : e.name = Itself(Members[i].name)
  BY <1>2 DEF SolcInv, Entered
<1> QED
  BY <1>3 DEF EntryOf

\* The bytes a store for it sets.
LEMMA StoredBytes ==
  ASSUME Typed, NoSharedBytes, Shaped, NEW e \in slots, e.kind = "value"
  PROVE  LET bytes == IF Exclusive(e) THEN WholeWord(e) ELSE PackedField(e) IN
           /\ DOMAIN bytes = Written(e)
           /\ \A i \in 0..(e.size - 1) : i < 16 \/ Exclusive(e) =>
                Position(e) + i \in Written(e) /\ bytes[Position(e) + i] = ByteOf(e.name[1], i)
<1>1. /\ e.slot \in Nat /\ e.offset \in 0..(WordBytes - 1) /\ e.size \in Nat \ {0}
      /\ Position(e) = e.slot * WordBytes + e.offset /\ e.offset + e.size <= WordBytes
  BY EntryShape
<1>2. CASE Exclusive(e)
  <2>1. DOMAIN WholeWord(e) = Written(e)
    BY <1>2 DEF WholeWord, Written
  <2>2. e.offset = 0
    BY <1>2, ExclusiveShape
  <2>3. ASSUME NEW i \in 0..(e.size - 1)
        PROVE  Position(e) + i \in Written(e) /\ WholeWord(e)[Position(e) + i] = ByteOf(e.name[1], i)
    <3>1. Position(e) + i = e.slot * WordBytes + i /\ i \in 0..(WordBytes - 1) /\ i < e.size
          /\ (e.slot * WordBytes + i) - e.slot * WordBytes = i
      BY <1>1, <2>2 DEF WordBytes
    <3>2. Position(e) + i \in Written(e)
      BY <1>2, <3>1 DEF Written
    <3> QED
      BY <2>1, <3>1, <3>2 DEF WholeWord
  <2> QED
    BY <1>2, <2>1, <2>3
<1>3. CASE ~Exclusive(e)
  <2>1. DOMAIN PackedField(e) = Written(e)
    BY <1>3 DEF PackedField, Written
  <2>2. ASSUME NEW i \in 0..(e.size - 1), i < 16
        PROVE  Position(e) + i \in Written(e) /\ PackedField(e)[Position(e) + i] = ByteOf(e.name[1], i)
    <3>1. Position(e) + i = e.slot * WordBytes + e.offset + i /\ i \in 0..(Masked(e) - 1)
          /\ (Position(e) + i) - e.slot * WordBytes - e.offset = i
      BY <1>1, <2>2 DEF WordBytes, Masked
    <3>2. Position(e) + i \in Written(e)
      BY <1>3, <3>1 DEF Written
    <3> QED
      BY <2>1, <3>1, <3>2 DEF PackedField
  <2> QED
    BY <1>3, <2>1, <2>2
<1> QED
  BY <1>2, <1>3

LEMMA SeedKeeps ==
  ASSUME IInv, SolcInv, SeedInv, NEW i \in DOMAIN Members, Seed(Members[i])
  PROVE  SeedInv'
<1> DEFINE m == Members[i]
           e == EntryOf(m.name)
           bytes == IF Exclusive(e) THEN WholeWord(e) ELSE PackedField(e)
<1>1. /\ stage = "seed" /\ m.kind = "plain" /\ e.kind = "value" /\ word' = Stores(bytes)
      /\ seeded' = seeded \cup {m.name} /\ UNCHANGED <<entity, slots, stage>>
  BY DEF Seed
<1>2. AllSeen' = AllSeen
  BY <1>1, SameProgram
<1>3. SUFFICES ASSUME AllSeen
               PROVE  /\ (\A a \in DOMAIN word : \E f \in slots : Seeded(f) /\ a \in Written(f))'
                      /\ (\A f \in slots : Seeded(f) => ReadBack(f))'
  BY <1>1, <1>2 DEF SeedInv
<1>4. Typed /\ NoSharedBytes /\ Shaped /\ Once
  BY <1>3 DEF IInv, SolcInv
<1>5. e \in slots /\ e.name = Itself(m.name)
  BY <1>1, <1>3, <1>4, EntryFound
<1> HIDE DEF m, e
<1>6. /\ DOMAIN bytes = Written(e)
      /\ \A j \in 0..(e.size - 1) : j < 16 \/ Exclusive(e) =>
           Position(e) + j \in Written(e) /\ bytes[Position(e) + j] = ByteOf(e.name[1], j)
  BY <1>1, <1>4, <1>5, StoredBytes
<1> HIDE DEF bytes
<1>7. /\ DOMAIN word' = Written(e) \cup DOMAIN word
      /\ \A a \in DOMAIN word' : word'[a] = IF a \in Written(e) THEN bytes[a] ELSE word[a]
  BY <1>1, <1>6 DEF Stores
<1>8. \A f : Written(f)' = Written(f) /\ Position(f)' = Position(f) /\ Exclusive(f)' = Exclusive(f)
  BY <1>1 DEF Written, Position, Exclusive, Masked
<1>9. \A f \in slots : Seeded(f)' <=> Seeded(f) \/ f = e
  <2>1. ASSUME NEW f \in slots, Seeded(f)' PROVE Seeded(f) \/ f = e
    <3>1. PICK n \in seeded' : f.name = Itself(n)
      BY <2>1 DEF Seeded
    <3>2. CASE n \in seeded
      BY <2>1, <3>1, <3>2 DEF Seeded
    <3>3. CASE n = m.name
      BY <1>4, <1>5, <3>1, <3>3 DEF Once
    <3> QED
      BY <1>1, <3>1, <3>2, <3>3
  <2>2. ASSUME NEW f \in slots, Seeded(f) \/ f = e PROVE Seeded(f)'
    <3>1. m.name \in seeded' /\ seeded \subseteq seeded'
      BY <1>1
    <3> QED
      BY <1>1, <1>5, <2>2, <3>1 DEF Seeded
  <2> QED
    BY <2>1, <2>2
<1>10. (\A a \in DOMAIN word : \E f \in slots : Seeded(f) /\ a \in Written(f))'
  <2>1. ASSUME NEW a \in DOMAIN word' PROVE \E f \in slots : Seeded(f)' /\ a \in Written(f)
    <3>1. CASE a \in Written(e)
      BY <1>5, <1>9, <3>1
    <3>2. CASE a \in DOMAIN word
      <4>1. PICK f \in slots : Seeded(f) /\ a \in Written(f)
        BY <1>3, <3>2 DEF SeedInv
      <4> QED
        BY <1>9, <4>1
    <3> QED
      BY <1>7, <2>1, <3>1, <3>2
  <2> QED
    BY <1>1, <1>8, <2>1
<1>11. ASSUME NEW f \in slots, Seeded(f)' PROVE ReadBack(f)'
  <2>1. ASSUME NEW j \in 0..(f.size - 1), j < 16 \/ Exclusive(f)
        PROVE  Position(f) + j \in DOMAIN word' /\ word'[Position(f) + j] = ByteOf(f.name[1], j)
    <3>1. CASE f = e
      BY <1>6, <1>7, <2>1, <3>1
    <3>2. CASE f # e
      <4>1. Seeded(f) /\ f.kind = "value"
        BY <1>9, <1>11, <3>2 DEF Seeded
      <4>2. Position(f) + j \in DOMAIN word /\ word[Position(f) + j] = ByteOf(f.name[1], j)
        <5>1. ReadBack(f)
          BY <1>3, <4>1 DEF SeedInv
        <5> QED
          BY <2>1, <5>1 DEF ReadBack
      <4>3. f.offset + j < WordBytes
        <5>1. f.offset \in 0..(WordBytes - 1) /\ f.size \in Nat \ {0} /\ f.offset + f.size <= WordBytes
          BY <1>4, <4>1, EntryShape
        <5> QED
          BY <5>1 DEF WordBytes
      <4>4. Position(f) + j \notin Written(e)
        BY <1>1, <1>4, <1>5, <3>2, <4>3, WrittenApart
      <4> QED
        BY <1>7, <4>2, <4>4
    <3> QED
      BY <3>1, <3>2
  <2> QED
    BY <1>8, <2>1 DEF ReadBack
<1>12. (\A f \in slots : Seeded(f) => ReadBack(f))'
  BY <1>1, <1>11
<1> QED
  BY <1>10, <1>12

LEMMA NextSeeds ==
  ASSUME IInv, SolcInv, SeedInv, [LayoutNext]_layoutVars
  PROVE  SeedInv'
<1>1. CASE \E i \in DOMAIN Members : Seed(Members[i])
  BY <1>1, SeedKeeps
<1>2. ASSUME stage = "layout", UNCHANGED <<seeded, word>> PROVE SeedInv'
  <2>1. seeded' = {} /\ word' = << >> /\ DOMAIN << >> = {}
    BY <1>2 DEF SeedInv
  <2>2. ~(\E n \in seeded' : TRUE) /\ DOMAIN word' = {}
    BY <2>1
  <2> QED
    BY <2>1, <2>2 DEF SeedInv, Seeded
<1>3. CASE UNCHANGED layoutVars
  <2>1. AllSeen' = AllSeen /\ UNCHANGED <<seeded, word, stage, slots>>
    BY <1>3, SameProgram DEF layoutVars
  <2>2. \A f : Written(f)' = Written(f) /\ Seeded(f)' = Seeded(f) /\ ReadBack(f)' = ReadBack(f)
    BY <2>1 DEF Written, Position, Exclusive, Masked, Seeded, ReadBack
  <2> QED
    BY <2>1, <2>2 DEF SeedInv
<1>4. CASE SkipIdentity \/ PlaceOwnSlot \/ PlaceValue \/ OpenMember
  BY <1>2, <1>4 DEF SkipIdentity, PlaceOwnSlot, PlaceValue, OpenMember, AtMember, Laying
<1>5. CASE OpenField \/ OwnSlotField \/ ValueField \/ CloseField \/ CloseMember
  BY <1>2, <1>5 DEF OpenField, OwnSlotField, ValueField, CloseField, CloseMember, NextField, InStruct, Laying
<1>6. CASE Finish
  BY <1>2, <1>6 DEF Finish
<1> QED
  BY <1>1, <1>3, <1>4, <1>5, <1>6 DEF LayoutNext

LEMMA InitSeeds == LayoutInit => SeedInv
<1> SUFFICES ASSUME LayoutInit PROVE SeedInv
  OBVIOUS
<1>1. seeded = {} /\ word = << >> /\ DOMAIN << >> = {}
  BY DEF LayoutInit, Start
<1> QED
  BY <1>1 DEF SeedInv, Seeded

-----------------------------------------------------------------------------
LEMMA SeedsAreRead ==
  ASSUME IInv, SolcInv, SeedInv
  PROVE  SeedsReadBack
<1> DEFINE Set == { Itself(n) : n \in seeded }
           Fits(d) ==
             /\ \A j \in DOMAIN Members :
                  LET m == Members[j] IN
                    d.name = Itself(m.name) /\ IsValue(m) =>
                      \A i \in BytesOf(m) :
                        IF m.name \in seeded
                        THEN i < 16 \/ Sharing(Contract, d) = {} =>
                               d.pos + i \in DOMAIN word /\ word[d.pos + i] = ByteOf(m.name, i)
                        ELSE d.pos + i \notin DOMAIN word
             /\ d.name \in Set \/ d.pos \notin DOMAIN word
                  \/ (d.name = Initialized
                        /\ \E k \in Contract : k.name \in Set /\ Sharing(Contract, k) = {d})
<1>1. SUFFICES ASSUME stage = "seed", ~entity.asked, AllSeen, NEW d \in Contract PROVE Fits(d)
  BY DEF SeedsReadBack
<1>2. Typed /\ NoSharedBytes /\ Shaped /\ Once /\ Known
  BY <1>1 DEF IInv, SolcInv
<1>3. /\ \A a \in DOMAIN word : \E e \in slots : Seeded(e) /\ a \in Written(e)
      /\ \A e \in slots : Seeded(e) => ReadBack(e)
  BY <1>1 DEF SeedInv
<1> DEFINE last == [name |-> Initialized, pos |-> SolcPlace(Here, Value(1))]
           At(e) == [name |-> e.name, pos |-> Position(e)]
<1>4. Contract = { At(e) : e \in { f \in slots : f.name # Initialized } }
                   \cup IF entity.built /\ entity.initParams THEN {last} ELSE {}
  BY <1>1, <1>2, ContractSeen
<1>5. \A e \in slots : e.name # Initialized
  BY <1>1, <1>2, NamesApart DEF Known, IsMember, IsSidecar, IsInitialized
<1> HIDE DEF last, At
<1>6. \A e \in slots : At(e) \in Contract
  BY <1>4, <1>5
<1>7. \A e \in slots : At(e).name = e.name /\ At(e).pos = Position(e)
  BY DEF At
<1>8. d = last \/ \E e \in slots : d = At(e)
  BY <1>1, <1>4
<1>9. last.name = Initialized /\ last.pos = SolcPlace(Here, Value(1))
  BY DEF last
<1>10. \A n : Itself(n)[1] = n /\ Itself(n) # Initialized
  BY NamesApart DEF Itself
<1>11. \A e \in slots : Seeded(e) => e.kind = "value" /\ e.name \in Set
  BY DEF Seeded
<1>12. ASSUME NEW e \in slots, d = At(e), NEW j \in DOMAIN Members,
              d.name = Itself(Members[j].name), IsValue(Members[j]), NEW i \in BytesOf(Members[j])
       PROVE  IF Members[j].name \in seeded
              THEN i < 16 \/ Sharing(Contract, d) = {} =>
                     d.pos + i \in DOMAIN word /\ word[d.pos + i] = ByteOf(Members[j].name, i)
              ELSE d.pos + i \notin DOMAIN word
  <2> DEFINE m == Members[j]
  <2>1. IsMember(e, j)
    <3>1. j \in 1..Len(Members)
      BY <1>2, MembersTyped DEF Typed, Members
    <3> QED
      BY <1>1, <1>2, <1>7, <1>12, <3>1, EntryIs
  <2>2. e.name = Itself(m.name) /\ e.kind = "value" /\ e.size = m.type[1].size /\ d.pos = Position(e)
    BY <1>7, <1>12, <2>1 DEF IsMember, IsValue, SizeOf
  <2>3. i \in 0..(e.size - 1) /\ e.name[1] = m.name
    <3>1. i \in 0..(WordBytes - 1) /\ i < e.size
      BY <1>12, <2>2 DEF BytesOf
    <3>2. e.size \in Nat
      BY <1>2 DEF Typed
    <3> QED
      BY <1>10, <2>2, <3>1, <3>2 DEF WordBytes
  <2> HIDE DEF m
  <2>4. CASE m.name \in seeded
    <3>1. Seeded(e)
      BY <2>2, <2>4 DEF Seeded
    <3>2. ReadBack(e)
      BY <1>3, <3>1
    <3>3. Sharing(Contract, d) = {} => Exclusive(e)
      <4> SUFFICES ASSUME Sharing(Contract, d) = {}, NEW f \in slots, f.slot = e.slot PROVE f = e
        BY DEF Exclusive
      <4>1. At(f).pos \div WordBytes = d.pos \div WordBytes
        BY <1>2, <1>7, <2>2, EntryShape
      <4>2. At(f) \in Contract /\ At(f) \notin Contract \ {d}
        BY <1>6, <4>1 DEF Sharing
      <4>3. At(f) = At(e)
        BY <1>12, <4>2
      <4> QED
        BY <1>2, <1>7, <4>3 DEF Once
    <3> QED
      BY <2>2, <2>3, <2>4, <3>2, <3>3 DEF ReadBack, m
  <2>5. CASE m.name \notin seeded
    <3>1. e.offset + i < WordBytes
      <4>1. e.offset \in 0..(WordBytes - 1) /\ e.size \in Nat \ {0} /\ e.offset + e.size <= WordBytes
        BY <1>2, <2>2, EntryShape
      <4> QED
        BY <2>3, <4>1 DEF WordBytes
    <3>2. ASSUME NEW f \in slots, Seeded(f) PROVE Position(e) + i \notin Written(f)
      <4>1. f # e
        BY <1>10, <2>2, <2>5, <3>2 DEF Seeded
      <4> QED
        BY <1>2, <1>11, <2>3, <3>1, <3>2, <4>1, WrittenApart
    <3>3. d.pos + i \notin DOMAIN word
      BY <1>3, <2>2, <3>2
    <3> QED
      BY <2>5, <3>3 DEF m
  <2> QED
    BY <2>4, <2>5
<1>13. ASSUME NEW e \in slots, d = At(e), d.name \notin Set PROVE d.pos \notin DOMAIN word
  <2>1. /\ e.offset + 0 < WordBytes /\ 0 \in 0..(e.size - 1) /\ Position(e) + 0 = Position(e)
    <3>1. e.offset \in 0..(WordBytes - 1) /\ e.size \in Nat \ {0} /\ Position(e) \in Nat
      BY <1>2, EntryShape
    <3> QED
      BY <3>1 DEF WordBytes
  <2>2. ASSUME NEW f \in slots, Seeded(f) PROVE Position(e) \notin Written(f)
    <3>1. f # e /\ f.kind = "value"
      BY <1>7, <1>11, <1>13, <2>2
    <3>2. Position(e) + 0 \notin Written(f)
      BY <1>2, <2>1, <3>1, WrittenApart
    <3> QED
      BY <2>1, <3>2
  <2> QED
    BY <1>3, <1>7, <1>13, <2>2
<1>14. ASSUME d = last, d.pos \in DOMAIN word
       PROVE  \E k \in Contract : k.name \in Set /\ Sharing(Contract, k) = {d}
  <2>1. PICK e \in slots : Seeded(e) /\ d.pos \in Written(e)
    BY <1>3, <1>14
  <2>2. /\ e.slot \in Nat /\ e.offset \in 0..(WordBytes - 1) /\ e.size \in Nat \ {0}
        /\ Position(e) = e.slot * WordBytes + e.offset /\ Position(e) \div WordBytes = e.slot
        /\ e.kind = "value" /\ e.name \in Set
    BY <1>2, <1>11, <2>1, EntryShape
  <2>3. Position(e) + e.size <= d.pos /\ d.pos \in Nat
    <3>1. Here \in Nat /\ Position(e) + e.size <= Here
      BY <1>1, <1>2, HereNat DEF Shaped
    <3>2. Value(1) \in Tokens
      BY DEF Value, Tokens, WordBytes
    <3>3. SolcPlace(Here, Value(1)) >= Here /\ SolcPlace(Here, Value(1)) \in Nat
      BY <3>1, <3>2, SolcTokenSteps
    <3>4. Position(e) \in Nat
      BY <1>2, EntryShape
    <3> QED
      BY <1>9, <1>14, <2>2, <3>1, <3>3, <3>4
  <2>4. Exclusive(e)
    <3> SUFFICES ASSUME ~Exclusive(e) PROVE FALSE
      OBVIOUS
    <3>1. PICK i \in 0..(Masked(e) - 1) : d.pos = e.slot * WordBytes + e.offset + i
      BY <2>1 DEF Written
    <3>2. Masked(e) \in Nat /\ Masked(e) <= e.size
      BY <2>2 DEF Masked
    <3> QED
      BY <2>2, <2>3, <3>1, <3>2 DEF WordBytes
  <2>5. PICK i \in 0..(WordBytes - 1) : d.pos = e.slot * WordBytes + i
    BY <2>1, <2>4 DEF Written
  <2>6. e.size # WordBytes
    <3>1. \A s \in Nat, o \in 0..(WordBytes - 1), j \in 0..(WordBytes - 1) :
             ~(s * WordBytes + o + WordBytes <= s * WordBytes + j)
      BY DEF WordBytes
    <3>2. e.slot * WordBytes + e.offset + e.size <= e.slot * WordBytes + i
      BY <2>2, <2>3, <2>5
    <3> QED
      BY <2>2, <3>1, <3>2
  <2>7. \A f \in slots : f.slot = e.slot => f = e
    BY <1>2, <2>2, <2>4, <2>6, ExclusiveShape
  <2>8. d.pos \div WordBytes = e.slot
    <3>1. \A s \in Nat, o \in 0..(WordBytes - 1) : (s * WordBytes + o) \div WordBytes = s
      BY DEF WordBytes
    <3> QED
      BY <2>2, <2>5, <3>1
  <2>9. d \in Sharing(Contract, At(e))
    <3>1. d # At(e)
      BY <1>5, <1>7, <1>9, <1>14
    <3> QED
      BY <1>1, <1>7, <2>2, <2>8, <3>1 DEF Sharing
  <2>10. ASSUME NEW c \in Sharing(Contract, At(e)) PROVE c = d
    <3>1. c \in Contract /\ c # At(e) /\ c.pos \div WordBytes = e.slot
      BY <1>7, <2>2, <2>10 DEF Sharing
    <3>2. c = last \/ \E f \in slots : c = At(f)
      BY <1>4, <3>1
    <3>3. ASSUME NEW f \in slots, c = At(f) PROVE FALSE
      <4>1. f.slot = e.slot
        BY <1>2, <1>7, <3>1, <3>3, EntryShape
      <4> QED
        BY <2>7, <3>1, <3>3, <4>1
    <3> QED
      BY <1>14, <3>2, <3>3
  <2>11. Sharing(Contract, At(e)) = {d}
    BY <2>9, <2>10
  <2>12. At(e) \in Contract /\ At(e).name \in Set
    BY <1>6, <1>7, <2>2
  <2> QED
    BY <2>11, <2>12
<1>15. CASE \E e \in slots : d = At(e)
  BY <1>12, <1>13, <1>15
<1>16. CASE d = last
  <2>1. \A j \in DOMAIN Members : d.name # Itself(Members[j].name)
    BY <1>9, <1>10, <1>16
  <2> QED
    BY <1>9, <1>14, <1>16, <2>1
<1> QED
  BY <1>8, <1>15, <1>16

\* For every entity and every choice of members a test seeds: where the tests
\* look for a member is where solc keeps it (compute_layout_with_records), and
\* what they store is what the contract reads (gen_state_init), but for what
\* Overlooked and SeedsReadBack name.
THEOREM LayoutAlwaysServesTests == LayoutSpec => []LayoutServesTests
<1> DEFINE Inv == IInv /\ SolcInv /\ SeedInv
<1>1. LayoutInit => Inv
  BY InitFrontier, InitAgrees, InitSeeds
<1>2. Inv /\ [LayoutNext]_layoutVars => Inv'
  <2> SUFFICES ASSUME Inv, [LayoutNext]_layoutVars PROVE Inv'
    OBVIOUS
  <2>1. IInv'
    BY NextFrontier
  <2>2. SolcInv'
    BY NextAgrees
  <2>3. SeedInv'
    BY NextSeeds
  <2> QED
    BY <2>1, <2>2, <2>3
<1>3. Inv => LayoutServesTests
  BY LayoutKeepsSolc, SeedsAreRead DEF IInv, LayoutServesTests
<1> QED
  BY <1>1, <1>2, <1>3, PTL DEF LayoutSpec
=============================================================================
