------------------------------- MODULE Resets -------------------------------
(***************************************************************************)
(* Transforms that empty a member, on the Solidity target.  A transform of *)
(* a HashMap whose body is {} or HashMap::new(), and one of a Vec of       *)
(* records or enums whose body is array(), emit no write: storage starts   *)
(* empty.  Every other transform writes what its body says.  The lowering  *)
(* finds a transform by its member, route and phase, so that two of the    *)
(* same three are both emitted as the first of them.                       *)
(*                                                                         *)
(* A route is the list of bodies of each member, in one phase without ^    *)
(* references; how the writes of a phase are ordered is RouteExec's        *)
(* subject.                                                                *)
(***************************************************************************)
EXTENDS Integers, Sequences, FiniteSets

CONSTANTS Resettable, \* the members
          Kind,       \* of a member: a map, a Vec of records, of values, or a word
          Items,      \* the keys, elements and words in play
          Default,    \* a word's default
          MaxLen,     \* bound on a Vec's length
          Repeats     \* how many transforms of one word a phase may have

ASSUME ResetsAssumption ==
    /\ Kind \in [Resettable -> {"map", "records", "values", "word"}]
    /\ Default \in Items
    /\ MaxLen \in Nat /\ Repeats \in Nat \ {0}

VARIABLES stored,     \* what the contract holds
          said        \* what the transforms say

resetVars == <<stored, said>>

Empty == [does |-> "empty"]
Add(x) == [does |-> "add", item |-> x]
Changes == {Empty} \cup { Add(x) : x \in Items }

Nothing(k) == CASE k = "map" -> {} [] k = "word" -> Default [] OTHER -> << >>

(* The member's new value by its body: insert, push, or the word itself.   *)
NewValue(k, body, old) ==
    IF body = Empty THEN Nothing(k)
    ELSE CASE k = "map" -> old \cup {body.item}
           [] k = "word" -> body.item
           [] OTHER -> Append(old, body.item)

(* Mutant: an empty Vec of scalars is not written either.                  *)
WritesEmptyNoVec(k) == k = "word"

WritesEmpty(k) == k \notin {"map", "records"}

(* Mutant: an insertion drops what the map held.                           *)
EmittedFresh(k, body, old) ==
    IF body = Empty /\ ~WritesEmpty(k) THEN old
    ELSE NewValue(k, body, IF k \in {"map", "records"} THEN Nothing(k) ELSE old)

Emitted(k, body, old) ==
    IF body = Empty /\ ~WritesEmpty(k) THEN old ELSE NewValue(k, body, old)

Resolved(bodies) == [i \in DOMAIN bodies |-> bodies[1]]

(* Each next value is computed from the state before the phase; of several *)
(* the last one assigned stays.                                            *)
Final(bodies) == bodies[Len(bodies)]

BodiesOf(m) ==
    {<< >>} \cup [1..1 -> Changes]
        \cup (IF Kind[m] = "word" THEN UNION { [1..n -> Changes] : n \in 1..Repeats } ELSE {})

(* Mutant: one element too many fits.                                      *)
FitsOneMore(m, bodies) ==
    (Kind[m] \in {"records", "values"} /\ bodies[1] # Empty) => Len(stored[m]) <= MaxLen

Fits(m, bodies) ==
    (Kind[m] \in {"records", "values"} /\ bodies[1] # Empty) => Len(stored[m]) < MaxLen

ResetInit ==
    /\ stored = [m \in Resettable |-> Nothing(Kind[m])]
    /\ said = stored

(* A route that transforms one member; the others carry forward.           *)
Transform(m, bodies) ==
    /\ bodies # << >> /\ Fits(m, bodies)
    /\ stored' = [stored EXCEPT ![m] = Emitted(Kind[m], Final(Resolved(bodies)), @)]
    /\ said' = [said EXCEPT ![m] = NewValue(Kind[m], Final(bodies), @)]

(* The constructor's writes and a route's are emitted alike.               *)
ResetNext == \E m \in Resettable : \E bodies \in BodiesOf(m) : Transform(m, bodies)

ResetSpec == ResetInit /\ [][ResetNext]_resetVars

(* stored holds a value of each member's kind, and no Vec outgrows its      *)
(* bound: a route pushes in place, one element at a time (route.rs).        *)
ResetTypeOK ==
    \A m \in Resettable :
        CASE Kind[m] = "map" -> stored[m] \subseteq Items
          [] Kind[m] = "word" -> stored[m] \in Items
          [] OTHER -> /\ Len(stored[m]) \in 0..MaxLen
                      /\ \A i \in DOMAIN stored[m] : stored[m][i] \in Items

(* A Vec of scalars and a word hold what their transforms say after every   *)
(* route, resets included: emit_transforms_sol_split writes new T[](0) and   *)
(* the type's default.                                                      *)
ScalarsAsMeant ==
    \A m \in Resettable : Kind[m] \in {"values", "word"} => stored[m] = said[m]

EndsWith(t, s) == \E n \in 0..Len(t) : s = SubSeq(t, n + 1, Len(t))

(* What a reset leaves behind is only what was there: no transform of a     *)
(* HashMap or of a Vec of records loses an entry that its later transforms  *)
(* added, and those stay behind the old ones in their order.                *)
ResetsOnlyKeep ==
    \A m \in Resettable :
        CASE Kind[m] = "map" -> said[m] \subseteq stored[m]
          [] Kind[m] = "records" -> EndsWith(stored[m], said[m])
          [] OTHER -> TRUE

(* A Vec of values and a word hold what their transforms say, resets        *)
(* included (emit_transforms_sol_split); of a HashMap or a Vec of records,   *)
(* whose reset is not emitted (gen_mapping_transform_split), all that was    *)
(* added since is there, and whatever more there is was there before.        *)
ResetsAsMeant == ScalarsAsMeant /\ ResetsOnlyKeep

(* LANGUAGE.md's execution model: for each member with a transform its new  *)
(* value is computed and the state updated, here for a HashMap.             *)
MapsAsMeant == \A m \in Resettable : Kind[m] = "map" => stored[m] = said[m]

(* vec_empty_transform_needs_write's comment, "an empty dynamic storage      *)
(* array is already correct": the Vec of records is as its transforms say.   *)
RecordsAsMeant == \A m \in Resettable : Kind[m] = "records" => stored[m] = said[m]

(* The comment at the scoped next_ temporaries, "repeat transforms on the   *)
(* same member only declare next_* once; subsequent ones assign".           *)
LaterAssigns == \A m \in Resettable : Kind[m] = "word" => stored[m] = said[m]

=============================================================================
