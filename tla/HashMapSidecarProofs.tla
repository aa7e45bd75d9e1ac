------------------------ MODULE HashMapSidecarProofs ------------------------
(***************************************************************************)
(* The sidecars of a HashMap member: m_keys and m_keys_index stay inverse  *)
(* of each other through every write, and an iteration sees the entries in *)
(* the documented order.  Then the members whose transforms may empty      *)
(* them: what a dropped reset leaves behind was there before it.           *)
(***************************************************************************)
EXTENDS HashMapSidecar, Resets, FiniteSetTheorems, SequenceTheorems, WellFoundedInduction, TLAPS

IInv ==
  /\ TypeOK
  /\ KeysIndexed
  /\ shape # "iterated" => keys = << >>

(***************************************************************************)
(* The setup                                                               *)
(***************************************************************************)
\* The lowering keeps a tail of the chain, of the same calls.
LEMMA LoweredType ==
  ASSUME NEW ops \in Seq(Ops)
  PROVE  Lowered(ops) \in Seq(Ops)
<1> DEFINE R == Reached(ops)
           n == Len(ops)
<1>1. n \in Nat /\ DOMAIN ops = 1..n
  OBVIOUS
<1>2. R \subseteq 1..n
  BY <1>1 DEF Reached
<1>3. IsFiniteSet(1..n) /\ Cardinality(1..n) = n
  BY <1>1, FS_Interval
<1>4. Cardinality(R) \in Nat /\ Cardinality(R) <= n
  BY <1>2, <1>3, FS_Subset, FS_CardinalityType
<1> HIDE DEF R
<1>5. n - Cardinality(R) + 1 \in 1..(n + 1)
  BY <1>1, <1>4
<1>6. \A a \in 1..(n + 1) : SubSeq(ops, a, n) \in Seq(Ops)
  OBVIOUS
<1> QED
  BY <1>5, <1>6 DEF Lowered, R

\* The temporaries hold values.
LEMMA EvaluatedType ==
  ASSUME TypeOK, NEW b \in Bodies[shape]
  PROVE  [i \in DOMAIN b |-> Evaluated(b[i])] \in Seq(Ops)
<1> DEFINE Source == [kind : {"update", "nested", "remove"}, key : Keys, val : Values \cup Keys]
<1>1. b \in Seq(Source)
  BY SidecarAssumption DEF TypeOK
<1>2. ASSUME NEW op \in Source PROVE Evaluated(op) \in Ops
  <2>1. op.val \in Keys => value[op.val] \in Values
    BY DEF TypeOK
  <2> QED
    BY <1>2, <2>1 DEF Evaluated, Ops
<1> HIDE DEF Source
<1>3. \A i \in DOMAIN b : Evaluated(b[i]) \in Ops
  BY <1>1, <1>2
<1>4. DOMAIN b = 1..Len(b) /\ Len(b) \in Nat
  BY <1>1
<1> QED
  BY <1>3, <1>4

\* The first of the writes to come, and the others.
LEMMA FirstWrite ==
  ASSUME TypeOK, todo # << >>
  PROVE  /\ Head(todo).key \in Keys /\ Head(todo).val \in Values
         /\ Tail(todo) \in Seq(Ops)
<1>1. Head(todo) \in Ops /\ Tail(todo) \in Seq(Ops)
  BY DEF TypeOK
<1> QED
  BY <1>1 DEF Ops

(***************************************************************************)
(* The writes                                                              *)
(***************************************************************************)
\* An insert of a new key keeps array and reverse index inverse of each other.
LEMMA UpdatePreserves ==
  ASSUME IInv, WriteUpdate
  PROVE  IInv'
<1> DEFINE k == Head(todo).key
<1>1. todo # << >> /\ shape' = shape /\ todo' = Tail(todo)
  BY DEF WriteUpdate, Writing
<1>2. k \in Keys /\ Head(todo).val \in Values /\ Tail(todo) \in Seq(Ops)
  BY <1>1, FirstWrite DEF IInv
<1>3. value' \in [Keys -> Values]
  BY <1>2 DEF WriteUpdate, IInv, TypeOK
<1>4. CASE ~(shape # "plain" /\ ~exists[k])
  <2>1. index' = index /\ keys' = keys /\ exists' = exists
    BY <1>4 DEF WriteUpdate
  <2> QED
    BY <1>1, <1>2, <1>3, <2>1 DEF IInv, TypeOK, KeysIndexed
<1>5. CASE shape # "plain" /\ ~exists[k]
  <2>1. exists' = [exists EXCEPT ![k] = TRUE] /\ Enumerate(k)
    BY <1>5 DEF WriteUpdate
  <2> HIDE DEF k
  <2>2. exists' \in [Keys -> BOOLEAN]
    BY <1>2, <2>1 DEF IInv, TypeOK
  <2>3. CASE shape # "iterated"
    <3>1. index' = index /\ keys' = keys
      BY <2>1, <2>3 DEF Enumerate
    <3> QED
      BY <1>1, <1>2, <1>3, <2>2, <2>3, <3>1 DEF IInv, TypeOK, KeysIndexed
  <2>4. CASE shape = "iterated"
    <3>1. index' = [index EXCEPT ![k] = Len(keys)] /\ keys' = Append(keys, k)
      BY <2>1, <2>4 DEF Enumerate
    <3>2. keys \in Seq(Keys) /\ index \in [Keys -> Nat] /\ exists \in [Keys -> BOOLEAN]
      BY DEF IInv, TypeOK
    <3>3. /\ \A i \in 1..Len(keys) : exists[keys[i]] /\ index[keys[i]] = i - 1
          /\ \A q \in Keys : exists[q] => index[q] < Len(keys) /\ keys[index[q] + 1] = q
      BY <2>4 DEF IInv, KeysIndexed
    <3>4. /\ keys' \in Seq(Keys) /\ index' \in [Keys -> Nat]
          /\ Len(keys) \in Nat /\ Len(keys') = Len(keys) + 1
          /\ keys'[Len(keys) + 1] = k /\ \A i \in 1..Len(keys) : keys'[i] = keys[i]
      BY <1>2, <3>1, <3>2
    <3>5. ASSUME NEW i \in 1..Len(keys') PROVE exists'[keys'[i]] /\ index'[keys'[i]] = i - 1
      <4>1. CASE i = Len(keys) + 1
        <5>1. exists'[k] /\ index'[k] = Len(keys)
          BY <1>2, <2>1, <3>1, <3>2
        <5> QED
          BY <3>4, <4>1, <5>1
      <4>2. CASE i \in 1..Len(keys)
        <5>0. exists[keys[i]]
          BY <3>3, <4>2
        <5>1. keys'[i] = keys[i] /\ keys[i] \in Keys /\ keys[i] # k
          <6>1. keys[i] # k
            BY <1>5, <5>0, Zenon DEF k
          <6> QED
            BY <3>2, <3>4, <4>2, <6>1, SMTT(40)
        <5>2. exists'[keys[i]] = exists[keys[i]] /\ index'[keys[i]] = index[keys[i]]
          BY <2>1, <3>1, <3>2, <5>1
        <5>3. exists[keys[i]] /\ index[keys[i]] = i - 1
          BY <3>3, <4>2
        <5> QED
          BY <5>1, <5>2, <5>3
      <4> QED
        BY <3>4, <4>1, <4>2
    <3>6. ASSUME NEW q \in Keys, exists'[q]
          PROVE  index'[q] < Len(keys') /\ keys'[index'[q] + 1] = q
      <4>1. CASE q = k
        <5>1. index'[k] = Len(keys)
          BY <1>2, <3>1, <3>2
        <5> QED
          BY <3>4, <4>1, <5>1
      <4>2. CASE q # k
        <5>1. exists[q] /\ index'[q] = index[q]
          BY <2>1, <3>1, <3>2, <3>6, <4>2
        <5>2. index[q] \in Nat /\ index[q] < Len(keys) /\ keys[index[q] + 1] = q
          BY <3>2, <3>3, <5>1
        <5> QED
          BY <3>4, <5>1, <5>2, SMTT(40)
      <4> QED
        BY <4>1, <4>2
    <3>7. KeysIndexed'
      BY <3>5, <3>6 DEF KeysIndexed
    <3> QED
      BY <1>1, <1>2, <1>3, <2>2, <2>4, <3>4, <3>7 DEF IInv, TypeOK
  <2> QED
    BY <2>3, <2>4
<1> QED
  BY <1>4, <1>5

\* The array and the reverse index around a swap-pop.
LEMMA SwapPopFacts ==
  ASSUME IInv, shape = "iterated", NEW k \in Keys, exists[k], SwapPop(k)
  PROVE  LET i == index[k]
             last == Len(keys) - 1
         IN  /\ i \in 0..last /\ last \in Nat /\ keys[i + 1] = k
             /\ keys' \in Seq(Keys) /\ Len(keys') = last
             /\ \A j \in 1..last : keys'[j] = IF j = i + 1 THEN keys[last + 1] ELSE keys[j]
             /\ index' \in [Keys -> Nat]
             /\ \A q \in Keys \ {k} : index'[q] = IF q = keys[last + 1] THEN i ELSE index[q]
<1> DEFINE i == index[k]
           last == Len(keys) - 1
           moved == [keys EXCEPT ![i + 1] = keys[last + 1]]
<1>1. keys \in Seq(Keys) /\ index \in [Keys -> Nat] /\ Len(keys) \in Nat
  BY DEF IInv, TypeOK
<1>2. i < Len(keys) /\ keys[i + 1] = k
  BY DEF IInv, KeysIndexed
<1>3. i \in 0..last /\ last \in Nat /\ i \in Nat
  BY <1>1, <1>2
<1>4. /\ keys' = SubSeq(IF i # last THEN moved ELSE keys, 1, last)
      /\ index' = [(IF i # last THEN [index EXCEPT ![keys[last + 1]] = i] ELSE index)
                     EXCEPT ![k] = 0]
  BY DEF SwapPop
<1> HIDE DEF i, last
<1>5. Len(keys) = last + 1 /\ DOMAIN keys = 1..(last + 1) /\ keys[last + 1] \in Keys
  BY <1>1, <1>3 DEF last
<1>6. moved \in Seq(Keys) /\ Len(moved) = last + 1
      /\ \A j \in 1..(last + 1) : moved[j] = IF j = i + 1 THEN keys[last + 1] ELSE keys[j]
  BY <1>1, <1>3, <1>5
<1> HIDE DEF moved
<1>7. /\ keys' \in Seq(Keys) /\ Len(keys') = last
      /\ \A j \in 1..last : keys'[j] = IF j = i + 1 THEN keys[last + 1] ELSE keys[j]
  <2>1. CASE i # last
    BY <1>3, <1>4, <1>6, <2>1
  <2>2. CASE i = last
    BY <1>1, <1>3, <1>4, <1>5, <2>2
  <2> QED
    BY <2>1, <2>2
<1>8. index' \in [Keys -> Nat]
  BY <1>1, <1>3, <1>4, <1>5
<1>9. ASSUME NEW q \in Keys \ {k}
      PROVE  index'[q] = IF q = keys[last + 1] THEN i ELSE index[q]
  <2>1. CASE i # last
    BY <1>1, <1>4, <1>5, <2>1
  <2>2. CASE i = last
    BY <1>1, <1>2, <1>4, <1>5, <2>2 DEF i
  <2> QED
    BY <2>1, <2>2
<1> QED
  BY <1>2, <1>3, <1>7, <1>8, <1>9 DEF i, last

\* A removed key leaves array and reverse index inverse of each other.
LEMMA RemovePreserves ==
  ASSUME IInv, WriteRemove
  PROVE  IInv'
<1> DEFINE k == Head(todo).key
<1>1. todo # << >> /\ shape' = shape /\ todo' = Tail(todo)
  BY DEF WriteRemove, Writing
<1>2. k \in Keys /\ Tail(todo) \in Seq(Ops)
  BY <1>1, FirstWrite DEF IInv
<1>3. value' \in [Keys -> Values] /\ exists' \in [Keys -> BOOLEAN]
  BY <1>2, SidecarAssumption DEF WriteRemove, IInv, TypeOK
<1>4. CASE ~(shape = "iterated" /\ exists[k])
  <2>1. index' = index /\ keys' = keys
    BY <1>4 DEF WriteRemove
  <2>2. shape = "iterated" => exists' = exists
    BY <1>2, <1>4 DEF WriteRemove, IInv, TypeOK
  <2> QED
    BY <1>1, <1>2, <1>3, <2>1, <2>2 DEF IInv, TypeOK, KeysIndexed
<1>5. CASE shape = "iterated" /\ exists[k]
  <2> DEFINE i == index[k]
             last == Len(keys) - 1
  <2>1. SwapPop(k) /\ exists' = [exists EXCEPT ![k] = FALSE]
    BY <1>5 DEF WriteRemove
  <2> HIDE DEF k
  <2>2. /\ i \in 0..last /\ last \in Nat /\ keys[i + 1] = k
        /\ keys' \in Seq(Keys) /\ Len(keys') = last
        /\ \A j \in 1..last : keys'[j] = IF j = i + 1 THEN keys[last + 1] ELSE keys[j]
        /\ index' \in [Keys -> Nat]
        /\ \A q \in Keys \ {k} : index'[q] = IF q = keys[last + 1] THEN i ELSE index[q]
    BY <1>2, <1>5, <2>1, SwapPopFacts
  <2>3. /\ Len(keys) = last + 1 /\ keys \in Seq(Keys) /\ index \in [Keys -> Nat]
        /\ exists \in [Keys -> BOOLEAN]
    BY DEF IInv, TypeOK
  <2> HIDE DEF i, last
  <2>4. /\ \A j \in 1..(last + 1) : exists[keys[j]] /\ index[keys[j]] = j - 1
        /\ \A q \in Keys : exists[q] => index[q] < last + 1 /\ keys[index[q] + 1] = q
    BY <1>5, <2>3 DEF IInv, KeysIndexed
  <2>5. index[k] = i
    BY DEF i
  <2>6. ASSUME NEW j \in 1..last PROVE exists'[keys'[j]] /\ index'[keys'[j]] = j - 1
    <3>1. CASE j = i + 1
      <4>1. keys'[j] = keys[last + 1] /\ keys[last + 1] \in Keys /\ exists[keys[last + 1]]
            /\ index[keys[last + 1]] = last
        BY <2>2, <2>3, <2>4, <3>1
      <4>2. keys[last + 1] # k
        BY <2>2, <2>5, <3>1, <4>1
      <4> QED
        BY <2>1, <2>2, <2>3, <3>1, <4>1, <4>2
    <3>2. CASE j # i + 1
      <4>0. j \in 1..(last + 1)
        BY <2>2
      <4>1. keys'[j] = keys[j] /\ keys[j] \in Keys /\ exists[keys[j]] /\ index[keys[j]] = j - 1
        <5>1. exists[keys[j]] /\ index[keys[j]] = j - 1
          BY <2>4, <4>0
        <5>2. keys'[j] = keys[j] /\ keys[j] \in Keys
          BY <2>2, <2>3, <3>2, <4>0
        <5> QED
          BY <5>1, <5>2
      <4>2. keys[j] # k /\ keys[j] # keys[last + 1]
        <5>1. index[keys[last + 1]] = last
          <6>1. last + 1 \in 1..(last + 1) /\ (last + 1) - 1 = last
            BY <2>2
          <6> QED
            BY <2>4, <6>1
        <5> QED
          BY <2>2, <2>5, <3>2, <4>1, <5>1
      <4> QED
        BY <2>1, <2>2, <2>3, <4>1, <4>2
    <3> QED
      BY <3>1, <3>2
  <2>7. ASSUME NEW q \in Keys, exists'[q]
        PROVE  index'[q] < last /\ keys'[index'[q] + 1] = q
    <3>1. q # k /\ exists[q]
      BY <1>2, <2>1, <2>3, <2>7
    <3>2. index[q] \in Nat /\ index[q] < last + 1 /\ keys[index[q] + 1] = q
      BY <2>3, <2>4, <3>1
    <3>3. CASE q = keys[last + 1]
      <4>1. index'[q] = i /\ i # last /\ i \in 0..last
        BY <2>2, <3>1, <3>3
      <4>2. i + 1 \in 1..last
        BY <2>2, <4>1
      <4> QED
        BY <2>2, <3>3, <4>1, <4>2
    <3>4. CASE q # keys[last + 1]
      <4>1. index'[q] = index[q] /\ index[q] # last /\ index[q] # i
        BY <2>2, <3>1, <3>2, <3>4
      <4>2. index[q] + 1 \in 1..last /\ index[q] + 1 # i + 1
        BY <2>2, <3>2, <4>1
      <4> QED
        BY <2>2, <3>2, <4>1, <4>2
    <3> QED
      BY <3>3, <3>4
  <2>8. KeysIndexed'
    BY <2>2, <2>6, <2>7 DEF KeysIndexed
  <2> QED
    BY <1>1, <1>2, <1>3, <1>5, <2>2, <2>8 DEF IInv, TypeOK
<1> QED
  BY <1>4, <1>5

\* The empty member satisfies the invariant.
LEMMA Initial == Init => IInv
BY SidecarAssumption DEF Init, IInv, TypeOK, KeysIndexed

\* Every step preserves the invariant.
LEMMA Inductive == IInv /\ [Next]_vars => IInv'
<1> SUFFICES ASSUME IInv, [Next]_vars PROVE IInv'
  OBVIOUS
<1>1. CASE WriteUpdate
  BY <1>1, UpdatePreserves
<1>2. CASE WriteRemove
  BY <1>2, RemovePreserves
<1>3. CASE WriteNested
  <2>1. todo # << >>
    BY <1>3 DEF WriteNested, Writing
  <2>2. Head(todo).key \in Keys /\ Head(todo).val \in Values /\ Tail(todo) \in Seq(Ops)
    BY <2>1, FirstWrite DEF IInv
  <2> QED
    BY <1>3, <2>2 DEF WriteNested, IInv, TypeOK, KeysIndexed
<1>4. ASSUME NEW b \in Bodies[shape], Begin(b) PROVE IInv'
  <2>1. todo' \in Seq(Ops)
    BY <1>4, EvaluatedType, LoweredType DEF Begin, IInv
  <2> QED
    BY <1>4, <2>1 DEF Begin, IInv, TypeOK, KeysIndexed
<1>5. CASE UNCHANGED vars
  BY <1>5 DEF vars, IInv, TypeOK, KeysIndexed
<1> QED
  BY <1>1, <1>2, <1>3, <1>4, <1>5 DEF Next, Write

(***************************************************************************)
(* The order of an iteration                                               *)
(***************************************************************************)
Entry(k, v) == [key |-> k, val |-> v]
Entries == [i \in DOMAIN keys |-> Entry(keys[i], value[keys[i]])]

\* Only the entry at a key shows a new value of the key.
LEMMA ValueShows ==
  ASSUME IInv, NEW k \in Keys, NEW v \in Values,
         value' = [value EXCEPT ![k] = v], keys' = keys
  PROVE  Enum!Put(k, v) \/ Entries' = Entries
<1>1. keys \in Seq(Keys) /\ value \in [Keys -> Values] /\ index \in [Keys -> Nat]
  BY DEF IInv, TypeOK
<1>2. DOMAIN keys = 1..Len(keys) /\ \A i \in DOMAIN keys : keys[i] \in Keys
  BY <1>1
<1>3. \A q \in Keys : value'[q] = IF q = k THEN v ELSE value[q]
  BY <1>1
<1>4. Entries' = [i \in DOMAIN keys |-> Entry(keys[i], value'[keys[i]])]
  BY DEF Entries
<1>5. CASE \E i \in DOMAIN keys : keys[i] = k
  <2>1. PICK i \in DOMAIN keys : keys[i] = k
    BY <1>5
  <2>2. \A j \in DOMAIN keys : keys[j] = k => j = i
    <3>1. keys # << >>
      BY <1>2, <2>1
    <3>2. \A j \in DOMAIN keys : index[keys[j]] = j - 1
      BY <1>2, <3>1 DEF IInv, KeysIndexed
    <3> QED
      BY <1>2, <2>1, <3>2
  <2>3. Entries' = [Entries EXCEPT ![i] = Entry(k, v)]
    <3>1. \A j \in DOMAIN keys :
            Entry(keys[j], value'[keys[j]])
              = IF j = i THEN Entry(k, v) ELSE Entry(keys[j], value[keys[j]])
      BY <1>2, <1>3, <2>1, <2>2
    <3> QED
      BY <1>4, <3>1 DEF Entries
  <2>4. i \in Enum!At(k)
    BY <2>1 DEF Enum!At
  <2> QED
    BY <2>3, <2>4 DEF Enum!Put, Entries, Entry
<1>6. CASE \A i \in DOMAIN keys : keys[i] # k
  <2>1. \A j \in DOMAIN keys : Entry(keys[j], value'[keys[j]]) = Entry(keys[j], value[keys[j]])
    BY <1>2, <1>3, <1>6
  <2> QED
    BY <1>4, <2>1 DEF Entries
<1> QED
  BY <1>5, <1>6

\* An update puts its entry.
LEMMA UpdateEnumerates ==
  ASSUME IInv, WriteUpdate, NEW k, k = Head(todo).key, NEW v, v = Head(todo).val
  PROVE  Enum!Put(k, v) \/ Entries' = Entries
<1>1. todo # << >> /\ value' = [value EXCEPT ![k] = v]
  BY DEF WriteUpdate, Writing
<1>2. k \in Keys /\ v \in Values
  BY <1>1, FirstWrite DEF IInv
<1>3. CASE keys' = keys
  BY <1>1, <1>2, <1>3, ValueShows
<1>4. CASE keys' # keys
  <2>1. shape = "iterated" /\ ~exists[k] /\ keys' = Append(keys, k)
    BY <1>4 DEF WriteUpdate, Enumerate
  <2>2. keys \in Seq(Keys) /\ value \in [Keys -> Values]
    BY DEF IInv, TypeOK
  <2>3. \A i \in 1..Len(keys) : exists[keys[i]]
    BY <2>1 DEF IInv, KeysIndexed
  <2>4. \A i \in 1..Len(keys) : keys[i] # k
    BY <2>1, <2>3, Zenon
  <2>5. /\ Len(keys) \in Nat /\ DOMAIN keys = 1..Len(keys) /\ DOMAIN keys' = 1..(Len(keys) + 1)
        /\ keys'[Len(keys) + 1] = k
        /\ \A i \in 1..Len(keys) : keys'[i] = keys[i] /\ keys[i] \in Keys
    BY <1>2, <2>1, <2>2
  <2>6. \A q \in Keys : value'[q] = IF q = k THEN v ELSE value[q]
    BY <1>1, <2>2
  <2>7. Entries' = [i \in 1..(Len(keys) + 1) |-> Entry(keys'[i], value'[keys'[i]])]
    BY <2>5 DEF Entries
  <2>8. \A i \in 1..(Len(keys) + 1) :
          Entry(keys'[i], value'[keys'[i]])
            = IF i = Len(keys) + 1 THEN Entry(k, v) ELSE Entry(keys[i], value[keys[i]])
    BY <1>2, <2>4, <2>5, <2>6
  <2>9. Append(Entries, Entry(k, v))
          = [i \in 1..(Len(keys) + 1) |->
               IF i = Len(keys) + 1 THEN Entry(k, v) ELSE Entry(keys[i], value[keys[i]])]
    <3> DEFINE S == { Entry(keys[i], value[keys[i]]) : i \in 1..Len(keys) }
    <3>1. Entries \in Seq(S) /\ Len(Entries) = Len(keys)
      BY <2>5 DEF Entries
    <3> QED
      BY <2>5, <3>1 DEF Entries
  <2>10. Enum!At(k) = {}
    BY <2>4, <2>5 DEF Enum!At
  <2>11. Entries' = Append(Entries, Entry(k, v))
    BY <2>7, <2>8, <2>9
  <2> QED
    BY <2>10, <2>11 DEF Enum!Put, Entries, Entry
<1> QED
  BY <1>3, <1>4

\* A remove drops its entry.
LEMMA RemoveEnumerates ==
  ASSUME IInv, WriteRemove, NEW k, k = Head(todo).key
  PROVE  Enum!Drop(k) \/ Enum!Put(k, Zero) \/ Entries' = Entries
<1> DEFINE i == index[k]
           last == Len(keys) - 1
<1>1. todo # << >> /\ value' = [value EXCEPT ![k] = Zero]
  BY DEF WriteRemove, Writing
<1>2. k \in Keys /\ Zero \in Values
  BY <1>1, FirstWrite, SidecarAssumption DEF IInv
<1>3. CASE ~(shape = "iterated" /\ exists[k])
  <2>1. keys' = keys
    BY <1>3 DEF WriteRemove
  <2> QED
    BY <1>1, <1>2, <2>1, ValueShows
<1>4. CASE shape = "iterated" /\ exists[k]
  <2>1. SwapPop(k)
    BY <1>4 DEF WriteRemove
  <2>2. keys \in Seq(Keys) /\ value \in [Keys -> Values] /\ index \in [Keys -> Nat]
    BY DEF IInv, TypeOK
  <2>3. /\ i \in 0..last /\ last \in Nat /\ keys[i + 1] = k
        /\ keys' \in Seq(Keys) /\ Len(keys') = last
        /\ \A j \in 1..last : keys'[j] = IF j = i + 1 THEN keys[last + 1] ELSE keys[j]
    BY <1>2, <1>4, <2>1, SwapPopFacts
  <2>4. \A j \in 1..Len(keys) : index[keys[j]] = j - 1
    BY <1>4 DEF IInv, KeysIndexed
  <2>5. Len(keys) = last + 1 /\ DOMAIN keys = 1..(last + 1) /\ DOMAIN keys' = 1..last
        /\ \A j \in 1..(last + 1) : keys[j] \in Keys
    BY <2>2, <2>3
  <2> HIDE DEF i, last
  <2>6. \A j \in 1..last : keys'[j] \in Keys \ {k}
    <3>1. ASSUME NEW j \in 1..last PROVE keys'[j] # k
      <4>1. CASE j = i + 1
        <5>1. keys'[j] = keys[last + 1] /\ last + 1 # i + 1 /\ last + 1 \in 1..(last + 1)
              /\ i + 1 \in 1..(last + 1)
          BY <2>3, <4>1
        <5>2. index[keys[last + 1]] = (last + 1) - 1 /\ index[k] = (i + 1) - 1
          BY <2>3, <2>4, <2>5, <5>1
        <5> QED
          BY <2>3, <5>1, <5>2
      <4>2. CASE j # i + 1
        <5>1. keys'[j] = keys[j] /\ j \in 1..(last + 1) /\ i + 1 \in 1..(last + 1)
          BY <2>3, <4>2
        <5>2. index[keys[j]] = j - 1 /\ index[k] = (i + 1) - 1
          BY <2>3, <2>4, <2>5, <5>1
        <5> QED
          BY <2>3, <4>2, <5>1, <5>2
      <4> QED
        BY <4>1, <4>2
    <3> QED
      BY <2>3, <2>5, <3>1
  <2>7. \A q \in Keys \ {k} : value'[q] = value[q]
    BY <1>1, <2>2
  <2>8. Entries' = [j \in 1..last |-> Entry(keys'[j], value'[keys'[j]])]
    BY <2>5 DEF Entries
  <2>9. \A j \in 1..last :
          Entry(keys'[j], value'[keys'[j]])
            = IF j = i + 1 THEN Entries[last + 1] ELSE Entries[j]
    <3>1. ASSUME NEW j \in 1..last
          PROVE  Entry(keys'[j], value'[keys'[j]])
                   = IF j = i + 1 THEN Entries[last + 1] ELSE Entries[j]
      <4>1. value'[keys'[j]] = value[keys'[j]]
        BY <2>6, <2>7
      <4>2. /\ Entries[last + 1] = Entry(keys[last + 1], value[keys[last + 1]])
            /\ Entries[j] = Entry(keys[j], value[keys[j]])
        BY <2>3, <2>5 DEF Entries
      <4>3. keys'[j] = IF j = i + 1 THEN keys[last + 1] ELSE keys[j]
        BY <2>3
      <4> QED
        BY <4>1, <4>2, <4>3
    <3> QED
      BY <3>1
  <2>10. Entries' = [j \in 1..last |-> IF j = i + 1 THEN Entries[last + 1] ELSE Entries[j]]
    BY <2>8, <2>9
  <2>11. i + 1 \in Enum!At(k) /\ Len(Entries) = last + 1 /\ Len(Entries) - 1 = last
    <3>1. i + 1 \in Enum!At(k)
      BY <2>3, <2>5 DEF Enum!At
    <3>2. Len(Entries) = last + 1
      BY <2>3, <2>5 DEF Entries
    <3> QED
      BY <2>3, <3>1, <3>2
  <2>12. Enum!Drop(k)
    <3>1. Entries' = [j \in 1..(Len(Entries) - 1) |->
                        IF j = i + 1 THEN Entries[Len(Entries)] ELSE Entries[j]]
      BY <2>10, <2>11
    <3> QED
      BY <2>11, <3>1 DEF Enum!Drop, Entries, Entry
  <2> QED
    BY <2>12
<1> QED
  BY <1>3, <1>4

(***************************************************************************)
(* What the storage means                                                  *)
(***************************************************************************)
Maps == UNION { [D -> Values] : D \in SUBSET Keys }

\* The storage answers as the map.
Answers(map) ==
  /\ \A k \in Keys : value[k] = IF k \in DOMAIN map THEN map[k] ELSE Zero
  /\ shape # "plain" => \A k \in Keys : exists[k] <=> k \in DOMAIN map

\* The storage answers as some map from which the writes to come make the one
\* that is meant; a mapping without m_exists cannot tell which map it is.
PendingMakeMeant ==
  /\ \A i \in DOMAIN todo : todo[i].kind = "nested" => shape = "plain"
  /\ \E map \in Maps : Answers(map) /\ Meaning(todo, map) = meant

\* The bodies whose chain the lowering reaches all of: a single remove, or
\* updates only.  A nested update writes no sidecar.
LoweredWhole ==
  \A s \in Shapes : \A b \in Bodies[s] : \A i \in DOMAIN b :
    /\ b[i].kind = "remove" => Len(b) = 1
    /\ b[i].kind = "nested" => s = "plain"

\* The maps the calls of a chain make, one after the other.
Makes(f, ops, map) ==
  /\ f \in [0..Len(ops) -> Maps]
  /\ f[0] = map
  /\ \A i \in 1..Len(ops) : f[i] = Apply(f[i - 1], ops[i])

LEMMA LeastOf ==
  ASSUME NEW T, T \subseteq Nat, T # {}
  PROVE  \E x \in T : \A y \in T : x <= y
<1>1. PICK x \in T : \A y \in T : <<y, x>> \notin OpToRel(<, Nat)
  BY NatLessThanWellFounded, WFMin, Zenon
<1>2. \A y \in T : ~(y < x)
  BY <1>1, Zenon DEF OpToRel
<1> QED
  BY <1>2

\* A call makes a map of a map.
LEMMA ApplyType ==
  ASSUME NEW map \in Maps, NEW op \in Ops
  PROVE  /\ Apply(map, op) \in Maps
         /\ DOMAIN Apply(map, op) =
              IF op.kind = "remove" THEN DOMAIN map \ {op.key} ELSE DOMAIN map \cup {op.key}
         /\ \A k \in DOMAIN Apply(map, op) : Apply(map, op)[k] = IF k = op.key THEN op.val ELSE map[k]
<1> DEFINE rest == IF op.kind = "remove" THEN DOMAIN map \ {op.key} ELSE DOMAIN map \cup {op.key}
<1>1. Apply(map, op) = [k \in rest |-> IF k = op.key THEN op.val ELSE map[k]]
  BY DEF Apply
<1>2. PICK D \in SUBSET Keys : map \in [D -> Values]
  BY DEF Maps
<1>3. rest \in SUBSET Keys /\ \A k \in rest : (IF k = op.key THEN op.val ELSE map[k]) \in Values
  BY <1>2 DEF Ops
<1> HIDE DEF rest
<1>4. Apply(map, op) \in [rest -> Values]
  BY <1>1, <1>3
<1>5. Apply(map, op) \in Maps
  BY <1>3, <1>4 DEF Maps
<1> QED
  BY <1>1, <1>5 DEF rest

\* Every prefix of a chain makes maps of a map.
LEMMA PrefixMakes ==
  ASSUME NEW ops \in Seq(Ops), NEW map \in Maps
  PROVE  \A n \in 0..Len(ops) :
           \E f \in [0..n -> Maps] : f[0] = map /\ \A i \in 1..n : f[i] = Apply(f[i - 1], ops[i])
<1> DEFINE Made(n) == \E f \in [0..n -> Maps] : f[0] = map /\ \A i \in 1..n : f[i] = Apply(f[i - 1], ops[i])
           T == { n \in 0..Len(ops) : ~Made(n) }
<1>1. ASSUME T # {} PROVE FALSE
  <2>1. T \subseteq Nat
    OBVIOUS
  <2>2. PICK n \in T : \A m \in T : n <= m
    BY <1>1, <2>1, LeastOf
  <2>3. n \in 0..Len(ops) /\ ~Made(n) /\ Len(ops) \in Nat
    BY <2>2
  <2>4. n # 0
    <3>1. [i \in 0..0 |-> map] \in [0..0 -> Maps] /\ [i \in 0..0 |-> map][0] = map /\ 1..0 = {}
      OBVIOUS
    <3>2. Made(0)
      BY <3>1
    <3> QED
      BY <2>3, <3>2
  <2>5. n - 1 \in 0..Len(ops) /\ n - 1 \notin T
    <3>1. n - 1 \in 0..Len(ops) /\ ~(n <= n - 1)
      BY <2>3, <2>4
    <3> HIDE DEF T
    <3> QED
      BY <2>2, <3>1
  <2>6. Made(n - 1)
    BY <2>5
  <2>7. PICK f \in [0..(n - 1) -> Maps] :
               f[0] = map /\ \A i \in 1..(n - 1) : f[i] = Apply(f[i - 1], ops[i])
    BY <2>6
  <2> HIDE DEF T, Made
  <2> DEFINE g == [i \in 0..n |-> IF i = n THEN Apply(f[n - 1], ops[n]) ELSE f[i]]
  <2>8. Apply(f[n - 1], ops[n]) \in Maps
    <3>1. f[n - 1] \in Maps /\ ops[n] \in Ops
      BY <2>3, <2>4, <2>7
    <3> QED
      BY <3>1, ApplyType
  <2>9. g \in [0..n -> Maps]
    BY <2>3, <2>7, <2>8
  <2>10. g[0] = map
    BY <2>3, <2>4, <2>7
  <2>11. ASSUME NEW i \in 1..n PROVE g[i] = Apply(g[i - 1], ops[i])
    <3>1. CASE i = n
      BY <2>3, <2>4, <3>1
    <3>2. CASE i # n
      <4>1. i \in 1..(n - 1) /\ i \in 0..n /\ i - 1 \in 0..n /\ i - 1 # n
        BY <2>3, <3>2
      <4>2. g[i] = f[i] /\ g[i - 1] = f[i - 1]
        BY <3>2, <4>1
      <4> QED
        BY <2>7, <4>1, <4>2
    <3> QED
      BY <3>1, <3>2
  <2> HIDE DEF g
  <2>12. Made(n)
    BY <2>9, <2>10, <2>11 DEF Made
  <2> QED
    BY <2>3, <2>12
<1> QED
  BY <1>1

\* A chain determines what it makes.
LEMMA MakesOnce ==
  ASSUME NEW ops \in Seq(Ops), NEW map \in Maps,
         NEW f, NEW g, Makes(f, ops, map), Makes(g, ops, map)
  PROVE  f[Len(ops)] = g[Len(ops)]
<1> DEFINE T == { n \in 0..Len(ops) : f[n] # g[n] }
<1>1. ASSUME T # {} PROVE FALSE
  <2>1. T \subseteq Nat
    OBVIOUS
  <2>2. PICK n \in T : \A m \in T : n <= m
    BY <1>1, <2>1, LeastOf
  <2>3. n \in 0..Len(ops) /\ f[n] # g[n] /\ n # 0
    BY <2>2 DEF Makes
  <2>4. n \in 1..Len(ops) /\ n - 1 \in 0..Len(ops) /\ ~(n <= n - 1)
    BY <2>3
  <2>5. f[n - 1] = g[n - 1]
    BY <2>2, <2>4
  <2> QED
    BY <2>3, <2>4, <2>5 DEF Makes
<1>2. Len(ops) \in 0..Len(ops)
  OBVIOUS
<1> QED
  BY <1>1, <1>2

\* Meaning is the last of them.
LEMMA MeaningMade ==
  ASSUME NEW ops \in Seq(Ops), NEW map \in Maps
  PROVE  \E f : Makes(f, ops, map) /\ Meaning(ops, map) = f[Len(ops)]
<1> DEFINE n == Len(ops)
           Step(g) == [i \in 0..n |-> IF i = 0 THEN map ELSE Apply(g[i - 1], ops[i])]
           after == CHOOSE g : g = Step(g)
<1>1. n \in Nat /\ n \in 0..Len(ops)
  OBVIOUS
<1>2. PICK f \in [0..n -> Maps] : f[0] = map /\ \A i \in 1..n : f[i] = Apply(f[i - 1], ops[i])
  <2> HIDE DEF n
  <2> QED
    BY <1>1, PrefixMakes, Zenon
<1>3. f = Step(f)
  <2>1. \A i \in 0..n : f[i] = IF i = 0 THEN map ELSE Apply(f[i - 1], ops[i])
    BY <1>1, <1>2
  <2> QED
    BY <1>2, <2>1
<1>4. after = Step(after)
  BY <1>3
<1>5. Meaning(ops, map) = after[n]
  BY Zenon DEF Meaning
<1> HIDE DEF after
<1>6. DOMAIN after = 0..n /\ after = [i \in 0..n |-> after[i]]
  BY <1>4
<1>7. \A i \in 0..n : after[i] = IF i = 0 THEN map ELSE Apply(after[i - 1], ops[i])
  BY <1>4
<1>8. \A i \in 0..n : after[i] = f[i]
  <2> DEFINE T == { i \in 0..n : after[i] # f[i] }
  <2>1. ASSUME T # {} PROVE FALSE
    <3>1. T \subseteq Nat
      OBVIOUS
    <3>2. PICK i \in T : \A m \in T : i <= m
      BY <2>1, <3>1, LeastOf
    <3>3. i \in 0..n /\ after[i] # f[i] /\ i # 0
      BY <1>1, <1>2, <1>7, <3>2
    <3>4. i \in 1..n /\ i - 1 \in 0..n /\ ~(i <= i - 1)
      BY <1>1, <3>3
    <3>5. after[i - 1] = f[i - 1]
      BY <3>2, <3>4
    <3> QED
      BY <1>2, <1>7, <3>3, <3>4, <3>5
  <2> QED
    BY <2>1
<1>9. Makes(f, ops, map)
  BY <1>2 DEF Makes
<1>10. after[n] = f[n]
  BY <1>1, <1>8
<1> QED
  BY <1>5, <1>9, <1>10

\* A chain means its first call, then the others.
LEMMA MeaningUnfolds ==
  ASSUME NEW ops \in Seq(Ops), ops # << >>, NEW map \in Maps
  PROVE  Meaning(ops, map) = Meaning(Tail(ops), Apply(map, Head(ops)))
<1> DEFINE n == Len(Tail(ops))
           next == Apply(map, Head(ops))
<1>1. /\ Head(ops) \in Ops /\ Head(ops) = ops[1] /\ Tail(ops) \in Seq(Ops)
      /\ n \in Nat /\ Len(ops) = n + 1 /\ \A i \in 1..n : Tail(ops)[i] = ops[i + 1]
  OBVIOUS
<1>2. next \in Maps
  BY <1>1, ApplyType
<1>3. PICK f : Makes(f, ops, map) /\ Meaning(ops, map) = f[Len(ops)]
  BY MeaningMade
<1> HIDE DEF next
<1>4. PICK g : Makes(g, Tail(ops), next) /\ Meaning(Tail(ops), next) = g[n]
  BY <1>1, <1>2, MeaningMade
<1> DEFINE h == [i \in 0..n |-> f[i + 1]]
<1>5. Makes(h, Tail(ops), next)
  <2>1. /\ f \in [0..(n + 1) -> Maps] /\ f[0] = map
        /\ \A i \in 1..(n + 1) : f[i] = Apply(f[i - 1], ops[i])
    BY <1>1, <1>3 DEF Makes
  <2>2. h \in [0..n -> Maps]
    BY <1>1, <2>1
  <2>3. h[0] = next
    <3>1. f[1] = Apply(f[1 - 1], ops[1])
      BY <1>1, <2>1
    <3> QED
      BY <1>1, <2>1, <3>1 DEF next
  <2>4. ASSUME NEW i \in 1..n PROVE h[i] = Apply(h[i - 1], Tail(ops)[i])
    <3>1. i + 1 \in 1..(n + 1) /\ i \in 0..n /\ i - 1 \in 0..n /\ (i + 1) - 1 = i /\ (i - 1) + 1 = i
      BY <1>1
    <3>2. f[i + 1] = Apply(f[i], ops[i + 1])
      BY <2>1, <3>1
    <3>3. h[i] = f[i + 1] /\ h[i - 1] = f[i]
      BY <3>1
    <3> QED
      BY <1>1, <3>2, <3>3
  <2> HIDE DEF h
  <2> QED
    BY <2>2, <2>3, <2>4 DEF Makes
<1>6. h[n] = g[n]
  <2> HIDE DEF h
  <2> QED
    BY <1>1, <1>2, <1>4, <1>5, MakesOnce
<1>7. h[n] = f[Len(ops)]
  BY <1>1
<1> QED
  BY <1>3, <1>4, <1>6, <1>7 DEF next

\* An empty chain leaves a map alone.
LEMMA MeaningOfNone ==
  ASSUME NEW map \in Maps
  PROVE  Meaning(<< >>, map) = map
<1>1. << >> \in Seq(Ops) /\ Len(<< >>) = 0
  OBVIOUS
<1>2. PICK f : Makes(f, << >>, map) /\ Meaning(<< >>, map) = f[Len(<< >>)]
  BY <1>1, MeaningMade
<1> QED
  BY <1>1, <1>2 DEF Makes

\* A chain means a map.
LEMMA MeaningType ==
  ASSUME NEW ops \in Seq(Ops), NEW map \in Maps
  PROVE  Meaning(ops, map) \in Maps
<1>1. PICK f : Makes(f, ops, map) /\ Meaning(ops, map) = f[Len(ops)]
  BY MeaningMade
<1>2. Len(ops) \in 0..Len(ops)
  OBVIOUS
<1> QED
  BY <1>1, <1>2 DEF Makes

\* Of a chain reached as a whole, all is lowered.
LEMMA AllLowered ==
  ASSUME NEW ops \in Seq(Ops), ops # << >>,
         \A i \in DOMAIN ops : ops[i].kind = "remove" => Len(ops) = 1
  PROVE  Lowered(ops) = ops
<1> DEFINE n == Len(ops)
<1>1. n \in Nat /\ n >= 1 /\ DOMAIN ops = 1..n
  OBVIOUS
<1>2. Reached(ops) = 1..n
  <2>1. CASE ops[n].kind = "remove"
    <3>1. n = 1
      BY <1>1, <2>1
    <3> QED
      BY <1>1, <2>1, <3>1 DEF Reached
  <2>2. CASE ops[n].kind # "remove"
    <3>1. \A i \in 1..n : ops[i].kind # "remove"
      <4>1. ASSUME NEW i \in 1..n, ops[i].kind = "remove" PROVE FALSE
        <5>1. n = 1
          BY <1>1, <4>1
        <5>2. i = n
          BY <5>1
        <5> QED
          BY <2>2, <4>1, <5>2
      <4> QED
        BY <4>1
    <3>2. \A i \in 1..n : \A j \in i..n : j \in 1..n
      BY <1>1
    <3> QED
      BY <1>1, <2>2, <3>1, <3>2 DEF Reached
  <2> QED
    BY <2>1, <2>2
<1>3. Cardinality(Reached(ops)) = n
  BY <1>1, <1>2, FS_Interval
<1>4. SubSeq(ops, 1, n) = ops
  BY <1>1
<1>5. n - n + 1 = 1
  BY <1>1
<1> QED
  BY <1>3, <1>4, <1>5 DEF Lowered

\* A write turns the map the storage answers as into the next one.
LEMMA WriteAnswers ==
  ASSUME TypeOK, Write, NEW map \in Maps, Answers(map),
         Head(todo).kind = "nested" => shape = "plain",
         NEW next, next = Apply(map, Head(todo))
  PROVE  Answers(next)'
<1> DEFINE op == Head(todo)
<1>1. todo # << >> /\ todo \in Seq(Ops) /\ shape' = shape
  BY DEF Write, WriteUpdate, WriteNested, WriteRemove, Writing, TypeOK
<1>2. op \in Ops /\ op.key \in Keys /\ op.val \in Values
  <2>1. op \in Ops
    BY <1>1
  <2> QED
    BY <2>1 DEF Ops
<1> HIDE DEF op
<1>3. /\ DOMAIN next = IF op.kind = "remove" THEN DOMAIN map \ {op.key} ELSE DOMAIN map \cup {op.key}
      /\ \A k \in DOMAIN next : next[k] = IF k = op.key THEN op.val ELSE map[k]
  BY <1>2, ApplyType DEF op
<1>4. /\ value \in [Keys -> Values] /\ exists \in [Keys -> BOOLEAN]
      /\ \A k \in Keys : value[k] = IF k \in DOMAIN map THEN map[k] ELSE Zero
      /\ shape # "plain" => \A k \in Keys : exists[k] <=> k \in DOMAIN map
  BY DEF TypeOK, Answers
<1>5. CASE WriteUpdate
  <2>1. op.kind = "update" /\ value' = [value EXCEPT ![op.key] = op.val]
    BY <1>5 DEF WriteUpdate, Writing, op
  <2>2. shape # "plain" => \A k \in Keys : exists'[k] <=> k \in DOMAIN next
    <3>1. CASE shape # "plain" /\ ~exists[op.key]
      <4>1. exists' = [exists EXCEPT ![op.key] = TRUE]
        BY <1>5, <3>1 DEF WriteUpdate, op
      <4> QED
        BY <1>2, <1>3, <1>4, <2>1, <4>1
    <3>2. CASE shape # "plain" /\ exists[op.key]
      <4>1. exists' = exists
        BY <1>5, <3>2 DEF WriteUpdate, op
      <4> QED
        BY <1>2, <1>3, <1>4, <2>1, <3>2, <4>1
    <3> QED
      BY <3>1, <3>2
  <2>3. \A k \in Keys : value'[k] = IF k \in DOMAIN next THEN next[k] ELSE Zero
    BY <1>2, <1>3, <1>4, <2>1
  <2> QED
    BY <1>1, <2>2, <2>3 DEF Answers
<1>6. CASE WriteNested
  <2>1. op.kind = "nested" /\ value' = [value EXCEPT ![op.key] = op.val] /\ shape = "plain"
    BY <1>6 DEF WriteNested, Writing, op
  <2>2. \A k \in Keys : value'[k] = IF k \in DOMAIN next THEN next[k] ELSE Zero
    BY <1>2, <1>3, <1>4, <2>1
  <2> QED
    BY <1>1, <2>1, <2>2 DEF Answers
<1>7. CASE WriteRemove
  <2>1. /\ op.kind = "remove" /\ value' = [value EXCEPT ![op.key] = Zero]
        /\ exists' = IF shape = "plain" THEN exists ELSE [exists EXCEPT ![op.key] = FALSE]
    BY <1>7 DEF WriteRemove, Writing, op
  <2>2. shape # "plain" => \A k \in Keys : exists'[k] <=> k \in DOMAIN next
    BY <1>2, <1>3, <1>4, <2>1
  <2>3. \A k \in Keys : value'[k] = IF k \in DOMAIN next THEN next[k] ELSE Zero
    BY <1>2, <1>3, <1>4, <2>1
  <2> QED
    BY <1>1, <2>2, <2>3 DEF Answers
<1> QED
  BY <1>5, <1>6, <1>7 DEF Write

\* Every step keeps what is pending, if the lowering reaches all of every body.
LEMMA PendingInductive ==
  ASSUME LoweredWhole, IInv, PendingMakeMeant, [Next]_vars
  PROVE  PendingMakeMeant'
<1>1. PICK map \in Maps : Answers(map) /\ Meaning(todo, map) = meant
  BY DEF PendingMakeMeant
<1>2. todo \in Seq(Ops) /\ shape \in Shapes
  BY DEF IInv, TypeOK
<1>3. CASE Write
  <2>1. todo # << >> /\ todo' = Tail(todo) /\ meant' = meant /\ shape' = shape
    BY <1>3 DEF Write, WriteUpdate, WriteNested, WriteRemove, Writing
  <2>2. /\ Head(todo) = todo[1] /\ Head(todo) \in Ops /\ 1 \in DOMAIN todo
        /\ \A i \in DOMAIN Tail(todo) : Tail(todo)[i] = todo[i + 1] /\ i + 1 \in DOMAIN todo
    BY <1>2, <2>1
  <2>3. Head(todo).kind = "nested" => shape = "plain"
    BY <2>2 DEF PendingMakeMeant
  <2>4. PICK next \in Maps : next = Apply(map, Head(todo))
    BY <2>2, ApplyType
  <2>5. Meaning(Tail(todo), Apply(map, Head(todo))) = meant
    BY <1>1, <1>2, <2>1, MeaningUnfolds
  <2>6. \A i \in DOMAIN todo' : todo'[i].kind = "nested" => shape' = "plain"
    BY <2>1, <2>2 DEF PendingMakeMeant
  <2>7. Answers(next)'
    BY <1>1, <1>3, <2>3, <2>4, WriteAnswers DEF IInv
  <2>8. Meaning(todo', next) = meant'
    BY <2>1, <2>4, <2>5
  <2> QED
    BY <2>6, <2>7, <2>8 DEF PendingMakeMeant
<1>4. ASSUME NEW b \in Bodies[shape], Begin(b) PROVE PendingMakeMeant'
  <2> DEFINE ops == [i \in DOMAIN b |-> Evaluated(b[i])]
  <2>1. /\ todo = << >> /\ b # << >> /\ todo' = Lowered(ops) /\ meant' = Meaning(ops, meant)
        /\ shape' = shape /\ value' = value /\ exists' = exists
    BY <1>4 DEF Begin
  <2>2. ops \in Seq(Ops)
    BY <1>4, EvaluatedType DEF IInv
  <2> DEFINE Source == [kind : {"update", "nested", "remove"}, key : Keys, val : Values \cup Keys]
  <2>3. b \in Seq(Source)
    BY <1>2, SidecarAssumption
  <2> HIDE DEF Source
  <2>4. DOMAIN b = 1..Len(b) /\ Len(b) \in Nat /\ Len(b) # 0
    BY <2>1, <2>3
  <2>5. DOMAIN ops = DOMAIN b /\ Len(ops) = Len(b) /\ ops # << >>
    BY <2>4
  <2>6. ASSUME NEW i \in DOMAIN ops PROVE ops[i].kind = b[i].kind
    <3>1. i \in 1..Len(b) /\ ops[i] = Evaluated(b[i])
      BY <2>4, <2>5, <2>6
    <3>2. b[i] \in Source
      BY <2>3, <3>1
    <3>3. Evaluated(b[i]).kind = b[i].kind
      BY <3>2 DEF Evaluated, Source
    <3> QED
      BY <3>1, <3>3
  <2> HIDE DEF ops
  <2>7. Lowered(ops) = ops
    <3>1. \A i \in DOMAIN ops : ops[i].kind = "remove" => Len(ops) = 1
      BY <1>2, <2>5, <2>6 DEF LoweredWhole
    <3> QED
      BY <2>2, <2>5, <3>1, AllLowered
  <2>8. \A i \in DOMAIN todo' : todo'[i].kind = "nested" => shape' = "plain"
    BY <1>2, <2>1, <2>5, <2>6, <2>7 DEF LoweredWhole
  <2>9. map = meant
    BY <1>1, <2>1, MeaningOfNone
  <2>10. Answers(map)' /\ Meaning(todo', map) = meant'
    BY <1>1, <2>1, <2>7, <2>9 DEF Answers
  <2> QED
    BY <2>8, <2>10 DEF PendingMakeMeant
<1>5. CASE UNCHANGED vars
  BY <1>5 DEF vars, PendingMakeMeant, Answers
<1> QED
  BY <1>3, <1>4, <1>5 DEF Next

\* The empty member answers as the empty map.
LEMMA PendingInitial == Init => PendingMakeMeant
<1> SUFFICES ASSUME Init PROVE PendingMakeMeant
  OBVIOUS
<1>1. << >> \in [{} -> Values] /\ DOMAIN << >> = {}
  OBVIOUS
<1>2. << >> \in Maps
  BY <1>1 DEF Maps
<1>3. Meaning(todo, << >>) = meant
  BY <1>2, MeaningOfNone DEF Init
<1>4. Answers(<< >>)
  BY <1>1 DEF Init, Answers
<1> QED
  BY <1>2, <1>3, <1>4 DEF Init, PendingMakeMeant

(***************************************************************************)
(* The theorems                                                            *)
(***************************************************************************)
\* The storage of a member, and the writes of its transforms, stay well typed.
THEOREM SidecarTypeCorrect == Spec => []TypeOK
<1>1. IInv => TypeOK
  BY DEF IInv
<1> QED
  BY <1>1, Initial, Inductive, PTL DEF Spec

\* Whatever chains the transforms are, m_keys lists each existing key once and
\* m_keys_index finds it, after every single write.
THEOREM KeysStayIndexed == Spec => []KeysIndexed
<1>1. IInv => KeysIndexed
  BY DEF IInv
<1> QED
  BY <1>1, Initial, Inductive, PTL DEF Spec

\* An iterated member is the enumerable map the documentation promises: every write
\* is one step of it, or one it does not show.
THEOREM IteratedMapsEnumerate == Spec => Enumerates
<1>1. Init => Enum!EInit
  <2> SUFFICES ASSUME Init PROVE Enum!EInit
    OBVIOUS
  <2>1. DOMAIN keys = {} /\ keys = << >>
    BY DEF Init
  <2> QED
    BY <2>1 DEF Enum!EInit
<1>2. IInv /\ [Next]_vars => Enum!ENext \/ Entries' = Entries
  <2> SUFFICES ASSUME IInv, [Next]_vars PROVE Enum!ENext \/ Entries' = Entries
    OBVIOUS
  <2>1. ASSUME todo # << >>
        PROVE  Head(todo).key \in Keys /\ Head(todo).val \in Values /\ Zero \in Values
    BY <2>1, FirstWrite, SidecarAssumption DEF IInv
  <2>2. CASE WriteUpdate
    <3>1. todo # << >>
      BY <2>2 DEF WriteUpdate, Writing
    <3> QED
      <4>1. PICK k \in Keys, v \in Values : k = Head(todo).key /\ v = Head(todo).val
        BY <2>1, <3>1
      <4>2. Enum!Put(k, v) \/ Entries' = Entries
        BY <2>2, <4>1, UpdateEnumerates
      <4> QED
        BY <4>2 DEF Enum!ENext
  <2>3. CASE WriteRemove
    <3>1. todo # << >>
      BY <2>3 DEF WriteRemove, Writing
    <3> QED
      <4>1. PICK k \in Keys : k = Head(todo).key
        BY <2>1, <3>1
      <4>2. Enum!Drop(k) \/ Enum!Put(k, Zero) \/ Entries' = Entries
        BY <2>3, <4>1, RemoveEnumerates
      <4> QED
        BY <2>1, <3>1, <4>2 DEF Enum!ENext
  <2>4. CASE WriteNested
    <3>1. /\ todo # << >> /\ keys' = keys
          /\ value' = [value EXCEPT ![Head(todo).key] = Head(todo).val]
      BY <2>4 DEF WriteNested, Writing
    <3> QED
      <4>1. PICK k \in Keys, v \in Values : k = Head(todo).key /\ v = Head(todo).val
        BY <2>1, <3>1
      <4>2. Enum!Put(k, v) \/ Entries' = Entries
        BY <3>1, <4>1, ValueShows
      <4> QED
        BY <4>2 DEF Enum!ENext
  <2>5. ASSUME NEW b \in Bodies[shape], Begin(b) PROVE Entries' = Entries
    BY <2>5 DEF Begin, Entries
  <2>6. CASE UNCHANGED vars
    BY <2>6 DEF vars, Entries
  <2> QED
    BY <2>2, <2>3, <2>4, <2>5, <2>6 DEF Next, Write
<1>3. Entries' = Entries => UNCHANGED [i \in DOMAIN keys |-> [key |-> keys[i], val |-> value[keys[i]]]]
  BY DEF Entries, Entry
<1> QED
  BY <1>1, <1>2, <1>3, Initial, Inductive, PTL DEF Spec, Enumerates, Enum!ESpec

\* Between transforms a member answers every read and membership test as the map
\* its transforms describe, as long as each body is one the lowering reaches all
\* of; E17 accepts others (gen_mapping_transform_split).
THEOREM StorageAlwaysMeansMap ==
  ASSUME LoweredWhole
  PROVE  Spec => []StorageMeansMap
<1>1. IInv /\ PendingMakeMeant => StorageMeansMap
  <2> SUFFICES ASSUME IInv, PendingMakeMeant, todo = << >> PROVE Answers(meant)
    BY DEF StorageMeansMap, Answers
  <2>1. PICK map \in Maps : Answers(map) /\ Meaning(todo, map) = meant
    BY DEF PendingMakeMeant
  <2>2. map = meant
    BY <2>1, MeaningOfNone
  <2> QED
    BY <2>1, <2>2
<1>2. LoweredWhole /\ IInv /\ PendingMakeMeant /\ [Next]_vars => PendingMakeMeant'
  BY PendingInductive
<1>3. LoweredWhole
  OBVIOUS
<1>4. IInv /\ PendingMakeMeant /\ [Next]_vars => PendingMakeMeant'
  BY <1>2, <1>3
<1> QED
  BY <1>1, <1>4, Initial, PendingInitial, Inductive, PTL DEF Spec

-----------------------------------------------------------------------------
(***************************************************************************)
(* Transforms that empty a member (Resets)                                 *)
(***************************************************************************)
\* No phase transforms a word twice: the second would be emitted as a copy of
\* the first (resolve_ir_transforms).
NoRepeats == Repeats = 1

KeptTyped ==
  /\ DOMAIN stored = Resettable /\ DOMAIN said = Resettable
  /\ \A m \in Resettable : Kind[m] \in {"records", "values"} =>
        stored[m] \in Seq(Items) /\ said[m] \in Seq(Items) /\ Len(stored[m]) <= MaxLen

KeptInv == KeptTyped /\ ResetTypeOK /\ ResetsAsMeant

\* Of one body, the one that is meant is the one that is emitted.
LEMMA OneBody ==
  ASSUME NoRepeats, NEW m \in Resettable, NEW bodies \in BodiesOf(m), bodies # << >>
  PROVE  /\ bodies[1] \in Changes
         /\ Final(bodies) = bodies[1] /\ Final(Resolved(bodies)) = bodies[1]
<1>1. bodies \in [1..1 -> Changes]
  BY DEF NoRepeats, BodiesOf
<1>2. DOMAIN bodies = 1..1 /\ bodies[1] \in Changes
  BY <1>1
<1>3. bodies \in Seq(Changes) /\ Len(bodies) = 1
  <2>1. PICK n \in Nat : n = 1 /\ bodies \in [1..n -> Changes]
    BY <1>1
  <2>2. bodies \in Seq(Changes)
    BY <2>1, SeqDef
  <2> QED
    BY <1>2, <2>2
<1>4. Resolved(bodies) \in [1..1 -> Changes] /\ Resolved(bodies)[1] = bodies[1]
  BY <1>2 DEF Resolved
<1>5. Len(Resolved(bodies)) = 1
  BY <1>4
<1> QED
  BY <1>2, <1>3, <1>4, <1>5 DEF Final

\* What is pushed on both stays behind.
LEMMA PushStaysBehind ==
  ASSUME NEW s \in Seq(Items), NEW t \in Seq(Items), NEW x \in Items, EndsWith(t, s)
  PROVE  EndsWith(Append(t, x), Append(s, x))
<1>1. PICK n \in 0..Len(t) : s = SubSeq(t, n + 1, Len(t))
  BY DEF EndsWith
<1> DEFINE T == Append(t, x)
           S == Append(s, x)
           R == SubSeq(T, n + 1, Len(T))
<1>2. PICK L, l \in Nat : L = Len(t) /\ l = Len(s) /\ L = n + l /\ n \in Nat
  BY <1>1
<1>3. \A i \in 1..l : s[i] = t[n + i]
  BY <1>1, <1>2
<1>4. /\ T \in Seq(Items) /\ Len(T) = L + 1 /\ T[L + 1] = x
      /\ \A i \in 1..L : T[i] = t[i]
  <2>1. /\ T \in Seq(Items) /\ Len(T) = Len(t) + 1 /\ T[Len(t) + 1] = x
        /\ \A i \in 1..Len(t) : T[i] = t[i]
    BY AppendProperties
  <2> HIDE DEF T
  <2> QED
    BY <1>2, <2>1
<1>5. /\ S \in Seq(Items) /\ Len(S) = l + 1 /\ S[l + 1] = x
      /\ \A i \in 1..l : S[i] = s[i]
  <2>1. /\ S \in Seq(Items) /\ Len(S) = Len(s) + 1 /\ S[Len(s) + 1] = x
        /\ \A i \in 1..Len(s) : S[i] = s[i]
    BY AppendProperties
  <2> HIDE DEF S
  <2> QED
    BY <1>2, <2>1
<1> HIDE DEF T, S
<1>6. R \in Seq(Items) /\ Len(R) = l + 1 /\ \A i \in 1..(l + 1) : R[i] = T[n + i]
  BY <1>2, <1>4
<1> HIDE DEF R
<1>7. ASSUME NEW i \in 1..(l + 1) PROVE S[i] = R[i]
  <2>0. R[i] = T[n + i]
    BY <1>6
  <2>1. CASE i = l + 1
    <3>1. n + i = L + 1
      BY <1>2, <2>1
    <3>2. T[n + i] = x
      BY <1>4, <3>1
    <3>3. S[i] = x
      BY <1>5, <2>1
    <3> QED
      BY <2>0, <3>2, <3>3
  <2>2. CASE i \in 1..l
    <3>1. n + i \in 1..L
      BY <1>2, <2>2
    <3>2. T[n + i] = t[n + i]
      BY <1>4, <3>1
    <3>3. S[i] = s[i] /\ s[i] = t[n + i]
      BY <1>3, <1>5, <2>2
    <3> QED
      BY <2>0, <3>2, <3>3
  <2> QED
    BY <1>2, <2>1, <2>2
<1>8. S = R
  BY <1>2, <1>5, <1>6, <1>7, SeqEqual
<1>9. n \in 0..Len(T)
  BY <1>2, <1>4
<1> QED
  BY <1>8, <1>9 DEF EndsWith, R, S, T

LEMMA NothingIsBehind ==
  ASSUME NEW t \in Seq(Items)
  PROVE  EndsWith(t, << >>)
<1>1. << >> = SubSeq(t, Len(t) + 1, Len(t)) /\ Len(t) \in 0..Len(t)
  OBVIOUS
<1> QED
  BY <1>1 DEF EndsWith

LEMMA KeptInitial == ASSUME ResetInit PROVE KeptInv
<1>1. \A m \in Resettable : stored[m] = Nothing(Kind[m]) /\ said[m] = Nothing(Kind[m])
  BY DEF ResetInit
<1>2. DOMAIN stored = Resettable /\ DOMAIN said = Resettable
  BY DEF ResetInit
<1>3. << >> \in Seq(Items) /\ Len(<< >>) = 0 /\ MaxLen \in Nat /\ EndsWith(<< >>, << >>)
  <2>1. << >> \in Seq(Items) /\ Len(<< >>) = 0
    OBVIOUS
  <2>2. EndsWith(<< >>, << >>)
    BY <2>1, NothingIsBehind
  <2> QED
    BY <2>1, <2>2, ResetsAssumption
<1>4. \A m \in Resettable : Kind[m] \in {"map", "records", "values", "word"}
  BY ResetsAssumption
<1>5. KeptTyped
  <2>1. \A m \in Resettable : Kind[m] \in {"records", "values"} => stored[m] = << >> /\ said[m] = << >>
    BY <1>1 DEF Nothing
  <2>2. Len(<< >>) <= MaxLen
    BY <1>3
  <2> QED
    BY <1>2, <1>3, <2>1, <2>2 DEF KeptTyped
<1>6. ResetTypeOK
  BY <1>1, <1>3, <1>4, ResetsAssumption DEF ResetTypeOK, Nothing
<1>7. ResetsAsMeant
  BY <1>1, <1>3, <1>4 DEF ResetsAsMeant, ScalarsAsMeant, ResetsOnlyKeep, Nothing
<1> QED
  BY <1>5, <1>6, <1>7 DEF KeptInv

LEMMA KeptInductive ==
  ASSUME NoRepeats, KeptInv, [ResetNext]_resetVars
  PROVE  KeptInv'
<1>1. CASE UNCHANGED resetVars
  BY <1>1 DEF resetVars, KeptInv, KeptTyped, ResetTypeOK, ResetsAsMeant, ScalarsAsMeant,
              ResetsOnlyKeep, EndsWith
<1>2. CASE ResetNext
  <2>0. PICK m \in Resettable : \E bodies \in BodiesOf(m) : Transform(m, bodies)
    BY <1>2 DEF ResetNext
  <2>1. PICK bodies \in BodiesOf(m) : Transform(m, bodies)
    BY <2>0
  <2>2. PICK body \in Changes : body = bodies[1] /\ body = Final(bodies) /\ body = Final(Resolved(bodies))
    BY <2>1, OneBody DEF Transform
  <2>3. KeptTyped /\ ResetTypeOK /\ ScalarsAsMeant /\ ResetsOnlyKeep
    BY DEF KeptInv, ResetsAsMeant
  <2>4. /\ DOMAIN stored' = Resettable /\ DOMAIN said' = Resettable
        /\ \A n \in Resettable \ {m} : stored'[n] = stored[n] /\ said'[n] = said[n]
        /\ stored'[m] = Emitted(Kind[m], body, stored[m])
        /\ said'[m] = NewValue(Kind[m], body, said[m])
    BY <2>1, <2>2, <2>3 DEF Transform, KeptTyped
  <2>5. Kind[m] \in {"records", "values"} /\ body # Empty => Len(stored[m]) < MaxLen
    BY <2>1, <2>2 DEF Transform, Fits
  <2>6. body = Empty \/ (body # Empty /\ \E x \in Items : body.item = x)
    BY DEF Changes, Empty, Add
  <2>7. CASE Kind[m] = "map"
    <3>1. stored'[m] = IF body = Empty THEN stored[m] ELSE stored[m] \cup {body.item}
      BY <2>4, <2>7 DEF Emitted, NewValue, WritesEmpty
    <3>2. said'[m] = IF body = Empty THEN {} ELSE said[m] \cup {body.item}
      BY <2>4, <2>7 DEF NewValue, Nothing
    <3>3. stored[m] \subseteq Items /\ said[m] \subseteq stored[m]
      BY <2>3, <2>7 DEF ResetTypeOK, ResetsOnlyKeep
    <3>4. stored'[m] \subseteq Items /\ said'[m] \subseteq stored'[m]
      BY <2>6, <3>1, <3>2, <3>3
    <3>5. KeptTyped'
      BY <2>3, <2>4, <2>7 DEF KeptTyped
    <3>6. ResetTypeOK'
      BY <2>3, <2>4, <2>7, <3>4 DEF ResetTypeOK
    <3>7. ScalarsAsMeant'
      BY <2>3, <2>4, <2>7, <3>4 DEF ScalarsAsMeant
    <3>8. ASSUME NEW n \in Resettable
          PROVE  CASE Kind[n] = "map" -> said'[n] \subseteq stored'[n]
                   [] Kind[n] = "records" -> EndsWith(stored'[n], said'[n])
                   [] OTHER -> TRUE
      <4>1. CASE n = m
        BY <2>7, <3>4, <4>1
      <4>2. CASE n # m
        BY <2>3, <2>4, <4>2 DEF ResetsOnlyKeep
      <4> QED
        BY <4>1, <4>2
    <3>9. ResetsOnlyKeep'
      BY <3>8 DEF ResetsOnlyKeep, EndsWith
    <3> QED
      BY <3>5, <3>6, <3>7, <3>9 DEF KeptInv, ResetsAsMeant
  <2>8. CASE Kind[m] = "word"
    <3>1. stored'[m] = IF body = Empty THEN Default ELSE body.item
      BY <2>4, <2>8 DEF Emitted, NewValue, WritesEmpty, Nothing
    <3>2. said'[m] = IF body = Empty THEN Default ELSE body.item
      BY <2>4, <2>8 DEF NewValue, Nothing
    <3>3. stored'[m] \in Items /\ stored'[m] = said'[m]
      BY <2>6, <3>1, <3>2, ResetsAssumption
    <3>4. KeptTyped'
      BY <2>3, <2>4, <2>8 DEF KeptTyped
    <3>5. ResetTypeOK'
      BY <2>3, <2>4, <2>8, <3>3 DEF ResetTypeOK
    <3>6. ScalarsAsMeant'
      BY <2>3, <2>4, <2>8, <3>3 DEF ScalarsAsMeant
    <3>7. ASSUME NEW n \in Resettable
          PROVE  CASE Kind[n] = "map" -> said'[n] \subseteq stored'[n]
                   [] Kind[n] = "records" -> EndsWith(stored'[n], said'[n])
                   [] OTHER -> TRUE
      <4>1. CASE n = m
        BY <2>8, <3>3, <4>1
      <4>2. CASE n # m
        BY <2>3, <2>4, <4>2 DEF ResetsOnlyKeep
      <4> QED
        BY <4>1, <4>2
    <3>8. ResetsOnlyKeep'
      BY <3>7 DEF ResetsOnlyKeep, EndsWith
    <3> QED
      BY <3>4, <3>5, <3>6, <3>8 DEF KeptInv, ResetsAsMeant
  <2>9. CASE Kind[m] \in {"records", "values"}
    <3>1. PICK s, t \in Seq(Items) : s = said[m] /\ t = stored[m] /\ Len(t) <= MaxLen
      BY <2>3, <2>9 DEF KeptTyped
    <3>2. MaxLen \in Nat
      BY ResetsAssumption
    <3>3. /\ stored'[m] \in Seq(Items) /\ said'[m] \in Seq(Items) /\ Len(stored'[m]) <= MaxLen
          /\ Kind[m] = "values" => stored'[m] = said'[m]
          /\ Kind[m] = "records" => EndsWith(stored'[m], said'[m])
      <4>1. Kind[m] = "values" => s = t
        BY <2>3, <3>1 DEF ScalarsAsMeant
      <4>2. Kind[m] = "records" => EndsWith(t, s)
        BY <2>3, <3>1 DEF ResetsOnlyKeep
      <4>3. CASE body = Empty
        <5>1. said'[m] = << >> /\ stored'[m] = IF Kind[m] = "records" THEN t ELSE << >>
          BY <2>4, <2>9, <3>1, <4>3 DEF Emitted, NewValue, WritesEmpty, Nothing
        <5> QED
          BY <2>9, <3>1, <3>2, <5>1, NothingIsBehind
      <4>4. CASE body # Empty
        <5>1. PICK x \in Items : x = body.item
          BY <2>6, <4>4
        <5>2. said'[m] = Append(s, x) /\ stored'[m] = Append(t, x)
          BY <2>4, <2>9, <3>1, <4>4, <5>1 DEF Emitted, NewValue
        <5>3. Append(s, x) \in Seq(Items) /\ Append(t, x) \in Seq(Items) /\ Len(Append(t, x)) <= MaxLen
          BY <2>5, <2>9, <3>1, <3>2, <4>4
        <5> QED
          BY <4>1, <4>2, <5>2, <5>3, PushStaysBehind
      <4> QED
        BY <4>3, <4>4
    <3>4. KeptTyped'
      BY <2>3, <2>4, <3>3 DEF KeptTyped
    <3>5. Len(stored'[m]) \in 0..MaxLen /\ \A i \in DOMAIN stored'[m] : stored'[m][i] \in Items
      BY <3>2, <3>3
    <3>6. ResetTypeOK'
      BY <2>3, <2>4, <2>9, <3>5 DEF ResetTypeOK
    <3>7. ScalarsAsMeant'
      BY <2>3, <2>4, <2>9, <3>3 DEF ScalarsAsMeant
    <3>8. ASSUME NEW n \in Resettable
          PROVE  CASE Kind[n] = "map" -> said'[n] \subseteq stored'[n]
                   [] Kind[n] = "records" -> EndsWith(stored'[n], said'[n])
                   [] OTHER -> TRUE
      <4>1. CASE n = m
        BY <2>9, <3>3, <4>1
      <4>2. CASE n # m
        BY <2>3, <2>4, <4>2 DEF ResetsOnlyKeep
      <4> QED
        BY <4>1, <4>2
    <3>9. ResetsOnlyKeep'
      BY <3>8 DEF ResetsOnlyKeep, EndsWith
    <3> QED
      BY <3>4, <3>6, <3>7, <3>9 DEF KeptInv, ResetsAsMeant
  <2> QED
    BY <2>7, <2>8, <2>9, ResetsAssumption
<1> QED
  BY <1>1, <1>2

\* emit_transforms_sol_split, gen_mapping_transform_split: where a phase has
\* one transform of a member, words and Vecs of values are what the bodies
\* say, and of maps and Vecs of records a reset that is not emitted only
\* leaves behind what was there before it.
THEOREM ResetsAlwaysAsMeant ==
  ASSUME NoRepeats
  PROVE  ResetSpec => []ResetsAsMeant
<1>1. ResetInit => KeptInv
  BY KeptInitial
<1>2. KeptInv /\ [ResetNext]_resetVars => KeptInv'
  BY KeptInductive
<1>3. KeptInv => ResetsAsMeant
  BY DEF KeptInv
<1> QED
  BY <1>1, <1>2, <1>3, PTL DEF ResetSpec
=============================================================================
