------------------------- MODULE TemporalOrderProofs -------------------------
(***************************************************************************)
(* The sort of a route's transforms: what it returns respects every ^      *)
(* reference, and it refuses exactly the routes with a cycle.              *)
(***************************************************************************)
EXTENDS TemporalOrder, FiniteSetTheorems, TLAPS

Left == Nodes \ Emitted

(***************************************************************************)
(* The inductive invariant: degree counts what is left to wait for, and no *)
(* stuck member has been emitted.                                          *)
(***************************************************************************)
Counts == \A n \in Nodes : degree[n] = Cardinality(UsesIn(n, Left))

ReadyQueue == queue = { n \in Left : degree[n] = 0 }

NoRepeats ==
  /\ \A j, k \in DOMAIN order : order[j] = order[k] => j = k
  /\ Cardinality(Emitted) = Len(order)

NoneStuck == Stuck \cap Emitted = {}

Ended ==
  outcome # "sorting" =>
    /\ queue = {}
    /\ outcome = "sorted" <=> Len(order) = Cardinality(Nodes)

IInv ==
  /\ TypeOK /\ Counts /\ ReadyQueue /\ NoRepeats /\ LargestReadyFirst /\ NoneStuck /\ Ended

(***************************************************************************)
(* Counting uses                                                           *)
(***************************************************************************)
\* A route has finitely many members.
LEMMA NodesFinite ==
  ASSUME route \in Routes
  PROVE  Nodes \subseteq Names /\ IsFiniteSet(Nodes)
<1>1. Nodes \subseteq Names
  BY NamesAssumption DEF Nodes
<1> QED
  BY <1>1, NamesAssumption, FS_Subset

\* A member has finitely many ^ references.
LEMMA UsesFinite ==
  ASSUME route \in Routes, NEW n
  PROVE  IsFiniteSet(Uses(n))
<1> DEFINE P == { q \in PhaseNames : <<q, n>> \in DOMAIN route }
           of == [ph \in P |-> {ph} \X DOMAIN route[<<ph, n>>]]
           T == { {ph} \X DOMAIN route[<<ph, n>>] : ph \in P }
<1>1. IsFiniteSet(P)
  BY NamesAssumption, FS_Subset
<1>2. IsFiniteSet(T)
  <2>1. of \in Surjection(P, T)
    BY DEF Surjection
  <2> QED
    BY <1>1, <2>1, FS_Surjection
<1>3. ASSUME NEW ph \in P PROVE IsFiniteSet({ph} \X DOMAIN route[<<ph, n>>])
  <2>1. route[<<ph, n>>] \in Seq(Names \cup {Unknown})
    BY NamesAssumption
  <2>2. PICK m \in Nat : DOMAIN route[<<ph, n>>] = 1..m
    BY <2>1
  <2>3. IsFiniteSet(1..m)
    BY <2>2, FS_Interval
  <2> QED
    BY <2>2, <2>3, FS_Product, FS_Singleton
<1>4. IsFiniteSet(UNION T)
  BY <1>2, <1>3, FS_UNION
<1> QED
  BY <1>4 DEF Uses

\* The uses of an emitted member are taken off the count.
LEMMA UsesTakenOff ==
  ASSUME route \in Routes, NEW n, NEW S, NEW x \in S
  PROVE  /\ Cardinality(UsesIn(n, S)) \in Nat
         /\ Cardinality(UsesIn(n, S \ {x})) \in Nat
         /\ Cardinality(UsesIn(n, S)) - Cardinality(UsesOf(n, x)) = Cardinality(UsesIn(n, S \ {x}))
         /\ Cardinality(UsesIn(n, S)) = 0 <=> UsesIn(n, S) = {}
<1> DEFINE A == UsesIn(n, S \ {x})
           B == UsesOf(n, x)
<1>1. IsFiniteSet(A) /\ IsFiniteSet(B) /\ IsFiniteSet(UsesIn(n, S))
  BY UsesFinite, FS_Subset DEF UsesIn, UsesOf
<1>2. UsesIn(n, S) = A \cup B /\ A \cap B = {}
  BY DEF UsesIn, UsesOf
<1> HIDE DEF A, B
<1>3. Cardinality(UsesIn(n, S)) = Cardinality(A) + Cardinality(B)
  <2>1. Cardinality(A \cup B) = Cardinality(A) + Cardinality(B) - 0
    BY <1>1, <1>2, FS_Union, FS_EmptySet
  <2>2. Cardinality(A) \in Nat /\ Cardinality(B) \in Nat
    BY <1>1, FS_CardinalityType
  <2> QED
    BY <1>2, <2>1, <2>2
<1>4. Cardinality(A) \in Nat /\ Cardinality(B) \in Nat /\ Cardinality(UsesIn(n, S)) \in Nat
  BY <1>1, FS_CardinalityType
<1>5. Cardinality(UsesIn(n, S)) = 0 <=> UsesIn(n, S) = {}
  BY <1>1, FS_EmptySet
<1>6. Cardinality(UsesIn(n, S)) - Cardinality(B) = Cardinality(A)
  BY <1>3, <1>4
<1> QED
  BY <1>4, <1>5, <1>6 DEF A, B

\* A count is zero exactly when nothing is counted.
LEMMA NothingCounted ==
  ASSUME route \in Routes, NEW n, NEW S
  PROVE  /\ Cardinality(UsesIn(n, S)) \in Nat
         /\ Cardinality(UsesIn(n, S)) = 0 <=> UsesIn(n, S) = {}
<1>1. IsFiniteSet(UsesIn(n, S))
  BY UsesFinite, FS_Subset DEF UsesIn
<1> QED
  BY <1>1, FS_EmptySet, FS_CardinalityType

\* What stands in an order that grows by one member.
LEMMA OrderGrows ==
  ASSUME NEW s, s \in Seq(Names), NEW x \in Names, NEW s2, s2 = Append(s, x)
  PROVE  /\ Len(s2) = Len(s) + 1 /\ DOMAIN s = 1..Len(s) /\ DOMAIN s2 = 1..(Len(s) + 1)
         /\ Len(s) \in Nat /\ s2[Len(s) + 1] = x /\ \A i \in 1..Len(s) : s2[i] = s[i]
         /\ { s2[i] : i \in DOMAIN s2 } = { s[i] : i \in DOMAIN s } \cup {x}
<1>1. /\ Len(s2) = Len(s) + 1 /\ DOMAIN s = 1..Len(s) /\ DOMAIN s2 = 1..(Len(s) + 1)
      /\ Len(s) \in Nat /\ s2[Len(s) + 1] = x /\ \A i \in 1..Len(s) : s2[i] = s[i]
  OBVIOUS
<1>2. 1..(Len(s) + 1) = 1..Len(s) \cup {Len(s) + 1}
  BY <1>1
<1>3. { s2[i] : i \in DOMAIN s2 } = { s[i] : i \in DOMAIN s } \cup {x}
  <2>1. ASSUME NEW y PROVE y \in { s2[i] : i \in DOMAIN s2 } <=> y \in { s[i] : i \in DOMAIN s } \cup {x}
    BY <1>1, <1>2
  <2> QED
    BY <2>1, Zenon
<1> QED
  BY <1>1, <1>3

(***************************************************************************)
(* Sorting the transforms of a phase                                       *)
(***************************************************************************)
Below(P, key, n) == { m \in P : key[m] < key[n] }

\* Of finitely many things with different keys, one has exactly k - 1 below it.
LEMMA Ranks ==
  ASSUME NEW P, IsFiniteSet(P), NEW key \in [P -> Nat],
         \A a, b \in P : key[a] = key[b] => a = b
  PROVE  /\ \A k \in 1..Cardinality(P) : \E n \in P : Cardinality(Below(P, key, n)) = k - 1
         /\ \A n \in P : Cardinality(Below(P, key, n)) + 1 \in 1..Cardinality(P)
         /\ \A a, b \in P : key[a] < key[b] =>
              Cardinality(Below(P, key, a)) < Cardinality(Below(P, key, b))
<1> DEFINE rank == [n \in P |-> Cardinality(Below(P, key, n)) + 1]
           K == 1..Cardinality(P)
<1>1. Cardinality(P) \in Nat /\ IsFiniteSet(K) /\ Cardinality(K) = Cardinality(P)
  BY FS_CardinalityType, FS_Interval
<1>2. ASSUME NEW n \in P
      PROVE  /\ IsFiniteSet(Below(P, key, n)) /\ Cardinality(Below(P, key, n)) \in Nat
             /\ Cardinality(Below(P, key, n)) < Cardinality(P)
  <2>1. Below(P, key, n) \subseteq P /\ n \notin Below(P, key, n)
    BY DEF Below
  <2>2. /\ IsFiniteSet(Below(P, key, n)) /\ Cardinality(Below(P, key, n)) <= Cardinality(P)
        /\ Cardinality(P) # Cardinality(Below(P, key, n))
    BY <2>1, FS_Subset
  <2>3. Cardinality(Below(P, key, n)) \in Nat
    BY <2>2, FS_CardinalityType
  <2> QED
    BY <1>1, <2>2, <2>3
<1>3. ASSUME NEW a \in P, NEW b \in P, key[a] < key[b]
      PROVE  Cardinality(Below(P, key, a)) < Cardinality(Below(P, key, b))
  <2>1. Below(P, key, a) \subseteq Below(P, key, b)
    BY <1>3 DEF Below
  <2>2. a \in Below(P, key, b) /\ a \notin Below(P, key, a)
    BY <1>3 DEF Below
  <2>3. /\ Cardinality(Below(P, key, a)) <= Cardinality(Below(P, key, b))
        /\ Cardinality(Below(P, key, b)) # Cardinality(Below(P, key, a))
    BY <1>2, <2>1, <2>2, FS_Subset
  <2> QED
    BY <1>2, <2>3
<1>4. \A n \in P : rank[n] \in K
  BY <1>1, <1>2
<1>5. rank \in Injection(P, K)
  <2>1. rank \in [P -> K]
    BY <1>4
  <2>2. ASSUME NEW a \in P, NEW b \in P, rank[a] = rank[b] PROVE a = b
    <3>1. key[a] \in Nat /\ key[b] \in Nat /\ ~(key[a] < key[b]) /\ ~(key[b] < key[a])
      BY <1>2, <1>3, <2>2
    <3> QED
      BY <3>1
  <2> QED
    BY <2>1, <2>2 DEF Injection, IsInjective
<1>6. rank \in Surjection(P, K)
  BY <1>1, <1>5, FS_Injection
<1>7. ASSUME NEW k \in K PROVE \E n \in P : Cardinality(Below(P, key, n)) = k - 1
  <2>1. PICK n \in P : rank[n] = k
    BY <1>6 DEF Surjection
  <2>2. Cardinality(Below(P, key, n)) + 1 = k
    BY <2>1
  <2> QED
    BY <1>2, <2>2
<1> QED
  BY <1>1, <1>2, <1>3, <1>7

(***************************************************************************)
(* The invariant is inductive                                              *)
(***************************************************************************)
\* It holds before the first member is emitted.
LEMMA Initial == Init => IInv
<1> SUFFICES ASSUME Init PROVE IInv
  OBVIOUS
<1>1. Emitted = {} /\ Left = Nodes /\ order = << >> /\ DOMAIN order = {} /\ Len(order) = 0
  BY DEF Init, Emitted, Left
<1>2. \A n \in Nodes : Cardinality(UsesIn(n, Nodes)) \in Nat
  BY NothingCounted DEF Init
<1>3. TypeOK
  BY <1>2 DEF Init, TypeOK
<1>4. Cardinality({}) = 0
  BY FS_EmptySet
<1> QED
  BY <1>1, <1>3, <1>4
  DEF IInv, Init, Counts, ReadyQueue, NoRepeats, LargestReadyFirst, NoneStuck, Ended

\* A route's graph does not change.
LEMMA SameRoute ==
  ASSUME route' = route
  PROVE  /\ Nodes' = Nodes /\ Stuck' = Stuck
         /\ \A n, S : UsesIn(n, S)' = UsesIn(n, S)
BY DEF Nodes, Stuck, UsesIn, Uses, RefAt

\* Emitting a member preserves the invariant.
LEMMA PopPreserves ==
  ASSUME IInv, Pop
  PROVE  IInv'
<1>1. PICK x \in queue :
        /\ \A y \in queue : y <= x
        /\ order' = Append(order, x)
        /\ degree' = [n \in Nodes |-> degree[n] - Cardinality(UsesOf(n, x))]
        /\ queue' = (queue \ {x}) \cup { n \in Nodes : degree[n] > 0 /\ degree'[n] = 0 }
  BY DEF Pop
<1>2. outcome = "sorting" /\ route' = route /\ outcome' = outcome
  BY DEF Pop
<1>3. x \in Left /\ x \in Nodes /\ x \in Names /\ degree[x] = 0 /\ route \in Routes
  BY NodesFinite DEF IInv, ReadyQueue, Left, TypeOK
<1>4. /\ order \in Seq(Names) /\ Emitted \subseteq Nodes /\ IsFiniteSet(Emitted)
  <2>1. order \in Seq(Nodes)
    BY DEF IInv, TypeOK
  <2>2. Emitted \subseteq Nodes
    BY <2>1 DEF Emitted
  <2> QED
    BY <1>3, <2>1, <2>2, NodesFinite, FS_Subset
<1>5. /\ Len(order') = Len(order) + 1 /\ DOMAIN order = 1..Len(order)
      /\ DOMAIN order' = 1..(Len(order) + 1) /\ Len(order) \in Nat
      /\ order'[Len(order) + 1] = x /\ \A i \in 1..Len(order) : order'[i] = order[i]
      /\ Emitted' = Emitted \cup {x}
  BY <1>1, <1>3, <1>4, OrderGrows, SMTT(40) DEF Emitted
<1>6. Nodes' = Nodes /\ Stuck' = Stuck /\ \A n, S : UsesIn(n, S)' = UsesIn(n, S)
  BY <1>2, SameRoute
<1>7. Left' = Left \ {x}
  BY <1>5, <1>6 DEF Left
<1>8. ASSUME NEW n \in Nodes
      PROVE  /\ degree[n] = Cardinality(UsesIn(n, Left)) /\ degree[n] \in Nat
             /\ degree'[n] = Cardinality(UsesIn(n, Left \ {x})) /\ degree'[n] \in Nat
             /\ degree[n] = 0 => degree'[n] = 0
  <2>1. degree[n] = Cardinality(UsesIn(n, Left))
    BY DEF IInv, Counts
  <2>2. /\ Cardinality(UsesIn(n, Left)) \in Nat
        /\ Cardinality(UsesIn(n, Left \ {x})) \in Nat
        /\ Cardinality(UsesIn(n, Left)) - Cardinality(UsesOf(n, x))
             = Cardinality(UsesIn(n, Left \ {x}))
    BY <1>3, UsesTakenOff
  <2>3. degree'[n] = Cardinality(UsesIn(n, Left \ {x}))
    BY <1>1, <2>1, <2>2
  <2>4. UsesIn(n, Left) = {} => UsesIn(n, Left \ {x}) = {}
    BY DEF UsesIn
  <2> QED
    BY <1>3, <2>1, <2>2, <2>3, <2>4, NothingCounted
<1>9. Counts'
  BY <1>6, <1>7, <1>8 DEF Counts
<1>10. ReadyQueue'
  <2>1. queue = { n \in Left : degree[n] = 0 } /\ Left \subseteq Nodes
    BY DEF IInv, ReadyQueue, Left
  <2>2. ASSUME NEW n \in Nodes, degree[n] > 0 PROVE n \in Left
    <3>1. CASE n \in Emitted
      <4>1. PICK j \in DOMAIN order : order[j] = n
        BY <3>1 DEF Emitted
      <4>2. UsesIn(n, Nodes \ { order[i] : i \in 1..(j - 1) }) = {}
        BY <4>1 DEF IInv, LargestReadyFirst
      <4>3. { order[i] : i \in 1..(j - 1) } \subseteq Emitted
        BY <1>5, <4>1 DEF Emitted
      <4>4. UsesIn(n, Left) = {}
        BY <4>2, <4>3 DEF UsesIn, Left
      <4> QED
        BY <1>3, <1>8, <2>2, <4>4, NothingCounted
    <3> QED
      BY <3>1 DEF Left
  <2>3. ASSUME NEW n PROVE n \in queue' <=> n \in { y \in Left \ {x} : degree'[y] = 0 }
    BY <1>1, <1>3, <1>8, <2>1, <2>2
  <2> QED
    BY <1>7, <2>1, <2>3 DEF ReadyQueue
<1>11. NoRepeats'
  <2>1. Cardinality(Emitted') = Len(order')
    BY <1>3, <1>4, <1>5, FS_AddElement, ZenonT(60) DEF IInv, NoRepeats, Left
  <2>2. ASSUME NEW i \in 1..Len(order) PROVE order'[i] # x
    BY <1>3, <1>5 DEF Left, Emitted
  <2>3. \A j, k \in DOMAIN order' : order'[j] = order'[k] => j = k
    BY <1>5, <2>2 DEF IInv, NoRepeats
  <2> QED
    BY <2>1, <2>3 DEF NoRepeats
<1>12. LargestReadyFirst'
  <2>1. UsesIn(x, Left) = {} /\ \A n \in Left : UsesIn(n, Left) = {} => n <= x
    <3>1. \A n \in Left : n \in queue <=> UsesIn(n, Left) = {}
      BY <1>3, <1>8, NothingCounted DEF IInv, ReadyQueue, Left
    <3> QED
      BY <1>1, <1>3, <3>1
  <2>2. ASSUME NEW j \in DOMAIN order'
        PROVE  LET before == { order'[i] : i \in 1..(j - 1) }
                   ready == { n \in Nodes \ before : UsesIn(n, Nodes \ before) = {} }
               IN  order'[j] \in ready /\ \A n \in ready : n <= order'[j]
    <3> DEFINE before == { order'[i] : i \in 1..(j - 1) }
    <3>1. CASE j \in 1..Len(order)
      <4>1. before = { order[i] : i \in 1..(j - 1) } /\ order'[j] = order[j]
        BY <1>5, <3>1
      <4> QED
        BY <1>5, <3>1, <4>1 DEF IInv, LargestReadyFirst
    <3>2. CASE j = Len(order) + 1
      <4>1. before = Emitted /\ order'[j] = x
        BY <1>5, <3>2 DEF Emitted
      <4> QED
        BY <1>3, <2>1, <4>1 DEF Left
    <3> QED
      BY <1>5, <3>1, <3>2
  <2> QED
    BY <1>6, <2>2 DEF LargestReadyFirst
<1>13. NoneStuck'
  <2>1. ASSUME NEW S \in SUBSET Nodes, \A n \in S : UsesIn(n, S) # {}, x \in S
        PROVE  FALSE
    <3>1. S \subseteq Left
      BY <2>1 DEF IInv, NoneStuck, Stuck, Left
    <3>2. UsesIn(x, Left) = {}
      BY <1>3, <1>8, NothingCounted
    <3> QED
      BY <2>1, <3>1, <3>2 DEF UsesIn
  <2>2. x \notin Stuck
    BY <2>1 DEF Stuck
  <2> QED
    BY <1>5, <1>6, <2>2 DEF IInv, NoneStuck
<1>14. TypeOK'
  <2>1. order' \in Seq(Nodes)
    BY <1>1, <1>3 DEF IInv, TypeOK
  <2>2. degree' \in [Nodes -> Nat]
    BY <1>1, <1>8
  <2>3. queue' \subseteq Nodes
    BY <1>1 DEF IInv, TypeOK
  <2> QED
    BY <1>2, <1>6, <2>1, <2>2, <2>3 DEF IInv, TypeOK
<1> QED
  BY <1>2, <1>9, <1>10, <1>11, <1>12, <1>13, <1>14 DEF IInv, Ended

\* Every step preserves the invariant.
LEMMA Inductive == IInv /\ [Next]_vars => IInv'
<1> SUFFICES ASSUME IInv, [Next]_vars PROVE IInv'
  OBVIOUS
<1>1. CASE Pop
  BY <1>1, PopPreserves
<1>2. ASSUME route' = route, degree' = degree, queue' = queue, order' = order, Ended',
             outcome' \in {"sorting", "sorted", "cycle"}
      PROVE  IInv'
  <2>1. /\ Nodes' = Nodes /\ Stuck' = Stuck /\ \A n, S : UsesIn(n, S)' = UsesIn(n, S)
        /\ Emitted' = Emitted
    BY <1>2, SameRoute DEF Emitted
  <2>2. Left' = Left
    BY <2>1 DEF Left
  <2>3. Counts' /\ ReadyQueue'
    BY <1>2, <2>1, <2>2 DEF IInv, Counts, ReadyQueue
  <2>4. NoRepeats' /\ NoneStuck'
    BY <1>2, <2>1 DEF IInv, NoRepeats, NoneStuck
  <2>5. LargestReadyFirst'
    BY <1>2, <2>1 DEF IInv, LargestReadyFirst
  <2>6. TypeOK'
    BY <1>2, <2>1 DEF IInv, TypeOK
  <2> QED
    BY <1>2, <2>3, <2>4, <2>5, <2>6 DEF IInv
<1>3. CASE Finish
  <2>1. Nodes' = Nodes
    BY <1>3, SameRoute DEF Finish
  <2> QED
    BY <1>2, <1>3, <2>1 DEF Finish, Ended
<1>4. CASE UNCHANGED vars
  <2>1. Nodes' = Nodes
    BY <1>4, SameRoute DEF vars
  <2> QED
    BY <1>2, <1>4, <2>1 DEF vars, IInv, Ended, TypeOK
<1> QED
  BY <1>1, <1>3, <1>4 DEF Next

(***************************************************************************)
(* The theorems                                                            *)
(***************************************************************************)
\* The sort keeps its state well typed: in_degree, a usize, never wraps.
THEOREM SortTypeCorrect == Spec => []TypeOK
<1>1. IInv => TypeOK
  BY DEF IInv
<1> QED
  BY <1>1, Initial, Inductive, PTL DEF Spec

\* At every position stands the largest member with nothing left to wait for, so the
\* order of the transforms is a function of the route.
THEOREM SortIsDeterministic == Spec => []LargestReadyFirst
<1>1. IInv => LargestReadyFirst
  BY DEF IInv
<1> QED
  BY <1>1, Initial, Inductive, PTL DEF Spec

\* The invariant orders what it accepts.
LEMMA SortedRespectsRefs ==
  ASSUME IInv
  PROVE  OrderRespectsRefs
<1> SUFFICES ASSUME outcome = "sorted"
             PROVE  /\ Emitted = Nodes
                    /\ \A j, k \in DOMAIN order : UsesOf(order[j], order[k]) # {} => k < j
  BY DEF OrderRespectsRefs, IInv, NoRepeats
<1>1. order \in Seq(Nodes) /\ Emitted \subseteq Nodes
  BY DEF IInv, TypeOK, Emitted
<1>2. Emitted = Nodes
  <2>1. Cardinality(Emitted) = Cardinality(Nodes)
    BY DEF IInv, NoRepeats, Ended
  <2>2. IsFiniteSet(Nodes)
    BY NodesFinite DEF IInv, TypeOK
  <2> QED
    BY <1>1, <2>1, <2>2, FS_Subset
<1>3. ASSUME NEW j \in DOMAIN order, NEW k \in DOMAIN order, UsesOf(order[j], order[k]) # {}
      PROVE  k < j
  <2> DEFINE before == { order[i] : i \in 1..(j - 1) }
  <2>1. UsesIn(order[j], Nodes \ before) = {}
    BY DEF IInv, LargestReadyFirst
  <2>2. order[k] \in Nodes
    BY <1>1
  <2>3. order[k] \in before
    BY <1>3, <2>1, <2>2 DEF UsesIn, UsesOf
  <2>4. PICK i \in 1..(j - 1) : order[k] = order[i]
    BY <2>3
  <2>5. DOMAIN order = 1..Len(order) /\ Len(order) \in Nat
    BY <1>1
  <2>6. i \in DOMAIN order
    BY <2>4, <2>5
  <2>7. k = i
    BY <2>4, <2>6 DEF IInv, NoRepeats
  <2> QED
    BY <2>4, <2>5, <2>7
<1> QED
  BY <1>2, <1>3

\* An accepted route is ordered: each transform stands behind the ones it reads as ^.
THEOREM SortRespectsRefs == Spec => []OrderRespectsRefs
<1>1. IInv => OrderRespectsRefs
  BY SortedRespectsRefs
<1> QED
  BY <1>1, Initial, Inductive, PTL DEF Spec

\* V3 is reported for the routes with a cycle and for no other, with the members
\* that are on one or wait for one.
THEOREM CyclesAreReported == Spec => []ReportNamesTheStuck
<1>1. ASSUME IInv PROVE ReportNamesTheStuck
  <2> SUFFICES ASSUME outcome # "sorting"
               PROVE  (outcome = "cycle" <=> Stuck # {}) /\ Reported = Stuck
    BY DEF ReportNamesTheStuck
  <2>1. Stuck \subseteq Left
    BY <1>1 DEF IInv, NoneStuck, Left, Stuck
  <2>2. \A n \in Left : UsesIn(n, Left) # {}
    <3>1. ASSUME NEW n \in Left PROVE degree[n] # 0 /\ n \in Nodes
      BY <1>1 DEF IInv, Ended, ReadyQueue, Left
    <3> QED
      BY <1>1, <3>1, NothingCounted DEF IInv, Counts, TypeOK
  <2>3. Left = Stuck
    BY <2>1, <2>2 DEF Left, Stuck
  <2>4. /\ order \in Seq(Nodes) /\ Emitted \subseteq Nodes /\ IsFiniteSet(Nodes)
        /\ Cardinality(Emitted) = Len(order)
    BY <1>1, NodesFinite DEF IInv, TypeOK, Emitted, NoRepeats
  <2>5. Cardinality(Emitted) = Cardinality(Nodes) <=> Left = {}
    BY <2>4, FS_Subset DEF Left
  <2>6. outcome = "sorted" <=> Left = {}
    BY <1>1, <2>4, <2>5 DEF IInv, Ended
  <2> QED
    BY <1>1, <2>3, <2>6 DEF IInv, TypeOK, Reported, Left
<1> QED
  BY <1>1, Initial, Inductive, PTL DEF Spec

\* What a phase hands the lowering lists its transforms, each behind the ones of
\* the phase it reads as ^, though the route was sorted with all phases pooled.
THEOREM PhasesAreOrdered == Spec => []PhasesFitLowering
<1>1. ASSUME IInv, OrderRespectsRefs PROVE PhasesFitLowering
  <2> SUFFICES ASSUME outcome = "sorted", NEW ph \in PhaseNames
               PROVE  /\ Prog!TemporallyOrdered(PhaseTxs(ph))
                      /\ { PhaseTxs(ph)[k].member : k \in DOMAIN PhaseTxs(ph) } = Transformed(ph)
    BY DEF PhasesFitLowering
  <2> DEFINE P == Transformed(ph)
             key == [m \in P |-> Position(m)]
             mem(k) == CHOOSE m \in P : Cardinality(Ahead(ph, m)) = k - 1
             txs == PhaseTxs(ph)
  <2>1. P \subseteq Nodes /\ IsFiniteSet(P) /\ Emitted = Nodes /\ order \in Seq(Nodes)
    <3>1. P \subseteq Nodes
      BY DEF Transformed, Nodes
    <3> QED
      BY <1>1, <3>1, NodesFinite, FS_Subset DEF IInv, TypeOK, OrderRespectsRefs
  <2>2. ASSUME NEW n \in P
        PROVE  Position(n) \in DOMAIN order /\ Position(n) \in Nat /\ order[Position(n)] = n
    <3>1. PICK i \in DOMAIN order : order[i] = n
      BY <2>1 DEF Emitted
    <3>2. DOMAIN order = 1..Len(order) /\ Len(order) \in Nat
      BY <2>1
    <3>3. \A j \in 1..(i - 1) : order[j] # n
      BY <1>1, <3>1, <3>2 DEF IInv, NoRepeats
    <3>4. Position(n) \in DOMAIN order /\ order[Position(n)] = n
      BY <2>1, <3>1, <3>3 DEF Position
    <3> QED
      BY <3>2, <3>4
  <2>3. key \in [P -> Nat] /\ \A a, b \in P : key[a] = key[b] => a = b
    BY <2>2
  <2>4. \A n \in P : Ahead(ph, n) = Below(P, key, n)
    BY DEF Ahead, Below
  <2> HIDE DEF key, P
  <2>5. /\ \A k \in 1..Cardinality(P) : \E n \in P : Cardinality(Ahead(ph, n)) = k - 1
        /\ \A n \in P : Cardinality(Ahead(ph, n)) + 1 \in 1..Cardinality(P)
        /\ \A a, b \in P : key[a] < key[b] =>
             Cardinality(Ahead(ph, a)) < Cardinality(Ahead(ph, b))
    <3>1. /\ \A k \in 1..Cardinality(P) : \E n \in P : Cardinality(Below(P, key, n)) = k - 1
          /\ \A n \in P : Cardinality(Below(P, key, n)) + 1 \in 1..Cardinality(P)
          /\ \A a, b \in P : key[a] < key[b] =>
               Cardinality(Below(P, key, a)) < Cardinality(Below(P, key, b))
      BY <2>1, <2>3, Ranks
    <3> QED
      BY <2>4, <3>1
  <2>6. \A k \in 1..Cardinality(P) : mem(k) \in P /\ Cardinality(Ahead(ph, mem(k))) = k - 1
    BY <2>5
  <2>7. /\ DOMAIN txs = 1..Cardinality(P)
        /\ \A k \in 1..Cardinality(P) : txs[k].member = mem(k) /\ txs[k].after = Refs(ph, mem(k))
    BY DEF PhaseTxs, P
  <2> HIDE DEF mem, txs
  <2>8. Cardinality(P) \in Nat
    BY <2>1, FS_CardinalityType
  <2>9. ASSUME NEW j \in DOMAIN txs, NEW k \in DOMAIN txs, txs[k].member \in txs[j].after
        PROVE  k < j
    <3>1. /\ j \in 1..Cardinality(P) /\ k \in 1..Cardinality(P)
          /\ mem(j) \in P /\ mem(k) \in P /\ mem(k) \in Refs(ph, mem(j))
      BY <2>6, <2>7, <2>9
    <3>2. UsesOf(mem(j), mem(k)) # {}
      BY <3>1 DEF Refs, UsesOf
    <3>3. Position(mem(k)) < Position(mem(j))
      BY <1>1, <2>2, <3>1, <3>2 DEF OrderRespectsRefs
    <3>4. key[mem(k)] < key[mem(j)]
      BY <3>1, <3>3 DEF key
    <3>5. k - 1 < j - 1
      BY <2>5, <2>6, <3>1, <3>4
    <3> QED
      BY <2>8, <3>1, <3>5
  <2>10. ASSUME NEW n \in P PROVE \E k \in DOMAIN txs : txs[k].member = n
    <3> DEFINE k == Cardinality(Ahead(ph, n)) + 1
    <3>1. k \in 1..Cardinality(P) /\ Cardinality(Ahead(ph, n)) \in Int
      <4>1. Ahead(ph, n) \subseteq P
        BY DEF Ahead, P
      <4>2. Cardinality(Ahead(ph, n)) \in Nat
        BY <2>1, <4>1, FS_Subset, FS_CardinalityType
      <4> QED
        BY <2>5, <4>2
    <3>2. mem(k) \in P /\ Cardinality(Ahead(ph, mem(k))) = Cardinality(Ahead(ph, n))
      BY <2>6, <3>1
    <3>3. ~(key[n] < key[mem(k)]) /\ ~(key[mem(k)] < key[n])
      <4>1. Cardinality(Ahead(ph, n)) \in Int
        BY <3>1
      <4> QED
        BY <2>5, <3>2, <4>1
    <3>4. mem(k) = n
      BY <2>3, <3>2, <3>3
    <3> QED
      BY <2>7, <3>1, <3>4
  <2>11. { txs[k].member : k \in DOMAIN txs } = P
    BY <2>6, <2>7, <2>10
  <2> QED
    BY <2>9, <2>11 DEF txs, P, Prog!TemporallyOrdered
<1>2. IInv => OrderRespectsRefs
  BY SortedRespectsRefs
<1> QED
  BY <1>1, <1>2, Initial, Inductive, PTL DEF Spec
=============================================================================
