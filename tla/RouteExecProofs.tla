--------------------------- MODULE RouteExecProofs ---------------------------
(***************************************************************************)
(* For every entity, member set, value set and transform bodies: the       *)
(* machine is well typed and a failed transaction leaves no trace; and the *)
(* emitted code keeps the promise of a phase on isolated phases, whatever  *)
(* re-enters the contract.                                                 *)
(*                                                                         *)
(* The heart of it is about one phase and nothing else: Mid relates the    *)
(* locals, the pending writes and storage of a phase under way to the      *)
(* storage it began with.  Each emitted step preserves Mid (MidDefers,     *)
(* MidSkips, MidWritesInPlace, MidFires), and at the end of the commits    *)
(* Mid gives AtomicPost (MidEnds).  These facts become an invariant of     *)
(* every frame of the call stack that is at an isolated phase; of any      *)
(* frame, IInv says that its locals have the Shape they were declared in.  *)
(***************************************************************************)
EXTENDS RouteExec, SequenceTheorems, TLAPS

(***************************************************************************)
(* A phase, transform by transform                                         *)
(***************************************************************************)
Size(p) == Len(p.txs)
MemberOf(p, k) == p.txs[k].member
ReadsOf(p, k) == p.txs[k].reads
AfterOf(p, k) == p.txs[k].after
KindOf(p, k) == p.txs[k].kind
InPlaceAt(p, k) == InPlace(p.txs[k])
LateAt(p, k) == Late(p.txs[k])
Body(p, k, plain, next) == Eval(p.txs[k], plain, next)

\* The transforms whose write is in storage.
Landed(i, pend, skip) == (1..(i-1)) \ (pend \cup skip)

\* What the phase will have made of pre, as far as it is computed.
Target(p, i, nx, skip, pre) ==
  [m \in Members |->
     IF \E j \in (1..(i-1)) \ skip : MemberOf(p, j) = m
       THEN nx[CHOOSE j \in (1..(i-1)) \ skip : MemberOf(p, j) = m]
       ELSE pre[m]]

\* What the body of transform k makes of what it is meant to read.
Intended(p, k, i, nx, skip, pre) ==
  Body(p, k, Only(pre, ReadsOf(p, k)), Only(Target(p, i, nx, skip, pre), AfterOf(p, k)))

(***************************************************************************)
(* A phase under way: i is the next transform, nx the values computed so   *)
(* far, pend and skip the pending and skipped ones, pre the storage the    *)
(* phase began with and st the storage now.                                *)
(***************************************************************************)
MidTypes(p, i, nx, pend, skip, pre, st) ==
  /\ i \in 1..(Size(p) + 1)
  /\ nx \in [1..(i-1) -> Values]
  /\ pre \in [Members -> Values]
  /\ st \in [Members -> Values]
  /\ pend \subseteq 1..(i-1)
  /\ skip \subseteq 1..(i-1)
  /\ pend \cap skip = {}
  /\ \A k \in pend : ~InPlaceAt(p, k)
  /\ \A k \in skip : KindOf(p, k) = "branch"

\* Storage holds the new value of the landed transforms, the old of the rest.
MidStore(p, i, nx, pend, skip, pre, st) ==
  /\ \A k \in Landed(i, pend, skip) : st[MemberOf(p, k)] = nx[k]
  /\ \A m \in Members :
       (\A k \in Landed(i, pend, skip) : MemberOf(p, k) # m) => st[m] = pre[m]

\* Every value computed so far is the intended one.
MidValues(p, i, nx, pend, skip, pre) ==
  \A k \in (1..(i-1)) \ skip :
    (k \in pend => ~LateAt(p, k)) => nx[k] = Intended(p, k, i, nx, skip, pre)

\* Nobody who reads ^m has been computed before m's value was settled.
MidAfter(p, i, pend) ==
  \A j, k \in 1..(i-1) :
    MemberOf(p, j) \in AfterOf(p, k) /\ j \in pend => KindOf(p, j) = "scalar"

\* Only a write that lands early overtakes a pending one.
MidOrder(p, i, pend, skip) ==
  \A k \in Landed(i, pend, skip), j \in pend : j < k => LandsEarly(p, k)

Mid(p, i, nx, pend, skip, pre, st) ==
  /\ MidTypes(p, i, nx, pend, skip, pre, st)
  /\ MidStore(p, i, nx, pend, skip, pre, st)
  /\ MidValues(p, i, nx, pend, skip, pre)
  /\ MidAfter(p, i, pend)
  /\ MidOrder(p, i, pend, skip)

\* While transforms are still being computed, what has landed landed early.
Early(p, i, pend, skip) ==
  \A k \in Landed(i, pend, skip) : LandsBefore(p, k, i)

(***************************************************************************)
(* What is known of a phase                                                *)
(***************************************************************************)
\* Of any phase an entity declares.
Sound(p) ==
  /\ p \in Phases
  /\ WellFormed(p)
  /\ \A k \in DOMAIN p.txs :
       \A plain \in [p.txs[k].reads -> Values], next \in [p.txs[k].after -> Values] :
         Eval(p.txs[k], plain, next) \in Values

\* Of one whose transforms are isolated.
Good(p) == Sound(p) /\ OneEach(p) /\ TransformsIsolated(p)

\* What the types of a phase give for each of its transforms.
LEMMA SoundPhase ==
  ASSUME NEW p, Sound(p)
  PROVE  /\ Size(p) \in Nat /\ DOMAIN p.txs = 1..Size(p)
         /\ \A k \in 1..Size(p) :
              /\ MemberOf(p, k) \in Members
              /\ ReadsOf(p, k) \subseteq Members
              /\ AfterOf(p, k) \subseteq Members
              /\ LateAt(p, k) => KindOf(p, k) = "branch" /\ ~InPlaceAt(p, k)
<1>1. p.txs \in Seq(Transforms)
  BY DEF Sound, Phases
<1>2. Size(p) \in Nat /\ DOMAIN p.txs = 1..Size(p)
  BY <1>1 DEF Size
<1>3. ASSUME NEW k \in 1..Size(p)
      PROVE  /\ MemberOf(p, k) \in Members
             /\ ReadsOf(p, k) \subseteq Members
             /\ AfterOf(p, k) \subseteq Members
             /\ LateAt(p, k) => KindOf(p, k) = "branch" /\ ~InPlaceAt(p, k)
  <2>1. p.txs[k] \in Transforms
    BY <1>1, <1>2
  <2>2. LateAt(p, k) => KindOf(p, k) = "branch" /\ ~InPlaceAt(p, k)
    BY DEF KindOf, LateAt, Late, InPlaceAt, InPlace
  <2> QED
    BY <2>1, <2>2 DEF Transforms, MemberOf, ReadsOf, AfterOf
<1> QED
  BY <1>2, <1>3

\* The transforms of a phase are numbered from 1.
LEMMA PhaseSize ==
  ASSUME NEW p, Good(p)
  PROVE  Size(p) \in Nat /\ DOMAIN p.txs = 1..Size(p)
BY DEF Good, Sound, Phases, Size

\* A transform of a phase has the fields of one.
LEMMA TxTypes ==
  ASSUME NEW p, Good(p), NEW k \in 1..Size(p)
  PROVE  /\ MemberOf(p, k) \in Members
         /\ ReadsOf(p, k) \subseteq Members
         /\ AfterOf(p, k) \subseteq Members
         /\ KindOf(p, k) \in Kinds
<1>1. p.txs \in Seq(Transforms)
  BY DEF Good, Sound, Phases
<1>2. p.txs[k] \in Transforms
  BY <1>1 DEF Size
<1> QED
  BY <1>2 DEF Transforms, MemberOf, ReadsOf, AfterOf, KindOf

\* The position of a transform is its own.
LEMMA TxUnique ==
  ASSUME NEW p, Good(p), NEW j \in 1..Size(p), NEW k \in 1..Size(p),
         MemberOf(p, j) = MemberOf(p, k)
  PROVE  j = k
BY PhaseSize DEF Good, OneEach, MemberOf

\* A ^ read comes after the transform it refers to.
LEMMA TxOrdered ==
  ASSUME NEW p, Good(p), NEW j \in 1..Size(p), NEW k \in 1..Size(p),
         MemberOf(p, k) \in AfterOf(p, j)
  PROVE  k < j
BY PhaseSize DEF Good, Sound, WellFormed, TemporallyOrdered, MemberOf, AfterOf

\* The kind of a transform is that of its member.
LEMMA TxKind ==
  ASSUME NEW p, Good(p), NEW k \in 1..Size(p)
  PROVE  /\ KindOf(p, k) \in {"mapping", "branch"} <=> MemberOf(p, k) \in Maps
         /\ LateAt(p, k) => KindOf(p, k) = "branch" /\ ~InPlaceAt(p, k)
         /\ ~InPlaceAt(p, k) => KindOf(p, k) # "push"
<1>1. KindFits(p.txs[k])
  BY PhaseSize DEF Good, Sound, WellFormed
<1> QED
  BY <1>1 DEF KindFits, KindOf, MemberOf, LateAt, Late, InPlaceAt, InPlace

\* Nobody reads a member plainly once its new value is in storage.
LEMMA TxIsolated ==
  ASSUME NEW p, Good(p), NEW j \in 1..Size(p), NEW k \in 1..Size(p),
         MemberOf(p, k) \in ReadsOf(p, j)
  PROVE  /\ ~LandsBefore(p, k, j)
         /\ LateAt(p, j) /\ j # k => k > j /\ ~LandsEarly(p, k)
BY PhaseSize DEF Good, TransformsIsolated, MemberOf, ReadsOf, LateAt

\* A body makes a value of values.
LEMMA TxValue ==
  ASSUME NEW p, Good(p), NEW k \in 1..Size(p),
         NEW plain \in [ReadsOf(p, k) -> Values], NEW next \in [AfterOf(p, k) -> Values]
  PROVE  Body(p, k, plain, next) \in Values
BY PhaseSize DEF Good, Sound, ReadsOf, AfterOf, Body

\* When writes land.
LEMMA Landing ==
  ASSUME NEW p, Good(p), NEW k \in 1..Size(p), NEW i \in 1..Size(p)
  PROVE  /\ LandsBefore(p, k, i) => LandsBefore(p, k, i + 1)
         /\ InPlaceAt(p, k) => LandsBefore(p, k, k + 1) /\ LandsEarly(p, k)
         /\ Flushes(p, k, i) => LandsBefore(p, k, i) /\ LandsEarly(p, k)
         /\ k < i /\ MemberOf(p, k) \in AfterOf(p, i) /\ MemberOf(p, k) \in Maps
              => Flushes(p, k, i)
<1>1. LandsBefore(p, k, i) => LandsBefore(p, k, i + 1)
  BY PhaseSize DEF LandsBefore
<1>2. InPlaceAt(p, k) => LandsBefore(p, k, k + 1) /\ LandsEarly(p, k)
  BY DEF LandsBefore, LandsEarly, InPlaceAt
<1>3. Flushes(p, k, i) => LandsBefore(p, k, i) /\ LandsEarly(p, k)
  BY PhaseSize DEF LandsBefore, LandsEarly
<1>4. k < i /\ MemberOf(p, k) \in AfterOf(p, i) /\ MemberOf(p, k) \in Maps => Flushes(p, k, i)
  BY DEF Flushes, MemberOf, AfterOf
<1> QED
  BY <1>1, <1>2, <1>3, <1>4

(***************************************************************************)
(* What a phase under way will have made of its storage                    *)
(***************************************************************************)
\* Target at the member of a computed transform is that transform's value.
LEMMA TargetOfTx ==
  ASSUME NEW p, Good(p), NEW i \in 1..(Size(p) + 1), NEW nx, NEW skip, NEW pre,
         NEW j \in 1..(i-1), j \notin skip
  PROVE  Target(p, i, nx, skip, pre)[MemberOf(p, j)] = nx[j]
<1>1. MemberOf(p, j) \in Members /\ 1..(i-1) \subseteq 1..Size(p)
  BY PhaseSize, TxTypes
<1>2. \A k \in (1..(i-1)) \ skip : MemberOf(p, k) = MemberOf(p, j) => k = j
  BY <1>1, TxUnique
<1>3. (CHOOSE k \in (1..(i-1)) \ skip : MemberOf(p, k) = MemberOf(p, j)) = j
  BY <1>2
<1> QED
  BY <1>1, <1>3 DEF Target

\* Target at any other member is the value the phase began with.
LEMMA TargetElsewhere ==
  ASSUME NEW p, NEW i, NEW nx, NEW skip, NEW pre, NEW m \in Members,
         \A j \in (1..(i-1)) \ skip : MemberOf(p, j) # m
  PROVE  Target(p, i, nx, skip, pre)[m] = pre[m]
BY DEF Target

\* Target is a storage.
LEMMA TargetType ==
  ASSUME NEW p, Good(p), NEW i \in 1..(Size(p) + 1), NEW nx \in [1..(i-1) -> Values],
         NEW skip, NEW pre \in [Members -> Values]
  PROVE  Target(p, i, nx, skip, pre) \in [Members -> Values]
<1>1. ASSUME NEW m \in Members PROVE Target(p, i, nx, skip, pre)[m] \in Values
  <2>1. CASE \E j \in (1..(i-1)) \ skip : MemberOf(p, j) = m
    <3>1. PICK j \in (1..(i-1)) \ skip : MemberOf(p, j) = m
      BY <2>1
    <3> QED
      BY <3>1, TargetOfTx
  <2>2. CASE \A j \in (1..(i-1)) \ skip : MemberOf(p, j) # m
    BY <2>2, TargetElsewhere
  <2> QED
    BY <2>1, <2>2
<1> QED
  BY <1>1 DEF Target

\* What a transform is meant to compute is a value.
LEMMA IntendedType ==
  ASSUME NEW p, Good(p), NEW i \in 1..(Size(p) + 1), NEW nx \in [1..(i-1) -> Values],
         NEW skip, NEW pre \in [Members -> Values], NEW k \in 1..Size(p)
  PROVE  Intended(p, k, i, nx, skip, pre) \in Values
<1>1. Target(p, i, nx, skip, pre) \in [Members -> Values]
  BY TargetType
<1>2. /\ Only(pre, ReadsOf(p, k)) \in [ReadsOf(p, k) -> Values]
      /\ Only(Target(p, i, nx, skip, pre), AfterOf(p, k)) \in [AfterOf(p, k) -> Values]
  BY <1>1, TxTypes DEF Only
<1> QED
  BY <1>2, TxValue DEF Intended

\* The transform at i has been computed, or skipped.
Extended(i, nx, nx2, skip, skip2) ==
  /\ skip \subseteq 1..(i-1)
  /\ skip2 = skip \/ skip2 = skip \cup {i}
  /\ \A k \in 1..(i-1) : nx2[k] = nx[k]

\* The next transform's value changes Target at its own member only.
LEMMA TargetGrows ==
  ASSUME NEW p, Good(p), NEW i \in 1..Size(p), NEW nx, NEW nx2, NEW skip, NEW skip2, NEW pre,
         Extended(i, nx, nx2, skip, skip2),
         NEW m \in Members, m # MemberOf(p, i)
  PROVE  Target(p, i + 1, nx2, skip2, pre)[m] = Target(p, i, nx, skip, pre)[m]
<1>0. i \in 1..(Size(p) + 1) /\ i + 1 \in 1..(Size(p) + 1) /\ 1..((i+1)-1) = 1..i
  BY PhaseSize
<1>1. CASE \E j \in (1..(i-1)) \ skip : MemberOf(p, j) = m
  <2>1. PICK j \in (1..(i-1)) \ skip : MemberOf(p, j) = m
    BY <1>1
  <2>2. j \in 1..((i+1)-1) /\ j \notin skip2
    BY <1>0, <2>1 DEF Extended
  <2>3. Target(p, i + 1, nx2, skip2, pre)[m] = nx2[j]
    BY <1>0, <2>1, <2>2, TargetOfTx
  <2>4. Target(p, i, nx, skip, pre)[m] = nx[j]
    BY <1>0, <2>1, TargetOfTx
  <2> QED
    BY <2>3, <2>4 DEF Extended
<1>2. CASE \A j \in (1..(i-1)) \ skip : MemberOf(p, j) # m
  <2>1. \A j \in (1..((i+1)-1)) \ skip2 : MemberOf(p, j) # m
    BY <1>0, <1>2 DEF Extended
  <2> QED
    BY <1>2, <2>1, TargetElsewhere
<1> QED
  BY <1>1, <1>2

\* So it changes nothing that a transform up to it reads as ^m.
LEMMA IntendedGrows ==
  ASSUME NEW p, Good(p), NEW i \in 1..Size(p), NEW nx, NEW nx2, NEW skip, NEW skip2, NEW pre,
         Extended(i, nx, nx2, skip, skip2),
         NEW k \in 1..i
  PROVE  Intended(p, k, i + 1, nx2, skip2, pre) = Intended(p, k, i, nx, skip, pre)
<1>1. k \in 1..Size(p)
  BY PhaseSize
<1>2. ASSUME NEW m \in AfterOf(p, k)
      PROVE  Target(p, i + 1, nx2, skip2, pre)[m] = Target(p, i, nx, skip, pre)[m]
  <2>1. m \in Members
    BY <1>1, TxTypes
  <2>2. m # MemberOf(p, i)
    BY <1>1, <1>2, TxOrdered
  <2> QED
    BY <2>1, <2>2, TargetGrows
<1> QED
  BY <1>2 DEF Intended, Only

\* A phase begins in Mid.
LEMMA MidBegins ==
  ASSUME NEW p, Good(p), NEW st \in [Members -> Values]
  PROVE  Mid(p, 1, << >>, {}, {}, st, st) /\ Early(p, 1, {}, {})
<1>1. 1..(1-1) = {}
  OBVIOUS
<1>2. << >> \in [1..(1-1) -> Values]
  BY <1>1
<1>3. 1 \in 1..(Size(p) + 1)
  BY PhaseSize
<1>4. Landed(1, {}, {}) = {}
  BY <1>1 DEF Landed
<1>5. MidTypes(p, 1, << >>, {}, {}, st, st)
  BY <1>2, <1>3 DEF MidTypes
<1>6. MidStore(p, 1, << >>, {}, {}, st, st)
  BY <1>4 DEF MidStore
<1>7. MidValues(p, 1, << >>, {}, {}, st)
  BY <1>1 DEF MidValues
<1>8. MidAfter(p, 1, {}) /\ MidOrder(p, 1, {}, {}) /\ Early(p, 1, {}, {})
  BY <1>4 DEF MidAfter, MidOrder, Early
<1> QED
  BY <1>5, <1>6, <1>7, <1>8 DEF Mid

\* The end of the commits: Mid with nothing pending is the promise of the phase.
LEMMA MidEnds ==
  ASSUME NEW p, Good(p), NEW nx, NEW skip, NEW pre, NEW st,
         Mid(p, Size(p) + 1, nx, {}, skip, pre, st)
  PROVE  AtomicPost(p, pre, st, skip)
<1> DEFINE n == Size(p)
           T == Target(p, n + 1, nx, skip, pre)
<1>0. n \in Nat /\ DOMAIN p.txs = 1..n /\ 1..((n+1)-1) = 1..n /\ n + 1 \in 1..(n + 1)
  BY PhaseSize
<1>1. Landed(n + 1, {}, skip) = (1..n) \ skip
  BY <1>0 DEF Landed
<1>2. \A k \in (1..n) \ skip : st[MemberOf(p, k)] = nx[k]
  BY <1>1 DEF Mid, MidStore
<1>3. \A m \in Members : (\A k \in (1..n) \ skip : MemberOf(p, k) # m) => st[m] = pre[m]
  BY <1>1 DEF Mid, MidStore
<1>4. \A m \in Members : st[m] = T[m]
  <2> TAKE m \in Members
  <2>1. CASE \E k \in (1..n) \ skip : MemberOf(p, k) = m
    <3>1. PICK k \in (1..n) \ skip : MemberOf(p, k) = m
      BY <2>1
    <3>2. T[MemberOf(p, k)] = nx[k]
      BY <1>0, TargetOfTx
    <3> QED
      BY <1>2, <3>1, <3>2
  <2>2. CASE \A k \in (1..n) \ skip : MemberOf(p, k) # m
    BY <1>0, <1>3, <2>2, TargetElsewhere
  <2> QED
    BY <2>1, <2>2
<1>5. \A m \in Members \ Committed(p) : st[m] = pre[m]
  BY <1>0, <1>3 DEF Committed, MemberOf
<1>6. \A k \in 1..n : k \in skip => st[MemberOf(p, k)] = pre[MemberOf(p, k)]
  <2> TAKE k \in 1..n
  <2> HAVE k \in skip
  <2>1. \A l \in (1..n) \ skip : MemberOf(p, l) # MemberOf(p, k)
    BY TxUnique
  <2> QED
    BY <1>3, <2>1, TxTypes
<1>7. \A k \in (1..n) \ skip :
        st[MemberOf(p, k)] = Body(p, k, Only(pre, ReadsOf(p, k)), Only(st, AfterOf(p, k)))
  <2> TAKE k \in (1..n) \ skip
  <2>1. nx[k] = Body(p, k, Only(pre, ReadsOf(p, k)), Only(T, AfterOf(p, k)))
    BY <1>0 DEF Mid, MidValues, Intended
  <2>2. Only(T, AfterOf(p, k)) = Only(st, AfterOf(p, k))
    BY <1>4, TxTypes DEF Only
  <2> QED
    BY <1>2, <2>1, <2>2
<1> QED
  BY <1>0, <1>5, <1>6, <1>7 DEF AtomicPost, MemberOf, ReadsOf, AfterOf, Body

(***************************************************************************)
(* What a computation reads                                                *)
(***************************************************************************)
\* AfterValue, in terms of the locals and storage of the phase.
ScalarTxs(p, m) == { k \in DOMAIN p.txs : MemberOf(p, k) = m /\ KindOf(p, k) = "scalar" }

ReadAfter(p, nx, st, m) ==
  IF ScalarTxs(p, m) # {} THEN nx[CHOOSE k \in ScalarTxs(p, m) : TRUE] ELSE st[m]

\* EvalNow, in the same terms.
Now(p, k, nx, st) ==
  Body(p, k, Only(st, ReadsOf(p, k)), [m \in AfterOf(p, k) |-> ReadAfter(p, nx, st, m)])

\* What is computed is a value: a ^ read of a local finds one declared before.
LEMMA NowIsValue ==
  ASSUME NEW p, Sound(p), NEW i \in 1..(Size(p) + 1), NEW nx \in [1..(i-1) -> Values],
         NEW st \in [Members -> Values], NEW k \in 1..Size(p), k <= i
  PROVE  Now(p, k, nx, st) \in Values
<1>1. /\ Size(p) \in Nat /\ DOMAIN p.txs = 1..Size(p)
      /\ ReadsOf(p, k) \subseteq Members /\ AfterOf(p, k) \subseteq Members
  BY SoundPhase
<1>2. ASSUME NEW m \in AfterOf(p, k) PROVE ReadAfter(p, nx, st, m) \in Values
  <2>1. CASE ScalarTxs(p, m) # {}
    <3> DEFINE j == CHOOSE x \in ScalarTxs(p, m) : TRUE
    <3>1. j \in ScalarTxs(p, m)
      BY <2>1
    <3> HIDE DEF j
    <3>2. j \in 1..Size(p) /\ MemberOf(p, j) \in AfterOf(p, k)
      BY <1>1, <3>1 DEF ScalarTxs
    <3>3. j < k
      BY <1>1, <3>2 DEF Sound, WellFormed, TemporallyOrdered, MemberOf, AfterOf
    <3>4. nx[j] \in Values
      BY <1>1, <3>2, <3>3
    <3> QED
      BY <2>1, <3>4 DEF ReadAfter, j
  <2>2. CASE ScalarTxs(p, m) = {}
    BY <1>1, <2>2 DEF ReadAfter
  <2> QED
    BY <2>1, <2>2
<1>3. /\ Only(st, ReadsOf(p, k)) \in [ReadsOf(p, k) -> Values]
      /\ [m \in AfterOf(p, k) |-> ReadAfter(p, nx, st, m)] \in [AfterOf(p, k) -> Values]
  BY <1>1, <1>2 DEF Only
<1> QED
  BY <1>1, <1>3 DEF Sound, Now, Body, ReadsOf, AfterOf

\* A plain read of the transform being computed finds the old value.
LEMMA ReadsAreOld ==
  ASSUME NEW p, Good(p), NEW i \in 1..Size(p), NEW nx, NEW pend, NEW skip, NEW pre, NEW st,
         Mid(p, i, nx, pend, skip, pre, st), Early(p, i, pend, skip)
  PROVE  Only(st, ReadsOf(p, i)) = Only(pre, ReadsOf(p, i))
<1>1. SUFFICES ASSUME NEW m \in ReadsOf(p, i) PROVE st[m] = pre[m]
  BY DEF Only
<1>2. m \in Members
  BY TxTypes
<1>3. ASSUME NEW k \in Landed(i, pend, skip), MemberOf(p, k) = m PROVE FALSE
  <2>1. k \in 1..Size(p)
    BY PhaseSize DEF Landed
  <2>2. ~LandsBefore(p, k, i)
    BY <1>3, <2>1, TxIsolated
  <2> QED
    BY <2>2 DEF Early
<1> QED
  BY <1>2, <1>3 DEF Mid, MidStore

\* So does a plain read inside an `if` whose write fires late.
LEMMA LateReadsAreOld ==
  ASSUME NEW p, Good(p), NEW i, NEW nx, NEW pend, NEW skip, NEW pre, NEW st,
         Mid(p, i, nx, pend, skip, pre, st), NEW k \in pend, LateAt(p, k)
  PROVE  Only(st, ReadsOf(p, k)) = Only(pre, ReadsOf(p, k))
<1>0. i \in 1..(Size(p) + 1) /\ pend \subseteq 1..(i-1)
  BY DEF Mid, MidTypes
<1>1. k \in 1..Size(p)
  BY <1>0, PhaseSize
<1>2. SUFFICES ASSUME NEW m \in ReadsOf(p, k) PROVE st[m] = pre[m]
  BY DEF Only
<1>3. m \in Members
  BY <1>1, TxTypes
<1>4. ASSUME NEW l \in Landed(i, pend, skip), MemberOf(p, l) = m PROVE FALSE
  <2>1. l \in 1..Size(p) /\ l # k
    BY <1>0, PhaseSize DEF Landed
  <2>2. l > k /\ ~LandsEarly(p, l)
    BY <1>1, <1>4, <2>1, TxIsolated
  <2>3. LandsEarly(p, l)
    BY <1>1, <2>1, <2>2 DEF Mid, MidOrder
  <2> QED
    BY <2>2, <2>3
<1> QED
  BY <1>3, <1>4 DEF Mid, MidStore

\* A ^ read finds the new value, once every write it would miss has landed.
LEMMA AfterIsTarget ==
  ASSUME NEW p, Good(p), NEW i, NEW nx, NEW pend, NEW skip, NEW pre, NEW st,
         Mid(p, i, nx, pend, skip, pre, st), NEW m \in Members,
         \A j \in 1..Size(p) : MemberOf(p, j) = m =>
           j < i /\ (j \in pend => KindOf(p, j) = "scalar")
  PROVE  ReadAfter(p, nx, st, m) = Target(p, i, nx, skip, pre)[m]
<1>0. i \in 1..(Size(p) + 1) /\ DOMAIN p.txs = 1..Size(p) /\ 1..(i-1) \subseteq 1..Size(p)
  BY PhaseSize DEF Mid, MidTypes
<1>1. \A k \in skip : KindOf(p, k) = "branch"
  BY DEF Mid, MidTypes
<1>2. CASE \E j \in 1..Size(p) : MemberOf(p, j) = m
  <2>0. PICK j \in 1..Size(p) : MemberOf(p, j) = m
    BY <1>2
  <2>1. \A k \in 1..Size(p) : MemberOf(p, k) = m => k = j
    BY <2>0, TxUnique
  <2>2. j \in 1..(i-1)
    BY <1>0, <2>0, PhaseSize
  <2>3. CASE KindOf(p, j) = "scalar"
    <3>1. j \notin skip
      BY <1>1, <2>3
    <3>2. ScalarTxs(p, m) = {j}
      BY <1>0, <2>0, <2>1, <2>3 DEF ScalarTxs
    <3>3. ReadAfter(p, nx, st, m) = nx[j]
      BY <3>2 DEF ReadAfter
    <3>4. Target(p, i, nx, skip, pre)[MemberOf(p, j)] = nx[j]
      BY <1>0, <2>2, <3>1, TargetOfTx
    <3> QED
      BY <2>0, <3>3, <3>4
  <2>4. CASE KindOf(p, j) # "scalar"
    <3>1. ReadAfter(p, nx, st, m) = st[m]
      BY <1>0, <2>1, <2>4 DEF ReadAfter, ScalarTxs
    <3>2. j \notin pend
      BY <2>0, <2>4
    <3>3. CASE j \in skip
      <4>1. \A k \in Landed(i, pend, skip) : MemberOf(p, k) # m
        BY <1>0, <2>1, <3>3 DEF Landed
      <4>2. \A k \in (1..(i-1)) \ skip : MemberOf(p, k) # m
        BY <1>0, <2>1, <3>3
      <4>3. st[m] = pre[m]
        BY <4>1 DEF Mid, MidStore
      <4> QED
        BY <3>1, <4>2, <4>3, TargetElsewhere
    <3>4. CASE j \notin skip
      <4>1. j \in Landed(i, pend, skip)
        BY <2>2, <3>2, <3>4 DEF Landed
      <4>2. st[m] = nx[j]
        BY <2>0, <4>1 DEF Mid, MidStore
      <4>3. Target(p, i, nx, skip, pre)[MemberOf(p, j)] = nx[j]
        BY <1>0, <2>2, <3>4, TargetOfTx
      <4> QED
        BY <2>0, <3>1, <4>2, <4>3
    <3> QED
      BY <3>3, <3>4
  <2> QED
    BY <2>3, <2>4
<1>3. CASE \A j \in 1..Size(p) : MemberOf(p, j) # m
  <2>1. \A k \in 1..(i-1) : MemberOf(p, k) # m
    BY <1>0, <1>3
  <2>2. st[m] = pre[m]
    BY <2>1 DEF Mid, MidStore, Landed
  <2>3. ReadAfter(p, nx, st, m) = st[m]
    BY <1>0, <1>3 DEF ReadAfter, ScalarTxs
  <2> QED
    BY <2>1, <2>2, <2>3, TargetElsewhere
<1> QED
  BY <1>2, <1>3

\* The transform at i is computed to what it is meant to be.
LEMMA ComputesIntended ==
  ASSUME NEW p, Good(p), NEW i \in 1..Size(p), NEW nx, NEW pend, NEW skip, NEW pre, NEW st,
         Mid(p, i, nx, pend, skip, pre, st), Early(p, i, pend, skip),
         \A k \in pend : ~Flushes(p, k, i)
  PROVE  Now(p, i, nx, st) = Intended(p, i, i, nx, skip, pre)
<1>0. pend \subseteq 1..(i-1) /\ 1..(i-1) \subseteq 1..Size(p)
      /\ \A k \in pend : ~InPlaceAt(p, k)
  BY PhaseSize DEF Mid, MidTypes
<1>1. ASSUME NEW m \in AfterOf(p, i), NEW j \in 1..Size(p), MemberOf(p, j) = m
      PROVE  j < i /\ (j \in pend => KindOf(p, j) = "scalar")
  <2>1. j < i
    BY <1>1, TxOrdered
  <2>2. ASSUME j \in pend PROVE KindOf(p, j) = "scalar"
    <3>1. MemberOf(p, j) \notin Maps
      BY <1>1, <2>1, <2>2, Landing
    <3>2. KindOf(p, j) \notin {"mapping", "branch", "push"}
      BY <1>0, <2>2, <3>1, TxKind
    <3> QED
      BY <3>2, TxTypes DEF Kinds
  <2> QED
    BY <2>1, <2>2
<1>2. ASSUME NEW m \in AfterOf(p, i)
      PROVE  ReadAfter(p, nx, st, m) = Target(p, i, nx, skip, pre)[m]
  <2>1. m \in Members
    BY TxTypes
  <2> QED
    BY <1>1, <2>1, AfterIsTarget
<1>3. [m \in AfterOf(p, i) |-> ReadAfter(p, nx, st, m)]
        = Only(Target(p, i, nx, skip, pre), AfterOf(p, i))
  BY <1>2 DEF Only
<1> QED
  BY <1>3, ReadsAreOld DEF Now, Intended

\* So is an `if` whose write fires late.
LEMMA WritesIntended ==
  ASSUME NEW p, Good(p), NEW i, NEW nx, NEW pend, NEW skip, NEW pre, NEW st,
         Mid(p, i, nx, pend, skip, pre, st), NEW k \in pend, LateAt(p, k)
  PROVE  Now(p, k, nx, st) = Intended(p, k, i, nx, skip, pre)
<1>0. i \in 1..(Size(p) + 1) /\ k \in 1..(i-1) /\ 1..(i-1) \subseteq 1..Size(p)
  BY PhaseSize DEF Mid, MidTypes
<1>1. ASSUME NEW m \in AfterOf(p, k), NEW j \in 1..Size(p), MemberOf(p, j) = m
      PROVE  j < i /\ (j \in pend => KindOf(p, j) = "scalar")
  <2>1. j < k
    BY <1>0, <1>1, TxOrdered
  <2>2. j \in 1..(i-1)
    BY <1>0, <2>1
  <2> QED
    BY <1>0, <1>1, <2>2 DEF Mid, MidAfter
<1>2. ASSUME NEW m \in AfterOf(p, k)
      PROVE  ReadAfter(p, nx, st, m) = Target(p, i, nx, skip, pre)[m]
  <2>1. m \in Members
    BY <1>0, TxTypes
  <2> QED
    BY <1>1, <2>1, AfterIsTarget
<1>3. [m \in AfterOf(p, k) |-> ReadAfter(p, nx, st, m)]
        = Only(Target(p, i, nx, skip, pre), AfterOf(p, k))
  BY <1>2 DEF Only
<1> QED
  BY <1>3, LateReadsAreOld DEF Now, Intended

(***************************************************************************)
(* Computing one more transform preserves Mid                              *)
(***************************************************************************)
Grown(nx, i, v) == [k \in 1..i |-> IF k = i THEN v ELSE nx[k]]

\* The locals computed so far keep their values when one more is computed.
LEMMA GrownFacts ==
  ASSUME NEW i \in Nat \ {0}, NEW nx, NEW v
  PROVE  /\ 1..((i+1)-1) = 1..i /\ 1..i = (1..(i-1)) \cup {i} /\ i \notin 1..(i-1)
         /\ Grown(nx, i, v)[i] = v
         /\ \A k \in 1..(i-1) : Grown(nx, i, v)[k] = nx[k]
BY DEF Grown

\* Computing one more value keeps every value a value.
LEMMA TypesGrow ==
  ASSUME NEW p, Good(p), NEW i \in 1..Size(p), NEW nx, NEW pend, NEW skip, NEW pre, NEW st,
         MidTypes(p, i, nx, pend, skip, pre, st),
         NEW v \in Values, NEW pend2, NEW skip2, NEW st2 \in [Members -> Values],
         pend \subseteq pend2, pend2 \subseteq pend \cup {i},
         skip \subseteq skip2, skip2 \subseteq skip \cup {i},
         i \in pend2 => ~InPlaceAt(p, i) /\ i \notin skip2,
         i \in skip2 => KindOf(p, i) = "branch"
  PROVE  MidTypes(p, i + 1, Grown(nx, i, v), pend2, skip2, pre, st2)
<1>0. i + 1 \in 1..(Size(p) + 1) /\ i \in Nat \ {0}
  BY PhaseSize
<1>1. 1..((i+1)-1) = 1..i /\ 1..i = (1..(i-1)) \cup {i} /\ i \notin 1..(i-1)
  BY <1>0, GrownFacts
<1>2. Grown(nx, i, v) \in [1..i -> Values]
  BY <1>1 DEF Grown, MidTypes
<1> QED
  BY <1>0, <1>1, <1>2 DEF MidTypes

\* Computing one more value disturbs no value that was already as intended.
LEMMA ValuesGrow ==
  ASSUME NEW p, Good(p), NEW i \in 1..Size(p), NEW nx, NEW pend, NEW skip, NEW pre, NEW st,
         MidTypes(p, i, nx, pend, skip, pre, st), MidValues(p, i, nx, pend, skip, pre),
         NEW v, NEW pend2, NEW skip2,
         pend \subseteq pend2, skip2 = skip \/ skip2 = skip \cup {i},
         i \notin skip2 /\ (i \in pend2 => ~LateAt(p, i))
           => v = Intended(p, i, i, nx, skip, pre)
  PROVE  MidValues(p, i + 1, Grown(nx, i, v), pend2, skip2, pre)
<1> DEFINE nx2 == Grown(nx, i, v)
<1>0. i \in Nat \ {0}
  BY PhaseSize
<1>1. 1..((i+1)-1) = 1..i /\ 1..i = (1..(i-1)) \cup {i} /\ i \notin 1..(i-1)
  BY <1>0, GrownFacts
<1>2. nx2[i] = v /\ \A k \in 1..(i-1) : nx2[k] = nx[k]
  BY <1>0, GrownFacts
<1>3. Extended(i, nx, nx2, skip, skip2)
  BY <1>2 DEF Extended, MidTypes
<1>4. \A k \in 1..i : Intended(p, k, i + 1, nx2, skip2, pre) = Intended(p, k, i, nx, skip, pre)
  BY <1>3, IntendedGrows
<1>5. ASSUME NEW k \in (1..i) \ skip2, k \in pend2 => ~LateAt(p, k)
      PROVE  nx2[k] = Intended(p, k, i, nx, skip, pre)
  <2>1. CASE k = i
    BY <1>2, <1>5, <2>1
  <2>2. CASE k # i
    <3>1. k \in (1..(i-1)) \ skip /\ (k \in pend => ~LateAt(p, k))
      BY <1>1, <1>5, <2>2
    <3> QED
      BY <1>2, <3>1 DEF MidValues
  <2> QED
    BY <2>1, <2>2
<1> HIDE DEF nx2
<1>6. MidValues(p, i + 1, nx2, pend2, skip2, pre)
  BY <1>1, <1>4, <1>5 DEF MidValues
<1> QED
  BY <1>6 DEF nx2

\* Computing one more value changes no ^ read of the transforms before it.
LEMMA AfterGrows ==
  ASSUME NEW p, Good(p), NEW i \in 1..Size(p), NEW pend,
         pend \subseteq 1..(i-1), \A k \in pend : ~InPlaceAt(p, k) /\ ~Flushes(p, k, i),
         MidAfter(p, i, pend), NEW pend2, pend2 \subseteq pend \cup {i}
  PROVE  MidAfter(p, i + 1, pend2)
<1>0. i \in Nat \ {0} /\ 1..i \subseteq 1..Size(p)
  BY PhaseSize
<1>1. 1..((i+1)-1) = 1..i /\ 1..i = (1..(i-1)) \cup {i}
  BY <1>0, GrownFacts
<1>2. ASSUME NEW j \in 1..i, NEW k \in 1..i, MemberOf(p, j) \in AfterOf(p, k), j \in pend2
      PROVE  KindOf(p, j) = "scalar"
  <2>1. j \in 1..Size(p) /\ k \in 1..Size(p)
    BY <1>0
  <2>2. j < k
    BY <1>2, <2>1, TxOrdered
  <2>3. j \in pend
    BY <1>0, <1>2, <2>2
  <2>4. CASE k = i
    <3>1. MemberOf(p, j) \notin Maps
      BY <1>2, <2>1, <2>2, <2>3, <2>4, Landing
    <3>2. KindOf(p, j) \notin {"mapping", "branch", "push"}
      BY <2>1, <2>3, <3>1, TxKind
    <3> QED
      BY <2>1, <3>2, TxTypes DEF Kinds
  <2>5. CASE k # i
    <3>1. j \in 1..(i-1) /\ k \in 1..(i-1)
      BY <1>1, <2>3, <2>5
    <3> QED
      BY <1>2, <2>3, <3>1 DEF MidAfter
  <2> QED
    BY <2>4, <2>5
<1> QED
  BY <1>1, <1>2 DEF MidAfter

\* The value waits in a local, or an `if` waits for its write to fire.
LEMMA MidDefers ==
  ASSUME NEW p, Good(p), NEW i \in 1..Size(p), NEW nx, NEW pend, NEW skip, NEW pre, NEW st,
         Mid(p, i, nx, pend, skip, pre, st), Early(p, i, pend, skip),
         \A k \in pend : ~Flushes(p, k, i),
         NEW v \in Values, ~InPlaceAt(p, i),
         LateAt(p, i) \/ v = Intended(p, i, i, nx, skip, pre)
  PROVE  /\ Mid(p, i + 1, Grown(nx, i, v), pend \cup {i}, skip, pre, st)
         /\ Early(p, i + 1, pend \cup {i}, skip)
<1> DEFINE nx2 == Grown(nx, i, v)
           pend2 == pend \cup {i}
<1>0. i \in Nat \ {0} /\ 1..i \subseteq 1..Size(p)
  BY PhaseSize
<1>1. /\ MidTypes(p, i, nx, pend, skip, pre, st) /\ pend \subseteq 1..(i-1)
      /\ skip \subseteq 1..(i-1) /\ \A k \in pend : ~InPlaceAt(p, k)
      /\ st \in [Members -> Values]
  BY DEF Mid, MidTypes
<1>2. /\ 1..((i+1)-1) = 1..i /\ 1..i = (1..(i-1)) \cup {i} /\ i \notin 1..(i-1)
      /\ \A k \in 1..(i-1) : nx2[k] = nx[k]
  BY <1>0, GrownFacts
<1>3. Landed(i + 1, pend2, skip) = Landed(i, pend, skip)
  BY <1>1, <1>2 DEF Landed
<1>4. Landed(i, pend, skip) \subseteq 1..(i-1)
  BY DEF Landed
<1>5. MidTypes(p, i + 1, nx2, pend2, skip, pre, st)
  BY <1>1, <1>2, TypesGrow
<1>6. MidStore(p, i + 1, nx2, pend2, skip, pre, st)
  <2> HIDE DEF nx2, pend2
  <2> QED
    BY <1>2, <1>3, <1>4 DEF Mid, MidStore
<1>7. MidValues(p, i + 1, nx2, pend2, skip, pre)
  BY <1>1, ValuesGrow DEF Mid
<1>8. MidAfter(p, i + 1, pend2)
  BY <1>1, AfterGrows DEF Mid
<1>9. MidOrder(p, i + 1, pend2, skip)
  <2> SUFFICES ASSUME NEW k \in Landed(i, pend, skip), NEW j \in pend2, j < k
               PROVE  LandsEarly(p, k)
    BY <1>3 DEF MidOrder
  <2>1. j # i
    BY <1>0, <1>4
  <2> QED
    BY <2>1 DEF Mid, MidOrder
<1>10. Early(p, i + 1, pend2, skip)
  <2> SUFFICES ASSUME NEW k \in Landed(i, pend, skip) PROVE LandsBefore(p, k, i + 1)
    BY <1>3 DEF Early
  <2>1. k \in 1..Size(p) /\ LandsBefore(p, k, i)
    BY <1>0, <1>2, <1>4 DEF Early
  <2> QED
    BY <2>1, Landing
<1> QED
  BY <1>5, <1>6, <1>7, <1>8, <1>9, <1>10 DEF Mid

\* The condition of an `if` was false.
LEMMA MidSkips ==
  ASSUME NEW p, Good(p), NEW i \in 1..Size(p), NEW nx, NEW pend, NEW skip, NEW pre, NEW st,
         Mid(p, i, nx, pend, skip, pre, st), Early(p, i, pend, skip),
         \A k \in pend : ~Flushes(p, k, i),
         NEW v \in Values, KindOf(p, i) = "branch"
  PROVE  /\ Mid(p, i + 1, Grown(nx, i, v), pend, skip \cup {i}, pre, st)
         /\ Early(p, i + 1, pend, skip \cup {i})
<1> DEFINE nx2 == Grown(nx, i, v)
           skip2 == skip \cup {i}
<1>0. i \in Nat \ {0} /\ 1..i \subseteq 1..Size(p)
  BY PhaseSize
<1>1. /\ MidTypes(p, i, nx, pend, skip, pre, st) /\ pend \subseteq 1..(i-1)
      /\ skip \subseteq 1..(i-1) /\ \A k \in pend : ~InPlaceAt(p, k)
      /\ st \in [Members -> Values]
  BY DEF Mid, MidTypes
<1>2. /\ 1..((i+1)-1) = 1..i /\ 1..i = (1..(i-1)) \cup {i} /\ i \notin 1..(i-1)
      /\ \A k \in 1..(i-1) : nx2[k] = nx[k]
  BY <1>0, GrownFacts
<1>3. Landed(i + 1, pend, skip2) = Landed(i, pend, skip)
  BY <1>1, <1>2 DEF Landed
<1>4. Landed(i, pend, skip) \subseteq 1..(i-1)
  BY DEF Landed
<1>5. MidTypes(p, i + 1, nx2, pend, skip2, pre, st)
  BY <1>1, <1>2, TypesGrow
<1>6. MidStore(p, i + 1, nx2, pend, skip2, pre, st)
  <2> HIDE DEF nx2, skip2
  <2> QED
    BY <1>2, <1>3, <1>4 DEF Mid, MidStore
<1>7. MidValues(p, i + 1, nx2, pend, skip2, pre)
  BY <1>1, ValuesGrow DEF Mid
<1>8. MidAfter(p, i + 1, pend)
  BY <1>1, AfterGrows DEF Mid
<1>9. MidOrder(p, i + 1, pend, skip2)
  BY <1>3 DEF Mid, MidOrder
<1>10. Early(p, i + 1, pend, skip2)
  <2> SUFFICES ASSUME NEW k \in Landed(i, pend, skip) PROVE LandsBefore(p, k, i + 1)
    BY <1>3 DEF Early
  <2>1. k \in 1..Size(p) /\ LandsBefore(p, k, i)
    BY <1>0, <1>2, <1>4 DEF Early
  <2> QED
    BY <2>1, Landing
<1> QED
  BY <1>5, <1>6, <1>7, <1>8, <1>9, <1>10 DEF Mid

\* The value is written where it is computed.
LEMMA MidWritesInPlace ==
  ASSUME NEW p, Good(p), NEW i \in 1..Size(p), NEW nx, NEW pend, NEW skip, NEW pre, NEW st,
         Mid(p, i, nx, pend, skip, pre, st), Early(p, i, pend, skip),
         \A k \in pend : ~Flushes(p, k, i),
         NEW v \in Values, InPlaceAt(p, i), v = Intended(p, i, i, nx, skip, pre)
  PROVE  /\ Mid(p, i + 1, Grown(nx, i, v), pend, skip, pre, [st EXCEPT ![MemberOf(p, i)] = v])
         /\ Early(p, i + 1, pend, skip)
<1> DEFINE nx2 == Grown(nx, i, v)
           st2 == [st EXCEPT ![MemberOf(p, i)] = v]
           L == Landed(i, pend, skip)
<1>0. i \in Nat \ {0} /\ 1..i \subseteq 1..Size(p)
  BY PhaseSize
<1>1. /\ MidTypes(p, i, nx, pend, skip, pre, st) /\ pend \subseteq 1..(i-1)
      /\ skip \subseteq 1..(i-1) /\ \A k \in pend : ~InPlaceAt(p, k)
      /\ st \in [Members -> Values]
  BY DEF Mid, MidTypes
<1>2. /\ 1..((i+1)-1) = 1..i /\ 1..i = (1..(i-1)) \cup {i} /\ i \notin 1..(i-1)
      /\ nx2[i] = v /\ \A k \in 1..(i-1) : nx2[k] = nx[k]
  BY <1>0, GrownFacts
<1>3. Landed(i + 1, pend, skip) = L \cup {i}
  BY <1>1, <1>2 DEF Landed
<1>4. L \subseteq 1..(i-1)
  BY DEF Landed
<1>5. MemberOf(p, i) \in Members /\ \A k \in L : MemberOf(p, k) # MemberOf(p, i)
  <2>1. \A k \in L : k \in 1..Size(p) /\ k # i
    BY <1>0, <1>2, <1>4
  <2> QED
    BY <2>1, TxTypes, TxUnique
<1>6. /\ st2 \in [Members -> Values] /\ st2[MemberOf(p, i)] = v
      /\ \A m \in Members : m # MemberOf(p, i) => st2[m] = st[m]
  BY <1>1, <1>5
<1>7. MidTypes(p, i + 1, nx2, pend, skip, pre, st2)
  BY <1>1, <1>2, <1>6, TypesGrow
<1>8. MidStore(p, i + 1, nx2, pend, skip, pre, st2)
  <2> HIDE DEF nx2, st2, L
  <2>1. \A k \in L \cup {i} : st2[MemberOf(p, k)] = nx2[k]
    <3>1. ASSUME NEW k \in L PROVE st2[MemberOf(p, k)] = nx2[k]
      <4>1. k \in 1..Size(p)
        BY <1>0, <1>2, <1>4
      <4>2. MemberOf(p, k) \in Members
        BY <4>1, TxTypes
      <4>3. st[MemberOf(p, k)] = nx[k]
        BY DEF Mid, MidStore, L
      <4> QED
        BY <1>2, <1>4, <1>5, <1>6, <4>2, <4>3
    <3> QED
      BY <1>2, <1>6, <3>1
  <2>2. ASSUME NEW m \in Members, \A k \in L \cup {i} : MemberOf(p, k) # m
        PROVE  st2[m] = pre[m]
    <3>1. st[m] = pre[m]
      BY <2>2 DEF Mid, MidStore, L
    <3> QED
      BY <1>6, <2>2, <3>1
  <2> QED
    BY <1>3, <2>1, <2>2 DEF MidStore
<1>9. MidValues(p, i + 1, nx2, pend, skip, pre)
  BY <1>1, ValuesGrow DEF Mid
<1>10. MidAfter(p, i + 1, pend)
  BY <1>1, AfterGrows DEF Mid
<1>11. MidOrder(p, i + 1, pend, skip)
  <2>1. LandsEarly(p, i)
    BY Landing
  <2> QED
    BY <1>3, <2>1 DEF Mid, MidOrder
<1>12. Early(p, i + 1, pend, skip)
  <2>1. LandsBefore(p, i, i + 1)
    BY Landing
  <2>2. ASSUME NEW k \in L PROVE LandsBefore(p, k, i + 1)
    <3>1. k \in 1..Size(p) /\ LandsBefore(p, k, i)
      BY <1>0, <1>2, <1>4 DEF Early
    <3> QED
      BY <3>1, Landing
  <2> QED
    BY <1>3, <2>1, <2>2 DEF Early
<1> QED
  BY <1>7, <1>8, <1>9, <1>10, <1>11, <1>12 DEF Mid

(***************************************************************************)
(* A pending write preserves Mid                                           *)
(***************************************************************************)
\* The write of k settles a value nobody has read, and moves only its member.
LEMMA FiredTarget ==
  ASSUME NEW p, Good(p), NEW i, NEW nx, NEW pend, NEW skip, NEW pre, NEW st,
         Mid(p, i, nx, pend, skip, pre, st), NEW k \in pend, NEW v,
         LateAt(p, k) \/ v = nx[k], NEW l \in 1..(i-1)
  PROVE  Intended(p, l, i, [nx EXCEPT ![k] = v], skip, pre) = Intended(p, l, i, nx, skip, pre)
<1> DEFINE nx2 == [nx EXCEPT ![k] = v]
<1>0. /\ i \in 1..(Size(p) + 1) /\ k \in 1..(i-1) /\ k \notin skip
      /\ 1..(i-1) \subseteq 1..Size(p) /\ nx \in [1..(i-1) -> Values]
  BY PhaseSize DEF Mid, MidTypes
<1>1. nx2[k] = v /\ \A j \in 1..(i-1) : j # k => nx2[j] = nx[j]
  BY <1>0
<1>2. ASSUME NEW m \in AfterOf(p, l)
      PROVE  Target(p, i, nx2, skip, pre)[m] = Target(p, i, nx, skip, pre)[m]
  <2> HIDE DEF nx2
  <2>0. m \in Members
    BY <1>0, TxTypes
  <2>1. CASE \E j \in (1..(i-1)) \ skip : MemberOf(p, j) = m
    <3>1. PICK j \in (1..(i-1)) \ skip : MemberOf(p, j) = m
      BY <2>1
    <3>2. Target(p, i, nx2, skip, pre)[m] = nx2[j] /\ Target(p, i, nx, skip, pre)[m] = nx[j]
      BY <1>0, <3>1, TargetOfTx
    <3>3. CASE j = k
      <4>1. KindOf(p, k) = "scalar"
        BY <1>0, <3>1, <3>3 DEF Mid, MidAfter
      <4>2. ~LateAt(p, k)
        BY <1>0, <4>1, TxKind
      <4> QED
        BY <1>1, <3>2, <3>3, <4>2
    <3>4. CASE j # k
      BY <1>1, <3>2, <3>4
    <3> QED
      BY <3>3, <3>4
  <2>2. CASE \A j \in (1..(i-1)) \ skip : MemberOf(p, j) # m
    BY <2>0, <2>2, TargetElsewhere
  <2> QED
    BY <2>1, <2>2
<1> QED
  BY <1>2 DEF Intended, Only

\* The middle of a phase survives a pending write, the transform's value going to
\* storage in the order of the body (the flushes and the commits).
LEMMA MidFires ==
  ASSUME NEW p, Good(p), NEW i, NEW nx, NEW pend, NEW skip, NEW pre, NEW st,
         Mid(p, i, nx, pend, skip, pre, st), NEW k \in pend,
         (\A j \in pend : k <= j) \/ LandsEarly(p, k),
         NEW v \in Values,
         IF LateAt(p, k) THEN v = Intended(p, k, i, nx, skip, pre) ELSE v = nx[k]
  PROVE  Mid(p, i, [nx EXCEPT ![k] = v], pend \ {k}, skip, pre,
             [st EXCEPT ![MemberOf(p, k)] = v])
<1> DEFINE nx2 == [nx EXCEPT ![k] = v]
           st2 == [st EXCEPT ![MemberOf(p, k)] = v]
           pend2 == pend \ {k}
           L == Landed(i, pend, skip)
<1>0. /\ i \in 1..(Size(p) + 1) /\ k \in 1..(i-1) /\ k \notin skip
      /\ 1..(i-1) \subseteq 1..Size(p) /\ nx \in [1..(i-1) -> Values]
      /\ st \in [Members -> Values] /\ pend \subseteq 1..(i-1)
  BY PhaseSize DEF Mid, MidTypes
<1>1. /\ nx2 \in [1..(i-1) -> Values]
      /\ nx2[k] = v /\ \A j \in 1..(i-1) : j # k => nx2[j] = nx[j]
  BY <1>0
<1>2. Landed(i, pend2, skip) = L \cup {k} /\ L \subseteq 1..(i-1) /\ k \notin L
  BY <1>0 DEF Landed
<1>3. MemberOf(p, k) \in Members /\ \A l \in L : MemberOf(p, l) # MemberOf(p, k)
  <2>1. k \in 1..Size(p) /\ \A l \in L : l \in 1..Size(p) /\ l # k
    BY <1>0, <1>2
  <2> HIDE DEF L
  <2> QED
    BY <2>1, TxTypes, TxUnique
<1>4. /\ st2 \in [Members -> Values] /\ st2[MemberOf(p, k)] = v
      /\ \A m \in Members : m # MemberOf(p, k) => st2[m] = st[m]
  BY <1>0, <1>3
<1>5. MidTypes(p, i, nx2, pend2, skip, pre, st2)
  BY <1>1, <1>4 DEF Mid, MidTypes
<1>6. MidStore(p, i, nx2, pend2, skip, pre, st2)
  <2> HIDE DEF nx2, st2, L, pend2
  <2>1. ASSUME NEW l \in L PROVE st2[MemberOf(p, l)] = nx2[l]
    <3>1. MemberOf(p, l) \in Members
      BY <1>0, <1>2, TxTypes
    <3>2. st[MemberOf(p, l)] = nx[l]
      BY DEF Mid, MidStore, L
    <3> QED
      BY <1>1, <1>2, <1>3, <1>4, <3>1, <3>2
  <2>2. ASSUME NEW m \in Members, \A l \in L \cup {k} : MemberOf(p, l) # m
        PROVE  st2[m] = pre[m]
    <3>1. st[m] = pre[m]
      BY <2>2 DEF Mid, MidStore, L
    <3> QED
      BY <1>4, <2>2, <3>1
  <2> QED
    BY <1>1, <1>2, <1>4, <2>1, <2>2 DEF MidStore
<1>7. MidValues(p, i, nx2, pend2, skip, pre)
  <2>1. \A l \in 1..(i-1) : Intended(p, l, i, nx2, skip, pre) = Intended(p, l, i, nx, skip, pre)
    BY FiredTarget
  <2>2. ASSUME NEW l \in (1..(i-1)) \ skip, l \in pend2 => ~LateAt(p, l)
        PROVE  nx2[l] = Intended(p, l, i, nx, skip, pre)
    <3>1. CASE l = k /\ LateAt(p, k)
      BY <1>1, <3>1
    <3>2. CASE ~(l = k /\ LateAt(p, k))
      <4>1. l \in pend => ~LateAt(p, l)
        BY <2>2, <3>2
      <4>2. nx[l] = Intended(p, l, i, nx, skip, pre)
        BY <4>1 DEF Mid, MidValues
      <4>3. nx2[l] = nx[l]
        BY <1>1, <3>2
      <4> QED
        BY <4>2, <4>3
    <3> QED
      BY <3>1, <3>2
  <2> HIDE DEF nx2, pend2
  <2> QED
    BY <2>1, <2>2 DEF MidValues
<1>8. MidAfter(p, i, pend2)
  BY DEF Mid, MidAfter
<1>9. MidOrder(p, i, pend2, skip)
  <2>1. ASSUME NEW j \in pend2, j < k PROVE LandsEarly(p, k)
    BY <1>0, <2>1
  <2> QED
    BY <1>2, <2>1 DEF Mid, MidOrder
<1> QED
  BY <1>5, <1>6, <1>7, <1>8, <1>9 DEF Mid

\* A flush does not spoil Early.
LEMMA EarlyFires ==
  ASSUME NEW p, Good(p), NEW i \in 1..Size(p), NEW pend, NEW skip, Early(p, i, pend, skip),
         NEW k \in 1..Size(p), Flushes(p, k, i)
  PROVE  Early(p, i, pend \ {k}, skip)
<1>1. LandsBefore(p, k, i)
  BY Landing
<1>2. Landed(i, pend \ {k}, skip) \subseteq Landed(i, pend, skip) \cup {k}
  BY DEF Landed
<1> QED
  BY <1>1, <1>2 DEF Early

-----------------------------------------------------------------------------
\* The hypothesis of the theorems: the entity's phases are isolated.
IsolatedEntities == \A p \in AllPhases : Isolated(p)

(***************************************************************************)
(* The inductive invariant                                                 *)
(***************************************************************************)
PhaseAt(e, f) == e[f.route][f.ph]

\* A frame inside its member transforms is in Mid, and computes before it commits.
Underway(p, f, st) ==
  /\ f.stage \in {"compute", "commit"} =>
       Mid(p, f.i, f.next, f.pending, f.skipped, f.pre, st)
  /\ f.stage = "compute" => Early(p, f.i, f.pending, f.skipped)
  /\ f.stage = "commit" => f.i = Size(p) + 1

\* Its snapshots, and what a statement handed out, show the start of the phase.
Faithful(p, f) ==
  /\ f.stage # "compute" =>
       /\ DOMAIN f.snap = SnapshotReads(p)
       /\ \A m \in SnapshotReads(p) : f.snap[m] = f.pre[m]
  /\ f.stage = "calling" => \A m \in DOMAIN f.args \cap Committed(p) : f.args[m] = f.pre[m]

\* Of any phase: its locals are values, declared by the transforms computed.
Shape(p, f) ==
  f.stage \in {"compute", "commit"} =>
    /\ f.i \in 1..(Size(p) + 1)
    /\ f.next \in [1..(f.i-1) -> Values]
    /\ f.pending \subseteq 1..(f.i-1)

FrameInv(e, st, f) ==
  /\ Shape(PhaseAt(e, f), f)
  /\ Isolated(PhaseAt(e, f)) => Underway(PhaseAt(e, f), f, st) /\ Faithful(PhaseAt(e, f), f)

\* A frame is at a phase of its route.
Placed(e, f) == f \in Frames /\ f.ph \in DOMAIN e[f.route]

StackInv(e, st, s) ==
  /\ s \in Seq(Frames)
  /\ \A d \in 1..Len(s) :
       /\ Placed(e, s[d])
       /\ s[d].stage \in {"compute", "commit"} => d = Len(s)
       /\ s[d].internal => d > 1
       /\ FrameInv(e, st, s[d])

IInv ==
  /\ entity \in Entities
  /\ store \in Stores
  /\ origin \in Stores
  /\ entries \in Nat
  /\ outcome \in {"none", "ok", "reverted"}
  /\ StackInv(entity, store, stack)

(***************************************************************************)
(* Phases of the entity                                                    *)
(***************************************************************************)
\* Every phase of an entity is what the facts about one assume.
LEMMA PhaseIsSound ==
  ASSUME NEW e \in Entities, NEW r \in RouteNames, NEW q \in DOMAIN e[r]
  PROVE  Sound(e[r][q]) /\ e[r][q] \in AllPhases
<1>1. e[r][q] \in AllPhases
  <2>1. e[r][q] \in { e[r][x] : x \in DOMAIN e[r] }
    OBVIOUS
  <2>2. e[r][q] \in PhasesOf(e)
    BY <2>1 DEF PhasesOf
  <2> QED
    BY <2>2 DEF AllPhases
<1>2. e[r] \in Seq(Phases)
  BY EntitiesAssumption
<1>3. e[r][q] \in Phases
  BY <1>2
<1>4. WellFormed(e[r][q])
  BY <1>1, EntitiesAssumption
<1>6. \A p \in AllPhases : \A k \in DOMAIN p.txs :
       \A plain \in [p.txs[k].reads -> Values], next \in [p.txs[k].after -> Values] :
         Eval(p.txs[k], plain, next) \in Values
  BY ValuesAssumption
<1>7. \A k \in DOMAIN e[r][q].txs :
       \A plain \in [e[r][q].txs[k].reads -> Values], next \in [e[r][q].txs[k].after -> Values] :
         Eval(e[r][q].txs[k], plain, next) \in Values
  BY <1>1, <1>6, Zenon
<1> QED
  BY <1>1, <1>3, <1>4, <1>7 DEF Sound

\* A frame's phase is what the facts about one assume.
LEMMA FramePhase ==
  ASSUME NEW e \in Entities, NEW f, Placed(e, f)
  PROVE  /\ Sound(PhaseAt(e, f)) /\ PhaseAt(e, f) \in AllPhases
         /\ Isolated(PhaseAt(e, f)) => Good(PhaseAt(e, f)) /\ EffectsIsolated(PhaseAt(e, f))
         /\ f.i \in Nat \ {0} /\ f.entry \in Stores /\ f.pre \in Stores
<1>1. f.route \in RouteNames /\ f.i \in Nat \ {0} /\ f.entry \in Stores /\ f.pre \in Stores
  BY DEF Placed, Frames
<1>2. Sound(PhaseAt(e, f)) /\ PhaseAt(e, f) \in AllPhases
  BY <1>1, PhaseIsSound DEF Placed, PhaseAt
<1> QED
  BY <1>1, <1>2 DEF Good, Isolated

(***************************************************************************)
(* The stack                                                               *)
(***************************************************************************)
LEMMA LastReplaced ==
  ASSUME NEW s \in Seq(Frames), s # << >>, NEW f \in Frames
  PROVE  LET s2 == [s EXCEPT ![Len(s)] = f]
         IN  /\ s2 \in Seq(Frames)
             /\ Len(s2) = Len(s)
             /\ s2[Len(s)] = f
             /\ \A d \in 1..(Len(s) - 1) : s2[d] = s[d]
  OBVIOUS

\* Pushing a frame leaves the frames below it.
LEMMA LastAppended ==
  ASSUME NEW s \in Seq(Frames), NEW f \in Frames
  PROVE  LET s2 == Append(s, f)
         IN  /\ s2 \in Seq(Frames)
             /\ Len(s2) = Len(s) + 1
             /\ s2[Len(s) + 1] = f
             /\ \A d \in 1..Len(s) : s2[d] = s[d]
  OBVIOUS

\* Popping a frame leaves the frames below it.
LEMMA LastDropped ==
  ASSUME NEW s \in Seq(Frames), s # << >>
  PROVE  LET s2 == SubSeq(s, 1, Len(s) - 1)
         IN  /\ s2 \in Seq(Frames)
             /\ Len(s2) = Len(s) - 1
             /\ \A d \in 1..(Len(s) - 1) : s2[d] = s[d]
  OBVIOUS

\* A frame outside its member transforms does not mind what happens to storage.
LEMMA FrameStays ==
  ASSUME NEW e, NEW st, NEW st2, NEW f, FrameInv(e, st, f), f.stage \notin {"compute", "commit"}
  PROVE  FrameInv(e, st2, f)
BY DEF FrameInv, Shape, Underway

\* The frame on top is replaced by another at a phase of its route.
LEMMA TopReplaced ==
  ASSUME NEW e, NEW st, NEW st2, NEW s, StackInv(e, st, s), s # << >>,
         NEW f, Placed(e, f), f.internal = s[Len(s)].internal, FrameInv(e, st2, f)
  PROVE  StackInv(e, st2, [s EXCEPT ![Len(s)] = f])
<1> DEFINE s2 == [s EXCEPT ![Len(s)] = f]
           n == Len(s)
<1>0. s \in Seq(Frames) /\ n \in Nat \ {0} /\ f \in Frames
  BY DEF StackInv, Placed
<1>1. /\ s2 \in Seq(Frames) /\ Len(s2) = n /\ s2[n] = f
      /\ \A d \in 1..(n - 1) : s2[d] = s[d]
  BY <1>0, LastReplaced
<1>2. s[n].internal => n > 1
  BY <1>0 DEF StackInv
<1> HIDE DEF s2
<1>3. ASSUME NEW d \in 1..n
      PROVE  /\ Placed(e, s2[d])
             /\ s2[d].stage \in {"compute", "commit"} => d = n
             /\ s2[d].internal => d > 1
             /\ FrameInv(e, st2, s2[d])
  <2>1. CASE d = n
    BY <1>1, <1>2, <2>1
  <2>2. CASE d # n
    <3>1. s2[d] = s[d]
      BY <1>0, <1>1, <2>2
    <3>2. /\ Placed(e, s[d]) /\ s[d].stage \notin {"compute", "commit"}
          /\ s[d].internal => d > 1
          /\ FrameInv(e, st, s[d])
      BY <2>2 DEF StackInv
    <3>3. FrameInv(e, st2, s[d])
      BY <3>2, FrameStays
    <3> QED
      BY <3>1, <3>2, <3>3
  <2> QED
    BY <2>1, <2>2
<1>4. StackInv(e, st2, s2)
  BY <1>1, <1>3 DEF StackInv
<1> QED
  BY <1>4 DEF s2

\* A frame is entered while the one below is outside its member transforms.
LEMMA FramePushed ==
  ASSUME NEW e, NEW st, NEW s, StackInv(e, st, s),
         s # << >> => s[Len(s)].stage \notin {"compute", "commit"},
         NEW f, Placed(e, f), f.internal => s # << >>, FrameInv(e, st, f)
  PROVE  StackInv(e, st, Append(s, f))
<1> DEFINE s2 == Append(s, f)
           n == Len(s)
<1>0. s \in Seq(Frames) /\ n \in Nat /\ f \in Frames /\ (s # << >> => n > 0)
  BY DEF StackInv, Placed
<1>1. /\ s2 \in Seq(Frames) /\ Len(s2) = n + 1 /\ s2[n + 1] = f
      /\ \A d \in 1..n : s2[d] = s[d]
  BY <1>0, LastAppended
<1> HIDE DEF s2
<1>3. ASSUME NEW d \in 1..(n + 1)
      PROVE  /\ Placed(e, s2[d])
             /\ s2[d].stage \in {"compute", "commit"} => d = n + 1
             /\ s2[d].internal => d > 1
             /\ FrameInv(e, st, s2[d])
  <2>1. CASE d = n + 1
    BY <1>0, <1>1, <2>1
  <2>2. CASE d # n + 1
    <3>1. d \in 1..n /\ s2[d] = s[d]
      BY <1>0, <1>1, <2>2
    <3>2. /\ Placed(e, s[d])
          /\ s[d].stage \in {"compute", "commit"} => d = n
          /\ s[d].internal => d > 1
          /\ FrameInv(e, st, s[d])
      BY <3>1 DEF StackInv
    <3>3. s # << >>
      <4>1. n > 0
        BY <1>0, <3>1
      <4>2. s = << >> => n = 0
        OBVIOUS
      <4> QED
        BY <4>1, <4>2
    <3>4. s[n].stage \notin {"compute", "commit"}
      BY <3>3
    <3>5. s[d].stage \notin {"compute", "commit"}
      BY <3>2, <3>4
    <3> QED
      BY <3>1, <3>2, <3>5
  <2> QED
    BY <2>1, <2>2
<1>4. StackInv(e, st, s2)
  BY <1>1, <1>3 DEF StackInv
<1> QED
  BY <1>4 DEF s2

\* The frame on top leaves.
LEMMA FramePopped ==
  ASSUME NEW e, NEW st, NEW st2, NEW s, StackInv(e, st, s), s # << >>
  PROVE  LET s2 == SubSeq(s, 1, Len(s) - 1)
         IN  /\ StackInv(e, st2, s2) /\ Len(s2) = Len(s) - 1
             /\ s2 # << >> => s2[Len(s2)].stage \notin {"compute", "commit"}
<1> DEFINE s2 == SubSeq(s, 1, Len(s) - 1)
           n == Len(s)
<1>0. s \in Seq(Frames) /\ n \in Nat \ {0}
  BY DEF StackInv
<1>1. /\ s2 \in Seq(Frames) /\ Len(s2) = n - 1 /\ \A d \in 1..(n - 1) : s2[d] = s[d]
  BY <1>0, LastDropped
<1> HIDE DEF s2
<1>3. ASSUME NEW d \in 1..(n - 1)
      PROVE  /\ Placed(e, s2[d])
             /\ s2[d].stage \notin {"compute", "commit"}
             /\ s2[d].internal => d > 1
             /\ FrameInv(e, st2, s2[d])
  <2>1. d \in 1..n /\ d # n /\ s2[d] = s[d]
    BY <1>0, <1>1
  <2>2. /\ Placed(e, s[d]) /\ s[d].stage \notin {"compute", "commit"}
        /\ s[d].internal => d > 1
        /\ FrameInv(e, st, s[d])
    BY <2>1 DEF StackInv
  <2>3. FrameInv(e, st2, s[d])
    BY <2>2, FrameStays
  <2> QED
    BY <2>1, <2>2, <2>3
<1>4. StackInv(e, st2, s2)
  BY <1>1, <1>3 DEF StackInv
<1>5. s2 # << >> => s2[Len(s2)].stage \notin {"compute", "commit"}
  <2> HAVE s2 # << >>
  <2>1. n - 1 \in 1..(n - 1)
    BY <1>0, <1>1
  <2> QED
    BY <1>1, <1>3, <2>1
<1> QED
  BY <1>1, <1>4, <1>5 DEF s2

(***************************************************************************)
(* One step of a frame                                                     *)
(***************************************************************************)
\* f2 is f further on: the same call, in the same phase.
SameCall(f, f2) ==
  /\ f2 \in Frames
  /\ f2.route = f.route /\ f2.ph = f.ph /\ f2.internal = f.internal /\ f2.entry = f.entry
  /\ f2.pre = f.pre

\* The same frame, still in the stage it was in.
SameStage(f, f2) == SameCall(f, f2) /\ f2.stage = f.stage

\* A frame of the same call is where it was, at the same phase.
LEMMA SamePhase ==
  ASSUME NEW e, NEW f, Placed(e, f), NEW f2, SameCall(f, f2)
  PROVE  Placed(e, f2) /\ PhaseAt(e, f2) = PhaseAt(e, f)
BY DEF Placed, SameCall, PhaseAt

\* The emitted reads are those of the facts about one phase.
LEMMA EvalIsNow ==
  ASSUME NEW f, NEW k
  PROVE  /\ EvalNow(f, Tx(f, k)) = Now(PhaseAt(entity, f), k, f.next, store)
         /\ Phase(f) = PhaseAt(entity, f)
BY DEF EvalNow, Tx, Now, Body, Only, ReadsOf, AfterOf, AfterValue, ScalarsOf, ReadAfter,
       ScalarTxs, Phase, PhaseAt, MemberOf, KindOf

\* A sequence stays one when an element changes.
LEMMA SeqUpdated ==
  ASSUME NEW s \in Seq(Values), NEW k \in Nat, NEW v \in Values
  PROVE  [s EXCEPT ![k] = v] \in Seq(Values)
<1>1. PICK n \in Nat : s \in [1..n -> Values]
  <2>1. Len(s) \in Nat /\ s \in [1..Len(s) -> Values]
    OBVIOUS
  <2> QED
    BY <2>1
<1>2. [s EXCEPT ![k] = v] \in [1..n -> Values]
  BY <1>1
<1> DEFINE t == [s EXCEPT ![k] = v]
<1> HIDE DEF t
<1>3. t \in Seq(Values)
  BY <1>2, SeqDef DEF t
<1> QED
  BY <1>3 DEF t

\* The frame a write leaves behind.
LEMMA FiredFields ==
  ASSUME NEW f \in Frames, NEW k \in Nat, NEW v \in Values
  PROVE  LET f2 == Fired(f, k, v)
         IN  /\ SameCall(f, f2)
             /\ f2.next = [f.next EXCEPT ![k] = v] /\ f2.pending = f.pending \ {k}
             /\ f2.stage = f.stage /\ f2.i = f.i /\ f2.skipped = f.skipped
             /\ f2.snap = f.snap /\ f2.args = f.args
<1> DEFINE nx2 == [f.next EXCEPT ![k] = v]
           pend2 == f.pending \ {k}
           f2 == Fired(f, k, v)
<1>1. f2 = [f EXCEPT !.next = nx2, !.pending = pend2]
  BY DEF Fired
<1>2. f.next \in Seq(Values) /\ f.pending \subseteq Nat
  BY DEF Frames
<1>3. nx2 \in Seq(Values) /\ pend2 \in SUBSET Nat
  BY <1>2, SeqUpdated
<1> HIDE DEF nx2, pend2, f2
<1>4. f2.next = nx2 /\ f2.pending = pend2
  BY <1>1 DEF Frames
<1>5. SameCall(f, f2)
  BY <1>1, <1>3 DEF Frames, SameCall
<1>6. /\ f2.stage = f.stage /\ f2.i = f.i /\ f2.skipped = f.skipped
      /\ f2.snap = f.snap /\ f2.args = f.args
  BY <1>1 DEF Frames
<1> QED
  BY <1>4, <1>5, <1>6 DEF nx2, pend2, f2

\* A pending write at an isolated phase keeps the locals, the pending writes and
\* storage related.
LEMMA IsolatedWrites ==
  ASSUME NEW e \in Entities, NEW f, Placed(e, f), NEW st \in Stores,
         Isolated(PhaseAt(e, f)), FrameInv(e, st, f), NEW k \in f.pending,
         \/ f.stage = "commit" /\ \A j \in f.pending : k <= j
         \/ f.stage = "compute" /\ f.i <= Size(PhaseAt(e, f)) /\ Flushes(PhaseAt(e, f), k, f.i),
         NEW v, v = IF LateAt(PhaseAt(e, f), k) THEN Now(PhaseAt(e, f), k, f.next, st)
                                                ELSE f.next[k],
         NEW f2, f2 = Fired(f, k, v),
         NEW st2, st2 = [st EXCEPT ![MemberOf(PhaseAt(e, f), k)] = v]
  PROVE  Underway(PhaseAt(e, f), f2, st2) /\ Faithful(PhaseAt(e, f), f2)
<1> DEFINE p == PhaseAt(e, f)
<1>1. Good(p) /\ f.i \in Nat \ {0} /\ f \in Frames
  BY FramePhase DEF Placed
<1>2. /\ Mid(p, f.i, f.next, f.pending, f.skipped, f.pre, st)
      /\ f.stage = "compute" => Early(p, f.i, f.pending, f.skipped)
  BY DEF FrameInv, Underway
<1>3. /\ f.i \in 1..(Size(p) + 1) /\ f.next \in [1..(f.i-1) -> Values]
      /\ f.pending \subseteq 1..(f.i-1) /\ f.pre \in [Members -> Values]
      /\ 1..(f.i-1) \subseteq 1..Size(p) /\ st \in [Members -> Values]
  BY <1>1, <1>2, PhaseSize DEF Mid, MidTypes
<1> HIDE DEF p
<1>4. IF LateAt(p, k) THEN v = Intended(p, k, f.i, f.next, f.skipped, f.pre)
                      ELSE v = f.next[k]
  BY <1>1, <1>2, WritesIntended DEF p
<1>5. v \in Values
  BY <1>1, <1>3, <1>4, IntendedType
<1>6. LandsEarly(p, k) \/ \A j \in f.pending : k <= j
  <2>1. CASE f.stage = "compute"
    <3>1. f.i \in 1..Size(p) /\ Flushes(p, k, f.i)
      BY <1>1, <1>3, <2>1, PhaseSize DEF p
    <3> QED
      BY <1>1, <1>3, <3>1, Landing
  <2> QED
    BY <2>1
<1>7. /\ f2 \in Frames /\ SameCall(f, f2)
      /\ f2.next = [f.next EXCEPT ![k] = v] /\ f2.pending = f.pending \ {k}
      /\ f2.i = f.i /\ f2.skipped = f.skipped /\ f2.stage = f.stage
      /\ f2.snap = f.snap /\ f2.args = f.args
  <2>1. k \in Nat
    BY <1>3
  <2> QED
    BY <1>1, <1>5, <2>1, FiredFields DEF SameCall
<1>8. Mid(p, f.i, f2.next, f2.pending, f.skipped, f.pre, st2)
  <2>1. st2 = [st EXCEPT ![MemberOf(p, k)] = v]
    BY DEF p
  <2> DEFINE i == f.i
             nx == f.next
             pend == f.pending
             skip == f.skipped
             pre == f.pre
  <2> HIDE DEF i, nx, pend, skip, pre
  <2>2. /\ Good(p) /\ k \in pend /\ v \in Values /\ Mid(p, i, nx, pend, skip, pre, st)
        /\ (\A j \in pend : k <= j) \/ LandsEarly(p, k)
        /\ IF LateAt(p, k) THEN v = Intended(p, k, i, nx, skip, pre) ELSE v = nx[k]
    BY <1>1, <1>2, <1>4, <1>5, <1>6 DEF i, nx, pend, skip, pre
  <2>3. Mid(p, i, [nx EXCEPT ![k] = v], pend \ {k}, skip, pre, [st EXCEPT ![MemberOf(p, k)] = v])
    BY <2>2, MidFires
  <2> QED
    BY <1>7, <2>1, <2>3 DEF i, nx, pend, skip, pre
<1>9. f.stage = "compute" => Early(p, f.i, f2.pending, f.skipped)
  <2> HAVE f.stage = "compute"
  <2>1. f.i \in 1..Size(p) /\ Flushes(p, k, f.i)
    BY <1>1, <1>3, PhaseSize DEF p
  <2>2. k \in 1..Size(p) /\ Early(p, f.i, f.pending, f.skipped)
    BY <1>2, <1>3
  <2> QED
    BY <1>1, <1>7, <2>1, <2>2, EarlyFires
<1>10. Underway(p, f2, st2)
  BY <1>7, <1>8, <1>9 DEF FrameInv, Underway, SameCall, p
<1>11. Faithful(p, f2)
  BY <1>7 DEF FrameInv, Faithful, SameCall, p
<1> QED
  BY <1>10, <1>11 DEF p

\* A pending write of a frame, by a flush or by the commits.
LEMMA FrameWrites ==
  ASSUME NEW e \in Entities, NEW f, Placed(e, f), NEW st \in Stores,
         FrameInv(e, st, f), NEW k \in f.pending,
         \/ f.stage = "commit" /\ \A j \in f.pending : k <= j
         \/ f.stage = "compute" /\ f.i <= Size(PhaseAt(e, f)) /\ Flushes(PhaseAt(e, f), k, f.i),
         NEW v, v = IF LateAt(PhaseAt(e, f), k) THEN Now(PhaseAt(e, f), k, f.next, st)
                                                ELSE f.next[k],
         NEW f2, f2 = Fired(f, k, v),
         NEW st2, st2 = [st EXCEPT ![MemberOf(PhaseAt(e, f), k)] = v]
  PROVE  SameStage(f, f2) /\ st2 \in Stores /\ FrameInv(e, st2, f2)
<1> DEFINE p == PhaseAt(e, f)
<1>1. Sound(p) /\ f.i \in Nat \ {0} /\ f \in Frames
  BY FramePhase DEF Placed
<1>2. /\ f.i \in 1..(Size(p) + 1) /\ f.next \in [1..(f.i-1) -> Values]
      /\ f.pending \subseteq 1..(f.i-1)
  BY DEF FrameInv, Shape
<1>3. v = IF LateAt(p, k) THEN Now(p, k, f.next, st) ELSE f.next[k]
  OBVIOUS
<1>4. Isolated(p) => Underway(p, f2, st2) /\ Faithful(p, f2)
  BY IsolatedWrites
<1>5. st2 = [st EXCEPT ![MemberOf(p, k)] = v]
  OBVIOUS
<1> HIDE DEF p
<1>6. k \in 1..(f.i-1) /\ k \in Nat /\ k \in 1..Size(p) /\ k <= f.i
  BY <1>1, <1>2, SoundPhase
<1>7. v \in Values
  <2>1. CASE LateAt(p, k)
    <3>1. st \in [Members -> Values]
      BY DEF Stores
    <3> QED
      BY <1>1, <1>2, <1>3, <1>6, <2>1, <3>1, NowIsValue
  <2>2. CASE ~LateAt(p, k)
    BY <1>2, <1>3, <1>6, <2>2
  <2> QED
    BY <2>1, <2>2
<1>8. st2 \in Stores
  BY <1>5, <1>7 DEF Stores
<1>9. /\ SameCall(f, f2) /\ f2.stage = f.stage /\ f2.i = f.i
      /\ f2.next = [f.next EXCEPT ![k] = v] /\ f2.pending = f.pending \ {k}
  BY <1>1, <1>6, <1>7, FiredFields
<1>10. PhaseAt(e, f2) = p
  BY <1>9, SamePhase DEF p
<1>11. f2.next \in [1..(f2.i-1) -> Values] /\ f2.pending \subseteq 1..(f2.i-1)
  BY <1>2, <1>7, <1>9
<1>12. Shape(p, f2)
  BY <1>2, <1>9, <1>11 DEF Shape
<1> QED
  BY <1>4, <1>8, <1>9, <1>10, <1>12 DEF FrameInv, SameStage

\* The locals once the next one is computed: a scalar's is shared by the
\* transforms of its member.
Stored(f, v) == [k \in 1..f.i |-> IF k \in Shared(f) THEN v ELSE f.next[k]]

\* Where a member has one transform, nobody shares its local.
LEMMA StoredIsGrown ==
  ASSUME NEW f, Good(Phase(f)), f.i \in 1..Size(Phase(f)), NEW v
  PROVE  Stored(f, v) = Grown(f.next, f.i, v)
<1> DEFINE p == Phase(f)
           i == f.i
<1>1. ScalarsOf(f, Tx(f, i).member) \subseteq {i}
  <2> SUFFICES ASSUME NEW k \in ScalarsOf(f, Tx(f, i).member) PROVE k = i
    OBVIOUS
  <2>1. k \in DOMAIN p.txs /\ MemberOf(p, k) = MemberOf(p, i)
    BY DEF ScalarsOf, Tx, MemberOf
  <2> QED
    BY <2>1, PhaseSize, TxUnique
<1>2. Shared(f) = {i}
  BY <1>1 DEF Shared
<1> QED
  BY <1>2 DEF Stored, Grown

\* The frame a computation leaves behind.
LEMMA ComputedFields ==
  ASSUME NEW f \in Frames, f.next \in [1..(f.i-1) -> Values], NEW v \in Values
  PROVE  LET f2 == Computed(f, v)
         IN  /\ SameCall(f, f2)
             /\ f2.next = Stored(f, v) /\ f2.i = f.i + 1
             /\ f2.pending = f.pending /\ f2.skipped = f.skipped
             /\ f2.stage = f.stage /\ f2.snap = f.snap /\ f2.args = f.args
<1> DEFINE nx2 == Stored(f, v)
           i2 == f.i + 1
           f2 == Computed(f, v)
<1>1. f2 = [f EXCEPT !.next = nx2, !.i = i2]
  BY DEF Computed, Stored
<1>2. f.i \in Nat \ {0}
  BY DEF Frames
<1>3. i2 \in Nat \ {0}
  BY <1>2
<1>4. nx2 \in [1..f.i -> Values]
  <2>1. ASSUME NEW k \in 1..f.i PROVE k \in Shared(f) \/ k \in 1..(f.i-1)
    BY <1>2 DEF Shared
  <2> QED
    BY <2>1 DEF Stored
<1>5. nx2 \in Seq(Values)
  <2> HIDE DEF nx2
  <2>1. f.i \in Nat
    BY <1>2
  <2> QED
    BY <1>4, <2>1, SeqDef
<1> HIDE DEF nx2, f2, i2
<1>6. f2.next = nx2 /\ f2.i = i2
  BY <1>1 DEF Frames
<1>7. SameCall(f, f2)
  BY <1>1, <1>3, <1>5 DEF Frames, SameCall
<1>8. /\ f2.stage = f.stage /\ f2.pending = f.pending /\ f2.skipped = f.skipped
      /\ f2.snap = f.snap /\ f2.args = f.args
  BY <1>1 DEF Frames
<1> QED
  BY <1>6, <1>7, <1>8 DEF nx2, f2, i2

\* The frame left behind by a computation whose write is still to come.
LEMMA DeferredFields ==
  ASSUME NEW f \in Frames, f.next \in [1..(f.i-1) -> Values], NEW v \in Values
  PROVE  LET f2 == Deferred(f, v)
         IN  /\ SameCall(f, f2)
             /\ f2.next = Stored(f, v) /\ f2.i = f.i + 1
             /\ f2.pending = f.pending \cup {f.i} /\ f2.skipped = f.skipped
             /\ f2.stage = f.stage /\ f2.snap = f.snap /\ f2.args = f.args
<1> DEFINE g == Computed(f, v)
           pend2 == g.pending \cup {f.i}
           f2 == Deferred(f, v)
<1>1. f2 = [g EXCEPT !.pending = pend2]
  BY DEF Deferred
<1>2. /\ SameCall(f, g)
      /\ g.next = Stored(f, v) /\ g.i = f.i + 1
      /\ g.pending = f.pending /\ g.skipped = f.skipped
      /\ g.stage = f.stage /\ g.snap = f.snap /\ g.args = f.args
  BY ComputedFields
<1>3. pend2 \in SUBSET Nat /\ pend2 = f.pending \cup {f.i}
  <2>1. f.i \in Nat /\ f.pending \subseteq Nat
    BY DEF Frames
  <2> HIDE DEF g
  <2> QED
    BY <1>2, <2>1
<1> HIDE DEF g, pend2, f2
<1>4. g \in Frames
  BY <1>2 DEF SameCall
<1>5. SameCall(g, f2) /\ f2.pending = pend2
  BY <1>1, <1>3, <1>4 DEF Frames, SameCall
<1>6. /\ f2.stage = g.stage /\ f2.i = g.i /\ f2.next = g.next /\ f2.skipped = g.skipped
      /\ f2.snap = g.snap /\ f2.args = g.args
  BY <1>1, <1>4 DEF Frames
<1> QED
  BY <1>2, <1>3, <1>5, <1>6 DEF SameCall, f2

\* The frame left behind by an `if` transform whose condition is false.
LEMMA SkippedFields ==
  ASSUME NEW f \in Frames, f.next \in [1..(f.i-1) -> Values], NEW v \in Values
  PROVE  LET f2 == Skipped(f, v)
         IN  /\ SameCall(f, f2)
             /\ f2.next = Stored(f, v) /\ f2.i = f.i + 1
             /\ f2.pending = f.pending /\ f2.skipped = f.skipped \cup {f.i}
             /\ f2.stage = f.stage /\ f2.snap = f.snap /\ f2.args = f.args
<1> DEFINE g == Computed(f, v)
           skip2 == g.skipped \cup {f.i}
           f2 == Skipped(f, v)
<1>1. f2 = [g EXCEPT !.skipped = skip2]
  BY DEF Skipped
<1>2. /\ SameCall(f, g)
      /\ g.next = Stored(f, v) /\ g.i = f.i + 1
      /\ g.pending = f.pending /\ g.skipped = f.skipped
      /\ g.stage = f.stage /\ g.snap = f.snap /\ g.args = f.args
  BY ComputedFields
<1>3. skip2 \in SUBSET Nat /\ skip2 = f.skipped \cup {f.i}
  <2>1. f.i \in Nat /\ f.skipped \subseteq Nat
    BY DEF Frames
  <2> HIDE DEF g
  <2> QED
    BY <1>2, <2>1
<1> HIDE DEF g, skip2, f2
<1>4. g \in Frames
  BY <1>2 DEF SameCall
<1>5. SameCall(g, f2) /\ f2.skipped = skip2
  BY <1>1, <1>3, <1>4 DEF Frames, SameCall
<1>6. /\ f2.stage = g.stage /\ f2.i = g.i /\ f2.next = g.next /\ f2.pending = g.pending
      /\ f2.snap = g.snap /\ f2.args = g.args
  BY <1>1, <1>4 DEF Frames
<1> QED
  BY <1>2, <1>3, <1>5, <1>6 DEF SameCall, f2

\* One more transform of an isolated phase keeps the locals, the pending writes
\* and storage related.
LEMMA IsolatedComputes ==
  ASSUME entity \in Entities, NEW f, Placed(entity, f), NEW st \in Stores,
         Isolated(PhaseAt(entity, f)),
         FrameInv(entity, st, f), f.stage = "compute", f.i <= Size(PhaseAt(entity, f)),
         \A k \in f.pending : ~Flushes(PhaseAt(entity, f), k, f.i),
         NEW v, NEW f2, NEW st2,
         \/ /\ ~InPlaceAt(PhaseAt(entity, f), f.i)
            /\ \/ LateAt(PhaseAt(entity, f), f.i) /\ v \in Values
               \/ v = Now(PhaseAt(entity, f), f.i, f.next, st)
            /\ f2 = Deferred(f, v) /\ st2 = st
         \/ /\ KindOf(PhaseAt(entity, f), f.i) = "branch"
            /\ v \in Values \/ v = Now(PhaseAt(entity, f), f.i, f.next, st)
            /\ f2 = Skipped(f, v) /\ st2 = st
         \/ /\ InPlaceAt(PhaseAt(entity, f), f.i)
            /\ v = Now(PhaseAt(entity, f), f.i, f.next, st)
            /\ f2 = Computed(f, v)
            /\ st2 = [st EXCEPT ![MemberOf(PhaseAt(entity, f), f.i)] = v]
  PROVE  Underway(PhaseAt(entity, f), f2, st2) /\ Faithful(PhaseAt(entity, f), f2)
<1> DEFINE p == PhaseAt(entity, f)
           i == f.i
           nx == f.next
           pend == f.pending
           skip == f.skipped
           pre == f.pre
<1>1. Good(p) /\ i \in Nat \ {0} /\ f \in Frames /\ i <= Size(p)
  BY FramePhase DEF Placed
<1>2. Mid(p, i, nx, pend, skip, pre, st) /\ Early(p, i, pend, skip)
  BY DEF FrameInv, Underway
<1>3. \A k \in pend : ~Flushes(p, k, i)
  OBVIOUS
<1>4. f2 = Deferred(f, v) \/ f2 = Skipped(f, v) \/ f2 = Computed(f, v)
  OBVIOUS
<1>0. p = Phase(f)
  BY DEF Phase, PhaseAt
<1> HIDE DEF p, i, nx, pend, skip, pre
<1>5. i \in 1..Size(p) /\ i \in 1..(Size(p) + 1)
  BY <1>1, PhaseSize
<1>6. nx \in [1..(i-1) -> Values] /\ pre \in [Members -> Values] /\ st \in [Members -> Values]
  BY <1>2 DEF Mid, MidTypes
<1>7. Now(p, i, nx, st) = Intended(p, i, i, nx, skip, pre)
  BY <1>1, <1>2, <1>3, <1>5, ComputesIntended
<1>8. Intended(p, i, i, nx, skip, pre) \in Values
  BY <1>1, <1>5, <1>6, IntendedType
<1>9. /\ v \in Values
      /\ \/ /\ ~InPlaceAt(p, i)
            /\ LateAt(p, i) \/ v = Intended(p, i, i, nx, skip, pre)
            /\ f2 = Deferred(f, v) /\ st2 = st
         \/ /\ KindOf(p, i) = "branch"
            /\ f2 = Skipped(f, v) /\ st2 = st
         \/ /\ InPlaceAt(p, i)
            /\ v = Intended(p, i, i, nx, skip, pre)
            /\ f2 = Computed(f, v)
            /\ st2 = [st EXCEPT ![MemberOf(p, i)] = v]
  BY <1>7, <1>8 DEF p, i, nx, pend, skip, pre
<1>10. /\ SameCall(f, f2) /\ f2.stage = f.stage /\ f2.i = i + 1 /\ f2.next = Grown(nx, i, v)
       /\ f2.snap = f.snap /\ f2.args = f.args
       /\ f2 = Deferred(f, v) => f2.pending = pend \cup {i} /\ f2.skipped = skip
       /\ f2 = Skipped(f, v) => f2.pending = pend /\ f2.skipped = skip \cup {i}
       /\ f2 = Computed(f, v) => f2.pending = pend /\ f2.skipped = skip
  <2>1. Stored(f, v) = Grown(nx, i, v)
    BY <1>0, <1>1, <1>5, StoredIsGrown DEF i, nx
  <2> QED
    BY <1>1, <1>4, <1>6, <1>9, <2>1, DeferredFields, SkippedFields, ComputedFields
    DEF i, nx, pend, skip
<1>11. Mid(p, i + 1, f2.next, f2.pending, f2.skipped, pre, st2)
       /\ Early(p, i + 1, f2.pending, f2.skipped)
  <2>1. CASE /\ ~InPlaceAt(p, i)
             /\ LateAt(p, i) \/ v = Intended(p, i, i, nx, skip, pre)
             /\ f2 = Deferred(f, v) /\ st2 = st
    <3>1. /\ Mid(p, i + 1, Grown(nx, i, v), pend \cup {i}, skip, pre, st)
          /\ Early(p, i + 1, pend \cup {i}, skip)
      BY <1>1, <1>2, <1>3, <1>5, <1>9, <2>1, MidDefers
    <3> QED
      BY <1>10, <2>1, <3>1
  <2>2. CASE KindOf(p, i) = "branch" /\ f2 = Skipped(f, v) /\ st2 = st
    <3>1. /\ Mid(p, i + 1, Grown(nx, i, v), pend, skip \cup {i}, pre, st)
          /\ Early(p, i + 1, pend, skip \cup {i})
      BY <1>1, <1>2, <1>3, <1>5, <1>9, <2>2, MidSkips
    <3> QED
      BY <1>10, <2>2, <3>1
  <2>3. CASE /\ InPlaceAt(p, i)
             /\ v = Intended(p, i, i, nx, skip, pre)
             /\ f2 = Computed(f, v)
             /\ st2 = [st EXCEPT ![MemberOf(p, i)] = v]
    <3>1. /\ Mid(p, i + 1, Grown(nx, i, v), pend, skip, pre, [st EXCEPT ![MemberOf(p, i)] = v])
          /\ Early(p, i + 1, pend, skip)
      BY <1>1, <1>2, <1>3, <1>5, <1>9, <2>3, MidWritesInPlace
    <3> QED
      BY <1>10, <2>3, <3>1
  <2> QED
    BY <1>9, <2>1, <2>2, <2>3
<1>12. Underway(p, f2, st2)
  BY <1>10, <1>11 DEF Underway, SameCall, pre
<1>13. Faithful(p, f2)
  BY <1>10 DEF FrameInv, Faithful, SameCall, p
<1> QED
  BY <1>12, <1>13 DEF p

\* One more transform of a frame: it waits, is skipped, or is written in place.
LEMMA FrameComputes ==
  ASSUME entity \in Entities, NEW f, Placed(entity, f), NEW st \in Stores,
         FrameInv(entity, st, f), f.stage = "compute", f.i <= Size(PhaseAt(entity, f)),
         \A k \in f.pending : ~Flushes(PhaseAt(entity, f), k, f.i),
         NEW v, NEW f2, NEW st2,
         \/ /\ ~InPlaceAt(PhaseAt(entity, f), f.i)
            /\ \/ LateAt(PhaseAt(entity, f), f.i) /\ v \in Values
               \/ v = Now(PhaseAt(entity, f), f.i, f.next, st)
            /\ f2 = Deferred(f, v) /\ st2 = st
         \/ /\ KindOf(PhaseAt(entity, f), f.i) = "branch"
            /\ v \in Values \/ v = Now(PhaseAt(entity, f), f.i, f.next, st)
            /\ f2 = Skipped(f, v) /\ st2 = st
         \/ /\ InPlaceAt(PhaseAt(entity, f), f.i)
            /\ v = Now(PhaseAt(entity, f), f.i, f.next, st)
            /\ f2 = Computed(f, v)
            /\ st2 = [st EXCEPT ![MemberOf(PhaseAt(entity, f), f.i)] = v]
  PROVE  SameStage(f, f2) /\ st2 \in Stores /\ FrameInv(entity, st2, f2)
<1> DEFINE p == PhaseAt(entity, f)
<1>1. Sound(p) /\ f.i \in Nat \ {0} /\ f \in Frames
  BY FramePhase DEF Placed
<1>2. /\ f.i \in 1..Size(p) /\ f.i \in 1..(Size(p) + 1)
      /\ f.next \in [1..(f.i-1) -> Values] /\ f.pending \subseteq 1..(f.i-1)
  BY <1>1, SoundPhase DEF FrameInv, Shape
<1>3. /\ v \in Values \/ v = Now(p, f.i, f.next, st)
      /\ st2 = st \/ st2 = [st EXCEPT ![MemberOf(p, f.i)] = v]
      /\ f2 = Deferred(f, v) \/ f2 = Skipped(f, v) \/ f2 = Computed(f, v)
  OBVIOUS
<1>4. Isolated(p) => Underway(p, f2, st2) /\ Faithful(p, f2)
  BY IsolatedComputes
<1> HIDE DEF p
<1>5. v \in Values
  <2>1. st \in [Members -> Values] /\ f.i <= f.i
    BY <1>1 DEF Stores
  <2> QED
    BY <1>1, <1>2, <1>3, <2>1, NowIsValue
<1>6. st2 \in Stores
  BY <1>3, <1>5 DEF Stores
<1>7. /\ SameCall(f, f2) /\ f2.stage = f.stage /\ f2.i = f.i + 1 /\ f2.next = Stored(f, v)
      /\ f2.pending \subseteq f.pending \cup {f.i}
  BY <1>1, <1>2, <1>3, <1>5, DeferredFields, SkippedFields, ComputedFields
<1>8. PhaseAt(entity, f2) = p
  BY <1>7, SamePhase DEF p
<1>9. f2.i \in 1..(Size(p) + 1) /\ 1..(f2.i-1) = 1..f.i /\ 1..(f.i-1) \cup {f.i} = 1..f.i
  BY <1>1, <1>2, <1>7, SoundPhase
<1>10. f2.next \in [1..f.i -> Values]
  <2>1. ASSUME NEW k \in 1..f.i PROVE k \in Shared(f) \/ k \in 1..(f.i-1)
    BY <1>1 DEF Shared
  <2> QED
    BY <1>2, <1>5, <1>7, <2>1 DEF Stored
<1>11. f2.pending \subseteq 1..f.i
  BY <1>2, <1>7, <1>9
<1>12. Shape(p, f2)
  BY <1>9, <1>10, <1>11 DEF Shape
<1> QED
  BY <1>4, <1>6, <1>7, <1>8, <1>12 DEF FrameInv, SameStage

\* A member that an outbound statement reads has not been written early.
LEMMA SnapshotsShowStart ==
  ASSUME NEW e \in Entities, NEW f, Placed(e, f), NEW st \in Stores, Isolated(PhaseAt(e, f)),
         FrameInv(e, st, f), f.stage = "compute", f.i > Size(PhaseAt(e, f)),
         NEW m \in SnapshotReads(PhaseAt(e, f))
  PROVE  f.i = Size(PhaseAt(e, f)) + 1 /\ m \in Members /\ st[m] = f.pre[m]
<1> DEFINE p == PhaseAt(e, f)
           L == Landed(f.i, f.pending, f.skipped)
<1>1. Good(p) /\ EffectsIsolated(p) /\ f.i \in Nat \ {0}
  BY FramePhase
<1>2. Mid(p, f.i, f.next, f.pending, f.skipped, f.pre, st) /\ Early(p, f.i, f.pending, f.skipped)
  BY DEF FrameInv, Underway
<1>3. f.i = Size(p) + 1 /\ DOMAIN p.txs = 1..Size(p)
  BY <1>1, <1>2, PhaseSize DEF Mid, MidTypes
<1>4. m \in Committed(p) /\ m \notin Vecs /\ \E s \in Outbound(p) : m \in s.reads
  BY DEF SnapshotReads
<1> HIDE DEF p
<1>5. m \in Members
  BY <1>1, <1>3, <1>4, TxTypes DEF Committed, MemberOf
<1>6. ASSUME NEW k \in L, MemberOf(p, k) = m PROVE FALSE
  <2>1. k \in 1..Size(p)
    BY <1>1, <1>3, PhaseSize DEF Landed
  <2>2. ~LandsEarly(p, k)
    BY <1>1, <1>3, <1>4, <1>6, <2>1 DEF EffectsIsolated, MemberOf
  <2>3. LandsBefore(p, k, f.i)
    BY <1>2 DEF Early
  <2> QED
    BY <2>2, <2>3 DEF LandsBefore, LandsEarly
<1>7. st[m] = f.pre[m]
  BY <1>2, <1>5, <1>6 DEF Mid, MidStore
<1> QED
  BY <1>3, <1>5, <1>7 DEF p

\* The frame that has taken its snapshots.
LEMMA FrameSnapshots ==
  ASSUME entity \in Entities, store \in Stores,
         NEW f, Placed(entity, f), FrameInv(entity, store, f),
         f.stage = "compute", f.i > Size(PhaseAt(entity, f))
  PROVE  SameCall(f, Snapshotted(f)) /\ FrameInv(entity, store, Snapshotted(f))
<1> DEFINE p == PhaseAt(entity, f)
           sn == Only(store, SnapshotReads(p))
           f2 == Snapshotted(f)
<1>1. Sound(p) /\ f \in Frames
  BY FramePhase DEF Placed
<1>2. /\ f.i \in 1..(Size(p) + 1) /\ f.next \in [1..(f.i-1) -> Values]
      /\ f.pending \subseteq 1..(f.i-1)
  BY DEF FrameInv, Shape
<1>3. Isolated(p) => /\ f.i = Size(p) + 1
                     /\ Mid(p, f.i, f.next, f.pending, f.skipped, f.pre, store)
                     /\ \A m \in SnapshotReads(p) : store[m] = f.pre[m]
  <2> HAVE Isolated(p)
  <2>1. Mid(p, f.i, f.next, f.pending, f.skipped, f.pre, store)
    BY DEF FrameInv, Underway
  <2>2. \A m \in SnapshotReads(p) : store[m] = f.pre[m]
    BY SnapshotsShowStart
  <2>3. f.i > Size(p)
    OBVIOUS
  <2>4. f.i = Size(p) + 1
    <3> HIDE DEF p
    <3> QED
      BY <1>1, <1>2, <2>3, SoundPhase
  <2> QED
    BY <2>1, <2>2, <2>4
<1>4. f2 = [f EXCEPT !.stage = "commit", !.snap = sn]
  BY DEF Snapshotted, Phase, PhaseAt
<1> HIDE DEF p, f2
<1>5. sn \in Locals /\ DOMAIN sn = SnapshotReads(p) /\ \A m \in SnapshotReads(p) : sn[m] = store[m]
  <2>1. SnapshotReads(p) \subseteq Members
    BY <1>1, SoundPhase DEF SnapshotReads, Committed, MemberOf
  <2>2. sn \in [SnapshotReads(p) -> Values]
    BY <2>1 DEF Only, Stores
  <2>3. [SnapshotReads(p) -> Values] \in { [S -> Values] : S \in SUBSET Members }
    BY <2>1
  <2>4. sn \in Locals
    BY <2>2, <2>3 DEF Locals
  <2> QED
    BY <2>4 DEF Only
<1> HIDE DEF sn
<1>6. SameCall(f, f2) /\ f2.stage = "commit" /\ f2.snap = sn
  BY <1>1, <1>4, <1>5 DEF Frames, SameCall
<1>7. f2.i = f.i /\ f2.next = f.next /\ f2.pending = f.pending /\ f2.skipped = f.skipped
  BY <1>1, <1>4 DEF Frames
<1>8. PhaseAt(entity, f2) = p
  BY <1>6, SamePhase DEF p
<1>9. Shape(p, f2)
  BY <1>2, <1>7 DEF Shape
<1>10. Isolated(p) => Underway(p, f2, store)
  BY <1>3, <1>6, <1>7 DEF Underway, SameCall
<1>11. Isolated(p) => Faithful(p, f2)
  BY <1>3, <1>5, <1>6 DEF Faithful, SameCall
<1> QED
  BY <1>6, <1>8, <1>9, <1>10, <1>11 DEF FrameInv, f2

\* The frame outside its member transforms, further on.
LEMMA FrameRests ==
  ASSUME NEW e, NEW st, NEW st2, NEW f, Placed(e, f), FrameInv(e, st, f), f.stage # "compute",
         NEW f2, SameCall(f, f2), f2.stage \in {"stmts", "unwinding"}, f2.snap = f.snap
  PROVE  FrameInv(e, st2, f2)
<1>1. PhaseAt(e, f2) = PhaseAt(e, f)
  BY SamePhase
<1>2. Underway(PhaseAt(e, f), f2, st2)
  BY DEF Underway
<1>3. Isolated(PhaseAt(e, f)) => Faithful(PhaseAt(e, f), f2)
  BY DEF FrameInv, Faithful, SameCall
<1> QED
  BY <1>1, <1>2, <1>3 DEF FrameInv, Shape

\* The frame that enters its statements.
LEMMA SettledFields ==
  ASSUME NEW f \in Frames
  PROVE  SameCall(f, Settled(f)) /\ Settled(f).stage = "stmts" /\ Settled(f).snap = f.snap
<1> DEFINE f2 == Settled(f)
           first == 1
<1>1. f2 = [f EXCEPT !.stage = "stmts", !.i = first] /\ first \in Nat \ {0}
  BY DEF Settled
<1> HIDE DEF f2, first
<1>2. SameCall(f, f2)
  BY <1>1 DEF Frames, SameCall
<1>3. f2.stage = "stmts" /\ f2.snap = f.snap
  BY <1>1 DEF Frames
<1> QED
  BY <1>2, <1>3 DEF f2

\* The frame a call hands control back to.
LEMMA ResumedFields ==
  ASSUME NEW f \in Frames, NEW stage \in {"stmts", "unwinding"}, NEW step \in {0, 1}
  PROVE  LET f2 == Resumed(f, stage, step)
         IN  SameCall(f, f2) /\ f2.stage = stage /\ f2.snap = f.snap
<1> DEFINE i2 == f.i + step
           f2 == Resumed(f, stage, step)
<1>1. f2 = [f EXCEPT !.stage = stage, !.i = i2]
  BY DEF Resumed
<1>2. i2 \in Nat \ {0}
  <2>1. f.i \in Nat \ {0}
    BY DEF Frames
  <2> QED
    BY <2>1
<1> HIDE DEF i2, f2
<1>3. f2.stage = stage /\ f2.i = i2 /\ f2.snap = f.snap
  BY <1>1 DEF Frames
<1>4. SameCall(f, f2)
  BY <1>1, <1>2 DEF Frames, SameCall
<1> QED
  BY <1>3, <1>4 DEF f2

\* The frame whose statement hands control out.
LEMMA FrameCalls ==
  ASSUME entity \in Entities, store \in Stores,
         NEW f, Placed(entity, f), FrameInv(entity, store, f),
         f.stage = "stmts", f.i <= Len(Phase(f).stmts), Stmt(f).kind \in {"call", "route"}
  PROVE  /\ SameCall(f, Calling(f)) /\ FrameInv(entity, store, Calling(f))
         /\ Calling(f).stage = "calling" /\ Stmt(f) \in Statements
<1> DEFINE p == PhaseAt(entity, f)
           a == ArgsOf(f)
           s == Stmt(f)
           f2 == Calling(f)
<1>1. /\ Sound(p) /\ (Isolated(p) => EffectsIsolated(p)) /\ f \in Frames /\ f.i \in Nat \ {0}
      /\ Phase(f) = p
  BY FramePhase DEF Placed, Phase, PhaseAt
<1>2. s = p.stmts[f.i] /\ p.stmts \in Seq(Statements) /\ f.i \in DOMAIN p.stmts
  <2>1. p.stmts \in Seq(Statements)
    BY <1>1 DEF Sound, Phases
  <2> HIDE DEF p
  <2>2. f.i \in 1..Len(p.stmts)
    BY <1>1, <2>1
  <2> QED
    BY <1>1, <2>1, <2>2 DEF Stmt
<1>3. Isolated(p) =>
        DOMAIN f.snap = SnapshotReads(p) /\ \A m \in SnapshotReads(p) : f.snap[m] = f.pre[m]
  BY DEF FrameInv, Faithful
<1>4. f2 = [f EXCEPT !.stage = "calling", !.args = a]
  BY DEF Calling
<1>5. DOMAIN a = s.reads
      /\ \A m \in s.reads : a[m] = IF m \in DOMAIN f.snap THEN f.snap[m] ELSE store[m]
  BY DEF ArgsOf
<1> HIDE DEF p, f2, a, s
<1>6. s \in Statements /\ s.kind \in {"call", "route"}
  <2>1. s \in Statements
    BY <1>2
  <2> QED
    BY <2>1 DEF s
<1>7. s \in Outbound(p) /\ s.reads \subseteq Members
  BY <1>2, <1>6 DEF Outbound, Statements
<1>8. Isolated(p) => \A m \in s.reads \cap Committed(p) : m \in SnapshotReads(p)
  <2> HAVE Isolated(p)
  <2> TAKE m \in s.reads \cap Committed(p)
  <2>1. PICK k \in DOMAIN p.txs : p.txs[k].member = m
    BY DEF Committed
  <2>2. m \notin Vecs
    BY <1>1, <1>7, <2>1 DEF EffectsIsolated
  <2> QED
    BY <1>7, <2>2 DEF SnapshotReads
<1>9. a \in Locals
  <2>1. f.snap \in Locals
    BY <1>1 DEF Frames
  <2>2. \A m \in DOMAIN f.snap : f.snap[m] \in Values
    BY <2>1 DEF Locals
  <2>3. \A m \in s.reads : a[m] \in Values
    BY <1>5, <1>7, <2>2 DEF Stores
  <2>4. a \in [s.reads -> Values]
    <3>1. a = [m \in s.reads |-> a[m]]
      BY DEF a, ArgsOf, s
    <3> QED
      BY <2>3, <3>1
  <2>5. [s.reads -> Values] \in { [S -> Values] : S \in SUBSET Members }
    BY <1>7
  <2> QED
    BY <2>4, <2>5 DEF Locals
<1>10. SameCall(f, f2) /\ f2.stage = "calling" /\ f2.args = a /\ f2.snap = f.snap
  BY <1>1, <1>4, <1>9 DEF Frames, SameCall
<1>11. PhaseAt(entity, f2) = p
  BY <1>10, SamePhase DEF p
<1>12. Underway(p, f2, store)
  BY <1>10 DEF Underway
<1>13. Isolated(p) => Faithful(p, f2)
  BY <1>3, <1>5, <1>8, <1>10 DEF Faithful, SameCall
<1>14. Shape(p, f2)
  BY <1>10 DEF Shape
<1> QED
  BY <1>6, <1>10, <1>11, <1>12, <1>13, <1>14 DEF FrameInv, f2, s

\* A frame at the beginning of a phase.
LEMMA FrameBegins ==
  ASSUME NEW e \in Entities, NEW st \in Stores, NEW r \in RouteNames,
         NEW q \in DOMAIN e[r], NEW from \in Stores, NEW internal \in BOOLEAN
  PROVE  LET f == Frame(r, q, from, internal, st)
         IN  Placed(e, f) /\ FrameInv(e, st, f) /\ f.internal = internal
<1> DEFINE f == Frame(r, q, from, internal, st)
<1>1. /\ f.route = r /\ f.ph = q /\ f.internal = internal /\ f.pre = st /\ f.stage = "compute"
      /\ f.i = 1 /\ f.next = << >> /\ f.pending = {} /\ f.skipped = {}
  BY DEF Frame
<1>2. q \in Nat \ {0}
  <2>1. e[r] \in Seq(Phases)
    BY EntitiesAssumption
  <2> QED
    BY <2>1
<1>3. << >> \in Locals
  <2>1. << >> \in [{} -> Values]
    OBVIOUS
  <2>2. [{} -> Values] \in { [S -> Values] : S \in SUBSET Members }
    OBVIOUS
  <2> QED
    BY <2>1, <2>2 DEF Locals
<1>4. << >> \in Seq(Values)
  OBVIOUS
<1>5. f \in Frames
  BY <1>2, <1>3, <1>4 DEF Frame, Frames
<1>6. Sound(e[r][q]) /\ (Isolated(e[r][q]) => Good(e[r][q]))
  BY PhaseIsSound DEF Good, Isolated
<1> HIDE DEF f
<1>7. PhaseAt(e, f) = e[r][q]
  BY <1>1 DEF PhaseAt
<1>8. Isolated(e[r][q]) =>
        Mid(e[r][q], 1, << >>, {}, {}, st, st) /\ Early(e[r][q], 1, {}, {})
  BY <1>6, MidBegins DEF Stores
<1>9. Isolated(e[r][q]) => Underway(e[r][q], f, st) /\ Faithful(e[r][q], f)
  BY <1>1, <1>8 DEF Underway, Faithful
<1>10. Shape(e[r][q], f)
  <2>1. 1 \in 1..(Size(e[r][q]) + 1)
    BY <1>6, SoundPhase
  <2>2. << >> \in [1..(1-1) -> Values]
    <3>1. 1..(1-1) = {}
      OBVIOUS
    <3> QED
      BY <3>1
  <2> QED
    BY <1>1, <2>1, <2>2 DEF Shape
<1> QED
  BY <1>1, <1>5, <1>7, <1>9, <1>10 DEF FrameInv, Placed, f

(***************************************************************************)
(* The invariant is inductive                                              *)
(***************************************************************************)
\* The frame on top, under IInv.
LEMMA TopFacts ==
  ASSUME IInv, stack # << >>
  PROVE  /\ entity \in Entities /\ store \in Stores
         /\ Top \in Frames /\ Placed(entity, Top) /\ FrameInv(entity, store, Top)
         /\ Depth \in Nat \ {0} /\ stack \in Seq(Frames)
         /\ Phase(Top) = PhaseAt(entity, Top) /\ Phase(Top) \in AllPhases /\ Sound(Phase(Top))
         /\ Isolated(Phase(Top)) => Good(Phase(Top))
         /\ Top.i \in Nat \ {0} /\ Top.entry \in Stores /\ Top.pre \in Stores
         /\ Top.pending \subseteq Nat
<1>1. entity \in Entities /\ store \in Stores /\ StackInv(entity, store, stack)
  BY DEF IInv
<1>2. stack \in Seq(Frames) /\ Depth \in Nat \ {0}
  BY <1>1 DEF StackInv, Depth
<1>3. Placed(entity, Top) /\ FrameInv(entity, store, Top)
  BY <1>1, <1>2 DEF StackInv, Top, Depth
<1>4. Top \in Frames
  BY <1>3 DEF Placed
<1>5. Phase(Top) = PhaseAt(entity, Top)
  BY DEF Phase, PhaseAt
<1> HIDE DEF Top
<1>6. /\ Sound(PhaseAt(entity, Top)) /\ PhaseAt(entity, Top) \in AllPhases
      /\ Isolated(PhaseAt(entity, Top)) => Good(PhaseAt(entity, Top))
      /\ Top.i \in Nat \ {0} /\ Top.entry \in Stores /\ Top.pre \in Stores
  BY <1>1, <1>3, FramePhase
<1>7. Top.pending \subseteq Nat
  BY <1>4 DEF Frames
<1> QED
  BY <1>1, <1>2, <1>3, <1>4, <1>5, <1>6, <1>7

\* A step that moves the frame on top on.
LEMMA TopMoves ==
  ASSUME IInv, stack # << >>, NEW f, SameCall(Top, f), FrameInv(entity, store', f),
         SetTop(f), store' \in Stores, Unmoved
  PROVE  IInv'
<1>1. StackInv(entity, store, stack) /\ Placed(entity, Top)
  <2>1. StackInv(entity, store, stack) /\ Depth \in 1..Depth
    BY DEF IInv, StackInv, Depth
  <2> QED
    BY <2>1 DEF StackInv, Top, Depth
<1>2. Placed(entity, f) /\ f.internal = stack[Len(stack)].internal
  BY <1>1, SamePhase DEF SameCall, Top, Depth
<1>3. StackInv(entity, store', [stack EXCEPT ![Len(stack)] = f])
  BY <1>1, <1>2, TopReplaced
<1>4. StackInv(entity', store', stack')
  BY <1>3 DEF SetTop, Depth, Unmoved
<1> QED
  BY <1>4 DEF IInv, Unmoved

\* A pending write fires, by a flush or by the commits.
LEMMA WriteStep ==
  ASSUME IInv, stack # << >>, NEW k \in Top.pending,
         \/ Top.stage = "commit" /\ \A j \in Top.pending : k <= j
         \/ Top.stage = "compute" /\ Top.i <= Len(Phase(Top).txs) /\ Flushes(Phase(Top), k, Top.i),
         Write(k), Unmoved
  PROVE  IInv' /\ \E f : SameStage(Top, f) /\ SetTop(f)
<1> DEFINE v == IF Late(Tx(Top, k)) THEN EvalNow(Top, Tx(Top, k)) ELSE Top.next[k]
           p == PhaseAt(entity, Top)
<1>1. v = IF LateAt(p, k) THEN Now(p, k, Top.next, store) ELSE Top.next[k]
  BY EvalIsNow DEF LateAt, Tx, Phase, PhaseAt
<1>2. /\ store' = [store EXCEPT ![MemberOf(p, k)] = v]
      /\ SetTop(Fired(Top, k, v))
  BY DEF Write, MemberOf, Tx, Phase, PhaseAt
<1> HIDE DEF v, p
<1>3. Phase(Top) = p /\ entity \in Entities /\ Placed(entity, Top) /\ store \in Stores
      /\ FrameInv(entity, store, Top)
  BY TopFacts DEF p
<1>4. SameStage(Top, Fired(Top, k, v)) /\ store' \in Stores
      /\ FrameInv(entity, store', Fired(Top, k, v))
  BY <1>1, <1>2, <1>3, FrameWrites, ZenonT(60) DEF p, Size
<1>5. IInv'
  BY <1>2, <1>4, TopMoves DEF SameStage
<1> QED
  BY <1>2, <1>4, <1>5

\* A transform is computed.
LEMMA ComputeStep ==
  ASSUME IInv, Computing, ToFlush(Top, Top.i) = {}, Unmoved,
         ComputeDeferred \/ ComputeLate \/ ComputeInPlace
  PROVE  IInv' /\ \E f : SameStage(Top, f) /\ SetTop(f)
<1> DEFINE p == PhaseAt(entity, Top)
           t == Tx(Top, Top.i)
           now == EvalNow(Top, t)
           none == Top.pre[t.member]
<1>0. stack # << >> /\ Top.stage = "compute" /\ Top.i <= Len(Phase(Top).txs)
  BY DEF Computing, InStage
<1>1. /\ Phase(Top) = p /\ entity \in Entities /\ Placed(entity, Top) /\ store \in Stores
      /\ FrameInv(entity, store, Top) /\ Sound(p) /\ Top.pre \in Stores /\ Top.i \in Nat \ {0}
  BY <1>0, TopFacts
<1>2. Top.i <= Size(p) /\ Top.i \in 1..Size(p)
  BY <1>0, <1>1, SoundPhase DEF Size
<1>3. \A k \in Top.pending : ~Flushes(p, k, Top.i)
  BY <1>1 DEF ToFlush
<1>4. now = Now(p, Top.i, Top.next, store)
  BY EvalIsNow
<1>5. t = p.txs[Top.i]
  BY <1>1 DEF Tx
<1>6. MemberOf(p, Top.i) = t.member /\ KindOf(p, Top.i) = t.kind
      /\ InPlaceAt(p, Top.i) = InPlace(t) /\ LateAt(p, Top.i) = Late(t)
  BY <1>5 DEF MemberOf, KindOf, InPlaceAt, LateAt
<1>7. none \in Values
  BY <1>1, <1>2, <1>6, SoundPhase DEF Stores
<1>8. PICK v, f :
        /\ SetTop(f)
        /\ \/ /\ ~InPlaceAt(p, Top.i)
              /\ (LateAt(p, Top.i) /\ v \in Values) \/ v = Now(p, Top.i, Top.next, store)
              /\ f = Deferred(Top, v) /\ store' = store
           \/ /\ KindOf(p, Top.i) = "branch"
              /\ v \in Values \/ v = Now(p, Top.i, Top.next, store)
              /\ f = Skipped(Top, v) /\ store' = store
           \/ /\ InPlaceAt(p, Top.i)
              /\ v = Now(p, Top.i, Top.next, store)
              /\ f = Computed(Top, v)
              /\ store' = [store EXCEPT ![MemberOf(p, Top.i)] = v]
  <2> HIDE DEF p, t, now, none
  <2>1. CASE ComputeDeferred
    <3>1. /\ ~InPlaceAt(p, Top.i) /\ SetTop(Deferred(Top, now)) /\ store' = store
      BY <1>6, <2>1 DEF ComputeDeferred, t, now
    <3> QED
      BY <1>4, <3>1
  <2>2. CASE ComputeLate
    <3>1. /\ LateAt(p, Top.i) /\ store' = store
          /\ SetTop(Deferred(Top, none)) \/ SetTop(Skipped(Top, none))
      BY <1>6, <2>2 DEF ComputeLate, t, none
    <3>2. KindOf(p, Top.i) = "branch" /\ ~InPlaceAt(p, Top.i)
      BY <1>1, <1>2, <3>1, SoundPhase
    <3> QED
      BY <1>7, <3>1, <3>2
  <2>3. CASE ComputeInPlace
    <3>1. /\ InPlaceAt(p, Top.i)
          /\ \/ /\ store' = [store EXCEPT ![MemberOf(p, Top.i)] = now]
                /\ SetTop(Computed(Top, now))
             \/ /\ KindOf(p, Top.i) = "branch" /\ SetTop(Skipped(Top, now)) /\ store' = store
      BY <1>6, <2>3 DEF ComputeInPlace, t, now
    <3> QED
      BY <1>4, <3>1
  <2> QED
    BY <2>1, <2>2, <2>3
<1> HIDE DEF p, t, now, none
<1>9. SameStage(Top, f) /\ store' \in Stores /\ FrameInv(entity, store', f)
  BY <1>0, <1>1, <1>2, <1>3, <1>8, FrameComputes DEF p
<1>10. SetTop(f)
  BY <1>8
<1>11. IInv'
  BY <1>0, <1>9, <1>10, TopMoves DEF SameStage
<1> QED
  BY <1>9, <1>10, <1>11

\* A frame enters on top of one that is outside its member transforms.
LEMMA EnterStep ==
  ASSUME NEW e \in Entities, NEW st \in Stores, NEW s, StackInv(e, st, s),
         s # << >> => s[Len(s)].stage \notin {"compute", "commit"},
         NEW r \in RouteNames, NEW internal \in BOOLEAN, internal => s # << >>
  PROVE  StackInv(e, st, Append(s, Frame(r, 1, st, internal, st)))
<1>1. 1 \in DOMAIN e[r]
  <2>1. e[r] \in Seq(Phases) /\ e[r] # << >>
    BY EntitiesAssumption
  <2> HIDE DEF Phases
  <2> QED
    BY <2>1
<1> DEFINE f == Frame(r, 1, st, internal, st)
<1>2. Placed(e, f) /\ FrameInv(e, st, f) /\ f.internal = internal
  BY <1>1, FrameBegins
<1> HIDE DEF f
<1>3. StackInv(e, st, Append(s, f))
  BY <1>2, FramePushed
<1> QED
  BY <1>3 DEF f

\* The frame on top leaves, and resumes the one that called it internally.
LEMMA LeaveStep ==
  ASSUME NEW e, NEW st, NEW st2, NEW s, StackInv(e, st, s), s # << >>,
         NEW stage \in {"stmts", "unwinding"}, NEW step \in {0, 1}
  PROVE  LET rest == SubSeq(s, 1, Len(s) - 1)
         IN  StackInv(e, st2, IF s[Len(s)].internal
                                THEN [rest EXCEPT ![Len(s) - 1] = Resumed(@, stage, step)]
                                ELSE rest)
<1> DEFINE rest == SubSeq(s, 1, Len(s) - 1)
<1>1. /\ StackInv(e, st2, rest) /\ Len(rest) = Len(s) - 1
      /\ rest # << >> => rest[Len(rest)].stage \notin {"compute", "commit"}
  BY FramePopped
<1>2. CASE s[Len(s)].internal
  <2>1. Len(s) \in Nat /\ Len(s) > 1
    BY <1>2 DEF StackInv
  <2> HIDE DEF rest
  <2>2. rest # << >>
    <3>1. rest = << >> => Len(rest) = 0
      OBVIOUS
    <3> QED
      BY <1>1, <2>1, <3>1
  <2> DEFINE g == rest[Len(rest)]
             g2 == Resumed(g, stage, step)
  <2>3. Placed(e, g) /\ FrameInv(e, st2, g) /\ g.stage \notin {"compute", "commit"}
    <3>1. Len(rest) \in 1..Len(rest)
      BY <1>1, <2>1
    <3> QED
      BY <1>1, <2>2, <3>1 DEF StackInv
  <2> HIDE DEF g
  <2>4. SameCall(g, g2) /\ g2.stage = stage /\ g2.snap = g.snap
    BY <2>3, ResumedFields DEF Placed
  <2> HIDE DEF g2
  <2>5. Placed(e, g2) /\ FrameInv(e, st2, g2) /\ g2.internal = g.internal
    BY <2>3, <2>4, SamePhase, FrameRests DEF SameCall
  <2>6. StackInv(e, st2, [rest EXCEPT ![Len(rest)] = g2])
    BY <1>1, <2>2, <2>5, TopReplaced DEF g
  <2> QED
    BY <1>1, <1>2, <2>6 DEF g, g2, rest
<1>3. CASE ~s[Len(s)].internal
  BY <1>1, <1>3
<1> QED
  BY <1>2, <1>3

\* Every step preserves the invariant.
THEOREM Inductive ==
  ASSUME IInv, [Next]_vars
  PROVE  IInv'
<1>1. CASE FlushWrite
  <2>1. PICK k \in ToFlush(Top, Top.i) : Write(k)
    BY <1>1 DEF FlushWrite
  <2>2. /\ stack # << >> /\ Top.stage = "compute" /\ Top.i <= Len(Phase(Top).txs) /\ Unmoved
        /\ k \in Top.pending /\ Flushes(Phase(Top), k, Top.i)
    BY <1>1 DEF FlushWrite, Computing, InStage, ToFlush
  <2> QED
    BY <2>1, <2>2, WriteStep
<1>2. CASE ComputeDeferred \/ ComputeLate \/ ComputeInPlace
  <2>1. Computing /\ ToFlush(Top, Top.i) = {} /\ Unmoved
    BY <1>2 DEF ComputeDeferred, ComputeLate, ComputeInPlace
  <2> QED
    BY <1>2, <2>1, ComputeStep
<1>3. CASE TakeSnapshots
  <2>1. /\ stack # << >> /\ Top.stage = "compute" /\ Top.i > Size(Phase(Top))
        /\ SetTop(Snapshotted(Top)) /\ store' = store /\ Unmoved
    BY <1>3 DEF TakeSnapshots, InStage, Size
  <2>2. SameCall(Top, Snapshotted(Top)) /\ FrameInv(entity, store, Snapshotted(Top))
    BY <2>1, TopFacts, FrameSnapshots
  <2> QED
    BY <2>1, <2>2, TopFacts, TopMoves
<1>4. CASE CommitWrite
  <2>1. PICK k \in Top.pending : (\A j \in Top.pending : k <= j) /\ Write(k)
    BY <1>4 DEF CommitWrite
  <2>2. stack # << >> /\ Top.stage = "commit" /\ Unmoved
    BY <1>4 DEF CommitWrite, InStage
  <2> QED
    BY <2>1, <2>2, WriteStep
<1>5. CASE CommitDone
  <2>1. /\ stack # << >> /\ Top.stage = "commit"
        /\ SetTop(Settled(Top)) /\ store' = store /\ Unmoved
    BY <1>5 DEF CommitDone, InStage
  <2>2. Top \in Frames /\ Placed(entity, Top) /\ FrameInv(entity, store, Top)
    BY <2>1, TopFacts
  <2>3. /\ SameCall(Top, Settled(Top)) /\ Settled(Top).stage = "stmts"
        /\ Settled(Top).snap = Top.snap
    BY <2>2, SettledFields
  <2>4. FrameInv(entity, store, Settled(Top))
    BY <2>1, <2>2, <2>3, FrameRests
  <2> QED
    BY <2>1, <2>3, <2>4, TopFacts, TopMoves
<1>6. CASE CallOut
  <2>1. /\ stack # << >> /\ Top.stage = "stmts" /\ Top.i <= Len(Phase(Top).stmts)
        /\ Stmt(Top).kind = "call" /\ SetTop(Calling(Top)) /\ store' = store /\ Unmoved
    BY <1>6 DEF CallOut, AtStatement, InStage
  <2>2. SameCall(Top, Calling(Top)) /\ FrameInv(entity, store, Calling(Top))
    BY <2>1, TopFacts, FrameCalls
  <2> QED
    BY <2>1, <2>2, TopFacts, TopMoves
<1>7. CASE CallRoute
  <2> DEFINE s == [stack EXCEPT ![Len(stack)] = Calling(Top)]
  <2>1. /\ stack # << >> /\ Top.stage = "stmts" /\ Top.i <= Len(Phase(Top).stmts)
        /\ Stmt(Top).kind = "route" /\ store' = store /\ Unmoved
        /\ stack' = Append(s, Frame(Stmt(Top).to, 1, store, TRUE, store))
    BY <1>7 DEF CallRoute, AtStatement, InStage, Depth
  <2>2. /\ entity \in Entities /\ store \in Stores /\ Placed(entity, Top)
        /\ FrameInv(entity, store, Top) /\ stack \in Seq(Frames)
    BY <2>1, TopFacts
  <2>3. /\ SameCall(Top, Calling(Top)) /\ FrameInv(entity, store, Calling(Top))
        /\ Calling(Top).stage = "calling"
    BY <2>1, <2>2, FrameCalls
  <2>4. Placed(entity, Calling(Top)) /\ Calling(Top).internal = stack[Len(stack)].internal
    BY <2>2, <2>3, SamePhase DEF SameCall, Top, Depth
  <2>5. StackInv(entity, store, s)
    BY <2>1, <2>3, <2>4, TopReplaced DEF IInv
  <2>6. s # << >> /\ s[Len(s)].stage = "calling"
    <3>1. Calling(Top) \in Frames
      BY <2>3 DEF SameCall
    <3>2. Len(s) = Len(stack) /\ s[Len(stack)] = Calling(Top) /\ Len(stack) \in Nat \ {0}
      BY <2>1, <2>2, <3>1, LastReplaced
    <3> HIDE DEF s
    <3>3. s = << >> => Len(s) = 0
      OBVIOUS
    <3> QED
      BY <2>3, <3>2, <3>3
  <2>7. Stmt(Top).to \in RouteNames
    <3>1. PhaseAt(entity, Top) \in AllPhases /\ Phase(Top) = PhaseAt(entity, Top)
          /\ Sound(Phase(Top)) /\ Top.i \in Nat \ {0}
      BY <2>1, <2>2, FramePhase, TopFacts
    <3>2. \A i \in DOMAIN Phase(Top).stmts :
            Phase(Top).stmts[i].kind = "route" => Phase(Top).stmts[i].to \in RouteNames
      BY <3>1, EntitiesAssumption
    <3>3. Phase(Top).stmts \in Seq(Statements)
      BY <3>1 DEF Sound, Phases
    <3>4. Top.i \in DOMAIN Phase(Top).stmts
      BY <2>1, <3>1, <3>3
    <3> QED
      BY <2>1, <3>2, <3>4 DEF Stmt
  <2> HIDE DEF s
  <2>8. StackInv(entity, store, Append(s, Frame(Stmt(Top).to, 1, store, TRUE, store)))
    BY <2>2, <2>5, <2>6, <2>7, EnterStep
  <2> QED
    BY <2>1, <2>8 DEF IInv, Unmoved
<1>8. CASE CallReturns
  <2>1. /\ stack # << >> /\ Top.stage = "calling"
        /\ SetTop(Resumed(Top, "stmts", 1)) /\ store' = store /\ Unmoved
    BY <1>8 DEF CallReturns, InStage
  <2>2. Top \in Frames /\ Placed(entity, Top) /\ FrameInv(entity, store, Top)
    BY <2>1, TopFacts
  <2>3. LET f == Resumed(Top, "stmts", 1)
        IN  SameCall(Top, f) /\ f.stage = "stmts" /\ f.snap = Top.snap
    BY <2>2, ResumedFields
  <2>4. FrameInv(entity, store, Resumed(Top, "stmts", 1))
    BY <2>1, <2>2, <2>3, FrameRests
  <2> QED
    BY <2>1, <2>3, <2>4, TopFacts, TopMoves
<1>9. CASE NextPhase
  <2> DEFINE f == Frame(Top.route, Top.ph + 1, Top.entry, Top.internal, store)
  <2>1. /\ stack # << >> /\ Top.ph < Len(entity[Top.route]) /\ SetTop(f)
        /\ store' = store /\ Unmoved
    BY <1>9 DEF NextPhase, InStage
  <2>2. /\ entity \in Entities /\ store \in Stores /\ Top \in Frames /\ Top.entry \in Stores
    BY <2>1, TopFacts
  <2>3. /\ Top.route \in RouteNames /\ Top.ph \in Nat \ {0} /\ Top.internal \in BOOLEAN
    BY <2>2 DEF Frames
  <2>4. Top.ph + 1 \in DOMAIN entity[Top.route]
    <3>1. entity[Top.route] \in Seq(Phases)
      BY <2>2, <2>3, EntitiesAssumption
    <3> HIDE DEF Phases
    <3> QED
      BY <2>1, <2>3, <3>1
  <2>5. Placed(entity, f) /\ FrameInv(entity, store, f) /\ f.internal = Top.internal
    BY <2>2, <2>3, <2>4, FrameBegins
  <2> HIDE DEF f
  <2>6. StackInv(entity, store, [stack EXCEPT ![Len(stack)] = f])
    BY <2>1, <2>5, TopReplaced DEF IInv, Top, Depth
  <2> QED
    BY <2>1, <2>6 DEF IInv, Unmoved, SetTop, Depth
<1>10. CASE RouteDone
  <2>1. /\ stack # << >> /\ Leave("stmts", 1) /\ UNCHANGED <<entity, store, origin, entries>>
        /\ outcome' = IF Depth = 1 THEN "ok" ELSE outcome
    BY <1>10 DEF RouteDone, InStage, AtStatement
  <2>2. StackInv(entity, store, stack')
    BY <2>1, LeaveStep DEF IInv, Leave, Top, Below, Depth
  <2> QED
    BY <2>1, <2>2 DEF IInv
<1>11. CASE Revert
  <2>1. /\ stack # << >> /\ Leave("unwinding", 0) /\ UNCHANGED <<entity, origin, entries>>
        /\ store' = Top.entry
        /\ outcome' = IF Depth = 1 THEN "reverted" ELSE outcome
    BY <1>11 DEF Revert
  <2>2. store' \in Stores
    BY <2>1, TopFacts
  <2>3. StackInv(entity, store', stack')
    BY <2>1, LeaveStep DEF IInv, Leave, Top, Below, Depth
  <2> QED
    BY <2>1, <2>2, <2>3 DEF IInv
<1>12. ASSUME NEW r \in Public, Enter(r) PROVE IInv'
  <2>1. /\ stack = << >> \/ Top.stage = "calling"
        /\ stack' = Append(stack, Frame(r, 1, store, FALSE, store))
        /\ UNCHANGED <<entity, store>> /\ entries' = entries + 1
        /\ origin' = store \/ origin' = origin
        /\ outcome' = "none" \/ outcome' = outcome
    BY <1>12 DEF Enter, InStage
  <2>2. r \in RouteNames
    BY ValuesAssumption
  <2>3. StackInv(entity, store, Append(stack, Frame(r, 1, store, FALSE, store)))
    BY <2>1, <2>2, EnterStep DEF IInv, Top, Depth
  <2>4. entity' \in Entities /\ store' \in Stores /\ StackInv(entity', store', stack')
    BY <2>1, <2>3 DEF IInv
  <2>5. origin' \in Stores /\ entries' \in Nat /\ outcome' \in {"none", "ok", "reverted"}
    BY <2>1 DEF IInv
  <2> QED
    BY <2>4, <2>5 DEF IInv
<1>13. CASE UNCHANGED vars
  BY <1>13 DEF IInv, vars
<1> QED
  BY <1>1, <1>2, <1>3, <1>4, <1>5, <1>6, <1>7, <1>8, <1>9, <1>10, <1>11, <1>12, <1>13
  DEF Next, Step

\* The initial state satisfies the invariant: no frame, a storage to start from.
LEMMA Initial == Init => IInv
<1> SUFFICES ASSUME Init PROVE IInv
  OBVIOUS
<1>1. stack = << >> /\ << >> \in Seq(Frames) /\ Len(<< >>) = 0
  BY DEF Init
<1>2. StackInv(entity, store, stack)
  BY <1>1 DEF StackInv
<1> QED
  BY <1>2, ValuesAssumption DEF Init, IInv, Stores

(***************************************************************************)
(* The theorems                                                            *)
(***************************************************************************)
LEMMA AlwaysIInv == Spec => []IInv
BY Initial, Inductive, PTL DEF Spec

\* Whatever its phases declare, isolated or not, the state of an entity stays
\* well typed, and only the frame on top of the stack is inside its member
\* transforms: route bodies never leave the contract between a computation and
\* its commit.
THEOREM TypeCorrectness == Spec => []TypeOK
<1>1. IInv => TypeOK
  BY DEF IInv, StackInv, TypeOK, Depth, Placed
<1> QED
  BY <1>1, AlwaysIInv, PTL

\* Once the last pending write of a phase has fired, storage is what the phase
\* makes of the storage it began with (emit_transforms_sol_split), whatever the
\* order of the transforms, their kinds and their ^ reads.
THEOREM PhasesAreAtomic ==
  ASSUME IsolatedEntities
  PROVE  Spec => []AtomicCommit
<1>1. IInv => AtomicCommit
  <2> SUFFICES ASSUME IInv, InStage("commit"), Top.pending = {}
               PROVE  AtomicPost(Phase(Top), Top.pre, store, Top.skipped)
    BY DEF AtomicCommit
  <2>1. stack # << >> /\ Top.stage = "commit"
    BY DEF InStage
  <2>2. /\ Phase(Top) = PhaseAt(entity, Top)
        /\ Isolated(Phase(Top)) /\ Good(Phase(Top))
        /\ FrameInv(entity, store, Top)
    BY <2>1, TopFacts DEF IsolatedEntities
  <2>3. Mid(Phase(Top), Size(Phase(Top)) + 1, Top.next, {}, Top.skipped, Top.pre, store)
    BY <2>1, <2>2 DEF FrameInv, Underway
  <2> QED
    BY <2>2, <2>3, MidEnds
<1> QED
  BY <1>1, AlwaysIInv, PTL

\* What an outbound statement hands out shows the members its phase commits as
\* they were when the phase began (collect_precommit_snapshots), whatever the
\* calls that re-entered in between have stored.
THEOREM EffectsAreFaithful ==
  ASSUME IsolatedEntities
  PROVE  Spec => []EffectsSeePhaseStart
<1>1. IInv => EffectsSeePhaseStart
  <2> SUFFICES ASSUME IInv, NEW d \in DOMAIN stack, stack[d].stage = "calling"
               PROVE  \A m \in DOMAIN stack[d].args \cap Committed(Phase(stack[d])) :
                        stack[d].args[m] = stack[d].pre[m]
    BY DEF EffectsSeePhaseStart
  <2>1. FrameInv(entity, store, stack[d])
    BY DEF IInv, StackInv
  <2>2. Phase(stack[d]) = PhaseAt(entity, stack[d])
    BY DEF Phase, PhaseAt
  <2>3. Isolated(PhaseAt(entity, stack[d]))
    BY FramePhase DEF IInv, StackInv, IsolatedEntities
  <2> QED
    BY <2>1, <2>2, <2>3 DEF FrameInv, Faithful
<1> QED
  BY <1>1, AlwaysIInv, PTL

(***************************************************************************)
(* Failures leave no trace                                                 *)
(***************************************************************************)
\* The outermost frame remembers the storage the transaction found; a failed
\* transaction has put it back.
NoTrace ==
  /\ stack # << >> => stack[1].entry = origin
  /\ stack = << >> /\ outcome = "reverted" => store = origin

\* Replacing the frame on top by one that entered with the same storage.
LEMMA EntryKept ==
  ASSUME NEW s \in Seq(Frames), s # << >>, NEW f \in Frames, f.entry = s[Len(s)].entry
  PROVE  LET s2 == [s EXCEPT ![Len(s)] = f]
         IN  s2 \in Seq(Frames) /\ s2 # << >> /\ s2[1].entry = s[1].entry
<1> DEFINE s2 == [s EXCEPT ![Len(s)] = f]
<1>1. /\ s2 \in Seq(Frames) /\ Len(s2) = Len(s) /\ s2[Len(s)] = f
      /\ \A d \in 1..(Len(s) - 1) : s2[d] = s[d]
  BY LastReplaced
<1> HIDE DEF s2, Frames
<1>2. Len(s) \in Nat \ {0}
  OBVIOUS
<1>3. s2 # << >>
  <2>1. s2 = << >> => Len(s2) = 0
    OBVIOUS
  <2> QED
    BY <1>1, <1>2, <2>1
<1>4. s2[1].entry = s[1].entry
  <2>1. CASE Len(s) = 1
    BY <1>1, <2>1
  <2>2. CASE Len(s) # 1
    <3> DEFINE n == Len(s)
    <3> HIDE DEF n
    <3>1. n \in Nat \ {0} /\ n # 1 => 1 \in 1..(n - 1)
      OBVIOUS
    <3> QED
      BY <1>1, <1>2, <2>2, <3>1 DEF n
  <2> QED
    BY <2>1, <2>2
<1> QED
  BY <1>1, <1>3, <1>4 DEF s2

\* A step within the frame on top.
LEMMA TraceWithin ==
  ASSUME IInv, NoTrace, stack # << >>, Unmoved,
         NEW f \in Frames, f.entry = Top.entry, SetTop(f)
  PROVE  NoTrace'
<1>1. stack \in Seq(Frames)
  BY TopFacts
<1>2. stack' # << >> /\ stack'[1].entry = stack[1].entry
  BY <1>1, EntryKept DEF SetTop, Top, Depth
<1> QED
  BY <1>2 DEF NoTrace, Unmoved

\* A step of the same call.
LEMMA TraceOfCall ==
  ASSUME IInv, NoTrace, stack # << >>, Unmoved,
         NEW f, SameCall(Top, f), SetTop(f)
  PROVE  NoTrace'
BY TraceWithin DEF SameCall

\* The frame on top leaves: the outermost one to nobody, any other to a stack
\* with the same outermost entry.
LEMMA TraceOfLeaving ==
  ASSUME IInv, stack # << >>,
         NEW stage \in {"stmts", "unwinding"}, NEW step \in {0, 1}, Leave(stage, step)
  PROVE  /\ Depth = 1 => stack' = << >>
         /\ Depth # 1 => stack' # << >> /\ stack'[1].entry = stack[1].entry
<1>1. /\ stack \in Seq(Frames) /\ Len(stack) = Depth /\ Depth \in Nat \ {0}
      /\ StackInv(entity, store, stack)
  BY TopFacts DEF IInv, Depth
<1>2. Below \in Seq(Frames) /\ Len(Below) = Depth - 1
      /\ \A d \in 1..(Depth - 1) : Below[d] = stack[d]
  BY <1>1, LastDropped DEF Below
<1>3. CASE Depth = 1
  <2>1. ~Top.internal
    BY <1>1, <1>3 DEF StackInv, Top
  <2>2. stack' = Below /\ Len(Below) = 0
    BY <1>2, <1>3, <2>1 DEF Leave
  <2> HIDE DEF Frames
  <2> QED
    BY <1>2, <1>3, <2>2
<1>4. CASE Depth # 1
  <2>1. 1 \in 1..(Depth - 1) /\ Depth - 1 \in 1..(Depth - 1)
    BY <1>1, <1>4
  <2>2. Below # << >> /\ Below[1] = stack[1]
    <3>1. Below = << >> => Len(Below) = 0
      OBVIOUS
    <3> QED
      BY <1>2, <2>1, <3>1
  <2>3. CASE ~Top.internal
    BY <1>4, <2>2, <2>3 DEF Leave
  <2>4. CASE Top.internal
    <3> DEFINE g == Below[Depth - 1]
               g2 == Resumed(g, stage, step)
    <3>1. g \in Frames
      <4>1. g = stack[Depth - 1] /\ Depth - 1 \in 1..Len(stack)
        BY <1>1, <1>2, <2>1
      <4> QED
        BY <1>1, <4>1
    <3> HIDE DEF g
    <3>2. g2 \in Frames /\ g2.entry = g.entry
      BY <3>1, ResumedFields DEF SameCall
    <3> HIDE DEF g2
    <3>3. stack' = [Below EXCEPT ![Len(Below)] = g2]
      BY <1>2, <2>4 DEF Leave, g, g2
    <3>4. g2.entry = Below[Len(Below)].entry
      BY <1>2, <3>2 DEF g
    <3>5. stack' # << >> /\ stack'[1].entry = Below[1].entry
      BY <1>2, <2>2, <3>2, <3>3, <3>4, EntryKept
    <3> QED
      BY <1>4, <2>2, <3>5
  <2> QED
    BY <2>3, <2>4
<1> QED
  BY <1>3, <1>4

\* Every step keeps it: only Enter, from the empty stack, starts a transaction,
\* and the outermost frame's Revert restores the storage that one found.
LEMMA TraceInductive ==
  ASSUME IInv, NoTrace, [Next]_vars
  PROVE  NoTrace'
<1>1. CASE FlushWrite \/ CommitWrite
  <2>1. stack # << >> /\ Unmoved
    BY <1>1 DEF FlushWrite, CommitWrite, Computing, InStage
  <2>2. PICK f : SameStage(Top, f) /\ SetTop(f)
    <3>1. CASE FlushWrite
      <4>1. PICK k \in ToFlush(Top, Top.i) : Write(k)
        BY <3>1 DEF FlushWrite
      <4>2. /\ Top.stage = "compute" /\ Top.i <= Len(Phase(Top).txs)
            /\ k \in Top.pending /\ Flushes(Phase(Top), k, Top.i)
        BY <3>1 DEF FlushWrite, Computing, InStage, ToFlush
      <4> QED
        BY <2>1, <4>1, <4>2, WriteStep
    <3>2. CASE CommitWrite
      <4>1. PICK k \in Top.pending : (\A j \in Top.pending : k <= j) /\ Write(k)
        BY <3>2 DEF CommitWrite
      <4>2. Top.stage = "commit"
        BY <3>2 DEF CommitWrite, InStage
      <4> QED
        BY <2>1, <4>1, <4>2, WriteStep
    <3> QED
      BY <1>1, <3>1, <3>2
  <2> QED
    BY <2>1, <2>2, TraceOfCall DEF SameStage
<1>2. CASE ComputeDeferred \/ ComputeLate \/ ComputeInPlace
  <2>1. Computing /\ ToFlush(Top, Top.i) = {} /\ Unmoved
    BY <1>2 DEF ComputeDeferred, ComputeLate, ComputeInPlace
  <2>2. stack # << >>
    BY <2>1 DEF Computing, InStage
  <2>3. PICK f : SameStage(Top, f) /\ SetTop(f)
    BY <1>2, <2>1, ComputeStep
  <2> QED
    BY <2>1, <2>2, <2>3, TraceOfCall DEF SameStage
<1>3. CASE TakeSnapshots
  <2>1. /\ stack # << >> /\ Top.stage = "compute" /\ Top.i > Size(Phase(Top))
        /\ SetTop(Snapshotted(Top)) /\ Unmoved
    BY <1>3 DEF TakeSnapshots, InStage, Size
  <2>2. SameCall(Top, Snapshotted(Top))
    BY <2>1, TopFacts, FrameSnapshots
  <2> QED
    BY <2>1, <2>2, TraceOfCall
<1>4. CASE CommitDone
  <2>1. stack # << >> /\ SetTop(Settled(Top)) /\ Unmoved
    BY <1>4 DEF CommitDone, InStage
  <2>2. SameCall(Top, Settled(Top))
    BY <2>1, TopFacts, SettledFields
  <2> QED
    BY <2>1, <2>2, TraceOfCall
<1>5. CASE CallOut \/ CallRoute
  <2>1. /\ stack # << >> /\ Top.stage = "stmts" /\ Top.i <= Len(Phase(Top).stmts)
        /\ Stmt(Top).kind \in {"call", "route"} /\ Unmoved
    BY <1>5 DEF CallOut, CallRoute, AtStatement, InStage
  <2>2. SameCall(Top, Calling(Top))
    BY <2>1, TopFacts, FrameCalls
  <2>3. CASE CallOut
    BY <2>1, <2>2, <2>3, TraceOfCall DEF CallOut
  <2>4. CASE CallRoute
    <3> DEFINE s == [stack EXCEPT ![Len(stack)] = Calling(Top)]
               f == Frame(Stmt(Top).to, 1, store, TRUE, store)
    <3>1. stack' = Append(s, f)
      BY <2>4 DEF CallRoute, Depth
    <3>2. s \in Seq(Frames) /\ s # << >> /\ s[1].entry = stack[1].entry
      BY <2>1, <2>2, TopFacts, EntryKept DEF SameCall, Top, Depth
    <3> HIDE DEF s, f, Frames
    <3>3. stack' # << >> /\ stack'[1] = s[1]
      BY <3>1, <3>2
    <3> QED
      BY <2>1, <3>2, <3>3 DEF NoTrace, Unmoved
  <2> QED
    BY <1>5, <2>3, <2>4
<1>6. CASE CallReturns
  <2>1. stack # << >> /\ SetTop(Resumed(Top, "stmts", 1)) /\ Unmoved
    BY <1>6 DEF CallReturns, InStage
  <2>2. SameCall(Top, Resumed(Top, "stmts", 1))
    BY <2>1, TopFacts, ResumedFields
  <2> QED
    BY <2>1, <2>2, TraceOfCall
<1>7. CASE NextPhase
  <2> DEFINE f == Frame(Top.route, Top.ph + 1, Top.entry, Top.internal, store)
  <2>1. /\ stack # << >> /\ Top.ph < Len(entity[Top.route]) /\ SetTop(f) /\ Unmoved
    BY <1>7 DEF NextPhase, InStage
  <2>2. f.entry = Top.entry
    BY DEF Frame
  <2>3. f \in Frames
    <3>1. entity \in Entities /\ store \in Stores /\ Top \in Frames /\ Top.entry \in Stores
      BY <2>1, TopFacts
    <3>2. Top.route \in RouteNames /\ Top.ph \in Nat \ {0} /\ Top.internal \in BOOLEAN
      BY <3>1 DEF Frames
    <3>3. Top.ph + 1 \in DOMAIN entity[Top.route]
      <4>1. entity[Top.route] \in Seq(Phases)
        BY <3>1, <3>2, EntitiesAssumption
      <4> HIDE DEF Phases
      <4> QED
        BY <2>1, <3>2, <4>1
    <3> QED
      BY <3>1, <3>2, <3>3, FrameBegins DEF Placed
  <2> HIDE DEF f
  <2> QED
    BY <2>1, <2>2, <2>3, TraceWithin
<1>8. CASE RouteDone
  <2>1. /\ stack # << >> /\ Leave("stmts", 1) /\ UNCHANGED <<store, origin>>
        /\ outcome' = IF Depth = 1 THEN "ok" ELSE outcome
    BY <1>8 DEF RouteDone, InStage, AtStatement
  <2> QED
    BY <2>1, TraceOfLeaving DEF NoTrace
<1>9. CASE Revert
  <2>1. /\ stack # << >> /\ Leave("unwinding", 0) /\ UNCHANGED origin
        /\ store' = Top.entry
    BY <1>9 DEF Revert
  <2>2. Depth = 1 => Top = stack[1]
    BY DEF Top
  <2> QED
    BY <2>1, <2>2, TraceOfLeaving DEF NoTrace
<1>10. ASSUME NEW r \in Public, Enter(r) PROVE NoTrace'
  <2> DEFINE f == Frame(r, 1, store, FALSE, store)
  <2>1. /\ stack' = Append(stack, f) /\ store' = store
        /\ origin' = IF stack = << >> THEN store ELSE origin
    BY <1>10 DEF Enter
  <2>2. stack \in Seq(Frames) /\ f.entry = store
    BY DEF IInv, StackInv, Frame
  <2> HIDE DEF f, Frames
  <2>3. /\ stack' # << >>
        /\ stack = << >> => stack'[1] = f
        /\ stack # << >> => stack'[1] = stack[1]
    BY <2>1, <2>2
  <2> QED
    BY <2>1, <2>2, <2>3 DEF NoTrace
<1>11. CASE UNCHANGED vars
  BY <1>11 DEF NoTrace, vars
<1> QED
  BY <1>1, <1>2, <1>3, <1>4, <1>5, <1>6, <1>7, <1>8, <1>9, <1>10, <1>11 DEF Next, Step

\* A transaction that fails leaves storage as it found it, whatever its frames,
\* the internal calls and the calls that re-entered during them had written: the
\* emitted routes keep nothing outside what the EVM rolls back.  The phases need
\* not be isolated.
THEOREM FailuresLeaveNoTrace == Spec => []FailureLeavesNoTrace
<1>1. Init => NoTrace
  BY DEF Init, NoTrace
<1>2. IInv /\ NoTrace /\ [Next]_vars => NoTrace'
  BY TraceInductive
<1>3. NoTrace => FailureLeavesNoTrace
  BY DEF NoTrace, FailureLeavesNoTrace
<1> QED
  BY <1>1, <1>2, <1>3, AlwaysIInv, PTL DEF Spec

-----------------------------------------------------------------------------
(***************************************************************************)
(* The emitted code implements AtomicPhases: storage only ever moves by    *)
(* whole phases, and a revert takes back exactly what came after the entry *)
(* of the frame that fails.  The computations, flushes and commits of a    *)
(* phase stutter; the end of its commits is the abstract step.             *)
(***************************************************************************)
\* The abstract variables, of a storage and a stack.
StateOf(st, s) ==
  IF s # << >> /\ s[Len(s)].stage \in {"compute", "commit"} THEN s[Len(s)].pre ELSE st
SavedOf(s) == [d \in DOMAIN s |-> s[d].entry]

\* AbsState and the mapping of saved are those.
LEMMA Mapping ==
  /\ AbsState = StateOf(store, stack)
  /\ AbsState' = StateOf(store', stack')
BY DEF AbsState, InStage, Top, Depth, StateOf

\* Replacing the top by a frame of the same call keeps what is saved.
LEMMA SavedReplaced ==
  ASSUME NEW s \in Seq(Frames), s # << >>, NEW f \in Frames, f.entry = s[Len(s)].entry
  PROVE  LET s2 == [s EXCEPT ![Len(s)] = f]
         IN  /\ SavedOf(s2) = SavedOf(s)
             /\ \A st : StateOf(st, s2) = IF f.stage \in {"compute", "commit"} THEN f.pre ELSE st
<1> DEFINE s2 == [s EXCEPT ![Len(s)] = f]
<1>1. /\ s2 \in Seq(Frames) /\ Len(s2) = Len(s) /\ s2[Len(s)] = f
      /\ \A d \in 1..(Len(s) - 1) : s2[d] = s[d]
      /\ Len(s) \in Nat \ {0}
  BY LastReplaced
<1>2. DOMAIN s2 = 1..Len(s) /\ DOMAIN s = 1..Len(s)
  OBVIOUS
<1> HIDE DEF s2
<1>3. s2 # << >>
  <2>1. s2 = << >> => Len(s2) = 0
    OBVIOUS
  <2> QED
    BY <1>1, <2>1
<1>4. ASSUME NEW d \in 1..Len(s) PROVE s2[d].entry = s[d].entry
  <2>1. CASE d = Len(s)
    BY <1>1, <2>1
  <2>2. CASE d # Len(s)
    <3>1. d \in 1..(Len(s) - 1)
      BY <1>1, <2>2
    <3> QED
      BY <1>1, <3>1
  <2> QED
    BY <2>1, <2>2
<1>5. SavedOf(s2) = SavedOf(s)
  BY <1>2, <1>4 DEF SavedOf
<1>6. \A st : StateOf(st, s2) = IF f.stage \in {"compute", "commit"} THEN f.pre ELSE st
  BY <1>1, <1>3 DEF StateOf
<1> QED
  BY <1>5, <1>6 DEF s2

\* Pushing a frame saves the storage it was entered in.
LEMMA SavedPushed ==
  ASSUME NEW s \in Seq(Frames), NEW f \in Frames
  PROVE  LET s2 == Append(s, f)
         IN  /\ SavedOf(s2) = Append(SavedOf(s), f.entry)
             /\ \A st : StateOf(st, s2) = IF f.stage \in {"compute", "commit"} THEN f.pre ELSE st
<1> DEFINE s2 == Append(s, f)
           t == SavedOf(s)
<1>1. /\ s2 \in Seq(Frames) /\ Len(s2) = Len(s) + 1 /\ s2[Len(s) + 1] = f
      /\ \A d \in 1..Len(s) : s2[d] = s[d]
      /\ Len(s) \in Nat
  BY LastAppended
<1>2. DOMAIN s2 = 1..(Len(s) + 1) /\ DOMAIN s = 1..Len(s)
  OBVIOUS
<1> HIDE DEF s2
<1>3. s2 # << >>
  <2>1. s2 = << >> => Len(s2) = 0
    OBVIOUS
  <2> QED
    BY <1>1, <2>1
<1>4. t \in Seq(Stores) /\ Len(t) = Len(s) /\ \A d \in 1..Len(s) : t[d] = s[d].entry
  <2>1. \A d \in 1..Len(s) : s[d].entry \in Stores
    <3> TAKE d \in 1..Len(s)
    <3>1. s[d] \in Frames
      OBVIOUS
    <3> QED
      BY <3>1 DEF Frames
  <2>2. t \in [1..Len(s) -> Stores]
    BY <1>2, <2>1 DEF SavedOf
  <2>3. t \in Seq(Stores)
    <3> HIDE DEF t
    <3> QED
      BY <1>1, <2>2, SeqDef
  <2>4. DOMAIN t = 1..Len(s)
    BY <2>2
  <2> HIDE DEF t
  <2>5. Len(t) = Len(s)
    BY <1>1, <2>3, <2>4
  <2> QED
    BY <1>2, <2>3, <2>5 DEF SavedOf, t
<1> HIDE DEF t
<1>5. f.entry \in Stores
  BY DEF Frames
<1>6. /\ Append(t, f.entry) \in Seq(Stores) /\ DOMAIN Append(t, f.entry) = 1..(Len(s) + 1)
      /\ Append(t, f.entry)[Len(s) + 1] = f.entry
      /\ \A d \in 1..Len(s) : Append(t, f.entry)[d] = t[d]
  BY <1>1, <1>4, <1>5
<1>7. SavedOf(s2) = Append(t, f.entry)
  <2> DEFINE u == Append(t, f.entry)
  <2>1. u = [d \in 1..(Len(s) + 1) |-> u[d]]
    BY <1>6
  <2> HIDE DEF u
  <2>2. ASSUME NEW d \in 1..(Len(s) + 1) PROVE s2[d].entry = u[d]
    <3>1. CASE d = Len(s) + 1
      BY <1>1, <1>6, <3>1 DEF u
    <3>2. CASE d # Len(s) + 1
      <4>1. d \in 1..Len(s)
        BY <1>1, <3>2
      <4> QED
        BY <1>1, <1>4, <1>6, <4>1 DEF u
    <3> QED
      BY <3>1, <3>2
  <2>3. SavedOf(s2) = u
    BY <1>2, <2>1, <2>2 DEF SavedOf
  <2> QED
    BY <2>3 DEF u
<1>8. \A st : StateOf(st, s2) = IF f.stage \in {"compute", "commit"} THEN f.pre ELSE st
  BY <1>1, <1>3 DEF StateOf
<1> QED
  BY <1>7, <1>8 DEF s2, t

\* Popping a frame drops what it saved.
LEMMA SavedPopped ==
  ASSUME NEW s \in Seq(Frames), s # << >>
  PROVE  LET s2 == SubSeq(s, 1, Len(s) - 1)
             t == SavedOf(s)
         IN  /\ SavedOf(s2) = SubSeq(t, 1, Len(t) - 1)
             /\ t # << >> /\ t[Len(t)] = s[Len(s)].entry
<1> DEFINE n == Len(s)
           s2 == SubSeq(s, 1, n - 1)
           t == SavedOf(s)
<1>1. /\ s2 \in Seq(Frames) /\ Len(s2) = n - 1 /\ \A d \in 1..(n - 1) : s2[d] = s[d]
      /\ n \in Nat \ {0}
  BY LastDropped
<1>2. DOMAIN s2 = 1..(n - 1) /\ DOMAIN s = 1..n
  BY <1>1
<1> HIDE DEF s2
<1>3. t \in [1..n -> Stores] /\ \A d \in 1..n : t[d] = s[d].entry
  <2>1. \A d \in 1..n : s[d].entry \in Stores
    <3> TAKE d \in 1..n
    <3>1. s[d] \in Frames
      OBVIOUS
    <3> QED
      BY <3>1 DEF Frames
  <2> QED
    BY <1>2, <2>1 DEF SavedOf
<1> HIDE DEF n, t
<1>4. t \in Seq(Stores) /\ Len(t) = n
  <2>1. t \in Seq(Stores)
    BY <1>1, <1>3, SeqDef
  <2>2. DOMAIN t = 1..n
    BY <1>3
  <2> QED
    BY <1>1, <2>1, <2>2
<1>5. t # << >>
  <2>1. t = << >> => Len(t) = 0
    OBVIOUS
  <2> QED
    BY <1>1, <1>4, <2>1
<1> DEFINE u == SubSeq(t, 1, n - 1)
<1>6. DOMAIN u = 1..(n - 1) /\ \A d \in 1..(n - 1) : u[d] = t[d]
  BY <1>1, <1>4
<1>7. u = [d \in 1..(n - 1) |-> u[d]]
  BY <1>1, <1>4, <1>6
<1> HIDE DEF u
<1>8. \A d \in 1..(n - 1) : s2[d].entry = u[d]
  BY <1>1, <1>3, <1>6
<1>9. SavedOf(s2) = u
  BY <1>2, <1>7, <1>8 DEF SavedOf
<1>10. t[Len(t)] = s[n].entry
  BY <1>1, <1>3, <1>4
<1> QED
  BY <1>4, <1>5, <1>9, <1>10 DEF s2, t, u, n

\* A step that moves the frame on top on, inside or outside its transforms,
\* and keeps what other code can see.
LEMMA TopStutters ==
  ASSUME IInv, stack # << >>, NEW f, SameCall(Top, f), SetTop(f),
         \/ Top.stage \in {"compute", "commit"} /\ f.stage \in {"compute", "commit"}
         \/ /\ Top.stage \notin {"compute", "commit"} /\ f.stage \notin {"compute", "commit"}
            /\ store' = store
  PROVE  AbsState' = AbsState /\ SavedOf(stack') = SavedOf(stack)
<1>1. stack \in Seq(Frames) /\ f \in Frames /\ f.entry = stack[Len(stack)].entry
      /\ f.pre = Top.pre /\ Top = stack[Len(stack)]
  BY TopFacts DEF SameCall, Top, Depth
<1>2. stack' = [stack EXCEPT ![Len(stack)] = f]
  BY DEF SetTop, Depth
<1>3. /\ SavedOf(stack') = SavedOf(stack)
      /\ StateOf(store', stack') = IF f.stage \in {"compute", "commit"} THEN f.pre ELSE store'
  BY <1>1, <1>2, SavedReplaced
<1>4. StateOf(store, stack) = IF Top.stage \in {"compute", "commit"} THEN Top.pre ELSE store
  BY <1>1 DEF StateOf
<1> QED
  BY <1>1, <1>3, <1>4, Mapping

\* Inside the instance, the promise of a phase is the same formula.
LEMMA SamePromise ==
  ASSUME NEW p, NEW pre, NEW post, NEW skipped, AtomicPost(p, pre, post, skipped)
  PROVE  Abs!AtomicPost(p, pre, post, skipped)
BY DEF AtomicPost, Committed, Only, Abs!AtomicPost, Abs!Committed, Abs!Only

\* A frame that leaves shows storage as it stands below it.
LEMMA LeaveShows ==
  ASSUME IInv, stack # << >>, NEW stage \in {"stmts", "unwinding"},
         NEW step \in {0, 1}, Leave(stage, step)
  PROVE  /\ AbsState' = store'
         /\ SavedOf(stack') = SubSeq(SavedOf(stack), 1, Len(SavedOf(stack)) - 1)
<1> DEFINE rest == SubSeq(stack, 1, Len(stack) - 1)
<1>0. StackInv(entity, store, stack) /\ stack \in Seq(Frames)
  BY DEF IInv, StackInv
<1>1. /\ StackInv(entity, store, rest) /\ Len(rest) = Len(stack) - 1
      /\ rest # << >> => rest[Len(rest)].stage \notin {"compute", "commit"}
  BY <1>0, FramePopped
<1>2. SavedOf(rest) = SubSeq(SavedOf(stack), 1, Len(SavedOf(stack)) - 1)
  BY <1>0, SavedPopped
<1>3. CASE Top.internal
  <2>1. Len(stack) \in Nat /\ Len(stack) > 1
    BY <1>0, <1>3 DEF StackInv, Top, Depth
  <2>2. stack' = [rest EXCEPT ![Len(rest)] = Resumed(rest[Len(rest)], stage, step)]
    BY <1>1, <1>3 DEF Leave, Below, Depth
  <2> HIDE DEF rest
  <2>3. rest # << >> /\ rest \in Seq(Frames)
    <3>1. rest = << >> => Len(rest) = 0
      OBVIOUS
    <3> QED
      BY <1>1, <2>1, <3>1 DEF StackInv
  <2> DEFINE g == rest[Len(rest)]
             g2 == Resumed(g, stage, step)
  <2>4. g \in Frames
    <3>1. Len(rest) \in 1..Len(rest)
      BY <1>1, <2>1
    <3> QED
      BY <2>3, <3>1
  <2> HIDE DEF g
  <2>5. SameCall(g, g2) /\ g2.stage = stage
    BY <2>4, ResumedFields
  <2> HIDE DEF g2
  <2>6. g2 \in Frames /\ g2.entry = rest[Len(rest)].entry
    BY <2>5 DEF SameCall, g
  <2>7. stack' = [rest EXCEPT ![Len(rest)] = g2]
    BY <2>2 DEF g, g2
  <2>8. SavedOf(stack') = SavedOf(rest) /\ StateOf(store', stack') = store'
    BY <2>3, <2>5, <2>6, <2>7, SavedReplaced
  <2> QED
    BY <1>2, <2>8, Mapping
<1>4. CASE ~Top.internal
  <2>1. stack' = rest
    BY <1>4 DEF Leave, Below, Depth
  <2>2. StateOf(store', stack') = store'
    BY <1>1, <2>1 DEF StateOf
  <2> QED
    BY <1>2, <2>1, <2>2, Mapping
<1> QED
  BY <1>3, <1>4

\* Every step is an abstract step, or shows nothing.
LEMMA StepRefines ==
  ASSUME IsolatedEntities, IInv, [Next]_vars
  PROVE  Abs!ANext \/ UNCHANGED Abs!avars
<1> DEFINE stutters == AbsState' = AbsState /\ SavedOf(stack') = SavedOf(stack)
<1>0. stutters => UNCHANGED Abs!avars
  BY DEF SavedOf, Abs!avars
<1> HIDE DEF stutters
<1>1. CASE FlushWrite \/ CommitWrite
  <2>1. PICK k : /\ stack # << >> /\ Write(k) /\ Unmoved /\ k \in Top.pending
                 /\ \/ Top.stage = "commit" /\ \A j \in Top.pending : k <= j
                    \/ /\ Top.stage = "compute" /\ Top.i <= Len(Phase(Top).txs)
                       /\ Flushes(Phase(Top), k, Top.i)
    <3>1. CASE FlushWrite
      <4>1. PICK k \in ToFlush(Top, Top.i) : Write(k)
        BY <3>1 DEF FlushWrite
      <4>2. /\ stack # << >> /\ Top.stage = "compute" /\ Top.i <= Len(Phase(Top).txs) /\ Unmoved
            /\ k \in Top.pending /\ Flushes(Phase(Top), k, Top.i)
        BY <3>1 DEF FlushWrite, Computing, InStage, ToFlush
      <4> QED
        BY <4>1, <4>2
    <3>2. CASE CommitWrite
      BY <3>2 DEF CommitWrite, InStage
    <3> QED
      BY <1>1, <3>1, <3>2
  <2>2. PICK f : SameCall(Top, f) /\ f.stage = Top.stage /\ SetTop(f)
    BY <2>1, WriteStep DEF SameStage
  <2> QED
    BY <1>0, <2>1, <2>2, TopStutters DEF stutters
<1>2. CASE ComputeDeferred \/ ComputeLate \/ ComputeInPlace
  <2>1. Computing /\ ToFlush(Top, Top.i) = {} /\ Unmoved /\ stack # << >> /\ Top.stage = "compute"
    BY <1>2 DEF ComputeDeferred, ComputeLate, ComputeInPlace, Computing, InStage
  <2>2. PICK f : SameCall(Top, f) /\ f.stage = Top.stage /\ SetTop(f)
    BY <1>2, <2>1, ComputeStep DEF SameStage
  <2> QED
    BY <1>0, <2>1, <2>2, TopStutters DEF stutters
<1>3. CASE TakeSnapshots
  <2>1. /\ stack # << >> /\ Top.stage = "compute" /\ Top.i > Size(Phase(Top))
        /\ SetTop(Snapshotted(Top))
    BY <1>3 DEF TakeSnapshots, InStage, Size
  <2>2. SameCall(Top, Snapshotted(Top))
    BY <2>1, TopFacts, FrameSnapshots
  <2>3. Snapshotted(Top).stage = "commit"
    BY <2>1, TopFacts DEF Snapshotted, Frames
  <2> QED
    BY <1>0, <2>1, <2>2, <2>3, TopStutters DEF stutters
<1>4. CASE CommitDone
  <2>1. /\ stack # << >> /\ Top.stage = "commit" /\ Top.pending = {}
        /\ SetTop(Settled(Top)) /\ store' = store
    BY <1>4 DEF CommitDone, InStage
  <2>2. /\ Top \in Frames /\ stack \in Seq(Frames) /\ Top = stack[Len(stack)]
        /\ Phase(Top) = PhaseAt(entity, Top) /\ Phase(Top) \in AllPhases
        /\ Isolated(Phase(Top)) => Good(Phase(Top))
        /\ FrameInv(entity, store, Top) /\ entity \in Entities /\ Placed(entity, Top)
    BY <2>1, TopFacts DEF Top, Depth
  <2>13. Isolated(Phase(Top)) /\ Good(Phase(Top))
    BY <2>2 DEF IsolatedEntities
  <2>3. Mid(Phase(Top), Size(Phase(Top)) + 1, Top.next, {}, Top.skipped, Top.pre, store)
    BY <2>1, <2>2, <2>13 DEF FrameInv, Underway
  <2>4. AtomicPost(Phase(Top), Top.pre, store, Top.skipped)
    BY <2>3, <2>13, MidEnds
  <2>5. Top.skipped \in SUBSET { k \in DOMAIN Phase(Top).txs : Phase(Top).txs[k].kind = "branch" }
    <3> DEFINE p == Phase(Top)
    <3>1. Top.skipped \subseteq 1..((Size(p) + 1) - 1) /\ \A k \in Top.skipped : KindOf(p, k) = "branch"
      BY <2>3 DEF Mid, MidTypes
    <3>2. Size(p) \in Nat /\ DOMAIN p.txs = 1..Size(p)
      BY <2>13, PhaseSize
    <3> HIDE DEF p
    <3>3. Top.skipped \subseteq DOMAIN p.txs /\ \A k \in Top.skipped : p.txs[k].kind = "branch"
      BY <3>1, <3>2 DEF KindOf
    <3>4. Top.skipped \subseteq { k \in DOMAIN p.txs : p.txs[k].kind = "branch" }
      BY <3>3
    <3> QED
      BY <3>4 DEF p
  <2>6. SameCall(Top, Settled(Top)) /\ Settled(Top).stage = "stmts"
    BY <2>2, SettledFields
  <2>7. /\ SavedOf(stack') = SavedOf(stack) /\ StateOf(store', stack') = store'
    <3>1. stack' = [stack EXCEPT ![Len(stack)] = Settled(Top)]
      BY <2>1 DEF SetTop, Depth
    <3> QED
      BY <2>1, <2>2, <2>6, <3>1, SavedReplaced DEF SameCall
  <2>8. AbsState = Top.pre /\ AbsState' = store
    BY <2>1, <2>2, <2>7, Mapping DEF StateOf
  <2>9. Phase(Top) \in AllPhases
    BY <2>2
  <2>10. SavedOf(stack) # << >>
    BY <2>1, <2>2, SavedPopped
  <2>11. Abs!AtomicPost(Phase(Top), AbsState, AbsState', Top.skipped)
    BY <2>4, <2>8, SamePromise
  <2>12. Abs!APhase(Phase(Top))
    BY <2>5, <2>7, <2>10, <2>11 DEF Abs!APhase, SavedOf
  <2> QED
    BY <2>9, <2>12 DEF Abs!ANext
<1>5. CASE CallOut
  <2>1. /\ stack # << >> /\ Top.stage = "stmts" /\ Top.i <= Len(Phase(Top).stmts)
        /\ Stmt(Top).kind = "call" /\ SetTop(Calling(Top)) /\ store' = store
    BY <1>5 DEF CallOut, AtStatement, InStage
  <2>2. SameCall(Top, Calling(Top)) /\ Calling(Top).stage = "calling"
    BY <2>1, TopFacts, FrameCalls
  <2> QED
    BY <1>0, <2>1, <2>2, TopStutters DEF stutters
<1>6. CASE CallRoute
  <2> DEFINE s == [stack EXCEPT ![Len(stack)] = Calling(Top)]
             f == Frame(Stmt(Top).to, 1, store, TRUE, store)
  <2>1. /\ stack # << >> /\ Top.stage = "stmts" /\ Top.i <= Len(Phase(Top).stmts)
        /\ Stmt(Top).kind = "route" /\ store' = store
        /\ stack' = Append(s, f)
    BY <1>6 DEF CallRoute, AtStatement, InStage, Depth
  <2>2. /\ SameCall(Top, Calling(Top)) /\ Calling(Top).stage = "calling"
        /\ stack \in Seq(Frames) /\ Top = stack[Len(stack)]
    BY <2>1, TopFacts, FrameCalls DEF Top, Depth
  <2>3. s \in Seq(Frames) /\ SavedOf(s) = SavedOf(stack)
    BY <2>1, <2>2, LastReplaced, SavedReplaced DEF SameCall
  <2>4. f \in Frames /\ f.entry = store /\ f.pre = store /\ f.stage = "compute"
    <3>1. IInv'
      BY Inductive
    <3>2. stack' \in Seq(Frames)
      BY <3>1 DEF IInv, StackInv
    <3>3. f = stack'[Len(stack')] /\ Len(stack') \in 1..Len(stack')
      <4> HIDE DEF s, f
      <4>1. Len(s) \in Nat
        BY <2>3
      <4> QED
        BY <2>1, <2>3, <4>1
    <3>4. f \in Frames
      <4> HIDE DEF f
      <4> QED
        BY <3>2, <3>3
    <3> QED
      BY <3>4 DEF Frame
  <2> HIDE DEF s, f
  <2>5. SavedOf(stack') = Append(SavedOf(stack), store) /\ StateOf(store', stack') = store
    BY <2>1, <2>3, <2>4, SavedPushed
  <2>6. AbsState = store /\ AbsState' = store
    BY <2>1, <2>2, <2>5, Mapping DEF StateOf
  <2>7. Abs!AEnter
    BY <2>5, <2>6 DEF Abs!AEnter, SavedOf
  <2> QED
    BY <2>7 DEF Abs!ANext
<1>7. CASE CallReturns
  <2>1. /\ stack # << >> /\ Top.stage = "calling"
        /\ SetTop(Resumed(Top, "stmts", 1)) /\ store' = store
    BY <1>7 DEF CallReturns, InStage
  <2>2. LET f == Resumed(Top, "stmts", 1)
        IN  SameCall(Top, f) /\ f.stage = "stmts"
    BY <2>1, TopFacts, ResumedFields
  <2> QED
    BY <1>0, <2>1, <2>2, TopStutters DEF stutters
<1>8. CASE NextPhase
  <2> DEFINE f == Frame(Top.route, Top.ph + 1, Top.entry, Top.internal, store)
  <2>1. /\ stack # << >> /\ Top.stage = "stmts" /\ store' = store
        /\ stack' = [stack EXCEPT ![Len(stack)] = f]
    BY <1>8 DEF NextPhase, InStage, SetTop, Depth
  <2>2. stack \in Seq(Frames) /\ Top = stack[Len(stack)]
    BY <2>1, TopFacts DEF Top, Depth
  <2>3. f.entry = Top.entry /\ f.pre = store /\ f.stage = "compute"
    BY DEF Frame
  <2>4. f \in Frames
    <3>1. IInv'
      BY Inductive
    <3>2. stack' \in Seq(Frames)
      BY <3>1 DEF IInv, StackInv
    <3> HIDE DEF f
    <3>3. f = stack'[Len(stack)] /\ Len(stack) \in 1..Len(stack')
      BY <2>1, <2>2
    <3> QED
      BY <3>2, <3>3
  <2> HIDE DEF f
  <2>5. SavedOf(stack') = SavedOf(stack) /\ StateOf(store', stack') = store
    BY <2>1, <2>2, <2>3, <2>4, SavedReplaced
  <2>6. AbsState = store /\ AbsState' = store
    BY <2>1, <2>2, <2>5, Mapping DEF StateOf
  <2> QED
    BY <1>0, <2>5, <2>6 DEF stutters
<1>9. CASE RouteDone
  <2>1. stack # << >> /\ Leave("stmts", 1) /\ store' = store /\ Top.stage = "stmts"
    BY <1>9 DEF RouteDone, InStage, AtStatement
  <2>2. stack \in Seq(Frames) /\ Top = stack[Len(stack)]
    BY <2>1, TopFacts DEF Top, Depth
  <2>3. /\ AbsState' = store'
        /\ SavedOf(stack') = SubSeq(SavedOf(stack), 1, Len(SavedOf(stack)) - 1)
    BY <2>1, LeaveShows
  <2>4. AbsState = store
    BY <2>1, <2>2, Mapping DEF StateOf
  <2>5. SavedOf(stack) # << >>
    BY <2>1, <2>2, SavedPopped
  <2>6. Abs!ALeave
    BY <2>1, <2>3, <2>4, <2>5 DEF Abs!ALeave, SavedOf
  <2> QED
    BY <2>6 DEF Abs!ANext
<1>10. CASE Revert
  <2>1. stack # << >> /\ Leave("unwinding", 0) /\ store' = Top.entry
    BY <1>10 DEF Revert
  <2>2. stack \in Seq(Frames) /\ Top = stack[Len(stack)]
    BY <2>1, TopFacts DEF Top, Depth
  <2>3. /\ AbsState' = store'
        /\ SavedOf(stack') = SubSeq(SavedOf(stack), 1, Len(SavedOf(stack)) - 1)
    BY <2>1, LeaveShows
  <2>4. SavedOf(stack) # << >> /\ SavedOf(stack)[Len(SavedOf(stack))] = Top.entry
    BY <2>1, <2>2, SavedPopped
  <2>5. Abs!ARevert
    BY <2>1, <2>3, <2>4 DEF Abs!ARevert, SavedOf
  <2> QED
    BY <2>5 DEF Abs!ANext
<1>11. ASSUME NEW r \in Public, Enter(r) PROVE Abs!ANext
  <2> DEFINE f == Frame(r, 1, store, FALSE, store)
  <2>1. /\ stack = << >> \/ Top.stage = "calling"
        /\ store' = store
        /\ stack' = Append(stack, f)
    BY <1>11 DEF Enter, InStage
  <2>2. stack \in Seq(Frames) /\ Top = stack[Len(stack)]
    BY DEF IInv, StackInv, Top, Depth
  <2>3. f.entry = store /\ f.pre = store /\ f.stage = "compute"
    BY DEF Frame
  <2>4. f \in Frames
    <3>1. IInv'
      <4>1. [Next]_vars
        OBVIOUS
      <4> QED
        BY <4>1, Inductive
    <3>2. stack' \in Seq(Frames)
      BY <3>1 DEF IInv, StackInv
    <3> HIDE DEF f
    <3>3. f = stack'[Len(stack')] /\ Len(stack') \in 1..Len(stack')
      BY <2>1, <2>2
    <3> QED
      BY <3>2, <3>3
  <2> HIDE DEF f
  <2>5. SavedOf(stack') = Append(SavedOf(stack), store) /\ StateOf(store', stack') = store
    BY <2>1, <2>2, <2>3, <2>4, SavedPushed
  <2>6. AbsState = store /\ AbsState' = store
    BY <2>1, <2>2, <2>5, Mapping DEF StateOf
  <2>7. Abs!AEnter
    BY <2>5, <2>6 DEF Abs!AEnter, SavedOf
  <2> QED
    BY <2>7 DEF Abs!ANext
<1>12. CASE UNCHANGED vars
  <2>1. AbsState' = AbsState /\ SavedOf(stack') = SavedOf(stack)
    BY <1>12, Mapping DEF vars
  <2> QED
    BY <1>0, <2>1 DEF stutters
<1> QED
  BY <1>1, <1>2, <1>3, <1>4, <1>5, <1>6, <1>7, <1>8, <1>9, <1>10, <1>11, <1>12
  DEF Next, Step

\* The routes of an entity with isolated phases implement AtomicPhases: code that
\* gets control during a route (gen_ir_stmt_evm's outbound calls) only ever sees
\* storage that whole phases produced.
THEOREM RoutesImplementAtomicPhases ==
  ASSUME IsolatedEntities
  PROVE  Spec => StorageMovesByPhases
<1>1. Init => Abs!AInit
  <2> SUFFICES ASSUME Init PROVE Abs!AInit
    OBVIOUS
  <2>1. stack = << >> /\ store \in [Members -> Values]
    BY ValuesAssumption DEF Init
  <2>2. AbsState = store
    BY <2>1 DEF AbsState, InStage
  <2>3. SavedOf(stack) = << >>
    BY <2>1 DEF SavedOf
  <2> QED
    BY <2>1, <2>2, <2>3 DEF Abs!AInit, SavedOf
<1>2. IInv /\ [Next]_vars => [Abs!ANext]_(Abs!avars)
  BY StepRefines
<1> QED
  BY <1>1, <1>2, AlwaysIInv, PTL DEF Spec, StorageMovesByPhases, Abs!ASpec
=============================================================================
