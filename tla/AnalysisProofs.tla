--------------------------- MODULE AnalysisProofs ---------------------------
(***************************************************************************)
(* Three analyses of a program, for any program.  Tarjan's algorithm as    *)
(* graph.rs has it, for any number of nodes and any edges: what            *)
(* tarjan_sccs returns are the strongly connected components, each once,   *)
(* callees first, and in source order where that is asked for.  The        *)
(* closure over failing routes (route_facts.rs) with what the backends     *)
(* make of it.  And the walk that orders declarations (dfs_topo).          *)
(***************************************************************************)
EXTENDS DfsOrder, Components, FailModes, FiniteSetTheorems, SequenceTheorems, TLAPS

Frames == [node : Names, left : Seq(Names)]

(***************************************************************************)
(* The inductive invariant                                                 *)
(***************************************************************************)
EdgesOf(v) == NodesOf(deps[v])
Found == UNION { NodesOf(sccs[k]) : k \in 1..Len(sccs) }

\* The numbers tell discovered nodes apart, and each of these lies on the stack
\* or in a component.
Numbered ==
  /\ \A v \in Names : index[v] <= Cardinality(Discovered)
  /\ \A a, b \in Discovered : index[a] = index[b] => a = b
  /\ OnStack \cup Found = Discovered /\ OnStack \cap Found = {}
  /\ \A v \in Names : v < turn => v \in Discovered

\* The calls are those of open nodes, each for the edge the one before is at.
Nested(cs, ix, open) ==
  \A i \in 1..Len(cs) :
    /\ cs[i].node \in open
    /\ NodesOf(cs[i].left) \subseteq EdgesOf(cs[i].node)
    /\ i < Len(cs) => cs[i].left # << >> /\ Head(cs[i].left) = cs[i + 1].node
    /\ \A j \in 1..Len(cs) : i < j => ix[cs[i].node] < ix[cs[j].node]

\* The edges a call has looked at, and those of the open nodes it has finished,
\* lead to components found or to nothing its lowlink does not allow for.
Allowed(w, low, ix, open, found) == w \in found \/ (w \in open /\ ix[w] >= low)

Within(x, i, cs, ix) ==
  /\ ix[x] > ix[cs[i].node]
  /\ \A j \in 1..Len(cs) : i < j => ix[x] < ix[cs[j].node]

EdgesAllowed(cs, ix, low, open, found) ==
  \A i \in 1..Len(cs) :
    /\ \A w \in EdgesOf(cs[i].node) :
         w \in NodesOf(cs[i].left) \/ Allowed(w, low[cs[i].node], ix, open, found)
    /\ \A x \in open : Within(x, i, cs, ix) =>
         \A w \in EdgesOf(x) : Allowed(w, low[cs[i].node], ix, open, found)

\* A lowlink is the number of an open node within reach.
LowReached(cs, ix, low, open) ==
  \A i \in 1..Len(cs) : \E y \in open : ix[y] = low[cs[i].node] /\ LeadsTo(cs[i].node, y)

\* A call reaches all that was discovered since.
AboveReached(cs, ix, open) ==
  \A i \in 1..Len(cs) : \A x \in open : ix[x] >= ix[cs[i].node] => LeadsTo(cs[i].node, x)

\* What is open reaches a call that was there before.
CallReached(cs, ix, open) ==
  \A x \in open : \E i \in 1..Len(cs) : ix[cs[i].node] <= ix[x] /\ LeadsTo(x, cs[i].node)

Searched(cs, ix, low, open, found) ==
  /\ Nested(cs, ix, open) /\ EdgesAllowed(cs, ix, low, open, found)
  /\ LowReached(cs, ix, low, open) /\ AboveReached(cs, ix, open) /\ CallReached(cs, ix, open)

\* A component is one: its nodes reach each other, and are in it once.
Connected == \A k \in 1..Len(sccs) : \A a, b \in NodesOf(sccs[k]) : LeadsTo(a, b)

Apart ==
  \A i, j \in 1..Len(sccs) : \A p \in 1..Len(sccs[i]), q \in 1..Len(sccs[j]) :
     sccs[i][p] = sccs[j][q] => i = j /\ p = q

IInv ==
  /\ SearchTypeOK /\ Numbered
  /\ Searched(calls, index, lowlink, OnStack, Found)
  /\ Connected /\ Apart /\ CalleesFirst

-----------------------------------------------------------------------------
(***************************************************************************)
(* Sequences, and what reaches what                                        *)
(***************************************************************************)
LEMMA ElemsAppend ==
  ASSUME NEW S, NEW s \in Seq(S), NEW x \in S
  PROVE  NodesOf(Append(s, x)) = NodesOf(s) \cup {x}
<1>1. /\ \A k \in 1..Len(s) : Append(s, x)[k] = s[k]
      /\ Append(s, x)[Len(s) + 1] = x /\ Len(Append(s, x)) = Len(s) + 1
      /\ 1..(Len(s) + 1) = (1..Len(s)) \cup {Len(s) + 1}
  OBVIOUS
<1> QED
  BY <1>1 DEF NodesOf

LEMMA ElemsHeadTail ==
  ASSUME NEW S, NEW s \in Seq(S), s # << >>
  PROVE  /\ Head(s) \in S /\ Tail(s) \in Seq(S)
         /\ NodesOf(s) = NodesOf(Tail(s)) \cup {Head(s)}
<1>1. /\ Head(s) \in S /\ Tail(s) \in Seq(S)
      /\ Len(Tail(s)) = Len(s) - 1 /\ Head(s) = s[1] /\ Len(s) \in Nat \ {0}
      /\ \A k \in 1..(Len(s) - 1) : Tail(s)[k] = s[k + 1]
  OBVIOUS
<1>2. ASSUME NEW k \in 1..Len(s) PROVE s[k] \in NodesOf(Tail(s)) \cup {Head(s)}
  <2>1. CASE k = 1
    BY <1>1, <2>1
  <2>2. CASE k # 1
    <3>1. k - 1 \in 1..(Len(s) - 1) /\ Tail(s)[k - 1] = s[k]
      BY <1>1, <2>2
    <3> QED
      BY <1>1, <3>1 DEF NodesOf
  <2> QED
    BY <2>1, <2>2
<1>3. Head(s) \in NodesOf(s) /\ \A k \in 1..Len(Tail(s)) : Tail(s)[k] \in NodesOf(s)
  BY <1>1 DEF NodesOf
<1> QED
  BY <1>1, <1>2, <1>3 DEF NodesOf

LEMMA ElemsType ==
  ASSUME NEW S, NEW s \in Seq(S)
  PROVE  NodesOf(s) \subseteq S /\ Len(s) \in Nat
BY DEF NodesOf

LEMMA ReachesItself == \A a \in Names : LeadsTo(a, a)
  BY DEF LeadsTo

LEMMA ReachesRef ==
  ASSUME NEW a \in Names, NEW b \in Names, b \in EdgesOf(a)
  PROVE  LeadsTo(a, b)
  BY DEF LeadsTo, ClosedUnder, EdgesOf

LEMMA ReachesThrough ==
  ASSUME NEW a \in Names, NEW b \in Names, NEW c \in Names, LeadsTo(a, b), LeadsTo(b, c)
  PROVE  LeadsTo(a, c)
  BY DEF LeadsTo, ClosedUnder

\* The edges do not change, and neither does what they reach.
LEMMA ReachesKept ==
  ASSUME UNCHANGED deps
  PROVE  /\ \A a, b \in Names : LeadsTo(a, b)' <=> LeadsTo(a, b)
         /\ \A v \in Names : EdgesOf(v)' = EdgesOf(v)
  BY DEF LeadsTo, ClosedUnder, EdgesOf, NodesOf

-----------------------------------------------------------------------------
(***************************************************************************)
(* The parts of a state                                                    *)
(***************************************************************************)
LEMMA RefsTyped ==
  ASSUME SearchTypeOK, NEW v \in Names
  PROVE  deps[v] \in Seq(Names) /\ EdgesOf(v) \subseteq Names
<1>1. deps[v] \in Seq(Names)
  BY DEF SearchTypeOK
<1> QED
  BY <1>1, ElemsType DEF EdgesOf

LEMMA CallTyped ==
  ASSUME SearchTypeOK, NEW i \in 1..Len(calls)
  PROVE  calls[i].node \in Names /\ calls[i].left \in Seq(Names) /\ calls[i] \in Frames
<1>1. calls \in Seq(Frames)
  BY DEF SearchTypeOK, Frames
<1>2. calls[i] \in Frames
  BY <1>1
<1> QED
  BY <1>2 DEF Frames

LEMMA TopTyped ==
  ASSUME SearchTypeOK, calls # << >>
  PROVE  /\ calls \in Seq(Frames) /\ Len(calls) \in Nat \ {0} /\ Len(calls) \in 1..Len(calls)
         /\ Current = calls[Len(calls)] 
         /\ Current.node \in Names /\ Current.left \in Seq(Names) /\ Current \in Frames
<1>1. calls \in Seq(Frames)
  BY DEF SearchTypeOK, Frames
<1>2. Len(calls) \in Nat \ {0} /\ Len(calls) \in 1..Len(calls)
  BY <1>1
<1> QED
  BY <1>1, <1>2, CallTyped DEF Current

LEMMA SetsTyped ==
  ASSUME SearchTypeOK
  PROVE  OnStack \subseteq Names /\ Found \subseteq Names /\ Discovered \subseteq Names
<1>1. pending \in Seq(Names) /\ sccs \in Seq(Seq(Names))
  BY DEF SearchTypeOK
<1>2. \A k \in 1..Len(sccs) : sccs[k] \in Seq(Names)
  BY <1>1
<1>3. \A k \in 1..Len(sccs) : NodesOf(sccs[k]) \subseteq Names
  BY <1>2, ElemsType
<1> QED
  BY <1>1, <1>3, ElemsType DEF OnStack, Found, Discovered

\* The nodes found are discovered before the others of their kind.
LEMMA Counted ==
  ASSUME SearchTypeOK
  PROVE  IsFiniteSet(Names) /\ Cardinality(Names) = Size /\ IsFiniteSet(Discovered)
         /\ Cardinality(Discovered) \in 0..Size
<1>1. Size \in Nat
  BY NamesAssumption
<1>2. IsFiniteSet(Names) /\ Cardinality(Names) = Size
  BY <1>1, FS_Interval DEF Names
<1>3. IsFiniteSet(Discovered) /\ Cardinality(Discovered) <= Cardinality(Names)
  BY <1>2, SetsTyped, FS_Subset
<1> QED
  BY <1>1, <1>2, <1>3, FS_CardinalityType

\* What lies on the stack lies there once, in the order of the numbers.
LEMMA StackOrder ==
  ASSUME SearchTypeOK
  PROVE  /\ \A j \in 1..Len(pending) : pending[j] \in Names /\ index[pending[j]] \in Nat
         /\ \A j, k \in 1..Len(pending) : pending[j] = pending[k] => j = k
         /\ \A j, k \in 1..Len(pending) : j < k <=> index[pending[j]] < index[pending[k]]
<1>1. pending \in Seq(Names) /\ index \in [Names -> 0..Size] /\ Size \in Nat /\ Len(pending) \in Nat
  BY NamesAssumption DEF SearchTypeOK
<1>2. \A j \in 1..Len(pending) : pending[j] \in Names /\ index[pending[j]] \in Nat
  BY <1>1
<1>3. \A j, k \in 1..Len(pending) : j < k => index[pending[j]] < index[pending[k]]
  BY DEF SearchTypeOK
<1>4. ASSUME NEW j \in 1..Len(pending), NEW k \in 1..Len(pending)
      PROVE  (pending[j] = pending[k] => j = k) /\ (j < k <=> index[pending[j]] < index[pending[k]])
  <2>1. j < k \/ j = k \/ k < j
    BY <1>1
  <2>2. index[pending[j]] \in Nat /\ index[pending[k]] \in Nat
    BY <1>2
  <2> QED
    BY <1>3, <2>1, <2>2
<1> QED
  BY <1>2, <1>4

\* What the root of a component pops, and what it leaves.
LEMMA Popping ==
  ASSUME SearchTypeOK, NEW v \in OnStack
  PROVE  LET comp == PoppedTo(v)
             below == SubSeq(pending, 1, Len(pending) - Len(comp))
         IN  /\ comp \in Seq(Names) /\ below \in Seq(Names)
             /\ NodesOf(comp) = { x \in OnStack : index[x] >= index[v] }
             /\ NodesOf(below) = { x \in OnStack : index[x] < index[v] }
             /\ \A p, q \in 1..Len(comp) : comp[p] = comp[q] => p = q
             /\ \A j, k \in 1..Len(below) : j < k => index[below[j]] < index[below[k]]
<1> DEFINE comp == PoppedTo(v)
           n == Len(pending)
           at == CHOOSE k \in 1..n : pending[k] = v
           below == SubSeq(pending, 1, n - Len(comp))
<1>1. pending \in Seq(Names) /\ n \in Nat
  BY DEF SearchTypeOK
<1>2. at \in 1..n /\ pending[at] = v
  BY DEF OnStack, NodesOf
<1>3. comp = [k \in 1..(n - at + 1) |-> pending[n - k + 1]]
  BY DEF PoppedTo
<1> HIDE DEF at, comp
<1>4. n - at + 1 \in Nat /\ \A k \in 1..(n - at + 1) : n - k + 1 \in at..n /\ n - k + 1 \in 1..n
  BY <1>1, <1>2
<1>5. /\ comp \in Seq(Names) /\ Len(comp) = n - at + 1
      /\ \A k \in 1..(n - at + 1) : comp[k] = pending[n - k + 1]
  BY <1>1, <1>3, <1>4
<1>6. n - Len(comp) = at - 1 /\ at - 1 \in 0..n
  BY <1>1, <1>2, <1>5
<1>7. /\ below \in Seq(Names) /\ Len(below) = at - 1
      /\ \A k \in 1..(at - 1) : below[k] = pending[k] /\ k \in 1..n
  BY <1>1, <1>2, <1>6
<1> HIDE DEF below
<1>8. \A k \in 1..n : /\ k >= at <=> index[pending[k]] >= index[v]
                      /\ k < at <=> index[pending[k]] < index[v]
  BY <1>1, <1>2, StackOrder
<1>9. NodesOf(comp) = { x \in OnStack : index[x] >= index[v] }
  <2>1. ASSUME NEW k \in 1..Len(comp) PROVE comp[k] \in { x \in OnStack : index[x] >= index[v] }
    <3>1. comp[k] = pending[n - k + 1] /\ n - k + 1 \in 1..n /\ n - k + 1 >= at
      BY <1>4, <1>5
    <3> QED
      BY <1>8, <3>1 DEF OnStack, NodesOf
  <2>2. ASSUME NEW k \in 1..n, index[pending[k]] >= index[v] PROVE pending[k] \in NodesOf(comp)
    <3>1. k >= at
      BY <1>8, <2>2
    <3>2. n - k + 1 \in 1..Len(comp) /\ n - (n - k + 1) + 1 = k
      BY <1>1, <1>2, <1>5, <3>1
    <3>3. comp[n - k + 1] = pending[k]
      BY <1>5, <3>2
    <3> QED
      BY <3>2, <3>3 DEF NodesOf
  <2> QED
    BY <2>1, <2>2 DEF OnStack, NodesOf
<1>10. NodesOf(below) = { x \in OnStack : index[x] < index[v] }
  <2>1. ASSUME NEW k \in 1..Len(below) PROVE below[k] \in { x \in OnStack : index[x] < index[v] }
    <3>1. below[k] = pending[k] /\ k \in 1..n /\ k < at
      BY <1>2, <1>7
    <3> QED
      BY <1>8, <3>1 DEF OnStack, NodesOf
  <2>2. ASSUME NEW k \in 1..n, index[pending[k]] < index[v] PROVE pending[k] \in NodesOf(below)
    <3>1. k \in 1..Len(below)
      BY <1>2, <1>7, <1>8, <2>2
    <3> QED
      BY <1>7, <3>1 DEF NodesOf
  <2> QED
    BY <2>1, <2>2 DEF OnStack, NodesOf
<1>11. ASSUME NEW p \in 1..Len(comp), NEW q \in 1..Len(comp), comp[p] = comp[q] PROVE p = q
  <2>1. /\ n - p + 1 \in 1..n /\ n - q + 1 \in 1..n
        /\ pending[n - p + 1] = pending[n - q + 1]
    BY <1>4, <1>5, <1>11
  <2>2. n - p + 1 = n - q + 1
    BY <2>1, StackOrder
  <2> QED
    BY <1>1, <2>2
<1>12. \A j, k \in 1..Len(below) : j < k => index[below[j]] < index[below[k]]
  BY <1>7, StackOrder
<1> QED
  BY <1>5, <1>7, <1>9, <1>10, <1>11, <1>12 DEF comp, below

-----------------------------------------------------------------------------
(***************************************************************************)
(* strongconnect is entered                                                *)
(***************************************************************************)
\* v is entered, for the edge the innermost call is at; it has the highest number.
LEMMA EnterSearched ==
  ASSUME SearchTypeOK, calls \in Seq(Frames), OnStack \in SUBSET Names,
         index \in [Names -> Nat], lowlink \in [Names -> Nat],
         Searched(calls, index, lowlink, OnStack, Found),
         NEW v \in Names, v \notin OnStack,
         calls # << >> => calls[Len(calls)].left # << >> /\ v = Head(calls[Len(calls)].left),
         NEW cs2 \in Seq(Frames), cs2 = Append(calls, [node |-> v, left |-> deps[v]]),
         NEW ix2 \in [Names -> Nat], NEW low2 \in [Names -> Nat],
         NEW open2, \A x : x \in open2 <=> x \in OnStack \/ x = v,
         \A u \in Names : u # v => ix2[u] = index[u] /\ low2[u] = lowlink[u] /\ ix2[u] < ix2[v],
         low2[v] = ix2[v]
  PROVE  Searched(cs2, ix2, low2, open2, Found)
<1> SUFFICES ASSUME open2 = OnStack \cup {v} PROVE Searched(cs2, ix2, low2, open2, Found)
  OBVIOUS
<1> DEFINE n == Len(calls)
<1>1. /\ n \in Nat /\ Len(cs2) = n + 1 /\ \A i \in 1..n : cs2[i] = calls[i] /\ calls[i] \in Frames
      /\ cs2[n + 1].node = v /\ cs2[n + 1].left = deps[v]
  OBVIOUS
<1>2. \A i \in 1..n : calls[i].node \in Names /\ calls[i].left \in Seq(Names)
  BY <1>1 DEF Frames
<1>3. \A i \in 1..n : /\ calls[i].node \in OnStack /\ calls[i].node # v
                      /\ ix2[calls[i].node] = index[calls[i].node] /\ low2[calls[i].node] = lowlink[calls[i].node]
                      /\ ix2[calls[i].node] < ix2[v]
  BY <1>2 DEF Searched, Nested
<1>4. \A x \in OnStack : x # v /\ x \in Names /\ ix2[x] = index[x] /\ ix2[x] < ix2[v]
  OBVIOUS
<1>5. n # 0 => /\ n \in 1..n /\ calls[n].left # << >> /\ Head(calls[n].left) = v /\ v \in EdgesOf(calls[n].node)
  <2> SUFFICES ASSUME n # 0
               PROVE  /\ n \in 1..n /\ calls[n].left # << >> /\ Head(calls[n].left) = v /\ v \in EdgesOf(calls[n].node)
    OBVIOUS
  <2>1. calls # << >> /\ n \in 1..n
    BY <1>1
  <2>2. v \in NodesOf(calls[n].left)
    BY <1>2, <2>1, ElemsHeadTail
  <2> QED
    BY <2>1, <2>2 DEF Searched, Nested
<1>6. \A i \in 1..Len(cs2) : i \in 1..n \/ i = n + 1
  BY <1>1
<1>7. ix2[v] \in Nat /\ \A x \in Names : ix2[x] \in Nat /\ index[x] \in Nat
  OBVIOUS
<1>8. \A x \in open2 : x \in OnStack \/ x = v
  OBVIOUS
<1>9. n + 1 \in 1..Len(cs2) /\ \A i \in 1..n : i \in 1..Len(cs2) /\ i < n + 1
  BY <1>1
<1>10. /\ Nested(calls, index, OnStack) /\ EdgesAllowed(calls, index, lowlink, OnStack, Found)
       /\ LowReached(calls, index, lowlink, OnStack) /\ AboveReached(calls, index, OnStack) /\ CallReached(calls, index, OnStack)
  BY DEF Searched
<1>11. cs2 \in Seq(Frames) /\ open2 = OnStack \cup {v} /\ v \in Names
  OBVIOUS
<1> HIDE DEF n
<1>12. Nested(cs2, ix2, open2)
  <2>1. ASSUME NEW i \in 1..n
        PROVE  /\ cs2[i].node \in open2 /\ NodesOf(cs2[i].left) \subseteq EdgesOf(cs2[i].node)
               /\ cs2[i].left # << >> /\ Head(cs2[i].left) = cs2[i + 1].node
    <3>1. cs2[i] = calls[i] /\ calls[i].node \in open2 /\ NodesOf(calls[i].left) \subseteq EdgesOf(calls[i].node)
      BY <1>1, <1>3, <1>10 DEF Nested, n
    <3>2. CASE i = n
      BY <1>1, <1>5, <3>1, <3>2
    <3>3. CASE i # n
      <4>1. i + 1 \in 1..n /\ i < n
        BY <1>1, <3>3
      <4>2. calls[i].left # << >> /\ Head(calls[i].left) = calls[i + 1].node
        BY <1>10, <4>1 DEF Nested, n
      <4> QED
        BY <1>1, <3>1, <4>1, <4>2
    <3> QED
      BY <3>2, <3>3
  <2>2. ASSUME NEW i \in 1..n, NEW j \in 1..Len(cs2), i < j
        PROVE  ix2[cs2[i].node] < ix2[cs2[j].node]
    <3>1. CASE j = n + 1
      BY <1>1, <1>3, <3>1
    <3>2. CASE j \in 1..n
      <4>1. index[calls[i].node] < index[calls[j].node]
        BY <1>10, <2>2, <3>2 DEF Nested, n
      <4> QED
        BY <1>1, <1>3, <3>2, <4>1
    <3> QED
      BY <1>6, <3>1, <3>2
  <2>3. cs2[n + 1].node \in open2 /\ NodesOf(cs2[n + 1].left) \subseteq EdgesOf(cs2[n + 1].node)
    BY <1>1, <1>11 DEF EdgesOf
  <2>4. ASSUME NEW i \in 1..Len(cs2)
        PROVE  /\ cs2[i].node \in open2 /\ NodesOf(cs2[i].left) \subseteq EdgesOf(cs2[i].node)
               /\ i < Len(cs2) => cs2[i].left # << >> /\ Head(cs2[i].left) = cs2[i + 1].node
               /\ \A j \in 1..Len(cs2) : i < j => ix2[cs2[i].node] < ix2[cs2[j].node]
    <3>1. CASE i = n + 1
      <4>1. ~(i < Len(cs2)) /\ \A j \in 1..Len(cs2) : ~(i < j)
        BY <1>1, <3>1
      <4> QED
        BY <2>3, <3>1, <4>1
    <3>2. CASE i \in 1..n
      BY <2>1, <2>2, <3>2
    <3> QED
      BY <1>6, <3>1, <3>2
  <2> QED
    BY <2>4 DEF Nested
<1>13. EdgesAllowed(cs2, ix2, low2, open2, Found)
  <2>1. ASSUME NEW i \in 1..n, NEW w, Allowed(w, lowlink[calls[i].node], index, OnStack, Found)
        PROVE  Allowed(w, low2[cs2[i].node], ix2, open2, Found)
    BY <1>1, <1>3, <1>4, <1>11, <2>1 DEF Allowed
  <2>2. ASSUME NEW i \in 1..n, NEW w \in EdgesOf(cs2[i].node)
        PROVE  w \in NodesOf(cs2[i].left) \/ Allowed(w, low2[cs2[i].node], ix2, open2, Found)
    <3>1. w \in NodesOf(calls[i].left) \/ Allowed(w, lowlink[calls[i].node], index, OnStack, Found)
      BY <1>1, <1>10, <2>2 DEF EdgesAllowed, n
    <3> QED
      BY <1>1, <2>1, <3>1
  <2>3. ASSUME NEW i \in 1..n, NEW x \in open2, Within(x, i, cs2, ix2), NEW w \in EdgesOf(x)
        PROVE  Allowed(w, low2[cs2[i].node], ix2, open2, Found)
    <3>1. ix2[x] < ix2[v]
      BY <1>1, <1>9, <2>3 DEF Within
    <3>2. x \in OnStack
      BY <1>7, <1>8, <3>1
    <3>3. Within(x, i, calls, index)
      <4>1. index[x] > index[calls[i].node]
        BY <1>1, <1>3, <1>4, <2>3, <3>2 DEF Within
      <4>2. ASSUME NEW j \in 1..n, i < j PROVE index[x] < index[calls[j].node]
        BY <1>1, <1>3, <1>4, <1>9, <2>3, <3>2, <4>2 DEF Within
      <4> QED
        BY <4>1, <4>2 DEF Within, n
    <3>4. Allowed(w, lowlink[calls[i].node], index, OnStack, Found)
      BY <1>10, <2>3, <3>2, <3>3 DEF EdgesAllowed, n
    <3> QED
      BY <2>1, <3>4
  <2>4. \A w \in EdgesOf(cs2[n + 1].node) : w \in NodesOf(cs2[n + 1].left)
    BY <1>1 DEF EdgesOf
  <2>5. ASSUME NEW x \in open2, Within(x, n + 1, cs2, ix2) PROVE FALSE
    BY <1>1, <1>4, <1>7, <1>8, <2>5 DEF Within
  <2> QED
    BY <1>6, <2>2, <2>3, <2>4, <2>5, ZenonT(60) DEF EdgesAllowed
<1>14. LowReached(cs2, ix2, low2, open2)
  <2>1. ASSUME NEW i \in 1..n
        PROVE  \E y \in open2 : ix2[y] = low2[cs2[i].node] /\ LeadsTo(cs2[i].node, y)
    <3>1. PICK y \in OnStack : index[y] = lowlink[calls[i].node] /\ LeadsTo(calls[i].node, y)
      BY <1>10 DEF LowReached, n
    <3>2. y \in open2 /\ ix2[y] = low2[cs2[i].node] /\ LeadsTo(cs2[i].node, y)
      BY <1>1, <1>3, <1>4, <1>11, <3>1
    <3> QED
      BY <3>2
  <2>2. ix2[v] = low2[cs2[n + 1].node] /\ LeadsTo(cs2[n + 1].node, v) /\ v \in open2
    BY <1>1, <1>11, ReachesItself
  <2> QED
    BY <1>6, <2>1, <2>2 DEF LowReached
<1>15. AboveReached(cs2, ix2, open2)
  <2>1. ASSUME NEW i \in 1..n, NEW x \in open2, ix2[x] >= ix2[cs2[i].node] PROVE LeadsTo(cs2[i].node, x)
    <3>1. CASE x \in OnStack
      BY <1>1, <1>3, <1>4, <1>10, <2>1, <3>1 DEF AboveReached, n
    <3>2. CASE x = v
      <4>1. n \in 1..n /\ calls[n].node \in Names /\ v \in EdgesOf(calls[n].node)
        <5>1. n \in 1..n
          BY <1>1, <1>2, <1>5
        <5> QED
          BY <1>1, <1>2, <1>5, <5>1
      <4>2. index[calls[n].node] >= index[calls[i].node]
        <5>1. i = n \/ i < n
          BY <1>1
        <5>2. i < n => index[calls[i].node] < index[calls[n].node]
          BY <1>10, <4>1 DEF Nested, n
        <5>3. index[calls[i].node] \in Nat /\ index[calls[n].node] \in Nat
          BY <1>2, <1>7, <4>1
        <5>4. CASE i = n
          BY <5>3, <5>4
        <5>5. CASE i < n
          <6>1. \A a, b \in Nat : a < b => b >= a
            OBVIOUS
          <6> QED
            BY <5>2, <5>3, <5>5, <6>1, Zenon
        <5> QED
          BY <5>1, <5>4, <5>5
      <4>3. LeadsTo(calls[i].node, calls[n].node)
        BY <1>3, <1>10, <4>1, <4>2 DEF AboveReached, n
      <4>4. LeadsTo(calls[n].node, v)
        BY <1>11, <4>1, ReachesRef
      <4>5. calls[i].node \in Names
        BY <1>2
      <4>6. LeadsTo(calls[i].node, v)
        BY <1>11, <4>1, <4>3, <4>4, <4>5, ReachesThrough
      <4> QED
        BY <1>1, <3>2, <4>6
    <3> QED
      BY <1>8, <3>1, <3>2
  <2>2. ASSUME NEW x \in open2, ix2[x] >= ix2[cs2[n + 1].node] PROVE LeadsTo(cs2[n + 1].node, x)
    <3>1. x = v
      BY <1>1, <1>4, <1>7, <1>8, <2>2
    <3> QED
      BY <1>1, <1>11, <3>1, ReachesItself
  <2> QED
    BY <1>6, <2>1, <2>2 DEF AboveReached
<1>16. CallReached(cs2, ix2, open2)
  <2>1. ASSUME NEW x \in OnStack
        PROVE  \E i \in 1..Len(cs2) : ix2[cs2[i].node] <= ix2[x] /\ LeadsTo(x, cs2[i].node)
    <3>1. PICK i \in 1..n : index[calls[i].node] <= index[x] /\ LeadsTo(x, calls[i].node)
      BY <1>10 DEF CallReached, n
    <3>2. cs2[i].node = calls[i].node /\ i \in 1..Len(cs2)
      BY <1>1, <1>3, <1>9
    <3>3. ix2[cs2[i].node] = index[calls[i].node] /\ ix2[x] = index[x]
      BY <1>1, <1>3, <1>4, <3>2
    <3> QED
      BY <3>1, <3>2, <3>3, Zenon
  <2>2. ix2[cs2[n + 1].node] <= ix2[v] /\ LeadsTo(v, cs2[n + 1].node)
    BY <1>1, <1>7, <1>11, ReachesItself
  <2> QED
    BY <1>8, <1>9, <2>1, <2>2 DEF CallReached
<1> QED
  BY <1>12, <1>13, <1>14, <1>15, <1>16 DEF Searched

-----------------------------------------------------------------------------
(***************************************************************************)
(* The loop of strongconnect, and what is behind it                        *)
(***************************************************************************)
\* The innermost call goes on to its next edge.
LEMMA AdvanceSearched ==
  ASSUME NEW cs \in Seq(Frames), NEW cs2 \in Seq(Frames),
         NEW ix, NEW low, NEW open, NEW found,
         Searched(cs, ix, low, open, found),
         cs # << >>, cs[Len(cs)].left # << >>,
         Allowed(Head(cs[Len(cs)].left), low[cs[Len(cs)].node], ix, open, found),
         cs2 = [cs EXCEPT ![Len(cs)].left = Tail(@)]
  PROVE  Searched(cs2, ix, low, open, found)
<1> DEFINE n == Len(cs)
<1>1. /\ n \in Nat /\ n \in 1..n /\ Len(cs2) = n /\ cs[n] \in Frames
      /\ \A i \in 1..n : i # n => cs2[i] = cs[i]
      /\ cs2[n].node = cs[n].node /\ cs2[n].left = Tail(cs[n].left)
  OBVIOUS
<1>2. cs[n].left \in Seq(Names)
  BY <1>1 DEF Frames
<1>3. NodesOf(cs[n].left) = NodesOf(cs2[n].left) \cup {Head(cs[n].left)}
  BY <1>1, <1>2, ElemsHeadTail
<1>4. /\ Nested(cs, ix, open) /\ EdgesAllowed(cs, ix, low, open, found)
      /\ LowReached(cs, ix, low, open) /\ AboveReached(cs, ix, open) /\ CallReached(cs, ix, open)
  BY DEF Searched
<1>5. \A i \in 1..n : cs2[i].node = cs[i].node
  BY <1>1
<1>6. Allowed(Head(cs[n].left), low[cs[n].node], ix, open, found)
  OBVIOUS
<1> HIDE DEF n
<1>7. Nested(cs2, ix, open)
  <2>1. ASSUME NEW i \in 1..n
        PROVE  /\ cs2[i].node \in open /\ NodesOf(cs2[i].left) \subseteq EdgesOf(cs2[i].node)
               /\ i < n => cs2[i].left # << >> /\ Head(cs2[i].left) = cs2[i + 1].node
               /\ \A j \in 1..n : i < j => ix[cs2[i].node] < ix[cs2[j].node]
    <3>1. /\ cs[i].node \in open /\ NodesOf(cs[i].left) \subseteq EdgesOf(cs[i].node)
          /\ i < n => cs[i].left # << >> /\ Head(cs[i].left) = cs[i + 1].node
          /\ \A j \in 1..n : i < j => ix[cs[i].node] < ix[cs[j].node]
      BY <1>4 DEF Nested, n
    <3>2. CASE i = n
      BY <1>1, <1>3, <1>5, <3>1, <3>2
    <3>3. CASE i # n
      <4>1. i < n /\ i + 1 \in 1..n
        BY <1>1, <3>3
      <4> QED
        BY <1>1, <1>5, <3>1, <3>3, <4>1
    <3> QED
      BY <3>2, <3>3
  <2> QED
    BY <1>1, <2>1 DEF Nested
<1>8. EdgesAllowed(cs2, ix, low, open, found)
  <2>1. ASSUME NEW i \in 1..n, NEW w \in EdgesOf(cs2[i].node)
        PROVE  w \in NodesOf(cs2[i].left) \/ Allowed(w, low[cs2[i].node], ix, open, found)
    <3>1. w \in NodesOf(cs[i].left) \/ Allowed(w, low[cs[i].node], ix, open, found)
      BY <1>4, <1>5, <2>1 DEF EdgesAllowed, n
    <3> QED
      BY <1>1, <1>3, <1>5, <1>6, <3>1
  <2>2. ASSUME NEW i \in 1..n, NEW x \in open, Within(x, i, cs2, ix), NEW w \in EdgesOf(x)
        PROVE  Allowed(w, low[cs2[i].node], ix, open, found)
    <3>1. Within(x, i, cs, ix)
      BY <1>1, <1>5, <2>2 DEF Within, n
    <3> QED
      BY <1>4, <1>5, <2>2, <3>1 DEF EdgesAllowed, n
  <2> QED
    BY <1>1, <2>1, <2>2 DEF EdgesAllowed
<1>9. LowReached(cs2, ix, low, open)
  BY <1>1, <1>4, <1>5 DEF LowReached, n
<1>10. AboveReached(cs2, ix, open)
  BY <1>1, <1>4, <1>5 DEF AboveReached, n
<1>11. CallReached(cs2, ix, open)
  BY <1>1, <1>4, <1>5 DEF CallReached, n
<1> QED
  BY <1>7, <1>8, <1>9, <1>10, <1>11 DEF Searched

\* A lowlink may become the lower number of another open node within reach.
LEMMA LowerSearched ==
  ASSUME calls \in Seq(Frames), OnStack \in SUBSET Names,
         index \in [Names -> Nat], lowlink \in [Names -> Nat],
         Searched(calls, index, lowlink, OnStack, Found),
         NEW low2 \in [Names -> Nat], NEW v \in Names, NEW y \in OnStack,
         low2[v] = index[y], LeadsTo(v, y), low2[v] <= lowlink[v],
         \A u \in Names : u # v => low2[u] = lowlink[u]
  PROVE  Searched(calls, index, low2, OnStack, Found)
<1> DEFINE n == Len(calls)
<1>1. \A i \in 1..n : calls[i].node \in Names
  <2>1. \A i \in 1..n : calls[i] \in Frames
    OBVIOUS
  <2> QED
    BY <2>1 DEF Frames
<1>2. EdgesAllowed(calls, index, low2, OnStack, Found)
  <2>1. ASSUME NEW i \in 1..n, NEW w, Allowed(w, lowlink[calls[i].node], index, OnStack, Found)
        PROVE  Allowed(w, low2[calls[i].node], index, OnStack, Found)
    <3>1. low2[calls[i].node] <= lowlink[calls[i].node] /\ lowlink[calls[i].node] \in Nat /\ low2[calls[i].node] \in Nat
      <4>1. PICK u \in Names : u = calls[i].node
        BY <1>1
      <4>2. lowlink[u] \in Nat /\ low2[u] \in Nat
        OBVIOUS
      <4>3. low2[u] <= lowlink[u]
        <5>1. CASE u = v
          BY <5>1
        <5>2. CASE u # v
          <6>1. low2[u] = lowlink[u]
            BY <5>2
          <6> QED
            BY <4>2, <6>1
        <5> QED
          BY <5>1, <5>2
      <4> QED
        BY <4>1, <4>2, <4>3
    <3>2. w \in OnStack => index[w] \in Nat
      OBVIOUS
    <3> QED
      BY <2>1, <3>1, <3>2 DEF Allowed
  <2> QED
    BY <2>1 DEF Searched, EdgesAllowed
<1>3. LowReached(calls, index, low2, OnStack)
  <2>1. ASSUME NEW i \in 1..n PROVE \E z \in OnStack : index[z] = low2[calls[i].node] /\ LeadsTo(calls[i].node, z)
    <3>1. CASE calls[i].node = v
      BY <3>1
    <3>2. CASE calls[i].node # v
      BY <1>1, <3>2 DEF Searched, LowReached
    <3> QED
      BY <3>1, <3>2
  <2> QED
    BY <2>1 DEF LowReached
<1> QED
  BY <1>2, <1>3 DEF Searched

\* The calls but the innermost.
Front == SubSeq(calls, 1, Len(calls) - 1)

LEMMA Outer ==
  ASSUME NEW cs \in Seq(Frames), cs # << >>
  PROVE  /\ Len(cs) \in Nat /\ Len(cs) \in 1..Len(cs)
         /\ Len(SubSeq(cs, 1, Len(cs) - 1)) = Len(cs) - 1 /\ SubSeq(cs, 1, Len(cs) - 1) \in Seq(Frames)
         /\ \A i \in 1..(Len(cs) - 1) : SubSeq(cs, 1, Len(cs) - 1)[i] = cs[i] /\ i \in 1..Len(cs) /\ i < Len(cs)
         /\ \A i \in 1..Len(cs) : cs[i] \in Frames /\ cs[i].node \in Names /\ (i = Len(cs) \/ i \in 1..(Len(cs) - 1))
<1>1. /\ Len(cs) \in Nat /\ Len(cs) - 1 \in 0..Len(cs) /\ Len(cs) \in 1..Len(cs)
      /\ \A i \in 1..Len(cs) : cs[i] \in Frames
  OBVIOUS
<1>2. \A m \in 0..Len(cs) : /\ SubSeq(cs, 1, m) \in Seq(Frames) /\ Len(SubSeq(cs, 1, m)) = m
                            /\ \A i \in 1..m : SubSeq(cs, 1, m)[i] = cs[i]
  OBVIOUS
<1>3. /\ Len(SubSeq(cs, 1, Len(cs) - 1)) = Len(cs) - 1 /\ SubSeq(cs, 1, Len(cs) - 1) \in Seq(Frames)
      /\ \A i \in 1..(Len(cs) - 1) : SubSeq(cs, 1, Len(cs) - 1)[i] = cs[i]
  BY <1>1, <1>2, Zenon
<1>4. \A i \in 1..Len(cs) : cs[i].node \in Names
  BY <1>1 DEF Frames
<1>5. /\ \A i \in 1..(Len(cs) - 1) : i \in 1..Len(cs) /\ i < Len(cs)
      /\ \A i \in 1..Len(cs) : i = Len(cs) \/ i \in 1..(Len(cs) - 1)
  BY <1>1
<1> QED
  BY <1>1, <1>3, <1>4, <1>5, Zenon

\* What the innermost call has discovered passes to the one before, if that has
\* taken over its lowlink.
LEMMA ReturnSearched ==
  ASSUME calls \in Seq(Frames), calls # << >>, OnStack \in SUBSET Names, index \in [Names -> Nat],
         \A a, b \in OnStack : index[a] = index[b] => a = b,
         NEW low \in [Names -> Nat],
         Searched(calls, index, low, OnStack, Found),
         NEW c, c = calls[Len(calls)].node, calls[Len(calls)].left = << >>, low[c] < index[c],
         Len(calls) > 1 => low[calls[Len(calls) - 1].node] <= low[c]
  PROVE  Len(calls) > 1 /\ Searched(Front, index, low, OnStack, Found)
<1> DEFINE n == Len(calls)
<1>1. /\ n \in Nat /\ n \in 1..n /\ Len(Front) = n - 1
      /\ \A i \in 1..(n - 1) : Front[i] = calls[i] /\ i \in 1..n /\ i < n
      /\ \A i \in 1..n : calls[i] \in Frames /\ calls[i].node \in Names /\ (i = n \/ i \in 1..(n - 1))
  BY Outer DEF Front
<1>2. /\ Nested(calls, index, OnStack) /\ EdgesAllowed(calls, index, low, OnStack, Found)
      /\ LowReached(calls, index, low, OnStack) /\ AboveReached(calls, index, OnStack) /\ CallReached(calls, index, OnStack)
  BY DEF Searched
<1>3. /\ c \in Names /\ c \in OnStack /\ index[c] \in Nat
      /\ \A x \in OnStack : x \in Names /\ index[x] \in Nat
  BY <1>1, <1>2 DEF Nested
<1>4. \A i \in 1..(n - 1) : index[calls[i].node] < index[c] /\ index[calls[i].node] \in Nat
  BY <1>1, <1>2 DEF Nested
<1>5. PICK y \in OnStack : index[y] = low[c] /\ LeadsTo(c, y)
  BY <1>1, <1>2 DEF LowReached
<1>6. PICK q \in 1..n : index[calls[q].node] <= index[y] /\ LeadsTo(y, calls[q].node)
  BY <1>2 DEF CallReached
<1>7. q \in 1..(n - 1)
  <2>1. index[calls[q].node] < index[c]
    BY <1>1, <1>3, <1>5, <1>6
  <2> QED
    BY <1>1, <1>3, <2>1
<1>8. n > 1 /\ n - 1 \in 1..(n - 1)
  BY <1>1, <1>7
<1>9. Nested(Front, index, OnStack)
  <2>1. ASSUME NEW i \in 1..(n - 1)
        PROVE  /\ Front[i].node \in OnStack /\ NodesOf(Front[i].left) \subseteq EdgesOf(Front[i].node)
               /\ i < n - 1 => Front[i].left # << >> /\ Head(Front[i].left) = Front[i + 1].node
               /\ \A j \in 1..(n - 1) : i < j => index[Front[i].node] < index[Front[j].node]
    <3>1. i \in 1..n /\ i < n /\ Front[i] = calls[i] /\ (i < n - 1 => i + 1 \in 1..(n - 1))
      BY <1>1, SMTT(40)
    <3>2. /\ calls[i].node \in OnStack /\ NodesOf(calls[i].left) \subseteq EdgesOf(calls[i].node)
          /\ calls[i].left # << >> /\ Head(calls[i].left) = calls[i + 1].node
          /\ \A j \in 1..n : i < j => index[calls[i].node] < index[calls[j].node]
      BY <1>2, <3>1 DEF Nested
    <3> QED
      BY <1>1, <3>1, <3>2
  <2> QED
    BY <1>1, <2>1 DEF Nested
<1>10. ASSUME NEW w, Allowed(w, low[c], index, OnStack, Found) PROVE Allowed(w, low[calls[n - 1].node], index, OnStack, Found)
  <2>1. low[calls[n - 1].node] <= low[c] /\ low[c] \in Nat /\ low[calls[n - 1].node] \in Nat
    BY <1>1, <1>3, <1>8
  <2> QED
    BY <1>3, <1>10, <2>1 DEF Allowed
<1>11. EdgesAllowed(Front, index, low, OnStack, Found)
  <2>1. ASSUME NEW i \in 1..(n - 1), NEW w \in EdgesOf(Front[i].node)
        PROVE  w \in NodesOf(Front[i].left) \/ Allowed(w, low[Front[i].node], index, OnStack, Found)
    BY <1>1, <1>2, <2>1 DEF EdgesAllowed
  <2>2. ASSUME NEW i \in 1..(n - 1), NEW x \in OnStack, Within(x, i, Front, index), NEW w \in EdgesOf(x)
        PROVE  Allowed(w, low[Front[i].node], index, OnStack, Found)
    <3>1. CASE Within(x, i, calls, index)
      BY <1>1, <1>2, <2>2, <3>1 DEF EdgesAllowed
    <3>2. CASE ~Within(x, i, calls, index)
      <4>1. index[x] > index[calls[i].node] /\ \A j \in 1..(n - 1) : i < j => index[x] < index[calls[j].node]
        BY <1>1, <2>2 DEF Within
      <4>2. ~(index[x] < index[c])
        <5>1. PICK j \in 1..n : i < j /\ ~(index[x] < index[calls[j].node])
          BY <3>2, <4>1 DEF Within
        <5>2. j = n
          BY <1>1, <4>1, <5>1
        <5> QED
          BY <5>1, <5>2
      <4>3. i = n - 1
        <5>1. ASSUME i < n - 1 PROVE FALSE
          <6>1. index[x] < index[calls[n - 1].node]
            BY <1>8, <4>1, <5>1
          <6>2. index[calls[n - 1].node] < index[c] /\ index[calls[n - 1].node] \in Nat
            BY <1>4, <1>8
          <6>3. index[x] \in Nat /\ index[c] \in Nat
            BY <1>3
          <6> QED
            BY <4>2, <6>1, <6>2, <6>3
        <5> QED
          BY <1>1, <5>1
      <4>4. Allowed(w, low[c], index, OnStack, Found)
        <5>1. CASE x = c
          <6>1. NodesOf(calls[n].left) = {}
            BY DEF NodesOf
          <6> QED
            BY <1>1, <1>2, <2>2, <5>1, <6>1 DEF EdgesAllowed
        <5>2. CASE x # c
          <6>1. index[x] > index[c]
            BY <1>3, <4>2, <5>2
          <6>2. \A j \in 1..n : ~(n < j)
            BY <1>1
          <6>3. Within(x, n, calls, index)
            BY <6>1, <6>2 DEF Within
          <6> QED
            BY <1>1, <1>2, <2>2, <6>3 DEF EdgesAllowed
        <5> QED
          BY <5>1, <5>2
      <4>5. Allowed(w, low[calls[n - 1].node], index, OnStack, Found)
        BY <1>10, <4>4
      <4>6. Front[i] = calls[i]
        BY <1>1, Zenon
      <4> QED
        BY <4>3, <4>5, <4>6, Zenon
    <3> QED
      BY <3>1, <3>2
  <2> QED
    BY <1>1, <2>1, <2>2 DEF EdgesAllowed
<1>12. LowReached(Front, index, low, OnStack)
  BY <1>1, <1>2 DEF LowReached
<1>13. AboveReached(Front, index, OnStack)
  BY <1>1, <1>2 DEF AboveReached
<1>14. CallReached(Front, index, OnStack)
  <2>1. ASSUME NEW x \in OnStack PROVE \E i \in 1..(n - 1) : index[calls[i].node] <= index[x] /\ LeadsTo(x, calls[i].node)
    <3>1. PICK i \in 1..n : index[calls[i].node] <= index[x] /\ LeadsTo(x, calls[i].node)
      BY <1>2 DEF CallReached
    <3>2. CASE i \in 1..(n - 1)
      BY <3>1, <3>2
    <3>3. CASE i = n
      <4>1. LeadsTo(x, c) /\ LeadsTo(c, y) /\ LeadsTo(y, calls[q].node) /\ calls[q].node \in Names
        BY <1>1, <1>5, <1>6, <3>1, <3>3
      <4>2. LeadsTo(x, y)
        BY <1>3, <4>1, ReachesThrough
      <4>3. LeadsTo(x, calls[q].node)
        BY <1>3, <4>1, <4>2, ReachesThrough
      <4>4. index[calls[q].node] <= index[x]
        BY <1>3, <1>4, <1>7, <3>1, <3>3
      <4> QED
        BY <1>7, <4>3, <4>4
    <3> QED
      BY <1>1, <3>2, <3>3
  <2> QED
    BY <1>1, <2>1 DEF CallReached
<1> QED
  BY <1>8, <1>9, <1>11, <1>12, <1>13, <1>14 DEF Searched

\* The root of a component takes with it all that was discovered since.
Since(c) == { x \in OnStack : index[x] >= index[c] }

Taken(c, open2, found2) ==
  /\ Searched(Front, index, lowlink, open2, found2)
  /\ c \in Since(c)
  /\ \A x \in Since(c) : EdgesOf(x) \subseteq found2
  /\ \A a, b \in Since(c) : LeadsTo(a, b)

LEMMA CloseSearched ==
  ASSUME calls \in Seq(Frames), calls # << >>, OnStack \in SUBSET Names,
         index \in [Names -> Nat], lowlink \in [Names -> Nat],
         \A u \in Names : lowlink[u] <= index[u],
         \A a, b \in OnStack : index[a] = index[b] => a = b,
         Searched(calls, index, lowlink, OnStack, Found),
         NEW c, c = calls[Len(calls)].node, calls[Len(calls)].left = << >>, lowlink[c] = index[c],
         NEW open2, \A x : x \in open2 <=> x \in OnStack /\ index[x] < index[c],
         NEW found2, \A x : x \in found2 <=> x \in Found \/ x \in Since(c)
  PROVE  Taken(c, open2, found2)
<1> SUFFICES ASSUME NEW comp, comp = { x \in OnStack : index[x] >= index[c] },
                    open2 = { x \in OnStack : index[x] < index[c] },
                    found2 = Found \cup comp
             PROVE  /\ Searched(Front, index, lowlink, open2, found2)
                    /\ c \in comp
                    /\ \A x \in comp : EdgesOf(x) \subseteq found2
                    /\ \A a, b \in comp : LeadsTo(a, b)
  <2>1. Since(c) = { x \in OnStack : index[x] >= index[c] }
    BY DEF Since
  <2>2. open2 = { x \in OnStack : index[x] < index[c] }
    OBVIOUS
  <2>3. found2 = Found \cup Since(c)
    OBVIOUS
  <2> QED
    BY <2>1, <2>2, <2>3, Zenon DEF Taken
<1> DEFINE n == Len(calls)
<1>1. /\ n \in Nat /\ n \in 1..n /\ Len(Front) = n - 1
      /\ \A i \in 1..(n - 1) : Front[i] = calls[i] /\ i \in 1..n /\ i < n
      /\ \A i \in 1..n : calls[i] \in Frames /\ calls[i].node \in Names /\ (i = n \/ i \in 1..(n - 1))
  BY Outer DEF Front
<1>2. /\ Nested(calls, index, OnStack) /\ EdgesAllowed(calls, index, lowlink, OnStack, Found)
      /\ LowReached(calls, index, lowlink, OnStack) /\ AboveReached(calls, index, OnStack) /\ CallReached(calls, index, OnStack)
  BY DEF Searched
<1>3. /\ c \in Names /\ c \in OnStack /\ index[c] \in Nat
      /\ \A x \in OnStack : x \in Names /\ index[x] \in Nat
  BY <1>1, <1>2 DEF Nested
<1>4. \A i \in 1..(n - 1) : index[calls[i].node] < index[c] /\ index[calls[i].node] \in Nat
  BY <1>1, <1>2 DEF Nested
<1>5. \A x \in OnStack : x \in comp <=> ~(x \in open2)
  BY <1>3
<1>6. c \in comp
  BY <1>3
<1>7. ASSUME NEW w, NEW lw, Allowed(w, lw, index, OnStack, Found) PROVE Allowed(w, lw, index, open2, found2)
  BY <1>5, <1>7 DEF Allowed
<1>8. ASSUME NEW w, Allowed(w, lowlink[c], index, OnStack, Found) PROVE w \in found2
  BY <1>8 DEF Allowed
<1>9. open2 \subseteq OnStack /\ \A x \in open2 : index[x] < index[c]
  OBVIOUS
<1>10. Nested(Front, index, open2)
  <2>1. ASSUME NEW i \in 1..(n - 1)
        PROVE  /\ Front[i].node \in open2 /\ NodesOf(Front[i].left) \subseteq EdgesOf(Front[i].node)
               /\ i < n - 1 => Front[i].left # << >> /\ Head(Front[i].left) = Front[i + 1].node
               /\ \A j \in 1..(n - 1) : i < j => index[Front[i].node] < index[Front[j].node]
    <3>1. i \in 1..n /\ i < n /\ Front[i] = calls[i] /\ (i < n - 1 => i + 1 \in 1..(n - 1))
      BY <1>1
    <3>2. /\ calls[i].node \in OnStack /\ NodesOf(calls[i].left) \subseteq EdgesOf(calls[i].node)
          /\ calls[i].left # << >> /\ Head(calls[i].left) = calls[i + 1].node
          /\ \A j \in 1..n : i < j => index[calls[i].node] < index[calls[j].node]
      BY <1>2, <3>1 DEF Nested
    <3>3. calls[i].node \in open2
      BY <1>4, <3>2
    <3> QED
      BY <1>1, <3>1, <3>2, <3>3
  <2> QED
    BY <1>1, <2>1 DEF Nested
<1>11. EdgesAllowed(Front, index, lowlink, open2, found2)
  <2>1. ASSUME NEW i \in 1..(n - 1), NEW w \in EdgesOf(Front[i].node)
        PROVE  w \in NodesOf(Front[i].left) \/ Allowed(w, lowlink[Front[i].node], index, open2, found2)
    BY <1>1, <1>2, <1>7, <2>1 DEF EdgesAllowed
  <2>2. ASSUME NEW i \in 1..(n - 1), NEW x \in open2, Within(x, i, Front, index), NEW w \in EdgesOf(x)
        PROVE  Allowed(w, lowlink[Front[i].node], index, open2, found2)
    <3>1. x \in OnStack /\ index[x] < index[c]
      BY <1>9
    <3>2. Within(x, i, calls, index)
      <4>1. index[x] > index[calls[i].node] /\ \A j \in 1..(n - 1) : i < j => index[x] < index[calls[j].node]
        BY <1>1, <2>2 DEF Within
      <4>2. ASSUME NEW j \in 1..n, i < j PROVE index[x] < index[calls[j].node]
        BY <1>1, <3>1, <4>1, <4>2
      <4> QED
        BY <4>1, <4>2 DEF Within
    <3>3. Allowed(w, lowlink[calls[i].node], index, OnStack, Found)
      BY <1>1, <1>2, <2>2, <3>1, <3>2 DEF EdgesAllowed
    <3> QED
      BY <1>1, <1>7, <3>3
  <2> QED
    BY <1>1, <2>1, <2>2 DEF EdgesAllowed
<1>12. LowReached(Front, index, lowlink, open2)
  <2>1. ASSUME NEW i \in 1..(n - 1)
        PROVE  \E y \in open2 : index[y] = lowlink[calls[i].node] /\ LeadsTo(calls[i].node, y)
    <3>1. PICK y \in OnStack : index[y] = lowlink[calls[i].node] /\ LeadsTo(calls[i].node, y)
      BY <1>1, <1>2 DEF LowReached
    <3>2. calls[i].node \in Names /\ lowlink[calls[i].node] \in Nat /\ lowlink[calls[i].node] <= index[calls[i].node]
      BY <1>1
    <3>3. index[y] < index[c]
      BY <1>3, <1>4, <3>1, <3>2
    <3>4. y \in open2
      BY <3>3
    <3> QED
      BY <3>1, <3>4
  <2> QED
    BY <1>1, <2>1 DEF LowReached
<1>13. AboveReached(Front, index, open2)
  BY <1>1, <1>2, <1>9 DEF AboveReached
<1>14. CallReached(Front, index, open2)
  <2>1. ASSUME NEW x \in open2 PROVE \E i \in 1..(n - 1) : index[calls[i].node] <= index[x] /\ LeadsTo(x, calls[i].node)
    <3>1. PICK i \in 1..n : index[calls[i].node] <= index[x] /\ LeadsTo(x, calls[i].node)
      BY <1>2, <1>9 DEF CallReached
    <3>2. i # n
      BY <1>3, <1>9, <3>1
    <3> QED
      BY <1>1, <3>1, <3>2
  <2> QED
    BY <1>1, <2>1 DEF CallReached
<1>15. ASSUME NEW x \in comp, NEW w \in EdgesOf(x) PROVE w \in found2
  <2>1. x \in OnStack /\ index[x] >= index[c]
    OBVIOUS
  <2>2. CASE x = c
    <3>1. NodesOf(calls[n].left) = {}
      BY DEF NodesOf
    <3> QED
      BY <1>1, <1>2, <1>8, <1>15, <2>2, <3>1 DEF EdgesAllowed
  <2>3. CASE x # c
    <3>1. index[x] > index[c]
      BY <1>3, <2>1, <2>3
    <3>2. \A j \in 1..n : ~(n < j)
      BY <1>1
    <3>3. Within(x, n, calls, index)
      BY <3>1, <3>2 DEF Within
    <3> QED
      BY <1>1, <1>2, <1>8, <1>15, <2>1, <3>3 DEF EdgesAllowed
  <2> QED
    BY <2>2, <2>3
<1>16. ASSUME NEW a \in comp, NEW b \in comp PROVE LeadsTo(a, b)
  <2>1. a \in OnStack /\ b \in OnStack /\ index[b] >= index[c] /\ a \in Names /\ b \in Names
    BY <1>3
  <2>2. LeadsTo(c, b)
    BY <1>1, <1>2, <2>1 DEF AboveReached
  <2>3. PICK i \in 1..n : index[calls[i].node] <= index[a] /\ LeadsTo(a, calls[i].node)
    BY <1>2, <2>1 DEF CallReached
  <2>4. index[c] >= index[calls[i].node] /\ calls[i].node \in Names
    <3>1. CASE i = n
      BY <1>1, <1>3, <3>1
    <3>2. CASE i \in 1..(n - 1)
      <4>1. index[calls[i].node] < index[c] /\ index[calls[i].node] \in Nat /\ calls[i].node \in Names
        BY <1>1, <1>4, <3>2
      <4> QED
        BY <1>3, <4>1
    <3> QED
      BY <1>1, <3>1, <3>2
  <2>5. LeadsTo(calls[i].node, c)
    BY <1>2, <1>3, <2>4 DEF AboveReached
  <2>6. LeadsTo(a, c)
    BY <1>3, <2>1, <2>3, <2>4, <2>5, ReachesThrough
  <2> QED
    BY <1>3, <2>1, <2>2, <2>6, ReachesThrough
<1>17. Searched(Front, index, lowlink, open2, found2)
  BY <1>10, <1>11, <1>12, <1>13, <1>14 DEF Searched
<1> QED
  BY <1>6, <1>15, <1>16, <1>17

-----------------------------------------------------------------------------
(***************************************************************************)
(* The actions                                                             *)
(***************************************************************************)
\* The numbers are natural numbers.
LEMMA NumbersTyped ==
  ASSUME SearchTypeOK
  PROVE  /\ index \in [Names -> Nat] /\ lowlink \in [Names -> Nat]
         /\ \A v \in Names : lowlink[v] <= index[v]
<1>1. Size \in Nat /\ 0..Size \subseteq Nat
  BY NamesAssumption
<1>2. /\ index \in [Names -> 0..Size] /\ lowlink \in [Names -> 0..Size]
      /\ \A v \in Names : lowlink[v] <= index[v]
  BY DEF SearchTypeOK
<1> QED
  BY <1>1, <1>2

\* What the search knows does not depend on when the edges are read.
LEMMA SearchedKept ==
  ASSUME UNCHANGED deps, Searched(calls', index', lowlink', OnStack', Found')
  PROVE  Searched(calls, index, lowlink, OnStack, Found)'
<1>1. Nested(calls, index, OnStack)'
  BY DEF Searched, Nested, EdgesOf
<1>2. EdgesAllowed(calls, index, lowlink, OnStack, Found)'
  BY DEF Searched, EdgesAllowed, Allowed, Within, EdgesOf
<1>3. LowReached(calls, index, lowlink, OnStack)'
  BY DEF Searched, LowReached, LeadsTo, ClosedUnder
<1>4. AboveReached(calls, index, OnStack)'
  BY DEF Searched, AboveReached, LeadsTo, ClosedUnder
<1>5. CallReached(calls, index, OnStack)'
  BY DEF Searched, CallReached, LeadsTo, ClosedUnder
<1> QED
  BY <1>1, <1>2, <1>3, <1>4, <1>5 DEF Searched

LEMMA SccsKept ==
  ASSUME UNCHANGED <<deps, sccs>>, Connected, Apart, CalleesFirst
  PROVE  Connected' /\ Apart' /\ CalleesFirst'
<1>1. Connected'
  BY DEF Connected, LeadsTo, ClosedUnder
<1>2. Apart'
  BY DEF Apart
<1>3. CalleesFirst'
  BY DEF CalleesFirst
<1> QED
  BY <1>1, <1>2, <1>3

\* What the entry of a call changes.
LEMMA Entered ==
  ASSUME SearchTypeOK, Numbered,
         NEW v \in Names, index[v] = 0, Discover(v, calls), turn' \in 1..(Size + 1)
  PROVE  /\ SearchTypeOK'
         /\ Discovered' = Discovered \cup {v} /\ v \notin Discovered
         /\ OnStack' = OnStack \cup {v} /\ Found' = Found
         /\ Cardinality(Discovered') = Cardinality(Discovered) + 1
         /\ index'[v] = Cardinality(Discovered) + 1 /\ lowlink'[v] = index'[v]
         /\ \A u \in Names : u # v => index'[u] = index[u] /\ lowlink'[u] = lowlink[u]
         /\ \A u \in Names : u # v => index'[u] < index'[v]
         /\ deps' = deps /\ opts' = opts /\ sccs' = sccs
<1> DEFINE m == Cardinality(Discovered) + 1
<1>1. /\ index' = [index EXCEPT ![v] = m] /\ lowlink' = [lowlink EXCEPT ![v] = m]
      /\ pending' = Append(pending, v) /\ calls' = Append(calls, [node |-> v, left |-> deps[v]])
      /\ deps' = deps /\ opts' = opts /\ sccs' = sccs
  BY DEF Discover
<1>2. /\ deps \in [Names -> Seq(Names)] /\ calls \in Seq(Frames)
      /\ index \in [Names -> 0..Size] /\ lowlink \in [Names -> 0..Size]
      /\ pending \in Seq(Names) /\ sccs \in Seq(Seq(Names)) /\ Size \in Nat
      /\ \A u \in Names : lowlink[u] <= index[u]
  BY NamesAssumption DEF SearchTypeOK, Frames
<1>3. v \notin Discovered
  BY DEF Discovered
<1>4. m \in 1..Size /\ Cardinality(Discovered \cup {v}) = m
  <2>1. Cardinality(Discovered \cup {v}) = m
    BY <1>3, Counted, FS_AddElement
  <2>2. Discovered \cup {v} \in SUBSET Names
    BY SetsTyped
  <2>3. Cardinality(Discovered \cup {v}) <= Size
    BY <2>2, Counted, FS_Subset
  <2> QED
    BY <2>1, <2>3, Counted
<1> HIDE DEF m
<1>5. /\ index' \in [Names -> 0..Size] /\ lowlink' \in [Names -> 0..Size]
      /\ index'[v] = m /\ lowlink'[v] = m
      /\ \A u \in Names : u # v => index'[u] = index[u] /\ lowlink'[u] = lowlink[u]
  BY <1>1, <1>2, <1>4
<1>6. Discovered' = Discovered \cup {v}
  <2>1. \A u \in Names : index'[u] > 0 <=> index[u] > 0 \/ u = v
    BY <1>4, <1>5
  <2> QED
    BY <2>1 DEF Discovered
<1>7. OnStack' = OnStack \cup {v} /\ Found' = Found
  <2>1. NodesOf(Append(pending, v)) = NodesOf(pending) \cup {v}
    BY <1>2, ElemsAppend
  <2> QED
    BY <1>1, <2>1 DEF OnStack, Found
<1>8. \A u \in Names : index[u] < m /\ index[u] \in Nat
  BY <1>2, Counted DEF Numbered, m
<1>9. [node |-> v, left |-> deps[v]] \in Frames
  BY <1>2 DEF Frames
<1>10. /\ calls' \in Seq(Frames) /\ Len(calls') = Len(calls) + 1 /\ Len(calls) \in Nat
       /\ \A i \in 1..Len(calls) : calls'[i] = calls[i]
       /\ calls'[Len(calls) + 1] = [node |-> v, left |-> deps[v]]
  BY <1>1, <1>2, <1>9
<1>11. /\ pending' \in Seq(Names) /\ Len(pending') = Len(pending) + 1 /\ Len(pending) \in Nat
       /\ \A k \in 1..Len(pending) : pending'[k] = pending[k] /\ pending[k] \in Names
       /\ pending'[Len(pending) + 1] = v
  BY <1>1, <1>2
<1>12. \A j, k \in 1..Len(pending') : j < k => index'[pending'[j]] < index'[pending'[k]]
  <2> SUFFICES ASSUME NEW j \in 1..Len(pending'), NEW k \in 1..Len(pending'), j < k
               PROVE  index'[pending'[j]] < index'[pending'[k]]
    OBVIOUS
  <2>1. j \in 1..Len(pending) /\ pending'[j] = pending[j] /\ pending[j] \in Names
    BY <1>11
  <2>2. pending[j] # v
    <3>1. pending[j] \in OnStack
      BY <2>1 DEF OnStack, NodesOf
    <3> QED
      BY <1>3, <3>1 DEF Numbered
  <2>3. index'[pending'[j]] = index[pending[j]] /\ index[pending[j]] < m
    BY <1>5, <1>8, <2>1, <2>2
  <2>4. CASE k = Len(pending) + 1
    BY <1>5, <1>11, <2>3, <2>4
  <2>5. CASE k \in 1..Len(pending)
    <3>1. pending'[k] = pending[k] /\ pending[k] \in Names /\ pending[k] \in OnStack
      BY <1>11, <2>5 DEF OnStack, NodesOf
    <3>2. pending[k] # v
      BY <1>3, <3>1 DEF Numbered
    <3>3. index'[pending[k]] = index[pending[k]]
      BY <1>5, <3>1, <3>2
    <3>4. index[pending[j]] < index[pending[k]]
      BY <2>1, <2>5, StackOrder
    <3> QED
      BY <2>3, <3>1, <3>3, <3>4
  <2> QED
    BY <1>11, <2>4, <2>5
<1>13. ASSUME NEW u \in Names PROVE lowlink'[u] <= index'[u]
  <2>1. CASE u = v
    BY <1>4, <1>5, <2>1
  <2>2. CASE u # v
    BY <1>2, <1>5, <2>2
  <2> QED
    BY <2>1, <2>2
<1>14. SearchTypeOK'
  <2>1. opts' \in [reverse : BOOLEAN, sort : BOOLEAN] /\ deps' \in [Names -> Seq(Names)] /\ sccs' \in Seq(Seq(Names))
    BY <1>1, <1>2 DEF SearchTypeOK
  <2> QED
    BY <1>5, <1>10, <1>11, <1>12, <1>13, <2>1 DEF SearchTypeOK, Frames
<1>15. \A u \in Names : u # v => index'[u] < index'[v]
  BY <1>5, <1>8
<1> QED
  BY <1>1, <1>3, <1>4, <1>5, <1>6, <1>7, <1>14, <1>15 DEF m

\* A call is entered for the first node without a number, or for the edge the
\* innermost call is at.
LEMMA Discovering ==
  ASSUME IInv,
         NEW v \in Names, index[v] = 0, Discover(v, calls),
         calls # << >> => Current.left # << >> /\ v = Head(Current.left),
         turn' \in 1..(Size + 1), \A u \in Names : u < turn' => u < turn \/ u = v
  PROVE  IInv'
<1>1. SearchTypeOK /\ Numbered
  BY DEF IInv
<1>2. /\ SearchTypeOK'
      /\ Discovered' = Discovered \cup {v} /\ v \notin Discovered
      /\ OnStack' = OnStack \cup {v} /\ Found' = Found
      /\ Cardinality(Discovered') = Cardinality(Discovered) + 1
      /\ index'[v] = Cardinality(Discovered) + 1 /\ lowlink'[v] = index'[v]
      /\ \A u \in Names : u # v => index'[u] = index[u] /\ lowlink'[u] = lowlink[u]
      /\ \A u \in Names : u # v => index'[u] < index'[v]
      /\ deps' = deps /\ opts' = opts /\ sccs' = sccs
  BY <1>1, Entered
<1>3. /\ OnStack \subseteq Names /\ Discovered \subseteq Names /\ v \notin OnStack /\ v \notin Found
      /\ index \in [Names -> Nat] /\ lowlink \in [Names -> Nat]
  BY <1>1, <1>2, SetsTyped, NumbersTyped DEF Numbered
<1>4. index' \in [Names -> Nat] /\ lowlink' \in [Names -> Nat]
  <2>1. Size \in Nat /\ 0..Size \subseteq Nat
    BY NamesAssumption
  <2>2. index' \in [Names -> 0..Size] /\ lowlink' \in [Names -> 0..Size]
    BY <1>2 DEF SearchTypeOK
  <2> QED
    BY <2>1, <2>2
<1>5. Numbered'
  <2>1. \A u \in Names : index'[u] <= Cardinality(Discovered')
    <3>1. Cardinality(Discovered) \in Nat
      BY <1>1, Counted
    <3>2. \A u \in Names : index[u] <= Cardinality(Discovered)
      BY <1>1 DEF Numbered
    <3> QED
      BY <1>2, <1>3, <1>4, <3>1, <3>2, SMTT(40)
  <2>2. \A a, b \in Discovered' : index'[a] = index'[b] => a = b
    <3> SUFFICES ASSUME NEW a \in Discovered \cup {v}, NEW b \in Discovered \cup {v}, index'[a] = index'[b]
                 PROVE  a = b
      BY <1>2
    <3>1. a \in Names /\ b \in Names /\ index'[a] \in Nat /\ index'[b] \in Nat
      BY <1>3, <1>4
    <3>2. CASE a = v \/ b = v
      BY <1>2, <3>1, <3>2
    <3>3. CASE a # v /\ b # v
      BY <1>1, <1>2, <3>1, <3>3 DEF Numbered
    <3> QED
      BY <3>2, <3>3
  <2>3. OnStack' \cup Found' = Discovered' /\ OnStack' \cap Found' = {}
    BY <1>1, <1>2, <1>3 DEF Numbered
  <2>4. \A u \in Names : u < turn' => u \in Discovered'
    BY <1>1, <1>2 DEF Numbered
  <2> QED
    BY <2>1, <2>2, <2>3, <2>4 DEF Numbered
<1>6. Searched(calls', index', lowlink', OnStack', Found')
  <2>1. calls \in Seq(Frames) /\ calls' \in Seq(Frames)
    BY <1>1, <1>2 DEF SearchTypeOK, Frames
  <2>2. calls' = Append(calls, [node |-> v, left |-> deps[v]])
    BY DEF Discover
  <2>3. calls # << >> => calls[Len(calls)].left # << >> /\ v = Head(calls[Len(calls)].left)
    BY DEF Current
  <2>4. Searched(calls, index, lowlink, OnStack, Found)
    BY DEF IInv
  <2>5. OnStack \in SUBSET Names
    BY <1>3
  <2>6. PICK cs2, ix2, low2, open2 :
          cs2 = calls' /\ ix2 = index' /\ low2 = lowlink' /\ open2 = OnStack'
    OBVIOUS
  <2>7. /\ cs2 \in Seq(Frames) /\ cs2 = Append(calls, [node |-> v, left |-> deps[v]])
        /\ ix2 \in [Names -> Nat] /\ low2 \in [Names -> Nat] /\ low2[v] = ix2[v]
        /\ \A x : x \in open2 <=> x \in OnStack \/ x = v
        /\ \A u \in Names : u # v => ix2[u] = index[u] /\ low2[u] = lowlink[u] /\ ix2[u] < ix2[v]
    BY <1>2, <1>4, <2>1, <2>2, <2>6
  <2>8. v \notin OnStack /\ index \in [Names -> Nat] /\ lowlink \in [Names -> Nat]
    BY <1>3
  <2>9. Searched(cs2, ix2, low2, open2, Found)
    BY <1>1, <2>1, <2>3, <2>4, <2>5, <2>7, <2>8, EnterSearched
  <2> QED
    BY <1>2, <2>6, <2>9
<1>7. Searched(calls, index, lowlink, OnStack, Found)'
  BY <1>2, <1>6, SearchedKept
<1>8. Connected' /\ Apart' /\ CalleesFirst'
  BY <1>2, SccsKept DEF IInv
<1> QED
  BY <1>2, <1>5, <1>7, <1>8 DEF IInv

LEMMA StartInductive == IInv /\ StartAt => IInv'
<1> SUFFICES ASSUME IInv, StartAt PROVE IInv'
  OBVIOUS
<1>1. calls = << >> /\ turn \in Names /\ turn' = turn + 1 /\ Size \in Nat
  BY NamesAssumption DEF StartAt
<1>2. turn' \in 1..(Size + 1) /\ \A u \in Names : u < turn' => u < turn \/ u = turn
  BY <1>1 DEF Names
<1>3. CASE index[turn] = 0
  <2>1. Discover(turn, calls)
    BY <1>3 DEF StartAt
  <2> QED
    BY <1>1, <1>2, <1>3, <2>1, Discovering
<1>4. CASE index[turn] # 0
  <2>1. UNCHANGED <<deps, opts, calls, index, lowlink, pending, sccs>>
    BY <1>4 DEF StartAt
  <2>2. OnStack' = OnStack /\ Found' = Found /\ Discovered' = Discovered
    BY <2>1 DEF OnStack, Found, Discovered, NodesOf
  <2>3. SearchTypeOK'
    BY <1>2, <2>1 DEF IInv, SearchTypeOK
  <2>4. Numbered'
    <3>1. turn \in Discovered
      <4>1. index[turn] \in 0..Size
        BY <1>1 DEF IInv, SearchTypeOK
      <4> QED
        BY <1>1, <1>4, <4>1 DEF Discovered
    <3> QED
      BY <1>2, <2>1, <2>2, <3>1 DEF IInv, Numbered
  <2>5. Searched(calls, index, lowlink, OnStack, Found)'
    BY <2>1, <2>2, SearchedKept DEF IInv
  <2>6. Connected' /\ Apart' /\ CalleesFirst'
    BY <2>1, SccsKept DEF IInv
  <2> QED
    BY <2>3, <2>4, <2>5, <2>6 DEF IInv
<1> QED
  BY <1>3, <1>4

LEMMA VisitInductive == IInv /\ Visit => IInv'
<1> SUFFICES ASSUME IInv, Visit PROVE IInv'
  OBVIOUS
<1>1. /\ calls # << >> /\ Current.left # << >> /\ index[Head(Current.left)] = 0
      /\ Discover(Head(Current.left), calls) /\ turn' = turn
  BY DEF Visit
<1>2. Head(Current.left) \in Names
  BY <1>1, TopTyped, ElemsHeadTail DEF IInv
<1>3. turn' \in 1..(Size + 1)
  BY <1>1 DEF IInv, SearchTypeOK
<1> QED
  BY <1>1, <1>2, <1>3, Discovering

\* The search goes on with the same nodes discovered and open.
LEMMA NumberedKept ==
  ASSUME Numbered, UNCHANGED <<index, turn>>, OnStack' = OnStack, Found' = Found
  PROVE  Numbered'
<1>1. Discovered' = Discovered
  BY DEF Discovered
<1> QED
  BY <1>1 DEF Numbered

LEMMA LookInductive == IInv /\ Look => IInv'
<1> SUFFICES ASSUME IInv, Look PROVE IInv'
  OBVIOUS
<1> DEFINE w == Head(Current.left)
           v == Current.node
<1>1. /\ calls # << >> /\ Current.left # << >> /\ index[w] > 0
      /\ lowlink' = IF w \in OnStack THEN [lowlink EXCEPT ![v] = Least(@, index[w])] ELSE lowlink
      /\ calls' = [calls EXCEPT ![Len(calls)].left = Tail(@)]
      /\ UNCHANGED <<deps, opts, index, pending, sccs, turn>>
  BY DEF Look
<1>2. /\ SearchTypeOK /\ Numbered /\ Searched(calls, index, lowlink, OnStack, Found)
      /\ Connected /\ Apart /\ CalleesFirst
  BY DEF IInv
<1>3. /\ calls \in Seq(Frames) /\ Len(calls) \in Nat \ {0} /\ Len(calls) \in 1..Len(calls)
      /\ Current = calls[Len(calls)] /\ v \in Names /\ Current.left \in Seq(Names) /\ Current \in Frames
  BY <1>1, <1>2, TopTyped
<1>4. w \in Names /\ Tail(Current.left) \in Seq(Names) /\ w \in NodesOf(Current.left)
  BY <1>1, <1>3, ElemsHeadTail
<1> HIDE DEF w, v
<1>5. OnStack' = OnStack /\ Found' = Found
  BY <1>1 DEF OnStack, Found, NodesOf
<1>6. w \in Discovered /\ (w \in OnStack \/ w \in Found)
  BY <1>1, <1>2, <1>4 DEF Numbered, Discovered
<1>7. w \in EdgesOf(v) /\ v \in OnStack
  BY <1>2, <1>3, <1>4 DEF Searched, Nested, v
<1>8. /\ index \in [Names -> Nat] /\ lowlink \in [Names -> Nat] /\ OnStack \in SUBSET Names
      /\ \A u \in Names : lowlink[u] <= index[u]
  BY <1>2, NumbersTyped, SetsTyped
<1>9. /\ lowlink' \in [Names -> 0..Size] /\ lowlink' \in [Names -> Nat]
      /\ \A u \in Names : u # v => lowlink'[u] = lowlink[u]
      /\ lowlink'[v] = (IF w \in OnStack THEN Least(lowlink[v], index[w]) ELSE lowlink[v])
  <2>1. /\ lowlink \in [Names -> 0..Size] /\ index \in [Names -> 0..Size] /\ 0..Size \subseteq Nat
    BY <1>2, NamesAssumption DEF SearchTypeOK
  <2>2. Least(lowlink[v], index[w]) \in 0..Size
    BY <1>3, <1>4, <2>1 DEF Least
  <2>3. /\ lowlink' \in [Names -> 0..Size]
        /\ \A u \in Names : u # v => lowlink'[u] = lowlink[u]
        /\ lowlink'[v] = (IF w \in OnStack THEN Least(lowlink[v], index[w]) ELSE lowlink[v])
    BY <1>1, <1>3, <2>1, <2>2
  <2> QED
    BY <2>1, <2>3
<1>10. lowlink'[v] <= lowlink[v] /\ (w \in OnStack => lowlink'[v] <= index[w])
  <2>1. lowlink[v] \in Nat /\ index[w] \in Nat
    BY <1>3, <1>4, <1>8
  <2>2. \A a, b \in Nat : Least(a, b) <= a /\ Least(a, b) <= b /\ a <= a
    BY DEF Least
  <2> QED
    BY <1>9, <2>1, <2>2, Zenon
<1>11. PICK cs2, low2 : cs2 = calls' /\ low2 = lowlink'
  OBVIOUS
<1>12. Searched(calls, index, low2, OnStack, Found)
  <2>1. CASE low2[v] = lowlink[v]
    <3>1. low2 = lowlink
      BY <1>8, <1>9, <1>11, <2>1
    <3> QED
      BY <1>2, <3>1
  <2>2. CASE low2[v] # lowlink[v]
    <3>1. w \in OnStack /\ low2[v] = index[w]
      BY <1>9, <1>11, <2>2 DEF Least
    <3>2. LeadsTo(v, w)
      BY <1>3, <1>4, <1>7, ReachesRef
    <3>3. /\ low2 \in [Names -> Nat] /\ low2[v] <= lowlink[v]
          /\ \A u \in Names : u # v => low2[u] = lowlink[u]
      BY <1>9, <1>10, <1>11
    <3> QED
      BY <1>2, <1>3, <1>8, <3>1, <3>2, <3>3, LowerSearched
  <2> QED
    BY <2>1, <2>2
<1>13. Allowed(Head(calls[Len(calls)].left), low2[calls[Len(calls)].node], index, OnStack, Found)
  <2>1. w \in OnStack => index[w] >= low2[v]
    <3>1. low2[v] \in Nat /\ index[w] \in Nat
      BY <1>3, <1>4, <1>8, <1>9, <1>11
    <3> QED
      BY <1>10, <1>11, <3>1
  <2>2. Allowed(w, low2[v], index, OnStack, Found)
    BY <1>6, <2>1 DEF Allowed
  <2> QED
    BY <1>3, <2>2 DEF w, v
<1>14. /\ calls' \in Seq(Frames) /\ cs2 \in Seq(Frames)
       /\ cs2 = [calls EXCEPT ![Len(calls)].left = Tail(@)]
  <2>1. [Current EXCEPT !.left = Tail(@)] \in Frames
    BY <1>3, <1>4 DEF Frames
  <2> QED
    BY <1>1, <1>3, <1>11, <2>1
<1>15. Searched(cs2, index, low2, OnStack, Found)
  BY <1>1, <1>3, <1>12, <1>13, <1>14, AdvanceSearched
<1>16. Searched(calls, index, lowlink, OnStack, Found)'
  <2>1. Searched(calls', index', lowlink', OnStack', Found')
    BY <1>1, <1>5, <1>11, <1>15
  <2> QED
    BY <1>1, <2>1, SearchedKept
<1>17. SearchTypeOK'
  <2>1. \A u \in Names : lowlink'[u] <= index'[u]
    <3>1. lowlink'[v] <= index[v]
      BY <1>3, <1>8, <1>9, <1>10
    <3> QED
      BY <1>1, <1>8, <1>9, <3>1
  <2>2. calls' \in Seq([node : Names, left : Seq(Names)])
    BY <1>14 DEF Frames
  <2> QED
    BY <1>1, <1>2, <1>9, <2>1, <2>2 DEF SearchTypeOK
<1>18. Numbered' /\ Connected' /\ Apart' /\ CalleesFirst'
  BY <1>1, <1>2, <1>5, NumberedKept, SccsKept
<1> QED
  BY <1>16, <1>17, <1>18 DEF IInv

\* What a finished call leaves: the calls around it, the innermost past its edge.
LEMMA Finished ==
  ASSUME SearchTypeOK, Finish, NEW n, n = Len(calls)
  PROVE  /\ calls # << >> /\ n \in Nat \ {0} /\ Current.left = << >> /\ Close
         /\ UNCHANGED <<deps, opts, index, turn>>
         /\ Front \in Seq(Frames) /\ Len(Front) = n - 1
         /\ n = 1 => calls' = << >> /\ Front = << >> /\ lowlink' = lowlink
         /\ n > 1 => /\ n - 1 \in 1..n /\ n - 1 \in 1..(n - 1) /\ Front[n - 1] = calls[n - 1]
                     /\ calls[n - 1].node \in Names /\ calls[n - 1].left \in Seq(Names)
                     /\ calls' = [Front EXCEPT ![n - 1].left = Tail(@)]
                     /\ lowlink' = [lowlink EXCEPT ![calls[n - 1].node] = Least(@, lowlink[Current.node])]
<1>1. /\ calls # << >> /\ Current.left = << >> /\ Close /\ UNCHANGED <<deps, opts, index, turn>>
  BY DEF Finish
<1>2. calls \in Seq(Frames)
  BY DEF SearchTypeOK, Frames
<1>3. /\ n \in Nat /\ n \in 1..n /\ Front \in Seq(Frames) /\ Len(Front) = n - 1
      /\ \A i \in 1..(n - 1) : Front[i] = calls[i] /\ i \in 1..n
  BY <1>1, <1>2, Outer DEF Front
<1>4. n \in Nat \ {0}
  BY <1>3
<1>5. CASE n = 1
  <2>1. calls' = << >> /\ lowlink' = lowlink
    BY <1>5 DEF Finish
  <2>2. Front = << >>
    BY <1>3, <1>5
  <2> QED
    BY <1>1, <1>3, <1>4, <1>5, <2>1, <2>2
<1>6. CASE n > 1
  <2>1. n - 1 \in 1..n /\ n - 1 \in 1..(n - 1) /\ n - 1 # 0
    BY <1>4, <1>6
  <2>2. /\ calls' = [Front EXCEPT ![n - 1].left = Tail(@)]
        /\ lowlink' = [lowlink EXCEPT ![calls[n - 1].node] = Least(@, lowlink[Current.node])]
    BY <2>1 DEF Finish, Front
  <2>3. calls[n - 1].node \in Names /\ calls[n - 1].left \in Seq(Names)
    BY <2>1, CallTyped
  <2>4. Front[n - 1] = calls[n - 1] /\ n # 1
    BY <1>3, <1>6, <2>1
  <2> QED
    BY <1>1, <1>3, <1>4, <2>1, <2>2, <2>3, <2>4
<1> QED
  BY <1>4, <1>5, <1>6

\* The caller goes on behind the edge it had followed.
LEMMA CallerSearched ==
  ASSUME Front \in Seq(Frames), Front # << >>, Front[Len(Front)].left # << >>,
         NEW low, NEW open, NEW found,
         Searched(Front, index, low, open, found),
         Allowed(Head(Front[Len(Front)].left), low[Front[Len(Front)].node], index, open, found),
         NEW cs2, cs2 = [Front EXCEPT ![Len(Front)].left = Tail(@)]
  PROVE  cs2 \in Seq(Frames) /\ Searched(cs2, index, low, open, found)
<1>1. cs2 \in Seq(Frames)
  <2>1. Front[Len(Front)] \in Frames /\ Len(Front) \in 1..Len(Front)
    OBVIOUS
  <2>2. Tail(Front[Len(Front)].left) \in Seq(Names)
    BY <2>1, ElemsHeadTail DEF Frames
  <2>3. [Front[Len(Front)] EXCEPT !.left = Tail(@)] \in Frames
    BY <2>1, <2>2 DEF Frames
  <2> QED
    BY <2>1, <2>3
<1> QED
  BY <1>1, AdvanceSearched

\* The caller, and the lowlink it takes over.
LEMMA TakenOver ==
  ASSUME IInv, Finish, NEW n, n = Len(calls), n > 1,
         NEW p, p = calls[n - 1].node, NEW c, c = Current.node
  PROVE  /\ c \in OnStack /\ p \in OnStack /\ c \in Names /\ p \in Names
         /\ index[p] < index[c] /\ p # c /\ c \in EdgesOf(p)
         /\ calls[n - 1].left # << >> /\ Head(calls[n - 1].left) = c
         /\ lowlink' \in [Names -> 0..Size] /\ lowlink' \in [Names -> Nat]
         /\ \A u \in Names : u # p => lowlink'[u] = lowlink[u]
         /\ lowlink'[p] = lowlink[p] \/ (lowlink'[p] = lowlink[c] /\ lowlink[c] < lowlink[p])
         /\ lowlink'[p] <= lowlink[p] /\ lowlink'[p] <= lowlink[c]
<1>1. /\ SearchTypeOK /\ Numbered /\ Searched(calls, index, lowlink, OnStack, Found)
  BY DEF IInv
<1>2. /\ n \in Nat \ {0} /\ n - 1 \in 1..n /\ calls # << >>
      /\ p \in Names /\ calls[n - 1].left \in Seq(Names)
      /\ lowlink' = [lowlink EXCEPT ![p] = Least(@, lowlink[c])]
  BY <1>1, Finished
<1>3. c = calls[n].node /\ n \in 1..n /\ c \in Names
  BY <1>1, <1>2, TopTyped
<1>4. n - 1 < n /\ n - 1 + 1 = n
  BY <1>2
<1>5. /\ c \in OnStack /\ p \in OnStack /\ index[p] < index[c]
      /\ calls[n - 1].left # << >> /\ Head(calls[n - 1].left) = c
      /\ NodesOf(calls[n - 1].left) \subseteq EdgesOf(p)
  BY <1>1, <1>2, <1>3, <1>4 DEF Searched, Nested
<1>6. c \in EdgesOf(p)
  BY <1>2, <1>5, ElemsHeadTail
<1>7. /\ index \in [Names -> Nat] /\ lowlink \in [Names -> Nat] /\ lowlink \in [Names -> 0..Size]
      /\ 0..Size \subseteq Nat
  <2>1. index \in [Names -> Nat] /\ lowlink \in [Names -> Nat]
    BY <1>1, NumbersTyped
  <2>2. lowlink \in [Names -> 0..Size]
    BY <1>1 DEF SearchTypeOK
  <2>3. 0..Size \subseteq Nat
    BY NamesAssumption
  <2> QED
    BY <2>1, <2>2, <2>3
<1>8. p # c
  BY <1>2, <1>5, <1>7
<1>9. lowlink[p] \in Nat /\ lowlink[c] \in Nat /\ lowlink[p] \in 0..Size /\ lowlink[c] \in 0..Size
  BY <1>2, <1>3, <1>7
<1>10. \A a, b \in Nat : /\ Least(a, b) = a \/ (Least(a, b) = b /\ b < a)
                         /\ Least(a, b) <= a /\ Least(a, b) <= b
  BY DEF Least
<1>11. Least(lowlink[p], lowlink[c]) \in 0..Size
  BY <1>9 DEF Least
<1>12. /\ lowlink' \in [Names -> 0..Size] /\ lowlink'[p] = Least(lowlink[p], lowlink[c])
       /\ \A u \in Names : u # p => lowlink'[u] = lowlink[u]
  BY <1>2, <1>7, <1>11
<1>13. lowlink' \in [Names -> Nat]
  BY <1>7, <1>12
<1>14. /\ lowlink'[p] = lowlink[p] \/ (lowlink'[p] = lowlink[c] /\ lowlink[c] < lowlink[p])
       /\ lowlink'[p] <= lowlink[p] /\ lowlink'[p] <= lowlink[c]
  <2>1. PICK a, b \in Nat : a = lowlink[p] /\ b = lowlink[c]
    BY <1>9
  <2>2. lowlink'[p] = Least(a, b)
    BY <1>12, <2>1
  <2>3. /\ Least(a, b) = a \/ (Least(a, b) = b /\ b < a)
        /\ Least(a, b) <= a /\ Least(a, b) <= b
    BY <1>10
  <2> QED
    BY <2>1, <2>2, <2>3
<1> QED
  BY <1>2, <1>3, <1>5, <1>6, <1>8, <1>12, <1>13, <1>14

\* What stays typed, whatever the call was.
LEMMA FinishTyped ==
  ASSUME IInv, Finish,
         pending' \in Seq(Names), sccs' \in Seq(Seq(Names)),
         \A j, k \in 1..Len(pending') : j < k => index[pending'[j]] < index[pending'[k]],
         calls' \in Seq(Frames)
  PROVE  SearchTypeOK'
<1>0. PICK n : n = Len(calls)
  OBVIOUS
<1> DEFINE p == calls[n - 1].node
<1>1. SearchTypeOK
  BY DEF IInv
<1>2. n \in Nat \ {0} /\ UNCHANGED <<deps, opts, index, turn>> /\ (n = 1 => lowlink' = lowlink)
  BY <1>0, <1>1, Finished
<1>3. /\ index \in [Names -> Nat] /\ lowlink \in [Names -> Nat]
      /\ \A u \in Names : lowlink[u] <= index[u]
  BY <1>1, NumbersTyped
<1>4. lowlink' \in [Names -> 0..Size] /\ \A u \in Names : lowlink'[u] <= index[u]
  <2>1. CASE n = 1
    BY <1>1, <1>2, <2>1 DEF SearchTypeOK
  <2>2. CASE n > 1
    <3>1. /\ p \in Names /\ lowlink' \in [Names -> 0..Size] /\ lowlink' \in [Names -> Nat]
          /\ \A u \in Names : u # p => lowlink'[u] = lowlink[u]
          /\ lowlink'[p] <= lowlink[p]
      BY <1>0, <2>2, TakenOver, ZenonT(60)
    <3>2. lowlink'[p] <= index[p]
      <4>1. lowlink'[p] \in Nat /\ lowlink[p] \in Nat /\ index[p] \in Nat /\ lowlink[p] <= index[p]
        BY <1>3, <3>1
      <4> QED
        BY <3>1, <4>1
    <3> QED
      BY <1>3, <3>1, <3>2
  <2>3. n = 1 \/ n > 1
    BY <1>2
  <2> QED
    BY <2>1, <2>2, <2>3, Zenon
<1>5. calls' \in Seq([node : Names, left : Seq(Names)])
  BY DEF Frames
<1>6. /\ deps \in [Names -> Seq(Names)] /\ opts \in [reverse : BOOLEAN, sort : BOOLEAN]
      /\ index \in [Names -> 0..Size] /\ turn \in 1..(Size + 1)
  BY <1>1 DEF SearchTypeOK
<1> QED
  BY <1>2, <1>4, <1>5, <1>6 DEF SearchTypeOK

\* The call of a node that is no root: its caller goes on with what it has found.
LEMMA FinishLower ==
  ASSUME IInv, Finish, lowlink[Current.node] # index[Current.node]
  PROVE  IInv'
<1>0. PICK n, c, p : n = Len(calls) /\ c = Current.node /\ p = calls[n - 1].node
  OBVIOUS
<1>1. /\ SearchTypeOK /\ Numbered /\ Searched(calls, index, lowlink, OnStack, Found)
      /\ Connected /\ Apart /\ CalleesFirst
  BY DEF IInv
<1>2. /\ calls # << >> /\ n \in Nat \ {0} /\ Current.left = << >> /\ Close
      /\ UNCHANGED <<deps, opts, index, turn>>
      /\ Front \in Seq(Frames) /\ Len(Front) = n - 1
      /\ n = 1 => lowlink' = lowlink
      /\ n > 1 => /\ n - 1 \in 1..n /\ n - 1 \in 1..(n - 1) /\ Front[n - 1] = calls[n - 1]
                  /\ p \in Names /\ calls[n - 1].left \in Seq(Names)
                  /\ calls' = [Front EXCEPT ![n - 1].left = Tail(@)]
  BY <1>0, <1>1, Finished
<1>3. /\ calls \in Seq(Frames) /\ c = calls[Len(calls)].node /\ c \in Names
      /\ calls[Len(calls)].left = << >>
  BY <1>0, <1>1, <1>2, TopTyped
<1>4. UNCHANGED <<pending, sccs>>
  BY <1>0, <1>2 DEF Close
<1>5. OnStack' = OnStack /\ Found' = Found
  BY <1>4 DEF OnStack, Found, NodesOf
<1>6. /\ index \in [Names -> Nat] /\ lowlink \in [Names -> Nat] /\ OnStack \in SUBSET Names
      /\ \A u \in Names : lowlink[u] <= index[u]
      /\ \A a, b \in OnStack : index[a] = index[b] => a = b
  BY <1>1, NumbersTyped, SetsTyped DEF Numbered
<1>7. lowlink[c] < index[c] /\ lowlink[c] \in Nat /\ index[c] \in Nat
  BY <1>0, <1>3, <1>6
<1>8. n = 1 \/ n > 1
  BY <1>2
<1>9. PICK low : low = lowlink'
  OBVIOUS
<1>10. /\ Searched(calls, index, low, OnStack, Found) /\ low \in [Names -> Nat]
       /\ low[c] < index[c] /\ (n > 1 => low[p] <= low[c])
  <2>1. CASE n = 1
    <3>1. low = lowlink /\ ~(n > 1)
      BY <1>2, <1>9, <2>1
    <3> QED
      BY <1>1, <1>6, <1>7, <3>1
  <2>2. CASE n > 1
    <3>1. /\ c \in OnStack /\ p \in OnStack /\ c \in Names /\ p \in Names
          /\ index[p] < index[c] /\ p # c /\ c \in EdgesOf(p)
          /\ lowlink' \in [Names -> Nat]
          /\ \A u \in Names : u # p => lowlink'[u] = lowlink[u]
          /\ lowlink'[p] = lowlink[p] \/ (lowlink'[p] = lowlink[c] /\ lowlink[c] < lowlink[p])
          /\ lowlink'[p] <= lowlink[p] /\ lowlink'[p] <= lowlink[c]
      BY <1>0, <2>2, TakenOver
    <3>2. low \in [Names -> Nat] /\ low[c] = lowlink[c] /\ low[p] <= low[c]
      BY <1>9, <3>1
    <3>3. CASE low[p] = lowlink[p]
      <4>1. low = lowlink
        BY <1>6, <1>9, <3>1, <3>3
      <4> QED
        BY <1>1, <1>7, <2>2, <3>2, <4>1
    <3>4. CASE low[p] # lowlink[p]
      <4>1. PICK i \in 1..Len(calls) : calls[i].node = c
        BY <1>0, <1>2, <1>3
      <4>2. PICK y \in OnStack : index[y] = lowlink[c] /\ LeadsTo(c, y)
        BY <1>1, <4>1 DEF Searched, LowReached
      <4>3. LeadsTo(p, y)
        <5>1. LeadsTo(p, c) /\ y \in Names
          BY <1>6, <3>1, ReachesRef
        <5> QED
          BY <3>1, <4>2, <5>1, ReachesThrough
      <4>4. /\ low[p] = index[y] /\ low[p] <= lowlink[p]
            /\ \A u \in Names : u # p => low[u] = lowlink[u]
        BY <1>9, <3>1, <3>4, <4>2
      <4>5. Searched(calls, index, low, OnStack, Found)
        BY <1>1, <1>3, <1>6, <3>1, <3>2, <4>3, <4>4, LowerSearched
      <4> QED
        BY <1>7, <2>2, <3>2, <4>5
    <3> QED
      BY <3>3, <3>4
  <2> QED
    BY <1>8, <2>1, <2>2
<1>11. n > 1 /\ Searched(Front, index, low, OnStack, Found)
  BY <1>0, <1>2, <1>3, <1>6, <1>10, ReturnSearched
<1>12. /\ c \in OnStack /\ calls[n - 1].left # << >> /\ Head(calls[n - 1].left) = c
  BY <1>0, <1>11, TakenOver
<1>13. Allowed(Head(calls[n - 1].left), low[calls[n - 1].node], index, OnStack, Found)
  <2>1. low[p] <= low[c] /\ low[p] \in Nat /\ low[c] \in Nat /\ index[c] \in Nat /\ low[c] < index[c]
    BY <1>2, <1>3, <1>6, <1>10, <1>11
  <2>2. index[c] >= low[p]
    BY <2>1
  <2> QED
    BY <1>0, <1>12, <2>2 DEF Allowed
<1>14. PICK cs2 : cs2 = calls'
  OBVIOUS
<1>15. cs2 \in Seq(Frames) /\ Searched(cs2, index, low, OnStack, Found)
  <2>1. cs2 = [Front EXCEPT ![Len(Front)].left = Tail(@)] /\ Front # << >>
    BY <1>2, <1>11, <1>14
  <2>2. /\ Front[Len(Front)].left # << >>
        /\ Allowed(Head(Front[Len(Front)].left), low[Front[Len(Front)].node], index, OnStack, Found)
    BY <1>2, <1>11, <1>12, <1>13
  <2> QED
    BY <1>2, <1>11, <2>1, <2>2, CallerSearched
<1>16. Searched(calls, index, lowlink, OnStack, Found)'
  <2>1. Searched(calls', index', lowlink', OnStack', Found')
    BY <1>2, <1>5, <1>9, <1>14, <1>15
  <2> QED
    BY <1>2, <2>1, SearchedKept
<1>17. SearchTypeOK'
  <2>1. /\ pending' \in Seq(Names) /\ sccs' \in Seq(Seq(Names)) /\ calls' \in Seq(Frames)
        /\ \A j, k \in 1..Len(pending') : j < k => index[pending'[j]] < index[pending'[k]]
    BY <1>1, <1>4, <1>14, <1>15 DEF SearchTypeOK
  <2> QED
    BY <2>1, FinishTyped
<1>18. Numbered' /\ Connected' /\ Apart' /\ CalleesFirst'
  BY <1>1, <1>2, <1>4, <1>5, NumberedKept, SccsKept
<1> QED
  BY <1>16, <1>17, <1>18 DEF IInv

\* A component more.
LEMMA FoundGrows ==
  ASSUME sccs \in Seq(Seq(Names)), NEW comp \in Seq(Names), sccs' = Append(sccs, comp)
  PROVE  /\ sccs' \in Seq(Seq(Names)) /\ Len(sccs) \in Nat /\ Len(sccs') = Len(sccs) + 1
         /\ \A k \in 1..Len(sccs) : sccs'[k] = sccs[k]
         /\ sccs'[Len(sccs) + 1] = comp
         /\ \A k \in 1..Len(sccs') : k \in 1..Len(sccs) \/ k = Len(sccs) + 1
         /\ \A x : x \in Found' <=> x \in Found \/ x \in NodesOf(comp)
<1>1. PICK ss : ss = sccs'
  OBVIOUS
<1>2. /\ ss \in Seq(Seq(Names)) /\ Len(sccs) \in Nat /\ Len(ss) = Len(sccs) + 1
      /\ \A k \in 1..Len(sccs) : ss[k] = sccs[k]
      /\ ss[Len(sccs) + 1] = comp
  BY <1>1
<1>3. /\ \A k \in 1..Len(ss) : k \in 1..Len(sccs) \/ k = Len(sccs) + 1
      /\ \A k \in 1..Len(sccs) : k \in 1..Len(ss)
      /\ Len(sccs) + 1 \in 1..Len(ss)
  BY <1>2
<1>4. \A x : x \in Found' <=> \E k \in 1..Len(ss) : x \in NodesOf(ss[k])
  BY <1>1 DEF Found
<1>5. \A x : x \in Found <=> \E k \in 1..Len(sccs) : x \in NodesOf(sccs[k])
  BY DEF Found
<1>6. ASSUME NEW x PROVE x \in Found' <=> x \in Found \/ x \in NodesOf(comp)
  <2>1. ASSUME x \in Found' PROVE x \in Found \/ x \in NodesOf(comp)
    BY <1>2, <1>3, <1>4, <1>5, <2>1, Zenon
  <2>2. ASSUME x \in Found \/ x \in NodesOf(comp) PROVE x \in Found'
    BY <1>2, <1>3, <1>4, <1>5, <2>2, Zenon
  <2> QED
    BY <2>1, <2>2
<1> QED
  BY <1>1, <1>2, <1>3, <1>6

\* A component of open nodes that reach each other, and refer to nothing that is
\* not found, goes with the others.
LEMMA SccsGrow ==
  ASSUME SearchTypeOK, Numbered, Connected, Apart, CalleesFirst, UNCHANGED deps,
         NEW comp \in Seq(Names), sccs' = Append(sccs, comp),
         NodesOf(comp) \subseteq OnStack,
         \A p, q \in 1..Len(comp) : comp[p] = comp[q] => p = q,
         \A a, b \in NodesOf(comp) : LeadsTo(a, b),
         \A x \in NodesOf(comp) : \A w \in EdgesOf(x) : w \in Found \/ w \in NodesOf(comp)
  PROVE  Connected' /\ Apart' /\ CalleesFirst'
<1>1. PICK ss, m : ss = sccs' /\ m = Len(sccs) + 1
  OBVIOUS
<1>2. /\ Len(sccs) \in Nat /\ Len(ss) = m
      /\ \A k \in 1..Len(sccs) : ss[k] = sccs[k]
      /\ ss[m] = comp
      /\ \A k \in 1..m : k \in 1..Len(sccs) \/ k = m
      /\ \A k \in 1..Len(sccs) : k \in 1..m /\ k < m
  <2>1. sccs \in Seq(Seq(Names))
    BY DEF SearchTypeOK
  <2> QED
    BY <1>1, <2>1, FoundGrows
<1>3. \A k \in 1..Len(ss) : \A a, b \in NodesOf(ss[k]) : LeadsTo(a, b)
  BY <1>2 DEF Connected
<1>4. Connected'
  <2>1. \A k \in 1..Len(sccs') : \A a, b \in NodesOf(sccs'[k]) : LeadsTo(a, b)
    BY <1>1, <1>3
  <2> QED
    BY <2>1 DEF Connected, LeadsTo, ClosedUnder
<1>5. ASSUME NEW i \in 1..Len(sccs), NEW p \in 1..Len(ss[i]), NEW q \in 1..Len(comp), ss[i][p] = comp[q]
      PROVE  FALSE
  <2>1. ss[i][p] \in Found
    <3>1. ss[i] = sccs[i]
      BY <1>2
    <3>2. ss[i][p] \in NodesOf(sccs[i])
      BY <3>1 DEF NodesOf
    <3> QED
      BY <3>2, Zenon DEF Found
  <2>2. comp[q] \in OnStack
    BY DEF NodesOf
  <2> QED
    BY <1>5, <2>1, <2>2 DEF Numbered
<1>6. \A i, j \in 1..Len(ss) : \A p \in 1..Len(ss[i]), q \in 1..Len(ss[j]) :
        ss[i][p] = ss[j][q] => i = j /\ p = q
  <2> SUFFICES ASSUME NEW i \in 1..Len(ss), NEW j \in 1..Len(ss),
                      NEW p \in 1..Len(ss[i]), NEW q \in 1..Len(ss[j]), ss[i][p] = ss[j][q]
               PROVE  i = j /\ p = q
    OBVIOUS
  <2>1. CASE i = m /\ j = m
    <3>1. ss[i] = comp /\ ss[j] = comp
      BY <1>2, <2>1, Zenon
    <3>2. p \in 1..Len(comp) /\ q \in 1..Len(comp) /\ comp[p] = comp[q]
      BY <3>1
    <3> QED
      BY <2>1, <3>2
  <2>2. CASE i \in 1..Len(sccs) /\ j = m
    <3>1. q \in 1..Len(comp) /\ ss[i][p] = comp[q]
      BY <1>2, <2>2
    <3> QED
      BY <1>5, <2>2, <3>1
  <2>3. CASE i = m /\ j \in 1..Len(sccs)
    <3>1. p \in 1..Len(comp) /\ ss[j][q] = comp[p]
      BY <1>2, <2>3
    <3> QED
      BY <1>5, <2>3, <3>1
  <2>4. CASE i \in 1..Len(sccs) /\ j \in 1..Len(sccs)
    <3>1. /\ p \in 1..Len(sccs[i]) /\ q \in 1..Len(sccs[j])
          /\ sccs[i][p] = sccs[j][q]
      BY <1>2, <2>4
    <3> QED
      BY <2>4, <3>1 DEF Apart
  <2> QED
    BY <1>2, <2>1, <2>2, <2>3, <2>4
<1>7. Apart'
  <2> DEFINE Alone(s) == \A i, j \in 1..Len(s) : \A p \in 1..Len(s[i]), q \in 1..Len(s[j]) :
                           s[i][p] = s[j][q] => i = j /\ p = q
  <2>1. Alone(ss)
    BY <1>6
  <2>2. Alone(sccs')
    <3> HIDE DEF Alone
    <3> QED
      BY <1>1, <2>1
  <2> QED
    BY <2>2, Zenon DEF Apart
<1>8. \A k \in 1..Len(ss) : \A v \in NodesOf(ss[k]) : \A w \in EdgesOf(v) : \E j \in 1..k : w \in NodesOf(ss[j])
  <2> SUFFICES ASSUME NEW k \in 1..Len(ss), NEW v \in NodesOf(ss[k]), NEW w \in EdgesOf(v)
               PROVE  \E j \in 1..k : w \in NodesOf(ss[j])
    OBVIOUS
  <2>1. CASE k \in 1..Len(sccs)
    <3>1. PICK j \in 1..k : w \in NodesOf(sccs[j])
      BY <1>2, <2>1 DEF CalleesFirst, EdgesOf
    <3>2. j \in 1..Len(sccs)
      BY <1>2, <2>1
    <3> QED
      BY <1>2, <3>1, <3>2
  <2>2. CASE k = m
    <3>1. w \in Found \/ w \in NodesOf(comp)
      BY <1>2, <2>2
    <3>2. CASE w \in NodesOf(comp)
      <4>1. m \in 1..k
        BY <1>1, <1>2, <2>2
      <4> QED
        BY <1>2, <3>2, <4>1
    <3>3. CASE w \in Found
      <4>1. PICK j \in 1..Len(sccs) : w \in NodesOf(sccs[j])
        BY <3>3 DEF Found
      <4>2. j \in 1..k /\ ss[j] = sccs[j]
        BY <1>2, <2>2
      <4> QED
        BY <4>1, <4>2
    <3> QED
      BY <3>1, <3>2, <3>3
  <2> QED
    BY <1>2, <2>1, <2>2
<1>9. CalleesFirst'
  <2>1. \A k \in 1..Len(sccs') : \A v \in NodesOf(sccs'[k]) : \A w \in NodesOf(deps'[v]) :
          \E j \in 1..k : w \in NodesOf(sccs'[j])
    BY <1>1, <1>8 DEF EdgesOf
  <2> QED
    BY <2>1 DEF CalleesFirst
<1> QED
  BY <1>4, <1>7, <1>9

\* The call of a root: its component is closed.
LEMMA FinishClose ==
  ASSUME IInv, Finish, lowlink[Current.node] = index[Current.node]
  PROVE  IInv'
<1>0. PICK n, c, p, comp :
        n = Len(calls) /\ c = Current.node /\ p = calls[n - 1].node /\ comp = PoppedTo(Current.node)
  OBVIOUS
<1>1. /\ SearchTypeOK /\ Numbered /\ Searched(calls, index, lowlink, OnStack, Found)
      /\ Connected /\ Apart /\ CalleesFirst
  BY DEF IInv
<1>2. /\ calls # << >> /\ n \in Nat \ {0} /\ Current.left = << >> /\ Close
      /\ UNCHANGED <<deps, opts, index, turn>>
      /\ Front \in Seq(Frames) /\ Len(Front) = n - 1
      /\ n = 1 => calls' = << >> /\ Front = << >> /\ lowlink' = lowlink
      /\ n > 1 => /\ n - 1 \in 1..n /\ n - 1 \in 1..(n - 1) /\ Front[n - 1] = calls[n - 1]
                  /\ p \in Names /\ calls[n - 1].left \in Seq(Names)
                  /\ calls' = [Front EXCEPT ![n - 1].left = Tail(@)]
  BY <1>0, <1>1, Finished
<1>3. /\ calls \in Seq(Frames) /\ c = calls[Len(calls)].node /\ c \in Names
      /\ calls[Len(calls)].left = << >> /\ n \in 1..Len(calls)
  BY <1>0, <1>1, <1>2, TopTyped
<1>4. sccs' = Append(sccs, comp) /\ pending' = SubSeq(pending, 1, Len(pending) - Len(comp))
  BY <1>0, <1>2 DEF Close
<1>5. /\ index \in [Names -> Nat] /\ lowlink \in [Names -> Nat] /\ OnStack \in SUBSET Names
      /\ \A u \in Names : lowlink[u] <= index[u]
      /\ \A a, b \in OnStack : index[a] = index[b] => a = b
  BY <1>1, NumbersTyped, SetsTyped DEF Numbered
<1>6. c \in OnStack /\ lowlink[c] = index[c]
  BY <1>0, <1>1, <1>3 DEF Searched, Nested
<1>7. /\ comp \in Seq(Names) /\ pending' \in Seq(Names)
      /\ NodesOf(comp) = { x \in OnStack : index[x] >= index[c] }
      /\ OnStack' = { x \in OnStack : index[x] < index[c] }
      /\ \A i, j \in 1..Len(comp) : comp[i] = comp[j] => i = j
      /\ \A j, k \in 1..Len(pending') : j < k => index[pending'[j]] < index[pending'[k]]
  <2>1. PICK below : below = SubSeq(pending, 1, Len(pending) - Len(comp))
    OBVIOUS
  <2>2. /\ comp \in Seq(Names) /\ below \in Seq(Names)
        /\ NodesOf(comp) = { x \in OnStack : index[x] >= index[c] }
        /\ NodesOf(below) = { x \in OnStack : index[x] < index[c] }
        /\ \A i, j \in 1..Len(comp) : comp[i] = comp[j] => i = j
        /\ \A j, k \in 1..Len(below) : j < k => index[below[j]] < index[below[k]]
    BY <1>0, <1>1, <1>6, <2>1, Popping, Zenon
  <2>3. pending' = below
    BY <1>4, <2>1
  <2>4. OnStack' = NodesOf(below)
    BY <2>3 DEF OnStack
  <2> QED
    BY <2>2, <2>3, <2>4, Zenon
<1>8. /\ sccs' \in Seq(Seq(Names))
      /\ \A x : x \in Found' <=> x \in Found \/ x \in NodesOf(comp)
  <2>1. sccs \in Seq(Seq(Names))
    BY <1>1 DEF SearchTypeOK
  <2> QED
    BY <1>4, <1>7, <2>1, FoundGrows
<1>9. PICK open2, found2, low : open2 = OnStack' /\ found2 = Found' /\ low = lowlink'
  OBVIOUS
<1>10. /\ \A x : x \in open2 <=> x \in OnStack /\ index[x] < index[c]
       /\ \A x : x \in found2 <=> x \in Found \/ x \in NodesOf(comp)
       /\ \A x : x \in NodesOf(comp) <=> x \in OnStack /\ index[x] >= index[c]
  BY <1>7, <1>8, <1>9
<1>11. /\ Searched(Front, index, lowlink, open2, found2)
       /\ c \in NodesOf(comp)
       /\ \A x \in NodesOf(comp) : EdgesOf(x) \subseteq found2
       /\ \A a, b \in NodesOf(comp) : LeadsTo(a, b)
  <2>1. NodesOf(comp) = Since(c)
    BY <1>7 DEF Since
  <2>2. /\ \A x : x \in open2 <=> x \in OnStack /\ index[x] < index[c]
        /\ \A x : x \in found2 <=> x \in Found \/ x \in Since(c)
    BY <1>10, <2>1
  <2>3. Taken(c, open2, found2)
    BY <1>1, <1>2, <1>3, <1>5, <1>6, <2>2, CloseSearched
  <2> QED
    BY <2>1, <2>3, Zenon DEF Taken
<1>12. Searched(Front, index, low, open2, found2) /\ low = lowlink
  <2>1. CASE n = 1
    BY <1>2, <1>9, <1>11, <2>1
  <2>2. CASE n > 1
    <3>1. /\ p \in Names /\ index[p] < index[c]
          /\ lowlink' \in [Names -> Nat]
          /\ \A u \in Names : u # p => lowlink'[u] = lowlink[u]
          /\ lowlink'[p] = lowlink[p] \/ (lowlink'[p] = lowlink[c] /\ lowlink[c] < lowlink[p])
      BY <1>0, <2>2, TakenOver
    <3>2. lowlink'[p] = lowlink[p]
      <4>1. /\ lowlink[p] <= index[p] /\ lowlink[p] \in Nat /\ index[p] \in Nat
            /\ index[c] \in Nat /\ lowlink[c] = index[c]
        BY <1>3, <1>5, <1>6, <3>1
      <4>2. ~(lowlink[c] < lowlink[p])
        BY <3>1, <4>1
      <4> QED
        BY <3>1, <4>2
    <3>3. \A u \in Names : lowlink'[u] = lowlink[u]
      BY <3>1, <3>2
    <3>4. lowlink' = lowlink
      BY <1>5, <3>1, <3>3
    <3> QED
      BY <1>9, <1>11, <3>4
  <2>3. n = 1 \/ n > 1
    BY <1>2
  <2> QED
    BY <2>1, <2>2, <2>3
<1>13. PICK cs2 : cs2 = calls'
  OBVIOUS
<1>14. cs2 \in Seq(Frames) /\ Searched(cs2, index, low, open2, found2)
  <2>1. CASE n = 1
    BY <1>2, <1>12, <1>13, <2>1
  <2>2. CASE n > 1
    <3>1. /\ c \in OnStack /\ calls[n - 1].left # << >> /\ Head(calls[n - 1].left) = c
      BY <1>0, <2>2, TakenOver
    <3>2. Allowed(c, low[p], index, open2, found2)
      BY <1>10, <1>11 DEF Allowed
    <3>3. cs2 = [Front EXCEPT ![Len(Front)].left = Tail(@)] /\ Front # << >>
      BY <1>2, <1>13, <2>2
    <3>4. /\ Front[Len(Front)].left # << >>
          /\ Allowed(Head(Front[Len(Front)].left), low[Front[Len(Front)].node], index, open2, found2)
      BY <1>0, <1>2, <2>2, <3>1, <3>2
    <3> QED
      BY <1>2, <1>12, <3>3, <3>4, CallerSearched
  <2>3. n = 1 \/ n > 1
    BY <1>2
  <2> QED
    BY <2>1, <2>2, <2>3
<1>15. Searched(calls, index, lowlink, OnStack, Found)'
  <2>1. Searched(calls', index', lowlink', OnStack', Found')
    BY <1>2, <1>9, <1>13, <1>14
  <2> QED
    BY <1>2, <2>1, SearchedKept
<1>16. SearchTypeOK'
  <2>1. calls' \in Seq(Frames)
    BY <1>13, <1>14
  <2> QED
    BY <1>7, <1>8, <2>1, FinishTyped
<1>17. Numbered'
  <2>1. Discovered' = Discovered
    BY <1>2 DEF Discovered
  <2>2. \A x \in OnStack : index[x] \in Nat /\ index[c] \in Nat
    BY <1>3, <1>5
  <2>3. \A x \in OnStack : index[x] < index[c] <=> ~(index[x] >= index[c])
    BY <2>2
  <2>4. \A x : x \in OnStack' \cup Found' <=> x \in OnStack \cup Found
    BY <1>9, <1>10, <2>3
  <2>5. OnStack' \cup Found' = Discovered'
    BY <1>1, <2>1, <2>4 DEF Numbered
  <2>6. OnStack' \cap Found' = {}
    BY <1>1, <1>9, <1>10, <2>3 DEF Numbered
  <2> QED
    BY <1>1, <1>2, <2>1, <2>5, <2>6 DEF Numbered
<1>18. Connected' /\ Apart' /\ CalleesFirst'
  <2>1. NodesOf(comp) \subseteq OnStack
    BY <1>10
  <2>2. \A x \in NodesOf(comp) : \A w \in EdgesOf(x) : w \in Found \/ w \in NodesOf(comp)
    BY <1>10, <1>11
  <2> QED
    BY <1>1, <1>2, <1>4, <1>7, <1>11, <2>1, <2>2, SccsGrow
<1> QED
  BY <1>15, <1>16, <1>17, <1>18 DEF IInv

LEMMA FinishInductive == IInv /\ Finish => IInv'
  BY FinishClose, FinishLower

LEMMA Initial == SearchInit => IInv
<1> SUFFICES ASSUME SearchInit PROVE IInv
  OBVIOUS
<1>1. /\ Size \in Nat /\ deps \in [Names -> Seq(Names)] /\ opts \in [reverse : BOOLEAN, sort : BOOLEAN]
      /\ index = [v \in Names |-> 0] /\ lowlink = [v \in Names |-> 0]
      /\ calls = << >> /\ pending = << >> /\ sccs = << >> /\ turn = 1
  BY NamesAssumption DEF SearchInit
<1>2. SearchTypeOK
  BY <1>1 DEF SearchTypeOK
<1>3. Discovered = {} /\ OnStack = {} /\ Found = {}
  BY <1>1 DEF Discovered, OnStack, Found, NodesOf
<1>4. Numbered
  <2>1. \A v \in Names : index[v] <= Cardinality(Discovered)
    BY <1>1, <1>3, FS_EmptySet
  <2>2. \A v \in Names : v < turn => v \in Discovered
    BY <1>1 DEF Names
  <2> QED
    BY <1>3, <2>1, <2>2 DEF Numbered
<1>5. Searched(calls, index, lowlink, OnStack, Found)
  <2>1. Len(calls) = 0 /\ 1..0 = {}
    BY <1>1
  <2> QED
    BY <1>3, <2>1 DEF Searched, Nested, EdgesAllowed, LowReached, AboveReached, CallReached
<1>6. Connected /\ Apart /\ CalleesFirst
  <2>1. Len(sccs) = 0 /\ 1..0 = {}
    BY <1>1
  <2> QED
    BY <2>1 DEF Connected, Apart, CalleesFirst
<1> QED
  BY <1>2, <1>4, <1>5, <1>6 DEF IInv

\* The invariant holds of every state of the search.
LEMMA Invariance == SearchSpec => []IInv
<1>1. SearchInit => IInv
  BY Initial
<1>2. IInv /\ [SearchNext]_searchVars => IInv'
  <2> SUFFICES ASSUME IInv, [SearchNext]_searchVars PROVE IInv'
    OBVIOUS
  <2>1. CASE StartAt
    BY <2>1, StartInductive
  <2>2. CASE Visit
    BY <2>2, VisitInductive
  <2>3. CASE Look
    BY <2>3, LookInductive
  <2>4. CASE Finish
    BY <2>4, FinishInductive
  <2>5. CASE UNCHANGED searchVars
    <3>1. /\ UNCHANGED <<deps, opts, calls, index, lowlink, pending, sccs, turn>>
      BY <2>5 DEF searchVars
    <3>2. OnStack' = OnStack /\ Found' = Found
      BY <3>1 DEF OnStack, Found
    <3>3. SearchTypeOK'
      BY <3>1 DEF IInv, SearchTypeOK
    <3>4. Searched(calls, index, lowlink, OnStack, Found)'
      BY <3>1, <3>2, SearchedKept DEF IInv
    <3>5. Numbered' /\ Connected' /\ Apart' /\ CalleesFirst'
      BY <3>1, <3>2, NumberedKept, SccsKept DEF IInv
    <3> QED
      BY <3>3, <3>4, <3>5 DEF IInv
  <2> QED
    BY <2>1, <2>2, <2>3, <2>4, <2>5 DEF SearchNext
<1> QED
  BY <1>1, <1>2, PTL DEF SearchSpec

-----------------------------------------------------------------------------
(***************************************************************************)
(* The end of the search                                                   *)
(***************************************************************************)
\* Nothing is open, and every node is in a component.
LEMMA AllFound ==
  ASSUME IInv, SearchDone
  PROVE  Found = Names /\ \A v \in Names : \E k \in 1..Len(sccs) : v \in NodesOf(sccs[k])
<1>1. OnStack = {}
  <2>1. Len(calls) = 0 /\ 1..0 = {}
    BY DEF SearchDone
  <2> QED
    BY <2>1 DEF IInv, Searched, CallReached
<1>2. \A v \in Names : v < turn
  BY NamesAssumption DEF SearchDone, Names
<1>3. Discovered = Names
  BY <1>2, SetsTyped DEF IInv, Numbered
<1>4. Found = Names
  BY <1>1, <1>3 DEF IInv, Numbered
<1> QED
  BY <1>4 DEF Found

\* What a component holds is a name, and is in no other.
LEMMA InOne ==
  ASSUME IInv
  PROVE  /\ sccs \in Seq(Seq(Names)) /\ Len(sccs) \in Nat
         /\ \A k \in 1..Len(sccs) : sccs[k] \in Seq(Names) /\ NodesOf(sccs[k]) \subseteq Names
         /\ \A i, j \in 1..Len(sccs) : \A v : v \in NodesOf(sccs[i]) /\ v \in NodesOf(sccs[j]) => i = j
<1>1. sccs \in Seq(Seq(Names))
  BY DEF IInv, SearchTypeOK
<1>2. Len(sccs) \in Nat /\ \A k \in 1..Len(sccs) : sccs[k] \in Seq(Names)
  BY <1>1
<1>3. \A k \in 1..Len(sccs) : NodesOf(sccs[k]) \subseteq Names
  BY <1>2, ElemsType
<1>4. ASSUME NEW i \in 1..Len(sccs), NEW j \in 1..Len(sccs), NEW v, v \in NodesOf(sccs[i]), v \in NodesOf(sccs[j])
      PROVE  i = j
  <2>1. PICK p \in 1..Len(sccs[i]) : sccs[i][p] = v
    BY <1>4 DEF NodesOf
  <2>2. PICK q \in 1..Len(sccs[j]) : sccs[j][q] = v
    BY <1>4 DEF NodesOf
  <2>3. Apart
    BY DEF IInv
  <2> QED
    BY <2>1, <2>2, <2>3 DEF Apart
<1> QED
  BY <1>1, <1>2, <1>3, <1>4

\* Nothing that a component reaches was found after it.
LEMMA NoneLater ==
  ASSUME IInv, NEW i \in 1..Len(sccs), NEW j \in 1..Len(sccs),
         NEW a \in NodesOf(sccs[i]), NEW b \in NodesOf(sccs[j]), LeadsTo(a, b)
  PROVE  j <= i
<1> DEFINE Upto == UNION { NodesOf(sccs[k]) : k \in 1..i }
<1>1. /\ Len(sccs) \in Nat /\ \A k \in 1..i : k \in 1..Len(sccs)
      /\ \A k \in 1..Len(sccs) : NodesOf(sccs[k]) \subseteq Names
  BY InOne
<1>2. Upto \in SUBSET Names
  BY <1>1
<1>3. a \in Upto
  <2>1. i \in 1..i
    BY <1>1
  <2> QED
    BY <2>1
<1>4. ClosedUnder(Upto)
  <2>1. ASSUME NEW v \in Upto, NEW w \in NodesOf(deps[v]) PROVE w \in Upto
    <3>1. PICK k \in 1..i : v \in NodesOf(sccs[k])
      OBVIOUS
    <3>2. PICK m \in 1..k : w \in NodesOf(sccs[m])
      BY <1>1, <3>1 DEF IInv, CalleesFirst
    <3>3. m \in 1..i
      BY <1>1, <3>1
    <3> QED
      BY <3>2, <3>3
  <2> QED
    BY <2>1 DEF ClosedUnder
<1>5. b \in Upto
  BY <1>2, <1>3, <1>4 DEF LeadsTo
<1>6. PICK k \in 1..i : b \in NodesOf(sccs[k])
  BY <1>5
<1>7. k = j
  BY <1>1, <1>6, InOne
<1> QED
  BY <1>1, <1>7

\* Each of two nodes reaches the other exactly if they share a component.
LEMMA ComponentsReached == IInv => MutuallyReachable
<1> SUFFICES ASSUME IInv, SearchDone, NEW a \in Names, NEW b \in Names
             PROVE  LeadsTo(a, b) /\ LeadsTo(b, a)
                      <=> \E k \in 1..Len(sccs) : {a, b} \subseteq NodesOf(sccs[k])
  BY DEF MutuallyReachable
<1>1. ASSUME LeadsTo(a, b), LeadsTo(b, a) PROVE \E k \in 1..Len(sccs) : {a, b} \subseteq NodesOf(sccs[k])
  <2>1. PICK i \in 1..Len(sccs) : a \in NodesOf(sccs[i])
    BY AllFound
  <2>2. PICK j \in 1..Len(sccs) : b \in NodesOf(sccs[j])
    BY AllFound
  <2>3. j <= i /\ i <= j
    BY <1>1, <2>1, <2>2, NoneLater
  <2>4. i = j
    BY <2>3, InOne
  <2> QED
    BY <2>1, <2>2, <2>4
<1>2. ASSUME NEW k \in 1..Len(sccs), {a, b} \subseteq NodesOf(sccs[k]) PROVE LeadsTo(a, b) /\ LeadsTo(b, a)
  BY <1>2 DEF IInv, Connected
<1> QED
  BY <1>1, <1>2

LEMMA Partitioned == IInv => Partition
<1> SUFFICES ASSUME IInv, SearchDone PROVE Partition
  BY DEF Partition
<1>1. \A v \in Names : \E k \in 1..Len(sccs) : v \in NodesOf(sccs[k])
  BY AllFound
<1>2. \A i, j \in 1..Len(sccs) : \A p \in 1..Len(sccs[i]), q \in 1..Len(sccs[j]) :
        sccs[i][p] = sccs[j][q] => i = j /\ p = q
  BY DEF IInv, Apart
<1> QED
  BY <1>1, <1>2 DEF Partition

\* What reaches another node does so by one of its edges.
LEMMA ByAnEdge ==
  ASSUME SearchTypeOK, NEW a \in Names, NEW b \in Names, LeadsTo(a, b), a # b
  PROVE  \E w \in EdgesOf(a) : w \in Names /\ LeadsTo(w, b)
<1>1. SUFFICES ASSUME \A w \in EdgesOf(a) : ~(w \in Names /\ LeadsTo(w, b)) PROVE FALSE
  OBVIOUS
<1> DEFINE S == {a} \cup { x \in Names : ~LeadsTo(x, b) }
<1>2. S \in SUBSET Names /\ a \in S
  OBVIOUS
<1>3. b \notin S
  BY ReachesItself
<1>4. ClosedUnder(S)
  <2>1. ASSUME NEW v \in S, NEW w \in NodesOf(deps[v]) PROVE w \in S
    <3>1. v \in Names /\ w \in EdgesOf(v) /\ w \in Names
      BY RefsTyped DEF EdgesOf
    <3>2. CASE v = a
      BY <1>1, <3>1, <3>2
    <3>3. CASE v # a
      <4>1. ~LeadsTo(v, b)
        BY <3>3
      <4>2. LeadsTo(v, w)
        BY <3>1, ReachesRef
      <4>3. ~LeadsTo(w, b)
        BY <3>1, <4>1, <4>2, ReachesThrough
      <4> QED
        BY <3>1, <4>3
    <3> QED
      BY <3>2, <3>3
  <2> QED
    BY <2>1 DEF ClosedUnder
<1> QED
  BY <1>2, <1>3, <1>4 DEF LeadsTo

\* A component is named as a cycle exactly if one of its nodes gets back to itself.
LEMMA CyclesFound == IInv => CyclesReported
<1> SUFFICES ASSUME IInv, SearchDone, NEW k \in 1..Len(sccs)
             PROVE  Cyclic(sccs[k])
                      <=> \E v \in NodesOf(sccs[k]) : \E w \in NodesOf(deps[v]) : LeadsTo(w, v)
  BY DEF CyclesReported
<1> DEFINE comp == sccs[k]
<1>1. SearchTypeOK
  BY DEF IInv
<1>2. comp \in Seq(Names) /\ Len(comp) \in Nat /\ NodesOf(comp) \subseteq Names
  BY InOne
<1>3. \A i \in 1..Len(comp) : comp[i] \in NodesOf(comp)
  BY DEF NodesOf
<1>4. \A i, j \in 1..Len(comp) : comp[i] = comp[j] => i = j
  BY DEF IInv, Apart
<1> HIDE DEF comp
<1>5. ASSUME Len(comp) > 1
      PROVE  \E v \in NodesOf(comp) : \E w \in NodesOf(deps[v]) : LeadsTo(w, v)
  <2>1. 1 \in 1..Len(comp) /\ 2 \in 1..Len(comp)
    BY <1>2, <1>5
  <2>2. PICK a \in NodesOf(comp), b \in NodesOf(comp) : a # b
    BY <1>3, <1>4, <2>1
  <2>3. a \in Names /\ b \in Names /\ LeadsTo(a, b) /\ LeadsTo(b, a)
    BY <1>2, <2>2 DEF IInv, Connected, comp
  <2>4. PICK w \in EdgesOf(a) : w \in Names /\ LeadsTo(w, b)
    BY <1>1, <2>2, <2>3, ByAnEdge
  <2>5. LeadsTo(w, a)
    BY <2>3, <2>4, ReachesThrough
  <2> QED
    BY <2>2, <2>4, <2>5 DEF EdgesOf
<1>6. ASSUME Len(comp) = 1, comp[1] \in NodesOf(deps[comp[1]])
      PROVE  \E v \in NodesOf(comp) : \E w \in NodesOf(deps[v]) : LeadsTo(w, v)
  <2>1. comp[1] \in NodesOf(comp) /\ comp[1] \in Names
    BY <1>2, <1>3, <1>6
  <2> QED
    BY <1>6, <2>1, ReachesItself
<1>7. ASSUME NEW v \in NodesOf(comp), NEW w \in NodesOf(deps[v]), LeadsTo(w, v)
      PROVE  Cyclic(comp)
  <2>1. v \in Names /\ w \in EdgesOf(v) /\ w \in Names
    BY <1>1, <1>2, RefsTyped DEF EdgesOf
  <2>2. LeadsTo(v, w)
    BY <2>1, ReachesRef
  <2>3. PICK j \in 1..Len(sccs) : {v, w} \subseteq NodesOf(sccs[j])
    BY <1>7, <2>1, <2>2, ComponentsReached DEF MutuallyReachable
  <2>4. v \in NodesOf(sccs[j]) /\ w \in NodesOf(sccs[j]) /\ v \in NodesOf(sccs[k])
    BY <2>3 DEF comp
  <2>5. w \in NodesOf(comp)
    BY <2>4, InOne DEF comp
  <2>6. CASE Len(comp) = 1
    <3>1. v = comp[1] /\ w = comp[1]
      BY <2>5, <2>6 DEF NodesOf
    <3> QED
      BY <2>6, <3>1 DEF Cyclic
  <2>7. CASE Len(comp) = 0
    BY <1>7, <2>7 DEF NodesOf
  <2>8. CASE Len(comp) > 1
    BY <2>8 DEF Cyclic
  <2> QED
    <3>1. \A m \in Nat : m = 0 \/ m = 1 \/ m > 1
      OBVIOUS
    <3> QED
      BY <1>2, <2>6, <2>7, <2>8, <3>1, Zenon
<1>8. Cyclic(comp) <=> \E v \in NodesOf(comp) : \E w \in NodesOf(deps[v]) : LeadsTo(w, v)
  BY <1>5, <1>6, <1>7 DEF Cyclic
<1> QED
  BY <1>8 DEF comp

(***************************************************************************)
(* Sorting a component                                                     *)
(***************************************************************************)
\* Of finitely many numbers, one has exactly k - 1 below it.
LEMMA Ranks ==
  ASSUME NEW P \in SUBSET Nat, IsFiniteSet(P)
  PROVE  /\ \A k \in 1..Cardinality(P) : \E n \in P : Cardinality({ u \in P : u < n }) = k - 1
         /\ \A a, b \in P : a < b => Cardinality({ u \in P : u < a }) < Cardinality({ u \in P : u < b })
         /\ \A n \in P : Cardinality({ u \in P : u < n }) \in Nat
<1> DEFINE B(n) == { u \in P : u < n }
           rank == [n \in P |-> Cardinality(B(n)) + 1]
           K == 1..Cardinality(P)
<1>1. Cardinality(P) \in Nat /\ IsFiniteSet(K) /\ Cardinality(K) = Cardinality(P)
  BY FS_CardinalityType, FS_Interval
<1>2. ASSUME NEW n \in P
      PROVE  IsFiniteSet(B(n)) /\ Cardinality(B(n)) \in Nat /\ Cardinality(B(n)) < Cardinality(P)
  <2>1. B(n) \subseteq P /\ n \notin B(n)
    OBVIOUS
  <2>2. /\ IsFiniteSet(B(n)) /\ Cardinality(B(n)) <= Cardinality(P)
        /\ Cardinality(P) # Cardinality(B(n))
    BY <2>1, FS_Subset
  <2>3. Cardinality(B(n)) \in Nat
    BY <2>2, FS_CardinalityType
  <2> QED
    BY <1>1, <2>2, <2>3
<1>3. ASSUME NEW a \in P, NEW b \in P, a < b PROVE Cardinality(B(a)) < Cardinality(B(b))
  <2>1. B(a) \subseteq B(b)
    <3>1. ASSUME NEW u \in P, u < a PROVE u < b
      <4>1. u \in Nat /\ a \in Nat /\ b \in Nat
        OBVIOUS
      <4> QED
        BY <1>3, <3>1, <4>1
    <3> QED
      BY <3>1
  <2>2. a \in B(b) /\ a \notin B(a)
    BY <1>3
  <2>3. Cardinality(B(a)) <= Cardinality(B(b)) /\ Cardinality(B(b)) # Cardinality(B(a))
    BY <1>2, <2>1, <2>2, FS_Subset
  <2> QED
    BY <1>2, <2>3
<1> HIDE DEF B
<1>4. \A n \in P : rank[n] \in K
  BY <1>1, <1>2
<1>5. rank \in Injection(P, K)
  <2>1. rank \in [P -> K]
    BY <1>4
  <2>2. ASSUME NEW a \in P, NEW b \in P, rank[a] = rank[b] PROVE a = b
    <3>1. ~(a < b) /\ ~(b < a)
      BY <1>2, <1>3, <2>2
    <3> QED
      BY <3>1
  <2> QED
    BY <2>1, <2>2 DEF Injection, IsInjective
<1>6. rank \in Surjection(P, K)
  BY <1>1, <1>5, FS_Injection
<1>7. ASSUME NEW k \in K PROVE \E n \in P : Cardinality(B(n)) = k - 1
  <2>1. PICK n \in P : rank[n] = k
    BY <1>6 DEF Surjection
  <2>2. Cardinality(B(n)) + 1 = k
    BY <2>1
  <2> QED
    BY <1>2, <2>2
<1> QED
  BY <1>2, <1>3, <1>7 DEF B

\* sort_by_key gives the members of a component in source order.
LEMMA SortedInOrder ==
  ASSUME opts.sort, NEW comp \in Seq(Names),
         \A i, j \in 1..Len(comp) : comp[i] = comp[j] => i = j
  PROVE  /\ Len(Sorted(comp)) = Len(comp)
         /\ \A i, j \in 1..Len(comp) : i < j => Sorted(comp)[i] < Sorted(comp)[j]
<1> DEFINE P == NodesOf(comp)
           K == 1..Len(comp)
<1>1. Len(comp) \in Nat /\ IsFiniteSet(K) /\ Cardinality(K) = Len(comp)
  BY FS_Interval
<1>2. P \subseteq Names /\ P \in SUBSET Nat
  <2>1. P \subseteq Names
    BY ElemsType
  <2>2. Names \subseteq Nat
    BY DEF Names
  <2> QED
    BY <2>1, <2>2
<1>3. comp \in Surjection(K, P) /\ comp \in Injection(K, P)
  <2>1. comp \in [K -> P] /\ \A t \in P : \E k \in K : comp[k] = t
    BY DEF NodesOf
  <2> QED
    BY <2>1 DEF Surjection, Injection, IsInjective
<1>4. IsFiniteSet(P) /\ Cardinality(P) = Len(comp)
  BY <1>1, <1>3, FS_Surjection
<1>5. /\ \A k \in K : \E n \in P : Cardinality(Before(comp, n)) = k - 1
      /\ \A a, b \in P : a < b => Cardinality(Before(comp, a)) < Cardinality(Before(comp, b))
      /\ \A n \in P : Cardinality(Before(comp, n)) \in Nat
  BY <1>2, <1>4, Ranks DEF Before
<1>6. /\ Len(Sorted(comp)) = Len(comp)
      /\ \A k \in K : Sorted(comp)[k] = CHOOSE v \in P : Cardinality(Before(comp, v)) = k - 1
  BY <1>1 DEF Sorted
<1> HIDE DEF P
<1>7. \A k \in K : Sorted(comp)[k] \in P /\ Cardinality(Before(comp, Sorted(comp)[k])) = k - 1
  BY <1>5, <1>6
<1>8. ASSUME NEW i \in K, NEW j \in K, i < j PROVE Sorted(comp)[i] < Sorted(comp)[j]
  <2>1. PICK a \in P, b \in P : /\ a = Sorted(comp)[i] /\ b = Sorted(comp)[j]
                                /\ Cardinality(Before(comp, a)) = i - 1
                                /\ Cardinality(Before(comp, b)) = j - 1
    BY <1>7
  <2>2. a \in Nat /\ b \in Nat /\ i \in Nat /\ j \in Nat
    BY <1>1, <1>2
  <2>3. ~(b < a) /\ a # b
    BY <1>5, <1>8, <2>1, <2>2
  <2> QED
    BY <2>1, <2>2, <2>3
<1> QED
  BY <1>6, <1>8

LEMMA SourceOrderKept == IInv => SourceOrder
<1> SUFFICES ASSUME IInv, opts.sort, NEW k \in 1..Len(Returned)
             PROVE  \A i, j \in 1..Len(Returned[k]) : i < j => Returned[k][i] < Returned[k][j]
  BY DEF SourceOrder
<1>1. Len(sccs) \in Nat /\ \A m \in 1..Len(sccs) : sccs[m] \in Seq(Names)
  BY InOne
<1>2. k \in 1..Len(sccs) /\ Len(sccs) - k + 1 \in 1..Len(sccs)
  BY <1>1 DEF Returned
<1>3. PICK m \in 1..Len(sccs) : Returned[k] = Sorted(sccs[m])
  <2>1. Returned[k] = Sorted(IF opts.reverse THEN sccs[Len(sccs) - k + 1] ELSE sccs[k])
    BY <1>1, <1>2 DEF Returned
  <2> QED
    BY <1>2, <2>1
<1>4. \A i, j \in 1..Len(sccs[m]) : sccs[m][i] = sccs[m][j] => i = j
  BY DEF IInv, Apart
<1> QED
  BY <1>1, <1>3, <1>4, SortedInOrder

-----------------------------------------------------------------------------
(***************************************************************************)
(* Theorems                                                                *)
(***************************************************************************)
\* The values of tarjan_sccs stay in their sets: no lowlink passes its index,
\* and the stack holds the open nodes in the order of their discovery.
THEOREM TypeCorrect == SearchSpec => []SearchTypeOK
<1>1. IInv => SearchTypeOK
  BY DEF IInv
<1> QED
  BY <1>1, Invariance, PTL

\* What tarjan_sccs returns are the strongly connected components of the graph:
\* two nodes share one exactly if each reaches the other, every node is in one,
\* once, whatever a component refers to was found before it, its members come in
\* source order where sort_sccs_by_source_order asks for it, and V52 names as
\* cyclic exactly those that have a cycle.
THEOREM ComponentsAreExact == SearchSpec => []ComponentsExact
<1>1. IInv => ComponentsExact
  BY ComponentsReached, Partitioned, CyclesFound, SourceOrderKept DEF ComponentsExact, IInv
<1> QED
  BY <1>1, Invariance, PTL

-----------------------------------------------------------------------------
(***************************************************************************)
(* The closure over failing routes                                         *)
(***************************************************************************)
\* What the closure looks for: a set that holds the local fail surfaces and,
\* with a route, its callers.
HoldsFailures(S) ==
  /\ LocalFails \subseteq S
  /\ \A q \in Routes : CallCallees(q) \cap S # {} => q \in S

Surfaces == { r \in Routes : \A S \in SUBSET Routes : HoldsFailures(S) => r \in S }

\* What is found belongs to the least such set, and a pass that has found
\* nothing yet has nothing to find among the routes it has looked at.
ClosureInv ==
  /\ ClosureTypeOK
  /\ canFail \subseteq Surfaces
  /\ ~changed => \A r \in Routes \ left : CallCallees(r) \cap canFail # {} => r \in canFail

LEMMA LeastIsSurfaces == LeastClosed(LocalFails, CallCallees) = Surfaces
  BY DEF LeastClosed, Surfaces, HoldsFailures

\* The bodies do not change, and neither do the facts read off them.
LEMMA FactsKept ==
  ASSUME UNCHANGED program
  PROVE  LocalFails' = LocalFails /\ Surfaces' = Surfaces /\ \A r : CallCallees(r)' = CallCallees(r)
<1>1. LocalFails' = LocalFails
  BY DEF LocalFails, LocalFail
<1>2. \A r : CallCallees(r)' = CallCallees(r)
  BY DEF CallCallees
<1>3. \A S : HoldsFailures(S)' <=> HoldsFailures(S)
  BY <1>1, <1>2 DEF HoldsFailures
<1> QED
  BY <1>1, <1>2, <1>3 DEF Surfaces

LEMMA ClosureStarts == ClosureInit => ClosureInv
<1> SUFFICES ASSUME ClosureInit PROVE ClosureInv
  OBVIOUS
<1>1. LocalFails = canFail /\ canFail \subseteq Routes
  BY DEF ClosureInit, LocalFails
<1>2. ClosureTypeOK
  BY <1>1, ProgramsAssumption DEF ClosureInit, ClosureTypeOK
<1>3. canFail \subseteq Surfaces
  BY <1>1 DEF Surfaces, HoldsFailures
<1> QED
  BY <1>2, <1>3 DEF ClosureInv, ClosureInit

LEMMA BeginPassInductive == ClosureInv /\ BeginPass => ClosureInv'
<1> SUFFICES ASSUME ClosureInv, BeginPass PROVE ClosureInv'
  OBVIOUS
<1>1. program' = program /\ canFail' = canFail /\ left' = Routes /\ changed' = FALSE
  BY DEF BeginPass
<1>2. ClosureTypeOK'
  BY <1>1, FactsKept DEF ClosureInv, ClosureTypeOK
<1>3. canFail' \subseteq Surfaces'
  BY <1>1, FactsKept DEF ClosureInv
<1> QED
  BY <1>1, <1>2, <1>3 DEF ClosureInv

LEMMA LookAtInductive == ASSUME NEW r \in Routes PROVE ClosureInv /\ LookAt(r) => ClosureInv'
<1> SUFFICES ASSUME ClosureInv, LookAt(r) PROVE ClosureInv'
  OBVIOUS
<1>1. program' = program /\ left' = left \ {r} /\ r \in left
  BY DEF LookAt
<1>2. LocalFails' = LocalFails /\ Surfaces' = Surfaces /\ \A q : CallCallees(q)' = CallCallees(q)
  BY <1>1, FactsKept
<1>3. CASE r \notin canFail /\ CallCallees(r) \cap canFail # {}
  <2>1. canFail' = canFail \cup {r} /\ changed' = TRUE
    BY <1>3 DEF LookAt
  <2>2. r \in Surfaces
    BY <1>3 DEF ClosureInv, Surfaces, HoldsFailures
  <2>3. ClosureTypeOK'
    BY <1>1, <1>2, <2>1 DEF ClosureInv, ClosureTypeOK
  <2> QED
    BY <1>2, <2>1, <2>2, <2>3 DEF ClosureInv
<1>4. CASE ~(r \notin canFail /\ CallCallees(r) \cap canFail # {})
  <2>1. canFail' = canFail /\ changed' = changed
    BY <1>4 DEF LookAt
  <2>2. ClosureTypeOK'
    BY <1>1, <1>2, <2>1 DEF ClosureInv, ClosureTypeOK
  <2>3. ASSUME ~changed', NEW q \in Routes \ left', CallCallees(q)' \cap canFail' # {} PROVE q \in canFail'
    BY <1>1, <1>2, <1>4, <2>1, <2>3 DEF ClosureInv
  <2> QED
    BY <1>2, <2>1, <2>2, <2>3 DEF ClosureInv
<1> QED
  BY <1>3, <1>4

LEMMA ClosureInvariance == ClosureSpec => []ClosureInv
<1>1. ClosureInv /\ [ClosureNext]_closureVars => ClosureInv'
  <2> SUFFICES ASSUME ClosureInv, [ClosureNext]_closureVars PROVE ClosureInv'
    OBVIOUS
  <2>1. CASE BeginPass
    BY <2>1, BeginPassInductive
  <2>2. ASSUME NEW r \in Routes, LookAt(r) PROVE ClosureInv'
    BY <2>2, LookAtInductive
  <2>3. CASE UNCHANGED closureVars
    <3>1. program' = program /\ canFail' = canFail /\ changed' = changed /\ left' = left
      BY <2>3 DEF closureVars
    <3> QED
      BY <3>1, FactsKept DEF ClosureInv, ClosureTypeOK
  <2> QED
    BY <2>1, <2>2, <2>3 DEF ClosureNext
<1> QED
  BY <1>1, ClosureStarts, PTL DEF ClosureSpec

LEMMA ClosureIsExact == ClosureInv => ClosureExact
<1> SUFFICES ASSUME ClosureInv, ClosureDone PROVE canFail = Surfaces
  BY LeastIsSurfaces DEF ClosureExact
<1>1. canFail \in SUBSET Routes /\ HoldsFailures(canFail)
  BY DEF ClosureInv, ClosureTypeOK, ClosureDone, HoldsFailures
<1> QED
  BY <1>1 DEF ClosureInv, Surfaces

(***************************************************************************)
(* What the backends make of it                                            *)
(***************************************************************************)
\* When the passes are over, what is found is closed under the callers.
LEMMA CallersFail ==
  ASSUME ClosureInv, ClosureDone, NEW q \in Routes, CallCallees(q) \cap canFail # {}
  PROVE  q \in canFail
  BY DEF ClosureInv, ClosureDone

LEMMA Targets ==
  ASSUME ClosureInv, NEW r \in Routes
  PROVE  Calls(r) \subseteq Routes /\ Sends(r) \subseteq Routes
<1>1. program[r] \in Bodies
  BY DEF ClosureInv, ClosureTypeOK
<1>2. \A b \in program[r].actions : b.kind \in {"call", "send"} => b \in Directed
  BY <1>1 DEF Bodies, Plain, Directed
<1> QED
  BY <1>2 DEF Calls, CallCallees, Sends, Directed

\* A set without r that a call never leaves stays so for all that r calls.
LEMMA CalledStay ==
  ASSUME NEW S \in SUBSET Routes, NEW r \in S, \A p \in S : Calls(p) \subseteq S
  PROVE  Called(r) \subseteq S
  BY DEF Called

LEMMA CalledItself == \A r \in Routes : r \in Called(r)
  BY DEF Called

LEMMA CalledOn ==
  ASSUME ClosureInv, NEW r \in Routes, NEW t \in Calls(r)
  PROVE  Called(t) \subseteq Called(r) /\ t \in Called(r)
<1>1. t \in Routes
  BY Targets
<1> QED
  BY <1>1 DEF Called

\* A failing route among those that r calls makes r fail, if calls are all that
\* is between them.
LEMMA FoundThroughCalls ==
  ASSUME ClosureInv, ClosureDone, NEW r \in Routes, NEW q \in Called(r), q \in canFail
  PROVE  r \in canFail
<1> SUFFICES ASSUME r \notin canFail PROVE FALSE
  OBVIOUS
<1> DEFINE S == Routes \ canFail
<1>1. S \in SUBSET Routes /\ r \in S
  OBVIOUS
<1>2. \A p \in S : Calls(p) \subseteq S
  BY CallersFail, Targets DEF Calls
<1>3. Called(r) \subseteq S
  BY <1>1, <1>2, CalledStay
<1> QED
  BY <1>3

\* What makes a route revert, and the sets that hold all that revert.
OwnFailures == { r \in Routes : program[r].clause \/ \E k \in Failing : Has(k, r) }

HoldsReverts(S) ==
  /\ OwnFailures \subseteq S
  /\ \A q \in Routes : (Calls(q) \cup Sends(q)) \cap S # {} => q \in S

LEMMA RevertsLeast == Reverts = { r \in Routes : \A S \in SUBSET Routes : HoldsReverts(S) => r \in S }
  BY DEF Reverts, LeastClosed, HoldsReverts, OwnFailures

LEMMA FoundRevert ==
  ASSUME ClosureInv, NEW S \in SUBSET Routes, HoldsReverts(S)
  PROVE  canFail \subseteq S
<1>1. LocalFails \subseteq OwnFailures
  BY DEF LocalFails, LocalFail, OwnFailures, Has, Failing
<1>2. HoldsFailures(S)
  BY <1>1 DEF HoldsReverts, HoldsFailures, Calls
<1> QED
  BY <1>2 DEF ClosureInv, Surfaces

LEMMA FailsHereReverts ==
  ASSUME ClosureInv, NEW S \in SUBSET Routes, HoldsReverts(S), NEW q \in Routes, FailsHere(q)
  PROVE  q \in S
<1>1. canFail \subseteq S
  BY FoundRevert
<1>2. Has("extern", q) \/ Has("trap", q) => q \in OwnFailures
  BY DEF OwnFailures, Failing
<1> QED
  BY <1>1, <1>2 DEF FailsHere, HoldsReverts, CrossSends

LEMMA SurfacesDoRevert == ClosureInv => SurfacesRevert
<1> SUFFICES ASSUME ClosureInv, NEW r \in Routes, FailMode(r), NEW S \in SUBSET Routes, HoldsReverts(S), r \notin S
             PROVE  FALSE
  BY RevertsLeast DEF SurfacesRevert
<1> DEFINE T == Routes \ S
<1>1. T \in SUBSET Routes /\ r \in T
  OBVIOUS
<1>2. \A p \in T : Calls(p) \subseteq T
  BY Targets DEF HoldsReverts
<1>3. Called(r) \subseteq T
  BY <1>1, <1>2, CalledStay
<1>4. PICK q \in Called(r) : FailsHere(q)
  BY DEF FailMode
<1> QED
  BY <1>3, <1>4, FailsHereReverts

\* In a flat program the set of the routes with a fail mode holds all reverts.
LEMMA FlatAgrees == ClosureInv => FlatProgramsAgree
<1> SUFFICES ASSUME ClosureInv, ClosureDone, Flat, NEW r \in Routes, r \in Reverts
             PROVE  FailMode(r)
  BY SurfacesDoRevert DEF FlatProgramsAgree, SurfacesRevert
<1> DEFINE S == { q \in Routes : FailMode(q) }
<1>1. ASSUME NEW q \in OwnFailures PROVE q \in S
  <2>1. q \in Routes /\ q \in Called(q)
    BY CalledItself DEF OwnFailures
  <2>2. q \in LocalFails \/ Has("extern", q) \/ Has("trap", q)
    BY DEF OwnFailures, Failing, Has, LocalFails, LocalFail
  <2>3. FailsHere(q)
    BY <2>2 DEF FailsHere, ClosureInv, ClosureTypeOK
  <2> QED
    BY <2>1, <2>3 DEF FailMode
<1>2. ASSUME NEW q \in Routes, NEW t \in Calls(q), t \in S PROVE q \in S
  <2>1. PICK p \in Called(t) : FailsHere(p)
    BY <1>2 DEF FailMode
  <2>2. p \in Called(q)
    BY <2>1, CalledOn
  <2> QED
    BY <2>1, <2>2 DEF FailMode
<1>3. ASSUME NEW q \in Routes, NEW t \in Sends(q), t \in S PROVE q \in S
  <2>1. PICK p \in Called(t) : FailsHere(p)
    BY <1>3 DEF FailMode
  <2>2. Entity(t) # Entity(q) /\ Sends(p) = {} /\ ~Has("trap", p) /\ ~Has("extern", p)
    BY <2>1 DEF Flat
  <2>3. p \in canFail
    BY <2>1, <2>2 DEF FailsHere, CrossSends
  <2>4. t \in canFail
    BY <1>3, <2>1, <2>3, FoundThroughCalls
  <2>5. t \in CrossSends(q)
    BY <2>2 DEF CrossSends
  <2>6. FailsHere(q)
    BY <2>4, <2>5 DEF FailsHere
  <2> QED
    BY <2>6, CalledItself DEF FailMode
<1>4. S \in SUBSET Routes /\ HoldsReverts(S)
  BY <1>1, <1>2, <1>3 DEF HoldsReverts
<1> QED
  BY <1>4, RevertsLeast

\* Whoever calls a route with a fail mode has one.
LEMMA CallsDoCompile == ClosureInv => CallsCompile
<1> SUFFICES ASSUME ClosureInv, NEW r \in Routes, NEW t \in Calls(r)
             PROVE  Binding(r, t, TRUE) # "sentinel"
  BY DEF CallsCompile
<1>1. FailMode(t) => FailMode(r)
  BY CalledOn DEF FailMode
<1> QED
  BY <1>1 DEF Binding

\* The passes of fail_closure find exactly the routes from which calls lead to a
\* fail surface, in whatever order the HashMap hands them out; a route that the
\* Lean backend types Except reverts on EVM, and in a program whose messages go
\* straight to failing routes of other entities only such a route does; and no
\* call of a failing route is emitted that does not compile (route_fail_mode).
THEOREM FailModesAlwaysAgree == ClosureSpec => []FailModesAgree
<1>1. ClosureInv => FailModesAgree
  BY ClosureIsExact, SurfacesDoRevert, FlatAgrees, CallsDoCompile DEF FailModesAgree
<1> QED
  BY <1>1, ClosureInvariance, PTL

-----------------------------------------------------------------------------
(***************************************************************************)
(* The walk of dfs_topo, for any number of declarations and any            *)
(* references: it is well typed, emits nothing twice, and what a           *)
(* declaration refers to comes before it unless the two are on one cycle.  *)
(***************************************************************************)
WalkFrames == [item : Items, left : Seq(Items)]

-----------------------------------------------------------------------------
\* What reaches: itself, what it refers to, and on through another.
LEMMA WalksToItself == \A a \in Items : Reaches(a, a)
  BY DEF Reaches

LEMMA WalksToRef ==
  ASSUME NEW a \in Items, NEW b \in Items, b \in Refs(a)
  PROVE  Reaches(a, b)
  BY DEF Reaches, Closed

LEMMA WalksThrough ==
  ASSUME NEW a \in Items, NEW b \in Items, NEW c \in Items, Reaches(a, b), Reaches(b, c)
  PROVE  Reaches(a, c)
  BY DEF Reaches, Closed

LEMMA ElemsOfAppend ==
  ASSUME NEW S, NEW s \in Seq(S), NEW x \in S
  PROVE  Elems(Append(s, x)) = Elems(s) \cup {x}
<1>1. \A k \in 1..Len(s) : Append(s, x)[k] = s[k]
  OBVIOUS
<1>2. Append(s, x)[Len(s) + 1] = x /\ Len(Append(s, x)) = Len(s) + 1
  OBVIOUS
<1>3. 1..(Len(s) + 1) = (1..Len(s)) \cup {Len(s) + 1}
  OBVIOUS
<1> QED  BY <1>1, <1>2, <1>3 DEF Elems

LEMMA ElemsOfHeadTail ==
  ASSUME NEW S, NEW s \in Seq(S), s # << >>
  PROVE  /\ Head(s) \in S /\ Tail(s) \in Seq(S)
         /\ Elems(s) = Elems(Tail(s)) \cup {Head(s)}
<1>1. \A k \in 1..(Len(s) - 1) : Tail(s)[k] = s[k + 1]
  OBVIOUS
<1>2. Len(Tail(s)) = Len(s) - 1 /\ Head(s) = s[1] /\ Len(s) \in Nat \ {0}
  OBVIOUS
<1>3. Elems(s) \subseteq Elems(Tail(s)) \cup {Head(s)}
  <2> SUFFICES ASSUME NEW k \in 1..Len(s) PROVE s[k] \in Elems(Tail(s)) \cup {Head(s)}
    BY DEF Elems
  <2>1. CASE k = 1
    BY <2>1, <1>2
  <2>2. CASE k # 1
    <3>1. k - 1 \in 1..(Len(s) - 1) /\ Tail(s)[k - 1] = s[k]
      BY <2>2, <1>1, <1>2
    <3> QED  BY <3>1, <1>2 DEF Elems
  <2> QED  BY <2>1, <2>2
<1>4. Elems(Tail(s)) \cup {Head(s)} \subseteq Elems(s)
  <2>1. Head(s) \in Elems(s)
    BY <1>2 DEF Elems
  <2>2. \A k \in 1..Len(Tail(s)) : Tail(s)[k] \in Elems(s)
    BY <1>1, <1>2 DEF Elems
  <2> QED  BY <2>1, <2>2 DEF Elems
<1>5. Head(s) \in S /\ Tail(s) \in Seq(S)
  OBVIOUS
<1> QED  BY <1>3, <1>4, <1>5

-----------------------------------------------------------------------------
(***************************************************************************)
(* What each action does to the stack.                                     *)
(***************************************************************************)
LEMMA VisitTyped ==
  ASSUME TypeOK, stack # << >>
  PROVE  /\ Len(stack) \in Nat \ {0} /\ Top \in WalkFrames
         /\ Top.item \in Items /\ Top.left \in Seq(Items)
         /\ state[Top.item] = "on-stack"
<1>1. stack \in Seq(WalkFrames)
  BY DEF TypeOK, WalkFrames
<1>2. Len(stack) \in Nat \ {0} /\ Len(stack) \in 1..Len(stack)
  BY <1>1
<1>3. Top \in WalkFrames
  BY <1>1, <1>2 DEF Top
<1>4. Top.item \in Items /\ Top.left \in Seq(Items)
  BY <1>3 DEF WalkFrames
<1>5. state[Top.item] = "on-stack"
  BY <1>2, <1>4 DEF TypeOK, Top
<1> QED  BY <1>2, <1>3, <1>4, <1>5

LEMMA ItemsTyped ==
  ASSUME TypeOK, NEW k \in 1..Len(stack)
  PROVE  stack[k].item \in Items
<1>1. stack \in Seq(WalkFrames)
  BY DEF TypeOK, WalkFrames
<1>2. stack[k] \in WalkFrames
  BY <1>1
<1> QED  BY <1>2 DEF WalkFrames

\* The reference at the front is dropped: nothing else changes in the stack.
LEMMA Dropped ==
  ASSUME TypeOK, stack # << >>, Top.left # << >>
  PROVE  LET t == [stack EXCEPT ![Len(stack)] = Rest]
         IN  /\ t \in Seq(WalkFrames) /\ Len(t) = Len(stack)
             /\ \A k \in 1..Len(stack) : t[k].item = stack[k].item
             /\ \A k \in 1..Len(stack) : k # Len(stack) => t[k].left = stack[k].left
             /\ t[Len(stack)].left = Tail(Top.left)
             /\ Head(Top.left) \in Items
             /\ Elems(Top.left) = Elems(Tail(Top.left)) \cup {Head(Top.left)}
<1> DEFINE t == [stack EXCEPT ![Len(stack)] = Rest]
<1>1. Head(Top.left) \in Items /\ Tail(Top.left) \in Seq(Items)
      /\ Elems(Top.left) = Elems(Tail(Top.left)) \cup {Head(Top.left)}
  BY VisitTyped, ElemsOfHeadTail
<1>2. Rest \in WalkFrames /\ Rest.item = Top.item /\ Rest.left = Tail(Top.left)
  BY <1>1, VisitTyped DEF Rest, WalkFrames
<1>3. stack \in Seq(WalkFrames) /\ Len(stack) \in 1..Len(stack)
  BY VisitTyped DEF TypeOK, WalkFrames
<1>4. t \in Seq(WalkFrames) /\ Len(t) = Len(stack)
  BY <1>2, <1>3
<1>5. \A k \in 1..Len(stack) : t[k] = IF k = Len(stack) THEN Rest ELSE stack[k]
  BY <1>3
<1> QED  BY <1>1, <1>2, <1>3, <1>4, <1>5 DEF Top

\* A call of visit is added.
LEMMA Pushed ==
  ASSUME NEW s \in Seq(WalkFrames), NEW i \in Items, refs \in [Items -> Seq(Items)]
  PROVE  LET t == Append(s, [item |-> i, left |-> refs[i]])
         IN  /\ t \in Seq(WalkFrames) /\ Len(t) = Len(s) + 1
             /\ \A k \in 1..Len(s) : t[k] = s[k]
             /\ t[Len(s) + 1] = [item |-> i, left |-> refs[i]]
<1>1. [item |-> i, left |-> refs[i]] \in WalkFrames
  BY DEF WalkFrames
<1> QED  BY <1>1

\* A call of visit returns.
LEMMA Popped ==
  ASSUME TypeOK, stack # << >>
  PROVE  LET t == SubSeq(stack, 1, Len(stack) - 1)
         IN  /\ t \in Seq(WalkFrames) /\ Len(t) = Len(stack) - 1
             /\ \A k \in 1..(Len(stack) - 1) : t[k] = stack[k]
<1>1. stack \in Seq(WalkFrames) /\ Len(stack) \in Nat \ {0}
  BY VisitTyped DEF TypeOK, WalkFrames
<1> DEFINE n == Len(stack) - 1
<1>2. n \in Nat /\ \A k \in 1..n : stack[k] \in WalkFrames
  BY <1>1
<1> HIDE DEF n
<1>3. /\ SubSeq(stack, 1, n) \in Seq(WalkFrames)
      /\ Len(SubSeq(stack, 1, n)) = IF 1 <= n THEN n - 1 + 1 ELSE 0
      /\ \A k \in 1..(n - 1 + 1) : SubSeq(stack, 1, n)[k] = stack[1 + k - 1]
  BY <1>2, SubSeqProperties
<1>4. (IF 1 <= n THEN n - 1 + 1 ELSE 0) = n /\ n - 1 + 1 = n
  BY <1>2
<1>5. \A k \in 1..n : 1 + k - 1 = k
  BY <1>2
<1> QED  BY <1>3, <1>4, <1>5 DEF n

\* The part of TypeOK on who is on the stack.
Visiting(st, stk) ==
  /\ \A i \in Items : st[i] = "on-stack" <=> \E k \in 1..Len(stk) : stk[k].item = i
  /\ \A j, k \in 1..Len(stk) : stk[j].item = stk[k].item => j = k

LEMMA PushedOnStack ==
  ASSUME NEW st \in [Items -> {"unvisited", "on-stack", "done"}],
         NEW s \in Seq(WalkFrames), Visiting(st, s),
         NEW i \in Items, st[i] # "on-stack", refs \in [Items -> Seq(Items)]
  PROVE  Visiting([st EXCEPT ![i] = "on-stack"],
                 Append(s, [item |-> i, left |-> refs[i]]))
<1> DEFINE t == Append(s, [item |-> i, left |-> refs[i]])
<1> DEFINE st2 == [st EXCEPT ![i] = "on-stack"]
<1>0. /\ Len(t) = Len(s) + 1 /\ Len(s) \in Nat
      /\ \A k \in 1..Len(s) : t[k].item = s[k].item
      /\ t[Len(s) + 1].item = i
  BY Pushed
<1>1. /\ Len(s) \in Nat /\ 1..Len(t) = (1..Len(s)) \cup {Len(s) + 1}
      /\ \A k \in 1..Len(s) : t[k].item = s[k].item
      /\ t[Len(s) + 1].item = i
  BY <1>0
<1>2. \A k \in 1..Len(s) : s[k].item # i
  BY DEF Visiting
<1>3. \A x \in Items : st2[x] = "on-stack" <=> x = i \/ st[x] = "on-stack"
  OBVIOUS
<1> HIDE DEF t, st2
<1>4. \A x \in Items : st2[x] = "on-stack" <=> \E k \in 1..Len(t) : t[k].item = x
  <2> TAKE x \in Items
  <2>1. ASSUME st2[x] = "on-stack" PROVE \E k \in 1..Len(t) : t[k].item = x
    <3>1. CASE x = i
      BY <3>1, <1>1
    <3>2. CASE x # i
      <4>1. PICK k \in 1..Len(s) : s[k].item = x
        BY <2>1, <3>2, <1>3 DEF Visiting
      <4> QED  BY <4>1, <1>1
    <3> QED  BY <3>1, <3>2
  <2>2. ASSUME NEW k \in 1..Len(t), t[k].item = x PROVE st2[x] = "on-stack"
    <3>1. CASE k = Len(s) + 1
      BY <3>1, <2>2, <1>1, <1>3
    <3>2. CASE k \in 1..Len(s)
      BY <3>2, <2>2, <1>1, <1>3 DEF Visiting
    <3> QED  BY <3>1, <3>2, <1>1
  <2> QED  BY <2>1, <2>2
<1>5. \A j, k \in 1..Len(t) : t[j].item = t[k].item => j = k
  <2> TAKE j, k \in 1..Len(t)
  <2> HAVE t[j].item = t[k].item
  <2>1. CASE j \in 1..Len(s) /\ k \in 1..Len(s)
    BY <2>1, <1>1 DEF Visiting
  <2>2. CASE ~(j \in 1..Len(s) /\ k \in 1..Len(s))
    <3>1. \A m \in 1..Len(s) : t[m].item # t[Len(s) + 1].item
      BY <1>1, <1>2
    <3> QED  BY <2>2, <3>1, <1>1
  <2> QED  BY <2>1, <2>2
<1> QED  BY <1>4, <1>5 DEF Visiting, t, st2

-----------------------------------------------------------------------------
(***************************************************************************)
(* TypeOK and EmittedOnce are kept by every action.                        *)
(***************************************************************************)
LEMMA TypeParts ==
  TypeOK <=> /\ refs \in [Items -> Seq(Items)]
             /\ state \in [Items -> {"unvisited", "on-stack", "done"}]
             /\ stack \in Seq(WalkFrames)
             /\ ordered \in Seq(Items)
             /\ next \in 1..(N + 1)
             /\ Visiting(state, stack)
  BY DEF TypeOK, Visiting, WalkFrames

LEMMA TypePartsPrime ==
  TypeOK' <=> /\ refs' \in [Items -> Seq(Items)]
              /\ state' \in [Items -> {"unvisited", "on-stack", "done"}]
              /\ stack' \in Seq(WalkFrames)
              /\ ordered' \in Seq(Items)
              /\ next' \in 1..(N + 1)
              /\ Visiting(state', stack')
  BY DEF TypeOK, Visiting, WalkFrames

LEMMA InitTyped == Init => TypeOK /\ EmittedOnce
<1> SUFFICES ASSUME Init PROVE TypeOK /\ EmittedOnce
  OBVIOUS
<1>1. refs \in [Items -> Seq(Items)]
  BY ItemsAssumption DEF Init
<1>2. stack \in Seq(WalkFrames) /\ ordered \in Seq(Items) /\ next \in 1..(N + 1)
  BY ItemsAssumption DEF Init
<1>3. Len(stack) = 0 /\ Len(ordered) = 0
  BY DEF Init
<1>4. state \in [Items -> {"unvisited", "on-stack", "done"}]
      /\ \A i \in Items : state[i] = "unvisited"
  BY DEF Init
<1>5. Visiting(state, stack)
  BY <1>3, <1>4 DEF Visiting
<1>6. EmittedOnce
  BY <1>3, <1>4 DEF EmittedOnce, Elems
<1> QED  BY <1>1, <1>2, <1>4, <1>5, <1>6, TypeParts

\* A declaration opened in state st over the stack s.
LEMMA OpenTyped ==
  ASSUME TypeOK, NEW s \in Seq(WalkFrames), Visiting(state, s),
         NEW i \in Items, state[i] = "unvisited",
         state' = [state EXCEPT ![i] = "on-stack"],
         stack' = Append(s, [item |-> i, left |-> refs[i]]),
         UNCHANGED <<refs, ordered>>, next' \in 1..(N + 1)
  PROVE  TypeOK'
<1>1. refs \in [Items -> Seq(Items)] /\ state \in [Items -> {"unvisited", "on-stack", "done"}]
      /\ ordered \in Seq(Items)
  BY TypeParts
<1>2. stack' \in Seq(WalkFrames)
  BY <1>1, Pushed
<1>3. Visiting(state', stack')
  BY <1>1, PushedOnStack
<1>4. state' \in [Items -> {"unvisited", "on-stack", "done"}]
  BY <1>1
<1> QED  BY <1>1, <1>2, <1>3, <1>4, TypePartsPrime

LEMMA StartTyped == TypeOK /\ Start => TypeOK'
<1> SUFFICES ASSUME TypeOK, Start PROVE TypeOK'
  OBVIOUS
<1>1. next \in Items /\ next' = next + 1 /\ UNCHANGED <<refs, ordered>>
  BY DEF Start
<1>2. next' \in 1..(N + 1)
  BY <1>1, ItemsAssumption DEF Items
<1>3. CASE state[next] = "unvisited"
  BY <1>1, <1>2, <1>3, OpenTyped, TypeParts DEF Start, Open
<1>4. CASE state[next] # "unvisited"
  BY <1>1, <1>2, <1>4, TypeParts, TypePartsPrime DEF Start
<1> QED  BY <1>3, <1>4

LEMMA DroppedOnStack ==
  ASSUME TypeOK, stack # << >>, Top.left # << >>
  PROVE  LET t == [stack EXCEPT ![Len(stack)] = Rest]
         IN  t \in Seq(WalkFrames) /\ Visiting(state, t)
<1> DEFINE t == [stack EXCEPT ![Len(stack)] = Rest]
<1>1. /\ t \in Seq(WalkFrames) /\ Len(t) = Len(stack)
      /\ \A k \in 1..Len(stack) : t[k].item = stack[k].item
  BY Dropped
<1> HIDE DEF t
<1>2. Visiting(state, stack)
  BY TypeParts
<1>3. \A j, k \in 1..Len(t) : t[j].item = t[k].item => j = k
  BY <1>1, <1>2 DEF Visiting
<1>4. \A i \in Items : (\E k \in 1..Len(t) : t[k].item = i)
                       <=> \E k \in 1..Len(stack) : stack[k].item = i
  BY <1>1
<1>5. Visiting(state, t)
  BY <1>2, <1>3, <1>4 DEF Visiting
<1> QED  BY <1>1, <1>5 DEF t

LEMMA DescendTyped == TypeOK /\ Descend => TypeOK'
<1> SUFFICES ASSUME TypeOK, Descend PROVE TypeOK'
  OBVIOUS
<1> DEFINE t == [stack EXCEPT ![Len(stack)] = Rest]
<1> DEFINE i == Head(Top.left)
<1>1. t \in Seq(WalkFrames) /\ Visiting(state, t)
  BY DroppedOnStack DEF Descend
<1>2. i \in Items /\ state[i] = "unvisited"
  BY Dropped DEF Descend
<1>3. /\ state' = [state EXCEPT ![i] = "on-stack"]
      /\ stack' = Append(t, [item |-> i, left |-> refs[i]])
      /\ UNCHANGED <<refs, ordered>> /\ next' \in 1..(N + 1)
  BY TypeParts DEF Descend
<1> HIDE DEF t, i
<1> QED  BY <1>1, <1>2, <1>3, OpenTyped

LEMMA SkipTyped == TypeOK /\ Skip => TypeOK'
<1> SUFFICES ASSUME TypeOK, Skip PROVE TypeOK'
  OBVIOUS
<1>1. stack' \in Seq(WalkFrames) /\ Visiting(state, stack')
  BY DroppedOnStack DEF Skip
<1> QED  BY <1>1, TypeParts, TypePartsPrime DEF Skip

LEMMA EmitTyped == TypeOK /\ Emit => TypeOK'
<1> SUFFICES ASSUME TypeOK, Emit PROVE TypeOK'
  OBVIOUS
<1> DEFINE n == Len(stack)
<1> DEFINE i == Top.item
<1>1. /\ stack' \in Seq(WalkFrames) /\ Len(stack') = n - 1
      /\ \A k \in 1..(n - 1) : stack'[k] = stack[k]
      /\ n \in Nat \ {0} /\ i = stack[n].item /\ i \in Items
  BY Popped, VisitTyped DEF Emit, Top
<1>2. /\ refs \in [Items -> Seq(Items)] /\ ordered \in Seq(Items) /\ next \in 1..(N + 1)
      /\ state \in [Items -> {"unvisited", "on-stack", "done"}] /\ Visiting(state, stack)
  BY TypeParts
<1>3. /\ state' = [state EXCEPT ![i] = "done"] /\ ordered' = Append(ordered, i)
      /\ UNCHANGED <<refs, next>>
  BY DEF Emit
<1>4. ordered' \in Seq(Items) /\ state' \in [Items -> {"unvisited", "on-stack", "done"}]
  BY <1>1, <1>2, <1>3
<1>5. 1..Len(stack) = (1..Len(stack')) \cup {n} /\ n \notin 1..Len(stack')
  BY <1>1
<1>6. \A k \in 1..Len(stack') : stack'[k] = stack[k] /\ stack[k].item # i
  BY <1>1, <1>2, <1>5 DEF Visiting
<1> HIDE DEF n, i
<1>7. Visiting(state', stack')
  <2>1. ASSUME NEW x \in Items
        PROVE  state'[x] = "on-stack" <=> \E k \in 1..Len(stack') : stack'[k].item = x
    <3>1. CASE x = i
      BY <3>1, <1>2, <1>3, <1>6
    <3>2. CASE x # i
      <4>1. state'[x] = state[x]
        BY <3>2, <1>2, <1>3
      <4>2. (\E k \in 1..Len(stack) : stack[k].item = x)
            <=> \E k \in 1..Len(stack') : stack'[k].item = x
        BY <3>2, <1>1, <1>5, <1>6
      <4> QED  BY <4>1, <4>2, <1>2 DEF Visiting
    <3> QED  BY <3>1, <3>2
  <2>2. \A j, k \in 1..Len(stack') : stack'[j].item = stack'[k].item => j = k
    BY <1>2, <1>5, <1>6 DEF Visiting
  <2> QED  BY <2>1, <2>2 DEF Visiting
<1> QED  BY <1>1, <1>2, <1>3, <1>4, <1>7, TypePartsPrime

LEMMA EmittedKept ==
  ASSUME TypeOK, EmittedOnce, [Next]_vars
  PROVE  EmittedOnce'
<1>1. state \in [Items -> {"unvisited", "on-stack", "done"}] /\ ordered \in Seq(Items)
  BY TypeParts
<1>2. ASSUME UNCHANGED ordered, NEW i \in Items, state[i] # "done",
             state' = [state EXCEPT ![i] = "on-stack"]
      PROVE  EmittedOnce'
  BY <1>1, <1>2 DEF EmittedOnce, Elems
<1>3. ASSUME UNCHANGED <<ordered, state>> PROVE EmittedOnce'
  BY <1>3 DEF EmittedOnce, Elems
<1>4. CASE Start
  <2>1. CASE state[next] = "unvisited"
    BY <1>2, <1>4, <2>1 DEF Start, Open
  <2>2. CASE state[next] # "unvisited"
    BY <1>3, <1>4, <2>2 DEF Start
  <2> QED  BY <2>1, <2>2
<1>5. CASE Descend
  <2>1. Head(Top.left) \in Items
    BY <1>5, Dropped DEF Descend
  <2> QED  BY <1>2, <1>5, <2>1 DEF Descend
<1>6. CASE Skip
  BY <1>3, <1>6 DEF Skip
<1>7. CASE Emit
  <2> DEFINE i == Top.item
  <2>1. i \in Items /\ state[i] # "done"
    BY <1>7, VisitTyped DEF Emit
  <2>2. state' = [state EXCEPT ![i] = "done"] /\ ordered' = Append(ordered, i)
    BY <1>7 DEF Emit
  <2> HIDE DEF i
  <2>3. Elems(ordered') = Elems(ordered) \cup {i}
    BY <1>1, <2>1, <2>2, ElemsOfAppend
  <2>4. \A x \in Items : state'[x] = "done" <=> x = i \/ state[x] = "done"
    BY <1>1, <2>1, <2>2
  <2>5. i \notin Elems(ordered)
    BY <2>1 DEF EmittedOnce
  <2>6. /\ Len(ordered') = Len(ordered) + 1 /\ Len(ordered) \in Nat
        /\ \A k \in 1..Len(ordered) : ordered'[k] = ordered[k]
        /\ ordered'[Len(ordered) + 1] = i
    BY <1>1, <2>1, <2>2
  <2>7. 1..Len(ordered') = (1..Len(ordered)) \cup {Len(ordered) + 1}
    BY <2>6
  <2>8. \A k \in 1..Len(ordered) : ordered[k] # i
    BY <2>5 DEF Elems
  <2>9. ASSUME NEW j \in 1..Len(ordered'), NEW k \in 1..Len(ordered'), ordered'[j] = ordered'[k]
        PROVE  j = k
    <3>1. CASE j \in 1..Len(ordered) /\ k \in 1..Len(ordered)
      BY <3>1, <2>9, <2>6 DEF EmittedOnce
    <3>2. CASE ~(j \in 1..Len(ordered) /\ k \in 1..Len(ordered))
      <4>1. \A m \in 1..Len(ordered) : ordered'[m] # ordered'[Len(ordered) + 1]
        BY <2>6, <2>8
      <4> QED  BY <3>2, <4>1, <2>7, <2>9
    <3> QED  BY <3>1, <3>2
  <2>10. \A x \in Items : state'[x] = "done" <=> x \in Elems(ordered')
    BY <2>3, <2>4 DEF EmittedOnce
  <2> QED  BY <2>9, <2>10 DEF EmittedOnce, Elems
<1>8. CASE UNCHANGED vars
  BY <1>3, <1>8 DEF vars
<1> QED  BY <1>4, <1>5, <1>6, <1>7, <1>8 DEF Next

LEMMA TypedKept ==
  ASSUME TypeOK, [Next]_vars
  PROVE  TypeOK'
<1>1. CASE UNCHANGED vars
  BY <1>1, TypeParts, TypePartsPrime DEF vars
<1> QED  BY <1>1, StartTyped, DescendTyped, SkipTyped, EmitTyped DEF Next

\* order_type_items takes each item out of its slot once: the walk never
\* emits one a second time, whatever refers to what.
THEOREM EmitsOnce == Spec => [](TypeOK /\ EmittedOnce)
<1>1. Init => TypeOK /\ EmittedOnce
  BY InitTyped
<1>2. TypeOK /\ EmittedOnce /\ [Next]_vars => (TypeOK /\ EmittedOnce)'
  BY TypedKept, EmittedKept
<1> QED  BY <1>1, <1>2, PTL DEF Spec

-----------------------------------------------------------------------------
(***************************************************************************)
(* DepsFirst.  The calls on the stack reach each other from the outside    *)
(* in, so a reference back into the stack closes a cycle; any other        *)
(* reference of a declaration on the stack is still to be looked at, is    *)
(* being visited, or is emitted.                                           *)
(***************************************************************************)
Looked(stk, ord, k, d) ==
  \/ d \in Elems(stk[k].left)
  \/ OnOneCycle(stk[k].item, d)
  \/ d \in Elems(ord)
  \/ k + 1 \in 1..Len(stk) /\ stk[k + 1].item = d

Chained(stk) == \A j, k \in 1..Len(stk) : j <= k => Reaches(stk[j].item, stk[k].item)

Ahead(stk, ord) ==
  \A k \in 1..Len(stk) :
    /\ Elems(stk[k].left) \subseteq Refs(stk[k].item)
    /\ \A d \in Refs(stk[k].item) : Looked(stk, ord, k, d)

Behind(ord) ==
  \A k \in 1..Len(ord) : \A d \in Refs(ord[k]) :
    OnOneCycle(ord[k], d) \/ \E j \in 1..(k - 1) : ord[j] = d

Walk(stk, ord) == Chained(stk) /\ Ahead(stk, ord) /\ Behind(ord)

WInv == Walk(stack, ordered)

LEMMA WalkPrime == UNCHANGED refs => (WInv' <=> Walk(stack', ordered'))
  BY DEF WInv, Walk, Chained, Ahead, Behind, Looked, OnOneCycle, Reaches, Closed, Refs

LEMMA ReferencesTyped ==
  ASSUME TypeOK, NEW i \in Items
  PROVE  Refs(i) \subseteq Items
  BY TypeParts DEF Refs, Elems

LEMMA WalkInit == Init => WInv
<1> SUFFICES ASSUME Init PROVE WInv
  OBVIOUS
<1>1. Len(stack) = 0 /\ Len(ordered) = 0
  BY DEF Init
<1> QED  BY <1>1 DEF WInv, Walk, Chained, Ahead, Behind

LEMMA WalkStart ==
  ASSUME TypeOK, WInv, Start
  PROVE  Walk(stack', ordered')
<1>1. CASE state[next] = "unvisited"
  <2>1. next \in Items /\ refs \in [Items -> Seq(Items)] /\ UNCHANGED ordered
        /\ stack' = Append(<< >>, [item |-> next, left |-> refs[next]])
    BY <1>1, TypeParts DEF Start, Open
  <2>2. Len(stack') = 1 /\ stack'[1].item = next /\ stack'[1].left = refs[next]
    BY <2>1
  <2>3. \A k \in 1..Len(stack') : k = 1
    BY <2>2
  <2>4. Chained(stack')
    BY <2>1, <2>2, <2>3, WalksToItself DEF Chained
  <2>5. Ahead(stack', ordered')
    BY <2>1, <2>2, <2>3 DEF Ahead, Looked, Refs
  <2>6. Behind(ordered')
    BY <2>1 DEF WInv, Walk
  <2> QED  BY <2>4, <2>5, <2>6 DEF Walk
<1>2. CASE state[next] # "unvisited"
  BY <1>2 DEF Start, WInv, Walk
<1> QED  BY <1>1, <1>2

\* After the reference at the front is dropped all is as before but for that
\* reference, of which the action has to take care.
LEMMA WalkDropped ==
  ASSUME TypeOK, WInv, stack # << >>, Top.left # << >>,
         NEW t, t = [stack EXCEPT ![Len(stack)] = Rest],
         NEW k \in 1..Len(stack)
  PROVE  /\ t[k].item = stack[k].item
         /\ Elems(t[k].left) \subseteq Refs(t[k].item)
         /\ \A d \in Refs(t[k].item) :
              \/ k = Len(stack) /\ d = Head(Top.left)
              \/ d \in Elems(t[k].left)
              \/ OnOneCycle(t[k].item, d)
              \/ d \in Elems(ordered)
              \/ k + 1 \in 1..Len(stack) /\ t[k + 1].item = d
<1>1. Len(stack) \in Nat \ {0} /\ Top = stack[Len(stack)]
  BY VisitTyped DEF Top
<1>2. /\ Len(t) = Len(stack)
      /\ \A m \in 1..Len(stack) : t[m].item = stack[m].item
      /\ \A m \in 1..Len(stack) : m # Len(stack) => t[m].left = stack[m].left
      /\ t[Len(stack)].left = Tail(Top.left)
      /\ Elems(Top.left) = Elems(Tail(Top.left)) \cup {Head(Top.left)}
  BY Dropped
<1>3. /\ Elems(stack[k].left) \subseteq Refs(stack[k].item)
      /\ \A d \in Refs(stack[k].item) : Looked(stack, ordered, k, d)
  BY DEF WInv, Walk, Ahead
<1>4. /\ Elems(t[k].left) \subseteq Elems(stack[k].left)
      /\ Elems(stack[k].left) \subseteq Elems(t[k].left)
                                        \cup {d \in {Head(Top.left)} : k = Len(stack)}
  BY <1>1, <1>2
<1>5. t[k].item = stack[k].item
  BY <1>2
<1>6. ASSUME NEW d \in Refs(stack[k].item)
      PROVE  \/ k = Len(stack) /\ d = Head(Top.left)
             \/ d \in Elems(t[k].left)
             \/ OnOneCycle(t[k].item, d)
             \/ d \in Elems(ordered)
             \/ k + 1 \in 1..Len(stack) /\ t[k + 1].item = d
  <2>1. k + 1 \in 1..Len(stack) => t[k + 1].item = stack[k + 1].item
    BY <1>2
  <2> QED  BY <2>1, <1>3, <1>4, <1>5 DEF Looked
<1> QED  BY <1>3, <1>4, <1>5, <1>6

LEMMA WalkDescend ==
  ASSUME TypeOK, WInv, Descend
  PROVE  Walk(stack', ordered')
<1> DEFINE n == Len(stack)
<1> DEFINE i == Head(Top.left)
<1> DEFINE t == [stack EXCEPT ![Len(stack)] = Rest]
<1>1. /\ n \in Nat \ {0} /\ i \in Items /\ Len(t) = n /\ t \in Seq(WalkFrames)
      /\ \A k \in 1..n : t[k].item = stack[k].item /\ stack[k].item \in Items
      /\ Elems(Top.left) = Elems(Tail(Top.left)) \cup {i} /\ Top = stack[n]
  <2>1. \A k \in 1..n : stack[k].item \in Items
    BY ItemsTyped
  <2> QED  BY <2>1, Dropped, VisitTyped DEF Descend, Top
<1>2. refs \in [Items -> Seq(Items)] /\ UNCHANGED ordered
      /\ stack' = Append(t, [item |-> i, left |-> refs[i]])
  BY TypeParts DEF Descend
<1>3. /\ Len(stack') = n + 1
      /\ \A k \in 1..n : stack'[k] = t[k]
      /\ stack'[n + 1].item = i /\ stack'[n + 1].left = refs[i]
  <2> HIDE DEF n, i, t
  <2>1. /\ Len(stack') = Len(t) + 1
        /\ \A k \in 1..Len(t) : stack'[k] = t[k]
        /\ stack'[Len(t) + 1] = [item |-> i, left |-> refs[i]]
    BY <1>1, <1>2, Pushed
  <2> QED  BY <2>1, <1>1
<1>4. \A k \in 1..n :
        /\ t[k].item = stack[k].item
        /\ Elems(t[k].left) \subseteq Refs(t[k].item)
        /\ \A d \in Refs(t[k].item) :
             \/ k = n /\ d = i
             \/ d \in Elems(t[k].left)
             \/ OnOneCycle(t[k].item, d)
             \/ d \in Elems(ordered)
             \/ k + 1 \in 1..n /\ t[k + 1].item = d
  BY WalkDropped DEF Descend
<1>5. i \in Refs(stack[n].item)
  <2>1. Elems(stack[n].left) \subseteq Refs(stack[n].item)
    <3> HIDE DEF i, t
    <3>1. Len(stack) \in 1..Len(stack)
      BY <1>1
    <3> QED  BY <3>1 DEF WInv, Walk, Ahead
  <2> QED  BY <2>1, <1>1
<1> HIDE DEF n, i, t
<1>6. 1..Len(stack') = (1..n) \cup {n + 1} /\ n \in 1..n /\ n + 1 \notin 1..n
  BY <1>1, <1>3
<1>7. Chained(stack')
  <2> SUFFICES ASSUME NEW j \in 1..Len(stack'), NEW k \in 1..Len(stack'), j <= k
               PROVE  Reaches(stack'[j].item, stack'[k].item)
    BY DEF Chained
  <2>1. CASE k \in 1..n
    <3>1. j \in 1..n /\ n = Len(stack)
      BY <2>1, <1>6, <1>1 DEF n
    <3> QED  BY <2>1, <3>1, <1>3, <1>4 DEF WInv, Walk, Chained
  <2>2. CASE k = n + 1 /\ j = n + 1
    BY <2>2, <1>1, <1>3, WalksToItself
  <2>3. CASE k = n + 1 /\ j \in 1..n
    <3>1. Reaches(stack[j].item, stack[n].item)
      <4>1. n = Len(stack) /\ j <= n
        BY <2>3, <1>1 DEF n
      <4> QED  BY <4>1, <2>3, <1>6 DEF WInv, Walk, Chained
    <3>2. Reaches(stack[n].item, i)
      BY <1>1, <1>5, <1>6, WalksToRef
    <3>3. stack'[j].item = stack[j].item /\ stack'[k].item = i
      BY <2>3, <1>3, <1>4
    <3> QED  BY <3>1, <3>2, <3>3, <2>3, <1>1, <1>6, WalksThrough
  <2> QED  BY <2>1, <2>2, <2>3, <1>6
<1>8. Ahead(stack', ordered')
  <2> SUFFICES ASSUME NEW k \in 1..Len(stack')
               PROVE  /\ Elems(stack'[k].left) \subseteq Refs(stack'[k].item)
                      /\ \A d \in Refs(stack'[k].item) : Looked(stack', ordered', k, d)
    BY DEF Ahead
  <2>1. CASE k = n + 1
    BY <2>1, <1>3 DEF Looked, Refs
  <2>2. CASE k \in 1..n
    <3>1. stack'[k] = t[k] /\ (k + 1 \in 1..n => stack'[k + 1] = t[k + 1])
      BY <2>2, <1>3
    <3>2. (k = n \/ k + 1 \in 1..n) => k + 1 \in 1..Len(stack')
      BY <1>6
    <3>3. k = n => stack'[k + 1].item = i
      BY <1>3
    <3> QED  BY <2>2, <3>1, <3>2, <3>3, <1>2, <1>4 DEF Looked
  <2> QED  BY <2>1, <2>2, <1>6
<1> QED  BY <1>2, <1>7, <1>8 DEF WInv, Walk

LEMMA WalkSkip ==
  ASSUME TypeOK, EmittedOnce, WInv, Skip
  PROVE  Walk(stack', ordered')
<1> DEFINE n == Len(stack)
<1> DEFINE d0 == Head(Top.left)
<1>1. /\ n \in Nat \ {0} /\ d0 \in Items /\ Len(stack') = n /\ Top = stack[n]
      /\ \A k \in 1..n : stack'[k].item = stack[k].item
      /\ d0 \in Elems(Top.left) /\ Top.item \in Items
  BY Dropped, VisitTyped DEF Skip, Top
<1>2. \A k \in 1..n :
        /\ Elems(stack'[k].left) \subseteq Refs(stack'[k].item)
        /\ \A d \in Refs(stack'[k].item) :
             \/ k = n /\ d = d0
             \/ d \in Elems(stack'[k].left)
             \/ OnOneCycle(stack'[k].item, d)
             \/ d \in Elems(ordered)
             \/ k + 1 \in 1..n /\ stack'[k + 1].item = d
  BY WalkDropped DEF Skip
<1>3. state[d0] # "unvisited" /\ UNCHANGED ordered
  BY DEF Skip
<1>4. d0 \in Refs(Top.item)
  <2>1. Elems(stack[n].left) \subseteq Refs(stack[n].item)
    BY <1>1 DEF WInv, Walk, Ahead
  <2> QED  BY <2>1, <1>1
<1>5. d0 \in Elems(ordered) \/ OnOneCycle(Top.item, d0)
  <2>1. CASE state[d0] = "done"
    BY <2>1, <1>1 DEF EmittedOnce
  <2>2. CASE state[d0] = "on-stack"
    <3>1. PICK j \in 1..n : stack[j].item = d0
      BY <2>2, <1>1, TypeParts DEF Visiting
    <3>2. n \in 1..Len(stack) /\ j \in 1..Len(stack) /\ j <= n
      BY <1>1, <3>1
    <3>3. Reaches(d0, Top.item)
      BY <3>1, <3>2, <1>1 DEF WInv, Walk, Chained
    <3>4. Reaches(Top.item, d0)
      BY <1>1, <1>4, WalksToRef
    <3> QED  BY <3>3, <3>4 DEF OnOneCycle
  <2>3. state[d0] \in {"unvisited", "on-stack", "done"}
    BY <1>1, TypeParts
  <2> QED  BY <2>1, <2>2, <2>3, <1>3
<1> HIDE DEF n, d0
<1>6. Chained(stack')
  <2>1. Chained(stack)
    BY DEF WInv, Walk
  <2>2. n = Len(stack)
    BY DEF n
  <2> QED  BY <2>1, <2>2, <1>1 DEF Chained
<1>7. n \in 1..n /\ stack'[n].item = Top.item
  BY <1>1
<1>8. Ahead(stack', ordered')
  <2> SUFFICES ASSUME NEW k \in 1..n
               PROVE  /\ Elems(stack'[k].left) \subseteq Refs(stack'[k].item)
                      /\ \A d \in Refs(stack'[k].item) : Looked(stack', ordered', k, d)
    BY <1>1 DEF Ahead
  <2>1. ASSUME NEW d \in Refs(stack'[k].item)
        PROVE  Looked(stack', ordered', k, d)
    <3>1. CASE k = n /\ d = d0
      BY <3>1, <1>3, <1>5, <1>7 DEF Looked
    <3>2. CASE ~(k = n /\ d = d0)
      BY <3>2, <2>1, <1>1, <1>2, <1>3 DEF Looked
    <3> QED  BY <3>1, <3>2
  <2> QED  BY <2>1, <1>2
<1> QED  BY <1>3, <1>6, <1>8 DEF WInv, Walk

LEMMA WalkEmit ==
  ASSUME TypeOK, WInv, Emit
  PROVE  Walk(stack', ordered')
<1> DEFINE n == Len(stack)
<1> DEFINE i == Top.item
<1>1. /\ n \in Nat \ {0} /\ i \in Items /\ Len(stack') = n - 1
      /\ \A k \in 1..(n - 1) : stack'[k] = stack[k]
      /\ i = stack[n].item /\ stack[n].left = << >>
  BY Popped, VisitTyped DEF Emit, Top
<1>2. ordered \in Seq(Items) /\ ordered' = Append(ordered, i)
  BY TypeParts DEF Emit
<1>3. Elems(ordered') = Elems(ordered) \cup {i}
  BY <1>1, <1>2, ElemsOfAppend
<1>4. Chained(stack) /\ Ahead(stack, ordered) /\ Behind(ordered)
  BY DEF WInv, Walk
<1>5. 1..n = (1..Len(stack')) \cup {n} /\ n = Len(stack) /\ n \in 1..n
  BY <1>1
<1>6. Elems(stack[n].left) = {}
  BY <1>1 DEF Elems
<1> HIDE DEF n, i
<1>7. Chained(stack')
  BY <1>1, <1>4, <1>5 DEF Chained
<1>8. Ahead(stack', ordered')
  <2> SUFFICES ASSUME NEW k \in 1..Len(stack')
               PROVE  /\ Elems(stack'[k].left) \subseteq Refs(stack'[k].item)
                      /\ \A d \in Refs(stack'[k].item) : Looked(stack', ordered', k, d)
    BY DEF Ahead
  <2>1. stack'[k] = stack[k] /\ k \in 1..Len(stack)
    BY <1>1, <1>5
  <2>2. Elems(stack[k].left) \subseteq Refs(stack[k].item)
        /\ \A d \in Refs(stack[k].item) : Looked(stack, ordered, k, d)
    BY <2>1, <1>4 DEF Ahead
  <2>3. ASSUME NEW d \in Refs(stack[k].item)
        PROVE  Looked(stack', ordered', k, d)
    <3>1. CASE k + 1 \in 1..Len(stack) /\ stack[k + 1].item = d
      <4>1. CASE k + 1 = n
        BY <3>1, <4>1, <1>1, <1>3 DEF Looked
      <4>2. CASE k + 1 # n
        <5>1. k + 1 \in 1..Len(stack') /\ stack'[k + 1] = stack[k + 1]
          BY <3>1, <4>2, <1>1, <1>5
        <5> QED  BY <3>1, <5>1 DEF Looked
      <4> QED  BY <4>1, <4>2
    <3>2. CASE ~(k + 1 \in 1..Len(stack) /\ stack[k + 1].item = d)
      BY <3>2, <2>1, <2>2, <1>3 DEF Looked
    <3> QED  BY <3>1, <3>2
  <2> QED  BY <2>1, <2>2, <2>3
<1>9. Behind(ordered')
  <2>1. /\ 1..Len(ordered') = (1..Len(ordered)) \cup {Len(ordered) + 1}
        /\ Len(ordered) \in Nat
        /\ \A k \in 1..Len(ordered) : ordered'[k] = ordered[k]
        /\ ordered'[Len(ordered) + 1] = i
    <3>1. Len(ordered') = Len(ordered) + 1 /\ Len(ordered) \in Nat
      BY <1>1, <1>2
    <3>2. (\A k \in 1..Len(ordered) : ordered'[k] = ordered[k]) /\ ordered'[Len(ordered) + 1] = i
      BY <1>1, <1>2
    <3> QED  BY <3>1, <3>2
  <2> SUFFICES ASSUME NEW k \in 1..Len(ordered'), NEW d \in Refs(ordered'[k])
               PROVE  OnOneCycle(ordered'[k], d) \/ \E j \in 1..(k - 1) : ordered'[j] = d
    BY DEF Behind
  <2>2. CASE k \in 1..Len(ordered)
    <3>1. OnOneCycle(ordered[k], d) \/ \E j \in 1..(k - 1) : ordered[j] = d
      BY <2>2, <2>1, <1>4 DEF Behind
    <3>2. 1..(k - 1) \subseteq 1..Len(ordered)
      BY <2>2, <2>1
    <3> QED  BY <2>1, <2>2, <3>1, <3>2
  <2>3. CASE k = Len(ordered) + 1
    <3>1. Looked(stack, ordered, n, d)
      BY <2>1, <2>3, <1>1, <1>4, <1>5 DEF Ahead
    <3>2. n + 1 \notin 1..Len(stack)
      BY <1>1, <1>5
    <3>3. OnOneCycle(i, d) \/ d \in Elems(ordered)
      BY <3>1, <3>2, <1>1, <1>6 DEF Looked
    <3>4. 1..(k - 1) = 1..Len(ordered)
      BY <2>1, <2>3
    <3>5. d \in Elems(ordered) => \E j \in 1..(k - 1) : ordered'[j] = d
      BY <2>1, <3>4 DEF Elems
    <3> QED  BY <2>1, <2>3, <3>3, <3>5
  <2> QED  BY <2>1, <2>2, <2>3
<1> QED  BY <1>7, <1>8, <1>9 DEF Walk

LEMMA WalkKept ==
  ASSUME TypeOK, EmittedOnce, WInv, [Next]_vars
  PROVE  WInv'
<1>1. CASE UNCHANGED vars
  BY <1>1, WalkPrime DEF vars, WInv
<1>2. UNCHANGED refs
  BY DEF Next, Start, Descend, Skip, Emit, vars
<1> QED  BY <1>1, <1>2, WalkPrime, WalkStart, WalkDescend, WalkSkip, WalkEmit DEF Next

\* Lean has no forward references: where a declaration refers to another, the
\* other is emitted first unless the two lie on one cycle, whatever the number
\* of declarations and the order in which their references are found.
THEOREM NoForwardReference == Spec => []DepsFirst
<1>1. Init => TypeOK /\ EmittedOnce /\ WInv
  BY InitTyped, WalkInit
<1>2. TypeOK /\ EmittedOnce /\ WInv /\ [Next]_vars => (TypeOK /\ EmittedOnce /\ WInv)'
  BY TypedKept, EmittedKept, WalkKept
<1>3. WInv => DepsFirst
  BY DEF WInv, Walk, Behind, DepsFirst
<1> QED  BY <1>1, <1>2, <1>3, PTL DEF Spec
=============================================================================
