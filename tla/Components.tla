----------------------------- MODULE Components -----------------------------
(***************************************************************************)
(* Strongly connected components by Tarjan's algorithm (graph.rs,          *)
(* tarjan_sccs), as used for the routes of an entity, for the entities of  *)
(* a program and for cyclic aliases and records (V52).                     *)
(***************************************************************************)
EXTENDS Naturals, Sequences, FiniteSets

CONSTANTS Size,     \* nodes, numbered in the order of `names`
          Graphs,   \* the edge lists considered: one for each node
          Options   \* reverse_condensation and sort_sccs_by_source_order

Names == 1..Size

ASSUME NamesAssumption ==
  /\ Size \in Nat
  /\ Graphs \subseteq [Names -> Seq(Names)]
  /\ Options \subseteq [reverse : BOOLEAN, sort : BOOLEAN]

VARIABLES
  deps,     \* the edges of each node, in the order of the walk
  opts,     \* the options of the call
  calls,    \* strongconnect calls in progress, innermost last
  index,    \* discovery number of each node; 0 while it has none
  lowlink,  \* least number known to be reachable, likewise
  pending,  \* nodes whose component is open, in discovery order
  sccs,     \* components so far
  turn      \* the node of `names` whose turn it is

searchVars == <<deps, opts, calls, index, lowlink, pending, sccs, turn>>

Current == calls[Len(calls)]
NodesOf(s) == { s[k] : k \in 1..Len(s) }
OnStack == NodesOf(pending)
Least(a, b) == IF a < b THEN a ELSE b
Discovered == { v \in Names : index[v] > 0 }

-----------------------------------------------------------------------------
SearchInit ==
  /\ deps \in Graphs
  /\ opts \in Options
  /\ calls = << >>
  /\ index = [v \in Names |-> 0]
  /\ lowlink = [v \in Names |-> 0]
  /\ pending = << >>
  /\ sccs = << >>
  /\ turn = 1

\* strongconnect(v) up to its loop; from is the calls it goes on top of.
Discover(v, from) ==
  /\ index' = [index EXCEPT ![v] = Cardinality(Discovered) + 1]
  /\ lowlink' = [lowlink EXCEPT ![v] = Cardinality(Discovered) + 1]
  /\ pending' = Append(pending, v)
  /\ calls' = Append(from, [node |-> v, left |-> deps[v]])
  /\ UNCHANGED <<deps, opts, sccs>>

StartAt ==
  /\ calls = << >> /\ turn \in Names
  /\ turn' = turn + 1
  /\ IF index[turn] = 0 THEN Discover(turn, calls)
                        ELSE UNCHANGED <<deps, opts, calls, index, lowlink, pending, sccs>>

\* The call of strongconnect for an undiscovered callee, which stays at the
\* head of the list until the call returns.
Visit ==
  /\ calls # << >> /\ Current.left # << >>
  /\ index[Head(Current.left)] = 0
  /\ Discover(Head(Current.left), calls)
  /\ UNCHANGED turn

\* Mutant: an edge into a finished component is followed like an open one.
LookClosed ==
  /\ calls # << >> /\ Current.left # << >>
  /\ LET w == Head(Current.left)
     IN  /\ index[w] > 0
         /\ lowlink' = [lowlink EXCEPT ![Current.node] = Least(@, index[w])]
  /\ calls' = [calls EXCEPT ![Len(calls)].left = Tail(@)]
  /\ UNCHANGED <<deps, opts, index, pending, sccs, turn>>

\* A callee discovered before: it counts while its component is open.
Look ==
  /\ calls # << >> /\ Current.left # << >>
  /\ LET w == Head(Current.left)
     IN  /\ index[w] > 0
         /\ lowlink' = IF w \in OnStack
                       THEN [lowlink EXCEPT ![Current.node] = Least(@, index[w])]
                       ELSE lowlink
  /\ calls' = [calls EXCEPT ![Len(calls)].left = Tail(@)]
  /\ UNCHANGED <<deps, opts, index, pending, sccs, turn>>

\* What is on the stack from v on, in the order it is popped.
PoppedTo(v) ==
  LET at == CHOOSE k \in 1..Len(pending) : pending[k] = v
  IN  [k \in 1..(Len(pending) - at + 1) |-> pending[Len(pending) - k + 1]]

\* The root of a component pops it.
Close ==
  IF lowlink[Current.node] = index[Current.node]
  THEN LET comp == PoppedTo(Current.node)
       IN  /\ sccs' = Append(sccs, comp)
           /\ pending' = SubSeq(pending, 1, Len(pending) - Len(comp))
  ELSE UNCHANGED <<sccs, pending>>

\* strongconnect behind its loop, and what its caller does with the result.
Finish ==
  /\ calls # << >> /\ Current.left = << >>
  /\ Close
  /\ LET k == Len(calls) - 1
     IN  IF k = 0
         THEN calls' = << >> /\ UNCHANGED lowlink
         ELSE /\ calls' = [SubSeq(calls, 1, k) EXCEPT ![k].left = Tail(@)]
              /\ lowlink' = [lowlink EXCEPT ![calls[k].node] = Least(@, lowlink[Current.node])]
  /\ UNCHANGED <<deps, opts, index, turn>>

SearchNext == StartAt \/ Visit \/ Look \/ Finish

SearchSpec == SearchInit /\ [][SearchNext]_searchVars /\ WF_searchVars(SearchNext)

SearchDone == calls = << >> /\ turn = Size + 1

-----------------------------------------------------------------------------
(***************************************************************************)
(* What is returned, and what the callers make of it.                      *)
(***************************************************************************)
\* Mutant: the components are sorted, their members are not.
SortedNot(comp) == comp

\* sort_by_key: the k-th member is the one with k - 1 others declared before it.
Before(comp, v) == { u \in NodesOf(comp) : u < v }

Sorted(comp) ==
  IF opts.sort
  THEN [k \in 1..Len(comp) |-> CHOOSE v \in NodesOf(comp) : Cardinality(Before(comp, v)) = k - 1]
  ELSE comp

Returned ==
  LET n == Len(sccs)
  IN  [k \in 1..n |-> Sorted(IF opts.reverse THEN sccs[n - k + 1] ELSE sccs[k])]

\* V52 for aliases and for records.
Cyclic(comp) ==
  \/ Len(comp) > 1
  \/ Len(comp) = 1 /\ comp[1] \in NodesOf(deps[comp[1]])

-----------------------------------------------------------------------------
\* Whatever contains a and all the edges from it contains b.
ClosedUnder(S) == \A v \in S : NodesOf(deps[v]) \subseteq S
LeadsTo(a, b) == \A S \in SUBSET Names : a \in S /\ ClosedUnder(S) => b \in S

\* Type correctness; a lowlink never passes the index, and the open nodes lie
\* on the stack in the order of their discovery.
SearchTypeOK ==
  /\ deps \in [Names -> Seq(Names)]
  /\ opts \in [reverse : BOOLEAN, sort : BOOLEAN]
  /\ calls \in Seq([node : Names, left : Seq(Names)])
  /\ index \in [Names -> 0..Size] /\ lowlink \in [Names -> 0..Size]
  /\ pending \in Seq(Names) /\ sccs \in Seq(Seq(Names))
  /\ turn \in 1..(Size + 1)
  /\ \A v \in Names : lowlink[v] <= index[v]
  /\ \A j, k \in 1..Len(pending) : j < k => index[pending[j]] < index[pending[k]]

\* Two nodes share a component exactly if each reaches the other.
MutuallyReachable ==
  SearchDone =>
    \A a, b \in Names :
      LeadsTo(a, b) /\ LeadsTo(b, a)
        <=> \E k \in 1..Len(sccs) : {a, b} \subseteq NodesOf(sccs[k])

\* Every node is in one component, once.
Partition ==
  SearchDone => \A v \in Names :
    /\ \E k \in 1..Len(sccs) : v \in NodesOf(sccs[k])
    /\ \A i, j \in 1..Len(sccs) : \A p \in 1..Len(sccs[i]), q \in 1..Len(sccs[j]) :
         sccs[i][p] = v /\ sccs[j][q] = v => i = j /\ p = q

\* Components are found callees-first: whatever a finished component refers to
\* lies in it or in one found before (route_sccs: the order routes are emitted).
CalleesFirst ==
  \A k \in 1..Len(sccs) : \A v \in NodesOf(sccs[k]) : \A w \in NodesOf(deps[v]) :
    \E j \in 1..k : w \in NodesOf(sccs[j])

\* With sort_sccs_by_source_order, members appear in declaration order.
SourceOrder ==
  SearchDone /\ opts.sort => \A k \in 1..Len(Returned) : \A i, j \in 1..Len(Returned[k]) :
    i < j => Returned[k][i] < Returned[k][j]

\* V52 names a component exactly if its members unfold forever.
CyclesReported ==
  SearchDone => \A k \in 1..Len(sccs) :
    Cyclic(sccs[k]) <=> \E v \in NodesOf(sccs[k]) : \E w \in NodesOf(deps[v]) : LeadsTo(w, v)

\* Two nodes share a component exactly if each reaches the other, every node is
\* in one component once, a finished component refers to itself and to earlier
\* ones, its routes keep their source order, and V52 names exactly what unfolds
\* for ever: what route_sccs and its like rely on.
ComponentsExact ==
  MutuallyReachable /\ Partition /\ CalleesFirst /\ SourceOrder /\ CyclesReported

\* The search ends, whatever the cycles.
SearchEnds == <>SearchDone

\* With reverse_condensation, dependees appear before dependents (graph.rs).
DependeesFirst ==
  SearchDone /\ opts.reverse => \A k \in 1..Len(Returned) : \A v \in NodesOf(Returned[k]) :
    \A w \in NodesOf(deps[v]) : \E j \in 1..k : w \in NodesOf(Returned[j])
=============================================================================
