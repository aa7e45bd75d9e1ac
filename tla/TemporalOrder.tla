---------------------------- MODULE TemporalOrder ----------------------------
(***************************************************************************)
(* The order in which a route computes its member transforms: Kahn's       *)
(* algorithm over the ^ references of their bodies (analysis/temporal.rs), *)
(* and the use the lowering makes of its result.                           *)
(*                                                                         *)
(* A route maps <<phase, member>> to the ^ references of the transform's   *)
(* body, as often as they occur.  Members are numbered in the order of     *)
(* their names.  Every route is sorted on its own: the model sorts one.    *)
(***************************************************************************)
EXTENDS Naturals, Sequences, FiniteSets

CONSTANTS
  Names,        \* the entity's members
  Unknown,      \* what a ^ reference to no member refers to
  PhaseNames,   \* the phases (one of them stands for an unphased route)
  Routes        \* the routes to sort

ASSUME NamesAssumption ==
  /\ Names \subseteq Nat /\ IsFiniteSet(Names)
  /\ Unknown \notin Names
  /\ IsFiniteSet(PhaseNames)
  /\ \A r \in Routes :
       /\ DOMAIN r \subseteq PhaseNames \X Names
       /\ \A key \in DOMAIN r : r[key] \in Seq(Names \cup {Unknown})

VARIABLES
  route,     \* never changes
  degree,    \* in_degree: the occurrences a member still waits for
  queue,     \* members that wait for nothing
  order,     \* result
  outcome    \* "sorting", "sorted" (Ok) or "cycle" (Err)

vars == <<route, degree, queue, order, outcome>>

Nodes == { key[2] : key \in DOMAIN route }

\* The places where the transforms of n, of whatever phase, write a ^.
Uses(n) ==
  UNION { {ph} \X DOMAIN route[<<ph, n>>] : ph \in { q \in PhaseNames : <<q, n>> \in DOMAIN route } }
RefAt(n, u) == route[<<u[1], n>>][u[2]]
UsesOf(n, d) == { u \in Uses(n) : RefAt(n, u) = d }

\* The uses in n of a member of S.
UsesIn(n, S) == { u \in Uses(n) : RefAt(n, u) \in S }

Emitted == { order[i] : i \in DOMAIN order }

\* The names the error is reported with.
Reported == Nodes \ Emitted

\* Mutant: in_degree counts the members referred to, not the occurrences.
InitDistinct ==
  /\ route \in Routes
  /\ degree = [n \in Nodes |-> Cardinality({ RefAt(n, u) : u \in UsesIn(n, Nodes) })]
  /\ queue = { n \in Nodes : degree[n] = 0 }
  /\ order = << >>
  /\ outcome = "sorting"

\* Mutant: a reference of a transform to its own member is not counted.
InitSelfless ==
  /\ route \in Routes
  /\ degree = [n \in Nodes |-> Cardinality(UsesIn(n, Nodes \ {n}))]
  /\ queue = { n \in Nodes : degree[n] = 0 }
  /\ order = << >>
  /\ outcome = "sorting"

Init ==
  /\ route \in Routes
  /\ degree = [n \in Nodes |-> Cardinality(UsesIn(n, Nodes))]
  /\ queue = { n \in Nodes : degree[n] = 0 }
  /\ order = << >>
  /\ outcome = "sorting"

\* Mutant: the first reference resolved releases a member.
PopUncounted ==
  /\ outcome = "sorting"
  /\ \E x \in queue :
       /\ \A y \in queue : y <= x
       /\ order' = Append(order, x)
       /\ degree' = [n \in Nodes |-> IF UsesOf(n, x) # {} THEN 0 ELSE degree[n]]
       /\ queue' = (queue \ {x}) \cup { n \in Nodes : degree[n] > 0 /\ degree'[n] = 0 }
  /\ UNCHANGED <<route, outcome>>

\* Mutant: the queue is popped in the order a hash map happens to give.
PopAny ==
  /\ outcome = "sorting"
  /\ \E x \in queue :
       /\ order' = Append(order, x)
       /\ degree' = [n \in Nodes |-> degree[n] - Cardinality(UsesOf(n, x))]
       /\ queue' = (queue \ {x}) \cup { n \in Nodes : degree[n] > 0 /\ degree'[n] = 0 }
  /\ UNCHANGED <<route, outcome>>

\* The queue is kept sorted and popped at its end: the largest name goes first.
Pop ==
  /\ outcome = "sorting"
  /\ \E x \in queue :
       /\ \A y \in queue : y <= x
       /\ order' = Append(order, x)
       /\ degree' = [n \in Nodes |-> degree[n] - Cardinality(UsesOf(n, x))]
       /\ queue' = (queue \ {x}) \cup { n \in Nodes : degree[n] > 0 /\ degree'[n] = 0 }
  /\ UNCHANGED <<route, outcome>>

\* Mutant: a drained queue is taken for success.
FinishUnchecked ==
  /\ outcome = "sorting"
  /\ queue = {}
  /\ outcome' = "sorted"
  /\ UNCHANGED <<route, degree, queue, order>>

\* Mutant: the sort waits for every member to be emitted.
FinishComplete ==
  /\ outcome = "sorting"
  /\ Len(order) = Cardinality(Nodes)
  /\ outcome' = "sorted"
  /\ UNCHANGED <<route, degree, queue, order>>

Finish ==
  /\ outcome = "sorting"
  /\ queue = {}
  /\ outcome' = IF Len(order) = Cardinality(Nodes) THEN "sorted" ELSE "cycle"
  /\ UNCHANGED <<route, degree, queue, order>>

Next == Pop \/ Finish

Spec == Init /\ [][Next]_vars
FairSpec == Spec /\ WF_vars(Next)

(***************************************************************************)
(* What the lowering does with the result                                  *)
(***************************************************************************)
Refs(ph, n) == { RefAt(n, u) : u \in { w \in Uses(n) : w[1] = ph } }

\* The transforms of a phase, sorted by the position of their member in the
\* order; what is not in it goes last.
Transformed(ph) == { n \in Names : <<ph, n>> \in DOMAIN route }

Position(n) ==
  IF n \in Emitted
  THEN CHOOSE i \in DOMAIN order : order[i] = n /\ \A j \in 1..(i - 1) : order[j] # n
  ELSE Len(order) + 1 + n

Ahead(ph, n) == { m \in Transformed(ph) : Position(m) < Position(n) }

PhaseTxs(ph) ==
  [k \in 1..Cardinality(Transformed(ph)) |->
     LET n == CHOOSE m \in Transformed(ph) : Cardinality(Ahead(ph, m)) = k - 1
     IN  [member |-> n, after |-> Refs(ph, n)]]

\* PhaseProgram's notion of an ordered phase.
NoEval(t, plain, next) == Unknown
Prog == INSTANCE PhaseProgram
          WITH Members <- Names, Maps <- {}, Vecs <- {}, Values <- {Unknown}, Eval <- NoEval,
               RouteNames <- {}, NoRoute <- Unknown

(***************************************************************************)
(* Correctness                                                             *)
(***************************************************************************)
\* The state is well typed; in_degree, a usize, never goes below zero.
TypeOK ==
  /\ route \in Routes
  /\ degree \in [Nodes -> Nat]
  /\ queue \subseteq Nodes
  /\ order \in Seq(Nodes)
  /\ outcome \in {"sorting", "sorted", "cycle"}

\* A result lists every member the route transforms once, each behind the members
\* any of its transforms reads as ^ (build_temporal_orders).
OrderRespectsRefs ==
  outcome = "sorted" =>
    /\ Emitted = Nodes
    /\ \A j, k \in DOMAIN order : order[j] = order[k] => j = k
    /\ \A j, k \in DOMAIN order : UsesOf(order[j], order[k]) # {} => k < j

\* Members each of which waits, in its transforms, for another of them.
Stuck == UNION { S \in SUBSET Nodes : \A n \in S : UsesIn(n, S) # {} }

\* V3 is reported exactly for a route with a cycle, a ^ of one's own included, and
\* its message names exactly the members that are on one or wait for one.
ReportNamesTheStuck ==
  outcome # "sorting" =>
    /\ outcome = "cycle" <=> Stuck # {}
    /\ Reported = Stuck

\* What a result gives the lowering, phase by phase, is an ordered phase: the
\* assumption RouteExec makes of every program (collect_transforms).
PhasesFitLowering ==
  outcome = "sorted" =>
    \A ph \in PhaseNames :
      /\ Prog!TemporallyOrdered(PhaseTxs(ph))
      /\ { PhaseTxs(ph)[k].member : k \in DOMAIN PhaseTxs(ph) } = Transformed(ph)

\* The result depends on no hash order: at every position stands the largest of
\* the members that had nothing left to wait for (queue.sort, queue.pop).
LargestReadyFirst ==
  \A j \in DOMAIN order :
    LET before == { order[i] : i \in 1..(j - 1) }
        ready == { n \in Nodes \ before : UsesIn(n, Nodes \ before) = {} }
    IN  order[j] \in ready /\ \A n \in ready : n <= order[j]

\* The sort ends, cycle or not.
SortEnds == <>(outcome # "sorting")

\* docs/LANGUAGE.md, "Temporal References in Phases": a ^ reference is "scoped to
\* the current phase", so phases that are each acyclic make an acyclic route.
OnlyPhasesHaveCycles ==
  outcome = "cycle" =>
    \E ph \in PhaseNames : \E S \in SUBSET Names \ {{}} :
      \A n \in S : <<ph, n>> \in DOMAIN route /\ Refs(ph, n) \cap S # {}
=============================================================================
