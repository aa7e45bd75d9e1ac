---------------------------- MODULE FailClosure ----------------------------
(***************************************************************************)
(* Which routes can fail: the facts read off a route's body and the        *)
(* closure of its fail surface over `call` (route_facts.rs).  The closure  *)
(* is computed in passes over a HashMap, whose order differs from process  *)
(* to process.                                                             *)
(***************************************************************************)
EXTENDS Naturals, FiniteSets

CONSTANTS Routes,        \* the routes of a program
          Entities,      \* the entities they belong to
          RoutePrograms  \* the programs considered: a body for each route

\* Actions: a throw, a deploy or raw transfer, arithmetic that panics, a message
\* to an entity outside the program, an event, a return; `call` of a route and
\* a typed message to one name it.
Plain == [kind : {"throw", "deploy", "trap", "extern", "emit", "return"}]
Directed == [kind : {"call", "send"}, to : Routes]

\* clause: there is a from or where clause.  The order and the nesting of the
\* actions do not matter here: the walks enter conditionals, loops and phases.
Bodies == [entity : Entities, clause : BOOLEAN, actions : SUBSET (Plain \cup Directed)]

ASSUME ProgramsAssumption ==
  /\ RoutePrograms \subseteq [Routes -> Bodies]
  /\ IsFiniteSet(Routes)

VARIABLES program,   \* the bodies of the routes; never changes
          canFail,   \* routes found to fail
          changed,   \* the current pass has found one
          left       \* routes the current pass has not looked at

closureVars == <<program, canFail, changed, left>>

-----------------------------------------------------------------------------
\* Mutant: an event counts as a fail surface.
LocalFailWithEvents(r) ==
  program[r].clause \/ \E a \in program[r].actions : a.kind \in {"throw", "deploy", "emit"}

LocalFail(r) == program[r].clause \/ \E a \in program[r].actions : a.kind \in {"throw", "deploy"}

CallCallees(r) == { a.to : a \in { b \in program[r].actions : b.kind = "call" } }

-----------------------------------------------------------------------------
ClosureInit ==
  /\ program \in RoutePrograms
  /\ canFail = { r \in Routes : LocalFail(r) }
  /\ changed = TRUE
  /\ left = {}

BeginPass ==
  /\ changed /\ left = {}
  /\ left' = Routes /\ changed' = FALSE
  /\ UNCHANGED <<program, canFail>>

\* Mutant: the pass ends at the first route it adds, without another one.
LookOnce(r) ==
  /\ r \in left
  /\ IF r \notin canFail /\ CallCallees(r) \cap canFail # {}
     THEN canFail' = canFail \cup {r} /\ left' = {}
     ELSE left' = left \ {r} /\ UNCHANGED canFail
  /\ UNCHANGED <<program, changed>>

LookAt(r) ==
  /\ r \in left
  /\ left' = left \ {r}
  /\ IF r \notin canFail /\ CallCallees(r) \cap canFail # {}
     THEN canFail' = canFail \cup {r} /\ changed' = TRUE
     ELSE UNCHANGED <<canFail, changed>>
  /\ UNCHANGED program

ClosureNext == BeginPass \/ \E r \in Routes : LookAt(r)

ClosureSpec == ClosureInit /\ [][ClosureNext]_closureVars /\ WF_closureVars(ClosureNext)

ClosureDone == ~changed /\ left = {}

-----------------------------------------------------------------------------
\* The routes every set contains that holds `base` and, with a route, all that
\* `edge` leads back to.
LeastClosed(base, Edges(_)) ==
  { r \in Routes : \A S \in SUBSET Routes :
      /\ base \subseteq S
      /\ \A q \in Routes : Edges(q) \cap S # {} => q \in S
      => r \in S }

LocalFails == { r \in Routes : LocalFail(r) }

\* Type correctness; every route with a fail surface of its own is in from the
\* start, and none is ever taken out.
ClosureTypeOK ==
  /\ program \in [Routes -> Bodies]
  /\ LocalFails \subseteq canFail /\ canFail \subseteq Routes
  /\ changed \in BOOLEAN
  /\ left \subseteq Routes

\* The closure finds exactly the routes from which calls lead to a fail
\* surface, whatever the order the HashMap hands them out in (fail_closure).
ClosureExact == ClosureDone => canFail = LeastClosed(LocalFails, CallCallees)

\* The passes come to an end.
ClosureEnds == <>ClosureDone
=============================================================================
