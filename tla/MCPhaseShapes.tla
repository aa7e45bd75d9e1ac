--------------------------- MODULE MCPhaseShapes ---------------------------
(***************************************************************************)
(* RouteExec on every shape a one-phase route over a scalar a, a mapping m *)
(* and a Vec can take, within small read sets.                             *)
(***************************************************************************)
EXTENDS RouteExec, FiniteSets

CONSTANTS a, m, vec, r
MCMembers == {a, m, vec}
MCMaps == {m}
MCVecs == {vec}
MCValues == 0..6
MCRouteNames == {r}
MCStores == { [x \in MCMembers |-> IF x = a THEN 1 ELSE IF x = m THEN 2 ELSE 4] }

Weight(x) == IF x = a THEN 1 ELSE IF x = m THEN 2 ELSE 3

RECURSIVE Total(_, _)
Total(vals, S) ==
  IF S = {} THEN 0
  ELSE LET x == CHOOSE x \in S : TRUE IN Weight(x) * vals[x] + Total(vals, S \ {x})

\* A body that tells the old value of every member it reads from the new one.
MCEval(t, plain, next) ==
  (Weight(t.member) + 3 + Total(plain, DOMAIN plain) + 5 * Total(next, DOMAIN next)) % 7

Shapes(x, kinds, scopes, most) ==
  { t \in [ member : {x}, kind : kinds, scoped : scopes,
            reads : SUBSET MCMembers, after : SUBSET (MCMembers \ {x}) ] :
      Cardinality(t.reads) + Cardinality(t.after) <= most }

ShapesOf(x, most) ==
  IF x = a THEN Shapes(x, {"scalar"}, {FALSE}, most)
  ELSE IF x = m THEN Shapes(x, {"mapping", "branch"}, BOOLEAN, most)
  ELSE Shapes(x, {"push", "scalar"}, {FALSE}, most)

Call(S) == [kind |-> "call", reads |-> S, to |-> NoRoute]

Distinct == { z \in MCMembers \X MCMembers : z[1] # z[2] }
Pairs == UNION { { <<t, u>> : t \in ShapesOf(z[1], n), u \in ShapesOf(z[2], 3 - n) } :
                 z \in Distinct, n \in {1, 2} }
Triples == UNION { { <<t, u, w>> : t \in ShapesOf(x, 1), u \in ShapesOf(y, 1), w \in ShapesOf(z, 1) } :
                   <<x, y, z>> \in { z \in MCMembers \X MCMembers \X MCMembers :
                                       Cardinality({z[1], z[2], z[3]}) = 3 } }

\* The phase commits txs and then calls out with every member it may hand over.
PhaseOf(txs) ==
  LET p == [txs |-> txs, stmts |-> << >>]
      ok == { x \in MCMembers : Isolated([p EXCEPT !.stmts = << Call({x}) >>]) }
  IN  [p EXCEPT !.stmts = << Call(ok) >>]

IsolatedPhases ==
  { PhaseOf(txs) : txs \in
      { s \in Pairs \cup Triples :
          LET p == [txs |-> s, stmts |-> << >>] IN WellFormed(p) /\ TransformsIsolated(p) } }

MCEntities == { [x \in MCRouteNames |-> << p >>] : p \in IsolatedPhases }

\* The hypothesis of RouteExecProofs, on this instance.
ASSUME IsolatedInstance == \A p \in AllPhases : Isolated(p)
=============================================================================
