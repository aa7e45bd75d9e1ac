-------------------------- MODULE MCOrderingClaims --------------------------
(***************************************************************************)
(* Phases the validator accepts and PhaseProgram's Isolated excludes: each *)
(* entity below shows a sentence of the code or of the language reference  *)
(* that the emitted order of reads and writes does not keep.               *)
(***************************************************************************)
EXTENDS RouteExec

CONSTANTS a, m, vec, r
MCMembers == {a, m, vec}
MCMaps == {m}
MCVecs == {vec}
MCValues == 0..6
MCRouteNames == {r}
MCStores == { [x \in MCMembers |-> IF x = a THEN 1 ELSE IF x = m THEN 2 ELSE 4] }

\* A body adds up what it reads: 1 + the plain reads + twice the ^ reads.
Sum3(f) == LET at(x) == IF x \in DOMAIN f THEN f[x] ELSE 0 IN at(a) + at(m) + at(vec)
MCEval(t, plain, next) == (1 + Sum3(plain) + 2 * Sum3(next)) % 7

T(x, kind, scoped, reads) ==
  [member |-> x, kind |-> kind, scoped |-> scoped, reads |-> reads, after |-> {}]
Call(S) == [kind |-> "call", reads |-> S, to |-> NoRoute]
Route(txs, stmts) == { [x \in MCRouteNames |-> << [txs |-> txs, stmts |-> stmts] >>] }

\* A mapping transform with parameter names of its own writes inside its scope;
\* the scalar after it reads the mapping.
ScopedWrite == Route(<< T(m, "mapping", TRUE, {m}), T(a, "scalar", FALSE, {m}) >>, << >>)

\* The value an `if` inserts is computed by the write, behind the commit of a.
LateBranch == Route(<< T(a, "scalar", FALSE, {a}), T(m, "branch", FALSE, {a}) >>, << >>)

\* The call hands over a Vec the phase assigns, and the scalar next to it.
VecArgument == Route(<< T(vec, "scalar", FALSE, {vec}), T(a, "scalar", FALSE, {a}) >>,
                     << Call({a, vec}) >>)

\* The call hands over a scalar the phase commits.
ScalarArgument == Route(<< T(a, "scalar", FALSE, {a}) >>, << Call({a}) >>)

\* docs/LANGUAGE.md, "Execution Model": "run effects of P_i (effects see
\* post-transform state_P_i)".
EffectsSeePostState ==
  [][CallOut => \A x \in Stmt(Top).reads : ArgsOf(Top)[x] = store[x]]_vars
=============================================================================
