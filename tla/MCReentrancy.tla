---------------------------- MODULE MCReentrancy ----------------------------
(***************************************************************************)
(* RouteExec on entities whose routes have several phases, call out in the *)
(* middle, call each other, and are re-entered from the calls they make.   *)
(***************************************************************************)
EXTENDS RouteExec

CONSTANTS a, m, pay, sweep, book
MCMembers == {a, m}
MCMaps == {m}
MCValues == 0..4
MCRouteNames == {pay, sweep, book}
MCPublic == {pay, sweep}          \* book is private
MCStores == { [x \in MCMembers |-> IF x = a THEN 1 ELSE 2] }

\* A sum that weighs every value it is given, modulo 5.
MCEval(t, plain, next) ==
  ( (IF t.member = a THEN 1 ELSE 2)
    + (IF a \in DOMAIN plain THEN plain[a] ELSE 0)
    + (IF m \in DOMAIN plain THEN 2 * plain[m] ELSE 0)
    + (IF a \in DOMAIN next THEN 3 * next[a] ELSE 0)
    + (IF m \in DOMAIN next THEN 3 * next[m] ELSE 0) ) % 5

T(x, kind, reads, after) ==
  [member |-> x, kind |-> kind, scoped |-> FALSE, reads |-> reads, after |-> after]
S(kind, reads, to) == [kind |-> kind, reads |-> reads, to |-> to]
P(txs, stmts) == [txs |-> txs, stmts |-> stmts]

\* Both members move together and the call reads both (UniswapV2Pair.burn).
SwapPhase == P(<< T(m, "mapping", {a, m}, {}), T(a, "scalar", {m}, {}) >>,
               << S("call", {a, m}, NoRoute) >>)
\* a is settled only after the call (fetch / act).
FetchPhase == P(<< T(m, "mapping", {m}, {}) >>, << S("call", {a, m}, NoRoute) >>)
ActPhase == P(<< T(a, "scalar", {a, m}, {}) >>,
              << S("route", {a}, book), S("call", {a}, NoRoute) >>)
EarlyOut == P(<< T(a, "scalar", {a}, {}) >>, << S("return", {}, NoRoute) >>)
\* The flush: ^m of a mapping, read by the scalar behind it.
FlushPhase == P(<< T(m, "mapping", {m}, {}), T(a, "scalar", {a}, {m}) >>,
                << S("call", {a}, NoRoute) >>)

MCEntities ==
  { [x \in MCRouteNames |-> CASE x = pay   -> << FetchPhase, ActPhase >>
                              [] x = sweep -> << SwapPhase >>
                              [] x = book  -> << FlushPhase >>],
    [x \in MCRouteNames |-> CASE x = pay   -> << FetchPhase, EarlyOut, SwapPhase >>
                              [] x = sweep -> << ActPhase >>
                              [] x = book  -> << P(<< T(m, "branch", {m}, {}) >>, << >>) >>] }

\* The hypothesis of RouteExecProofs, on this instance.
ASSUME IsolatedInstance == \A p \in AllPhases : Isolated(p)
=============================================================================
