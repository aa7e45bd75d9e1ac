----------------------------- MODULE FailModes -----------------------------
(***************************************************************************)
(* What the backends make of the facts: on EVM a failed message reverts    *)
(* its sender; the Lean backend gives a route that fails the type Except   *)
(* and binds calls by whether callee and caller have it (lean/route.rs,    *)
(* lean/evm/send.rs); the validator rejects what the Lean backend cannot   *)
(* bind (L11).                                                             *)
(***************************************************************************)
EXTENDS FailClosure

Entity(r) == program[r].entity

Sends(r) == { a.to : a \in { b \in program[r].actions : b.kind = "send" } }
CrossSends(r) == { t \in Sends(r) : Entity(t) # Entity(r) }
SelfSends(r) == Sends(r) \ CrossSends(r)
Calls(r) == CallCallees(r)
Has(kind, r) == \E a \in program[r].actions : a.kind = kind

\* r and what `call`s lead to from it.
Called(r) == { q \in Routes : \A S \in SUBSET Routes :
                 r \in S /\ (\A p \in S : Calls(p) \subseteq S) => q \in S }

-----------------------------------------------------------------------------
\* route_fail_mode: the fail surface, the messages that can fail, and traps, of
\* the route and of all it calls.
FailsHere(r) ==
  \/ r \in canFail
  \/ Has("extern", r) \/ Has("trap", r)
  \/ CrossSends(r) \cap canFail # {}

\* Mutant: the overlay is not closed over `call`.
FailModeHere(r) == FailsHere(r)

FailMode(r) == \E q \in Called(r) : FailsHere(q)

\* lean_route_can_fail, by which the validator judges.
ValidatorFails(r) == \E q \in Called(r) : q \in canFail \/ Has("extern", q)

\* L11: a `call` or a message to a failing route of the same entity from a
\* route that cannot fail.
Rejected ==
  \E r \in Routes : \E t \in Calls(r) \cup SelfSends(r) :
    ValidatorFails(t) /\ ~ValidatorFails(r)

\* How the call of t in r is emitted: as it is, bound with <-, recovered with
\* exceptGetD, or not at all (the text does not compile).
Binding(r, t, isSelf) ==
  CASE ~FailMode(t)               -> "total"
    [] FailMode(t) /\ FailMode(r) -> "bind"
    [] FailMode(t) /\ ~FailMode(r) /\ isSelf -> "sentinel"
    [] OTHER -> "recover"

-----------------------------------------------------------------------------
\* On EVM a failing callee reverts its caller.
Failing == {"throw", "deploy", "trap", "extern"}
Reverts == LeastClosed({ r \in Routes : program[r].clause \/ \E k \in Failing : Has(k, r) },
                 LAMBDA r : Calls(r) \cup Sends(r))

\* Messages go to other entities, to routes with nothing but a fail surface.
Flat == \A r \in Routes : \A t \in Sends(r) :
          /\ Entity(t) # Entity(r)
          /\ \A q \in Called(t) : Sends(q) = {} /\ ~Has("trap", q) /\ ~Has("extern", q)

\* A route is a fail surface in Lean only if it can revert on EVM.
SurfacesRevert == ClosureDone => \A r \in Routes : FailMode(r) => r \in Reverts

\* Where messages go straight to a failing route, the Lean and the EVM build
\* agree on what can fail.
FlatProgramsAgree ==
  ClosureDone /\ Flat => \A r \in Routes : FailMode(r) <=> r \in Reverts

\* No `call` of an accepted program is emitted as text that does not compile:
\* the caller of a failing route is a fail surface itself.
CallsCompile ==
  ClosureDone /\ ~Rejected => \A r \in Routes : \A t \in Calls(r) : Binding(r, t, TRUE) # "sentinel"

\* The closure is exactly the routes from which calls lead to a fail surface, a
\* fail surface in Lean can revert on EVM, where messages go straight to a
\* failing route both builds agree on what fails, and the calls of an accepted
\* program compile (fail_closure, route_fail_mode, L11).
FailModesAgree == ClosureExact /\ SurfacesRevert /\ FlatProgramsAgree /\ CallsCompile

\* The failure of a message to another entity reaches its sender: it is bound,
\* never recovered (send_target.rs: "instead of exceptGetD").
NoSilentRecovery ==
  ClosureDone /\ ~Rejected => \A r \in Routes : \A t \in CrossSends(r) :
    Binding(r, t, FALSE) # "recover"

\* A message to a failing route of the same entity that L11 lets through can be
\* emitted (send.rs: "a validator contract breach (L9/L11)").
NoSentinel ==
  ClosureDone /\ ~Rejected => \A r \in Routes : \A t \in SelfSends(r) :
    Binding(r, t, TRUE) # "sentinel"
=============================================================================
