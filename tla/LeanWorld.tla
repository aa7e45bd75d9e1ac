----------------------------- MODULE LeanWorld -----------------------------
(***************************************************************************)
(* Routes on the Lean target beside the same routes on EVM.  The Lean      *)
(* definition of a route with effects threads a world `w` and a copy `s`   *)
(* of its own instance's state: before a message it writes s back into w   *)
(* (with<Entity>), afterwards it reads s again (lean/route.rs,             *)
(* lean/evm/send.rs).  The contract has one storage and no copy.  Both are *)
(* evaluated transaction by transaction from the same world.               *)
(*                                                                         *)
(* One member for each instance; the bodies are trees of statements.       *)
(***************************************************************************)
EXTENDS Naturals, Sequences, SequencesExt

CONSTANTS Instances,   \* of the program's entities
          Outside,     \* an account without code
          Routes,      \* names
          Owner,       \* the instance a route belongs to
          Public,      \* the routes a transaction may name
          Programs,    \* the bodies considered, one for each route
          Modulus,     \* members count modulo this
          Funds        \* the balances considered at the start

ASSUME LeanWorldAssumption ==
  /\ Owner \in [Routes -> Instances] /\ Outside \notin Instances
  /\ Public \subseteq Routes
  /\ Modulus \in Nat \ {0} /\ Funds \subseteq Nat

VARIABLES program,   \* a sequence of phases for each route; never changes
          lean,      \* the world of the Lean model
          evm,       \* the world of the contracts
          why        \* the cause of the last transaction's failure on each, or "none"

vars == <<program, lean, evm, why>>

\* Outcomes: ok, the world w, the local state s, whether a `return` was met,
\* and of a failure the cause.
Fine(w, s) == [ok |-> TRUE, w |-> w, s |-> s, returned |-> FALSE, cause |-> "none"]
Failed(w, cause) == [ok |-> FALSE, w |-> w, s |-> 0, returned |-> FALSE, cause |-> cause]

\* A phase's transform of the member.
Transformed(tx, m) == CASE tx = "keep" -> m [] tx = "inc" -> (m + 1) % Modulus [] tx = "one" -> 1

Emit(w, tag) == [w EXCEPT !.events = Append(@, tag)]

\* WorldState.transfer
Covered(w, src, dst, v) == src = dst \/ v <= w.balance[src]

\* Mutant: a transfer to oneself is not told apart.
MoveAny(w, src, dst, v) ==
  [w EXCEPT !.balance = [x \in DOMAIN @ |-> IF x = src THEN @[x] - v
                                            ELSE IF x = dst THEN @[x] + v ELSE @[x]]]

Move(w, src, dst, v) ==
  IF src = dst THEN w ELSE [w EXCEPT !.balance[src] = @ - v, !.balance[dst] = @ + v]

\* with<Entity> marks the instance as deployed, too.
With(w, i, s) == [w EXCEPT !.storage[i] = s, !.deployed[i] = TRUE]

-----------------------------------------------------------------------------
\* The facts the Lean backend asks of a route: route_fail_mode, and whether
\* its body threads the world.
RECURSIVE Within(_)
Within(stmts) ==   \* the statements of a body, those in branches and loops too
  UNION { {stmts[k]} \cup (CASE stmts[k].op = "if"  -> Within(stmts[k].then) \cup Within(stmts[k].else)
                             [] stmts[k].op = "for" -> Within(stmts[k].body)
                             [] OTHER -> {}) : k \in DOMAIN stmts }

StatementsOf(r) == UNION { Within(program[r][k].stmts) : k \in DOMAIN program[r] }

RECURSIVE CanFail(_), FailMode(_)
CanFail(r) ==
  \E a \in StatementsOf(r) : \/ a.op \in {"throw", "deploy", "transfer"}
                             \/ a.op = "call" /\ CanFail(a.route)
FailMode(r) ==
  \/ CanFail(r)
  \/ \E a \in StatementsOf(r) : \/ a.op = "extern"
                                \/ a.op = "send" /\ Owner[a.route] # Owner[r] /\ CanFail(a.route)
                                \/ a.op = "call" /\ FailMode(a.route)

NeedsWorld(r) ==
  \E a \in StatementsOf(r) : a.op \in {"send", "call", "transfer", "deploy", "extern", "emit"}

-----------------------------------------------------------------------------
\* Lean.

\* exceptGetD: a failure leaves the world as it was before the call.
Recovered(result, w) == IF result.ok THEN result ELSE Fine(w, 0)

\* s := w.storage.<entity> inst
Reread(result, s, i) == IF result.ok THEN Fine(result.w, result.w.storage[i]) ELSE result

RECURSIVE LeanStatements(_, _, _, _), LeanPhases(_, _, _, _), LeanLoop(_, _, _, _)

\* A state-only body (Local): a `return` of a failing route ends it.
RECURSIVE LocalStatements(_, _)
LocalStatement(a, s) ==
  CASE a.op = "throw"  -> Failed(<< >>, "throw")
    [] a.op = "return" -> [Fine(<< >>, s) EXCEPT !.returned = TRUE]
    [] a.op = "if"     -> LocalStatements(IF s # 0 THEN a.then ELSE a.else, s)
    [] a.op = "for"    -> LocalStatements(a.body, s)  \* no round changes s
    [] OTHER           -> Fine(<< >>, s)
LocalNext(end, a) == IF end.ok /\ ~end.returned THEN LocalStatement(a, end.s) ELSE end
LocalStatements(stmts, s) ==
  IF stmts = << >> THEN Fine(<< >>, s) ELSE LocalNext(LocalStatements(Front(stmts), s), Last(stmts))

LocalPhase(end, phase) ==
  IF end.ok THEN [LocalStatements(phase.stmts, Transformed(phase.tx, end.s)) EXCEPT !.returned = FALSE] ELSE end

\* The state is put back into the world.
Written(end, i) == IF end.ok THEN Fine(With(end.w, i, end.s), 0) ELSE end

\* <E>.Routes.<r> w inst: the phases on a copy of the state, then write it back.
LeanRoute(r, w) ==
  LET s == w.storage[Owner[r]]
  IN Written(IF NeedsWorld(r) THEN LeanPhases(r, program[r], w, s)
             ELSE [FoldLeft(LocalPhase, Fine(<< >>, s), program[r]) EXCEPT !.w = w], Owner[r])

LeanPhase(r, end, phase) ==
  IF end.ok THEN LeanStatements(r, phase.stmts, end.w, Transformed(phase.tx, end.s)) ELSE end
LeanPhases(r, phases, w, s) ==
  IF phases = << >> THEN Fine(w, s) ELSE LeanPhase(r, LeanPhases(r, Front(phases), w, s), Last(phases))

\* Mutant: the caller's state is not written back before the call.
WritebackNot(w, i, s) == w

Writeback(w, i, s) == With(w, i, s)

\* lower_typed_var_call; w is the world with the caller's state in it.  A
\* failure goes on to the caller, or leaves the world as it was before.
Propagates(r, a) == (FailMode(a.route) /\ FailMode(r)) \/ (a.value = 0 /\ ~FailMode(a.route))

LeanSend(r, a, w) ==
  LET to == Owner[a.route]
  IN IF Covered(w, Owner[r], to, a.value) THEN LeanRoute(a.route, Move(w, Owner[r], to, a.value))
     ELSE Failed(w, "funds")

\* lower_deploy, of a target whose init route sets nothing.
LeanDeploy(a, w) == IF w.deployed[a.to] THEN Failed(w, "occupied") ELSE Fine(With(w, a.to, 0), 0)

LeanStatement(r, a, w, s) ==
  LET me == Owner[r]
      w1 == Writeback(w, me, s)
  IN CASE a.op = "emit"     -> Fine(Emit(w, a.tag), s)
       [] a.op = "return"   -> Fine(w, s)      \* only its payload, at the end
       [] a.op = "throw"    -> Failed(w1, "throw")
       [] a.op = "send"     -> Reread(IF Propagates(r, a) THEN LeanSend(r, a, w1)
                                      ELSE Recovered(LeanSend(r, a, w1), w1), s, me)
       [] a.op = "call"     -> Reread(LeanRoute(a.route, w1), s, me)
       [] a.op = "transfer" ->
            IF Covered(w1, me, Outside, a.value) THEN Reread(Fine(Move(w1, me, Outside, a.value), 0), s, me)
            ELSE Failed(w1, "funds")
       [] a.op = "deploy"   -> Reread(LeanDeploy(a, w1), s, me)
       \* An axiom on w, here what a foreign contract may do: nothing, or call
       \* one of our routes.  s is neither written back nor read again.
       [] a.op = "extern"   -> IF a.back = {} THEN Fine(w, s)
                               ELSE [LeanRoute(CHOOSE q \in a.back : TRUE, w) EXCEPT !.s = s]
       [] a.op = "if"       ->
            Reread(Written(LeanStatements(r, IF s # 0 THEN a.then ELSE a.else, w1, w1.storage[me]), me), s, me)
       \* A fold over w: each round starts from the state in w, as it stands.
       [] a.op = "for"      -> Reread(LeanLoop(r, a, w, a.rounds), s, me)

LeanRound(r, a, end) == IF end.ok THEN LeanStatements(r, a.body, end.w, end.w.storage[Owner[r]]) ELSE end
LeanLoop(r, a, w, rounds) ==
  IF rounds = 0 THEN Fine(w, 0) ELSE LeanRound(r, a, LeanLoop(r, a, w, rounds - 1))

LeanNext(r, end, a) == IF end.ok THEN LeanStatement(r, a, end.w, end.s) ELSE end
LeanStatements(r, stmts, w, s) ==
  IF stmts = << >> THEN Fine(w, s) ELSE LeanNext(r, LeanStatements(r, Front(stmts), w, s), Last(stmts))

-----------------------------------------------------------------------------
\* EVM: one storage, messages are calls, a failure ends the transaction.
RECURSIVE EvmStatements(_, _, _), EvmPhases(_, _, _), EvmLoop(_, _, _, _)

EvmRoute(r, w) == [EvmPhases(r, program[r], w) EXCEPT !.returned = FALSE]

\* The transforms of a phase are committed before its statements.
EvmPhases(r, phases, w) ==
  IF phases = << >> THEN Fine(w, 0)
  ELSE LET w1 == [w EXCEPT !.storage[Owner[r]] = Transformed(Head(phases).tx, @)]
           here == EvmStatements(r, Head(phases).stmts, w1)
       IN IF here.ok /\ ~here.returned THEN EvmPhases(r, Tail(phases), here.w) ELSE here

EvmSend(r, a, w) ==
  IF ~w.deployed[Owner[a.route]] THEN Failed(w, "no code")
  ELSE IF a.value > w.balance[Owner[r]] THEN Failed(w, "funds of a message")
  ELSE EvmRoute(a.route, Move(w, Owner[r], Owner[a.route], a.value))

\* CREATE2: a second deployment at the same address fails.
EvmDeploy(a, w) ==
  IF w.deployed[a.to] THEN Failed(w, "occupied")
  ELSE Fine([w EXCEPT !.storage[a.to] = 0, !.deployed[a.to] = TRUE], 0)

EvmStatement(r, a, w) ==
  LET me == Owner[r]
  IN CASE a.op = "emit"     -> Fine(Emit(w, a.tag), 0)
       [] a.op = "return"   -> [Fine(w, 0) EXCEPT !.returned = TRUE]
       [] a.op = "throw"    -> Failed(w, "throw")
       [] a.op = "send"     -> EvmSend(r, a, w)
       [] a.op = "call"     -> EvmRoute(a.route, w)
       [] a.op = "transfer" -> IF a.value <= w.balance[me] THEN Fine(Move(w, me, Outside, a.value), 0)
                               ELSE Failed(w, "funds")
       [] a.op = "deploy"   -> EvmDeploy(a, w)
       [] a.op = "extern"   -> IF a.back = {} THEN Fine(w, 0)
                               ELSE EvmRoute(CHOOSE q \in a.back : TRUE, w)
       [] a.op = "if"       -> EvmStatements(r, IF w.storage[me] # 0 THEN a.then ELSE a.else, w)
       [] a.op = "for"      -> EvmLoop(r, a, w, a.rounds)

EvmLoop(r, a, w, rounds) ==
  IF rounds = 0 THEN Fine(w, 0)
  ELSE LET here == EvmStatements(r, a.body, w)
       IN IF here.ok /\ ~here.returned THEN EvmLoop(r, a, here.w, rounds - 1) ELSE here

EvmStatements(r, stmts, w) ==
  IF stmts = << >> THEN Fine(w, 0)
  ELSE LET here == EvmStatement(r, Head(stmts), w)
       IN IF here.ok /\ ~here.returned THEN EvmStatements(r, Tail(stmts), here.w) ELSE here

-----------------------------------------------------------------------------
\* Both start from the same world.
Init ==
  /\ program \in Programs
  /\ \E st \in [Instances -> 0 .. Modulus - 1], up \in SUBSET Instances,
        held \in [Instances -> Funds] :
       /\ \A r \in Public : Owner[r] \in up
       /\ \A i \in Instances \ up : st[i] = 0
       /\ lean = [storage |-> st, deployed |-> [i \in Instances |-> i \in up],
                  balance |-> [x \in Instances \cup {Outside} |-> IF x = Outside THEN 0 ELSE held[x]],
                  events |-> << >>]
  /\ evm = lean
  /\ why = [lean |-> "none", evm |-> "none"]

\* One transaction on both; a failed one leaves the world as it was.
Tx(r) ==
  LET quiet(w) == [w EXCEPT !.events = << >>]
      l == LeanRoute(r, quiet(lean))
      e == EvmRoute(r, quiet(evm))
  IN /\ lean' = IF l.ok THEN l.w ELSE quiet(lean)
     /\ evm' = IF e.ok THEN e.w ELSE quiet(evm)
     /\ why' = [lean |-> l.cause, evm |-> e.cause]
     /\ UNCHANGED program

Next == \E r \in Public : Tx(r)

Spec == Init /\ [][Next]_vars

-----------------------------------------------------------------------------
\* What is known to differ, each kind apart.

\* A `for` is met while the phase's transform is only in s.
RECURSIVE LoopsLate(_, _)
LoopsLate(stmts, written) ==
  /\ stmts # << >>
  /\ \/ Head(stmts).op = "for" /\ ~written
     \/ LoopsLate(Tail(stmts),
                  written \/ Head(stmts).op \in {"send", "call", "transfer", "deploy", "if", "for"})

HasLateLoop ==
  \E r \in Routes : \E k \in DOMAIN program[r] :
    /\ program[r][k].tx # "keep"
    /\ NeedsWorld(r)
    /\ LoopsLate(program[r][k].stmts, FALSE)

\* A `return` with something after it.
HasEarlyReturn ==
  \E r \in Routes : \E k \in DOMAIN program[r] :
    LET stmts == program[r][k].stmts
    IN \E n \in DOMAIN stmts :
         \/ stmts[n].op = "return" /\ (n < Len(stmts) \/ k < Len(program[r]))
         \/ \E a \in Within(<<stmts[n]>>) \ {stmts[n]} : a.op = "return"

HasCallback == \E r \in Routes : \E a \in StatementsOf(r) : a.op = "extern" /\ a.back # {}

\* From one world both come to one world, and fail together.
Agree ==
  lean = evm => /\ lean' = evm'
                /\ (why'.lean = "none") <=> (why'.evm = "none")

-----------------------------------------------------------------------------
\* Every instance and account keeps its place, members their range.
TypeOK ==
  /\ \A w \in {lean, evm} :
       /\ w.storage \in [Instances -> 0 .. Modulus - 1]
       /\ w.deployed \in [Instances -> BOOLEAN]
       /\ \A x \in Instances \cup {Outside} : w.balance[x] \in Nat
  /\ why.lean \in {"none", "throw", "funds", "occupied"}
  /\ why.evm \in {"none", "throw", "funds", "occupied", "no code", "funds of a message"}

\* LANGUAGE.md, "EVM is ground truth for the Lean model".  Apart from the
\* kinds above, a message's missing code and its missing funds: a
\* transaction has the same outcome, state, balances, deployments and events,
\* whatever the route sends, deploys or emits and whoever sends back to it in
\* between (the writeback before every effect and the re-read after it).
LeanAgrees ==
  [][ ~HasLateLoop /\ ~HasEarlyReturn /\ ~HasCallback
      /\ why'.evm \notin {"no code", "funds of a message"} => Agree ]_vars

\* Value is neither made nor lost on either target, whatever part of a
\* transaction fails (WorldState.transfer, exceptGetD).
Total(w) == LET f[S \in SUBSET DOMAIN w.balance] ==
                  IF S = {} THEN 0 ELSE LET x == CHOOSE y \in S : TRUE IN w.balance[x] + f[S \ {x}]
            IN f[DOMAIN w.balance]
ValueConserved == [][Total(lean') = Total(lean) /\ Total(evm') = Total(evm)]_vars

\* LANGUAGE.md on a phase: its transforms take effect, then its statements
\* see the new state.  On Lean a `for` starts from the world without them and
\* the state is read back from there (lean/route.rs, For, World carrier).
LoopsSeeTransforms ==
  [][ ~HasEarlyReturn /\ ~HasCallback
      /\ why'.evm \notin {"no code", "funds of a message"} => Agree ]_vars

\* LANGUAGE.md: "`return(...)` and `throw` ... are terminators ...  On Lean,
\* world-threaded and fail-mode route bodies short-circuit the same way."
\* The world carrier emits nothing for a return (lean/route.rs, Return).
ReturnsEndRoutes ==
  [][ ~HasLateLoop /\ ~HasCallback
      /\ why'.evm \notin {"no code", "funds of a message"} => Agree ]_vars

\* LANGUAGE.md: "effects see post-transform state".  An external contract
\* that calls back is given the world without the state, and what it changes
\* is overwritten (lean/evm/send.rs, lower_extern_call).
CallbacksSeeTransforms ==
  [][ ~HasLateLoop /\ ~HasEarlyReturn
      /\ why'.evm \notin {"no code", "funds of a message"} => Agree ]_vars

\* Evm.lean on WorldState.call: "Transfer failures abort before `body` (1:1
\* EVM - no best-effort credit)".  A message with value to a route that
\* cannot fail is wrapped in exceptGetD (lean/evm/send.rs).
MessagesAreFunded ==
  [][ ~HasLateLoop /\ ~HasEarlyReturn /\ ~HasCallback
      /\ why'.evm # "no code" => Agree ]_vars

\* LANGUAGE.md on occupancy: a deployment fails when there is a deployment at
\* the identity, "matching a second CREATE2".  A message marks its receiver,
\* too (lean/evm/world.rs, with<Entity>).
OnlyDeploysOccupy ==
  [][ ~HasLateLoop /\ ~HasEarlyReturn /\ ~HasCallback
      /\ (\A q \in Routes : \A a \in StatementsOf(q) : a.op # "deploy")
      => lean'.deployed = lean.deployed ]_vars

=============================================================================
