--------------------------- MODULE InvariantTraces ---------------------------
(***************************************************************************)
(* An `invariant` declaration on the two targets that take it: as the      *)
(* handler gen_invariant_file emits, called by Foundry in any order and    *)
(* checked after every call; and as the theorem build_invariant_theorem    *)
(* states of every list of actions.  A handler call and the action of the  *)
(* same route and argument are taken together: each state is a prefix of   *)
(* a campaign and the instance of the theorem at that trace.               *)
(*                                                                         *)
(* The entity has a count, an owner, and the time of its last `stamp`.     *)
(***************************************************************************)
EXTENDS Naturals, Sequences, FiniteSets, SequencesExt

CONSTANTS Declarations,  \* the invariants considered
          Args,          \* what the fuzzer draws for a parameter
          MaxTrace,      \* the longest trace
          Nobody         \* where no sender or action is meant

EntityRoutes == {"add", "take", "own", "stamp", "setup"}

\* `assume` and `check` may ask for the trace (I15, I16).
OfTrace == {"early", "turns", "balanced", "short"}

VARIABLES decl,     \* never changes
          handler,  \* of Foundry: the entity, the clock, the counters, and how the campaign stands
          claim,    \* of Lean: the entity, both clocks, the accumulator, and what the theorem has settled
          notes     \* history: what has happened on which the targets part

vars == <<decl, handler, claim, notes>>

Actions == DOMAIN decl.body
StepsOf(route, kind) == { s \in ToSet(decl.body[route]) : s.kind = kind }

UsesTrace ==
  \/ decl.checks \cap OfTrace # {}
  \/ \E r \in Actions : \E s \in StepsOf(r, "assume") : s.cond \in OfTrace

\* T31: a range of literals is not empty.  I5: there are an action and a check.
Accepted(d) ==
  /\ DOMAIN d.body # {} /\ d.checks # {}
  /\ \A r \in DOMAIN d.body : \A i \in DOMAIN d.body[r] :
       LET s == d.body[r][i]
       IN s.kind = "bound" => s.lo < s.hi \/ (s.lo = s.hi /\ s.inclusive)

\* The init route is no call, so that what `vm.prank` has set up for it stays.
InvariantsAssumption ==
  \A d \in Declarations : DOMAIN d.body \subseteq EntityRoutes /\ ("setup" \in DOMAIN d.body => d.senders = {})

-----------------------------------------------------------------------------
(***************************************************************************)
(* The entity, and what a condition or a check asks.                       *)
(***************************************************************************)
Start == [count |-> 0, at |-> 0]

Throws(route, arg, state, sender) ==
  \/ route = "take" /\ state.count < arg
  \/ route = "own" /\ sender # "owner"

After(route, arg, state, now) ==
  CASE route = "add" -> [state EXCEPT !.count = @ + arg]
    [] route = "take" -> [state EXCEPT !.count = @ - arg]
    [] route = "own" -> [state EXCEPT !.count = @ + 1]
    [] route = "stamp" -> [state EXCEPT !.at = now]

\* last is the set of the routes that trace::lastWas confirms.
NoTrace == [len |-> 0, counted |-> [r \in EntityRoutes |-> 0], last |-> {}]

Cond(cond, route, arg, state, books) ==
  CASE cond = "none" -> state.count = 0
    [] cond = "stocked" -> state.count >= arg
    [] cond = "early" -> books.len < 2
    [] cond = "turns" -> route \notin books.last

Check(check, state, now, books) ==
  CASE check = "low" -> state.count <= 3
    [] check = "timely" -> state.at <= now
    [] check = "balanced" -> books.counted["take"] <= books.counted["add"]
    [] check = "short" -> books.len <= 2

-----------------------------------------------------------------------------
(***************************************************************************)
(* The handler.                                                            *)
(***************************************************************************)
\* forge-std: a value out of range is wrapped into it.
Clamp(x, lo, hi) ==
  LET size == hi - lo + 1
  IN CASE x \in lo..hi -> x
       [] x \notin lo..hi /\ size > x -> lo + x
       [] x > hi /\ size <= x -> LET rem == (x - hi) % size IN IF rem = 0 THEN hi ELSE lo + rem - 1
       [] x < lo /\ size <= x -> LET rem == (lo - x) % size IN IF rem = 0 THEN lo ELSE hi - rem + 1

\* `bound x in 1..3`, or `bound x in 1..m_count`.
Ranges == {"bound", "within"}
Top(step, state) == IF step.kind = "within" THEN state.count ELSE step.hi

\* Mutant: the top of an exclusive range is left in it.
BoundedClosed(g, step, state) ==
  LET top == Top(step, state)
      arg == Clamp(g.arg, step.lo, top)
  IN IF top < step.lo THEN [g EXCEPT !.verdict = "revert"] ELSE [g EXCEPT !.arg = arg, !.moved = @ \/ arg # g.arg]

\* An exclusive range loses its top: `(hi) - 1` reverts at zero, and `bound`
\* where nothing is left.
Bounded(g, step, state) ==
  LET top == Top(step, state)
      none == IF step.inclusive THEN top < step.lo ELSE top <= step.lo
      arg == Clamp(g.arg, step.lo, IF step.inclusive THEN top ELSE top - 1)
  IN IF none THEN [g EXCEPT !.verdict = "revert"] ELSE [g EXCEPT !.arg = arg, !.moved = @ \/ arg # g.arg]

\* The body of the action in its order, an advanceTime in it left out.
Prepared(h, route, x) ==
  FoldLeft(LAMBDA g, step :
             CASE g.verdict # "call" -> g
               [] g.verdict = "call" /\ step.kind \in Ranges -> Bounded(g, step, h.state)
               [] g.verdict = "call" /\ step.kind = "assume" ->
                    IF Cond(step.cond, route, g.arg, h.state, h.books) THEN g ELSE [g EXCEPT !.verdict = "reject"]
               [] g.verdict = "call" /\ step.kind = "skip" ->
                    IF Cond(step.cond, route, g.arg, h.state, h.books) THEN [g EXCEPT !.verdict = "skip"] ELSE g
               [] g.verdict = "call" /\ step.kind = "advance" -> g,
           [arg |-> x, moved |-> FALSE, verdict |-> "call"], decl.body[route])

Bump(books, route) ==
  [len |-> books.len + 1,
   counted |-> IF route \in EntityRoutes THEN [books.counted EXCEPT ![route] = @ + 1] ELSE books.counted,
   last |-> {route} \cap Actions]

\* foundry.toml: a profile's own setting, else that any invariant of the
\* project has the attribute, or the project's configuration.
Runner == IF decl.profile # "unset" THEN decl.profile = "fail" ELSE decl.fail \/ decl.elsewhere

\* The handler reverts: the call leaves nothing, and counts or does not.
Revert(h) == IF Runner THEN [h EXCEPT !.status = "failed"] ELSE h

\* Without a pool of senders the entity is called by the handler.
Caller(by) == IF decl.senders = {} THEN "handler" ELSE by

Forward(h, route, arg, by) ==
  IF route = "setup" THEN [h EXCEPT !.books = Bump(@, route)]
  ELSE IF ~Throws(route, arg, h.state, Caller(by))
       THEN [h EXCEPT !.state = After(route, arg, @, h.clock), !.books = Bump(@, route)]
  ELSE IF decl.fail THEN Revert(h) ELSE h

Handle(h, route, x, by) ==
  LET g == Prepared(h, route, x)
  IN CASE g.verdict = "reject" -> [h EXCEPT !.status = "rejected"]
       [] g.verdict = "skip" -> h
       [] g.verdict = "revert" -> Revert(h)
       [] g.verdict = "call" -> Forward(h, route, g.arg, by)

\* Whom Foundry has call the handler: the pool, the sender the context pins, or anyone.
Pool ==
  LET named == decl.senders \cup ({decl.pinned} \ {Nobody})
  IN IF named = {} THEN {"other"} ELSE named

-----------------------------------------------------------------------------
(***************************************************************************)
(* The theorem: stepValid and traceValid, accUpdate, step and runTrace.    *)
(***************************************************************************)
\* The pool replaces the context's sender, which is zero if nothing pins it.
Sender(by) ==
  CASE decl.senders # {} -> IF by \in decl.senders THEN by ELSE CHOOSE s \in decl.senders : TRUE
    [] decl.senders = {} -> IF decl.pinned = Nobody THEN "zero" ELSE decl.pinned

StepValid(c, route, x) ==
  \A s \in StepsOf(route, "assume") : Cond(s.cond, route, x, c.state, c.acc)

\* A range of literals is dropped, one that asks for the state is a condition
\* on the step beside the `skip if`s.
Open(c, route, x) ==
  /\ \A s \in StepsOf(route, "skip") : ~Cond(s.cond, route, x, c.state, c.acc)
  /\ \A s \in StepsOf(route, "within") :
       s.lo <= x /\ IF s.inclusive THEN x <= c.state.count ELSE x < c.state.count

AccUpdate(acc, action) ==
  [acc EXCEPT !.len = @ + 1, !.last = {action},
              !.counted = [r \in EntityRoutes |-> IF r = action THEN @[r] + 1 ELSE @[r]]]

\* The entity's own routes take the time of the context.
Outcome(c, route, x, by) ==
  CASE route = "setup" \/ ~Open(c, route, x) -> [ok |-> TRUE, state |-> c.state]
    [] route # "setup" /\ Open(c, route, x) ->
         IF Throws(route, x, c.state, Sender(by)) THEN [ok |-> FALSE, state |-> c.state]
         ELSE [ok |-> TRUE, state |-> After(route, x, c.state, c.ctx)]

\* Mutant: a step that errs ends the trace, with or without the attribute.
ErrorEnds(c, ok) == [c EXCEPT !.erred = @ \/ ~ok, !.aborted = @ \/ ~ok]

\* runTrace goes on behind an error unless the attribute says otherwise;
\* traceValid asks nothing any more.
Erring(c, ok) == [c EXCEPT !.erred = @ \/ ~ok, !.aborted = @ \/ (decl.fail /\ ~ok)]

Take(c, route, x, by) ==
  LET o == Outcome(c, route, x, by)
  IN [Erring(c, o.ok) EXCEPT !.valid = @ /\ (c.erred \/ StepValid(c, route, x)),
                             !.acc = AccUpdate(@, route),
                             !.state = IF c.aborted THEN @ ELSE o.state]

-----------------------------------------------------------------------------
(***************************************************************************)
(* What happens at a step on which the targets part.                       *)
(***************************************************************************)
Note(route, x, by) ==
  LET g == Prepared(handler, route, x)
      fails == g.verdict = "call" /\ route # "setup" /\ Throws(route, g.arg, handler.state, Caller(by))
      denied == ~StepValid(claim, route, x)
  IN { n \in {"clamped", "uncounted", "empty", "shadowed", "unasked", "spared", "handler", "unlisted", "clock"} :
         CASE n = "clamped" ->    \* Foundry wraps the argument, Lean takes it or takes no step
                g.moved
           [] n = "uncounted" ->  \* Foundry counts calls that succeed, Lean all actions
                UsesTrace /\ (fails \/ g.verdict \in {"skip", "revert"})
           [] n = "empty" ->      \* nothing is in the range: Lean takes no step, Foundry reverts
                g.verdict = "revert" /\ (Runner \/ denied)
           [] n = "shadowed" ->   \* an assume behind a skip that applies
                g.verdict = "skip" /\ denied
           [] n = "unasked" ->    \* an assume of a step behind an error
                claim.erred /\ denied
           [] n = "spared" ->     \* a profile takes the attribute back
                decl.fail /\ fails /\ ~Runner
           [] n = "handler" ->    \* a sender that only the context names does not get to the entity
                decl.senders = {} /\ route = "own" /\ Sender(by) = "owner"
           [] n = "unlisted" ->   \* the sender of the context calls on Foundry, beside the pool
                decl.senders # {} /\ by \notin decl.senders
           [] n = "clock" ->      \* what Lean advances routes read, and checks do not
                route = "stamp" /\ claim.ctx # claim.block }

-----------------------------------------------------------------------------
Going == handler.status = "open" /\ claim.acc.len < MaxTrace

CallAction ==
  \E r \in Actions, x \in Args, by \in Pool :
    /\ Going
    /\ handler' = Handle(handler, r, x, by)
    /\ claim' = Take(claim, r, x, by)
    /\ notes' = notes \cup Note(r, x, by)
    /\ UNCHANGED decl

\* #[with_time]: a handler function of its own, and an action.
AdvanceTime ==
  /\ decl.time /\ Going
  /\ handler' = [handler EXCEPT !.clock = @ + 1, !.books = Bump(@, "advanceTime")]
  /\ claim' = [claim EXCEPT !.ctx = IF claim.aborted THEN @ ELSE @ + 1, !.acc = AccUpdate(@, "advanceTime")]
  /\ UNCHANGED <<decl, notes>>

Init ==
  /\ decl \in { d \in Declarations : Accepted(d) }
  /\ handler = [state |-> Start, clock |-> 0, books |-> NoTrace, status |-> "open"]
  /\ claim = [state |-> Start, block |-> 0, ctx |-> 0, acc |-> NoTrace, erred |-> FALSE, aborted |-> FALSE, valid |-> TRUE]
  /\ notes = {}

Next == CallAction \/ AdvanceTime

Spec == Init /\ [][Next]_vars

-----------------------------------------------------------------------------
\* Each check is an invariant_ function of its own; the theorem has their
\* conjunction, behind okAnd or okImplies.
CampaignHolds ==
  handler.status # "failed" /\ \A k \in decl.checks : Check(k, handler.state, handler.clock, handler.books)

TheoremHolds ==
  claim.valid => ~claim.aborted /\ \A k \in decl.checks : Check(k, claim.state, claim.block, claim.acc)

\* After every sequence of calls the campaign stands exactly if the theorem
\* holds of the trace, and a call that vm.assume rejects is one traceValid
\* excludes, but for what the notes name (gen_invariant_file,
\* build_invariant_theorem).
TracesAgree ==
  notes = {} =>
    IF handler.status = "rejected" THEN ~claim.valid
    ELSE claim.valid /\ (CampaignHolds <=> TheoremHolds)
=============================================================================
