----------------------------- MODULE TestScripts -----------------------------
(***************************************************************************)
(* A `test` block on the two targets that run it: as the function          *)
(* gen_test_fn emits, executed by Foundry, in a suite of its own and in    *)
(* one with another test that deploys otherwise; and as the theorem        *)
(* gen_test_theorem states, read as the proposition it is.  All walk the   *)
(* same steps side by side.                                                *)
(*                                                                         *)
(* The entity under test has an owner, which its init route sets to its    *)
(* first argument, a count of the routes run on it, and what it was paid.  *)
(* A route is a record: guarded (it throws unless the owner calls), view,  *)
(* payable, and the events it emits.  Instances are named by their         *)
(* identity, "main" being the default one.                                 *)
(***************************************************************************)
EXTENDS Naturals, Sequences, FiniteSets, SequencesExt

CONSTANTS Tests,   \* the tests considered: params of the init route, and body
          Nobody   \* where no account, event or instance is meant

Assertions == {"state", "throw", "return"}
Identities == {"main", "other"}
Suites == {"alone", "shared"}

\* The address Solidity and Lean start from, and that of the test contract.
Zero == "zero"
Contract == "contract"

VARIABLES test,     \* never changes
          pc,       \* the step both are at
          forge,    \* the test function of each suite, as executed so far
          theorem   \* the theorem, as far as its text goes

vars == <<test, pc, forge, theorem>>

Steps == DOMAIN test.body
Step(i) == test.body[i]
Is(i, kinds) == i \in Steps /\ Step(i).kind \in kinds
Done == pc > Len(test.body)

\* T5 and T6: there is a call, and what asserts stands behind one.
Accepted(body) ==
  /\ \E i \in DOMAIN body : body[i].kind \in {"call", "init"}
  /\ \A i \in DOMAIN body : body[i].kind \in Assertions =>
       \E j \in 1..(i - 1) : body[j].kind \in {"call", "init"}

\* An expected event is that of the call behind it.
TestsAssumption ==
  \A t \in Tests : /\ t.params \in {1, 2}
                   /\ \A i \in DOMAIN t.body : t.body[i].kind = "emit" =>
                        i < Len(t.body) /\ t.body[i + 1].kind = "call"

Undeployed == [owner |-> Zero, count |-> 0, paid |-> 0]
Initialized(owner) == [Undeployed EXCEPT !.owner = owner]

Throws(route, at, sender) == route.guarded /\ sender # at.owner
After(route, at, value) ==
  [at EXCEPT !.count = IF route.view THEN @ ELSE @ + 1, !.paid = IF route.payable THEN @ + value ELSE @]

-----------------------------------------------------------------------------
(***************************************************************************)
(* What the harness makes of the body before it runs.                      *)
(***************************************************************************)
\* The assertions behind call i, up to the next step of another kind.
Group(i) == { j \in Steps : j > i /\ \A k \in (i + 1)..j : Is(k, Assertions) }
Expects(i, kind) == \E j \in Group(i) : Step(j).kind = kind

Holds(kinds) == \E i \in Steps : Is(i, kinds)

\* Mutant: a context in front of the init call is taken for its pair whoever is its sender.
PairedWithAny(i) == Is(i, {"msg"}) /\ Is(i + 1, {"init"}) /\ Step(i).sender # Nobody

\* A context whose sender is the first argument of the init call behind it.
Paired(i) == Is(i, {"msg"}) /\ Is(i + 1, {"init"}) /\ Step(i).sender = Step(i + 1).owner

\* The init call that only contexts precede; the sender it shares setUp with is
\* compared with all its arguments, rendered and joined.
Opening(i) == Is(i, {"init"}) /\ \A j \in 1..(i - 1) : Is(j, {"msg"})
Beside(i) == IF i > 1 THEN i - 1 ELSE i + 1
HarnessSender(i) ==
  IF test.params = 1 /\ Is(Beside(i), {"msg"}) /\ Step(Beside(i)).sender = Step(i).owner
  THEN Step(i).owner ELSE Nobody

\* The other test of a shared suite deploys with other arguments.
Hoisted(suite) == suite = "alone" /\ \E i \in Steps : Opening(i)
DefaultDeploy(suite) == ~Holds({"init"}) /\ (suite = "alone" \/ ~Holds({"deploy"}))

\* W11 pairs: the context behind a hoisted call whose sender setUp has set.
SkippedMsg(suite, i) ==
  /\ Hoisted(suite) /\ Is(i, {"msg"}) /\ Is(i - 1, {"init"}) /\ ~Paired(i - 2)
  /\ Step(i).sender # Nobody
  /\ \E k \in Steps : Opening(k) /\ HarnessSender(k) = Step(i).sender

Unset == [live |-> {}, at |-> [d \in Identities |-> Undeployed], subject |-> Nobody,
          prank |-> Nobody, value |-> 0, emit |-> Nobody, ret |-> 0, ok |-> TRUE]

Fail(f) == [f EXCEPT !.ok = FALSE]

\* factory.deployT: for the test contract only, and once at an address.
Create(f, d, owner) ==
  IF f.prank # Nobody \/ d \in f.live
  THEN Fail(f)
  ELSE [f EXCEPT !.live = @ \cup {d}, !.at[d] = Initialized(owner), !.subject = d]

\* setUp, and the default instance of a body that does not deploy its own.
SetUp(suite) ==
  CASE Hoisted(suite) -> LET k == CHOOSE i \in Steps : Opening(i)
                         IN [Create(Unset, "main", Step(k).owner) EXCEPT !.prank = HarnessSender(k)]
    [] DefaultDeploy(suite) -> Create(Unset, "main", Zero)
    [] OTHER -> Unset

-----------------------------------------------------------------------------
(***************************************************************************)
(* The test function, step by step.                                        *)
(***************************************************************************)
Context(f, step) ==
  [f EXCEPT !.prank = IF step.sender = Nobody THEN @ ELSE step.sender,
            !.value = IF step.value = 0 THEN @ ELSE step.value]

\* emit_det_initialize_then_prank assigns the entity's variable, not the
\* subject a `deploy` has bound.
DeployThenPrank(f) ==
  LET g == Create(f, "main", Step(pc + 1).owner)
  IN [g EXCEPT !.prank = Step(pc).sender,
               !.subject = IF \E i \in 1..(pc - 1) : Is(i, {"deploy"}) THEN f.subject ELSE @]

ForgeMsg(suite, f) ==
  CASE Paired(pc) /\ Hoisted(suite) -> f
    [] Paired(pc) /\ ~Hoisted(suite) -> DeployThenPrank(f)
    [] ~Paired(pc) /\ SkippedMsg(suite, pc) -> f
    [] OTHER -> Context(f, Step(pc))

\* A hoisted init call is left out, a paired one has been emitted.  Behind
\* expectRevert a deployment that succeeds fails the test.
ForgeInit(suite, f) ==
  IF Hoisted(suite) \/ Paired(pc - 1) THEN f
  ELSE IF Expects(pc, "throw") THEN Fail(f)
  ELSE [Create(f, "main", Step(pc).owner) EXCEPT !.value = 0]

\* The test contract has the value of the context, a pranked sender has
\* nothing; value for a function that is not payable does not compile.
\* expectRevert and expectEmit bind to the call.
ForgeCall(f) ==
  LET route == Step(pc).route
      at == f.at[f.subject]
      throws == Throws(route, at, IF f.prank = Nobody THEN Contract ELSE f.prank)
  IN IF \/ f.value > 0 /\ (~route.payable \/ f.prank # Nobody)
        \/ throws # Expects(pc, "throw")
        \/ f.emit # Nobody /\ (throws \/ f.emit \notin ToSet(route.emits))
     THEN Fail(f)
     ELSE [f EXCEPT !.at[f.subject] = IF throws THEN @ ELSE After(route, @, f.value),
                    !.value = 0, !.emit = Nobody, !.ret = at.count]

\* A return that is not collected behind its call is ignored, a throw always:
\* where it counts, the call has taken it.  A state is read wherever it stands.
ForgeCheck(f) ==
  LET step == Step(pc)
  IN CASE step.kind = "state" ->
            IF f.at[f.subject][step.member] = step.is THEN f ELSE Fail(f)
       [] step.kind = "return" /\ (\E i \in 1..(pc - 1) : Is(i, {"call"}) /\ pc \in Group(i)) ->
            IF f.ret = step.is THEN f ELSE Fail(f)
       [] OTHER -> f

\* Nothing is deployed at the zero address.
OnSubject(Run(_), f) == IF f.subject = Nobody THEN Fail(f) ELSE Run(f)

-----------------------------------------------------------------------------
(***************************************************************************)
(* The theorem, step by step.  goal is the conjunction of the expects so   *)
(* far; verdict is what a match arm has settled, if one has.               *)
(***************************************************************************)
Prefix == [at |-> [d \in Identities |-> Undeployed], active |-> "main", sender |-> Zero, value |-> 0,
           last |-> Nobody, emit |-> Nobody, result |-> 0, goal |-> TRUE, upto |-> 0, verdict |-> "open"]

TheoremMsg(t) ==
  [t EXCEPT !.sender = IF Step(pc).sender = Nobody THEN @ ELSE Step(pc).sender,
            !.value = IF Step(pc).value = 0 THEN @ ELSE Step(pc).value]

\* The init route is an ordinary call, of the instance calls go to.
TheoremInit(t) == [t EXCEPT !.at[t.active].owner = Step(pc).owner, !.value = 0]

TheoremDeploy(t) ==
  [t EXCEPT !.at[Step(pc).identity] = Initialized(Step(pc).owner), !.active = Step(pc).identity, !.value = 0]

\* The last event of the world answers an `expect emit`.
Flush(t) == [t EXCEPT !.emit = Nobody, !.goal = @ /\ (t.emit = Nobody \/ t.last = t.emit)]

\* The throw a guarded call is paired with: the next, whatever stands between,
\* but for another call.
Throw(i) ==
  { j \in Steps : /\ j > i /\ Is(j, {"throw"})
                  /\ \A k \in (i + 1)..(j - 1) : ~Is(k, {"throw", "call", "init", "deploy"}) }

\* Mutant: in the arm that meets the throw the call has been made.
ThrowArmCommits(t) ==
  IF \E j \in Throw(pc) : j \in Group(pc) /\ j < Len(test.body)
  THEN Flush([t EXCEPT !.value = 0, !.upto = CHOOSE j \in Throw(pc) : TRUE,
                       !.at[t.active] = After(Step(pc).route, @, 0)])
  ELSE [t EXCEPT !.verdict = "true"]

\* The arm of the expected error: the rest, from the old world, if the throw is
\* in the call's group and is not the last step; else it is all there is.
ThrowArm(t) ==
  IF \E j \in Throw(pc) : j \in Group(pc) /\ j < Len(test.body)
  THEN Flush([t EXCEPT !.value = 0, !.upto = CHOOSE j \in Throw(pc) : TRUE])
  ELSE [t EXCEPT !.verdict = "true"]

Called(t) ==
  LET route == Step(pc).route
  IN Flush([t EXCEPT !.at[t.active] = After(route, @, t.value), !.value = 0, !.result = t.at[t.active].count,
                     !.last = IF route.emits = << >> THEN @ ELSE Last(route.emits)])

TheoremCall(t) ==
  LET throws == Throws(Step(pc).route, t.at[t.active], t.sender)
      target == Step(pc).route.guarded /\ Throw(pc) # {}
  IN IF throws # target THEN [t EXCEPT !.verdict = "false"]
     ELSE IF throws THEN ThrowArm(t)
     ELSE Called(t)

\* `inst` is the default identity, whatever calls go to.
TheoremCheck(t) ==
  LET step == Step(pc)
  IN CASE step.kind = "state" -> [t EXCEPT !.goal = @ /\ t.at["main"][step.member] = step.is]
       [] step.kind = "return" -> [t EXCEPT !.goal = @ /\ t.result = step.is]
       [] OTHER -> t

-----------------------------------------------------------------------------
\* A test that has failed and a theorem that is settled stay so.
Both(Run(_, _), State(_)) ==
  /\ forge' = [s \in Suites |-> IF forge[s].ok THEN Run(s, forge[s]) ELSE forge[s]]
  /\ theorem' = IF theorem.verdict = "open" /\ pc > theorem.upto THEN State(theorem) ELSE theorem
  /\ pc' = pc + 1
  /\ UNCHANGED test

SetMsg == Is(pc, {"msg"}) /\ Both(ForgeMsg, TheoremMsg)
CallInit == Is(pc, {"init"}) /\ Both(ForgeInit, TheoremInit)
DeployPeer ==
  /\ Is(pc, {"deploy"})
  /\ Both(LAMBDA s, f : Create(f, Step(pc).identity, Step(pc).owner), TheoremDeploy)
Call == Is(pc, {"call"}) /\ Both(LAMBDA s, f : OnSubject(ForgeCall, f), TheoremCall)
ExpectEmit ==
  /\ Is(pc, {"emit"})
  /\ Both(LAMBDA s, f : [f EXCEPT !.emit = Step(pc).event], LAMBDA t : [t EXCEPT !.emit = Step(pc).event])
Expect == Is(pc, Assertions) /\ Both(LAMBDA s, f : OnSubject(ForgeCheck, f), TheoremCheck)

Init ==
  /\ test \in { t \in Tests : Accepted(t.body) }
  /\ pc = 1
  /\ forge = [s \in Suites |-> SetUp(s)]
  /\ theorem = Prefix

Next == SetMsg \/ CallInit \/ DeployPeer \/ Call \/ ExpectEmit \/ Expect

Spec == Init /\ [][Next]_vars

Passes(suite) == forge[suite].ok
Proves == theorem.verdict = "true" \/ (theorem.verdict = "open" /\ theorem.goal)

-----------------------------------------------------------------------------
(***************************************************************************)
(* Tests on which the targets part.                                        *)
(***************************************************************************)
Runs == {"call", "init", "deploy"}
Between(i, j, kinds) == \E k \in (i + 1)..(j - 1) : Is(k, kinds)

\* The sender some context has named by step i, and whether one has named a
\* value no call has used.
Named(i) == \E j \in 1..(i - 1) : Is(j, {"msg"}) /\ Step(j).sender # Nobody
Funded(i) == \E j \in 1..(i - 1) : Is(j, {"msg"}) /\ Step(j).value > 0 /\ ~Between(j, i, Runs)
Opened(i) == IF Paired(i - 1) THEN i - 1 ELSE i

\* Only EVM refuses: the factory serves no pranked sender, a pranked sender has
\* no funds, and a function that is not payable takes none.
DeploysUnderPrank == \E i \in Steps : Is(i, {"init", "deploy"}) /\ Named(Opened(i))
PaysUnfunded ==
  \E i \in Steps : Is(i, {"call"}) /\ Funded(i) /\ (Named(i) \/ ~Step(i).route.payable)

\* A value left over by an init call: in Lean it goes with that call.
ValueAcrossInit == \E i \in Steps : Is(i, {"init", "deploy"}) /\ Funded(Opened(i))

\* A second deployment at one address, and a call ahead of the first.
DeploysTwice(suite) ==
  \/ \E i, j \in Steps : i < j /\ Is(i, {"init", "deploy"}) /\ Is(j, {"init", "deploy"})
  \/ DefaultDeploy(suite) /\ \E i \in Steps : Is(i, {"deploy"}) /\ Step(i).identity = "main"
CallsFirst(suite) ==
  /\ ~DefaultDeploy(suite)
  /\ \E i, j \in Steps : i < j /\ Is(i, {"call"}) /\ Is(j, {"init", "deploy"})

\* Lean reads the state of the default identity, EVM of what calls go to.
ReadsOther ==
  \E i, j \in Steps : i < j /\ Is(i, {"deploy"}) /\ Step(i).identity = "other" /\ Is(j, {"state"})

\* Before any context the sender is the test contract on EVM and zero in Lean,
\* where it passes for the owner of an instance no init route has run on.
ZeroSender ==
  \E i \in Steps : /\ Is(i, {"call"}) /\ Step(i).route.guarded
                  /\ ~Named(i) /\ \A j \in 1..(i - 1) : ~Is(j, {"init", "deploy"})

\* A context whose sender setUp has set is skipped with its value.
LosesValue(suite) == \E i \in Steps : SkippedMsg(suite, i) /\ Step(i).value > 0

\* setUp hoists an init call of several arguments without its sender.
LosesSender(suite) ==
  Hoisted(suite) /\ test.params = 2 /\ \E i \in Steps : Opening(i) /\ Paired(i - 1)

\* Lean drops the throw that is expected of a route that has none, and takes
\* one that is expected behind a context; EVM ignores what stands there.
ThrowsNowhere ==
  \E j \in Steps : /\ Is(j, {"throw"})
                  /\ ~ \E i \in Steps : Is(i, {"call"}) /\ Step(i).route.guarded /\ j \in Throw(i)
LateExpect ==
  \E j \in Steps : /\ Is(j, {"throw", "return"})
                  /\ ~ \E i \in Steps : Is(i, {"call"}) /\ j \in Group(i)

\* Lean drops what is expected between a call and its throw, and with a throw
\* that comes last everything that was expected before.
DropsExpects ==
  \/ \E i \in Steps : /\ Is(i, {"call"})
                      /\ \E j \in Throw(i) \cap Group(i) : j > i + 1
  \/ theorem.verdict = "true" /\ (~theorem.goal \/ theorem.emit # Nobody)

\* EVM wants the event among those of the call, Lean as the world's last.
OtherEvent ==
  \E i \in Steps :
    /\ Is(i, {"emit"})
    /\ LET emits == Step(i + 1).route.emits
       IN IF Expects(i + 1, "throw") \/ emits = << >> THEN TRUE
          ELSE Step(i).event \in ToSet(emits) /\ Step(i).event # Last(emits)

Departs(suite) ==
  \/ DeploysUnderPrank \/ PaysUnfunded \/ ValueAcrossInit
  \/ DeploysTwice(suite) \/ CallsFirst(suite)
  \/ LosesSender(suite) \/ LosesValue(suite)
  \/ ReadsOther \/ ZeroSender \/ ThrowsNowhere \/ LateExpect \/ DropsExpects \/ OtherEvent

\* A test passes on Foundry exactly if its theorem holds, but for the tests
\* named above: "EVM is ground truth" (gen_test_fn, gen_test_theorem).
TestsAgree == Done => \A s \in Suites : (Passes(s) <=> Proves) \/ Departs(s)

\* Whether a test passes does not depend on the tests it shares a suite with:
\* what try_hoist_ctor_harness moves to setUp the body means as well.
SuitesAgree ==
  Done => \/ Passes("alone") <=> Passes("shared")
          \/ LosesSender("alone") \/ LosesValue("alone") \/ DeploysUnderPrank \/ ValueAcrossInit \/ ThrowsNowhere
          \/ \E s \in Suites : DeploysTwice(s) \/ CallsFirst(s)

\* LANGUAGE.md:1946-1949: on Lean "every `expect` that follows a `call` is kept
\* [...] and the theorem goal is their conjunction".
ExpectsKept == Done /\ Proves => theorem.goal
=============================================================================
