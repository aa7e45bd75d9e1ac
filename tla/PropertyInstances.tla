------------------------- MODULE PropertyInstances -------------------------
(***************************************************************************)
(* A `property` on the two targets that take it: as the theorem            *)
(* gen_property_theorem states of every value of what it quantifies, and   *)
(* as the test functions that desugar_properties, gen_fuzz_fn and          *)
(* gen_test_fn make of its instances.  Each behaviour is one run of one    *)
(* instance, and the theorem at the values this run ends up with.          *)
(*                                                                         *)
(* The property has one parameter, x, of Word + 1 values.  The entity has  *)
(* an owner and a count, to which `pay` adds what the call is worth.  A    *)
(* route is given its argument as a term; a term over a member names the   *)
(* count.                                                                  *)
(***************************************************************************)
EXTENDS Integers, Sequences, SequencesExt

CONSTANTS Properties,  \* the properties considered, each with one instance
          Word         \* the largest value of a word

Accounts == {"owner", "other"}
Expectations == {"state", "pred", "throw"}

VARIABLES run,      \* the property, the instance's draw and sample; never changes
          line,     \* 0 before the prefix, then the step of the property's body
          harness,  \* the test function, as executed so far
          goal,     \* the theorem at the values of this run
          parted    \* history: what has happened on which the targets part

vars == <<run, line, harness, goal, parted>>

Prop == run.prop
Inst == run.prop.instance
Body == run.prop.body

-----------------------------------------------------------------------------
(***************************************************************************)
(* Terms and conditions.                                                   *)
(***************************************************************************)
\* In whole numbers: Solidity panics on what is no word, BitVec wraps it.
Exact(term, x, lets, count) ==
  CASE term = "none" -> 0
    [] term = "x" -> x
    [] term = "x-1" -> x - 1
    [] term = "count" -> count
    [] term = "count+x" -> count + x
    [] term \in DOMAIN lets -> lets[term]

Fits(n) == n \in 0 .. Word
Wrapped(n) == n % (Word + 1)

OfMember == {"count", "count+x"}

Cond(cond, x, lets, count, sender) ==
  CASE cond = "x" -> x # 0
    [] cond = "stocked" -> x <= count
    [] cond = "mine" -> sender = "owner"
    [] cond \in DOMAIN lets -> lets[cond] # 0

Unbound == [y |-> 0, z |-> 0]

\* What a route makes of the count; it throws where it is not owned or paid,
\* and where the count is no word.
After(route, arg, count, value) ==
  CASE route = "add" -> count + arg
    [] route = "take" -> count - arg
    [] route = "own" -> count + 1
    [] route = "pay" -> count + value

Throws(route, arg, count, sender, value) ==
  \/ route = "own" /\ sender # "owner"
  \/ route = "pay" /\ value = 0
  \/ ~Fits(After(route, arg, count, value))

Kinds(body, kinds) == { i \in DOMAIN body : body[i].kind \in kinds }
Is(i, kinds) == i \in Kinds(Body, kinds)

\* The lets that assumes need, and those that these need, in conds as well.
Hoisted(body, conds) ==
  LET lets == { body[i] : i \in Kinds(body, {"let"}) }
      direct == { s.name : s \in { s \in lets : s.name \in conds \cup { body[i].cond : i \in Kinds(body, {"assume"}) } } }
  IN direct \cup { s.of : s \in { s \in lets : s.name \in direct /\ s.of \in DOMAIN Unbound } }

-----------------------------------------------------------------------------
(***************************************************************************)
(* desugar_properties.                                                     *)
(***************************************************************************)
\* An instance's pin wins, a `*` of its own does not over a pin.
From(p) ==
  CASE p.instance.start.is = "pin" -> p.instance.start
    [] p.instance.start.is = "any" /\ p.start.is = "none" -> p.instance.start
    [] OTHER -> p.start

By(p) == IF p.instance.sender = "keep" THEN p.sender ELSE p.instance.sender

Sampled(p) == p.instance.kind = "fuzz" /\ From(p).is = "any"

\* A `*` that a test cannot sample leaves the member its default, and the
\* sender the test contract.
Senders(p) ==
  CASE By(p) = "any" /\ p.instance.kind = "fuzz" -> Accounts
    [] By(p) = "none" \/ (By(p) = "any" /\ p.instance.kind = "test") -> {"contract"}
    [] OTHER -> {By(p)}

Allowed(inst) == IF inst.inclusive THEN inst.lo .. inst.hi ELSE inst.lo .. (inst.hi - 1)

\* T31 and T5: a range has a value, and what expects stands behind a call.
Accepted(p) ==
  /\ p.instance.kind = "fuzz" => Allowed(p.instance) # {}
  /\ Kinds(p.body, {"call"}) # {}
  /\ \A i \in Kinds(p.body, Expectations) : \E j \in Kinds(p.body, {"call"}) : j < i

\* Solidity knows the member's name only as the parameter its `*` has become,
\* a test's bindings only behind the state it starts from, and value of
\* payable routes.
Compiles(p) ==
  /\ \A i \in Kinds(p.body, {"let", "call", "state"}) : p.body[i].of \in OfMember => Sampled(p)
  /\ p.instance.kind = "fuzz" =>
       ("stocked" \in p.instance.also \cup { p.body[i].cond : i \in Kinds(p.body, {"assume"}) } => Sampled(p))
  /\ From(p).is = "param" => p.instance.kind = "fuzz"
  /\ p.value # 0 => \E i \in Kinds(p.body, {"call"}) :
                      p.body[i].route = "pay" /\ \A j \in Kinds(p.body, {"call"}) : i <= j

\* A throw is expected right behind its call, and nothing of an earlier one:
\* TestScripts has what becomes of the rest.  No predicate is on the sender.
PropertiesAssumption ==
  \A p \in Properties :
    /\ \A i \in Kinds(p.body, {"throw"}) : /\ i - 1 \in Kinds(p.body, {"call"})
                                         /\ ~ \E j \in Kinds(p.body, Expectations) : j < i
    /\ \A i \in Kinds(p.body, {"pred"}) : p.body[i].cond # "mine"

-----------------------------------------------------------------------------
(***************************************************************************)
(* The test function.                                                      *)
(***************************************************************************)
Fuzz == Inst.kind = "fuzz"

\* An auto-derived or nested instance has no conditions of its own, one linked
\* by #[instantiates] may.
Preconditions == IF Fuzz THEN Inst.also \cup { Body[i].cond : i \in Kinds(Body, {"assume"}) } ELSE {}
Early == IF Fuzz THEN Hoisted(Body, Inst.also) ELSE {}

Failed(h) == [h EXCEPT !.status = "failed"]

\* Mutant: what a `*` samples is drawn, and not put into the state.
StoredDefault ==
  CASE From(Prop).is = "pin" -> From(Prop).n
    [] From(Prop).is = "param" -> run.drawn
    [] OTHER -> 0

\* gen_state_init: a pin that is the parameter stores the draw.
Stored ==
  CASE From(Prop).is = "pin" -> From(Prop).n
    [] From(Prop).is = "param" -> run.drawn
    [] From(Prop).is = "any" -> run.sample
    [] From(Prop).is = "none" -> 0

Assign(h, step) ==
  LET n == Exact(step.of, h.x, h.lets, run.sample)
  IN IF Fits(n) THEN [h EXCEPT !.lets[step.name] = n] ELSE Failed(h)

Hoist(h) ==
  FoldLeft(LAMBDA g, s : IF s.kind = "let" /\ s.name \in Early /\ g.status = "going" THEN Assign(g, s) ELSE g, h, Body)

\* What is drawn out of the range, forge-std's bound moves into it.
Narrow(h) == [h EXCEPT !.x = run.x]

\* msg::sender is here whoever runs the test.
Assume(h) ==
  IF h.status = "going" /\ ~ \A c \in Preconditions : Cond(c, h.x, h.lets, run.sample, "runner")
  THEN [h EXCEPT !.status = "rejected"] ELSE h

Entry ==
  [x |-> run.drawn, lets |-> Unbound, count |-> Stored, sender |-> run.sender, value |-> Prop.value, status |-> "going"]

\* Mutant: the assumes are asked of the draw.
PrefixAssumesFirst == Narrow(Assume(Hoist(Entry)))

Prefix == Assume(Narrow(Hoist(Entry)))

\* collect_post_call_assertions: assumes are steps that end the group, those of
\* a test are gone.
InGroup(i) ==
  \E c \in Kinds(Body, {"call"}) : c < i /\ \A j \in (c + 1) .. i : Is(j, Expectations) \/ (~Fuzz /\ Is(j, {"assume"}))

CallOn(h, step) ==
  LET arg == Exact(step.of, h.x, h.lets, run.sample)
      bad == Throws(step.route, arg, h.count, h.sender, h.value)
  IN CASE ~Fits(arg) -> Failed(h)
       [] Fits(arg) /\ bad # Is(line + 1, {"throw"}) -> Failed(h)
       [] Fits(arg) /\ bad /\ Is(line + 1, {"throw"}) -> [h EXCEPT !.value = 0]
       [] Fits(arg) /\ ~bad /\ ~Is(line + 1, {"throw"}) ->
            [h EXCEPT !.count = After(step.route, arg, @, h.value), !.value = 0]

Execute(h, step) ==
  CASE step.kind = "let" -> IF step.name \in Early THEN h ELSE Assign(h, step)
    [] step.kind = "call" -> CallOn(h, step)
    [] step.kind = "state" ->
         IF h.count = Exact(step.of, h.x, h.lets, run.sample) THEN h ELSE Failed(h)
    [] step.kind = "pred" ->
         IF InGroup(line) => Cond(step.cond, h.x, h.lets, h.count, h.sender) THEN h ELSE Failed(h)
    [] step.kind \in {"assume", "throw"} -> h

-----------------------------------------------------------------------------
(***************************************************************************)
(* The theorem, where each quantified variable has the value of this run:  *)
(* nothing of the instance is in it.                                       *)
(***************************************************************************)
Quantified ==
  [x |-> run.x, lets |-> Unbound,
   count |-> CASE Prop.start.is = "pin" -> Prop.start.n
               [] Prop.start.is = "param" -> run.x
               [] Prop.start.is = "any" -> IF From(Prop).is = "pin" THEN From(Prop).n ELSE run.sample
               [] Prop.start.is = "none" -> 0,
   sender |-> CASE Prop.sender = "none" -> "zero"
                [] Prop.sender = "any" -> run.sender
                [] Prop.sender \in Accounts -> Prop.sender,
   status |-> "going"]

\* A member's name is the member of the state at hand.
Bind(c, step) == [c EXCEPT !.lets[step.name] = Wrapped(Exact(step.of, c.x, c.lets, c.count))]

Hypotheses ==
  LET c == FoldLeft(LAMBDA d, s : IF s.kind = "let" /\ s.name \in Hoisted(Body, {}) THEN Bind(d, s) ELSE d,
                    Quantified, Body)
  IN IF \A i \in Kinds(Body, {"assume"}) : Cond(Body[i].cond, c.x, c.lets, c.count, c.sender)
     THEN c ELSE [c EXCEPT !.status = "vacuous"]

False(c) == [c EXCEPT !.status = "false"]

\* The context keeps its value for every call.
CallIn(c, step) ==
  LET arg == Wrapped(Exact(step.of, c.x, c.lets, c.count))
      bad == Throws(step.route, arg, c.count, c.sender, Prop.value)
  IN CASE bad # Is(line + 1, {"throw"}) -> False(c)
       [] bad /\ Is(line + 1, {"throw"}) -> c
       [] ~bad /\ ~Is(line + 1, {"throw"}) -> [c EXCEPT !.count = After(step.route, arg, @, Prop.value)]

Lower(c, step) ==
  CASE step.kind = "let" -> IF step.name \in Hoisted(Body, {}) THEN c ELSE Bind(c, step)
    [] step.kind = "call" -> CallIn(c, step)
    [] step.kind = "state" ->
         IF c.count = Wrapped(Exact(step.of, c.x, c.lets, c.count)) THEN c ELSE False(c)
    [] step.kind = "pred" ->
         IF Cond(step.cond, c.x, c.lets, c.count, c.sender) THEN c ELSE False(c)
    [] step.kind \in {"assume", "throw"} -> c

-----------------------------------------------------------------------------
(***************************************************************************)
(* Where the targets part.                                                 *)
(***************************************************************************)
BeforeBody ==
  LET raw == Hoist(Entry)
      narrowed == Hoist(Narrow(Entry))
  IN { n \in {"drawn", "panicked", "runner", "presumed", "elsewhere"} :
         CASE n = "drawn" ->      \* the pins and the hoisted lets come before the bounds
                run.x # run.drawn /\ (From(Prop).is = "param" \/ raw.lets # narrowed.lets)
           [] n = "panicked" ->   \* Solidity checks what BitVec wraps
                raw.status = "failed"
           [] n = "runner" ->     \* an assume on msg::sender does not ask for the context's
                \E i \in Kinds(Body, {"assume"}) : Fuzz /\ Body[i].cond = "mine" /\ Hypotheses.sender = "owner"
           [] n = "presumed" ->   \* a test does not ask at all
                ~Fuzz /\ Hypotheses.status = "vacuous"
           [] n = "elsewhere" ->  \* the instance does not start where the property pins it
                \/ Inst.start.is # "keep" /\ Prop.start.is # "any"
                \/ Inst.sender # "keep" /\ Prop.sender # "any" }

AtStep(step) ==
  { n \in {"panicked", "reread", "spent", "orphaned"} :
      CASE n = "panicked" ->
             /\ step.kind \in {"let", "call", "state"}
             /\ ~Fits(Exact(step.of, harness.x, harness.lets, run.sample))
        [] n = "reread" ->    \* a member's name is its sample, or the member as it is now
             step.kind \in {"let", "call", "state"} /\ step.of \in OfMember /\ run.sample # goal.count
        [] n = "spent" ->     \* the context's value is of the first call, or of each
             step.kind = "call" /\ step.route = "pay" /\ harness.value # Prop.value
        [] n = "orphaned" ->  \* a predicate away from its call is dropped, and its theorem has it
             step.kind = "pred" /\ ~InGroup(line) }

-----------------------------------------------------------------------------
Draws(p) == IF p.instance.kind = "test" THEN {p.instance.x} ELSE 0 .. Word

\* What is drawn in the range stays.
Init ==
  \E p \in { p \in Properties : Accepted(p) /\ Compiles(p) } :
    \E drawn \in Draws(p), x \in Draws(p),
       sample \in (IF Sampled(p) THEN 0 .. Word ELSE {0}), sender \in Senders(p) :
      /\ p.instance.kind = "fuzz" => x \in Allowed(p.instance) /\ (drawn \in Allowed(p.instance) => x = drawn)
      /\ run = [prop |-> p, drawn |-> drawn, x |-> x, sample |-> sample, sender |-> sender]
      /\ line = 0 /\ harness = << >> /\ goal = << >> /\ parted = {}

Begin ==
  /\ line = 0
  /\ harness' = Prefix /\ goal' = Hypotheses /\ parted' = BeforeBody
  /\ line' = 1
  /\ UNCHANGED run

TakeStep ==
  /\ line \in DOMAIN Body
  /\ harness' = IF harness.status = "going" THEN Execute(harness, Body[line]) ELSE harness
  /\ goal' = IF goal.status = "going" THEN Lower(goal, Body[line]) ELSE goal
  /\ parted' = parted \cup AtStep(Body[line])
  /\ line' = line + 1
  /\ UNCHANGED run

Next == Begin \/ TakeStep

Spec == Init /\ [][Next]_vars

-----------------------------------------------------------------------------
\* Every run of an instance is a case of the property's theorem: it passes
\* where the theorem holds, fails where it does not, and rejects what the
\* theorem's hypotheses exclude, or a linked instance's own, but for what
\* parted names (desugar_properties, gen_fuzz_fn, gen_property_theorem).
InstancesAgree ==
  line > Len(Body) /\ parted = {} =>
    CASE harness.status = "going" -> goal.status = "going"
      [] harness.status = "failed" -> goal.status = "false"
      [] harness.status = "rejected" ->
           \/ goal.status = "vacuous"
           \/ ~ \A c \in Inst.also : Cond(c, harness.x, harness.lets, run.sample, "runner")
=============================================================================
