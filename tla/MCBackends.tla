----------------------------- MODULE MCBackends -----------------------------
(***************************************************************************)
(* What the targets compute of one program, seven machines side by side:   *)
(* the world a transaction leaves (LeanWorld), the value of an arithmetic  *)
(* operation (StdMath), the result of an iterator chain (IterChains), the  *)
(* outcome of a test (TestScripts), an invariant along a campaign          *)
(* (InvariantTraces), a run of an instance of a property                   *)
(* (PropertyInstances), and the value of a member's transform              *)
(* (ExprLowering).                                                         *)
(*                                                                         *)
(* The world has two instances: ia, whose only public route `main` is every *)
(* body of one or two statements in one phase and some of two phases, and   *)
(* ib, which ia may find deployed or not.  The words have four bits: every *)
(* pair and every triple of them.  The chains have up to three stages over *)
(* sources of up to three elements of two bits: what one stage drops or    *)
(* renumbers, a second sees and a third takes.  The tests are all bodies   *)
(* of up to four steps over two senders, an init call, two deployments and *)
(* four routes, one of them guarded, that the validator accepts: a context, *)
(* a deployment, a call and what is expected of it.  The invariants have   *)
(* up to two actions with up to two clauses, their checks and settings,    *)
(* and traces of up to four steps.  The properties have bodies of up to    *)
(* nine steps over words of two bits, with every draw and every sample of  *)
(* instances that bound, pin, add to them and leave them as they are.  The *)
(* expressions put every form into every other that takes it, over words   *)
(* of three bits, a narrower member and a narrower cast.                   *)
(***************************************************************************)
EXTENDS LeanWorld, StdMath

CONSTANTS ia, ib, out, Nobody

Helpers == {"check", "poke", "take", "bump", "pay", "deny", "back"}
MCRoutes == Helpers \cup {"main"}
MCOwner == [r \in MCRoutes |-> IF r \in {"main", "check", "poke", "take"} THEN ia ELSE ib]

emit1    == [op |-> "emit", tag |-> 1]
return   == [op |-> "return"]
throw    == [op |-> "throw"]
send(r)  == [op |-> "send", route |-> r, value |-> 0]
value(r) == [op |-> "send", route |-> r, value |-> 1]
invoke(r)  == [op |-> "call", route |-> r]
transfer == [op |-> "transfer", value |-> 1]
deploy   == [op |-> "deploy", to |-> ib]
extern(back) == [op |-> "extern", back |-> back]
if(then, else) == [op |-> "if", then |-> then, else |-> else]
for(body) == [op |-> "for", rounds |-> 2, body |-> body]

Simple == {emit1, throw, send("bump"), value("pay"), value("take"), send("deny"), send("back"),
           invoke("poke"), invoke("check"), transfer, deploy, extern({})}
Nested == {if(<<x>>, <<y>>) : x \in {emit1, send("bump"), throw}, y \in {emit1, invoke("poke")}}
          \cup {for(<<x>>) : x \in {send("back"), invoke("poke"), value("pay"), if(<<throw>>, << >>)}}
Odd == {return, extern({"poke"})}

Phase(tx, stmts) == [tx |-> tx, stmts |-> stmts]
Bodies ==
  LET all == Simple \cup Nested \cup Odd
  IN {<<Phase("inc", <<x, y>>)>> : x \in all, y \in all} \cup {<<Phase("keep", <<x>>)>> : x \in all}
     \cup {<<Phase("one", <<x>>), Phase("inc", <<y>>)>> : x \in all, y \in Simple}

\* The other routes.
Body == [check |-> <<Phase("keep", <<if(<<throw>>, << >>)>>)>>,
         poke  |-> <<Phase("inc", << >>)>>,
         take  |-> <<Phase("inc", << >>)>>,
         bump  |-> <<Phase("inc", << >>)>>,
         pay   |-> <<Phase("inc", << >>)>>,
         deny  |-> <<Phase("inc", <<if(<<throw>>, << >>)>>)>>,
         back  |-> <<Phase("inc", <<send("poke")>>)>>]

MCPrograms == {[r \in MCRoutes |-> IF r = "main" THEN body ELSE Body[r]] : body \in Bodies}

-----------------------------------------------------------------------------
W == 0..15
Exponents == 0..7
Binary(backend, ops) == { [backend |-> backend, op |-> o, x |-> a, y |-> b, z |-> 0] : o \in ops, a \in W, b \in W }
Powers(backend, ops) ==
  { [backend |-> backend, op |-> o, x |-> a, y |-> b, z |-> 0] : o \in ops, a \in W, b \in Exponents }
Triples(backend, ops, divisors) ==
  { [backend |-> backend, op |-> o, x |-> a, y |-> b, z |-> d] : o \in ops, a \in W, b \in W, d \in divisors }

MCCalls ==
  Binary("core", {"add", "sub", "mul", "div"}) \cup Triples("core", {"narrow"}, W)
    \cup UNION { Triples(carrier, {"muldiv"}, W) \cup Binary(carrier, {"divc", "divr"})
                   \cup Powers(carrier, {"pow", "modpow2"}) : carrier \in {"core", "evm", "lean"} }

-----------------------------------------------------------------------------
FromTo(from, to) == [shape |-> "range", from |-> from, to |-> to]
Items(items) == [shape |-> "vec", items |-> items]
Keys == <<2, 0, 1>>
Sources == {FromTo(1, 3), FromTo(0, 3), FromTo(2, 1), Items(<<3, 1, 0>>), Items(<<1, 2, 1>>), Items(<< >>),
            [shape |-> "map", keys |-> Keys, value |-> [k \in 0 .. 2 |-> (k + 2) % 4]]}

StageKinds == {[op |-> "iter"], [op |-> "enumerate"]}
              \cup {[op |-> "filter", by |-> p] : p \in {"odd", "first"}}
              \cup {[op |-> "map", by |-> f] : f \in {"dec", "sum"}}
              \cup {[op |-> "take", n |-> n] : n \in {1, 2}}
Some == UNION { [1 .. n -> StageKinds] : n \in 0 .. 3 }
Short == UNION { [1 .. n -> StageKinds] : n \in 0 .. 1 }
values == [op |-> "values"]

MCChains ==
  LET chains(sources, stages, terminators) == {[source |-> s, stages |-> g, end |-> t] : s \in sources, g \in stages, t \in terminators}
      ends == {[op |-> "collect"], [op |-> "fold"]}
  IN chains(Sources, Some, ends)
     \cup chains(Sources, {<<values>> \o g : g \in Short} \cup {<<[op |-> "iter"], values>>}, ends)
     \cup chains({[shape |-> "inner", keys |-> Keys]}, {<<[op |-> "keys"]>> \o g : g \in Short}, ends)
     \cup chains(Sources, Short, {[op |-> "for", by |-> f] : f \in {"dec", "sum"}})

VARIABLES chain, loop, idx, at, elem, taken, collected
Loops == INSTANCE IterChains WITH Chains <- MCChains, Word <- 3, result <- collected

ASSUME Loops!IterChainsAssumption

-----------------------------------------------------------------------------
Msg(sender, wei) == [kind |-> "msg", sender |-> sender, value |-> wei]
RouteCall(guarded, view, payable, emits) ==
  [kind |-> "call", route |-> [guarded |-> guarded, view |-> view, payable |-> payable, emits |-> emits]]
ExpectState(member, is) == [kind |-> "state", member |-> member, is |-> is]

TestSteps ==
  {Msg("alice", 0), Msg("bob", 0), Msg(Nobody, 1), Msg("alice", 1), [kind |-> "init", owner |-> "alice"]}
  \cup {[kind |-> "deploy", identity |-> d, owner |-> "alice"] : d \in {"main", "other"}}
  \cup {RouteCall(TRUE, FALSE, FALSE, <<"bumped", "counted">>), RouteCall(FALSE, FALSE, FALSE, <<"counted">>),
        RouteCall(FALSE, FALSE, TRUE, << >>), RouteCall(FALSE, TRUE, FALSE, << >>)}
  \cup {ExpectState("count", 0), ExpectState("count", 1), ExpectState("paid", 1), [kind |-> "throw"]}
  \cup {[kind |-> "return", is |-> n] : n \in {0, 1}} \cup {[kind |-> "emit", event |-> e] : e \in {"bumped", "counted"}}

\* A return is of a call that has one, an event of a call that writes, and a
\* context of something.
Typed(body) ==
  LET has(j, kinds) == j \in DOMAIN body /\ body[j].kind \in kinds
  IN \A k \in DOMAIN body :
       /\ has(k, {"msg"}) => k < Len(body)
       /\ has(k, {"emit"}) => has(k + 1, {"call"}) /\ ~body[k + 1].route.view
       /\ has(k, {"return"}) =>
            \E j \in 1 .. (k - 1) : /\ has(j, {"call"}) /\ body[j].route.view
                                    /\ ~ \E l \in (j + 1) .. (k - 1) : has(l, {"call", "init", "deploy"})

VARIABLES test, pc, forge, theorem
TestBodies == UNION { [1 .. n -> TestSteps] : n \in 1 .. 4 }
MCTests ==
  { t \in [params : {1, 2}, body : { b \in TestBodies : Typed(b) }] : t.params = 1 \/ Len(t.body) < 4 }
Scripts == INSTANCE TestScripts WITH Tests <- MCTests

ASSUME Scripts!TestsAssumption

-----------------------------------------------------------------------------
Assuming(c) == [kind |-> "assume", cond |-> c]
SkipIf(c) == [kind |-> "skip", cond |-> c]
Bound(lo, hi, inclusive) == [kind |-> "bound", lo |-> lo, hi |-> hi, inclusive |-> inclusive]
UpToCount(lo, inclusive) == [kind |-> "within", lo |-> lo, inclusive |-> inclusive]
Clauses == {Assuming("stocked"), Assuming("early"), Assuming("turns"), SkipIf("none"),
            Bound(1, 3, FALSE), UpToCount(1, TRUE), UpToCount(0, FALSE)}
UpTo(n) == UNION { [1 .. k -> Clauses] : k \in 0 .. n }

\* The attribute of this invariant, of another of the project, and a profile.
Failing == { [fail |-> f, elsewhere |-> FALSE, profile |-> "unset"] : f \in BOOLEAN }
           \cup {[fail |-> FALSE, elsewhere |-> TRUE, profile |-> "unset"], [fail |-> TRUE, elsewhere |-> FALSE, profile |-> "pass"]}
Invariant(body, checks, failing, time, senders, pinned) ==
  [body |-> body, checks |-> checks, fail |-> failing.fail, elsewhere |-> failing.elsewhere, profile |-> failing.profile,
   time |-> time, senders |-> senders, pinned |-> pinned]

MCDecls ==
  LET plain == [fail |-> FALSE, elsewhere |-> FALSE, profile |-> "unset"]
      turns == <<Assuming("turns")>>
  IN { Invariant([add |-> a, take |-> t], c, f, FALSE, {}, Nobody) :
         a \in UpTo(1), t \in UpTo(1), c \in {{"low"}, {"balanced"}, {"low", "short"}}, f \in Failing }
     \cup { Invariant([add |-> a, take |-> t], c, plain, FALSE, {}, Nobody) :
         a \in UpTo(1), t \in UpTo(2), c \in {{"low"}, {"balanced"}, {"low", "short"}} }
     \cup { Invariant([own |-> o, setup |-> << >>], c, f, FALSE, {}, p) :
         o \in {<< >>, turns}, c \in {{"low"}, {"short"}}, f \in Failing, p \in {Nobody, "owner"} }
     \cup { Invariant([own |-> o], c, f, FALSE, s, p) :
         o \in {<< >>, <<[kind |-> "advance"]>>, turns}, c \in {{"low"}, {"short"}}, f \in Failing,
         s \in SUBSET {"owner", "other"}, p \in {Nobody, "owner", "other"} }
     \cup { Invariant([add |-> a, stamp |-> << >>], c, plain, TRUE, {}, Nobody) :
         a \in {<< >>, turns, <<Assuming("early")>>}, c \in {{"timely"}, {"low", "short"}, {"timely", "low"}} }

VARIABLES decl, handler, claim, notes
Traces == INSTANCE InvariantTraces WITH Declarations <- MCDecls, Args <- {1, 3}, MaxTrace <- 4

ASSUME Traces!InvariantsAssumption

-----------------------------------------------------------------------------
Let(name, of) == [kind |-> "let", name |-> name, of |-> of]
Requires(c) == [kind |-> "assume", cond |-> c]
Invoke(route, of) == [kind |-> "call", route |-> route, of |-> of]
Count(of) == [kind |-> "state", of |-> of]
Holding(c) == [kind |-> "pred", cond |-> c]
Throwing == [kind |-> "throw"]

\* What stands in front of the first call, the call and what is expected of
\* it, and what comes then.
Fronts == {<< >>, <<Requires("x")>>, <<Requires("stocked")>>, <<Let("y", "x-1")>>,
           <<Let("y", "x-1"), Requires("y")>>, <<Requires("y"), Let("y", "x-1")>>,
           <<Let("y", "count"), Requires("y")>>, <<Let("y", "x-1"), Let("z", "y"), Requires("z")>>,
           <<Let("z", "count+x")>>, <<Let("y", "count"), Let("z", "y"), Requires("z"), Requires("x")>>}
Middles == {<<Invoke("add", "x")>>, <<Invoke("take", "x")>>, <<Invoke("add", "count")>>,
            <<Invoke("take", "x"), Throwing>>, <<Invoke("add", "x"), Count("x")>>,
            <<Invoke("add", "x"), Count("count+x")>>, <<Invoke("take", "count"), Holding("stocked")>>}
Backs == {<< >>, <<Requires("x"), Holding("stocked")>>, <<Let("y", "count"), Count("y")>>,
          <<Invoke("take", "x"), Count("count")>>, <<Let("y", "count"), Requires("y"), Invoke("add", "x"), Count("y")>>}

\* No let twice, and each before its use in a later step.
Scoped(b) ==
  LET lets(n) == { k \in DOMAIN b : b[k].kind = "let" /\ b[k].name = n }
  IN /\ \A n \in {"y", "z"} : \A j, k \in lets(n) : j = k
     /\ \A k \in DOMAIN b : \A n \in {"y", "z"} :
          /\ b[k].kind \in {"let", "call", "state"} /\ b[k].of = n => \E j \in lets(n) : j < k
          /\ b[k].kind = "pred" /\ b[k].cond = n => \E j \in lets(n) : j < k

PropertyBodies == { b \in { f \o m \o e : f \in Fronts, m \in Middles, e \in Backs } : Scoped(b) }

Keep == [is |-> "keep"]
Starred == [is |-> "any"]
Pinned(n) == [is |-> "pin", n |-> n]
Sampling(lo, hi, inclusive, also, start, sender) ==
  [kind |-> "fuzz", lo |-> lo, hi |-> hi, inclusive |-> inclusive, also |-> also, start |-> start, sender |-> sender]
Example(x, start, sender) == [kind |-> "test", x |-> x, start |-> start, sender |-> sender, also |-> {}]
Whole == Sampling(0, 3, TRUE, {}, Keep, "keep")

Declared(start, sender, worth, body, instance) ==
  [start |-> start, sender |-> sender, value |-> worth, body |-> body, instance |-> instance]

MCProperties ==
  { Declared(s, "none", 0, b, n) :
      s \in {[is |-> "none"], Pinned(1), [is |-> "param"], Starred}, b \in PropertyBodies,
      n \in {Whole, Sampling(1, 3, FALSE, {}, Keep, "keep"), Sampling(1, 1, TRUE, {}, Keep, "keep"),
             Sampling(0, 3, TRUE, {"x"}, Keep, "keep"), Sampling(2, 3, TRUE, {}, Pinned(2), "keep"),
             Sampling(2, 3, TRUE, {}, Starred, "keep"), Example(0, Keep, "keep"), Example(2, Keep, "keep"), Example(2, Pinned(2), "keep")} }
  \cup { Declared(Starred, s, v, b, n) :
      s \in {"none", "any", "owner", "other"}, v \in {0, 1},
      b \in { f \o m \o e : f \in {<< >>, <<Requires("mine")>>, <<Requires("x")>>},
                            m \in {<<Invoke("own", "none")>>, <<Invoke("own", "none"), Throwing>>, <<Invoke("pay", "none")>>},
                            e \in {<< >>, <<Invoke("pay", "none")>>, <<Invoke("own", "none"), Holding("stocked")>>} },
      n \in {Whole, Sampling(0, 3, TRUE, {"mine"}, Keep, "keep"), Sampling(0, 3, TRUE, {}, Keep, "owner"),
             Sampling(1, 2, TRUE, {}, Keep, "any"), Example(1, Keep, "keep"), Example(1, Pinned(1), "other")} }

VARIABLES run, line, harness, goal, parted
Cases == INSTANCE PropertyInstances WITH Properties <- MCProperties, Word <- 3

ASSUME Cases!PropertiesAssumption

-----------------------------------------------------------------------------
lit(n) == [op |-> "lit", n |-> n]
var(name) == [op |-> "var", name |-> name]
bin(op, a, b) == [op |-> op, l |-> a, r |-> b]
not(a) == [op |-> "!", e |-> a]
fit(a) == [op |-> "fit", e |-> a]
ite(c, a, b) == [op |-> "if", c |-> c, t |-> a, e |-> b]
match(on, a, b) == [op |-> "match", on |-> on, k |-> 1, t |-> a, e |-> b]
let(name, a, b) == [op |-> "let", name |-> name, be |-> a, in |-> b]
apply(f, a) == [op |-> "call", fn |-> f, e |-> a]
U == var("u")
V == var("v")
X == var("x")
Y == var("y")

\* Numbers that print inline, and numbers with statements.
Plain == {bin(o, U, V) : o \in {"+", "-", "*", "/", "%", "+%"}} \cup {bin("/", U, lit(2)), bin("-", V, lit(1))}
Nums == Plain \cup {apply("inc", U), apply("inv", V), U, fit(V), ite(bin("<", U, V), bin("-", V, U), U), match(var("n"), U, V)}
Lets == {let("y", a, bin(o, Y, V)) : a \in {U, bin("/", U, V), bin("+", U, V)}, o \in {"-", "/"}}
        \cup {match(var("n"), bin("/", V, U), U), match(U, bin("+", U, V), V)}

\* Conditions; a call, a cast or a comparison of what fails stands in none.
Tests == {bin("==", a, lit(1)) : a \in Plain} \cup {bin("<", U, V), not(bin("==", bin("/", U, V), lit(1)))}
Late == {bin("==", a, U) : a \in Lets}
Conds == Tests \cup {bin(o, a, b) : o \in {"&&", "||"}, b \in Tests \cup Late,
                                     a \in {bin("<", U, V), bin("==", V, lit(0)), bin("==", bin("/", U, V), lit(1))}}

MCExpressions ==
  Nums \cup Lets \cup Conds
  \cup {bin(o, a, b) : o \in {"+", "/", "+%"}, a \in Nums, b \in {U, fit(V), bin("/", U, V)} \cup Lets}
  \cup {ite(c, a, b) : c \in Conds, a \in {U, bin("/", U, V), let("y", bin("-", U, V), bin("+", Y, U))},
                       b \in {lit(1), bin("+", U, V)}}
  \cup {match(o, a, b) : o \in {U, var("n"), bin("/", U, V)}, b \in {U, bin("-", U, V)} \cup Lets,
                         a \in {lit(2), bin("*", U, V), let("y", V, bin("-", Y, U))}}
  \cup {let("x", a, b) : a \in Nums \cup Lets, b \in {bin("-", U, X), bin("/", X, V), ite(bin("<", U, X), X, bin("+", X, U))}}
  \cup {let("x", lit(1), b) : b \in {bin("+", X, X), bin("+", X, U), let("y", bin("+", X, V), bin("+", Y, Y)),
                                     match(X, bin("+", U, V), U)}}
  \cup {fit(a) : a \in Plain} \cup {apply("inv", a) : a \in Lets \cup Plain}

VARIABLES source, inputs, code, locals, outcome
Exprs == INSTANCE ExprLowering WITH Expressions <- MCExpressions, Word <- 8, Half <- 4, Byte <- 2, Values <- {0, 1, 2, 7}

ASSUME Exprs!ExprAssumption

-----------------------------------------------------------------------------
VARIABLE part

loops == <<chain, loop, idx, at, elem, taken, collected>>
scripts == <<test, pc, forge, theorem>>
campaign == <<decl, handler, claim, notes>>
cases == <<run, line, harness, goal, parted>>
lowering == <<source, inputs, code, locals, outcome>>
all == <<part, vars, mathVars, loops, scripts, campaign, cases, lowering>>

\* Each behaviour is of one machine; the others rest.
SomeProgram == CHOOSE p \in MCPrograms : TRUE
Empty == [storage |-> [j \in Instances |-> 0], deployed |-> [j \in Instances |-> TRUE],
          balance |-> [x \in Instances \cup {Outside} |-> 0], events |-> << >>]

BInit ==
  /\ part \in {"world", "math", "loops", "tests", "traces", "cases", "exprs"}
  /\ \/ part = "world" /\ Init
     \/ part # "world" /\ program = SomeProgram /\ lean = Empty /\ evm = Empty /\ why = [lean |-> "none", evm |-> "none"]
  /\ \/ part = "math" /\ MathInit
     \/ part # "math" /\ call = << >> /\ stage = "start" /\ rem = 0 /\ quot = 0 /\ i = 0 /\ result = 0
  /\ \/ part = "loops" /\ Loops!Init
     \/ part # "loops" /\ chain = << >> /\ loop = "rest" /\ idx = 0 /\ at = 1 /\ elem = << >> /\ taken = 0 /\ collected = 0
  /\ \/ part = "tests" /\ Scripts!Init
     \/ part # "tests" /\ test = << >> /\ pc = 0 /\ forge = << >> /\ theorem = << >>
  /\ \/ part = "traces" /\ Traces!Init
     \/ part # "traces" /\ decl = << >> /\ handler = << >> /\ claim = << >> /\ notes = {}
  /\ \/ part = "cases" /\ Cases!Init
     \/ part # "cases" /\ run = << >> /\ line = 0 /\ harness = << >> /\ goal = << >> /\ parted = {}
  /\ \/ part = "exprs" /\ Exprs!Init
     \/ part # "exprs" /\ source = << >> /\ inputs = << >> /\ code = << >> /\ locals = << >> /\ outcome = << >>

Transacting == part = "world" /\ Next /\ UNCHANGED <<part, mathVars, loops, scripts, campaign, cases, lowering>>
Computing == part = "math" /\ MathNext /\ UNCHANGED <<part, vars, loops, scripts, campaign, cases, lowering>>
Looping == part = "loops" /\ Loops!Next /\ UNCHANGED <<part, vars, mathVars, scripts, campaign, cases, lowering>>
Testing == part = "tests" /\ Scripts!Next /\ UNCHANGED <<part, vars, mathVars, loops, campaign, cases, lowering>>
Campaigning == part = "traces" /\ Traces!Next /\ UNCHANGED <<part, vars, mathVars, loops, scripts, cases, lowering>>
Lowering == part = "exprs" /\ Exprs!Next /\ UNCHANGED <<part, vars, mathVars, loops, scripts, campaign, cases>>
Instantiating == part = "cases" /\ Cases!Next /\ UNCHANGED <<part, vars, mathVars, loops, scripts, campaign, lowering>>

BNext == Transacting \/ Computing \/ Looping \/ Testing \/ Campaigning \/ Instantiating \/ Lowering

BSpec == BInit /\ [][BNext]_all

-----------------------------------------------------------------------------
\* The transform of a member computes the documented value of its expression,
\* or fails with it, as Solidity's statements and as the Lean term
\* (gen_expr_hoisted, gen_expr_as_route_result), but for the departures
\* ExprLowering names.
TermsAsDocumented == part = "exprs" => Exprs!EvmMeans /\ Exprs!LeanMeans

\* The fused loop of a chain computes what the list functions of the Lean
\* target do, and fails only where a closure leaves the word (lower_iter_chain,
\* gen_for_loop), but for the departures IterChains names.
LoopsMeanLists == part = "loops" => Loops!LoopsMeanLists

\* A test passes on Foundry exactly if its theorem holds, and in a suite of
\* its own exactly if in a shared one (gen_test_fn, try_hoist_ctor_harness,
\* gen_test_theorem); and a campaign of handler calls stands exactly if the
\* invariant's theorem holds of their trace (gen_invariant_file,
\* build_invariant_theorem); and each run of an instance of a property is a
\* case of its theorem (desugar_properties, gen_fuzz_fn, gen_property_theorem):
\* but for what TestScripts, InvariantTraces and PropertyInstances name.
HarnessesMean ==
  /\ part = "tests" => Scripts!TestsAgree /\ Scripts!SuitesAgree
  /\ part = "traces" => Traces!TracesAgree
  /\ part = "cases" => Cases!InstancesAgree

\* LANGUAGE.md:1946-1949: on Lean "every `expect` that follows a `call` is kept
\* [...] and the theorem goal is their conjunction": what is proved entails
\* what the test has expected on the way.
ExpectsKept == part = "tests" => Scripts!ExpectsKept
=============================================================================
