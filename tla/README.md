# A TLA+ model of the Cambrian compiler

Cambrian is a language for smart contracts. An *entity* has state members and
routes; a member says, per route, how its value changes (a *transform*), and a
route says what it does besides (its *statements*). The compiler in
`cambrian-transpiler` checks a program and emits Solidity and Lean.

What makes the compiler hard to trust is less a parser or a table than the
distance between two notions of time. In Cambrian all transforms of a phase
read the state the phase began with and happen at once. In Solidity there is one
storage, assignments happen one after another, a call in the middle may enter
the contract again, and a failure takes back what its own call has done. In Lean
there is no storage at all, but a world handed from one term to the next. The
emitted order of reads, temporaries, writes and calls has to hide that on both
targets, and the first half of this project is about whether it does. The second
half is about the compiler's own machines: graph walks, fixpoints, the loader,
error recovery, the storage layout, the arithmetic it emits.

Paths below are relative to `cambrian-transpiler/src` unless they start
otherwise.

## 1. Inventory

| Component | Source | State | Operations | Status |
|---|---|---|---|---|
| Route execution on EVM | `codegen/solidity/evm/route.rs`, `emitter.rs` | contract storage, locals of each call frame, the call stack | compute, flush, snapshot, commit, call, return, revert, re-enter | partly: a push into another member's Vec is left out |
| Mapping lowering | `evm/transform.rs`, sidecars declared in `evm/entity.rs` | the mapping, `_exists`, `_keys`, `_keys_index` | insert/update, nested update, remove, reset | partly: `_inner_exists` is left out |
| Temporal order | `analysis/temporal.rs`, `ir/lower.rs` | in-degrees, queue, result | Kahn's algorithm, V3 | modelled |
| Route IR | `ir/` | phases and statements | lowering | partly: as input of the route modules |
| Deterministic deployment | `evm/factory.rs`, `route.rs` (constructors, `initialize`) | accounts, `isDeployed`, `_initialized`, members | deploy, construct, initialize, register, re-enter, revert | partly: addresses are one slot per identity |
| Dependency graphs | `graph.rs`, `analysis/graphs.rs`, `pure_order.rs` | visit states, stack, low-links | DFS order, Tarjan, condensation, cycle report | partly: the edges are data |
| Route facts | `analysis/route_facts.rs`, `send_target.rs`, `codegen/lean/fail.rs` | a set of routes that can fail | fixpoint over calls, fail modes, lowering of a call | partly: no read-only facts |
| Loader | `project.rs` | queue, seen files, merged program | import, tag, parse, merge | partly: no catalogue stems |
| Error recovery | `parse_recover.rs` | position, errors | parse, skip, resume | partly: the grammar is generated |
| Predictor and runtime arithmetic | `cambrian-core/src/lib.rs`, `codegen/solidity/core/pure.rs`, the Lean prelude | accumulators | 256-bit operations, `muldiv`, `divc`, `divr`, `pow` | partly: unsigned, small width |
| Storage layout | `codegen/storage_layout.rs` | slot, byte offset | place a member, a record, an enum, an Option, a sidecar | modelled |
| Lean backend | `codegen/lean/route.rs`, `evm/send.rs`, `evm/world.rs` | the world, a local state | transform, write back, send, deploy, loop, return, throw | partly: world-threaded routes |
| Iterator chains | `codegen/solidity/core/iter.rs` and their Lean terms | loop index, accumulators | map, filter, take, enumerate, rev, fold, collect | partly: see `IterChains` |
| Expressions | `codegen/solidity/core/expr.rs`, `types.rs`, `codegen/lean/expr.rs` | statements, locals and their types; bound operations | hoist, infer, narrow; bind, keep total | partly: unsigned numbers |
| Test and invariant generation | `codegen/evm_test_codegen.rs`, `desugar.rs`, `lean/evm/spec_steps.rs`, `test.rs`, `invariant.rs`, `property.rs` | words seeded; prank, pending value, subject, world and goal so far; trace counters, accumulator, clocks; a draw, the lets and the case of a theorem | seed, hoist to `setUp`, step through a body, a handler call, an action of a trace, the prefix and steps of a fuzz function | partly: no invariants of several entities |
| Validator and what looks for things in a program | `validate/`, the rewrites of `ast.rs` and `using`, the scans of `codegen/` | none; for names, the scope so far; for a walk, where it is | some 150 rules, and as many walks over the syntax | partly: names of a route, how far forty walks look, and what other modules need |
| Parser grammar, other desugaring, CLI, diagnostics | see `PROJECT.json` | none over time | tree rewriting, input and output | not modelled |

How they meet: the loader hands one merged program to the validator and to
`analysis`; `build_temporal_orders` gives each route an order of its members;
`ir/lower.rs` sorts every phase's transforms by it; `emit_transforms_sol_split`
emits a phase in that order, calling `gen_mapping_transform_split` for
mappings; `gen_ir_stmt_evm` emits the statements behind the commits. `dfs_topo`
orders type declarations and pure functions, Tarjan's components order what the
Lean backend declares, and the closure of failing routes decides whether a Lean
route returns a value or an `Except`. The test generator recomputes the layout
solc will give the contract, and renders a `test` twice, as a Foundry function and as a Lean theorem, an `invariant` as a Foundry handler
and as a theorem of all traces, and a `property` as a theorem and as a fuzz or test function for each of its instances. At run time the emitted functions share the
contract's storage, and a send, a `var`-call or a deploy hands control to code
nobody has seen.

Hard behaviour, and what a correct component owes:

* *Ordering.* A transform must not read what another one of its phase has
  written, unless it says so with `^`. Writes are deferred to make that so, but
  not all of them: pushes, mapping transforms in a scope of their own, and
  flushes happen early, and the branches of an `if` are evaluated late.
* *Stale or fresh.* Statements run behind the commits, but their arguments are to
  show the phase's start; they are snapshotted before the commits. In Lean a route
  holds a local copy of its state, which must be written back before control
  leaves and read anew behind it.
* *Interleaving.* There is no re-entrance guard. What is promised is that foreign
  code sees storage between phases, never inside one; and that a deployment is
  registered only when it is complete.
* *Failure.* A failure at any point takes back everything since the failing call
  was entered, and nothing else; internal calls fail with their caller. A failed
  deployment leaves neither account nor registration. A file that does not parse
  lets the others be diagnosed but no program come out.
* *Sequences of legal calls.* Insertions and removals keep four storage
  variables of a mapping in step.
* *Walks written by hand.* Each rule, rewrite and scan has a walk of its own over the syntax. What one of them does not
  enter is neither rejected, replaced nor provided for, and no two of them agree on what that is.
* *Cycles.* The sort, the walks and the fixpoint must end, report exactly the
  stuck members, and give the same result in every run although they walk hash maps.
* *Two backends.* What the Solidity does and what the Lean term says must be the same,
  for routes, loops, failures and arithmetic: the proofs a user writes are about the term.
* *Limits.* Carries, rounding and overflow at the largest word; bytes of a slot at 32.

`PROJECT.json` lists forty hazards at their lines, with the properties that would catch each, and a note where they
catch a part of it or none. Five more are described in section 4,
next to the definition that shows each: a repeated transform of one member
(`route.rs:72`), defaults assigned behind the init route's actions (`route.rs:2786`), a
phased parameterless init route (`route.rs:2890`), the order of a cycle (`graph.rs:34`),
and a slice that may begin inside a character (`parse_recover.rs:33`).

## 2. Modules

```
PhaseProgram ──┬── AtomicPhases   (what a phase promises)
               │        ▲ refinement
               └── RouteExec ──── MCPhaseShapes, MCReentrancy, MCOrderingClaims
                        │
                 RouteExecProofs

TemporalOrder ── MCTemporalOrder, TemporalOrderProofs      (instances PhaseProgram)

Deployment ── MCDeployment, DeploymentProofs

EnumerableMap ◄─refinement─ HashMapSidecar ──┐
                  │      Resets ─────────────┼── MCMembers
     HashMapSidecarProofs (and Resets)       │
     LayoutProofs ── StorageLayout ──────────┘

     AnalysisProofs ┬─ DfsOrder ─────────────┐
                    ├─ Components ───────────┼── MCAnalysis
                    └─ FailClosure, FailModes┘

     LoaderProofs ── Loader ─────────────────┬── MCFrontEnd
                  ParseRecovery ─────────────┤
                  Scoping ───────────────────┤
     Syntax ── Ways ─────────────────────────┤
          └─ RuleWalks ── UseWalks ── Walks ─┘

                  LeanWorld ─────────────────┐
     StdMathProofs ── StdMath ───────────────┼── MCBackends
                  IterChains ────────────────┤
                  TestScripts ───────────────┤
                  InvariantTraces ───────────┤
                  PropertyInstances ─────────┤
                  ExprLowering ──────────────┘
```

The four modules on the right put independent machines side by side: `part`, chosen by
Init and never changed, names the machine that a behaviour runs. Each property is
that of one machine, with `part` as its guard; nothing is shared between machines. MCAnalysis extends its three modules, MCMembers
extends HashMapSidecar, Resets and StorageLayout, and MCBackends StdMath, so that what they check and what the proof modules prove are the same definitions; that is why variables and actions there carry
prefixes (`SearchInit`, `pending`, `ClosureInit`, `LayoutInit`, `MathInit`). Where another machine runs, StdMath rests at its start.

### PhaseProgram: what a phase declares

The vocabulary of the route modules: a transform has a member, a kind, the
members it reads plainly and those it reads as `^m`, and whether it needs a scope
(`needs_scope`: parameter aliases or a `let`). A statement is a call out, a call
of a route, or a return. What a body computes is the constant `Eval`, any function
of what the body reads. A mapping member stands for the one entry a route touches.
A statement list is one path through a body's conditionals and loops.

`AtomicPost` is the promise. `WellFormed` is what the emitter is handed: a member may be
transformed more than once in a phase, and each time it is by its first transform, which is what
`resolve_ir_transforms` finds.
`Isolated` characterises the phases on which the lowering keeps the promise: no
member is transformed twice, no transform reads plainly a member whose new value is already in storage when it is
evaluated, and no call hands over a member written early or a Vec. It is
not a rule of the validator. Section 4 shows phases outside of it going wrong.

### RouteExec: the emitted code, executed

`store` is the contract's storage and `stack` the call frames. A frame holds the
locals the emitted function declares: `next` (`next_<m>`, `_pmv_`), `snap`
(`_pre_<m>_<i>`), and where it is: `stage`, `i`, `ph`. Scalar transforms of one member share
its `next_<m>` (`Shared`): it is declared once and assigned again.

| Action | Code |
|---|---|
| `FlushWrite` | the drain of `pending` ahead of a transform that reads `^m` of a mapping |
| `ComputeDeferred` | a scalar's `next_<m>`, a mapping's setup; the write is pushed to `pending` |
| `ComputeLate` | an `if` body: the condition is a local, the branches go to the writes |
| `ComputeInPlace` | `m.push(x)`, and mapping writes inside `needs_scope` |
| `TakeSnapshots` | `committed_reads_in`, `emit_snapshot_decls` |
| `CommitWrite`, `CommitDone` | the drain of `pending` at the end, then the statements |
| `CallOut`, `CallReturns` | a send, `var`-call or deploy, and its answer |
| `CallRoute` | a call of a route of the same entity, an internal Solidity call |
| `Enter(r)` | a transaction, or a re-entrance while some frame is calling out |
| `NextPhase`, `RouteDone` | the next phase block; the end, or a `return` |
| `Revert` | a failed `from`/`where` check, a throw, a panic, a failed call |

`Revert` may happen at any point, since a check or a panic may fail anywhere. It
restores the storage the frame was entered with; if the frame was entered by
an internal call its caller reverts next (`unwinding`: no other step is enabled for
it). A frame entered from outside gives control back to the code that called,
which may answer, re-enter or fail.

### AtomicPhases: the promise of a contract

Two variables, the state and the states saved by the calls in progress; a step
enters, runs one whole phase, leaves, or reverts. `RouteExec!StorageMovesByPhases`
says that RouteExec implements it when `state` is the storage any other code can
see: the phase's start while the top frame is inside its transforms,
otherwise the storage.

### TemporalOrder

Kahn's algorithm as `topological_sort_owned` runs it: degrees count
occurrences of `^` references, the queue is sorted and popped at its end, so the
largest name goes first. A route is a function from (phase, member) to the list of
references, unknown names included. `Pop` emits one member and updates all
its neighbours, `Finish` compares lengths. `PhaseTxs` is what `collect_transforms`
makes of the result, phase by phase.

### HashMapSidecar and EnumerableMap

One `HashMap<K, V>` member, its value mapping and its sidecars. `Begin(b)` is the
setup of a transform with body `b`: keys and values go to temporaries (`todo`),
after `Lowered` has reduced the chain to the calls `collect_update_chain`
reaches. `WriteUpdate`, `WriteNested` and `WriteRemove` are the emitted writes,
guards and swap-pop included. `meant` is a history variable: the map the bodies
describe. `EnumerableMap` is the ordering guarantee of `docs/EVM_GAPS.md`, 2.8.7.

### Resets

Four kinds of member (a word, a Vec of values, a Vec of records, a HashMap) under
transforms that assign, push or insert, and empty. `Emitted` is what
`emit_transforms_sol_split` and `gen_transform_stmt` make of a body: a
reset of a HashMap or of a Vec of records emits nothing. `Resolved` is `resolve_ir_transforms`,
which finds the first transform of a member in a phase for every occurrence.
`said` is the value described.

### Deployment

Accounts, the factory's registry, `_initialized`, one or two members per instance, and a stack of
frames: the factory's `deployX`, a constructor, `initialize`, a route, or
foreign code. Both deployment modes are modelled: with the factory (CREATE2; the
identity is the slot) and with `new`. An init route has transforms and a list of
actions (call a route, send, deploy); every send hands control to foreign code,
which may call any route, deploy, or fail. A failure restores the world the frame was entered with.

### DfsOrder, Components

`DfsOrder` is `dfs_topo` with an explicit stack: an item is white, in progress or
done; references are walked in the order listed, a back edge is dropped, and an item is
emitted when its references are done. `Components` is Tarjan's algorithm the way
`graph.rs` has it, index, low-link, stack and result, and what
`analysis/graphs.rs` does with the result: components sorted into source
order inside, reversed as a list, `Cyclic` for the cycle report. The names a graph's
hash map is walked in are a choice.

### FailClosure, FailModes

`FailClosure` is the fixpoint of `fail_closure`: a route fails if its
body throws, deploys or has a failing clause, or if it calls one that fails; a sweep at a time in any order. `FailModes` takes the
result: `route_fail_mode` for the Lean signature, `callee_route_can_fail` for the
lowering of a call (`←`, `exceptGetD`, or a sentinel that does not compile), L11 of the validator, and on the other
side what reverts on EVM.

### Loader

The walk of `load_with_imports_in`: sources and libraries first, then imports in the order met, each
under its canonical path and with the kind of its first arrival (`Entry` or `Imported`); `F4`, parse errors up to `max_errors`, and the merge with its
checks for repeated declarations and imports. A file may be reached under two spellings; a
spelling may resolve to nothing.

### ParseRecovery

`recover_parse_diagnostics` over texts of four bytes, and of five over fewer kinds of bytes: declaration keywords, other text, braces, quotes,
backslashes, comments, and a character of two bytes. `Parse` is the grammar's verdict on a
suffix, the scanner is the code's: depth, string and comment flags,
synchronisation points, duplicates, `pos = end + 1`.

### Scoping

The names of one route. A body is a flat sequence of instructions in which phases, branches and loops open and close.
`Accepted` is what the validator says of it: `ScopeAt`, `Mentions`, `TransformReads` and `WhereReads` are its walks, which enter different
terms. `Hoisted`, `PhaseVars` and `Declares` are what the emitted function declares and where; `Compiles` is solc's view of that. A route that is
accepted and compiles is executed: `blocks` are Solidity's open blocks with what their locals hold, `env` what each name was last bound to on the path
taken, `parted` notes a read or a write that differs.

| Action | Code |
|---|---|
| `Phase` | the block of a phase: its `where`, its commits |
| `Binding` | `let`, a tuple `let`, `var`: a declaration here or an assignment to a hoisted local |
| `Emit` | any action that only reads |
| `If`, `For`, `End` | a branch, a round, the end of a block |

### Syntax, RuleWalks, UseWalks, Walks, Ways

`Syntax` has the roots of an entity and the slots of every action and expression in which another may stand. `RuleWalks` (the validator) and `UseWalks` (rewrites,
and scans for what the output must declare) write each walk of the code down as the roots it starts from, the slots it enters, the constructs it reports on its way, and the
binders it takes notice of. `Walks` says who looks for what: a thing, where it may stand, the rules that would
reject the program on the way, and the walks that should find it; `Overlooked` and `Mistaken` name the places where the code does not look. `Ways` is the machine: from a root down to a thing, one slot a step
(`InAction`, `InRescue`, `InExpr`, `Arrive`); a walk that does not enter a slot is lost for good, and a rule still on the way that
reports the construct ends the way (`Reject`). The tables reach `Ways` as constants, which TLC evaluates once.

### StdMath

`muldiv`, `divc`, `divr`, `modpow2` and `pow` as the three targets run them: the
predictor's U256 on two limbs with carries and bit-by-bit division, the
emitted Solidity helpers in checked and unchecked arithmetic, and the Lean prelude on bit vectors.
Words have `2 * Limb` bits. Every squaring and every bit of a division is a step. `DivisionTracks` and
`PowTracks` relate each intermediate value to the quotient, the remainder and the power it stands for,
`ResultsDocumented` the result to what the documents say; `CallsAsDocumented` is the three of them. `Ops` lists what
is modelled of each carrier.

### LeanWorld

The same route body on two semantics. On one side the terms of the Lean backend: a
world `w` of two instances with a counter and funds, a local state `s` bound from `w`,
written back ahead of sends, deploys and calls and bound anew behind them, `exceptGetD` for
callees that cannot fail. On the other the EVM: one storage, value moved with the
message, a failure restores. `LeanAgrees` compares the worlds at the end.

### IterChains

A chain is a source (array, range, reversed range, map keys, inner map keys) and up to three stages
(`map`, `filter`, `take`, `enumerate`, `rev`) ended by `collect` or `fold`, or a `for` that yields
values. The emitted side is the single loop of `iter.rs` with its shared
counters; the other side is the list functions of the Lean term.

### StorageLayout

`compute_layout_with_records` as a machine that places one member a step: a word, a small
value, a record opened and closed, an Option, a payload enum, a mapping or Vec with its sidecars, the
`_initialized` flag of deterministic contracts. `Contract` is the layout solc gives to what
the contract in fact declares, by solc's own rules: positions are bytes of all storage, and `PastToken`, `PastTokens`, `PastMembers`
say how far it is behind a token, a type, the members. `gen_state_init` is the word and mask a test writes for a member.
What is assumed of entities (`LaidOut`) is what makes them entities solc accepts: types are well nested and no struct is empty, mappings and arrays
are one token, and no two members have a name.

### TestScripts

A `test` body, step by step on three machines at once. `forge` is the function `gen_test_fn`
emits, run by Foundry in two suites: *alone*, where `try_hoist_ctor_harness` moves an opening init call and its
sender to `setUp`, and *shared* with a test that deploys otherwise, where nothing is moved. Its state is what has been deployed, which
instance is the subject, the prank, the value pending for the next call, and the event expected of it.
`theorem` is what `lower_steps` and `emit_body_rec` make of the body: a world whose instances exist from the start, a
sticky sender, a one-shot value, the last event, the conjunction of the expects so far (`goal`), and, once a
match arm has settled the rest, a `verdict`. The entity under test is a fixed one (owner, count, amount paid), whose
routes the test chooses by what matters here: whether they throw unless the owner calls, return, take money, emit.

| Action | EVM | Lean |
|---|---|---|
| `SetMsg` | `startPrank`, `deal`; or, with an init call beside it, deployed or skipped with that | a context update, a pending value |
| `CallInit` | `factory.deployT`, unless hoisted or done by the context | a call of the init route |
| `DeployPeer` | `factory.deployT` with the identity, which becomes the subject | the instance is installed, its init route is called |
| `Call` | `expectRevert`, the call with its value | a `let`, or a match with an arm for the error |
| `ExpectEmit` | `expectEmit` | kept for behind the call |
| `Expect` | an assertion | a proposition of the goal |

### InvariantTraces

An `invariant` of one entity, a step at a time on both targets. `handler` is what `gen_invariant_file` emits: the
entity, the clock, the trace counters, and whether the campaign is open, was rejected by `vm.assume`, or failed because a
handler function reverted under `fail_on_revert`. `claim` is the instance of the theorem `build_invariant_theorem`
states at the trace so far: the entity, the clock of the block and that of the context, the accumulator, whether a step has erred, whether
`runTrace` has stopped there, and `traceValid`. `notes` records the events on which the two part. Every prefix of a campaign is a
trace, so that `TracesAgree` speaks of all traces up to the bound.

| Action | EVM | Lean |
|---|---|---|
| `CallAction` | clauses of the action in order (`bound`, `vm.assume`, `if ... return`), prank, `try` call, counters | `stepValid`, `step` behind its conditions, `accUpdate` |
| `AdvanceTime` | `warp`, `roll`, counters | the context's timestamp, `accUpdate` |

### PropertyInstances

A `property` of one parameter, with the one instance a behaviour is of. `run` is the case: the instance's draw, what `bound` makes of it, what a
starred member is sampled as, and the sender. `harness` is the function `gen_fuzz_fn` or `gen_test_fn` emits for what
`desugar_properties` makes of the instance: the parameter, the locals, the count, the sender, the value for the next call, and whether the run is going on, was rejected by
`vm.assume` or has failed. `goal` is the instance of the theorem `gen_property_theorem` states, at the values of the case: vacuous, false, or
true so far. `parted` records the events on which the two part. Hand-written `fuzz` blocks are emitted by the same `gen_fuzz_fn`.

| Action | EVM | Lean |
|---|---|---|
| `Begin` | state stored, lets that assumes need, `bound`, `vm.assume` (`Prefix`) | the quantified values, the same lets, the hypotheses (`Hypotheses`) |
| `TakeStep` | a local, a call with what is expected of it, an assertion (`Execute`) | a `let`, a match with an arm for the error, a conjunct (`Lower`) |

### ExprLowering

The transform of one member. `source` is its expression, of literals, members, arithmetic, wrapping addition, comparisons, connectives,
a narrowing cast, `if`, `match`, `let` and calls of two pure functions; `inputs` are the members it reads, one of them narrower. `Hoist` is `gen_expr_hoisted`: the
statements an expression needs in front of it and the value printed behind them, with a local for every `let`, hoisted `if` and hoisted `match`. `Decl` and `Flow` are the two type
inferences (`infer_let_type_entity`, `actual_sol_type`) that decide the type of a local and whether a value is converted to it.

| Action | Code |
|---|---|
| `Execute` | a declaration or assignment of the emitted text, or its revert |
| `Branch` | an emitted conditional: one block runs |
| `Commit` | `next_m` = the value |

`Monadic` is the Lean term: what `gen_expr_as_route_result` binds, in order, when `Bound` (`expr_forces_fail_surface`,
`expr_has_checked_binop`) makes the transform a `RouteResult`; everything else is `Eval` at regime `"total"`. `Meaning` is the documents'.

Every state machine also defines mutated forms of some definitions
(commented `Mutant:`), which no specification uses. Each is a plausible bug of
the code; substituted for the original it must break the property `PROJECT.json` pairs it with,
which shows that the property can fail.

## 3. Runs that pass

**PhaseShapes** (115,842 states). One phase with two or three transforms over a
scalar, a mapping and a Vec, of every kind and scope, with read sets of up to three
reads in pairs and one read each in triples, in every order the temporal
order allows: every such phase that is isolated. Three members are enough for one
write to overtake another while a third reads. Bodies weigh
each value they read, modulo 7, so that an old value read for a new one shows.
`AtomicCommit`: at the end of the commits storage is what the phase makes of its
start. `EffectsSeePhaseStart`: the arguments of a call show that start.

**Reentrancy** (21,730 states). Two entities with three routes, one of them
private; several phases; calls out between phases; a route that calls another one
which calls out; an early return; a flush; an `if` body. Up to four frames and four
entries from outside: enough for a route to be re-entered in a call made by a
route it called. Besides the two properties above:
`FailureLeavesNoTrace`: a transaction that reverts leaves storage as it was, also
when calls that re-entered it had finished and committed.
`StorageMovesByPhases`: the refinement of AtomicPhases.
`TransactionsEnd`: every transaction ends.

**TemporalOrder** (34,434 states). Every route over three members with up to two
references a body, and two-phase routes over two and three members: repeated, self and unknown references,
cycles, members waiting for a cycle. `OrderRespectsRefs`, `ReportNamesTheStuck`,
`LargestReadyFirst` (no hash order shows), `PhasesFitLowering` (each phase's
transforms are ordered as RouteExec assumes), `SortEnds`.

**Members** (125,161 states): mappings, resets, layouts.
Mappings: three keys, two values; chains of up to three updates whose values may be entries of
the mapping, single removes, and, without a key array, nested updates; a member with no
sidecar, with `_exists` alone, or with the key array. Three keys are what a swap-pop needs to move a
key other than the removed and leave a third in place.
`KeysIndexed`: the array and the index agree with `_exists`. `StorageMeansMap`: reads and membership
are those of the map described. `Enumerates`: the refinement of EnumerableMap.
`ResetsAsMeant`: words and Vecs of values hold what the bodies describe under every
sequence of transforms, and a body that emits nothing keeps the value. The kinds for which
emptying is lost are in section 4.
`LayoutServesTests`: layouts of three and four members of every type, built three ways (plain, deterministic, with
sidecars): the layout computed is solc's, except when a sidecar is overlooked, and what a test seeds by it is what the
contract reads.

**Deployment** (1,824,477 states). Two slots, init routes of up to two actions, a stack of
seven frames through the factory and five with `new`: enough for an init route to send, be
re-entered, deploy, and have that deployment fail.
`RegisteredComplete`: a registered instance has code, its init route has run to its end, and no member is as the EVM made it.
`AllOrNothing`: between transactions an address is free, or holds an instance whose init route has run and that the factory knows; a
failed deployment frees the address, also when foreign code further out caught the failure.
`Bootstrapped`: every registered instance was asked for by the owner or by one registered before it, so that
nobody else can make the factory deploy. `InitOnceAndFirst`: init runs at most once per instance whoever calls back, and no route runs on an instance
before it has run, or, behind the factory, is running.

**Analysis** (409,681 states). `dfs_topo` on three declarations with every list of up to two references (and
some full lists), Tarjan on four nodes with up to two edges each, the closure and the fail modes on three
routes of two entities. Four nodes are the least in which two components of
two nodes meet. `EmittedOnce`, `DepsFirst`: an item is behind all it refers to unless on a cycle
with it. `ComponentsExact`: the components are the classes of mutual reachability, callees come first, members are in source
order, a cycle is reported exactly when there is one. `FailModesAgree`: the closure is the least solution whatever the order of
the sweep (`ClosureExact`); a Lean route is an `Except` if the EVM route can revert, where messages go
straight to a failing route; without messages exactly then; and no call gets the sentinel if the
validator's rules pass. `AnalysesEnd`: all three end.

**FrontEnd** (180,360 states). Three files, one reachable under a second spelling, one path that resolves to nothing,
`max_errors` 3: every import graph. Three files are the least with a cycle and an entry
outside it. `LoadedOnce`, `EntriesWin`, `MergedExactly`, `LoadFinishes`.
Texts of up to four bytes of eight kinds, and of five bytes of five kinds, in which every pair of scanner states meets: `RecoveryCovers` (each turn gets further, errors come in
file order, and no declaration at depth 0 is skipped, for texts in which no brace, quote
or second user error misleads the scanner).
Routes of two groups of actions and a read, in a phase or not: a let, a second let, one of two names, a let of a let, a var, each alone or in a branch, both
branches or a loop, with names of their own, of a member or of the parameter; a second phase with a `where` and transforms that read them, directly or
inside a tuple. `NamesMean`: solc accepts what the validator accepts, a read finds what its name was last bound to on the path taken, and no local
is read at the zero it is declared with, outside the eight forms of section 4, each of which is needed.
Every way from a root down to each of the things looked for, through every slot (2,852 states, since a way is kept only as what is left of the walks). `NamesMean`, second half:
where the thing stands some walk that sees it has come along, a rule has rejected the program, or the place is one that section 4 names;
and no walk takes a name that was bound again on the way for the one it looks for, outside six kinds.

**Backends** (990,650 states). Words of four bits, all pairs and triples: carries, the wide product and both halves of the range
occur. `CallsAsDocumented`: no bit of a division and no squaring loses anything, and the result is the documented value, or a
panic where the documents say so, but for `ZeroFirst`, `Refuses` and `Wraps`.
Bodies of two statements on two instances, counters modulo 3, funds 0 and 2: a statement before and
behind a message is what stale local state needs. `LeanAgrees`: outside `HasLateLoop`, `HasEarlyReturn`, `HasCallback`, bodies
that have no code, and messages whose funds the sender lacks, both sides end in the same world. `ValueConserved`: no
step on either side makes or loses funds.
Chains of up to three stages over sources of up to three elements, words modulo 3: `LoopsMeanLists`: the fused loop
returns what the list functions return and reverts only where a closure leaves the word, outside
`Stubbed`, `TwoTakes`, `NumbersFiltered`, `Reversed` and `InnerKeys`.
Test bodies of up to four steps (of three where the init call has two parameters), two senders, an init call with one or two parameters, two identities, four
routes: a context, a deployment, a call and what is expected of it. `HarnessesMean`, first part: a test passes on Foundry exactly if its theorem
holds, and passes alone exactly if it passes in a shared suite, outside the thirteen kinds that `Departs` lists
(section 4); a sixth of the bodies are of none of these kinds. Bodies of five steps over fewer kinds of step gave nothing new.
Invariants of one or two actions with up to two clauses, seven kinds of clause, four of check, the attribute, a profile and
another invariant that has it, senders, a pinned sender and time; arguments 1 and 3, traces of up to four steps. Two steps
build a state and a history, the third is the one on which the targets part, the fourth asks for what it has left. `HarnessesMean`, second part:
the campaign stands after each step exactly if the theorem holds of the trace, and a call that `vm.assume` rejects is one `traceValid`
excludes, unless one of nine events has been noted (section 4). Each of the nine is needed.
Properties over words of two bits: bodies of up to four steps ahead of the first call (a let that wraps, a let of a member, a let of a let, an assume), the
call and one or two steps behind it; pins, starred members and senders; instances with a whole, an open and an empty range, with
conditions, pins and senders of their own. `HarnessesMean`, third part: a run that passes is a case in which the theorem holds, one that fails a case in which it does not, and
one that is rejected a case that the hypotheses, or a linked instance's own conditions, exclude, unless one of eight events has been noted (section 4). Each of the eight is
needed, and runs of each outcome without any occur.
Expressions in which every form stands in every other that takes it, and one level deeper behind connectives and lets; words modulo 8, a member of
half and a cast to a quarter of that, members started at 0, 1, 2 and 7, so that each operation both fits and does not. `TermsAsDocumented`: Solidity's statements give the documented value or its failure,
and each assignment type-checks, outside `EagerOperand`, `HoistedWrap` and `NarrowLocal`; the Lean term, under `overflow-wrap` and under `overflow-panic`, gives the value, and fails where it is
documented to, outside `Loses` and `Strict` (section 4).

Deadlock is not checked where the system stops: a bounded number of entries,
a sort, a walk, a load or an evaluation that has ended.

*Fairness.* `RouteExec!FairSpec` assumes weak fairness of `Step`, everything but a
call from outside: the EVM does not suspend a transaction, and foreign code
either answers, fails or re-enters, at most `MaxEntries` times (gas). Recursion
among routes is bounded by `MaxDepth`; at the bound a `CallRoute` is not enabled and
only `Revert` is, as when gas runs out. `TemporalOrder!FairSpec` and the fair specifications of MCAnalysis and MCFrontEnd assume
that a loop in progress is run: the compiler is a single thread that waits for nobody.

*Bounds.* `MaxDepth`, `MaxEntries`, `MaxErrors`: stack, entries, errors kept (a parameter of the
program). Nothing else is cut: values are residues, keys, members, files and words are finite sets.
The theorems of section 5 hold for every value of all of these.

## 4. Runs that find a disagreement, and other disagreements

Four sentences of the code's comments and reference are refuted by a run, each on a program the
validator accepts.

| Run | The sentence | What the code does |
|---|---|---|
| ScopedWrite | `route.rs:2119`: every transform "observes the same pre-route snapshot of every member" | mapping writes in a scope fire at once (`route.rs:2272`); a later transform reads them |
| MixedChain | `validate/mod.rs:2981`: E17 lifts silent miscompiles "to a hard error" | `m.remove(a).insert(b, v)` passes E17 and loses the remove (`transform.rs:51`) |
| DroppedExpects | `docs/LANGUAGE.md:1946`: on Lean "every `expect` that follows a `call` is kept" | a last `expect throw` is the whole goal of its arm (`spec_steps.rs:1117`): with it a false `expect` of an earlier call is proved |
| SidecarShift | `solidity/evm/analysis.rs:890`: under-detection "can at worst leave a storage slot unallocated" | a sidecar missing from the layout (`storage_layout.rs:225`) moves every member behind it |

The modules state more of them, as definitions that no run of the project checks but that
any reader can put into a cfg: a property named in the first column is violated by its module on the
instances of its MC module.

| Definition | Module | The sentence | What the code does |
|---|---|---|---|
| `LateBranch` (program) | MCOrderingClaims | `transform.rs:190`: one snapshot | keys and values of a branch are evaluated with the writes (`transform.rs:591`) |
| `VecArgument` (program) | MCOrderingClaims | `route.rs:1516`: effects "observe the state as it stood when the phase began" | a Vec is not snapshotted (`route.rs:1593`) |
| `EffectsSeePostState` | MCOrderingClaims | `docs/LANGUAGE.md:1484`: "effects see post-transform state" | arguments are snapshots of the state before (`route.rs:154`) |
| `OnlyPhasesHaveCycles` | TemporalOrder | `docs/LANGUAGE.md:1490`: `^` is "scoped to the current phase" | all phases are sorted as one graph (`temporal.rs:36`): V3 without a cycle in any phase |
| `RoutesNeedInit` without its second disjunct | Deployment | `docs/LANGUAGE.md:1849`: "other routes require initialized state" | `initialize()` sets its flag first; a contract its actions call may run any route (`route.rs:2961`) |
| `DefaultsFirst` | Deployment | `docs/LANGUAGE.md:601`: "creates a default state and initializes it" | the constructor assigns defaults behind the init route's actions (`route.rs:2786`) |
| `InitMayDeploy` | Deployment | `tests/test_audit_coverage_codegen.rs:8260`: an init route deploys | the factory serves registered callers only, and registers last (`factory.rs:166`, `:199`) |
| `InitTransforms` | Deployment | `docs/LANGUAGE.md:1480`: the phases of a route are applied | a phased parameterless init route emits nothing (`route.rs:2890`) |
| `CycleKeepsSource` | DfsOrder | `pure_order.rs:38`: "keeps source order for the cycle" | the first visited is emitted last (`graph.rs:34`) |
| `DependeesFirst` | Components | `analysis/graphs.rs:37`: "dependees-first" | Tarjan's list already is; it is reversed (`graph.rs:154`) |
| `NoSilentRecovery` | FailModes | `send_target.rs:210`: "total callers propagate callee `.error`" | failures that a callee has from a message are not known (`send_target.rs:195`) |
| `NoSentinel` | FailModes | `lean/evm/send.rs:324`: a "validator contract breach (L9/L11)" | a route that messages its own failing route passes (`validate/mod.rs:5064`) |
| `ImportedDeclareNothing` | Loader | `docs/LANGUAGE.md:108`: F4 rejects an entity in an imported file | an entry that another file imports keeps its kind (`project.rs:796`) |
| `DuplicateImportsWarned` | Loader | `docs/EVM_GAPS.md:853`: W8 | the merge drops duplicates before the check (`project.rs:1217`) |
| `Recovery!DeclarationsRetried`, other texts | ParseRecovery | `parse_recover.rs:76`: resume at the next keyword at depth 0 | a stray brace makes the depth -1 (`:120`), a backslash is an escape (`:97`), a second user error is a duplicate (`:43`) |
| `NeverPanics` | ParseRecovery | `parse_recover.rs:17`: retry until the end | `end + 1` may lie inside a character (`:33`) |
| `ResultsDocumented`, without the exceptions | StdMath | `docs/LANGUAGE.md:265`, `docs/STDLIB.md:42-50` | a zero factor hides a zero divisor (`pure.rs:1082`); `divc`, `divr` (`:465`) and `pow` (`:1187`) revert although the result fits; the Lean product wraps (`Core.lean:371`); a narrow quotient is cut (`cambrian-core/src/lib.rs:779`) |
| `MapsAsMeant` | Resets | `validate/mod.rs:2979`: E17 lifts silent miscompiles "to a hard error" | a transform to an empty HashMap emits nothing (`transform.rs:633`); the entries stay |
| `RecordsAsMeant` | Resets | `core/types.rs:845`: "already correct" | `array()` keeps the pushed records (`route.rs:2298`) |
| `LaterAssigns` | Resets | `route.rs:2370`: repeats assign | a repeated transform is a copy of the first (`route.rs:72`) |
| `LoopsSeeTransforms` | LeanWorld | `docs/LANGUAGE.md:1483`: effects see the transforms | a loop binds the state anew without a write-back (`lean/route.rs:3048`) |
| `ReturnsEndRoutes` | LeanWorld | `docs/LANGUAGE.md:744`: "terminators" | the statements behind a return run (`lean/route.rs:2856`) |
| `CallbacksSeeTransforms` | LeanWorld | `docs/LANGUAGE.md:1484` | no write-back ahead of an extern call (`lean/evm/send.rs:560`) |
| `MessagesAreFunded` | LeanWorld | `Evm.lean:272`: failures "abort before `body`" | `exceptGetD` replaces the failure (`lean/evm/send.rs:369`) |
| `OnlyDeploysOccupy` | LeanWorld | `docs/LANGUAGE.md:1750`: a deploy occupies | every write does (`lean/evm/world.rs:133`) |

Further ones that the departures of a passing property name. StorageLayout: the mask of a value of 128 bits or more is
`u128::MAX`, so a packed address loses four bytes (`evm_test_codegen.rs:2626`); an identity member of string or array type is
stored, not immutable; an `Option` of a full word takes two slots and counts as one; `gen_state_init` lays
out without `_initialized`, so a small value alone in that flag's slot zeroes it. IterChains: all `take`s
of a chain share a counter (`iter.rs:962`); `enumerate` behind `filter` numbers by the loop's index (`:1000`); a reversed
range reverts where Lean has an empty list; inner `keys()` gives no round; `for (i, x) in xs.enumerate()` and `collect` of pairs
are stubs that revert although `docs/LANGUAGE.md:405-430` marks the first as supported. TestScripts: `DeploysUnderPrank`,
the factory refuses a pranked sender; `PaysUnfunded`, `deal` funds the test contract and not the sender (`evm_test_codegen.rs:2808`), so the
opening example of `docs/LANGUAGE.md:1910`, with a sender and a value, cannot pass; `LosesSender`, the sender that setUp should share with the init call is compared
with all its arguments joined (`:1038`), so with two parameters it is lost; `LosesValue`, the context behind a hoisted
call is skipped with its value (`:1818`); `ValueAcrossInit`, a value left over by an init call; `DeploysTwice` and `CallsFirst`, the
second deployment at an address reverts and a call ahead of the first has no contract, where in Lean every instance exists; `ReadsOther`, `expect state` in Lean is of the
default identity though calls go to the deployed one; `ZeroSender`, the sender before any context; `ThrowsNowhere`, a throw expected of a
route that cannot fail is dropped in Lean; `LateExpect`, an expectation behind another step, which EVM ignores (`:1944`); `DropsExpects`;
`OtherEvent`, Lean compares the last event of the world only (`spec_steps.rs:1421`). InvariantTraces:
`clamped`, `bound` wraps an argument on EVM, where Lean drops a range of literals (the theorem is of all arguments) and takes no step outside a computed one;
`empty`, a computed range with nothing in it makes the handler revert, and `(hi) - 1` underflows at zero;
`uncounted`, a call that fails or is skipped returns before the counters (`evm_test_codegen.rs:4036`), and Lean's `accUpdate` counts every action, so
`trace::length`, `count` and `lastWas` mean different things; `unasked`, `traceValid` stops asking at the first error though `runTrace` goes on behind it
(`lean/evm/invariant.rs:2016`), so an invariant is claimed of traces its assumptions exclude; `shadowed`, an `assume` behind a `skip if` that
applies is not reached on EVM; `spared`, the revert policy of a Foundry profile or of another invariant of the
project overrides the attribute (`evm_test_codegen.rs:1405`, `codegen/mod.rs:234`); `handler` and `unlisted`, the context's sender does not
reach the entity unless `senders` are listed, and then joins them (`:4021`, `:2769`); `clock`, `advanceTime` moves the context's timestamp, which routes read, and a
check reads the block's (`lean/evm/domain.rs:115`), so that `m_at <= sys::now` fails in Lean. An `advanceTime` in the body of an action is accepted and
has no effect on either target. PropertyInstances:
`drawn`, a pin over a parameter (the form `docs/LANGUAGE.md:2123` shows) and a let that an assume needs are evaluated ahead of `bound`
(`evm_test_codegen.rs:2105`, `:2128`), so the state and the assumption are of another value than the call; `panicked`, what Solidity checks `BitVec`
wraps; `runner`, `vm.assume` on `msg::sender` asks for the runner of the test, the hypothesis for the context's sender; `presumed`, a test instance does not ask its
assumes; `elsewhere`, an instance may start where the theorem does not; `reread`, a starred member's name is the sampled parameter on EVM, for the whole function, and the member as it is now in Lean
(`lean/expr.rs:741`), so that `expect state { m_count: m_count + x }` relates two states on one target and is false on the other; `spent`, the value of a property's `ctx` goes with the first
call on EVM and with every call in Lean; `orphaned`, a predicate parted from its call by a let or an assume is dropped on EVM (`evm_test_codegen.rs:2412`)
and part of the theorem. `Compiles` names what the validator accepts and solc does not: a member's name where nothing samples it, a test instance of a property that pins a member to its parameter.
ExprLowering: `EagerOperand`, the statements of a connective's right operand run in front of the whole (`core/expr.rs:2352`), so that
`b != 0 && (let q = a / b; q > 1)` reverts for `b` = 0; `HoistedWrap`, a wrapping addition one of whose operands has statements is printed as the checked one (`:424`);
`NarrowLocal`, a literal arm or a narrow scrutinee decides the type of a match's local and wider arms are cut off (`core/types.rs:242`), and likewise a `let` of a literal is a `u64`;
`Loses`, conditions, scrutinees, operands of `!` and of a cast are lowered as total terms, a pure function without a division is not bound under `overflow-panic` (`lean/core/pure.rs:400`), and
below other operators only divisions and casts are looked for (`lean/expr.rs:1967`), so the failure there becomes a number; `Strict`, both operands of `&&` and `||` are bound when one may fail (`:2040`), so
`b != 0 && a / b > 1` fails in Lean for `b` = 0.
Scoping: `LoopEscapes` and `TupleEscapes`, V8 keeps one scope for the whole body, so a loop's name behind the loop and a name of a tuple let behind its block
are accepted and not declared; `WhereReadsLet`, V8 checks no `where` of a phase, V51 counts one as a use of a let because codegen hoists such lets
(`validate/entity.rs:2708`), and `collect_cross_phase_lets` looks at actions only (`evm/route.rs:2010`); `ReadAhead`, all vars are in scope from the start, so a var read by an
action ahead of its call is zero in a phased route and undeclared in another; `Unvisited`, the walks of V26 to V28 do not enter tuples, arrays, matches and
calls of the standard library, so a transform there reads a var of its own phase at zero; `EscapesBranch`, a let or var of a branch that was not
taken is zero behind it (V44 is reserved for that); `Repeated`, a let with a parameter's name, or a tuple let, loop or var with the name of another let, is a second declaration in one
block or a shadow in an inner one; `LocalNamedMember`, a let or parameter with a member's name takes over the transforms' reads of the member and their
assignment to it, so that storage stays as it was: only `var` is refused (V25).
Ways (`Overlooked`, `Mistaken`), for builds whose addresses are deterministic, where E16 accepts `address_of`: nearly no walk looks at what an error is thrown with, at whom `from` lets in, or at the `where` of a phase (`Beyond`). Beside that, scans for helpers of the
standard library miss macros, functions of libraries and the base of a record update, so that the output calls a function it lacks: the scan for methods also defaults, `for` loops and array
literals, that for a bare `f(x)` blocks, closures and the arguments of macros, that for parsing ranges and the arguments of `evm::f(..)`, those for wrapping operators loops of actions, what `emit` and `throw` carry, destinations
and options, macros and defaults. Structs of options are not looked for in `where`, macros and libraries. E12, E16, E18 and L2 miss loop bodies or what is handed to `emit`, `throw`, an effect, a call
or a supported standard function, and defaults and libraries; V62 misses `where`, defaults and macros; V20 enters few slots at all; V53 misses options and receivers; V8 does not check a `var`-call's destination
and options, nor defaults; W2 and W3 miss a phase's `where`, errors and defaults. Literals of a type and `using` calls are not rewritten in what an error is thrown with. Of
names: `strip_instance_qualifier` takes names that a check binds itself, `subst` does not stop at the arms of a match (for maps, nor at closures), V65 and V69 ignore every rebinding, and V11 takes a route's let, var or loop variable with
a member's name for the member.
From reading only: a linked test makes a property one with instances, and so removes the fuzz function it would have had by itself
(`merge_catalog.rs:88`, `desugar.rs:55`).

Two of these pull in opposite directions: comments and reference disagree about what
effects see, and the code follows the comments for scalars and mapping entries, the
reference for Vecs.

All of this rests on reading the emitter; the models were not compared with compiled
contracts.

## 5. Theorems

Proved with TLAPS for all values of the constants, from the named assumptions of the
modules, which TLC evaluates on the instances.

**Routes** (`RouteExecProofs`). `TypeCorrectness` and `FailuresLeaveNoTrace` hold of every
entity whose phases are `WellFormed`, isolated or not, ScopedWrite's included.
`PhasesAreAtomic`, `EffectsAreFaithful` and `RoutesImplementAtomicPhases` are on
`IsolatedEntities`: every declared phase is `Isolated`. No rule of the validator enforces it, and without it
they are false: run ScopedWrite shows it for `AtomicCommit`, section 4 for the rest. MCPhaseShapes and MCReentrancy assume it of their instances.

`AtomicCommit` speaks of the end of the commits only, so it is not inductive. The
strengthening is `Mid`, about one phase under way: storage holds the new value of
the transforms that have *landed* and the old one of all others; every value
computed is the intended one; a member someone has read as `^m` is settled, unless its
value is a local; and a pending write is overtaken only by one that lands early.
The first part of `RouteExecProofs` shows, about a phase alone and without any state machine, that deferring, skipping, writing in place and firing
preserve `Mid`, and that with nothing pending it is `AtomicPost`.
The second part is about every frame of the stack. Its `Shape`, that its locals and pending
writes are those of the transforms computed so far, needs nothing of the phase and gives `TypeOK`; `Mid` is added for
frames at isolated phases. Only the top frame is
inside its transforms, frames below it rest in their statements, where only
`Faithful` (snapshots and arguments show the phase's start) matters, and a
re-entering frame cannot disturb it since it is about locals. The refinement then
needs `Mid` at one step, `CommitDone`, which is the abstract phase. All other
steps stutter, push or pop.

`FailureLeavesNoTrace` speaks of the end of a transaction, when the stack is gone. Its
invariant `NoTrace` says while a call is in progress that the outermost frame's
`entry` is the storage the transaction found (`origin`) and that this frame is not internal, so
that nothing unwinds past it; what frames above it wrote is then irrelevant, since the last
revert restores `entry`.

**Sort** (`TemporalOrderProofs`): `SortTypeCorrect`, `SortRespectsRefs`,
`CyclesAreReported`, `SortIsDeterministic`, `PhasesAreOrdered`. The invariant: a member's degree is the number
of its uses of members still left, the queue is the members left at degree zero,
nothing is emitted twice, and no stuck member has been emitted. `PhasesAreOrdered` adds what the route modules need of the
result: sorted by its position, every phase's transforms are a phase in which a member read as `^m` comes first.

**Mapping** (`HashMapSidecarProofs`): `SidecarTypeCorrect`, `KeysStayIndexed`,
`IteratedMapsEnumerate`, `StorageAlwaysMeansMap`. The invariant adds that a member without a key array has an
empty one. That reads and membership are those of the map described is proved from `LoweredWhole`, that E17 lets pass only chains that are
lowered whole; run MixedChain shows that this is needed. Its invariant, `PendingMakeMeant`, says in the middle of a transform that the writes still
pending would turn what storage says into `meant`. Since what a chain means is a fold over it, the proof is about the first place at which the claim would fail.
`ResetsAlwaysAsMeant`, on `NoRepeats` (no phase transforms a word twice, section 4): `ResetsAsMeant` is inductive with the types of what is kept; a
push on a Vec of records whose reset was dropped leaves what is meant behind what is stored (`PushStaysBehind`).

**Walk** (`AnalysisProofs`): `EmitsOnce`, `NoForwardReference`. The stack is a path of the
reference graph, an item is emitted exactly when it is done, and each reference that the walk
is past is done or further down the stack, hence on a cycle.

**Loader** (`LoaderProofs`): `LoadsOnce`, `KindBySources`, `MergesExactly`. What is seen is what
is loaded or queued, sources are ahead of imports in the queue, and everything an import of a
loaded file leads to is seen.

**Deployment** (`DeploymentProofs`): `TypeCorrect`, `BootstrappedAlways`, `AllOrNothingAlways`, `InitOnceAndFirstAlways`, and
`RegisteredCompleteAlways` from `NoneDropped`, that no init route is a phased one without parameters, which the constructor drops (section 4). The invariant
is about the world and the whole stack: each instance that lacks something (code, an initialization, its registration) has exactly the
one frame on the stack that is making it, and each frame stands where its kind and `pc` say (`Good`). A failure puts back the world the failing frame was entered with, so that
`Good` must hold of every saved world that a failure may put back, with the stack as it then is (`Catchable`), and there is always a frame of foreign code further
out to catch it (`Anchored`). Every action but the revert then only has to keep `Good` of the world and the top; a revert finds it.

**Components and closure** (`AnalysisProofs`): `TypeCorrect`, `ComponentsAreExact`, `FailModesAlwaysAgree`. Of Tarjan's algorithm
the invariant says, of the search (`Searched`), that the calls in progress are a path whose indices ascend, that a low-link is an index reached from its node, and that
whatever a pending node refers to is numbered or still to be looked at; of the result, that each component is connected (`Connected`), that
nothing outside of it shares a cycle with it (`Apart`), and that callees are in front (`CalleesFirst`). When a
component is taken off, its low-link says that no edge leaves it upward; a set closed under edges then keeps all else apart. The sort into
source order is by a rank that no two nodes share.
Of the closure the invariant says that what is in it can fail by every closed set's account, and that what the pass has looked at without finding
anything is closed. A pass that finds nothing hence ends in the least solution; that it agrees with what reverts on EVM, and with the modes, is shown by complements of closed sets.

**Layout** (`LayoutProofs`): `EntriesApart` and `LayoutAlwaysServesTests`, for members of every type and any nesting, from `LaidOut`. The first argument
is a frontier: all bytes placed lie before the next free byte `(slot, used)`, or before the
first byte of the outermost record still open, whose entry is made when it is closed (`IInv`).
That the layout is solc's rests on that byte being the one solc is at (`SolcInv`): between members `slot * 32 + used` is `PastMembers` of the
members done, and inside a struct it is `PastTokens` of the tokens done (`AtTokens`), where the number of structs open is the depth in the type, so that the
close which ends the member is its last token. `PastTokens` is defined by recursion over the tokens; the library's theorem on such functions takes an operator, so that the
function is shown to exist, and to be the one defined, from the least place at which two could differ (`StepsExist`, `PastTokensSteps`).
That seeds are read back (`SeedInv`) needs more than `EntriesApart`: a store of a whole word is made only for what begins the word and has it for itself, since
whoever lies behind an offset shares its word with another entry (`Shaped`), so that no store touches what another seed has set (`WrittenApart`). What it may touch is
`_initialized`, which the test's layout does not have: the exception `SeedsReadBack` names.

**Arithmetic** (`StdMathProofs`): `CallsAlwaysAsDocumented`, and on the way to it `AddIsExact`, `SubIsExact`, `WideningIsExact`, `MulIsExact`,
`CoreProductIsExact`, `EvmProductIsExact`, for limbs of any even width and so for the 128 bits of the code, which no run can reach.
The hypothesis is `ExponentLaws`: what the standard modules say of `^`, of which the provers know nothing. The products are exact since
every carry is named and the sums of limbs are compared with the product of the halves; a wrapping addition of the emitted helper is
exact with the carry it is counted by. The invariant `MathInv` adds to `DivisionTracks` that the shifted divisor still is a word, or two: without it a bit
shifted out would go unseen. `LeadingZerosOf` and `StartBit` show it of the first bit, and that the quotient has no bit above it. For two words it also says that
above the low word nothing has been found yet, and behind it the dividend is below the divisor times a word; for powers, that the product is zero only with the base. That a power
is that of the square by half the exponent (`PowerOfSquare`) is shown of the least exponent at which it could fail. Where the emitted
`_cam_pow` squares a base that it does not need, the power by the doubled exponent is no word (`PowerExceeds`), which is what `Refuses` says.

Only model-checked: liveness (`TransactionsEnd`, `SortEnds`, `AnalysesEnd`, `LoadFinishes`), which needs
ENABLED; what is defined by recursion over data, or is about modules that are (`TermsAsDocumented`, `LoopsMeanLists`, `NamesMean`, `HarnessesMean`, `RecoveryCovers`,
`LeanAgrees`, `ValueConserved`).

## 6. Not modelled, and why

* A push into another member's Vec inside a Vec transform
  (`lower_foreign_vec_push_body`), and a push of a conditional or match value.
* Values of `let` and `var` locals in RouteExec, where a statement's reads of members are modelled: which local a
  name finds is Scoping's.
* Mappings with several entries in RouteExec: an entry per mapping is enough for the
  order of reads and writes; the entries are in HashMapSidecar.
* `_inner_exists` of nested mappings.
* Gas, and events: no property here depends on them.
* Salts and addresses: a deployment's identity is its slot. That two identities
  hash to different addresses is keccak's.
* The validator's rules but for those named: most are predicates over the syntax tree
  without state; a model of one would be the rule itself, written twice. What is modelled of some forty is how far they look (Ways). The rules that other
  modules rely on are assumptions there (E17, F4, V3) or modelled (names, L9, L11, alias cycles).
* Of names: patterns inside expressions (`match`, closures of several parameters), macros and constants, aliases of mappings.
* Parser grammar (generated), desugaring but that of properties, spec normalisation, CLI: rewriting
  of trees without state over time.
* Of expressions: signed numbers, records, options, strings, tuples, a conditional without `else`, the Lean profile of natural numbers; and what is not
  emitted as valid code at all: a call that may fail under `!`, in a condition or in a cast, and a cast of an operand with statements, which the validator (E27) refuses.
* Of tests: calls of peers of another entity, `let`, `sys` contexts, transfers among the effects expected, `skip from` (which
  EVM makes a one-shot prank that the deployment behind it consumes, and Lean ignores), and the state of `with`, which StorageLayout has.
* Of invariants: several entities, `exclude`, `track`, `derived`, `deploy` lists, checks over parameters of actions (a fold over the trace in Lean),
  and a prank left pending by an action on the init route with senders.
* Of properties: several parameters and instances at a time, members of other types, `sys` contexts, deployed peers, linked tests.
* The proof scripts of the Lean theorems: what is stated is modelled, how Lean's
  kernel comes to accept it is not.

## 7. What remains of the plan

1. `_inner_exists` in HashMapSidecar, and a foreign push in RouteExec.
2. The read-only facts, and the routes a `view` caller may reach.
3. Theorems: `ValueConserved` and `LeanAgrees` with LeanWorld's recursion written as a fold.
4. Invariants of several entities.
