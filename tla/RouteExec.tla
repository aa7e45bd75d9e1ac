------------------------------ MODULE RouteExec ------------------------------
(***************************************************************************)
(* The Solidity emitted for the routes of one entity, executed.            *)
(*                                                                         *)
(* A phase runs as the emitted text reads: for each transform the flush of *)
(* the mappings it reads as ^m, then its computation (or, in place, its    *)
(* write); the pre-commit snapshots; the pending writes; the statements.   *)
(* A statement that leaves the contract hands control to code that may     *)
(* enter any public route again, answer, or fail.  Frames of the call      *)
(* stack share the storage.                                                *)
(***************************************************************************)
EXTENDS PhaseProgram

CONSTANTS
  Public,        \* the routes that can be called from outside
  Entities,      \* the entities to run: a phase sequence per route
  InitialStores, \* the storage a transaction may start from
  MaxDepth,      \* bound on the call stack
  MaxEntries     \* bound on the calls from outside

PhasesOf(e) == UNION { { e[r][q] : q \in DOMAIN e[r] } : r \in RouteNames }
AllPhases == UNION { PhasesOf(e) : e \in Entities }

\* What the validator and the IR hand to the emitter.
ASSUME EntitiesAssumption ==
  /\ \A e \in Entities : \A r \in RouteNames :
       e[r] \in Seq(Phases) /\ e[r] # << >>
  /\ \A p \in AllPhases :
       /\ WellFormed(p)
       /\ \A i \in DOMAIN p.stmts : p.stmts[i].kind = "route" => p.stmts[i].to \in RouteNames

ASSUME ValuesAssumption ==
  /\ Maps \subseteq Members /\ Vecs \subseteq Members /\ Maps \cap Vecs = {}
  /\ Public \subseteq RouteNames
  /\ InitialStores \subseteq [Members -> Values]
  /\ \A p \in AllPhases : \A k \in DOMAIN p.txs :
       \A plain \in [p.txs[k].reads -> Values], next \in [p.txs[k].after -> Values] :
         Eval(p.txs[k], plain, next) \in Values

ASSUME BoundsAssumption == MaxDepth \in Nat /\ MaxEntries \in Nat

VARIABLES
  entity,    \* never changes
  store,     \* contract storage
  stack,     \* call frames, outermost first
  origin,    \* storage before the transaction in progress or last ended
  entries,   \* calls from outside so far
  outcome    \* of the last transaction: "none", "ok" or "reverted"

vars == <<entity, store, stack, origin, entries, outcome>>

(***************************************************************************)
(* Frames                                                                  *)
(***************************************************************************)
Frame(r, ph, from, internal, cur) ==
  [ route    |-> r,
    ph       |-> ph,          \* the phase being run
    internal |-> internal,    \* entered by a "route" statement
    entry    |-> from,        \* storage when the route was entered
    pre      |-> cur,         \* storage when the phase began
    stage    |-> "compute",   \* compute, commit, stmts, calling, unwinding
    i        |-> 1,           \* next transform, or statement
    next     |-> << >>,       \* the locals next_<m>, _pmv_<m>: by transform
    pending  |-> {},          \* transforms whose write is still to come
    skipped  |-> {},          \* `if` transforms whose condition was false
    snap     |-> << >>,       \* the locals _pre_<m>_<i>
    args     |-> << >> ]      \* what the statement in progress handed out

Stores == [Members -> Values]
Locals == UNION { [S -> Values] : S \in SUBSET Members }

Frames ==
  [ route : RouteNames, ph : Nat \ {0}, internal : BOOLEAN, entry : Stores, pre : Stores,
    stage : {"compute", "commit", "stmts", "calling", "unwinding"},
    i : Nat \ {0}, next : Seq(Values), pending : SUBSET Nat, skipped : SUBSET Nat,
    snap : Locals, args : Locals ]

Depth == Len(stack)
Top == stack[Depth]
Phase(f) == entity[f.route][f.ph]
Tx(f, k) == Phase(f).txs[k]
Stmt(f) == Phase(f).stmts[f.i]

InStage(stage) == stack # << >> /\ Top.stage = stage

SetTop(f) == stack' = [stack EXCEPT ![Depth] = f]
Below == SubSeq(stack, 1, Depth - 1)

(***************************************************************************)
(* Reading.  ^m is the local next_<m> when m is a value the phase computes *)
(* and has not stored in place, and storage otherwise.                     *)
(***************************************************************************)
\* The transforms whose value is the local next_<m>.
ScalarsOf(f, m) ==
  { k \in DOMAIN Phase(f).txs : Tx(f, k).member = m /\ Tx(f, k).kind = "scalar" }

AfterValue(f, m) ==
  IF ScalarsOf(f, m) # {} THEN f.next[CHOOSE k \in ScalarsOf(f, m) : TRUE] ELSE store[m]

EvalNow(f, t) == Eval(t, Only(store, t.reads), [m \in t.after |-> AfterValue(f, m)])

\* Mutant: the flush ahead of a ^ read of a mapping is left out.
FlushNothing(f, j) == {}

\* Pending writes a computation at position j must flush ahead of itself.
ToFlush(f, j) == { k \in f.pending : Flushes(Phase(f), k, j) }

\* Mutant: the reads of a mapping's entry are not collected.
SnapshotScalars(p) ==
  { m \in Committed(p) \ (Vecs \cup Maps) : \E s \in Outbound(p) : m \in s.reads }

\* The member reads that outbound statements make of what the phase commits.
SnapshotReads(p) ==
  { m \in Committed(p) \ Vecs : \E s \in Outbound(p) : m \in s.reads }

(***************************************************************************)
(* The member-transform stage                                              *)
(***************************************************************************)
Computing == InStage("compute") /\ Top.i <= Len(Phase(Top).txs)

Fired(f, k, v) ==
  [f EXCEPT !.next = [@ EXCEPT ![k] = v], !.pending = @ \ {k}]

\* The pending write of transform k fires.
Write(k) ==
  LET v == IF Late(Tx(Top, k)) THEN EvalNow(Top, Tx(Top, k)) ELSE Top.next[k]
  IN  /\ store' = [store EXCEPT ![Tx(Top, k).member] = v]
      /\ SetTop(Fired(Top, k, v))

Unmoved == UNCHANGED <<entity, origin, entries, outcome>>

\* ^m of a mapping: its pending writes go first, in their order.
FlushWrite ==
  /\ Computing
  /\ \E k \in ToFlush(Top, Top.i) :
       /\ \A j \in ToFlush(Top, Top.i) : k <= j
       /\ Write(k)
  /\ Unmoved

\* The transforms the value of f's next one is the value of: next_<m> is
\* declared once, and assigned again where m is transformed again.
Shared(f) ==
  {f.i} \cup (IF Tx(f, f.i).kind = "scalar" THEN ScalarsOf(f, Tx(f, f.i).member) ELSE {})

\* The frame once the value of its next transform is known: written, waiting
\* for its write, or skipped.
Computed(f, v) ==
  [f EXCEPT !.next = [k \in 1..f.i |-> IF k \in Shared(f) THEN v ELSE f.next[k]], !.i = @ + 1]
Deferred(f, v) == [Computed(f, v) EXCEPT !.pending = @ \cup {f.i}]
Skipped(f, v) == [Computed(f, v) EXCEPT !.skipped = @ \cup {f.i}]

\* A value goes to a local; its write joins the pending ones.
ComputeDeferred ==
  /\ Computing
  /\ ToFlush(Top, Top.i) = {}
  /\ ~InPlace(Tx(Top, Top.i))
  /\ ~Late(Tx(Top, Top.i))
  /\ SetTop(Deferred(Top, EvalNow(Top, Tx(Top, Top.i))))
  /\ UNCHANGED store
  /\ Unmoved

\* Only the condition of an `if` is evaluated now: it has no value yet.
ComputeLate ==
  /\ Computing
  /\ ToFlush(Top, Top.i) = {}
  /\ Late(Tx(Top, Top.i))
  /\ LET none == Top.pre[Tx(Top, Top.i).member]
     IN  SetTop(Deferred(Top, none)) \/ SetTop(Skipped(Top, none))
  /\ UNCHANGED store
  /\ Unmoved

\* A push, or a mapping body in a scope of its own: computed and written here.
ComputeInPlace ==
  LET t == Tx(Top, Top.i)
      v == EvalNow(Top, t)
  IN  /\ Computing
      /\ ToFlush(Top, Top.i) = {}
      /\ InPlace(t)
      /\ \/ /\ store' = [store EXCEPT ![t.member] = v]
            /\ SetTop(Computed(Top, v))
         \/ /\ t.kind = "branch"
            /\ SetTop(Skipped(Top, v))
            /\ UNCHANGED store
      /\ Unmoved

Snapshotted(f) ==
  [f EXCEPT !.stage = "commit", !.snap = Only(store, SnapshotReads(Phase(f)))]

TakeSnapshots ==
  /\ InStage("compute")
  /\ Top.i > Len(Phase(Top).txs)
  /\ SetTop(Snapshotted(Top))
  /\ UNCHANGED store
  /\ Unmoved

CommitWrite ==
  /\ InStage("commit")
  /\ \E k \in Top.pending :
       /\ \A j \in Top.pending : k <= j
       /\ Write(k)
  /\ Unmoved

Settled(f) == [f EXCEPT !.stage = "stmts", !.i = 1]

\* Mutant: the statements start before the last pending write has fired.
CommitEarly ==
  /\ InStage("commit")
  /\ SetTop(Settled(Top))
  /\ UNCHANGED store
  /\ Unmoved

CommitDone ==
  /\ InStage("commit")
  /\ Top.pending = {}
  /\ SetTop(Settled(Top))
  /\ UNCHANGED store
  /\ Unmoved

(***************************************************************************)
(* Statements, calls and returns                                           *)
(***************************************************************************)
AtStatement(kind) ==
  /\ InStage("stmts")
  /\ Top.i <= Len(Phase(Top).stmts)
  /\ Stmt(Top).kind = kind

\* Mutant: the arguments are not rewritten to the snapshots.
CurrentArgs(f) == Only(store, Stmt(f).reads)

ArgsOf(f) ==
  [m \in Stmt(f).reads |-> IF m \in DOMAIN f.snap THEN f.snap[m] ELSE store[m]]

Calling(f) == [f EXCEPT !.stage = "calling", !.args = ArgsOf(f)]

CallOut ==
  /\ AtStatement("call")
  /\ SetTop(Calling(Top))
  /\ UNCHANGED store
  /\ Unmoved

\* A route of the same entity: an internal Solidity call.
CallRoute ==
  /\ AtStatement("route")
  /\ Depth < MaxDepth
  /\ stack' = Append([stack EXCEPT ![Depth] = Calling(Top)],
                     Frame(Stmt(Top).to, 1, store, TRUE, store))
  /\ UNCHANGED store
  /\ Unmoved

\* A transaction starts, or the code being called enters a route again.
Enter(r) ==
  /\ stack = << >> \/ InStage("calling")
  /\ Depth < MaxDepth
  /\ entries < MaxEntries
  /\ entries' = entries + 1
  /\ stack' = Append(stack, Frame(r, 1, store, FALSE, store))
  /\ origin' = IF stack = << >> THEN store ELSE origin
  /\ outcome' = IF stack = << >> THEN "none" ELSE outcome
  /\ UNCHANGED <<entity, store>>

\* Mutant: a caller resumes at the statement it has just run.
ResumedInPlace(f, stage, step) == [f EXCEPT !.stage = stage]

Resumed(f, stage, step) == [f EXCEPT !.stage = stage, !.i = @ + step]

CallReturns ==
  /\ InStage("calling")
  /\ SetTop(Resumed(Top, "stmts", 1))
  /\ UNCHANGED store
  /\ Unmoved

\* Mutant: one phase too many.
NextPhaseBeyond ==
  /\ InStage("stmts")
  /\ Top.i > Len(Phase(Top).stmts)
  /\ Top.ph <= Len(entity[Top.route])
  /\ SetTop(Frame(Top.route, Top.ph + 1, Top.entry, Top.internal, store))
  /\ UNCHANGED store
  /\ Unmoved

NextPhase ==
  /\ InStage("stmts")
  /\ Top.i > Len(Phase(Top).stmts)
  /\ Top.ph < Len(entity[Top.route])
  /\ SetTop(Frame(Top.route, Top.ph + 1, Top.entry, Top.internal, store))
  /\ UNCHANGED store
  /\ Unmoved

\* The frame ends; an internal call hands control back to its caller.
Leave(stage, step) ==
  stack' = IF Top.internal
             THEN [Below EXCEPT ![Depth - 1] = Resumed(@, stage, step)]
             ELSE Below

RouteDone ==
  /\ InStage("stmts")
  /\ \/ Top.i > Len(Phase(Top).stmts) /\ Top.ph = Len(entity[Top.route])
     \/ AtStatement("return")
  /\ Leave("stmts", 1)
  /\ outcome' = IF Depth = 1 THEN "ok" ELSE outcome
  /\ UNCHANGED <<entity, store, origin, entries>>

\* Mutant: a failure takes back only the phase it happens in.
RevertPhase ==
  /\ stack # << >>
  /\ store' = Top.pre
  /\ Leave("unwinding", 0)
  /\ outcome' = IF Depth = 1 THEN "reverted" ELSE outcome
  /\ UNCHANGED <<entity, origin, entries>>

\* A failed check, an arithmetic panic, a throw, or the failure of a call.
Revert ==
  /\ stack # << >>
  /\ store' = Top.entry
  /\ Leave("unwinding", 0)
  /\ outcome' = IF Depth = 1 THEN "reverted" ELSE outcome
  /\ UNCHANGED <<entity, origin, entries>>

(***************************************************************************)
(* The specification                                                       *)
(***************************************************************************)
Init ==
  /\ entity \in Entities
  /\ store \in InitialStores
  /\ stack = << >>
  /\ origin = store
  /\ entries = 0
  /\ outcome = "none"

Step ==
  \/ FlushWrite \/ ComputeDeferred \/ ComputeLate \/ ComputeInPlace
  \/ TakeSnapshots \/ CommitWrite \/ CommitDone
  \/ CallOut \/ CallRoute \/ CallReturns
  \/ NextPhase \/ RouteDone \/ Revert

Next == Step \/ \E r \in Public : Enter(r)

Spec == Init /\ [][Next]_vars

\* The EVM runs what it has started: gas bounds it, nothing suspends it.
FairSpec == Spec /\ WF_vars(Step)

(***************************************************************************)
(* Correctness                                                             *)
(***************************************************************************)
\* The state is well typed; a frame is at a phase its route has, and only the
\* frame on top of the stack is inside its member transforms.
TypeOK ==
  /\ entity \in Entities
  /\ store \in Stores
  /\ origin \in Stores
  /\ entries \in Nat
  /\ outcome \in {"none", "ok", "reverted"}
  /\ stack \in Seq(Frames)
  /\ \A d \in 1..Depth :
       /\ stack[d].ph \in DOMAIN entity[stack[d].route]
       /\ stack[d].stage \in {"compute", "commit"} => d = Depth
       /\ stack[d].internal => d > 1

\* When the last pending write of a phase has fired, storage is what the phase
\* makes of the storage it began with: no transform read the value another one
\* had already written (emit_transforms_sol_split: "every transform ... observes
\* the same pre-route snapshot").
AtomicCommit ==
  InStage("commit") /\ Top.pending = {} =>
    AtomicPost(Phase(Top), Top.pre, store, Top.skipped)

\* Whatever re-entered in between, the arguments an outbound statement hands out
\* show the members its phase commits as they were when the phase began
\* (collect_precommit_snapshots).
EffectsSeePhaseStart ==
  \A d \in DOMAIN stack :
    LET f == stack[d]
    IN  f.stage = "calling" =>
          \A m \in DOMAIN f.args \cap Committed(Phase(f)) : f.args[m] = f.pre[m]

\* A transaction that fails leaves storage as it found it, whatever its frames,
\* and the calls that re-entered during them, had committed.
FailureLeavesNoTrace ==
  stack = << >> /\ outcome = "reverted" => store = origin

\* Code that gets control during a route only ever sees storage that whole phases
\* produced, and a failing call takes back exactly what came after its entry.
AbsState == IF InStage("compute") \/ InStage("commit") THEN Top.pre ELSE store

Abs == INSTANCE AtomicPhases
         WITH state <- AbsState,
              saved <- [d \in DOMAIN stack |-> stack[d].entry],
              Declared <- AllPhases

StorageMovesByPhases == Abs!ASpec

\* Every transaction comes to an end: no statement is run over and over.
TransactionsEnd == stack # << >> ~> stack = << >>
=============================================================================
