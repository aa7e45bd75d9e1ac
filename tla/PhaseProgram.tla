---------------------------- MODULE PhaseProgram ----------------------------
(***************************************************************************)
(* What one phase of a route declares, as far as the order of storage      *)
(* reads and writes depends on it: its member transforms, already sorted   *)
(* by the temporal order, and its statements.  RouteExec says what the     *)
(* emitted Solidity does with such a phase, AtomicPhases what a phase      *)
(* promises.  A mapping member stands for the one entry a route touches.   *)
(***************************************************************************)
EXTENDS Naturals, Sequences

CONSTANTS
  Members,         \* the entity's state members
  Maps,            \* the HashMap-typed ones
  Vecs,            \* the Vec-typed ones
  Values,          \* what a member can hold
  Eval(_, _, _),   \* Eval(t, plain, next): the body of transform t, given the
                   \* values of its plain reads and of its ^ reads
  RouteNames,
  NoRoute          \* the "to" of a statement that calls no route of this entity

\* "scalar": next_<m> is computed, then committed (also a Vec that is assigned).
\* "mapping": an insert/update/remove whose keys and values go to temporaries.
\* "branch": a mapping body that is an `if`; its branches stay in the write.
\* "push": m.push(x), appended in place.
Kinds == {"scalar", "mapping", "branch", "push"}

Transforms ==
  [ member : Members,
    kind   : Kinds,
    scoped : BOOLEAN,            \* parameter aliases or a `let`: needs_scope
    reads  : SUBSET Members,     \* members read plainly
    after  : SUBSET Members ]    \* members read as ^m

\* "call": a send, var-call or deploy (control leaves the contract);
\* "route": a call of a route of the same entity; "return": a terminator.
Statements ==
  [ kind  : {"call", "route", "return"},
    reads : SUBSET Members,
    to    : RouteNames \cup {NoRoute} ]

Phases == [ txs : Seq(Transforms), stmts : Seq(Statements) ]

Committed(p) == { p.txs[k].member : k \in DOMAIN p.txs }

Only(vals, S) == [m \in S |-> vals[m]]

(***************************************************************************)
(* The promise of a phase.  post is what the phase makes of pre when every *)
(* transform sees pre, and the new value only of a member it reads as ^m.  *)
(* skipped holds the `if` transforms whose condition was false.            *)
(***************************************************************************)
AtomicPost(p, pre, post, skipped) ==
  /\ \A m \in Members \ Committed(p) : post[m] = pre[m]
  /\ \A k \in DOMAIN p.txs :
       LET t == p.txs[k]
       IN  post[t.member] = IF k \in skipped
                              THEN pre[t.member]
                              ELSE Eval(t, Only(pre, t.reads), Only(post, t.after))

(***************************************************************************)
(* What the emitter is handed: transforms of the kind their members' types *)
(* call for, in an order that puts a ^ read behind all transforms of the   *)
(* member it refers to (TemporalOrder).  A member may be transformed more  *)
(* than once; a transform is looked up by its member, so that each time it *)
(* is the first one.                                                       *)
(***************************************************************************)
KindFits(t) ==
  /\ t.kind \in {"mapping", "branch"} <=> t.member \in Maps
  /\ t.kind = "push" => t.member \in Vecs

TemporallyOrdered(txs) ==
  \A j, k \in DOMAIN txs : txs[k].member \in txs[j].after => k < j

Resolved(txs) ==
  \A j, k \in DOMAIN txs : txs[j].member = txs[k].member => txs[j] = txs[k]

WellFormed(p) ==
  /\ \A k \in DOMAIN p.txs : KindFits(p.txs[k])
  /\ TemporallyOrdered(p.txs)
  /\ Resolved(p.txs)

\* Written where it is computed, instead of with the commits.
InPlace(t) ==
  \/ t.kind = "push"
  \/ t.kind \in {"mapping", "branch"} /\ t.scoped

\* Its branches, keys and values included, are evaluated by the write itself.
Late(t) == t.kind = "branch" /\ ~t.scoped

\* A ^ read of a mapping by the transform at j flushes the mapping's writes.
Flushes(p, k, j) == k < j /\ p.txs[k].member \in p.txs[j].after \cap Maps

\* The write of transform k is in storage before transform j is computed.
LandsBefore(p, k, j) ==
  \/ k < j /\ InPlace(p.txs[k])
  \/ \E i \in DOMAIN p.txs : i <= j /\ Flushes(p, k, i)

\* The write of transform k is in storage before the commits begin.
LandsEarly(p, k) == InPlace(p.txs[k]) \/ \E i \in DOMAIN p.txs : Flushes(p, k, i)

(***************************************************************************)
(* The phases on which the lowering keeps the promise: a member has one    *)
(* transform, and nobody reads it plainly once its new value is in         *)
(* storage.  No rule of the validator insists on either.                   *)
(***************************************************************************)
OneEach(p) ==
  \A j, k \in DOMAIN p.txs : p.txs[j].member = p.txs[k].member => j = k

Outbound(p) ==
  { s \in { p.stmts[i] : i \in DOMAIN p.stmts } : s.kind \in {"call", "route"} }

TransformsIsolated(p) ==
  \A j, k \in DOMAIN p.txs :
    p.txs[k].member \in p.txs[j].reads =>
      /\ ~LandsBefore(p, k, j)
      /\ Late(p.txs[j]) /\ j # k => k > j /\ ~LandsEarly(p, k)

EffectsIsolated(p) ==
  \A s \in Outbound(p) : \A k \in DOMAIN p.txs :
    p.txs[k].member \in s.reads => ~LandsEarly(p, k) /\ p.txs[k].member \notin Vecs

Isolated(p) == OneEach(p) /\ TransformsIsolated(p) /\ EffectsIsolated(p)
=============================================================================
