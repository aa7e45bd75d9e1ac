------------------------------ MODULE DfsOrder ------------------------------
(***************************************************************************)
(* The order in which declarations are emitted (graph.rs, dfs_topo): a     *)
(* depth-first walk from each declaration in source order that emits a     *)
(* declaration behind what it refers to.  Types, pure functions and the    *)
(* `let`s of a property are ordered this way, since Lean has no forward    *)
(* references.                                                             *)
(***************************************************************************)
EXTENDS Naturals, Sequences

CONSTANTS N,         \* declarations, numbered in source order
          Programs   \* the references considered, a list for each declaration

Items == 1..N

ASSUME ItemsAssumption == N \in Nat /\ Programs \subseteq [Items -> Seq(Items)]

VARIABLES
  refs,      \* references of each declaration, in the order of the walk
  state,     \* "unvisited", "on-stack" or "done"
  stack,     \* calls of visit, innermost last
  ordered,   \* the result so far
  next       \* the declaration whose turn it is

vars == <<refs, state, stack, ordered, next>>

Top == stack[Len(stack)]
Elems(s) == { s[k] : k \in 1..Len(s) }
Refs(i) == Elems(refs[i])

-----------------------------------------------------------------------------
Init ==
  /\ refs \in Programs
  /\ state = [i \in Items |-> "unvisited"]
  /\ stack = << >>
  /\ ordered = << >>
  /\ next = 1

Open(i) ==
  /\ state' = [state EXCEPT ![i] = "on-stack"]
  /\ stack' = Append(stack, [item |-> i, left |-> refs[i]])

\* The loop over the declarations: one that is visited already is passed over.
Start ==
  /\ stack = << >> /\ next \in Items
  /\ next' = next + 1
  /\ IF state[next] = "unvisited" THEN Open(next) ELSE UNCHANGED <<state, stack>>
  /\ UNCHANGED <<refs, ordered>>

Rest == [Top EXCEPT !.left = Tail(@)]

\* visit of the next reference, which is unvisited.
Descend ==
  /\ stack # << >> /\ Top.left # << >> /\ state[Head(Top.left)] = "unvisited"
  /\ LET i == Head(Top.left)
     IN  /\ state' = [state EXCEPT ![i] = "on-stack"]
         /\ stack' = Append([stack EXCEPT ![Len(stack)] = Rest],
                            [item |-> i, left |-> refs[i]])
  /\ UNCHANGED <<refs, ordered, next>>

\* Mutant: only what is done is skipped, not what is on the stack.
SkipDone ==
  /\ stack # << >> /\ Top.left # << >> /\ state[Head(Top.left)] = "done"
  /\ stack' = [stack EXCEPT ![Len(stack)] = Rest]
  /\ UNCHANGED <<refs, state, ordered, next>>

\* A reference that is done, or on the stack: the back edge of a cycle.
Skip ==
  /\ stack # << >> /\ Top.left # << >> /\ state[Head(Top.left)] # "unvisited"
  /\ stack' = [stack EXCEPT ![Len(stack)] = Rest]
  /\ UNCHANGED <<refs, state, ordered, next>>

\* Mutant: a declaration is emitted before its references are all visited.
EmitEarly ==
  /\ stack # << >>
  /\ Len(Top.left) <= 1
  /\ state' = [state EXCEPT ![Top.item] = "done"]
  /\ ordered' = Append(ordered, Top.item)
  /\ stack' = SubSeq(stack, 1, Len(stack) - 1)
  /\ UNCHANGED <<refs, next>>

\* Mutant: a declaration is emitted and stays open for another visit.
EmitUnmarked ==
  /\ stack # << >> /\ Top.left = << >>
  /\ state' = [state EXCEPT ![Top.item] = "unvisited"]
  /\ ordered' = Append(ordered, Top.item)
  /\ stack' = SubSeq(stack, 1, Len(stack) - 1)
  /\ UNCHANGED <<refs, next>>

Emit ==
  /\ stack # << >> /\ Top.left = << >>
  /\ state' = [state EXCEPT ![Top.item] = "done"]
  /\ ordered' = Append(ordered, Top.item)
  /\ stack' = SubSeq(stack, 1, Len(stack) - 1)
  /\ UNCHANGED <<refs, next>>

Next == Start \/ Descend \/ Skip \/ Emit

Spec == Init /\ [][Next]_vars /\ WF_vars(Next)

Done == stack = << >> /\ next = N + 1

-----------------------------------------------------------------------------
\* Whatever contains a and all that its members refer to contains b.
Closed(S) == \A x \in S : Refs(x) \subseteq S
Reaches(a, b) == \A S \in SUBSET Items : a \in S /\ Closed(S) => b \in S
OnOneCycle(a, b) == Reaches(a, b) /\ Reaches(b, a)

\* Type correctness; a declaration is on the stack once, or emitted once.
TypeOK ==
  /\ refs \in [Items -> Seq(Items)]
  /\ state \in [Items -> {"unvisited", "on-stack", "done"}]
  /\ stack \in Seq([item : Items, left : Seq(Items)])
  /\ ordered \in Seq(Items)
  /\ next \in 1..(N + 1)
  /\ \A i \in Items : state[i] = "on-stack" <=> \E k \in 1..Len(stack) : stack[k].item = i
  /\ \A j, k \in 1..Len(stack) : stack[j].item = stack[k].item => j = k

\* Every declaration is emitted at most once, and exactly the finished ones
\* are (order_type_items takes each item out of its slot and panics on a second).
EmittedOnce ==
  /\ \A j, k \in 1..Len(ordered) : ordered[j] = ordered[k] => j = k
  /\ \A i \in Items : state[i] = "done" <=> i \in Elems(ordered)

\* What a declaration refers to is emitted before it, unless the two lie on a
\* cycle: there is no forward reference where one can be avoided.
DepsFirst ==
  \A k \in 1..Len(ordered) : \A d \in Refs(ordered[k]) :
    \/ OnOneCycle(ordered[k], d)
    \/ \E j \in 1..(k - 1) : ordered[j] = d

\* The walk ends with every declaration emitted, cycles or not.
WalkEnds == <>(Done /\ Elems(ordered) = Items)

\* The declarations of a cycle keep their source order (pure_order.rs).
CycleKeepsSource ==
  \A j, k \in 1..Len(ordered) :
    j < k /\ OnOneCycle(ordered[j], ordered[k]) => ordered[j] < ordered[k]
=============================================================================
