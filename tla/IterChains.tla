----------------------------- MODULE IterChains -----------------------------
(***************************************************************************)
(* A chain over a range, a Vec or a map, `<source>.<stages>.collect()` or  *)
(* `.fold(..)`, and the `for` expression.  The Solidity backend fuses all   *)
(* of it into one loop (solidity/core/iter.rs), here step by step; the Lean *)
(* backend nests functions on lists (lean/core/iter.rs), here the          *)
(* reference.                                                              *)
(*                                                                         *)
(* An element is a sequence: one component for a scalar, two for the pair  *)
(* of a map or of enumerate.  A closure's pattern fits the element it gets.*)
(***************************************************************************)
EXTENDS Naturals, Sequences, SequencesExt

CONSTANTS Chains,   \* of records [source, stages, end]
          Word      \* the largest value of the elements' integer type

IterChainsAssumption == Word \in Nat

VARIABLES chain,   \* never changes
          loop,    \* "start", "round", "stage", "done" or "reverted"
          idx,     \* the loop's index
          at,      \* the stage the current element has come to
          elem,    \* the current element
          taken,   \* _cam_taken
          result   \* the collected values, or the accumulator

chainVars == <<chain, loop, idx, at, elem, taken, result>>

Stages == chain.stages
Collecting == chain.end.op \in {"collect", "for"}

\* resolve_iter_source: how many rounds, and the element of a round.
Count(src) == CASE src.shape = "range" -> src.to - src.from
                [] src.shape = "vec"   -> Len(src.items)
                [] src.shape = "map"   -> Len(src.keys)
                [] src.shape = "inner" -> 0    \* a nested map has no key array

Element(src, k) == CASE src.shape = "range" -> <<src.from + k>>
                     [] src.shape = "vec"   -> <<src.items[k + 1]>>
                     [] src.shape = "map"   -> <<src.keys[k + 1], src.value[src.keys[k + 1]]>>

-----------------------------------------------------------------------------
\* What closures compute; a sum may exceed the word and a difference fall
\* below zero, which the contract does not survive.
Holds(by, e) == CASE by = "odd" -> Last(e) % 2 = 1 [] by = "first" -> e[1] # 0

Raw(f, e) == CASE f = "dec" -> Last(e) + Word [] f = "sum" -> e[1] + Last(e)
Fits(f, e) == CASE f = "dec" -> Last(e) > 0 [] f = "sum" -> e[1] + Last(e) <= Word
Mapped(f, e) == <<Raw(f, e) % (Word + 1)>>

\* |acc, x| acc + acc + x, which tells orders apart.
FoldRaw(acc, e) == acc + acc + Last(e)
FoldFits(acc, e) == FoldRaw(acc, e) <= Word
Folded(acc, e) == FoldRaw(acc, e) % (Word + 1)

-----------------------------------------------------------------------------
\* Shapes the fusion answers with a revert in place of the loop: pairs where
\* the terminator or enumerate wants scalars, scalars where values() wants
\* pairs; a `for` has no stages.
IsPair(n) ==   \* in front of stage n
  LET f[k \in 0 .. n - 1] ==
        IF k = 0 THEN chain.source.shape = "map"
        ELSE CASE Stages[k].op \in {"values", "map"} -> FALSE
               [] Stages[k].op = "enumerate" -> TRUE
               [] OTHER -> f[k - 1]
  IN f[n - 1]

Stubbed ==
  \/ chain.end.op = "collect" /\ IsPair(Len(Stages) + 1)
  \/ chain.end.op = "for" /\ Stages # << >>
  \/ \E k \in DOMAIN Stages : \/ Stages[k].op = "enumerate" /\ IsPair(k)
                              \/ Stages[k].op = "values" /\ ~IsPair(k)

Init ==
  /\ chain \in Chains
  /\ loop = "start" /\ idx = 0 /\ at = 1 /\ elem = << >> /\ taken = 0 /\ result = << >>

\* end - start is checked, and computed before anything else.
Start ==
  /\ loop = "start"
  /\ IF Stubbed \/ (chain.source.shape = "range" /\ chain.source.to < chain.source.from)
       THEN loop' = "reverted" /\ UNCHANGED result
       ELSE loop' = "round" /\ result' = IF Collecting THEN << >> ELSE 0
  /\ UNCHANGED <<chain, idx, at, elem, taken>>

Round ==
  /\ loop = "round"
  /\ IF idx < Count(chain.source)
       THEN loop' = "stage" /\ at' = 1 /\ elem' = Element(chain.source, idx)
       ELSE loop' = "done" /\ UNCHANGED <<at, elem>>
  /\ UNCHANGED <<chain, idx, taken, result>>

AtStage(op) == loop = "stage" /\ at <= Len(Stages) /\ Stages[at].op = op
On(e) == at' = at + 1 /\ elem' = e /\ UNCHANGED <<chain, loop, idx>>
NextRound == loop' = "round" /\ idx' = idx + 1

\* keys() of an inner map, too, which has no round.
Pass == AtStage("iter") /\ On(elem) /\ UNCHANGED <<taken, result>>

Project == AtStage("values") /\ On(<<elem[2]>>) /\ UNCHANGED <<taken, result>>

\* The index is the loop's.
Number == AtStage("enumerate") /\ On(<<idx, elem[1]>>) /\ UNCHANGED <<taken, result>>

\* Mutant: an element that is filtered out leaves the loop.
FilterBreaks ==
  /\ AtStage("filter")
  /\ \/ Holds(Stages[at].by, elem) /\ On(elem)
     \/ ~Holds(Stages[at].by, elem) /\ loop' = "done" /\ UNCHANGED <<chain, idx, at, elem>>
  /\ UNCHANGED <<taken, result>>

Filter ==
  /\ AtStage("filter")
  /\ \/ Holds(Stages[at].by, elem) /\ On(elem)
     \/ ~Holds(Stages[at].by, elem) /\ NextRound /\ UNCHANGED <<chain, at, elem>>
  /\ UNCHANGED <<taken, result>>

Map ==
  /\ AtStage("map")
  /\ \/ Fits(Stages[at].by, elem) /\ On(Mapped(Stages[at].by, elem))
     \/ ~Fits(Stages[at].by, elem) /\ loop' = "reverted" /\ UNCHANGED <<chain, idx, at, elem>>
  /\ UNCHANGED <<taken, result>>

\* Mutant: elements are counted by the loop's index.
TakeByIndex ==
  /\ AtStage("take")
  /\ \/ idx < Stages[at].n /\ On(elem) /\ taken' = taken + 1
     \/ idx >= Stages[at].n /\ loop' = "done" /\ UNCHANGED <<chain, idx, at, elem, taken>>
  /\ UNCHANGED result

\* One counter for all the takes of a chain.
Take ==
  /\ AtStage("take")
  /\ \/ taken < Stages[at].n /\ On(elem) /\ taken' = taken + 1
     \/ taken >= Stages[at].n /\ loop' = "done" /\ UNCHANGED <<chain, idx, at, elem, taken>>
  /\ UNCHANGED result

AtEnd(op) == loop = "stage" /\ at > Len(Stages) /\ chain.end.op = op

\* The next place of an array with one place for each round.
Collect ==
  /\ AtEnd("collect")
  /\ IF Len(result) < Count(chain.source)
       THEN result' = Append(result, elem[1]) /\ NextRound
       ELSE loop' = "reverted" /\ UNCHANGED <<result, idx>>
  /\ UNCHANGED <<chain, at, elem, taken>>

\* gen_for_loop writes at the loop's index.
ForBody ==
  /\ AtEnd("for")
  /\ IF Fits(chain.end.by, elem)
       THEN result' = Append(result, Mapped(chain.end.by, elem)[1]) /\ NextRound
       ELSE loop' = "reverted" /\ UNCHANGED <<result, idx>>
  /\ UNCHANGED <<chain, at, elem, taken>>

Fold ==
  /\ AtEnd("fold")
  /\ IF FoldFits(result, elem)
       THEN result' = Folded(result, elem) /\ NextRound
       ELSE loop' = "reverted" /\ UNCHANGED <<result, idx>>
  /\ UNCHANGED <<chain, at, elem, taken>>

Next == Start \/ Round \/ Pass \/ Project \/ Number \/ Filter \/ Map \/ Take \/ Collect \/ ForBody \/ Fold

Spec == Init /\ [][Next]_chainVars

-----------------------------------------------------------------------------
\* The Lean terms.  Words wrap, and subtraction of bounds stops at zero.
Listed(src) ==
  CASE src.shape = "range" ->
         [k \in 1 .. (IF src.to < src.from THEN 0 ELSE src.to - src.from) |-> <<src.from + k - 1>>]
    [] src.shape = "inner" -> [k \in DOMAIN src.keys |-> <<src.keys[k]>>]
    [] OTHER -> [k \in 1 .. Count(src) |-> Element(src, k - 1)]

Applied(list, s) ==
  CASE s.op \in {"iter", "keys"} -> list
    [] s.op = "values"    -> [k \in DOMAIN list |-> <<Last(list[k])>>]
    [] s.op = "enumerate" -> [k \in DOMAIN list |-> <<k - 1>> \o list[k]]
    [] s.op = "filter"    -> SelectSeq(list, LAMBDA e : Holds(s.by, e))
    [] s.op = "map"       -> [k \in DOMAIN list |-> Mapped(s.by, list[k])]
    [] s.op = "take"      -> SubSeq(list, 1, IF s.n < Len(list) THEN s.n ELSE Len(list))

\* The list in front of stage n.
ListAt(n) == FoldLeft(Applied, Listed(chain.source), SubSeq(Stages, 1, n - 1))

FoldOf(list) == FoldLeft(Folded, 0, list)

Meaning ==
  LET list == ListAt(Len(Stages) + 1)
  IN CASE chain.end.op = "collect" -> [k \in DOMAIN list |-> list[k][1]]
       [] chain.end.op = "for"     -> [k \in DOMAIN list |-> Mapped(chain.end.by, list[k])[1]]
       [] chain.end.op = "fold"    -> FoldOf(list)

\* Somewhere in the lists a closure leaves the word.
Leaves ==
  \/ \E n \in DOMAIN Stages :
       Stages[n].op = "map" /\ \E e \in ToSet(ListAt(n)) : ~Fits(Stages[n].by, e)
  \/ LET list == ListAt(Len(Stages) + 1)
     IN \/ chain.end.op = "for" /\ \E e \in ToSet(list) : ~Fits(chain.end.by, e)
        \/ chain.end.op = "fold" /\ \E k \in DOMAIN list : ~FoldFits(FoldOf(SubSeq(list, 1, k - 1)), list[k])

-----------------------------------------------------------------------------
\* What is known to differ, each kind apart.
TwoTakes == \E j, k \in DOMAIN Stages : j < k /\ Stages[j].op = "take" /\ Stages[k].op = "take"
NumbersFiltered == \E j, k \in DOMAIN Stages : j < k /\ Stages[j].op = "filter" /\ Stages[k].op = "enumerate"
Reversed == chain.source.shape = "range" /\ chain.source.to < chain.source.from
InnerKeys == chain.source.shape = "inner"

Departs == Stubbed \/ TwoTakes \/ NumbersFiltered \/ Reversed \/ InnerKeys

\* docs/LANGUAGE.md, "Iteration" and "EVM is ground truth for the Lean model":
\* but for the kinds above, the fused loop holds at each round a prefix of
\* what the list functions give (for a fold, the accumulator of one), in the
\* end all of it, and reverts only where a closure leaves the word.
LoopsMeanLists ==
  ~Departs =>
    /\ loop \in {"round", "stage"} =>
         IF Collecting THEN IsPrefix(result, Meaning)
         ELSE LET list == ListAt(Len(Stages) + 1)
              IN \E k \in 0 .. Len(list) : result = FoldOf(SubSeq(list, 1, k))
    /\ loop = "done" => result = Meaning
    /\ loop = "reverted" => Leaves
=============================================================================
