--------------------------- MODULE HashMapSidecar ---------------------------
(***************************************************************************)
(* A HashMap<K, V> member on EVM: a Solidity mapping and, where the        *)
(* program asks for membership or iterates, the sidecars <m>_exists,       *)
(* <m>_keys and <m>_keys_index, kept by the writes a transform lowers to   *)
(* (gen_mapping_transform_split).                                          *)
(*                                                                         *)
(* A transform body is a chain of method calls on the member.  Its keys    *)
(* and values go to temporaries before the first write (the setup), so a   *)
(* value that reads the member reads it as it was.                         *)
(***************************************************************************)
EXTENDS Naturals, Sequences, FiniteSets

CONSTANTS
  Keys,
  Values,
  Zero,      \* what a mapping holds where nothing was stored
  Shapes,    \* the sidecars the member may have
  Bodies     \* the transform bodies for each of them

ASSUME SidecarAssumption ==
  /\ Zero \in Values
  /\ Keys \cap Values = {}
  /\ Shapes \subseteq {"plain", "exists", "iterated"}
  /\ \A s \in Shapes : Bodies[s] \subseteq
       Seq([kind : {"update", "nested", "remove"}, key : Keys, val : Values \cup Keys])

VARIABLES
  shape,    \* never changes
  value,    \* mapping(K => V) m
  exists,   \* mapping(K => bool) m_exists
  index,    \* mapping(K => uint256) m_keys_index
  keys,     \* K[] m_keys
  todo,     \* the writes still to come, on the temporaries of the setup
  meant     \* the map the transforms so far describe

storage == <<value, exists, index, keys>>
vars == <<shape, value, exists, index, keys, todo, meant>>

Ops == [kind : {"update", "nested", "remove"}, key : Keys, val : Values]

(***************************************************************************)
(* What a body means, and what is left of it.  "nested" is an update whose *)
(* value is again an update: m.update(k, m[k].update(k2, v)).              *)
(***************************************************************************)
\* Mutant: the key a value reads is kept, and read again by the write.
Unevaluated(op) == op

\* A value is a literal or the member's entry at a key.
Evaluated(op) == [op EXCEPT !.val = IF op.val \in Keys THEN value[op.val] ELSE op.val]

Apply(map, op) ==
  LET rest == IF op.kind = "remove" THEN DOMAIN map \ {op.key} ELSE DOMAIN map \cup {op.key}
  IN  [k \in rest |-> IF k = op.key THEN op.val ELSE map[k]]

Meaning(ops, map) ==
  LET after[i \in 0..Len(ops)] == IF i = 0 THEN map ELSE Apply(after[i - 1], ops[i])
  IN  after[Len(ops)]

\* A chain that ends in a remove is that remove; otherwise the updates are
\* collected back to the first call of another kind.
Reached(ops) ==
  { i \in DOMAIN ops :
      IF ops[Len(ops)].kind = "remove"
        THEN i = Len(ops)
        ELSE \A j \in i..Len(ops) : ops[j].kind # "remove" }

\* Mutant: only the last call of a chain is lowered.
LastCall(ops) == SubSeq(ops, Len(ops), Len(ops))

Lowered(ops) == SubSeq(ops, Len(ops) - Cardinality(Reached(ops)) + 1, Len(ops))

Init ==
  /\ shape \in Shapes
  /\ value = [k \in Keys |-> Zero]
  /\ exists = [k \in Keys |-> FALSE]
  /\ index = [k \in Keys |-> 0]
  /\ keys = << >>
  /\ todo = << >>
  /\ meant = << >>

\* The setup of a transform.
Begin(b) ==
  LET ops == [i \in DOMAIN b |-> Evaluated(b[i])]
  IN  /\ todo = << >>
      /\ b # << >>
      /\ todo' = Lowered(ops)
      /\ meant' = Meaning(ops, meant)
      /\ UNCHANGED <<shape, value, exists, index, keys>>

(***************************************************************************)
(* The writes                                                              *)
(***************************************************************************)
Writing(kind) == todo # << >> /\ Head(todo).kind = kind

\* m_keys_index[k] = m_keys.length; m_keys.push(k)
Enumerate(k) ==
  IF shape = "iterated"
    THEN index' = [index EXCEPT ![k] = Len(keys)] /\ keys' = Append(keys, k)
    ELSE UNCHANGED <<index, keys>>

\* Mutant: every update enumerates its key, known or not.
WriteUpdateUnguarded ==
  LET k == Head(todo).key
  IN  /\ Writing("update")
      /\ Enumerate(k)
      /\ exists' = IF shape = "plain" THEN exists ELSE [exists EXCEPT ![k] = TRUE]
      /\ value' = [value EXCEPT ![k] = Head(todo).val]
      /\ todo' = Tail(todo)
      /\ UNCHANGED <<shape, meant>>

WriteUpdate ==
  LET k == Head(todo).key
  IN  /\ Writing("update")
      /\ IF shape # "plain" /\ ~exists[k]
           THEN Enumerate(k) /\ exists' = [exists EXCEPT ![k] = TRUE]
           ELSE UNCHANGED <<index, keys, exists>>
      /\ value' = [value EXCEPT ![k] = Head(todo).val]
      /\ todo' = Tail(todo)
      /\ UNCHANGED <<shape, meant>>

\* m[k][k2] = v: no sidecar of m is written.
WriteNested ==
  /\ Writing("nested")
  /\ value' = [value EXCEPT ![Head(todo).key] = Head(todo).val]
  /\ todo' = Tail(todo)
  /\ UNCHANGED <<shape, exists, index, keys, meant>>

\* Mutant: the index of the key that moves is not brought up to date.
SwapPopStale(k) ==
  LET i == index[k]
      last == Len(keys) - 1
      moved == [keys EXCEPT ![i + 1] = keys[last + 1]]
  IN  /\ keys' = SubSeq(IF i # last THEN moved ELSE keys, 1, last)
      /\ index' = [index EXCEPT ![k] = 0]

\* The last key takes the slot of k, and the array shrinks.
SwapPop(k) ==
  LET i == index[k]
      last == Len(keys) - 1
      moved == [keys EXCEPT ![i + 1] = keys[last + 1]]
  IN  /\ keys' = SubSeq(IF i # last THEN moved ELSE keys, 1, last)
      /\ index' = [(IF i # last THEN [index EXCEPT ![keys[last + 1]] = i] ELSE index)
                     EXCEPT ![k] = 0]

WriteRemove ==
  LET k == Head(todo).key
  IN  /\ Writing("remove")
      /\ IF shape = "iterated" /\ exists[k]
           THEN SwapPop(k)
           ELSE UNCHANGED <<index, keys>>
      /\ exists' = IF shape = "plain" THEN exists ELSE [exists EXCEPT ![k] = FALSE]
      /\ value' = [value EXCEPT ![k] = Zero]
      /\ todo' = Tail(todo)
      /\ UNCHANGED <<shape, meant>>

Write == WriteUpdate \/ WriteNested \/ WriteRemove

Next == Write \/ \E b \in Bodies[shape] : Begin(b)

Spec == Init /\ [][Next]_vars

(***************************************************************************)
(* Correctness                                                             *)
(***************************************************************************)
\* The storage is well typed; the keys and values of the writes to come are fixed.
TypeOK ==
  /\ shape \in Shapes
  /\ value \in [Keys -> Values]
  /\ exists \in [Keys -> BOOLEAN]
  /\ index \in [Keys -> Nat]
  /\ keys \in Seq(Keys)
  /\ todo \in Seq(Ops)

\* m_keys lists the existing keys once each, and m_keys_index finds each of them:
\* an iteration visits every entry, a swap-pop hits the slot it means to
\* (gen_mapping_transform_split's guarded maintenance).
KeysIndexed ==
  shape = "iterated" =>
    /\ \A i \in 1..Len(keys) : exists[keys[i]] /\ index[keys[i]] = i - 1
    /\ \A k \in Keys : exists[k] => index[k] < Len(keys) /\ keys[index[k] + 1] = k

\* Between transforms, reads and membership tests answer as the map the bodies
\* describe: no call of an accepted body is lost (E17: "silent miscompile").
StorageMeansMap ==
  todo = << >> =>
    /\ \A k \in Keys : value[k] = IF k \in DOMAIN meant THEN meant[k] ELSE Zero
    /\ shape # "plain" => \A k \in Keys : exists[k] <=> k \in DOMAIN meant

\* An iterated member keeps the documented order: a new key goes last, an old one
\* keeps its place, and the last key takes a removed one's place.
Enum == INSTANCE EnumerableMap
          WITH entries <- [i \in DOMAIN keys |-> [key |-> keys[i], val |-> value[keys[i]]]]

Enumerates == Enum!ESpec
=============================================================================
