--------------------------- MODULE EnumerableMap ---------------------------
(***************************************************************************)
(* What an iterated HashMap member promises (docs/EVM_GAPS.md, "Ordering   *)
(* guarantees"): its entries in the order an iteration visits them.        *)
(***************************************************************************)
EXTENDS Naturals, Sequences

CONSTANTS Keys, Values

VARIABLE entries

At(k) == { i \in DOMAIN entries : entries[i].key = k }

\* A first insert appends; a later one keeps the key's position.
Put(k, v) ==
  \/ /\ At(k) = {}
     /\ entries' = Append(entries, [key |-> k, val |-> v])
  \/ \E i \in At(k) : entries' = [entries EXCEPT ![i] = [key |-> k, val |-> v]]

\* The last entry takes the place of a removed one.
Drop(k) ==
  \E i \in At(k) :
    entries' = [j \in 1..(Len(entries) - 1) |->
                  IF j = i THEN entries[Len(entries)] ELSE entries[j]]

EInit == entries = << >>
ENext == \E k \in Keys : Drop(k) \/ \E v \in Values : Put(k, v)
ESpec == EInit /\ [][ENext]_entries
=============================================================================
