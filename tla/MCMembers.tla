------------------------------ MODULE MCMembers ------------------------------
(***************************************************************************)
(* What members hold after the writes their transforms are lowered to, and *)
(* where they are reset: three machines side by side.  A behaviour is one  *)
(* of a mapping and its sidecars (HashMapSidecar), on three keys and two   *)
(* values and with chains of up to three calls; one of four members of     *)
(* different kinds whose transforms may empty them (Resets); or one of a   *)
(* layout and of the tests that seed members by it (StorageLayout).        *)
(***************************************************************************)
EXTENDS HashMapSidecar, Resets, StorageLayout, TLC

CONSTANTS k1, k2, k3, zero, one
MCKeys == {k1, k2, k3}
MCValues == {zero, one}

Update(k, x) == [kind |-> "update", key |-> k, val |-> x]
Nested(k, x) == [kind |-> "nested", key |-> k, val |-> x]
Remove(k) == [kind |-> "remove", key |-> k, val |-> zero]

Updates == { Update(k, x) : k \in MCKeys, x \in MCValues \cup MCKeys }
Removes == { Remove(k) : k \in MCKeys }
Chains(S, n) == UNION { [1..l -> S] : l \in 1..n }

\* What the lowering reaches all of: a chain of updates, or one remove.
Uniform == Chains(Updates, 2) \cup Chains(Removes, 1)
           \cup { << Update(x, y), Update(y, x), Update(z, x) >> : x, y, z \in MCKeys }
NestedUpdates == { << Nested(k, one) >> : k \in MCKeys }

\* E17 accepts every chain by its last call.
Mixed == Uniform \cup { << r, u >> : r \in Removes, u \in Updates }

AllShapes == {"plain", "exists", "iterated"}
Plain == {"plain"}
MCBodies == [s \in AllShapes |-> IF s = "plain" THEN Uniform \cup NestedUpdates ELSE Uniform]
MixedBodies == [s \in Plain |-> Mixed]

\* Four kinds of members: a HashMap, a Vec of records, a Vec of values, a word.
Kinds == {"map", "records", "values", "word"}
MCKind == [m \in Kinds |-> m]

-----------------------------------------------------------------------------
\* Entities of three members, of two with what compute_layout overlooks, and
\* of four small values; laid out as built, and for a test, which never asks
\* for a deterministic build.
Shape(kind, asked, iterated, type) ==
  [kind |-> kind, exists |-> asked, iterated |-> iterated, inner |-> FALSE, type |-> type]
Simple(type) == Shape("plain", "never", FALSE, type)

Small == { Simple(<< Value(n) >>) : n \in {1, 8, 16, 20} }
Ordinary ==
  { Simple(t) : t \in { << Value(1) >>, << Value(8) >>, << Value(20) >>, << Value(32) >>, << Option(8) >>,
                       << Record, Value(8), Value(32), Value(1), Close >>,
                       << Record, Value(1), Record, Value(8), Dynamic, Close, Option(1), Close >>,
                       << Payload, Value(20), Record, Value(16), Close, Value(16), Dynamic, Close >>,
                       << Record, Payload, Value(1), Option(8), Close, Value(1), Close >> } }
    \cup { Shape("mapping", "never", FALSE, << Dynamic >>), Shape("mapping", "transform", FALSE, << Dynamic >>),
           Shape("array", "never", FALSE, << Dynamic >>), Shape("identity", "never", FALSE, << Value(20) >>) }
Overseen ==
  { Shape("mapping", "elsewhere", FALSE, << Dynamic >>), Shape("mapping", "never", TRUE, << Dynamic >>),
    Shape("identity", "never", FALSE, << Dynamic >>), Simple(<< Option(32) >>) }

Named(s) == [ k \in DOMAIN s |-> [name |-> <<"a", "b", "c", "d">>[k]] @@ s[k] ]
Builds == { <<FALSE, FALSE, FALSE>>, <<TRUE, TRUE, TRUE>>, <<FALSE, TRUE, TRUE>> }
Laid ==
  { [members |-> Named(s), asked |-> b[1], built |-> b[2], initParams |-> b[3]] :
      s \in [1..3 -> Ordinary] \cup [1..2 -> Ordinary \cup Overseen] \cup [1..4 -> Small], b \in Builds }

-----------------------------------------------------------------------------
VARIABLE part

all == <<part, vars, resetVars, layoutVars>>

MInit ==
  /\ part \in {"sidecars", "kinds", "layout"}
  /\ Init /\ (part # "sidecars" => shape = "plain")
  /\ ResetInit
  /\ \/ part = "layout" /\ LayoutInit
     \/ part # "layout" /\ entity = [members |-> << >>, asked |-> FALSE, built |-> FALSE, initParams |-> FALSE]
          /\ Start

Mapping == part = "sidecars" /\ Next /\ UNCHANGED <<part, resetVars, layoutVars>>
Resetting == part = "kinds" /\ ResetNext /\ UNCHANGED <<part, vars, layoutVars>>
LayingOut == part = "layout" /\ LayoutNext /\ UNCHANGED <<part, vars, resetVars>>

MNext == Mapping \/ Resetting \/ LayingOut

MSpec == MInit /\ [][MNext]_all
=============================================================================
