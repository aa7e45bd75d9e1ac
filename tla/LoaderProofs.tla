---------------------------- MODULE LoaderProofs ----------------------------
(***************************************************************************)
(* Proofs about Loader, for any project: what is loaded is loaded once, a  *)
(* file's kind is what `sources:` says, and what is merged is closed and   *)
(* free of foreign entities and of duplicates.                             *)
(***************************************************************************)
EXTENDS Loader, SequenceTheorems, TLAPS

QueueItems == [path : Paths, kind : Kinds]
OutItems == [path : Paths \ Missing, kind : Kinds]

-----------------------------------------------------------------------------
(***************************************************************************)
(* Elements of sequences.                                                  *)
(***************************************************************************)
LEMMA ElemsAppend ==
  ASSUME NEW S, NEW s \in Seq(S), NEW x \in S
  PROVE  Elems(Append(s, x)) = Elems(s) \cup {x}
<1>1. \A k \in 1..Len(s) : Append(s, x)[k] = s[k]
  OBVIOUS
<1>2. Append(s, x)[Len(s) + 1] = x /\ Len(Append(s, x)) = Len(s) + 1
  OBVIOUS
<1>3. 1..(Len(s) + 1) = (1..Len(s)) \cup {Len(s) + 1}
  OBVIOUS
<1> QED  BY <1>1, <1>2, <1>3 DEF Elems

LEMMA ElemsHeadTail ==
  ASSUME NEW S, NEW s \in Seq(S), s # << >>
  PROVE  /\ Head(s) \in S /\ Tail(s) \in Seq(S)
         /\ Elems(s) = Elems(Tail(s)) \cup {Head(s)}
         /\ Len(s) \in Nat \ {0} /\ Len(Tail(s)) = Len(s) - 1 /\ Head(s) = s[1]
         /\ \A k \in 1..(Len(s) - 1) : Tail(s)[k] = s[k + 1]
<1>1. \A k \in 1..(Len(s) - 1) : Tail(s)[k] = s[k + 1]
  OBVIOUS
<1>2. Len(Tail(s)) = Len(s) - 1 /\ Head(s) = s[1] /\ Len(s) \in Nat \ {0}
  OBVIOUS
<1>3. Elems(s) \subseteq Elems(Tail(s)) \cup {Head(s)}
  <2> SUFFICES ASSUME NEW k \in 1..Len(s) PROVE s[k] \in Elems(Tail(s)) \cup {Head(s)}
    BY DEF Elems
  <2>1. CASE k = 1
    BY <2>1, <1>2
  <2>2. CASE k # 1
    <3>1. k - 1 \in 1..(Len(s) - 1) /\ Tail(s)[k - 1] = s[k]
      BY <2>2, <1>1, <1>2
    <3> QED  BY <3>1, <1>2 DEF Elems
  <2> QED  BY <2>1, <2>2
<1>4. Elems(Tail(s)) \cup {Head(s)} \subseteq Elems(s)
  <2>1. Head(s) \in Elems(s)
    BY <1>2 DEF Elems
  <2>2. \A k \in 1..Len(Tail(s)) : Tail(s)[k] \in Elems(s)
    BY <1>1, <1>2 DEF Elems
  <2> QED  BY <2>1, <2>2 DEF Elems
<1>5. Head(s) \in S /\ Tail(s) \in Seq(S)
  OBVIOUS
<1> QED  BY <1>1, <1>2, <1>3, <1>4, <1>5

LEMMA ElemsConcat ==
  ASSUME NEW S, NEW s \in Seq(S), NEW t \in Seq(S)
  PROVE  Elems(s \o t) = Elems(s) \cup Elems(t)
<1>1. /\ Len(s \o t) = Len(s) + Len(t) /\ Len(s) \in Nat /\ Len(t) \in Nat
      /\ \A k \in 1..(Len(s) + Len(t)) :
           (s \o t)[k] = IF k <= Len(s) THEN s[k] ELSE t[k - Len(s)]
  BY ConcatProperties
<1> DEFINE c == s \o t
<1> HIDE DEF c
<1>2. Len(c) = Len(s) + Len(t) /\ \A k \in 1..(Len(s) + Len(t)) :
           c[k] = IF k <= Len(s) THEN s[k] ELSE t[k - Len(s)]
  BY <1>1 DEF c
<1>3. ASSUME NEW k \in 1..Len(c) PROVE c[k] \in Elems(s) \cup Elems(t)
  <2>1. CASE k <= Len(s)
    BY <2>1, <1>1, <1>2 DEF Elems
  <2>2. CASE ~(k <= Len(s))
    <3>1. k - Len(s) \in 1..Len(t) /\ c[k] = t[k - Len(s)]
      BY <2>2, <1>1, <1>2
    <3> QED  BY <3>1 DEF Elems
  <2> QED  BY <2>1, <2>2
<1>4. ASSUME NEW k \in 1..Len(s) PROVE s[k] \in Elems(c)
  <2>1. k \in 1..Len(c) /\ c[k] = s[k]
    BY <1>1, <1>2
  <2> QED  BY <2>1 DEF Elems
<1>5. ASSUME NEW k \in 1..Len(t) PROVE t[k] \in Elems(c)
  <2>1. k + Len(s) \in 1..Len(c) /\ c[k + Len(s)] = t[k]
    BY <1>1, <1>2
  <2> QED  BY <2>1 DEF Elems
<1>6. Elems(c) = Elems(s) \cup Elems(t)
  BY <1>3, <1>4, <1>5 DEF Elems
<1> QED  BY <1>6 DEF c

\* Paths of one kind for the queue.
LEMMA TaggedElems ==
  ASSUME NEW paths \in Seq(Paths), NEW kind \in Kinds
  PROVE  /\ Tagged(paths, kind) \in Seq(QueueItems)
         /\ Elems(Tagged(paths, kind)) = { [path |-> p, kind |-> kind] : p \in Elems(paths) }
<1>1. Len(paths) \in Nat /\ \A k \in 1..Len(paths) : paths[k] \in Paths
  OBVIOUS
<1>2. Tagged(paths, kind) \in [1..Len(paths) -> QueueItems]
  BY <1>1 DEF Tagged, QueueItems
<1>3. Tagged(paths, kind) \in Seq(QueueItems) /\ Len(Tagged(paths, kind)) = Len(paths)
  BY <1>1, <1>2, LenProperties, SeqDef
<1>4. \A k \in 1..Len(paths) : Tagged(paths, kind)[k] = [path |-> paths[k], kind |-> kind]
  BY DEF Tagged
<1> QED  BY <1>3, <1>4 DEF Elems

\* What Parses adds to the queue.
Followed(imports) ==
  [k \in 1..Len(imports) |-> [path |-> imports[k].path, kind |-> "Imported"]]

LEMMA FollowedElems ==
  ASSUME NEW imports \in Seq([spec : STRING, path : Paths \cup {Unresolved}]),
         \A i \in Elems(imports) : i.path # Unresolved
  PROVE  /\ Followed(imports) \in Seq(QueueItems)
         /\ Len(Followed(imports)) = Len(imports)
         /\ \A k \in 1..Len(imports) : Followed(imports)[k].kind = "Imported"
         /\ Elems(Followed(imports)) =
              { [path |-> i.path, kind |-> "Imported"] : i \in Elems(imports) }
<1>1. Len(imports) \in Nat
  OBVIOUS
<1>2. ASSUME NEW k \in 1..Len(imports) PROVE imports[k].path \in Paths
  <2> DEFINE Specs == [spec : STRING, path : Paths \cup {Unresolved}]
  <2>0. ASSUME NEW S, imports \in Seq(S) PROVE imports[k] \in S
    BY <2>0
  <2>1. imports[k] \in Specs
    BY <2>0
  <2>2. imports[k] \in Elems(imports)
    BY DEF Elems
  <2> QED  BY <2>1, <2>2
<1>3. \A k \in 1..Len(imports) : [path |-> imports[k].path, kind |-> "Imported"] \in QueueItems
  BY <1>2 DEF QueueItems, Kinds
<1>4. Followed(imports) \in [1..Len(imports) -> QueueItems]
  BY <1>3 DEF Followed
<1>5. Followed(imports) \in Seq(QueueItems) /\ Len(Followed(imports)) = Len(imports)
  BY <1>1, <1>4, LenProperties, SeqDef
<1>6. \A k \in 1..Len(imports) : Followed(imports)[k] = [path |-> imports[k].path, kind |-> "Imported"]
  BY DEF Followed
<1> DEFINE f == Followed(imports)
<1> HIDE DEF f
<1>7. Len(f) = Len(imports) /\ \A k \in 1..Len(imports) : f[k] = [path |-> imports[k].path, kind |-> "Imported"]
  BY <1>5, <1>6 DEF f
<1>8. Elems(f) = { [path |-> i.path, kind |-> "Imported"] : i \in Elems(imports) }
  BY <1>7 DEF Elems
<1>9. ASSUME NEW k \in 1..Len(imports) PROVE f[k].kind = "Imported"
  <2>1. f[k] = [path |-> imports[k].path, kind |-> "Imported"]
    BY <1>7
  <2> QED  BY <2>1
<1> QED  BY <1>5, <1>8, <1>9 DEF f

-----------------------------------------------------------------------------
(***************************************************************************)
(* Types.                                                                  *)
(***************************************************************************)
Typed ==
  /\ IsProject(project)
  /\ queue \in Seq(QueueItems) /\ out \in Seq(OutItems)
  /\ Loaded \subseteq seen /\ seen \subseteq Files \cup Missing
  /\ diags \in 0..MaxErrors /\ result \in Results

LEMMA TypedIsTypeOK == Typed <=> TypeOK
  BY DEF Typed, TypeOK, QueueItems, OutItems

LEMMA InitTyped == Init => Typed
<1> SUFFICES ASSUME Init PROVE Typed
  OBVIOUS
<1>1. IsProject(project)
  BY LoaderAssumption DEF Init
<1>2. project.entries \in Seq(Paths) /\ project.extra \in Seq(Paths)
  BY <1>1 DEF IsProject
<1>3. queue \in Seq(QueueItems)
  BY <1>2, TaggedElems DEF Init, Kinds
<1>4. out \in Seq(OutItems) /\ Loaded = {}
  BY DEF Init, Loaded, Elems
<1>5. diags \in 0..MaxErrors /\ result \in Results /\ seen = {}
  BY LoaderAssumption DEF Init, Results
<1> QED  BY <1>1, <1>3, <1>4, <1>5 DEF Typed

\* The item at the front of the queue.
LEMMA ItemTyped ==
  ASSUME Typed, queue # << >>
  PROVE  /\ Item \in QueueItems /\ Item.path \in Paths
         /\ Canonical[Item.path] \in Files \cup Missing
         /\ Item \in Elems(queue)
         /\ Tail(queue) \in Seq(QueueItems)
         /\ Elems(queue) = Elems(Tail(queue)) \cup {Item}
<1>1. queue \in Seq(QueueItems)
  BY DEF Typed
<1>2. /\ Item \in QueueItems /\ Tail(queue) \in Seq(QueueItems)
      /\ Elems(queue) = Elems(Tail(queue)) \cup {Item}
  BY <1>1, ElemsHeadTail DEF Item
<1>3. Item.path \in Paths
  BY <1>2 DEF QueueItems
<1> QED  BY <1>2, <1>3, LoaderAssumption

\* What the actions do, each case by its effect.
Dropping == /\ Walking /\ queue' = Tail(queue) /\ UNCHANGED <<project, out, result>>
            /\ seen \subseteq seen' /\ seen' \subseteq seen \cup {Canonical[Item.path]}
            /\ Canonical[Item.path] \in seen'
            /\ (diags' = diags /\ seen' = seen) \/ (diags' > 0 /\ diags' >= diags)
            /\ diags' \in 0..MaxErrors

Failing == /\ Walking /\ UNCHANGED <<project, queue, out, diags>>
           /\ result' \in {"Io", "F5"} /\ seen' = seen \cup {Canonical[Item.path]}

Ending == /\ result = "walking" /\ queue = << >> /\ UNCHANGED <<project, queue, seen, out, diags>>
          /\ result' \in Results \ {"walking"}
          /\ result' = "merged" => diags = 0 /\ ~ForeignEntity /\ ~Duplicate

LEMMA StepEffects ==
  ASSUME Typed, [Next]_vars
  PROVE  Dropping \/ Failing \/ Parses \/ Ending \/ UNCHANGED vars
<1>1. CASE Again
  BY <1>1 DEF Again, Dropping, Typed
<1>2. CASE NotThere
  BY <1>2 DEF NotThere, Take, Fail, Failing
<1>3. CASE DoesNotParse
  <2>1. /\ project.errors[File] \in Nat /\ project.errors[File] > 0
    <3>1. Item.path \in Paths /\ Item.path \notin Missing /\ queue # << >>
      BY <1>3, ItemTyped DEF DoesNotParse, Take, Walking
    <3>2. File \in Files
      BY <1>3, <3>1, LoaderAssumption DEF File, Typed, DoesNotParse, Take
    <3> QED  BY <1>3, <3>2 DEF DoesNotParse, Typed, IsProject
  <2>2. diags \in 0..MaxErrors /\ MaxErrors \in Nat \ {0}
    BY LoaderAssumption DEF Typed
  <2>3. diags' = diags + (IF project.errors[File] < Room THEN project.errors[File] ELSE Room)
    BY <1>3 DEF DoesNotParse
  <2>4. Room = MaxErrors - diags
    BY DEF Room
  <2>5. diags' > 0 /\ diags' >= diags /\ diags' \in 0..MaxErrors
    BY <2>1, <2>2, <2>3, <2>4
  <2> QED  BY <1>3, <2>5 DEF DoesNotParse, Take, Dropping
<1>4. CASE DoesNotResolve
  BY <1>4 DEF DoesNotResolve, Take, Fail, Failing
<1>5. CASE Finish
  <2>1. diags > 0 \/ diags = 0
    BY LoaderAssumption DEF Typed
  <2> QED  BY <1>5, <2>1 DEF Finish, Ending, Results
<1> QED  BY <1>1, <1>2, <1>3, <1>4, <1>5 DEF Next

LEMMA ParsesEffects ==
  ASSUME Typed, Parses
  PROVE  /\ result = "walking" /\ queue # << >>
         /\ Item \in OutItems /\ Canonical[Item.path] \in Files \ seen
         /\ project.errors[Canonical[Item.path]] = 0
         /\ seen' = seen \cup {Canonical[Item.path]}
         /\ out' = Append(out, Item) /\ out' \in Seq(OutItems)
         /\ Elems(out') = Elems(out) \cup {Item}
         /\ Imports \in Seq([spec : STRING, path : Paths \cup {Unresolved}])
         /\ \A i \in Elems(Imports) : i.path # Unresolved
         /\ queue' = Tail(queue) \o Followed(Imports) /\ queue' \in Seq(QueueItems)
         /\ Elems(queue') = Elems(Tail(queue))
                             \cup { [path |-> i.path, kind |-> "Imported"] : i \in Elems(Imports) }
         /\ UNCHANGED <<project, diags, result>>
<1>1. result = "walking" /\ queue # << >> /\ Item.path \notin Missing
      /\ Canonical[Item.path] \notin seen /\ project.errors[Canonical[Item.path]] = 0
  BY DEF Parses, Take, Walking, File
<1>2. Item \in QueueItems /\ Item.path \in Paths /\ Tail(queue) \in Seq(QueueItems)
  BY <1>1, ItemTyped
<1>3. Item \in OutItems /\ Canonical[Item.path] \in Files
  BY <1>1, <1>2, LoaderAssumption DEF QueueItems, OutItems
<1>4. out' = Append(out, Item) /\ out \in Seq(OutItems)
  BY DEF Parses, Typed
<1>5. out' \in Seq(OutItems)
  BY <1>3, <1>4
<1>6. Elems(out') = Elems(out) \cup {Item}
  BY <1>3, <1>4, ElemsAppend
<1>7. Imports \in Seq([spec : STRING, path : Paths \cup {Unresolved}])
  BY <1>2 DEF Imports, Typed, IsProject
<1>8. \A i \in Elems(Imports) : i.path # Unresolved
  BY DEF Parses
<1>9. queue' = Tail(queue) \o Followed(Imports)
  BY DEF Parses, Followed
<1>10. Followed(Imports) \in Seq(QueueItems)
       /\ Elems(Followed(Imports)) = { [path |-> i.path, kind |-> "Imported"] : i \in Elems(Imports) }
  BY <1>7, <1>8, FollowedElems
<1>11. queue' \in Seq(QueueItems)
  BY <1>2, <1>9, <1>10
<1>12. Elems(queue') = Elems(Tail(queue)) \cup Elems(Followed(Imports))
  <2>1. PICK s, t \in Seq(QueueItems) : s = Tail(queue) /\ t = Followed(Imports)
    BY <1>2, <1>10
  <2>2. Elems(s \o t) = Elems(s) \cup Elems(t)
    BY ElemsConcat
  <2> QED  BY <1>9, <2>1, <2>2, Zenon
<1>13. seen' = seen \cup {Canonical[Item.path]} /\ UNCHANGED <<project, diags, result>>
  BY DEF Parses, Take
<1> QED  BY <1>1, <1>3, <1>4, <1>5, <1>6, <1>7, <1>8, <1>9, <1>10, <1>11, <1>12, <1>13

LEMMA TypedKept ==
  ASSUME Typed, [Next]_vars
  PROVE  Typed'
<1>1. CASE Dropping
  <2>1. Tail(queue) \in Seq(QueueItems) /\ Canonical[Item.path] \in Files \cup Missing
    BY <1>1, ItemTyped DEF Dropping, Walking
  <2>2. Loaded' = Loaded /\ IsProject(project')
    BY <1>1 DEF Dropping, Loaded, Typed
  <2> QED  BY <1>1, <2>1, <2>2 DEF Dropping, Typed
<1>2. CASE Failing
  <2>1. Canonical[Item.path] \in Files \cup Missing
    BY <1>2, ItemTyped DEF Failing, Walking
  <2>2. Loaded' = Loaded /\ IsProject(project')
    BY <1>2 DEF Failing, Loaded, Typed
  <2> QED  BY <1>2, <2>1, <2>2 DEF Failing, Typed, Results
<1>3. CASE Parses
  <2>1. Loaded' = Loaded \cup {Canonical[Item.path]}
    BY <1>3, ParsesEffects DEF Loaded
  <2> QED  BY <1>3, <2>1, ParsesEffects DEF Typed
<1>4. CASE Ending
  <2>1. Loaded' = Loaded
    BY <1>4 DEF Ending, Loaded
  <2> QED  BY <1>4, <2>1 DEF Ending, Typed
<1>5. CASE UNCHANGED vars
  BY <1>5 DEF vars, Typed, Loaded
<1> QED  BY <1>1, <1>2, <1>3, <1>4, <1>5, StepEffects

-----------------------------------------------------------------------------
(***************************************************************************)
(* A file is loaded once.                                                  *)
(***************************************************************************)
LEMMA OnceKept ==
  ASSUME Typed, LoadedOnce, [Next]_vars
  PROVE  LoadedOnce'
<1>1. CASE UNCHANGED out
  BY <1>1 DEF LoadedOnce
<1>2. CASE Parses
  <2> DEFINE n == Len(out)
  <2>1. /\ out \in Seq(OutItems) /\ Item \in OutItems /\ out' = Append(out, Item)
        /\ Canonical[Item.path] \notin seen
    BY <1>2, ParsesEffects DEF Typed
  <2>2. /\ n \in Nat /\ 1..Len(out') = (1..n) \cup {n + 1}
        /\ \A k \in 1..n : out'[k] = out[k]
        /\ out'[n + 1] = Item
    BY <2>1
  <2>3. \A k \in 1..n : Canonical[out[k].path] \in seen
    BY DEF Typed, Loaded, Elems
  <2> HIDE DEF n
  <2>4. \A k \in 1..n : Canonical[out'[k].path] # Canonical[out'[n + 1].path]
    BY <2>1, <2>2, <2>3
  <2>5. ASSUME NEW j \in 1..n, NEW k \in 1..n, Canonical[out'[j].path] = Canonical[out'[k].path]
        PROVE  j = k
    BY <2>2, <2>5 DEF LoadedOnce, n
  <2> QED  BY <2>2, <2>4, <2>5 DEF LoadedOnce
<1>3. Parses \/ UNCHANGED out
  BY StepEffects DEF Dropping, Failing, Ending, vars
<1> QED  BY <1>1, <1>2, <1>3

LEMMA OnceInit == Init => LoadedOnce
<1> SUFFICES ASSUME Init PROVE LoadedOnce
  OBVIOUS
<1>1. Len(out) = 0
  BY DEF Init
<1> QED  BY <1>1 DEF LoadedOnce

\* A file is taken once under its canonical path, whatever spellings the
\* import graph and project.yaml use and whatever cycles it has.
THEOREM LoadsOnce == Spec => [](TypeOK /\ LoadedOnce)
<1>1. Init => Typed /\ LoadedOnce
  BY InitTyped, OnceInit
<1>2. Typed /\ LoadedOnce /\ [Next]_vars => (Typed /\ LoadedOnce)'
  BY TypedKept, OnceKept
<1>3. Typed => TypeOK
  BY TypedIsTypeOK
<1> QED  BY <1>1, <1>2, <1>3, PTL DEF Spec

-----------------------------------------------------------------------------
(***************************************************************************)
(* EntriesWin.  The queue has the entries in front, and an entry is in the *)
(* queue until it is seen; so when the first library file or import comes  *)
(* up, all entries have been seen.                                         *)
(***************************************************************************)
EntriesFirst(q) ==
  \A j, k \in 1..Len(q) : j <= k /\ q[j].kind = "Imported" => q[k].kind = "Imported"

Kinded ==
  /\ EntriesFirst(queue)
  /\ \A i \in Elems(queue) : i.kind = "Entry" => Canonical[i.path] \in Entries
  /\ \A f \in Entries : \/ f \in seen
                        \/ \E i \in Elems(queue) : i.kind = "Entry" /\ Canonical[i.path] = f
  /\ EntriesWin

\* A queue with the entries in front, then library files.
LEMMA FirstConcat ==
  ASSUME NEW s \in Seq(QueueItems), NEW t \in Seq(QueueItems), EntriesFirst(s),
         \A k \in 1..Len(t) : t[k].kind = "Imported"
  PROVE  EntriesFirst(s \o t)
<1> DEFINE c == s \o t
<1>1. /\ Len(c) = Len(s) + Len(t) /\ Len(s) \in Nat /\ Len(t) \in Nat
      /\ \A k \in 1..(Len(s) + Len(t)) : c[k] = IF k <= Len(s) THEN s[k] ELSE t[k - Len(s)]
  BY ConcatProperties
<1> HIDE DEF c
<1>2. ASSUME NEW j \in 1..Len(c), NEW k \in 1..Len(c), j <= k, c[j].kind = "Imported"
      PROVE  c[k].kind = "Imported"
  <2>1. CASE k <= Len(s)
    <3>1. c[j] = s[j] /\ c[k] = s[k] /\ j \in 1..Len(s) /\ k \in 1..Len(s)
      BY <1>1, <1>2, <2>1
    <3> QED  BY <3>1, <1>2 DEF EntriesFirst
  <2>2. CASE ~(k <= Len(s))
    <3>1. k - Len(s) \in 1..Len(t) /\ c[k] = t[k - Len(s)]
      BY <1>1, <2>2
    <3> QED  BY <3>1
  <2> QED  BY <2>1, <2>2
<1>3. EntriesFirst(c)
  BY <1>2 DEF EntriesFirst
<1> QED  BY <1>3 DEF c

LEMMA FirstTail ==
  ASSUME NEW s \in Seq(QueueItems), s # << >>, EntriesFirst(s)
  PROVE  /\ EntriesFirst(Tail(s))
         /\ Head(s).kind = "Imported" => \A i \in Elems(s) : i.kind = "Imported"
<1> DEFINE t == Tail(s)
<1>1. /\ Len(s) \in Nat \ {0} /\ Len(t) = Len(s) - 1 /\ Head(s) = s[1]
      /\ \A k \in 1..(Len(s) - 1) : t[k] = s[k + 1]
  BY ElemsHeadTail
<1> HIDE DEF t
<1>2. ASSUME NEW j \in 1..Len(t), NEW k \in 1..Len(t), j <= k, t[j].kind = "Imported"
      PROVE  t[k].kind = "Imported"
  <2>1. /\ t[j] = s[j + 1] /\ t[k] = s[k + 1] /\ j + 1 <= k + 1
        /\ j + 1 \in 1..Len(s) /\ k + 1 \in 1..Len(s)
    BY <1>1, <1>2
  <2> QED  BY <2>1, <1>2 DEF EntriesFirst
<1>3. ASSUME s[1].kind = "Imported", NEW k \in 1..Len(s) PROVE s[k].kind = "Imported"
  <2>1. 1 \in 1..Len(s) /\ 1 <= k
    BY <1>1
  <2> QED  BY <2>1, <1>3 DEF EntriesFirst
<1>4. EntriesFirst(t)
  BY <1>2 DEF EntriesFirst
<1>5. s[1].kind = "Imported" => \A i \in Elems(s) : i.kind = "Imported"
  BY <1>3 DEF Elems
<1> QED  BY <1>1, <1>4, <1>5 DEF t

LEMMA KindedInit == Init => Kinded
<1> SUFFICES ASSUME Init PROVE Kinded
  OBVIOUS
<1> DEFINE s == Tagged(project.entries, "Entry")
<1> DEFINE t == Tagged(project.extra, "Imported")
<1>1. project.entries \in Seq(Paths) /\ project.extra \in Seq(Paths)
  BY LoaderAssumption DEF Init, IsProject
<1>2. /\ s \in Seq(QueueItems) /\ t \in Seq(QueueItems)
      /\ Elems(s) = { [path |-> p, kind |-> "Entry"] : p \in Elems(project.entries) }
      /\ Elems(t) = { [path |-> p, kind |-> "Imported"] : p \in Elems(project.extra) }
  BY <1>1, TaggedElems DEF Kinds
<1>3. /\ \A k \in 1..Len(s) : s[k].kind = "Entry"
      /\ \A k \in 1..Len(t) : t[k].kind = "Imported"
  BY <1>2 DEF Elems
<1>4. queue = s \o t /\ out = << >>
  BY DEF Init
<1> HIDE DEF s, t
<1>5. EntriesFirst(s)
  BY <1>3 DEF EntriesFirst
<1>6. EntriesFirst(queue)
  BY <1>2, <1>3, <1>4, <1>5, FirstConcat
<1>7. Elems(queue) = Elems(s) \cup Elems(t)
  BY <1>2, <1>4, ElemsConcat
<1>8. \A i \in Elems(queue) : i.kind = "Entry" => Canonical[i.path] \in Entries
  BY <1>2, <1>7 DEF Entries
<1>9. \A f \in Entries : \E i \in Elems(queue) : i.kind = "Entry" /\ Canonical[i.path] = f
  <2> TAKE f \in Entries
  <2>1. PICK p \in Elems(project.entries) : f = Canonical[p]
    BY DEF Entries
  <2>2. [path |-> p, kind |-> "Entry"] \in Elems(queue)
    BY <1>2, <1>7
  <2> QED  BY <2>1, <2>2
<1>10. Len(out) = 0
  BY <1>4
<1>11. EntriesWin
  BY <1>10 DEF EntriesWin, Elems
<1> QED  BY <1>6, <1>8, <1>9, <1>11 DEF Kinded

LEMMA KindedKept ==
  ASSUME Typed, Kinded, [Next]_vars
  PROVE  Kinded'
<1>1. CASE UNCHANGED <<project, queue, out>> /\ seen \subseteq seen'
  BY <1>1 DEF Kinded, EntriesFirst, Entries, EntriesWin, Elems
<1>2. CASE Dropping
  <2>1. queue \in Seq(QueueItems) /\ queue # << >>
    BY <1>2 DEF Typed, Dropping, Walking
  <2>2. EntriesFirst(queue')
    BY <1>2, <2>1, FirstTail DEF Kinded, Dropping
  <2>3. Elems(queue) = Elems(queue') \cup {Item}
    BY <1>2, <2>1, ItemTyped DEF Dropping
  <2>4. Entries' = Entries /\ Elems(out') = Elems(out)
    BY <1>2 DEF Dropping, Entries, Elems
  <2>5. \A f \in Entries : \/ f \in seen'
                          \/ \E i \in Elems(queue') : i.kind = "Entry" /\ Canonical[i.path] = f
    BY <1>2, <2>3 DEF Kinded, Dropping
  <2>6. EntriesFirst(queue)' <=> EntriesFirst(queue')
    BY DEF EntriesFirst
  <2>7. Elems(queue)' = Elems(queue') /\ Elems(out)' = Elems(out')
    BY DEF Elems
  <2> QED  BY <2>2, <2>3, <2>4, <2>5, <2>6, <2>7 DEF Kinded, EntriesWin
<1>3. CASE Parses
  <2> DEFINE new == Followed(Imports)
  <2>1. /\ queue \in Seq(QueueItems) /\ queue # << >> /\ Tail(queue) \in Seq(QueueItems)
        /\ Elems(queue) = Elems(Tail(queue)) \cup {Item} /\ Item \in QueueItems
    BY <1>3, ParsesEffects, ItemTyped DEF Typed
  <2>2. new \in Seq(QueueItems) /\ \A k \in 1..Len(new) : new[k].kind = "Imported"
    BY <1>3, ParsesEffects, FollowedElems
  <2>3. EntriesFirst(queue')
    <3>1. EntriesFirst(Tail(queue))
      BY <2>1, FirstTail DEF Kinded
    <3>2. queue' = Tail(queue) \o new
      BY <1>3, ParsesEffects
    <3> HIDE DEF new
    <3> QED  BY <2>1, <2>2, <3>1, <3>2, FirstConcat
  <2>4. /\ Elems(queue') = Elems(Tail(queue))
                             \cup { [path |-> i.path, kind |-> "Imported"] : i \in Elems(Imports) }
        /\ seen' = seen \cup {Canonical[Item.path]} /\ Canonical[Item.path] \notin seen
        /\ Elems(out') = Elems(out) \cup {Item}
    BY <1>3, ParsesEffects
  <2>5. Entries' = Entries
    BY <1>3, ParsesEffects DEF Entries, Elems
  <2>6. \A i \in Elems(queue') : i.kind = "Entry" => i \in Elems(queue)
    BY <2>1, <2>4
  <2>7. \A f \in Entries : \/ f \in seen'
                          \/ \E i \in Elems(queue') : i.kind = "Entry" /\ Canonical[i.path] = f
    BY <2>1, <2>4 DEF Kinded
  <2>8. Item.kind = "Entry" <=> Canonical[Item.path] \in Entries
    <3>1. CASE Item.kind = "Entry"
      BY <3>1, <2>1 DEF Kinded
    <3>2. CASE Item.kind = "Imported"
      <4>1. \A i \in Elems(queue) : i.kind = "Imported"
        BY <2>1, <3>2, FirstTail DEF Kinded, Item
      <4>2. Entries \subseteq seen
        BY <4>1 DEF Kinded
      <4> QED  BY <3>2, <4>2, <2>4
    <3> QED  BY <3>1, <3>2, <2>1 DEF QueueItems, Kinds
  <2>9. \A e \in Elems(out') : e.kind = "Entry" <=> Canonical[e.path] \in Entries
    BY <2>4, <2>8 DEF Kinded, EntriesWin
  <2>10. EntriesFirst(queue)' <=> EntriesFirst(queue')
    BY DEF EntriesFirst
  <2>11. Elems(queue)' = Elems(queue') /\ Elems(out)' = Elems(out')
    BY DEF Elems
  <2>12. \A i \in Elems(queue') : i.kind = "Entry" => Canonical[i.path] \in Entries
    BY <2>6 DEF Kinded
  <2> QED  BY <2>3, <2>5, <2>7, <2>9, <2>10, <2>11, <2>12 DEF Kinded, EntriesWin
<1>4. Dropping \/ Parses \/ (UNCHANGED <<project, queue, out>> /\ seen \subseteq seen')
  BY StepEffects DEF Failing, Ending, vars
<1> QED  BY <1>1, <1>2, <1>3, <1>4

\* F4's ground: a file is an entry exactly if `sources:` lists it, whatever
\* imports it, lists it among `imports:` or spells it otherwise.
THEOREM KindBySources == Spec => []EntriesWin
<1>1. Init => Typed /\ Kinded
  BY InitTyped, KindedInit
<1>2. Typed /\ Kinded /\ [Next]_vars => (Typed /\ Kinded)'
  BY TypedKept, KindedKept
<1>3. Kinded => EntriesWin
  BY DEF Kinded
<1> QED  BY <1>1, <1>2, <1>3, PTL DEF Spec

-----------------------------------------------------------------------------
(***************************************************************************)
(* What is merged.                                                         *)
(***************************************************************************)
\* Only what parses is loaded, and a merge has found nothing against it.
Checked ==
  /\ \A e \in Elems(out) : project.errors[Canonical[e.path]] = 0
  /\ result = "merged" => ~ForeignEntity /\ ~Duplicate

LEMMA CheckedInit == Init => Checked
<1> SUFFICES ASSUME Init PROVE Checked
  OBVIOUS
<1>1. Elems(out) = {}
  BY DEF Init, Elems
<1> QED  BY <1>1 DEF Checked, Init

LEMMA CheckedKept ==
  ASSUME Typed, Checked, [Next]_vars
  PROVE  Checked'
<1>1. CASE UNCHANGED <<project, out, result>>
  BY <1>1 DEF Checked, Elems, ForeignEntity, Duplicate, Declares
<1>2. CASE UNCHANGED <<project, out>> /\ result' # "merged"
  BY <1>2 DEF Checked, Elems
<1>3. CASE Parses
  <2>1. /\ Elems(out') = Elems(out) \cup {Item} /\ project.errors[Canonical[Item.path]] = 0
        /\ project' = project /\ result' # "merged"
    BY <1>3, ParsesEffects
  <2>2. Elems(out)' = Elems(out')
    BY DEF Elems
  <2> QED  BY <2>1, <2>2 DEF Checked
<1>4. CASE Ending
  <2>1. UNCHANGED <<project, out>> /\ (result' = "merged" => ~ForeignEntity /\ ~Duplicate)
    BY <1>4 DEF Ending
  <2>2. ForeignEntity' = ForeignEntity /\ Duplicate' = Duplicate /\ Elems(out)' = Elems(out)
    BY <2>1 DEF ForeignEntity, Duplicate, Declares, Elems
  <2> QED  BY <2>1, <2>2 DEF Checked
<1>5. \/ UNCHANGED <<project, out, result>> \/ (UNCHANGED <<project, out>> /\ result' # "merged")
      \/ Parses \/ Ending
  BY StepEffects DEF Dropping, Failing, vars
<1> QED  BY <1>1, <1>2, <1>3, <1>4, <1>5

LEMMA CheckedIsSound ==
  ASSUME Typed, Kinded, Checked
  PROVE  MergedIsSound
<1> SUFFICES ASSUME result = "merged"
             PROVE  /\ \A f \in Loaded : project.errors[f] = 0
                    /\ \A f \in Loaded \ Entries : project.declares[f] = {}
                    /\ \A f, g \in Loaded : f # g => project.declares[f] \cap project.declares[g] = {}
  BY DEF MergedIsSound
<1>1. \A f \in Loaded : \E k \in 1..Len(out) :
        /\ f = Canonical[out[k].path] /\ out[k] \in Elems(out) /\ Declares(k) = project.declares[f]
  BY DEF Loaded, Elems, Declares
<1>2. \A f \in Loaded : project.errors[f] = 0
  BY <1>1 DEF Checked
<1>3. ASSUME NEW f \in Loaded \ Entries PROVE project.declares[f] = {}
  <2>1. PICK k \in 1..Len(out) : f = Canonical[out[k].path] /\ out[k] \in Elems(out)
                                 /\ Declares(k) = project.declares[f]
    BY <1>1
  <2>2. out[k].kind # "Entry"
    BY <2>1 DEF Kinded, EntriesWin
  <2>3. out[k] \in OutItems
    BY DEF Typed
  <2>4. out[k].kind = "Imported"
    BY <2>2, <2>3 DEF OutItems, Kinds
  <2> QED  BY <2>1, <2>4 DEF Checked, ForeignEntity
<1>4. ASSUME NEW f \in Loaded, NEW g \in Loaded, f # g
      PROVE  project.declares[f] \cap project.declares[g] = {}
  <2>1. PICK j \in 1..Len(out) : f = Canonical[out[j].path] /\ Declares(j) = project.declares[f]
    BY <1>1
  <2>2. PICK k \in 1..Len(out) : g = Canonical[out[k].path] /\ Declares(k) = project.declares[g]
    BY <1>1
  <2>3. j # k
    BY <1>4, <2>1, <2>2
  <2> QED  BY <2>1, <2>2, <2>3 DEF Checked, Duplicate
<1> QED  BY <1>2, <1>3, <1>4

\* A merged program has no entity of a library file and no name twice, and all
\* of its files parse: F4 and the duplicate checks see every file that counts.
THEOREM MergesSoundly == Spec => []MergedIsSound
<1>1. Init => Typed /\ Kinded /\ Checked
  BY InitTyped, KindedInit, CheckedInit
<1>2. Typed /\ Kinded /\ Checked /\ [Next]_vars => (Typed /\ Kinded /\ Checked)'
  BY TypedKept, KindedKept, CheckedKept
<1>3. Typed /\ Kinded /\ Checked => MergedIsSound
  BY CheckedIsSound
<1> QED  BY <1>1, <1>2, <1>3, PTL DEF Spec

-----------------------------------------------------------------------------
(***************************************************************************)
(* Closure.  Nothing is in the queue or loaded that is not reached; and    *)
(* while nothing has failed, all that has to be loaded is seen, which then *)
(* means loaded, or in the queue.                                          *)
(***************************************************************************)
QueueFiles == { Canonical[i.path] : i \in Elems(queue) }

Wanted ==
  Entries \cup { Canonical[p] : p \in Elems(project.extra) }
  \cup UNION { { Canonical[i.path] : i \in Elems(project.imports[e.path]) } : e \in Elems(out) }

ClosedInv ==
  /\ \A S \in SUBSET Files : Reached(S) => QueueFiles \subseteq S /\ Loaded \subseteq S
  /\ result = "walking" /\ diags = 0 => seen = Loaded /\ Wanted \subseteq seen \cup QueueFiles
  /\ result = "merged" => Wanted \subseteq Loaded

\* The files of items made from paths, and from imports.
ItemFiles(items) == { Canonical[i.path] : i \in items }
PathFiles(paths) == { Canonical[p] : p \in paths }
ItemsOf(paths, kind) == { [path |-> p, kind |-> kind] : p \in paths }
ItemsFor(imports) == { [path |-> i.path, kind |-> "Imported"] : i \in imports }

LEMMA FilesOfPaths ==
  ASSUME NEW P, NEW kind
  PROVE  ItemFiles(ItemsOf(P, kind)) = PathFiles(P)
<1>1. ASSUME NEW i \in ItemsOf(P, kind) PROVE Canonical[i.path] \in PathFiles(P)
  <2>1. PICK p \in P : i = [path |-> p, kind |-> kind]
    BY DEF ItemsOf
  <2>2. i.path = p
    BY <2>1
  <2> QED  BY <2>2 DEF PathFiles
<1>2. ASSUME NEW p \in P PROVE Canonical[p] \in ItemFiles(ItemsOf(P, kind))
  <2> DEFINE i == [path |-> p, kind |-> kind]
  <2>1. i \in ItemsOf(P, kind) /\ i.path = p
    BY DEF ItemsOf
  <2> HIDE DEF i
  <2> QED  BY <2>1 DEF ItemFiles
<1> QED  BY <1>1, <1>2 DEF ItemFiles, PathFiles

LEMMA FilesOfImports ==
  ASSUME NEW E
  PROVE  ItemFiles(ItemsFor(E)) = ItemFiles(E)
<1>1. ASSUME NEW i \in ItemsFor(E) PROVE Canonical[i.path] \in ItemFiles(E)
  <2>1. PICK e \in E : i = [path |-> e.path, kind |-> "Imported"]
    BY DEF ItemsFor
  <2>2. i.path = e.path
    BY <2>1
  <2> QED  BY <2>2 DEF ItemFiles
<1>2. ASSUME NEW e \in E PROVE Canonical[e.path] \in ItemFiles(ItemsFor(E))
  <2> DEFINE i == [path |-> e.path, kind |-> "Imported"]
  <2>1. i \in ItemsFor(E) /\ i.path = e.path
    BY DEF ItemsFor
  <2> HIDE DEF i
  <2> QED  BY <2>1 DEF ItemFiles
<1> QED  BY <1>1, <1>2 DEF ItemFiles

LEMMA FilesOfUnion ==
  ASSUME NEW A, NEW B
  PROVE  ItemFiles(A \cup B) = ItemFiles(A) \cup ItemFiles(B)
  BY DEF ItemFiles

LEMMA ClosedInit == Init => ClosedInv
<1> SUFFICES ASSUME Init PROVE ClosedInv
  OBVIOUS
<1> DEFINE s == Tagged(project.entries, "Entry")
<1> DEFINE t == Tagged(project.extra, "Imported")
<1>1. project.entries \in Seq(Paths) /\ project.extra \in Seq(Paths)
  BY LoaderAssumption DEF Init, IsProject
<1>2. /\ s \in Seq(QueueItems) /\ t \in Seq(QueueItems)
      /\ Elems(s) = { [path |-> p, kind |-> "Entry"] : p \in Elems(project.entries) }
      /\ Elems(t) = { [path |-> p, kind |-> "Imported"] : p \in Elems(project.extra) }
  BY <1>1, TaggedElems DEF Kinds
<1>3. queue = s \o t /\ result = "walking" /\ seen = {}
  BY DEF Init
<1>4. Elems(out) = {}
  BY DEF Init, Elems
<1> HIDE DEF s, t
<1>5. Elems(queue) = Elems(s) \cup Elems(t)
  BY <1>2, <1>3, ElemsConcat
<1>6. Elems(s) = ItemsOf(Elems(project.entries), "Entry")
      /\ Elems(t) = ItemsOf(Elems(project.extra), "Imported")
  BY <1>2 DEF ItemsOf
<1>7. ItemFiles(Elems(s)) = PathFiles(Elems(project.entries))
      /\ ItemFiles(Elems(t)) = PathFiles(Elems(project.extra))
  BY <1>6, FilesOfPaths
<1>8. QueueFiles = Entries \cup { Canonical[p] : p \in Elems(project.extra) }
  <2>1. ItemFiles(Elems(queue)) = ItemFiles(Elems(s)) \cup ItemFiles(Elems(t))
    BY <1>5, FilesOfUnion
  <2>2. QueueFiles = ItemFiles(Elems(queue)) /\ Entries = PathFiles(Elems(project.entries))
        /\ { Canonical[p] : p \in Elems(project.extra) } = PathFiles(Elems(project.extra))
    BY DEF QueueFiles, ItemFiles, Entries, PathFiles
  <2> QED  BY <1>7, <2>1, <2>2
<1>9. Loaded = {} /\ Wanted = QueueFiles
  BY <1>4, <1>8 DEF Loaded, Wanted
<1> QED  BY <1>3, <1>8, <1>9 DEF ClosedInv, Reached

\* Reached asks for more when more is loaded.
LEMMA ReachedBefore ==
  ASSUME Typed, Parses, NEW S, Reached(S)'
  PROVE  /\ Reached(S)
         /\ Canonical[Item.path] \in S =>
              \A i \in Elems(Imports) : Canonical[i.path] \in S
<1>1. /\ Elems(out)' = Elems(out) \cup {Item} /\ project' = project
  <2>1. Elems(out)' = Elems(out')
    BY DEF Elems
  <2> QED  BY <2>1, ParsesEffects
<1>2. /\ Entries \subseteq S
      /\ \A p \in Elems(project.extra) : Canonical[p] \in S
      /\ \A e \in Elems(out) \cup {Item} : Canonical[e.path] \in S =>
           \A i \in Elems(project.imports[e.path]) : Canonical[i.path] \in S
  <2>1. Entries' = Entries /\ Elems(project.extra)' = Elems(project.extra)
        /\ \A e : Elems(project.imports[e.path])' = Elems(project.imports[e.path])
    BY <1>1 DEF Entries, Elems
  <2> QED  BY <1>1, <2>1 DEF Reached, Elems, Entries
<1> QED  BY <1>2 DEF Reached, Imports

LEMMA ClosedKept ==
  ASSUME Typed, ClosedInv, [Next]_vars
  PROVE  ClosedInv'
<1>1. CASE UNCHANGED <<project, queue, out>> /\ result' \notin {"walking", "merged"}
  <2>1. QueueFiles' = QueueFiles /\ Loaded' = Loaded /\ \A S : Reached(S)' <=> Reached(S)
    BY <1>1 DEF QueueFiles, Loaded, Reached, Entries, Elems
  <2> QED  BY <1>1, <2>1 DEF ClosedInv
<1>2. CASE UNCHANGED vars
  <2>1. /\ QueueFiles' = QueueFiles /\ Loaded' = Loaded /\ Wanted' = Wanted
        /\ \A S : Reached(S)' <=> Reached(S)
    BY <1>2 DEF vars, QueueFiles, Loaded, Wanted, Reached, Entries, Elems
  <2> QED  BY <1>2, <2>1 DEF ClosedInv, vars
<1>3. CASE Dropping
  <2>1. /\ QueueFiles = QueueFiles' \cup {Canonical[Item.path]}
        /\ UNCHANGED <<project, out, result>> /\ result = "walking"
    <3>1. Elems(queue) = Elems(queue)' \cup {Item}
      <4>1. Elems(queue)' = Elems(queue')
        BY DEF Elems
      <4> QED  BY <1>3, <4>1, ItemTyped DEF Dropping, Walking
    <3> QED  BY <1>3, <3>1 DEF QueueFiles, Dropping, Walking
  <2>2. Loaded' = Loaded /\ Wanted' = Wanted /\ \A S : Reached(S)' <=> Reached(S)
    BY <2>1 DEF Loaded, Wanted, Reached, Entries, Elems
  <2>3. CASE diags' = diags /\ seen' = seen /\ Canonical[Item.path] \in seen
    BY <2>1, <2>2, <2>3 DEF ClosedInv
  <2>4. CASE diags' > 0
    <3>1. diags' # 0
      BY <2>4
    <3> QED  BY <2>1, <2>2, <3>1 DEF ClosedInv
  <2> QED  BY <1>3, <2>3, <2>4 DEF Dropping
<1>4. CASE Parses
  <2> DEFINE f == Canonical[Item.path]
  <2> DEFINE g == { Canonical[i.path] : i \in Elems(Imports) }
  <2>1. /\ seen' = seen \cup {f} /\ UNCHANGED <<project, diags, result>> /\ result = "walking"
        /\ Elems(out') = Elems(out) \cup {Item}
        /\ Elems(queue') = Elems(Tail(queue))
                            \cup { [path |-> i.path, kind |-> "Imported"] : i \in Elems(Imports) }
        /\ Elems(queue) = Elems(Tail(queue)) \cup {Item}
    BY <1>4, ParsesEffects, ItemTyped
  <2>2. Elems(out)' = Elems(out') /\ Elems(queue)' = Elems(queue')
    BY DEF Elems
  <2>3. QueueFiles' = { Canonical[i.path] : i \in Elems(Tail(queue)) } \cup g
    <3>1. Elems(queue)' = Elems(Tail(queue)) \cup ItemsFor(Elems(Imports))
      BY <2>1, <2>2 DEF ItemsFor
    <3>2. ItemFiles(Elems(Tail(queue)) \cup ItemsFor(Elems(Imports)))
            = ItemFiles(Elems(Tail(queue))) \cup ItemFiles(Elems(Imports))
      BY FilesOfUnion, FilesOfImports
    <3>3. QueueFiles' = ItemFiles(Elems(queue)') /\ g = ItemFiles(Elems(Imports))
          /\ ItemFiles(Elems(Tail(queue))) = { Canonical[i.path] : i \in Elems(Tail(queue)) }
      BY DEF QueueFiles, ItemFiles
    <3> QED  BY <3>1, <3>2, <3>3
  <2>4. QueueFiles = { Canonical[i.path] : i \in Elems(Tail(queue)) } \cup {f}
    BY <2>1 DEF QueueFiles
  <2>5. Loaded' = Loaded \cup {f}
    BY <2>1, <2>2 DEF Loaded
  <2>6. Wanted' = Wanted \cup g
    <3>1. Entries' = Entries /\ Elems(project.extra)' = Elems(project.extra)
          /\ \A e : Elems(project.imports[e.path])' = Elems(project.imports[e.path])
      BY <2>1 DEF Entries, Elems
    <3> QED  BY <2>1, <2>2, <3>1 DEF Wanted, Imports
  <2> HIDE DEF f, g
  <2>7. ASSUME NEW S \in SUBSET Files, Reached(S)'
        PROVE  QueueFiles' \subseteq S /\ Loaded' \subseteq S
    <3>1. Reached(S) /\ (f \in S => g \subseteq S)
      BY <1>4, <2>7, ReachedBefore DEF f, g
    <3>2. QueueFiles \subseteq S /\ Loaded \subseteq S
      BY <3>1 DEF ClosedInv
    <3> QED  BY <3>1, <3>2, <2>3, <2>4, <2>5
  <2>8. diags' = 0 => seen' = Loaded' /\ Wanted' \subseteq seen' \cup QueueFiles'
    BY <2>1, <2>3, <2>4, <2>5, <2>6 DEF ClosedInv
  <2> QED  BY <2>1, <2>7, <2>8 DEF ClosedInv
<1>5. CASE Ending
  <2>1. /\ UNCHANGED <<project, queue, out, seen, diags>> /\ queue = << >> /\ result = "walking"
        /\ result' # "walking" /\ (result' = "merged" => diags = 0)
    BY <1>5 DEF Ending
  <2>2. /\ QueueFiles' = QueueFiles /\ Loaded' = Loaded /\ Wanted' = Wanted
        /\ \A S : Reached(S)' <=> Reached(S)
    BY <2>1 DEF QueueFiles, Loaded, Wanted, Reached, Entries, Elems
  <2>3. QueueFiles = {}
    BY <2>1 DEF QueueFiles, Elems
  <2> QED  BY <2>1, <2>2, <2>3 DEF ClosedInv
<1> QED  BY <1>1, <1>2, <1>3, <1>4, <1>5, StepEffects DEF Failing

LEMMA ClosedIsClosed == Typed /\ ClosedInv => MergedIsClosed
<1> SUFFICES ASSUME ClosedInv, result = "merged"
             PROVE  Reached(Loaded) /\ \A S \in SUBSET Files : Reached(S) => Loaded \subseteq S
  BY DEF MergedIsClosed
<1>1. Wanted \subseteq Loaded
  BY DEF ClosedInv
<1> QED  BY <1>1 DEF Reached, Wanted, ClosedInv

\* The merged program holds the entries, the library files and everything a
\* loaded file imports, and nothing that is not reached from these: load_limited
\* stops only when all of it has been read.
THEOREM MergesWhatIsReached == Spec => []MergedIsClosed
<1>1. Init => Typed /\ ClosedInv
  BY InitTyped, ClosedInit
<1>2. Typed /\ ClosedInv /\ [Next]_vars => (Typed /\ ClosedInv)'
  BY TypedKept, ClosedKept
<1>3. Typed /\ ClosedInv => MergedIsClosed
  BY ClosedIsClosed
<1> QED  BY <1>1, <1>2, <1>3, PTL DEF Spec

\* What is merged is exactly what is reached, or nothing is merged.
THEOREM MergesExactly == Spec => []MergedExactly
BY MergesWhatIsReached, MergesSoundly, PTL DEF MergedExactly
=============================================================================
