----------------------------- MODULE MCAnalysis -----------------------------
(***************************************************************************)
(* Three analyses of a program, each on its own: a behaviour is one of the *)
(* walk that orders declarations (DfsOrder), of the search for components  *)
(* (Components), or of the closure over failing routes (FailModes); the    *)
(* other two rest on a program without references.                         *)
(***************************************************************************)
EXTENDS DfsOrder, Components, FailModes

Lists(S, n) == { s \in UNION { [1..l -> S] : l \in 0..n } : \A j, k \in DOMAIN s : s[j] = s[k] => j = k }

\* All references among three declarations, self references, cycles and
\* either order of the walk included.
MCPrograms == [Items -> Lists(Items, 2) \cup { <<1, 2, 3>>, <<3, 2, 1>> }]

-----------------------------------------------------------------------------
\* Four nodes with at most two edges each, in the order callees are gathered
\* in (a BTreeSet), so that a component can be entered from one still open,
\* under the options routes are ordered with.
MCGraphs == [Names -> { s \in Lists(Names, 2) : \A j, k \in DOMAIN s : j < k => s[j] < s[k] }]
MCOptions == {[reverse |-> FALSE, sort |-> TRUE]}

-----------------------------------------------------------------------------
\* Three routes.  Calls: all in one entity, up to two actions each.  Messages:
\* two routes of one entity and one of another, up to one action each.
MCRoutes == {"r1", "r2", "r3"}
EntityOf(r) == IF r = "r3" THEN "B" ELSE "A"

Act(kind) == [kind |-> kind]
To(kind, S) == { [kind |-> kind, to |-> r] : r \in S }
Body(entity, clause, actions) == [entity |-> entity, clause |-> clause, actions |-> actions]

CallActions == { Act("throw"), Act("return") } \cup To("call", MCRoutes)
CallBodies == { Body("A", FALSE, {a, b}) : a, b \in CallActions } \cup { Body("A", FALSE, {}) }

\* `call` stays within the entity of the caller.
MessageActions(r) ==
  { Act(k) : k \in {"throw", "deploy", "trap", "extern", "emit", "return"} }
    \cup To("call", { q \in MCRoutes : EntityOf(q) = EntityOf(r) }) \cup To("send", MCRoutes)
MessageBodies(r) ==
  { Body(EntityOf(r), c, S) : c \in BOOLEAN, S \in { {} } \cup { {a} : a \in MessageActions(r) } }

MCRoutePrograms ==
  [MCRoutes -> CallBodies]
    \cup { f \in [MCRoutes -> UNION { MessageBodies(r) : r \in MCRoutes }] :
             \A r \in MCRoutes : f[r] \in MessageBodies(r) }

-----------------------------------------------------------------------------
VARIABLE part

all == <<part, vars, searchVars, closureVars>>

AInit ==
  /\ part \in {"order", "search", "fail"}
  /\ \/ part = "order"
     \/ part # "order" /\ refs = [i \in Items |-> << >>]
  /\ \/ part = "search"
     \/ part # "search" /\ deps = [v \in Names |-> << >>]
  /\ \/ part = "fail"
     \/ part # "fail" /\ program = [r \in Routes |-> Body("A", FALSE, {})]
  /\ Init /\ SearchInit /\ ClosureInit

Order == part = "order" /\ Next /\ UNCHANGED <<part, searchVars, closureVars>>
Searching == part = "search" /\ SearchNext /\ UNCHANGED <<part, vars, closureVars>>
Closing == part = "fail" /\ ClosureNext /\ UNCHANGED <<part, vars, searchVars>>

ANext == Order \/ Searching \/ Closing

ASpec == AInit /\ [][ANext]_all /\ WF_all(ANext)

-----------------------------------------------------------------------------
\* dfs_topo comes to an end with every declaration emitted, the search for
\* components ends whatever the cycles, and so do the passes of the closure.
AnalysesEnd ==
  /\ part = "order" => WalkEnds
  /\ part = "search" => SearchEnds
  /\ part = "fail" => ClosureEnds
=============================================================================
