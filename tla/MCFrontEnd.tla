----------------------------- MODULE MCFrontEnd -----------------------------
(***************************************************************************)
(* The files of a program: a behaviour is one of a load (Loader), one of   *)
(* the recovery behind the parse errors of one file (ParseRecovery), which *)
(* the load runs for each file that does not parse and of which it takes   *)
(* at most the diagnostics that max_errors leaves, one of a route that the *)
(* validator accepts in what was loaded (Scoping), or the way to a place   *)
(* in it (Ways).                                                           *)
(*                                                                         *)
(* Three files; B has a second spelling from a directory in which its      *)
(* import may mean something else, and one path names no file.             *)
(***************************************************************************)
EXTENDS Loader

MCFiles == {"A", "B", "C"}
MCMissing == {"m"}
MCPaths == {"a", "b", "b2", "c", "m"}
MCCanonical ==
  [p \in MCPaths |-> CASE p = "a" -> "A" [] p \in {"b", "b2"} -> "B" [] p = "c" -> "C" [] OTHER -> p]

Import(p) == [spec |-> p, path |-> p]
UpTo(n, paths) == UNION { [1..k -> { Import(p) : p \in paths }] : k \in 0..n }

Imported ==
  { [p \in MCPaths |-> CASE p = "a" -> a [] p = "b" -> b [] p = "b2" -> b2 [] p = "c" -> c
                         [] OTHER -> << >>] :
      a \in UpTo(2, {"b", "b2", "c", Unresolved}), b \in UpTo(1, {"a", "c", "m"}),
      b2 \in UpTo(1, {"c"}), c \in UpTo(1, {"a", "b"}) }

Errors == { [f \in MCFiles |-> 0], [f \in MCFiles |-> IF f = "A" THEN 0 ELSE 2] }
Declared == { [f \in MCFiles |-> IF f \in S THEN {"E"} ELSE {}] : S \in {{}, {"A"}, {"A", "B"}} }

MCProjects ==
  [entries : { <<"a">>, <<"a", "b">>, <<"b2", "a">> }, extra : { << >>, <<"b">>, <<"c">> },
   imports : Imported, errors : Errors, declares : Declared]

-----------------------------------------------------------------------------
\* All texts of a few bytes in which identifiers are separated, bytes that
\* continue a character follow one that starts it, and every closing brace has
\* an opening one.
VARIABLES part, src, pos, found, tries, outcome

Words == {"kw", "id"}
Texts(n, bytes) ==
  UNION { { s \in [1..k -> bytes] : \A i \in 1..(k - 1) : s[i] \notin Words \/ s[i + 1] \notin Words }
            : k \in 1..n }
Opens(s, k) == Cardinality({ i \in 1..k : s[i] = "{" }) - Cardinality({ i \in 1..k : s[i] = "}" })
Balanced(s) == \A k \in 1..Len(s) : Opens(s, k) >= 0
Few == {"kw", "{", "}", "nl", "end"}
Sources ==
  { s \in Texts(4, Few \cup {"id", "/", "\""}) \cup Texts(5, {"kw", "{", "}", "end", "\""})
           \cup { t \o <<"w", "c", "c">> : t \in Texts(2, Few) } : Balanced(s) }

Recovery == INSTANCE ParseRecovery WITH UserErrors <- FALSE, diags <- found, result <- outcome

ASSUME Recovery!RecoveryAssumption

text == <<src, pos, found, tries, outcome>>

-----------------------------------------------------------------------------
\* A member m, a parameter p, locals x and y, a var v.  Two groups of actions
\* and a read behind them, outside phases; one group in a phase, and a second
\* phase; a `where` of the route.
VARIABLES route, at, blocks, env, again, clock, parted

names == <<route, at, blocks, env, again, clock, parted>>

N(n) == [is |-> "name", name |-> n]
Data(S) == [is |-> "data", kids |-> { N(n) : n \in S }]
Shadow == [is |-> "closure", binds |-> "x", of |-> N("p"), body |-> N("x")]
Let(S, e) == [op |-> "let", names |-> S, of |-> e]
Var(n) == [op |-> "var", name |-> n, of |-> N("p")]
Read(e) == [op |-> "emit", of |-> e]
For(n) == [op |-> "for", name |-> n, of |-> N("p")]
If == [op |-> "if", of |-> N("p")]
Else == [op |-> "else"]
Fin == [op |-> "end"]
Outside(sets) == [op |-> "tail", sets |-> sets]
Phase(wheres, sets) == [op |-> "phase", wheres |-> wheres, sets |-> sets]
Sets(e) == {[member |-> "m", of |-> e]}

LetX == Let({"x"}, N("p"))
LetXY == Let({"x", "y"}, N("p"))
ReadX == Read(N("x"))
ReadXY == Read(Data({"x", "y"}))
ReadV == Read(N("v"))
One(S) == { <<a>> : a \in S }

Groups ==
  One({ LetX, Let({"x"}, N("x")), Let({"m"}, N("p")), Let({"p"}, N("p")), LetXY,
        Var("v"), Var("x"), Var("m"), ReadX, ReadXY, ReadV, Read(N("m")), Read(Shadow), Read(Data({"v"})) })
  \cup { <<If, a, Fin>> : a \in {Var("v"), ReadX} }
  \cup { <<For("x"), a, Fin>> : a \in {Let({"y"}, N("x")), ReadX, ReadV, Var("v")} }
  \cup { <<If, LetX, ReadX, Fin>>, <<If, LetXY, ReadXY, Fin>>, <<For("y"), LetX, ReadX, Fin>>,
         <<If, LetX, ReadX, Else, LetX, ReadX, Fin>>, <<If, Var("v"), Else, Var("v"), Fin>> }

Unphased ==
  { <<Outside(s)>> \o a \o b \o c : s \in { {}, Sets(N("m")) }, a \in Groups, b \in Groups,
                                  c \in One({ReadX, ReadXY, ReadV, Read(N("m"))}) }
  \cup { <<Outside(Sets(Data({"v"})))>> \o a \o <<ReadV>> : a \in Groups }
Phased ==
  { <<Phase({}, Sets(N("p")))>> \o a \o <<Fin, Phase(w, s)>> \o b \o <<Fin>> :
      a \in Groups \cup { <<LetXY, ReadXY>> }, w \in { {}, {N("v")}, {N("x")}, {Data({"v"})} },
      s \in { {}, Sets(N("m")), Sets(N("v")), Sets(Data({"v"})) },
      b \in One({Var("v"), ReadX, ReadV}) \cup { << >>, <<LetX, ReadX>>, <<ReadV, Var("v")>> } }
Idle == [where |-> {}, code |-> <<Outside({})>>]
NamedRoutes ==
  {Idle} \cup { [where |-> {}, code |-> c] : c \in Unphased \cup Phased }
    \cup { [where |-> {e}, code |-> <<Outside({}), Var("v"), ReadV>>] : e \in {N("v"), N("m"), N("x"), N("p")} }

Names == INSTANCE Scoping WITH Members <- {"m"}, Params <- {"p"}, Routes <- NamedRoutes, pos <- at

-----------------------------------------------------------------------------
VARIABLES thing, place, guards, lost, bound

way == <<thing, place, guards, lost, bound>>

CONSTANTS Sought, SoughtNames, Unseen, Unnoticed

Tables == INSTANCE Walks
MCSought == Tables!Things
MCSoughtNames == Tables!Named
MCUnseen == Tables!Overlooked
MCUnnoticed == Tables!Mistaken

Ways == INSTANCE Ways

-----------------------------------------------------------------------------
all == <<part, vars, text, names, way>>

FInit ==
  /\ part \in {"load", "recover", "names", "ways"}
  /\ \/ part = "ways" /\ Ways!Init
     \/ part # "ways" /\ Ways!Start("literal", "where")
  /\ \/ part = "names"
     \/ part # "names" /\ route = Idle
  /\ Names!Init
  /\ \/ part = "load"
     \/ /\ part # "load"
        /\ project = [entries |-> <<"a">>, extra |-> << >>, imports |-> [p \in MCPaths |-> << >>],
                      errors |-> [f \in MCFiles |-> 0], declares |-> [f \in MCFiles |-> {}]]
  /\ Init
  /\ \/ part = "recover"
     \/ part # "recover" /\ src = <<"kw">>
  /\ Recovery!Init

Loading == part = "load" /\ Next /\ UNCHANGED <<part, text, names, way>>
Recovering == part = "recover" /\ Recovery!Next /\ UNCHANGED <<part, vars, names, way>>
Running == part = "names" /\ Names!Next /\ UNCHANGED <<part, vars, text, way>>
Looking == part = "ways" /\ Ways!Next /\ UNCHANGED <<part, vars, text, names>>

FNext == Loading \/ Recovering \/ Running \/ Looking

FSpec == FInit /\ [][FNext]_all /\ WF_all(Loading)

-----------------------------------------------------------------------------
\* Loader: import cycles or not, the load ends.
LoadFinishes == part = "load" => LoadEnds

\* ParseRecovery: every attempt starts behind the one before, the diagnostics
\* come in the order of the file, none twice, and no top-level declaration
\* behind an error is left out.
RecoveryCovers ==
  [](Recovery!EachTryAdvances /\ Recovery!ErrorsInOrder) /\ Recovery!DeclarationsRetried

\* Scoping: of an accepted route solc finds every name declared, a read finds
\* what its name was last bound to on the path taken, and no local is read
\* before it is bound, but in the named forms.  Ways: a helper that the output
\* calls is in the output, a literal is replaced, a rule is enforced, and a name
\* bound on the way is not taken for the one looked for, but in the named places.
NamesMean ==
  /\ part = "names" => Names!Declared /\ Names!SameBindings /\ Names!BoundBeforeRead
  /\ part = "ways" => Ways!Seen /\ Ways!NotMistaken
=============================================================================
