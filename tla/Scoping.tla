------------------------------ MODULE Scoping ------------------------------
(***************************************************************************)
(* The names of a route: what the validator lets it read (V8, V25 to V28,  *)
(* V51), which of its locals the Solidity backend declares for the whole   *)
(* function and which in the block of a phase, a branch or a loop          *)
(* (evm/route.rs, evm/emitter.rs), and what each read then finds, on every *)
(* path through the route.  A route body is one scope: a name stands for   *)
(* what it was last bound to on the path taken, and for the member in a    *)
(* transform.                                                              *)
(*                                                                         *)
(* A body is a sequence of instructions in which "phase", "if" and "for"   *)
(* have an "end"; "tail" stands in front of the actions outside phases.    *)
(* An emit stands for every action that reads and binds nothing; a rescue, *)
(* which EVM does not accept, is left out.                                 *)
(***************************************************************************)
EXTENDS Integers, Sequences, FiniteSets, FiniteSetsExt

CONSTANTS Members,  \* the members of the entity
          Params,   \* the parameters of the route
          Routes    \* the routes considered: their `where` and their body

VARIABLES route,    \* never changes
          pos,      \* the instruction to be executed; 0 if there is nothing to run
          blocks,   \* Solidity's open blocks, with what their locals hold
          env,      \* what each name was last bound to
          again,    \* whether a loop may have one more round
          clock,    \* the bindings executed
          parted    \* history: in what the emitted route differed

scopeVars == <<route, pos, blocks, env, again, clock, parted>>

Code == route.code

-----------------------------------------------------------------------------
(***************************************************************************)
(* Expressions: a name, what all walks enter ("op"), what those of V26 to  *)
(* V28 do not ("data": a tuple, an array, the arms of a match, a call of   *)
(* the standard library), and what binds names in an expression.           *)
(***************************************************************************)
RECURSIVE Names(_), Free(_), Undefined(_, _), Mentions(_, _), TransformReads(_), WhereReads(_)

\* idents_mentioned: every identifier, bound in the expression or not.
Names(e) ==
  CASE e.is = "name" -> {e.name}
    [] e.is \in {"op", "data"} -> UNION { Names(k) : k \in e.kids }
    [] e.is \in {"let", "closure"} -> Names(e.of) \cup Names(e.body)

Free(e) ==
  CASE e.is = "name" -> {e.name}
    [] e.is \in {"op", "data"} -> UNION { Free(k) : k \in e.kids }
    [] e.is \in {"let", "closure"} -> Free(e.of) \cup (Free(e.body) \ {e.binds})

\* V8, check_entity_expr_refs: an identifier is one in scope or a member ...
UndefinedName(n, scope) == IF n \in scope \cup Members THEN {} ELSE {n}

\* ... a term that binds nothing has the undefined names of its parts ...
UndefinedParts(e, scope) == UNION { Undefined(k, scope) : k \in e.kids }

\* ... and one that binds extends the scope of its body.
UndefinedUnder(e, scope) == Undefined(e.of, scope) \cup Undefined(e.body, scope \cup {e.binds})

Undefined(e, scope) ==
  CASE e.is = "name" -> UndefinedName(e.name, scope)
    [] e.is \in {"op", "data"} -> UndefinedParts(e, scope)
    [] e.is \in {"let", "closure"} -> UndefinedUnder(e, scope)

\* V51, expr_mentions_binding: what a closure binds does not hide the name.
Mentions(e, n) ==
  CASE e.is = "name" -> e.name = n
    [] e.is \in {"op", "data"} -> \E k \in e.kids : Mentions(k, n)
    [] e.is = "closure" -> Mentions(e.of, n) \/ Mentions(e.body, n)
    [] e.is = "let" -> Mentions(e.of, n) \/ (e.binds # n /\ Mentions(e.body, n))

\* V26, check_var_refs_in_expr.
TransformReads(e) ==
  CASE e.is = "name" -> {e.name}
    [] e.is = "op" -> UNION { TransformReads(k) : k \in e.kids }
    [] e.is = "let" -> TransformReads(e.of) \cup TransformReads(e.body)
    [] e.is \in {"data", "closure"} -> {}

\* V28, check_phase_where_var_refs, and V27, check_route_where_no_var_refs.
WhereReads(e) ==
  CASE e.is = "name" -> {e.name}
    [] e.is = "op" -> UNION { WhereReads(k) : k \in e.kids }
    [] e.is \in {"data", "let", "closure"} -> {}

-----------------------------------------------------------------------------
(***************************************************************************)
(* The blocks of a body.                                                   *)
(***************************************************************************)
Is(c, kinds) == { i \in DOMAIN c : c[i].op \in kinds }
Opens == {"phase", "if", "for"}

Balanced(c, i, k) ==
  Cardinality({ j \in i..k : c[j].op \in Opens }) = Cardinality({ j \in i..k : c[j].op = "end" })

\* The "end" of a block or, of the first branch of an if, its "else".
Closes(c, i) == Min({ k \in Is(c, {"end", "else"}) : k > i /\ Balanced(c, i + 1, k - 1) })

Inside(c, b) == IF b = 0 THEN DOMAIN c ELSE (b + 1) .. (Closes(c, b) - 1)

Around(c, i) == { b \in 1..(i - 1) : c[b].op \in Opens \cup {"else"} /\ i < Closes(c, b) }
Block(c, i) == Max(Around(c, i) \cup {0})

Phases(c) == Is(c, {"phase"})
Mixed(c) == Phases(c) # {} /\ Is(c, {"tail"}) # {}
OnlyPhases(c) == Is(c, {"tail"}) = {}
Nested(c, i) == \E b \in Around(c, i) : c[b].op # "phase"

Vars(c) == { i \in Is(c, {"var"}) : ~ \E b \in Around(c, i) : c[b].op = "for" }
VarNames(c) == { c[i].name : i \in Vars(c) }

\* The actions, with an expression each.
Actions(c) == Is(c, {"let", "var", "emit", "if", "for"})

\* The names an instruction binds.
Binds(t) == CASE t.op = "let" -> t.names
              [] t.op \in {"var", "for"} -> {t.name}
              [] OTHER -> {}

Sets(t) == IF t.op \in {"phase", "tail"} THEN t.sets ELSE {}
Wheres(t) == IF t.op = "phase" THEN t.wheres ELSE {}

-----------------------------------------------------------------------------
(***************************************************************************)
(* The validator.                                                          *)
(***************************************************************************)
\* The scope in front of an action: the walk keeps one set for the whole body,
\* with all vars in it from the start.
ScopeAt(c, i) ==
  Params \cup VarNames(c) \cup UNION { Binds(c[j]) : j \in { k \in Is(c, {"let", "for"}) : k < i } }

\* V8, check_undefined_refs: of the route's where, of its actions and of the
\* transforms; the where of a phase is none of these.
V8Where == \E e \in route.where : Undefined(e, Params) # {}
V8Actions == \E i \in Actions(Code) : Undefined(Code[i].of, ScopeAt(Code, i)) # {}
V8Transforms == \E i \in DOMAIN Code : \E t \in Sets(Code[i]) :
                  Undefined(t.of, Params \cup VarNames(Code)) # {}

\* V25: a var takes no name of a parameter, a member or another var.
V25 == \E i \in Vars(Code) : \/ Code[i].name \in Params \cup Members
                             \/ \E j \in Vars(Code) : j < i /\ Code[j].name = Code[i].name

\* Mutant: a phase may read its own vars.
OwnVars(c, i) ==
  IF OnlyPhases(c) /\ i \in Phases(c)
  THEN { c[j].name : j \in { k \in Vars(c) : k < Closes(c, i) } } ELSE {}

\* collect_var_defs_up_to_phase: of a phased body alone.
EarlierVars(c, i) ==
  IF OnlyPhases(c) /\ i \in Phases(c) THEN { c[j].name : j \in { k \in Vars(c) : k < i } } ELSE {}

V26 == \E i \in DOMAIN Code : \E t \in Sets(Code[i]) :
         TransformReads(t.of) \cap (VarNames(Code) \ EarlierVars(Code, i)) # {}
V27 == \E e \in route.where : WhereReads(e) \cap VarNames(Code) # {}
V28 == \E i \in Phases(Code) : \E e \in Wheres(Code[i]) :
         WhereReads(e) \cap (VarNames(Code) \ EarlierVars(Code, i)) # {}

\* check_unused_lets_in_actions: in a list of actions, what is read behind.
ReadBehind(c, i, n) == \E j \in Actions(c) \cap Inside(c, Block(c, i)) : j > i /\ Mentions(c[j].of, n)

\* check_unused_lets_in_phases: and, of a let that stands in a phase, in later
\* phases, their where and the trailing actions.
ReadLater(c, i, n) ==
  \E b \in Phases(c) : b = Block(c, i) /\ \E j \in DOMAIN c : j > Closes(c, b) /\
     \/ \E e \in Wheres(c[j]) : Mentions(e, n)
     \/ j \in Actions(c) /\ Mentions(c[j].of, n)

V51 == \E i \in Is(Code, {"let"}) : \E n \in Code[i].names :
         ~ReadBehind(Code, i, n) /\ ~ReadLater(Code, i, n)

\* check_action_for_body: no var in a loop.  check_phase_consistency: no actions
\* next to phases.
V29 == Vars(Code) # Is(Code, {"var"})
V54 == Mixed(Code)

Accepted ==
  ~ (V54 \/ V29 \/ V25 \/ V8Where \/ V8Actions \/ V8Transforms \/ V26 \/ V27 \/ V28 \/ V51)

-----------------------------------------------------------------------------
(***************************************************************************)
(* What the Solidity function declares.                                    *)
(***************************************************************************)
\* A let of one name; one of several is never declared anywhere else.
Single(t) == t.op = "let" /\ Cardinality(t.names) = 1
Singles(c) == { i \in DOMAIN c : Single(c[i]) }

\* collect_nested_hoist_locals: bound in a branch or a loop.
NestedNames(c) == UNION { Binds(c[i]) : i \in { j \in Singles(c) \cup Is(c, {"var"}) : Nested(c, j) } }

\* collect_cross_phase_lets: bound in a phase, read by a later action.
CrossPhase(c) ==
  UNION { Binds(c[i]) : i \in { j \in Singles(c) :
    \E b \in Phases(c) : b = Block(c, j) /\
       \E k \in Actions(c) : k > Closes(c, b) /\ Binds(c[j]) \subseteq Names(c[k].of) } }

\* collect_rebound_top_level_lets: bound again outside branches and loops.
Rebound(c) ==
  UNION { Binds(c[i]) : i \in { j \in Singles(c) : ~Nested(c, j) /\
    \E k \in Singles(c) : k < j /\ ~Nested(c, k) /\ c[k].names = c[j].names } }

\* Mutant: what a branch binds is declared there (the tests of EVM-ST-H1).
TopLevelOnly(c) == CrossPhase(c) \cup Rebound(c)

\* Mutant: a let is declared in the block of its phase.
PhaseLocal(c) == NestedNames(c) \cup Rebound(c)

Hoisted(c) == NestedNames(c) \cup CrossPhase(c) \cup Rebound(c)

\* emit_hoisted_var_call_decls_from_phase: the vars of a phased body.
PhaseVars(c) ==
  IF OnlyPhases(c) THEN { c[i].name : i \in { j \in Is(c, {"var"}) : ~Nested(c, j) } } \ Hoisted(c) ELSE {}

FunctionNames(c) == Hoisted(c) \cup PhaseVars(c)

\* emit_let, emit_var_call: what an instruction declares where it stands.
Declares(c, i) ==
  CASE Single(c[i]) -> c[i].names \ Hoisted(c)
    [] c[i].op = "let" /\ ~Single(c[i]) -> c[i].names
    [] c[i].op = "var" -> {c[i].name} \ FunctionNames(c)
    [] OTHER -> {}

\* The locals visible at an instruction.
Visible(c, i) ==
  Params \cup FunctionNames(c)
    \cup UNION { Declares(c, j) : j \in { k \in DOMAIN c : k < i /\ i \in Inside(c, Block(c, k)) } }
    \cup UNION { Binds(c[b]) : b \in Around(c, i) }

ReadAt(t) ==
  CASE t.op \in {"let", "var", "emit", "if", "for"} -> Free(t.of)
    [] t.op \in {"phase", "tail"} ->
         UNION { Free(e) : e \in Wheres(t) } \cup UNION { Free(s.of) : s \in Sets(t) }
    [] OTHER -> {}

\* solc: every name is declared, and no name twice in one block.
Undeclared(c) == \E i \in DOMAIN c : ReadAt(c[i]) \ (Visible(c, i) \cup Members) # {}

Twice(c) ==
  \/ Params \cap FunctionNames(c) # {}
  \/ \E i \in DOMAIN c :
       \/ Block(c, i) = 0 /\ Declares(c, i) \cap (Params \cup FunctionNames(c)) # {}
       \/ \E j \in DOMAIN c : j < i /\ Block(c, i) = Block(c, j) /\ Declares(c, i) \cap Declares(c, j) # {}

Compiles == ~Undeclared(Code) /\ ~Twice(Code)

-----------------------------------------------------------------------------
(***************************************************************************)
(* The route, executed.  The locals of a block are a function of names; an *)
(* undeclared one is a member.  What a binding gives its name is the       *)
(* number of the binding, from 1; numbers below stand for what is read of  *)
(* no binding.                                                             *)
(***************************************************************************)
Unset == 0
OfMember == -1
Given == -2

Holds(n) ==
  LET in == { k \in DOMAIN blocks : n \in DOMAIN blocks[k].locals }
  IN IF in = {} THEN OfMember ELSE blocks[Max(in)].locals[n]

\* An assignment to the innermost local of the name, or its declaration here.
Assign(n, x, here) ==
  LET in == { k \in DOMAIN blocks : n \in DOMAIN blocks[k].locals }
      k == IF here \/ in = {} THEN Len(blocks) ELSE Max(in)
  IN [blocks EXCEPT ![k].locals = [m \in DOMAIN @ \cup {n} |-> IF m = n THEN x ELSE @[m]]]

Entered(b) == Append(blocks, [at |-> b, locals |-> << >>])

\* What a name means in an action or a where, and in a transform, which sees no
\* let of the route.
Meant(n) == IF n \in DOMAIN env THEN env[n] ELSE IF n \in Members THEN OfMember ELSE Unset
MeantInTransform(n) == IF n \in Members /\ n \notin Params THEN OfMember ELSE Meant(n)

DiffersIn(e) == \E n \in Free(e) : Meant(n) # Unset /\ Holds(n) # Meant(n)
ReadsUnset(e) == \E n \in Free(e) : Meant(n) = Unset

\* A read of another value than the one meant, a read of what no statement of
\* this path has bound, a transform that writes a local of its member's name.
OfReads(e) ==
  (IF DiffersIn(e) THEN {"read"} ELSE {}) \cup (IF ReadsUnset(e) THEN {"unset"} ELSE {})

OfSets(sets) ==
  UNION { (IF \E n \in Free(s.of) : MeantInTransform(n) # Unset /\ Holds(n) # MeantInTransform(n)
           THEN {"read"} ELSE {})
          \cup (IF \E n \in Free(s.of) : MeantInTransform(n) = Unset THEN {"unset"} ELSE {})
          \cup (IF Holds(s.member) # OfMember THEN {"write"} ELSE {}) : s \in sets }

At(op) == pos \in DOMAIN Code /\ Code[pos].op = op
T == Code[pos]

BindTo(n) == [m \in DOMAIN env \cup {n} |-> IF m = n THEN clock + 1 ELSE env[m]]

\* A phase checks its where and commits its transforms; so does, without where,
\* what is outside phases.
Phase ==
  /\ At("phase") \/ At("tail")
  /\ parted' = parted \cup UNION { OfReads(e) : e \in Wheres(T) } \cup OfSets(T.sets)
  /\ blocks' = IF At("phase") THEN Entered(pos) ELSE blocks
  /\ pos' = pos + 1
  /\ UNCHANGED <<route, env, again, clock>>

\* A let or a var: a declaration in this block or an assignment.
Binding ==
  /\ At("let") \/ At("var")
  /\ parted' = parted \cup OfReads(T.of)
  /\ clock' = clock + 1
  /\ LET n == CHOOSE n \in Binds(T) : TRUE
         both == Binds(T)
     IN IF Cardinality(both) = 1
        THEN blocks' = Assign(n, clock', n \in Declares(Code, pos)) /\ env' = BindTo(n)
        ELSE /\ blocks' = [blocks EXCEPT ![Len(blocks)].locals =
                             [m \in DOMAIN @ \cup both |-> IF m \in both THEN clock' ELSE @[m]]]
             /\ env' = [m \in DOMAIN env \cup both |-> IF m \in both THEN clock' ELSE env[m]]
  /\ pos' = pos + 1
  /\ UNCHANGED <<route, again>>

Emit ==
  /\ At("emit")
  /\ parted' = parted \cup OfReads(T.of)
  /\ pos' = pos + 1
  /\ UNCHANGED <<route, blocks, env, again, clock>>

\* Either branch.
If ==
  /\ At("if")
  /\ parted' = parted \cup OfReads(T.of)
  /\ \/ blocks' = Entered(pos) /\ pos' = pos + 1
     \/ LET e == Closes(Code, pos)
        IN /\ blocks' = IF Code[e].op = "else" THEN Entered(e) ELSE blocks
           /\ pos' = e + 1
  /\ UNCHANGED <<route, env, again, clock>>

\* No round, or a first one.
For ==
  /\ At("for")
  /\ parted' = parted \cup OfReads(T.of)
  /\ \/ pos' = Closes(Code, pos) + 1 /\ UNCHANGED <<blocks, env, clock>>
     \/ /\ blocks' = Append(blocks, [at |-> pos, locals |-> [n \in {T.name} |-> clock + 1]])
        /\ env' = BindTo(T.name)
        /\ clock' = clock + 1
        /\ pos' = pos + 1
  /\ UNCHANGED <<route, again>>

\* The end of a block; of a loop, once, another round.
End ==
  /\ At("end") \/ At("else")
  /\ LET b == blocks[Len(blocks)].at
         e == IF At("else") THEN Closes(Code, pos) ELSE pos
         closed == SubSeq(blocks, 1, Len(blocks) - 1)
     IN \/ /\ blocks' = closed /\ pos' = e + 1
           /\ UNCHANGED <<env, again, clock>>
        \/ /\ again /\ Code[b].op = "for"
           /\ again' = FALSE
           /\ blocks' = Append(closed, [at |-> b, locals |-> [n \in {Code[b].name} |-> clock + 1]])
           /\ env' = BindTo(Code[b].name)
           /\ clock' = clock + 1
           /\ pos' = b + 1
  /\ UNCHANGED <<route, parted>>

-----------------------------------------------------------------------------
\* The function starts with its parameters, checks the route's where, and
\* declares its locals, at zero, behind these; a route that is rejected or does
\* not compile is not run.
Init ==
  /\ route \in Routes
  /\ pos = IF Accepted /\ Compiles THEN 1 ELSE 0
  /\ blocks = << [at |-> 0, locals |->
                    [n \in Params \cup FunctionNames(Code) |-> IF n \in Params THEN Given ELSE Unset]] >>
  /\ env = [n \in Params |-> Given]
  /\ again = TRUE
  /\ clock = 0
  /\ parted = {}

Next == Phase \/ Binding \/ Emit \/ If \/ For \/ End

-----------------------------------------------------------------------------
(***************************************************************************)
(* Where the function differs from the route, or solc rejects it, although *)
(* the validator has accepted the route.                                   *)
(***************************************************************************)
Reads(c, j, n) == n \in ReadAt(c[j])

\* A name of a loop or of a let of several, read outside the block that declares
\* it.
LoopEscapes(c) == \E i \in Is(c, {"for"}), j \in DOMAIN c : j > Closes(c, i) /\ Reads(c, j, c[i].name)
TupleEscapes(c) ==
  \E i \in Is(c, {"let"}) \ Singles(c), j \in DOMAIN c : \E n \in c[i].names :
    j > i /\ j \notin Inside(c, Block(c, i)) /\ Reads(c, j, n)

\* A where of a phase that reads a let, or nothing that exists.
WhereReadsLet(c) ==
  \E i \in Phases(c) : \E e \in Wheres(c[i]) : ~ Free(e) \subseteq Params \cup Members \cup VarNames(c)

\* A var read in front of its call.
ReadAhead(c) ==
  \E i \in Vars(c), j \in Actions(c) : /\ j <= i /\ Reads(c, j, c[i].name)
                                      /\ ~ \E k \in DOMAIN c : k < j /\ c[i].name \in Binds(c[k])

\* A name with two binders, other than of single lets; with a parameter's name;
\* with a member's.
Repeated(c) ==
  \/ \E i \in DOMAIN c : Binds(c[i]) \cap Params # {}
  \/ \E i \in DOMAIN c \ Singles(c), j \in DOMAIN c : i # j /\ Binds(c[i]) \cap Binds(c[j]) # {}
LocalNamedMember(c) == Members \cap (Params \cup UNION { Binds(c[i]) : i \in DOMAIN c }) # {}

\* A var read by a transform or a where in a term that V26 and V28 do not enter.
Unvisited(c) ==
  \/ \E i \in DOMAIN c : \E t \in Sets(c[i]) : (Free(t.of) \ TransformReads(t.of)) \cap VarNames(c) # {}
  \/ \E i \in DOMAIN c : \E e \in Wheres(c[i]) : (Free(e) \ WhereReads(e)) \cap VarNames(c) # {}

\* What a branch or a loop binds, read outside of it (V44 is reserved for it).
EscapesBranch(c) ==
  \E i \in DOMAIN c, j \in DOMAIN c : \E n \in Binds(c[i]) :
    Nested(c, i) /\ j > i /\ j \notin Inside(c, Block(c, i)) /\ Reads(c, j, n)

-----------------------------------------------------------------------------
\* What is accepted compiles: every name it reads is declared where it is read.
Declared ==
  pos = 0 /\ Accepted /\ ~Compiles =>
    \/ LoopEscapes(Code) \/ TupleEscapes(Code) \/ WhereReadsLet(Code)
    \/ ReadAhead(Code) \/ Repeated(Code) \/ Unvisited(Code)

\* A read finds what the name was last bound to, and a transform its member.
SameBindings ==
  parted \cap {"read", "write"} # {} => Repeated(Code) \/ LocalNamedMember(Code)

\* A read finds a binding: no local is read at the zero it is declared with.
BoundBeforeRead ==
  "unset" \in parted => EscapesBranch(Code) \/ ReadAhead(Code) \/ Unvisited(Code)
=============================================================================
