---------------------------- MODULE ExprLowering ----------------------------
(***************************************************************************)
(* The body of a member's transform, from the expression to what each      *)
(* target makes of it.  The Solidity backend takes what it cannot print    *)
(* inline out into statements in front of the value, with locals whose     *)
(* types it infers (solidity/core/expr.rs, types.rs): here lowered at the  *)
(* start and executed statement by statement.  The Lean backend binds the  *)
(* operations that may fail and leaves all others total terms              *)
(* (lean/expr.rs), under overflow-wrap and overflow-panic.  Both against   *)
(* the value LANGUAGE.md gives the expression.                             *)
(*                                                                         *)
(* Three unsigned widths: U256, the u64 of literals, and the u8 of `fit`,  *)
(* which stands for `(e as u8) as U256`.                                   *)
(***************************************************************************)
EXTENDS Integers, Sequences, TLC

CONSTANTS Expressions,  \* the bodies, of a U256 or a bool member
          Word,         \* the numbers of U256
          Half,         \* the numbers of u64
          Byte,         \* the numbers of u8
          Values        \* what the members start from

ExprAssumption == Byte <= Half /\ Half <= Word /\ Values \subseteq 0 .. (Word - 1)

VARIABLES source,   \* the expression
          inputs,   \* the members it reads; neither changes
          code,     \* the statements still to execute
          locals,   \* the members, and the locals declared so far
          outcome   \* of the transform on EVM

exprVars == <<source, inputs, code, locals, outcome>>

Ok(x) == [ok |-> TRUE, is |-> x]
Fail == [ok |-> FALSE]
Running == [ok |-> FALSE, running |-> TRUE]
Bind(o, F(_)) == IF o.ok THEN F(o.is) ELSE Fail

Ariths == {"+", "-", "*", "/", "%"}
Overflowing == {"+", "-", "*"}
Binaries == Ariths \cup {"+%", "<", "==", "&&", "||"}

Parts(e) == CASE e.op \in {"lit", "var"} -> {}
              [] e.op \in Binaries -> {e.l, e.r}
              [] e.op \in {"!", "fit", "call"} -> {e.e}
              [] e.op = "if" -> {e.c, e.t, e.e}
              [] e.op = "match" -> {e.on, e.t, e.e}
              [] e.op = "let" -> {e.be, e.in}

RECURSIVE Within(_)
Within(e) == {e} \cup UNION { Within(s) : s \in Parts(e) }

\* The pure functions of the program: one fails, one may overflow.
Param == [op |-> "var", name |-> "p"]
Fns == [inv |-> [op |-> "/", l |-> [op |-> "lit", n |-> 6], r |-> Param],
        inc |-> [op |-> "+", l |-> Param, r |-> [op |-> "lit", n |-> 1]]]

-----------------------------------------------------------------------------
\* Types as Solidity gives them.  A literal has that of the other operand.
Join(a, b) == CASE a = b -> a [] a = "lit" -> b [] b = "lit" -> a [] OTHER -> "U256"

RECURSIVE Type(_, _)
Type(e, env) == CASE e.op = "lit" -> "lit"
                  [] e.op = "var" -> env[e.name].ty
                  [] e.op \in Ariths -> Join(Type(e.l, env), Type(e.r, env))
                  [] e.op \in {"<", "==", "&&", "||", "!"} -> "bool"
                  [] e.op \in {"if", "match"} -> Join(Type(e.t, env), Type(e.e, env))
                  [] OTHER -> "U256"

Size(ty) == IF ty = "u64" THEN Half ELSE Word

\* `regime`: "checked" arithmetic, "sol" for checked at the width of the
\* operands' type, "wrap" for checked but in + - *, and "total" where nothing
\* fails.
Exact(op, a, b) == CASE op = "+" -> a + b [] op = "-" -> a - b [] op = "*" -> a * b
                     [] op = "/" -> a \div b [] op = "%" -> a % b

Compute(op, a, b, regime, size) ==
  CASE op = "<" -> Ok(a < b)
    [] op = "==" -> Ok(a = b)
    [] op = "&&" -> Ok(a /\ b)
    [] op = "||" -> Ok(a \/ b)
    [] op = "+%" -> Ok((a + b) % Word)
    [] op \in {"/", "%"} /\ b = 0 ->
         IF regime = "total" THEN Ok(IF op = "/" THEN 0 ELSE a) ELSE Fail
    [] OTHER -> LET x == Exact(op, a, b)
                IN CASE regime \in {"total", "wrap"} -> Ok(x % size)
                     [] x \in 0 .. (size - 1) -> Ok(x)
                     [] OTHER -> Fail

Fitted(x, regime) == CASE x < Byte -> Ok(x) [] regime = "total" -> Ok(x % Byte) [] OTHER -> Fail

Given(x, ty) == [is |-> x, ty |-> ty]
With(env, name, x, ty) == (name :> Given(x, ty)) @@ env
Parameter(x) == [p |-> Given(x, "U256")]

\* An expression as a term: what is not reached does not fail.
RECURSIVE Eval(_, _, _)
Eval(e, env, regime) ==
  LET E(s) == Eval(s, env, regime)
  IN CASE e.op = "lit" -> Ok(e.n)
       [] e.op = "var" -> Ok(env[e.name].is)
       [] e.op = "&&" -> Bind(E(e.l), LAMBDA a : IF a THEN E(e.r) ELSE Ok(FALSE))
       [] e.op = "||" -> Bind(E(e.l), LAMBDA a : IF a THEN Ok(TRUE) ELSE E(e.r))
       [] e.op = "!" -> Bind(E(e.e), LAMBDA a : Ok(~a))
       [] e.op = "fit" -> Bind(E(e.e), LAMBDA a : Fitted(a, regime))
       [] e.op = "if" -> Bind(E(e.c), LAMBDA a : IF a THEN E(e.t) ELSE E(e.e))
       [] e.op = "match" -> Bind(E(e.on), LAMBDA a : IF a = e.k THEN E(e.t) ELSE E(e.e))
       [] e.op = "let" -> Bind(E(e.be), LAMBDA a : Eval(e.in, With(env, e.name, a, "U256"), regime))
       [] e.op = "call" -> Bind(E(e.e), LAMBDA a : Eval(Fns[e.fn], Parameter(a), regime))
       [] OTHER -> LET size == IF regime = "sol" THEN Size(Type(e, env)) ELSE Word
                   IN Bind(E(e.l), LAMBDA a : Bind(E(e.r), LAMBDA b : Compute(e.op, a, b, regime, size)))

\* The value of the documents.
Meaning(regime) == Eval(source, inputs, regime)

-----------------------------------------------------------------------------
\* gen_expr prints an expression inline: without a let, and a match only if
\* its arms are literals and names.
Inline(e) == \A s \in Within(e) : /\ s.op # "let"
                                  /\ s.op = "match" => s.t.op \in {"lit", "var"} /\ s.e.op \in {"lit", "var"}

Merged(a, b) == IF a = b THEN a ELSE "U256"

\* The type a local is declared with: any narrow operand decides it.
RECURSIVE Decl(_, _)
Decl(e, env) ==
  CASE e.op = "lit" -> "u64"
    [] e.op = "var" -> env[e.name].ty
    [] e.op \in Ariths \cup {"+%"} -> LET l == Decl(e.l, env) IN LET r == Decl(e.r, env)
                                      IN CASE e.r.op = "lit" -> l
                                           [] e.l.op = "lit" -> r
                                           [] OTHER -> IF l # "U256" THEN l ELSE r
    [] e.op \in {"<", "==", "&&", "||", "!"} -> "bool"
    [] e.op = "if" -> Merged(Decl(e.t, env), Decl(e.e, env))
    [] e.op = "match" -> Decl(e.t, env)
    [] e.op = "let" -> Decl(e.in, With(env, e.name, 0, Decl(e.be, env)))
    [] OTHER -> "U256"

\* The type a value is taken to have where it flows into that local: a cast
\* keeps a narrow type it is applied to.
RECURSIVE Flow(_, _)
Flow(e, env) ==
  CASE e.op \in {"if", "match"} -> Flow(e.t, env)
    [] e.op = "fit" -> "u8"
    [] e.op \in Ariths -> Join(Flow(e.l, env), Flow(e.r, env))
    [] e.op = "let" -> Flow(e.in, With(env, e.name, 0, Decl(e.be, env)))
    [] OTHER -> Type(e, env)

MatchType(e, env) ==
  LET arms == <<Decl(e.t, env), Decl(e.e, env)>>
  IN CASE arms[1] # "U256" -> arms[1]
       [] arms[2] # "U256" -> arms[2]
       [] OTHER -> Decl(e.on, env)

\* A statement: an assignment, or a conditional with its two blocks.
\* Mutant: a wider value is not converted.
BareSet(name, ty, val, of, env) == [do |-> "set", name |-> name, ty |-> ty, to |-> val, cast |-> FALSE]
Set(name, ty, val, of, env) ==
  [do |-> "set", name |-> name, ty |-> ty, to |-> val, cast |-> ty = "u64" /\ Flow(of, env) \notin {ty, "lit"}]
Assign(name, ty, val) == [do |-> "set", name |-> name, ty |-> ty, to |-> val, cast |-> FALSE]
Cond(c, then, else) == [do |-> "if", c |-> c, then |-> then, else |-> else]

Var(name) == [op |-> "var", name |-> name]
Temps == <<"t1", "t2", "t3", "t4">>
Lowered(stmts, val, next) == [stmts |-> stmts, val |-> val, next |-> next]

\* A conditional whose blocks end in an assignment of what they compute.
\* Mutant: the statements of both branches run in front of it.
EagerChoice(name, o, c, t, f, then, else) ==
  Lowered(o.stmts \o t.stmts \o f.stmts \o <<Cond(c, <<then>>, <<else>>)>>, Var(name), f.next)
Choice(name, o, c, t, f, then, else) ==
  Lowered(o.stmts \o <<Cond(c, t.stmts \o <<then>>, f.stmts \o <<else>>)>>, Var(name), f.next)

\* gen_expr_hoisted: statements, and the value they leave to be printed.
RECURSIVE Hoist(_, _, _)
Hoist(e, env, next) ==
  CASE Inline(e) -> Lowered(<< >>, e, next)
    [] e.op = "let" ->
         LET ty == Decl(e.be, env)
         IN LET v == Hoist(e.be, env, next)
         IN LET b == Hoist(e.in, With(env, e.name, 0, ty), v.next)
         IN Lowered(v.stmts \o <<Set(e.name, ty, v.val, e.be, env)>> \o b.stmts, b.val, b.next)
    [] e.op = "if" ->
         LET c == Hoist(e.c, env, next + 1)
             ty == Decl(e, env)
         IN LET t == Hoist(e.t, env, c.next)
         IN LET f == Hoist(e.e, env, t.next)
         IN Choice(Temps[next], c, c.val, t, f, Assign(Temps[next], ty, t.val), Assign(Temps[next], ty, f.val))
    [] e.op = "match" ->
         LET o == Hoist(e.on, env, next + 1)
             ty == MatchType(e, env)
         IN LET t == Hoist(e.t, env, o.next)
         IN LET f == Hoist(e.e, env, t.next)
         IN Choice(Temps[next], o, [op |-> "==", l |-> o.val, r |-> [op |-> "lit", n |-> e.k]], t, f,
                   Set(Temps[next], ty, t.val, e.t, env), Set(Temps[next], ty, f.val, e.e, env))
    [] e.op = "call" -> LET a == Hoist(e.e, env, next) IN Lowered(a.stmts, [e EXCEPT !.e = a.val], a.next)
    [] e.op \in Binaries ->   \* the wrapping operators are printed as the checked ones
         LET l == Hoist(e.l, env, next)
         IN LET r == Hoist(e.r, env, l.next)
         IN Lowered(l.stmts \o r.stmts, [op |-> IF e.op = "+%" THEN "+" ELSE e.op, l |-> l.val, r |-> r.val], r.next)

Transform == Hoist(source, inputs, 1)

Stored(o, s) == IF s.cast THEN o.is % Half ELSE o.is

\* A declaration or an assignment; a value that fails reverts.
Execute ==
  /\ code # << >> /\ Head(code).do = "set"
  /\ LET s == Head(code)
         o == Eval(s.to, locals, "sol")
     IN IF o.ok
        THEN locals' = With(locals, s.name, Stored(o, s), s.ty) /\ code' = Tail(code) /\ UNCHANGED outcome
        ELSE outcome' = Fail /\ code' = << >> /\ UNCHANGED locals
  /\ UNCHANGED <<source, inputs>>

Branch ==
  /\ code # << >> /\ Head(code).do = "if"
  /\ LET s == Head(code)
         o == Eval(s.c, locals, "sol")
     IN IF o.ok
        THEN code' = (IF o.is THEN s.then ELSE s.else) \o Tail(code) /\ UNCHANGED outcome
        ELSE outcome' = Fail /\ code' = << >>
  /\ UNCHANGED <<source, inputs, locals>>

\* next_m = the value.
Commit ==
  /\ code = << >> /\ outcome = Running
  /\ outcome' = Eval(Transform.val, locals, "sol")
  /\ UNCHANGED <<source, inputs, code, locals>>

\* Two members of type U256 and one of type u64.
Inputs == { [u |-> Given(a, "U256"), v |-> Given(b, "U256"), n |-> Given(c, "u64")] :
              a \in Values, b \in Values, c \in Values \cap 0 .. (Half - 1) }

Init ==
  /\ source \in Expressions /\ inputs \in Inputs
  /\ code = Transform.stmts
  /\ locals = inputs
  /\ outcome = Running

Next == Execute \/ Branch \/ Commit

-----------------------------------------------------------------------------
\* The Lean backend binds an expression that has a division other than by a
\* literal, a narrowing cast or a call of a function that has one, and under
\* overflow-panic one with + - *.
LiteralDivisor(e) == e.r.op = "lit" /\ e.r.n # 0

Divides(e) == e.op = "fit" \/ (e.op \in {"/", "%"} /\ ~LiteralDivisor(e))

\* What the search for calls sees: nothing under `!`, no scrutinee.
RECURSIVE CallsFailing(_)
CallsFailing(e) ==
  \/ e.op = "call" /\ \E s \in Within(Fns[e.fn]) : Divides(s)
  \/ e.op # "!" /\ \E s \in (IF e.op = "match" THEN {e.t, e.e} ELSE Parts(e)) : CallsFailing(s)

\* Mutant: calls of functions that fail are not looked for.
ForcesDivisions(e) == \E s \in Within(e) : Divides(s)
Forces(e) == (\E s \in Within(e) : Divides(s)) \/ CallsFailing(e)

Bound(e, panic) == Forces(e) \/ (panic /\ \E s \in Within(e) : s.op \in Overflowing)

\* gen_expr_as_route_result: what is bound, in the order it is; the rest are
\* terms.
RECURSIVE Monadic(_, _, _)
Monadic(e, env, panic) ==
  LET M(s) == Monadic(s, env, panic)
      both(regime) == Bind(M(e.l), LAMBDA a : Bind(M(e.r), LAMBDA b : Compute(e.op, a, b, regime, Word)))
  IN CASE e.op \in Overflowing /\ panic -> both("checked")
       [] e.op \in {"/", "%"} /\ ~LiteralDivisor(e) -> both("checked")
       [] e.op = "call" -> Bind(M(e.e), LAMBDA a : IF Forces(Fns[e.fn]) THEN Monadic(Fns[e.fn], Parameter(a), panic)
                                                   ELSE Eval(Fns[e.fn], Parameter(a), "total"))
       [] e.op \in Binaries /\ (Forces(e.l) \/ Forces(e.r)) -> both("total")
       [] e.op = "if" -> IF Eval(e.c, env, "total").is THEN M(e.t) ELSE M(e.e)
       [] e.op = "match" -> IF Eval(e.on, env, "total").is = e.k THEN M(e.t) ELSE M(e.e)
       [] e.op = "let" -> Bind(M(e.be), LAMBDA a : Monadic(e.in, With(env, e.name, a, "U256"), panic))
       [] OTHER -> Eval(e, env, "total")

Lean(mode) ==
  IF Bound(source, mode = "panic") THEN Monadic(source, inputs, mode = "panic")
                                   ELSE Eval(source, inputs, "total")

-----------------------------------------------------------------------------
\* May the expression fail, as documented?
MayFail(e, panic) ==
  \E s \in Within(e) : \/ Divides(s)
                       \/ s.op = "call" /\ (s.fn = "inv" \/ panic)
                       \/ panic /\ s.op \in Overflowing

Connectives(e) == { s \in Within(e) : s.op \in {"&&", "||"} }

\* Statements of a right operand run in front of the left one.
EagerOperand == \E s \in Connectives(source) : ~Inline(s.r) /\ MayFail(s.r, TRUE)

\* A wrapping addition is checked once an operand has statements.
HoistedWrap == \E s \in Within(source) : s.op = "+%" /\ ~Inline(s)

\* A literal, or a narrow operand, decides the type of a local that holds
\* more.
NarrowLocal == \E s \in Within(source) :
                 \/ s.op = "let" /\ Decl(s.be, inputs) = "u64"
                 \/ s.op = "match" /\ ~Inline(s) /\ \E a \in {s.on, s.t, s.e} : Decl(a, inputs) = "u64"

\* LANGUAGE.md:255-265 and 351: arithmetic is checked, a division by zero and
\* a narrowing out of range fail, and what is not reached does not: the
\* statements of a transform compute that, and each assignment type-checks,
\* but for the three forms above (gen_expr, gen_expr_hoisted,
\* infer_let_type_entity, actual_sol_type).
EvmMeans ==
  /\ code # << >> /\ Head(code).do = "set" =>
       LET s == Head(code) IN s.ty = "u64" /\ ~s.cast => Type(s.to, locals) \in {"u64", "lit"}
  /\ outcome # Running =>
       \/ outcome = Meaning("checked")
       \/ ~outcome.ok /\ (EagerOperand \/ HoistedWrap)
       \/ NarrowLocal

\* A failure is lost in a condition or a scrutinee, under `!` and a cast, in
\* a call of a function that is not bound, and, where only + - * may fail,
\* under any other operator.
Loses(panic) ==
  \E s \in Within(source) :
    \/ s.op = "if" /\ MayFail(s.c, panic)
    \/ s.op = "match" /\ MayFail(s.on, panic)
    \/ s.op = "!" /\ MayFail(s.e, panic)
    \/ s.op = "fit"
    \/ panic /\ s.op = "call" /\ s.fn = "inc"
    \/ panic /\ s.op \in Binaries \ Overflowing /\ (s.op \in {"/", "%"} => LiteralDivisor(s))
             /\ ~Forces(s.l) /\ ~Forces(s.r) /\ MayFail(s, TRUE)

\* Both operands of a connective are bound if one is.
Strict(panic) == \E s \in Connectives(source) : (Forces(s.l) \/ Forces(s.r)) /\ MayFail(s.r, panic)

\* LANGUAGE.md:286-309: the Lean model fails where the program does, under
\* overflow-panic also on an overflow, which wraps by default.  A failure may
\* be lost in the forms of Loses, and one of an operand that is not reached
\* may count (expr_forces_fail_surface_with_nat, gen_expr_as_route_result,
\* emit_transform_def).
LeanMeans ==
  outcome # Running =>
    \A mode \in {"wrap", "panic"} :
      LET panic == mode = "panic"
          meant == Meaning(IF panic THEN "checked" ELSE "wrap")
      IN IF meant.ok THEN Lean(mode) = meant \/ (~Lean(mode).ok /\ Strict(panic))
                     ELSE ~Lean(mode).ok \/ Loses(panic)
=============================================================================
