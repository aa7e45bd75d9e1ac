------------------------------- MODULE Syntax -------------------------------
(***************************************************************************)
(* The places of a program in which an action or an expression may stand   *)
(* (ast.rs): the roots of an entity, and the slots of its actions and      *)
(* expressions, each a construct and one of its parts.  The parts of a     *)
(* construct that every walk treats alike are one slot.                    *)
(*                                                                         *)
(* Four slots are not fields of the AST.  A closure that fold or a chain   *)
(* of filter, map and for_each takes is "Chain", any other "Closure"; a    *)
(* range that a for runs over is "LoopRange", any other "Range"; a call of *)
(* the standard library that is supported is "Std", any other namespaced   *)
(* call "NamespacedCall" (f(x) behind one name, as evm::f(x), parses as    *)
(* "EnumVariantWithData"); and the actions behind a let or a var are a     *)
(* part "behind" of it.                                                    *)
(***************************************************************************)
EXTENDS FiniteSets

Parts(c, parts) == {c} \X parts

\* Operands of an expression.
Operators ==
  Parts("BinOp", {"operand"}) \cup Parts("UnaryOp", {"operand"}) \cup Parts("Cast", {"of"})
  \cup Parts("FieldAccess", {"base"}) \cup Parts("Index", {"base", "key"})
  \cup Parts("Range", {"end"}) \cup Parts("LoopRange", {"end"})

Calls ==
  Parts("MethodCall", {"receiver", "arg"}) \cup Parts("FnCall", {"arg"}) \cup Parts("MacroRef", {"arg"})
  \cup Parts("EnumVariantWithData", {"arg"}) \cup Parts("Std", {"arg"}) \cup Parts("NamespacedCall", {"arg"})

Data ==
  Parts("RecordConstruct", {"field"}) \cup Parts("RecordUpdate", {"base", "field"})
  \cup Parts("Tuple", {"item"}) \cup Parts("ArrayLit", {"item"}) \cup Parts("Some", {"of"})
  \cup Parts("Encode", {"value"}) \cup Parts("AddressOf", {"arg"})

Control ==
  Parts("If", {"cond", "branch"}) \cup Parts("Block", {"item", "last"}) \cup Parts("Let", {"value", "body"})
  \cup Parts("Match", {"subject", "arm"}) \cup Parts("For", {"iter", "body"})
  \cup Parts("Closure", {"body"}) \cup Parts("Chain", {"body"})

Exprs == Operators \cup Calls \cup Data \cup Control

\* Expressions of an action ...
Operands ==
  Parts("Send", {"arg", "dest", "options"}) \cup Parts("VarCall", {"arg", "dest", "options"})
  \cup Parts("Deploy", {"arg", "options"}) \cup Parts("Conditional", {"condition"})
  \cup Parts("ForAction", {"iter"}) \cup Parts("Return", {"value"}) \cup Parts("LetAction", {"value"})
  \cup Parts("Effect", {"arg"}) \cup Parts("CallRoute", {"arg"}) \cup Parts("Emit", {"arg"})
  \cup Parts("ThrowCustom", {"arg"}) \cup Parts("UpdateCode", {"arg"})

\* ... actions in an action, and actions behind one that binds a name.
Nested == Parts("Conditional", {"branch"}) \cup Parts("ForAction", {"body"}) \cup Parts("Rescue", {"action"})
Behind == Parts("LetAction", {"behind"}) \cup Parts("VarCall", {"behind"})

Slots == Exprs \cup Operands \cup Nested \cup Behind

Of(constructs) == { s \in Slots : s[1] \in constructs }

\* The slots below a name that the construct binds.
Binders ==
  Behind \cup {<<"Let", "body">>, <<"Closure", "body">>, <<"Chain", "body">>, <<"Match", "arm">>,
               <<"For", "body">>, <<"ForAction", "body">>}

\* What is written in an entity: the guards of a route and of its phases and
\* what they throw, the senders it accepts, its actions; the members; macros;
\* constants; the functions of the program and of its libraries; and what an
\* invariant checks.
Guards == {"where", "from", "phaseWhere"}
Thrown == {"whereErr", "fromErr", "phaseErr"}
Route == Guards \cup Thrown \cup {"with", "actions"}
Entity == Route \cup {"transform", "default", "macro"}
Roots == Entity \cup {"constant", "pure", "libPure", "check"}
=============================================================================
