------------------------------ MODULE UseWalks ------------------------------
(***************************************************************************)
(* How far the passes behind the validator look.  A rewrite must reach     *)
(* whatever it replaces; a scan decides whether the output needs a helper, *)
(* a second mapping, `payable`, and must find every use.  Like the rules   *)
(* (RuleWalks) each is a walk of its own over the syntax, and where two of *)
(* them miss the same slots it is by accident.                             *)
(***************************************************************************)
EXTENDS RuleWalks

Bases == {<<"RecordUpdate", "base">>}
Ranges == Of({"Range", "LoopRange"})
AllActions == Operands \cup Nested
Bodies == {"actions", "where", "default", "transform", "pure"}

-----------------------------------------------------------------------------
(***************************************************************************)
(* Rewrites of the program, before it is validated: literals of a type     *)
(* (ast.rs), and method calls that a `using` lends to a type.              *)
(***************************************************************************)
map_expr == Exprs
map_route_action == AllActions

\* Mutant: the guards of phases are left as they are.
PhasesKept ==
  Walk({"pure", "libPure", "default", "transform", "constant", "macro", "from", "with", "where",
        "actions", "check"},
       map_route_action \cup map_expr)
map_program_exprs ==
  Walk({"pure", "libPure", "default", "transform", "constant", "macro", "from", "with", "where",
        "actions", "phaseWhere", "check"},
       map_route_action \cup map_expr)

rewrite_children == Exprs
rewrite_action == AllActions
rewrite_entity ==
  Walk({"where", "from", "actions", "phaseWhere", "transform", "default", "macro", "constant"},
       rewrite_action \cup rewrite_children)

-----------------------------------------------------------------------------
(***************************************************************************)
(* Scans for the helpers of the generated Solidity: bare functions of the  *)
(* standard library, calls in std::, the padding that number formats need, *)
(* methods of values, string parsing, wrapping arithmetic.                 *)
(***************************************************************************)
stdlib_fn_used_in_expr ==
  Exprs \ ({<<"Block", "item">>, <<"Block", "last">>} \cup Closures \cup Of({"MacroRef"}) \cup Bases \cup TestOnly)
stdlib_fn_used_in_action == AllActions
stdlib_fn_used_in_program == Walk(Bodies, stdlib_fn_used_in_action \cup stdlib_fn_used_in_expr)

\* Mutant: blocks are not looked into, as in the scan above.
BlocksSkipped == Exprs \ (Of({"Block"}) \cup Bases \cup TestOnly)
std_ns_call_used_in_expr == Exprs \ (Bases \cup TestOnly)
std_ns_call_used_in_action == AllActions
std_ns_call_used_in_program == Walk(Bodies, std_ns_call_used_in_action \cup std_ns_call_used_in_expr)

std_format_pad6_used_in_expr == Exprs \ (Bases \cup TestOnly)
std_format_pad6_used_in_action == AllActions
std_format_pad6_used_in_program ==
  Walk(Bodies, std_format_pad6_used_in_action \cup std_format_pad6_used_in_expr)

method_used_in_expr == Exprs \ (Of({"ArrayLit", "For", "LoopRange"}) \cup Bases \cup TestOnly)
method_used_in_action == AllActions
method_used_in_program == Walk(Bodies \ {"default"}, method_used_in_action \cup method_used_in_expr)

std_str_parse_used_in_expr == Exprs \ (Ranges \cup Of({"EnumVariantWithData"}) \cup Bases)
std_str_parse_used_in_action == AllActions
std_str_parse_used_in_program == Walk(Bodies, std_str_parse_used_in_action \cup std_str_parse_used_in_expr)

has_wrap_expr == Exprs \ TestOnly
has_wrap_action ==
  Of({"LetAction", "Return", "Effect", "CallRoute", "Conditional", "Rescue"})
  \cup { <<a, "arg">> : a \in {"Send", "Deploy", "VarCall"} } \cup {<<"VarCall", "dest">>}
entity_uses_wrapping_ops == Walk({"transform", "where", "actions"}, has_wrap_action \cup has_wrap_expr)
pure_code_uses_wrapping_ops == Walk({"pure", "libPure"}, has_wrap_expr)

-----------------------------------------------------------------------------
(***************************************************************************)
(* Scans for what a mapping needs beside it: a set of the keys present     *)
(* where m.exists(k) is asked, a list of them where m is run over.  They   *)
(* follow a name through a let by substitution, and a parameter of a       *)
(* function by the scans of ctx.rs.                                        *)
(***************************************************************************)
entity_walks_any == {"actions", "where", "default", "transform", "macro"}
uses_exists_expr == Exprs \ Of({"ArrayLit"})
member_uses_exists == Walk(entity_walks_any, AllActions \cup uses_exists_expr)
is_iterated_expr == Exprs \ Of({"ArrayLit"})
member_is_iterated == Walk(entity_walks_any, AllActions \cup is_iterated_expr)

param_uses_exists ==
  Walk({"pure", "libPure"},
       Exprs \ (Of({"RecordConstruct", "RecordUpdate", "For", "EnumVariantWithData", "NamespacedCall",
                    "Std", "ArrayLit"}) \cup Closures \cup TestOnly))
param_uses_iteration == Walk({"pure", "libPure"}, Exprs \ Of({"ArrayLit"}))

\* The same question for the Lean model, which keeps a list for any of these.
member_needs_keys_expr == Exprs \ (Of({"ArrayLit"}) \cup Bases)
member_needs_keys_list ==
  Walk({"actions", "where", "from", "default", "transform"}, AllActions \cup member_needs_keys_expr)

-----------------------------------------------------------------------------
\* A route that reads msg::value is payable.
payable_expr == Exprs \ (TestOnly \cup Closures)
payable_action == AllActions
route_uses_msg_value == Walk({"actions", "where", "transform"}, payable_action \cup payable_expr)

(***************************************************************************)
(* What is checked of an invariant: does it speak of the trace, of which   *)
(* instances, and what is left of it inside the contract of the one        *)
(* instance that it is about.  The last knows no binder.                   *)
(***************************************************************************)
expr_uses_trace == Walk({"check"}, Exprs)
collect_instance_refs == Walk({"check"}, Exprs)
strip_instance_qualifier == Walk({"check"}, Exprs)
collect_trace_in_expr == Walk({"check"}, Exprs \ TestOnly)
collect_expr_idents == Walk({"check"}, Exprs)

-----------------------------------------------------------------------------
\* A name is replaced by what it was bound to, in an expression; neither knows
\* that the arm of a match binds it again.
subst_expr_where == Exprs
subst_expr_where_binders == {<<"Let", "body">>, <<"Closure", "body">>, <<"Chain", "body">>, <<"For", "body">>}
subst_ident_in_expr == Knowing(Walk({"transform", "actions", "pure", "libPure"}, subst_expr_where), subst_expr_where_binders)
subst_hashmap_let_in_expr ==
  Knowing(Walk({"transform", "actions", "pure", "libPure"}, Exprs), {<<"Let", "body">>, <<"For", "body">>})

(***************************************************************************)
(* Each type option<T> that occurs gets a struct; some(e) is one such      *)
(* place.  (A let of a tuple directly in a block loses its value as well.) *)
(***************************************************************************)
walk_expr_bindings == Exprs \ TestOnly
walk_action == AllActions
collect_option_inners == Walk({"pure", "default", "transform", "actions"}, walk_action \cup walk_expr_bindings)

(***************************************************************************)
(* The Lean model: does a definition need the world as a parameter; which  *)
(* other entities does one name.                                           *)
(***************************************************************************)
expr_needs_world == Walk({"transform"}, Exprs)
collect_entity_refs ==
  Walk({"transform"},
       Exprs \ ({<<"Index", "key">>} \cup Of({"Cast", "For", "RecordUpdate", "ArrayLit", "MacroRef", "Encode"})
                \cup Ranges \cup Closures))
=============================================================================
