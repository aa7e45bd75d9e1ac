----------------------------- MODULE RuleWalks -----------------------------
(***************************************************************************)
(* How far the rules of the validator look (validate/): each rule is a     *)
(* walk over the syntax, written out by hand for that rule.  A walk has    *)
(* the roots it starts from, the slots it enters, what it reports on its   *)
(* way, and the binders at which it learns that a name now means something *)
(* else.  The definitions carry the names of the functions.                *)
(***************************************************************************)
EXTENDS Syntax

Walk(roots, enters) == [roots |-> roots, enters |-> enters, reports |-> {}, binds |-> {}]
Reporting(w, constructs) == [w EXCEPT !.reports = constructs]
Knowing(w, binders) == [w EXCEPT !.binds = binders]

Actions == Operands \cup Nested
TestOnly == Of({"Encode", "AddressOf"})
Closures == Of({"Closure", "Chain"})
Branches == Of({"Conditional", "ForAction"}) \cap Nested

\* Mutant: a loop of actions is not looked into.
LoopsSkipped == Actions \ Of({"ForAction"})

-----------------------------------------------------------------------------
(***************************************************************************)
(* V62: msg::sender in the init route is the factory, not the deployer.    *)
(***************************************************************************)
route_action_references_msg_sender == Actions
walk_expr_subtree == Exprs
check_init_route_msg_sender_under_factory ==
  Walk({"actions", "transform"}, route_action_references_msg_sender \cup walk_expr_subtree)

(***************************************************************************)
(* V43: ^m is the new value of m, which only transforms have.              *)
(***************************************************************************)
reject_temporal_in_expr == Exprs
reject_temporal_in_action == Actions
check_temporal_ref_placement ==
  Walk(Route \cup {"default"}, reject_temporal_in_action \cup reject_temporal_in_expr)

(***************************************************************************)
(* V11: a pure route reads and changes no state.  The actions that do are  *)
(* reported as such, and what they hold is not looked at.                  *)
(***************************************************************************)
impure_actions == {"Send", "VarCall", "Deploy", "Effect", "Rescue", "CallRoute", "UpdateCode", "Emit"}
check_pure_route_action == Actions \ Of(impure_actions \ {"Send", "Rescue"})
impure_route_terms == {"MacroRef"}
pure_route_operands == Exprs \ (TestOnly \cup Of({"EnumVariantWithData", "NamespacedCall", "Std", "Some"}))
pure_route_data == Of({"EnumVariantWithData", "NamespacedCall", "Std", "Some"})
pure_route_scopes == Binders \cap Exprs
check_pure_route ==
  Knowing(Reporting(Walk({"actions"}, check_pure_route_action \cup pure_route_operands \cup pure_route_data),
                    impure_actions \cup impure_route_terms),
          pure_route_scopes)

\* V4: a function of the program or of a library neither; a macro may.
impure_terms == {"MacroRef"}
purity_operands == Exprs \ (TestOnly \cup Of({"EnumVariantWithData", "NamespacedCall", "Std", "Range", "LoopRange", "For"}))
purity_calls == Of({"EnumVariantWithData", "NamespacedCall", "Std", "Range", "LoopRange", "For"})
purity_scopes == Binders \cap Exprs
check_pure_fn_purity ==
  Knowing(Reporting(Walk({"pure", "libPure"}, purity_operands \cup purity_calls), impure_terms), purity_scopes)

\* V49: min(..) for std::math::min(..) in such a function; the substitution of
\* types.rs that it walks with enters every slot (substitute replaces nothing).
check_bare_stdlib_calls_pure_fns == Walk({"pure", "libPure"}, Exprs)

\* V7: constants are literals.
check_constant_values == Reporting(Walk({"constant"}, {}), { s[1] : s \in Exprs })

(***************************************************************************)
(* V42: a route that returns a value declares its type; V9 and E29: what a *)
(* view route, or what it calls, may not do.                               *)
(***************************************************************************)
action_returns_value == Walk({"actions"}, Branches)
route_has_state_changing_action == Walk({"actions"}, Nested)
check_view_effects_solidity == Walk({"actions"}, Nested)

(***************************************************************************)
(* V51: a let nobody reads, in an expression of a function; the tags of a  *)
(* rescue; V20: an address compared with "".                               *)
(***************************************************************************)
check_unused_lets_expr == Exprs
check_unused_lets_pure_fn == Walk({"pure"}, check_unused_lets_expr)

check_rescue_bounce_false_in_action == Walk({"actions"}, Branches)
collect_rescue_tags_in_action == Walk({"actions"}, Branches)

check_empty_string_addr_expr ==
  Of({"BinOp", "UnaryOp", "FnCall", "MacroRef", "MethodCall", "Cast", "If", "RecordConstruct", "RecordUpdate"})
check_empty_string_addr_action == Of({"Conditional"})
check_empty_string_as_address ==
  Walk({"where", "actions", "transform"}, check_empty_string_addr_expr \cup check_empty_string_addr_action)

(***************************************************************************)
(* V47 and V66: arms never reached, values without an arm; V48: an if      *)
(* without else whose value is used.                                       *)
(***************************************************************************)
walk_action_exprs == Actions
walk_subexprs == Exprs
check_match_arm_priority_entity == Walk({"actions", "transform", "pure"}, walk_action_exprs \cup walk_subexprs)
check_match_exhaustive_entity == Walk({"actions", "transform", "pure"}, walk_action_exprs \cup walk_subexprs)

check_if_requires_else_action == Actions
check_if_requires_else_expr == Exprs
check_if_requires_else_entity ==
  Walk({"actions", "transform", "pure"}, check_if_requires_else_action \cup check_if_requires_else_expr)

(***************************************************************************)
(* V53: `let some(p)` binds a name, not a pattern.                         *)
(***************************************************************************)
check_actions_let_some ==
  Actions \ ({ <<a, p>> : a \in {"Send", "VarCall"}, p \in {"dest", "options"} }
             \cup {<<"Deploy", "options">>} \cup Of({"Effect", "UpdateCode"}))
walk_expr_lets_some ==
  Exprs \ ({<<"MethodCall", "receiver">>, <<"For", "iter">>}
           \cup Of({"MacroRef", "NamespacedCall", "Std", "EnumVariantWithData", "LoopRange"}) \cup TestOnly)
check_let_some_nested_patterns ==
  Walk({"pure", "actions", "transform", "default"}, check_actions_let_some \cup walk_expr_lets_some)

(***************************************************************************)
(* V8: a name that nothing declares, a bare call of the standard library   *)
(* among them.  Where a var is sent to, and with what, is not looked at.   *)
(***************************************************************************)
check_entity_expr_refs == Exprs \ TestOnly
check_single_route_action_expr_refs == Actions \ {<<"VarCall", "dest">>, <<"VarCall", "options">>}

\* Mutant: the arms of a match bind no names.
ArmsBindNothing ==
  Knowing(Walk({"where", "actions", "transform", "macro"},
               check_single_route_action_expr_refs \cup check_entity_expr_refs),
          Binders \ Of({"Match"}))
check_undefined_refs ==
  Knowing(Walk({"where", "actions", "transform", "macro"},
               check_single_route_action_expr_refs \cup check_entity_expr_refs),
          Binders)

(***************************************************************************)
(* V65: no arithmetic on an option.  A name once bound to an option stays  *)
(* one: what binds it again is not looked at.                              *)
(***************************************************************************)
bind_option_ident == {}
walk_expr_option_arith == Exprs \ Of({"AddressOf"})
walk_actions_option_arith == Actions
option_roots == {"pure", "where", "whereErr", "phaseWhere", "actions", "transform", "default"}
check_option_arithmetic ==
  Knowing(Walk(option_roots, walk_actions_option_arith \cup walk_expr_option_arith), bind_option_ident)

(***************************************************************************)
(* V68: the fields of a record literal; V69: signed with unsigned, from    *)
(* the declared types of parameters and members, whatever binds the name.  *)
(***************************************************************************)
for_each_entity_expr == {"where", "phaseWhere", "actions", "transform", "default", "constant", "macro"}
visit_expr_deep == walk_action_exprs \cup walk_subexprs
check_record_literals_entity == Walk(for_each_entity_expr \cup {"pure"}, visit_expr_deep)
SignEnv == {}
check_mixed_sign_entity == Knowing(Walk(for_each_entity_expr \cup {"pure"}, visit_expr_deep), SignEnv)

-----------------------------------------------------------------------------
(***************************************************************************)
(* V22: a namespace that no `use` brings into scope.  E12: evm:: on        *)
(* another target.                                                         *)
(***************************************************************************)
check_ns_expr == Exprs \ TestOnly
check_ns_action == Actions
check_namespace_usage == Walk({"where", "actions", "transform", "macro"}, check_ns_action \cup check_ns_expr)

check_no_evm_field == Exprs \ ({<<"RecordUpdate", "base">>} \cup TestOnly)
check_no_evm_field_in_action == Actions
check_non_evm_target_compat ==
  Walk({"where", "actions", "transform", "macro", "pure"}, check_no_evm_field_in_action \cup check_no_evm_field)

(***************************************************************************)
(* The E rules: what has no EVM lowering.  An unknown namespace, a closure *)
(* and a range of their own and encode<T>() are reported where they stand  *)
(* (so is address_of, but not in the deterministic builds modelled here);  *)
(* the operands of a call that is lowered are not looked at, nor is a loop *)
(* of actions.                                                             *)
(***************************************************************************)
evm_roots == {"where", "actions", "transform", "macro", "pure"}
check_evm_compat_actions ==
  Of({"LetAction", "Return", "Conditional", "Send", "Deploy", "Rescue", "Effect"}) \cap Actions
evm_closures == {"Closure", "Range"}
evm_fused_chains == {<<"Chain", "body">>}
evm_namespaces == {"NamespacedCall"}
evm_test_only == {"Encode"}
check_evm_compat_expr == (Exprs \ (Of({"Std", "Chain"}) \cup TestOnly)) \cup evm_fused_chains
check_evm_target_compat_with ==
  Reporting(Walk(evm_roots, (check_evm_compat_actions \ Of({"Effect"})) \cup check_evm_compat_expr \cup TestOnly),
            evm_closures \cup evm_namespaces \cup evm_test_only \cup {"Rescue"})

\* E18 to E21: the types of casts, of encode<T> and of type parameters.
check_evm_compat_expr_types == Exprs
check_evm_compat_action_types == Actions
check_evm_compat_program_types ==
  Walk({"pure", "default", "transform", "actions", "where", "macro"},
       check_evm_compat_action_types \cup check_evm_compat_expr_types)

\* E22: a call of an entity that is not declared.
check_evm_extern_action == Walk({"actions"}, Nested)

\* V34 to V36: the event of an emit; V38 and V39: the error that a guard or a
\* throw names.
check_emit_action_recursive == Walk({"actions"}, Nested)
check_throw_custom_recursive == Nested
check_errors == Walk(Thrown \cup {"actions"}, check_throw_custom_recursive)

(***************************************************************************)
(* The Lean rules.  L13 and L16: a call or a field without a lowering; L8, *)
(* L9, L11: sends; L10: an invariant over routes that send; L2: closures.  *)
(***************************************************************************)
check_lean_std_compat_expr == Exprs \ ({<<"RecordUpdate", "base">>} \cup TestOnly)
check_lean_std_compat_action == Actions
lean_std_roots == {"actions", "where", "transform", "default", "constant", "macro", "pure", "libPure"}
check_lean_std == Walk(lean_std_roots, check_lean_std_compat_action \cup check_lean_std_compat_expr)

check_lean_send_action == Walk({"actions"}, Nested)
action_contains_send == Walk({"actions"}, Nested)

lean_loop_roots == {"actions", "where", "transform", "constant", "pure"}
check_lean_no_loops_in_action == Actions \ Of({"ForAction"})
check_lean_no_loops_in_expr_inner == Exprs \ (Of({"For", "LoopRange"}) \cup {<<"RecordUpdate", "base">>})
check_lean_no_loops ==
  Reporting(Walk(lean_loop_roots, check_lean_no_loops_in_action \cup check_lean_no_loops_in_expr_inner), {"Closure"})

(***************************************************************************)
(* The warnings W2, a function nobody calls, and W3, a constant nobody     *)
(* reads: what they miss they call unused.                                 *)
(***************************************************************************)
collect_fn_calls_entity == {"where", "from", "actions", "transform", "macro"}
collect_fn_calls_action == Actions
collect_fn_calls_expr == Exprs \ TestOnly
lint_unused_pure_fns ==
  Walk(collect_fn_calls_entity \cup {"pure"}, collect_fn_calls_action \cup collect_fn_calls_expr)

collect_idents_entity == {"where", "actions", "transform", "macro"}
collect_idents_action == Actions
collect_idents_expr == Exprs \ TestOnly
lint_unused_constants == Walk(collect_idents_entity, collect_idents_action \cup collect_idents_expr)

\* I11, I12: what a check of an invariant names of an instance, and trace::.
walk_expr_for_qualified == Walk({"check"}, Exprs)
=============================================================================
