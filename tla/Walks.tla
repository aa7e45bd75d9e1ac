------------------------------- MODULE Walks -------------------------------
(***************************************************************************)
(* What the transpiler looks for in a program, with the walks that should  *)
(* see it and the rules that would reject the program on the way, and      *)
(* where it is known not to look.  Ways goes down to the things.           *)
(***************************************************************************)
EXTENDS UseWalks, Sequences, TLC
Thing(is, roots, rules, seers) == [is |-> is, roots |-> roots, rules |-> rules, seers |-> seers]
Expr(roots, rules, seers) == Thing("expr", roots, rules, seers)
Action(seer) == Thing("action", {"actions"}, << >>, <<seer>>)
Message(seer) == Thing("message", {"actions"}, << >>, <<seer>>)

InEntity == Entity \ {"with"}
InFunctions == {"pure", "libPure"}
Lowered == InEntity \cup InFunctions
OnEvm == <<check_evm_target_compat_with, check_pure_fn_purity>>
InLean == <<check_lean_no_loops, check_pure_fn_purity>>

-----------------------------------------------------------------------------
\* What the output needs a helper, a struct, a second mapping, a list, a
\* parameter or an import for.
Needs ==
  "std::f(x)" :> Expr(Lowered, OnEvm, <<std_ns_call_used_in_program>>)
  @@ "f(x) of std" :> Expr(InEntity, OnEvm, <<stdlib_fn_used_in_program, check_undefined_refs>>)
  @@ "f(x) of std in function" :> Expr(InFunctions, OnEvm, <<check_bare_stdlib_calls_pure_fns>>)
  @@ "padding" :> Expr(Lowered, OnEvm, <<std_format_pad6_used_in_program>>)
  @@ "method" :> Expr(Lowered, OnEvm, <<method_used_in_program>>)
  @@ "parse" :> Expr(Lowered, OnEvm, <<std_str_parse_used_in_program>>)
  @@ "+% in entity" :> Expr(InEntity, OnEvm, <<entity_uses_wrapping_ops>>)
  @@ "+% in function" :> Expr(InFunctions, OnEvm, <<pure_code_uses_wrapping_ops>>)
  @@ "some(e)" :> Expr(Lowered, OnEvm, <<collect_option_inners>>)
  @@ "m.exists(k)" :> Expr(InEntity, OnEvm, <<member_uses_exists>>)
  @@ "m.keys()" :> Expr(InEntity, OnEvm, <<member_is_iterated>>)
  @@ "p.exists(k)" :> Expr(InFunctions, OnEvm, <<param_uses_exists>>)
  @@ "p.keys()" :> Expr(InFunctions, OnEvm, <<param_uses_iteration>>)
  @@ "msg::value" :> Expr(InEntity \ {"default", "macro"}, OnEvm, <<route_uses_msg_value>>)
  @@ "keys in Lean" :> Expr(InEntity, InLean, <<member_needs_keys_list>>)
  @@ "world in Lean" :> Expr({"transform"}, InLean, <<expr_needs_world>>)
  @@ "entity in Lean" :> Expr({"transform"}, InLean, <<collect_entity_refs>>)

\* What is rewritten, or collected in order to be.
Rewritten ==
  "literal" :> Expr(Roots, <<check_pure_fn_purity, check_constant_values>>, <<map_program_exprs>>)
  @@ "x.f() of using" :> Expr(Entity, << >>, <<rewrite_entity>>)
  @@ "inst.m" :> Expr({"check"}, << >>, <<strip_instance_qualifier>>)
  @@ "inst" :> Expr({"check"}, << >>, <<collect_instance_refs>>)
  @@ "trace::" :> Expr({"check"}, << >>, <<expr_uses_trace>>)
  @@ "trace:: in Lean" :> Expr({"check"}, << >>, <<collect_trace_in_expr>>)
  @@ "fuzzed name" :> Expr({"check"}, << >>, <<collect_expr_idents>>)
  @@ "let" :> Expr({"transform"} \cup InFunctions, OnEvm, <<subst_ident_in_expr>>)
  @@ "let of a map" :> Expr({"transform"} \cup InFunctions, OnEvm, <<subst_hashmap_let_in_expr>>)

\* What a rule forbids, or warns of when it finds none.
Judged ==
  "V4" :> Expr(InFunctions, OnEvm, <<check_pure_fn_purity>>)
  @@ "V8" :> Expr(InEntity, OnEvm, <<check_undefined_refs>>)
  @@ "V11" :> Expr(Route \ Thrown, Append(OnEvm, check_pure_route), <<check_pure_route>>)
  @@ "V20" :> Expr(Lowered, OnEvm, <<check_empty_string_as_address>>)
  @@ "V22" :> Expr(InEntity, OnEvm, <<check_namespace_usage>>)
  @@ "V43" :> Expr(Route \cup {"default"}, << >>, <<check_temporal_ref_placement>>)
  @@ "V47" :> Expr(Lowered, OnEvm, <<check_match_arm_priority_entity>>)
  @@ "V48" :> Expr(Lowered, OnEvm, <<check_if_requires_else_entity>>)
  @@ "V51" :> Expr({"pure"}, OnEvm, <<check_unused_lets_pure_fn>>)
  @@ "V53" :> Expr(Lowered, OnEvm, <<check_let_some_nested_patterns>>)
  @@ "V62" :> Expr(InEntity, OnEvm, <<check_init_route_msg_sender_under_factory>>)
  @@ "V65" :> Expr(Lowered, OnEvm, <<check_option_arithmetic>>)
  @@ "V66" :> Expr(Lowered, OnEvm, <<check_match_exhaustive_entity>>)
  @@ "V68" :> Expr(Lowered, OnEvm, <<check_record_literals_entity>>)
  @@ "V69" :> Expr(Lowered, OnEvm, <<check_mixed_sign_entity>>)
  @@ "E12" :> Expr(Lowered, InLean, <<check_non_evm_target_compat>>)
  @@ "E16" :> Expr(Lowered, <<check_pure_fn_purity>>, <<check_evm_target_compat_with>>)
  @@ "E18" :> Expr(Lowered, OnEvm, <<check_evm_compat_program_types>>)
  @@ "L2" :> Expr(Lowered, << >>, <<check_lean_no_loops>>)
  @@ "L13" :> Expr(Lowered, InLean, <<check_lean_std>>)
  @@ "W2" :> Expr(Lowered, OnEvm, <<lint_unused_pure_fns>>)
  @@ "W3" :> Expr(InEntity, OnEvm, <<lint_unused_constants>>)
  @@ "I11" :> Expr({"check"}, << >>, <<walk_expr_for_qualified>>)
  @@ "V9" :> Message(route_has_state_changing_action)
  @@ "V34" :> Action(check_emit_action_recursive)
  @@ "V38" :> Action(check_errors)
  @@ "V42" :> Action(action_returns_value)
  @@ "rescue" :> Action(check_rescue_bounce_false_in_action)
  @@ "rescue tag" :> Action(collect_rescue_tags_in_action)
  @@ "E22" :> Message(check_evm_extern_action)
  @@ "E29" :> Message(check_view_effects_solidity)
  @@ "L8" :> Message(check_lean_send_action)
  @@ "L10" :> Message(action_contains_send)

Things == Needs @@ Rewritten @@ Judged

\* The things that are names.
Named == {"inst.m", "let", "let of a map", "V4", "V8", "V11", "V65", "V69"}

-----------------------------------------------------------------------------
(***************************************************************************)
(* Where the code does not look, by cause.  What an error is thrown with,  *)
(* whom `from` lets in and what guards a phase is Beyond almost every      *)
(* walk; the others are roots or slots that one walk has and another not.  *)
(***************************************************************************)
At(roots) == {"root"} \X roots
Beyond == At(Thrown \cup {"from", "phaseWhere"})
Loops == Of({"ForAction"}) \cap Actions
LoopExprs == Of({"For", "LoopRange"})
Literals == Of({"ArrayLit"})
ToOthers == { <<a, p>> : a \in {"Send", "VarCall"}, p \in {"dest", "options"} } \cup {<<"Deploy", "options">>}
ToVars == Of({"VarCall"}) \cap ToOthers
Logged == Of({"Emit", "ThrowCustom", "UpdateCode"})
Functions == At({"pure", "libPure"})
Helpers == Beyond \cup At({"macro", "libPure"}) \cup Bases
Matched == Beyond \cup At({"where", "default", "macro", "libPure"})

Overlooked ==
  "std::f(x)" :> (Helpers \cup TestOnly)
  @@ "padding" :> (Helpers \cup TestOnly)
  @@ "f(x) of std" :> (Beyond \cup At({"default", "macro"}) \cup Bases \cup TestOnly \cup ToVars
                       \cup Closures \cup Of({"Block", "MacroRef"}))
  @@ "method" :> (Helpers \cup At({"default"}) \cup TestOnly \cup LoopExprs \cup Literals)
  @@ "parse" :> (Helpers \cup Ranges \cup Of({"EnumVariantWithData"}))
  @@ "+% in entity" :> (Beyond \cup At({"default", "macro"}) \cup TestOnly \cup Loops \cup Logged
                        \cup (ToOthers \ {<<"VarCall", "dest">>}))
  @@ "+% in function" :> TestOnly
  @@ "some(e)" :> (Beyond \cup At({"where", "macro", "libPure"}) \cup TestOnly)
  @@ "m.exists(k)" :> (Beyond \cup Literals)
  @@ "m.keys()" :> (Beyond \cup Literals)
  @@ "p.exists(k)" :> (Closures \cup TestOnly \cup Literals \cup Of({"For", "RecordConstruct", "RecordUpdate"})
                       \cup Of({"EnumVariantWithData", "NamespacedCall", "Std"}))
  @@ "p.keys()" :> Literals
  @@ "msg::value" :> (Beyond \cup Closures \cup TestOnly)
  @@ "keys in Lean" :> (At(Thrown \cup {"phaseWhere", "macro"}) \cup Literals \cup Bases)
  @@ "entity in Lean" :> (Literals \cup LoopExprs \cup Closures \cup Ranges \cup {<<"Index", "key">>}
                          \cup Of({"Cast", "MacroRef", "RecordUpdate", "Encode"}))
  @@ "literal" :> At(Thrown)
  @@ "x.f() of using" :> At(Thrown \cup {"with"})
  @@ "trace:: in Lean" :> TestOnly
  @@ "V4" :> TestOnly
  @@ "V8" :> (Beyond \cup At({"default"}) \cup TestOnly \cup ToVars)
  @@ "V11" :> (At(Guards \cup {"with"}) \cup TestOnly)
  @@ "V20" :> (Beyond \cup At({"default", "macro"}) \cup Functions
               \cup ((Actions \cup Exprs) \ (check_empty_string_addr_action \cup check_empty_string_addr_expr)))
  @@ "V22" :> (Beyond \cup At({"default"}) \cup TestOnly)
  @@ "V47" :> Matched @@ "V48" :> Matched @@ "V66" :> Matched
  @@ "V53" :> ((Matched \ At({"default"})) \cup TestOnly \cup ToOthers \cup Of({"Effect", "UpdateCode"})
               \cup {<<"MethodCall", "receiver">>, <<"For", "iter">>}
               \cup Of({"MacroRef", "NamespacedCall", "Std", "EnumVariantWithData", "LoopRange"}))
  @@ "V62" :> (Beyond \cup At({"where", "default", "macro"}))
  @@ "V65" :> (At({"from", "fromErr", "phaseErr", "macro", "libPure"}) \cup Of({"AddressOf"}))
  @@ "V68" :> At(Thrown \cup {"from", "libPure"}) @@ "V69" :> At(Thrown \cup {"from", "libPure"})
  @@ "E12" :> (Beyond \cup At({"default", "libPure"}) \cup TestOnly \cup Bases)
  @@ "E16" :> (Beyond \cup At({"default", "libPure"}) \cup Loops \cup Logged \cup Of({"Effect", "CallRoute"})
               \cup Of({"VarCall", "Std"}))
  @@ "E18" :> (Beyond \cup At({"libPure"}))
  @@ "L2" :> (Beyond \cup At({"default", "macro", "libPure"}) \cup Loops \cup LoopExprs \cup Bases)
  @@ "L13" :> (Beyond \cup TestOnly \cup Bases)
  @@ "W2" :> (At(Thrown \cup {"phaseWhere", "default", "libPure"}) \cup TestOnly)
  @@ "W3" :> (Beyond \cup At({"default"}) \cup TestOnly)

\* What the code takes for the name although something in between binds it.
Mistaken ==
  "inst.m" :> (Binders \cap Exprs)
  @@ "let" :> Of({"Match"})
  @@ "let of a map" :> (Of({"Match"}) \cup Closures)
  @@ "V11" :> (Binders \ Exprs)
  @@ "V65" :> Binders
  @@ "V69" :> Binders
=============================================================================
