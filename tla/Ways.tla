-------------------------------- MODULE Ways --------------------------------
(***************************************************************************)
(* Does anybody look where it matters?  A thing stands somewhere in a      *)
(* program: a call that needs a helper, a literal that has to be replaced, *)
(* something a rule forbids.  The way down to it, from a root through      *)
(* slots, is followed by the walks that should see it and by the rules     *)
(* (guards) that would reject the program on the way; a walk is lost where *)
(* it does not enter, and does not come back.                              *)
(*                                                                         *)
(* A thing that is a name may be bound again on the way; then it is not    *)
(* that thing any more, and no walk may take it for it.                    *)
(***************************************************************************)
EXTENDS Syntax

CONSTANTS Sought,       \* what is looked for, with its roots, rules and walks
          SoughtNames,  \* those that are names
          Unseen,       \* of a thing, where the code is known not to look
          Unnoticed     \* of a thing, what binds its name and is not noticed

Following == <<"way", "followed">>
Free == <<"name", "free">>

\* A rescue holds a message or a deploy.
Holds == [action |-> {"action", "message"}, rescued |-> {"message"}, expr |-> {"expr"}]

-----------------------------------------------------------------------------
VARIABLES thing, place, guards, lost, bound
vars == <<thing, place, guards, lost, bound>>

It == Sought[thing]

\* The way starts at a root, from which some walks do not set out.
Start(t, r) ==
  /\ thing = t
  /\ place = (IF r = "actions" THEN "action" ELSE "expr")
  /\ guards = { g \in DOMAIN Sought[t].rules : r \in Sought[t].rules[g].roots }
  /\ lost = [w \in DOMAIN Sought[t].seers |->
               IF r \in Sought[t].seers[w].roots THEN Following ELSE <<"root", r>>]
  /\ bound = Free

Init == \E t \in DOMAIN Sought : \E r \in Sought[t].roots : Start(t, r)

Reported(s) == \E g \in guards : s[1] \in It.rules[g].reports

\* A rule that is still on the way reports the construct ...
Reject(s) == Reported(s) /\ place' = "rejected" /\ UNCHANGED <<thing, guards, lost, bound>>

\* ... or the way goes on, for the walks that enter the slot.
Descend(s) ==
  /\ ~Reported(s)
  /\ place' = (IF s[1] = "Rescue" THEN "rescued" ELSE IF s \in Nested \/ s \in Behind THEN "action" ELSE "expr")
  /\ guards' = { g \in guards : s \in Behind \/ s \in It.rules[g].enters }
  /\ lost' = [w \in DOMAIN lost |->
                IF lost[w] = Following /\ s \notin Behind /\ s \notin It.seers[w].enters THEN s ELSE lost[w]]
  /\ \/ UNCHANGED bound
     \/ thing \in SoughtNames /\ bound = Free /\ s \in Binders /\ bound' = s
  /\ UNCHANGED thing

InAction == place = "action" /\ \E s \in Operands \cup Nested \cup Behind : Reject(s) \/ Descend(s)
InRescue == place = "rescued" /\ \E s \in Of({"Send", "Deploy"}) : Reject(s) \/ Descend(s)
InExpr == place = "expr" /\ \E s \in Exprs : Reject(s) \/ Descend(s)
Arrive == place \in DOMAIN Holds /\ It.is \in Holds[place] /\ place' = "here" /\ UNCHANGED <<thing, guards, lost, bound>>

Next == InAction \/ InRescue \/ InExpr \/ Arrive

Spec == Init /\ [][Next]_vars

-----------------------------------------------------------------------------
\* Every walk gets lost only where the code is known not to look, unless
\* another that sees the thing as well is still on the way: a helper that the
\* output calls is in the output, a literal is replaced, a rule is enforced.
Seen ==
  place = "here" /\ bound = Free =>
    \/ \E w \in DOMAIN lost : lost[w] = Following
    \/ thing \in DOMAIN Unseen /\ \A w \in DOMAIN lost : lost[w] \in Unseen[thing]

\* No walk takes a name that something on the way binds again for the one it
\* looks for.
NotMistaken ==
  place = "here" /\ bound # Free =>
    \A w \in DOMAIN lost :
      \/ lost[w] # Following \/ bound \in It.seers[w].binds
      \/ thing \in DOMAIN Unnoticed /\ bound \in Unnoticed[thing]
=============================================================================
