-------------------------- MODULE MCTemporalOrder --------------------------
(***************************************************************************)
(* TemporalOrder on every route over three members: one phase with up to   *)
(* two ^ references a body, and two phases with up to one.                 *)
(***************************************************************************)
EXTENDS TemporalOrder

CONSTANTS act, fetch
MCNames == 1..3
MCUnknown == 0
MCPhaseNames == {act, fetch}

RefLists(n) == UNION { [1..k -> 0..3] : k \in 0..n }

RoutesOver(keys, bodies) == UNION { [S -> bodies] : S \in SUBSET keys }

OnePhase == RoutesOver({act} \X MCNames, RefLists(2))
TwoPhases == RoutesOver({act, fetch} \X (1..2), RefLists(1))
ThreeWide == { [key \in {<<act, 1>>, <<act, 2>>, <<fetch, 2>>, <<fetch, 3>>} |->
                  CASE key = <<act, 1>> -> f[1] [] key = <<act, 2>> -> f[2]
                    [] key = <<fetch, 2>> -> f[3] [] OTHER -> f[4]] :
               f \in [1..4 -> RefLists(1)] }
MCRoutes == OnePhase \cup TwoPhases \cup ThreeWide
=============================================================================
