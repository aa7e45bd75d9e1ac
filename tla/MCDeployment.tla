---------------------------- MODULE MCDeployment ----------------------------
(***************************************************************************)
(* Deployment with two addresses.  An init route has up to two actions of  *)
(* each kind; MaxDepth 7 reaches, from a transaction, through a factory and*)
(* an initialize() to foreign code, to a route of a first instance and on  *)
(* to the deployment of a second one.                                      *)
(***************************************************************************)
EXTENDS Deployment

CONSTANTS s1, s2, owner, stranger
MCSlots == {s1, s2}

InitRoute2(params, phased, body) == [params |-> params, phased |-> phased, body |-> body]

Bodies == { << >>, <<"call">>, <<"send">>, << s2 >>, <<"send", "call">>, <<"call", s2>> }

\* Phases in an init route with parameters, or none: both builds run them.
Ordinary == { InitRoute2(params, FALSE, b) : params \in BOOLEAN, b \in Bodies }
            \cup { InitRoute2(TRUE, TRUE, <<"send">>) }
All == { InitRoute2(params, phased, b) : params, phased \in BOOLEAN, b \in Bodies }

MCInitPrograms == [m \in BOOLEAN |-> IF m THEN Ordinary ELSE All]
MCMaxDepth == [m \in BOOLEAN |-> IF m THEN 7 ELSE 5]
=============================================================================
