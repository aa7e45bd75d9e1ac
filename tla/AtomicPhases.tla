---------------------------- MODULE AtomicPhases ----------------------------
(***************************************************************************)
(* The promise of the route lowering: a contract's storage only ever moves *)
(* by whole phases ("a phase is atomic: its member transforms and its      *)
(* effects all observe the state as it stood when the phase began"), and a *)
(* call that reverts takes back everything since it was entered.           *)
(***************************************************************************)
EXTENDS PhaseProgram

CONSTANT Declared    \* the phases the entity's routes declare

VARIABLES
  state,    \* the members, as any other code can see them
  saved     \* per call in progress, the state it was entered in

avars == <<state, saved>>

AInit ==
  /\ state \in [Members -> Values]
  /\ saved = << >>

\* A route of the entity is entered, from outside or by a nested call.
AEnter ==
  /\ saved' = Append(saved, state)
  /\ UNCHANGED state

\* One whole phase.
APhase(p) ==
  /\ saved # << >>
  /\ \E skipped \in SUBSET { k \in DOMAIN p.txs : p.txs[k].kind = "branch" } :
       AtomicPost(p, state, state', skipped)
  /\ UNCHANGED saved

ALeave ==
  /\ saved # << >>
  /\ saved' = SubSeq(saved, 1, Len(saved) - 1)
  /\ UNCHANGED state

ARevert ==
  /\ saved # << >>
  /\ state' = saved[Len(saved)]
  /\ saved' = SubSeq(saved, 1, Len(saved) - 1)

ANext == AEnter \/ (\E p \in Declared : APhase(p)) \/ ALeave \/ ARevert

ASpec == AInit /\ [][ANext]_avars
=============================================================================
