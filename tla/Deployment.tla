----------------------------- MODULE Deployment -----------------------------
(***************************************************************************)
(* How an instance of an entity comes to be on EVM.                        *)
(*                                                                         *)
(* With deterministic addresses a program has one CambrianFactory: deployX *)
(* creates the instance at its CREATE2 address, calls initialize() when    *)
(* the init route takes parameters, and registers the instance.  Without,  *)
(* `deploy` is `new` and the constructor runs the init route.              *)
(*                                                                         *)
(* An entity has a member t that its init route transforms and a member d  *)
(* it does not; d has a declared default and is written by other routes.   *)
(***************************************************************************)
EXTENDS Naturals, Sequences, FiniteSets

CONSTANTS
  Slots,          \* the addresses instances can have
  Owner,          \* the account that constructed the factory
  Stranger,       \* every other account and contract
  Modes,          \* the values of deterministic_addresses considered
  InitPrograms,   \* the init routes considered in each mode
  MaxDepth        \* bound on the depth of calls in each mode

\* An action of an init route: `call` of a route, a message, or the deployment
\* of an instance, for which its address stands.
Steps == {"call", "send"} \cup Slots

ASSUME DeploymentAssumption ==
  /\ Owner # Stranger /\ Slots \cap {Owner, Stranger, "call", "send"} = {}
  /\ Modes \subseteq BOOLEAN
  /\ \A m \in Modes : \A p \in InitPrograms[m] :
       p.params \in BOOLEAN /\ p.phased \in BOOLEAN /\ p.body \in Seq(Steps)
  /\ MaxDepth \in [Modes -> Nat]

VARIABLES
  deterministic, \* whether the project has a factory; never changes
  program,   \* the init route of the entity at each slot; never changes
  world,     \* the chain
  stack      \* the calls in progress, innermost last

project == <<deterministic, program>>
vars == <<project, world, stack>>

\* What a member holds: nothing yet, its declared default, the value of its
\* init transform, or the value another route wrote.
Held == {"zero", "default", "init", "route"}

Worlds == [created     : SUBSET Slots,   \* an account exists at the address
           code        : SUBSET Slots,   \* and its constructor has returned
           registered  : SUBSET Slots,   \* isDeployed of the factory
           initialized : SUBSET Slots,   \* _initialized of the instance
           t           : [Slots -> Held],
           d           : [Slots -> Held],
           parent      : [Slots -> Slots \cup {Owner, Stranger}],  \* who asked
           ran         : [Slots -> Nat]] \* times its init route has run

Genesis == [created |-> {}, code |-> {}, registered |-> {}, initialized |-> {},
            t |-> [s \in Slots |-> "zero"], d |-> [s \in Slots |-> "zero"],
            parent |-> [s \in Slots |-> Stranger], ran |-> [s \in Slots |-> 0]]

Top == stack[Len(stack)]
Running(kind) == stack # << >> /\ Top.kind = kind

\* Only foreign code survives the failure of a call it has made, so only its
\* calls keep the chain to go back to.
Frame(kind, at) == [kind |-> kind, at |-> at, pc |-> 0,
                    entry |-> IF Running("foreign") THEN world ELSE Genesis]


\* The caller, past its call.  Foreign code has no program to follow.
Below == IF Running("foreign") THEN stack ELSE [stack EXCEPT ![Len(stack)].pc = @ + 1]
Caller == stack[Len(stack) - 1].at

Call(kind, at) == /\ Len(stack) < MaxDepth[deterministic]
                  /\ stack' = Append(Below, Frame(kind, at))
                  /\ UNCHANGED project

Advance == stack' = Below /\ UNCHANGED project
Return == stack' = SubSeq(stack, 1, Len(stack) - 1) /\ UNCHANGED project

-----------------------------------------------------------------------------
(***************************************************************************)
(* The deploy action: through the factory, or `new` at a fresh address.    *)
(***************************************************************************)
\* The init route runs in initialize() and not in the constructor.
NeedsInit(s) == deterministic /\ program[s].params

\* The deterministic constructor runs an init body only if it is unphased.
Dropped(s) == deterministic /\ program[s].phased /\ ~program[s].params

\* Mutant: any contract may deploy, not only those the factory registered.
MayDeployAny(who) == ~deterministic \/ who = Owner \/ who \in world.code

MayDeploy(who) == ~deterministic \/ who = Owner \/ who \in world.registered

\* Mutant: `new` gives the address its code before the constructor has run.
DeployOpen(s) ==
  /\ MayDeploy(Top.at)
  /\ IF deterministic
     THEN Call("factory", s) /\ UNCHANGED world
     ELSE /\ s \notin world.created
          /\ Call("constructor", s)
          /\ world' = [world EXCEPT !.created = @ \cup {s}, !.code = @ \cup {s},
                                    !.parent[s] = Top.at]

Deploy(s) ==
  /\ MayDeploy(Top.at)
  /\ IF deterministic
     THEN Call("factory", s) /\ UNCHANGED world
     ELSE /\ s \notin world.created
          /\ Call("constructor", s)
          /\ world' = [world EXCEPT !.created = @ \cup {s}, !.parent[s] = Top.at]

\* Mutant: CREATE2 with a salt that is new each time.
FactoryCreateAgain ==
  /\ Running("factory") /\ Top.pc = 0
  /\ Call("constructor", Top.at)
  /\ world' = [world EXCEPT !.created = @ \cup {Top.at}, !.parent[Top.at] = Caller]

\* new X{salt: 0}(address(this), identity...): fails where an account exists.
FactoryCreate ==
  /\ Running("factory") /\ Top.pc = 0
  /\ Top.at \notin world.created
  /\ Call("constructor", Top.at)
  /\ world' = [world EXCEPT !.created = @ \cup {Top.at}, !.parent[Top.at] = Caller]

FactoryInitialize ==
  /\ Running("factory") /\ Top.pc = 1
  /\ NeedsInit(Top.at)
  /\ Top.at \notin world.initialized
  /\ Call("initialize", Top.at)
  /\ world' = [world EXCEPT !.initialized = @ \cup {Top.at}]

\* Mutant: the instance is registered, and the factory done, before initialize.
FactoryRegisterEarly ==
  /\ Running("factory")
  /\ Top.pc = 1
  /\ world' = [world EXCEPT !.registered = @ \cup {Top.at}]
  /\ Return

FactoryRegister ==
  /\ Running("factory")
  /\ Top.pc = IF NeedsInit(Top.at) THEN 2 ELSE 1
  /\ world' = [world EXCEPT !.registered = @ \cup {Top.at}]
  /\ Return

-----------------------------------------------------------------------------
(***************************************************************************)
(* The init route, in the constructor or in initialize(): the updates, the *)
(* actions, and then the defaults of the members no transform has set.     *)
(***************************************************************************)
Stub == Top.kind = "constructor" /\ NeedsInit(Top.at)
InInit == (Running("constructor") \/ Running("initialize")) /\ ~Stub
Body == IF Dropped(Top.at) THEN << >> ELSE program[Top.at].body

InitUpdates ==
  /\ InInit /\ Top.pc = 0
  /\ Advance
  /\ world' = IF Dropped(Top.at) THEN world ELSE [world EXCEPT !.t[Top.at] = "init"]

InitAction ==
  /\ InInit /\ Top.pc \in 1..Len(Body)
  /\ LET step == Body[Top.pc]
     IN  \/ /\ step = "call"    \* a route of this entity, which writes d
            /\ Advance
            /\ world' = [world EXCEPT !.d[Top.at] = "route"]
         \/ step = "send" /\ Call("foreign", Stranger) /\ UNCHANGED world
         \/ step \in Slots /\ Deploy(step)

InitDefaults ==
  /\ InInit /\ Top.pc = Len(Body) + 1
  /\ Advance
  /\ world' = [world EXCEPT !.d[Top.at] = "default", !.ran[Top.at] = @ + 1]

InitReturns ==
  /\ \/ InInit /\ Top.pc = Len(Body) + 2
     \/ Running("constructor") /\ Stub
  /\ Return
  /\ world' = IF Top.kind = "constructor" THEN [world EXCEPT !.code = @ \cup {Top.at}]
                                          ELSE world

-----------------------------------------------------------------------------
(***************************************************************************)
(* Transactions, foreign code and the routes of instances.  Every emitted  *)
(* call fails with its callee; foreign code may go on after a failed call. *)
(***************************************************************************)
Transact(who) ==
  /\ stack = << >>
  /\ stack' = << Frame("foreign", who) >>
  /\ UNCHANGED <<project, world>>

ForeignDeploy == Running("foreign") /\ \E s \in Slots : Deploy(s)

ForeignCall ==
  /\ Running("foreign")
  /\ \E s \in world.code : Call("route", s)
  /\ UNCHANGED world

ForeignReturns == Running("foreign") /\ Return /\ UNCHANGED world

RouteWrite ==
  /\ Running("route") /\ Top.pc = 0
  /\ Advance
  /\ world' = [world EXCEPT !.d[Top.at] = "route"]

RouteSend == Running("route") /\ Top.pc = 0 /\ Call("foreign", Stranger) /\ UNCHANGED world

RouteDeploy == Running("route") /\ Top.pc = 0 /\ \E s \in Slots : Deploy(s)

RouteReturns == Running("route") /\ Top.pc = 1 /\ Return /\ UNCHANGED world

\* The innermost foreign caller below the top.
Catcher == CHOOSE k \in 1..(Len(stack) - 1) :
             /\ stack[k].kind = "foreign"
             /\ \A j \in (k + 1)..(Len(stack) - 1) : stack[j].kind # "foreign"

\* Mutant: a failed call keeps what it has done.
RevertNothing ==
  /\ Len(stack) > 1
  /\ stack' = SubSeq(stack, 1, Catcher)
  /\ UNCHANGED <<project, world>>

\* A where clause, a require, an exhausted gas limit: at any point.
Revert ==
  /\ Len(stack) > 1
  /\ stack' = SubSeq(stack, 1, Catcher)
  /\ world' = stack[Catcher + 1].entry
  /\ UNCHANGED project

-----------------------------------------------------------------------------
Init ==
  /\ deterministic \in Modes
  /\ program \in [Slots -> InitPrograms[deterministic]]
  /\ world = Genesis
  /\ stack = << >>

Next ==
  \/ \E who \in {Owner, Stranger} : Transact(who)
  \/ FactoryCreate \/ FactoryInitialize \/ FactoryRegister
  \/ InitUpdates \/ InitAction \/ InitDefaults \/ InitReturns
  \/ ForeignDeploy \/ ForeignCall \/ ForeignReturns
  \/ RouteWrite \/ RouteSend \/ RouteDeploy \/ RouteReturns
  \/ Revert

Spec == Init /\ [][Next]_vars

-----------------------------------------------------------------------------
Kinds == {"foreign", "factory", "constructor", "initialize", "route"}

\* Type correctness of the chain and of the calls in progress; an instance is
\* created, then has code, and is then registered.
TypeOK ==
  /\ program \in [Slots -> InitPrograms[deterministic]]
  /\ world \in Worlds
  /\ world.registered \subseteq world.code /\ world.code \subseteq world.created
  /\ stack \in Seq([kind : Kinds, at : Slots \cup {Owner, Stranger}, pc : Nat, entry : Worlds])

\* A registered instance is complete: it has code, its init route has run to
\* the end, and no member is left as the EVM made it (factory.rs: isDeployed is
\* set behind create and initialize).
RegisteredComplete ==
  \A s \in world.registered :
    /\ s \in world.code /\ world.ran[s] = 1
    /\ world.t[s] = "init" /\ world.d[s] \in {"default", "route"}

\* Between transactions there is no half-made instance: an address is free, or
\* holds an instance whose init route has run, known to the factory if there
\* is one.  A failure anywhere in a deployment frees the address again.
AllOrNothing ==
  stack = << >> =>
    /\ world.created = world.code
    /\ deterministic => world.code = world.registered
    /\ \A s \in Slots : s \in world.code <=> world.ran[s] = 1

\* The init route of an instance runs at most once, whoever calls back into
\* the factory while it runs.
InitRunsOnce == \A s \in Slots : world.ran[s] <= 1

\* deployX serves its owner and what it has itself deployed: every registered
\* instance was asked for by the owner or by an instance registered before it.
Bootstrapped ==
  \A s \in world.registered : world.parent[s] \in world.registered \cup {Owner}

\* A route of an instance runs only when the init route of that instance has
\* run to the end; behind a factory also while its initialize() is on the
\* stack (_initialized is set first, and routes do not ask for it).
RoutesNeedInit ==
  \A k \in 1..Len(stack) : stack[k].kind = "route" =>
    \/ world.ran[stack[k].at] >= 1
    \/ deterministic /\ \E j \in 1..(k - 1) :
         stack[j].kind = "initialize" /\ stack[j].at = stack[k].at

\* The init route of an instance runs at most once, whoever calls back into
\* the factory while it runs, and no other route of the instance runs before
\* it has run, or is running behind _initialized (gen_initialize_function).
InitOnceAndFirst == InitRunsOnce /\ RoutesNeedInit

\* What init wrote to a member stays: its default does not come on top of it.
DefaultsFirst ==
  [][\A s \in Slots : world.d[s] = "route" /\ Len(stack') = Len(stack)
                        => world'.d[s] # "default"]_vars

\* An init route that gets to its deploy action may perform it.
InitMayDeploy ==
  InInit /\ Top.pc \in 1..Len(Body) /\ Body[Top.pc] \in Slots => MayDeploy(Top.at)

\* Every phase of an init route applies its transforms (LANGUAGE.md, execution
\* model): once it has run, t has the value of its transform in either build.
InitTransforms ==
  \A s \in Slots : world.ran[s] >= 1 => world.t[s] = "init"
=============================================================================
