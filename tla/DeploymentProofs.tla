-------------------------- MODULE DeploymentProofs --------------------------
(***************************************************************************)
(* However deployments nest, fail and call back: an instance is registered *)
(* complete or not at all, was asked for by someone entitled to, and runs  *)
(* its init route once, before any other of its routes.                    *)
(*                                                                         *)
(* Good(w, s, n) says how a chain w belongs to the first n calls of s.  It *)
(* holds of the chain now and the whole stack, and of every chain a failed *)
(* call may be taken back to and the calls that are then still in progress.*)
(***************************************************************************)
EXTENDS Deployment, SequenceTheorems, TLAPS

Frames == [kind : Kinds, at : Slots \cup {Owner, Stranger}, pc : Nat, entry : Worlds]

BodyOf(x) == IF Dropped(x) THEN << >> ELSE program[x].body

\* The init route of x has run to the end, once.
Done(w, x) ==
  /\ w.ran[x] = 1
  /\ ~Dropped(x) => w.t[x] = "init"
  /\ w.d[x] \in {"default", "route"}

\* How far a constructor or an initialize() has got.
Progress(w, f) ==
  IF f.kind = "constructor" /\ NeedsInit(f.at)
  THEN f.pc = 0 /\ w.ran[f.at] = 0
  ELSE /\ f.pc <= Len(BodyOf(f.at)) + 2
       /\ f.pc >= 1 /\ ~Dropped(f.at) => w.t[f.at] = "init"
       /\ f.pc < Len(BodyOf(f.at)) + 2 => w.ran[f.at] = 0
       /\ f.pc = Len(BodyOf(f.at)) + 2 => Done(w, f.at)

\* deployX: for whom it runs, and what of the instance it has made; the call
\* it is in is the constructor or the initialize() of that instance.
FactoryOK(w, s, n, k) ==
  LET f == s[k] IN
  f.kind = "factory" =>
    /\ deterministic /\ f.at \in Slots
    /\ k > 1 /\ s[k - 1].at \in w.registered \cup {Owner}
    /\ f.pc <= 2 /\ (f.pc = 2 => NeedsInit(f.at))
    /\ f.pc >= 1 => f.at \in w.created /\ f.at \notin w.registered
    /\ k < n => /\ f.pc >= 1 /\ s[k + 1].at = f.at
                /\ s[k + 1].kind = IF f.pc = 1 THEN "constructor" ELSE "initialize"
    /\ k = n /\ f.pc >= 1 =>
         /\ f.at \in w.code
         /\ IF f.pc = 1 /\ NeedsInit(f.at)
            THEN w.ran[f.at] = 0 /\ f.at \notin w.initialized
            ELSE Done(w, f.at)

\* The call at k was made by deployX of the instance it is to, at its step pc.
ByFactory(s, k, pc) ==
  k > 1 /\ s[k - 1].kind = "factory" /\ s[k - 1].at = s[k].at /\ s[k - 1].pc = pc

ConstructorOK(w, s, k) ==
  LET f == s[k] IN
  f.kind = "constructor" =>
    /\ f.at \in Slots /\ f.at \in w.created /\ f.at \notin w.code
    /\ deterministic => ByFactory(s, k, 1)
    /\ Progress(w, f)

InitializeOK(w, s, k) ==
  LET f == s[k] IN
  f.kind = "initialize" =>
    /\ f.at \in Slots /\ NeedsInit(f.at)
    /\ f.at \in w.code /\ f.at \in w.initialized /\ f.at \notin w.registered
    /\ ByFactory(s, k, 2)
    /\ Progress(w, f)

RouteOK(w, s, k) ==
  LET f == s[k] IN
  f.kind = "route" =>
    /\ f.at \in Slots /\ f.at \in w.code
    /\ \/ w.ran[f.at] = 1
       \/ \E j \in 1..(k - 1) : s[j].kind = "initialize" /\ s[j].at = f.at

\* Nobody else is making the same instance.
Sole(s, n) ==
  \A j, k \in 1..n :
    /\ s[j].kind = s[k].kind /\ s[j].at = s[k].at
    /\ \/ s[j].kind = "constructor"
       \/ s[j].kind = "factory" /\ s[j].pc >= 1 /\ s[k].pc >= 1
    => j = k

\* What there is of an instance is complete, or someone is making it.
SlotOK(w, s, n, x) ==
  /\ x \in w.registered => deterministic /\ x \in w.code
  /\ x \in w.code => x \in w.created
  /\ x \in w.initialized => x \in w.code
  /\ x \notin w.created => w.ran[x] = 0
  /\ x \in w.created /\ x \notin w.code =>
       \E k \in 1..n : s[k].kind = "constructor" /\ s[k].at = x
  /\ x \in w.code /\ x \notin w.registered /\ deterministic =>
       \E k \in 1..n : s[k].kind = "factory" /\ s[k].at = x /\ s[k].pc >= 1
  /\ x \in w.registered \/ (x \in w.code /\ ~deterministic) => Done(w, x)
  /\ x \in w.created /\ deterministic => w.parent[x] \in w.registered \cup {Owner}

FrameOK(w, s, n, k) ==
  FactoryOK(w, s, n, k) /\ ConstructorOK(w, s, k) /\ InitializeOK(w, s, k) /\ RouteOK(w, s, k)

Good(w, s, n) ==
  /\ w \in Worlds
  /\ \A k \in 1..n : FrameOK(w, s, n, k)
  /\ Sole(s, n)
  /\ \A x \in Slots : SlotOK(w, s, n, x)

\* Below every call is one a failure can be caught in.
Anchor(s, n, k) == s[k].kind = "foreign" /\ \A j \in (k + 1)..n : s[j].kind # "foreign"
Anchored(s) == \A n \in 1..Len(s) : \E k \in 1..n : Anchor(s, n, k)

\* What a failed call is taken back to fits the calls that remain.
Catchable(s) ==
  \A k \in 1..(Len(s) - 1) : s[k].kind = "foreign" => Good(s[k + 1].entry, s, k)

Chosen == deterministic \in Modes /\ program \in [Slots -> InitPrograms[deterministic]]

IInv ==
  /\ Chosen
  /\ stack \in Seq(Frames)
  /\ Good(world, stack, Len(stack))
  /\ Catchable(stack)
  /\ Anchored(stack)

-----------------------------------------------------------------------------
(***************************************************************************)
(* Good, one change of the stack at a time.  The stacks are s before and   *)
(* s2 after; only their first calls matter.                                *)
(***************************************************************************)
Calls(s, n) == \A k \in 1..n : s[k] \in Frames

\* The call at n has moved on in its code.
SameCall(f, f2) == f2.kind = f.kind /\ f2.at = f.at /\ f2.entry = f.entry

USE DEF ByFactory

\* Good reads no more than the n calls it is about.
LEMMA Prefix ==
  ASSUME NEW w, NEW s, NEW s2, NEW n \in Nat, \A k \in 1..n : s2[k] = s[k], Good(w, s, n)
  PROVE  Good(w, s2, n)
<1>1. ASSUME NEW k \in 1..n PROVE FrameOK(w, s2, n, k)
  <2>1. FrameOK(w, s, n, k) /\ s2[k] = s[k]
    BY DEF Good
  <2>2. k > 1 => s2[k - 1] = s[k - 1]
    OBVIOUS
  <2>3. k < n => s2[k + 1] = s[k + 1]
    OBVIOUS
  <2>4. FactoryOK(w, s2, n, k)
    BY <2>1, <2>2, <2>3 DEF FrameOK, FactoryOK
  <2>5. ConstructorOK(w, s2, k) /\ InitializeOK(w, s2, k)
    BY <2>1, <2>2 DEF FrameOK, ConstructorOK, InitializeOK
  <2>6. RouteOK(w, s2, k)
    BY <2>1 DEF FrameOK, RouteOK
  <2> QED
    BY <2>4, <2>5, <2>6 DEF FrameOK
<1>2. Sole(s2, n)
  BY DEF Good, Sole
<1>3. ASSUME NEW x \in Slots PROVE SlotOK(w, s2, n, x)
  <2>1. SlotOK(w, s, n, x)
    BY DEF Good
  <2> QED
    BY <2>1 DEF SlotOK
<1> QED
  BY <1>1, <1>2, <1>3 DEF Good

\* The world of a call's own members.
Elsewhere(w, w2, x) ==
  /\ w2.created = w.created /\ w2.code = w.code
  /\ w2.registered = w.registered /\ w2.initialized = w.initialized
  /\ w2.parent = w.parent
  /\ \A y \in Slots \ {x} : w2.t[y] = w.t[y] /\ w2.d[y] = w.d[y] /\ w2.ran[y] = w.ran[y]

\* A route writes d, or makes a call.
LEMMA RouteMoves ==
  ASSUME NEW w, NEW w2 \in Worlds, NEW s, NEW s2, NEW n \in Nat \ {0},
         Good(w, s, n), Calls(s, n),
         \A k \in 1..(n - 1) : s2[k] = s[k], SameCall(s[n], s2[n]),
         s[n].kind = "route", Elsewhere(w, w2, s[n].at),
         w2.t = w.t, w2.ran = w.ran, w2.d[s[n].at] \in {w.d[s[n].at], "route"}
  PROVE  Good(w2, s2, n)
<1> DEFINE x == s[n].at
<1>0. w \in Worlds /\ n \in 1..n /\ FrameOK(w, s, n, n)
  BY DEF Good
<1>1. x \in Slots /\ x \in w.code
  BY <1>0 DEF FrameOK, RouteOK
<1>2. \A y \in Slots : Done(w, y) => Done(w2, y)
  BY DEF Done, Elsewhere
<1>3. \A k \in 1..n : SameCall(s[k], s2[k]) /\ (s[k].kind # "route" => s2[k] = s[k])
  BY DEF SameCall
<1>4. ASSUME NEW k \in 1..n PROVE FrameOK(w2, s2, n, k)
  <2>1. FrameOK(w, s, n, k) /\ SameCall(s[k], s2[k]) /\ (s[k].kind # "route" => s2[k] = s[k])
    BY <1>3 DEF Good
  <2>2. k > 1 => SameCall(s[k - 1], s2[k - 1]) /\ (s[k - 1].kind # "route" => s2[k - 1] = s[k - 1])
    BY <1>3
  <2>3. k < n => SameCall(s[k + 1], s2[k + 1])
    BY <1>3
  <2>4. FactoryOK(w2, s2, n, k)
    BY <1>2, <2>1, <2>2, <2>3 DEF FrameOK, FactoryOK, SameCall, Elsewhere
  <2>5. s[k].kind \in {"constructor", "initialize"} /\ s[k].at \in Slots /\ Progress(w, s[k])
          => Progress(w2, s[k])
    BY <1>2 DEF Progress
  <2>6. ConstructorOK(w2, s2, k)
    BY <2>1, <2>2, <2>5 DEF FrameOK, ConstructorOK, SameCall, Elsewhere
  <2>7. InitializeOK(w2, s2, k)
    BY <2>1, <2>2, <2>5 DEF FrameOK, InitializeOK, SameCall, Elsewhere
  <2>8. \A j \in 1..(k - 1) : s2[j].kind = s[j].kind /\ s2[j].at = s[j].at
    BY <1>3 DEF SameCall
  <2>9. RouteOK(w2, s2, k)
    BY <2>1, <2>8 DEF FrameOK, RouteOK, SameCall, Elsewhere
  <2> QED
    BY <2>4, <2>6, <2>7, <2>9 DEF FrameOK
<1>5. Sole(s2, n)
  BY <1>3 DEF Good, Sole, SameCall
<1>6. ASSUME NEW y \in Slots PROVE SlotOK(w2, s2, n, y)
  <2>1. SlotOK(w, s, n, y)
    BY DEF Good
  <2>2. \A k \in 1..n : s[k].kind = "constructor" /\ s[k].at = y
          => s2[k].kind = "constructor" /\ s2[k].at = y
    BY <1>3
  <2>3. \A k \in 1..n : s[k].kind = "factory" /\ s[k].at = y /\ s[k].pc >= 1
          => s2[k].kind = "factory" /\ s2[k].at = y /\ s2[k].pc >= 1
    BY <1>3
  <2> QED
    BY <2>1, <2>2, <2>3, <1>2 DEF SlotOK, Elsewhere
<1> QED
  BY <1>4, <1>5, <1>6 DEF Good

\* An init route takes a step of its own instance.
LEMMA InitMoves ==
  ASSUME NEW w, NEW w2 \in Worlds, NEW s, NEW s2, NEW n \in Nat \ {0},
         Good(w, s, n), Calls(s, n),
         \A k \in 1..(n - 1) : s2[k] = s[k], SameCall(s[n], s2[n]),
         s[n].kind \in {"constructor", "initialize"}, Elsewhere(w, w2, s[n].at),
         w.ran[s[n].at] = 0, Progress(w2, s2[n])
  PROVE  Good(w2, s2, n)
<1> DEFINE x == s[n].at
<1>0. w \in Worlds /\ n \in 1..n /\ FrameOK(w, s, n, n) /\ Sole(s, n)
  BY DEF Good
<1>1. x \in Slots /\ x \in w.created /\ x \notin w.registered
  <2>1. SlotOK(w, s, n, x) \/ x \notin Slots
    BY DEF Good
  <2> QED
    BY <1>0, <2>1 DEF FrameOK, ConstructorOK, InitializeOK, SlotOK
<1>2. \A y \in Slots \ {x} : Done(w, y) => Done(w2, y)
  BY DEF Done, Elsewhere
<1>3. \A k \in 1..n : SameCall(s[k], s2[k]) /\ (k # n => s2[k] = s[k])
  BY DEF SameCall
<1>4. ASSUME NEW k \in 1..n, k # n, s[k].kind \in {"constructor", "initialize"}
      PROVE  s[k].at # x
  <2>1. FrameOK(w, s, n, k)
    BY DEF Good
  <2>2. k > 1 => k - 1 \in 1..n
    OBVIOUS
  <2>3. n > 1 => n - 1 \in 1..n
    OBVIOUS
  <2> QED
    BY <1>0, <1>4, <2>1, <2>2, <2>3 DEF FrameOK, ConstructorOK, InitializeOK, Sole
<1>5. ASSUME NEW k \in 1..n PROVE FrameOK(w2, s2, n, k)
  <2>1. FrameOK(w, s, n, k) /\ SameCall(s[k], s2[k]) /\ (k # n => s2[k] = s[k])
    BY <1>3 DEF Good
  <2>2. k > 1 => s2[k - 1] = s[k - 1]
    BY <1>3
  <2>3. k < n => SameCall(s[k + 1], s2[k + 1])
    BY <1>3
  <2>4. FactoryOK(w2, s2, n, k)
    BY <2>1, <2>2, <2>3 DEF FrameOK, FactoryOK, SameCall, Elsewhere
  <2>5. k # n /\ s[k].kind \in {"constructor", "initialize"} /\ s[k].at \in Slots /\ Progress(w, s[k])
          => Progress(w2, s[k])
    BY <1>2, <1>4 DEF Progress, Elsewhere
  <2>6. ConstructorOK(w2, s2, k)
    BY <2>1, <2>2, <2>5 DEF FrameOK, ConstructorOK, SameCall, Elsewhere
  <2>7. InitializeOK(w2, s2, k)
    BY <2>1, <2>2, <2>5 DEF FrameOK, InitializeOK, SameCall, Elsewhere
  <2>8. \A j \in 1..(k - 1) : s2[j].kind = s[j].kind /\ s2[j].at = s[j].at
    BY <1>3 DEF SameCall
  <2>9. RouteOK(w2, s2, k)
    BY <2>1, <2>8 DEF FrameOK, RouteOK, SameCall, Elsewhere
  <2> QED
    BY <2>4, <2>6, <2>7, <2>9 DEF FrameOK
<1>6. Sole(s2, n)
  BY <1>0, <1>3 DEF Sole, SameCall
<1>7. ASSUME NEW y \in Slots PROVE SlotOK(w2, s2, n, y)
  <2>1. SlotOK(w, s, n, y)
    BY DEF Good
  <2>2. \A k \in 1..n : s[k].kind = "constructor" /\ s[k].at = y
          => s2[k].kind = "constructor" /\ s2[k].at = y
    BY <1>3 DEF SameCall
  <2>3. \A k \in 1..n : s[k].kind = "factory" /\ s[k].at = y /\ s[k].pc >= 1
          => s2[k].kind = "factory" /\ s2[k].at = y /\ s2[k].pc >= 1
    BY <1>3
  <2>4. ~deterministic => x \notin w.code
    BY <1>0 DEF FrameOK, ConstructorOK, InitializeOK, NeedsInit
  <2>5. x \notin w.registered \cup (IF deterministic THEN {} ELSE w.code)
    BY <1>1, <2>4
  <2> QED
    BY <1>1, <1>2, <2>1, <2>2, <2>3, <2>5 DEF SlotOK, Elsewhere
<1> QED
  BY <1>5, <1>6, <1>7 DEF Good

\* A call that changes nothing on the chain: of foreign code, of a route of an
\* instance that has code, or of deployX by someone it serves.
Harmless(w, s, n, f) ==
  \/ f.kind = "foreign"
  \/ f.kind = "route" /\ f.at \in Slots /\ f.at \in w.code
  \/ /\ f.kind = "factory" /\ f.at \in Slots /\ f.pc = 0 /\ deterministic
     /\ n > 0 /\ s[n].at \in w.registered \cup {Owner}

LEMMA Pushed ==
  ASSUME NEW w, NEW s, NEW s2, NEW n \in Nat, Good(w, s, n), Calls(s, n),
         \A k \in 1..n : s2[k] = s[k], n > 0 => s[n].kind # "factory",
         Harmless(w, s, n, s2[n + 1])
  PROVE  Good(w, s2, n + 1)
<1> DEFINE f == s2[n + 1]
<1>0. w \in Worlds /\ Sole(s, n)
  BY DEF Good
<1>1. ASSUME NEW k \in 1..n PROVE FrameOK(w, s2, n + 1, k)
  <2>1. FrameOK(w, s, n, k) /\ s2[k] = s[k]
    BY DEF Good
  <2>2. k > 1 => s2[k - 1] = s[k - 1]
    OBVIOUS
  <2>3. k < n => s2[k + 1] = s[k + 1]
    OBVIOUS
  <2>4. FactoryOK(w, s2, n + 1, k)
    BY <2>1, <2>2, <2>3 DEF FrameOK, FactoryOK
  <2>5. ConstructorOK(w, s2, k) /\ InitializeOK(w, s2, k)
    BY <2>1, <2>2 DEF FrameOK, ConstructorOK, InitializeOK
  <2>6. RouteOK(w, s2, k)
    BY <2>1 DEF FrameOK, RouteOK
  <2> QED
    BY <2>4, <2>5, <2>6 DEF FrameOK
<1>2. ASSUME f.kind = "route", f.at \in Slots, f.at \in w.code
      PROVE  w.ran[f.at] = 1 \/ \E j \in 1..n : s[j].kind = "initialize" /\ s[j].at = f.at
  <2>1. SlotOK(w, s, n, f.at)
    BY <1>2 DEF Good
  <2>2. CASE f.at \in w.registered \/ ~deterministic
    BY <1>2, <2>1, <2>2 DEF SlotOK, Done
  <2>3. CASE f.at \notin w.registered /\ deterministic
    <3>1. PICK k \in 1..n : s[k].kind = "factory" /\ s[k].at = f.at /\ s[k].pc >= 1
      BY <1>2, <2>1, <2>3 DEF SlotOK
    <3>2. FrameOK(w, s, n, k) /\ k < n /\ FrameOK(w, s, n, k + 1)
      BY <3>1 DEF Good
    <3> QED
      BY <1>2, <3>1, <3>2 DEF FrameOK, FactoryOK, ConstructorOK
  <2> QED
    BY <2>2, <2>3
<1>3. FrameOK(w, s2, n + 1, n + 1)
  <2>1. n > 0 => s2[n] = s[n] /\ (n + 1) - 1 = n
    OBVIOUS
  <2>2. FactoryOK(w, s2, n + 1, n + 1)
    BY <2>1 DEF FactoryOK, Harmless
  <2>3. ConstructorOK(w, s2, n + 1) /\ InitializeOK(w, s2, n + 1)
    BY DEF ConstructorOK, InitializeOK, Harmless
  <2>4. RouteOK(w, s2, n + 1)
    BY <1>2 DEF RouteOK, Harmless
  <2> QED
    BY <2>2, <2>3, <2>4 DEF FrameOK
<1>4. Sole(s2, n + 1)
  BY <1>0 DEF Sole, Harmless
<1>5. ASSUME NEW y \in Slots PROVE SlotOK(w, s2, n + 1, y)
  <2>1. SlotOK(w, s, n, y) /\ \A k \in 1..n : k \in 1..(n + 1)
    BY DEF Good
  <2> QED
    BY <2>1 DEF SlotOK
<1> QED
  BY <1>0, <1>1, <1>3, <1>4, <1>5 DEF Good

\* The mode without a factory: a new instance at an address that is free.
LEMMA NewPushed ==
  ASSUME NEW w, NEW w2 \in Worlds, NEW s, NEW s2, NEW n \in Nat \ {0},
         Good(w, s, n), Calls(s, n), \A k \in 1..n : s2[k] = s[k],
         ~deterministic, s2[n + 1].kind = "constructor", s2[n + 1].pc = 0,
         s2[n + 1].at \in Slots, s2[n + 1].at \notin w.created,
         w2.created = w.created \cup {s2[n + 1].at}, w2.code = w.code,
         w2.registered = w.registered, w2.initialized = w.initialized,
         w2.t = w.t, w2.d = w.d, w2.ran = w.ran
  PROVE  Good(w2, s2, n + 1)
<1> DEFINE f == s2[n + 1]
<1>0. w \in Worlds /\ Sole(s, n) /\ SlotOK(w, s, n, f.at)
  BY DEF Good
<1>1. \A y : Done(w, y) => Done(w2, y)
  BY DEF Done
<1>2. ASSUME NEW k \in 1..n PROVE FrameOK(w2, s2, n + 1, k) /\ (s[k].kind = "constructor" => s[k].at # f.at)
  <2>1. FrameOK(w, s, n, k) /\ s2[k] = s[k]
    BY DEF Good
  <2>2. FactoryOK(w2, s2, n + 1, k) /\ InitializeOK(w2, s2, k)
    BY <2>1 DEF FrameOK, FactoryOK, InitializeOK, NeedsInit
  <2>3. Progress(w, s[k]) => Progress(w2, s[k])
    BY <1>1 DEF Progress
  <2>4. ConstructorOK(w2, s2, k) /\ (s[k].kind = "constructor" => s[k].at # f.at)
    BY <2>1, <2>3 DEF FrameOK, ConstructorOK
  <2>5. RouteOK(w2, s2, k)
    BY <2>1 DEF FrameOK, RouteOK
  <2> QED
    BY <2>2, <2>4, <2>5 DEF FrameOK
<1>3. FrameOK(w2, s2, n + 1, n + 1)
  <2>1. Len(BodyOf(f.at)) \in Nat => Progress(w2, f)
    BY <1>0 DEF Progress, NeedsInit, SlotOK
  <2>2. f.at \notin w.code
    BY <1>0 DEF SlotOK
  <2> QED
    BY <2>1, <2>2 DEF FrameOK, FactoryOK, ConstructorOK, InitializeOK, RouteOK
<1>4. Sole(s2, n + 1)
  BY <1>0, <1>2 DEF Sole
<1>5. ASSUME NEW y \in Slots PROVE SlotOK(w2, s2, n + 1, y)
  <2>1. SlotOK(w, s, n, y) /\ \A k \in 1..n : k \in 1..(n + 1)
    BY DEF Good
  <2> QED
    BY <1>1, <2>1 DEF SlotOK
<1> QED
  BY <1>2, <1>3, <1>4, <1>5 DEF Good

\* deployX creates the instance: nobody has before, for its address is free.
LEMMA FactoryCreated ==
  ASSUME NEW w, NEW w2 \in Worlds, NEW s, NEW s2, NEW n \in Nat \ {0},
         Good(w, s, n), Calls(s, n), \A k \in 1..(n - 1) : s2[k] = s[k],
         s[n].kind = "factory", s[n].pc = 0, SameCall(s[n], s2[n]), s2[n].pc = 1,
         s2[n + 1].kind = "constructor", s2[n + 1].pc = 0, s2[n + 1].at = s[n].at,
         s[n].at \notin w.created,
         w2.created = w.created \cup {s[n].at}, w2.code = w.code,
         w2.registered = w.registered, w2.initialized = w.initialized,
         w2.t = w.t, w2.d = w.d, w2.ran = w.ran,
         \A y \in Slots \ {s[n].at} : w2.parent[y] = w.parent[y],
         w2.parent[s[n].at] = s[n - 1].at
  PROVE  Good(w2, s2, n + 1)
<1> DEFINE x == s[n].at
<1>0. w \in Worlds /\ n \in 1..n /\ Sole(s, n) /\ FrameOK(w, s, n, n)
  BY DEF Good
<1>1. /\ deterministic /\ x \in Slots /\ n > 1
      /\ s[n - 1].at \in w.registered \cup {Owner} /\ s2[n - 1] = s[n - 1]
  BY <1>0 DEF FrameOK, FactoryOK
<1>2. SlotOK(w, s, n, x)
  BY <1>1 DEF Good
<1>3. \A y : Done(w, y) => Done(w2, y)
  BY DEF Done
<1>4. ASSUME NEW k \in 1..n
      PROVE  /\ s[k].kind = "constructor" => s[k].at # x
             /\ s[k].kind = "factory" /\ s[k].pc >= 1 => s[k].at # x
  <2>1. FrameOK(w, s, n, k)
    BY DEF Good
  <2> QED
    BY <2>1 DEF FrameOK, ConstructorOK, FactoryOK
<1>5. ASSUME NEW k \in 1..n PROVE FrameOK(w2, s2, n + 1, k)
  <2>1. FrameOK(w, s, n, k) /\ SameCall(s[k], s2[k]) /\ (k # n => s2[k] = s[k])
    BY DEF Good, SameCall
  <2>2. k > 1 => s2[k - 1] = s[k - 1]
    OBVIOUS
  <2>3. k < n => SameCall(s[k + 1], s2[k + 1])
    BY DEF SameCall
  <2>4. CASE k = n
    BY <1>1, <2>1, <2>4, <1>2
    DEF FrameOK, FactoryOK, ConstructorOK, InitializeOK, RouteOK, SameCall, SlotOK
  <2>5. CASE k # n
    <3>1. FactoryOK(w2, s2, n + 1, k)
      BY <1>4, <2>1, <2>2, <2>3, <2>5 DEF FrameOK, FactoryOK, SameCall
    <3>2. Progress(w, s[k]) => Progress(w2, s[k])
      BY <1>3 DEF Progress
    <3>3. ConstructorOK(w2, s2, k) /\ InitializeOK(w2, s2, k)
      BY <2>1, <2>2, <2>5, <3>2 DEF FrameOK, ConstructorOK, InitializeOK
    <3>4. RouteOK(w2, s2, k)
      BY <2>1, <2>5 DEF FrameOK, RouteOK
    <3> QED
      BY <3>1, <3>3, <3>4 DEF FrameOK
  <2> QED
    BY <2>4, <2>5
<1>6. FrameOK(w2, s2, n + 1, n + 1)
  <2>1. x \notin w.code /\ w.ran[x] = 0
    BY <1>1, <1>2 DEF SlotOK
  <2>2. Progress(w2, s2[n + 1])
    BY <2>1 DEF Progress
  <2>3. (n + 1) - 1 = n
    OBVIOUS
  <2> QED
    BY <1>1, <2>1, <2>2, <2>3 DEF FrameOK, FactoryOK, ConstructorOK, InitializeOK, RouteOK, SameCall
<1>7. Sole(s2, n + 1)
  <2>1. \A k \in 1..n : SameCall(s[k], s2[k]) /\ (k # n => s2[k] = s[k])
    BY DEF SameCall
  <2> QED
    BY <1>0, <1>4, <2>1 DEF Sole, SameCall
<1>8. ASSUME NEW y \in Slots PROVE SlotOK(w2, s2, n + 1, y)
  <2>1. SlotOK(w, s, n, y)
    BY DEF Good
  <2>2. \A k \in 1..n : k \in 1..(n + 1) /\ SameCall(s[k], s2[k]) /\ (k # n => s2[k] = s[k])
    BY DEF SameCall
  <2>3. \A k \in 1..n : s[k].kind = "constructor" /\ s[k].at = y
          => s2[k].kind = "constructor" /\ s2[k].at = y
    BY <2>2 DEF SameCall
  <2>4. \A k \in 1..n : s[k].kind = "factory" /\ s[k].at = y /\ s[k].pc >= 1
          => s2[k].kind = "factory" /\ s2[k].at = y /\ s2[k].pc >= 1
    BY <2>2 DEF SameCall
  <2>5. CASE y = x
    BY <1>1, <1>2, <2>5 DEF SlotOK
  <2>6. CASE y # x
    BY <1>3, <2>1, <2>2, <2>3, <2>4, <2>6 DEF SlotOK
  <2> QED
    BY <2>5, <2>6
<1> QED
  BY <1>5, <1>6, <1>7, <1>8 DEF Good

\* deployX calls initialize() of the instance it has made.
LEMMA FactoryInitialized ==
  ASSUME NEW w, NEW w2 \in Worlds, NEW s, NEW s2, NEW n \in Nat \ {0},
         Good(w, s, n), Calls(s, n), \A k \in 1..(n - 1) : s2[k] = s[k],
         s[n].kind = "factory", s[n].pc = 1, SameCall(s[n], s2[n]), s2[n].pc = 2,
         s2[n + 1].kind = "initialize", s2[n + 1].pc = 0, s2[n + 1].at = s[n].at,
         NeedsInit(s[n].at),
         w2.created = w.created, w2.code = w.code,
         w2.registered = w.registered, w2.initialized = w.initialized \cup {s[n].at},
         w2.t = w.t, w2.d = w.d, w2.ran = w.ran, w2.parent = w.parent
  PROVE  Good(w2, s2, n + 1)
<1> DEFINE x == s[n].at
<1>0. w \in Worlds /\ n \in 1..n /\ Sole(s, n) /\ FrameOK(w, s, n, n)
  BY DEF Good
<1>1. /\ deterministic /\ x \in Slots /\ n > 1 /\ x \in w.code /\ x \notin w.registered
      /\ w.ran[x] = 0 /\ s2[n - 1] = s[n - 1]
  BY <1>0 DEF FrameOK, FactoryOK
<1>2. \A y : Done(w, y) => Done(w2, y)
  BY DEF Done
<1>3. \A k \in 1..n : k \in 1..(n + 1) /\ SameCall(s[k], s2[k]) /\ (k # n => s2[k] = s[k])
  BY DEF SameCall
<1>5. ASSUME NEW k \in 1..n PROVE FrameOK(w2, s2, n + 1, k)
  <2>1. FrameOK(w, s, n, k) /\ SameCall(s[k], s2[k]) /\ (k # n => s2[k] = s[k])
    BY <1>3 DEF Good
  <2>2. k > 1 => s2[k - 1] = s[k - 1]
    OBVIOUS
  <2>3. k < n => SameCall(s[k + 1], s2[k + 1])
    BY <1>3
  <2>4. CASE k = n
    BY <1>1, <2>1, <2>4
    DEF FrameOK, FactoryOK, ConstructorOK, InitializeOK, RouteOK, SameCall
  <2>5. CASE k # n
    <3>1. FactoryOK(w2, s2, n + 1, k)
      BY <2>1, <2>2, <2>3, <2>5 DEF FrameOK, FactoryOK, SameCall
    <3>2. Progress(w, s[k]) => Progress(w2, s[k])
      BY <1>2 DEF Progress
    <3>3. ConstructorOK(w2, s2, k) /\ InitializeOK(w2, s2, k)
      BY <2>1, <2>2, <2>5, <3>2 DEF FrameOK, ConstructorOK, InitializeOK
    <3>4. \A j \in 1..(k - 1) : s2[j] = s[j]
      OBVIOUS
    <3>5. RouteOK(w2, s2, k)
      BY <2>1, <2>5, <3>4 DEF FrameOK, RouteOK
    <3> QED
      BY <3>1, <3>3, <3>5 DEF FrameOK
  <2> QED
    BY <2>4, <2>5
<1>6. FrameOK(w2, s2, n + 1, n + 1)
  <2>1. Progress(w2, s2[n + 1])
    BY <1>1 DEF Progress
  <2>2. (n + 1) - 1 = n
    OBVIOUS
  <2> QED
    BY <1>1, <2>1, <2>2 DEF FrameOK, FactoryOK, ConstructorOK, InitializeOK, RouteOK, SameCall
<1>7. Sole(s2, n + 1)
  BY <1>0, <1>3 DEF Sole, SameCall
<1>8. ASSUME NEW y \in Slots PROVE SlotOK(w2, s2, n + 1, y)
  <2>1. SlotOK(w, s, n, y)
    BY DEF Good
  <2>3. \A k \in 1..n : s[k].kind = "constructor" /\ s[k].at = y
          => s2[k].kind = "constructor" /\ s2[k].at = y
    BY <1>3 DEF SameCall
  <2>4. \A k \in 1..n : s[k].kind = "factory" /\ s[k].at = y /\ s[k].pc >= 1
          => s2[k].kind = "factory" /\ s2[k].at = y /\ s2[k].pc >= 1
    BY <1>3 DEF SameCall
  <2> QED
    BY <1>1, <1>2, <1>3, <2>1, <2>3, <2>4 DEF SlotOK
<1> QED
  BY <1>5, <1>6, <1>7, <1>8 DEF Good

\* The call that is not the last has not changed; the one under the last is
\* deployX only if the last is what deployX made.
LEMMA UnderTop ==
  ASSUME NEW w, NEW s, NEW n \in Nat, Good(w, s, n + 1)
  PROVE  /\ w \in Worlds /\ Sole(s, n) /\ FrameOK(w, s, n + 1, n + 1)
         /\ \A k \in 1..n : FrameOK(w, s, n + 1, k)
         /\ \A x \in Slots : SlotOK(w, s, n + 1, x)
         /\ n > 0 /\ s[n].kind = "factory" => s[n + 1].kind \in {"constructor", "initialize"}
<1>1. \A k \in 1..(n + 1) : FrameOK(w, s, n + 1, k)
  BY DEF Good
<1>2. n > 0 /\ s[n].kind = "factory" => s[n + 1].kind \in {"constructor", "initialize"}
  BY <1>1 DEF FrameOK, FactoryOK
<1> QED
  BY <1>1, <1>2 DEF Good, Sole

\* Foreign code and routes return and leave the chain as it is.
LEMMA Popped ==
  ASSUME NEW w, NEW s, NEW n \in Nat, Good(w, s, n + 1),
         s[n + 1].kind \in {"foreign", "route"}
  PROVE  Good(w, s, n)
<1>0. /\ w \in Worlds /\ Sole(s, n) /\ \A k \in 1..n : FrameOK(w, s, n + 1, k)
      /\ \A x \in Slots : SlotOK(w, s, n + 1, x)
      /\ n > 0 => s[n].kind # "factory"
  BY UnderTop
<1>1. ASSUME NEW k \in 1..n PROVE FrameOK(w, s, n, k)
  <2>1. FrameOK(w, s, n + 1, k)
    BY <1>0
  <2>2. FactoryOK(w, s, n, k)
    BY <1>0, <2>1 DEF FrameOK, FactoryOK
  <2> QED
    BY <2>1, <2>2 DEF FrameOK
<1>2. ASSUME NEW y \in Slots PROVE SlotOK(w, s, n, y)
  <2>1. SlotOK(w, s, n + 1, y)
    BY <1>0
  <2>2. \A k \in 1..(n + 1) : s[k].kind \in {"constructor", "factory"} => k \in 1..n
    OBVIOUS
  <2> QED
    BY <2>1, <2>2 DEF SlotOK
<1> QED
  BY <1>0, <1>1, <1>2 DEF Good

\* A constructor returns and the instance has its code.
LEMMA ConstructorPopped ==
  ASSUME NEW w, NEW w2 \in Worlds, NEW s, NEW n \in Nat, Good(w, s, n + 1), Calls(s, n + 1),
         s[n + 1].kind = "constructor",
         NeedsInit(s[n + 1].at) \/ s[n + 1].pc = Len(BodyOf(s[n + 1].at)) + 2,
         w2.code = w.code \cup {s[n + 1].at}, w2.created = w.created,
         w2.registered = w.registered, w2.initialized = w.initialized,
         w2.t = w.t, w2.d = w.d, w2.ran = w.ran, w2.parent = w.parent
  PROVE  Good(w2, s, n)
<1> DEFINE x == s[n + 1].at
<1>0. /\ w \in Worlds /\ Sole(s, n) /\ FrameOK(w, s, n + 1, n + 1)
      /\ \A k \in 1..n : FrameOK(w, s, n + 1, k)
      /\ \A y \in Slots : SlotOK(w, s, n + 1, y)
  BY UnderTop
<1>1. /\ x \in Slots /\ x \in w.created /\ x \notin w.code
      /\ deterministic => n > 0 /\ s[n].kind = "factory" /\ s[n].at = x /\ s[n].pc = 1
      /\ Progress(w, s[n + 1])
  <2>1. (n + 1) - 1 = n
    OBVIOUS
  <2> QED
    BY <1>0, <2>1 DEF FrameOK, ConstructorOK
<1>2. IF NeedsInit(x) THEN w2.ran[x] = 0 /\ x \notin w2.initialized ELSE Done(w2, x)
  <2>1. x \notin w.initialized
    BY <1>0, <1>1 DEF SlotOK
  <2>2. CASE NeedsInit(x)
    BY <1>1, <2>1, <2>2 DEF Progress
  <2>3. CASE ~NeedsInit(x)
    BY <1>1, <2>3 DEF Progress, Done
  <2> QED
    BY <2>2, <2>3
<1>3. \A y : Done(w, y) => Done(w2, y)
  BY DEF Done
<1>4. \A k \in 1..n : s[k].kind = "constructor" => s[k].at # x
  BY DEF Good, Sole
<1>5. ASSUME NEW k \in 1..n PROVE FrameOK(w2, s, n, k)
  <2>1. FrameOK(w, s, n + 1, k)
    BY <1>0
  <2>2. CASE k = n
    <3>1. s[n].kind = "factory" => n > 1 /\ s[n].at = x /\ s[n].pc = 1
      BY <2>1, <2>2 DEF FrameOK, FactoryOK
    <3>2. FactoryOK(w2, s, n, k)
      BY <1>1, <1>2, <2>1, <2>2, <3>1 DEF FrameOK, FactoryOK
    <3>3. Progress(w, s[k]) => Progress(w2, s[k])
      BY <1>3 DEF Progress
    <3> QED
      BY <1>4, <2>1, <3>2, <3>3 DEF FrameOK, ConstructorOK, InitializeOK, RouteOK
  <2>3. CASE k # n
    <3>1. FactoryOK(w2, s, n, k)
      BY <2>1, <2>3 DEF FrameOK, FactoryOK
    <3>2. Progress(w, s[k]) => Progress(w2, s[k])
      BY <1>3 DEF Progress
    <3> QED
      BY <1>4, <2>1, <3>1, <3>2 DEF FrameOK, ConstructorOK, InitializeOK, RouteOK
  <2> QED
    BY <2>2, <2>3
<1>6. ASSUME NEW y \in Slots PROVE SlotOK(w2, s, n, y)
  <2>1. SlotOK(w, s, n + 1, y)
    BY <1>0
  <2>2. CASE y = x
    BY <1>1, <1>2, <1>3, <2>1, <2>2 DEF SlotOK, NeedsInit
  <2>3. CASE y # x
    <3>1. \A k \in 1..(n + 1) : s[k].kind \in {"constructor", "factory"} /\ s[k].at = y => k \in 1..n
      BY <2>3
    <3> QED
      BY <1>3, <2>1, <2>3, <3>1 DEF SlotOK
  <2> QED
    BY <2>2, <2>3
<1> QED
  BY <1>0, <1>5, <1>6 DEF Good

\* initialize() returns to deployX.
LEMMA InitializePopped ==
  ASSUME NEW w, NEW s, NEW n \in Nat, Good(w, s, n + 1), Calls(s, n + 1),
         s[n + 1].kind = "initialize", s[n + 1].pc = Len(BodyOf(s[n + 1].at)) + 2
  PROVE  Good(w, s, n)
<1> DEFINE x == s[n + 1].at
<1>0. /\ w \in Worlds /\ Sole(s, n) /\ FrameOK(w, s, n + 1, n + 1)
      /\ \A k \in 1..n : FrameOK(w, s, n + 1, k)
      /\ \A y \in Slots : SlotOK(w, s, n + 1, y)
  BY UnderTop
<1>1. /\ x \in Slots /\ x \in w.code /\ Done(w, x)
      /\ n > 0 /\ s[n].kind = "factory" /\ s[n].at = x /\ s[n].pc = 2
  <2>1. (n + 1) - 1 = n
    OBVIOUS
  <2> QED
    BY <1>0, <2>1 DEF FrameOK, InitializeOK, Progress
<1>2. ASSUME NEW k \in 1..n PROVE FrameOK(w, s, n, k)
  <2>1. FrameOK(w, s, n + 1, k)
    BY <1>0
  <2>2. FactoryOK(w, s, n, k)
    BY <1>1, <2>1 DEF FrameOK, FactoryOK
  <2> QED
    BY <2>1, <2>2 DEF FrameOK
<1>3. ASSUME NEW y \in Slots PROVE SlotOK(w, s, n, y)
  <2>1. SlotOK(w, s, n + 1, y)
    BY <1>0
  <2>2. \A k \in 1..(n + 1) : s[k].kind \in {"constructor", "factory"} => k \in 1..n
    OBVIOUS
  <2> QED
    BY <2>1, <2>2 DEF SlotOK
<1> QED
  BY <1>0, <1>2, <1>3 DEF Good

\* deployX registers the instance and returns.
LEMMA FactoryPopped ==
  ASSUME NEW w, NEW w2 \in Worlds, NEW s, NEW n \in Nat, Good(w, s, n + 1), Calls(s, n + 1),
         s[n + 1].kind = "factory",
         s[n + 1].pc = IF NeedsInit(s[n + 1].at) THEN 2 ELSE 1,
         w2.registered = w.registered \cup {s[n + 1].at}, w2.created = w.created,
         w2.code = w.code, w2.initialized = w.initialized,
         w2.t = w.t, w2.d = w.d, w2.ran = w.ran, w2.parent = w.parent
  PROVE  Good(w2, s, n)
<1> DEFINE x == s[n + 1].at
<1>0. /\ w \in Worlds /\ Sole(s, n) /\ FrameOK(w, s, n + 1, n + 1)
      /\ \A k \in 1..n : FrameOK(w, s, n + 1, k)
      /\ \A y \in Slots : SlotOK(w, s, n + 1, y)
      /\ n > 0 => s[n].kind # "factory"
  BY UnderTop
<1>1. x \in Slots /\ deterministic /\ x \in w.code /\ Done(w, x)
  BY <1>0 DEF FrameOK, FactoryOK
<1>2. \A y : Done(w, y) => Done(w2, y)
  BY DEF Done
<1>3. \A k \in 1..n : s[k].kind = "factory" /\ s[k].pc >= 1 => s[k].at # x
  BY DEF Good, Sole
<1>4. ASSUME NEW k \in 1..n PROVE FrameOK(w2, s, n, k)
  <2>1. FrameOK(w, s, n + 1, k)
    BY <1>0
  <2>2. FactoryOK(w2, s, n, k)
    BY <1>0, <1>3, <2>1 DEF FrameOK, FactoryOK
  <2>3. Progress(w, s[k]) => Progress(w2, s[k])
    BY <1>2 DEF Progress
  <2>4. k > 1 => k - 1 \in 1..n
    OBVIOUS
  <2>5. InitializeOK(w2, s, k)
    BY <1>3, <2>1, <2>3, <2>4 DEF FrameOK, InitializeOK
  <2> QED
    BY <2>1, <2>2, <2>3, <2>5 DEF FrameOK, ConstructorOK, RouteOK
<1>5. ASSUME NEW y \in Slots PROVE SlotOK(w2, s, n, y)
  <2>1. SlotOK(w, s, n + 1, y)
    BY <1>0
  <2>2. \A k \in 1..(n + 1) : s[k].kind = "constructor" => k \in 1..n
    OBVIOUS
  <2>3. CASE y = x
    BY <1>1, <1>2, <2>1, <2>2, <2>3 DEF SlotOK
  <2>4. CASE y # x
    <3>1. \A k \in 1..(n + 1) : s[k].kind = "factory" /\ s[k].at = y => k \in 1..n
      BY <2>4
    <3> QED
      BY <1>2, <2>1, <2>2, <2>4, <3>1 DEF SlotOK
  <2> QED
    BY <2>3, <2>4
<1> QED
  BY <1>0, <1>4, <1>5 DEF Good

-----------------------------------------------------------------------------
(***************************************************************************)
(* The invariant, one action at a time.                                    *)
(***************************************************************************)
\* The project does not change, so neither does what it asks of an instance.
LEMMA SameNeeds ==
  ASSUME UNCHANGED project, NEW x
  PROVE  (NeedsInit(x)' <=> NeedsInit(x)) /\ (Dropped(x)' <=> Dropped(x)) /\ BodyOf(x)' = BodyOf(x)
BY DEF project, NeedsInit, Dropped, BodyOf

LEMMA SameDone ==
  ASSUME UNCHANGED project, NEW w, NEW x, Done(w, x)
  PROVE  Done(w, x)'
BY SameNeeds DEF Done

LEMMA SameProgress ==
  ASSUME UNCHANGED project, NEW w, NEW f, Progress(w, f)
  PROVE  Progress(w, f)'
BY SameNeeds, SameDone DEF Progress

LEMMA SameFrame ==
  ASSUME UNCHANGED project, NEW w, NEW s, NEW n, NEW k, FrameOK(w, s, n, k)
  PROVE  FrameOK(w, s, n, k)'
<1>1. deterministic' = deterministic
  BY DEF project
<1>2. FactoryOK(w, s, n, k)'
  BY <1>1, SameNeeds, SameDone DEF FrameOK, FactoryOK
<1>3. ConstructorOK(w, s, k)' /\ InitializeOK(w, s, k)'
  BY <1>1, SameNeeds, SameProgress DEF FrameOK, ConstructorOK, InitializeOK, ByFactory
<1>4. RouteOK(w, s, k)'
  BY DEF FrameOK, RouteOK
<1> QED
  BY <1>2, <1>3, <1>4 DEF FrameOK

LEMMA SameSlot ==
  ASSUME UNCHANGED project, NEW w, NEW s, NEW n, NEW x, SlotOK(w, s, n, x)
  PROVE  SlotOK(w, s, n, x)'
<1>1. deterministic' = deterministic
  BY DEF project
<1> QED
  BY <1>1, SameDone DEF SlotOK

LEMMA SameGood ==
  ASSUME UNCHANGED project, NEW w, NEW s, NEW n, Good(w, s, n)
  PROVE  Good(w, s, n)'
BY SameFrame, SameSlot DEF Good, Sole

\* The project does not change, so what holds of the next chain and stack
\* holds in the next state.
LEMMA NextHolds ==
  ASSUME Chosen, UNCHANGED project, stack' \in Seq(Frames),
         Good(world', stack', Len(stack')), Catchable(stack'), Anchored(stack')
  PROVE  IInv'
<1>1. PICK w, s, n : w = world' /\ s = stack' /\ n = Len(stack')
  OBVIOUS
<1>2. Good(w, s, n)'
  BY <1>1, SameGood
<1>3. \A k \in 1..(Len(s) - 1) : s[k].kind = "foreign" => Good(s[k + 1].entry, s, k)'
  BY <1>1, SameGood DEF Catchable
<1>4. Good(world, stack, Len(stack))'
  BY <1>1, <1>2
<1>5. Catchable(stack)'
  BY <1>1, <1>3 DEF Catchable
<1>6. Chosen' /\ Anchored(stack)' /\ stack' \in Seq(Frames)
  BY DEF Chosen, project, Anchored
<1> QED
  BY <1>4, <1>5, <1>6 DEF IInv, Frames

\* What a state of IInv says of the innermost call.
LEMMA TopIs ==
  ASSUME IInv, stack # << >>
  PROVE  /\ Len(stack) \in Nat \ {0} /\ Top = stack[Len(stack)] /\ Top \in Frames
         /\ Calls(stack, Len(stack)) /\ FrameOK(world, stack, Len(stack), Len(stack))
         /\ world \in Worlds
<1>1. Len(stack) \in Nat \ {0}
  BY DEF IInv
<1> QED
  BY <1>1 DEF IInv, Top, Calls, Good

LEMMA InitHolds == Init => IInv
<1> SUFFICES ASSUME Init PROVE IInv
  OBVIOUS
<1>1. world \in Worlds
  BY DEF Init, Genesis, Worlds, Held
<1>2. stack = << >> /\ Len(stack) = 0 /\ stack \in Seq(Frames)
  BY DEF Init
<1>3. \A x \in Slots : SlotOK(world, stack, 0, x)
  BY DEF Init, Genesis, SlotOK
<1>4. Good(world, stack, 0)
  BY <1>1, <1>3 DEF Good, Sole
<1> QED
  BY <1>2, <1>4 DEF IInv, Chosen, Init, Catchable, Anchored

\* Calls of the same kinds are anchored alike.
LEMMA AnchorSame ==
  ASSUME NEW s, NEW s2, Anchored(s), Len(s) \in Nat, NEW m \in 1..Len(s),
         \A k \in 1..m : s2[k].kind = s[k].kind
  PROVE  \E k \in 1..m : Anchor(s2, m, k)
<1>1. PICK k \in 1..m : Anchor(s, m, k)
  BY DEF Anchored
<1>2. \A j \in (k + 1)..m : j \in 1..m
  OBVIOUS
<1>3. Anchor(s2, m, k)
  BY <1>1, <1>2 DEF Anchor
<1> QED
  BY <1>3

-----------------------------------------------------------------------------
\* The stack after the innermost call moves on, makes a call, returns or fails.
LEMMA Advanced ==
  ASSUME IInv, stack # << >>, Top.kind # "foreign", Advance
  PROVE  LET n == Len(stack) IN
         /\ stack' \in Seq(Frames) /\ Len(stack') = n
         /\ \A k \in 1..(n - 1) : stack'[k] = stack[k]
         /\ SameCall(stack[n], stack'[n]) /\ stack'[n].pc = stack[n].pc + 1
         /\ Catchable(stack') /\ Anchored(stack') /\ UNCHANGED project
<1> DEFINE n == Len(stack)
<1>0. n \in Nat \ {0} /\ Top = stack[n] /\ Top \in Frames /\ stack \in Seq(Frames)
  BY TopIs DEF IInv
<1>1. stack' = [stack EXCEPT ![n].pc = @ + 1]
  BY DEF Advance, Below, Running
<1>2. /\ stack' \in Seq(Frames) /\ Len(stack') = n
      /\ \A k \in 1..(n - 1) : stack'[k] = stack[k]
      /\ SameCall(stack[n], stack'[n]) /\ stack'[n].pc = stack[n].pc + 1
  <2>1. [Top EXCEPT !.pc = @ + 1] \in Frames
    BY <1>0 DEF Frames
  <2>2. stack' = [stack EXCEPT ![n] = [Top EXCEPT !.pc = @ + 1]]
    BY <1>0, <1>1
  <2>3. SameCall(Top, [Top EXCEPT !.pc = @ + 1]) /\ [Top EXCEPT !.pc = @ + 1].pc = Top.pc + 1
    BY <1>0 DEF Frames, SameCall
  <2> HIDE DEF Top
  <2>4. stack'[n] = [Top EXCEPT !.pc = @ + 1]
    BY <1>0, <2>2
  <2> QED
    BY <1>0, <2>1, <2>2, <2>3, <2>4
<1>3. \A k \in 1..n : SameCall(stack[k], stack'[k])
  BY <1>2 DEF SameCall
<1>4. Catchable(stack')
  <2> SUFFICES ASSUME NEW k \in 1..(n - 1), stack'[k].kind = "foreign"
               PROVE  Good(stack'[k + 1].entry, stack', k)
    BY <1>2 DEF Catchable
  <2>1. stack[k].kind = "foreign" /\ stack'[k + 1].entry = stack[k + 1].entry
    BY <1>3 DEF SameCall
  <2>2. Good(stack[k + 1].entry, stack, k)
    BY <2>1 DEF IInv, Catchable
  <2>3. \A j \in 1..k : stack'[j] = stack[j]
    BY <1>2
  <2>4. k \in Nat
    OBVIOUS
  <2> QED
    BY <2>1, <2>2, <2>3, <2>4, Prefix
<1>5. Anchored(stack')
  <2> SUFFICES ASSUME NEW m \in 1..n PROVE \E k \in 1..m : Anchor(stack', m, k)
    BY <1>2 DEF Anchored
  <2>1. \A k \in 1..m : stack'[k].kind = stack[k].kind
    BY <1>0, <1>3 DEF SameCall
  <2> QED
    BY <1>0, <2>1, AnchorSame DEF IInv
<1> QED
  BY <1>2, <1>4, <1>5 DEF Advance

LEMMA Called ==
  ASSUME IInv, stack # << >>, NEW kind \in Kinds, NEW at \in Slots \cup {Owner, Stranger},
         Call(kind, at)
  PROVE  LET n == Len(stack) IN
         /\ stack' \in Seq(Frames) /\ Len(stack') = n + 1
         /\ \A k \in 1..(n - 1) : stack'[k] = stack[k]
         /\ SameCall(stack[n], stack'[n])
         /\ IF Top.kind = "foreign" THEN stack'[n] = stack[n] ELSE stack'[n].pc = stack[n].pc + 1
         /\ stack'[n + 1].kind = kind /\ stack'[n + 1].at = at /\ stack'[n + 1].pc = 0
         /\ Catchable(stack') /\ Anchored(stack') /\ UNCHANGED project
<1> DEFINE n == Len(stack)
           g == [Top EXCEPT !.pc = @ + 1]
           f == Frame(kind, at)
<1>0. /\ n \in Nat \ {0} /\ Top = stack[n] /\ Top \in Frames /\ stack \in Seq(Frames)
      /\ world \in Worlds
  BY TopIs DEF IInv
<1>1. f \in Frames /\ f.kind = kind /\ f.at = at /\ f.pc = 0
  <2>1. Genesis \in Worlds
    BY DEF Genesis, Worlds, Held
  <2> QED
    BY <1>0, <2>1 DEF Frame, Frames
<1>2. Top.kind = "foreign" => f.entry = world
  BY DEF Frame, Running
<1>3. g \in Frames /\ SameCall(Top, g) /\ g.pc = Top.pc + 1
  BY <1>0 DEF Frames, SameCall
<1>4. stack' = Append(IF Top.kind = "foreign" THEN stack ELSE [stack EXCEPT ![n] = g], f)
  BY <1>0 DEF Call, Below, Running
<1> HIDE DEF f, g
<1>5. /\ stack' \in Seq(Frames) /\ Len(stack') = n + 1
      /\ \A k \in 1..(n - 1) : stack'[k] = stack[k]
      /\ stack'[n] = IF Top.kind = "foreign" THEN stack[n] ELSE g
      /\ stack'[n + 1] = f
  <2>1. CASE Top.kind = "foreign"
    BY <1>0, <1>1, <1>4, <2>1
  <2>2. CASE Top.kind # "foreign"
    <3> DEFINE s2 == [stack EXCEPT ![n] = g]
    <3>1. /\ s2 \in Seq(Frames) /\ Len(s2) = n /\ s2[n] = g
          /\ \A k \in 1..(n - 1) : s2[k] = stack[k]
      BY <1>0, <1>3
    <3>2. stack' = Append(s2, f)
      BY <1>4, <2>2
    <3> HIDE DEF s2
    <3> QED
      BY <1>0, <1>1, <2>2, <3>1, <3>2
  <2> QED
    BY <2>1, <2>2
<1>6. \A k \in 1..n : SameCall(stack[k], stack'[k])
  BY <1>0, <1>3, <1>5 DEF SameCall
<1>7. Catchable(stack')
  <2> SUFFICES ASSUME NEW k \in 1..n, stack'[k].kind = "foreign"
               PROVE  Good(stack'[k + 1].entry, stack', k)
    BY <1>5 DEF Catchable
  <2>1. stack[k].kind = "foreign"
    BY <1>6 DEF SameCall
  <2>2. \A j \in 1..k : stack'[j] = stack[j]
    BY <1>0, <1>5, <2>1
  <2>3. CASE k = n
    <3>1. Good(world, stack, k) /\ stack'[k + 1].entry = world
      BY <1>0, <1>2, <1>5, <2>1, <2>3 DEF IInv
    <3>2. k \in Nat
      OBVIOUS
    <3> QED
      BY <2>2, <3>1, <3>2, Prefix
  <2>4. CASE k # n
    <3>1. stack'[k + 1].entry = stack[k + 1].entry
      BY <1>0, <1>6, <2>4 DEF SameCall
    <3>2. Good(stack[k + 1].entry, stack, k)
      BY <1>0, <2>1, <2>4 DEF IInv, Catchable
    <3>3. k \in Nat
      OBVIOUS
    <3> QED
      BY <2>2, <3>1, <3>2, <3>3, Prefix
  <2> QED
    BY <2>3, <2>4
<1>8. Anchored(stack')
  <2> SUFFICES ASSUME NEW m \in 1..(n + 1) PROVE \E k \in 1..m : Anchor(stack', m, k)
    BY <1>5 DEF Anchored
  <2>1. ASSUME NEW h \in 1..n PROVE \E k \in 1..h : Anchor(stack', h, k)
    <3>1. \A k \in 1..h : stack'[k].kind = stack[k].kind
      BY <1>0, <1>6 DEF SameCall
    <3> QED
      BY <1>0, <3>1, AnchorSame DEF IInv
  <2>2. CASE m \in 1..n
    BY <2>1, <2>2
  <2>3. CASE m = n + 1 /\ kind = "foreign"
    <3>1. Anchor(stack', m, m)
      BY <1>0, <1>1, <1>5, <2>3 DEF Anchor
    <3> QED
      BY <1>0, <2>3, <3>1
  <2>4. CASE m = n + 1 /\ kind # "foreign"
    <3>1. PICK k \in 1..n : Anchor(stack', n, k)
      BY <1>0, <2>1
    <3>2. \A j \in (k + 1)..m : j \in (k + 1)..n \/ j = n + 1
      BY <1>0, <2>4
    <3>3. Anchor(stack', m, k)
      BY <1>0, <1>1, <1>5, <2>4, <3>1, <3>2 DEF Anchor
    <3> QED
      BY <1>0, <2>4, <3>1, <3>3
  <2> QED
    BY <1>0, <2>2, <2>3, <2>4
<1> QED
  BY <1>0, <1>1, <1>3, <1>5, <1>6, <1>7, <1>8 DEF Call

\* The first calls of the stack are what is left of it.
LEMMA Cut ==
  ASSUME IInv, NEW m \in 0..Len(stack), stack' = SubSeq(stack, 1, m)
  PROVE  /\ stack' \in Seq(Frames) /\ Len(stack') = m
         /\ \A k \in 1..m : stack'[k] = stack[k]
         /\ Catchable(stack') /\ Anchored(stack')
<1>0. stack \in Seq(Frames) /\ m \in Nat
  BY DEF IInv
<1>1. /\ stack' \in Seq(Frames) /\ Len(stack') = m
      /\ \A k \in 1..m : stack'[k] = stack[k]
  BY <1>0
<1>2. Catchable(stack')
  <2> SUFFICES ASSUME NEW k \in 1..(m - 1), stack'[k].kind = "foreign"
               PROVE  Good(stack'[k + 1].entry, stack', k)
    BY <1>1 DEF Catchable
  <2>1. /\ stack[k].kind = "foreign" /\ stack'[k + 1] = stack[k + 1]
        /\ \A j \in 1..k : stack'[j] = stack[j]
    BY <1>0, <1>1
  <2>2. Good(stack[k + 1].entry, stack, k)
    BY <1>0, <2>1 DEF IInv, Catchable
  <2>3. k \in Nat /\ \A j \in 1..k : stack'[j] = stack[j]
    BY <2>1
  <2>4. Good(stack'[k + 1].entry, stack, k)
    BY <2>1, <2>2
  <2> QED
    BY <2>3, <2>4, Prefix
<1>3. Anchored(stack')
  <2> SUFFICES ASSUME NEW h \in 1..m PROVE \E k \in 1..h : Anchor(stack', h, k)
    BY <1>1 DEF Anchored
  <2>1. h \in 1..Len(stack) /\ \A k \in 1..h : stack'[k].kind = stack[k].kind
    BY <1>0, <1>1
  <2>2. Anchored(stack) /\ Len(stack) \in Nat
    BY <1>0 DEF IInv
  <2> QED
    BY <2>1, <2>2, AnchorSame
<1> QED
  BY <1>1, <1>2, <1>3

-----------------------------------------------------------------------------
\* Where the code may make a call other than deployX's own.
MayCall == Top.kind \in {"foreign", "route"} \/ (InInit /\ Top.pc \in 1..Len(Body))

\* The body of an init route is a sequence, and that of the innermost is Body.
LEMMA Bodies ==
  ASSUME Chosen
  PROVE  /\ \A x \in Slots : BodyOf(x) \in Seq(Steps) /\ Len(BodyOf(x)) \in Nat
         /\ Body = BodyOf(Top.at)
<1>1. \A x \in Slots : program[x] \in InitPrograms[deterministic] /\ deterministic \in Modes
  BY DEF Chosen
<1>2. \A x \in Slots : program[x].body \in Seq(Steps)
  BY <1>1, DeploymentAssumption
<1> QED
  BY <1>2 DEF BodyOf, Body

\* The part of an init route's instance, while it runs.
LEMMA InitIs ==
  ASSUME IInv, InInit
  PROVE  /\ stack # << >> /\ Top.kind \in {"constructor", "initialize"} /\ Top.at \in Slots
         /\ Body = BodyOf(Top.at) /\ Len(Body) \in Nat /\ Progress(world, Top)
         /\ ~(Top.kind = "constructor" /\ NeedsInit(Top.at))
<1>1. stack # << >> /\ Top.kind \in {"constructor", "initialize"} /\ ~Stub
  BY DEF InInit, Running
<1>2. Top.at \in Slots /\ Progress(world, Top)
  BY <1>1, TopIs DEF FrameOK, ConstructorOK, InitializeOK
<1> QED
  BY <1>1, <1>2, Bodies DEF IInv, Stub

\* The caller of a call moves on in its code and changes nothing.
LEMMA CallerMoves ==
  ASSUME IInv, stack # << >>, MayCall, stack' \in Seq(Frames),
         NEW n, n = Len(stack), Len(stack') = n + 1,
         \A k \in 1..(n - 1) : stack'[k] = stack[k], SameCall(stack[n], stack'[n]),
         IF Top.kind = "foreign" THEN stack'[n] = stack[n] ELSE stack'[n].pc = stack[n].pc + 1
  PROVE  Good(world, stack', n) /\ Calls(stack', n) /\ stack'[n].kind # "factory"
<1>0. /\ n \in Nat \ {0} /\ Top = stack[n] /\ Top \in Frames /\ Calls(stack, n)
      /\ world \in Worlds /\ Good(world, stack, n) /\ Elsewhere(world, world, stack[n].at)
  BY TopIs DEF IInv, Elsewhere
<1>1. Calls(stack', n)
  BY <1>0 DEF Calls
<1>2. CASE Top.kind = "foreign"
  <2>1. \A k \in 1..n : stack'[k] = stack[k]
    BY <1>0, <1>2
  <2> QED
    BY <1>0, <1>1, <1>2, <2>1, Prefix
<1>3. CASE Top.kind = "route"
  <2>1. Good(world, stack', n)
    BY <1>0, <1>3, RouteMoves
  <2> QED
    BY <1>0, <1>1, <1>3, <2>1 DEF SameCall
<1>4. CASE InInit /\ Top.pc \in 1..Len(Body)
  <2>1. /\ Top.kind \in {"constructor", "initialize"} /\ Top.at \in Slots
        /\ Body = BodyOf(Top.at) /\ Len(Body) \in Nat /\ Progress(world, Top)
        /\ ~(Top.kind = "constructor" /\ NeedsInit(Top.at))
    BY <1>4, InitIs
  <2>2. world.ran[Top.at] = 0 /\ Progress(world, stack'[n])
    BY <1>0, <1>4, <2>1 DEF Progress, SameCall
  <2>3. Good(world, stack', n)
    BY <1>0, <2>1, <2>2, InitMoves
  <2> QED
    BY <1>0, <1>1, <2>1, <2>3 DEF SameCall
<1> QED
  BY <1>2, <1>3, <1>4 DEF MayCall

LEMMA HarmlessHolds ==
  ASSUME IInv, stack # << >>, MayCall, NEW kind \in Kinds, NEW at \in Slots \cup {Owner, Stranger},
         Call(kind, at), UNCHANGED world,
         \/ kind = "foreign"
         \/ kind = "route" /\ at \in Slots /\ at \in world.code
         \/ kind = "factory" /\ at \in Slots /\ deterministic /\ Top.at \in world.registered \cup {Owner}
  PROVE  IInv'
<1> DEFINE n == Len(stack)
<1>0. n \in Nat \ {0} /\ Top = stack[n]
  BY TopIs
<1>1. /\ stack' \in Seq(Frames) /\ Len(stack') = n + 1
      /\ \A k \in 1..(n - 1) : stack'[k] = stack[k]
      /\ SameCall(stack[n], stack'[n])
      /\ IF Top.kind = "foreign" THEN stack'[n] = stack[n] ELSE stack'[n].pc = stack[n].pc + 1
      /\ stack'[n + 1].kind = kind /\ stack'[n + 1].at = at /\ stack'[n + 1].pc = 0
      /\ Catchable(stack') /\ Anchored(stack') /\ UNCHANGED project
  BY Called
<1>2. Good(world, stack', n) /\ Calls(stack', n) /\ stack'[n].kind # "factory"
  BY <1>1, CallerMoves
<1>3. Harmless(world, stack', n, stack'[n + 1])
  BY <1>0, <1>1 DEF Harmless, SameCall
<1>4. Good(world, stack', n + 1)
  BY <1>0, <1>2, <1>3, Pushed
<1> QED
  BY <1>1, <1>4, NextHolds DEF IInv

LEMMA DeployHolds ==
  ASSUME IInv, stack # << >>, MayCall, NEW s \in Slots, Deploy(s)
  PROVE  IInv'
<1> DEFINE n == Len(stack)
<1>0. /\ n \in Nat \ {0} /\ Top = stack[n] /\ Top \in Frames /\ world \in Worlds
      /\ {"factory", "constructor"} \subseteq Kinds
  BY TopIs DEF Kinds
<1>1. CASE deterministic
  <2>1. Call("factory", s) /\ UNCHANGED world /\ Top.at \in world.registered \cup {Owner}
    BY <1>1 DEF Deploy, MayDeploy
  <2> QED
    BY <1>0, <1>1, <2>1, HarmlessHolds
<1>2. CASE ~deterministic
  <2>1. /\ s \notin world.created /\ Call("constructor", s)
        /\ world' = [world EXCEPT !.created = @ \cup {s}, !.parent[s] = Top.at]
    BY <1>2 DEF Deploy
  <2>2. /\ stack' \in Seq(Frames) /\ Len(stack') = n + 1
        /\ \A k \in 1..(n - 1) : stack'[k] = stack[k]
        /\ SameCall(stack[n], stack'[n])
        /\ IF Top.kind = "foreign" THEN stack'[n] = stack[n] ELSE stack'[n].pc = stack[n].pc + 1
        /\ stack'[n + 1].kind = "constructor" /\ stack'[n + 1].at = s /\ stack'[n + 1].pc = 0
        /\ Catchable(stack') /\ Anchored(stack') /\ UNCHANGED project
    BY <1>0, <2>1, Called
  <2>3. Good(world, stack', n) /\ Calls(stack', n)
    BY <2>2, CallerMoves
  <2>4. /\ world' \in Worlds
        /\ world'.created = world.created \cup {s} /\ world'.code = world.code
        /\ world'.registered = world.registered /\ world'.initialized = world.initialized
        /\ world'.t = world.t /\ world'.d = world.d /\ world'.ran = world.ran
    BY <1>0, <2>1 DEF Worlds, Frames
  <2>5. Good(world', stack', n + 1)
    BY <1>0, <1>2, <2>1, <2>2, <2>3, <2>4, NewPushed
  <2> QED
    BY <2>2, <2>5, NextHolds DEF IInv
<1> QED
  BY <1>1, <1>2

\* A route writes d of its instance; an init route makes one of its steps.
LEMMA RouteWriteHolds == ASSUME IInv, RouteWrite PROVE IInv'
<1> DEFINE n == Len(stack)
<1>0. stack # << >> /\ Top.kind = "route"
  BY DEF RouteWrite, Running
<1>1. /\ n \in Nat \ {0} /\ Top = stack[n] /\ Top \in Frames /\ Calls(stack, n)
      /\ world \in Worlds /\ FrameOK(world, stack, n, n) /\ Good(world, stack, n)
  BY <1>0, TopIs DEF IInv
<1>2. /\ stack' \in Seq(Frames) /\ Len(stack') = n
      /\ \A k \in 1..(n - 1) : stack'[k] = stack[k]
      /\ SameCall(stack[n], stack'[n])
      /\ Catchable(stack') /\ Anchored(stack') /\ UNCHANGED project
  BY <1>0, Advanced DEF RouteWrite
<1>3. Top.at \in Slots
  BY <1>0, <1>1 DEF FrameOK, RouteOK
<1>4. /\ world' \in Worlds /\ Elsewhere(world, world', Top.at)
      /\ world'.t = world.t /\ world'.ran = world.ran /\ world'.d[Top.at] = "route"
  BY <1>1, <1>3 DEF RouteWrite, Worlds, Held, Elsewhere
<1>5. Good(world', stack', n)
  BY <1>0, <1>1, <1>2, <1>4, RouteMoves
<1> QED
  BY <1>2, <1>5, NextHolds DEF IInv

LEMMA InitStepHolds ==
  ASSUME IInv, InInit, Top.pc <= Len(Body) + 1, Advance, world' \in Worlds,
         Elsewhere(world, world', Top.at),
         Top.pc <= Len(Body) => world'.ran = world.ran,
         Top.pc >= 1 => world'.t = world.t,
         Top.pc = 0 /\ ~Dropped(Top.at) => world'.t[Top.at] = "init",
         Top.pc = Len(Body) + 1 =>
           world'.d[Top.at] = "default" /\ world'.ran[Top.at] = world.ran[Top.at] + 1
  PROVE  IInv'
<1> DEFINE n == Len(stack)
<1>0. /\ stack # << >> /\ Top.kind \in {"constructor", "initialize"} /\ Top.at \in Slots
      /\ Body = BodyOf(Top.at) /\ Len(Body) \in Nat /\ Progress(world, Top)
      /\ ~(Top.kind = "constructor" /\ NeedsInit(Top.at))
  BY InitIs
<1>1. /\ n \in Nat \ {0} /\ Top = stack[n] /\ Top \in Frames /\ Calls(stack, n)
      /\ world \in Worlds /\ Good(world, stack, n)
  BY <1>0, TopIs DEF IInv
<1>2. /\ stack' \in Seq(Frames) /\ Len(stack') = n
      /\ \A k \in 1..(n - 1) : stack'[k] = stack[k]
      /\ SameCall(stack[n], stack'[n]) /\ stack'[n].pc = Top.pc + 1
      /\ Catchable(stack') /\ Anchored(stack') /\ UNCHANGED project
  BY <1>0, <1>1, Advanced
<1>3. Top.pc \in Nat
  BY <1>1 DEF Frames
<1>4. world.ran[Top.at] = 0 /\ (Top.pc >= 1 /\ ~Dropped(Top.at) => world.t[Top.at] = "init")
  BY <1>0, <1>3 DEF Progress
<1>5. Top.pc = Len(Body) + 1 => Done(world', Top.at)
  BY <1>0, <1>3, <1>4 DEF Done
<1>6. Progress(world', stack'[n])
  BY <1>0, <1>1, <1>2, <1>3, <1>4, <1>5 DEF Progress, SameCall
<1>7. Good(world', stack', n)
  BY <1>0, <1>1, <1>2, <1>4, <1>6, InitMoves
<1> QED
  BY <1>2, <1>7, NextHolds DEF IInv

LEMMA InitUpdatesHolds == ASSUME IInv, InitUpdates PROVE IInv'
<1>1. /\ stack # << >> /\ Top.at \in Slots /\ Len(Body) \in Nat /\ world \in Worlds
      /\ Top.pc = 0 /\ InInit /\ Advance
  BY InitIs, TopIs DEF InitUpdates
<1>2. world' = IF Dropped(Top.at) THEN world ELSE [world EXCEPT !.t[Top.at] = "init"]
  BY DEF InitUpdates
<1>3. /\ world' \in Worlds /\ Elsewhere(world, world', Top.at) /\ world'.ran = world.ran
      /\ ~Dropped(Top.at) => world'.t[Top.at] = "init"
  <2>1. CASE Dropped(Top.at)
    BY <1>1, <1>2, <2>1 DEF Elsewhere
  <2>2. CASE ~Dropped(Top.at)
    BY <1>1, <1>2, <2>2 DEF Elsewhere, Worlds, Held
  <2> QED
    BY <2>1, <2>2
<1> QED
  BY <1>1, <1>3, InitStepHolds

LEMMA InitActionHolds == ASSUME IInv, InitAction PROVE IInv'
<1>1. /\ stack # << >> /\ Top.at \in Slots /\ Len(Body) \in Nat /\ world \in Worlds
      /\ InInit /\ Top.pc \in 1..Len(Body) /\ MayCall
  BY InitIs, TopIs DEF InitAction, MayCall
<1>2. CASE Advance /\ world' = [world EXCEPT !.d[Top.at] = "route"]
  <2>1. /\ world' \in Worlds /\ Elsewhere(world, world', Top.at)
        /\ world'.ran = world.ran /\ world'.t = world.t
    BY <1>1, <1>2 DEF Elsewhere, Worlds, Held
  <2> QED
    BY <1>1, <1>2, <2>1, InitStepHolds
<1>3. CASE Call("foreign", Stranger) /\ UNCHANGED world
  <2>1. "foreign" \in Kinds
    BY DEF Kinds
  <2> QED
    BY <1>1, <1>3, <2>1, HarmlessHolds
<1>4. CASE \E s \in Slots : Deploy(s)
  BY <1>1, <1>4, DeployHolds
<1> QED
  BY <1>2, <1>3, <1>4 DEF InitAction

\* What the end of an init route leaves in the chain.
LEMMA Defaulted ==
  ASSUME NEW w \in Worlds, NEW x \in Slots
  PROVE  LET w2 == [w EXCEPT !.d[x] = "default", !.ran[x] = @ + 1] IN
         /\ w2 \in Worlds /\ Elsewhere(w, w2, x) /\ w2.t = w.t
         /\ w2.d[x] = "default" /\ w2.ran[x] = w.ran[x] + 1
<1> DEFINE w2 == [w EXCEPT !.d[x] = "default", !.ran[x] = @ + 1]
           d2 == [w.d EXCEPT ![x] = "default"]
           r2 == [w.ran EXCEPT ![x] = @ + 1]
<1>1. d2 \in [Slots -> Held] /\ d2[x] = "default" /\ \A y \in Slots \ {x} : d2[y] = w.d[y]
  BY DEF Worlds, Held
<1>2. r2 \in [Slots -> Nat] /\ r2[x] = w.ran[x] + 1 /\ \A y \in Slots \ {x} : r2[y] = w.ran[y]
  BY DEF Worlds
<1>3. w2 = [w EXCEPT !.d = d2, !.ran = r2]
  BY DEF Worlds
<1> HIDE DEF w2, d2, r2
<1>4. /\ w2 \in Worlds /\ w2.d = d2 /\ w2.ran = r2 /\ w2.t = w.t /\ w2.created = w.created
      /\ w2.code = w.code /\ w2.registered = w.registered
      /\ w2.initialized = w.initialized /\ w2.parent = w.parent
  BY <1>1, <1>2, <1>3 DEF Worlds
<1>5. Elsewhere(w, w2, x)
  BY <1>1, <1>2, <1>4 DEF Elsewhere
<1> QED
  BY <1>1, <1>2, <1>4, <1>5 DEF w2

LEMMA InitDefaultsHolds == ASSUME IInv, InitDefaults PROVE IInv'
<1>1. /\ stack # << >> /\ Top.at \in Slots /\ Len(Body) \in Nat /\ world \in Worlds
      /\ InInit /\ Top.pc = Len(Body) + 1 /\ Advance
      /\ world' = [world EXCEPT !.d[Top.at] = "default", !.ran[Top.at] = @ + 1]
  BY InitIs, TopIs DEF InitDefaults
<1>2. /\ world' \in Worlds /\ Elsewhere(world, world', Top.at) /\ world'.t = world.t
      /\ world'.d[Top.at] = "default" /\ world'.ran[Top.at] = world.ran[Top.at] + 1
  BY <1>1, Defaulted
<1> QED
  BY <1>1, <1>2, InitStepHolds

\* A call that returns: the calls below it, in the chain it leaves.
LEMMA Returned ==
  ASSUME IInv, stack # << >>, Return, NEW n \in Nat, Len(stack) = n + 1,
         Good(world', stack, n)
  PROVE  IInv'
<1>1. stack' = SubSeq(stack, 1, n) /\ n \in 0..Len(stack) /\ UNCHANGED project
  BY DEF Return
<1>2. /\ stack' \in Seq(Frames) /\ Len(stack') = n
      /\ \A k \in 1..n : stack'[k] = stack[k]
      /\ Catchable(stack') /\ Anchored(stack')
  BY <1>1, Cut
<1>3. Good(world', stack', n)
  BY <1>2, Prefix
<1> QED
  BY <1>1, <1>2, <1>3, NextHolds DEF IInv

\* The innermost call is one above those below it.
LEMMA TopAbove ==
  ASSUME IInv, stack # << >>
  PROVE  \E n \in Nat :
           /\ Len(stack) = n + 1 /\ Top = stack[n + 1] /\ Calls(stack, n + 1)
           /\ Good(world, stack, n + 1)
<1>1. Len(stack) - 1 \in Nat /\ Len(stack) = (Len(stack) - 1) + 1
  BY TopIs
<1> QED
  BY <1>1, TopIs DEF IInv

LEMMA PlainReturnHolds ==
  ASSUME IInv, ForeignReturns \/ RouteReturns
  PROVE  IInv'
<1>1. stack # << >> /\ Top.kind \in {"foreign", "route"} /\ Return /\ world' = world
  BY DEF ForeignReturns, RouteReturns, Running
<1>2. PICK n \in Nat : /\ Len(stack) = n + 1 /\ Top = stack[n + 1]
                       /\ Good(world, stack, n + 1)
  BY <1>1, TopAbove
<1>3. Good(world', stack, n)
  BY <1>1, <1>2, Popped
<1> QED
  BY <1>1, <1>2, <1>3, Returned

LEMMA InitReturnsHolds == ASSUME IInv, InitReturns PROVE IInv'
<1>1. /\ stack # << >> /\ Top.kind \in {"constructor", "initialize"} /\ Return /\ Top.at \in Slots
      /\ \/ Top.pc = Len(BodyOf(Top.at)) + 2
         \/ Top.kind = "constructor" /\ NeedsInit(Top.at)
  <2>1. CASE InInit /\ Top.pc = Len(Body) + 2
    BY <2>1, InitIs DEF InitReturns
  <2>2. CASE Running("constructor") /\ Stub
    <3>1. stack # << >> /\ Top.kind = "constructor" /\ NeedsInit(Top.at)
      BY <2>2 DEF Running, Stub
    <3>2. Top.at \in Slots
      BY <3>1, TopIs DEF FrameOK, ConstructorOK
    <3> QED
      BY <3>1, <3>2 DEF InitReturns
  <2> QED
    BY <2>1, <2>2 DEF InitReturns
<1>2. PICK n \in Nat : /\ Len(stack) = n + 1 /\ Top = stack[n + 1] /\ Calls(stack, n + 1)
                       /\ Good(world, stack, n + 1)
  BY <1>1, TopAbove
<1>3. world \in Worlds
  BY <1>1, TopIs
<1>4. CASE Top.kind = "constructor"
  <2>1. world' = [world EXCEPT !.code = @ \cup {Top.at}]
    BY <1>4 DEF InitReturns
  <2>2. /\ world' \in Worlds /\ world'.code = world.code \cup {Top.at}
        /\ world'.created = world.created /\ world'.registered = world.registered
        /\ world'.initialized = world.initialized /\ world'.t = world.t /\ world'.d = world.d
        /\ world'.ran = world.ran /\ world'.parent = world.parent
    BY <1>1, <1>3, <2>1 DEF Worlds
  <2>3. Good(world', stack, n)
    BY <1>1, <1>2, <1>4, <2>2, ConstructorPopped
  <2> QED
    BY <1>1, <1>2, <2>3, Returned
<1>5. CASE Top.kind # "constructor"
  <2>1. world' = world
    BY <1>5 DEF InitReturns
  <2>2. Good(world', stack, n)
    BY <1>1, <1>2, <1>5, <2>1, InitializePopped
  <2> QED
    BY <1>1, <1>2, <2>2, Returned
<1> QED
  BY <1>4, <1>5

LEMMA FactoryRegisterHolds == ASSUME IInv, FactoryRegister PROVE IInv'
<1>1. /\ stack # << >> /\ Top.kind = "factory" /\ Return
      /\ Top.pc = IF NeedsInit(Top.at) THEN 2 ELSE 1
      /\ world' = [world EXCEPT !.registered = @ \cup {Top.at}]
  BY DEF FactoryRegister, Running
<1>2. PICK n \in Nat : /\ Len(stack) = n + 1 /\ Top = stack[n + 1] /\ Calls(stack, n + 1)
                       /\ Good(world, stack, n + 1)
  BY <1>1, TopAbove
<1>3. world \in Worlds /\ Top.at \in Slots
  BY <1>1, TopIs DEF FrameOK, FactoryOK
<1>4. /\ world' \in Worlds /\ world'.registered = world.registered \cup {Top.at}
      /\ world'.created = world.created /\ world'.code = world.code
      /\ world'.initialized = world.initialized /\ world'.t = world.t /\ world'.d = world.d
      /\ world'.ran = world.ran /\ world'.parent = world.parent
  BY <1>1, <1>3 DEF Worlds
<1>5. Good(world', stack, n)
  BY <1>1, <1>2, <1>4, FactoryPopped, ZenonT(60)
<1> QED
  BY <1>1, <1>2, <1>5, Returned

LEMMA FactoryCreateHolds == ASSUME IInv, FactoryCreate PROVE IInv'
<1> DEFINE n == Len(stack)
<1>1. /\ stack # << >> /\ Top.kind = "factory" /\ Top.pc = 0 /\ Top.at \notin world.created
      /\ Call("constructor", Top.at) /\ "constructor" \in Kinds
      /\ world' = [world EXCEPT !.created = @ \cup {Top.at}, !.parent[Top.at] = Caller]
  BY DEF FactoryCreate, Running, Kinds
<1>2. /\ n \in Nat \ {0} /\ Top = stack[n] /\ Top \in Frames /\ Calls(stack, n)
      /\ world \in Worlds /\ FrameOK(world, stack, n, n) /\ Good(world, stack, n)
  BY <1>1, TopIs DEF IInv
<1>3. Top.at \in Slots /\ n > 1
  BY <1>1, <1>2 DEF FrameOK, FactoryOK
<1>4. /\ stack' \in Seq(Frames) /\ Len(stack') = n + 1
      /\ \A k \in 1..(n - 1) : stack'[k] = stack[k]
      /\ SameCall(stack[n], stack'[n]) /\ stack'[n].pc = 1
      /\ stack'[n + 1].kind = "constructor" /\ stack'[n + 1].at = Top.at /\ stack'[n + 1].pc = 0
      /\ Catchable(stack') /\ Anchored(stack') /\ UNCHANGED project
  BY <1>1, <1>2, <1>3, Called
<1>5. Caller = stack[n - 1].at /\ stack[n - 1].at \in Slots \cup {Owner, Stranger}
  <2>1. stack[n - 1] \in Frames
    BY <1>2, <1>3 DEF Calls
  <2> QED
    BY <2>1 DEF Caller, Frames
<1>6. /\ world' \in Worlds /\ world'.created = world.created \cup {Top.at}
      /\ world'.code = world.code /\ world'.registered = world.registered
      /\ world'.initialized = world.initialized /\ world'.t = world.t /\ world'.d = world.d
      /\ world'.ran = world.ran
      /\ \A y \in Slots \ {Top.at} : world'.parent[y] = world.parent[y]
      /\ world'.parent[Top.at] = stack[n - 1].at
  BY <1>1, <1>2, <1>3, <1>5 DEF Worlds
<1>7. Good(world', stack', n + 1)
  BY <1>1, <1>2, <1>4, <1>6, FactoryCreated, ZenonT(60)
<1> QED
  BY <1>4, <1>7, NextHolds DEF IInv

LEMMA FactoryInitializeHolds == ASSUME IInv, FactoryInitialize PROVE IInv'
<1> DEFINE n == Len(stack)
<1>1. /\ stack # << >> /\ Top.kind = "factory" /\ Top.pc = 1 /\ NeedsInit(Top.at)
      /\ Call("initialize", Top.at) /\ "initialize" \in Kinds
      /\ world' = [world EXCEPT !.initialized = @ \cup {Top.at}]
  BY DEF FactoryInitialize, Running, Kinds
<1>2. /\ n \in Nat \ {0} /\ Top = stack[n] /\ Top \in Frames /\ Calls(stack, n)
      /\ world \in Worlds /\ FrameOK(world, stack, n, n) /\ Good(world, stack, n)
  BY <1>1, TopIs DEF IInv
<1>3. Top.at \in Slots
  BY <1>1, <1>2 DEF FrameOK, FactoryOK
<1>4. /\ stack' \in Seq(Frames) /\ Len(stack') = n + 1
      /\ \A k \in 1..(n - 1) : stack'[k] = stack[k]
      /\ SameCall(stack[n], stack'[n]) /\ stack'[n].pc = 2
      /\ stack'[n + 1].kind = "initialize" /\ stack'[n + 1].at = Top.at /\ stack'[n + 1].pc = 0
      /\ Catchable(stack') /\ Anchored(stack') /\ UNCHANGED project
  BY <1>1, <1>2, <1>3, Called
<1>5. /\ world' \in Worlds /\ world'.initialized = world.initialized \cup {Top.at}
      /\ world'.created = world.created /\ world'.code = world.code
      /\ world'.registered = world.registered /\ world'.t = world.t /\ world'.d = world.d
      /\ world'.ran = world.ran /\ world'.parent = world.parent
  BY <1>1, <1>2, <1>3 DEF Worlds
<1>6. Good(world', stack', n + 1)
  BY <1>1, <1>2, <1>4, <1>5, FactoryInitialized
<1> QED
  BY <1>4, <1>6, NextHolds DEF IInv

LEMMA TransactHolds ==
  ASSUME IInv, NEW who \in {Owner, Stranger}, Transact(who) PROVE IInv'
<1> DEFINE f == Frame("foreign", who)
<1>1. stack = << >> /\ stack' = << f >> /\ UNCHANGED project /\ world' = world
  BY DEF Transact
<1>2. f \in Frames /\ f.kind = "foreign"
  <2>1. Genesis \in Worlds /\ "foreign" \in Kinds
    BY DEF Genesis, Worlds, Held, Kinds
  <2> QED
    BY <1>1, <2>1 DEF Frame, Frames, Running
<1> HIDE DEF f
<1>3. stack' \in Seq(Frames) /\ Len(stack') = 1 /\ stack'[1] = f
  BY <1>1, <1>2
<1>4. Good(world, stack, 0) /\ Calls(stack, 0)
  BY <1>1 DEF IInv, Calls
<1>5. Harmless(world, stack, 0, stack'[0 + 1])
  BY <1>2, <1>3 DEF Harmless
<1>6. Good(world, stack', 0 + 1)
  BY <1>4, <1>5, Pushed
<1>7. Anchor(stack', 1, 1) /\ 1 \in 1..1
  BY <1>2, <1>3 DEF Anchor
<1>8. Catchable(stack') /\ Anchored(stack')
  BY <1>3, <1>7 DEF Catchable, Anchored
<1>9. Good(world', stack', Len(stack'))
  BY <1>1, <1>3, <1>6
<1> QED
  BY <1>1, <1>3, <1>8, <1>9, NextHolds DEF IInv

\* Foreign code and routes call, deploy and send.
LEMMA ForeignDeployHolds == ASSUME IInv, ForeignDeploy PROVE IInv'
<1>1. stack # << >> /\ Top.kind = "foreign" /\ \E s \in Slots : Deploy(s)
  BY DEF ForeignDeploy, Running
<1>2. MayCall
  BY <1>1 DEF MayCall
<1> QED
  BY <1>1, <1>2, DeployHolds

LEMMA ForeignCallHolds == ASSUME IInv, ForeignCall PROVE IInv'
<1>0. stack # << >> /\ Top.kind = "foreign" /\ UNCHANGED world
  BY DEF ForeignCall, Running
<1>1. stack # << >> /\ MayCall /\ UNCHANGED world /\ "route" \in Kinds
  BY <1>0 DEF MayCall, Kinds
<1>2. PICK s \in world.code : Call("route", s)
  BY DEF ForeignCall
<1>3. s \in Slots
  BY <1>1, TopIs DEF Worlds
<1> QED
  BY <1>1, <1>2, <1>3, HarmlessHolds

LEMMA RouteSendHolds == ASSUME IInv, RouteSend PROVE IInv'
<1>0. stack # << >> /\ Top.kind = "route" /\ UNCHANGED world
  BY DEF RouteSend, Running
<1>1. stack # << >> /\ MayCall /\ UNCHANGED world /\ "foreign" \in Kinds
  BY <1>0 DEF MayCall, Kinds
<1> QED
  BY <1>1, HarmlessHolds DEF RouteSend

LEMMA RouteDeployHolds == ASSUME IInv, RouteDeploy PROVE IInv'
<1>1. stack # << >> /\ Top.kind = "route" /\ \E s \in Slots : Deploy(s)
  BY DEF RouteDeploy, Running
<1>2. MayCall
  BY <1>1 DEF MayCall
<1> QED
  BY <1>1, <1>2, DeployHolds

\* A failure is caught by the innermost foreign caller below it, and leaves
\* the chain as it was when that caller made its call.
LEMMA RevertHolds == ASSUME IInv, Revert PROVE IInv'
<1> DEFINE n == Len(stack)
<1>1. /\ n > 1 /\ stack' = SubSeq(stack, 1, Catcher) /\ UNCHANGED project
      /\ world' = stack[Catcher + 1].entry
  BY DEF Revert
<1>2. stack \in Seq(Frames) /\ n \in Nat
  BY DEF IInv
<1>3. Catcher \in 1..(n - 1) /\ stack[Catcher].kind = "foreign"
  <2>1. n - 1 \in 1..n
    BY <1>1, <1>2
  <2>2. \E k \in 1..(n - 1) : Anchor(stack, n - 1, k)
    BY <2>1 DEF IInv, Anchored
  <2> QED
    BY <2>2 DEF Catcher, Anchor
<1>4. Catcher \in 0..n /\ Catcher \in Nat
  BY <1>2, <1>3
<1>5. /\ stack' \in Seq(Frames) /\ Len(stack') = Catcher
      /\ \A k \in 1..Catcher : stack'[k] = stack[k]
      /\ Catchable(stack') /\ Anchored(stack')
  BY <1>1, <1>4, Cut
<1>6. Good(world', stack, Catcher)
  BY <1>1, <1>3 DEF IInv, Catchable
<1>7. Good(world', stack', Catcher)
  BY <1>4, <1>5, <1>6, Prefix
<1> QED
  BY <1>1, <1>5, <1>7, NextHolds DEF IInv

LEMMA Stutters == ASSUME IInv, UNCHANGED vars PROVE IInv'
<1>1. stack' = stack /\ world' = world /\ UNCHANGED project
  BY DEF vars
<1> QED
  BY <1>1, NextHolds DEF IInv

\* Every step of the chain keeps the invariant.
THEOREM Invariance == Spec => []IInv
<1>1. ASSUME IInv, [Next]_vars PROVE IInv'
  <2>1. CASE \E who \in {Owner, Stranger} : Transact(who)
    BY <1>1, <2>1, TransactHolds
  <2>2. CASE FactoryCreate
    BY <1>1, <2>2, FactoryCreateHolds
  <2>3. CASE FactoryInitialize
    BY <1>1, <2>3, FactoryInitializeHolds
  <2>4. CASE FactoryRegister
    BY <1>1, <2>4, FactoryRegisterHolds
  <2>5. CASE InitUpdates
    BY <1>1, <2>5, InitUpdatesHolds
  <2>6. CASE InitAction
    BY <1>1, <2>6, InitActionHolds
  <2>7. CASE InitDefaults
    BY <1>1, <2>7, InitDefaultsHolds
  <2>8. CASE InitReturns
    BY <1>1, <2>8, InitReturnsHolds
  <2>9. CASE ForeignDeploy
    BY <1>1, <2>9, ForeignDeployHolds
  <2>10. CASE ForeignCall
    BY <1>1, <2>10, ForeignCallHolds
  <2>11. CASE ForeignReturns \/ RouteReturns
    BY <1>1, <2>11, PlainReturnHolds
  <2>12. CASE RouteWrite
    BY <1>1, <2>12, RouteWriteHolds
  <2>13. CASE RouteSend
    BY <1>1, <2>13, RouteSendHolds
  <2>14. CASE RouteDeploy
    BY <1>1, <2>14, RouteDeployHolds
  <2>15. CASE Revert
    BY <1>1, <2>15, RevertHolds
  <2>16. CASE UNCHANGED vars
    BY <1>1, <2>16, Stutters
  <2> QED
    BY <1>1, <2>1, <2>2, <2>3, <2>4, <2>5, <2>6, <2>7, <2>8, <2>9, <2>10, <2>11, <2>12, <2>13,
       <2>14, <2>15, <2>16 DEF Next
<1> QED
  BY <1>1, InitHolds, PTL DEF Spec

-----------------------------------------------------------------------------
(***************************************************************************)
(* What the invariant says.                                                *)
(***************************************************************************)
\* The chain and the calls in progress keep their types; an instance has been
\* created before it has code, and has code before it is registered.
THEOREM TypeCorrect == Spec => []TypeOK
<1>1. IInv => TypeOK
  <2> SUFFICES ASSUME IInv PROVE TypeOK
    OBVIOUS
  <2>1. world \in Worlds /\ \A x \in Slots : SlotOK(world, stack, Len(stack), x)
    BY DEF IInv, Good
  <2>2. world.registered \subseteq world.code /\ world.code \subseteq world.created
    BY <2>1 DEF SlotOK, Worlds
  <2> QED
    BY <2>1, <2>2 DEF TypeOK, IInv, Chosen, Frames
<1> QED
  BY <1>1, Invariance, PTL

\* Every registered instance was asked for by the owner of the factory or by an
\* instance that is registered (factory.rs: deployX checks its caller).
THEOREM BootstrappedAlways == Spec => []Bootstrapped
<1>1. IInv => Bootstrapped
  BY DEF IInv, Good, SlotOK, Bootstrapped, Worlds
<1> QED
  BY <1>1, Invariance, PTL

\* The hypothesis of the next theorem: with a factory, an init route that has
\* phases has parameters.  The constructor of any other drops its body, and
\* then no instance of it is ever complete.
NoneDropped == \A p \in InitPrograms[TRUE] : p.phased => p.params

\* An instance is registered only complete: it has code, its init route has run
\* to the end once, and no member is as the EVM made it (factory.rs: isDeployed
\* is set behind create and initialize).
THEOREM RegisteredCompleteAlways == ASSUME NoneDropped PROVE Spec => []RegisteredComplete
<1>1. IInv => RegisteredComplete
  <2> SUFFICES ASSUME IInv, NEW s \in world.registered
               PROVE  /\ s \in world.code /\ world.ran[s] = 1
                      /\ world.t[s] = "init" /\ world.d[s] \in {"default", "route"}
    BY DEF RegisteredComplete
  <2>1. s \in Slots /\ SlotOK(world, stack, Len(stack), s)
    BY DEF IInv, Good, Worlds
  <2>2. deterministic = TRUE /\ program[s] \in InitPrograms[deterministic]
    BY <2>1, DeploymentAssumption DEF SlotOK, IInv, Chosen
  <2>3. ~Dropped(s)
    BY <2>2, NoneDropped DEF Dropped, NoneDropped
  <2> QED
    BY <2>1, <2>3 DEF SlotOK, Done
<1> QED
  BY <1>1, Invariance, PTL

\* Between transactions there is no half-made instance: an address is free, or
\* its instance has run its init route and is known to the factory if there is
\* one.  A failure anywhere in a deployment frees the address again.
THEOREM AllOrNothingAlways == Spec => []AllOrNothing
<1>1. IInv => AllOrNothing
  <2> SUFFICES ASSUME IInv, stack = << >>
               PROVE  /\ world.created = world.code
                      /\ deterministic => world.code = world.registered
                      /\ \A s \in Slots : s \in world.code <=> world.ran[s] = 1
    BY DEF AllOrNothing
  <2>1. world \in Worlds /\ \A x \in Slots : SlotOK(world, stack, 0, x)
    BY DEF IInv, Good
  <2>0. /\ world.created \subseteq Slots /\ world.code \subseteq Slots
        /\ world.registered \subseteq Slots
    BY <2>1 DEF Worlds
  <2>2. world.created = world.code
    <3>1. \A x \in Slots : x \in world.created <=> x \in world.code
      BY <2>1 DEF SlotOK
    <3> QED
      BY <2>0, <3>1
  <2>3. deterministic => world.code = world.registered
    <3>1. deterministic => \A x \in Slots : x \in world.code <=> x \in world.registered
      BY <2>1 DEF SlotOK
    <3> QED
      BY <2>0, <3>1
  <2>4. \A s \in Slots : s \in world.code <=> world.ran[s] = 1
    BY <2>1, <2>2, <2>3 DEF SlotOK, Done
  <2> QED
    BY <2>2, <2>3, <2>4
<1> QED
  BY <1>1, Invariance, PTL

\* The init route of an instance runs at most once, whoever calls back into the
\* factory while it runs, and a route of the instance only after it or behind
\* _initialized while it runs (gen_initialize_function).
THEOREM InitOnceAndFirstAlways == Spec => []InitOnceAndFirst
<1>1. IInv => InitRunsOnce
  <2> SUFFICES ASSUME IInv, NEW x \in Slots PROVE world.ran[x] <= 1
    BY DEF InitRunsOnce
  <2> DEFINE n == Len(stack)
  <2>1. /\ SlotOK(world, stack, n, x) /\ n \in Nat
        /\ \A k \in 1..n : FrameOK(world, stack, n, k)
        /\ world.ran[x] \in Nat /\ Len(BodyOf(x)) \in Nat /\ stack \in Seq(Frames)
    BY Bodies DEF IInv, Good, Worlds
  <2>2. ASSUME NEW k \in 1..n, stack[k].kind \in {"constructor", "initialize"}, stack[k].at = x
        PROVE  world.ran[x] <= 1
    <3>1. FrameOK(world, stack, n, k) /\ stack[k] \in Frames
      BY <2>1
    <3>2. Progress(world, stack[k]) /\ stack[k].pc \in Nat
      BY <2>2, <3>1 DEF FrameOK, ConstructorOK, InitializeOK, Frames
    <3> QED
      BY <2>1, <2>2, <3>2 DEF Progress, Done
  <2>3. CASE x \notin world.created
    BY <2>1, <2>3 DEF SlotOK
  <2>4. CASE x \in world.created /\ x \notin world.code
    BY <2>1, <2>2, <2>4 DEF SlotOK
  <2>5. CASE x \in world.registered \/ (x \in world.code /\ ~deterministic)
    BY <2>1, <2>5 DEF SlotOK, Done
  <2>6. CASE x \in world.code /\ x \notin world.registered /\ deterministic
    <3>1. PICK k \in 1..n : /\ stack[k].kind = "factory" /\ stack[k].at = x
                            /\ stack[k].pc >= 1
      BY <2>1, <2>6 DEF SlotOK
    <3>2. FactoryOK(world, stack, n, k)
      BY <2>1 DEF FrameOK
    <3>3. CASE k = n
      BY <3>1, <3>2, <3>3 DEF FactoryOK, Done
    <3>4. CASE k # n
      BY <2>1, <2>2, <3>1, <3>2, <3>4 DEF FactoryOK
    <3> QED
      BY <3>3, <3>4
  <2> QED
    BY <2>3, <2>4, <2>5, <2>6
<1>2. IInv => RoutesNeedInit
  <2> SUFFICES ASSUME IInv, NEW k \in 1..Len(stack), stack[k].kind = "route"
               PROVE  \/ world.ran[stack[k].at] >= 1
                      \/ deterministic /\ \E j \in 1..(k - 1) :
                           stack[j].kind = "initialize" /\ stack[j].at = stack[k].at
    BY DEF RoutesNeedInit
  <2>1. FrameOK(world, stack, Len(stack), k)
    BY DEF IInv, Good
  <2>2. CASE world.ran[stack[k].at] = 1
    BY <2>2
  <2>3. CASE \E j \in 1..(k - 1) : stack[j].kind = "initialize" /\ stack[j].at = stack[k].at
    <3>1. PICK j \in 1..(k - 1) : stack[j].kind = "initialize" /\ stack[j].at = stack[k].at
      BY <2>3
    <3>2. FrameOK(world, stack, Len(stack), j)
      BY DEF IInv, Good
    <3> QED
      BY <3>1, <3>2 DEF FrameOK, InitializeOK, NeedsInit
  <2> QED
    BY <2>1, <2>2, <2>3 DEF FrameOK, RouteOK
<1> QED
  BY <1>1, <1>2, Invariance, PTL DEF InitOnceAndFirst
=============================================================================
