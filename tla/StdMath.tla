------------------------------- MODULE StdMath -------------------------------
(***************************************************************************)
(* Integer arithmetic of the language on its three carriers: the runtime   *)
(* types of cambrian-core ("core"), the helper functions emitted into the  *)
(* Solidity source ("evm") and the BitVec functions of the Lean prelude    *)
(* ("lean").  A limb has Limb bits (128 in the code), a word two limbs.    *)
(* The loops (division, power) are taken step by step.                     *)
(***************************************************************************)
EXTENDS Integers, Sequences

CONSTANTS Limb,    \* bits of a limb
          Calls    \* the calls considered: [backend, op, x, y, z]

\* What is modelled of each carrier: the predictor's types carry the operators
\* of the language, too.
Ops(backend) ==
  {"muldiv", "divc", "divr", "pow", "modpow2"}
    \cup IF backend = "core" THEN {"add", "sub", "mul", "div", "narrow"} ELSE {}

ASSUME StdMathAssumption ==
  /\ Limb \in Nat \ {0} /\ Limb % 2 = 0
  /\ \A c \in Calls : /\ c.backend \in {"core", "evm", "lean"} /\ c.op \in Ops(c.backend)
                       /\ {c.x, c.y, c.z} \subseteq 0..(2^(2 * Limb) - 1)

VARIABLES
  call,     \* what is computed
  stage,    \* "start", "div256", "div512", "pow" or "done"
  rem,      \* division: what is left, as one number; power: the base squared so far
  quot,     \* division: the quotient; power: the product
  i,        \* division: the bit at hand; power: the exponent left
  result    \* the value, or Panic

mathVars == <<call, stage, rem, quot, i, result>>

Panic == -1
Half == 2^(Limb \div 2)
Base == 2^Limb
Bits == 2 * Limb
Word == 2^Bits
Hi(a) == a \div Base
Lo(a) == a % Base

-----------------------------------------------------------------------------
\* Words as two limbs: the operators of U256.
Carry(a, b) == (Lo(a) + Lo(b)) \div Base
Borrow(a, b) == IF Lo(a) < Lo(b) THEN 1 ELSE 0

\* Mutant: the carry out of the low limb is dropped.
AddNoCarry(a, b) ==
  IF Hi(a) + Hi(b) >= Base THEN Panic ELSE (Hi(a) + Hi(b)) * Base + ((Lo(a) + Lo(b)) % Base)

Add(a, b) ==
  IF Hi(a) + Hi(b) + Carry(a, b) >= Base THEN Panic
  ELSE (Hi(a) + Hi(b) + Carry(a, b)) * Base + ((Lo(a) + Lo(b)) % Base)

Sub(a, b) ==
  IF Hi(a) < Hi(b) + Borrow(a, b) THEN Panic
  ELSE (Hi(a) - Hi(b) - Borrow(a, b)) * Base + ((Lo(a) - Lo(b)) % Base)

\* u256_widening_mul_u128: limbs by halves, the product as two limbs.
Widening(a, b) ==
  LET ll   == (a % Half) * (b % Half)
      mid  == (a % Half) * (b \div Half) + ll \div Half
      mid2 == (mid % Half) + (a \div Half) * (b % Half)
  IN  <<(a \div Half) * (b \div Half) + mid \div Half + mid2 \div Half,
        (mid2 % Half) * Half + (ll % Half)>>

Mul(a, b) ==
  LET low    == Widening(Lo(a), Lo(b))
      cross1 == Hi(a) * Lo(b)
      cross2 == Lo(a) * Hi(b)
  IN  IF \/ cross1 >= Base \/ cross2 >= Base \/ low[1] + cross1 + cross2 >= Base
         \/ Hi(a) # 0 /\ Hi(b) # 0
      THEN Panic ELSE (low[1] + cross1 + cross2) * Base + low[2]

Shl(a, n) == IF n >= Bits THEN 0 ELSE (a * 2^n) % Word
Shr(a, n) == IF n >= Bits THEN 0 ELSE a \div 2^n

\* leading_zeros, _cam_clz
LeadingZeros(a) == CHOOSE n \in 0..Bits : a < 2^(Bits - n) /\ (n < Bits => a >= 2^(Bits - n - 1))

-----------------------------------------------------------------------------
\* Products of two words: four limbs, and the carries between them.
CoreProduct(a, b) ==
  LET ll == Widening(Lo(a), Lo(b))  lh == Widening(Lo(a), Hi(b))
      hl == Widening(Hi(a), Lo(b))  hh == Widening(Hi(a), Hi(b))
      p1 == ll[1] + lh[2] + hl[2]
      p2 == lh[1] + hl[1] + hh[2] + p1 \div Base
  IN  <<((hh[1] + p2 \div Base) % Base) * Base + (p2 % Base), (p1 % Base) * Base + ll[2]>>

EvmProduct(a, b) ==
  LET lh == Lo(a) * Hi(b)  hl == Hi(a) * Lo(b)  hh == Hi(a) * Hi(b)
      t1 == (Lo(a) * Lo(b)) \div Base + (lh % Base)
      t2 == (t1 % Base) + (hl % Base)
      c1 == t1 \div Base + t2 \div Base
      u1 == lh \div Base + hl \div Base
      u2 == (u1 % Base) + (hh % Base)
      u3 == (u2 % Base) + c1
      c2 == u1 \div Base + u2 \div Base + u3 \div Base
  IN  <<(hh \div Base + c2) * Base + (u3 % Base),
        (t2 % Base) * Base + ((Lo(a) * Lo(b)) % Base)>>

\* d shifted left by n, as two words: bits beyond them are lost.
Shifted(d, n) ==
  IF n >= 2 * Bits THEN <<0, 0>>
  ELSE IF n >= Bits THEN <<Shl(d, n - Bits), 0>>
  ELSE <<Shr(d, Bits - n), Shl(d, n)>>

Wide(p) == p[1] * Word + p[2]

\* u512_sub, for a >= b
WideSub(a, b) ==
  LET borrow == IF a[2] < b[2] THEN 1 ELSE 0
  IN  <<a[1] - b[1] - borrow, IF borrow = 1 THEN (Word - 1 - b[2]) + a[2] + 1 ELSE a[2] - b[2]>>

-----------------------------------------------------------------------------
\* What needs no loop.
Wrap(a) == a % Word
Power(b, e) == IF e = 0 THEN 1 ELSE b^e

Core(c) ==
  CASE c.op = "add" -> Add(c.x, c.y)
    [] c.op = "sub" -> Sub(c.x, c.y)
    [] c.op = "mul" -> Mul(c.x, c.y)
    [] c.op = "divc" -> IF c.y = 0 THEN Panic ELSE IF c.x = 0 THEN 0
                        ELSE Add(Sub(c.x, 1) \div c.y, 1)
    [] c.op = "divr" -> IF c.y = 0 THEN Panic
                        ELSE IF (c.x % c.y) >= c.y - c.y \div 2 THEN Add(c.x \div c.y, 1) ELSE c.x \div c.y
    [] c.op = "modpow2" -> IF c.y >= Bits THEN c.x ELSE c.x % 2^c.y
    [] c.op = "narrow" -> IF c.z = 0 THEN Panic ELSE Wrap((c.x * c.y) \div c.z)

\* Mutant: divc as in the Lean prelude, where the sum wraps.
EvmUnchecked(c) ==
  CASE c.op = "divc" -> IF c.y = 0 THEN Panic ELSE Wrap(c.x + c.y - 1) \div c.y
    [] c.op = "divr" -> IF c.y = 0 THEN Panic ELSE Wrap(c.x + c.y \div 2) \div c.y
    [] c.op = "modpow2" -> IF Shl(1, c.y) = 0 THEN Panic ELSE c.x % Shl(1, c.y)

\* Checked Solidity arithmetic.
Evm(c) ==
  CASE c.op = "divc" -> IF c.x + c.y >= Word \/ c.x + c.y = 0 \/ c.y = 0 THEN Panic
                        ELSE (c.x + c.y - 1) \div c.y
    [] c.op = "divr" -> IF c.x + c.y \div 2 >= Word \/ c.y = 0 THEN Panic
                        ELSE (c.x + c.y \div 2) \div c.y
    [] c.op = "modpow2" -> IF Shl(1, c.y) = 0 THEN Panic ELSE c.x % Shl(1, c.y)

Lean(c) ==
  CASE c.op = "muldiv" -> IF c.z = 0 THEN Panic ELSE Wrap(c.x * c.y) \div c.z
    [] c.op = "divc" -> IF c.y = 0 THEN Panic ELSE Wrap(c.x + c.y - 1) \div c.y
    [] c.op = "divr" -> IF c.y = 0 THEN Panic ELSE Wrap(c.x + c.y \div 2) \div c.y
    [] c.op = "modpow2" -> IF c.y = 0 THEN 0 ELSE IF c.y >= Bits THEN c.x ELSE c.x % Shl(1, c.y)
    [] c.op = "pow" -> Wrap(Power(c.x, c.y))

Looped == {"div", "muldiv", "pow"}

Finish(v) == stage' = "done" /\ result' = v /\ UNCHANGED <<rem, quot, i>>

Evaluate ==
  /\ stage = "start" /\ (call.op \notin Looped \/ call.backend = "lean")
  /\ Finish(CASE call.backend = "core" -> Core(call)
              [] call.backend = "evm" -> Evm(call)
              [] call.backend = "lean" -> Lean(call))
  /\ UNCHANGED call

-----------------------------------------------------------------------------
\* u256_div_rem of n by d: one limb each, or a restoring division.
Divide(n, d) ==
  IF d = 0 THEN Finish(Panic)
  ELSE IF n < d \/ (Hi(n) = 0 /\ Hi(d) = 0) THEN Finish(n \div d)
  ELSE /\ stage' = "div256" /\ rem' = n /\ quot' = 0
       /\ i' = LeadingZeros(d) - LeadingZeros(n)
       /\ UNCHANGED result

BeginDiv ==
  /\ stage = "start" /\ call.op = "div"
  /\ Divide(call.x, call.y)
  /\ UNCHANGED call

Divisor == IF call.op = "div" THEN call.y ELSE call.z

\* Mutant: the bit is set when the remainder exceeds the divisor.
Bit256Strict ==
  /\ stage = "div256"
  /\ IF rem > Shl(Divisor, i)
     THEN rem' = Sub(rem, Shl(Divisor, i)) /\ quot' = Add(quot, Shl(1, i))
     ELSE UNCHANGED <<rem, quot>>
  /\ IF i = 0 THEN stage' = "done" /\ result' = quot' /\ UNCHANGED i
     ELSE i' = i - 1 /\ UNCHANGED <<stage, result>>
  /\ UNCHANGED call

Bit256 ==
  /\ stage = "div256"
  /\ IF rem >= Shl(Divisor, i)
     THEN rem' = Sub(rem, Shl(Divisor, i)) /\ quot' = Add(quot, Shl(1, i))
     ELSE UNCHANGED <<rem, quot>>
  /\ IF i = 0 THEN stage' = "done" /\ result' = quot' /\ UNCHANGED i
     ELSE i' = i - 1 /\ UNCHANGED <<stage, result>>
  /\ UNCHANGED call

\* wide_muldiv, _cam_muldiv: a product of zero is not divided.
BeginMuldiv ==
  /\ stage = "start" /\ call.op = "muldiv" /\ call.backend # "lean"
  /\ LET p == IF call.backend = "core" THEN CoreProduct(call.x, call.y) ELSE EvmProduct(call.x, call.y)
         native == IF call.z = 0 THEN Panic ELSE p[2] \div call.z
     IN  IF call.x = 0 \/ call.y = 0 THEN Finish(0)
         ELSE IF p[1] = 0 THEN IF call.backend = "core" THEN Divide(p[2], call.z) ELSE Finish(native)
         ELSE /\ stage' = "div512" /\ rem' = Wide(p) /\ quot' = 0
              /\ i' = Bits + LeadingZeros(call.z) - LeadingZeros(p[1])
              /\ UNCHANGED result
  /\ UNCHANGED call

Bit512 ==
  /\ stage = "div512"
  /\ LET p == <<rem \div Word, rem % Word>>  sh == Shifted(call.z, i)  fits == rem >= Wide(sh)
     IN  /\ rem' = IF fits THEN Wide(WideSub(p, sh)) ELSE rem
         /\ IF fits /\ i >= Bits THEN stage' = "done" /\ result' = Panic /\ UNCHANGED <<quot, i>>
            ELSE /\ quot' = IF fits THEN Add(quot, Shl(1, i)) ELSE quot
                 /\ stage' = IF i = 0 THEN "done" ELSE stage
                 /\ result' = IF i = 0 THEN quot' ELSE result
                 /\ i' = IF i = 0 THEN i ELSE i - 1
  /\ UNCHANGED call

-----------------------------------------------------------------------------
BeginPow ==
  /\ stage = "start" /\ call.op = "pow" /\ call.backend # "lean"
  /\ stage' = "pow" /\ rem' = call.x /\ quot' = 1 /\ i' = call.y
  /\ UNCHANGED <<call, result>>

\* Mutant: the base is squared before it is multiplied in.
SquareFirst ==
  /\ stage = "pow" /\ i > 0
  /\ LET square == IF i \div 2 = 0 /\ call.backend = "core" THEN rem ELSE Mul(rem, rem)
         product == IF square = Panic THEN Panic ELSE IF i % 2 = 1 THEN Mul(quot, square) ELSE quot
     IN  IF product = Panic \/ square = Panic THEN Finish(Panic)
         ELSE quot' = product /\ rem' = square /\ i' = i \div 2 /\ UNCHANGED <<stage, result>>
  /\ UNCHANGED call

\* cam_pow squares the base if the exponent is not used up, _cam_pow always.
Square ==
  /\ stage = "pow" /\ i > 0
  /\ LET product == IF i % 2 = 1 THEN Mul(quot, rem) ELSE quot
         square == IF i \div 2 = 0 /\ call.backend = "core" THEN rem ELSE Mul(rem, rem)
     IN  IF product = Panic \/ square = Panic THEN Finish(Panic)
         ELSE quot' = product /\ rem' = square /\ i' = i \div 2 /\ UNCHANGED <<stage, result>>
  /\ UNCHANGED call

EndPow ==
  /\ stage = "pow" /\ i = 0
  /\ Finish(quot)
  /\ UNCHANGED call

MathInit ==
  /\ call \in Calls
  /\ stage = "start" /\ rem = 0 /\ quot = 0 /\ i = 0 /\ result = 0

MathNext == Evaluate \/ BeginDiv \/ Bit256 \/ BeginMuldiv \/ Bit512 \/ BeginPow \/ Square \/ EndPow

MathSpec == MathInit /\ [][MathNext]_mathVars

-----------------------------------------------------------------------------
\* What is divided.
Dividend == IF call.op = "div" THEN call.x ELSE call.x * call.y

\* Restoring division loses nothing: what was divided is the quotient so far
\* times the divisor plus the remainder, and the remainder fits the bits left
\* (u256_div_rem, wide_muldiv, _cam_muldiv).
DivisionTracks ==
  stage \in {"div256", "div512"} /\ Divisor > 0 =>
    /\ Dividend = quot * Divisor + rem
    /\ rem < Divisor * 2^(i + 1)

\* The power is what was multiplied in times what the exponent still asks for
\* (cam_pow, _cam_pow).
PowTracks == stage = "pow" => quot * Power(rem, i) = Power(call.x, call.y)

\* docs/STDLIB.md and docs/LANGUAGE.md: the exact value, and a panic for a
\* divisor of zero and for a value that is no word.
Exact(c) ==
  CASE c.op = "add" -> c.x + c.y
    [] c.op = "sub" -> c.x - c.y
    [] c.op = "mul" -> c.x * c.y
    [] c.op = "div" -> c.x \div c.y
    [] c.op \in {"muldiv", "narrow"} -> (c.x * c.y) \div c.z
    [] c.op = "divc" -> CHOOSE q \in 0..Word : (q - 1) * c.y < c.x /\ c.x <= q * c.y
    [] c.op = "divr" -> CHOOSE q \in 0..Word : (2 * q - 1) * c.y <= 2 * c.x /\ 2 * c.x < (2 * q + 1) * c.y
    [] c.op = "modpow2" -> c.x % 2^c.y
    [] c.op = "pow" -> Power(c.x, c.y)

ByZero(c) == (c.op \in {"div", "divc", "divr"} /\ c.y = 0) \/ (c.op \in {"muldiv", "narrow"} /\ c.z = 0)

Documented(c) == IF ByZero(c) \/ Exact(c) \notin 0..(Word - 1) THEN Panic ELSE Exact(c)

\* Where the code departs from the documents: mul_div of zero is zero for a
\* divisor of zero too; checked arithmetic of the emitted helpers refuses an
\* intermediate that is no word, and 2^n above the word; the prelude and the
\* narrow types wrap.
Intermediate(c) ==
  CASE c.op = "muldiv" -> c.x * c.y
    [] c.op = "divc" -> c.x + c.y - 1
    [] c.op = "divr" -> c.x + c.y \div 2
    [] OTHER -> Exact(c)

ZeroFirst(c) == c.op = "muldiv" /\ c.backend # "lean" /\ c.z = 0 /\ c.x * c.y = 0

Refuses(c) ==
  /\ c.backend = "evm"
  /\ \/ c.op \in {"divc", "divr"} /\ c.x + c.y >= Word
     \/ c.op = "modpow2" /\ c.y >= Bits
     \/ c.op = "pow" /\ Power(c.x, 2 * c.y) >= Word

Wraps(c) ==
  /\ c.backend = "lean" \/ c.op = "narrow"
  /\ ~ByZero(c) /\ Intermediate(c) >= Word

\* A call gives the documented value, or panics where the documents say so,
\* on every carrier, but for the departures above: those of the emitted
\* helpers only ever refuse a call, never give another value, and what wraps is
\* a word.
ResultsDocumented ==
  stage = "done" =>
    \/ result = Documented(call)
    \/ Refuses(call) /\ result = Panic
    \/ ZeroFirst(call) /\ result = 0
    \/ Wraps(call) /\ result \in 0..(Word - 1)

\* Every call computes what is documented, and bit by bit and square by square
\* nothing is lost on the way (u256_div_rem, wide_muldiv, cam_pow and their
\* twins in Solidity and Lean).
CallsAsDocumented == DivisionTracks /\ PowTracks /\ ResultsDocumented
=============================================================================
