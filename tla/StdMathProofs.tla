--------------------------- MODULE StdMathProofs ---------------------------
(***************************************************************************)
(* Proofs about StdMath, for limbs of any even width and any calls: sums,  *)
(* differences and products by limbs are exact or panic, the two wide      *)
(* products are the product, and the loops of division and power lose      *)
(* nothing, so that every call computes what is documented, but for the    *)
(* departures StdMath names.                                               *)
(*                                                                         *)
(* What is known of exponents is a hypothesis of what uses it              *)
(* (ExponentLaws).  The lemmas on limbs name each intermediate number, and *)
(* so leave the provers equations with one product at a time.              *)
(***************************************************************************)
EXTENDS StdMath, WellFoundedInduction, TLAPS

\* What ^ means on natural numbers.  The standard modules define it by such
\* equations; the provers know nothing of it.
ExponentLaws ==
  /\ \A b \in Nat, n \in Nat : b > 0 \/ n > 0 => b^n \in Nat
  /\ \A b \in Nat, n \in Nat : b > 0 => b^n # 0
  /\ \A b \in Nat : b^1 = b /\ (b > 0 => b^0 = 1)
  /\ \A b \in Nat, m \in Nat, n \in Nat : m > 0 /\ n > 0 => b^(m + n) = b^m * b^n

LEMMA TwoTo ==
  ASSUME ExponentLaws, NEW m \in Nat, NEW n \in Nat
  PROVE  /\ 2^m \in Nat \ {0} /\ 2^n \in Nat \ {0} /\ 2^(m + n) \in Nat \ {0}
         /\ 2^(m + n) = 2^m * 2^n /\ 2^0 = 1 /\ 2^1 = 2
<1>0. PICK b \in Nat : b = 2
  OBVIOUS
<1>1. \A k \in Nat : b^k \in Nat /\ b^k # 0
  BY <1>0 DEF ExponentLaws
<1>2. b^0 = 1 /\ b^1 = b
  BY <1>0 DEF ExponentLaws
<1>3. m > 0 /\ n > 0 => b^(m + n) = b^m * b^n
  BY DEF ExponentLaws
<1>4. m + n \in Nat /\ (m = 0 => m + n = n) /\ (n = 0 => m + n = m)
  OBVIOUS
<1>5. b^(m + n) = b^m * b^n
  BY <1>1, <1>2, <1>3, <1>4
<1> QED
  BY <1>0, <1>1, <1>2, <1>4, <1>5

LEMMA Sizes ==
  ASSUME ExponentLaws
  PROVE  /\ Half \in Nat \ {0} /\ Base \in Nat /\ Base >= 2 /\ Word \in Nat /\ Word >= 4
         /\ Base = Half * Half /\ Word = Base * Base /\ Bits \in Nat /\ Bits = Limb + Limb
<1>1. Limb \in Nat \ {0} /\ Limb \div 2 \in Nat /\ Limb \div 2 + Limb \div 2 = Limb /\ 1 + (Limb - 1) = Limb
  BY StdMathAssumption
<1>2. Half \in Nat \ {0} /\ Base = Half * Half /\ Base \in Nat
  BY <1>1, TwoTo DEF Half, Base
<1>3. Word = Base * Base /\ Bits = Limb + Limb
  <2>1. PICK n \in Nat : n = Limb /\ 2 * Limb = n + n
    BY <1>1
  <2>2. 2^(n + n) = 2^n * 2^n
    BY TwoTo
  <2> QED
    BY <2>1, <2>2 DEF Word, Base, Bits
<1>4. Base >= 2
  <2>1. PICK m, n \in Nat : m = 1 /\ n = Limb - 1 /\ m + n = Limb
    BY <1>1
  <2>2. 2^(m + n) = 2^m * 2^n /\ 2^n \in Nat \ {0} /\ 2^1 = 2
    BY TwoTo
  <2>3. Base = 2 * 2^n
    BY <2>1, <2>2 DEF Base
  <2> QED
    BY <2>2, <2>3
<1>5. Word >= 4
  BY <1>2, <1>3, <1>4
<1> QED
  BY <1>1, <1>2, <1>3, <1>4, <1>5

LEMMA DivMod ==
  ASSUME NEW a \in Nat, NEW m \in Nat \ {0}
  PROVE  /\ a \div m \in Nat /\ a % m \in 0..(m - 1) /\ a = (a \div m) * m + (a % m)
OBVIOUS

LEMMA Divided ==
  ASSUME NEW a \in Nat, NEW m \in Nat \ {0}
  PROVE  \E q, r \in Nat : q = a \div m /\ r = a % m /\ r < m /\ a = q * m + r
BY DivMod

LEMMA DivBound ==
  ASSUME NEW a \in Nat, NEW m \in Nat \ {0}, NEW n \in Nat, a < n * m
  PROVE  a \div m < n
<1>1. PICK q, r \in Nat : q = a \div m /\ a = q * m + r /\ r < m
  BY DivMod
<1> QED
  BY <1>1

LEMMA DivIs ==
  ASSUME NEW a \in Nat, NEW m \in Nat \ {0}, NEW q \in Nat, NEW r \in 0..(m - 1), a = q * m + r
  PROVE  a \div m = q /\ a % m = r
OBVIOUS

-----------------------------------------------------------------------------
(***************************************************************************)
(* Words as two limbs.                                                     *)
(***************************************************************************)
LEMMA TwoLimbs ==
  ASSUME ExponentLaws, NEW a \in Nat, a < Word
  PROVE  \E h, l \in Nat : h = Hi(a) /\ l = Lo(a) /\ h < Base /\ l < Base /\ a = h * Base + l
<1>1. PICK B \in Nat \ {0} : B = Base /\ Word = B * B
  BY Sizes
<1>2. a \div B \in Nat /\ a % B \in 0..(B - 1) /\ a = (a \div B) * B + (a % B)
  BY DivMod
<1>3. a \div B < B
  BY <1>1, DivBound
<1> QED
  BY <1>1, <1>2, <1>3 DEF Hi, Lo

\* A number of two limbs is below the word exactly if its high limb is.
LEMMA FitsTwo ==
  ASSUME ExponentLaws, NEW h \in Nat, NEW l \in Nat, l < Base
  PROVE  /\ h * Base + l \in Nat
         /\ h < Base <=> h * Base + l < Word
<1>1. PICK B \in Nat \ {0} : B = Base /\ Word = B * B
  BY Sizes
<1>2. CASE h < B
  <2>1. h + 1 <= B /\ (h + 1) * B <= B * B
    BY <1>2
  <2> QED
    BY <1>1, <1>2, <2>1
<1>3. CASE h >= B
  <2>1. h * B >= B * B
    BY <1>3
  <2> QED
    BY <1>1, <1>3, <2>1
<1> QED
  BY <1>1, <1>2, <1>3

\* Two limbs give a sum and a carry.
LEMMA LimbSum ==
  ASSUME ExponentLaws, NEW a \in Nat, NEW b \in Nat, a < Base, b < Base
  PROVE  \E c, l \in Nat : /\ c = (a + b) \div Base /\ l = (a + b) % Base /\ l < Base /\ c <= 1
                           /\ a + b = c * Base + l
<1>1. PICK B \in Nat \ {0} : B = Base
  BY Sizes
<1>2. PICK s \in Nat : s = a + b /\ s < 2 * B
  BY <1>1
<1>3. s \div B \in Nat /\ s % B \in 0..(B - 1) /\ s = (s \div B) * B + (s % B)
  BY DivMod
<1>4. s \div B < 2
  BY <1>2, DivBound
<1> QED
  BY <1>1, <1>2, <1>3, <1>4

LEMMA Spread ==
  ASSUME NEW B \in Nat, NEW a \in Nat, NEW b \in Nat, NEW c \in Nat
  PROVE  (a + b + c) * B = a * B + b * B + c * B
OBVIOUS

THEOREM AddIsExact ==
  ASSUME ExponentLaws, NEW a \in Nat, NEW b \in Nat, a < Word, b < Word
  PROVE  Add(a, b) = IF a + b < Word THEN a + b ELSE Panic
<1>0. PICK B \in Nat \ {0} : B = Base
  BY Sizes
<1>1. PICK ah, al \in Nat : ah = Hi(a) /\ al = Lo(a) /\ ah < B /\ al < B /\ a = ah * B + al
  BY <1>0, TwoLimbs
<1>2. PICK bh, bl \in Nat : bh = Hi(b) /\ bl = Lo(b) /\ bh < B /\ bl < B /\ b = bh * B + bl
  BY <1>0, TwoLimbs
<1>3. PICK c, l \in Nat : c = (al + bl) \div B /\ l = (al + bl) % B /\ l < B /\ al + bl = c * B + l
  <2>1. al < Base /\ bl < Base
    BY <1>0, <1>1, <1>2
  <2>2. \E c, l \in Nat : /\ c = (al + bl) \div Base /\ l = (al + bl) % Base /\ l < Base /\ c <= 1
                          /\ al + bl = c * Base + l
    BY <2>1, LimbSum
  <2> QED
    BY <1>0, <2>2
<1>4. a + b = (ah + bh + c) * B + l
  BY <1>1, <1>2, <1>3, Spread
<1>5. Add(a, b) = IF ah + bh + c >= B THEN Panic ELSE (ah + bh + c) * B + l
  BY <1>0, <1>1, <1>2, <1>3 DEF Add, Carry
<1>6. ah + bh + c < B <=> a + b < Word
  <2>1. PICK h \in Nat : h = ah + bh + c
    OBVIOUS
  <2>2. l < Base
    BY <1>0, <1>3
  <2>3. h < Base <=> h * Base + l < Word
    BY <2>2, FitsTwo
  <2> QED
    BY <1>0, <1>4, <2>1, <2>3
<1> QED
  BY <1>4, <1>5, <1>6

LEMMA ModDifference ==
  ASSUME NEW B \in Nat \ {0}, NEW x \in Nat, NEW y \in Nat, x < B, y < B
  PROVE  (x - y) % B = IF x < y THEN x - y + B ELSE x - y
OBVIOUS

THEOREM SubIsExact ==
  ASSUME ExponentLaws, NEW a \in Nat, NEW b \in Nat, a < Word, b < Word
  PROVE  Sub(a, b) = IF a >= b THEN a - b ELSE Panic
<1>0. PICK B \in Nat \ {0} : B = Base
  BY Sizes
<1>1. PICK ah, al \in Nat : ah = Hi(a) /\ al = Lo(a) /\ ah < B /\ al < B /\ a = ah * B + al
  BY <1>0, TwoLimbs
<1>2. PICK bh, bl \in Nat : bh = Hi(b) /\ bl = Lo(b) /\ bh < B /\ bl < B /\ b = bh * B + bl
  BY <1>0, TwoLimbs
<1>3. CASE al < bl
  <2>1. (al - bl) % B = al - bl + B
    BY <1>1, <1>2, <1>3, ModDifference
  <2>2. Sub(a, b) = IF ah < bh + 1 THEN Panic ELSE (ah - bh - 1) * B + (al - bl + B)
    BY <1>0, <1>1, <1>2, <1>3, <2>1 DEF Sub, Borrow
  <2>3. (ah - bh - 1) * B = ah * B - bh * B - B
    OBVIOUS
  <2>4. ah < bh + 1 => ah * B <= bh * B
    OBVIOUS
  <2>5. ah >= bh + 1 => ah * B >= bh * B + B
    OBVIOUS
  <2> QED
    BY <1>1, <1>2, <1>3, <2>2, <2>3, <2>4, <2>5
<1>4. CASE al >= bl
  <2>1. (al - bl) % B = al - bl
    BY <1>1, <1>2, <1>4, ModDifference
  <2>2. Sub(a, b) = IF ah < bh THEN Panic ELSE (ah - bh) * B + (al - bl)
    BY <1>0, <1>1, <1>2, <1>4, <2>1 DEF Sub, Borrow
  <2>3. (ah - bh) * B = ah * B - bh * B
    OBVIOUS
  <2>4. ah < bh => ah * B + B <= bh * B
    OBVIOUS
  <2>5. ah >= bh => ah * B >= bh * B
    OBVIOUS
  <2> QED
    BY <1>1, <1>2, <1>4, <2>2, <2>3, <2>4, <2>5
<1> QED
  BY <1>3, <1>4

\* A product is below the square exactly if its factors may be.
LEMMA ProductBound ==
  ASSUME NEW B \in Nat, NEW x \in Nat, NEW y \in Nat, x < B, y < B
  PROVE  x * y \in Nat /\ x * y < B * B
<1>1. x * y <= x * B /\ x * B < B * B /\ x * y \in Nat
  OBVIOUS
<1> QED
  BY <1>1

LEMMA HighBound ==
  ASSUME NEW B \in Nat, NEW C \in Nat, NEW h \in Nat, NEW l \in Nat, h * B + l < C * B
  PROVE  h < C
<1>1. h >= C => h * B >= C * B
  OBVIOUS
<1> QED
  BY <1>1

LEMMA Foil ==
  ASSUME NEW H \in Nat, NEW a \in Nat, NEW b \in Nat, NEW c \in Nat, NEW d \in Nat
  PROVE  (a * H + b) * (c * H + d) = (a * c) * (H * H) + (b * c + a * d) * H + b * d
<1>1. (a * H + b) * (c * H + d) = (a * H) * (c * H + d) + b * (c * H + d)
  OBVIOUS
<1>2. (a * H) * (c * H + d) = (a * c) * (H * H) + (a * d) * H
  OBVIOUS
<1>3. b * (c * H + d) = (b * c) * H + b * d
  OBVIOUS
<1>4. (b * c + a * d) * H = (b * c) * H + (a * d) * H
  OBVIOUS
<1> QED
  BY <1>1, <1>2, <1>3, <1>4

LEMMA Gather ==
  ASSUME NEW H \in Nat, NEW a \in Nat, NEW r \in Nat, NEW u \in Nat, NEW v \in Nat, NEW q \in Nat
  PROVE  (a + r + u) * (H * H) + (v * H + q) = a * (H * H) + (r * H + u * H + v) * H + q
<1>1. (a + r + u) * (H * H) = a * (H * H) + r * (H * H) + u * (H * H)
  OBVIOUS
<1>2. (r * H + u * H + v) * H = r * (H * H) + u * (H * H) + v * H
  OBVIOUS
<1> QED
  BY <1>1, <1>2

\* The product of two limbs, as u256_widening_mul_u128 has it.
THEOREM WideningIsExact ==
  ASSUME ExponentLaws, NEW x \in Nat, NEW y \in Nat, x < Base, y < Base
  PROVE  \E h, l \in Nat : Widening(x, y) = <<h, l>> /\ h < Base /\ l < Base /\ h * Base + l = x * y
<1>0. PICK H \in Nat \ {0} : H = Half /\ Base = H * H
  BY Sizes
<1>1. PICK xh, xl \in Nat : xh = x \div H /\ xl = x % H /\ xl < H /\ x = xh * H + xl
  BY Divided
<1>2. PICK yh, yl \in Nat : yh = y \div H /\ yl = y % H /\ yl < H /\ y = yh * H + yl
  BY Divided
<1>3. PICK ll \in Nat : ll = xl * yl
  OBVIOUS
<1>4. PICK p, q \in Nat : p = ll \div H /\ q = ll % H /\ q < H /\ ll = p * H + q
  BY Divided
<1>5. PICK a, b, c \in Nat : a = xh * yh /\ b = xl * yh /\ c = xh * yl
  OBVIOUS
<1>6. PICK mid \in Nat : mid = b + p
  OBVIOUS
<1>7. PICK r, s \in Nat : r = mid \div H /\ s = mid % H /\ s < H /\ mid = r * H + s
  BY Divided
<1>8. PICK mid2 \in Nat : mid2 = s + c
  OBVIOUS
<1>9. PICK u, v \in Nat : u = mid2 \div H /\ v = mid2 % H /\ v < H /\ mid2 = u * H + v
  BY Divided
<1>10. PICK h, l \in Nat : h = a + r + u /\ l = v * H + q
  OBVIOUS
<1>11. Widening(x, y) = <<h, l>>
  BY <1>0, <1>1, <1>2, <1>3, <1>4, <1>5, <1>6, <1>7, <1>8, <1>9, <1>10 DEF Widening
<1>12. l < H * H
  <2>1. (v + 1) * H <= H * H
    BY <1>9
  <2> QED
    BY <1>4, <1>10, <2>1
<1>13. h * (H * H) + l = x * y
  <2>1. (xh * H + xl) * (yh * H + yl) = a * (H * H) + (b + c) * H + ll
    BY <1>3, <1>5, Foil
  <2>2. (a + r + u) * (H * H) + (v * H + q) = a * (H * H) + (r * H + u * H + v) * H + q
    BY Gather
  <2>3. r * H + u * H + v = b + c + p
    <3>1. PICK rh, uh \in Nat : rh = r * H /\ uh = u * H
      OBVIOUS
    <3>2. mid = rh + s /\ mid2 = uh + v
      BY <1>7, <1>9, <3>1
    <3>3. rh + uh + v = b + c + p
      BY <1>6, <1>8, <3>2
    <3> QED
      BY <3>1, <3>3
  <2>4. (b + c + p) * H = (b + c) * H + p * H
    OBVIOUS
  <2>5. h * (H * H) + l = a * (H * H) + (b + c + p) * H + q
    BY <1>10, <2>2, <2>3
  <2> QED
    BY <1>1, <1>2, <1>4, <2>1, <2>4, <2>5
<1>14. h < H * H
  <2>1. PICK B, xy \in Nat : B = H * H /\ xy = x * y
    OBVIOUS
  <2>2. xy < B * B
    BY <1>0, <2>1, ProductBound
  <2>3. h * B + l < B * B
    BY <1>13, <2>1, <2>2
  <2> QED
    BY <2>1, <2>3, HighBound
<1> QED
  BY <1>0, <1>11, <1>12, <1>13, <1>14

LEMMA LimbsOfWord ==
  ASSUME ExponentLaws, NEW a \in Nat, a < Word, NEW B \in Nat \ {0}, B = Base
  PROVE  \E h, l \in Nat : h = Hi(a) /\ l = Lo(a) /\ h < B /\ l < B /\ a = h * B + l
BY TwoLimbs

THEOREM MulIsExact ==
  ASSUME ExponentLaws, NEW a \in Nat, NEW b \in Nat, a < Word, b < Word
  PROVE  Mul(a, b) = IF a * b < Word THEN a * b ELSE Panic
<1>0. PICK B \in Nat \ {0} : B = Base /\ Word = B * B
  BY Sizes
<1>1. PICK ah, al \in Nat : ah = Hi(a) /\ al = Lo(a) /\ ah < B /\ al < B /\ a = ah * B + al
  BY <1>0, LimbsOfWord
<1>2. PICK bh, bl \in Nat : bh = Hi(b) /\ bl = Lo(b) /\ bh < B /\ bl < B /\ b = bh * B + bl
  BY <1>0, LimbsOfWord
<1>3. PICK h, l \in Nat : Widening(al, bl) = <<h, l>> /\ h < B /\ l < B /\ h * B + l = al * bl
  <2>1. al < Base /\ bl < Base
    BY <1>0, <1>1, <1>2
  <2>2. \E h, l \in Nat : Widening(al, bl) = <<h, l>> /\ h < Base /\ l < Base /\ h * Base + l = al * bl
    BY <2>1, WideningIsExact
  <2> QED
    BY <1>0, <2>2
<1>4. PICK x1, x2 \in Nat : x1 = ah * bl /\ x2 = al * bh
  OBVIOUS
<1>5. PICK top \in Nat : top = h + x1 + x2
  OBVIOUS
<1>6. Mul(a, b) = IF x1 >= B \/ x2 >= B \/ top >= B \/ (ah # 0 /\ bh # 0)
                  THEN Panic ELSE top * B + l
  <2>1. Mul(a, b) = IF \/ ah * bl >= B \/ al * bh >= B \/ h + ah * bl + al * bh >= B
                       \/ ah # 0 /\ bh # 0
                    THEN Panic ELSE (h + ah * bl + al * bh) * B + l
    BY <1>0, <1>1, <1>2, <1>3 DEF Mul
  <2> QED
    BY <1>4, <1>5, <2>1
<1>7. a * b = (ah * bh) * (B * B) + (x1 + x2) * B + al * bl
  <2>1. (ah * B + al) * (bh * B + bl) = (ah * bh) * (B * B) + (al * bh + ah * bl) * B + al * bl
    BY Foil
  <2>2. a * b = (ah * B + al) * (bh * B + bl)
    BY <1>1, <1>2
  <2>3. al * bh + ah * bl = x1 + x2
    BY <1>4
  <2> QED
    BY <2>1, <2>2, <2>3
<1>8. a * b = (ah * bh) * (B * B) + (top * B + l)
  <2>1. (h + x1 + x2) * B = h * B + (x1 + x2) * B
    OBVIOUS
  <2> QED
    BY <1>3, <1>5, <1>7, <2>1
<1>9. top < B <=> top * B + l < Word
  <2>1. l < Base
    BY <1>0, <1>3
  <2>2. top < Base <=> top * Base + l < Word
    BY <2>1, FitsTwo
  <2> QED
    BY <1>0, <2>2
<1>10. CASE ah # 0 /\ bh # 0
  <2>1. ah * bh >= 1
    BY <1>10
  <2>2. (ah * bh) * (B * B) >= B * B /\ top * B + l \in Nat
    BY <2>1
  <2>3. ~(a * b < Word)
    BY <1>0, <1>8, <2>2
  <2> QED
    BY <1>6, <1>10, <2>3
<1>11. CASE ah = 0 \/ bh = 0
  <2>1. (ah * bh) * (B * B) = 0
    BY <1>11
  <2>2. a * b = top * B + l
    BY <1>8, <2>1
  <2>3. x1 >= B \/ x2 >= B => top >= B
    BY <1>5
  <2> QED
    BY <1>6, <1>9, <1>11, <2>2, <2>3
<1> QED
  BY <1>10, <1>11

-----------------------------------------------------------------------------
(***************************************************************************)
(* The product of two words, as two words.                                 *)
(***************************************************************************)
\* What the products of the limbs add up to, with the carries c and d.
LEMMA Carried ==
  ASSUME NEW B \in Nat,
         NEW e1 \in Nat, NEW e2 \in Nat, NEW f1 \in Nat, NEW f2 \in Nat,
         NEW g1 \in Nat, NEW g2 \in Nat, NEW k1 \in Nat, NEW k2 \in Nat,
         NEW c \in Nat, NEW m \in Nat, NEW d \in Nat, NEW n \in Nat,
         k1 + f2 + g2 = c * B + m, f1 + g1 + e2 + c = d * B + n
  PROVE  (e1 * B + e2) * (B * B) + ((f1 * B + f2) + (g1 * B + g2)) * B + (k1 * B + k2)
           = ((e1 + d) * B + n) * (B * B) + (m * B + k2)
<1>1. (e1 + d) * B + n = e1 * B + (f1 + g1 + e2 + c)
  <2>1. (e1 + d) * B = e1 * B + d * B
    OBVIOUS
  <2> QED
    BY <2>1
<1>2. PICK eb \in Nat : eb = e1 * B
  OBVIOUS
<1>3. (eb + (f1 + g1 + e2 + c)) * (B * B) = (eb + e2) * (B * B) + (f1 + g1) * (B * B) + c * (B * B)
  OBVIOUS
<1>4. c * (B * B) = (c * B) * B /\ (f1 + g1) * (B * B) = (f1 * B + g1 * B) * B
  OBVIOUS
<1>5. (c * B + m) * B = (c * B) * B + m * B
  OBVIOUS
<1>6. (k1 + f2 + g2) * B = k1 * B + (f2 + g2) * B
  OBVIOUS
<1>7. ((f1 * B + f2) + (g1 * B + g2)) * B = (f1 * B + g1 * B) * B + (f2 + g2) * B
  OBVIOUS
<1>8. (c * B) * B + m * B = k1 * B + (f2 + g2) * B
  BY <1>5, <1>6
<1> QED
  BY <1>1, <1>2, <1>3, <1>4, <1>7, <1>8

\* The products of the limbs of a and b, high by high first, each as two
\* limbs; and their sums, limb by limb, with the carries c and d.
Columns(a, b, e1, e2, f1, f2, g1, g2, k1, k2, c, m, d, n) ==
  /\ Hi(a) * Hi(b) = e1 * Base + e2 /\ Lo(a) * Hi(b) = f1 * Base + f2
  /\ Hi(a) * Lo(b) = g1 * Base + g2 /\ Lo(a) * Lo(b) = k1 * Base + k2
  /\ k1 + f2 + g2 = c * Base + m
  /\ f1 + g1 + e2 + c = d * Base + n
  /\ m < Base /\ k2 < Base

\* They are the product, and nothing is left over.
LEMMA FourLimbs ==
  ASSUME ExponentLaws, NEW a \in Nat, NEW b \in Nat, a < Word, b < Word,
         NEW e1 \in Nat, NEW e2 \in Nat, NEW f1 \in Nat, NEW f2 \in Nat,
         NEW g1 \in Nat, NEW g2 \in Nat, NEW k1 \in Nat, NEW k2 \in Nat,
         NEW c \in Nat, NEW m \in Nat, NEW d \in Nat, NEW n \in Nat,
         Columns(a, b, e1, e2, f1, f2, g1, g2, k1, k2, c, m, d, n)
  PROVE  /\ ((e1 + d) * Base + n) * Word + (m * Base + k2) = a * b
         /\ (e1 + d) * Base + n < Word /\ m * Base + k2 < Word /\ e1 + d < Base
<1>0. PICK B, W \in Nat \ {0} : B = Base /\ W = Word /\ W = B * B
  BY Sizes
<1>1. PICK ah, al \in Nat : ah = Hi(a) /\ al = Lo(a) /\ a = ah * B + al
  BY <1>0, LimbsOfWord
<1>2. PICK bh, bl \in Nat : bh = Hi(b) /\ bl = Lo(b) /\ b = bh * B + bl
  BY <1>0, LimbsOfWord
<1>3. /\ ah * bh = e1 * B + e2 /\ al * bh = f1 * B + f2 /\ ah * bl = g1 * B + g2 /\ al * bl = k1 * B + k2
      /\ k1 + f2 + g2 = c * B + m /\ f1 + g1 + e2 + c = d * B + n /\ m < B /\ k2 < B
  BY <1>0, <1>1, <1>2 DEF Columns
<1>4. PICK hi, lo \in Nat : hi = (e1 + d) * B + n /\ lo = m * B + k2
  OBVIOUS
<1>5. (ah * B + al) * (bh * B + bl) = (ah * bh) * (B * B) + (al * bh + ah * bl) * B + al * bl
  BY Foil
<1>6. (e1 * B + e2) * (B * B) + ((f1 * B + f2) + (g1 * B + g2)) * B + (k1 * B + k2)
        = hi * (B * B) + lo
  BY <1>3, <1>4, Carried
<1>7. hi * W + lo = a * b
  <2>1. a * b = (ah * B + al) * (bh * B + bl)
    BY <1>1, <1>2
  <2>2. a * b = (e1 * B + e2) * (B * B) + ((f1 * B + f2) + (g1 * B + g2)) * B + (k1 * B + k2)
    BY <1>3, <1>5, <2>1
  <2> QED
    BY <1>0, <1>6, <2>2
<1>8. hi < W
  <2>1. a * b < W * W
    BY <1>0, ProductBound
  <2> QED
    BY <1>7, <2>1, HighBound
<1>9. lo < W
  <2>1. (m + 1) * B <= B * B
    BY <1>3
  <2> QED
    BY <1>0, <1>3, <1>4, <2>1
<1>10. e1 + d < B
  <2>1. PICK h \in Nat : h = e1 + d
    OBVIOUS
  <2>2. h * B + n < B * B
    BY <1>0, <1>4, <1>8, <2>1
  <2> QED
    BY <2>1, <2>2, HighBound
<1> QED
  BY <1>0, <1>4, <1>7, <1>8, <1>9, <1>10

\* What a product of two words is to be.
IsProduct(p, a, b) ==
  \E hi, lo \in Nat : p = <<hi, lo>> /\ hi < Word /\ lo < Word /\ hi * Word + lo = a * b

THEOREM EvmProductIsExact ==
  ASSUME ExponentLaws, NEW a \in Nat, NEW b \in Nat, a < Word, b < Word
  PROVE  IsProduct(EvmProduct(a, b), a, b)
<1>0. PICK B \in Nat \ {0} : B = Base
  BY Sizes
<1>1. PICK ah, al \in Nat : ah = Hi(a) /\ al = Lo(a) /\ ah < B /\ al < B
  BY <1>0, LimbsOfWord
<1>2. PICK bh, bl \in Nat : bh = Hi(b) /\ bl = Lo(b) /\ bh < B /\ bl < B
  BY <1>0, LimbsOfWord
<1>3. PICK e1, e2 \in Nat : /\ e1 = (ah * bh) \div B /\ e2 = (ah * bh) % B /\ e2 < B
                            /\ ah * bh = e1 * B + e2
  <2>1. PICK p \in Nat : p = ah * bh
    OBVIOUS
  <2>2. \E q, r \in Nat : q = p \div B /\ r = p % B /\ r < B /\ p = q * B + r
    BY Divided
  <2> QED
    BY <2>1, <2>2
<1>4. PICK f1, f2 \in Nat : /\ f1 = (al * bh) \div B /\ f2 = (al * bh) % B /\ f2 < B
                            /\ al * bh = f1 * B + f2
  <2>1. PICK p \in Nat : p = al * bh
    OBVIOUS
  <2>2. \E q, r \in Nat : q = p \div B /\ r = p % B /\ r < B /\ p = q * B + r
    BY Divided
  <2> QED
    BY <2>1, <2>2
<1>5. PICK g1, g2 \in Nat : /\ g1 = (ah * bl) \div B /\ g2 = (ah * bl) % B /\ g2 < B
                            /\ ah * bl = g1 * B + g2
  <2>1. PICK p \in Nat : p = ah * bl
    OBVIOUS
  <2>2. \E q, r \in Nat : q = p \div B /\ r = p % B /\ r < B /\ p = q * B + r
    BY Divided
  <2> QED
    BY <2>1, <2>2
<1>6. PICK k1, k2 \in Nat : /\ k1 = (al * bl) \div B /\ k2 = (al * bl) % B /\ k2 < B
                            /\ al * bl = k1 * B + k2
  <2>1. PICK p \in Nat : p = al * bl
    OBVIOUS
  <2>2. \E q, r \in Nat : q = p \div B /\ r = p % B /\ r < B /\ p = q * B + r
    BY Divided
  <2> QED
    BY <2>1, <2>2
<1>7. PICK t1 \in Nat : t1 = k1 + f2
  OBVIOUS
<1>8. PICK x, y \in Nat : x = t1 \div B /\ y = t1 % B /\ y < B /\ t1 = x * B + y
  BY Divided
<1>9. PICK t2 \in Nat : t2 = y + g2
  OBVIOUS
<1>10. PICK z, m \in Nat : z = t2 \div B /\ m = t2 % B /\ m < B /\ t2 = z * B + m
  BY Divided
<1>11. PICK c \in Nat : c = x + z
  OBVIOUS
<1>12. PICK u1 \in Nat : u1 = f1 + g1
  OBVIOUS
<1>13. PICK o1, r1 \in Nat : o1 = u1 \div B /\ r1 = u1 % B /\ r1 < B /\ u1 = o1 * B + r1
  BY Divided
<1>14. PICK u2 \in Nat : u2 = r1 + e2
  OBVIOUS
<1>15. PICK o2, r2 \in Nat : o2 = u2 \div B /\ r2 = u2 % B /\ r2 < B /\ u2 = o2 * B + r2
  BY Divided
<1>16. PICK u3 \in Nat : u3 = r2 + c
  OBVIOUS
<1>17. PICK o3, n \in Nat : o3 = u3 \div B /\ n = u3 % B /\ n < B /\ u3 = o3 * B + n
  BY Divided
<1>18. PICK d \in Nat : d = o1 + o2 + o3
  OBVIOUS
<1>19. EvmProduct(a, b) = <<(e1 + d) * B + n, m * B + k2>>
  BY <1>0, <1>1, <1>2, <1>3, <1>4, <1>5, <1>6, <1>7, <1>8, <1>9, <1>10, <1>11, <1>12, <1>13,
     <1>14, <1>15, <1>16, <1>17, <1>18 DEF EvmProduct
<1>20. k1 + f2 + g2 = c * B + m
  <2>1. (x + z) * B = x * B + z * B
    OBVIOUS
  <2>2. PICK xb, zb \in Nat : xb = x * B /\ zb = z * B
    OBVIOUS
  <2>3. k1 + f2 + g2 = xb + zb + m
    BY <1>7, <1>8, <1>9, <1>10, <2>2
  <2> QED
    BY <1>11, <2>1, <2>2, <2>3
<1>21. f1 + g1 + e2 + c = d * B + n
  <2>1. (o1 + o2 + o3) * B = o1 * B + o2 * B + o3 * B
    BY Spread
  <2>2. PICK x1, x2, x3 \in Nat : x1 = o1 * B /\ x2 = o2 * B /\ x3 = o3 * B
    OBVIOUS
  <2>3. f1 + g1 + e2 + c = x1 + x2 + x3 + n
    BY <1>12, <1>13, <1>14, <1>15, <1>16, <1>17, <2>2
  <2> QED
    BY <1>18, <2>1, <2>2, <2>3
<1>22. Columns(a, b, e1, e2, f1, f2, g1, g2, k1, k2, c, m, d, n)
  BY <1>0, <1>1, <1>2, <1>3, <1>4, <1>5, <1>6, <1>10, <1>20, <1>21 DEF Columns
<1>23. PICK h, hi, lo \in Nat : h = e1 + d /\ hi = h * B + n /\ lo = m * B + k2
  OBVIOUS
<1>24. /\ ((e1 + d) * Base + n) * Word + (m * Base + k2) = a * b
       /\ (e1 + d) * Base + n < Word /\ m * Base + k2 < Word /\ e1 + d < Base
  BY <1>22, FourLimbs
<1>25. hi * Word + lo = a * b /\ hi < Word /\ lo < Word
  BY <1>0, <1>23, <1>24
<1> QED
  BY <1>19, <1>23, <1>25 DEF IsProduct

THEOREM CoreProductIsExact ==
  ASSUME ExponentLaws, NEW a \in Nat, NEW b \in Nat, a < Word, b < Word
  PROVE  IsProduct(CoreProduct(a, b), a, b)
<1>0. PICK B \in Nat \ {0} : B = Base
  BY Sizes
<1>1. PICK ah, al \in Nat : ah = Hi(a) /\ al = Lo(a) /\ ah < Base /\ al < Base
  BY TwoLimbs
<1>2. PICK bh, bl \in Nat : bh = Hi(b) /\ bl = Lo(b) /\ bh < Base /\ bl < Base
  BY TwoLimbs
<1>3. PICK e1, e2 \in Nat : /\ Widening(ah, bh) = <<e1, e2>> /\ e1 < Base /\ e2 < Base
                            /\ e1 * Base + e2 = ah * bh
  BY <1>1, <1>2, WideningIsExact
<1>4. PICK f1, f2 \in Nat : /\ Widening(al, bh) = <<f1, f2>> /\ f1 < Base /\ f2 < Base
                            /\ f1 * Base + f2 = al * bh
  BY <1>1, <1>2, WideningIsExact
<1>5. PICK g1, g2 \in Nat : /\ Widening(ah, bl) = <<g1, g2>> /\ g1 < Base /\ g2 < Base
                            /\ g1 * Base + g2 = ah * bl
  BY <1>1, <1>2, WideningIsExact, ZenonT(60)
<1>6. PICK k1, k2 \in Nat : /\ Widening(al, bl) = <<k1, k2>> /\ k1 < Base /\ k2 < Base
                            /\ k1 * Base + k2 = al * bl
  BY <1>1, <1>2, WideningIsExact, ZenonT(60)
<1>7. PICK p1 \in Nat : p1 = k1 + f2 + g2
  OBVIOUS
<1>8. PICK c, m \in Nat : c = p1 \div B /\ m = p1 % B /\ m < B /\ p1 = c * B + m
  BY Divided
<1>9. PICK p2 \in Nat : p2 = f1 + g1 + e2 + c
  OBVIOUS
<1>10. PICK d, n \in Nat : d = p2 \div B /\ n = p2 % B /\ n < B /\ p2 = d * B + n
  BY Divided
<1>11. CoreProduct(a, b) = <<((e1 + d) % B) * B + n, m * B + k2>>
  <2>1. CoreProduct(a, b) = <<((e1 + p2 \div Base) % Base) * Base + (p2 % Base),
                              (p1 % Base) * Base + k2>>
    BY <1>1, <1>2, <1>3, <1>4, <1>5, <1>6, <1>7, <1>0, <1>8, <1>9 DEF CoreProduct
  <2> QED
    BY <1>0, <1>8, <1>10, <2>1
<1>12. Columns(a, b, e1, e2, f1, f2, g1, g2, k1, k2, c, m, d, n)
  BY <1>0, <1>1, <1>2, <1>3, <1>4, <1>5, <1>6, <1>7, <1>8, <1>9, <1>10 DEF Columns
<1>13. PICK h, hi, lo \in Nat : h = e1 + d /\ hi = h * B + n /\ lo = m * B + k2
  OBVIOUS
<1>14. /\ ((e1 + d) * Base + n) * Word + (m * Base + k2) = a * b
       /\ (e1 + d) * Base + n < Word /\ m * Base + k2 < Word /\ e1 + d < Base
  BY <1>12, FourLimbs
<1>15. hi * Word + lo = a * b /\ hi < Word /\ lo < Word /\ h < B
  BY <1>0, <1>13, <1>14
<1>16. h % B = h
  BY <1>15
<1> QED
  BY <1>11, <1>13, <1>15, <1>16 DEF IsProduct

-----------------------------------------------------------------------------
(***************************************************************************)
(* Shifts, and the difference of two words of two.                         *)
(***************************************************************************)
LEMMA ShlIsExact ==
  ASSUME ExponentLaws, NEW a \in Nat, NEW n \in Nat, n < Bits, a * 2^n < Word
  PROVE  Shl(a, n) = a * 2^n
<1>1. PICK p \in Nat \ {0} : p = 2^n
  <2>1. Bits \in Nat /\ n + 0 <= 2 * Bits
    BY Sizes
  <2>2. 2^n \in Nat \ {0}
    BY <2>1, TwoTo
  <2> QED
    BY <2>2
<1>2. PICK W \in Nat \ {0}, v \in Nat : W = Word /\ v = a * p /\ v < W
  BY <1>1, Sizes
<1>3. v % W = v
  BY <1>2
<1>4. Bits \in Nat /\ ~(n >= Bits)
  BY Sizes
<1> QED
  BY <1>1, <1>2, <1>3, <1>4 DEF Shl

LEMMA WideSubIsExact ==
  ASSUME ExponentLaws, NEW a1 \in Nat, NEW a2 \in Nat, NEW b1 \in Nat, NEW b2 \in Nat,
         a2 < Word, b2 < Word, a1 * Word + a2 >= b1 * Word + b2
  PROVE  Wide(WideSub(<<a1, a2>>, <<b1, b2>>)) = (a1 * Word + a2) - (b1 * Word + b2)
<1>1. PICK W \in Nat \ {0} : W = Word
  BY Sizes
<1>2. CASE a2 < b2
  <2>1. WideSub(<<a1, a2>>, <<b1, b2>>) = <<a1 - b1 - 1, (W - 1 - b2) + a2 + 1>>
    BY <1>1, <1>2 DEF WideSub
  <2>2. (a1 - b1 - 1) * W = a1 * W - b1 * W - W
    OBVIOUS
  <2> QED
    BY <1>1, <2>1, <2>2 DEF Wide
<1>3. CASE a2 >= b2
  <2>1. WideSub(<<a1, a2>>, <<b1, b2>>) = <<a1 - b1 - 0, a2 - b2>>
    BY <1>1, <1>3 DEF WideSub
  <2>2. (a1 - b1 - 0) * W = a1 * W - b1 * W
    OBVIOUS
  <2> QED
    BY <1>1, <2>1, <2>2 DEF Wide
<1> QED
  BY <1>2, <1>3

LEMMA ShiftedIsExact ==
  ASSUME ExponentLaws, NEW d \in Nat, d < Word, NEW n \in Nat, n < 2 * Bits, d * 2^n < Word * Word
  PROVE  \E hi, lo \in Nat : Shifted(d, n) = <<hi, lo>> /\ lo < Word /\ hi * Word + lo = d * 2^n
<1>0. PICK W \in Nat \ {0}, b \in Nat \ {0} : W = Word /\ b = Bits /\ W = 2^b
  BY Sizes DEF Word
<1>1. CASE n >= b
  <2>1. PICK k \in Nat : k = n - b /\ n = b + k /\ k < b
    BY <1>0, <1>1
  <2>2. b + k <= 2 * Bits
    BY <1>0, <2>1
  <2>3. 2^k \in Nat \ {0} /\ 2^(b + k) = 2^b * 2^k
    BY <2>2, TwoTo
  <2>4. PICK p, v \in Nat : p = 2^k /\ v = d * p
    BY <2>3
  <2>5. d * 2^n = v * W
    BY <1>0, <2>1, <2>3, <2>4
  <2>6. v < W
    <3>1. v * W + 0 < W * W
      BY <1>0, <2>5
    <3> QED
      BY <3>1, HighBound
  <2>7. Shl(d, k) = v
    BY <1>0, <2>1, <2>4, <2>6, ShlIsExact
  <2>8. Shifted(d, n) = <<v, 0>>
    BY <1>0, <1>1, <2>1, <2>7 DEF Shifted
  <2> QED
    BY <1>0, <2>5, <2>8
<1>2. CASE n = 0
  <2>1. d * 2^n = d
    BY <1>2, TwoTo
  <2>2. Shl(d, n) = d
    <3>1. n < Bits /\ d * 2^n < Word
      BY <1>0, <1>2, <2>1
    <3>2. Shl(d, n) = d * 2^n
      BY <3>1, ShlIsExact
    <3> QED
      BY <2>1, <3>2
  <2>3. Shr(d, b - 0) = 0
    BY <1>0 DEF Shr
  <2>4. Shifted(d, n) = <<Shr(d, b - 0), Shl(d, n)>>
    BY <1>0, <1>2 DEF Shifted
  <2> QED
    BY <1>0, <1>2, <2>1, <2>2, <2>3, <2>4
<1>3. CASE n < b /\ n > 0
  <2>1. PICK k \in Nat : k = b - n /\ b = k + n /\ k < b /\ k > 0
    BY <1>3
  <2>2. k + n <= 2 * Bits
    BY <1>0, <2>1
  <2>3. 2^k \in Nat \ {0} /\ 2^n \in Nat \ {0} /\ 2^(k + n) = 2^k * 2^n
    BY <2>2, TwoTo
  <2>4. PICK p, s \in Nat \ {0} : p = 2^n /\ s = 2^k /\ W = s * p
    BY <1>0, <2>1, <2>3
  <2>5. PICK q, r \in Nat : q = d \div s /\ r = d % s /\ r < s /\ d = q * s + r
    BY Divided
  <2>6. PICK u \in Nat : u = r * p
    OBVIOUS
  <2>7. d * p = q * W + u
    <3>1. (q * s + r) * p = q * (s * p) + r * p
      OBVIOUS
    <3> QED
      BY <2>4, <2>5, <2>6, <3>1
  <2>8. u < W
    <3>1. r * p < s * p
      BY <2>5
    <3> QED
      BY <2>4, <2>6, <3>1
  <2>9. (d * p) % W = u
    <3>1. PICK v \in Nat : v = d * p
      OBVIOUS
    <3>2. v = q * W + u
      BY <2>7, <3>1
    <3>3. v % W = u
      BY <2>8, <3>2, DivIs
    <3> QED
      BY <3>1, <3>3
  <2>10. Shl(d, n) = u
    BY <1>0, <1>3, <2>4, <2>9 DEF Shl
  <2>11. Shr(d, b - n) = q
    BY <1>0, <2>1, <2>4, <2>5 DEF Shr
  <2>12. Shifted(d, n) = <<q, u>>
    <3>1. Shifted(d, n) = <<Shr(d, b - n), Shl(d, n)>>
      BY <1>0, <1>3 DEF Shifted
    <3> QED
      BY <2>10, <2>11, <3>1
  <2> QED
    BY <1>0, <2>4, <2>7, <2>8, <2>12
<1> QED
  BY <1>1, <1>2, <1>3

-----------------------------------------------------------------------------
(***************************************************************************)
(* Leading zeros.                                                          *)
(***************************************************************************)
LEMMA LeastOf ==
  ASSUME NEW T, T \subseteq Nat, T # {}
  PROVE  \E x \in T : \A y \in T : x <= y
<1>1. PICK x \in T : \A y \in T : <<y, x>> \notin OpToRel(<, Nat)
  BY NatLessThanWellFounded, WFMin, Zenon
<1>2. \A y \in T : ~(y < x)
  BY <1>1, Zenon DEF OpToRel
<1> QED
  BY <1>2

LEMMA LeastPower ==
  ASSUME ExponentLaws, NEW a \in Nat, a < Word
  PROVE  \E k \in Nat : k <= Bits /\ a < 2^k /\ (k > 0 => a >= 2^(k - 1))
<1>0. PICK b \in Nat : b = Bits /\ Word = 2^b
  BY Sizes DEF Word
<1>1. PICK S \in SUBSET Nat : S = { k \in Nat : k <= b /\ a < 2^k }
  OBVIOUS
<1>2. b \in S
  BY <1>0, <1>1
<1>3. PICK k \in S : \A j \in S : k <= j
  BY <1>2, LeastOf
<1>4. k \in Nat /\ k <= b /\ a < 2^k
  BY <1>1
<1>5. k > 0 => a >= 2^(k - 1)
  <2> SUFFICES ASSUME k > 0, ~(a >= 2^(k - 1)) PROVE FALSE
    OBVIOUS
  <2>1. k - 1 \in Nat /\ k - 1 < k /\ k - 1 <= b /\ (k - 1) + 0 <= 2 * Bits
    BY <1>0, <1>4
  <2>2. 2^(k - 1) \in Nat
    BY <2>1, TwoTo
  <2>3. k - 1 \in S
    BY <1>1, <2>1, <2>2
  <2> QED
    BY <1>3, <1>4, <2>1, <2>3
<1> QED
  BY <1>0, <1>4, <1>5

LEMMA LeadingZerosOf ==
  ASSUME ExponentLaws, NEW a \in Nat, a < Word, a > 0
  PROVE  \E n \in Nat : /\ n = LeadingZeros(a) /\ n < Bits
                        /\ a < 2^(Bits - n) /\ a >= 2^(Bits - n - 1)
<1>0. PICK b \in Nat : b = Bits
  BY Sizes
<1>1. PICK k \in Nat : k <= Bits /\ a < 2^k /\ (k > 0 => a >= 2^(k - 1))
  BY LeastPower
<1>2. PICK n \in 0..b : n = b - k /\ b - n = k
  BY <1>0, <1>1
<1>3. \E m \in 0..Bits : a < 2^(Bits - m) /\ (m < Bits => a >= 2^(Bits - m - 1))
  BY <1>0, <1>1, <1>2
<1>4. PICK m : m = LeadingZeros(a)
  OBVIOUS
<1>5. m \in 0..Bits /\ a < 2^(Bits - m) /\ (m < Bits => a >= 2^(Bits - m - 1))
  BY <1>3, <1>4 DEF LeadingZeros
<1>6. m # Bits
  <2> SUFFICES ASSUME m = Bits PROVE FALSE
    OBVIOUS
  <2>1. Bits - m = 0
    BY <1>0
  <2> QED
    BY <1>5, <2>1, TwoTo
<1> QED
  BY <1>0, <1>4, <1>5, <1>6

-----------------------------------------------------------------------------
(***************************************************************************)
(* The first bit of a division, and a step of it.                          *)
(***************************************************************************)
LEMMA TwoNext ==
  ASSUME ExponentLaws, NEW n \in Nat
  PROVE  2^n \in Nat \ {0} /\ 2^(n + 1) = 2^n * 2
<1>1. PICK one \in Nat : one = 1
  OBVIOUS
<1>2. 2^n \in Nat \ {0} /\ 2^(n + one) = 2^n * 2^one /\ 2^1 = 2
  BY TwoTo
<1> QED
  BY <1>1, <1>2

LEMMA TwoGrows ==
  ASSUME ExponentLaws, NEW m \in Nat, NEW n \in Nat, m <= n
  PROVE  2^m <= 2^n
<1>1. PICK k \in Nat : n = m + k
  <2>1. n - m \in Nat /\ n = m + (n - m)
    OBVIOUS
  <2> QED
    BY <2>1
<1>2. PICK p, q \in Nat \ {0} : p = 2^m /\ q = 2^k /\ 2^(m + k) = p * q
  BY TwoTo
<1>3. p <= p * q
  BY <1>2
<1> QED
  BY <1>1, <1>2, <1>3

\* The divisor d, shifted to the highest bit of n * 2^t, is within it; shifted
\* once more it is beyond.
LEMMA StartBit ==
  ASSUME ExponentLaws, NEW d \in Nat, NEW n \in Nat, d > 0, n > 0, d < Word, n < Word,
         NEW t \in Nat, NEW k \in Nat, k + LeadingZeros(n) = LeadingZeros(d) + t
  PROVE  d * 2^k < Word * 2^t /\ (n + 1) * 2^t <= d * 2^(k + 1)
<1>0. PICK b \in Nat : b = Bits /\ Word = 2^b
  BY Sizes DEF Word
<1>1. PICK u \in Nat : u = LeadingZeros(d) /\ u < b /\ d < 2^(b - u) /\ d >= 2^(b - u - 1)
  BY <1>0, LeadingZerosOf
<1>2. PICK v \in Nat : v = LeadingZeros(n) /\ v < b /\ n < 2^(b - v)
  BY <1>0, LeadingZerosOf
<1>3. PICK e, f \in Nat : e = b - u - 1 /\ e + 1 = b - u /\ f = b - v /\ f + v = b
  <2>1. b - u - 1 \in Nat /\ b - v \in Nat
    BY <1>1, <1>2
  <2> QED
    BY <2>1
<1>4. k + (e + 1) = f + t /\ e + (k + 1) = f + t
  BY <1>1, <1>2, <1>3
<1>5. PICK pk, pe, pf, pt \in Nat \ {0} : pk = 2^k /\ pe = 2^e /\ pf = 2^f /\ pt = 2^t
  BY TwoTo
<1>6. 2^(e + 1) = pe * 2 /\ 2^(k + 1) = pk * 2
  BY <1>5, TwoNext
<1>7. d < pe * 2 /\ d >= pe /\ n < pf
  BY <1>1, <1>2, <1>3, <1>5, <1>6
<1>8. pk * (pe * 2) = pf * pt
  <2>1. 2^(k + (e + 1)) = 2^k * 2^(e + 1) /\ 2^(f + t) = 2^f * 2^t
    BY TwoTo
  <2> QED
    BY <1>4, <1>5, <1>6, <2>1
<1>9. d * pk < Word * pt
  <2>1. d * pk < (pe * 2) * pk
    BY <1>7
  <2>2. (pe * 2) * pk = pk * (pe * 2)
    OBVIOUS
  <2>3. pf <= Word
    BY <1>0, <1>3, <1>5, TwoGrows
  <2>4. PICK W \in Nat : W = Word
    BY Sizes
  <2>5. pf * pt <= W * pt
    BY <2>3, <2>4
  <2> QED
    BY <1>8, <2>1, <2>2, <2>4, <2>5
<1>10. (n + 1) * pt <= d * (pk * 2)
  <2>1. (n + 1) * pt <= pf * pt
    BY <1>7
  <2>2. pe * (pk * 2) <= d * (pk * 2)
    BY <1>7
  <2>3. pe * (pk * 2) = pk * (pe * 2)
    OBVIOUS
  <2> QED
    BY <1>8, <2>1, <2>2, <2>3
<1> QED
  BY <1>5, <1>6, <1>9, <1>10

\* A divisor has as many leading zeros as what it divides, or more.
LEMMA ZerosShrink ==
  ASSUME ExponentLaws, NEW d \in Nat, NEW n \in Nat, d > 0, d <= n, n < Word
  PROVE  \E k \in Nat : k = LeadingZeros(d) - LeadingZeros(n) /\ k < Bits
<1>0. PICK b \in Nat : b = Bits
  BY Sizes
<1>00. d < Word /\ n > 0
  BY Sizes
<1>1. PICK u \in Nat : u = LeadingZeros(d) /\ u < b /\ d < 2^(b - u) /\ d >= 2^(b - u - 1)
  BY <1>0, <1>00, LeadingZerosOf
<1>2. PICK v \in Nat : v = LeadingZeros(n) /\ v < b /\ n < 2^(b - v)
  BY <1>0, <1>00, LeadingZerosOf
<1>3. v <= u
  <2> SUFFICES ASSUME v > u PROVE FALSE
    BY <1>1, <1>2
  <2>1. PICK e, f \in Nat : e = b - u - 1 /\ f = b - v /\ f <= e
    <3>1. b - u - 1 \in Nat /\ b - v \in Nat /\ b - v <= b - u - 1
      BY <1>1, <1>2
    <3> QED
      BY <3>1
  <2>2. PICK pe, pf \in Nat : pe = 2^e /\ pf = 2^f
    BY TwoTo
  <2>3. pf <= pe
    BY <2>1, <2>2, TwoGrows
  <2>4. d >= pe /\ n < pf
    BY <1>1, <1>2, <2>1, <2>2
  <2> QED
    BY <2>3, <2>4
<1>4. u - v \in Nat /\ u - v < b
  BY <1>1, <1>2, <1>3
<1> QED
  BY <1>0, <1>1, <1>2, <1>4

\* One bit of the quotient.
LEMMA BitTracks ==
  ASSUME NEW n \in Nat, NEW d \in Nat, NEW q \in Nat, NEW r \in Nat, NEW p \in Nat, NEW s \in Nat,
         s = d * p, n = q * d + r, r >= s, r < s + s
  PROVE  r - s \in Nat /\ r - s < s /\ n = (q + p) * d + (r - s)
<1>1. (q + p) * d = q * d + s
  OBVIOUS
<1>2. PICK qd \in Nat : qd = q * d
  OBVIOUS
<1> QED
  BY <1>1, <1>2

-----------------------------------------------------------------------------
(***************************************************************************)
(* Powers.                                                                 *)
(***************************************************************************)
LEMMA PowerIs ==
  ASSUME ExponentLaws, NEW b \in Nat, NEW e \in Nat
  PROVE  /\ Power(b, e) \in Nat /\ (b > 0 => Power(b, e) > 0)
         /\ Power(b, 0) = 1 /\ Power(b, 1) = b
         /\ Power(b, e + 1) = b * Power(b, e)
<1>1. e > 0 => b^e \in Nat
  BY DEF ExponentLaws
<1>2. b > 0 => b^e # 0
  BY DEF ExponentLaws
<1>3. b^1 = b
  BY DEF ExponentLaws
<1>4. e > 0 => b^(e + 1) = b^e * b
  <2>1. PICK one \in Nat : one = 1 /\ one > 0
    OBVIOUS
  <2>2. \A n \in Nat : e > 0 /\ n > 0 => b^(e + n) = b^e * b^n
    BY DEF ExponentLaws
  <2> QED
    BY <1>3, <2>1, <2>2
<1>5. e > 0 => Power(b, e) = b^e
  BY DEF Power
<1>6. e + 1 > 0 /\ Power(b, e + 1) = b^(e + 1)
  BY DEF Power
<1>7. Power(b, 0) = 1 /\ Power(b, 1) = b
  BY <1>3 DEF Power
<1>8. CASE e = 0
  <2>1. Power(b, e) = 1 /\ e + 1 = 1
    BY <1>7, <1>8
  <2> QED
    BY <1>7, <2>1
<1>9. CASE e > 0
  <2>1. PICK p \in Nat : p = b^e
    BY <1>1, <1>9
  <2>2. p * b = b * p
    OBVIOUS
  <2> QED
    BY <1>2, <1>4, <1>5, <1>6, <1>7, <1>9, <2>1, <2>2
<1> QED
  BY <1>8, <1>9

LEMMA PowerAdds ==
  ASSUME ExponentLaws, NEW b \in Nat, NEW m \in Nat, NEW n \in Nat
  PROVE  Power(b, m + n) = Power(b, m) * Power(b, n)
<1>1. Power(b, m) \in Nat /\ Power(b, n) \in Nat /\ Power(b, 0) = 1
  BY PowerIs
<1>2. CASE m = 0
  <2>1. m + n = n /\ Power(b, m) = 1
    BY <1>1, <1>2
  <2> QED
    BY <1>1, <2>1
<1>3. CASE n = 0
  <2>1. m + n = m /\ Power(b, n) = 1
    BY <1>1, <1>3
  <2> QED
    BY <1>1, <2>1
<1>4. CASE m > 0 /\ n > 0
  <2>1. b^(m + n) = b^m * b^n
    BY <1>4 DEF ExponentLaws
  <2>2. m + n > 0
    BY <1>4
  <2> QED
    BY <1>4, <2>1, <2>2 DEF Power
<1> QED
  BY <1>2, <1>3, <1>4

\* Squaring the base halves the exponent: the least exponent for which it did
\* not would be another's successor.
LEMMA PowerOfSquare ==
  ASSUME ExponentLaws, NEW b \in Nat, NEW q \in Nat
  PROVE  Power(b * b, q) = Power(b, q + q)
<1>1. PICK T \in SUBSET Nat : T = { k \in Nat : Power(b * b, k) # Power(b, k + k) }
  OBVIOUS
<1>2. SUFFICES T = {}
  BY <1>1
<1>3. SUFFICES ASSUME T # {} PROVE FALSE
  OBVIOUS
<1>4. PICK k \in T : \A j \in T : k <= j
  BY <1>3, LeastOf
<1>5. k \in Nat /\ Power(b * b, k) # Power(b, k + k)
  BY <1>1, <1>4
<1>6. k # 0
  <2> SUFFICES ASSUME k = 0 PROVE FALSE
    OBVIOUS
  <2>1. b * b \in Nat /\ k + k = 0
    OBVIOUS
  <2>2. Power(b * b, 0) = 1 /\ Power(b, 0) = 1
    BY <2>1, PowerIs
  <2> QED
    BY <1>5, <2>1, <2>2
<1>7. PICK j \in Nat : k = j + 1 /\ j < k
  <2>1. k - 1 \in Nat /\ k = (k - 1) + 1 /\ k - 1 < k
    BY <1>5, <1>6
  <2> QED
    BY <2>1
<1>8. Power(b * b, j) = Power(b, j + j)
  BY <1>1, <1>4, <1>7
<1>9. PICK s, e, p \in Nat : s = b * b /\ e = j + j /\ p = Power(b, e)
  <2>1. PICK s, e \in Nat : s = b * b /\ e = j + j
    OBVIOUS
  <2>2. Power(b, e) \in Nat
    BY PowerIs
  <2> QED
    BY <2>1, <2>2
<1>10. Power(s, j + 1) = s * p
  BY <1>8, <1>9, PowerIs
<1>11. Power(b, (e + 1) + 1) = b * (b * p)
  BY <1>9, PowerIs
<1>12. k + k = (e + 1) + 1
  BY <1>7, <1>9
<1>13. b * (b * p) = s * p
  BY <1>9
<1> QED
  BY <1>5, <1>7, <1>9, <1>10, <1>11, <1>12, <1>13

-----------------------------------------------------------------------------
(***************************************************************************)
(* What is documented of a call, and what needs no loop.                   *)
(***************************************************************************)
LEMMA CallIs ==
  ASSUME ExponentLaws, NEW c \in Calls
  PROVE  /\ c.x \in Nat /\ c.x < Word /\ c.y \in Nat /\ c.y < Word /\ c.z \in Nat /\ c.z < Word
         /\ c.backend \in {"core", "evm", "lean"} /\ c.op \in Ops(c.backend)
<1>1. PICK W \in Nat : W = Word /\ W = 2^(2 * Limb)
  BY Sizes DEF Word, Bits
<1>2. {c.x, c.y, c.z} \subseteq 0..(W - 1)
  BY <1>1, StdMathAssumption
<1>3. c.x \in 0..(W - 1) /\ c.y \in 0..(W - 1) /\ c.z \in 0..(W - 1)
  BY <1>2
<1>4. c.backend \in {"core", "evm", "lean"} /\ c.op \in Ops(c.backend)
  BY StdMathAssumption
<1> QED
  BY <1>1, <1>3, <1>4

\* What a result may be.
Good(c, r) ==
  \/ r = Documented(c)
  \/ Refuses(c) /\ r = Panic
  \/ ZeroFirst(c) /\ r = 0
  \/ Wraps(c) /\ r \in 0..(Word - 1)

LEMMA DocumentedIs ==
  ASSUME ExponentLaws, NEW c, NEW v \in Nat, ~ByZero(c), Exact(c) = v
  PROVE  Documented(c) = IF v < Word THEN v ELSE Panic
<1>1. PICK W \in Nat : W = Word
  BY Sizes
<1>2. v \in 0..(W - 1) <=> v < W
  BY <1>1
<1> QED
  BY <1>1, <1>2 DEF Documented

LEMMA GoodExact ==
  ASSUME ExponentLaws, NEW c, NEW v \in Nat, ~ByZero(c), Exact(c) = v
  PROVE  Good(c, IF v < Word THEN v ELSE Panic)
BY DocumentedIs DEF Good

LEMMA GoodByZero ==
  ASSUME NEW c, ByZero(c)
  PROVE  Good(c, Panic)
BY DEF Good, Documented

\* The quotient rounded up, and to the nearest, is one number.
LEMMA CeilingIsOne ==
  ASSUME NEW x \in Nat, NEW y \in Nat, NEW p \in Nat, NEW q \in Nat,
         (p - 1) * y < x, x <= p * y, (q - 1) * y < x, x <= q * y
  PROVE  p = q
<1>1. ASSUME NEW m \in Nat, NEW n \in Nat, m < n, (n - 1) * y < x, x <= m * y PROVE FALSE
  <2>1. PICK k \in Nat : k = n - 1 /\ m <= k
    BY <1>1
  <2>2. m * y <= k * y
    BY <2>1
  <2> QED
    BY <1>1, <2>1, <2>2
<1> QED
  BY <1>1

LEMMA NearestIsOne ==
  ASSUME NEW x \in Nat, NEW y \in Nat, NEW p \in Nat, NEW q \in Nat,
         (2 * p - 1) * y <= 2 * x, 2 * x < (2 * p + 1) * y,
         (2 * q - 1) * y <= 2 * x, 2 * x < (2 * q + 1) * y
  PROVE  p = q
<1>1. ASSUME NEW m \in Nat, NEW n \in Nat, m < n, (2 * n - 1) * y <= 2 * x, 2 * x < (2 * m + 1) * y
      PROVE  FALSE
  <2>1. PICK k, l \in Nat : k = 2 * n - 1 /\ l = 2 * m + 1 /\ l <= k
    BY <1>1
  <2>2. l * y <= k * y
    BY <2>1
  <2> QED
    BY <1>1, <2>1, <2>2
<1> QED
  BY <1>1

LEMMA ExactCeiling ==
  ASSUME ExponentLaws, NEW c, c.op = "divc", c.x \in Nat, c.x < Word, c.y \in Nat, c.y > 0,
         NEW q \in Nat, q <= c.x, (q - 1) * c.y < c.x, c.x <= q * c.y
  PROVE  ~ByZero(c) /\ Exact(c) = q
<1>1. PICK x, y, W \in Nat : x = c.x /\ y = c.y /\ W = Word
  BY Sizes
<1>2. q \in 0..W /\ (q - 1) * y < x /\ x <= q * y
  BY <1>1
<1>3. PICK p : p = CHOOSE k \in 0..W : (k - 1) * y < x /\ x <= k * y
  OBVIOUS
<1>4. p \in 0..W /\ (p - 1) * y < x /\ x <= p * y
  BY <1>2, <1>3
<1>5. p = q
  BY <1>2, <1>4, CeilingIsOne
<1>6. Exact(c) = p
  BY <1>1, <1>3 DEF Exact
<1> QED
  BY <1>5, <1>6 DEF ByZero

LEMMA ExactNearest ==
  ASSUME ExponentLaws, NEW c, c.op = "divr", c.x \in Nat, c.x < Word, c.y \in Nat, c.y > 0,
         NEW q \in Nat, q <= Word, (2 * q - 1) * c.y <= 2 * c.x, 2 * c.x < (2 * q + 1) * c.y
  PROVE  ~ByZero(c) /\ Exact(c) = q
<1>1. PICK x, y, W \in Nat : x = c.x /\ y = c.y /\ W = Word
  BY Sizes
<1>2. q \in 0..W /\ (2 * q - 1) * y <= 2 * x /\ 2 * x < (2 * q + 1) * y
  BY <1>1
<1>3. PICK p : p = CHOOSE k \in 0..W : (2 * k - 1) * y <= 2 * x /\ 2 * x < (2 * k + 1) * y
  OBVIOUS
<1>4. p \in 0..W /\ (2 * p - 1) * y <= 2 * x /\ 2 * x < (2 * p + 1) * y
  BY <1>2, <1>3
<1>5. p = q
  BY <1>2, <1>4, NearestIsOne
<1>6. Exact(c) = p
  BY <1>1, <1>3 DEF Exact
<1> QED
  BY <1>5, <1>6 DEF ByZero

\* Rounding up: one more than the quotient of x - 1, or the quotient of
\* x + y - 1.
LEMMA CeilingOfLess ==
  ASSUME NEW x \in Nat, x > 0, NEW y \in Nat \ {0}
  PROVE  \E k, q \in Nat : /\ k = (x - 1) \div y /\ q = k + 1 /\ q <= x
                           /\ (q - 1) * y < x /\ x <= q * y
<1>1. PICK m \in Nat : m = x - 1
  OBVIOUS
<1>2. PICK k, r \in Nat : k = m \div y /\ r < y /\ m = k * y + r
  BY Divided
<1>3. PICK q \in Nat : q = k + 1 /\ q - 1 = k
  OBVIOUS
<1>4. q * y = k * y + y
  BY <1>3
<1>5. k <= k * y
  OBVIOUS
<1>6. PICK ky \in Nat : ky = k * y
  OBVIOUS
<1>7. ky < x /\ x <= ky + y /\ q <= x
  BY <1>1, <1>2, <1>3, <1>5, <1>6
<1> QED
  BY <1>1, <1>2, <1>3, <1>4, <1>6, <1>7

LEMMA CeilingOfMore ==
  ASSUME NEW x \in Nat, NEW y \in Nat \ {0}
  PROVE  \E q \in Nat : q = (x + y - 1) \div y /\ q <= x /\ (q - 1) * y < x /\ x <= q * y
<1>1. PICK m \in Nat : m = x + y - 1
  OBVIOUS
<1>2. PICK q, r \in Nat : q = m \div y /\ r < y /\ m = q * y + r
  BY Divided
<1>3. (q - 1) * y = q * y - y
  OBVIOUS
<1>4. PICK qy \in Nat : qy = q * y
  OBVIOUS
<1>5. qy - y < x /\ x <= qy
  BY <1>1, <1>2, <1>4
<1>6. q <= x
  <2> SUFFICES ASSUME q > x PROVE FALSE
    OBVIOUS
  <2>1. PICK p \in Nat : p = q - 1 /\ x <= p
    OBVIOUS
  <2>2. p <= p * y
    OBVIOUS
  <2>3. p * y < x
    BY <1>3, <1>4, <1>5, <2>1
  <2> QED
    BY <2>1, <2>2, <2>3
<1> QED
  BY <1>1, <1>2, <1>3, <1>4, <1>5, <1>6

\* Rounding to the nearest, a half up: by the remainder, or by adding half the
\* divisor.
LEMMA NearestByRemainder ==
  ASSUME NEW x \in Nat, NEW y \in Nat \ {0}
  PROVE  \E k, q \in Nat : /\ k = x \div y /\ q = (IF x % y >= y - y \div 2 THEN k + 1 ELSE k)
                           /\ q <= x /\ (2 * q - 1) * y <= 2 * x /\ 2 * x < (2 * q + 1) * y
<1>1. PICK k, r \in Nat : k = x \div y /\ r = x % y /\ r < y /\ x = k * y + r
  BY Divided
<1>2. PICK h \in Nat : h = y \div 2 /\ (y = 2 * h \/ y = 2 * h + 1)
  OBVIOUS
<1>3. PICK ky \in Nat : ky = k * y
  OBVIOUS
<1>4. k <= ky
  BY <1>3
<1>5. CASE r >= y - h
  <2>1. PICK q \in Nat : q = k + 1
    OBVIOUS
  <2>2. 2 * q - 1 = 2 * k + 1 /\ 2 * q + 1 = 2 * k + 3
    BY <2>1
  <2>3. (2 * k + 1) * y = 2 * ky + y /\ (2 * k + 3) * y = 2 * ky + 3 * y
    BY <1>3
  <2>4. y <= 2 * r /\ q <= x
    BY <1>1, <1>2, <1>3, <1>4, <1>5, <2>1
  <2>5. 2 * ky + y <= 2 * x /\ 2 * x < 2 * ky + 3 * y
    BY <1>1, <1>3, <2>4
  <2> QED
    BY <1>1, <1>2, <1>5, <2>1, <2>2, <2>3, <2>4, <2>5
<1>6. CASE r < y - h
  <2>1. (2 * k - 1) * y = 2 * ky - y /\ (2 * k + 1) * y = 2 * ky + y
    BY <1>3
  <2>2. 2 * r < y /\ k <= x
    BY <1>1, <1>2, <1>3, <1>4, <1>6
  <2>3. 2 * ky - y <= 2 * x /\ 2 * x < 2 * ky + y
    BY <1>1, <1>3, <2>2
  <2> QED
    BY <1>1, <1>2, <1>6, <2>1, <2>2, <2>3
<1> QED
  BY <1>1, <1>2, <1>5, <1>6

LEMMA NearestByHalf ==
  ASSUME NEW x \in Nat, NEW y \in Nat \ {0}
  PROVE  \E q \in Nat : /\ q = (x + y \div 2) \div y /\ q <= x
                        /\ (2 * q - 1) * y <= 2 * x /\ 2 * x < (2 * q + 1) * y
<1>1. PICK h \in Nat : h = y \div 2 /\ (y = 2 * h \/ y = 2 * h + 1)
  OBVIOUS
<1>2. PICK m \in Nat : m = x + h
  OBVIOUS
<1>3. PICK q, r \in Nat : q = m \div y /\ r < y /\ m = q * y + r
  BY Divided
<1>4. PICK qy \in Nat : qy = q * y
  OBVIOUS
<1>5. (2 * q - 1) * y = 2 * qy - y /\ (2 * q + 1) * y = 2 * qy + y
  BY <1>4
<1>6. 2 * qy - y <= 2 * x /\ 2 * x < 2 * qy + y
  BY <1>1, <1>2, <1>3, <1>4
<1>7. q <= x
  <2> SUFFICES ASSUME q > x PROVE FALSE
    OBVIOUS
  <2>1. PICK p \in Nat : q = p + 1 /\ x <= p
    <3>1. q - 1 \in Nat /\ q = (q - 1) + 1
      OBVIOUS
    <3> QED
      BY <3>1
  <2>2. qy = p * y + y /\ p <= p * y
    BY <1>4, <2>1
  <2>3. PICK py \in Nat : py = p * y
    OBVIOUS
  <2>4. x + h >= py + y /\ h < y
    BY <1>1, <1>2, <1>3, <1>4, <2>2, <2>3
  <2> QED
    BY <2>1, <2>2, <2>3, <2>4
<1> QED
  BY <1>1, <1>2, <1>3, <1>5, <1>6, <1>7

LEMMA ModPower ==
  ASSUME ExponentLaws, NEW x \in Nat, x < Word, NEW n \in Nat
  PROVE  /\ 2^n \in Nat \ {0} /\ x % 2^n \in Nat /\ x % 2^n < Word
         /\ n >= Bits => x % 2^n = x
         /\ n < Bits => Shl(1, n) = 2^n
         /\ n >= Bits => Shl(1, n) = 0
<1>1. PICK W, b \in Nat : W = Word /\ b = Bits /\ W = 2^b
  BY Sizes DEF Word
<1>2. PICK p \in Nat \ {0} : p = 2^n
  BY TwoTo
<1>3. x % p \in Nat /\ x % p <= x
  <2>1. PICK q, r \in Nat : q = x \div p /\ r = x % p /\ r < p /\ x = q * p + r
    BY Divided
  <2>2. q * p \in Nat
    OBVIOUS
  <2> QED
    BY <2>1, <2>2
<1>4. n >= b => W <= p
  BY <1>1, <1>2, TwoGrows
<1>5. n >= b => x % p = x
  BY <1>1, <1>4
<1>6. ASSUME n < b PROVE Shl(1, n) = p
  <2>1. p * 2 <= W
    <3>1. PICK m \in Nat : m = n + 1 /\ m <= b
      BY <1>6
    <3>2. 2^m <= W /\ 2^(n + 1) = p * 2
      BY <1>1, <1>2, <3>1, TwoGrows, TwoNext
    <3> QED
      BY <3>1, <3>2
  <2>2. 1 * p = p /\ p < W
    BY <2>1
  <2>3. 1 \in Nat /\ n < Bits /\ 1 * 2^n < Word
    BY <1>1, <1>2, <1>6, <2>2
  <2>4. Shl(1, n) = 1 * 2^n
    BY <2>3, ShlIsExact
  <2> QED
    BY <1>2, <2>2, <2>4
<1>7. n >= b => Shl(1, n) = 0
  BY <1>1 DEF Shl
<1> QED
  BY <1>1, <1>2, <1>3, <1>5, <1>6, <1>7

LEMMA WrapIs ==
  ASSUME ExponentLaws, NEW v \in Nat
  PROVE  v < Word => Wrap(v) = v
BY Sizes DEF Wrap

\* What wraps is a word, and so is its quotient.
LEMMA WrappedIsWord ==
  ASSUME ExponentLaws, NEW v \in Nat, NEW z \in Nat \ {0}
  PROVE  Wrap(v) \in 0..(Word - 1) /\ Wrap(v) \div z \in 0..(Word - 1)
<1>1. PICK w, W \in Nat : w = Wrap(v) /\ W = Word /\ W > 0 /\ w < W
  BY Sizes DEF Wrap
<1>2. PICK q, r \in Nat : q = w \div z /\ r = w % z /\ r < z /\ w = q * z + r
  BY Divided
<1>3. q <= q * z
  OBVIOUS
<1>4. PICK p \in Nat : p = q * z
  OBVIOUS
<1>5. q < W
  BY <1>1, <1>2, <1>3, <1>4
<1>6. w \in 0..(W - 1) /\ q \in 0..(W - 1)
  BY <1>1, <1>5
<1> QED
  BY <1>1, <1>2, <1>6

LEMMA CoreIsGood ==
  ASSUME ExponentLaws, NEW c \in Calls, c.op \notin Looped, c.backend = "core"
  PROVE  Good(c, Core(c))
<1>1. PICK x, y, z, W \in Nat : x = c.x /\ y = c.y /\ z = c.z /\ W = Word /\ x < W /\ y < W /\ z < W
  BY CallIs, Sizes
<1>2. c.op \in {"add", "sub", "mul", "divc", "divr", "modpow2", "narrow"}
  BY CallIs DEF Ops, Looped
<1>3. CASE c.op = "add"
  <2>1. Core(c) = Add(x, y)
    BY <1>1, <1>3 DEF Core
  <2>2. Add(x, y) = IF x + y < W THEN x + y ELSE Panic
    BY <1>1, AddIsExact
  <2>3. ~ByZero(c) /\ Exact(c) = x + y
    BY <1>1, <1>3 DEF ByZero, Exact
  <2> QED
    BY <1>1, <2>1, <2>2, <2>3, GoodExact
<1>4. CASE c.op = "sub"
  <2>1. Core(c) = Sub(x, y)
    BY <1>1, <1>4 DEF Core
  <2>2. Sub(x, y) = IF x >= y THEN x - y ELSE Panic
    BY <1>1, SubIsExact
  <2>3. ~ByZero(c) /\ Exact(c) = x - y
    BY <1>1, <1>4 DEF ByZero, Exact
  <2>4. x - y \in 0..(W - 1) <=> x >= y
    BY <1>1
  <2> QED
    BY <1>1, <2>1, <2>2, <2>3, <2>4 DEF Good, Documented
<1>5. CASE c.op = "mul"
  <2>1. Core(c) = Mul(x, y)
    BY <1>1, <1>5 DEF Core
  <2>2. Mul(x, y) = IF x * y < W THEN x * y ELSE Panic
    BY <1>1, MulIsExact
  <2>3. ~ByZero(c) /\ Exact(c) = x * y /\ x * y \in Nat
    BY <1>1, <1>5 DEF ByZero, Exact
  <2> QED
    BY <1>1, <2>1, <2>2, <2>3, GoodExact
<1>6. CASE c.op = "divc"
  <2>1. CASE y = 0
    <3>1. Core(c) = Panic /\ ByZero(c)
      BY <1>1, <1>6, <2>1 DEF Core, ByZero
    <3> QED
      BY <3>1, GoodByZero
  <2>2. CASE y > 0 /\ x = 0
    <3>1. Core(c) = 0
      BY <1>1, <1>6, <2>2 DEF Core
    <3>2. 0 <= c.x /\ (0 - 1) * c.y < c.x /\ c.x <= 0 * c.y
      BY <1>1, <2>2
    <3>3. ~ByZero(c) /\ Exact(c) = 0
      BY <1>1, <1>6, <2>2, <3>2, ExactCeiling
    <3>4. 0 < Word
      BY Sizes
    <3>5. Good(c, IF 0 < Word THEN 0 ELSE Panic)
      BY <3>3, GoodExact
    <3> QED
      BY <3>1, <3>4, <3>5
  <2>3. CASE y > 0 /\ x > 0
    <3>1. PICK k, q \in Nat : /\ k = (x - 1) \div y /\ q = k + 1 /\ q <= x
                              /\ (q - 1) * y < x /\ x <= q * y
      BY <2>3, CeilingOfLess
    <3>2. Sub(x, 1) = x - 1
      BY <1>1, <2>3, SubIsExact, Sizes
    <3>3. Add(k, 1) = q
      BY <1>1, <3>1, AddIsExact, Sizes
    <3>4. Core(c) = q
      BY <1>1, <1>6, <2>3, <3>1, <3>2, <3>3 DEF Core
    <3>5. ~ByZero(c) /\ Exact(c) = q
      BY <1>1, <1>6, <2>3, <3>1, ExactCeiling
    <3>6. q < Word /\ Good(c, IF q < Word THEN q ELSE Panic)
      BY <1>1, <3>1, <3>5, GoodExact
    <3> QED
      BY <3>4, <3>6
  <2> QED
    BY <2>1, <2>2, <2>3
<1>7. CASE c.op = "divr"
  <2>1. CASE y = 0
    <3>1. Core(c) = Panic /\ ByZero(c)
      BY <1>1, <1>7, <2>1 DEF Core, ByZero
    <3> QED
      BY <3>1, GoodByZero
  <2>2. CASE y > 0
    <3>1. PICK k, q \in Nat : /\ k = x \div y /\ q = (IF x % y >= y - y \div 2 THEN k + 1 ELSE k)
                              /\ q <= x /\ (2 * q - 1) * y <= 2 * x /\ 2 * x < (2 * q + 1) * y
      BY <2>2, NearestByRemainder
    <3>2. Core(c) = IF x % y >= y - y \div 2 THEN Add(k, 1) ELSE k
      BY <1>1, <1>7, <2>2, <3>1 DEF Core
    <3>3. x % y >= y - y \div 2 => Add(k, 1) = q
      BY <1>1, <3>1, AddIsExact, Sizes
    <3>4. Core(c) = q
      BY <3>1, <3>2, <3>3
    <3>5. ~ByZero(c) /\ Exact(c) = q
      BY <1>1, <1>7, <2>2, <3>1, ExactNearest
    <3>6. q < Word /\ Good(c, IF q < Word THEN q ELSE Panic)
      BY <1>1, <3>1, <3>5, GoodExact
    <3> QED
      BY <3>4, <3>6
  <2> QED
    BY <2>1, <2>2
<1>8. CASE c.op = "modpow2"
  <2>1. PICK v \in Nat : v = x % 2^y /\ v < Word /\ (y >= Bits => v = x)
    BY <1>1, ModPower
  <2>2. Core(c) = v
    BY <1>1, <1>8, <2>1 DEF Core
  <2>3. ~ByZero(c) /\ Exact(c) = v
    BY <1>1, <1>8, <2>1 DEF ByZero, Exact
  <2>4. Good(c, IF v < Word THEN v ELSE Panic)
    BY <2>3, GoodExact
  <2> QED
    BY <2>1, <2>2, <2>4
<1>9. CASE c.op = "narrow"
  <2>1. CASE z = 0
    <3>1. Core(c) = Panic /\ ByZero(c)
      BY <1>1, <1>9, <2>1 DEF Core, ByZero
    <3> QED
      BY <3>1, GoodByZero
  <2>2. CASE z > 0
    <3>1. PICK p \in Nat : p = x * y
      OBVIOUS
    <3>2. PICK v \in Nat : v = p \div z
      BY <2>2
    <3>3. Core(c) = Wrap(v) /\ ~ByZero(c) /\ Exact(c) = v
      BY <1>1, <1>9, <2>2, <3>1, <3>2 DEF Core, ByZero, Exact
    <3>4. Good(c, IF v < Word THEN v ELSE Panic)
      BY <3>3, GoodExact
    <3>5. v < Word => Wrap(v) = v
      BY WrapIs
    <3>6. v >= W => Wraps(c)
      BY <1>1, <1>9, <3>3 DEF Wraps, Intermediate
    <3>7. Wrap(v) \in 0..(Word - 1)
      BY <2>2, WrappedIsWord
    <3>8. CASE v < W
      BY <1>1, <3>3, <3>4, <3>5, <3>8
    <3>9. CASE v >= W
      BY <3>3, <3>6, <3>7, <3>9 DEF Good
    <3> QED
      BY <1>1, <3>8, <3>9
  <2> QED
    BY <2>1, <2>2
<1> QED
  BY <1>2, <1>3, <1>4, <1>5, <1>6, <1>7, <1>8, <1>9

LEMMA EvmIsGood ==
  ASSUME ExponentLaws, NEW c \in Calls, c.op \notin Looped, c.backend = "evm"
  PROVE  Good(c, Evm(c))
<1>1. PICK x, y, W \in Nat : x = c.x /\ y = c.y /\ W = Word /\ x < W /\ y < W
  BY CallIs, Sizes
<1>2. c.op \in {"divc", "divr", "modpow2"}
  BY CallIs DEF Ops, Looped
<1>3. CASE c.op = "divc"
  <2>1. Evm(c) = IF x + y >= W \/ x + y = 0 \/ y = 0 THEN Panic ELSE (x + y - 1) \div y
    BY <1>1, <1>3 DEF Evm
  <2>2. CASE y = 0
    <3>1. Evm(c) = Panic /\ ByZero(c)
      BY <1>1, <1>3, <2>1, <2>2 DEF ByZero
    <3> QED
      BY <3>1, GoodByZero
  <2>3. CASE x + y >= W
    <3>1. Refuses(c)
      BY <1>1, <1>3, <2>3 DEF Refuses
    <3> QED
      BY <2>1, <2>3, <3>1 DEF Good
  <2>4. CASE y > 0 /\ x + y < W
    <3>1. PICK q \in Nat : q = (x + y - 1) \div y /\ q <= x /\ (q - 1) * y < x /\ x <= q * y
      BY <2>4, CeilingOfMore
    <3>2. ~ByZero(c) /\ Exact(c) = q
      BY <1>1, <1>3, <2>4, <3>1, ExactCeiling
    <3>3. q < Word /\ Good(c, IF q < Word THEN q ELSE Panic)
      BY <1>1, <3>1, <3>2, GoodExact
    <3>4. Evm(c) = q
      BY <2>1, <2>4, <3>1
    <3> QED
      BY <3>3, <3>4
  <2> QED
    BY <2>2, <2>3, <2>4
<1>4. CASE c.op = "divr"
  <2>0. PICK h \in Nat : h = y \div 2 /\ h <= y
    OBVIOUS
  <2>1. Evm(c) = IF x + h >= W \/ y = 0 THEN Panic ELSE (x + h) \div y
    BY <1>1, <1>4, <2>0 DEF Evm
  <2>2. CASE y = 0
    <3>1. Evm(c) = Panic /\ ByZero(c)
      BY <1>1, <1>4, <2>1, <2>2 DEF ByZero
    <3> QED
      BY <3>1, GoodByZero
  <2>3. CASE x + h >= W
    <3>1. Refuses(c)
      BY <1>1, <1>4, <2>0, <2>3 DEF Refuses
    <3> QED
      BY <2>1, <2>3, <3>1 DEF Good
  <2>4. CASE y > 0 /\ x + h < W
    <3>1. PICK q \in Nat : /\ q = (x + y \div 2) \div y /\ q <= x
                           /\ (2 * q - 1) * y <= 2 * x /\ 2 * x < (2 * q + 1) * y
      BY <2>4, NearestByHalf
    <3>2. ~ByZero(c) /\ Exact(c) = q
      BY <1>1, <1>4, <2>4, <3>1, ExactNearest
    <3>3. q < Word /\ Good(c, IF q < Word THEN q ELSE Panic)
      BY <1>1, <3>1, <3>2, GoodExact
    <3>4. Evm(c) = q
      BY <2>0, <2>1, <2>4, <3>1
    <3> QED
      BY <3>3, <3>4
  <2> QED
    BY <2>2, <2>3, <2>4
<1>5. CASE c.op = "modpow2"
  <2>1. PICK b \in Nat : b = Bits
    BY Sizes
  <2>2. Evm(c) = IF Shl(1, y) = 0 THEN Panic ELSE x % Shl(1, y)
    BY <1>1, <1>5 DEF Evm
  <2>3. CASE y >= b
    <3>1. Shl(1, y) = 0
      BY <1>1, <2>1, <2>3, ModPower
    <3>2. Refuses(c)
      BY <1>1, <1>5, <2>1, <2>3 DEF Refuses
    <3> QED
      BY <2>2, <3>1, <3>2 DEF Good
  <2>4. CASE y < b
    <3>1. Shl(1, y) = 2^y /\ 2^y \in Nat \ {0}
      BY <1>1, <2>1, <2>4, ModPower
    <3>2. PICK v \in Nat : v = x % 2^y /\ v < Word
      BY <1>1, ModPower
    <3>3. Evm(c) = v
      BY <2>2, <3>1, <3>2
    <3>4. ~ByZero(c) /\ Exact(c) = v
      BY <1>1, <1>5, <3>2 DEF ByZero, Exact
    <3>5. Good(c, IF v < Word THEN v ELSE Panic)
      BY <3>4, GoodExact
    <3> QED
      BY <3>2, <3>3, <3>5
  <2> QED
    BY <2>1, <2>3, <2>4
<1> QED
  BY <1>2, <1>3, <1>4, <1>5

LEMMA LeanIsGood ==
  ASSUME ExponentLaws, NEW c \in Calls, c.backend = "lean"
  PROVE  Good(c, Lean(c))
<1>1. PICK x, y, z, W \in Nat : x = c.x /\ y = c.y /\ z = c.z /\ W = Word /\ x < W /\ y < W /\ z < W
  BY CallIs, Sizes
<1>2. c.op \in {"muldiv", "divc", "divr", "modpow2", "pow"}
  BY CallIs DEF Ops
<1>3. CASE c.op = "muldiv"
  <2>1. PICK p \in Nat : p = x * y
    OBVIOUS
  <2>2. Lean(c) = IF z = 0 THEN Panic ELSE Wrap(p) \div z
    BY <1>1, <1>3, <2>1 DEF Lean
  <2>3. CASE z = 0
    <3>1. Lean(c) = Panic /\ ByZero(c)
      BY <1>1, <1>3, <2>2, <2>3 DEF ByZero
    <3> QED
      BY <3>1, GoodByZero
  <2>4. CASE z > 0 /\ p >= W
    <3>1. Wraps(c)
      BY <1>1, <1>3, <2>1, <2>4 DEF Wraps, ByZero, Intermediate
    <3>2. Lean(c) \in 0..(Word - 1)
      BY <2>2, <2>4, WrappedIsWord
    <3> QED
      BY <3>1, <3>2 DEF Good
  <2>5. CASE z > 0 /\ p < W
    <3>1. PICK v \in Nat : v = p \div z /\ v <= p
      <4>1. PICK q, r \in Nat : q = p \div z /\ p = q * z + r
        BY <2>5, Divided
      <4>2. q <= q * z
        BY <2>5
      <4> QED
        BY <4>1, <4>2
    <3>2. Lean(c) = v
      BY <1>1, <2>2, <2>5, <3>1, WrapIs
    <3>3. ~ByZero(c) /\ Exact(c) = v
      BY <1>1, <1>3, <2>1, <2>5, <3>1 DEF ByZero, Exact
    <3>4. v < Word /\ Good(c, IF v < Word THEN v ELSE Panic)
      BY <1>1, <2>5, <3>1, <3>3, GoodExact
    <3> QED
      BY <3>2, <3>4
  <2> QED
    BY <2>3, <2>4, <2>5
<1>4. CASE c.op = "divc"
  <2>1. Lean(c) = IF y = 0 THEN Panic ELSE Wrap(x + y - 1) \div y
    BY <1>1, <1>4 DEF Lean
  <2>2. CASE y = 0
    <3>1. Lean(c) = Panic /\ ByZero(c)
      BY <1>1, <1>4, <2>1, <2>2 DEF ByZero
    <3> QED
      BY <3>1, GoodByZero
  <2>3. CASE y > 0 /\ x + y - 1 >= W
    <3>1. Wraps(c)
      BY <1>1, <1>4, <2>3 DEF Wraps, ByZero, Intermediate
    <3>2. PICK m \in Nat : m = x + y - 1
      BY <2>3
    <3>3. Lean(c) \in 0..(Word - 1)
      BY <2>1, <2>3, <3>2, WrappedIsWord
    <3> QED
      BY <3>1, <3>3 DEF Good
  <2>4. CASE y > 0 /\ x + y - 1 < W
    <3>1. PICK q \in Nat : q = (x + y - 1) \div y /\ q <= x /\ (q - 1) * y < x /\ x <= q * y
      BY <2>4, CeilingOfMore
    <3>2. ~ByZero(c) /\ Exact(c) = q
      BY <1>1, <1>4, <2>4, <3>1, ExactCeiling
    <3>3. q < Word /\ Good(c, IF q < Word THEN q ELSE Panic)
      BY <1>1, <3>1, <3>2, GoodExact
    <3>4. PICK m \in Nat : m = x + y - 1 /\ Wrap(m) = m
      BY <1>1, <2>4, WrapIs
    <3>5. Lean(c) = q
      BY <2>1, <2>4, <3>1, <3>4
    <3> QED
      BY <3>3, <3>5
  <2> QED
    BY <2>2, <2>3, <2>4
<1>5. CASE c.op = "divr"
  <2>0. PICK m \in Nat : m = x + y \div 2
    OBVIOUS
  <2>1. Lean(c) = IF y = 0 THEN Panic ELSE Wrap(m) \div y
    BY <1>1, <1>5, <2>0 DEF Lean
  <2>2. CASE y = 0
    <3>1. Lean(c) = Panic /\ ByZero(c)
      BY <1>1, <1>5, <2>1, <2>2 DEF ByZero
    <3> QED
      BY <3>1, GoodByZero
  <2>3. CASE y > 0 /\ m >= W
    <3>1. Wraps(c)
      BY <1>1, <1>5, <2>0, <2>3 DEF Wraps, ByZero, Intermediate
    <3>2. Lean(c) \in 0..(Word - 1)
      BY <2>1, <2>3, WrappedIsWord
    <3> QED
      BY <3>1, <3>2 DEF Good
  <2>4. CASE y > 0 /\ m < W
    <3>1. PICK q \in Nat : /\ q = (x + y \div 2) \div y /\ q <= x
                           /\ (2 * q - 1) * y <= 2 * x /\ 2 * x < (2 * q + 1) * y
      BY <2>4, NearestByHalf
    <3>2. ~ByZero(c) /\ Exact(c) = q
      BY <1>1, <1>5, <2>4, <3>1, ExactNearest
    <3>3. q < Word /\ Good(c, IF q < Word THEN q ELSE Panic)
      BY <1>1, <3>1, <3>2, GoodExact
    <3>4. Wrap(m) = m
      BY <1>1, <2>4, WrapIs
    <3>5. Lean(c) = q
      BY <2>0, <2>1, <2>4, <3>1, <3>4
    <3> QED
      BY <3>3, <3>5
  <2> QED
    BY <2>2, <2>3, <2>4
<1>6. CASE c.op = "modpow2"
  <2>1. PICK b \in Nat : b = Bits
    BY Sizes
  <2>2. PICK v \in Nat : v = x % 2^y /\ v < Word /\ (y >= Bits => v = x)
    BY <1>1, ModPower
  <2>3. Lean(c) = v
    <3>1. Lean(c) = IF y = 0 THEN 0 ELSE IF y >= b THEN x ELSE x % Shl(1, y)
      BY <1>1, <1>6, <2>1 DEF Lean
    <3>2. CASE y = 0
      <4>1. 2^0 = 1
        BY TwoTo
      <4>2. x % 1 = 0
        OBVIOUS
      <4> QED
        BY <2>2, <3>1, <3>2, <4>1, <4>2
    <3>3. CASE y > 0 /\ y >= b
      BY <2>1, <2>2, <3>1, <3>3
    <3>4. CASE y > 0 /\ y < b
      <4>1. Shl(1, y) = 2^y
        BY <1>1, <2>1, <3>4, ModPower
      <4> QED
        BY <2>2, <3>1, <3>4, <4>1
    <3> QED
      BY <2>1, <3>2, <3>3, <3>4
  <2>4. ~ByZero(c) /\ Exact(c) = v
    BY <1>1, <1>6, <2>2 DEF ByZero, Exact
  <2>5. Good(c, IF v < Word THEN v ELSE Panic)
    BY <2>4, GoodExact
  <2> QED
    BY <2>2, <2>3, <2>5
<1>7. CASE c.op = "pow"
  <2>1. PICK v \in Nat : v = Power(x, y)
    BY PowerIs
  <2>2. Lean(c) = Wrap(v) /\ ~ByZero(c) /\ Exact(c) = v
    BY <1>1, <1>7, <2>1 DEF Lean, ByZero, Exact
  <2>3. v >= W => Wraps(c)
    BY <1>1, <1>7, <2>2 DEF Wraps, Intermediate
  <2>4. v < W => Wrap(v) = v
    BY <1>1, WrapIs
  <2>5. Good(c, IF v < Word THEN v ELSE Panic)
    BY <2>2, GoodExact
  <2>6. PICK one \in Nat \ {0} : one = 1
    OBVIOUS
  <2>7. Wrap(v) \in 0..(Word - 1)
    BY <2>6, WrappedIsWord
  <2>8. CASE v < W
    BY <1>1, <2>2, <2>4, <2>5, <2>8
  <2>9. CASE v >= W
    BY <2>2, <2>3, <2>7, <2>9 DEF Good
  <2> QED
    BY <1>1, <2>8, <2>9
<1> QED
  BY <1>2, <1>3, <1>4, <1>5, <1>6, <1>7

-----------------------------------------------------------------------------
(***************************************************************************)
(* The invariant: what holds in the middle of a division, by one word or   *)
(* two, and of a power.                                                    *)
(***************************************************************************)
Dividing ==
  stage \in {"div256", "div512"} =>
    /\ quot \in Nat /\ rem \in Nat /\ i \in Nat
    /\ Dividend = quot * Divisor + rem

Narrow ==
  stage = "div256" =>
    /\ call.op = "div" \/ (call.op = "muldiv" /\ call.backend = "core")
    /\ Divisor > 0 /\ Dividend < Word /\ i < Bits
    /\ Divisor * 2^i < Word /\ rem < Divisor * 2^(i + 1)

\* A divisor of zero lasts for one step only, which panics.
Broad ==
  stage = "div512" =>
    /\ call.op = "muldiv" /\ call.backend # "lean" /\ rem < Word * Word
    /\ i >= Bits => quot = 0
    /\ Divisor = 0 => i >= Bits
    /\ Divisor > 0 => /\ i < 2 * Bits /\ Divisor * 2^i < Word * Word /\ rem < Divisor * 2^(i + 1)
                      /\ i < Bits => Dividend < Divisor * Word

Powering ==
  stage = "pow" =>
    /\ call.op = "pow" /\ call.backend # "lean"
    /\ quot \in Nat /\ quot < Word /\ rem \in Nat /\ rem < Word /\ i \in Nat
    /\ quot * Power(rem, i) = Power(call.x, call.y)
    /\ quot = 0 => rem = 0

MathInv == call \in Calls /\ Dividing /\ Narrow /\ Broad /\ Powering /\ ResultsDocumented

LEMMA InitHolds == ASSUME MathInit PROVE MathInv
BY DEF MathInit, MathInv, Dividing, Narrow, Broad, Powering, ResultsDocumented

\* A call that ends with a good result keeps the invariant.
LEMMA DoneKeeps ==
  ASSUME call \in Calls, call' = call, stage' = "done", Good(call, result')
  PROVE  MathInv'
<1>1. Dividing' /\ Narrow' /\ Broad' /\ Powering'
  BY DEF Dividing, Narrow, Broad, Powering
<1>2. ResultsDocumented'
  BY DEF ResultsDocumented, Good
<1> QED
  BY <1>1, <1>2 DEF MathInv

\* Divisor and dividend of a call, and what is documented of their quotient.
LEMMA Operands ==
  ASSUME ExponentLaws, call \in Calls
  PROVE  /\ Divisor \in Nat /\ Divisor < Word /\ Dividend \in Nat /\ Dividend < Word * Word
         /\ call.op \in {"div", "muldiv"} /\ Divisor = 0 => ByZero(call)
         /\ call.op \in {"div", "muldiv"} /\ Divisor > 0 =>
              ~ByZero(call) /\ Exact(call) = Dividend \div Divisor
<1>1. PICK x, y, z, W \in Nat : /\ x = call.x /\ y = call.y /\ z = call.z /\ W = Word
                                /\ x < W /\ y < W /\ z < W
  BY CallIs, Sizes
<1>2. Divisor \in Nat /\ Divisor < W
  BY <1>1 DEF Divisor
<1>3. Dividend \in Nat /\ Dividend < W * W
  <2>1. x * y \in Nat /\ x * y < W * W
    BY <1>1, ProductBound
  <2>2. x < W * W
    BY <1>1
  <2> QED
    BY <1>1, <2>1, <2>2 DEF Dividend
<1>4. CASE call.op = "div"
  BY <1>1, <1>2, <1>3, <1>4 DEF Divisor, Dividend, ByZero, Exact
<1>5. CASE call.op = "muldiv"
  BY <1>1, <1>2, <1>3, <1>5 DEF Divisor, Dividend, ByZero, Exact
<1> QED
  BY <1>1, <1>2, <1>3, <1>4, <1>5

\* A quotient with a remainder below the divisor is a good result; so is a
\* panic for one that is no word.
LEMMA QuotientIsGood ==
  ASSUME ExponentLaws, call \in Calls, call.op \in {"div", "muldiv"}, Divisor > 0,
         NEW q \in Nat, NEW r \in Nat, r < Divisor, Dividend = q * Divisor + r
  PROVE  Good(call, IF q < Word THEN q ELSE Panic)
<1>1. PICK n, d \in Nat : n = Dividend /\ d = Divisor
  BY Operands
<1>2. n \div d = q
  BY <1>1, DivIs
<1>3. ~ByZero(call) /\ Exact(call) = q
  BY <1>1, <1>2, Operands
<1> QED
  BY <1>3, GoodExact

LEMMA PanicIsGood ==
  ASSUME ExponentLaws, call \in Calls, call.op \in {"div", "muldiv"}, Divisor > 0,
         Dividend >= Divisor * Word
  PROVE  Good(call, Panic)
<1>1. PICK n, d, W \in Nat : n = Dividend /\ d = Divisor /\ W = Word /\ d # 0
  BY Operands, Sizes
<1>2. PICK q, r \in Nat : q = n \div d /\ r = n % d /\ r < d /\ n = q * d + r
  BY <1>1, Divided
<1>3. ~(q < W)
  <2> SUFFICES ASSUME q < W PROVE FALSE
    OBVIOUS
  <2>1. (q + 1) * d <= W * d
    OBVIOUS
  <2>2. (q + 1) * d = q * d + d /\ W * d = d * W
    OBVIOUS
  <2>3. PICK qd, dw \in Nat : qd = q * d /\ dw = d * W
    OBVIOUS
  <2> QED
    BY <1>1, <1>2, <2>1, <2>2, <2>3
<1>4. Good(call, IF q < Word THEN q ELSE Panic)
  BY <1>1, <1>2, QuotientIsGood
<1> QED
  BY <1>1, <1>3, <1>4

LEMMA DivideKeeps ==
  ASSUME ExponentLaws, call \in Calls, call' = call, NEW n \in Nat, n = Dividend, n < Word,
         call.op = "div" \/ (call.op = "muldiv" /\ call.backend = "core"),
         stage = "start", Divide(n, Divisor)
  PROVE  MathInv'
<1>1. PICK d, W \in Nat : d = Divisor /\ W = Word /\ d < W
  BY Operands, Sizes
<1>2. CASE d = 0
  <2>1. stage' = "done" /\ result' = Panic
    BY <1>1, <1>2 DEF Divide, Finish
  <2>2. ByZero(call)
    BY <1>1, <1>2, Operands
  <2> QED
    BY <2>1, <2>2, GoodByZero, DoneKeeps
<1>3. CASE d # 0 /\ (n < d \/ (Hi(n) = 0 /\ Hi(d) = 0))
  <2>1. stage' = "done" /\ result' = n \div d
    BY <1>1, <1>3 DEF Divide, Finish
  <2>2. PICK q, r \in Nat : q = n \div d /\ r = n % d /\ r < d /\ n = q * d + r
    BY <1>3, Divided
  <2>3. q <= q * d
    BY <1>3
  <2>4. q < Word
    BY <1>1, <2>2, <2>3
  <2>5. Good(call, IF q < Word THEN q ELSE Panic)
    BY <1>1, <1>3, <2>2, QuotientIsGood
  <2> QED
    BY <2>1, <2>2, <2>4, <2>5, DoneKeeps
<1>4. CASE d # 0 /\ ~(n < d \/ (Hi(n) = 0 /\ Hi(d) = 0))
  <2>1. PICK k \in Nat : k = LeadingZeros(d) - LeadingZeros(n) /\ k < Bits
    BY <1>1, <1>4, ZerosShrink
  <2>2. stage' = "div256" /\ rem' = n /\ quot' = 0 /\ i' = k
    BY <1>1, <1>4, <2>1 DEF Divide
  <2>3. d * 2^k < Word /\ n < d * 2^(k + 1)
    <3>1. PICK u, v \in Nat : u = LeadingZeros(d) /\ v = LeadingZeros(n)
      BY <1>1, <1>4, LeadingZerosOf
    <3>2. PICK t \in Nat : t = 0 /\ k + LeadingZeros(n) = LeadingZeros(d) + t
      BY <2>1, <3>1
    <3>3. d > 0 /\ n > 0 /\ d < Word
      BY <1>1, <1>4
    <3>4. d * 2^k < Word * 2^t /\ (n + 1) * 2^t <= d * 2^(k + 1)
      BY <3>2, <3>3, StartBit
    <3>5. 2^0 = 1
      BY TwoTo
    <3>6. PICK s \in Nat : s = d * 2^(k + 1)
      BY TwoNext
    <3> QED
      BY <1>1, <3>2, <3>4, <3>5, <3>6
  <2>4. Divisor' = d /\ Dividend' = n
    BY <1>1 DEF Divisor, Dividend
  <2>5. Dividing'
    BY <2>2, <2>4 DEF Dividing
  <2>6. Narrow'
    BY <1>1, <1>4, <2>1, <2>2, <2>3, <2>4 DEF Narrow, Word, Bits
  <2>7. Broad' /\ Powering' /\ ResultsDocumented'
    BY <2>2 DEF Broad, Powering, ResultsDocumented
  <2> QED
    BY <2>5, <2>6, <2>7 DEF MathInv
<1> QED
  BY <1>2, <1>3, <1>4

LEMMA EvaluateKeeps ==
  ASSUME ExponentLaws, MathInv, Evaluate
  PROVE  MathInv'
<1>1. call \in Calls /\ call' = call /\ stage' = "done"
  BY DEF MathInv, Evaluate, Finish
<1>2. call.backend \in {"core", "evm", "lean"} /\ (call.op \notin Looped \/ call.backend = "lean")
  BY <1>1, CallIs DEF Evaluate
<1>3. result' = CASE call.backend = "core" -> Core(call)
                  [] call.backend = "evm" -> Evm(call)
                  [] call.backend = "lean" -> Lean(call)
  BY DEF Evaluate, Finish
<1>4. CASE call.backend = "core"
  BY <1>1, <1>2, <1>3, <1>4, CoreIsGood, DoneKeeps
<1>5. CASE call.backend = "evm"
  BY <1>1, <1>2, <1>3, <1>5, EvmIsGood, DoneKeeps
<1>6. CASE call.backend = "lean"
  BY <1>1, <1>2, <1>3, <1>6, LeanIsGood, DoneKeeps
<1> QED
  BY <1>2, <1>4, <1>5, <1>6

LEMMA BeginDivKeeps ==
  ASSUME ExponentLaws, MathInv, BeginDiv
  PROVE  MathInv'
<1>1. call \in Calls /\ call' = call /\ stage = "start" /\ call.op = "div" /\ Divide(call.x, call.y)
  BY DEF MathInv, BeginDiv
<1>2. PICK n \in Nat : n = call.x /\ n < Word
  BY <1>1, CallIs
<1>3. n = Dividend /\ call.y = Divisor
  BY <1>1, <1>2 DEF Dividend, Divisor
<1>4. Divide(n, Divisor)
  BY <1>1, <1>2, <1>3
<1> QED
  BY <1>1, <1>2, <1>3, <1>4, DivideKeeps

LEMMA Bit256Keeps ==
  ASSUME ExponentLaws, MathInv, Bit256
  PROVE  MathInv'
<1>1. call \in Calls /\ call' = call /\ stage = "div256" /\ call.op \in {"div", "muldiv"}
  BY DEF MathInv, Narrow, Bit256
<1>2. PICK n, d, W, b \in Nat : n = Dividend /\ d = Divisor /\ W = Word /\ b = Bits /\ d > 0 /\ n < W
  BY <1>1, Operands, Sizes DEF MathInv, Narrow
<1>3. PICK q, r, k \in Nat : q = quot /\ r = rem /\ k = i
  BY <1>1 DEF MathInv, Dividing
<1>4. n = q * d + r /\ k < b /\ d * 2^k < W /\ r < d * 2^(k + 1)
  BY <1>1, <1>2, <1>3 DEF MathInv, Dividing, Narrow
<1>5. PICK p \in Nat \ {0} : p = 2^k
  BY TwoTo
<1>6. PICK s \in Nat : s = d * p /\ s < W /\ p <= s
  <2>1. d * p \in Nat /\ p <= d * p
    BY <1>2
  <2> QED
    BY <1>4, <1>5, <2>1
<1>7. r < s + s
  <2>1. 2^(k + 1) = p * 2
    BY <1>5, TwoNext
  <2>2. d * (p * 2) = s + s
    BY <1>6
  <2> QED
    BY <1>4, <2>1, <2>2
<1>8. Shl(d, k) = s /\ Shl(1, k) = p
  <2>1. Shl(d, k) = d * 2^k
    BY <1>2, <1>4, ShlIsExact
  <2>2. 1 < Word
    BY Sizes
  <2>3. Shl(1, k) = 2^k
    BY <1>2, <1>4, <2>2, ModPower
  <2> QED
    BY <1>5, <1>6, <2>1, <2>3
\* One bit, whether it is set or not.
<1>9. PICK q2, r2 \in Nat : q2 = quot' /\ r2 = rem' /\ n = q2 * d + r2 /\ r2 < s
  <2>1. CASE r >= s
    <3>1. r - s \in Nat /\ r - s < s /\ n = (q + p) * d + (r - s)
      BY <1>4, <1>6, <1>7, <2>1, BitTracks
    <3>2. q * d \in Nat /\ (q + p) * d \in Nat
      OBVIOUS
    <3>3. r < W
      BY <1>2, <1>4, <3>2
    <3>4. q + p <= (q + p) * d
      BY <1>2
    <3>5. q + p < W
      BY <1>2, <3>1, <3>2, <3>4
    <3>6. Sub(r, s) = r - s
      BY <1>2, <1>6, <2>1, <3>3, SubIsExact
    <3>7. Add(q, p) = q + p
      BY <1>2, <3>5, AddIsExact
    <3>8. rem' = r - s /\ quot' = q + p
      BY <1>2, <1>3, <1>8, <2>1, <3>6, <3>7 DEF Bit256
    <3> QED
      BY <3>1, <3>8
  <2>2. CASE r < s
    <3>1. rem' = r /\ quot' = q
      BY <1>2, <1>3, <1>8, <2>2 DEF Bit256
    <3> QED
      BY <1>4, <2>2, <3>1
  <2> QED
    BY <2>1, <2>2
<1>10. CASE k = 0
  <2>1. stage' = "done" /\ result' = q2
    BY <1>3, <1>9, <1>10 DEF Bit256
  <2>2. s = d
    BY <1>5, <1>6, <1>10, TwoTo
  <2>3. Good(call, IF q2 < Word THEN q2 ELSE Panic)
    BY <1>1, <1>2, <1>9, <2>2, QuotientIsGood
  <2>4. q2 < Word
    <3>1. PICK m \in Nat : m = q2 * d /\ q2 <= m
      BY <1>2
    <3>2. n = m + r2
      BY <1>9, <3>1
    <3>3. q2 < W
      BY <1>2, <3>1, <3>2
    <3> QED
      BY <1>2, <3>3
  <2> QED
    BY <1>1, <2>1, <2>3, <2>4, DoneKeeps
<1>11. CASE k # 0
  <2>1. PICK j \in Nat : k = j + 1 /\ j = k - 1
    BY <1>11
  <2>2. stage' = "div256" /\ i' = j
    BY <1>1, <1>3, <1>11, <2>1 DEF Bit256
  <2>3. d * 2^(j + 1) = s
    BY <1>5, <1>6, <2>1
  <2>4. d * 2^j < W
    <3>1. PICK pj \in Nat : pj = 2^j /\ 2^(j + 1) = pj * 2
      BY TwoNext
    <3>2. d * pj <= d * (pj * 2)
      OBVIOUS
    <3> QED
      BY <1>6, <2>3, <3>1, <3>2
  <2>5. Divisor' = d /\ Dividend' = n
    BY <1>1, <1>2 DEF Divisor, Dividend
  <2>6. Dividing'
    BY <1>9, <2>2, <2>5 DEF Dividing
  <2>7. j < b /\ Word' = W /\ Bits' = b
    BY <1>2, <1>4, <2>1 DEF Word, Bits
  <2>8. call.op = "div" \/ (call.op = "muldiv" /\ call.backend = "core")
    BY <1>1 DEF MathInv, Narrow
  <2>9. Narrow'
    BY <1>1, <1>2, <1>9, <2>2, <2>3, <2>4, <2>5, <2>7, <2>8 DEF Narrow
  <2>10. Broad' /\ Powering' /\ ResultsDocumented'
    BY <2>2 DEF Broad, Powering, ResultsDocumented
  <2> QED
    BY <1>1, <2>6, <2>9, <2>10 DEF MathInv
<1> QED
  BY <1>10, <1>11

LEMMA ZerosOfZero ==
  ASSUME ExponentLaws
  PROVE  LeadingZeros(0) = Bits
<1>1. PICK b \in Nat : b = Bits
  BY Sizes
<1>2. \A n \in 0..b : 2^(b - n) \in Nat \ {0} /\ (n < b => 2^(b - n - 1) \in Nat \ {0})
  <2>1. \A m \in Nat : 2^m \in Nat \ {0}
    BY TwoTo
  <2>2. \A n \in 0..b : b - n \in Nat /\ (n < b => b - n - 1 \in Nat)
    OBVIOUS
  <2> QED
    BY <2>1, <2>2
<1>3. PICK m : m = CHOOSE n \in 0..b : 0 < 2^(b - n) /\ (n < b => 0 >= 2^(b - n - 1))
  OBVIOUS
<1>4. \E n \in 0..b : 0 < 2^(b - n) /\ (n < b => 0 >= 2^(b - n - 1))
  <2>1. b \in 0..b /\ ~(b < b)
    OBVIOUS
  <2>2. 0 < 2^(b - b)
    BY <1>2, <2>1
  <2> QED
    BY <2>1, <2>2
<1>5. m \in 0..b /\ (m < b => 0 >= 2^(b - m - 1))
  BY <1>3, <1>4
<1>6. m = b
  BY <1>2, <1>5
<1> QED
  BY <1>1, <1>3, <1>6 DEF LeadingZeros

LEMMA BeginMuldivKeeps ==
  ASSUME ExponentLaws, MathInv, BeginMuldiv
  PROVE  MathInv'
<1>1. /\ call \in Calls /\ call' = call /\ stage = "start" /\ call.op = "muldiv"
      /\ call.backend # "lean"
  BY DEF MathInv, BeginMuldiv
<1>2. PICK x, y, z, W, b \in Nat : /\ x = call.x /\ y = call.y /\ z = call.z /\ W = Word /\ b = Bits
                                   /\ x < W /\ y < W /\ z < W
  BY <1>1, CallIs, Sizes
<1>3. PICK n \in Nat : n = x * y
  OBVIOUS
<1>4. Dividend = n /\ Divisor = z
  BY <1>1, <1>2, <1>3 DEF Dividend, Divisor
<1>5. PICK p : p = IF call.backend = "core" THEN CoreProduct(x, y) ELSE EvmProduct(x, y)
  OBVIOUS
<1>6. PICK hi, lo \in Nat : p = <<hi, lo>> /\ hi < W /\ lo < W /\ hi * W + lo = n
  <2>1. IsProduct(CoreProduct(x, y), x, y) /\ IsProduct(EvmProduct(x, y), x, y)
    BY <1>2, CoreProductIsExact, EvmProductIsExact
  <2> QED
    BY <1>2, <1>3, <1>5, <2>1 DEF IsProduct
<1>7. IF x = 0 \/ y = 0 THEN Finish(0)
      ELSE IF hi = 0
           THEN IF call.backend = "core" THEN Divide(lo, z)
                ELSE Finish(IF z = 0 THEN Panic ELSE lo \div z)
           ELSE /\ stage' = "div512" /\ rem' = Wide(p) /\ quot' = 0
                /\ i' = b + LeadingZeros(z) - LeadingZeros(hi)
                /\ UNCHANGED result
  <2>1. LET native == IF z = 0 THEN Panic ELSE p[2] \div z
        IN  IF x = 0 \/ y = 0 THEN Finish(0)
            ELSE IF p[1] = 0 THEN IF call.backend = "core" THEN Divide(p[2], z) ELSE Finish(native)
            ELSE /\ stage' = "div512" /\ rem' = Wide(p) /\ quot' = 0
                 /\ i' = b + LeadingZeros(z) - LeadingZeros(p[1])
                 /\ UNCHANGED result
    BY <1>2, <1>5 DEF BeginMuldiv
  <2>2. p[1] = hi /\ p[2] = lo
    BY <1>6
  <2> QED
    BY <2>1, <2>2
<1>8. CASE x = 0 \/ y = 0
  <2>1. stage' = "done" /\ result' = 0
    BY <1>7, <1>8 DEF Finish
  <2>2. n = 0
    BY <1>3, <1>8
  <2>3. CASE z = 0
    <3>1. ZeroFirst(call)
      BY <1>1, <1>2, <1>3, <2>2, <2>3 DEF ZeroFirst
    <3> QED
      BY <1>1, <2>1, <3>1, DoneKeeps DEF Good
  <2>4. CASE z > 0
    <3>1. n = 0 * z + 0
      BY <2>2
    <3>2. Good(call, IF 0 < Word THEN 0 ELSE Panic)
      BY <1>1, <1>4, <2>4, <3>1, QuotientIsGood
    <3>3. 0 < Word
      BY Sizes
    <3> QED
      BY <1>1, <2>1, <3>2, <3>3, DoneKeeps
  <2> QED
    BY <2>3, <2>4
<1>9. CASE ~(x = 0 \/ y = 0) /\ hi = 0
  <2>1. lo = n
    BY <1>6, <1>9
  <2>2. CASE call.backend = "core"
    <3>1. Divide(n, Divisor)
      BY <1>4, <1>7, <1>9, <2>1, <2>2
    <3>2. n = Dividend /\ n < Word
      BY <1>2, <1>4, <1>6, <2>1
    <3> QED
      BY <1>1, <2>2, <3>1, <3>2, DivideKeeps
  <2>3. CASE call.backend # "core" /\ z = 0
    <3>1. stage' = "done" /\ result' = Panic
      BY <1>7, <1>9, <2>3 DEF Finish
    <3>2. ByZero(call)
      BY <1>1, <1>2, <2>3 DEF ByZero
    <3> QED
      BY <1>1, <3>1, <3>2, GoodByZero, DoneKeeps
  <2>4. CASE call.backend # "core" /\ z # 0
    <3>1. stage' = "done" /\ result' = n \div z
      BY <1>7, <1>9, <2>1, <2>4 DEF Finish
    <3>2. PICK q, r \in Nat : q = n \div z /\ r < z /\ n = q * z + r
      BY <2>4, Divided
    <3>3. q <= q * z
      BY <2>4
    <3>4. q < Word
      <4>1. PICK m \in Nat : m = q * z /\ q <= m
        BY <3>3
      <4>2. n = m + r
        BY <3>2, <4>1
      <4> QED
        BY <1>2, <1>6, <2>1, <4>1, <4>2
    <3>5. Good(call, IF q < Word THEN q ELSE Panic)
      BY <1>1, <1>4, <2>4, <3>2, QuotientIsGood
    <3> QED
      BY <1>1, <3>1, <3>2, <3>4, <3>5, DoneKeeps
  <2> QED
    BY <2>2, <2>3, <2>4
<1>10. CASE ~(x = 0 \/ y = 0) /\ hi # 0
  <2>1. Wide(p) = n
    BY <1>2, <1>6 DEF Wide
  <2>2. PICK v \in Nat : v = LeadingZeros(hi) /\ v < b
    BY <1>2, <1>6, <1>10, LeadingZerosOf
  <2>3. PICK u \in Nat : u = LeadingZeros(z) /\ (z = 0 => u = b) /\ (z > 0 => u < b)
    <3>1. z = 0 => LeadingZeros(z) = b
      BY <1>2, ZerosOfZero
    <3>2. z > 0 => LeadingZeros(z) \in Nat /\ LeadingZeros(z) < b
      BY <1>2, LeadingZerosOf
    <3> QED
      BY <3>1, <3>2
  <2>4. PICK k \in Nat : k = b + u - v
    BY <2>2
  <2>5. stage' = "div512" /\ rem' = n /\ quot' = 0 /\ i' = k
    BY <1>7, <1>10, <2>1, <2>2, <2>3, <2>4
  <2>6. Divisor' = z /\ Dividend' = n /\ Word' = W /\ Bits' = b
    BY <1>1, <1>2, <1>4 DEF Divisor, Dividend, Word, Bits
  <2>7. Dividing'
    BY <2>5, <2>6 DEF Dividing
  <2>8. n < W * W
    BY <1>2, <1>3, ProductBound
  <2>9. z = 0 => k >= b
    BY <2>2, <2>3, <2>4
  <2>10. ASSUME z > 0
         PROVE  k < 2 * b /\ z * 2^k < W * W /\ n < z * 2^(k + 1) /\ (k < b => n < z * W)
    <3>1. k + LeadingZeros(hi) = LeadingZeros(z) + b
      BY <2>2, <2>3, <2>4
    <3>2. hi > 0 /\ hi < Word /\ z < Word
      BY <1>2, <1>6, <1>10
    <3>3. z * 2^k < Word * 2^b /\ (hi + 1) * 2^b <= z * 2^(k + 1)
      BY <2>10, <3>1, <3>2, StartBit
    <3>4. 2^b = W
      BY <1>2 DEF Word
    <3>5. n < (hi + 1) * W
      <4>1. (hi + 1) * W = hi * W + W
        OBVIOUS
      <4> QED
        BY <1>6, <4>1
    <3>6. PICK t \in Nat : t = 2^(k + 1)
      BY TwoNext
    <3>7. n < z * t
      <4>1. PICK s, m \in Nat : s = z * t /\ m = (hi + 1) * W
        OBVIOUS
      <4>2. m <= s
        BY <3>3, <3>4, <3>6, <4>1
      <4> QED
        BY <3>5, <4>1, <4>2
    <3>8. k < b => n < z * W
      <4> SUFFICES ASSUME k < b PROVE n < z * W
        OBVIOUS
      <4>1. PICK m \in Nat : m = k + 1 /\ m <= b
        OBVIOUS
      <4>2. t <= W
        BY <3>4, <3>6, <4>1, TwoGrows
      <4>3. z * t <= z * W
        BY <4>2
      <4>4. PICK s, w \in Nat : s = z * t /\ w = z * W
        OBVIOUS
      <4> QED
        BY <3>7, <4>3, <4>4
    <3>9. k < 2 * b
      BY <2>2, <2>3, <2>4, <2>10
    <3> QED
      BY <1>2, <3>3, <3>4, <3>6, <3>7, <3>8, <3>9
  <2>11. Broad'
    BY <1>1, <2>5, <2>6, <2>8, <2>9, <2>10 DEF Broad
  <2>12. Narrow' /\ Powering' /\ ResultsDocumented'
    BY <2>5 DEF Narrow, Powering, ResultsDocumented
  <2> QED
    BY <1>1, <2>7, <2>11, <2>12 DEF MathInv
<1> QED
  BY <1>8, <1>9, <1>10

LEMMA Bit512Keeps ==
  ASSUME ExponentLaws, MathInv, Bit512
  PROVE  MathInv'
<1>1. /\ call \in Calls /\ call' = call /\ stage = "div512" /\ call.op = "muldiv"
      /\ call.backend # "lean"
  BY DEF MathInv, Broad, Bit512
<1>2. PICK n, d, W, b \in Nat : n = Dividend /\ d = Divisor /\ W = Word /\ b = Bits /\ d < W /\ W # 0
  BY <1>1, Operands, Sizes
<1>3. PICK q, r, k \in Nat : q = quot /\ r = rem /\ k = i
  BY <1>1 DEF MathInv, Dividing
<1>4. /\ n = q * d + r /\ r < W * W /\ (k >= b => q = 0) /\ (d = 0 => k >= b)
      /\ d > 0 => k < 2 * b /\ d * 2^k < W * W /\ r < d * 2^(k + 1) /\ (k < b => n < d * W)
  BY <1>1, <1>2, <1>3 DEF MathInv, Dividing, Broad
<1>5. d = call.z
  BY <1>1, <1>2 DEF Divisor
<1>6. PICK p \in Nat \ {0} : p = 2^k /\ 2^(k + 1) = p * 2
  BY TwoNext
<1>7. PICK s \in Nat : s = d * p /\ d * (p * 2) = s + s
  BY <1>6
<1>8. PICK r1, r0 \in Nat : r1 = r \div W /\ r0 = r % W /\ r0 < W /\ r = r1 * W + r0
  BY <1>2, Divided
<1>9. PICK s1, s0 \in Nat : Shifted(d, k) = <<s1, s0>> /\ s0 < W /\ s1 * W + s0 = s
  <2>1. CASE d = 0 /\ k >= 2 * b
    <3>1. Shifted(d, k) = <<0, 0>>
      BY <1>2, <2>1 DEF Shifted
    <3>2. s = 0 /\ 0 * W + 0 = 0
      BY <1>7, <2>1
    <3> QED
      BY <1>2, <3>1, <3>2
  <2>2. CASE k < 2 * b
    <3>1. d * 2^k < Word * Word
      <4>1. CASE d = 0
        <5>1. d * 2^k = 0
          BY <1>6, <4>1
        <5>2. W * W > 0
          BY <1>2
        <5> QED
          BY <1>2, <5>1, <5>2
      <4>2. CASE d > 0
        BY <1>2, <1>4, <4>2
      <4> QED
        BY <4>1, <4>2
    <3>2. k < 2 * Bits /\ d < Word
      BY <1>2, <2>2
    <3>3. \E hi, lo \in Nat : Shifted(d, k) = <<hi, lo>> /\ lo < Word /\ hi * Word + lo = d * 2^k
      BY <3>1, <3>2, ShiftedIsExact
    <3> QED
      BY <1>2, <1>6, <1>7, <3>3
  <2> QED
    BY <1>4, <2>1, <2>2
<1>10. Wide(Shifted(d, k)) = s
  BY <1>2, <1>9 DEF Wide
<1>11. /\ rem' = IF r >= s THEN Wide(WideSub(<<r1, r0>>, <<s1, s0>>)) ELSE r
       /\ IF r >= s /\ k >= b THEN stage' = "done" /\ result' = Panic /\ UNCHANGED <<quot, i>>
          ELSE /\ quot' = IF r >= s THEN Add(q, Shl(1, k)) ELSE q
               /\ stage' = IF k = 0 THEN "done" ELSE stage
               /\ result' = IF k = 0 THEN quot' ELSE result
               /\ i' = IF k = 0 THEN k ELSE k - 1
  BY <1>2, <1>3, <1>5, <1>8, <1>9, <1>10 DEF Bit512
\* A bit beyond the word: the quotient is none.
<1>12. CASE r >= s /\ k >= b
  <2>1. stage' = "done" /\ result' = Panic
    BY <1>11, <1>12
  <2>2. CASE d = 0
    <3>1. ByZero(call)
      BY <1>1, <1>2, <2>2, Operands
    <3> QED
      BY <1>1, <2>1, <3>1, GoodByZero, DoneKeeps
  <2>3. CASE d > 0
    <3>1. W <= p
      BY <1>2, <1>6, <1>12, TwoGrows DEF Word
    <3>2. d * W <= s
      BY <1>7, <3>1
    <3>3. n = r
      BY <1>4, <1>12
    <3>4. PICK m \in Nat : m = d * W
      OBVIOUS
    <3>5. n >= m
      BY <1>12, <3>2, <3>3, <3>4
    <3>6. Good(call, Panic)
      BY <1>1, <1>2, <2>3, <3>4, <3>5, PanicIsGood
    <3> QED
      BY <1>1, <2>1, <3>6, DoneKeeps
  <2> QED
    BY <2>2, <2>3
\* One bit, whether it is set or not.
<1>13. CASE ~(r >= s /\ k >= b)
  <2>0. d > 0
    <3> SUFFICES ASSUME d = 0 PROVE FALSE
      OBVIOUS
    <3>1. s = 0 /\ k >= b
      BY <1>4, <1>7
    <3> QED
      BY <1>13, <3>1
  <2>1. d # 0 /\ k < 2 * b /\ r < s + s /\ s < W * W /\ (k < b => n < d * W)
    BY <1>4, <1>6, <1>7, <2>0
  <2>2. PICK q2, r2 \in Nat : /\ q2 = quot' /\ r2 = rem' /\ n = q2 * d + r2 /\ r2 < s /\ r2 <= r
                              /\ k >= b => q2 = 0
    <3>1. CASE r >= s
      <4>1. r - s \in Nat /\ r - s < s /\ n = (q + p) * d + (r - s)
        BY <1>4, <1>7, <2>1, <3>1, BitTracks
      <4>2. k < b /\ n < d * W
        BY <1>13, <2>1, <3>1
      <4>3. q + p < W
        <5>1. PICK m \in Nat : m = q + p
          OBVIOUS
        <5>2. m * d + (r - s) < W * d
          BY <4>1, <4>2, <5>1
        <5>3. m < W
          BY <4>1, <5>2, HighBound
        <5> QED
          BY <5>1, <5>3
      <4>4. Add(q, p) = q + p
        BY <1>2, <4>3, AddIsExact
      <4>5. Shl(1, k) = p
        <5>1. 1 < Word
          BY Sizes
        <5> QED
          BY <1>2, <1>6, <4>2, <5>1, ModPower
      <4>6. Wide(WideSub(<<r1, r0>>, <<s1, s0>>)) = r - s
        <5>1. r0 < Word /\ s0 < Word /\ r1 * Word + r0 = r /\ s1 * Word + s0 = s
          BY <1>2, <1>8, <1>9
        <5>2. r1 * Word + r0 >= s1 * Word + s0
          BY <3>1, <5>1
        <5>3. Wide(WideSub(<<r1, r0>>, <<s1, s0>>)) = (r1 * Word + r0) - (s1 * Word + s0)
          BY <5>1, <5>2, WideSubIsExact
        <5> QED
          BY <5>1, <5>3
      <4>7. rem' = r - s /\ quot' = q + p
        BY <1>11, <1>13, <3>1, <4>4, <4>5, <4>6
      <4> QED
        BY <1>2, <4>1, <4>2, <4>7
    <3>2. CASE r < s
      <4>1. rem' = r /\ quot' = q
        BY <1>11, <3>2
      <4> QED
        BY <1>4, <3>2, <4>1
    <3> QED
      BY <3>1, <3>2
  <2>3. CASE k = 0
    <3>1. stage' = "done" /\ result' = q2
      BY <1>11, <1>13, <2>2, <2>3
    <3>2. s = d
      BY <1>6, <1>7, <2>3, TwoTo
    <3>3. q2 < W
      <4>1. CASE b = 0
        BY <1>2, <2>2, <2>3, <4>1
      <4>2. CASE b > 0
        <5>1. q2 * d + r2 < W * d
          <6>1. k < b /\ d * W = W * d
            BY <2>3, <4>2
          <6> QED
            BY <2>1, <2>2, <6>1
        <5> QED
          BY <5>1, HighBound
      <4> QED
        BY <4>1, <4>2
    <3>4. Good(call, IF q2 < Word THEN q2 ELSE Panic)
      BY <1>1, <1>2, <2>0, <2>2, <3>2, QuotientIsGood
    <3> QED
      BY <1>1, <1>2, <3>1, <3>3, <3>4, DoneKeeps
  <2>4. CASE k # 0
    <3>1. PICK j \in Nat : k = j + 1 /\ j = k - 1
      BY <2>4
    <3>2. stage' = "div512" /\ i' = j
      BY <1>1, <1>11, <1>13, <2>4, <3>1
    <3>3. d * 2^(j + 1) = s
      BY <1>6, <1>7, <3>1
    <3>4. d * 2^j < W * W
      <4>1. PICK pj \in Nat : pj = 2^j /\ 2^(j + 1) = pj * 2
        BY TwoNext
      <4>2. d * pj <= d * (pj * 2)
        OBVIOUS
      <4>3. PICK ww, m \in Nat : ww = W * W /\ m = d * pj
        OBVIOUS
      <4> QED
        BY <2>1, <3>3, <4>1, <4>2, <4>3
    <3>5. j < b => n < d * W
      <4>1. CASE k < b
        BY <2>1, <4>1
      <4>2. CASE k = b
        <5>1. p = W
          BY <1>2, <1>6, <4>2 DEF Word
        <5>2. n = r2
          <6>1. q2 * d = 0
            <7>1. q2 = 0
              BY <2>2, <4>2
            <7>2. 0 * d = 0
              OBVIOUS
            <7> QED
              BY <7>1, <7>2
          <6>2. n = 0 + r2
            BY <2>2, <6>1
          <6> QED
            BY <6>2
        <5> QED
          BY <1>7, <2>2, <5>1, <5>2
      <4> QED
        BY <3>1, <4>1, <4>2
    <3>6. Divisor' = d /\ Dividend' = n /\ Word' = W /\ Bits' = b
      BY <1>1, <1>2 DEF Divisor, Dividend, Word, Bits
    <3>7. Dividing'
      BY <2>2, <3>2, <3>6 DEF Dividing
    <3>8. r2 < W * W /\ (j >= b => q2 = 0) /\ j < 2 * b
      <4>1. PICK ww \in Nat : ww = W * W
        OBVIOUS
      <4>2. r2 < ww
        BY <1>4, <2>2, <4>1
      <4> QED
        BY <2>1, <2>2, <3>1, <4>1, <4>2
    <3>9. Broad'
      <4>1. rem' < Word' * Word' /\ (i' >= Bits' => quot' = 0)
        BY <2>2, <3>2, <3>6, <3>8
      <4>2. /\ Divisor' # 0 /\ i' < 2 * Bits' /\ Divisor' * 2^(i') < Word' * Word'
            /\ rem' < Divisor' * 2^(i' + 1)
        BY <2>0, <2>2, <3>2, <3>3, <3>4, <3>6, <3>8
      <4>3. i' < Bits' => Dividend' < Divisor' * Word'
        BY <3>2, <3>5, <3>6
      <4> QED
        BY <1>1, <4>1, <4>2, <4>3 DEF Broad
    <3>10. Narrow' /\ Powering' /\ ResultsDocumented'
      BY <3>2 DEF Narrow, Powering, ResultsDocumented
    <3> QED
      BY <1>1, <3>7, <3>9, <3>10 DEF MathInv
  <2> QED
    BY <2>3, <2>4
<1> QED
  BY <1>12, <1>13

-----------------------------------------------------------------------------
(***************************************************************************)
(* Powers, square by square.                                               *)
(***************************************************************************)
LEMMA ExactPower ==
  ASSUME ExponentLaws, call \in Calls, call.op = "pow"
  PROVE  \E x, y, v \in Nat : /\ x = call.x /\ y = call.y /\ v = Power(x, y) /\ x < Word
                              /\ ~ByZero(call) /\ Exact(call) = v
<1>1. PICK x, y \in Nat : x = call.x /\ y = call.y /\ x < Word
  BY CallIs
<1>2. Power(x, y) \in Nat
  BY PowerIs
<1> QED
  BY <1>1, <1>2 DEF ByZero, Exact

LEMMA BeginPowKeeps ==
  ASSUME ExponentLaws, MathInv, BeginPow
  PROVE  MathInv'
<1>1. /\ call \in Calls /\ call' = call /\ call.op = "pow" /\ call.backend # "lean"
      /\ stage' = "pow" /\ rem' = call.x /\ quot' = 1 /\ i' = call.y
  BY DEF MathInv, BeginPow
<1>2. PICK x, y, v \in Nat : x = call.x /\ y = call.y /\ v = Power(x, y) /\ x < Word
  BY <1>1, ExactPower
<1>3. Word' = Word /\ 1 < Word
  BY Sizes DEF Word, Bits
<1>4. 1 * Power(x, y) = Power(x, y)
  BY <1>2
<1>5. Powering'
  <2>1. quot' * Power(rem', i') = Power(call'.x, call'.y)
    BY <1>1, <1>2, <1>4
  <2> QED
    BY <1>1, <1>2, <1>3, <2>1 DEF Powering
<1>6. Dividing' /\ Narrow' /\ Broad' /\ ResultsDocumented'
  BY <1>1 DEF Dividing, Narrow, Broad, ResultsDocumented
<1> QED
  BY <1>1, <1>5, <1>6 DEF MathInv

LEMMA EndPowKeeps ==
  ASSUME ExponentLaws, MathInv, EndPow
  PROVE  MathInv'
<1>1. /\ call \in Calls /\ call' = call /\ stage = "pow" /\ i = 0 /\ stage' = "done" /\ result' = quot
      /\ call.op = "pow" /\ quot \in Nat /\ quot < Word /\ rem \in Nat
      /\ quot * Power(rem, i) = Power(call.x, call.y)
  BY DEF MathInv, Powering, EndPow, Finish
<1>2. PICK v \in Nat : v = Power(call.x, call.y) /\ ~ByZero(call) /\ Exact(call) = v
  BY <1>1, ExactPower
<1>3. Power(rem, 0) = 1
  BY <1>1, PowerIs
<1>4. quot = v
  BY <1>1, <1>2, <1>3
<1>5. Good(call, IF v < Word THEN v ELSE Panic)
  BY <1>2, GoodExact
<1> QED
  BY <1>1, <1>4, <1>5, DoneKeeps

\* What was multiplied in is not zero: the power is as large as the base, and
\* as its square if more than one factor is left.
LEMMA PowerExceeds ==
  ASSUME ExponentLaws, NEW q \in Nat, NEW b \in Nat, NEW e \in Nat, NEW v \in Nat,
         v = q * Power(b, e), q > 0, b > 0, e > 0
  PROVE  q * b <= v /\ b <= v /\ (e > 1 => b * b <= v)
<1>1. PICK f, p \in Nat : e = f + 1 /\ p = Power(b, f) /\ p > 0
  <2>1. PICK f \in Nat : e = f + 1
    <3>1. e - 1 \in Nat /\ e = (e - 1) + 1
      OBVIOUS
    <3> QED
      BY <3>1
  <2> QED
    BY <2>1, PowerIs
<1>2. Power(b, e) = b * p
  BY <1>1, PowerIs
<1>3. v = q * (b * p)
  BY <1>2
<1>4. q * (b * p) = (q * b) * p
  OBVIOUS
<1>5. q * b <= (q * b) * p /\ b <= q * b
  BY <1>1
<1>6. e > 1 => b * b <= v
  <2> SUFFICES ASSUME e > 1 PROVE b * b <= v
    OBVIOUS
  <2>1. PICK g, s \in Nat : f = g + 1 /\ s = Power(b, g) /\ s > 0
    <3>1. PICK g \in Nat : f = g + 1
      <4>1. f - 1 \in Nat /\ f = (f - 1) + 1
        BY <1>1
      <4> QED
        BY <4>1
    <3> QED
      BY <3>1, PowerIs
  <2>2. p = b * s
    BY <1>1, <2>1, PowerIs
  <2>3. b <= b * s
    BY <2>1
  <2>4. b * b <= b * p
    BY <2>2, <2>3
  <2>5. b * p <= q * (b * p)
    OBVIOUS
  <2>6. PICK bb, bp, w \in Nat : bb = b * b /\ bp = b * p /\ w = q * (b * p)
    OBVIOUS
  <2> QED
    BY <1>3, <2>4, <2>5, <2>6
<1>7. PICK qb, w \in Nat : qb = q * b /\ w = (q * b) * p
  OBVIOUS
<1> QED
  BY <1>3, <1>4, <1>5, <1>6, <1>7

LEMMA SquareKeeps ==
  ASSUME ExponentLaws, MathInv, Square
  PROVE  MathInv'
<1>1. /\ call \in Calls /\ call' = call /\ stage = "pow" /\ call.op = "pow" /\ call.backend # "lean"
      /\ quot \in Nat /\ rem \in Nat /\ i \in Nat
  BY DEF MathInv, Powering, Square
<1>2. PICK q, b, e \in Nat : q = quot /\ b = rem /\ e = i
  BY <1>1
<1>3. PICK x, y, v \in Nat : /\ x = call.x /\ y = call.y /\ v = Power(x, y)
                             /\ ~ByZero(call) /\ Exact(call) = v
  BY <1>1, ExactPower
<1>4. PICK W \in Nat : W = Word /\ q < W /\ b < W /\ q * Power(b, e) = v /\ (q = 0 => b = 0) /\ e > 0
  <2>1. quot < Word /\ rem < Word /\ quot * Power(rem, i) = Power(call.x, call.y) /\ (quot = 0 => rem = 0)
    BY <1>1 DEF MathInv, Powering
  <2>2. i > 0
    BY DEF Square
  <2> QED
    BY <1>2, <1>3, <2>1, <2>2, Sizes
<1>5. PICK h, o \in Nat : h = e \div 2 /\ o = e % 2 /\ e = h + h + o /\ (o = 0 \/ o = 1)
  OBVIOUS
<1>6. PICK qb, bb \in Nat : qb = q * b /\ bb = b * b
  OBVIOUS
<1>7. Mul(q, b) = (IF qb < W THEN qb ELSE Panic) /\ Mul(b, b) = (IF bb < W THEN bb ELSE Panic)
  BY <1>4, <1>6, MulIsExact
<1>8. PICK product, square :
        /\ product = IF o = 1 THEN Mul(q, b) ELSE q
        /\ square = IF h = 0 /\ call.backend = "core" THEN b ELSE Mul(b, b)
  OBVIOUS
<1>9. IF product = Panic \/ square = Panic THEN stage' = "done" /\ result' = Panic
      ELSE quot' = product /\ rem' = square /\ i' = h /\ stage' = stage
  <2>1. LET p == IF i % 2 = 1 THEN Mul(quot, rem) ELSE quot
            s == IF i \div 2 = 0 /\ call.backend = "core" THEN rem ELSE Mul(rem, rem)
        IN  IF p = Panic \/ s = Panic THEN Finish(Panic)
            ELSE quot' = p /\ rem' = s /\ i' = i \div 2 /\ UNCHANGED <<stage, result>>
    BY DEF Square
  <2>2. /\ product = IF i % 2 = 1 THEN Mul(quot, rem) ELSE quot
        /\ square = IF i \div 2 = 0 /\ call.backend = "core" THEN rem ELSE Mul(rem, rem)
    BY <1>2, <1>5, <1>8
  <2> QED
    BY <1>2, <1>5, <2>1, <2>2 DEF Finish
<1>10. Good(call, IF v < Word THEN v ELSE Panic)
  BY <1>3, GoodExact
<1>11. q # Panic /\ b # Panic /\ qb # Panic /\ bb # Panic
  BY DEF Panic
\* A product that is no word: the power is none.
<1>12. CASE product = Panic
  <2>1. qb >= W
    BY <1>7, <1>8, <1>11, <1>12
  <2>2. q > 0 /\ b > 0
    <3>1. 0 * b = 0 /\ q * 0 = 0
      OBVIOUS
    <3> QED
      BY <1>4, <1>6, <2>1, <3>1
  <2>3. q * b <= v
    BY <1>4, <2>2, PowerExceeds
  <2>4. ~(v < W)
    BY <1>6, <2>1, <2>3
  <2> QED
    BY <1>1, <1>4, <1>9, <1>10, <1>12, <2>4, DoneKeeps
\* A square that is no word: the power is none, or the helper refuses what its
\* square would be.
<1>13. CASE square = Panic
  <2>1. bb >= W /\ ~(h = 0 /\ call.backend = "core")
    BY <1>7, <1>8, <1>11, <1>13
  <2>2. q > 0 /\ b > 0
    <3>1. 0 * 0 = 0
      OBVIOUS
    <3> QED
      BY <1>4, <1>6, <2>1, <3>1
  <2>3. b <= v /\ (e > 1 => b * b <= v)
    BY <1>4, <2>2, PowerExceeds
  <2>4. CASE h > 0
    <3>1. e > 1
      BY <1>5, <2>4
    <3>2. ~(v < W)
      BY <1>6, <2>1, <2>3, <3>1
    <3> QED
      BY <1>1, <1>4, <1>9, <1>10, <1>13, <3>2, DoneKeeps
  <2>5. CASE h = 0
    <3>1. call.backend = "evm"
      BY <1>1, <2>1, <2>5, CallIs
    <3>2. Power(x, 2 * y) = v * v
      <4>1. Power(x, y + y) = Power(x, y) * Power(x, y)
        BY PowerAdds
      <4>2. 2 * y = y + y
        OBVIOUS
      <4> QED
        BY <1>3, <4>1, <4>2
    <3>3. b * b <= v * v
      <4>1. b * b <= b * v /\ b * v <= v * v
        BY <2>3
      <4>2. PICK m, n, w \in Nat : m = b * b /\ n = b * v /\ w = v * v
        OBVIOUS
      <4> QED
        BY <4>1, <4>2
    <3>4. PICK w \in Nat : w = v * v /\ w >= W
      <4>1. PICK w \in Nat : w = v * v
        OBVIOUS
      <4> QED
        BY <1>6, <2>1, <3>3, <4>1
    <3>5. Refuses(call)
      BY <1>1, <1>3, <1>4, <3>1, <3>2, <3>4 DEF Refuses
    <3>6. Good(call, Panic)
      BY <3>5 DEF Good
    <3> QED
      BY <1>1, <1>9, <1>13, <3>6, DoneKeeps
  <2> QED
    BY <2>4, <2>5
\* Neither: what is left is the power of the square.
<1>14. CASE product # Panic /\ square # Panic
  <2>1. quot' = product /\ rem' = square /\ i' = h /\ stage' = "pow"
    BY <1>1, <1>9, <1>14
  <2>2. PICK q2, b2 \in Nat : q2 = product /\ b2 = square /\ q2 < W /\ b2 < W
    BY <1>4, <1>7, <1>8, <1>14
  <2>3. q2 = 0 => b2 = 0
    <3> SUFFICES ASSUME q2 = 0 PROVE b2 = 0
      OBVIOUS
    <3>1. b = 0
      <4>1. q2 = q \/ q2 = qb
        BY <1>7, <1>8, <1>14, <2>2
      <4>2. qb = 0 => q = 0 \/ b = 0
        BY <1>6
      <4> QED
        BY <1>4, <4>1, <4>2
    <3>2. bb = 0
      BY <1>6, <3>1
    <3> QED
      BY <1>7, <1>8, <1>14, <2>2, <3>1, <3>2
  <2>4. Power(b2, h) = Power(b, h + h)
    <3>1. CASE h = 0
      <4>1. h + h = 0
        BY <3>1
      <4>2. Power(b2, 0) = 1 /\ Power(b, 0) = 1
        BY PowerIs
      <4> QED
        BY <3>1, <4>1, <4>2
    <3>2. CASE h # 0
      <4>1. b2 = b * b
        BY <1>6, <1>7, <1>8, <1>14, <2>2, <3>2
      <4> QED
        BY <4>1, PowerOfSquare
    <3> QED
      BY <3>1, <3>2
  <2>5. q2 * Power(b2, h) = v
    <3>1. PICK p \in Nat : p = Power(b, h + h) /\ Power(b, (h + h) + 1) = b * p
      <4>1. PICK m \in Nat : m = h + h
        OBVIOUS
      <4>2. Power(b, m) \in Nat /\ Power(b, m + 1) = b * Power(b, m)
        BY PowerIs
      <4> QED
        BY <4>1, <4>2
    <3>2. CASE o = 0
      <4>1. e = h + h /\ q2 = q
        BY <1>5, <1>8, <2>2, <3>2
      <4> QED
        BY <1>4, <2>4, <4>1
    <3>3. CASE o = 1
      <4>1. e = (h + h) + 1 /\ q2 = qb
        BY <1>5, <1>7, <1>8, <1>14, <2>2, <3>3
      <4>2. q * (b * p) = (q * b) * p
        OBVIOUS
      <4>3. v = q * (b * p)
        BY <1>4, <3>1, <4>1
      <4> QED
        BY <1>6, <2>4, <3>1, <4>1, <4>2, <4>3
    <3> QED
      BY <1>5, <3>2, <3>3
  <2>6. Powering'
    <3>1. Word' = W
      BY <1>4 DEF Word, Bits
    <3>2. quot' * Power(rem', i') = Power(call'.x, call'.y)
      BY <1>1, <1>3, <2>1, <2>2, <2>5
    <3> QED
      BY <1>1, <2>1, <2>2, <2>3, <3>1, <3>2 DEF Powering
  <2>7. Dividing' /\ Narrow' /\ Broad' /\ ResultsDocumented'
    BY <2>1 DEF Dividing, Narrow, Broad, ResultsDocumented
  <2> QED
    BY <1>1, <2>6, <2>7 DEF MathInv
<1> QED
  BY <1>12, <1>13, <1>14

-----------------------------------------------------------------------------
LEMMA NextHolds ==
  ASSUME ExponentLaws, MathInv, [MathNext]_mathVars
  PROVE  MathInv'
<1>1. CASE Evaluate
  BY <1>1, EvaluateKeeps
<1>2. CASE BeginDiv
  BY <1>2, BeginDivKeeps
<1>3. CASE Bit256
  BY <1>3, Bit256Keeps
<1>4. CASE BeginMuldiv
  BY <1>4, BeginMuldivKeeps
<1>5. CASE Bit512
  BY <1>5, Bit512Keeps
<1>6. CASE BeginPow
  BY <1>6, BeginPowKeeps
<1>7. CASE Square
  BY <1>7, SquareKeeps
<1>8. CASE EndPow
  BY <1>8, EndPowKeeps
<1>9. CASE UNCHANGED mathVars
  <2>1. call' = call /\ stage' = stage /\ rem' = rem /\ quot' = quot /\ i' = i /\ result' = result
    BY <1>9 DEF mathVars
  <2> QED
    BY <2>1 DEF MathInv, Dividing, Narrow, Broad, Powering, ResultsDocumented, Divisor, Dividend,
                Word, Bits
<1> QED
  BY <1>1, <1>2, <1>3, <1>4, <1>5, <1>6, <1>7, <1>8, <1>9 DEF MathNext

\* The invariant says what is documented: the loops track, and the result is good.
LEMMA InvMeans ==
  ASSUME ExponentLaws, MathInv
  PROVE  CallsAsDocumented
<1>1. DivisionTracks
  <2> SUFFICES ASSUME stage \in {"div256", "div512"}, Divisor > 0
               PROVE  Dividend = quot * Divisor + rem /\ rem < Divisor * 2^(i + 1)
    BY DEF DivisionTracks
  <2>1. CASE stage = "div256"
    BY <2>1 DEF MathInv, Dividing, Narrow
  <2>2. CASE stage = "div512"
    BY <2>2 DEF MathInv, Dividing, Broad
  <2> QED
    BY <2>1, <2>2
<1>2. PowTracks
  BY DEF MathInv, Powering, PowTracks
<1>3. ResultsDocumented
  BY DEF MathInv
<1> QED
  BY <1>1, <1>2, <1>3 DEF CallsAsDocumented

\* u256_div_rem, wide_muldiv, cam_pow and the operators of U256, their twins in
\* the emitted Solidity and in the Lean prelude: for limbs of any even width
\* and any calls, every call computes what the documents say, but for the
\* departures StdMath names, and no step of a loop loses anything.
THEOREM CallsAlwaysAsDocumented ==
  ASSUME ExponentLaws
  PROVE  MathSpec => []CallsAsDocumented
<1>1. MathInit => MathInv
  BY InitHolds
<1>2. MathInv /\ [MathNext]_mathVars => MathInv'
  BY NextHolds
<1>3. MathInv => CallsAsDocumented
  BY InvMeans
<1> QED
  BY <1>1, <1>2, <1>3, PTL DEF MathSpec
=============================================================================
