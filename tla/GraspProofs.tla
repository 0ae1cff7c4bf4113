------------------------------ MODULE GraspProofs ------------------------------
(***************************************************************************)
(* From a detection to the fingers around a nut: what Selection makes of   *)
(* any scene, and why the grip bit may be read after wait_until_idle, for  *)
(* every gripper that is prompt in the sense of GripperAssumption.         *)
(***************************************************************************)
EXTENDS Selection, Gripper, FiniteSetTheorems, WellFoundedInduction, TLAPS

-----------------------------------------------------------------------------
(* Whole numbers.                                                          *)

(* A set of natural numbers has a least one.                               *)
LEMMA Least ==
  ASSUME NEW T \in SUBSET Nat, T # {}
  PROVE  \E m \in T : \A k \in T : m <= k
<1>1. PICK m \in T : \A k \in T : << k, m >> \notin OpToRel(<, Nat)
  BY WFMin, NatLessThanWellFounded, Zenon
<1>2. \A k \in T : ~ (k < m)
  BY <1>1, Zenon DEF OpToRel
<1> QED BY <1>2

LEMMA DivRest ==
  ASSUME NEW a \in Int, NEW b \in Nat \ {0}
  PROVE  a \div b \in Int /\ \E r \in 0 .. b - 1 : a = b * (a \div b) + r
<1>1. a \div b \in Int /\ b * (a \div b) <= a /\ a < b * (a \div b) + b
  OBVIOUS
<1>2. b * (a \div b) \in Int
  BY <1>1
<1> DEFINE r == a - b * (a \div b)
<1>3. r \in 0 .. b - 1 /\ a = b * (a \div b) + r
  BY <1>1, <1>2
<1> QED BY <1>1, <1>3

LEMMA AbsoluteIs ==
  ASSUME NEW n \in Int
  PROVE  Absolute(n) \in Nat /\ n <= Absolute(n) /\ -n <= Absolute(n) /\ (Absolute(n) = n \/ Absolute(n) = -n)
BY DEF Absolute

(* A quotient rounded down, taken times the divisor, lacks less than one.  *)
LEMMA AbsoluteOfQuotient ==
  ASSUME NEW a \in Int, NEW b \in Nat \ {0}, NEW q \in Int, NEW r \in 0 .. b - 1, a = b * q + r
  PROVE  Absolute(a) <= b * Absolute(q) + b
<1>1. b * q \in Int /\ b * (-q) = -(b * q)
  OBVIOUS
<1>2. CASE q >= 0
  BY <1>1, <1>2 DEF Absolute
<1>3. CASE q < 0
  BY <1>1, <1>3 DEF Absolute
<1> QED BY <1>2, <1>3

(* A sum of two products with numbers below b.                             *)
LEMMA Smaller ==
  ASSUME NEW b \in Nat \ {0}, NEW r \in 0 .. b - 1, NEW x \in Int
  PROVE  r * x \in Int /\ r * x <= b * Absolute(x) /\ -(r * x) <= b * Absolute(x)
<1>1. Absolute(x) \in Nat /\ x <= Absolute(x) /\ -x <= Absolute(x)
  BY AbsoluteIs
<1>2. PICK p \in Nat : p = Absolute(x)
  BY <1>1
<1>3. r * x <= r * p /\ r * (-x) <= r * p /\ r * (-x) = -(r * x)
  BY <1>1, <1>2
<1>4. r * p <= b * p
  BY <1>2
<1> QED BY <1>2, <1>3, <1>4

-----------------------------------------------------------------------------
(* The push.  (dx, dy) is the way from the target to its neighbour, D its  *)
(* length rounded down, (q1, q2) that from the target to the point the     *)
(* push enters at or the one on the other side, and (f1, f2) that to its   *)
(* end; r and s are what the roundings cut off.                            *)

(* The entry lies across the line but for the rounding.                    *)
LEMMA EntryAcross ==
  ASSUME NEW dx \in Int, NEW dy \in Int, NEW D \in Nat \ {0}, NEW c \in Int,
         NEW q1 \in Int, NEW q2 \in Int, NEW r1 \in 0 .. D - 1, NEW r2 \in 0 .. D - 1,
         (-dy) * c = D * q1 + r1, dx * c = D * q2 + r2
  PROVE  /\ q1 * dx + q2 * dy \in Int
         /\ q1 * dx + q2 * dy <= Absolute(dx) + Absolute(dy)
         /\ -(q1 * dx + q2 * dy) <= Absolute(dx) + Absolute(dy)
<1>1. PICK m \in Int : m = q1 * dx + q2 * dy
  OBVIOUS
<1>2. D * m = D * q1 * dx + D * q2 * dy
  BY <1>1
<1>3. D * q1 * dx = (-dy) * c * dx - r1 * dx /\ D * q2 * dy = dx * c * dy - r2 * dy
  <2>1. PICK a \in Int, b \in Int : a = D * q1 /\ b = D * q2
    OBVIOUS
  <2>2. PICK i \in Int, j \in Int : i = (-dy) * c /\ j = dx * c
    OBVIOUS
  <2>3. a = i - r1 /\ b = j - r2
    BY <2>1, <2>2
  <2>4. (i - r1) * dx = i * dx - r1 * dx /\ (j - r2) * dy = j * dy - r2 * dy
    BY <2>2
  <2>5. a * dx = i * dx - r1 * dx /\ b * dy = j * dy - r2 * dy
    BY <2>3, <2>4
  <2>6. D * q1 * dx = a * dx /\ D * q2 * dy = b * dy /\ (-dy) * c * dx = i * dx /\ dx * c * dy = j * dy
    BY <2>1, <2>2
  <2> QED BY <2>5, <2>6
<1>4. (-dy) * c * dx + dx * c * dy = 0
  OBVIOUS
<1>5. PICK u \in Int, v \in Int, x \in Nat, y \in Nat :
        u = r1 * dx /\ v = r2 * dy /\ x = Absolute(dx) /\ y = Absolute(dy)
  <2>1. Absolute(dx) \in Nat /\ Absolute(dy) \in Nat
    BY AbsoluteIs
  <2>2. r1 * dx \in Int /\ r2 * dy \in Int
    OBVIOUS
  <2> QED BY <2>1, <2>2
<1>6. /\ u <= D * x /\ -u <= D * x /\ v <= D * y /\ -v <= D * y
  BY <1>5, Smaller
<1>7. D * m = -u - v
  BY <1>2, <1>3, <1>4, <1>5
<1>8. D * m <= D * (x + y) /\ D * (-m) <= D * (x + y)
  <2>1. D * (x + y) = D * x + D * y /\ D * (-m) = -(D * m)
    BY <1>1
  <2> QED BY <1>6, <1>7, <2>1
<1>9. m <= x + y /\ -m <= x + y
  <2>1. \A k \in Int : D * k <= D * (x + y) => k <= x + y
    OBVIOUS
  <2> QED BY <1>8, <2>1
<1> QED BY <1>1, <1>5, <1>9

(* It is as far as the offset says, but for the rounding.                  *)
LEMMA EntryFar ==
  ASSUME NEW dx \in Int, NEW dy \in Int, NEW D \in Nat \ {0}, NEW c \in Nat,
         NEW q1 \in Int, NEW q2 \in Int, NEW r1 \in 0 .. D - 1, NEW r2 \in 0 .. D - 1,
         (-dy) * c = D * q1 + r1, dx * c = D * q2 + r2, D <= Absolute(dx) + Absolute(dy)
  PROVE  c <= Absolute(q1) + Absolute(q2) + 2
<1>1. PICK x \in Nat, y \in Nat, a \in Nat, b \in Nat :
        x = Absolute(dx) /\ y = Absolute(dy) /\ a = Absolute(q1) /\ b = Absolute(q2)
  BY AbsoluteIs
<1>2. Absolute((-dy) * c) = y * c /\ Absolute(dx * c) = x * c
  <2>1. \A n \in Int : Absolute(n * c) = Absolute(n) * c /\ Absolute(-n) = Absolute(n)
    <3> SUFFICES ASSUME NEW n \in Int PROVE Absolute(n * c) = Absolute(n) * c /\ Absolute(-n) = Absolute(n)
      OBVIOUS
    <3>1. CASE n >= 0
      <4>1. n * c >= 0 /\ n * c \in Int
        BY <3>1
      <4> QED BY <3>1, <4>1 DEF Absolute
    <3>2. CASE n < 0
      <4>1. n * c <= 0 /\ n * c \in Int /\ (-n) * c = -(n * c)
        BY <3>2
      <4> QED BY <3>2, <4>1 DEF Absolute
    <3> QED BY <3>1, <3>2
  <2> QED BY <1>1, <2>1
<1>3. y * c <= D * a + D /\ x * c <= D * b + D
  <2>1. (-dy) * c \in Int /\ dx * c \in Int
    OBVIOUS
  <2> QED BY <1>1, <1>2, <2>1, AbsoluteOfQuotient
<1>4. D * c <= (x + y) * c /\ (x + y) * c = x * c + y * c
  BY <1>1
<1>5. D * c <= D * (a + b + 2)
  BY <1>3, <1>4
<1>6. c <= a + b + 2
  BY <1>5
<1> QED BY <1>1, <1>6

LEMMA EntryIs ==
  ASSUME NEW dx \in Int, NEW dy \in Int, NEW D \in Nat \ {0}, NEW c \in Nat,
         D <= Absolute(dx) + Absolute(dy)
  PROVE  LET q1 == ((-dy) * c) \div D
             q2 == (dx * c) \div D
         IN  /\ q1 \in Int /\ q2 \in Int /\ q1 * dx + q2 * dy \in Int
             /\ q1 * dx + q2 * dy <= Absolute(dx) + Absolute(dy)
             /\ -(q1 * dx + q2 * dy) <= Absolute(dx) + Absolute(dy)
             /\ c <= Absolute(q1) + Absolute(q2) + 2
<1> DEFINE q1 == ((-dy) * c) \div D
           q2 == (dx * c) \div D
<1>1. (-dy) * c \in Int /\ dx * c \in Int /\ c \in Int
  OBVIOUS
<1>2. q1 \in Int /\ \E r \in 0 .. D - 1 : (-dy) * c = D * q1 + r
  BY <1>1, DivRest, Zenon
<1>3. q2 \in Int /\ \E r \in 0 .. D - 1 : dx * c = D * q2 + r
  BY <1>1, DivRest, Zenon
<1> HIDE DEF q1, q2
<1>4. PICK r1 \in 0 .. D - 1 : (-dy) * c = D * q1 + r1
  BY <1>2, Zenon
<1>5. PICK r2 \in 0 .. D - 1 : dx * c = D * q2 + r2
  BY <1>3, Zenon
<1>6. c <= Absolute(q1) + Absolute(q2) + 2
  BY <1>2, <1>3, <1>4, <1>5, EntryFar, Zenon
<1>7. /\ q1 * dx + q2 * dy \in Int
      /\ q1 * dx + q2 * dy <= Absolute(dx) + Absolute(dy)
      /\ -(q1 * dx + q2 * dy) <= Absolute(dx) + Absolute(dy)
  BY <1>1, <1>2, <1>3, <1>4, <1>5, EntryAcross, Zenon
<1> QED BY <1>2, <1>3, <1>6, <1>7 DEF q1, q2

(* The end lies on the other side of the target, num/den times as far, but *)
(* for the rounding; e is the entry, k the way to the end turned round.    *)
LEMMA EndFrees ==
  ASSUME NEW dx \in Int, NEW dy \in Int, NEW num \in Nat \ {0}, NEW den \in Nat \ {0}, NEW c \in Nat,
         NEW W \in Nat, Absolute(dx) + Absolute(dy) <= W,
         NEW e1 \in Int, NEW e2 \in Int, c <= Absolute(e1) + Absolute(e2) + 2,
         -(e1 * dx + e2 * dy) <= Absolute(dx) + Absolute(dy),
         NEW k1 \in Int, NEW k2 \in Int, NEW s1 \in 0 .. den - 1, NEW s2 \in 0 .. den - 1,
         num * e1 = den * k1 + s1, num * e2 = den * k2 + s2,
         NEW reach \in Int, reach = num * (c - 2) - 2 * den, reach > 0,
         reach * reach > 4 * den * (den + num) * W
  PROVE  k1 * k1 + k2 * k2 + 2 * (k1 * dx + k2 * dy) > 0
<1>1. PICK x \in Nat, y \in Nat, a \in Nat, b \in Nat, g \in Nat, h \in Nat :
        /\ x = Absolute(dx) /\ y = Absolute(dy) /\ a = Absolute(e1) /\ b = Absolute(e2)
        /\ g = Absolute(k1) /\ h = Absolute(k2)
  BY AbsoluteIs
<1>2. num * a <= den * g + den /\ num * b <= den * h + den
  <2>1. \A n \in Int : Absolute(num * n) = num * Absolute(n)
    <3> SUFFICES ASSUME NEW n \in Int PROVE Absolute(num * n) = num * Absolute(n)
      OBVIOUS
    <3>1. CASE n >= 0
      <4>1. num * n >= 0 /\ num * n \in Int
        BY <3>1
      <4> QED BY <3>1, <4>1 DEF Absolute
    <3>2. CASE n < 0
      <4>1. num * n < 0 /\ num * n \in Int /\ num * (-n) = -(num * n)
        BY <3>2
      <4> QED BY <3>2, <4>1 DEF Absolute
    <3> QED BY <3>1, <3>2
  <2>2. num * e1 \in Int /\ num * e2 \in Int
    OBVIOUS
  <2> QED BY <1>1, <2>1, <2>2, AbsoluteOfQuotient
<1>3. num * (c - 2) <= num * (a + b) /\ num * (a + b) = num * a + num * b
  BY <1>1
<1>4. reach <= den * (g + h)
  <2>1. den * (g + h) = den * g + den * h /\ num * (c - 2) \in Int
    BY <1>1
  <2> QED BY <1>2, <1>3, <2>1
<1>5. PICK w \in Int, p \in Int, sum \in Nat :
        w = e1 * dx + e2 * dy /\ p = k1 * dx + k2 * dy /\ sum = g + h
  BY <1>1
<1>6. den * (-p) <= (num + den) * (x + y)
  <2>1. num * w = num * e1 * dx + num * e2 * dy /\ den * p = den * k1 * dx + den * k2 * dy
    BY <1>5
  <2>2. num * e1 * dx = den * k1 * dx + s1 * dx /\ num * e2 * dy = den * k2 * dy + s2 * dy
    <3>1. (den * k1 + s1) * dx = den * k1 * dx + s1 * dx /\ (den * k2 + s2) * dy = den * k2 * dy + s2 * dy
      OBVIOUS
    <3> QED BY <3>1
  <2>3. PICK u \in Int, v \in Int : u = s1 * dx /\ v = s2 * dy /\ u <= den * x /\ v <= den * y
    BY <1>1, Smaller
  <2>4. den * (-p) = num * (-w) + u + v
    <3>1. den * (-p) = -(den * p) /\ num * (-w) = -(num * w)
      BY <1>5
    <3>2. num * w = den * p + u + v
      BY <2>1, <2>2, <2>3
    <3> QED BY <3>1, <3>2, <1>5, <2>3
  <2>5. num * (-w) <= num * (x + y)
    <3>1. -w <= x + y
      BY <1>1, <1>5
    <3> QED BY <1>5, <3>1
  <2>6. (num + den) * (x + y) = num * (x + y) + den * x + den * y
    BY <1>1
  <2> QED BY <2>3, <2>4, <2>5, <2>6
<1>7. (num + den) * (x + y) <= (num + den) * W
  BY <1>1
<1>8. reach * reach <= (den * sum) * (den * sum)
  <2>1. den * sum \in Nat /\ reach <= den * sum
    BY <1>4, <1>5
  <2>2. reach * reach <= reach * (den * sum) /\ reach * (den * sum) <= (den * sum) * (den * sum)
    BY <2>1
  <2> QED BY <2>1, <2>2
<1>9. 4 * den * (den * (-p)) < (den * sum) * (den * sum)
  <2>1. PICK z \in Int, t \in Nat : z = den * (-p) /\ t = (num + den) * W
    BY <1>5
  <2>2. z <= t
    BY <1>6, <1>7, <2>1
  <2>3. 4 * den * z <= 4 * den * t
    BY <2>1, <2>2
  <2>4. 4 * den * (den + num) * W = 4 * den * t
    BY <2>1
  <2> QED BY <1>8, <2>1, <2>3, <2>4
<1>10. 4 * (-p) < sum * sum
  <2>1. (den * sum) * (den * sum) = (den * den) * (sum * sum) /\ 4 * den * (den * (-p)) = (den * den) * (4 * (-p))
    BY <1>5
  <2>2. den * den \in Nat \ {0} /\ sum * sum \in Int /\ 4 * (-p) \in Int
    BY <1>5
  <2>3. \A d \in Nat \ {0}, i \in Int, j \in Int : d * i < d * j => i < j
    OBVIOUS
  <2> QED BY <1>9, <2>1, <2>2, <2>3
<1>11. sum * sum <= 2 * (k1 * k1 + k2 * k2)
  <2>1. g * g = k1 * k1 /\ h * h = k2 * k2
    BY <1>1 DEF Absolute
  <2>2. sum * sum = g * g + 2 * (g * h) + h * h /\ (g - h) * (g - h) = g * g - 2 * (g * h) + h * h /\ (g - h) * (g - h) >= 0
    BY <1>5
  <2> QED BY <2>1, <2>2
<1>12. PICK m \in Int : m = k1 * k1 + k2 * k2
  OBVIOUS
<1>13. sum * sum \in Int
  BY <1>5
<1> QED BY <1>5, <1>10, <1>11, <1>12, <1>13

-----------------------------------------------------------------------------
(* Choices.                                                                *)

(* A total and transitive relation has a first among finitely many.        *)
LEMMA First ==
  ASSUME NEW n \in Nat, NEW C \in SUBSET (1 .. n), C # {}, NEW R,
         \A i, j \in C : << i, j >> \in R \/ << j, i >> \in R,
         \A i, j, k \in C : << i, j >> \in R /\ << j, k >> \in R => << i, k >> \in R
  PROVE  \E i \in C : \A j \in C : << i, j >> \in R
<1> DEFINE Among(k) == { i \in C : i <= k }
           Good(k) == Among(k) = {} \/ \E i \in Among(k) : \A j \in Among(k) : << i, j >> \in R
           Bad == { k \in 0 .. n : ~Good(k) }
<1>0. \A i \in C : i \in 1 .. n /\ i \in Nat /\ i <= n /\ 0 < i
  OBVIOUS
<1>1. Among(n) = C
  BY <1>0
<1>2. SUFFICES Bad = {}
  <2> HIDE DEF Among
  <2>1. n \in 0 .. n
    OBVIOUS
  <2>2. Good(n)
    BY <1>2, <2>1
  <2> QED BY <1>1, <2>2
<1>3. SUFFICES ASSUME Bad # {} PROVE FALSE
  OBVIOUS
<1>4. Bad \in SUBSET Nat
  OBVIOUS
<1> HIDE DEF Good
<1>5. PICK m \in Bad : \A k \in Bad : m <= k
  BY <1>3, <1>4, Least
<1>6. m \in 0 .. n /\ ~Good(m)
  OBVIOUS
<1>7. m # 0
  <2>1. \A i \in C : ~ (i <= 0)
    BY <1>0
  <2>2. Among(0) = {}
    BY <2>1
  <2> QED BY <1>6, <2>2 DEF Good
<1>8. m - 1 \in 0 .. n /\ m - 1 \notin Bad
  BY <1>5, <1>6, <1>7
<1>9. Good(m - 1)
  BY <1>8
<1>10. m \in C
  <2> SUFFICES ASSUME m \notin C PROVE FALSE
    OBVIOUS
  <2>1. \A i \in C : i <= m <=> i <= m - 1
    BY <1>0, <1>6
  <2>2. Among(m) = Among(m - 1)
    BY <2>1
  <2> QED BY <1>6, <1>9, <2>2 DEF Good
<1>11. Among(m) = Among(m - 1) \cup {m}
  <2>1. \A i \in C : i <= m <=> i <= m - 1 \/ i = m
    BY <1>0, <1>6
  <2> QED BY <1>6, <1>10, <2>1
<1> HIDE DEF Among
<1>12. << m, m >> \in R
  BY <1>10
<1>13. Among(m) \subseteq C
  BY DEF Among
<1>14. CASE Among(m - 1) = {}
  BY <1>6, <1>11, <1>12, <1>14 DEF Good
<1>15. ASSUME NEW i \in Among(m - 1), \A j \in Among(m - 1) : << i, j >> \in R PROVE FALSE
  <2>1. i \in C /\ Among(m - 1) \subseteq C
    BY <1>11, <1>13
  <2>2. CASE << i, m >> \in R
    BY <1>6, <1>11, <1>15, <2>2 DEF Good
  <2>3. CASE << m, i >> \in R
    <3>1. \A j \in Among(m - 1) : << m, j >> \in R
      BY <1>10, <1>15, <2>1, <2>3
    <3> QED BY <1>6, <1>11, <1>12, <3>1 DEF Good
  <2> QED BY <1>10, <2>1, <2>2, <2>3
<1> QED BY <1>9, <1>14, <1>15 DEF Good

(* A list of detections, or what is left of one.                           *)
Typed(scene) ==
  /\ \E n \in Nat : DOMAIN scene \subseteq 1 .. n
  /\ \A i \in DOMAIN scene : IsDetection(scene[i])

LEMMA Fields ==
  ASSUME NEW d, IsDetection(d)
  PROVE  /\ d.x \in Int /\ d.y \in Int /\ d.z \in Int /\ d.short \in Int
         /\ d.confidence \in Int /\ Area(d) \in Int
<1>1. {d.x, d.y, d.z, d.width, d.height, d.short, d.confidence} \subseteq Int
  BY DEF IsDetection
<1>2. d.width \in Int /\ d.height \in Int
  BY <1>1
<1> QED BY <1>1, <1>2 DEF Area

Suitable(scene, cls) == { i \in DOMAIN scene : scene[i].class_name = cls /\ Passes(scene[i]) }

(* choose_target finds the one nut that no other comes before, or none.    *)
LEMMA TargetChosen ==
  ASSUME NEW scene, Typed(scene), NEW cls
  PROVE  /\ Suitable(scene, cls) = {} => ChooseTarget(scene, cls) = 0
         /\ Suitable(scene, cls) # {} =>
              /\ ChooseTarget(scene, cls) \in Suitable(scene, cls)
              /\ \A j \in Suitable(scene, cls) : Better(scene, ChooseTarget(scene, cls), j)
<1> DEFINE C == Suitable(scene, cls)
           R == { p \in C \X C : Better(scene, p[1], p[2]) }
<1>1. ChooseTarget(scene, cls) =
        IF C = {} THEN 0 ELSE CHOOSE i \in C : \A j \in C : Better(scene, i, j)
  BY DEF ChooseTarget, Suitable
<1>2. SUFFICES ASSUME C # {} PROVE \E i \in C : \A j \in C : Better(scene, i, j)
  BY <1>1
<1>3. PICK n \in Nat : C \subseteq 1 .. n
  BY DEF Typed, Suitable
<1>4. \A i \in C : i \in Int /\ Area(scene[i]) \in Int /\ scene[i].confidence \in Int
  BY <1>3, Fields DEF Typed, Suitable
<1> HIDE DEF C
<1>5. \A i, j \in C : << i, j >> \in R <=> Better(scene, i, j)
  OBVIOUS
<1> HIDE DEF R
<1>6. \A i, j \in C : << i, j >> \in R \/ << j, i >> \in R
  <2>1. \A i, j \in C : Better(scene, i, j) \/ Better(scene, j, i)
    BY <1>4 DEF Better
  <2> QED BY <1>5, <2>1
<1>7. \A i, j, k \in C : << i, j >> \in R /\ << j, k >> \in R => << i, k >> \in R
  BY <1>4, <1>5 DEF Better
<1>8. \E i \in C : \A j \in C : << i, j >> \in R
  BY <1>2, <1>3, <1>6, <1>7, First
<1> QED BY <1>5, <1>8

LEMMA BetterOnce ==
  ASSUME NEW scene, Typed(scene), NEW i \in DOMAIN scene, NEW j \in DOMAIN scene,
         Better(scene, i, j), Better(scene, j, i)
  PROVE  i = j
<1>1. i \in Int /\ j \in Int
  BY DEF Typed
<1>2. /\ Area(scene[i]) \in Int /\ scene[i].confidence \in Int
      /\ Area(scene[j]) \in Int /\ scene[j].confidence \in Int
  BY Fields DEF Typed
<1> QED BY <1>1, <1>2 DEF Better

LEMMA TargetIsSuitable ==
  ASSUME NEW scene, Typed(scene), NEW cls
  PROVE  /\ ChooseTarget(scene, cls) = 0 <=> Suitable(scene, cls) = {}
         /\ ChooseTarget(scene, cls) # 0 => ChooseTarget(scene, cls) \in Suitable(scene, cls)
<1>1. 0 \notin Suitable(scene, cls)
  BY DEF Typed, Suitable
<1> QED BY <1>1, TargetChosen

(* _closest_neighbor, of at least one.                                     *)
Nearer(scene, t, i, j) ==
  LET di == SquareDistance(scene[i], scene[t]) dj == SquareDistance(scene[j], scene[t])
  IN  di < dj \/ (di = dj /\ i <= j)

LEMMA NeighborChosen ==
  ASSUME NEW scene, Typed(scene), NEW t \in DOMAIN scene,
         NEW valid \in SUBSET DOMAIN scene, valid # {}
  PROVE  /\ ClosestNeighbor(scene, valid, t) \in valid
         /\ \A j \in valid : Nearer(scene, t, ClosestNeighbor(scene, valid, t), j)
<1> DEFINE R == { p \in valid \X valid : Nearer(scene, t, p[1], p[2]) }
<1>1. ClosestNeighbor(scene, valid, t) = CHOOSE i \in valid : \A j \in valid : Nearer(scene, t, i, j)
  BY DEF ClosestNeighbor, Nearer
<1>2. SUFFICES \E i \in valid : \A j \in valid : Nearer(scene, t, i, j)
  BY <1>1
<1>3. PICK n \in Nat : valid \subseteq 1 .. n
  BY DEF Typed
<1>4. \A i \in valid : i \in Int /\ SquareDistance(scene[i], scene[t]) \in Int
  BY <1>3, Fields DEF Typed, SquareDistance
<1>5. \A i, j \in valid : << i, j >> \in R <=> Nearer(scene, t, i, j)
  OBVIOUS
<1> HIDE DEF R
<1>6. \A i, j \in valid : << i, j >> \in R \/ << j, i >> \in R
  <2>1. \A i, j \in valid : Nearer(scene, t, i, j) \/ Nearer(scene, t, j, i)
    BY <1>4 DEF Nearer
  <2> QED BY <1>5, <2>1
<1>7. \A i, j, k \in valid : << i, j >> \in R /\ << j, k >> \in R => << i, k >> \in R
  BY <1>4, <1>5 DEF Nearer
<1>8. \E i \in valid : \A j \in valid : << i, j >> \in R
  BY <1>3, <1>6, <1>7, First
<1> QED BY <1>5, <1>8

LEMMA NearerOnce ==
  ASSUME NEW scene, Typed(scene), NEW t \in DOMAIN scene,
         NEW i \in DOMAIN scene, NEW j \in DOMAIN scene,
         Nearer(scene, t, i, j), Nearer(scene, t, j, i)
  PROVE  i = j
<1>1. /\ i \in Int /\ SquareDistance(scene[i], scene[t]) \in Int
      /\ j \in Int /\ SquareDistance(scene[j], scene[t]) \in Int
  BY Fields DEF Typed, SquareDistance
<1> QED BY <1>1 DEF Nearer

-----------------------------------------------------------------------------
(* The plan of a push.                                                     *)

(* hypot, rounded down, exists and is no more than both sides together.    *)
LEMMA DistanceIs ==
  ASSUME NEW a, NEW b, a.x \in Int, a.y \in Int, b.x \in Int, b.y \in Int
  PROVE  /\ Distance(a, b) \in Nat
         /\ Distance(a, b) <= Absolute(a.x - b.x) + Absolute(a.y - b.y)
<1>1. PICK p \in Nat, q \in Nat : p = Absolute(a.x - b.x) /\ q = Absolute(a.y - b.y)
  <2>1. a.x - b.x \in Int /\ a.y - b.y \in Int
    OBVIOUS
  <2> QED BY <2>1, AbsoluteIs
<1>2. SquareDistance(a, b) = p * p + q * q
  <2>1. PICK i \in Int, j \in Int : i = a.x - b.x /\ j = a.y - b.y
    OBVIOUS
  <2>2. SquareDistance(a, b) = i * i + j * j
    BY <2>1 DEF SquareDistance
  <2>3. \A n \in Int : Absolute(n) * Absolute(n) = n * n
    BY DEF Absolute
  <2> QED BY <1>1, <2>1, <2>2, <2>3
<1>3. PICK sq \in Nat : sq = p * p + q * q
  OBVIOUS
<1> DEFINE T == { r \in Nat : (r + 1) * (r + 1) > sq }
<1>4. (p + q + 1) * (p + q + 1) > sq
  <2>1. (p + q + 1) * (p + q + 1) = p * p + q * q + 2 * (p * q) + 2 * p + 2 * q + 1 /\ p * q >= 0
    OBVIOUS
  <2> QED BY <1>3, <2>1
<1>5. p + q \in T /\ T \in SUBSET Nat
  BY <1>4
<1>6. PICK m \in T : \A k \in T : m <= k
  BY <1>5, Least
<1>7. m \in Nat /\ (m + 1) * (m + 1) > sq /\ m <= p + q
  BY <1>5, <1>6
<1>8. m * m <= sq
  <2>1. CASE m = 0
    BY <1>3, <2>1
  <2>2. CASE m # 0
    <3>1. m - 1 \in Nat /\ m - 1 \notin T
      BY <1>6, <1>7, <2>2
    <3> QED BY <1>7, <3>1
  <2> QED BY <2>1, <2>2
<1>9. Greater(p, q) <= m
  <2>1. \A g \in Nat : g * g <= sq => g <= m
    <3> SUFFICES ASSUME NEW g \in Nat, g * g <= sq, ~ (g <= m) PROVE FALSE
      OBVIOUS
    <3>1. m + 1 <= g
      BY <1>7
    <3>2. (m + 1) * (m + 1) <= (m + 1) * g /\ (m + 1) * g <= g * g
      BY <1>7, <3>1
    <3>3. (m + 1) * (m + 1) \in Int /\ (m + 1) * g \in Int /\ g * g \in Int
      BY <1>7
    <3> QED BY <1>7, <3>2, <3>3
  <2>2. p * p <= sq /\ q * q <= sq
    <3>1. p * p \in Nat /\ q * q \in Nat
      OBVIOUS
    <3> QED BY <1>3, <3>1
  <2>3. p <= m /\ q <= m
    BY <2>1, <2>2
  <2> QED BY <2>3 DEF Greater
<1>10. Greater(p, q) \in Nat
  BY DEF Greater
<1>11. m \in Greater(p, q) .. p + q
  BY <1>7, <1>9, <1>10
<1>12. Distance(a, b) = CHOOSE r \in Greater(p, q) .. p + q : r * r <= sq /\ (r + 1) * (r + 1) > sq
  BY <1>1, <1>2, <1>3 DEF Distance
<1>13. Distance(a, b) \in Greater(p, q) .. p + q
  BY <1>7, <1>8, <1>11, <1>12
<1> QED BY <1>1, <1>10, <1>13

(* A push from either candidate leaves the target farther away.            *)
LEMMA PushedApart ==
  ASSUME RoundingIsSmall, NEW t, NEW n, NEW side \in {1, -1},
         IsDetection(t), IsDetection(n), Contains(t.x, t.y, t.z), Contains(n.x, n.y, n.z),
         Distance(t, n) # 0
  PROVE  SquareDistance(PushEnd(t, Candidate(t, n, side)), n) > SquareDistance(t, n)
<1>1. PICK tx \in Int, ty \in Int, nx \in Int, ny \in Int :
        tx = t.x /\ ty = t.y /\ nx = n.x /\ ny = n.y
  BY Fields
<1>2. PICK c \in Nat \ {0}, num \in Nat \ {0}, den \in Nat \ {0} :
        c = Candidate_offset /\ num = Push_scale.num /\ den = Push_scale.den
  BY SelectionAssumption
<1>3. PICK dx \in Int, dy \in Int : dx = nx - tx /\ dy = ny - ty
  OBVIOUS
<1>4. PICK D \in Nat \ {0} : D = Distance(t, n) /\ D <= Absolute(dx) + Absolute(dy)
  <2>1. Absolute(tx - nx) = Absolute(dx) /\ Absolute(ty - ny) = Absolute(dy)
    BY <1>3 DEF Absolute
  <2> QED BY <1>1, <2>1, DistanceIs
<1>5. PICK W \in Nat : W = (Box.x.max - Box.x.min) + (Box.y.max - Box.y.min)
                        /\ Absolute(dx) + Absolute(dy) <= W
  <2>1. PICK x0 \in Int, x1 \in Int, y0 \in Int, y1 \in Int :
          x0 = Box.x.min /\ x1 = Box.x.max /\ y0 = Box.y.min /\ y1 = Box.y.max
    BY SelectionAssumption
  <2>2. x0 <= tx /\ tx <= x1 /\ y0 <= ty /\ ty <= y1 /\ x0 <= nx /\ nx <= x1 /\ y0 <= ny /\ ny <= y1
    BY <1>1, <2>1 DEF Contains, Within
  <2>3. Absolute(dx) <= x1 - x0 /\ Absolute(dy) <= y1 - y0 /\ Absolute(dx) \in Nat /\ Absolute(dy) \in Nat
    BY <1>3, <2>2 DEF Absolute
  <2>4. (x1 - x0) + (y1 - y0) \in Nat /\ Absolute(dx) + Absolute(dy) <= (x1 - x0) + (y1 - y0)
    BY <2>3
  <2> QED BY <2>1, <2>4
<1>6. PICK reach \in Int : /\ reach = num * (c - 2) - 2 * den /\ reach > 0
                           /\ reach * reach > 4 * den * (den + num) * W
  BY <1>2, <1>5 DEF RoundingIsSmall
<1>7. PICK q1 \in Int, q2 \in Int : q1 = ((-dy) * c) \div D /\ q2 = (dx * c) \div D
  BY <1>4, EntryIs
<1>8. /\ q1 * dx + q2 * dy \in Int
      /\ q1 * dx + q2 * dy <= Absolute(dx) + Absolute(dy)
      /\ -(q1 * dx + q2 * dy) <= Absolute(dx) + Absolute(dy)
      /\ c <= Absolute(q1) + Absolute(q2) + 2
  <2>1. c \in Nat /\ D <= Absolute(dx) + Absolute(dy)
    BY <1>4
  <2> QED BY <1>7, <2>1, EntryIs
<1>9. PICK e1 \in Int, e2 \in Int : e1 = side * q1 /\ e2 = side * q2
  OBVIOUS
<1>10. Candidate(t, n, side) = [x |-> tx + e1, y |-> ty + e2]
  <2>1. ty - ny = -dy
    BY <1>3
  <2> QED BY <1>1, <1>2, <1>3, <1>4, <1>7, <1>9, <2>1 DEF Candidate
<1>11. -(e1 * dx + e2 * dy) <= Absolute(dx) + Absolute(dy)
  <2>2. CASE side = 1
    <3>1. e1 = q1 /\ e2 = q2
      BY <1>9, <2>2
    <3> QED BY <1>8, <3>1
  <2>3. CASE side = -1
    <3>1. e1 = -q1 /\ e2 = -q2
      BY <1>9, <2>3
    <3>2. -((-q1) * dx + (-q2) * dy) = q1 * dx + q2 * dy
      OBVIOUS
    <3> QED BY <1>8, <3>1, <3>2
  <2> QED BY <2>2, <2>3
<1>12. c <= Absolute(e1) + Absolute(e2) + 2
  <2>2. (e1 = q1 \/ e1 = -q1) /\ (e2 = q2 \/ e2 = -q2)
    BY <1>9
  <2>3. Absolute(e1) = Absolute(q1) /\ Absolute(e2) = Absolute(q2)
    BY <2>2 DEF Absolute
  <2> QED BY <1>8, <2>3
<1>13. PICK k1 \in Int, s1 \in 0 .. den - 1 : k1 = (num * e1) \div den /\ num * e1 = den * k1 + s1
  <2>1. num * e1 \in Int
    OBVIOUS
  <2> QED BY <2>1, DivRest
<1>14. PICK k2 \in Int, s2 \in 0 .. den - 1 : k2 = (num * e2) \div den /\ num * e2 = den * k2 + s2
  <2>1. num * e2 \in Int
    OBVIOUS
  <2> QED BY <2>1, DivRest
<1>15. k1 * k1 + k2 * k2 + 2 * (k1 * dx + k2 * dy) > 0
  <2>1. c \in Nat /\ Absolute(dx) + Absolute(dy) <= W
    BY <1>5
  <2>2. num * e1 = den * k1 + s1 /\ num * e2 = den * k2 + s2
    BY <1>13, <1>14, Zenon
  <2> QED BY <1>6, <1>11, <1>12, <2>1, <2>2, EndFrees, Zenon
<1>16. PushEnd(t, Candidate(t, n, side)) = [x |-> tx - k1, y |-> ty - k2]
  <2>1. (tx + e1) - tx = e1 /\ (ty + e2) - ty = e2
    OBVIOUS
  <2> QED BY <1>1, <1>2, <1>10, <1>13, <1>14, <2>1 DEF PushEnd
<1>17. SquareDistance(PushEnd(t, Candidate(t, n, side)), n) = (k1 + dx) * (k1 + dx) + (k2 + dy) * (k2 + dy)
  <2>1. (tx - k1) - nx = -(k1 + dx) /\ (ty - k2) - ny = -(k2 + dy)
    BY <1>3
  <2>2. (-(k1 + dx)) * (-(k1 + dx)) = (k1 + dx) * (k1 + dx) /\ (-(k2 + dy)) * (-(k2 + dy)) = (k2 + dy) * (k2 + dy)
    OBVIOUS
  <2>3. SquareDistance(PushEnd(t, Candidate(t, n, side)), n) =
          ((tx - k1) - nx) * ((tx - k1) - nx) + ((ty - k2) - ny) * ((ty - k2) - ny)
    BY <1>1, <1>16 DEF SquareDistance
  <2> QED BY <2>1, <2>2, <2>3
<1>18. SquareDistance(t, n) = dx * dx + dy * dy
  <2>1. tx - nx = -dx /\ ty - ny = -dy
    BY <1>3
  <2>2. (-dx) * (-dx) = dx * dx /\ (-dy) * (-dy) = dy * dy
    OBVIOUS
  <2> QED BY <1>1, <2>1, <2>2 DEF SquareDistance
<1>19. (k1 + dx) * (k1 + dx) + (k2 + dy) * (k2 + dy)
         = (dx * dx + dy * dy) + (k1 * k1 + k2 * k2 + 2 * (k1 * dx + k2 * dy))
  OBVIOUS
<1>20. dx * dx + dy * dy \in Int /\ k1 * k1 + k2 * k2 + 2 * (k1 * dx + k2 * dy) \in Int
  OBVIOUS
<1> QED BY <1>15, <1>17, <1>18, <1>19, <1>20

(* choose_cluster_plan after the neighbour was found, e the candidates that*)
(* _select_candidate leaves.                                               *)
PlansFor(t, n, e, z) ==
  IF Distance(t, n) = 0 \/ Apart(t, n) THEN {}
  ELSE { [entry |-> p, end |-> PushEnd(t, p), z |-> z, neighbor |-> n] :
           p \in { q \in e : Contains(q.x, q.y, z) /\ Contains(PushEnd(t, q).x, PushEnd(t, q).y, z) } }

Entries(scene, valid, t, n) ==
  SelectCandidate(Candidate(t, n, 1), Candidate(t, n, -1),
                  HitsOtherBox(scene, valid, Candidate(t, n, 1)),
                  HitsOtherBox(scene, valid, Candidate(t, n, -1)))

LEMMA PlansAre ==
  ASSUME NEW scene, NEW i, NEW z, NEW valid, valid = FilterValid(scene, i), NEW t, t = scene[i],
         NEW n, n = scene[ClosestNeighbor(scene, valid, i)]
  PROVE  ClusterPlans(scene, i, z) =
           IF valid = {} THEN {} ELSE PlansFor(t, n, Entries(scene, valid, t, n), t.z + z)
BY DEF ClusterPlans, PlansFor, Entries

(* A candidate that is left is in no box.                                  *)
LEMMA EntryFree ==
  ASSUME NEW scene, NEW valid, NEW t, NEW n, NEW p \in Entries(scene, valid, t, n)
  PROVE  ~HitsOtherBox(scene, valid, p) /\ \E side \in {1, -1} : p = Candidate(t, n, side)
<1> DEFINE a == Candidate(t, n, 1)
           b == Candidate(t, n, -1)
<1>1. p \in SelectCandidate(a, b, HitsOtherBox(scene, valid, a), HitsOtherBox(scene, valid, b))
  BY DEF Entries
<1>2. \/ p = a /\ ~HitsOtherBox(scene, valid, a)
      \/ p = b /\ ~HitsOtherBox(scene, valid, b)
  <2> HIDE DEF a, b
  <2>1. CASE HitsOtherBox(scene, valid, a) /\ HitsOtherBox(scene, valid, b)
    BY <1>1, <2>1 DEF SelectCandidate
  <2>2. CASE HitsOtherBox(scene, valid, a) /\ ~HitsOtherBox(scene, valid, b)
    BY <1>1, <2>2 DEF SelectCandidate
  <2>3. CASE ~HitsOtherBox(scene, valid, a) /\ HitsOtherBox(scene, valid, b)
    BY <1>1, <2>3 DEF SelectCandidate
  <2>4. CASE ~HitsOtherBox(scene, valid, a) /\ ~HitsOtherBox(scene, valid, b)
    BY <1>1, <2>4 DEF SelectCandidate
  <2> QED BY <2>1, <2>2, <2>3, <2>4
<1> QED BY <1>2

LEMMA EntriesAgree ==
  ASSUME NEW scene, NEW rest, NEW valid, \A i \in valid : rest[i] = scene[i], NEW t, NEW n
  PROVE  Entries(rest, valid, t, n) = Entries(scene, valid, t, n)
<1> DEFINE a == Candidate(t, n, 1)
           b == Candidate(t, n, -1)
<1>1. \A p : HitsOtherBox(rest, valid, p) <=> HitsOtherBox(scene, valid, p)
  BY DEF HitsOtherBox
<1>2. Entries(rest, valid, t, n) =
        SelectCandidate(a, b, HitsOtherBox(rest, valid, a), HitsOtherBox(rest, valid, b))
  BY DEF Entries
<1>3. Entries(scene, valid, t, n) =
        SelectCandidate(a, b, HitsOtherBox(scene, valid, a), HitsOtherBox(scene, valid, b))
  BY DEF Entries
<1> HIDE DEF a, b
<1>4. CASE HitsOtherBox(scene, valid, a) /\ HitsOtherBox(scene, valid, b)
  BY <1>1, <1>2, <1>3, <1>4 DEF SelectCandidate
<1>5. CASE HitsOtherBox(scene, valid, a) /\ ~HitsOtherBox(scene, valid, b)
  BY <1>1, <1>2, <1>3, <1>5 DEF SelectCandidate
<1>6. CASE ~HitsOtherBox(scene, valid, a) /\ HitsOtherBox(scene, valid, b)
  BY <1>1, <1>2, <1>3, <1>6 DEF SelectCandidate
<1>7. CASE ~HitsOtherBox(scene, valid, a) /\ ~HitsOtherBox(scene, valid, b)
  BY <1>1, <1>2, <1>3, <1>7 DEF SelectCandidate
<1> QED BY <1>4, <1>5, <1>6, <1>7

(* What a plan keeps clear of, and where it leads.                         *)
LEMMA PlanFrees ==
  ASSUME RoundingIsSmall, NEW scene, Typed(scene), NEW i \in DOMAIN scene, Passes(scene[i]),
         NEW z, NEW plan \in ClusterPlans(scene, i, z)
  PROVE  /\ \A j \in DOMAIN scene \ {i} : Passes(scene[j]) => ~InOrientedBox(plan.entry, scene[j])
         /\ Contains(plan.entry.x, plan.entry.y, plan.z) /\ Contains(plan.end.x, plan.end.y, plan.z)
         /\ SquareDistance(plan.end, plan.neighbor) > SquareDistance(scene[i], plan.neighbor)
<1> DEFINE valid == FilterValid(scene, i)
           t == scene[i]
           n == scene[ClosestNeighbor(scene, valid, i)]
           e == Entries(scene, valid, t, n)
<1>1. valid \in SUBSET DOMAIN scene /\ \A j \in valid : Passes(scene[j])
  BY DEF FilterValid
<1>2. valid # {} /\ plan \in PlansFor(t, n, e, t.z + z)
  BY PlansAre
<1>3. ClosestNeighbor(scene, valid, i) \in valid
  BY <1>1, <1>2, NeighborChosen
<1>4. IsDetection(t) /\ IsDetection(n) /\ Contains(t.x, t.y, t.z) /\ Contains(n.x, n.y, n.z)
  BY <1>1, <1>3 DEF Typed, Passes
<1>5. \A j \in DOMAIN scene \ {i} : Passes(scene[j]) => j \in valid
  BY DEF FilterValid
<1> HIDE DEF valid, t, n, e
<1>6. PICK p \in e : /\ plan = [entry |-> p, end |-> PushEnd(t, p), z |-> t.z + z, neighbor |-> n]
                     /\ Contains(p.x, p.y, t.z + z)
                     /\ Contains(PushEnd(t, p).x, PushEnd(t, p).y, t.z + z)
                     /\ Distance(t, n) # 0
  BY <1>2 DEF PlansFor
<1>7. PICK side \in {1, -1} : p = Candidate(t, n, side)
  BY EntryFree DEF e
<1>8. ~HitsOtherBox(scene, valid, p)
  BY EntryFree DEF e
<1>9. SquareDistance(PushEnd(t, p), n) > SquareDistance(t, n)
  BY <1>4, <1>6, <1>7, PushedApart
<1>10. plan.entry = p /\ plan.end = PushEnd(t, p) /\ plan.z = t.z + z /\ plan.neighbor = n
  BY <1>6
<1>11. \A j \in DOMAIN scene \ {i} : Passes(scene[j]) => ~InOrientedBox(plan.entry, scene[j])
  BY <1>5, <1>8, <1>10 DEF HitsOtherBox
<1> QED BY <1>6, <1>9, <1>10, <1>11 DEF t

(* Leaving out what the gates reject.                                      *)
LEMMA Dropping ==
  ASSUME NEW scene, Typed(scene), NEW cls, NEW z, NEW rest,
         NEW dropped \in SUBSET { i \in DOMAIN scene : ~Passes(scene[i]) },
         rest = [i \in DOMAIN scene \ dropped |-> scene[i]]
  PROVE  LET t == ChooseTarget(scene, cls)
         IN  /\ ChooseTarget(rest, cls) = t
             /\ t # 0 => ClusterPlans(rest, t, z) = ClusterPlans(scene, t, z)
<1> DEFINE t == ChooseTarget(scene, cls)
           C == Suitable(scene, cls)
<1>1. DOMAIN rest = DOMAIN scene \ dropped /\ \A i \in DOMAIN rest : rest[i] = scene[i]
  OBVIOUS
<1>2. Typed(rest)
  BY <1>1 DEF Typed
<1>3. Suitable(rest, cls) = C
  BY <1>1 DEF Suitable
<1>4. C \subseteq DOMAIN rest /\ C \subseteq DOMAIN scene
  BY <1>1 DEF Suitable
<1>5. \A i, j \in C : Better(rest, i, j) <=> Better(scene, i, j)
  <2>1. \A i, j \in C : rest[i] = scene[i] /\ rest[j] = scene[j]
    BY <1>1, <1>4
  <2> QED BY <2>1 DEF Better
<1>6. ChooseTarget(rest, cls) = t
  <2> HIDE DEF C, t
  <2>1. CASE C = {}
    BY <1>2, <1>3, <2>1, TargetChosen DEF C, t
  <2>2. CASE C # {}
    <3>1. t \in C /\ \A j \in C : Better(scene, t, j)
      BY <2>2, TargetChosen DEF C, t
    <3>2. ChooseTarget(rest, cls) \in C /\ \A j \in C : Better(rest, ChooseTarget(rest, cls), j)
      BY <1>2, <1>3, <2>2, TargetChosen
    <3> QED BY <1>4, <1>5, <3>1, <3>2, BetterOnce
  <2> QED BY <2>1, <2>2
<1>7. ASSUME t # 0 PROVE ClusterPlans(rest, t, z) = ClusterPlans(scene, t, z)
  <2> DEFINE valid == FilterValid(scene, t)
             near == ClosestNeighbor(scene, valid, t)
  <2>1. t \in C
    BY <1>7, TargetIsSuitable
  <2>2. t \in DOMAIN rest /\ t \in DOMAIN scene /\ rest[t] = scene[t]
    BY <1>1, <1>4, <2>1
  <2> HIDE DEF t, C
  <2>3. FilterValid(rest, t) = valid
    BY <1>1 DEF FilterValid
  <2>4. valid \in SUBSET DOMAIN rest /\ valid \in SUBSET DOMAIN scene
    BY <1>1, <2>3 DEF FilterValid
  <2> HIDE DEF valid
  <2>5. CASE valid = {}
    BY <2>3, <2>5 DEF ClusterPlans, valid
  <2>6. CASE valid # {}
    <3>1. near \in valid /\ \A j \in valid : Nearer(scene, t, near, j)
      BY <2>2, <2>4, <2>6, NeighborChosen
    <3> DEFINE other == ClosestNeighbor(rest, valid, t)
    <3>2. other \in valid /\ \A j \in valid : Nearer(rest, t, other, j)
      BY <1>2, <2>2, <2>4, <2>6, NeighborChosen
    <3>3. \A i \in valid : rest[i] = scene[i]
      BY <1>1, <2>4
    <3> HIDE DEF near, other
    <3>4. Nearer(scene, t, other, near)
      BY <2>2, <3>1, <3>2, <3>3 DEF Nearer
    <3>5. other = near
      BY <2>2, <2>4, <3>1, <3>2, <3>4, NearerOnce
    <3>6. rest[other] = scene[near]
      BY <3>1, <3>3, <3>5
    <3>7. Entries(rest, valid, scene[t], scene[near]) = Entries(scene, valid, scene[t], scene[near])
      BY <3>3, EntriesAgree
    <3>8. ClusterPlans(scene, t, z) =
            PlansFor(scene[t], scene[near], Entries(scene, valid, scene[t], scene[near]), scene[t].z + z)
      BY <2>6, PlansAre DEF valid, near
    <3>9. ClusterPlans(rest, t, z) =
            PlansFor(rest[t], rest[other], Entries(rest, valid, rest[t], rest[other]), rest[t].z + z)
      BY <2>3, <2>6, PlansAre DEF other
    <3> QED BY <2>2, <3>6, <3>7, <3>8, <3>9
  <2> QED BY <2>5, <2>6
<1> QED BY <1>6, <1>7

-----------------------------------------------------------------------------
(* The theorems.                                                           *)

(* The scene and the class wanted stay what they are.                      *)
SameScene == objects \in Scenes /\ target_class \in Priority

LEMMA SceneStays == SelectionSpec => []SameScene
<1>1. SelectionInit => SameScene
  BY DEF SelectionInit, SameScene
<1>2. SameScene /\ [SelectionNext]_selection_vars => SameScene'
  BY DEF SameScene, SelectionNext, selection_vars, Count, Miss, SendPush, SendPick
<1> QED BY <1>1, <1>2, PTL DEF SelectionSpec

LEMMA SceneTyped == SameScene => Typed(objects)
BY SelectionAssumption DEF SameScene, Typed

(* A miss and a count of zero say the same of every detection              *)
(* (_count_detected_objects, choose_target).                               *)
THEOREM CountsArePickable == SelectionSpec => []PickableIffCounted
<1>1. ASSUME SameScene PROVE PickableIffCounted
  <2> DEFINE counted == { i \in DOMAIN objects :
               /\ objects[i].class_name = target_class
               /\ ~ (objects[i].confidence < Conf_gate) /\ objects[i].transform_valid
               /\ ~ (objects[i].z <= Min_depth)
               /\ Contains(objects[i].x, objects[i].y, objects[i].z) }
  <2>1. CountDetected(objects)[target_class] = Cardinality(counted)
    BY <1>1 DEF CountDetected, SameScene
  <2>2. \A i \in DOMAIN objects : objects[i].confidence \in Int /\ objects[i].z \in Int
    BY <1>1, SceneTyped, Fields DEF Typed
  <2>3. Conf_gate \in Int /\ Min_depth \in Int
    BY SelectionAssumption
  <2>4. \A i \in DOMAIN objects :
          /\ ~ (objects[i].confidence < Conf_gate) <=> objects[i].confidence >= Conf_gate
          /\ ~ (objects[i].z <= Min_depth) <=> objects[i].z > Min_depth
    BY <2>2, <2>3
  <2>5. counted = Suitable(objects, target_class)
    BY <2>4 DEF Suitable, Passes
  <2>6. IsFiniteSet(counted)
    <3>1. PICK n \in Nat : counted \subseteq 1 .. n
      BY <1>1, SceneTyped DEF Typed
    <3>2. IsFiniteSet(1 .. n)
      BY FS_Interval
    <3> QED BY <3>1, <3>2, FS_Subset
  <2> HIDE DEF counted
  <2>7. Cardinality(counted) = 0 <=> counted = {}
    BY <2>6, FS_EmptySet
  <2>8. ChooseTarget(objects, target_class) = 0 <=> counted = {}
    BY <1>1, <2>5, SceneTyped, TargetIsSuitable
  <2> QED BY <2>1, <2>7, <2>8 DEF PickableIffCounted
<1> QED BY <1>1, SceneStays, PTL

(* Whichever detections the gates reject are left out, the nut and the plan*)
(* stay the same (_filter_valid, choose_target).                           *)
THEOREM RejectsAreIgnored == SelectionSpec => []RejectsDoNotMatter
<1>1. ASSUME SameScene PROVE RejectsDoNotMatter
  BY <1>1, SceneTyped, Dropping DEF RejectsDoNotMatter
<1> QED BY <1>1, SceneStays, PTL

(* When rounding is small, every push enters clear of the nuts that count, *)
(* stays inside the workspace and takes the target away from its neighbour,*)
(* for every scene (choose_cluster_plan).                                  *)
THEOREM PushesFree == ASSUME RoundingIsSmall PROVE SelectionSpec => []PushFrees
<1>1. SelectionInit => PushFrees
  <2> SUFFICES ASSUME SelectionInit PROVE PushFrees
    OBVIOUS
  <2>1. goal = [kind |-> "none"]
    BY DEF SelectionInit
  <2> QED BY <2>1 DEF PushFrees
<1>2. ASSUME SameScene, PushFrees, [SelectionNext]_selection_vars PROVE PushFrees'
  <2>1. CASE SendPush
    <3> DEFINE i == Candidates
               z == Offset("z", target_class) + Push_z_offset
    <3>1. objects' = objects /\ \E plan \in PushPlans :
            goal' = [kind |-> "push", target |-> i, plan |-> plan, width |-> 0]
      BY <2>1 DEF SendPush
    <3>2. PICK plan \in ClusterPlans(objects, i, z) :
            goal' = [kind |-> "push", target |-> i, plan |-> plan, width |-> 0]
      BY <3>1 DEF PushPlans
    <3>3. i # 0
      BY <3>1 DEF PushPlans
    <3>4. i \in DOMAIN objects /\ Passes(objects[i])
      BY <1>2, <3>3, SceneTyped, TargetIsSuitable DEF Candidates, Suitable
    <3> HIDE DEF i, z
    <3>5. /\ \A j \in DOMAIN objects \ {i} : Passes(objects[j]) => ~InOrientedBox(plan.entry, objects[j])
          /\ Contains(plan.entry.x, plan.entry.y, plan.z) /\ Contains(plan.end.x, plan.end.y, plan.z)
          /\ SquareDistance(plan.end, plan.neighbor) > SquareDistance(objects[i], plan.neighbor)
      BY <1>2, <3>4, SceneTyped, PlanFrees
    <3>6. goal'.plan = plan /\ goal'.target = i
      BY <3>2
    <3> QED BY <3>1, <3>5, <3>6 DEF PushFrees
  <2>2. CASE Miss \/ SendPick
    <3>1. goal'.kind # "push"
      BY <2>2 DEF Miss, SendPick
    <3> QED BY <3>1 DEF PushFrees
  <2>3. CASE Count \/ UNCHANGED selection_vars
    BY <1>2, <2>3 DEF Count, selection_vars, PushFrees
  <2> QED BY <1>2, <2>1, <2>2, <2>3 DEF SelectionNext
<1> QED BY <1>1, <1>2, SceneStays, PTL DEF SelectionSpec

(* Every pick goal is for a nut of the wanted class that passes the gates, *)
(* and opens the fingers wider than it as far as they go, for any limits   *)
(* in order and a margin that is not zero (_send_pick_goal).               *)
THEOREM FingersFit ==
  ASSUME Pre_grasp_min <= Pre_grasp_max, Pre_grasp_margin # 0
  PROVE  SelectionSpec => []GraspFits
<1>1. SelectionInit => GraspFits
  <2> SUFFICES ASSUME SelectionInit PROVE GraspFits
    OBVIOUS
  <2>1. goal = [kind |-> "none"]
    BY DEF SelectionInit
  <2> QED BY <2>1 DEF GraspFits
<1>2. ASSUME SameScene, GraspFits, [SelectionNext]_selection_vars PROVE GraspFits'
  <2>1. CASE SendPick
    <3> DEFINE d == objects[Candidates]
    <3>1. objects' = objects /\ target_class' = target_class /\ Candidates # 0
      BY <2>1 DEF SendPick
    <3>2. goal'.target = Candidates /\ goal'.width = PreGraspWidth(d)
      BY <2>1 DEF SendPick
    <3>3. Candidates \in Suitable(objects, target_class)
      BY <1>2, <3>1, SceneTyped, TargetIsSuitable DEF Candidates
    <3>4. d.class_name = target_class /\ Passes(d) /\ d.short \in Int
      BY <1>2, <3>3, SceneTyped, Fields DEF Suitable, Typed
    <3> HIDE DEF d
    <3>5. PICK w \in Int, least \in Nat, most \in Nat, margin \in Int :
            w = d.short /\ least = Pre_grasp_min /\ most = Pre_grasp_max /\ margin = Pre_grasp_margin
      BY <3>4, SelectionAssumption
    <3>6. LET v == PreGraspWidth(d)
          IN  v = 0 \/ (Pre_grasp_min <= v /\ v <= Pre_grasp_max /\ (v > d.short \/ v = Pre_grasp_max))
      BY <3>5 DEF PreGraspWidth, Greater
    <3>7. objects[goal'.target] = d
      BY <3>2 DEF d
    <3> QED BY <3>1, <3>2, <3>4, <3>6, <3>7 DEF GraspFits
  <2>2. CASE Miss \/ SendPush
    <3>1. goal'.kind # "pick"
      BY <2>2 DEF Miss, SendPush
    <3> QED BY <3>1 DEF GraspFits
  <2>3. CASE Count \/ UNCHANGED selection_vars
    BY <1>2, <2>3 DEF Count, selection_vars, GraspFits
  <2> QED BY <1>2, <2>1, <2>2, <2>3 DEF SelectionNext
<1> QED BY <1>1, <1>2, SceneStays, PTL DEF SelectionSpec

-----------------------------------------------------------------------------
(* The fingers (Gripper).                                                   *)

Waiting == { "pre_wait", "close_wait", "open_wait", "reopen_wait" }

Type ==
  /\ backend \in {"modbus", "mock"}
  /\ pending \in Nat \cup {None} /\ lag \in Nat /\ width \in Nat /\ left \in Nat
  /\ jammed \in BOOLEAN /\ flicker \in {"none", "now", "over"}
  /\ grip \in BOOLEAN /\ nut \in BOOLEAN
  /\ pc \in Waiting \cup { "idle", "grasp", "verify", "open", "reopen" }
  /\ phase \in {"none", "start", "run", "debounce"}
  /\ elapsed \in Nat /\ slept \in Nat

Frame ==
  /\ phase = "none" <=> pc \notin Waiting
  /\ lag <= Lag /\ slept <= MaxLate + 1
  /\ jammed => left > 0

(* What the time since the command says of the movement.                   *)
Clock ==
  /\ left > 0 /\ ~jammed => pending = None
  /\ phase # "none" /\ pending # None /\ left = 0 => elapsed <= lag
  /\ phase # "none" /\ left > 0 /\ ~jammed => elapsed + left <= Lag + 1 + MaxMove
  /\ phase \in {"run", "debounce"} /\ ~jammed => pending = None

(* A movement that no poll has seen yet began after the last poll, or the  *)
(* last poll fell on its one idle moment.                                  *)
Hidden ==
  phase = "start" /\ left > 0 =>
    \/ flicker # "over" /\ elapsed - slept <= Lag
    \/ flicker = "now" /\ slept = 0 /\ elapsed <= Lag + 1 + MaxLate
    \/ flicker = "over" /\ elapsed - slept <= Lag + 1 + MaxLate

(* The second look of the debounce comes after that moment.                *)
SecondLook ==
  phase = "debounce" /\ left > 0 =>
    flicker = "over" \/ (flicker = "now" /\ slept = 0)

(* Where the fingers are, unless they jammed.                              *)
Fingers ==
  /\ pc = "grasp" /\ ~jammed => Still
  /\ pc = "close_wait" /\ ~jammed =>
       (pending = 0 /\ left = 0) \/ (pending = None /\ width = 0)
  /\ left = 0 /\ width = 0 => grip = nut
  /\ pc \in {"verify", "open", "reopen"} => Still
  /\ pc = "verify" => grip = nut

Prompt == backend = "modbus" => Clock /\ Hidden /\ SecondLook /\ Fingers

GripInv == Type /\ Frame /\ Prompt

LEMMA GripInit == Init => GripInv
<1> SUFFICES ASSUME Init PROVE GripInv
  OBVIOUS
<1>1. Max_width \in Nat /\ Lag \in Nat /\ MaxLate \in Nat
  BY GripperAssumption
<1>2. /\ backend \in {"modbus", "mock"} /\ pc = "idle" /\ phase = "none" /\ pending = None
      /\ lag = 0 /\ width = Max_width /\ left = 0 /\ elapsed = 0 /\ slept = 0
      /\ jammed = FALSE /\ flicker = "none" /\ grip = FALSE /\ nut = FALSE
  BY DEF Init
<1>3. Type
  BY <1>1, <1>2 DEF Type, Waiting
<1>4. Frame
  BY <1>1, <1>2 DEF Frame, Waiting
<1>5. Clock /\ Hidden /\ SecondLook
  BY <1>2 DEF Clock, Hidden, SecondLook
<1>6. Fingers
  BY <1>2 DEF Fingers
<1> QED BY <1>3, <1>4, <1>5, <1>6 DEF GripInv, Prompt

-----------------------------------------------------------------------------
(* Commands.                                                               *)

LEMMA CommandType ==
  ASSUME GripInv, NEW w \in Nat, MoveTo(w), Wait,
         pc' \in Waiting, nut' \in BOOLEAN
  PROVE  Type' /\ Frame'
<1>1. Clamped(w) \in Nat
  BY GripperAssumption DEF Clamped
<1>2. phase' = "start" /\ elapsed' = 0 /\ slept' = 1 /\ backend' = backend
  BY DEF Wait, MoveTo
<1>3. CASE backend = "modbus"
  <2>1. pending' = Clamped(w) /\ lag' = 0 /\ UNCHANGED << width, left, jammed, flicker, grip >>
    BY <1>3 DEF MoveTo, WriteRegisters
  <2> QED BY <1>1, <1>2, <2>1, GripperAssumption DEF GripInv, Type, Frame, Waiting
<1>4. CASE backend # "modbus"
  <2>1. /\ width' = Clamped(w) /\ grip' \in BOOLEAN
        /\ UNCHANGED << pending, lag, left, jammed, flicker >>
    BY <1>4 DEF MoveTo, MockMoves
  <2> QED BY <1>1, <1>2, <2>1, GripperAssumption DEF GripInv, Type, Frame, Waiting
<1> QED BY <1>3, <1>4

(* A command that finds the fingers at rest, or jammed.                    *)
LEMMA CommandPrompt ==
  ASSUME GripInv, NEW w \in Nat, backend = "modbus", MoveTo(w), Wait, Still \/ jammed
  PROVE  /\ Clock' /\ Hidden' /\ SecondLook'
         /\ pending' = Clamped(w) /\ Clamped(w) \in Nat
         /\ UNCHANGED << width, left, jammed, grip, backend >>
<1>1. Clamped(w) \in Nat
  BY GripperAssumption DEF Clamped
<1>2. /\ phase' = "start" /\ elapsed' = 0 /\ slept' = 1
      /\ pending' = Clamped(w) /\ lag' = 0
      /\ UNCHANGED << width, left, jammed, flicker, grip, backend >>
  BY DEF Wait, MoveTo, WriteRegisters
<1> QED BY <1>1, <1>2, GripperAssumption
        DEF GripInv, Type, Frame, Prompt, Clock, Hidden, SecondLook, Still

LEMMA CommandStep ==
  ASSUME GripInv, (\E w \in PreWidths : PreGrasp(w)) \/ NoPreGrasp \/ Close \/ Open
  PROVE  GripInv'
<1>1. ASSUME NEW w \in PreWidths, PreGrasp(w) PROVE GripInv'
  <2>1. w \in Nat /\ w > 0 /\ pc' = "pre_wait" /\ nut' = nut
    BY <1>1, GripperAssumption DEF PreGrasp
  <2>2. Type' /\ Frame'
    BY <1>1, <2>1, CommandType DEF PreGrasp, GripInv, Type, Waiting
  <2>3. CASE backend = "modbus"
    <3>1. Clock' /\ Hidden' /\ SecondLook' /\ pending' = Clamped(w) /\ Clamped(w) \in Nat
      BY <1>1, <2>1, <2>3, CommandPrompt DEF PreGrasp
    <3>2. UNCHANGED << width, left, grip >>
      BY <1>1, <2>1, <2>3, CommandPrompt DEF PreGrasp
    <3> QED BY <2>1, <2>2, <2>3, <3>1, <3>2 DEF GripInv, Prompt, Fingers
  <2>4. CASE backend # "modbus"
    BY <1>1, <2>2, <2>4 DEF PreGrasp, MoveTo, GripInv, Prompt
  <2> QED BY <2>3, <2>4
<1>2. CASE Close
  <2>1. pc = "grasp" /\ pc' = "close_wait" /\ nut' \in BOOLEAN
    BY <1>2 DEF Close, GripInv, Type
  <2>2. Type' /\ Frame'
    BY <1>2, <2>1, CommandType DEF Close, Waiting
  <2>3. CASE backend = "modbus"
    <3>1. Still \/ jammed
      BY <2>1, <2>3 DEF GripInv, Prompt, Fingers, Type
    <3>2. /\ Clock' /\ Hidden' /\ SecondLook' /\ pending' = Clamped(0)
          /\ UNCHANGED << width, left, jammed, grip, backend >>
      BY <1>2, <2>3, <3>1, CommandPrompt DEF Close
    <3>3. Clamped(0) = 0
      BY GripperAssumption DEF Clamped
    <3>4. ~jammed => left = 0
      BY <2>1, <2>3 DEF GripInv, Prompt, Fingers, Still
    <3>5. width = 0 => nut' = nut
      BY <1>2 DEF Close
    <3> QED BY <2>1, <2>2, <3>2, <3>3, <3>4, <3>5 DEF GripInv, Prompt, Fingers
  <2>4. CASE backend # "modbus"
    BY <1>2, <2>2, <2>4 DEF Close, MoveTo, GripInv, Prompt
  <2> QED BY <2>3, <2>4
<1>3. CASE Open
  <2>1. pc \in {"open", "reopen"} /\ pc' \in {"open_wait", "reopen_wait"} /\ nut' = nut /\ Max_width \in Nat
    BY <1>3, GripperAssumption DEF Open
  <2>2. Type' /\ Frame'
    BY <1>3, <2>1, CommandType DEF Open, GripInv, Type, Waiting
  <2>3. CASE backend = "modbus"
    <3>1. Still
      BY <2>1, <2>3 DEF GripInv, Prompt, Fingers
    <3>2. Clock' /\ Hidden' /\ SecondLook' /\ UNCHANGED << width, left, grip >>
      BY <1>3, <2>1, <2>3, <3>1, CommandPrompt DEF Open
    <3> QED BY <2>1, <2>2, <2>3, <3>2 DEF GripInv, Prompt, Fingers
  <2>4. CASE backend # "modbus"
    BY <1>3, <2>2, <2>4 DEF Open, MoveTo, GripInv, Prompt
  <2> QED BY <2>3, <2>4
<1>4. CASE NoPreGrasp
  <2>1. pc = "idle" /\ pc' = "grasp" /\ (Still \/ jammed) /\ UNCHANGED << device, wait >>
    BY <1>4 DEF NoPreGrasp
  <2> QED BY <2>1 DEF GripInv, Type, Frame, Prompt, Clock, Hidden, SecondLook, Fingers, Still,
                      Waiting, device, wait
<1> QED BY <1>1, <1>2, <1>3, <1>4

-----------------------------------------------------------------------------
(* Polls.                                                                  *)

LEMMA NextOnes ==
  ASSUME pc \in Waiting
  PROVE  /\ Settled[pc] = IF pc = "pre_wait" THEN "grasp" ELSE IF pc = "close_wait" THEN "verify" ELSE "idle"
         /\ Unsettled[pc] = IF pc = "pre_wait" THEN "grasp" ELSE "idle"
BY DEF Settled, Unsettled, Waiting

(* A wait returns to the thread with the fingers at rest, or, of a wait    *)
(* that did not settle, with the fingers jammed.                           *)
LEMMA ReturnStep ==
  ASSUME GripInv, UNCHANGED device, pc \in Waiting,
         \/ Returns(Settled)   /\ (backend = "modbus" => Still)
         \/ Returns(Unsettled) /\ (backend = "modbus" => Still \/ jammed)
  PROVE  GripInv'
<1>1. phase' = "none" /\ elapsed' = 0 /\ slept' = 0 /\ UNCHANGED device
  BY DEF Returns, NoWait
<1>2. /\ pc' \in {"grasp", "verify", "idle"}
      /\ pc' = "grasp" => pc = "pre_wait" /\ (backend = "modbus" => Still \/ jammed)
      /\ pc' = "verify" => pc = "close_wait" /\ (backend = "modbus" => Still)
  BY NextOnes DEF Returns
<1>3. Type' /\ Frame'
  BY <1>1, <1>2, GripperAssumption DEF GripInv, Type, Frame, device, Waiting
<1>4. CASE backend = "modbus"
  <2>1. Clock' /\ Hidden' /\ SecondLook'
    BY <1>1, <1>4 DEF GripInv, Prompt, Clock, Hidden, SecondLook, device
  <2>2. Fingers'
    BY <1>1, <1>2, <1>4, GripperAssumption DEF GripInv, Prompt, Fingers, Frame, Type, Still, device
  <2> QED BY <1>3, <2>1, <2>2 DEF GripInv, Prompt
<1>5. CASE backend # "modbus"
  BY <1>1, <1>3, <1>5 DEF GripInv, Prompt, device
<1> QED BY <1>4, <1>5

LEMMA PollStep == ASSUME GripInv, Poll PROVE GripInv'
<1>1. phase # "none" /\ slept >= 1 /\ pc \in Waiting /\ UNCHANGED device
  BY DEF Poll, GripInv, Frame
<1>2. CASE ReadFails
  <2>1. pc' = "idle" /\ phase' = "none" /\ elapsed' = 0 /\ slept' = 0
    BY <1>2 DEF ReadFails, NoWait
  <2>2. Type'
    BY <1>1, <2>1 DEF GripInv, Type, device
  <2>3. Frame'
    BY <1>1, <2>1, GripperAssumption DEF GripInv, Type, Frame, device, Waiting
  <2>4. backend = "modbus" => Clock' /\ Hidden' /\ SecondLook' /\ Fingers'
    BY <1>1, <2>1 DEF GripInv, Prompt, Clock, Hidden, SecondLook, Fingers, device
  <2> QED BY <1>1, <2>2, <2>3, <2>4 DEF GripInv, Prompt, device
<1>3. CASE AwaitsStart
  <2>1. CASE elapsed >= Start_window /\ Returns(Settled)
    <3>1. backend = "modbus" => Still
      BY <1>3, <2>1, GripperAssumption
         DEF AwaitsStart, GripInv, Prompt, Clock, Hidden, Frame, Type, Still
    <3> QED BY <1>1, <2>1, <3>1, ReturnStep
  <2>2. CASE phase = "start" /\ ~IsBusy /\ Sleeps("start")
    <3>1. phase' = "start" /\ slept' = 0 /\ UNCHANGED << pc, elapsed, device >>
      BY <1>1, <2>2 DEF Sleeps
    <3>2. backend = "modbus" => Hidden'
      BY <1>1, <2>2, <3>1, GripperAssumption DEF Hidden, GripInv, Prompt, Frame, Type, IsBusy, device
    <3>3. Type'
      BY <1>1, <2>2, <3>1 DEF GripInv, Type, device
    <3>4. Frame'
      BY <1>1, <2>2, <3>1, GripperAssumption DEF GripInv, Type, Frame, device
    <3>5. backend = "modbus" => Clock' /\ SecondLook' /\ Fingers'
      BY <1>1, <2>2, <3>1 DEF GripInv, Prompt, Clock, SecondLook, Fingers, Still, device
    <3> QED BY <1>1, <3>2, <3>3, <3>4, <3>5 DEF GripInv, Prompt, device
  <2>3. CASE phase = "start" /\ IsBusy /\ phase' = "run" /\ UNCHANGED << pc, elapsed, slept >>
    BY <1>1, <2>3 DEF IsBusy, GripInv, Type, Frame, Prompt, Clock, Hidden, SecondLook, Fingers, Still, Waiting, device
  <2> QED BY <1>3, <2>1, <2>2, <2>3 DEF AwaitsStart
<1>4. CASE AwaitsEnd
  <2>1. CASE phase = "run" /\ elapsed >= Timeout /\ Returns(Unsettled)
    <3>1. backend = "modbus" => Still \/ jammed
      BY <2>1, GripperAssumption DEF GripInv, Prompt, Clock, Frame, Type, Still
    <3> QED BY <1>1, <2>1, <3>1, ReturnStep
  <2>2. CASE phase = "run" /\ Sleeps(IF IsBusy THEN "run" ELSE "debounce")
    <3>1. /\ phase' = IF IsBusy THEN "run" ELSE "debounce"
          /\ slept' = 0 /\ UNCHANGED << pc, elapsed, device >>
      BY <1>1, <2>2 DEF Sleeps
    <3> QED BY <1>1, <2>2, <3>1, GripperAssumption
            DEF IsBusy, GripInv, Type, Frame, Prompt, Clock, Hidden, SecondLook, Fingers, Still, Waiting, device
  <2>3. CASE phase = "debounce" /\ IsBusy /\ Sleeps("run")
    <3>1. phase' = "run" /\ slept' = 0 /\ UNCHANGED << pc, elapsed, device >>
      BY <1>1, <2>3 DEF Sleeps
    <3> QED BY <1>1, <2>3, <3>1, GripperAssumption
            DEF GripInv, Type, Frame, Prompt, Clock, Hidden, SecondLook, Fingers, Still, Waiting, device
  <2>4. CASE phase = "debounce" /\ ~IsBusy /\ Returns(Settled)
    <3>1. backend = "modbus" => Still
      BY <1>1, <2>4, GripperAssumption DEF IsBusy, GripInv, Prompt, Clock, SecondLook, Frame, Type, Still
    <3> QED BY <1>1, <2>4, <3>1, ReturnStep
  <2> QED BY <1>4, <2>1, <2>2, <2>3, <2>4 DEF AwaitsEnd
<1> QED BY <1>2, <1>3, <1>4 DEF Poll

-----------------------------------------------------------------------------
(* Time.                                                                   *)

LEMMA TickStep == ASSUME GripInv, Tick PROVE GripInv'
<1>1. /\ UNCHANGED << backend, pc, phase, nut >>
      /\ IF phase = "none" THEN UNCHANGED << elapsed, slept >>
         ELSE /\ elapsed' \in {elapsed, elapsed + 1} /\ slept' = slept + 1 /\ slept <= MaxLate
      /\ elapsed' \in Nat /\ slept' \in Nat /\ slept' <= MaxLate + 1
  BY GripperAssumption DEF Tick, Rests, Waits, Obeys, Moves, StaysJammed, wait, GripInv, Type, Frame
<1> USE DEF GripInv, Type, Frame, Prompt
<1>2. CASE Rests
  BY <1>1, <1>2, GripperAssumption DEF Rests, Still, Clock, Hidden, SecondLook, Fingers, Waiting
<1>3. CASE Waits
  <2>1. Type' /\ Frame'
    BY <1>1, <1>3, GripperAssumption DEF Waits, Waiting
  <2>2. backend = "modbus" => Clock' /\ Hidden' /\ SecondLook' /\ Fingers'
    BY <1>1, <1>3, GripperAssumption DEF Waits, Still, Clock, Hidden, SecondLook, Fingers
  <2> QED BY <1>1, <2>1, <2>2
<1>4. CASE Obeys
  <2>1. /\ pending # None /\ left = 0 /\ ~jammed
        /\ pending' = None /\ lag' = 0 /\ width' = pending /\ flicker' = "none"
        /\ left' \in Nat /\ left' <= MaxMove /\ (pending # width => left' > 0)
        /\ UNCHANGED << jammed, grip, nut >>
    BY <1>4, GripperAssumption DEF Obeys
  <2>2. Type' /\ Frame'
    BY <1>1, <2>1, GripperAssumption DEF Waiting
  <2>3. backend = "modbus" => Clock' /\ Hidden' /\ SecondLook'
    BY <1>1, <2>1, GripperAssumption DEF Clock, Hidden, SecondLook
  <2>4. backend = "modbus" => Fingers'
    BY <1>1, <2>1, GripperAssumption DEF Fingers, Still
  <2> QED BY <1>1, <2>2, <2>3, <2>4
<1>5. CASE Moves
  <2>1. /\ left > 0 /\ ~jammed
        /\ \/ left' = left - 1 /\ jammed' = jammed
           \/ jammed' = TRUE /\ left' = left
        /\ flicker' \in IF flicker = "none" THEN {"none", "now"} ELSE {"over"}
        /\ grip' = IF left' = 0 THEN width = 0 /\ nut ELSE grip
        /\ UNCHANGED << pending, lag, width, nut >>
    BY <1>5 DEF Moves
  <2>2. left' \in Nat /\ (jammed' => left' > 0) /\ grip' \in BOOLEAN /\ jammed' \in BOOLEAN
    <3>1. left' \in Nat /\ (jammed' => left' > 0)
      BY <2>1
    <3>2. jammed' \in BOOLEAN
      BY <2>1
    <3>3. CASE left' = 0
      BY <2>1, <3>1, <3>2, <3>3
    <3>4. CASE left' # 0
      BY <2>1, <3>1, <3>2, <3>4
    <3> QED BY <3>3, <3>4
  <2>6. Type'
    BY <1>1, <2>1, <2>2
  <2>7. Frame'
    BY <1>1, <2>1, <2>2
  <2>3. backend = "modbus" => Clock'
    BY <1>1, <2>1, GripperAssumption DEF Clock
  <2>4. backend = "modbus" => Hidden' /\ SecondLook'
    BY <1>1, <2>1, GripperAssumption DEF Hidden, SecondLook
  <2>5. backend = "modbus" => Fingers'
    BY <1>1, <2>1, GripperAssumption DEF Clock, Fingers, Still
  <2> QED BY <1>1, <2>3, <2>4, <2>5, <2>6, <2>7
<1>6. CASE StaysJammed
  <2>1. jammed /\ flicker' = "over" /\ UNCHANGED << pending, lag, width, left, jammed, grip, nut >>
    BY <1>6 DEF StaysJammed
  <2> QED BY <1>1, <2>1, GripperAssumption DEF Clock, Hidden, SecondLook, Fingers, Still, Waiting
<1> QED BY <1>2, <1>3, <1>4, <1>5, <1>6 DEF Tick

LEMMA GripStep == GripInv /\ [Next]_vars => GripInv'
<1> SUFFICES ASSUME GripInv, [Next]_vars PROVE GripInv'
  OBVIOUS
<1>1. CASE VerifyGrip
  BY <1>1 DEF VerifyGrip, GripInv, Type, Frame, Prompt, Clock, Hidden, SecondLook, Fingers,
              Waiting, Still, device, wait
<1>2. CASE UNCHANGED vars
  BY <1>2 DEF vars, device, wait, GripInv, Type, Frame, Prompt, Clock, Hidden, SecondLook,
              Fingers, Still
<1> QED BY <1>1, <1>2, CommandStep, PollStep, TickStep DEF Next, Picking

(* The windows of wait_until_idle are enough: however late the polls come, *)
(* and although the busy bit may lag behind the command and read idle once *)
(* in the middle of the movement, is_grip_detected is asked of fingers at  *)
(* rest, about the nut they have just closed on.                           *)
THEOREM GripBitIsFresh == Spec => []GripTellsHeld
<1>1. GripInv => GripTellsHeld
  BY DEF GripInv, Prompt, Fingers, GripTellsHeld
<1> QED BY <1>1, GripInit, GripStep, PTL DEF Spec
=============================================================================
