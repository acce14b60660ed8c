-------------------------- MODULE PrecisionProofs --------------------------
(***************************************************************************)
(* Theorems about the machine numbers, for any attributes, any width of a  *)
(* seq and any number of decays: the arithmetic of one attribute in f64    *)
(* stays in its range, decay never leaves it, seqs grow until the counter  *)
(* panics, and the exact units of the other modules are faithful to it.    *)
(***************************************************************************)
EXTENDS Precision, FiniteSetTheorems, TLAPS

-----------------------------------------------------------------------------
(***************************************************************************)
(* Binary64. A number in two limbs is an integral number of places, each   *)
(* 2^-59; the operators compute with these.                                *)
(***************************************************************************)
Limbs == Int \X (0..(F!LIMB - 1))

places(x) == x[1] * 1073741824 + x[2]

LEMMA LimbIs == F!LIMB = 1073741824
BY SMT DEF F!LIMB

\* A number is determined by its limbs, and they by their bounds.
LEMMA LimbsType ==
  ASSUME NEW x \in Limbs
  PROVE  /\ x = <<x[1], x[2]>> /\ x[1] \in Int /\ x[2] \in Int
         /\ 0 <= x[2] /\ x[2] < 1073741824
         /\ places(x) = x[1] * 1073741824 + x[2] /\ places(x) \in Int
<1>1. F!LIMB \in Int
  BY SMT, LimbIs
<1>2. x = <<x[1], x[2]>> /\ x[1] \in Int /\ x[2] \in 0..(F!LIMB - 1)
  BY SMT, <1>1 DEF Limbs
<1>3. x[2] \in Int /\ 0 <= x[2] /\ x[2] <= F!LIMB - 1
  BY SMT, <1>1, <1>2
<1>4. x[2] < 1073741824
  BY SMT, <1>3, LimbIs
<1>5. places(x) = x[1] * 1073741824 + x[2]
  BY SMT DEF places
<1> QED  BY SMT, <1>2, <1>3, <1>4, <1>5

LEMMA LimbsMember ==
  ASSUME NEW a \in Int, NEW b \in Int, 0 <= b, b < 1073741824
  PROVE  <<a, b>> \in Limbs /\ places(<<a, b>>) = a * 1073741824 + b
<1>1. F!LIMB \in Int /\ b <= F!LIMB - 1
  BY SMT, LimbIs
<1>2. b \in 0..(F!LIMB - 1)
  BY SMT, <1>1
<1>3. places(<<a, b>>) = a * 1073741824 + b
  BY SMT DEF places
<1>4. <<a, b>> \in Limbs
  BY SMT, <1>2 DEF Limbs
<1> QED  BY <1>3, <1>4

LEMMA LimbOrder ==
  ASSUME NEW a \in Int, NEW b \in Int, NEW c \in Int, NEW d \in Int,
         0 <= b, b < 1073741824, 0 <= d, d < 1073741824
  PROVE  /\ a * 1073741824 + b = c * 1073741824 + d => a = c /\ b = d
         /\ a * 1073741824 + b < c * 1073741824 + d <=> a < c \/ (a = c /\ b < d)
BY SMT

LEMMA LessIs ==
  ASSUME NEW x \in Limbs, NEW y \in Limbs
  PROVE  /\ F!less(x, y) <=> places(x) < places(y)
         /\ places(x) = places(y) => x = y
<1>1. F!less(x, y) <=> x[1] < y[1] \/ (x[1] = y[1] /\ x[2] < y[2])
  BY DEF F!less
<1>2. places(x) = places(y) => x[1] = y[1] /\ x[2] = y[2]
  BY SMT, LimbsType, LimbOrder
<1>3. F!less(x, y) <=> places(x) < places(y)
  BY SMT, <1>1, LimbsType, LimbOrder
<1> QED  BY SMT, <1>2, <1>3, LimbsType

LEMMA ZeroIs == F!ZERO \in Limbs /\ places(F!ZERO) = 0
BY SMT, LimbsMember DEF F!ZERO

\* places(F!ONE), 2^59
LEMMA OneIs == F!ONE \in Limbs /\ places(F!ONE) = 576460752303423488
<1>1. F!ONE = <<536870912, 0>>
  BY SMT DEF F!ONE
<1> QED  BY SMT, <1>1, LimbsMember

LEMMA NegateIs ==
  ASSUME NEW x \in Limbs
  PROVE  F!negate(x) \in Limbs /\ places(F!negate(x)) = -places(x)
<1>1. CASE x[2] = 0
  <2>1. F!negate(x) = <<-x[1], 0>>
    BY <1>1 DEF F!negate
  <2> QED  BY SMT, <1>1, <2>1, LimbsType, LimbsMember
<1>2. CASE x[2] # 0
  <2>1. F!negate(x) = <<-x[1] - 1, 1073741824 - x[2]>>
    BY SMT, <1>2, LimbIs DEF F!negate
  <2> DEFINE a == -x[1] - 1
             b == 1073741824 - x[2]
  <2>2. a \in Int /\ b \in Int /\ 0 <= b /\ b < 1073741824
    BY SMT, <1>2, LimbsType
  <2>3. a * 1073741824 + b = -(x[1] * 1073741824 + x[2])
    BY SMT, LimbsType
  <2> HIDE DEF a, b
  <2>4. <<a, b>> \in Limbs /\ places(<<a, b>>) = a * 1073741824 + b
    BY SMT, <2>2, LimbsMember
  <2>5. F!negate(x) = <<a, b>>
    BY SMT, <2>1 DEF a, b
  <2> QED  BY SMT, <2>3, <2>4, <2>5, LimbsType
<1> QED  BY <1>1, <1>2

LEMMA PlusIs ==
  ASSUME NEW x \in Limbs, NEW y \in Limbs
  PROVE  F!plus(x, y) \in Limbs /\ places(F!plus(x, y)) = places(x) + places(y)
<1> DEFINE s == x[2] + y[2]
           q == s \div 1073741824
           r == s % 1073741824
<1>1. /\ s \in Int /\ q \in Int /\ r \in Int
      /\ 0 <= r /\ r < 1073741824 /\ s = q * 1073741824 + r
  BY SMT, LimbsType
<1>2. F!plus(x, y) = <<x[1] + y[1] + q, r>>
  BY SMT, LimbIs DEF F!plus
<1>3. s = x[2] + y[2]
  OBVIOUS
<1> HIDE DEF s, q, r
<1>4. x[1] + y[1] + q \in Int
  BY SMT, <1>1, LimbsType
<1>5. F!plus(x, y) \in Limbs /\ places(F!plus(x, y)) = (x[1] + y[1] + q) * 1073741824 + r
  BY SMT, <1>1, <1>2, <1>4, LimbsMember
<1>6. /\ places(x) = x[1] * 1073741824 + x[2] /\ places(y) = y[1] * 1073741824 + y[2]
      /\ x[1] \in Int /\ y[1] \in Int /\ x[2] \in Int /\ y[2] \in Int
  BY LimbsType
<1>7. (x[1] + y[1] + q) * 1073741824 + r
        = x[1] * 1073741824 + y[1] * 1073741824 + x[2] + y[2]
  BY SMT, <1>1, <1>3, <1>6
<1> QED  BY SMT, <1>5, <1>6, <1>7

LEMMA AbsIs ==
  ASSUME NEW x \in Limbs
  PROVE  /\ F!abs(x) \in Limbs
         /\ places(F!abs(x)) = IF places(x) < 0 THEN -places(x) ELSE places(x)
<1>1. F!less(x, F!ZERO) <=> places(x) < 0
  BY LessIs, ZeroIs
<1> QED  BY <1>1, NegateIs DEF F!abs

LEMMA HalfType ==
  ASSUME NEW x \in Limbs
  PROVE  F!half(x) \in Limbs
<1>1. /\ x[1] \div 2 \in Int /\ x[1] % 2 \in 0..1 /\ x[2] \div 2 \in Int
      /\ 0 <= x[2] \div 2 /\ x[2] \div 2 < 536870912
  BY SMT, LimbsType
<1> DEFINE b == (x[1] % 2) * 536870912 + x[2] \div 2
<1>2. b \in Int /\ 0 <= b /\ b < 1073741824
  BY SMT, <1>1
<1>3. F!half(x) = <<x[1] \div 2, b>>
  BY SMT DEF F!half
<1> HIDE DEF b
<1> QED  BY SMT, <1>1, <1>2, <1>3, LimbsMember

(***************************************************************************)
(* Rounding.                                                               *)
(***************************************************************************)
Ulps == {1, 2, 4, 8, 16, 32, 64, 128}

LEMMA UlpIs ==
  ASSUME NEW x
  PROVE  /\ F!ulp(x) \in Ulps
         /\ \A y : y[1] = x[1] => F!ulp(y) = F!ulp(x)
<1>1. F!ulp(x) \in Ulps
  BY DEF F!ulp, Ulps
<1>2. ASSUME NEW y, y[1] = x[1]  PROVE F!ulp(y) = F!ulp(x)
  BY <1>2 DEF F!ulp
<1> QED  BY <1>1, <1>2

\* The multiples of an ulp around a low limb: no other lies between the two,
\* and a carry into the high limb leaves zero.
LEMMA Multiples ==
  ASSUME NEW u \in Ulps, NEW b \in Int, 0 <= b, b < 1073741824, NEW d, d = b % u
  PROVE  /\ u \in Int /\ d \in Int /\ 0 <= d /\ d < u /\ u <= 128
         /\ (b - d) % u = 0 /\ (b - d + u) % u = 0 /\ 0 % u = 0
         /\ 0 <= b - d /\ b - d + u <= 1073741824
<1>1. CASE u = 1  BY SMT, <1>1
<1>2. CASE u = 2  BY SMT, <1>2
<1>3. CASE u = 4  BY SMT, <1>3
<1>4. CASE u = 8  BY SMT, <1>4
<1>5. CASE u = 16  BY SMT, <1>5
<1>6. CASE u = 32  BY SMT, <1>6
<1>7. CASE u = 64  BY SMT, <1>7
<1>8. CASE u = 128  BY SMT, <1>8
<1> QED  BY SMT, <1>1, <1>2, <1>3, <1>4, <1>5, <1>6, <1>7, <1>8 DEF Ulps

LEMMA LowLimb ==
  ASSUME NEW x \in Limbs, NEW u \in Ulps, NEW d, d = x[2] % u
  PROVE  /\ u \in Int /\ d \in Int /\ 0 <= d /\ d < u /\ u <= 128
         /\ (x[2] - d) % u = 0 /\ (x[2] - d + u) % u = 0 /\ 0 % u = 0
         /\ 0 <= x[2] - d /\ x[2] - d + u <= 1073741824
<1> DEFINE b == x[2]
<1>1. b \in Int /\ 0 <= b /\ b < 1073741824 /\ d = b % u
  BY SMT, LimbsType
<1> HIDE DEF b
<1>2. /\ u \in Int /\ d \in Int /\ 0 <= d /\ d < u /\ u <= 128
      /\ (b - d) % u = 0 /\ (b - d + u) % u = 0 /\ 0 % u = 0
      /\ 0 <= b - d /\ b - d + u <= 1073741824
  BY SMT, <1>1, Multiples
<1> QED  BY SMT, <1>2 DEF b

LEMMA MultiplesApart ==
  ASSUME NEW u \in Ulps, NEW b \in Int, 0 <= b, NEW d, d = b % u,
         NEW c \in Int, 0 <= c, c % u = 0
  PROVE  /\ c <= b => c <= b - d
         /\ b < c => b - d + u <= c
<1>1. CASE u = 1  BY SMT, <1>1
<1>2. CASE u = 2  BY SMT, <1>2
<1>3. CASE u = 4  BY SMT, <1>3
<1>4. CASE u = 8  BY SMT, <1>4
<1>5. CASE u = 16  BY SMT, <1>5
<1>6. CASE u = 32  BY SMT, <1>6
<1>7. CASE u = 64  BY SMT, <1>7
<1>8. CASE u = 128  BY SMT, <1>8
<1> QED  BY SMT, <1>1, <1>2, <1>3, <1>4, <1>5, <1>6, <1>7, <1>8 DEF Ulps

\* One place added in the last place of a number cut to its ulp.
LEMMA StepUp ==
  ASSUME NEW a \in Int, NEW c \in Int, NEW u \in Ulps, 0 <= c, c + u <= 1073741824
  PROVE  /\ F!plus(<<a, c>>, <<0, u>>) \in Limbs
         /\ places(F!plus(<<a, c>>, <<0, u>>)) = a * 1073741824 + c + u
<1>1. u \in Int /\ 1 <= u /\ u <= 128
  BY SMT DEF Ulps
<1>2. <<a, c>> \in Limbs /\ places(<<a, c>>) = a * 1073741824 + c
  BY SMT, <1>1, LimbsMember
<1>3. <<0, u>> \in Limbs /\ places(<<0, u>>) = u
  BY SMT, <1>1, LimbsMember
<1> QED  BY SMT, <1>1, <1>2, <1>3, PlusIs

\* nearest cuts a number to its ulp or goes to the multiple after; a number
\* that is cut already stays.
LEMMA NearestOneOf ==
  ASSUME NEW x \in Limbs, NEW rest \in Nat, NEW den \in Nat, rest < den,
         NEW u, u = F!ulp(x), NEW d, d = x[2] % u, NEW r, r = F!nearest(x, rest, den)
  PROVE  /\ r \in Limbs /\ u \in Ulps
         /\ places(r) = places(x) - d \/ places(r) = places(x) - d + u
         /\ rest = 0 => /\ 2 * (places(r) - places(x)) <= u /\ 2 * (places(x) - places(r)) <= u
                        /\ d = 0 => places(r) = places(x)
<1>1. u \in Ulps
  BY UlpIs
<1>2. /\ u \in Int /\ d \in Int /\ 0 <= d /\ d < u
      /\ 0 <= x[2] - d /\ x[2] - d + u <= 1073741824
  BY SMT, LimbsType, <1>1, Multiples
<1> DEFINE c == x[2] - d
           over == 2 * (d * den + rest)
           odd == (x[2] \div u) % 2 = 1
           up == over > u * den \/ (over = u * den /\ odd)
<1>3. r = IF up THEN F!plus(<<x[1], c>>, <<0, u>>) ELSE <<x[1], c>>
  BY DEF F!nearest
<1>4. /\ F!plus(<<x[1], c>>, <<0, u>>) \in Limbs
      /\ places(F!plus(<<x[1], c>>, <<0, u>>)) = places(x) - d + u
  <2>1. x[1] \in Int /\ c \in Int /\ 0 <= c /\ c + u <= 1073741824
    BY SMT, <1>2, LimbsType
  <2>2. /\ F!plus(<<x[1], c>>, <<0, u>>) \in Limbs
        /\ places(F!plus(<<x[1], c>>, <<0, u>>)) = x[1] * 1073741824 + c + u
    <3> HIDE DEF c
    <3> QED  BY <1>1, <2>1, StepUp
  <2>3. x[1] * 1073741824 + c + u = places(x) - d + u
    BY SMT, <1>2, LimbsType
  <2> QED  BY <2>2, <2>3
<1>5. <<x[1], c>> \in Limbs /\ places(<<x[1], c>>) = places(x) - d
  <2>1. x[1] \in Int /\ c \in Int /\ 0 <= c /\ c < 1073741824
    BY SMT, <1>2, LimbsType
  <2>2. <<x[1], c>> \in Limbs /\ places(<<x[1], c>>) = x[1] * 1073741824 + c
    <3> HIDE DEF c
    <3> QED  BY <2>1, LimbsMember
  <2>3. x[1] * 1073741824 + c = places(x) - d
    BY SMT, <1>2, LimbsType
  <2> QED  BY <2>2, <2>3
<1>6. rest = 0 => /\ up => 2 * d >= u
                  /\ ~up => 2 * d <= u
  <2> SUFFICES ASSUME rest = 0  PROVE (up => 2 * d >= u) /\ (~up => 2 * d <= u)
    OBVIOUS
  <2>1. over = (2 * d) * den
    BY SMT, <1>2
  <2>2. 2 * d < u => (2 * d) * den < u * den
    BY SMT, <1>2
  <2>3. u < 2 * d => u * den < (2 * d) * den
    BY SMT, <1>2
  <2>4. over \in Int /\ u * den \in Int
    BY SMT, <1>2
  <2> HIDE DEF over, odd
  <2> QED  BY SMT, <1>2, <2>1, <2>2, <2>3, <2>4
<1> HIDE DEF up, c
<1> QED  BY SMT, <1>1, <1>2, <1>3, <1>4, <1>5, <1>6, LimbsType

\* A number whose low limb is a multiple of its ulp: one that nearest leaves alone.
Cut(x) == x[2] % F!ulp(x) = 0

\* nearest of a number in limbs is representable, and no representable number
\* lies between the two.
LEMMA NearestIs ==
  ASSUME NEW x \in Limbs, NEW r, r = F!nearest(x, 0, 1)
  PROVE  /\ r \in Limbs /\ Cut(r)
         /\ places(r) - places(x) <= 64 /\ places(x) - places(r) <= 64
         /\ \A y \in Limbs : Cut(y) => /\ places(y) <= places(x) => places(y) <= places(r)
                                       /\ places(x) <= places(y) => places(r) <= places(y)
<1> DEFINE u == F!ulp(x)
           d == x[2] % u
           c == x[2] - d
<1>1. u \in Ulps /\ \A y : y[1] = x[1] => F!ulp(y) = u
  BY SMT, UlpIs
<1>2. /\ r \in Limbs
      /\ places(r) = places(x) - d \/ places(r) = places(x) - d + u
      /\ 2 * (places(r) - places(x)) <= u /\ 2 * (places(x) - places(r)) <= u
      /\ d = 0 => places(r) = places(x)
  <2>1. 0 \in Nat /\ 1 \in Nat /\ 0 < 1 /\ 0 = 0
    BY SMT
  <2> HIDE DEF u
  <2>2. u = F!ulp(x)
    BY SMT DEF u
  <2> HIDE DEF d
  <2>3. d = x[2] % u
    BY SMT DEF d
  <2> QED  BY SMT, <2>1, <2>2, <2>3, NearestOneOf
<1>3. /\ x[1] \in Int /\ x[2] \in Int /\ 0 <= x[2] /\ x[2] < 1073741824
      /\ places(x) = x[1] * 1073741824 + x[2] /\ places(x) \in Int
  BY SMT, LimbsType
<1>4. /\ u \in Int /\ d \in Int /\ 0 <= d /\ d < u /\ u <= 128
      /\ c % u = 0 /\ (c + u) % u = 0 /\ 0 % u = 0
      /\ 0 <= c /\ c + u <= 1073741824 /\ c \in Int
      /\ \A z \in Int : 0 <= z /\ z % u = 0 => /\ z <= x[2] => z <= c
                                               /\ x[2] < z => c + u <= z
  <2> HIDE DEF u
  <2>1. x[2] - d = c
    BY SMT DEF c
  <2>2. d = x[2] % u
    BY SMT DEF d
  <2> HIDE DEF d, c
  <2>3. /\ u \in Int /\ d \in Int /\ 0 <= d /\ d < u /\ u <= 128
        /\ (x[2] - d) % u = 0 /\ (x[2] - d + u) % u = 0 /\ 0 % u = 0
        /\ 0 <= x[2] - d /\ x[2] - d + u <= 1073741824
    BY SMT, <1>1, <2>2, LowLimb
  <2>4. c \in Int
    BY SMT, <1>3, <2>1, <2>3
  <2>5. ASSUME NEW z \in Int, 0 <= z, z % u = 0
        PROVE  /\ z <= x[2] => z <= c
               /\ x[2] < z => c + u <= z
    BY SMT, <1>1, <1>3, <2>1, <2>2, <2>5, MultiplesApart
  <2> QED  BY SMT, <2>1, <2>3, <2>4, <2>5
<1>5. places(r) = x[1] * 1073741824 + c \/ places(r) = x[1] * 1073741824 + c + u
  <2> HIDE DEF u, d
  <2>1. c = x[2] - d
    BY SMT DEF c
  <2> HIDE DEF c
  <2> QED  BY SMT, <1>2, <1>3, <1>4, <2>1
<1> HIDE DEF u, d, c
<1>6. Cut(r)
  <2>1. CASE places(r) = x[1] * 1073741824 + c
    <3>1. <<x[1], c>> \in Limbs /\ places(<<x[1], c>>) = x[1] * 1073741824 + c
      <4>1. c < 1073741824
        BY SMT, <1>4
      <4> QED  BY SMT, <1>3, <1>4, <4>1, LimbsMember
    <3>2. r = <<x[1], c>>
      BY SMT, <1>2, <2>1, <3>1, LessIs
    <3>3. F!ulp(r) = u /\ r[2] = c
      BY SMT, <1>1, <3>2
    <3> QED  BY SMT, <1>4, <3>3 DEF Cut
  <2>2. CASE places(r) = x[1] * 1073741824 + c + u /\ c + u < 1073741824
    <3> DEFINE e == c + u
    <3>0. e \in Int /\ 0 <= e /\ e < 1073741824 /\ e % u = 0
          /\ places(r) = x[1] * 1073741824 + e
      BY SMT, <1>3, <1>4, <2>2
    <3> HIDE DEF e
    <3>1. <<x[1], e>> \in Limbs /\ places(<<x[1], e>>) = x[1] * 1073741824 + e
      BY SMT, <1>3, <3>0, LimbsMember
    <3>2. r = <<x[1], e>>
      BY SMT, <1>2, <3>0, <3>1, LessIs
    <3>3. F!ulp(r) = u /\ r[2] = e
      BY SMT, <1>1, <3>2
    <3> QED  BY SMT, <3>0, <3>3 DEF Cut
  <2>3. CASE places(r) = x[1] * 1073741824 + c + u /\ ~(c + u < 1073741824)
    <3> DEFINE e == x[1] + 1
    <3>0. e \in Int /\ places(r) = e * 1073741824 + 0
      BY SMT, <1>3, <1>4, <2>3
    <3> HIDE DEF e
    <3>1. <<e, 0>> \in Limbs /\ places(<<e, 0>>) = e * 1073741824 + 0
      <4>1. 0 \in Int /\ 0 <= 0 /\ 0 < 1073741824
        BY SMT
      <4> QED  BY SMT, <3>0, <4>1, LimbsMember
    <3>2. r = <<e, 0>>
      BY SMT, <1>2, <3>0, <3>1, LessIs
    <3>3. F!ulp(r) \in Ulps /\ r[2] = 0
      BY SMT, <3>2, UlpIs
    <3>4. 0 % F!ulp(r) = 0
      BY SMT, <3>3 DEF Ulps
    <3> QED  BY SMT, <3>3, <3>4 DEF Cut
  <2> QED  BY SMT, <1>5, <2>1, <2>2, <2>3
<1>7. ASSUME NEW y \in Limbs, Cut(y)
      PROVE  /\ places(y) <= places(x) => places(y) <= places(r)
             /\ places(x) <= places(y) => places(r) <= places(y)
  <2>1. /\ y[1] \in Int /\ y[2] \in Int /\ 0 <= y[2] /\ y[2] < 1073741824
        /\ places(y) = y[1] * 1073741824 + y[2] /\ places(y) \in Int
    BY SMT, LimbsType
  <2>2. CASE y[1] < x[1]
    BY SMT, <1>3, <1>4, <1>5, <2>1, <2>2
  <2>3. CASE y[1] > x[1]
    BY SMT, <1>3, <1>4, <1>5, <2>1, <2>3
  <2>4. CASE y[1] = x[1]
    <3>1. y[2] % u = 0
      BY SMT, <1>1, <1>7, <2>4 DEF Cut
    <3>2. y[2] <= x[2] => y[2] <= c
      BY SMT, <1>4, <2>1, <3>1
    <3>3. x[2] < y[2] => c + u <= y[2]
      BY SMT, <1>4, <2>1, <3>1
    <3>4. x[2] = y[2] => d = 0
      BY SMT, <3>1 DEF d
    <3>5. /\ places(y) = x[1] * 1073741824 + y[2]
          /\ x[1] * 1073741824 \in Int
      BY SMT, <1>3, <2>1, <2>4
    <3>6. CASE y[2] < x[2]
      BY SMT, <1>3, <1>4, <1>5, <2>1, <3>2, <3>5, <3>6
    <3>7. CASE x[2] < y[2]
      BY SMT, <1>3, <1>4, <1>5, <2>1, <3>3, <3>5, <3>7
    <3>8. CASE x[2] = y[2]
      <4>1. places(y) = places(x) /\ places(r) = places(x)
        BY SMT, <1>2, <1>3, <3>4, <3>5, <3>8
      <4> QED  BY SMT, <1>3, <4>1
    <3> QED  BY SMT, <1>3, <2>1, <3>6, <3>7, <3>8
  <2> QED  BY SMT, <1>3, <2>1, <2>2, <2>3, <2>4
<1>8. places(r) - places(x) <= 64 /\ places(x) - places(r) <= 64
  <2>1. places(r) \in Int
    BY SMT, <1>2, LimbsType
  <2> QED  BY SMT, <1>2, <1>3, <1>4, <2>1
<1> QED  BY SMT, <1>2, <1>6, <1>7, <1>8

\* A number an f64 holds.
Grid(x) == Cut(F!abs(x))

LEMMA GridOf ==
  ASSUME NEW x \in Limbs, NEW m \in Limbs, Cut(m),
         places(m) = IF places(x) < 0 THEN -places(x) ELSE places(x)
  PROVE  Grid(x)
<1>1. F!abs(x) = m
  BY SMT, AbsIs, LessIs
<1> QED  BY SMT, <1>1 DEF Grid

LEMMA ZeroGrid == Cut(F!ZERO) /\ Grid(F!ZERO)
<1>1. Cut(F!ZERO)
  BY SMT DEF Cut, F!ZERO, F!ulp
<1>2. places(F!ZERO) = IF places(F!ZERO) < 0 THEN -places(F!ZERO) ELSE places(F!ZERO)
  BY SMT, ZeroIs
<1> QED  BY SMT, <1>1, <1>2, ZeroIs, GridOf

LEMMA OneGrid == Grid(F!ONE)
<1>1. F!ONE[2] = 0 /\ F!ulp(F!ONE) \in Ulps
  BY SMT, UlpIs DEF F!ONE
<1>2. Cut(F!ONE)
  BY SMT, <1>1 DEF Cut, Ulps
<1>3. places(F!ONE) = IF places(F!ONE) < 0 THEN -places(F!ONE) ELSE places(F!ONE)
  BY SMT, OneIs
<1> QED  BY SMT, <1>2, <1>3, OneIs, GridOf

LEMMA NegateGrid ==
  ASSUME NEW x \in Limbs, Grid(x)
  PROVE  Grid(F!negate(x))
<1>1. /\ F!abs(x) \in Limbs /\ Cut(F!abs(x))
      /\ places(F!abs(x)) = IF places(x) < 0 THEN -places(x) ELSE places(x)
  BY SMT, AbsIs DEF Grid
<1>2. F!negate(x) \in Limbs /\ places(F!negate(x)) = -places(x) /\ places(x) \in Int
  BY SMT, NegateIs, LimbsType
<1>3. places(F!abs(x)) = IF places(F!negate(x)) < 0 THEN -places(F!negate(x))
                         ELSE places(F!negate(x))
  BY SMT, <1>1, <1>2
<1> QED  BY SMT, <1>1, <1>2, <1>3, GridOf

\* rounded of a number in limbs is an f64, at most half an ulp away, and no f64
\* lies between the two.
LEMMA RoundedIs ==
  ASSUME NEW x \in Limbs, NEW r, r = F!rounded(x)
  PROVE  /\ r \in Limbs /\ Grid(r)
         /\ places(r) - places(x) <= 64 /\ places(x) - places(r) <= 64
         /\ \A y \in Limbs : Grid(y) => /\ places(y) <= places(x) => places(y) <= places(r)
                                        /\ places(x) <= places(y) => places(r) <= places(y)
<1>1. F!less(x, F!ZERO) <=> places(x) < 0
  BY SMT, LessIs, ZeroIs
<1>2. places(x) \in Int
  BY SMT, LimbsType
<1>3. CASE places(x) < 0
  <2> DEFINE n == F!negate(x)
             m == F!nearest(n, 0, 1)
  <2>1. n \in Limbs /\ places(n) = -places(x)
    BY SMT, NegateIs
  <2> HIDE DEF n
  <2>2. /\ m \in Limbs /\ Cut(m)
        /\ places(m) - places(n) <= 64 /\ places(n) - places(m) <= 64
        /\ \A y \in Limbs : Cut(y) => /\ places(y) <= places(n) => places(y) <= places(m)
                                      /\ places(n) <= places(y) => places(m) <= places(y)
    BY SMT, <2>1, NearestIs
  <2>3. r = F!negate(m)
    BY SMT, <1>1, <1>3 DEF F!rounded, n
  <2> HIDE DEF m
  <2>4. r \in Limbs /\ places(r) = -places(m) /\ places(m) \in Int
    BY SMT, <2>2, <2>3, NegateIs, LimbsType
  <2>5. 0 <= places(m)
    BY SMT, <1>2, <1>3, <2>1, <2>2, ZeroIs, ZeroGrid
  <2>6. Grid(r)
    BY SMT, <2>2, <2>4, <2>5, GridOf
  <2>7. ASSUME NEW y \in Limbs, Grid(y)
        PROVE  /\ places(y) <= places(x) => places(y) <= places(r)
               /\ places(x) <= places(y) => places(r) <= places(y)
    <3> DEFINE z == F!abs(y)
    <3>1. /\ z \in Limbs /\ Cut(z) /\ places(y) \in Int
          /\ places(z) = IF places(y) < 0 THEN -places(y) ELSE places(y)
      BY SMT, <2>7, AbsIs, LimbsType DEF Grid
    <3> HIDE DEF z
    <3>2. /\ places(z) <= places(n) => places(z) <= places(m)
          /\ places(n) <= places(z) => places(m) <= places(z)
      BY SMT, <2>2, <3>1
    <3> QED  BY SMT, <1>2, <1>3, <2>1, <2>4, <2>5, <3>1, <3>2
  <2>8. places(r) - places(x) <= 64 /\ places(x) - places(r) <= 64
    BY SMT, <1>2, <2>1, <2>2, <2>4
  <2> QED  BY SMT, <2>4, <2>6, <2>7, <2>8
<1>4. CASE 0 <= places(x)
  <2>1. r = F!nearest(x, 0, 1)
    BY SMT, <1>1, <1>2, <1>4 DEF F!rounded
  <2>2. /\ r \in Limbs /\ Cut(r)
        /\ places(r) - places(x) <= 64 /\ places(x) - places(r) <= 64
        /\ \A y \in Limbs : Cut(y) => /\ places(y) <= places(x) => places(y) <= places(r)
                                      /\ places(x) <= places(y) => places(r) <= places(y)
    BY SMT, <2>1, NearestIs
  <2>3. 0 <= places(r) /\ places(r) \in Int
    BY SMT, <1>2, <1>4, <2>2, ZeroIs, ZeroGrid, LimbsType
  <2>4. Grid(r)
    BY SMT, <2>2, <2>3, GridOf
  <2>5. ASSUME NEW y \in Limbs, Grid(y)
        PROVE  /\ places(y) <= places(x) => places(y) <= places(r)
               /\ places(x) <= places(y) => places(r) <= places(y)
    <3>1. places(y) \in Int
      BY SMT, LimbsType
    <3>2. CASE places(y) < 0
      BY SMT, <1>2, <1>4, <2>3, <3>1, <3>2
    <3>3. CASE 0 <= places(y)
      <4>1. F!abs(y) = y
        BY SMT, <3>1, <3>3, AbsIs, LessIs
      <4> QED  BY SMT, <2>2, <2>5, <4>1 DEF Grid
    <3> QED  BY SMT, <3>1, <3>2, <3>3
  <2> QED  BY SMT, <2>2, <2>4, <2>5
<1> QED  BY SMT, <1>2, <1>3, <1>4

\* An f64 sum.
LEMMA AddIs ==
  ASSUME NEW x \in Limbs, NEW y \in Limbs, NEW r, r = F!add(x, y)
  PROVE  /\ r \in Limbs /\ Grid(r)
         /\ places(r) - (places(x) + places(y)) <= 64
         /\ (places(x) + places(y)) - places(r) <= 64
         /\ \A z \in Limbs : Grid(z) => /\ places(z) <= places(x) + places(y) => places(z) <= places(r)
                                        /\ places(x) + places(y) <= places(z) => places(r) <= places(z)
<1>1. F!plus(x, y) \in Limbs /\ places(F!plus(x, y)) = places(x) + places(y)
  BY SMT, PlusIs
<1>2. r = F!rounded(F!plus(x, y))
  BY SMT DEF F!add
<1> QED  BY SMT, <1>1, <1>2, RoundedIs

LEMMA SubIs ==
  ASSUME NEW x \in Limbs, NEW y \in Limbs, NEW r, r = F!sub(x, y)
  PROVE  /\ r \in Limbs /\ Grid(r)
         /\ places(r) - (places(x) - places(y)) <= 64
         /\ (places(x) - places(y)) - places(r) <= 64
         /\ \A z \in Limbs : Grid(z) => /\ places(z) <= places(x) - places(y) => places(z) <= places(r)
                                        /\ places(x) - places(y) <= places(z) => places(r) <= places(z)
<1> DEFINE n == F!negate(y)
<1>1. n \in Limbs /\ places(n) = -places(y)
  BY SMT, NegateIs
<1>2. r = F!add(x, n)
  BY SMT DEF F!sub
<1> HIDE DEF n
<1>3. /\ r \in Limbs /\ Grid(r)
      /\ places(r) - (places(x) + places(n)) <= 64
      /\ (places(x) + places(n)) - places(r) <= 64
      /\ \A z \in Limbs : Grid(z) => /\ places(z) <= places(x) + places(n) => places(z) <= places(r)
                                     /\ places(x) + places(n) <= places(z) => places(r) <= places(z)
  BY SMT, <1>1, <1>2, AddIs
<1>4. places(x) \in Int /\ places(y) \in Int /\ places(x) + places(n) = places(x) - places(y)
  BY SMT, <1>1, LimbsType
<1> QED  BY SMT, <1>3, <1>4

-----------------------------------------------------------------------------
(***************************************************************************)
(* The constants of the tables as f64 literals.                            *)
(***************************************************************************)

\* The long division of literal: what is left over, and the digits.
LEMMA Digits ==
  ASSUME NEW num \in Int, 0 <= num, num <= 400,
         NEW a, a = (num * 1048576) \div 400, NEW b, b = (num * 1048576) % 400,
         NEW c, c = (b * 1048576) \div 400, NEW d, d = (b * 1048576) % 400,
         NEW e, e = (d * 524288) \div 400, NEW rest, rest = (d * 524288) % 400
  PROVE  /\ a * 512 + c \div 2048 \in Int /\ 0 <= a * 512 + c \div 2048
         /\ (c % 2048) * 524288 + e \in Int /\ 0 <= (c % 2048) * 524288 + e
         /\ (c % 2048) * 524288 + e < 1073741824
         /\ rest \in Nat /\ rest < 400
         /\ num <= 120 => a * 512 + c \div 2048 <= 161061376
<1>1. /\ a \in Int /\ 0 <= a /\ b \in Int /\ 0 <= b /\ b < 400
      /\ num <= 120 => a <= 314572
  OBVIOUS
<1>2. c \in Int /\ 0 <= c /\ c < 1048576 /\ d \in Int /\ 0 <= d /\ d < 400
  BY SMT, <1>1
<1>3. e \in Int /\ 0 <= e /\ e < 524288 /\ rest \in Nat /\ rest < 400
  BY SMT, <1>2
<1>4. /\ c \div 2048 \in Int /\ 0 <= c \div 2048 /\ c \div 2048 < 512
      /\ c % 2048 \in Int /\ 0 <= c % 2048 /\ c % 2048 <= 2047
  BY SMT, <1>2
<1> QED  BY SMT, <1>1, <1>2, <1>3, <1>4

LEMMA LiteralIs ==
  ASSUME NEW num \in Int, 0 <= num, num <= 400, NEW r, r = F!literal(num, 400)
  PROVE  /\ r \in Limbs /\ 0 <= places(r)
         /\ num <= 120 => places(r) <= 288230376151711744
<1> DEFINE a == (num * 1048576) \div 400
           b == (num * 1048576) % 400
           c == (b * 1048576) \div 400
           d == (b * 1048576) % 400
           e == (d * 524288) \div 400
           rest == (d * 524288) % 400
           hi == a * 512 + c \div 2048
           lo == (c % 2048) * 524288 + e
<1>1. r = F!nearest(<<hi, lo>>, rest, 400)
  BY SMT DEF F!literal
<1>2. /\ hi \in Int /\ 0 <= hi /\ lo \in Int /\ 0 <= lo /\ lo < 1073741824
      /\ rest \in Nat /\ rest < 400
      /\ num <= 120 => hi <= 161061376
  BY SMT, Digits
<1> HIDE DEF hi, lo, rest
<1>3. <<hi, lo>> \in Limbs /\ places(<<hi, lo>>) = hi * 1073741824 + lo
  BY SMT, <1>2, LimbsMember
<1> DEFINE q == <<hi, lo>>
           u == F!ulp(q)
           s == q[2] % u
<1>4. q[1] = hi /\ q[2] = lo /\ q \in Limbs /\ places(q) = hi * 1073741824 + lo
  BY SMT, <1>3
<1>5. r = F!nearest(q, rest, 400)
  BY SMT, <1>1
<1>6. u = F!ulp(q) /\ u \in Ulps
  BY SMT, UlpIs
<1> HIDE DEF q, u
<1>7. s = q[2] % u
  OBVIOUS
<1> HIDE DEF s
<1>8. r \in Limbs /\ (places(r) = places(q) - s \/ places(r) = places(q) - s + u)
  <2> DEFINE den == 400
  <2>1. den \in Nat /\ rest \in Nat /\ rest < den
    BY SMT, <1>2
  <2>2. r = F!nearest(q, rest, den)
    BY SMT, <1>5
  <2> HIDE DEF den
  <2>3. q \in Limbs
    BY SMT, <1>4
  <2> QED  BY SMTT(30), <1>6, <1>7, <2>1, <2>2, <2>3, NearestOneOf
<1>9. u \in Int /\ s \in Int /\ 0 <= s /\ s < u /\ u <= 128 /\ 0 <= q[2] - s
  BY SMT, <1>4, <1>6, <1>7, LowLimb
<1>10. 0 <= hi * 1073741824 /\ (num <= 120 => hi * 1073741824 <= 172938225691009024 + 109951162777600)
  BY SMT, <1>2
<1> QED  BY SMT, <1>2, <1>4, <1>8, <1>9, <1>10

LEMMA F64Is ==
  ASSUME NEW u \in Int, -400 <= u, u <= 400
  PROVE  /\ f64[u] \in Limbs
         /\ u <= 0 => places(f64[u]) <= 0
         /\ u <= 120 => places(f64[u]) <= 288230376151711744
         /\ -120 <= u => -288230376151711744 <= places(f64[u])
<1>1. ONE \in Int /\ ONE = 400
  BY SMT DEF ONE
<1>2. u \in -ONE..ONE
  BY SMT, <1>1
<1>3. f64[u] = IF u < 0 THEN F!negate(F!literal(-u, 400)) ELSE F!literal(u, 400)
  <2>1. f64[u] = IF u < 0 THEN F!negate(F!literal(-u, ONE)) ELSE F!literal(u, ONE)
    BY SMT, <1>2 DEF f64
  <2> QED  BY SMT, <1>1, <2>1
<1>4. CASE u < 0
  <2> DEFINE n == -u
             q == F!literal(n, 400)
  <2>1. n \in Int /\ 0 <= n /\ n <= 400 /\ (-120 <= u => n <= 120)
    BY SMT, <1>4
  <2>2. f64[u] = F!negate(q)
    BY SMT, <1>3, <1>4
  <2> HIDE DEF n
  <2>3. /\ q \in Limbs /\ 0 <= places(q)
        /\ n <= 120 => places(q) <= 288230376151711744
    BY SMT, <2>1, LiteralIs
  <2> HIDE DEF q
  <2>4. f64[u] \in Limbs /\ places(f64[u]) = -places(q) /\ places(q) \in Int
    BY SMT, <2>2, <2>3, NegateIs, LimbsType
  <2> QED  BY SMT, <1>4, <2>1, <2>3, <2>4
<1>5. CASE 0 <= u
  <2> DEFINE q == F!literal(u, 400)
  <2>1. /\ q \in Limbs /\ 0 <= places(q)
        /\ u <= 120 => places(q) <= 288230376151711744
    BY SMT, <1>5, LiteralIs
  <2>2. f64[u] = q
    BY SMT, <1>3, <1>5
  <2> HIDE DEF q
  <2>3. places(q) \in Int
    BY SMT, <2>1, LimbsType
  <2>4. CASE u = 0
    <3>1. q = F!literal(0, 400)
      BY SMT, <2>4 DEF q
    <3>2. F!literal(0, 400) = F!nearest(<<0, 0>>, 0, 400)
      BY SMT DEF F!literal
    <3>3. F!nearest(<<0, 0>>, 0, 400) = <<0, 0>>
      BY SMT DEF F!nearest, F!ulp
    <3>4. places(q) = 0
      BY SMT, <3>1, <3>2, <3>3, ZeroIs DEF F!ZERO
    <3> QED  BY SMT, <2>1, <2>2, <2>4, <3>4
  <2>5. CASE 0 < u
    BY SMT, <2>1, <2>2, <2>3, <2>5
  <2> QED  BY SMT, <1>5, <2>4, <2>5
<1> QED  BY SMT, <1>4, <1>5

LEMMA ScaleType ==
  ASSUME NEW x \in Limbs, NEW t \in {1, 2, 3}
  PROVE  F!scale(x, t) \in Limbs
<1>1. F!half(x) \in Limbs
  BY SMT, HalfType
<1>2. F!rounded(F!half(x)) \in Limbs
  BY SMT, <1>1, RoundedIs
<1>3. F!plus(x, F!half(x)) \in Limbs
  BY SMT, <1>1, PlusIs
<1>4. F!rounded(F!plus(x, F!half(x))) \in Limbs
  BY SMT, <1>3, RoundedIs
<1>5. CASE t = 1
  BY SMT, <1>2, <1>5 DEF F!scale
<1>6. CASE t = 2
  BY SMT, <1>6 DEF F!scale
<1>7. CASE t = 3
  BY SMT, <1>4, <1>7 DEF F!scale
<1> QED  BY SMT, <1>5, <1>6, <1>7

LEMMA ClampIs ==
  ASSUME NEW x \in Limbs, NEW lo \in Limbs, NEW hi \in Limbs, NEW c, c = F!clamp(x, lo, hi)
  PROVE  /\ c \in Limbs
         /\ places(c) = IF places(x) < places(lo) THEN places(lo)
                        ELSE IF places(hi) < places(x) THEN places(hi) ELSE places(x)
<1>1. F!less(x, lo) <=> places(x) < places(lo)
  BY SMT, LessIs
<1>2. F!less(hi, x) <=> places(hi) < places(x)
  BY SMT, LessIs
<1> QED  BY SMT, <1>1, <1>2 DEF F!clamp

\* A weighted delta is within 0.30, whatever the base.
LEMMA WeightIs ==
  ASSUME NEW base \in Int, -400 <= base, base <= 400, NEW conf \in Confidence,
         NEW w, w = weight_delta64(base, conf)
  PROVE  /\ w \in Limbs
         /\ -288230376151711744 <= places(w) /\ places(w) <= 288230376151711744
<1>1. twice_weight(conf) \in {1, 2, 3}
  BY SMT DEF Confidence, twice_weight
<1>2. f64[base] \in Limbs
  BY SMT, F64Is
<1> DEFINE lo == f64[-CONFIDENCE_MAGNITUDE_CAP]
           hi == f64[CONFIDENCE_MAGNITUDE_CAP]
           x == F!scale(f64[base], twice_weight(conf))
<1>3. CONFIDENCE_MAGNITUDE_CAP = 120
  BY SMT DEF CONFIDENCE_MAGNITUDE_CAP, HIGH
<1>4. /\ lo \in Limbs /\ hi \in Limbs
      /\ -288230376151711744 <= places(lo) /\ places(lo) <= 0
      /\ -288230376151711744 <= places(hi) /\ places(hi) <= 288230376151711744
  BY SMT, <1>3, F64Is
<1>5. x \in Limbs
  BY SMT, <1>1, <1>2, ScaleType
<1>6. w = F!clamp(x, lo, hi)
  BY SMT DEF weight_delta64
<1> HIDE DEF x, lo, hi
<1>7. /\ w \in Limbs
      /\ places(w) = IF places(x) < places(lo) THEN places(lo)
                     ELSE IF places(hi) < places(x) THEN places(hi) ELSE places(x)
  BY SMT, <1>4, <1>5, <1>6, ClampIs
<1>8. places(x) \in Int /\ places(lo) \in Int /\ places(hi) \in Int
  BY SMT, <1>4, <1>5, LimbsType
<1> QED  BY SMT, <1>4, <1>7, <1>8

LEMMA UnitsWeightIs ==
  ASSUME NEW base \in Int, NEW conf \in Confidence
  PROVE  /\ weight_delta(base, conf) \in Int
         /\ -120 <= weight_delta(base, conf) /\ weight_delta(base, conf) <= 120
<1>1. twice_weight(conf) \in {1, 2, 3}
  BY SMT DEF Confidence, twice_weight
<1>2. (base * twice_weight(conf)) \div 2 \in Int
  BY SMT, <1>1
<1>3. CONFIDENCE_MAGNITUDE_CAP = 120
  BY SMT DEF CONFIDENCE_MAGNITUDE_CAP, HIGH
<1> QED  BY SMT, <1>2, <1>3 DEF weight_delta, clamp

\* The entries of the tables.
LEMMA RowsAre ==
  ASSUME NEW n \in Attrs
  PROVE  /\ \A r \in OutcomeReason : /\ outcome_base_deltas(r)[n] \in Int
                                     /\ -120 <= outcome_base_deltas(r)[n]
                                     /\ outcome_base_deltas(r)[n] <= 120
         /\ \A r \in HippocampusReason : /\ hippocampus_base_deltas(r)[n] \in Int
                                         /\ -120 <= hippocampus_base_deltas(r)[n]
                                         /\ hippocampus_base_deltas(r)[n] <= 120
         /\ \A r \in SensorReason : /\ sensor_base_deltas(r)[n] \in Int
                                    /\ -120 <= sensor_base_deltas(r)[n]
                                    /\ sensor_base_deltas(r)[n] <= 120
<1>1. n \in {1, 2, 3, 4, 5, 6, 7, 8}
  BY SMT DEF Attrs
<1>2. ASSUME NEW r \in OutcomeReason
      PROVE  /\ outcome_base_deltas(r)[n] \in Int
             /\ -120 <= outcome_base_deltas(r)[n] /\ outcome_base_deltas(r)[n] <= 120
  BY SMT, <1>1 DEF OutcomeReason, outcome_base_deltas, NoDeltas, TINY, SMALL, MEDIUM, HIGH
<1>3. ASSUME NEW r \in HippocampusReason
      PROVE  /\ hippocampus_base_deltas(r)[n] \in Int
             /\ -120 <= hippocampus_base_deltas(r)[n] /\ hippocampus_base_deltas(r)[n] <= 120
  BY SMT, <1>1 DEF HippocampusReason, hippocampus_base_deltas, NoDeltas, TINY, SMALL, MEDIUM, HIGH
<1>4. ASSUME NEW r \in SensorReason
      PROVE  /\ sensor_base_deltas(r)[n] \in Int
             /\ -120 <= sensor_base_deltas(r)[n] /\ sensor_base_deltas(r)[n] <= 120
  BY SMT, <1>1 DEF SensorReason, sensor_base_deltas, NoDeltas, TINY, SMALL, MEDIUM, HIGH
<1> QED  BY SMT, <1>2, <1>3, <1>4

-----------------------------------------------------------------------------
(***************************************************************************)
(* The seqs.                                                               *)
(***************************************************************************)
LEMMA PowerIsNat ==
  ASSUME NEW n \in Nat
  PROVE  2^n \in Nat /\ 2^n > 0
<1>1. IsFiniteSet(1..n) /\ Cardinality(1..n) = n
  BY SMT, FS_Interval
<1>2. IsFiniteSet(SUBSET (1..n)) /\ Cardinality(SUBSET (1..n)) = 2^n
  <2> DEFINE S == 1..n
  <2>1. IsFiniteSet(S) /\ Cardinality(S) = n
    BY <1>1
  <2> HIDE DEF S
  <2>2. IsFiniteSet(SUBSET S) /\ Cardinality(SUBSET S) = 2^Cardinality(S)
    BY <2>1, FS_SUBSET
  <2>3. Cardinality(SUBSET S) = 2^n
    BY <2>1, <2>2
  <2> QED  BY <2>2, <2>3 DEF S
<1>3. Cardinality(SUBSET (1..n)) \in Nat
  BY SMT, <1>2, FS_CardinalityType
<1>4. Cardinality(SUBSET (1..n)) # 0
  <2>1. {} \in SUBSET (1..n)
    OBVIOUS
  <2> QED  BY SMT, <1>2, <2>1, FS_EmptySet
<1> QED  BY SMT, <1>2, <1>3, <1>4

LEMMA I32MaxIs == I32_MAX \in Nat
<1>1. SEQ_BITS - 1 \in Nat
  BY SMT, PrecisionAssumption DEF PrecisionAssumption
<1>2. 2^(SEQ_BITS - 1) \in Nat /\ 2^(SEQ_BITS - 1) > 0
  BY SMT, <1>1, PowerIsNat
<1> QED  BY SMT, <1>2 DEF I32_MAX

\* Until the counter panics it is ahead of the log, or has just wrapped around.
SeqInv ==
  /\ inner \in Int /\ -I32_MAX - 1 <= inner /\ inner <= I32_MAX
  /\ last_seq \in Int /\ 0 <= last_seq /\ last_seq <= I32_MAX
  /\ panicked \in BOOLEAN
  /\ \/ panicked
     \/ 0 <= inner /\ last_seq <= inner
     \/ inner = -I32_MAX - 1

LEMMA SeqStep ==
  ASSUME SeqInv, [Next]_vars
  PROVE  SeqInv' /\ (last_seq' # last_seq => last_seq' > last_seq)
<1>0. I32_MAX \in Int /\ 0 <= I32_MAX /\ SeqInv
  BY SMT, I32MaxIs
<1>1. ASSUME NEW e \in events, Emit(e)
      PROVE  SeqInv' /\ (last_seq' # last_seq => last_seq' > last_seq)
  <2>1. /\ ~panicked /\ saturating_add(inner) > 0
        /\ inner' = fetch_add(inner) /\ saturating_add(inner) # last_seq
        /\ last_seq' = saturating_add(inner) /\ panicked' = panicked
    BY SMT, <1>1 DEF Emit, insert_accepts, next_accepts
  <2> QED  BY SMT, <1>0, <2>1 DEF SeqInv, saturating_add, fetch_add
<1>2. ASSUME NEW e \in events, EmitRefused(e)
      PROVE  SeqInv' /\ (last_seq' # last_seq => last_seq' > last_seq)
  <2>1. /\ ~panicked /\ saturating_add(inner) > 0
        /\ inner' = fetch_add(inner)
        /\ last_seq' = last_seq /\ panicked' = panicked
    BY SMT, <1>2 DEF EmitRefused, next_accepts
  <2> QED  BY SMT, <1>0, <2>1 DEF SeqInv, saturating_add, fetch_add
<1>3. CASE NextPanics
  <2>1. panicked' = TRUE /\ inner' = fetch_add(inner) /\ last_seq' = last_seq
    BY SMT, <1>3 DEF NextPanics
  <2> QED  BY SMT, <1>0, <2>1 DEF SeqInv, fetch_add
<1>4. CASE Decay \/ UNCHANGED vars
  <2>1. UNCHANGED <<inner, last_seq, panicked>>
    BY SMT, <1>4 DEF Decay, vars
  <2> QED  BY SMT, <1>0, <2>1 DEF SeqInv
<1> QED  BY SMT, <1>1, <1>2, <1>3, <1>4 DEF Next

LEMMA SeqInit == Init => SeqInv
<1>1. I32_MAX \in Int /\ 0 <= I32_MAX
  BY SMT, I32MaxIs
<1>2. Init => inner = 0 /\ last_seq = 0 /\ panicked = FALSE
  BY DEF Init
<1>3. ASSUME inner = 0, last_seq = 0, panicked = FALSE  PROVE SeqInv
  <2>1. panicked \in BOOLEAN
    BY Zenon, <1>3
  <2>2. /\ inner \in Int /\ -I32_MAX - 1 <= inner /\ inner <= I32_MAX
        /\ last_seq \in Int /\ 0 <= last_seq /\ last_seq <= I32_MAX
        /\ 0 <= inner /\ last_seq <= inner
    BY SMT, <1>1, <1>3
  <2> QED  BY <2>1, <2>2 DEF SeqInv
<1> QED  BY <1>2, <1>3

(***************************************************************************)
(* SeqsGrowUntilPanic, for a seq of any width: a run's logged seqs only    *)
(* grow, the overflow of the counter included.                             *)
(***************************************************************************)
THEOREM SeqsGrow == Spec => SeqsGrowUntilPanic
<1>1. SeqInv /\ [Next]_vars => SeqInv'
  BY SMT, SeqStep
<1>2. SeqInv /\ [Next]_vars => [last_seq' # last_seq => last_seq' > last_seq]_vars
  BY SMT, SeqStep
<1> QED  BY SeqInit, <1>1, <1>2, PTL DEF Spec, SeqsGrowUntilPanic

-----------------------------------------------------------------------------
(***************************************************************************)
(* The plans.                                                              *)
(***************************************************************************)

\* A stored value: an f64 between zero and one.
InRange(x) ==
  x \in Limbs /\ Grid(x) /\ 0 <= places(x) /\ places(x) <= places(F!ONE)

LEMMA ValidIs ==
  ASSUME NEW x \in Limbs
  PROVE  validate64(x) <=> 0 <= places(x) /\ places(x) <= places(F!ONE)
<1>1. /\ F!less(x, F!ZERO) <=> places(x) < 0
      /\ F!less(F!ONE, x) <=> places(F!ONE) < places(x)
  BY SMT, LessIs, ZeroIs, OneIs
<1>2. places(x) \in Int /\ places(F!ONE) \in Int
  BY SMT, LimbsType, OneIs
<1> QED  BY SMT, <1>1, <1>2 DEF validate64

\* A plan that insert_event accepts moves the value by at most the delta and
\* a rounding, never the other way.
LEMMA PlanIs ==
  ASSUME NEW v, InRange(v), NEW dl \in Limbs, NEW n, n = plan_for64(v, dl).new_value,
         validate64(n)
  PROVE  /\ InRange(n)
         /\ 0 <= places(dl) => places(v) <= places(n) /\ places(n) <= places(v) + places(dl) + 64
         /\ places(dl) <= 0 => places(n) <= places(v) /\ places(v) + places(dl) - 64 <= places(n)
<1> DEFINE raw == F!add(v, dl)
           c == F!clamp(raw, F!ZERO, F!ONE)
<1>1. v \in Limbs /\ Grid(v) /\ places(v) \in Int /\ places(dl) \in Int
      /\ 0 <= places(v) /\ places(v) <= places(F!ONE)
  BY SMT, LimbsType DEF InRange
<1>2. /\ raw \in Limbs /\ Grid(raw)
      /\ places(raw) - (places(v) + places(dl)) <= 64
      /\ (places(v) + places(dl)) - places(raw) <= 64
      /\ places(v) <= places(v) + places(dl) => places(v) <= places(raw)
      /\ places(v) + places(dl) <= places(v) => places(raw) <= places(v)
  BY SMT, <1>1, AddIs
<1>3. n = c \/ n = raw
  BY SMT DEF plan_for64
<1> HIDE DEF raw
<1>4. places(raw) \in Int /\ places(F!ONE) \in Int /\ places(F!ZERO) = 0 /\ 0 <= places(F!ONE)
  BY SMT, <1>2, LimbsType, OneIs, ZeroIs
<1>5. /\ c \in Limbs
      /\ places(c) = IF places(raw) < 0 THEN 0
                     ELSE IF places(F!ONE) < places(raw) THEN places(F!ONE) ELSE places(raw)
  BY SMT, <1>2, <1>4, ClampIs, ZeroIs, OneIs
<1> HIDE DEF c
<1>6. n \in Limbs
  BY SMT, <1>2, <1>3, <1>5
<1>7. places(n) \in Int /\ 0 <= places(n) /\ places(n) <= places(F!ONE)
  BY SMT, <1>6, ValidIs, LimbsType
<1>8. places(n) = places(c)
  BY SMT, <1>3, <1>4, <1>5, <1>7
<1>9. Grid(n)
  <2>1. c = F!ZERO \/ c = F!ONE \/ c = raw
    BY SMT DEF c, F!clamp
  <2> QED  BY SMT, <1>2, <1>3, <2>1, ZeroGrid, OneGrid
<1>10. InRange(n)
  BY SMT, <1>6, <1>7, <1>9 DEF InRange
<1> QED  BY SMT, <1>1, <1>2, <1>4, <1>5, <1>8, <1>10

\* What a decay stores.
LEMMA DecayIs ==
  ASSUME NEW v, InRange(v), NEW n, n = dispatch_maintenance64(v).new_value
  PROVE  InRange(n) /\ validate64(n)
<1> DEFINE dl == f64[DECAY_DELTA]
           raw == F!add(v, dl)
<1>1. v \in Limbs /\ Grid(v) /\ places(v) \in Int
      /\ 0 <= places(v) /\ places(v) <= places(F!ONE)
  BY SMT, LimbsType DEF InRange
<1>2. dl \in Limbs /\ places(dl) <= 0 /\ places(dl) \in Int
  <2>1. DECAY_DELTA = -4
    BY SMT DEF DECAY_DELTA
  <2>2. dl \in Limbs /\ places(dl) <= 0
    BY SMT, <2>1, F64Is
  <2> QED  BY SMT, <2>2, LimbsType
<1>3. n = IF F!less(raw, F!ZERO) THEN F!ZERO ELSE raw
  BY SMT DEF dispatch_maintenance64
<1> HIDE DEF dl
<1>4. raw \in Limbs /\ Grid(raw) /\ places(raw) <= places(v)
  <2>1. places(v) + places(dl) <= places(v)
    BY SMT, <1>1, <1>2
  <2> QED  BY SMT, <1>1, <1>2, <2>1, AddIs
<1> HIDE DEF raw
<1>5. F!less(raw, F!ZERO) <=> places(raw) < 0
  BY SMT, <1>4, LessIs, ZeroIs
<1>6. places(raw) \in Int /\ places(F!ONE) \in Int /\ 0 <= places(F!ONE)
  BY SMT, <1>4, LimbsType, OneIs
<1>7. InRange(n)
  <2>1. CASE places(raw) < 0
    BY SMT, <1>3, <1>5, <1>6, <2>1, ZeroIs, ZeroGrid DEF InRange
  <2>2. CASE 0 <= places(raw)
    BY SMT, <1>1, <1>3, <1>4, <1>5, <1>6, <2>2 DEF InRange
  <2> QED  BY SMT, <1>6, <2>1, <2>2
<1> QED  BY SMT, <1>7, ValidIs DEF InRange

\* What an intervention has moved the attribute by: between minus one and one.
ActualType(a) ==
  a \in Limbs /\ Grid(a) /\ -places(F!ONE) <= places(a) /\ places(a) <= places(F!ONE)

\* The delta dl re-aims at w: it has the sign of w - a and its size, but for
\* a rounding.
Aims(dl, w, a) ==
  /\ dl \in Limbs /\ w \in Limbs
  /\ -288230376151711744 <= places(w) /\ places(w) <= 288230376151711744
  /\ places(dl) - (places(w) - places(a)) <= 64
  /\ (places(w) - places(a)) - places(dl) <= 64
  /\ places(a) <= places(w) => 0 <= places(dl)
  /\ places(w) <= places(a) => places(dl) <= 0

LEMMA ActualStep ==
  ASSUME NEW v, InRange(v), NEW a, ActualType(a), NEW w, NEW dl, Aims(dl, w, a),
         NEW n, n = plan_for64(v, dl).new_value, validate64(n),
         NEW b, b = F!add(a, F!sub(n, v))
  PROVE  ActualType(b)
<1>1. dl \in Limbs /\ w \in Limbs /\ a \in Limbs /\ v \in Limbs
      /\ Grid(a)
      /\ -places(F!ONE) <= places(a) /\ places(a) <= places(F!ONE)
  BY SMT DEF Aims, ActualType, InRange
<1>2. /\ places(dl) \in Int /\ places(w) \in Int /\ places(a) \in Int /\ places(v) \in Int
      /\ places(F!ONE) = 576460752303423488
  BY SMT, <1>1, LimbsType, OneIs
<1>3. /\ InRange(n)
      /\ 0 <= places(dl) => places(v) <= places(n) /\ places(n) <= places(v) + places(dl) + 64
      /\ places(dl) <= 0 => places(n) <= places(v) /\ places(v) + places(dl) - 64 <= places(n)
  BY SMT, <1>1, PlanIs
<1>4. n \in Limbs /\ places(n) \in Int
  BY SMT, <1>3, LimbsType DEF InRange
<1> DEFINE s == F!sub(n, v)
<1>5. /\ s \in Limbs
      /\ places(s) - (places(n) - places(v)) <= 64
      /\ (places(n) - places(v)) - places(s) <= 64
      /\ 0 <= places(n) - places(v) => 0 <= places(s)
      /\ places(n) - places(v) <= 0 => places(s) <= 0
  <2>1. /\ s \in Limbs
        /\ places(s) - (places(n) - places(v)) <= 64
        /\ (places(n) - places(v)) - places(s) <= 64
        /\ places(F!ZERO) <= places(n) - places(v) => places(F!ZERO) <= places(s)
        /\ places(n) - places(v) <= places(F!ZERO) => places(s) <= places(F!ZERO)
    BY SMT, <1>1, <1>4, SubIs, ZeroIs, ZeroGrid
  <2> QED  BY SMT, <2>1, ZeroIs
<1>6. b = F!add(a, s)
  OBVIOUS
<1> HIDE DEF s
<1>7. /\ b \in Limbs /\ Grid(b)
      /\ places(b) - (places(a) + places(s)) <= 64
      /\ (places(a) + places(s)) - places(b) <= 64
      /\ places(a) <= places(a) + places(s) => places(a) <= places(b)
      /\ places(a) + places(s) <= places(a) => places(b) <= places(a)
  BY SMT, <1>1, <1>5, <1>6, AddIs
<1>8. places(s) \in Int /\ places(b) \in Int
  BY SMT, <1>5, <1>7, LimbsType
<1>9. /\ -288230376151711744 <= places(w) /\ places(w) <= 288230376151711744
      /\ places(dl) - (places(w) - places(a)) <= 64
      /\ (places(w) - places(a)) - places(dl) <= 64
      /\ places(a) <= places(w) => 0 <= places(dl)
      /\ places(w) <= places(a) => places(dl) <= 0
  BY SMT DEF Aims
<1>10. CASE places(a) <= places(w)
  <2>1. places(a) <= places(b)
    BY SMT, <1>2, <1>3, <1>4, <1>5, <1>7, <1>8, <1>9, <1>10
  <2>2. places(b) <= places(w) + 256
    BY SMT, <1>2, <1>3, <1>4, <1>5, <1>7, <1>8, <1>9, <1>10
  <2> QED  BY SMT, <1>1, <1>2, <1>7, <1>8, <1>9, <2>1, <2>2 DEF ActualType
<1>11. CASE places(w) <= places(a)
  <2>1. places(b) <= places(a)
    BY SMT, <1>2, <1>3, <1>4, <1>5, <1>7, <1>8, <1>9, <1>11
  <2>2. places(w) - 256 <= places(b)
    BY SMT, <1>2, <1>3, <1>4, <1>5, <1>7, <1>8, <1>9, <1>11
  <2> QED  BY SMT, <1>1, <1>2, <1>7, <1>8, <1>9, <2>1, <2>2 DEF ActualType
<1> QED  BY SMT, <1>2, <1>10, <1>11

-----------------------------------------------------------------------------
(***************************************************************************)
(* The attribute and its interventions.                                    *)
(***************************************************************************)
ValueInv ==
  /\ name \in Names
  /\ InRange(value)
  /\ exact \in Int /\ 0 <= exact /\ exact <= 400

PriorType(p) ==
  /\ p \in [reason : OutcomeReason, actual : Limbs, units : Int]
  /\ ActualType(p.actual)
  /\ -120 <= p.units /\ p.units <= 120

PriorsType(q) ==
  q = [i \in Interventions |-> q[i]] /\ \A i \in Interventions : PriorType(q[i])

\* What an event is planned with, and what its intervention becomes with it.
Planned(e, dl, units, w, wu) ==
  /\ e.plan = plan_for64(value, dl) /\ dl \in Limbs
  /\ e.exact = exact_plan(units) /\ units \in Int
  /\ \/ e.prior = NoChange
     \/ /\ e.intervention \in Interventions
        /\ PriorType(e.prior) /\ Aims(dl, w, e.prior.actual)
        /\ wu \in Int /\ -120 <= wu /\ wu <= 120 /\ units = wu - e.prior.units

LEMMA FreshPrior ==
  ASSUME NEW r \in OutcomeReason, NEW z, z = F!ZERO,
         NEW p, p = [reason |-> r, actual |-> z, units |-> 0]
  PROVE  PriorType(p) /\ p.actual = F!ZERO /\ p.units = 0
<1>1. z \in Limbs /\ Grid(z) /\ places(z) = 0 /\ places(F!ONE) = 576460752303423488
  BY SMT, ZeroIs, ZeroGrid, OneIs
<1>2. p.actual = z /\ p.units = 0 /\ p \in [reason : OutcomeReason, actual : Limbs, units : Int]
  BY SMT, <1>1
<1> QED  BY SMT, <1>1, <1>2 DEF PriorType, ActualType

LEMMA NoPriorType ==
  ASSUME NEW r \in OutcomeReason, NEW p, p = [NoPrior EXCEPT !.reason = r]
  PROVE  PriorType(p) /\ p.actual = F!ZERO /\ p.units = 0
<1>1. p = [reason |-> r, actual |-> F!ZERO, units |-> 0]
  BY SMT DEF NoPrior
<1> QED  BY Zenon, <1>1, FreshPrior

LEMMA WeightedIs ==
  ASSUME name \in Names, NEW d \in weighted_deltas[name]
  PROVE  /\ d.reason \in OutcomeReason
         /\ d.delta64 \in Limbs
         /\ -288230376151711744 <= places(d.delta64) /\ places(d.delta64) <= 288230376151711744
         /\ d.units \in Int /\ -120 <= d.units /\ d.units <= 120
<1>1. name \in Attrs
  BY SMT, PrecisionAssumption DEF PrecisionAssumption
<1>2. PICK x \in OutcomeReason \X Confidence :
             d = LET base == outcome_base_deltas(x[1])[name]
                 IN [reason |-> x[1], delta64 |-> weight_delta64(base, x[2]),
                     units |-> weight_delta(base, x[2])]
  BY SMT, <1>1 DEF weighted_deltas
<1> DEFINE base == outcome_base_deltas(x[1])[name]
           conf == x[2]
<1>3. x[1] \in OutcomeReason /\ conf \in Confidence
  BY SMT
<1>4. base \in Int /\ -400 <= base /\ base <= 400
  BY SMT, <1>1, <1>3, RowsAre
<1>5. /\ d.reason = x[1] /\ d.delta64 = weight_delta64(base, conf)
      /\ d.units = weight_delta(base, conf)
  BY SMT, <1>2
<1> HIDE DEF base, conf
<1>6. /\ d.delta64 \in Limbs
      /\ -288230376151711744 <= places(d.delta64) /\ places(d.delta64) <= 288230376151711744
  BY SMT, <1>3, <1>4, <1>5, WeightIs
<1>7. d.units \in Int /\ -120 <= d.units /\ d.units <= 120
  BY SMT, <1>3, <1>4, <1>5, UnitsWeightIs
<1> QED  BY SMT, <1>3, <1>5, <1>6, <1>7

LEMMA EventIs ==
  ASSUME NEW e \in events
  PROVE  \/ e \in unweighted_events
         \/ \E i \in Interventions : e \in outcome_events(i)
         \/ \E i \in Interventions : e \in revision_events(i)
<1>1. \/ e \in unweighted_events
      \/ e \in UNION {outcome_events(i) : i \in Interventions}
      \/ e \in UNION {revision_events(i) : i \in classified}
  BY Zenon DEF events
<1>2. classified \subseteq Interventions
  BY Zenon DEF classified
<1> QED  BY Zenon, <1>1, <1>2

LEMMA EventsArePlanned ==
  ASSUME ValueInv, PriorsType(prior), NEW e \in events
  PROVE  \E dl, units, w, wu : Planned(e, dl, units, w, wu)
<1>0. name \in Names /\ name \in Attrs
  BY SMT, PrecisionAssumption DEF PrecisionAssumption, ValueInv
<1>1. ASSUME NEW i \in Interventions, e \in outcome_events(i)
      PROVE  \E dl, units, w, wu : Planned(e, dl, units, w, wu)
  <2>1. PICK d \in weighted_deltas[name] :
               e = event(d.delta64, d.units, i, [NoPrior EXCEPT !.reason = d.reason])
    BY SMT, <1>1 DEF outcome_events
  <2> DEFINE p == [NoPrior EXCEPT !.reason = d.reason]
  <2>2. /\ d.reason \in OutcomeReason
        /\ d.delta64 \in Limbs
        /\ -288230376151711744 <= places(d.delta64) /\ places(d.delta64) <= 288230376151711744
        /\ d.units \in Int /\ -120 <= d.units /\ d.units <= 120
    BY SMT, <1>0, WeightedIs
  <2>3. PriorType(p) /\ p.actual = F!ZERO /\ p.units = 0
    <3>1. d.reason \in OutcomeReason
      BY SMT, <2>2
    <3> QED  BY Zenon, <3>1, NoPriorType
  <2>4. /\ e.plan = plan_for64(value, d.delta64) /\ e.exact = exact_plan(d.units)
        /\ e.prior = p /\ e.intervention = i
    BY SMT, <2>1 DEF event
  <2> HIDE DEF p
  <2>5. Aims(d.delta64, d.delta64, e.prior.actual)
    BY SMT, <2>2, <2>3, <2>4, ZeroIs, LimbsType DEF Aims
  <2>6. d.units = d.units - e.prior.units
    BY SMT, <2>2, <2>3, <2>4
  <2>7. Planned(e, d.delta64, d.units, d.delta64, d.units)
    BY SMT, <2>2, <2>3, <2>4, <2>5, <2>6 DEF Planned
  <2> QED  BY SMT, <2>7
<1>2. CASE e \in unweighted_events
  <2>1. PICK base \in base_deltas[name] : e = event(f64[base], base, NoChange, NoChange)
    BY SMT, <1>2 DEF unweighted_events
  <2>2. base \in Int /\ -400 <= base /\ base <= 400
    <3>1. base \in {hippocampus_base_deltas(r)[name] : r \in HippocampusReason}
                     \cup {sensor_base_deltas(r)[name] : r \in SensorReason}
      BY SMT, <1>0, <2>1 DEF base_deltas
    <3> QED  BY SMT, <1>0, <3>1, RowsAre
  <2>3. f64[base] \in Limbs
    BY SMT, <2>2, F64Is
  <2>4. /\ e.plan = plan_for64(value, f64[base]) /\ e.exact = exact_plan(base)
        /\ e.prior = NoChange
    BY SMT, <2>1 DEF event
  <2>5. Planned(e, f64[base], base, F!ZERO, 0)
    BY SMT, <2>2, <2>3, <2>4 DEF Planned
  <2> QED  BY SMT, <2>5
<1>3. ASSUME NEW i \in Interventions, e \in revision_events(i)
      PROVE  \E dl, units, w, wu : Planned(e, dl, units, w, wu)
  <2>1. PICK d \in weighted_deltas[name] :
               e = event(F!sub(d.delta64, prior[i].actual), d.units - prior[i].units, i,
                         [prior[i] EXCEPT !.reason = d.reason])
    BY SMT, <1>3 DEF revision_events
  <2> DEFINE old == prior[i]
             p == [old EXCEPT !.reason = d.reason]
             dl == F!sub(d.delta64, old.actual)
             units == d.units - old.units
  <2>2. /\ d.reason \in OutcomeReason
        /\ d.delta64 \in Limbs
        /\ -288230376151711744 <= places(d.delta64) /\ places(d.delta64) <= 288230376151711744
        /\ d.units \in Int /\ -120 <= d.units /\ d.units <= 120
    BY SMT, <1>0, WeightedIs
  <2>3. /\ old \in [reason : OutcomeReason, actual : Limbs, units : Int]
        /\ ActualType(old.actual) /\ old.actual \in Limbs /\ old.units \in Int
        /\ -120 <= old.units /\ old.units <= 120
    BY SMT DEF PriorsType, PriorType, ActualType
  <2>4. /\ p \in [reason : OutcomeReason, actual : Limbs, units : Int]
        /\ p.actual = old.actual /\ p.units = old.units
    BY SMT, <2>2, <2>3
  <2>5. PriorType(p)
    BY SMT, <2>3, <2>4 DEF PriorType
  <2>6. /\ e.plan = plan_for64(value, dl) /\ e.exact = exact_plan(units)
        /\ e.prior = p /\ e.intervention = i
    BY SMT, <2>1 DEF event
  <2> HIDE DEF p, old
  <2>7. /\ dl \in Limbs
        /\ places(dl) - (places(d.delta64) - places(old.actual)) <= 64
        /\ (places(d.delta64) - places(old.actual)) - places(dl) <= 64
        /\ places(F!ZERO) <= places(d.delta64) - places(old.actual) => places(F!ZERO) <= places(dl)
        /\ places(d.delta64) - places(old.actual) <= places(F!ZERO) => places(dl) <= places(F!ZERO)
    BY SMT, <2>2, <2>3, SubIs, ZeroIs, ZeroGrid
  <2> HIDE DEF dl
  <2>8. places(d.delta64) \in Int /\ places(old.actual) \in Int /\ places(F!ZERO) = 0
    BY SMT, <2>2, <2>3, LimbsType, ZeroIs
  <2>9. Aims(dl, d.delta64, e.prior.actual)
    BY SMT, <2>2, <2>4, <2>6, <2>7, <2>8 DEF Aims
  <2>10. units \in Int /\ units = d.units - e.prior.units
    BY SMT, <2>2, <2>3, <2>4, <2>6
  <2> HIDE DEF units
  <2>11. Planned(e, dl, units, d.delta64, d.units)
    BY SMT, <2>2, <2>5, <2>6, <2>7, <2>9, <2>10 DEF Planned
  <2> QED  BY SMT, <2>11
<1> QED  BY Zenon, <1>1, <1>2, <1>3, EventIs

LEMMA ExactIs ==
  ASSUME ValueInv, NEW units \in Int
  PROVE  exact_plan(units).new_value = IF exact + units < 0 THEN 0
                                       ELSE IF exact + units > 400 THEN 400 ELSE exact + units
<1>1. name # friction
  BY SMT, PrecisionAssumption DEF PrecisionAssumption, ValueInv
<1>2. exact_plan(units).new_value = clamp(exact + units, 0, ONE)
  BY SMT, <1>1 DEF exact_plan, plan_for
<1>3. ONE = 400
  BY SMT DEF ONE
<1> QED  BY SMT, <1>2, <1>3 DEF clamp

LEMMA PriorUpdate ==
  ASSUME NEW p \in [reason : OutcomeReason, actual : Limbs, units : Int],
         NEW b \in Limbs, NEW k \in Int,
         NEW q, q = [p EXCEPT !.actual = b, !.units = k]
  PROVE  /\ q \in [reason : OutcomeReason, actual : Limbs, units : Int]
         /\ q.actual = b /\ q.units = k
OBVIOUS

LEMMA PlannedMove ==
  ASSUME ValueInv, PriorsType(prior), name' = name,
         NEW e, NEW dl, NEW units, NEW w, NEW wu, Planned(e, dl, units, w, wu),
         validate64(e.plan.new_value), Move(e)
  PROVE  ValueInv' /\ PriorsType(prior')
<1>1. /\ e.plan = plan_for64(value, dl) /\ dl \in Limbs
      /\ e.exact = exact_plan(units) /\ units \in Int
  BY SMT DEF Planned
<1>2. value' = e.plan.new_value /\ exact' = e.exact.new_value
  BY SMT DEF Move
<1>3. InRange(value) /\ exact \in Int /\ 0 <= exact /\ exact <= 400 /\ name \in Names
  BY SMT DEF ValueInv
<1> DEFINE n == e.plan.new_value
<1>4. n = plan_for64(value, dl).new_value /\ validate64(n)
  BY SMT, <1>1
<1>5. InRange(n)
  BY SMT, <1>1, <1>3, <1>4, PlanIs
<1>6. exact' = IF exact + units < 0 THEN 0
               ELSE IF exact + units > 400 THEN 400 ELSE exact + units
  BY SMT, <1>1, <1>2, ExactIs
<1>7. ValueInv'
  <2>1. InRange(value')
    BY SMT, <1>2, <1>5
  <2>2. exact' \in Int /\ 0 <= exact' /\ exact' <= 400
    BY SMT, <1>1, <1>3, <1>6
  <2>3. name' \in Names
    BY SMT, <1>3
  <2> QED  BY SMT, <2>1, <2>2, <2>3 DEF ValueInv, InRange
<1>8. PriorsType(prior')
  <2>1. prior' = [i \in Interventions |->
                   IF e.prior = NoChange \/ i # e.intervention THEN prior[i]
                   ELSE [e.prior EXCEPT !.actual = F!add(@, F!sub(e.plan.new_value, value)),
                                        !.units  = @ + (e.exact.new_value - exact)]]
    BY Zenon DEF Move
  <2>2. SUFFICES ASSUME NEW i \in Interventions  PROVE PriorType(prior'[i])
    BY SMT, <2>1 DEF PriorsType
  <2>3. CASE e.prior = NoChange \/ i # e.intervention
    BY SMT, <2>1, <2>3 DEF PriorsType
  <2>4. CASE e.prior # NoChange /\ i = e.intervention
    <3> DEFINE p == e.prior
               b == F!add(p.actual, F!sub(n, value))
               k == p.units + (exact' - exact)
    <3>1. /\ PriorType(p) /\ Aims(dl, w, p.actual)
          /\ wu \in Int /\ -120 <= wu /\ wu <= 120 /\ units = wu - p.units
      BY SMT, <2>4 DEF Planned
    <3>2. prior'[i] = [p EXCEPT !.actual = b, !.units = k]
      <4>1. prior'[i] = [e.prior EXCEPT !.actual = F!add(@, F!sub(e.plan.new_value, value)),
                                        !.units  = @ + (e.exact.new_value - exact)]
        BY Zenon, <2>1, <2>4
      <4> QED  BY Zenon, <1>2, <4>1
    <3> HIDE DEF p, n
    <3>3. /\ p \in [reason : OutcomeReason, actual : Limbs, units : Int]
          /\ ActualType(p.actual) /\ p.units \in Int /\ -120 <= p.units /\ p.units <= 120
      BY SMT, <3>1 DEF PriorType
    <3>4. ActualType(b)
      BY SMT, <1>3, <1>4, <3>1, <3>3, ActualStep
    <3>5. k \in Int /\ -120 <= k /\ k <= 120
      BY SMT, <1>1, <1>3, <1>6, <3>1, <3>3
    <3> HIDE DEF b, k
    <3>6. b \in Limbs
      BY SMT, <3>4 DEF ActualType
    <3>7. /\ prior'[i] \in [reason : OutcomeReason, actual : Limbs, units : Int]
          /\ prior'[i].actual = b /\ prior'[i].units = k
      BY Zenon, <3>2, <3>3, <3>5, <3>6, PriorUpdate
    <3> QED  BY SMT, <3>4, <3>5, <3>7 DEF PriorType
  <2> QED  BY Zenon, <2>3, <2>4
<1> QED  BY SMT, <1>7, <1>8

LEMMA DecayMove ==
  ASSUME ValueInv, PriorsType(prior), name' = name, Move(maintenance_event)
  PROVE  ValueInv' /\ PriorsType(prior')
<1>1. /\ maintenance_event.plan = dispatch_maintenance64(value)
      /\ maintenance_event.exact = exact_plan(DECAY_DELTA)
      /\ maintenance_event.prior = NoChange
  BY Zenon DEF maintenance_event
<1>2. /\ value' = dispatch_maintenance64(value).new_value
      /\ exact' = exact_plan(DECAY_DELTA).new_value
      /\ prior' = prior
  <2>1. prior' = [i \in Interventions |-> prior[i]]
    BY Zenon, <1>1 DEF Move
  <2> QED  BY Zenon, <1>1, <2>1 DEF Move, PriorsType
<1>3. InRange(value) /\ exact \in Int /\ 0 <= exact /\ exact <= 400 /\ name \in Names
  BY SMT DEF ValueInv
<1>4. InRange(value')
  BY SMT, <1>2, <1>3, DecayIs
<1>5. exact' \in Int /\ 0 <= exact' /\ exact' <= 400
  <2>1. DECAY_DELTA \in Int
    BY SMT DEF DECAY_DELTA
  <2>2. exact' = IF exact + DECAY_DELTA < 0 THEN 0
                 ELSE IF exact + DECAY_DELTA > 400 THEN 400 ELSE exact + DECAY_DELTA
    BY SMT, <1>2, <2>1, ExactIs
  <2> QED  BY SMT, <1>3, <2>1, <2>2
<1>6. ValueInv'
  BY SMT, <1>3, <1>4, <1>5 DEF ValueInv, InRange
<1> QED  BY SMT, <1>2, <1>6

DecayCount == decays \in Nat /\ decays <= MaxDecays[name]

PrecisionInv == ValueInv /\ PriorsType(prior) /\ SeqInv /\ DecayCount

LEMMA PrecisionStep ==
  ASSUME PrecisionInv, [Next]_vars
  PROVE  PrecisionInv'
<1>0. ValueInv /\ PriorsType(prior) /\ SeqInv /\ DecayCount
  BY SMT DEF PrecisionInv
<1>1. SeqInv'
  BY SMT, <1>0, SeqStep
<1>2. ASSUME NEW e \in events, Emit(e)
      PROVE  ValueInv' /\ PriorsType(prior') /\ DecayCount'
  <2>1. Move(e) /\ validate64(e.plan.new_value) /\ name' = name /\ decays' = decays
    BY SMT, <1>2 DEF Emit, insert_accepts
  <2>2. \E dl, units, w, wu : Planned(e, dl, units, w, wu)
    BY SMT, <1>0, EventsArePlanned
  <2>3. PICK dl, units, w, wu : Planned(e, dl, units, w, wu)
    BY SMT, <2>2
  <2>4. ValueInv' /\ PriorsType(prior')
    BY SMT, <1>0, <2>1, <2>3, PlannedMove
  <2> QED  BY SMT, <1>0, <2>1, <2>4 DEF DecayCount
<1>3. ASSUME NEW e \in events, EmitRefused(e)
      PROVE  ValueInv' /\ PriorsType(prior') /\ DecayCount'
  <2>1. UNCHANGED <<name, value, exact, prior, decays>>
    BY SMT, <1>3 DEF EmitRefused
  <2> QED  BY SMT, <1>0, <2>1 DEF ValueInv, InRange, DecayCount
<1>4. ASSUME NextPanics \/ UNCHANGED vars
      PROVE  ValueInv' /\ PriorsType(prior') /\ DecayCount'
  <2>1. UNCHANGED <<name, value, exact, prior, decays>>
    BY SMT, <1>4 DEF NextPanics, vars
  <2> QED  BY SMT, <1>0, <2>1 DEF ValueInv, InRange, DecayCount
<1>5. ASSUME Decay
      PROVE  ValueInv' /\ PriorsType(prior') /\ DecayCount'
  <2>1. Move(maintenance_event) /\ name' = name /\ decays < MaxDecays[name] /\ decays' = decays + 1
    BY SMT, <1>5 DEF Decay
  <2>2. ValueInv' /\ PriorsType(prior')
    BY SMT, <1>0, <2>1, DecayMove
  <2>3. MaxDecays[name] \in Nat
    BY SMT, <1>0, PrecisionAssumption DEF PrecisionAssumption, ValueInv
  <2> QED  BY SMT, <1>0, <2>1, <2>2, <2>3 DEF DecayCount
<1> QED  BY SMT, <1>1, <1>2, <1>3, <1>4, <1>5 DEF Next, PrecisionInv

LEMMA PrecisionInit == Init => PrecisionInv
<1> SUFFICES ASSUME Init  PROVE PrecisionInv
  BY SMT
<1>1. /\ name \in Names /\ value = F!ZERO /\ exact = 0 /\ decays = 0
      /\ prior = [i \in Interventions |-> NoPrior]
  BY SMT DEF Init
<1>2. ValueInv
  <2>1. InRange(F!ZERO)
    BY SMT, ZeroIs, ZeroGrid, OneIs DEF InRange
  <2> QED  BY SMT, <1>1, <2>1 DEF ValueInv
<1>3. PriorsType(prior)
  <2>1. "neutral" \in OutcomeReason
    BY SMT DEF OutcomeReason
  <2>2. NoPrior = [reason |-> "neutral", actual |-> F!ZERO, units |-> 0]
    BY Zenon DEF NoPrior
  <2>3. PriorType(NoPrior)
    BY Zenon, <2>1, <2>2, FreshPrior
  <2> QED  BY SMT, <1>1, <2>3 DEF PriorsType
<1>4. DecayCount
  <2>1. MaxDecays[name] \in Nat
    BY SMT, <1>1, PrecisionAssumption DEF PrecisionAssumption
  <2> QED  BY SMT, <1>1, <2>1 DEF DecayCount
<1> QED  BY SMT, <1>2, <1>3, <1>4, SeqInit DEF PrecisionInv

LEMMA NumberIs ==
  ASSUME NEW x \in Limbs, -places(F!ONE) <= places(x), places(x) <= places(F!ONE)
  PROVE  x \in Number
<1> DEFINE k == 2^30
<1>1. k \in Int /\ k = 1073741824
  BY SMT
<1>2. /\ x = <<x[1], x[2]>> /\ x[2] \in 0..(F!LIMB - 1) /\ x[1] \in Int
  BY SMT DEF Limbs
<1>3. -1073741824 <= x[1] /\ x[1] <= 1073741824
  BY SMT, LimbsType, OneIs
<1>4. Number = (-k..k) \X (0..(F!LIMB - 1))
  BY SMT DEF Number
<1> HIDE DEF k
<1>5. x[1] \in -k..k
  <2>1. k \in Int /\ x[1] \in Int
    BY SMT, <1>1, <1>2
  <2>2. -k <= x[1] /\ x[1] <= k
    BY SMT, <1>1, <1>3
  <2> QED  BY SMT, <2>1, <2>2
<1> QED  BY SMT, <1>2, <1>4, <1>5

(***************************************************************************)
(* PrecisionTypeOK, for any attributes but friction and any history of     *)
(* events, revisions and decays: the stored value stays an f64 between     *)
(* zero and one, and what the log says each intervention did between minus *)
(* one and one, however often and in whatever order they are revised.      *)
(***************************************************************************)
THEOREM PrecisionTypeCorrect == Spec => []PrecisionTypeOK
<1>1. PrecisionInv => PrecisionTypeOK
  <2> SUFFICES ASSUME PrecisionInv  PROVE PrecisionTypeOK
    BY SMT
  <2>0. ValueInv /\ PriorsType(prior) /\ SeqInv /\ DecayCount
    BY SMT DEF PrecisionInv
  <2>1. /\ name \in Names
        /\ value \in Limbs /\ 0 <= places(value) /\ places(value) <= places(F!ONE)
        /\ exact \in Int /\ 0 <= exact /\ exact <= 400
    BY SMT, <2>0 DEF ValueInv, InRange
  <2>2. ASSUME NEW i \in Interventions
        PROVE  /\ prior[i].actual \in Limbs /\ -places(F!ONE) <= places(prior[i].actual)
               /\ places(prior[i].actual) <= places(F!ONE)
               /\ prior[i] \in [reason : OutcomeReason, actual : Limbs, units : Int]
               /\ prior[i].units \in Int /\ -120 <= prior[i].units /\ prior[i].units <= 120
    BY SMT, <2>0 DEF PriorsType, PriorType, ActualType
  <2>3. ~F!less(value, F!ZERO) /\ ~F!less(F!ONE, value)
    BY SMT, <2>1, ValidIs DEF validate64
  <2>4. value \in Number
    <3>1. -places(F!ONE) <= places(value)
      BY SMT, <2>1, OneIs, LimbsType
    <3> QED  BY SMT, <2>1, <3>1, NumberIs
  <2>5. ONE \in Int /\ ONE = 400
    BY SMT DEF ONE
  <2>6. exact \in Value
    BY SMT, <2>1, <2>5 DEF Value
  <2>7. prior \in [Interventions ->
                    [reason : OutcomeReason, actual : Number, units : -ONE..ONE]]
    <3>1. ASSUME NEW i \in Interventions
          PROVE  prior[i] \in [reason : OutcomeReason, actual : Number, units : -ONE..ONE]
      <4>1. prior[i].actual \in Number
        BY SMT, <2>2, NumberIs
      <4>2. prior[i].units \in -ONE..ONE
        BY SMT, <2>2, <2>5
      <4> QED  BY SMT, <2>2, <4>1, <4>2
    <3>2. prior = [i \in Interventions |-> prior[i]]
      BY SMT, <2>0 DEF PriorsType
    <3> QED  BY Zenon, <3>1, <3>2
  <2>8. inner \in I32 /\ last_seq \in I32
    BY SMT, <2>0, I32MaxIs DEF SeqInv, I32
  <2>9. decays \in 0..MaxDecays[name]
    <3>1. MaxDecays[name] \in Nat
      BY SMT, <2>1, PrecisionAssumption DEF PrecisionAssumption
    <3> QED  BY SMT, <2>0, <3>1 DEF DecayCount
  <2>10. panicked \in BOOLEAN
    BY SMT, <2>0 DEF SeqInv
  <2> QED  BY SMT, <2>1, <2>3, <2>4, <2>6, <2>7, <2>8, <2>9, <2>10 DEF PrecisionTypeOK
<1>2. PrecisionInv /\ [Next]_vars => PrecisionInv'
  BY SMT, PrecisionStep
<1> QED  BY PrecisionInit, <1>1, <1>2, PTL DEF Spec

(***************************************************************************)
(* DecayIsNeverRefused, for any number of decays and events between them:  *)
(* the sum that dispatch_maintenance rounds never exceeds the value it     *)
(* started from, and what is below zero is clamped exactly.                *)
(***************************************************************************)
THEOREM DecaysAreAccepted == Spec => []DecayIsNeverRefused
<1>1. PrecisionInv => DecayIsNeverRefused
  <2> SUFFICES ASSUME PrecisionInv  PROVE DecayIsNeverRefused
    BY SMT
  <2>1. InRange(value)
    BY SMT DEF PrecisionInv, ValueInv
  <2>2. maintenance_event.plan = dispatch_maintenance64(value)
    BY Zenon DEF maintenance_event
  <2>3. validate64(dispatch_maintenance64(value).new_value)
    BY SMT, <2>1, DecayIs
  <2> QED  BY SMT, <2>2, <2>3 DEF DecayIsNeverRefused
<1>2. PrecisionInv /\ [Next]_vars => PrecisionInv'
  BY SMT, PrecisionStep
<1> QED  BY PrecisionInit, <1>1, <1>2, PTL DEF Spec

-----------------------------------------------------------------------------
(***************************************************************************)
(* How far rounding moves a number, by its magnitude: by at most half of   *)
(* the ulp of a quarter, a half or one.                                    *)
(***************************************************************************)
LEMMA UlpBelow ==
  ASSUME NEW x \in Limbs, 0 <= places(x)
  PROVE  /\ places(x) < 36028797018963968 => F!ulp(x) <= 4
         /\ places(x) < 144115188075855872 => F!ulp(x) <= 16
         /\ places(x) < 288230376151711744 => F!ulp(x) <= 32
         /\ places(x) < 576460752303423488 => F!ulp(x) <= 64
<1>1. x[1] \in Int /\ x[2] \in Int /\ 0 <= x[2] /\ places(x) = x[1] * 1073741824 + x[2]
  BY SMT, LimbsType
<1>2. /\ places(x) < 36028797018963968 => x[1] < 33554432
      /\ places(x) < 144115188075855872 => x[1] < 134217728
      /\ places(x) < 288230376151711744 => x[1] < 268435456
      /\ places(x) < 576460752303423488 => x[1] < 536870912
  BY SMT, <1>1
<1>3. /\ x[1] < 33554432 => F!ulp(x) <= 4
      /\ x[1] < 134217728 => F!ulp(x) <= 16
      /\ x[1] < 268435456 => F!ulp(x) <= 32
      /\ x[1] < 536870912 => F!ulp(x) <= 64
  BY SMT, <1>1 DEF F!ulp
<1> QED  BY SMT, <1>2, <1>3

\* The number of places m and its rounding n differ by what their magnitude allows.
Close(n, m) ==
  /\ -144115188075855872 < m /\ m < 144115188075855872 => n - m <= 8 /\ m - n <= 8
  /\ -288230376151711744 < m /\ m < 288230376151711744 => n - m <= 16 /\ m - n <= 16
  /\ -576460752303423488 < m /\ m < 576460752303423488 => n - m <= 32 /\ m - n <= 32

LEMMA NearestClose ==
  ASSUME NEW x \in Limbs, 0 <= places(x), NEW r, r = F!nearest(x, 0, 1)
  PROVE  r \in Limbs /\ Close(places(r), places(x))
<1> DEFINE u == F!ulp(x)
           d == x[2] % u
<1>1. u = F!ulp(x) /\ d = x[2] % u
  BY SMT
<1>2. u \in Ulps /\ u \in Int
  BY SMT, UlpIs DEF Ulps
<1>3. /\ places(x) < 144115188075855872 => u <= 16
      /\ places(x) < 288230376151711744 => u <= 32
      /\ places(x) < 576460752303423488 => u <= 64
  BY SMT, UlpBelow
<1> HIDE DEF u
<1> HIDE DEF d
<1>4. r \in Limbs /\ 2 * (places(r) - places(x)) <= u /\ 2 * (places(x) - places(r)) <= u
  <2>1. 0 \in Nat /\ 1 \in Nat /\ 0 < 1 /\ 0 = 0
    BY SMT
  <2> QED  BY SMT, <1>1, <2>1, NearestOneOf
<1>5. places(r) \in Int /\ places(x) \in Int
  BY SMT, <1>4, LimbsType
<1> QED  BY SMT, <1>2, <1>3, <1>4, <1>5 DEF Close

LEMMA RoundedClose ==
  ASSUME NEW x \in Limbs, NEW r, r = F!rounded(x)
  PROVE  Close(places(r), places(x))
<1>1. F!less(x, F!ZERO) <=> places(x) < 0
  BY SMT, LessIs, ZeroIs
<1>2. places(x) \in Int
  BY SMT, LimbsType
<1>3. CASE places(x) < 0
  <2> DEFINE n == F!negate(x)
             m == F!nearest(n, 0, 1)
  <2>1. n \in Limbs /\ places(n) = -places(x)
    BY SMT, NegateIs
  <2>2. r = F!negate(m)
    BY SMT, <1>1, <1>3 DEF F!rounded
  <2> HIDE DEF n
  <2>3. m \in Limbs /\ Close(places(m), places(n))
    <3>1. 0 <= places(n)
      BY SMT, <1>2, <1>3, <2>1
    <3> QED  BY SMT, <2>1, <3>1, NearestClose
  <2> HIDE DEF m
  <2>4. r \in Limbs /\ places(r) = -places(m) /\ places(m) \in Int
    BY SMT, <2>2, <2>3, NegateIs, LimbsType
  <2> QED  BY SMT, <1>2, <2>1, <2>3, <2>4 DEF Close
<1>4. CASE 0 <= places(x)
  <2>1. r = F!nearest(x, 0, 1)
    BY SMT, <1>1, <1>2, <1>4 DEF F!rounded
  <2> QED  BY SMT, <1>4, <2>1, NearestClose
<1> QED  BY SMT, <1>2, <1>3, <1>4

LEMMA SumClose ==
  ASSUME NEW x \in Limbs, NEW y \in Limbs
  PROVE  /\ F!add(x, y) \in Limbs /\ Close(places(F!add(x, y)), places(x) + places(y))
         /\ F!sub(x, y) \in Limbs /\ Close(places(F!sub(x, y)), places(x) - places(y))
<1>1. ASSUME NEW z \in Limbs
      PROVE  F!add(x, z) \in Limbs /\ Close(places(F!add(x, z)), places(x) + places(z))
  <2> DEFINE q == F!plus(x, z)
             r == F!add(x, z)
  <2>1. q \in Limbs /\ places(q) = places(x) + places(z)
    BY SMT, PlusIs
  <2>2. r = F!rounded(q)
    BY SMT DEF F!add
  <2> HIDE DEF q, r
  <2>3. r \in Limbs /\ Close(places(r), places(q))
    BY SMT, <2>1, <2>2, RoundedIs, RoundedClose
  <2> QED  BY SMT, <2>1, <2>3 DEF r
<1>2. F!negate(y) \in Limbs /\ places(F!negate(y)) = -places(y)
  BY SMT, NegateIs
<1>3. places(x) \in Int /\ places(y) \in Int
  BY SMT, LimbsType
<1>4. places(x) + places(F!negate(y)) = places(x) - places(y)
  BY SMT, <1>2, <1>3
<1>5. F!sub(x, y) = F!add(x, F!negate(y))
  BY SMT DEF F!sub
<1> QED  BY SMT, <1>1, <1>2, <1>4, <1>5

-----------------------------------------------------------------------------
(***************************************************************************)
(* How far the literal of u units is from u units: Off(p, u, b) says that  *)
(* p places are within b places of it, a unit being 2^59 / 400 of them.    *)
(***************************************************************************)
Off(p, u, b) ==
  /\ 400 * p - u * 576460752303423488 <= 400 * b
  /\ u * 576460752303423488 - 400 * p <= 400 * b

\* nearest, in 400ths of a place.
LEMMA NearestRest ==
  ASSUME NEW x \in Limbs, NEW rest \in Nat, rest < 400,
         NEW u, u = F!ulp(x), NEW r, r = F!nearest(x, rest, 400)
  PROVE  /\ r \in Limbs
         /\ 400 * places(r) - (400 * places(x) + rest) <= 200 * u
         /\ (400 * places(x) + rest) - 400 * places(r) <= 200 * u
<1> DEFINE d == x[2] % u
           c == x[2] - d
           over == 2 * (d * 400 + rest)
           odd == (x[2] \div u) % 2 = 1
           up == over > u * 400 \/ (over = u * 400 /\ odd)
<1>1. u \in Ulps
  BY SMT, UlpIs
<1>2. /\ u \in Int /\ d \in Int /\ 0 <= d /\ d < u
      /\ 0 <= x[2] - d /\ x[2] - d + u <= 1073741824
  <2>1. d = x[2] % u
    BY SMT
  <2> HIDE DEF d
  <2> QED  BY SMT, <1>1, <2>1, LowLimb
<1>3. r = IF up THEN F!plus(<<x[1], c>>, <<0, u>>) ELSE <<x[1], c>>
  BY DEF F!nearest
<1>4. x[1] \in Int /\ x[2] \in Int /\ places(x) = x[1] * 1073741824 + x[2] /\ c \in Int
      /\ 0 <= c /\ c + u <= 1073741824 /\ c = x[2] - d /\ 0 < u
  BY SMT, <1>2, LimbsType
<1>5. /\ up => 2 * (d * 400 + rest) >= u * 400
      /\ ~up => 2 * (d * 400 + rest) <= u * 400
  <2>1. over \in Int /\ u * 400 \in Int /\ over = 2 * (d * 400 + rest)
    BY SMT, <1>2
  <2> HIDE DEF over, odd
  <2> QED  BY SMT, <2>1
<1> HIDE DEF up, c, d
<1>6. /\ F!plus(<<x[1], c>>, <<0, u>>) \in Limbs
      /\ places(F!plus(<<x[1], c>>, <<0, u>>)) = x[1] * 1073741824 + c + u
  BY SMT, <1>1, <1>4, StepUp
<1>7. <<x[1], c>> \in Limbs /\ places(<<x[1], c>>) = x[1] * 1073741824 + c
  <2>1. c < 1073741824
    BY SMT, <1>2, <1>4
  <2> QED  BY SMT, <1>4, <2>1, LimbsMember
<1>8. CASE up
  <2>1. r \in Limbs /\ places(r) = places(x) - d + u
    BY SMT, <1>2, <1>3, <1>4, <1>6, <1>8
  <2> QED  BY SMT, <1>2, <1>4, <1>5, <1>8, <2>1
<1>9. CASE ~up
  <2>1. r \in Limbs /\ places(r) = places(x) - d
    BY SMT, <1>2, <1>3, <1>4, <1>7, <1>9
  <2> QED  BY SMT, <1>2, <1>4, <1>5, <1>9, <2>1
<1> QED  BY SMT, <1>8, <1>9

\* The digits of the long division are exact.
LEMMA DigitsExact ==
  ASSUME NEW num \in Int, 0 <= num, num <= 400,
         NEW a, a = (num * 1048576) \div 400, NEW b, b = (num * 1048576) % 400,
         NEW c, c = (b * 1048576) \div 400, NEW d, d = (b * 1048576) % 400,
         NEW e, e = (d * 524288) \div 400, NEW rest, rest = (d * 524288) % 400
  PROVE  400 * ((a * 512 + c \div 2048) * 1073741824 + ((c % 2048) * 524288 + e)) + rest
           = num * 576460752303423488
<1>1. /\ a \in Int /\ b \in Int /\ a * 400 + b = num * 1048576
  BY SMT
<1>2. /\ c \in Int /\ d \in Int /\ c * 400 + d = b * 1048576
  BY SMT, <1>1
<1>3. /\ e \in Int /\ rest \in Int /\ e * 400 + rest = d * 524288
  BY SMT, <1>2
<1> DEFINE f == c \div 2048
           g == c % 2048
<1>4. f \in Int /\ g \in Int /\ f * 2048 + g = c
  BY SMT, <1>2
<1> HIDE DEF f, g
<1>5. 400 * ((a * 512 + f) * 1073741824 + (g * 524288 + e)) + rest = num * 576460752303423488
  BY SMT, <1>1, <1>2, <1>3, <1>4
<1> QED  BY SMT, <1>5 DEF f, g

LEMMA WholeOff ==
  ASSUME NEW p \in Int, NEW n \in Int, n = 400, p = 576460752303423488
  PROVE  Off(p, n, 32)
<1>1. 400 * p = n * 576460752303423488
  BY SMT
<1> QED  BY SMT, <1>1 DEF Off

LEMMA LiteralOff ==
  ASSUME NEW num \in Int, 0 <= num, num <= 400, NEW r, r = F!literal(num, 400)
  PROVE  /\ r \in Limbs /\ Off(places(r), num, 32)
         /\ num <= 120 => Off(places(r), num, 16)
         /\ num <= 24 => Off(places(r), num, 2)
<1> DEFINE a == (num * 1048576) \div 400
           b == (num * 1048576) % 400
           c == (b * 1048576) \div 400
           d == (b * 1048576) % 400
           e == (d * 524288) \div 400
           rest == (d * 524288) % 400
           hi == a * 512 + c \div 2048
           lo == (c % 2048) * 524288 + e
           q == <<hi, lo>>
           u == F!ulp(q)
<1>1. r = F!nearest(q, rest, 400)
  BY SMT DEF F!literal
<1>2. /\ hi \in Int /\ 0 <= hi /\ lo \in Int /\ 0 <= lo /\ lo < 1073741824
      /\ rest \in Nat /\ rest < 400
  BY SMT, Digits
<1>3. 400 * (hi * 1073741824 + lo) + rest = num * 576460752303423488
  BY SMT, DigitsExact
<1> HIDE DEF hi, lo, rest
<1>4. q \in Limbs /\ places(q) = hi * 1073741824 + lo /\ places(q) \in Int
  BY SMT, <1>2, LimbsMember
<1>5. u = F!ulp(q) /\ u \in Int
  <2>1. u \in Ulps
    BY SMT, UlpIs
  <2> QED  BY SMT, <2>1 DEF Ulps
<1>6. 400 * places(q) + rest = num * 576460752303423488
  BY SMT, <1>3, <1>4
<1> HIDE DEF q, u
<1>7. /\ r \in Limbs
      /\ 400 * places(r) - (400 * places(q) + rest) <= 200 * u
      /\ (400 * places(q) + rest) - 400 * places(r) <= 200 * u
  BY SMT, <1>1, <1>2, <1>4, <1>5, NearestRest
<1>8. places(r) \in Int
  BY SMT, <1>7, LimbsType
<1>9. 0 <= places(q)
  BY SMT, <1>2, <1>4
<1>10. /\ places(q) < 36028797018963968 => u <= 4
       /\ places(q) < 288230376151711744 => u <= 32
       /\ places(q) < 576460752303423488 => u <= 64
  BY SMT, <1>4, <1>5, <1>9, UlpBelow
<1>11. /\ num < 400 => places(q) < 576460752303423488
       /\ num <= 120 => places(q) < 288230376151711744
       /\ num <= 24 => places(q) < 36028797018963968
       /\ num = 400 => rest = 0 /\ places(q) = 576460752303423488
  BY SMT, <1>2, <1>4, <1>6
<1>12. CASE num < 400
  BY SMT, <1>2, <1>4, <1>5, <1>6, <1>7, <1>8, <1>10, <1>11, <1>12 DEF Off
<1>13. CASE num = 400
  <2>1. q = <<536870912, 0>>
    <3>1. q[1] \in Int /\ 0 <= q[2] /\ q[2] < 1073741824 /\ q[2] \in Int
          /\ q[1] * 1073741824 + q[2] = 576460752303423488 /\ q = <<q[1], q[2]>>
      BY SMT, <1>4, <1>11, <1>13, LimbsType
    <3> QED  BY SMT, <3>1
  <2>2. r = F!nearest(<<536870912, 0>>, 0, 400)
    BY SMT, <1>1, <1>11, <1>13, <2>1
  <2>3. F!nearest(<<536870912, 0>>, 0, 400) = <<536870912, 0>>
    BY SMT DEF F!nearest, F!ulp
  <2>4. places(r) = 576460752303423488
    BY SMT, <1>4, <1>11, <1>13, <2>1, <2>2, <2>3
  <2> QED  BY SMT, <1>7, <1>8, <1>13, <2>4, WholeOff
<1> QED  BY SMT, <1>12, <1>13

\* 0.15 and 0.3, to the place.
LEMMA LiteralSixty == F!literal(60, 400) \in Limbs /\ places(F!literal(60, 400)) = 86469112845513520
<1>1. F!literal(60, 400) = F!nearest(<<80530636, 858993459>>, 80, 400)
  BY SMT DEF F!literal
<1>2. F!nearest(<<80530636, 858993459>>, 80, 400) = <<80530636, 858993456>>
  BY SMT DEF F!nearest, F!ulp
<1> QED  BY SMT, <1>1, <1>2, LimbsMember

LEMMA LiteralCap == F!literal(120, 400) \in Limbs /\ places(F!literal(120, 400)) = 172938225691027040
<1>1. F!literal(120, 400) = F!nearest(<<161061273, 644245094>>, 160, 400)
  BY SMT DEF F!literal
<1>2. F!nearest(<<161061273, 644245094>>, 160, 400) = <<161061273, 644245088>>
  BY SMT DEF F!nearest, F!ulp
<1> QED  BY SMT, <1>1, <1>2, LimbsMember

\* f64[u], for every number of units, for the tables' and for the two bases
\* whose products need more care.
LEMMA F64Off ==
  ASSUME NEW u \in Int, -400 <= u, u <= 400
  PROVE  /\ f64[u] \in Limbs /\ Off(places(f64[u]), u, 32)
         /\ -120 <= u /\ u <= 120 => Off(places(f64[u]), u, 16)
         /\ -24 <= u /\ u <= 24 => Off(places(f64[u]), u, 2)
         /\ u = 60 => Off(places(f64[u]), u, 4)
         /\ u = 120 => Off(places(f64[u]), u, 7)
         /\ u = -120 => Off(places(f64[u]), u, 7)
<1>1. ONE = 400 /\ u \in -ONE..ONE
  BY SMT DEF ONE
<1>2. f64[u] = IF u < 0 THEN F!negate(F!literal(-u, 400)) ELSE F!literal(u, 400)
  <2>1. f64[u] = IF u < 0 THEN F!negate(F!literal(-u, ONE)) ELSE F!literal(u, ONE)
    BY SMT, <1>1 DEF f64
  <2> QED  BY SMT, <1>1, <2>1
<1> DEFINE n == IF u < 0 THEN -u ELSE u
           q == F!literal(n, 400)
<1>3. n \in Int /\ 0 <= n /\ n <= 400 /\ n = IF u < 0 THEN -u ELSE u
  BY SMT
<1>4. f64[u] = IF u < 0 THEN F!negate(q) ELSE q
  BY SMT, <1>2
<1> HIDE DEF n
<1>5. /\ q \in Limbs /\ Off(places(q), n, 32)
      /\ n <= 120 => Off(places(q), n, 16)
      /\ n <= 24 => Off(places(q), n, 2)
  BY SMT, <1>3, LiteralOff
<1>6. n = 60 => places(q) = 86469112845513520
  BY SMT, LiteralSixty
<1>7. n = 120 => places(q) = 172938225691027040
  BY SMT, LiteralCap
<1> HIDE DEF q
<1>8. places(q) \in Int
  BY SMT, <1>5, LimbsType
<1>9. f64[u] \in Limbs /\ places(f64[u]) = IF u < 0 THEN -places(q) ELSE places(q)
  BY SMT, <1>4, <1>5, NegateIs
<1> QED  BY SMT, <1>3, <1>5, <1>6, <1>7, <1>8, <1>9 DEF Off

-----------------------------------------------------------------------------
(***************************************************************************)
(* The weighted deltas: within 16 places of what the tables say.           *)
(***************************************************************************)
LEMMA HalfIs ==
  ASSUME NEW x \in Limbs, NEW h, h = F!half(x)
  PROVE  h \in Limbs /\ 2 * places(h) <= places(x) /\ places(x) <= 2 * places(h) + 1
<1> DEFINE a == x[1] \div 2
           r == x[1] % 2
           c == x[2] \div 2
           b == r * 536870912 + c
<1>1. /\ a \in Int /\ (r = 0 \/ r = 1) /\ x[1] = 2 * a + r
      /\ c \in Int /\ 0 <= c /\ c < 536870912 /\ 2 * c <= x[2] /\ x[2] <= 2 * c + 1
  BY SMT, LimbsType
<1>2. h = <<a, b>>
  BY SMT DEF F!half
<1>3. places(x) = x[1] * 1073741824 + x[2] /\ x[1] \in Int /\ x[2] \in Int
  BY SMT, LimbsType
<1> HIDE DEF a, r, c
<1>4. b \in Int /\ 0 <= b /\ b < 1073741824 /\ b = r * 536870912 + c
  BY SMT, <1>1
<1> HIDE DEF b
<1>5. h \in Limbs /\ places(h) = a * 1073741824 + b
  BY SMT, <1>1, <1>2, <1>4, LimbsMember
<1> QED  BY SMT, <1>1, <1>3, <1>4, <1>5

\* x * 0.5 and x * 1.5, of an even number of units.
LEMMA ScaleOff ==
  ASSUME NEW x \in Limbs, NEW m \in Int
  PROVE  /\ -60 <= m /\ m <= 60 /\ Off(places(x), 2 * m, 7) => Off(places(F!scale(x, 1)), m, 16)
         /\ -30 <= m /\ m <= 30 /\ Off(places(x), 2 * m, 4) => Off(places(F!scale(x, 3)), 3 * m, 16)
<1> DEFINE h == F!half(x)
           y == F!plus(x, h)
           lo == F!rounded(h)
           hi == F!rounded(y)
<1>1. h \in Limbs /\ 2 * places(h) <= places(x) /\ places(x) <= 2 * places(h) + 1
  BY SMT, HalfIs
<1>2. F!scale(x, 1) = lo /\ F!scale(x, 3) = hi
  BY SMT DEF F!scale
<1> HIDE DEF h
<1>3. y \in Limbs /\ places(y) = places(x) + places(h)
  BY SMT, <1>1, PlusIs
<1> HIDE DEF y
<1>4. lo \in Limbs /\ hi \in Limbs /\ Close(places(lo), places(h)) /\ Close(places(hi), places(y))
  BY SMT, <1>1, <1>3, RoundedIs, RoundedClose
<1> HIDE DEF lo, hi
<1>5. /\ places(x) \in Int /\ places(h) \in Int /\ places(y) \in Int
      /\ places(lo) \in Int /\ places(hi) \in Int
  BY SMT, <1>1, <1>3, <1>4, LimbsType
<1>6. ASSUME -60 <= m, m <= 60, Off(places(x), 2 * m, 7)
      PROVE  Off(places(lo), m, 16)
  <2>1. -144115188075855872 < places(h) /\ places(h) < 144115188075855872
    BY SMT, <1>1, <1>5, <1>6 DEF Off
  <2> QED  BY SMT, <1>1, <1>4, <1>5, <1>6, <2>1 DEF Off, Close
<1>7. ASSUME -30 <= m, m <= 30, Off(places(x), 2 * m, 4)
      PROVE  Off(places(hi), 3 * m, 16)
  <2>1. -144115188075855872 < places(y) /\ places(y) < 144115188075855872
    BY SMT, <1>1, <1>3, <1>5, <1>7 DEF Off
  <2> QED  BY SMT, <1>1, <1>3, <1>4, <1>5, <1>7, <2>1 DEF Off, Close
<1> QED  BY SMT, <1>2, <1>6, <1>7

\* A unit is much more than what the numbers are off by.
LEMMA OffOrder ==
  ASSUME NEW p \in Int, NEW q \in Int, NEW m \in Int, NEW n \in Int, m < n,
         Off(p, m, 16), Off(q, n, 16)
  PROVE  p + 1000 < q
BY SMT DEF Off

LEMMA OffWeaken ==
  ASSUME NEW p \in Int, NEW n \in Int, NEW b \in Int, NEW c \in Int, b <= c, Off(p, n, b)
  PROVE  Off(p, n, c)
BY SMT DEF Off

\* 0.3 * 1.5 exceeds the cap.
LEMMA ScaleCap ==
  ASSUME NEW x \in Limbs, Off(places(x), 120, 7)
  PROVE  F!scale(x, 3) \in Limbs /\ places(x) < places(F!scale(x, 3))
<1> DEFINE h == F!half(x)
           y == F!plus(x, h)
           r == F!rounded(y)
<1>1. h \in Limbs /\ 2 * places(h) <= places(x) /\ places(x) <= 2 * places(h) + 1
  BY SMT, HalfIs
<1>2. F!scale(x, 3) = r
  BY SMT DEF F!scale
<1> HIDE DEF h
<1>3. y \in Limbs /\ places(y) = places(x) + places(h)
  BY SMT, <1>1, PlusIs
<1> HIDE DEF y
<1>4. r \in Limbs /\ places(y) - places(r) <= 64
  BY SMT, <1>3, RoundedIs
<1> HIDE DEF r
<1>5. places(x) \in Int /\ places(h) \in Int /\ places(y) \in Int /\ places(r) \in Int
  BY SMT, <1>1, <1>3, <1>4, LimbsType
<1>6. 1000 < places(x)
  <2>1. Off(0, 0, 16)
    BY SMT DEF Off
  <2>2. Off(places(x), 120, 16)
    BY SMT, <1>5, OffWeaken
  <2> QED  BY SMT, <1>5, <2>1, <2>2, OffOrder
<1>7. places(x) < places(r)
  BY SMT, <1>1, <1>3, <1>4, <1>5, <1>6
<1> QED  BY SMT, <1>2, <1>4, <1>7

\* The clamp lets through what is well below the cap.
LEMMA CapClamp ==
  ASSUME NEW x \in Limbs
  PROVE  LET w == F!clamp(x, f64[-120], f64[120])
         IN /\ w \in Limbs
            /\ places(f64[120]) <= places(x) => w = f64[120]
            /\ \A m \in Int : -90 <= m /\ m <= 90 /\ Off(places(x), m, 16) => w = x
<1> DEFINE lo == f64[-120]
           hi == f64[120]
<1>1. /\ lo \in Limbs /\ hi \in Limbs /\ Off(places(lo), -120, 16) /\ Off(places(hi), 120, 16)
  BY SMT, F64Off
<1> HIDE DEF lo, hi
<1>2. places(x) \in Int /\ places(lo) \in Int /\ places(hi) \in Int
  BY SMT, <1>1, LimbsType
<1> DEFINE w == F!clamp(x, lo, hi)
<1>3. /\ w \in Limbs
      /\ places(w) = IF places(x) < places(lo) THEN places(lo)
                     ELSE IF places(hi) < places(x) THEN places(hi) ELSE places(x)
  BY SMT, <1>1, ClampIs
<1> HIDE DEF w
<1>4. places(lo) < 0 /\ 0 < places(hi)
  <2>1. Off(0, 0, 16)
    BY SMT DEF Off
  <2> QED  BY SMT, <1>1, <1>2, <2>1, OffOrder
<1>5. ASSUME places(hi) <= places(x)  PROVE w = hi
  BY SMT, <1>1, <1>2, <1>3, <1>4, <1>5, LessIs
<1>6. ASSUME NEW m \in Int, -90 <= m, m <= 90, Off(places(x), m, 16)  PROVE w = x
  <2>1. places(lo) <= places(x) /\ places(x) <= places(hi)
    BY SMT, <1>1, <1>2, <1>6, OffOrder
  <2> QED  BY SMT, <1>1, <1>2, <1>3, <2>1, LessIs
<1> QED  BY SMT, <1>3, <1>5, <1>6 DEF w, lo, hi

Bases == {-20, -10, 0, 20, 60, 120}

LEMMA WeightOff ==
  ASSUME NEW b \in Bases, NEW conf \in Confidence
  PROVE  /\ weight_delta64(b, conf) \in Limbs
         /\ weight_delta(b, conf) \in Int
         /\ -30 <= weight_delta(b, conf) /\ weight_delta(b, conf) <= 120
         /\ Off(places(weight_delta64(b, conf)), weight_delta(b, conf), 16)
<1> DEFINE t == twice_weight(conf)
           x == f64[b]
           y == F!scale(x, t)
           w == weight_delta64(b, conf)
           wu == weight_delta(b, conf)
           m == b \div 2
<1>1. t = 1 \/ t = 2 \/ t = 3
  BY SMT DEF Confidence, twice_weight
<1>2. m \in Int /\ b = 2 * m /\ b \in Int /\ -10 <= m /\ m <= 60 /\ (m <= 30 \/ m = 60)
  BY SMT DEF Bases
<1>3. /\ x \in Limbs /\ Off(places(x), b, 16)
      /\ m <= 30 => Off(places(x), b, 4)
      /\ m = 60 => Off(places(x), b, 7) /\ x = f64[120]
  <2>1. (-24 <= b /\ b <= 24) \/ b = 60 \/ b = 120
    BY SMT DEF Bases
  <2>2. /\ x \in Limbs /\ Off(places(x), b, 16)
        /\ -24 <= b /\ b <= 24 => Off(places(x), b, 2)
        /\ b = 60 => Off(places(x), b, 4)
        /\ b = 120 => Off(places(x), b, 7)
    BY SMT, <1>2, <2>1, F64Off
  <2>3. Off(places(x), b, 2) => Off(places(x), b, 4)
    BY SMT, <1>2, <2>2, LimbsType DEF Off
  <2> QED  BY SMT, <1>2, <2>1, <2>2, <2>3
<1>4. w = F!clamp(y, f64[-120], f64[120])
  BY SMT DEF weight_delta64, CONFIDENCE_MAGNITUDE_CAP, HIGH
<1>5. wu = IF t * m > 120 THEN 120 ELSE t * m
  <2>1. (b * t) \div 2 = t * m
    BY SMT, <1>1, <1>2
  <2>2. -120 <= t * m
    BY SMT, <1>1, <1>2
  <2>3. wu = clamp((b * t) \div 2, -120, 120)
    BY SMT DEF weight_delta, CONFIDENCE_MAGNITUDE_CAP, HIGH
  <2> HIDE DEF t, wu
  <2> QED  BY SMT, <1>1, <1>2, <2>1, <2>2, <2>3 DEF clamp
<1> HIDE DEF t, x, w, wu, m
<1>6. CASE t = 2
  <2>1. y = x
    BY SMT, <1>6 DEF F!scale
  <2>2. wu = b
    BY SMT, <1>2, <1>5, <1>6
  <2>3. w = F!clamp(x, f64[-120], f64[120])
    BY SMT, <1>4, <2>1
  <2>4. CASE m <= 30
    <3>1. -90 <= b /\ b <= 90
      BY SMT, <1>2, <2>4
    <3>2. w = x
      BY SMT, <1>2, <1>3, <2>3, <3>1, CapClamp
    <3> QED  BY SMT, <1>2, <1>3, <2>2, <3>2 DEF w, wu
  <2>5. CASE m = 60
    <3>1. x = f64[120] /\ places(x) <= places(x)
      BY SMT, <1>3, <2>5, LimbsType
    <3>2. w = x
      BY SMT, <1>3, <2>3, <3>1, CapClamp
    <3> QED  BY SMT, <1>2, <1>3, <2>2, <3>2 DEF w, wu
  <2> QED  BY SMT, <1>2, <2>4, <2>5
<1>7. CASE t = 1
  <2>1. y \in Limbs /\ Off(places(y), m, 16)
    <3>1. Off(places(x), 2 * m, 7)
      <4>1. places(x) \in Int
        BY SMT, <1>3, LimbsType
      <4>2. m <= 30 => Off(places(x), b, 7)
        BY SMT, <1>2, <1>3, <4>1, OffWeaken
      <4> QED  BY SMT, <1>2, <1>3, <4>2
    <3> QED  BY SMT, <1>2, <1>3, <1>7, <3>1, ScaleOff, ScaleType
  <2>2. wu = m
    BY SMT, <1>2, <1>5, <1>7
  <2> HIDE DEF y
  <2>3. -90 <= m /\ m <= 90
    BY SMT, <1>2
  <2>4. w = y
    BY SMT, <1>2, <1>4, <2>1, <2>3, CapClamp
  <2> QED  BY SMT, <1>2, <2>1, <2>2, <2>4 DEF w, wu
<1>8. CASE t = 3 /\ m <= 30
  <2>1. y \in Limbs /\ Off(places(y), 3 * m, 16)
    BY SMT, <1>2, <1>3, <1>8, ScaleOff, ScaleType
  <2>2. wu = 3 * m
    BY SMT, <1>2, <1>5, <1>8
  <2> HIDE DEF y
  <2>3. 3 * m \in Int /\ -90 <= 3 * m /\ 3 * m <= 90
    BY SMT, <1>2, <1>8
  <2>4. w = y
    BY SMT, <1>4, <2>1, <2>3, CapClamp
  <2> QED  BY SMT, <1>2, <2>1, <2>2, <2>3, <2>4 DEF w, wu
<1>9. CASE t = 3 /\ m = 60
  <2>1. y \in Limbs /\ places(x) < places(y)
    BY SMT, <1>2, <1>3, <1>9, ScaleCap
  <2>2. wu = 120
    BY SMT, <1>5, <1>9
  <2> HIDE DEF y
  <2>3. w = x
    BY SMT, <1>3, <1>4, <1>9, <2>1, CapClamp, LimbsType
  <2>4. Off(places(x), 120, 16)
    BY SMT, <1>2, <1>3, <1>9
  <2> QED  BY SMT, <1>3, <2>2, <2>3, <2>4 DEF w, wu
<1> QED  BY SMT, <1>1, <1>2, <1>6, <1>7, <1>8, <1>9

LEMMA WeightedOff ==
  ASSUME name \in Names, NEW d \in weighted_deltas[name]
  PROVE  /\ d.reason \in OutcomeReason
         /\ d.delta64 \in Limbs /\ d.units \in Int
         /\ -30 <= d.units /\ d.units <= 120
         /\ Off(places(d.delta64), d.units, 16)
<1>1. name \in Attrs /\ name # friction
  BY SMT, PrecisionAssumption DEF PrecisionAssumption
<1>2. PICK x \in OutcomeReason \X Confidence :
             d = LET base == outcome_base_deltas(x[1])[name]
                 IN [reason |-> x[1], delta64 |-> weight_delta64(base, x[2]),
                     units |-> weight_delta(base, x[2])]
  BY SMT, <1>1 DEF weighted_deltas
<1> DEFINE base == outcome_base_deltas(x[1])[name]
           conf == x[2]
<1>3. x[1] \in OutcomeReason /\ conf \in Confidence
  BY SMT
<1>4. base \in Bases
  <2>1. name \in {1, 3, 4, 5, 6, 7, 8}
    BY SMT, <1>1 DEF Attrs, friction
  <2> QED  BY SMT, <1>3, <2>1 DEF OutcomeReason, outcome_base_deltas, NoDeltas, TINY, SMALL, MEDIUM, HIGH, Bases
<1>5. /\ d.reason = x[1] /\ d.delta64 = weight_delta64(base, conf)
      /\ d.units = weight_delta(base, conf)
  BY SMT, <1>2
<1> HIDE DEF base, conf
<1> QED  BY SMT, <1>3, <1>4, <1>5, WeightOff

-----------------------------------------------------------------------------
(***************************************************************************)
(* The plans again: what is cut off, and what is stored.                   *)
(***************************************************************************)

\* A difference of more than EPSILON is one after rounding, too: 129 places
\* are an f64.
LEMMA JustOver ==
  LET y == <<0, 129>> IN y \in Limbs /\ Grid(y) /\ places(y) = 129
<1> DEFINE y == <<0, 129>>
<1>1. y \in Limbs /\ places(y) = 129
  BY SMT, LimbsMember
<1>2. F!ulp(y) = 1 /\ y[2] = 129
  BY SMT DEF F!ulp
<1>3. Cut(y)
  BY SMT, <1>2 DEF Cut
<1>4. places(y) = IF places(y) < 0 THEN -places(y) ELSE places(y)
  BY SMT, <1>1
<1>5. Grid(y)
  BY SMT, <1>1, <1>3, <1>4, GridOf
<1> QED  BY SMT, <1>1, <1>5

LEMMA EpsilonIs == F!EPSILON \in Limbs /\ places(F!EPSILON) = 128
<1>1. F!EPSILON = <<0, 128>>
  BY SMT DEF F!EPSILON
<1> QED  BY SMT, <1>1, LimbsMember

LEMMA CutIs ==
  ASSUME NEW c \in Limbs, NEW r \in Limbs
  PROVE  /\ places(c) = places(r) => ~F!less(F!EPSILON, F!abs(F!sub(c, r)))
         /\ places(c) - places(r) >= 129 => F!less(F!EPSILON, F!abs(F!sub(c, r)))
         /\ places(r) - places(c) >= 129 => F!less(F!EPSILON, F!abs(F!sub(c, r)))
<1> DEFINE s == F!sub(c, r)
           y == <<0, 129>>
<1>1. y \in Limbs /\ Grid(y) /\ places(y) = 129
  BY SMT, JustOver
<1> HIDE DEF y
<1>2. F!negate(y) \in Limbs /\ Grid(F!negate(y)) /\ places(F!negate(y)) = -129
  BY SMT, <1>1, NegateIs, NegateGrid
<1>3. /\ s \in Limbs
      /\ \A z \in Limbs : Grid(z) => /\ places(z) <= places(c) - places(r) => places(z) <= places(s)
                                     /\ places(c) - places(r) <= places(z) => places(s) <= places(z)
  BY SMT, SubIs
<1> HIDE DEF s
<1>4. places(c) \in Int /\ places(r) \in Int /\ places(s) \in Int
  BY SMT, <1>3, LimbsType
<1>5. F!less(F!EPSILON, F!abs(s)) <=> 128 < (IF places(s) < 0 THEN -places(s) ELSE places(s))
  BY SMT, <1>3, AbsIs, EpsilonIs, LessIs
<1>6. places(c) = places(r) => places(s) = 0
  BY SMT, <1>3, <1>4, ZeroIs, ZeroGrid
<1>7. places(c) - places(r) >= 129 => 129 <= places(s)
  BY SMT, <1>1, <1>3, <1>4
<1>8. places(r) - places(c) >= 129 => places(s) <= -129
  BY SMT, <1>2, <1>3, <1>4
<1> QED  BY SMT, <1>4, <1>5, <1>6, <1>7, <1>8 DEF s

\* plan_for of an f64 v: on the sum of the places, s.
LEMMA PlanCases ==
  ASSUME NEW v \in Limbs, NEW dl \in Limbs, NEW pl, pl = plan_for64(v, dl),
         NEW s, s = places(v) + places(dl)
  PROVE  /\ pl.new_value \in Limbs
         /\ s < -200 => places(pl.new_value) = 0 /\ pl.caps_applied = {"range_clamp"}
         /\ s > 576460752303423688 => /\ places(pl.new_value) = 576460752303423488
                                      /\ pl.caps_applied = {"range_clamp"}
         /\ 0 <= s /\ s <= 576460752303423488 =>
              /\ 0 <= places(pl.new_value) /\ places(pl.new_value) <= 576460752303423488
              /\ pl.caps_applied = {} /\ Close(places(pl.new_value), s)
         /\ s <= 0 => /\ -128 <= places(pl.new_value) /\ places(pl.new_value) <= 0
         /\ 576460752303423488 <= s => /\ 576460752303423488 <= places(pl.new_value)
                                       /\ places(pl.new_value) <= 576460752303423616
<1> DEFINE raw == F!add(v, dl)
           c == F!clamp(raw, F!ZERO, F!ONE)
           cut == F!less(F!EPSILON, F!abs(F!sub(c, raw)))
<1>1. pl = [new_value |-> IF cut THEN c ELSE raw,
            caps_applied |-> IF cut THEN {"range_clamp"} ELSE {}]
  BY SMT DEF plan_for64
<1>2. pl.new_value = (IF cut THEN c ELSE raw) /\ pl.caps_applied = IF cut THEN {"range_clamp"} ELSE {}
  BY SMT, <1>1
<1>3. /\ raw \in Limbs /\ Close(places(raw), s)
      /\ places(raw) - s <= 64 /\ s - places(raw) <= 64
      /\ 0 <= s => 0 <= places(raw)
      /\ s <= 0 => places(raw) <= 0
      /\ 576460752303423488 <= s => 576460752303423488 <= places(raw)
      /\ s <= 576460752303423488 => places(raw) <= 576460752303423488
  BY SMT, AddIs, SumClose, ZeroIs, ZeroGrid, OneIs, OneGrid
<1> HIDE DEF raw
<1>4. /\ c \in Limbs
      /\ places(c) = IF places(raw) < 0 THEN 0
                     ELSE IF 576460752303423488 < places(raw) THEN 576460752303423488 ELSE places(raw)
  BY SMT, <1>3, ClampIs, ZeroIs, OneIs
<1> HIDE DEF c
<1>5. /\ places(c) = places(raw) => ~cut
      /\ places(c) - places(raw) >= 129 => cut
      /\ places(raw) - places(c) >= 129 => cut
  BY SMT, <1>3, <1>4, CutIs
<1> HIDE DEF cut
<1>6. places(raw) \in Int /\ places(c) \in Int /\ s \in Int
  BY SMT, <1>3, <1>4, LimbsType
<1>7. pl.new_value \in Limbs
  BY SMT, <1>2, <1>3, <1>4
<1>8. /\ cut => places(pl.new_value) = places(c) /\ pl.caps_applied = {"range_clamp"}
      /\ ~cut => places(pl.new_value) = places(raw) /\ pl.caps_applied = {}
  BY SMT, <1>2
<1>9. CASE s < -200
  BY SMT, <1>3, <1>4, <1>5, <1>6, <1>7, <1>8, <1>9
<1>10. CASE s > 576460752303423688
  BY SMT, <1>3, <1>4, <1>5, <1>6, <1>7, <1>8, <1>10
<1>11. CASE 0 <= s /\ s <= 576460752303423488
  <2>1. places(c) = places(raw) /\ ~cut
    BY SMT, <1>3, <1>4, <1>5, <1>6, <1>11
  <2> QED  BY SMT, <1>3, <1>4, <1>6, <1>7, <1>8, <1>11, <2>1
<1>12. CASE -200 <= s /\ s < 0
  BY SMT, <1>3, <1>4, <1>5, <1>6, <1>7, <1>8, <1>12
<1>13. CASE 576460752303423488 < s /\ s <= 576460752303423688
  BY SMT, <1>3, <1>4, <1>5, <1>6, <1>7, <1>8, <1>13
<1> QED  BY SMT, <1>6, <1>9, <1>10, <1>11, <1>12, <1>13

(***************************************************************************)
(* Moved(n, s, x, xn): n places are what is stored for a sum of s places   *)
(* that stands for x units, of which xn are left in range. At an edge they *)
(* are the units exactly, elsewhere rounded.                               *)
(***************************************************************************)
Moved(n, s, x, xn) ==
  \/ Off(n, xn, 0)
  \/ xn = x /\ Close(n, s) /\ -576460752303423488 < s /\ s < 576460752303423488

Kept(x) == IF x < 0 THEN 0 ELSE IF x > 400 THEN 400 ELSE x

Caps(x) == IF x < 0 \/ x > 400 THEN {"range_clamp"} ELSE {}

LEMMA OffEdges ==
  ASSUME NEW p \in Int, NEW n \in Int
  PROVE  /\ n = 0 /\ p = 0 => Off(p, n, 0)
         /\ n = 400 /\ p = 576460752303423488 => Off(p, n, 0)
<1>1. ASSUME n = 400, p = 576460752303423488  PROVE Off(p, n, 0)
  <2>1. 400 * p = n * 576460752303423488
    BY SMT, <1>1
  <2> QED  BY SMT, <2>1 DEF Off
<1>2. ASSUME n = 0, p = 0  PROVE Off(p, n, 0)
  BY SMT, <1>2 DEF Off
<1> QED  BY SMT, <1>1, <1>2

\* A sum that is off by much less than a unit is on the same side of an edge.
LEMMA OffSides ==
  ASSUME NEW s \in Int, NEW x \in Int, NEW b \in Int, b <= 1000000000000, Off(s, x, b)
  PROVE  /\ x < 0 => s < -200
         /\ x > 400 => s > 576460752303423688
         /\ 0 < x => 0 < s
         /\ x < 400 => s < 576460752303423488
<1>1. x < 0 => s < -200
  BY SMT DEF Off
<1>2. 0 < x => 0 < s
  BY SMT DEF Off
<1>3. ASSUME NEW d \in Int, d = 576460752303423488 - s
      PROVE  (x < 400 => 0 < d) /\ (x > 400 => d < -200)
  <2>1. Off(d, 400 - x, b)
    BY SMT, <1>3 DEF Off
  <2> QED  BY SMT, <1>3, <2>1 DEF Off
<1> QED  BY SMT, <1>1, <1>2, <1>3

\* The sum of v and dl stands for x units, and n is what is stored for it.
SumOff(v, dl, x) == \E b \in Int : b <= 1000000000000 /\ Off(places(v) + places(dl), x, b)

Stored(n, v, dl, x) == Moved(places(n), places(v) + places(dl), x, Kept(x))

LEMMA PlanOff ==
  ASSUME NEW v \in Limbs, NEW dl \in Limbs, NEW x \in Int, SumOff(v, dl, x)
  PROVE  LET pl == plan_for64(v, dl)
         IN /\ pl.new_value \in Limbs
            /\ pl.caps_applied = Caps(x) \/ x = 0 \/ x = 400
            /\ validate64(pl.new_value) => Stored(pl.new_value, v, dl, x)
            /\ ~validate64(pl.new_value) =>
                 \/ x = 0 /\ -128 <= places(pl.new_value) /\ places(pl.new_value) <= 0
                 \/ /\ x = 400 /\ 576460752303423488 <= places(pl.new_value)
                    /\ places(pl.new_value) <= 576460752303423616
<1> DEFINE pl == plan_for64(v, dl)
           s == places(v) + places(dl)
           n == pl.new_value
<1>0. PICK b \in Int : b <= 1000000000000 /\ Off(s, x, b)
  BY SMT DEF SumOff
<1>1. /\ n \in Limbs
      /\ s < -200 => places(n) = 0 /\ pl.caps_applied = {"range_clamp"}
      /\ s > 576460752303423688 => /\ places(n) = 576460752303423488
                                   /\ pl.caps_applied = {"range_clamp"}
      /\ 0 <= s /\ s <= 576460752303423488 =>
           /\ 0 <= places(n) /\ places(n) <= 576460752303423488
           /\ pl.caps_applied = {} /\ Close(places(n), s)
      /\ s <= 0 => -128 <= places(n) /\ places(n) <= 0
      /\ 576460752303423488 <= s => /\ 576460752303423488 <= places(n)
                                    /\ places(n) <= 576460752303423616
  BY SMT, PlanCases
<1>2. s \in Int /\ places(n) \in Int /\ places(F!ONE) = 576460752303423488
  BY SMT, <1>1, LimbsType, OneIs
<1>3. /\ x < 0 => s < -200
      /\ x > 400 => s > 576460752303423688
      /\ 0 < x => 0 < s
      /\ x < 400 => s < 576460752303423488
  BY SMT, <1>0, <1>2, OffSides
<1>4. validate64(n) <=> 0 <= places(n) /\ places(n) <= 576460752303423488
  BY SMT, <1>1, <1>2, ValidIs
<1> HIDE DEF n
<1>5. pl.caps_applied = Caps(x) \/ x = 0 \/ x = 400
  <2>1. CASE x < 0
    BY SMT, <1>1, <1>3, <2>1 DEF Caps
  <2>2. CASE x > 400
    BY SMT, <1>1, <1>3, <2>2 DEF Caps
  <2>3. CASE 0 < x /\ x < 400
    BY SMT, <1>1, <1>2, <1>3, <2>3 DEF Caps
  <2> QED  BY SMT, <2>1, <2>2, <2>3
<1>6. ASSUME validate64(n)  PROVE Moved(places(n), s, x, Kept(x))
  <2>1. CASE x < 0 \/ (x = 0 /\ s <= 0)
    <3>1. Kept(x) = 0 /\ Kept(x) \in Int /\ places(n) = 0
      BY SMT, <1>1, <1>2, <1>3, <1>4, <1>6, <2>1 DEF Kept
    <3> QED  BY SMT, <1>2, <3>1, OffEdges DEF Moved
  <2>2. CASE x > 400 \/ (x = 400 /\ 576460752303423488 <= s)
    <3>1. Kept(x) = 400 /\ Kept(x) \in Int /\ places(n) = 576460752303423488
      BY SMT, <1>1, <1>2, <1>3, <1>4, <1>6, <2>2 DEF Kept
    <3> QED  BY SMT, <1>2, <3>1, OffEdges DEF Moved
  <2>3. CASE 0 <= x /\ x <= 400 /\ 0 <= s /\ s < 576460752303423488
    <3>1. Kept(x) = x
      BY SMT, <2>3 DEF Kept
    <3> QED  BY SMT, <1>1, <1>2, <2>3, <3>1 DEF Moved
  <2> QED  BY SMT, <1>2, <1>3, <2>1, <2>2, <2>3
<1>7. ASSUME ~validate64(n)
      PROVE  \/ x = 0 /\ -128 <= places(n) /\ places(n) <= 0
             \/ /\ x = 400 /\ 576460752303423488 <= places(n)
                /\ places(n) <= 576460752303423616
  BY SMT, <1>1, <1>2, <1>3, <1>4, <1>7
<1> QED  BY SMT, <1>1, <1>5, <1>6, <1>7 DEF n, Stored

LEMMA DecayOff ==
  ASSUME NEW v, InRange(v), NEW dl, dl = f64[DECAY_DELTA],
         NEW pl, pl = dispatch_maintenance64(v),
         NEW x \in Int, x <= 400, SumOff(v, dl, x)
  PROVE  /\ pl.caps_applied = Caps(x) \/ x = 0
         /\ Stored(pl.new_value, v, dl, x)
<1> DEFINE s == places(v) + places(dl)
           raw == F!add(v, dl)
           n == pl.new_value
<1>0. PICK b \in Int : b <= 1000000000000 /\ Off(s, x, b)
  BY SMT DEF SumOff
<1>1. v \in Limbs /\ places(v) \in Int /\ 0 <= places(v) /\ places(v) <= 576460752303423488
  BY SMT, LimbsType, OneIs DEF InRange
<1>2. dl \in Limbs /\ places(dl) < 0 /\ places(dl) \in Int
  <2>1. DECAY_DELTA = -4
    BY SMT DEF DECAY_DELTA
  <2>2. dl \in Limbs /\ Off(places(dl), -4, 16)
    BY SMT, <2>1, F64Off
  <2>3. places(dl) \in Int
    BY SMT, <2>2, LimbsType
  <2>4. Off(0, 0, 16)
    BY SMT DEF Off
  <2> QED  BY SMT, <2>2, <2>3, <2>4, OffOrder
<1>3. pl = [new_value    |-> IF F!less(raw, F!ZERO) THEN F!ZERO ELSE raw,
            caps_applied |-> IF F!less(raw, F!ZERO) THEN {"range_clamp"} ELSE {}]
  BY SMT DEF dispatch_maintenance64
<1>4. /\ raw \in Limbs /\ Close(places(raw), s)
      /\ 0 <= s => 0 <= places(raw)
      /\ s <= 0 => places(raw) <= 0
      /\ s - places(raw) <= 64 /\ places(raw) - s <= 64
  BY SMT, <1>1, <1>2, AddIs, SumClose, ZeroIs, ZeroGrid
<1> HIDE DEF raw
<1>5. F!less(raw, F!ZERO) <=> places(raw) < 0
  BY SMT, <1>4, LessIs, ZeroIs
<1>6. /\ places(raw) < 0 => places(n) = 0 /\ pl.caps_applied = {"range_clamp"}
      /\ ~(places(raw) < 0) => places(n) = places(raw) /\ pl.caps_applied = {}
  BY SMT, <1>3, <1>5, ZeroIs
<1>7. places(raw) \in Int /\ s \in Int /\ s < 576460752303423488
  BY SMT, <1>1, <1>2, <1>4, LimbsType
<1>8. /\ x < 0 => s < -200
      /\ 0 < x => 0 < s
  BY SMT, <1>0, <1>7, OffSides
<1> HIDE DEF n, Stored
<1>9. CASE x < 0 \/ (x = 0 /\ s <= 0)
  <2>1. Kept(x) = 0 /\ Kept(x) \in Int /\ places(n) = 0 /\ places(n) \in Int
    BY SMT, <1>4, <1>6, <1>7, <1>8, <1>9 DEF Kept
  <2>2. Moved(places(n), s, x, Kept(x))
    BY SMT, <2>1, OffEdges DEF Moved
  <2>3. x < 0 => pl.caps_applied = Caps(x)
    BY SMT, <1>4, <1>6, <1>7, <1>8 DEF Caps
  <2> QED  BY SMT, <1>9, <2>2, <2>3 DEF n, Stored
<1>10. CASE 0 <= x /\ 0 <= s
  <2>1. Kept(x) = x /\ Caps(x) = {}
    BY SMT, <1>10 DEF Kept, Caps
  <2>2. places(n) = places(raw) /\ pl.caps_applied = {}
    BY SMT, <1>4, <1>6, <1>7, <1>10
  <2> QED  BY SMT, <1>4, <1>7, <1>10, <2>1, <2>2 DEF Moved, Stored, n
<1> QED  BY SMT, <1>7, <1>8, <1>9, <1>10

LEMMA ExactCaps ==
  ASSUME name \in Names, NEW units \in Int, exact \in Int
  PROVE  /\ exact_plan(units).new_value = Kept(exact + units)
         /\ exact_plan(units).caps_applied = Caps(exact + units)
<1>1. name # friction
  BY SMT, PrecisionAssumption DEF PrecisionAssumption
<1>2. ONE = 400
  BY SMT DEF ONE
<1> DEFINE x == exact + units
           e == exact_plan(units)
<1>3. /\ e.new_value = clamp(x, 0, ONE)
      /\ e.caps_applied = {} \cup (IF clamp(x, 0, ONE) # x THEN {"range_clamp"} ELSE {})
  BY SMT, <1>1 DEF exact_plan, plan_for
<1>4. x \in Int
  OBVIOUS
<1> HIDE DEF x
<1>5. clamp(x, 0, ONE) = Kept(x)
  BY SMT, <1>2, <1>4 DEF clamp, Kept
<1>6. Kept(x) # x <=> x < 0 \/ x > 400
  BY SMT, <1>4 DEF Kept
<1> HIDE DEF e
<1>7. e.caps_applied = Caps(x)
  BY SMT, <1>3, <1>5, <1>6 DEF Caps
<1> QED  BY SMT, <1>3, <1>5, <1>7 DEF e, x

-----------------------------------------------------------------------------
(***************************************************************************)
(* A bound on a sum over the interventions, of natural numbers: the sum is *)
(* the number of marks when every intervention gets as many as its summand *)
(* says, which takes no order in which to add them up and no more than     *)
(* finitely many that are not zero.                                        *)
(***************************************************************************)

\* f[i] marks for each intervention i.
Marks(f) == {m \in Interventions \X Nat : 1 <= m[2] /\ m[2] <= f[m[1]]}

Row(f, i) == {m \in {i} \X Nat : 1 <= m[2] /\ m[2] <= f[i]}

LEMMA RowIs ==
  ASSUME NEW f \in [Interventions -> Nat], NEW i \in Interventions
  PROVE  IsFiniteSet(Row(f, i)) /\ Cardinality(Row(f, i)) = f[i]
<1> DEFINE n == f[i]
           g == [k \in 1..n |-> <<i, k>>]
<1>1. n \in Nat
  OBVIOUS
<1>2. Row(f, i) = {m \in {i} \X Nat : 1 <= m[2] /\ m[2] <= n}
  BY DEF Row
<1> HIDE DEF n
<1>3. g \in Bijection(1..n, Row(f, i))
  <2>1. g \in [1..n -> Row(f, i)]
    BY SMT, <1>1, <1>2
  <2>2. \A a, b \in 1..n : g[a] = g[b] => a = b
    BY SMT, <1>1
  <2>3. ASSUME NEW m \in Row(f, i)  PROVE \E k \in 1..n : g[k] = m
    <3>1. m[2] \in 1..n /\ m = <<i, m[2]>>
      BY SMT, <1>1, <1>2
    <3> QED  BY <3>1
  <2>4. DOMAIN g = 1..n
    OBVIOUS
  <2> HIDE DEF g
  <2> QED  BY <2>1, <2>2, <2>3, <2>4 DEF Bijection, Injection, Surjection, IsInjective
<1>4. ExistsBijection(1..n, Row(f, i))
  BY <1>3 DEF ExistsBijection
<1>5. IsFiniteSet(1..n) /\ Cardinality(1..n) = n
  BY SMT, <1>1, FS_Interval
<1>6. IsFiniteSet(Row(f, i)) /\ Cardinality(Row(f, i)) = n
  BY <1>4, <1>5, FS_Bijection
<1> QED  BY <1>6 DEF n

\* a and the sum of f are at most c.
Within(a, f, c) == IsFiniteSet(Marks(f)) /\ a + Cardinality(Marks(f)) <= c

LEMMA MarksSplit ==
  ASSUME NEW f \in [Interventions -> Nat], NEW i \in Interventions
  PROVE  /\ Marks(f) = (Marks(f) \ Row(f, i)) \cup Row(f, i)
         /\ Marks(f) \ Row(f, i) = {m \in (Interventions \ {i}) \X Nat : 1 <= m[2] /\ m[2] <= f[m[1]]}
<1>1. Row(f, i) \subseteq Marks(f)
  BY SMT DEF Row, Marks
<1>2. ASSUME NEW m \in Marks(f) \ Row(f, i)  PROVE m[1] # i
  BY SMT DEF Row, Marks
<1> QED  BY SMT, <1>1, <1>2 DEF Row, Marks

\* So are a and one of the summands,
LEMMA WithinOne ==
  ASSUME NEW f \in [Interventions -> Nat], NEW a \in Nat, NEW c \in Int, Within(a, f, c),
         NEW i \in Interventions
  PROVE  a + f[i] <= c
<1>1. Row(f, i) \in SUBSET Marks(f)
  BY MarksSplit
<1>2. Cardinality(Row(f, i)) <= Cardinality(Marks(f)) /\ Cardinality(Marks(f)) \in Nat
  BY <1>1, FS_Subset, FS_CardinalityType DEF Within
<1> QED  BY SMT, <1>2, RowIs DEF Within

\* and a alone.
LEMMA WithinAll ==
  ASSUME NEW f \in [Interventions -> Nat], NEW a \in Nat, NEW c \in Int, Within(a, f, c)
  PROVE  a <= c
<1>1. Cardinality(Marks(f)) \in Nat
  BY FS_CardinalityType DEF Within
<1> QED  BY SMT, <1>1 DEF Within

LEMMA WithinZero ==
  ASSUME NEW f \in [Interventions -> Nat], \A i \in Interventions : f[i] = 0
  PROVE  Within(0, f, 0)
<1>1. Marks(f) = {}
  BY SMT DEF Marks
<1> QED  BY SMT, <1>1, FS_EmptySet DEF Within

\* The bound moves with a
LEMMA WithinMore ==
  ASSUME NEW f \in [Interventions -> Nat], NEW a \in Nat, NEW c \in Int, Within(a, f, c),
         NEW b \in Nat, NEW d \in Int, b - a <= d - c
  PROVE  Within(b, f, d)
<1>1. Cardinality(Marks(f)) \in Nat
  BY FS_CardinalityType DEF Within
<1> QED  BY SMT, <1>1 DEF Within

\* and with the summand of one intervention.
LEMMA WithinChange ==
  ASSUME NEW f \in [Interventions -> Nat], NEW a \in Nat, NEW c \in Int, Within(a, f, c),
         NEW g \in [Interventions -> Nat], NEW i \in Interventions,
         \A j \in Interventions \ {i} : g[j] = f[j],
         NEW b \in Nat, NEW d \in Int, (b + g[i]) - (a + f[i]) <= d - c
  PROVE  Within(b, g, d)
<1> DEFINE rest == Marks(f) \ Row(f, i)
<1>1. IsFiniteSet(Marks(f)) /\ IsFiniteSet(rest)
  BY FS_Difference DEF Within
<1>2. rest = Marks(g) \ Row(g, i)
  BY MarksSplit
<1>3. Marks(f) = rest \cup Row(f, i) /\ Marks(g) = rest \cup Row(g, i)
  BY <1>2, MarksSplit
<1>4. rest \cap Row(f, i) = {} /\ rest \cap Row(g, i) = {}
  BY <1>2
<1> HIDE DEF rest
<1>5. ASSUME NEW S, IsFiniteSet(S), rest \cap S = {}
      PROVE  IsFiniteSet(rest \cup S) /\ Cardinality(rest \cup S) = Cardinality(rest) + Cardinality(S)
  <2>1. Cardinality(rest) \in Nat /\ Cardinality(S) \in Nat /\ Cardinality(rest \cap S) = 0
    BY <1>1, <1>5, FS_CardinalityType, FS_EmptySet
  <2>2. IsFiniteSet(rest \cup S)
        /\ Cardinality(rest \cup S) = Cardinality(rest) + Cardinality(S) - Cardinality(rest \cap S)
    BY <1>1, <1>5, FS_Union
  <2> QED  BY SMT, <2>1, <2>2
<1>6. /\ Cardinality(Marks(f)) = Cardinality(rest) + f[i]
      /\ Cardinality(Marks(g)) = Cardinality(rest) + g[i] /\ IsFiniteSet(Marks(g))
  BY <1>3, <1>4, <1>5, RowIs
<1>7. Cardinality(rest) \in Nat
  BY <1>1, FS_CardinalityType
<1> QED  BY SMT, <1>6, <1>7 DEF Within

-----------------------------------------------------------------------------
(***************************************************************************)
(* The arithmetic of a step, on the numbers of places.                     *)
(***************************************************************************)

\* How far p places are above u units and how far below, in 400ths of a place.
Above(p, u) == LET e == 400 * p - u * 576460752303423488 IN IF e < 0 THEN 0 ELSE e
Below(p, u) == LET e == u * 576460752303423488 - 400 * p IN IF e < 0 THEN 0 ELSE e

\* A move of d places in u units from v in x to n in xn, of no intervention.
PlainMove(v, x, d, u, n, xn) ==
  /\ v \in Int /\ x \in Int /\ d \in Int /\ u \in Int /\ n \in Int /\ xn \in Int
  /\ Off(d, u, 16) /\ Moved(n, v + d, x + u, xn)

LEMMA PlainArith ==
  ASSUME NEW v, NEW x, NEW d, NEW u, NEW n, NEW xn, PlainMove(v, x, d, u, n, xn)
  PROVE  /\ Above(n, xn) <= Above(v, x) + 38400
         /\ Below(n, xn) <= Below(v, x) + 38400
<1>1. CASE Off(n, xn, 0)
  BY SMT, <1>1 DEF Off, PlainMove, Above, Below
<1>2. CASE xn = x + u /\ Close(n, v + d) /\ -576460752303423488 < v + d /\ v + d < 576460752303423488
  <2>1. n - (v + d) <= 32 /\ (v + d) - n <= 32
    BY SMT, <1>2 DEF Close
  <2> QED  BY SMT, <1>2, <2>1 DEF Off, PlainMove, Above, Below
<1> QED  BY SMT, <1>1, <1>2 DEF Moved, PlainMove

\* A delta of d places that takes an intervention from p places in m units to w
\* places in wu units, and the value from v in x to n in xn.
AimedMove(v, x, d, p, m, w, wu, n, xn, b) ==
  /\ v \in Int /\ x \in Int /\ d \in Int /\ p \in Int /\ m \in Int /\ w \in Int /\ wu \in Int
  /\ n \in Int /\ xn \in Int /\ b \in Int /\ 0 <= b /\ b <= 700000000000
  /\ Off(v, x, b) /\ Off(p, m, b)
  /\ Off(w, wu, 16) /\ d - (w - p) <= 16 /\ (w - p) - d <= 16
  /\ 0 <= x /\ x <= 400 /\ -30 <= m /\ m <= 120 /\ -30 <= wu /\ wu <= 120
  /\ Moved(n, v + d, x + (wu - m), xn) /\ xn = Kept(x + (wu - m))

\* What is stored changes by r places, after which the intervention has done q:
\* of its error, the value takes over what the intervention gives up, and three
\* roundings come on top.
LEMMA AimedArith ==
  ASSUME NEW v, NEW x, NEW d, NEW p, NEW m, NEW w, NEW wu, NEW n, NEW xn, NEW b,
         AimedMove(v, x, d, p, m, w, wu, n, xn, b),
         NEW r \in Int, Close(r, n - v), NEW q \in Int, Close(q, p + r),
         NEW mn, mn = m + (xn - x)
  PROVE  /\ mn \in Int /\ -30 <= mn /\ mn <= 120
         /\ Above(n, xn) + Below(q, mn) <= Above(v, x) + Below(p, m) + 38400
         /\ Below(n, xn) + Above(q, mn) <= Below(v, x) + Above(p, m) + 38400
<1>1. /\ mn \in Int /\ -30 <= mn /\ mn <= 120
      /\ -150 <= xn - x /\ xn - x <= 150
  BY SMT DEF Kept, AimedMove
<1>2. \/ Off(n, xn, 0)
      \/ xn = x + (wu - m) /\ n - (v + d) <= 32 /\ (v + d) - n <= 32
  BY SMT DEF Moved, Close, AimedMove
<1>3. Off(n, xn, 1500000000000)
  BY SMT, <1>2 DEF Off, AimedMove
<1>4. r - (n - v) <= 16 /\ (n - v) - r <= 16
  <2>1. -288230376151711744 < n - v /\ n - v < 288230376151711744
    BY SMT, <1>1, <1>3 DEF Off, AimedMove
  <2> QED  BY SMT, <2>1 DEF Close
<1>5. q - (p + r) <= 16 /\ (p + r) - q <= 16
  <2>1. -288230376151711744 < p + r /\ p + r < 288230376151711744
    BY SMT, <1>1, <1>3, <1>4 DEF Off, AimedMove
  <2> QED  BY SMT, <2>1 DEF Close
<1>6. q - (p + (n - v)) <= 32 /\ (p + (n - v)) - q <= 32
  BY SMT, <1>4, <1>5 DEF AimedMove
<1>7. CASE Off(n, xn, 0)
  BY SMT, <1>1, <1>6, <1>7 DEF Off, AimedMove, Above, Below
<1>8. CASE xn = x + (wu - m) /\ n - (v + d) <= 32 /\ (v + d) - n <= 32
  BY SMT, <1>1, <1>6, <1>8 DEF Off, AimedMove, Above, Below
<1> QED  BY SMT, <1>1, <1>2, <1>7, <1>8

LEMMA AboveBelow ==
  ASSUME NEW p \in Int, NEW u \in Int
  PROVE  /\ Above(p, u) \in Nat /\ Below(p, u) \in Nat
         /\ \A b \in Int : Above(p, u) <= 400 * b /\ Below(p, u) <= 400 * b => Off(p, u, b)
         /\ p = 0 /\ u = 0 => Above(p, u) = 0 /\ Below(p, u) = 0
BY SMT DEF Above, Below, Off

\* The error of a difference.
LEMMA DifferenceOff ==
  ASSUME NEW v \in Int, NEW x \in Int, NEW p \in Int, NEW m \in Int, NEW b \in Int,
         Above(v, x) + Below(p, m) <= 400 * b, Below(v, x) + Above(p, m) <= 400 * b
  PROVE  Off(v, x, b) /\ Off(p, m, b) /\ Off(v - p, x - m, b)
BY SMT DEF Above, Below, Off

-----------------------------------------------------------------------------
(***************************************************************************)
(* The invariant. A revision undoes what the log says its intervention did *)
(* and the value takes over the rounding errors in that; other revisions   *)
(* go on from there. What grows by the three roundings of an event and no  *)
(* more, 96 places, is what all the errors come to when those of the       *)
(* interventions count with the opposite sign: by how much the value is    *)
(* too high and the interventions are too low, and the reverse.            *)
(***************************************************************************)
Slack(k) == 96 * k

aboves(q) == [i \in Interventions |-> Above(places(q[i].actual), q[i].units)]
belows(q) == [i \in Interventions |-> Below(places(q[i].actual), q[i].units)]

Faithful(v, x, q, k) ==
  /\ \A i \in Interventions : -30 <= q[i].units /\ q[i].units <= 120
  /\ Within(Above(places(v), x), belows(q), 400 * Slack(k))
  /\ Within(Below(places(v), x), aboves(q), 400 * Slack(k))
  /\ k = 0 => x = 0

LEMMA PriorIs ==
  ASSUME NEW q, PriorsType(q), NEW i \in Interventions
  PROVE  q[i].actual \in Limbs /\ places(q[i].actual) \in Int /\ q[i].units \in Int
<1>1. q[i].actual \in Limbs /\ q[i].units \in Int
  BY SMT DEF PriorsType, PriorType
<1> QED  BY SMT, <1>1, LimbsType

LEMMA ErrorsType ==
  ASSUME NEW q, PriorsType(q)
  PROVE  aboves(q) \in [Interventions -> Nat] /\ belows(q) \in [Interventions -> Nat]
<1>1. ASSUME NEW i \in Interventions
      PROVE  /\ Above(places(q[i].actual), q[i].units) \in Nat
             /\ Below(places(q[i].actual), q[i].units) \in Nat
  <2>1. places(q[i].actual) \in Int /\ q[i].units \in Int
    BY Zenon, PriorIs
  <2> QED  BY Zenon, <2>1, AboveBelow
<1> QED  BY SMT, <1>1 DEF aboves, belows

(***************************************************************************)
(* How long the daemon lives, for the bounds on the error: a seq has at    *)
(* most 32 bits and the attribute decays at most 2^32 times.               *)
(***************************************************************************)
Lifetime == I32_MAX <= 2147483647 /\ \A n \in Names : MaxDecays[n] <= 4294967296

Moves(k) == k \in Int /\ 0 <= k /\ k <= 6442450943

LEMMA SlackIs ==
  ASSUME NEW k, Moves(k)
  PROVE  /\ Slack(k) \in Int /\ 0 <= Slack(k) /\ Slack(k) <= 700000000000
         /\ \A j \in Int : k + 1 <= j => Slack(k) + 96 <= Slack(j)
BY SMT DEF Slack, Moves

\* No value and no intervention is further off than all of them together.
LEMMA FaithfulOff ==
  ASSUME NEW v \in Limbs, NEW x \in Int, NEW q, PriorsType(q), NEW k, Moves(k),
         Faithful(v, x, q, k)
  PROVE  /\ Off(places(v), x, Slack(k))
         /\ \A i \in Interventions :
              /\ Off(places(q[i].actual), q[i].units, Slack(k))
              /\ Off(places(v) - places(q[i].actual), x - q[i].units, Slack(k))
<1> DEFINE hi == Above(places(v), x)
           lo == Below(places(v), x)
           c == 400 * Slack(k)
<1>1. places(v) \in Int /\ Slack(k) \in Int /\ c \in Int
  BY SMT, LimbsType, SlackIs
<1>2. hi \in Nat /\ lo \in Nat
  BY SMT, <1>1, AboveBelow
<1>3. aboves(q) \in [Interventions -> Nat] /\ belows(q) \in [Interventions -> Nat]
  BY SMT, ErrorsType
<1>4. Within(hi, belows(q), c) /\ Within(lo, aboves(q), c)
  BY SMT DEF Faithful
<1>5. Off(places(v), x, Slack(k))
  <2>1. hi <= c /\ lo <= c
    <3> HIDE DEF hi, lo, c
    <3> QED  BY SMT, <1>1, <1>2, <1>3, <1>4, WithinAll
  <2> QED  BY SMT, <1>1, <2>1, AboveBelow
<1>6. ASSUME NEW i \in Interventions
      PROVE  /\ Off(places(q[i].actual), q[i].units, Slack(k))
             /\ Off(places(v) - places(q[i].actual), x - q[i].units, Slack(k))
  <2>1. places(q[i].actual) \in Int /\ q[i].units \in Int
    BY SMT, PriorIs
  <2>2. hi + belows(q)[i] <= c /\ lo + aboves(q)[i] <= c
    <3> HIDE DEF hi, lo, c
    <3> QED  BY SMT, <1>1, <1>2, <1>3, <1>4, WithinOne
  <2>3. /\ belows(q)[i] = Below(places(q[i].actual), q[i].units)
        /\ aboves(q)[i] = Above(places(q[i].actual), q[i].units)
    BY SMT DEF aboves, belows
  <2>4. /\ hi + Below(places(q[i].actual), q[i].units) <= c
        /\ lo + Above(places(q[i].actual), q[i].units) <= c
    BY Zenon, <2>2, <2>3
  <2> QED  BY Zenon, <1>1, <2>1, <2>4, DifferenceOff
<1> QED  BY SMT, <1>5, <1>6

\* What an event is planned with: its delta is off by 16 places, or re-aims
\* the intervention p at a weighted delta that is.
Aimed(dl, units, p, w, wu, v, x, k) ==
  /\ PriorType(p) /\ -30 <= p.units /\ p.units <= 120
  /\ w \in Limbs /\ wu \in Int /\ -30 <= wu /\ wu <= 120 /\ Off(places(w), wu, 16)
  /\ units = wu - p.units
  /\ places(dl) - (places(w) - places(p.actual)) <= 16
  /\ (places(w) - places(p.actual)) - places(dl) <= 16
  /\ Off(places(p.actual), p.units, Slack(k))
  /\ Off(places(v) - places(p.actual), x - p.units, Slack(k))

\* p is the intervention kept as old, or a new one that takes its place.
Replaces(p, old) ==
  /\ Above(places(p.actual), p.units) <= Above(places(old.actual), old.units)
  /\ Below(places(p.actual), p.units) <= Below(places(old.actual), old.units)

EventOff(e, k, dl, units, w, wu) ==
  /\ e.plan = plan_for64(value, dl) /\ dl \in Limbs
  /\ e.exact = exact_plan(units) /\ units \in Int
  /\ \/ e.prior = NoChange /\ Off(places(dl), units, 16)
     \/ /\ e.prior # NoChange /\ e.intervention \in Interventions
        /\ Aimed(dl, units, e.prior, w, wu, value, exact, k)
        /\ Replaces(e.prior, prior[e.intervention])

LEMMA PriorIsSome ==
  ASSUME NEW p \in [reason : OutcomeReason, actual : Limbs, units : Int]
  PROVE  p # NoChange
<1>1. DOMAIN p = {"reason", "actual", "units"}
  BY SMT
<1>2. ASSUME p = <<>>  PROVE FALSE
  <2>1. DOMAIN p = {}
    BY SMT, <1>2
  <2> QED  BY SMT, <1>1, <2>1
<1> QED  BY SMT, <1>2 DEF NoChange

LEMMA EventsAreOff ==
  ASSUME ValueInv, PriorsType(prior), NEW k, Moves(k), Faithful(value, exact, prior, k),
         NEW e \in events
  PROVE  \E dl, units, w, wu : EventOff(e, k, dl, units, w, wu)
<1>0. name \in Names /\ name \in Attrs /\ value \in Limbs /\ places(value) \in Int /\ exact \in Int
  BY SMT, PrecisionAssumption, LimbsType DEF PrecisionAssumption, ValueInv, InRange
<1>a. /\ Off(places(value), exact, Slack(k)) /\ Slack(k) \in Int /\ 0 <= Slack(k)
      /\ Slack(k) <= 700000000000
  BY SMT, <1>0, FaithfulOff, SlackIs
<1>1. ASSUME NEW i \in Interventions, e \in outcome_events(i)
      PROVE  \E dl, units, w, wu : EventOff(e, k, dl, units, w, wu)
  <2>1. PICK d \in weighted_deltas[name] :
               e = event(d.delta64, d.units, i, [NoPrior EXCEPT !.reason = d.reason])
    BY SMT, <1>1 DEF outcome_events
  <2> DEFINE p == [NoPrior EXCEPT !.reason = d.reason]
  <2>2. /\ d.reason \in OutcomeReason /\ d.delta64 \in Limbs /\ d.units \in Int
        /\ -30 <= d.units /\ d.units <= 120 /\ Off(places(d.delta64), d.units, 16)
    BY SMT, <1>0, WeightedOff
  <2>3. PriorType(p) /\ p.actual = F!ZERO /\ p.units = 0
    <3>1. d.reason \in OutcomeReason
      BY SMT, <2>2
    <3> QED  BY Zenon, <3>1, NoPriorType
  <2>4. /\ e.plan = plan_for64(value, d.delta64) /\ e.exact = exact_plan(d.units)
        /\ e.prior = p /\ e.intervention = i
    BY SMT, <2>1 DEF event
  <2> HIDE DEF p
  <2>5. places(p.actual) = 0 /\ places(d.delta64) \in Int
    BY SMT, <2>2, <2>3, ZeroIs, LimbsType
  <2>6. Off(places(value) - places(p.actual), exact - p.units, Slack(k))
    <3>1. places(value) - places(p.actual) = places(value) /\ exact - p.units = exact
      BY SMT, <1>0, <2>3, <2>5
    <3> QED  BY SMT, <1>a, <3>1
  <2>7. Off(places(p.actual), p.units, Slack(k))
    BY SMT, <1>a, <2>3, <2>5 DEF Off
  <2>8. Aimed(d.delta64, d.units, p, d.delta64, d.units, value, exact, k)
    BY SMT, <2>2, <2>3, <2>5, <2>6, <2>7 DEF Aimed
  <2>9. p # NoChange
    BY SMT, <2>3, PriorIsSome DEF PriorType
  <2>10. Replaces(p, prior[i])
    <3>1. Above(places(p.actual), p.units) = 0 /\ Below(places(p.actual), p.units) = 0
      BY SMT, <2>3, <2>5, AboveBelow
    <3>2. /\ Above(places(prior[i].actual), prior[i].units) \in Nat
          /\ Below(places(prior[i].actual), prior[i].units) \in Nat
      <4>1. places(prior[i].actual) \in Int /\ prior[i].units \in Int
        BY Zenon, PriorIs
      <4> QED  BY Zenon, <4>1, AboveBelow
    <3> QED  BY SMT, <3>1, <3>2 DEF Replaces
  <2>11. EventOff(e, k, d.delta64, d.units, d.delta64, d.units)
    BY SMT, <2>2, <2>4, <2>8, <2>9, <2>10 DEF EventOff
  <2> QED  BY SMT, <2>11
<1>2. CASE e \in unweighted_events
  <2>1. PICK base \in base_deltas[name] : e = event(f64[base], base, NoChange, NoChange)
    BY SMT, <1>2 DEF unweighted_events
  <2>2. base \in Int /\ -120 <= base /\ base <= 120
    <3>1. base \in {hippocampus_base_deltas(r)[name] : r \in HippocampusReason}
                     \cup {sensor_base_deltas(r)[name] : r \in SensorReason}
      BY SMT, <1>0, <2>1 DEF base_deltas
    <3> QED  BY SMT, <1>0, <3>1, RowsAre
  <2>3. f64[base] \in Limbs /\ Off(places(f64[base]), base, 16)
    BY SMT, <2>2, F64Off
  <2>4. /\ e.plan = plan_for64(value, f64[base]) /\ e.exact = exact_plan(base)
        /\ e.prior = NoChange
    BY SMT, <2>1 DEF event
  <2>5. EventOff(e, k, f64[base], base, F!ZERO, 0)
    BY SMT, <2>2, <2>3, <2>4 DEF EventOff
  <2> QED  BY SMT, <2>5
<1>3. ASSUME NEW i \in Interventions, e \in revision_events(i)
      PROVE  \E dl, units, w, wu : EventOff(e, k, dl, units, w, wu)
  <2>1. PICK d \in weighted_deltas[name] :
               e = event(F!sub(d.delta64, prior[i].actual), d.units - prior[i].units, i,
                         [prior[i] EXCEPT !.reason = d.reason])
    BY SMT, <1>3 DEF revision_events
  <2> DEFINE old == prior[i]
             p == [old EXCEPT !.reason = d.reason]
             dl == F!sub(d.delta64, old.actual)
             units == d.units - old.units
  <2>2. /\ d.reason \in OutcomeReason /\ d.delta64 \in Limbs /\ d.units \in Int
        /\ -30 <= d.units /\ d.units <= 120 /\ Off(places(d.delta64), d.units, 16)
    BY SMT, <1>0, WeightedOff
  <2>3. /\ old \in [reason : OutcomeReason, actual : Limbs, units : Int]
        /\ ActualType(old.actual) /\ old.actual \in Limbs /\ old.units \in Int
        /\ -120 <= old.units /\ old.units <= 120
    BY SMT DEF PriorsType, PriorType, ActualType
  <2>4. /\ p \in [reason : OutcomeReason, actual : Limbs, units : Int]
        /\ p.actual = old.actual /\ p.units = old.units
    BY SMT, <2>2, <2>3
  <2>5. PriorType(p) /\ p # NoChange
    BY SMT, <2>3, <2>4, PriorIsSome DEF PriorType
  <2>6. /\ e.plan = plan_for64(value, dl) /\ e.exact = exact_plan(units)
        /\ e.prior = p /\ e.intervention = i
    BY SMT, <2>1 DEF event
  <2>7. dl \in Limbs /\ Close(places(dl), places(d.delta64) - places(old.actual))
    BY SMT, <2>2, <2>3, SumClose
  <2>8. /\ Off(places(old.actual), old.units, Slack(k))
        /\ Off(places(value) - places(old.actual), exact - old.units, Slack(k))
        /\ -30 <= old.units /\ old.units <= 120
    BY SMT, <1>0, FaithfulOff DEF Faithful
  <2> HIDE DEF p, dl, old
  <2>9. places(d.delta64) \in Int /\ places(old.actual) \in Int /\ places(dl) \in Int
    BY SMT, <2>2, <2>3, <2>7, LimbsType
  <2>10. /\ -288230376151711744 < places(d.delta64) - places(old.actual)
         /\ places(d.delta64) - places(old.actual) < 288230376151711744
    BY SMT, <1>a, <2>2, <2>3, <2>8, <2>9 DEF Off
  <2>11. /\ places(dl) - (places(d.delta64) - places(old.actual)) <= 16
         /\ (places(d.delta64) - places(old.actual)) - places(dl) <= 16
    BY SMT, <2>7, <2>10 DEF Close
  <2>12. Aimed(dl, units, p, d.delta64, d.units, value, exact, k)
    BY SMT, <2>2, <2>4, <2>5, <2>8, <2>11 DEF Aimed
  <2>13. units \in Int
    BY SMT, <2>2, <2>3
  <2>14. Replaces(p, prior[i])
    <3>1. Replaces(p, old)
      <4>1. Above(places(p.actual), p.units) \in Nat /\ Below(places(p.actual), p.units) \in Nat
        BY SMT, <2>3, <2>4, <2>9, AboveBelow
      <4> QED  BY SMT, <2>4, <4>1 DEF Replaces
    <3> QED  BY SMT, <3>1 DEF old
  <2> HIDE DEF units
  <2>15. EventOff(e, k, dl, units, d.delta64, d.units)
    BY SMT, <2>5, <2>6, <2>7, <2>12, <2>13, <2>14 DEF EventOff
  <2> QED  BY SMT, <2>15
<1> QED  BY Zenon, <1>1, <1>2, <1>3, EventIs

\* The sum that re-aims an intervention.
LEMMA AimedOff ==
  ASSUME NEW v \in Limbs, NEW x \in Int, NEW k, Moves(k),
         NEW dl \in Limbs, NEW units, NEW p, NEW w, NEW wu,
         Aimed(dl, units, p, w, wu, v, x, k)
  PROVE  Off(places(v) + places(dl), x + units, Slack(k) + 32)
<1>1. places(v) \in Int /\ places(dl) \in Int /\ Slack(k) \in Int /\ 0 <= Slack(k)
  BY SMT, LimbsType, SlackIs
<1>2. /\ p.actual \in Limbs /\ p.units \in Int /\ w \in Limbs /\ wu \in Int
      /\ Off(places(w), wu, 16) /\ units = wu - p.units
      /\ places(dl) - (places(w) - places(p.actual)) <= 16
      /\ (places(w) - places(p.actual)) - places(dl) <= 16
      /\ Off(places(v) - places(p.actual), x - p.units, Slack(k))
  BY SMT DEF Aimed, PriorType
<1>3. places(p.actual) \in Int /\ places(w) \in Int
  BY SMT, <1>2, LimbsType
<1> QED  BY SMT, <1>1, <1>2, <1>3 DEF Off

\* A move that belongs to no intervention.
LEMMA PlainStep ==
  ASSUME NEW v \in Limbs, NEW x \in Int, NEW q, PriorsType(q), NEW k, Moves(k),
         Faithful(v, x, q, k),
         NEW dl \in Limbs, NEW units \in Int, Off(places(dl), units, 16),
         NEW n \in Limbs, NEW xn \in Int, Moved(places(n), places(v) + places(dl), x + units, xn),
         NEW j, Moves(j), k + 1 <= j
  PROVE  Faithful(n, xn, q, j)
<1> DEFINE hi == Above(places(v), x)
           lo == Below(places(v), x)
           hin == Above(places(n), xn)
           lon == Below(places(n), xn)
           b == 400 * Slack(k)
           c == 400 * Slack(j)
<1>1. places(v) \in Int /\ places(dl) \in Int /\ places(n) \in Int
  BY SMT, LimbsType
<1>2. b \in Int /\ c \in Int /\ 38400 <= c - b /\ j # 0
  BY SMT, SlackIs DEF Moves
<1>3. hi \in Nat /\ lo \in Nat /\ hin \in Nat /\ lon \in Nat
  BY SMT, <1>1, AboveBelow
<1>4. hin <= hi + 38400 /\ lon <= lo + 38400
  <2>1. PlainMove(places(v), x, places(dl), units, places(n), xn)
    BY SMT, <1>1 DEF PlainMove
  <2> QED  BY SMT, <2>1, PlainArith
<1>5. aboves(q) \in [Interventions -> Nat] /\ belows(q) \in [Interventions -> Nat]
  BY SMT, ErrorsType
<1>6. Within(hi, belows(q), b) /\ Within(lo, aboves(q), b)
  BY SMT DEF Faithful
<1>7. Within(hin, belows(q), c) /\ Within(lon, aboves(q), c)
  <2> HIDE DEF hi, lo, hin, lon, b, c
  <2>1. hin - hi <= c - b /\ lon - lo <= c - b
    BY SMT, <1>2, <1>3, <1>4
  <2> QED  BY SMT, <1>2, <1>3, <1>5, <1>6, <2>1, WithinMore
<1> QED  BY SMT, <1>2, <1>7 DEF Faithful

\* A move of the intervention i, first or revised; qn is what is kept then.
LEMMA AimedStep ==
  ASSUME NEW v \in Limbs, NEW x \in Int, 0 <= x, x <= 400,
         NEW q, PriorsType(q), NEW k, Moves(k), Faithful(v, x, q, k),
         NEW dl \in Limbs, NEW units \in Int, NEW p, NEW w, NEW wu,
         Aimed(dl, units, p, w, wu, v, x, k), NEW i \in Interventions, Replaces(p, q[i]),
         NEW n \in Limbs, NEW xn, xn = Kept(x + units),
         Moved(places(n), places(v) + places(dl), x + units, xn),
         NEW j, Moves(j), k + 1 <= j,
         NEW qn, PriorsType(qn), \A h \in Interventions \ {i} : qn[h] = q[h],
         qn[i].actual = F!add(p.actual, F!sub(n, v)), qn[i].units = p.units + (xn - x)
  PROVE  Faithful(n, xn, qn, j)
<1> DEFINE s == F!sub(n, v)
           a == qn[i].actual
           m == qn[i].units
           hi == Above(places(v), x)
           lo == Below(places(v), x)
           hin == Above(places(n), xn)
           lon == Below(places(n), xn)
           b == 400 * Slack(k)
           c == 400 * Slack(j)
<1>1. /\ p.actual \in Limbs /\ p.units \in Int /\ w \in Limbs /\ wu \in Int
      /\ -30 <= p.units /\ p.units <= 120 /\ -30 <= wu /\ wu <= 120
      /\ Off(places(w), wu, 16) /\ units = wu - p.units
      /\ places(dl) - (places(w) - places(p.actual)) <= 16
      /\ (places(w) - places(p.actual)) - places(dl) <= 16
      /\ Off(places(p.actual), p.units, Slack(k))
  BY SMT DEF Aimed, PriorType
<1>2. s \in Limbs /\ Close(places(s), places(n) - places(v))
  BY SMT, SumClose
<1>3. a = F!add(p.actual, s)
  BY SMT
<1> HIDE DEF s
<1>4. a \in Limbs /\ Close(places(a), places(p.actual) + places(s))
  BY SMT, <1>1, <1>2, <1>3, SumClose
<1>5. m = p.units + (xn - x)
  BY SMT
<1>6. /\ places(v) \in Int /\ places(dl) \in Int /\ places(n) \in Int /\ places(w) \in Int
      /\ places(p.actual) \in Int /\ places(s) \in Int /\ places(a) \in Int /\ xn \in Int
  BY SMT, <1>1, <1>2, <1>4, LimbsType DEF Kept
<1>7. /\ Slack(k) \in Int /\ 0 <= Slack(k) /\ Slack(k) <= 700000000000
      /\ b \in Int /\ c \in Int /\ 38400 <= c - b /\ j # 0
  BY SMT, SlackIs DEF Moves
<1>8. Off(places(v), x, Slack(k))
  BY SMT, FaithfulOff
<1>9. Moved(places(n), places(v) + places(dl), x + (wu - p.units), xn) /\ xn = Kept(x + (wu - p.units))
  BY SMT, <1>1
<1>10. AimedMove(places(v), x, places(dl), places(p.actual), p.units, places(w), wu,
                 places(n), xn, Slack(k))
  BY SMT, <1>1, <1>6, <1>7, <1>8, <1>9 DEF AimedMove
<1> HIDE DEF a, m
<1>11. /\ m \in Int /\ -30 <= m /\ m <= 120
       /\ hin + Below(places(a), m) <= hi + Below(places(p.actual), p.units) + 38400
       /\ lon + Above(places(a), m) <= lo + Above(places(p.actual), p.units) + 38400
  BY SMT, <1>2, <1>4, <1>5, <1>6, <1>10, AimedArith
<1>12. hi \in Nat /\ lo \in Nat /\ hin \in Nat /\ lon \in Nat
  BY SMT, <1>6, AboveBelow
<1>13. /\ aboves(q) \in [Interventions -> Nat] /\ belows(q) \in [Interventions -> Nat]
       /\ aboves(qn) \in [Interventions -> Nat] /\ belows(qn) \in [Interventions -> Nat]
  BY SMT, ErrorsType
<1>14. Within(hi, belows(q), b) /\ Within(lo, aboves(q), b)
  BY SMT DEF Faithful
<1>15. \A h \in Interventions \ {i} : aboves(qn)[h] = aboves(q)[h] /\ belows(qn)[h] = belows(q)[h]
  BY SMT DEF aboves, belows
<1>16. /\ hin + belows(qn)[i] <= hi + belows(q)[i] + 38400
       /\ lon + aboves(qn)[i] <= lo + aboves(q)[i] + 38400
  <2>1. /\ belows(qn)[i] = Below(places(a), m) /\ aboves(qn)[i] = Above(places(a), m)
    BY SMT DEF aboves, belows, a, m
  <2>2. /\ Below(places(p.actual), p.units) <= belows(q)[i]
        /\ Above(places(p.actual), p.units) <= aboves(q)[i]
    BY SMT DEF aboves, belows, Replaces
  <2>3. /\ Below(places(p.actual), p.units) \in Nat /\ Above(places(p.actual), p.units) \in Nat
        /\ belows(q)[i] \in Nat /\ aboves(q)[i] \in Nat
        /\ belows(qn)[i] \in Nat /\ aboves(qn)[i] \in Nat
    <3>1. p.units \in Int /\ places(p.actual) \in Int
      BY Zenon, <1>1, <1>6
    <3> QED  BY Zenon, <1>13, <3>1, AboveBelow
  <2> HIDE DEF hi, lo, hin, lon
  <2> QED  BY SMT, <1>11, <1>12, <2>1, <2>2, <2>3
<1>17. Within(hin, belows(qn), c) /\ Within(lon, aboves(qn), c)
  <2>1. belows(q)[i] \in Nat /\ aboves(q)[i] \in Nat /\ belows(qn)[i] \in Nat /\ aboves(qn)[i] \in Nat
    BY SMT, <1>13
  <2> HIDE DEF hi, lo, hin, lon, b, c
  <2>2. /\ (hin + belows(qn)[i]) - (hi + belows(q)[i]) <= c - b
        /\ (lon + aboves(qn)[i]) - (lo + aboves(q)[i]) <= c - b
    BY SMT, <1>7, <1>12, <1>16, <2>1
  <2>3. b \in Int /\ c \in Int
    BY SMT, <1>7
  <2> QED  BY Zenon, <1>12, <1>13, <1>14, <1>15, <2>2, <2>3, WithinChange
<1>18. \A h \in Interventions : -30 <= qn[h].units /\ qn[h].units <= 120
  BY SMT, <1>11 DEF Faithful, m
<1> QED  BY SMT, <1>7, <1>17, <1>18 DEF Faithful

LEMMA F64Edges ==
  /\ f64[0] \in Limbs /\ places(f64[0]) = 0
  /\ f64[400] \in Limbs /\ places(f64[400]) = 576460752303423488
<1>1. ONE = 400 /\ 0 \in -ONE..ONE /\ 400 \in -ONE..ONE
  BY SMT DEF ONE
<1>2. f64[0] = F!literal(0, ONE) /\ f64[400] = F!literal(400, ONE)
  BY SMT, <1>1 DEF f64
<1>3. F!literal(0, 400) = F!nearest(<<0, 0>>, 0, 400)
  BY SMT DEF F!literal
<1>4. F!nearest(<<0, 0>>, 0, 400) = <<0, 0>>
  BY SMT DEF F!nearest, F!ulp
<1>5. F!literal(400, 400) = F!nearest(<<536870912, 0>>, 0, 400)
  BY SMT DEF F!literal
<1>6. F!nearest(<<536870912, 0>>, 0, 400) = <<536870912, 0>>
  BY SMT DEF F!nearest, F!ulp
<1>7. f64[0] = F!ZERO /\ f64[400] = F!ONE
  <2>1. F!ONE = <<536870912, 0>> /\ F!ZERO = <<0, 0>>
    BY SMT DEF F!ONE, F!ZERO
  <2> QED  BY SMT, <1>1, <1>2, <1>3, <1>4, <1>5, <1>6, <2>1
<1> QED  BY SMT, <1>7, ZeroIs, OneIs

LEMMA MovesAre ==
  ASSUME NEW l \in Int, 0 <= l, l <= I32_MAX, NEW d \in Nat, NEW n \in Names, d <= MaxDecays[n],
         Lifetime
  PROVE  Moves(l + d)
<1>1. I32_MAX \in Int /\ MaxDecays[n] \in Int
  BY SMT, I32MaxIs, PrecisionAssumption DEF PrecisionAssumption
<1>2. I32_MAX <= 2147483647 /\ MaxDecays[n] <= 4294967296
  BY SMT DEF Lifetime
<1> QED  BY SMT, <1>1, <1>2 DEF Moves

\* The sum that the plan of an event rounds.
LEMMA EventSum ==
  ASSUME value \in Limbs, exact \in Int, PriorsType(prior), NEW k, Moves(k), Faithful(value, exact, prior, k),
         NEW e, NEW dl, NEW units, NEW w, NEW wu, EventOff(e, k, dl, units, w, wu)
  PROVE  Off(places(value) + places(dl), exact + units, Slack(k) + 32)
<1>1. dl \in Limbs /\ units \in Int /\ Off(places(value), exact, Slack(k))
  BY SMT, FaithfulOff DEF EventOff
<1>2. CASE Off(places(dl), units, 16)
  <2>1. places(value) \in Int /\ places(dl) \in Int /\ Slack(k) \in Int
    BY SMT, <1>1, LimbsType, SlackIs
  <2> QED  BY SMT, <1>1, <1>2, <2>1 DEF Off
<1>3. CASE Aimed(dl, units, e.prior, w, wu, value, exact, k)
  BY SMT, <1>1, <1>3, AimedOff
<1> QED  BY SMT, <1>2, <1>3 DEF EventOff

\* What Move makes of value, exact and prior.
LEMMA MoveOff ==
  ASSUME ValueInv, PriorsType(prior), PriorsType(prior'), name' = name,
         NEW k, Moves(k), Faithful(value, exact, prior, k), NEW j, Moves(j), k + 1 <= j,
         NEW e, NEW dl, NEW units, NEW w, NEW wu, EventOff(e, k, dl, units, w, wu),
         validate64(e.plan.new_value), Move(e)
  PROVE  Faithful(value', exact', prior', j)
<1>1. /\ e.plan = plan_for64(value, dl) /\ dl \in Limbs
      /\ e.exact = exact_plan(units) /\ units \in Int
  BY SMT DEF EventOff
<1>2. value \in Limbs /\ exact \in Int /\ 0 <= exact /\ exact <= 400 /\ name \in Names
  BY SMT DEF ValueInv, InRange
<1> DEFINE n == e.plan.new_value
           x == exact + units
           s == places(value) + places(dl)
           b == Slack(k) + 32
<1>3. value' = n /\ exact' = e.exact.new_value
  BY SMT DEF Move
<1>4. exact' = Kept(x)
  BY SMT, <1>1, <1>2, <1>3, ExactCaps
<1>5. Off(s, x, b) /\ b \in Int /\ b <= 1000000000000
  BY SMT, <1>1, <1>2, EventSum, SlackIs
<1>6. n \in Limbs /\ Moved(places(n), s, x, Kept(x))
  <2>1. validate64(plan_for64(value, dl).new_value) /\ x \in Int /\ SumOff(value, dl, x)
    BY SMT, <1>1, <1>2, <1>5 DEF SumOff
  <2> HIDE DEF x
  <2>2. n \in Limbs /\ Stored(n, value, dl, x)
    BY SMT, <1>1, <1>2, <2>1, PlanOff
  <2> QED  BY SMT, <2>2 DEF Stored
<1>7. exact' \in Int
  BY SMT, <1>1, <1>2, <1>4 DEF Kept
<1>8. prior' = [h \in Interventions |->
                 IF e.prior = NoChange \/ h # e.intervention THEN prior[h]
                 ELSE [e.prior EXCEPT !.actual = F!add(@, F!sub(e.plan.new_value, value)),
                                      !.units  = @ + (e.exact.new_value - exact)]]
  BY SMT DEF Move
<1>9. CASE e.prior = NoChange
  <2>1. prior' = prior
    BY SMT, <1>8, <1>9 DEF PriorsType
  <2>2. Off(places(dl), units, 16)
    BY SMT, <1>9 DEF EventOff
  <2>3. Moved(places(n), places(value) + places(dl), exact + units, exact')
    BY SMT, <1>4, <1>6
  <2> HIDE DEF n
  <2>4. Faithful(n, exact', prior, j)
    BY SMT, <1>1, <1>2, <1>6, <1>7, <2>2, <2>3, PlainStep
  <2> QED  BY SMT, <1>3, <2>1, <2>4
<1>10. CASE e.prior # NoChange
  <2> DEFINE p == e.prior
             i == e.intervention
             a == F!add(p.actual, F!sub(n, value))
             m == p.units + (exact' - exact)
  <2>1. Aimed(dl, units, p, w, wu, value, exact, k) /\ i \in Interventions /\ Replaces(p, prior[i])
    BY SMT, <1>10 DEF EventOff
  <2>2. prior'[i] = [p EXCEPT !.actual = a, !.units = m]
    <3>1. prior'[i] = [e.prior EXCEPT !.actual = F!add(@, F!sub(e.plan.new_value, value)),
                                      !.units  = @ + (e.exact.new_value - exact)]
      BY Zenon, <1>8, <1>10, <2>1
    <3> QED  BY Zenon, <1>3, <3>1
  <2>3. \A h \in Interventions \ {i} : prior'[h] = prior[h]
    BY SMT, <1>8
  <2> HIDE DEF n, p, i
  <2>4. p \in [reason : OutcomeReason, actual : Limbs, units : Int]
    BY SMT, <2>1 DEF Aimed, PriorType
  <2>5. p.actual \in Limbs /\ p.units \in Int
    BY SMT, <2>4
  <2>6. a \in Limbs /\ m \in Int
    BY SMT, <1>2, <1>6, <1>7, <2>5, SumClose
  <2>7. prior'[i].actual = a /\ prior'[i].units = m
    <3> HIDE DEF a, m
    <3> QED  BY Zenon, <2>2, <2>4, <2>6, PriorUpdate
  <2>8. Moved(places(n), places(value) + places(dl), exact + units, exact') /\ exact' = Kept(exact + units)
    BY SMT, <1>4, <1>6
  <2>9. Faithful(n, exact', prior', j)
    BY SMT, <1>1, <1>2, <1>6, <2>1, <2>3, <2>7, <2>8, AimedStep
  <2> QED  BY SMT, <1>3, <2>9
<1> QED  BY SMT, <1>9, <1>10

LEMMA DecayMoveOff ==
  ASSUME ValueInv, PriorsType(prior), name' = name,
         NEW k, Moves(k), Faithful(value, exact, prior, k), NEW j, Moves(j), k + 1 <= j,
         Move(maintenance_event)
  PROVE  Faithful(value', exact', prior', j)
<1>1. /\ maintenance_event.plan = dispatch_maintenance64(value)
      /\ maintenance_event.exact = exact_plan(DECAY_DELTA)
      /\ maintenance_event.prior = NoChange
  BY Zenon DEF maintenance_event
<1>2. /\ value' = dispatch_maintenance64(value).new_value
      /\ exact' = exact_plan(DECAY_DELTA).new_value
      /\ prior' = prior
  <2>1. prior' = [i \in Interventions |-> prior[i]]
    BY Zenon, <1>1 DEF Move
  <2> QED  BY Zenon, <1>1, <2>1 DEF Move, PriorsType
<1>3. /\ InRange(value) /\ value \in Limbs /\ name \in Names
      /\ exact \in Int /\ 0 <= exact /\ exact <= 400
  BY SMT DEF ValueInv, InRange
<1> DEFINE dl == f64[DECAY_DELTA]
           x == exact + DECAY_DELTA
           s == places(value) + places(dl)
           b == Slack(k) + 32
           n == dispatch_maintenance64(value).new_value
<1>4. DECAY_DELTA = -4 /\ DECAY_DELTA \in Int /\ x \in Int /\ x <= 400
  BY SMT, <1>3 DEF DECAY_DELTA
<1>5. dl \in Limbs /\ Off(places(dl), DECAY_DELTA, 16)
  BY SMT, <1>4, F64Off
<1>6. Off(s, x, b) /\ b \in Int /\ b <= 1000000000000
  <2>1. places(value) \in Int /\ places(dl) \in Int /\ Slack(k) \in Int /\ Slack(k) <= 700000000000
    BY SMT, <1>3, <1>5, LimbsType, SlackIs
  <2>2. Off(places(value), exact, Slack(k))
    BY SMT, <1>3, FaithfulOff
  <2> HIDE DEF dl
  <2> QED  BY SMT, <1>3, <1>4, <1>5, <2>1, <2>2 DEF Off
<1>7. n \in Limbs
  BY SMT, <1>3, DecayIs DEF InRange
<1>8. Moved(places(n), s, x, Kept(x))
  <2>1. SumOff(value, dl, x) /\ dl = f64[DECAY_DELTA]
    BY SMT, <1>6 DEF SumOff
  <2> HIDE DEF x, dl
  <2>2. Stored(n, value, dl, x)
    BY SMT, <1>3, <1>4, <2>1, DecayOff
  <2> QED  BY SMT, <2>2 DEF Stored
<1>9. exact' = Kept(x)
  BY SMT, <1>2, <1>3, <1>4, ExactCaps
<1>10. Moved(places(n), places(value) + places(dl), exact + DECAY_DELTA, exact') /\ exact' \in Int
  BY SMT, <1>4, <1>8, <1>9 DEF Kept
<1> HIDE DEF n, dl
<1>11. Faithful(n, exact', prior, j)
  BY SMT, <1>3, <1>4, <1>5, <1>7, <1>10, PlainStep
<1> QED  BY SMT, <1>2, <1>11 DEF n

FaithInv == PrecisionInv /\ Faithful(value, exact, prior, moves)

LEMMA FaithMoves ==
  ASSUME Lifetime, PrecisionInv
  PROVE  Moves(moves) /\ moves = last_seq + decays
<1>1. /\ last_seq \in Int /\ 0 <= last_seq /\ last_seq <= I32_MAX
      /\ decays \in Nat /\ decays <= MaxDecays[name] /\ name \in Names
  BY SMT DEF PrecisionInv, SeqInv, DecayCount, ValueInv
<1> QED  BY SMT, <1>1, MovesAre DEF moves

LEMMA FaithStep ==
  ASSUME Lifetime, FaithInv, [Next]_vars
  PROVE  FaithInv'
<1>0. /\ PrecisionInv /\ ValueInv /\ PriorsType(prior) /\ SeqInv /\ DecayCount
      /\ Faithful(value, exact, prior, moves)
  BY SMT DEF FaithInv, PrecisionInv
<1>1. PrecisionInv' /\ PriorsType(prior')
  <2>1. PrecisionInv'
    BY SMT, <1>0, PrecisionStep
  <2> QED  BY SMT, <2>1 DEF PrecisionInv, PriorsType
<1> DEFINE k == moves
           j == moves'
<1>2. Moves(k) /\ k = last_seq + decays
  BY SMT, <1>0, FaithMoves
<1>3. Moves(j) /\ j = last_seq' + decays'
  <2>1. /\ last_seq' \in Int /\ 0 <= last_seq' /\ last_seq' <= I32_MAX
        /\ decays' \in Nat /\ decays' <= MaxDecays[name'] /\ name' \in Names
    BY SMT, <1>1 DEF PrecisionInv, SeqInv, DecayCount, ValueInv
  <2> QED  BY SMT, <2>1, MovesAre DEF moves
<1>4. last_seq \in Int /\ decays \in Int /\ last_seq' \in Int /\ decays' \in Int
  BY SMT, <1>0, <1>1 DEF PrecisionInv, SeqInv, DecayCount
<1> HIDE DEF k, j
<1>5. ASSUME NEW e \in events, Emit(e)
      PROVE  Faithful(value', exact', prior', j)
  <2>1. /\ Move(e) /\ validate64(e.plan.new_value) /\ name' = name /\ decays' = decays
        /\ last_seq' = saturating_add(inner) /\ saturating_add(inner) # last_seq
    BY SMT, <1>5 DEF Emit, insert_accepts
  <2>2. k + 1 <= j
    <3>1. last_seq < last_seq'
      BY SMT, <1>0, <2>1, SeqStep
    <3> QED  BY SMT, <1>2, <1>3, <1>4, <2>1, <3>1
  <2>3. Faithful(value, exact, prior, k)
    BY SMT, <1>0 DEF k
  <2>4. \E dl, units, w, wu : EventOff(e, k, dl, units, w, wu)
    BY SMT, <1>0, <1>2, <2>3, EventsAreOff
  <2>5. PICK dl, units, w, wu : EventOff(e, k, dl, units, w, wu)
    BY SMT, <2>4
  <2> QED  BY SMT, <1>0, <1>1, <1>2, <1>3, <2>1, <2>2, <2>3, <2>5, MoveOff
<1>6. ASSUME Decay
      PROVE  Faithful(value', exact', prior', j)
  <2>1. Move(maintenance_event) /\ name' = name /\ decays' = decays + 1 /\ last_seq' = last_seq
    BY SMT, <1>6 DEF Decay
  <2>2. k + 1 <= j
    BY SMT, <1>2, <1>3, <1>4, <2>1
  <2>3. Faithful(value, exact, prior, k)
    BY SMT, <1>0 DEF k
  <2> QED  BY SMT, <1>0, <1>2, <1>3, <2>1, <2>2, <2>3, DecayMoveOff
<1>7. ASSUME (\E e \in events : EmitRefused(e)) \/ NextPanics \/ UNCHANGED vars
      PROVE  Faithful(value', exact', prior', j)
  <2>1. UNCHANGED <<value, exact, prior, last_seq, decays>>
    BY SMT, <1>7 DEF EmitRefused, NextPanics, vars
  <2>2. j = k
    BY SMT, <1>2, <1>3, <2>1
  <2>3. Faithful(value, exact, prior, k)
    BY SMT, <1>0 DEF k
  <2> QED  BY SMT, <2>1, <2>2, <2>3
<1>8. Faithful(value', exact', prior', j)
  BY SMT, <1>5, <1>6, <1>7 DEF Next
<1>9. (Faithful(value, exact, prior, moves))'
  BY SMT, <1>8 DEF j, Faithful, aboves, belows, Within, Marks
<1> QED  BY SMT, <1>1, <1>9 DEF FaithInv

LEMMA FaithInit == Init => FaithInv
<1> SUFFICES ASSUME Init  PROVE FaithInv
  BY SMT
<1>1. /\ value = F!ZERO /\ exact = 0 /\ last_seq = 0 /\ decays = 0
      /\ prior = [i \in Interventions |-> NoPrior]
  BY SMT DEF Init
<1>2. PrecisionInv /\ PriorsType(prior)
  BY SMT, PrecisionInit DEF PrecisionInv
<1>3. moves = 0
  BY SMT, <1>1 DEF moves
<1>4. places(value) = 0 /\ places(F!ZERO) = 0
  BY SMT, <1>1, ZeroIs
<1>5. Above(0, 0) = 0 /\ Below(0, 0) = 0
  BY SMT, AboveBelow
<1>6. ASSUME NEW i \in Interventions
      PROVE  aboves(prior)[i] = 0 /\ belows(prior)[i] = 0 /\ prior[i].units = 0
  <2>1. prior[i].actual = F!ZERO /\ prior[i].units = 0
    BY SMT, <1>1 DEF NoPrior
  <2> QED  BY SMT, <1>4, <1>5, <2>1 DEF aboves, belows
<1>7. aboves(prior) \in [Interventions -> Nat] /\ belows(prior) \in [Interventions -> Nat]
  BY SMT, <1>2, ErrorsType
<1>8. Within(0, aboves(prior), 0) /\ Within(0, belows(prior), 0)
  BY SMT, <1>6, <1>7, WithinZero
<1>9. 400 * Slack(0) = 0
  BY SMT DEF Slack
<1>10. Faithful(value, exact, prior, 0)
  BY SMT, <1>1, <1>4, <1>5, <1>6, <1>8, <1>9 DEF Faithful
<1> QED  BY SMT, <1>2, <1>3, <1>10 DEF FaithInv

LEMMA EpsilonsAre ==
  ASSUME NEW k \in Int, 0 <= k
  PROVE  epsilons(k) \in Limbs /\ places(epsilons(k)) = 128 * k
<1> DEFINE a == k \div 8388608
           r == k % 8388608
           c == r * 128
<1>1. a \in Int /\ r \in Int /\ 0 <= r /\ r < 8388608 /\ k = a * 8388608 + r
  BY SMT
<1>2. epsilons(k) = <<a, c>>
  BY SMT DEF epsilons
<1> HIDE DEF a, r
<1>3. c \in Int /\ 0 <= c /\ c < 1073741824 /\ c = r * 128
  BY SMT, <1>1
<1> HIDE DEF c
<1>4. <<a, c>> \in Limbs /\ places(<<a, c>>) = a * 1073741824 + c
  BY SMT, <1>1, <1>3, LimbsMember
<1> QED  BY SMT, <1>1, <1>2, <1>3, <1>4

\* The size of a difference of numbers of places.
LEMMA DistanceIs ==
  ASSUME NEW x \in Limbs, NEW y \in Limbs, NEW d \in Limbs
  PROVE  ~F!less(d, F!abs(F!plus(x, F!negate(y))))
           <=> places(x) - places(y) <= places(d) /\ places(y) - places(x) <= places(d)
<1> DEFINE z == F!negate(y)
           q == F!plus(x, z)
           a == F!abs(q)
<1>1. z \in Limbs /\ places(z) = -places(y)
  BY SMT, NegateIs
<1> HIDE DEF z
<1>2. q \in Limbs /\ places(q) = places(x) + places(z)
  BY SMT, <1>1, PlusIs
<1> HIDE DEF q
<1>3. a \in Limbs /\ places(a) = IF places(q) < 0 THEN -places(q) ELSE places(q)
  BY SMT, <1>2, AbsIs
<1> HIDE DEF a
<1>4. F!less(d, a) <=> places(d) < places(a)
  BY SMT, <1>3, LessIs
<1>5. places(x) \in Int /\ places(y) \in Int /\ places(d) \in Int /\ places(a) \in Int /\ places(q) \in Int
  BY SMT, <1>2, <1>3, LimbsType
<1>6. ~F!less(d, a) <=> places(x) - places(y) <= places(d) /\ places(y) - places(x) <= places(d)
  BY SMT, <1>1, <1>2, <1>3, <1>4, <1>5
<1> QED  BY SMT, <1>6 DEF a, q, z

LEMMA NearIs ==
  ASSUME NEW v \in Limbs, NEW x \in Int, 0 <= x, x <= 400, NEW k \in Int, 0 <= k,
         Off(places(v), x, Slack(k)), k = 0 => x = 0
  PROVE  near(v, x, k)
<1> DEFINE f == f64[x]
           h == epsilons(k)
<1>1. f \in Limbs /\ Off(places(f), x, 32) /\ (x = 0 => places(f) = 0)
  BY SMT, F64Off, F64Edges
<1>2. h \in Limbs /\ places(h) = 128 * k
  BY SMT, EpsilonsAre
<1> HIDE DEF f, h
<1>3. places(v) \in Int /\ places(f) \in Int
  BY SMT, <1>1, LimbsType
<1>4. places(v) - places(f) <= 128 * k /\ places(f) - places(v) <= 128 * k
  <2>1. CASE k = 0
    <3>1. Off(places(v), 0, 0)
      BY SMT, <2>1 DEF Slack
    <3>2. places(v) = 0
      BY SMT, <1>3, <3>1 DEF Off
    <3> QED  BY SMT, <1>1, <2>1, <3>2
  <2>2. CASE k # 0
    <3>1. Off(places(v), x, 96 * k)
      BY SMT DEF Slack
    <3>2. /\ 400 * places(v) - x * 576460752303423488 <= 38400 * k
          /\ x * 576460752303423488 - 400 * places(v) <= 38400 * k
      BY SMT, <1>3, <3>1 DEF Off
    <3>3. /\ 400 * places(f) - x * 576460752303423488 <= 12800
          /\ x * 576460752303423488 - 400 * places(f) <= 12800
      BY SMT, <1>1, <1>3 DEF Off
    <3>4. 12800 <= 12800 * k
      BY SMT, <2>2
    <3> QED  BY SMT, <1>3, <3>2, <3>3, <3>4
  <2> QED  BY SMT, <2>1, <2>2
<1>5. near(v, x, k) <=> ~F!less(h, F!abs(F!plus(v, F!negate(f))))
  BY SMT DEF near, h, f
<1> QED  BY SMT, <1>1, <1>2, <1>4, <1>5, DistanceIs

\* What the events plan, in units and in places.
LEMMA EventPlans ==
  ASSUME Lifetime, FaithInv, NEW e \in events
  PROVE  \E dl \in Limbs : \E units \in Int :
           /\ e.plan = plan_for64(value, dl) /\ e.exact = exact_plan(units)
           /\ SumOff(value, dl, exact + units)
<1>0. /\ PrecisionInv /\ ValueInv /\ PriorsType(prior) /\ Faithful(value, exact, prior, moves)
      /\ value \in Limbs /\ exact \in Int
  BY SMT DEF FaithInv, PrecisionInv, ValueInv, InRange
<1> DEFINE k == moves
<1>1. Moves(k) /\ Faithful(value, exact, prior, k)
  BY SMT, <1>0, FaithMoves
<1> HIDE DEF k
<1>2. \E dl, units, w, wu : EventOff(e, k, dl, units, w, wu)
  BY SMT, <1>0, <1>1, EventsAreOff
<1>3. PICK dl, units, w, wu : EventOff(e, k, dl, units, w, wu)
  BY SMT, <1>2
<1>4. Off(places(value) + places(dl), exact + units, Slack(k) + 32)
  BY SMT, <1>0, <1>1, <1>3, EventSum
<1>5. Slack(k) + 32 \in Int /\ Slack(k) + 32 <= 1000000000000
  BY SMT, <1>1, SlackIs
<1>6. SumOff(value, dl, exact + units)
  BY SMT, <1>4, <1>5 DEF SumOff
<1> QED  BY SMT, <1>3, <1>6 DEF EventOff

LEMMA EdgeUnits ==
  ASSUME NEW x \in Int, x = 0 \/ x = 400
  PROVE  Kept(x) = x /\ Caps(x) = {} /\ Kept(x) \in {0, ONE}
<1>1. ONE = 400
  BY SMT DEF ONE
<1> QED  BY SMT, <1>1 DEF Kept, Caps

(***************************************************************************)
(* UnitsAreFaithful, for any attributes but friction and any history of at *)
(* most 2^31 logged events and 2^32 decays, any interventions revised in   *)
(* any order among them: the f64 that is stored differs from the exact     *)
(* units by at most 128 places, one f64::EPSILON, for each of them, and    *)
(* whatever is planned next fires the same caps unless it ends exactly at  *)
(* an edge of the range.                                                   *)
(***************************************************************************)
THEOREM UnitsStayFaithful == ASSUME Lifetime PROVE Spec => []UnitsAreFaithful
<1>1. FaithInv => UnitsAreFaithful
  <2> SUFFICES ASSUME FaithInv  PROVE UnitsAreFaithful
    BY SMT
  <2>0. /\ PrecisionInv /\ PriorsType(prior) /\ Faithful(value, exact, prior, moves)
        /\ InRange(value) /\ value \in Limbs /\ name \in Names
        /\ exact \in Int /\ 0 <= exact /\ exact <= 400
    BY SMT DEF FaithInv, PrecisionInv, ValueInv, InRange
  <2>1. Moves(moves)
    BY SMT, <2>0, FaithMoves
  <2>2. near(value, exact, moves)
    <3>1. Off(places(value), exact, Slack(moves))
      BY SMT, <2>0, <2>1, FaithfulOff
    <3> QED  BY SMT, <2>0, <2>1, <3>1, NearIs DEF Faithful, Moves
  <2>3. ASSUME NEW e \in events
        PROVE  \/ e.plan.caps_applied = e.exact.caps_applied
               \/ e.exact.new_value \in {0, ONE} /\ e.exact.caps_applied = {}
    <3>1. PICK dl \in Limbs : \E units \in Int :
                 /\ e.plan = plan_for64(value, dl) /\ e.exact = exact_plan(units)
                 /\ SumOff(value, dl, exact + units)
      BY SMT, EventPlans
    <3>2. PICK units \in Int :
                 /\ e.plan = plan_for64(value, dl) /\ e.exact = exact_plan(units)
                 /\ SumOff(value, dl, exact + units)
      BY SMT, <3>1
    <3> DEFINE x == exact + units
    <3>3. x \in Int /\ SumOff(value, dl, x)
      BY SMT, <2>0, <3>2
    <3>4. e.exact.new_value = Kept(x) /\ e.exact.caps_applied = Caps(x)
      BY SMT, <2>0, <3>2, ExactCaps
    <3> HIDE DEF x
    <3>5. e.plan.caps_applied = Caps(x) \/ x = 0 \/ x = 400
      BY SMT, <2>0, <3>2, <3>3, PlanOff
    <3> QED  BY SMT, <3>3, <3>4, <3>5, EdgeUnits
  <2>4. LET e == maintenance_event
        IN \/ e.plan.caps_applied = e.exact.caps_applied
           \/ e.exact.new_value \in {0, ONE} /\ e.exact.caps_applied = {}
    <3> DEFINE x == exact + DECAY_DELTA
               dl == f64[DECAY_DELTA]
               pl == dispatch_maintenance64(value)
    <3>1. /\ maintenance_event.plan = pl /\ maintenance_event.exact = exact_plan(DECAY_DELTA)
      BY Zenon DEF maintenance_event
    <3>2. DECAY_DELTA = -4 /\ DECAY_DELTA \in Int /\ x \in Int /\ x <= 400
      BY SMT, <2>0 DEF DECAY_DELTA
    <3>3. exact_plan(DECAY_DELTA).new_value = Kept(x) /\ exact_plan(DECAY_DELTA).caps_applied = Caps(x)
      BY SMT, <2>0, <3>2, ExactCaps
    <3>4. SumOff(value, dl, x)
      <4>1. dl \in Limbs /\ Off(places(dl), DECAY_DELTA, 16)
        BY SMT, <3>2, F64Off
      <4> DEFINE b == Slack(moves) + 32
      <4>2. /\ places(value) \in Int /\ places(dl) \in Int /\ Slack(moves) \in Int
            /\ b \in Int /\ b <= 1000000000000
        BY SMT, <2>0, <2>1, <4>1, LimbsType, SlackIs
      <4>3. Off(places(value), exact, Slack(moves))
        BY SMT, <2>0, <2>1, FaithfulOff
      <4> HIDE DEF dl
      <4>4. Off(places(value) + places(dl), x, b)
        BY SMT, <2>0, <3>2, <4>1, <4>2, <4>3 DEF Off
      <4> QED  BY SMT, <4>2, <4>4 DEF SumOff
    <3>5. dl = f64[DECAY_DELTA] /\ pl = dispatch_maintenance64(value)
      BY SMT
    <3> HIDE DEF x, dl, pl
    <3>6. pl.caps_applied = Caps(x) \/ x = 0
      BY SMT, <2>0, <3>2, <3>4, <3>5, DecayOff
    <3> QED  BY SMT, <3>1, <3>2, <3>3, <3>6, EdgeUnits
  <2> QED  BY SMT, <2>2, <2>3, <2>4 DEF UnitsAreFaithful
<1>2. FaithInv /\ [Next]_vars => FaithInv'
  BY SMT, FaithStep
<1> QED  BY FaithInit, <1>1, <1>2, PTL DEF Spec

(***************************************************************************)
(* RefusedOnlyAtTheEdge, under the same bounds: what insert_event refuses  *)
(* is a sum that stands for exactly zero or one and is outside the range   *)
(* by the rounding that the clamp of plan_for lets through.                *)
(***************************************************************************)
THEOREM RefusedAtTheEdge == ASSUME Lifetime PROVE Spec => []RefusedOnlyAtTheEdge
<1>1. FaithInv => RefusedOnlyAtTheEdge
  <2> SUFFICES ASSUME FaithInv, NEW e \in events, ~validate64(e.plan.new_value)
               PROVE  /\ e.exact.new_value \in {0, ONE} /\ e.exact.caps_applied = {}
                      /\ LET edge == f64[e.exact.new_value]
                         IN ~F!less(F!EPSILON, F!abs(F!plus(e.plan.new_value, F!negate(edge))))
    BY Zenon DEF RefusedOnlyAtTheEdge
  <2>0. value \in Limbs /\ name \in Names /\ exact \in Int
    BY SMT DEF FaithInv, PrecisionInv, ValueInv, InRange
  <2>1. PICK dl \in Limbs : \E units \in Int :
               /\ e.plan = plan_for64(value, dl) /\ e.exact = exact_plan(units)
               /\ SumOff(value, dl, exact + units)
    BY SMT, EventPlans
  <2>2. PICK units \in Int :
               /\ e.plan = plan_for64(value, dl) /\ e.exact = exact_plan(units)
               /\ SumOff(value, dl, exact + units)
    BY SMT, <2>1
  <2> DEFINE x == exact + units
             n == e.plan.new_value
  <2>3. x \in Int /\ SumOff(value, dl, x)
    BY SMT, <2>0, <2>2
  <2>4. e.exact.new_value = Kept(x) /\ e.exact.caps_applied = Caps(x)
    BY SMT, <2>0, <2>2, ExactCaps
  <2> HIDE DEF x
  <2>5. /\ n \in Limbs
        /\ \/ x = 0 /\ -128 <= places(n) /\ places(n) <= 0
           \/ x = 400 /\ 576460752303423488 <= places(n) /\ places(n) <= 576460752303423616
    BY SMT, <2>0, <2>2, <2>3, PlanOff
  <2> HIDE DEF n
  <2>6. /\ e.exact.new_value = x /\ e.exact.caps_applied = {} /\ e.exact.new_value \in {0, ONE}
    BY SMT, <2>3, <2>4, <2>5, EdgeUnits
  <2>7. /\ f64[x] \in Limbs /\ places(n) \in Int /\ places(f64[x]) \in Int
        /\ places(n) - places(f64[x]) <= 128 /\ places(f64[x]) - places(n) <= 128
    BY SMT, <2>5, F64Edges, LimbsType
  <2>8. ~F!less(F!EPSILON, F!abs(F!plus(n, F!negate(f64[x]))))
    BY SMT, <2>5, <2>7, EpsilonIs, DistanceIs
  <2> QED  BY SMT, <2>6, <2>8 DEF n
<1>2. FaithInv /\ [Next]_vars => FaithInv'
  BY SMT, FaithStep
<1> QED  BY FaithInit, <1>1, <1>2, PTL DEF Spec
=============================================================================
