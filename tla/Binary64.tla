------------------------------ MODULE Binary64 ------------------------------
(***************************************************************************)
(* IEEE 754 binary64, the f64 of the attribute values, for the numbers the *)
(* daemon computes with: multiples of 2^-59 of magnitude below 2. The pair *)
(* <<hi, lo>> with 0 <= lo < 2^30 is (hi * 2^30 + lo) * 2^-59; a result is *)
(* rounded to 53 significant bits, to nearest, ties to even. Every         *)
(* constant of the tables is at least 2^-7, whose last place is 2^-59.     *)
(***************************************************************************)
EXTENDS Integers

LIMB    == 2^30
ZERO    == <<0, 0>>
ONE     == <<2^29, 0>>
EPSILON == <<0, 128>>       \* f64::EPSILON = 2^-52

less(x, y) == x[1] < y[1] \/ (x[1] = y[1] /\ x[2] < y[2])

negate(x) == IF x[2] = 0 THEN <<-x[1], 0>> ELSE <<-x[1] - 1, LIMB - x[2]>>

abs(x) == IF less(x, ZERO) THEN negate(x) ELSE x

\* The exact sum, and the exact half of an even number of places.
plus(x, y) == <<x[1] + y[1] + (x[2] + y[2]) \div LIMB, (x[2] + y[2]) % LIMB>>
half(x)    == <<x[1] \div 2, (x[1] % 2) * 2^29 + x[2] \div 2>>

\* The distance between neighbours at magnitude x, in units of 2^-59.
ulp(x) ==
  LET h == x[1]
  IN IF h < 2^26
     THEN IF h < 2^24 THEN (IF h < 2^23 THEN 1 ELSE 2) ELSE (IF h < 2^25 THEN 4 ELSE 8)
     ELSE IF h < 2^28 THEN (IF h < 2^27 THEN 16 ELSE 32) ELSE (IF h < 2^29 THEN 64 ELSE 128)

\* x + rest / den, rounded: rest < den is what the limbs cannot hold.
nearest(x, rest, den) ==
  LET u    == ulp(x)
      over == 2 * ((x[2] % u) * den + rest)
      down == <<x[1], x[2] - (x[2] % u)>>
      odd  == (x[2] \div u) % 2 = 1
  IN IF over > u * den \/ (over = u * den /\ odd) THEN plus(down, <<0, u>>) ELSE down

rounded(x) ==
  IF less(x, ZERO) THEN negate(nearest(negate(x), 0, 1)) ELSE nearest(x, 0, 1)

add(x, y) == rounded(plus(x, y))
sub(x, y) == add(x, negate(y))

\* x * 0.5, x * 1.0 and x * 1.5: one product, rounded once.
scale(x, twice) ==
  CASE twice = 1 -> rounded(half(x))
    [] twice = 2 -> x
    [] OTHER     -> rounded(plus(x, half(x)))

clamp(x, lo, hi) == IF less(x, lo) THEN lo ELSE IF less(hi, x) THEN hi ELSE x

\* The literal num / den, num <= den < 2^10: long division, 20 bits at a time.
literal(num, den) ==
  LET top  == num * 2^20
      mid  == (top % den) * 2^20
      low  == (mid % den) * 2^19
      quot == <<(top \div den) * 2^9 + (mid \div den) \div 2^11,
                ((mid \div den) % 2^11) * 2^19 + low \div den>>
  IN nearest(quot, low % den, den)
=============================================================================
