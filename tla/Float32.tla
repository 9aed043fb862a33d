------------------------------- MODULE Float32 -------------------------------
(***************************************************************************)
(* Numbers that are not negative as a float holds them, and integers of    *)
(* either sign.  Integers are exact up to Precision, which is 2^24 for the *)
(* 24 bits of a float's significand, and above it rounded to the nearest   *)
(* multiple of a power of two, ties to the even multiple.  The powers are  *)
(* those that the integers of 32 bits need.                                *)
(***************************************************************************)
EXTENDS Integers, FiniteSetsExt

CONSTANT Precision

ASSUME PrecisionAssumption == Precision \in Nat \ {0}

\* The distance between the floats near n > 0.
Ulp(n) == Max({u \in {1, 2, 4, 8, 16, 32, 64, 128} : u = 1 \/ n > Precision * (u \div 2)})

\* n in units of u: the half is rounded to the even number.
Units(n, u) ==
    LET q == n \div u
        r == 2 * (n % u)
    IN  IF r < u \/ (r = u /\ q % 2 = 0) THEN q ELSE q + 1

Rounded(n) == LET u == Ulp(n) IN Units(n, u) * u

\* An integer.
Fl(n) == IF n \in -Precision..Precision THEN n
         ELSE IF n > 0 THEN Rounded(n) ELSE -Rounded(-n)

\* A fraction a / b below Precision / 2 is rounded in units of 1 / 2^k: k is the
\* least that leaves the float all its bits.
Shift(a, b) == CHOOSE k \in 0..126 : /\ 2 * a * 2^k >= b * Precision
                                     /\ \A j \in 0..k - 1 : 2 * a * 2^j < b * Precision

\* The fraction a / b as a float, again a fraction.
FlQuot(a, b) ==
    IF a = 0 THEN [num |-> 0, den |-> 1]
    ELSE IF 2 * a >= b * Precision
         THEN LET u == Ulp(a \div b) IN [num |-> Units(a, b * u) * u, den |-> 1]
         ELSE LET k == Shift(a, b) IN [num |-> Units(a * 2^k, b), den |-> 2^k]
=============================================================================
