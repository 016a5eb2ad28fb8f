------------------------------ MODULE CNumbers ------------------------------
(***************************************************************************)
(* What C makes of a written number: strtol and strtoul stop at the ends   *)
(* of a long, and a cast keeps the bits that fit.                          *)
(***************************************************************************)
EXTENDS Integers

CONSTANTS
    IntHalf,        \* 2^31: an int is from -IntHalf to IntHalf - 1
    LongHalf        \* 2^63, the same of a long

\* An int holds a 24-bit colour, and a long any int.
ASSUME WidthAssumption ==
    /\ IntHalf \in Nat \ {0} /\ IntHalf % 2 ^ 24 = 0
    /\ LongHalf \in Nat \ {0} /\ LongHalf % IntHalf = 0

IsInt(n) == n \in -IntHalf .. IntHalf - 1
IsLong(n) == n \in -LongHalf .. LongHalf - 1

strtol(n) == IF IsLong(n) THEN n ELSE IF n < 0 THEN -LongHalf ELSE LongHalf - 1

\* A minus sign is applied to the unsigned result, unless that overflowed.
strtoul(n) ==
    IF n \in 1 - 2 * LongHalf .. 2 * LongHalf - 1 THEN n % (2 * LongHalf) ELSE 2 * LongHalf - 1

\* (int)strtol(...)
IntCut(m) == ((m + IntHalf) % (2 * IntHalf)) - IntHalf
IntOf(n) == IntCut(strtol(n))
=============================================================================
