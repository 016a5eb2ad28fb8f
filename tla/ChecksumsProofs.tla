--------------------------- MODULE ChecksumsProofs ---------------------------
(***************************************************************************)
(* Proofs about Checksums.  A byte goes through the table as it goes       *)
(* through the eight steps, and the controller's division, which has the   *)
(* bits the other way round, leaves the remainder it wants.                *)
(*                                                                         *)
(* Before that, facts about natural numbers and loops, which CodecsProofs  *)
(* needs too: the least number with a property, that a function defined by *)
(* recursion on its argument less one exists and obeys its definition, and *)
(* that a sum of digits times powers has these digits.                     *)
(***************************************************************************)
EXTENDS Checksums, SequenceTheorems, WellFoundedInduction, TLAPS
-----------------------------------------------------------------------------

\* A set of natural numbers that is not empty has a least element.
LEMMA LeastNatural ==
    ASSUME NEW T \in SUBSET Nat, T # {}
    PROVE  \E x \in T : \A y \in T : x <= y
<1> DEFINE R == {p \in Nat \X Nat : p[1] < p[2]}
<1>1. R = OpToRel(<, Nat)
  BY DEF OpToRel
<1>2. IsWellFoundedOn(R, Nat)
  BY <1>1, NatLessThanWellFounded
<1> HIDE DEF R
<1>3. PICK x \in T : \A y \in T : ~(<<y, x>> \in R)
  BY <1>2, WFMin
<1>4. \A y \in T : ~(y < x)
  BY <1>3 DEF R
<1>5. QED
  BY <1>3, <1>4

\* Induction up to a bound.
LEMMA UpTo ==
    ASSUME NEW n \in Nat, NEW S, 0 \in S, \A k \in 0 .. n - 1 : k \in S => k + 1 \in S
    PROVE  0 .. n \subseteq S
<1> DEFINE Lacking == (0 .. n) \ S
<1> SUFFICES ASSUME Lacking # {} PROVE FALSE
  OBVIOUS
<1>1. PICK k \in Lacking : \A j \in Lacking : k <= j
  <2>1. Lacking \in SUBSET Nat
    OBVIOUS
  <2> HIDE DEF Lacking
  <2>2. QED
    BY <2>1, LeastNatural
<1>2. k # 0 /\ k - 1 \in 0 .. n - 1 /\ k - 1 \notin Lacking
  BY <1>1
<1>3. QED
  BY <1>1, <1>2

\* A loop of n turns: what it may do in a turn with a value of T, and its course
\* from a, the value before the first turn and after every turn.
Turns(n, T) == [(1 .. n) \X T -> T]
Course(f, n, T, a, turn) ==
    f \in [0 .. n -> T] /\ f[0] = a /\ \A i \in 1 .. n : f[i] = turn[<<i, f[i - 1]>>]

\* What a recursion keeps to, its values are in.
IsTable(f, n) == f = [i \in 0 .. n |-> f[i]]
LEMMA StaysIn ==
    ASSUME NEW n \in Nat, NEW T, NEW f, IsTable(f, n), f[0] \in T,
           \A i \in 0 .. n - 1 : f[i] \in T => f[i + 1] \in T
    PROVE  f \in [0 .. n -> T]
<1> DEFINE S == {i \in 0 .. n : f[i] \in T}
<1>1. 0 \in S
  OBVIOUS
<1>2. ASSUME NEW k \in 0 .. n - 1, k \in S PROVE k + 1 \in S
  <2>1. k + 1 \in 0 .. n /\ f[k + 1] \in T
    BY <1>2
  <2>2. QED
    BY <2>1
<1> HIDE DEF S
<1>3. 0 .. n \subseteq S
  BY <1>1, <1>2, UpTo
<1>4. QED
  BY <1>3 DEF S, IsTable

\* Every loop has a course.
LEMMA CourseExists ==
    ASSUME NEW n \in Nat, NEW T, NEW a \in T, NEW turn \in Turns(n, T)
    PROVE  \E f : Course(f, n, T, a, turn)
<1> DEFINE S == {k \in 0 .. n : \E f : Course(f, k, T, a, turn)}
<1>1. 0 \in S
  <2>1. Course([k \in 0 .. 0 |-> a], 0, T, a, turn)
    BY DEF Course
  <2>2. QED
    BY <2>1
<1>2. ASSUME NEW k \in 0 .. n - 1, k \in S PROVE k + 1 \in S
  <2>1. PICK f : Course(f, k, T, a, turn)
    BY <1>2
  <2> DEFINE v == turn[<<k + 1, f[k]>>]
             g == [i \in 0 .. k + 1 |-> IF i = k + 1 THEN v ELSE f[i]]
  <2>2. v \in T
    BY <2>1 DEF Course, Turns
  <2> HIDE DEF v
  <2>3. g \in [0 .. k + 1 -> T] /\ g[0] = a
    BY <2>1, <2>2 DEF Course
  <2>4. \A i \in 1 .. k + 1 : g[i] = turn[<<i, g[i - 1]>>]
    <3> SUFFICES ASSUME NEW i \in 1 .. k + 1 PROVE g[i] = turn[<<i, g[i - 1]>>]
      OBVIOUS
    <3>1. CASE i = k + 1
      <4>1. g[i] = v /\ g[i - 1] = f[k]
        BY <3>1
      <4>2. QED
        BY <3>1, <4>1 DEF v
    <3>2. CASE i # k + 1
      <4>1. g[i] = f[i] /\ g[i - 1] = f[i - 1] /\ f[i] = turn[<<i, f[i - 1]>>]
        BY <2>1, <3>2 DEF Course
      <4>2. QED
        BY <4>1
    <3>3. QED
      BY <3>1, <3>2
  <2> HIDE DEF g
  <2>5. Course(g, k + 1, T, a, turn)
    BY <2>3, <2>4 DEF Course
  <2>6. QED
    BY <2>5
<1> HIDE DEF S
<1>3. n \in S
  BY <1>1, <1>2, UpTo
<1>4. QED
  BY <1>3 DEF S

-----------------------------------------------------------------------------
\* Numbers and their digits.

\* A digit from what is below it and what is above it.
DigitIn(b, d, c, number) == (number \div d) % b = c
LEMMA Digit ==
    ASSUME NEW b \in Nat \ {0}, NEW d \in Nat \ {0}, NEW c \in 0 .. b - 1,
           NEW below \in 0 .. d - 1, NEW above \in Nat
    PROVE  DigitIn(b, d, c, below + d * (c + b * above))
<1>1. (below + d * (c + b * above)) \div d = c + b * above
  OBVIOUS
<1>2. (c + b * above) % b = c
  OBVIOUS
<1>3. QED
  BY <1>1, <1>2 DEF DigitIn

\* Steps of the next lemma that are only arithmetic.
LEMMA SumIsNatural == ASSUME NEW e \in Nat, NEW b \in Nat, NEW w \in Nat PROVE e + b * w \in Nat
OBVIOUS

LEMMA BelowNextPlace ==
    ASSUME NEW b \in Nat, NEW x \in Nat, NEW y \in Nat \ {0}, NEW e \in 0 .. b - 1, x < y
    PROVE  x + e * y < b * y
<1>1. PICK r \in Nat : b = e + 1 + r
  <2>1. b - (e + 1) \in Nat /\ b = e + 1 + (b - (e + 1))
    OBVIOUS
  <2>2. QED
    BY <2>1
<1>2. e \in Nat /\ (e + 1 + r) * y = e * y + y + r * y
  OBVIOUS
<1>3. e * y \in Nat /\ r * y \in Nat
  BY <1>2
<1> DEFINE ey == e * y
           ry == r * y
<1>4. ey \in Nat /\ ry \in Nat /\ b * y = ey + y + ry
  BY <1>1, <1>2, <1>3
<1>5. x + ey < b * y
  <2> DEFINE by == b * y
  <2>1. by = ey + y + ry
    BY <1>4
  <2> HIDE DEF ey, ry, by
  <2>2. x + ey < by
    BY <1>4, <2>1
  <2>3. QED
    BY <2>2 DEF by
<1>6. QED
  BY <1>5

LEMMA SplitAtPlace ==
    ASSUME NEW b \in Nat, NEW x \in Nat, NEW y \in Nat, NEW e \in Nat, NEW u \in Nat
    PROVE  (x + e * y) + (b * y) * u = x + y * (e + b * u)
OBVIOUS

\* s is the course of a loop that adds n digits c at the places p, the powers of b.
Adds(n, b, p, c, s) ==
    /\ p \in [0 .. n -> Nat \ {0}] /\ p[0] = 1 /\ \A k \in 0 .. n - 1 : p[k + 1] = b * p[k]
    /\ c \in [0 .. n - 1 -> 0 .. b - 1]
    /\ s \in [0 .. n -> Nat] /\ s[0] = 0 /\ \A k \in 0 .. n - 1 : s[k + 1] = s[k] + c[k] * p[k]

LEMMA AddsTypes ==
    ASSUME NEW n \in Nat, NEW b \in Nat, NEW p, NEW c, NEW s, Adds(n, b, p, c, s),
           NEW k \in 0 .. n - 1
    PROVE  /\ k \in 0 .. n /\ k + 1 \in 0 .. n
           /\ s[k] \in Nat /\ p[k] \in Nat \ {0} /\ c[k] \in 0 .. b - 1 /\ c[k] \in Nat
           /\ s[k + 1] = s[k] + c[k] * p[k] /\ p[k + 1] = b * p[k]
<1>1. k \in 0 .. n /\ k + 1 \in 0 .. n
  OBVIOUS
<1>2. s[k] \in Nat /\ p[k] \in Nat \ {0}
  BY <1>1 DEF Adds
<1>3. c[k] \in 0 .. b - 1
  BY DEF Adds
<1>4. c[k] \in Nat
  BY <1>3
<1>5. s[k + 1] = s[k] + c[k] * p[k] /\ p[k + 1] = b * p[k]
  BY DEF Adds
<1>6. QED
  BY <1>1, <1>2, <1>3, <1>4, <1>5

\* One that makes the number from its digits, the last digit first.
Horner(n, b, c) == [w \in (1 .. n) \X Nat |-> c[n - w[1]] + b * w[2]]

LEMMA HornerTurns ==
    ASSUME NEW n \in Nat, NEW b \in Nat, NEW c \in [0 .. n - 1 -> 0 .. b - 1]
    PROVE  Horner(n, b, c) \in Turns(n, Nat)
<1>1. ASSUME NEW i \in 1 .. n, NEW w \in Nat PROVE c[n - i] + b * w \in Nat
  <2>1. n - i \in 0 .. n - 1
    OBVIOUS
  <2>2. c[n - i] \in Nat
    BY <2>1
  <2>3. QED
    BY <2>2, SumIsNatural
<1>2. QED
  BY <1>1 DEF Turns, Horner

\* The upper digits: what is left of a number when its lower digits are taken.
LEMMA UpperDigits ==
    ASSUME NEW n \in Nat, NEW b \in Nat, NEW c \in [0 .. n - 1 -> 0 .. b - 1]
    PROVE  \E h : /\ h \in [0 .. n -> Nat] /\ h[n] = 0
                  /\ \A k \in 0 .. n - 1 : h[k] = c[k] + b * h[k + 1]
<1>1. PICK g : Course(g, n, Nat, 0, Horner(n, b, c))
  <2>1. 0 \in Nat
    OBVIOUS
  <2>2. QED
    BY <2>1, HornerTurns, CourseExists
<1> DEFINE h == [k \in 0 .. n |-> g[n - k]]
<1>2. h \in [0 .. n -> Nat] /\ h[n] = 0
  BY <1>1 DEF Course
<1>3. ASSUME NEW k \in 0 .. n - 1 PROVE h[k] = c[k] + b * h[k + 1]
  <2> DEFINE i == n - k
  <2>1. /\ i \in 1 .. n /\ i - 1 \in 0 .. n /\ i - 1 = n - (k + 1) /\ n - i = k
        /\ k \in 0 .. n /\ k + 1 \in 0 .. n
    OBVIOUS
  <2>2. h[k] = g[i] /\ h[k + 1] = g[i - 1]
    BY <2>1
  <2> HIDE DEF h, i
  <2>3. g[i] = Horner(n, b, c)[<<i, g[i - 1]>>] /\ g[i - 1] \in Nat
    BY <1>1, <2>1 DEF Course
  <2>4. Horner(n, b, c)[<<i, g[i - 1]>>] = c[n - i] + b * g[i - 1]
    BY <2>1, <2>3 DEF Horner
  <2>5. QED
    BY <2>1, <2>2, <2>3, <2>4
<1>4. QED
  BY <1>2, <1>3

\* The loop makes a number that is below the next place and has these digits.
LEMMA DigitsReadBack ==
    ASSUME NEW n \in Nat, NEW b \in Nat \ {0}, NEW p, NEW c, NEW s, Adds(n, b, p, c, s)
    PROVE  s[n] < p[n] /\ \A k \in 0 .. n - 1 : (s[n] \div p[k]) % b = c[k]
<1>1. PICK h : /\ h \in [0 .. n -> Nat] /\ h[n] = 0
               /\ \A k \in 0 .. n - 1 : h[k] = c[k] + b * h[k + 1]
  BY UpperDigits DEF Adds
<1> DEFINE S == {k \in 0 .. n : s[k] < p[k] /\ s[k] + p[k] * h[k] = h[0]}
<1>2. 0 .. n \subseteq S
  <2>1. 0 \in S
    <3>1. 0 \in 0 .. n /\ s[0] = 0 /\ p[0] = 1 /\ h[0] \in Nat
      BY <1>1 DEF Adds
    <3>2. QED
      BY <3>1
  <2>2. ASSUME NEW k \in 0 .. n - 1, k \in S PROVE k + 1 \in S
    <3> DEFINE x == s[k]
               y == p[k]
               e == c[k]
               u == h[k + 1]
    <3>1. /\ x \in Nat /\ y \in Nat \ {0} /\ e \in 0 .. b - 1 /\ e \in Nat
          /\ k + 1 \in 0 .. n /\ k \in 0 .. n
          /\ s[k + 1] = x + e * y /\ p[k + 1] = b * y
      BY AddsTypes
    <3>2. u \in Nat /\ h[k] = e + b * u
      BY <1>1, <3>1
    <3>3. x < y /\ x + y * h[k] = h[0]
      BY <2>2
    <3> HIDE DEF x, y, e
    <3>4. x + e * y < b * y
      BY <3>1, <3>3, BelowNextPlace
    <3>5. (x + e * y) + (b * y) * u = x + y * (e + b * u)
      BY <3>1, <3>2, SplitAtPlace
    <3>6. s[k + 1] < p[k + 1]
      BY <3>1, <3>4
    <3>7. s[k + 1] + p[k + 1] * u = h[0]
      BY <3>1, <3>2, <3>3, <3>5
    <3>8. QED
      BY <3>1, <3>6, <3>7
  <2> HIDE DEF S
  <2>3. QED
    BY <2>1, <2>2, UpTo
<1>3. ASSUME NEW k \in 0 .. n PROVE s[k] < p[k] /\ s[k] + p[k] * h[k] = h[0]
  BY <1>2
<1> HIDE DEF S
<1>4. s[n] < p[n] /\ s[n] = h[0]
  <2>1. n \in 0 .. n /\ s[n] \in Nat /\ p[n] \in Nat
    BY DEF Adds
  <2>2. s[n] < p[n] /\ s[n] + p[n] * 0 = h[0]
    BY <1>1, <1>3, <2>1
  <2>3. QED
    BY <2>1, <2>2
<1>5. ASSUME NEW k \in 0 .. n - 1 PROVE (s[n] \div p[k]) % b = c[k]
  <2> DEFINE below == s[k]
             d == p[k]
             e == c[k]
             above == h[k + 1]
  <2>0. k \in 0 .. n /\ k + 1 \in 0 .. n
    BY AddsTypes
  <2>1. /\ below \in Nat /\ d \in Nat \ {0} /\ e \in 0 .. b - 1 /\ above \in Nat
        /\ below < d /\ s[n] = below + d * (e + b * above)
    <3>1. below \in Nat /\ d \in Nat \ {0} /\ e \in 0 .. b - 1
      BY AddsTypes
    <3>2. above \in Nat /\ h[k] = e + b * above
      BY <1>1, <2>0
    <3>3. below < d /\ s[n] = below + d * h[k]
      BY <1>3, <1>4, <2>0
    <3>4. QED
      BY <3>1, <3>2, <3>3
  <2> HIDE DEF below, d, e, above
  <2>2. below \in 0 .. d - 1
    BY <2>1
  <2>3. DigitIn(b, d, e, below + d * (e + b * above))
    BY <2>1, <2>2, Digit
  <2>4. QED
    BY <2>1, <2>3 DEF d, e, DigitIn
<1>6. QED
  BY <1>4, <1>5

\* Four octets make a number of 32 bits again, two make one of 16.
TwoTo32 == 4294967296
OctetAt(n, k) == (n \div 256 ^ k) % 256
LEMMA FourOctets ==
    ASSUME NEW n \in Nat, n < TwoTo32
    PROVE  /\ \A k \in 0 .. 3 : OctetAt(n, k) \in 0 .. 255
           /\ OctetAt(n, 0) + 256 * (OctetAt(n, 1) + 256 * (OctetAt(n, 2) + 256 * OctetAt(n, 3))) = n
           /\ n < 65536 => OctetAt(n, 0) + 256 * OctetAt(n, 1) = n
<1> DEFINE q1 == n \div 256
           q2 == q1 \div 256
           q3 == q2 \div 256
<1>1. q1 \in Nat /\ n = 256 * q1 + (n % 256) /\ n % 256 \in 0 .. 255
  OBVIOUS
<1>2. q2 \in Nat /\ q1 = 256 * q2 + (q1 % 256) /\ q1 % 256 \in 0 .. 255
  <2> HIDE DEF q1
  <2>1. QED
    BY <1>1
<1>3. q3 \in Nat /\ q2 = 256 * q3 + (q2 % 256) /\ q2 % 256 \in 0 .. 255
  <2> HIDE DEF q2
  <2>1. QED
    BY <1>2
<1>4. /\ OctetAt(n, 0) = n % 256 /\ OctetAt(n, 1) = q1 % 256
      /\ OctetAt(n, 2) = q2 % 256 /\ OctetAt(n, 3) = q3 % 256
  <2>1. OctetAt(n, 0) = n % 256 /\ OctetAt(n, 1) = q1 % 256
    BY SMT DEF OctetAt
  <2>2. n \div 65536 = q2
    BY SMT
  <2>3. n \div 16777216 = q3
    <3>1. n \div 16777216 = (n \div 65536) \div 256
      BY SMT
    <3>2. QED
      BY <2>2, <3>1
  <2>4. OctetAt(n, 2) = (n \div 65536) % 256
    BY SMT DEF OctetAt
  <2>5. OctetAt(n, 3) = (n \div 16777216) % 256
    BY SMT DEF OctetAt
  <2>6. QED
    BY <2>1, <2>2, <2>3, <2>4, <2>5, SMT
<1> HIDE DEF q1, q2, q3
<1>5. q3 < 256
  BY <1>1, <1>2, <1>3, SMT DEF TwoTo32
<1>6. q3 % 256 = q3
  BY <1>3, <1>5
<1>7. n < 65536 => q2 = 0
  BY <1>1, <1>2, <1>3
<1>8. \A k \in 0 .. 3 : OctetAt(n, k) \in 0 .. 255
  <2>0. q3 \in Nat
    BY <1>3, Zenon
  <2>1. q3 \in 0 .. 255
    BY <1>5, <2>0
  <2>2. /\ OctetAt(n, 0) \in 0 .. 255 /\ OctetAt(n, 1) \in 0 .. 255
        /\ OctetAt(n, 2) \in 0 .. 255 /\ OctetAt(n, 3) \in 0 .. 255
    BY <1>1, <1>2, <1>3, <1>4, <1>6, <2>1, ZenonT(60)
  <2>3. \A k \in 0 .. 3 : k = 0 \/ k = 1 \/ k = 2 \/ k = 3
    OBVIOUS
  <2>4. QED
    BY <2>2, <2>3, Zenon
<1>9. OctetAt(n, 0) + 256 * (OctetAt(n, 1) + 256 * (OctetAt(n, 2) + 256 * OctetAt(n, 3))) = n
  <2> DEFINE o0 == OctetAt(n, 0)
             o1 == OctetAt(n, 1)
             o2 == OctetAt(n, 2)
             o3 == OctetAt(n, 3)
  <2>1. n = 256 * q1 + o0 /\ q1 = 256 * q2 + o1 /\ q2 = 256 * q3 + o2 /\ q3 = o3
    BY <1>1, <1>2, <1>3, <1>4, <1>6
  <2> HIDE DEF o0, o1, o2, o3
  <2>2. q1 = o1 + 256 * q2 /\ q2 = o2 + 256 * q3 /\ n = o0 + 256 * q1
    <3>1. o0 \in Nat /\ o1 \in Nat /\ o2 \in Nat
      BY <1>1, <1>2, <1>3, <1>4 DEF o0, o1, o2
    <3>2. QED
      BY <1>1, <1>2, <1>3, <2>1, <3>1
  <2>3. o0 + 256 * (o1 + 256 * (o2 + 256 * o3)) = n
    BY <2>1, <2>2
  <2>4. QED
    BY <2>3 DEF o0, o1, o2, o3
<1>10. n < 65536 => OctetAt(n, 0) + 256 * OctetAt(n, 1) = n
  BY <1>1, <1>2, <1>4, <1>7
<1>11. QED
  BY <1>8, <1>9, <1>10

\* Sequences of a length, put together.
OfLength(q, n) == q \in Seq(Int) /\ Len(q) = n
Holds(q, at, part, n) == \A i \in 1 .. n : q[at + i] = part[i]
LEMMA Joined ==
    ASSUME NEW q, NEW m \in Nat, NEW t, NEW n \in Nat, NEW k, k = m + n,
           OfLength(q, m), OfLength(t, n)
    PROVE  OfLength(q \o t, k) /\ Holds(q \o t, m, t, n) /\ Holds(q \o t, 0, q, m)
<1>1. q \in Seq(Int) /\ t \in Seq(Int) /\ Len(q) = m /\ Len(t) = n
  BY DEF OfLength
<1>2. /\ q \o t \in Seq(Int) /\ Len(q \o t) = Len(q) + Len(t)
      /\ \A i \in 1 .. Len(q) + Len(t) :
            (q \o t)[i] = IF i <= Len(q) THEN q[i] ELSE t[i - Len(q)]
  BY <1>1, ConcatProperties
<1> DEFINE w == q \o t
<1> HIDE DEF w
<1>3. /\ w \in Seq(Int) /\ Len(w) = m + n
      /\ \A i \in 1 .. m + n : w[i] = IF i <= m THEN q[i] ELSE t[i - m]
  BY <1>1, <1>2 DEF w
<1>4. Holds(w, m, t, n)
  <2>1. ASSUME NEW i \in 1 .. n PROVE w[m + i] = t[i]
    <3>1. m + i \in 1 .. m + n /\ ~(m + i <= m) /\ (m + i) - m = i
      OBVIOUS
    <3>2. QED
      BY <1>3, <3>1
  <2>2. QED
    BY <2>1 DEF Holds
<1>5. Holds(w, 0, q, m)
  <2>1. ASSUME NEW i \in 1 .. m PROVE w[0 + i] = q[i]
    <3>1. 0 + i = i /\ i \in 1 .. m + n /\ i <= m
      OBVIOUS
    <3>2. QED
      BY <1>3, <3>1
  <2>2. QED
    BY <2>1 DEF Holds
<1>6. QED
  BY <1>3, <1>4, <1>5 DEF OfLength, w

-----------------------------------------------------------------------------
\* Words, the sets of their bits.

CrcWord == SUBSET (0 .. 31)
LEMMA Xor == \A a, b, i : i \in SymDiff(a, b) <=> (i \in a) # (i \in b)
BY DEF SymDiff
LEMMA XorWord == \A a, b \in CrcWord : SymDiff(a, b) \in CrcWord
BY DEF SymDiff, CrcWord
LEMMA SameWord == \A a, b \in CrcWord : (\A i \in 0 .. 31 : i \in a <=> i \in b) => a = b
BY DEF CrcWord
LEMMA ShiftMoves ==
    ASSUME NEW w \in CrcWord, NEW k \in Nat
    PROVE  Shift(w, k) \in CrcWord /\ \A i \in 0 .. 31 : i \in Shift(w, k) <=> i + k \in w
<1>1. \A i \in Shift(w, k) : \E j \in w : j >= k /\ i = j - k
  BY DEF Shift
<1>2. ASSUME NEW i \in Shift(w, k) PROVE i \in 0 .. 31 /\ i + k \in w
  <2>1. PICK j \in w : j >= k /\ i = j - k
    BY <1>1
  <2>2. j \in 0 .. 31
    BY DEF CrcWord
  <2>3. QED
    BY <2>1, <2>2
<1>3. ASSUME NEW i \in 0 .. 31, i + k \in w PROVE i \in Shift(w, k)
  <2>1. i + k >= k /\ i = (i + k) - k
    OBVIOUS
  <2>2. QED
    BY <1>3, <2>1 DEF Shift
<1>4. QED
  BY <1>2, <1>3 DEF CrcWord

\* The bits of a number.
LEMMA BitsHalf == \A n : Bits(n) \subseteq 0 .. 15
BY DEF Bits
LEMMA WordWord == \A high, low : Word32(high, low) \in CrcWord
<1> SUFFICES ASSUME NEW high, NEW low PROVE Word32(high, low) \in CrcWord
  OBVIOUS
<1>1. Bits(high) \subseteq 0 .. 15 /\ Bits(low) \subseteq 0 .. 15
  BY BitsHalf
<1>2. \A i \in 0 .. 15 : i + 16 \in 0 .. 31 /\ i \in 0 .. 31
  OBVIOUS
<1>3. QED
  BY <1>1, <1>2 DEF Word32, CrcWord

PlaceOf == [k \in 0 .. 15 |-> 2 ^ k]
LEMMA PlacesOf ==
    /\ PlaceOf[0] = 1 /\ PlaceOf[1] = 2 /\ PlaceOf[2] = 4 /\ PlaceOf[3] = 8 /\ PlaceOf[4] = 16
    /\ PlaceOf[5] = 32 /\ PlaceOf[6] = 64 /\ PlaceOf[7] = 128 /\ PlaceOf[8] = 256
    /\ PlaceOf[9] = 512 /\ PlaceOf[10] = 1024 /\ PlaceOf[11] = 2048 /\ PlaceOf[12] = 4096
    /\ PlaceOf[13] = 8192 /\ PlaceOf[14] = 16384 /\ PlaceOf[15] = 32768
    /\ \A k \in 0 .. 15 : PlaceOf[k] = 2 ^ k
BY DEF PlaceOf
LEMMA BitPlaces == \A n : Bits(n) = {i \in 0 .. 15 : (n \div PlaceOf[i]) % 2 = 1}
<1> SUFFICES ASSUME NEW n PROVE Bits(n) = {i \in 0 .. 15 : (n \div PlaceOf[i]) % 2 = 1}
  OBVIOUS
<1>1. \A i \in 0 .. 15 : (n \div 2 ^ i) % 2 = (n \div PlaceOf[i]) % 2
  <2>1. \A i \in 0 .. 15 : PlaceOf[i] = 2 ^ i
    BY DEF PlaceOf
  <2>2. QED
    BY <2>1, Zenon
<1>2. QED
  BY <1>1, Zenon DEF Bits

LEMMA ByteBits ==
    ASSUME NEW n \in 0 .. 255
    PROVE  Bits(n) \subseteq 0 .. 7 /\ Bits(n) \in CrcWord
<1>1. ASSUME NEW i \in 8 .. 15 PROVE (n \div PlaceOf[i]) % 2 # 1
  <2> DEFINE d == PlaceOf[i]
  <2>1. i \in {8, 9, 10, 11, 12, 13, 14, 15}
    OBVIOUS
  <2>2. d \in {256, 512, 1024, 2048, 4096, 8192, 16384, 32768}
    BY <2>1, PlacesOf
  <2> HIDE DEF d
  <2>3. n \div d = 0
    BY <2>2
  <2>4. QED
    BY <2>3 DEF d
<1>2. \A i \in 0 .. 15 : i \in 0 .. 7 \/ i \in 8 .. 15
  OBVIOUS
<1>3. Bits(n) \subseteq 0 .. 7
  BY <1>1, <1>2, BitPlaces
<1>4. QED
  BY <1>3 DEF CrcWord

\* Steps of the two routines and of the division make words of words.
LEMMA BitStepWord == \A w \in CrcWord : \A b : BitStep(w, b) \in CrcWord
<1> SUFFICES ASSUME NEW w \in CrcWord, NEW b PROVE BitStep(w, b) \in CrcWord
  OBVIOUS
<1>1. Shift(w, 1) \in CrcWord /\ Polynomial \in CrcWord
  BY ShiftMoves, WordWord DEF Polynomial
<1>2. QED
  BY <1>1, XorWord DEF BitStep
LEMMA DivisionWord == \A w \in CrcWord : \A b : LongDivision(w, b) \in CrcWord
<1> SUFFICES ASSUME NEW w \in CrcWord, NEW b PROVE LongDivision(w, b) \in CrcWord
  OBVIOUS
<1> DEFINE shifted == {i + 1 : i \in w \ {31}}
           divisor == Word32(1217, 7607)
<1>1. shifted \in CrcWord
  <2>1. \A i \in w \ {31} : i + 1 \in 0 .. 31
    BY DEF CrcWord
  <2>2. QED
    BY <2>1 DEF CrcWord
<1>2. divisor \in CrcWord
  BY WordWord
<1> HIDE DEF shifted, divisor
<1>3. LongDivision(w, b) = IF (31 \in w) # b THEN SymDiff(shifted, divisor) ELSE shifted
  BY DEF LongDivision, shifted, divisor
<1>4. QED
  BY <1>1, <1>2, <1>3, XorWord

LEMMA UnionOne == \A x : UNION {x} = x
OBVIOUS

\* The loops: the words they go through, one for every step.

Steps(f, n, crc) == f \in [0 .. n -> CrcWord] /\ f[0] = crc
LEMMA BitLoop ==
    ASSUME NEW crc \in CrcWord, NEW data, NEW n \in Nat, Len(data) = n,
           \A k \in 1 .. n : data[k] \in Int
    PROVE  \E f : Steps(f, n, crc) /\ f[n] = StepThrough(BitStep, crc, data)
                  /\ \A k \in 1 .. n : f[k] = BitStep(f[k - 1], data[k])
<1> DEFINE turn == [p \in (1 .. n) \X CrcWord |-> BitStep(p[2], data[p[1]])]
           Obeys(f) == f = [k \in 0 .. Len(data) |->
                                IF k = 0 THEN crc
                                ELSE UNION {BitStep(w, data[k]) : w \in {f[k - 1]}}]
           s == CHOOSE f : Obeys(f)
<1>1. s[n] = StepThrough(BitStep, crc, data)
  BY DEF StepThrough
<1>2. PICK g : Course(g, n, CrcWord, crc, turn)
  <2>1. \A k \in 1 .. n, w \in CrcWord : BitStep(w, data[k]) \in CrcWord
    BY BitStepWord
  <2>2. turn \in Turns(n, CrcWord)
    BY <2>1 DEF Turns
  <2> HIDE DEF turn
  <2>3. QED
    BY <2>2, CourseExists
<1>3. Obeys(g)
  <2>1. ASSUME NEW k \in 1 .. n PROVE g[k] = BitStep(g[k - 1], data[k])
    <3>1. g[k - 1] \in CrcWord /\ g[k] = turn[<<k, g[k - 1]>>]
      <4> HIDE DEF turn
      <4>1. g \in [0 .. n -> CrcWord] /\ k - 1 \in 0 .. n
        BY <1>2 DEF Course
      <4>2. QED
        BY <1>2, <4>1 DEF Course
    <3>2. <<k, g[k - 1]>> \in (1 .. n) \X CrcWord
      BY <3>1
    <3>3. QED
      BY <3>1, <3>2
  <2>2. \A k \in 1 .. n : g[k] = UNION {BitStep(w, data[k]) : w \in {g[k - 1]}}
    BY <2>1
  <2>3. g \in [0 .. n -> CrcWord] /\ g[0] = crc /\ \A k \in 0 .. n : k # 0 => k \in 1 .. n
    BY <1>2 DEF Course
  <2>4. QED
    BY <2>2, <2>3
<1> HIDE DEF turn
<1>4. Obeys(s)
  <2>1. \E f : Obeys(f)
    BY <1>3
  <2> HIDE DEF Obeys
  <2>2. QED
    BY <2>1
<1> HIDE DEF s
<1>5. IsTable(s, n) /\ s[0] = crc
  BY <1>4 DEF IsTable
<1>6. ASSUME NEW k \in 1 .. n PROVE s[k] = BitStep(s[k - 1], data[k])
  <2>1. s[k] = UNION {BitStep(w, data[k]) : w \in {s[k - 1]}}
    <3>1. k \in 0 .. Len(data) /\ k # 0
      OBVIOUS
    <3>2. s = [j \in 0 .. Len(data) |->
                  IF j = 0 THEN crc
                  ELSE UNION {BitStep(w, data[j]) : w \in {s[j - 1]}}]
      BY <1>4
    <3>3. QED
      BY <3>1, <3>2, Zenon
  <2>2. QED
    BY <2>1
<1> HIDE DEF Obeys
<1>7. s \in [0 .. n -> CrcWord]
  <2>1. ASSUME NEW i \in 0 .. n - 1, s[i] \in CrcWord PROVE s[i + 1] \in CrcWord
    <3>1. i + 1 \in 1 .. n /\ (i + 1) - 1 = i
      OBVIOUS
    <3>2. s[i + 1] = BitStep(s[i], data[i + 1])
      BY <1>6, <3>1
    <3>3. QED
      BY <2>1, <3>1, <3>2, BitStepWord
  <2>2. QED
    BY <1>5, <2>1, StaysIn
<1>8. QED
  BY <1>1, <1>5, <1>6, <1>7 DEF Steps

LEMMA DivisionLoop ==
    ASSUME NEW crc \in CrcWord, NEW data, NEW n \in Nat, Len(data) = n,
           \A k \in 1 .. n : data[k] \in BOOLEAN
    PROVE  \E f : Steps(f, n, crc) /\ f[n] = StepThrough(LongDivision, crc, data)
                  /\ \A k \in 1 .. n : f[k] = LongDivision(f[k - 1], data[k])
<1> DEFINE turn == [p \in (1 .. n) \X CrcWord |-> LongDivision(p[2], data[p[1]])]
           Obeys(f) == f = [k \in 0 .. Len(data) |->
                                IF k = 0 THEN crc
                                ELSE UNION {LongDivision(w, data[k]) : w \in {f[k - 1]}}]
           s == CHOOSE f : Obeys(f)
<1>1. s[n] = StepThrough(LongDivision, crc, data)
  BY DEF StepThrough
<1>2. PICK g : Course(g, n, CrcWord, crc, turn)
  <2>1. \A k \in 1 .. n, w \in CrcWord : LongDivision(w, data[k]) \in CrcWord
    BY DivisionWord
  <2>2. turn \in Turns(n, CrcWord)
    BY <2>1 DEF Turns
  <2> HIDE DEF turn
  <2>3. QED
    BY <2>2, CourseExists
<1>3. Obeys(g)
  <2>1. ASSUME NEW k \in 1 .. n PROVE g[k] = LongDivision(g[k - 1], data[k])
    <3>1. g[k - 1] \in CrcWord /\ g[k] = turn[<<k, g[k - 1]>>]
      <4> HIDE DEF turn
      <4>1. g \in [0 .. n -> CrcWord] /\ k - 1 \in 0 .. n
        BY <1>2 DEF Course
      <4>2. QED
        BY <1>2, <4>1 DEF Course
    <3>2. <<k, g[k - 1]>> \in (1 .. n) \X CrcWord
      BY <3>1
    <3>3. QED
      BY <3>1, <3>2
  <2>2. \A k \in 1 .. n : g[k] = UNION {LongDivision(w, data[k]) : w \in {g[k - 1]}}
    BY <2>1
  <2>3. g \in [0 .. n -> CrcWord] /\ g[0] = crc /\ \A k \in 0 .. n : k # 0 => k \in 1 .. n
    BY <1>2 DEF Course
  <2>4. QED
    BY <2>2, <2>3
<1> HIDE DEF turn
<1>4. Obeys(s)
  <2>1. \E f : Obeys(f)
    BY <1>3
  <2> HIDE DEF Obeys
  <2>2. QED
    BY <2>1
<1> HIDE DEF s
<1>5. IsTable(s, n) /\ s[0] = crc
  BY <1>4 DEF IsTable
<1>6. ASSUME NEW k \in 1 .. n PROVE s[k] = LongDivision(s[k - 1], data[k])
  <2>1. s[k] = UNION {LongDivision(w, data[k]) : w \in {s[k - 1]}}
    <3>1. k \in 0 .. Len(data) /\ k # 0
      OBVIOUS
    <3>2. s = [j \in 0 .. Len(data) |->
                  IF j = 0 THEN crc
                  ELSE UNION {LongDivision(w, data[j]) : w \in {s[j - 1]}}]
      BY <1>4
    <3>3. QED
      BY <3>1, <3>2, Zenon
  <2>2. QED
    BY <2>1
<1> HIDE DEF Obeys
<1>7. s \in [0 .. n -> CrcWord]
  <2>1. ASSUME NEW i \in 0 .. n - 1, s[i] \in CrcWord PROVE s[i + 1] \in CrcWord
    <3>1. i + 1 \in 1 .. n /\ (i + 1) - 1 = i
      OBVIOUS
    <3>2. s[i + 1] = LongDivision(s[i], data[i + 1])
      BY <1>6, <3>1
    <3>3. QED
      BY <2>1, <3>1, <3>2, DivisionWord
  <2>2. QED
    BY <1>5, <2>1, StaysIn
<1>8. QED
  BY <1>1, <1>5, <1>6, <1>7 DEF Steps

\* Division by the polynomial, a bit at a time and eight at a time.

DivideBit(w) == BitStep(w, 0)
DivideOctet(w) ==
    DivideBit(DivideBit(DivideBit(DivideBit(DivideBit(DivideBit(DivideBit(DivideBit(w))))))))
LEMMA BitDivided ==
    \A w \in CrcWord : /\ DivideBit(w) \in CrcWord
                       /\ \A i \in 0 .. 31 : i \in DivideBit(w) <=>
                                (i + 1 \in w) # (0 \in w /\ i \in Polynomial)
<1> SUFFICES ASSUME NEW w \in CrcWord
             PROVE  /\ DivideBit(w) \in CrcWord
                    /\ \A i \in 0 .. 31 : i \in DivideBit(w) <=>
                                (i + 1 \in w) # (0 \in w /\ i \in Polynomial)
  OBVIOUS
<1>1. DivideBit(w) \in CrcWord
  BY BitStepWord DEF DivideBit
<1>2. \A i \in 0 .. 31 : i \in Shift(w, 1) <=> i + 1 \in w
  BY ShiftMoves
<1>3. DivideBit(w) = IF 0 \in w THEN SymDiff(Shift(w, 1), Polynomial) ELSE Shift(w, 1)
  BY DEF DivideBit, BitStep
<1>4. QED
  BY <1>1, <1>2, <1>3, Xor
LEMMA OctetDivided ==
    \A w \in CrcWord : /\ DivideOctet(w) \in CrcWord
                       /\ StepThrough(BitStep, w, [bit \in 1 .. 8 |-> bit]) = DivideOctet(w)
<1> SUFFICES ASSUME NEW w \in CrcWord
             PROVE  /\ DivideOctet(w) \in CrcWord
                    /\ StepThrough(BitStep, w, [bit \in 1 .. 8 |-> bit]) = DivideOctet(w)
  OBVIOUS
<1>1. DivideOctet(w) \in CrcWord
  BY BitDivided DEF DivideOctet
<1> DEFINE data == [bit \in 1 .. 8 |-> bit]
<1>2. data \in Seq(Int) /\ Len(data) = 8 /\ \A k \in 1 .. 8 : data[k] \in Int
  OBVIOUS
<1> HIDE DEF data
<1>3. PICK f : /\ Steps(f, 8, w) /\ f[8] = StepThrough(BitStep, w, data)
               /\ \A k \in 1 .. 8 : f[k] = BitStep(f[k - 1], data[k])
  <2>1. \A n \in Nat : Len(data) = n /\ (\A k \in 1 .. n : data[k] \in Int) =>
            \E f : /\ Steps(f, n, w) /\ f[n] = StepThrough(BitStep, w, data)
                   /\ \A k \in 1 .. n : f[k] = BitStep(f[k - 1], data[k])
    BY BitLoop
  <2>2. QED
    BY <1>2, <2>1
<1>4. \A k \in 1 .. 8 : f[k] = DivideBit(f[k - 1])
  BY <1>3 DEF DivideBit, BitStep
<1>5. /\ f[1] = DivideBit(f[0]) /\ f[2] = DivideBit(f[1]) /\ f[3] = DivideBit(f[2])
      /\ f[4] = DivideBit(f[3]) /\ f[5] = DivideBit(f[4]) /\ f[6] = DivideBit(f[5])
      /\ f[7] = DivideBit(f[6]) /\ f[8] = DivideBit(f[7]) /\ f[0] = w
  BY <1>3, <1>4 DEF Steps
<1>6. f[8] = DivideOctet(w)
  BY <1>5, Zenon DEF DivideOctet
<1>7. QED
  BY <1>1, <1>3, <1>6 DEF data

\* Both are linear.
LEMMA BitLinear ==
    \A a, b \in CrcWord : DivideBit(SymDiff(a, b)) = SymDiff(DivideBit(a), DivideBit(b))
<1> SUFFICES ASSUME NEW a \in CrcWord, NEW b \in CrcWord
             PROVE  DivideBit(SymDiff(a, b)) = SymDiff(DivideBit(a), DivideBit(b))
  OBVIOUS
<1> DEFINE c == SymDiff(a, b)
           da == DivideBit(a)
           db == DivideBit(b)
           dc == DivideBit(c)
           s == SymDiff(da, db)
<1>1. c \in CrcWord /\ da \in CrcWord /\ db \in CrcWord /\ dc \in CrcWord /\ s \in CrcWord
  BY XorWord, BitDivided
<1>2. \A i : i \in c <=> (i \in a) # (i \in b)
  BY Xor
<1>3. \A i : i \in s <=> (i \in da) # (i \in db)
  BY Xor
<1> HIDE DEF c, s
<1>4. ASSUME NEW i \in 0 .. 31 PROVE i \in dc <=> i \in s
  <2>1. i \in da <=> (i + 1 \in a) # (0 \in a /\ i \in Polynomial)
    BY BitDivided
  <2>2. i \in db <=> (i + 1 \in b) # (0 \in b /\ i \in Polynomial)
    BY BitDivided
  <2>3. i \in dc <=> (i + 1 \in c) # (0 \in c /\ i \in Polynomial)
    BY <1>1, BitDivided
  <2> HIDE DEF da, db, dc
  <2>4. QED
    BY <1>2, <1>3, <2>1, <2>2, <2>3
<1> HIDE DEF da, db, dc
<1>5. dc = s
  BY <1>1, <1>4, SameWord
<1>6. QED
  BY <1>5 DEF dc, s, da, db, c
LEMMA OctetLinear ==
    \A a, b \in CrcWord : DivideOctet(SymDiff(a, b)) = SymDiff(DivideOctet(a), DivideOctet(b))
<1> SUFFICES ASSUME NEW a \in CrcWord, NEW b \in CrcWord
             PROVE  DivideOctet(SymDiff(a, b)) = SymDiff(DivideOctet(a), DivideOctet(b))
  OBVIOUS
<1> DEFINE T(x, y, z) == x \in CrcWord /\ y \in CrcWord /\ z = SymDiff(x, y)
<1>1. \A x, y, z : T(x, y, z) => T(DivideBit(x), DivideBit(y), DivideBit(z))
  BY BitLinear, BitDivided
<1>2. T(a, b, SymDiff(a, b))
  OBVIOUS
<1> HIDE DEF T
<1>3. T(DivideOctet(a), DivideOctet(b), DivideOctet(SymDiff(a, b)))
  BY <1>1, <1>2, Zenon DEF DivideOctet
<1>4. QED
  BY <1>3 DEF T

\* A word without the lower eight bits only moves.
LEMMA HighMoves ==
    ASSUME NEW w \in CrcWord, \A i \in 0 .. 7 : i \notin w
    PROVE  DivideOctet(w) = Shift(w, 8)
<1>1. ASSUME NEW k \in 0 .. 7 PROVE DivideBit(Shift(w, k)) = Shift(w, k + 1)
  <2> DEFINE a == Shift(w, k)
             b == Shift(w, k + 1)
  <2>1. /\ a \in CrcWord /\ \A i \in 0 .. 31 : i \in a <=> i + k \in w
        /\ b \in CrcWord /\ \A i \in 0 .. 31 : i \in b <=> i + (k + 1) \in w
    <3>1. k \in Nat /\ k + 1 \in Nat
      OBVIOUS
    <3>2. \A j \in Nat : /\ Shift(w, j) \in CrcWord
                         /\ \A i \in 0 .. 31 : i \in Shift(w, j) <=> i + j \in w
      BY ShiftMoves
    <3>3. QED
      BY <3>1, <3>2
  <2>2. 0 \notin a
    BY <2>1
  <2> HIDE DEF a, b
  <2>3. \A i \in 0 .. 31 : i + 1 \in a <=> i \in b
    <3> SUFFICES ASSUME NEW i \in 0 .. 31 PROVE i + 1 \in a <=> i \in b
      OBVIOUS
    <3>1. CASE i + 1 \in 0 .. 31
      <4>1. (i + 1) + k = i + (k + 1)
        OBVIOUS
      <4>2. QED
        BY <2>1, <3>1, <4>1
    <3>2. CASE i + 1 \notin 0 .. 31
      <4>1. i + 1 \notin a /\ i + (k + 1) \notin 0 .. 31
        BY <2>1, <3>2 DEF CrcWord
      <4>2. QED
        BY <2>1, <4>1 DEF CrcWord
    <3>3. QED
      BY <3>1, <3>2
  <2>4. DivideBit(a) \in CrcWord /\ \A i \in 0 .. 31 : i \in DivideBit(a) <=> i + 1 \in a
    BY <2>1, <2>2, BitDivided
  <2>5. DivideBit(a) = b
    BY <2>1, <2>3, <2>4, SameWord
  <2>6. QED
    BY <2>5 DEF a, b
<1>2. Shift(w, 0) = w
  <2>1. Shift(w, 0) \in CrcWord /\ \A i \in 0 .. 31 : i \in Shift(w, 0) <=> i + 0 \in w
    BY ShiftMoves
  <2>2. \A i \in 0 .. 31 : i + 0 = i
    OBVIOUS
  <2>3. QED
    BY <2>1, <2>2, SameWord
<1>3. /\ DivideBit(Shift(w, 0)) = Shift(w, 1) /\ DivideBit(Shift(w, 1)) = Shift(w, 2)
      /\ DivideBit(Shift(w, 2)) = Shift(w, 3) /\ DivideBit(Shift(w, 3)) = Shift(w, 4)
      /\ DivideBit(Shift(w, 4)) = Shift(w, 5) /\ DivideBit(Shift(w, 5)) = Shift(w, 6)
      /\ DivideBit(Shift(w, 6)) = Shift(w, 7) /\ DivideBit(Shift(w, 7)) = Shift(w, 8)
  BY <1>1
<1>4. QED
  BY <1>2, <1>3, Zenon DEF DivideOctet

\* A word is its lower eight bits and the rest.
LowOf(w) == w \cap 0 .. 7
HighOf(w) == w \ (0 .. 7)
LEMMA LowAndHigh ==
    ASSUME NEW w \in CrcWord
    PROVE  /\ LowOf(w) \in CrcWord /\ HighOf(w) \in CrcWord /\ w = SymDiff(HighOf(w), LowOf(w))
           /\ Shift(HighOf(w), 8) = Shift(w, 8)
           /\ DivideOctet(w) = SymDiff(Shift(w, 8), DivideOctet(LowOf(w)))
<1> DEFINE lo == LowOf(w)
           hi == HighOf(w)
<1>1. lo \in CrcWord /\ hi \in CrcWord /\ w = SymDiff(hi, lo) /\ \A i \in 0 .. 7 : i \notin hi
  BY DEF LowOf, HighOf, CrcWord, SymDiff
<1>2. Shift(hi, 8) = Shift(w, 8)
  <2>1. Shift(hi, 8) \in CrcWord /\ \A i \in 0 .. 31 : i \in Shift(hi, 8) <=> i + 8 \in hi
    BY <1>1, ShiftMoves
  <2>2. Shift(w, 8) \in CrcWord /\ \A i \in 0 .. 31 : i \in Shift(w, 8) <=> i + 8 \in w
    BY ShiftMoves
  <2>3. \A i \in 0 .. 31 : i + 8 \in hi <=> i + 8 \in w
    BY DEF HighOf
  <2>4. QED
    BY <2>1, <2>2, <2>3, SameWord
<1>3. DivideOctet(hi) = Shift(hi, 8)
  BY <1>1, HighMoves
<1>4. DivideOctet(SymDiff(hi, lo)) = SymDiff(DivideOctet(hi), DivideOctet(lo))
  BY <1>1, OctetLinear
<1>5. QED
  BY <1>1, <1>2, <1>3, <1>4

\* The words written down, as the sets of their bits.

LEMMA Bits1217 == Bits(1217) = {0, 6, 7, 10}
BY BitPlaces, PlacesOf
LEMMA Bits1901 == Bits(1901) = {0, 2, 3, 5, 6, 8, 9, 10}
BY BitPlaces, PlacesOf
LEMMA Bits3803 == Bits(3803) = {0, 1, 3, 4, 6, 7, 9, 10, 11}
BY BitPlaces, PlacesOf
LEMMA Bits4196 == Bits(4196) = {2, 5, 6, 12}
BY BitPlaces, PlacesOf
LEMMA Bits7607 == Bits(7607) = {0, 1, 2, 4, 5, 7, 8, 10, 11, 12}
BY BitPlaces, PlacesOf
LEMMA Bits8392 == Bits(8392) = {3, 6, 7, 13}
BY BitPlaces, PlacesOf
LEMMA Bits11593 == Bits(11593) = {0, 3, 6, 8, 10, 11, 13}
BY BitPlaces, PlacesOf
LEMMA Bits12438 == Bits(12438) = {1, 2, 4, 7, 12, 13}
BY BitPlaces, PlacesOf
LEMMA Bits15214 == Bits(15214) = {1, 2, 3, 5, 6, 8, 9, 11, 12, 13}
BY BitPlaces, PlacesOf
LEMMA Bits16784 == Bits(16784) = {4, 7, 8, 14}
BY BitPlaces, PlacesOf
LEMMA Bits24876 == Bits(24876) = {2, 3, 5, 8, 13, 14}
BY BitPlaces, PlacesOf
LEMMA Bits30428 == Bits(30428) = {2, 3, 4, 6, 7, 9, 10, 12, 13, 14}
BY BitPlaces, PlacesOf
LEMMA Bits30471 == Bits(30471) = {0, 1, 2, 8, 9, 10, 12, 13, 14}
BY BitPlaces, PlacesOf
LEMMA Bits33568 == Bits(33568) = {5, 8, 9, 15}
BY BitPlaces, PlacesOf
LEMMA Bits34866 == Bits(34866) = {1, 4, 5, 11, 15}
BY BitPlaces, PlacesOf
LEMMA Bits50201 == Bits(50201) = {0, 3, 4, 10, 14, 15}
BY BitPlaces, PlacesOf
LEMMA Bits50948 == Bits(50948) = {2, 8, 9, 10, 14, 15}
BY BitPlaces, PlacesOf
LEMMA Bits56699 == Bits(56699) = {0, 1, 3, 4, 5, 6, 8, 10, 11, 12, 14, 15}
BY BitPlaces, PlacesOf
LEMMA Bits60122 == Bits(60122) = {1, 3, 4, 6, 7, 9, 11, 13, 14, 15}
BY BitPlaces, PlacesOf
LEMMA Bits60856 == Bits(60856) = {3, 4, 5, 7, 8, 10, 11, 13, 14, 15}
BY BitPlaces, PlacesOf
LEMMA Bits60942 == Bits(60942) = {1, 2, 3, 9, 10, 11, 13, 14, 15}
BY BitPlaces, PlacesOf

LEMMA FirstPower ==
    Word32(30471, 12438) = {1, 2, 4, 7, 12, 13, 16, 17, 18, 24, 25, 26, 28, 29, 30}
BY Bits30471, Bits12438 DEF Word32
LEMMA SecondPower ==
    Word32(60942, 24876) = {2, 3, 5, 8, 13, 14, 17, 18, 19, 25, 26, 27, 29, 30, 31}
BY Bits60942, Bits24876 DEF Word32
LEMMA ThirdPower ==
    Word32(1901, 50201) = {0, 3, 4, 10, 14, 15, 16, 18, 19, 21, 22, 24, 25, 26}
BY Bits1901, Bits50201 DEF Word32
LEMMA FourthPower ==
    Word32(3803, 34866) = {1, 4, 5, 11, 15, 16, 17, 19, 20, 22, 23, 25, 26, 27}
BY Bits3803, Bits34866 DEF Word32
LEMMA FifthPower ==
    Word32(7607, 4196) = {2, 5, 6, 12, 16, 17, 18, 20, 21, 23, 24, 26, 27, 28}
BY Bits7607, Bits4196 DEF Word32
LEMMA SixthPower ==
    Word32(15214, 8392) = {3, 6, 7, 13, 17, 18, 19, 21, 22, 24, 25, 27, 28, 29}
BY Bits15214, Bits8392 DEF Word32
LEMMA SeventhPower ==
    Word32(30428, 16784) = {4, 7, 8, 14, 18, 19, 20, 22, 23, 25, 26, 28, 29, 30}
BY Bits30428, Bits16784 DEF Word32
LEMMA EighthPower ==
    Word32(60856, 33568) = {5, 8, 9, 15, 19, 20, 21, 23, 24, 26, 27, 29, 30, 31}
BY Bits60856, Bits33568 DEF Word32
LEMMA DivisorWord ==
    Word32(1217, 7607) = {0, 1, 2, 4, 5, 7, 8, 10, 11, 12, 16, 22, 23, 26}
BY Bits1217, Bits7607 DEF Word32
LEMMA RemainderWord ==
    Word32(50948, 56699) = {0, 1, 3, 4, 5, 6, 8, 10, 11, 12, 14, 15, 18, 24, 25, 26, 30, 31}
BY Bits50948, Bits56699 DEF Word32
LEMMA SeedWord ==
    Word32(60122, 11593) = {0, 3, 6, 8, 10, 11, 13, 17, 19, 20, 22, 23, 25, 27, 29, 30, 31}
BY Bits60122, Bits11593 DEF Word32

LEMMA DividesBits ==
    \A w, v \in CrcWord :
        (\A i \in 0 .. 31 : i \in v <=> (i + 1 \in w) # (0 \in w /\ i \in Polynomial)) =>
            DivideBit(w) = v
BY BitDivided, SameWord

\* The table: what a byte that goes through the division leaves.

LEMMA EighthDivided ==
    DivideBit({5, 8, 9, 15, 19, 20, 21, 23, 24, 26, 27, 29, 30, 31}) =
        {4, 7, 8, 14, 18, 19, 20, 22, 23, 25, 26, 28, 29, 30}
<1> DEFINE w == {5, 8, 9, 15, 19, 20, 21, 23, 24, 26, 27, 29, 30, 31}
           v == {4, 7, 8, 14, 18, 19, 20, 22, 23, 25, 26, 28, 29, 30}
<1>1. w \in CrcWord /\ v \in CrcWord
  BY DEF CrcWord
<1>2. \A i \in 0 .. 31 : i \in v <=> (i + 1 \in w) # (0 \in w /\ i \in Polynomial)
  BY EighthPower DEF Polynomial
<1> HIDE DEF w, v
<1>3. DivideBit(w) = v
  BY <1>1, <1>2, DividesBits
<1>4. QED
  BY <1>3 DEF w, v
LEMMA SeventhDivided ==
    DivideBit({4, 7, 8, 14, 18, 19, 20, 22, 23, 25, 26, 28, 29, 30}) =
        {3, 6, 7, 13, 17, 18, 19, 21, 22, 24, 25, 27, 28, 29}
<1> DEFINE w == {4, 7, 8, 14, 18, 19, 20, 22, 23, 25, 26, 28, 29, 30}
           v == {3, 6, 7, 13, 17, 18, 19, 21, 22, 24, 25, 27, 28, 29}
<1>1. w \in CrcWord /\ v \in CrcWord
  BY DEF CrcWord
<1>2. \A i \in 0 .. 31 : i \in v <=> (i + 1 \in w) # (0 \in w /\ i \in Polynomial)
  BY EighthPower DEF Polynomial
<1> HIDE DEF w, v
<1>3. DivideBit(w) = v
  BY <1>1, <1>2, DividesBits
<1>4. QED
  BY <1>3 DEF w, v
LEMMA SixthDivided ==
    DivideBit({3, 6, 7, 13, 17, 18, 19, 21, 22, 24, 25, 27, 28, 29}) =
        {2, 5, 6, 12, 16, 17, 18, 20, 21, 23, 24, 26, 27, 28}
<1> DEFINE w == {3, 6, 7, 13, 17, 18, 19, 21, 22, 24, 25, 27, 28, 29}
           v == {2, 5, 6, 12, 16, 17, 18, 20, 21, 23, 24, 26, 27, 28}
<1>1. w \in CrcWord /\ v \in CrcWord
  BY DEF CrcWord
<1>2. \A i \in 0 .. 31 : i \in v <=> (i + 1 \in w) # (0 \in w /\ i \in Polynomial)
  BY EighthPower DEF Polynomial
<1> HIDE DEF w, v
<1>3. DivideBit(w) = v
  BY <1>1, <1>2, DividesBits
<1>4. QED
  BY <1>3 DEF w, v
LEMMA FifthDivided ==
    DivideBit({2, 5, 6, 12, 16, 17, 18, 20, 21, 23, 24, 26, 27, 28}) =
        {1, 4, 5, 11, 15, 16, 17, 19, 20, 22, 23, 25, 26, 27}
<1> DEFINE w == {2, 5, 6, 12, 16, 17, 18, 20, 21, 23, 24, 26, 27, 28}
           v == {1, 4, 5, 11, 15, 16, 17, 19, 20, 22, 23, 25, 26, 27}
<1>1. w \in CrcWord /\ v \in CrcWord
  BY DEF CrcWord
<1>2. \A i \in 0 .. 31 : i \in v <=> (i + 1 \in w) # (0 \in w /\ i \in Polynomial)
  BY EighthPower DEF Polynomial
<1> HIDE DEF w, v
<1>3. DivideBit(w) = v
  BY <1>1, <1>2, DividesBits
<1>4. QED
  BY <1>3 DEF w, v
LEMMA FourthDivided ==
    DivideBit({1, 4, 5, 11, 15, 16, 17, 19, 20, 22, 23, 25, 26, 27}) =
        {0, 3, 4, 10, 14, 15, 16, 18, 19, 21, 22, 24, 25, 26}
<1> DEFINE w == {1, 4, 5, 11, 15, 16, 17, 19, 20, 22, 23, 25, 26, 27}
           v == {0, 3, 4, 10, 14, 15, 16, 18, 19, 21, 22, 24, 25, 26}
<1>1. w \in CrcWord /\ v \in CrcWord
  BY DEF CrcWord
<1>2. \A i \in 0 .. 31 : i \in v <=> (i + 1 \in w) # (0 \in w /\ i \in Polynomial)
  BY EighthPower DEF Polynomial
<1> HIDE DEF w, v
<1>3. DivideBit(w) = v
  BY <1>1, <1>2, DividesBits
<1>4. QED
  BY <1>3 DEF w, v
LEMMA ThirdDivided ==
    DivideBit({0, 3, 4, 10, 14, 15, 16, 18, 19, 21, 22, 24, 25, 26}) =
        {2, 3, 5, 8, 13, 14, 17, 18, 19, 25, 26, 27, 29, 30, 31}
<1> DEFINE w == {0, 3, 4, 10, 14, 15, 16, 18, 19, 21, 22, 24, 25, 26}
           v == {2, 3, 5, 8, 13, 14, 17, 18, 19, 25, 26, 27, 29, 30, 31}
<1>1. w \in CrcWord /\ v \in CrcWord
  BY DEF CrcWord
<1>2. \A i \in 0 .. 31 : i \in v <=> (i + 1 \in w) # (0 \in w /\ i \in Polynomial)
  BY EighthPower DEF Polynomial
<1> HIDE DEF w, v
<1>3. DivideBit(w) = v
  BY <1>1, <1>2, DividesBits
<1>4. QED
  BY <1>3 DEF w, v
LEMMA SecondDivided ==
    DivideBit({2, 3, 5, 8, 13, 14, 17, 18, 19, 25, 26, 27, 29, 30, 31}) =
        {1, 2, 4, 7, 12, 13, 16, 17, 18, 24, 25, 26, 28, 29, 30}
<1> DEFINE w == {2, 3, 5, 8, 13, 14, 17, 18, 19, 25, 26, 27, 29, 30, 31}
           v == {1, 2, 4, 7, 12, 13, 16, 17, 18, 24, 25, 26, 28, 29, 30}
<1>1. w \in CrcWord /\ v \in CrcWord
  BY DEF CrcWord
<1>2. \A i \in 0 .. 31 : i \in v <=> (i + 1 \in w) # (0 \in w /\ i \in Polynomial)
  BY EighthPower, SMTT(30) DEF Polynomial
<1> HIDE DEF w, v
<1>3. DivideBit(w) = v
  BY <1>1, <1>2, DividesBits
<1>4. QED
  BY <1>3 DEF w, v
LEMMA PowerDivided ==
    \A i \in 2 .. 8 : DivideBit(TablePowers[i]) = TablePowers[i - 1]
<1>1. DivideBit(TablePowers[8]) = TablePowers[7]
  <2>1. TablePowers[8] = Word32(60856, 33568) /\ TablePowers[7] = Word32(30428, 16784)
    BY DEF TablePowers
  <2>2. QED
    BY <2>1, EighthPower, SeventhPower, EighthDivided
<1>2. DivideBit(TablePowers[7]) = TablePowers[6]
  <2>1. TablePowers[7] = Word32(30428, 16784) /\ TablePowers[6] = Word32(15214, 8392)
    BY DEF TablePowers
  <2>2. QED
    BY <2>1, SeventhPower, SixthPower, SeventhDivided
<1>3. DivideBit(TablePowers[6]) = TablePowers[5]
  <2>1. TablePowers[6] = Word32(15214, 8392) /\ TablePowers[5] = Word32(7607, 4196)
    BY DEF TablePowers
  <2>2. QED
    BY <2>1, SixthPower, FifthPower, SixthDivided
<1>4. DivideBit(TablePowers[5]) = TablePowers[4]
  <2>1. TablePowers[5] = Word32(7607, 4196) /\ TablePowers[4] = Word32(3803, 34866)
    BY DEF TablePowers
  <2>2. QED
    BY <2>1, FifthPower, FourthPower, FifthDivided
<1>5. DivideBit(TablePowers[4]) = TablePowers[3]
  <2>1. TablePowers[4] = Word32(3803, 34866) /\ TablePowers[3] = Word32(1901, 50201)
    BY DEF TablePowers
  <2>2. QED
    BY <2>1, FourthPower, ThirdPower, FourthDivided
<1>6. DivideBit(TablePowers[3]) = TablePowers[2]
  <2>1. TablePowers[3] = Word32(1901, 50201) /\ TablePowers[2] = Word32(60942, 24876)
    BY DEF TablePowers
  <2>2. QED
    BY <2>1, ThirdPower, SecondPower, ThirdDivided
<1>7. DivideBit(TablePowers[2]) = TablePowers[1]
  <2>1. TablePowers[2] = Word32(60942, 24876) /\ TablePowers[1] = Word32(30471, 12438)
    BY DEF TablePowers
  <2>2. QED
    BY <2>1, SecondPower, FirstPower, SecondDivided
<1> HIDE DEF TablePowers
<1>8. \A i \in 2 .. 8 : i = 2 \/ i = 3 \/ i = 4 \/ i = 5 \/ i = 6 \/ i = 7 \/ i = 8
  OBVIOUS
<1>9. QED
  BY <1>1, <1>2, <1>3, <1>4, <1>5, <1>6, <1>7, <1>8
LEMMA OneBitDivided ==
    /\ DivideBit({}) = {}
    /\ DivideBit({0}) = TablePowers[8]
    /\ \A i \in 1 .. 31 : DivideBit({i}) = {i - 1}
<1>1. DivideBit({}) = {}
  BY DividesBits DEF CrcWord
<1>2. DivideBit({0}) = TablePowers[8]
  <2>1. TablePowers[8] = Polynomial
    BY DEF TablePowers, Polynomial
  <2>2. {0} \in CrcWord /\ Polynomial \in CrcWord
    BY WordWord DEF CrcWord, Polynomial
  <2>3. \A i \in 0 .. 31 : i + 1 \notin {0}
    OBVIOUS
  <2>4. QED
    BY <2>1, <2>2, <2>3, DividesBits
<1>3. ASSUME NEW i \in 1 .. 31 PROVE DivideBit({i}) = {i - 1}
  <2>1. {i} \in CrcWord /\ {i - 1} \in CrcWord /\ 0 \notin {i}
    BY DEF CrcWord
  <2>2. \A j \in 0 .. 31 : j \in {i - 1} <=> j + 1 \in {i}
    OBVIOUS
  <2>3. QED
    BY <2>1, <2>2, DividesBits
<1>4. QED
  BY <1>1, <1>2, <1>3
LEMMA OctetOfOne ==
    /\ DivideOctet({}) = {}
    /\ \A i \in 0 .. 7 : DivideOctet({i}) = TablePowers[i + 1]
<1>1. DivideOctet({}) = {}
  BY OneBitDivided, ZenonT(40) DEF DivideOctet
<1>2. /\ DivideBit({7}) = {6} /\ DivideBit({6}) = {5} /\ DivideBit({5}) = {4}
      /\ DivideBit({4}) = {3} /\ DivideBit({3}) = {2} /\ DivideBit({2}) = {1}
      /\ DivideBit({1}) = {0} /\ DivideBit({0}) = TablePowers[8]
  BY OneBitDivided
<1> HIDE DEF TablePowers
<1>3. /\ DivideBit(TablePowers[8]) = TablePowers[7]
      /\ DivideBit(TablePowers[7]) = TablePowers[6]
      /\ DivideBit(TablePowers[6]) = TablePowers[5]
      /\ DivideBit(TablePowers[5]) = TablePowers[4]
      /\ DivideBit(TablePowers[4]) = TablePowers[3]
      /\ DivideBit(TablePowers[3]) = TablePowers[2]
      /\ DivideBit(TablePowers[2]) = TablePowers[1]
  BY PowerDivided
<1>4. /\ DivideOctet({0}) = TablePowers[1] /\ DivideOctet({1}) = TablePowers[2]
      /\ DivideOctet({2}) = TablePowers[3] /\ DivideOctet({3}) = TablePowers[4]
      /\ DivideOctet({4}) = TablePowers[5] /\ DivideOctet({5}) = TablePowers[6]
      /\ DivideOctet({6}) = TablePowers[7] /\ DivideOctet({7}) = TablePowers[8]
  BY <1>2, <1>3 DEF DivideOctet
<1>5. \A i \in 0 .. 7 : i = 0 \/ i = 1 \/ i = 2 \/ i = 3 \/ i = 4 \/ i = 5 \/ i = 6 \/ i = 7
  OBVIOUS
<1>6. QED
  BY <1>1, <1>4, <1>5

LEMMA TableDivides ==
    ASSUME NEW lo \in SUBSET (0 .. 7)
    PROVE  crc32_table[lo] = DivideOctet(lo) /\ crc32_table[lo] \in CrcWord
<1> DEFINE Obeys(f) == f = [i \in 0 .. 8 |->
                IF i = 0 THEN {}
                ELSE IF i - 1 \in lo THEN SymDiff(f[i - 1], TablePowers[i]) ELSE f[i - 1]]
           s == CHOOSE f : Obeys(f)
           below(i) == lo \cap 0 .. i - 1
           g == [i \in 0 .. 8 |-> DivideOctet(below(i))]
<1>1. crc32_table[lo] = s[8]
  BY DEF crc32_table
<1>2. g[0] = {}
  <2>1. below(0) = {}
    OBVIOUS
  <2>2. QED
    BY <2>1, OctetOfOne
<1>3. ASSUME NEW i \in 1 .. 8
      PROVE  g[i] = IF i - 1 \in lo THEN SymDiff(g[i - 1], TablePowers[i]) ELSE g[i - 1]
  <2> HIDE DEF TablePowers
  <2>1. g[i] = DivideOctet(below(i)) /\ g[i - 1] = DivideOctet(below(i - 1))
    BY DEF g
  <2>2. CASE i - 1 \in lo
    <3>1. below(i) = SymDiff(below(i - 1), {i - 1})
      BY <2>2 DEF SymDiff
    <3>2. below(i - 1) \in CrcWord /\ {i - 1} \in CrcWord
      BY DEF CrcWord
    <3> HIDE DEF below
    <3>3. DivideOctet({i - 1}) = TablePowers[i]
      <4>1. i - 1 \in 0 .. 7 /\ (i - 1) + 1 = i
        OBVIOUS
      <4>2. QED
        BY <4>1, OctetOfOne
    <3>4. DivideOctet(below(i)) = SymDiff(DivideOctet(below(i - 1)), TablePowers[i])
      BY <3>1, <3>2, <3>3, OctetLinear
    <3>5. QED
      BY <2>1, <2>2, <3>4
  <2>3. CASE i - 1 \notin lo
    <3>1. below(i) = below(i - 1)
      BY <2>3
    <3>2. QED
      BY <2>1, <2>3, <3>1
  <2>4. QED
    BY <2>2, <2>3
<1> HIDE DEF TablePowers
<1>4. Obeys(g)
  <2>1. \A i \in 0 .. 8 : i # 0 => i \in 1 .. 8
    OBVIOUS
  <2>2. \A i \in 0 .. 8 : g[i] = IF i = 0 THEN {}
                ELSE IF i - 1 \in lo THEN SymDiff(g[i - 1], TablePowers[i]) ELSE g[i - 1]
    BY <1>2, <1>3, <2>1
  <2>3. g = [i \in 0 .. 8 |-> g[i]]
    OBVIOUS
  <2> HIDE DEF g
  <2>4. QED
    BY <2>2, <2>3
<1>5. Obeys(s)
  <2>1. \E f : Obeys(f)
    BY <1>4
  <2> HIDE DEF Obeys
  <2>2. QED
    BY <2>1
<1> HIDE DEF s
<1>6. s[0] = {} /\ \A i \in 1 .. 8 :
            s[i] = IF i - 1 \in lo THEN SymDiff(s[i - 1], TablePowers[i]) ELSE s[i - 1]
  BY <1>5
<1> HIDE DEF Obeys, g
<1>7. \A i \in 1 .. 8 : s[i - 1] = g[i - 1] => s[i] = g[i]
  BY <1>3, <1>6
<1>8. /\ s[0] = g[0] => s[1] = g[1]
      /\ s[1] = g[1] => s[2] = g[2]
      /\ s[2] = g[2] => s[3] = g[3]
      /\ s[3] = g[3] => s[4] = g[4]
      /\ s[4] = g[4] => s[5] = g[5]
      /\ s[5] = g[5] => s[6] = g[6]
      /\ s[6] = g[6] => s[7] = g[7]
      /\ s[7] = g[7] => s[8] = g[8]
  BY <1>7
<1>9. s[8] = g[8]
  BY <1>2, <1>6, <1>8
<1>10. g[8] = DivideOctet(below(8)) /\ below(8) = lo
  <2>1. \A i \in 0 .. 8 : g[i] = DivideOctet(below(i))
    BY DEF g
  <2>2. below(8) = lo
    <3>1. \A i \in lo : i \in 0 .. 8 - 1
      OBVIOUS
    <3>2. QED
      BY <3>1, Zenon
  <2>3. QED
    BY <2>1, <2>2
<1>11. DivideOctet(lo) \in CrcWord
  <2>1. lo \in CrcWord
    BY DEF CrcWord
  <2>2. QED
    BY <2>1, OctetDivided
<1>12. QED
  BY <1>1, <1>9, <1>10, <1>11

\* So a byte goes through the table as it goes through the bits.
LEMMA TableStepDivides ==
    ASSUME NEW w \in CrcWord, NEW byte \in 0 .. 255
    PROVE  /\ TableStep(w, byte) = DivideOctet(SymDiff(w, Bits(byte)))
           /\ ByteStep(w, byte) = DivideOctet(SymDiff(w, Bits(byte)))
           /\ TableStep(w, byte) \in CrcWord /\ ByteStep(w, byte) \in CrcWord
<1> DEFINE mixed == SymDiff(w, Bits(byte))
<1>1. mixed \in CrcWord
  BY ByteBits, XorWord
<1> HIDE DEF mixed
<1>2. LowOf(mixed) \in SUBSET (0 .. 7) /\ LowOf(mixed) = mixed \cap 0 .. 7
  BY DEF LowOf
<1>3. DivideOctet(mixed) = SymDiff(Shift(mixed, 8), crc32_table[LowOf(mixed)])
  BY <1>1, <1>2, LowAndHigh, TableDivides
<1>4. TableStep(w, byte) = DivideOctet(mixed)
  BY <1>2, <1>3 DEF TableStep, mixed
<1>5. ByteStep(w, byte) = DivideOctet(mixed) /\ DivideOctet(mixed) \in CrcWord
  BY <1>1, OctetDivided DEF ByteStep, mixed
<1>6. QED
  BY <1>4, <1>5 DEF mixed

-----------------------------------------------------------------------------
\* The controller's division has the bits the other way round.

Mirror(w) == {31 - i : i \in w}
LEMMA Mirrored ==
    \A w \in CrcWord : /\ Mirror(w) \in CrcWord
                       /\ \A i \in 0 .. 31 : i \in Mirror(w) <=> 31 - i \in w
<1> SUFFICES ASSUME NEW w \in CrcWord
             PROVE  /\ Mirror(w) \in CrcWord
                    /\ \A i \in 0 .. 31 : i \in Mirror(w) <=> 31 - i \in w
  OBVIOUS
<1>1. \A j \in w : j \in 0 .. 31
  BY DEF CrcWord
<1>2. \A i \in Mirror(w) : \E j \in w : i = 31 - j
  BY DEF Mirror
<1>3. ASSUME NEW i \in Mirror(w) PROVE i \in 0 .. 31 /\ 31 - i \in w
  <2>1. PICK j \in w : i = 31 - j
    BY <1>2
  <2>2. j \in 0 .. 31
    BY <1>1
  <2>3. 31 - i = j
    BY <2>1, <2>2
  <2>4. QED
    BY <2>1, <2>2, <2>3
<1>4. ASSUME NEW i \in 0 .. 31, 31 - i \in w PROVE i \in Mirror(w)
  <2>1. i = 31 - (31 - i)
    OBVIOUS
  <2>2. QED
    BY <1>4, <2>1 DEF Mirror
<1>5. QED
  BY <1>3, <1>4 DEF CrcWord
LEMMA DivisorIsMirror ==
    \A i \in 0 .. 31 : i \in Word32(1217, 7607) <=> 31 - i \in Polynomial
<1> DEFINE p == {5, 8, 9, 15, 19, 20, 21, 23, 24, 26, 27, 29, 30, 31}
           d == {0, 1, 2, 4, 5, 7, 8, 10, 11, 12, 16, 22, 23, 26}
<1>1. Polynomial = p /\ Word32(1217, 7607) = d
  BY EighthPower, DivisorWord DEF Polynomial
<1>2. \A i \in 0 .. 31 : i \in d <=> 31 - i \in p
  OBVIOUS
<1> HIDE DEF p, d
<1>3. QED
  BY <1>1, <1>2

LEMMA DividesMirrored ==
    ASSUME NEW f \in CrcWord, NEW s \in CrcWord, NEW bit \in BOOLEAN, bit <=> 0 \in s
    PROVE  LongDivision(Mirror(SymDiff(f, s)), bit) =
                Mirror(SymDiff(DivideBit(f), Shift(s, 1)))
<1> DEFINE r == Mirror(SymDiff(f, s))
           shifted == {i + 1 : i \in r \ {31}}
           divisor == Word32(1217, 7607)
           g == DivideBit(f)
           t == Shift(s, 1)
           after == Mirror(SymDiff(g, t))
           v == LongDivision(r, bit)
<1>1. /\ r \in CrcWord
      /\ \A i \in 0 .. 31 : i \in r <=> (31 - i \in f) # (31 - i \in s)
  BY XorWord, Mirrored, Xor
<1>2. g \in CrcWord /\ \A i \in 0 .. 31 : i \in g <=> (i + 1 \in f) # (0 \in f /\ i \in Polynomial)
  BY BitDivided
<1>3. t \in CrcWord /\ \A i \in 0 .. 31 : i \in t <=> i + 1 \in s
  BY ShiftMoves
<1> HIDE DEF g, t
<1>4. /\ after \in CrcWord
      /\ \A i \in 0 .. 31 : i \in after <=> (31 - i \in g) # (31 - i \in t)
  BY <1>2, <1>3, XorWord, Mirrored, Xor
<1> HIDE DEF r, after
<1>5. v = IF (31 \in r) # bit THEN SymDiff(shifted, divisor) ELSE shifted
  BY DEF LongDivision
<1>6. v \in CrcWord
  BY <1>1, DivisionWord
<1>7. \A i \in 0 .. 31 : i \in divisor <=> 31 - i \in Polynomial
  BY DivisorIsMirror
<1> HIDE DEF divisor
<1>8. (31 \in r) # bit <=> 0 \in f
  <2>1. 31 \in r <=> (31 - 31 \in f) # (31 - 31 \in s)
    BY <1>1
  <2>2. 31 - 31 = 0
    OBVIOUS
  <2>3. QED
    BY <2>1, <2>2
<1>9. ASSUME NEW i \in 0 .. 31 PROVE i \in shifted <=> i - 1 \in r
  <2>1. r \subseteq 0 .. 31
    BY <1>1 DEF CrcWord
  <2>2. i \in shifted => i - 1 \in r
    BY <2>1
  <2>3. i - 1 \in r => i \in shifted
    <3>1. i - 1 # 31 /\ i = (i - 1) + 1
      OBVIOUS
    <3>2. QED
      BY <3>1
  <2>4. QED
    BY <2>2, <2>3
<1> HIDE DEF shifted, v
<1>10. ASSUME NEW i \in 0 .. 31 PROVE i \in v <=> i \in after
  <2> DEFINE j == 31 - i
  <2>1. j \in 0 .. 31 /\ (j \in 0 .. 30 \/ j = 31)
    OBVIOUS
  <2>2. i - 1 \in r <=> (j + 1 \in f) # (j + 1 \in s)
    <3>1. CASE i = 0
      <4>1. i - 1 \notin 0 .. 31 /\ j + 1 \notin 0 .. 31
        BY <3>1
      <4>2. QED
        BY <1>1, <4>1 DEF CrcWord
    <3>2. CASE i # 0
      <4>1. i - 1 \in 0 .. 31 /\ 31 - (i - 1) = j + 1
        BY <3>2
      <4>2. i - 1 \in r <=> (31 - (i - 1) \in f) # (31 - (i - 1) \in s)
        BY <1>1, <4>1
      <4>3. QED
        BY <4>1, <4>2
    <3>3. QED
      BY <3>1, <3>2
  <2>3. i \in after <=> (j \in g) # (j \in t)
    BY <1>4
  <2>4. i \in divisor <=> j \in Polynomial
    BY <1>7
  <2> HIDE DEF j
  <2>5. j \in g <=> (j + 1 \in f) # (0 \in f /\ j \in Polynomial)
    BY <1>2, <2>1
  <2>6. j \in t <=> j + 1 \in s
    BY <1>3, <2>1
  <2>7. i \in v <=> (i - 1 \in r) # (0 \in f /\ i \in divisor)
    BY <1>5, <1>8, <1>9, Xor
  <2>8. QED
    BY <2>2, <2>3, <2>4, <2>5, <2>6, <2>7
<1>11. v = after
  BY <1>4, <1>6, <1>10, SameWord
<1>12. QED
  BY <1>11 DEF v, after, r, g, t

LEMMA ByteDivided ==
    ASSUME NEW w \in CrcWord, NEW byte \in 0 .. 255
    PROVE  DivideByte(Mirror(w), byte) = Mirror(DivideOctet(SymDiff(w, Bits(byte))))
<1> DEFINE s == Bits(byte)
           mixed == SymDiff(w, s)
           count == [bit \in 1 .. 8 |-> bit]
           data == [i \in 1 .. 8 |-> i - 1 \in Bits(byte)]
<1>1. s \in CrcWord /\ s \subseteq 0 .. 7 /\ mixed \in CrcWord
  BY ByteBits, XorWord
<1>2. /\ count \in Seq(Int) /\ Len(count) = 8 /\ \A k \in 1 .. 8 : count[k] \in Int
      /\ data \in Seq(BOOLEAN) /\ Len(data) = 8
      /\ \A k \in 1 .. 8 : data[k] \in BOOLEAN /\ data[k] = (k - 1 \in s)
  OBVIOUS
<1>3. Mirror(w) \in CrcWord
  BY Mirrored
<1>4. /\ StepThrough(BitStep, mixed, count) = DivideOctet(mixed)
      /\ DivideByte(Mirror(w), byte) = StepThrough(LongDivision, Mirror(w), data)
  BY <1>1, OctetDivided DEF DivideByte
<1> HIDE DEF count, data, s, mixed
<1>5. PICK f : /\ Steps(f, 8, mixed) /\ f[8] = StepThrough(BitStep, mixed, count)
               /\ \A k \in 1 .. 8 : f[k] = BitStep(f[k - 1], count[k])
  <2>1. \A n \in Nat : Len(count) = n /\ (\A k \in 1 .. n : count[k] \in Int) =>
            \E f : /\ Steps(f, n, mixed) /\ f[n] = StepThrough(BitStep, mixed, count)
                   /\ \A k \in 1 .. n : f[k] = BitStep(f[k - 1], count[k])
    BY <1>1, BitLoop
  <2>2. QED
    BY <1>2, <2>1
<1>6. PICK r : /\ Steps(r, 8, Mirror(w)) /\ r[8] = StepThrough(LongDivision, Mirror(w), data)
               /\ \A k \in 1 .. 8 : r[k] = LongDivision(r[k - 1], data[k])
  <2>1. \A n \in Nat : Len(data) = n /\ (\A k \in 1 .. n : data[k] \in BOOLEAN) =>
            \E r : /\ Steps(r, n, Mirror(w)) /\ r[n] = StepThrough(LongDivision, Mirror(w), data)
                   /\ \A k \in 1 .. n : r[k] = LongDivision(r[k - 1], data[k])
    BY <1>3, DivisionLoop
  <2>2. QED
    BY <1>2, <2>1
<1> DEFINE Alike == {k \in 0 .. 8 : r[k] = Mirror(SymDiff(f[k], Shift(s, k)))}
<1>7. 0 \in Alike
  <2>1. r[0] = Mirror(w) /\ f[0] = mixed
    BY <1>5, <1>6 DEF Steps
  <2>2. Shift(s, 0) \in CrcWord /\ \A i \in 0 .. 31 : i \in Shift(s, 0) <=> i \in s
    <3>1. Shift(s, 0) \in CrcWord /\ \A i \in 0 .. 31 : i \in Shift(s, 0) <=> i + 0 \in s
      BY <1>1, ShiftMoves
    <3>2. QED
      BY <3>1
  <2>3. SymDiff(mixed, Shift(s, 0)) \in CrcWord
    BY <1>1, <2>2, XorWord
  <2>4. \A i \in 0 .. 31 : i \in SymDiff(mixed, Shift(s, 0)) <=> i \in w
    BY <2>2, Xor DEF mixed
  <2>5. SymDiff(mixed, Shift(s, 0)) = w
    BY <2>3, <2>4, SameWord
  <2>6. QED
    BY <2>1, <2>5
<1>8. ASSUME NEW k \in 0 .. 8 - 1, k \in Alike PROVE k + 1 \in Alike
  <2> DEFINE bit == data[k + 1]
             t == Shift(s, k)
  <2>1. k + 1 \in 1 .. 8 /\ (k + 1) - 1 = k /\ k \in 0 .. 8 /\ k \in Nat
    OBVIOUS
  <2>2. r[k + 1] = LongDivision(r[k], bit) /\ f[k + 1] = DivideBit(f[k])
    BY <1>5, <1>6, <2>1 DEF DivideBit, BitStep
  <2>3. f[k] \in CrcWord
    BY <1>5, <2>1 DEF Steps
  <2>4. t \in CrcWord /\ \A i \in 0 .. 31 : i \in t <=> i + k \in s
    BY <1>1, <2>1, ShiftMoves
  <2>5. bit \in BOOLEAN /\ (bit <=> 0 \in t)
    <3>1. bit \in BOOLEAN /\ bit = (k \in s)
      BY <1>2, <2>1
    <3>2. 0 \in t <=> k \in s
      BY <2>4
    <3>3. QED
      BY <3>1, <3>2
  <2>6. Shift(t, 1) = Shift(s, k + 1)
    <3>1. Shift(t, 1) \in CrcWord /\ \A i \in 0 .. 31 : i \in Shift(t, 1) <=> i + 1 \in t
      BY <2>4, ShiftMoves
    <3>2. /\ Shift(s, k + 1) \in CrcWord
          /\ \A i \in 0 .. 31 : i \in Shift(s, k + 1) <=> i + (k + 1) \in s
      <4>1. \A j \in Nat : /\ Shift(s, j) \in CrcWord
                           /\ \A i \in 0 .. 31 : i \in Shift(s, j) <=> i + j \in s
        BY <1>1, ShiftMoves
      <4>2. k + 1 \in Nat
        OBVIOUS
      <4>3. QED
        BY <4>1, <4>2
    <3>3. ASSUME NEW i \in 0 .. 31 PROVE i + 1 \in t <=> i + (k + 1) \in s
      <4>1. CASE i + 1 \in 0 .. 31
        <5>1. (i + 1) + k = i + (k + 1)
          OBVIOUS
        <5>2. QED
          BY <2>4, <4>1, <5>1
      <4>2. CASE i + 1 \notin 0 .. 31
        <5>1. i + (k + 1) \notin 0 .. 31
          BY <4>2
        <5>2. QED
          BY <1>1, <2>4, <4>2, <5>1 DEF CrcWord
      <4>3. QED
        BY <4>1, <4>2
    <3>4. QED
      BY <3>1, <3>2, <3>3, SameWord
  <2>7. r[k] = Mirror(SymDiff(f[k], t))
    BY <1>8
  <2> HIDE DEF bit, t
  <2>8. LongDivision(Mirror(SymDiff(f[k], t)), bit) = Mirror(SymDiff(DivideBit(f[k]), Shift(t, 1)))
    BY <2>3, <2>4, <2>5, DividesMirrored
  <2>9. r[k + 1] = Mirror(SymDiff(f[k + 1], Shift(s, k + 1))) /\ k + 1 \in 0 .. 8
    BY <2>1, <2>2, <2>6, <2>7, <2>8
  <2>10. QED
    BY <2>9
<1>9. 8 \in Alike
  <2> HIDE DEF Alike
  <2>1. 0 .. 8 \subseteq Alike
    BY <1>7, <1>8, UpTo
  <2>2. QED
    BY <2>1
<1>10. r[8] = Mirror(SymDiff(f[8], Shift(s, 8)))
  BY <1>9
<1>11. SymDiff(f[8], Shift(s, 8)) = f[8]
  <2>1. Shift(s, 8) \in CrcWord /\ \A i \in 0 .. 31 : i \in Shift(s, 8) <=> i + 8 \in s
    BY <1>1, ShiftMoves
  <2>2. \A i \in 0 .. 31 : i \notin Shift(s, 8)
    BY <1>1, <2>1
  <2>3. f[8] \in CrcWord
    BY <1>5 DEF Steps
  <2>4. QED
    BY <2>1, <2>2, <2>3, XorWord, Xor, SameWord
<1>12. QED
  BY <1>4, <1>5, <1>6, <1>10, <1>11 DEF mixed, s

LEMMA TableStepWord == \A w \in CrcWord, b \in 0 .. 255 : TableStep(w, b) \in CrcWord
BY TableStepDivides
LEMMA ByteStepWord == \A w \in CrcWord, b \in 0 .. 255 : ByteStep(w, b) \in CrcWord
BY TableStepDivides
LEMMA DivideByteWord == \A w \in CrcWord, b \in 0 .. 255 : DivideByte(w, b) \in CrcWord
<1> SUFFICES ASSUME NEW w \in CrcWord, NEW b \in 0 .. 255 PROVE DivideByte(w, b) \in CrcWord
  OBVIOUS
<1>1. Mirror(Mirror(w)) = w /\ Mirror(w) \in CrcWord
  <2>1. Mirror(w) \in CrcWord /\ \A i \in 0 .. 31 : i \in Mirror(w) <=> 31 - i \in w
    BY Mirrored
  <2>2. /\ Mirror(Mirror(w)) \in CrcWord
        /\ \A i \in 0 .. 31 : i \in Mirror(Mirror(w)) <=> 31 - i \in Mirror(w)
    BY <2>1, Mirrored
  <2>3. \A i \in 0 .. 31 : 31 - i \in 0 .. 31 /\ 31 - (31 - i) = i
    OBVIOUS
  <2>4. \A i \in 0 .. 31 : i \in Mirror(Mirror(w)) <=> i \in w
    BY <2>1, <2>2, <2>3
  <2>5. QED
    BY <2>1, <2>2, <2>4, SameWord
<1>2. DivideByte(w, b) = Mirror(DivideOctet(SymDiff(Mirror(w), Bits(b))))
  BY <1>1, ByteDivided
<1>3. DivideOctet(SymDiff(Mirror(w), Bits(b))) \in CrcWord
  BY <1>1, ByteBits, XorWord, OctetDivided
<1>4. QED
  BY <1>2, <1>3, Mirrored

LEMMA TableLoop ==
    ASSUME NEW crc \in CrcWord, NEW data, NEW n \in Nat, Len(data) = n,
           \A k \in 1 .. n : data[k] \in 0 .. 255
    PROVE  \E f : Steps(f, n, crc) /\ f[n] = StepThrough(TableStep, crc, data)
                  /\ \A k \in 1 .. n : f[k] = TableStep(f[k - 1], data[k])
<1> DEFINE turn == [p \in (1 .. n) \X CrcWord |-> TableStep(p[2], data[p[1]])]
           Obeys(f) == f = [k \in 0 .. Len(data) |->
                                IF k = 0 THEN crc
                                ELSE UNION {TableStep(w, data[k]) : w \in {f[k - 1]}}]
           s == CHOOSE f : Obeys(f)
<1>1. s[n] = StepThrough(TableStep, crc, data)
  BY DEF StepThrough
<1>2. PICK g : Course(g, n, CrcWord, crc, turn)
  <2>1. \A k \in 1 .. n, w \in CrcWord : TableStep(w, data[k]) \in CrcWord
    BY TableStepWord
  <2>2. turn \in Turns(n, CrcWord)
    BY <2>1 DEF Turns
  <2> HIDE DEF turn
  <2>3. QED
    BY <2>2, CourseExists
<1>3. Obeys(g)
  <2>1. ASSUME NEW k \in 1 .. n PROVE g[k] = TableStep(g[k - 1], data[k])
    <3>1. g[k - 1] \in CrcWord /\ g[k] = turn[<<k, g[k - 1]>>]
      <4> HIDE DEF turn
      <4>1. g \in [0 .. n -> CrcWord] /\ k - 1 \in 0 .. n
        BY <1>2 DEF Course
      <4>2. QED
        BY <1>2, <4>1 DEF Course
    <3>2. <<k, g[k - 1]>> \in (1 .. n) \X CrcWord
      BY <3>1
    <3>3. QED
      BY <3>1, <3>2
  <2>2. \A k \in 1 .. n : g[k] = UNION {TableStep(w, data[k]) : w \in {g[k - 1]}}
    BY <2>1
  <2>3. g \in [0 .. n -> CrcWord] /\ g[0] = crc /\ \A k \in 0 .. n : k # 0 => k \in 1 .. n
    BY <1>2 DEF Course
  <2>4. QED
    BY <2>2, <2>3
<1> HIDE DEF turn
<1>4. Obeys(s)
  <2>1. \E f : Obeys(f)
    BY <1>3
  <2> HIDE DEF Obeys
  <2>2. QED
    BY <2>1
<1> HIDE DEF s
<1>5. IsTable(s, n) /\ s[0] = crc
  BY <1>4 DEF IsTable
<1>6. ASSUME NEW k \in 1 .. n PROVE s[k] = TableStep(s[k - 1], data[k])
  <2>1. s[k] = UNION {TableStep(w, data[k]) : w \in {s[k - 1]}}
    <3>1. k \in 0 .. Len(data) /\ k # 0
      OBVIOUS
    <3>2. s = [j \in 0 .. Len(data) |->
                  IF j = 0 THEN crc
                  ELSE UNION {TableStep(w, data[j]) : w \in {s[j - 1]}}]
      BY <1>4
    <3>3. QED
      BY <3>1, <3>2, Zenon
  <2>2. QED
    BY <2>1
<1> HIDE DEF Obeys
<1>7. s \in [0 .. n -> CrcWord]
  <2>1. ASSUME NEW i \in 0 .. n - 1, s[i] \in CrcWord PROVE s[i + 1] \in CrcWord
    <3>1. i + 1 \in 1 .. n /\ (i + 1) - 1 = i
      OBVIOUS
    <3>2. s[i + 1] = TableStep(s[i], data[i + 1])
      BY <1>6, <3>1
    <3>3. QED
      BY <2>1, <3>1, <3>2, TableStepWord
  <2>2. QED
    BY <1>5, <2>1, StaysIn
<1>8. QED
  BY <1>1, <1>5, <1>6, <1>7 DEF Steps

LEMMA ByteLoop ==
    ASSUME NEW crc \in CrcWord, NEW data, NEW n \in Nat, Len(data) = n,
           \A k \in 1 .. n : data[k] \in 0 .. 255
    PROVE  \E f : Steps(f, n, crc) /\ f[n] = StepThrough(ByteStep, crc, data)
                  /\ \A k \in 1 .. n : f[k] = ByteStep(f[k - 1], data[k])
<1> DEFINE turn == [p \in (1 .. n) \X CrcWord |-> ByteStep(p[2], data[p[1]])]
           Obeys(f) == f = [k \in 0 .. Len(data) |->
                                IF k = 0 THEN crc
                                ELSE UNION {ByteStep(w, data[k]) : w \in {f[k - 1]}}]
           s == CHOOSE f : Obeys(f)
<1>1. s[n] = StepThrough(ByteStep, crc, data)
  BY DEF StepThrough
<1>2. PICK g : Course(g, n, CrcWord, crc, turn)
  <2>1. \A k \in 1 .. n, w \in CrcWord : ByteStep(w, data[k]) \in CrcWord
    BY ByteStepWord
  <2>2. turn \in Turns(n, CrcWord)
    BY <2>1 DEF Turns
  <2> HIDE DEF turn
  <2>3. QED
    BY <2>2, CourseExists
<1>3. Obeys(g)
  <2>1. ASSUME NEW k \in 1 .. n PROVE g[k] = ByteStep(g[k - 1], data[k])
    <3>1. g[k - 1] \in CrcWord /\ g[k] = turn[<<k, g[k - 1]>>]
      <4> HIDE DEF turn
      <4>1. g \in [0 .. n -> CrcWord] /\ k - 1 \in 0 .. n
        BY <1>2 DEF Course
      <4>2. QED
        BY <1>2, <4>1 DEF Course
    <3>2. <<k, g[k - 1]>> \in (1 .. n) \X CrcWord
      BY <3>1
    <3>3. QED
      BY <3>1, <3>2
  <2>2. \A k \in 1 .. n : g[k] = UNION {ByteStep(w, data[k]) : w \in {g[k - 1]}}
    BY <2>1
  <2>3. g \in [0 .. n -> CrcWord] /\ g[0] = crc /\ \A k \in 0 .. n : k # 0 => k \in 1 .. n
    BY <1>2 DEF Course
  <2>4. QED
    BY <2>2, <2>3
<1> HIDE DEF turn
<1>4. Obeys(s)
  <2>1. \E f : Obeys(f)
    BY <1>3
  <2> HIDE DEF Obeys
  <2>2. QED
    BY <2>1
<1> HIDE DEF s
<1>5. IsTable(s, n) /\ s[0] = crc
  BY <1>4 DEF IsTable
<1>6. ASSUME NEW k \in 1 .. n PROVE s[k] = ByteStep(s[k - 1], data[k])
  <2>1. s[k] = UNION {ByteStep(w, data[k]) : w \in {s[k - 1]}}
    <3>1. k \in 0 .. Len(data) /\ k # 0
      OBVIOUS
    <3>2. s = [j \in 0 .. Len(data) |->
                  IF j = 0 THEN crc
                  ELSE UNION {ByteStep(w, data[j]) : w \in {s[j - 1]}}]
      BY <1>4
    <3>3. QED
      BY <3>1, <3>2, Zenon
  <2>2. QED
    BY <2>1
<1> HIDE DEF Obeys
<1>7. s \in [0 .. n -> CrcWord]
  <2>1. ASSUME NEW i \in 0 .. n - 1, s[i] \in CrcWord PROVE s[i + 1] \in CrcWord
    <3>1. i + 1 \in 1 .. n /\ (i + 1) - 1 = i
      OBVIOUS
    <3>2. s[i + 1] = ByteStep(s[i], data[i + 1])
      BY <1>6, <3>1
    <3>3. QED
      BY <2>1, <3>1, <3>2, ByteStepWord
  <2>2. QED
    BY <1>5, <2>1, StaysIn
<1>8. QED
  BY <1>1, <1>5, <1>6, <1>7 DEF Steps

LEMMA DivideByteLoop ==
    ASSUME NEW crc \in CrcWord, NEW data, NEW n \in Nat, Len(data) = n,
           \A k \in 1 .. n : data[k] \in 0 .. 255
    PROVE  \E f : Steps(f, n, crc) /\ f[n] = StepThrough(DivideByte, crc, data)
                  /\ \A k \in 1 .. n : f[k] = DivideByte(f[k - 1], data[k])
<1> DEFINE turn == [p \in (1 .. n) \X CrcWord |-> DivideByte(p[2], data[p[1]])]
           Obeys(f) == f = [k \in 0 .. Len(data) |->
                                IF k = 0 THEN crc
                                ELSE UNION {DivideByte(w, data[k]) : w \in {f[k - 1]}}]
           s == CHOOSE f : Obeys(f)
<1>1. s[n] = StepThrough(DivideByte, crc, data)
  BY DEF StepThrough
<1>2. PICK g : Course(g, n, CrcWord, crc, turn)
  <2>1. \A k \in 1 .. n, w \in CrcWord : DivideByte(w, data[k]) \in CrcWord
    BY DivideByteWord
  <2>2. turn \in Turns(n, CrcWord)
    BY <2>1 DEF Turns
  <2> HIDE DEF turn
  <2>3. QED
    BY <2>2, CourseExists
<1>3. Obeys(g)
  <2>1. ASSUME NEW k \in 1 .. n PROVE g[k] = DivideByte(g[k - 1], data[k])
    <3>1. g[k - 1] \in CrcWord /\ g[k] = turn[<<k, g[k - 1]>>]
      <4> HIDE DEF turn
      <4>1. g \in [0 .. n -> CrcWord] /\ k - 1 \in 0 .. n
        BY <1>2 DEF Course
      <4>2. QED
        BY <1>2, <4>1 DEF Course
    <3>2. <<k, g[k - 1]>> \in (1 .. n) \X CrcWord
      BY <3>1
    <3>3. QED
      BY <3>1, <3>2
  <2>2. \A k \in 1 .. n : g[k] = UNION {DivideByte(w, data[k]) : w \in {g[k - 1]}}
    BY <2>1
  <2>3. g \in [0 .. n -> CrcWord] /\ g[0] = crc /\ \A k \in 0 .. n : k # 0 => k \in 1 .. n
    BY <1>2 DEF Course
  <2>4. QED
    BY <2>2, <2>3
<1> HIDE DEF turn
<1>4. Obeys(s)
  <2>1. \E f : Obeys(f)
    BY <1>3
  <2> HIDE DEF Obeys
  <2>2. QED
    BY <2>1
<1> HIDE DEF s
<1>5. IsTable(s, n) /\ s[0] = crc
  BY <1>4 DEF IsTable
<1>6. ASSUME NEW k \in 1 .. n PROVE s[k] = DivideByte(s[k - 1], data[k])
  <2>1. s[k] = UNION {DivideByte(w, data[k]) : w \in {s[k - 1]}}
    <3>1. k \in 0 .. Len(data) /\ k # 0
      OBVIOUS
    <3>2. s = [j \in 0 .. Len(data) |->
                  IF j = 0 THEN crc
                  ELSE UNION {DivideByte(w, data[j]) : w \in {s[j - 1]}}]
      BY <1>4
    <3>3. QED
      BY <3>1, <3>2, Zenon
  <2>2. QED
    BY <2>1
<1> HIDE DEF Obeys
<1>7. s \in [0 .. n -> CrcWord]
  <2>1. ASSUME NEW i \in 0 .. n - 1, s[i] \in CrcWord PROVE s[i + 1] \in CrcWord
    <3>1. i + 1 \in 1 .. n /\ (i + 1) - 1 = i
      OBVIOUS
    <3>2. s[i + 1] = DivideByte(s[i], data[i + 1])
      BY <1>6, <3>1
    <3>3. QED
      BY <2>1, <3>1, <3>2, DivideByteWord
  <2>2. QED
    BY <1>5, <2>1, StaysIn
<1>8. QED
  BY <1>1, <1>5, <1>6, <1>7 DEF Steps

\* The two seeds are one.

LEMMA PreambleDivided ==
    DivideOctet({0, 2, 3, 4, 6, 8, 9, 10, 11, 12, 13, 14, 15, 16, 17, 18, 19, 20, 21, 22, 23,
                24, 25, 26, 27, 28, 29, 30, 31}) =
        {1, 2, 4, 5, 7, 9, 12, 14, 15, 16, 18, 21, 24, 26, 28}
<1> DEFINE w0 == {0, 2, 3, 4, 6, 8, 9, 10, 11, 12, 13, 14, 15, 16, 17, 18, 19, 20, 21, 22, 23,
                 24, 25, 26, 27, 28, 29, 30, 31}
           w1 == {1, 2, 3, 7, 10, 11, 12, 13, 14, 16, 17, 18, 22, 25, 28, 31}
           w2 == {0, 1, 2, 6, 9, 10, 11, 12, 13, 15, 16, 17, 21, 24, 27, 30}
           w3 == {0, 1, 10, 11, 12, 14, 16, 19, 21, 24, 27, 30, 31}
           w4 == {0, 5, 8, 10, 11, 13, 18, 19, 21, 24, 27, 31}
           w5 == {4, 5, 7, 8, 10, 12, 15, 17, 18, 19, 21, 24, 27, 29, 31}
           w6 == {3, 4, 6, 7, 9, 11, 14, 16, 17, 18, 20, 23, 26, 28, 30}
           w7 == {2, 3, 5, 6, 8, 10, 13, 15, 16, 17, 19, 22, 25, 27, 29}
           w8 == {1, 2, 4, 5, 7, 9, 12, 14, 15, 16, 18, 21, 24, 26, 28}
<1>1. /\ w0 \in CrcWord /\ w1 \in CrcWord /\ w2 \in CrcWord /\ w3 \in CrcWord
      /\ w4 \in CrcWord /\ w5 \in CrcWord /\ w6 \in CrcWord /\ w7 \in CrcWord
      /\ w8 \in CrcWord
  BY DEF CrcWord
<1>2. \A i \in 0 .. 31 : i \in w1 <=> (i + 1 \in w0) # (0 \in w0 /\ i \in Polynomial)
  BY EighthPower DEF Polynomial
<1>3. \A i \in 0 .. 31 : i \in w2 <=> (i + 1 \in w1) # (0 \in w1 /\ i \in Polynomial)
  BY EighthPower DEF Polynomial
<1>4. \A i \in 0 .. 31 : i \in w3 <=> (i + 1 \in w2) # (0 \in w2 /\ i \in Polynomial)
  BY EighthPower DEF Polynomial
<1>5. \A i \in 0 .. 31 : i \in w4 <=> (i + 1 \in w3) # (0 \in w3 /\ i \in Polynomial)
  BY EighthPower DEF Polynomial
<1>6. \A i \in 0 .. 31 : i \in w5 <=> (i + 1 \in w4) # (0 \in w4 /\ i \in Polynomial)
  BY EighthPower DEF Polynomial
<1>7. \A i \in 0 .. 31 : i \in w6 <=> (i + 1 \in w5) # (0 \in w5 /\ i \in Polynomial)
  BY EighthPower DEF Polynomial
<1>8. \A i \in 0 .. 31 : i \in w7 <=> (i + 1 \in w6) # (0 \in w6 /\ i \in Polynomial)
  BY EighthPower DEF Polynomial
<1>9. \A i \in 0 .. 31 : i \in w8 <=> (i + 1 \in w7) # (0 \in w7 /\ i \in Polynomial)
  BY EighthPower DEF Polynomial
<1> HIDE DEF w0, w1, w2, w3, w4, w5, w6, w7, w8
<1>10. /\ DivideBit(w0) = w1 /\ DivideBit(w1) = w2 /\ DivideBit(w2) = w3 /\ DivideBit(w3) = w4
       /\ DivideBit(w4) = w5 /\ DivideBit(w5) = w6 /\ DivideBit(w6) = w7 /\ DivideBit(w7) = w8
  BY <1>1, <1>2, <1>3, <1>4, <1>5, <1>6, <1>7, <1>8, <1>9, DividesBits
<1>11. DivideOctet(w0) = w8
  BY <1>10 DEF DivideOctet
<1>12. QED
  BY <1>11 DEF w0, w8
LEMMA OneSeed ==
    /\ Seed = HapticsSeed /\ Seed \in CrcWord
    /\ Seed = DivideOctet(SymDiff(AllOnes, Bits(Preamble)))
<1>1. AllOnes \in CrcWord /\ Preamble \in 0 .. 255 /\ Preamble = 162
  BY DEF AllOnes, CrcWord, Preamble
<1>2. /\ Seed = DivideOctet(SymDiff(AllOnes, Bits(Preamble))) /\ Seed \in CrcWord
  BY <1>1, TableStepDivides, TableStepWord DEF Seed
<1>3. Bits(162) = {1, 5, 7}
  BY BitPlaces, PlacesOf
<1>4. SymDiff(AllOnes, Bits(Preamble)) = {0, 2, 3, 4, 6, 8, 9, 10, 11, 12, 13, 14, 15, 16, 17, 18, 19, 20, 21, 22, 23, 24, 25,
        26, 27, 28, 29, 30, 31}
  BY <1>1, <1>3 DEF SymDiff, AllOnes
<1>5. HapticsSeed = {1, 2, 4, 5, 7, 9, 12, 14, 15, 16, 18, 21, 24, 26, 28}
  BY SeedWord DEF HapticsSeed, Complement
<1>6. QED
  BY <1>2, <1>4, <1>5, PreambleDivided

\* Four bytes of ones leave the remainder.
LEMMA FirstOnes ==
    DivideOctet({0, 1, 2, 3, 4, 5, 6, 7}) =
        {0, 2, 3, 7, 8, 9, 10, 11, 13, 14, 15, 17, 24, 26, 27, 29}
<1> DEFINE w0 == {0, 1, 2, 3, 4, 5, 6, 7}
           w1 == {0, 1, 2, 3, 4, 6, 8, 9, 15, 19, 20, 21, 23, 24, 26, 27, 29, 30, 31}
           w2 == {0, 1, 2, 3, 7, 9, 14, 15, 18, 21, 22, 24, 25, 27, 28, 31}
           w3 == {0, 1, 2, 5, 6, 9, 13, 14, 15, 17, 19, 29, 31}
           w4 == {0, 1, 4, 9, 12, 13, 14, 15, 16, 18, 19, 20, 21, 23, 24, 26, 27, 28, 29, 31}
           w5 == {0, 3, 5, 9, 11, 12, 13, 14, 17, 18, 21, 22, 24, 25, 28, 29, 31}
           w6 == {2, 4, 5, 9, 10, 11, 12, 13, 15, 16, 17, 19, 26, 28, 29, 31}
           w7 == {1, 3, 4, 8, 9, 10, 11, 12, 14, 15, 16, 18, 25, 27, 28, 30}
           w8 == {0, 2, 3, 7, 8, 9, 10, 11, 13, 14, 15, 17, 24, 26, 27, 29}
<1>1. /\ w0 \in CrcWord /\ w1 \in CrcWord /\ w2 \in CrcWord /\ w3 \in CrcWord
      /\ w4 \in CrcWord /\ w5 \in CrcWord /\ w6 \in CrcWord /\ w7 \in CrcWord
      /\ w8 \in CrcWord
  BY DEF CrcWord
<1>2. \A i \in 0 .. 31 : i \in w1 <=> (i + 1 \in w0) # (0 \in w0 /\ i \in Polynomial)
  BY EighthPower DEF Polynomial
<1>3. \A i \in 0 .. 31 : i \in w2 <=> (i + 1 \in w1) # (0 \in w1 /\ i \in Polynomial)
  BY EighthPower DEF Polynomial
<1>4. \A i \in 0 .. 31 : i \in w3 <=> (i + 1 \in w2) # (0 \in w2 /\ i \in Polynomial)
  BY EighthPower DEF Polynomial
<1>5. \A i \in 0 .. 31 : i \in w4 <=> (i + 1 \in w3) # (0 \in w3 /\ i \in Polynomial)
  BY EighthPower DEF Polynomial
<1>6. \A i \in 0 .. 31 : i \in w5 <=> (i + 1 \in w4) # (0 \in w4 /\ i \in Polynomial)
  BY EighthPower DEF Polynomial
<1>7. \A i \in 0 .. 31 : i \in w6 <=> (i + 1 \in w5) # (0 \in w5 /\ i \in Polynomial)
  BY EighthPower DEF Polynomial
<1>8. \A i \in 0 .. 31 : i \in w7 <=> (i + 1 \in w6) # (0 \in w6 /\ i \in Polynomial)
  BY EighthPower DEF Polynomial
<1>9. \A i \in 0 .. 31 : i \in w8 <=> (i + 1 \in w7) # (0 \in w7 /\ i \in Polynomial)
  BY EighthPower DEF Polynomial
<1> HIDE DEF w0, w1, w2, w3, w4, w5, w6, w7, w8
<1>10. /\ DivideBit(w0) = w1 /\ DivideBit(w1) = w2 /\ DivideBit(w2) = w3 /\ DivideBit(w3) = w4
       /\ DivideBit(w4) = w5 /\ DivideBit(w5) = w6 /\ DivideBit(w6) = w7 /\ DivideBit(w7) = w8
  BY <1>1, <1>2, <1>3, <1>4, <1>5, <1>6, <1>7, <1>8, <1>9, DividesBits
<1>11. DivideOctet(w0) = w8
  BY <1>10 DEF DivideOctet
<1>12. QED
  BY <1>11 DEF w0, w8
LEMMA FirstOnesMixed ==
    DivideOctet(SymDiff({}, 0 .. 7)) =
        {0, 2, 3, 7, 8, 9, 10, 11, 13, 14, 15, 17, 24, 26, 27, 29}
<1>1. SymDiff({}, 0 .. 7) =
        {0, 1, 2, 3, 4, 5, 6, 7}
  BY DEF SymDiff
<1>2. QED
  BY <1>1, FirstOnes
LEMMA SecondOnes ==
    DivideOctet({1, 4, 5, 6, 8, 9, 10, 11, 13, 14, 15, 17, 24, 26, 27, 29}) =
        {0, 1, 2, 3, 4, 5, 6, 7, 9, 12, 17, 18, 21, 25, 26, 27, 28, 29, 31}
<1> DEFINE w0 == {1, 4, 5, 6, 8, 9, 10, 11, 13, 14, 15, 17, 24, 26, 27, 29}
           w1 == {0, 3, 4, 5, 7, 8, 9, 10, 12, 13, 14, 16, 23, 25, 26, 28}
           w2 == {2, 3, 4, 5, 6, 7, 11, 12, 13, 19, 20, 21, 22, 23, 25, 26, 29, 30, 31}
           w3 == {1, 2, 3, 4, 5, 6, 10, 11, 12, 18, 19, 20, 21, 22, 24, 25, 28, 29, 30}
           w4 == {0, 1, 2, 3, 4, 5, 9, 10, 11, 17, 18, 19, 20, 21, 23, 24, 27, 28, 29}
           w5 == {0, 1, 2, 3, 4, 5, 10, 15, 16, 17, 18, 21, 22, 24, 28, 29, 30, 31}
           w6 == {0, 1, 2, 3, 4, 5, 8, 14, 16, 17, 19, 24, 26, 28, 31}
           w7 == {0, 1, 2, 3, 4, 5, 7, 8, 9, 13, 16, 18, 19, 20, 21, 24, 25, 26, 29, 31}
           w8 == {0, 1, 2, 3, 4, 5, 6, 7, 9, 12, 17, 18, 21, 25, 26, 27, 28, 29, 31}
<1>1. /\ w0 \in CrcWord /\ w1 \in CrcWord /\ w2 \in CrcWord /\ w3 \in CrcWord
      /\ w4 \in CrcWord /\ w5 \in CrcWord /\ w6 \in CrcWord /\ w7 \in CrcWord
      /\ w8 \in CrcWord
  BY DEF CrcWord
<1>2. \A i \in 0 .. 31 : i \in w1 <=> (i + 1 \in w0) # (0 \in w0 /\ i \in Polynomial)
  BY EighthPower DEF Polynomial
<1>3. \A i \in 0 .. 31 : i \in w2 <=> (i + 1 \in w1) # (0 \in w1 /\ i \in Polynomial)
  BY EighthPower DEF Polynomial
<1>4. \A i \in 0 .. 31 : i \in w3 <=> (i + 1 \in w2) # (0 \in w2 /\ i \in Polynomial)
  BY EighthPower DEF Polynomial
<1>5. \A i \in 0 .. 31 : i \in w4 <=> (i + 1 \in w3) # (0 \in w3 /\ i \in Polynomial)
  BY EighthPower DEF Polynomial
<1>6. \A i \in 0 .. 31 : i \in w5 <=> (i + 1 \in w4) # (0 \in w4 /\ i \in Polynomial)
  BY EighthPower DEF Polynomial
<1>7. \A i \in 0 .. 31 : i \in w6 <=> (i + 1 \in w5) # (0 \in w5 /\ i \in Polynomial)
  BY EighthPower DEF Polynomial
<1>8. \A i \in 0 .. 31 : i \in w7 <=> (i + 1 \in w6) # (0 \in w6 /\ i \in Polynomial)
  BY EighthPower DEF Polynomial
<1>9. \A i \in 0 .. 31 : i \in w8 <=> (i + 1 \in w7) # (0 \in w7 /\ i \in Polynomial)
  BY EighthPower DEF Polynomial
<1> HIDE DEF w0, w1, w2, w3, w4, w5, w6, w7, w8
<1>10. /\ DivideBit(w0) = w1 /\ DivideBit(w1) = w2 /\ DivideBit(w2) = w3 /\ DivideBit(w3) = w4
       /\ DivideBit(w4) = w5 /\ DivideBit(w5) = w6 /\ DivideBit(w6) = w7 /\ DivideBit(w7) = w8
  BY <1>1, <1>2, <1>3, <1>4, <1>5, <1>6, <1>7, <1>8, <1>9, DividesBits
<1>11. DivideOctet(w0) = w8
  BY <1>10 DEF DivideOctet
<1>12. QED
  BY <1>11 DEF w0, w8
LEMMA SecondOnesMixed ==
    DivideOctet(SymDiff({0, 2, 3, 7, 8, 9, 10, 11, 13, 14, 15, 17, 24, 26, 27, 29}, 0 .. 7)) =
        {0, 1, 2, 3, 4, 5, 6, 7, 9, 12, 17, 18, 21, 25, 26, 27, 28, 29, 31}
<1>1. SymDiff({0, 2, 3, 7, 8, 9, 10, 11, 13, 14, 15, 17, 24, 26, 27, 29}, 0 .. 7) =
        {1, 4, 5, 6, 8, 9, 10, 11, 13, 14, 15, 17, 24, 26, 27, 29}
  BY DEF SymDiff
<1>2. QED
  BY <1>1, SecondOnes
LEMMA ThirdOnes ==
    DivideOctet({9, 12, 17, 18, 21, 25, 26, 27, 28, 29, 31}) =
        {1, 4, 9, 10, 13, 17, 18, 19, 20, 21, 23}
<1> DEFINE w0 == {9, 12, 17, 18, 21, 25, 26, 27, 28, 29, 31}
           w1 == {8, 11, 16, 17, 20, 24, 25, 26, 27, 28, 30}
           w2 == {7, 10, 15, 16, 19, 23, 24, 25, 26, 27, 29}
           w3 == {6, 9, 14, 15, 18, 22, 23, 24, 25, 26, 28}
           w4 == {5, 8, 13, 14, 17, 21, 22, 23, 24, 25, 27}
           w5 == {4, 7, 12, 13, 16, 20, 21, 22, 23, 24, 26}
           w6 == {3, 6, 11, 12, 15, 19, 20, 21, 22, 23, 25}
           w7 == {2, 5, 10, 11, 14, 18, 19, 20, 21, 22, 24}
           w8 == {1, 4, 9, 10, 13, 17, 18, 19, 20, 21, 23}
<1>1. /\ w0 \in CrcWord /\ w1 \in CrcWord /\ w2 \in CrcWord /\ w3 \in CrcWord
      /\ w4 \in CrcWord /\ w5 \in CrcWord /\ w6 \in CrcWord /\ w7 \in CrcWord
      /\ w8 \in CrcWord
  BY DEF CrcWord
<1>2. \A i \in 0 .. 31 : i \in w1 <=> (i + 1 \in w0) # (0 \in w0 /\ i \in Polynomial)
  BY EighthPower DEF Polynomial
<1>3. \A i \in 0 .. 31 : i \in w2 <=> (i + 1 \in w1) # (0 \in w1 /\ i \in Polynomial)
  BY EighthPower DEF Polynomial
<1>4. \A i \in 0 .. 31 : i \in w3 <=> (i + 1 \in w2) # (0 \in w2 /\ i \in Polynomial)
  BY EighthPower DEF Polynomial
<1>5. \A i \in 0 .. 31 : i \in w4 <=> (i + 1 \in w3) # (0 \in w3 /\ i \in Polynomial)
  BY EighthPower DEF Polynomial
<1>6. \A i \in 0 .. 31 : i \in w5 <=> (i + 1 \in w4) # (0 \in w4 /\ i \in Polynomial)
  BY EighthPower DEF Polynomial
<1>7. \A i \in 0 .. 31 : i \in w6 <=> (i + 1 \in w5) # (0 \in w5 /\ i \in Polynomial)
  BY EighthPower DEF Polynomial
<1>8. \A i \in 0 .. 31 : i \in w7 <=> (i + 1 \in w6) # (0 \in w6 /\ i \in Polynomial)
  BY EighthPower DEF Polynomial
<1>9. \A i \in 0 .. 31 : i \in w8 <=> (i + 1 \in w7) # (0 \in w7 /\ i \in Polynomial)
  BY EighthPower DEF Polynomial
<1> HIDE DEF w0, w1, w2, w3, w4, w5, w6, w7, w8
<1>10. /\ DivideBit(w0) = w1 /\ DivideBit(w1) = w2 /\ DivideBit(w2) = w3 /\ DivideBit(w3) = w4
       /\ DivideBit(w4) = w5 /\ DivideBit(w5) = w6 /\ DivideBit(w6) = w7 /\ DivideBit(w7) = w8
  BY <1>1, <1>2, <1>3, <1>4, <1>5, <1>6, <1>7, <1>8, <1>9, DividesBits
<1>11. DivideOctet(w0) = w8
  BY <1>10 DEF DivideOctet
<1>12. QED
  BY <1>11 DEF w0, w8
LEMMA ThirdOnesMixed ==
    DivideOctet(SymDiff({0, 1, 2, 3, 4, 5, 6, 7, 9, 12, 17, 18, 21, 25, 26, 27, 28, 29, 31}, 0 .. 7)) =
        {1, 4, 9, 10, 13, 17, 18, 19, 20, 21, 23}
<1>1. SymDiff({0, 1, 2, 3, 4, 5, 6, 7, 9, 12, 17, 18, 21, 25, 26, 27, 28, 29, 31}, 0 .. 7) =
        {9, 12, 17, 18, 21, 25, 26, 27, 28, 29, 31}
  BY DEF SymDiff
<1>2. QED
  BY <1>1, ThirdOnes
LEMMA FourthOnes ==
    DivideOctet({0, 2, 3, 5, 6, 7, 9, 10, 13, 17, 18, 19, 20, 21, 23}) =
        {0, 1, 5, 6, 7, 13, 16, 17, 19, 20, 21, 23, 25, 26, 27, 28, 30, 31}
<1> DEFINE w0 == {0, 2, 3, 5, 6, 7, 9, 10, 13, 17, 18, 19, 20, 21, 23}
           w1 == {1, 2, 4, 6, 12, 15, 16, 17, 18, 21, 22, 23, 24, 26, 27, 29, 30, 31}
           w2 == {0, 1, 3, 5, 11, 14, 15, 16, 17, 20, 21, 22, 23, 25, 26, 28, 29, 30}
           w3 == {0, 2, 4, 5, 8, 9, 10, 13, 14, 16, 22, 23, 25, 26, 28, 30, 31}
           w4 == {1, 3, 4, 5, 7, 12, 13, 19, 20, 22, 23, 25, 26, 31}
           w5 == {0, 2, 3, 4, 6, 11, 12, 18, 19, 21, 22, 24, 25, 30}
           w6 == {1, 2, 3, 8, 9, 10, 11, 15, 17, 18, 19, 26, 27, 30, 31}
           w7 == {0, 1, 2, 7, 8, 9, 10, 14, 16, 17, 18, 25, 26, 29, 30}
           w8 == {0, 1, 5, 6, 7, 13, 16, 17, 19, 20, 21, 23, 25, 26, 27, 28, 30, 31}
<1>1. /\ w0 \in CrcWord /\ w1 \in CrcWord /\ w2 \in CrcWord /\ w3 \in CrcWord
      /\ w4 \in CrcWord /\ w5 \in CrcWord /\ w6 \in CrcWord /\ w7 \in CrcWord
      /\ w8 \in CrcWord
  BY DEF CrcWord
<1>2. \A i \in 0 .. 31 : i \in w1 <=> (i + 1 \in w0) # (0 \in w0 /\ i \in Polynomial)
  BY EighthPower DEF Polynomial
<1>3. \A i \in 0 .. 31 : i \in w2 <=> (i + 1 \in w1) # (0 \in w1 /\ i \in Polynomial)
  BY EighthPower DEF Polynomial
<1>4. \A i \in 0 .. 31 : i \in w3 <=> (i + 1 \in w2) # (0 \in w2 /\ i \in Polynomial)
  BY EighthPower DEF Polynomial
<1>5. \A i \in 0 .. 31 : i \in w4 <=> (i + 1 \in w3) # (0 \in w3 /\ i \in Polynomial)
  BY EighthPower DEF Polynomial
<1>6. \A i \in 0 .. 31 : i \in w5 <=> (i + 1 \in w4) # (0 \in w4 /\ i \in Polynomial)
  BY EighthPower DEF Polynomial
<1>7. \A i \in 0 .. 31 : i \in w6 <=> (i + 1 \in w5) # (0 \in w5 /\ i \in Polynomial)
  BY EighthPower DEF Polynomial
<1>8. \A i \in 0 .. 31 : i \in w7 <=> (i + 1 \in w6) # (0 \in w6 /\ i \in Polynomial)
  BY EighthPower DEF Polynomial
<1>9. \A i \in 0 .. 31 : i \in w8 <=> (i + 1 \in w7) # (0 \in w7 /\ i \in Polynomial)
  BY EighthPower DEF Polynomial
<1> HIDE DEF w0, w1, w2, w3, w4, w5, w6, w7, w8
<1>10. /\ DivideBit(w0) = w1 /\ DivideBit(w1) = w2 /\ DivideBit(w2) = w3 /\ DivideBit(w3) = w4
       /\ DivideBit(w4) = w5 /\ DivideBit(w5) = w6 /\ DivideBit(w6) = w7 /\ DivideBit(w7) = w8
  BY <1>1, <1>2, <1>3, <1>4, <1>5, <1>6, <1>7, <1>8, <1>9, DividesBits
<1>11. DivideOctet(w0) = w8
  BY <1>10 DEF DivideOctet
<1>12. QED
  BY <1>11 DEF w0, w8
LEMMA FourthOnesMixed ==
    DivideOctet(SymDiff({1, 4, 9, 10, 13, 17, 18, 19, 20, 21, 23}, 0 .. 7)) =
        {0, 1, 5, 6, 7, 13, 16, 17, 19, 20, 21, 23, 25, 26, 27, 28, 30, 31}
<1>1. SymDiff({1, 4, 9, 10, 13, 17, 18, 19, 20, 21, 23}, 0 .. 7) =
        {0, 2, 3, 5, 6, 7, 9, 10, 13, 17, 18, 19, 20, 21, 23}
  BY DEF SymDiff
<1>2. QED
  BY <1>1, FourthOnes
LEMMA RemainderIsMirror ==
    Mirror({0, 1, 5, 6, 7, 13, 16, 17, 19, 20, 21, 23, 25, 26, 27, 28, 30, 31}) = Remainder
<1> DEFINE x == {0, 1, 5, 6, 7, 13, 16, 17, 19, 20, 21, 23, 25, 26, 27, 28, 30, 31}
           r == {0, 1, 3, 4, 5, 6, 8, 10, 11, 12, 14, 15, 18, 24, 25, 26, 30, 31}
<1>1. Remainder = r
  BY RemainderWord DEF Remainder
<1>2. x \in CrcWord /\ r \in CrcWord
  BY DEF CrcWord
<1>3. \A i \in 0 .. 31 : i \in r <=> 31 - i \in x
  OBVIOUS
<1> HIDE DEF x, r
<1>4. Mirror(x) = r
  BY <1>2, <1>3, Mirrored, SameWord
<1>5. QED
  BY <1>1, <1>4 DEF x

\* A byte taken from a word has the bits it had there.

BitAt(w, k, i) == IF 8 * k + i \in w THEN 1 ELSE 0
LEMMA ByteIsSum ==
    ASSUME NEW w, NEW k \in Nat
    PROVE  ByteOf(w, k) = BitAt(w, k, 0) + 2 * BitAt(w, k, 1) + 4 * BitAt(w, k, 2)
                            + 8 * BitAt(w, k, 3) + 16 * BitAt(w, k, 4) + 32 * BitAt(w, k, 5)
                            + 64 * BitAt(w, k, 6) + 128 * BitAt(w, k, 7)
<1> DEFINE Obeys(f) == f = [i \in 0 .. 8 |->
                IF i = 0 THEN 0
                ELSE f[i - 1] + (IF 8 * k + i - 1 \in w THEN 2 ^ (i - 1) ELSE 0)]
           s == CHOOSE f : Obeys(f)
           part == [i \in 1 .. 8 |-> IF 8 * k + i - 1 \in w THEN 2 ^ (i - 1) ELSE 0]
           turn == [p \in (1 .. 8) \X Int |-> p[2] + part[p[1]]]
<1>1. ByteOf(w, k) = s[8]
  BY DEF ByteOf
<1>2. \A i \in 1 .. 8 : part[i] = BitAt(w, k, i - 1) * PlaceOf[i - 1]
  <2> SUFFICES ASSUME NEW i \in 1 .. 8 PROVE part[i] = BitAt(w, k, i - 1) * PlaceOf[i - 1]
    OBVIOUS
  <2>1. i - 1 \in 0 .. 15 /\ 8 * k + i - 1 = 8 * k + (i - 1)
    OBVIOUS
  <2>2. PlaceOf[i - 1] = 2 ^ (i - 1)
    <3>1. \A j \in 0 .. 15 : PlaceOf[j] = 2 ^ j
      BY DEF PlaceOf
    <3>2. QED
      BY <2>1, <3>1, Zenon
  <2>3. part[i] = IF 8 * k + (i - 1) \in w THEN PlaceOf[i - 1] ELSE 0
    BY <2>1, <2>2
  <2>4. PlaceOf[i - 1] \in Int
    <3>1. i = 1 \/ i = 2 \/ i = 3 \/ i = 4 \/ i = 5 \/ i = 6 \/ i = 7 \/ i = 8
      OBVIOUS
    <3>2. \A m \in Int : i = m => i - 1 = m - 1
      OBVIOUS
    <3>3. QED
      BY <3>1, PlacesOf
  <2> HIDE DEF part
  <2>5. QED
    BY <2>3, <2>4 DEF BitAt
<1>3. /\ part[1] = BitAt(w, k, 0) /\ part[2] = 2 * BitAt(w, k, 1)
      /\ part[3] = 4 * BitAt(w, k, 2) /\ part[4] = 8 * BitAt(w, k, 3)
      /\ part[5] = 16 * BitAt(w, k, 4) /\ part[6] = 32 * BitAt(w, k, 5)
      /\ part[7] = 64 * BitAt(w, k, 6) /\ part[8] = 128 * BitAt(w, k, 7)
  <2> HIDE DEF part
  <2>1. \A i : BitAt(w, k, i) \in {0, 1}
    BY DEF BitAt
  <2>2. /\ part[1] = BitAt(w, k, 1 - 1) * PlaceOf[1 - 1]
        /\ part[2] = BitAt(w, k, 2 - 1) * PlaceOf[2 - 1]
        /\ part[3] = BitAt(w, k, 3 - 1) * PlaceOf[3 - 1]
        /\ part[4] = BitAt(w, k, 4 - 1) * PlaceOf[4 - 1]
        /\ part[5] = BitAt(w, k, 5 - 1) * PlaceOf[5 - 1]
        /\ part[6] = BitAt(w, k, 6 - 1) * PlaceOf[6 - 1]
        /\ part[7] = BitAt(w, k, 7 - 1) * PlaceOf[7 - 1]
        /\ part[8] = BitAt(w, k, 8 - 1) * PlaceOf[8 - 1]
    BY <1>2
  <2>3. /\ 1 - 1 = 0 /\ 2 - 1 = 1 /\ 3 - 1 = 2 /\ 4 - 1 = 3 /\ 5 - 1 = 4 /\ 6 - 1 = 5
        /\ 7 - 1 = 6 /\ 8 - 1 = 7
    OBVIOUS
  <2>4. QED
    BY <2>1, <2>2, <2>3, PlacesOf
<1>4. \A i \in 1 .. 8 : part[i] \in Int
  <2> HIDE DEF part
  <2>1. \A i : BitAt(w, k, i) \in Int
    BY DEF BitAt
  <2>2. \A i \in 1 .. 8 : i = 1 \/ i = 2 \/ i = 3 \/ i = 4 \/ i = 5 \/ i = 6 \/ i = 7 \/ i = 8
    OBVIOUS
  <2>3. QED
    BY <1>3, <2>1, <2>2
<1>5. PICK g : Course(g, 8, Int, 0, turn)
  <2>1. turn \in Turns(8, Int)
    <3> HIDE DEF part
    <3>1. QED
      BY <1>4 DEF Turns
  <2> HIDE DEF turn
  <2>2. QED
    BY <2>1, CourseExists
<1>6. Obeys(g)
  <2>1. ASSUME NEW i \in 1 .. 8 PROVE g[i] = g[i - 1] + part[i]
    <3>1. g[i - 1] \in Int /\ g[i] = turn[<<i, g[i - 1]>>]
      <4> HIDE DEF turn
      <4>1. g \in [0 .. 8 -> Int] /\ i - 1 \in 0 .. 8
        BY <1>5 DEF Course
      <4>2. QED
        BY <1>5, <4>1 DEF Course
    <3>2. <<i, g[i - 1]>> \in (1 .. 8) \X Int
      BY <3>1
    <3> HIDE DEF part
    <3>3. QED
      BY <3>1, <3>2
  <2>2. \A i \in 1 .. 8 : g[i] = g[i - 1] + (IF 8 * k + i - 1 \in w THEN 2 ^ (i - 1) ELSE 0)
    BY <2>1
  <2>3. g \in [0 .. 8 -> Int] /\ g[0] = 0 /\ \A i \in 0 .. 8 : i # 0 => i \in 1 .. 8
    BY <1>5 DEF Course
  <2>4. QED
    BY <2>2, <2>3
<1>7. Obeys(s)
  <2>1. \E f : Obeys(f)
    BY <1>6
  <2> HIDE DEF Obeys
  <2>2. QED
    BY <2>1
<1> HIDE DEF s, turn
<1>8. s[0] = 0 /\ \A i \in 1 .. 8 : s[i] = s[i - 1] + part[i]
  BY <1>7
<1> HIDE DEF Obeys, part
<1>9. /\ s[1] = s[0] + part[1] /\ s[2] = s[1] + part[2] /\ s[3] = s[2] + part[3]
      /\ s[4] = s[3] + part[4] /\ s[5] = s[4] + part[5] /\ s[6] = s[5] + part[6]
      /\ s[7] = s[6] + part[7] /\ s[8] = s[7] + part[8]
  BY <1>8
<1>10. \A i : BitAt(w, k, i) \in Int
  BY DEF BitAt
<1>11. QED
  BY <1>1, <1>3, <1>8, <1>9, <1>10
LEMMA ByteHasBits ==
    ASSUME NEW w, NEW k \in Nat
    PROVE  ByteOf(w, k) \in 0 .. 255 /\ Bits(ByteOf(w, k)) = {i \in 0 .. 7 : 8 * k + i \in w}
<1> DEFINE n == ByteOf(w, k)
<1>1. PICK a \in {0, 1}, b \in {0, 1}, c \in {0, 1}, d \in {0, 1},
           e \in {0, 1}, f \in {0, 1}, g \in {0, 1}, h \in {0, 1} :
        /\ a = BitAt(w, k, 0) /\ b = BitAt(w, k, 1) /\ c = BitAt(w, k, 2) /\ d = BitAt(w, k, 3)
        /\ e = BitAt(w, k, 4) /\ f = BitAt(w, k, 5) /\ g = BitAt(w, k, 6) /\ h = BitAt(w, k, 7)
  BY DEF BitAt
<1>2. n = a + 2 * b + 4 * c + 8 * d + 16 * e + 32 * f + 64 * g + 128 * h
  BY <1>1, ByteIsSum
<1> HIDE DEF n
<1>3. n \in 0 .. 255
  BY <1>2
<1>4. /\ n % 2 = a /\ (n \div 2) % 2 = b /\ (n \div 4) % 2 = c /\ (n \div 8) % 2 = d
      /\ (n \div 16) % 2 = e /\ (n \div 32) % 2 = f /\ (n \div 64) % 2 = g
      /\ (n \div 128) % 2 = h
  BY <1>2
<1>5. \A i \in 0 .. 7 : (n \div PlaceOf[i]) % 2 = BitAt(w, k, i)
  <2>1. n \div 1 = n
    BY <1>3
  <2>2. \A i \in 0 .. 7 : i = 0 \/ i = 1 \/ i = 2 \/ i = 3 \/ i = 4 \/ i = 5 \/ i = 6 \/ i = 7
    OBVIOUS
  <2>3. QED
    BY <1>1, <1>4, <2>1, <2>2, PlacesOf
<1>6. \A i \in 0 .. 7 : i \in Bits(n) <=> 8 * k + i \in w
  BY <1>5, BitPlaces DEF BitAt
<1>7. Bits(n) \subseteq 0 .. 7
  BY <1>3, ByteBits
<1>8. QED
  BY <1>3, <1>6, <1>7 DEF n

\* The two routines compute one checksum.

Octets(data, n) == Len(data) = n /\ \A k \in 1 .. n : data[k] \in 0 .. 255
LEMMA OneChecksum ==
    ASSUME NEW data, NEW n \in Nat, Octets(data, n)
    PROVE  ds_crc32(data) = haptics_crc32(data)
<1>1. Len(data) = n /\ \A k \in 1 .. n : data[k] \in 0 .. 255
  BY DEF Octets
<1>2. Seed \in CrcWord /\ Seed = HapticsSeed
  BY OneSeed
<1>3. PICK f : /\ Steps(f, n, Seed) /\ f[n] = StepThrough(TableStep, Seed, data)
               /\ \A k \in 1 .. n : f[k] = TableStep(f[k - 1], data[k])
  BY <1>1, <1>2, TableLoop
<1>4. PICK g : /\ Steps(g, n, Seed) /\ g[n] = StepThrough(ByteStep, Seed, data)
               /\ \A k \in 1 .. n : g[k] = ByteStep(g[k - 1], data[k])
  BY <1>1, <1>2, ByteLoop
<1> DEFINE S == {k \in 0 .. n : f[k] = g[k]}
<1>5. 0 \in S
  BY <1>3, <1>4 DEF Steps
<1>6. ASSUME NEW k \in 0 .. n - 1, k \in S PROVE k + 1 \in S
  <2>1. k + 1 \in 1 .. n /\ (k + 1) - 1 = k /\ k \in 0 .. n /\ k + 1 \in 0 .. n
    OBVIOUS
  <2>2. f[k] \in CrcWord /\ f[k] = g[k]
    BY <1>3, <1>6, <2>1 DEF Steps
  <2>3. f[k + 1] = TableStep(f[k], data[k + 1]) /\ g[k + 1] = ByteStep(g[k], data[k + 1])
    BY <1>3, <1>4, <2>1
  <2>4. data[k + 1] \in 0 .. 255
    BY <1>1, <2>1
  <2>5. TableStep(f[k], data[k + 1]) = ByteStep(f[k], data[k + 1])
    BY <2>2, <2>4, TableStepDivides
  <2>6. QED
    BY <2>1, <2>2, <2>3, <2>5
<1>7. n \in S
  <2> HIDE DEF S
  <2>1. 0 .. n \subseteq S
    BY <1>5, <1>6, UpTo
  <2>2. QED
    BY <2>1
<1>8. f[n] = g[n]
  BY <1>7
<1>9. QED
  BY <1>2, <1>3, <1>4, <1>8 DEF ds_crc32, haptics_crc32

\* A byte of the checksum, met by what is left of the word it was made from.
LEMMA ChecksumByteDivided ==
    ASSUME NEW v \in CrcWord, NEW x \in CrcWord, NEW byte \in 0 .. 255,
           Bits(byte) = (0 .. 7) \ v
    PROVE  DivideByte(Mirror(SymDiff(v, x)), byte) =
                Mirror(SymDiff(Shift(v, 8), DivideOctet(SymDiff(x, 0 .. 7))))
<1> DEFINE vx == SymDiff(v, x)
           left == SymDiff(vx, Bits(byte))
           ones == SymDiff(x, 0 .. 7)
           hi == HighOf(v)
<1>1. 0 .. 7 \in CrcWord /\ vx \in CrcWord /\ Bits(byte) \in CrcWord
  BY XorWord, ByteBits DEF CrcWord
<1>2. ones \in CrcWord /\ hi \in CrcWord /\ left \in CrcWord
  BY <1>1, XorWord, LowAndHigh
<1>3. left = SymDiff(hi, ones)
  <2>1. \A i : i \in hi <=> i \in v /\ i \notin 0 .. 7
    BY DEF HighOf
  <2>2. \A i : i \in ones <=> (i \in x) # (i \in 0 .. 7)
    BY Xor
  <2>3. \A i : i \in left <=> ((i \in v) # (i \in x)) # (i \in 0 .. 7 /\ i \notin v)
    BY Xor
  <2>4. SymDiff(hi, ones) \in CrcWord
    BY <1>2, XorWord
  <2>5. \A i : i \in SymDiff(hi, ones) <=> (i \in hi) # (i \in ones)
    BY Xor
  <2> HIDE DEF left, ones, hi
  <2>6. \A i \in 0 .. 31 : i \in left <=> i \in SymDiff(hi, ones)
    BY <2>1, <2>2, <2>3, <2>5
  <2>7. QED
    BY <1>2, <2>4, <2>6, SameWord
<1>4. DivideOctet(hi) = Shift(v, 8)
  <2>1. \A i \in 0 .. 7 : i \notin hi
    BY DEF HighOf
  <2>2. DivideOctet(hi) = Shift(hi, 8)
    BY <1>2, <2>1, HighMoves
  <2>3. QED
    BY <2>2, LowAndHigh
<1>5. DivideByte(Mirror(vx), byte) = Mirror(DivideOctet(left))
  BY <1>1, ByteDivided
<1> HIDE DEF left, ones, hi, vx
<1>6. DivideOctet(left) = SymDiff(DivideOctet(hi), DivideOctet(ones))
  BY <1>2, <1>3, OctetLinear
<1>7. QED
  BY <1>4, <1>5, <1>6 DEF ones, vx

LEMMA ShiftAgain ==
    ASSUME NEW w \in CrcWord, NEW k \in Nat
    PROVE  Shift(Shift(w, k), 8) = Shift(w, k + 8)
<1>1. k + 8 \in Nat /\ 8 \in Nat
  OBVIOUS
<1>2. \A v \in CrcWord, j \in Nat : /\ Shift(v, j) \in CrcWord
                                    /\ \A i \in 0 .. 31 : i \in Shift(v, j) <=> i + j \in v
  BY ShiftMoves
<1> DEFINE v == Shift(w, k)
           u == Shift(v, 8)
           t == Shift(w, k + 8)
<1>3. v \in CrcWord /\ \A i \in 0 .. 31 : i \in v <=> i + k \in w
  BY <1>2
<1>4. u \in CrcWord /\ \A i \in 0 .. 31 : i \in u <=> i + 8 \in v
  BY <1>1, <1>2, <1>3
<1>5. t \in CrcWord /\ \A i \in 0 .. 31 : i \in t <=> i + (k + 8) \in w
  BY <1>1, <1>2
<1> HIDE DEF u, t, v
<1>6. ASSUME NEW i \in 0 .. 31 PROVE i \in u <=> i \in t
  <2>1. (i + 8) + k = i + (k + 8)
    OBVIOUS
  <2>2. CASE i + 8 \in 0 .. 31
    BY <1>3, <1>4, <1>5, <2>1, <2>2
  <2>3. CASE i + 8 \notin 0 .. 31
    <3>1. i + 8 \notin v /\ i + (k + 8) \notin 0 .. 31
      BY <1>3, <2>3 DEF CrcWord
    <3>2. QED
      BY <1>4, <1>5, <3>1 DEF CrcWord
  <2>4. QED
    BY <2>2, <2>3
<1>7. u = t
  BY <1>4, <1>5, <1>6, SameWord
<1>8. QED
  BY <1>7 DEF u, t, v

\* The whole checksum: what is left of the word, and what the ones before left.
LEMMA StoredByte ==
    ASSUME NEW w \in CrcWord, NEW k \in 0 .. 3
    PROVE  /\ Stored(Complement(w))[k + 1] \in 0 .. 255
           /\ Bits(Stored(Complement(w))[k + 1]) = (0 .. 7) \ Shift(w, 8 * k)
<1> DEFINE c == Complement(w)
           b == ByteOf(c, k)
<1>1. Stored(c)[k + 1] = b
  <2>1. k + 1 \in 1 .. 4 /\ (k + 1) - 1 = k
    OBVIOUS
  <2> HIDE DEF c
  <2>2. QED
    BY <2>1 DEF Stored
<1>2. b \in 0 .. 255 /\ Bits(b) = {i \in 0 .. 7 : 8 * k + i \in c}
  <2>1. k \in Nat
    OBVIOUS
  <2> HIDE DEF c
  <2>2. QED
    BY <2>1, ByteHasBits
<1>3. \A i \in 0 .. 7 : 8 * k + i \in c <=> i \notin Shift(w, 8 * k)
  <2>1. 8 * k \in Nat
    OBVIOUS
  <2>2. \A i \in 0 .. 31 : i \in Shift(w, 8 * k) <=> i + 8 * k \in w
    BY <2>1, ShiftMoves
  <2>3. \A i \in 0 .. 7 : 8 * k + i \in 0 .. 31 /\ i + 8 * k = 8 * k + i /\ i \in 0 .. 31
    OBVIOUS
  <2>4. QED
    BY <2>2, <2>3 DEF Complement
<1> HIDE DEF b, c
<1>4. Bits(b) = (0 .. 7) \ Shift(w, 8 * k)
  BY <1>2, <1>3
<1>5. QED
  BY <1>1, <1>2, <1>4 DEF c
LEMMA ChecksumDivided ==
    ASSUME NEW w \in CrcWord, NEW a, NEW b, NEW c, NEW d,
           a = Stored(Complement(w))[1], b = Stored(Complement(w))[2],
           c = Stored(Complement(w))[3], d = Stored(Complement(w))[4]
    PROVE  DivideByte(DivideByte(DivideByte(DivideByte(Mirror(w), a), b), c), d) = Remainder
<1> DEFINE x0 == {}
           x1 == {0, 2, 3, 7, 8, 9, 10, 11, 13, 14, 15, 17, 24, 26, 27, 29}
           x2 == {0, 1, 2, 3, 4, 5, 6, 7, 9, 12, 17, 18, 21, 25, 26, 27, 28, 29, 31}
           x3 == {1, 4, 9, 10, 13, 17, 18, 19, 20, 21, 23}
           x4 == {0, 1, 5, 6, 7, 13, 16, 17, 19, 20, 21, 23, 25, 26, 27, 28, 30, 31}
<1>1. x0 \in CrcWord /\ x1 \in CrcWord /\ x2 \in CrcWord /\ x3 \in CrcWord /\ x4 \in CrcWord
  BY DEF CrcWord
<1>2. /\ DivideOctet(SymDiff(x0, 0 .. 7)) = x1 /\ DivideOctet(SymDiff(x1, 0 .. 7)) = x2
      /\ DivideOctet(SymDiff(x2, 0 .. 7)) = x3 /\ DivideOctet(SymDiff(x3, 0 .. 7)) = x4
      /\ Mirror(x4) = Remainder
  BY FirstOnesMixed, SecondOnesMixed, ThirdOnesMixed, FourthOnesMixed, RemainderIsMirror
<1>3. SymDiff(w, x0) = w
  <2>1. SymDiff(w, x0) \in CrcWord /\ \A i : i \in SymDiff(w, x0) <=> i \in w
    BY <1>1, XorWord, Xor
  <2>2. QED
    BY <2>1, SameWord
<1> HIDE DEF x0, x1, x2, x3, x4
<1> DEFINE v1 == Shift(w, 8)
           v2 == Shift(w, 16)
           v3 == Shift(w, 24)
           v4 == Shift(w, 32)
<1>4. /\ Shift(w, 0) = w /\ v1 \in CrcWord /\ v2 \in CrcWord /\ v3 \in CrcWord
      /\ Shift(v1, 8) = v2 /\ Shift(v2, 8) = v3 /\ Shift(v3, 8) = v4
  <2>1. \A k \in Nat : /\ Shift(w, k) \in CrcWord /\ Shift(Shift(w, k), 8) = Shift(w, k + 8)
                       /\ \A i \in 0 .. 31 : i \in Shift(w, k) <=> i + k \in w
    BY ShiftMoves, ShiftAgain
  <2>2. /\ 0 \in Nat /\ 8 \in Nat /\ 16 \in Nat /\ 24 \in Nat
        /\ 8 + 8 = 16 /\ 16 + 8 = 24 /\ 24 + 8 = 32
    OBVIOUS
  <2>3. Shift(w, 0) = w
    <3>1. \A i \in 0 .. 31 : i + 0 = i
      OBVIOUS
    <3>2. QED
      BY <2>1, <2>2, <3>1, SameWord
  <2>4. QED
    BY <2>1, <2>2, <2>3
<1>5. /\ a \in 0 .. 255 /\ Bits(a) = (0 .. 7) \ w /\ b \in 0 .. 255 /\ Bits(b) = (0 .. 7) \ v1
      /\ c \in 0 .. 255 /\ Bits(c) = (0 .. 7) \ v2 /\ d \in 0 .. 255 /\ Bits(d) = (0 .. 7) \ v3
  <2> DEFINE stored == Stored(Complement(w))
  <2>1. \A k \in 0 .. 3 : stored[k + 1] \in 0 .. 255 /\ Bits(stored[k + 1]) = (0 .. 7) \ Shift(w, 8 * k)
    BY StoredByte
  <2> HIDE DEF stored
  <2>2. /\ stored[0 + 1] \in 0 .. 255 /\ Bits(stored[0 + 1]) = (0 .. 7) \ Shift(w, 8 * 0)
        /\ stored[1 + 1] \in 0 .. 255 /\ Bits(stored[1 + 1]) = (0 .. 7) \ Shift(w, 8 * 1)
        /\ stored[2 + 1] \in 0 .. 255 /\ Bits(stored[2 + 1]) = (0 .. 7) \ Shift(w, 8 * 2)
        /\ stored[3 + 1] \in 0 .. 255 /\ Bits(stored[3 + 1]) = (0 .. 7) \ Shift(w, 8 * 3)
    BY <2>1
  <2>3. /\ 0 + 1 = 1 /\ 1 + 1 = 2 /\ 2 + 1 = 3 /\ 3 + 1 = 4
        /\ 8 * 0 = 0 /\ 8 * 1 = 8 /\ 8 * 2 = 16 /\ 8 * 3 = 24
    OBVIOUS
  <2>4. a = stored[1] /\ b = stored[2] /\ c = stored[3] /\ d = stored[4]
    BY DEF stored
  <2>5. QED
    BY <1>4, <2>2, <2>3, <2>4
<1> HIDE DEF v1, v2, v3
<1>6. DivideByte(Mirror(w), a) = Mirror(SymDiff(v1, x1))
  <2>1. DivideByte(Mirror(SymDiff(w, x0)), a) =
            Mirror(SymDiff(Shift(w, 8), DivideOctet(SymDiff(x0, 0 .. 7))))
    BY <1>1, <1>5, ChecksumByteDivided
  <2>2. QED
    BY <1>2, <1>3, <2>1 DEF v1
<1>7. DivideByte(Mirror(SymDiff(v1, x1)), b) = Mirror(SymDiff(v2, x2))
  <2>1. DivideByte(Mirror(SymDiff(v1, x1)), b) =
            Mirror(SymDiff(Shift(v1, 8), DivideOctet(SymDiff(x1, 0 .. 7))))
    BY <1>1, <1>4, <1>5, ChecksumByteDivided, ZenonT(40)
  <2>2. QED
    BY <1>2, <1>4, <2>1, ZenonT(40)
<1>8. DivideByte(Mirror(SymDiff(v2, x2)), c) = Mirror(SymDiff(v3, x3))
  <2>1. DivideByte(Mirror(SymDiff(v2, x2)), c) =
            Mirror(SymDiff(Shift(v2, 8), DivideOctet(SymDiff(x2, 0 .. 7))))
    BY <1>1, <1>4, <1>5, ChecksumByteDivided, ZenonT(40)
  <2>2. QED
    BY <1>2, <1>4, <2>1, ZenonT(40)
<1>9. DivideByte(Mirror(SymDiff(v3, x3)), d) = Mirror(SymDiff(v4, x4))
  <2>1. DivideByte(Mirror(SymDiff(v3, x3)), d) =
            Mirror(SymDiff(Shift(v3, 8), DivideOctet(SymDiff(x3, 0 .. 7))))
    BY <1>1, <1>4, <1>5, ChecksumByteDivided, ZenonT(40)
  <2>2. QED
    BY <1>2, <1>4, <2>1, ZenonT(40)
<1>10. SymDiff(v4, x4) = x4
  <2>1. v4 \in CrcWord /\ \A i \in 0 .. 31 : i \in v4 <=> i + 32 \in w
    BY ShiftMoves
  <2>2. \A i \in 0 .. 31 : i + 32 \notin w
    BY DEF CrcWord
  <2>3. SymDiff(v4, x4) \in CrcWord /\ \A i : i \in SymDiff(v4, x4) <=> (i \in v4) # (i \in x4)
    BY <1>1, <2>1, XorWord, Xor
  <2> HIDE DEF v4
  <2>4. \A i \in 0 .. 31 : i \in SymDiff(v4, x4) <=> i \in x4
    BY <2>1, <2>2, <2>3
  <2>5. QED
    BY <1>1, <2>3, <2>4, SameWord
<1>11. QED
  BY <1>2, <1>6, <1>7, <1>8, <1>9, <1>10

\* A frame: the preamble, the data and a checksum.

FrameHolds(frame, data, n, crc) ==
    /\ Len(frame) = n + 5 /\ frame[1] = Preamble
    /\ \A k \in 1 .. n : frame[k + 1] = data[k]
    /\ \A k \in 1 .. 4 : frame[n + 1 + k] = crc[k]
LEMMA FrameConfirmed ==
    ASSUME NEW data, NEW n \in Nat, Octets(data, n), NEW frame,
           FrameHolds(frame, data, n, Stored(ds_crc32(data)))
    PROVE  Confirmed(frame)
<1>1. Len(data) = n /\ \A k \in 1 .. n : data[k] \in 0 .. 255
  BY DEF Octets
<1>2. Seed \in CrcWord /\ AllOnes \in CrcWord /\ Preamble \in 0 .. 255
  BY OneSeed DEF AllOnes, CrcWord, Preamble
<1>3. PICK f : /\ Steps(f, n, Seed) /\ f[n] = StepThrough(TableStep, Seed, data)
               /\ \A k \in 1 .. n : f[k] = TableStep(f[k - 1], data[k])
  BY <1>1, <1>2, TableLoop
<1> DEFINE w == f[n]
           crc == Stored(Complement(w))
           m == n + 5
<1>4. w \in CrcWord
  BY <1>3 DEF Steps
<1>5. Stored(ds_crc32(data)) = crc
  BY <1>3 DEF ds_crc32
<1> HIDE DEF crc, m
<1>6. \A k \in 1 .. 4 : crc[k] \in 0 .. 255
  <2>1. \A k \in 0 .. 3 : crc[k + 1] \in 0 .. 255
    BY <1>4, StoredByte DEF crc
  <2>2. \A k \in 1 .. 4 : k - 1 \in 0 .. 3 /\ (k - 1) + 1 = k
    OBVIOUS
  <2>3. QED
    BY <2>1, <2>2
<1>7. m \in Nat /\ Len(frame) = m /\ m = n + 5
  BY DEF FrameHolds, m
<1>8. /\ frame[1] = Preamble /\ \A k \in 1 .. n : frame[k + 1] = data[k]
      /\ \A k \in 1 .. 4 : frame[n + 1 + k] = crc[k]
  BY <1>5 DEF FrameHolds
<1>9. \A k \in 1 .. m : frame[k] \in 0 .. 255
  <2> SUFFICES ASSUME NEW k \in 1 .. m PROVE frame[k] \in 0 .. 255
    OBVIOUS
  <2>1. CASE k = 1
    BY <1>2, <1>8, <2>1
  <2>2. CASE k \in 2 .. n + 1
    <3>1. k - 1 \in 1 .. n /\ (k - 1) + 1 = k
      BY <2>2
    <3>2. QED
      BY <1>1, <1>8, <3>1, ZenonT(40)
  <2>3. CASE k \in n + 2 .. n + 5
    <3>1. k - (n + 1) \in 1 .. 4 /\ n + 1 + (k - (n + 1)) = k
      BY <2>3
    <3>2. QED
      BY <1>6, <1>8, <3>1
  <2>4. QED
    BY <1>7, <2>1, <2>2, <2>3
<1>10. PICK r : /\ Steps(r, m, AllOnes) /\ r[m] = StepThrough(DivideByte, AllOnes, frame)
                /\ \A k \in 1 .. m : r[k] = DivideByte(r[k - 1], frame[k])
  BY <1>2, <1>7, <1>9, DivideByteLoop
<1> DEFINE Alike == {k \in 0 .. n : r[k + 1] = Mirror(f[k])}
<1>11. 0 \in Alike
  <2>1. 1 \in 1 .. m /\ 1 - 1 = 0
    BY <1>7
  <2>2. r[1] = DivideByte(AllOnes, Preamble)
    BY <1>8, <1>10, <2>1 DEF Steps
  <2>3. Mirror(AllOnes) = AllOnes
    <3>1. \A i \in 0 .. 31 : i \in AllOnes /\ 31 - i \in AllOnes
      BY DEF AllOnes
    <3>2. QED
      BY <1>2, <3>1, Mirrored, SameWord
  <2>4. DivideByte(Mirror(AllOnes), Preamble) = Mirror(Seed)
    BY <1>2, ByteDivided, OneSeed
  <2>5. f[0] = Seed
    BY <1>3 DEF Steps
  <2>6. QED
    BY <2>2, <2>3, <2>4, <2>5
<1>12. ASSUME NEW k \in 0 .. n - 1, k \in Alike PROVE k + 1 \in Alike
  <2>1. /\ k + 1 \in 1 .. n /\ (k + 1) - 1 = k /\ k \in 0 .. n /\ k + 1 \in 0 .. n
        /\ (k + 1) + 1 \in 1 .. m /\ ((k + 1) + 1) - 1 = k + 1
    BY <1>7
  <2>2. f[k] \in CrcWord /\ r[k + 1] = Mirror(f[k])
    BY <1>3, <1>12, <2>1 DEF Steps
  <2>3. f[k + 1] = TableStep(f[k], data[k + 1]) /\ data[k + 1] \in 0 .. 255
    BY <1>1, <1>3, <2>1
  <2>4. r[(k + 1) + 1] = DivideByte(r[k + 1], data[k + 1])
    BY <1>8, <1>10, <2>1
  <2>5. DivideByte(Mirror(f[k]), data[k + 1]) = Mirror(TableStep(f[k], data[k + 1]))
    BY <2>2, <2>3, ByteDivided, TableStepDivides, ZenonT(40)
  <2>6. QED
    BY <2>1, <2>2, <2>3, <2>4, <2>5
<1>13. r[n + 1] = Mirror(w)
  <2> HIDE DEF Alike
  <2>1. 0 .. n \subseteq Alike
    BY <1>11, <1>12, UpTo
  <2>2. n \in Alike
    BY <2>1
  <2>3. QED
    BY <2>2 DEF Alike
<1>14. /\ r[n + 2] = DivideByte(r[n + 1], crc[1]) /\ r[n + 3] = DivideByte(r[n + 2], crc[2])
       /\ r[n + 4] = DivideByte(r[n + 3], crc[3]) /\ r[n + 5] = DivideByte(r[n + 4], crc[4])
  <2>1. /\ n + 2 \in 1 .. m /\ n + 3 \in 1 .. m /\ n + 4 \in 1 .. m /\ n + 5 \in 1 .. m
        /\ n + 1 + 1 = n + 2 /\ n + 1 + 2 = n + 3 /\ n + 1 + 3 = n + 4 /\ n + 1 + 4 = n + 5
        /\ n + 2 - 1 = n + 1 /\ n + 3 - 1 = n + 2 /\ n + 4 - 1 = n + 3 /\ n + 5 - 1 = n + 4
    BY <1>7
  <2>2. /\ frame[n + 1 + 1] = crc[1] /\ frame[n + 1 + 2] = crc[2]
        /\ frame[n + 1 + 3] = crc[3] /\ frame[n + 1 + 4] = crc[4]
    BY <1>8
  <2>3. /\ r[n + 2] = DivideByte(r[n + 2 - 1], frame[n + 2])
        /\ r[n + 3] = DivideByte(r[n + 3 - 1], frame[n + 3])
        /\ r[n + 4] = DivideByte(r[n + 4 - 1], frame[n + 4])
        /\ r[n + 5] = DivideByte(r[n + 5 - 1], frame[n + 5])
    BY <1>10, <2>1
  <2>4. QED
    BY <2>1, <2>2, <2>3
<1>15. r[n + 5] = Remainder
  BY <1>4, <1>13, <1>14, ChecksumDivided DEF crc
<1>16. QED
  BY <1>7, <1>10, <1>15 DEF Confirmed

-----------------------------------------------------------------------------
\* A function of 1 .. n is a sequence of length n.
LEMMA StoredIsFour == \A w \in CrcWord : OfLength(Stored(Complement(w)), 4)
<1> SUFFICES ASSUME NEW w \in CrcWord PROVE OfLength(Stored(Complement(w)), 4)
  OBVIOUS
<1> DEFINE c == Complement(w)
<1> HIDE DEF c
<1>1. \A k \in 1 .. 4 : ByteOf(c, k - 1) \in 0 .. 255
  <2>1. \A k \in 1 .. 4 : k - 1 \in Nat
    OBVIOUS
  <2>2. QED
    BY <2>1, ByteHasBits
<1>2. \A k \in 1 .. 4 : ByteOf(c, k - 1) \in Int
  BY <1>1
<1>3. \A n \in Nat : n = 4 => [k \in 1 .. n |-> ByteOf(c, k - 1)] \in Seq(Int)
  BY <1>2
<1>4. \A n \in Nat : n = 4 => OfLength([k \in 1 .. n |-> ByteOf(c, k - 1)], n)
  BY <1>3 DEF OfLength
<1>5. OfLength([k \in 1 .. 4 |-> ByteOf(c, k - 1)], 4)
  BY <1>4
<1>6. QED
  BY <1>5 DEF Stored, c

LEMMA FrameMade ==
    ASSUME NEW data, NEW n \in Nat, OfLength(data, n), NEW crc, OfLength(crc, 4)
    PROVE  FrameHolds(<<Preamble>> \o data \o crc, data, n, crc)
<1> DEFINE p == <<Preamble>>
           pd == p \o data
           frame == pd \o crc
           m == 1 + n
           l == m + 4
<1>1. OfLength(p, 1)
  BY DEF OfLength, Preamble
<1>2. p[1] = Preamble
  OBVIOUS
<1> HIDE DEF p
<1>3. m \in Nat /\ l \in Nat /\ m = 1 + n /\ l = m + 4
  OBVIOUS
<1> HIDE DEF m, l
<1>4. OfLength(pd, m) /\ Holds(pd, 1, data, n) /\ Holds(pd, 0, p, 1)
  BY <1>1, <1>3, 1 \in Nat, Joined
<1> HIDE DEF pd
<1>5. OfLength(frame, l) /\ Holds(frame, m, crc, 4) /\ Holds(frame, 0, pd, m)
  BY <1>3, <1>4, 4 \in Nat, Joined
<1> HIDE DEF frame
<1>6. Len(frame) = n + 5
  BY <1>3, <1>5 DEF OfLength
<1>7. frame[1] = Preamble
  <2>1. frame[0 + 1] = pd[1] /\ pd[0 + 1] = p[1]
    BY <1>3, <1>4, <1>5 DEF Holds
  <2>2. 0 + 1 = 1
    OBVIOUS
  <2>3. QED
    BY <1>2, <2>1, <2>2
<1>8. ASSUME NEW k \in 1 .. n PROVE frame[k + 1] = data[k]
  <2>1. pd[1 + k] = data[k]
    BY <1>4 DEF Holds
  <2>2. 1 + k \in 1 .. m /\ 0 + (1 + k) = 1 + k /\ 1 + k = k + 1
    BY <1>3
  <2>3. frame[0 + (1 + k)] = pd[1 + k]
    BY <1>5, <2>2 DEF Holds
  <2>4. QED
    BY <2>1, <2>2, <2>3
<1>9. ASSUME NEW k \in 1 .. 4 PROVE frame[n + 1 + k] = crc[k]
  <2>1. frame[m + k] = crc[k]
    BY <1>5 DEF Holds
  <2>2. m + k = n + 1 + k
    BY <1>3
  <2>3. QED
    BY <2>1, <2>2
<1>10. QED
  BY <1>6, <1>7, <1>8, <1>9 DEF FrameHolds, frame, pd, p

\* For every message, ds_crc32 and haptics_crc32 compute the same checksum,
\* and the controller confirms it when its four bytes are appended.
THEOREM ChecksumConfirmed ==
    ASSUME NEW data, NEW n \in Nat, data \in [1 .. n -> 0 .. 255]
    PROVE  /\ ds_crc32(data) = haptics_crc32(data)
           /\ Confirmed(<<Preamble>> \o data \o Stored(ds_crc32(data)))
           /\ OfLength(Stored(ds_crc32(data)), 4)
           /\ \A k \in 1 .. 4 : Stored(ds_crc32(data))[k] \in 0 .. 255
<1>1. Len(data) = n /\ data \in Seq(Int) /\ \A k \in 1 .. n : data[k] \in 0 .. 255
  <2>1. \A k \in 1 .. n : data[k] \in 0 .. 255
    OBVIOUS
  <2>2. data \in [1 .. n -> Int]
    <3>1. \A x \in 0 .. 255 : x \in Int
      OBVIOUS
    <3>2. data = [k \in 1 .. n |-> data[k]] /\ \A k \in 1 .. n : data[k] \in Int
      BY <2>1, <3>1
    <3>3. QED
      BY <3>2
  <2>3. data \in Seq(Int) /\ Len(data) = n
    BY <2>2
  <2>4. QED
    BY <2>1, <2>3
<1>2. Octets(data, n) /\ OfLength(data, n)
  BY <1>1 DEF Octets, OfLength
<1>3. ds_crc32(data) = haptics_crc32(data)
  BY <1>2, OneChecksum
<1>4. PICK f : Steps(f, n, Seed) /\ f[n] = StepThrough(TableStep, Seed, data)
  BY <1>1, OneSeed, TableLoop
<1>5. f[n] \in CrcWord
  BY <1>4 DEF Steps
<1>6. OfLength(Stored(ds_crc32(data)), 4)
  BY <1>4, <1>5, StoredIsFour DEF ds_crc32
<1> DEFINE crc == Stored(ds_crc32(data))
           frame == <<Preamble>> \o data \o crc
<1>7. FrameHolds(frame, data, n, crc)
  BY <1>2, <1>6, FrameMade
<1> HIDE DEF frame
<1>8. Confirmed(frame)
  BY <1>2, <1>7, FrameConfirmed DEF crc
<1>9. \A k \in 1 .. 4 : crc[k] \in 0 .. 255
  <2>1. crc = Stored(Complement(f[n]))
    BY <1>4 DEF ds_crc32
  <2> HIDE DEF crc
  <2>2. \A k \in 0 .. 3 : crc[k + 1] \in 0 .. 255
    BY <1>5, <2>1, StoredByte
  <2>3. \A k \in 1 .. 4 : k - 1 \in 0 .. 3 /\ (k - 1) + 1 = k
    OBVIOUS
  <2>4. QED
    BY <2>2, <2>3
<1>10. QED
  BY <1>3, <1>6, <1>8, <1>9 DEF frame, crc
=============================================================================
