----------------------------- MODULE CodecsProofs -----------------------------
(***************************************************************************)
(* Proofs about Codecs.  Trigger effects, for all parameters: what the     *)
(* controller reads of the 11 bytes of an encoder is what the caller asked *)
(* for.  The mask and the packed fields are numbers whose digits are the   *)
(* zones; their bytes give the numbers back; and each encoder puts them    *)
(* where the reader looks.  dsctl, for every command line: its exit        *)
(* status.  Input reports, for every state a report has room for: the      *)
(* parser finds each field where the controller put it, and takes numbers, *)
(* fingers and buttons apart as they were put together.  Front ends, for   *)
(* all numbers: each finds its words and numbers in what a user writes and *)
(* makes the same call of them.  Output reports, for every handle.         *)
(* Packets of any length: what the search carries out of them, by an       *)
(* induction from the end of the text.                                     *)
(***************************************************************************)
EXTENDS Codecs, ChecksumsProofs
-----------------------------------------------------------------------------
\* Sums over the zones.

\* The loop over the zones has a course.
LEMMA ZoneLoop ==
    ASSUME NEW t \in [Zone -> Nat]
    PROVE  \E s \in [0 .. 10 -> Nat] : /\ s[0] = 0 /\ \A k \in 0 .. 9 : s[k + 1] = s[k] + t[k]
                                       /\ s[10] = OverZones(t)
<1> DEFINE turn == [w \in (1 .. 10) \X Nat |-> w[2] + t[w[1] - 1]]
           Sums(f) == f = [i \in 0 .. 10 |-> IF i = 0 THEN 0 ELSE f[i - 1] + t[i - 1]]
           s == CHOOSE f : Sums(f)
<1>1. turn \in Turns(10, Nat)
  BY DEF Zone, Turns
<1>2. PICK g : Course(g, 10, Nat, 0, turn)
  <2> HIDE DEF turn
  <2>1. 10 \in Nat /\ 0 \in Nat
    OBVIOUS
  <2>2. QED
    BY <1>1, <2>1, CourseExists
<1>3. g \in [0 .. 10 -> Nat] /\ g[0] = 0 /\ \A i \in 1 .. 10 : g[i] = g[i - 1] + t[i - 1]
  BY <1>2 DEF Course
<1>4. Sums(g)
  BY <1>3
<1>5. Sums(s)
  BY <1>4
<1>6. OverZones(t) = s[10]
  BY DEF OverZones
<1> HIDE DEF s
<1>7. s[0] = 0 /\ \A k \in 0 .. 9 : s[k + 1] = s[k] + t[k]
  <2>1. s[0] = 0 /\ \A i \in 1 .. 10 : s[i] = s[i - 1] + t[i - 1]
    BY <1>5
  <2>2. ASSUME NEW k \in 0 .. 9 PROVE s[k + 1] = s[k] + t[k]
    <3>1. k + 1 \in 1 .. 10 /\ (k + 1) - 1 = k
      OBVIOUS
    <3>2. QED
      BY <2>1, <3>1
  <2>3. QED
    BY <2>1, <2>2
<1>8. s \in [0 .. 10 -> Nat]
  <2>1. DOMAIN s = 0 .. 10 /\ s = [i \in 0 .. 10 |-> s[i]]
    BY <1>5
  <2> DEFINE N == {i \in 0 .. 10 : s[i] \in Nat}
  <2>2. 0 \in N
    BY <1>7
  <2>3. ASSUME NEW k \in 0 .. 10 - 1, k \in N PROVE k + 1 \in N
    <3>1. k \in 0 .. 9 /\ k \in Zone /\ s[k] \in Nat /\ t[k] \in Nat
      BY <2>3 DEF Zone
    <3>2. s[k + 1] \in Nat
      BY <1>7, <3>1
    <3>3. QED
      BY <3>2
  <2> HIDE DEF N
  <2>4. 0 .. 10 \subseteq N
    BY <2>2, <2>3, UpTo
  <2>5. QED
    BY <2>1, <2>4 DEF N
<1>9. QED
  BY <1>6, <1>7, <1>8

\* The places of binary and octal digits.
Places(b) == [k \in 0 .. 10 |-> b ^ k]
LEMMA PlacesRise ==
    ASSUME NEW b \in {2, 8}
    PROVE  /\ Places(b) \in [0 .. 10 -> Nat \ {0}] /\ Places(b)[0] = 1
           /\ \A k \in 0 .. 9 : Places(b)[k + 1] = b * Places(b)[k]
<1>1. CASE b = 2
  <2>1. /\ 2 ^ 0 = 1 /\ 2 ^ 1 = 2 /\ 2 ^ 2 = 4 /\ 2 ^ 3 = 8 /\ 2 ^ 4 = 16 /\ 2 ^ 5 = 32
        /\ 2 ^ 6 = 64 /\ 2 ^ 7 = 128 /\ 2 ^ 8 = 256 /\ 2 ^ 9 = 512 /\ 2 ^ 10 = 1024
    OBVIOUS
  <2> DEFINE f == Places(2)
  <2>2. /\ DOMAIN f = 0 .. 10 /\ f = [k \in 0 .. 10 |-> f[k]]
        /\ f[0] = 1 /\ f[1] = 2 /\ f[2] = 4 /\ f[3] = 8 /\ f[4] = 16 /\ f[5] = 32
        /\ f[6] = 64 /\ f[7] = 128 /\ f[8] = 256 /\ f[9] = 512 /\ f[10] = 1024
    BY <2>1 DEF Places
  <2> HIDE DEF f
  <2>3. \A k \in 0 .. 9 : f[k + 1] = 2 * f[k]
    BY <2>2
  <2>4. \A k \in 0 .. 10 : f[k] \in Nat \ {0}
    BY <2>2
  <2>5. f \in [0 .. 10 -> Nat \ {0}]
    BY <2>2, <2>4
  <2>6. QED
    BY <1>1, <2>2, <2>3, <2>5 DEF f
<1>2. CASE b = 8
  <2>1. /\ 8 ^ 0 = 1 /\ 8 ^ 1 = 8 /\ 8 ^ 2 = 64 /\ 8 ^ 3 = 512 /\ 8 ^ 4 = 4096
        /\ 8 ^ 5 = 32768 /\ 8 ^ 6 = 262144 /\ 8 ^ 7 = 2097152 /\ 8 ^ 8 = 16777216
        /\ 8 ^ 9 = 134217728 /\ 8 ^ 10 = 1073741824
    OBVIOUS
  <2> DEFINE f == Places(8)
  <2>2. /\ DOMAIN f = 0 .. 10 /\ f = [k \in 0 .. 10 |-> f[k]]
        /\ f[0] = 1 /\ f[1] = 8 /\ f[2] = 64 /\ f[3] = 512 /\ f[4] = 4096
        /\ f[5] = 32768 /\ f[6] = 262144 /\ f[7] = 2097152 /\ f[8] = 16777216
        /\ f[9] = 134217728 /\ f[10] = 1073741824
    BY <2>1 DEF Places
  <2> HIDE DEF f
  <2>3. \A k \in 0 .. 9 : f[k + 1] = 8 * f[k]
    BY <2>2
  <2>4. \A k \in 0 .. 10 : f[k] \in Nat \ {0}
    BY <2>2
  <2>5. f \in [0 .. 10 -> Nat \ {0}]
    BY <2>2, <2>4
  <2>6. QED
    BY <1>2, <2>2, <2>3, <2>5 DEF f
<1>3. QED
  BY <1>1, <1>2

\* A sum of digits at their places has them.
AtPlaces(b, c) == [z \in Zone |-> c[z] * b ^ z]
LEMMA ZoneDigits ==
    ASSUME NEW b \in {2, 8}, NEW c \in [Zone -> 0 .. b - 1]
    PROVE  /\ OverZones(AtPlaces(b, c)) \in Nat /\ OverZones(AtPlaces(b, c)) < b ^ 10
           /\ \A z \in Zone : DigitIn(b, b ^ z, c[z], OverZones(AtPlaces(b, c)))
<1> DEFINE t == AtPlaces(b, c)
           p == Places(b)
<1>1. p \in [0 .. 10 -> Nat \ {0}] /\ p[0] = 1 /\ \A k \in 0 .. 9 : p[k + 1] = b * p[k]
  BY PlacesRise
<1>2. \A k \in 0 .. 10 : p[k] = b ^ k
  BY DEF Places
<1> HIDE DEF p
<1>3. \A z \in Zone : c[z] \in Nat /\ p[z] \in Nat /\ t[z] = c[z] * p[z]
  BY <1>1, <1>2 DEF Zone, AtPlaces
<1>4. t \in [Zone -> Nat]
  <2>1. DOMAIN t = Zone /\ t = [z \in Zone |-> t[z]]
    BY DEF AtPlaces
  <2> HIDE DEF t
  <2>2. \A z \in Zone : t[z] \in Nat
    <3>1. \A x, y \in Nat : x * y \in Nat
      OBVIOUS
    <3>2. QED
      BY <1>3, <3>1
  <2>3. QED
    BY <2>1, <2>2
<1> HIDE DEF t
<1>5. PICK s \in [0 .. 10 -> Nat] : /\ s[0] = 0 /\ \A k \in 0 .. 9 : s[k + 1] = s[k] + t[k]
                                    /\ s[10] = OverZones(t)
  BY <1>4, ZoneLoop
<1>6. Adds(10, b, p, c, s)
  <2>1. \A k \in 0 .. 9 : s[k + 1] = s[k] + c[k] * p[k]
    BY <1>3, <1>5 DEF Zone
  <2>2. 10 - 1 = 9 /\ c \in [0 .. 9 -> 0 .. b - 1]
    BY DEF Zone
  <2>3. QED
    BY <1>1, <1>5, <2>1, <2>2 DEF Adds
<1>7. s[10] < p[10] /\ \A k \in 0 .. 10 - 1 : DigitIn(b, p[k], c[k], s[10])
  <2>1. 10 \in Nat /\ b \in Nat \ {0}
    OBVIOUS
  <2>2. QED
    BY <1>6, <2>1, DigitsReadBack DEF DigitIn
<1>8. s[10] \in Nat /\ s[10] < b ^ 10
  BY <1>2, <1>5, <1>7
<1>9. \A z \in Zone : DigitIn(b, b ^ z, c[z], s[10])
  BY <1>2, <1>7 DEF Zone
<1>10. QED
  BY <1>5, <1>8, <1>9 DEF t

\* Places are natural numbers.
LEMMA PlacesAreNatural == \A b \in {2, 8}, z \in Zone : b ^ z \in Nat
<1> SUFFICES ASSUME NEW b \in {2, 8}, NEW z \in Zone PROVE b ^ z \in Nat
  OBVIOUS
<1>1. z \in 0 .. 10
  BY DEF Zone
<1>2. Places(b)[z] = b ^ z
  BY <1>1 DEF Places
<1>3. Places(b)[z] \in Nat
  <2>1. Places(b) \in [0 .. 10 -> Nat \ {0}]
    BY PlacesRise
  <2>2. QED
    BY <1>1, <2>1
<1>4. QED
  BY <1>2, <1>3

-----------------------------------------------------------------------------
\* Masks, packed fields and their bytes.

HasBit(n, z) == (n \div 2 ^ z) % 2 = 1

\* The mask of some zones has the bits of these zones.
LEMMA MaskBits ==
    ASSUME NEW zones \in SUBSET Zone
    PROVE  /\ Mask(zones) \in 0 .. 1023
           /\ \A z \in 0 .. 15 : HasBit(Mask(zones), z) <=> z \in zones
<1> DEFINE c == [z \in Zone |-> IF z \in zones THEN 1 ELSE 0]
           n == Mask(zones)
<1>1. c \in [Zone -> 0 .. 2 - 1]
  OBVIOUS
<1>2. AtPlaces(2, c) = [z \in Zone |-> IF z \in zones THEN 2 ^ z ELSE 0]
  <2>1. \A z \in Zone : c[z] * 2 ^ z = IF z \in zones THEN 2 ^ z ELSE 0
    <3>1. \A z \in Zone : 2 ^ z \in Nat
      BY PlacesAreNatural
    <3>2. \A x \in Nat : 1 * x = x /\ 0 * x = 0
      OBVIOUS
    <3>3. QED
      BY <3>1, <3>2
  <2>2. QED
    BY <2>1 DEF AtPlaces
<1>3. n = OverZones(AtPlaces(2, c))
  BY <1>2 DEF Mask
<1> HIDE DEF n, c
<1>4. n \in Nat /\ n < 2 ^ 10 /\ \A z \in Zone : DigitIn(2, 2 ^ z, c[z], n)
  BY <1>1, <1>3, ZoneDigits
<1>5. n \in 0 .. 1023
  BY <1>4
<1>6. ASSUME NEW z \in 0 .. 15 PROVE HasBit(n, z) <=> z \in zones
  <2>1. CASE z \in Zone
    <3>1. (n \div 2 ^ z) % 2 = c[z]
      BY <1>4, <2>1 DEF DigitIn
    <3>2. QED
      BY <2>1, <3>1 DEF c, HasBit
  <2>2. CASE z \notin Zone
    <3>1. z \in {10, 11, 12, 13, 14, 15}
      BY <2>2 DEF Zone
    <3> DEFINE w == [k \in 0 .. 15 |-> 2 ^ k]
               d == w[z]
    <3>2. /\ w[10] = 1024 /\ w[11] = 2048 /\ w[12] = 4096 /\ w[13] = 8192
          /\ w[14] = 16384 /\ w[15] = 32768 /\ d = 2 ^ z
      OBVIOUS
    <3> HIDE DEF w
    <3>3. \A m \in {1024, 2048, 4096, 8192, 16384, 32768} : n \div m = 0
      BY <1>5
    <3>4. d \in {1024, 2048, 4096, 8192, 16384, 32768}
      BY <3>1, <3>2
    <3> HIDE DEF d
    <3>5. n \div d = 0
      BY <3>3, <3>4
    <3>6. (n \div d) % 2 = 0
      BY <3>5
    <3>7. QED
      BY <2>2, <3>2, <3>6 DEF HasBit
  <2>3. QED
    BY <2>1, <2>2
<1>7. QED
  BY <1>5, <1>6 DEF n

LEMMA MaskFits ==
    ASSUME NEW zones \in SUBSET Zone
    PROVE  Mask(zones) \in Nat /\ Mask(zones) < 65536 /\ Mask(zones) < TwoTo32
<1>1. Mask(zones) \in 0 .. 1023
  BY MaskBits
<1>2. \A n \in 0 .. 1023 : n \in Nat /\ n < 65536 /\ n < TwoTo32
  BY SMT DEF TwoTo32
<1>3. QED
  BY <1>1, <1>2

\* Packed fields have the fields as octal digits.
LEMMA PackDigits ==
    ASSUME NEW zones \in SUBSET Zone, NEW field \in [zones -> 0 .. 7]
    PROVE  /\ Pack(field) \in Nat /\ Pack(field) < TwoTo32
           /\ \A z \in zones : (Pack(field) \div 8 ^ z) % 8 = field[z]
<1> DEFINE c == [z \in Zone |-> IF z \in zones THEN field[z] ELSE 0]
           n == Pack(field)
<1>1. c \in [Zone -> 0 .. 8 - 1]
  OBVIOUS
<1>2. AtPlaces(8, c) = [z \in Zone |-> IF z \in DOMAIN field THEN field[z] * 8 ^ z ELSE 0]
  <2>1. \A z \in Zone : c[z] * 8 ^ z = IF z \in DOMAIN field THEN field[z] * 8 ^ z ELSE 0
    <3>1. \A z \in Zone : 8 ^ z \in Nat
      BY PlacesAreNatural
    <3>2. \A x \in Nat : 0 * x = 0
      OBVIOUS
    <3>3. QED
      BY <3>1, <3>2
  <2>2. QED
    BY <2>1 DEF AtPlaces
<1>3. n = OverZones(AtPlaces(8, c))
  BY <1>2 DEF Pack
<1> HIDE DEF n, c
<1>4. n \in Nat /\ n < 8 ^ 10 /\ \A z \in Zone : DigitIn(8, 8 ^ z, c[z], n)
  BY <1>1, <1>3, ZoneDigits
<1>5. n < TwoTo32
  <2>1. 8 ^ 10 < TwoTo32
    BY SMT DEF TwoTo32
  <2>2. 8 ^ 10 \in Int /\ TwoTo32 \in Int
    BY SMT DEF TwoTo32
  <2>3. QED
    BY <1>4, <2>1, <2>2
<1>6. \A z \in zones : (n \div 8 ^ z) % 8 = field[z]
  BY <1>4 DEF DigitIn, c
<1>7. QED
  BY <1>4, <1>5, <1>6 DEF n

\* Four bytes make a number of 32 bits again, two make one of 16.
LEMMA OctetsJoin ==
    ASSUME NEW n \in Nat, n < TwoTo32
    PROVE  /\ \A k \in 0 .. 3 : Octet(n, k) \in 0 .. 255
           /\ Octet(n, 0) + 256 * (Octet(n, 1) + 256 * (Octet(n, 2) + 256 * Octet(n, 3))) = n
           /\ n < 65536 => Octet(n, 0) + 256 * Octet(n, 1) = n
<1>1. \A k : Octet(n, k) = OctetAt(n, k)
  BY DEF Octet, OctetAt
<1>2. QED
  BY <1>1, FourOctets, SMTT(40)

\* The bytes of an effect: a mode and at most ten parameters.
LEMMA EffectBytesType ==
    ASSUME NEW mode \in 0 .. 255, NEW p \in Seq(0 .. 255)
    PROVE  EffectBytes(mode, p) \in Effect /\ EffectBytes(mode, p)[0] = mode
<1>1. \A i \in DOMAIN p : p[i] \in 0 .. 255
  BY LenProperties, ElementOfSeq, ZenonT(40)
<1>2. \A i \in 0 .. 10 : EffectBytes(mode, p)[i] \in 0 .. 255
  BY <1>1 DEF EffectBytes
<1>3. EffectBytes(mode, p) \in Effect
  BY <1>2 DEF EffectBytes, Effect
<1>4. QED
  BY <1>3 DEF EffectBytes

\* The bytes of an effect that begins with a mask.
MaskedBytes(mode, zones, q) == EffectBytes(mode, MaskBytes(zones) \o q)
MaskIn(e, zones) == e[1] = Octet(Mask(zones), 0) /\ e[2] = Octet(Mask(zones), 1)
Consists(e, mode, zones, q) ==
    /\ e \in Effect /\ e[0] = mode /\ MaskIn(e, zones)
    /\ \A i \in 1 .. Len(q) : e[2 + i] = q[i]
LEMMA MaskedBytesAre ==
    ASSUME NEW mode \in 0 .. 255, NEW zones \in SUBSET Zone, NEW q \in Seq(0 .. 255), Len(q) <= 8
    PROVE  Consists(MaskedBytes(mode, zones, q), mode, zones, q)
<1> DEFINE m == MaskBytes(zones)
           p == m \o q
           e == MaskedBytes(mode, zones, q)
<1>1. Octet(Mask(zones), 0) \in 0 .. 255 /\ Octet(Mask(zones), 1) \in 0 .. 255
  <2>1. Mask(zones) \in Nat /\ Mask(zones) < TwoTo32
    BY MaskFits
  <2>2. QED
    BY <2>1, OctetsJoin, SMTT(30)
<1>2. /\ m \in Seq(0 .. 255) /\ Len(m) = 2
      /\ m[1] = Octet(Mask(zones), 0) /\ m[2] = Octet(Mask(zones), 1)
  BY <1>1 DEF MaskBytes
<1>3. Len(q) \in Nat
  BY LenProperties
<1>4. e = EffectBytes(mode, p)
  BY DEF MaskedBytes
<1> HIDE DEF m, e
<1>5. /\ p \in Seq(0 .. 255) /\ Len(p) = 2 + Len(q)
      /\ \A i \in 1 .. 2 + Len(q) : p[i] = IF i <= 2 THEN m[i] ELSE q[i - 2]
  <2>1. p \in Seq(0 .. 255) /\ Len(p) = Len(m) + Len(q)
    BY <1>2, ConcatProperties, ZenonT(40)
  <2>2. \A i \in 1 .. Len(m) + Len(q) : p[i] = IF i <= Len(m) THEN m[i] ELSE q[i - Len(m)]
    BY <1>2, ConcatProperties, ZenonT(40)
  <2>3. QED
    BY <1>2, <2>1, <2>2
<1>6. DOMAIN p = 1 .. 2 + Len(q)
  BY <1>5, LenProperties
<1> HIDE DEF p
<1>7. e \in Effect /\ e[0] = mode
  BY <1>4, <1>5, EffectBytesType
<1>8. \A i \in 1 .. 2 + Len(q) : e[i] = p[i]
  BY <1>3, <1>4, <1>6 DEF EffectBytes
<1>9. e[1] = m[1] /\ e[2] = m[2]
  BY <1>3, <1>5, <1>8
<1>10. ASSUME NEW i \in 1 .. Len(q) PROVE e[2 + i] = q[i]
  <2>1. 2 + i \in 1 .. 2 + Len(q) /\ ~(2 + i <= 2) /\ (2 + i) - 2 = i
    BY <1>3
  <2>2. QED
    BY <1>5, <1>8, <2>1
<1>11. QED
  BY <1>2, <1>7, <1>9, <1>10 DEF e, Consists, MaskIn

\* The bytes of a zone effect.
FieldsIn(e, field) ==
    /\ e[3] = Octet(Pack(field), 0) /\ e[4] = Octet(Pack(field), 1)
    /\ e[5] = Octet(Pack(field), 2) /\ e[6] = Octet(Pack(field), 3)
LEMMA ZoneBytesAre ==
    ASSUME NEW mode \in 0 .. 255, NEW zones \in SUBSET Zone, NEW field \in [zones -> 0 .. 7]
    PROVE  LET e == ZoneBytes(mode, field)
           IN  e \in Effect /\ e[0] = mode /\ MaskIn(e, zones) /\ FieldsIn(e, field)
<1> DEFINE q == [k \in 1 .. 4 |-> Octet(Pack(field), k - 1)]
           e == ZoneBytes(mode, field)
<1>1. \A k \in 0 .. 3 : Octet(Pack(field), k) \in 0 .. 255
  <2>1. Pack(field) \in Nat /\ Pack(field) < TwoTo32
    BY PackDigits
  <2>2. QED
    BY <2>1, OctetsJoin
<1>2. q \in Seq(0 .. 255) /\ Len(q) = 4
  <2>1. \A k \in 1 .. 4 : Octet(Pack(field), k - 1) \in 0 .. 255
    BY <1>1
  <2>2. q \in [1 .. 4 -> 0 .. 255]
    BY <2>1
  <2>3. q \in Seq(0 .. 255)
    BY <2>2
  <2>4. DOMAIN q = 1 .. 4
    OBVIOUS
  <2> HIDE DEF q
  <2>5. Len(q) = 4
    BY <2>3, <2>4, LenProperties
  <2>6. QED
    BY <2>3, <2>5
<1>3. /\ q[1] = Octet(Pack(field), 0) /\ q[2] = Octet(Pack(field), 1)
      /\ q[3] = Octet(Pack(field), 2) /\ q[4] = Octet(Pack(field), 3)
  OBVIOUS
<1>4. e = MaskedBytes(mode, zones, q)
  BY DEF ZoneBytes, MaskedBytes
<1> HIDE DEF q, e
<1>5. Consists(e, mode, zones, q)
  <2>1. q \in Seq(0 .. 255) /\ Len(q) <= 8
    BY <1>2
  <2>2. Consists(MaskedBytes(mode, zones, q), mode, zones, q)
    BY <2>1, MaskedBytesAre
  <2>3. QED
    BY <1>4, <2>2
<1>6. e[3] = q[1] /\ e[4] = q[2] /\ e[5] = q[3] /\ e[6] = q[4]
  BY <1>2, <1>5 DEF Consists
<1>7. QED
  BY <1>3, <1>5, <1>6 DEF e, Consists, FieldsIn

\* Two bytes with the mask of some zones are read as these zones.
LEMMA ZonesRead ==
    ASSUME NEW e, NEW zones \in SUBSET Zone, MaskIn(e, zones)
    PROVE  ReadZones(e) = zones
<1>1. Mask(zones) \in Nat /\ Mask(zones) < 65536 /\ Mask(zones) < TwoTo32
  BY MaskFits
<1>2. e[1] + 256 * e[2] = Mask(zones)
  BY <1>1, OctetsJoin DEF MaskIn
<1>3. zones \subseteq 0 .. 15
  BY DEF Zone
<1>4. ReadZones(e) = {z \in 0 .. 15 : HasBit(Mask(zones), z)}
  BY <1>2 DEF ReadZones, HasBit
<1>5. \A z \in 0 .. 15 : HasBit(Mask(zones), z) <=> z \in zones
  BY MaskBits
<1>6. QED
  BY <1>3, <1>4, <1>5

\* Six bytes with a mask and packed fields are read as the profile.
LEMMA ProfileRead ==
    ASSUME NEW e, NEW zones \in SUBSET Zone, NEW field \in [zones -> 0 .. 7],
           MaskIn(e, zones), FieldsIn(e, field)
    PROVE  ReadProfile(e) = [z \in Zone |-> IF z \in zones THEN 1 + field[z] ELSE 0]
<1>1. ReadZones(e) = zones
  BY ZonesRead
<1>2. e[3] + 256 * (e[4] + 256 * (e[5] + 256 * e[6])) = Pack(field)
  <2>1. Pack(field) \in Nat /\ Pack(field) < TwoTo32
    BY PackDigits
  <2>2. Octet(Pack(field), 0) + 256 * (Octet(Pack(field), 1) + 256 * (Octet(Pack(field), 2)
            + 256 * Octet(Pack(field), 3))) = Pack(field)
    BY <2>1, OctetsJoin
  <2>3. QED
    BY <2>2 DEF FieldsIn
<1>3. \A z \in zones : ReadField(e, z) = field[z]
  BY <1>2, PackDigits DEF ReadField
<1>4. QED
  BY <1>1, <1>3 DEF ReadProfile

-----------------------------------------------------------------------------
\* Each encoder: it refuses and leaves the effect as it was, or the controller
\* reads what the call asks for.

Answers(r, c, d) ==
    IF ~r.ok THEN r.dst = d
    ELSE c.op # "slope_feedback" => Read(r.dst) = WantedEffect(c)

\* The reader's cases: the modes differ.
LEMMA ReadByMode ==
    ASSUME NEW e
    PROVE  /\ e[0] = ModeOff => Read(e) = Silent
           /\ e[0] = ModeFeedback => Read(e) = [effect |-> "feedback", at |-> ReadProfile(e)]
           /\ e[0] = ModeVibration =>
                Read(e) = [effect |-> "vibration", at |-> ReadProfile(e), freq |-> e[9]]
           /\ e[0] = ModeWeapon =>
                Read(e) = [effect |-> "weapon", zones |-> ReadZones(e), force |-> e[3] + 1]
           /\ e[0] = ModeBow =>
                Read(e) = [effect |-> "bow", zones |-> ReadZones(e),
                           force |-> 1 + (e[3] % 8), snap |-> 1 + (e[3] \div 8)]
           /\ e[0] = ModeGalloping =>
                Read(e) = [effect |-> "galloping", zones |-> ReadZones(e),
                           feet |-> <<e[3] \div 8, e[3] % 8>>, freq |-> e[4]]
           /\ e[0] = ModeMachine =>
                Read(e) = [effect |-> "machine", zones |-> ReadZones(e),
                           amps |-> <<e[3] % 8, e[3] \div 8>>, freq |-> e[4], period |-> e[5]]
BY DEF Read, Silent, ModeOff, ModeFeedback, ModeVibration, ModeWeapon, ModeBow, ModeGalloping,
   ModeMachine

\* Where there is nothing to feel, the controller is told so.
LEMMA OffIsSilent == Off.ok /\ Read(Off.dst) = Silent
<1>1. Off.ok /\ Off.dst[0] = ModeOff
  BY DEF Off, Accept, EffectBytes
<1>2. QED
  BY <1>1, ReadByMode

\* Zone effects of one strength or of many, as a profile.
Profile(zones, field) == [z \in Zone |-> IF z \in zones THEN 1 + field[z] ELSE 0]
LEMMA FeedbackRead ==
    ASSUME NEW zones \in SUBSET Zone, NEW field \in [zones -> 0 .. 7]
    PROVE  Read(ZoneBytes(ModeFeedback, field)) =
                [effect |-> "feedback", at |-> Profile(zones, field)]
<1> DEFINE e == ZoneBytes(ModeFeedback, field)
<1>1. e[0] = ModeFeedback /\ MaskIn(e, zones) /\ FieldsIn(e, field)
  <2>1. ModeFeedback \in 0 .. 255
    BY DEF ModeFeedback
  <2>2. QED
    BY <2>1, ZoneBytesAre
<1> HIDE DEF e
<1>2. ReadProfile(e) = Profile(zones, field)
  BY <1>1, ProfileRead DEF Profile
<1>3. QED
  BY <1>1, <1>2, ReadByMode DEF e

LEMMA VibrationRead ==
    ASSUME NEW zones \in SUBSET Zone, NEW field \in [zones -> 0 .. 7], NEW freq
    PROVE  Read([ZoneBytes(ModeVibration, field) EXCEPT ![9] = freq]) =
                [effect |-> "vibration", at |-> Profile(zones, field), freq |-> freq]
<1> DEFINE z == ZoneBytes(ModeVibration, field)
           e == [z EXCEPT ![9] = freq]
<1>1. z \in Effect /\ z[0] = ModeVibration /\ MaskIn(z, zones) /\ FieldsIn(z, field)
  <2>1. ModeVibration \in 0 .. 255
    BY DEF ModeVibration
  <2>2. QED
    BY <2>1, ZoneBytesAre
<1> HIDE DEF z
<1>2. e[9] = freq /\ \A i \in 0 .. 6 : e[i] = z[i]
  BY <1>1 DEF Effect
<1> HIDE DEF e
<1>3. e[0] = ModeVibration /\ MaskIn(e, zones) /\ FieldsIn(e, field)
  BY <1>1, <1>2 DEF MaskIn, FieldsIn
<1>4. ReadProfile(e) = Profile(zones, field)
  BY <1>3, ProfileRead DEF Profile
<1>5. Read(e) = [effect |-> "vibration", at |-> Profile(zones, field), freq |-> freq]
  BY <1>2, <1>3, <1>4, ReadByMode
<1>6. QED
  BY <1>5 DEF e, z

\* A strength from a zone upwards.
FromZoneUp(pos, v, zones, field) ==
    /\ zones \in SUBSET Zone /\ field \in [zones -> 0 .. 7]
    /\ Profile(zones, field) = FromZone(pos, v) /\ FromZone(pos, v)[9] # 0
LEMMA FromZoneField ==
    ASSUME NEW pos \in 0 .. 9, NEW v \in 1 .. 8
    PROVE  FromZoneUp(pos, v, pos .. 9, [z \in pos .. 9 |-> v - 1])
<1>1. pos .. 9 \in SUBSET Zone
  BY DEF Zone
<1>2. v - 1 \in 0 .. 7 /\ 1 + (v - 1) = v
  OBVIOUS
<1>3. \A z \in Zone : z \in pos .. 9 <=> z >= pos
  BY DEF Zone
<1>4. Profile(pos .. 9, [z \in pos .. 9 |-> v - 1]) = FromZone(pos, v)
  BY <1>2, <1>3 DEF Profile, FromZone
<1>5. FromZone(pos, v)[9] # 0
  BY DEF FromZone, Zone
<1>6. QED
  BY <1>1, <1>2, <1>4, <1>5 DEF FromZoneUp

\* Many strengths, where a zone without one is left out.
LEMMA ForcesField ==
    ASSUME NEW a \in [Zone -> 0 .. 255], \A z \in Zone : ~(a[z] > 8)
    PROVE  \E zones \in SUBSET Zone : /\ Forces(a) \in [zones -> 0 .. 7]
                                      /\ Profile(zones, Forces(a)) = a
<1> DEFINE zones == {z \in Zone : a[z] > 0}
<1>1. \A z \in Zone : a[z] \in 0 .. 8
  OBVIOUS
<1>2. \A z \in zones : a[z] - 1 \in 0 .. 7 /\ 1 + (a[z] - 1) = a[z]
  BY <1>1
<1>3. \A z \in Zone \ zones : a[z] = 0
  BY <1>1
<1>4. Forces(a) = [z \in zones |-> a[z] - 1]
  BY DEF Forces
<1>5. a = [z \in Zone |-> a[z]]
  OBVIOUS
<1> HIDE DEF zones
<1>6. Forces(a) \in [zones -> 0 .. 7]
  BY <1>2, <1>4
<1>7. Profile(zones, Forces(a)) = [z \in Zone |-> a[z]]
  BY <1>2, <1>3, <1>4 DEF Profile
<1>8. zones \in SUBSET Zone
  BY DEF zones
<1>9. QED
  BY <1>5, <1>6, <1>7, <1>8

LEMMA FeedbackAnswers ==
    ASSUME NEW c, NEW d, c.op = "feedback", c.p[1] \in 0 .. 255, c.p[2] \in 0 .. 255
    PROVE  Answers(Feedback(d, c.p[1], c.p[2]), c, d)
<1> DEFINE pos == c.p[1]
           str == c.p[2]
<1>1. Wanted(c) = [effect |-> "feedback", at |-> FromZone(pos, str)]
  BY DEF Wanted
<1>2. CASE pos > 9 \/ str > 8
  BY <1>2 DEF Answers, Feedback, Refuse
<1>3. CASE ~(pos > 9 \/ str > 8) /\ str = 0
  <2>1. Feedback(d, pos, str) = Off
    BY <1>3 DEF Feedback
  <2>2. WantedEffect(c) = Silent
    BY <1>1, <1>3 DEF WantedEffect, FromZone
  <2>3. QED
    BY <2>1, <2>2, OffIsSilent DEF Answers
<1>4. CASE ~(pos > 9 \/ str > 8) /\ str # 0
  <2>1. pos \in 0 .. 9 /\ str \in 1 .. 8
    BY <1>4
  <2> DEFINE zones == pos .. 9
             field == [z \in zones |-> str - 1]
  <2>2. Feedback(d, pos, str) = Accept(ZoneBytes(ModeFeedback, field))
    BY <1>4 DEF Feedback
  <2>3. FromZoneUp(pos, str, zones, field)
    BY <2>1, FromZoneField
  <2> HIDE DEF zones, field
  <2>4. Read(ZoneBytes(ModeFeedback, field)) = [effect |-> "feedback", at |-> FromZone(pos, str)]
    BY <2>3, FeedbackRead DEF FromZoneUp
  <2>5. WantedEffect(c) = Wanted(c)
    BY <1>1, <2>3 DEF WantedEffect, Zone, FromZoneUp
  <2>6. QED
    BY <1>1, <2>2, <2>4, <2>5 DEF Answers, Accept
<1>5. QED
  BY <1>2, <1>3, <1>4

LEMMA FeedbackMultiAnswers ==
    ASSUME NEW c, NEW d, c.op = "feedback_multi", c.a \in [Zone -> 0 .. 255]
    PROVE  Answers(FeedbackMulti(d, c.a), c, d)
<1> DEFINE a == c.a
<1>1. Wanted(c) = [effect |-> "feedback", at |-> a]
  BY DEF Wanted
<1>2. CASE \E z \in Zone : a[z] > 8
  BY <1>2 DEF Answers, FeedbackMulti, Refuse
<1>3. CASE (\A z \in Zone : ~(a[z] > 8)) /\ \A z \in Zone : a[z] = 0
  <2>1. FeedbackMulti(d, a) = Off
    BY <1>3 DEF FeedbackMulti
  <2>2. WantedEffect(c) = Silent
    BY <1>1, <1>3 DEF WantedEffect
  <2>3. QED
    BY <2>1, <2>2, OffIsSilent DEF Answers
<1>4. CASE (\A z \in Zone : ~(a[z] > 8)) /\ \E z \in Zone : a[z] # 0
  <2>1. FeedbackMulti(d, a) = Accept(ZoneBytes(ModeFeedback, Forces(a)))
    BY <1>4 DEF FeedbackMulti
  <2>2. PICK zones \in SUBSET Zone : /\ Forces(a) \in [zones -> 0 .. 7]
                                     /\ Profile(zones, Forces(a)) = a
    BY <1>4, ForcesField
  <2>3. Read(ZoneBytes(ModeFeedback, Forces(a))) = [effect |-> "feedback", at |-> a]
    BY <2>2, FeedbackRead
  <2>4. WantedEffect(c) = Wanted(c)
    BY <1>1, <1>4 DEF WantedEffect
  <2>5. QED
    BY <1>1, <2>1, <2>3, <2>4 DEF Answers, Accept
<1>5. QED
  BY <1>2, <1>3, <1>4

LEMMA VibrationAnswers ==
    ASSUME NEW c, NEW d, c.op = "vibration",
           NEW pos \in 0 .. 255, NEW amp \in 0 .. 255, NEW freq \in 0 .. 255,
           c.p[1] = pos, c.p[2] = amp, c.p[3] = freq
    PROVE  Answers(Vibration(d, pos, amp, freq), c, d)
<1>1. Wanted(c) = IF freq = 0 THEN Silent
                  ELSE [effect |-> "vibration", at |-> FromZone(pos, amp), freq |-> freq]
  BY DEF Wanted
<1>2. CASE pos > 9 \/ amp > 8
  BY <1>2 DEF Answers, Vibration, Refuse
<1>3. CASE ~(pos > 9 \/ amp > 8) /\ (amp = 0 \/ freq = 0)
  <2>1. Vibration(d, pos, amp, freq) = Off
    BY <1>3 DEF Vibration
  <2>2. WantedEffect(c) = Silent
    <3>1. CASE freq = 0
      BY <1>1, <3>1 DEF WantedEffect, Silent
    <3>2. CASE freq # 0
      BY <1>1, <1>3, <3>2 DEF WantedEffect, FromZone
    <3>3. QED
      BY <3>1, <3>2
  <2>3. QED
    BY <2>1, <2>2, OffIsSilent DEF Answers
<1>4. CASE ~(pos > 9 \/ amp > 8) /\ ~(amp = 0 \/ freq = 0)
  <2>1. pos \in 0 .. 9 /\ amp \in 1 .. 8
    BY <1>4
  <2> DEFINE zones == pos .. 9
             field == [z \in zones |-> amp - 1]
  <2>2. Vibration(d, pos, amp, freq) = Accept([ZoneBytes(ModeVibration, field) EXCEPT ![9] = freq])
    BY <1>4 DEF Vibration
  <2>3. FromZoneUp(pos, amp, zones, field)
    BY <2>1, FromZoneField
  <2> HIDE DEF zones, field
  <2>4. Read([ZoneBytes(ModeVibration, field) EXCEPT ![9] = freq]) =
            [effect |-> "vibration", at |-> FromZone(pos, amp), freq |-> freq]
    BY <2>3, VibrationRead DEF FromZoneUp
  <2>5. WantedEffect(c) = Wanted(c)
    BY <1>1, <1>4, <2>3 DEF WantedEffect, Zone, FromZoneUp
  <2>6. QED
    BY <1>1, <1>4, <2>2, <2>4, <2>5 DEF Answers, Accept
<1>5. QED
  BY <1>2, <1>3, <1>4

LEMMA VibrationMultiAnswers ==
    ASSUME NEW c, NEW d, c.op = "vibration_multi", c.a \in [Zone -> 0 .. 255],
           NEW freq \in 0 .. 255,
           c.p[1] = freq
    PROVE  Answers(VibrationMulti(d, freq, c.a), c, d)
<1> DEFINE a == c.a
<1>1. Wanted(c) = IF freq = 0 THEN Silent
                  ELSE [effect |-> "vibration", at |-> a, freq |-> freq]
  BY DEF Wanted
<1>2. CASE freq # 0 /\ \E z \in Zone : a[z] > 8
  BY <1>2 DEF Answers, VibrationMulti, Refuse
<1>3. CASE freq = 0 \/ ((\A z \in Zone : ~(a[z] > 8)) /\ \A z \in Zone : a[z] = 0)
  <2>1. VibrationMulti(d, freq, a) = Off
    BY <1>3 DEF VibrationMulti
  <2>2. WantedEffect(c) = Silent
    <3>1. CASE freq = 0
      BY <1>1, <3>1 DEF WantedEffect, Silent
    <3>2. CASE freq # 0
      BY <1>1, <1>3, <3>2 DEF WantedEffect
    <3>3. QED
      BY <3>1, <3>2
  <2>3. QED
    BY <2>1, <2>2, OffIsSilent DEF Answers
<1>4. CASE freq # 0 /\ (\A z \in Zone : ~(a[z] > 8)) /\ \E z \in Zone : a[z] # 0
  <2>1. VibrationMulti(d, freq, a) =
            Accept([ZoneBytes(ModeVibration, Forces(a)) EXCEPT ![9] = freq])
    BY <1>4 DEF VibrationMulti
  <2>2. PICK zones \in SUBSET Zone : /\ Forces(a) \in [zones -> 0 .. 7]
                                     /\ Profile(zones, Forces(a)) = a
    BY <1>4, ForcesField
  <2>3. Read([ZoneBytes(ModeVibration, Forces(a)) EXCEPT ![9] = freq]) =
            [effect |-> "vibration", at |-> a, freq |-> freq]
    BY <2>2, VibrationRead
  <2>4. WantedEffect(c) = Wanted(c)
    BY <1>1, <1>4 DEF WantedEffect
  <2>5. QED
    BY <1>1, <1>4, <2>1, <2>3, <2>4 DEF Answers, Accept
<1>5. QED
  BY <1>2, <1>3, <1>4

\* Effects of two zones and some bytes.
TwoZones(e, mode, start, end, q) ==
    e[0] = mode /\ ReadZones(e) = {start, end} /\ \A i \in 1 .. Len(q) : e[2 + i] = q[i]
LEMMA TwoZoneBytes ==
    ASSUME NEW mode \in 0 .. 255, NEW start \in Zone, NEW end \in Zone, NEW q \in Seq(0 .. 255),
           Len(q) <= 8
    PROVE  TwoZones(EffectBytes(mode, MaskBytes({start, end}) \o q), mode, start, end, q)
<1>1. {start, end} \in SUBSET Zone
  OBVIOUS
<1>2. Consists(MaskedBytes(mode, {start, end}, q), mode, {start, end}, q)
  BY <1>1, MaskedBytesAre
<1>3. ReadZones(MaskedBytes(mode, {start, end}, q)) = {start, end}
  BY <1>1, <1>2, ZonesRead DEF Consists
<1>4. QED
  BY <1>2, <1>3 DEF Consists, MaskedBytes, TwoZones

\* Two fields in one byte.
LEMMA TwoFields ==
    ASSUME NEW low \in 0 .. 7, NEW high \in 0 .. 7
    PROVE  /\ low + 8 * high \in 0 .. 63
           /\ (low + 8 * high) % 8 = low /\ (low + 8 * high) \div 8 = high
           /\ Octet(low + 8 * high, 0) = low + 8 * high /\ Octet(low + 8 * high, 1) = 0
<1>1. /\ low + 8 * high \in 0 .. 63
      /\ (low + 8 * high) % 8 = low /\ (low + 8 * high) \div 8 = high
  OBVIOUS
<1>2. \A n \in 0 .. 63 : Octet(n, 0) = n /\ Octet(n, 1) = 0
  BY DEF Octet
<1>3. QED
  BY <1>1, <1>2

LEMMA WeaponAnswers ==
    ASSUME NEW c, NEW d, c.op = "weapon",
           NEW start \in 0 .. 255, NEW end \in 0 .. 255, NEW str \in 0 .. 255,
           c.p[1] = start, c.p[2] = end, c.p[3] = str
    PROVE  Answers(Weapon(d, start, end, str), c, d)
<1>1. WantedEffect(c) = IF str = 0 THEN Silent
                        ELSE [effect |-> "weapon", zones |-> {start, end}, force |-> str]
  BY DEF Wanted, WantedEffect, Silent
<1>2. CASE start < 2 \/ start > 7 \/ end > 8 \/ end <= start \/ str > 8
  BY <1>2 DEF Answers, Weapon, Refuse
<1>3. CASE ~(start < 2 \/ start > 7 \/ end > 8 \/ end <= start \/ str > 8) /\ str = 0
  BY <1>1, <1>3, OffIsSilent DEF Answers, Weapon
<1>4. CASE ~(start < 2 \/ start > 7 \/ end > 8 \/ end <= start \/ str > 8) /\ str # 0
  <2> DEFINE q == <<str - 1>>
             e == EffectBytes(ModeWeapon, MaskBytes({start, end}) \o q)
  <2>1. Weapon(d, start, end, str) = Accept(e)
    BY <1>4 DEF Weapon
  <2>2. start \in Zone /\ end \in Zone /\ ModeWeapon \in 0 .. 255
    BY <1>4 DEF Zone, ModeWeapon
  <2>3. q \in Seq(0 .. 255) /\ Len(q) = 1 /\ Len(q) <= 8 /\ q[1] = str - 1
    BY <1>4
  <2> HIDE DEF q
  <2>4. TwoZones(e, ModeWeapon, start, end, q)
    BY <2>2, <2>3, TwoZoneBytes, ZenonT(40)
  <2> HIDE DEF e
  <2>5. e[3] = str - 1
    BY <2>3, <2>4 DEF TwoZones
  <2>6. Read(e) = [effect |-> "weapon", zones |-> {start, end}, force |-> str]
    BY <2>4, <2>5, ReadByMode DEF TwoZones
  <2>7. QED
    BY <1>1, <1>4, <2>1, <2>6 DEF Answers, Accept
<1>5. QED
  BY <1>2, <1>3, <1>4

LEMMA BowAnswers ==
    ASSUME NEW c, NEW d, c.op = "bow",
           NEW start \in 0 .. 255, NEW end \in 0 .. 255, NEW str \in 0 .. 255,
           NEW snap \in 0 .. 255,
           c.p[1] = start, c.p[2] = end, c.p[3] = str, c.p[4] = snap
    PROVE  Answers(Bow(d, start, end, str, snap), c, d)
<1> DEFINE refused == start > 8 \/ end > 8 \/ start >= end \/ str > 8 \/ snap > 8
<1>1. WantedEffect(c) = IF str = 0 \/ snap = 0 THEN Silent
                        ELSE [effect |-> "bow", zones |-> {start, end},
                              force |-> str, snap |-> snap]
  BY DEF Wanted, WantedEffect, Silent
<1>2. CASE refused
  BY <1>2 DEF Answers, Bow, Refuse
<1>3. CASE ~refused /\ (str = 0 \/ snap = 0)
  BY <1>1, <1>3, OffIsSilent DEF Answers, Bow
<1>4. CASE ~refused /\ ~(str = 0 \/ snap = 0)
  <2> DEFINE forces == (str - 1) + 8 * (snap - 1)
             q == <<Octet(forces, 0), Octet(forces, 1)>>
             e == EffectBytes(ModeBow, MaskBytes({start, end}) \o q)
  <2>1. Bow(d, start, end, str, snap) = Accept(e)
    BY <1>4 DEF Bow
  <2>2. start \in Zone /\ end \in Zone /\ ModeBow \in 0 .. 255
    BY <1>4 DEF Zone, ModeBow
  <2>3. str - 1 \in 0 .. 7 /\ snap - 1 \in 0 .. 7 /\ 1 + (str - 1) = str /\ 1 + (snap - 1) = snap
    BY <1>4
  <2>4. /\ forces \in 0 .. 63 /\ forces % 8 = str - 1 /\ forces \div 8 = snap - 1
        /\ Octet(forces, 0) = forces /\ Octet(forces, 1) = 0
    BY <2>3, TwoFields
  <2> HIDE DEF forces
  <2>5. q \in Seq(0 .. 255) /\ Len(q) = 2 /\ Len(q) <= 8 /\ q[1] = forces
    BY <2>4
  <2> HIDE DEF q
  <2>6. TwoZones(e, ModeBow, start, end, q)
    BY <2>2, <2>5, TwoZoneBytes, ZenonT(40)
  <2> HIDE DEF e
  <2>7. e[3] = forces
    BY <2>5, <2>6 DEF TwoZones
  <2>8. Read(e) = [effect |-> "bow", zones |-> {start, end}, force |-> str, snap |-> snap]
    BY <2>3, <2>4, <2>6, <2>7, ReadByMode, SMTT(30) DEF TwoZones
  <2>9. QED
    BY <1>1, <1>4, <2>1, <2>8 DEF Answers, Accept
<1>5. QED
  BY <1>2, <1>3, <1>4

IsGalloping(c, start, end, first, second, freq) ==
    /\ c.op = "galloping" /\ c.p[1] = start /\ c.p[2] = end
    /\ c.p[3] = first /\ c.p[4] = second /\ c.p[5] = freq
LEMMA GallopingAnswers ==
    ASSUME NEW c, NEW d,
           NEW start \in 0 .. 255, NEW end \in 0 .. 255, NEW first \in 0 .. 255,
           NEW second \in 0 .. 255, NEW freq \in 0 .. 255,
           IsGalloping(c, start, end, first, second, freq)
    PROVE  Answers(Galloping(d, start, end, first, second, freq), c, d)
<1> DEFINE refused == \/ start > 8 \/ end > 9 \/ start >= end
                             \/ first > 6 \/ second > 7 \/ first >= second
<1>1. WantedEffect(c) = IF freq = 0 THEN Silent
                        ELSE [effect |-> "galloping", zones |-> {start, end},
                              feet |-> <<first, second>>, freq |-> freq]
  BY DEF Wanted, WantedEffect, Silent, IsGalloping
<1>2. CASE refused
  BY <1>2 DEF Answers, Galloping, Refuse
<1>3. CASE ~refused /\ freq = 0
  BY <1>1, <1>3, OffIsSilent DEF Answers, Galloping
<1>4. CASE ~refused /\ freq # 0
  <2> DEFINE feet == second + 8 * first
             q == <<feet, freq>>
             e == EffectBytes(ModeGalloping, MaskBytes({start, end}) \o q)
  <2>1. Galloping(d, start, end, first, second, freq) = Accept(e)
    BY <1>4 DEF Galloping
  <2>2. start \in Zone /\ end \in Zone /\ ModeGalloping \in 0 .. 255
    BY <1>4 DEF Zone, ModeGalloping
  <2>3. first \in 0 .. 7 /\ second \in 0 .. 7
    BY <1>4
  <2>4. feet \in 0 .. 63 /\ feet % 8 = second /\ feet \div 8 = first
    BY <2>3, TwoFields
  <2> HIDE DEF feet
  <2>5. q \in Seq(0 .. 255) /\ Len(q) = 2 /\ Len(q) <= 8 /\ q[1] = feet /\ q[2] = freq
    BY <2>4
  <2> HIDE DEF q
  <2>6. TwoZones(e, ModeGalloping, start, end, q)
    BY <2>2, <2>5, TwoZoneBytes
  <2> HIDE DEF e
  <2>7. e[3] = feet /\ e[4] = freq
    BY <2>5, <2>6 DEF TwoZones
  <2>8. Read(e) = [effect |-> "galloping", zones |-> {start, end},
                   feet |-> <<first, second>>, freq |-> freq]
    BY <2>4, <2>6, <2>7, ReadByMode DEF TwoZones
  <2>9. QED
    BY <1>1, <1>4, <2>1, <2>8 DEF Answers, Accept
<1>5. QED
  BY <1>2, <1>3, <1>4

IsMachine(c, start, end, ampA, ampB, freq, period) ==
    /\ c.op = "machine" /\ c.p[1] = start /\ c.p[2] = end /\ c.p[3] = ampA /\ c.p[4] = ampB
    /\ c.p[5] = freq /\ c.p[6] = period
LEMMA MachineAnswers ==
    ASSUME NEW c, NEW d,
           NEW start \in 0 .. 255, NEW end \in 0 .. 255, NEW ampA \in 0 .. 255,
           NEW ampB \in 0 .. 255, NEW freq \in 0 .. 255, NEW period \in 0 .. 255,
           IsMachine(c, start, end, ampA, ampB, freq, period)
    PROVE  Answers(Machine(d, start, end, ampA, ampB, freq, period), c, d)
<1> DEFINE refused == start > 8 \/ end > 9 \/ end <= start \/ ampA > 7 \/ ampB > 7
<1>1. WantedEffect(c) = IF freq = 0 THEN Silent
                        ELSE [effect |-> "machine", zones |-> {start, end},
                              amps |-> <<ampA, ampB>>, freq |-> freq, period |-> period]
  BY DEF Wanted, WantedEffect, Silent, IsMachine
<1>2. CASE refused
  BY <1>2 DEF Answers, Machine, Refuse
<1>3. CASE ~refused /\ freq = 0
  BY <1>1, <1>3, OffIsSilent DEF Answers, Machine
<1>4. CASE ~refused /\ freq # 0
  <2> DEFINE amps == ampA + 8 * ampB
             q == <<amps, freq, period>>
             e == EffectBytes(ModeMachine, MaskBytes({start, end}) \o q)
  <2>1. Machine(d, start, end, ampA, ampB, freq, period) = Accept(e)
    BY <1>4 DEF Machine
  <2>2. start \in Zone /\ end \in Zone /\ ModeMachine \in 0 .. 255
    BY <1>4 DEF Zone, ModeMachine
  <2>3. ampA \in 0 .. 7 /\ ampB \in 0 .. 7
    BY <1>4
  <2>4. amps \in 0 .. 63 /\ amps % 8 = ampA /\ amps \div 8 = ampB
    BY <2>3, TwoFields
  <2> HIDE DEF amps
  <2>5. /\ q \in Seq(0 .. 255) /\ Len(q) = 3 /\ Len(q) <= 8
        /\ q[1] = amps /\ q[2] = freq /\ q[3] = period
    BY <2>4
  <2> HIDE DEF q
  <2>6. TwoZones(e, ModeMachine, start, end, q)
    BY <2>2, <2>5, TwoZoneBytes
  <2> HIDE DEF e
  <2>7. e[3] = amps /\ e[4] = freq /\ e[5] = period
    BY <2>5, <2>6 DEF TwoZones
  <2>8. Read(e) = [effect |-> "machine", zones |-> {start, end},
                   amps |-> <<ampA, ampB>>, freq |-> freq, period |-> period]
    BY <2>4, <2>6, <2>7, ReadByMode DEF TwoZones
  <2>9. QED
    BY <1>1, <1>4, <2>1, <2>8 DEF Answers, Accept
<1>5. QED
  BY <1>2, <1>3, <1>4

\* The slope between two zones.
Line(startPos, run, startStr, endStr, z) == startStr * run + (endStr - startStr) * (z - startPos)
Slope(startPos, endPos, startStr, endStr) ==
    [z \in Zone |->
        IF z < startPos THEN 0
        ELSE IF z > endPos THEN endStr
        ELSE Rounded(Line(startPos, endPos - startPos, startStr, endStr, z), endPos - startPos)]

\* Products that rounding is about.
LEMMA QuotientBounds ==
    ASSUME NEW n \in Nat, NEW m \in Nat \ {0}
    PROVE  /\ n \div m \in Nat
           /\ (n \div m) * m <= n /\ n < (n \div m) * m + m
OBVIOUS

LEMMA ProductGrows ==
    ASSUME NEW x \in Int, NEW y \in Int, NEW m \in Nat, x <= y
    PROVE  x * m <= y * m
<1>1. y - x \in Nat /\ (y - x) * m \in Nat
  <2>1. y - x \in Nat
    OBVIOUS
  <2>2. \A a \in Nat, b \in Nat : a * b \in Nat
    OBVIOUS
  <2>3. QED
    BY <2>1, <2>2
<1>2. (y - x) * m = y * m - x * m
  OBVIOUS
<1>3. x * m \in Int /\ y * m \in Int
  OBVIOUS
<1>4. QED
  BY <1>1, <1>2, <1>3

\* Rounding is off by at most half a step, and keeps between two strengths.
LEMMA RoundedClose ==
    ASSUME NEW n \in Nat, NEW m \in Nat \ {0}
    PROVE  /\ Rounded(n, m) \in Nat
           /\ 2 * (Rounded(n, m) * m - n) \in -m .. m
<1> DEFINE q == Rounded(n, m)
<1>1. 2 * n + m \in Nat /\ 2 * m \in Nat \ {0}
  OBVIOUS
<1>2. q = (2 * n + m) \div (2 * m)
  BY DEF Rounded
<1> HIDE DEF q
<1>3. q \in Nat /\ q * (2 * m) <= 2 * n + m /\ 2 * n + m < q * (2 * m) + 2 * m
  BY <1>1, <1>2, QuotientBounds
<1> DEFINE qm == q * m
<1>4. q * (2 * m) = 2 * qm /\ qm \in Int
  BY <1>3
<1> HIDE DEF qm
<1>5. 2 * (qm - n) \in -m .. m
  BY <1>3, <1>4
<1>6. QED
  BY <1>3, <1>5 DEF q, qm

LEMMA RoundedBetween ==
    ASSUME NEW n \in Nat, NEW m \in Nat \ {0}, NEW lo \in Nat, NEW hi \in Nat,
           lo * m <= n, n <= hi * m
    PROVE  Rounded(n, m) \in lo .. hi
<1> DEFINE q == Rounded(n, m)
           qm == q * m
           low == lo * m
           high == hi * m
<1>1. q \in Nat /\ 2 * (qm - n) \in -m .. m
  BY RoundedClose
<1>2. low \in Int /\ high \in Int /\ qm \in Int
  BY <1>1
<1>3. q <= lo - 1 => qm <= low - m
  <2>1. q <= lo - 1 => qm <= (lo - 1) * m
    BY <1>1, ProductGrows
  <2>2. (lo - 1) * m = low - m
    OBVIOUS
  <2>3. QED
    BY <2>1, <2>2
<1>4. hi + 1 <= q => high + m <= qm
  <2>1. hi + 1 <= q => (hi + 1) * m <= qm
    BY <1>1, ProductGrows
  <2>2. (hi + 1) * m = high + m
    OBVIOUS
  <2>3. QED
    BY <2>1, <2>2
<1>5. low <= n /\ n <= high
  OBVIOUS
<1> HIDE DEF q, qm, low, high
<1>6. ~(q <= lo - 1)
  BY <1>1, <1>2, <1>3, <1>5
<1>7. ~(hi + 1 <= q)
  BY <1>1, <1>2, <1>4, <1>5
<1>8. q \in lo .. hi
  BY <1>1, <1>6, <1>7
<1>9. QED
  BY <1>8 DEF q

\* The line lies between the strengths at its ends, and begins and ends there.
LEMMA LineBetween ==
    ASSUME NEW startPos \in Nat, NEW run \in Nat \ {0}, NEW startStr \in 1 .. 8,
           NEW endStr \in 1 .. 8, NEW z \in startPos .. startPos + run
    PROVE  LET n == Line(startPos, run, startStr, endStr, z)
           IN  n \in Nat /\ 1 * run <= n /\ n <= 8 * run
<1> DEFINE k == z - startPos
           n == Line(startPos, run, startStr, endStr, z)
<1>1. k \in Nat /\ run - k \in Nat /\ startStr \in Nat /\ endStr \in Nat
  OBVIOUS
<1>2. n = startStr * (run - k) + endStr * k
  <2>1. \A a, b, r, j \in Int : a * r + (b - a) * j = a * (r - j) + b * j
    OBVIOUS
  <2>2. startStr \in Int /\ endStr \in Int /\ run \in Int /\ k \in Int
    BY <1>1
  <2> HIDE DEF k
  <2>3. startStr * run + (endStr - startStr) * k = startStr * (run - k) + endStr * k
    BY <2>1, <2>2
  <2>4. QED
    BY <2>3 DEF Line, k
<1> DEFINE u == run - k
           a == startStr * u
           b == endStr * k
<1>3. a \in Int /\ b \in Int /\ 1 * u <= a /\ a <= 8 * u /\ 1 * k <= b /\ b <= 8 * k
  <2>1. /\ 1 \in Int /\ 8 \in Int /\ startStr \in Int /\ endStr \in Int
        /\ 1 <= startStr /\ startStr <= 8
        /\ 1 <= endStr /\ endStr <= 8
    OBVIOUS
  <2>2. u \in Nat /\ k \in Nat
    BY <1>1
  <2> HIDE DEF u, k
  <2>3. 1 * u <= startStr * u /\ startStr * u <= 8 * u /\ 1 * k <= endStr * k /\ endStr * k <= 8 * k
    BY <2>1, <2>2, ProductGrows
  <2>4. startStr * u \in Int /\ endStr * k \in Int
    BY <2>1, <2>2
  <2>5. QED
    BY <2>3, <2>4
<1>4. n = a + b /\ u = run - k /\ k \in Nat /\ u \in Nat
  BY <1>1, <1>2
<1> HIDE DEF n, a, b, u, k
<1>5. n \in Nat /\ 1 * run <= n /\ n <= 8 * run
  BY <1>3, <1>4
<1>6. QED
  BY <1>5 DEF n

\* The strengths of a slope, and where they are.
FollowsLine(at, startPos, endPos, startStr, endStr) ==
    LET run == endPos - startPos
    IN  /\ \A z \in 0 .. startPos - 1 : at[z] = 0
        /\ \A z \in startPos .. endPos :
                /\ at[z] \in 1 .. 8
                /\ 2 * (at[z] * run - Line(startPos, run, startStr, endStr, z)) \in -run .. run
        /\ \A z \in endPos .. 9 : at[z] = endStr
LEMMA SlopeStrengths ==
    ASSUME NEW startPos \in 0 .. 8, NEW endPos \in 0 .. 9, startPos < endPos,
           NEW startStr \in 1 .. 8, NEW endStr \in 1 .. 8
    PROVE  FollowsLine(Slope(startPos, endPos, startStr, endStr),
                       startPos, endPos, startStr, endStr)
<1> DEFINE at == Slope(startPos, endPos, startStr, endStr)
           run == endPos - startPos
<1>1. run \in Nat \ {0} /\ startPos + run = endPos
  OBVIOUS
<1>2. \A z \in 0 .. startPos - 1 : at[z] = 0
  BY DEF Slope, Zone
<1>3. ASSUME NEW z \in startPos .. endPos
      PROVE  at[z] = Rounded(Line(startPos, run, startStr, endStr, z), run)
  BY DEF Slope, Zone
<1>4. \A z \in endPos + 1 .. 9 : at[z] = endStr
  BY DEF Slope, Zone
<1> HIDE DEF at, run
<1>5. ASSUME NEW z \in startPos .. endPos
      PROVE  /\ at[z] \in 1 .. 8
             /\ 2 * (at[z] * run - Line(startPos, run, startStr, endStr, z)) \in -run .. run
  <2> DEFINE n == Line(startPos, run, startStr, endStr, z)
  <2>1. n \in Nat /\ 1 * run <= n /\ n <= 8 * run
    <3>1. z \in startPos .. startPos + run /\ startPos \in Nat
      BY <1>1
    <3>2. QED
      BY <1>1, <3>1, LineBetween
  <2>2. at[z] = Rounded(n, run)
    BY <1>3
  <2> HIDE DEF n
  <2>3. Rounded(n, run) \in 1 .. 8
    <3>1. 1 \in Nat /\ 8 \in Nat
      OBVIOUS
    <3>2. QED
      BY <1>1, <2>1, <3>1, RoundedBetween
  <2>4. 2 * (Rounded(n, run) * run - n) \in -run .. run
    BY <1>1, <2>1, RoundedClose
  <2>5. QED
    BY <2>2, <2>3, <2>4 DEF n
<1>6. at[endPos] = endStr
  <2> DEFINE n == Line(startPos, run, startStr, endStr, endPos)
  <2>1. n = endStr * run
    <3>1. endPos - startPos = run
      BY DEF run
    <3>2. \A a, b, r \in Int : a * r + (b - a) * r = b * r
      OBVIOUS
    <3>3. startStr \in Int /\ endStr \in Int /\ run \in Int
      BY <1>1
    <3>4. QED
      BY <3>1, <3>2, <3>3 DEF Line
  <2>2. n \in Nat /\ endStr * run <= n /\ n <= endStr * run /\ endStr \in Nat
    <3>1. endStr \in Nat /\ run \in Nat
      BY <1>1
    <3>2. endStr * run \in Nat
      BY <3>1
    <3> HIDE DEF n
    <3>3. QED
      BY <2>1, <3>1, <3>2
  <2>3. Rounded(n, run) \in endStr .. endStr
    <3> HIDE DEF n
    <3>1. QED
      BY <1>1, <2>2, RoundedBetween
  <2>4. endPos \in startPos .. endPos
    OBVIOUS
  <2>5. at[endPos] = Rounded(n, run)
    BY <1>3, <2>4
  <2>6. QED
    BY <2>3, <2>5
<1>7. \A z \in endPos .. 9 : at[z] = endStr
  <2>1. \A z \in endPos .. 9 : z = endPos \/ z \in endPos + 1 .. 9
    OBVIOUS
  <2>2. QED
    BY <1>4, <1>6, <2>1
<1>8. QED
  BY <1>2, <1>5, <1>7 DEF at, run, FollowsLine
SlopeOrRefused(r, d, startPos, endPos, startStr, endStr) ==
    \/ ~r.ok /\ r.dst = d
    \/ r.ok /\ FollowsLine(Read(r.dst).at, startPos, endPos, startStr, endStr)
LEMMA SlopeAnswers ==
    ASSUME NEW d, NEW startPos \in 0 .. 255, NEW endPos \in 0 .. 255,
           NEW startStr \in 0 .. 255, NEW endStr \in 0 .. 255
    PROVE  SlopeOrRefused(SlopeFeedback(d, startPos, endPos, startStr, endStr), d,
                          startPos, endPos, startStr, endStr)
<1> DEFINE refused == \/ startPos > 8 \/ endPos > 9 \/ endPos <= startPos
                      \/ startStr \notin 1 .. 8 \/ endStr \notin 1 .. 8
           a == Slope(startPos, endPos, startStr, endStr)
<1>1. CASE refused
  BY <1>1 DEF SlopeFeedback, Refuse, SlopeOrRefused
<1>2. CASE ~refused
  <2>1. /\ startPos \in 0 .. 8 /\ endPos \in 0 .. 9 /\ startPos < endPos
        /\ startStr \in 1 .. 8 /\ endStr \in 1 .. 8
    BY <1>2
  <2>2. SlopeFeedback(d, startPos, endPos, startStr, endStr) = FeedbackMulti(d, a)
    BY <1>2 DEF SlopeFeedback, Slope, Line
  <2>3. FollowsLine(a, startPos, endPos, startStr, endStr)
    BY <2>1, SlopeStrengths
  <2>4. DOMAIN a = Zone /\ a = [z \in Zone |-> a[z]]
    BY DEF Slope
  <2> HIDE DEF a
  <2>5. \A z \in Zone : a[z] \in 0 .. 8
    <3>1. \A z \in Zone : z \in 0 .. startPos - 1 \/ z \in startPos .. endPos \/ z \in endPos .. 9
      BY <2>1 DEF Zone
    <3>2. /\ \A z \in 0 .. startPos - 1 : a[z] = 0
          /\ \A z \in startPos .. endPos : a[z] \in 1 .. 8
          /\ \A z \in endPos .. 9 : a[z] = endStr
      BY <2>3 DEF FollowsLine
    <3>3. QED
      BY <2>1, <3>1, <3>2
  <2>6. a \in [Zone -> 0 .. 255] /\ \A z \in Zone : ~(a[z] > 8)
    BY <2>4, <2>5
  <2>7. endPos \in Zone /\ a[endPos] # 0
    BY <2>1, <2>3 DEF Zone, FollowsLine
  <2>8. FeedbackMulti(d, a) = Accept(ZoneBytes(ModeFeedback, Forces(a)))
    BY <2>6, <2>7 DEF FeedbackMulti
  <2>9. PICK zones \in SUBSET Zone : /\ Forces(a) \in [zones -> 0 .. 7]
                                     /\ Profile(zones, Forces(a)) = a
    BY <2>6, ForcesField
  <2>10. Read(ZoneBytes(ModeFeedback, Forces(a))) = [effect |-> "feedback", at |-> a]
    BY <2>9, FeedbackRead
  <2>11. QED
    BY <2>2, <2>3, <2>8, <2>10 DEF Accept, SlopeOrRefused
<1>3. QED
  BY <1>1, <1>2

-----------------------------------------------------------------------------
\* Every call that is encoded.

LEMMA OffAnswers ==
    ASSUME NEW c, NEW d, c.op = "off"
    PROVE  Answers(Off, c, d)
<1>1. WantedEffect(c) = Silent
  BY DEF WantedEffect, Wanted, Silent
<1>2. QED
  BY <1>1, OffIsSilent DEF Answers

\* A request is one of the ten.
Bytes(p, n) == \A i \in 1 .. n : p[i] \in 0 .. 255
LEMMA FiveBytes ==
    ASSUME NEW p, Bytes(p, 5)
    PROVE  /\ p[1] \in 0 .. 255 /\ p[2] \in 0 .. 255 /\ p[3] \in 0 .. 255
           /\ p[4] \in 0 .. 255 /\ p[5] \in 0 .. 255
<1>1. 1 \in 1 .. 5 /\ 2 \in 1 .. 5 /\ 3 \in 1 .. 5 /\ 4 \in 1 .. 5 /\ 5 \in 1 .. 5
  OBVIOUS
<1>2. QED
  BY <1>1, SMTT(40) DEF Bytes
LEMMA SixBytes ==
    ASSUME NEW p, Bytes(p, 6)
    PROVE  /\ p[1] \in 0 .. 255 /\ p[2] \in 0 .. 255 /\ p[3] \in 0 .. 255
           /\ p[4] \in 0 .. 255 /\ p[5] \in 0 .. 255 /\ p[6] \in 0 .. 255
<1>1. 1 \in 1 .. 6 /\ 2 \in 1 .. 6 /\ 3 \in 1 .. 6 /\ 4 \in 1 .. 6 /\ 5 \in 1 .. 6 /\ 6 \in 1 .. 6
  OBVIOUS
<1>2. QED
  BY <1>1, SMTT(40) DEF Bytes
OneOfTen(c) ==
    \/ c.op = "off"
    \/ c.op = "feedback" /\ Bytes(c.p, 2)
    \/ c.op = "feedback_multi" /\ c.a \in [Zone -> 0 .. 255]
    \/ c.op = "slope_feedback" /\ Bytes(c.p, 4)
    \/ c.op = "weapon" /\ Bytes(c.p, 3)
    \/ c.op = "vibration" /\ Bytes(c.p, 3)
    \/ c.op = "vibration_multi" /\ Bytes(c.p, 1) /\ c.a \in [Zone -> 0 .. 255]
    \/ c.op = "bow" /\ Bytes(c.p, 4)
    \/ c.op = "galloping" /\ Bytes(c.p, 5)
    \/ c.op = "machine" /\ Bytes(c.p, 6)
LEMMA TheRequests == \A c \in Requests : OneOfTen(c)
<1> SUFFICES ASSUME NEW c \in Requests PROVE OneOfTen(c)
  OBVIOUS
<1>1. /\ Position \subseteq 0 .. 255 /\ Strength \subseteq 0 .. 255
      /\ Foot \subseteq 0 .. 255 /\ Frequency \subseteq 0 .. 255
  BY BytesAssumption
<1>2. Arrays \subseteq [Zone -> 0 .. 255]
  BY <1>1 DEF Arrays
<1>3. CASE c \in Request("off", {<<>>}, {NoArray})
  BY <1>3 DEF Request, Bytes, OneOfTen
<1>4. CASE c \in Request("feedback", Position \X Strength, {NoArray})
  <2>1. /\ c.op = "feedback"
        /\ c.p[1] \in 0 .. 255 /\ c.p[2] \in 0 .. 255
    BY <1>1, <1>4 DEF Request
  <2>2. QED
    BY <2>1 DEF Bytes, OneOfTen
<1>5. CASE c \in Request("feedback_multi", {<<>>}, Arrays)
  BY <1>2, <1>5 DEF Request, Bytes, OneOfTen
<1>6. CASE c \in Request("slope_feedback", Position \X Position \X Strength \X Strength, {NoArray})
  <2>1. /\ c.op = "slope_feedback"
        /\ c.p[1] \in 0 .. 255 /\ c.p[2] \in 0 .. 255 /\ c.p[3] \in 0 .. 255
        /\ c.p[4] \in 0 .. 255
    BY <1>1, <1>6, ZenonT(40) DEF Request
  <2>2. QED
    BY <2>1 DEF Bytes, OneOfTen
<1>7. CASE c \in Request("weapon", Position \X Position \X Strength, {NoArray})
  <2>1. /\ c.op = "weapon"
        /\ c.p[1] \in 0 .. 255 /\ c.p[2] \in 0 .. 255 /\ c.p[3] \in 0 .. 255
    BY <1>1, <1>7, ZenonT(40) DEF Request
  <2>2. QED
    BY <2>1 DEF Bytes, OneOfTen
<1>8. CASE c \in Request("vibration", Position \X Strength \X Frequency, {NoArray})
  <2>1. /\ c.op = "vibration"
        /\ c.p[1] \in 0 .. 255 /\ c.p[2] \in 0 .. 255 /\ c.p[3] \in 0 .. 255
    BY <1>1, <1>8 DEF Request
  <2>2. QED
    BY <2>1 DEF Bytes, OneOfTen
<1>9. CASE c \in Request("vibration_multi", {<<f>> : f \in Frequency}, Arrays)
  <2>1. c.op = "vibration_multi" /\ c.a \in Arrays /\ c.p \in {<<f>> : f \in Frequency}
    BY <1>9 DEF Request
  <2>2. PICK f \in Frequency : c.p = <<f>>
    BY <2>1
  <2>3. c.p[1] \in 0 .. 255
    BY <1>1, <2>2
  <2>4. Bytes(c.p, 1)
    BY <2>3 DEF Bytes
  <2>5. QED
    BY <1>2, <2>1, <2>4 DEF OneOfTen
<1>10. CASE c \in Request("bow", Position \X Position \X Strength \X Strength, {NoArray})
  <2>1. /\ c.op = "bow"
        /\ c.p[1] \in 0 .. 255 /\ c.p[2] \in 0 .. 255 /\ c.p[3] \in 0 .. 255
        /\ c.p[4] \in 0 .. 255
    BY <1>1, <1>10, ZenonT(40) DEF Request
  <2>2. QED
    BY <2>1 DEF Bytes, OneOfTen
<1>11. CASE c \in Request("galloping", Position \X Position \X Foot \X Foot \X Frequency, {NoArray})
  <2>1. /\ c.op = "galloping"
        /\ c.p[1] \in 0 .. 255 /\ c.p[2] \in 0 .. 255 /\ c.p[3] \in 0 .. 255
        /\ c.p[4] \in 0 .. 255 /\ c.p[5] \in 0 .. 255
    BY <1>1, <1>11, ZenonT(40) DEF Request
  <2>2. \A i \in 1 .. 5 : i = 1 \/ i = 2 \/ i = 3 \/ i = 4 \/ i = 5
    OBVIOUS
  <2>3. Bytes(c.p, 5)
    BY <2>1, <2>2, Zenon DEF Bytes
  <2>4. QED
    BY <2>1, <2>3, Zenon DEF OneOfTen
<1>12. CASE c \in Request("machine",
                 Position \X Position \X Foot \X Foot \X Frequency \X Frequency, {NoArray})
  <2>1. /\ c.op = "machine"
        /\ c.p[1] \in 0 .. 255 /\ c.p[2] \in 0 .. 255 /\ c.p[3] \in 0 .. 255
        /\ c.p[4] \in 0 .. 255 /\ c.p[5] \in 0 .. 255 /\ c.p[6] \in 0 .. 255
    BY <1>1, <1>12, ZenonT(40) DEF Request
  <2>2. \A i \in 1 .. 6 : i = 1 \/ i = 2 \/ i = 3 \/ i = 4 \/ i = 5 \/ i = 6
    OBVIOUS
  <2>3. Bytes(c.p, 6)
    BY <2>1, <2>2, Zenon DEF Bytes
  <2>4. QED
    BY <2>1, <2>3, Zenon DEF OneOfTen
<1>13. QED
  BY <1>3, <1>4, <1>5, <1>6, <1>7, <1>8, <1>9, <1>10, <1>11, <1>12 DEF Requests

\* Every request is answered, slopes as FollowsLine has it.
SlopeAnswered(r, c) ==
    c.op = "slope_feedback" /\ r.ok =>
        FollowsLine(Read(r.dst).at, c.p[1], c.p[2], c.p[3], c.p[4])
LEMMA EveryRequestAnswered ==
    ASSUME NEW c \in Requests, NEW d
    PROVE  Answers(Result(c, d), c, d) /\ SlopeAnswered(Result(c, d), c)
<1> DEFINE r == Result(c, d)
           p == c.p
<1>1. CASE c.op = "off"
  <2>1. r = Off
    BY <1>1 DEF Result
  <2>2. QED
    BY <1>1, <2>1, OffAnswers DEF SlopeAnswered
<1>2. CASE c.op = "feedback" /\ Bytes(p, 2)
  <2>0. p[1] \in 0 .. 255 /\ p[2] \in 0 .. 255
    BY <1>2 DEF Bytes
  <2>1. r = Feedback(d, p[1], p[2])
    BY <1>2 DEF Result
  <2>2. QED
    BY <1>2, <2>0, <2>1, FeedbackAnswers DEF SlopeAnswered
<1>3. CASE c.op = "feedback_multi" /\ c.a \in [Zone -> 0 .. 255]
  <2>1. r = FeedbackMulti(d, c.a)
    BY <1>3 DEF Result
  <2>2. QED
    BY <1>3, <2>1, FeedbackMultiAnswers DEF SlopeAnswered
<1>4. CASE c.op = "slope_feedback" /\ Bytes(p, 4)
  <2>0. PICK startPos \in 0 .. 255, endPos \in 0 .. 255,
             startStr \in 0 .. 255, endStr \in 0 .. 255 :
            p[1] = startPos /\ p[2] = endPos /\ p[3] = startStr /\ p[4] = endStr
    <3>1. p[1] \in 0 .. 255 /\ p[2] \in 0 .. 255 /\ p[3] \in 0 .. 255 /\ p[4] \in 0 .. 255
      BY <1>4 DEF Bytes
    <3>2. QED
      BY <3>1
  <2>1. r = SlopeFeedback(d, startPos, endPos, startStr, endStr)
    BY <1>4, <2>0 DEF Result
  <2>2. SlopeOrRefused(SlopeFeedback(d, startPos, endPos, startStr, endStr), d,
                       startPos, endPos, startStr, endStr)
    BY SlopeAnswers
  <2>3. QED
    BY <1>4, <2>0, <2>1, <2>2 DEF SlopeAnswered, Answers, SlopeOrRefused
<1>5. CASE c.op = "weapon" /\ Bytes(p, 3)
  <2>0. PICK start \in 0 .. 255, end \in 0 .. 255, str \in 0 .. 255 :
            p[1] = start /\ p[2] = end /\ p[3] = str
    <3>1. p[1] \in 0 .. 255 /\ p[2] \in 0 .. 255 /\ p[3] \in 0 .. 255
      BY <1>5 DEF Bytes
    <3>2. QED
      BY <3>1
  <2>1. r = Weapon(d, start, end, str)
    BY <1>5, <2>0 DEF Result
  <2>2. c.op = "weapon"
    BY <1>5
  <2>3. Answers(Weapon(d, start, end, str), c, d)
    BY <2>0, <2>2, WeaponAnswers, ZenonT(40)
  <2>4. QED
    BY <1>5, <2>1, <2>3 DEF SlopeAnswered
<1>6. CASE c.op = "vibration" /\ Bytes(p, 3)
  <2>0. PICK pos \in 0 .. 255, amp \in 0 .. 255, freq \in 0 .. 255 :
            p[1] = pos /\ p[2] = amp /\ p[3] = freq
    <3>1. p[1] \in 0 .. 255 /\ p[2] \in 0 .. 255 /\ p[3] \in 0 .. 255
      BY <1>6 DEF Bytes
    <3>2. QED
      BY <3>1
  <2>1. r = Vibration(d, pos, amp, freq)
    BY <1>6, <2>0 DEF Result
  <2>2. c.op = "vibration"
    BY <1>6
  <2>3. Answers(Vibration(d, pos, amp, freq), c, d)
    BY <2>0, <2>2, VibrationAnswers, ZenonT(40)
  <2>4. QED
    BY <1>6, <2>1, <2>3 DEF SlopeAnswered
<1>7. CASE c.op = "vibration_multi" /\ Bytes(p, 1) /\ c.a \in [Zone -> 0 .. 255]
  <2>0. p[1] \in 0 .. 255
    BY <1>7 DEF Bytes
  <2>1. r = VibrationMulti(d, p[1], c.a)
    BY <1>7 DEF Result
  <2>2. QED
    BY <1>7, <2>0, <2>1, VibrationMultiAnswers DEF SlopeAnswered
<1>8. CASE c.op = "bow" /\ Bytes(p, 4)
  <2>0. PICK start \in 0 .. 255, end \in 0 .. 255, str \in 0 .. 255, snap \in 0 .. 255 :
            p[1] = start /\ p[2] = end /\ p[3] = str /\ p[4] = snap
    <3>1. p[1] \in 0 .. 255 /\ p[2] \in 0 .. 255 /\ p[3] \in 0 .. 255 /\ p[4] \in 0 .. 255
      BY <1>8 DEF Bytes
    <3>2. QED
      BY <3>1
  <2>1. r = Bow(d, start, end, str, snap)
    BY <1>8, <2>0 DEF Result
  <2>2. c.op = "bow"
    BY <1>8
  <2>3. Answers(Bow(d, start, end, str, snap), c, d)
    BY <2>0, <2>2, BowAnswers, ZenonT(40)
  <2>4. QED
    BY <1>8, <2>1, <2>3 DEF SlopeAnswered
<1>9. CASE c.op = "galloping" /\ Bytes(p, 5)
  <2>0. PICK start \in 0 .. 255, end \in 0 .. 255, first \in 0 .. 255,
             second \in 0 .. 255, freq \in 0 .. 255 :
            p[1] = start /\ p[2] = end /\ p[3] = first /\ p[4] = second /\ p[5] = freq
    <3>1. /\ p[1] \in 0 .. 255 /\ p[2] \in 0 .. 255 /\ p[3] \in 0 .. 255
          /\ p[4] \in 0 .. 255 /\ p[5] \in 0 .. 255
      BY <1>9, FiveBytes, Zenon
    <3>2. QED
      BY <3>1, ZenonT(40)
  <2>1. r = Galloping(d, start, end, first, second, freq)
    BY <1>9, <2>0 DEF Result
  <2>2. IsGalloping(c, start, end, first, second, freq)
    BY <1>9, <2>0 DEF IsGalloping
  <2>3. Answers(Galloping(d, start, end, first, second, freq), c, d)
    BY <2>2, GallopingAnswers, ZenonT(40)
  <2>4. QED
    BY <1>9, <2>1, <2>3 DEF SlopeAnswered
<1>10. CASE c.op = "machine" /\ Bytes(p, 6)
  <2>0. PICK start \in 0 .. 255, end \in 0 .. 255, ampA \in 0 .. 255,
             ampB \in 0 .. 255, freq \in 0 .. 255, period \in 0 .. 255 :
            p[1] = start /\ p[2] = end /\ p[3] = ampA /\ p[4] = ampB /\ p[5] = freq /\ p[6] = period
    <3>1. /\ p[1] \in 0 .. 255 /\ p[2] \in 0 .. 255 /\ p[3] \in 0 .. 255
          /\ p[4] \in 0 .. 255 /\ p[5] \in 0 .. 255 /\ p[6] \in 0 .. 255
      BY <1>10, SixBytes, Zenon
    <3> USE <3>1
    <3> WITNESS p[1] \in 0 .. 255, p[2] \in 0 .. 255, p[3] \in 0 .. 255,
                p[4] \in 0 .. 255, p[5] \in 0 .. 255, p[6] \in 0 .. 255
    <3>2. QED
      OBVIOUS
  <2>1. r = Machine(d, start, end, ampA, ampB, freq, period)
    BY <1>10, <2>0 DEF Result
  <2>2. IsMachine(c, start, end, ampA, ampB, freq, period)
    BY <1>10, <2>0 DEF IsMachine
  <2>3. Answers(Machine(d, start, end, ampA, ampB, freq, period), c, d)
    BY <2>2, MachineAnswers, ZenonT(40)
  <2>4. QED
    BY <1>10, <2>1, <2>3 DEF SlopeAnswered
<1>11. QED
  BY <1>1, <1>2, <1>3, <1>4, <1>5, <1>6, <1>7, <1>8, <1>9, <1>10, TheRequests DEF OneOfTen

-----------------------------------------------------------------------------
\* One conversion at a time.

\* What is given has the kind of the conversion.
Converted ==
    \/ Encode /\ given'.kind = "effect"
    \/ Ask /\ given'.kind = "order"
    \/ Preset /\ given'.kind = "preset"
    \/ RunDsctl /\ given'.kind = "dsctl"
    \/ ScanPacket /\ given'.kind = "packet"
    \/ BuildReport /\ given'.kind = "output"
    \/ Checksum /\ given'.kind = "checksum"
    \/ (ReadState \/ ReadBattery) /\ given'.kind = "input"
    \/ ReadOther /\ given'.kind = "no input"
LEMMA OneConversion ==
    ASSUME Next
    PROVE  Converted
<1>1. CASE Encode
  <2>1. given'.kind = "effect"
    BY <1>1 DEF Encode, Convert
  <2>2. QED
    BY <1>1, <2>1 DEF Converted
<1>2. CASE Ask
  <2>1. given'.kind = "order"
    BY <1>2 DEF Ask, Convert
  <2>2. QED
    BY <1>2, <2>1 DEF Converted
<1>3. CASE Preset
  <2>1. given'.kind = "preset"
    BY <1>3 DEF Preset, Convert
  <2>2. QED
    BY <1>3, <2>1 DEF Converted
<1>4. CASE RunDsctl
  <2>1. given'.kind = "dsctl"
    BY <1>4 DEF RunDsctl, Convert
  <2>2. QED
    BY <1>4, <2>1 DEF Converted
<1>5. CASE ScanPacket
  <2>1. given'.kind = "packet"
    BY <1>5 DEF ScanPacket, Convert
  <2>2. QED
    BY <1>5, <2>1 DEF Converted
<1>6. CASE BuildReport
  <2>1. given'.kind = "output"
    BY <1>6 DEF BuildReport, Convert
  <2>2. QED
    BY <1>6, <2>1 DEF Converted
<1>7. CASE Checksum
  <2>1. given'.kind = "checksum"
    BY <1>7 DEF Checksum, Convert
  <2>2. QED
    BY <1>7, <2>1 DEF Converted
<1>8. CASE ReadState
  <2>1. given'.kind = "input"
    BY <1>8 DEF ReadState, Convert
  <2>2. QED
    BY <1>8, <2>1 DEF Converted
<1>9. CASE ReadBattery
  <2>1. given'.kind = "input"
    BY <1>9 DEF ReadBattery, Convert
  <2>2. QED
    BY <1>9, <2>1 DEF Converted
<1>10. CASE ReadOther
  <2>1. PICK read : Convert([kind |-> "no input", before |-> Typical],
                            ds_read_input(read, Typical))
    BY <1>10 DEF ReadOther
  <2>2. given'.kind = "no input"
    BY <2>1 DEF Convert
  <2>3. QED
    BY <1>10, <2>2 DEF Converted
<1>11. QED
  BY <1>1, <1>2, <1>3, <1>4, <1>5, <1>6, <1>7, <1>8, <1>9, <1>10 DEF Next

\* For every parameter in 0 .. 255 the controller reads the effect the caller of
\* ds_trigger_* asked for, and a refused call leaves the effect as it was.
THEOREM ReadsWhatWasAskedCorrect == Spec => []ReadsWhatWasAsked
<1>1. Init => ReadsWhatWasAsked
  BY DEF Init, ReadsWhatWasAsked, Is
<1>2. ReadsWhatWasAsked /\ [Next]_vars => ReadsWhatWasAsked'
  <2> SUFFICES ASSUME ReadsWhatWasAsked, [Next]_vars PROVE ReadsWhatWasAsked'
    OBVIOUS
  <2>1. CASE Encode
    <3>1. PICK c \in Requests, before \in {Off.dst, Result(Choppy, Off.dst).dst} :
            Convert([kind |-> "effect", call |-> c, before |-> before], Result(c, before))
      BY <2>1 DEF Encode
    <3>2. Answers(Result(c, before), c, before)
      BY EveryRequestAnswered
    <3>3. got' = Result(c, before) /\ given'.call = c /\ given'.before = before
      BY <3>1 DEF Convert
    <3>4. QED
      BY <3>2, <3>3 DEF Answers, ReadsWhatWasAsked
  <2>2. CASE Next /\ ~Encode
    BY <2>2, OneConversion DEF Converted, ReadsWhatWasAsked, Is
  <2>3. CASE UNCHANGED vars
    BY <2>3 DEF vars, ReadsWhatWasAsked, Is
  <2>4. QED
    BY <2>1, <2>2, <2>3
<1>3. QED
  BY <1>1, <1>2, PTL DEF Spec

\* Every slope that is accepted follows the line between its ends.
THEOREM SlopeFollowsLineCorrect == Spec => []SlopeFollowsLine
<1>1. Init => SlopeFollowsLine
  BY DEF Init, SlopeFollowsLine, Is
<1>2. SlopeFollowsLine /\ [Next]_vars => SlopeFollowsLine'
  <2> SUFFICES ASSUME SlopeFollowsLine, [Next]_vars PROVE SlopeFollowsLine'
    OBVIOUS
  <2>1. CASE Encode
    <3>1. PICK c \in Requests, before \in {Off.dst, Result(Choppy, Off.dst).dst} :
            Convert([kind |-> "effect", call |-> c, before |-> before], Result(c, before))
      BY <2>1 DEF Encode
    <3>2. SlopeAnswered(Result(c, before), c)
      BY EveryRequestAnswered
    <3>3. got' = Result(c, before) /\ given'.call = c
      BY <3>1 DEF Convert
    <3>4. SUFFICES ASSUME c.op = "slope_feedback", got'.ok
                   PROVE  SlopeFollowsLine'
      BY <3>3 DEF SlopeFollowsLine
    <3>5. FollowsLine(Read(got'.dst).at, c.p[1], c.p[2], c.p[3], c.p[4])
      BY <3>2, <3>3, <3>4 DEF SlopeAnswered
    <3>6. QED
      BY <3>3, <3>5 DEF SlopeFollowsLine, FollowsLine, Line
  <2>2. CASE Next /\ ~Encode
    BY <2>2, OneConversion DEF Converted, SlopeFollowsLine, Is
  <2>3. CASE UNCHANGED vars
    BY <2>3 DEF vars, SlopeFollowsLine, Is
  <2>4. QED
    BY <2>1, <2>2, <2>3
<1>3. QED
  BY <1>1, <1>2, PTL DEF Spec

-----------------------------------------------------------------------------
\* The ways dsctl ends.

Honest(inv, r) ==
    r.status = 0 <=> r.sent \/ inv.cmd = "help" \/ (inv.cmd = "info" /\ inv.opens)
LEMMA EveryEndHonest ==
    ASSUME NEW inv, inv.opens \in BOOLEAN, inv.sendOk \in BOOLEAN
    PROVE  Honest(inv, Dsctl(inv))
<1>1. CASE inv.cmd = "help"
  BY <1>1 DEF Dsctl, Honest
<1>2. CASE inv.cmd # "help" /\ (inv.cmd \in {"bad option", "none"} \/ ~inv.opens)
  <2>1. Dsctl(inv) = [status |-> 1, sent |-> FALSE]
    BY <1>2 DEF Dsctl
  <2>2. Dsctl(inv).status # 0 /\ ~Dsctl(inv).sent
    BY <2>1
  <2>3. QED
    BY <1>2, <2>2, Zenon DEF Honest
<1>3. CASE inv.cmd # "help" /\ inv.cmd \notin {"bad option", "none"} /\ inv.opens
  <2> DEFINE r == CommandResult(inv)
             refused == dsctl_command(inv.cmd, inv.args).call = NoCall
                            \/ Reported(dsctl_command(inv.cmd, inv.args).call)
  <2>1. Dsctl(inv) = [status |-> ExitStatus(r.ret), sent |-> r.sent]
    BY <1>3 DEF Dsctl
  <2>2. CASE inv.cmd = "info"
    <3>1. r = [ret |-> 0, sent |-> FALSE]
      BY <2>2 DEF CommandResult
    <3>2. QED
      BY <1>3, <2>1, <2>2, <3>1 DEF Honest, ExitStatus
  <2>3. CASE inv.cmd # "info" /\ refused
    <3>1. r = [ret |-> UsageError, sent |-> FALSE]
      BY <2>3 DEF CommandResult
    <3> HIDE DEF r, refused
    <3>2. Dsctl(inv).status # 0 /\ ~Dsctl(inv).sent
      BY <2>1, <3>1 DEF ExitStatus, UsageError
    <3>3. QED
      BY <1>3, <2>3, <3>2, Zenon DEF Honest
  <2>4. CASE inv.cmd # "info" /\ ~refused
    <3>1. r = [ret |-> IF inv.sendOk THEN 0 ELSE SendError, sent |-> inv.sendOk]
      BY <2>4 DEF CommandResult
    <3> HIDE DEF r, refused
    <3>2. CASE inv.sendOk
      <4>1. Dsctl(inv).status = 0 /\ Dsctl(inv).sent
        BY <2>1, <3>1, <3>2 DEF ExitStatus
      <4>2. QED
        BY <4>1, Zenon DEF Honest
    <3>3. CASE ~inv.sendOk
      <4>1. Dsctl(inv).status # 0 /\ ~Dsctl(inv).sent
        <5>1. r.ret # 0 /\ ~r.sent
          BY <3>1, <3>3 DEF SendError
        <5>2. QED
          BY <2>1, <5>1 DEF ExitStatus
      <4>2. QED
        BY <1>3, <2>4, <4>1, Zenon DEF Honest
    <3>4. QED
      BY <3>2, <3>3
  <2>5. QED
    BY <2>2, <2>3, <2>4
<1>4. QED
  BY <1>1, <1>2, <1>3

\* A script that looks at the exit status of dsctl is told the truth, whatever
\* its words and numbers, and whether a controller opens and a send succeeds.
THEOREM ExitStatusHonestCorrect == Spec => []ExitStatusHonest
<1>1. Init => ExitStatusHonest
  BY DEF Init, ExitStatusHonest, Is
<1>2. ExitStatusHonest /\ [Next]_vars => ExitStatusHonest'
  <2> SUFFICES ASSUME ExitStatusHonest, [Next]_vars PROVE ExitStatusHonest'
    OBVIOUS
  <2>1. CASE RunDsctl
    <3>1. PICK inv \in Invocation : Convert([kind |-> "dsctl", inv |-> inv], Dsctl(inv))
      BY <2>1 DEF RunDsctl
    <3>2. inv.opens \in BOOLEAN /\ inv.sendOk \in BOOLEAN
      BY DEF Invocation
    <3>3. Honest(inv, Dsctl(inv))
      BY <3>2, EveryEndHonest
    <3>4. got' = Dsctl(inv) /\ given'.inv = inv
      BY <3>1 DEF Convert
    <3>5. QED
      BY <3>3, <3>4 DEF Honest, ExitStatusHonest
  <2>2. CASE Next /\ ~RunDsctl
    BY <2>2, OneConversion DEF Converted, ExitStatusHonest, Is
  <2>3. CASE UNCHANGED vars
    BY <2>3 DEF vars, ExitStatusHonest, Is
  <2>4. QED
    BY <2>1, <2>2, <2>3
<1>3. QED
  BY <1>1, <1>2, PTL DEF Spec

-----------------------------------------------------------------------------
\* What a controller may be in: all the states its reports have room for.

Buttons ==
    {"square", "cross", "circle", "triangle", "l1", "r1", "l2_btn", "r2_btn", "create",
     "options", "l3", "r3", "ps", "touchpad_btn", "mute"}
Unsigned == 0 .. 65535
Int16 == {n \in Int : -32768 <= n /\ n <= 32767}
Coordinate == 0 .. 4095
Fingers == [active : BOOLEAN, id : 0 .. 127, x : Coordinate, y : Coordinate]
ControllerState ==
    [lx : Byte, ly : Byte, rx : Byte, ry : Byte, l2 : Byte, r2 : Byte, seq : Byte,
     dpad : 0 .. 15, pressed : SUBSET Buttons, timestamp : Unsigned \X Unsigned,
     gyro : [1 .. 3 -> Int16], accel : [1 .. 3 -> Int16], touch : Fingers \X Fingers,
     battery_level : 0 .. 100, battery_charging : BOOLEAN]
Charge == [level : 0 .. 15, status : 0 .. 15]

\* Values of two bytes, and a finger of four.
LEMMA UnsignedBounds ==
    ASSUME NEW n \in Unsigned
    PROVE  n \in Int /\ 0 <= n /\ n <= 65535
BY DEF Unsigned
Pair(d, i, n) == d[i] = n % 256 /\ d[i + 1] = (n \div 256) % 256
LEMMA HalfRead ==
    ASSUME NEW d, NEW i, NEW n \in Unsigned, Pair(d, i, n)
    PROVE  le16(d, i) = n
<1>1. (n % 256) + 256 * ((n \div 256) % 256) = n
  <2>0. n \in Int /\ 0 <= n /\ n <= 65535
    BY UnsignedBounds, SMT
  <2> DEFINE q == n \div 256
             r == n % 256
  <2>1. q \in 0 .. 255 /\ r \in 0 .. 255 /\ n = 256 * q + r
    <3>1. q \in Int /\ r \in 0 .. 255 /\ n = 256 * q + r
      BY <2>0
    <3> HIDE DEF q, r
    <3>2. QED
      BY <2>0, <3>1
  <2> HIDE DEF q, r
  <2>2. q % 256 = q
    BY <2>1
  <2>3. r + 256 * (q % 256) = n
    BY <2>1, <2>2
  <2>4. QED
    BY <2>3 DEF q, r
<1>2. QED
  BY <1>1 DEF Pair, le16

LEMMA SignedRead ==
    ASSUME NEW d, NEW i, NEW n \in Int16, Pair(d, i, n)
    PROVE  Signed16(le16(d, i)) = n
<1>1. (n % 256) + 256 * ((n \div 256) % 256) = IF n >= 0 THEN n ELSE n + 65536
  <2> DEFINE q == n \div 256
             r == n % 256
  <2>1. q \in -128 .. 127 /\ r \in 0 .. 255 /\ n = 256 * q + r
    BY DEF Int16
  <2> HIDE DEF q, r
  <2>2. CASE q >= 0
    <3>1. q % 256 = q /\ n >= 0
      BY <2>1, <2>2
    <3>2. r + 256 * q = n
      BY <2>1
    <3>3. QED
      BY <3>1, <3>2 DEF q, r
  <2>3. CASE q < 0
    <3>1. q % 256 = q + 256 /\ ~(n >= 0)
      BY <2>1, <2>3
    <3>2. r + 256 * (q + 256) = n + 65536
      BY <2>1
    <3>3. QED
      BY <3>1, <3>2 DEF q, r
  <2>4. QED
    BY <2>1, <2>2, <2>3
<1>2. le16(d, i) = IF n >= 0 THEN n ELSE n + 65536
  BY <1>1 DEF Pair, le16
<1>3. CASE n >= 0
  <2>1. n \in Int /\ n <= 32767
    BY DEF Int16
  <2>2. QED
    BY <1>2, <1>3, <2>1 DEF Signed16
<1>4. CASE ~(n >= 0)
  <2>1. n + 65536 >= 32768 /\ (n + 65536) - 65536 = n
    BY DEF Int16
  <2>2. QED
    BY <1>2, <1>4, <2>1 DEF Signed16
<1>5. QED
  BY <1>3, <1>4

\* Coordinates of 12 bits share a byte.
SharedByte(u, v) ==
    /\ (u % 256) + 256 * (((u \div 256) + 16 * (v % 16)) % 16) = u
    /\ (((u \div 256) + 16 * (v % 16)) \div 16) + 16 * (v \div 16) = v
LEMMA SharedByteRead ==
    ASSUME NEW u \in Coordinate, NEW v \in Coordinate
    PROVE  SharedByte(u, v)
BY DEF SharedByte, Coordinate

FourBytes(d, i, t) ==
    /\ d[i] = (IF t.active THEN 0 ELSE 128) + t.id
    /\ d[i + 1] = t.x % 256
    /\ d[i + 2] = (t.x \div 256) + 16 * (t.y % 16)
    /\ d[i + 3] = t.y \div 16
LEMMA FingerRead ==
    ASSUME NEW d, NEW i, NEW t \in Fingers, FourBytes(d, i, t)
    PROVE  parse_touch(d, i) = t
<1>1. t.id \in 0 .. 127 /\ t.x \in Coordinate /\ t.y \in Coordinate /\ t.active \in BOOLEAN
  BY DEF Fingers
<1>2. (d[i] < 128) = t.active
  BY <1>1 DEF FourBytes
<1>3. d[i] % 128 = t.id
  BY <1>1 DEF FourBytes
<1>4. SharedByte(t.x, t.y)
  BY <1>1, SharedByteRead
<1>5. d[i + 1] + 256 * (d[i + 2] % 16) = t.x /\ (d[i + 2] \div 16) + 16 * d[i + 3] = t.y
  <2>1. /\ (t.x % 256) + 256 * (((t.x \div 256) + 16 * (t.y % 16)) % 16) = t.x
        /\ (((t.x \div 256) + 16 * (t.y % 16)) \div 16) + 16 * (t.y \div 16) = t.y
    BY <1>4 DEF SharedByte
  <2>2. QED
    BY <2>1 DEF FourBytes
<1>6. parse_touch(d, i) = [active |-> t.active, id |-> t.id, x |-> t.x, y |-> t.y]
  BY <1>2, <1>3, <1>5 DEF parse_touch
<1>7. t = [active |-> t.active, id |-> t.id, x |-> t.x, y |-> t.y]
  BY DEF Fingers
<1>8. QED
  BY <1>6, <1>7

\* Bits of one byte.
Bit(b) == IF b THEN 1 ELSE 0
Bits4(n, low, a, b, c, e) ==
    /\ low \in 0 .. 15 /\ a \in 0 .. 1 /\ b \in 0 .. 1 /\ c \in 0 .. 1 /\ e \in 0 .. 1
    /\ n = low + 16 * (2 * (2 * (2 * a + b) + c) + e)
LEMMA BitsOfFour ==
    ASSUME NEW n, NEW low, NEW a, NEW b, NEW c, NEW e, Bits4(n, low, a, b, c, e)
    PROVE  /\ n \in Byte /\ n % 16 = low
           /\ (n \div 16) % 2 = e /\ (n \div 32) % 2 = c
           /\ (n \div 64) % 2 = b /\ (n \div 128) % 2 = a
BY DEF Bits4, Byte
Bits8(n, a, b, c, e, f, g, h, k) ==
    /\ a \in 0 .. 1 /\ b \in 0 .. 1 /\ c \in 0 .. 1 /\ e \in 0 .. 1
    /\ f \in 0 .. 1 /\ g \in 0 .. 1 /\ h \in 0 .. 1 /\ k \in 0 .. 1
    /\ n = 2 * (2 * (2 * (2 * (2 * (2 * (2 * a + b) + c) + e) + f) + g) + h) + k
LEMMA BitsOfEight ==
    ASSUME NEW n, NEW a, NEW b, NEW c, NEW e, NEW f, NEW g, NEW h, NEW k,
           Bits8(n, a, b, c, e, f, g, h, k)
    PROVE  /\ n \in Byte /\ n % 2 = k /\ (n \div 2) % 2 = h
           /\ (n \div 4) % 2 = g /\ (n \div 8) % 2 = f
           /\ (n \div 16) % 2 = e /\ (n \div 32) % 2 = c
           /\ (n \div 64) % 2 = b /\ (n \div 128) % 2 = a
BY DEF Bits8, Byte
Bits3(n, a, b, c) ==
    /\ a \in 0 .. 1 /\ b \in 0 .. 1 /\ c \in 0 .. 1
    /\ n = 248 + (2 * (2 * a + b) + c)
LEMMA BitsOfThree ==
    ASSUME NEW n, NEW a, NEW b, NEW c, Bits3(n, a, b, c)
    PROVE  n \in Byte /\ n % 2 = c /\ (n \div 2) % 2 = b /\ (n \div 4) % 2 = a
BY DEF Bits3, Byte
\* The bits of a list of buttons, first the highest.
Bits1(pressed, names) == [i \in DOMAIN names |-> IF names[i] \in pressed THEN 1 ELSE 0]
SumsBits(s, pressed, names, n) ==
    /\ s \in [0 .. n -> Nat] /\ s[0] = 0 /\ s[n] = ButtonBits(pressed, names)
    /\ \A i \in 1 .. n : s[i] = 2 * s[i - 1] + Bits1(pressed, names)[i]
LEMMA BitSum ==
    ASSUME NEW pressed, NEW n \in Nat, NEW names, DOMAIN names = 1 .. n, Len(names) = n
    PROVE  \E s : SumsBits(s, pressed, names, n)
<1> DEFINE Sums(f) == f = [i \in 0 .. n |-> IF i = 0 THEN 0
                            ELSE 2 * f[i - 1] + (IF names[i] \in pressed THEN 1 ELSE 0)]
           turn == [w \in (1 .. n) \X Nat |-> 2 * w[2] + Bits1(pressed, names)[w[1]]]
<1>1. turn \in Turns(n, Nat)
  BY DEF Turns, Bits1
<1>2. PICK g : Course(g, n, Nat, 0, turn)
  <2> HIDE DEF turn
  <2>1. 0 \in Nat
    OBVIOUS
  <2>2. QED
    BY <1>1, <2>1, CourseExists
<1>3. /\ g \in [0 .. n -> Nat] /\ g[0] = 0
      /\ \A i \in 1 .. n : g[i] = 2 * g[i - 1] + Bits1(pressed, names)[i]
  <2>1. /\ g \in [0 .. n -> Nat] /\ g[0] = 0
        /\ \A i \in 1 .. n : g[i] = turn[<<i, g[i - 1]>>]
    BY <1>2 DEF Course
  <2>2. ASSUME NEW i \in 1 .. n PROVE g[i] = 2 * g[i - 1] + Bits1(pressed, names)[i]
    <3>1. g[i - 1] \in Nat
      BY <2>1
    <3>2. turn[<<i, g[i - 1]>>] = 2 * g[i - 1] + Bits1(pressed, names)[i]
      BY <3>1
    <3>3. QED
      BY <2>1, <3>2
  <2>3. QED
    BY <2>1, <2>2
<1> HIDE DEF turn
<1>4. Sums(g)
  BY <1>3 DEF Bits1
<1> DEFINE s == CHOOSE f : Sums(f)
<1>5. Sums(s)
  BY <1>4
<1>6. ButtonBits(pressed, names) = s[n]
  BY DEF ButtonBits
<1> HIDE DEF s
<1>7. s = [i \in 0 .. n |-> s[i]] /\ s[0] = 0
      /\ \A i \in 1 .. n : s[i] = 2 * s[i - 1] + Bits1(pressed, names)[i]
  BY <1>5, SMTT(30) DEF Bits1
<1>8. s \in [0 .. n -> Nat]
  <2>1. ASSUME NEW i \in 0 .. n - 1, s[i] \in Nat PROVE s[i + 1] \in Nat
    <3>1. i + 1 \in 1 .. n /\ (i + 1) - 1 = i
      OBVIOUS
    <3>2. Bits1(pressed, names)[i + 1] \in Nat
      BY <3>1 DEF Bits1
    <3>3. s[i + 1] = 2 * s[i] + Bits1(pressed, names)[i + 1]
      BY <1>7, <3>1
    <3>4. QED
      BY <2>1, <3>2, <3>3
  <2>2. s[0] \in Nat
    BY <1>7
  <2>3. IsTable(s, n)
    BY <1>7 DEF IsTable
  <2>4. QED
    BY <2>1, <2>2, <2>3, StaysIn
<1>9. QED
  BY <1>6, <1>7, <1>8 DEF SumsBits

LEMMA PowersOfTwo ==
    /\ 2 ^ 0 = 1 /\ 2 ^ 1 = 2 /\ 2 ^ 2 = 4 /\ 2 ^ 3 = 8
    /\ 2 ^ 4 = 16 /\ 2 ^ 5 = 32 /\ 2 ^ 6 = 64 /\ 2 ^ 7 = 128
BY SMT

\* The buttons of a byte whose bits are those of the buttons pressed.
BitsAre(byte, lo, names, k, pressed) ==
    DOMAIN names = 1 .. k /\ \A j \in 1 .. k : (byte \div 2 ^ (lo + j - 1)) % 2 = IF names[j] \in pressed THEN 1 ELSE 0
Among(names, k, pressed) == {names[j] : j \in 1 .. k} \cap pressed
LEMMA PressedThere ==
    ASSUME NEW byte, NEW lo, NEW names, NEW k, NEW pressed,
           BitsAre(byte, lo, names, k, pressed)
    PROVE  Pressed(byte, lo, names) = Among(names, k, pressed)
<1>1. DOMAIN names = 1 .. k /\ \A j \in 1 .. k : (byte \div 2 ^ (lo + j - 1)) % 2 = 1 <=> names[j] \in pressed
  BY DEF BitsAre
<1>2. Pressed(byte, lo, names) = {names[i] : i \in {j \in 1 .. k : names[j] \in pressed}}
  BY <1>1 DEF Pressed
<1>3. QED
  BY <1>2 DEF Among

\* Lists of buttons, the last in the lowest bit.
LEMMA FourBits ==
    ASSUME NEW pressed, NEW names, DOMAIN names = 1 .. 4, Len(names) = 4
    PROVE  LET b == Bits1(pressed, names)
           IN  ButtonBits(pressed, names) = 2 * (2 * (2 * b[1] + b[2]) + b[3]) + b[4]
<1> DEFINE b == Bits1(pressed, names)
<1>1. PICK s : SumsBits(s, pressed, names, 4)
  <2>1. 4 \in Nat
    OBVIOUS
  <2>2. QED
    BY <2>1, BitSum
<1>2. b[1] \in 0 .. 1 /\ b[2] \in 0 .. 1 /\ b[3] \in 0 .. 1 /\ b[4] \in 0 .. 1
  BY DEF Bits1
<1>3. s[4] = ButtonBits(pressed, names) /\ s[0] = 0 /\ \A i \in 1 .. 4 : s[i] = 2 * s[i - 1] + b[i]
  BY <1>1 DEF SumsBits
<1> HIDE DEF b
<1>4. s[1] = b[1] /\ s[2] = 2 * s[1] + b[2] /\ s[3] = 2 * s[2] + b[3] /\ s[4] = 2 * s[3] + b[4]
  BY <1>2, <1>3
<1>5. QED
  BY <1>2, <1>3, <1>4 DEF b

LEMMA EightBits ==
    ASSUME NEW pressed, NEW names, DOMAIN names = 1 .. 8, Len(names) = 8
    PROVE  LET b == Bits1(pressed, names)
           IN  ButtonBits(pressed, names) =
                    2 * (2 * (2 * (2 * (2 * (2 * (2 * b[1] + b[2]) + b[3]) + b[4]) + b[5])
                    + b[6]) + b[7]) + b[8]
<1> DEFINE b == Bits1(pressed, names)
<1>1. PICK s : SumsBits(s, pressed, names, 8)
  <2>1. 8 \in Nat
    OBVIOUS
  <2>2. QED
    BY <2>1, BitSum
<1>2. /\ b[1] \in 0 .. 1 /\ b[2] \in 0 .. 1 /\ b[3] \in 0 .. 1 /\ b[4] \in 0 .. 1
      /\ b[5] \in 0 .. 1 /\ b[6] \in 0 .. 1 /\ b[7] \in 0 .. 1 /\ b[8] \in 0 .. 1
  BY DEF Bits1
<1>3. s[8] = ButtonBits(pressed, names) /\ s[0] = 0 /\ \A i \in 1 .. 8 : s[i] = 2 * s[i - 1] + b[i]
  BY <1>1 DEF SumsBits
<1> HIDE DEF b
<1>4. /\ s[1] = b[1] /\ s[2] = 2 * s[1] + b[2] /\ s[3] = 2 * s[2] + b[3]
      /\ s[4] = 2 * s[3] + b[4] /\ s[5] = 2 * s[4] + b[5] /\ s[6] = 2 * s[5] + b[6]
      /\ s[7] = 2 * s[6] + b[7] /\ s[8] = 2 * s[7] + b[8]
  BY <1>2, <1>3
<1>5. QED
  BY <1>2, <1>3, <1>4 DEF b

LEMMA ThreeBits ==
    ASSUME NEW pressed, NEW names, DOMAIN names = 1 .. 3, Len(names) = 3
    PROVE  LET b == Bits1(pressed, names)
           IN  ButtonBits(pressed, names) = 2 * (2 * b[1] + b[2]) + b[3]
<1> DEFINE b == Bits1(pressed, names)
<1>1. PICK s : SumsBits(s, pressed, names, 3)
  <2>1. 3 \in Nat
    OBVIOUS
  <2>2. QED
    BY <2>1, BitSum
<1>2. b[1] \in 0 .. 1 /\ b[2] \in 0 .. 1 /\ b[3] \in 0 .. 1
  BY DEF Bits1
<1>3. s[3] = ButtonBits(pressed, names) /\ s[0] = 0 /\ \A i \in 1 .. 3 : s[i] = 2 * s[i - 1] + b[i]
  BY <1>1 DEF SumsBits
<1> HIDE DEF b
<1>4. s[1] = b[1] /\ s[2] = 2 * s[1] + b[2] /\ s[3] = 2 * s[2] + b[3]
  BY <1>2, <1>3
<1>5. QED
  BY <1>2, <1>3, <1>4 DEF b

\* The buttons of the three bytes.
FaceNames == <<"square", "cross", "circle", "triangle">>
ShoulderNames == <<"l1", "r1", "l2_btn", "r2_btn", "create", "options", "l3", "r3">>
CentreNames == <<"ps", "touchpad_btn", "mute">>
LEMMA FaceRead ==
    ASSUME NEW pressed, NEW dpad \in 0 .. 15
    PROVE  LET byte == dpad + 16 * ButtonBits(pressed, FaceByte)
           IN  /\ byte \in Byte /\ byte % 16 = dpad
               /\ Pressed(byte, 4, FaceNames) = Among(FaceNames, 4, pressed)
<1> DEFINE byte == dpad + 16 * ButtonBits(pressed, FaceByte)
           b == Bits1(pressed, FaceByte)
<1>1. DOMAIN FaceByte = 1 .. 4 /\ Len(FaceByte) = 4
  BY DEF FaceByte
<1>2. ButtonBits(pressed, FaceByte) = 2 * (2 * (2 * b[1] + b[2]) + b[3]) + b[4]
  BY <1>1, FourBits
<1>3. b[1] \in 0 .. 1 /\ b[2] \in 0 .. 1 /\ b[3] \in 0 .. 1 /\ b[4] \in 0 .. 1
  BY <1>1 DEF Bits1
<1>4. /\ b[4] = IF FaceNames[1] \in pressed THEN 1 ELSE 0
      /\ b[3] = IF FaceNames[2] \in pressed THEN 1 ELSE 0
      /\ b[2] = IF FaceNames[3] \in pressed THEN 1 ELSE 0
      /\ b[1] = IF FaceNames[4] \in pressed THEN 1 ELSE 0
  BY DEF Bits1, FaceByte, FaceNames
<1> HIDE DEF b
<1>5. Bits4(byte, dpad, b[1], b[2], b[3], b[4])
  BY <1>2, <1>3 DEF Bits4
<1> HIDE DEF byte
<1>6. /\ byte \in Byte /\ byte % 16 = dpad
      /\ (byte \div 16) % 2 = b[4] /\ (byte \div 32) % 2 = b[3]
      /\ (byte \div 64) % 2 = b[2] /\ (byte \div 128) % 2 = b[1]
  BY <1>5, BitsOfFour
<1>8. BitsAre(byte, 4, FaceNames, 4, pressed)
  <2>1. ASSUME NEW j \in 1 .. 4
        PROVE  (byte \div 2 ^ (4 + j - 1)) % 2 = IF FaceNames[j] \in pressed THEN 1 ELSE 0
    <3>1. CASE j = 1
      <4>1. 4 + j - 1 = 4
        BY <3>1
      <4>2. QED
        BY <1>4, <1>6, <3>1, <4>1, PowersOfTwo
    <3>2. CASE j = 2
      <4>1. 4 + j - 1 = 5
        BY <3>2
      <4>2. QED
        BY <1>4, <1>6, <3>2, <4>1, PowersOfTwo
    <3>3. CASE j = 3
      <4>1. 4 + j - 1 = 6
        BY <3>3
      <4>2. QED
        BY <1>4, <1>6, <3>3, <4>1, PowersOfTwo
    <3>4. CASE j = 4
      <4>1. 4 + j - 1 = 7
        BY <3>4
      <4>2. QED
        BY <1>4, <1>6, <3>4, <4>1, PowersOfTwo
    <3>5. QED
      BY <3>1, <3>2, <3>3, <3>4
  <2>2. DOMAIN FaceNames = 1 .. 4
    BY DEF FaceNames
  <2>3. QED
    BY <2>1, <2>2 DEF BitsAre
<1>9. Pressed(byte, 4, FaceNames) = Among(FaceNames, 4, pressed)
  BY <1>8, PressedThere
<1>10. QED
  BY <1>6, <1>9 DEF byte

LEMMA ShoulderRead ==
    ASSUME NEW pressed
    PROVE  LET byte == ButtonBits(pressed, ShoulderByte)
           IN  byte \in Byte /\ Pressed(byte, 0, ShoulderNames) = Among(ShoulderNames, 8, pressed)
<1> DEFINE byte == ButtonBits(pressed, ShoulderByte)
           b == Bits1(pressed, ShoulderByte)
<1>1. DOMAIN ShoulderByte = 1 .. 8 /\ Len(ShoulderByte) = 8
  BY DEF ShoulderByte
<1>2. ButtonBits(pressed, ShoulderByte) =
        2 * (2 * (2 * (2 * (2 * (2 * (2 * b[1] + b[2]) + b[3]) + b[4]) + b[5]) + b[6]) + b[7]) + b[8]
  BY <1>1, EightBits
<1>3. /\ b[1] \in 0 .. 1 /\ b[2] \in 0 .. 1 /\ b[3] \in 0 .. 1
      /\ b[4] \in 0 .. 1 /\ b[5] \in 0 .. 1 /\ b[6] \in 0 .. 1
      /\ b[7] \in 0 .. 1 /\ b[8] \in 0 .. 1
  BY <1>1 DEF Bits1
<1>4. /\ b[8] = IF ShoulderNames[1] \in pressed THEN 1 ELSE 0
      /\ b[7] = IF ShoulderNames[2] \in pressed THEN 1 ELSE 0
      /\ b[6] = IF ShoulderNames[3] \in pressed THEN 1 ELSE 0
      /\ b[5] = IF ShoulderNames[4] \in pressed THEN 1 ELSE 0
      /\ b[4] = IF ShoulderNames[5] \in pressed THEN 1 ELSE 0
      /\ b[3] = IF ShoulderNames[6] \in pressed THEN 1 ELSE 0
      /\ b[2] = IF ShoulderNames[7] \in pressed THEN 1 ELSE 0
      /\ b[1] = IF ShoulderNames[8] \in pressed THEN 1 ELSE 0
  BY DEF Bits1, ShoulderByte, ShoulderNames
<1> HIDE DEF b
<1>5. Bits8(byte, b[1], b[2], b[3], b[4], b[5], b[6], b[7], b[8])
  BY <1>2, <1>3 DEF Bits8
<1> HIDE DEF byte
<1>6. /\ byte \in Byte /\ byte % 2 = b[8] /\ (byte \div 2) % 2 = b[7]
      /\ (byte \div 4) % 2 = b[6] /\ (byte \div 8) % 2 = b[5] /\ (byte \div 16) % 2 = b[4]
      /\ (byte \div 32) % 2 = b[3] /\ (byte \div 64) % 2 = b[2] /\ (byte \div 128) % 2 = b[1]
  BY <1>5, BitsOfEight
<1>7. BitsAre(byte, 0, ShoulderNames, 8, pressed)
  <2>1. ASSUME NEW j \in 1 .. 8
        PROVE  (byte \div 2 ^ (0 + j - 1)) % 2 = IF ShoulderNames[j] \in pressed THEN 1 ELSE 0
    <3>1. CASE j = 1
      <4>1. 0 + j - 1 = 0 /\ byte \div 1 = byte
        BY <1>6, <3>1 DEF Byte
      <4>2. QED
        BY <1>4, <1>6, <3>1, <4>1, PowersOfTwo
    <3>2. CASE j = 2
      <4>1. 0 + j - 1 = 1
        BY <3>2
      <4>2. QED
        BY <1>4, <1>6, <3>2, <4>1, PowersOfTwo
    <3>3. CASE j = 3
      <4>1. 0 + j - 1 = 2
        BY <3>3
      <4>2. QED
        BY <1>4, <1>6, <3>3, <4>1, PowersOfTwo
    <3>4. CASE j = 4
      <4>1. 0 + j - 1 = 3
        BY <3>4
      <4>2. QED
        BY <1>4, <1>6, <3>4, <4>1, PowersOfTwo
    <3>5. CASE j = 5
      <4>1. 0 + j - 1 = 4
        BY <3>5
      <4>2. QED
        BY <1>4, <1>6, <3>5, <4>1, PowersOfTwo
    <3>6. CASE j = 6
      <4>1. 0 + j - 1 = 5
        BY <3>6
      <4>2. QED
        BY <1>4, <1>6, <3>6, <4>1, PowersOfTwo
    <3>7. CASE j = 7
      <4>1. 0 + j - 1 = 6
        BY <3>7
      <4>2. QED
        BY <1>4, <1>6, <3>7, <4>1, PowersOfTwo
    <3>8. CASE j = 8
      <4>1. 0 + j - 1 = 7
        BY <3>8
      <4>2. QED
        BY <1>4, <1>6, <3>8, <4>1, PowersOfTwo
    <3>9. QED
      BY <3>1, <3>2, <3>3, <3>4, <3>5, <3>6, <3>7, <3>8
  <2>2. DOMAIN ShoulderNames = 1 .. 8
    BY DEF ShoulderNames
  <2>3. QED
    BY <2>1, <2>2 DEF BitsAre
<1>8. Pressed(byte, 0, ShoulderNames) = Among(ShoulderNames, 8, pressed)
  BY <1>7, PressedThere
<1>9. QED
  BY <1>6, <1>8 DEF byte

LEMMA CentreRead ==
    ASSUME NEW pressed
    PROVE  LET byte == 248 + ButtonBits(pressed, CentreByte)
           IN  byte \in Byte /\ Pressed(byte, 0, CentreNames) = Among(CentreNames, 3, pressed)
<1> DEFINE byte == 248 + ButtonBits(pressed, CentreByte)
           b == Bits1(pressed, CentreByte)
<1>1. DOMAIN CentreByte = 1 .. 3 /\ Len(CentreByte) = 3
  BY DEF CentreByte
<1>2. ButtonBits(pressed, CentreByte) = 2 * (2 * b[1] + b[2]) + b[3]
  BY <1>1, ThreeBits
<1>3. b[1] \in 0 .. 1 /\ b[2] \in 0 .. 1 /\ b[3] \in 0 .. 1
  BY <1>1 DEF Bits1
<1>4. /\ b[3] = IF CentreNames[1] \in pressed THEN 1 ELSE 0
      /\ b[2] = IF CentreNames[2] \in pressed THEN 1 ELSE 0
      /\ b[1] = IF CentreNames[3] \in pressed THEN 1 ELSE 0
  BY DEF Bits1, CentreByte, CentreNames
<1> HIDE DEF b
<1>5. Bits3(byte, b[1], b[2], b[3])
  BY <1>2, <1>3 DEF Bits3
<1> HIDE DEF byte
<1>6. /\ byte \in Byte /\ byte % 2 = b[3] /\ (byte \div 2) % 2 = b[2]
      /\ (byte \div 4) % 2 = b[1]
  BY <1>5, BitsOfThree
<1>7. BitsAre(byte, 0, CentreNames, 3, pressed)
  <2>1. ASSUME NEW j \in 1 .. 3
        PROVE  (byte \div 2 ^ (0 + j - 1)) % 2 = IF CentreNames[j] \in pressed THEN 1 ELSE 0
    <3>1. CASE j = 1
      <4>1. 0 + j - 1 = 0 /\ byte \div 1 = byte
        BY <1>6, <3>1 DEF Byte
      <4>2. QED
        BY <1>4, <1>6, <3>1, <4>1, PowersOfTwo
    <3>2. CASE j = 2
      <4>1. 0 + j - 1 = 1
        BY <3>2
      <4>2. QED
        BY <1>4, <1>6, <3>2, <4>1, PowersOfTwo
    <3>3. CASE j = 3
      <4>1. 0 + j - 1 = 2
        BY <3>3
      <4>2. QED
        BY <1>4, <1>6, <3>3, <4>1, PowersOfTwo
    <3>4. QED
      BY <3>1, <3>2, <3>3
  <2>2. DOMAIN CentreNames = 1 .. 3
    BY DEF CentreNames
  <2>3. QED
    BY <2>1, <2>2 DEF BitsAre
<1>8. Pressed(byte, 0, CentreNames) = Among(CentreNames, 3, pressed)
  BY <1>7, PressedThere
<1>9. QED
  BY <1>6, <1>8 DEF byte

LEMMA AllButtons ==
    ASSUME NEW pressed \in SUBSET Buttons
    PROVE  Among(FaceNames, 4, pressed) \cup Among(ShoulderNames, 8, pressed)
                \cup Among(CentreNames, 3, pressed) = pressed
<1>1. ASSUME NEW e \in Buttons
      PROVE  \/ \E j \in 1 .. 4 : e = FaceNames[j]
             \/ \E j \in 1 .. 8 : e = ShoulderNames[j]
             \/ \E j \in 1 .. 3 : e = CentreNames[j]
  <2>1. /\ FaceNames[1] = "square" /\ FaceNames[2] = "cross" /\ FaceNames[3] = "circle"
        /\ FaceNames[4] = "triangle"
    BY DEF FaceNames
  <2>2. /\ ShoulderNames[1] = "l1" /\ ShoulderNames[2] = "r1" /\ ShoulderNames[3] = "l2_btn"
        /\ ShoulderNames[4] = "r2_btn" /\ ShoulderNames[5] = "create"
        /\ ShoulderNames[6] = "options" /\ ShoulderNames[7] = "l3" /\ ShoulderNames[8] = "r3"
    BY DEF ShoulderNames
  <2>3. CentreNames[1] = "ps" /\ CentreNames[2] = "touchpad_btn" /\ CentreNames[3] = "mute"
    BY DEF CentreNames
  <2>4. CASE e \in {"square", "cross", "circle", "triangle"}
    BY <2>1, <2>4
  <2>5. CASE e \in {"l1", "r1", "l2_btn", "r2_btn", "create", "options", "l3", "r3"}
    BY <2>2, <2>5
  <2>6. CASE e \in {"ps", "touchpad_btn", "mute"}
    BY <2>3, <2>6
  <2>7. QED
    BY <2>4, <2>5, <2>6 DEF Buttons
<1>2. QED
  BY <1>1 DEF Among

-----------------------------------------------------------------------------
\* The places of a report's parts.


\* What a part holds, the whole holds.
LEMMA HoldsOn ==
    ASSUME NEW w, NEW q, NEW m \in Nat, NEW at \in Nat, NEW part, NEW n \in Nat,
           Holds(w, 0, q, m), Holds(q, at, part, n), at + n <= m
    PROVE  Holds(w, at, part, n)
<1>1. ASSUME NEW i \in 1 .. n PROVE w[at + i] = part[i]
  <2>1. at + i \in 1 .. m /\ 0 + (at + i) = at + i
    OBVIOUS
  <2>2. w[at + i] = q[at + i]
    BY <2>1 DEF Holds
  <2>3. QED
    BY <2>2 DEF Holds
<1>2. QED
  BY <1>1 DEF Holds

LEMMA UnusedBytes ==
    ASSUME NEW n \in Nat
    PROVE  OfLength(Unused(n), n)
BY DEF OfLength, Unused

LEMMA Bytes16Bytes ==
    ASSUME NEW n \in Int
    PROVE  OfLength(Bytes16(n), 2)
<1>1. n % 256 \in Int /\ (n \div 256) % 256 \in Int
  OBVIOUS
<1>2. QED
  BY <1>1 DEF OfLength, Bytes16

\* A vector is three pairs.
LEMMA VectorBytes ==
    ASSUME NEW v \in [1 .. 3 -> Int16]
    PROVE  /\ OfLength(BytesVector(v), 6)
           /\ Holds(BytesVector(v), 0, Bytes16(v[1]), 2)
           /\ Holds(BytesVector(v), 2, Bytes16(v[2]), 2)
           /\ Holds(BytesVector(v), 4, Bytes16(v[3]), 2)
<1> DEFINE a == Bytes16(v[1])
           b == Bytes16(v[2])
           c == Bytes16(v[3])
           ab == a \o b
           abc == ab \o c
<1>1. OfLength(a, 2) /\ OfLength(b, 2) /\ OfLength(c, 2)
  <2>1. v[1] \in Int /\ v[2] \in Int /\ v[3] \in Int
    BY DEF Int16
  <2>2. QED
    BY <2>1, Bytes16Bytes
<1> HIDE DEF a, b, c
<1>2. OfLength(ab, 4) /\ Holds(ab, 2, b, 2) /\ Holds(ab, 0, a, 2)
  BY <1>1, 2 \in Nat, 4 = 2 + 2, Joined
<1> HIDE DEF ab
<1>3. OfLength(abc, 6) /\ Holds(abc, 4, c, 2) /\ Holds(abc, 0, ab, 4)
  BY <1>1, <1>2, 2 \in Nat, 4 \in Nat, 6 = 4 + 2, Joined
<1>4. BytesVector(v) = abc
  BY DEF BytesVector, abc, ab, a, b, c
<1> HIDE DEF abc
<1>5. Holds(abc, 0, a, 2) /\ Holds(abc, 2, b, 2)
  BY <1>2, <1>3, 0 \in Nat, 2 \in Nat, 4 \in Nat, 0 + 2 <= 4, 2 + 2 <= 4, HoldsOn
<1>6. QED
  BY <1>3, <1>4, <1>5 DEF a, b, c

\* The ten parts of the data that both full reports carry.
TenOf(a0, a1, a2, a3, a4, a5, a6, a7, a8, a9) ==
    /\ OfLength(a0, 10) /\ OfLength(a1, 2) /\ OfLength(a2, 2) /\ OfLength(a3, 6)
    /\ OfLength(a4, 6) /\ OfLength(a5, 6) /\ OfLength(a6, 4) /\ OfLength(a7, 4)
    /\ OfLength(a8, 12) /\ OfLength(a9, 1)
TenHeld(w, a0, a1, a2, a3, a4, a5, a6, a7, a8, a9) ==
    /\ OfLength(w, 53)
    /\ Holds(w, 0, a0, 10) /\ Holds(w, 10, a1, 2) /\ Holds(w, 12, a2, 2)
    /\ Holds(w, 14, a3, 6) /\ Holds(w, 20, a4, 6) /\ Holds(w, 26, a5, 6)
    /\ Holds(w, 32, a6, 4) /\ Holds(w, 36, a7, 4) /\ Holds(w, 40, a8, 12)
    /\ Holds(w, 52, a9, 1)
LEMMA TenParts ==
    ASSUME NEW a0, NEW a1, NEW a2, NEW a3, NEW a4, NEW a5, NEW a6, NEW a7, NEW a8, NEW a9,
           TenOf(a0, a1, a2, a3, a4, a5, a6, a7, a8, a9)
    PROVE  TenHeld(a0 \o a1 \o a2 \o a3 \o a4 \o a5 \o a6 \o a7 \o a8 \o a9,
                   a0, a1, a2, a3, a4, a5, a6, a7, a8, a9)
<1> USE DEF TenOf
<1> DEFINE w1 == a0 \o a1
           w2 == w1 \o a2
           w3 == w2 \o a3
           w4 == w3 \o a4
           w5 == w4 \o a5
           w6 == w5 \o a6
           w7 == w6 \o a7
           w8 == w7 \o a8
           w9 == w8 \o a9
<1>0. 0 \in Nat /\ 1 \in Nat /\ 2 \in Nat /\ 4 \in Nat /\ 6 \in Nat /\ 10 \in Nat /\ 12 \in Nat /\ 14 \in Nat /\ 20 \in Nat /\ 26 \in Nat /\ 32 \in Nat /\ 36 \in Nat /\ 40 \in Nat /\ 52 \in Nat /\ 53 \in Nat
  OBVIOUS
<1>1. OfLength(w1, 12) /\ Holds(w1, 10, a1, 2) /\ Holds(w1, 0, a0, 10)
  BY <1>0, 12 = 10 + 2, Joined
<1> HIDE DEF w1
<1>2. OfLength(w2, 14) /\ Holds(w2, 12, a2, 2) /\ Holds(w2, 0, w1, 12)
  BY <1>0, <1>1, 14 = 12 + 2, Joined
<1> HIDE DEF w2
<1>3. OfLength(w3, 20) /\ Holds(w3, 14, a3, 6) /\ Holds(w3, 0, w2, 14)
  BY <1>0, <1>2, 20 = 14 + 6, Joined
<1> HIDE DEF w3
<1>4. OfLength(w4, 26) /\ Holds(w4, 20, a4, 6) /\ Holds(w4, 0, w3, 20)
  BY <1>0, <1>3, 26 = 20 + 6, Joined
<1> HIDE DEF w4
<1>5. OfLength(w5, 32) /\ Holds(w5, 26, a5, 6) /\ Holds(w5, 0, w4, 26)
  BY <1>0, <1>4, 32 = 26 + 6, Joined
<1> HIDE DEF w5
<1>6. OfLength(w6, 36) /\ Holds(w6, 32, a6, 4) /\ Holds(w6, 0, w5, 32)
  BY <1>0, <1>5, 36 = 32 + 4, Joined
<1> HIDE DEF w6
<1>7. OfLength(w7, 40) /\ Holds(w7, 36, a7, 4) /\ Holds(w7, 0, w6, 36)
  BY <1>0, <1>6, 40 = 36 + 4, Joined
<1> HIDE DEF w7
<1>8. OfLength(w8, 52) /\ Holds(w8, 40, a8, 12) /\ Holds(w8, 0, w7, 40)
  BY <1>0, <1>7, 52 = 40 + 12, Joined
<1> HIDE DEF w8
<1>9. OfLength(w9, 53) /\ Holds(w9, 52, a9, 1) /\ Holds(w9, 0, w8, 52)
  BY <1>0, <1>8, 53 = 52 + 1, Joined
<1> HIDE DEF w9
<1>10. Holds(w9, 0, w7, 40)
  BY <1>0, <1>8, <1>9, 0 + 40 <= 52, HoldsOn
<1>11. Holds(w9, 0, w6, 36)
  BY <1>0, <1>7, <1>10, 0 + 36 <= 40, HoldsOn
<1>12. Holds(w9, 0, w5, 32)
  BY <1>0, <1>6, <1>11, 0 + 32 <= 36, HoldsOn
<1>13. Holds(w9, 0, w4, 26)
  BY <1>0, <1>5, <1>12, 0 + 26 <= 32, HoldsOn
<1>14. Holds(w9, 0, w3, 20)
  BY <1>0, <1>4, <1>13, 0 + 20 <= 26, HoldsOn
<1>15. Holds(w9, 0, w2, 14)
  BY <1>0, <1>3, <1>14, 0 + 14 <= 20, HoldsOn
<1>16. Holds(w9, 0, w1, 12)
  BY <1>0, <1>2, <1>15, 0 + 12 <= 14, HoldsOn
<1>17. Holds(w9, 0, a0, 10)
  BY <1>0, <1>1, <1>16, 0 + 10 <= 12, HoldsOn
<1>18. Holds(w9, 10, a1, 2)
  BY <1>0, <1>1, <1>16, 10 + 2 <= 12, HoldsOn
<1>19. Holds(w9, 12, a2, 2)
  BY <1>0, <1>2, <1>15, 12 + 2 <= 14, HoldsOn
<1>20. Holds(w9, 14, a3, 6)
  BY <1>0, <1>3, <1>14, 14 + 6 <= 20, HoldsOn
<1>21. Holds(w9, 20, a4, 6)
  BY <1>0, <1>4, <1>13, 20 + 6 <= 26, HoldsOn
<1>22. Holds(w9, 26, a5, 6)
  BY <1>0, <1>5, <1>12, 26 + 6 <= 32, HoldsOn
<1>23. Holds(w9, 32, a6, 4)
  BY <1>0, <1>6, <1>11, 32 + 4 <= 36, HoldsOn
<1>24. Holds(w9, 36, a7, 4)
  BY <1>0, <1>7, <1>10, 36 + 4 <= 40, HoldsOn
<1>25. Holds(w9, 40, a8, 12)
  BY <1>0, <1>8, <1>9, 40 + 12 <= 52, HoldsOn
<1>26. TenHeld(w9, a0, a1, a2, a3, a4, a5, a6, a7, a8, a9)
  BY <1>9, <1>17, <1>18, <1>19, <1>20, <1>21, <1>22, <1>23, <1>24, <1>25 DEF TenHeld
<1>27. QED
  BY <1>26 DEF w1, w2, w3, w4, w5, w6, w7, w8, w9

\* The ten bytes of sticks, triggers and buttons.
FirstBytes(s) ==
    <<s.lx, s.ly, s.rx, s.ry, s.l2, s.r2, s.seq, s.dpad + 16 * ButtonBits(s.pressed, FaceByte),
      ButtonBits(s.pressed, ShoulderByte), 248 + ButtonBits(s.pressed, CentreByte)>>
ButtonBytes(s) ==
    /\ s.dpad + 16 * ButtonBits(s.pressed, FaceByte) \in Byte
    /\ ButtonBits(s.pressed, ShoulderByte) \in Byte
    /\ 248 + ButtonBits(s.pressed, CentreByte) \in Byte

LEMMA ButtonsFit ==
    ASSUME NEW s \in ControllerState
    PROVE  ButtonBytes(s)
<1>1. s.dpad \in 0 .. 15
  BY DEF ControllerState
<1>2. QED
  BY <1>1, FaceRead, ShoulderRead, CentreRead DEF ButtonBytes

LEMMA FirstFit ==
    ASSUME NEW s \in ControllerState
    PROVE  OfLength(FirstBytes(s), 10)
<1> DEFINE f == s.dpad + 16 * ButtonBits(s.pressed, FaceByte)
           g == ButtonBits(s.pressed, ShoulderByte)
           h == 248 + ButtonBits(s.pressed, CentreByte)
<1>1. f \in Byte /\ g \in Byte /\ h \in Byte
  BY ButtonsFit DEF ButtonBytes
<1>2. FirstBytes(s) = <<s.lx, s.ly, s.rx, s.ry, s.l2, s.r2, s.seq, f, g, h>>
  BY DEF FirstBytes
<1> HIDE DEF f, g, h
<1>3. /\ s.lx \in Byte /\ s.ly \in Byte /\ s.rx \in Byte /\ s.ry \in Byte
      /\ s.l2 \in Byte /\ s.r2 \in Byte /\ s.seq \in Byte
  BY DEF ControllerState
<1>4. \A b \in Byte : b \in Int
  BY DEF Byte
<1>5. QED
  BY <1>1, <1>2, <1>3, <1>4 DEF OfLength

LEMMA TouchFit ==
    ASSUME NEW t \in Fingers
    PROVE  OfLength(BytesTouch(t), 4)
<1>1. t.id \in Int /\ t.x \in Int /\ t.y \in Int
  <2>1. t.id \in 0 .. 127 /\ t.x \in Coordinate /\ t.y \in Coordinate
    BY DEF Fingers
  <2>2. \A v \in (0 .. 127) \cup Coordinate : v \in Int
    BY DEF Coordinate
  <2>3. QED
    BY <2>1, <2>2, Zenon
<1>2. /\ (IF t.active THEN 0 ELSE 128) + t.id \in Int /\ t.x % 256 \in Int
      /\ (t.x \div 256) + 16 * (t.y % 16) \in Int /\ t.y \div 16 \in Int
  BY <1>1
<1>3. QED
  BY <1>2 DEF OfLength, BytesTouch

\* Each field where the layout in input.c has it.
Carries(d, s, charge) ==
    /\ d[0] = s.lx /\ d[1] = s.ly /\ d[2] = s.rx /\ d[3] = s.ry
    /\ d[4] = s.l2 /\ d[5] = s.r2 /\ d[6] = s.seq
    /\ d[7] = s.dpad + 16 * ButtonBits(s.pressed, FaceByte)
    /\ d[8] = ButtonBits(s.pressed, ShoulderByte)
    /\ d[9] = 248 + ButtonBits(s.pressed, CentreByte)
    /\ Pair(d, 10, s.timestamp[1]) /\ Pair(d, 12, s.timestamp[2])
    /\ Pair(d, 14, s.gyro[1]) /\ Pair(d, 16, s.gyro[2]) /\ Pair(d, 18, s.gyro[3])
    /\ Pair(d, 20, s.accel[1]) /\ Pair(d, 22, s.accel[2]) /\ Pair(d, 24, s.accel[3])
    /\ FourBytes(d, 32, s.touch[1]) /\ FourBytes(d, 36, s.touch[2])
    /\ d[52] = charge.level + 16 * charge.status
Shifted(d, w) == \A i \in 0 .. 52 : d[i] = w[i + 1]

LEMMA PairHeld ==
    ASSUME NEW d, NEW w, NEW at \in 0 .. 51, NEW n, Shifted(d, w), Holds(w, at, Bytes16(n), 2)
    PROVE  Pair(d, at, n)
<1>1. w[at + 1] = Bytes16(n)[1] /\ w[at + 2] = Bytes16(n)[2]
  BY DEF Holds
<1>2. d[at] = w[at + 1] /\ d[at + 1] = w[at + 2]
  <2>1. at \in 0 .. 52 /\ at + 1 \in 0 .. 52 /\ (at + 1) + 1 = at + 2
    OBVIOUS
  <2>2. QED
    BY <2>1 DEF Shifted
<1>3. QED
  BY <1>1, <1>2 DEF Bytes16, Pair

LEMMA TouchHeld ==
    ASSUME NEW d, NEW w, NEW at \in 0 .. 49, NEW t, Shifted(d, w), Holds(w, at, BytesTouch(t), 4)
    PROVE  FourBytes(d, at, t)
<1> DEFINE b == BytesTouch(t)
<1>1. w[at + 1] = b[1] /\ w[at + 2] = b[2] /\ w[at + 3] = b[3] /\ w[at + 4] = b[4]
  BY DEF Holds
<1>2. d[at] = w[at + 1] /\ d[at + 1] = w[at + 2] /\ d[at + 2] = w[at + 3] /\ d[at + 3] = w[at + 4]
  <2>1. /\ at \in 0 .. 52 /\ at + 1 \in 0 .. 52 /\ at + 2 \in 0 .. 52 /\ at + 3 \in 0 .. 52
        /\ (at + 1) + 1 = at + 2 /\ (at + 2) + 1 = at + 3 /\ (at + 3) + 1 = at + 4
    OBVIOUS
  <2>2. QED
    BY <2>1 DEF Shifted
<1>3. QED
  BY <1>1, <1>2 DEF BytesTouch, FourBytes

LEMMA VectorHeld ==
    ASSUME NEW d, NEW w, NEW at \in 0 .. 46, NEW v \in [1 .. 3 -> Int16],
           Shifted(d, w), Holds(w, at, BytesVector(v), 6)
    PROVE  Pair(d, at, v[1]) /\ Pair(d, at + 2, v[2]) /\ Pair(d, at + 4, v[3])
<1> DEFINE b == BytesVector(v)
<1>1. Holds(b, 0, Bytes16(v[1]), 2) /\ Holds(b, 2, Bytes16(v[2]), 2) /\ Holds(b, 4, Bytes16(v[3]), 2)
  BY VectorBytes
<1> HIDE DEF b
<1>2. Holds(w, at, b, 6)
  BY DEF b
<1>3. ASSUME NEW k \in 0 .. 4, NEW p, Holds(b, k, p, 2)
      PROVE  Holds(w, at + k, p, 2)
  <2>1. ASSUME NEW i \in 1 .. 2 PROVE w[(at + k) + i] = p[i]
    <3>1. k + i \in 1 .. 6 /\ at + (k + i) = (at + k) + i
      OBVIOUS
    <3>2. w[at + (k + i)] = b[k + i] /\ b[k + i] = p[i]
      BY <1>2, <1>3, <3>1 DEF Holds
    <3>3. QED
      BY <3>1, <3>2
  <2>2. QED
    BY <2>1 DEF Holds
<1>4. Holds(w, at, Bytes16(v[1]), 2)
  <2>1. at + 0 = at
    OBVIOUS
  <2>2. Holds(w, at + 0, Bytes16(v[1]), 2)
    BY <1>1, <1>3, 0 \in 0 .. 4
  <2>3. QED
    BY <2>1, <2>2
<1>5. Holds(w, at + 2, Bytes16(v[2]), 2)
  BY <1>1, <1>3, 2 \in 0 .. 4
<1>6. Holds(w, at + 4, Bytes16(v[3]), 2)
  BY <1>1, <1>3, 4 \in 0 .. 4
<1>7. at \in 0 .. 51 /\ at + 2 \in 0 .. 51 /\ at + 4 \in 0 .. 51
  OBVIOUS
<1>8. QED
  BY <1>4, <1>5, <1>6, <1>7, PairHeld

LEMMA FullDataCarries ==
    ASSUME NEW s \in ControllerState, NEW charge \in Charge
    PROVE  /\ OfLength(FullData(s, charge), 53)
           /\ \A d : Shifted(d, FullData(s, charge)) => Carries(d, s, charge)
<1> DEFINE w == FullData(s, charge)
           last == <<charge.level + 16 * charge.status>>
<1>1. OfLength(FirstBytes(s), 10)
  BY FirstFit
<1>2. OfLength(Bytes16(s.timestamp[1]), 2) /\ OfLength(Bytes16(s.timestamp[2]), 2)
  <2>1. s.timestamp[1] \in Int /\ s.timestamp[2] \in Int
    <3>1. s.timestamp \in Unsigned \X Unsigned
      BY DEF ControllerState
    <3>2. Unsigned \subseteq Int
      BY DEF Unsigned
    <3>3. QED
      BY <3>1, <3>2
  <2>2. QED
    BY <2>1, Bytes16Bytes
<1>3. s.gyro \in [1 .. 3 -> Int16] /\ s.accel \in [1 .. 3 -> Int16]
  BY DEF ControllerState
<1>4. OfLength(BytesVector(s.gyro), 6) /\ OfLength(BytesVector(s.accel), 6)
  BY <1>3, VectorBytes
<1>5. OfLength(BytesTouch(s.touch[1]), 4) /\ OfLength(BytesTouch(s.touch[2]), 4)
  <2>1. s.touch[1] \in Fingers /\ s.touch[2] \in Fingers
    BY DEF ControllerState
  <2>2. QED
    BY <2>1, TouchFit
<1>6. OfLength(Unused(6), 6) /\ OfLength(Unused(12), 12)
  BY UnusedBytes, 6 \in Nat, 12 \in Nat
<1>7. OfLength(last, 1)
  <2>1. charge.level + 16 * charge.status \in Int
    BY DEF Charge
  <2>2. QED
    BY <2>1 DEF OfLength
<1>8. w = FirstBytes(s) \o Bytes16(s.timestamp[1]) \o Bytes16(s.timestamp[2])
          \o BytesVector(s.gyro) \o BytesVector(s.accel) \o Unused(6)
          \o BytesTouch(s.touch[1]) \o BytesTouch(s.touch[2]) \o Unused(12) \o last
  BY DEF FullData, FirstBytes
<1> HIDE DEF w
<1>9. /\ OfLength(w, 53)
      /\ Holds(w, 0, FirstBytes(s), 10)
      /\ Holds(w, 10, Bytes16(s.timestamp[1]), 2) /\ Holds(w, 12, Bytes16(s.timestamp[2]), 2)
      /\ Holds(w, 14, BytesVector(s.gyro), 6) /\ Holds(w, 20, BytesVector(s.accel), 6)
      /\ Holds(w, 32, BytesTouch(s.touch[1]), 4) /\ Holds(w, 36, BytesTouch(s.touch[2]), 4)
      /\ Holds(w, 52, last, 1)
  <2>1. TenOf(FirstBytes(s), Bytes16(s.timestamp[1]), Bytes16(s.timestamp[2]),
            BytesVector(s.gyro), BytesVector(s.accel), Unused(6),
            BytesTouch(s.touch[1]), BytesTouch(s.touch[2]), Unused(12), last)
    BY <1>1, <1>2, <1>4, <1>5, <1>6, <1>7 DEF TenOf
  <2>2. TenHeld(w, FirstBytes(s), Bytes16(s.timestamp[1]), Bytes16(s.timestamp[2]),
              BytesVector(s.gyro), BytesVector(s.accel), Unused(6),
              BytesTouch(s.touch[1]), BytesTouch(s.touch[2]), Unused(12), last)
    BY <1>8, <2>1, TenParts
  <2>3. QED
    BY <2>2 DEF TenHeld
<1>10. ASSUME NEW d, Shifted(d, w) PROVE Carries(d, s, charge)
  <2> DEFINE b == FirstBytes(s)
  <2>1. \A i \in 1 .. 10 : d[i - 1] = b[i]
    <3>1. ASSUME NEW i \in 1 .. 10 PROVE d[i - 1] = b[i]
      <4>1. i - 1 \in 0 .. 52 /\ (i - 1) + 1 = 0 + i
        OBVIOUS
      <4>2. d[i - 1] = w[0 + i]
        BY <1>10, <4>1 DEF Shifted
      <4>3. QED
        BY <1>9, <4>2 DEF Holds
    <3>2. QED
      BY <3>1
  <2> HIDE DEF b
  <2>2. /\ d[0] = b[1] /\ d[1] = b[2] /\ d[2] = b[3] /\ d[3] = b[4] /\ d[4] = b[5]
        /\ d[5] = b[6] /\ d[6] = b[7] /\ d[7] = b[8] /\ d[8] = b[9] /\ d[9] = b[10]
    BY <2>1
  <2>3. /\ d[0] = s.lx /\ d[1] = s.ly /\ d[2] = s.rx /\ d[3] = s.ry
        /\ d[4] = s.l2 /\ d[5] = s.r2 /\ d[6] = s.seq
        /\ d[7] = s.dpad + 16 * ButtonBits(s.pressed, FaceByte)
        /\ d[8] = ButtonBits(s.pressed, ShoulderByte)
        /\ d[9] = 248 + ButtonBits(s.pressed, CentreByte)
    BY <2>2 DEF b, FirstBytes
  <2>4. Pair(d, 10, s.timestamp[1]) /\ Pair(d, 12, s.timestamp[2])
    BY <1>9, <1>10, 10 \in 0 .. 51, 12 \in 0 .. 51, PairHeld
  <2>5. Pair(d, 14, s.gyro[1]) /\ Pair(d, 16, s.gyro[2]) /\ Pair(d, 18, s.gyro[3])
    <3>1. Pair(d, 14, s.gyro[1]) /\ Pair(d, 14 + 2, s.gyro[2]) /\ Pair(d, 14 + 4, s.gyro[3])
      BY <1>3, <1>9, <1>10, 14 \in 0 .. 46, VectorHeld
    <3>2. QED
      BY <3>1, 14 + 2 = 16, 14 + 4 = 18
  <2>6. Pair(d, 20, s.accel[1]) /\ Pair(d, 22, s.accel[2]) /\ Pair(d, 24, s.accel[3])
    <3>1. Pair(d, 20, s.accel[1]) /\ Pair(d, 20 + 2, s.accel[2]) /\ Pair(d, 20 + 4, s.accel[3])
      BY <1>3, <1>9, <1>10, 20 \in 0 .. 46, VectorHeld
    <3>2. QED
      BY <3>1, 20 + 2 = 22, 20 + 4 = 24
  <2>7. FourBytes(d, 32, s.touch[1]) /\ FourBytes(d, 36, s.touch[2])
    BY <1>9, <1>10, 32 \in 0 .. 49, 36 \in 0 .. 49, TouchHeld
  <2>8. d[52] = charge.level + 16 * charge.status
    <3>1. d[52] = w[52 + 1]
      BY <1>10 DEF Shifted
    <3>2. w[52 + 1] = last[1]
      BY <1>9 DEF Holds
    <3>3. QED
      BY <3>1, <3>2
  <2>9. QED
    BY <2>3, <2>4, <2>5, <2>6, <2>7, <2>8 DEF Carries
<1>11. QED
  BY <1>9, <1>10 DEF w

-----------------------------------------------------------------------------
\* What is parsed is what was sent, with the battery the charge says.
ReadBack(s, charge) ==
    [s EXCEPT !.battery_level = IF charge.level > 10 THEN 100 ELSE 10 * charge.level,
              !.battery_charging = charge.status \in {1, 2}]

LEMMA VectorRead ==
    ASSUME NEW d, NEW at \in Nat, NEW v \in [1 .. 3 -> Int16],
           Pair(d, at, v[1]), Pair(d, at + 2, v[2]), Pair(d, at + 4, v[3])
    PROVE  Vector(d, at) = v
<1>1. v[1] \in Int16 /\ v[2] \in Int16 /\ v[3] \in Int16
  OBVIOUS
<1>2. /\ Signed16(le16(d, at)) = v[1] /\ Signed16(le16(d, at + 2)) = v[2]
      /\ Signed16(le16(d, at + 4)) = v[3]
  BY <1>1, SignedRead
<1>3. \A k \in 1 .. 3 : Vector(d, at)[k] = v[k]
  <2>1. ASSUME NEW k \in 1 .. 3 PROVE Vector(d, at)[k] = v[k]
    <3>1. Vector(d, at)[k] = Signed16(le16(d, at + 2 * (k - 1)))
      BY DEF Vector
    <3>2. CASE k = 1
      <4>1. at + 2 * (k - 1) = at
        BY <3>2
      <4>2. QED
        BY <1>2, <3>1, <3>2, <4>1
    <3>3. CASE k = 2
      <4>1. at + 2 * (k - 1) = at + 2
        BY <3>3
      <4>2. QED
        BY <1>2, <3>1, <3>3, <4>1
    <3>4. CASE k = 3
      <4>1. at + 2 * (k - 1) = at + 4
        BY <3>4
      <4>2. QED
        BY <1>2, <3>1, <3>4, <4>1
    <3>5. QED
      BY <3>2, <3>3, <3>4
  <2>2. QED
    BY <2>1
<1>4. Vector(d, at) = [k \in 1 .. 3 |-> Vector(d, at)[k]]
  BY DEF Vector
<1>5. v = [k \in 1 .. 3 |-> v[k]]
  OBVIOUS
<1> DEFINE u == Vector(d, at)
<1> HIDE DEF u
<1>6. u = [k \in 1 .. 3 |-> u[k]] /\ \A k \in 1 .. 3 : u[k] = v[k]
  BY <1>3, <1>4 DEF u
<1>7. u = v
  BY <1>5, <1>6
<1>8. QED
  BY <1>7 DEF u

LEMMA FullReadBack ==
    ASSUME NEW s \in ControllerState, NEW charge \in Charge, NEW d, Carries(d, s, charge)
    PROVE  ParseFull(d) = ReadBack(s, charge)
<1>1. /\ d[0] = s.lx /\ d[1] = s.ly /\ d[2] = s.rx /\ d[3] = s.ry
      /\ d[4] = s.l2 /\ d[5] = s.r2 /\ d[6] = s.seq
  BY DEF Carries
<1>2. s.dpad \in 0 .. 15 /\ s.pressed \in SUBSET Buttons
  BY DEF ControllerState
<1>3. d[7] % 16 = s.dpad
  BY <1>2, FaceRead DEF Carries
<1> DEFINE buttons == Pressed(d[7], 4, <<"square", "cross", "circle", "triangle">>)
                        \cup Pressed(d[8], 0, <<"l1", "r1", "l2_btn", "r2_btn", "create", "options",
                                                "l3", "r3">>)
                        \cup Pressed(d[9], 0, <<"ps", "touchpad_btn", "mute">>)
<1>4. buttons = s.pressed
  <2>1. Pressed(d[7], 4, FaceNames) = Among(FaceNames, 4, s.pressed)
    BY <1>2, FaceRead DEF Carries
  <2>2. Pressed(d[8], 0, ShoulderNames) = Among(ShoulderNames, 8, s.pressed)
    BY ShoulderRead DEF Carries
  <2>3. Pressed(d[9], 0, CentreNames) = Among(CentreNames, 3, s.pressed)
    BY CentreRead DEF Carries
  <2>4. buttons = Among(FaceNames, 4, s.pressed) \cup Among(ShoulderNames, 8, s.pressed)
                    \cup Among(CentreNames, 3, s.pressed)
    BY <2>1, <2>2, <2>3, Zenon DEF FaceNames, ShoulderNames, CentreNames
  <2>5. QED
    BY <1>2, <2>4, AllButtons
<1>5. <<le16(d, 10), le16(d, 12)>> = s.timestamp
  <2>1. s.timestamp \in Unsigned \X Unsigned
    BY DEF ControllerState
  <2>2. le16(d, 10) = s.timestamp[1] /\ le16(d, 12) = s.timestamp[2]
    BY <2>1, HalfRead DEF Carries
  <2>3. QED
    BY <2>1, <2>2
<1>6. Vector(d, 14) = s.gyro
  <2>1. Pair(d, 14, s.gyro[1]) /\ Pair(d, 14 + 2, s.gyro[2]) /\ Pair(d, 14 + 4, s.gyro[3])
    BY 14 + 2 = 16, 14 + 4 = 18 DEF Carries
  <2>2. s.gyro \in [1 .. 3 -> Int16]
    BY DEF ControllerState
  <2>3. QED
    BY <2>1, <2>2, 14 \in Nat, VectorRead
<1>7. Vector(d, 20) = s.accel
  <2>1. Pair(d, 20, s.accel[1]) /\ Pair(d, 20 + 2, s.accel[2]) /\ Pair(d, 20 + 4, s.accel[3])
    BY 20 + 2 = 22, 20 + 4 = 24 DEF Carries
  <2>2. s.accel \in [1 .. 3 -> Int16]
    BY DEF ControllerState
  <2>3. QED
    BY <2>1, <2>2, 20 \in Nat, VectorRead
<1>8. <<parse_touch(d, 32), parse_touch(d, 36)>> = s.touch
  <2>1. s.touch \in Fingers \X Fingers
    BY DEF ControllerState
  <2>2. parse_touch(d, 32) = s.touch[1] /\ parse_touch(d, 36) = s.touch[2]
    BY <2>1, FingerRead DEF Carries
  <2>3. QED
    BY <2>1, <2>2
<1>9. d[52] % 16 = charge.level /\ d[52] \div 16 = charge.status
  <2>1. charge.level \in 0 .. 15 /\ charge.status \in 0 .. 15
    BY DEF Charge
  <2>2. d[52] = charge.level + 16 * charge.status
    BY DEF Carries
  <2>3. QED
    BY <2>1, <2>2
<1> HIDE DEF buttons
<1> DEFINE level == IF charge.level > 10 THEN 100 ELSE 10 * charge.level
           charging == charge.status \in {1, 2}
<1>10. ParseFull(d) =
         [lx |-> s.lx, ly |-> s.ly, rx |-> s.rx, ry |-> s.ry, l2 |-> s.l2, r2 |-> s.r2,
          seq |-> s.seq, dpad |-> s.dpad, pressed |-> s.pressed, timestamp |-> s.timestamp,
          gyro |-> s.gyro, accel |-> s.accel, touch |-> s.touch,
          battery_level |-> level, battery_charging |-> charging]
  <2>1. ParseFull(d) =
          [lx |-> d[0], ly |-> d[1], rx |-> d[2], ry |-> d[3], l2 |-> d[4], r2 |-> d[5],
           seq |-> d[6], dpad |-> d[7] % 16, pressed |-> buttons,
           timestamp |-> <<le16(d, 10), le16(d, 12)>>,
           gyro |-> Vector(d, 14), accel |-> Vector(d, 20),
           touch |-> <<parse_touch(d, 32), parse_touch(d, 36)>>,
           battery_level |-> level, battery_charging |-> charging]
    BY <1>9, Zenon DEF ParseFull, buttons
  <2>2. QED
    BY <1>1, <1>3, <1>4, <1>5, <1>6, <1>7, <1>8, <2>1
<1> HIDE DEF level, charging
<1>11. ReadBack(s, charge) = [s EXCEPT !.battery_level = level, !.battery_charging = charging]
  BY DEF ReadBack, level, charging
<1>12. s = [lx |-> s.lx, ly |-> s.ly, rx |-> s.rx, ry |-> s.ry, l2 |-> s.l2, r2 |-> s.r2,
            seq |-> s.seq, dpad |-> s.dpad, pressed |-> s.pressed, timestamp |-> s.timestamp,
            gyro |-> s.gyro, accel |-> s.accel, touch |-> s.touch,
            battery_level |-> s.battery_level, battery_charging |-> s.battery_charging]
  BY DEF ControllerState
<1>13. QED
  BY <1>10, <1>11, <1>12

-----------------------------------------------------------------------------
\* A report that is parsed is returned.
LEMMA ReportReturned ==
    ASSUME NEW read \in Seq(Int), Len(read) > 0, NEW out, NEW state,
           ds_input_parse(read) = Parsed(state)
    PROVE  ds_read_input(read, out) = [ret |-> "0", out |-> state]
<1>1. read # ReadFails /\ read # <<>>
  BY ReadFailsAssumption
<1>2. ds_input_parse(read).ok /\ ds_input_parse(read).out = state
  BY DEF Parsed
<1>3. QED
  BY <1>1, <1>2 DEF ds_read_input

\* Full reports: one byte or two, the data, and bytes that are not used.
Framed(r, n, first, at, data) == OfLength(r, n) /\ r[1] = first /\ Holds(r, at, data, 53)
LEMMA UsbFrame ==
    ASSUME NEW s \in ControllerState, NEW charge \in Charge
    PROVE  Framed(SentReport(s, charge, "usb"), 64, 1, 1, FullData(s, charge))
<1> DEFINE data == FullData(s, charge)
           head == <<1>>
           hd == head \o data
           r == hd \o Unused(10)
<1>1. OfLength(data, 53) /\ OfLength(Unused(10), 10)
  BY FullDataCarries, UnusedBytes, 10 \in Nat
<1>2. OfLength(head, 1)
  BY DEF OfLength
<1>3. SentReport(s, charge, "usb") = r
  BY DEF SentReport
<1>4. head[1] = 1
  OBVIOUS
<1> HIDE DEF data, head
<1>5. OfLength(hd, 54) /\ Holds(hd, 1, data, 53) /\ Holds(hd, 0, head, 1)
  BY <1>1, <1>2, 1 \in Nat, 53 \in Nat, 54 = 1 + 53, Joined
<1> HIDE DEF hd
<1>6. OfLength(r, 64) /\ Holds(r, 0, hd, 54)
  BY <1>1, <1>5, 54 \in Nat, 10 \in Nat, 64 = 54 + 10, Joined
<1> HIDE DEF r
<1>7. Holds(r, 1, data, 53) /\ Holds(r, 0, head, 1)
  BY <1>5, <1>6, 0 \in Nat, 1 \in Nat, 53 \in Nat, 54 \in Nat, 1 + 53 <= 54, 0 + 1 <= 54, HoldsOn
<1>8. r[1] = 1
  <2>1. r[0 + 1] = head[1]
    BY <1>7 DEF Holds
  <2>2. QED
    BY <1>4, <2>1
<1>9. QED
  BY <1>3, <1>6, <1>7, <1>8 DEF Framed, data

LEMMA BtFrame ==
    ASSUME NEW s \in ControllerState, NEW charge \in Charge
    PROVE  Framed(SentReport(s, charge, "bt"), 78, 49, 2, FullData(s, charge))
<1> DEFINE data == FullData(s, charge)
           head == <<49, 255>>
           hd == head \o data
           r == hd \o Unused(23)
<1>1. OfLength(data, 53) /\ OfLength(Unused(23), 23)
  BY FullDataCarries, UnusedBytes, 23 \in Nat
<1>2. OfLength(head, 2)
  BY DEF OfLength
<1>3. SentReport(s, charge, "bt") = r
  BY DEF SentReport
<1>4. head[1] = 49
  OBVIOUS
<1> HIDE DEF data, head
<1>5. OfLength(hd, 55) /\ Holds(hd, 2, data, 53) /\ Holds(hd, 0, head, 2)
  BY <1>1, <1>2, 2 \in Nat, 53 \in Nat, 55 = 2 + 53, Joined
<1> HIDE DEF hd
<1>6. OfLength(r, 78) /\ Holds(r, 0, hd, 55)
  BY <1>1, <1>5, 55 \in Nat, 23 \in Nat, 78 = 55 + 23, Joined
<1> HIDE DEF r
<1>7. Holds(r, 2, data, 53) /\ Holds(r, 0, head, 2)
  BY <1>5, <1>6, 0 \in Nat, 2 \in Nat, 53 \in Nat, 55 \in Nat, 2 + 53 <= 55, 0 + 2 <= 55, HoldsOn
<1>8. r[1] = 49
  <2>1. r[0 + 1] = head[1]
    BY <1>7 DEF Holds
  <2>2. QED
    BY <1>4, <2>1
<1>9. QED
  BY <1>3, <1>6, <1>7, <1>8 DEF Framed, data

LEMMA SkipShifts ==
    ASSUME NEW r, NEW n \in Nat, NEW first, NEW at \in 1 .. 2, NEW data,
           Framed(r, n, first, at, data), n >= 64
    PROVE  Shifted(Skip(r, at), data)
<1>1. Len(r) = n
  BY DEF Framed, OfLength
<1>2. ASSUME NEW i \in 0 .. 52 PROVE Skip(r, at)[i] = data[i + 1]
  <2>1. i \in 0 .. n - 1 - at /\ i + at + 1 = at + (i + 1) /\ i + 1 \in 1 .. 53
    OBVIOUS
  <2>2. Skip(r, at)[i] = r[i + at + 1]
    BY <1>1, <2>1 DEF Skip
  <2>3. r[at + (i + 1)] = data[i + 1]
    BY <2>1 DEF Framed, Holds
  <2>4. QED
    BY <2>1, <2>2, <2>3
<1>3. QED
  BY <1>2 DEF Shifted

\* A simple report.
SimpleReport(s) ==
    <<1, s.lx, s.ly, s.rx, s.ry, s.dpad + 16 * ButtonBits(s.pressed, FaceByte),
      ButtonBits(s.pressed, ShoulderByte), 248 + ButtonBits(s.pressed, CentreByte), s.l2, s.r2>>
LEMMA SimpleParsed ==
    ASSUME NEW s \in ControllerState
    PROVE  /\ SimpleReport(s) \in Seq(Int) /\ Len(SimpleReport(s)) = 10
           /\ ds_input_parse(SimpleReport(s)) = Parsed(Visible(s, "simple"))
<1> DEFINE f == s.dpad + 16 * ButtonBits(s.pressed, FaceByte)
           g == ButtonBits(s.pressed, ShoulderByte)
           h == 248 + ButtonBits(s.pressed, CentreByte)
           r == SimpleReport(s)
<1>1. f \in Byte /\ g \in Byte /\ h \in Byte
  BY ButtonsFit DEF ButtonBytes
<1>2. f % 16 = s.dpad
  <2>1. s.dpad \in 0 .. 15
    BY DEF ControllerState
  <2>2. QED
    BY <2>1, FaceRead
<1>3. r = <<1, s.lx, s.ly, s.rx, s.ry, f, g, h, s.l2, s.r2>>
  BY DEF SimpleReport
<1> HIDE DEF f, g, h
<1>4. /\ s.lx \in Byte /\ s.ly \in Byte /\ s.rx \in Byte /\ s.ry \in Byte
      /\ s.l2 \in Byte /\ s.r2 \in Byte
  BY DEF ControllerState
<1>5. \A b \in Byte : b \in Int
  BY DEF Byte
<1> HIDE DEF r
<1>6. r \in Seq(Int) /\ Len(r) = 10
  BY <1>1, <1>3, <1>4, <1>5
<1>7. /\ r[1] = 1 /\ r[2] = s.lx /\ r[3] = s.ly /\ r[4] = s.rx /\ r[5] = s.ry /\ r[6] = f
      /\ r[9] = s.l2 /\ r[10] = s.r2
  BY <1>3
<1> DEFINE d == Skip(r, 1)
<1>8. \A i \in 0 .. 8 : d[i] = r[i + 1 + 1]
  BY <1>6 DEF Skip
<1> HIDE DEF d
<1>9. /\ d[0] = s.lx /\ d[1] = s.ly /\ d[2] = s.rx /\ d[3] = s.ry /\ d[4] = f
      /\ d[7] = s.l2 /\ d[8] = s.r2
  BY <1>7, <1>8
<1>10. ParseSimple(d) = Visible(s, "simple")
  BY <1>2, <1>9 DEF ParseSimple, Visible
<1>11. ds_input_parse(r) = Parsed(ParseSimple(d))
  <2>1. Len(r) = 10 /\ ~(10 >= 78) /\ ~(10 >= 64) /\ 10 >= 10 /\ r[1] = 1
    BY <1>6, <1>7
  <2>2. QED
    BY <2>1, Zenon DEF ds_input_parse, d
<1>12. QED
  BY <1>6, <1>10, <1>11 DEF r

\* Every report of every state is read.
Received(s, charge, form) ==
    IF form = "simple" THEN Visible(s, form) ELSE ReadBack(s, charge)
LEMMA EveryReportRead ==
    ASSUME NEW s \in ControllerState, NEW charge \in Charge,
           NEW form \in {"usb", "bt", "simple"}, NEW out
    PROVE  ds_read_input(SentReport(s, charge, form), out)
                = [ret |-> "0", out |-> Received(s, charge, form)]
<1> DEFINE r == SentReport(s, charge, form)
           data == FullData(s, charge)
<1>1. \A d : Shifted(d, data) => ParseFull(d) = ReadBack(s, charge)
  BY FullDataCarries, FullReadBack
<1> HIDE DEF data
<1>2. r \in Seq(Int) /\ Len(r) > 0 /\ ds_input_parse(r) = Parsed(Received(s, charge, form))
  <2>1. CASE form = "usb"
    <3>1. Framed(r, 64, 1, 1, data)
      BY <2>1, UsbFrame DEF data
    <3> HIDE DEF r
    <3>2. r \in Seq(Int) /\ Len(r) = 64 /\ r[1] = 1
      BY <3>1 DEF Framed, OfLength
    <3>3. Shifted(Skip(r, 1), data)
      BY <3>1, 64 \in Nat, 1 \in 1 .. 2, 64 >= 64, SkipShifts
    <3>4. ParseFull(Skip(r, 1)) = ReadBack(s, charge)
      BY <1>1, <3>3
    <3>5. ds_input_parse(r) = Parsed(ParseFull(Skip(r, 1)))
      <4>1. ~(64 >= 78) /\ 64 >= 64
        OBVIOUS
      <4>2. QED
        BY <3>2, <4>1, Zenon DEF ds_input_parse
    <3>6. Received(s, charge, form) = ReadBack(s, charge)
      BY <2>1 DEF Received
    <3>7. QED
      BY <3>2, <3>4, <3>5, <3>6
  <2>2. CASE form = "bt"
    <3>1. Framed(r, 78, 49, 2, data)
      BY <2>2, BtFrame DEF data
    <3> HIDE DEF r
    <3>2. r \in Seq(Int) /\ Len(r) = 78 /\ r[1] = 49
      BY <3>1 DEF Framed, OfLength
    <3>3. Shifted(Skip(r, 2), data)
      BY <3>1, 78 \in Nat, 2 \in 1 .. 2, 78 >= 64, SkipShifts
    <3>4. ParseFull(Skip(r, 2)) = ReadBack(s, charge)
      BY <1>1, <3>3
    <3>5. ds_input_parse(r) = Parsed(ParseFull(Skip(r, 2)))
      <4>1. 78 >= 78
        OBVIOUS
      <4>2. QED
        BY <3>2, <4>1, Zenon DEF ds_input_parse
    <3>6. Received(s, charge, form) = ReadBack(s, charge)
      BY <2>2 DEF Received
    <3>7. QED
      BY <3>2, <3>4, <3>5, <3>6
  <2>3. CASE form = "simple"
    <3>1. r = SimpleReport(s)
      BY <2>3 DEF SentReport, SimpleReport
    <3>2. Received(s, charge, form) = Visible(s, "simple")
      BY <2>3 DEF Received
    <3> DEFINE q == SimpleReport(s)
    <3>3. q \in Seq(Int) /\ Len(q) = 10 /\ ds_input_parse(q) = Parsed(Visible(s, "simple"))
      BY SimpleParsed
    <3> HIDE DEF r, q
    <3>4. r = q
      BY <3>1 DEF q
    <3>5. r \in Seq(Int) /\ Len(r) > 0
      <4>1. q \in Seq(Int) /\ Len(q) = 10
        BY <3>3
      <4>2. Len(q) > 0
        BY <4>1
      <4>3. QED
        BY <3>4, <4>1, <4>2
    <3>6. ds_input_parse(r) = Parsed(Received(s, charge, form))
      BY <3>2, <3>3, <3>4, Zenon
    <3>7. QED
      BY <3>5, <3>6
  <2>4. QED
    BY <2>1, <2>2, <2>3
<1> HIDE DEF r
<1>3. ds_read_input(r, out) = [ret |-> "0", out |-> Received(s, charge, form)]
  BY <1>2, ReportReturned
<1>4. QED
  BY <1>3 DEF r

-----------------------------------------------------------------------------
\* The flags as Python sees them.
FlagBit(set, names, i) == IF names[i] \in set THEN 1 ELSE 0
FlagNames(k) ==
    IF k = 1 THEN {"square", "cross", "circle", "triangle", "l1", "r1", "l2_btn", "r2_btn"}
    ELSE {"create", "options", "ps", "touchpad_btn", "mute", "l3", "r3", "battery_charging"}
SetFlags(set, k) ==
    {f \in DOMAIN PythonMasks[k] :
        (FlagByte(set, FlagFields[k]) \div PythonMasks[k][f]) % 2 = 1}

LEMMA FlagSum ==
    ASSUME NEW set, NEW names
    PROVE  LET n == FlagByte(set, names)
           IN  /\ n % 2 = FlagBit(set, names, 1) /\ (n \div 2) % 2 = FlagBit(set, names, 2)
               /\ (n \div 4) % 2 = FlagBit(set, names, 3) /\ (n \div 8) % 2 = FlagBit(set, names, 4)
               /\ (n \div 16) % 2 = FlagBit(set, names, 5)
               /\ (n \div 32) % 2 = FlagBit(set, names, 6)
               /\ (n \div 64) % 2 = FlagBit(set, names, 7)
               /\ (n \div 128) % 2 = FlagBit(set, names, 8)
               /\ n \div 1 = n
<1> DEFINE n == FlagByte(set, names)
           bit(i) == FlagBit(set, names, i)
           Table(f) == f = [i \in 1 .. 9 |-> IF i = 9 THEN 0
                              ELSE (IF names[i] \in set THEN 1 ELSE 0) + 2 * f[i + 1]]
           c == [k \in 0 .. 7 |-> bit(k + 1)]
<1>1. PICK h : /\ h \in [0 .. 8 -> Nat] /\ h[8] = 0
               /\ \A k \in 0 .. 7 : h[k] = c[k] + 2 * h[k + 1]
  <2>1. c \in [0 .. 7 -> 0 .. 1]
    BY DEF FlagBit
  <2> HIDE DEF c
  <2>2. 8 \in Nat /\ 2 \in Nat /\ 8 - 1 = 7 /\ 2 - 1 = 1
    OBVIOUS
  <2>3. c \in [0 .. 8 - 1 -> 0 .. 2 - 1]
    BY <2>1, <2>2
  <2>4. \E h : /\ h \in [0 .. 8 -> Nat] /\ h[8] = 0
               /\ \A k \in 0 .. 8 - 1 : h[k] = c[k] + 2 * h[k + 1]
    BY <2>2, <2>3, UpperDigits
  <2>5. QED
    BY <2>2, <2>4
<1> DEFINE g == [i \in 1 .. 9 |-> h[i - 1]]
<1>2. g[9] = 0 /\ \A i \in 1 .. 8 : g[i] = (IF names[i] \in set THEN 1 ELSE 0) + 2 * g[i + 1]
  <2>1. ASSUME NEW i \in 1 .. 8
        PROVE  g[i] = (IF names[i] \in set THEN 1 ELSE 0) + 2 * g[i + 1]
    <3>1. i - 1 \in 0 .. 7 /\ (i - 1) + 1 = i /\ (i + 1) - 1 = i
      OBVIOUS
    <3>2. h[i - 1] = c[i - 1] + 2 * h[i]
      BY <1>1, <3>1
    <3>3. c[i - 1] = bit(i)
      BY <3>1
    <3>4. g[i] = h[i - 1] /\ g[i + 1] = h[i]
      BY <3>1
    <3>5. QED
      BY <3>2, <3>3, <3>4 DEF FlagBit
  <2>2. g[9] = 0
    BY <1>1
  <2> HIDE DEF g
  <2>3. QED
    BY <2>1, <2>2
<1>3. g = [i \in 1 .. 9 |-> g[i]]
  OBVIOUS
<1> HIDE DEF g
<1>4. Table(g)
  BY <1>2, <1>3
<1> DEFINE s == CHOOSE f : Table(f)
<1>5. Table(s)
  BY <1>4
<1>6. n = s[1]
  BY DEF FlagByte
<1> HIDE DEF s
<1>7. s[9] = 0 /\ \A i \in 1 .. 8 : s[i] = bit(i) + 2 * s[i + 1]
  BY <1>5 DEF FlagBit
<1>8. \A i \in 1 .. 8 : bit(i) \in 0 .. 1
  BY DEF FlagBit
<1> HIDE DEF bit, Table, n
<1>9. /\ s[8] = bit(8) /\ s[7] = bit(7) + 2 * s[8] /\ s[6] = bit(6) + 2 * s[7]
      /\ s[5] = bit(5) + 2 * s[6] /\ s[4] = bit(4) + 2 * s[5] /\ s[3] = bit(3) + 2 * s[4]
      /\ s[2] = bit(2) + 2 * s[3] /\ s[1] = bit(1) + 2 * s[2]
  BY <1>7, <1>8
<1>10. /\ bit(1) \in 0 .. 1 /\ bit(2) \in 0 .. 1 /\ bit(3) \in 0 .. 1 /\ bit(4) \in 0 .. 1
       /\ bit(5) \in 0 .. 1 /\ bit(6) \in 0 .. 1 /\ bit(7) \in 0 .. 1 /\ bit(8) \in 0 .. 1
  BY <1>8
<1>11. Bits8(n, bit(8), bit(7), bit(6), bit(5), bit(4), bit(3), bit(2), bit(1))
  BY <1>6, <1>9, <1>10 DEF Bits8
<1>12. /\ n \in Byte /\ n % 2 = bit(1) /\ (n \div 2) % 2 = bit(2) /\ (n \div 4) % 2 = bit(3)
       /\ (n \div 8) % 2 = bit(4) /\ (n \div 16) % 2 = bit(5) /\ (n \div 32) % 2 = bit(6)
       /\ (n \div 64) % 2 = bit(7) /\ (n \div 128) % 2 = bit(8)
  BY <1>11, BitsOfEight
<1>13. n \div 1 = n
  BY <1>12 DEF Byte
<1>14. QED
  BY <1>12, <1>13 DEF n, bit

LEMMA FirstFlags ==
    ASSUME NEW set
    PROVE  SetFlags(set, 1) = set \cap FlagNames(1)
<1> DEFINE names == FlagFields[1]
           n == FlagByte(set, names)
<1>1. \A i \in 1 .. 8 : names[i] \in set <=> FlagBit(set, names, i) = 1
  BY DEF FlagBit
<1>2. /\ n % 2 = FlagBit(set, names, 1) /\ (n \div 2) % 2 = FlagBit(set, names, 2)
      /\ (n \div 4) % 2 = FlagBit(set, names, 3) /\ (n \div 8) % 2 = FlagBit(set, names, 4)
      /\ (n \div 16) % 2 = FlagBit(set, names, 5) /\ (n \div 32) % 2 = FlagBit(set, names, 6)
      /\ (n \div 64) % 2 = FlagBit(set, names, 7) /\ (n \div 128) % 2 = FlagBit(set, names, 8)
      /\ n \div 1 = n
  BY FlagSum
<1>3. /\ names[1] = "square" /\ names[2] = "cross" /\ names[3] = "circle" /\ names[4] = "triangle"
      /\ names[5] = "l1" /\ names[6] = "r1" /\ names[7] = "l2_btn" /\ names[8] = "r2_btn"
  BY DEF FlagFields
<1> DEFINE M == PythonMasks[1]
<1>4. /\ DOMAIN M = FlagNames(1)
      /\ M["square"] = 1 /\ M["cross"] = 2 /\ M["circle"] = 4 /\ M["triangle"] = 8
      /\ M["l1"] = 16 /\ M["r1"] = 32 /\ M["l2_btn"] = 64 /\ M["r2_btn"] = 128
  BY DEF PythonMasks, FlagNames
<1>5. SetFlags(set, 1) = {f \in DOMAIN M : (n \div M[f]) % 2 = 1}
  BY DEF SetFlags
<1> HIDE DEF names, n, M
<1>6. ASSUME NEW f \in FlagNames(1)
      PROVE  (n \div M[f]) % 2 = 1 <=> f \in set
  <2>1. CASE f = "square"
    BY <1>1, <1>2, <1>3, <1>4, <2>1
  <2>2. CASE f = "cross"
    BY <1>1, <1>2, <1>3, <1>4, <2>2
  <2>3. CASE f = "circle"
    BY <1>1, <1>2, <1>3, <1>4, <2>3
  <2>4. CASE f = "triangle"
    BY <1>1, <1>2, <1>3, <1>4, <2>4
  <2>5. CASE f = "l1"
    BY <1>1, <1>2, <1>3, <1>4, <2>5
  <2>6. CASE f = "r1"
    BY <1>1, <1>2, <1>3, <1>4, <2>6
  <2>7. CASE f = "l2_btn"
    BY <1>1, <1>2, <1>3, <1>4, <2>7
  <2>8. CASE f = "r2_btn"
    BY <1>1, <1>2, <1>3, <1>4, <2>8
  <2>9. QED
    BY <2>1, <2>2, <2>3, <2>4, <2>5, <2>6, <2>7, <2>8 DEF FlagNames
<1>7. \A f : f \in SetFlags(set, 1) <=> f \in FlagNames(1) /\ f \in set
  BY <1>4, <1>5, <1>6, Zenon
<1>8. QED
  BY <1>7, Zenon

LEMMA SecondFlags ==
    ASSUME NEW set
    PROVE  SetFlags(set, 2) = set \cap FlagNames(2)
<1> DEFINE names == FlagFields[2]
           n == FlagByte(set, names)
<1>1. \A i \in 1 .. 8 : names[i] \in set <=> FlagBit(set, names, i) = 1
  BY DEF FlagBit
<1>2. /\ n % 2 = FlagBit(set, names, 1) /\ (n \div 2) % 2 = FlagBit(set, names, 2)
      /\ (n \div 4) % 2 = FlagBit(set, names, 3) /\ (n \div 8) % 2 = FlagBit(set, names, 4)
      /\ (n \div 16) % 2 = FlagBit(set, names, 5) /\ (n \div 32) % 2 = FlagBit(set, names, 6)
      /\ (n \div 64) % 2 = FlagBit(set, names, 7) /\ (n \div 128) % 2 = FlagBit(set, names, 8)
      /\ n \div 1 = n
  BY FlagSum
<1>3. /\ names[1] = "create" /\ names[2] = "options" /\ names[3] = "ps" /\ names[4] = "touchpad_btn"
      /\ names[5] = "mute" /\ names[6] = "l3" /\ names[7] = "r3" /\ names[8] = "battery_charging"
  BY DEF FlagFields
<1> DEFINE M == PythonMasks[2]
<1>4. /\ DOMAIN M = FlagNames(2)
      /\ M["create"] = 1 /\ M["options"] = 2 /\ M["ps"] = 4 /\ M["touchpad_btn"] = 8
      /\ M["mute"] = 16 /\ M["l3"] = 32 /\ M["r3"] = 64 /\ M["battery_charging"] = 128
  BY DEF PythonMasks, FlagNames
<1>5. SetFlags(set, 2) = {f \in DOMAIN M : (n \div M[f]) % 2 = 1}
  BY DEF SetFlags
<1> HIDE DEF names, n, M
<1>6. ASSUME NEW f \in FlagNames(2)
      PROVE  (n \div M[f]) % 2 = 1 <=> f \in set
  <2>1. CASE f = "create"
    BY <1>1, <1>2, <1>3, <1>4, <2>1
  <2>2. CASE f = "options"
    BY <1>1, <1>2, <1>3, <1>4, <2>2
  <2>3. CASE f = "ps"
    BY <1>1, <1>2, <1>3, <1>4, <2>3
  <2>4. CASE f = "touchpad_btn"
    BY <1>1, <1>2, <1>3, <1>4, <2>4
  <2>5. CASE f = "mute"
    BY <1>1, <1>2, <1>3, <1>4, <2>5
  <2>6. CASE f = "l3"
    BY <1>1, <1>2, <1>3, <1>4, <2>6
  <2>7. CASE f = "r3"
    BY <1>1, <1>2, <1>3, <1>4, <2>7
  <2>8. CASE f = "battery_charging"
    BY <1>1, <1>2, <1>3, <1>4, <2>8
  <2>9. QED
    BY <2>1, <2>2, <2>3, <2>4, <2>5, <2>6, <2>7, <2>8 DEF FlagNames
<1>7. \A f : f \in SetFlags(set, 2) <=> f \in FlagNames(2) /\ f \in set
  BY <1>4, <1>5, <1>6, Zenon
<1>8. QED
  BY <1>7, Zenon

LEMMA PythonSees ==
    ASSUME NEW state, state.pressed \in SUBSET Buttons, state.battery_charging \in BOOLEAN
    PROVE  InPython(state) = state.pressed
                \cup {f \in {"battery_charging"} : state.battery_charging}
<1> DEFINE set == state.pressed \cup (IF state.battery_charging THEN {"battery_charging"} ELSE {})
<1>1. InPython(state) = UNION {SetFlags(set, k) : k \in 1 .. 2}
  BY Zenon DEF InPython, SetFlags
<1>2. set \subseteq FlagNames(1) \cup FlagNames(2)
  BY DEF Buttons, FlagNames
<1>3. set = state.pressed \cup {f \in {"battery_charging"} : state.battery_charging}
  OBVIOUS
<1> HIDE DEF set
<1>4. UNION {SetFlags(set, k) : k \in 1 .. 2} = SetFlags(set, 1) \cup SetFlags(set, 2)
  <2>1. 1 .. 2 = {1, 2}
    OBVIOUS
  <2>2. QED
    BY <2>1, Zenon
<1>5. SetFlags(set, 1) = set \cap FlagNames(1) /\ SetFlags(set, 2) = set \cap FlagNames(2)
  <2>1. \A t : SetFlags(t, 1) = t \cap FlagNames(1)
    BY FirstFlags, Zenon
  <2>2. \A t : SetFlags(t, 2) = t \cap FlagNames(2)
    BY SecondFlags, Zenon
  <2>3. QED
    BY <2>1, <2>2, Zenon
<1>6. InPython(state) = set
  BY <1>1, <1>2, <1>4, <1>5
<1>7. QED
  BY <1>3, <1>6

-----------------------------------------------------------------------------
\* The states that are enumerated are among those a controller may be in.
LEMMA TypicalFits == Typical \in ControllerState
<1>1. <<513, 1027>> \in Unsigned \X Unsigned
  <2>1. 513 \in Unsigned /\ 1027 \in Unsigned
    BY DEF Unsigned
  <2>2. QED
    BY <2>1
<1>2. <<1541, -2, 2055>> \in [1 .. 3 -> Int16] /\ <<-3, 2569, -32768>> \in [1 .. 3 -> Int16]
  BY DEF Int16
<1>3. Touching(TRUE, 9, 1919, 1079) \in Fingers /\ Touching(FALSE, 10, 258, 17) \in Fingers
  BY DEF Touching, Fingers, Coordinate
<1>4. {"cross", "l3", "ps"} \in SUBSET Buttons
  BY DEF Buttons
<1> DEFINE t == <<513, 1027>>
           g == <<1541, -2, 2055>>
           a == <<-3, 2569, -32768>>
           u == Touching(TRUE, 9, 1919, 1079)
           w == Touching(FALSE, 10, 258, 17)
           p == {"cross", "l3", "ps"}
<1>5. Typical = [lx |-> 1, ly |-> 2, rx |-> 3, ry |-> 4, l2 |-> 5, r2 |-> 6, seq |-> 7, dpad |-> 3,
                 pressed |-> p, timestamp |-> t, gyro |-> g, accel |-> a, touch |-> <<u, w>>,
                 battery_level |-> 50, battery_charging |-> FALSE]
  BY DEF Typical
<1> HIDE DEF t, g, a, u, w, p
<1>6. /\ t \in Unsigned \X Unsigned /\ g \in [1 .. 3 -> Int16] /\ a \in [1 .. 3 -> Int16]
      /\ u \in Fingers /\ w \in Fingers /\ p \in SUBSET Buttons
  <2>1. t \in Unsigned \X Unsigned
    BY <1>1 DEF t
  <2>2. g \in [1 .. 3 -> Int16]
    BY <1>2 DEF g
  <2>3. a \in [1 .. 3 -> Int16]
    BY <1>2 DEF a
  <2>4. u \in Fingers /\ w \in Fingers
    BY <1>3 DEF u, w
  <2>5. p \in SUBSET Buttons
    BY <1>4 DEF p
  <2>6. QED
    BY <2>1, <2>2, <2>3, <2>4, <2>5
<1>7. QED
  BY <1>5, <1>6 DEF ControllerState, Byte

VectorsOf(S) == S \X S \X S
LEMMA VectorFits ==
    ASSUME NEW v \in VectorsOf(Signed)
    PROVE  v \in [1 .. 3 -> Int16]
<1>1. Signed \subseteq Int16
  BY DEF Signed, Int16
<1>2. v = <<v[1], v[2], v[3]>> /\ v[1] \in Signed /\ v[2] \in Signed /\ v[3] \in Signed
  BY DEF VectorsOf
<1>3. QED
  BY <1>1, <1>2

FieldOf(field, v) ==
    /\ field \in {"lx", "ly", "rx", "ry", "l2", "r2", "seq"} => v \in Byte
    /\ field = "dpad" => v \in 0 .. 15
    /\ field = "pressed" => v \in SUBSET Buttons
    /\ field = "timestamp" => v \in Unsigned \X Unsigned
    /\ field \in {"gyro", "accel"} => v \in [1 .. 3 -> Int16]
    /\ field = "touch" => v \in Fingers \X Fingers
SentFields ==
    {"lx", "ly", "rx", "ry", "l2", "r2", "seq", "dpad", "pressed", "timestamp", "gyro", "accel",
     "touch"}
LEMMA ListedButtons == ToSet(FaceByte \o ShoulderByte \o CentreByte) \subseteq Buttons
<1> DEFINE a == FaceByte
           b == ShoulderByte
           c == CentreByte
<1>1. a \in Seq(Buttons) /\ b \in Seq(Buttons) /\ c \in Seq(Buttons)
  BY DEF FaceByte, ShoulderByte, CentreByte, Buttons
<1> HIDE DEF a, b, c
<1>2. a \o b \o c \in Seq(Buttons)
  BY <1>1
<1> DEFINE w == a \o b \o c
<1> HIDE DEF w
<1>3. \A i \in DOMAIN w : w[i] \in Buttons
  BY <1>2 DEF w
<1>4. ToSet(w) \subseteq Buttons
  BY <1>3 DEF ToSet
<1>5. QED
  BY <1>4 DEF w, a, b, c

LEMMA ValuesFit ==
    ASSUME NEW field \in DOMAIN Values, NEW v \in Values[field]
    PROVE  field \in SentFields /\ FieldOf(field, v)
<1>1. field \in SentFields
  BY DEF Values, SentFields
<1>2. CASE field \in {"lx", "ly", "rx", "ry", "l2", "r2", "seq"}
  <2>1. v \in {0, 128, 255}
    BY <1>2 DEF Values
  <2>2. v \in Byte
    BY <2>1 DEF Byte
  <2>3. QED
    BY <1>1, <1>2, <2>2 DEF FieldOf
<1>3. CASE field = "dpad"
  <2>1. v \in 0 .. 8
    BY <1>3 DEF Values
  <2>2. v \in 0 .. 15
    BY <2>1
  <2>3. QED
    BY <1>1, <1>3, <2>2 DEF FieldOf
<1>4. CASE field = "pressed"
  <2>1. v \in {{b} : b \in ToSet(FaceByte \o ShoulderByte \o CentreByte)} \cup {{}}
    BY <1>4 DEF Values
  <2>2. ToSet(FaceByte \o ShoulderByte \o CentreByte) \subseteq Buttons
    BY ListedButtons
  <2>3. v \in SUBSET Buttons
    BY <2>1, <2>2
  <2>4. QED
    BY <1>1, <1>4, <2>3 DEF FieldOf
<1>5. CASE field = "timestamp"
  <2>1. v \in Half \X Half
    BY <1>5 DEF Values
  <2>2. Half \subseteq Unsigned
    BY DEF Half, Unsigned
  <2>3. v \in Unsigned \X Unsigned
    BY <2>1, <2>2
  <2>4. QED
    BY <1>1, <1>5, <2>3 DEF FieldOf
<1>6. CASE field \in {"gyro", "accel"}
  <2>1. v \in VectorsOf(Signed)
    BY <1>6 DEF Values, VectorsOf
  <2>2. QED
    BY <1>1, <1>6, <2>1, VectorFits DEF FieldOf
<1>7. CASE field = "touch"
  <2>1. v \in Finger \X {Typical.touch[2]} \cup {Typical.touch[1]} \X Finger
    BY <1>7 DEF Values
  <2>2. Finger \subseteq Fingers
    BY DEF Finger, Fingers, Touching, Coordinate
  <2>3. Typical.touch[1] \in Fingers /\ Typical.touch[2] \in Fingers
    BY TypicalFits DEF ControllerState
  <2>4. v \in Fingers \X Fingers
    BY <2>1, <2>2, <2>3
  <2>5. QED
    BY <1>1, <1>7, <2>4 DEF FieldOf
<1>8. QED
  BY <1>1, <1>2, <1>3, <1>4, <1>5, <1>6, <1>7 DEF SentFields

LEMMA ChangedFits ==
    ASSUME NEW t \in ControllerState, NEW field \in SentFields, NEW v, FieldOf(field, v)
    PROVE  /\ [t EXCEPT ![field] = v] \in ControllerState
           /\ [t EXCEPT ![field] = v].battery_level = t.battery_level
           /\ [t EXCEPT ![field] = v].battery_charging = t.battery_charging
<1>1. CASE field = "lx"
  BY <1>1 DEF FieldOf, ControllerState
<1>2. CASE field = "ly"
  BY <1>2 DEF FieldOf, ControllerState
<1>3. CASE field = "rx"
  BY <1>3 DEF FieldOf, ControllerState
<1>4. CASE field = "ry"
  BY <1>4 DEF FieldOf, ControllerState
<1>5. CASE field = "l2"
  BY <1>5 DEF FieldOf, ControllerState
<1>6. CASE field = "r2"
  BY <1>6 DEF FieldOf, ControllerState
<1>7. CASE field = "seq"
  BY <1>7 DEF FieldOf, ControllerState
<1>8. CASE field = "dpad"
  BY <1>8 DEF FieldOf, ControllerState
<1>9. CASE field = "pressed"
  BY <1>9 DEF FieldOf, ControllerState
<1>10. CASE field = "timestamp"
  BY <1>10 DEF FieldOf, ControllerState
<1>11. CASE field = "gyro"
  BY <1>11 DEF FieldOf, ControllerState
<1>12. CASE field = "accel"
  BY <1>12 DEF FieldOf, ControllerState
<1>13. CASE field = "touch"
  BY <1>13 DEF FieldOf, ControllerState
<1>14. QED
  BY <1>1, <1>2, <1>3, <1>4, <1>5, <1>6, <1>7, <1>8, <1>9, <1>10, <1>11, <1>12, <1>13 DEF SentFields

-----------------------------------------------------------------------------
\* What InputReadsBack says of one reading.
InputRead(g, state) ==
    /\ g.ret = "0" /\ g.out = state
    /\ InPython(g.out) = state.pressed
            \cup {f \in {"battery_charging"} : state.battery_charging}

\* Of every state, with every charge and in every form of report, ds_read_input
\* returns what the report has room for, and Python sees the same flags.
THEOREM EveryStateReadsBack ==
    ASSUME NEW s \in ControllerState, NEW charge \in Charge,
           NEW form \in {"usb", "bt", "simple"}, NEW out
    PROVE  InputRead(ds_read_input(SentReport(s, charge, form), out), Received(s, charge, form))
<1> DEFINE r == Received(s, charge, form)
           g == ds_read_input(SentReport(s, charge, form), out)
<1>1. g = [ret |-> "0", out |-> r]
  BY EveryReportRead
<1>2. r.pressed \in SUBSET Buttons /\ r.battery_charging \in BOOLEAN
  <2>1. CASE form = "simple"
    <3>1. r.pressed = {} /\ r.battery_charging = FALSE
      BY <2>1 DEF Received, Visible, ZeroState
    <3>2. QED
      BY <3>1
  <2>2. CASE form # "simple"
    <3>1. s.pressed \in SUBSET Buttons
      BY DEF ControllerState
    <3>2. r.pressed = s.pressed /\ r.battery_charging = (charge.status \in {1, 2})
      BY <2>2 DEF Received, ReadBack, ControllerState
    <3>3. QED
      BY <3>1, <3>2
  <2>3. QED
    BY <2>1, <2>2
<1> HIDE DEF r, g
<1>3. InPython(r) = r.pressed \cup {f \in {"battery_charging"} : r.battery_charging}
  BY <1>2, PythonSees
<1>4. g.ret = "0" /\ g.out = r
  BY <1>1
<1>5. QED
  BY <1>3, <1>4, Zenon DEF InputRead, r, g

LEMMA BatteryKept ==
    ASSUME NEW s \in ControllerState, s.battery_level = 50, s.battery_charging = FALSE,
           NEW form \in {"usb", "bt", "simple"}
    PROVE  Received(s, [level |-> 5, status |-> 0], form) = Visible(s, form)
<1> DEFINE charge == [level |-> 5, status |-> 0]
<1>1. ReadBack(s, charge) = s
  <2>1. ~(charge.level > 10) /\ 10 * charge.level = 50 /\ (charge.status \in {1, 2}) = FALSE
    OBVIOUS
  <2> HIDE DEF charge
  <2>2. ReadBack(s, charge) = [s EXCEPT !.battery_level = 50, !.battery_charging = FALSE]
    BY <2>1 DEF ReadBack
  <2>3. QED
    BY <2>2 DEF ControllerState
<1> HIDE DEF charge
<1>2. Received(s, charge, form) = Visible(s, form)
  BY <1>1 DEF Received, Visible
<1>3. QED
  BY <1>2 DEF charge

\* The five reads that bring no report.
OtherReads ==
    {ReadFails, <<>>, <<1>> \o Unused(8), <<49>> \o Unused(76), <<5>> \o Unused(77)}
LEMMA OthersRejected ==
    ASSUME NEW read \in OtherReads, NEW out
    PROVE  ds_read_input(read, out).ret # "0" /\ ds_read_input(read, out).out = out
<1> DEFINE Refused == ds_read_input(read, out).ret # "0" /\ ds_read_input(read, out).out = out
<1>1. CASE read = ReadFails \/ read = <<>>
  BY <1>1 DEF ds_read_input
<1>2. ASSUME ~ds_input_parse(read).ok PROVE Refused
  BY <1>2 DEF ds_read_input
<1>3. ASSUME NEW n \in Nat, NEW first \in Int, read = <<first>> \o Unused(n)
      PROVE  Len(read) = n + 1 /\ read[1] = first
  <2> DEFINE head == <<first>>
             tail == Unused(n)
             w == head \o tail
  <2>1. OfLength(head, 1) /\ head[1] = first
    BY DEF OfLength
  <2>2. OfLength(tail, n)
    BY UnusedBytes
  <2> HIDE DEF head, tail
  <2>3. OfLength(w, n + 1) /\ Holds(w, 0, head, 1)
    BY <2>1, <2>2, 1 \in Nat, n + 1 = 1 + n, Joined
  <2>4. read = w
    BY <1>3 DEF w, head, tail
  <2> HIDE DEF w
  <2>5. Len(w) = n + 1
    BY <2>3 DEF OfLength
  <2>6. w[1] = first
    <3>1. w[0 + 1] = head[1]
      BY <2>3 DEF Holds
    <3>2. QED
      BY <2>1, <3>1
  <2>7. QED
    BY <2>4, <2>5, <2>6
<1>4. CASE read = <<1>> \o Unused(8)
  <2>1. Len(read) = 9
    BY <1>3, <1>4, 8 \in Nat, 1 \in Int, 8 + 1 = 9
  <2>2. ds_input_parse(read) = Rejected
    BY <2>1 DEF ds_input_parse
  <2>3. QED
    BY <1>2, <2>2 DEF Rejected
<1>5. CASE read = <<49>> \o Unused(76)
  <2>1. Len(read) = 77 /\ read[1] = 49
    BY <1>3, <1>5, 76 \in Nat, 49 \in Int, 76 + 1 = 77
  <2>2. ds_input_parse(read) = Rejected
    BY <2>1 DEF ds_input_parse
  <2>3. QED
    BY <1>2, <2>2 DEF Rejected
<1>6. CASE read = <<5>> \o Unused(77)
  <2>1. Len(read) = 78 /\ read[1] = 5
    BY <1>3, <1>6, 77 \in Nat, 5 \in Int, 77 + 1 = 78
  <2>2. ds_input_parse(read) = Rejected
    BY <2>1 DEF ds_input_parse
  <2>3. QED
    BY <1>2, <2>2 DEF Rejected
<1>7. QED
  BY <1>1, <1>4, <1>5, <1>6 DEF OtherReads

\* ds_read_input returns what the controller sent, and a read without a report
\* leaves the caller's state alone.
THEOREM InputReadsBackCorrect == Spec => []InputReadsBack
<1>1. Init => InputReadsBack
  BY DEF Init, InputReadsBack, Is
<1>2. InputReadsBack /\ [Next]_vars => InputReadsBack'
  <2> SUFFICES ASSUME InputReadsBack, [Next]_vars PROVE InputReadsBack'
    OBVIOUS
  <2>0. ASSUME given'.kind = "input", InputRead(got', given'.state) PROVE InputReadsBack'
    BY <2>0 DEF InputReadsBack, InputRead, Is
  <2>1. CASE ReadState
    <3>1. PICK field \in DOMAIN Values, form \in {"usb", "bt", "simple"} :
          \E v \in Values[field] :
            Convert([kind |-> "input", state |-> Visible([Typical EXCEPT ![field] = v], form)],
                    ds_read_input(SentReport([Typical EXCEPT ![field] = v],
                                             [level |-> 5, status |-> 0], form), ZeroState))
      BY <2>1 DEF ReadState
    <3>2. PICK v \in Values[field] :
            Convert([kind |-> "input", state |-> Visible([Typical EXCEPT ![field] = v], form)],
                    ds_read_input(SentReport([Typical EXCEPT ![field] = v],
                                             [level |-> 5, status |-> 0], form), ZeroState))
      BY <3>1
    <3> DEFINE s == [Typical EXCEPT ![field] = v]
               charge == [level |-> 5, status |-> 0]
    <3>3. s \in ControllerState /\ s.battery_level = 50 /\ s.battery_charging = FALSE
      <4>1. Typical.battery_level = 50 /\ Typical.battery_charging = FALSE
        BY DEF Typical
      <4>2. QED
        BY <4>1, TypicalFits, ValuesFit, ChangedFits
    <3>4. charge \in Charge
      BY DEF Charge
    <3>5. /\ given'.kind = "input" /\ given'.state = Visible(s, form)
          /\ got' = ds_read_input(SentReport(s, charge, form), ZeroState)
      BY <3>2 DEF Convert
    <3> HIDE DEF s
    <3>6. Received(s, charge, form) = Visible(s, form)
      BY <3>3, BatteryKept
    <3> HIDE DEF charge
    <3>7. InputRead(ds_read_input(SentReport(s, charge, form), ZeroState),
                    Received(s, charge, form))
      BY <3>3, <3>4, EveryStateReadsBack
    <3>8. InputRead(got', given'.state)
      BY <3>5, <3>6, <3>7
    <3>9. QED
      BY <2>0, <3>5, <3>8
  <2>2. CASE ReadBattery
    <3>1. PICK level \in 0 .. 10, status \in {0, 1, 2, 10, 11, 15}, form \in {"usb", "bt"} :
            Convert([kind |-> "input",
                     state |-> [Typical EXCEPT !.battery_level = 10 * level,
                                               !.battery_charging = status \in {1, 2}]],
                    ds_read_input(SentReport(Typical, [level |-> level, status |-> status], form),
                                  ZeroState))
      BY <2>2 DEF ReadBattery
    <3> DEFINE charge == [level |-> level, status |-> status]
    <3>2. charge \in Charge
      BY DEF Charge
    <3>3. form \in {"usb", "bt", "simple"} /\ form # "simple"
      OBVIOUS
    <3>4. Received(Typical, charge, form)
            = [Typical EXCEPT !.battery_level = 10 * level, !.battery_charging = status \in {1, 2}]
      <4>1. charge.level = level /\ charge.status = status /\ ~(level > 10)
        OBVIOUS
      <4> HIDE DEF charge
      <4>2. QED
        BY <3>3, <4>1 DEF Received, ReadBack
    <3>5. /\ given'.kind = "input" /\ given'.state = Received(Typical, charge, form)
          /\ got' = ds_read_input(SentReport(Typical, charge, form), ZeroState)
      BY <3>1, <3>4 DEF Convert
    <3> HIDE DEF charge
    <3>6. InputRead(ds_read_input(SentReport(Typical, charge, form), ZeroState),
                    Received(Typical, charge, form))
      BY <3>2, <3>3, TypicalFits, EveryStateReadsBack
    <3>7. InputRead(got', given'.state)
      BY <3>5, <3>6
    <3>8. QED
      BY <2>0, <3>5, <3>7
  <2>3. CASE ReadOther
    <3>1. PICK read \in OtherReads :
            Convert([kind |-> "no input", before |-> Typical], ds_read_input(read, Typical))
      BY <2>3 DEF ReadOther, OtherReads
    <3>2. ds_read_input(read, Typical).ret # "0" /\ ds_read_input(read, Typical).out = Typical
      BY OthersRejected
    <3>3. given'.kind = "no input" /\ given'.before = Typical /\ got' = ds_read_input(read, Typical)
      BY <3>1 DEF Convert
    <3>4. QED
      BY <3>2, <3>3 DEF InputReadsBack, Is
  <2>4. CASE Next /\ ~ReadState /\ ~ReadBattery /\ ~ReadOther
    BY <2>4, OneConversion DEF Converted, InputReadsBack, Is
  <2>5. CASE UNCHANGED vars
    BY <2>5 DEF vars, InputReadsBack, Is
  <2>6. QED
    BY <2>1, <2>2, <2>3, <2>4, <2>5
<1>3. QED
  BY <1>1, <1>2, PTL DEF Spec

-----------------------------------------------------------------------------
\* Numbers made ints and longs keep their low byte, and small ones are kept whole.

ColourCount == 65536 * 256
LEMMA WidthOfColour == ColourCount \in Nat \ {0} /\ ColourCount \in Nat /\ ColourCount = 256 * 65536
BY SMT DEF ColourCount
LEMMA ColourCountNatural == ColourCount \in Nat
BY SMT DEF ColourCount
\* n is so many times d.
Divides(d, n) == n % d = 0
IsTimes(n, d) == \E k \in Nat \ {0} : n = d * k
LEMMA Divided ==
    ASSUME NEW n \in Nat \ {0}, NEW d \in Nat \ {0}, Divides(d, n)
    PROVE  IsTimes(n, d)
<1> DEFINE k == n \div d
<1>1. k \in Int /\ n = (n \div d) * d + (n % d)
  OBVIOUS
<1>2. n = k * d + (n % d) /\ n % d = 0
  BY <1>1 DEF Divides
<1> HIDE DEF k
<1>3. n = k * d
  BY <1>1, <1>2
<1>4. k > 0
  BY <1>1, <1>3
<1>5. n = d * k
  BY <1>1, <1>3
<1>6. QED
  BY <1>1, <1>4, <1>5 DEF IsTimes
LEMMA Widths ==
    \E q, w \in Nat \ {0} :
        /\ IntHalf = 256 * q /\ LongHalf = 256 * w
        /\ ColourCount <= IntHalf /\ IntHalf <= LongHalf
<1>0. ColourCount \in Nat \ {0} /\ ColourCount = 256 * 65536
  BY WidthOfColour
<1>1. IntHalf \in Nat \ {0} /\ IntHalf % ColourCount = 0
  <2>1. 2 ^ 24 = ColourCount
    BY SMT DEF ColourCount
  <2>2. QED
    BY <2>1, WidthAssumption, Zenon
<1>2. LongHalf \in Nat \ {0} /\ LongHalf % IntHalf = 0
  BY WidthAssumption, Zenon
<1>4. PICK c \in Nat \ {0} : IntHalf = ColourCount * c
  <2>1. Divides(ColourCount, IntHalf)
    BY <1>1 DEF Divides
  <2>2. IsTimes(IntHalf, ColourCount)
    BY <1>0, <1>1, <2>1, Divided
  <2>3. QED
    BY <2>2 DEF IsTimes
<1>5. PICK k \in Nat \ {0} : LongHalf = IntHalf * k
  BY <1>1, <1>2, Divided DEF Divides, IsTimes
<1>6. ASSUME NEW a \in Nat \ {0}, NEW b \in Nat \ {0}
      PROVE  a * b \in Nat \ {0} /\ a <= a * b
  OBVIOUS
<1>7. \A a, b, d \in Nat : (a * b) * d = a * (b * d)
  OBVIOUS
<1> HIDE DEF ColourCount
<1>8. PICK q \in Nat \ {0} : IntHalf = 256 * q
  <2>1. IntHalf = 256 * (65536 * c) /\ 65536 * c \in Nat \ {0}
    BY <1>0, <1>4
  <2>2. QED
    BY <2>1
<1>9. LongHalf = 256 * (q * k) /\ q * k \in Nat \ {0}
  BY <1>5, <1>6, <1>7, <1>8
<1>10. ColourCount <= IntHalf /\ IntHalf <= LongHalf
  BY <1>0, <1>1, <1>4, <1>5, <1>6
<1>11. QED
  BY <1>8, <1>9, <1>10

\* A remainder by whole bytes differs from its number by whole bytes.
LEMMA WholeBytes ==
    ASSUME NEW m \in Int, NEW d \in Nat \ {0}, NEW v \in Nat \ {0}, d = 256 * v
    PROVE  \E s \in Int : m % d = m - 256 * s
<1> DEFINE t == m \div d
<1>1. t \in Int
  OBVIOUS
<1>2. m = (m \div d) * d + (m % d)
  BY Z3
<1>3. m % d \in Int
  BY Z3
<1>4. m = t * d + (m % d)
  BY <1>2
<1> HIDE DEF t
<1>5. v * t \in Int /\ t * d = 256 * (v * t)
  BY <1>1
<1> DEFINE r == m % d
<1>6. r \in Int /\ m = 256 * (v * t) + r
  BY <1>3, <1>4, <1>5
<1> HIDE DEF r
<1>7. \E s \in Int : r = m - 256 * s
  BY <1>5, <1>6
<1>8. QED
  BY <1>7 DEF r

LEMMA LowByte ==
    ASSUME NEW n \in Int, IsLong(n)
    PROVE  U8(IntOf(n)) = U8(n) /\ U8(strtoul(n)) = U8(n)
<1>0. PICK q, w \in Nat \ {0} :
        /\ IntHalf = 256 * q /\ LongHalf = 256 * w
        /\ ColourCount <= IntHalf /\ IntHalf <= LongHalf
  BY Widths
<1>1. U8(IntOf(n)) = U8(n)
  <2> DEFINE d == 2 * IntHalf
             v == 2 * q
             m == n + IntHalf
             r == m % d
  <2>1. d \in Nat \ {0} /\ v \in Nat \ {0} /\ d = 256 * v /\ m \in Int
    BY <1>0
  <2> HIDE DEF d, v, m
  <2>2. PICK s \in Int : r = m - 256 * s
    BY <2>1, WholeBytes
  <2>3. IntOf(n) = r - IntHalf
    BY DEF IntOf, IntCut, strtol, d, m
  <2> HIDE DEF r
  <2>4. IntOf(n) = n - 256 * s
    BY <1>0, <2>2, <2>3 DEF m
  <2>5. QED
    BY <2>4 DEF U8
<1>2. U8(strtoul(n)) = U8(n)
  <2> DEFINE d == 2 * LongHalf
             v == 2 * w
  <2>1. d \in Nat \ {0} /\ v \in Nat \ {0} /\ d = 256 * v
    BY <1>0
  <2>2. strtoul(n) = n % d
    BY <1>0 DEF strtoul, IsLong
  <2> HIDE DEF d, v
  <2>3. PICK s \in Int : n % d = n - 256 * s
    BY <2>1, WholeBytes
  <2>4. QED
    BY <2>2, <2>3 DEF U8
<1>3. QED
  BY <1>1, <1>2

LEMMA IntsOf == \A n \in Int : IntOf(n) \in Int /\ strtoul(n) \in Int
<1>0. PICK q, w \in Nat \ {0} :
        /\ IntHalf = 256 * q /\ LongHalf = 256 * w
        /\ ColourCount <= IntHalf /\ IntHalf <= LongHalf
  BY Widths
<1> DEFINE D == 2 * IntHalf
           L == 2 * LongHalf
<1>1. D \in Nat \ {0} /\ L \in Nat \ {0} /\ IntHalf \in Int /\ LongHalf \in Int
  BY <1>0
<1> HIDE DEF D, L
<1>2. \A m \in Int : m % D \in Int /\ m % L \in Int
  BY <1>1
<1> SUFFICES ASSUME NEW n \in Int PROVE IntOf(n) \in Int /\ strtoul(n) \in Int
  OBVIOUS
<1>3. strtol(n) \in Int
  BY <1>1 DEF strtol
<1>4. IntCut(strtol(n)) = ((strtol(n) + IntHalf) % D) - IntHalf
  BY DEF IntCut, D
<1>5. strtoul(n) = n % L \/ strtoul(n) = L - 1
  BY DEF strtoul, L
<1>6. QED
  BY <1>1, <1>2, <1>3, <1>4, <1>5 DEF IntOf

LEMMA IntKept == \A n \in Int : IsInt(n) => IntOf(n) = n
<1>0. PICK q, w \in Nat \ {0} :
        /\ IntHalf = 256 * q /\ LongHalf = 256 * w
        /\ ColourCount <= IntHalf /\ IntHalf <= LongHalf
  BY Widths
<1> SUFFICES ASSUME NEW n \in Int, IsInt(n) PROVE IntOf(n) = n
  OBVIOUS
<1>1. IsLong(n)
  BY <1>0 DEF IsInt, IsLong
<1>2. n + IntHalf \in 0 .. 2 * IntHalf - 1
  BY <1>0 DEF IsInt
<1>3. \A d \in Nat \ {0} : \A m \in 0 .. d - 1 : m % d = m
  OBVIOUS
<1>4. (n + IntHalf) % (2 * IntHalf) = n + IntHalf
  BY <1>0, <1>2, <1>3
<1>5. QED
  BY <1>0, <1>1, <1>4 DEF IntOf, strtol, IntCut

\* Numbers of 24 bits are kept.
LEMMA ColourKept ==
    ASSUME NEW n \in 0 .. ColourCount - 1
    PROVE  /\ IsInt(n) /\ IsLong(n) /\ IntOf(n) = n /\ strtoul(n) = n
           /\ n % (2 * IntHalf) = n
<1> ColourCount \in Nat
  BY ColourCountNatural, Zenon
<1>0. PICK q, w \in Nat \ {0} :
        /\ IntHalf = 256 * q /\ LongHalf = 256 * w
        /\ ColourCount <= IntHalf /\ IntHalf <= LongHalf
  BY Widths
<1>1. IsInt(n) /\ IsLong(n)
  BY <1>0 DEF IsInt, IsLong
<1>2. \A d \in Nat \ {0} : \A m \in 0 .. d - 1 : m % d = m
  OBVIOUS
<1>3. n % (2 * IntHalf) = n /\ n % (2 * LongHalf) = n
  BY <1>0, <1>2
<1>4. strtoul(n) = n
  BY <1>0, <1>3 DEF strtoul
<1>5. QED
  BY <1>1, <1>3, <1>4, IntKept

\* Bytes, in any number, are kept.
LongArgs(p) == [i \in DOMAIN p |-> strtoul(p[i])]
LEMMA ByteKept == \A n \in 0 .. 255 : IntOf(n) = n /\ strtoul(n) = n /\ n % (2 * IntHalf) = n
<1>1. 256 <= ColourCount /\ ColourCount \in Nat
  BY SMT DEF ColourCount
<1> SUFFICES ASSUME NEW n \in 0 .. 255
             PROVE  IntOf(n) = n /\ strtoul(n) = n /\ n % (2 * IntHalf) = n
  OBVIOUS
<1>2. n \in 0 .. ColourCount - 1
  BY <1>1
<1>3. QED
  BY <1>2, ColourKept, Zenon
ByteTuple(k, p) == p \in [1 .. k -> 0 .. 255]
LEMMA BytesKept ==
    ASSUME NEW k, NEW p \in [1 .. k -> 0 .. 255]
    PROVE  Ints(p) = p /\ LongArgs(p) = p
BY ByteKept DEF Ints, LongArgs
LEMMA ByteTupleKept == \A k, p : ByteTuple(k, p) => Ints(p) = p
BY BytesKept, Zenon DEF ByteTuple

-----------------------------------------------------------------------------
\* Lines of fields: a key is found where it is, since no word is a key.

Keys == {"cmd", "side", "mode", "device", "position", "strength", "start", "end", "amplitude",
         "frequency", "snap", "first_foot", "second_foot", "amp_a", "amp_b", "period",
         "left", "right", "r", "g", "b", "mask"}
Words == {"trigger", "player-leds", "mute-led", "rumble", "lightbar", "L", "R", "off", "on",
          "pulse", "feedback", "weapon", "vibration", "bow", "galloping", "machine"}
FieldSet == [key : Keys, value : [str : Words] \cup [num : Int]]
OneEach(X) == \A f, g \in X : f.key = g.key => f = g
FieldLine(line) == line \in Seq(FieldSet) /\ OneEach(ToSet(line))

LEMMA NoWordIsKey ==
    ASSUME NEW f \in FieldSet, NEW key \in Keys
    PROVE  f.value # Str(key)
<1>1. CASE f.value \in [num : Int]
  <2>1. DOMAIN f.value = {"num"} /\ DOMAIN Str(key) = {"str"}
    BY <1>1 DEF Str
  <2>2. QED
    BY <2>1
<1>2. CASE f.value \in [str : Words]
  <2>1. f.value.str \in Words /\ Str(key).str = key
    BY <1>2 DEF Str
  <2>2. key \notin Words
    BY DEF Keys, Words
  <2>3. QED
    BY <2>1, <2>2
<1>3. QED
  BY <1>1, <1>2 DEF FieldSet

LEMMA KeyFound ==
    ASSUME NEW line, FieldLine(line), NEW key \in Keys
    PROVE  /\ \A f \in ToSet(line) : f.key = key => json_find(line, key) = f.value
           /\ (\A f \in ToSet(line) : f.key # key) => json_find(line, key) = Absent
<1> DEFINE hits == {i \in DOMAIN line : key = line[i].key \/ Str(key) = line[i].value}
<1>1. \A i \in DOMAIN line : line[i] \in ToSet(line) /\ line[i] \in FieldSet
  BY DEF ToSet, FieldLine
<1>2. hits = {i \in DOMAIN line : line[i].key = key}
  BY <1>1, NoWordIsKey
<1>3. json_find(line, key) = IF hits = {} \/ line[Min(hits)].key # key THEN Absent
                             ELSE line[Min(hits)].value
  BY DEF json_find
<1>4. ASSUME NEW f \in ToSet(line), f.key = key
      PROVE  json_find(line, key) = f.value
  <2>1. PICK j \in DOMAIN line : line[j] = f
    BY DEF ToSet
  <2>2. hits \in SUBSET Nat /\ hits # {}
    BY <1>2, <1>4, <2>1 DEF FieldLine
  <2> HIDE DEF hits
  <2>3. Min(hits) \in hits
    <3>1. \E x \in hits : \A y \in hits : x <= y
      BY <2>2, LeastNatural
    <3>2. QED
      BY <3>1 DEF Min
  <2>4. line[Min(hits)].key = key /\ line[Min(hits)] \in ToSet(line)
    BY <1>1, <1>2, <2>3
  <2>5. line[Min(hits)] = f
    BY <1>4, <2>4 DEF OneEach, FieldLine
  <2>6. QED
    BY <1>3, <2>2, <2>4, <2>5
<1>5. ASSUME \A f \in ToSet(line) : f.key # key
      PROVE  json_find(line, key) = Absent
  <2>1. hits = {}
    BY <1>1, <1>2, <1>5
  <2>2. QED
    BY <1>3, <2>1
<1>6. QED
  BY <1>4, <1>5

LEMMA JoinedSet ==
    ASSUME NEW S, NEW a \in Seq(S), NEW b \in Seq(S)
    PROVE  a \o b \in Seq(S) /\ ToSet(a \o b) = ToSet(a) \cup ToSet(b)
<1> DEFINE w == a \o b
           m == Len(a)
           n == Len(b)
<1>1. /\ w \in Seq(S) /\ Len(w) = m + n
      /\ \A i \in 1 .. m + n : w[i] = IF i <= m THEN a[i] ELSE b[i - m]
  BY ConcatProperties
<1>2. m \in Nat /\ n \in Nat /\ DOMAIN a = 1 .. m /\ DOMAIN b = 1 .. n
  OBVIOUS
<1>3. DOMAIN w = 1 .. m + n
  BY <1>1
<1> HIDE DEF w, m, n
<1>4. ASSUME NEW i \in 1 .. m + n PROVE w[i] \in ToSet(a) \cup ToSet(b)
  <2>1. CASE i <= m
    <3>1. i \in 1 .. m /\ w[i] = a[i]
      BY <1>1, <1>2, <2>1
    <3>2. QED
      BY <1>2, <3>1 DEF ToSet
  <2>2. CASE ~(i <= m)
    <3>1. i - m \in 1 .. n /\ w[i] = b[i - m]
      BY <1>1, <1>2, <2>2
    <3>2. QED
      BY <1>2, <3>1 DEF ToSet
  <2>3. QED
    BY <2>1, <2>2
<1>5. ASSUME NEW i \in 1 .. m PROVE a[i] \in ToSet(w)
  <2>1. i \in 1 .. m + n /\ w[i] = a[i]
    BY <1>1, <1>2
  <2>2. QED
    BY <1>3, <2>1 DEF ToSet
<1>6. ASSUME NEW i \in 1 .. n PROVE b[i] \in ToSet(w)
  <2>1. i + m \in 1 .. m + n /\ ~(i + m <= m) /\ (i + m) - m = i
    BY <1>2
  <2>2. w[i + m] = b[i]
    BY <1>1, <2>1
  <2>3. QED
    BY <1>3, <2>1, <2>2 DEF ToSet
<1>7. ToSet(w) = ToSet(a) \cup ToSet(b)
  BY <1>2, <1>3, <1>4, <1>5, <1>6 DEF ToSet
<1>8. QED
  BY <1>1, <1>7 DEF w

\* Turning a line keeps its fields.
Turned(line, k) == SubSeq(line, k + 1, Len(line)) \o SubSeq(line, 1, k)
LEMMA TurnedSet ==
    ASSUME NEW S, NEW line \in Seq(S), NEW k \in 0 .. Len(line)
    PROVE  Turned(line, k) \in Seq(S) /\ ToSet(Turned(line, k)) = ToSet(line)
<1> DEFINE n == Len(line)
           a == SubSeq(line, k + 1, n)
           b == SubSeq(line, 1, k)
<1>1. n \in Nat /\ DOMAIN line = 1 .. n
  OBVIOUS
<1>2. a \in Seq(S) /\ DOMAIN a = 1 .. n - k /\ \A i \in 1 .. n - k : a[i] = line[k + i]
  OBVIOUS
<1>3. b \in Seq(S) /\ DOMAIN b = 1 .. k /\ \A i \in 1 .. k : b[i] = line[i]
  OBVIOUS
<1>4. Turned(line, k) = a \o b
  BY DEF Turned
<1>12. k \in 0 .. n
  OBVIOUS
<1> HIDE DEF n, a, b
<1>5. a \o b \in Seq(S) /\ ToSet(a \o b) = ToSet(a) \cup ToSet(b)
  BY <1>2, <1>3, JoinedSet
<1>6. ASSUME NEW i \in 1 .. n - k PROVE a[i] \in ToSet(line)
  <2>1. k + i \in 1 .. n
    BY <1>1
  <2>2. QED
    BY <1>1, <1>2, <2>1 DEF ToSet
<1>7. ASSUME NEW i \in 1 .. k PROVE b[i] \in ToSet(line)
  <2>1. i \in 1 .. n
    BY <1>1, <1>12
  <2>2. QED
    BY <1>1, <1>3, <2>1 DEF ToSet
<1>8. ASSUME NEW i \in 1 .. n PROVE line[i] \in ToSet(a) \cup ToSet(b)
  <2>1. CASE i <= k
    <3>1. i \in 1 .. k
      BY <2>1
    <3>2. QED
      BY <1>3, <3>1 DEF ToSet
  <2>2. CASE ~(i <= k)
    <3>1. i - k \in 1 .. n - k /\ k + (i - k) = i
      BY <1>1, <2>2
    <3>2. line[i] = a[i - k]
      BY <1>2, <3>1
    <3>3. QED
      BY <1>2, <3>1, <3>2 DEF ToSet
  <2>3. QED
    BY <2>1, <2>2
<1>9. ToSet(line) \subseteq ToSet(a) \cup ToSet(b)
  BY <1>1, <1>8 DEF ToSet
<1>10. ToSet(a) \cup ToSet(b) \subseteq ToSet(line)
  BY <1>2, <1>3, <1>6, <1>7 DEF ToSet
<1>11. QED
  BY <1>4, <1>5, <1>9, <1>10

\* A line with one field more, and a line turned.
LEMMA LineGrows ==
    ASSUME NEW line, FieldLine(line), NEW f \in FieldSet, \A g \in ToSet(line) : g.key # f.key
    PROVE  FieldLine(Append(line, f)) /\ ToSet(Append(line, f)) = ToSet(line) \cup {f}
<1>1. line \in Seq(FieldSet) /\ <<f>> \in Seq(FieldSet) /\ ToSet(<<f>>) = {f}
  BY DEF FieldLine, ToSet
<1>2. Append(line, f) = line \o <<f>>
  BY <1>1
<1> DEFINE one == <<f>>
<1>3. line \o one \in Seq(FieldSet) /\ ToSet(line \o one) = ToSet(line) \cup {f}
  <2>1. one \in Seq(FieldSet) /\ ToSet(one) = {f}
    BY <1>1
  <2> HIDE DEF one
  <2>2. QED
    BY <1>1, <2>1, JoinedSet
<1>4. OneEach(ToSet(line) \cup {f})
  BY DEF FieldLine, OneEach
<1>5. QED
  BY <1>2, <1>3, <1>4 DEF FieldLine

LEMMA LineTurns ==
    ASSUME NEW line, FieldLine(line), NEW k \in 0 .. Len(line)
    PROVE  FieldLine(Turned(line, k)) /\ ToSet(Turned(line, k)) = ToSet(line)
BY TurnedSet DEF FieldLine

-----------------------------------------------------------------------------
\* Lines carried out: the call depends only on what the keys have.

\* A call, cut to bytes.
CutCall(c) == [op |-> c.op, p |-> Cut(c.p),
               a |-> IF c.a = NoArray THEN NoArray ELSE [z \in Zone |-> U8(c.a[z])]]
\* Its numbers made ints, which the daemon does before it cuts them.
IntCall(c) == [op |-> c.op, p |-> Ints(c.p),
               a |-> IF c.a = NoArray THEN NoArray ELSE [z \in Zone |-> IntOf(c.a[z])]]
DaemonCall(c) == CutCall(IntCall(c))
Numbers(line, keys, p) ==
    /\ DOMAIN p = DOMAIN keys
    /\ \A i \in DOMAIN keys : json_find(line, keys[i]) = Num(p[i])

LEMMA CallFromNumbers ==
    ASSUME NEW line, NEW op, NEW keys, NEW p, Numbers(line, keys, p)
    PROVE  CallFrom(line, op, keys) = [op |-> op, p |-> Cut(Ints(p)), a |-> NoArray]
<1> DEFINE q == [i \in DOMAIN keys |-> NumberOf(json_find(line, keys[i]))]
<1>1. \A i \in DOMAIN keys : q[i] = IntOf(p[i])
  BY DEF Numbers, NumberOf, Num
<1>2. q = Ints(p)
  BY <1>1 DEF Ints, Numbers
<1>3. QED
  BY <1>2 DEF CallFrom, Call

DeviceOf(line) == NumberOf(json_find(line, "device"))
LEMMA WordOfWord == \A w : WordOf(Str(w)) = w /\ "str" \in DOMAIN Str(w)
BY DEF WordOf, Str

LEMMA PlainObeyed ==
    ASSUME NEW line, NEW n, NEW op \in DOMAIN CommandKeys, NEW p,
           json_find(line, "cmd") = Str(IF op = "player_leds" THEN "player-leds" ELSE op),
           Numbers(line, CommandKeys[op], p)
    PROVE  native_handle_command(line, n) =
               Order(resolve_device(DeviceOf(line), n), NoSide,
                     [op |-> op, p |-> Cut(Ints(p)), a |-> NoArray])
<1> DEFINE written == IF op = "player_leds" THEN "player-leds" ELSE op
<1>1. WordOf(json_find(line, "cmd")) = written
  BY WordOfWord
<1>2. op \in {"rumble", "lightbar", "player_leds"}
  BY DEF CommandKeys
<1>3. native_handle_command(line, n) =
        Order(resolve_device(DeviceOf(line), n), NoSide, CallFrom(line, op, CommandKeys[op]))
  BY <1>1, <1>2 DEF native_handle_command, DeviceOf
<1>4. QED
  BY <1>3, CallFromNumbers

LEMMA TriggerObeyed ==
    ASSUME NEW line, NEW n, NEW op \in DOMAIN ModeKeys, NEW p, NEW side \in {"left", "right"},
           json_find(line, "cmd") = Str("trigger"),
           json_find(line, "side") = Str(IF side = "left" THEN "L" ELSE "R"),
           json_find(line, "mode") = Str(op),
           Numbers(line, ModeKeys[op], p)
    PROVE  native_handle_command(line, n) =
               Order(resolve_device(DeviceOf(line), n), side,
                     [op |-> op, p |-> Cut(Ints(p)), a |-> NoArray])
<1>1. WordOf(json_find(line, "cmd")) = "trigger"
  BY WordOfWord
<1>2. native_handle_command(line, n) =
        handle_trigger(line, resolve_device(DeviceOf(line), n))
  <2> DEFINE device == resolve_device(DeviceOf(line), n)
             done == handle_trigger(line, device)
  <2>1. "trigger" \notin DOMAIN CommandKeys
    BY DEF CommandKeys
  <2>2. done = handle_trigger(line, resolve_device(NumberOf(json_find(line, "device")), n))
    BY DEF DeviceOf
  <2> HIDE DEF done
  <2>3. native_handle_command(line, n) = done
    BY <1>1, <2>1, <2>2 DEF native_handle_command
  <2>4. QED
    BY <2>3 DEF done
<1>3. /\ HasWord(line, "side") /\ WordOf(json_find(line, "mode")) = op
      /\ WordOf(json_find(line, "side")) \in {"L", "left"} <=> side = "left"
  <2>1. HasWord(line, "side")
    BY WordOfWord DEF HasWord
  <2>2. WordOf(json_find(line, "mode")) = op
    BY WordOfWord
  <2>3. WordOf(json_find(line, "side")) = IF side = "left" THEN "L" ELSE "R"
    BY WordOfWord
  <2>4. QED
    BY <2>1, <2>2, <2>3
<1>4. handle_trigger(line, resolve_device(DeviceOf(line), n)) =
        Order(resolve_device(DeviceOf(line), n), side, CallFrom(line, op, ModeKeys[op]))
  BY <1>3 DEF handle_trigger
<1>5. QED
  BY <1>2, <1>4, CallFromNumbers

LEMMA MuteObeyed ==
    ASSUME NEW line, NEW n, NEW p \in [1 .. 1 -> 0 .. 2],
           json_find(line, "cmd") = Str("mute-led"),
           json_find(line, "mode") = Str(MuteWord[1 + p[1]])
    PROVE  native_handle_command(line, n) =
               Order(resolve_device(DeviceOf(line), n), NoSide,
                     [op |-> "mute_led", p |-> Cut(p), a |-> NoArray])
<1>1. WordOf(json_find(line, "cmd")) = "mute-led" /\ HasWord(line, "mode")
  BY DEF WordOf, Str, HasWord
<1>2. MuteLed(WordOf(json_find(line, "mode"))) = p[1]
  BY DEF MuteLed, WordOf, Str, MuteWord
<1>3. native_handle_command(line, n) =
        Order(resolve_device(DeviceOf(line), n), NoSide, Call("mute_led", <<p[1]>>))
  BY <1>1, <1>2 DEF native_handle_command, DeviceOf, CommandKeys
<1>4. Cut(<<p[1]>>) = Cut(p)
  BY DEF Cut
<1>5. QED
  BY <1>3, <1>4 DEF Call

-----------------------------------------------------------------------------
\* The lines a front end writes, by the fields they have.

NumberFields(keys, p) == {Field(keys[i], Num(p[i])) : i \in DOMAIN keys}
WrittenCommand(op) == Field("cmd", Str(IF op = "player_leds" THEN "player-leds" ELSE op))
TriggerHead(op, side) ==
    {Field("cmd", Str("trigger")), Field("side", Str(IF side = "left" THEN "L" ELSE "R")),
     Field("mode", Str(op))}

LEMMA FieldFound ==
    ASSUME NEW line, FieldLine(line), NEW key \in Keys, NEW value, Field(key, value) \in ToSet(line)
    PROVE  json_find(line, key) = value
<1>1. Field(key, value).key = key /\ Field(key, value).value = value
  BY DEF Field
<1>2. QED
  BY <1>1, KeyFound

LEMMA NumbersFound ==
    ASSUME NEW line, FieldLine(line), NEW keys \in Seq(Keys), NEW p, DOMAIN p = DOMAIN keys,
           NumberFields(keys, p) \subseteq ToSet(line)
    PROVE  Numbers(line, keys, p)
<1>1. ASSUME NEW i \in DOMAIN keys PROVE json_find(line, keys[i]) = Num(p[i])
  <2>1. keys[i] \in Keys /\ Field(keys[i], Num(p[i])) \in ToSet(line)
    BY DEF NumberFields
  <2>2. QED
    BY <2>1, FieldFound
<1>2. QED
  BY <1>1 DEF Numbers

\* The keys of numbers: one for each number, and none for anything else.
HeadKeys == {"cmd", "side", "mode", "device"}
KeysOfNumbers(keys) ==
    /\ keys \in Seq(Keys \ HeadKeys)
    /\ \A i, j \in DOMAIN keys : keys[i] = keys[j] => i = j
LEMMA SliderKeys ==
    /\ DOMAIN Sliders = DOMAIN ModeKeys \cup DOMAIN CommandKeys
    /\ \A op \in DOMAIN ModeKeys : Sliders[op] = ModeKeys[op] /\ KeysOfNumbers(Sliders[op])
    /\ \A op \in DOMAIN CommandKeys : Sliders[op] = CommandKeys[op] /\ KeysOfNumbers(Sliders[op])
<1>1. DOMAIN Sliders = DOMAIN ModeKeys \cup DOMAIN CommandKeys
  BY DEF Sliders, ModeKeys, CommandKeys
<1>2. ASSUME NEW op \in DOMAIN ModeKeys PROVE Sliders[op] = ModeKeys[op]
  <2>1. op \in {"off", "feedback", "weapon", "vibration", "bow", "galloping", "machine"}
    BY DEF ModeKeys
  <2>2. CASE op = "off"
    BY <2>2 DEF Sliders, ModeKeys
  <2>3. CASE op = "feedback"
    BY <2>3 DEF Sliders, ModeKeys
  <2>4. CASE op = "weapon"
    BY <2>4 DEF Sliders, ModeKeys
  <2>5. CASE op = "vibration"
    BY <2>5 DEF Sliders, ModeKeys
  <2>6. CASE op = "bow"
    BY <2>6 DEF Sliders, ModeKeys
  <2>7. CASE op = "galloping"
    BY <2>7 DEF Sliders, ModeKeys
  <2>8. CASE op = "machine"
    BY <2>8 DEF Sliders, ModeKeys
  <2>9. QED
    BY <2>1, <2>2, <2>3, <2>4, <2>5, <2>6, <2>7, <2>8
<1>3. \A op \in DOMAIN CommandKeys : Sliders[op] = CommandKeys[op]
  BY DEF Sliders, CommandKeys
<1> DEFINE Free == Keys \ HeadKeys
<1>4. /\ {"position", "strength", "start", "end", "amplitude", "frequency", "snap"} \subseteq Free
      /\ {"first_foot", "second_foot", "amp_a", "amp_b", "period"} \subseteq Free
      /\ {"left", "right", "r", "g", "b", "mask"} \subseteq Free
  BY DEF Keys, HeadKeys
<1> HIDE DEF Free
<1>5. \A k1 \in Free : <<k1>> \in Seq(Free)
  OBVIOUS
<1>6. \A k1, k2 \in Free : <<k1, k2>> \in Seq(Free)
  OBVIOUS
<1>7. \A k1, k2, k3 \in Free : <<k1, k2, k3>> \in Seq(Free)
  OBVIOUS
<1>8. \A k1, k2, k3, k4 \in Free : <<k1, k2, k3, k4>> \in Seq(Free)
  OBVIOUS
<1>9. \A k1, k2, k3, k4, k5 \in Free : <<k1, k2, k3, k4, k5>> \in Seq(Free)
  OBVIOUS
<1>10. \A k1, k2, k3, k4, k5, k6 \in Free : <<k1, k2, k3, k4, k5, k6>> \in Seq(Free)
  OBVIOUS
<1>11. <<>> \in Seq(Free)
  OBVIOUS
<1>12. ASSUME NEW op \in DOMAIN ModeKeys PROVE KeysOfNumbers(ModeKeys[op])
  <2>1. CASE op = "off"
    <3>1. ModeKeys[op] = <<>>
      BY <2>1 DEF ModeKeys
    <3>2. QED
      BY <1>11, <3>1 DEF KeysOfNumbers, Free
  <2>2. CASE op = "feedback"
    <3>1. ModeKeys[op] = <<"position", "strength">>
      BY <2>2 DEF ModeKeys
    <3>2. ModeKeys[op] \in Seq(Free)
      BY <1>4, <1>6, <3>1
    <3>3. QED
      BY <3>1, <3>2 DEF KeysOfNumbers, Free
  <2>3. CASE op = "weapon"
    <3>1. ModeKeys[op] = <<"start", "end", "strength">>
      BY <2>3 DEF ModeKeys
    <3>2. ModeKeys[op] \in Seq(Free)
      BY <1>4, <1>7, <3>1
    <3>3. QED
      BY <3>1, <3>2 DEF KeysOfNumbers, Free
  <2>4. CASE op = "vibration"
    <3>1. ModeKeys[op] = <<"position", "amplitude", "frequency">>
      BY <2>4 DEF ModeKeys
    <3>2. ModeKeys[op] \in Seq(Free)
      BY <1>4, <1>7, <3>1
    <3>3. QED
      BY <3>1, <3>2 DEF KeysOfNumbers, Free
  <2>5. CASE op = "bow"
    <3>1. ModeKeys[op] = <<"start", "end", "strength", "snap">>
      BY <2>5 DEF ModeKeys
    <3>2. ModeKeys[op] \in Seq(Free)
      BY <1>4, <1>8, <3>1
    <3>3. QED
      BY <3>1, <3>2 DEF KeysOfNumbers, Free
  <2>6. CASE op = "galloping"
    <3>1. ModeKeys[op] = <<"start", "end", "first_foot", "second_foot", "frequency">>
      BY <2>6 DEF ModeKeys
    <3>2. ModeKeys[op] \in Seq(Free)
      BY <1>4, <1>9, <3>1
    <3>3. QED
      BY <3>1, <3>2 DEF KeysOfNumbers, Free
  <2>7. CASE op = "machine"
    <3>1. ModeKeys[op] = <<"start", "end", "amp_a", "amp_b", "frequency", "period">>
      BY <2>7 DEF ModeKeys
    <3>2. ModeKeys[op] \in Seq(Free)
      BY <1>4, <1>10, <3>1
    <3>3. QED
      BY <3>1, <3>2 DEF KeysOfNumbers, Free
  <2>8. QED
    BY <2>1, <2>2, <2>3, <2>4, <2>5, <2>6, <2>7 DEF ModeKeys
<1>13. ASSUME NEW op \in DOMAIN CommandKeys PROVE KeysOfNumbers(CommandKeys[op])
  <2>1. CASE op = "rumble"
    <3>1. CommandKeys[op] = <<"left", "right">>
      BY <2>1 DEF CommandKeys
    <3>2. CommandKeys[op] \in Seq(Free)
      BY <1>4, <1>6, <3>1
    <3>3. QED
      BY <3>1, <3>2 DEF KeysOfNumbers, Free
  <2>2. CASE op = "lightbar"
    <3>1. CommandKeys[op] = <<"r", "g", "b">>
      BY <2>2 DEF CommandKeys
    <3>2. CommandKeys[op] \in Seq(Free)
      BY <1>4, <1>7, <3>1
    <3>3. QED
      BY <3>1, <3>2 DEF KeysOfNumbers, Free
  <2>3. CASE op = "player_leds"
    <3>1. CommandKeys[op] = <<"mask">>
      BY <2>3 DEF CommandKeys
    <3>2. CommandKeys[op] \in Seq(Free)
      BY <1>4, <1>5, <3>1
    <3>3. QED
      BY <3>1, <3>2 DEF KeysOfNumbers, Free
  <2>4. QED
    BY <2>1, <2>2, <2>3 DEF CommandKeys
<1>14. QED
  BY <1>1, <1>2, <1>3, <1>12, <1>13

\* A head, then a field for every number.
HeadLine(head) ==
    head \in Seq(FieldSet) /\ OneEach(ToSet(head)) /\ \A f \in ToSet(head) : f.key \in HeadKeys
IntsFor(p, keys) == DOMAIN p = DOMAIN keys /\ \A i \in DOMAIN p : p[i] \in Int
NumberedLine(head, keys, p) == head \o [i \in DOMAIN p |-> Field(keys[i], Num(p[i]))]
LEMMA LineOfNumbers ==
    ASSUME NEW head, HeadLine(head), NEW keys, KeysOfNumbers(keys), NEW p, IntsFor(p, keys),
           NEW line, line = NumberedLine(head, keys, p)
    PROVE  FieldLine(line) /\ ToSet(line) = ToSet(head) \cup NumberFields(keys, p)
<1> DEFINE numbers == [i \in DOMAIN p |-> Field(keys[i], Num(p[i]))]
<1>0. /\ head \in Seq(FieldSet) /\ OneEach(ToSet(head))
      /\ \A f \in ToSet(head) : f.key \in HeadKeys
      /\ DOMAIN p = DOMAIN keys /\ \A i \in DOMAIN p : p[i] \in Int
  BY DEF HeadLine, IntsFor
<1>1. keys \in Seq(Keys \ HeadKeys) /\ DOMAIN p = 1 .. Len(keys) /\ Len(keys) \in Nat
  BY <1>0 DEF KeysOfNumbers
<1>2. ASSUME NEW i \in DOMAIN p
      PROVE  numbers[i] \in FieldSet /\ numbers[i].key = keys[i] /\ keys[i] \in Keys \ HeadKeys
  <2>1. keys[i] \in Keys \ HeadKeys /\ Num(p[i]) \in [num : Int]
    BY <1>0, <1>1 DEF Num
  <2>2. QED
    BY <2>1 DEF Field, FieldSet
<1>3. numbers \in Seq(FieldSet) /\ ToSet(numbers) = NumberFields(keys, p)
  <2>1. numbers \in [1 .. Len(keys) -> FieldSet]
    BY <1>1, <1>2
  <2>2. numbers \in Seq(FieldSet)
    BY <1>1, <2>1, SeqDef
  <2>3. QED
    BY <1>0, <2>2 DEF ToSet, NumberFields
<1>4. OneEach(NumberFields(keys, p))
  <2>1. \A f \in NumberFields(keys, p) : \E i \in DOMAIN p : f = numbers[i]
    BY <1>0 DEF NumberFields
  <2>2. QED
    BY <1>0, <1>2, <2>1 DEF OneEach, KeysOfNumbers
<1>5. \A f \in NumberFields(keys, p) : f.key \notin HeadKeys
  <2>1. \A f \in NumberFields(keys, p) : \E i \in DOMAIN p : f = numbers[i]
    BY <1>0 DEF NumberFields
  <2>2. QED
    BY <1>2, <2>1
<1> HIDE DEF numbers
<1>6. line \in Seq(FieldSet) /\ ToSet(line) = ToSet(head) \cup NumberFields(keys, p)
  <2>1. line = head \o numbers
    BY DEF numbers, NumberedLine
  <2>2. QED
    <3>1. head \o numbers \in Seq(FieldSet) /\ ToSet(head \o numbers) = ToSet(head) \cup ToSet(numbers)
      BY <1>0, <1>3, JoinedSet
    <3>2. QED
      BY <1>3, <2>1, <3>1
<1>7. OneEach(ToSet(line))
  BY <1>0, <1>4, <1>5, <1>6 DEF OneEach
<1>8. QED
  BY <1>6, <1>7 DEF FieldLine

-----------------------------------------------------------------------------
\* Orders in words, as the GUI and the documented line have them.

Numbered(c, keys) == c.p \in [DOMAIN keys -> Int] /\ c.a = NoArray
PlainOrder(o) ==
    /\ o.side = NoSide /\ o.call.op \in DOMAIN CommandKeys
    /\ Numbered(o.call, CommandKeys[o.call.op])
TriggerOrder(o) ==
    /\ o.side \in {"left", "right"} /\ o.call.op \in DOMAIN ModeKeys
    /\ Numbered(o.call, ModeKeys[o.call.op])
MuteOrder(o) ==
    /\ o.side = NoSide /\ o.call.op = "mute_led" /\ o.call.p \in [1 .. 1 -> 0 .. 2]
    /\ o.call.a = NoArray
MuteLine(o) ==
    <<Field("cmd", Str("mute-led")), Field("mode", Str(MuteWord[1 + o.call.p[1]]))>>
BaseLine(o) == IF o.call.op = "mute_led" THEN MuteLine(o) ELSE GuiLine(o)

\* A line whose fields are these and perhaps more.
Within(line, base) == FieldLine(line) /\ ToSet(base) \subseteq ToSet(line)
Obeyed(line, n, o) ==
    native_handle_command(line, n) =
        Order(resolve_device(DeviceOf(line), n), o.side, DaemonCall(o.call))
NoDevice(line) == \A f \in ToSet(line) : f.key # "device"

LEMMA PlainBase ==
    ASSUME NEW o, PlainOrder(o)
    PROVE  /\ FieldLine(GuiLine(o)) /\ NoDevice(GuiLine(o))
           /\ \A line, n : Within(line, GuiLine(o)) => Obeyed(line, n, o)
<1> DEFINE op == o.call.op
           p == o.call.p
           keys == CommandKeys[op]
           head == <<WrittenCommand(op)>>
           base == GuiLine(o)
<1>1. /\ op \in DOMAIN CommandKeys /\ Sliders[op] = keys /\ KeysOfNumbers(keys)
      /\ DOMAIN p = DOMAIN keys /\ \A i \in DOMAIN p : p[i] \in Int
  BY SliderKeys DEF PlainOrder, Numbered
<1>2. base = NumberedLine(head, keys, p)
  BY <1>1 DEF GuiLine, PlainOrder, WrittenCommand, NumberedLine
<1>3. head \in Seq(FieldSet) /\ ToSet(head) = {WrittenCommand(op)} /\ OneEach(ToSet(head))
  <2>1. WrittenCommand(op) \in FieldSet
    <3>1. op \in {"rumble", "lightbar", "player_leds"}
      BY <1>1 DEF CommandKeys
    <3>2. (IF op = "player_leds" THEN "player-leds" ELSE op) \in Words
      BY <3>1 DEF Words
    <3>3. Str(IF op = "player_leds" THEN "player-leds" ELSE op) \in [str : Words]
      BY <3>2 DEF Str
    <3>4. QED
      BY <3>3 DEF WrittenCommand, Field, FieldSet, Keys
  <2>2. QED
    BY <2>1 DEF ToSet, OneEach
<1>4. \A f \in ToSet(head) : f.key \in HeadKeys /\ f.key # "device"
  BY <1>3 DEF WrittenCommand, Field, HeadKeys
<1> HIDE DEF keys, p, base, head
<1>5. FieldLine(base) /\ ToSet(base) = {WrittenCommand(op)} \cup NumberFields(keys, p)
  <2>1. HeadLine(head) /\ IntsFor(p, keys)
    BY <1>1, <1>3, <1>4 DEF HeadLine, IntsFor
  <2>2. QED
    BY <1>1, <1>2, <1>3, <2>1, LineOfNumbers
<1>6. NoDevice(base)
  <2>1. \A f \in NumberFields(keys, p) : f.key # "device"
    <3>1. \A i \in DOMAIN keys : keys[i] # "device"
      BY <1>1 DEF KeysOfNumbers, HeadKeys
    <3>2. QED
      BY <3>1 DEF NumberFields, Field
  <2>2. QED
    BY <1>3, <1>4, <1>5, <2>1 DEF NoDevice
<1>7. ASSUME NEW line, NEW n, Within(line, base) PROVE Obeyed(line, n, o)
  <2>1. FieldLine(line) /\ WrittenCommand(op) \in ToSet(line) /\ NumberFields(keys, p) \subseteq ToSet(line)
    BY <1>5, <1>7 DEF Within
  <2>2. json_find(line, "cmd") = Str(IF op = "player_leds" THEN "player-leds" ELSE op)
    BY <2>1, FieldFound, "cmd" \in Keys DEF WrittenCommand, Keys
  <2>3. Numbers(line, keys, p)
    <3>1. keys \in Seq(Keys)
      BY <1>1 DEF KeysOfNumbers
    <3>2. QED
      BY <1>1, <2>1, <3>1, NumbersFound
  <2>4. native_handle_command(line, n) =
            Order(resolve_device(DeviceOf(line), n), NoSide,
                  [op |-> op, p |-> Cut(Ints(p)), a |-> NoArray])
    BY <1>1, <2>2, <2>3, PlainObeyed DEF keys
  <2>5. DaemonCall(o.call) = [op |-> op, p |-> Cut(Ints(p)), a |-> NoArray]
    BY DEF DaemonCall, IntCall, CutCall, PlainOrder, Numbered, p
  <2>6. QED
    BY <2>4, <2>5 DEF Obeyed, PlainOrder
<1>8. QED
  BY <1>5, <1>6, <1>7 DEF base

LEMMA TriggerBase ==
    ASSUME NEW o, TriggerOrder(o)
    PROVE  /\ FieldLine(GuiLine(o)) /\ NoDevice(GuiLine(o))
           /\ \A line, n : Within(line, GuiLine(o)) => Obeyed(line, n, o)
<1> DEFINE op == o.call.op
           p == o.call.p
           side == o.side
           letter == IF side = "left" THEN "L" ELSE "R"
           keys == ModeKeys[op]
           f1 == Field("cmd", Str("trigger"))
           f2 == Field("side", Str(letter))
           f3 == Field("mode", Str(op))
           head == <<f1, f2, f3>>
           base == GuiLine(o)
<1>1. /\ op \in DOMAIN ModeKeys /\ Sliders[op] = keys /\ KeysOfNumbers(keys)
      /\ DOMAIN p = DOMAIN keys /\ \A i \in DOMAIN p : p[i] \in Int
  BY SliderKeys DEF TriggerOrder, Numbered
<1>2. base = NumberedLine(head, keys, p)
  <2>1. side # NoSide
    BY DEF TriggerOrder, NoSide
  <2>2. QED
    BY <1>1, <2>1 DEF GuiLine, NumberedLine
<1>3. f1 \in FieldSet /\ f2 \in FieldSet /\ f3 \in FieldSet
  <2>1. op \in Words /\ letter \in Words /\ "trigger" \in Words
    BY <1>1 DEF ModeKeys, Words
  <2>2. \A w \in Words : Str(w) \in [str : Words]
    BY DEF Str
  <2>3. "cmd" \in Keys /\ "side" \in Keys /\ "mode" \in Keys
    BY DEF Keys
  <2> HIDE DEF op, letter
  <2>4. \A key \in Keys, w \in Words : Field(key, Str(w)) \in FieldSet
    BY <2>2 DEF Field, FieldSet
  <2>5. QED
    BY <2>1, <2>3, <2>4
<1>4. f1.key = "cmd" /\ f2.key = "side" /\ f3.key = "mode"
  BY DEF Field
<1>5. side \in {"left", "right"}
  BY DEF TriggerOrder
<1> HIDE DEF keys, p, base
<1>6. /\ head \in Seq(FieldSet) /\ ToSet(head) = {f1, f2, f3} /\ OneEach(ToSet(head))
      /\ \A f \in ToSet(head) : f.key \in HeadKeys /\ f.key # "device"
  <2> HIDE DEF f1, f2, f3
  <2>1. head \in Seq(FieldSet) /\ ToSet(head) = {f1, f2, f3}
    BY <1>3 DEF ToSet
  <2>2. QED
    BY <1>4, <2>1 DEF OneEach, HeadKeys
<1> HIDE DEF head, f1, f2, f3
<1>7. FieldLine(base) /\ ToSet(base) = {f1, f2, f3} \cup NumberFields(keys, p)
  <2>1. HeadLine(head) /\ IntsFor(p, keys)
    BY <1>1, <1>6 DEF HeadLine, IntsFor
  <2>2. QED
    BY <1>1, <1>2, <1>6, <2>1, LineOfNumbers
<1>8. NoDevice(base)
  <2>1. \A f \in NumberFields(keys, p) : f.key # "device"
    <3>1. \A i \in DOMAIN keys : keys[i] # "device"
      BY <1>1 DEF KeysOfNumbers, HeadKeys
    <3>2. QED
      BY <3>1 DEF NumberFields, Field
  <2>2. QED
    BY <1>6, <1>7, <2>1 DEF NoDevice
<1>9. ASSUME NEW line, NEW n, Within(line, base) PROVE Obeyed(line, n, o)
  <2>1. FieldLine(line) /\ {f1, f2, f3} \subseteq ToSet(line) /\ NumberFields(keys, p) \subseteq ToSet(line)
    BY <1>7, <1>9 DEF Within
  <2>2. /\ json_find(line, "cmd") = Str("trigger")
        /\ json_find(line, "side") = Str(letter)
        /\ json_find(line, "mode") = Str(op)
    <3>1. "cmd" \in Keys /\ "side" \in Keys /\ "mode" \in Keys
      BY DEF Keys
    <3> HIDE DEF letter, op
    <3>2. QED
      BY <2>1, <3>1, FieldFound DEF f1, f2, f3
  <2>3. Numbers(line, keys, p)
    <3>1. keys \in Seq(Keys)
      BY <1>1 DEF KeysOfNumbers
    <3>2. QED
      BY <1>1, <2>1, <3>1, NumbersFound
  <2>4. native_handle_command(line, n) =
            Order(resolve_device(DeviceOf(line), n), side,
                  [op |-> op, p |-> Cut(Ints(p)), a |-> NoArray])
    BY <1>1, <1>5, <2>2, <2>3, TriggerObeyed DEF keys
  <2>5. DaemonCall(o.call) = [op |-> op, p |-> Cut(Ints(p)), a |-> NoArray]
    BY DEF DaemonCall, IntCall, CutCall, TriggerOrder, Numbered, p
  <2>6. QED
    BY <2>4, <2>5 DEF Obeyed
<1>10. QED
  BY <1>7, <1>8, <1>9 DEF base

LEMMA MuteBase ==
    ASSUME NEW o, MuteOrder(o)
    PROVE  /\ FieldLine(MuteLine(o)) /\ NoDevice(MuteLine(o))
           /\ \A line, n : Within(line, MuteLine(o)) => Obeyed(line, n, o)
<1> DEFINE p == o.call.p
           word == MuteWord[1 + p[1]]
           f1 == Field("cmd", Str("mute-led"))
           f2 == Field("mode", Str(word))
           base == <<f1, f2>>
<1>1. p \in [1 .. 1 -> 0 .. 2]
  BY DEF MuteOrder
<1>2. f1 \in FieldSet /\ f2 \in FieldSet
  <2>1. word \in Words /\ "mute-led" \in Words
    BY <1>1 DEF MuteWord, Words
  <2>2. \A w \in Words : Str(w) \in [str : Words]
    BY DEF Str
  <2>3. "cmd" \in Keys /\ "mode" \in Keys
    BY DEF Keys
  <2> HIDE DEF word
  <2>4. \A key \in Keys, w \in Words : Field(key, Str(w)) \in FieldSet
    BY <2>2 DEF Field, FieldSet
  <2>5. QED
    BY <2>1, <2>3, <2>4
<1>3. f1.key = "cmd" /\ f2.key = "mode"
  BY DEF Field
<1>4. MuteLine(o) = base
  BY DEF MuteLine
<1> HIDE DEF p, word
<1>5. FieldLine(base) /\ NoDevice(base) /\ ToSet(base) = {f1, f2}
  <2> HIDE DEF f1, f2
  <2>1. base \in Seq(FieldSet) /\ ToSet(base) = {f1, f2}
    BY <1>2 DEF ToSet
  <2>2. QED
    BY <1>3, <2>1 DEF FieldLine, OneEach, NoDevice
<1> HIDE DEF base, f1, f2
<1>6. ASSUME NEW line, NEW n, Within(line, base) PROVE Obeyed(line, n, o)
  <2>1. FieldLine(line) /\ {f1, f2} \subseteq ToSet(line)
    BY <1>5, <1>6 DEF Within
  <2>2. json_find(line, "cmd") = Str("mute-led") /\ json_find(line, "mode") = Str(word)
    <3>1. "cmd" \in Keys /\ "mode" \in Keys
      BY DEF Keys
    <3>2. QED
      BY <2>1, <3>1, FieldFound DEF f1, f2
  <2>3. native_handle_command(line, n) =
            Order(resolve_device(DeviceOf(line), n), NoSide,
                  [op |-> "mute_led", p |-> Cut(p), a |-> NoArray])
    BY <1>1, <2>2, MuteObeyed DEF word
  <2>4. DaemonCall(o.call) = [op |-> "mute_led", p |-> Cut(p), a |-> NoArray]
    <3>1. p \in [1 .. 1 -> 0 .. 255]
      BY <1>1
    <3>2. Ints(p) = p
      BY <3>1, BytesKept
    <3>3. QED
      BY <3>2 DEF DaemonCall, IntCall, CutCall, MuteOrder, p
  <2>5. QED
    BY <2>3, <2>4 DEF Obeyed, MuteOrder
<1>7. QED
  BY <1>4, <1>5, <1>6

\* What the GUI writes is done for the first controller, and what is documented
\* for the one it names, however its fields are turned.
LEMMA GuiObeyed ==
    ASSUME NEW o, PlainOrder(o) \/ TriggerOrder(o), NEW n \in Nat \ {0}
    PROVE  native_handle_command(GuiLine(o), n) = Order(0, o.side, DaemonCall(o.call))
<1>1. /\ FieldLine(GuiLine(o)) /\ NoDevice(GuiLine(o))
      /\ \A line, m : Within(line, GuiLine(o)) => Obeyed(line, m, o)
  BY PlainBase, TriggerBase
<1>2. Obeyed(GuiLine(o), n, o)
  BY <1>1 DEF Within
<1>3. DeviceOf(GuiLine(o)) = 0
  <2>1. json_find(GuiLine(o), "device") = Absent
    <3>1. "device" \in Keys
      BY DEF Keys
    <3>2. QED
      BY <1>1, <3>1, KeyFound DEF NoDevice
  <2>2. QED
    BY <2>1 DEF DeviceOf, NumberOf, Absent
<1>4. resolve_device(0, n) = 0
  BY DEF resolve_device
<1>5. QED
  BY <1>2, <1>3, <1>4 DEF Obeyed

LEMMA NativeObeyed ==
    ASSUME NEW o, PlainOrder(o) \/ TriggerOrder(o) \/ MuteOrder(o), o.device \in Int,
           NEW turn \in Nat, NEW n \in Nat \ {0}
    PROVE  native_handle_command(NativeLine(o, turn), n) =
               Order(resolve_device(IntOf(o.device), n), o.side, DaemonCall(o.call))
<1> DEFINE base == BaseLine(o)
           f == Field("device", Num(o.device))
           full == Append(base, f)
           k == turn % Len(full)
           line == Turned(full, k)
<1>1. /\ FieldLine(base) /\ NoDevice(base)
      /\ \A l, m : Within(l, base) => Obeyed(l, m, o)
  <2>1. CASE o.call.op = "mute_led"
    <3>1. ~PlainOrder(o) /\ ~TriggerOrder(o)
      BY <2>1 DEF PlainOrder, TriggerOrder, CommandKeys, ModeKeys
    <3>2. base = MuteLine(o)
      BY <2>1 DEF BaseLine
    <3>3. QED
      BY <3>1, <3>2, MuteBase
  <2>2. CASE o.call.op # "mute_led"
    <3>1. ~MuteOrder(o)
      BY <2>2 DEF MuteOrder
    <3>2. base = GuiLine(o)
      BY <2>2 DEF BaseLine
    <3>3. QED
      BY <3>1, <3>2, PlainBase, TriggerBase
  <2>3. QED
    BY <2>1, <2>2
<1>2. NativeLine(o, turn) = line
  BY DEF NativeLine, Turned, BaseLine, MuteLine
<1> HIDE DEF base
<1>3. f \in FieldSet /\ f.key = "device" /\ f.value = Num(o.device)
  BY DEF Field, FieldSet, Num, Keys
<1> HIDE DEF f
<1>4. FieldLine(full) /\ ToSet(full) = ToSet(base) \cup {f}
  BY <1>1, <1>3, LineGrows DEF NoDevice
<1>5. k \in 0 .. Len(full)
  <2>1. Len(full) \in Nat \ {0}
    BY <1>1 DEF FieldLine
  <2> DEFINE m == Len(full)
  <2>2. turn % m \in 0 .. m
    <3> HIDE DEF m
    <3>1. m \in Nat \ {0} => turn % m \in 0 .. m
      OBVIOUS
    <3>2. QED
      BY <2>1, <3>1 DEF m
  <2>3. QED
    BY <2>2
<1> HIDE DEF full, k
<1>6. FieldLine(line) /\ ToSet(line) = ToSet(base) \cup {f}
  BY <1>4, <1>5, LineTurns
<1> HIDE DEF line
<1>7. Obeyed(line, n, o)
  BY <1>1, <1>6 DEF Within
<1>8. DeviceOf(line) = IntOf(o.device)
  <2>1. json_find(line, "device") = Num(o.device)
    <3>1. "device" \in Keys
      BY DEF Keys
    <3>2. QED
      BY <1>3, <1>6, <3>1, KeyFound
  <2>2. QED
    BY <2>1 DEF DeviceOf, NumberOf, Num
<1>9. QED
  BY <1>2, <1>7, <1>8 DEF Obeyed

-----------------------------------------------------------------------------
\* The DSX protocol: instructions carried out.

DsxRow(op, n) == [op |-> op, n |-> n]
LEMMA DsxRows ==
    /\ DOMAIN PresetStrength = {2, 3, 4, 5, 6, 7, 10}
    /\ DOMAIN DsxScalar = {13, 14, 15, 16, 17, 18, 21, 22, 23, 24}
    /\ DsxScalar[13] = DsxRow("feedback", 2) /\ DsxScalar[21] = DsxRow("feedback", 2)
    /\ DsxScalar[16] = DsxRow("weapon", 3) /\ DsxScalar[22] = DsxRow("weapon", 3)
    /\ DsxScalar[17] = DsxRow("vibration", 3) /\ DsxScalar[23] = DsxRow("vibration", 3)
    /\ DsxScalar[14] = DsxRow("bow", 4) /\ DsxScalar[15] = DsxRow("galloping", 5)
    /\ DsxScalar[18] = DsxRow("machine", 6) /\ DsxScalar[24] = DsxRow("slope_feedback", 4)
BY DEF DsxScalar, DsxRow, PresetStrength

\* Where the trigger, the mode and the numbers of an instruction are.
TriggerParams(d, s, m, q) == <<d>> \o (<<s, m>> \o q)
TriggerParts(params, d, s, m, q) ==
    /\ params \in Seq(Int) /\ Len(params) = 3 + Len(q) /\ Len(q) \in Nat
    /\ params[1] = d /\ params[2] = s /\ params[3] = m
    /\ SubSeq(params, 4, Len(params)) = q
LEMMA DsxParams ==
    ASSUME NEW d \in Int, NEW s \in Int, NEW m \in Int, NEW q \in Seq(Int)
    PROVE  TriggerParts(TriggerParams(d, s, m, q), d, s, m, q)
<1> DEFINE params == TriggerParams(d, s, m, q)
<1> DEFINE t == <<s, m>> \o q
           n == Len(q)
<1>1. n \in Nat /\ DOMAIN q = 1 .. n
  OBVIOUS
<1>2. /\ t \in Seq(Int) /\ Len(t) = 2 + n /\ t[1] = s /\ t[2] = m
      /\ \A i \in 1 .. n : t[2 + i] = q[i]
  OBVIOUS
<1> HIDE DEF t, params
<1>3. /\ params \in Seq(Int) /\ Len(params) = 3 + n /\ params[1] = d
      /\ \A i \in 1 .. 2 + n : params[1 + i] = t[i]
  <2>1. params = <<d>> \o t
    BY DEF t, params, TriggerParams
  <2>2. QED
    BY <1>1, <1>2, <2>1, SMTT(40)
<1>4. params[2] = s /\ params[3] = m
  BY <1>1, <1>2, <1>3
<1>5. \A i \in 1 .. n : params[3 + i] = q[i]
  <2> SUFFICES ASSUME NEW i \in 1 .. n PROVE params[3 + i] = q[i]
    OBVIOUS
  <2>1. 2 + i \in 1 .. 2 + n /\ 1 + (2 + i) = 3 + i
    BY <1>1
  <2>2. QED
    BY <1>2, <1>3, <2>1
<1>6. SubSeq(params, 4, Len(params)) = q
  <2> DEFINE u == SubSeq(params, 4, Len(params))
  <2>1. u \in Seq(Int) /\ Len(u) = n /\ \A i \in 1 .. n : u[i] = params[3 + i]
    <3> HIDE DEF n
    <3>1. u \in Seq(Int)
      BY <1>3
    <3>2. Len(u) = n /\ \A i \in 1 .. n : u[i] = params[3 + i]
      <4>1. params \in Seq(Int) /\ n \in Nat /\ Len(params) = 3 + n
        BY <1>1, <1>3
      <4>2. QED
        BY <4>1
    <3>3. QED
      BY <3>1, <3>2
  <2>2. QED
    BY <1>1, <1>5, <2>1, SeqEqual
<1>7. QED
  BY <1>1, <1>3, <1>4, <1>6 DEF TriggerParts, params

\* The numbered modes and the arrays.
LEMMA ScalarApplied ==
    ASSUME NEW m \in DOMAIN DsxScalar, NEW q \in Seq(Int), Len(q) = DsxScalar[m].n
    PROVE  apply_trigger(m, q) = [op |-> DsxScalar[m].op, p |-> Cut(q), a |-> NoArray]
<1> DEFINE n == DsxScalar[m].n
<1>1. m \in DOMAIN DsxScalar /\ m \notin {0, 20, 8, 19, 25, 26, 12, 9} \cup DOMAIN PresetStrength
  <2>1. m \in {13, 14, 15, 16, 17, 18, 21, 22, 23, 24}
    BY DsxRows
  <2>2. m \notin DOMAIN PresetStrength
    BY <2>1, DsxRows, SMTT(30)
  <2>3. QED
    BY <2>1, <2>2, SMTT(30)
<1>2. apply_trigger(m, q) = Call(DsxScalar[m].op, SubSeq(q, 1, n))
  <2>1. ~(Len(q) < n)
    OBVIOUS
  <2> HIDE DEF n
  <2>2. apply_trigger(m, q) = IF Len(q) < DsxScalar[m].n THEN NoCall
                              ELSE Call(DsxScalar[m].op, SubSeq(q, 1, DsxScalar[m].n))
    BY <1>1 DEF apply_trigger
  <2>3. QED
    BY <2>1, <2>2 DEF n
<1>3. SubSeq(q, 1, n) = q
  OBVIOUS
<1>4. QED
  BY <1>2, <1>3 DEF Call

LEMMA ArrayApplied ==
    ASSUME NEW q \in Seq(Int)
    PROVE  /\ Len(q) = 10 => apply_trigger(25, q) =
                [op |-> "feedback_multi", p |-> Cut(<<>>), a |-> [z \in Zone |-> U8(q[z + 1])]]
           /\ Len(q) = 11 => apply_trigger(26, q) =
                [op |-> "vibration_multi", p |-> Cut(<<q[1]>>), a |-> [z \in Zone |-> U8(q[z + 2])]]
<1>1. /\ 25 \notin DOMAIN DsxScalar /\ 26 \notin DOMAIN DsxScalar
      /\ 25 \notin DOMAIN PresetStrength /\ 26 \notin DOMAIN PresetStrength
  BY DsxRows
<1>2. ASSUME Len(q) = 10
      PROVE  apply_trigger(25, q) =
                [op |-> "feedback_multi", p |-> Cut(<<>>), a |-> [z \in Zone |-> U8(q[z + 1])]]
  <2>1. apply_trigger(25, q) = CallMulti("feedback_multi", <<>>, q)
    <3> DEFINE done == CallMulti("feedback_multi", <<>>, q)
    <3>1. ~(Len(q) < 10)
      BY <1>2
    <3>2. apply_trigger(25, q) = IF Len(q) < 10 THEN NoCall ELSE done
      BY <1>1 DEF apply_trigger
    <3>3. QED
      BY <3>1, <3>2
  <2>2. QED
    BY <2>1 DEF CallMulti
<1>3. ASSUME Len(q) = 11
      PROVE  apply_trigger(26, q) =
                [op |-> "vibration_multi", p |-> Cut(<<q[1]>>), a |-> [z \in Zone |-> U8(q[z + 2])]]
  <2>1. apply_trigger(26, q) = CallMulti("vibration_multi", <<q[1]>>, AfterFirst(q))
    <3> DEFINE done == CallMulti("vibration_multi", <<q[1]>>, AfterFirst(q))
    <3>1. ~(Len(q) < 11)
      BY <1>3
    <3>2. apply_trigger(26, q) = IF Len(q) < 11 THEN NoCall ELSE done
      BY <1>1 DEF apply_trigger
    <3>3. QED
      BY <3>1, <3>2
  <2>2. \A z \in Zone : AfterFirst(q)[z + 1] = q[z + 2]
    <3> SUFFICES ASSUME NEW z \in Zone PROVE AfterFirst(q)[z + 1] = q[z + 2]
      OBVIOUS
    <3>1. z + 1 \in 1 .. 10 /\ z + 2 = (z + 1) + 1
      BY DEF Zone
    <3>2. \A i \in 1 .. 10 : Tail(q)[i] = q[i + 1]
      <4> DEFINE n == Len(q)
      <4>1. n - 1 = 10 /\ n \in Nat \ {0}
        BY <1>3
      <4> HIDE DEF n
      <4>2. q # <<>>
        BY <4>1 DEF n
      <4>3. \A i \in 1 .. n - 1 : Tail(q)[i] = q[i + 1]
        BY <4>1, <4>2 DEF n
      <4>4. QED
        BY <4>1, <4>3
    <3>3. QED
      BY <3>1, <3>2 DEF AfterFirst
  <2>3. [z \in Zone |-> U8(AfterFirst(q)[z + 1])] = [z \in Zone |-> U8(q[z + 2])]
    BY <2>2
  <2>4. QED
    BY <2>1, <2>3 DEF CallMulti
<1>4. QED
  BY <1>2, <1>3

\* A trigger's instruction is for the trigger and the controller in front.
LEMMA TriggerInstruction ==
    ASSUME NEW d \in Int, NEW side \in {"left", "right"}, NEW m \in Int, NEW q \in Seq(Int),
           NEW params, params = TriggerParams(d, IF side = "left" THEN 1 ELSE 2, m, q), NEW n
    PROVE  dsx_instruction(1, params, n) = Order(resolve_device(d, n), side, apply_trigger(m, q))
<1> DEFINE s == IF side = "left" THEN 1 ELSE 2
           call == apply_trigger(m, q)
           device == resolve_device(d, n)
<1>1. s \in Int /\ (s = 1 <=> side = "left") /\ (s # 1 <=> side = "right")
  OBVIOUS
<1>2. params = TriggerParams(d, s, m, q)
  OBVIOUS
<1> HIDE DEF s
<1>3. /\ Len(params) = 3 + Len(q) /\ Len(q) \in Nat
      /\ params[1] = d /\ params[2] = s /\ params[3] = m
      /\ SubSeq(params, 4, Len(params)) = q
  <2>1. TriggerParts(TriggerParams(d, s, m, q), d, s, m, q)
    BY <1>1, DsxParams
  <2>2. QED
    BY <1>2, <2>1 DEF TriggerParts
<1>4. dsx_instruction(1, params, n) =
        Order(resolve_device(IF Len(params) >= 1 THEN params[1] ELSE 0, n),
              IF params[2] = 1 THEN "left" ELSE "right",
              apply_trigger(params[3], SubSeq(params, 4, Len(params))))
  <2>1. Len(params) >= 3
    BY <1>3
  <2>2. QED
    BY <2>1 DEF dsx_instruction
<1>5. Len(params) >= 1
  BY <1>3
<1>6. (IF params[2] = 1 THEN "left" ELSE "right") = side
  BY <1>1, <1>3
<1>7. QED
  BY <1>3, <1>4, <1>5, <1>6

LEMMA TupleIsSeq ==
    ASSUME NEW S, NEW n \in Nat, NEW f \in [1 .. n -> S]
    PROVE  f \in Seq(S) /\ Len(f) = n
OBVIOUS

\* Orders as instructions.
DsxArray(c) == IF c.a = NoArray THEN <<>> ELSE [i \in 1 .. 10 |-> c.a[i - 1]]
SideNumber(side) == IF side = "left" THEN 1 ELSE 2
DsxTrigger(o) ==
    /\ o.device \in Int /\ o.side \in {"left", "right"} /\ o.call.op \in DOMAIN DsxMode
    /\ o.call.p \in Seq(Int) /\ DsxArray(o.call) \in Seq(Int)

ThroughDsx(o, n) == dsx_instruction(DsxForm(o).type, DsxForm(o).params, n)
LEMMA DsxTriggerThrough ==
    ASSUME NEW o, DsxTrigger(o), NEW n
    PROVE  ThroughDsx(o, n) =
               Order(resolve_device(o.device, n), o.side,
                     apply_trigger(DsxMode[o.call.op], o.call.p \o DsxArray(o.call)))
<1> DEFINE c == o.call
           m == DsxMode[c.op]
           s == SideNumber(o.side)
           arr == DsxArray(c)
           q == c.p \o arr
<1>1. /\ o.device \in Int /\ o.side \in {"left", "right"} /\ c.op \in DOMAIN DsxMode
      /\ c.p \in Seq(Int) /\ arr \in Seq(Int) /\ s \in Int /\ m \in Int
  BY SMTT(30) DEF DsxTrigger, DsxMode, SideNumber
<1>2. DsxForm(o) = [type |-> 1, params |-> <<o.device>> \o (<<s, m>> \o c.p \o arr)]
  <2>1. c.op \notin {"lightbar", "player_leds", "mute_led"}
    BY <1>1 DEF DsxMode
  <2> HIDE DEF m
  <2>2. QED
    BY <2>1 DEF DsxForm, SideNumber, DsxArray, m
<1> HIDE DEF m, s, arr
<1>3. <<s, m>> \o c.p \o arr = <<s, m>> \o q
  <2> DEFINE two == <<s, m>>
  <2>1. two \in Seq(Int)
    BY <1>1
  <2> HIDE DEF two
  <2>2. (two \o c.p) \o arr = two \o (c.p \o arr)
    <3>1. \A u, v, w \in Seq(Int) : (u \o v) \o w = u \o (v \o w)
      BY ConcatAssociative, SMTT(30)
    <3>2. c.p \in Seq(Int) /\ arr \in Seq(Int)
      BY <1>1
    <3>3. QED
      BY <2>1, <3>1, <3>2, Zenon
  <2>3. QED
    BY <2>2 DEF two
<1>4. q \in Seq(Int)
  BY <1>1
<1> HIDE DEF q
<1>5. DsxForm(o).type = 1 /\ DsxForm(o).params = TriggerParams(o.device, s, m, q)
  <2>1. DsxForm(o) = [type |-> 1, params |-> <<o.device>> \o (<<s, m>> \o q)]
    BY <1>2, <1>3
  <2> HIDE DEF c
  <2> DEFINE params == <<o.device>> \o (<<s, m>> \o q)
  <2>2. params = TriggerParams(o.device, s, m, q)
    BY DEF TriggerParams
  <2> HIDE DEF params
  <2>3. QED
    BY <2>1, <2>2 DEF params
<1>6. dsx_instruction(1, TriggerParams(o.device, s, m, q), n) =
        Order(resolve_device(o.device, n), o.side, apply_trigger(m, q))
  BY <1>1, <1>4, TriggerInstruction DEF s, SideNumber
<1>7. QED
  BY <1>5, <1>6 DEF ThroughDsx, m, q, arr

\* Numbers only, none, and an array with or without a number.
DsxNumbers(o) ==
    /\ o.device \in Int /\ o.side \in {"left", "right"} /\ o.call.a = NoArray
    /\ o.call.op \in DOMAIN Scalars \cup {"slope_feedback"}
    /\ o.call.p \in [1 .. IF o.call.op = "slope_feedback" THEN 4 ELSE Scalars[o.call.op] -> Int]
DsxOff(o) ==
    /\ o.device \in Int /\ o.side \in {"left", "right"} /\ o.call.a = NoArray
    /\ o.call.op = "off" /\ o.call.p = <<>>
DsxMulti(o) ==
    /\ o.device \in Int /\ o.side \in {"left", "right"} /\ o.call.a \in [Zone -> Int]
    /\ \/ o.call.op = "feedback_multi" /\ o.call.p = <<>>
       \/ o.call.op = "vibration_multi" /\ o.call.p \in [1 .. 1 -> Int]

LEMMA DsxModeRows ==
    ASSUME NEW op \in DOMAIN Scalars \cup {"slope_feedback"}
    PROVE  /\ DsxMode[op] \in DOMAIN DsxScalar
           /\ DsxScalar[DsxMode[op]].op = op
           /\ DsxScalar[DsxMode[op]].n = IF op = "slope_feedback" THEN 4 ELSE Scalars[op]
<1>1. CASE op = "feedback"
  BY <1>1, DsxRows DEF DsxMode, Scalars, DsxRow
<1>2. CASE op = "weapon"
  BY <1>2, DsxRows DEF DsxMode, Scalars, DsxRow
<1>3. CASE op = "vibration"
  BY <1>3, DsxRows DEF DsxMode, Scalars, DsxRow
<1>4. CASE op = "bow"
  BY <1>4, DsxRows DEF DsxMode, Scalars, DsxRow
<1>5. CASE op = "galloping"
  BY <1>5, DsxRows DEF DsxMode, Scalars, DsxRow
<1>6. CASE op = "machine"
  BY <1>6, DsxRows DEF DsxMode, Scalars, DsxRow
<1>7. CASE op = "slope_feedback"
  BY <1>7, DsxRows DEF DsxMode, Scalars, DsxRow
<1>8. QED
  BY <1>1, <1>2, <1>3, <1>4, <1>5, <1>6, <1>7 DEF Scalars

LEMMA DsxNumbersObeyed ==
    ASSUME NEW o, DsxNumbers(o), NEW n
    PROVE  ThroughDsx(o, n) = Order(resolve_device(o.device, n), o.side, CutCall(o.call))
<1> DEFINE c == o.call
           m == DsxMode[c.op]
           k == DsxScalar[m].n
<1>1. /\ c.op \in DOMAIN Scalars \cup {"slope_feedback"} /\ c.a = NoArray
      /\ m \in DOMAIN DsxScalar /\ DsxScalar[m].op = c.op
      /\ k = IF c.op = "slope_feedback" THEN 4 ELSE Scalars[c.op]
  BY DsxModeRows DEF DsxNumbers
<1>2. k \in Nat
  BY <1>1 DEF Scalars
<1>3. c.p \in [1 .. k -> Int]
  BY <1>1 DEF DsxNumbers
<1> HIDE DEF k
<1>4. c.p \in Seq(Int) /\ Len(c.p) = k
  BY <1>2, <1>3
<1>5. DsxArray(c) = <<>>
  BY <1>1 DEF DsxArray
<1>6. DsxTrigger(o)
  <2>1. c.op \in DOMAIN DsxMode
    BY <1>1 DEF Scalars, DsxMode
  <2>2. DsxArray(c) \in Seq(Int)
    BY <1>5
  <2>3. QED
    BY <1>4, <2>1, <2>2 DEF DsxTrigger, DsxNumbers
<1> HIDE DEF m
<1>7. c.p \o DsxArray(c) = c.p
  BY <1>4, <1>5, ConcatEmptySeq
<1>8. ThroughDsx(o, n) =
        Order(resolve_device(o.device, n), o.side, apply_trigger(m, c.p))
  BY <1>6, <1>7, DsxTriggerThrough DEF m
<1>9. apply_trigger(m, c.p) = [op |-> c.op, p |-> Cut(c.p), a |-> NoArray]
  BY <1>1, <1>4, ScalarApplied DEF k
<1>10. CutCall(c) = [op |-> c.op, p |-> Cut(c.p), a |-> NoArray]
  BY <1>1 DEF CutCall
<1>11. QED
  BY <1>8, <1>9, <1>10

LEMMA DsxOffObeyed ==
    ASSUME NEW o, DsxOff(o), NEW n
    PROVE  ThroughDsx(o, n) = Order(resolve_device(o.device, n), o.side, CutCall(o.call))
<1> DEFINE c == o.call
<1>1. /\ c.op = "off" /\ c.p = <<>> /\ c.a = NoArray /\ DsxArray(c) = <<>>
      /\ DsxMode[c.op] = 20
  BY DEF DsxOff, DsxArray, DsxMode
<1>2. DsxTrigger(o)
  BY <1>1 DEF DsxTrigger, DsxOff, DsxMode
<1>3. ThroughDsx(o, n) =
        Order(resolve_device(o.device, n), o.side, apply_trigger(20, c.p \o DsxArray(c)))
  BY <1>1, <1>2, DsxTriggerThrough
<1>4. apply_trigger(20, c.p \o DsxArray(c)) = OffCall
  <2>1. 20 \notin DOMAIN DsxScalar /\ 20 \notin DOMAIN PresetStrength
    BY DsxRows
  <2>2. QED
    BY <2>1 DEF apply_trigger
<1>5. CutCall(c) = OffCall
  <2>1. Cut(c.p) = <<>>
    BY <1>1 DEF Cut
  <2>2. QED
    BY <1>1, <2>1 DEF CutCall, OffCall
<1>6. QED
  BY <1>3, <1>4, <1>5

LEMMA DsxMultiObeyed ==
    ASSUME NEW o, DsxMulti(o), NEW n
    PROVE  ThroughDsx(o, n) = Order(resolve_device(o.device, n), o.side, CutCall(o.call))
<1> DEFINE c == o.call
           arr == [i \in 1 .. 10 |-> c.a[i - 1]]
<1>1. c.a \in [Zone -> Int] /\ c.a # NoArray
  <2>1. c.a \in [Zone -> Int]
    BY DEF DsxMulti
  <2>2. 0 \in DOMAIN c.a
    BY <2>1 DEF Zone
  <2>3. 0 \notin DOMAIN <<>>
    OBVIOUS
  <2>4. QED
    BY <2>1, <2>2, <2>3 DEF NoArray
<1>2. DsxArray(c) = arr
  BY <1>1 DEF DsxArray
<1>3. \A i \in 1 .. 10 : arr[i] = c.a[i - 1] /\ arr[i] \in Int
  <2> SUFFICES ASSUME NEW i \in 1 .. 10 PROVE arr[i] = c.a[i - 1] /\ arr[i] \in Int
    OBVIOUS
  <2>1. i - 1 \in Zone
    BY DEF Zone
  <2>2. QED
    BY <1>1, <2>1
<1>4. arr \in Seq(Int) /\ Len(arr) = 10
  <2>1. arr \in [1 .. 10 -> Int]
    BY <1>3
  <2> HIDE DEF arr
  <2>2. QED
    BY <2>1, TupleIsSeq
<1>5. \A z \in Zone : arr[z + 1] = c.a[z]
  <2> SUFFICES ASSUME NEW z \in Zone PROVE arr[z + 1] = c.a[z]
    OBVIOUS
  <2>1. z + 1 \in 1 .. 10 /\ (z + 1) - 1 = z
    BY DEF Zone
  <2>2. QED
    BY <1>3, <2>1
<1> HIDE DEF arr
<1>6. CutCall(c) = [op |-> c.op, p |-> Cut(c.p), a |-> [z \in Zone |-> U8(c.a[z])]]
  BY <1>1 DEF CutCall
<1>7. CASE c.op = "feedback_multi" /\ c.p = <<>>
  <2>1. DsxTrigger(o)
    BY <1>2, <1>4, <1>7 DEF DsxTrigger, DsxMulti, DsxMode
  <2>2. DsxMode[c.op] = 25
    BY <1>7 DEF DsxMode
  <2>3. c.p \o arr = arr
    BY <1>4, <1>7, ConcatEmptySeq
  <2>4. ThroughDsx(o, n) =
          Order(resolve_device(o.device, n), o.side, apply_trigger(25, arr))
    BY <1>2, <2>1, <2>2, <2>3, DsxTriggerThrough
  <2>5. apply_trigger(25, arr) =
          [op |-> "feedback_multi", p |-> Cut(<<>>), a |-> [z \in Zone |-> U8(arr[z + 1])]]
    BY <1>4, ArrayApplied
  <2>6. [z \in Zone |-> U8(arr[z + 1])] = [z \in Zone |-> U8(c.a[z])]
    BY <1>5
  <2>7. QED
    BY <1>6, <1>7, <2>4, <2>5, <2>6
<1>8. CASE c.op = "vibration_multi" /\ c.p \in [1 .. 1 -> Int]
  <2> DEFINE q == c.p \o arr
  <2>1. c.p \in Seq(Int) /\ Len(c.p) = 1
    BY <1>8, TupleIsSeq
  <2>2. DsxTrigger(o)
    BY <1>2, <1>4, <1>8, <2>1 DEF DsxTrigger, DsxMulti, DsxMode
  <2>3. DsxMode[c.op] = 26
    BY <1>8 DEF DsxMode
  <2>4. /\ q \in Seq(Int) /\ Len(q) = 11 /\ q[1] = c.p[1]
        /\ \A i \in 1 .. 10 : q[i + 1] = arr[i]
    <3>1. /\ OfLength(q, 11) /\ Holds(q, 1, arr, 10) /\ Holds(q, 0, c.p, 1)
      <4>1. OfLength(c.p, 1) /\ OfLength(arr, 10)
        BY <1>4, <2>1 DEF OfLength
      <4>2. QED
        BY <4>1, Joined, 11 = 1 + 10
    <3> HIDE DEF q
    <3>2. q[1] = c.p[1]
      <4>1. 1 \in 1 .. 1 /\ 0 + 1 = 1
        OBVIOUS
      <4>2. QED
        BY <3>1, <4>1 DEF Holds
    <3>3. ASSUME NEW i \in 1 .. 10 PROVE q[i + 1] = arr[i]
      <4>1. 1 + i = i + 1
        OBVIOUS
      <4>2. QED
        BY <3>1, <4>1 DEF Holds
    <3>4. q \in Seq(Int) /\ Len(q) = 11
      BY <3>1, Zenon DEF OfLength
    <3>5. QED
      BY <3>2, <3>3, <3>4, Zenon
  <2>5. ThroughDsx(o, n) =
          Order(resolve_device(o.device, n), o.side, apply_trigger(26, q))
    BY <1>2, <2>2, <2>3, DsxTriggerThrough
  <2> HIDE DEF q
  <2>6. apply_trigger(26, q) =
          [op |-> "vibration_multi", p |-> Cut(<<q[1]>>), a |-> [z \in Zone |-> U8(q[z + 2])]]
    BY <2>4, ArrayApplied
  <2>7. [z \in Zone |-> U8(q[z + 2])] = [z \in Zone |-> U8(c.a[z])]
    <3>1. ASSUME NEW z \in Zone PROVE q[z + 2] = c.a[z]
      <4>1. z + 1 \in 1 .. 10 /\ (z + 1) + 1 = z + 2
        BY DEF Zone
      <4>2. QED
        BY <1>5, <2>4, <4>1
    <3>2. QED
      BY <3>1
  <2>8. Cut(<<q[1]>>) = Cut(c.p)
    BY <1>8, <2>4 DEF Cut
  <2>9. QED
    BY <1>6, <1>8, <2>5, <2>6, <2>7, <2>8
<1>9. QED
  BY <1>7, <1>8 DEF DsxMulti

\* A number below 1024 is its ten bits.
TenBits(n) == [z \in 0 .. 9 |-> (n \div 2 ^ z) % 2]
TenMake(d) ==
    d[0] + 2 * d[1] + 4 * d[2] + 8 * d[3] + 16 * d[4] + 32 * d[5] + 64 * d[6] + 128 * d[7]
         + 256 * d[8] + 512 * d[9]
LEMMA TenBitsMake ==
    ASSUME NEW n \in 0 .. 1023
    PROVE  n = TenMake(TenBits(n))
<1> DEFINE q1 == n \div 2
           q2 == n \div 4
           q3 == n \div 8
           q4 == n \div 16
           q5 == n \div 32
           q6 == n \div 64
           q7 == n \div 128
           q8 == n \div 256
           q9 == n \div 512
<1>1. /\ q1 = 2 * q2 + (q1 % 2) /\ q2 = 2 * q3 + (q2 % 2) /\ q3 = 2 * q4 + (q3 % 2)
      /\ q4 = 2 * q5 + (q4 % 2)
  BY SMT
<1>2. q5 = 2 * q6 + (q5 % 2) /\ q6 = 2 * q7 + (q6 % 2)
  BY SMT
<1>3. q7 = 2 * q8 + (q7 % 2) /\ q8 = 2 * q9 + (q8 % 2)
  BY SMT
<1>4. n = 2 * q1 + (n % 2) /\ q9 % 2 = q9
  BY SMT
<1>5. /\ q1 \in Nat /\ q2 \in Nat /\ q3 \in Nat /\ q4 \in Nat /\ q5 \in Nat /\ q6 \in Nat
      /\ q7 \in Nat /\ q8 \in Nat /\ q9 \in Nat
  BY SMT
<1> HIDE DEF q1, q2, q3, q4, q5, q6, q7, q8, q9
<1>6. n = (n % 2) + 2 * (q1 % 2) + 4 * (q2 % 2) + 8 * (q3 % 2) + 16 * (q4 % 2) + 32 * (q5 % 2)
           + 64 * (q6 % 2) + 128 * (q7 % 2) + 256 * (q8 % 2) + 512 * (q9 % 2)
  BY <1>1, <1>2, <1>3, <1>4, <1>5, SMT
<1> DEFINE d == TenBits(n)
<1>7. /\ d[0] = n % 2 /\ d[1] = q1 % 2 /\ d[2] = q2 % 2 /\ d[3] = q3 % 2 /\ d[4] = q4 % 2
      /\ d[5] = q5 % 2 /\ d[6] = q6 % 2 /\ d[7] = q7 % 2 /\ d[8] = q8 % 2 /\ d[9] = q9 % 2
  <2>1. n \div 1 = n
    BY SMT
  <2>2. /\ d[0] = (n \div 2 ^ 0) % 2 /\ d[1] = (n \div 2 ^ 1) % 2 /\ d[2] = (n \div 2 ^ 2) % 2
        /\ d[3] = (n \div 2 ^ 3) % 2 /\ d[4] = (n \div 2 ^ 4) % 2 /\ d[5] = (n \div 2 ^ 5) % 2
        /\ d[6] = (n \div 2 ^ 6) % 2 /\ d[7] = (n \div 2 ^ 7) % 2 /\ d[8] = (n \div 2 ^ 8) % 2
        /\ d[9] = (n \div 2 ^ 9) % 2
    BY DEF TenBits
  <2> HIDE DEF d
  <2>3. QED
    BY <2>1, <2>2 DEF q1, q2, q3, q4, q5, q6, q7, q8, q9
<1> HIDE DEF d
<1>8. n = TenMake(d)
  BY <1>6, <1>7 DEF TenMake
<1>9. QED
  BY <1>8 DEF d
InTenBits(n) == n \in 0 .. 1023
LEMMA SameTenBits ==
    ASSUME NEW n, NEW m, InTenBits(n), InTenBits(m), TenBits(n) = TenBits(m)
    PROVE  n = m
<1>1. ASSUME NEW v, InTenBits(v) PROVE v = TenMake(TenBits(v))
  BY <1>1, TenBitsMake DEF InTenBits
<1>2. n = TenMake(TenBits(n)) /\ m = TenMake(TenBits(m))
  BY <1>1, Zenon
<1>3. QED
  BY <1>2, Zenon

\* A mask of five LEDs taken apart and put together again.
Lamp(mask, i) == (mask \div 2 ^ (i - 1)) % 2
LEMMA MaskMadeAgain ==
    ASSUME NEW mask \in 0 .. 31, NEW lit, lit = {i \in 0 .. 4 : Lamp(mask, i + 1) # 0}
    PROVE  Mask(lit) = mask
<1> DEFINE n == Mask(lit)
<1>1. lit \in SUBSET Zone
  BY DEF Zone
<1>2. n \in 0 .. 1023 /\ \A z \in 0 .. 15 : HasBit(n, z) <=> z \in lit
  BY <1>1, MaskBits
<1> HIDE DEF n
<1> DEFINE w == [k \in 0 .. 9 |-> 2 ^ k]
<1>3. /\ w[0] = 1 /\ w[1] = 2 /\ w[2] = 4 /\ w[3] = 8 /\ w[4] = 16 /\ w[5] = 32
      /\ w[6] = 64 /\ w[7] = 128 /\ w[8] = 256 /\ w[9] = 512
      /\ \A k \in 0 .. 9 : w[k] = 2 ^ k
  OBVIOUS
<1> HIDE DEF w
<1>4. ASSUME NEW z \in 0 .. 4 PROVE (n \div w[z]) % 2 = (mask \div w[z]) % 2
  <2> DEFINE d == w[z]
             a == (n \div d) % 2
             b == (mask \div d) % 2
  <2>1. d \in Nat \ {0} /\ d = 2 ^ z
    <3>1. z \in {0, 1, 2, 3, 4} /\ z \in 0 .. 9
      OBVIOUS
    <3>2. d = 2 ^ z
      BY <1>3, <3>1
    <3>3. d \in Nat \ {0}
      BY <1>3, <3>1
    <3>4. QED
      BY <3>2, <3>3
  <2>2. a \in 0 .. 1 /\ b \in 0 .. 1
    <3> HIDE DEF d
    <3>1. QED
      BY <1>2, <2>1
  <2>3. a = 1 <=> z \in lit
    <3>1. HasBit(n, z) <=> z \in lit
      BY <1>2
    <3>2. a = (n \div 2 ^ z) % 2
      BY <2>1
    <3>3. QED
      BY <3>1, <3>2, Zenon DEF HasBit
  <2>4. z \in lit <=> b # 0
    <3>1. (z + 1) - 1 = z
      OBVIOUS
    <3>2. Lamp(mask, z + 1) = b
      BY <2>1, <3>1 DEF Lamp
    <3>3. QED
      BY <3>2
  <2> HIDE DEF a, b
  <2>5. a = b
    BY <2>2, <2>3, <2>4
  <2>6. QED
    BY <2>5 DEF a, b
<1>5. ASSUME NEW z \in 5 .. 9 PROVE (n \div w[z]) % 2 = 0
  <2> DEFINE d == w[z]
             a == (n \div d) % 2
  <2>1. d \in Nat \ {0} /\ d = 2 ^ z
    <3>1. z \in {5, 6, 7, 8, 9} /\ z \in 0 .. 9
      OBVIOUS
    <3>2. d = 2 ^ z
      BY <1>3, <3>1
    <3>3. d \in Nat \ {0}
      BY <1>3, <3>1
    <3>4. QED
      BY <3>2, <3>3
  <2>2. a \in 0 .. 1
    <3> HIDE DEF d
    <3>1. QED
      BY <1>2, <2>1
  <2>3. a = 1 <=> z \in lit
    <3>1. HasBit(n, z) <=> z \in lit
      BY <1>2
    <3>2. a = (n \div 2 ^ z) % 2
      BY <2>1
    <3>3. QED
      BY <3>1, <3>2, Zenon DEF HasBit
  <2>4. z \notin lit
    OBVIOUS
  <2> HIDE DEF a
  <2>5. a = 0
    BY <2>2, <2>3, <2>4
  <2>6. QED
    BY <2>5 DEF a
<1>6. ASSUME NEW z \in 5 .. 9 PROVE (mask \div w[z]) % 2 = 0
  <2>1. /\ (mask \div 32) % 2 = 0 /\ (mask \div 64) % 2 = 0 /\ (mask \div 128) % 2 = 0
        /\ (mask \div 256) % 2 = 0 /\ (mask \div 512) % 2 = 0
    BY SMT
  <2>2. z = 5 \/ z = 6 \/ z = 7 \/ z = 8 \/ z = 9
    OBVIOUS
  <2>3. QED
    BY <1>3, <2>1, <2>2
<1>7. ASSUME NEW z \in 0 .. 9 PROVE (n \div 2 ^ z) % 2 = (mask \div 2 ^ z) % 2
  <2>1. w[z] = 2 ^ z /\ (z \in 0 .. 4 \/ z \in 5 .. 9)
    <3>1. \A k \in 0 .. 9 : w[k] = 2 ^ k
      BY <1>3
    <3>2. w[z] = 2 ^ z
      BY <3>1, Zenon
    <3>3. z \in 0 .. 4 \/ z \in 5 .. 9
      OBVIOUS
    <3>4. QED
      BY <3>2, <3>3
  <2>2. (n \div w[z]) % 2 = (mask \div w[z]) % 2
    BY <1>4, <1>5, <1>6, <2>1
  <2>3. QED
    BY <2>1, <2>2, Zenon
<1>8. mask \in 0 .. 1023 /\ n \in 0 .. 1023
  BY <1>2
<1>9. n = mask
  <2>1. TenBits(n) = TenBits(mask)
    BY <1>7 DEF TenBits
  <2>2. InTenBits(n) /\ InTenBits(mask)
    BY <1>8 DEF InTenBits
  <2>3. QED
    BY <2>1, <2>2, Zenon, SameTenBits
<1>10. QED
  BY <1>9 DEF n

\* What follows the first element.
LEMMA AllButFirst ==
    ASSUME NEW s \in Seq(Int), NEW k \in Nat, Len(s) = k + 1
    PROVE  LET u == SubSeq(s, 2, k + 1)
           IN  u \in Seq(Int) /\ Len(u) = k /\ \A i \in 1 .. k : u[i] = s[1 + i]
OBVIOUS

\* Lights as instructions.
LEMMA DsxLightbarObeyed ==
    ASSUME NEW o, o.call.op = "lightbar", o.call.p \in [1 .. 3 -> Int], o.call.a = NoArray,
           o.side = NoSide, o.device \in Int, NEW n
    PROVE  ThroughDsx(o, n) = Order(resolve_device(o.device, n), o.side, CutCall(o.call))
<1> DEFINE p == o.call.p
           d == o.device
           params == <<d>> \o p
<1>1. DsxForm(o) = [type |-> 2, params |-> params]
  BY DEF DsxForm
<1>2. p \in Seq(Int) /\ Len(p) = 3
  BY TupleIsSeq
<1> HIDE DEF p
<1>3. /\ params \in Seq(Int) /\ Len(params) = 4 /\ params[1] = d
      /\ \A i \in 1 .. 3 : params[1 + i] = p[i]
  <2> DEFINE one == <<d>>
  <2>1. one \in Seq(Int) /\ Len(one) = 1 /\ one[1] = d
    OBVIOUS
  <2> HIDE DEF one
  <2>2. OfLength(one, 1) /\ OfLength(p, 3) /\ 4 = 1 + 3
    BY <1>2, <2>1 DEF OfLength
  <2>3. OfLength(one \o p, 4) /\ Holds(one \o p, 1, p, 3) /\ Holds(one \o p, 0, one, 1)
    BY <2>2, Joined
  <2>4. params = one \o p
    BY DEF one
  <2> HIDE DEF params
  <2>5. params[1] = d
    <3>1. 0 + 1 = 1 /\ 1 \in 1 .. 1
      OBVIOUS
    <3>2. QED
      BY <2>1, <2>3, <2>4, <3>1 DEF Holds
  <2>6. QED
    BY <2>3, <2>4, <2>5 DEF Holds, OfLength
<1> HIDE DEF params
<1>4. SubSeq(params, 2, 4) = p
  <2> DEFINE u == SubSeq(params, 2, 4)
  <2>1. u \in Seq(Int) /\ Len(u) = 3 /\ \A i \in 1 .. 3 : u[i] = params[1 + i]
    <3>1. PICK k \in Nat : k = 3
      OBVIOUS
    <3>2. Len(params) = k + 1 /\ u = SubSeq(params, 2, k + 1)
      BY <1>3, <3>1
    <3> HIDE DEF u
    <3>3. u \in Seq(Int) /\ Len(u) = k /\ \A i \in 1 .. k : u[i] = params[1 + i]
      BY <1>3, <3>2, AllButFirst
    <3>4. QED
      BY <3>1, <3>3
  <2> HIDE DEF u
  <2>2. u = p
    BY <1>2, <1>3, <2>1, SeqEqual, ZenonT(40)
  <2>3. QED
    BY <2>2 DEF u
<1>5. dsx_instruction(2, params, n) = Order(resolve_device(d, n), NoSide, Call("lightbar", p))
  <2> DEFINE call == Call("lightbar", SubSeq(params, 2, 4))
             device == resolve_device(IF Len(params) >= 1 THEN params[1] ELSE 0, n)
  <2>1. Len(params) >= 4 /\ Len(params) >= 1
    BY <1>3
  <2> HIDE DEF call, device
  <2>2. dsx_instruction(2, params, n) = Order(device, NoSide, call)
    BY <2>1 DEF dsx_instruction, call, device
  <2>3. QED
    BY <1>3, <1>4, <2>1, <2>2 DEF call, device
<1>6. QED
  BY <1>1, <1>5 DEF ThroughDsx, Call, CutCall, p

LEMMA DsxMuteObeyed ==
    ASSUME NEW o, o.call.op = "mute_led", o.call.p \in [1 .. 1 -> 0 .. 2], o.call.a = NoArray,
           o.side = NoSide, o.device \in Int, NEW n
    PROVE  ThroughDsx(o, n) = Order(resolve_device(o.device, n), o.side, CutCall(o.call))
<1> DEFINE p == o.call.p
           d == o.device
           v == (p[1] + 2) % 3
           params == <<d>> \o <<v>>
           led == IF params[2] \in {0, 1} THEN params[2] + 1 ELSE 0
<1>1. DsxForm(o) = [type |-> 5, params |-> params]
  BY DEF DsxForm
<1>2. params[1] = d /\ params[2] = v /\ Len(params) = 2
  OBVIOUS
<1>3. led = p[1]
  BY <1>2
<1> HIDE DEF p, params
<1>4. dsx_instruction(5, params, n) = Order(resolve_device(d, n), NoSide, Call("mute_led", <<led>>))
  <2> DEFINE call == Call("mute_led", <<led>>)
             device == resolve_device(IF Len(params) >= 1 THEN params[1] ELSE 0, n)
  <2>1. Len(params) >= 2 /\ Len(params) >= 1
    BY <1>2
  <2> HIDE DEF call, device
  <2>2. dsx_instruction(5, params, n) = Order(device, NoSide, call)
    BY <2>1 DEF dsx_instruction, call, device
  <2>3. QED
    BY <1>2, <2>1, <2>2 DEF call, device
<1>5. Cut(<<p[1]>>) = Cut(p)
  BY DEF Cut, p
<1>6. QED
  BY <1>1, <1>3, <1>4, <1>5 DEF ThroughDsx, Call, CutCall, p

LEMMA DsxLedsObeyed ==
    ASSUME NEW o, o.call.op = "player_leds", o.call.p \in [1 .. 1 -> 0 .. 31], o.call.a = NoArray,
           o.side = NoSide, o.device \in Int, NEW n
    PROVE  ThroughDsx(o, n) = Order(resolve_device(o.device, n), o.side, CutCall(o.call))
<1> DEFINE p == o.call.p
           d == o.device
           lamps == [i \in 1 .. 5 |-> (p[1] \div 2 ^ (i - 1)) % 2]
           params == <<d>> \o lamps
           lit == {i \in 0 .. 4 : params[2 + i] # 0}
<1>1. DsxForm(o) = [type |-> 3, params |-> params]
  BY DEF DsxForm
<1>2. p[1] \in 0 .. 31
  OBVIOUS
<1>3. lamps \in Seq(Int) /\ Len(lamps) = 5 /\ \A i \in 1 .. 5 : lamps[i] = Lamp(p[1], i)
  <2>1. \A i \in 1 .. 5 : lamps[i] = Lamp(p[1], i)
    BY DEF Lamp
  <2>2. ASSUME NEW i \in 1 .. 5 PROVE Lamp(p[1], i) \in Int
    <3> DEFINE z == i - 1
    <3>1. z \in {0, 1, 2, 3, 4} /\ z \in 0 .. 4
      OBVIOUS
    <3> HIDE DEF z
    <3>2. 2 ^ z \in Nat \ {0}
      <4> DEFINE w == [k \in 0 .. 4 |-> 2 ^ k]
      <4>1. /\ w[0] = 1 /\ w[1] = 2 /\ w[2] = 4 /\ w[3] = 8 /\ w[4] = 16
            /\ \A k \in 0 .. 4 : w[k] = 2 ^ k
        OBVIOUS
      <4> HIDE DEF w
      <4>2. w[z] = 2 ^ z
        BY <3>1, <4>1
      <4>3. w[z] \in Nat \ {0}
        BY <3>1, <4>1
      <4>4. QED
        BY <4>2, <4>3
    <3>3. QED
      BY <1>2, <3>2 DEF Lamp, z
  <2>3. lamps \in [1 .. 5 -> Int]
    BY <2>1, <2>2
  <2> HIDE DEF lamps
  <2>4. QED
    BY <2>1, <2>3, TupleIsSeq, ZenonT(40)
<1> HIDE DEF lamps
<1>4. /\ params \in Seq(Int) /\ Len(params) = 6 /\ params[1] = d
      /\ \A i \in 1 .. 5 : params[1 + i] = lamps[i]
  <2> DEFINE one == <<d>>
  <2>1. one \in Seq(Int) /\ Len(one) = 1 /\ one[1] = d
    OBVIOUS
  <2> HIDE DEF one
  <2>2. OfLength(one, 1) /\ OfLength(lamps, 5) /\ 6 = 1 + 5
    BY <1>3, <2>1 DEF OfLength
  <2>3. OfLength(one \o lamps, 6) /\ Holds(one \o lamps, 1, lamps, 5) /\ Holds(one \o lamps, 0, one, 1)
    BY <2>2, Joined
  <2>4. params = one \o lamps
    BY DEF one
  <2> HIDE DEF params
  <2>5. params[1] = d
    <3>1. 0 + 1 = 1 /\ 1 \in 1 .. 1
      OBVIOUS
    <3>2. QED
      BY <2>1, <2>3, <2>4, <3>1 DEF Holds
  <2>6. QED
    BY <2>3, <2>4, <2>5 DEF Holds, OfLength
<1>5. Mask(lit) = p[1]
  <2>1. lit = {i \in 0 .. 4 : Lamp(p[1], i + 1) # 0}
    <3>1. ASSUME NEW i \in 0 .. 4 PROVE params[2 + i] = Lamp(p[1], i + 1)
      <4>1. i + 1 \in 1 .. 5 /\ 1 + (i + 1) = 2 + i
        OBVIOUS
      <4>2. QED
        BY <1>3, <1>4, <4>1
    <3>2. QED
      BY <3>1
  <2> HIDE DEF lit
  <2>2. QED
    BY <1>2, <2>1, MaskMadeAgain
<1> HIDE DEF p, params, lit
<1>6. dsx_instruction(3, params, n) =
        Order(resolve_device(d, n), NoSide, Call("player_leds", <<Mask(lit)>>))
  <2> DEFINE call == Call("player_leds", <<Mask(lit)>>)
             device == resolve_device(IF Len(params) >= 1 THEN params[1] ELSE 0, n)
  <2>1. Len(params) >= 6 /\ Len(params) >= 1
    BY <1>4
  <2>2. dsx_instruction(3, params, n) = Order(device, NoSide, call)
    <3> DEFINE T(x) == Order(device, NoSide, Call("player_leds", <<Mask(x)>>))
    <3>1. dsx_instruction(3, params, n) = T({i \in 0 .. 4 : params[2 + i] # 0})
      <4> HIDE DEF device
      <4>1. QED
        BY <2>1 DEF dsx_instruction, device
    <3>2. QED
      BY <3>1 DEF lit
  <2> HIDE DEF call, device
  <2>3. QED
    BY <1>4, <2>1, <2>2 DEF call, device
<1>7. Cut(<<p[1]>>) = Cut(p)
  BY DEF Cut, p
<1>8. QED
  BY <1>1, <1>5, <1>6, <1>7 DEF ThroughDsx, Call, CutCall, p

LEMMA SmallPowers ==
    /\ 2 ^ 0 \in Nat \ {0} /\ 2 ^ 1 \in Nat \ {0} /\ 2 ^ 2 \in Nat \ {0}
    /\ 2 ^ 3 \in Nat \ {0} /\ 2 ^ 4 \in Nat \ {0}
BY SMT

\* The ints of an order's instruction are the instruction of its ints.
HeldOrder(o) == Order(IntOf(o.device), o.side, IntCall(o.call))
DsxHeld(o) ==
    /\ DsxForm(HeldOrder(o)).type = DsxForm(o).type
    /\ DsxForm(HeldOrder(o)).params = Ints(DsxForm(o).params)

LEMMA IntsSeq ==
    ASSUME NEW p \in Seq(Int)
    PROVE  Ints(p) \in Seq(Int) /\ Len(Ints(p)) = Len(p) /\ \A i \in 1 .. Len(p) : Ints(p)[i] = IntOf(p[i])
<1> DEFINE n == Len(p)
           q == [i \in 1 .. n |-> IntOf(p[i])]
<1>1. n \in Nat /\ DOMAIN p = 1 .. n /\ \A i \in 1 .. n : p[i] \in Int
  OBVIOUS
<1> HIDE DEF n
<1>2. Ints(p) = q
  BY <1>1 DEF Ints
<1>3. q \in [1 .. n -> Int] /\ \A i \in 1 .. n : q[i] = IntOf(p[i])
  BY <1>1, IntsOf
<1> HIDE DEF q
<1>4. q \in Seq(Int) /\ Len(q) = n
  BY <1>1, <1>3, TupleIsSeq
<1>5. QED
  BY <1>2, <1>3, <1>4 DEF n

LEMMA IntsJoined ==
    ASSUME NEW u \in Seq(Int), NEW v \in Seq(Int)
    PROVE  Ints(u \o v) = Ints(u) \o Ints(v)
<1> DEFINE m == Len(u)
           n == Len(v)
           w == u \o v
           a == Ints(u)
           b == Ints(v)
<1>1. /\ m \in Nat /\ n \in Nat /\ w \in Seq(Int) /\ Len(w) = m + n
      /\ \A i \in 1 .. m + n : w[i] = IF i <= m THEN u[i] ELSE v[i - m]
  BY ConcatProperties
<1>2. /\ a \in Seq(Int) /\ Len(a) = m /\ \A i \in 1 .. m : a[i] = IntOf(u[i])
      /\ b \in Seq(Int) /\ Len(b) = n /\ \A i \in 1 .. n : b[i] = IntOf(v[i])
  BY IntsSeq
<1>3. Ints(w) \in Seq(Int) /\ Len(Ints(w)) = m + n /\ \A i \in 1 .. m + n : Ints(w)[i] = IntOf(w[i])
  BY <1>1, IntsSeq
<1> HIDE DEF m, n, w, a, b
<1>4. /\ a \o b \in Seq(Int) /\ Len(a \o b) = m + n
      /\ \A i \in 1 .. m + n : (a \o b)[i] = IF i <= m THEN a[i] ELSE b[i - m]
  BY <1>2, ConcatProperties
<1>5. ASSUME NEW i \in 1 .. m + n PROVE Ints(w)[i] = (a \o b)[i]
  <2>1. CASE i <= m
    <3>1. i \in 1 .. m
      BY <1>1, <2>1
    <3>2. w[i] = u[i] /\ (a \o b)[i] = a[i]
      BY <1>1, <1>4, <2>1
    <3>3. a[i] = IntOf(u[i])
      BY <1>2, <3>1
    <3>4. QED
      BY <1>3, <3>2, <3>3
  <2>2. CASE ~(i <= m)
    <3> DEFINE j == i - m
    <3>1. j \in 1 .. n
      BY <1>1, <2>2
    <3>2. w[i] = v[j] /\ (a \o b)[i] = b[j]
      BY <1>1, <1>4, <2>2
    <3> HIDE DEF j
    <3>3. b[j] = IntOf(v[j])
      BY <1>2, <3>1
    <3>4. QED
      BY <1>3, <3>2, <3>3
  <2>3. QED
    BY <2>1, <2>2
<1>6. Ints(w) = a \o b
  BY <1>1, <1>3, <1>4, <1>5, SeqEqual
<1>7. QED
  BY <1>6 DEF w, a, b

LEMMA OneHeld == \A d \in Int : Ints(<<d>>) = <<IntOf(d)>> /\ <<d>> \in Seq(Int)
BY DEF Ints
LEMMA IntCallParts ==
    ASSUME NEW c
    PROVE  /\ IntCall(c).op = c.op /\ IntCall(c).p = Ints(c.p)
           /\ c.a = NoArray => IntCall(c).a = NoArray
           /\ c.a \in [Zone -> Int] =>
                /\ IntCall(c).a \in [Zone -> Int] /\ IntCall(c).a # NoArray /\ c.a # NoArray
                /\ \A z \in Zone : IntCall(c).a[z] = IntOf(c.a[z])
<1>1. IntCall(c).op = c.op /\ IntCall(c).p = Ints(c.p)
  BY DEF IntCall
<1>2. c.a = NoArray => IntCall(c).a = NoArray
  BY DEF IntCall
<1>3. ASSUME c.a \in [Zone -> Int]
      PROVE  /\ IntCall(c).a \in [Zone -> Int] /\ IntCall(c).a # NoArray /\ c.a # NoArray
             /\ \A z \in Zone : IntCall(c).a[z] = IntOf(c.a[z])
  <2>1. \A f \in [Zone -> Int] : f # NoArray
    <3>1. 0 \in Zone /\ 0 \notin DOMAIN NoArray
      BY DEF Zone, NoArray
    <3>2. QED
      BY <3>1
  <2> DEFINE g == [z \in Zone |-> IntOf(c.a[z])]
  <2>2. IntCall(c).a = g
    BY <1>3, <2>1 DEF IntCall
  <2>3. g \in [Zone -> Int] /\ \A z \in Zone : g[z] = IntOf(c.a[z])
    BY <1>3, IntsOf
  <2> HIDE DEF g
  <2>4. QED
    BY <1>3, <2>1, <2>2, <2>3
<1>4. QED
  BY <1>1, <1>2, <1>3

LEMMA DsxTriggerHeld ==
    ASSUME NEW o, DsxTrigger(o), o.call.a = NoArray \/ o.call.a \in [Zone -> Int]
    PROVE  DsxHeld(o)
<1> DEFINE c == o.call
           h == HeldOrder(o)
           m == DsxMode[c.op]
           s == SideNumber(o.side)
           arr == DsxArray(c)
           two == <<s, m>>
           one == <<o.device>>
<1>1. /\ o.device \in Int /\ c.op \in DOMAIN DsxMode /\ c.p \in Seq(Int) /\ arr \in Seq(Int)
      /\ s \in 1 .. 2 /\ m \in 0 .. 255
  <2>1. o.device \in Int /\ c.op \in DOMAIN DsxMode /\ c.p \in Seq(Int) /\ arr \in Seq(Int)
    BY DEF DsxTrigger
  <2>2. s \in 1 .. 2
    BY DEF SideNumber
  <2>3. \A op \in DOMAIN DsxMode : DsxMode[op] \in 0 .. 255
    BY DEF DsxMode
  <2> HIDE DEF c, s, arr
  <2>4. m \in 0 .. 255
    BY <2>1, <2>3
  <2>5. QED
    BY <2>1, <2>2, <2>4
<1>2. h.device = IntOf(o.device) /\ h.side = o.side /\ h.call = IntCall(c)
  BY DEF HeldOrder, Order
<1>3. h.call.op = c.op /\ h.call.p = Ints(c.p)
  BY <1>2, IntCallParts
<1> HIDE DEF h
<1>4. DsxArray(h.call) = Ints(arr)
  <2>1. CASE c.a = NoArray
    <3>1. h.call.a = NoArray
      BY <1>2, <2>1, IntCallParts
    <3>2. arr = <<>> /\ DsxArray(h.call) = <<>>
      BY <2>1, <3>1 DEF DsxArray
    <3>3. QED
      BY <3>2 DEF Ints
  <2>2. CASE c.a \in [Zone -> Int]
    <3>1. h.call.a # NoArray /\ c.a # NoArray /\ \A z \in Zone : h.call.a[z] = IntOf(c.a[z])
      BY <1>2, <2>2, IntCallParts
    <3>2. arr = [i \in 1 .. 10 |-> c.a[i - 1]] /\ DsxArray(h.call) = [i \in 1 .. 10 |-> h.call.a[i - 1]]
      BY <3>1 DEF DsxArray
    <3>3. \A i \in 1 .. 10 : i - 1 \in Zone
      BY DEF Zone
    <3>4. QED
      BY <3>1, <3>2, <3>3 DEF Ints
  <2>3. QED
    BY <2>1, <2>2
<1>5. DsxForm(o) = [type |-> 1, params |-> one \o ((two \o c.p) \o arr)]
  <2>1. c.op \notin {"lightbar", "player_leds", "mute_led"}
    BY <1>1 DEF DsxMode
  <2> HIDE DEF m
  <2>2. QED
    BY <2>1 DEF DsxForm, SideNumber, DsxArray, m
<1>6. DsxForm(h) = [type |-> 1, params |-> <<IntOf(o.device)>> \o ((two \o Ints(c.p)) \o Ints(arr))]
  <2>1. c.op \notin {"lightbar", "player_leds", "mute_led"}
    BY <1>1 DEF DsxMode
  <2>2. two = <<IF h.side = "left" THEN 1 ELSE 2, DsxMode[h.call.op]>>
    BY <1>2, <1>3 DEF SideNumber
  <2>3. Ints(arr) = IF h.call.a = NoArray THEN <<>> ELSE [i \in 1 .. 10 |-> h.call.a[i - 1]]
    BY <1>4 DEF DsxArray
  <2> HIDE DEF m, arr, two
  <2>4. QED
    BY <1>2, <1>3, <2>1, <2>2, <2>3 DEF DsxForm
<1> HIDE DEF arr, m, s
<1>7. two \in Seq(Int) /\ Ints(two) = two
  <2>1. s \in 0 .. 255 /\ m \in 0 .. 255
    BY <1>1
  <2>2. two \in [1 .. 2 -> 0 .. 255]
    BY <2>1
  <2> HIDE DEF two
  <2>3. two \in [1 .. 2 -> Int]
    BY <2>2
  <2>4. two \in Seq(Int)
    BY <2>3, TupleIsSeq
  <2>5. Ints(two) = two
    BY <2>2, BytesKept
  <2>6. QED
    BY <2>4, <2>5
<1> HIDE DEF two
<1>8. one \in Seq(Int) /\ Ints(one) = <<IntOf(o.device)>>
  BY <1>1, OneHeld
<1> HIDE DEF one
<1> DEFINE p == c.p
<1>9. p \in Seq(Int)
  BY <1>1
<1> HIDE DEF p
<1>10. two \o p \in Seq(Int) /\ Ints(two \o p) = two \o Ints(p)
  <2>1. Ints(two \o p) = Ints(two) \o Ints(p)
    BY <1>7, <1>9, IntsJoined
  <2>2. two \o p \in Seq(Int)
    BY <1>7, <1>9
  <2>3. QED
    BY <1>7, <2>1, <2>2
<1> DEFINE mid == two \o p
<1>11. mid \in Seq(Int) /\ Ints(mid) = two \o Ints(p)
  BY <1>10
<1> HIDE DEF mid
<1>12. mid \o arr \in Seq(Int) /\ Ints(mid \o arr) = Ints(mid) \o Ints(arr)
  <2>1. mid \in Seq(Int) /\ arr \in Seq(Int)
    BY <1>1, <1>11
  <2>2. Ints(mid \o arr) = Ints(mid) \o Ints(arr)
    BY <2>1, IntsJoined
  <2>3. mid \o arr \in Seq(Int)
    BY <2>1
  <2>4. QED
    BY <2>2, <2>3
<1> DEFINE rest == mid \o arr
<1>13. rest \in Seq(Int) /\ Ints(rest) = (two \o Ints(p)) \o Ints(arr)
  BY <1>11, <1>12
<1> HIDE DEF rest
<1>14. Ints(one \o rest) = Ints(one) \o Ints(rest)
  BY <1>8, <1>13, IntsJoined
<1>15. DsxForm(o).type = 1 /\ DsxForm(o).params = one \o rest
  <2>1. one \o rest = one \o ((two \o c.p) \o arr)
    BY DEF rest, mid, p
  <2> DEFINE form == one \o rest
  <2>2. DsxForm(o) = [type |-> 1, params |-> form]
    BY <1>5, <2>1
  <2> HIDE DEF form
  <2>3. DsxForm(o).type = 1 /\ DsxForm(o).params = form
    BY <2>2
  <2>4. QED
    BY <2>3 DEF form
<1>16. DsxForm(h).type = 1 /\ DsxForm(h).params = Ints(one) \o Ints(rest)
  BY <1>6, <1>8, <1>13 DEF p
<1>17. DsxForm(h).type = DsxForm(o).type /\ DsxForm(h).params = Ints(DsxForm(o).params)
  BY <1>14, <1>15, <1>16
<1>18. QED
  BY <1>17 DEF DsxHeld, h

\* Numbers that are ints still, and bytes that are the same.
LEMMA DsxLightHeld ==
    ASSUME NEW o, o.device \in Int, o.call.p \in Seq(Int), o.call.op = "lightbar"
    PROVE  DsxHeld(o)
<1> DEFINE h == HeldOrder(o)
           p == o.call.p
           one == <<o.device>>
<1>1. h.device = IntOf(o.device) /\ h.call.op = "lightbar" /\ h.call.p = Ints(p)
  BY IntCallParts DEF HeldOrder, Order
<1> HIDE DEF h
<1>2. DsxForm(o) = [type |-> 2, params |-> one \o p]
  BY DEF DsxForm
<1>3. DsxForm(h) = [type |-> 2, params |-> <<IntOf(o.device)>> \o Ints(p)]
  BY <1>1 DEF DsxForm
<1>4. Ints(one \o p) = Ints(one) \o Ints(p) /\ Ints(one) = <<IntOf(o.device)>>
  BY IntsJoined, OneHeld
<1> DEFINE written == one \o p
           read == Ints(one) \o Ints(p)
<1>5. DsxForm(h).type = DsxForm(o).type /\ DsxForm(h).params = Ints(DsxForm(o).params)
  <2>1. DsxForm(o) = [type |-> 2, params |-> written] /\ DsxForm(h) = [type |-> 2, params |-> read]
    BY <1>2, <1>3, <1>4
  <2>2. Ints(written) = read
    BY <1>4
  <2> HIDE DEF written, read
  <2>3. QED
    BY <2>1, <2>2
<1>6. QED
  BY <1>5 DEF DsxHeld, h

LEMMA DsxBytesHeld ==
    ASSUME NEW o, o.device \in Int, o.call.op \in {"player_leds", "mute_led"},
           o.call.p \in [1 .. 1 -> 0 .. 31]
    PROVE  DsxHeld(o)
<1> DEFINE h == HeldOrder(o)
           p == o.call.p
           one == <<o.device>>
           v == (p[1] + 2) % 3
           lamps == [i \in 1 .. 5 |-> (p[1] \div 2 ^ (i - 1)) % 2]
           rest == IF o.call.op = "mute_led" THEN <<v>> ELSE lamps
<1>1. Ints(p) = p
  <2>1. ByteTuple(1, p)
    BY DEF ByteTuple
  <2>2. QED
    BY <2>1, ByteTupleKept
<1>2. h.device = IntOf(o.device) /\ h.call.op = o.call.op /\ h.call.p = p
  BY <1>1, IntCallParts DEF HeldOrder, Order
<1> HIDE DEF h
<1>3. rest \in Seq(Int) /\ Ints(rest) = rest
  <2>1. CASE o.call.op = "mute_led"
    <3>1. v \in 0 .. 2
      OBVIOUS
    <3> HIDE DEF v
    <3>2. ByteTuple(1, rest) /\ rest \in Seq(Int)
      BY <2>1, <3>1 DEF ByteTuple
    <3> HIDE DEF rest
    <3>3. QED
      BY <3>2, ByteTupleKept
  <2>2. CASE o.call.op # "mute_led"
    <3>1. p[1] \in 0 .. 31
      OBVIOUS
    <3> HIDE DEF p
    <3>2. ASSUME NEW i \in 1 .. 5 PROVE Lamp(p[1], i) \in 0 .. 1
      <4> DEFINE z == i - 1
      <4>1. z = 0 \/ z = 1 \/ z = 2 \/ z = 3 \/ z = 4
        OBVIOUS
      <4> HIDE DEF z
      <4>2. 2 ^ z \in Nat \ {0}
        BY <4>1, SmallPowers
      <4>3. QED
        BY <3>1, <4>2 DEF Lamp, z
    <3>3. lamps \in [1 .. 5 -> 0 .. 255]
      BY <3>2 DEF Lamp
    <3> HIDE DEF lamps
    <3>4. lamps \in [1 .. 5 -> Int]
      BY <3>3
    <3>5. Ints(lamps) = lamps
      <4>1. ByteTuple(5, lamps)
        BY <3>3 DEF ByteTuple
      <4>2. QED
        BY <4>1, ByteTupleKept
    <3>6. lamps \in Seq(Int)
      BY <3>4, TupleIsSeq
    <3>7. QED
      BY <2>2, <3>5, <3>6
  <2>3. QED
    BY <2>1, <2>2
<1> DEFINE type == IF o.call.op = "mute_led" THEN 5 ELSE 3
<1>4. DsxForm(o) = [type |-> type, params |-> one \o rest]
  <2>1. CASE o.call.op = "mute_led"
    BY <2>1 DEF DsxForm
  <2>2. CASE o.call.op = "player_leds"
    BY <2>2 DEF DsxForm
  <2>3. QED
    BY <2>1, <2>2
<1>5. DsxForm(h) = [type |-> type, params |-> <<IntOf(o.device)>> \o rest]
  <2>1. CASE o.call.op = "mute_led"
    BY <1>2, <2>1 DEF DsxForm
  <2>2. CASE o.call.op = "player_leds"
    BY <1>2, <2>2 DEF DsxForm
  <2>3. QED
    BY <2>1, <2>2
<1> HIDE DEF rest, type
<1>6. Ints(one \o rest) = Ints(one) \o Ints(rest) /\ Ints(one) = <<IntOf(o.device)>>
  BY <1>3, IntsJoined, OneHeld
<1> DEFINE written == one \o rest
           read == Ints(one) \o Ints(rest)
<1>7. DsxForm(h).type = DsxForm(o).type /\ DsxForm(h).params = Ints(DsxForm(o).params)
  <2>1. /\ DsxForm(o) = [type |-> type, params |-> written]
        /\ DsxForm(h) = [type |-> type, params |-> read]
    BY <1>3, <1>4, <1>5, <1>6
  <2>2. Ints(written) = read
    BY <1>6
  <2> HIDE DEF written, read
  <2>3. QED
    BY <2>1, <2>2
<1>8. QED
  BY <1>7 DEF DsxHeld, h

-----------------------------------------------------------------------------
\* Orders as command lines of dsctl.

ThroughDsctl(o) ==
    dsctl_command(IF o.side = NoSide THEN o.call.op ELSE "trigger", DsctlArgs(o))
DsctlCall(c) == [op |-> c.op, p |-> Cut(LongArgs(c.p)), a |-> NoArray]
UnsignedNum == \A x : UnsignedOf(Num(x)) = strtoul(x)
LEMMA NumberReadBack == UnsignedNum
BY DEF UnsignedNum, UnsignedOf, Num

LEMMA DsctlRumbleObeyed ==
    ASSUME NEW o, o.side = NoSide, o.call.op = "rumble", o.call.p \in [1 .. 2 -> Int],
           o.call.a = NoArray
    PROVE  ThroughDsctl(o) = Order(0, o.side, DsctlCall(o.call))
<1> DEFINE p == o.call.p
           args == [i \in DOMAIN p |-> Num(p[i])]
<1>1. DsctlArgs(o) = args
  BY DEF DsctlArgs
<1>2. args \in [1 .. 2 -> [num : Int]] /\ args[1] = Num(p[1]) /\ args[2] = Num(p[2])
  BY DEF Num
<1> HIDE DEF args
<1>3. args \in Seq([num : Int]) /\ Len(args) = 2
  BY <1>2, TupleIsSeq
<1>4. UnsignedOf(args[1]) = strtoul(p[1]) /\ UnsignedOf(args[2]) = strtoul(p[2])
  BY <1>2, NumberReadBack DEF UnsignedNum
<1>5. dsctl_command("rumble", args) = Order(0, NoSide, Call("rumble", <<strtoul(p[1]), strtoul(p[2])>>))
  <2>1. CommandArity["rumble"] = 2 /\ "rumble" \in DOMAIN CommandArity
    BY DEF CommandArity
  <2> HIDE DEF p
  <2>2. QED
    BY <1>3, <1>4, <2>1 DEF dsctl_command
<1>6. Cut(<<strtoul(p[1]), strtoul(p[2])>>) = Cut(LongArgs(p))
  BY DEF Cut, LongArgs
<1>7. QED
  BY <1>1, <1>5, <1>6 DEF ThroughDsctl, Call, DsctlCall

LEMMA DsctlLedsObeyed ==
    ASSUME NEW o, o.side = NoSide, o.call.op = "player_leds", o.call.p \in [1 .. 1 -> Int],
           o.call.a = NoArray
    PROVE  ThroughDsctl(o) = Order(0, o.side, DsctlCall(o.call))
<1> DEFINE p == o.call.p
           args == [i \in DOMAIN p |-> Num(p[i])]
<1>1. DsctlArgs(o) = args
  BY DEF DsctlArgs
<1>2. args \in [1 .. 1 -> [num : Int]] /\ args[1] = Num(p[1])
  BY DEF Num
<1> HIDE DEF args
<1>3. args \in Seq([num : Int]) /\ Len(args) = 1
  BY <1>2, TupleIsSeq
<1>4. UnsignedOf(args[1]) = strtoul(p[1])
  BY <1>2, NumberReadBack DEF UnsignedNum
<1>5. dsctl_command("player_leds", args) = Order(0, NoSide, Call("player_leds", <<strtoul(p[1])>>))
  <2>1. CommandArity["player_leds"] = 1 /\ "player_leds" \in DOMAIN CommandArity
    BY DEF CommandArity
  <2> HIDE DEF p
  <2>2. QED
    BY <1>3, <1>4, <2>1 DEF dsctl_command
<1>6. Cut(<<strtoul(p[1])>>) = Cut(LongArgs(p))
  BY DEF Cut, LongArgs
<1>7. QED
  BY <1>1, <1>5, <1>6 DEF ThroughDsctl, Call, DsctlCall

LEMMA DsctlMuteObeyed ==
    ASSUME NEW o, MuteOrder(o)
    PROVE  ThroughDsctl(o) = Order(0, o.side, DsctlCall(o.call))
<1> DEFINE p == o.call.p
           word == MuteWord[1 + p[1]]
           args == <<Str(word)>>
<1>0. o.side = NoSide /\ o.call.op = "mute_led" /\ p \in [1 .. 1 -> 0 .. 2] /\ o.call.a = NoArray
  BY DEF MuteOrder
<1>1. DsctlArgs(o) = args
  BY <1>0 DEF DsctlArgs
<1>2. args[1] = Str(word) /\ Len(args) = 1
  OBVIOUS
<1>3. MuteLed(WordOf(args[1])) = p[1]
  BY <1>0 DEF MuteLed, MuteWord, WordOf, Str
<1> HIDE DEF args
<1>4. dsctl_command("mute_led", args) = Order(0, NoSide, Call("mute_led", <<p[1]>>))
  <2>1. CommandArity["mute_led"] = 1 /\ "mute_led" \in DOMAIN CommandArity
    BY DEF CommandArity
  <2> HIDE DEF p
  <2>2. QED
    BY <1>2, <1>3, <2>1 DEF dsctl_command
<1>5. Cut(<<p[1]>>) = Cut(LongArgs(p))
  <2>1. p \in [1 .. 1 -> 0 .. 255]
    BY <1>0
  <2>2. LongArgs(p) = p
    BY <2>1, BytesKept
  <2> HIDE DEF p
  <2>3. QED
    BY <1>0, <2>2 DEF Cut
<1>6. QED
  BY <1>0, <1>1, <1>4, <1>5 DEF ThroughDsctl, Call, DsctlCall

\* A colour taken apart: three bytes of a number.
Colour(r, g, b) == r * 2 ^ 16 + g * 2 ^ 8 + b
ColourTaken(r, g, b) ==
    LET n == Colour(r, g, b)
    IN  U8(n \div 2 ^ 16) = r /\ U8(n \div 2 ^ 8) = g /\ U8(n) = b
LEMMA ColourBytes == \A r, g, b \in Byte : ColourTaken(r, g, b)
<1> SUFFICES ASSUME NEW r \in Byte, NEW g \in Byte, NEW b \in Byte PROVE ColourTaken(r, g, b)
  OBVIOUS
<1>0. r \in 0 .. 255 /\ g \in 0 .. 255 /\ b \in 0 .. 255
  BY DEF Byte
<1>1. 2 ^ 16 = 65536 /\ 2 ^ 8 = 256
  BY SMT
<1> DEFINE n == r * 65536 + g * 256 + b
<1>2. n \div 65536 = r /\ n \div 256 = r * 256 + g /\ n % 256 = b
  BY <1>0, SMT
<1>3. r % 256 = r /\ (r * 256 + g) % 256 = g
  BY <1>0, SMT
<1>4. QED
  BY <1>1, <1>2, <1>3 DEF U8, Colour, ColourTaken

LEMMA ColourBound == \A x, y, z \in 0 .. 255 : x * 2 ^ 16 + y * 2 ^ 8 + z \in 0 .. ColourCount - 1
<1> SUFFICES ASSUME NEW x \in 0 .. 255, NEW y \in 0 .. 255, NEW z \in 0 .. 255
             PROVE  x * 2 ^ 16 + y * 2 ^ 8 + z \in 0 .. ColourCount - 1
  BY Zenon
<1>1. 2 ^ 16 = 65536 /\ 2 ^ 8 = 256
  BY SMT
<1> DEFINE n == x * 65536 + y * 256 + z
<1>2. n \in Int /\ 0 <= n /\ n <= 16777215
  BY SMT
<1>3. x * 2 ^ 16 + y * 2 ^ 8 + z = n
  BY <1>1
<1> HIDE DEF n
<1>4. ColourCount - 1 = 16777215
  BY SMT DEF ColourCount
<1>5. n \in 0 .. ColourCount - 1
  BY <1>2, <1>4, SMT
<1>6. QED
  BY <1>3, <1>5

LEMMA ThreeOctets ==
    ASSUME NEW f \in [1 .. 3 -> 0 .. 255]
    PROVE  f[1] \in 0 .. 255 /\ f[2] \in 0 .. 255 /\ f[3] \in 0 .. 255
OBVIOUS
LEMMA DsctlLightbarObeyed ==
    ASSUME NEW o, o.side = NoSide, o.call.op = "lightbar", o.call.p \in [1 .. 3 -> 0 .. 255],
           o.call.a = NoArray
    PROVE  ThroughDsctl(o) = Order(0, o.side, DsctlCall(o.call))
<1> DEFINE p == o.call.p
           n == p[1] * 2 ^ 16 + p[2] * 2 ^ 8 + p[3]
           args == <<Num(n)>>
           q == <<n \div 2 ^ 16, n \div 2 ^ 8, n>>
<1>1. DsctlArgs(o) = args
  BY DEF DsctlArgs
<1>2. args[1] = Num(n) /\ Len(args) = 1
  OBVIOUS
<1>3. p[1] \in 0 .. 255 /\ p[2] \in 0 .. 255 /\ p[3] \in 0 .. 255
  <2>1. o.call.p \in [1 .. 3 -> 0 .. 255]
    OBVIOUS
  <2>2. QED
    BY <2>1, ThreeOctets, Zenon
<1>4. U8(q[1]) = p[1] /\ U8(q[2]) = p[2] /\ U8(q[3]) = p[3]
  <2>1. n = Colour(p[1], p[2], p[3])
    BY DEF Colour
  <2> HIDE DEF n
  <2>2. U8(n \div 2 ^ 16) = p[1] /\ U8(n \div 2 ^ 8) = p[2] /\ U8(n) = p[3]
    <3>1. /\ U8(Colour(p[1], p[2], p[3]) \div 2 ^ 16) = p[1]
          /\ U8(Colour(p[1], p[2], p[3]) \div 2 ^ 8) = p[2]
          /\ U8(Colour(p[1], p[2], p[3])) = p[3]
      <4> HIDE DEF p
      <4>1. QED
        <5>1. p[1] \in Byte /\ p[2] \in Byte /\ p[3] \in Byte
          BY <1>3 DEF Byte
        <5>2. ColourTaken(p[1], p[2], p[3])
          BY <5>1, ColourBytes
        <5>3. QED
          BY <5>2 DEF ColourTaken
    <3>2. QED
      BY <2>1, <3>1, Zenon
  <2>3. q[1] = n \div 2 ^ 16 /\ q[2] = n \div 2 ^ 8 /\ q[3] = n
    OBVIOUS
  <2>4. QED
    BY <2>2, <2>3, Zenon
<1>5. U8(p[1]) = p[1] /\ U8(p[2]) = p[2] /\ U8(p[3]) = p[3]
  <2>1. \A v \in 0 .. 255 : U8(v) = v
    BY DEF U8
  <2>2. QED
    BY <1>3, <2>1, Zenon
<1>6. DOMAIN q = 1 .. 3 /\ DOMAIN p = 1 .. 3
  OBVIOUS
<1>7. n \in 0 .. ColourCount - 1
  BY <1>3, ColourBound, Zenon
<1>8. LongArgs(p) = p
  BY BytesKept
<1> HIDE DEF n
<1>9. dsctl_command("lightbar", args) = Order(0, NoSide, Call("lightbar", q))
  <2>1. CommandArity["lightbar"] = 1 /\ "lightbar" \in DOMAIN CommandArity
    BY DEF CommandArity
  <2>2. "num" \in DOMAIN args[1] /\ UnsignedOf(args[1]) = n /\ n % (2 * IntHalf) = n
    <3>1. strtoul(n) = n /\ n % (2 * IntHalf) = n
      BY <1>7, ColourKept
    <3>2. UnsignedOf(args[1]) = strtoul(n) /\ "num" \in DOMAIN args[1]
      BY <1>2, NumberReadBack DEF UnsignedNum, Num
    <3>3. QED
      BY <3>1, <3>2
  <2> HIDE DEF p, args
  <2>3. QED
    BY <1>2, <2>1, <2>2 DEF dsctl_command
<1> HIDE DEF q, args
<1>10. Cut(q) = Cut(p)
  <2>1. ASSUME NEW i \in 1 .. 3 PROVE U8(q[i]) = U8(p[i])
    BY <1>4, <1>5
  <2>2. QED
    BY <1>6, <2>1 DEF Cut
<1>11. QED
  BY <1>1, <1>9, <1>10, <1>8 DEF ThroughDsctl, Call, DsctlCall

-----------------------------------------------------------------------------
LEMMA ArityIsKeys ==
    /\ DOMAIN ModeArity = DOMAIN ModeKeys
    /\ \A op \in DOMAIN ModeArity :
            ModeArity[op] \in Nat /\ DOMAIN ModeKeys[op] = 1 .. ModeArity[op]
<1>1. DOMAIN ModeArity = {"off", "feedback", "weapon", "vibration", "bow", "galloping", "machine"}
      /\ DOMAIN ModeKeys = DOMAIN ModeArity
  BY DEF ModeArity, ModeKeys
<1>2. ASSUME NEW op \in DOMAIN ModeArity
      PROVE  ModeArity[op] \in Nat /\ DOMAIN ModeKeys[op] = 1 .. ModeArity[op]
  <2>1. CASE op = "off"
    BY <2>1 DEF ModeArity, ModeKeys
  <2>2. CASE op = "feedback"
    BY <2>2 DEF ModeArity, ModeKeys
  <2>3. CASE op = "weapon"
    BY <2>3 DEF ModeArity, ModeKeys
  <2>4. CASE op = "vibration"
    BY <2>4 DEF ModeArity, ModeKeys
  <2>5. CASE op = "bow"
    BY <2>5 DEF ModeArity, ModeKeys
  <2>6. CASE op = "galloping"
    BY <2>6 DEF ModeArity, ModeKeys
  <2>7. CASE op = "machine"
    BY <2>7 DEF ModeArity, ModeKeys
  <2>8. QED
    BY <1>1, <2>1, <2>2, <2>3, <2>4, <2>5, <2>6, <2>7
<1>3. QED
  BY <1>1, <1>2

Argument == [num : Int] \cup [str : {"left", "right"} \cup DOMAIN ModeArity]
LEMMA DsctlTriggerObeyed ==
    ASSUME NEW o, TriggerOrder(o)
    PROVE  ThroughDsctl(o) = Order(0, o.side, DsctlCall(o.call))
<1> DEFINE c == o.call
           p == c.p
           k == ModeArity[c.op]
           numbers == [i \in DOMAIN p |-> Num(p[i])]
           head == <<Str(o.side), Str(c.op)>>
           args == head \o numbers
<1>1. /\ o.side \in {"left", "right"} /\ c.op \in DOMAIN ModeArity /\ c.a = NoArray
      /\ k \in Nat /\ p \in [1 .. k -> Int]
  BY ArityIsKeys DEF TriggerOrder, Numbered
<1>2. c.op \in {"off", "feedback", "weapon", "vibration", "bow", "galloping", "machine"}
  BY <1>1 DEF ModeArity
<1>3. DsctlArgs(o) = args
  BY <1>2 DEF DsctlArgs
<1> HIDE DEF k
<1>4. numbers \in Seq(Argument) /\ Len(numbers) = k /\ \A i \in 1 .. k : numbers[i] = Num(p[i])
  <2>1. numbers \in [1 .. k -> Argument] /\ \A i \in 1 .. k : numbers[i] = Num(p[i])
    BY <1>1 DEF Num, Argument
  <2> HIDE DEF numbers
  <2>2. QED
    BY <1>1, <2>1, TupleIsSeq
<1>5. head \in Seq(Argument) /\ Len(head) = 2 /\ head[1] = Str(o.side) /\ head[2] = Str(c.op)
  <2>2. Str(o.side) \in Argument /\ Str(c.op) \in Argument
    BY <1>1 DEF Str, Argument
  <2>3. QED
    BY <2>2
<1> HIDE DEF head, numbers
<1>6. /\ Len(args) = 2 + k /\ args[1] = Str(o.side) /\ args[2] = Str(c.op)
      /\ \A i \in 1 .. k : args[2 + i] = Num(p[i])
  <2>1. /\ args \in Seq(Argument) /\ Len(args) = Len(head) + Len(numbers)
        /\ \A i \in 1 .. Len(head) + Len(numbers) :
              args[i] = IF i <= Len(head) THEN head[i] ELSE numbers[i - Len(head)]
    BY <1>4, <1>5, ConcatProperties
  <2> HIDE DEF args
  <2>2. \A i \in 1 .. k : 2 + i \in 1 .. 2 + k /\ ~(2 + i <= 2) /\ (2 + i) - 2 = i
    BY <1>1
  <2>3. 1 \in 1 .. 2 + k /\ 2 \in 1 .. 2 + k
    BY <1>1
  <2>4. ASSUME NEW i \in 1 .. k PROVE args[2 + i] = numbers[i]
    <3> DEFINE j == 2 + i
    <3>1. j \in 1 .. Len(head) + Len(numbers) /\ ~(j <= Len(head)) /\ j - Len(head) = i
      BY <1>1, <1>4, <1>5
    <3> HIDE DEF j
    <3>2. args[j] = numbers[i]
      BY <2>1, <3>1
    <3>3. QED
      BY <3>2 DEF j
  <2>5. args[1] = head[1] /\ args[2] = head[2]
    BY <1>1, <1>4, <1>5, <2>1, <2>3
  <2>6. Len(args) = 2 + k
    BY <1>4, <1>5, <2>1
  <2>7. QED
    BY <1>4, <1>5, <2>4, <2>5, <2>6
<1> HIDE DEF args, c, p
<1>7. [i \in 1 .. k |-> UnsignedOf(args[2 + i])] = LongArgs(p)
  BY <1>1, <1>6, NumberReadBack DEF UnsignedNum, LongArgs
<1>8. cmd_trigger(args) = Order(0, o.side, Call(c.op, LongArgs(p)))
  <2>1. WordOf(args[2]) = c.op /\ WordOf(args[1]) = o.side
    BY <1>6, WordOfWord
  <2>2. k = ModeArity[c.op] /\ ~(Len(args) < 2 + k)
    <3>1. k = ModeArity[c.op]
      BY DEF k
    <3>2. QED
      BY <1>1, <1>6, <3>1
  <2>3. (IF o.side \in {"l", "left"} THEN "left" ELSE "right") = o.side
    BY <1>1
  <2>4. QED
    BY <1>1, <1>7, <2>1, <2>2, <2>3 DEF cmd_trigger
<1>9. dsctl_command("trigger", args) = cmd_trigger(args)
  <2>1. CommandArity["trigger"] = 2 /\ "trigger" \in DOMAIN CommandArity
    BY DEF CommandArity
  <2>2. ~(Len(args) < 2)
    BY <1>1, <1>6
  <2> DEFINE done == cmd_trigger(args)
  <2>3. done = cmd_trigger(args)
    OBVIOUS
  <2> HIDE DEF done
  <2>4. dsctl_command("trigger", args) = done
    BY <2>1, <2>2, <2>3 DEF dsctl_command
  <2>5. QED
    BY <2>4 DEF done
<1>10. o.side # NoSide
  BY <1>1 DEF NoSide
<1>11. QED
  BY <1>1, <1>3, <1>8, <1>9, <1>10 DEF ThroughDsctl, Call, DsctlCall, c, p

-----------------------------------------------------------------------------
\* The orders that are asked, by the front ends that take them.

\* A call whose numbers are integers.
Whole(c) ==
    /\ c = [op |-> c.op, p |-> c.p, a |-> c.a]
    /\ \E k \in Nat : c.p \in [1 .. k -> Int]
    /\ c.a = NoArray \/ c.a \in [Zone -> Int]
LEMMA CutOfBytes ==
    ASSUME NEW c, Whole(c), ByteCall(c)
    PROVE  CutCall(c) = c
<1>1. \A v \in Byte : U8(v) = v
  BY DEF U8, Byte
<1>2. PICK k \in Nat : c.p \in [1 .. k -> Int]
  BY DEF Whole
<1>3. Cut(c.p) = c.p
  <2> DEFINE p == c.p
  <2>1. \A i \in 1 .. k : p[i] \in Byte
    BY <1>2 DEF ByteCall, ToSet
  <2>2. DOMAIN p = 1 .. k /\ p = [i \in 1 .. k |-> p[i]]
    BY <1>2
  <2> HIDE DEF p
  <2>3. \A i \in 1 .. k : U8(p[i]) = p[i]
    BY <1>1, <2>1
  <2>4. Cut(p) = p
    BY <2>2, <2>3 DEF Cut
  <2>5. QED
    BY <2>4 DEF p
<1>4. c.a # NoArray => [z \in Zone |-> U8(c.a[z])] = c.a
  BY <1>1 DEF Whole, ByteCall
<1>5. QED
  BY <1>3, <1>4 DEF CutCall, Whole

\* The kinds of order, as Ask makes them.
AskedTrigger(o) ==
    \/ TriggerOrder(o) /\ o.call.op = "off" /\ o.call.p = <<>>
    \/ TriggerOrder(o) /\ DsxNumbers(o)
    \/ DsxNumbers(o) /\ o.call.op = "slope_feedback"
    \/ DsxMulti(o)
AskedPlain(o) == PlainOrder(o) \/ MuteOrder(o)
AskedOrder(o) ==
    /\ o = Order(o.device, o.side, o.call) /\ o.device \in Int /\ Whole(o.call)
    /\ AskedTrigger(o) \/ AskedPlain(o)

LEMMA AskedNumbers ==
    ASSUME NEW op \in DOMAIN Scalars, NEW c \in Request(op, TupleOf(Number, Scalars[op]), {NoArray})
    PROVE  /\ Whole(c) /\ c.op = op /\ c.a = NoArray /\ c.p \in [1 .. Scalars[op] -> Int]
           /\ op \in DOMAIN ModeKeys /\ DOMAIN ModeKeys[op] = 1 .. Scalars[op]
<1> DEFINE k == Scalars[op]
<1>1. k \in Nat /\ op \in DOMAIN ModeKeys /\ DOMAIN ModeKeys[op] = 1 .. k
  <2>1. op \in DOMAIN ModeArity /\ ModeArity[op] = Scalars[op]
    BY DEF Scalars, ModeArity
  <2>2. QED
    BY <2>1, ArityIsKeys
<1> HIDE DEF k
<1>2. c.op = op /\ c.a = NoArray /\ c.p \in [1 .. k -> Number]
      /\ c = [op |-> c.op, p |-> c.p, a |-> c.a]
  BY DEF Request, TupleOf, k
<1>3. c.p \in [1 .. k -> Int]
  BY <1>2, NumberAssumption
<1>4. QED
  BY <1>1, <1>2, <1>3 DEF Whole, k

LEMMA TriggersAsked ==
    ASSUME NEW c \in TriggerCalls, NEW side \in {"left", "right"}, NEW device \in Int
    PROVE  AskedOrder(Order(device, side, c))
<1> DEFINE o == Order(device, side, c)
<1>1. o.device = device /\ o.side = side /\ o.call = c /\ o = Order(o.device, o.side, o.call)
  BY DEF Order
<1> HIDE DEF o
<1>2. CASE c = OffCall
  <2>1. c.op = "off" /\ c.p = <<>> /\ c.a = NoArray /\ c = [op |-> c.op, p |-> c.p, a |-> c.a]
    BY <1>2 DEF OffCall
  <2>2. "off" \in DOMAIN ModeKeys /\ DOMAIN ModeKeys["off"] = DOMAIN <<>>
    BY DEF ModeKeys
  <2>3. <<>> \in [1 .. 0 -> Int] /\ <<>> \in [DOMAIN <<>> -> Int]
    OBVIOUS
  <2>4. Whole(c)
    BY <2>1, <2>3 DEF Whole
  <2>5. TriggerOrder(o)
    BY <1>1, <2>1, <2>2, <2>3 DEF TriggerOrder, Numbered
  <2>6. QED
    BY <1>1, <2>1, <2>4, <2>5 DEF AskedOrder, AskedTrigger, o
<1>3. CASE \E op \in DOMAIN Scalars : c \in Request(op, TupleOf(Number, Scalars[op]), {NoArray})
  <2>1. PICK op \in DOMAIN Scalars : c \in Request(op, TupleOf(Number, Scalars[op]), {NoArray})
    BY <1>3
  <2>2. /\ Whole(c) /\ c.op = op /\ c.a = NoArray /\ c.p \in [1 .. Scalars[op] -> Int]
        /\ op \in DOMAIN ModeKeys /\ DOMAIN ModeKeys[op] = 1 .. Scalars[op]
    BY <2>1, AskedNumbers
  <2>3. TriggerOrder(o)
    BY <1>1, <2>2 DEF TriggerOrder, Numbered
  <2>4. DsxNumbers(o)
    <3>1. op # "slope_feedback"
      BY <2>1 DEF Scalars
    <3>2. QED
      BY <1>1, <2>2, <3>1 DEF DsxNumbers
  <2>5. QED
    BY <1>1, <2>2, <2>3, <2>4 DEF AskedOrder, AskedTrigger, o
<1>4. CASE c \in Request("slope_feedback", TupleOf(Number, 4), {NoArray})
  <2>1. c.op = "slope_feedback" /\ c.a = NoArray /\ c.p \in [1 .. 4 -> Number]
        /\ c = [op |-> c.op, p |-> c.p, a |-> c.a]
    BY <1>4 DEF Request, TupleOf
  <2>2. c.p \in [1 .. 4 -> Int]
    BY <2>1, NumberAssumption
  <2>3. Whole(c)
    BY <2>1, <2>2 DEF Whole
  <2>4. DsxNumbers(o)
    BY <1>1, <2>1, <2>2 DEF DsxNumbers
  <2>5. QED
    BY <1>1, <2>1, <2>3, <2>4 DEF AskedOrder, AskedTrigger, o
<1>5. NumberArrays \subseteq [Zone -> Int]
  BY NumberAssumption DEF NumberArrays
<1>6. CASE c \in Request("feedback_multi", {<<>>}, NumberArrays)
  <2>1. c.op = "feedback_multi" /\ c.a \in [Zone -> Int] /\ c.p = <<>>
        /\ c = [op |-> c.op, p |-> c.p, a |-> c.a]
    BY <1>5, <1>6 DEF Request
  <2>2. <<>> \in [1 .. 0 -> Int]
    OBVIOUS
  <2>3. Whole(c)
    BY <2>1, <2>2 DEF Whole
  <2>4. DsxMulti(o)
    BY <1>1, <2>1 DEF DsxMulti
  <2>5. QED
    BY <1>1, <2>1, <2>3, <2>4 DEF AskedOrder, AskedTrigger, o
<1>7. CASE c \in Request("vibration_multi", TupleOf(Number, 1), NumberArrays)
  <2>1. c.op = "vibration_multi" /\ c.a \in [Zone -> Int] /\ c.p \in [1 .. 1 -> Number]
        /\ c = [op |-> c.op, p |-> c.p, a |-> c.a]
    BY <1>5, <1>7 DEF Request, TupleOf
  <2>2. c.p \in [1 .. 1 -> Int]
    BY <2>1, NumberAssumption
  <2>3. Whole(c)
    BY <2>1, <2>2 DEF Whole
  <2>4. DsxMulti(o)
    BY <1>1, <2>1, <2>2 DEF DsxMulti
  <2>5. QED
    BY <1>1, <2>1, <2>3, <2>4 DEF AskedOrder, AskedTrigger, o
<1>8. ASSUME c \in UNION {Request(op, TupleOf(Number, Scalars[op]), {NoArray}) : op \in DOMAIN Scalars}
      PROVE  \E op \in DOMAIN Scalars : c \in Request(op, TupleOf(Number, Scalars[op]), {NoArray})
  BY <1>8, Zenon
<1>9. AskedOrder(Order(device, side, c))
  <2> DEFINE U == UNION {Request(op, TupleOf(Number, Scalars[op]), {NoArray}) :
                         op \in DOMAIN Scalars}
             slopes == Request("slope_feedback", TupleOf(Number, 4), {NoArray})
             feedbacks == Request("feedback_multi", {<<>>}, NumberArrays)
             vibrations == Request("vibration_multi", TupleOf(Number, 1), NumberArrays)
  <2>1. c \in {OffCall} \cup U \cup slopes \cup feedbacks \cup vibrations
    BY Zenon DEF TriggerCalls
  <2>2. c \in U => AskedOrder(Order(device, side, c))
    <3> SUFFICES ASSUME c \in U PROVE AskedOrder(Order(device, side, c))
      OBVIOUS
    <3>1. \E op \in DOMAIN Scalars : c \in Request(op, TupleOf(Number, Scalars[op]), {NoArray})
      BY <1>8
    <3>2. QED
      BY <1>3, <3>1
  <2>3. c \in slopes => AskedOrder(Order(device, side, c))
    BY <1>4
  <2>4. c \in feedbacks => AskedOrder(Order(device, side, c))
    BY <1>6
  <2>5. c \in vibrations => AskedOrder(Order(device, side, c))
    BY <1>7
  <2> HIDE DEF U, slopes, feedbacks, vibrations
  <2>6. c = OffCall \/ c \in U \/ c \in slopes \/ c \in feedbacks \/ c \in vibrations
    BY <2>1, Zenon
  <2>7. QED
    BY <1>2, <2>2, <2>3, <2>4, <2>5, <2>6
<1>10. QED
  BY <1>9

LEMMA PlainsAsked ==
    ASSUME NEW c \in PlainCalls, NEW device \in Int
    PROVE  AskedOrder(Order(device, NoSide, c)) /\ AskedPlain(Order(device, NoSide, c))
<1> DEFINE o == Order(device, NoSide, c)
<1>1. o.device = device /\ o.side = NoSide /\ o.call = c /\ o = Order(o.device, o.side, o.call)
  BY DEF Order
<1> HIDE DEF o
<1>2. Number \cup 0 .. 31 \subseteq Int /\ Number \subseteq Int
  BY NumberAssumption
<1>3. /\ DOMAIN CommandKeys["rumble"] = 1 .. 2 /\ DOMAIN CommandKeys["lightbar"] = 1 .. 3
      /\ DOMAIN CommandKeys["player_leds"] = 1 .. 1
      /\ {"rumble", "lightbar", "player_leds"} \subseteq DOMAIN CommandKeys
  BY DEF CommandKeys
<1>4. CASE c \in Request("rumble", TupleOf(Number, 2), {NoArray})
  <2>1. c.op = "rumble" /\ c.a = NoArray /\ c.p \in [1 .. 2 -> Int]
        /\ c = [op |-> c.op, p |-> c.p, a |-> c.a]
    BY <1>2, <1>4 DEF Request, TupleOf
  <2>2. Whole(c)
    BY <2>1 DEF Whole
  <2>3. PlainOrder(o)
    BY <1>1, <1>3, <2>1 DEF PlainOrder, Numbered
  <2>4. QED
    BY <1>1, <2>1, <2>2, <2>3 DEF AskedOrder, AskedPlain
<1>5. CASE c \in Request("lightbar", TupleOf(Number, 3), {NoArray})
  <2>1. c.op = "lightbar" /\ c.a = NoArray /\ c.p \in [1 .. 3 -> Int]
        /\ c = [op |-> c.op, p |-> c.p, a |-> c.a]
    BY <1>2, <1>5 DEF Request, TupleOf
  <2>2. Whole(c)
    BY <2>1 DEF Whole
  <2>3. PlainOrder(o)
    BY <1>1, <1>3, <2>1 DEF PlainOrder, Numbered
  <2>4. QED
    BY <1>1, <2>1, <2>2, <2>3 DEF AskedOrder, AskedPlain
<1>6. CASE c \in Request("player_leds", TupleOf(Number \cup 0 .. 31, 1), {NoArray})
  <2>1. c.op = "player_leds" /\ c.a = NoArray /\ c.p \in [1 .. 1 -> Int]
        /\ c = [op |-> c.op, p |-> c.p, a |-> c.a]
    BY <1>2, <1>6 DEF Request, TupleOf
  <2>2. Whole(c)
    BY <2>1 DEF Whole
  <2>3. PlainOrder(o)
    BY <1>1, <1>3, <2>1 DEF PlainOrder, Numbered
  <2>4. QED
    BY <1>1, <2>1, <2>2, <2>3 DEF AskedOrder, AskedPlain
<1>7. CASE c \in Request("mute_led", TupleOf(0 .. 2, 1), {NoArray})
  <2>1. c.op = "mute_led" /\ c.a = NoArray /\ c.p \in [1 .. 1 -> 0 .. 2]
        /\ c = [op |-> c.op, p |-> c.p, a |-> c.a]
    BY <1>7 DEF Request, TupleOf
  <2>2. c.p \in [1 .. 1 -> Int]
    BY <2>1
  <2>3. Whole(c)
    BY <2>1, <2>2 DEF Whole
  <2>4. MuteOrder(o)
    BY <1>1, <2>1 DEF MuteOrder
  <2>5. QED
    BY <1>1, <2>1, <2>3, <2>4 DEF AskedOrder, AskedPlain
<1>8. QED
  BY <1>4, <1>5, <1>6, <1>7 DEF PlainCalls, o

\* What each front end that has the order makes of it.
Named(o) == resolve_device(IntOf(o.device), Controllers)
Answer(f, o) ==
    Order(IF f \in {"native", "dsx"} THEN Named(o) ELSE 0, o.side,
          IF f = "dsctl" THEN DsctlCall(o.call) ELSE DaemonCall(o.call))
Answered(f, o, turn) == Through(f, o, turn) = Answer(f, o)

LEMMA OneController == Controllers \in Nat \ {0}
BY ControllersAssumption

LEMMA AskedOps ==
    ASSUME NEW o, AskedOrder(o)
    PROVE  /\ TriggerOrder(o) => o.call.op \in DOMAIN ModeKeys /\ o.side # NoSide
           /\ o.call.op \in DOMAIN Sliders => PlainOrder(o) \/ TriggerOrder(o)
           /\ o.call.op \in DOMAIN Sliders \/ o.call.op = "mute_led" =>
                    PlainOrder(o) \/ TriggerOrder(o) \/ MuteOrder(o)
<1>1. "slope_feedback" \notin DOMAIN Sliders /\ "feedback_multi" \notin DOMAIN Sliders
      /\ "vibration_multi" \notin DOMAIN Sliders /\ "mute_led" \notin DOMAIN Sliders
  BY DEF Sliders
<1>2. TriggerOrder(o) => o.call.op \in DOMAIN ModeKeys /\ o.side # NoSide
  BY DEF TriggerOrder, NoSide
<1>3. DsxMulti(o) => o.call.op \in {"feedback_multi", "vibration_multi"}
  BY DEF DsxMulti
<1>4. MuteOrder(o) => o.call.op = "mute_led"
  BY DEF MuteOrder
<1>5. QED
  BY <1>1, <1>2, <1>3, <1>4 DEF AskedOrder, AskedTrigger, AskedPlain

LEMMA GuiAnswers ==
    ASSUME NEW o, AskedOrder(o), NEW turn, "gui" \in Offers(o.call)
    PROVE  Answered("gui", o, turn)
<1>1. o.call.op \in DOMAIN Sliders
  BY DEF Offers
<1>2. native_handle_command(GuiLine(o), Controllers) = Order(0, o.side, DaemonCall(o.call))
  BY <1>1, AskedOps, GuiObeyed, OneController
<1>3. Through("gui", o, turn) = native_handle_command(GuiLine(o), Controllers)
  BY DEF Through
<1>4. QED
  BY <1>2, <1>3 DEF Answered, Answer

LEMMA NativeAnswers ==
    ASSUME NEW o, AskedOrder(o), NEW turn \in Nat, "native" \in Offers(o.call)
    PROVE  Answered("native", o, turn)
<1>1. o.call.op \in DOMAIN Sliders \/ o.call.op = "mute_led"
  BY DEF Offers
<1>2. o.device \in Int
  BY DEF AskedOrder
<1>3. native_handle_command(NativeLine(o, turn), Controllers) =
        Order(resolve_device(IntOf(o.device), Controllers), o.side, DaemonCall(o.call))
  BY <1>1, <1>2, AskedOps, NativeObeyed, OneController
<1>4. Through("native", o, turn) = native_handle_command(NativeLine(o, turn), Controllers)
  BY DEF Through
<1>5. QED
  BY <1>3, <1>4 DEF Answered, Answer, Named

LEMMA DsctlAnswers ==
    ASSUME NEW o, AskedOrder(o), NEW turn, "dsctl" \in Offers(o.call)
    PROVE  Answered("dsctl", o, turn)
<1>1. /\ o.call.op \in DOMAIN Sliders \/ o.call.op = "mute_led"
      /\ o.call.op = "lightbar" => ByteCall(o.call)
  BY DEF Offers
<1>2. ThroughDsctl(o) = Order(0, o.side, DsctlCall(o.call))
  <2>1. CASE TriggerOrder(o)
    BY <2>1, DsctlTriggerObeyed
  <2>2. CASE MuteOrder(o)
    BY <2>2, DsctlMuteObeyed
  <2>3. CASE PlainOrder(o)
    <3>0. o.side = NoSide /\ o.call.a = NoArray
      BY <2>3 DEF PlainOrder, Numbered
    <3>1. /\ o.call.op \in {"rumble", "lightbar", "player_leds"}
          /\ o.call.p \in [DOMAIN CommandKeys[o.call.op] -> Int]
      BY <2>3 DEF PlainOrder, Numbered, CommandKeys
    <3>2. CASE o.call.op = "rumble"
      <4>1. o.call.p \in [1 .. 2 -> Int]
        BY <3>1, <3>2 DEF CommandKeys
      <4>2. QED
        BY <3>0, <3>2, <4>1, DsctlRumbleObeyed
    <3>3. CASE o.call.op = "player_leds"
      <4>1. o.call.p \in [1 .. 1 -> Int]
        BY <3>1, <3>3 DEF CommandKeys
      <4>2. QED
        BY <3>0, <3>3, <4>1, DsctlLedsObeyed
    <3>4. CASE o.call.op = "lightbar"
      <4>1. o.call.p \in [1 .. 3 -> Int]
        BY <3>1, <3>4 DEF CommandKeys
      <4>2. \A i \in 1 .. 3 : o.call.p[i] \in 0 .. 255
        BY <1>1, <3>4, <4>1, SMTT(90) DEF ByteCall, ToSet, Byte
      <4>3. o.call.p \in [1 .. 3 -> 0 .. 255]
        BY <4>1, <4>2
      <4>4. QED
        BY <3>0, <3>4, <4>3, DsctlLightbarObeyed
    <3>5. QED
      BY <3>1, <3>2, <3>3, <3>4
  <2>4. QED
    BY <1>1, <2>1, <2>2, <2>3, AskedOps
<1>3. Through("dsctl", o, turn) = ThroughDsctl(o)
  BY DEF Through, ThroughDsctl
<1>4. QED
  BY <1>2, <1>3 DEF Answered, Answer

\* The order whose numbers are ints already is of the same kind.
LEMMA DsxHeldObeyed ==
    ASSUME NEW o, AskedOrder(o), "dsx" \in Offers(o.call)
    PROVE  /\ DsxHeld(o)
           /\ ThroughDsx(HeldOrder(o), Controllers) =
                Order(resolve_device(IntOf(o.device), Controllers), o.side, DaemonCall(o.call))
<1> DEFINE h == HeldOrder(o)
           c == o.call
           d == h.call
           obeyed == ThroughDsx(h, Controllers) =
                        Order(resolve_device(h.device, Controllers), h.side, CutCall(d))
<1>1. /\ c.op # "rumble" /\ (c.op = "player_leds" => c.p[1] \in 0 .. 31)
      /\ o.device \in Int /\ IntOf(o.device) \in Int
  BY IntsOf DEF Offers, AskedOrder
<1>2. /\ h.device = IntOf(o.device) /\ h.side = o.side /\ d = IntCall(c)
      /\ d.op = c.op /\ d.p = Ints(c.p)
      /\ c.a = NoArray => d.a = NoArray
      /\ c.a \in [Zone -> Int] => d.a \in [Zone -> Int]
  BY IntCallParts DEF HeldOrder, Order
<1> HIDE DEF h
<1>3. ASSUME NEW k \in Nat, c.p \in [1 .. k -> Int]
      PROVE  c.p \in Seq(Int) /\ d.p \in [1 .. k -> Int]
  <2>1. c.p \in Seq(Int)
    BY <1>3, TupleIsSeq
  <2>2. [i \in 1 .. k |-> IntOf(c.p[i])] \in [1 .. k -> Int]
    BY <1>3, IntsOf
  <2>3. d.p = [i \in 1 .. k |-> IntOf(c.p[i])]
    BY <1>2, <1>3 DEF Ints
  <2> HIDE DEF c, d
  <2>4. QED
    BY <2>1, <2>2, <2>3
<1>4. DsxArray(c) \in Seq(Int)
  <2>1. CASE c.a = NoArray
    BY <2>1 DEF DsxArray
  <2>2. CASE c.a # NoArray /\ c.a \in [Zone -> Int]
    <3> DEFINE arr == [i \in 1 .. 10 |-> c.a[i - 1]]
    <3>1. \A i \in 1 .. 10 : i - 1 \in Zone
      BY DEF Zone
    <3>2. arr \in [1 .. 10 -> Int]
      BY <2>2, <3>1
    <3>3. DsxArray(c) = arr
      BY <2>2 DEF DsxArray
    <3> HIDE DEF arr
    <3>4. QED
      BY <3>2, <3>3, TupleIsSeq
  <2>3. QED
    BY <2>1, <2>2 DEF AskedOrder, Whole
<1>5. CASE DsxNumbers(o)
  <2> DEFINE k == IF c.op = "slope_feedback" THEN 4 ELSE Scalars[c.op]
  <2>1. /\ k \in Nat /\ c.p \in [1 .. k -> Int] /\ c.a = NoArray /\ o.side \in {"left", "right"}
        /\ c.op \in DOMAIN Scalars \cup {"slope_feedback"} /\ c.op \in DOMAIN DsxMode
    BY <1>5 DEF DsxNumbers, Scalars, DsxMode
  <2> HIDE DEF k
  <2>2. c.p \in Seq(Int) /\ d.p \in [1 .. k -> Int]
    BY <1>3, <2>1
  <2>3. DsxHeld(o)
    <3>1. DsxTrigger(o)
      BY <1>1, <1>4, <2>1, <2>2 DEF DsxTrigger
    <3>2. QED
      BY <2>1, <3>1, DsxTriggerHeld
  <2>4. DsxNumbers(h)
    BY <1>1, <1>2, <2>1, <2>2 DEF DsxNumbers, k
  <2>5. obeyed
    BY <2>4, DsxNumbersObeyed
  <2>6. QED
    BY <1>2, <2>3, <2>5 DEF DaemonCall, h
<1>6. CASE DsxMulti(o)
  <2>1. /\ c.a \in [Zone -> Int] /\ o.side \in {"left", "right"} /\ c.op \in DOMAIN DsxMode
        /\ \/ c.op = "feedback_multi" /\ c.p = <<>>
           \/ c.op = "vibration_multi" /\ c.p \in [1 .. 1 -> Int]
    BY <1>6 DEF DsxMulti, DsxMode
  <2>2. c.p \in Seq(Int) /\ (c.p \in [1 .. 1 -> Int] => d.p \in [1 .. 1 -> Int])
    <3>1. <<>> \in Seq(Int)
      OBVIOUS
    <3>2. QED
      BY <1>3, <2>1, <3>1
  <2>3. DsxHeld(o)
    <3>1. DsxTrigger(o)
      BY <1>1, <1>4, <2>1, <2>2 DEF DsxTrigger
    <3>2. QED
      BY <2>1, <3>1, DsxTriggerHeld
  <2>4. c.p = <<>> => d.p = <<>>
    BY <1>2 DEF Ints
  <2>5. DsxMulti(h)
    BY <1>1, <1>2, <2>1, <2>2, <2>4 DEF DsxMulti
  <2>6. obeyed
    BY <2>5, DsxMultiObeyed
  <2>7. QED
    BY <1>2, <2>3, <2>6 DEF DaemonCall, h
<1>7. CASE TriggerOrder(o) /\ c.op = "off" /\ c.p = <<>>
  <2>1. DsxOff(o) /\ c.a = NoArray /\ o.side \in {"left", "right"} /\ c.op \in DOMAIN DsxMode
    BY <1>1, <1>7 DEF DsxOff, TriggerOrder, Numbered, DsxMode
  <2>2. DsxHeld(o)
    <3>1. DsxTrigger(o)
      BY <1>1, <1>4, <1>7, <2>1 DEF DsxTrigger
    <3>2. QED
      BY <2>1, <3>1, DsxTriggerHeld
  <2>3. d.p = <<>>
    BY <1>2, <1>7 DEF Ints
  <2>4. DsxOff(h)
    BY <1>1, <1>2, <1>7, <2>1, <2>3 DEF DsxOff
  <2>5. obeyed
    BY <2>4, DsxOffObeyed
  <2>6. QED
    BY <1>2, <2>2, <2>5 DEF DaemonCall, h
<1>8. CASE MuteOrder(o)
  <2>1. o.side = NoSide /\ c.op = "mute_led" /\ c.p \in [1 .. 1 -> 0 .. 2] /\ c.a = NoArray
    BY <1>8 DEF MuteOrder
  <2>2. c.p \in [1 .. 1 -> 0 .. 31] /\ c.p \in [1 .. 1 -> 0 .. 255]
    BY <2>1
  <2>3. DsxHeld(o)
    BY <1>1, <2>1, <2>2, DsxBytesHeld
  <2>4. d.p = c.p
    BY <1>2, <2>2, BytesKept
  <2>5. obeyed
    BY <1>1, <1>2, <2>1, <2>4, DsxMuteObeyed
  <2>6. QED
    BY <1>2, <2>3, <2>5 DEF DaemonCall, h
<1>9. CASE PlainOrder(o)
  <2>1. /\ o.side = NoSide /\ c.a = NoArray /\ c.op \in {"lightbar", "player_leds"}
        /\ c.p \in [DOMAIN CommandKeys[c.op] -> Int]
    BY <1>1, <1>9 DEF PlainOrder, Numbered, CommandKeys
  <2>2. CASE c.op = "lightbar"
    <3>1. c.p \in [1 .. 3 -> Int]
      BY <2>1, <2>2 DEF CommandKeys
    <3>2. c.p \in Seq(Int) /\ d.p \in [1 .. 3 -> Int]
      <4>1. PICK k \in Nat : k = 3
        OBVIOUS
      <4>2. QED
        BY <1>3, <3>1, <4>1
    <3>3. DsxHeld(o)
      BY <1>1, <2>2, <3>2, DsxLightHeld
    <3>4. obeyed
      BY <1>1, <1>2, <2>1, <2>2, <3>2, DsxLightbarObeyed
    <3>5. QED
      BY <1>2, <3>3, <3>4 DEF DaemonCall, h
  <2>3. CASE c.op = "player_leds"
    <3>1. c.p \in [1 .. 1 -> Int]
      BY <2>1, <2>3 DEF CommandKeys
    <3>2. c.p \in [1 .. 1 -> 0 .. 31]
      BY <1>1, <2>3, <3>1
    <3>3. c.p \in [1 .. 1 -> 0 .. 255]
      BY <3>2
    <3>4. d.p = c.p
      BY <1>2, <3>3, BytesKept
    <3>5. DsxHeld(o)
      BY <1>1, <2>3, <3>2, DsxBytesHeld
    <3>6. obeyed
      BY <1>1, <1>2, <2>1, <2>3, <3>2, <3>4, DsxLedsObeyed
    <3>7. QED
      BY <1>2, <3>5, <3>6 DEF DaemonCall, h
  <2>4. QED
    BY <2>1, <2>2, <2>3
<1>10. QED
  BY <1>5, <1>6, <1>7, <1>8, <1>9 DEF AskedOrder, AskedTrigger, AskedPlain

LEMMA DsxAnswers ==
    ASSUME NEW o, AskedOrder(o), NEW turn, "dsx" \in Offers(o.call)
    PROVE  Answered("dsx", o, turn)
<1>1. /\ DsxHeld(o)
      /\ ThroughDsx(HeldOrder(o), Controllers) =
            Order(resolve_device(IntOf(o.device), Controllers), o.side, DaemonCall(o.call))
  BY DsxHeldObeyed
<1>2. Through("dsx", o, turn) = dsx_instruction(DsxForm(o).type, Ints(DsxForm(o).params), Controllers)
  BY DEF Through
<1>3. Through("dsx", o, turn) = ThroughDsx(HeldOrder(o), Controllers)
  BY <1>1, <1>2 DEF DsxHeld, ThroughDsx
<1>4. QED
  BY <1>1, <1>3 DEF Answered, Answer, Named

LEMMA EveryFrontEndAnswers ==
    ASSUME NEW o, AskedOrder(o), NEW turn \in Nat, NEW f \in Offers(o.call)
    PROVE  Answered(f, o, turn)
<1>1. f \in {"gui", "native", "dsctl", "dsx"}
  BY DEF Offers
<1>2. QED
  BY <1>1, GuiAnswers, NativeAnswers, DsctlAnswers, DsxAnswers

-----------------------------------------------------------------------------
\* DSX's presets.

PresetCalls ==
    {OffCall, NoCall, Choppy} \cup {Call("vibration", <<0, 8, v>>) : v \in Int}
    \cup {Call("feedback", <<0, s>>) : s \in 1 .. 8}
LEMMA PresetApplied ==
    ASSUME NEW mode \in 0 .. 27, NEW p \in Seq(Int), Len(p) <= 1
    PROVE  apply_trigger(mode, p) \in PresetCalls
<1> DEFINE np == Len(p)
<1>1. np \in 0 .. 1
  <2>1. np \in Nat
    OBVIOUS
  <2> HIDE DEF np
  <2>2. np <= 1
    BY DEF np
  <2>3. QED
    BY <2>1, <2>2
<1>2. CASE mode \in DOMAIN DsxScalar
  <2>1. DsxScalar[mode].n \in 2 .. 6 /\ mode \in {13, 14, 15, 16, 17, 18, 21, 22, 23, 24}
    BY <1>2, DsxRows DEF DsxRow
  <2> DEFINE k == DsxScalar[mode].n
             call == Call(DsxScalar[mode].op, SubSeq(p, 1, k))
  <2>2. np < k
    BY <1>1, <2>1
  <2> HIDE DEF call, k
  <2>3. apply_trigger(mode, p) = NoCall
    <3>1. mode \notin {0, 20}
      BY <2>1
    <3>2. mode \notin {8, 19, 25, 26, 12, 9} \cup DOMAIN PresetStrength
      BY <2>1, DsxRows
    <3>3. apply_trigger(mode, p) = IF np < k THEN NoCall ELSE call
      BY <1>2, <3>1, <3>2 DEF apply_trigger, call, k
    <3>4. QED
      BY <2>2, <3>3
  <2>4. QED
    BY <2>3 DEF PresetCalls
<1>3. CASE mode \in DOMAIN PresetStrength
  <2>1. PresetStrength[mode] \in 1 .. 8 /\ mode \in {2, 3, 4, 5, 6, 7, 10}
    BY <1>3 DEF PresetStrength
  <2> DEFINE s == PresetStrength[mode]
             call == Call("feedback", <<0, s>>)
  <2>2. mode \notin {0, 20, 8, 19, 25, 26, 12, 9} \cup DOMAIN DsxScalar
    BY <2>1, DsxRows
  <2> HIDE DEF call
  <2>3. apply_trigger(mode, p) = call
    BY <1>3, <2>2 DEF apply_trigger, call
  <2>4. QED
    BY <2>1, <2>3 DEF PresetCalls, call
<1>4. CASE mode \notin DOMAIN DsxScalar /\ mode \notin DOMAIN PresetStrength
  <2>1. CASE mode \in {0, 20}
    <3>1. apply_trigger(mode, p) = OffCall
      BY <1>4, <2>1 DEF apply_trigger
    <3>2. QED
      BY <3>1 DEF PresetCalls
  <2>2. CASE mode = 8
    <3> DEFINE v == IF np >= 1 THEN p[1] ELSE 30
               call == Call("vibration", <<0, 8, v>>)
    <3>1. v \in Int
      BY <1>1
    <3> HIDE DEF call
    <3>2. apply_trigger(mode, p) = call
      BY <1>4, <2>2 DEF apply_trigger, call
    <3> HIDE DEF v
    <3>3. QED
      BY <3>1, <3>2 DEF PresetCalls, call
  <2>3. CASE mode = 19
    <3> DEFINE call == Call("vibration", <<0, 8, 10>>)
    <3> HIDE DEF call
    <3>1. apply_trigger(mode, p) = call
      BY <1>4, <2>3 DEF apply_trigger, call
    <3>2. \E v \in Int : call = Call("vibration", <<0, 8, v>>)
      BY SMTT(40) DEF call
    <3> HIDE DEF call
    <3>3. QED
      BY <3>1, <3>2 DEF PresetCalls
  <2>4. CASE mode \in {25, 26, 12}
    <3>1. apply_trigger(mode, p) = NoCall
      BY <1>1, <1>4, <2>4 DEF apply_trigger
    <3>2. QED
      BY <3>1 DEF PresetCalls
  <2>5. CASE mode = 9
    <3>1. apply_trigger(mode, p) = Choppy
      BY <1>4, <2>5 DEF apply_trigger
    <3>2. QED
      BY <3>1 DEF PresetCalls
  <2>6. CASE mode \notin {0, 20, 8, 19, 25, 26, 12, 9}
    <3>1. apply_trigger(mode, p) = NoCall
      BY <1>4, <2>6 DEF apply_trigger
    <3>2. QED
      BY <3>1 DEF PresetCalls
  <2>7. QED
    BY <2>1, <2>2, <2>3, <2>4, <2>5, <2>6
<1>5. QED
  BY <1>2, <1>3, <1>4

\* A preset lights LEDs there are, or is a call the library accepts.
Safe(call) ==
    call # NoCall =>
        IF call.op = "player_leds" THEN call.p[1] \in 0 .. 31 ELSE Result(call, Off.dst).ok
LEMMA PresetCallsSafe ==
    ASSUME NEW call \in PresetCalls
    PROVE  Safe(call)
<1> DEFINE d == Off.dst
<1> HIDE DEF d
<1>1. CASE call = OffCall
  <2>1. call.op = "off" /\ Result(call, d) = Off
    BY <1>1 DEF OffCall, Result
  <2>2. QED
    BY <2>1 DEF Safe, Off, Accept, d
<1>2. CASE call = NoCall
  BY <1>2 DEF Safe
<1>3. CASE call = Choppy
  <2>1. call.op = "raw" /\ Result(call, d) = Accept(Raw(call.p[1], call.a))
    BY <1>3 DEF Choppy, Result
  <2>2. QED
    BY <2>1 DEF Safe, Accept, d
<1>4. ASSUME NEW v \in Int, call = Call("vibration", <<0, 8, v>>) PROVE Safe(call)
  <2> DEFINE p == <<U8(0), U8(8), U8(v)>>
  <2>1. call.op = "vibration" /\ call.p[1] = U8(0) /\ call.p[2] = U8(8) /\ call.p[3] = U8(v)
    BY <1>4 DEF Call, Cut
  <2>2. U8(0) = 0 /\ U8(8) = 8
    BY DEF U8
  <2>3. Result(call, d) = Vibration(d, 0, 8, U8(v))
    BY <2>1, <2>2 DEF Result
  <2>4. Result(call, d).ok
    <3> DEFINE freq == U8(v)
    <3> HIDE DEF freq
    <3>1. Vibration(d, 0, 8, freq).ok
      BY DEF Vibration, Off, Accept
    <3>2. QED
      BY <2>3, <3>1 DEF freq
  <2>5. QED
    BY <2>1, <2>4 DEF Safe, d
<1>5. ASSUME NEW s \in 1 .. 8, call = Call("feedback", <<0, s>>) PROVE Safe(call)
  <2>1. call.op = "feedback" /\ call.p[1] = U8(0) /\ call.p[2] = U8(s)
    BY <1>5 DEF Call, Cut
  <2>2. U8(0) = 0 /\ U8(s) = s
    BY DEF U8
  <2>3. Result(call, d) = Feedback(d, 0, s)
    BY <2>1, <2>2 DEF Result
  <2>4. Feedback(d, 0, s).ok
    BY DEF Feedback, Off, Accept
  <2>5. QED
    BY <2>1, <2>3, <2>4 DEF Safe, d
<1>6. \/ call \in {OffCall, NoCall, Choppy}
      \/ \E v \in Int : call = Call("vibration", <<0, 8, v>>)
      \/ \E s \in 1 .. 8 : call = Call("feedback", <<0, s>>)
  BY Zenon DEF PresetCalls
<1>7. QED
  BY <1>1, <1>2, <1>3, <1>4, <1>5, <1>6

LEMMA IntsJoin == \A u, v, w \in Seq(Int) : (u \o v) \o w = u \o (v \o w)
BY ConcatAssociative, SMTT(30)

\* A mode without its numbers is one of the preset calls.
LEMMA PresetTriggers ==
    ASSUME NEW mode \in 0 .. 27, NEW p \in Seq(Int), Len(p) <= 1, NEW n
    PROVE  dsx_instruction(1, <<0, 1, mode>> \o p, n).call \in PresetCalls
<1>1. p \in Seq(Int) /\ Len(p) <= 1
  OBVIOUS
<1>2. <<0, 1, mode>> \o p = TriggerParams(0, 1, mode, p)
  <2> DEFINE a == <<0>>
             b == <<1, mode>>
             three == <<0, 1, mode>>
  <2>1. a \in Seq(Int) /\ b \in Seq(Int) /\ three = a \o b
    OBVIOUS
  <2>2. (a \o b) \o p = a \o (b \o p)
    <3> HIDE DEF a, b
    <3>1. QED
      BY <1>1, <2>1, IntsJoin, Zenon
  <2>3. TriggerParams(0, 1, mode, p) = a \o (b \o p)
    BY Zenon DEF TriggerParams
  <2>4. <<0, 1, mode>> \o p = three \o p
    OBVIOUS
  <2> HIDE DEF a, b, three
  <2>5. QED
    BY <2>1, <2>2, <2>3, <2>4
<1> DEFINE params == <<0, 1, mode>> \o p
<1>3. params = TriggerParams(0, IF "left" = "left" THEN 1 ELSE 2, mode, p)
  BY <1>2
<1> HIDE DEF params
<1>4. dsx_instruction(1, params, n) =
        Order(resolve_device(0, n), "left", apply_trigger(mode, p))
  BY <1>1, <1>3, TriggerInstruction
<1>5. apply_trigger(mode, p) \in PresetCalls
  BY <1>1, PresetApplied
<1>6. dsx_instruction(1, params, n).call = apply_trigger(mode, p)
  BY <1>4 DEF Order
<1>7. QED
  BY <1>5, <1>6 DEF params

LEMMA LedPresetSafe ==
    ASSUME NEW k \in -1 .. 6, NEW n
    PROVE  Safe(dsx_instruction(6, <<0, k>>, n).call)
<1> DEFINE params == <<0, k>>
           device == resolve_device(0, n)
           call == Call("player_leds", <<Presets[k + 1]>>)
<1>1. Len(params) = 2 /\ params[1] = 0 /\ params[2] = k
  OBVIOUS
<1> HIDE DEF params
<1>2. CASE k \in 0 .. 5
  <2>1. Presets[k + 1] \in 0 .. 31
    BY <1>2 DEF Presets
  <2>2. U8(Presets[k + 1]) \in 0 .. 31
    BY <2>1 DEF U8
  <2>3. call.op = "player_leds" /\ call.p[1] = U8(Presets[k + 1])
    BY DEF Call, Cut
  <2> HIDE DEF call, device
  <2>4. dsx_instruction(6, params, n) = Order(device, NoSide, call)
    BY <1>1, <1>2 DEF dsx_instruction, device, call
  <2>5. QED
    BY <2>2, <2>3, <2>4 DEF Order, Safe, params
<1>3. CASE k \notin 0 .. 5
  <2>1. dsx_instruction(6, params, n) = NoOrder
    BY <1>1, <1>3 DEF dsx_instruction
  <2>2. QED
    BY <2>1 DEF NoOrder, Order, Safe, params
<1>4. QED
  BY <1>2, <1>3

LEMMA ThePresets ==
    ASSUME NEW ins \in PresetInstruction
    PROVE  \/ /\ ins.type = 1
              /\ \E mode \in 0 .. 27, p \in BoundedSeq(Number, 1) : ins.params = <<0, 1, mode>> \o p
           \/ ins.type = 6 /\ \E k \in -1 .. 6 : ins.params = <<0, k>>
<1> DEFINE triggers == {<<0, 1, m[1]>> \o m[2] : m \in (0 .. 27) \X BoundedSeq(Number, 1)}
           leds == {<<0, n>> : n \in -1 .. 6}
<1>1. ins \in [type : {1}, params : triggers] \cup [type : {6}, params : leds]
  BY Zenon DEF PresetInstruction
<1>2. CASE ins.type = 1 /\ ins.params \in triggers
  <2>1. PICK m \in (0 .. 27) \X BoundedSeq(Number, 1) : ins.params = <<0, 1, m[1]>> \o m[2]
    BY <1>2, Zenon
  <2>2. m[1] \in 0 .. 27 /\ m[2] \in BoundedSeq(Number, 1)
    BY <2>1
  <2>3. QED
    BY <1>2, <2>1, <2>2, Zenon
<1>3. CASE ins.type = 6 /\ ins.params \in leds
  <2>1. PICK n \in -1 .. 6 : ins.params = <<0, n>>
    BY <1>3, Zenon
  <2>2. QED
    BY <1>3, <2>1
<1> HIDE DEF triggers, leds
<1>4. \/ ins.type = 1 /\ ins.params \in triggers
      \/ ins.type = 6 /\ ins.params \in leds
  BY <1>1
<1>5. QED
  BY <1>2, <1>3, <1>4

\* The ints of a preset's parameters are a preset's parameters.
PresetParams(type, params) ==
    \/ /\ type = 1
       /\ \E mode \in 0 .. 27, p \in Seq(Int) : Len(p) <= 1 /\ params = <<0, 1, mode>> \o p
    \/ type = 6 /\ \E k \in -1 .. 6 : params = <<0, k>>
LEMMA PresetInts ==
    ASSUME NEW ins \in PresetInstruction
    PROVE  PresetParams(ins.type, Ints(ins.params))
<1>1. ASSUME ins.type = 1,
             NEW mode \in 0 .. 27, NEW p \in BoundedSeq(Number, 1), ins.params = <<0, 1, mode>> \o p
      PROVE  PresetParams(ins.type, Ints(ins.params))
  <2> DEFINE head == <<0, 1, mode>>
             q == Ints(p)
  <2>1. p \in Seq(Int) /\ Len(p) <= 1
    <3>1. PICK m \in 0 .. 1 : p \in [1 .. m -> Number]
      BY DEF BoundedSeq, SeqOf
    <3>2. p \in [1 .. m -> Int]
      BY <3>1, NumberAssumption
    <3>3. p \in Seq(Int) /\ Len(p) = m
      BY <3>1, <3>2, TupleIsSeq
    <3>4. QED
      BY <3>1, <3>3
  <2>2. head \in Seq(Int) /\ Ints(head) = head
    <3>1. head \in [1 .. 3 -> 0 .. 255] /\ head \in Seq(Int)
      OBVIOUS
    <3> HIDE DEF head
    <3>2. QED
      BY <3>1, BytesKept
  <2>3. q \in Seq(Int) /\ Len(q) <= 1
    <3>1. q \in Seq(Int) /\ Len(q) = Len(p)
      BY <2>1, IntsSeq
    <3>2. QED
      BY <2>1, <3>1
  <2> HIDE DEF head, q
  <2>4. Ints(ins.params) = head \o q
    BY <1>1, <2>1, <2>2, IntsJoined DEF head, q
  <2>5. QED
    BY <1>1, <2>3, <2>4 DEF PresetParams, head
<1>2. ASSUME ins.type = 6, NEW k \in -1 .. 6, ins.params = <<0, k>>
      PROVE  PresetParams(ins.type, Ints(ins.params))
  <2>1. \A n \in -1 .. 255 : IntOf(n) = n
    <3>1. IntOf(-1) = -1
      <4>1. IsInt(-1)
        BY WidthAssumption DEF IsInt
      <4>2. QED
        BY <4>1, IntKept
    <3>2. QED
      BY <3>1, ByteKept
  <2>2. Ints(<<0, k>>) = <<IntOf(0), IntOf(k)>>
    BY DEF Ints
  <2>3. Ints(ins.params) = <<0, k>>
    BY <1>2, <2>1, <2>2
  <2>4. QED
    BY <1>2, <2>3 DEF PresetParams
<1>3. QED
  BY <1>1, <1>2, ThePresets

LEMMA PresetsSafe ==
    ASSUME NEW ins \in PresetInstruction, NEW count
    PROVE  Safe(dsx_instruction(ins.type, Ints(ins.params), count).call)
<1> DEFINE params == Ints(ins.params)
<1>1. ASSUME ins.type = 1,
             NEW mode \in 0 .. 27, NEW p \in Seq(Int), Len(p) <= 1, params = <<0, 1, mode>> \o p
      PROVE  Safe(dsx_instruction(ins.type, params, count).call)
  <2>1. dsx_instruction(1, <<0, 1, mode>> \o p, count).call \in PresetCalls
    BY <1>1, PresetTriggers
  <2>2. QED
    BY <1>1, <2>1, PresetCallsSafe
<1>2. ASSUME ins.type = 6, NEW k \in -1 .. 6, params = <<0, k>>
      PROVE  Safe(dsx_instruction(ins.type, params, count).call)
  BY <1>2, LedPresetSafe
<1>3. QED
  BY <1>1, <1>2, PresetInts DEF PresetParams

-----------------------------------------------------------------------------
\* The invariant.

OrdersAgree(order, answers) ==
    LET naming == DOMAIN answers \cap {"native", "dsx"}
        named == order.device \in 0 .. Controllers - 1
    IN  /\ \A f \in DOMAIN answers :
            /\ answers[f].side = order.side
            /\ f \notin naming => answers[f].device = 0
            /\ f \in naming /\ IsInt(order.device) =>
                    answers[f].device = IF named THEN order.device ELSE 0
            /\ ByteCall(order.call) => answers[f].call = order.call
        /\ \A f, g \in naming : answers[f].device = answers[g].device
        /\ \A f, g \in DOMAIN answers \ {"dsctl"} : answers[f].call = answers[g].call
        /\ LongCall(order.call) =>
                \A f, g \in DOMAIN answers : answers[f].call = answers[g].call

\* Numbers that fit a long lose nothing but what a byte loses.
LEMMA LongCallsSame ==
    ASSUME NEW c, Whole(c), LongCall(c)
    PROVE  DaemonCall(c) = CutCall(c) /\ (c.a = NoArray => DsctlCall(c) = CutCall(c))
<1> DEFINE p == c.p
           d == IntCall(c)
<1>1. PICK k \in Nat : p \in [1 .. k -> Int]
  BY DEF Whole
<1>2. /\ d.op = c.op /\ d.p = Ints(p)
      /\ c.a = NoArray => d.a = NoArray
      /\ c.a \in [Zone -> Int] =>
            d.a # NoArray /\ c.a # NoArray /\ \A z \in Zone : d.a[z] = IntOf(c.a[z])
  BY IntCallParts
<1>3. \A i \in 1 .. k : p[i] \in Int /\ IsLong(p[i])
  BY <1>1 DEF LongCall, ToSet
<1>4. c.a = NoArray \/ \A z \in Zone : IsLong(c.a[z])
  BY DEF LongCall
<1>5. c.a = NoArray \/ c.a \in [Zone -> Int]
  BY DEF Whole
<1> HIDE DEF p, d
<1>6. \A i \in 1 .. k : U8(IntOf(p[i])) = U8(p[i]) /\ U8(strtoul(p[i])) = U8(p[i])
  BY <1>3, LowByte
<1>7. Cut(Ints(p)) = Cut(p) /\ Cut(LongArgs(p)) = Cut(p)
  <2>1. Cut(Ints(p)) = [i \in 1 .. k |-> U8(IntOf(p[i]))]
    BY <1>1 DEF Cut, Ints
  <2>2. Cut(LongArgs(p)) = [i \in 1 .. k |-> U8(strtoul(p[i]))]
    BY <1>1 DEF Cut, LongArgs
  <2>3. Cut(p) = [i \in 1 .. k |-> U8(p[i])]
    BY <1>1 DEF Cut
  <2>4. QED
    BY <1>6, <2>1, <2>2, <2>3
<1>8. CASE c.a = NoArray
  <2>1. CutCall(c) = [op |-> c.op, p |-> Cut(p), a |-> NoArray]
    BY <1>8 DEF CutCall, p
  <2>2. DaemonCall(c) = [op |-> c.op, p |-> Cut(Ints(p)), a |-> NoArray]
    BY <1>2, <1>8 DEF CutCall, DaemonCall, d
  <2>3. DsctlCall(c) = [op |-> c.op, p |-> Cut(LongArgs(p)), a |-> NoArray]
    BY DEF DsctlCall, p
  <2>4. QED
    BY <1>7, <2>1, <2>2, <2>3
<1>9. CASE c.a # NoArray
  <2>1. \A z \in Zone : c.a[z] \in Int /\ IsLong(c.a[z])
    BY <1>4, <1>5, <1>9
  <2>2. \A z \in Zone : U8(IntOf(c.a[z])) = U8(c.a[z])
    BY <2>1, LowByte
  <2>3. \A z \in Zone : U8(d.a[z]) = U8(c.a[z])
    BY <1>2, <1>5, <1>9, <2>2
  <2>4. [z \in Zone |-> U8(d.a[z])] = [z \in Zone |-> U8(c.a[z])]
    BY <2>3
  <2>5. CutCall(c) = [op |-> c.op, p |-> Cut(p), a |-> [z \in Zone |-> U8(c.a[z])]]
    BY <1>9 DEF CutCall, p
  <2>6. d.a # NoArray
    BY <1>2, <1>5, <1>9
  <2>7. DaemonCall(c) = [op |-> c.op, p |-> Cut(Ints(p)), a |-> [z \in Zone |-> U8(d.a[z])]]
    BY <1>2, <2>6 DEF CutCall, DaemonCall, d
  <2>8. QED
    BY <1>7, <1>9, <2>4, <2>5, <2>7
<1>10. QED
  BY <1>8, <1>9

LEMMA BytesAreLong ==
    ASSUME NEW c, ByteCall(c)
    PROVE  LongCall(c)
<1>1. \A n \in Byte : IsLong(n)
  <2>1. 256 <= ColourCount /\ ColourCount \in Nat
    BY SMT DEF ColourCount
  <2> SUFFICES ASSUME NEW n \in Byte PROVE IsLong(n)
    OBVIOUS
  <2>2. n \in 0 .. ColourCount - 1
    BY <2>1 DEF Byte
  <2>3. QED
    BY <2>2, ColourKept, Zenon
<1>2. QED
  BY <1>1 DEF ByteCall, LongCall

LEMMA OrdersAgreed ==
    ASSUME NEW o, AskedOrder(o), NEW turn \in Nat, NEW answers,
           answers = [f \in Offers(o.call) |-> Through(f, o, turn)]
    PROVE  OrdersAgree(o, answers)
<1> DEFINE c == o.call
           naming == DOMAIN answers \cap {"native", "dsx"}
           named == o.device \in 0 .. Controllers - 1
<1>1. ASSUME NEW f \in DOMAIN answers
      PROVE  /\ answers[f].side = o.side
             /\ answers[f].device = IF f \in {"native", "dsx"} THEN Named(o) ELSE 0
             /\ answers[f].call = IF f = "dsctl" THEN DsctlCall(c) ELSE DaemonCall(c)
  BY EveryFrontEndAnswers DEF Answered, Answer, Order
<1>2. IsInt(o.device) => Named(o) = IF named THEN o.device ELSE 0
  <2>1. IsInt(o.device) => IntOf(o.device) = o.device
    BY IntKept DEF AskedOrder
  <2>2. QED
    BY <2>1 DEF Named, resolve_device
<1>3. Whole(c)
  BY DEF AskedOrder
<1>4. "dsctl" \in DOMAIN answers => c.a = NoArray
  <2>1. "dsctl" \in DOMAIN answers => PlainOrder(o) \/ TriggerOrder(o) \/ MuteOrder(o)
    BY AskedOps DEF Offers
  <2>2. QED
    BY <2>1 DEF PlainOrder, TriggerOrder, MuteOrder, Numbered
<1>5. ASSUME LongCall(c), NEW f \in DOMAIN answers PROVE answers[f].call = CutCall(c)
  <2>1. DaemonCall(c) = CutCall(c) /\ (c.a = NoArray => DsctlCall(c) = CutCall(c))
    BY <1>3, <1>5, LongCallsSame
  <2>2. QED
    BY <1>1, <1>4, <1>5, <2>1
<1>6. ASSUME ByteCall(c), NEW f \in DOMAIN answers PROVE answers[f].call = c
  <2>1. CutCall(c) = c /\ LongCall(c)
    BY <1>3, <1>6, CutOfBytes, BytesAreLong
  <2>2. QED
    BY <1>5, <1>6, <2>1
<1>7. ASSUME NEW f \in DOMAIN answers
      PROVE  /\ answers[f].side = o.side
             /\ f \notin naming => answers[f].device = 0
             /\ f \in naming /\ IsInt(o.device) =>
                    answers[f].device = IF named THEN o.device ELSE 0
             /\ ByteCall(c) => answers[f].call = c
  BY <1>1, <1>2, <1>6, <1>7
<1>8. \A f, g \in naming : answers[f].device = answers[g].device
  BY <1>1
<1>9. \A f, g \in DOMAIN answers \ {"dsctl"} : answers[f].call = answers[g].call
  BY <1>1
<1>10. LongCall(c) => \A f, g \in DOMAIN answers : answers[f].call = answers[g].call
  BY <1>5
<1>11. QED
  BY <1>7, <1>8, <1>9, <1>10, Zenon DEF OrdersAgree

\* What Ask asks, and of whom.
LEMMA OrderAsked ==
    ASSUME Ask
    PROVE  \E o : \E turn \in Nat :
            /\ AskedOrder(o) /\ given'.order = o
            /\ got' = [f \in Offers(o.call) |-> Through(f, o, turn)]
<1>1. PICK c \in TriggerCalls \cup PlainCalls, turn \in 0 .. 9 :
        \E side \in IF c \in TriggerCalls THEN {"left", "right"} ELSE {NoSide} :
            LET order == Order(DeviceNumber(turn), side, c)
            IN  Convert([kind |-> "order", order |-> order, turn |-> turn],
                        [f \in Offers(c) |-> Through(f, order, turn)])
  BY DEF Ask
<1>2. PICK side \in IF c \in TriggerCalls THEN {"left", "right"} ELSE {NoSide} :
            LET order == Order(DeviceNumber(turn), side, c)
            IN  Convert([kind |-> "order", order |-> order, turn |-> turn],
                        [f \in Offers(c) |-> Through(f, order, turn)])
  BY <1>1
<1> DEFINE device == DeviceNumber(turn)
           o == Order(device, side, c)
           answers == [f \in Offers(c) |-> Through(f, o, turn)]
<1>3. given'.order = o /\ got' = answers
  BY <1>2 DEF Convert
<1>4. device \in Int /\ turn \in Nat
  <2> DEFINE n == Controllers + 3
             k == turn % n
  <2>1. n \in Nat \ {0}
    BY OneController
  <2> HIDE DEF n
  <2>2. k \in Int
    BY <2>1
  <2>3. 2 * IntHalf + 1 \in Int
    BY WidthAssumption
  <2> HIDE DEF k
  <2>4. (IF k > Controllers + 1 THEN 2 * IntHalf + 1 ELSE k - 1) \in Int
    BY <2>2, <2>3
  <2>5. device = IF k > Controllers + 1 THEN 2 * IntHalf + 1 ELSE k - 1
    BY DEF DeviceNumber, k, n
  <2>6. QED
    BY <2>4, <2>5
<1> HIDE DEF device
<1>5. AskedOrder(o)
  <2>1. CASE c \in TriggerCalls
    BY <1>4, <2>1, TriggersAsked
  <2>2. CASE c \notin TriggerCalls
    <3>1. c \in PlainCalls /\ side = NoSide
      BY <2>2
    <3>2. QED
      BY <1>4, <3>1, PlainsAsked
  <2>3. QED
    BY <2>1, <2>2
<1>6. o.call = c
  BY DEF Order
<1> HIDE DEF o
<1>7. QED
  BY <1>3, <1>4, <1>5, <1>6

\* The front ends of the daemon make the same call of the same words, for the same
\* controller, whatever numbers are written, and dsctl makes it of numbers that fit
\* a long; for the trigger asked and, where its index is an int, the controller
\* named; and a preset of DSX is never refused by the library.
THEOREM FrontEndsAgreeCorrect == Spec => []FrontEndsAgree
<1>1. Init => FrontEndsAgree
  BY DEF Init, FrontEndsAgree, Is
<1>2. FrontEndsAgree /\ [Next]_vars => FrontEndsAgree'
  <2> SUFFICES ASSUME FrontEndsAgree, [Next]_vars PROVE FrontEndsAgree'
    OBVIOUS
  <2>1. CASE Ask /\ given'.kind = "order"
    <3>1. PICK o : \E turn \in Nat :
            /\ AskedOrder(o) /\ given'.order = o
            /\ got' = [f \in Offers(o.call) |-> Through(f, o, turn)]
      BY <2>1, OrderAsked
    <3>2. PICK turn \in Nat :
            /\ AskedOrder(o) /\ given'.order = o
            /\ got' = [f \in Offers(o.call) |-> Through(f, o, turn)]
      BY <3>1
    <3>3. OrdersAgree(o, got')
      BY <3>2, OrdersAgreed
    <3>4. QED
      <4>1. OrdersAgree(given'.order, got')
        BY <3>2, <3>3
      <4>2. given'.kind = "order" /\ given'.kind # "preset"
        BY <2>1
      <4>3. QED
        BY <4>1, <4>2, Zenon DEF FrontEndsAgree, OrdersAgree, Is
  <2>2. CASE Preset /\ given'.kind = "preset"
    <3>1. PICK ins \in PresetInstruction :
            Convert([kind |-> "preset", ins |-> ins],
                    dsx_instruction(ins.type, Ints(ins.params), Controllers).call)
      BY <2>2 DEF Preset
    <3>2. got' = dsx_instruction(ins.type, Ints(ins.params), Controllers).call
      BY <3>1 DEF Convert
    <3>3. Safe(got')
      BY <3>2, PresetsSafe
    <3>4. QED
      BY <2>2, <3>3 DEF FrontEndsAgree, Safe, Is
  <2>3. CASE Next /\ given'.kind \notin {"order", "preset"}
    BY <2>3 DEF FrontEndsAgree, Is
  <2>4. CASE UNCHANGED vars
    BY <2>4 DEF vars, FrontEndsAgree, Is
  <2>5. QED
    BY <2>1, <2>2, <2>3, <2>4, OneConversion DEF Converted
<1>3. QED
  BY <1>1, <1>2, PTL DEF Spec
-----------------------------------------------------------------------------

LEMMA MessagesAreBytes ==
    ASSUME NEW data \in BoundedSeq(MessageByte, MaxMessage)
    PROVE  \E n \in Nat : data \in [1 .. n -> 0 .. 255]
<1>1. PICK n \in 0 .. MaxMessage : data \in [1 .. n -> MessageByte]
  BY DEF BoundedSeq, SeqOf
<1>2. n \in Nat
  BY LengthAssumption
<1>3. data = [k \in 1 .. n |-> data[k]] /\ \A k \in 1 .. n : data[k] \in MessageByte
  BY <1>1
<1>4. \A k \in 1 .. n : data[k] \in 0 .. 255
  BY <1>3, NumberAssumption
<1>5. data \in [1 .. n -> 0 .. 255]
  BY <1>3, <1>4
<1>6. QED
  BY <1>2, <1>5

\* Whatever bytes are checksummed, the controller confirms what ds_crc32 and what
\* haptics_crc32 append to them.
THEOREM ReceiverAcceptsCorrect == Spec => []ReceiverAccepts
<1>1. Init => ReceiverAccepts
  BY DEF Init, ReceiverAccepts, Is
<1>2. ReceiverAccepts /\ [Next]_vars => ReceiverAccepts'
  <2> SUFFICES ASSUME ReceiverAccepts, [Next]_vars PROVE ReceiverAccepts'
    OBVIOUS
  <2>1. CASE Checksum
    <3>1. PICK data \in BoundedSeq(MessageByte, MaxMessage) :
            Convert([kind |-> "checksum", data |-> data],
                    [ds |-> Stored(ds_crc32(data)), haptics |-> Stored(haptics_crc32(data))])
      BY <2>1 DEF Checksum
    <3>2. PICK n \in Nat : data \in [1 .. n -> 0 .. 255]
      BY MessagesAreBytes
    <3>4. /\ ds_crc32(data) = haptics_crc32(data)
          /\ Confirmed(<<Preamble>> \o data \o Stored(ds_crc32(data)))
      BY <3>2, ChecksumConfirmed
    <3> DEFINE crc == Stored(ds_crc32(data))
    <3>5. given'.data = data /\ got'.ds = crc /\ got'.haptics = crc
      BY <3>1, <3>4 DEF Convert
    <3>6. Confirmed(<<Preamble>> \o data \o crc)
      BY <3>4
    <3> HIDE DEF crc
    <3>7. QED
      BY <3>5, <3>6 DEF ReceiverAccepts
  <2>2. CASE Next /\ ~Checksum
    BY <2>2, OneConversion DEF Converted, ReceiverAccepts, Is
  <2>3. CASE UNCHANGED vars
    BY <2>3 DEF vars, ReceiverAccepts, Is
  <2>4. QED
    BY <2>1, <2>2, <2>3
<1>3. QED
  BY <1>1, <1>2, PTL DEF Spec

-----------------------------------------------------------------------------
\* Output reports: the tables put every group where the controller looks for it.

Handle ==
    [conn : {"bt", "usb"}, seq : 0 .. 15, dirty : SUBSET Groups, motor_right : Byte,
     motor_left : Byte, mute_led : Byte, player_leds : Byte, lightbar : [1 .. 3 -> Byte],
     r_trigger : [0 .. 10 -> Byte], l_trigger : [0 .. 10 -> Byte]]
Layout(at, base) ==
    /\ at.flags0 = base /\ at.flags1 = base + 1 /\ at.motor_right = base + 2
    /\ at.motor_left = base + 3 /\ at.mute_led = base + 8 /\ at.r_trigger = base + 10
    /\ at.l_trigger = base + 21 /\ at.led_mode = base + 41 /\ at.flag2 = base + 42
    /\ at.player_leds = base + 43 /\ at.lightbar_r = base + 44 /\ at.lightbar_g = base + 45
    /\ at.lightbar_b = base + 46
LEMMA BothLayouts == Layout(BtOffset, 3) /\ Layout(UsbOffset, 1)
BY DEF Layout, BtOffset, UsbOffset

\* The bytes of the part both reports share.
Placed(r, dev, base) ==
    /\ r[base] = Flags0(dev.dirty) /\ r[base + 1] = Flags1(dev.dirty)
    /\ r[base + 2] = dev.motor_right /\ r[base + 3] = dev.motor_left
    /\ r[base + 8] = dev.mute_led /\ r[base + 42] = Flags2(dev.dirty)
    /\ r[base + 43] = dev.player_leds
    /\ \A i \in 0 .. 10 : r[base + 10 + i] = dev.r_trigger[i]
    /\ \A i \in 0 .. 10 : r[base + 21 + i] = dev.l_trigger[i]
    /\ \A i \in 1 .. 3 : r[base + 43 + i] = dev.lightbar[i]
LEMMA BodyPlaced ==
    ASSUME NEW dev, NEW at, NEW base \in 1 .. 3, Layout(at, base), NEW length \in Nat, length >= 64
    PROVE  Placed(Body(dev, at, length), dev, base)
<1> DEFINE b == Body(dev, at, length)
<1>1. \A i \in 0 .. length - 1 :
        b[i] = CASE i = base -> Flags0(dev.dirty)
                 [] i = base + 1 -> Flags1(dev.dirty)
                 [] i = base + 2 -> dev.motor_right
                 [] i = base + 3 -> dev.motor_left
                 [] i = base + 8 -> dev.mute_led
                 [] i \in base + 10 .. base + 10 + 10 -> dev.r_trigger[i - (base + 10)]
                 [] i \in base + 21 .. base + 21 + 10 -> dev.l_trigger[i - (base + 21)]
                 [] i = base + 41 -> 2
                 [] i = base + 42 -> Flags2(dev.dirty)
                 [] i = base + 43 -> dev.player_leds
                 [] i = base + 44 -> dev.lightbar[1]
                 [] i = base + 45 -> dev.lightbar[2]
                 [] i = base + 46 -> dev.lightbar[3]
                 [] OTHER -> 0
  BY DEF Body, Layout
<1> HIDE DEF b
<1>2. /\ b[base] = Flags0(dev.dirty) /\ b[base + 1] = Flags1(dev.dirty)
      /\ b[base + 2] = dev.motor_right /\ b[base + 3] = dev.motor_left
  BY <1>1
<1>3. /\ b[base + 8] = dev.mute_led /\ b[base + 42] = Flags2(dev.dirty)
      /\ b[base + 43] = dev.player_leds
  BY <1>1
<1>4. ASSUME NEW i \in 0 .. 10 PROVE b[base + 10 + i] = dev.r_trigger[i]
  <2>1. base + 10 + i \in base + 10 .. base + 10 + 10 /\ (base + 10 + i) - (base + 10) = i
    OBVIOUS
  <2>2. QED
    BY <1>1, <2>1
<1>5. ASSUME NEW i \in 0 .. 10 PROVE b[base + 21 + i] = dev.l_trigger[i]
  <2>1. base + 21 + i \in base + 21 .. base + 21 + 10 /\ (base + 21 + i) - (base + 21) = i
    OBVIOUS
  <2>2. QED
    BY <1>1, <2>1
<1>6. /\ b[base + 44] = dev.lightbar[1] /\ b[base + 45] = dev.lightbar[2]
      /\ b[base + 46] = dev.lightbar[3]
  BY <1>1
<1>7. ASSUME NEW i \in 1 .. 3 PROVE b[base + 43 + i] = dev.lightbar[i]
  <2>1. i = 1 \/ i = 2 \/ i = 3
    OBVIOUS
  <2>2. base + 43 + 1 = base + 44 /\ base + 43 + 2 = base + 45 /\ base + 43 + 3 = base + 46
    OBVIOUS
  <2>3. QED
    BY <1>6, <2>1, <2>2
<1>8. QED
  BY <1>2, <1>3, <1>4, <1>5, <1>7 DEF Placed, b

-----------------------------------------------------------------------------
LEMMA FlagBytes ==
    ASSUME NEW dirty
    PROVE  /\ Flags0(dirty) \in Byte /\ Flags1(dirty) \in Byte /\ Flags2(dirty) \in Byte
BY DEF Flags0, Flags1, Flags2, If, Byte
LEMMA FlagsRead ==
    ASSUME NEW dirty
    PROVE  /\ (Flags0(dirty) \div 1) % 2 = 1 <=> "motors" \in dirty
           /\ (Flags0(dirty) \div 2) % 2 = 1 <=> "motors" \in dirty
           /\ (Flags0(dirty) \div 4) % 2 = 1 <=> "r_trigger" \in dirty
           /\ (Flags0(dirty) \div 8) % 2 = 1 <=> "l_trigger" \in dirty
           /\ (Flags1(dirty) \div 4) % 2 = 1 <=> "lightbar" \in dirty
           /\ (Flags1(dirty) \div 16) % 2 = 1 <=> "player_leds" \in dirty
           /\ (Flags1(dirty) \div 1) % 2 = 1 <=> "mute_led" \in dirty
           /\ (Flags2(dirty) \div 4) % 2 = 1 <=> "motors" \in dirty
<1>1. /\ (Flags0(dirty) \div 1) % 2 = 1 <=> "motors" \in dirty
      /\ (Flags0(dirty) \div 2) % 2 = 1 <=> "motors" \in dirty
      /\ (Flags0(dirty) \div 4) % 2 = 1 <=> "r_trigger" \in dirty
      /\ (Flags0(dirty) \div 8) % 2 = 1 <=> "l_trigger" \in dirty
  BY DEF Flags0, If
<1>2. /\ (Flags1(dirty) \div 4) % 2 = 1 <=> "lightbar" \in dirty
      /\ (Flags1(dirty) \div 16) % 2 = 1 <=> "player_leds" \in dirty
      /\ (Flags1(dirty) \div 1) % 2 = 1 <=> "mute_led" \in dirty
  BY DEF Flags1, If
<1>3. (Flags2(dirty) \div 4) % 2 = 1 <=> "motors" \in dirty
  BY DEF Flags2, If
<1>4. QED
  BY <1>1, <1>2, <1>3
LEMMA MarkedRead ==
    ASSUME NEW dev \in Handle, NEW r, NEW base \in 1 .. 3, Placed(r, dev, base)
    PROVE  Marked(r, base) = dev.dirty
<1> DEFINE dirty == dev.dirty
<1>1. dirty \in SUBSET Groups
  BY DEF Handle
<1>2. /\ r[base] = Flags0(dirty) /\ r[base + 1] = Flags1(dirty) /\ r[base + 42] = Flags2(dirty)
  BY DEF Placed
<1> HIDE DEF dirty
<1>3. base + 0 = base
  OBVIOUS
<1>4. \A g \in Groups : g \in Marked(r, base) <=> g \in dirty
  <2>1. /\ (r[base + 0] \div 1) % 2 = 1 <=> "motors" \in dirty
        /\ (r[base + 0] \div 2) % 2 = 1 <=> "motors" \in dirty
        /\ (r[base + 0] \div 4) % 2 = 1 <=> "r_trigger" \in dirty
        /\ (r[base + 0] \div 8) % 2 = 1 <=> "l_trigger" \in dirty
        /\ (r[base + 1] \div 4) % 2 = 1 <=> "lightbar" \in dirty
        /\ (r[base + 1] \div 16) % 2 = 1 <=> "player_leds" \in dirty
        /\ (r[base + 1] \div 1) % 2 = 1 <=> "mute_led" \in dirty
        /\ (r[base + 42] \div 4) % 2 = 1 <=> "motors" \in dirty
    BY <1>2, <1>3, FlagsRead
  <2>2. QED
    BY <2>1, Zenon DEF Marked, Groups
<1>5. Marked(r, base) \subseteq Groups
  BY DEF Marked
<1>6. QED
  BY <1>1, <1>4, <1>5 DEF dirty
LEMMA BodyBytes ==
    ASSUME NEW dev \in Handle, NEW at, NEW base \in 1 .. 3, Layout(at, base),
           NEW length \in Nat, NEW i \in 0 .. length - 1
    PROVE  Body(dev, at, length)[i] \in Byte
<1> DEFINE b == Body(dev, at, length)
<1>1. b[i] = CASE i = base -> Flags0(dev.dirty)
                 [] i = base + 1 -> Flags1(dev.dirty)
                 [] i = base + 2 -> dev.motor_right
                 [] i = base + 3 -> dev.motor_left
                 [] i = base + 8 -> dev.mute_led
                 [] i \in base + 10 .. base + 10 + 10 -> dev.r_trigger[i - (base + 10)]
                 [] i \in base + 21 .. base + 21 + 10 -> dev.l_trigger[i - (base + 21)]
                 [] i = base + 41 -> 2
                 [] i = base + 42 -> Flags2(dev.dirty)
                 [] i = base + 43 -> dev.player_leds
                 [] i = base + 44 -> dev.lightbar[1]
                 [] i = base + 45 -> dev.lightbar[2]
                 [] i = base + 46 -> dev.lightbar[3]
                 [] OTHER -> 0
  BY DEF Body, Layout
<1> HIDE DEF b
<1>2. /\ Flags0(dev.dirty) \in Byte /\ Flags1(dev.dirty) \in Byte /\ Flags2(dev.dirty) \in Byte
  BY FlagBytes
<1>3. /\ dev.motor_right \in Byte /\ dev.motor_left \in Byte /\ dev.mute_led \in Byte
      /\ dev.player_leds \in Byte /\ dev.lightbar[1] \in Byte /\ dev.lightbar[2] \in Byte
      /\ dev.lightbar[3] \in Byte /\ 2 \in Byte /\ 0 \in Byte
      /\ \A k \in 0 .. 10 : dev.r_trigger[k] \in Byte /\ dev.l_trigger[k] \in Byte
  <2>1. 2 \in Byte /\ 0 \in Byte
    BY DEF Byte
  <2>2. /\ dev.motor_right \in Byte /\ dev.motor_left \in Byte /\ dev.mute_led \in Byte
        /\ dev.player_leds \in Byte /\ dev.lightbar \in [1 .. 3 -> Byte]
        /\ dev.r_trigger \in [0 .. 10 -> Byte] /\ dev.l_trigger \in [0 .. 10 -> Byte]
    BY DEF Handle
  <2>3. QED
    BY <2>1, <2>2
<1>4. CASE i \in base + 10 .. base + 10 + 10
  <2>1. b[i] = dev.r_trigger[i - (base + 10)]
    BY <1>1, <1>4
  <2>2. i - (base + 10) \in 0 .. 10
    BY <1>4
  <2>3. QED
    BY <1>3, <2>1, <2>2 DEF b
<1>5. CASE i \in base + 21 .. base + 21 + 10
  <2>1. b[i] = dev.l_trigger[i - (base + 21)]
    BY <1>1, <1>5
  <2>2. i - (base + 21) \in 0 .. 10
    BY <1>5
  <2>3. QED
    BY <1>3, <2>1, <2>2 DEF b
<1>6. CASE i \notin base + 10 .. base + 10 + 10 /\ i \notin base + 21 .. base + 21 + 10
  <2> HIDE DEF Byte
  <2>1. b[i] = CASE i = base -> Flags0(dev.dirty)
                 [] i = base + 1 -> Flags1(dev.dirty)
                 [] i = base + 2 -> dev.motor_right
                 [] i = base + 3 -> dev.motor_left
                 [] i = base + 8 -> dev.mute_led
                 [] i = base + 41 -> 2
                 [] i = base + 42 -> Flags2(dev.dirty)
                 [] i = base + 43 -> dev.player_leds
                 [] i = base + 44 -> dev.lightbar[1]
                 [] i = base + 45 -> dev.lightbar[2]
                 [] i = base + 46 -> dev.lightbar[3]
                 [] OTHER -> 0
    BY <1>1, <1>6
  <2>2. b[i] \in Byte
    BY <1>2, <1>3, <2>1
  <2>3. QED
    BY <2>2 DEF b
<1>7. QED
  BY <1>4, <1>5, <1>6

-----------------------------------------------------------------------------
\* What the controller reads of a report with the shared part at base.
SeenAs(r, dev) ==
    /\ ReadReport(r).marked = dev.dirty
    /\ \A f \in DOMAIN ReadReport(r) \ {"marked"} : ReadReport(r)[f] = dev[f]
LEMMA PlacedSeen ==
    ASSUME NEW dev \in Handle, NEW r, NEW base \in 1 .. 3, Placed(r, dev, base),
           base = IF r[0] = 49 THEN 3 ELSE 1
    PROVE  SeenAs(r, dev)
<1> DEFINE right == [i \in 0 .. 10 |-> r[base + 10 + i]]
           left == [i \in 0 .. 10 |-> r[base + 21 + i]]
           light == [i \in 1 .. 3 |-> r[base + 43 + i]]
           marks == Marked(r, base)
           seen == ReadReport(r)
<1>1. seen = [marked |-> marks, motor_right |-> r[base + 2], motor_left |-> r[base + 3],
              mute_led |-> r[base + 8], r_trigger |-> right, l_trigger |-> left,
              player_leds |-> r[base + 43], lightbar |-> light]
  BY DEF ReadReport
<1>2. marks = dev.dirty
  BY MarkedRead
<1>3. /\ r[base + 2] = dev.motor_right /\ r[base + 3] = dev.motor_left
      /\ r[base + 8] = dev.mute_led /\ r[base + 43] = dev.player_leds
  BY DEF Placed
<1>4. right = dev.r_trigger /\ left = dev.l_trigger /\ light = dev.lightbar
  <2>1. /\ \A i \in 0 .. 10 : r[base + 10 + i] = dev.r_trigger[i]
        /\ \A i \in 0 .. 10 : r[base + 21 + i] = dev.l_trigger[i]
        /\ \A i \in 1 .. 3 : r[base + 43 + i] = dev.lightbar[i]
    BY DEF Placed
  <2>2. /\ dev.lightbar \in [1 .. 3 -> Byte] /\ dev.r_trigger \in [0 .. 10 -> Byte]
        /\ dev.l_trigger \in [0 .. 10 -> Byte]
    BY DEF Handle
  <2>3. right = dev.r_trigger
    BY <2>1, <2>2
  <2>4. left = dev.l_trigger
    BY <2>1, <2>2
  <2>5. light = dev.lightbar
    BY <2>1, <2>2
  <2>6. QED
    BY <2>3, <2>4, <2>5
<1> HIDE DEF right, left, light, marks, seen
<1>5. /\ seen.marked = marks /\ seen.motor_right = r[base + 2] /\ seen.motor_left = r[base + 3]
      /\ seen.mute_led = r[base + 8] /\ seen.r_trigger = right /\ seen.l_trigger = left
      /\ seen.player_leds = r[base + 43] /\ seen.lightbar = light
      /\ DOMAIN seen = {"marked", "motor_right", "motor_left", "mute_led", "r_trigger",
                        "l_trigger", "player_leds", "lightbar"}
  BY <1>1
<1>6. /\ seen["marked"] = dev["dirty"] /\ seen["motor_right"] = dev["motor_right"]
      /\ seen["motor_left"] = dev["motor_left"] /\ seen["mute_led"] = dev["mute_led"]
      /\ seen["r_trigger"] = dev["r_trigger"] /\ seen["l_trigger"] = dev["l_trigger"]
      /\ seen["player_leds"] = dev["player_leds"] /\ seen["lightbar"] = dev["lightbar"]
  BY <1>2, <1>3, <1>4, <1>5
<1>7. \A f \in DOMAIN seen \ {"marked"} : seen[f] = dev[f]
  BY <1>5, <1>6, Zenon
<1>8. QED
  BY <1>2, <1>5, <1>7 DEF SeenAs, seen

\* A report is the body with its first bytes written and a checksum or none.
LEMMA UsbReported ==
    ASSUME NEW dev \in Handle, dev.conn = "usb"
    PROVE  LET r == Report(dev)
           IN  /\ r[0] = 2 /\ Placed(r, dev, 1)
               /\ \A i \in DOMAIN r : r[i] \in Byte
<1> DEFINE b == Body(dev, UsbOffset, 64)
           r == [b EXCEPT ![0] = 2]
<1>1. Report(dev) = r
  BY DEF Report, UsbReport
<1>2. Layout(UsbOffset, 1) /\ 1 \in 1 .. 3 /\ 64 \in Nat
  BY BothLayouts
<1>3. Placed(b, dev, 1)
  BY <1>2, BodyPlaced
<1>4. \A i \in 0 .. 64 - 1 : b[i] \in Byte
  BY <1>2, BodyBytes
<1>5. DOMAIN b = 0 .. 64 - 1
  BY DEF Body
<1> HIDE DEF b
<1>6. r[0] = 2 /\ \A i \in 1 .. 63 : r[i] = b[i]
  BY <1>5
<1>7. DOMAIN r = 0 .. 63
  BY <1>5
<1> HIDE DEF r
<1>8. Placed(r, dev, 1)
  <2>1. \A i \in 0 .. 61 : r[1 + i] = b[1 + i]
    BY <1>6
  <2>2. /\ r[1] = b[1] /\ r[1 + 1] = b[1 + 1] /\ r[1 + 2] = b[1 + 2] /\ r[1 + 3] = b[1 + 3]
        /\ r[1 + 8] = b[1 + 8] /\ r[1 + 42] = b[1 + 42] /\ r[1 + 43] = b[1 + 43]
    BY <1>6
  <2>3. \A i \in 0 .. 10 : r[1 + 10 + i] = b[1 + 10 + i] /\ r[1 + 21 + i] = b[1 + 21 + i]
    BY <1>6
  <2>4. \A i \in 1 .. 3 : r[1 + 43 + i] = b[1 + 43 + i]
    BY <1>6
  <2>5. QED
    BY <1>3, <2>2, <2>3, <2>4 DEF Placed
<1>9. \A i \in DOMAIN r : r[i] \in Byte
  <2>1. 2 \in Byte
    BY DEF Byte
  <2>2. \A i \in 0 .. 63 : i = 0 \/ (i \in 1 .. 63 /\ i \in 0 .. 64 - 1)
    OBVIOUS
  <2>3. QED
    BY <1>4, <1>6, <1>7, <2>1, <2>2
<1>10. QED
  BY <1>1, <1>6, <1>8, <1>9

LEMMA OctetsAreSeq ==
    ASSUME NEW data, NEW n \in Nat, data \in [1 .. n -> 0 .. 255]
    PROVE  OfLength(data, n)
<1>1. \A x \in 0 .. 255 : x \in Int
  OBVIOUS
<1>2. data = [k \in 1 .. n |-> data[k]] /\ \A k \in 1 .. n : data[k] \in Int
  BY <1>1
<1>3. data \in [1 .. n -> Int]
  BY <1>2
<1>4. QED
  BY <1>3 DEF OfLength
LEMMA Associates == \A a, b, c \in Seq(Int) : (a \o b) \o c = a \o (b \o c)
OBVIOUS
LEMMA BtReported ==
    ASSUME NEW dev \in Handle, dev.conn = "bt"
    PROVE  LET r == Report(dev)
           IN  /\ r[0] = 49 /\ r[1] \div 16 = dev.seq /\ Placed(r, dev, 3)
               /\ \A i \in DOMAIN r : r[i] \in Byte
               /\ Confirmed(<<Preamble>> \o [i \in 1 .. 78 |-> r[i - 1]])
<1> DEFINE b == Body(dev, BtOffset, 78)
           tag == 16 * (dev.seq % 16)
           h == [b EXCEPT ![0] = 49, ![1] = tag, ![2] = 16]
           data == [i \in 1 .. 74 |-> h[i - 1]]
           stored == Stored(ds_crc32(data))
           r == [i \in 0 .. 77 |-> IF i >= 74 THEN stored[i - 73] ELSE h[i]]
           r78 == [i \in 1 .. 78 |-> r[i - 1]]
<1>1. Report(dev) = r
  BY DEF Report, BtReport, WithChecksum
<1>2. Layout(BtOffset, 3) /\ 3 \in 1 .. 3 /\ 78 \in Nat
  BY BothLayouts
<1>3. Placed(b, dev, 3)
  BY <1>2, BodyPlaced
<1>4. \A i \in 0 .. 78 - 1 : b[i] \in Byte
  BY <1>2, BodyBytes
<1>5. DOMAIN b = 0 .. 78 - 1
  BY DEF Body
<1>6. tag \in Byte /\ tag \div 16 = dev.seq /\ 49 \in Byte /\ 16 \in Byte
  <2>1. dev.seq \in 0 .. 15
    BY DEF Handle
  <2> DEFINE s == dev.seq
  <2> HIDE DEF s
  <2>2. s \in 0 .. 15 => 16 * (s % 16) \in 0 .. 255 /\ (16 * (s % 16)) \div 16 = s
    OBVIOUS
  <2>3. QED
    BY <2>1, <2>2 DEF s, Byte
<1> HIDE DEF b, tag
<1>7. h[0] = 49 /\ h[1] = tag /\ h[2] = 16 /\ \A i \in 3 .. 77 : h[i] = b[i]
  BY <1>5
<1> HIDE DEF h
<1>8. \A i \in 0 .. 77 : h[i] \in Byte
  <2>1. \A i \in 0 .. 77 : i = 0 \/ i = 1 \/ i = 2 \/ (i \in 3 .. 77 /\ i \in 0 .. 78 - 1)
    OBVIOUS
  <2>2. QED
    BY <1>4, <1>6, <1>7, <2>1
<1>9. data \in [1 .. 74 -> 0 .. 255]
  <2>1. \A i \in 1 .. 74 : i - 1 \in 0 .. 77
    OBVIOUS
  <2>2. QED
    BY <1>8, <2>1 DEF Byte
<1>10. /\ Confirmed(<<Preamble>> \o data \o stored) /\ OfLength(stored, 4)
       /\ \A k \in 1 .. 4 : stored[k] \in Byte
  <2>1. \A n \in Nat : data \in [1 .. n -> 0 .. 255] =>
            /\ Confirmed(<<Preamble>> \o data \o Stored(ds_crc32(data)))
            /\ OfLength(Stored(ds_crc32(data)), 4)
            /\ \A k \in 1 .. 4 : Stored(ds_crc32(data))[k] \in 0 .. 255
    BY ChecksumConfirmed
  <2> HIDE DEF data
  <2>2. QED
    BY <1>9, <2>1 DEF Byte
<1> HIDE DEF stored
<1>11. data \o stored = r78
  <2> DEFINE q == data \o stored
  <2>1. OfLength(data, 74)
    <3>1. \A n \in Nat : data \in [1 .. n -> 0 .. 255] => OfLength(data, n)
      BY OctetsAreSeq
    <3> HIDE DEF data
    <3>2. QED
      BY <1>9, <3>1
  <2>2. \A i \in 1 .. 74 : data[i] = r78[i]
    <3>1. \A i \in 1 .. 74 : i \in 1 .. 78 /\ i - 1 \in 0 .. 77 /\ ~(i - 1 >= 74)
      OBVIOUS
    <3>2. QED
      BY <3>1
  <2>3. \A i \in 1 .. 4 : stored[i] = r78[74 + i]
    <3>1. \A i \in 1 .. 4 : /\ 74 + i \in 1 .. 78 /\ (74 + i) - 1 \in 0 .. 77
                             /\ (74 + i) - 1 >= 74 /\ ((74 + i) - 1) - 73 = i
      OBVIOUS
    <3>2. QED
      BY <3>1
  <2> DEFINE p78 == r78
  <2>4. p78 = [i \in 1 .. 78 |-> p78[i]]
    OBVIOUS
  <2> HIDE DEF data, p78, r78
  <2>5. OfLength(q, 78) /\ Holds(q, 74, stored, 4) /\ Holds(q, 0, data, 74)
    BY <1>10, <2>1, 78 = 74 + 4, 74 \in Nat, 4 \in Nat, Joined
  <2> HIDE DEF q
  <2>6. q = [i \in 1 .. 78 |-> q[i]]
    <3>1. \A n \in Nat : OfLength(q, n) => q = [i \in 1 .. n |-> q[i]]
      BY DEF OfLength
    <3>2. QED
      BY <2>5, <3>1
  <2>7. \A i \in 1 .. 74 : q[i] = data[i]
    <3>1. \A i \in 1 .. 74 : q[0 + i] = data[i]
      BY <2>5 DEF Holds
    <3>2. QED
      BY <3>1
  <2>8. \A i \in 1 .. 4 : q[74 + i] = stored[i]
    BY <2>5 DEF Holds
  <2>9. \A i \in 1 .. 78 : q[i] = p78[i]
    <3> SUFFICES ASSUME NEW i \in 1 .. 78 PROVE q[i] = p78[i]
      OBVIOUS
    <3>1. CASE i \in 1 .. 74
      BY <2>2, <2>7, <3>1 DEF p78
    <3>2. CASE i \in 75 .. 78
      <4>1. i - 74 \in 1 .. 4 /\ 74 + (i - 74) = i
        BY <3>2
      <4>2. QED
        BY <2>3, <2>8, <4>1 DEF p78
    <3>3. QED
      BY <3>1, <3>2
  <2>10. q = p78
    BY <2>4, <2>6, <2>9
  <2>11. QED
    BY <2>10 DEF q, p78
<1>12. Confirmed(<<Preamble>> \o r78)
  <2> HIDE DEF r78, data
  <2>1. <<Preamble>> \o data \o stored = <<Preamble>> \o (data \o stored)
    <3>1. OfLength(data, 74)
      <4>1. \A n \in Nat : data \in [1 .. n -> 0 .. 255] => OfLength(data, n)
        BY OctetsAreSeq
      <4>2. QED
        BY <1>9, <4>1
    <3>2. <<Preamble>> \in Seq(Int)
      BY DEF Preamble
    <3>3. \A v, x, y \in Seq(Int) : (v \o x) \o y = v \o (x \o y)
      BY Associates
    <3>4. QED
      BY <1>10, <3>1, <3>2, <3>3 DEF OfLength
  <2>2. QED
    BY <1>10, <1>11, <2>1
<1>13. r[0] = 49 /\ r[1] = tag /\ \A i \in 3 .. 73 : r[i] = b[i]
  BY <1>7
<1>14. \A i \in DOMAIN r : r[i] \in Byte
  <2>1. DOMAIN r = 0 .. 77
    OBVIOUS
  <2>2. \A i \in 0 .. 77 : i >= 74 => i - 73 \in 1 .. 4
    OBVIOUS
  <2>3. \A i \in 0 .. 77 : r[i] \in Byte
    BY <1>8, <1>10, <2>2
  <2>4. QED
    BY <2>1, <2>3
<1>15. Placed(r, dev, 3)
  <2> HIDE DEF r
  <2>1. /\ r[3] = b[3] /\ r[3 + 1] = b[3 + 1] /\ r[3 + 2] = b[3 + 2] /\ r[3 + 3] = b[3 + 3]
        /\ r[3 + 8] = b[3 + 8] /\ r[3 + 42] = b[3 + 42] /\ r[3 + 43] = b[3 + 43]
    BY <1>13
  <2>2. \A i \in 0 .. 10 : r[3 + 10 + i] = b[3 + 10 + i] /\ r[3 + 21 + i] = b[3 + 21 + i]
    BY <1>13
  <2>3. \A i \in 1 .. 3 : r[3 + 43 + i] = b[3 + 43 + i]
    BY <1>13
  <2>4. QED
    BY <1>3, <2>1, <2>2, <2>3 DEF Placed
<1> HIDE DEF r78
<1>16. \A x : x = r => (x[0] = 49 /\ x[1] \div 16 = dev.seq /\ Placed(x, dev, 3)
                         /\ (\A i \in DOMAIN x : x[i] \in Byte)
                         /\ Confirmed(<<Preamble>> \o [i \in 1 .. 78 |-> x[i - 1]]))
  <2> HIDE DEF r
  <2>1. r78 = [i \in 1 .. 78 |-> r[i - 1]]
    BY DEF r78
  <2>2. Confirmed(<<Preamble>> \o [i \in 1 .. 78 |-> r[i - 1]])
    BY <1>12, <2>1
  <2>3. QED
    BY <1>6, <1>13, <1>14, <1>15, <2>2
<1> HIDE DEF r
<1>17. QED
  BY <1>1, <1>16

-----------------------------------------------------------------------------
\* What the controller is to find in a report.
ReadBackAs(r, dev) ==
    /\ Heard(r) /\ SeenAs(r, dev) /\ (dev.conn = "bt" => r[1] \div 16 = dev.seq)
    /\ \A i \in DOMAIN r : r[i] \in Byte

\* For every handle, not only the ones BuildReport takes: over either bus the
\* controller finds each group where it looks, marked if it was changed, and a
\* Bluetooth report carries its tag and a checksum that holds.
THEOREM EveryReportReadsBack == \A dev \in Handle : ReadBackAs(Report(dev), dev)
<1> SUFFICES ASSUME NEW dev \in Handle PROVE ReadBackAs(Report(dev), dev)
  OBVIOUS
<1> DEFINE r == Report(dev)
<1> HIDE DEF r
<1>1. dev.conn = "bt" \/ dev.conn = "usb"
  BY DEF Handle
<1>2. CASE dev.conn = "bt"
  <2>1. /\ r[0] = 49 /\ r[1] \div 16 = dev.seq /\ Placed(r, dev, 3)
        /\ \A i \in DOMAIN r : r[i] \in Byte
        /\ Confirmed(<<Preamble>> \o [i \in 1 .. 78 |-> r[i - 1]])
    BY <1>2, BtReported DEF r
  <2>2. Heard(r)
    BY <2>1 DEF Heard
  <2>3. SeenAs(r, dev)
    <3>1. \A base \in 1 .. 3 :
            Placed(r, dev, base) /\ base = (IF r[0] = 49 THEN 3 ELSE 1) => SeenAs(r, dev)
      BY PlacedSeen
    <3>2. 3 \in 1 .. 3 /\ 3 = (IF r[0] = 49 THEN 3 ELSE 1)
      BY <2>1
    <3>3. QED
      BY <2>1, <3>1, <3>2
  <2>4. QED
    BY <2>1, <2>2, <2>3 DEF ReadBackAs, r
<1>3. CASE dev.conn = "usb"
  <2>1. /\ r[0] = 2 /\ Placed(r, dev, 1)
        /\ \A i \in DOMAIN r : r[i] \in Byte
    BY <1>3, UsbReported DEF r
  <2>2. Heard(r)
    BY <2>1 DEF Heard
  <2>3. SeenAs(r, dev)
    <3>1. \A base \in 1 .. 3 :
            Placed(r, dev, base) /\ base = (IF r[0] = 49 THEN 3 ELSE 1) => SeenAs(r, dev)
      BY PlacedSeen
    <3>2. 1 \in 1 .. 3 /\ 1 = (IF r[0] = 49 THEN 3 ELSE 1)
      BY <2>1
    <3>3. QED
      BY <2>1, <3>1, <3>2
  <2>4. QED
    BY <1>3, <2>1, <2>2, <2>3 DEF ReadBackAs, r
<1>4. QED
  BY <1>1, <1>2, <1>3
LEMMA BuiltHandles ==
    ASSUME NEW conn \in {"bt", "usb"}, NEW seq \in {0, 7, 15}, NEW dirty \in SUBSET Groups
    PROVE  Dev(conn, seq, dirty) \in Handle
<1> DEFINE right == [i \in 0 .. 10 |-> 110 + i]
           left == [i \in 0 .. 10 |-> 130 + i]
           light == <<105, 106, 107>>
<1>1. right \in [0 .. 10 -> Byte] /\ left \in [0 .. 10 -> Byte]
  BY DEF Byte
<1>2. light \in [1 .. 3 -> Byte]
  <2>1. light = [i \in 1 .. 3 |-> 104 + i]
    OBVIOUS
  <2>2. \A i \in 1 .. 3 : 104 + i \in Byte
    BY DEF Byte
  <2> HIDE DEF light
  <2>3. QED
    BY <2>1, <2>2
<1>3. 101 \in Byte /\ 102 \in Byte /\ 103 \in Byte /\ 104 \in Byte /\ seq \in 0 .. 15
  BY DEF Byte
<1> HIDE DEF right, left, light
<1>4. Dev(conn, seq, dirty) =
        [conn |-> conn, seq |-> seq, dirty |-> dirty, motor_right |-> 101, motor_left |-> 102,
         mute_led |-> 103, player_leds |-> 104, lightbar |-> light,
         r_trigger |-> right, l_trigger |-> left]
  BY DEF Dev, right, left, light
<1>5. QED
  BY <1>1, <1>2, <1>3, <1>4 DEF Handle

\* What ds_send writes is what the controller reads, over either bus.
THEOREM OutputReadsBackCorrect == Spec => []OutputReadsBack
<1>1. Init => OutputReadsBack
  BY DEF Init, OutputReadsBack, Is
<1>2. OutputReadsBack /\ [Next]_vars => OutputReadsBack'
  <2> SUFFICES ASSUME OutputReadsBack, [Next]_vars PROVE OutputReadsBack'
    OBVIOUS
  <2>1. CASE BuildReport
    <3>1. PICK conn \in {"bt", "usb"}, seq \in {0, 7, 15}, dirty \in SUBSET Groups :
            LET dev == Dev(conn, seq, dirty)
            IN  Convert([kind |-> "output", dev |-> dev], [report |-> Report(dev)])
      BY <2>1 DEF BuildReport
    <3> DEFINE dev == Dev(conn, seq, dirty)
               r == Report(dev)
    <3>2. given'.dev = dev /\ got'.report = r
      BY <3>1 DEF Convert
    <3>3. ReadBackAs(r, dev)
      BY BuiltHandles, EveryReportReadsBack
    <3> HIDE DEF dev, r
    <3>4. QED
      BY <3>2, <3>3 DEF OutputReadsBack, ReadBackAs, SeenAs
  <2>2. CASE Next /\ ~BuildReport
    BY <2>2, OneConversion DEF Converted, OutputReadsBack, Is
  <2>3. CASE UNCHANGED vars
    BY <2>3 DEF vars, OutputReadsBack, Is
  <2>4. QED
    BY <2>1, <2>2, <2>3
<1>3. QED
  BY <1>1, <1>2, PTL DEF Spec

-----------------------------------------------------------------------------
\* Every effect is eleven bytes.

Made(r) == r.dst \in Effect
LEMMA RefusedMade == ASSUME NEW d \in Effect PROVE Made(Refuse(d))
BY DEF Made, Refuse
LEMMA OffMade == Made(Off)
<1>1. <<>> \in Seq(0 .. 255) /\ ModeOff \in 0 .. 255
  BY DEF ModeOff
<1>2. EffectBytes(ModeOff, <<>>) \in Effect
  BY <1>1, EffectBytesType
<1>3. QED
  BY <1>2 DEF Made, Off, Accept
LEMMA ModeBytes ==
    /\ ModeFeedback \in 0 .. 255 /\ ModeBow \in 0 .. 255 /\ ModeGalloping \in 0 .. 255
    /\ ModeWeapon \in 0 .. 255 /\ ModeVibration \in 0 .. 255 /\ ModeMachine \in 0 .. 255
BY DEF ModeFeedback, ModeBow, ModeGalloping, ModeWeapon, ModeVibration, ModeMachine
LEMMA FeedbackMade ==
    ASSUME NEW d \in Effect, NEW pos \in 0 .. 255, NEW str \in 0 .. 255
    PROVE  Made(Feedback(d, pos, str))
<1>1. CASE pos > 9 \/ str > 8
  BY <1>1, RefusedMade DEF Feedback
<1>2. CASE ~(pos > 9 \/ str > 8) /\ str = 0
  BY <1>2, OffMade DEF Feedback
<1>3. CASE ~(pos > 9 \/ str > 8) /\ str # 0
  <2> DEFINE zones == pos .. 9
             field == [z \in zones |-> str - 1]
  <2>1. Feedback(d, pos, str) = Accept(ZoneBytes(ModeFeedback, field))
    BY <1>3 DEF Feedback
  <2>2. zones \in SUBSET Zone /\ field \in [zones -> 0 .. 7]
    BY <1>3 DEF Zone
  <2> HIDE DEF zones, field
  <2>3. ZoneBytes(ModeFeedback, field) \in Effect
    BY <2>2, ModeBytes, ZoneBytesAre
  <2>4. QED
    BY <2>1, <2>3 DEF Made, Accept
<1>4. QED
  BY <1>1, <1>2, <1>3
LEMMA FeedbackMultiMade ==
    ASSUME NEW d \in Effect, NEW a \in [Zone -> 0 .. 255]
    PROVE  Made(FeedbackMulti(d, a))
<1>1. CASE \E z \in Zone : a[z] > 8
  BY <1>1, RefusedMade DEF FeedbackMulti
<1>2. CASE (\A z \in Zone : ~(a[z] > 8)) /\ \A z \in Zone : a[z] = 0
  BY <1>2, OffMade DEF FeedbackMulti
<1>3. CASE (\A z \in Zone : ~(a[z] > 8)) /\ \E z \in Zone : a[z] # 0
  <2>1. FeedbackMulti(d, a) = Accept(ZoneBytes(ModeFeedback, Forces(a)))
    BY <1>3 DEF FeedbackMulti
  <2>2. PICK zones \in SUBSET Zone : Forces(a) \in [zones -> 0 .. 7]
    BY <1>3, ForcesField
  <2>3. ZoneBytes(ModeFeedback, Forces(a)) \in Effect
    BY <2>2, ModeBytes, ZoneBytesAre
  <2>4. QED
    BY <2>1, <2>3 DEF Made, Accept
<1>4. QED
  BY <1>1, <1>2, <1>3
LEMMA SlopeMade ==
    ASSUME NEW d \in Effect, NEW startPos \in 0 .. 255, NEW endPos \in 0 .. 255,
           NEW startStr \in 0 .. 255, NEW endStr \in 0 .. 255
    PROVE  Made(SlopeFeedback(d, startPos, endPos, startStr, endStr))
<1> DEFINE refused == \/ startPos > 8 \/ endPos > 9 \/ endPos <= startPos
                      \/ startStr \notin 1 .. 8 \/ endStr \notin 1 .. 8
           a == Slope(startPos, endPos, startStr, endStr)
<1>1. CASE refused
  BY <1>1, RefusedMade DEF SlopeFeedback
<1>2. CASE ~refused
  <2>1. /\ startPos \in 0 .. 8 /\ endPos \in 0 .. 9 /\ startPos < endPos
        /\ startStr \in 1 .. 8 /\ endStr \in 1 .. 8
    BY <1>2
  <2>2. SlopeFeedback(d, startPos, endPos, startStr, endStr) = FeedbackMulti(d, a)
    BY <1>2 DEF SlopeFeedback, Slope, Line
  <2>3. FollowsLine(a, startPos, endPos, startStr, endStr)
    BY <2>1, SlopeStrengths
  <2>4. a = [z \in Zone |-> a[z]]
    BY DEF Slope
  <2> HIDE DEF a
  <2>5. \A z \in Zone : a[z] \in 0 .. 8
    <3>1. \A z \in Zone : z \in 0 .. startPos - 1 \/ z \in startPos .. endPos \/ z \in endPos .. 9
      BY <2>1 DEF Zone
    <3>2. /\ \A z \in 0 .. startPos - 1 : a[z] = 0
          /\ \A z \in startPos .. endPos : a[z] \in 1 .. 8
          /\ \A z \in endPos .. 9 : a[z] = endStr
      BY <2>3 DEF FollowsLine
    <3>3. QED
      BY <2>1, <3>1, <3>2
  <2>6. a \in [Zone -> 0 .. 255]
    BY <2>4, <2>5
  <2>7. QED
    BY <2>2, <2>6, FeedbackMultiMade
<1>3. QED
  BY <1>1, <1>2

\* A zone effect with a frequency.
LEMMA WithFrequency ==
    ASSUME NEW zones \in SUBSET Zone, NEW field \in [zones -> 0 .. 7], NEW freq \in 0 .. 255
    PROVE  Made(Accept([ZoneBytes(ModeVibration, field) EXCEPT ![9] = freq]))
<1> DEFINE z == ZoneBytes(ModeVibration, field)
<1>1. z \in Effect
  BY ModeBytes, ZoneBytesAre
<1> HIDE DEF z
<1>2. [z EXCEPT ![9] = freq] \in Effect
  BY <1>1 DEF Effect
<1>3. QED
  BY <1>2 DEF Made, Accept, z
LEMMA VibrationMade ==
    ASSUME NEW d \in Effect, NEW pos \in 0 .. 255, NEW amp \in 0 .. 255, NEW freq \in 0 .. 255
    PROVE  Made(Vibration(d, pos, amp, freq))
<1>1. CASE pos > 9 \/ amp > 8
  BY <1>1, RefusedMade DEF Vibration
<1>2. CASE ~(pos > 9 \/ amp > 8) /\ (amp = 0 \/ freq = 0)
  BY <1>2, OffMade DEF Vibration
<1>3. CASE ~(pos > 9 \/ amp > 8) /\ ~(amp = 0 \/ freq = 0)
  <2> DEFINE zones == pos .. 9
             field == [z \in zones |-> amp - 1]
  <2>1. Vibration(d, pos, amp, freq) =
            Accept([ZoneBytes(ModeVibration, field) EXCEPT ![9] = freq])
    BY <1>3 DEF Vibration
  <2>2. zones \in SUBSET Zone /\ field \in [zones -> 0 .. 7]
    BY <1>3 DEF Zone
  <2> HIDE DEF zones, field
  <2>3. QED
    BY <2>1, <2>2, WithFrequency
<1>4. QED
  BY <1>1, <1>2, <1>3
LEMMA VibrationMultiMade ==
    ASSUME NEW d \in Effect, NEW freq \in 0 .. 255, NEW a \in [Zone -> 0 .. 255]
    PROVE  Made(VibrationMulti(d, freq, a))
<1>1. CASE freq = 0
  BY <1>1, OffMade DEF VibrationMulti
<1>2. CASE freq # 0 /\ \E z \in Zone : a[z] > 8
  BY <1>2, RefusedMade DEF VibrationMulti
<1>3. CASE freq # 0 /\ (\A z \in Zone : ~(a[z] > 8)) /\ \A z \in Zone : a[z] = 0
  BY <1>3, OffMade DEF VibrationMulti
<1>4. CASE freq # 0 /\ (\A z \in Zone : ~(a[z] > 8)) /\ \E z \in Zone : a[z] # 0
  <2>1. VibrationMulti(d, freq, a) =
            Accept([ZoneBytes(ModeVibration, Forces(a)) EXCEPT ![9] = freq])
    BY <1>4 DEF VibrationMulti
  <2>2. PICK zones \in SUBSET Zone : Forces(a) \in [zones -> 0 .. 7]
    BY <1>4, ForcesField
  <2>3. QED
    BY <2>1, <2>2, WithFrequency
<1>5. QED
  BY <1>1, <1>2, <1>3, <1>4

\* Two zones and a few bytes.
Short(q) == q \in Seq(0 .. 255) /\ Len(q) <= 8
LEMMA TwoZonesMade ==
    ASSUME NEW mode \in 0 .. 255, NEW start \in Zone, NEW end \in Zone, NEW q, Short(q)
    PROVE  Made(Accept(EffectBytes(mode, MaskBytes({start, end}) \o q)))
<1>1. {start, end} \in SUBSET Zone
  OBVIOUS
<1>2. Consists(MaskedBytes(mode, {start, end}, q), mode, {start, end}, q)
  BY <1>1, MaskedBytesAre DEF Short
<1>3. QED
  BY <1>2 DEF Consists, MaskedBytes, Made, Accept
LEMMA ShortTuples ==
    ASSUME NEW x \in 0 .. 255, NEW y \in 0 .. 255, NEW z \in 0 .. 255
    PROVE  Short(<<x>>) /\ Short(<<x, y>>) /\ Short(<<x, y, z>>)
BY DEF Short
LEMMA WeaponMade ==
    ASSUME NEW d \in Effect, NEW start \in 0 .. 255, NEW end \in 0 .. 255, NEW str \in 0 .. 255
    PROVE  Made(Weapon(d, start, end, str))
<1> DEFINE refused == start < 2 \/ start > 7 \/ end > 8 \/ end <= start \/ str > 8
<1>1. CASE refused
  BY <1>1, RefusedMade DEF Weapon
<1>2. CASE ~refused /\ str = 0
  BY <1>2, OffMade DEF Weapon
<1>3. CASE ~refused /\ str # 0
  <2>1. Weapon(d, start, end, str) =
            Accept(EffectBytes(ModeWeapon, MaskBytes({start, end}) \o <<str - 1>>))
    BY <1>3 DEF Weapon
  <2>2. start \in Zone /\ end \in Zone /\ str - 1 \in 0 .. 255
    BY <1>3 DEF Zone
  <2>3. PICK x \in 0 .. 255 : x = str - 1
    BY <2>2
  <2>4. Short(<<x>>)
    BY ShortTuples
  <2>5. Made(Accept(EffectBytes(ModeWeapon, MaskBytes({start, end}) \o <<x>>)))
    BY <2>2, <2>4, ModeBytes, TwoZonesMade
  <2>6. QED
    BY <2>1, <2>3, <2>5
<1>4. QED
  BY <1>1, <1>2, <1>3
LEMMA BowMade ==
    ASSUME NEW d \in Effect, NEW start \in 0 .. 255, NEW end \in 0 .. 255, NEW str \in 0 .. 255,
           NEW snap \in 0 .. 255
    PROVE  Made(Bow(d, start, end, str, snap))
<1> DEFINE refused == start > 8 \/ end > 8 \/ start >= end \/ str > 8 \/ snap > 8
           forces == (str - 1) + 8 * (snap - 1)
<1>1. CASE refused
  BY <1>1, RefusedMade DEF Bow
<1>2. CASE ~refused /\ (str = 0 \/ snap = 0)
  BY <1>2, OffMade DEF Bow
<1>3. CASE ~refused /\ ~(str = 0 \/ snap = 0)
  <2>1. Bow(d, start, end, str, snap) =
            Accept(EffectBytes(ModeBow,
                MaskBytes({start, end}) \o <<Octet(forces, 0), Octet(forces, 1)>>))
    BY <1>3 DEF Bow
  <2>2. start \in Zone /\ end \in Zone /\ str - 1 \in 0 .. 7 /\ snap - 1 \in 0 .. 7
    BY <1>3 DEF Zone
  <2>3. Octet(forces, 0) \in 0 .. 255 /\ Octet(forces, 1) \in 0 .. 255
    <3>1. forces \in 0 .. 63 /\ Octet(forces, 0) = forces /\ Octet(forces, 1) = 0
      BY <2>2, TwoFields
    <3> HIDE DEF forces
    <3>2. QED
      BY <3>1
  <2> HIDE DEF forces
  <2>4. PICK x \in 0 .. 255, y \in 0 .. 255 : x = Octet(forces, 0) /\ y = Octet(forces, 1)
    BY <2>3
  <2>5. Short(<<x, y>>)
    BY ShortTuples
  <2>6. Made(Accept(EffectBytes(ModeBow, MaskBytes({start, end}) \o <<x, y>>)))
    BY <2>2, <2>5, ModeBytes, TwoZonesMade
  <2>7. QED
    BY <2>1, <2>4, <2>6
<1>4. QED
  BY <1>1, <1>2, <1>3
LEMMA GallopingMade ==
    ASSUME NEW d \in Effect, NEW start \in 0 .. 255, NEW end \in 0 .. 255, NEW first \in 0 .. 255,
           NEW second \in 0 .. 255, NEW freq \in 0 .. 255
    PROVE  Made(Galloping(d, start, end, first, second, freq))
<1> DEFINE refused == \/ start > 8 \/ end > 9 \/ start >= end
                      \/ first > 6 \/ second > 7 \/ first >= second
<1>1. CASE refused
  BY <1>1, RefusedMade DEF Galloping
<1>2. CASE ~refused /\ freq = 0
  BY <1>2, OffMade DEF Galloping
<1>3. CASE ~refused /\ freq # 0
  <2>1. Galloping(d, start, end, first, second, freq) =
            Accept(EffectBytes(ModeGalloping,
                MaskBytes({start, end}) \o <<second + 8 * first, freq>>))
    BY <1>3 DEF Galloping
  <2>2. start \in Zone /\ end \in Zone /\ second + 8 * first \in 0 .. 255
    BY <1>3 DEF Zone
  <2>3. PICK x \in 0 .. 255, y \in 0 .. 255 : x = second + 8 * first /\ y = freq
    BY <2>2
  <2>4. Short(<<x, y>>)
    BY ShortTuples
  <2>5. Made(Accept(EffectBytes(ModeGalloping, MaskBytes({start, end}) \o <<x, y>>)))
    BY <2>2, <2>4, ModeBytes, TwoZonesMade
  <2>6. QED
    BY <2>1, <2>3, <2>5
<1>4. QED
  BY <1>1, <1>2, <1>3
LEMMA MachineMade ==
    ASSUME NEW d \in Effect, NEW start \in 0 .. 255, NEW end \in 0 .. 255, NEW ampA \in 0 .. 255,
           NEW ampB \in 0 .. 255, NEW freq \in 0 .. 255, NEW period \in 0 .. 255
    PROVE  Made(Machine(d, start, end, ampA, ampB, freq, period))
<1> DEFINE refused == start > 8 \/ end > 9 \/ end <= start \/ ampA > 7 \/ ampB > 7
<1>1. CASE refused
  BY <1>1, RefusedMade DEF Machine
<1>2. CASE ~refused /\ freq = 0
  BY <1>2, OffMade DEF Machine
<1>3. CASE ~refused /\ freq # 0
  <2>1. Machine(d, start, end, ampA, ampB, freq, period) =
            Accept(EffectBytes(ModeMachine,
                MaskBytes({start, end}) \o <<ampA + 8 * ampB, freq, period>>))
    BY <1>3 DEF Machine
  <2>2. start \in Zone /\ end \in Zone /\ ampA + 8 * ampB \in 0 .. 255
    BY <1>3 DEF Zone
  <2>3. PICK x \in 0 .. 255, y \in 0 .. 255, z \in 0 .. 255 : x = ampA + 8 * ampB /\ y = freq /\ z = period
    BY <2>2
  <2>4. Short(<<x, y, z>>)
    BY ShortTuples
  <2>5. Made(Accept(EffectBytes(ModeMachine, MaskBytes({start, end}) \o <<x, y, z>>)))
    BY <2>2, <2>4, ModeBytes, TwoZonesMade
  <2>6. QED
    BY <2>1, <2>3, <2>5
<1>4. QED
  BY <1>1, <1>2, <1>3

-----------------------------------------------------------------------------
\* Each request on any effect makes an effect.
LEMMA EveryRequestMade ==
    ASSUME NEW c \in Requests, NEW d \in Effect
    PROVE  Made(Result(c, d))
<1> DEFINE r == Result(c, d)
           p == c.p
<1>1. CASE c.op = "off"
  <2>1. r = Off
    BY <1>1 DEF Result
  <2>2. QED
    BY <2>1, OffMade
<1>2. CASE c.op = "feedback" /\ Bytes(p, 2)
  <2>1. p[1] \in 0 .. 255 /\ p[2] \in 0 .. 255
    BY <1>2 DEF Bytes
  <2>2. r = Feedback(d, p[1], p[2])
    BY <1>2 DEF Result
  <2>3. QED
    BY <2>1, <2>2, FeedbackMade
<1>3. CASE c.op = "feedback_multi" /\ c.a \in [Zone -> 0 .. 255]
  <2>1. r = FeedbackMulti(d, c.a)
    BY <1>3 DEF Result
  <2>2. QED
    BY <1>3, <2>1, FeedbackMultiMade
<1>4. CASE c.op = "slope_feedback" /\ Bytes(p, 4)
  <2>1. PICK startPos \in 0 .. 255, endPos \in 0 .. 255, startStr \in 0 .. 255,
             endStr \in 0 .. 255 :
            p[1] = startPos /\ p[2] = endPos /\ p[3] = startStr /\ p[4] = endStr
    <3>1. p[1] \in 0 .. 255 /\ p[2] \in 0 .. 255 /\ p[3] \in 0 .. 255 /\ p[4] \in 0 .. 255
      BY <1>4 DEF Bytes
    <3>2. QED
      BY <3>1
  <2>2. r = SlopeFeedback(d, startPos, endPos, startStr, endStr)
    BY <1>4, <2>1 DEF Result
  <2>3. Made(SlopeFeedback(d, startPos, endPos, startStr, endStr))
    BY SlopeMade
  <2>4. QED
    BY <2>2, <2>3
<1>5. CASE c.op = "weapon" /\ Bytes(p, 3)
  <2>1. p[1] \in 0 .. 255 /\ p[2] \in 0 .. 255 /\ p[3] \in 0 .. 255
    BY <1>5 DEF Bytes
  <2>2. r = Weapon(d, p[1], p[2], p[3])
    BY <1>5 DEF Result
  <2>3. QED
    BY <2>1, <2>2, WeaponMade, ZenonT(40)
<1>6. CASE c.op = "vibration" /\ Bytes(p, 3)
  <2>1. p[1] \in 0 .. 255 /\ p[2] \in 0 .. 255 /\ p[3] \in 0 .. 255
    BY <1>6 DEF Bytes
  <2>2. r = Vibration(d, p[1], p[2], p[3])
    BY <1>6 DEF Result
  <2>3. QED
    BY <2>1, <2>2, VibrationMade, ZenonT(40)
<1>7. CASE c.op = "vibration_multi" /\ Bytes(p, 1) /\ c.a \in [Zone -> 0 .. 255]
  <2>1. p[1] \in 0 .. 255
    BY <1>7 DEF Bytes
  <2>2. r = VibrationMulti(d, p[1], c.a)
    BY <1>7 DEF Result
  <2>3. QED
    BY <1>7, <2>1, <2>2, VibrationMultiMade
<1>8. CASE c.op = "bow" /\ Bytes(p, 4)
  <2>1. PICK start \in 0 .. 255, end \in 0 .. 255, str \in 0 .. 255,
             snap \in 0 .. 255 :
            p[1] = start /\ p[2] = end /\ p[3] = str /\ p[4] = snap
    <3>1. p[1] \in 0 .. 255 /\ p[2] \in 0 .. 255 /\ p[3] \in 0 .. 255 /\ p[4] \in 0 .. 255
      BY <1>8 DEF Bytes
    <3>2. QED
      BY <3>1
  <2>2. r = Bow(d, start, end, str, snap)
    BY <1>8, <2>1 DEF Result
  <2>3. Made(Bow(d, start, end, str, snap))
    BY BowMade
  <2>4. QED
    BY <2>2, <2>3
<1>9. CASE c.op = "galloping" /\ Bytes(p, 5)
  <2>1. PICK start \in 0 .. 255, end \in 0 .. 255, first \in 0 .. 255,
             second \in 0 .. 255, freq \in 0 .. 255 :
            p[1] = start /\ p[2] = end /\ p[3] = first /\ p[4] = second /\ p[5] = freq
    <3>1. /\ p[1] \in 0 .. 255 /\ p[2] \in 0 .. 255 /\ p[3] \in 0 .. 255
          /\ p[4] \in 0 .. 255 /\ p[5] \in 0 .. 255
      BY <1>9, FiveBytes, Zenon
    <3>2. QED
      BY <3>1
  <2>2. r = Galloping(d, start, end, first, second, freq)
    BY <1>9, <2>1 DEF Result
  <2>3. Made(Galloping(d, start, end, first, second, freq))
    BY GallopingMade, ZenonT(40)
  <2>4. QED
    BY <2>2, <2>3
<1>10. CASE c.op = "machine" /\ Bytes(p, 6)
  <2>1. PICK start \in 0 .. 255, end \in 0 .. 255, ampA \in 0 .. 255,
             ampB \in 0 .. 255, freq \in 0 .. 255, period \in 0 .. 255 :
            p[1] = start /\ p[2] = end /\ p[3] = ampA /\ p[4] = ampB /\ p[5] = freq /\ p[6] = period
    <3>1. /\ p[1] \in 0 .. 255 /\ p[2] \in 0 .. 255 /\ p[3] \in 0 .. 255
          /\ p[4] \in 0 .. 255 /\ p[5] \in 0 .. 255 /\ p[6] \in 0 .. 255
      BY <1>10, SixBytes, Zenon
    <3> USE <3>1
    <3> WITNESS p[1] \in 0 .. 255, p[2] \in 0 .. 255, p[3] \in 0 .. 255,
                p[4] \in 0 .. 255, p[5] \in 0 .. 255, p[6] \in 0 .. 255
    <3>2. QED
      OBVIOUS
  <2>2. r = Machine(d, start, end, ampA, ampB, freq, period)
    BY <1>10, <2>1 DEF Result
  <2>3. Made(Machine(d, start, end, ampA, ampB, freq, period))
    BY MachineMade, ZenonT(40)
  <2>4. QED
    BY <2>2, <2>3
<1>11. QED
  BY <1>1, <1>2, <1>3, <1>4, <1>5, <1>6, <1>7, <1>8, <1>9, <1>10, TheRequests DEF OneOfTen

\* The bytes of DSX's CHOPPY.
LEMMA ChoppyBytes ==
    /\ Choppy.op = "raw" /\ Choppy.p = <<ModeFeedback>>
    /\ Choppy.a # NoArray /\ \A z \in Zone : Choppy.a[z] \in 0 .. 255
<1> DEFINE t == <<2, 39, 24, 0, 0, 38, 0, 0, 0, 0>>
           a == [z \in Zone |-> t[z + 1]]
<1>1. \A i \in 1 .. 10 : t[i] \in 0 .. 255
  <2>1. \A i \in 1 .. 10 : i = 1 \/ i = 2 \/ i = 3 \/ i = 4 \/ i = 5 \/ i = 6 \/ i = 7 \/ i = 8
                               \/ i = 9 \/ i = 10
    OBVIOUS
  <2>2. QED
    BY <2>1
<1> HIDE DEF t
<1>2. \A z \in Zone : a[z] \in 0 .. 255
  BY <1>1 DEF Zone
<1>3. DOMAIN a = 0 .. 9
  BY DEF Zone
<1>4. a # NoArray
  <2>1. DOMAIN NoArray = {}
    BY DEF NoArray
  <2>2. 0 \in DOMAIN a
    BY <1>3
  <2>3. QED
    BY <2>1, <2>2
<1> HIDE DEF a
<1>5. Choppy = [op |-> "raw", p |-> <<ModeFeedback>>, a |-> a]
  BY Zenon DEF Choppy, a, t
<1>6. QED
  BY <1>2, <1>4, <1>5

\* What an effect may be before a call: off, or what CHOPPY leaves.
LEMMA BeforeMade ==
    ASSUME NEW before \in {Off.dst, Result(Choppy, Off.dst).dst}
    PROVE  before \in Effect
<1>1. Off.dst \in Effect
  BY OffMade DEF Made
<1>2. Result(Choppy, Off.dst).dst \in Effect
  <2> DEFINE a == Choppy.a
             q == [i \in 1 .. 10 |-> a[i - 1]]
  <2>1. Result(Choppy, Off.dst) = Accept(Raw(ModeFeedback, a))
    BY ChoppyBytes DEF Result
  <2>2. \A i \in 1 .. 10 : a[i - 1] \in 0 .. 255
    <3>1. \A i \in 1 .. 10 : i - 1 \in Zone
      BY DEF Zone
    <3>2. QED
      BY <3>1, ChoppyBytes
  <2> HIDE DEF a
  <2>3. \A n \in Nat : n = 10 => [i \in 1 .. n |-> a[i - 1]] \in Seq(0 .. 255)
    BY <2>2
  <2>4. q \in Seq(0 .. 255)
    BY <2>3
  <2>5. EffectBytes(ModeFeedback, q) \in Effect
    BY <2>4, ModeBytes, EffectBytesType
  <2>6. QED
    BY <2>1, <2>5 DEF Raw, Accept
<1>3. QED
  BY <1>1, <1>2

-----------------------------------------------------------------------------
\* Calls of bytes.

LEMMA NumbersCut == \A n \in Int : U8(n) \in Byte
BY DEF U8, Byte
LEMMA CutMade ==
    ASSUME NEW c, Whole(c)
    PROVE  ByteCall(CutCall(c))
<1> DEFINE p == c.p
           a == c.a
           q == Cut(p)
           b == IF a = NoArray THEN NoArray ELSE [z \in Zone |-> U8(a[z])]
<1>1. PICK k \in Nat : p \in [1 .. k -> Int]
  BY DEF Whole
<1>2. a = NoArray \/ a \in [Zone -> Int]
  BY DEF Whole
<1>3. CutCall(c).p = q /\ CutCall(c).a = b
  BY DEF CutCall
<1> HIDE DEF p, a
<1>4. ToSet(q) \subseteq Byte
  <2>1. DOMAIN q = 1 .. k /\ \A i \in 1 .. k : q[i] = U8(p[i]) /\ p[i] \in Int
    BY <1>1 DEF Cut
  <2>2. \A i \in DOMAIN q : q[i] \in Byte
    BY <2>1, NumbersCut
  <2> HIDE DEF q
  <2>3. QED
    BY <2>2 DEF ToSet
<1>5. b = NoArray \/ \A z \in Zone : b[z] \in Byte
  <2>1. CASE a = NoArray
    BY <2>1
  <2>2. CASE a # NoArray
    <3>1. \A z \in Zone : b[z] = U8(a[z]) /\ a[z] \in Int
      BY <1>2, <2>2
    <3>2. QED
      BY <3>1, NumbersCut
  <2>3. QED
    BY <2>1, <2>2
<1> HIDE DEF q, b
<1>6. QED
  BY <1>3, <1>4, <1>5 DEF ByteCall

\* Every front end makes a call of bytes.
LEMMA AnswersMade ==
    ASSUME NEW o, AskedOrder(o), NEW turn \in Nat, NEW f \in Offers(o.call)
    PROVE  ByteCall(Through(f, o, turn).call)
<1> DEFINE c == o.call
           u == [op |-> c.op, p |-> LongArgs(c.p), a |-> NoArray]
<1>1. Through(f, o, turn).call = IF f = "dsctl" THEN DsctlCall(c) ELSE DaemonCall(c)
  BY EveryFrontEndAnswers DEF Answered, Answer, Order
<1>2. PICK k \in Nat : c.p \in [1 .. k -> Int]
  BY DEF AskedOrder, Whole
<1>3. Whole(u)
  <2>1. \A i \in 1 .. k : strtoul(c.p[i]) \in Int
    BY <1>2, IntsOf
  <2>2. LongArgs(c.p) \in [1 .. k -> Int]
    BY <1>2, <2>1 DEF LongArgs
  <2>3. QED
    BY <2>2 DEF Whole
<1>4. Whole(IntCall(c))
  <2>1. \A i \in 1 .. k : IntOf(c.p[i]) \in Int
    BY <1>2, IntsOf
  <2>2. Ints(c.p) \in [1 .. k -> Int]
    BY <1>2, <2>1 DEF Ints
  <2>3. IntCall(c).p \in [1 .. k -> Int]
    BY <2>2 DEF IntCall
  <2>4. IntCall(c).a = NoArray \/ IntCall(c).a \in [Zone -> Int]
    BY IntCallParts DEF AskedOrder, Whole
  <2>5. IntCall(c) = [op |-> IntCall(c).op, p |-> IntCall(c).p, a |-> IntCall(c).a]
    BY DEF IntCall
  <2>6. QED
    BY <2>3, <2>4, <2>5 DEF Whole
<1>5. CutCall(u) = DsctlCall(c)
  BY DEF CutCall, DsctlCall
<1> HIDE DEF u
<1>6. ByteCall(DsctlCall(c)) /\ ByteCall(DaemonCall(c))
  BY <1>3, <1>4, <1>5, CutMade DEF DaemonCall
<1>7. QED
  BY <1>1, <1>6

\* So does every preset of DSX.
LEMMA PlainCallMade ==
    ASSUME NEW op, NEW k \in Nat, NEW p \in [1 .. k -> Int]
    PROVE  ByteCall(Call(op, p))
<1> DEFINE q == Cut(p)
<1>1. DOMAIN q = 1 .. k /\ \A i \in 1 .. k : q[i] = U8(p[i]) /\ p[i] \in Int
  BY DEF Cut
<1>2. \A i \in DOMAIN q : q[i] \in Byte
  BY <1>1, NumbersCut
<1>3. Call(op, p).p = q /\ Call(op, p).a = NoArray
  BY DEF Call
<1> HIDE DEF q
<1>4. ToSet(q) \subseteq Byte
  BY <1>2 DEF ToSet
<1>5. QED
  BY <1>3, <1>4 DEF ByteCall
LEMMA PresetCallsMade ==
    ASSUME NEW call \in PresetCalls
    PROVE  ByteCall(call)
<1>1. CASE call \in {OffCall, NoCall}
  <2>1. call.p = <<>> /\ call.a = NoArray
    BY <1>1 DEF OffCall, NoCall
  <2>2. ToSet(<<>>) \subseteq Byte
    BY DEF ToSet
  <2>3. QED
    BY <2>1, <2>2 DEF ByteCall
<1>2. CASE call = Choppy
  <2>1. ToSet(<<ModeFeedback>>) \subseteq Byte
    BY DEF ToSet, ModeFeedback, Byte
  <2>2. \A z \in Zone : Choppy.a[z] \in Byte
    BY ChoppyBytes DEF Byte
  <2>3. QED
    BY <1>2, <2>1, <2>2, ChoppyBytes DEF ByteCall
<1>3. ASSUME NEW v \in Int, call = Call("vibration", <<0, 8, v>>) PROVE ByteCall(call)
  <2> DEFINE p == <<0, 8, v>>
  <2>1. p \in [1 .. 3 -> Int]
    OBVIOUS
  <2> HIDE DEF p
  <2>2. ByteCall(Call("vibration", p))
    BY <2>1, 3 \in Nat, PlainCallMade
  <2>3. QED
    BY <1>3, <2>2 DEF p
<1>4. ASSUME NEW s \in 1 .. 8, call = Call("feedback", <<0, s>>) PROVE ByteCall(call)
  <2> DEFINE p == <<0, s>>
  <2>1. p \in [1 .. 2 -> Int]
    OBVIOUS
  <2> HIDE DEF p
  <2>2. ByteCall(Call("feedback", p))
    BY <2>1, 2 \in Nat, PlainCallMade
  <2>3. QED
    BY <1>4, <2>2 DEF p
<1>5. \/ call \in {OffCall, NoCall, Choppy}
      \/ \E v \in Int : call = Call("vibration", <<0, 8, v>>)
      \/ \E s \in 1 .. 8 : call = Call("feedback", <<0, s>>)
  BY Zenon DEF PresetCalls
<1>6. QED
  BY <1>1, <1>2, <1>3, <1>4, <1>5

-----------------------------------------------------------------------------
LEMMA TriggerPresetMade ==
    ASSUME NEW mode \in 0 .. 27, NEW p \in Seq(Int), Len(p) <= 1, NEW n
    PROVE  ByteCall(dsx_instruction(1, <<0, 1, mode>> \o p, n).call)
BY PresetTriggers, PresetCallsMade

LEMMA LedPresetMade ==
    ASSUME NEW k \in -1 .. 6, NEW n
    PROVE  ByteCall(dsx_instruction(6, <<0, k>>, n).call)
<1> DEFINE params == <<0, k>>
           device == resolve_device(0, n)
           lit == <<Presets[k + 1]>>
           call == Call("player_leds", lit)
<1>1. Len(params) = 2 /\ params[1] = 0 /\ params[2] = k
  OBVIOUS
<1> HIDE DEF params
<1>2. CASE k \in 0 .. 5
  <2>1. Presets[k + 1] \in Int
    BY <1>2 DEF Presets
  <2>2. lit \in [1 .. 1 -> Int]
    BY <2>1
  <2> HIDE DEF lit
  <2>3. ByteCall(call)
    BY <2>2, 1 \in Nat, PlainCallMade
  <2>4. dsx_instruction(6, params, n) = Order(device, NoSide, call)
    BY <1>1, <1>2 DEF dsx_instruction, device, call, lit
  <2> HIDE DEF call, device
  <2>5. QED
    BY <2>3, <2>4 DEF Order, params
<1>3. CASE k \notin 0 .. 5
  <2>1. dsx_instruction(6, params, n) = NoOrder
    BY <1>1, <1>3 DEF dsx_instruction
  <2>2. NoCall \in PresetCalls
    BY DEF PresetCalls
  <2>3. QED
    BY <2>1, <2>2, PresetCallsMade DEF NoOrder, Order, params
<1>4. QED
  BY <1>2, <1>3

LEMMA PresetsMade ==
    ASSUME NEW ins \in PresetInstruction, NEW count
    PROVE  ByteCall(dsx_instruction(ins.type, Ints(ins.params), count).call)
BY PresetInts, TriggerPresetMade, LedPresetMade DEF PresetParams

-----------------------------------------------------------------------------
\* What leaves each conversion.

LEMMA ExitStatusMade ==
    ASSUME NEW inv
    PROVE  Dsctl(inv).status \in {0, 1}
BY DEF Dsctl, ExitStatus

LEMMA OrderTyped ==
    ASSUME Ask
    PROVE  \A f \in DOMAIN got' : ByteCall(got'[f].call)
<1>1. PICK o : \E turn \in Nat :
        AskedOrder(o) /\ got' = [f \in Offers(o.call) |-> Through(f, o, turn)]
  BY OrderAsked
<1>2. PICK turn \in Nat :
        AskedOrder(o) /\ got' = [f \in Offers(o.call) |-> Through(f, o, turn)]
  BY <1>1
<1>3. QED
  BY <1>2, AnswersMade

LEMMA ChecksumTyped ==
    ASSUME Checksum
    PROVE  \A k \in 1 .. 4 : {got'.ds[k], got'.haptics[k]} \subseteq Byte
<1>1. PICK data \in BoundedSeq(MessageByte, MaxMessage) :
        Convert([kind |-> "checksum", data |-> data],
                [ds |-> Stored(ds_crc32(data)), haptics |-> Stored(haptics_crc32(data))])
  BY DEF Checksum
<1>2. PICK n \in Nat : data \in [1 .. n -> 0 .. 255]
  BY MessagesAreBytes
<1>3. /\ ds_crc32(data) = haptics_crc32(data)
      /\ \A k \in 1 .. 4 : Stored(ds_crc32(data))[k] \in 0 .. 255
  BY <1>2, ChecksumConfirmed
<1> DEFINE crc == Stored(ds_crc32(data))
<1>4. got'.ds = crc /\ got'.haptics = crc
  BY <1>1, <1>3 DEF Convert
<1>5. \A k \in 1 .. 4 : crc[k] \in Byte
  BY <1>3 DEF Byte
<1> HIDE DEF crc
<1>6. QED
  BY <1>4, <1>5

-----------------------------------------------------------------------------

\* Whatever is converted, what comes out is bytes where the code has bytes, and
\* dsctl exits with 0 or 1.
THEOREM CodecsTypeCorrect == Spec => []TypeOK
<1>1. Init => TypeOK
  BY DEF Init, TypeOK, Is
<1>2. TypeOK /\ [Next]_vars => TypeOK'
  <2> SUFFICES ASSUME TypeOK, [Next]_vars PROVE TypeOK'
    OBVIOUS
  <2>1. CASE Encode /\ given'.kind = "effect"
    <3>1. PICK c \in Requests, before \in {Off.dst, Result(Choppy, Off.dst).dst} :
            Convert([kind |-> "effect", call |-> c, before |-> before], Result(c, before))
      BY <2>1 DEF Encode
    <3>2. got' = Result(c, before)
      BY <3>1 DEF Convert
    <3>3. got'.dst \in Effect
      BY <3>2, BeforeMade, EveryRequestMade DEF Made
    <3>4. QED
      BY <2>1, <3>3 DEF TypeOK, Is
  <2>2. CASE Ask /\ given'.kind = "order"
    BY <2>2, OrderTyped DEF TypeOK, Is
  <2>3. CASE Preset /\ given'.kind = "preset"
    <3>1. PICK ins \in PresetInstruction :
            Convert([kind |-> "preset", ins |-> ins],
                    dsx_instruction(ins.type, Ints(ins.params), Controllers).call)
      BY <2>3 DEF Preset
    <3>2. got' = dsx_instruction(ins.type, Ints(ins.params), Controllers).call
      BY <3>1 DEF Convert
    <3>3. ByteCall(got')
      BY <3>2, PresetsMade
    <3>4. QED
      BY <2>3, <3>3 DEF TypeOK, Is
  <2>4. CASE BuildReport /\ given'.kind = "output"
    <3>1. PICK conn \in {"bt", "usb"}, seq \in {0, 7, 15}, dirty \in SUBSET Groups :
            LET dev == Dev(conn, seq, dirty)
            IN  Convert([kind |-> "output", dev |-> dev], [report |-> Report(dev)])
      BY <2>4 DEF BuildReport
    <3> DEFINE dev == Dev(conn, seq, dirty)
               r == Report(dev)
    <3>2. got'.report = r
      BY <3>1 DEF Convert
    <3>3. ReadBackAs(r, dev)
      BY BuiltHandles, EveryReportReadsBack
    <3> HIDE DEF dev, r
    <3>4. \A i \in DOMAIN r : r[i] \in Byte
      BY <3>3 DEF ReadBackAs
    <3>5. QED
      BY <2>4, <3>2, <3>4 DEF TypeOK, Is
  <2>5. CASE Checksum /\ given'.kind = "checksum"
    BY <2>5, ChecksumTyped DEF TypeOK, Is
  <2>6. CASE RunDsctl /\ given'.kind = "dsctl"
    <3>1. PICK inv \in Invocation : Convert([kind |-> "dsctl", inv |-> inv], Dsctl(inv))
      BY <2>6 DEF RunDsctl
    <3>2. got' = Dsctl(inv)
      BY <3>1 DEF Convert
    <3>3. got'.status \in {0, 1}
      BY <3>2, ExitStatusMade
    <3>4. QED
      BY <2>6, <3>3 DEF TypeOK, Is
  <2>7. CASE given'.kind \notin {"effect", "order", "preset", "output", "checksum", "dsctl"}
    BY <2>7 DEF TypeOK, Is
  <2>8. CASE UNCHANGED vars
    BY <2>8 DEF vars, TypeOK, Is, ByteCall
  <2>9. CASE Next
    <3>1. Converted
      BY <2>9, OneConversion
    <3>2. QED
      BY <2>1, <2>2, <2>3, <2>4, <2>5, <2>6, <2>7, <3>1 DEF Converted
  <2>10. QED
    BY <2>8, <2>9
<1>3. QED
  BY <1>1, <1>2, PTL DEF Spec

-----------------------------------------------------------------------------
\* The search through a packet, from its end to its beginning.

\* What a place has if all after it have it, all places have.
LEMMA DownTo ==
    ASSUME NEW m \in Nat, NEW S, \A i \in 1 .. m : i + 1 .. m \subseteq S => i \in S
    PROVE  1 .. m \subseteq S
<1> DEFINE Lacking == (1 .. m) \ S
           T == {n \in Nat : m - n \in Lacking}
<1> SUFFICES ASSUME Lacking # {} PROVE FALSE
  OBVIOUS
<1>1. T \in SUBSET Nat /\ T # {}
  <2>1. PICK i \in Lacking : TRUE
    OBVIOUS
  <2>2. m - i \in Nat /\ m - (m - i) = i
    BY <2>1
  <2>3. m - i \in T
    BY <2>1, <2>2
  <2>4. QED
    BY <2>3
<1> HIDE DEF T
<1>2. PICK n \in T : \A k \in T : n <= k
  BY <1>1, LeastNatural
<1>3. n \in Nat /\ m - n \in Lacking
  BY <1>2 DEF T
<1>4. ASSUME NEW j \in (m - n) + 1 .. m PROVE j \in S
  <2>1. m - j \in Nat /\ m - (m - j) = j /\ ~(n <= m - j) /\ j \in 1 .. m
    BY <1>3
  <2>2. m - j \notin T
    BY <1>2, <2>1
  <2>3. j \notin Lacking
    BY <2>1, <2>2 DEF T
  <2>4. QED
    BY <2>1, <2>3
<1>5. m - n \in 1 .. m
  BY <1>3
<1>6. m - n \in S
  BY <1>4, <1>5
<1>7. QED
  BY <1>3, <1>6

\* Find finds the first token there is.
FoundAs(f, text, i, tok) ==
    \/ f = 0 /\ \A j \in i .. Len(text) : text[j].tok # tok
    \/ f \in i .. Len(text) /\ text[f].tok = tok /\ \A j \in i .. f - 1 : text[j].tok # tok
LEMMA FoundFirst ==
    ASSUME NEW text, Len(text) \in Nat, NEW i \in Nat, NEW tok
    PROVE  FoundAs(Find(text, i, tok), text, i, tok)
<1> DEFINE l == Len(text)
           hits == {j \in i .. l : text[j].tok = tok}
<1>1. Find(text, i, tok) = IF hits = {} THEN 0 ELSE Min(hits)
  BY DEF Find
<1>2. CASE hits = {}
  BY <1>1, <1>2 DEF FoundAs
<1>3. CASE hits # {}
  <2>1. hits \in SUBSET Nat
    OBVIOUS
  <2> HIDE DEF hits
  <2>2. \E x \in hits : \A y \in hits : x <= y
    BY <1>3, <2>1, LeastNatural
  <2>3. Min(hits) \in hits /\ \A y \in hits : Min(hits) <= y
    BY <2>2 DEF Min
  <2> DEFINE f == Min(hits)
  <2> HIDE DEF f
  <2>4. f \in hits /\ \A y \in hits : f <= y
    BY <2>3 DEF f
  <2>5. f \in i .. l /\ text[f].tok = tok
    BY <2>4 DEF hits
  <2>6. \A j \in i .. f - 1 : text[j].tok # tok
    <3>1. SUFFICES ASSUME NEW j \in i .. f - 1, text[j].tok = tok PROVE FALSE
      OBVIOUS
    <3>2. j \in i .. l /\ ~(f <= j)
      BY <2>5
    <3>3. j \in hits
      BY <3>1, <3>2 DEF hits
    <3>4. QED
      BY <2>4, <3>2, <3>3
  <2>7. Find(text, i, tok) = f
    BY <1>1, <1>3 DEF f
  <2>8. QED
    BY <2>5, <2>6, <2>7 DEF FoundAs
<1>4. QED
  BY <1>2, <1>3
LEMMA FoundLater ==
    ASSUME NEW text, Len(text) \in Nat, NEW i \in Nat \ {0}, NEW j \in Nat, i <= j, NEW tok
    PROVE  Find(text, j, tok) = 0 \/ Find(text, j, tok) >= Find(text, i, tok)
<1> DEFINE f == Find(text, i, tok)
           g == Find(text, j, tok)
           l == Len(text)
<1>1. FoundAs(f, text, i, tok) /\ FoundAs(g, text, j, tok)
  BY FoundFirst
<1> HIDE DEF f, g
<1>2. CASE g = 0
  BY <1>2 DEF g
<1>3. CASE g # 0
  <2>1. g \in j .. l /\ text[g].tok = tok
    BY <1>1, <1>3 DEF FoundAs
  <2>2. g \in i .. l
    BY <2>1
  <2>3. f # 0
    BY <1>1, <2>1, <2>2 DEF FoundAs
  <2>4. f \in i .. l /\ \A k \in i .. f - 1 : text[k].tok # tok
    BY <1>1, <2>3 DEF FoundAs
  <2>5. ~(g \in i .. f - 1)
    BY <2>1, <2>4
  <2>6. g >= f
    BY <2>2, <2>4, <2>5
  <2>7. QED
    BY <2>6 DEF f, g
<1>4. QED
  BY <1>2, <1>3

\* A turn of the search that stands at i, when f has what is carried out from
\* where it goes on.
Entry(text, type, params) ==
    [at |-> type, type |-> TypeOf(text[type].value), array |-> Find(text, params, "["),
     params |-> json_parse_int_array(text, params)]
SearchTurn(text, f, i) ==
    LET type == Find(text, i, "Type")
        params == Find(text, type, "Parameters")
    IN  IF type = 0 THEN <<>>
        ELSE IF params = 0 THEN f[type + 1]
        ELSE <<Entry(text, type, params)>> \o f[params + 1]
Stops(text, i) == \A f : SearchTurn(text, f, i) = <<>>
Skips(text, i, on) == \A f : SearchTurn(text, f, i) = f[on]
Meets(text, i, type, params) ==
    /\ type = Find(text, i, "Type") /\ params = Find(text, type, "Parameters")
    /\ \A f : SearchTurn(text, f, i) = <<Entry(text, type, params)>> \o f[params + 1]
LEMMA SearchTurns ==
    ASSUME NEW text, Len(text) \in Nat, NEW i \in 1 .. Len(text) + 1
    PROVE  \/ Stops(text, i)
           \/ \E on \in i + 1 .. Len(text) + 1 : Skips(text, i, on)
           \/ \E type \in i .. Len(text) : \E params \in type + 1 .. Len(text) :
                Meets(text, i, type, params)
<1> DEFINE l == Len(text)
           type == Find(text, i, "Type")
           params == Find(text, type, "Parameters")
<1>1. FoundAs(type, text, i, "Type")
  BY FoundFirst
<1>2. type \in Nat
  BY <1>1 DEF FoundAs
<1>3. FoundAs(params, text, type, "Parameters")
  BY <1>2, FoundFirst
<1>4. \A f : SearchTurn(text, f, i) =
        IF type = 0 THEN <<>>
        ELSE IF params = 0 THEN f[type + 1]
        ELSE <<Entry(text, type, params)>> \o f[params + 1]
  BY DEF SearchTurn
<1>5. \A t, p : t = type /\ p = params =>
        t = Find(text, i, "Type") /\ p = Find(text, t, "Parameters")
  OBVIOUS
<1> HIDE DEF type, params
<1>6. CASE type = 0
  BY <1>4, <1>6 DEF Stops
<1>7. CASE type # 0 /\ params = 0
  <2>1. type \in i .. l
    BY <1>1, <1>7 DEF FoundAs
  <2>2. type + 1 \in i + 1 .. l + 1
    BY <2>1
  <2>3. Skips(text, i, type + 1)
    BY <1>4, <1>7 DEF Skips
  <2>4. QED
    BY <2>2, <2>3
<1>8. CASE type # 0 /\ params # 0
  <2>1. type \in i .. l /\ text[type].tok = "Type"
    BY <1>1, <1>8 DEF FoundAs
  <2>2. params \in type .. l /\ text[params].tok = "Parameters"
    BY <1>3, <1>8 DEF FoundAs
  <2>3. params # type
    BY <2>1, <2>2
  <2>4. params \in type + 1 .. l
    BY <2>1, <2>2, <2>3
  <2>5. Meets(text, i, type, params)
    BY <1>4, <1>5, <1>8 DEF Meets
  <2>6. QED
    BY <2>1, <2>4, <2>5
<1>9. QED
  BY <1>6, <1>7, <1>8

-----------------------------------------------------------------------------
\* A turn looks only at what is carried out from a later place.
LEMMA TurnLooksAhead ==
    ASSUME NEW text, Len(text) \in Nat, NEW i \in 1 .. Len(text) + 1, NEW f, NEW g,
           \A j \in i + 1 .. Len(text) + 1 : f[j] = g[j]
    PROVE  SearchTurn(text, f, i) = SearchTurn(text, g, i)
<1>1. CASE Stops(text, i)
  BY <1>1 DEF Stops
<1>2. CASE \E on \in i + 1 .. Len(text) + 1 : Skips(text, i, on)
  BY <1>2 DEF Skips
<1>3. CASE \E type \in i .. Len(text) : \E params \in type + 1 .. Len(text) :
                Meets(text, i, type, params)
  <2>1. PICK type \in i .. Len(text) : \E params \in type + 1 .. Len(text) :
                Meets(text, i, type, params)
    BY <1>3
  <2>2. PICK params \in type + 1 .. Len(text) : Meets(text, i, type, params)
    BY <2>1
  <2>3. params + 1 \in i + 1 .. Len(text) + 1
    BY <2>1, <2>2
  <2>4. f[params + 1] = g[params + 1]
    BY <2>3
  <2>5. QED
    BY <2>2, <2>4 DEF Meets
<1>4. QED
  BY <1>1, <1>2, <1>3, SearchTurns

\* The table of the search, from a place on.
Searched(f, text, lo) == f = [i \in lo .. Len(text) + 1 |-> SearchTurn(text, f, i)]
LEMMA SearchTable ==
    ASSUME NEW text, Len(text) \in Nat
    PROVE  \E f : Searched(f, text, 1)
<1> DEFINE m == Len(text) + 1
           S == {i \in 1 .. m : \E f : Searched(f, text, i)}
<1>1. ASSUME NEW i \in 1 .. m, i + 1 .. m \subseteq S PROVE i \in S
  <2>1. \E g : i # m => Searched(g, text, i + 1)
    <3>1. i # m => i + 1 \in i + 1 .. m
      OBVIOUS
    <3>2. QED
      BY <1>1, <3>1
  <2>2. PICK g : i # m => Searched(g, text, i + 1)
    BY <2>1
  <2> DEFINE f == [j \in i .. m |-> IF j = i THEN SearchTurn(text, g, i) ELSE g[j]]
  <2>3. \A j \in i .. m : f[j] = (IF j = i THEN SearchTurn(text, g, i) ELSE g[j])
    OBVIOUS
  <2>4. f = [j \in i .. m |-> f[j]]
    OBVIOUS
  <2> HIDE DEF f
  <2>5. \A j \in i + 1 .. m : f[j] = g[j] /\ g[j] = SearchTurn(text, g, j)
    <3>1. ASSUME NEW j \in i + 1 .. m PROVE f[j] = g[j] /\ g[j] = SearchTurn(text, g, j)
      <4>1. i # m /\ j \in i .. m /\ j # i
        OBVIOUS
      <4>2. g = [k \in i + 1 .. m |-> SearchTurn(text, g, k)]
        BY <2>2, <4>1 DEF Searched
      <4>3. QED
        BY <2>3, <4>1, <4>2
    <3>2. QED
      BY <3>1
  <2>6. ASSUME NEW j \in i .. m PROVE SearchTurn(text, f, j) = SearchTurn(text, g, j)
    <3>1. \A k \in j + 1 .. m : f[k] = g[k]
      BY <2>5
    <3>2. QED
      BY <3>1, TurnLooksAhead
  <2>7. \A j \in i .. m : f[j] = SearchTurn(text, f, j)
    BY <2>3, <2>5, <2>6
  <2>8. Searched(f, text, i)
    BY <2>4, <2>7 DEF Searched
  <2>9. QED
    BY <2>8
<1>2. m \in Nat /\ 1 \in 1 .. m
  OBVIOUS
<1> HIDE DEF S, m
<1>3. 1 .. m \subseteq S
  BY <1>1, <1>2, DownTo
<1>4. 1 \in S
  BY <1>2, <1>3
<1>5. QED
  BY <1>4 DEF S

\* The search of the program is a table.
LEMMA CarriedIsSearched ==
    ASSUME NEW text, Len(text) \in Nat
    PROVE  \E f : Searched(f, text, 1) /\ Carried(text) = f[1]
<1> DEFINE Is1(f) == f = [i \in 1 .. Len(text) + 1 |->
            LET type == Find(text, i, "Type")
                params == Find(text, type, "Parameters")
            IN  IF type = 0 THEN <<>>
                ELSE IF params = 0 THEN f[type + 1]
                ELSE <<[at |-> type, type |-> TypeOf(text[type].value),
                        array |-> Find(text, params, "["),
                        params |-> json_parse_int_array(text, params)]>>
                     \o f[Resume(text, params)]]
           s == CHOOSE f : Is1(f)
<1>1. Carried(text) = s[1]
  BY DEF Carried
<1>2. \A f : Is1(f) <=> Searched(f, text, 1)
  BY Zenon DEF Searched, SearchTurn, Entry, Resume
<1>3. \E f : Is1(f)
  BY <1>2, SearchTable
<1>4. Is1(s)
  BY <1>3
<1> HIDE DEF Is1
<1>5. Searched(s, text, 1)
  BY <1>2, <1>4
<1>6. QED
  BY <1>1, <1>5

-----------------------------------------------------------------------------
\* What is carried out from a place on, of types and parameters after it, goes
\* forward in the text.
EntryFrom(e, text, i) ==
    \E type \in i .. Len(text) : \E params \in type + 1 .. Len(text) :
        e = Entry(text, type, params)
Follows(d, e) == e.at > d.at /\ (e.array = 0 \/ e.array >= d.array)
AllEntries(text) == {Entry(text, at[1], at[2]) : at \in (1 .. Len(text)) \X (1 .. Len(text))}
Forward(r, text, i) ==
    /\ r \in Seq(AllEntries(text))
    /\ \A k \in 1 .. Len(r) : EntryFrom(r[k], text, i)
    /\ \A k \in 2 .. Len(r) : Follows(r[k - 1], r[k])

LEMMA EntriesFollow ==
    ASSUME NEW text, Len(text) \in Nat, NEW i \in Nat \ {0}, NEW type \in i .. Len(text),
           NEW params \in type + 1 .. Len(text), NEW e, EntryFrom(e, text, params + 1)
    PROVE  Follows(Entry(text, type, params), e)
<1> DEFINE d == Entry(text, type, params)
<1>1. PICK t \in params + 1 .. Len(text) : \E p \in t + 1 .. Len(text) : e = Entry(text, t, p)
  BY DEF EntryFrom
<1>2. PICK p \in t + 1 .. Len(text) : e = Entry(text, t, p)
  BY <1>1
<1>3. e.at = t /\ e.array = Find(text, p, "[")
  BY <1>2 DEF Entry
<1>4. d.at = type /\ d.array = Find(text, params, "[")
  BY DEF Entry
<1>5. t > type /\ params \in Nat \ {0} /\ p \in Nat /\ params <= p
  OBVIOUS
<1>6. Find(text, p, "[") = 0 \/ Find(text, p, "[") >= Find(text, params, "[")
  BY <1>5, FoundLater
<1> HIDE DEF d
<1>7. Follows(d, e)
  BY <1>3, <1>4, <1>5, <1>6 DEF Follows
<1>8. QED
  BY <1>7 DEF d
LEMMA EntryIsOne ==
    ASSUME NEW text, Len(text) \in Nat, NEW type \in 1 .. Len(text), NEW params \in 1 .. Len(text)
    PROVE  Entry(text, type, params) \in AllEntries(text)
<1> DEFINE at == <<type, params>>
<1>1. at \in (1 .. Len(text)) \X (1 .. Len(text)) /\ at[1] = type /\ at[2] = params
  OBVIOUS
<1> HIDE DEF at
<1>2. Entry(text, at[1], at[2]) \in AllEntries(text)
  BY <1>1 DEF AllEntries
<1>3. QED
  BY <1>1, <1>2

LEMMA PutFirst ==
    ASSUME NEW S, NEW d \in S, NEW r \in Seq(S)
    PROVE  /\ <<d>> \o r \in Seq(S) /\ Len(<<d>> \o r) = Len(r) + 1 /\ (<<d>> \o r)[1] = d
           /\ \A k \in 1 .. Len(r) : (<<d>> \o r)[k + 1] = r[k]
<1>1. <<d>> \in Seq(S) /\ Len(<<d>>) = 1 /\ <<d>>[1] = d
  OBVIOUS
<1> DEFINE p == <<d>>
           n == Len(r)
<1>2. n \in Nat
  OBVIOUS
<1>3. p \in Seq(S) /\ Len(p) = 1 /\ p[1] = d
  BY <1>1
<1> HIDE DEF p
<1>4. /\ p \o r \in Seq(S) /\ Len(p \o r) = 1 + n
      /\ \A k \in 1 .. 1 + n : (p \o r)[k] = IF k <= 1 THEN p[k] ELSE r[k - 1]
  <2>1. /\ p \o r \in Seq(S) /\ Len(p \o r) = Len(p) + Len(r)
        /\ \A k \in 1 .. Len(p) + Len(r) :
                (p \o r)[k] = IF k <= Len(p) THEN p[k] ELSE r[k - Len(p)]
    BY <1>3, ConcatProperties
  <2>2. QED
    BY <1>3, <2>1, Zenon
<1> DEFINE q == p \o r
<1> HIDE DEF q, n
<1>5. /\ Len(q) = 1 + n
      /\ \A k \in 1 .. 1 + n : q[k] = IF k <= 1 THEN p[k] ELSE r[k - 1]
  BY <1>4 DEF q
<1>6. q[1] = d
  BY <1>2, <1>3, <1>5
<1>7. \A k \in 1 .. n : q[k + 1] = r[k]
  <2>1. ASSUME NEW k \in 1 .. n PROVE q[k + 1] = r[k]
    <3>1. k + 1 \in 1 .. 1 + n /\ ~(k + 1 <= 1) /\ (k + 1) - 1 = k
      BY <1>2
    <3>2. QED
      BY <1>5, <3>1
  <2>2. QED
    BY <2>1
<1>8. Len(q) = n + 1
  BY <1>2, <1>5
<1>9. QED
  BY <1>4, <1>6, <1>7, <1>8 DEF p, q, n

LEMMA ForwardOn ==
    ASSUME NEW text, Len(text) \in Nat, NEW i \in Nat \ {0}, NEW type \in i .. Len(text),
           NEW params \in type + 1 .. Len(text), NEW r, Forward(r, text, params + 1)
    PROVE  Forward(<<Entry(text, type, params)>> \o r, text, i)
<1> DEFINE d == Entry(text, type, params)
           q == <<d>> \o r
           n == Len(r)
<1>1. d \in AllEntries(text)
  BY EntryIsOne
<1>2. EntryFrom(d, text, i)
  BY DEF EntryFrom
<1>3. \A e : EntryFrom(e, text, params + 1) => Follows(d, e) /\ EntryFrom(e, text, i)
  <2>1. \A e : EntryFrom(e, text, params + 1) => Follows(d, e)
    BY EntriesFollow
  <2>2. \A t \in params + 1 .. Len(text) : t \in i .. Len(text)
    OBVIOUS
  <2>3. \A e : EntryFrom(e, text, params + 1) => EntryFrom(e, text, i)
    BY <2>2, Zenon DEF EntryFrom
  <2>4. QED
    BY <2>1, <2>3
<1> HIDE DEF d
<1>4. r \in Seq(AllEntries(text)) /\ n \in Nat
  BY DEF Forward
<1>5. /\ q \in Seq(AllEntries(text)) /\ Len(q) = n + 1 /\ q[1] = d
      /\ \A k \in 1 .. n : q[k + 1] = r[k]
  BY <1>1, <1>4, PutFirst
<1>6. /\ \A k \in 1 .. n : EntryFrom(r[k], text, params + 1)
      /\ \A k \in 2 .. n : Follows(r[k - 1], r[k])
  BY DEF Forward
<1> HIDE DEF q, n
<1>7. ASSUME NEW k \in 1 .. n + 1 PROVE EntryFrom(q[k], text, i)
  <2>1. CASE k = 1
    BY <1>2, <1>5, <2>1
  <2>2. CASE k # 1
    <3>1. k - 1 \in 1 .. n /\ (k - 1) + 1 = k
      BY <1>4, <2>2
    <3>2. q[k] = r[k - 1]
      BY <1>5, <3>1
    <3>3. QED
      BY <1>3, <1>6, <3>1, <3>2
  <2>3. QED
    BY <2>1, <2>2
<1>8. ASSUME NEW k \in 2 .. n + 1 PROVE Follows(q[k - 1], q[k])
  <2>1. k - 1 \in 1 .. n /\ (k - 1) + 1 = k
    BY <1>4
  <2>2. q[k] = r[k - 1]
    BY <1>5, <2>1
  <2>3. CASE k = 2
    <3>1. q[k - 1] = d
      BY <1>5, <2>3
    <3>2. QED
      BY <1>3, <1>6, <2>1, <2>2, <3>1
  <2>4. CASE k # 2
    <3>1. k - 1 \in 2 .. n /\ k - 2 \in 1 .. n /\ (k - 2) + 1 = k - 1 /\ (k - 1) - 1 = k - 2
      BY <1>4, <2>4
    <3>2. q[k - 1] = r[k - 2]
      BY <1>5, <3>1
    <3>3. Follows(r[k - 2], r[k - 1])
      BY <1>6, <3>1
    <3>4. QED
      BY <2>2, <3>2, <3>3
  <2>5. QED
    BY <2>3, <2>4
<1>9. Forward(q, text, i)
  BY <1>5, <1>7, <1>8 DEF Forward
<1>10. QED
  BY <1>9 DEF q, d

LEMMA ForwardSooner ==
    ASSUME NEW text, Len(text) \in Nat, NEW i \in Nat, NEW j \in Nat, i <= j, NEW r,
           Forward(r, text, j)
    PROVE  Forward(r, text, i)
<1>1. \A t \in j .. Len(text) : t \in i .. Len(text)
  OBVIOUS
<1>2. \A e : EntryFrom(e, text, j) => EntryFrom(e, text, i)
  BY <1>1, Zenon DEF EntryFrom
<1>3. QED
  BY <1>2 DEF Forward

LEMMA SearchGoesForward ==
    ASSUME NEW text, Len(text) \in Nat, NEW f, Searched(f, text, 1)
    PROVE  \A i \in 1 .. Len(text) + 1 : Forward(f[i], text, i)
<1> DEFINE m == Len(text) + 1
           S == {i \in 1 .. m : Forward(f[i], text, i)}
<1>1. \A i \in 1 .. m : f[i] = SearchTurn(text, f, i)
  BY DEF Searched
<1>2. ASSUME NEW i \in 1 .. m, i + 1 .. m \subseteq S PROVE i \in S
  <2>1. \A j \in i + 1 .. m : Forward(f[j], text, j)
    BY <1>2
  <2>2. CASE Stops(text, i)
    <3>1. f[i] = <<>>
      BY <1>1, <2>2 DEF Stops
    <3>2. Forward(<<>>, text, i)
      BY DEF Forward
    <3>3. QED
      BY <3>1, <3>2
  <2>3. CASE \E on \in i + 1 .. m : Skips(text, i, on)
    <3>1. PICK on \in i + 1 .. m : Skips(text, i, on)
      BY <2>3
    <3>2. f[i] = f[on]
      BY <1>1, <3>1 DEF Skips
    <3>3. i \in Nat /\ on \in Nat /\ i <= on
      OBVIOUS
    <3>4. Forward(f[on], text, i)
      BY <2>1, <3>3, ForwardSooner
    <3>5. QED
      BY <3>2, <3>4
  <2>4. CASE \E type \in i .. Len(text) : \E params \in type + 1 .. Len(text) :
                Meets(text, i, type, params)
    <3>1. PICK type \in i .. Len(text) : \E params \in type + 1 .. Len(text) :
                Meets(text, i, type, params)
      BY <2>4
    <3>2. PICK params \in type + 1 .. Len(text) : Meets(text, i, type, params)
      BY <3>1
    <3>3. f[i] = <<Entry(text, type, params)>> \o f[params + 1]
      BY <1>1, <3>2 DEF Meets
    <3>4. params + 1 \in i + 1 .. m /\ i \in Nat \ {0}
      OBVIOUS
    <3>5. Forward(f[params + 1], text, params + 1)
      BY <2>1, <3>4
    <3>6. Forward(<<Entry(text, type, params)>> \o f[params + 1], text, i)
      BY <3>4, <3>5, ForwardOn
    <3>7. QED
      BY <3>3, <3>6
  <2>5. QED
    BY <2>2, <2>3, <2>4, SearchTurns
<1>3. m \in Nat
  OBVIOUS
<1> HIDE DEF S, m
<1>4. 1 .. m \subseteq S
  BY <1>2, <1>3, DownTo
<1>5. QED
  BY <1>4 DEF S, m

-----------------------------------------------------------------------------
\* A search finds a type with its parameters right after it if every type before
\* it has found its parameters before it.
HasOwn(text, s) ==
    /\ s \in 1 .. Len(text) /\ s + 1 \in 1 .. Len(text)
    /\ text[s].tok = "Type" /\ text[s + 1].tok = "Parameters"
Undisturbed(text, s) ==
    \A t \in 1 .. s - 1 : text[t].tok = "Type" => \E p \in t + 1 .. s - 1 : text[p].tok = "Parameters"
LEMMA NextTurn ==
    ASSUME NEW text, Len(text) \in Nat, NEW s, HasOwn(text, s), Undisturbed(text, s),
           NEW i \in 1 .. s
    PROVE  \E type \in i .. s : \E params \in type + 1 .. Len(text) :
            /\ \A f : SearchTurn(text, f, i) = <<Entry(text, type, params)>> \o f[params + 1]
            /\ IF type = s THEN params = s + 1 ELSE params < s
<1> DEFINE l == Len(text)
           type == Find(text, i, "Type")
           params == Find(text, type, "Parameters")
<1>1. s \in 1 .. l /\ s + 1 \in 1 .. l /\ text[s].tok = "Type" /\ text[s + 1].tok = "Parameters"
  BY DEF HasOwn
<1>2. FoundAs(type, text, i, "Type")
  BY FoundFirst
<1>3. type \in Nat
  BY <1>2 DEF FoundAs
<1>4. FoundAs(params, text, type, "Parameters")
  BY <1>3, FoundFirst
<1>5. \A f : SearchTurn(text, f, i) =
        IF type = 0 THEN <<>>
        ELSE IF params = 0 THEN f[type + 1]
        ELSE <<Entry(text, type, params)>> \o f[params + 1]
  BY DEF SearchTurn
<1> HIDE DEF type, params
<1>6. type \in i .. s /\ text[type].tok = "Type" /\ type # 0
  <2>1. s \in i .. l
    BY <1>1
  <2>2. type # 0
    <3>1. SUFFICES ASSUME type = 0 PROVE FALSE
      OBVIOUS
    <3>2. ~(type \in i .. l)
      BY <3>1
    <3>3. \A j \in i .. l : text[j].tok # "Type"
      BY <1>2, <3>2 DEF FoundAs
    <3>4. QED
      BY <1>1, <2>1, <3>3
  <2>3. type \in i .. l /\ text[type].tok = "Type" /\ \A j \in i .. type - 1 : text[j].tok # "Type"
    BY <1>2, <2>2 DEF FoundAs
  <2>4. ~(s \in i .. type - 1)
    BY <1>1, <2>3
  <2>5. QED
    BY <2>1, <2>2, <2>3, <2>4
<1>7. PICK p \in type + 1 .. l :
        text[p].tok = "Parameters" /\ (IF type = s THEN p = s + 1 ELSE p < s)
  <2>1. CASE type = s
    <3>1. s + 1 \in type + 1 .. l
      BY <1>1, <2>1
    <3>2. QED
      BY <1>1, <2>1, <3>1
  <2>2. CASE type # s
    <3>1. type \in 1 .. s - 1
      BY <1>1, <1>6, <2>2
    <3>2. PICK p \in type + 1 .. s - 1 : text[p].tok = "Parameters"
      BY <1>6, <3>1 DEF Undisturbed
    <3>3. p \in type + 1 .. l /\ p < s
      BY <1>1, <1>6, <3>2
    <3>4. QED
      BY <2>2, <3>2, <3>3
  <2>3. QED
    BY <2>1, <2>2
<1>8. params \in type + 1 .. p /\ params # 0
  <2>1. p \in type .. l /\ text[p].tok = "Parameters"
    BY <1>6, <1>7
  <2>2. params # 0
    <3>1. SUFFICES ASSUME params = 0 PROVE FALSE
      OBVIOUS
    <3>2. ~(params \in type .. l)
      BY <1>6, <3>1
    <3>3. \A j \in type .. l : text[j].tok # "Parameters"
      BY <1>4, <3>2 DEF FoundAs
    <3>4. QED
      BY <2>1, <3>3
  <2>3. /\ params \in type .. l /\ text[params].tok = "Parameters"
        /\ \A j \in type .. params - 1 : text[j].tok # "Parameters"
    BY <1>4, <2>2 DEF FoundAs
  <2>4. params # type
    BY <1>6, <2>3
  <2>5. ~(p \in type .. params - 1)
    BY <2>1, <2>3
  <2>6. QED
    BY <1>6, <2>1, <2>2, <2>3, <2>4, <2>5
<1>9. params \in type + 1 .. l /\ (IF type = s THEN params = s + 1 ELSE params < s)
  <2>1. type \in Nat /\ s \in Nat /\ l \in Nat /\ p \in Nat /\ params \in Nat /\ p <= l
        /\ type + 1 <= params /\ params <= p
    BY <1>1, <1>6, <1>7, <1>8
  <2>2. CASE type = s
    BY <1>7, <2>1, <2>2
  <2>3. CASE type # s
    BY <1>7, <2>1, <2>3
  <2>4. QED
    BY <2>2, <2>3
<1>10. \A f : SearchTurn(text, f, i) = <<Entry(text, type, params)>> \o f[params + 1]
  BY <1>5, <1>6, <1>8
<1>11. QED
  BY <1>6, <1>9, <1>10

LEMMA SearchArrives ==
    ASSUME NEW text, Len(text) \in Nat, NEW s, HasOwn(text, s), Undisturbed(text, s),
           NEW f, Searched(f, text, 1)
    PROVE  \E n \in 1 .. Len(f[1]) : f[1][n] = Entry(text, s, s + 1)
<1> DEFINE w == Entry(text, s, s + 1)
           l == Len(text)
           S == {i \in 1 .. s : \E n \in 1 .. Len(f[i]) : f[i][n] = w}
<1>1. s \in 1 .. l /\ s + 1 \in 1 .. l
  BY DEF HasOwn
<1>2. \A i \in 1 .. l + 1 : f[i] = SearchTurn(text, f, i)
  BY DEF Searched
<1>3. \A i \in 1 .. l + 1 : f[i] \in Seq(AllEntries(text))
  BY SearchGoesForward DEF Forward
<1>4. ASSUME NEW i \in 1 .. s, i + 1 .. s \subseteq S PROVE i \in S
  <2>1. PICK type \in i .. s : \E params \in type + 1 .. l :
            /\ \A g : SearchTurn(text, g, i) = <<Entry(text, type, params)>> \o g[params + 1]
            /\ IF type = s THEN params = s + 1 ELSE params < s
    BY NextTurn
  <2>2. PICK params \in type + 1 .. l :
            /\ \A g : SearchTurn(text, g, i) = <<Entry(text, type, params)>> \o g[params + 1]
            /\ IF type = s THEN params = s + 1 ELSE params < s
    BY <2>1
  <2> DEFINE d == Entry(text, type, params)
             r == f[params + 1]
             q == <<d>> \o r
  <2>3. i \in 1 .. l + 1 /\ params + 1 \in 1 .. l + 1 /\ type \in 1 .. l /\ params \in 1 .. l
    BY <1>1, <2>1, <2>2
  <2>4. d \in AllEntries(text) /\ r \in Seq(AllEntries(text))
    BY <1>3, <2>3, EntryIsOne
  <2>5. f[i] = q
    BY <1>2, <2>2, <2>3
  <2>6. type = s => d = w
    BY <2>2
  <2> HIDE DEF d, w
  <2>7. /\ Len(q) = Len(r) + 1 /\ q[1] = d /\ Len(r) \in Nat
        /\ \A k \in 1 .. Len(r) : q[k + 1] = r[k]
    BY <2>4, PutFirst
  <2>8. CASE type = s
    <3>1. q[1] = w /\ 1 \in 1 .. Len(q)
      BY <2>6, <2>7, <2>8
    <3> HIDE DEF q
    <3>2. QED
      BY <2>5, <3>1
  <2>9. CASE type # s
    <3>1. params + 1 \in i + 1 .. s
      BY <1>1, <2>1, <2>2, <2>9
    <3>2. PICK n \in 1 .. Len(r) : r[n] = w
      BY <1>4, <3>1
    <3>3. q[n + 1] = w /\ n + 1 \in 1 .. Len(q)
      BY <2>7, <3>2
    <3> HIDE DEF q, r
    <3>4. QED
      BY <2>5, <3>3
  <2>10. QED
    BY <2>8, <2>9
<1>5. s \in Nat /\ 1 \in 1 .. s
  BY <1>1
<1> HIDE DEF S
<1>6. 1 .. s \subseteq S
  BY <1>4, <1>5, DownTo
<1>7. QED
  BY <1>5, <1>6 DEF S, w

-----------------------------------------------------------------------------
\* Texts put together: what is there after k parts.

Joining(g, q, m, T) ==
    /\ g \in [0 .. m -> Seq(T)] /\ g[0] = <<>>
    /\ \A k \in 1 .. m : g[k] = g[k - 1] \o q[k]
LEMMA JoiningExists ==
    ASSUME NEW T, NEW m \in Nat, NEW q, \A j \in 1 .. m : q[j] \in Seq(T)
    PROVE  \E g : Joining(g, q, m, T)
<1> DEFINE turn == [a \in (1 .. m) \X Seq(T) |-> a[2] \o q[a[1]]]
<1>1. \A k \in 1 .. m : \A w \in Seq(T) : w \o q[k] \in Seq(T)
  OBVIOUS
<1>2. turn \in Turns(m, Seq(T))
  <2>1. \A a \in (1 .. m) \X Seq(T) : a[2] \o q[a[1]] \in Seq(T)
    BY <1>1
  <2>2. QED
    BY <2>1 DEF Turns
<1>3. \A k \in 1 .. m : \A w \in Seq(T) : turn[<<k, w>>] = w \o q[k]
  OBVIOUS
<1> HIDE DEF turn
<1>4. <<>> \in Seq(T)
  OBVIOUS
<1>5. PICK g : Course(g, m, Seq(T), <<>>, turn)
  BY <1>2, <1>4, CourseExists
<1>6. g \in [0 .. m -> Seq(T)] /\ g[0] = <<>> /\ \A k \in 1 .. m : g[k] = turn[<<k, g[k - 1]>>]
  BY <1>5 DEF Course
<1>7. \A k \in 1 .. m : g[k - 1] \in Seq(T)
  <2>1. \A k \in 1 .. m : k - 1 \in 0 .. m
    OBVIOUS
  <2>2. QED
    BY <1>6, <2>1
<1>8. QED
  BY <1>3, <1>6, <1>7, ZenonT(40) DEF Joining

FirstParts(q, k) == [j \in 1 .. k |-> q[j]]
LEMMA Flattened ==
    ASSUME NEW T, NEW m \in Nat, NEW q, \A j \in 1 .. m : q[j] \in Seq(T),
           NEW g, Joining(g, q, m, T), NEW k \in 0 .. m
    PROVE  FlattenSeq(FirstParts(q, k)) = g[k]
<1> DEFINE parts == [j \in 1 .. k |-> q[j]]
<1>1. parts \in Seq(Seq(T)) /\ Len(parts) = k
  OBVIOUS
<1>2. \A j \in 1 .. k : parts[j] = q[j]
  OBVIOUS
<1>3. g[0] = <<>> /\ \A j \in 1 .. k : g[j] = g[j - 1] \o q[j] /\ q[j] \in Seq(T)
  <2>1. 1 .. k \subseteq 1 .. m
    OBVIOUS
  <2>2. QED
    BY <2>1 DEF Joining
<1>4. CASE k = 0
  <2>1. parts = <<>>
    BY <1>4
  <2> HIDE DEF parts
  <2>2. FlattenSeq(parts) = parts
    BY <1>1, <1>4 DEF FlattenSeq
  <2>3. QED
    BY <1>3, <1>4, <2>1, <2>2 DEF parts, FirstParts
<1>5. CASE k # 0
  <2> DEFINE Flat(f) == f = [i \in 1 .. k |-> IF i = 1 THEN parts[i] ELSE f[i - 1] \o parts[i]]
             s == CHOOSE f : Flat(f)
             h == [i \in 1 .. k |-> g[i]]
  <2> HIDE DEF parts
  <2>1. FlattenSeq(parts) = s[k]
    BY <1>1, <1>5 DEF FlattenSeq
  <2>2. Flat(h)
    <3>1. ASSUME NEW i \in 1 .. k
          PROVE  g[i] = IF i = 1 THEN parts[i] ELSE h[i - 1] \o parts[i]
      <4>1. g[i] = g[i - 1] \o q[i] /\ parts[i] = q[i] /\ q[i] \in Seq(T)
        BY <1>2, <1>3
      <4>2. CASE i = 1
        <5>1. g[i - 1] = <<>>
          BY <1>3, <4>2
        <5>2. <<>> \o q[i] = q[i]
          BY <4>1
        <5>3. QED
          BY <4>1, <4>2, <5>1, <5>2
      <4>3. CASE i # 1
        <5>1. i - 1 \in 1 .. k
          BY <4>3
        <5>2. h[i - 1] = g[i - 1]
          BY <5>1
        <5>3. QED
          BY <4>1, <4>3, <5>2
      <4>4. QED
        BY <4>2, <4>3
    <3>2. QED
      BY <3>1
  <2> HIDE DEF h
  <2>3. Flat(s)
    BY <2>2
  <2> HIDE DEF s
  <2>4. \A i \in 1 .. k : s[i] = IF i = 1 THEN q[i] ELSE s[i - 1] \o q[i]
    <3>1. \A i \in 1 .. k : s[i] = IF i = 1 THEN parts[i] ELSE s[i - 1] \o parts[i]
      BY <2>3
    <3>2. QED
      BY <1>2, <3>1
  <2> HIDE DEF Flat
  <2> DEFINE S == {i \in 0 .. k : i = 0 \/ s[i] = g[i]}
  <2>5. ASSUME NEW i \in 0 .. k - 1, i \in S PROVE i + 1 \in S
    <3>1. i + 1 \in 1 .. k /\ (i + 1) - 1 = i /\ i + 1 \in 0 .. k
      OBVIOUS
    <3>2. g[i + 1] = g[i] \o q[i + 1] /\ q[i + 1] \in Seq(T)
      BY <1>3, <3>1
    <3>3. s[i + 1] = IF i + 1 = 1 THEN q[i + 1] ELSE s[i] \o q[i + 1]
      BY <2>4, <3>1
    <3>4. CASE i = 0
      <4>1. g[i] = <<>> /\ <<>> \o q[i + 1] = q[i + 1]
        BY <1>3, <3>2, <3>4
      <4>2. QED
        BY <3>1, <3>2, <3>3, <3>4, <4>1
    <3>5. CASE i # 0
      <4>1. s[i] = g[i] /\ i + 1 # 1
        BY <2>5, <3>5
      <4>2. QED
        BY <3>1, <3>2, <3>3, <4>1
    <3>6. QED
      BY <3>4, <3>5
  <2>6. 0 \in S /\ k \in Nat
    OBVIOUS
  <2> HIDE DEF S
  <2>7. 0 .. k \subseteq S
    BY <2>5, <2>6, UpTo
  <2>8. s[k] = g[k]
    BY <1>5, <2>7 DEF S
  <2>9. QED
    BY <2>1, <2>8 DEF parts, FirstParts
<1>6. QED
  BY <1>4, <1>5

\* The parts are there in their places.
AllSeqs(q, m, T) == \A j \in 1 .. m : q[j] \in Seq(T)
Kept(g, k, m) ==
    \A n \in 0 .. m - k : /\ Len(g[k]) <= Len(g[k + n])
                          /\ \A i \in 1 .. Len(g[k]) : g[k + n][i] = g[k][i]
LEMMA PartsKept ==
    ASSUME NEW T, NEW m \in Nat, NEW q, AllSeqs(q, m, T),
           NEW g, Joining(g, q, m, T), NEW k \in 0 .. m
    PROVE  Kept(g, k, m)
<1> DEFINE S == {n \in 0 .. m - k : /\ Len(g[k]) <= Len(g[k + n])
                                    /\ \A i \in 1 .. Len(g[k]) : g[k + n][i] = g[k][i]}
           d == m - k
<1>1. \A j \in 0 .. m : g[j] \in Seq(T) /\ Len(g[j]) \in Nat
  BY DEF Joining
<1>2. ASSUME NEW n \in 0 .. d - 1, n \in S PROVE n + 1 \in S
  <2>1. k + n \in 0 .. m /\ k + (n + 1) \in 1 .. m /\ (k + (n + 1)) - 1 = k + n /\ n + 1 \in 0 .. d
    OBVIOUS
  <2> DEFINE r == g[k + n]
             t == q[k + (n + 1)]
             u == g[k + (n + 1)]
  <2>2. u = r \o t /\ r \in Seq(T) /\ t \in Seq(T) /\ Len(r) \in Nat
    BY <1>1, <2>1 DEF Joining, AllSeqs
  <2>3. /\ Len(g[k]) <= Len(r)
        /\ \A i \in 1 .. Len(g[k]) : r[i] = g[k][i]
    BY <1>2
  <2> HIDE DEF r, t, u
  <2>4. Len(u) = Len(r) + Len(t) /\ Len(t) \in Nat
        /\ \A i \in 1 .. Len(r) + Len(t) : u[i] = IF i <= Len(r) THEN r[i] ELSE t[i - Len(r)]
    BY <2>2, ConcatProperties
  <2>5. Len(g[k]) \in Nat
    BY <1>1
  <2>6. Len(g[k]) <= Len(u) /\ \A i \in 1 .. Len(g[k]) : u[i] = g[k][i]
    BY <2>2, <2>3, <2>4, <2>5
  <2>7. QED
    BY <2>1, <2>6 DEF u
<1>3. 0 \in S /\ d \in Nat
  <2>1. k + 0 = k /\ Len(g[k]) \in Nat /\ d \in Nat /\ 0 \in 0 .. d
    BY <1>1
  <2>2. QED
    BY <2>1
<1> HIDE DEF S
<1>4. 0 .. d \subseteq S
  BY <1>2, <1>3, UpTo
<1>5. QED
  BY <1>4 DEF S, Kept

-----------------------------------------------------------------------------
\* The tokens of an instruction, and where they are in a packet's text.

TokensOf(ins) == {Type(ins.type), Parameters, Array(ins.params)}
LEMMA TokenKinds ==
    \A v : Type(v).tok = "Type" /\ Type(v).value = v /\ Parameters.tok = "Parameters"
           /\ Array(v).tok = "[" /\ Array(v).values = v
BY DEF Type, Parameters, Array
LEMMA OrdinaryTokens ==
    ASSUME NEW ins, ins.typeFirst, ins.params # Missing
    PROVE  /\ Len(Tokens(ins)) = (IF ins.params = Word THEN 2 ELSE 3)
           /\ Tokens(ins)[1] = Type(ins.type) /\ Tokens(ins)[2] = Parameters
           /\ ins.params # Word => Tokens(ins)[3] = Array(ins.params)
<1> DEFINE a == Type(ins.type)
           b == Parameters
           c == Array(ins.params)
<1> HIDE DEF a, b, c
<1>1. CASE ins.params = Word
  <2>1. Tokens(ins) = <<a>> \o <<b>>
    BY <1>1 DEF Tokens, a, b
  <2>2. QED
    BY <1>1, <2>1 DEF a, b
<1>2. CASE ins.params # Word
  <2>1. Tokens(ins) = <<a>> \o <<b, c>>
    BY <1>2 DEF Tokens, a, b, c
  <2> DEFINE S == {a, b, c}
             r == <<b, c>>
  <2>2. a \in S /\ r \in Seq(S)
    OBVIOUS
  <2>0. Len(r) = 2 /\ r[1] = b /\ r[2] = c
    OBVIOUS
  <2> HIDE DEF S, r
  <2>3. /\ Len(<<a>> \o r) = Len(r) + 1 /\ (<<a>> \o r)[1] = a
        /\ \A k \in 1 .. Len(r) : (<<a>> \o r)[k + 1] = r[k]
    BY <2>2, PutFirst
  <2>4. Tokens(ins) = <<a>> \o r
    BY <2>1 DEF r
  <2> DEFINE t == Tokens(ins)
  <2> HIDE DEF t
  <2>5. Len(t) = Len(r) + 1 /\ t[1] = a /\ \A k \in 1 .. Len(r) : t[k + 1] = r[k]
    BY <2>3, <2>4 DEF t
  <2>6. Len(t) = 3 /\ t[1] = a /\ t[2] = b /\ t[3] = c
    BY <2>0, <2>5
  <2>7. QED
    BY <1>2, <2>6 DEF a, b, c, t
<1>3. QED
  BY <1>1, <1>2
LEMMA TokensAreSeq ==
    ASSUME NEW ins, ins.typeFirst \in BOOLEAN
    PROVE  Tokens(ins) \in Seq(TokensOf(ins))
<1> DEFINE a == Type(ins.type)
           b == Parameters
           c == Array(ins.params)
           T == TokensOf(ins)
           value == IF ins.params = Missing THEN <<>>
                    ELSE IF ins.params = Word THEN <<b>> ELSE <<b, c>>
<1>1. a \in T /\ b \in T /\ c \in T
  BY DEF TokensOf
<1>2. Tokens(ins) = IF ins.typeFirst THEN <<a>> \o value ELSE value \o <<a>>
  BY DEF Tokens
<1> HIDE DEF a, b, c, T
<1>3. <<a>> \in Seq(T) /\ value \in Seq(T)
  BY <1>1
<1> HIDE DEF value
<1>4. <<a>> \o value \in Seq(T) /\ value \o <<a>> \in Seq(T)
  BY <1>3
<1>5. QED
  BY <1>2, <1>4 DEF T

\* A packet of m instructions, and a text with each one's tokens in its place.
Packet(packet, m) ==
    /\ m \in Nat /\ DOMAIN packet = 1 .. m
    /\ \A k \in 1 .. m : packet[k].typeFirst \in BOOLEAN
LaidOut(packet, m, text, at) ==
    /\ Len(text) \in Nat
    /\ \A k \in 1 .. m :
        LET n == Len(Tokens(packet[k]))
        IN  /\ at[k] = Start(packet, k) /\ at[k] \in Nat \ {0} /\ n \in Nat
            /\ at[k] + n <= Len(text) + 1
            /\ \A t \in 1 .. n : text[at[k] + t - 1] = Tokens(packet[k])[t]
            /\ k = 1 => at[k] = 1
            /\ k # m => at[k + 1] = at[k] + n
LEMMA TextLaidOut ==
    ASSUME NEW packet, NEW m, Packet(packet, m)
    PROVE  \E at : LaidOut(packet, m, Text(packet), at)
<1> DEFINE q == [j \in 1 .. m |-> Tokens(packet[j])]
           T == UNION {TokensOf(packet[j]) : j \in 1 .. m}
<1>1. m \in Nat /\ DOMAIN packet = 1 .. m
  BY DEF Packet
<1>2. ASSUME NEW j \in 1 .. m PROVE q[j] \in Seq(T)
  <2>1. Tokens(packet[j]) \in Seq(TokensOf(packet[j]))
    BY TokensAreSeq DEF Packet
  <2>2. TokensOf(packet[j]) \subseteq T
    OBVIOUS
  <2>3. Tokens(packet[j]) \in Seq(T)
    <3> DEFINE U == TokensOf(packet[j])
    <3> HIDE DEF T, U
    <3>1. U \subseteq T /\ Tokens(packet[j]) \in Seq(U)
      BY <2>1, <2>2 DEF U
    <3>2. QED
      BY <3>1, SeqMonotonic
  <2>4. QED
    BY <2>3
<1>3. \A j \in 1 .. m : q[j] = Tokens(packet[j])
  OBVIOUS
<1> HIDE DEF q, T
<1>4. PICK g : Joining(g, q, m, T)
  BY <1>1, <1>2, JoiningExists
<1>5. ASSUME NEW k \in 0 .. m
      PROVE  FlattenSeq([j \in 1 .. k |-> Tokens(packet[j])]) = g[k]
  <2>1. \A j \in 1 .. k : j \in 1 .. m
    BY <1>1
  <2>2. [j \in 1 .. k |-> Tokens(packet[j])] = FirstParts(q, k)
    BY <1>3, <2>1 DEF FirstParts
  <2>3. FlattenSeq(FirstParts(q, k)) = g[k]
    BY <1>1, <1>2, <1>4, Flattened
  <2>4. QED
    BY <2>2, <2>3
<1> DEFINE text == Text(packet)
           at == [k \in 1 .. m |-> 1 + Len(g[k - 1])]
<1>6. text = g[m]
  <2>1. text = FlattenSeq([j \in 1 .. m |-> Tokens(packet[j])])
    BY <1>1 DEF Text
  <2>2. m \in 0 .. m
    BY <1>1
  <2>3. QED
    BY <1>5, <2>1, <2>2
<1>7. \A k \in 0 .. m : g[k] \in Seq(T) /\ Len(g[k]) \in Nat
  BY <1>4 DEF Joining
<1>8. Len(text) \in Nat
  <2>1. m \in 0 .. m
    BY <1>1
  <2>2. QED
    BY <1>6, <1>7, <2>1
<1> HIDE DEF text
<1>9. ASSUME NEW k \in 1 .. m
      PROVE  /\ at[k] = Start(packet, k) /\ at[k] \in Nat \ {0} /\ Len(Tokens(packet[k])) \in Nat
             /\ at[k] + Len(Tokens(packet[k])) <= Len(text) + 1
             /\ \A t \in 1 .. Len(Tokens(packet[k])) : text[at[k] + t - 1] = Tokens(packet[k])[t]
             /\ k = 1 => at[k] = 1
             /\ k # m => at[k + 1] = at[k] + Len(Tokens(packet[k]))
  <2> DEFINE r == g[k - 1]
             t == q[k]
             u == g[k]
             n == Len(t)
  <2>1. k - 1 \in 0 .. m /\ k \in 0 .. m
    BY <1>1
  <2>2. u = r \o t /\ r \in Seq(T) /\ t \in Seq(T)
    BY <1>2, <1>4, <1>7, <2>1 DEF Joining
  <2>3. t = Tokens(packet[k])
    BY <1>3
  <2>4. Start(packet, k) = 1 + Len(r)
    BY <1>5, <2>1 DEF Start
  <2>5. at[k] = 1 + Len(r) /\ (k # m => at[k + 1] = 1 + Len(u))
    <3>1. k # m => k + 1 \in 1 .. m /\ (k + 1) - 1 = k
      BY <1>1
    <3>2. QED
      BY <3>1
  <2>6. k = 1 => r = <<>>
    BY <1>4 DEF Joining
  <2>7. Len(u) <= Len(text) /\ \A i \in 1 .. Len(u) : text[i] = u[i]
    <3>1. m - k \in 0 .. m - k /\ k + (m - k) = m
      BY <1>1
    <3>2. \A j \in 0 .. m - k : /\ Len(u) <= Len(g[k + j])
                                /\ \A i \in 1 .. Len(u) : g[k + j][i] = u[i]
      <4>1. AllSeqs(q, m, T)
        BY <1>2 DEF AllSeqs
      <4>2. Kept(g, k, m)
        BY <1>1, <1>4, <2>1, <4>1, PartsKept
      <4>3. QED
        BY <4>2 DEF Kept
    <3>3. QED
      BY <1>6, <3>1, <3>2
  <2> HIDE DEF r, t, u, at
  <2>8. Len(u) = Len(r) + n /\ n \in Nat /\ Len(r) \in Nat
        /\ \A i \in 1 .. Len(r) + n : u[i] = IF i <= Len(r) THEN r[i] ELSE t[i - Len(r)]
    BY <2>2, ConcatProperties
  <2> HIDE DEF n
  <2>9. at[k] \in Nat \ {0} /\ at[k] + n <= Len(text) + 1 /\ (k # m => at[k + 1] = at[k] + n)
    <3> DEFINE x == at[k]
               y == at[k + 1]
               l == Len(r)
    <3>1. x = 1 + l /\ (k # m => y = 1 + (l + n)) /\ l + n <= Len(text)
      BY <2>5, <2>7, <2>8
    <3>2. l \in Nat /\ n \in Nat
      BY <2>8
    <3> HIDE DEF x, y, l
    <3>3. x \in Nat \ {0} /\ x + n <= Len(text) + 1 /\ (k # m => y = x + n)
      BY <1>8, <3>1, <3>2
    <3>4. QED
      BY <3>3 DEF x, y
  <2>10. ASSUME NEW i \in 1 .. n PROVE text[at[k] + i - 1] = t[i]
    <3>1. at[k] + i - 1 \in 1 .. Len(r) + n /\ ~(at[k] + i - 1 <= Len(r))
          /\ (at[k] + i - 1) - Len(r) = i
      <4> DEFINE x == at[k]
                 l == Len(r)
      <4>1. x = 1 + l /\ l \in Nat /\ n \in Nat
        BY <2>5, <2>8
      <4> HIDE DEF x, l
      <4>2. x + i - 1 \in 1 .. l + n /\ ~(x + i - 1 <= l) /\ (x + i - 1) - l = i
        BY <4>1
      <4>3. QED
        BY <4>2 DEF x, l
    <3>2. text[at[k] + i - 1] = u[at[k] + i - 1]
      BY <2>7, <2>8, <3>1
    <3>3. QED
      BY <2>8, <3>1, <3>2
  <2>11. k = 1 => at[k] = 1
    <3>1. Len(<<>>) = 0
      OBVIOUS
    <3>2. QED
      BY <2>5, <2>6, <3>1
  <2>12. n = Len(Tokens(packet[k]))
    BY <2>3 DEF n
  <2>13. QED
    BY <2>3, <2>4, <2>5, <2>8, <2>9, <2>10, <2>11, <2>12
<1> HIDE DEF at
<1>10. LaidOut(packet, m, text, at)
  BY <1>8, <1>9 DEF LaidOut
<1>11. QED
  BY <1>10 DEF text

-----------------------------------------------------------------------------
\* An array of at most sixteen ints is read as it is written.

ReadLoop(out, values) ==
    out = [k \in 0 .. Len(values) |->
            IF k = 0 THEN <<>>
            ELSE IF values[k] = Word \/ Len(out[k - 1]) = MaxNumbers THEN out[k - 1]
            ELSE Append(out[k - 1], IntOf(values[k]))]
Readable(value) == value # Word /\ IntOf(value) = value
LEMMA IntsReadable == \A n : IsInt(n) => IntOf(n) = n
<1>1. \A n : IsInt(n) => n \in Int
  BY WidthAssumption DEF IsInt
<1>2. QED
  BY <1>1, IntKept
LEMMA NextNumber ==
    ASSUME NEW V, NEW values \in Seq(V), NEW k \in 1 .. Len(values)
    PROVE  /\ Append(SubSeq(values, 1, k - 1), values[k]) = SubSeq(values, 1, k)
           /\ Len(SubSeq(values, 1, k - 1)) = k - 1
<1> DEFINE one == 1
           r == SubSeq(values, one, k - 1)
           u == SubSeq(values, one, k)
           n == Len(values)
<1>1. one \in Int /\ k - 1 \in Int /\ k \in Int /\ one = 1 /\ n \in Nat
  OBVIOUS
<1>2. \A i \in 1 .. n : values[i] \in V
  OBVIOUS
<1> HIDE DEF one, n
<1>3. \A i \in one .. k : values[i] \in V
  BY <1>1, <1>2 DEF n
<1>4. \A i \in one .. k - 1 : values[i] \in V
  BY <1>1, <1>3
<1>5. /\ r \in Seq(V) /\ Len(r) = (IF one <= k - 1 THEN (k - 1) - one + 1 ELSE 0)
      /\ \A i \in 1 .. (k - 1) - one + 1 : r[i] = values[one + i - 1]
  BY <1>1, <1>4, SubSeqProperties
<1>6. /\ u \in Seq(V) /\ Len(u) = (IF one <= k THEN k - one + 1 ELSE 0)
      /\ \A i \in 1 .. k - one + 1 : u[i] = values[one + i - 1]
  BY <1>1, <1>3, SubSeqProperties
<1> HIDE DEF r, u
<1>7. Len(r) = k - 1 /\ \A i \in 1 .. k - 1 : r[i] = values[i]
  BY <1>1, <1>5
<1>8. Len(u) = k /\ \A i \in 1 .. k : u[i] = values[i]
  BY <1>1, <1>6
<1> DEFINE a == Append(r, values[k])
<1>9. a \in Seq(V) /\ Len(a) = Len(r) + 1 /\ \A i \in 1 .. Len(r) + 1 : a[i] = IF i = Len(r) + 1 THEN values[k] ELSE r[i]
  <2>1. r \in Seq(V) /\ values[k] \in V
    BY <1>2, <1>5 DEF n
  <2>2. QED
    BY <2>1, AppendProperties
<1> HIDE DEF a
<1>10. Len(a) = k /\ \A i \in 1 .. k : a[i] = values[i]
  BY <1>7, <1>9
<1>11. Len(a) = Len(u) /\ \A i \in 1 .. Len(a) : a[i] = u[i]
  BY <1>8, <1>10
<1>12. a = u
  BY <1>6, <1>9, <1>11, SeqEqual
<1>13. QED
  BY <1>1, <1>7, <1>12 DEF a, r, u

LEMMA NumbersRead ==
    ASSUME NEW V, NEW values \in Seq(V), Len(values) <= MaxNumbers,
           \A i \in 1 .. Len(values) : Readable(values[i])
    PROVE  /\ \E out : ReadLoop(out, values)
           /\ \A out : ReadLoop(out, values) => out[Len(values)] = values
<1> DEFINE n == Len(values)
           Prefix(k) == SubSeq(values, 1, k)
           h == [k \in 0 .. n |-> Prefix(k)]
<1>1. n \in Nat /\ n <= 16 /\ MaxNumbers = 16
  BY DEF MaxNumbers
<1>2. ASSUME NEW k \in 1 .. n
      PROVE  Append(Prefix(k - 1), values[k]) = Prefix(k) /\ Len(Prefix(k - 1)) = k - 1
  BY NextNumber
<1>3. Prefix(0) = <<>>
  BY SubSeqEmpty
<1>4. Prefix(n) = values
  BY SubSeqFull
<1>5. \A k \in 1 .. n : values[k] # Word /\ IntOf(values[k]) = values[k]
  BY DEF Readable
<1> HIDE DEF Prefix
<1>6. ReadLoop(h, values)
  <2>1. ASSUME NEW k \in 0 .. n
        PROVE  h[k] = IF k = 0 THEN <<>>
                      ELSE IF values[k] = Word \/ Len(h[k - 1]) = MaxNumbers THEN h[k - 1]
                      ELSE Append(h[k - 1], IntOf(values[k]))
    <3>1. h[k] = Prefix(k)
      OBVIOUS
    <3>2. CASE k = 0
      BY <1>3, <3>1, <3>2
    <3>3. CASE k # 0
      <4>1. k \in 1 .. n /\ k - 1 \in 0 .. n
        BY <3>3
      <4>2. h[k - 1] = Prefix(k - 1)
        BY <4>1
      <4> HIDE DEF h, n
      <4>3. Append(h[k - 1], values[k]) = Prefix(k) /\ Len(h[k - 1]) = k - 1
        BY <1>2, <4>1, <4>2
      <4>4. k - 1 # MaxNumbers /\ values[k] # Word /\ IntOf(values[k]) = values[k]
        BY <1>1, <1>5, <4>1
      <4>5. QED
        BY <3>1, <3>3, <4>3, <4>4
    <3>4. QED
      BY <3>2, <3>3
  <2>2. h = [k \in 0 .. n |-> h[k]]
    OBVIOUS
  <2> HIDE DEF h
  <2>3. QED
    BY <2>1, <2>2 DEF ReadLoop
<1>7. ASSUME NEW out, ReadLoop(out, values) PROVE out[n] = values
  <2> DEFINE S == {k \in 0 .. n : out[k] = Prefix(k)}
  <2>1. \A k \in 0 .. n : out[k] = (IF k = 0 THEN <<>>
                      ELSE IF values[k] = Word \/ Len(out[k - 1]) = MaxNumbers THEN out[k - 1]
                      ELSE Append(out[k - 1], IntOf(values[k])))
    BY <1>7 DEF ReadLoop
  <2> HIDE DEF n
  <2>2. 0 \in S
    BY <1>1, <1>3, <2>1
  <2>3. ASSUME NEW k \in 0 .. n - 1, k \in S PROVE k + 1 \in S
    <3>1. k + 1 \in 1 .. n /\ (k + 1) - 1 = k /\ k + 1 \in 0 .. n /\ k # 16
      BY <1>1
    <3>2. out[k] = Prefix(k)
      BY <2>3
    <3>3. Append(Prefix(k), values[k + 1]) = Prefix(k + 1) /\ Len(Prefix(k)) = k
      BY <1>2, <3>1
    <3>4. values[k + 1] # Word /\ IntOf(values[k + 1]) = values[k + 1] /\ Len(out[k]) # MaxNumbers
      BY <1>1, <1>5, <3>1, <3>2, <3>3
    <3>5. out[k + 1] = Append(out[k], values[k + 1])
      <4> DEFINE j == k + 1
      <4>1. j \in 0 .. n /\ j # 0 /\ j - 1 = k /\ values[j] # Word /\ IntOf(values[j]) = values[j]
        BY <3>1, <3>4
      <4> HIDE DEF j
      <4>2. out[j] = IF values[j] = Word \/ Len(out[j - 1]) = MaxNumbers THEN out[j - 1]
                     ELSE Append(out[j - 1], IntOf(values[j]))
        BY <2>1, <4>1
      <4>3. out[j] = Append(out[k], values[j])
        BY <3>4, <4>1, <4>2
      <4>4. QED
        BY <4>3 DEF j
    <3>6. QED
      BY <3>1, <3>2, <3>3, <3>5
  <2> HIDE DEF S
  <2>4. 0 .. n \subseteq S
    BY <1>1, <2>2, <2>3, UpTo
  <2>5. n \in S
    BY <1>1, <2>4
  <2>6. QED
    BY <1>4, <2>5 DEF S
<1>8. QED
  BY <1>6, <1>7

LEMMA ArrayRead ==
    ASSUME NEW text, Len(text) \in Nat, NEW s \in Nat \ {0}, s + 1 \in 1 .. Len(text),
           NEW V, NEW values \in Seq(V), Len(values) <= MaxNumbers,
           \A i \in 1 .. Len(values) : Readable(values[i]),
           text[s].tok # "[", text[s + 1] = Array(values)
    PROVE  Find(text, s, "[") = s + 1 /\ json_parse_int_array(text, s) = values
<1> DEFINE f == Find(text, s, "[")
<1>1. FoundAs(f, text, s, "[")
  BY FoundFirst
<1>2. text[s + 1].tok = "[" /\ text[s + 1].values = values
  BY TokenKinds
<1>3. f = s + 1
  <2> HIDE DEF f
  <2>1. s + 1 \in s .. Len(text) /\ s \in s .. Len(text)
    OBVIOUS
  <2>2. f # 0
    <3>1. SUFFICES ASSUME f = 0 PROVE FALSE
      OBVIOUS
    <3>2. ~(f \in s .. Len(text))
      BY <3>1
    <3>3. \A j \in s .. Len(text) : text[j].tok # "["
      BY <1>1, <3>2 DEF FoundAs
    <3>4. QED
      BY <1>2, <2>1, <3>3
  <2>3. f \in s .. Len(text) /\ text[f].tok = "[" /\ \A j \in s .. f - 1 : text[j].tok # "["
    BY <1>1, <2>2 DEF FoundAs
  <2>4. f # s
    BY <2>3
  <2>5. ~(s + 1 \in s .. f - 1)
    BY <1>2, <2>3
  <2>6. QED
    BY <2>3, <2>4, <2>5
<1>4. json_parse_int_array(text, s) = (CHOOSE out : ReadLoop(out, values))[Len(values)]
  <2>1. f # 0 /\ text[f].values = values
    BY <1>2, <1>3
  <2> DEFINE vs == text[f].values
             out == CHOOSE o : ReadLoop(o, vs)
  <2>2. json_parse_int_array(text, s) = IF f = 0 THEN <<>> ELSE out[Len(vs)]
    BY Zenon DEF json_parse_int_array, ReadLoop
  <2> HIDE DEF f
  <2>3. QED
    BY <2>1, <2>2
<1>5. QED
  BY <1>3, <1>4, NumbersRead

-----------------------------------------------------------------------------
\* An instruction as the protocol has it, if its parameters fit.
Fits(ins) ==
    /\ ins.typeFirst \in BOOLEAN
    /\ ins.params \notin {Missing, Word} =>
            Len(ins.params) <= MaxNumbers /\ \E V : ins.params \in Seq(V)

\* What of a packet is carried out as it was written.
CarriedWhole(e, packet, k) ==
    /\ e.at = Start(packet, k) /\ e.array = e.at + 2
    /\ e.type = packet[k].type /\ e.params = packet[k].params
LEMMA RegularCarried ==
    ASSUME NEW packet, NEW m, Packet(packet, m), NEW k \in 1 .. m,
           Fits(packet[k]), Regular(packet[k]), k = 1 \/ ~Takes(packet[k - 1])
    PROVE  \E n \in 1 .. Len(Carried(Text(packet))) : CarriedWhole(Carried(Text(packet))[n], packet, k)
<1> DEFINE text == Text(packet)
           ins == packet[k]
<1>1. PICK at : LaidOut(packet, m, text, at)
  BY TextLaidOut
<1> HIDE DEF text
<1>2. Len(text) \in Nat /\ m \in Nat
  BY <1>1 DEF LaidOut, Packet
<1> DEFINE s == at[k]
<1>3. /\ s = Start(packet, k) /\ s \in Nat \ {0}
      /\ s + Len(Tokens(ins)) <= Len(text) + 1
      /\ \A t \in 1 .. Len(Tokens(ins)) : text[s + t - 1] = Tokens(ins)[t]
      /\ k = 1 => s = 1
  BY <1>1 DEF LaidOut
<1>4. /\ ins.typeFirst /\ ins.type # Word /\ ins.params \notin {Missing, Word}
      /\ IntOf(ins.type) = ins.type
      /\ \A i \in DOMAIN ins.params : Readable(ins.params[i])
  BY IntsReadable DEF Regular, Readable
<1> HIDE DEF s
<1>5. /\ Len(Tokens(ins)) = 3 /\ Tokens(ins)[1] = Type(ins.type)
      /\ Tokens(ins)[2] = Parameters /\ Tokens(ins)[3] = Array(ins.params)
  <2>1. ins.params # Missing /\ ins.params # Word
    BY <1>4
  <2>2. QED
    BY <1>4, <2>1, OrdinaryTokens
<1>6. /\ s \in 1 .. Len(text) /\ s + 1 \in 1 .. Len(text) /\ s + 2 \in 1 .. Len(text)
      /\ text[s] = Type(ins.type) /\ text[s + 1] = Parameters /\ text[s + 2] = Array(ins.params)
  <2> DEFINE tokens == Tokens(ins)
             n == Len(tokens)
  <2> HIDE DEF tokens
  <2>1. s + n <= Len(text) + 1 /\ \A t \in 1 .. n : text[s + t - 1] = tokens[t]
    BY <1>3 DEF tokens
  <2>2. n = 3 /\ tokens[1] = Type(ins.type) /\ tokens[2] = Parameters /\ tokens[3] = Array(ins.params)
    BY <1>5 DEF tokens
  <2> HIDE DEF n, ins
  <2>3. 1 \in 1 .. n /\ 2 \in 1 .. n /\ 3 \in 1 .. n
    BY <2>2
  <2>4. text[s + 1 - 1] = tokens[1] /\ text[s + 2 - 1] = tokens[2] /\ text[s + 3 - 1] = tokens[3]
    BY <2>1, <2>3
  <2>5. s + 1 - 1 = s /\ s + 2 - 1 = s + 1 /\ s + 3 - 1 = s + 2
    BY <1>3
  <2>6. s \in 1 .. Len(text) /\ s + 1 \in 1 .. Len(text) /\ s + 2 \in 1 .. Len(text)
    <3>1. s + 3 <= Len(text) + 1
      BY <2>1, <2>2
    <3>2. QED
      BY <1>2, <1>3, <3>1, SMTT(40)
  <2>7. text[s] = tokens[1] /\ text[s + 1] = tokens[2] /\ text[s + 2] = tokens[3]
    BY <2>4, <2>5, Zenon
  <2>8. QED
    BY <2>2, <2>6, <2>7, Zenon
<1>7. HasOwn(text, s)
  BY <1>6, TokenKinds DEF HasOwn
<1>8. Undisturbed(text, s)
  <2>1. CASE k = 1
    <3>1. s = 1
      BY <1>3, <2>1
    <3>2. QED
      BY <3>1 DEF Undisturbed
  <2>2. CASE k # 1
    <3> DEFINE j == k - 1
               last == packet[j]
               u == at[j]
               tokens == Tokens(last)
               n == Len(tokens)
    <3>1. j \in 1 .. m /\ j # m /\ j + 1 = k
      BY <1>2, <2>2
    <3>2. last.typeFirst /\ last.params # Missing
      <4>1. ~Takes(last)
        BY <2>2
      <4>2. last.typeFirst \in BOOLEAN
        BY <3>1 DEF Packet
      <4>3. QED
        BY <4>1 DEF Takes
    <3>3. /\ n = (IF last.params = Word THEN 2 ELSE 3)
          /\ tokens[2] = Parameters /\ (last.params # Word => tokens[3] = Array(last.params))
      BY <3>2, OrdinaryTokens
    <3>4. /\ u \in Nat \ {0} /\ at[j + 1] = u + n
          /\ \A t \in 1 .. n : text[u + t - 1] = tokens[t]
      BY <1>1, <3>1 DEF LaidOut
    <3>5. s = u + n
      BY <3>1, <3>4 DEF s
    <3> HIDE DEF j, last, u, tokens, n
    <3>6. n \in {2, 3} /\ text[u + 1].tok = "Parameters" /\ (n = 3 => text[u + 2].tok = "[")
      <4>1. 2 \in 1 .. n /\ u + 2 - 1 = u + 1 /\ u + 3 - 1 = u + 2 /\ (n = 3 => 3 \in 1 .. n)
        BY <3>3, <3>4
      <4>2. text[u + 2 - 1] = tokens[2] /\ (n = 3 => text[u + 3 - 1] = tokens[3])
        BY <3>4, <4>1
      <4>3. n = 3 => last.params # Word
        BY <3>3
      <4>4. text[u + 1] = Parameters /\ (n = 3 => text[u + 2] = Array(last.params))
        BY <3>3, <4>1, <4>2, <4>3
      <4>5. n \in {2, 3}
        BY <3>3
      <4>6. QED
        BY <4>4, <4>5, TokenKinds
    <3>7. ASSUME NEW t \in 1 .. s - 1, text[t].tok = "Type"
          PROVE  u + 1 \in t + 1 .. s - 1
      <4>1. t # u + 1
        BY <3>6, <3>7
      <4>2. ~(n = 3 /\ t = u + 2)
        BY <3>6, <3>7
      <4>3. QED
        BY <3>4, <3>5, <3>6, <4>1, <4>2
    <3>8. QED
      BY <3>6, <3>7 DEF Undisturbed
  <2>3. QED
    BY <2>1, <2>2
<1>9. PICK f : Searched(f, text, 1) /\ Carried(text) = f[1]
  BY <1>2, CarriedIsSearched
<1>10. PICK n \in 1 .. Len(f[1]) : f[1][n] = Entry(text, s, s + 1)
  BY <1>2, <1>7, <1>8, <1>9, SearchArrives
<1> DEFINE e == Entry(text, s, s + 1)
<1>11. PICK V : ins.params \in Seq(V)
  BY <1>4 DEF Fits
<1>12. Find(text, s + 1, "[") = s + 2 /\ json_parse_int_array(text, s + 1) = ins.params
  <2> DEFINE values == ins.params
             b == s + 1
  <2>1. values \in Seq(V) /\ Len(values) <= MaxNumbers
    BY <1>4, <1>11 DEF Fits
  <2>2. \A i \in 1 .. Len(values) : Readable(values[i])
    BY <1>4, <2>1
  <2>3. b \in Nat \ {0} /\ b + 1 \in 1 .. Len(text) /\ b + 1 = s + 2
    BY <1>3, <1>6, SMTT(30)
  <2>4. text[b].tok # "["
    BY <1>6, TokenKinds
  <2> HIDE DEF values
  <2>5. text[b + 1] = Array(values)
    BY <1>6, <2>3 DEF values
  <2> HIDE DEF b
  <2>6. Find(text, b, "[") = b + 1 /\ json_parse_int_array(text, b) = values
    BY <1>2, <2>1, <2>2, <2>3, <2>4, <2>5, ArrayRead
  <2>7. QED
    BY <2>3, <2>6 DEF values, b
<1>13. CarriedWhole(e, packet, k)
  <2>1. e.at = s /\ e.array = s + 2 /\ e.params = ins.params /\ e.type = TypeOf(text[s].value)
    BY <1>12 DEF Entry
  <2>2. text[s].value = ins.type
    BY <1>6, TokenKinds
  <2>3. TypeOf(ins.type) = ins.type
    BY <1>4 DEF TypeOf
  <2>4. e.type = ins.type
    BY <2>1, <2>2, <2>3
  <2>5. QED
    BY <1>3, <2>1, <2>4 DEF CarriedWhole
<1>14. QED
  BY <1>9, <1>10, <1>13 DEF text

-----------------------------------------------------------------------------
\* What is carried out of a packet, in the words of DamageIsLocal.
LocalDamage(packet, carried) ==
    LET whole(k) == \E n \in DOMAIN carried : CarriedWhole(carried[n], packet, k)
    IN  /\ \A k \in DOMAIN packet :
                Regular(packet[k]) /\ (k = 1 \/ ~Takes(packet[k - 1])) => whole(k)
        /\ \A n \in DOMAIN carried \ {1} :
                /\ carried[n].at > carried[n - 1].at
                /\ carried[n].array = 0 \/ carried[n].array >= carried[n - 1].array

\* The search through a packet of any length, of instructions with any types and
\* any parameters that fit, damages no more than an instruction and its
\* neighbour, carries none out twice and never goes back; an instruction is the
\* protocol's if its numbers fit an int.
THEOREM EveryPacketLocal ==
    ASSUME NEW packet, NEW m, Packet(packet, m), \A k \in 1 .. m : Fits(packet[k])
    PROVE  LocalDamage(packet, Carried(Text(packet)))
<1> DEFINE text == Text(packet)
           carried == Carried(text)
           M == Len(carried)
<1>1. Len(text) \in Nat
  BY TextLaidOut DEF LaidOut
<1>2. Forward(carried, text, 1)
  <2> HIDE DEF text
  <2>1. PICK f : Searched(f, text, 1) /\ Carried(text) = f[1]
    BY <1>1, CarriedIsSearched
  <2>2. 1 \in 1 .. Len(text) + 1
    BY <1>1
  <2>3. Forward(f[1], text, 1)
    BY <1>1, <2>1, <2>2, SearchGoesForward
  <2>4. QED
    BY <2>1, <2>3
<1>3. /\ carried \in Seq(AllEntries(text))
      /\ \A n \in 2 .. M : Follows(carried[n - 1], carried[n])
  BY <1>2 DEF Forward
<1>4. \A k \in 1 .. m : Regular(packet[k]) /\ (k = 1 \/ ~Takes(packet[k - 1])) =>
            \E n \in 1 .. M : CarriedWhole(carried[n], packet, k)
  BY RegularCarried
<1> HIDE DEF text, carried
<1>5. DOMAIN carried = 1 .. M /\ M \in Nat
  BY <1>3
<1>6. DOMAIN packet = 1 .. m
  BY DEF Packet
<1> HIDE DEF M
<1>7. ASSUME NEW n \in DOMAIN carried \ {1} PROVE Follows(carried[n - 1], carried[n])
  <2>1. n \in 2 .. M
    BY <1>5, <1>7
  <2>2. QED
    BY <1>3, <2>1 DEF M
<1>8. LocalDamage(packet, carried)
  BY <1>4, <1>5, <1>6, <1>7 DEF LocalDamage, Follows
<1>9. QED
  BY <1>8 DEF carried, text

\* The instructions of a run, and the packets they make.
LEMMA InstructionsFit == ASSUME NEW ins \in Instruction PROVE Fits(ins)
<1>1. ins.typeFirst \in BOOLEAN /\ ins.params \in {<<0, 2>>, <<0, Word, 1>>, Word, Missing}
  BY DEF Instruction
<1>2. ASSUME ins.params \notin {Missing, Word}
      PROVE  Len(ins.params) <= MaxNumbers /\ \E V : ins.params \in Seq(V)
  <2> DEFINE V == {0, 1, 2, Word}
  <2>1. <<0, 2>> \in Seq(V) /\ <<0, Word, 1>> \in Seq(V)
    OBVIOUS
  <2>2. Len(<<0, 2>>) = 2 /\ Len(<<0, Word, 1>>) = 3
    OBVIOUS
  <2>3. ins.params = <<0, 2>> \/ ins.params = <<0, Word, 1>>
    BY <1>1, <1>2
  <2>4. Len(ins.params) \in {2, 3} /\ ins.params \in Seq(V)
    BY <2>1, <2>2, <2>3, Zenon
  <2>5. Len(ins.params) <= MaxNumbers
    <3> DEFINE n == Len(ins.params)
    <3>1. n \in {2, 3}
      BY <2>4
    <3> HIDE DEF n
    <3>2. n <= 16
      BY <3>1
    <3>3. QED
      BY <3>2 DEF n, MaxNumbers
  <2>6. QED
    BY <2>4, <2>5
<1>3. QED
  BY <1>1, <1>2 DEF Fits
LEMMA PacketsOfInstructions ==
    ASSUME NEW packet \in BoundedSeq(Instruction, MaxPacket)
    PROVE  \E m : Packet(packet, m) /\ \A k \in 1 .. m : Fits(packet[k])
<1>1. PICK m \in 0 .. MaxPacket : packet \in [1 .. m -> Instruction]
  BY DEF BoundedSeq, SeqOf
<1>2. m \in Nat
  BY LengthAssumption
<1>3. DOMAIN packet = 1 .. m /\ \A k \in 1 .. m : packet[k] \in Instruction
  BY <1>1
<1>4. \A k \in 1 .. m : Fits(packet[k])
  BY <1>3, InstructionsFit
<1>5. Packet(packet, m)
  BY <1>2, <1>3, <1>4 DEF Packet, Fits
<1>6. QED
  BY <1>4, <1>5

\* The search through a packet damages no more than an instruction and its
\* neighbour, for packets of any length.
THEOREM DamageIsLocalCorrect == Spec => []DamageIsLocal
<1>1. Init => DamageIsLocal
  BY DEF Init, DamageIsLocal, Is
<1>2. DamageIsLocal /\ [Next]_vars => DamageIsLocal'
  <2> SUFFICES ASSUME DamageIsLocal, [Next]_vars PROVE DamageIsLocal'
    OBVIOUS
  <2>1. CASE ScanPacket
    <3>1. PICK packet \in BoundedSeq(Instruction, MaxPacket) :
            Convert([kind |-> "packet", packet |-> packet], Carried(Text(packet)))
      BY <2>1 DEF ScanPacket
    <3> DEFINE carried == Carried(Text(packet))
    <3>2. given'.packet = packet /\ got' = carried
      BY <3>1 DEF Convert
    <3>3. LocalDamage(packet, carried)
      BY PacketsOfInstructions, EveryPacketLocal
    <3> HIDE DEF carried
    <3>4. QED
      BY <3>2, <3>3, Zenon DEF DamageIsLocal, LocalDamage, CarriedWhole
  <2>2. CASE Next /\ ~ScanPacket
    BY <2>2, OneConversion DEF Converted, DamageIsLocal, Is
  <2>3. CASE UNCHANGED vars
    BY <2>3 DEF vars, DamageIsLocal, Is
  <2>4. QED
    BY <2>1, <2>2, <2>3
<1>3. QED
  BY <1>1, <1>2, PTL DEF Spec
=============================================================================
