---------------------------- MODULE TriggerEffects ----------------------------
(***************************************************************************)
(* The trigger effect encoders of src/triggers.c.  Each ds_effect_* either *)
(* refuses its parameters or overwrites the 11 bytes the controller gets:  *)
(* a mode and ten parameters.  Zone effects carry a 16-bit mask of zones   *)
(* and three bits for each zone packed across four bytes.                  *)
(*                                                                         *)
(* The reference is a reader: what the controller makes of the 11 bytes,   *)
(* zone by zone, next to what the caller asked for.                        *)
(***************************************************************************)
EXTENDS Integers, Sequences

CONSTANTS
    Position,       \* bound: the positions tried, all of 0 .. 255 in the code
    Strength,       \* bound: the strengths and amplitudes tried
    Foot,           \* bound: the feet and machine amplitudes tried
    Frequency       \* bound: the frequencies and periods tried

ASSUME BytesAssumption ==
    Position \cup Strength \cup Foot \cup Frequency \subseteq 0 .. 255

Zone == 0 .. 9
Effect == [0 .. 10 -> 0 .. 255]

ModeOff == 5        \* 0x05
ModeFeedback == 33  \* 0x21
ModeBow == 34       \* 0x22
ModeGalloping == 35 \* 0x23
ModeWeapon == 37    \* 0x25
ModeVibration == 38 \* 0x26
ModeMachine == 39   \* 0x27

-----------------------------------------------------------------------------
\* The encoders.  d is what dst points to before the call.

\* clear(), then the mode and the first parameters.
EffectBytes(mode, p) ==
    [i \in 0 .. 10 |-> IF i = 0 THEN mode ELSE IF i \in DOMAIN p THEN p[i] ELSE 0]

Accept(e) == [ok |-> TRUE, dst |-> e]
Refuse(d) == [ok |-> FALSE, dst |-> d]
Off == Accept(EffectBytes(ModeOff, <<>>))

\* A loop over the zones that adds up.
OverZones(term) ==
    LET upTo[i \in 0 .. 10] == IF i = 0 THEN 0 ELSE upTo[i - 1] + term[i - 1]
    IN  upTo[10]
Mask(zones) == OverZones([z \in Zone |-> IF z \in zones THEN 2 ^ z ELSE 0])
\* Three bits a zone; one bit less makes neighbours overlap.
PackTight(field) == OverZones([z \in Zone |-> IF z \in DOMAIN field THEN field[z] * 4 ^ z ELSE 0])
Pack(field) == OverZones([z \in Zone |-> IF z \in DOMAIN field THEN field[z] * 8 ^ z ELSE 0])
OctetUnmasked(n, k) == n \div 256 ^ k
Octet(n, k) == (n \div 256 ^ k) % 256

MaskBytes(zones) == <<Octet(Mask(zones), 0), Octet(Mask(zones), 1)>>
ZoneBytes(mode, field) ==
    EffectBytes(mode, MaskBytes(DOMAIN field) \o [k \in 1 .. 4 |-> Octet(Pack(field), k - 1)])

\* The zones with a strength, and what is packed for them.
Forces(s) == [z \in {z \in Zone : s[z] > 0} |-> s[z] - 1]

Feedback(d, pos, str) ==
    IF pos > 9 \/ str > 8 THEN Refuse(d)
    ELSE IF str = 0 THEN Off
    ELSE Accept(ZoneBytes(ModeFeedback, [z \in pos .. 9 |-> str - 1]))

FeedbackMulti(d, s) ==
    IF \E z \in Zone : s[z] > 8 THEN Refuse(d)
    ELSE IF \A z \in Zone : s[z] = 0 THEN Off
    ELSE Accept(ZoneBytes(ModeFeedback, Forces(s)))

\* roundf of n / m: the floats of the code agree with it for every input it accepts.
RoundedDown(n, m) == n \div m
Rounded(n, m) == (2 * n + m) \div (2 * m)

SlopeFeedback(d, startPos, endPos, startStr, endStr) ==
    LET run == endPos - startPos
    IN  IF startPos > 8 \/ endPos > 9 \/ endPos <= startPos THEN Refuse(d)
        ELSE IF startStr \notin 1 .. 8 \/ endStr \notin 1 .. 8 THEN Refuse(d)
        ELSE FeedbackMulti(d,
            [z \in Zone |->
                IF z < startPos THEN 0
                ELSE IF z > endPos THEN endStr
                ELSE Rounded(startStr * run + (endStr - startStr) * (z - startPos), run)])

Weapon(d, start, end, str) ==
    IF start < 2 \/ start > 7 \/ end > 8 \/ end <= start \/ str > 8 THEN Refuse(d)
    ELSE IF str = 0 THEN Off
    ELSE Accept(EffectBytes(ModeWeapon, MaskBytes({start, end}) \o <<str - 1>>))

Vibration(d, pos, amp, freq) ==
    IF pos > 9 \/ amp > 8 THEN Refuse(d)
    ELSE IF amp = 0 \/ freq = 0 THEN Off
    ELSE Accept([ZoneBytes(ModeVibration, [z \in pos .. 9 |-> amp - 1]) EXCEPT ![9] = freq])

VibrationMulti(d, freq, a) ==
    IF freq = 0 THEN Off
    ELSE IF \E z \in Zone : a[z] > 8 THEN Refuse(d)
    ELSE IF \A z \in Zone : a[z] = 0 THEN Off
    ELSE Accept([ZoneBytes(ModeVibration, Forces(a)) EXCEPT ![9] = freq])

Bow(d, start, end, str, snap) ==
    LET forces == (str - 1) + 8 * (snap - 1)
    IN  IF start > 8 \/ end > 8 \/ start >= end \/ str > 8 \/ snap > 8 THEN Refuse(d)
        ELSE IF str = 0 \/ snap = 0 THEN Off
        ELSE Accept(EffectBytes(ModeBow,
                MaskBytes({start, end}) \o <<Octet(forces, 0), Octet(forces, 1)>>))

Galloping(d, start, end, first, second, freq) ==
    IF start > 8 \/ end > 9 \/ start >= end THEN Refuse(d)
    ELSE IF first > 6 \/ second > 7 \/ first >= second THEN Refuse(d)
    ELSE IF freq = 0 THEN Off
    ELSE Accept(EffectBytes(ModeGalloping,
            MaskBytes({start, end}) \o <<second + 8 * first, freq>>))

Machine(d, start, end, ampA, ampB, freq, period) ==
    IF start > 8 \/ end > 9 \/ end <= start \/ ampA > 7 \/ ampB > 7 THEN Refuse(d)
    ELSE IF freq = 0 THEN Off
    ELSE Accept(EffectBytes(ModeMachine,
            MaskBytes({start, end}) \o <<ampA + 8 * ampB, freq, period>>))

-----------------------------------------------------------------------------
\* The calls, by the side's trigger buffer they act on.

\* Arrays of ten strengths: one value on an interval of zones, another elsewhere.
Arrays ==
    {[z \in Zone |-> IF z \in lo .. hi THEN v ELSE w] : lo \in Zone, hi \in Zone,
                                                        v \in Strength, w \in Strength}
NoArray == <<>>

\* p: the scalar parameters in order; a: the array, if the call has one.
Request(op, ps, as) == [op : {op}, p : ps, a : as]
Requests ==
         Request("off", {<<>>}, {NoArray})
    \cup Request("feedback", Position \X Strength, {NoArray})
    \cup Request("feedback_multi", {<<>>}, Arrays)
    \cup Request("slope_feedback", Position \X Position \X Strength \X Strength, {NoArray})
    \cup Request("weapon", Position \X Position \X Strength, {NoArray})
    \cup Request("vibration", Position \X Strength \X Frequency, {NoArray})
    \cup Request("vibration_multi", {<<f>> : f \in Frequency}, Arrays)
    \cup Request("bow", Position \X Position \X Strength \X Strength, {NoArray})
    \cup Request("galloping", Position \X Position \X Foot \X Foot \X Frequency, {NoArray})
    \cup Request("machine",
                 Position \X Position \X Foot \X Foot \X Frequency \X Frequency, {NoArray})
OffCall == [op |-> "off", p |-> <<>>, a |-> NoArray]
NoCall == [op |-> "none", p |-> <<>>, a |-> NoArray]

\* ds_effect_raw takes anything.
Raw(mode, a) == EffectBytes(mode, [i \in 1 .. 10 |-> a[i - 1]])
Result(c, d) ==
    LET p == c.p
    IN  CASE c.op = "off" -> Off
          [] c.op = "feedback" -> Feedback(d, p[1], p[2])
          [] c.op = "feedback_multi" -> FeedbackMulti(d, c.a)
          [] c.op = "slope_feedback" -> SlopeFeedback(d, p[1], p[2], p[3], p[4])
          [] c.op = "weapon" -> Weapon(d, p[1], p[2], p[3])
          [] c.op = "vibration" -> Vibration(d, p[1], p[2], p[3])
          [] c.op = "vibration_multi" -> VibrationMulti(d, p[1], c.a)
          [] c.op = "bow" -> Bow(d, p[1], p[2], p[3], p[4])
          [] c.op = "galloping" -> Galloping(d, p[1], p[2], p[3], p[4], p[5])
          [] c.op = "machine" -> Machine(d, p[1], p[2], p[3], p[4], p[5], p[6])
          [] c.op = "raw" -> Accept(Raw(p[1], c.a))

-----------------------------------------------------------------------------
\* What the controller reads.

ReadZones(e) == {z \in 0 .. 15 : ((e[1] + 256 * e[2]) \div 2 ^ z) % 2 = 1}
ReadField(e, z) == ((e[3] + 256 * (e[4] + 256 * (e[5] + 256 * e[6]))) \div 8 ^ z) % 8
ReadProfile(e) ==
    [z \in Zone |-> IF z \in ReadZones(e) THEN 1 + ReadField(e, z) ELSE 0]

Read(e) ==
    LET m == e[0]
    IN  CASE m = ModeFeedback -> [effect |-> "feedback", at |-> ReadProfile(e)]
          [] m = ModeVibration -> [effect |-> "vibration", at |-> ReadProfile(e), freq |-> e[9]]
          [] m = ModeWeapon -> [effect |-> "weapon", zones |-> ReadZones(e), force |-> e[3] + 1]
          [] m = ModeBow -> [effect |-> "bow", zones |-> ReadZones(e),
                             force |-> 1 + (e[3] % 8), snap |-> 1 + (e[3] \div 8)]
          [] m = ModeGalloping -> [effect |-> "galloping", zones |-> ReadZones(e),
                                   feet |-> <<e[3] \div 8, e[3] % 8>>, freq |-> e[4]]
          [] m = ModeMachine -> [effect |-> "machine", zones |-> ReadZones(e),
                                 amps |-> <<e[3] % 8, e[3] \div 8>>, freq |-> e[4], period |-> e[5]]
          [] OTHER -> [effect |-> "off"]

\* What a call other than a slope asks for.
FromZone(pos, v) == [z \in Zone |-> IF z >= pos THEN v ELSE 0]
Silent == [effect |-> "off"]
Wanted(c) ==
    LET p == c.p
    IN  CASE c.op = "feedback" -> [effect |-> "feedback", at |-> FromZone(p[1], p[2])]
          [] c.op = "feedback_multi" -> [effect |-> "feedback", at |-> c.a]
          [] c.op = "vibration" ->
                IF p[3] = 0 THEN Silent
                ELSE [effect |-> "vibration", at |-> FromZone(p[1], p[2]), freq |-> p[3]]
          [] c.op = "vibration_multi" ->
                IF p[1] = 0 THEN Silent ELSE [effect |-> "vibration", at |-> c.a, freq |-> p[1]]
          [] c.op = "weapon" ->
                IF p[3] = 0 THEN Silent
                ELSE [effect |-> "weapon", zones |-> {p[1], p[2]}, force |-> p[3]]
          [] c.op = "bow" ->
                IF 0 \in {p[3], p[4]} THEN Silent
                ELSE [effect |-> "bow", zones |-> {p[1], p[2]}, force |-> p[3], snap |-> p[4]]
          [] c.op = "galloping" ->
                IF p[5] = 0 THEN Silent
                ELSE [effect |-> "galloping", zones |-> {p[1], p[2]},
                      feet |-> <<p[3], p[4]>>, freq |-> p[5]]
          [] c.op = "machine" ->
                IF p[5] = 0 THEN Silent
                ELSE [effect |-> "machine", zones |-> {p[1], p[2]},
                      amps |-> <<p[3], p[4]>>, freq |-> p[5], period |-> p[6]]
          [] OTHER -> Silent
\* No zone with a strength is no effect.
WantedEffect(c) ==
    LET w == Wanted(c)
    IN  IF "at" \in DOMAIN w /\ \A z \in Zone : w.at[z] = 0 THEN Silent ELSE w
=============================================================================
