----------------------------- MODULE InputReport -----------------------------
(***************************************************************************)
(* Input reports: ds_input_parse (src/input.c) and ds_read_input           *)
(* (src/dualsense.c) turn the bytes a controller sends into its state.     *)
(* A 32-bit timestamp is its low and high half.  The reference is an       *)
(* encoder: the controller, as the layout in input.c describes it.         *)
(***************************************************************************)
EXTENDS Integers, Sequences

CONSTANT ReadFails  \* read() returned an error, and so no bytes
ASSUME ReadFailsAssumption == ReadFails \notin Seq(Int)

le16(d, i) == d[i] + 256 * d[i + 1]
\* The cast to int16_t, and without it.
Unsigned16(n) == n
Signed16(n) == IF n >= 32768 THEN n - 65536 ELSE n

\* The buttons of a byte from its bit lo upwards.
Pressed(byte, lo, names) == {names[i] : i \in {j \in DOMAIN names :
                                                  (byte \div 2 ^ (lo + j - 1)) % 2 = 1}}

parse_touch(d, i) ==
    [active |-> d[i] < 128, id |-> d[i] % 128,
     x |-> d[i + 1] + 256 * (d[i + 2] % 16), y |-> (d[i + 2] \div 16) + 16 * d[i + 3]]

Vector(d, i) == [k \in 1 .. 3 |-> Signed16(le16(d, i + 2 * (k - 1)))]

\* memset: what a simple report does not carry is zero.
Finger0 == [active |-> FALSE, id |-> 0, x |-> 0, y |-> 0]
ZeroState ==
    [lx |-> 0, ly |-> 0, rx |-> 0, ry |-> 0, l2 |-> 0, r2 |-> 0, seq |-> 0, dpad |-> 0,
     pressed |-> {}, timestamp |-> <<0, 0>>, gyro |-> <<0, 0, 0>>, accel |-> <<0, 0, 0>>,
     touch |-> <<Finger0, Finger0>>, battery_level |-> 0, battery_charging |-> FALSE]

ParseSimple(d) ==
    [ZeroState EXCEPT !.lx = d[0], !.ly = d[1], !.rx = d[2], !.ry = d[3],
                      !.dpad = d[4] % 16, !.l2 = d[7], !.r2 = d[8]]
ParseFull(d) ==
    [lx |-> d[0], ly |-> d[1], rx |-> d[2], ry |-> d[3], l2 |-> d[4], r2 |-> d[5],
     seq |-> d[6], dpad |-> d[7] % 16,
     pressed |->
        Pressed(d[7], 4, <<"square", "cross", "circle", "triangle">>)
        \cup Pressed(d[8], 0, <<"l1", "r1", "l2_btn", "r2_btn", "create", "options", "l3", "r3">>)
        \cup Pressed(d[9], 0, <<"ps", "touchpad_btn", "mute">>),
     timestamp |-> <<le16(d, 10), le16(d, 12)>>,
     gyro |-> Vector(d, 14), accel |-> Vector(d, 20),
     touch |-> <<parse_touch(d, 32), parse_touch(d, 36)>>,
     battery_level |-> IF d[52] % 16 > 10 THEN 100 ELSE 10 * (d[52] % 16),
     battery_charging |-> d[52] \div 16 \in {1, 2}]

Skip(report, n) == [i \in 0 .. Len(report) - 1 - n |-> report[i + n + 1]]
Parsed(state) == [ok |-> TRUE, out |-> state]
Rejected == [ok |-> FALSE, out |-> ZeroState]
ds_input_parse(report) ==
    LET n == Len(report)
    IN  IF n >= 78 /\ report[1] = 49 THEN Parsed(ParseFull(Skip(report, 2)))
        ELSE IF n >= 64 /\ report[1] = 1 THEN Parsed(ParseFull(Skip(report, 1)))
        ELSE IF n >= 10 /\ report[1] = 1 THEN Parsed(ParseSimple(Skip(report, 1)))
        ELSE Rejected

\* What read() returned: an error, nothing or a report.  The caller's state is
\* written only on success.
ds_read_input(read, out) ==
    IF read = ReadFails THEN [ret |-> "-errno", out |-> out]
    ELSE IF read = <<>> THEN [ret |-> "-EIO", out |-> out]
    ELSE LET parsed == ds_input_parse(read)
         IN  IF parsed.ok THEN [ret |-> "0", out |-> parsed.out]
                          ELSE [ret |-> "-EINVAL", out |-> out]

\* The one-bit fields of ds_input_state_t fill two bytes from bit 0 upwards, and
\* bindings/python/dualsense.py takes them out again by masks of its own.
FlagFields ==
    <<<<"square", "cross", "circle", "triangle", "l1", "r1", "l2_btn", "r2_btn">>,
      <<"create", "options", "ps", "touchpad_btn", "mute", "l3", "r3", "battery_charging">>>>
FlagByte(set, names) ==
    LET bits[i \in 1 .. 9] ==
            IF i = 9 THEN 0 ELSE (IF names[i] \in set THEN 1 ELSE 0) + 2 * bits[i + 1]
    IN  bits[1]
PythonMasks ==
    <<[square |-> 1, cross |-> 2, circle |-> 4, triangle |-> 8,
       l1 |-> 16, r1 |-> 32, l2_btn |-> 64, r2_btn |-> 128],
      [create |-> 1, options |-> 2, ps |-> 4, touchpad_btn |-> 8,
       mute |-> 16, l3 |-> 32, r3 |-> 64, battery_charging |-> 128]>>
\* The flags that are set, as Python sees them.
InPython(state) ==
    LET set == state.pressed \cup (IF state.battery_charging THEN {"battery_charging"} ELSE {})
        byte(k) == FlagByte(set, FlagFields[k])
    IN  UNION {{f \in DOMAIN PythonMasks[k] : (byte(k) \div PythonMasks[k][f]) % 2 = 1} :
                k \in 1 .. 2}

-----------------------------------------------------------------------------
\* The controller.  Button bytes list their buttons from bit 7 downwards.

FaceByte == <<"triangle", "circle", "cross", "square">>
ShoulderByte == <<"r3", "l3", "options", "create", "r2_btn", "l2_btn", "r1", "l1">>
CentreByte == <<"mute", "touchpad_btn", "ps">>
ButtonBits(pressed, names) ==
    LET n == Len(names)
        sum[i \in 0 .. n] ==
            IF i = 0 THEN 0 ELSE 2 * sum[i - 1] + (IF names[i] \in pressed THEN 1 ELSE 0)
    IN  sum[n]

Bytes16(n) == <<n % 256, (n \div 256) % 256>>
BytesVector(v) == Bytes16(v[1]) \o Bytes16(v[2]) \o Bytes16(v[3])
BytesTouch(t) ==
    <<(IF t.active THEN 0 ELSE 128) + t.id, t.x % 256, (t.x \div 256) + 16 * (t.y % 16),
      t.y \div 16>>
Unused(n) == [i \in 1 .. n |-> 255]

\* charge: the level and status the controller has.
FullData(s, charge) ==
       <<s.lx, s.ly, s.rx, s.ry, s.l2, s.r2, s.seq, s.dpad + 16 * ButtonBits(s.pressed, FaceByte),
         ButtonBits(s.pressed, ShoulderByte), 248 + ButtonBits(s.pressed, CentreByte)>>
    \o Bytes16(s.timestamp[1]) \o Bytes16(s.timestamp[2])
    \o BytesVector(s.gyro) \o BytesVector(s.accel) \o Unused(6)
    \o BytesTouch(s.touch[1]) \o BytesTouch(s.touch[2]) \o Unused(12)
    \o <<charge.level + 16 * charge.status>>
SentReport(s, charge, form) ==
    CASE form = "usb" -> <<1>> \o FullData(s, charge) \o Unused(10)
      [] form = "bt" -> <<49, 255>> \o FullData(s, charge) \o Unused(23)
      [] form = "simple" ->
            <<1, s.lx, s.ly, s.rx, s.ry, s.dpad + 16 * ButtonBits(s.pressed, FaceByte),
              ButtonBits(s.pressed, ShoulderByte), 248 + ButtonBits(s.pressed, CentreByte), s.l2, s.r2>>

\* A simple report carries sticks, triggers and the pad.
Visible(s, form) ==
    IF form = "simple"
    THEN [ZeroState EXCEPT !.lx = s.lx, !.ly = s.ly, !.rx = s.rx, !.ry = s.ry,
                           !.dpad = s.dpad, !.l2 = s.l2, !.r2 = s.r2]
    ELSE s
=============================================================================
