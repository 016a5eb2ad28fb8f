----------------------------- MODULE OutputReport -----------------------------
(***************************************************************************)
(* The bytes ds_send writes (src/dualsense.c): a Bluetooth report of 78    *)
(* bytes with tag and checksum, or a USB report of 64, from two tables of  *)
(* offsets kept by hand.                                                   *)
(***************************************************************************)
EXTENDS Checksums

Groups == {"motors", "r_trigger", "l_trigger", "lightbar", "player_leds", "mute_led"}

BtOffset ==
    [flags0 |-> 3, flags1 |-> 4, motor_right |-> 5, motor_left |-> 6, mute_led |-> 11,
     r_trigger |-> 13, l_trigger |-> 24, led_mode |-> 44, flag2 |-> 45,
     player_leds |-> 46, lightbar_r |-> 47, lightbar_g |-> 48, lightbar_b |-> 49]
UsbOffset ==
    [flags0 |-> 1, flags1 |-> 2, motor_right |-> 3, motor_left |-> 4, mute_led |-> 9,
     r_trigger |-> 11, l_trigger |-> 22, led_mode |-> 42, flag2 |-> 43,
     player_leds |-> 44, lightbar_r |-> 45, lightbar_g |-> 46, lightbar_b |-> 47]

If(dirty, group, flag) == IF group \in dirty THEN flag ELSE 0
\* One flag for both triggers, as dualsensectl has it.
Flags0OneTrigger(dirty) ==
    If(dirty, "motors", 3) + (IF dirty \cap {"r_trigger", "l_trigger"} # {} THEN 4 ELSE 0)
Flags0(dirty) == If(dirty, "motors", 3) + If(dirty, "r_trigger", 4) + If(dirty, "l_trigger", 8)
Flags1(dirty) ==
    If(dirty, "lightbar", 4) + If(dirty, "player_leds", 16) + If(dirty, "mute_led", 1)
Flags2(dirty) == If(dirty, "motors", 4)

\* A group's bytes go out whether it is dirty or not; the flags say which count.
Body(dev, at, length) ==
    [i \in 0 .. length - 1 |->
        CASE i = at.flags0 -> Flags0(dev.dirty)
          [] i = at.flags1 -> Flags1(dev.dirty)
          [] i = at.motor_right -> dev.motor_right
          [] i = at.motor_left -> dev.motor_left
          [] i = at.mute_led -> dev.mute_led
          [] i \in at.r_trigger .. at.r_trigger + 10 -> dev.r_trigger[i - at.r_trigger]
          [] i \in at.l_trigger .. at.l_trigger + 10 -> dev.l_trigger[i - at.l_trigger]
          [] i = at.led_mode -> 2
          [] i = at.flag2 -> Flags2(dev.dirty)
          [] i = at.player_leds -> dev.player_leds
          [] i = at.lightbar_r -> dev.lightbar[1]
          [] i = at.lightbar_g -> dev.lightbar[2]
          [] i = at.lightbar_b -> dev.lightbar[3]
          [] OTHER -> 0]

UsbReport(dev) == [Body(dev, UsbOffset, 64) EXCEPT ![0] = 2]

\* The checksum stands for the 74 bytes before it.
WithChecksum(r) ==
    LET stored == Stored(ds_crc32([i \in 1 .. 74 |-> r[i - 1]]))
    IN  [i \in 0 .. 77 |-> IF i >= 74 THEN stored[i - 73] ELSE r[i]]
BtReport(dev) ==
    WithChecksum([Body(dev, BtOffset, 78) EXCEPT ![0] = 49, ![1] = 16 * (dev.seq % 16),
                                                 ![2] = 16])

Report(dev) == IF dev.conn = "bt" THEN BtReport(dev) ELSE UsbReport(dev)

-----------------------------------------------------------------------------
\* The controller: the part both reports share starts at byte 3 or 1.

Marked(r, base) ==
    LET set(i, flag) == (r[base + i] \div flag) % 2 = 1
    IN  {g \in Groups :
            \/ g = "motors" /\ set(0, 1) /\ set(0, 2) /\ set(42, 4)
            \/ g = "r_trigger" /\ set(0, 4)
            \/ g = "l_trigger" /\ set(0, 8)
            \/ g = "lightbar" /\ set(1, 4)
            \/ g = "player_leds" /\ set(1, 16)
            \/ g = "mute_led" /\ set(1, 1)}

ReadReport(r) ==
    LET base == IF r[0] = 49 THEN 3 ELSE 1
    IN  [marked |-> Marked(r, base), motor_right |-> r[base + 2], motor_left |-> r[base + 3],
         mute_led |-> r[base + 8], r_trigger |-> [i \in 0 .. 10 |-> r[base + 10 + i]],
         l_trigger |-> [i \in 0 .. 10 |-> r[base + 21 + i]],
         player_leds |-> r[base + 43], lightbar |-> [i \in 1 .. 3 |-> r[base + 43 + i]]]

\* A Bluetooth report is heard only if its checksum holds; its tag is the
\* upper half of the second byte.
Heard(r) ==
    r[0] = 49 => Confirmed(<<Preamble>> \o [i \in 1 .. 78 |-> r[i - 1]])
=============================================================================
