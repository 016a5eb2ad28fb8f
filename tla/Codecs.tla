------------------------------- MODULE Codecs -------------------------------
(***************************************************************************)
(* The conversions of the program, each a function of its input: a user's  *)
(* words to trigger calls, calls to effect bytes, a handle to a report     *)
(* with its checksum, a packet's text to instructions, input bytes to a    *)
(* state.  A behaviour is one conversion.                                  *)
(***************************************************************************)
EXTENDS FrontEnds, OutputReport, InputReport, DsxText

CONSTANTS
    Number,         \* bound: the numbers users write
    Controllers,    \* ndevices
    MessageByte,    \* bound: the bytes of the messages that are checksummed
    MaxMessage,     \* bound: their length
    MaxPacket       \* bound: the instructions of a packet

ASSUME NumberAssumption == Number \subseteq Int /\ MessageByte \subseteq 0 .. 255
ASSUME ControllersAssumption == Controllers \in Nat \ {0}
ASSUME LengthAssumption == MaxMessage \in Nat /\ MaxPacket \in Nat

VARIABLES
    given,          \* what is converted, a record with its kind; at first only chosen
    got             \* what it became

vars == <<given, got>>

Conversion ==
    {"effect", "order", "preset", "dsctl", "packet", "report", "checksum", "state", "battery",
     "other"}
Nothing == [kind |-> "nothing"]
Init == given \in [kind : {"nothing"}, next : Conversion] /\ got = Nothing
Chosen(conversion) == given.kind = "nothing" /\ given.next = conversion

Convert(input, output) ==
    /\ given' = input
    /\ got' = output

-----------------------------------------------------------------------------
\* ds_trigger_*: on a fresh handle, or after DSX's CHOPPY preset.
Encode ==
    \E c \in Requests, before \in {Off.dst, Result(Choppy, Off.dst).dst} :
        Convert([kind |-> "effect", call |-> c, before |-> before], Result(c, before))

\* The same order through each front end that has it; the fields of a line and
\* the controller turn together.  One index is that of no controller but becomes
\* one when it is cut to an int.
DeviceNumber(turn) ==
    LET k == turn % (Controllers + 3) IN IF k > Controllers + 1 THEN 2 * IntHalf + 1 ELSE k - 1
Scalars == [feedback |-> 2, weapon |-> 3, vibration |-> 3, bow |-> 4, galloping |-> 5,
            machine |-> 6]
NumberArrays ==
    {[z \in Zone |-> IF z = k THEN n ELSE m] : k \in Zone, n \in Number, m \in Number}
TriggerCalls ==
         {OffCall}
    \cup (UNION {Request(op, TupleOf(Number, Scalars[op]), {NoArray}) : op \in DOMAIN Scalars})
    \cup Request("slope_feedback", TupleOf(Number, 4), {NoArray})
    \cup Request("feedback_multi", {<<>>}, NumberArrays)
    \cup Request("vibration_multi", TupleOf(Number, 1), NumberArrays)
PlainCalls ==
         Request("rumble", TupleOf(Number, 2), {NoArray})
    \cup Request("lightbar", TupleOf(Number, 3), {NoArray})
    \cup Request("player_leds", TupleOf(Number \cup 0 .. 31, 1), {NoArray})
    \cup Request("mute_led", TupleOf(0 .. 2, 1), {NoArray})

Byte == 0 .. 255
ByteCall(c) == ToSet(c.p) \subseteq Byte /\ (c.a = NoArray \/ \A z \in Zone : c.a[z] \in Byte)
LongCall(c) ==
    /\ \A n \in ToSet(c.p) : IsLong(n)
    /\ c.a = NoArray \/ \A z \in Zone : IsLong(c.a[z])

Offers(c) ==
    LET widgets == c.op \in DOMAIN Sliders
        words == widgets \/ c.op = "mute_led"
    IN  {f \in {"gui", "native", "dsctl", "dsx"} :
            CASE f = "gui" -> widgets
              [] f = "native" -> words
              [] f = "dsctl" -> words /\ (c.op = "lightbar" => ByteCall(c))
              [] f = "dsx" -> c.op # "rumble" /\ (c.op = "player_leds" => c.p[1] \in 0 .. 31)}

Through(f, order, turn) ==
    CASE f = "gui" -> native_handle_command(GuiLine(order), Controllers)
      [] f = "native" -> native_handle_command(NativeLine(order, turn), Controllers)
      [] f = "dsctl" ->
            dsctl_command(IF order.side = NoSide THEN order.call.op ELSE "trigger", DsctlArgs(order))
      [] f = "dsx" ->
            LET ins == DsxForm(order) IN dsx_instruction(ins.type, Ints(ins.params), Controllers)

Ask ==
    \E c \in TriggerCalls \cup PlainCalls, turn \in 0 .. 9 :
        \E side \in IF c \in TriggerCalls THEN {"left", "right"} ELSE {NoSide} :
            LET order == Order(DeviceNumber(turn), side, c)
            IN  Convert([kind |-> "order", order |-> order, turn |-> turn],
                        [f \in Offers(c) |-> Through(f, order, turn)])

\* A DSX mode that needs no numbers, or gets one; and a numbered pattern of LEDs.
PresetInstruction ==
    [type : {1}, params : {<<0, 1, m[1]>> \o m[2] : m \in (0 .. 27) \X BoundedSeq(Number, 1)}]
    \cup [type : {6}, params : {<<0, n>> : n \in -1 .. 6}]
Preset ==
    \E ins \in PresetInstruction :
        Convert([kind |-> "preset", ins |-> ins],
                dsx_instruction(ins.type, Ints(ins.params), Controllers).call)

\* Command lines that are too short or have too much, the wrong words, or
\* numbers the library refuses.
Left(mode, p) == <<Str("left"), Str(mode)>> \o [i \in DOMAIN p |-> Num(p[i])]
Arguments ==
    {<<>>, <<Num(7)>>, <<Str("pulse")>>, <<Num(7), Num(8)>>, Left("off", <<>>), Left("none", <<>>),
     Left("vibration", <<0, 8>>), Left("machine", <<0, 9, 7, 7, 30>>)}
    \cup {Left(mode, p) : mode \in {"feedback", "vibration", "machine"},
                          p \in {<<0, 8, 30>>, <<12, 8, 30>>, <<0, 9, 7, 7, 30, 1>>}}
Invocation ==
    [cmd : DOMAIN CommandArity \cup {"info", "help", "bad option", "none", "unknown"},
     args : Arguments, opens : BOOLEAN, sendOk : BOOLEAN]
RunDsctl == \E inv \in Invocation : Convert([kind |-> "dsctl", inv |-> inv], Dsctl(inv))

\* Instructions with regular and other types and parameters, in either order.
Instruction ==
    [type : {1, Word}, params : {<<0, 2>>, <<0, Word, 1>>, Word, Missing}, typeFirst : BOOLEAN]
ScanPacket ==
    \E packet \in BoundedSeq(Instruction, MaxPacket) :
        Convert([kind |-> "packet", packet |-> packet], Carried(Text(packet)))

\* Every byte of the handle has a value of its own.
Dev(conn, seq, dirty) ==
    [conn |-> conn, seq |-> seq, dirty |-> dirty, motor_right |-> 101, motor_left |-> 102,
     mute_led |-> 103, player_leds |-> 104, lightbar |-> <<105, 106, 107>>,
     r_trigger |-> [i \in 0 .. 10 |-> 110 + i], l_trigger |-> [i \in 0 .. 10 |-> 130 + i]]
BuildReport ==
    \E conn \in {"bt", "usb"}, seq \in {0, 7, 15}, dirty \in SUBSET Groups :
        LET dev == Dev(conn, seq, dirty)
        IN  Convert([kind |-> "output", dev |-> dev], [report |-> Report(dev)])

Checksum ==
    \E data \in BoundedSeq(MessageByte, MaxMessage) :
        Convert([kind |-> "checksum", data |-> data],
                [ds |-> Stored(ds_crc32(data)), haptics |-> Stored(haptics_crc32(data))])

-----------------------------------------------------------------------------
\* Controller states: one with all fields different, and those that differ
\* from it in one field.

Touching(active, id, fx, fy) == [active |-> active, id |-> id, x |-> fx, y |-> fy]
Typical ==
    [lx |-> 1, ly |-> 2, rx |-> 3, ry |-> 4, l2 |-> 5, r2 |-> 6, seq |-> 7, dpad |-> 3,
     pressed |-> {"cross", "l3", "ps"}, timestamp |-> <<513, 1027>>,
     gyro |-> <<1541, -2, 2055>>, accel |-> <<-3, 2569, -32768>>,
     touch |-> <<Touching(TRUE, 9, 1919, 1079), Touching(FALSE, 10, 258, 17)>>,
     battery_level |-> 50, battery_charging |-> FALSE]

Half == {0, 1, 255, 256, 32768, 65535}
Signed == {-32768, -1, 0, 1, 255, 256, 32767}
Finger ==
    {Touching(on, id, fx, fy) : on \in BOOLEAN, id \in {0, 127},
                                fx \in {0, 15, 256, 1919}, fy \in {0, 15, 16, 1079}}
Values ==
    [lx |-> {0, 128, 255}, ly |-> {0, 128, 255}, rx |-> {0, 128, 255}, ry |-> {0, 128, 255},
     l2 |-> {0, 128, 255}, r2 |-> {0, 128, 255}, seq |-> {0, 128, 255}, dpad |-> 0 .. 8,
     pressed |-> {{b} : b \in ToSet(FaceByte \o ShoulderByte \o CentreByte)} \cup {{}},
     timestamp |-> Half \X Half, gyro |-> Signed \X Signed \X Signed,
     accel |-> Signed \X Signed \X Signed,
     touch |-> Finger \X {Typical.touch[2]} \cup {Typical.touch[1]} \X Finger]

ReadState ==
    \E field \in DOMAIN Values, form \in {"usb", "bt", "simple"} :
        \E v \in Values[field] :
            LET state == [Typical EXCEPT ![field] = v]
                charge == [level |-> 5, status |-> 0]
            IN  Convert([kind |-> "input", state |-> Visible(state, form)],
                        ds_read_input(SentReport(state, charge, form), ZeroState))

\* Battery: a level in tenths, and a status of which 1 and 2 are charging and full.
ReadBattery ==
    \E level \in 0 .. 10, status \in {0, 1, 2, 10, 11, 15}, form \in {"usb", "bt"} :
        Convert([kind |-> "input",
                 state |-> [Typical EXCEPT !.battery_level = 10 * level,
                                           !.battery_charging = status \in {1, 2}]],
                ds_read_input(SentReport(Typical, [level |-> level, status |-> status], form),
                              ZeroState))

\* No report: an error, the end of the file, another report, a piece of one.
ReadOther ==
    \E read \in {ReadFails, <<>>, <<1>> \o Unused(8), <<49>> \o Unused(76), <<5>> \o Unused(77)} :
        Convert([kind |-> "no input", before |-> Typical], ds_read_input(read, Typical))

Next ==
    \/ Chosen("effect") /\ Encode
    \/ Chosen("order") /\ Ask
    \/ Chosen("preset") /\ Preset
    \/ Chosen("dsctl") /\ RunDsctl
    \/ Chosen("packet") /\ ScanPacket
    \/ Chosen("report") /\ BuildReport
    \/ Chosen("checksum") /\ Checksum
    \/ Chosen("state") /\ ReadState
    \/ Chosen("battery") /\ ReadBattery
    \/ Chosen("other") /\ ReadOther

Spec == Init /\ [][Next]_vars

-----------------------------------------------------------------------------

Is(kind) == given.kind = kind

\* What leaves a conversion is bytes where the code has bytes: effects, calls,
\* reports, checksums; and an exit status is 0 or 1.
TypeOK ==
    /\ Is("effect") => got.dst \in Effect
    /\ Is("order") => \A f \in DOMAIN got : ByteCall(got[f].call)
    /\ Is("preset") => ByteCall(got)
    /\ Is("output") => \A i \in DOMAIN got.report : got.report[i] \in Byte
    /\ Is("checksum") => \A k \in 1 .. 4 : {got.ds[k], got.haptics[k]} \subseteq Byte
    /\ Is("dsctl") => got.status \in {0, 1}

\* The controller reads the effect the caller of ds_trigger_* asked for, zone
\* by zone, through mask, packing and byte order; a refused call leaves the
\* effect as it was.
ReadsWhatWasAsked ==
    Is("effect") =>
        IF ~got.ok THEN got.dst = given.before
        ELSE given.call.op # "slope_feedback" => Read(got.dst) = WantedEffect(given.call)

\* An accepted slope has no resistance before its start, keeps within half a
\* step of the straight line between its ends, and holds the end strength after.
SlopeFollowsLine ==
    Is("effect") /\ given.call.op = "slope_feedback" /\ got.ok =>
        LET p == given.call.p
            at == Read(got.dst).at
            run == p[2] - p[1]
            line(z) == p[3] * run + (p[4] - p[3]) * (z - p[1])
            off(z) == 2 * (at[z] * run - line(z))
        IN  /\ \A z \in 0 .. p[1] - 1 : at[z] = 0
            /\ \A z \in p[1] .. p[2] : off(z) \in -run .. run
            /\ \A z \in p[2] .. 9 : at[z] = p[4]

\* The GUI, the native protocol and the DSX protocol make the same call of the
\* same words, whatever the numbers and the order of a line's fields, and so does
\* dsctl unless a number is too large for a long; all make the very call where the
\* numbers are bytes.  It is for the trigger asked and, where one can be named, for
\* the controller named, the first if there is none such; an index too large for
\* an int names the same controller in both protocols.  And every preset of DSX is
\* one the library accepts, or lights LEDs there are.
FrontEndsAgree ==
    /\ Is("order") =>
        LET order == given.order
            naming == DOMAIN got \cap {"native", "dsx"}
            named == order.device \in 0 .. Controllers - 1
        IN  /\ \A f \in DOMAIN got :
                /\ got[f].side = order.side
                /\ f \notin naming => got[f].device = 0
                /\ f \in naming /\ IsInt(order.device) =>
                        got[f].device = IF named THEN order.device ELSE 0
                /\ ByteCall(order.call) => got[f].call = order.call
            /\ \A f, g \in naming : got[f].device = got[g].device
            /\ \A f, g \in DOMAIN got \ {"dsctl"} : got[f].call = got[g].call
            /\ LongCall(order.call) =>
                    \A f, g \in DOMAIN got : got[f].call = got[g].call
    /\ Is("preset") /\ got # NoCall =>
            IF got.op = "player_leds" THEN got.p[1] \in 0 .. 31 ELSE Result(got, Off.dst).ok

\* A script that looks at dsctl's exit status is told the truth: 0 means the
\* report went out, or none was asked for; anything else that none did.
ExitStatusHonest ==
    Is("dsctl") => (got.status = 0 <=> got.sent \/ given.inv.cmd = "help"
                                                \/ (given.inv.cmd = "info" /\ given.inv.opens))

\* The search through a packet damages no more than an instruction and its
\* neighbour: an instruction as the protocol has it is carried out with its own
\* type and parameters unless the one before it has no parameters or has them
\* before its type; none is carried out twice, and none goes back in the text.
DamageIsLocal ==
    Is("packet") =>
        LET packet == given.packet
            whole(k) == \E n \in DOMAIN got :
                            /\ got[n].at = Start(packet, k) /\ got[n].array = got[n].at + 2
                            /\ got[n].type = packet[k].type /\ got[n].params = packet[k].params
        IN  /\ \A k \in DOMAIN packet :
                    Regular(packet[k]) /\ (k = 1 \/ ~Takes(packet[k - 1])) => whole(k)
            /\ \A n \in DOMAIN got \ {1} :
                    /\ got[n].at > got[n - 1].at
                    /\ got[n].array = 0 \/ got[n].array >= got[n - 1].array

\* Over either bus the controller finds every group of the handle where it
\* looks for it, and marks exactly the groups the handle changed; a Bluetooth
\* report carries its tag and a checksum the controller confirms.
OutputReadsBack ==
    Is("output") =>
        LET dev == given.dev
            seen == ReadReport(got.report)
        IN  /\ Heard(got.report) /\ seen.marked = dev.dirty
            /\ \A f \in DOMAIN seen \ {"marked"} : seen[f] = dev[f]
            /\ dev.conn = "bt" => got.report[1] \div 16 = dev.seq

\* Both checksum routines append what the controller confirms.
ReceiverAccepts ==
    Is("checksum") => \A crc \in {got.ds, got.haptics} :
                        Confirmed(<<Preamble>> \o given.data \o crc)

\* ds_read_input returns the state the controller sent, field by field, over
\* either bus and from a simple report, and Python sees the same buttons; a read
\* that brings no report leaves the caller's state alone.
InputReadsBack ==
    /\ Is("input") =>
        /\ got.ret = "0" /\ got.out = given.state
        /\ InPython(got.out) = given.state.pressed
                \cup {f \in {"battery_charging"} : given.state.battery_charging}
    /\ Is("no input") => got.ret # "0" /\ got.out = given.before
=============================================================================
