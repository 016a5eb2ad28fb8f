------------------------------ MODULE FrontEnds ------------------------------
(***************************************************************************)
(* From what a user writes to the library's setters: the native protocol   *)
(* with its search for keys (src/daemon/native_protocol.c, json_parse.c),  *)
(* the instructions of the DSX protocol (src/daemon/dsx_protocol.c), the   *)
(* commands of dsctl with its exit status (src/cli/dsctl.c) and the lines  *)
(* of the GUI.  Trigger calls are those of TriggerEffects; numbers are any *)
(* integers until a front end makes an int or a long of them, and a byte   *)
(* of that.                                                                *)
(***************************************************************************)
EXTENDS TriggerEffects, SequencesExt, CNumbers

U8(n) == n % 256
Cut(p) == [i \in DOMAIN p |-> U8(p[i])]
Call(op, p) == [op |-> op, p |-> Cut(p), a |-> NoArray]
CallMulti(op, p, a) == [op |-> op, p |-> Cut(p), a |-> [z \in Zone |-> U8(a[z + 1])]]

\* A call, the trigger it is for if it is for one, and the controller.
NoSide == "none"
Order(device, side, call) == [device |-> device, side |-> side, call |-> call]
NoOrder == Order(0, NoSide, NoCall)

\* resolve_device: an index out of range means the first controller.
resolve_device(idx, ndevices) == IF idx \in 0 .. ndevices - 1 THEN idx ELSE 0

\* Words are taken without regard to case, numbers without their notation.
Str(s) == [str |-> s]
Num(n) == [num |-> n]
Absent == [absent |-> TRUE]
WordOf(v) == IF "str" \in DOMAIN v THEN v.str ELSE "no word"
NumberOf(v) == IF "num" \in DOMAIN v THEN IntOf(v.num) ELSE 0

\* ds_mute_led_t by the word for it.
MuteLed(word) == IF word = "on" THEN 1 ELSE IF word = "pulse" THEN 2 ELSE 0

-----------------------------------------------------------------------------
\* The native protocol.  A line is a sequence of fields, a key and a value.

Field(key, value) == [key |-> key, value |-> value]

\* strstr stops at the first key or string value that is the key; what follows
\* a value is no value.
json_find(line, key) ==
    LET hits == {i \in DOMAIN line : key = line[i].key \/ Str(key) = line[i].value}
        first == line[Min(hits)]
    IN  IF hits = {} \/ first.key # key THEN Absent ELSE first.value
HasWord(line, key) == "str" \in DOMAIN json_find(line, key)

ModeKeys ==
    [off |-> <<>>,
     feedback |-> <<"position", "strength">>,
     weapon |-> <<"start", "end", "strength">>,
     vibration |-> <<"position", "amplitude", "frequency">>,
     bow |-> <<"start", "end", "strength", "snap">>,
     galloping |-> <<"start", "end", "first_foot", "second_foot", "frequency">>,
     machine |-> <<"start", "end", "amp_a", "amp_b", "frequency", "period">>]
CommandKeys ==
    [rumble |-> <<"left", "right">>, lightbar |-> <<"r", "g", "b">>, player_leds |-> <<"mask">>]

\* Numbers that are not there are 0.
CallFrom(line, op, keys) ==
    Call(op, [i \in DOMAIN keys |-> NumberOf(json_find(line, keys[i]))])

handle_trigger(line, device) ==
    LET mode == WordOf(json_find(line, "mode"))
        side == IF WordOf(json_find(line, "side")) \in {"L", "left"} THEN "left" ELSE "right"
    IN  IF HasWord(line, "side") /\ mode \in DOMAIN ModeKeys
        THEN Order(device, side, CallFrom(line, mode, ModeKeys[mode]))
        ELSE NoOrder

\* What a line does, which is nothing where it is refused.
native_handle_command(line, ndevices) ==
    LET written == WordOf(json_find(line, "cmd"))
        cmd == CASE written = "player-leds" -> "player_leds"
                 [] written = "mute-led" -> "mute_led"
                 [] OTHER -> written
        device == resolve_device(NumberOf(json_find(line, "device")), ndevices)
    IN  CASE cmd = "trigger" -> handle_trigger(line, device)
          [] cmd \in DOMAIN CommandKeys ->
                Order(device, NoSide, CallFrom(line, cmd, CommandKeys[cmd]))
          [] cmd = "mute_led" /\ HasWord(line, "mode") ->
                Order(device, NoSide,
                      Call("mute_led", <<MuteLed(WordOf(json_find(line, "mode")))>>))
          [] OTHER -> NoOrder

-----------------------------------------------------------------------------
\* The DSX protocol: a type, and parameters that begin with the controller, ints
\* by the time they are looked at.
Ints(params) == [i \in DOMAIN params |-> IntOf(params[i])]

\* Trigger effects with numbers, by mode, and how many numbers they need.
DsxScalar ==
    LET row(op, n) == [op |-> op, n |-> n]
    IN  [m \in {13, 14, 15, 16, 17, 18, 21, 22, 23, 24} |->
            CASE m \in {13, 21} -> row("feedback", 2)
              [] m \in {16, 22} -> row("weapon", 3)
              [] m \in {17, 23} -> row("vibration", 3)
              [] m = 14 -> row("bow", 4)
              [] m = 15 -> row("galloping", 5)
              [] m = 18 -> row("machine", 6)
              [] m = 24 -> row("slope_feedback", 4)]
\* VERY_SOFT, SOFT, HARD, VERY_HARD, HARDEST and RIGID, MEDIUM
PresetStrength ==
    [m \in {2, 3, 4, 5, 6, 7, 10} |->
        CASE m = 2 -> 1 [] m = 3 -> 2 [] m = 4 -> 6 [] m = 5 -> 7 [] m \in {6, 7} -> 8 [] m = 10 -> 4]

Choppy ==
    [op |-> "raw", p |-> <<ModeFeedback>>,
     a |-> [z \in Zone |-> <<2, 39, 24, 0, 0, 38, 0, 0, 0, 0>>[z + 1]]]

\* The ten numbers after the first; one place early is the first again.
AfterFirstEarly(p) == p
AfterFirst(p) == Tail(p)

apply_trigger(mode, p) ==
    LET np == Len(p)
    IN  CASE mode \in {0, 20} -> OffCall
          [] mode \in DOMAIN DsxScalar ->
                IF np < DsxScalar[mode].n THEN NoCall
                ELSE Call(DsxScalar[mode].op, SubSeq(p, 1, DsxScalar[mode].n))
          [] mode = 8 -> Call("vibration", <<0, 8, IF np >= 1 THEN p[1] ELSE 30>>)
          [] mode = 19 -> Call("vibration", <<0, 8, 10>>)
          [] mode = 25 -> IF np < 10 THEN NoCall ELSE CallMulti("feedback_multi", <<>>, p)
          [] mode = 26 ->
                IF np < 11 THEN NoCall ELSE CallMulti("vibration_multi", <<p[1]>>, AfterFirst(p))
          [] mode = 12 -> IF np < 11 THEN NoCall ELSE CallMulti("raw", <<p[1]>>, AfterFirst(p))
          [] mode \in DOMAIN PresetStrength ->
                Call("feedback", <<0, PresetStrength[mode]>>)
          [] mode = 9 -> Choppy
          [] OTHER -> NoCall

\* PlayerLEDNewRevision
Presets == <<4, 10, 21, 27, 31, 0>>

\* An instruction but for the reset, which is three calls (Commands).
dsx_instruction(type, params, ndevices) ==
    LET np == Len(params)
        device == resolve_device(IF np >= 1 THEN params[1] ELSE 0, ndevices)
        plain(call) == Order(device, NoSide, call)
        lit == {i \in 0 .. 4 : params[2 + i] # 0}
    IN  CASE type = 1 /\ np >= 3 ->
                Order(device, IF params[2] = 1 THEN "left" ELSE "right",
                      apply_trigger(params[3], SubSeq(params, 4, np)))
          [] type = 2 /\ np >= 4 -> plain(Call("lightbar", SubSeq(params, 2, 4)))
          [] type = 3 /\ np >= 6 -> plain(Call("player_leds", <<Mask(lit)>>))
          [] type = 5 /\ np >= 2 ->
                plain(Call("mute_led", <<IF params[2] \in {0, 1} THEN params[2] + 1 ELSE 0>>))
          [] type = 6 /\ np >= 2 /\ params[2] \in 0 .. 5 ->
                plain(Call("player_leds", <<Presets[params[2] + 1]>>))
          [] OTHER -> NoOrder

-----------------------------------------------------------------------------
\* dsctl: one command in one process, on the controller it opened.

ModeArity ==
    [off |-> 0, feedback |-> 2, weapon |-> 3, vibration |-> 3, bow |-> 4, galloping |-> 5,
     machine |-> 6]
CommandArity ==
    [trigger |-> 2, rumble |-> 2, lightbar |-> 1, player_leds |-> 1, mute_led |-> 1]

\* What strtoul makes of a word or a number, before it is cut to a byte.
UnsignedOf(v) == IF "num" \in DOMAIN v THEN strtoul(v.num) ELSE 0

cmd_trigger(args) ==
    LET mode == WordOf(args[2])
        side == IF WordOf(args[1]) \in {"l", "left"} THEN "left" ELSE "right"
    IN  IF mode \notin DOMAIN ModeArity \/ Len(args) < 2 + ModeArity[mode] THEN NoOrder
        ELSE Order(0, side, Call(mode, [i \in 1 .. ModeArity[mode] |-> UnsignedOf(args[2 + i])]))

\* What a command does, which is nothing where its words are refused.
dsctl_command(cmd, args) ==
    LET n == UnsignedOf(args[1])
        rgb == n % (2 * IntHalf)
        plain(p) == Order(0, NoSide, Call(cmd, p))
    IN  IF cmd \notin DOMAIN CommandArity \/ Len(args) < CommandArity[cmd] THEN NoOrder
        ELSE CASE cmd = "trigger" -> cmd_trigger(args)
               [] cmd = "rumble" -> plain(<<n, UnsignedOf(args[2])>>)
               [] cmd = "lightbar" ->
                    IF "num" \in DOMAIN args[1]
                    THEN plain(<<rgb \div 2 ^ 16, rgb \div 2 ^ 8, rgb>>)
                    ELSE NoOrder
               [] cmd = "player_leds" -> plain(<<n>>)
               [] cmd = "mute_led" -> plain(<<MuteLed(WordOf(args[1]))>>)

UsageError == 1
SendError == -5
\* The only refusal of the library that dsctl looks at.
Reported(call) == call.op = "vibration" /\ ~Result(call, Off.dst).ok

\* inv: a command line, whether a controller opens, and whether a send succeeds.
CommandResult(inv) ==
    LET call == dsctl_command(inv.cmd, inv.args).call
    IN  CASE inv.cmd = "info" -> [ret |-> 0, sent |-> FALSE]
          [] inv.cmd # "info" /\ (call = NoCall \/ Reported(call)) ->
                [ret |-> UsageError, sent |-> FALSE]
          [] OTHER -> [ret |-> IF inv.sendOk THEN 0 ELSE SendError, sent |-> inv.sendOk]

ExitStatusErrno(ret) == IF ret < 0 THEN 1 ELSE 0
ExitStatus(ret) == IF ret # 0 THEN 1 ELSE 0

Dsctl(inv) ==
    IF inv.cmd = "help" THEN [status |-> 0, sent |-> FALSE]
    ELSE IF inv.cmd \in {"bad option", "none"} \/ ~inv.opens
    THEN [status |-> 1, sent |-> FALSE]
    ELSE LET r == CommandResult(inv)
         IN  [status |-> ExitStatus(r.ret), sent |-> r.sent]

-----------------------------------------------------------------------------
\* How an order is written.

\* The names of the GUI's sliders.
Sliders ==
    [off |-> <<>>,
     feedback |-> <<"position", "strength">>,
     weapon |-> <<"start", "end", "strength">>,
     vibration |-> <<"position", "amplitude", "frequency">>,
     bow |-> <<"start", "end", "strength", "snap">>,
     galloping |-> <<"start", "end", "first_foot", "second_foot", "frequency">>,
     machine |-> <<"start", "end", "amp_a", "amp_b", "frequency", "period">>,
     rumble |-> <<"left", "right">>, lightbar |-> <<"r", "g", "b">>, player_leds |-> <<"mask">>]

GuiLine(order) ==
    LET call == order.call
        numbers == [i \in DOMAIN call.p |-> Field(Sliders[call.op][i], Num(call.p[i]))]
    IN  IF order.side = NoSide
        THEN <<Field("cmd", Str(IF call.op = "player_leds" THEN "player-leds" ELSE call.op))>>
             \o numbers
        ELSE <<Field("cmd", Str("trigger")),
               Field("side", Str(IF order.side = "left" THEN "L" ELSE "R")),
               Field("mode", Str(call.op))>> \o numbers

\* The documented line, which names the controller; its fields in any order, as
\* far as the first of them tells.
MuteWord == <<"off", "on", "pulse">>
NativeLine(order, turn) ==
    LET line == IF order.call.op = "mute_led"
                THEN <<Field("cmd", Str("mute-led")),
                       Field("mode", Str(MuteWord[1 + order.call.p[1]]))>>
                ELSE GuiLine(order)
        full == Append(line, Field("device", Num(order.device)))
        k == turn % Len(full)
    IN  SubSeq(full, k + 1, Len(full)) \o SubSeq(full, 1, k)

DsxMode ==
    [off |-> 20, feedback |-> 21, weapon |-> 22, vibration |-> 23, bow |-> 14,
     galloping |-> 15, machine |-> 18, slope_feedback |-> 24, feedback_multi |-> 25,
     vibration_multi |-> 26]
DsxForm(order) ==
    LET c == order.call
        params(rest) == <<order.device>> \o rest
    IN  CASE c.op = "lightbar" -> [type |-> 2, params |-> params(c.p)]
          [] c.op = "player_leds" ->
                [type |-> 3, params |-> params([i \in 1 .. 5 |-> (c.p[1] \div 2 ^ (i - 1)) % 2])]
          [] c.op = "mute_led" -> [type |-> 5, params |-> params(<<(c.p[1] + 2) % 3>>)]
          [] OTHER ->
                [type |-> 1,
                 params |-> params(<<IF order.side = "left" THEN 1 ELSE 2, DsxMode[c.op]>> \o c.p
                                   \o (IF c.a = NoArray THEN <<>>
                                       ELSE [i \in 1 .. 10 |-> c.a[i - 1]]))]

DsctlArgs(order) ==
    LET numbers(p) == [i \in DOMAIN p |-> Num(p[i])]
        c == order.call
    IN  CASE c.op = "mute_led" -> <<Str(MuteWord[1 + c.p[1]])>>
          [] c.op = "lightbar" -> <<Num(c.p[1] * 2 ^ 16 + c.p[2] * 2 ^ 8 + c.p[3])>>
          [] c.op \in {"rumble", "player_leds"} -> numbers(c.p)
          [] OTHER -> <<Str(order.side), Str(c.op)>> \o numbers(c.p)
=============================================================================
