------------------------------- MODULE Commands -------------------------------
(***************************************************************************)
(* What the daemon's two protocols do to its controllers:                  *)
(* native_handle_command (daemon/native_protocol.c), dsx_process_packet    *)
(* and dsx_reset_all (daemon/dsx_protocol.c), on the handles of DeviceOps. *)
(* The daemon runs one handler at a time; between any two of its steps     *)
(* another process may write to a controller, and every ds_send may fail.  *)
(***************************************************************************)
EXTENDS DeviceOps

CONSTANTS
    NDevices,       \* controllers the daemon opened, with indices 0 .. NDevices-1
    Bus,            \* how they may be connected
    Motors          \* the output group of ds_rumble

ASSUME CommandsAssumption ==
    /\ NDevices \in Nat \ {0}
    /\ Bus \subseteq Conn
    /\ Motors \in PlainField

Device == 0 .. NDevices - 1

VARIABLES
    dev,        \* dev[i]: the daemon's handle of controller i
    shown,      \* shown[i][f]: what controller i shows
    job,        \* the DSX handler that runs: staging a packet's instructions,
                \* sending them (flush) or resetting, at controller next
    answer,     \* the reply to the native command that ran last, if nothing
                \* happened since
    asked,      \* history: asked[i], the value controller i was last validly
                \* given for each group nobody else has set since
    lost        \* history: controllers whose last ds_send failed

vars == <<dev, shown, job, answer, asked, lost>>

\* One instruction or command for a handle, by what it stages:
\*   set     a setter, or a trigger call whose parameters are valid
\*   reject  a trigger call that returns -1
\*   reset   DSX ResetToUserSettings
\*   ignore  nothing, but it counts as a change: mute-led without a mode, a
\*           DSX trigger update with an unknown mode or too few parameters
\*   none    nothing: a status query, an unknown type, too few parameters
Sets(fields) == [op: {"set"}, field: fields, value: Value]
Rejects == [op: {"reject"}, field: TriggerField]
NativeInstruction == Sets(Field) \cup Rejects \cup [op: {"ignore"}]
DsxInstruction ==
    Sets(Field \ {Motors}) \cup Rejects \cup [op: {"reset", "ignore", "none"}]

Job == [at: {"idle", "packet", "flush", "reset"}, next: Device, modified: BOOLEAN]
Idle == [at |-> "idle", next |-> 0, modified |-> FALSE]
Answer == [text: {"none", "ok", "info", "error"}, device: Device]
NoAnswer == [text |-> "none", device |-> 0]

\* A value for some of the groups.
Request == UNION {[fields -> Value] : fields \in SUBSET Field}
NoRequest == [f \in {} |-> Fresh]

TypeOK ==
    /\ dev \in [Device -> DeviceState]
    /\ shown \in [Device -> [Field -> Value]]
    /\ job \in Job /\ answer \in Answer
    /\ asked \in [Device -> Request]
    /\ lost \subseteq Device

Init ==
    /\ dev \in [Device -> {NewDevice(c) : c \in Bus}]
    /\ shown \in [Device -> {[f \in Field |-> v] : v \in Value}]
    /\ job = Idle /\ answer = NoAnswer
    /\ asked = [i \in Device |-> NoRequest]
    /\ lost = {}

\* An index that is not that of a controller means the first.
ResolveOffByOne(i) == IF i \in 0 .. NDevices THEN i ELSE 0
Resolve(i) == IF i \in Device THEN i ELSE 0
\* One index past the last stands for all out of range.
Index == 0 .. NDevices

\* ds_trigger_off on both sides and ds_rumble(0, 0): the Off effect and zero
\* bytes are what a new handle holds.
ResetFields == TriggerField \cup {Motors}
ResetOf(d) ==
    [d EXCEPT !.staged = [f \in Field |-> IF f \in ResetFields THEN Fresh ELSE @[f]],
              !.dirty = @ \cup ResetFields]

StageInstruction(d, ins) ==
    CASE ins.op = "set" /\ ins.field \in PlainField -> Stage(d, ins.field, ins.value)
      [] ins.op = "set" /\ ins.field \in TriggerField -> TriggerAccepted(d, ins.field, ins.value)
      [] ins.op = "reject" -> TriggerRejected(d, ins.field)
      [] ins.op = "reset" -> ResetOf(d)
      [] OTHER -> d

\* The groups an instruction gives a valid value, and the history with them.
GivenBy(ins) ==
    CASE ins.op = "set" -> [f \in {ins.field} |-> ins.value]
      [] ins.op = "reset" -> [f \in ResetFields |-> Fresh]
      [] OTHER -> NoRequest
Given(history, ins) ==
    LET new == GivenBy(ins)
    IN  [f \in DOMAIN new \cup DOMAIN history |-> IF f \in DOMAIN new THEN new[f] ELSE history[f]]
Ask(i, ins) == asked' = [asked EXCEPT ![i] = Given(@, ins)]

\* ds_send on handle d of controller i; fine tells whether write() succeeds.
SendTo(i, d, fine) ==
    LET r == ReportOf(d)
    IN  /\ dev' = [dev EXCEPT ![i] = AfterSend(d, fine)]
        /\ shown' = [shown EXCEPT ![i] =
                        [f \in Field |-> IF fine /\ f \in r.flags THEN r.value[f] ELSE @[f]]]
        /\ lost' = IF fine THEN lost \ {i} ELSE lost \cup {i}

-----------------------------------------------------------------------------
\* The native protocol.

\* Only ds_send's result reaches the reply: handle_trigger drops that of ds_trigger_*.
SendTextAlwaysOk(fine) == "ok"
SendText(fine) == IF fine THEN "ok" ELSE "error"

\* A command that ends in ds_send.
NativeCommand(index, ins) ==
    /\ job.at = "idle"
    /\ LET i == Resolve(index)
       IN  \E fine \in BOOLEAN :
           /\ SendTo(i, StageInstruction(dev[i], ins), fine)
           /\ answer' = [text |-> SendText(fine), device |-> i]
           /\ Ask(i, ins)
    /\ UNCHANGED job

\* info; no or an unknown "cmd"; a trigger without side, mode or a known mode:
\* answered before anything is staged or sent.
NativeAnswer(text) ==
    /\ job.at = "idle"
    /\ answer' = [NoAnswer EXCEPT !.text = text]
    /\ UNCHANGED <<dev, shown, job, asked, lost>>

-----------------------------------------------------------------------------
\* DSX packets: dsx_process_packet stages every instruction on the handle it
\* names, then sends to every controller and drops the results.

BeginPacket ==
    /\ job.at = "idle"
    /\ job' = [Idle EXCEPT !.at = "packet"]
    /\ answer' = NoAnswer
    /\ UNCHANGED <<dev, shown, asked, lost>>

\* did_modify
ModifiesOnlySet(ins) == ins.op = "set"
Modifies(ins) == ins.op # "none"

NextInstruction(index, ins) ==
    /\ job.at = "packet"
    /\ LET i == Resolve(index)
       IN  /\ dev' = [dev EXCEPT ![i] = StageInstruction(@, ins)]
           /\ Ask(i, ins)
    /\ job' = [job EXCEPT !.modified = @ \/ Modifies(ins)]
    /\ answer' = NoAnswer
    /\ UNCHANGED <<shown, lost>>

EndPacket ==
    /\ job.at = "packet"
    /\ job' = IF job.modified THEN [Idle EXCEPT !.at = "flush"] ELSE Idle
    /\ answer' = NoAnswer
    /\ UNCHANGED <<dev, shown, asked, lost>>

\* for (i = 0; i < ndevices; i++)
NextController ==
    job' = IF job.next + 1 \in Device THEN [job EXCEPT !.next = @ + 1] ELSE Idle

FlushNext(fine) ==
    /\ job.at = "flush"
    /\ SendTo(job.next, dev[job.next], fine)
    /\ NextController
    /\ answer' = NoAnswer
    /\ UNCHANGED asked

\* dsx_reset_all: each controller is reset and sent to, results dropped.
BeginReset ==
    /\ job.at = "idle"
    /\ job' = [Idle EXCEPT !.at = "reset"]
    /\ answer' = NoAnswer
    /\ UNCHANGED <<dev, shown, asked, lost>>

ResetNext(fine) ==
    /\ job.at = "reset"
    /\ SendTo(job.next, ResetOf(dev[job.next]), fine)
    /\ Ask(job.next, [op |-> "reset"])
    /\ NextController
    /\ answer' = NoAnswer

-----------------------------------------------------------------------------
\* Another process (dsctl, the haptics tool, a game) writes to a controller.
Intrude(i, f, v) ==
    /\ shown' = [shown EXCEPT ![i][f] = v]
    /\ asked' = [asked EXCEPT ![i] = [g \in DOMAIN @ \ {f} |-> @[g]]]
    /\ answer' = NoAnswer
    /\ UNCHANGED <<dev, job, lost>>

Next ==
    \/ \E index \in Index :
        \/ \E ins \in NativeInstruction : NativeCommand(index, ins)
        \/ \E ins \in DsxInstruction : NextInstruction(index, ins)
    \/ \E text \in {"info", "error"} : NativeAnswer(text)
    \/ BeginPacket \/ EndPacket \/ BeginReset
    \/ \E fine \in BOOLEAN : FlushNext(fine) \/ ResetNext(fine)
    \/ \E i \in Device, f \in Field, v \in Value : Intrude(i, f, v)

Spec == Init /\ [][Next]_vars

-----------------------------------------------------------------------------
\* What was validly asked of a controller, by either protocol or by a reset, is
\* shown or still due with the next report, however many sends fail between:
\* rejected calls, later packets and resets of other controllers lose nothing.
NothingForgotten ==
    \A i \in Device : \A f \in DOMAIN asked[i] :
        /\ dev[i].staged[f] = asked[i][f]
        /\ f \in dev[i].dirty \/ shown[i][f] = asked[i][f]

\* A reply of success means its controller shows all that was last validly
\* asked of it, including what earlier failed sends left behind.
OkMeansShown ==
    answer.text = "ok" =>
        \A f \in DOMAIN asked[answer.device] :
            shown[answer.device][f] = asked[answer.device][f]

\* No handler returns with a change it has not tried to send: what is still due
\* when the daemon is idle is due because the controller's last send failed.
StagedIsTried ==
    job.at = "idle" => \A i \in Device : dev[i].dirty # {} => i \in lost
=============================================================================
