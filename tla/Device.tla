-------------------------------- MODULE Device --------------------------------
(***************************************************************************)
(* One DualSense and the handles open on it.  Several processes may hold a *)
(* handle at once: the daemon keeps one for its whole life, every dsctl    *)
(* command opens its own (cli/dsctl.c main), and each has its own staged   *)
(* state and sequence tag.  The controller, the kernel's hidraw node and   *)
(* the link are external.                                                  *)
(***************************************************************************)
EXTENDS DeviceOps

CONSTANTS
    Handle,         \* the processes that may hold a handle
    Nobody,         \* "no handle of this list"
    PowerOn,        \* what the controller shows after it connects
    MaxEpoch        \* bound: how often the controller may reconnect

ASSUME NobodyAssumption == Nobody \notin Handle
ASSUME PowerOnAssumption == PowerOn \in Value
ASSUME MaxEpochAssumption == MaxEpoch \in Nat

VARIABLES
    opened,     \* handles that are open
    dev,        \* dev[h]: the struct ds_device of h
    fd,         \* fd[h]: the connection epoch h's descriptor belongs to
    link,       \* the controller's connection: up or not, its bus, its epoch
    shown,      \* shown[f]: what the controller shows
    writer,     \* history: the handle whose report set shown[f] last
    heard       \* history: the last report of h the controller heard

vars == <<opened, dev, fd, link, shown, writer, heard>>

Link == [up: BOOLEAN, conn: Conn, epoch: 0 .. MaxEpoch]
Heard == [tag: Tag \cup {NoTag}, ok: BOOLEAN]
Silence == [tag |-> NoTag, ok |-> TRUE]

TypeOK ==
    /\ opened \subseteq Handle
    /\ dev \in [Handle -> DeviceState]
    /\ fd \in [Handle -> 0 .. MaxEpoch]
    /\ link \in Link
    /\ shown \in [Field -> Value]
    /\ writer \in [Field -> Handle \cup {Nobody}]
    /\ heard \in [Handle -> Heard]

Init ==
    /\ opened = {}
    /\ dev = [h \in Handle |-> NewDevice("usb")]
    /\ fd = [h \in Handle |-> 0]
    /\ \E c \in Conn : link = [up |-> TRUE, conn |-> c, epoch |-> 0]
    /\ shown = [f \in Field |-> PowerOn]
    /\ writer = [f \in Field |-> Nobody]
    /\ heard = [h \in Handle |-> Silence]

\* ds_open: the descriptor and the bus type are those of the present link.
Open(h) ==
    /\ h \notin opened
    /\ link.up
    /\ opened' = opened \cup {h}
    /\ dev' = [dev EXCEPT ![h] = NewDevice(link.conn)]
    /\ fd' = [fd EXCEPT ![h] = link.epoch]
    /\ UNCHANGED <<link, shown, writer, heard>>

\* ds_close, or the process ends in any other way: what was staged is gone,
\* what the controller shows stays.
Close(h) ==
    /\ h \in opened
    /\ opened' = opened \ {h}
    /\ dev' = [dev EXCEPT ![h] = NewDevice("usb")]
    /\ fd' = [fd EXCEPT ![h] = 0]
    /\ writer' = [f \in Field |-> IF writer[f] = h THEN Nobody ELSE writer[f]]
    /\ heard' = [heard EXCEPT ![h] = Silence]
    /\ UNCHANGED <<link, shown>>

\* ds_rumble, ds_lightbar, ds_player_leds, ds_mute_led
SetOutput(h, f, v) ==
    /\ h \in opened
    /\ f \in PlainField
    /\ dev' = [dev EXCEPT ![h] = Stage(@, f, v)]
    /\ UNCHANGED <<opened, fd, link, shown, writer, heard>>

\* ds_trigger_*, returning 0
SetTrigger(h, f, v) ==
    /\ h \in opened
    /\ f \in TriggerField
    /\ dev' = [dev EXCEPT ![h] = TriggerAccepted(@, f, v)]
    /\ UNCHANGED <<opened, fd, link, shown, writer, heard>>

\* ds_trigger_*, returning -1 for its parameters
RejectTrigger(h, f) ==
    /\ h \in opened
    /\ f \in TriggerField
    /\ dev' = [dev EXCEPT ![h] = TriggerRejected(@, f)]
    /\ UNCHANGED <<opened, fd, link, shown, writer, heard>>

\* The controller applies the flagged groups of a report and no other.
Deliver(h, r, ok) ==
    /\ shown' = [f \in Field |-> IF f \in r.flags THEN r.value[f] ELSE shown[f]]
    /\ writer' = [f \in Field |-> IF f \in r.flags THEN h ELSE writer[f]]
    /\ heard' = [heard EXCEPT ![h] = [tag |-> r.tag, ok |-> ok]]

\* A descriptor reaches the controller only while the link it was opened on lasts.
Live(h) == link.up /\ fd[h] = link.epoch

\* ds_send, write() taking the whole report
SendOk(h) ==
    /\ h \in opened
    /\ Live(h)
    /\ Deliver(h, ReportOf(dev[h]), TRUE)
    /\ dev' = [dev EXCEPT ![h] = AfterSend(@, TRUE)]
    /\ UNCHANGED <<opened, fd, link>>

\* ds_send, write() failing or short, the report lost
SendLost(h) ==
    /\ h \in opened
    /\ dev' = [dev EXCEPT ![h] = AfterSend(@, FALSE)]
    /\ UNCHANGED <<opened, fd, link, shown, writer, heard>>

\* ds_send, write() reporting an error (a transfer timeout) although the
\* controller got the report
SendUnsure(h) ==
    /\ h \in opened
    /\ Live(h)
    /\ Deliver(h, ReportOf(dev[h]), FALSE)
    /\ dev' = [dev EXCEPT ![h] = AfterSend(@, FALSE)]
    /\ UNCHANGED <<opened, fd, link>>

Disconnect ==
    /\ link.up
    /\ link' = [link EXCEPT !.up = FALSE]
    /\ UNCHANGED <<opened, dev, fd, shown, writer, heard>>

\* A new hidraw node appears; descriptors of the old one stay dead.
Reconnect(c) ==
    /\ ~link.up
    /\ link.epoch < MaxEpoch
    /\ link' = [up |-> TRUE, conn |-> c, epoch |-> link.epoch + 1]
    /\ shown' = [f \in Field |-> PowerOn]
    /\ writer' = [f \in Field |-> Nobody]
    /\ UNCHANGED <<opened, dev, fd, heard>>

Send(h) == SendOk(h) \/ SendLost(h) \/ SendUnsure(h)

Next ==
    \/ \E h \in Handle :
        \/ Open(h)
        \/ Close(h)
        \/ \E f \in Field, v \in Value : SetOutput(h, f, v) \/ SetTrigger(h, f, v)
        \/ \E f \in Field : RejectTrigger(h, f)
        \/ Send(h)
    \/ Disconnect
    \/ \E c \in Conn : Reconnect(c)

Spec == Init /\ [][Next]_vars

-----------------------------------------------------------------------------
\* A group that is clean on a handle, and that no other process set after it,
\* is shown by the controller exactly as the handle has it staged: no failed or
\* short write, lost reply or retry of ds_send makes the handle forget a change.
CleanFieldsAgree ==
    \A h \in opened, f \in Field :
        writer[f] = h /\ f \notin dev[h].dirty => shown[f] = dev[h].staged[f]

\* The Bluetooth tags the controller hears from one handle never skip and
\* repeat only for a report ds_send reported as failed: the next tag follows
\* the last one heard, or equals it when the library believes it was lost.
TagsInStep ==
    \A h \in opened :
        heard[h].tag # NoTag =>
            dev[h].seq = IF heard[h].ok THEN NextSeq(heard[h].tag) ELSE heard[h].tag

\* The histories name only open handles.
HistoryOfOpenHandles ==
    /\ \A f \in Field : writer[f] # Nobody => writer[f] \in opened
    /\ \A h \in Handle \ opened : heard[h] = Silence

\* The inductive invariant behind the safety properties: without its second
\* part a handle that is opened could be credited with an earlier one's reports.
IInv == TypeOK /\ HistoryOfOpenHandles /\ CleanFieldsAgree /\ TagsInStep

-----------------------------------------------------------------------------
\* What the handles promise together: see OutputBuffer.
Pending(h) == [f \in dev[h].dirty |-> dev[h].staged[f]]
Buffers == INSTANCE OutputBuffer WITH
    last <- [h \in Handle |-> dev[h].staged],
    pending <- [h \in Handle |-> Pending(h)]

\* The handles implement private write-back buffers in front of one shared
\* controller: ds_send publishes exactly the groups touched since the last
\* send that succeeded, whole or not at all, and touches no other group.
ImplementsBuffers == Buffers!Spec
=============================================================================
