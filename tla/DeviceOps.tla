------------------------------ MODULE DeviceOps ------------------------------
(***************************************************************************)
(* One open handle of libdualsense (struct ds_device) and the functions of *)
(* src/dualsense.c that stage output on it and flush it, as operators on a *)
(* record.  Device composes several handles on one controller; the modules *)
(* of the daemon reuse the same operators.                                 *)
(*                                                                         *)
(* The six output groups of the struct (motors, two triggers, lightbar,    *)
(* player LEDs, mute LED) behave alike except that only the trigger calls  *)
(* can reject their parameters, so a group is an element of PlainField or  *)
(* of TriggerField and its bytes are an element of Value.                  *)
(*                                                                         *)
(* A definition named after another with a suffix (AfterSendNoRollback) is *)
(* a plausible slip in that code; the project's mutation runs put it in    *)
(* the place of the real one to show that a property would notice.         *)
(***************************************************************************)
EXTENDS Integers

CONSTANTS
    PlainField,     \* output groups whose setters return void
    TriggerField,   \* output groups set by ds_trigger_*
    Value,          \* what a group's bytes can hold
    Fresh,          \* what a group holds when the handle is opened
    SeqTags         \* Bluetooth sequence tags are 0 .. SeqTags-1 (16 in the code)

Field == PlainField \cup TriggerField

ASSUME FreshAssumption == Fresh \in Value
ASSUME SeqTagsAssumption == SeqTags \in Nat \ {0}
ASSUME FieldAssumption == PlainField \cap TriggerField = {}

Conn == {"usb", "bt"}
Tag == 0 .. SeqTags - 1
NoTag == -1

DeviceState == [staged: [Field -> Value], dirty: SUBSET Field, seq: Tag, conn: Conn]

\* calloc, then Off in both triggers: nothing is dirty, the first tag is 0.
NewDevice(conn) ==
    [staged |-> [f \in Field |-> Fresh], dirty |-> {}, seq |-> 0, conn |-> conn]

\* ds_rumble, ds_lightbar, ds_player_leds, ds_mute_led
Stage(d, f, v) ==
    [d EXCEPT !.staged[f] = v, !.dirty = @ \cup {f}]

\* trigger_buf marks the side before anything is validated.
TriggerBuf(d, f) == [d EXCEPT !.dirty = @ \cup {f}]

\* A ds_trigger_* call whose parameters are valid, and one whose are not.
TriggerAccepted(d, f, v) == [TriggerBuf(d, f) EXCEPT !.staged[f] = v]
TriggerRejected(d, f) == TriggerBuf(d, f)

NextSeqUnmasked(s) == s + 1
NextSeq(s) == (s + 1) % SeqTags

\* What ds_send writes: a value for the flagged groups and, on Bluetooth, a tag.
ReportAllFlags(d) ==
    [flags |-> Field, value |-> d.staged, tag |-> IF d.conn = "bt" THEN d.seq ELSE NoTag]
ReportOf(d) ==
    [flags |-> d.dirty, value |-> d.staged, tag |-> IF d.conn = "bt" THEN d.seq ELSE NoTag]

\* The handle after ds_send: the tag advances while the report is built and
\* is rolled back when write() fails or is short; only success cleans.
Advance(d) == IF d.conn = "bt" THEN [d EXCEPT !.seq = NextSeq(@)] ELSE d
AfterSendNoRollback(d, ok) ==
    IF ok THEN [Advance(d) EXCEPT !.dirty = {}] ELSE Advance(d)
AfterSendAlwaysClean(d, ok) ==
    IF ok THEN [Advance(d) EXCEPT !.dirty = {}]
          ELSE [Advance(d) EXCEPT !.seq = d.seq, !.dirty = {}]
AfterSend(d, ok) ==
    IF ok THEN [Advance(d) EXCEPT !.dirty = {}]
          ELSE [Advance(d) EXCEPT !.seq = d.seq]
=============================================================================
