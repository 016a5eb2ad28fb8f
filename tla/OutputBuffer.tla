----------------------------- MODULE OutputBuffer -----------------------------
(***************************************************************************)
(* What libdualsense promises to the processes that share a controller:    *)
(* each has a private write-back buffer of changes, and flushing it        *)
(* applies all of them, and nothing else, to what the controller shows.    *)
(* There are no reports, flags, tags or descriptors here.                  *)
(***************************************************************************)
CONSTANTS Handle, PlainField, TriggerField, Value, Fresh, PowerOn

Field == PlainField \cup TriggerField

VARIABLES
    shown,      \* what the controller shows
    last,       \* last[h][f]: the value h was last given for f
    pending     \* pending[h]: the changes h has yet to publish

vars == <<shown, last, pending>>

NoChanges == [f \in {} |-> Fresh]
Applied(changes) ==
    [f \in Field |-> IF f \in DOMAIN changes THEN changes[f] ELSE shown[f]]

Init ==
    /\ shown = [f \in Field |-> PowerOn]
    /\ last = [h \in Handle |-> [f \in Field |-> Fresh]]
    /\ pending = [h \in Handle |-> NoChanges]

Buffer(h, f, v) ==
    pending' = [pending EXCEPT ![h] =
        [g \in DOMAIN @ \cup {f} |-> IF g = f THEN v ELSE @[g]]]

Put(h, f, v) ==
    /\ last' = [last EXCEPT ![h][f] = v]
    /\ Buffer(h, f, v)
    /\ UNCHANGED shown

\* A rejected trigger call schedules the value the trigger already had.
Repeat(h, f) ==
    /\ f \in TriggerField
    /\ Buffer(h, f, last[h][f])
    /\ UNCHANGED <<shown, last>>

Flush(h) ==
    /\ shown' = Applied(pending[h])
    /\ pending' = [pending EXCEPT ![h] = NoChanges]
    /\ UNCHANGED last

\* A flush that reported failure but took effect: the changes stay pending.
FlushUnsure(h) ==
    /\ shown' = Applied(pending[h])
    /\ UNCHANGED <<last, pending>>

Forget(h) ==
    /\ last' = [last EXCEPT ![h] = [f \in Field |-> Fresh]]
    /\ pending' = [pending EXCEPT ![h] = NoChanges]
    /\ UNCHANGED shown

PowerCycle ==
    /\ shown' = [f \in Field |-> PowerOn]
    /\ UNCHANGED <<last, pending>>

Next ==
    \/ \E h \in Handle :
        \/ \E f \in Field, v \in Value : Put(h, f, v)
        \/ \E f \in Field : Repeat(h, f)
        \/ Flush(h)
        \/ FlushUnsure(h)
        \/ Forget(h)
    \/ PowerCycle

Spec == Init /\ [][Next]_vars
=============================================================================
