---------------------------- MODULE DeviceProofs ----------------------------
(***************************************************************************)
(* Proofs about Device for any number of handles, groups and values, any   *)
(* tag modulus and any number of reconnections.                            *)
(***************************************************************************)
EXTENDS Device, TLAPS

\* NextSeq, (seq + 1) & 0x0F in ds_send, yields a tag again.
LEMMA NextSeqType == \A s \in Tag : NextSeq(s) \in Tag
BY SeqTagsAssumption DEF NextSeq, Tag

\* A freshly opened struct ds_device is well-typed.
LEMMA NewDeviceType == \A c \in Conn : NewDevice(c) \in DeviceState
BY FreshAssumption, SeqTagsAssumption DEF NewDevice, DeviceState, Tag

\* Every setter, accepted or rejected, keeps a struct ds_device well-typed.
LEMMA StageType ==
    ASSUME NEW d \in DeviceState, NEW f \in Field, NEW v \in Value
    PROVE  /\ Stage(d, f, v) \in DeviceState
           /\ TriggerAccepted(d, f, v) \in DeviceState
           /\ TriggerRejected(d, f) \in DeviceState
BY DEF Stage, TriggerAccepted, TriggerRejected, TriggerBuf, DeviceState

\* ds_send keeps a struct ds_device well-typed whatever write() returns.
LEMMA AfterSendType ==
    ASSUME NEW d \in DeviceState, NEW ok \in BOOLEAN
    PROVE  AfterSend(d, ok) \in DeviceState
<1>1. d.seq \in Tag
  BY DEF DeviceState
<1>2. NextSeq(d.seq) \in Tag
  BY <1>1, NextSeqType
<1>3. Advance(d) \in DeviceState
  BY <1>2 DEF Advance, DeviceState
<1>4. QED
  BY <1>1, <1>3 DEF AfterSend, DeviceState

\* The report ds_send builds has flags, values and a tag of the right kind.
LEMMA ReportType ==
    ASSUME NEW d \in DeviceState
    PROVE  LET r == ReportOf(d)
           IN  /\ r.flags \subseteq Field
               /\ r.value \in [Field -> Value]
               /\ r.tag \in Tag \cup {NoTag}
BY DEF ReportOf, DeviceState

\* What the controller shows and the histories stay well-typed when a report arrives.
LEMMA DeliverType ==
    ASSUME TypeOK, NEW h \in Handle, NEW ok \in BOOLEAN, Deliver(h, ReportOf(dev[h]), ok)
    PROVE  /\ shown' \in [Field -> Value]
           /\ writer' \in [Field -> Handle \cup {Nobody}]
           /\ heard' \in [Handle -> Heard]
<1> DEFINE r == ReportOf(dev[h])
<1>1. /\ r.flags \subseteq Field
      /\ r.value \in [Field -> Value]
      /\ r.tag \in Tag \cup {NoTag}
  BY ReportType DEF TypeOK
<1> HIDE DEF r
<1>2. Deliver(h, r, ok)
  BY DEF r
<1>3. shown' \in [Field -> Value]
  BY <1>1, <1>2 DEF Deliver, TypeOK
<1>4. writer' \in [Field -> Handle \cup {Nobody}]
  BY <1>1, <1>2 DEF Deliver, TypeOK
<1>5. heard' \in [Handle -> Heard]
  BY <1>1, <1>2 DEF Deliver, TypeOK, Heard
<1>6. QED
  BY <1>3, <1>4, <1>5

\* The initial states are well-typed.
LEMMA InitType == Init => TypeOK
<1> SUFFICES ASSUME Init PROVE TypeOK
  OBVIOUS
<1>1. dev \in [Handle -> DeviceState]
  BY NewDeviceType DEF Init, Conn
<1>2. link \in Link
  BY MaxEpochAssumption DEF Init, Link
<1>3. heard \in [Handle -> Heard]
  BY DEF Init, Heard, Silence
<1>4. QED
  BY <1>1, <1>2, <1>3, MaxEpochAssumption, PowerOnAssumption DEF Init, TypeOK

\* Every step, and stuttering, keeps the state well-typed.
LEMMA StepType == TypeOK /\ [Next]_vars => TypeOK'
<1> SUFFICES ASSUME TypeOK, [Next]_vars PROVE TypeOK'
  OBVIOUS
<1>1. ASSUME NEW h \in Handle, Open(h) PROVE TypeOK'
  <2>1. link.conn \in Conn /\ link.epoch \in 0 .. MaxEpoch
    BY DEF TypeOK, Link
  <2>2. dev' \in [Handle -> DeviceState]
    BY <1>1, <2>1, NewDeviceType DEF Open, TypeOK
  <2>3. QED
    BY <1>1, <2>1, <2>2 DEF Open, TypeOK
<1>2. ASSUME NEW h \in Handle, Close(h) PROVE TypeOK'
  <2>1. dev' \in [Handle -> DeviceState]
    BY <1>2, NewDeviceType DEF Close, TypeOK, Conn
  <2>2. Silence \in Heard
    BY DEF Silence, Heard
  <2>3. QED
    BY <1>2, <2>1, <2>2, MaxEpochAssumption DEF Close, TypeOK
<1>3. ASSUME NEW h \in Handle, NEW f \in Field, NEW v \in Value, SetOutput(h, f, v)
      PROVE  TypeOK'
  <2>1. dev' \in [Handle -> DeviceState]
    BY <1>3, StageType DEF SetOutput, TypeOK
  <2>2. QED
    BY <1>3, <2>1 DEF SetOutput, TypeOK
<1>4. ASSUME NEW h \in Handle, NEW f \in Field, NEW v \in Value, SetTrigger(h, f, v)
      PROVE  TypeOK'
  <2>1. dev' \in [Handle -> DeviceState]
    BY <1>4, StageType DEF SetTrigger, TypeOK
  <2>2. QED
    BY <1>4, <2>1 DEF SetTrigger, TypeOK
<1>5. ASSUME NEW h \in Handle, NEW f \in Field, RejectTrigger(h, f) PROVE TypeOK'
  <2>1. dev' \in [Handle -> DeviceState]
    BY <1>5, StageType, FreshAssumption DEF RejectTrigger, TypeOK
  <2>2. QED
    BY <1>5, <2>1 DEF RejectTrigger, TypeOK
<1>6. ASSUME NEW h \in Handle, SendOk(h) PROVE TypeOK'
  <2>1. dev' \in [Handle -> DeviceState]
    BY <1>6, AfterSendType DEF SendOk, TypeOK
  <2>2. QED
    BY <1>6, <2>1, DeliverType DEF SendOk, TypeOK
<1>7. ASSUME NEW h \in Handle, SendLost(h) PROVE TypeOK'
  <2>1. dev' \in [Handle -> DeviceState]
    BY <1>7, AfterSendType DEF SendLost, TypeOK
  <2>2. QED
    BY <1>7, <2>1 DEF SendLost, TypeOK
<1>8. ASSUME NEW h \in Handle, SendUnsure(h) PROVE TypeOK'
  <2>1. dev' \in [Handle -> DeviceState]
    BY <1>8, AfterSendType DEF SendUnsure, TypeOK
  <2>2. QED
    BY <1>8, <2>1, DeliverType DEF SendUnsure, TypeOK
<1>9. CASE Disconnect
  BY <1>9 DEF Disconnect, TypeOK, Link
<1>10. ASSUME NEW c \in Conn, Reconnect(c) PROVE TypeOK'
  <2>1. link' \in Link
    BY <1>10, MaxEpochAssumption DEF Reconnect, TypeOK, Link
  <2>2. QED
    BY <1>10, <2>1, PowerOnAssumption DEF Reconnect, TypeOK
<1>11. CASE UNCHANGED vars
  BY <1>11 DEF vars, TypeOK
<1>12. QED
  BY <1>1, <1>2, <1>3, <1>4, <1>5, <1>6, <1>7, <1>8, <1>9, <1>10, <1>11 DEF Next, Send

\* The type invariant: in particular the sequence tag never leaves its range
\* and dirty flags exist only for groups the handle has.
THEOREM TypeCorrect == Spec => []TypeOK
<1>1. QED
  BY InitType, StepType, PTL DEF Spec

-----------------------------------------------------------------------------
\* A report leaves every group it does not flag, and every other handle's
\* history, as they were; the groups it flags show the handle's staged values.
LEMMA DeliverEffect ==
    ASSUME TypeOK, NEW h \in Handle, NEW ok \in BOOLEAN, Deliver(h, ReportOf(dev[h]), ok)
    PROVE  /\ \A f \in Field :
                 IF f \in dev[h].dirty
                 THEN shown'[f] = dev[h].staged[f] /\ writer'[f] = h
                 ELSE shown'[f] = shown[f] /\ writer'[f] = writer[f]
           /\ heard'[h].ok = ok
           /\ heard'[h].tag = IF dev[h].conn = "bt" THEN dev[h].seq ELSE NoTag
           /\ \A k \in Handle \ {h} : heard'[k] = heard[k]
BY DEF Deliver, ReportOf, TypeOK

\* What ds_send does to the handle: the staged values stay, success cleans
\* every flag and advances the tag on Bluetooth, failure changes nothing.
LEMMA AfterSendEffect ==
    ASSUME NEW d \in DeviceState, NEW ok \in BOOLEAN
    PROVE  /\ AfterSend(d, ok).staged = d.staged
           /\ AfterSend(d, ok).conn = d.conn
           /\ AfterSend(d, ok).dirty = IF ok THEN {} ELSE d.dirty
           /\ AfterSend(d, ok).seq = IF ok /\ d.conn = "bt" THEN NextSeq(d.seq) ELSE d.seq
BY DEF AfterSend, Advance, DeviceState

\* The setters, accepted or not, mark their group and touch no other.
LEMMA StageEffect ==
    ASSUME NEW d \in DeviceState, NEW f \in Field, NEW v \in Value,
           NEW e \in {Stage(d, f, v), TriggerAccepted(d, f, v), TriggerRejected(d, f)}
    PROVE  /\ e.seq = d.seq
           /\ e.dirty = d.dirty \cup {f}
           /\ \A g \in Field \ {f} : e.staged[g] = d.staged[g]
BY DEF Stage, TriggerAccepted, TriggerRejected, TriggerBuf, DeviceState

\* A step that only stages on one handle keeps the invariant's four parts.
LEMMA StagingKeepsInv ==
    ASSUME IInv, NEW h \in opened, NEW f \in Field, NEW v \in Value, TypeOK',
           NEW e \in {Stage(dev[h], f, v), TriggerAccepted(dev[h], f, v),
                       TriggerRejected(dev[h], f)},
           dev' = [dev EXCEPT ![h] = e],
           UNCHANGED <<opened, link, shown, writer, heard>>
    PROVE  IInv'
<1>1. h \in Handle /\ dev[h] \in DeviceState
  BY DEF IInv, TypeOK
<1>2. /\ e.seq = dev[h].seq
      /\ e.dirty = dev[h].dirty \cup {f}
      /\ \A g \in Field \ {f} : e.staged[g] = dev[h].staged[g]
  BY <1>1, StageEffect
<1>3. \A k \in Handle : dev'[k] = IF k = h THEN e ELSE dev[k]
  BY <1>1 DEF IInv, TypeOK
<1>4. CleanFieldsAgree'
  BY <1>1, <1>2, <1>3 DEF CleanFieldsAgree, IInv, TypeOK
<1>5. TagsInStep'
  BY <1>1, <1>2, <1>3 DEF TagsInStep, IInv, TypeOK
<1>6. QED
  BY <1>4, <1>5 DEF IInv, HistoryOfOpenHandles

\* A step of ds_send that delivers its report keeps the invariant's parts,
\* whatever write() returned.
LEMMA SendKeepsInv ==
    ASSUME IInv, TypeOK', NEW h \in opened, NEW ok \in BOOLEAN,
           Deliver(h, ReportOf(dev[h]), ok),
           dev' = [dev EXCEPT ![h] = AfterSend(@, ok)],
           UNCHANGED opened
    PROVE  IInv'
<1>1. h \in Handle /\ dev[h] \in DeviceState /\ TypeOK
  BY DEF IInv, TypeOK
<1> DEFINE e == AfterSend(dev[h], ok)
<1>2. /\ e.staged = dev[h].staged
      /\ e.dirty = IF ok THEN {} ELSE dev[h].dirty
      /\ e.seq = IF ok /\ dev[h].conn = "bt" THEN NextSeq(dev[h].seq) ELSE dev[h].seq
  BY <1>1, AfterSendEffect
<1>3. \A k \in Handle : dev'[k] = IF k = h THEN e ELSE dev[k]
  BY <1>1 DEF TypeOK
<1> HIDE DEF e
<1>4. /\ \A f \in Field :
            IF f \in dev[h].dirty
            THEN shown'[f] = dev[h].staged[f] /\ writer'[f] = h
            ELSE shown'[f] = shown[f] /\ writer'[f] = writer[f]
      /\ heard'[h].ok = ok
      /\ heard'[h].tag = IF dev[h].conn = "bt" THEN dev[h].seq ELSE NoTag
      /\ \A k \in Handle \ {h} : heard'[k] = heard[k]
  BY <1>1, DeliverEffect
<1>5. opened \subseteq Handle
  BY <1>1 DEF TypeOK
<1>6. CleanFieldsAgree'
  <2> SUFFICES ASSUME NEW k \in opened, NEW f \in Field,
                      writer'[f] = k, f \notin dev'[k].dirty
               PROVE  shown'[f] = dev'[k].staged[f]
    BY DEF CleanFieldsAgree
  <2>1. CASE f \in dev[h].dirty
    BY <2>1, <1>2, <1>3, <1>4, <1>5
  <2>2. CASE f \notin dev[h].dirty
    <3>1. shown'[f] = shown[f] /\ writer[f] = k
      BY <2>2, <1>4
    <3>2. f \notin dev[k].dirty
      BY <2>2, <1>3, <1>5
    <3>3. dev'[k].staged = dev[k].staged
      BY <1>2, <1>3, <1>5
    <3>4. QED
      BY <3>1, <3>2, <3>3 DEF IInv, CleanFieldsAgree
  <2>3. QED
    BY <2>1, <2>2
<1>7. TagsInStep'
  <2> SUFFICES ASSUME NEW k \in opened, heard'[k].tag # NoTag
               PROVE  dev'[k].seq = IF heard'[k].ok THEN NextSeq(heard'[k].tag)
                                                    ELSE heard'[k].tag
    BY DEF TagsInStep
  <2>1. CASE k = h
    BY <2>1, <1>1, <1>2, <1>3, <1>4
  <2>2. CASE k # h
    BY <2>2, <1>3, <1>4, <1>5 DEF IInv, TagsInStep
  <2>3. QED
    BY <2>1, <2>2
<1>8. HistoryOfOpenHandles'
  BY <1>4, <1>5 DEF IInv, HistoryOfOpenHandles
<1>9. QED
  BY <1>6, <1>7, <1>8 DEF IInv

\* The inductive invariant holds of every behaviour.
THEOREM InvariantCorrect == Spec => []IInv
<1>1. Init => IInv
  <2> SUFFICES ASSUME Init, TypeOK PROVE IInv
    BY InitType
  <2>1. HistoryOfOpenHandles
    BY DEF Init, HistoryOfOpenHandles
  <2>2. CleanFieldsAgree /\ TagsInStep
    BY DEF Init, CleanFieldsAgree, TagsInStep
  <2>3. QED
    BY <2>1, <2>2 DEF IInv
<1>2. IInv /\ [Next]_vars => IInv'
  <2> SUFFICES ASSUME IInv, [Next]_vars PROVE IInv'
    OBVIOUS
  <2>1. TypeOK /\ TypeOK'
    BY StepType DEF IInv
  <2>2. opened \subseteq Handle
    BY <2>1 DEF TypeOK
  <2>3. ASSUME NEW h \in Handle, Open(h) PROVE IInv'
    <3>1. HistoryOfOpenHandles'
      BY <2>3 DEF Open, IInv, HistoryOfOpenHandles
    <3>2. heard[h] = Silence
      BY <2>3 DEF Open, IInv, HistoryOfOpenHandles
    <3>3. \A f \in Field : writer[f] # h
      BY <2>3, NobodyAssumption DEF Open, IInv, HistoryOfOpenHandles
    <3>4. \A k \in Handle \ {h} : dev'[k] = dev[k]
      BY <2>3, <2>1 DEF Open, TypeOK
    <3>5. CleanFieldsAgree'
      BY <2>3, <2>2, <3>3, <3>4 DEF Open, IInv, CleanFieldsAgree
    <3>6. TagsInStep'
      BY <2>3, <2>2, <3>2, <3>4 DEF Open, IInv, TagsInStep, Silence
    <3>7. QED
      BY <2>1, <3>1, <3>5, <3>6 DEF IInv
  <2>4. ASSUME NEW h \in Handle, Close(h) PROVE IInv'
    <3>1. \A k \in Handle \ {h} : dev'[k] = dev[k] /\ heard'[k] = heard[k]
      BY <2>4, <2>1 DEF Close, TypeOK
    <3>2. heard'[h] = Silence
      BY <2>4, <2>1 DEF Close, TypeOK
    <3>3. HistoryOfOpenHandles'
      BY <2>4, <2>1, <3>1, <3>2 DEF Close, IInv, HistoryOfOpenHandles, TypeOK
    <3>4. CleanFieldsAgree'
      <4> SUFFICES ASSUME NEW k \in opened', NEW f \in Field,
                          writer'[f] = k, f \notin dev'[k].dirty
                   PROVE  shown'[f] = dev'[k].staged[f]
        BY DEF CleanFieldsAgree
      <4>1. k \in opened /\ k \in Handle \ {h}
        BY <2>4, <2>2 DEF Close
      <4>2. writer[f] = k
        BY <2>4, <4>1, NobodyAssumption DEF Close
      <4>3. QED
        BY <2>4, <3>1, <4>1, <4>2 DEF Close, IInv, CleanFieldsAgree
    <3>5. TagsInStep'
      BY <2>4, <2>2, <3>1 DEF Close, IInv, TagsInStep
    <3>6. QED
      BY <2>1, <3>3, <3>4, <3>5 DEF IInv
  <2>5. ASSUME NEW h \in Handle, NEW f \in Field, NEW v \in Value, SetOutput(h, f, v)
        PROVE  IInv'
    BY <2>5, <2>1, StagingKeepsInv DEF SetOutput
  <2>6. ASSUME NEW h \in Handle, NEW f \in Field, NEW v \in Value, SetTrigger(h, f, v)
        PROVE  IInv'
    BY <2>6, <2>1, StagingKeepsInv DEF SetTrigger
  <2>7. ASSUME NEW h \in Handle, NEW f \in Field, RejectTrigger(h, f) PROVE IInv'
    BY <2>7, <2>1, StagingKeepsInv, FreshAssumption DEF RejectTrigger
  <2>8. ASSUME NEW h \in Handle, SendOk(h) PROVE IInv'
    BY <2>8, <2>1, SendKeepsInv DEF SendOk
  <2>9. ASSUME NEW h \in Handle, SendUnsure(h) PROVE IInv'
    BY <2>9, <2>1, SendKeepsInv DEF SendUnsure
  <2>10. ASSUME NEW h \in Handle, SendLost(h) PROVE IInv'
    <3>1. dev[h] \in DeviceState
      BY <2>1 DEF TypeOK
    <3>2. /\ AfterSend(dev[h], FALSE).staged = dev[h].staged
          /\ AfterSend(dev[h], FALSE).dirty = dev[h].dirty
          /\ AfterSend(dev[h], FALSE).seq = dev[h].seq
      BY <3>1, AfterSendEffect
    <3>3. \A k \in Handle : /\ dev'[k].staged = dev[k].staged
                            /\ dev'[k].dirty = dev[k].dirty
                            /\ dev'[k].seq = dev[k].seq
      BY <2>10, <2>1, <3>2 DEF SendLost, TypeOK
    <3>4. UNCHANGED <<opened, shown, writer, heard>>
      BY <2>10 DEF SendLost
    <3>5. CleanFieldsAgree'
      BY <2>2, <3>3, <3>4 DEF IInv, CleanFieldsAgree
    <3>6. TagsInStep'
      BY <2>2, <3>3, <3>4 DEF IInv, TagsInStep
    <3>7. QED
      BY <2>1, <3>4, <3>5, <3>6 DEF IInv, HistoryOfOpenHandles
  <2>11. CASE Disconnect
    BY <2>11, <2>1 DEF Disconnect, IInv, HistoryOfOpenHandles, CleanFieldsAgree, TagsInStep
  <2>12. ASSUME NEW c \in Conn, Reconnect(c) PROVE IInv'
    <3>1. HistoryOfOpenHandles'
      BY <2>12 DEF Reconnect, IInv, HistoryOfOpenHandles
    <3>2. CleanFieldsAgree'
      BY <2>12, <2>2, NobodyAssumption DEF Reconnect, CleanFieldsAgree
    <3>3. TagsInStep'
      BY <2>12 DEF Reconnect, IInv, TagsInStep
    <3>4. QED
      BY <2>1, <3>1, <3>2, <3>3 DEF IInv
  <2>13. CASE UNCHANGED vars
    BY <2>13, <2>1 DEF vars, IInv, HistoryOfOpenHandles, CleanFieldsAgree, TagsInStep
  <2>14. QED
    BY <2>3, <2>4, <2>5, <2>6, <2>7, <2>8, <2>9, <2>10, <2>11, <2>12, <2>13 DEF Next, Send
<1>3. QED
  BY <1>1, <1>2, PTL DEF Spec

\* No failure, retry or interleaving of handles makes a clean group of a handle
\* differ from what the controller shows of it.
THEOREM CleanFieldsAgreeCorrect == Spec => []CleanFieldsAgree
<1>1. IInv => CleanFieldsAgree
  BY DEF IInv
<1>2. QED
  BY <1>1, InvariantCorrect, PTL

\* The tags the controller hears from a handle are consecutive modulo SeqTags.
THEOREM TagsInStepCorrect == Spec => []TagsInStep
<1>1. IInv => TagsInStep
  BY DEF IInv
<1>2. QED
  BY <1>1, InvariantCorrect, PTL

-----------------------------------------------------------------------------
\* The variables of OutputBuffer as the handles give them.
LastGiven == [h \in Handle |-> dev[h].staged]
AllPending == [h \in Handle |-> Pending(h)]
BufferView == <<shown, LastGiven, AllPending>>

\* A handle without dirty flags has nothing pending.
LEMMA NothingPending == ASSUME NEW h, dev[h].dirty = {} PROVE Pending(h) = Buffers!NoChanges
BY DEF Pending, Buffers!NoChanges

\* A step that replaces the struct of one handle changes what that handle was
\* last given and has pending, and nothing of any other handle.
LEMMA OneHandleView ==
    ASSUME TypeOK, NEW h \in Handle, NEW d, dev' = [dev EXCEPT ![h] = d]
    PROVE  /\ LastGiven' = [LastGiven EXCEPT ![h] = d.staged]
           /\ AllPending' = [AllPending EXCEPT ![h] = [f \in d.dirty |-> d.staged[f]]]
<1>1. \A k \in Handle : dev'[k] = IF k = h THEN d ELSE dev[k]
  BY DEF TypeOK
<1>2. \A k \in Handle : Pending(k)' = IF k = h THEN [f \in d.dirty |-> d.staged[f]]
                                               ELSE Pending(k)
  BY <1>1 DEF Pending
<1>3. LastGiven' = [LastGiven EXCEPT ![h] = d.staged]
  <2>1. \A k \in Handle : dev[k].staged' = IF k = h THEN d.staged ELSE dev[k].staged
    BY <1>1
  <2>2. QED
    BY <2>1 DEF LastGiven
<1>4. AllPending' = [AllPending EXCEPT ![h] = [f \in d.dirty |-> d.staged[f]]]
  BY <1>2 DEF AllPending
<1>5. QED
  BY <1>3, <1>4

\* A step that leaves the staged values and the flags of every handle alone
\* leaves the view of the buffers alone.
LEMMA SameView ==
    ASSUME \A k \in Handle : dev'[k].staged = dev[k].staged /\ dev'[k].dirty = dev[k].dirty
    PROVE  UNCHANGED <<LastGiven, AllPending>>
BY DEF LastGiven, AllPending, Pending

\* A setter that returns void, and a trigger call that returns 0, put one value
\* into the buffer of their handle.
LEMMA StagingIsPut ==
    ASSUME TypeOK, NEW h \in Handle, NEW f \in Field, NEW v \in Value,
           NEW e \in {Stage(dev[h], f, v), TriggerAccepted(dev[h], f, v)},
           dev' = [dev EXCEPT ![h] = e], UNCHANGED shown
    PROVE  Buffers!Put(h, f, v)
<1>1. dev[h] \in DeviceState
  BY DEF TypeOK
<1>2. e.staged = [dev[h].staged EXCEPT ![f] = v] /\ e.dirty = dev[h].dirty \cup {f}
  BY <1>1 DEF Stage, TriggerAccepted, TriggerBuf, DeviceState
<1>3. [g \in e.dirty |-> e.staged[g]]
        = [g \in DOMAIN Pending(h) \cup {f} |-> IF g = f THEN v ELSE Pending(h)[g]]
  BY <1>1, <1>2 DEF Pending, DeviceState
<1>4. LastGiven' = [LastGiven EXCEPT ![h][f] = v]
  <2>1. LastGiven' = [LastGiven EXCEPT ![h] = e.staged]
    BY OneHandleView
  <2>2. LastGiven[h] = dev[h].staged
    BY DEF LastGiven
  <2>3. QED
    BY <1>2, <2>1, <2>2
<1>5. AllPending' = [AllPending EXCEPT ![h] =
                        [g \in DOMAIN @ \cup {f} |-> IF g = f THEN v ELSE @[g]]]
  <2>1. AllPending' = [AllPending EXCEPT ![h] = [g \in e.dirty |-> e.staged[g]]]
    BY OneHandleView
  <2>2. AllPending[h] = Pending(h)
    BY DEF AllPending
  <2>3. QED
    BY <1>3, <2>1, <2>2
<1>6. QED
  BY <1>4, <1>5 DEF Buffers!Put, Buffers!Buffer, LastGiven, AllPending

\* A trigger call that returns -1 puts the trigger's old value into the buffer.
LEMMA RejectionIsRepeat ==
    ASSUME TypeOK, NEW h \in Handle, NEW f \in Field, RejectTrigger(h, f)
    PROVE  Buffers!Repeat(h, f)
<1> DEFINE e == TriggerRejected(dev[h], f)
<1>1. dev[h] \in DeviceState
  BY DEF TypeOK
<1>2. e.staged = dev[h].staged /\ e.dirty = dev[h].dirty \cup {f}
  BY <1>1 DEF TriggerRejected, TriggerBuf, DeviceState
<1>3. dev' = [dev EXCEPT ![h] = e] /\ UNCHANGED shown /\ f \in TriggerField
  BY DEF RejectTrigger
<1> HIDE DEF e
<1>4. [g \in e.dirty |-> e.staged[g]]
        = [g \in DOMAIN Pending(h) \cup {f} |->
              IF g = f THEN dev[h].staged[f] ELSE Pending(h)[g]]
  BY <1>1, <1>2 DEF Pending, DeviceState
<1>5. [LastGiven EXCEPT ![h] = e.staged] = LastGiven
  BY <1>2 DEF LastGiven
<1>6. LastGiven' = LastGiven
  BY <1>3, <1>5, OneHandleView
<1>7. AllPending' = [AllPending EXCEPT ![h] =
                        [g \in DOMAIN @ \cup {f} |-> IF g = f THEN LastGiven[h][f] ELSE @[g]]]
  <2>1. AllPending' = [AllPending EXCEPT ![h] = [g \in e.dirty |-> e.staged[g]]]
    BY <1>3, OneHandleView
  <2>2. AllPending[h] = Pending(h) /\ LastGiven[h] = dev[h].staged
    BY DEF AllPending, LastGiven
  <2>3. QED
    BY <1>4, <2>1, <2>2
<1>8. QED
  BY <1>3, <1>6, <1>7 DEF Buffers!Repeat, Buffers!Buffer, LastGiven, AllPending

\* Opening and closing a handle forget what it had staged.
LEMMA RenewalIsForget ==
    ASSUME TypeOK, NEW h \in Handle, NEW c \in Conn,
           dev' = [dev EXCEPT ![h] = NewDevice(c)], UNCHANGED shown
    PROVE  Buffers!Forget(h)
<1>1. /\ NewDevice(c).staged = [f \in Field |-> Fresh]
      /\ [f \in NewDevice(c).dirty |-> NewDevice(c).staged[f]] = Buffers!NoChanges
  BY DEF NewDevice, Buffers!NoChanges
<1>2. /\ LastGiven' = [LastGiven EXCEPT ![h] = [f \in Field |-> Fresh]]
      /\ AllPending' = [AllPending EXCEPT ![h] = Buffers!NoChanges]
  BY <1>1, OneHandleView
<1>3. Buffers!Field = Field
  BY DEF Buffers!Field, Field
<1>4. QED
  BY <1>2, <1>3 DEF Buffers!Forget, LastGiven, AllPending

\* A report that arrives publishes all pending changes of its handle and
\* nothing else, and is forgotten by the handle exactly when write() said so.
LEMMA DeliveryIsFlush ==
    ASSUME TypeOK, NEW h \in Handle, NEW ok \in BOOLEAN,
           Deliver(h, ReportOf(dev[h]), ok), dev' = [dev EXCEPT ![h] = AfterSend(@, ok)]
    PROVE  IF ok THEN Buffers!Flush(h) ELSE Buffers!FlushUnsure(h)
<1> DEFINE e == AfterSend(dev[h], ok)
<1>1. dev[h] \in DeviceState
  BY DEF TypeOK
<1>2. e.staged = dev[h].staged /\ e.dirty = IF ok THEN {} ELSE dev[h].dirty
  BY <1>1, AfterSendEffect
<1>3. dev' = [dev EXCEPT ![h] = e]
  OBVIOUS
<1> HIDE DEF e
<1>4. shown' = Buffers!Applied(Pending(h))
  BY <1>1 DEF Deliver, ReportOf, Buffers!Applied, Buffers!Field, Field, Pending
<1>5. [LastGiven EXCEPT ![h] = e.staged] = LastGiven
  BY <1>2 DEF LastGiven
<1>6. CASE ok
  <2>1. [f \in e.dirty |-> e.staged[f]] = Buffers!NoChanges
    BY <1>2, <1>6 DEF Buffers!NoChanges
  <2>2. LastGiven' = LastGiven /\ AllPending' = [AllPending EXCEPT ![h] = Buffers!NoChanges]
    BY <1>3, <1>5, <2>1, OneHandleView
  <2>3. AllPending[h] = Pending(h)
    BY DEF AllPending
  <2>4. QED
    BY <1>4, <1>6, <2>2, <2>3 DEF Buffers!Flush, LastGiven, AllPending
<1>7. CASE ~ok
  <2>1. \A k \in Handle : dev'[k].staged = dev[k].staged /\ dev'[k].dirty = dev[k].dirty
    BY <1>2, <1>3, <1>7 DEF TypeOK
  <2>2. LastGiven' = LastGiven /\ AllPending' = AllPending
    BY <2>1, SameView
  <2>3. AllPending[h] = Pending(h)
    BY DEF AllPending
  <2>4. QED
    BY <1>4, <1>7, <2>2, <2>3 DEF Buffers!FlushUnsure, LastGiven, AllPending
<1>8. QED
  BY <1>6, <1>7

\* Every step of the handles is one of the buffers, or changes nothing of them.
LEMMA StepRefines == TypeOK /\ [Next]_vars => [Buffers!Next]_BufferView
<1> SUFFICES ASSUME TypeOK, [Next]_vars PROVE [Buffers!Next]_BufferView
  OBVIOUS
<1>1. ASSUME NEW h \in Handle, Open(h) PROVE Buffers!Next
  <2>1. link.conn \in Conn
    BY DEF TypeOK, Link
  <2>2. Buffers!Forget(h)
    BY <1>1, <2>1, RenewalIsForget DEF Open
  <2>3. QED
    BY <2>2 DEF Buffers!Next
<1>2. ASSUME NEW h \in Handle, Close(h) PROVE Buffers!Next
  <2>1. Buffers!Forget(h)
    BY <1>2, RenewalIsForget DEF Close, Conn
  <2>2. QED
    BY <2>1 DEF Buffers!Next
<1>3. ASSUME NEW h \in Handle, NEW f \in Field, NEW v \in Value,
             SetOutput(h, f, v) \/ SetTrigger(h, f, v)
      PROVE  Buffers!Next
  <2>1. Buffers!Put(h, f, v)
    BY <1>3, StagingIsPut DEF SetOutput, SetTrigger
  <2>2. QED
    BY <2>1 DEF Buffers!Next, Buffers!Field, Field
<1>4. ASSUME NEW h \in Handle, NEW f \in Field, RejectTrigger(h, f) PROVE Buffers!Next
  BY <1>4, RejectionIsRepeat DEF Buffers!Next, Buffers!Field, Field
<1>5. ASSUME NEW h \in Handle, SendOk(h) PROVE Buffers!Next
  <2>1. Buffers!Flush(h)
    BY <1>5, DeliveryIsFlush DEF SendOk
  <2>2. QED
    BY <2>1 DEF Buffers!Next
<1>6. ASSUME NEW h \in Handle, SendUnsure(h) PROVE Buffers!Next
  <2>1. Buffers!FlushUnsure(h)
    BY <1>6, DeliveryIsFlush DEF SendUnsure
  <2>2. QED
    BY <2>1 DEF Buffers!Next
<1>7. ASSUME NEW h \in Handle, SendLost(h) PROVE UNCHANGED BufferView
  <2>1. dev[h] \in DeviceState
    BY DEF TypeOK
  <2>2. /\ AfterSend(dev[h], FALSE).staged = dev[h].staged
        /\ AfterSend(dev[h], FALSE).dirty = dev[h].dirty
    BY <2>1, AfterSendEffect
  <2>3. \A k \in Handle : dev'[k].staged = dev[k].staged /\ dev'[k].dirty = dev[k].dirty
    BY <1>7, <2>2 DEF SendLost, TypeOK
  <2>4. QED
    BY <1>7, <2>3, SameView DEF SendLost, BufferView
<1>8. CASE Disconnect
  BY <1>8 DEF Disconnect, BufferView, LastGiven, AllPending, Pending
<1>9. ASSUME NEW c \in Conn, Reconnect(c) PROVE Buffers!Next
  <2>1. Buffers!PowerCycle
    BY <1>9 DEF Reconnect, Buffers!PowerCycle, Buffers!Field, Field, Pending
  <2>2. QED
    BY <2>1 DEF Buffers!Next
<1>10. CASE UNCHANGED vars
  BY <1>10 DEF vars, BufferView, LastGiven, AllPending, Pending
<1>11. QED
  BY <1>1, <1>2, <1>3, <1>4, <1>5, <1>6, <1>7, <1>8, <1>9, <1>10 DEF Next, Send

\* The handles implement private write-back buffers in front of one shared
\* controller, whatever ds_send, the link and the other processes do.
THEOREM DeviceImplementsBuffers == Spec => ImplementsBuffers
<1>1. Init => Buffers!Init
  <2> SUFFICES ASSUME Init PROVE Buffers!Init
    OBVIOUS
  <2>1. \A h \in Handle : dev[h].staged = [f \in Field |-> Fresh] /\ Pending(h) = Buffers!NoChanges
    BY DEF Init, NewDevice, Pending, Buffers!NoChanges
  <2>2. QED
    BY <2>1 DEF Init, Buffers!Init, Buffers!Field, Field
<1>2. TypeOK /\ [Next]_vars => [Buffers!Next]_Buffers!vars
  BY StepRefines DEF BufferView, LastGiven, AllPending, Buffers!vars
<1>3. QED
  BY <1>1, <1>2, TypeCorrect, PTL DEF Spec, ImplementsBuffers, Buffers!Spec
=============================================================================
