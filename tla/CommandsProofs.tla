---------------------------- MODULE CommandsProofs ----------------------------
(***************************************************************************)
(* Proofs about Commands for any number of controllers, groups and values. *)
(***************************************************************************)
EXTENDS Commands, TLAPS

Instruction == NativeInstruction \cup DsxInstruction

\* What is due while a handler runs: a change on a controller whose last send
\* did not fail belongs to a packet that will send it, or to a send to come.
DueIsComing ==
    \A i \in Device : dev[i].dirty # {} =>
        \/ i \in lost
        \/ job.at = "packet" /\ job.modified
        \/ job.at = "flush" /\ job.next <= i

\* Nothing is staged between a success reply and the next event.
OkIsClean == answer.text = "ok" => dev[answer.device].dirty = {}

IInv == TypeOK /\ NothingForgotten /\ DueIsComing /\ OkIsClean

-----------------------------------------------------------------------------
\* Requests and instructions.

\* A request is a function from some of the groups to values.
LEMMA RequestIsFunction ==
    ASSUME NEW r \in Request
    PROVE  /\ DOMAIN r \subseteq Field
           /\ r \in [DOMAIN r -> Value]
BY DEF Request

\* Every function from some of the groups to values is a request.
LEMMA FunctionIsRequest ==
    ASSUME NEW fields \in SUBSET Field, NEW r \in [fields -> Value]
    PROVE  r \in Request /\ DOMAIN r = fields
BY DEF Request

\* The reset touches groups of the struct.
LEMMA ResetFieldsType == ResetFields \subseteq Field
BY CommandsAssumption DEF ResetFields, Field

\* What an instruction validly asks for is a request.
LEMMA GivenByType ==
    ASSUME NEW ins \in Instruction
    PROVE  GivenBy(ins) \in Request
<1>1. CASE ins.op = "set"
  <2>1. ins.field \in Field /\ ins.value \in Value
    BY <1>1 DEF Instruction, NativeInstruction, DsxInstruction, Sets, Rejects
  <2>2. [f \in {ins.field} |-> ins.value] \in [{ins.field} -> Value]
    BY <2>1
  <2>3. GivenBy(ins) = [f \in {ins.field} |-> ins.value]
    BY <1>1 DEF GivenBy
  <2>4. QED
    BY <2>1, <2>2, <2>3, FunctionIsRequest
<1>2. CASE ins.op = "reset"
  <2>1. [f \in ResetFields |-> Fresh] \in [ResetFields -> Value]
    BY FreshAssumption
  <2>2. GivenBy(ins) = [f \in ResetFields |-> Fresh]
    BY <1>2 DEF GivenBy
  <2>3. QED
    BY <2>1, <2>2, ResetFieldsType, FunctionIsRequest
<1>3. CASE ins.op \notin {"set", "reset"}
  <2>1. NoRequest \in [{} -> Value]
    BY DEF NoRequest
  <2>2. GivenBy(ins) = NoRequest
    BY <1>3 DEF GivenBy
  <2>3. QED
    BY <2>1, <2>2, FunctionIsRequest
<1>4. QED
  BY <1>1, <1>2, <1>3

\* The history after an instruction: what it gave, and what was there before.
LEMMA GivenEffect ==
    ASSUME NEW history \in Request, NEW ins \in Instruction
    PROVE  LET new == GivenBy(ins)
               after == Given(history, ins)
           IN  /\ after \in Request
               /\ DOMAIN after = DOMAIN new \cup DOMAIN history
               /\ \A f \in DOMAIN new : after[f] = new[f]
               /\ \A f \in DOMAIN history \ DOMAIN new : after[f] = history[f]
<1> DEFINE new == GivenBy(ins)
           after == Given(history, ins)
           fields == DOMAIN new \cup DOMAIN history
<1>1. new \in [DOMAIN new -> Value] /\ DOMAIN new \subseteq Field
  BY GivenByType, RequestIsFunction
<1>2. history \in [DOMAIN history -> Value] /\ DOMAIN history \subseteq Field
  BY RequestIsFunction
<1>3. after = [f \in fields |-> IF f \in DOMAIN new THEN new[f] ELSE history[f]]
  BY DEF Given
<1> HIDE DEF new
<1>4. /\ after \in [fields -> Value]
      /\ fields \subseteq Field
  BY <1>1, <1>2, <1>3
<1>5. after \in Request
  BY <1>4, FunctionIsRequest
<1>6. QED
  BY <1>3, <1>5 DEF new

\* Staging an instruction gives the handle what was asked, keeps the rest, and
\* forgets no change that is due.
LEMMA StageEffect ==
    ASSUME NEW d \in DeviceState, NEW ins \in Instruction
    PROVE  LET new == GivenBy(ins)
               after == StageInstruction(d, ins)
           IN  /\ after \in DeviceState
               /\ d.dirty \subseteq after.dirty
               /\ \A f \in DOMAIN new : after.staged[f] = new[f] /\ f \in after.dirty
               /\ \A f \in Field \ DOMAIN new : after.staged[f] = d.staged[f]
               /\ ~Modifies(ins) => after = d
<1>1. CASE ins.op = "set"
  <2>1. ins.field \in Field /\ ins.value \in Value
    BY <1>1 DEF Instruction, NativeInstruction, DsxInstruction, Sets, Rejects
  <2>2. GivenBy(ins) = [f \in {ins.field} |-> ins.value]
    BY <1>1 DEF GivenBy
  <2>3. /\ DOMAIN GivenBy(ins) = {ins.field}
        /\ GivenBy(ins)[ins.field] = ins.value
    BY <2>2
  <2>4. StageInstruction(d, ins) = Stage(d, ins.field, ins.value)
    <3>1. CASE ins.field \in PlainField
      BY <1>1, <3>1, FieldAssumption DEF StageInstruction
    <3>2. CASE ins.field \in TriggerField
      <4>1. StageInstruction(d, ins) = TriggerAccepted(d, ins.field, ins.value)
        BY <1>1, <3>2, FieldAssumption DEF StageInstruction
      <4>2. QED
        BY <4>1, <2>1 DEF TriggerAccepted, TriggerBuf, Stage, DeviceState
    <3>3. QED
      BY <2>1, <3>1, <3>2 DEF Field
  <2>5. /\ Stage(d, ins.field, ins.value) \in DeviceState
        /\ Stage(d, ins.field, ins.value).dirty = d.dirty \cup {ins.field}
        /\ Stage(d, ins.field, ins.value).staged = [d.staged EXCEPT ![ins.field] = ins.value]
    BY <2>1 DEF Stage, DeviceState
  <2>6. d.staged \in [Field -> Value]
    BY DEF DeviceState
  <2>7. QED
    BY <1>1, <2>1, <2>3, <2>4, <2>5, <2>6 DEF Modifies
<1>2. CASE ins.op = "reject"
  <2>1. ins.field \in Field
    BY <1>2 DEF Instruction, NativeInstruction, DsxInstruction, Sets, Rejects, Field
  <2>2. DOMAIN GivenBy(ins) = {}
    BY <1>2 DEF GivenBy, NoRequest
  <2>3. StageInstruction(d, ins) = [d EXCEPT !.dirty = @ \cup {ins.field}]
    BY <1>2 DEF StageInstruction, TriggerRejected, TriggerBuf
  <2>4. QED
    BY <1>2, <2>1, <2>2, <2>3 DEF DeviceState, Modifies
<1>3. CASE ins.op = "reset"
  <2>1. GivenBy(ins) = [f \in ResetFields |-> Fresh]
    BY <1>3 DEF GivenBy
  <2>2. StageInstruction(d, ins) = ResetOf(d)
    BY <1>3 DEF StageInstruction
  <2>3. /\ ResetOf(d) \in DeviceState
        /\ ResetOf(d).dirty = d.dirty \cup ResetFields
        /\ \A f \in Field : ResetOf(d).staged[f] =
                                IF f \in ResetFields THEN Fresh ELSE d.staged[f]
    BY ResetFieldsType, FreshAssumption DEF ResetOf, DeviceState
  <2>4. QED
    BY <1>3, <2>1, <2>2, <2>3, ResetFieldsType DEF Modifies
<1>4. CASE ins.op \notin {"set", "reject", "reset"}
  <2>1. DOMAIN GivenBy(ins) = {}
    BY <1>4 DEF GivenBy, NoRequest
  <2>2. StageInstruction(d, ins) = d
    BY <1>4 DEF StageInstruction
  <2>3. QED
    BY <2>1, <2>2
<1>5. QED
  BY <1>1, <1>2, <1>3, <1>4

\* ds_send leaves what is staged, and what is due unless it succeeds.
LEMMA AfterSendEffect ==
    ASSUME NEW d \in DeviceState, NEW fine \in BOOLEAN
    PROVE  /\ AfterSend(d, fine) \in DeviceState
           /\ AfterSend(d, fine).staged = d.staged
           /\ AfterSend(d, fine).dirty = IF fine THEN {} ELSE d.dirty
<1>1. d.seq \in Tag
  BY DEF DeviceState
<1>2. NextSeq(d.seq) \in Tag
  BY <1>1, SeqTagsAssumption DEF NextSeq, Tag
<1>3. Advance(d) \in DeviceState /\ Advance(d).staged = d.staged /\ Advance(d).dirty = d.dirty
  BY <1>2 DEF Advance, DeviceState
<1>4. QED
  BY <1>1, <1>3 DEF AfterSend, DeviceState

-----------------------------------------------------------------------------
\* Controller i's part of NothingForgotten, for a handle, a request and what the
\* controller shows.
Kept(d, r, s) ==
    \A f \in DOMAIN r : d.staged[f] = r[f] /\ (f \in d.dirty \/ s[f] = r[f])

\* Staging an instruction keeps all that was asked before and adds what it asks.
LEMMA StagingKeeps ==
    ASSUME NEW d \in DeviceState, NEW ins \in Instruction, NEW r \in Request,
           NEW s \in [Field -> Value], Kept(d, r, s)
    PROVE  Kept(StageInstruction(d, ins), Given(r, ins), s)
<1> DEFINE after == StageInstruction(d, ins)
           new == GivenBy(ins)
           req == Given(r, ins)
<1>1. /\ d.dirty \subseteq after.dirty
      /\ \A f \in DOMAIN new : after.staged[f] = new[f] /\ f \in after.dirty
      /\ \A f \in Field \ DOMAIN new : after.staged[f] = d.staged[f]
  BY StageEffect
<1>2. /\ DOMAIN req = DOMAIN new \cup DOMAIN r
      /\ \A f \in DOMAIN new : req[f] = new[f]
      /\ \A f \in DOMAIN r \ DOMAIN new : req[f] = r[f]
  BY GivenEffect
<1>3. DOMAIN r \subseteq Field
  BY RequestIsFunction
<1> HIDE DEF after, new, req
<1>4. Kept(after, req, s)
  BY <1>1, <1>2, <1>3 DEF Kept
<1>5. QED
  BY <1>4 DEF after, req

\* What the controller shows after a send.
ShownAfter(d, s, fine) ==
    [f \in Field |-> IF fine /\ f \in ReportOf(d).flags THEN ReportOf(d).value[f] ELSE s[f]]

\* A send keeps all that was asked: it brings what was due, or leaves it due.
LEMMA SendingKeeps ==
    ASSUME NEW d \in DeviceState, NEW r \in Request, NEW s \in [Field -> Value],
           NEW fine \in BOOLEAN, Kept(d, r, s)
    PROVE  /\ Kept(AfterSend(d, fine), r, ShownAfter(d, s, fine))
           /\ ShownAfter(d, s, fine) \in [Field -> Value]
<1>1. /\ AfterSend(d, fine).staged = d.staged
      /\ AfterSend(d, fine).dirty = IF fine THEN {} ELSE d.dirty
  BY AfterSendEffect
<1>2. DOMAIN r \subseteq Field
  BY RequestIsFunction
<1>3. ReportOf(d).flags = d.dirty /\ ReportOf(d).value = d.staged
  BY DEF ReportOf
<1>4. d.staged \in [Field -> Value]
  BY DEF DeviceState
<1>5. ShownAfter(d, s, fine) = [f \in Field |-> IF fine /\ f \in d.dirty THEN d.staged[f] ELSE s[f]]
  BY <1>3 DEF ShownAfter
<1>6. QED
  BY <1>1, <1>2, <1>4, <1>5 DEF Kept

-----------------------------------------------------------------------------
\* The two ways a handler changes a controller's handle.

\* NothingForgotten is Kept for every controller.
LEMMA KeptEverywhere ==
    NothingForgotten <=> \A i \in Device : Kept(dev[i], asked[i], shown[i])
BY DEF NothingForgotten, Kept

\* The handles, requests and shown groups of a well-typed state.
LEMMA TypedParts ==
    ASSUME TypeOK, NEW i \in Device
    PROVE  /\ dev[i] \in DeviceState
           /\ asked[i] \in Request
           /\ shown[i] \in [Field -> Value]
BY DEF TypeOK

\* An index is resolved to a controller, in range or not.
LEMMA ResolveType == \A index \in Index : Resolve(index) \in Device
BY CommandsAssumption DEF Resolve, Device, Index

\* The places of the handler and the answers stay well-typed.
LEMMA ControlType ==
    /\ Idle \in Job /\ NoAnswer \in Answer
    /\ \A at \in {"packet", "flush", "reset"} : [Idle EXCEPT !.at = at] \in Job
    /\ \A text \in {"info", "error"} : [NoAnswer EXCEPT !.text = text] \in Answer
<1>1. 0 \in Device
  BY CommandsAssumption DEF Device
<1>2. Idle \in Job /\ NoAnswer \in Answer
  BY <1>1 DEF Idle, NoAnswer, Job, Answer
<1>3. \A at \in {"packet", "flush", "reset"} : [Idle EXCEPT !.at = at] \in Job
  BY <1>1 DEF Idle, Job
<1>4. \A text \in {"info", "error"} : [NoAnswer EXCEPT !.text = text] \in Answer
  BY <1>1 DEF NoAnswer, Answer
<1>5. QED
  BY <1>2, <1>3, <1>4

\* Staging an instruction on one handle keeps types and requests.
LEMMA StageStep ==
    ASSUME TypeOK, NothingForgotten, NEW i \in Device, NEW ins \in Instruction,
           dev' = [dev EXCEPT ![i] = StageInstruction(@, ins)], Ask(i, ins),
           UNCHANGED shown
    PROVE  /\ dev' \in [Device -> DeviceState]
           /\ asked' \in [Device -> Request]
           /\ NothingForgotten'
           /\ ~Modifies(ins) => dev' = dev
<1>1. /\ dev[i] \in DeviceState /\ asked[i] \in Request /\ shown[i] \in [Field -> Value]
      /\ Kept(dev[i], asked[i], shown[i])
  BY TypedParts, KeptEverywhere
<1>2. StageInstruction(dev[i], ins) \in DeviceState /\ Given(asked[i], ins) \in Request
  BY <1>1, StageEffect, GivenEffect
<1>3. Kept(StageInstruction(dev[i], ins), Given(asked[i], ins), shown[i])
  BY <1>1, StagingKeeps
<1>4. \A j \in Device : Kept(dev'[j], asked'[j], shown'[j])
  BY <1>3, KeptEverywhere DEF TypeOK, Ask
<1>5. ~Modifies(ins) => StageInstruction(dev[i], ins) = dev[i]
  BY <1>1, StageEffect
<1>6. dev \in [Device -> DeviceState] /\ asked \in [Device -> Request]
  BY DEF TypeOK
<1>7. NothingForgotten'
  BY <1>4 DEF NothingForgotten, Kept
<1>8. dev' \in [Device -> DeviceState] /\ asked' \in [Device -> Request]
  BY <1>2, <1>6 DEF Ask
<1>9. ~Modifies(ins) => dev' = dev
  BY <1>5, <1>6
<1>10. QED
  BY <1>7, <1>8, <1>9

\* A send of handle d, which controller i's request is kept by, keeps types and
\* requests; only a failure leaves anything due.
LEMMA SendStep ==
    ASSUME TypeOK, NEW i \in Device, NEW d \in DeviceState, NEW fine \in BOOLEAN,
           SendTo(i, d, fine),
           asked' \in [Device -> Request],
           \A j \in Device \ {i} : Kept(dev[j], asked'[j], shown[j]),
           Kept(d, asked'[i], shown[i])
    PROVE  /\ dev' \in [Device -> DeviceState]
           /\ shown' \in [Device -> [Field -> Value]]
           /\ lost' \subseteq Device
           /\ NothingForgotten'
           /\ fine => dev'[i].dirty = {}
           /\ \A j \in Device : dev'[j].dirty # {} =>
                IF j = i THEN i \in lost' ELSE dev[j].dirty # {} /\ (j \in lost => j \in lost')
<1>1. /\ shown[i] \in [Field -> Value] /\ asked'[i] \in Request
      /\ dev \in [Device -> DeviceState] /\ shown \in [Device -> [Field -> Value]]
      /\ lost \subseteq Device
  BY DEF TypeOK
<1>2. /\ dev' = [dev EXCEPT ![i] = AfterSend(d, fine)]
      /\ shown' = [shown EXCEPT ![i] = ShownAfter(d, shown[i], fine)]
      /\ lost' = IF fine THEN lost \ {i} ELSE lost \cup {i}
  BY <1>1 DEF SendTo, ShownAfter
<1>3. /\ AfterSend(d, fine) \in DeviceState
      /\ AfterSend(d, fine).dirty = IF fine THEN {} ELSE d.dirty
  BY AfterSendEffect
<1>4. /\ Kept(AfterSend(d, fine), asked'[i], ShownAfter(d, shown[i], fine))
      /\ ShownAfter(d, shown[i], fine) \in [Field -> Value]
  BY <1>1, SendingKeeps
<1>5. \A j \in Device : Kept(dev'[j], asked'[j], shown'[j])
  BY <1>1, <1>2, <1>4
<1>6. NothingForgotten'
  BY <1>5 DEF NothingForgotten, Kept
<1>7. QED
  BY <1>1, <1>2, <1>3, <1>4, <1>6

-----------------------------------------------------------------------------
\* Every step keeps the invariant.

\* In the beginning nothing is asked and nothing is due.
LEMMA InitInv == Init => IInv
<1> SUFFICES ASSUME Init PROVE IInv
  OBVIOUS
<1>1. \A c \in Conn : NewDevice(c) \in DeviceState /\ NewDevice(c).dirty = {}
  BY FreshAssumption, SeqTagsAssumption DEF NewDevice, DeviceState, Tag
<1>2. dev \in [Device -> DeviceState] /\ \A i \in Device : dev[i].dirty = {}
  BY <1>1, CommandsAssumption DEF Init
<1>3. NoRequest \in Request /\ DOMAIN NoRequest = {}
  BY FunctionIsRequest, NoRequest \in [{} -> Value] DEF NoRequest
<1>4. TypeOK
  BY <1>2, <1>3, ControlType DEF Init, TypeOK
<1>5. NothingForgotten
  BY <1>3 DEF Init, NothingForgotten
<1>6. QED
  BY <1>2, <1>4, <1>5 DEF Init, IInv, DueIsComing, OkIsClean, NoAnswer

\* A native command sends what it stages at once.
LEMMA NativeCommandInv ==
    ASSUME IInv, NEW index \in Index, NEW ins \in NativeInstruction, NativeCommand(index, ins)
    PROVE  IInv'
<1> DEFINE i == Resolve(index)
           d == StageInstruction(dev[i], ins)
<1>1. i \in Device /\ ins \in Instruction
  BY ResolveType DEF Instruction
<1>2. PICK fine \in BOOLEAN :
        /\ SendTo(i, d, fine)
        /\ answer' = [text |-> SendText(fine), device |-> i]
        /\ Ask(i, ins)
  BY DEF NativeCommand
<1>3. TypeOK /\ NothingForgotten /\ job.at = "idle" /\ job' = job
  BY DEF IInv, NativeCommand
<1> HIDE DEF i
<1>4. /\ dev[i] \in DeviceState /\ asked[i] \in Request /\ shown[i] \in [Field -> Value]
      /\ Kept(dev[i], asked[i], shown[i])
  BY <1>1, <1>3, TypedParts, KeptEverywhere
<1>5. d \in DeviceState /\ Given(asked[i], ins) \in Request
  BY <1>1, <1>4, StageEffect, GivenEffect
<1>6. Kept(d, Given(asked[i], ins), shown[i])
  BY <1>1, <1>4, StagingKeeps
<1>7. asked' = [asked EXCEPT ![i] = Given(@, ins)] /\ asked \in [Device -> Request]
  BY <1>2, <1>3 DEF Ask, TypeOK
<1>8. /\ asked' \in [Device -> Request]
      /\ \A j \in Device \ {i} : Kept(dev[j], asked'[j], shown[j])
      /\ Kept(d, asked'[i], shown[i])
  BY <1>1, <1>3, <1>5, <1>6, <1>7, KeptEverywhere
<1> HIDE DEF d
<1>9. /\ dev' \in [Device -> DeviceState] /\ shown' \in [Device -> [Field -> Value]]
      /\ lost' \subseteq Device /\ NothingForgotten'
      /\ fine => dev'[i].dirty = {}
      /\ \A j \in Device : dev'[j].dirty # {} =>
            IF j = i THEN i \in lost' ELSE dev[j].dirty # {} /\ (j \in lost => j \in lost')
  BY <1>1, <1>2, <1>3, <1>5, <1>8, SendStep
<1>10. answer' \in Answer
  BY <1>1, <1>2 DEF Answer, SendText
<1>11. TypeOK'
  BY <1>3, <1>8, <1>9, <1>10 DEF TypeOK
<1>12. DueIsComing'
  BY <1>3, <1>9 DEF IInv, DueIsComing
<1>13. OkIsClean'
  BY <1>2, <1>9 DEF OkIsClean, SendText
<1>14. QED
  BY <1>9, <1>11, <1>12, <1>13 DEF IInv

\* An instruction of a packet makes the packet one that will be sent, or leaves
\* its controller's handle as it is.
LEMMA NextInstructionInv ==
    ASSUME IInv, NEW index \in Index, NEW ins \in DsxInstruction, NextInstruction(index, ins)
    PROVE  IInv'
<1> DEFINE i == Resolve(index)
<1>1. i \in Device /\ ins \in Instruction
  BY ResolveType DEF Instruction
<1>2. TypeOK /\ NothingForgotten /\ job \in Job
  BY DEF IInv, TypeOK
<1>3. /\ job.at = "packet" /\ job' = [job EXCEPT !.modified = @ \/ Modifies(ins)]
      /\ dev' = [dev EXCEPT ![i] = StageInstruction(@, ins)] /\ Ask(i, ins)
      /\ answer' = NoAnswer /\ UNCHANGED <<shown, lost>>
  BY DEF NextInstruction
<1> HIDE DEF i
<1>4. /\ dev' \in [Device -> DeviceState] /\ asked' \in [Device -> Request]
      /\ NothingForgotten' /\ (~Modifies(ins) => dev' = dev)
  BY <1>1, <1>2, <1>3, StageStep
<1>5. Modifies(ins) \in BOOLEAN
  BY DEF Modifies
<1>6. /\ job' \in Job /\ job'.at = "packet"
      /\ job'.modified = (job.modified \/ Modifies(ins))
  BY <1>2, <1>3, <1>5 DEF Job
<1>7. TypeOK'
  BY <1>2, <1>3, <1>4, <1>6, ControlType DEF TypeOK
<1>8. DueIsComing'
  <2>1. CASE Modifies(ins)
    BY <2>1, <1>6 DEF DueIsComing
  <2>2. CASE ~Modifies(ins)
    BY <2>2, <1>3, <1>4, <1>6 DEF IInv, DueIsComing
  <2>3. QED
    BY <2>1, <2>2
<1>9. QED
  BY <1>3, <1>4, <1>7, <1>8 DEF IInv, OkIsClean, NoAnswer

\* Going from controller to controller reaches every one and then ends.
LEMMA NextControllerEffect ==
    ASSUME job \in Job, NextController
    PROVE  /\ job' \in Job
           /\ \/ job'.at = job.at /\ job'.next = job.next + 1
              \/ job' = Idle /\ \A j \in Device : j <= job.next
BY CommandsAssumption DEF NextController, Job, Idle, Device

\* Sending to the next controller of a packet.
LEMMA FlushNextInv ==
    ASSUME IInv, NEW fine \in BOOLEAN, FlushNext(fine)
    PROVE  IInv'
<1> DEFINE i == job.next
<1>1. TypeOK /\ NothingForgotten /\ job \in Job /\ i \in Device
  BY DEF IInv, TypeOK, Job
<1>2. dev[i] \in DeviceState /\ asked' = asked /\ asked \in [Device -> Request]
  BY <1>1 DEF FlushNext, TypeOK
<1>3. /\ \A j \in Device \ {i} : Kept(dev[j], asked'[j], shown[j])
      /\ Kept(dev[i], asked'[i], shown[i])
  BY <1>1, <1>2, KeptEverywhere
<1>4. SendTo(i, dev[i], fine)
  BY DEF FlushNext
<1>5. /\ dev' \in [Device -> DeviceState] /\ shown' \in [Device -> [Field -> Value]]
      /\ lost' \subseteq Device /\ NothingForgotten'
      /\ \A j \in Device : dev'[j].dirty # {} =>
            IF j = i THEN i \in lost' ELSE dev[j].dirty # {} /\ (j \in lost => j \in lost')
  <2> HIDE DEF i
  <2>1. QED
    BY <1>1, <1>2, <1>3, <1>4, SendStep
<1>6. /\ job' \in Job
      /\ \/ job'.at = job.at /\ job'.next = job.next + 1
         \/ job' = Idle /\ \A j \in Device : j <= job.next
  BY <1>1, NextControllerEffect DEF FlushNext
<1>7. job.at = "flush" /\ answer' = NoAnswer
  BY DEF FlushNext
<1>8. TypeOK'
  BY <1>2, <1>5, <1>6, <1>7, ControlType DEF TypeOK
<1>9. DueIsComing'
  <2> SUFFICES ASSUME NEW j \in Device, dev'[j].dirty # {}
               PROVE  j \in lost' \/ (job'.at = "flush" /\ job'.next <= j)
    BY DEF DueIsComing
  <2>1. CASE j = i
    BY <2>1, <1>5
  <2>2. CASE j # i
    <3>1. j \in lost \/ job.next <= j
      BY <2>2, <1>5, <1>7 DEF IInv, DueIsComing
    <3>2. j \in Int /\ job.next \in Int
      BY <1>1, CommandsAssumption DEF Device
    <3>3. QED
      BY <2>2, <1>5, <1>6, <1>7, <3>1, <3>2
  <2>3. QED
    BY <2>1, <2>2
<1>10. QED
  BY <1>5, <1>7, <1>8, <1>9 DEF IInv, OkIsClean, NoAnswer

\* Resetting the next controller: what it asks for is staged and sent at once.
LEMMA ResetNextInv ==
    ASSUME IInv, NEW fine \in BOOLEAN, ResetNext(fine)
    PROVE  IInv'
<1> DEFINE i == job.next
           ins == [op |-> "reset"]
<1>1. TypeOK /\ NothingForgotten /\ job \in Job /\ i \in Device
  BY DEF IInv, TypeOK, Job
<1>2. ins \in Instruction /\ StageInstruction(dev[i], ins) = ResetOf(dev[i])
  BY DEF Instruction, DsxInstruction, StageInstruction
<1>3. /\ dev[i] \in DeviceState /\ asked[i] \in Request /\ shown[i] \in [Field -> Value]
      /\ Kept(dev[i], asked[i], shown[i])
  BY <1>1, TypedParts, KeptEverywhere
<1>4. SendTo(i, ResetOf(dev[i]), fine) /\ Ask(i, ins)
  BY DEF ResetNext
<1> HIDE DEF ins, i
<1>5. ResetOf(dev[i]) \in DeviceState /\ Given(asked[i], ins) \in Request
  BY <1>2, <1>3, StageEffect, GivenEffect
<1>6. Kept(ResetOf(dev[i]), Given(asked[i], ins), shown[i])
  BY <1>2, <1>3, StagingKeeps
<1>7. asked' = [asked EXCEPT ![i] = Given(@, ins)] /\ asked \in [Device -> Request]
  BY <1>1, <1>4 DEF Ask, TypeOK
<1>8. /\ asked' \in [Device -> Request]
      /\ \A j \in Device \ {i} : Kept(dev[j], asked'[j], shown[j])
      /\ Kept(ResetOf(dev[i]), asked'[i], shown[i])
  BY <1>1, <1>5, <1>6, <1>7, KeptEverywhere
<1>9. /\ dev' \in [Device -> DeviceState] /\ shown' \in [Device -> [Field -> Value]]
      /\ lost' \subseteq Device /\ NothingForgotten'
      /\ \A j \in Device : dev'[j].dirty # {} =>
            IF j = i THEN i \in lost' ELSE dev[j].dirty # {} /\ (j \in lost => j \in lost')
  BY <1>1, <1>4, <1>5, <1>8, SendStep
<1>10. job' \in Job /\ job.at = "reset" /\ answer' = NoAnswer
  BY <1>1, NextControllerEffect DEF ResetNext
<1>11. TypeOK'
  BY <1>8, <1>9, <1>10, ControlType DEF TypeOK
<1>12. DueIsComing'
  BY <1>9, <1>10 DEF IInv, DueIsComing
<1>13. QED
  BY <1>9, <1>10, <1>11, <1>12 DEF IInv, OkIsClean, NoAnswer

\* Another process's report takes its group out of what is asked.
LEMMA IntrudeInv ==
    ASSUME IInv, NEW i \in Device, NEW f \in Field, NEW v \in Value, Intrude(i, f, v)
    PROVE  IInv'
<1> DEFINE rest == [g \in DOMAIN asked[i] \ {f} |-> asked[i][g]]
<1>1. TypeOK /\ NothingForgotten
  BY DEF IInv
<1>2. /\ asked[i] \in [DOMAIN asked[i] -> Value] /\ DOMAIN asked[i] \subseteq Field
  BY <1>1, TypedParts, RequestIsFunction
<1>3. rest \in [DOMAIN asked[i] \ {f} -> Value]
  BY <1>2
<1>4. rest \in Request
  BY <1>2, <1>3, FunctionIsRequest
<1>5. asked' = [asked EXCEPT ![i] = rest] /\ shown' = [shown EXCEPT ![i][f] = v]
  BY DEF Intrude
<1>6. /\ UNCHANGED <<dev, job, lost>> /\ answer' = NoAnswer
  BY DEF Intrude
<1>7. TypeOK'
  BY <1>1, <1>4, <1>5, <1>6, ControlType DEF TypeOK
<1>8. NothingForgotten'
  BY <1>1, <1>5, <1>6 DEF NothingForgotten, TypeOK
<1>9. QED
  BY <1>6, <1>7, <1>8 DEF IInv, DueIsComing, OkIsClean, NoAnswer

\* The invariant that implies the three properties holds in every state.
THEOREM InvariantCorrect == Spec => []IInv
<1>1. IInv /\ [Next]_vars => IInv'
  <2> SUFFICES ASSUME IInv, [Next]_vars PROVE IInv'
    OBVIOUS
  <2>1. TypeOK /\ job \in Job
    BY DEF IInv, TypeOK
  <2>2. ASSUME NEW index \in Index, NEW ins \in NativeInstruction, NativeCommand(index, ins)
        PROVE  IInv'
    BY <2>2, NativeCommandInv
  <2>3. ASSUME NEW index \in Index, NEW ins \in DsxInstruction, NextInstruction(index, ins)
        PROVE  IInv'
    BY <2>3, NextInstructionInv
  <2>4. ASSUME NEW text \in {"info", "error"}, NativeAnswer(text) PROVE IInv'
    <3>1. TypeOK'
      BY <2>1, <2>4, ControlType DEF NativeAnswer, TypeOK
    <3>2. QED
      BY <2>4, <3>1
      DEF NativeAnswer, NoAnswer, IInv, NothingForgotten, DueIsComing, OkIsClean
  <2>5. CASE BeginPacket
    <3>1. TypeOK'
      BY <2>1, <2>5, ControlType DEF BeginPacket, TypeOK
    <3>2. QED
      BY <2>5, <3>1
      DEF BeginPacket, Idle, NoAnswer, IInv, NothingForgotten, DueIsComing, OkIsClean
  <2>6. CASE EndPacket
    <3>1. TypeOK'
      BY <2>1, <2>6, ControlType DEF EndPacket, TypeOK
    <3>2. DueIsComing'
      BY <2>1, <2>6, CommandsAssumption DEF EndPacket, Idle, IInv, DueIsComing, Device
    <3>3. QED
      BY <2>6, <3>1, <3>2 DEF EndPacket, NoAnswer, IInv, NothingForgotten, OkIsClean
  <2>7. CASE BeginReset
    <3>1. TypeOK'
      BY <2>1, <2>7, ControlType DEF BeginReset, TypeOK
    <3>2. QED
      BY <2>7, <3>1
      DEF BeginReset, Idle, NoAnswer, IInv, NothingForgotten, DueIsComing, OkIsClean
  <2>8. ASSUME NEW fine \in BOOLEAN, FlushNext(fine) PROVE IInv'
    BY <2>8, FlushNextInv
  <2>9. ASSUME NEW fine \in BOOLEAN, ResetNext(fine) PROVE IInv'
    BY <2>9, ResetNextInv
  <2>10. ASSUME NEW i \in Device, NEW f \in Field, NEW v \in Value, Intrude(i, f, v)
         PROVE  IInv'
    BY <2>10, IntrudeInv
  <2>11. CASE UNCHANGED vars
    BY <2>11 DEF vars, IInv, TypeOK, NothingForgotten, DueIsComing, OkIsClean
  <2>12. QED
    BY <2>2, <2>3, <2>4, <2>5, <2>6, <2>7, <2>8, <2>9, <2>10, <2>11 DEF Next
<1>2. QED
  BY <1>1, InitInv, PTL DEF Spec

\* The daemon's handles, replies and histories stay well formed.
THEOREM TypeCorrect == Spec => []TypeOK
<1>1. IInv => TypeOK
  BY DEF IInv
<1>2. QED
  BY <1>1, InvariantCorrect, PTL

\* Whatever sends fail and whoever writes in between, what either protocol was
\* validly asked for is shown or still due.
THEOREM NothingForgottenCorrect == Spec => []NothingForgotten
<1>1. IInv => NothingForgotten
  BY DEF IInv
<1>2. QED
  BY <1>1, InvariantCorrect, PTL

\* A client that is told "ok" finds all it asked for on its controller.
THEOREM OkMeansShownCorrect == Spec => []OkMeansShown
<1>1. IInv => OkMeansShown
  BY DEF IInv, TypeOK, Answer, OkIsClean, NothingForgotten, OkMeansShown
<1>2. QED
  BY <1>1, InvariantCorrect, PTL

\* No handler of the daemon returns with a change it has not tried to send.
THEOREM StagedIsTriedCorrect == Spec => []StagedIsTried
<1>1. IInv => StagedIsTried
  BY DEF IInv, DueIsComing, StagedIsTried
<1>2. QED
  BY <1>1, InvariantCorrect, PTL
=============================================================================
