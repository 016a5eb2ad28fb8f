------------------------------ MODULE SampleQueue ------------------------------
(***************************************************************************)
(* What the haptics stream promises about audio: a first-in first-out      *)
(* queue of Capacity samples that forgets its oldest sample when a new one *)
(* does not fit, read in blocks that are padded with silence.              *)
(***************************************************************************)
EXTENDS Integers, Sequences

CONSTANTS Sample, Silence, Capacity, BlockSize

VARIABLES queue, block

Init ==
    /\ queue = <<>>
    /\ block = [i \in 1 .. BlockSize |-> Silence]

Put(s) ==
    /\ queue' = Append(IF Len(queue) = Capacity THEN Tail(queue) ELSE queue, s)
    /\ UNCHANGED block

TakeBlock ==
    /\ block' = [i \in 1 .. BlockSize |-> IF i <= Len(queue) THEN queue[i] ELSE Silence]
    /\ queue' = SubSeq(queue, BlockSize + 1, Len(queue))

Next == (\E s \in Sample : Put(s)) \/ TakeBlock

Spec == Init /\ [][Next]_<<queue, block>>
=============================================================================
