----------------------------- MODULE HapticsRing -----------------------------
(***************************************************************************)
(* The sample ring of src/haptics.c: ds_haptics_write pushes bytes one at  *)
(* a time under ring_lock, dropping the oldest when the ring is full, and  *)
(* ring_read takes one block of the report under the same lock.  Who may   *)
(* hold the lock when is the subject of module Haptics; here it only keeps *)
(* the two critical sections apart.                                        *)
(***************************************************************************)
EXTENDS Integers, Sequences

CONSTANTS
    Level,          \* sample values other than silence
    RingSize,       \* RING_SIZE: 6000 bytes
    BlockSize,      \* DS_HAPTICS_SAMPLE_SIZE: 64 bytes
    MaxWrite,       \* bound: bytes of one ds_haptics_write call
    WriteUnit       \* callers write a multiple of this: 2, one frame of both channels

ASSUME RingAssumption ==
    /\ RingSize \in Nat \ {0}
    /\ BlockSize \in Nat \ {0}
    /\ MaxWrite \in Nat
    /\ WriteUnit \in Nat \ {0}

\* A byte of audio belongs to the left (0) or the right (1) actuator.
Channel == {0, 1}
Sample == [channel: Channel, level: Level]
Silence == [channel |-> -1, level |-> "silence"]    \* 0x80

Index == 0 .. RingSize - 1

VARIABLES
    ring, head, tail, avail,    \* the ring of struct ds_haptics
    left,                       \* bytes the ds_haptics_write in progress has still to push
    block                       \* sample_buf: the samples of the last report

vars == <<ring, head, tail, avail, left, block>>

TypeOK ==
    /\ ring \in [Index -> Sample \cup {Silence}]
    /\ head \in Index /\ tail \in Index
    /\ avail \in 0 .. RingSize
    /\ left \in 0 .. MaxWrite
    /\ block \in [1 .. BlockSize -> Sample \cup {Silence}]

Init ==
    /\ ring = [i \in Index |-> Silence]
    /\ head = 0 /\ tail = 0 /\ avail = 0
    /\ left = 0
    /\ block = [i \in 1 .. BlockSize |-> Silence]

Advance(i, n) == (i + n) % RingSize

\* ds_haptics_write takes the lock.
BeginWrite(n) ==
    /\ left = 0
    /\ n % WriteUnit = 0
    /\ left' = n
    /\ UNCHANGED <<ring, head, tail, avail, block>>

\* The ring is full: the next byte takes the place of the oldest.
FullOneEarly == avail >= RingSize - 1
Full == avail >= RingSize

\* Where the next read starts and how much it finds once a byte is pushed.
TailAfterPushStale == tail
TailAfterPush == IF Full THEN Advance(tail, 1) ELSE tail
AvailAfterPush == IF Full THEN avail ELSE avail + 1

\* One turn of its loop.
PushByte(s) ==
    /\ left > 0
    /\ ring' = [ring EXCEPT ![head] = s]
    /\ head' = Advance(head, 1)
    /\ tail' = TailAfterPush
    /\ avail' = AvailAfterPush
    /\ left' = left - 1
    /\ UNCHANGED block

\* ring_read, and the padding haptics_tick adds.
TakenUnbounded == BlockSize
Taken == IF BlockSize < avail THEN BlockSize ELSE avail
Tick ==
    /\ left = 0
    /\ block' = [i \in 1 .. BlockSize |->
                    IF i <= Taken THEN ring[Advance(tail, i - 1)] ELSE Silence]
    /\ tail' = Advance(tail, Taken)
    /\ avail' = avail - Taken
    /\ UNCHANGED <<ring, head, left>>

Next ==
    \/ \E n \in 1 .. MaxWrite : BeginWrite(n)
    \/ \E s \in Sample : s.channel = left % 2 /\ PushByte(s)
    \/ Tick

Spec == Init /\ [][Next]_vars

-----------------------------------------------------------------------------
\* The three ring variables agree: what is available lies between the tail,
\* where the next read starts, and the head, where the next byte goes.
RingConsistent == head = Advance(tail, avail)

\* The actuators never swap: whatever overruns and underruns happen, an even
\* place of a report's block holds a right byte and an odd place a left byte.
ChannelsAligned ==
    \A i \in 1 .. BlockSize : block[i] # Silence => block[i].channel = (i + 1) % 2

Queued == [i \in 1 .. avail |-> ring[Advance(tail, i - 1)]]
Queue == INSTANCE SampleQueue WITH
    queue <- Queued, Sample <- Sample, Silence <- Silence, Capacity <- RingSize

\* The ring is a queue that forgets its oldest byte when it overflows.
ImplementsQueue == Queue!Spec
=============================================================================
