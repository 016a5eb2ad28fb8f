-------------------------- MODULE HapticsRingProofs --------------------------
(***************************************************************************)
(* Proofs about HapticsRing for every ring size and block size.            *)
(***************************************************************************)
EXTENDS HapticsRing, SequenceTheorems, TLAPS

\* An index advanced by at most a whole turn: one subtraction replaces the modulus.
LEMMA AdvanceWraps ==
    ASSUME NEW i \in Index, NEW n \in 0 .. RingSize
    PROVE  Advance(i, n) = IF i + n < RingSize THEN i + n ELSE i + n - RingSize
<1>1. RingSize \in Nat /\ RingSize > 0 /\ i \in Nat /\ n \in Nat /\ i + n < 2 * RingSize
  BY RingAssumption DEF Index
<1>2. CASE i + n < RingSize
  BY <1>1, <1>2 DEF Advance
<1>3. CASE i + n >= RingSize
  BY <1>1, <1>3 DEF Advance
<1>4. QED
  BY <1>1, <1>2, <1>3

\* Advancing stays in the ring.
LEMMA AdvanceType ==
    ASSUME NEW i \in Index, NEW n \in 0 .. RingSize
    PROVE  Advance(i, n) \in Index
<1>1. RingSize \in Nat /\ i \in 0 .. RingSize - 1 /\ n \in 0 .. RingSize
  BY RingAssumption DEF Index
<1>2. Advance(i, n) = IF i + n < RingSize THEN i + n ELSE i + n - RingSize
  BY AdvanceWraps
<1>3. QED
  BY <1>1, <1>2 DEF Index

\* A whole turn leads back.
LEMMA AdvanceFull ==
    ASSUME NEW i \in Index
    PROVE  Advance(i, RingSize) = i
<1>1. RingSize \in Nat /\ i \in 0 .. RingSize - 1
  BY RingAssumption DEF Index
<1>2. Advance(i, RingSize) = IF i + RingSize < RingSize THEN i + RingSize ELSE i + RingSize - RingSize
  BY <1>1, AdvanceWraps
<1>3. QED
  BY <1>1, <1>2

\* Advancing in two parts is advancing at once.
LEMMA AdvanceTwice ==
    ASSUME NEW i \in Index, NEW m \in 0 .. RingSize, NEW n \in 0 .. RingSize,
           m + n <= RingSize
    PROVE  Advance(Advance(i, m), n) = Advance(i, m + n)
<1>1. RingSize \in Nat /\ i \in 0 .. RingSize - 1
  BY RingAssumption DEF Index
<1>2. Advance(i, m) \in Index
  BY AdvanceType
<1>3. m + n \in 0 .. RingSize
  BY <1>1
<1>4. Advance(i, m) = IF i + m < RingSize THEN i + m ELSE i + m - RingSize
  BY AdvanceWraps
<1>5. Advance(Advance(i, m), n) =
         IF Advance(i, m) + n < RingSize THEN Advance(i, m) + n ELSE Advance(i, m) + n - RingSize
  BY <1>2, AdvanceWraps
<1>6. Advance(i, m + n) = IF i + (m + n) < RingSize THEN i + (m + n) ELSE i + (m + n) - RingSize
  BY <1>3, AdvanceWraps
<1>7. QED
  BY <1>1, <1>4, <1>5, <1>6

\* Different distances from one place lead to different places.
LEMMA AdvanceInjective ==
    ASSUME NEW i \in Index, NEW m \in 0 .. RingSize - 1, NEW n \in 0 .. RingSize - 1,
           m # n
    PROVE  Advance(i, m) # Advance(i, n)
<1>1. RingSize \in Nat /\ i \in 0 .. RingSize - 1 /\ m \in 0 .. RingSize /\ n \in 0 .. RingSize
  BY RingAssumption DEF Index
<1>2. Advance(i, m) = IF i + m < RingSize THEN i + m ELSE i + m - RingSize
  BY <1>1, AdvanceWraps
<1>3. Advance(i, n) = IF i + n < RingSize THEN i + n ELSE i + n - RingSize
  BY <1>1, AdvanceWraps
<1>4. QED
  BY <1>1, <1>2, <1>3

\* What one block takes is there to be taken.
LEMMA TakenType == TypeOK => Taken \in 0 .. avail /\ Taken \in 0 .. BlockSize /\ Taken \in 0 .. RingSize
BY RingAssumption DEF TypeOK, Taken

IInv == TypeOK /\ RingConsistent

\* Every step keeps the ring well-typed.
LEMMA StepType == TypeOK /\ [Next]_vars => TypeOK'
<1> SUFFICES ASSUME TypeOK, [Next]_vars PROVE TypeOK'
  OBVIOUS
<1>1. RingSize \in Nat /\ RingSize > 0 /\ MaxWrite \in Nat /\ BlockSize \in Nat
  BY RingAssumption
<1>2. ASSUME NEW n \in 1 .. MaxWrite, BeginWrite(n) PROVE TypeOK'
  BY <1>1, <1>2 DEF BeginWrite, TypeOK
<1>3. ASSUME NEW s \in Sample, PushByte(s) PROVE TypeOK'
  <2>1. Advance(head, 1) \in Index /\ Advance(tail, 1) \in Index
    BY <1>1, AdvanceType DEF TypeOK
  <2>2. tail' \in Index
    BY <1>3, <2>1 DEF PushByte, TailAfterPush, TypeOK
  <2>3. avail' \in 0 .. RingSize
    BY <1>1, <1>3 DEF PushByte, AvailAfterPush, Full, TypeOK
  <2>4. left' \in 0 .. MaxWrite
    BY <1>1, <1>3 DEF PushByte, TypeOK
  <2>5. ring' \in [Index -> Sample \cup {Silence}]
    BY <1>3 DEF PushByte, TypeOK
  <2>6. QED
    BY <1>3, <2>1, <2>2, <2>3, <2>4, <2>5 DEF PushByte, TypeOK
<1>4. CASE Tick
  <2>1. Taken \in 0 .. avail /\ Taken \in 0 .. RingSize
    BY TakenType
  <2>2. tail' \in Index
    BY <1>4, <2>1, AdvanceType DEF Tick, TypeOK
  <2>3. avail' \in 0 .. RingSize
    BY <1>1, <1>4, <2>1 DEF Tick, TypeOK
  <2>4. \A i \in 1 .. BlockSize : i <= Taken => ring[Advance(tail, i - 1)] \in Sample \cup {Silence}
    <3> SUFFICES ASSUME NEW i \in 1 .. BlockSize, i <= Taken
                 PROVE  ring[Advance(tail, i - 1)] \in Sample \cup {Silence}
      OBVIOUS
    <3>1. i - 1 \in 0 .. RingSize
      BY <1>1, <2>1
    <3>2. Advance(tail, i - 1) \in Index
      BY <3>1, AdvanceType DEF TypeOK
    <3>3. QED
      BY <3>2 DEF TypeOK
  <2>5. block' \in [1 .. BlockSize -> Sample \cup {Silence}]
    BY <1>4, <2>4 DEF Tick
  <2>6. QED
    BY <1>4, <2>2, <2>3, <2>5 DEF Tick, TypeOK
<1>5. CASE UNCHANGED vars
  BY <1>5 DEF vars, TypeOK
<1>6. QED
  BY <1>2, <1>3, <1>4, <1>5 DEF Next

\* A freshly started stream is well-typed and consistent.
LEMMA InitInv == Init => IInv
<1> SUFFICES ASSUME Init PROVE IInv
  OBVIOUS
<1>1. 0 \in Index /\ 0 \in 0 .. RingSize /\ 0 \in 0 .. MaxWrite
  BY RingAssumption DEF Index
<1>2. TypeOK
  BY <1>1 DEF Init, TypeOK
<1>3. Advance(0, 0) = 0
  BY <1>1, RingAssumption, AdvanceWraps
<1>4. QED
  BY <1>2, <1>3 DEF Init, IInv, RingConsistent

\* Head, tail and the number of samples agree after every step.
LEMMA StepInv == IInv /\ [Next]_vars => IInv'
<1> SUFFICES ASSUME IInv, [Next]_vars PROVE IInv'
  OBVIOUS
<1>1. TypeOK /\ TypeOK'
  BY StepType DEF IInv
<1>2. /\ RingSize \in Nat /\ RingSize > 0
      /\ tail \in Index /\ avail \in 0 .. RingSize
      /\ head = Advance(tail, avail)
  BY <1>1, RingAssumption DEF IInv, RingConsistent, TypeOK
<1>3. ASSUME NEW n \in 1 .. MaxWrite, BeginWrite(n) PROVE IInv'
  BY <1>1, <1>3 DEF BeginWrite, IInv, RingConsistent
<1>4. ASSUME NEW s \in Sample, PushByte(s) PROVE IInv'
  <2>1. CASE Full
    <3>1. avail = RingSize
      BY <1>2, <2>1 DEF Full
    <3>2. head = tail
      BY <1>2, <3>1, AdvanceFull
    <3>3. tail' = Advance(tail, 1) /\ head' = Advance(tail, 1) /\ avail' = RingSize
      BY <1>4, <2>1, <3>1, <3>2 DEF PushByte, TailAfterPush, AvailAfterPush
    <3>4. Advance(tail', RingSize) = tail'
      BY <1>1, AdvanceFull DEF TypeOK
    <3>5. QED
      BY <1>1, <3>3, <3>4 DEF IInv, RingConsistent, Advance
  <2>2. CASE ~Full
    <3>1. avail + 1 <= RingSize /\ 1 \in 0 .. RingSize
      BY <1>2, <2>2 DEF Full
    <3>2. tail' = tail /\ head' = Advance(head, 1) /\ avail' = avail + 1
      BY <1>4, <2>2 DEF PushByte, TailAfterPush, AvailAfterPush
    <3>3. Advance(Advance(tail, avail), 1) = Advance(tail, avail + 1)
      BY <1>2, <3>1, AdvanceTwice
    <3>4. QED
      BY <1>1, <1>2, <3>2, <3>3 DEF IInv, RingConsistent, Advance
  <2>3. QED
    BY <2>1, <2>2
<1>5. CASE Tick
  <2>1. Taken \in 0 .. avail /\ Taken \in 0 .. RingSize
    BY <1>1, TakenType
  <2>2. tail' = Advance(tail, Taken) /\ head' = head /\ avail' = avail - Taken
    BY <1>5 DEF Tick
  <2>3. avail - Taken \in 0 .. RingSize /\ Taken + (avail - Taken) = avail
    BY <1>2, <2>1
  <2>4. Advance(Advance(tail, Taken), avail - Taken) = Advance(tail, avail)
    BY <1>2, <2>1, <2>3, AdvanceTwice
  <2>5. QED
    BY <1>1, <1>2, <2>2, <2>4 DEF IInv, RingConsistent, Advance
<1>6. CASE UNCHANGED vars
  BY <1>1, <1>6 DEF vars, IInv, RingConsistent, Advance
<1>7. QED
  BY <1>3, <1>4, <1>5, <1>6 DEF Next

\* No index leaves the ring and no more samples are counted than it holds.
THEOREM TypeCorrect == Spec => []TypeOK
<1>1. IInv => TypeOK
  BY DEF IInv
<1>2. QED
  BY <1>1, InitInv, StepInv, PTL DEF Spec

\* The head always is as far ahead of the tail as there are samples.
THEOREM RingConsistentCorrect == Spec => []RingConsistent
<1>1. IInv => RingConsistent
  BY DEF IInv
<1>2. QED
  BY <1>1, InitInv, StepInv, PTL DEF Spec

-----------------------------------------------------------------------------
\* The actuators: with an even ring, even blocks and writes of whole frames, a
\* byte's place in the ring has its channel's parity.
WholeFrames == RingSize % 2 = 0 /\ BlockSize % 2 = 0 /\ WriteUnit = 2

\* A write leaves head at an even place when it is done; only dropping the
\* oldest byte of a full ring puts tail at an odd one.
ParityInv ==
    /\ head % 2 = left % 2
    /\ \A i \in Index : ring[i] # Silence => ring[i].channel = i % 2
    /\ avail = RingSize \/ tail % 2 = 0
    /\ ChannelsAligned

\* Stepping around an even ring adds parities.
LEMMA AdvanceParity ==
    ASSUME WholeFrames, NEW i \in Index, NEW n \in 0 .. RingSize
    PROVE  Advance(i, n) % 2 = (i + n) % 2
<1>1. RingSize \in Nat /\ RingSize % 2 = 0 /\ i \in Nat /\ n \in Nat
  BY RingAssumption DEF WholeFrames, Index
<1>2. Advance(i, n) = IF i + n < RingSize THEN i + n ELSE i + n - RingSize
  BY AdvanceWraps
<1>3. QED
  BY <1>1, <1>2

\* Between writes the tail is at an even place, full ring or not.
LEMMA TailIsEven ==
    ASSUME IInv, ParityInv, left = 0
    PROVE  tail % 2 = 0
<1>1. tail \in Index /\ head = Advance(tail, avail) /\ head % 2 = 0
  BY DEF IInv, TypeOK, RingConsistent, ParityInv
<1>2. CASE avail = RingSize
  BY <1>1, <1>2, AdvanceFull
<1>3. QED
  BY <1>2 DEF ParityInv

\* Pushing a byte puts it where its channel belongs.
LEMMA PushParity ==
    ASSUME WholeFrames, IInv, ParityInv, NEW s \in Sample, s.channel = left % 2, PushByte(s)
    PROVE  ParityInv'
<1>1. /\ TypeOK /\ RingSize \in Nat /\ RingSize > 0 /\ 1 \in 0 .. RingSize
      /\ head \in Index /\ head \in Nat /\ left \in Nat /\ left > 0
      /\ avail \in 0 .. RingSize
  BY RingAssumption DEF IInv, TypeOK, Index, PushByte
<1>2. head' % 2 = left' % 2
  <2>1. Advance(head, 1) % 2 = (head + 1) % 2
    BY <1>1, AdvanceParity
  <2>2. head % 2 = left % 2 /\ head' = Advance(head, 1) /\ left' = left - 1
    BY DEF ParityInv, PushByte
  <2>3. QED
    BY <1>1, <2>1, <2>2
<1>3. \A i \in Index : ring'[i] # Silence => ring'[i].channel = i % 2
  BY <1>1 DEF PushByte, ParityInv, TypeOK
<1>4. avail' = RingSize \/ tail' % 2 = 0
  BY <1>1 DEF PushByte, ParityInv, TailAfterPush, AvailAfterPush, Full
<1>5. ChannelsAligned'
  BY DEF PushByte, ParityInv, ChannelsAligned
<1>6. QED
  BY <1>2, <1>3, <1>4, <1>5 DEF ParityInv

\* A tick takes whole frames from an even place.
LEMMA TickParity ==
    ASSUME WholeFrames, IInv, ParityInv, Tick
    PROVE  ParityInv'
<1>1. /\ TypeOK /\ RingSize \in Nat /\ BlockSize \in Nat /\ BlockSize % 2 = 0
      /\ tail \in Index /\ tail \in Nat /\ avail \in 0 .. RingSize
  BY RingAssumption DEF IInv, TypeOK, Index, WholeFrames
<1>2. left = 0 /\ tail % 2 = 0 /\ head % 2 = 0
  BY TailIsEven DEF Tick, ParityInv
<1>3. Taken \in 0 .. avail /\ Taken \in 0 .. RingSize
  BY <1>1, TakenType
<1>4. tail' % 2 = 0
  <2>1. CASE BlockSize < avail
    <3>1. Taken = BlockSize
      BY <2>1 DEF Taken
    <3>2. Advance(tail, Taken) % 2 = (tail + Taken) % 2
      BY <1>1, <1>3, AdvanceParity
    <3>3. (tail + BlockSize) % 2 = 0
      BY <1>1, <1>2
    <3>4. QED
      BY <3>1, <3>2, <3>3 DEF Tick
  <2>2. CASE ~(BlockSize < avail)
    BY <1>2, <2>2 DEF Tick, Taken, IInv, RingConsistent
  <2>3. QED
    BY <2>1, <2>2
<1>5. ChannelsAligned'
  <2> SUFFICES ASSUME NEW i \in 1 .. BlockSize, block'[i] # Silence
               PROVE  block'[i].channel = (i + 1) % 2
    BY DEF ChannelsAligned
  <2>1. i <= Taken /\ block'[i] = ring[Advance(tail, i - 1)]
    BY DEF Tick
  <2>2. i - 1 \in 0 .. RingSize
    BY <1>1, <1>3, <2>1
  <2>3. /\ Advance(tail, i - 1) \in Index
        /\ Advance(tail, i - 1) % 2 = (tail + (i - 1)) % 2
    BY <1>1, <2>2, AdvanceType, AdvanceParity
  <2>4. block'[i].channel = Advance(tail, i - 1) % 2
    BY <2>1, <2>3 DEF ParityInv
  <2>5. QED
    BY <1>1, <1>2, <2>3, <2>4
<1>6. QED
  BY <1>4, <1>5 DEF Tick, ParityInv

\* However often the ring overruns or runs empty, a sample meant for one
\* actuator never reaches the other, if callers write whole frames.
THEOREM ChannelsAlignedCorrect == ASSUME WholeFrames PROVE Spec => []ChannelsAligned
<1>1. Init => ParityInv
  BY DEF Init, ParityInv, ChannelsAligned
<1>2. IInv /\ ParityInv /\ [Next]_vars => ParityInv'
  <2> SUFFICES ASSUME IInv, ParityInv, [Next]_vars PROVE ParityInv'
    OBVIOUS
  <2>1. ASSUME NEW n \in 1 .. MaxWrite, BeginWrite(n) PROVE ParityInv'
    <3>1. left' % 2 = 0 /\ left = 0
      BY <2>1 DEF BeginWrite, WholeFrames
    <3>2. QED
      BY <2>1, <3>1 DEF BeginWrite, ParityInv, ChannelsAligned
  <2>2. ASSUME NEW s \in Sample, s.channel = left % 2, PushByte(s) PROVE ParityInv'
    BY <2>2, PushParity
  <2>3. CASE Tick
    BY <2>3, TickParity
  <2>4. CASE UNCHANGED vars
    BY <2>4 DEF vars, ParityInv, ChannelsAligned
  <2>5. QED
    BY <2>1, <2>2, <2>3, <2>4 DEF Next
<1>3. ParityInv => ChannelsAligned
  BY DEF ParityInv
<1>4. QED
  BY <1>1, <1>2, <1>3, InitInv, StepInv, PTL DEF Spec

-----------------------------------------------------------------------------
\* The ring read from its tail is a sequence of avail samples.
LEMMA QueuedType ==
    ASSUME TypeOK
    PROVE  /\ Queued \in Seq(Sample \cup {Silence})
           /\ Len(Queued) = avail
           /\ \A i \in 1 .. avail : Queued[i] = ring[Advance(tail, i - 1)]
<1>1. avail \in Nat /\ RingSize \in Nat /\ avail <= RingSize
  BY RingAssumption DEF TypeOK
<1>2. \A i \in 1 .. avail : ring[Advance(tail, i - 1)] \in Sample \cup {Silence}
  <2> SUFFICES ASSUME NEW i \in 1 .. avail
               PROVE  ring[Advance(tail, i - 1)] \in Sample \cup {Silence}
    OBVIOUS
  <2>1. i - 1 \in 0 .. RingSize
    BY <1>1
  <2>2. Advance(tail, i - 1) \in Index
    BY <2>1, AdvanceType DEF TypeOK
  <2>3. QED
    BY <2>2 DEF TypeOK
<1>3. Queued \in [1 .. avail -> Sample \cup {Silence}]
  BY <1>2 DEF Queued
<1>4. QED
  BY <1>1, <1>3 DEF Queued

\* A pushed byte is appended, and takes the place of the oldest if the ring is full.
LEMMA PushRefines ==
    ASSUME IInv, IInv', NEW s \in Sample, PushByte(s)
    PROVE  Queue!Put(s)
<1>1. /\ TypeOK /\ TypeOK' /\ head = Advance(tail, avail)
      /\ RingSize \in Nat /\ RingSize > 0
      /\ tail \in Index /\ head \in Index /\ avail \in 0 .. RingSize
  BY RingAssumption DEF IInv, TypeOK, RingConsistent
<1>2. /\ Queued \in Seq(Sample \cup {Silence}) /\ Len(Queued) = avail
      /\ \A i \in 1 .. avail : Queued[i] = ring[Advance(tail, i - 1)]
  BY <1>1, QueuedType
<1>3. /\ Queued' \in Seq(Sample \cup {Silence}) /\ Len(Queued') = avail'
      /\ \A i \in 1 .. avail' : Queued'[i] = ring'[Advance(tail', i - 1)]
  <2>1. (Queued \in Seq(Sample \cup {Silence}) /\ Len(Queued) = avail
         /\ \A i \in 1 .. avail : Queued[i] = ring[Advance(tail, i - 1)])'
    BY <1>1, QueuedType, PTL
  <2>2. QED
    BY <2>1 DEF Advance
<1>4. ring' = [ring EXCEPT ![head] = s] /\ block' = block
  BY DEF PushByte
<1>5. \A j \in Index : ring'[j] = IF j = head THEN s ELSE ring[j]
  BY <1>1, <1>4 DEF TypeOK
<1>6. CASE Full
  <2>1. avail = RingSize /\ avail' = RingSize /\ tail' = Advance(tail, 1) /\ head = tail
    BY <1>1, <1>6, AdvanceFull DEF PushByte, Full, TailAfterPush, AvailAfterPush
  <2>2. ASSUME NEW i \in 1 .. RingSize - 1 PROVE Queued'[i] = Queued[i + 1]
    <3>1. Advance(tail', i - 1) = Advance(tail, i)
      <4>1. 1 \in 0 .. RingSize /\ i - 1 \in 0 .. RingSize /\ 1 + (i - 1) = i /\ i <= RingSize
        BY <1>1
      <4>2. QED
        BY <1>1, <2>1, <4>1, AdvanceTwice
    <3>2. Advance(tail, i) # tail /\ Advance(tail, i) \in Index
      <4>1. i \in 0 .. RingSize - 1 /\ 0 \in 0 .. RingSize - 1 /\ i # 0 /\ i \in 0 .. RingSize
        BY <1>1
      <4>2. Advance(tail, 0) = tail
        BY <1>1, AdvanceWraps DEF Index
      <4>3. QED
        BY <1>1, <4>1, <4>2, AdvanceInjective, AdvanceType
    <3>3. ring'[Advance(tail', i - 1)] = ring[Advance(tail, i)]
      BY <1>5, <2>1, <3>1, <3>2
    <3>4. i \in 1 .. avail' /\ i + 1 \in 1 .. avail /\ (i + 1) - 1 = i
      BY <1>1, <2>1
    <3>5. Queued'[i] = ring'[Advance(tail', i - 1)] /\ Queued[i + 1] = ring[Advance(tail, (i + 1) - 1)]
      BY <1>2, <1>3, <3>4
    <3>6. QED
      BY <3>3, <3>4, <3>5
  <2>3. Queued'[RingSize] = s
    <3>1. Advance(tail', RingSize - 1) = tail
      <4>1. 1 \in 0 .. RingSize /\ RingSize - 1 \in 0 .. RingSize /\ 1 + (RingSize - 1) = RingSize
        BY <1>1
      <4>2. Advance(Advance(tail, 1), RingSize - 1) = Advance(tail, 1 + (RingSize - 1))
        BY <1>1, <4>1, AdvanceTwice
      <4>3. QED
        BY <1>1, <2>1, <4>1, <4>2, AdvanceFull
    <3>2. RingSize \in 1 .. avail'
      BY <1>1, <2>1
    <3>3. QED
      BY <1>1, <1>3, <1>5, <2>1, <3>1, <3>2
  <2>4. Queued' = Append(Tail(Queued), s)
    <3>1. Tail(Queued) \in Seq(Sample \cup {Silence}) /\ Len(Tail(Queued)) = RingSize - 1
          /\ \A i \in 1 .. RingSize - 1 : Tail(Queued)[i] = Queued[i + 1]
      BY <1>1, <1>2, <2>1
    <3>2. Append(Tail(Queued), s) \in Seq(Sample \cup {Silence})
          /\ Len(Append(Tail(Queued), s)) = RingSize
          /\ \A i \in 1 .. RingSize - 1 : Append(Tail(Queued), s)[i] = Queued[i + 1]
          /\ Append(Tail(Queued), s)[RingSize] = s
      BY <1>1, <3>1
    <3>3. \A i \in 1 .. RingSize : Queued'[i] = Append(Tail(Queued), s)[i]
      BY <1>1, <2>2, <2>3, <3>2
    <3>4. QED
      BY <1>1, <1>3, <2>1, <3>2, <3>3
  <2>5. QED
    BY <1>2, <1>4, <2>1, <2>4 DEF Queue!Put
<1>7. CASE ~Full
  <2>1. avail < RingSize /\ avail' = avail + 1 /\ tail' = tail
    BY <1>1, <1>7 DEF PushByte, Full, TailAfterPush, AvailAfterPush
  <2>2. ASSUME NEW i \in 1 .. avail PROVE Queued'[i] = Queued[i]
    <3>1. i - 1 \in 0 .. RingSize - 1 /\ avail \in 0 .. RingSize - 1 /\ i - 1 # avail
          /\ i - 1 \in 0 .. RingSize
      BY <1>1, <2>1
    <3>2. Advance(tail, i - 1) # head /\ Advance(tail, i - 1) \in Index
      BY <1>1, <3>1, AdvanceInjective, AdvanceType
    <3>3. i \in 1 .. avail'
      BY <1>1, <2>1
    <3>4. QED
      BY <1>2, <1>3, <1>5, <2>1, <3>2, <3>3
  <2>3. Queued'[avail + 1] = s
    <3>1. avail + 1 \in 1 .. avail' /\ (avail + 1) - 1 = avail
      BY <1>1, <2>1
    <3>2. QED
      BY <1>1, <1>3, <1>5, <2>1, <3>1
  <2>4. Queued' = Append(Queued, s)
    <3>1. Append(Queued, s) \in Seq(Sample \cup {Silence})
          /\ Len(Append(Queued, s)) = avail + 1
          /\ \A i \in 1 .. avail : Append(Queued, s)[i] = Queued[i]
          /\ Append(Queued, s)[avail + 1] = s
      BY <1>1, <1>2
    <3>2. \A i \in 1 .. avail + 1 : Queued'[i] = Append(Queued, s)[i]
      BY <1>1, <2>2, <2>3, <3>1
    <3>3. QED
      BY <1>1, <1>3, <2>1, <3>1, <3>2
  <2>5. QED
    BY <1>1, <1>2, <1>4, <2>1, <2>4 DEF Queue!Put
<1>8. QED
  BY <1>6, <1>7

\* A tick takes the oldest samples, at most a block, and pads with silence.
LEMMA TickRefines ==
    ASSUME IInv, IInv', Tick
    PROVE  Queue!TakeBlock
<1>1. /\ TypeOK /\ TypeOK'
      /\ RingSize \in Nat /\ RingSize > 0 /\ BlockSize \in Nat
      /\ tail \in Index /\ avail \in 0 .. RingSize
  BY RingAssumption DEF IInv, TypeOK
<1>2. /\ Queued \in Seq(Sample \cup {Silence}) /\ Len(Queued) = avail
      /\ \A i \in 1 .. avail : Queued[i] = ring[Advance(tail, i - 1)]
  BY <1>1, QueuedType
<1>3. /\ Queued' \in Seq(Sample \cup {Silence}) /\ Len(Queued') = avail'
      /\ \A i \in 1 .. avail' : Queued'[i] = ring'[Advance(tail', i - 1)]
  <2>1. (Queued \in Seq(Sample \cup {Silence}) /\ Len(Queued) = avail
         /\ \A i \in 1 .. avail : Queued[i] = ring[Advance(tail, i - 1)])'
    BY <1>1, QueuedType, PTL
  <2>2. QED
    BY <2>1 DEF Advance
<1>4. /\ Taken \in 0 .. avail /\ Taken \in 0 .. RingSize
      /\ Taken = IF BlockSize < avail THEN BlockSize ELSE avail
  BY <1>1, TakenType DEF Taken
<1>5. ring' = ring /\ tail' = Advance(tail, Taken) /\ avail' = avail - Taken
  BY DEF Tick
<1>6. block' = [i \in 1 .. BlockSize |-> IF i <= Len(Queued) THEN Queued[i] ELSE Silence]
  <2>1. ASSUME NEW i \in 1 .. BlockSize
        PROVE  (IF i <= Taken THEN ring[Advance(tail, i - 1)] ELSE Silence)
                  = (IF i <= Len(Queued) THEN Queued[i] ELSE Silence)
    <3>1. i <= Taken <=> i <= avail
      BY <1>1, <1>4
    <3>2. i <= avail => i \in 1 .. avail
      BY <1>1
    <3>3. QED
      BY <1>2, <3>1, <3>2
  <2>2. QED
    BY <2>1 DEF Tick
<1>7. Queued' = SubSeq(Queued, BlockSize + 1, Len(Queued))
  <2> DEFINE rest == SubSeq(Queued, BlockSize + 1, Len(Queued))
  <2>1. /\ rest \in Seq(Sample \cup {Silence})
        /\ Len(rest) = avail - Taken
        /\ \A i \in 1 .. avail - Taken : rest[i] = Queued[BlockSize + i]
    <3>1. \A i \in BlockSize + 1 .. avail : Queued[i] \in Sample \cup {Silence}
      BY <1>1, <1>2
    <3>2. BlockSize + 1 \in Int /\ avail \in Int
      BY <1>1
    <3>3. /\ SubSeq(Queued, BlockSize + 1, avail) \in Seq(Sample \cup {Silence})
          /\ Len(SubSeq(Queued, BlockSize + 1, avail)) =
                IF BlockSize + 1 <= avail THEN avail - (BlockSize + 1) + 1 ELSE 0
          /\ \A i \in 1 .. avail - (BlockSize + 1) + 1 :
                SubSeq(Queued, BlockSize + 1, avail)[i] = Queued[(BlockSize + 1) + i - 1]
      BY <3>1, <3>2, SubSeqProperties
    <3>4. rest = SubSeq(Queued, BlockSize + 1, avail)
      BY <1>2
    <3>5. CASE BlockSize < avail
      <4>1. Taken = BlockSize /\ avail - (BlockSize + 1) + 1 = avail - Taken
        BY <1>1, <1>4, <3>5
      <4>2. \A i \in 1 .. avail - Taken : (BlockSize + 1) + i - 1 = BlockSize + i
        BY <1>1, <1>4
      <4>3. BlockSize + 1 <= avail
        BY <1>1, <3>5
      <4> HIDE DEF rest
      <4>4. QED
        BY <3>3, <3>4, <4>1, <4>2, <4>3
    <3>6. CASE ~(BlockSize < avail)
      <4>1. Taken = avail /\ avail - Taken = 0 /\ ~(BlockSize + 1 <= avail)
        BY <1>1, <1>4, <3>6
      <4> HIDE DEF rest
      <4>2. QED
        BY <3>3, <3>4, <4>1
    <3>7. QED
      BY <3>5, <3>6
  <2>2. ASSUME NEW i \in 1 .. avail - Taken PROVE Queued'[i] = rest[i]
    <3>1. Taken = BlockSize /\ i - 1 \in 0 .. RingSize /\ Taken + (i - 1) <= RingSize
          /\ BlockSize + i \in 1 .. avail /\ (BlockSize + i) - 1 = Taken + (i - 1)
      BY <1>1, <1>4
    <3>2. Advance(Advance(tail, Taken), i - 1) = Advance(tail, Taken + (i - 1))
      BY <1>1, <1>4, <3>1, AdvanceTwice
    <3>3. Queued'[i] = ring[Advance(tail, Taken + (i - 1))]
      BY <1>3, <1>5, <3>2
    <3>4. rest[i] = ring[Advance(tail, (BlockSize + i) - 1)]
      BY <1>2, <2>1, <3>1
    <3>5. QED
      BY <3>1, <3>3, <3>4
  <2> HIDE DEF rest
  <2>3. Queued' = rest
    BY <1>1, <1>3, <1>4, <1>5, <2>1, <2>2
  <2>4. QED
    BY <2>3 DEF rest
<1>8. QED
  BY <1>6, <1>7 DEF Queue!TakeBlock

\* The ring implements a queue that forgets its oldest sample when full, for
\* every ring size, block size and number of bytes per write.
THEOREM RingImplementsQueue == Spec => ImplementsQueue
<1>1. Init => Queue!Init
  <2> SUFFICES ASSUME Init PROVE Queue!Init
    OBVIOUS
  <2>1. Queued = <<>>
    BY DEF Init, Queued
  <2>2. QED
    BY <2>1 DEF Init, Queue!Init
<1>2. IInv /\ IInv' /\ [Next]_vars => [Queue!Next]_<<Queued, block>>
  <2> SUFFICES ASSUME IInv, IInv', [Next]_vars PROVE [Queue!Next]_<<Queued, block>>
    OBVIOUS
  <2>1. ASSUME NEW n \in 1 .. MaxWrite, BeginWrite(n) PROVE UNCHANGED <<Queued, block>>
    BY <2>1 DEF BeginWrite, Queued, Advance
  <2>2. ASSUME NEW s \in Sample, PushByte(s) PROVE Queue!Next
    BY <2>2, PushRefines DEF Queue!Next
  <2>3. CASE Tick
    BY <2>3, TickRefines DEF Queue!Next
  <2>4. CASE UNCHANGED vars
    BY <2>4 DEF vars, Queued, Advance
  <2>5. QED
    BY <2>1, <2>2, <2>3, <2>4 DEF Next
<1>3. QED
  BY <1>1, <1>2, InitInv, StepInv, PTL DEF Spec, ImplementsQueue, Queue!Spec
=============================================================================
