---------------------------- MODULE HapticsProofs ----------------------------
(***************************************************************************)
(* Proofs about Haptics in a program of one thread, as the haptics tool    *)
(* is, for any number of streams, with starts that fail and ticks of any   *)
(* length.                                                                 *)
(***************************************************************************)
EXTENDS Haptics, FiniteSetTheorems, TLAPS

\* The program has no thread but the one that starts and stops streams.
OneThread == Thread = {Owner}

\* No timer is set and no signal on its way while a stream is started.
QuietStart ==
    pc[Owner] \in {"starting", "undo"} =>
        hpc[Owner] = "none" /\ \A s \in Stream : ~armed[s] /\ ~raised[s]

\* What a call is about: the stream started is there, the stream to be freed
\* has no timer, and nobody finds it any more.
CallStream ==
    /\ pc[Owner] # "idle" => arg[Owner] \in Stream
    /\ pc[Owner] = "starting" => life[arg[Owner]] = "live"
    /\ pc[Owner] \in {"forget", "free"} => ~armed[arg[Owner]]
    /\ pc[Owner] = "free" => g = Null

\* g_haptics points to a stream, but for a moment in a start that failed.
GlobalIsLive == g # Null => life[g] = "live" \/ pc[Owner] = "undo"

\* A timer is one of a stream.
ArmedIsLive == \A s \in Stream : armed[s] => life[s] = "live"

\* A tick that has loaded a stream holds one that is there.
TickStream ==
    hpc[Owner] \notin {"none", "load"} =>
        harg[Owner] \in Stream /\ life[harg[Owner]] = "live"

\* A block is owed by the tick between ring_read and write(), and no other.
OwedByTick ==
    \A s \in Stream : owed[s] = IF hpc[Owner] = "emit" /\ harg[Owner] = s THEN 1 ELSE 0

Sound ==
    /\ QuietStart /\ CallStream /\ GlobalIsLive /\ ArmedIsLive
    /\ TickStream /\ OwedByTick

IInv == TypeOK /\ Sound

-----------------------------------------------------------------------------
\* One thread owes one block at most.
LEMMA OneBlock == ASSUME OneThread PROVE 0 .. Cardinality(Thread) = {0, 1}
<1>1. Cardinality(Thread) = 1
  BY FS_Singleton DEF OneThread
<1>2. QED
  BY <1>1

\* The initial states satisfy the invariant.
LEMMA InitSound == ASSUME OneThread, Init PROVE IInv
<1>1. Owner \in Thread
  BY DEF OneThread
<1>2. TypeOK
  BY OneBlock DEF Init, TypeOK, CallStep, TickStep
<1>3. Sound
  BY <1>1 DEF Init, Sound, QuietStart, CallStream, GlobalIsLive, ArmedIsLive, TickStream,
              OwedByTick
<1>4. QED
  BY <1>2, <1>3 DEF IInv

\* A start finds no timer set, since no stream is there.
LEMMA StartSound ==
    ASSUME OneThread, IInv, NEW t \in Thread, NEW s \in Stream, Start(t, s)
    PROVE IInv'
<1>1. Thread = {Owner} /\ t = Owner
  BY DEF OneThread
<1>2. TypeOK /\ Sound
  BY DEF IInv
<1>3. TypeOK'
  BY <1>2 DEF Start, At, Interrupted, Call, TypeOK, CallStep
<1>4. QuietStart'
  BY <1>1, <1>2 DEF Start, At, Interrupted, Call, TypeOK, Sound, QuietStart, ArmedIsLive
<1>5. CallStream'
  BY <1>1, <1>2 DEF Start, At, Interrupted, Call, TypeOK, Sound, CallStream
<1>6. GlobalIsLive'
  BY <1>1, <1>2 DEF Start, At, Interrupted, Call, TypeOK, Sound, GlobalIsLive
<1>7. ArmedIsLive'
  BY <1>1, <1>2 DEF Start, At, Interrupted, Call, TypeOK, Sound, ArmedIsLive
<1>8. TickStream'
  BY <1>1, <1>2 DEF Start, At, Interrupted, Call, TypeOK, Sound, TickStream
<1>9. OwedByTick'
  BY <1>1, <1>2 DEF Start, At, Interrupted, Call, TypeOK, Sound, OwedByTick
<1>10. QED
  BY <1>3, <1>4, <1>5, <1>6, <1>7, <1>8, <1>9 DEF IInv, Sound

\* The timer that is set is that of the stream just made.
LEMMA ArmTimerSound == ASSUME OneThread, IInv, NEW t \in Thread, ArmTimer(t) PROVE IInv'
<1>1. Thread = {Owner} /\ t = Owner
  BY DEF OneThread
<1>2. TypeOK /\ Sound
  BY DEF IInv
<1>3. TypeOK'
  BY <1>2 DEF ArmTimer, At, Interrupted, Call, Return, TypeOK, CallStep
<1>4. QuietStart'
  BY <1>1, <1>2 DEF ArmTimer, At, Interrupted, Call, Return, TypeOK, Sound, QuietStart
<1>5. CallStream'
  BY <1>1, <1>2 DEF ArmTimer, At, Interrupted, Call, Return, TypeOK, Sound, CallStream
<1>6. GlobalIsLive'
  BY <1>1, <1>2 DEF ArmTimer, At, Interrupted, Call, Return, TypeOK, Sound, GlobalIsLive
<1>7. ArmedIsLive'
  BY <1>1, <1>2 DEF ArmTimer, At, Interrupted, Call, Return, TypeOK, Sound, ArmedIsLive,
     CallStream
<1>8. TickStream' /\ OwedByTick'
  BY <1>1, <1>2 DEF ArmTimer, At, Interrupted, Call, Return, TypeOK, Sound, TickStream,
     OwedByTick
<1>9. QED
  BY <1>3, <1>4, <1>5, <1>6, <1>7, <1>8 DEF IInv, Sound

\* A start that fails has set no timer.
LEMMA TimerFailsSound == ASSUME OneThread, IInv, NEW t \in Thread, TimerFails(t) PROVE IInv'
<1>1. Thread = {Owner} /\ t = Owner
  BY DEF OneThread
<1>2. TypeOK /\ Sound
  BY DEF IInv
<1>3. TypeOK'
  BY <1>2 DEF TimerFails, At, Interrupted, Call, TypeOK, CallStep
<1>4. QuietStart'
  BY <1>1, <1>2 DEF TimerFails, At, Interrupted, Call, TypeOK, Sound, QuietStart
<1>5. CallStream'
  BY <1>1, <1>2 DEF TimerFails, At, Interrupted, Call, TypeOK, Sound, CallStream
<1>6. GlobalIsLive'
  BY <1>1, <1>2 DEF TimerFails, At, Interrupted, Call, TypeOK, Sound, GlobalIsLive
<1>7. ArmedIsLive'
  BY <1>1, <1>2 DEF TimerFails, At, Interrupted, Call, TypeOK, Sound, ArmedIsLive,
     QuietStart
<1>8. TickStream'
  BY <1>1, <1>2 DEF TimerFails, At, Interrupted, Call, TypeOK, Sound, TickStream
<1>9. OwedByTick'
  BY <1>1, <1>2 DEF TimerFails, At, Interrupted, Call, TypeOK, Sound, OwedByTick
<1>10. QED
  BY <1>3, <1>4, <1>5, <1>6, <1>7, <1>8, <1>9 DEF IInv, Sound

\* The global is reset at the end of a start that failed.
LEMMA UndoStartSound == ASSUME OneThread, IInv, NEW t \in Thread, UndoStart(t) PROVE IInv'
<1>1. Thread = {Owner} /\ t = Owner
  BY DEF OneThread
<1>2. TypeOK /\ Sound
  BY DEF IInv
<1>3. TypeOK'
  BY <1>2 DEF UndoStart, At, Interrupted, Call, Return, TypeOK, CallStep
<1>4. QuietStart'
  BY <1>1, <1>2 DEF UndoStart, At, Interrupted, Call, Return, TypeOK, Sound, QuietStart
<1>5. CallStream'
  BY <1>1, <1>2 DEF UndoStart, At, Interrupted, Call, Return, TypeOK, Sound, CallStream
<1>6. GlobalIsLive'
  BY <1>1, <1>2 DEF UndoStart, At, Interrupted, Call, Return, TypeOK, Sound,
     GlobalIsLive
<1>7. ArmedIsLive' /\ TickStream' /\ OwedByTick'
  BY <1>1, <1>2 DEF UndoStart, At, Interrupted, Call, Return, TypeOK, Sound,
     ArmedIsLive, TickStream, OwedByTick
<1>8. QED
  BY <1>3, <1>4, <1>5, <1>6, <1>7 DEF IInv, Sound

\* Beginning a write changes no stream.
LEMMA BeginWriteSound ==
    ASSUME OneThread, IInv, NEW t \in Thread, NEW s \in Stream, BeginWrite(t, s)
    PROVE IInv'
<1>1. Thread = {Owner} /\ t = Owner
  BY DEF OneThread
<1>2. TypeOK /\ Sound
  BY DEF IInv
<1>3. TypeOK'
  BY <1>2 DEF BeginWrite, At, Interrupted, Call, streamVars, TypeOK, CallStep
<1>4. QuietStart'
  BY <1>1, <1>2 DEF BeginWrite, At, Interrupted, Call, streamVars, TypeOK, Sound,
     QuietStart
<1>5. CallStream'
  BY <1>1, <1>2 DEF BeginWrite, At, Interrupted, Call, streamVars, TypeOK, Sound,
     CallStream
<1>6. GlobalIsLive'
  BY <1>1, <1>2 DEF BeginWrite, At, Interrupted, Call, streamVars, TypeOK, Sound,
     GlobalIsLive
<1>7. ArmedIsLive' /\ TickStream' /\ OwedByTick'
  BY <1>1, <1>2 DEF BeginWrite, At, Interrupted, Call, streamVars, TypeOK, Sound,
     ArmedIsLive, TickStream, OwedByTick
<1>8. QED
  BY <1>3, <1>4, <1>5, <1>6, <1>7 DEF IInv, Sound

\* Locking the ring changes no stream.
LEMMA WriterLocksSound == ASSUME OneThread, IInv, NEW t \in Thread, WriterLocks(t) PROVE IInv'
<1>1. Thread = {Owner} /\ t = Owner
  BY DEF OneThread
<1>2. TypeOK /\ Sound
  BY DEF IInv
<1>3. TypeOK'
  BY <1>2 DEF WriterLocks, At, Interrupted, streamVars, TypeOK, CallStep
<1>4. QuietStart'
  BY <1>1, <1>2 DEF WriterLocks, At, Interrupted, streamVars, TypeOK, Sound, QuietStart
<1>5. CallStream'
  BY <1>1, <1>2 DEF WriterLocks, At, Interrupted, streamVars, TypeOK, Sound, CallStream
<1>6. GlobalIsLive'
  BY <1>1, <1>2 DEF WriterLocks, At, Interrupted, streamVars, TypeOK, Sound,
     GlobalIsLive
<1>7. ArmedIsLive' /\ TickStream' /\ OwedByTick'
  BY <1>1, <1>2 DEF WriterLocks, At, Interrupted, streamVars, TypeOK, Sound,
     ArmedIsLive, TickStream, OwedByTick
<1>8. QED
  BY <1>3, <1>4, <1>5, <1>6, <1>7 DEF IInv, Sound

\* Unlocking the ring changes no stream.
LEMMA EndWriteSound == ASSUME OneThread, IInv, NEW t \in Thread, EndWrite(t) PROVE IInv'
<1>1. Thread = {Owner} /\ t = Owner
  BY DEF OneThread
<1>2. TypeOK /\ Sound
  BY DEF IInv
<1>3. TypeOK'
  BY <1>2 DEF EndWrite, At, Interrupted, Call, Return, streamVars, TypeOK, CallStep
<1>4. QuietStart'
  BY <1>1, <1>2 DEF EndWrite, At, Interrupted, Call, Return, streamVars, TypeOK, Sound,
     QuietStart
<1>5. CallStream'
  BY <1>1, <1>2 DEF EndWrite, At, Interrupted, Call, Return, streamVars, TypeOK, Sound,
     CallStream
<1>6. GlobalIsLive'
  BY <1>1, <1>2 DEF EndWrite, At, Interrupted, Call, Return, streamVars, TypeOK, Sound,
     GlobalIsLive
<1>7. ArmedIsLive' /\ TickStream' /\ OwedByTick'
  BY <1>1, <1>2 DEF EndWrite, At, Interrupted, Call, Return, streamVars, TypeOK, Sound,
     ArmedIsLive, TickStream, OwedByTick
<1>8. QED
  BY <1>3, <1>4, <1>5, <1>6, <1>7 DEF IInv, Sound

\* Beginning a stop changes only the flag.
LEMMA BeginStopSound ==
    ASSUME OneThread, IInv, NEW t \in Thread, NEW s \in Stream, BeginStop(t, s)
    PROVE IInv'
<1>1. Thread = {Owner} /\ t = Owner
  BY DEF OneThread
<1>2. TypeOK /\ Sound
  BY DEF IInv
<1>3. TypeOK'
  BY <1>2 DEF BeginStop, FlagStopped, At, Interrupted, Call, TypeOK, CallStep
<1>4. QuietStart'
  BY <1>1, <1>2 DEF BeginStop, FlagStopped, At, Interrupted, Call, TypeOK, Sound,
     QuietStart
<1>5. CallStream'
  BY <1>1, <1>2 DEF BeginStop, FlagStopped, At, Interrupted, Call, TypeOK, Sound,
     CallStream
<1>6. GlobalIsLive'
  BY <1>1, <1>2 DEF BeginStop, FlagStopped, At, Interrupted, Call, TypeOK, Sound,
     GlobalIsLive
<1>7. ArmedIsLive' /\ TickStream' /\ OwedByTick'
  BY <1>1, <1>2 DEF BeginStop, FlagStopped, At, Interrupted, Call, TypeOK, Sound,
     ArmedIsLive, TickStream, OwedByTick
<1>8. QED
  BY <1>3, <1>4, <1>5, <1>6, <1>7 DEF IInv, Sound

\* The timer deleted is that of the stream to be freed.
LEMMA DisarmSound == ASSUME OneThread, IInv, NEW t \in Thread, Disarm(t) PROVE IInv'
<1>1. Thread = {Owner} /\ t = Owner
  BY DEF OneThread
<1>2. TypeOK /\ Sound
  BY DEF IInv
<1>3. TypeOK'
  BY <1>2 DEF Disarm, DeleteTimer, At, Interrupted, TypeOK, CallStep
<1>4. QuietStart'
  BY <1>1, <1>2 DEF Disarm, DeleteTimer, At, Interrupted, TypeOK, Sound, QuietStart
<1>5. CallStream'
  BY <1>1, <1>2 DEF Disarm, DeleteTimer, At, Interrupted, TypeOK, Sound, CallStream
<1>6. GlobalIsLive'
  BY <1>1, <1>2 DEF Disarm, DeleteTimer, At, Interrupted, TypeOK, Sound, GlobalIsLive
<1>7. ArmedIsLive'
  BY <1>1, <1>2 DEF Disarm, DeleteTimer, At, Interrupted, TypeOK, Sound, ArmedIsLive
<1>8. TickStream' /\ OwedByTick'
  BY <1>1, <1>2 DEF Disarm, DeleteTimer, At, Interrupted, TypeOK, Sound, TickStream,
     OwedByTick
<1>9. QED
  BY <1>3, <1>4, <1>5, <1>6, <1>7, <1>8 DEF IInv, Sound

\* The global is cleared before the stream is freed.
LEMMA ForgetSound == ASSUME OneThread, IInv, NEW t \in Thread, Forget(t) PROVE IInv'
<1>1. Thread = {Owner} /\ t = Owner
  BY DEF OneThread
<1>2. TypeOK /\ Sound
  BY DEF IInv
<1>3. TypeOK'
  BY <1>2 DEF Forget, At, Interrupted, TypeOK, CallStep
<1>4. QuietStart'
  BY <1>1, <1>2 DEF Forget, At, Interrupted, TypeOK, Sound, QuietStart
<1>5. CallStream'
  BY <1>1, <1>2 DEF Forget, At, Interrupted, TypeOK, Sound, CallStream
<1>6. GlobalIsLive'
  BY <1>1, <1>2 DEF Forget, At, Interrupted, TypeOK, Sound, GlobalIsLive
<1>7. ArmedIsLive' /\ TickStream' /\ OwedByTick'
  BY <1>1, <1>2 DEF Forget, At, Interrupted, TypeOK, Sound, ArmedIsLive, TickStream,
     OwedByTick
<1>8. QED
  BY <1>3, <1>4, <1>5, <1>6, <1>7 DEF IInv, Sound

\* Nothing leads to the stream that is freed.
LEMMA FreeStreamSound == ASSUME OneThread, IInv, NEW t \in Thread, FreeStream(t) PROVE IInv'
<1>1. Thread = {Owner} /\ t = Owner
  BY DEF OneThread
<1>2. TypeOK /\ Sound
  BY DEF IInv
<1>3. TypeOK'
  BY <1>2 DEF FreeStream, At, Interrupted, Call, Return, TypeOK, CallStep
<1>4. QuietStart'
  BY <1>1, <1>2 DEF FreeStream, At, Interrupted, Call, Return, TypeOK, Sound, QuietStart
<1>5. CallStream'
  BY <1>1, <1>2 DEF FreeStream, At, Interrupted, Call, Return, TypeOK, Sound, CallStream
<1>6. GlobalIsLive'
  BY <1>1, <1>2 DEF FreeStream, At, Interrupted, Call, Return, TypeOK, Sound,
     GlobalIsLive, CallStream
<1>7. ArmedIsLive'
  BY <1>1, <1>2 DEF FreeStream, At, Interrupted, Call, Return, TypeOK, Sound,
     ArmedIsLive, CallStream
<1>8. TickStream'
  BY <1>1, <1>2 DEF FreeStream, At, Interrupted, Call, Return, TypeOK, Sound, TickStream
<1>9. OwedByTick'
  BY <1>1, <1>2 DEF FreeStream, At, Interrupted, Call, Return, TypeOK, Sound, OwedByTick
<1>10. QED
  BY <1>3, <1>4, <1>5, <1>6, <1>7, <1>8, <1>9 DEF IInv, Sound

\* A signal interrupts the thread outside a start.
LEMMA InterruptSound ==
    ASSUME OneThread, IInv, NEW t \in Thread, NEW s \in Stream, Interrupt(t, s)
    PROVE IInv'
<1>1. Thread = {Owner} /\ t = Owner
  BY DEF OneThread
<1>2. TypeOK /\ Sound
  BY DEF IInv
<1>3. TypeOK'
  BY <1>2 DEF Interrupt, streamVars, TypeOK, TickStep
<1>4. QuietStart'
  BY <1>1, <1>2 DEF Interrupt, streamVars, TypeOK, Sound, QuietStart
<1>5. TickStream'
  BY <1>1, <1>2 DEF Interrupt, streamVars, TypeOK, Sound, TickStream
<1>6. OwedByTick'
  BY <1>1, <1>2 DEF Interrupt, streamVars, TypeOK, Sound, OwedByTick
<1>7. CallStream' /\ GlobalIsLive' /\ ArmedIsLive'
  BY <1>1, <1>2 DEF Interrupt, streamVars, TypeOK, Sound, CallStream, GlobalIsLive,
     ArmedIsLive
<1>8. QED
  BY <1>3, <1>4, <1>5, <1>6, <1>7 DEF IInv, Sound

\* A tick loads a stream that is there.
LEMMA LoadSound == ASSUME OneThread, IInv, NEW t \in Thread, Load(t) PROVE IInv'
<1>1. Thread = {Owner} /\ t = Owner
  BY DEF OneThread
<1>2. TypeOK /\ Sound
  BY DEF IInv
<1>3. TypeOK'
  BY <1>2 DEF Load, Tick, EndTick, streamVars, TypeOK, TickStep
<1>4. QuietStart'
  BY <1>1, <1>2 DEF Load, Tick, EndTick, streamVars, TypeOK, Sound, QuietStart
<1>5. TickStream'
  BY <1>1, <1>2 DEF Load, Tick, EndTick, streamVars, TypeOK, Sound, TickStream,
     GlobalIsLive, QuietStart
<1>6. OwedByTick'
  BY <1>1, <1>2 DEF Load, Tick, EndTick, streamVars, TypeOK, Sound, OwedByTick
<1>7. CallStream' /\ GlobalIsLive' /\ ArmedIsLive'
  BY <1>1, <1>2 DEF Load, Tick, EndTick, streamVars, TypeOK, Sound, CallStream,
     GlobalIsLive, ArmedIsLive
<1>8. QED
  BY <1>3, <1>4, <1>5, <1>6, <1>7 DEF IInv, Sound

\* A tick goes on with the stream it loaded.
LEMMA TestSound == ASSUME OneThread, IInv, NEW t \in Thread, Test(t) PROVE IInv'
<1>1. Thread = {Owner} /\ t = Owner
  BY DEF OneThread
<1>2. TypeOK /\ Sound
  BY DEF IInv
<1>3. TypeOK'
  BY <1>2 DEF Test, Tick, EndTick, streamVars, TypeOK, TickStep
<1>4. QuietStart'
  BY <1>1, <1>2 DEF Test, Tick, EndTick, streamVars, TypeOK, Sound, QuietStart
<1>5. TickStream'
  BY <1>1, <1>2 DEF Test, Tick, EndTick, streamVars, TypeOK, Sound, TickStream
<1>6. OwedByTick'
  BY <1>1, <1>2 DEF Test, Tick, EndTick, streamVars, TypeOK, Sound, OwedByTick
<1>7. CallStream' /\ GlobalIsLive' /\ ArmedIsLive'
  BY <1>1, <1>2 DEF Test, Tick, EndTick, streamVars, TypeOK, Sound, CallStream,
     GlobalIsLive, ArmedIsLive
<1>8. QED
  BY <1>3, <1>4, <1>5, <1>6, <1>7 DEF IInv, Sound

\* A tick locks the ring of its stream.
LEMMA TickLocksSound == ASSUME OneThread, IInv, NEW t \in Thread, TickLocks(t) PROVE IInv'
<1>1. Thread = {Owner} /\ t = Owner
  BY DEF OneThread
<1>2. TypeOK /\ Sound
  BY DEF IInv
<1>3. TypeOK'
  BY <1>2 DEF TickLocks, Tick, streamVars, TypeOK, TickStep
<1>4. QuietStart'
  BY <1>1, <1>2 DEF TickLocks, Tick, streamVars, TypeOK, Sound, QuietStart
<1>5. TickStream'
  BY <1>1, <1>2 DEF TickLocks, Tick, streamVars, TypeOK, Sound, TickStream
<1>6. OwedByTick'
  BY <1>1, <1>2 DEF TickLocks, Tick, streamVars, TypeOK, Sound, OwedByTick
<1>7. CallStream' /\ GlobalIsLive' /\ ArmedIsLive'
  BY <1>1, <1>2 DEF TickLocks, Tick, streamVars, TypeOK, Sound, CallStream,
     GlobalIsLive, ArmedIsLive
<1>8. QED
  BY <1>3, <1>4, <1>5, <1>6, <1>7 DEF IInv, Sound

\* A tick that takes a block has sent the last one.
LEMMA TakeSound == ASSUME OneThread, IInv, NEW t \in Thread, Take(t) PROVE IInv'
<1>1. Thread = {Owner} /\ t = Owner
  BY DEF OneThread
<1>2. TypeOK /\ Sound
  BY DEF IInv
<1>3. TypeOK'
  <2>1. harg[t] \in Stream /\ owed[harg[t]] = 0
    BY <1>1, <1>2 DEF Take, Sound, TickStream, OwedByTick
  <2>2. owed' = [owed EXCEPT ![harg[t]] = 1]
    BY <2>1 DEF Take
  <2>3. owed' \in [Stream -> 0 .. Cardinality(Thread)]
    BY <1>2, <2>2, OneBlock DEF TypeOK
  <2>4. QED
    BY <1>2, <2>3 DEF Take, Tick, streamVars, TypeOK, TickStep
<1>4. QuietStart'
  BY <1>1, <1>2 DEF Take, Tick, streamVars, TypeOK, Sound, QuietStart
<1>5. TickStream'
  BY <1>1, <1>2 DEF Take, Tick, streamVars, TypeOK, Sound, TickStream
<1>6. OwedByTick'
  BY <1>1, <1>2 DEF Take, Tick, streamVars, TypeOK, Sound, OwedByTick, TickStream
<1>7. CallStream' /\ GlobalIsLive' /\ ArmedIsLive'
  BY <1>1, <1>2 DEF Take, Tick, streamVars, TypeOK, Sound, CallStream, GlobalIsLive,
     ArmedIsLive
<1>8. QED
  BY <1>3, <1>4, <1>5, <1>6, <1>7 DEF IInv, Sound

\* A tick sends the block it has taken.
LEMMA EmitSound == ASSUME OneThread, IInv, NEW t \in Thread, Emit(t) PROVE IInv'
<1>1. Thread = {Owner} /\ t = Owner
  BY DEF OneThread
<1>2. TypeOK /\ Sound
  BY DEF IInv
<1>3. TypeOK'
  <2>1. harg[t] \in Stream /\ owed[harg[t]] = 1
    BY <1>1, <1>2 DEF Emit, Sound, TickStream, OwedByTick
  <2>2. owed' = [owed EXCEPT ![harg[t]] = 0]
    BY <2>1 DEF Emit, Sent
  <2>3. owed' \in [Stream -> 0 .. Cardinality(Thread)]
    BY <1>2, <2>2, OneBlock DEF TypeOK
  <2>4. QED
    BY <1>2, <2>3 DEF Emit, Sent, Tick, EndTick, streamVars, TypeOK, TickStep
<1>4. QuietStart'
  BY <1>1, <1>2 DEF Emit, Sent, Tick, EndTick, streamVars, TypeOK, Sound, QuietStart
<1>5. TickStream'
  BY <1>1, <1>2 DEF Emit, Sent, Tick, EndTick, streamVars, TypeOK, Sound, TickStream
<1>6. OwedByTick'
  BY <1>1, <1>2 DEF Emit, Sent, Tick, EndTick, streamVars, TypeOK, Sound, OwedByTick,
     TickStream
<1>7. CallStream' /\ GlobalIsLive' /\ ArmedIsLive'
  BY <1>1, <1>2 DEF Emit, Sent, Tick, EndTick, streamVars, TypeOK, Sound, CallStream,
     GlobalIsLive, ArmedIsLive
<1>8. QED
  BY <1>3, <1>4, <1>5, <1>6, <1>7 DEF IInv, Sound

\* A timer that expires belongs to a stream that is there.
LEMMA ExpireSound == ASSUME OneThread, IInv, NEW s \in Stream, Expire(s) PROVE IInv'
<1>1. Thread = {Owner}
  BY DEF OneThread
<1>2. TypeOK /\ Sound
  BY DEF IInv
<1>3. TypeOK'
  BY <1>2 DEF Expire, streamVars, TypeOK
<1>4. QuietStart'
  BY <1>1, <1>2 DEF Expire, streamVars, TypeOK, Sound, QuietStart
<1>5. CallStream' /\ GlobalIsLive' /\ ArmedIsLive' /\ TickStream' /\ OwedByTick'
  BY <1>1, <1>2 DEF Expire, streamVars, TypeOK, Sound, CallStream, GlobalIsLive,
     ArmedIsLive, TickStream, OwedByTick
<1>6. QED
  BY <1>3, <1>4, <1>5 DEF IInv, Sound

-----------------------------------------------------------------------------
\* Every step keeps the invariant.
LEMMA NextSound == ASSUME OneThread, IInv, [Next]_vars PROVE IInv'
<1>1. ASSUME NEW t \in Thread, NEW s \in Stream,
             Start(t, s) \/ BeginWrite(t, s) \/ BeginStop(t, s) \/ Interrupt(t, s)
      PROVE  IInv'
  BY <1>1, StartSound, BeginWriteSound, BeginStopSound, InterruptSound
<1>2. ASSUME NEW t \in Thread, LibraryCall(t)
      PROVE  IInv'
  BY <1>2, ArmTimerSound, TimerFailsSound, UndoStartSound, WriterLocksSound, EndWriteSound,
     DisarmSound, ForgetSound, FreeStreamSound DEF LibraryCall
<1>3. ASSUME NEW t \in Thread, Handler(t)
      PROVE  IInv'
  BY <1>3, LoadSound, TestSound, TickLocksSound, TakeSound, EmitSound DEF Handler
<1>4. ASSUME NEW s \in Stream, Expire(s)
      PROVE  IInv'
  BY <1>4, ExpireSound
<1>5. CASE UNCHANGED vars
  BY <1>5 DEF vars, streamVars, IInv, TypeOK, Sound, QuietStart, CallStream, GlobalIsLive,
              ArmedIsLive, TickStream, OwedByTick
<1>6. QED
  BY <1>1, <1>2, <1>3, <1>4, <1>5 DEF Next

\* The inductive invariant: what a call or a tick holds of a stream, and what
\* g_haptics and the timers lead to, is there.
THEOREM InvariantCorrect == ASSUME OneThread PROVE Spec => []IInv
<1>1. Init => IInv
  BY InitSound
<1>2. IInv /\ [Next]_vars => IInv'
  BY NextSound
<1>3. QED
  BY <1>1, <1>2, PTL DEF Spec

\* The program counters, the streams and the blocks owed stay well formed.
THEOREM TypeCorrect == ASSUME OneThread PROVE Spec => []TypeOK
<1>1. IInv => TypeOK
  BY DEF IInv
<1>2. QED
  BY <1>1, InvariantCorrect, PTL

\* In a program of one thread no tick looks into a freed stream, whatever call
\* it interrupts and wherever.
THEOREM NoUseAfterFreeCorrect == ASSUME OneThread PROVE Spec => []NoUseAfterFree
<1>1. IInv => NoUseAfterFree
  BY DEF OneThread, IInv, Sound, TickStream, NoUseAfterFree
<1>2. QED
  BY <1>1, InvariantCorrect, PTL
=============================================================================
