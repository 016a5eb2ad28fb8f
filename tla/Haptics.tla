-------------------------------- MODULE Haptics --------------------------------
(***************************************************************************)
(* Who runs when in src/haptics.c.  A POSIX timer raises SIGRTMIN for the  *)
(* process; the kernel interrupts any thread with it, in the middle of     *)
(* whatever library call that thread is in, and haptics_tick runs there to *)
(* its end before the call goes on.  The tick takes ring_lock, the same    *)
(* mutex ds_haptics_write holds.  What the ring holds is in HapticsRing.   *)
(***************************************************************************)
EXTENDS Integers, FiniteSets

CONSTANTS
    Thread,         \* threads of the process, none of which blocks SIGRTMIN
    Owner,          \* the thread that starts and stops streams
    Writer,         \* threads that call ds_haptics_write
    Stream,         \* the streams started in a run, each at most once
    Null,           \* no stream, no thread
    MayFail,        \* whether timer_create may fail
    SlowTick        \* whether a tick may outlast the timer's interval, 10.67 ms

ASSUME HapticsAssumption ==
    /\ Owner \in Thread /\ Writer \subseteq Thread
    /\ Null \notin Thread \cup Stream
    /\ MayFail \in BOOLEAN /\ SlowTick \in BOOLEAN

VARIABLES
    g,          \* g_haptics
    life,       \* life[s]: memory of the stream's struct
    running,    \* running[s]: h->running
    armed,      \* armed[s]: its timer is set
    raised,     \* raised[s]: a signal of its timer is pending
    lock,       \* lock[s]: the thread that holds ring_lock
    pc, arg,    \* the call a thread is in, and its stream
    hpc, harg,  \* the tick that interrupts the thread, and its h
    owed        \* history: a block the stream has taken from the ring and not sent

streamVars == <<g, life, running, armed>>
vars == <<streamVars, raised, lock, pc, arg, hpc, harg, owed>>

CallStep == {"idle", "starting", "undo", "lock", "push", "disarm", "forget", "free"}
TickStep == {"none", "load", "test", "lock", "take", "emit"}

TypeOK ==
    /\ g \in Stream \cup {Null}
    /\ life \in [Stream -> {"new", "live", "freed"}]
    /\ running \in [Stream -> BOOLEAN] /\ armed \in [Stream -> BOOLEAN]
    /\ raised \in [Stream -> BOOLEAN]
    /\ lock \in [Stream -> Thread \cup {Null}]
    /\ pc \in [Thread -> CallStep] /\ arg \in [Thread -> Stream \cup {Null}]
    /\ hpc \in [Thread -> TickStep] /\ harg \in [Thread -> Stream \cup {Null}]
    /\ owed \in [Stream -> 0 .. Cardinality(Thread)]

Init ==
    /\ g = Null
    /\ life = [s \in Stream |-> "new"]
    /\ running = [s \in Stream |-> FALSE] /\ armed = [s \in Stream |-> FALSE]
    /\ raised = [s \in Stream |-> FALSE]
    /\ lock = [s \in Stream |-> Null]
    /\ pc = [t \in Thread |-> "idle"] /\ arg = [t \in Thread |-> Null]
    /\ hpc = [t \in Thread |-> "none"] /\ harg = [t \in Thread |-> Null]
    /\ owed = [s \in Stream |-> 0]

-----------------------------------------------------------------------------
\* Library calls.  A thread makes progress in its call only while no tick
\* interrupts it; a thread alone in its process takes a signal at once, with
\* others it may go on while the signal is on its way to one of them.

Interrupted(t) == hpc[t] # "none" \/ (Thread = {t} /\ \E s \in Stream : raised[s])
At(t, step) == pc[t] = step /\ ~Interrupted(t)
Call(t, step, s) == pc' = [pc EXCEPT ![t] = step] /\ arg' = [arg EXCEPT ![t] = s]
Return(t) == Call(t, "idle", Null)

\* ds_haptics_start up to timer_create: the global is set first.  The caller
\* stops a stream before it starts another, as the haptics tool does: a second
\* one would take g_haptics over from the first.
Start(t, s) ==
    /\ t = Owner /\ At(t, "idle") /\ life[s] = "new"
    /\ \A r \in Stream : life[r] # "live"
    /\ life' = [life EXCEPT ![s] = "live"]
    /\ running' = [running EXCEPT ![s] = TRUE]
    /\ g' = s
    /\ Call(t, "starting", s)
    /\ UNCHANGED <<armed, raised, lock, hpc, harg, owed>>

ArmTimer(t) ==
    /\ At(t, "starting")
    /\ armed' = [armed EXCEPT ![arg[t]] = TRUE]
    /\ Return(t)
    /\ UNCHANGED <<g, life, running, raised, lock, hpc, harg, owed>>

\* timer_create failed: the struct is freed and only then is the global reset.
TimerFails(t) ==
    /\ MayFail /\ At(t, "starting")
    /\ life' = [life EXCEPT ![arg[t]] = "freed"]
    /\ Call(t, "undo", arg[t])
    /\ UNCHANGED <<g, running, armed, raised, lock, hpc, harg, owed>>

UndoStart(t) ==
    /\ At(t, "undo")
    /\ g' = Null
    /\ Return(t)
    /\ UNCHANGED <<life, running, armed, raised, lock, hpc, harg, owed>>

\* ds_haptics_write.  The caller sees to it that no write is begun on a
\* stream that is being stopped, nor a stop during a write.
InUse(s) == \E t \in Thread : arg[t] = s

BeginWrite(t, s) ==
    /\ t \in Writer /\ At(t, "idle") /\ life[s] = "live" /\ running[s]
    /\ \A u \in Thread : arg[u] = s => pc[u] \in {"lock", "push"}
    /\ Call(t, "lock", s)
    /\ UNCHANGED <<streamVars, raised, lock, hpc, harg, owed>>

WriterLocks(t) ==
    /\ At(t, "lock") /\ lock[arg[t]] = Null
    /\ lock' = [lock EXCEPT ![arg[t]] = t]
    /\ pc' = [pc EXCEPT ![t] = "push"]
    /\ UNCHANGED <<streamVars, raised, arg, hpc, harg, owed>>

EndWrite(t) ==
    /\ At(t, "push")
    /\ lock' = [lock EXCEPT ![arg[t]] = Null]
    /\ Return(t)
    /\ UNCHANGED <<streamVars, raised, hpc, harg, owed>>

\* ds_haptics_stop: h->running = false comes first and needs no lock.
FlagStoppedLocked(t, s) == lock' = [lock EXCEPT ![s] = t] /\ UNCHANGED running
FlagStopped(t, s) == running' = [running EXCEPT ![s] = FALSE] /\ UNCHANGED lock

BeginStop(t, s) ==
    /\ t = Owner /\ At(t, "idle") /\ life[s] = "live" /\ ~InUse(s)
    /\ FlagStopped(t, s)
    /\ Call(t, "disarm", s)
    /\ UNCHANGED <<g, life, armed, raised, hpc, harg, owed>>

\* timer_settime and timer_delete; a signal already raised stays pending.
LeaveTimer(s) == UNCHANGED armed
DeleteTimer(s) == armed' = [armed EXCEPT ![s] = FALSE]

Disarm(t) ==
    /\ At(t, "disarm")
    /\ DeleteTimer(arg[t])
    /\ pc' = [pc EXCEPT ![t] = "forget"]
    /\ UNCHANGED <<g, life, running, raised, lock, arg, hpc, harg, owed>>

Forget(t) ==
    /\ At(t, "forget")
    /\ g' = Null
    /\ pc' = [pc EXCEPT ![t] = "free"]
    /\ UNCHANGED <<life, running, armed, raised, lock, arg, hpc, harg, owed>>

FreeStream(t) ==
    /\ At(t, "free")
    /\ life' = [life EXCEPT ![arg[t]] = "freed"]
    /\ Return(t)
    /\ UNCHANGED <<g, running, armed, raised, lock, hpc, harg, owed>>

LibraryCall(t) ==
    \/ ArmTimer(t) \/ TimerFails(t) \/ UndoStart(t)
    \/ WriterLocks(t) \/ EndWrite(t)
    \/ Disarm(t) \/ Forget(t) \/ FreeStream(t)

-----------------------------------------------------------------------------
\* The timer and haptics_tick.

Expire(s) ==
    /\ armed[s] /\ ~raised[s]
    /\ SlowTick \/ \A t \in Thread : hpc[t] = "none"
    /\ raised' = [raised EXCEPT ![s] = TRUE]
    /\ UNCHANGED <<streamVars, lock, pc, arg, hpc, harg, owed>>

\* The signal is blocked in a thread only while its handler runs there.
Interrupt(t, s) ==
    /\ raised[s] /\ hpc[t] = "none"
    /\ raised' = [raised EXCEPT ![s] = FALSE]
    /\ hpc' = [hpc EXCEPT ![t] = "load"]
    /\ UNCHANGED <<streamVars, lock, pc, arg, harg, owed>>

Tick(t, step, s) == hpc' = [hpc EXCEPT ![t] = step] /\ harg' = [harg EXCEPT ![t] = s]
EndTick(t) == Tick(t, "none", Null)

\* h = g_haptics; if (!h) return
Load(t) ==
    /\ hpc[t] = "load"
    /\ IF g = Null THEN EndTick(t) ELSE Tick(t, "test", g)
    /\ UNCHANGED <<streamVars, raised, lock, pc, arg, owed>>

\* if (!h->running) return
Test(t) ==
    /\ hpc[t] = "test"
    /\ IF running[harg[t]] THEN Tick(t, "lock", harg[t]) ELSE EndTick(t)
    /\ UNCHANGED <<streamVars, raised, lock, pc, arg, owed>>

\* ring_read: a mutex the interrupted call holds is never released.
TickLocks(t) ==
    /\ hpc[t] = "lock" /\ lock[harg[t]] = Null
    /\ lock' = [lock EXCEPT ![harg[t]] = t]
    /\ Tick(t, "take", harg[t])
    /\ UNCHANGED <<streamVars, raised, pc, arg, owed>>

Take(t) ==
    /\ hpc[t] = "take"
    /\ lock' = [lock EXCEPT ![harg[t]] = Null]
    /\ owed' = [owed EXCEPT ![harg[t]] = @ + 1]
    /\ Tick(t, "emit", harg[t])
    /\ UNCHANGED <<streamVars, raised, pc, arg>>

\* Padding, frame counter, CRC and write of the one report of the stream.
SentNothing(s) == UNCHANGED owed
Sent(s) == owed' = [owed EXCEPT ![s] = @ - 1]
Emit(t) ==
    /\ hpc[t] = "emit"
    /\ Sent(harg[t])
    /\ EndTick(t)
    /\ UNCHANGED <<streamVars, raised, lock, pc, arg>>

Handler(t) == Load(t) \/ Test(t) \/ TickLocks(t) \/ Take(t) \/ Emit(t)

Next ==
    \/ \E t \in Thread :
        \/ \E s \in Stream : Start(t, s) \/ BeginWrite(t, s) \/ BeginStop(t, s) \/ Interrupt(t, s)
        \/ LibraryCall(t)
        \/ Handler(t)
    \/ \E s \in Stream : Expire(s)

Spec == Init /\ [][Next]_vars

\* Signals are delivered, threads and handlers are scheduled; a call that is
\* interrupted again and again still goes on between two ticks.
FairSpec ==
    /\ Spec
    /\ \A t \in Thread :
        /\ WF_vars(Handler(t) \/ \E s \in Stream : Interrupt(t, s))
        /\ SF_vars(LibraryCall(t))

-----------------------------------------------------------------------------
\* A tick never looks into a stream that has been freed.
NoUseAfterFree ==
    \A t \in Thread : hpc[t] \notin {"none", "load"} => life[harg[t]] # "freed"

\* ds_haptics_write returns.
WriteReturns == \A t \in Thread : pc[t] \in {"lock", "push"} ~> pc[t] = "idle"

\* ds_haptics_stop returns, whatever ticks interrupt it.
StopReturns == \A t \in Thread : pc[t] \in {"disarm", "forget", "free"} ~> pc[t] = "idle"
=============================================================================
