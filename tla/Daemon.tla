-------------------------------- MODULE Daemon --------------------------------
(***************************************************************************)
(* The poll loop of dualsensed (daemon/dualsensed.c main, lines 145-260):  *)
(* one thread, a table of client slots, a listening Unix socket, the DSX   *)
(* UDP socket with its inactivity timer, and shutdown.  Every read, write  *)
(* and accept is blocking, and clients, datagrams, time and signals move   *)
(* between any two system calls of the loop.                               *)
(*                                                                         *)
(* A request is a line of the native protocol.  Bytes are counted in half  *)
(* lines, so that a read may end inside a line.  What a command does to a  *)
(* controller is the subject of module Commands; here the only thing a     *)
(* controller shows is whether a DSX effect is in force.                   *)
(***************************************************************************)
EXTENDS Integers, Sequences, SequencesExt

CONSTANTS
    Client,         \* processes that may connect to the Unix socket
    Free,           \* an empty slot (fd = -1)
    MaxClients,     \* slots (MAX_CLIENTS, 8)
    MaxRead,        \* half lines one read() can take (BUF_SIZE - 1 bytes)
    InCap,          \* bound: half lines a client may have unread
    ReplyCap,       \* replies the socket holds before write() blocks
    Timeout,        \* DSX_MOD_TIMEOUT_SEC
    Dsx,            \* whether DSX packets are sent
    Split,          \* whether a client may write a line in two pieces
    MaxExtra,       \* bound: replies beyond one per line after which a client
                    \* writes no more
    Polite,         \* whether clients wait for each reply, as the GUI does
    SendMayFail,    \* whether ds_send may fail
    MayStop         \* whether the daemon may be told to stop

ASSUME DaemonAssumption ==
    /\ Free \notin Client
    /\ MaxClients \in Nat \ {0}
    /\ MaxRead \in Nat \ {0}
    /\ InCap \in Nat
    /\ ReplyCap \in Nat \ {0}
    /\ Timeout \in Nat
    /\ MaxExtra \in Nat \ {0}
    /\ {Dsx, Split, Polite, SendMayFail, MayStop} \subseteq BOOLEAN

Slot == 1 .. MaxClients

VARIABLES
    pc,             \* where the loop is
    running,        \* g_running
    slot,           \* slot[s]: the client whose descriptor fds[s+1] holds
    nslots,         \* nfds - POLL_CLIENTS: the slots poll() looks at
    ready,          \* revents of the slots
    readyListen,    \* revents of the listening socket
    readyUdp,       \* revents of the UDP socket
    cur,            \* the slot the client loop is at
    todo,           \* commands of the buffer read last that are still to run
    dsxActive,      \* dsx_active
    idle,           \* time(NULL) - last_dsx_msg, as far as it matters
    backlog,        \* connections the kernel holds for accept()
    udp,            \* a DSX packet waits to be received
    peer,           \* the client's end of its connection
    unread,         \* half lines the daemon has not read
    midline,        \* 1 if the next half line is the end of a line
    replies,        \* replies the client has not read
    owed,           \* history: lines completed minus replies written
    effects         \* a DSX effect is in force on the controller

loopVars == <<pc, running, cur, todo>>
slotVars == <<slot, nslots, ready, readyListen, readyUdp>>
dsxVars == <<dsxActive, idle, udp, effects>>
clientVars == <<backlog, peer, unread, midline, replies, owed>>
vars == <<loopVars, slotVars, dsxVars, clientVars>>

Location == {"check", "poll", "timeout", "accept", "udp", "clients", "read", "reply", "exited"}
\* "closed": the client closed its end while the daemon still has the other;
\* "hungup": the daemon closed its end while the client still has the other.
Peer == {"away", "open", "closed", "hungup"}

InDaemon(c) == (\E s \in Slot : slot[s] = c) \/ Contains(backlog, c)
Serving(c) == pc = "reply" /\ slot[cur] = c

TypeOK ==
    /\ pc \in Location /\ running \in BOOLEAN
    /\ slot \in [Slot -> Client \cup {Free}]
    /\ nslots \in 0 .. MaxClients /\ cur \in 1 .. MaxClients + 1
    /\ ready \in [Slot -> BOOLEAN] /\ readyListen \in BOOLEAN /\ readyUdp \in BOOLEAN
    /\ todo \in 0 .. MaxRead
    /\ dsxActive \in BOOLEAN /\ effects \in BOOLEAN
    /\ idle \in 0 .. Timeout + 1
    /\ backlog \in Seq(Client) /\ udp \in BOOLEAN
    /\ peer \in [Client -> Peer]
    /\ unread \in [Client -> 0 .. InCap] /\ midline \in [Client -> {0, 1}]
    /\ replies \in [Client -> 0 .. ReplyCap] /\ owed \in [Client -> Int]

\* main before the loop.  revents is not initialised: poll() fills it for the
\* first nfds entries only, so a slot beyond them holds whatever the stack held.
Init ==
    /\ pc = "check" /\ running = TRUE
    /\ slot = [s \in Slot |-> Free] /\ nslots = 0
    /\ ready \in [Slot -> BOOLEAN] /\ readyListen = FALSE /\ readyUdp = FALSE
    /\ cur = 1 /\ todo = 0
    /\ dsxActive = FALSE /\ idle = Timeout + 1 /\ udp = FALSE
    /\ effects = FALSE
    /\ backlog = <<>>
    /\ peer = [c \in Client |-> "away"]
    /\ unread = [c \in Client |-> 0] /\ midline = [c \in Client |-> 0]
    /\ replies = [c \in Client |-> 0] /\ owed = [c \in Client |-> 0]

-----------------------------------------------------------------------------
\* The loop.

Goto(l) == pc' = l

\* while (g_running)
CheckForever ==
    /\ pc = "check"
    /\ Goto("poll")
    /\ UNCHANGED <<running, cur, todo, slotVars, dsxVars, clientVars>>
Check ==
    /\ pc = "check" /\ running
    /\ Goto("poll")
    /\ UNCHANGED <<running, cur, todo, slotVars, dsxVars, clientVars>>

Readable(c) == unread[c] > 0 \/ peer[c] = "closed"

\* poll(fds, nfds, 1000): an event, or a second without one.
PolledEvents(s) ==
    IF s <= nslots THEN slot[s] # Free /\ Readable(slot[s]) ELSE ready[s]
Poll ==
    /\ pc = "poll"
    /\ ready' = [s \in Slot |-> PolledEvents(s)]
    /\ readyListen' = (backlog # <<>>)
    /\ readyUdp' = udp
    /\ Goto("timeout")
    /\ UNCHANGED <<running, cur, todo, slot, nslots, dsxVars, clientVars>>

\* EINTR
PollInterrupted ==
    /\ pc = "poll" /\ ~running
    /\ Goto("check")
    /\ UNCHANGED <<running, cur, todo, slotVars, dsxVars, clientVars>>

\* dsx_reset_all, whose ds_send results are dropped
ResetAll == effects' \in (IF SendMayFail THEN {FALSE, effects} ELSE {FALSE})

ExpiredOnlyWhenQuiet ==
    dsxActive /\ idle > Timeout /\ ~readyListen /\ \A s \in Slot : ~ready[s]
Expired == dsxActive /\ idle > Timeout

DsxTimeout ==
    /\ pc = "timeout"
    /\ IF Expired THEN ResetAll /\ dsxActive' = FALSE ELSE UNCHANGED <<effects, dsxActive>>
    /\ Goto("accept")
    /\ UNCHANGED <<running, cur, todo, slotVars, idle, udp, clientVars>>

FreeSlots == {s \in Slot : slot[s] = Free}
FirstFree == CHOOSE s \in FreeSlots : \A t \in FreeSlots : s <= t

\* The slots poll() looks at once a client sits in slot s.
SlotsUpToOnePast(s) == IF s + 1 > nslots THEN s + 1 ELSE nslots
SlotsUpToOffByOne(s) == IF s > nslots THEN s - 1 ELSE nslots
SlotsUpTo(s) == IF s > nslots THEN s ELSE nslots

\* The daemon's ends of these connections are gone and what was on the way to
\* them; what they have sent can still be read.
HangUp(gone) ==
    /\ peer' = [c \in Client |->
                   IF c \notin gone THEN peer[c]
                   ELSE IF peer[c] = "closed" THEN "away" ELSE "hungup"]
    /\ unread' = [c \in Client |-> IF c \in gone THEN 0 ELSE unread[c]]
    /\ midline' = [c \in Client |-> IF c \in gone THEN 0 ELSE midline[c]]
    /\ owed' = [c \in Client |-> IF c \in gone THEN 0 ELSE owed[c]]

\* accept() into the first slot without a descriptor
AcceptClient ==
    /\ pc = "accept" /\ readyListen /\ FreeSlots # {}
    /\ slot' = [slot EXCEPT ![FirstFree] = Head(backlog)]
    /\ nslots' = SlotsUpTo(FirstFree)
    /\ backlog' = Tail(backlog)
    /\ Goto("udp")
    /\ UNCHANGED <<running, cur, todo, ready, readyListen, readyUdp, dsxVars>>
    /\ UNCHANGED <<peer, unread, midline, replies, owed>>

\* "too many clients", written before the connection is closed
RefuseClient ==
    /\ pc = "accept" /\ readyListen /\ FreeSlots = {}
    /\ LET c == Head(backlog)
       IN  /\ HangUp({c})
           /\ replies' = [replies EXCEPT ![c] = IF peer[c] = "closed" THEN 0 ELSE 1]
    /\ backlog' = Tail(backlog)
    /\ Goto("udp")
    /\ UNCHANGED <<running, cur, todo, slotVars, dsxVars>>

NoConnection ==
    /\ pc = "accept" /\ ~readyListen
    /\ Goto("udp")
    /\ UNCHANGED <<running, cur, todo, slotVars, dsxVars, clientVars>>

\* recvfrom and dsx_process_packet: any packet restarts the timer, whether it
\* sets an effect, resets them or only asks for the status.
Receive ==
    /\ pc = "udp" /\ readyUdp
    /\ effects' \in BOOLEAN
    /\ udp' = FALSE /\ idle' = 0 /\ dsxActive' = TRUE
    /\ Goto("clients") /\ cur' = 1
    /\ UNCHANGED <<running, todo, slotVars, clientVars>>

NoPacket ==
    /\ pc = "udp" /\ ~readyUdp
    /\ Goto("clients") /\ cur' = 1
    /\ UNCHANGED <<running, todo, slotVars, dsxVars, clientVars>>

\* The for loop over fds[POLL_CLIENTS .. nfds-1]
NextSlot ==
    /\ pc = "clients"
    /\ IF cur > nslots THEN Goto("check") /\ UNCHANGED cur
       ELSE IF slot[cur] = Free \/ ~ready[cur] THEN cur' = cur + 1 /\ UNCHANGED pc
       ELSE Goto("read") /\ UNCHANGED cur
    /\ UNCHANGED <<running, todo, slotVars, dsxVars, clientVars>>

\* The lines of a buffer of n half lines whose first ends a line iff mid = 1:
\* one for each newline, and one more for a rest without newline.
LinesFirstOnly(mid, n) == 1
LinesPlusRest(mid, n) == (mid + n) \div 2 + 1
Lines(mid, n) == (mid + n + 1) \div 2

\* read() returning data; without data or end of file it blocks.
ReadData ==
    /\ pc = "read" /\ unread[slot[cur]] > 0
    /\ LET c == slot[cur]
           n == IF unread[c] < MaxRead THEN unread[c] ELSE MaxRead
       IN  /\ unread' = [unread EXCEPT ![c] = @ - n]
           /\ midline' = [midline EXCEPT ![c] = (@ + n) % 2]
           /\ todo' = Lines(midline[c], n)
    /\ Goto("reply")
    /\ UNCHANGED <<running, cur, slotVars, dsxVars, backlog, peer, replies, owed>>

\* read() returning 0: the slot is free again, nfds stays.
ReadEnd ==
    /\ pc = "read" /\ unread[slot[cur]] = 0 /\ peer[slot[cur]] = "closed"
    /\ slot' = [slot EXCEPT ![cur] = Free]
    /\ HangUp({slot[cur]})
    /\ Goto("clients") /\ cur' = cur + 1
    /\ UNCHANGED <<running, todo, nslots, ready, readyListen, readyUdp, dsxVars, backlog, replies>>

\* native_handle_command writing its reply; it blocks while the socket is
\* full and fails without notice once the client is gone.
Reply ==
    /\ pc = "reply" /\ todo > 0
    /\ LET c == slot[cur]
       IN  /\ peer[c] = "closed" \/ replies[c] < ReplyCap
           /\ replies' = [replies EXCEPT ![c] = IF peer[c] = "closed" THEN @ ELSE @ + 1]
           /\ owed' = [owed EXCEPT ![c] = @ - 1]
    /\ todo' = todo - 1
    /\ UNCHANGED <<pc, running, cur, slotVars, dsxVars, backlog, peer, unread, midline>>

BufferDone ==
    /\ pc = "reply" /\ todo = 0
    /\ Goto("clients") /\ cur' = cur + 1
    /\ UNCHANGED <<running, todo, slotVars, dsxVars, clientVars>>

\* Shutdown after the loop; the kernel drops the connections not yet accepted.
Shutdown ==
    /\ pc = "check" /\ ~running
    /\ Goto("exited")
    /\ ResetAll
    /\ HangUp({c \in Client : InDaemon(c)})
    /\ slot' = [s \in Slot |-> Free] /\ backlog' = <<>>
    /\ UNCHANGED <<running, cur, todo, nslots, ready, readyListen, readyUdp>>
    /\ UNCHANGED <<dsxActive, idle, udp, replies>>

Loop ==
    \/ Check \/ Poll \/ PollInterrupted \/ DsxTimeout
    \/ AcceptClient \/ RefuseClient \/ NoConnection
    \/ Receive \/ NoPacket
    \/ NextSlot \/ ReadData \/ ReadEnd \/ Reply \/ BufferDone
    \/ Shutdown

-----------------------------------------------------------------------------
\* The environment: clients, DSX senders, the clock and signals.

\* connect(): the kernel queues at most one more than listen() asked for.
Connect(c) ==
    /\ peer[c] = "away" /\ pc # "exited" /\ Len(backlog) <= MaxClients
    /\ peer' = [peer EXCEPT ![c] = "open"]
    /\ backlog' = Append(backlog, c)
    /\ UNCHANGED <<loopVars, slotVars, dsxVars, unread, midline, replies, owed>>

\* The client is not in the middle of a line it writes.
AtLineStart(c) == (midline[c] + unread[c]) % 2 = 0
Settled(c) == owed[c] = 0 /\ replies[c] = 0 /\ unread[c] = 0

Write(c, n) ==
    /\ peer[c] = "open" /\ unread[c] + n <= InCap /\ owed[c] > -MaxExtra
    /\ unread' = [unread EXCEPT ![c] = @ + n]
    /\ UNCHANGED <<loopVars, slotVars, dsxVars, backlog, peer, midline, replies>>

WriteLine(c) ==
    /\ AtLineStart(c) /\ (Polite => Settled(c))
    /\ Write(c, 2)
    /\ owed' = [owed EXCEPT ![c] = @ + 1]

WriteHalfLine(c) ==
    /\ Split
    /\ Write(c, 1)
    /\ owed' = [owed EXCEPT ![c] = IF AtLineStart(c) THEN @ ELSE @ + 1]

ReadReply(c) ==
    /\ peer[c] \in {"open", "hungup"} /\ replies[c] > 0
    /\ replies' = [replies EXCEPT ![c] = @ - 1]
    /\ UNCHANGED <<loopVars, slotVars, dsxVars, backlog, peer, unread, midline, owed>>

CloseConnection(c) ==
    /\ \/ peer[c] = "open" /\ (Polite => Settled(c))
       \/ peer[c] = "hungup"
    /\ peer' = [peer EXCEPT ![c] = IF @ = "open" THEN "closed" ELSE "away"]
    /\ replies' = [replies EXCEPT ![c] = 0]
    /\ UNCHANGED <<loopVars, slotVars, dsxVars, backlog, unread, midline, owed>>

\* Packets sent while one waits are dropped or merged: one at a time is enough.
SendPacket ==
    /\ Dsx /\ ~udp /\ pc # "exited"
    /\ udp' = TRUE
    /\ UNCHANGED <<loopVars, slotVars, clientVars, dsxActive, idle, effects>>

\* Time past the timeout makes no further difference.
Later(t) == IF t > Timeout THEN t ELSE t + 1
Tick ==
    /\ idle' = Later(idle) /\ idle' # idle
    /\ UNCHANGED <<loopVars, slotVars, clientVars, dsxActive, udp, effects>>

\* SIGINT or SIGTERM; a blocked read or write is restarted (glibc's signal()).
Signal ==
    /\ MayStop /\ running
    /\ running' = FALSE
    /\ UNCHANGED <<pc, cur, todo, slotVars, dsxVars, clientVars>>

Environment ==
    \/ \E c \in Client : \/ Connect(c) \/ WriteLine(c) \/ WriteHalfLine(c)
                         \/ ReadReply(c) \/ CloseConnection(c)
    \/ SendPacket
    \/ Tick
    \/ Signal

Next == Loop \/ Environment

Spec == Init /\ [][Next]_vars

\* The process is scheduled and the clock runs.
FairLoop == WF_vars(Loop) /\ WF_vars(Tick)
\* A client with a connection goes on to use it or closes it, reads what it is
\* sent, and gives up a connection the daemon closed (gui/dualsense-gui.py
\* send_command: connect, sendall, recv, close).
FairClients ==
    \A c \in Client : WF_vars(WriteLine(c) \/ CloseConnection(c)) /\ WF_vars(ReadReply(c))

LoopFairSpec == Spec /\ FairLoop
FairSpec == Spec /\ FairLoop /\ FairClients

-----------------------------------------------------------------------------
\* The slot table never loses or doubles a descriptor: every connection the
\* daemon holds is in one place, and every slot in use is among those poll()
\* looks at, so no client can be accepted and then never be served.
SlotTable ==
    /\ \A s \in Slot : slot[s] # Free => s <= nslots
    /\ \A s, t \in Slot : slot[s] = slot[t] /\ s # t => slot[s] = Free
    /\ \A s \in Slot : slot[s] # Free => ~Contains(backlog, slot[s])
    /\ \A c \in Client :
        InDaemon(c) <=> peer[c] = "closed" \/ (peer[c] = "open" /\ pc # "exited")

\* Exactly one reply for every line of a connected client: what a client has
\* asked is answered, waits in its socket, or is being worked on.
OneReplyPerLine ==
    \A c \in Client :
        peer[c] = "open" =>
            owed[c] = (midline[c] + unread[c]) \div 2 + (IF Serving(c) THEN todo ELSE 0)

\* However a line is cut up on its way, it is not lost: every complete line is
\* answered at least once, counting what is still unread or being worked on.
NoLineUnanswered ==
    \A c \in Client :
        peer[c] = "open" =>
            owed[c] <= (midline[c] + unread[c]) \div 2 + (IF Serving(c) THEN todo ELSE 0)

\* A DSX effect ends once no packet has come for the timeout, whatever the
\* clients of the Unix socket do meanwhile.
EffectsExpire == effects /\ idle > Timeout ~> ~effects \/ idle <= Timeout

\* Every client that waits for a reply gets it, or its connection ends.
RequestsAnswered ==
    \A c \in Client : owed[c] > 0 ~> owed[c] = 0

\* SIGINT or SIGTERM ends the daemon.
ShutdownCompletes == ~running ~> pc = "exited"
=============================================================================
