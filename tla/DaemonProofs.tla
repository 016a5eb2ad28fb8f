----------------------------- MODULE DaemonProofs -----------------------------
(***************************************************************************)
(* Proofs about Daemon for any number of clients and slots, any size of    *)
(* the buffers on the way and any interleaving of the loop with its peers. *)
(***************************************************************************)
EXTENDS Daemon, SequenceTheorems, WellFoundedInduction, TLAPS

-----------------------------------------------------------------------------
\* The four parts of SlotTable, each under a name.
SlotsPolled == \A s \in Slot : slot[s] # Free => s <= nslots
OneSlotEach == \A s, t \in Slot : slot[s] = slot[t] /\ s # t => slot[s] = Free
SlotOrQueue == \A s \in Slot : slot[s] # Free => ~Contains(backlog, slot[s])
HeldIffConnected ==
    \A c \in Client : InDaemon(c) <=> peer[c] = "closed" \/ (peer[c] = "open" /\ pc # "exited")

\* What SlotTable needs to be inductive.  The client loop works on a client;
\* a connection waits once; accept() is only called when one waits, so that it
\* does not block; nobody is connected once the daemon has exited; and nothing
\* of a connection that is gone is left for the next one of the same client.
AtAClient == pc \in {"read", "reply"} => cur <= nslots /\ slot[cur] # Free
Distinct(q) == \A i, j \in 1 .. Len(q) : q[i] = q[j] => i = j
AcceptReady == pc \in {"timeout", "accept"} /\ readyListen => backlog # <<>>
NobodyOpenAtExit == pc = "exited" => \A c \in Client : peer[c] # "open"
NothingLeft ==
    \A c \in Client :
        peer[c] \in {"away", "hungup"} => unread[c] = 0 /\ midline[c] = 0 /\ owed[c] = 0

Bookkeeping ==
    /\ AtAClient
    /\ Distinct(backlog)
    /\ AcceptReady
    /\ NobodyOpenAtExit
    /\ NothingLeft

IInv == TypeOK /\ SlotTable /\ Bookkeeping

-----------------------------------------------------------------------------
\* Waiting connections: accept() takes the first, connect() adds one.

\* The rest of a queue that holds each connection once holds all but the first.
LEMMA TailOfDistinct ==
    ASSUME NEW S, NEW q \in Seq(S), q # <<>>, Distinct(q)
    PROVE  /\ Head(q) \in S /\ Contains(q, Head(q))
           /\ Tail(q) \in Seq(S) /\ Distinct(Tail(q))
           /\ \A e : Contains(Tail(q), e) <=> Contains(q, e) /\ e # Head(q)
<1>1. /\ Len(q) \in Nat \ {0} /\ Head(q) = q[1] /\ Head(q) \in S
      /\ Tail(q) \in Seq(S) /\ Len(Tail(q)) = Len(q) - 1
      /\ \A i \in 1 .. Len(Tail(q)) : Tail(q)[i] = q[i + 1]
  BY HeadTailProperties, EmptySeq, LenProperties
<1>2. Contains(q, Head(q))
  BY <1>1 DEF Contains
<1>3. Distinct(Tail(q))
  <2> SUFFICES ASSUME NEW i \in 1 .. Len(Tail(q)), NEW j \in 1 .. Len(Tail(q)),
                      Tail(q)[i] = Tail(q)[j]
               PROVE  i = j
    BY DEF Distinct
  <2>1. i + 1 \in 1 .. Len(q) /\ j + 1 \in 1 .. Len(q) /\ q[i + 1] = q[j + 1]
    BY <1>1
  <2>2. i + 1 = j + 1
    BY <2>1 DEF Distinct
  <2>3. QED
    BY <2>2
<1>4. ASSUME NEW e, Contains(Tail(q), e) PROVE Contains(q, e) /\ e # Head(q)
  <2>1. PICK i \in 1 .. Len(Tail(q)) : Tail(q)[i] = e
    BY <1>4 DEF Contains
  <2>2. i + 1 \in 1 .. Len(q) /\ q[i + 1] = e /\ 1 \in 1 .. Len(q) /\ i + 1 # 1
    BY <1>1, <2>1
  <2>3. q[1] # e
    BY <2>2 DEF Distinct
  <2>4. QED
    BY <1>1, <2>2, <2>3 DEF Contains
<1>5. ASSUME NEW e, Contains(q, e), e # Head(q) PROVE Contains(Tail(q), e)
  <2>1. PICK i \in 1 .. Len(q) : q[i] = e
    BY <1>5 DEF Contains
  <2>2. i - 1 \in 1 .. Len(Tail(q)) /\ i - 1 + 1 = i
    BY <1>1, <1>5, <2>1
  <2>3. Tail(q)[i - 1] = e
    BY <1>1, <2>1, <2>2
  <2>4. QED
    BY <2>2, <2>3 DEF Contains
<1>6. QED
  BY <1>1, <1>2, <1>3, <1>4, <1>5

\* A queue of connections grows by one that was not in it.
LEMMA AppendToDistinct ==
    ASSUME NEW S, NEW q \in Seq(S), NEW c \in S, Distinct(q), ~Contains(q, c)
    PROVE  /\ Append(q, c) \in Seq(S) /\ Append(q, c) # <<>>
           /\ Distinct(Append(q, c))
           /\ \A e : Contains(Append(q, c), e) <=> Contains(q, e) \/ e = c
<1> DEFINE a == Append(q, c)
<1>1. /\ Len(q) \in Nat /\ a \in Seq(S) /\ a # <<>> /\ Len(a) = Len(q) + 1
      /\ \A i \in 1 .. Len(q) : a[i] = q[i]
      /\ a[Len(q) + 1] = c
  BY AppendProperties, LenProperties
<1> HIDE DEF a
<1>2. \A i \in 1 .. Len(a) : i \in 1 .. Len(q) \/ i = Len(q) + 1
  BY <1>1
<1>3. 1 .. Len(q) \subseteq 1 .. Len(a) /\ Len(q) + 1 \in 1 .. Len(a)
  BY <1>1
<1>4. Distinct(a)
  BY <1>1, <1>2 DEF Distinct, Contains
<1>5. \A e : Contains(a, e) <=> Contains(q, e) \/ e = c
  BY <1>1, <1>2, <1>3 DEF Contains
<1>6. QED
  BY <1>1, <1>4, <1>5 DEF a

\* An empty queue holds nothing.
LEMMA EmptyQueue == Distinct(<<>>) /\ \A e : ~Contains(<<>>, e)
BY DEF Distinct, Contains

-----------------------------------------------------------------------------
\* Slots: accept() takes the first free one.

\* A set of natural numbers that is not empty has a least element.
LEMMA LeastNatural ==
    ASSUME NEW T \in SUBSET Nat, T # {}
    PROVE  \E x \in T : \A y \in T : x <= y
<1> DEFINE R == {p \in Nat \X Nat : p[1] < p[2]}
<1>1. R = OpToRel(<, Nat)
  BY DEF OpToRel
<1>2. IsWellFoundedOn(R, Nat)
  BY <1>1, NatLessThanWellFounded
<1> HIDE DEF R
<1>3. PICK x \in T : \A y \in T : ~(<<y, x>> \in R)
  BY <1>2, WFMin
<1>4. \A y \in T : ~(y < x)
  BY <1>3 DEF R
<1>5. QED
  BY <1>3, <1>4

\* The first free slot is free, and poll() looks at it from now on.
LEMMA FirstFreeSlot ==
    ASSUME nslots \in 0 .. MaxClients, FreeSlots # {}
    PROVE  /\ FirstFree \in Slot /\ slot[FirstFree] = Free
           /\ SlotsUpTo(FirstFree) \in 0 .. MaxClients
           /\ FirstFree <= SlotsUpTo(FirstFree) /\ nslots <= SlotsUpTo(FirstFree)
<1>1. MaxClients \in Nat /\ FreeSlots \in SUBSET Nat
  BY DaemonAssumption DEF FreeSlots, Slot
<1>2. \E s \in FreeSlots : \A t \in FreeSlots : s <= t
  BY <1>1, LeastNatural
<1>3. FirstFree \in FreeSlots
  BY <1>2 DEF FirstFree
<1>4. FirstFree \in Slot /\ slot[FirstFree] = Free
  BY <1>3 DEF FreeSlots
<1>5. QED
  BY <1>1, <1>4 DEF SlotsUpTo, Slot

-----------------------------------------------------------------------------
\* SlotTable is its four parts.
LEMMA SlotTableParts ==
    SlotTable <=> SlotsPolled /\ OneSlotEach /\ SlotOrQueue /\ HeldIffConnected
BY DEF SlotTable, SlotsPolled, OneSlotEach, SlotOrQueue, HeldIffConnected

\* A step that leaves the slots, the queue and the connections alone and does
\* not end the daemon keeps SlotTable.
LEMMA QuietKeepsTable ==
    ASSUME SlotTable, UNCHANGED <<slot, nslots, backlog, peer>>,
           pc = "exited" <=> pc' = "exited"
    PROVE  SlotTable'
BY DEF SlotTable, InDaemon

\* What HangUp leaves of each client.
LEMMA HangUpEffect ==
    ASSUME TypeOK, NEW gone, HangUp(gone)
    PROVE  /\ peer' \in [Client -> Peer]
           /\ unread' \in [Client -> 0 .. InCap] /\ midline' \in [Client -> {0, 1}]
           /\ owed' \in [Client -> Int]
           /\ \A c \in Client :
                 IF c \in gone
                 THEN /\ peer'[c] \in {"away", "hungup"}
                      /\ unread'[c] = 0 /\ midline'[c] = 0 /\ owed'[c] = 0
                 ELSE /\ peer'[c] = peer[c] /\ unread'[c] = unread[c]
                      /\ midline'[c] = midline[c] /\ owed'[c] = owed[c]
BY DaemonAssumption DEF HangUp, TypeOK, Peer

-----------------------------------------------------------------------------
\* The initial states.
LEMMA InitSound == Init => IInv
<1> SUFFICES ASSUME Init PROVE IInv
  OBVIOUS
<1>1. backlog \in Seq(Client)
  BY EmptySeq DEF Init
<1>2. TypeOK
  <2>1. /\ MaxClients \in Nat \ {0} /\ Timeout \in Nat /\ MaxRead \in Nat
        /\ InCap \in Nat /\ ReplyCap \in Nat
    BY DaemonAssumption
  <2>2. /\ nslots \in 0 .. MaxClients /\ cur \in 1 .. MaxClients + 1
        /\ todo \in 0 .. MaxRead /\ idle \in 0 .. Timeout + 1
    BY <2>1 DEF Init
  <2>3. /\ peer \in [Client -> Peer] /\ unread \in [Client -> 0 .. InCap]
        /\ midline \in [Client -> {0, 1}] /\ replies \in [Client -> 0 .. ReplyCap]
        /\ owed \in [Client -> Int]
    BY <2>1 DEF Init, Peer
  <2>4. QED
    BY <1>1, <2>2, <2>3 DEF Init, TypeOK, Location
<1>3. SlotTable
  BY EmptyQueue, DaemonAssumption DEF Init, SlotTable, InDaemon
<1>4. Bookkeeping
  BY EmptyQueue DEF Init, Bookkeeping, AtAClient, AcceptReady, NobodyOpenAtExit, NothingLeft
<1>5. QED
  BY <1>2, <1>3, <1>4 DEF IInv

-----------------------------------------------------------------------------
\* The steps of the loop that neither take nor leave a client.

\* while, poll() and its interruption, the timer, and no connection.
LEMMA TurnSound ==
    ASSUME IInv, Check \/ Poll \/ PollInterrupted \/ DsxTimeout \/ NoConnection
    PROVE  IInv'
<1>1. TypeOK /\ SlotTable /\ Bookkeeping
  BY DEF IInv
<1>2. UNCHANGED <<slot, nslots, clientVars, cur, todo>>
  BY DEF Check, Poll, PollInterrupted, DsxTimeout, NoConnection, slotVars
<1>3. pc # "exited" /\ pc' \in {"poll", "timeout", "check", "accept", "udp"}
  BY DEF Check, Poll, PollInterrupted, DsxTimeout, NoConnection, Goto
<1>4. TypeOK'
  <2>1. effects' \in BOOLEAN
    BY <1>1 DEF Check, Poll, PollInterrupted, DsxTimeout, NoConnection, dsxVars, ResetAll, TypeOK
  <2>2. ready' \in [Slot -> BOOLEAN]
    BY <1>1 DEF Check, Poll, PollInterrupted, DsxTimeout, NoConnection, slotVars, TypeOK,
                PolledEvents, Readable
  <2>3. readyListen' \in BOOLEAN /\ readyUdp' \in BOOLEAN /\ running' \in BOOLEAN
    BY <1>1 DEF Check, Poll, PollInterrupted, DsxTimeout, NoConnection, slotVars, TypeOK
  <2>4. dsxActive' \in BOOLEAN /\ UNCHANGED <<idle, udp>>
    BY <1>1 DEF Check, Poll, PollInterrupted, DsxTimeout, NoConnection, dsxVars, TypeOK
  <2>5. QED
    BY <1>1, <1>2, <1>3, <2>1, <2>2, <2>3, <2>4 DEF TypeOK, Location, clientVars
<1>5. SlotTable'
  BY <1>1, <1>2, <1>3, QuietKeepsTable DEF clientVars
<1>6. AcceptReady'
  BY <1>1, <1>2 DEF Check, Poll, PollInterrupted, DsxTimeout, NoConnection, slotVars,
     clientVars, Goto, Bookkeeping, AcceptReady
<1>7. QED
  BY <1>1, <1>2, <1>3, <1>4, <1>5, <1>6 DEF IInv, Bookkeeping, AtAClient, Distinct, NobodyOpenAtExit,
     NothingLeft, clientVars

\* A DSX packet or none, and the loop over the slots.
LEMMA WalkSound ==
    ASSUME IInv, Receive \/ NoPacket \/ NextSlot \/ BufferDone
    PROVE  IInv'
<1>1. TypeOK /\ SlotTable /\ Bookkeeping
  BY DEF IInv
<1>2. UNCHANGED <<slotVars, clientVars, running, todo>>
  BY DEF Receive, NoPacket, NextSlot, BufferDone
<1>3. pc # "exited" /\ pc' \in {"clients", "check", "read"}
  BY DEF Receive, NoPacket, NextSlot, BufferDone, Goto
<1>4. cur' \in 1 .. MaxClients + 1
  BY <1>1, DaemonAssumption DEF Receive, NoPacket, NextSlot, BufferDone, Goto, TypeOK,
     Bookkeeping, AtAClient
<1>5. pc' = "read" => cur' <= nslots /\ slot[cur'] # Free
  BY <1>1 DEF Receive, NoPacket, NextSlot, BufferDone, Goto, TypeOK
<1>6. TypeOK'
  <2>1. effects' \in BOOLEAN /\ udp' \in BOOLEAN /\ dsxActive' \in BOOLEAN
    BY <1>1 DEF Receive, NoPacket, NextSlot, BufferDone, dsxVars, TypeOK
  <2>2. idle' \in 0 .. Timeout + 1
    BY <1>1, DaemonAssumption DEF Receive, NoPacket, NextSlot, BufferDone, dsxVars, TypeOK
  <2>3. QED
    BY <1>1, <1>2, <1>3, <1>4, <2>1, <2>2 DEF TypeOK, Location, slotVars, clientVars
<1>7. SlotTable'
  BY <1>1, <1>2, <1>3, QuietKeepsTable DEF slotVars, clientVars
<1>8. QED
  BY <1>1, <1>2, <1>3, <1>5, <1>6, <1>7 DEF IInv, Bookkeeping, AtAClient, AcceptReady, Distinct,
     NobodyOpenAtExit, NothingLeft, slotVars, clientVars

-----------------------------------------------------------------------------
\* The steps of the loop that take or leave clients, or talk to one.

\* accept() into the first free slot: the connection leaves the queue for it.
LEMMA AcceptClientSound == ASSUME IInv, AcceptClient PROVE IInv'
<1>1. TypeOK /\ SlotTable /\ Bookkeeping
  BY DEF IInv
<1> DEFINE h == Head(backlog)
           s == FirstFree
<1>2. /\ backlog \in Seq(Client) /\ Distinct(backlog) /\ backlog # <<>>
  BY <1>1 DEF AcceptClient, TypeOK, Bookkeeping, AcceptReady
<1>3. /\ h \in Client /\ Contains(backlog, h)
      /\ Tail(backlog) \in Seq(Client) /\ Distinct(Tail(backlog))
      /\ \A e : Contains(Tail(backlog), e) <=> Contains(backlog, e) /\ e # h
  BY <1>2, TailOfDistinct
<1>4. /\ s \in Slot /\ slot[s] = Free
      /\ SlotsUpTo(s) \in 0 .. MaxClients /\ s <= SlotsUpTo(s) /\ nslots <= SlotsUpTo(s)
  BY <1>1, FirstFreeSlot DEF AcceptClient, TypeOK
<1>5. /\ slot' = [slot EXCEPT ![s] = h] /\ nslots' = SlotsUpTo(s) /\ backlog' = Tail(backlog)
      /\ pc = "accept" /\ pc' = "udp"
      /\ UNCHANGED <<running, cur, todo, ready, readyListen, readyUdp, dsxVars>>
      /\ UNCHANGED <<peer, unread, midline, replies, owed>>
  BY DEF AcceptClient, Goto
<1> HIDE DEF h, s
<1>6. \A t \in Slot : slot'[t] = IF t = s THEN h ELSE slot[t]
  BY <1>1, <1>5 DEF TypeOK
<1>7. h # Free /\ \A t \in Slot : slot[t] # h
  BY <1>1, <1>3, DaemonAssumption DEF SlotTable
<1>8. TypeOK'
  BY <1>1, <1>3, <1>4, <1>5 DEF TypeOK, Location, dsxVars
<1>9. SlotsPolled'
  BY <1>1, <1>4, <1>5, <1>6, DaemonAssumption DEF SlotTable, SlotsPolled, TypeOK, Slot
<1>10. OneSlotEach'
  BY <1>1, <1>6, <1>7 DEF SlotTable, OneSlotEach
<1>11. SlotOrQueue'
  BY <1>1, <1>3, <1>5, <1>6 DEF SlotTable, SlotOrQueue
<1>12. HeldIffConnected'
  <2>1. \A c \in Client : (\E t \in Slot : slot'[t] = c) <=> (\E t \in Slot : slot[t] = c) \/ c = h
    BY <1>4, <1>6, DaemonAssumption
  <2>2. \A c \in Client : InDaemon(c)' <=> InDaemon(c)
    BY <1>3, <1>5, <2>1 DEF InDaemon
  <2>3. QED
    BY <1>1, <1>5, <2>2 DEF SlotTable, HeldIffConnected
<1>13. Bookkeeping'
  BY <1>1, <1>3, <1>5 DEF Bookkeeping, AtAClient, AcceptReady, NobodyOpenAtExit, NothingLeft
<1>14. SlotTable'
  BY <1>9, <1>10, <1>11, <1>12 DEF SlotTable, SlotsPolled, OneSlotEach, SlotOrQueue, HeldIffConnected
<1>15. QED
  BY <1>8, <1>13, <1>14 DEF IInv

\* "too many clients": the connection leaves the queue and the daemon.
LEMMA RefuseClientSound == ASSUME IInv, RefuseClient PROVE IInv'
<1>1. TypeOK /\ SlotTable /\ Bookkeeping
  BY DEF IInv
<1> DEFINE h == Head(backlog)
<1>2. /\ backlog \in Seq(Client) /\ Distinct(backlog) /\ backlog # <<>>
  BY <1>1 DEF RefuseClient, TypeOK, Bookkeeping, AcceptReady
<1>3. /\ h \in Client /\ Contains(backlog, h)
      /\ Tail(backlog) \in Seq(Client) /\ Distinct(Tail(backlog))
      /\ \A e : Contains(Tail(backlog), e) <=> Contains(backlog, e) /\ e # h
  BY <1>2, TailOfDistinct
<1>4. /\ HangUp({h}) /\ backlog' = Tail(backlog) /\ pc = "accept" /\ pc' = "udp"
      /\ replies' = [replies EXCEPT ![h] = IF peer[h] = "closed" THEN 0 ELSE 1]
      /\ UNCHANGED <<running, cur, todo, slotVars, dsxVars>>
  BY DEF RefuseClient, Goto
<1> HIDE DEF h
<1>5. /\ peer' \in [Client -> Peer]
      /\ unread' \in [Client -> 0 .. InCap] /\ midline' \in [Client -> {0, 1}]
      /\ replies' \in [Client -> 0 .. ReplyCap] /\ owed' \in [Client -> Int]
  <2>1. {0, 1} \subseteq 0 .. ReplyCap
    BY DaemonAssumption
  <2>2. replies' \in [Client -> 0 .. ReplyCap]
    BY <1>1, <1>4, <2>1 DEF TypeOK
  <2>3. QED
    BY <1>1, <1>4, <2>2, HangUpEffect
<1>6. \A c \in Client :
         IF c = h
         THEN /\ peer'[c] \in {"away", "hungup"}
              /\ unread'[c] = 0 /\ midline'[c] = 0 /\ owed'[c] = 0
         ELSE /\ peer'[c] = peer[c] /\ unread'[c] = unread[c]
              /\ midline'[c] = midline[c] /\ owed'[c] = owed[c]
  BY <1>1, <1>4, HangUpEffect
<1>7. TypeOK'
  BY <1>1, <1>3, <1>4, <1>5 DEF TypeOK, Location, slotVars, dsxVars
<1>8. \A t \in Slot : slot[t] # h
  BY <1>1, <1>3, DaemonAssumption DEF SlotTable
<1>9. HeldIffConnected'
  <2>1. \A c \in Client : InDaemon(c)' <=> InDaemon(c) /\ c # h
    BY <1>3, <1>4, <1>8 DEF InDaemon, slotVars
  <2>2. QED
    BY <1>1, <1>4, <1>6, <2>1 DEF SlotTable, HeldIffConnected
<1>10. SlotTable'
  BY <1>1, <1>3, <1>4, <1>9 DEF SlotTable, HeldIffConnected, slotVars
<1>11. Bookkeeping'
  BY <1>1, <1>3, <1>4, <1>6 DEF Bookkeeping, AtAClient, AcceptReady, NobodyOpenAtExit,
     NothingLeft, slotVars
<1>12. QED
  BY <1>7, <1>10, <1>11 DEF IInv

\* read() of data takes whole and half lines out of the socket.
LEMMA ReadDataSound == ASSUME IInv, ReadData PROVE IInv'
<1>1. TypeOK /\ SlotTable /\ Bookkeeping
  BY DEF IInv
<1> DEFINE c == slot[cur]
           n == IF unread[c] < MaxRead THEN unread[c] ELSE MaxRead
<1>2. /\ pc = "read" /\ pc' = "reply" /\ unread[c] > 0
      /\ unread' = [unread EXCEPT ![c] = @ - n]
      /\ midline' = [midline EXCEPT ![c] = (@ + n) % 2]
      /\ todo' = Lines(midline[c], n)
      /\ UNCHANGED <<running, cur, slotVars, dsxVars, backlog, peer, replies, owed>>
  BY DEF ReadData, Goto
<1>3. cur \in Slot /\ c \in Client
  BY <1>1, <1>2, DaemonAssumption DEF TypeOK, Bookkeeping, AtAClient, Slot
<1>4. InDaemon(c) /\ peer[c] \notin {"away", "hungup"}
  BY <1>1, <1>3 DEF InDaemon, SlotTable
<1>5. /\ unread[c] \in 0 .. InCap /\ midline[c] \in {0, 1}
      /\ MaxRead \in Nat \ {0} /\ InCap \in Nat
  BY <1>1, <1>3, DaemonAssumption DEF TypeOK
<1>6. n \in 1 .. MaxRead /\ unread[c] - n \in 0 .. InCap
  BY <1>2, <1>5
<1> HIDE DEF n
<1>7. (midline[c] + n) % 2 \in {0, 1} /\ Lines(midline[c], n) \in 0 .. MaxRead
  BY <1>5, <1>6 DEF Lines
<1> HIDE DEF c
<1>8. TypeOK'
  BY <1>1, <1>2, <1>3, <1>6, <1>7 DEF TypeOK, Location, slotVars, dsxVars
<1>9. SlotTable'
  BY <1>1, <1>2, QuietKeepsTable DEF slotVars
<1>10. NothingLeft'
  BY <1>1, <1>2, <1>4 DEF Bookkeeping, NothingLeft, TypeOK
<1>11. Bookkeeping'
  BY <1>1, <1>2, <1>10 DEF Bookkeeping, AtAClient, AcceptReady, NobodyOpenAtExit, slotVars
<1>12. QED
  BY <1>8, <1>9, <1>11 DEF IInv

\* read() of the end of a connection frees its slot.
LEMMA ReadEndSound == ASSUME IInv, ReadEnd PROVE IInv'
<1>1. TypeOK /\ SlotTable /\ Bookkeeping
  BY DEF IInv
<1> DEFINE k == slot[cur]
<1>2. /\ pc = "read" /\ pc' = "clients" /\ cur' = cur + 1
      /\ slot' = [slot EXCEPT ![cur] = Free] /\ HangUp({k})
      /\ UNCHANGED <<running, todo, nslots, ready, readyListen, readyUdp, dsxVars, backlog,
                     replies>>
  BY DEF ReadEnd, Goto
<1>3. cur \in Slot /\ k \in Client /\ cur <= nslots
  BY <1>1, <1>2, DaemonAssumption DEF TypeOK, Bookkeeping, AtAClient, Slot
<1>4. /\ peer' \in [Client -> Peer]
      /\ unread' \in [Client -> 0 .. InCap] /\ midline' \in [Client -> {0, 1}]
      /\ replies' \in [Client -> 0 .. ReplyCap] /\ owed' \in [Client -> Int]
  BY <1>1, <1>2, HangUpEffect DEF TypeOK
<1>5. \A c \in Client :
         IF c = k
         THEN /\ peer'[c] \in {"away", "hungup"}
              /\ unread'[c] = 0 /\ midline'[c] = 0 /\ owed'[c] = 0
         ELSE /\ peer'[c] = peer[c] /\ unread'[c] = unread[c]
              /\ midline'[c] = midline[c] /\ owed'[c] = owed[c]
  BY <1>1, <1>2, HangUpEffect
<1>6. \A t \in Slot : slot'[t] = IF t = cur THEN Free ELSE slot[t]
  BY <1>1, <1>2 DEF TypeOK
<1>7. k # Free /\ \A t \in Slot : slot[t] = k => t = cur
  BY <1>1, <1>3, DaemonAssumption DEF SlotTable
<1>8. ~Contains(backlog, k)
  BY <1>1, <1>3, <1>7 DEF SlotTable
<1> HIDE DEF k
<1>9. cur' \in 1 .. MaxClients + 1
  BY <1>2, <1>3, DaemonAssumption DEF Slot
<1>10. slot' \in [Slot -> Client \cup {Free}]
  BY <1>1, <1>2 DEF TypeOK
<1>11. TypeOK'
  BY <1>1, <1>2, <1>4, <1>9, <1>10 DEF TypeOK, Location, dsxVars
<1>12. HeldIffConnected'
  <2>1. \A c \in Client : (\E t \in Slot : slot'[t] = c) <=> (\E t \in Slot : slot[t] = c) /\ c # k
    BY <1>3, <1>6, <1>7, DaemonAssumption DEF k
  <2>2. \A c \in Client : InDaemon(c)' <=> InDaemon(c) /\ c # k
    BY <1>2, <1>8, <2>1 DEF InDaemon
  <2>3. QED
    BY <1>1, <1>2, <1>5, <2>2 DEF SlotTable, HeldIffConnected
<1>13. SlotsPolled' /\ OneSlotEach' /\ SlotOrQueue'
  BY <1>1, <1>2, <1>6 DEF SlotTable, SlotsPolled, OneSlotEach, SlotOrQueue
<1>14. SlotTable'
  BY <1>12, <1>13 DEF SlotTable, SlotsPolled, OneSlotEach, SlotOrQueue, HeldIffConnected
<1>15. Bookkeeping'
  BY <1>1, <1>2, <1>5 DEF Bookkeeping, AtAClient, AcceptReady, NobodyOpenAtExit, NothingLeft, Distinct
<1>16. QED
  BY <1>11, <1>14, <1>15 DEF IInv

\* A command answers the client it came from, which is still in its slot.
LEMMA ReplySound == ASSUME IInv, Reply PROVE IInv'
<1>1. TypeOK /\ SlotTable /\ Bookkeeping
  BY DEF IInv
<1> DEFINE c == slot[cur]
<1>2. /\ pc = "reply" /\ todo > 0 /\ todo' = todo - 1
      /\ peer[c] = "closed" \/ replies[c] < ReplyCap
      /\ replies' = [replies EXCEPT ![c] = IF peer[c] = "closed" THEN @ ELSE @ + 1]
      /\ owed' = [owed EXCEPT ![c] = @ - 1]
      /\ UNCHANGED <<pc, running, cur, slotVars, dsxVars, backlog, peer, unread, midline>>
  BY DEF Reply
<1>3. cur \in Slot /\ c \in Client
  BY <1>1, <1>2, DaemonAssumption DEF TypeOK, Bookkeeping, AtAClient, Slot
<1>4. InDaemon(c) /\ peer[c] \notin {"away", "hungup"}
  BY <1>1, <1>3 DEF InDaemon, SlotTable
<1> HIDE DEF c
<1>5. todo' \in 0 .. MaxRead
  <2>1. todo \in 0 .. MaxRead /\ MaxRead \in Nat
    BY <1>1, DaemonAssumption DEF TypeOK
  <2>2. QED
    BY <1>2, <2>1
<1>6. replies' \in [Client -> 0 .. ReplyCap] /\ owed' \in [Client -> Int]
  <2>1. replies[c] \in 0 .. ReplyCap /\ owed[c] \in Int /\ ReplyCap \in Nat
    BY <1>1, <1>3, DaemonAssumption DEF TypeOK
  <2> DEFINE r == IF peer[c] = "closed" THEN replies[c] ELSE replies[c] + 1
  <2>2. r \in 0 .. ReplyCap
    BY <1>2, <2>1
  <2>3. replies' = [replies EXCEPT ![c] = r]
    BY <1>2
  <2> HIDE DEF r
  <2>4. replies' \in [Client -> 0 .. ReplyCap]
    BY <1>1, <2>2, <2>3 DEF TypeOK
  <2>5. owed' \in [Client -> Int]
    <3> DEFINE w == owed[c] - 1
    <3>1. owed \in [Client -> Int] /\ owed' = [owed EXCEPT ![c] = w]
      BY <1>1, <1>2 DEF TypeOK
    <3>2. w \in Int
      BY <2>1
    <3> HIDE DEF w
    <3>3. QED
      BY <3>1, <3>2
  <2>6. QED
    BY <2>4, <2>5
<1>7. TypeOK'
  BY <1>1, <1>2, <1>5, <1>6 DEF TypeOK, slotVars, dsxVars
<1>8. SlotTable'
  BY <1>1, <1>2, QuietKeepsTable DEF slotVars
<1>9. NothingLeft'
  BY <1>1, <1>2, <1>4 DEF Bookkeeping, NothingLeft, TypeOK
<1>10. Bookkeeping'
  BY <1>1, <1>2, <1>9 DEF Bookkeeping, AtAClient, AcceptReady, NobodyOpenAtExit, slotVars
<1>11. QED
  BY <1>7, <1>8, <1>10 DEF IInv

\* Shutdown ends every connection the daemon has, waiting ones included.
LEMMA ShutdownSound == ASSUME IInv, Shutdown PROVE IInv'
<1>1. TypeOK /\ SlotTable /\ Bookkeeping
  BY DEF IInv
<1> DEFINE gone == {c \in Client : InDaemon(c)}
<1>2. /\ pc = "check" /\ pc' = "exited" /\ ResetAll /\ HangUp(gone)
      /\ slot' = [s \in Slot |-> Free] /\ backlog' = <<>>
      /\ UNCHANGED <<running, cur, todo, nslots, ready, readyListen, readyUdp>>
      /\ UNCHANGED <<dsxActive, idle, udp, replies>>
  BY DEF Shutdown, Goto
<1> HIDE DEF gone
<1>3. /\ peer' \in [Client -> Peer]
      /\ unread' \in [Client -> 0 .. InCap] /\ midline' \in [Client -> {0, 1}]
      /\ replies' \in [Client -> 0 .. ReplyCap] /\ owed' \in [Client -> Int]
  BY <1>1, <1>2, HangUpEffect DEF TypeOK
<1>4. \A c \in Client :
         IF c \in gone
         THEN /\ peer'[c] \in {"away", "hungup"}
              /\ unread'[c] = 0 /\ midline'[c] = 0 /\ owed'[c] = 0
         ELSE /\ peer'[c] = peer[c] /\ unread'[c] = unread[c]
              /\ midline'[c] = midline[c] /\ owed'[c] = owed[c]
  BY <1>1, <1>2, HangUpEffect
<1>5. \A c \in Client : peer'[c] \in {"away", "hungup"}
  <2>1. \A c \in Client : c \notin gone => peer[c] \notin {"closed", "open"}
    BY <1>1, <1>2 DEF SlotTable, gone
  <2>2. QED
    BY <1>1, <1>4, <2>1 DEF TypeOK, Peer
<1>6. effects' \in BOOLEAN
  BY <1>1, <1>2 DEF ResetAll, TypeOK
<1>7. backlog' \in Seq(Client) /\ slot' \in [Slot -> Client \cup {Free}]
  BY <1>2, EmptySeq
<1>8. TypeOK'
  BY <1>1, <1>2, <1>3, <1>6, <1>7 DEF TypeOK, Location
<1>9. \A c \in Client : ~InDaemon(c)'
  BY <1>2, EmptyQueue, DaemonAssumption DEF InDaemon
<1>10. SlotTable'
  BY <1>2, <1>5, <1>9 DEF SlotTable
<1>11. Bookkeeping'
  BY <1>1, <1>2, <1>4, <1>5, EmptyQueue DEF Bookkeeping, AtAClient, AcceptReady,
     NobodyOpenAtExit, NothingLeft
<1>12. QED
  BY <1>8, <1>10, <1>11 DEF IInv

-----------------------------------------------------------------------------
\* The clients, DSX senders, the clock and signals.

\* connect() puts a client into the queue that was nowhere in the daemon.
LEMMA ConnectSound == ASSUME IInv, NEW c \in Client, Connect(c) PROVE IInv'
<1>1. TypeOK /\ SlotTable /\ Bookkeeping
  BY DEF IInv
<1>2. /\ peer[c] = "away" /\ pc # "exited"
      /\ peer' = [peer EXCEPT ![c] = "open"] /\ backlog' = Append(backlog, c)
      /\ UNCHANGED <<loopVars, slotVars, dsxVars, unread, midline, replies, owed>>
  BY DEF Connect
<1>3. ~InDaemon(c)
  BY <1>1, <1>2 DEF SlotTable
<1>4. /\ Append(backlog, c) \in Seq(Client) /\ Append(backlog, c) # <<>>
      /\ Distinct(Append(backlog, c))
      /\ \A e : Contains(Append(backlog, c), e) <=> Contains(backlog, e) \/ e = c
  BY <1>1, <1>3, AppendToDistinct DEF TypeOK, Bookkeeping, InDaemon
<1>5. peer' \in [Client -> Peer] /\ \A d \in Client : peer'[d] = IF d = c THEN "open" ELSE peer[d]
  BY <1>1, <1>2 DEF TypeOK, Peer
<1>6. TypeOK'
  BY <1>1, <1>2, <1>4, <1>5 DEF TypeOK, loopVars, slotVars, dsxVars
<1>7. \A d \in Client : InDaemon(d)' <=> InDaemon(d) \/ d = c
  BY <1>2, <1>4 DEF InDaemon, slotVars
<1>8. HeldIffConnected'
  BY <1>1, <1>2, <1>5, <1>7 DEF SlotTable, HeldIffConnected, loopVars
<1>9. SlotOrQueue'
  BY <1>1, <1>2, <1>3, <1>4 DEF SlotTable, SlotOrQueue, InDaemon, slotVars
<1>10. SlotTable'
  BY <1>1, <1>2, <1>8, <1>9 DEF SlotTable, SlotOrQueue, HeldIffConnected, slotVars
<1>11. Bookkeeping'
  BY <1>1, <1>2, <1>4, <1>5 DEF Bookkeeping, AtAClient, AcceptReady, NobodyOpenAtExit,
     NothingLeft, loopVars, slotVars
<1>12. QED
  BY <1>6, <1>10, <1>11 DEF IInv

\* A client that writes has a connection; writing and reading leave it alone.
LEMMA TalkSound ==
    ASSUME IInv, NEW c \in Client, WriteLine(c) \/ WriteHalfLine(c) \/ ReadReply(c)
    PROVE  IInv'
<1>1. TypeOK /\ SlotTable /\ Bookkeeping
  BY DEF IInv
<1>2. /\ peer[c] = "open" \/ UNCHANGED <<unread, owed>>
      /\ UNCHANGED <<loopVars, slotVars, dsxVars, backlog, peer, midline>>
  BY DEF WriteLine, WriteHalfLine, Write, ReadReply
<1>3. \A d \in Client \ {c} : unread'[d] = unread[d] /\ owed'[d] = owed[d]
  BY <1>1 DEF WriteLine, WriteHalfLine, Write, ReadReply, TypeOK
<1>4. unread' \in [Client -> 0 .. InCap] /\ owed' \in [Client -> Int]
  <2>1. InCap \in Nat /\ unread[c] \in 0 .. InCap
    BY <1>1, DaemonAssumption DEF TypeOK
  <2>2. CASE WriteLine(c)
    BY <1>1, <2>1, <2>2 DEF WriteLine, Write, TypeOK
  <2>3. CASE WriteHalfLine(c)
    BY <1>1, <2>1, <2>3 DEF WriteHalfLine, Write, TypeOK
  <2>4. CASE ReadReply(c)
    BY <1>1, <2>4 DEF ReadReply, TypeOK
  <2>5. QED
    BY <2>2, <2>3, <2>4
<1>5. replies' \in [Client -> 0 .. ReplyCap]
  <2>1. ReplyCap \in Nat /\ replies[c] \in 0 .. ReplyCap
    BY <1>1, DaemonAssumption DEF TypeOK
  <2>2. CASE WriteLine(c) \/ WriteHalfLine(c)
    BY <1>1, <2>2 DEF WriteLine, WriteHalfLine, Write, TypeOK
  <2>3. CASE ReadReply(c)
    BY <1>1, <2>1, <2>3 DEF ReadReply, TypeOK
  <2>4. QED
    BY <2>2, <2>3
<1>6. TypeOK'
  BY <1>1, <1>2, <1>4, <1>5 DEF TypeOK, loopVars, slotVars, dsxVars
<1>7. SlotTable'
  BY <1>1, <1>2, QuietKeepsTable DEF loopVars, slotVars
<1>8. NothingLeft'
  BY <1>1, <1>2, <1>3 DEF Bookkeeping, NothingLeft
<1>9. Bookkeeping'
  BY <1>1, <1>2, <1>8 DEF Bookkeeping, AtAClient, AcceptReady, NobodyOpenAtExit, Distinct,
     loopVars, slotVars
<1>10. QED
  BY <1>6, <1>7, <1>9 DEF IInv

\* A client that closes its end stays in the daemon until that has read it, and
\* one that the daemon hung up on is where it was before it connected.
LEMMA CloseConnectionSound == ASSUME IInv, NEW c \in Client, CloseConnection(c) PROVE IInv'
<1>1. TypeOK /\ SlotTable /\ Bookkeeping
  BY DEF IInv
<1>2. /\ peer[c] \in {"open", "hungup"}
      /\ peer' = [peer EXCEPT ![c] = IF @ = "open" THEN "closed" ELSE "away"]
      /\ replies' = [replies EXCEPT ![c] = 0]
      /\ UNCHANGED <<loopVars, slotVars, dsxVars, backlog, unread, midline, owed>>
  BY DEF CloseConnection
<1>3. /\ peer' \in [Client -> Peer]
      /\ \A d \in Client : peer'[d] = IF d = c THEN IF peer[c] = "open" THEN "closed" ELSE "away"
                                               ELSE peer[d]
  BY <1>1, <1>2 DEF TypeOK, Peer
<1>4. replies' \in [Client -> 0 .. ReplyCap]
  BY <1>1, <1>2, DaemonAssumption DEF TypeOK
<1>5. TypeOK'
  BY <1>1, <1>2, <1>3, <1>4 DEF TypeOK, loopVars, slotVars, dsxVars
<1>6. \A d \in Client : InDaemon(d)' <=> InDaemon(d)
  BY <1>2 DEF InDaemon, slotVars
<1>7. HeldIffConnected'
  <2>1. peer[c] = "open" => pc # "exited"
    BY <1>1 DEF Bookkeeping, NobodyOpenAtExit
  <2>2. QED
    BY <1>1, <1>2, <1>3, <1>6, <2>1 DEF SlotTable, HeldIffConnected, loopVars
<1>8. SlotTable'
  BY <1>1, <1>2, <1>7 DEF SlotTable, HeldIffConnected, slotVars
<1>9. Bookkeeping'
  BY <1>1, <1>2, <1>3 DEF Bookkeeping, AtAClient, AcceptReady, NobodyOpenAtExit, NothingLeft,
     Distinct, loopVars, slotVars
<1>10. QED
  BY <1>5, <1>8, <1>9 DEF IInv

\* Packets, time and signals touch nothing of this.
LEMMA OutsideSound == ASSUME IInv, SendPacket \/ Tick \/ Signal PROVE IInv'
<1>1. TypeOK /\ SlotTable /\ Bookkeeping
  BY DEF IInv
<1>2. /\ UNCHANGED <<pc, cur, todo, slotVars, clientVars>>
      /\ UNCHANGED <<dsxActive, effects>>
  BY DEF SendPacket, Tick, Signal, loopVars, dsxVars
<1>3. running' \in BOOLEAN /\ udp' \in BOOLEAN
  BY <1>1 DEF SendPacket, Tick, Signal, loopVars, dsxVars, TypeOK
<1>4. idle' \in 0 .. Timeout + 1
  <2>1. Timeout \in Nat /\ idle \in 0 .. Timeout + 1
    BY <1>1, DaemonAssumption DEF TypeOK
  <2>2. Later(idle) \in 0 .. Timeout + 1
    BY <2>1 DEF Later
  <2>3. QED
    BY <2>1, <2>2 DEF SendPacket, Tick, Signal, dsxVars
<1>5. TypeOK'
  BY <1>1, <1>2, <1>3, <1>4 DEF TypeOK, slotVars, clientVars
<1>6. SlotTable'
  BY <1>1, <1>2, QuietKeepsTable DEF slotVars, clientVars
<1>7. QED
  BY <1>1, <1>2, <1>5, <1>6 DEF IInv, Bookkeeping, AtAClient, AcceptReady, NobodyOpenAtExit,
     NothingLeft, Distinct, slotVars, clientVars

-----------------------------------------------------------------------------
\* Every step keeps the invariant.
LEMMA NextSound == IInv /\ [Next]_vars => IInv'
<1> SUFFICES ASSUME IInv, [Next]_vars PROVE IInv'
  OBVIOUS
<1>1. CASE Loop
  BY <1>1, TurnSound, WalkSound, AcceptClientSound, RefuseClientSound, ReadDataSound,
     ReadEndSound, ReplySound, ShutdownSound DEF Loop
<1>2. CASE Environment
  BY <1>2, ConnectSound, TalkSound, CloseConnectionSound, OutsideSound DEF Environment
<1>3. CASE UNCHANGED vars
  <2>1. UNCHANGED <<loopVars, slotVars, dsxVars, clientVars>>
    BY <1>3 DEF vars
  <2>2. TypeOK'
    BY <2>1 DEF IInv, TypeOK, loopVars, slotVars, dsxVars, clientVars
  <2>3. SlotTable'
    BY <2>1, QuietKeepsTable DEF IInv, loopVars, slotVars, clientVars
  <2>4. QED
    BY <2>1, <2>2, <2>3 DEF IInv, Bookkeeping, AtAClient, AcceptReady, NobodyOpenAtExit,
       NothingLeft, Distinct, loopVars, slotVars, clientVars
<1>4. QED
  BY <1>1, <1>2, <1>3 DEF Next

\* The inductive invariant: every connection is in one place, and the loop is
\* where its local variables make sense.
THEOREM InvariantCorrect == Spec => []IInv
<1>1. QED
  BY InitSound, NextSound, PTL DEF Spec

\* The variables of the loop, the sockets and the histories stay well formed.
THEOREM TypeCorrect == Spec => []TypeOK
<1>1. IInv => TypeOK
  BY DEF IInv
<1>2. QED
  BY <1>1, InvariantCorrect, PTL

\* No descriptor is lost, doubled or left where poll() does not look, however
\* clients come and go and whatever revents of a new slot held.
THEOREM SlotTableCorrect == Spec => []SlotTable
<1>1. IInv => SlotTable
  BY DEF IInv
<1>2. QED
  BY <1>1, InvariantCorrect, PTL

\* accept() is only called when a connection waits, so that the loop, whose
\* sockets block, does not stop there.
THEOREM AcceptReadyCorrect == Spec => []AcceptReady
<1>1. IInv => AcceptReady
  BY DEF IInv, Bookkeeping
<1>2. QED
  BY <1>1, InvariantCorrect, PTL

-----------------------------------------------------------------------------
\* Lines and replies.

\* What c is still to be answered: the lines it has completed that are not read
\* yet, and the commands of the buffer that is being worked on.
Due(c) == (midline[c] + unread[c]) \div 2 + (IF Serving(c) THEN todo ELSE 0)

\* A read of n half lines leaves no fewer answers due, and as many if it does
\* not end inside a line.
LEMMA LinesOfRead ==
    ASSUME NEW mid \in {0, 1}, NEW u \in Nat, NEW n \in 0 .. u
    PROVE  /\ (mid + u) \div 2 \in Int
           /\ (((mid + n) % 2) + (u - n)) \div 2 + Lines(mid, n) \in Int
           /\ (mid + u) \div 2 <= (((mid + n) % 2) + (u - n)) \div 2 + Lines(mid, n)
           /\ mid = 0 /\ n % 2 = 0 =>
                 (mid + u) \div 2 = (((mid + n) % 2) + (u - n)) \div 2 + Lines(mid, n)
BY DEF Lines

\* Every other half line ends a line.
LEMMA NextHalf ==
    ASSUME NEW n \in Nat
    PROVE  (n + 1) \div 2 = IF n % 2 = 0 THEN n \div 2 ELSE n \div 2 + 1
OBVIOUS

\* The half lines the next read() takes, and whether they end inside a line or
\* begin there.
Taken == IF unread[slot[cur]] < MaxRead THEN unread[slot[cur]] ELSE MaxRead
CutsLine == midline[slot[cur]] # 0 \/ Taken % 2 # 0

\* How a step moves what a client is owed: a new connection is owed nothing, and
\* for any other what is due grows with it, or more if a read cuts a line.
InBalance(c) ==
    \/ peer[c] = "away" /\ owed'[c] = 0 /\ Due(c)' = 0
    \/ /\ peer[c] = "open"
       /\ Due(c) - owed[c] <= Due(c)' - owed'[c]
       /\ (ReadData /\ CutsLine) \/ Due(c) - owed[c] = Due(c)' - owed'[c]

\* What a client is owed and has due are numbers.
LEMMA DueType == ASSUME TypeOK, NEW c \in Client PROVE Due(c) \in Int /\ owed[c] \in Int
<1>1. midline[c] \in {0, 1} /\ unread[c] \in 0 .. InCap /\ owed[c] \in Int /\ todo \in 0 .. MaxRead
  BY DEF TypeOK
<1>2. InCap \in Nat /\ MaxRead \in Nat
  BY DaemonAssumption
<1>3. (midline[c] + unread[c]) \div 2 \in Int
  BY <1>1, <1>2
<1>4. QED
  BY <1>1, <1>2, <1>3 DEF Due

\* The same after a step.
LEMMA NextDueType == ASSUME TypeOK', NEW c \in Client PROVE Due(c)' \in Int /\ owed'[c] \in Int
<1>1. /\ midline'[c] \in {0, 1} /\ unread'[c] \in 0 .. InCap
      /\ owed'[c] \in Int /\ todo' \in 0 .. MaxRead
  BY DEF TypeOK
<1>2. InCap \in Nat /\ MaxRead \in Nat
  BY DaemonAssumption
<1>3. (midline'[c] + unread'[c]) \div 2 \in Int
  BY <1>1, <1>2
<1>4. QED
  BY <1>1, <1>2, <1>3 DEF Due

\* A step that leaves a client's connection, lines and service alone is in balance.
LEMMA UntouchedInBalance ==
    ASSUME TypeOK, NEW c \in Client, peer'[c] = "open",
           peer'[c] = peer[c], unread'[c] = unread[c], midline'[c] = midline[c],
           owed'[c] = owed[c],
           (IF Serving(c) THEN todo ELSE 0)' = (IF Serving(c) THEN todo ELSE 0)
    PROVE  InBalance(c)
<1>1. Due(c)' = Due(c)
  BY DEF Due
<1>2. QED
  BY <1>1, DueType DEF InBalance

\* A client the daemon serves holds a slot.
LEMMA ServedIsHeld == ASSUME IInv, NEW c \in Client, Serving(c) PROVE InDaemon(c)
<1>1. cur \in Slot
  BY DaemonAssumption DEF IInv, TypeOK, Bookkeeping, AtAClient, Serving, Slot
<1>2. QED
  BY <1>1 DEF Serving, InDaemon

\* No step of the loop or of its peers loses a line.
LEMMA StepInBalance ==
    ASSUME IInv, [Next]_vars, NEW c \in Client, peer'[c] = "open" PROVE InBalance(c)
<1>1. TypeOK /\ SlotTable /\ Bookkeeping
  BY DEF IInv
<1>2. /\ midline[c] \in {0, 1} /\ unread[c] \in 0 .. InCap /\ owed[c] \in Int
      /\ todo \in 0 .. MaxRead /\ InCap \in Nat /\ MaxRead \in Nat \ {0}
  BY <1>1, DaemonAssumption DEF TypeOK
<1>3. CASE \/ Check \/ Poll \/ PollInterrupted \/ DsxTimeout \/ NoConnection \/ AcceptClient
           \/ Receive \/ NoPacket \/ NextSlot \/ BufferDone \/ SendPacket \/ Tick \/ Signal
           \/ UNCHANGED vars
  <2>1. UNCHANGED <<peer, unread, midline, owed>>
    BY <1>3 DEF Check, Poll, PollInterrupted, DsxTimeout, NoConnection, AcceptClient, Receive,
       NoPacket, NextSlot, BufferDone, SendPacket, Tick, Signal, clientVars, vars
  <2>2. (IF Serving(c) THEN todo ELSE 0)' = (IF Serving(c) THEN todo ELSE 0)
    <3>1. CASE BufferDone
      BY <3>1 DEF BufferDone, Serving, Goto
    <3>2. CASE ~BufferDone /\ pc = "reply"
      BY <1>3, <3>2 DEF Check, Poll, PollInterrupted, DsxTimeout, NoConnection, AcceptClient,
         Receive, NoPacket, NextSlot, SendPacket, Tick, Signal, vars, slotVars, loopVars, Serving
    <3>3. CASE ~BufferDone /\ pc # "reply"
      BY <1>3, <3>3 DEF Check, Poll, PollInterrupted, DsxTimeout, NoConnection, AcceptClient,
         Receive, NoPacket, NextSlot, SendPacket, Tick, Signal, vars, slotVars, loopVars, Serving,
         Goto
    <3>4. QED
      BY <3>1, <3>2, <3>3
  <2>3. QED
    BY <1>1, <2>1, <2>2, UntouchedInBalance
<1>4. CASE RefuseClient \/ ReadEnd \/ Shutdown
  <2>1. PICK gone : HangUp(gone)
    BY <1>4 DEF RefuseClient, ReadEnd, Shutdown
  <2>2. /\ peer'[c] = peer[c] /\ unread'[c] = unread[c]
        /\ midline'[c] = midline[c] /\ owed'[c] = owed[c]
    BY <1>1, <2>1, HangUpEffect
  <2>3. ~Serving(c) /\ ~Serving(c)'
    BY <1>4 DEF RefuseClient, ReadEnd, Shutdown, Serving, Goto
  <2>4. QED
    BY <1>1, <2>2, <2>3, UntouchedInBalance
<1>5. CASE ReadData
  <2> DEFINE k == slot[cur]
  <2>1. /\ pc = "read" /\ pc' = "reply" /\ unread[k] > 0
        /\ unread' = [unread EXCEPT ![k] = @ - Taken]
        /\ midline' = [midline EXCEPT ![k] = (@ + Taken) % 2]
        /\ todo' = Lines(midline[k], Taken)
        /\ UNCHANGED <<slot, cur, peer, owed>>
    BY <1>5 DEF ReadData, Goto, Taken, slotVars
  <2>2. ~Serving(c) /\ (Serving(c)' <=> c = k)
    BY <2>1 DEF Serving
  <2>3. CASE c # k
    <3>1. unread'[c] = unread[c] /\ midline'[c] = midline[c]
      BY <1>1, <2>1, <2>3 DEF TypeOK
    <3>2. QED
      BY <1>1, <2>1, <2>2, <2>3, <3>1, UntouchedInBalance
  <2>4. CASE c = k
    <3>1. Taken \in 0 .. unread[c]
      BY <1>2, <2>4 DEF Taken
    <3>2. unread'[c] = unread[c] - Taken /\ midline'[c] = (midline[c] + Taken) % 2
      BY <1>1, <2>1, <2>4 DEF TypeOK
    <3>3. /\ Due(c) = (midline[c] + unread[c]) \div 2
          /\ Due(c)' = (((midline[c] + Taken) % 2) + (unread[c] - Taken)) \div 2
                          + Lines(midline[c], Taken)
      <4>1. Due(c) = (midline[c] + unread[c]) \div 2 + 0
        BY <2>2 DEF Due
      <4>2. (midline[c] + unread[c]) \div 2 \in Int
        BY <1>2
      <4>3. QED
        BY <2>1, <2>2, <2>4, <3>2, <4>1, <4>2 DEF Due
    <3>4. Due(c) <= Due(c)' /\ (~CutsLine => Due(c) = Due(c)')
      <4> DEFINE after == (((midline[c] + Taken) % 2) + (unread[c] - Taken)) \div 2
                             + Lines(midline[c], Taken)
      <4>1. midline[c] \in {0, 1} /\ unread[c] \in Nat /\ Taken \in 0 .. unread[c]
        BY <1>2, <3>1
      <4>2. /\ (midline[c] + unread[c]) \div 2 <= after
            /\ midline[c] = 0 /\ Taken % 2 = 0 => (midline[c] + unread[c]) \div 2 = after
        BY <4>1, LinesOfRead
      <4>3. ~CutsLine => midline[c] = 0 /\ Taken % 2 = 0
        BY <2>4 DEF CutsLine
      <4>4. Due(c)' = after
        BY <3>3
      <4> HIDE DEF after
      <4>5. QED
        BY <3>3, <4>2, <4>3, <4>4
    <3>5. owed'[c] = owed[c] /\ peer[c] = "open"
      BY <2>1
    <3>6. Due(c) \in Int /\ Due(c)' \in Int
      BY <1>2, <3>1, <3>3, LinesOfRead
    <3>7. QED
      BY <1>2, <1>5, <3>4, <3>5, <3>6 DEF InBalance
  <2>5. QED
    BY <2>3, <2>4
<1>6. CASE Reply
  <2> DEFINE k == slot[cur]
  <2>1. /\ pc = "reply" /\ pc' = pc /\ todo' = todo - 1
        /\ owed' = [owed EXCEPT ![k] = @ - 1]
        /\ UNCHANGED <<slot, cur, peer, unread, midline>>
    BY <1>6 DEF Reply, slotVars
  <2>2. (Serving(c) <=> c = k) /\ (Serving(c)' <=> c = k)
    BY <2>1 DEF Serving
  <2>3. CASE c # k
    <3>1. owed'[c] = owed[c]
      BY <1>1, <2>1, <2>3 DEF TypeOK
    <3>2. QED
      BY <1>1, <2>1, <2>2, <2>3, <3>1, UntouchedInBalance
  <2>4. CASE c = k
    <3>1. owed'[c] = owed[c] - 1
      BY <1>1, <2>1, <2>4 DEF TypeOK
    <3>2. Due(c)' = Due(c) - 1
      <4> DEFINE lines == (midline[c] + unread[c]) \div 2
      <4>1. lines \in Int
        BY <1>2
      <4>2. Due(c) = lines + todo /\ Due(c)' = lines + (todo - 1)
        BY <2>1, <2>2, <2>4 DEF Due
      <4> HIDE DEF lines
      <4>3. QED
        BY <1>2, <4>1, <4>2
    <3>3. QED
      BY <1>1, <2>1, <3>1, <3>2, DueType DEF InBalance
  <2>5. QED
    BY <2>3, <2>4
<1>7. ASSUME NEW d \in Client, Connect(d) PROVE InBalance(c)
  <2>1. /\ peer[d] = "away" /\ peer' = [peer EXCEPT ![d] = "open"]
        /\ UNCHANGED <<pc, slot, cur, todo, unread, midline, owed>>
    BY <1>7 DEF Connect, loopVars, slotVars
  <2>2. Serving(c)' = Serving(c)
    BY <2>1 DEF Serving
  <2>3. CASE c # d
    <3>1. peer'[c] = peer[c]
      BY <1>1, <2>1, <2>3 DEF TypeOK
    <3>2. QED
      BY <1>1, <2>1, <2>2, <3>1, UntouchedInBalance
  <2>4. CASE c = d
    <3>1. unread[c] = 0 /\ midline[c] = 0 /\ owed[c] = 0
      BY <1>1, <2>1, <2>4 DEF Bookkeeping, NothingLeft
    <3>2. ~Serving(c)
      BY <1>1, <2>1, <2>4, ServedIsHeld DEF SlotTable
    <3>3. Due(c)' = 0
      BY <2>1, <2>2, <3>1, <3>2 DEF Due
    <3>4. QED
      BY <2>1, <2>4, <3>1, <3>3 DEF InBalance
  <2>5. QED
    BY <2>3, <2>4
<1>8. ASSUME NEW d \in Client, WriteLine(d) \/ WriteHalfLine(d) PROVE InBalance(c)
  <2>1. /\ UNCHANGED <<pc, slot, cur, todo, peer, midline>>
    BY <1>8 DEF WriteLine, WriteHalfLine, Write, loopVars, slotVars
  <2>2. Serving(c)' = Serving(c)
    BY <2>1 DEF Serving
  <2>3. CASE c # d
    <3>1. unread'[c] = unread[c] /\ owed'[c] = owed[c]
      BY <1>1, <1>8, <2>3 DEF WriteLine, WriteHalfLine, Write, TypeOK
    <3>2. QED
      BY <1>1, <2>1, <2>2, <3>1, UntouchedInBalance
  <2>4. CASE c = d
    <3> DEFINE before == (midline[c] + unread[c]) \div 2
               after == (midline[c] + unread'[c]) \div 2
               served == IF Serving(c) THEN todo ELSE 0
    <3>1. before \in Int /\ after \in Int /\ after - before = owed'[c] - owed[c]
      <4>1. CASE WriteLine(c)
        <5>1. unread'[c] = unread[c] + 2 /\ owed'[c] = owed[c] + 1
          BY <1>1, <4>1 DEF WriteLine, Write, TypeOK
        <5>2. QED
          BY <1>2, <5>1
      <4>2. CASE WriteHalfLine(c)
        <5>1. /\ unread'[c] = unread[c] + 1
              /\ owed'[c] = IF (midline[c] + unread[c]) % 2 = 0 THEN owed[c] ELSE owed[c] + 1
          BY <1>1, <4>2 DEF WriteHalfLine, Write, TypeOK, AtLineStart
        <5>2. midline[c] + unread[c] \in Nat /\ midline[c] + unread'[c] = midline[c] + unread[c] + 1
          BY <1>2, <5>1
        <5>3. after = IF (midline[c] + unread[c]) % 2 = 0 THEN before ELSE before + 1
          BY <5>2, NextHalf
        <5>4. before \in Int
          BY <5>2
        <5>5. QED
          BY <1>2, <5>1, <5>3, <5>4
      <4>3. QED
        BY <1>8, <2>4, <4>1, <4>2
    <3>2. served \in Int
      BY <1>2
    <3>3. Due(c) = before + served /\ Due(c)' = after + served
      BY <2>1, <2>2 DEF Due
    <3>4. owed'[c] \in Int
      BY <1>2, <1>8, <2>4, NextSound DEF IInv, TypeOK
    <3> HIDE DEF before, after, served
    <3>5. Due(c) - owed[c] = Due(c)' - owed'[c] /\ Due(c) - owed[c] \in Int
      BY <1>2, <3>1, <3>2, <3>3, <3>4
    <3>6. QED
      BY <2>1, <3>5 DEF InBalance
  <2>5. QED
    BY <2>3, <2>4
<1>9. ASSUME NEW d \in Client, ReadReply(d) \/ CloseConnection(d) PROVE InBalance(c)
  <2>1. UNCHANGED <<pc, slot, cur, todo, unread, midline, owed>>
    BY <1>9 DEF ReadReply, CloseConnection, loopVars, slotVars
  <2>2. peer'[c] = peer[c]
    BY <1>1, <1>9 DEF ReadReply, CloseConnection, TypeOK
  <2>3. Serving(c)' = Serving(c)
    BY <2>1 DEF Serving
  <2>4. QED
    BY <1>1, <2>1, <2>2, <2>3, UntouchedInBalance
<1>10. QED
  BY <1>3, <1>4, <1>5, <1>6, <1>7, <1>8, <1>9 DEF Next, Loop, Environment

\* However lines are cut up on their way, none goes unanswered.
THEOREM NoLineUnansweredCorrect == Spec => []NoLineUnanswered
<1>1. Init => NoLineUnanswered
  BY DEF Init, NoLineUnanswered
<1>2. IInv /\ NoLineUnanswered /\ [Next]_vars => NoLineUnanswered'
  <2> SUFFICES ASSUME IInv, NoLineUnanswered, [Next]_vars,
                      NEW c \in Client, peer'[c] = "open"
               PROVE  owed'[c] <= Due(c)'
    BY DEF NoLineUnanswered, Due
  <2>1. InBalance(c)
    BY StepInBalance
  <2>2. /\ Due(c) \in Int /\ owed[c] \in Int
        /\ Due(c)' \in Int /\ owed'[c] \in Int
    BY NextSound, DueType, NextDueType DEF IInv
  <2>3. CASE peer[c] = "open"
    <3>1. owed[c] <= Due(c)
      BY <2>3 DEF NoLineUnanswered, Due
    <3>2. QED
      BY <2>1, <2>2, <2>3, <3>1 DEF InBalance
  <2>4. QED
    BY <2>1, <2>3 DEF InBalance
<1>3. QED
  BY <1>1, <1>2, InvariantCorrect, PTL DEF Spec

\* Clients write lines in one piece, and no buffer ends inside one: because its
\* size is even in half lines, or because a client has one line on its way only.
WholeLines == ~Split /\ (MaxRead % 2 = 0 \/ (Polite /\ MaxRead >= 2))

\* Then nothing but whole lines waits to be read, and of a polite client one.
LinesUncut ==
    \A c \in Client : midline[c] = 0 /\ unread[c] % 2 = 0 /\ (Polite => unread[c] <= 2)

\* A read takes whole lines.
LEMMA ReadsUncut ==
    ASSUME WholeLines, IInv, LinesUncut, ReadData PROVE ~CutsLine /\ Taken % 2 = 0
<1>1. slot[cur] \in Client
  BY DaemonAssumption DEF IInv, TypeOK, Bookkeeping, AtAClient, ReadData, Slot
<1>2. /\ unread[slot[cur]] \in 0 .. InCap /\ InCap \in Nat /\ MaxRead \in Nat
      /\ midline[slot[cur]] = 0 /\ unread[slot[cur]] % 2 = 0
      /\ Polite => unread[slot[cur]] <= 2
  BY <1>1, DaemonAssumption DEF IInv, TypeOK, LinesUncut
<1>3. Taken % 2 = 0
  <2>1. CASE unread[slot[cur]] < MaxRead
    BY <1>2, <2>1 DEF Taken
  <2>2. CASE ~(unread[slot[cur]] < MaxRead) /\ MaxRead % 2 = 0
    BY <1>2, <2>2 DEF Taken
  <2>3. CASE ~(unread[slot[cur]] < MaxRead) /\ Polite /\ MaxRead >= 2
    <3>1. Taken = 2
      BY <1>2, <2>3 DEF Taken
    <3>2. QED
      BY <3>1
  <2>4. QED
    BY <2>1, <2>2, <2>3 DEF WholeLines
<1>4. QED
  BY <1>2, <1>3 DEF CutsLine

\* Every step keeps lines whole.
LEMMA StepUncut == ASSUME WholeLines, IInv, LinesUncut, [Next]_vars PROVE LinesUncut'
<1>1. TypeOK
  BY DEF IInv
<1>2. CASE UNCHANGED <<unread, midline>>
  BY <1>2 DEF LinesUncut
<1>3. CASE RefuseClient \/ ReadEnd \/ Shutdown
  <2>1. PICK gone : HangUp(gone)
    BY <1>3 DEF RefuseClient, ReadEnd, Shutdown
  <2>2. \A c \in Client : \/ unread'[c] = 0 /\ midline'[c] = 0
                          \/ unread'[c] = unread[c] /\ midline'[c] = midline[c]
    BY <1>1, <2>1, HangUpEffect
  <2>3. QED
    BY <2>2 DEF LinesUncut
<1>4. CASE ReadData
  <2> DEFINE k == slot[cur]
  <2>1. /\ unread' = [unread EXCEPT ![k] = @ - Taken]
        /\ midline' = [midline EXCEPT ![k] = (@ + Taken) % 2]
    BY <1>4 DEF ReadData, Taken
  <2>2. Taken % 2 = 0
    BY <1>4, ReadsUncut
  <2>3. ASSUME NEW c \in Client, c = k
        PROVE  midline'[c] = 0 /\ unread'[c] % 2 = 0 /\ (Polite => unread'[c] <= 2)
    <3>1. /\ unread[c] \in 0 .. InCap /\ InCap \in Nat /\ MaxRead \in Nat
          /\ midline[c] = 0 /\ unread[c] % 2 = 0 /\ (Polite => unread[c] <= 2)
      BY <1>1, DaemonAssumption DEF TypeOK, LinesUncut
    <3>2. Taken \in 0 .. unread[c]
      BY <2>3, <3>1 DEF Taken
    <3>3. unread'[c] = unread[c] - Taken /\ midline'[c] = (midline[c] + Taken) % 2
      BY <1>1, <2>1, <2>3 DEF TypeOK
    <3>4. QED
      BY <2>2, <3>1, <3>2, <3>3
  <2>4. \A c \in Client : c # k => unread'[c] = unread[c] /\ midline'[c] = midline[c]
    BY <1>1, <2>1 DEF TypeOK
  <2>5. QED
    BY <2>3, <2>4 DEF LinesUncut
<1>5. ASSUME NEW d \in Client, WriteLine(d) \/ WriteHalfLine(d) PROVE LinesUncut'
  <2>1. WriteLine(d)
    BY <1>5 DEF WriteHalfLine, WholeLines
  <2>2. /\ unread' = [unread EXCEPT ![d] = @ + 2] /\ midline' = midline
        /\ Polite => unread[d] = 0
    BY <2>1 DEF WriteLine, Write, Settled
  <2>3. unread[d] \in 0 .. InCap /\ InCap \in Nat
    BY <1>1, DaemonAssumption DEF TypeOK
  <2>4. unread'[d] = unread[d] + 2
    BY <1>1, <2>2 DEF TypeOK
  <2>5. unread'[d] % 2 = 0 /\ (Polite => unread'[d] <= 2)
    BY <2>2, <2>3, <2>4 DEF LinesUncut
  <2>6. \A c \in Client : c # d => unread'[c] = unread[c]
    BY <1>1, <2>2 DEF TypeOK
  <2>7. QED
    BY <2>2, <2>5, <2>6 DEF LinesUncut
<1>6. CASE \/ Check \/ Poll \/ PollInterrupted \/ DsxTimeout \/ NoConnection \/ AcceptClient
           \/ Receive \/ NoPacket \/ NextSlot \/ BufferDone \/ Reply
           \/ SendPacket \/ Tick \/ Signal \/ UNCHANGED vars
  BY <1>2, <1>6 DEF Check, Poll, PollInterrupted, DsxTimeout, NoConnection, AcceptClient,
     Receive, NoPacket, NextSlot, BufferDone, Reply, SendPacket, Tick, Signal, clientVars, vars
<1>7. ASSUME NEW d \in Client, Connect(d) \/ ReadReply(d) \/ CloseConnection(d)
      PROVE  LinesUncut'
  BY <1>2, <1>7 DEF Connect, ReadReply, CloseConnection
<1>8. QED
  BY <1>3, <1>4, <1>5, <1>6, <1>7 DEF Next, Loop, Environment

\* With whole lines every line gets exactly one reply: what a client is owed is
\* what waits to be read or is being worked on.
THEOREM OneReplyPerLineCorrect == ASSUME WholeLines PROVE Spec => []OneReplyPerLine
<1> DEFINE Inv == LinesUncut /\ OneReplyPerLine
<1>1. Init => Inv
  BY DEF Init, LinesUncut, OneReplyPerLine, Serving
<1>2. IInv /\ Inv /\ [Next]_vars => Inv'
  <2> SUFFICES ASSUME IInv, LinesUncut, OneReplyPerLine, [Next]_vars,
                      NEW c \in Client, peer'[c] = "open"
               PROVE  owed'[c] = Due(c)'
    BY StepUncut DEF OneReplyPerLine, Due
  <2>1. InBalance(c)
    BY StepInBalance
  <2>2. ~(ReadData /\ CutsLine)
    BY ReadsUncut
  <2>3. /\ Due(c) \in Int /\ owed[c] \in Int
        /\ Due(c)' \in Int /\ owed'[c] \in Int
    BY NextSound, DueType, NextDueType DEF IInv
  <2>4. CASE peer[c] = "open"
    <3>1. owed[c] = Due(c)
      BY <2>4 DEF OneReplyPerLine, Due
    <3>2. QED
      BY <2>1, <2>2, <2>3, <2>4, <3>1 DEF InBalance
  <2>5. QED
    BY <2>1, <2>4 DEF InBalance
<1>3. Inv => OneReplyPerLine
  OBVIOUS
<1>4. QED
  BY <1>1, <1>2, <1>3, InvariantCorrect, PTL DEF Spec
=============================================================================
