---------------------------- MODULE LifecycleProofs ----------------------------
(***************************************************************************)
(* Proofs about Lifecycle for any number of node names, table entries,     *)
(* plugs, kills and failing allocations.                                   *)
(***************************************************************************)
EXTENDS Lifecycle, SequenceTheorems, FiniteSetTheorems, TLAPS

-----------------------------------------------------------------------------
Scanning == run.at \in {"scan", "open", "detect"}

\* The connections of the descriptors not yet in the table, of those in it, and
\* of all the program has had since it started.
Ids(q) == {q[i].id : i \in 1 .. Len(q)}
InTable(r) == {r.table[i].id : i \in 1 .. r.count}
Found == Ids(run.fds) \cup InTable(run) \cup dropped

\* A connection is at one name, and no number is used before its plug.
NodesApart ==
    /\ \A m, n \in Node : node[m].id = node[n].id /\ node[m].id # 0 => m = n
    /\ \A n \in Node : node[n].id <= plugs
    /\ open \subseteq 1 .. plugs /\ dropped \subseteq 1 .. plugs

\* Where the program is and what its local variables hold go together.
Stages ==
    /\ run.at = "down" => run.fds = <<>> /\ run.count = 0 /\ since = {} /\ dropped = {}
    /\ Scanning => run.count = 0 /\ dropped = {}
    /\ run.at = "open" => Len(run.fds) < MaxDevices /\ run.cur \notin run.listing
    /\ run.at = "detect" =>
        /\ run.fds # <<>>
        /\ \A n \in Node : node[n].id = run.fds[Len(run.fds)].id => n = run.cur
    /\ run.at = "wrap" => run.count >= 0
    /\ Ready => run.fds = <<>>
    /\ run.count + Len(run.fds) <= MaxDevices

\* No two handles are of one connection.
UniqueIds(q) == \A i, j \in 1 .. Len(q) : q[i].id = q[j].id => i = j
OneHandleEach ==
    /\ UniqueIds(run.fds)
    /\ \A i, j \in 1 .. run.count : run.table[i].id = run.table[j].id => i = j
    /\ Ids(run.fds) \cap InTable(run) = {}

\* The descriptors are those of the handles.
Accounted == open = Ids(run.fds) \cup InTable(run)

\* No name the scan has yet to open is that of a descriptor.
NotYetOpened ==
    Scanning => \A n \in Node : n \in run.listing \/ (run.at = "open" /\ n = run.cur)
                                    => node[n].id \notin open

\* Every bus that has been asked for is the right one.
BusRight ==
    /\ \A n \in Node, i \in 1 .. Len(run.fds) :
        node[n].id = run.fds[i].id =>
            run.fds[i].bus = node[n].bus \/ (run.at = "detect" /\ i = Len(run.fds))
    /\ \A n \in Node, i \in 1 .. run.count :
        node[n].id = run.table[i].id => run.table[i].bus = node[n].bus

\* A controller that has been there all the time is still to be looked at, is
\* being opened, or has been found; after the scan it has been found unless the
\* table is full, and the mode that stops at the first has found one.
NotMissed ==
    /\ \A n \in since : node[n].allowed
    /\ run.mode # "path" =>
        /\ \A n \in since : node[n].id \in Found => node[n].ours
        /\ run.at = "open" /\ run.cur \in since => node[run.cur].ours
        /\ Scanning =>
            \A n \in since : node[n].ours =>
                \/ n \in run.listing
                \/ run.at = "open" /\ n = run.cur
                \/ node[n].id \in Found
                \/ run.mode = "first" /\ Found # {}
        /\ (run.at = "wrap" \/ Ready) /\ run.count >= 0 =>
            /\ run.mode = "all" =>
                \/ Cardinality(Found) = MaxDevices
                \/ \A n \in since : node[n].ours => node[n].id \in Found
            /\ run.mode = "first" /\ (\E n \in since : node[n].ours) => Found # {}

Sound ==
    /\ NodesApart
    /\ Stages
    /\ OneHandleEach
    /\ Accounted
    /\ NotYetOpened
    /\ BusRight
    /\ NotMissed

IInv == TypeOK /\ Sound

-----------------------------------------------------------------------------
\* Devices, handles and queues of handles.

\* Only a name without a device has the number 0, and it cannot be opened.
LEMMA DeviceFields ==
    ASSUME NEW d \in Device \cup {NoDevice}
    PROVE  /\ d.id \in 0 .. Plugs /\ d.ours \in BOOLEAN /\ d.bus \in Bus /\ d.allowed \in BOOLEAN
           /\ d.allowed => d.id \in Connection
           /\ d.ours => d.id \in Connection
           /\ d # NoDevice => d \in Device /\ d.id \in Connection
<1>1. Plugs \in Nat \ {0} /\ Connection \subseteq 0 .. Plugs /\ 0 \in 0 .. Plugs /\ 0 \notin Connection
  BY LifecycleAssumption DEF Connection
<1>2. CASE d \in [id: Connection, ours: {TRUE}, bus: Bus, allowed: BOOLEAN]
  <2>1. d.id \in Connection /\ d.ours = TRUE /\ d.bus \in Bus /\ d.allowed \in BOOLEAN
    BY <1>2
  <2>2. d \in Device
    BY <1>2 DEF Device
  <2>3. QED
    BY <1>1, <2>1, <2>2
<1>3. CASE d \in [id: Connection, ours: {FALSE}, bus: {"usb"}, allowed: BOOLEAN]
  <2>1. d.id \in Connection /\ d.ours = FALSE /\ d.bus \in Bus /\ d.allowed \in BOOLEAN
    BY <1>3 DEF Bus
  <2>2. d \in Device
    BY <1>3 DEF Device
  <2>3. QED
    BY <1>1, <2>1, <2>2
<1>4. CASE d = NoDevice
  <2>1. d.id = 0 /\ d.ours = FALSE /\ d.bus \in Bus /\ d.allowed = FALSE
    BY <1>4 DEF NoDevice, Bus
  <2>2. QED
    BY <1>1, <1>4, <2>1
<1>5. QED
  BY <1>2, <1>3, <1>4 DEF Device

\* No descriptors, no connections.
LEMMA NoIds == Ids(<<>>) = {} /\ UniqueIds(<<>>)
BY DEF Ids, UniqueIds

\* A queue of handles grows at its end.
LEMMA AppendIds ==
    ASSUME NEW q \in Seq(Handle), NEW h \in Handle
    PROVE  /\ Append(q, h) \in Seq(Handle) /\ Append(q, h) # <<>>
           /\ Len(Append(q, h)) = Len(q) + 1
           /\ Append(q, h)[Len(q) + 1] = h
           /\ \A i \in 1 .. Len(q) : Append(q, h)[i] = q[i]
           /\ Ids(Append(q, h)) = Ids(q) \cup {h.id}
           /\ UniqueIds(q) /\ h.id \notin Ids(q) => UniqueIds(Append(q, h))
<1> DEFINE a == Append(q, h)
<1>1. /\ Len(q) \in Nat /\ a \in Seq(Handle) /\ a # <<>> /\ Len(a) = Len(q) + 1
      /\ \A i \in 1 .. Len(q) : a[i] = q[i]
      /\ a[Len(q) + 1] = h
  BY AppendProperties, LenProperties
<1> HIDE DEF a
<1>2. /\ \A i \in 1 .. Len(a) : i \in 1 .. Len(q) \/ i = Len(q) + 1
      /\ 1 .. Len(q) \subseteq 1 .. Len(a) /\ Len(q) + 1 \in 1 .. Len(a)
  BY <1>1
<1>3. Ids(a) = Ids(q) \cup {h.id}
  <2>1. Ids(a) \subseteq Ids(q) \cup {h.id}
    BY <1>1, <1>2 DEF Ids
  <2>2. Ids(q) \subseteq Ids(a) /\ h.id \in Ids(a)
    BY <1>1, <1>2 DEF Ids
  <2>3. QED
    BY <2>1, <2>2
<1>4. UniqueIds(q) /\ h.id \notin Ids(q) => UniqueIds(a)
  BY <1>1, <1>2 DEF UniqueIds, Ids
<1>5. QED
  BY <1>1, <1>3, <1>4 DEF a

\* A queue of handles without its first.
LEMMA TailIds ==
    ASSUME NEW q \in Seq(Handle), q # <<>>, UniqueIds(q)
    PROVE  /\ Head(q) = q[1] /\ Head(q) \in Handle /\ 1 \in 1 .. Len(q)
           /\ Tail(q) \in Seq(Handle) /\ Len(Tail(q)) = Len(q) - 1
           /\ \A i \in 1 .. Len(Tail(q)) : i + 1 \in 1 .. Len(q) /\ Tail(q)[i] = q[i + 1]
           /\ Ids(q) = Ids(Tail(q)) \cup {Head(q).id}
           /\ Head(q).id \notin Ids(Tail(q))
           /\ UniqueIds(Tail(q))
<1> DEFINE t == Tail(q)
<1>1. /\ Len(q) \in Nat \ {0} /\ Head(q) = q[1] /\ Head(q) \in Handle
      /\ t \in Seq(Handle) /\ Len(t) = Len(q) - 1
      /\ \A i \in 1 .. Len(t) : t[i] = q[i + 1]
  BY HeadTailProperties, EmptySeq, LenProperties
<1> HIDE DEF t
<1>2. /\ 1 \in 1 .. Len(q)
      /\ \A i \in 1 .. Len(t) : i + 1 \in 1 .. Len(q) /\ i + 1 # 1
      /\ \A i \in 1 .. Len(q) : i # 1 => i - 1 \in 1 .. Len(t) /\ i - 1 + 1 = i
  BY <1>1
<1>3. Ids(q) \subseteq Ids(t) \cup {Head(q).id}
  <2> SUFFICES ASSUME NEW i \in 1 .. Len(q), i # 1 PROVE q[i].id \in Ids(t)
    BY <1>1 DEF Ids
  <2>1. i - 1 \in 1 .. Len(t) /\ t[i - 1] = q[i]
    BY <1>1, <1>2
  <2>2. QED
    BY <2>1 DEF Ids
<1>4. Ids(t) \cup {Head(q).id} \subseteq Ids(q)
  BY <1>1, <1>2 DEF Ids
<1>5. Head(q).id \notin Ids(t)
  <2> SUFFICES ASSUME NEW i \in 1 .. Len(t), t[i].id = Head(q).id PROVE FALSE
    BY DEF Ids
  <2>1. q[i + 1].id = q[1].id
    BY <1>1
  <2>2. QED
    BY <1>2, <2>1 DEF UniqueIds
<1>6. UniqueIds(t)
  <2> SUFFICES ASSUME NEW i \in 1 .. Len(t), NEW j \in 1 .. Len(t), t[i].id = t[j].id
               PROVE  i = j
    BY DEF UniqueIds
  <2>1. i + 1 = j + 1
    BY <1>1, <1>2 DEF UniqueIds
  <2>2. QED
    BY <2>1
<1>7. QED
  BY <1>1, <1>2, <1>3, <1>4, <1>5, <1>6 DEF t

\* As many values as places that hold different ones.
LEMMA CountImage ==
    ASSUME NEW n \in Nat, NEW T, NEW f \in [1 .. n -> T],
           \A i, j \in 1 .. n : f[i] = f[j] => i = j,
           \A t \in T : \E i \in 1 .. n : f[i] = t
    PROVE  IsFiniteSet(T) /\ Cardinality(T) = n
<1>1. f \in Bijection(1 .. n, T)
  BY DEF Bijection, Injection, Surjection, IsInjective
<1>2. ExistsBijection(1 .. n, T)
  BY <1>1 DEF ExistsBijection
<1>3. IsFiniteSet(T)
  BY <1>2, FS_NatBijection
<1>4. Cardinality(T) = n
  BY <1>2, FS_CountingElements
<1>5. QED
  BY <1>3, <1>4

\* As many connections as descriptors.
LEMMA CountIds ==
    ASSUME NEW q \in Seq(Handle), UniqueIds(q)
    PROVE  Cardinality(Ids(q)) = Len(q)
<1> DEFINE f == [i \in 1 .. Len(q) |-> q[i].id]
<1>1. Len(q) \in Nat
  BY LenProperties
<1>2. /\ f \in [1 .. Len(q) -> Ids(q)]
      /\ \A i, j \in 1 .. Len(q) : f[i] = f[j] => i = j
      /\ \A t \in Ids(q) : \E i \in 1 .. Len(q) : f[i] = t
  BY DEF Ids, UniqueIds
<1> HIDE DEF f
<1>3. QED
  BY <1>1, <1>2, CountImage

-----------------------------------------------------------------------------
\* The values the variables have.

\* The constants as numbers.
LEMMA Sizes == MaxDevices \in Nat \ {0} /\ Plugs \in Nat \ {0} /\ Kills \in Nat /\ AllocFailures \in Nat
BY LifecycleAssumption

\* What TypeOK says of a run and of the device at a name.
LEMMA Fields ==
    ASSUME TypeOK
    PROVE  /\ run.at \in Location /\ run.mode \in Mode /\ run.listing \subseteq Node
           /\ run.cur \in Node /\ run.hint \in Bus
           /\ run.fds \in Seq(Handle) /\ Len(run.fds) \in 0 .. MaxDevices
           /\ run.table \in [1 .. MaxDevices -> Handle \cup {Unset}]
           /\ run.count \in -1 .. MaxDevices
           /\ run.told \in BOOLEAN
           /\ \A n \in Node :
                /\ node[n] \in Device \cup {NoDevice}
                /\ node[n].id \in 0 .. Plugs /\ node[n].bus \in Bus
                /\ node[n].allowed => node[n].id \in 1 .. Plugs
                /\ node[n].ours => node[n].id \in 1 .. Plugs
           /\ plugs \in 0 .. Plugs /\ MaxDevices \in Nat \ {0} /\ Plugs \in Nat \ {0}
<1>1. run \in Run /\ Len(run.fds) <= MaxDevices /\ plugs \in 0 .. Plugs
  BY DEF TypeOK
<1>2. /\ run.at \in Location /\ run.mode \in Mode /\ run.listing \subseteq Node
      /\ run.cur \in Node /\ run.hint \in Bus
      /\ run.fds \in Seq(Handle)
      /\ run.table \in [1 .. MaxDevices -> Handle \cup {Unset}]
      /\ run.count \in -1 .. MaxDevices
      /\ run.told \in BOOLEAN
  BY <1>1 DEF Run
<1>3. Len(run.fds) \in 0 .. MaxDevices
  BY <1>1, <1>2, Sizes, LenProperties
<1>4. \A n \in Node :
        /\ node[n] \in Device \cup {NoDevice}
        /\ node[n].id \in 0 .. Plugs /\ node[n].bus \in Bus
        /\ node[n].allowed => node[n].id \in 1 .. Plugs
        /\ node[n].ours => node[n].id \in 1 .. Plugs
  <2> SUFFICES ASSUME NEW n \in Node
               PROVE  /\ node[n] \in Device \cup {NoDevice}
                      /\ node[n].id \in 0 .. Plugs /\ node[n].bus \in Bus
                      /\ node[n].allowed => node[n].id \in 1 .. Plugs
                      /\ node[n].ours => node[n].id \in 1 .. Plugs
    OBVIOUS
  <2>1. node[n] \in Device \cup {NoDevice}
    BY DEF TypeOK
  <2>2. QED
    BY <2>1, DeviceFields DEF Connection
<1>5. QED
  BY <1>1, <1>2, <1>3, <1>4, Sizes

\* What a run that has not begun or has ended holds.
LEMMA NewRunFields ==
    ASSUME NEW m \in Mode
    PROVE  /\ NewRun(m) \in Run
           /\ NewRun(m).at = "down" /\ NewRun(m).mode = m /\ NewRun(m).listing = {}
           /\ NewRun(m).cur \in Node /\ NewRun(m).fds = <<>> /\ Len(NewRun(m).fds) = 0
           /\ NewRun(m).count = 0 /\ NewRun(m).table \in [1 .. MaxDevices -> Handle \cup {Unset}]
<1>1. AnyNode \in Node
  BY LifecycleAssumption DEF AnyNode
<1>2. [i \in 1 .. MaxDevices |-> Unset] \in [1 .. MaxDevices -> Handle \cup {Unset}]
  OBVIOUS
<1>3. <<>> \in Seq(Handle) /\ Len(<<>>) = 0 /\ 0 \in -1 .. MaxDevices
  BY Sizes
<1>4. QED
  BY <1>1, <1>2, <1>3 DEF NewRun, Run, Location, Bus

\* The places of the table in use have handles at most of the descriptors.
LEMMA TableFields ==
    ASSUME TypeOK, Sound
    PROVE  /\ \A i \in 1 .. Len(run.fds) : run.fds[i] \in Handle /\ run.fds[i].id \in Ids(run.fds)
           /\ \A i \in 1 .. run.count : i \in 1 .. MaxDevices /\ run.table[i].id \in InTable(run)
           /\ Ids(run.fds) \subseteq open /\ InTable(run) \subseteq open
           /\ Ids(run.fds) \cup InTable(run) = open
           /\ Found = open \cup dropped
           /\ Found \subseteq 1 .. plugs
           /\ 1 .. plugs \subseteq 1 .. Plugs
<1>1. \A i \in 1 .. Len(run.fds) : run.fds[i] \in Handle
  BY Fields
<1>2. \A i \in 1 .. run.count : i \in 1 .. MaxDevices
  BY Fields
<1>3. /\ \A i \in 1 .. Len(run.fds) : run.fds[i].id \in Ids(run.fds)
      /\ \A i \in 1 .. run.count : run.table[i].id \in InTable(run)
  BY DEF Ids, InTable
<1>4. open = Ids(run.fds) \cup InTable(run)
  BY DEF Sound, Accounted
<1>5. Found = open \cup dropped
  BY <1>4 DEF Found
<1>6. Found \subseteq 1 .. plugs
  BY <1>5 DEF Sound, NodesApart
<1>7. 1 .. plugs \subseteq 1 .. Plugs
  BY Fields
<1>8. QED
  BY <1>1, <1>2, <1>3, <1>4, <1>5, <1>6, <1>7

-----------------------------------------------------------------------------
\* Steps that have much in common.

\* The program does nothing about controllers: it stays where it is, or goes on
\* after the scan.
LEMMA Quiet ==
    ASSUME TypeOK, Sound,
           UNCHANGED <<node, plugs, open, since, dropped>>,
           run'.fds = run.fds, run'.table = run.table, run'.count = run.count,
           run'.mode = run.mode, run'.listing = run.listing, run'.cur = run.cur,
           \/ run'.at = run.at
           \/ run.at = "wrap" /\ run.fds = <<>> /\ Ready'
           \/ Ready /\ Ready'
    PROVE  Sound'
<1>1. /\ Ids(run.fds)' = Ids(run.fds) /\ InTable(run)' = InTable(run) /\ Found' = Found
  BY DEF Ids, InTable, Found
<1>2. /\ Scanning' => Scanning
      /\ \A l \in {"open", "detect", "down", "wrap"} : run'.at = l => run.at = l
      /\ Ready' => Ready \/ (run.at = "wrap" /\ run.fds = <<>>)
  BY DEF Scanning, Ready
<1>3. NodesApart'
  BY DEF Sound, NodesApart
<1>4. Stages'
  BY <1>2 DEF Sound, Stages
<1>5. OneHandleEach'
  BY <1>1 DEF Sound, OneHandleEach, UniqueIds
<1>6. Accounted'
  BY <1>1 DEF Sound, Accounted
<1>7. NotYetOpened'
  BY <1>1, <1>2 DEF Sound, NotYetOpened, Scanning, Ready
<1>8. BusRight'
  BY <1>2 DEF Sound, BusRight, Ready
<1>9. NotMissed'
  BY <1>1, <1>2 DEF Sound, NotMissed, Scanning, Ready
<1>10. QED
  BY <1>3, <1>4, <1>5, <1>6, <1>7, <1>8, <1>9 DEF Sound

\* The program has nothing open: it has ended, or begins.
LEMMA Nothing ==
    ASSUME TypeOK, Sound,
           UNCHANGED <<node, plugs>>, open' = {}, dropped' = {},
           run'.fds = <<>>, run'.count = 0,
           \/ run'.at = "down" /\ since' = {}
           \/ run'.at = "scan" /\ run'.listing = Node
           \/ run'.at = "open" /\ run'.mode = "path" /\ run'.listing = {},
           \A n \in since' : n \in Node /\ node[n].allowed
    PROVE  Sound'
<1>1. /\ Ids(run.fds)' = {} /\ InTable(run)' = {} /\ Found' = {} /\ Len(run'.fds) = 0
      /\ 1 .. run'.count = {} /\ 1 .. Len(run'.fds) = {}
  BY DEF Ids, InTable, Found
<1>2. ~Ready' /\ run'.at # "wrap" /\ run'.at # "detect"
  BY DEF Ready
<1>3. NodesApart'
  BY DEF Sound, NodesApart
<1>4. Stages'
  BY <1>1, <1>2, Sizes DEF Stages, Scanning
<1>5. OneHandleEach'
  BY <1>1 DEF OneHandleEach, UniqueIds
<1>6. Accounted'
  BY <1>1 DEF Accounted
<1>7. NotYetOpened'
  BY DEF NotYetOpened
<1>8. BusRight'
  BY <1>1 DEF BusRight
<1>9. NotMissed'
  BY <1>1, <1>2 DEF NotMissed, Scanning
<1>10. QED
  BY <1>3, <1>4, <1>5, <1>6, <1>7, <1>8, <1>9 DEF Sound

\* A device comes, goes or becomes the user's: at every name is the device that
\* was there, or none that the program has had a descriptor of.
LEMMA NodeStep ==
    ASSUME TypeOK, Sound,
           UNCHANGED <<run, open, dropped>>, plugs' \in Nat, plugs <= plugs',
           since' \subseteq since,
           NodesApart',
           \A n \in Node :
               \/ /\ node'[n].id = node[n].id /\ node'[n].ours = node[n].ours
                  /\ node'[n].bus = node[n].bus /\ (node[n].allowed => node'[n].allowed)
               \/ node'[n].id \notin 1 .. plugs /\ n \notin since'
    PROVE  Sound'
<1>1. /\ Ids(run.fds)' = Ids(run.fds) /\ InTable(run)' = InTable(run) /\ Found' = Found
      /\ Scanning' = Scanning /\ Ready' = Ready
  BY DEF Ids, InTable, Found, Scanning, Ready
<1>2. since \subseteq Node
  BY DEF TypeOK
<1>3. Stages'
  <2>1. run.at = "detect" => /\ run.fds # <<>>
                             /\ \A n \in Node : node'[n].id = run.fds[Len(run.fds)].id => n = run.cur
    <3> SUFFICES ASSUME run.at = "detect"
                 PROVE  /\ run.fds # <<>>
                        /\ \A n \in Node : node'[n].id = run.fds[Len(run.fds)].id => n = run.cur
      OBVIOUS
    <3>1. run.fds # <<>> /\ \A n \in Node : node[n].id = run.fds[Len(run.fds)].id => n = run.cur
      BY DEF Sound, Stages
    <3>2. Len(run.fds) \in 1 .. Len(run.fds)
      BY <3>1, Fields, EmptySeq
    <3>3. run.fds[Len(run.fds)].id \in 1 .. plugs
      BY <3>2, TableFields
    <3>4. QED
      BY <3>1, <3>3
  <2>2. run.at = "down" => since' = {}
    BY DEF Sound, Stages
  <2>3. QED
    BY <1>1, <2>1, <2>2 DEF Sound, Stages
<1>4. OneHandleEach'
  BY <1>1 DEF Sound, OneHandleEach, UniqueIds
<1>5. Accounted'
  BY <1>1 DEF Sound, Accounted
<1>6. NotYetOpened'
  <2>1. \A n \in Node : node'[n].id \in open => node'[n].id = node[n].id
    BY DEF Sound, NodesApart
  <2>2. QED
    BY <1>1, <2>1 DEF Sound, NotYetOpened
<1>7. BusRight'
  <2>1. /\ \A i \in 1 .. Len(run.fds) : run.fds[i].id \in 1 .. plugs
        /\ \A i \in 1 .. run.count : run.table[i].id \in 1 .. plugs
    BY TableFields
  <2>2. QED
    BY <2>1 DEF Sound, BusRight
<1>8. NotMissed'
  <2>1. \A n \in since' : /\ n \in since /\ n \in Node /\ node'[n].id = node[n].id
                          /\ node'[n].ours = node[n].ours /\ node'[n].allowed
    BY <1>2 DEF Sound, NotMissed
  <2>2. QED
    BY <1>1, <2>1 DEF Sound, NotMissed
<1>9. QED
  BY <1>3, <1>4, <1>5, <1>6, <1>7, <1>8 DEF Sound

-----------------------------------------------------------------------------
\* Sound is kept: the steps of devices, and those that are of a kind above.

LEMMA PlugSound ==
    ASSUME TypeOK, Sound, NEW n \in Node, NEW d \in Device, Plug(n, d)
    PROVE  Sound'
<1>1. /\ UNCHANGED <<run, open, dropped, since>> /\ plugs \in Nat /\ plugs' = plugs + 1
      /\ node[n] = NoDevice /\ node' = [node EXCEPT ![n] = d] /\ d.id = plugs + 1
  BY Fields DEF Plug, histories
<1>2. \A m \in Node : /\ m # n => node'[m] = node[m]
                      /\ node'[n] = d /\ node[m].id \in 0 .. plugs
  BY <1>1, Fields DEF TypeOK, Sound, NodesApart
<1>3. n \notin since
  BY <1>1 DEF Sound, NotMissed, NoDevice
<1>4. NodesApart'
  BY <1>1, <1>2 DEF Sound, NodesApart
<1>5. QED
  BY <1>1, <1>2, <1>3, <1>4, NodeStep

LEMMA UdevSound ==
    ASSUME TypeOK, Sound, NEW n \in Node, Udev(n)
    PROVE  Sound'
<1>1. /\ UNCHANGED <<run, open, dropped, since, plugs>> /\ plugs \in Nat
      /\ node' = [node EXCEPT ![n].allowed = TRUE]
  BY Fields DEF Udev, histories
<1>2. \A m \in Node : /\ m # n => node'[m] = node[m]
                      /\ node'[n] = [node[n] EXCEPT !.allowed = TRUE]
  BY <1>1 DEF TypeOK
<1>3. /\ node'[n].id = node[n].id /\ node'[n].ours = node[n].ours
      /\ node'[n].bus = node[n].bus /\ node'[n].allowed
  <2>1. node[n] \in Device \cup {NoDevice}
    BY Fields
  <2>2. QED
    BY <1>2, <2>1 DEF Device, NoDevice
<1>4. NodesApart'
  BY <1>1, <1>2, <1>3 DEF Sound, NodesApart
<1>5. QED
  BY <1>1, <1>2, <1>3, <1>4, NodeStep

LEMMA UnplugSound ==
    ASSUME TypeOK, Sound, NEW n \in Node, Unplug(n)
    PROVE  Sound'
<1>1. /\ UNCHANGED <<run, open, dropped, plugs>> /\ plugs \in Nat
      /\ since' = since \ {n} /\ node' = [node EXCEPT ![n] = NoDevice]
  BY Fields DEF Unplug
<1>2. \A m \in Node : /\ m # n => node'[m] = node[m]
                      /\ node'[n] = NoDevice
  BY <1>1 DEF TypeOK
<1>3. node'[n].id = 0
  BY <1>2 DEF NoDevice
<1>4. NodesApart'
  BY <1>1, <1>2, <1>3 DEF Sound, NodesApart
<1>5. QED
  BY <1>1, <1>2, <1>3, <1>4, NodeStep

\* The steps after the scan, and those that concern the path or a flag only.
LEMMA OnwardSound ==
    ASSUME TypeOK, Sound, NEW l \in Location, Goto(l),
           Ready \/ (run.at = "wrap" /\ run.fds = <<>>),
           l \in {"count", "unlink", "bind", "listen", "serve", "use"},
           UNCHANGED <<node, plugs, open, since, dropped>>
    PROVE  Sound'
<1>1. run' = [run EXCEPT !.at = l] /\ run \in Run
  BY DEF Goto, TypeOK
<1>2. /\ run'.at = l
      /\ run'.fds = run.fds /\ run'.table = run.table /\ run'.count = run.count
      /\ run'.mode = run.mode /\ run'.listing = run.listing /\ run'.cur = run.cur
  BY <1>1 DEF Run
<1>3. Ready'
  BY <1>2 DEF Ready
<1>4. QED
  BY <1>2, <1>3, Quiet

LEMMA SignalSound ==
    ASSUME TypeOK, Sound, Signal
    PROVE  Sound'
<1>1. run' = [run EXCEPT !.told = TRUE] /\ run \in Run
  BY DEF Signal, TypeOK
<1>2. /\ run'.at = run.at
      /\ run'.fds = run.fds /\ run'.table = run.table /\ run'.count = run.count
      /\ run'.mode = run.mode /\ run'.listing = run.listing /\ run'.cur = run.cur
  BY <1>1 DEF Run
<1>3. QED
  BY <1>2, Quiet DEF Signal, deviceVars, histories

LEMMA OtherDaemonSound ==
    ASSUME TypeOK, Sound, NEW before, NEW after, OtherDaemon(before, after)
    PROVE  Sound'
BY Quiet DEF OtherDaemon, deviceVars, histories

\* Whatever ends the program.
LEMMA EndSound ==
    ASSUME TypeOK, Sound, NEW how, End(how), UNCHANGED deviceVars
    PROVE  Sound'
<1>1. run.mode \in Mode
  BY Fields
<1>2. run' = [NewRun(run.mode) EXCEPT !.end = how]
  BY DEF End
<1>3. run'.at = "down" /\ run'.fds = <<>> /\ run'.count = 0
  BY <1>2 DEF NewRun
<1>4. QED
  BY <1>3, Nothing DEF End, deviceVars

LEMMA StartSound ==
    ASSUME TypeOK, Sound, Start
    PROVE  Sound'
<1>1. /\ run.at = "down" /\ run.fds = <<>> /\ run.count = 0 /\ run.mode \in Mode
      /\ UNCHANGED <<node, plugs, open>> /\ dropped' = {}
      /\ since' = {n \in Node : node[n].allowed}
  BY Fields DEF Start, Up, Sound, Stages, deviceVars
<1>2. open = {}
  BY <1>1, NoIds DEF Sound, Accounted, InTable
<1>3. \/ /\ run'.at = "open" /\ run'.mode = "path"
         /\ run'.fds = <<>> /\ run'.count = 0 /\ run'.listing = {}
      \/ /\ run'.at = "scan" /\ run'.listing = Node
         /\ run'.fds = <<>> /\ run'.count = 0
  BY DEF Start, NewRun
<1>4. CASE run'.at = "open"
  BY <1>1, <1>2, <1>3, <1>4, Nothing
<1>5. CASE run'.at = "scan"
  BY <1>1, <1>2, <1>3, <1>5, Nothing
<1>6. QED
  BY <1>3, <1>4, <1>5

-----------------------------------------------------------------------------
\* Sound is kept: the scan.

\* opendir() fails: there is nothing, and the count is negative.
LEMMA NoClassSound ==
    ASSUME TypeOK, Sound, NoClass
    PROVE  Sound'
<1>1. /\ run.at = "scan" /\ run.fds = <<>> /\ run \in Run /\ run.count = 0
      /\ run' = [run EXCEPT !.at = "count", !.count = -1]
      /\ UNCHANGED <<node, plugs, open, since, dropped>>
  BY DEF NoClass, TypeOK, deviceVars, histories, Sound, Stages, Scanning
<1>2. /\ run'.at = "count" /\ run'.count = -1 /\ run'.fds = <<>> /\ run'.mode = run.mode
      /\ run'.table = run.table
  BY <1>1 DEF Run
<1>3. /\ Ids(run'.fds) = {} /\ Ids(run.fds) = {} /\ 1 .. run'.count = {} /\ 1 .. run.count = {}
      /\ 1 .. Len(run'.fds) = {} /\ Len(run'.fds) = 0
  BY <1>1, <1>2, NoIds
<1>4. InTable(run') = {} /\ InTable(run) = {}
  BY <1>3 DEF InTable
<1>5. Found' = Found
  BY <1>1, <1>3, <1>4 DEF Found
<1>6. NodesApart'
  BY <1>1 DEF Sound, NodesApart
<1>7. Stages'
  BY <1>1, <1>2, <1>3, Sizes DEF Stages, Scanning
<1>8. OneHandleEach'
  BY <1>3, <1>4 DEF OneHandleEach, UniqueIds
<1>9. Accounted'
  BY <1>1, <1>3, <1>4 DEF Sound, Accounted
<1>10. NotYetOpened'
  BY <1>2 DEF NotYetOpened, Scanning
<1>11. BusRight'
  BY <1>3 DEF BusRight
<1>12. NotMissed'
  BY <1>1, <1>2, <1>5 DEF Sound, NotMissed, Scanning
<1>13. QED
  BY <1>6, <1>7, <1>8, <1>9, <1>10, <1>11, <1>12 DEF Sound

\* A step of the scan that opens nothing: a name is taken from the listing, or
\* open() fails.
LEMMA ScanStep ==
    ASSUME TypeOK, Sound, run.at \in {"scan", "open"}, run'.at \in {"scan", "open"},
           UNCHANGED <<node, plugs, open, since, dropped>>,
           run'.fds = run.fds, run'.table = run.table, run'.count = run.count,
           run'.mode = run.mode, run'.listing \subseteq run.listing,
           run'.at = "open" => /\ Len(run.fds) < MaxDevices
                               /\ run'.cur \in run.listing /\ run'.cur \notin run'.listing
                               /\ node[run'.cur].ours,
           \A n \in since :
               node[n].ours /\ (n \in run.listing \/ (run.at = "open" /\ n = run.cur))
                   => n \in run'.listing \/ (run'.at = "open" /\ n = run'.cur)
    PROVE  Sound'
<1>1. /\ Ids(run.fds)' = Ids(run.fds) /\ InTable(run)' = InTable(run) /\ Found' = Found
  BY DEF Ids, InTable, Found
<1>2. Scanning /\ Scanning' /\ ~Ready' /\ ~Ready
  BY DEF Scanning, Ready
<1>3. NodesApart'
  BY DEF Sound, NodesApart
<1>4. Stages'
  BY <1>2 DEF Sound, Stages
<1>5. OneHandleEach'
  BY <1>1 DEF Sound, OneHandleEach, UniqueIds
<1>6. Accounted'
  BY <1>1 DEF Sound, Accounted
<1>7. NotYetOpened'
  BY <1>2 DEF Sound, NotYetOpened
<1>8. BusRight'
  BY DEF Sound, BusRight
<1>9. NotMissed'
  BY <1>1, <1>2 DEF Sound, NotMissed
<1>10. QED
  BY <1>3, <1>4, <1>5, <1>6, <1>7, <1>8, <1>9 DEF Sound

LEMMA LookSound ==
    ASSUME TypeOK, Sound, NEW n \in Node, Look(n)
    PROVE  Sound'
<1>1. /\ run.at = "scan" /\ n \in run.listing /\ Len(run.fds) < MaxDevices /\ run \in Run
      /\ UNCHANGED <<node, plugs, open, since, dropped>>
  BY DEF Look, TypeOK, deviceVars, histories
<1>2. CASE node[n].ours
  <2>1. run' = [run EXCEPT !.listing = @ \ {n}, !.at = "open", !.cur = n, !.hint = node[n].bus]
    BY <1>2 DEF Look
  <2>2. /\ run'.at = "open" /\ run'.fds = run.fds /\ run'.table = run.table
        /\ run'.count = run.count /\ run'.mode = run.mode
        /\ run'.listing = run.listing \ {n} /\ run'.cur = n
    BY <1>1, <2>1 DEF Run
  <2>3. QED
    BY <1>1, <1>2, <2>2, ScanStep
<1>3. CASE ~node[n].ours
  <2>1. run' = [run EXCEPT !.listing = @ \ {n}]
    BY <1>3 DEF Look
  <2>2. /\ run'.at = "scan" /\ run'.fds = run.fds /\ run'.table = run.table
        /\ run'.count = run.count /\ run'.mode = run.mode
        /\ run'.listing = run.listing \ {n}
    BY <1>1, <2>1 DEF Run
  <2>3. QED
    BY <1>1, <1>3, <2>2, ScanStep
<1>4. QED
  BY <1>2, <1>3

\* open() succeeds: the descriptor is of a connection the program has none of,
\* for the name has left the listing and no other name stands for it.
LEMMA OpenedSound ==
    ASSUME TypeOK, Sound, run.at = "open", Openable(node[run.cur]), OpenNode
    PROVE  Sound'
<1> DEFINE c == node[run.cur].id
           h == [Unset EXCEPT !.id = c]
           q == run.fds
<1>1. /\ run.cur \in Node /\ node[run.cur].allowed /\ c \in 1 .. Plugs /\ c # 0 /\ c \in 1 .. plugs
      /\ q \in Seq(Handle) /\ Len(q) \in Nat /\ run.cur \notin run.listing
      /\ Len(q) < MaxDevices /\ run.count = 0 /\ dropped = {} /\ plugs \in Nat
  BY Fields DEF Openable, Sound, Stages, NodesApart, Scanning
<1>2. h.id = c /\ h \in Handle
  BY <1>1 DEF Unset, Handle, Connection, Bus
<1>3. /\ UNCHANGED <<node, plugs, since, dropped>> /\ open' = open \cup {c} /\ run \in Run
      /\ run' = [run EXCEPT !.at = "detect", !.fds = Append(q, h)]
  BY DEF OpenNode, deviceVars, histories, TypeOK
<1>4. c \notin open
  BY <1>1 DEF Sound, NotYetOpened, Scanning
<1> HIDE DEF h
<1>5. /\ run'.at = "detect" /\ run'.fds = Append(q, h) /\ run'.table = run.table
      /\ run'.count = run.count /\ run'.mode = run.mode
      /\ run'.listing = run.listing /\ run'.cur = run.cur
  BY <1>3 DEF Run
<1>6. c \notin Ids(q)
  BY <1>4, TableFields
<1>7. /\ run'.fds # <<>> /\ Len(run'.fds) = Len(q) + 1
      /\ run'.fds[Len(q) + 1] = h
      /\ \A i \in 1 .. Len(q) : run'.fds[i] = q[i]
      /\ Ids(run'.fds) = Ids(q) \cup {c} /\ UniqueIds(run'.fds)
  BY <1>1, <1>2, <1>5, <1>6, AppendIds DEF Sound, OneHandleEach
<1>8. InTable(run) = {} /\ InTable(run') = {} /\ 1 .. run'.count = {} /\ 1 .. run.count = {}
  BY <1>1, <1>5 DEF InTable
<1>9. Scanning /\ Scanning' /\ ~Ready'
  BY <1>5 DEF Scanning, Ready
<1>10. Found' = Found \cup {c}
  BY <1>3, <1>7, <1>8 DEF Found
<1>11. \A n \in Node : node[n].id = c => n = run.cur
  BY <1>1 DEF Sound, NodesApart
<1> HIDE DEF c, q
<1>12. NodesApart'
  BY <1>1, <1>3 DEF Sound, NodesApart
<1>13. Stages'
  <2>1. run'.fds[Len(run'.fds)].id = c
    BY <1>2, <1>7
  <2>2. run'.count + Len(run'.fds) <= MaxDevices
    BY <1>1, <1>5, <1>7, Sizes
  <2>3. \A n \in Node : node'[n].id = run'.fds[Len(run'.fds)].id => n = run'.cur
    BY <1>3, <1>5, <1>11, <2>1
  <2>4. run'.count = 0 /\ dropped' = {}
    BY <1>1, <1>3, <1>5
  <2>5. QED
    BY <1>5, <1>7, <1>9, <2>2, <2>3, <2>4 DEF Stages
<1>14. OneHandleEach'
  BY <1>7, <1>8 DEF OneHandleEach
<1>15. Accounted'
  BY <1>3, <1>7, <1>8 DEF Sound, Accounted, q
<1>16. NotYetOpened'
  BY <1>1, <1>3, <1>5, <1>9, <1>11 DEF Sound, NotYetOpened
<1>17. BusRight'
  <2>1. \A i \in 1 .. Len(run'.fds) : i \in 1 .. Len(q) \/ i = Len(run'.fds)
    BY <1>1, <1>7
  <2>2. QED
    BY <1>3, <1>5, <1>7, <1>8, <2>1 DEF Sound, BusRight, q
<1>18. NotMissed'
  BY <1>1, <1>3, <1>5, <1>9, <1>10, <1>11 DEF Sound, NotMissed, c, TypeOK
<1>19. QED
  BY <1>12, <1>13, <1>14, <1>15, <1>16, <1>17, <1>18 DEF Sound

LEMMA OpenNodeSound ==
    ASSUME TypeOK, Sound, OpenNode
    PROVE  Sound'
<1>1. run.at = "open"
  BY DEF OpenNode
<1>2. CASE Openable(node[run.cur])
  BY <1>1, <1>2, OpenedSound
<1>3. CASE ~Openable(node[run.cur])
  <2>1. /\ UNCHANGED <<node, plugs, open, since, dropped>> /\ run \in Run
        /\ run' = [run EXCEPT !.at = "scan", !.listing = run.listing]
    BY <1>3 DEF OpenNode, deviceVars, histories, ListingAfterFailure, TypeOK
  <2>2. /\ run'.at = "scan" /\ run'.fds = run.fds /\ run'.table = run.table
        /\ run'.count = run.count /\ run'.mode = run.mode /\ run'.listing = run.listing
    BY <2>1 DEF Run
  <2>3. run.cur \notin since
    BY <1>3 DEF Openable, Sound, NotMissed
  <2>4. QED
    BY <1>1, <2>1, <2>2, <2>3, ScanStep
<1>4. QED
  BY <1>2, <1>3

\* detect_connection: the descriptor's bus is that of the device still at the
\* name; no other name has it.
LEMMA DetectSound ==
    ASSUME TypeOK, Sound, Detect
    PROVE  Sound'
<1> DEFINE q == run.fds
           k == Len(q)
           g == [q[k] EXCEPT !.bus = BusOf(run)]
<1>1. /\ run.at = "detect" /\ q # <<>> /\ q \in Seq(Handle) /\ run.count = 0 /\ dropped = {}
      /\ run \in Run /\ UNCHANGED <<node, plugs, open, since, dropped>>
      /\ \A n \in Node : node[n].id = q[k].id => n = run.cur
      /\ run.cur \in Node
  BY Fields DEF Detect, Sound, Stages, Scanning, TypeOK, deviceVars, histories
<1>2. k \in 1 .. k /\ q[k] \in Handle
  BY <1>1, EmptySeq, LenProperties
<1>3. g.id = q[k].id /\ g.bus = BusOf(run)
  BY <1>2 DEF Handle
<1>4. node[run.cur].id = q[k].id => g.bus = node[run.cur].bus
  BY <1>3 DEF BusOf
<1>5. /\ run'.at = "scan" /\ run'.fds = [q EXCEPT ![k] = g] /\ run'.table = run.table
      /\ run'.count = run.count /\ run'.mode = run.mode
      /\ run'.listing = (IF run.mode = "first" THEN {} ELSE run.listing)
  BY <1>1 DEF Detect, Run
<1>6. /\ Len(run'.fds) = k /\ run'.fds[k] = g /\ \A i \in 1 .. k : i # k => run'.fds[i] = q[i]
  BY <1>1, <1>2, <1>5, LenProperties
<1> HIDE DEF g
<1>7. \A i \in 1 .. k : run'.fds[i].id = q[i].id
  BY <1>3, <1>6
<1>8. Ids(run'.fds) = Ids(q)
  BY <1>6, <1>7 DEF Ids
<1>9. InTable(run') = InTable(run) /\ Found' = Found /\ 1 .. run.count = {}
  BY <1>1, <1>5, <1>8 DEF InTable, Found
<1>10. Scanning /\ Scanning' /\ ~Ready'
  BY <1>1, <1>5 DEF Scanning, Ready
<1>11. NodesApart'
  BY <1>1 DEF Sound, NodesApart
<1>12. Stages'
  BY <1>1, <1>5, <1>6, <1>10 DEF Sound, Stages
<1>13. OneHandleEach'
  BY <1>5, <1>6, <1>7, <1>8, <1>9 DEF Sound, OneHandleEach, UniqueIds
<1>14. Accounted'
  BY <1>1, <1>8, <1>9 DEF Sound, Accounted
<1>15. NotYetOpened'
  BY <1>1, <1>5, <1>10 DEF Sound, NotYetOpened
<1>16. BusRight'
  <2>1. ASSUME NEW n \in Node, NEW i \in 1 .. k, node[n].id = run'.fds[i].id
        PROVE  run'.fds[i].bus = node[n].bus
    <3>1. CASE i = k
      BY <1>1, <1>3, <1>4, <1>6, <2>1, <3>1
    <3>2. CASE i # k
      BY <1>1, <1>6, <2>1, <3>2 DEF Sound, BusRight
    <3>3. QED
      BY <3>1, <3>2
  <2>2. QED
    BY <1>1, <1>5, <1>6, <1>9, <2>1 DEF BusRight
<1>17. Found # {}
  BY <1>2 DEF Found, Ids
<1>18. NotMissed'
  BY <1>1, <1>5, <1>9, <1>10, <1>17 DEF Sound, NotMissed
<1>19. QED
  BY <1>11, <1>12, <1>13, <1>14, <1>15, <1>16, <1>18 DEF Sound

\* The scan ends with every name looked at, or with the table full.
LEMMA EndScanSound ==
    ASSUME TypeOK, Sound, EndScan
    PROVE  Sound'
<1>1. /\ run.listing = {} \/ Len(run.fds) = MaxDevices
      /\ run.at = "scan" /\ run' = [run EXCEPT !.at = "wrap"] /\ run \in Run
      /\ UNCHANGED <<node, plugs, open, since, dropped>>
      /\ run.count = 0 /\ dropped = {}
  BY DEF EndScan, Goto, TypeOK, Sound, Stages, Scanning, deviceVars, histories
<1>2. /\ run'.at = "wrap" /\ run'.fds = run.fds /\ run'.table = run.table
      /\ run'.count = run.count /\ run'.mode = run.mode
  BY <1>1 DEF Run
<1>3. /\ Ids(run'.fds) = Ids(run.fds) /\ InTable(run') = InTable(run) /\ Found' = Found
      /\ InTable(run) = {} /\ Found = Ids(run.fds)
  BY <1>1, <1>2 DEF Ids, InTable, Found
<1>4. ~Scanning' /\ ~Ready' /\ Scanning
  BY <1>1, <1>2 DEF Scanning, Ready
<1>5. Len(run.fds) = MaxDevices => Cardinality(Found) = MaxDevices /\ Found # {}
  <2> SUFFICES ASSUME Len(run.fds) = MaxDevices
               PROVE  Cardinality(Found) = MaxDevices /\ Found # {}
    OBVIOUS
  <2>1. run.fds \in Seq(Handle) /\ UniqueIds(run.fds)
    BY Fields DEF Sound, OneHandleEach
  <2>2. 1 \in 1 .. Len(run.fds)
    BY Sizes
  <2>3. run.fds[1].id \in Found
    BY <1>3, <2>2 DEF Ids
  <2>4. QED
    BY <1>3, <2>1, <2>3, CountIds
<1>6. NodesApart'
  BY <1>1 DEF Sound, NodesApart
<1>7. Stages'
  BY <1>1, <1>2, <1>4 DEF Sound, Stages
<1>8. OneHandleEach'
  BY <1>2, <1>3 DEF Sound, OneHandleEach, UniqueIds
<1>9. Accounted'
  BY <1>1, <1>3 DEF Sound, Accounted
<1>10. NotYetOpened'
  BY <1>4 DEF NotYetOpened
<1>11. BusRight'
  BY <1>1, <1>2 DEF Sound, BusRight
<1>12. NotMissed'
  BY <1>1, <1>2, <1>3, <1>4, <1>5 DEF Sound, NotMissed
<1>13. QED
  BY <1>6, <1>7, <1>8, <1>9, <1>10, <1>11, <1>12 DEF Sound

-----------------------------------------------------------------------------
\* Sound is kept: one descriptor after the other gets a handle or is closed.

\* The first descriptor gets a handle, which is put where the count says.
LEMMA WrapSound ==
    ASSUME TypeOK, Sound, Wrap
    PROVE  Sound'
<1> DEFINE q == run.fds
           h == Head(q)
           p == run.count + 1
<1>1. /\ run.at = "wrap" /\ q # <<>> /\ q \in Seq(Handle) /\ UniqueIds(q) /\ run \in Run
      /\ run.count >= 0 /\ run.count \in -1 .. MaxDevices /\ run.count + Len(q) <= MaxDevices
      /\ run.table \in [1 .. MaxDevices -> Handle \cup {Unset}]
      /\ UNCHANGED <<node, plugs, open, since, dropped>>
  BY Fields DEF Wrap, Sound, Stages, OneHandleEach, TypeOK, deviceVars, histories
<1>2. /\ h = q[1] /\ h \in Handle /\ 1 \in 1 .. Len(q)
      /\ Tail(q) \in Seq(Handle) /\ Len(Tail(q)) = Len(q) - 1
      /\ \A i \in 1 .. Len(Tail(q)) : i + 1 \in 1 .. Len(q) /\ Tail(q)[i] = q[i + 1]
      /\ Ids(q) = Ids(Tail(q)) \cup {h.id}
      /\ h.id \notin Ids(Tail(q))
      /\ UniqueIds(Tail(q))
  BY <1>1, TailIds
<1>3. p \in 1 .. MaxDevices /\ p \in 1 .. p /\ 1 .. p = (1 .. run.count) \cup {p} /\ p \notin 1 .. run.count
  BY <1>1, <1>2, Sizes, LenProperties
<1>4. run' = [run EXCEPT !.fds = Tail(q), !.count = p, !.table = [run.table EXCEPT ![p] = h]]
  BY DEF Wrap, Place
<1> HIDE DEF h, p
<1>5. /\ run'.at = "wrap" /\ run'.fds = Tail(q) /\ run'.count = p /\ run'.mode = run.mode
      /\ run'.table = [run.table EXCEPT ![p] = h]
  BY <1>1, <1>4 DEF Run
<1>6. /\ run'.table[p] = h
      /\ \A i \in 1 .. run.count : run'.table[i] = run.table[i]
  BY <1>1, <1>3, <1>5, Fields
<1>7. InTable(run') = InTable(run) \cup {h.id}
  BY <1>3, <1>5, <1>6 DEF InTable
<1>8. Found' = Found /\ Ids(run'.fds) \cup InTable(run') = Ids(q) \cup InTable(run)
  BY <1>1, <1>2, <1>5, <1>7 DEF Found
<1>9. ~Scanning' /\ ~Ready'
  BY <1>5 DEF Scanning, Ready
<1>10. NodesApart'
  BY <1>1 DEF Sound, NodesApart
<1>11. Stages'
  <2>1. run'.count >= 0 /\ run'.count + Len(run'.fds) <= MaxDevices
    BY <1>1, <1>2, <1>5, Sizes, LenProperties DEF p
  <2>2. QED
    BY <1>5, <1>9, <2>1 DEF Stages
<1>12. OneHandleEach'
  <2>1. h.id \in Ids(q) /\ h.id \notin InTable(run)
    BY <1>2 DEF Sound, OneHandleEach
  <2>2. \A i \in 1 .. run.count : run.table[i].id # h.id
    BY <2>1 DEF InTable
  <2>3. \A i, j \in 1 .. run'.count : run'.table[i].id = run'.table[j].id => i = j
    BY <1>3, <1>5, <1>6, <2>2 DEF Sound, OneHandleEach
  <2>4. Ids(run'.fds) \cap InTable(run') = {}
    BY <1>2, <1>5, <1>7 DEF Sound, OneHandleEach
  <2>5. QED
    BY <1>2, <1>5, <2>3, <2>4 DEF OneHandleEach
<1>13. Accounted'
  BY <1>1, <1>8 DEF Sound, Accounted
<1>14. NotYetOpened'
  BY <1>9 DEF NotYetOpened
<1>15. BusRight'
  <2>1. \A n \in Node, i \in 1 .. Len(q) : node[n].id = q[i].id => q[i].bus = node[n].bus
    BY <1>1 DEF Sound, BusRight
  <2>2. \A n \in Node, i \in 1 .. run'.count :
            node[n].id = run'.table[i].id => run'.table[i].bus = node[n].bus
    BY <1>2, <1>3, <1>5, <1>6, <2>1 DEF Sound, BusRight
  <2>3. QED
    BY <1>1, <1>2, <1>5, <2>1, <2>2 DEF BusRight
<1>16. NotMissed'
  BY <1>1, <1>5, <1>8, <1>9 DEF Sound, NotMissed
<1>17. QED
  BY <1>10, <1>11, <1>12, <1>13, <1>14, <1>15, <1>16 DEF Sound

\* Without memory for a handle its descriptor is closed.
LEMMA WrapFailsSound ==
    ASSUME TypeOK, Sound, WrapFails
    PROVE  Sound'
<1> DEFINE q == run.fds
           h == Head(q)
<1>1. /\ run.at = "wrap" /\ q # <<>> /\ q \in Seq(Handle) /\ UniqueIds(q) /\ run \in Run
      /\ run.count >= 0 /\ run.count \in -1 .. MaxDevices /\ run.count + Len(q) <= MaxDevices
      /\ UNCHANGED <<node, plugs, since>>
      /\ open' = open \ {h.id} /\ dropped' = dropped \cup {h.id}
      /\ run' = [run EXCEPT !.fds = Tail(q)]
  BY Fields DEF WrapFails, ClosedOnFailure, Sound, Stages, OneHandleEach, TypeOK, deviceVars
<1>2. /\ h = q[1] /\ h \in Handle /\ 1 \in 1 .. Len(q)
      /\ Tail(q) \in Seq(Handle) /\ Len(Tail(q)) = Len(q) - 1
      /\ \A i \in 1 .. Len(Tail(q)) : i + 1 \in 1 .. Len(q) /\ Tail(q)[i] = q[i + 1]
      /\ Ids(q) = Ids(Tail(q)) \cup {h.id}
      /\ h.id \notin Ids(Tail(q))
      /\ UniqueIds(Tail(q))
  BY <1>1, TailIds
<1>3. /\ run'.at = "wrap" /\ run'.fds = Tail(q) /\ run'.count = run.count
      /\ run'.mode = run.mode /\ run'.table = run.table
  BY <1>1 DEF Run
<1>4. h.id \in Ids(q) /\ h.id \in open /\ h.id \notin InTable(run) /\ InTable(run') = InTable(run)
  BY <1>2, <1>3 DEF Sound, OneHandleEach, Accounted, InTable
<1> HIDE DEF h
<1>5. Found' = Found
  BY <1>1, <1>2, <1>3, <1>4 DEF Found
<1>6. ~Scanning' /\ ~Ready'
  BY <1>3 DEF Scanning, Ready
<1>7. NodesApart'
  BY <1>1, <1>4 DEF Sound, NodesApart
<1>8. Stages'
  <2>1. run'.count >= 0 /\ run'.count + Len(run'.fds) <= MaxDevices
    BY <1>1, <1>2, <1>3, Sizes, LenProperties
  <2>2. QED
    BY <1>3, <1>6, <2>1 DEF Stages
<1>9. OneHandleEach'
  BY <1>2, <1>3, <1>4 DEF Sound, OneHandleEach
<1>10. Accounted'
  BY <1>1, <1>2, <1>3, <1>4 DEF Sound, Accounted
<1>11. NotYetOpened'
  BY <1>6 DEF NotYetOpened
<1>12. BusRight'
  BY <1>1, <1>2, <1>3 DEF Sound, BusRight
<1>13. NotMissed'
  BY <1>1, <1>3, <1>5, <1>6 DEF Sound, NotMissed
<1>14. QED
  BY <1>7, <1>8, <1>9, <1>10, <1>11, <1>12, <1>13 DEF Sound

-----------------------------------------------------------------------------
\* TypeOK is kept.

LEMMA PlugType ==
    ASSUME TypeOK, NEW n \in Node, NEW d \in Device, Plug(n, d)
    PROVE  TypeOK'
<1>1. node' \in [Node -> Device \cup {NoDevice}]
  BY DEF Plug, TypeOK
<1>2. plugs' \in 0 .. Plugs
  BY Fields DEF Plug
<1>3. QED
  BY <1>1, <1>2 DEF Plug, TypeOK, pathVars, histories

LEMMA UdevType ==
    ASSUME TypeOK, NEW n \in Node, Udev(n)
    PROVE  TypeOK'
<1>1. [node[n] EXCEPT !.allowed = TRUE] \in Device
  BY Fields, DeviceFields DEF Udev, Device
<1>2. node' \in [Node -> Device \cup {NoDevice}]
  BY <1>1 DEF Udev, TypeOK
<1>3. QED
  BY <1>2 DEF Udev, TypeOK, pathVars, histories

LEMMA UnplugType ==
    ASSUME TypeOK, NEW n \in Node, Unplug(n)
    PROVE  TypeOK'
<1>1. node' \in [Node -> Device \cup {NoDevice}] /\ since' \subseteq Node
  BY DEF Unplug, TypeOK
<1>2. QED
  BY <1>1 DEF Unplug, TypeOK, pathVars

LEMMA OtherDaemonType ==
    ASSUME TypeOK, NEW before, NEW after \in {"none", "foreign"}, OtherDaemon(before, after)
    PROVE  TypeOK'
BY DEF OtherDaemon, TypeOK, deviceVars, histories

LEMMA GotoType ==
    ASSUME TypeOK, NEW l \in Location, Goto(l)
    PROVE  run' \in Run /\ Len(run'.fds) <= MaxDevices
<1>1. run \in Run /\ run' = [run EXCEPT !.at = l]
  BY DEF TypeOK, Goto
<1>2. run' \in Run /\ run'.fds = run.fds
  BY <1>1 DEF Run
<1>3. QED
  BY <1>2 DEF TypeOK

LEMMA EndType ==
    ASSUME TypeOK, NEW how \in {"success", "failure", "killed"}, End(how)
    PROVE  /\ run' \in Run /\ Len(run'.fds) <= MaxDevices
           /\ open' = {} /\ since' = {} /\ dropped' = {}
<1>1. run.mode \in Mode
  BY Fields
<1> DEFINE r == NewRun(run.mode)
<1>2. r \in Run /\ Len(r.fds) = 0
  BY <1>1, NewRunFields
<1>3. run' = [r EXCEPT !.end = how]
  BY DEF End
<1> HIDE DEF r
<1>4. run' \in Run /\ run'.fds = r.fds
  BY <1>2, <1>3 DEF Run
<1>5. QED
  BY <1>2, <1>4, Sizes DEF End

LEMMA StartType ==
    ASSUME TypeOK, Start
    PROVE  TypeOK'
<1>1. run' \in Run /\ Len(run'.fds) <= MaxDevices
  <2>1. CASE run.mode = "path"
    <3>1. PICK n \in Node : run' = [NewRun("path") EXCEPT !.at = "open", !.cur = n]
      BY <2>1 DEF Start
    <3> DEFINE r == NewRun("path")
    <3>2. r \in Run /\ Len(r.fds) = 0
      BY NewRunFields DEF Mode
    <3> HIDE DEF r
    <3>3. run' \in Run /\ run'.fds = r.fds
      BY <3>1, <3>2 DEF Run, Location, r
    <3>4. QED
      BY <3>2, <3>3, Sizes
  <2>2. CASE run.mode # "path"
    <3> DEFINE r == NewRun(run.mode)
    <3>1. r \in Run /\ Len(r.fds) = 0
      BY NewRunFields, Fields
    <3>2. run' = [r EXCEPT !.at = "scan", !.listing = Node]
      BY <2>2 DEF Start
    <3> HIDE DEF r
    <3>3. run' \in Run /\ run'.fds = r.fds
      BY <3>1, <3>2 DEF Run, Location
    <3>4. QED
      BY <3>1, <3>3, Sizes
  <2>3. QED
    BY <2>1, <2>2
<1>2. since' \subseteq Node /\ dropped' = {}
  BY DEF Start
<1>3. QED
  BY <1>1, <1>2 DEF Start, TypeOK, deviceVars, pathVars

LEMMA NoClassType ==
    ASSUME TypeOK, NoClass
    PROVE  TypeOK'
<1>1. run \in Run /\ run' = [run EXCEPT !.at = "count", !.count = -1] /\ -1 \in -1 .. MaxDevices
  BY Sizes DEF TypeOK, NoClass
<1>2. run' \in Run /\ run'.fds = run.fds
  BY <1>1 DEF Run, Location
<1>3. QED
  BY <1>2 DEF NoClass, TypeOK, deviceVars, pathVars, histories

LEMMA LookType ==
    ASSUME TypeOK, NEW n \in Node, Look(n)
    PROVE  TypeOK'
<1>1. run \in Run /\ run.listing \ {n} \in SUBSET Node /\ node[n].bus \in Bus
  BY Fields DEF TypeOK
<1>2. run' \in Run /\ run'.fds = run.fds
  <2>1. CASE node[n].ours
    BY <1>1, <2>1 DEF Look, Run, Location
  <2>2. CASE ~node[n].ours
    BY <1>1, <2>2 DEF Look, Run
  <2>3. QED
    BY <2>1, <2>2
<1>3. QED
  BY <1>2 DEF Look, TypeOK, deviceVars, pathVars, histories

LEMMA OpenNodeType ==
    ASSUME TypeOK, Sound, OpenNode
    PROVE  TypeOK'
<1> DEFINE c == node[run.cur].id
           h == [Unset EXCEPT !.id = c]
<1>1. run \in Run /\ run.fds \in Seq(Handle) /\ Len(run.fds) < MaxDevices /\ Len(run.fds) \in Nat
  BY Fields DEF TypeOK, OpenNode, Sound, Stages
<1>2. CASE Openable(node[run.cur])
  <2>1. c \in Connection
    BY <1>2, Fields DEF Openable, Connection
  <2>2. h \in Handle
    BY <2>1 DEF Unset, Handle, Bus
  <2>3. run' = [run EXCEPT !.at = "detect", !.fds = Append(run.fds, h)] /\ open' = open \cup {c}
    BY <1>2 DEF OpenNode
  <2> HIDE DEF h, c
  <2>4. /\ Append(run.fds, h) \in Seq(Handle)
        /\ Len(Append(run.fds, h)) = Len(run.fds) + 1
    BY <1>1, <2>2, AppendIds
  <2>5. run' \in Run /\ run'.fds = Append(run.fds, h)
    BY <1>1, <2>3, <2>4 DEF Run, Location
  <2>6. Len(run'.fds) <= MaxDevices /\ open' \subseteq Connection
    BY <1>1, <2>1, <2>3, <2>4, <2>5, Sizes DEF TypeOK
  <2>7. QED
    BY <2>5, <2>6 DEF OpenNode, TypeOK, deviceVars, pathVars, histories
<1>3. CASE ~Openable(node[run.cur])
  <2>1. run' = [run EXCEPT !.at = "scan", !.listing = run.listing] /\ open' = open
    BY <1>3 DEF OpenNode, ListingAfterFailure
  <2>2. run' \in Run /\ run'.fds = run.fds
    BY <1>1, <2>1 DEF Run, Location
  <2>3. QED
    BY <2>1, <2>2 DEF OpenNode, TypeOK, deviceVars, pathVars, histories
<1>4. QED
  BY <1>2, <1>3

LEMMA DetectType ==
    ASSUME TypeOK, Sound, Detect
    PROVE  TypeOK'
<1> DEFINE q == run.fds
           k == Len(q)
           g == [q[k] EXCEPT !.bus = BusOf(run)]
           f == [q EXCEPT ![k] = g]
<1>1. /\ q # <<>> /\ q \in Seq(Handle) /\ run \in Run /\ k <= MaxDevices
      /\ run.cur \in Node /\ run.listing \subseteq Node
  BY Fields DEF Detect, Sound, Stages, TypeOK
<1>2. k \in 1 .. k /\ q[k] \in Handle
  BY <1>1, EmptySeq, LenProperties
<1>3. BusOf(run) \in Bus
  BY <1>1, Fields DEF BusOf, Bus
<1>4. g \in Handle
  BY <1>2, <1>3 DEF Handle
<1> HIDE DEF g
<1>5. f \in Seq(Handle) /\ Len(f) = k
  BY <1>1, <1>2, <1>4, ExceptSeq
<1>6. AnyNode \in Node /\ "usb" \in Bus /\ "scan" \in Location
  BY LifecycleAssumption DEF AnyNode, Bus, Location
<1>7. run' = [run EXCEPT !.at = "scan", !.fds = f,
                         !.listing = IF run.mode = "first" THEN {} ELSE run.listing,
                         !.cur = AnyNode, !.hint = "usb"]
  BY DEF Detect, g
<1> HIDE DEF f
<1>8. run' \in Run /\ run'.fds = f
  BY <1>1, <1>5, <1>6, <1>7 DEF Run
<1>9. QED
  BY <1>1, <1>5, <1>8 DEF Detect, TypeOK, deviceVars, pathVars, histories

LEMMA WrapType ==
    ASSUME TypeOK, Sound, Wrap
    PROVE  TypeOK'
<1> DEFINE q == run.fds
           h == Head(q)
           p == run.count + 1
           t == [run.table EXCEPT ![p] = h]
<1>1. /\ q # <<>> /\ q \in Seq(Handle) /\ UniqueIds(q) /\ run \in Run /\ Len(q) <= MaxDevices
      /\ run.count >= 0 /\ run.count \in -1 .. MaxDevices /\ run.count + Len(q) <= MaxDevices
      /\ run.table \in [1 .. MaxDevices -> Handle \cup {Unset}]
  BY Fields DEF Wrap, Sound, Stages, OneHandleEach, TypeOK
<1>2. h \in Handle /\ Tail(q) \in Seq(Handle) /\ Len(Tail(q)) = Len(q) - 1 /\ Len(q) \in Nat \ {0}
  BY <1>1, TailIds, EmptySeq, LenProperties
<1>3. p \in -1 .. MaxDevices /\ p \in 1 .. MaxDevices /\ Len(Tail(q)) <= MaxDevices
  BY <1>1, <1>2, Sizes
<1>4. t \in [1 .. MaxDevices -> Handle \cup {Unset}]
  BY <1>1, <1>2, <1>3
<1>5. run' = [run EXCEPT !.fds = Tail(q), !.count = p, !.table = t]
  BY DEF Wrap, Place
<1> HIDE DEF h, p, t
<1>6. run' \in Run /\ run'.fds = Tail(q)
  BY <1>1, <1>2, <1>3, <1>4, <1>5 DEF Run
<1>7. QED
  BY <1>3, <1>6 DEF Wrap, TypeOK, deviceVars, pathVars, histories

LEMMA WrapFailsType ==
    ASSUME TypeOK, Sound, WrapFails
    PROVE  TypeOK'
<1> DEFINE q == run.fds
<1>1. q # <<>> /\ q \in Seq(Handle) /\ UniqueIds(q) /\ run \in Run /\ Len(q) <= MaxDevices
  BY Fields DEF WrapFails, Sound, OneHandleEach, TypeOK
<1>2. /\ Head(q) \in Handle /\ Tail(q) \in Seq(Handle) /\ Len(Tail(q)) = Len(q) - 1
      /\ Len(q) \in Nat \ {0}
  BY <1>1, TailIds, EmptySeq, LenProperties
<1>3. run' = [run EXCEPT !.fds = Tail(q)]
  BY DEF WrapFails
<1>4. run' \in Run /\ run'.fds = Tail(q)
  BY <1>1, <1>2, <1>3 DEF Run
<1>5. Len(Tail(q)) <= MaxDevices
  BY <1>1, <1>2, Sizes
<1>6. left' \in [kills: 0 .. Kills, failures: 0 .. AllocFailures]
  BY Sizes DEF WrapFails, TypeOK
<1>7. open' \subseteq Connection /\ dropped' \subseteq Connection
  BY <1>2 DEF WrapFails, TypeOK, ClosedOnFailure, Handle
<1>8. QED
  BY <1>4, <1>5, <1>6, <1>7 DEF WrapFails, TypeOK, deviceVars, pathVars

-----------------------------------------------------------------------------
\* Every step, and the theorems.

LEMMA InitSound == Init => IInv
<1> SUFFICES ASSUME Init PROVE IInv
  OBVIOUS
<1>1. PICK m \in Mode : run = NewRun(m)
  BY DEF Init
<1>2. /\ run \in Run /\ run.at = "down" /\ run.fds = <<>> /\ Len(run.fds) = 0 /\ run.count = 0
      /\ 1 .. run.count = {} /\ 1 .. Len(run.fds) = {}
  BY <1>1, NewRunFields
<1>3. \A n \in Node : node[n] = NoDevice /\ node[n].id = 0
  BY DEF Init, NoDevice
<1>4. TypeOK
  <2>1. left \in [kills: 0 .. Kills, failures: 0 .. AllocFailures]
    BY Sizes DEF Init
  <2>2. plugs \in 0 .. Plugs /\ node \in [Node -> Device \cup {NoDevice}]
    BY Sizes DEF Init
  <2>3. Len(run.fds) <= MaxDevices
    BY <1>2, Sizes
  <2>4. /\ path \in {"none", "ours", "foreign"} /\ disturbed \in BOOLEAN
        /\ open \subseteq Connection /\ since \subseteq Node /\ dropped \subseteq Connection
    BY DEF Init
  <2>5. QED
    BY <1>2, <2>1, <2>2, <2>3, <2>4 DEF TypeOK
<1>5. Ids(run.fds) = {} /\ InTable(run) = {} /\ ~Scanning /\ ~Ready
  BY <1>2, NoIds DEF InTable, Scanning, Ready
<1>6. NodesApart
  BY <1>3 DEF NodesApart, Init
<1>7. Stages
  BY <1>2, <1>5, Sizes DEF Stages, Init
<1>8. OneHandleEach /\ Accounted /\ NotYetOpened /\ BusRight /\ NotMissed
  BY <1>2, <1>5 DEF OneHandleEach, UniqueIds, Accounted, NotYetOpened, BusRight, NotMissed, Init
<1>9. QED
  BY <1>4, <1>6, <1>7, <1>8 DEF IInv, Sound

\* The steps of the program.
LEMMA ProgramIInv == IInv /\ Program => IInv'
<1> SUFFICES ASSUME TypeOK, Sound, Program PROVE TypeOK' /\ Sound'
  BY DEF IInv
<1>1. CASE NoClass
  BY <1>1, NoClassSound, NoClassType
<1>2. CASE \E n \in Node : Look(n)
  BY <1>2, LookSound, LookType
<1>3. CASE OpenNode
  BY <1>3, OpenNodeSound, OpenNodeType
<1>4. CASE Detect
  BY <1>4, DetectSound, DetectType
<1>5. CASE EndScan
  <2>1. TypeOK'
    BY <1>5, GotoType DEF EndScan, TypeOK, Location, deviceVars, pathVars, histories
  <2>2. QED
    BY <1>5, <2>1, EndScanSound
<1>6. CASE Wrap
  BY <1>6, WrapSound, WrapType
<1>7. CASE WrapFails
  BY <1>7, WrapFailsSound, WrapFailsType
<1>8. CASE Wrapped
  <2>1. TypeOK'
    BY <1>8, GotoType DEF Wrapped, TypeOK, Location, deviceVars, pathVars, histories
  <2>2. Sound'
    BY <1>8, OnwardSound DEF Wrapped, Location, deviceVars, histories
  <2>3. QED
    BY <2>1, <2>2
<1>9. CASE GoOn
  <2> DEFINE l == IF run.mode = "first" THEN "use" ELSE "unlink"
  <2>1. l \in Location /\ l \in {"count", "unlink", "bind", "listen", "serve", "use"} /\ Goto(l)
    BY <1>9 DEF GoOn, Location
  <2> HIDE DEF l
  <2>2. TypeOK'
    BY <1>9, <2>1, GotoType DEF GoOn, TypeOK, deviceVars, pathVars, histories
  <2>3. Sound'
    BY <1>9, <2>1, OnwardSound DEF GoOn, Ready, deviceVars, histories
  <2>4. QED
    BY <2>2, <2>3
<1>10. CASE Unlink
  <2>1. TypeOK'
    BY <1>10, GotoType DEF Unlink, PathBeforeBind, TypeOK, Location, deviceVars, histories
  <2>2. Sound'
    BY <1>10, OnwardSound DEF Unlink, Location, Ready, deviceVars, histories
  <2>3. QED
    BY <2>1, <2>2
<1>11. CASE Bind
  <2>1. TypeOK'
    BY <1>11, GotoType DEF Bind, TypeOK, Location, deviceVars, histories
  <2>2. Sound'
    BY <1>11, OnwardSound DEF Bind, Location, Ready, deviceVars, histories
  <2>3. QED
    BY <2>1, <2>2
<1>12. CASE Listen
  <2>1. TypeOK'
    BY <1>12, GotoType DEF Listen, TypeOK, Location, deviceVars, pathVars, histories
  <2>2. Sound'
    BY <1>12, OnwardSound DEF Listen, Location, Ready, deviceVars, histories
  <2>3. QED
    BY <2>1, <2>2
<1>13. CASE GiveUp \/ BindFails \/ Shutdown \/ UseAndClose
  <2>1. PICK how \in {"success", "failure"} : End(how)
    BY <1>13 DEF GiveUp, BindFails, Shutdown, UseAndClose
  <2>2. UNCHANGED <<node, plugs, disturbed, left>> /\ path' \in {path, "none"}
    BY <1>13 DEF GiveUp, BindFails, Shutdown, UseAndClose, deviceVars, pathVars
  <2>3. TypeOK'
    BY <2>1, <2>2, EndType DEF TypeOK
  <2>4. Sound'
    BY <2>1, <2>2, EndSound DEF deviceVars
  <2>5. QED
    BY <2>3, <2>4
<1>14. QED
  BY <1>1, <1>2, <1>3, <1>4, <1>5, <1>6, <1>7, <1>8, <1>9, <1>10, <1>11, <1>12, <1>13 DEF Program

\* The steps of devices, other daemons, the user and whatever kills the program.
LEMMA EnvironmentIInv == IInv /\ Environment => IInv'
<1> SUFFICES ASSUME TypeOK, Sound, Environment PROVE TypeOK' /\ Sound'
  BY DEF IInv
<1>1. CASE \E n \in Node, d \in Device : Plug(n, d)
  BY <1>1, PlugSound, PlugType
<1>2. CASE \E n \in Node : Udev(n) \/ Unplug(n)
  BY <1>2, UdevSound, UdevType, UnplugSound, UnplugType
<1>3. CASE OtherDaemon({"ours", "foreign"}, "none")
  BY <1>3, OtherDaemonSound, OtherDaemonType
<1>4. CASE OtherDaemon({"none"}, "foreign")
  BY <1>4, OtherDaemonSound, OtherDaemonType
<1>5. CASE Signal
  <2>1. run \in Run /\ run' = [run EXCEPT !.told = TRUE]
    BY <1>5 DEF Signal, TypeOK
  <2>2. run' \in Run /\ run'.fds = run.fds
    BY <2>1 DEF Run
  <2>3. TypeOK'
    BY <1>5, <2>2 DEF Signal, TypeOK, deviceVars, pathVars, histories
  <2>4. QED
    BY <1>5, <2>3, SignalSound
<1>6. CASE Kill
  <2>1. End("killed") /\ UNCHANGED <<node, plugs, disturbed>>
    BY <1>6 DEF Kill, deviceVars
  <2>2. left' \in [kills: 0 .. Kills, failures: 0 .. AllocFailures] /\ path' \in {"none", "ours", "foreign"}
    BY <1>6, Sizes DEF Kill, TypeOK
  <2>3. TypeOK'
    BY <2>1, <2>2, EndType DEF TypeOK
  <2>4. QED
    BY <2>1, <2>3, EndSound DEF deviceVars
<1>7. QED
  BY <1>1, <1>2, <1>3, <1>4, <1>5, <1>6 DEF Environment

\* The inductive invariant holds in every state.
THEOREM InvariantCorrect == Spec => []IInv
<1>1. Init => IInv
  BY InitSound
<1>2. IInv /\ [Next]_vars => IInv'
  <2> SUFFICES ASSUME IInv, [Next]_vars PROVE IInv'
    OBVIOUS
  <2>1. CASE Start
    BY <2>1, StartSound, StartType DEF IInv
  <2>2. CASE Program
    BY <2>2, ProgramIInv
  <2>3. CASE Environment
    BY <2>3, EnvironmentIInv
  <2>4. CASE UNCHANGED vars
    <3>1. UNCHANGED <<node, plugs, path, disturbed, run, open, left, since, dropped>>
      BY <2>4 DEF vars, deviceVars, pathVars, histories
    <3>2. TypeOK'
      BY <3>1 DEF IInv, TypeOK
    <3>3. Sound'
      BY <3>1, Quiet DEF IInv
    <3>4. QED
      BY <3>2, <3>3 DEF IInv
  <2>5. QED
    BY <2>1, <2>2, <2>3, <2>4 DEF Next
<1>3. QED
  BY <1>1, <1>2, PTL DEF Spec

\* Every variable keeps to its values; the count of ds_open_all stays within the
\* table it is given.
THEOREM TypeCorrect == Spec => []TypeOK
<1>1. IInv => TypeOK
  BY DEF IInv
<1>2. QED
  BY <1>1, InvariantCorrect, PTL

\* After the scan the handles of the table are those of the descriptors.
LEMMA OpenedIds ==
    ASSUME IInv, Ready
    PROVE  /\ {h.id : h \in Opened} = InTable(run) /\ open = InTable(run)
           /\ Found = InTable(run) \cup dropped
<1>1. {h.id : h \in Opened} = InTable(run)
  BY DEF Opened, InTable
<1>2. Ids(run.fds) = {}
  BY NoIds DEF IInv, Sound, Stages
<1>3. QED
  BY <1>1, <1>2 DEF IInv, Sound, Accounted, Found

\* Whatever allocations fail, whatever devices do and however many times the
\* program is started: after the scan its descriptors and the handles of its
\* table are one to one.
THEOREM NoDescriptorLostCorrect == Spec => []NoDescriptorLost
<1>1. IInv => NoDescriptorLost
  <2> SUFFICES ASSUME IInv, Ready
               PROVE  open = {h.id : h \in Opened} /\ run.count <= Cardinality(open)
    BY DEF NoDescriptorLost
  <2>1. {h.id : h \in Opened} = InTable(run) /\ open = InTable(run)
    BY OpenedIds
  <2>2. run.count \in -1 .. MaxDevices /\ MaxDevices \in Nat
    BY Fields DEF IInv
  <2>3. CASE run.count >= 0
    <3> DEFINE f == [i \in 1 .. run.count |-> run.table[i].id]
    <3>1. /\ f \in [1 .. run.count -> open]
          /\ \A i, j \in 1 .. run.count : f[i] = f[j] => i = j
          /\ \A t \in open : \E i \in 1 .. run.count : f[i] = t
      BY <2>1 DEF InTable, IInv, Sound, OneHandleEach
    <3>2. run.count \in Nat
      BY <2>2, <2>3
    <3> HIDE DEF f
    <3>3. Cardinality(open) = run.count
      BY <3>1, <3>2, CountImage
    <3>4. QED
      BY <2>1, <3>2, <3>3
  <2>4. CASE run.count < 0
    <3>1. 1 .. run.count = {}
      BY <2>2, <2>4
    <3>2. open = {}
      BY <2>1, <3>1 DEF InTable
    <3>3. Cardinality(open) = 0
      BY <3>2, FS_EmptySet
    <3>4. QED
      BY <2>1, <2>2, <2>4, <3>3
  <2>5. QED
    BY <2>2, <2>3, <2>4
<1>2. QED
  BY <1>1, InvariantCorrect, PTL

\* The bus a handle was opened with, which decides the format of every report
\* sent through it, is that of the device its descriptor is of, for as long as
\* that device is there.
THEOREM BusIsOfDescriptorCorrect == Spec => []BusIsOfDescriptor
<1>1. IInv => BusIsOfDescriptor
  BY DEF IInv, Sound, BusRight, BusIsOfDescriptor, Opened
<1>2. QED
  BY <1>1, InvariantCorrect, PTL

\* The scan finds every controller that stayed there and the user's from its
\* start to its end, unless the table is full or memory ran out, and opens
\* nothing else that stayed.
THEOREM FindsWhatStayedCorrect == Spec => []FindsWhatStayed
<1>1. IInv => FindsWhatStayed
  <2> SUFFICES ASSUME IInv, Ready, run.count >= 0, run.mode # "path" PROVE FindsWhatStayed
    BY DEF FindsWhatStayed
  <2> DEFINE found == {h.id : h \in Opened} \cup dropped
             there == {node[n].id : n \in {n \in since : node[n].ours}}
  <2>1. found = Found
    BY OpenedIds
  <2> HIDE DEF found
  <2>2. \A n \in since : node[n].id \in found => node[n].ours
    BY <2>1 DEF IInv, Sound, NotMissed
  <2>3. run.mode = "all" => there \subseteq found \/ Cardinality(found) = MaxDevices
    BY <2>1 DEF IInv, Sound, NotMissed
  <2>4. run.mode = "first" /\ there # {} => found # {}
    BY <2>1 DEF IInv, Sound, NotMissed
  <2>5. QED
    BY <2>2, <2>3, <2>4 DEF FindsWhatStayed, found
<1>2. QED
  BY <1>1, InvariantCorrect, PTL
=============================================================================
