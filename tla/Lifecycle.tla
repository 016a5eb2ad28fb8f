------------------------------- MODULE Lifecycle -------------------------------
(***************************************************************************)
(* One program from its start to its end, again and again: which           *)
(* controllers it finds (src/hidraw.c, ds_open and ds_open_all), and how   *)
(* a daemon takes and leaves the path of its Unix socket                   *)
(* (daemon/dualsensed.c main), while hidraw nodes come, go and change      *)
(* hands, another instance takes and removes the path, the program is      *)
(* killed, and the service unit restarts it.                               *)
(*                                                                         *)
(* Node names are used again by the next device, so a descriptor belongs   *)
(* to a connection: the number of the plug it was opened on.  What happens *)
(* between start and end is the subject of module Daemon.                  *)
(***************************************************************************)
EXTENDS Integers, Sequences, FiniteSets

CONSTANTS
    Node,           \* names under /sys/class/hidraw, the same under /dev
    MaxDevices,     \* entries of a daemon's table (MAX_DEVICES, 4)
    Plugs,          \* bound: connections of any device over time
    Kills,          \* bound: how often the program is killed
    AllocFailures   \* bound: calls of calloc() that fail

ASSUME LifecycleAssumption ==
    /\ Node # {}
    /\ {MaxDevices, Plugs} \subseteq Nat \ {0}
    /\ {Kills, AllocFailures} \subseteq Nat

VARIABLES
    node,           \* the device a node name stands for, if any
    plugs,          \* connections so far
    path,           \* the socket the path names: none, the program's, or one of
                    \* another or a dead process
    disturbed,      \* whether another daemon has touched the path
    run,            \* where the program is and its local variables
    open,           \* connections it has a descriptor of
    left,           \* what is left of the bounds Kills and AllocFailures
    since,          \* history: nodes whose device has been there, and the
                    \* user's, since the program started
    dropped         \* history: descriptors it gave up because calloc failed

deviceVars == <<node, plugs>>
pathVars == <<path, disturbed>>
histories == <<since, dropped>>
vars == <<deviceVars, pathVars, run, open, left, histories>>

Bus == {"usb", "bt"}
Connection == 1 .. Plugs
\* allowed: udev has given the node to the user.  Which bus a device other than
\* a DualSense is on plays no part.
Device == [id: Connection, ours: {TRUE}, bus: Bus, allowed: BOOLEAN]
    \cup [id: Connection, ours: {FALSE}, bus: {"usb"}, allowed: BOOLEAN]
NoDevice == [id |-> 0, ours |-> FALSE, bus |-> "usb", allowed |-> FALSE]

Handle == [id: Connection, bus: Bus]
\* An element of devices[] before anything is stored in it.
Unset == [id |-> 0, bus |-> "usb"]

\* How a program opens controllers: the daemon all of them, or the one it is
\* given a path of; dsctl and the haptics tool the first.
Mode == {"all", "path", "first"}
Location == {"down", "scan", "open", "detect", "wrap", "count",
             "unlink", "bind", "listen", "serve", "use"}
Run == [at: Location, mode: Mode, listing: SUBSET Node, cur: Node, hint: Bus,
        fds: Seq(Handle), table: [1 .. MaxDevices -> Handle \cup {Unset}],
        count: -1 .. MaxDevices, told: BOOLEAN,
        end: {"none", "success", "failure", "killed"}]

TypeOK ==
    /\ node \in [Node -> Device \cup {NoDevice}] /\ plugs \in 0 .. Plugs
    /\ path \in {"none", "ours", "foreign"} /\ disturbed \in BOOLEAN
    /\ run \in Run /\ Len(run.fds) <= MaxDevices
    /\ open \subseteq Connection
    /\ left \in [kills: 0 .. Kills, failures: 0 .. AllocFailures]
    /\ since \subseteq Node /\ dropped \subseteq Connection

AnyNode == CHOOSE n \in Node : TRUE
NewRun(mode) ==
    [at |-> "down", mode |-> mode, listing |-> {}, cur |-> AnyNode, hint |-> "usb",
     fds |-> <<>>, table |-> [i \in 1 .. MaxDevices |-> Unset],
     count |-> 0, told |-> FALSE, end |-> "none"]

\* A daemon may have been killed before: then the path is there.
Init ==
    /\ node = [n \in Node |-> NoDevice] /\ plugs = 0
    /\ path \in {"none", "foreign"} /\ disturbed = FALSE
    /\ run \in {NewRun(mode) : mode \in Mode}
    /\ open = {}
    /\ left = [kills |-> Kills, failures |-> AllocFailures]
    /\ since = {} /\ dropped = {}

-----------------------------------------------------------------------------
\* Devices and other daemons.

\* Any device may take any free node name.
Plug(n, d) ==
    /\ node[n] = NoDevice
    /\ plugs < Plugs /\ plugs' = plugs + 1
    /\ d.id = plugs' /\ ~d.allowed
    /\ node' = [node EXCEPT ![n] = d]
    /\ UNCHANGED <<pathVars, run, open, left, histories>>

\* The node is the user's only when udev has applied udev/99-dualsense.rules,
\* or those another package has for other devices.
Udev(n) ==
    /\ node[n] # NoDevice /\ ~node[n].allowed
    /\ node' = [node EXCEPT ![n].allowed = TRUE]
    /\ UNCHANGED <<plugs, pathVars, run, open, left, histories>>

Unplug(n) ==
    /\ node[n] # NoDevice
    /\ node' = [node EXCEPT ![n] = NoDevice]
    /\ since' = since \ {n}
    /\ UNCHANGED <<plugs, pathVars, run, open, left, dropped>>

\* Another daemon unlinks the path when it starts and when it ends, and binds
\* it.  Until the program unlinks the path itself, that leaves no trace.
OtherDaemon(before, after) ==
    /\ run.at \in {"bind", "listen", "serve"}
    /\ path \in before
    /\ path' = after /\ disturbed' = TRUE
    /\ UNCHANGED <<deviceVars, run, open, left, histories>>

-----------------------------------------------------------------------------
\* Finding and opening controllers.

Up == run.at # "down"
Goto(l) == run' = [run EXCEPT !.at = l]

\* main up to opendir() or, for a given path, up to open().  The service unit
\* says Restart=on-failure, and exit status 0 is not a failure; a tool is run
\* whenever the user likes.
Start ==
    /\ ~Up
    /\ run.end # "success" \/ run.mode = "first"
    /\ IF run.mode = "path"
       THEN \E n \in Node :
                run' = [NewRun("path") EXCEPT !.at = "open", !.cur = n]
       ELSE run' = [NewRun(run.mode) EXCEPT !.at = "scan", !.listing = Node]
    /\ since' = {n \in Node : node[n].allowed} /\ dropped' = {}
    /\ UNCHANGED <<deviceVars, pathVars, open, left>>

\* opendir() failing, without the class or without descriptors: a negative count.
NoClass ==
    /\ run.at = "scan" /\ run.listing = Node /\ run.fds = <<>>
    /\ run' = [run EXCEPT !.at = "count", !.count = -1]
    /\ UNCHANGED <<deviceVars, pathVars, open, left, histories>>

\* readdir(), parse_hid_id and is_dualsense.  A name is met once; whether the
\* directory still or already has it shows when it is looked at.
Look(n) ==
    /\ run.at = "scan" /\ n \in run.listing /\ Len(run.fds) < MaxDevices
    /\ run' = IF node[n].ours
              THEN [run EXCEPT !.listing = @ \ {n}, !.at = "open", !.cur = n,
                               !.hint = node[n].bus]
              ELSE [run EXCEPT !.listing = @ \ {n}]
    /\ UNCHANGED <<deviceVars, pathVars, open, left, histories>>

OpenableUnchecked(d) == TRUE
Openable(d) == d.allowed
\* open(): whatever the name stands for by now; a failure goes on with the scan.
ListingAfterFailureGiveUp(r) == {}
ListingAfterFailure(r) == r.listing
OpenNode ==
    /\ run.at = "open"
    /\ IF ~Openable(node[run.cur])
       THEN /\ run' = [run EXCEPT !.at = "scan", !.listing = ListingAfterFailure(run)]
            /\ UNCHANGED open
       ELSE /\ run' = [run EXCEPT !.at = "detect",
                                  !.fds = Append(@, [Unset EXCEPT !.id = node[run.cur].id])]
            /\ open' = open \cup {node[run.cur].id}
    /\ UNCHANGED <<deviceVars, pathVars, left, histories>>

\* detect_connection asks the descriptor; a device that has left counts as USB.
BusFromUevent(r) == r.hint
BusOf(r) ==
    LET d == node[r.cur]
    IN  IF d.id = r.fds[Len(r.fds)].id THEN d.bus ELSE "usb"
Detect ==
    /\ run.at = "detect"
    /\ run' = [run EXCEPT !.at = "scan",
                          !.fds[Len(run.fds)].bus = BusOf(run),
                          !.listing = IF run.mode = "first" THEN {} ELSE @,
                          !.cur = AnyNode, !.hint = "usb"]
    /\ UNCHANGED <<deviceVars, pathVars, open, left, histories>>

EndScan ==
    /\ run.at = "scan"
    /\ run.listing = {} \/ Len(run.fds) = MaxDevices
    /\ Goto("wrap")
    /\ UNCHANGED <<deviceVars, pathVars, open, left, histories>>

\* One turn of the loop of ds_open_all, or the rest of ds_open.  The table is
\* filled without gaps; a handle that cannot be had costs its descriptor.
Place(r) == r.count + 1
ClosedOnFailureLeak(h) == {}
ClosedOnFailure(h) == {h.id}

Wrap ==
    /\ run.at = "wrap" /\ run.fds # <<>>
    /\ run' = [run EXCEPT !.fds = Tail(@), !.count = @ + 1, !.table[Place(run)] = Head(run.fds)]
    /\ UNCHANGED <<deviceVars, pathVars, open, left, histories>>

WrapFails ==
    /\ run.at = "wrap" /\ run.fds # <<>>
    /\ left.failures > 0 /\ left' = [left EXCEPT !.failures = @ - 1]
    /\ run' = [run EXCEPT !.fds = Tail(@)]
    /\ open' = open \ ClosedOnFailure(Head(run.fds))
    /\ dropped' = dropped \cup {Head(run.fds).id}
    /\ UNCHANGED <<deviceVars, pathVars, since>>

Wrapped ==
    /\ run.at = "wrap" /\ run.fds = <<>>
    /\ Goto("count")
    /\ UNCHANGED <<deviceVars, pathVars, open, left, histories>>

-----------------------------------------------------------------------------
\* The socket's path, and the end.

\* The kernel closes what the program has open.
End(how) ==
    /\ run' = [NewRun(run.mode) EXCEPT !.end = how]
    /\ open' = {} /\ since' = {} /\ dropped' = {}

\* "No DualSense controllers found" or "Failed to open": ndevices == 0 in the
\* daemon, which a negative count is not; NULL in the tools.
NoneFound(r) == IF r.mode = "all" THEN r.count = 0 ELSE r.count <= 0
GiveUp ==
    /\ run.at = "count" /\ NoneFound(run)
    /\ End("failure")
    /\ UNCHANGED <<deviceVars, pathVars, left>>
GoOn ==
    /\ run.at = "count" /\ ~NoneFound(run)
    /\ Goto(IF run.mode = "first" THEN "use" ELSE "unlink")
    /\ UNCHANGED <<deviceVars, pathVars, open, left, histories>>

PathBeforeBindKept == path
PathBeforeBind == "none"
Unlink ==
    /\ run.at = "unlink"
    /\ path' = PathBeforeBind
    /\ Goto("bind")
    /\ UNCHANGED <<deviceVars, disturbed, open, left, histories>>

Bind ==
    /\ run.at = "bind" /\ path = "none"
    /\ path' = "ours"
    /\ Goto("listen")
    /\ UNCHANGED <<deviceVars, disturbed, open, left, histories>>

\* goto cleanup_devices, which returns 0
BindFails ==
    /\ run.at = "bind" /\ path # "none"
    /\ End("success")
    /\ UNCHANGED <<deviceVars, pathVars, left>>

Listen ==
    /\ run.at = "listen"
    /\ Goto("serve")
    /\ UNCHANGED <<deviceVars, pathVars, open, left, histories>>

\* sig_handler, installed by the daemon only
Signal ==
    /\ Up /\ run.mode # "first" /\ ~run.told
    /\ run' = [run EXCEPT !.told = TRUE]
    /\ UNCHANGED <<deviceVars, pathVars, open, left, histories>>

\* The loop has seen g_running: whoever owns the path by now, it is removed.
Shutdown ==
    /\ run.at = "serve" /\ run.told
    /\ End("success")
    /\ path' = "none"
    /\ UNCHANGED <<deviceVars, disturbed, left>>

\* A tool sends its report, or fails to, and ends.
UseAndClose ==
    /\ run.at = "use"
    /\ \E how \in {"success", "failure"} : End(how)
    /\ UNCHANGED <<deviceVars, pathVars, left>>

\* The path of a daemon that is killed stays.
Kill ==
    /\ Up
    /\ left.kills > 0 /\ left' = [left EXCEPT !.kills = @ - 1]
    /\ End("killed")
    /\ path' = IF path = "ours" THEN "foreign" ELSE path
    /\ UNCHANGED <<deviceVars, disturbed>>

Program ==
    \/ NoClass \/ (\E n \in Node : Look(n)) \/ OpenNode \/ Detect \/ EndScan
    \/ Wrap \/ WrapFails \/ Wrapped \/ GiveUp \/ GoOn
    \/ Unlink \/ Bind \/ BindFails \/ Listen \/ Shutdown \/ UseAndClose

Environment ==
    \/ \E n \in Node, d \in Device : Plug(n, d)
    \/ \E n \in Node : Udev(n) \/ Unplug(n)
    \/ OtherDaemon({"ours", "foreign"}, "none")
    \/ OtherDaemon({"none"}, "foreign")
    \/ Signal \/ Kill

Next == Start \/ Program \/ Environment

\* The program runs on, systemd restarts it, udev handles each node.
Fairness ==
    /\ WF_vars(Start) /\ WF_vars(Program)
    /\ \A n \in Node : WF_vars(Udev(n))

Spec == Init /\ [][Next]_vars /\ Fairness

-----------------------------------------------------------------------------
Ready == run.at \in {"count", "unlink", "bind", "listen", "serve", "use"}
\* The first ndevices elements of devices[].
Opened == {run.table[i] : i \in 1 .. run.count}

\* A descriptor the program keeps has one handle within the table's count, and
\* every handle its descriptor: nothing is leaked and nothing left unset,
\* whichever allocations fail.
NoDescriptorLost ==
    Ready => /\ open = {h.id : h \in Opened}
             /\ run.count <= Cardinality(open)

\* The bus of a handle, which decides the format of its reports, is that of the
\* device behind its descriptor, although the node may have changed hands
\* between the scan and open(); only a device that has left may be taken for
\* one on the other bus.
BusIsOfDescriptor ==
    Ready => \A h \in Opened, n \in Node :
                h.id # 0 /\ node[n].id = h.id => h.bus = node[n].bus

\* A scan misses no controller that was there and allowed all the time, other
\* nodes coming, going and failing to open notwithstanding, unless its table is
\* full or memory ran out; and it opens no other device that was there all the
\* time.
FindsWhatStayed ==
    Ready /\ run.count >= 0 /\ run.mode # "path" =>
        LET found == {h.id : h \in Opened} \cup dropped
            there == {node[n].id : n \in {n \in since : node[n].ours}}
        IN  /\ \A n \in since : node[n].id \in found => node[n].ours
            /\ run.mode = "all" => there \subseteq found \/ Cardinality(found) = MaxDevices
            /\ run.mode = "first" /\ there # {} => found # {}

\* A daemon that serves has a controller: devices[0], which both protocols fall
\* back on for an index out of range, is a handle.  What ds_open_all promises,
\* 0 if no controller was found, would make it true.
FirstHandleThere == run.at = "serve" => run.table[1] # Unset

Reachable == run.at = "serve" /\ path = "ours"

\* With a controller that stays connected, the service ends up serving at its
\* path for good: after being killed, which leaves a file there that main removes
\* (HOW_TO_TEST.md:309 says that it keeps the daemon down), and after starts that
\* found no controller or none that udev had handled yet.  It needs that no other
\* instance touches the path and that nobody tells it to stop.
ServiceComesUp ==
    [](run.mode = "all" /\ ~disturbed /\ ~run.told) /\ <>[](\E n \in Node : node[n].ours)
        => <>[]Reachable
=============================================================================
