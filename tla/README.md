# dslinux: specification and proofs

TLA+ models of libdualsense (`src/src`, `src/include`), the daemon `dualsensed`
(`src/daemon`) and the programs around it, with TLC runs and TLAPS proofs. Paths
below are relative to the repository.

Run a model with `tlc -config MCDevice.cfg MCDevice.tla`, check proofs
with `tlapm DeviceProofs.tla`. `PROJECT.json` lists the runs, the mutation that
shows each property can fail, and the source lines of every definition.

## 1. Inventory

| Component | Source | State | Operations | Talks to |
|---|---|---|---|---|
| Output handle | `src/src/dualsense.c` | `struct ds_device`: descriptor, bus, sequence tag, six staged output groups, six dirty flags | `ds_open`, `ds_open_all`, `ds_close`, setters, `ds_trigger_*`, `ds_send`, `ds_read_input` | hidraw node (write/read) |
| Trigger effects | `src/src/triggers.c` | none (11 bytes of a handle) | `ds_effect_*` | called by the handle |
| Report layout, CRC | `dualsense.c`, `src/src/crc32.c` | none | byte offsets, table-driven CRC, bitwise CRC of `haptics.c` | called by `ds_send`, `haptics_tick` |
| Input parser | `src/src/input.c` | none | `ds_input_parse` | called by `ds_read_input` |
| Discovery | `src/src/hidraw.c` | none | scan of `/sys/class/hidraw`, open, bus type | kernel |
| Haptics stream | `src/src/haptics.c` | `g_haptics`, `struct ds_haptics`: running flag, timer, report, ring with head/tail/avail under a mutex | `ds_haptics_start/stop/write`, signal handler `haptics_tick` | POSIX timer, hidraw node |
| Daemon loop | `src/daemon/dualsensed.c` | pollfd table, `nfds`, `dsx_active`, `last_dsx_msg`, `g_running`, handles | poll loop, accept, UDP receive, client read, timer, shutdown | Unix socket clients, DSX mods, signals |
| Native protocol | `src/daemon/native_protocol.c`, `json_parse.c` | none (the handles) | one JSON command per line, one reply | handles, client socket |
| DSX protocol | `src/daemon/dsx_protocol.c` | none (the handles) | instruction packets, reset, status response | handles, UDP socket |
| dsctl, haptics tool, audio probe | `src/cli` | a handle or a stream | open, one setter, send, close | library |
| GUI | `src/gui/dualsense-gui.py` | widgets | one connection per command, battery reader | daemon socket, sysfs |
| Python bindings | `src/bindings/python/dualsense.py` | a handle | forwards to the library | library |
| udev rule, service unit | `src/udev`, `src/daemon/dualsensed.service` | | permissions of a node, restart on failure | udev, systemd |
| Packaging, scripts, profiles | `src/scripts`, `src/profiles` | | | |

What is hard in them, and what makes each correct:

* **Output handle.** Writes fail, fall short or fail after the report got
  through; several processes share a controller; a controller leaves and comes
  back as another node. Correct when no change is forgotten, a send touches only
  the groups its handle changed, and the Bluetooth tag never skips.
* **Trigger effects.** Packing across byte boundaries, off-by-one ranges,
  rounding. Correct when the controller reads what was asked for.
* **Daemon loop.** One thread with blocking calls between many peers, a slot
  table of which `poll()` sees a prefix, a timer looked at once per turn.
  Correct when each line is answered once, no client is left out, effects end
  and a signal ends the daemon.
* **Protocols.** Two protocols and another process write to the same groups,
  sends fail in between. Correct when what was validly asked is shown or still
  due, and success is only reported for what the controller shows.
* **Haptics.** A signal handler in the middle of library calls, on any thread,
  sharing a mutex, a global pointer and a report buffer. Correct when calls
  return, no tick uses a freed stream, and the ring loses only its oldest bytes.

* **Discovery and start-up.** Node names change hands between `readdir()`,
  `open()` and the query of the bus; udev makes a node the user's later than the
  kernel shows it; allocations fail half-way; two daemons want one path; a killed
  one leaves it behind. Correct when no controller that stays is missed, each
  descriptor ends up in one handle of the right bus, and the service comes up.
* **Conversions.** Two tables of offsets, two CRC routines with two seeds, three
  front ends for the same calls, bit fields read by mask in another language, and
  JSON searched instead of parsed. Correct when the other end reads back what was
  put in.

The list of hazards with their lines, and the properties aimed at each, is in
`PROJECT.json`.

## 2. Modules

| Module | Models | Composes |
|---|---|---|
| `DeviceOps` | `struct ds_device` and the functions on it, as operators on a record | |
| `Device` | handles of several processes on one controller | `DeviceOps` |
| `OutputBuffer` | the promise: a private write-back buffer per process | refined by `Device` |
| `DeviceProofs` | theorems about `Device` | |
| `Commands` | both protocols' handlers on the daemon's handles | `DeviceOps` |
| `CommandsProofs` | theorems about `Commands` | |
| `Daemon` | the poll loop with its peers | |
| `DaemonProofs` | theorems about `Daemon` | |
| `HapticsRing` | the sample ring | |
| `SampleQueue` | the promise: a queue that forgets its oldest | refined by `HapticsRing` |
| `HapticsRingProofs` | theorems about `HapticsRing` | |
| `Haptics` | start, stop, write and the signal handler | |
| `HapticsProofs` | theorems about `Haptics` with one thread | |
| `Lifecycle` | start-up and end of a program, discovery, the socket's path, restarts | |
| `LifecycleProofs` | theorems about `Lifecycle` | |
| `TriggerEffects` | the encoders of `triggers.c` and a reader | |
| `CNumbers` | what `strtol`, `strtoul` and a cast make of a written number | |
| `FrontEnds` | from a user's words to setter calls: native protocol, DSX instructions, `dsctl`, the GUI's lines; `dsctl`'s exit status | `TriggerEffects`, `CNumbers` |
| `DsxText` | the search for instructions in a packet's text | `CNumbers` |
| `Checksums` | both CRC routines and the controller's check | |
| `OutputReport` | the bytes of a report over either bus and their reader | `Checksums` |
| `InputReport` | `ds_read_input`, `ds_input_parse`, Python's masks, and their writer | |
| `Codecs` | a behaviour is one conversion, of any kind | the seven above |
| `ChecksumsProofs` | theorems about `Checksums`; lemmas on loops, digits and bytes | |
| `CodecsProofs` | theorems about `Codecs` | `ChecksumsProofs` |

`MC*` modules extend them for TLC. An operator whose name continues another's
(`AfterSendNoRollback`) is a plausible slip in that code. No specification uses
it; it replaces the real one in a mutation run, which must then fail.

### Device

The six output groups differ only in that trigger calls can refuse, so a group is
an element of `PlainField` or `TriggerField` and its bytes an element of `Value`.
`dev[h]` is the struct; `dirty` the dirty flags, `seq` the tag. `fd[h]` is the
connection ("epoch") the descriptor belongs to: after a reconnection the old
descriptor reaches nothing, as a hidraw node that was removed.

* `Open`, `Close`: `ds_open`, `ds_close`; `Close` also stands for a process that
  ends in any other way.
* `SetOutput`, `SetTrigger`, `RejectTrigger`: the setters, a trigger call that
  returns 0, one that returns -1. `trigger_buf` marks the side before the
  encoder validates, and so does `TriggerRejected`.
* `SendOk`, `SendLost`, `SendUnsure`: the three outcomes of `write()`:
  delivered; failed or short; failed although delivered. Building the report
  advances the tag and failure takes it back.
* `Disconnect`, `Reconnect`, and the controller itself, are external.

`shown` is what the controller shows. `writer` and `heard` are histories the
properties read; no action depends on them.

### Commands

A DSX instruction or a native command is reduced to what it stages
(`NativeInstruction`, `DsxInstruction`): a valid setter, a refused trigger call,
the reset, something that counts as a change without staging, or nothing. DSX has
no rumble instruction. An index out of range means the first controller in both
protocols. `NativeCommand` stages and sends to one controller and answers from
`ds_send`'s result alone; `NativeAnswer` is every reply given before that.

The DSX handlers run in steps, kept in `job`: `BeginPacket`, one
`NextInstruction` for each instruction (so packets have any length), `EndPacket`,
which decides by `did_modify`, one `FlushNext` for each controller; `BeginReset`
and one `ResetNext` for each controller are `dsx_reset_all`. Only one handler runs
at a time, because the daemon has one thread; `Intrude`, another process writing
to a controller, may come between any two steps. `asked` and `lost` are
histories. How a packet's text is cut into instructions is in `DsxText`.

### Daemon

`pc` names the place in the loop, one action for each system call or branch, so
peers move between any two of them. `slot[s]` is `fds[s+1].fd`, `nslots` is
`nfds - POLL_CLIENTS`, `ready` the `revents`. `Init` lets `ready` be anything,
because the code does not initialise it, and `Poll` sets it for the first
`nslots` entries only. A client's request is a line of two half lines, so a read
can end inside one. `owed` counts lines completed minus replies written, and
`replies` what a client has yet to read: a client that finds no slot is told so
before its connection ends (`RefuseClient`), and what was written to a connection
stays readable after the daemon closed it.
`idle` is `time(NULL) - last_dsx_msg`. Controllers are reduced to "a DSX effect is
in force", which any packet may set, end or leave (`Receive`): what packets do is
the subject of `Commands`.

`poll()` failing for a reason other than a signal, which leads to the same
cleanup as a signal, `accept()` failing, and empty datagrams, which do nothing,
are left out.

### HapticsRing and Haptics

`HapticsRing` keeps the data: one action per byte pushed, one for a tick, which
cannot fall into a write because of the mutex (`left = 0`). Bytes carry the
actuator they are for. Callers write whole frames of both channels
(`WriteUnit = 2`, the tool writes 64 bytes; only its last read from stdin may be
odd).

`Haptics` keeps the control: `pc` and `hpc` are where a thread is in a library
call and in the handler that interrupts it. A thread in a handler makes no
progress in its call. A signal goes to any thread that is not in the handler
already; a thread alone in its process takes it before it goes on. The caller is
assumed not to stop a stream during a write to it, and to stop a stream before it
starts another, as the haptics tool does.

### Lifecycle

One program is started again and again, in one of three modes: the daemon with
all controllers (`ds_open_all`), the daemon with `-d` (`ds_open`), and a tool that
takes the first controller. `run` is the place it has reached and its local
variables: `listing`, the names `readdir()` has yet to yield; `fds`, the
descriptors of `ds_hidraw_open_all`; `table` and `count`, `devices[]` and
`ndevices`. `node[n]` is what the name stands for now. A name is used again by
the next device, so a descriptor is identified with the number of the plug it was
opened on. `hint` is the bus `uevent` gives, which the code reads and leaves aside;
only a mutation uses it.

* `Look`, `OpenNode`, `Detect` are the three moments at which the scan asks the
  kernel about a name; any device may come or go between them. A node is there
  before udev has made it the user's (`Udev`).
* `NoClass`: `opendir()` fails, for want of the directory, of memory or of
  descriptors, so it may happen although controllers are there.
* `Wrap`, `WrapFails`: one turn of the loop that makes handles of descriptors.
* `Unlink`, `Bind`, `BindFails`, `Listen`: the socket's path. Another daemon does
  the same to it (`OtherDaemon`); what it does before the program's own `unlink()`
  leaves no trace and is left out.
* `Signal`, `Shutdown`, `Kill`, `Start`: the end and the restart by the service
  unit, which restarts after every end but a successful one. Its delay is left
  out.

What happens between `Listen` and `Shutdown` is `Daemon`. `socket()` and
`listen()` failing, which end as `BindFails` does, are left out.

### Codecs and the modules it extends

A behaviour picks one kind of conversion and one input and converts it; the
invariants compare the result with the other end's reading. The other ends are the external parts of these
modules: a controller that reads an effect (`Read`), reads a report
(`ReadReport`), divides a frame by the CRC's polynomial (`Confirmed`), or encodes
its state (`SentReport`), and a mod that writes a packet (`Text`).

* `TriggerEffects`: each encoder with its refusals in the code's order. Masks and
  packed fields are made in the code's loop over the zones (`OverZones`), with
  powers and sums, which equal the shifts and ors because no two terms share a
  bit. The floats of the slope round like exact fractions for every
  input the function accepts (checked exhaustively in single precision), so
  `Rounded` uses integers.
* `FrontEnds`: `native_handle_command`, `dsx_instruction`, `dsctl_command` and
  below them `handle_trigger`, `apply_trigger` and `cmd_trigger` map what is
  written to a call, its trigger and its controller, or to `NoOrder` where it is
  refused. A native line is a sequence of fields, and `json_find` stops at the
  first key or value that is the key, as `strstr` does. Numbers are any integers
  until a front end makes something of them: the daemon an int of a long
  (`IntOf`), `dsctl` an unsigned long (`strtoul`), both of which stop at their
  ends, and the library a byte of either. The names of parameters are kept twice, as the
  daemon looks for them (`ModeKeys`, `CommandKeys`) and as the GUI writes them
  (`Sliders`). `Dsctl` gives the exit status of an invocation. The reset of the DSX
  protocol and what a reply says are in `Commands`.
* `DsxText`: a packet is the sequence of the tokens the search tells apart:
  `"Type"` with its value, `"Parameters"`, and an array. Numbers are made ints
  here too.
* `Checksums`: a 32-bit word is the set of its bits. `crc32_table` is built from
  its entries at the powers of two; the other 248 literals of the source are the
  exclusive or of those (compared one by one).
* `OutputReport`, `InputReport`: the layouts byte by byte. A timestamp is its two
  halves. `FlagFields` lists the bit fields of the C struct in the order in which
  they fill their bytes, `PythonMasks` the masks by which the bindings read them.

## 3. Runs

All runs finish in about two minutes or less with two workers.

| Run | Instance | Distinct states | Shows |
|---|---|---|---|
| `device` | 2 processes, 1 plain + 1 trigger group, 2 values, 2 tags, either bus, 1 reconnection | 478,332 | `TypeOK`, `CleanFieldsAgree`, `TagsInStep`, `ImplementsBuffers` |
| `commands` | 2 controllers, 1 plain + 1 trigger group, 2 values | 604,168 | `TypeOK`, `NothingForgotten`, `OkMeansShown`, `StagedIsTried` |
| `daemon_slots` | 3 clients, 2 slots, 3 half lines unread each, lines in pieces, sends that fail | 2,617,277 | `TypeOK`, `SlotTable`, `NoLineUnanswered` |
| `daemon_live` | 2 clients, 2 slots, DSX packets, signal, fairness | 272,950 | `OneReplyPerLine`, `EffectsExpire`, `RequestsAnswered`, `ShutdownCompletes` |
| `haptics_ring` | ring of 6, blocks of 4, writes up to 8 | 31,527 | `TypeOK`, `RingConsistent`, `ChannelsAligned`, `ImplementsQueue` |
| `haptics_single` | 1 thread, 3 streams in turn, failing starts, fairness | 756 | `TypeOK`, `NoUseAfterFree`, `StopReturns` |
| `lifecycle` | 2 nodes, table of 2, 3 plugs, 1 kill, 1 failed allocation, another daemon, fairness | 1,750,184 | `TypeOK`, `NoDescriptorLost`, `BusIsOfDescriptor`, `FindsWhatStayed`, `ServiceComesUp` |
| `codecs` | every position and the limits of other parameters; every set of changed groups; packets of up to 4 instructions; messages of up to 3 bytes; input reports that differ in any field | 624,651 | `TypeOK`, `ReadsWhatWasAsked`, `SlopeFollowsLine`, `FrontEndsAgree`, `ExitStatusHonest`, `DamageIsLocal`, `OutputReadsBack`, `ReceiverAccepts`, `InputReadsBack` |

What the less obvious properties say: `CleanFieldsAgree`, a group that is clean on
a handle and that no other process set since shows what the handle has staged;
`TagsInStep`, the next Bluetooth tag follows the last one the controller heard, or
repeats it when the send was reported as failed; `NothingForgotten`, what was
validly asked of a controller is shown or still due; `OkMeansShown`, a success
reply means all of it is shown; `StagedIsTried`, a change is due while the daemon
is idle only because the last send failed; `SlotTable`, every connection is in one
place and every slot in use is one `poll()` looks at; `NoDescriptorLost`, what a
program has open when it goes on is exactly what its table holds, without gaps;
`BusIsOfDescriptor`, a handle's bus is that of the device it was opened on, even
if the node changed hands since its name was read; `FindsWhatStayed`, nodes that
come, go or fail to open during the scan hide no controller that was there all
the time; `DamageIsLocal`, an instruction that is not as the protocol has it
spoils at most the next one; `FrontEndsAgree`, the four ways to ask for the same
end in the same call, whatever the order of a line's fields, so that no value
hides a key and no parameter has two names. The two protocols and the GUI agree
on any number; `dsctl` agrees with them on those a long can hold, and an index
names the controller it says where an int can hold it.

`OneReplyPerLine` holds for clients that write a line in one piece, as the GUI
does; for lines in pieces only `NoLineUnanswered` holds (see below).

Why the bounds are enough: two processes are needed to disturb each other and a
third does what one of the two can do; one reconnection makes a descriptor stale
and two make it stale twice; two slots and three clients reach a full table, a
slot freed below the last one and taken again; a ring of 6 with blocks of 4 and
writes of 8 wraps, overflows inside a write and runs empty inside a block, and
the block does not divide the ring. Two tags already tell a skipped tag from a
repeated one; the proofs cover all sixteen. Strengths and feet are tried at their
limits and just outside, positions are tried in full. `Timeout = 0` distinguishes
"a packet has just come" from "the time is over", the only thing the loop asks.
`MaxExtra` bounds how often a client is answered for pieces.

Two nodes and three plugs let a node change hands during a scan and leave a
second one to be found after a failure; a table of two is full with both. One
kill leaves the path behind, one failed allocation makes a hole possible before
and after a good handle. The numbers of `codecs` include two that are cut to a
byte another number has; four instructions are one more than an instruction, the
one it spoils and one that must be left alone; the checksum is linear, so that
messages of three bytes with single bits, all bits and the report's first byte
exercise every step of both routines. TLC's own integers have 32 bits, so that in
`codecs` an int ends at 2^24 and a long at 2^26 (`IntHalf`, `LongHalf`): an int
still holds a colour and a long every int, which is all `WidthAssumption` asks of
2^31 and 2^63. One number is past an int, one past a long, and one index past an
int. A line's fields are turned so that each comes first once, and a controller is
named below, in and above the table of two.

Fairness. `daemon_live` assumes the daemon's loop and the clock go on, and that a
client goes on to use or close its connection, reads its replies and leaves a
connection the daemon closed, as `DaemonClient.send_command` does. Without that
the daemon really can be stopped by one client (`daemon_silent`). `haptics_single`
assumes signals are delivered, handlers are scheduled, and a call that is enabled
again and again between two ticks goes on; a tick is taken to be shorter than the
timer's 10.67 ms there (`SlowTick = FALSE`). `lifecycle` assumes that the program
runs on, that systemd starts it again and that udev handles every node;
`ServiceComesUp` is about runs in which a controller stays, no other instance
touches the path and nobody tells the daemon to stop. It says that the daemon
serves in the end, not that it serves a controller: after `NoClass` it has none.

### Disagreements with the documents

Each of these is a run whose property states what a document says and which TLC
violates; `PROJECT.json` quotes the line.

| Run | Property | What the code does |
|---|---|---|
| `daemon_silent` | `EffectsExpire` | `revents` of a new slot is uninitialised: a silent client may hold the loop in `read()` for ever |
| `haptics_write` | `WriteReturns` | a tick during `ds_haptics_write` waits for the writer's mutex for ever |
| `haptics_threads` | `NoUseAfterFree` | a tick on another thread uses a freed stream |
| `lifecycle_noclass` | `FirstHandleThere` | a negative count passes for controllers, and the daemon serves with nothing in its table |

Others met while modelling, visible in the definitions but without a run of their
own:

* a trigger call that returned -1 makes the next send rewrite that trigger
  (`TriggerRejected`; `src/include/dualsense.h:86` says the state is unchanged);
* ResetToUserSettings leaves LEDs as the mod set them (`ResetFields`;
  `README.md:315` says it clears all mod effects);
* a status query counts as a mod packet for the timeout (`Receive`; `README.md:336`);
* a line that arrives in two pieces is run as two commands (`Lines`; `PRD.md:222`);
* a second stream takes the ticks of the first, which still says it runs (`Start`;
  `src/src/haptics.h:65`);
* no thread of the library sends the reports (`src/src/haptics.h:65`) but a handler
  on any thread, so with a slow tick (`SlowTick = TRUE`) two may build a report at
  once in the one buffer, and a block is lost (`Take`);
* a per-zone vibration with frequency 0 accepts any amplitude (`VibrationMulti`;
  `src/include/dualsense.h:112`);
* a trigger command with parameters out of range is answered with success
  (`SendText`; `README.md:181`), and `dsctl` reports only a refused vibration
  (`Reported`);
* numbers are cut to 8 bits before they are checked, so 258 is accepted as 2
  (`U8`);
* numbers too large for C's types are not refused: 2^63 is 255 to the daemon, as
  `strtol` stops at the end of a long, and 0 to `dsctl`, and an index past an int
  may name a controller, 2^32 + 1 the second one (`IntOf`, `strtoul`);
* the reply to a client that finds no slot is written one byte short and ends
  without its newline (`RefuseClient`, `src/daemon/dualsensed.c:195`; `PRD.md:223`);
* a reset that could not be sent is not tried again: `EffectsExpire` holds with
  `SendMayFail = FALSE` only (`ResetAll`; `README.md:336`), and the same holds of the
  reset at the daemon's end;
* what is not a number in an array is skipped and the rest moves up, so the
  booleans of a DSX PlayerLED instruction are lost (`json_parse_int_array`);
* DSX modes 1 and 11 do nothing (`apply_trigger`; `docs/missing-features.md:9`
  counts 26 modes);
* the layout in the comment of `src/src/dualsense.c:7` differs by one from the
  offsets used, on Bluetooth as on USB (`BtOffset`, `UsbOffset`), and
  `test/test_report_dump.c` fills its report by that layout;
* `src/src/crc32.h:11`, `test/test_crc32.c:30`, `PRD.md:84` and
  `docs/bt-audio-haptics-notes.md:83` give 0xEB1C1A49 as the seed after the
  preamble, which is neither what `compute_seed` computes nor one the controller
  accepts (`Seed`, `HapticsSeed`);
* a second daemon removes the first one's socket, which then cannot be reached,
  and a daemon that cannot bind ends with status 0 and is not started again
  (`OtherDaemon`, `BindFails`);
* a socket file that exists does not keep the daemon from starting, as
  `HOW_TO_TEST.md:309` has it with the advice to remove the file: `main` unlinks
  whatever is at the path before it binds (`Unlink`), which is why `ServiceComesUp`
  holds after a kill;
* controllers that come after the start are not opened (`Lifecycle` has no such
  action; `PRD.md:225`);
* the panel of each controller in the GUI sends no `device`, so all of them control
  the first one (`GuiLine`; `docs/missing-features.md:17` says the daemon routes by
  index);
* the GUI's own battery reader adds 5 to the level and does not count status 1 as
  charging, as `ds_input_parse` does (`ParseFull`; `src/gui/dualsense-gui.py:95`);
* a mute LED command without a mode is answered with success and changes nothing
  (`native_handle_command`), and the answer to `info` is a list of devices rather
  than the object of `README.md:183`;
* `ds_read_input` blocks, since the descriptor is opened without `O_NONBLOCK`
  (`src/include/dualsense.h:186`).

## 4. Proofs

All constants are arbitrary but for the assumptions the modules name (`Fresh` is a
value, the numbers of tags, ring places and block places are positive, the two
kinds of groups are disjoint, "nobody" is not a process, an int is wide enough for
a colour and its width divides a long's). TLC evaluates the same
assumptions.

* `DeviceProofs`: `TypeCorrect`, `InvariantCorrect`, `CleanFieldsAgreeCorrect`,
  `TagsInStepCorrect`. The two properties are not inductive: a handle that is
  opened again must not be credited with reports of the process that had it
  before. `HistoryOfOpenHandles` says so (no history names a closed handle) and
  `IInv` is it together with the type invariant and the two properties. One
  lemma per kind of action shows that it is kept; the sends share one lemma on
  what `AfterSend` leaves of a handle. `DeviceImplementsBuffers` is the refinement:
  a handle's staged bytes and dirty flags are the abstract buffer of its process,
  and every step is a `Put` (`StagingIsPut`), a `Put` of the same value again
  (`RejectionIsRepeat`, the refused trigger call that makes a trigger due), a
  `Forget` (`RenewalIsForget`, opening and closing), a `Flush` (`DeliveryIsFlush`),
  or nothing. The tag and the history have no part in it.
* `CommandsProofs`: `TypeCorrect`, `InvariantCorrect`, `NothingForgottenCorrect`,
  `OkMeansShownCorrect`, `StagedIsTriedCorrect`, for any number of controllers,
  groups and values and packets of any length. `NothingForgotten` needs little
  help: staging keeps what was asked (`StagingKeeps`), a send that succeeds shows
  it, any other leaves it due. The other two do not hold in the middle of a
  handler, where changes are staged and not yet sent. `DueIsComing` says where
  they are then: on a controller whose last send failed, in a packet that has
  modified something, or on a controller the loop of sends has yet to reach.
  `OkIsClean` says that a success reply leaves nothing staged until the next event.
  `IInv` is these two with the type invariant and `NothingForgotten`.
* `DaemonProofs`: `TypeCorrect`, `InvariantCorrect`, `SlotTableCorrect`,
  `AcceptReadyCorrect`, `NoLineUnansweredCorrect`, for any number of clients and
  slots; `OneReplyPerLineCorrect` if every read ends between two lines
  (`WholeLines`: clients write a line in one piece, and the buffer holds whole
  lines or the clients wait for a reply before they write again), without which
  it is false. `SlotTable` needs that the backlog holds nobody twice and that the
  places in the loop and the local variables go together (`Bookkeeping`,
  `AtAClient`), and that nothing of a connection that is gone is left for the next
  one of its client (`NothingLeft`). That `accept()` finds somebody waiting
  whenever the listening socket was ready is `AcceptReady`. The replies are
  counted by a balance: what is due to a client for what it has written (`Due`)
  less what it is owed only grows, and only where a read cuts a line
  (`InBalance`); no read does if lines are whole (`LinesUncut`).
* `LifecycleProofs`: `TypeCorrect`, `InvariantCorrect`, `NoDescriptorLostCorrect`,
  `BusIsOfDescriptorCorrect`, `FindsWhatStayedCorrect`, for any number of nodes,
  plugs, kills and failed allocations and any size of the table. `IInv` is the
  type invariant with `Sound`: a plug is behind one name and its number
  is not given again (`NodesApart`); each place in the program fits the local
  variables (`Stages`); no descriptor is held twice (`OneHandleEach`); what is open
  is what the queue and the table hold together (`Accounted`); nothing the scan
  has yet to open is open (`NotYetOpened`); a bus that was asked for is right
  (`BusRight`); and a controller that stayed is in the listing, the
  queue or the table unless an allocation failed or the table was full
  (`NotMissed`). Actions of the same kind share a lemma: those that touch neither
  the run nor the descriptors (`Quiet`), those that leave a program without
  anything (`Nothing`), changes of a node (`NodeStep`), steps of the scan
  (`ScanStep`). That the table has no gaps is a matter of counting
  (`CountImage`, `CountIds`).
* `HapticsRingProofs`: `TypeCorrect`, `RingConsistentCorrect`,
  `ChannelsAlignedCorrect` and `RingImplementsQueue`. `ChannelsAligned` follows from
  parity: with an even ring, even blocks and whole frames (`WholeFrames`) a byte
  for one actuator is at an even place and one for the other at an odd place
  (`ParityInv`), also after the oldest bytes are dropped one by one. The refinement maps the ring to the sequence of its
  `avail` bytes from `tail`. A push appends, or drops the first and appends; a
  tick takes a prefix. It needs `RingConsistent` (the byte written at `head` is
  the one after the last queued) and the lemmas that stepping around the ring is
  injective over fewer than `RingSize` steps and that steps add up.
* `HapticsProofs`: `TypeCorrect`, `InvariantCorrect`, `NoUseAfterFreeCorrect`,
  all under `OneThread`, without which they are false (`haptics_threads`). A tick that has loaded a stream must find it live until it
  ends, which the thread it interrupts sees to by not going on (`TickStream`); that
  it loads a live one needs that `g_haptics` points to one but during a failed start
  (`GlobalIsLive`), when no signal can come because no timer was set
  (`QuietStart`), which in turn needs that timers belong to live streams
  (`ArmedIsLive`) and that a stream is freed without one (`CallStream`).
  The type invariant needs that a block is owed by one tick only (`OwedByTick`). Neither the length of a tick (`SlowTick`) nor the
  order of starts and stops matters, and a tick that waits for ever for the writer's
  mutex does no harm to safety.

* `CodecsProofs` and `ChecksumsProofs`: a behaviour is one conversion, so nothing
  needs an inductive invariant; the work is in the numbers. That a recursive function obeys its
  definition has to be shown for each, by a course of the loop (`CourseExists`
  in `ChecksumsProofs`, which is an induction up to a bound).
  * `ReadsWhatWasAskedCorrect` and `SlopeFollowsLineCorrect`, for any parameters in
    0 .. 255; the lemmas for any strengths of zones. The sum over the zones has the zones' bits or
    fields as its binary or octal digits (`DigitsReadBack`), four bytes make the
    number again (`FourOctets`), and the mode byte sends the reader to the bytes
    the encoder filled (`ReadByMode`). For each encoder one lemma says that it
    refuses and changes nothing, or that the reader gets what was asked
    (`EveryRequestAnswered`). A slope is within half a step of its line because
    rounding is (`RoundedClose`) and is in 1 .. 8 because the line is between its
    ends (`LineBetween`).
  * `ExitStatusHonestCorrect`, by the ways `main` ends: `EveryEndHonest` says it of
    any words and numbers, not only of those the run has.
  * `InputReadsBackCorrect`, for the states of the run, from `EveryStateReadsBack`,
    for all states a report has room for: every byte for sticks and triggers, every
    set of buttons, all 16-bit vectors and timestamps, two fingers, any charge. The
    ten parts of a report are where the layout has them (`TenParts`,
    `FullDataCarries`); two bytes give a number with its sign back (`HalfRead`,
    `SignedRead`), four a finger (`FingerRead`); and the buttons of a byte are its
    binary digits (`FaceRead`, `ShoulderRead`, `CentreRead`), as the flags Python
    reads are (`FlagSum`, `PythonSees`). Assumed: an error of `read()` is not a
    report (`ReadFailsAssumption`).
  * `FrontEndsAgreeCorrect`: every order `Ask` makes is of one of a few kinds
    (`OrderAsked`) and each front end makes the same of it (`EveryFrontEndAnswers`).
    A key is found wherever its field stands because no word is a key, and a line
    turned has the same fields. Numbers may be any integers: an order written as an
    instruction is the instruction of the order with its numbers made ints
    (`DsxHeldObeyed`), a line's fields are read as ints one by one, and a long's low
    byte is that of the int and of the unsigned long made of it, because the widths
    are multiples of 256 (`LowByte`, `IntsOf`, `LongCallsSame`). A mask of LEDs and a
    colour come back from their bits and bytes.
  * `ChecksumConfirmed`, for every message of any length, and `ReceiverAcceptsCorrect`
    from it. Each table entry is what eight steps of the division leave of its index,
    because both are linear over exclusive or (`OctetLinear`) and agree on single bits
    (`TableDivides`); so a byte goes through `TableStep` as through `ByteStep`
    (`TableStepDivides`), and the two seeds are one word (`OneSeed`). The
    controller's division has the bits the other way round (`Mirrored`); fed the
    four bytes made of a word it cancels them one after the other, and what stays is the remainder
    of four bytes of ones, whatever the message was.
  * `EveryReportReadsBack`, for every handle, tag and set of changed groups, and
    `OutputReadsBackCorrect` from it: each group is at its offset and no other group
    overlaps it, the flags say which were changed, and the 74 bytes before the
    checksum are a message as above.
  * `CodecsTypeCorrect`: each encoder of any bytes fills eleven bytes with bytes, and
    each front end calls with bytes.
  * `EveryPacketLocal`, for packets of any length, whose instructions may have any type
    and any parameters that fit into `params` or are no array, and
    `DamageIsLocalCorrect` from it. An instruction is regular if its numbers are ints,
    since others are carried out as other numbers. The table of the search is shown to exist from
    the end of the text to its beginning (`SearchTable`). What it finds goes forward
    (`SearchGoesForward`). A type with its parameters right behind it is
    reached with them if each type before it has met parameters before it
    (`SearchArrives`), which is the case if the instruction before it has its
    parameters after its type (`RegularCarried`).

  These needed the loops of the code in a form that can be reasoned about: the
  loops over bits, bytes, array elements and tokens are functions on an interval of
  integers, as `ZoneLoop`, `TurnLooksAhead` and the like then take them apart.

Only model-checked: the liveness properties `EffectsExpire`, `RequestsAnswered`,
`ShutdownCompletes`, `StopReturns` and `ServiceComesUp`, which are outside the
prover's reach. Every other property a passing run checks is a theorem, that of
`Checksums` for messages of any length and that of `DsxText` for packets of any
length. Some have a premise the code does not always meet: `OneReplyPerLine` that
no read cuts a line, and the properties of `Haptics` that there is one thread.

## 5. Not modelled

* the options of the command line, `socket()` failing, `poll()` failing for another
  reason than a signal;
* the text of the DSX status response;
* the haptics tool's sine generator and its reading of stdin;
* the GUI's widgets, its search for controllers and its battery reader, and the Python wrapper but for its bit
  fields: they forward to the daemon or to the library;
* the audio probe, an experiment that sends fixed reports in turn;
* packaging, scripts and `src/profiles`, which no code loads.

## 6. Order of work

Done in this order: `DeviceOps`, `Device`, `OutputBuffer` and their proofs;
`Daemon`; `Commands`; `HapticsRing`, `SampleQueue` and their proofs; `Haptics`;
`TriggerEffects`; `Lifecycle`; `FrontEnds`, `DsxText`, `Checksums`, `OutputReport`,
`InputReport` and `Codecs`; the proofs about `Commands`, of `ChannelsAligned` and
about `Haptics`; the refinement of `OutputBuffer`; the proofs about `Daemon` and
`Lifecycle`; the proofs about `Codecs`: trigger effects, exit status, input
reports, front ends, checksums, output reports, packets.

A change to one of these parts of the code is best followed by a change to its
definition, a run, and the proof, whose lemmas name the definition they are about.
What could come next: `Haptics` with several streams at a time, the text of the
DSX status response, and the audio probe once it is more than an experiment.
