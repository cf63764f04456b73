# Verification of system/core

TLA+ models of parts of Android's `system/core`, model-checked with TLC on small
instances, and proofs checked by TLAPS for every size of instance.

## The system and its parts

The repository is a collection of daemons, tools and libraries. The parts whose
correctness depends on order, timing or failures, and their state:

| Part | State | Operations and what they meet |
| --- | --- | --- |
| `init`: services (`init/service.cpp`) | flags, process, published state of each service; one "an exec service runs" flag | requests, class commands, restart timer and the SIGCHLD handler, in any order with the death of processes |
| `init`: action queue (`init/action.cpp`, `init.cpp`) | event queue, executing actions, command index, waits, shutdown request | boot, triggers, property changes by other processes, `sys.powerctl` |
| `init`: critical services (`Service::Reap`) | crash count and start of the window | exits, restarts and explicit starts at any time |
| `init`: shutdown (`init/reboot.cpp`) | the above, in the steps of `DoReboot` | services that crash, ignore SIGTERM or have `onrestart` commands |
| `init`: property service (`init/property_service.cpp`, `persistent_properties.cpp`) | properties in memory, their file, legacy files, children | failing writes, power failures, children that exit |
| `tombstoned` (`debuggerd/tombstoned`) | two queues of crash dumps, slots, a ring of files, intercepts by process | connections that close or time out in any state |
| `RefBase` (`libutils/RefBase.cpp`) | two atomic counts | any number of threads that copy, promote and drop references |
| `Looper` (`libutils/Looper.cpp`) | messages by time, descriptors, the epoll set, responses | other threads, handlers and callbacks; descriptors closed and reused |
| `fastboot` (`udp.cpp`, `protocol.cpp`, `engine.cpp`) | the packet in flight, sequence numbers on both sides, the queue of actions, the bootloader's data phase | a network that loses, repeats and reorders; a tool that is killed and started again |
| `adb` (`sockets.cpp`, `transport.cpp`, `adb.cpp`, `adb_listeners.cpp`) | local sockets of both sides, packets under way, transports and their threads | slow, half-closed and vanishing processes; connections that break; a server that is restarted |
| `logd` (`LogBuffer.cpp`, `LogTimes.cpp`, `FlushCommand.cpp`, `LogReader.cpp`) with `SocketListener` of libsysutils | the list of lines with its marks, chatty lines, readers with their threads, clients with their references | lines that come late, pruning and clearing under readers, clients that hang up |
| lmkd, ueventd, libsuspend, healthd, crash_dump, libunwindstack, ... | | not modelled, see below |

The parts of init share one thread: the main loop takes turns executing one command
of the action queue, starting services that are due and handling signals and sockets
(`init/init.cpp`). `InitShutdown` is composed with `InitService`; `InitQueue` sees
services as "an exec runs" and properties as values; `CriticalService` is the detail
behind the fatal exit of `InitService`. `tombstoned`, `RefBase` and `Looper` are
independent of these, and so are `adb`, `logd` and `fastboot`, which are layered:
`AdbSockets` extends `AdbTransport`; `Logd` uses the pure functions of `LogBuffer`;
`Fastboot` extends `FastbootUdp`, which implements `FastbootLink`.

`PROJECT.json` lists every part (with the reason where it is not modelled), the lines
each definition stands for, and the hazards at the lines where they bite.

## Modules

A module is named after its part. `MC*.tla` and `*.cfg` instantiate it for TLC;
`*Proofs.tla` hold theorems. Definitions have the names of the functions they model.
Definitions named `Mut...` are faulty variants of the definition after them: with the
variant in its place, the property it is meant for fails. They show that a property
can fail, and are not part of any specification.

### InitService

`svc[s]` is a `Service` object: its flags (`SVC_*`), its process (`none`, `alive`,
`zombie`), `init.svc.<name>` (`state`), `process_cgroup_empty_` (`empty`). `list` is
the service list (temporary services of `exec` come and go), `exec` is
`is_exec_service_running_`, `waiting` is a `wait_for_prop` that holds back the queue and
the restart timer, and `goal` is a history variable: what was last asked for.
The member functions (`Start`, `StopOrReset`, `Restart`, `Reap`, ...) are functions
from a `Service` object to the next one; the actions are their callers: control
messages, builtins, the restart timer, `ReapOneProcess`. `Start` has an outcome for
each way it can fail before or at the fork. A critical service's crash may be one too
many at any time (`fatal`); when exactly is the subject of `CriticalService`.

### InitQueue

One turn of the main loop is three steps (`pc`): look at a shutdown request, execute
one command, poll. Scripts are constants; of the commands, those are modelled that
touch the queue, properties or waits. `served` is a history variable: property actions
taken up since their conditions became true.

### CriticalService

The part of `Reap()` that counts crashes of one critical service, with clock, restart
delay and requests that start it early. `exits` records the time of each exit.

### InitShutdown

Extends `InitService` by the phases of `HandlePowerctlMessage` and `DoReboot`. Until
the shutdown begins everything of `InitService` may happen; afterwards only exits and
what `DoReboot` does. `crit`, `killed`, `lost` and `revived` record which services the
shutdown keeps, which were killed, which failed or ended by themselves, and which the
`onrestart` commands of others brought back. Unmounting is one step; `vdc` and `fsck` are
processes that `DoReboot` waits for without a limit, and that may not end.

### PropertyService

`persist.*` properties in memory and in one file, which every set rewrites through a
temporary file. The steps of `WritePersistentPropertyFile` are actions, each of which
may fail; power may fail between any two. `durable` is the set of states of the
directory a power failure may leave: rename and unlink take effect in order, up to an
arbitrary point since the last commit; contents that were not synced may be torn. The
second part is the queue of children for `selinux.restorecon_recursive`.

### Tombstoned

Each libevent callback is an action. A connection is a slot with a `Crash` or
`Intercept` object, reused when the object is deleted. `maybe_dequeue_crashes` runs a
loop; `draining` makes its turns separate steps during which nothing else runs.

### RefBase

One object, any number of references to it. Every atomic access of an operation is a
step; `pc[r]` tells what reference `r` is about to do and `src[r]` what it is made
from. `mFlags` is chosen by the constructor: regular or extended lifetime. Clients
follow the contract of `RefBase.h`: an operation works from a reference that is held
meanwhile. The history variable `raced` becomes true when the raw pointer is used while
`decWeak` is between its last decrement and its look at `mStrong`.

### Looper

Sections under `mLock` are single steps; `epoll_wait` and the calls of handlers and
callbacks are outside, so anything may happen around them. Threads call `wake()` only
after they have released the lock (`waking`). Descriptor numbers refer to files; the
epoll set holds pairs of number and file, as in the kernel, so that closed and reused
numbers, and files that a duplicate keeps open, behave as they do.

### FastbootLink, FastbootUdp, Fastboot

`FastbootLink` is the abstract specification: what `transport.h` promises the engine,
whatever carries the bytes. `FastbootUdp` is `udp.cpp`: `SendData` with one packet in
flight, retransmission, and the connection set-up; a device that follows the packet
rules of `fastboot/README.md`; and a network that keeps every packet for ever, so that
it may deliver it late, often or never. Its last section maps its state to that of
`FastbootLink` (`Link == INSTANCE FastbootLink WITH ...`). Data is a sequence of units;
packet sizes are counted in units; a unit of a response is its four-letter word and a
number. `Fastboot` adds the command protocol of `protocol.cpp`, how downloads are cut
into writes (a sparse image piece by piece through `transport_buf`), the queue of
`engine.cpp`, and the bootloader.

### AdbTransport, AdbSockets

Both sides of a connection run the same code: `n` is `"host"` (the adb server) or
`"device"` (adbd). Each handler of the main thread is an action. `AdbTransport` has the
`atransport` objects with their reading and writing threads, SYNC and CNXN packets,
`kick_transport` and deletion; what is on its way through socket pairs and wire is one
queue, `inbox[n][t]`. In `AdbSockets`, `sock[n][i]` is a local socket together with the
process at the other end of its descriptor; a remote socket exists only as the `peer` of
a local one. A socket on the closing list keeps its transport, as in the code; when that
is deleted, `get_max_payload` may return anything (`MaxPayloads`). `handle_packet` is OPEN, OKAY, WRTE, CLSE, CNXN and SYNC; `SocketEvent` is
`local_socket_event_func`; the `Smart` actions are the smart socket that reads which
device and service a client wants. What a process writes is a sequence of numbered
items, so that loss, duplication, reordering and mixing of streams can be told.

### LogBuffer, Logd

`LogBuffer` has the functions of `LogBuffer.cpp` that work on the list under its lock:
where a line is sorted in, how identical and chatty lines are joined, what `prune`
erases (the worst source, then the blacklist, then what is oldest, except the whitelist)
and where a reader starts. `Logd` has the threads: the writer (`log`, `maybePrune`,
`notifyNewLog`), the listener (`SocketListener` with its list of clients and its
references), a thread for each reader (`threadStart`: two passes over the list, a wait)
and the control thread (`clear`). `flushTo` gives up the lock while a line is sent, so
everything may happen then. Every line has a number; `thread[c].sent` is the history of
what was sent, `thread[c].drop` what the line being sent stood for when the thread came to
it, and `logged` the history of what was logged.

## Runs

Each run checks the properties of `PROJECT.json`; the comment before a property states
it. Deadlock is checked where the system has no state in which it may rest.

| Run | Instance | What it shows |
| --- | --- | --- |
| `init_service` | a critical, initially disabled daemon and an exec service | stops and starts hold, killing reaches the process; init waits as long as an exec service runs; that wait ends, and so does the restart timer's unless a command waits for a property that nobody sets |
| `init_queue` | five scripted actions and three built-in ones, two properties and `sys.powerctl`, at most 3 events queued when another process sets a property | no property trigger is missed; indexes and pointers stay valid when a shutdown clears the queue, and nothing but the shutdown runs then; a valid request is accepted unless it is overwritten, and an accepted one reaches `DoReboot` |
| `init_critical_limit` | limit 3, window 4, 11 ticks | init aborts at the latest at exit number `2 * Limit + 1` in one window |
| `init_shutdown` | a shutdown critical service whose `onrestart` command restarts one that is killed | what was killed stays dead unless an `onrestart` command of a service that was spared restarts it, what the shutdown needs is there, `DoReboot` ends unless `vdc` or `fsck` hangs |
| `property_service` | 2 properties (one with a default, one overridden), 2 values, 2 sets in each of 2 boots | no value is lost to a power failure or failed write, memory and file agree, the queue of children does not stall |
| `tombstoned` | 3 crash connections, 2 of them of one process, and 2 intercept connections, 2 processes, 2 dump types (requests for any intercept only in the theorems) | intercepts match, no request is overtaken, every request is served |
| `refbase` | 4 references, both lifetimes | nothing is used after it is freed or freed twice, unless the raw pointer raced with the last `decWeak` |
| `looper` | either 2 threads, a handler and 3 messages with delays 0 and 1, or 2 numbers, 2 files, one with a duplicate, and 3 calls of `addFd` | the loop never sleeps past a message, messages are delivered in order; epoll set and requests agree, a callback that removed itself is not invoked again nor removes its successor, ready descriptors get their callbacks |
| `fastboot` | a queue of seven actions, packets of 2 units, sequence numbers modulo 4, 2 sessions, 1 kill | `FastbootUdp` implements `FastbootLink`; the engine keeps the contract under which it does (`UdpSpec`); the device flashes exactly the images that were sent, success means that the whole queue was carried out, and the tool ends unless datagrams that do not match keep it waiting |
| `adb` | 2 sockets on each side, 2 connections, 1 restart of the server, buffers of 1 item, packets of 2; see below | streams stay apart and in order, one packet waits for a slow reader, a close loses nothing; what is written is read, and a socket whose other end is gone ends |
| `logd` | ten scenes of up to 6 lines; see below | entries, clients and lines in use stay, lines are sent in the order of the list and none is passed over, squashed lines are accounted for, woken readers read to the end, clients that hang up leave nothing behind |

In `adb`, everything that comes from outside (a stream that is opened, an item that is
written, a process that hangs up, a connection that breaks, a restart) is an effort:
there are at most 4, 5 if there is one stream and no fault, or 3 with a fault
(`MaxEffort`, `MaxFaultEffort`), which is enough
for two streams that each carry data, for three items on one stream with a reader that
hangs up, or for a stream with data and a fault in between. A `logd` behaviour plays one
of the `Scenes` of `MCLogd`: `late` and `dump` have lines that come late by less and by
more than the margin, `behind` a reader that is too slow, `same` identical lines past
the limit of a count (`MaxDropped`, `USHRT_MAX` in the code) and then a different one,
`twice` a different line after two identical ones, `worst` and `lists`
pruning by source, `clear` clearing by root and by an owner, `wrap` dumps that wait, and
`tail`s, `two` one reader that hangs up beside another one. In each of them reading,
pruning, hanging up and failing threads interleave freely. `LogId` is one log: the logs
share only the list.

Why the bounds are enough: the errors these properties are about need two actors that
meet on one object (two requests, or a request and an exit; two references and a raw
pointer; two registrations of one number; two requests that wait for one dump slot; two sessions
of one device; two streams or two servers with one identifier; a writer and a reader at
one line) and at most one more event between them. For `InitService`, `InitShutdown`, `Tombstoned`,
`CriticalService`, `RefBase`, `FastbootUdp`, `Looper`, `PropertyService` and `InitQueue`
the theorems remove the bounds for the safety properties they name.
`init_service` has no `onrestart` commands (with three services the liveness
properties take too long); the theorems have them, and so has `init_shutdown`.

One run ends in a violation, a disagreement between the code and what a comment of it
says. `adb_write_thread_fails` (`WriteFails = TRUE`): when the writing thread of a
transport is the first to notice that the connection is broken, the message that removes
the transport may be handled before the reading thread's `SYNC(0)`; the transport is then
deleted while sockets of `local_socket_list` refer to it (`TransportIsThere`). The `adb` run
has connections that the reading thread finds broken. Sockets on the closing list are
another matter: see the observations.

## Fairness

* `init` returns to its main loop: a command that is ready is executed, a process that
  has exited is reaped, a service that is due is restarted (strong fairness, since a
  command in between may disable this for a turn). Exec services end; others need not, and
  nobody needs to set the property a command waits for.
* `DoReboot` goes on by itself; processes need not react to SIGTERM, and `vdc` and `fsck`
  need not end.
* tombstoned's dumps end, at the latest by their timeout.
* The looper's thread polls again and again, handlers and callbacks return, a thread
  that has inserted a message reaches `wake()`, time passes, and not every
  `epoll_wait` is interrupted.
* A write of the property file proceeds; a child ends and is reaped.
* fastboot's host goes on (its waits end by their timeouts, except while datagrams that do
  not match come: each of them starts the wait anew, `Prolonged`); nothing is assumed of the
  network or of the device, not even that it ever answers.
* adb's main threads serve what is ready, the reading thread of a broken connection
  notices it, and a process reads what it is sent; nobody needs to write or to close.
* logd's threads run on: sending a line ends, by success, by an error or by `SO_SNDTIMEO`
  (`SlowReaders`). Clients need not hang up, and nobody needs to log, clear or let a
  reader's time-out pass.

No fairness is assumed of clients.

## Proofs

Most theorems have the form `Spec => []P`, by an inductive
invariant, `IInv` where nothing else is said.

* `TombstonedProofs`: for all finite sets of connections and all queue sizes: types,
  `ConcurrencyBound`, `NoStrandedRequest`, `CrashOwnership`, `Interception`, and the action
  property `NoOvertaking`. The properties are inductive together with `FieldsSet`: a
  request past its first message has its fields set. Counting dumps needs lemmas on
  the cardinality of the running ones when a connection joins or leaves.
* `InitServiceProofs`: for all sets of services, options and `onrestart` commands:
  types, `StateIsTrue`, `OneProcess`, `GoalHolds`, `ExecIsAwaited`, `ExecBlocks`,
  `KillReaches`. `IInv` says of each service on its own what its flags, process,
  state and goal have to do with each other (`ServiceOK`); one lemma per member function
  of `Service` shows that it preserves this, and one per action names the objects it
  touches. Of `InitShutdown`, for all sets of services and all options, the action property
  `KilledForGood`: `RebootInv` is `IInv` until `DoReboot` begins; then it says that what is
  neither kept nor brought back is disabled while `DoReboot` reaps, so that `Reap()` does not
  restart it, and that what was brought back is named by an `onrestart` command of a service
  that was kept and ended, or of one brought back before. Of
  `CriticalService`, for all limits and windows, `NoFalseAlarm` and
  `TwiceLimitHolds`: `CriticalInv` places every recorded exit before, at or after the start
  of the current window; the last conjunct, that exits more than `Limit` places before
  it are a whole window older, carries the bound over a window's end.
* `RefBaseProofs`: for any number of references and both lifetimes `NoUseAfterFree`, and
  as long as `~raced` types, `CountsExact`, `NoLeak`, `FailsOnlyWhenGone`. The invariant is
  `raced \/ IInv`, since nothing is known of the counts after the race. `IInv` adds who may
  be doing what at the same time: `SrcOK` (what an operation works from stays held),
  `RawOK` (what exists while the raw pointer is in use), `Alone` (the last reference
  of a kind has no company), `Gone` and `Deleted` (what a deleted object rules out).
  The exactness of the counts turns a value read into a statement about the
  references, and a compare-and-exchange that succeeds into the knowledge that it is
  still true.
* `FastbootUdpProofs`: `UdpSpec => LinkSpec`, the refinement: for every number of
  sessions, attempts, packet sizes and sequence numbers (more than 3 of them), and
  whatever the device answers. `UdpSpec` is the transport under the contract that a
  caller closes it after a call that failed, which the `fastboot` run shows the engine
  to keep. `IInv` says what may be in the network: no request, of this or of an earlier
  session, is ahead of the device; during a Read or Write only the host's packet can make
  the device go on; a response is the one the device has saved or out of date; and what
  a new host learns by its query is where the device is, give or take one packet of the
  earlier session. What was handed out has been read, is being read, or is in the saved
  response. For each action one
  lemma shows that it preserves `IInv`, and one that it is a step of `FastbootLink` or
  none.

* `LooperProofs`: for any number of threads, handlers, messages, descriptors and files
  `EpollInSync`, `OwnRequestOnly`, `NoOversleep` and `InOrder`. Three invariants, each with
  a part of the state of its own. `SyncInv`: a file is in the epoll set once, and a request
  whose number has been closed and reused can only be that of the callback being run (a
  client may close early only there). `OwnInv` adds that a sequence number stands for one
  request, registered or only remembered in a response, and that no response to come is for a
  request that removed itself; therefore `OwnRequestOnly`, an action property. `SleepInv`: the
  queue is sorted by time and number, `mNextMessageUptime` is not later than the first
  message unless a wake-up is on its way, and so the timeout of `epoll_wait` is not either.
* `PropertyServiceProofs`: for all sets of names and values and any number of boots `Kept`
  and `MemoryIsStored`. `PropertyInv` says what `memory`, the contents being written (`next`)
  and the disk have to do with each other in every step of a write and of loading: each
  value that is about to be written may be what the next boot brings, and what is on disk
  now is one of the `durable` states.
* `InitQueueProofs`: for all scripts, properties and values, and any length of the queue
  `ExecutingValid` and `NoMissedTrigger`. `QueueInv` says that each builtin action exists
  once, and its event once and only as long as it has not been executed (so no pointer
  dangles when a oneshot action is erased); that the look at all properties comes after the
  enabling of triggers; and that a shutdown has its own actions and the final builtin in
  front of it. Its parts take the running actions and the events as parameters, because they
  are needed between the two halves of `ExecuteOneCommand`: what has been fetched is sound
  (`FetchGoing`), and each command preserves it.

Assumptions on constants are those named in the modules: finite sets, distinct special
values, `INITIAL_STRONG_VALUE` larger than the number of references, a queue with more
files than slots (the `CHECK` in the code), data that is closed under taking parts; of
scripts, that actions have commands (`EndSection` drops the others) and that no script
triggers a builtin action by its name. A name such as `queue_property_triggers` is not
reserved in the code: `trigger queue_property_triggers` in a script would run it a second
time before it is erased.

What recursive functions on sequences compute (`Those`, `Others`: erasing and selecting
with `std::remove_if`, loops over the queue) is proved from the least counterexample, which
exists because the natural numbers are well-founded (`LeastNumber`).

Proved and not repeated in a run: the type invariants of these modules,
`ConcurrencyBound`, `NoStrandedRequest`, `CrashOwnership`, `StateIsTrue`, `OneProcess`,
`ExecIsAwaited`, `NoFalseAlarm`, and, without the race, `CountsExact`, `NoLeak`, `FailsOnlyWhenGone` and `InOrder`.

Only model-checked: all liveness properties (beyond the prover), the adb
and logd modules, and `Fastboot` above the transport. What logd prunes and joins is defined by recursive operators that the
prover cannot take.

## Left out of the models

* RefBase: memory orders weaker than sequential consistency, the `DEBUG_REFS` lists.
* Looper: the thread-local registry, `pollAll`, event masks, more than
  `EPOLL_MAX_EVENTS` events at a time, the wrap-around of `mNextRequestSeq`.
* Services: a `createProcessGroup` that fails (it is logged, and the group is then not
  there to be killed), parsing, sockets, namespaces and attributes of the forked child.
* Shutdown: the order of services, `KillAllProcesses` and the details of unmounting.
* Properties: the socket protocol and access checks, `ro.*`, `.prop` files.
* tombstoned: contents of dumps; the socket protocol is a message that is right or wrong.
* fastboot: the command line, images, the TCP and USB transports.
* adb: authentication (`ro.adb.secure` is off), host services that are sockets of their
  own, device trackers, jdwp, `force_eof`, `exit_on_close`.
* logd: the logs of the kernel and of audits, the worst pid of the system user, the sums
  of liblog's tags, permissions of readers, `LogFindStart`, `reinit`, a second request on
  one socket, lines with equal times, what `isLoggable` refuses, statistics as texts.
* libsysutils: `stopListener`, broadcasts, commands and netlink.

## Not modelled

Most of the repository by lines is sequential code on data: the DWARF and ELF readers of
libunwindstack, demangler, file formats (libziparchive, libsparse), a software renderer
(libpixelflinger), Unicode, parsers, formatting, and tests. A model of it would be a
transliteration, and what can be wrong with it a unit test reaches. Other parts are
wrappers of system calls (fs_mgr, libcutils, libnetutils, first stage init) or rest on
behaviour of the kernel that the repository does not define: ptrace and signals in
crash_dump and libbacktrace, `wakeup_count` in libsuspend, memory statistics in lmkd,
FUSE in sdcard and libappfuse. `PROJECT.json` gives the reason for each part.

## Observations

Behaviour met while modelling that no run reports.

init and the libraries:

* A oneshot service that is being restarted and is started once more before its process is
  reaped stays stopped: `Start()` clears `SVC_RESTART` and sets it again only if the
  service was disabled or reset on entry (`service.cpp:745`), against its comment that "it
  will get restarted in Reap()". `GoalHolds` is about services that are not oneshot.
* A service kept for the shutdown animation that dies while `DoReboot` reaps runs its
  `onrestart` commands, and these start services that were killed (`reboot.cpp:454`).
  `KilledForGood` shows that nothing else brings them back.
* `DoReboot` waits for `vdc` and `fsck` without a limit (`logwrap.c:350`); when one of them
  hangs, so does the shutdown. `ShutdownEnds` excepts that.
* `decWeak` reads `mStrong` after it gave up its own count (`RefBase.cpp:511`): when another
  thread makes the first strong reference in between, it deletes the `weakref_impl` that
  reference uses, against `RefBase.h:113`. `NoUseAfterFree` says that this is the only way.

* The README says a critical service that exits more than four times in four minutes
  reboots the device; the window is fixed, and up to eight exits around its end do not.
* The README says an action is queued "unless it is already on the queue"; the queue
  holds events and is not searched. An action on two properties may run twice when
  both change before either event is taken up, since values are compared late.
* An `exec` among `onrestart` commands runs while another exec service is awaited;
  the one flag then ends both waits (`ExecBlocks` excludes it).
* `exec_start` of a daemon makes it oneshot for good. A start that fails after the flags are
  cleared leaves `init.svc.<name>` at `restarting`, though nothing will restart it.
* A service needed for the shutdown that has exited and is not reaped yet is taken to
  be running and not started.
* A second, invalid value of `sys.powerctl` set before the loop looks replaces a valid one.
* With several concurrent dumps tombstoned's ring may wrap while a slow one is still
  written; its file is then unlinked.
* `attemptIncStrong` on an object that never had a strong reference does not call
  `onFirstRef`. An object that only ever had weak references is not destroyed.
* Looper finds requests by number: an event of a file that was removed and closed
  meanwhile goes to the new registration of its number.
* The legacy message `PROP_MSG_SETPROP` passes the value for both name and value
  (`property_service.cpp`, `handle_property_set_fd`).
* The result of `fsync` is ignored. A file that cannot be read while loading is
  replaced by one made of the legacy files; a property that is set before loading is
  kept in memory only. An empty `selinux.restorecon_recursive` overtakes waiting ones.

fastboot:

* A failed upload does not end the queue: that branch of `fb_execute_queue` lacks the test
  of `status` the others have (`engine.cpp:407`). The failure of a reboot is ignored.
* `fb_upload_data` returns success for an `OKAY`, or for `DATA` of length 0, without data.
  When the uploaded file cannot be written, the device's last `OKAY` stays unread.
* A datagram that does not match starts the wait for the response anew (`udp.cpp:269`), so
  that a stream of them keeps the host from its time-out. `QueueEnds` excepts that.
* After a failed call `udp.cpp` would go on with a sequence number the device may not be
  at; that `protocol.cpp` closes the transport after every failure is essential.

adb:

* A socket on the closing list keeps its transport, and `get_max_payload` uses it when
  `POLLRDHUP` forces a read event, though the transport may be deleted by then.
* `POLLRDHUP` is reported whether or not a read is wanted: the packets of a sender that
  shut its end do not wait for `OKAY`, against `protocol.txt`.
* A `CLSE` is answered by a `CLSE`, though `protocol.txt` says that "the recipient should
  not respond to a CLOSE message in any way".
* What a client of a forwarded port writes before it shuts its end and before the first
  `OKAY` is dropped; a half-close closes both directions; an error on writing closes the
  socket and loses what was not read from it yet.

logd:

* A signal between the end of `flushTo` and the reader's wait is lost; the line is sent with
  the next notification (`LogTimes.cpp:159`). `WokenReads` is about readers that were waiting.
* When a client hangs up, its entry leaves `mTimes`, and with it the lock on its region, while
  its thread may still be sending a line from the list (`LogBuffer.cpp:1192`).
  `RegionIsLocked` is about entries in `mTimes`.
* A line sorted in before `mLast[id]` is not reached by pruning or clearing until that mark is
  reset. On the path of the blacklist the length of a line is read after it was deleted
  (`LogBuffer.cpp:882`).
* A waiting reader does not get lines that come late by more than the margin, nor those
  before them in the list; a dump may read past its end, and misses a line put in before
  its place. `NoGaps` says so.
* A dump whose thread could not be made (`LogTimes.cpp:62`) is not tried again.
