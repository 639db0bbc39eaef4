# Formal model of Libera Link

Libera Link connects laser software to laser hardware. A *virtual controller
host* speaks a network protocol (IDN, Libera protocol, Ether Dream) to the
software and submits points to a *target sink*; the sink's queue is drained by
the *point callback* of the controller library; `LinkRuntime` discovers and
connects controllers and starts and stops the hosts; the GUI calls
`LinkRuntime` asynchronously from its frame loop.

```
client --TCP/UDP--> host session --submit/reset--> LiberaTarget queue --fill--> controller
                       ^ start/stop                      ^ create/release
                       +------------- LinkRuntime -------+
                                         ^ scan/start/stop (async), requestStop (sync)
                                      GUI frame loop
```

Line numbers below are lines of files under `src/src/`; `PROJECT.json` maps
every definition to its lines.

## Inventory

### Target sink: `LiberaTarget` (LinkRuntime.cpp 480-1400)
- *State*: `pendingPoints_` (a deque under `queueMutex_`), the atomics
  `buffering_`, `frameReplacementMode_`, the point rate, the latency, the
  telemetry counters, the time of the last input, the underrun accumulator.
- *Operations*: `submitContinuous`, `replaceFrame`, `submitFrame`, `reset`
  (host threads); `fillFromQueue` (callback thread); `getStatsSnapshot`
  (monitor and GUI).
- *Hard*: the flags, the rate and the latency are written outside the mutex, so
  each operation is several steps; limits are computed before the lock and used
  after it; the pre-buffering hold waits for a level that grows with rate and
  latency.
- *Correct when*: every call takes effect at one moment, the queue is bounded and
  ordered, counters add up, every fill is served, pre-buffering can end and is
  re-armed after starvation.

### Ether Dream device: `VirtualEtherDreamDevice` (EtherDreamVirtualControllerHost.cpp 760-1380)
- *State*: session socket, light engine, playback state, status flags, point
  buffer, rate queue, point rate, playback clock.
- *Operations*: the commands of the wire protocol, accept and disconnect, the
  playback timer; `stop()` from another thread.
- *Hard*: the timer runs between any two commands; `u` does not test the
  playback state; an underflow leaves queued rates behind; `stop()` races with
  the io thread.
- *Correct when*: an emergency stop is final until cleared, nothing of an
  earlier run is played, the target is reset when playback is stopped, limits hold.

### Libera protocol target server: `TargetServer` (LiberaProtocolVirtualControllerHost.cpp 240-930)
- *State*: `running_`, `sessionOwned_`, active sockets, session workers, and per
  session the stream mode, the pending frame and the rate.
- *Operations*: accept loop, session workers (hello, accept, ready, records,
  timeouts), `stop()`.
- *Hard*: workers race for the one session; many early returns; silent clients;
  `stop()` while the accept thread is between two of its steps.
- *Correct when*: one session has the sink at a time and leaves it empty, no
  slot or session leaks, silent clients are dropped, `stop()` returns.

### IDN host: `IdnVirtualControllerHost`, `IdnTargetSession` (IdnVirtualControllerHost.cpp 45-484)
- *State*: the server thread and its stop flag, per target the mode of the output,
  the adapter (enabled, queued chunks), the driver thread with its mode, its
  half-filled slice, the buffer it plays and the time of the next replay.
- *Operations*: `start` and `stop` of the host and of a session; open, chunk and
  close from the vendored server (`third_party/openidn`), its housekeeping;
  `driverLoop` with `getNextBuffer`.
- *Hard*: the lock is held for one chunk at a time, so channels close, open and
  change their mode inside `getNextBuffer`; the last frame is replayed on a timer;
  the sink is reset while the driver may be submitting; a failing server undoes a
  half-done `start`.
- *Correct when*: a frame is submitted unmixed, flagged as new exactly once and
  never after newer points; a closed channel falls silent; `stop()` returns and
  leaves the sink empty.

### Runtime lifecycle: `LinkRuntime` (LinkRuntime.cpp 1583-2772)
- *State*: runtime state, `stopRequested`, the monitor thread, hosts, targets,
  cached and discovered controllers, the options of the library and of the link.
- *Operations*: `scan`, `start` (fresh or update of a running link),
  `requestStop`, `stop`, the monitor thread.
- *Hard*: `requestStop` from the GUI thread at any point of a `start`; a host or
  a connection that fails half-way; threads and vectors moved outside the lock.
- *Correct when*: no host is lost track of, shutdown releases everything.

### GUI frame loop: `runGuiApplication` (gui_main.cpp 500-1571)
- *State*: futures and in-flight flags, `linkSyncPending`, `rescanInFlight`,
  enabled controllers, routes, default host, options.
- *Operations*: each frame polls, prunes settings, lets the user act and
  launches at most one call; closing the window.
- *Hard*: clicks while a call is in flight; requests that trigger each other.
- *Correct when*: calls never overlap, the loop comes to rest, closing returns.

### Hosts of a link: `LinkRuntime::start` and `stop`, the two multi-target hosts
- *State*: the active hosts with their targets and endpoints; per Libera host the
  servers with their ports, the advertiser thread and its copy of the list; per
  Ether Dream host the devices, their addresses and the aliases that were added.
- *Operations*: an update goes through the active hosts (keep, `addTarget` and
  `removeTarget`, stop and start again, stop) and then starts the missing ones;
  `IpAliasManager::allocate` and `cleanup`; the advertiser loop; `snapshot()`.
- *Hard*: any host may refuse in the middle of an update; ports and addresses may
  be taken by others; removed targets leave gaps in the ports; the alias list is
  lost in a crash; `stop()` joins the advertiser while the update holds the mutex.
- *Correct when*: after every call each host serves what the runtime believes, once;
  unaffected targets are not interrupted; ports and addresses are not shared, lost
  or out of range; a host that ended, however it ended, holds nothing; calls return.

### Host registry and command line (VirtualControllerHostRegistry.cpp, main.cpp, `parseOptions`, `discoverControllers`)
- *State*: the registered hosts in their order, the options, the set discovery has
  seen and for how long it has not changed, the signal flag, the exit code.
- *Operations*: registration by static objects, parsing, polling, connecting, signal.
- *Hard*: static construction order, options that clamp each other, `stoull` and
  negative numbers, controllers that come and go while discovery waits.
- *Correct when*: options do not depend on the order of arguments or registrars,
  discovery does not forget, an interrupt ends the program.

### Runtime logger (LinkRuntime.cpp 240-375)
- *State*: recent lines, the last error, the bytes it believes the log has.
- *Operations*: `clear`, `info`, `error`, rotation of the log and two backups.
- *Hard*: renames that fail, two programs that share the files.
- *Correct when*: log files are bounded, the lines shown are the newest, an error is kept.

### Settings of the GUI and the AVB window (gui_main.cpp, AvbSettings.cpp, LiberaAvbWindow.cpp)
- *State*: disabled types, default host, routes, enabled controllers, each with a
  file; the AVB interfaces, rates and half-size banks with theirs.
- *Operations*: load at the start, a save after every change, the pruning at the top
  of a frame, every click that changes one of them, relaunch.
- *Hard*: a save truncates first; failures and crashes in between; ids of hosts that
  are gone; ids the line format cannot carry; interfaces that are unplugged.
- *Correct when*: memory and files agree unless a save failed, no start is asked for
  an unknown host, an AVB failure stays visible until a save has made up for it.

### Not modelled
| part | reason |
| --- | --- |
| Packets, connections and sessions of the vendored OpenIDN server, sample decoding | third-party code; a client of `IdnSession` opens, feeds and closes the channel at any time |
| Several targets of an IDN host, its refusals (no target, more than 255) | sessions share only the server thread; a refused `start` changes nothing |
| Ether Dream beacons, `v` (version) command | they repeat what the options and the device's status say and change nothing |
| Alias commands of macOS and Windows, the reading of routing tables | operating-system I/O; adding or removing an alias succeeds or fails |
| Scanner sync | forwarded to the controller library, no state of this program |
| Statistics lines, wording of logs and of the usage text, point conversion | formatting and arithmetic on coordinates and colours |
| Plugin panels and per-controller plugin settings | state of the plugin library; only the relaunch is modelled |
| Drawing, layout, fonts, file dialogs, `LiberaPaths` | presentation; the fonts alone are half of the lines of the repository |
| Two processes of the program that serve at the same time | the ports and addresses the other one holds appear as taken ones |

## Modules

| module | models | state and actions |
| --- | --- | --- |
| `TargetQueue` | `LiberaTarget` | Every submission and the fill are split where another thread can run: flags, limit, lock, rate, return. The mutex is `lock`. A point is its admission number and whether it is lit, which is all that dropping at a frame boundary looks at. `Tick` ages the last input and the latency windows. |
| `AtomicSink` | abstract specification of the atomicity of the sink: a submission or reset takes effect at one moment between its call and its return, points leave at the front. What a call does to the queue is taken from the code, `submitFrame` (`Bypass`) against the guide: see `target_frames` | `called` is what each thread has asked for; `TargetQueue` maps it to the position and the points of each thread (`Calls`). |
| `TargetQueueProofs` | | theorems about the sink, with the refinement of `AtomicSink` |
| `EtherDreamDevice` | one virtual DAC | The io thread runs one handler at a time, so a handler is one action; reads are separate (`reading`), so the timer and `stop()` run between them. Points and queued rates carry the number of the prepare they belong to. The target is `empty` or `holding`. |
| `EtherDreamDeviceProofs` | | theorems about it |
| `ExclusiveSink` | abstract specification: one holder at a time, which finds and leaves the sink empty | |
| `LiberaTargetServer` | accept thread, one worker per client, `stop()` | `pc[c]` is where the connection of client `c` is in `acceptLoop` and `runSession`. `content` is whose points the sink holds. Idle deadlines count ticks. |
| `LiberaTargetServerProofs` | | theorems, with the refinement of `ExclusiveSink` |
| `IdnSession` | one target of the IDN host: `start`/`stop`, server thread, adapter, driver thread | Chunks are numbered as they are queued, and a slice is the set of chunks it has points of; times inside a slice are abstracted to where a wave may be cut. `replay` is the replay time compared with now. The caret that `AdapterBase::stop` moves without the lock may be lost to the driver's move (`ServerEnds`). |
| `IdnSessionProofs` | | theorems, with the refinement of `ExclusiveSink` |
| `LinkRuntime` | the runtime | A call is a record `task[k]` whose `pc` is its position; each step is what happens between two points where another thread can be noticed. A link is a pair of host and controller; `hosts` is what the runtime knows, `live` what really serves. |
| `LinkGui` | the frame loop over `LinkRuntime` (EXTENDS it) | A frame is `Poll`, user actions, `Dispatch`. A call is in flight until a frame has polled its future. |
| `LinkGuiProofs` | | theorems about both |
| `VirtualControllerHost` | the interface a host implements | One call at a time is in progress (`call`): its place, the targets left and the answer. |
| `LiberaHost` | servers, ports, options and advertiser (EXTENDS it) | A server is the port it listens on; `closing` are servers on their way out, which still hold their ports. The advertiser copies the list under the mutex and sends outside of it. |
| `LiberaHostProofs` | | theorems about it |
| `EtherDreamHost` | devices, addresses, aliases and options (EXTENDS it) | An address is a number of `Width` bits, so subnets end where the range ends. `assigned` is what the machine has, `aliases` what the manager knows it added, `left` what it lost track of. |
| `HostFleet` | an update and a stop, host by host, over both hosts and a coarse IDN host (EXTENDS both) | `rest` are hosts the update has not come to, `nextHosts` those it has dealt with; `step` is the place in `start()` or `stop()`. `Crash` ends the process and leaves the aliases. Targets are numbered in the order the runtime passes them (discovery in a fresh start, controller ids in an update). The monitor thread is left out, so a start after a failed update goes on where the code terminates: `link_terminate` covers that. All three hosts of the repository take part, although the app loads `idn` and `libera` only. |
| `HostFleetProofs` | | theorems about `EtherDreamHost` and `HostFleet` |
| `HostRegistry` | the registry | Registrars run in any order. The app links those of `idn` and `libera`; the tests also that of `etherdream`, which is in the same library. |
| `CommandLine` | the command-line program (EXTENDS it) | One argument is one step; numbers keep the order of the code's limits; time passes in polls. |
| `RuntimeLogger` | the logger of several programs | A file is its size; opening and renaming may fail. |
| `GuiSettings` | the four lists and files of the GUI | A frame is `FrameBegins`, `FramePrunes`, clicks, `FrameEnds`. |
| `AvbSettings` | AVB manager state, window and file | The manager is external and modelled from how the window uses it. |
| `FrontEndProofs` | | theorems about the last five |
| `MC*` | instances for TLC | |

Definitions that begin with "Mistake" in their comment are plausible bugs; each
shows that one property can fail. They are not part of any specification.

Two parts are taken from how the code uses them: a Libera protocol client
(`Connect`, `GoSilent`) may send any record or nothing, and the controller
library is the fill request, the downstream level and the discovery result,
each chosen freely.

## Runs

| run | shows | bounds |
| --- | --- | --- |
| `target_queue` | two threads that submit and reset, against the callback: the refinement of `AtomicSink` (with it `QueueBounded`), `QueueIsNewestSuffix`, `SinkConsistent` (`TypeOK`, `CountersConsistent`, `FillMeetsRequest`), and what a submission reports, `AcceptedPointsAreQueued` | queue of 2 points, 3 points submitted, slices of one point, of two and of one frame boundary: drops at a boundary, drops without one, cuts and underruns all occur, each between any two steps of the other thread |
| `target_latency` | AVB target with auto-latency from 1 to its maximum 3: `HoldCanEnd`; liveness `StarvationRearms` | queue 5, rate 2, so that rate times latency passes the queue bound |
| `target_two_submitters` | **violated**: `SubmissionsSerialized` | two threads that only submit |
| `target_frames` | **violated**: `FramesKeepPending` | one thread, two points |
| `ether_dream_stop` | **violated**: `SessionCloseResetsSink` | the device of `single_parts` |
| `libera_server` | `ServerConsistent` (`TypeOK`, `ExclusiveOwnership`, `SocketsMatchConnections`, `StoppedIsQuiet`), `PendingFrameSane`, the refinement of `ExclusiveSink`, and the liveness properties `SilentClientsAreDropped`, `StopReturns` | three clients, one of which may stall, for two slots and one session; frames of up to 2 points; timeouts of 1 and 2 ticks |
| `idn_session` | `SessionConsistent` (`TypeOK`, `FramesAreUnmixed`, `NothingOlder`), `FreshFramesAreFlagged`, the refinement of `ExclusiveSink`, and the liveness properties `ClosedChannelGoesQuiet`, `FlushEnds`, `StopReturns` | three chunks (a wave between two frames or the reverse), frames of up to 2 slices, two starts (what a first run leaves for a second) |
| `link_gui` | `CallsExclusive` and `LinkConsistent` (`TypeOK`, `HostsAccountedFor`, `ShutdownReleasesAll`) with failing discovery, connections and hosts, and stale settings; liveness `CloseReturns`, `GuiSettles` | two controllers, two hosts, two option sets, two user actions |
| `link_terminate` | **violated**: `NeverTerminates` | two user actions |
| `link_endpoints` | **violated**: `OneEndpointPerEnabled` | two user actions, nothing fails |
| `host_fleet` | `FleetConsistent` (`FleetTypeOK`, `FleetMatchesHosts`, `StoppedHostIsSilent`, `StoppedHoldsNoAlias`, `RatesOrdered`), `EndpointsCurrent`, `UnaffectedTargetsStay`, `PortsDistinct`, `AddressesAccounted` (`AliasesAccounted`, `AliasesInsideSubnet`, `DevicesKeepAddresses`); liveness `UpdateReturns`, `AddedTargetsAreAdvertised` | two targets, three hosts, three ports of which one may be taken, addresses of 4 bits, twelve scenarios of options and interfaces (absent, malformed and reversed options; subnets of 1, 2, 4 and 8 addresses, one at the end of the range), one alias that cannot be removed, one crash |
| `single_parts` | Ether Dream device: `DeviceConsistent` (`TypeOK`, `WithinLimits`, `FlagsMatchState`, `IdleHoldsNothing`), `EstopIsSafe`, `NothingStale`, `TargetResetWhenStopped`, `ReportedRoomIsReal` (the room a client computes from its last reply), `PlayNeedsPrepare`, liveness `SilentClientStopsPlaying`; the parts around the link: `OptionsMatchReference`, `LogConsistent` (`LogBounded`, `RecentLines`), `SettingsConsistent` (`SavedMatchesMemory`, `RoutesKnown`), `AvbErrorShown`; liveness `InterruptEnds` | device: buffer 3, two queued rates, counts and rates on both sides of the limits, three prepares (two runs and what an older one left); parts around the link: every pair of options that interfere, the three registrations of the repository (the app loads two of them) and a refused one in every order; two programs on one log; two builds with different hosts; one failing file operation in each part |

An invariant named "...Consistent" is a conjunction of named parts, given in
brackets; each part has a mistake of its own that breaks it.

The parts of `single_parts` (device, command line, log, GUI settings, AVB
settings) do not interact: a behaviour belongs to one of them and the others stand
still, so that one run asks the questions of all five without multiplying their
states.

The threads of `target_queue` are alike, so the run takes them up to their order
(`SYMMETRY`; none of its properties is a liveness property), and a commanded rate of 0
and the idle timeout of the source are left to `target_latency`.

Two clients suffice for every race for the session and a third one makes the
socket limit bite. Two controllers and two hosts give an update hosts to keep,
to stop, to start and to extend. Two user actions put one click before and one
inside a call, or two inside. Bounds on counters (`MaxReceived`, `MaxPrepares`,
`MaxUserActions`, `MaxDue`) only cut behaviours short; the theorems do not
depend on their values.

Deadlock is not checked where the system may stop (`stop()` of the server, of the
IDN host and of the device in `ether_dream_stop`, the window closed): there the
instance also runs out of its bounded input. The runs of the sink, `host_fleet` and
`single_parts` check it; a device that is down may stay so (`DeviceIsDown`).

### What the violations show
- `target_two_submitters` (LinkRuntime.cpp:543): the mode flags are written
  before `queueMutex_` is taken. Two submitting threads leave the mode of one
  with the points of the other, although docs/virtual-controller-hosts.md
  promises that submissions to a target are serialized by the sink. The built-in
  hosts submit from one thread per target.
- `target_frames` (LinkRuntime.cpp:763): `submitFrame` clears the points that are
  queued for the controller, and does not count them as dropped.
  docs/virtual-controller-hosts.md:118-120 recommends it for frames "that should be
  appended or scheduled without clearing pending target data". So `ImplementsAtomicSink`
  says that calls are atomic with the effect the code gives them, and not that
  this effect is the documented one. Of the built-in hosts only the Libera
  protocol host calls `submitFrame`; a client of it that changes from slices to
  frames loses what it sent before.
- `ether_dream_stop` (EtherDreamVirtualControllerHost.cpp:845): `stop()` may end
  the io thread before `clearSession()` ran; the sink then keeps the points of
  the session, which docs/virtual-controller-hosts.md asks hosts to reset.
- `link_terminate` (LinkRuntime.cpp:2659): a host that fails in an update leaves
  the state `Failed` and the monitor thread joinable; the next `start()` assigns
  over it, which is `std::terminate`.
- `link_endpoints` (LinkRuntime.cpp:2688): a click late in a `start()` leaves
  `StopRequested` with the hosts serving. `start()` is refused in that state, so
  the sync the click asked for is lost. The same race can leave a `Running` link
  whose monitor thread has ended.


More observations, not stated as violated properties. The points a replacement
frame is cut by (LinkRuntime.cpp:657) are reported as accepted, the one exception
in `AcceptedPointsAreQueued`. While an update is under way a target that moves may
be served by its old and its new host at once, when the new one comes first in the
list; `FleetMatchesHosts` speaks of the time between calls. An alias that cannot be
removed, or that a crash leaves, is never removed later: the next run takes it for
an address of the machine. A log file may grow to the limit once per program that
shares it and once per rename that failed. A discovery timeout of 0 makes the
command-line program deaf to signals until a controller appears: its loop reads the
runtime's flag and not the one the signal sets. `--slice-us` with a multiple of 2^32
is taken as 0. When an IDN channel closes,
the driver leaves frame mode and writes the last frame once more as slices before
it falls silent; the sink is reset only when the session stops.

## Fairness
- `TargetQueue`: weak fairness of the callback's steps and strong fairness of
  its lock: the controller thread keeps asking and `std::mutex` is eventually
  obtained. Nothing is assumed of submitters.
- `EtherDreamDevice`: weak fairness of the playback timer, which re-arms itself
  while the device runs. Nothing is assumed of the client.
- `LiberaTargetServer`: threads run and time passes (worker steps that need no
  client, accept loop, ticks, the joins of `stop()`). Clients may do nothing;
  nobody has to call `stop()`.
- `IdnSession`: the driver and the server thread run, the replay time passes and
  `start()` and `stop()` proceed. Clients may do nothing and nobody has to start
  or stop the host.
- `HostFleet`: a call of the runtime and of a host proceeds, and the advertiser is
  a thread that runs. Other programs may hold a port or an address for ever, and
  nobody has to request anything.
- `CommandLine`: the program's thread runs. Signals and controllers may never come.
- `LinkGui`: the frame loop, the asynchronous calls and the monitor run. The
  user never has to act. Calls into the controller library (discovery,
  connection) are assumed to return.

## Proofs
All proofs hold for every value of the constants allowed by the assumptions.

- **Target sink** (`SubmissionAssumption`, `RateAssumption`,
  `BufferAssumption`: the ranges the constructor clamps to).
  `QueueBounded` is not inductive: a continuous submission drops against a limit
  read before the lock. The invariant `QueueInv` adds that every such stored limit
  is within the bound (`LocalsOK`) and that rate and latency stay in range, which
  bounds the limits (`RatesOK`); `QueueOK` adds that numbers in the queue are
  consecutive and end at the last one admitted. Lemmas give the range of each
  limit and what dropping, cutting and appending do to a numbered queue.
  `QueueNeverExceedsBound`, `QueueKeepsOrder` and `HoldsCanEnd` follow, for any
  number of submitting threads. The telemetry (`SinkIsConsistent`) needs to know of
  points that are in no queue: a submission counts its points as received, and only
  later, under the lock, queues, drops or hands them on. `PointsAccounted` adds those
  in flight to the inequality. A sum over an
  arbitrary set of threads would need induction over that set, so what is in flight
  is a set of pairs (thread, index) and the sum its cardinality. `AcceptedAreQueued`
  is an action property: it compares the answer computed in the critical section with
  the queue that section leaves. `SinkIsAtomic` is the refinement of `AtomicSink`: only
  the critical section of a call changes the queue, and everything a thread does before
  and after it is a stutter. It needs more than the bound of the stored limits: `CallsOK`
  says that a limit computed at an older rate and latency still leaves room for
  `MinPoints`, and that a call carries points, so that a drop, which looks for a frame
  boundary behind the excess, never takes the last point (`BoundaryDropLeaves`). A fill
  that hands out nothing is a stutter too.
- **Ether Dream device** (`DeviceAssumption`). `TypeCorrect` first; then
  `DeviceInv`, the conjunction of the safety properties with `SessionShape` (no
  session, no playback), is inductive. `RoomIsReal` needs that every reply is computed
  after the command has changed the buffer and that nothing but a command adds to it;
  `DeviceIsConsistent` combines its type with conjuncts of the invariant. The timer is the hard case: it takes points
  off the front, and as many rates as those points ask for, so what is left is
  still of the current run. `EstopSafe`, `RunsAreFresh`, `StoppedTargetsAreReset`
  and the action property `PlayNeedsPrepareHolds` follow.
- **Libera target server** (`ServerAssumption`). `SessionInv` adds to
  `ExclusiveOwnership` whose points the sink may hold at each position of a
  worker. Every step is first classified (`StepKinds`) as quiet, acquiring,
  clearing, submitting or releasing; the invariant and the refinement theorem
  `ServerImplementsExclusiveSink` are proved per kind. `ServerIsConsistent` adds the
  accounting of threads and sockets (`ThreadsOK`: only the accept thread's current
  socket has no worker yet, every worker is in the list that `stop()` joins, and `stop()`
  goes on to that list only when nobody can add to it); `PendingFramesAreSane` adds what each place of a session says of
  the frame it assembles (`FrameOK`).
- **Libera host** (`TargetsAssumption`, `PortsAssumption`). `LiberaHostTyped`
  first: a new port is the smallest unused one between the base port and the largest
  port, so it is in range. `PortsDistinct` is not inductive: `stop()` and
  `removeTarget()` move servers from the list to `closing`, where they still hold
  their ports. `LbInv` adds `CallShape`, which says for each place of a call what is
  in the list, what is on its way out and whether the advertiser lives. From it
  `PortsAreDistinct`, `StoppedHostsAreSilent` and `RatesAreOrdered`, for any set of
  targets, any options and any ports taken by others.

- **IDN host** (`IdnAssumption`). `SinkOwned` says where `start()` and
  `stop()` are while the driver thread lives and what the sink may hold at each
  place; it is inductive because the driver is joined between `running_ = false`
  and the second reset. `OtherSteps` classifies the steps of the other threads:
  they leave the sink alone or submit from a living driver.
  `IdnHostImplementsExclusiveSink` follows. `SessionIsConsistent` rests on the order
  of chunks along their way: queued in the adapter, in the slices already cut, in the
  frame the driver has, submitted. `OrderOK` says that each place holds nothing older
  than what has left it; the newest chunk of a set is a maximum, which exists by
  well-foundedness of `<` on the naturals. `FreshFramesAlwaysFlagged` uses the same
  invariant.
- **Ether Dream host** (`NetworkAssumption`). `AddressesAccounted` is not inductive:
  an alias may be removed only while no device listens on it (`NoDeviceYet`), each
  device takes the address found for it (`AddressForEach`), and an alias lies in the
  subnet because the walk through the candidates stays below the broadcast address and
  above the network it started in (`WalkInSubnet`). `EdAddressesAccounted` holds for any
  netmask, interface list, base address and options, any number of targets, and any
  pattern of failed removals and crashes.
- **Hosts of a link** (`TargetsAssumption`: finitely many targets; `NetworkAssumption`:
  an interface's address and broadcast address, and a base address that parses, are
  addresses of `Width` bits, and the subnets of its netmask fill that range, because a
  netmask is a prefix; a base address in 127.0.0.0/8 is not among the options). None of the properties
  of the fleet is inductive: they speak of the moments between two calls of the runtime
  and have to survive the places of `start()` and `stop()` where hosts are half dealt
  with. `FleetInv` is the conjunction of
  - `HostsInv`: the invariants of both hosts, with `EdPlaced` and `EdWalk` (every
    address found or tried is an address). Only one call is in progress, so a step of one
    host leaves the invariant of the other as it was (`LbAside`, `EdAside`), and a crash
    takes down both;
  - `FleetTyped` and `CallFits`: which call each place waits for, and what that call has
    done so far (`StopCall`, `StartCall`; a lemma each for how a call begins, goes on and
    ends);
  - `UpdateFits` and `CurrentFits`: during an update the hosts in `nextHosts` serve their
    new groups with the endpoints listed for them, those in `rest` serve what they
    served, all others are down, and the one in hand is between its old and its new
    targets;
  - `TakenDown`: while hosts are destroyed, exactly those in `rest` may still serve;
  - `AtRest`: between two calls, every host serves what the runtime lists for it and
    the published targets are their union.

  There is one lemma per action. A request's groups have to be shown to be apart and to cover
  its targets: `GroupsSound`, which rests on the ranks of a finite set being a bijection
  (`AscendingSound`). `FleetIsConsistent`, `FleetPortsDistinct`,
  `FleetAddressesAccounted`, `EndpointsAreCurrent` and the action property `TargetsStay`
  follow.
- **Runtime and frame loop** (`RuntimeAssumption`, `GuiAssumption`). `LinkInv` is the type
  invariant with `OneAtATime` (at most one call is in flight, and which call it is
  follows from what the frame loop waits for), `RoutesKnown` and `HostsKnown` (what each
  place of a call says of the hosts that serve and of those the runtime knows) and
  `Leaving` (what is left to do when the window closes). `CallsAreExclusive` and
  `LinkIsConsistent` follow.
- **Command line** (`CommandLineAssumption`; `RegistrationsAssumption`: ids of hosts are
  different and one host that can be used is flagged as default, as the three of the
  repository are). `OptionsAreRead` compares the parser, which takes one argument per
  step and consumes the value of an option with it, with a reading of the whole list.
  That reading is recursive (whether an argument is an option depends on the one before),
  and the prover cannot do induction over lists. So the recursion is given a closed form:
  an argument is an option when it stands an odd number of places behind the last one
  that can only be a flag (`Alternates`). That place exists because `<` is well-founded, and
  the closed form satisfies the recursive equation, which therefore has a solution and may
  be used at every argument. The induction is then over the steps of the parser: `CliInv` says that after each step the options are what the
  arguments so far say (`ReadUpTo`), with one lemma for a number, a switch, a repeated
  option and an argument that is ignored (`NextNumber`, `NextSwitch`, `OptionEffect`,
  `ReadsOption`, `ReadsFlag`). That every registrar has run
  before the first argument is read (`Registered`) makes the default host the flagged one
  in any order of registration.
- **Front ends** (`SettingsAssumption`, `LoggerAssumption`). `AvbErrorsAreShown` is
  inductive with the types. `SettingsAreConsistent`:
  what a file holds is compared through the writer and the reader of its lines, so the
  invariant (`FilesHold`) speaks of what would be loaded. `LogIsConsistent`: a program trusts the size
  it remembers, so the bound on the file is not inductive; `FilesBounded` adds what each
  running program believes it may still write, again as the cardinality of a set of
  pairs, and `ShowsRecent` relates the lines of the window to all lines written.

Only model-checked are the liveness properties, which need fairness and ENABLED, which
the prover does not handle: `StarvationRearms`, `SilentClientStopsPlaying`,
`SilentClientsAreDropped`, `StopReturns`, `ClosedChannelGoesQuiet`, `FlushEnds`,
`CloseReturns`, `GuiSettles`, `UpdateReturns`, `AddedTargetsAreAdvertised` and
`InterruptEnds`. Every other property of a passing run is a theorem or a conjunct of one.

The boundary search of a drop is written without recursion, as the least index with
a property, since induction over sequences is not available.

## Plan
Done: the sink, the Ether Dream device and host, the Libera target server and host,
the IDN host, with `ExclusiveSink` as the promise of both servers and `AtomicSink` for
the atomicity of the sink they use; the runtime under the frame loop and its updates host by host; registry, command line, logger and
settings.

Left, in this order:

1. **Composition** of a session with the sink. `SinkIsAtomic` justifies that the sessions
   submit and reset in one step; what is left is one module in which a session calls
   `AtomicSink` itself in place of its abstract contents, and `HostFleet` with an
   `ExclusiveSink` per target.
2. **Proofs** of what the liveness properties rest on: the action properties by which
   each wait makes progress.
