# A TLA+ model of microinit

microinit is a small init and service supervisor: as PID 1 it boots a set of
services from a configuration, supervises their processes, answers an IPC
socket, reaps every zombie of the system, and takes everything down again on
shutdown. This directory models its core in TLA+, model-checks it with TLC on
small instances, and proves some of its invariants with TLAPS for all instances.

## 1. Inventory

### Components, their state and their operations

| Component | Source | State | Operations | Modelled in |
|---|---|---|---|---|
| Service supervisor | `src/supervisor.rs` | `runtimes` (state, pid, enabled, ...) under one mutex, `stop_all`, one control channel per monitor; each monitor thread's `tracked`, `liveness_streak` | `boot`, `start/stop/restart_service`, `set_enabled`, `reload`, `stop_all_ordered`, `monitor_loop`, `do_start`, `stop_tracked`, `on_process_exit`, `maybe_liveness` | `Supervisor`, `ProcessContract`, `Reload` |
| Start and stop order | `src/graph.rs` | none (pure) | `topological_sort`, `partition_boot`, `shutdown_order` | `ServiceGraph` |
| Watch fan-out | `src/watch.rs` | followers, one coalescing slot per follower | `try_subscribe`, `publish`, `wait_timeout`, drop | `WatchHub` |
| Child reaping | `src/reaper.rs`, `src/signals.rs` | map pid -> exit, capped; shutdown flag | `reap_zombies`, `publish`, `take`, `wait_take`; handlers, `take_shutdown` | `ExitRegistry`, `InitSequence` |
| Service processes | `src/service.rs` | none | `spawn`, `run_shell`, `terminate_pid`, `wait_via_registry`, `build_shell_command` | `Supervisor`, `ExitRegistry`, `ChildSetup` |
| Liveness probes | `src/liveness.rs` | none | command, TCP and HTTP probe | outcome in `Supervisor`, kind in `ConfigLoad` |
| Configuration | `src/config.rs` | files | load, merge, override, validate, `resolve_*` | `ConfigLoad`, `Reload` |
| Enabled override | `src/supervisor.rs`, `src/config.rs` | override file and its temporary file | load, modify, save | `Reload` |
| Configuration watch | `src/config_watch.rs` | events in the debounce window, channel | reload signal | `Reload`, `InitSequence` |
| Log hub | `src/logs.rs`, `src/log_bridge.rs` | line rings, boot tee, followers | publish, snapshot, follow | `LogHub` |
| Control socket | `src/ipc.rs`, `src/protocol.rs` | client threads | request dispatch | as the client actions of the modules |
| Init sequence | `src/init.rs`, `src/main.rs`, `src/shutdown.rs`, `src/unmount.rs` | main thread, shutdown flag | early boot, load, serve, watch, boot, main loop, shutdown, unmount, reboot | `InitSequence` |
| Early boot | `src/early_boot.rs` | pipe, captured lines | run the script, capture under limits | `EarlyBoot` |
| Security context | `src/security.rs` | resolved identities, credentials of a child | `resolve`, `apply_pre_exec` | `ConfigLoad`, `ChildSetup` |
| Environment files | `src/envfile.rs` | cache of variables | load, snapshot | `ConfigLoad`, `ChildSetup` |
| Metrics, OpenTelemetry variables, client commands, formatting helpers | `src/otel*.rs`, `src/cli.rs`, ... | - | parsing, export and formatting | not modelled: sequential data transformation |
| Go host, client, config writer | `go/` | handle of a spawned microinit | `EnsureRunning`, `Shutdown`, ... | planned (host) |

### How they interact

Operators' requests arrive on IPC threads, one per connection. They call the
supervisor, which changes `runtimes` under its mutex or queues a control message
(`Start`, `Stop`, `Restart`, `Quit`) for the monitor thread of a service. Each
monitor runs a loop: take a message (or time out), collect the exit of the
process it tracks, retry a start that waits for a dependency, probe. Starting and
stopping are blocking calls inside that loop. Exits come from two threads that
call `waitpid(-1)` and publish into the exit registry, from which the monitors
take them by pid. Every state change is pushed to watch clients through the
watch hub, every line of a service or of microinit to log clients through the log
hub. The main thread runs early boot, loads the configuration, opens the socket,
starts the watch, boots the services, and then turns between the reload channel
and the shutdown flag. A reload loads the files again and walks the difference,
spawning and ending monitors while requests go on. At shutdown it raises `stop_all`,
sends `Stop` and `Quit`, runs the unmount script and reboots.

### What is hard

The mutex is held for one read or one write at a time, so almost every decision
is taken in one critical section and applied in another. Monitors block for long
times in scripts, grace periods and job waits, and what reaches their queue in
the meantime is served late. Exits are keyed by a pid that the kernel reuses.
Several paths (retry, probe, crash handling, queued messages) may each start a
process. A load reads a dozen files and the user database one after the other,
and a request for enable or disable saves a file without a lock. What a child may
still do depends on the order in which it gives privileges up. Early boot must not
let a script's output, or a process it left behind, hold up the machine.
`PROJECT.json` lists such places under `hazards`, with the properties that watch
over them.

## 2. Modules

| Module | What it is |
|---|---|
| `Supervisor` | the supervisor for one fixed configuration |
| `ProcessContract` | what the supervisor promises of a service's processes; `Supervisor` is checked to implement it |
| `SupervisorProofs` | theorems about `Supervisor` |
| `ServiceGraph` | topological sort and the boot and shutdown orders |
| `ServiceGraphProofs` | theorems about `ServiceGraph` |
| `WatchHub` | watch clients, slots, and the writers that publish |
| `WatchHubProofs` | theorems about `WatchHub` |
| `ExitRegistry` | kernel, reaping threads, registry, waiting threads |
| `ExitRegistryProofs` | theorems about `ExitRegistry` |
| `Reload` | configuration watch, reload of the main loop, `set_enabled` with the override file, the monitors as reload sees them |
| `ReloadProofs` | theorems about `Reload` |
| `LogHub` | publishers, rings, boot tee, followers, the logs request |
| `LogHubProofs` | theorems about `LogHub` |
| `EarlyBoot` | the early-boot script, its pipe, the reader, the waiting main thread |
| `InitSequence` | extends `EarlyBoot`: the main thread from `main` to `reboot(2)`, signals, shutdown requests, getty, unmount |
| `InitSequenceProofs` | theorems about `InitSequence` and `EarlyBoot` |
| `ConfigLoad` | the load of files, override, environment and identities, while they change |
| `ChildSetup` | extends `ConfigLoad`: a child between fork and exec |
| `ChildSetupProofs` | theorems about `ConfigLoad` and `ChildSetup` |
| `MCSolo`, `MCChain`, `MCGraph`, `MCWatch`, `MCExits`, `MCReload`, `MCLogs`, `MCInit`, `MCLoad` | instances for TLC |

A definition whose name ends in `_Something` after the name of another definition
and whose comment says "Mutant" is a deliberately wrong variant of that
definition. `PROJECT.json` names, for each property, a variant that breaks it.

### Supervisor

Variables stand for the fields named in their comments. `pc` is where a monitor
thread is between two acquisitions of the runtimes lock or two blocking calls,
`why` the handler on whose behalf `stop_tracked` or `do_start` runs, `held` a
value computed under one lock and used under a later one, `child` the pid a
blocking call waits for. Four variables are histories that no action reads: `last`,
the last message the monitor handled; `killed`, pids whose process was sent SIGKILL and
is still there; `lost`, pids given up by a wait that ran out after the SIGKILL; `over`,
pids whose process was spawned while such an unclaimed exit was in the registry, so that
it is taken for dead.

| Code | Actions |
|---|---|
| `monitor_loop`, top and message | `TopRecv`, `TopExit`, `RecvStop`, `RecvRestart`, `RecvStart`, `RecvStartIgnored`, `RecvTimeout` |
| `monitor_loop`, idle round | `PollExit`, `PollRetry`, `PollIdle` |
| `on_process_exit` | `Exited`, `MarkExit`, `BackoffDone` |
| `maybe_liveness` | `LiveState`, `LiveSkip`, `LiveNotDue`, `LiveDue`, `ProbeOk`, `ProbeFail`, `ProbeRestart` |
| `stop_tracked` and its callers | `BeginStop` (an operator of several actions), `StopScriptDone`, `Kill`, `TermReaped` (with `CollectOrGiveUp`), `AfterStop`, `MarkStop`, `AfterStopExit`, `AfterStopStart`, `AfterStopScript`, `RestartScriptDone` |
| `do_start` | `DsEnabled`, `DsDeps`, `DsMark*`, `DsSpawn`, `DsSpawnFails`, `DsErr`, `DsEarlyExit`, `DsStayedUp`, `DsJobExit`, `DsJobTimeout`, `DsJobKilled` (with `CollectOrGiveUp`) |
| IPC handlers | `ReqStart`, `ReqStop`, `ReqDisable`, `ReqEnable`, `ClientSetState`, `ClientSend` |
| `boot`, `stop_all_ordered` | `Boot`, `BeginShutdown`, `StopAll`, `QuitAll` |

Choices made:

- There is no clock. A timer that runs (`recv_timeout`, backoff, `startWaitSecs`,
  job timeout, grace period, `wait_settled`, the sleeps of `stop_all_ordered`,
  the probe period) may fire at any step; so the model has every behaviour that
  some assignment of durations allows.
- A child that exits is reaped and its code published in the same step.
  `ExitRegistry` opens that step.
- The wait that follows a SIGKILL is bounded and its result is not looked at
  (`src/supervisor.rs:1147`, `:1313`). `CollectOrGiveUp` has both ends: the exit is
  taken, or the wait runs out and the monitor goes on, to a start too, while the
  process is there. A process that was killed ends when it ends, or never; its exit then
  stays in the registry, and the next process with its pid meets it.
- Only the process that the service is (and a restart script, which may become
  the service) is a child of the model. Stop scripts, restart scripts and jobs end when they
  do, or never: `run_shell` waits without a bound (`src/service.rs:219`), so their end is a
  step nothing is assumed of. A probe is bounded by its timeout and is a step of the
  monitor. A daemon that a SysV script leaves in the background is not tracked by the code
  and is not a process of the model.
- `AfterStopStart` is also enabled for a service with a restart script, because a
  script that cannot be spawned counts as failed.
- `Quit` reaches a monitor only during `reload`, which this module leaves out;
  that shutdown's own `Quit` is never received is checked (`QuitNeverReceived`),
  so the missing branch cannot be reached.
- Monitors exist and IPC is served from the initial state on, also before and
  during boot, as in `src/init.rs`.
- Restart counters, the event ring and the log are not modelled: nothing the
  supervisor does depends on them.

### ServiceGraph

One step per iteration of the sort. Service names are numbers, whose order is the
alphabetical order; `dependsOn` lists may repeat a name, name the service itself
or an unknown service. `Config::validate` rejects unknown names before the sort
is reached, but does not look for cycles, so a reload can bring a cycle in: boot
is refused then, and `stop_all_ordered` falls back on the reverse of the
configuration.

### WatchHub

A writer changes the state and runs `notify_watchers`: look at the follower
count, take the list, look again, publish. Each is a step. A watch client
registers an empty slot, runs `notify_watchers` itself, then waits for new
generations. The list is kept by value; the slot's condition variable is the
guard of `Deliver`. Heartbeats carry no state and are left out. The `u64`
generation does not wrap.

### ExitRegistry

The kernel hands out pids and turns processes into zombies; orphans inherited by
PID 1 are processes nobody waits for. `Reap` is one `waitpid(-1, WNOHANG)`, which
frees the pid; `Publish` is one entry of the batch. An exit code is the number of
the process it belongs to, so a wrong delivery is visible. The kernel allocates pids in
a cycle, so a pid is not handed out again while a thread still waits for it or a
reaper carries its exit, both of which are short (`Fork`, external). An entry that nobody
takes, of an orphan or of a child that was given up, stays in the map for ever, and the
pid may well come back while it is there: `over` remembers the threads that this happened to.

### Reload

| Code | Actions |
|---|---|
| `config_watch::spawn` | `Edit` (a save), `Signal` |
| `init::run`, reload branch | `LoadFiles`, `LoadOverride` |
| `reload` | `CloneOld`, `RemoveStop`, `RemoveQuit`, `RemoveDrop`, `Replace`, `AddRuntime`, `SpawnMonitor`, `StartAdded`, `ApplyEnabled`, `SendToggle`, `SendRestart` |
| `set_enabled` | `SetConfig`, `LoadMap`, `LoadMapFails`, `ApplyRequest`, `SendRequest` |
| `write_json_atomic` | `OpenTmp`, `WriteTmp`, `WriteFails`, `Rename`, `RenameFails` |
| `monitor_loop`, messages and retry | `RecvGone`, `Recv`, `Stopped`, `RestartScript`, `Retry` |
| `do_start` | `NoStart` (disabled, or a dependency missing or down), `Start`, `StartFails` |
| `on_process_exit`, `maybe_liveness` | `ExitRestart`, `ExitEnds`, `ProbeFails` |

A monitor is what reload can tell of it: it looks its definition up when it takes
a message, and a stop or start takes as long as it takes. It has the definition that its
last start or restart script brought up (`runs`), whether it tracks a process (`tracked`; a
restart script and a SysV start leave none), and whether a start or process of its own has
ended (`fell`). A start may fail to spawn, exit early or time out, a process may crash with
or without a restart due, a probe may fail. `Supervisor` has the inner steps. The temporary
file is an inode: a writer that has it open keeps writing to it after another one has renamed
it to the override file (`fd`).

`hist` is read by no action. `acked` is what clients were told. The others are sets of
services and mark the windows in which the code gives no guarantee: requests that were in the
save together (`overlap`, only the services of those requests), a request that met a reload or
another request for the same service (`raced`), a save that failed after the configuration had
changed (`failed`, until the next request for the service; `broken`, for good), a service added
again while its earlier monitor lived (`twins`). Each property names the windows it excludes,
and section 5 says what happens in each.

Two steps are coarser than the code: the error that ends a reload when a thread cannot be
created (`src/supervisor.rs:882`) is left out, and `set_enabled` of the runtime, two lock
sections (`:188`), is one step. `Supervisor` has the two sections apart, which is
what `sup_pending` is about.

### LogHub

A line is `(writer, number)`. `PushService`, `PushMixed` and `Send` are the critical
sections of `publish_inner`; the flag of the boot tee is read before them. A request
takes its snapshot, then subscribes, then receives. What a follower may lose is said without
looking at what it was shown. `past` and `pastMixed` are all lines ever pushed to a ring; at
the snapshot, `old` is the beginning of them that is too long ago by count for the ring and the
lines the request asks for (`TooOld`, `Room`). `seam` has the lines that are pushed after the
snapshot and sent before the request subscribes.

### EarlyBoot and InitSequence

`EarlyBoot` has the script's output byte by byte, because the limits are on bytes: a
byte is text, a newline, or not UTF-8 (three bytes long once it is replaced). `ReadByte` is
one iteration of `collect_lines`, `ReadFails` a read error, which ends it, `PushLine` one call of `push_captured_line`.
What the reader has to come to is said by `LinesOf`: the output split at its newlines
(`Split`), each line cut at the limit (`Cut`).
`InitSequence` runs it as a step of `init::run` and goes on: `AfterEarlyBoot`,
`LoadConfig`, `FlushLogs`, `Serve`, `Watch`, `Boot`, `EndBoot`, then `Drain` and
`TakeShutdown` in turn, then `LeaveServices`, `RunUnmount`, `UnmountDone`, `Finalize`.
`Options` are the ways `main` can call it. A fault is a call to the system that fails.
The services are up or told to stop; what they do is in the other modules.

### ConfigLoad and ChildSetup

One step per file that is read, so that the files and the user database may change in
between (`Change`). A service is a record of what the checks and the child look at;
`tag` tells its definitions apart. A file is a sequence of services; `LaterWins` speaks of
the files by place, 0 the main file and then the drop-ins in the order of their names,
and of the last definition in the last place that has one (`LastWord`). Refusals that are not about services (a relative
`earlyBoot.logsPath`, an unknown name in `socketAllowUsers`) are the second disjunct of
`ValidateDraft`. `ChildSetup` takes a definition from the configuration, as a monitor does,
and then runs the calls of `apply_pre_exec` on the credentials the kernel keeps: user, group,
groups, the capability sets, `keep` (`PR_SET_KEEPCAPS`), `nnp` (no_new_privs). The
kernel's rules for these calls are external (`May`, `SetUid`). A call may also be
refused for another reason (`MaxFaults`).

## 3. Runs

| Run | Instance | What it shows |
|---|---|---|
| `sup_race` | one daemon, stop and restart scripts, probe with threshold 2, two clients, two requests, two pids | `TypeOK`; `StopSticks`; `DisabledStops`; `OneProcess`; `ExitsAccounted`; `QuitNeverReceived` |
| `sup_live` | a daemon with `startCmd` and `stopCmd` only that depends on a job, one restart request, one pid, fairness | refinement `KeepsContract`; `OneProcess`; `ShutdownCompletes`; `RequestsServed`; `WaitEnds` |
| `graph_sort` | all graphs of three services with up to two list entries, two priorities, disabled/foreground/background | the sort, its verdict, the boot and the stop order |
| `watch_hub` | two writers, three clients, two slots, fairness | no change missed, no wakeup lost, a first list for everyone |
| `exit_registry` | two reapers, two waiters, two pids, five processes, a registry of one entry, fairness | exits reach their owners (`OwnProcess`, `ExitDelivered`) |
| `reload` | two services, one needing the other, a daemon and a job definition, two clients, monitors for two rounds of adding, one call, start or process that fails | `ConfigFollowsDisk`, `AckDurable`, `Registered`, `Applied` |
| `log_hub` | two writers, three requests, rings and followers of two | `LostOnlyInSeam`, `ClientOrder`, `DroppedOnlyAtCap` |
| `init_seq` | process 1, init and supervise, four bytes of output, one fault, two requests, one edit, fairness | `LogsKept`, `Teardown`, `CaptureLongest`, `PipeDrains`, `EarlyBootEnds`, `ShutdownServed` |
| `load` | main file, two drop-ins, two services, flawed definitions and every kind of identity, two changes, one child | `LaterWins`, `AcceptedRuns`, `KeepOld`, `ChildIdentity`, `OrderWorks` |
| `sup_pending` | the daemon of `sup_race` | violation of `StateShown`, see section 5 |
| `sup_stop_order` | two daemons, one depending on the other | violation of `ReverseStop`, see section 5 |
| `reload_orphan` | the services of `reload`, one edit | violation of `NoOrphan`, see section 5 |

Each module has a type invariant; each holds in its instance. The runs list only that of
`Supervisor`, which is the one that says something of its own (the failure streak).

### Bounds

`MaxRequests` bounds the operators' requests. Two requests by two clients are
enough for one to overtake the other between its enabled check and its
message; boot and shutdown add their own messages. With two pids (`sup_race`) a monitor can
go on with the second while the first is still held by a process that outlived its kill;
with one (`sup_live`) it meets the exit of that process, or finds no pid to start with.
Crashes, probes, retries, timeouts and kills that do not work are not bounded. `MaxWrites`
(`watch_hub`): one change together with the seeding of three clients gives up to four
publishers. `MaxSpawns` (`exit_registry`): five processes on two pids, so that pids come back
while the map has their entries, and the registry of one entry overflows. `graph_sort` enumerates all
inputs of its size.

`reload`: `MaxEdits` = 2 lets a service be removed and added again, or changed while
the first reload is under way; `MaxWork` = 4 allows two requests and no edit, one request
and two edits, or anything between, since the windows open between two of them;
`MaxFaults` = 1 is a failing call on the override file, start, process or probe; the
monitors are enough for every behaviour within these bounds. One service has an entry in the
override file from the start (`Earlier`), so that a lost entry shows. The instance has 2.8
million states up to the symmetry of the clients. `log_hub`: with three
requests and room for two followers the cap acts, and rings of two overflow.
`init_seq`: four bytes with lines of one byte, two lines and three bytes are
enough for each limit to act alone and together; a pipe of one byte is always full
or empty. `MaxEarly` = 1: one signal before the end of early boot (later ones only
overwrite the flag). `load`: two changes reach a load that sees one file
before and another one after a change, and a reload of the result.

### Fairness

`FairSpec` of `Supervisor`: weak fairness of each monitor thread, of each IPC
thread that has begun a request and of the main thread's sends, since the kernel
schedules runnable threads, every lock section is short and the waits that count as steps
of these threads have a timeout that runs out (`recv_timeout`, backoff, `startWaitSecs`, the
job timeout, the grace period, the wait after SIGKILL, a probe). Nothing is assumed of
services, jobs, killed processes, operators, or of when a shutdown is asked for, and nothing
of stop and restart scripts, for which the code waits without a bound. The three
liveness properties therefore speak of a monitor that is not held by a script for ever, `[]<>(pc[s]
\notin ScriptPc)`: that is exactly what the code gives. `WatchHub` and `ExitRegistry`
assume the same of their threads only. `InitSequence` assumes it of the main thread, of the
reader and of the IPC thread that has answered a shutdown; nothing of the early-boot
script, of what it leaves in the background, of the unmount script, or of requests.
`ShutdownServed` names the two waits that may last for ever.

## 4. Proofs

`SupervisorProofs` holds for every set of services, pids and clients, every
configuration that `Config::validate` accepts, every number of requests:

- `TypeCorrect`: `Spec => []TypeOK`, one lemma per group of actions, including
  that the failure streak stays below its threshold;
- `OwnershipHolds`: `Spec => []Ownership`;
- `OneProcessHolds`: `Spec => []OneProcess`;
- `ExitsAccountedHolds`: `Spec => []ExitsAccounted`;
- `StopSticksHolds`, `DisabledStopsHolds`, `QuitNeverReceivedHolds`: the other
  invariants of its runs;
- `KeepsContractHolds`: `Spec => KeepsContract`, the refinement of `ProcessContract`.

None of these is inductive by itself. That the exit a monitor is going to take is really
to come depends on where the monitor is: while it is in its loop the process is in
`tracked`, while it is inside `stop_tracked`, `do_start` or the restart script it is in
`child`, and never in both. `OwnerPc` says so; `AllKnown` that a live process outside these was
given up after a SIGKILL, or taken for dead by the exit of such a one; `KilledFirst` that a
monitor in the wait after a kill has killed what it waits for; `Apart` that the processes of
two services never share a pid. `Ownership == OwnerPc /\ AllKnown /\ ExitsAccounted /\
Apart /\ KilledFirst` is inductive. Each of the others needs to say where a monitor can be:

- `StopAt`: a monitor whose last message was Stop is in `stop_tracked` on behalf of that
  Stop, or back in its loop with no process and in a state that neither retry nor
  probe acts on;
- `DisabledAt`: the Stop is owed not only from the moment there is a process but from the
  moment `do_start` has passed its look at the enabled flag (`Committed`), because the
  disable may come between the look and the process, or while the state is going to stay
  Running (`Stays`); `PathAt` follows a Restart to its script, the one way to Running that does
  not look at the flag;
- `QuitInv`: Quits come after all the Stops, and a monitor that still receives has its
  Stop in the queue in front of any Quit (`StopFirst`); once `stop_all` is up nobody goes
  back to receiving without looking at the flag;
- for the refinement every action is shown to move the life of its own service by one of
  the moves of the contract and to leave the others alone (`OwnStep`, `Moves`); that the next
  process starts only after the last one was reaped or given up is `Ownership`, that none starts
  after a Stop is `StopSticks`.

Assumptions used: `CfgAssumption`, `OrderAssumption`, `PidAssumption`, `BoundAssumption`.

`ServiceGraphProofs` holds for every configuration, every set of dependency
lists and priorities:

- `SortInvHolds`: `Spec => []SortInv`, the inductive invariant;
- `TableExactHolds`, `TopologicalHolds`, `GreedyHolds`, `VerdictRightHolds`,
  `StopsAllHolds`, `BootFeedsHolds`: the properties of `graph_sort`, and that a
  service is overtaken only while it waits (`Greedy`);
- `TypeCorrect`: `Spec => []TypeOK`, the orders of the callers included.

The exactness of the table carries the argument: the positions of a list that
are still open lose exactly the edges of the popped service, so equality of the
two counts means equality of the two sets, which means that everything the
service needs is placed. That needs the order to be closed under dependencies
(`Topological`), and the two are proved together. `Overtaken` remembers what was
true of each service that was passed over when another one was popped, and is what
makes `Greedy` inductive; `Avoids` says that a set of services that waits for
itself is never entered, which gives the verdict once the order is as long as the
configuration (`FullOrder`, by counting). Assumptions used: `ConfigAssumption`
(names are unique, as `Config::validate` requires), `DepListsAssumption`,
`PriosAssumption`, `KindsAssumption`. `BootFeeds` is about the lists that `partition_boot`
picks from the order; `Taken` says what has been picked after each service, and the
order being topological does the rest (`ListFeeds`).

`ExitRegistryProofs` holds for every set of pids, waiting and reaping threads, every
cap and number of processes:

- `OwnProcessHolds`: `Spec => []OwnProcess`, from the inductive `RegistryInv`
  (`RegistryInvHolds`).

`Shape` gives the types that matter; `Numbered` says that no process has a number
that was not given out yet; `Accounted` says
of a waiting thread (`Owned`) that its process, and no other, holds its pid or is in a batch under
it, and that an entry of the map is its own or, if the pid had an entry at the fork, an older
one, and of a thread that is done (`Taken`) that it took one of these. Overflow needs no
exception: an entry that is dropped makes nobody take a wrong one.

`WatchHubProofs` holds for every set of writers, watchers, services and states, every
cap and any number of changes:

- `HubInvHolds`: `Spec => []HubInv`, the inductive invariant;
- `WakeNotLostHolds`, `NoWriteMissedHolds`: both invariants of `watch_hub`.

`Caught` (at equal generations the client has been shown what its slot holds) carries
the first, `Coming` the second: a registered slot was offered the current list, or some thread
has not taken its list yet, or holds the current one. The two looks at the follower
count cannot stop that thread, because the slot is registered (`Registered`), and
a thread that publishes an older list cannot be the only one (`Past`). Assumptions
used: `BoundAssumption`, `ThreadsAssumption`.

`InitSequenceProofs` holds for every launch and any number of faults, requests, edits
and bytes of output:

- `TeardownHolds`: `Spec => []Teardown`. `WayInv` adds what is true before the end:
  `FlagLatest` ties the shutdown flag to the last request until the loop has taken it,
  `Descent` says step by step what each stage of the way down has behind it, and `Scope`
  which ends a launch can have at all;
- `LogsKeptHolds`: `Spec => []LogsKept`. `LogInv` says, for each stage of the boot, whether
  the lines have been written yet and which file decides about it, `FirstPlace` that
  `persist_early_boot_logs` picks the first place that asks;
- `CaptureLongestHolds`: `Spec => []CaptureLongest`. `CapInv` says what the reader has while it
  reads: some bytes `c` have been read and the rest is in the pipe, the line so far is what
  `c` leaves open, cut at the limit, and the kept lines are the longest end of the lines of `c`
  that the limits allow (`Keeps`). `PushKeeps` is the argument about `push_captured_line`: it
  stops at the first line from which both limits hold, every longer end passes one of them,
  and what passed a limit before the new line passes it with the new line (`LimitsGrow`). That
  evicting everything is always enough is `LimitAssumption`: a line of the longest kind, all of it
  replaced, fits (4096 bytes against 256 KiB in the code).

`ReloadProofs` holds for every set of services, definitions, clients and dependencies and any
number of edits, faults and rounds of adding:

- `TypeCorrect`: types, that whatever a thread works on is there (`Where`), and that the table
  names no monitor that was not spawned (`TableBorn`);
- `AckDurableHolds`: a request that met no other is the only one that saves, with the
  temporary file its own and its map the file with its own entry changed (`OneSaves`), a
  service whose requests met no other has one at most (`OneAsks`), and for every service outside `overlap` the file, the temporary file
  that will replace it and every map on its way there hold the acknowledged word (`Kept`),
  whatever the overlapping ones do to each other;
- `ConfigFollowsDiskHolds`: with no event on its way, what the main thread has loaded is what
  is on disk, what is in place is that, or a request is about to save it (`FollowInv`);
- `RegisteredHolds`: table, runtimes and configuration agree up to where a reload has come in
  its loop (`Together`, `Passed`), and who is in the table serves its own service and was told
  no Quit (`TableInv`); the two are inductive together (`TableHolds`);
- `AppliedHolds`: five invariants on top of `TableHolds` follow every message from the request
  or reload that is going to send it (`Coming`) to the monitor that serves it. `ServedInv`
  says of a calm service that the last of its messages fits the flag (`Off`, `On`), that what
  runs with another definition than the configured one has a Stop or Restart ahead of it
  (`Right`), that the state shows what runs unless a Stop is due (`Shown`), that an enabled
  service with nothing up has fallen, waits for a dependency, or needs one that is listed after
  it (`Down`, `Excused`), and that no earlier monitor of it is at work (`Alone`). `FlagInv`
  ties the flag of the runtime to the configuration, up to where a request or the reload has
  come; `WaitInv` says that only an enabled service waits, `NeedsInv` that the
  configurations before and after a reload are closed under dependencies, `FreshInv` that a
  runtime that has no monitor yet is as reload made it. At rest no message is coming, and a service
  that waits has a dependency that does not show as up (`RestApplied`).

Assumptions used: `OrderAssumption` (the order of the file has every service once, as
`Config::validate` requires), `MonitorsAssumption` (monitors are numbered as they are
spawned), `MarkAssumption` and `NobodyAssumption` (the marks for "nothing" are no
values), `BoundAssumption`.

`LogHubProofs` holds for every set of writers, requests and services and every capacity:

- `TypeCorrect`: types, the caps of rings and follower list, that a request that has not
  subscribed is in no list;
- `DroppedOnlyAtCapHolds`: behind a follower in the list there are at most as many others as
  have subscribed after it (`DropInv`);
- `LostOnlyInSeamHolds`: a ring is the end of all that was pushed to it, as long as it can be
  (`PastInv`), so what was pushed before a snapshot and is not too old by count is shown by it
  (`BeforeInv`), and what came later is in the seam or in the channel (`SeamInv`);
- `ClientOrderHolds`: rings and channels are strict for each writer (`RingInv`, `ChanInv`), the
  channel goes on where what was shown ends, up to the last line of a writer (`MeetInv`),
  and a line that is still being published has been shown once at most (`ShownInv`).

Assumptions used: `BoundAssumption`, `ServiceAssumption`.

`ChildSetupProofs` holds for every set of files, users, groups and definitions, and
any number of changes, spawns and faults:

- `TypeCorrect`: `Spec => []TypeOK`; effective and ambient capabilities stay permitted;
- `KeepOldHolds`, `AcceptedRunsHolds`: `KeptInv` (a load that runs has touched nothing yet),
  `CheckInv` (what is prepared has been checked) and `ConfigInv` (what is in use was checked and
  prepared as a whole);
- `LaterWinsHolds`: a load that nothing interfered with has, after each file, the last definitions
  of the files so far (`Gathered`, in `GatherInv`), and at the end these with the
  override and the identities (`Settled`); what one merge does is `MergeFacts`;
- `ChildIdentityHolds`, `OrderWorksHolds`: a child has a definition whose identity is what its
  context asks for (`Sound`, from `ResolveMeets`), and step by step the groups, group, user
  and capabilities are the old ones or the asked ones (`OwnInv`, `IdInv`, `CapInv`); each step is
  shown to be permitted by what the earlier ones left and to lead to the next (`StepKeeps`).

Assumptions used: `NoneAssumption`, `MissingAssumption` (no value and no readable file are not
values and files), `OrderAssumption` (file names differ), `NumberAssumption`,
`UserAssumption`, `DiskAssumption` (types of the databases and files), `DaemonAssumption`
(`CAP_SETGID` and `CAP_SETUID` are capabilities; effective and ambient ones are permitted, which
the kernel sees to).

Several of these rest on what a recursive function computes (`Picked`, `Put` and `Merge`,
`Retained`, `Total`, `Split`). The prover has no induction over data; in its place the
proofs give the step of the recursion as a function, show that a function with these steps
exists and is the only one (`FiniteRecursion`, `Walk`), and argue with the least number
for which the claim fails (`LeastNumber`, from the well-foundedness of the natural
numbers).

Only model-checked: liveness (`ShutdownCompletes`, `RequestsServed`, `WaitEnds`,
`FirstFrame`, `ExitDelivered`, `PipeDrains`, `EarlyBootEnds`, `ShutdownServed`), which is
out of the prover's reach. Every invariant that a run expects to hold is a theorem above, and so is
the refinement `KeepsContract`; `StateShown`, `ReverseStop` and `NoOrphan` are expected to fail
(section 5).

## 5. Findings and observations

Three runs end in a violation:

- `sup_stop_order`: `stop_all_ordered` raises `stop_all` before the first ordered
  `Stop` (`src/supervisor.rs:1334`), and every monitor that sees it stops its process at once,
  so the documented reverse order (`docs/operator.md:295`) is not kept.
- `sup_pending`: `set_enabled` raises the flag and decides on `Pending` under one lock and writes
  it under the next (`src/supervisor.rs:202`). If another client's start is served in between,
  a running daemon is shown as pending, "Not started yet" (`docs/api.md:365`), and is hidden
  from probes and dependents.
- `reload_orphan`: a removed service whose monitor has not taken its `Stop` when the
  configuration is replaced, 200 ms later, keeps its process: the monitor finds no definition and
  ends (`src/supervisor.rs:943`), against "removed → stop" (`docs/configuration.md:240`).

Other places where the documentation or a comment says more than the code does. The
properties say what the code does and no more:

- Of two threads in `notify_watchers` the one with the older list may publish last
  (`src/supervisor.rs:377`), and the slot keeps it until the next change, although
  changes "coalesce to the latest snapshot" (`docs/api.md:196`, `src/watch.rs:7`).
  `NoWriteMissed` is about the lists that were offered, not about the order.
- The unmount script is waited for without a bound (`src/unmount.rs:60`, `:98`), while
  `docs/architecture.md:136`, `src/init.rs:384` and `src/unmount.rs:9` want a stuck umount not to
  hang the board. `ShutdownServed` has the exception `UnmountHangs`.
- `finalize` exits when `reboot(2)` fails, also as process 1, of which `src/main.rs:172`
  says that it "must never exit". `Teardown` names it as the only such exit.
- Unmounting follows the services being told to stop and two fixed sleeps, not their end
  (`docs/architecture.md:130`: "after all services have been stopped").
- A live configuration without `captureLogs` hides that of the image when a boot fails, although
  `docs/configuration.md:92` and `docs/operator.md:290` read as if the next place were tried.
  `LogsKept` has the places as the code tries them.

Made while modelling, about the supervisor and the sort:

- After a restart script that succeeds, `Running` is set without a pid, and
  `set_state` keeps showing that of the process that was just stopped
  (`src/supervisor.rs:154`, `:977`).
- A `Start` that is served after a disable sets `Disabled` and then, on the error it
  returns, `Failed` (`src/supervisor.rs:1214`, `:998`).
- A restart runs its script without looking at the enabled flag, so a `Restart`
  served after the Stop of a disable runs it for a disabled service and leaves it `Running`
  (`src/supervisor.rs:974`); `DisabledStops` names this as the one exception.
- A service with `startCmd` and `stopCmd` only is restarted by running `stop && start` to
  completion (`src/supervisor.rs:975`, `src/config.rs:482`). If `startCmd` stays in the foreground
  the monitor waits for the daemon itself and hears neither `Stop` nor the shutdown. The daemon of
  `sup_live` is of this kind.
- The wait after a SIGKILL ignores its timeout (`src/supervisor.rs:1147`, `:1313`): a process
  that cannot be killed at once runs on next to its successor, and its exit, published later,
  is taken for that of the next process with its pid.
- An entry that nobody takes stays in the registry (`src/reaper.rs:51`, `:56`), and `wait_take`
  for a later process with that pid returns at once.
- A line that is sent between the snapshot and the subscription of a log follower is not
  shown to it (`src/init.rs:593`).
- A daemon that exits within `startWaitSecs` stays `Failed` whatever its restart
  policy (`src/supervisor.rs:1297`); `docs/service-lifecycle.md:72` shows a restart.
- The service that the cycle error names may only depend on a cycle and not be
  on it (`src/graph.rs:74`); that it cannot start is part of `VerdictRight`.

About reload and the override (the windows of `Reload`):

- Two requests that save at once share the temporary file (`src/config.rs:840`); one of
  the changes is lost, or the override file is left torn.
- A request that races a reload can leave the old definition running, or the flag of
  the runtime different from that of the configuration.
- A disable whose save fails has already changed the flag of the configuration
  (`src/supervisor.rs:656`) and sends no `Stop`. A reload that then brings a new definition, disabled,
  finds the flags equal and restarts nothing; a later enable's `Start` is ignored while a process is
  tracked, and the old definition keeps running. `Calm` therefore excludes a service with any
  failed request (`broken`), not only one whose last request failed.
- A service added again while its earlier monitor is at work has two monitors for a
  while, and the earlier one may set its state.
- A service that is added in the same reload as its dependency and listed before it ends
  `Failed`, because the runtime of the dependency is not there yet (`src/supervisor.rs:884`),
  unless its monitor is slower than the loop. (In `reload` the dependency is listed first.)
- `earlyBoot` of the new configuration takes effect although the log says that the change
  was ignored (`src/supervisor.rs:836`).
- A reload that fails at `prepare_security` has already replaced the environment
  (`src/config.rs:943`), although it is logged as "keep old" (`src/init.rs:362`); `KeepOld`
  makes that exception.
- `find_service_source` shows the first of two entries for a service in one file, while the
  merge keeps the last.

About the init sequence:

- A background process of the early-boot script that keeps its output open holds up boot
  (`join_capture`); `EarlyBootEnds` says "and nothing it left holds the pipe".
- After a fatal error process 1 idles, with the control socket still answering if it was
  already open: a shutdown gets Ok and is never served (`ShutdownServed` ends in `Down`, which
  contains that state).
- The unmount script and getty are waited for with `Child::wait` while the reaper runs, which
  `src/reaper.rs:87` forbids; the wait may find no child, and both go on.
- Edits between the load and the start of the watch are not seen until the next edit.
- A later shutdown request overwrites an earlier one that the loop has not yet taken.
- The path of the command line for early-boot logs is used on the fatal paths only.

Outside the model: the OpenTelemetry variables of the file enter the process environment at
boot and win over later edits of the file (`src/otelenv.rs:56`, `:108`); a numeric user without an
entry in the user database inherits microinit's `HOME`.

## 6. Not modelled, and the plan

Left out for good: parsing and formatting (`cli`, `console`, the syntax of environment
files, `labels`, `version`), metrics export, the framing and authentication of the IPC
crate, durations (whether `shutdownWaitSecs` outlasts the fixed sleeps before unmount is
a question of clocks), the decisions inside a probe.

Next, in this order:

1. `GoHost`: `EnsureRunning`, the exit watcher and `Shutdown` of the Go host.
2. A composition of `Reload` with the inner steps of the monitor.
