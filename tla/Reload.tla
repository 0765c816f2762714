-------------------------------- MODULE Reload --------------------------------
(****************************************************************************)
(* Hot reload and the enabled override: config_watch.rs, the reload branch  *)
(* of init's main loop, Supervisor::reload and Supervisor::set_enabled of   *)
(* src/supervisor.rs, and the override file of src/config.rs.               *)
(*                                                                          *)
(* Three kinds of thread meet.  The main thread loads the files and walks   *)
(* the difference to the old configuration, one lock at a time.  IPC        *)
(* threads serve enable and disable: configuration, override file, runtime, *)
(* control message.  One monitor per service serves its control messages;   *)
(* module Supervisor has its inner steps, here it is what reload sees of    *)
(* it: it looks its definition up when it takes a message, a stop or a      *)
(* start takes as long as it takes, a start may fail or leave nothing to    *)
(* track, and a process may exit.  A service that is removed and added      *)
(* again gets a second monitor while the first may still be at work.        *)
(****************************************************************************)
EXTENDS Naturals, Sequences, FiniteSets

CONSTANTS
    Services,
    Defs,         \* definitions a service can have, but for its enabled flag
    Jobs,         \* those with daemon off
    Deps,         \* [Services -> SUBSET Services]: dependsOn
    Order,        \* the services in the order of the configuration files
    Clients,      \* IPC threads that serve enable and disable requests
    Earlier,      \* services that an earlier request enabled
    Monitors,     \* monitor threads in one behaviour, 1..n
    MaxEdits,     \* bound: saves of the configuration files
    MaxWork,      \* bound: a save costs 1, an enable or disable request 2
    MaxFaults,    \* bound: calls on the override file, starts, probes and
                  \* processes that fail
    Absent,       \* no entry
    Torn,         \* the contents of a file that is being written
    Nobody        \* no thread, no service

ASSUME JobsAssumption == Jobs \subseteq Defs
ASSUME DepsAssumption == Deps \in [Services -> SUBSET Services]
ASSUME OrderAssumption ==
    /\ Order \in Seq(Services)
    /\ \A s \in Services : \E i \in 1..Len(Order) : Order[i] = s
    /\ \A i, j \in 1..Len(Order) : Order[i] = Order[j] => i = j
ASSUME MonitorsAssumption ==
    IsFiniteSet(Monitors) /\ Monitors = 1..Cardinality(Monitors) /\ 1..Len(Order) \subseteq Monitors
ASSUME BoundAssumption ==
    MaxEdits \in Nat /\ MaxWork \in Nat /\ MaxFaults \in Nat
ASSUME NobodyAssumption == Nobody \notin Services \cup Monitors \cup Clients

VARIABLES
    disk,      \* microinit.json with its drop-ins merged
    file,      \* the override file: a map, empty if it does not exist, or Torn
    tmp,       \* its temporary file, Absent if there is none
    dirty,     \* inotify events inside the debounce window
    signals,   \* reload signals in the channel of the main loop
    config,    \* Supervisor.config: its services
    rt,        \* Shared.runtimes
    ctl,       \* Supervisor.ctl: the monitor that receives, Nobody if none
    mon,       \* the monitor threads
    main,      \* the main thread
    cl,        \* the IPC threads
    left,      \* what is left of the bounds
    hist       \* history, read by no action

files == <<disk, file, tmp, dirty, signals>>
shared == <<config, rt, ctl>>
vars == <<files, shared, mon, main, cl, left, hist>>

Entries == [def : Defs, on : BOOLEAN]
Maps == [Services -> {"none", "on", "off"}]
Configs == [Services -> Entries \cup {Absent}]
Msgs == {"Start", "Stop", "Restart", "Quit"}
States == {"Pending", "WaitingForDependency", "Starting", "Running", "Restarting", "Stopping",
           "Stopped", "Succeeded", "Failed", "Disabled"}

Runtimes == [on : BOOLEAN, state : States]

\* The marks are no values.
ASSUME MarkAssumption ==
    /\ Absent \notin Defs \cup Entries \cup Runtimes \cup Maps \cup {Torn}
    /\ Torn \notin Maps

\* def is the definition the monitor works with; runs is the one its last start
\* brought up, Absent if it did not or if that was stopped or has exited since;
\* tracked says that it has a process; fell, a history, that one of its starts or
\* processes has ended.
Monitor == [svc : Services \cup {Nobody}, queue : Seq(Msgs),
            pc : {"unborn", "idle", "stop", "quit", "restart", "probe", "start", "dead"},
            def : Defs \cup {Absent}, runs : Defs \cup {Absent}, tracked : BOOLEAN, fell : BOOLEAN]
MainThread == [pc : {"idle", "override", "clone", "remove", "quit", "drop", "replace",
                     "apply", "spawn", "start", "toggle", "definition"},
               old : Configs, new : Configs, gone : Services \cup {Nobody},
               at : 1..(Len(Order) + 1)]
Request == [pc : {"idle", "load", "open", "write", "rename", "apply", "send"},
            svc : Services \cup {Nobody}, on : BOOLEAN, map : Maps,
            fd : {"none", "tmp", "file"}]
History == [raced : SUBSET Services, failed : SUBSET Services, broken : SUBSET Services,
            overlap : SUBSET Services, twins : SUBSET Services, acked : Maps]

\* Every variable has its type.
TypeOK ==
    /\ disk \in Configs /\ config \in Configs
    /\ file \in Maps \cup {Torn} /\ tmp \in Maps \cup {Torn, Absent}
    /\ dirty \in BOOLEAN /\ signals \in Nat
    /\ rt \in [Services -> Runtimes \cup {Absent}]
    /\ ctl \in [Services -> Monitors \cup {Nobody}]
    /\ mon \in [Monitors -> Monitor] /\ main \in MainThread /\ cl \in [Clients -> Request]
    /\ left \in [edits : 0..MaxEdits, work : 0..MaxWork, faults : 0..MaxFaults]
    /\ hist \in History

NoMap == [s \in Services |-> "none"]
NoConfig == [s \in Services |-> Absent]
NewRuntime(on) == [on |-> on, state |-> IF on THEN "Pending" ELSE "Disabled"]
UpState(d) == IF d \in Jobs THEN "Succeeded" ELSE "Running"
Word(on) == IF on THEN "on" ELSE "off"

\* validate: every dependency of a configured service is configured.
Valid(c) == \A s \in Services :
                c[s] # Absent => \A d \in Deps[s] : c[d] # Absent

\* apply_enabled_override: an entry of the map wins over the files.
Overridden(c, map) ==
    [s \in Services |-> IF c[s] # Absent /\ map[s] # "none"
                          THEN [c[s] EXCEPT !.on = (map[s] = "on")] ELSE c[s]]

\* The program after a boot with the services of `disk`, all of them enabled,
\* daemons and alike; some were enabled by requests before the boot.
Init ==
    /\ disk \in {c \in [Services -> {[def |-> d, on |-> TRUE] : d \in Defs \ Jobs} \cup {Absent}] :
                   /\ c # NoConfig /\ Valid(c)
                   /\ \A r, s \in Services : Absent \in {c[r], c[s]} \/ c[r] = c[s]}
    /\ file = [s \in Services |-> IF s \in Earlier THEN "on" ELSE "none"]
    /\ tmp = Absent /\ dirty = FALSE /\ signals = 0
    /\ config = disk
    /\ rt = [s \in Services |-> IF disk[s] = Absent THEN Absent
                                ELSE [on |-> TRUE, state |-> "Running"]]
    /\ ctl = [s \in Services |-> IF disk[s] = Absent THEN Nobody
                                 ELSE CHOOSE i \in 1..Len(Order) : Order[i] = s]
    /\ mon = [m \in Monitors |->
                IF m <= Len(Order) /\ disk[Order[m]] # Absent
                  THEN [svc |-> Order[m], queue |-> <<>>, pc |-> "idle",
                        def |-> Absent, runs |-> disk[Order[m]].def,
                        tracked |-> TRUE, fell |-> FALSE]
                  ELSE [svc |-> Nobody, queue |-> <<>>, pc |-> "unborn",
                        def |-> Absent, runs |-> Absent, tracked |-> FALSE, fell |-> FALSE]]
    /\ main = [pc |-> "idle", old |-> NoConfig, new |-> NoConfig,
               gone |-> Nobody, at |-> 1]
    /\ cl = [c \in Clients |-> [pc |-> "idle", svc |-> Nobody, on |-> TRUE,
                                map |-> NoMap, fd |-> "none"]]
    /\ left = [edits |-> MaxEdits, work |-> MaxWork, faults |-> MaxFaults]
    /\ hist = [raced |-> {}, failed |-> {}, broken |-> {}, overlap |-> {}, twins |-> {},
               acked |-> file]

\* The control channels after send_ctl(s, msg); sending to nobody is an error
\* that callers inside reload ignore.
Receiver(s) == ctl[s] # Nobody /\ mon[ctl[s]].pc # "dead"
Posted(s, msg) ==
    IF Receiver(s) THEN [mon EXCEPT ![ctl[s]].queue = Append(@, msg)] ELSE mon

\* Shared::set_enabled on a runtime, nothing if it is gone.
Enabled(s, on) ==
    IF rt[s] = Absent THEN rt
    ELSE [rt EXCEPT ![s] =
            [on |-> on, state |-> IF ~on THEN "Disabled"
                                  ELSE IF @.state = "Disabled" THEN "Pending"
                                  ELSE @.state]]

\* set_state on a runtime, nothing if it is gone.
InState(s, q) == IF rt[s] = Absent THEN rt ELSE [rt EXCEPT ![s].state = q]

Active(s) == {c \in Clients : cl[c].pc # "idle" /\ cl[c].svc = s}
Saving == {c \in Clients : cl[c].pc \in {"open", "write", "rename"}}

Fault == /\ left.faults > 0 /\ left.work >= 1
         /\ left' = [left EXCEPT !.faults = @ - 1, !.work = @ - 1]

----------------------------------------------------------------------------
(* The files and their watcher.                                             *)

\* A save: one service changes, appears or disappears.
Edit(s, e) ==
    /\ left.edits > 0 /\ left.work >= 1
    /\ e # disk[s]
    /\ disk' = [disk EXCEPT ![s] = e]
    /\ dirty' = TRUE
    /\ left' = [left EXCEPT !.edits = @ - 1, !.work = @ - 1]
    /\ UNCHANGED <<file, tmp, signals, shared, mon, main, cl, hist>>

\* Mutant: no signal while the main loop is at work.
Debounced_Dropped == signals' = IF main.pc = "idle" THEN signals + 1 ELSE signals

Debounced == signals' = signals + 1

\* The debounce window closes: one signal for the burst.
Signal ==
    /\ dirty
    /\ dirty' = FALSE
    /\ Debounced
    /\ UNCHANGED <<disk, file, tmp, shared, mon, main, cl, left, hist>>

----------------------------------------------------------------------------
(* The main loop: load, then Supervisor::reload.                            *)

Main(pc, next) == main.pc = pc /\ main' = [main EXCEPT !.pc = next]

\* try_recv, then the main file and the drop-ins are read.
LoadFiles ==
    /\ main.pc = "idle"
    /\ signals > 0
    /\ signals' = signals - 1
    /\ main' = [main EXCEPT !.pc = "override", !.new = disk]
    /\ hist' = [hist EXCEPT !.raced = @ \cup {s \in Services : Active(s) # {}}]
    /\ UNCHANGED <<disk, file, tmp, dirty, shared, mon, cl, left>>

\* load_override and validate; an error keeps the old configuration.
LoadOverride ==
    /\ main.pc = "override"
    /\ main' = IF file # Torn /\ Valid(main.new)
                 THEN [main EXCEPT !.pc = "clone", !.new = Overridden(@, file)]
                 ELSE [main EXCEPT !.pc = "idle", !.new = NoConfig]
    /\ UNCHANGED <<files, shared, mon, cl, left, hist>>

\* Names only the old configuration has; the hash set gives them in any order.
Removed(old) == {s \in Services : old[s] # Absent /\ main.new[s] = Absent}
NextRemoval(old) == IF Removed(old) = {} THEN "replace" ELSE "remove"

CloneOld ==
    /\ main.pc = "clone"
    /\ main' = [main EXCEPT !.pc = NextRemoval(config), !.old = config]
    /\ UNCHANGED <<files, shared, mon, cl, left, hist>>

RemoveStop(s) ==
    /\ main.pc = "remove"
    /\ s \in Removed(main.old)
    /\ main' = [main EXCEPT !.pc = "quit", !.gone = s]
    /\ mon' = Posted(s, "Stop")
    /\ UNCHANGED <<files, shared, cl, left, hist>>

\* Mutant: the sender of a removed service stays.
RemoveQuit_KeepsSender ==
    /\ Main("quit", "drop")
    /\ mon' = Posted(main.gone, "Quit")
    /\ UNCHANGED <<files, shared, cl, left, hist>>

\* The 200 ms are over: the sender is taken out and Quit is sent with it.
RemoveQuit ==
    /\ Main("quit", "drop")
    /\ mon' = Posted(main.gone, "Quit")
    /\ ctl' = [ctl EXCEPT ![main.gone] = Nobody]
    /\ UNCHANGED <<files, config, rt, cl, left, hist>>

RemoveDrop ==
    /\ main.pc = "drop"
    /\ rt' = [rt EXCEPT ![main.gone] = Absent]
    /\ LET old == [main.old EXCEPT ![main.gone] = Absent] IN
       main' = [main EXCEPT !.gone = Nobody, !.old = old, !.pc = NextRemoval(old)]
    /\ UNCHANGED <<files, config, ctl, mon, cl, left, hist>>

\* The loop over the new services: the next one after position i, or the end.
Round(i) ==
    LET rest == {k \in (i + 1)..Len(Order) : main.new[Order[k]] # Absent} IN
    IF rest = {} THEN [main EXCEPT !.pc = "idle", !.at = 1, !.old = NoConfig,
                                   !.new = NoConfig]
    ELSE [main EXCEPT !.pc = "apply",
                      !.at = CHOOSE k \in rest : \A n \in rest : k <= n]
Svc == Order[main.at]
NextRound == main' = Round(main.at)

Replace ==
    /\ main.pc = "replace"
    /\ config' = main.new
    /\ main' = Round(0)
    /\ UNCHANGED <<files, rt, ctl, mon, cl, left, hist>>

\* The monitors of a service that are still there.
Living(s) == {m \in Monitors : mon[m].svc = s /\ mon[m].pc # "dead"}

AddRuntime ==
    /\ Main("apply", "spawn")
    /\ main.old[Svc] = Absent
    /\ rt' = [rt EXCEPT ![Svc] = NewRuntime(main.new[Svc].on)]
    /\ hist' = [hist EXCEPT !.twins = IF Living(Svc) # {} THEN @ \cup {Svc} ELSE @]
    /\ UNCHANGED <<files, config, ctl, mon, cl, left>>

\* spawn_monitor; without a thread left the behaviour is out of bounds.
SpawnMonitor(m) ==
    /\ main.pc = "spawn"
    /\ mon[m].pc = "unborn" /\ \A n \in 1..(m - 1) : mon[n].pc # "unborn"
    /\ ctl' = [ctl EXCEPT ![Svc] = m]
    /\ mon' = [mon EXCEPT ![m].svc = Svc, ![m].pc = "idle"]
    /\ IF main.new[Svc].on THEN main' = [main EXCEPT !.pc = "start"] ELSE NextRound
    /\ UNCHANGED <<files, config, rt, cl, left, hist>>

StartAdded ==
    /\ main.pc = "start"
    /\ mon' = Posted(Svc, "Start")
    /\ NextRound
    /\ UNCHANGED <<files, shared, cl, left, hist>>

\* apply_enabled, when the flag differs from the one cloned at the beginning.
ApplyEnabled ==
    /\ Main("apply", "toggle")
    /\ main.old[Svc] # Absent /\ main.old[Svc].on # main.new[Svc].on
    /\ rt' = Enabled(Svc, main.new[Svc].on)
    /\ UNCHANGED <<files, config, ctl, mon, cl, left, hist>>

SendToggle ==
    /\ Main("toggle", "definition")
    /\ mon' = Posted(Svc, IF main.new[Svc].on THEN "Start" ELSE "Stop")
    /\ UNCHANGED <<files, shared, cl, left, hist>>

\* definition_eq ignores the enabled flag.
RestartChanged ==
    IF main.old[Svc].def # main.new[Svc].def /\ main.new[Svc].on
      THEN Posted(Svc, "Restart") ELSE mon

SendRestart ==
    /\ \/ main.pc = "definition"
       \/ /\ main.pc = "apply"
          /\ main.old[Svc] # Absent /\ main.old[Svc].on = main.new[Svc].on
    /\ mon' = RestartChanged
    /\ NextRound
    /\ UNCHANGED <<files, shared, cl, left, hist>>

----------------------------------------------------------------------------
(* set_enabled: config, override file, runtime, message.                    *)

SetConfig(c, s, on) ==
    /\ cl[c].pc = "idle"
    /\ left.work >= 2
    /\ config[s] # Absent                \* else UnknownService
    /\ config' = [config EXCEPT ![s].on = on]
    /\ cl' = [cl EXCEPT ![c] = [pc |-> "load", svc |-> s, on |-> on, map |-> NoMap,
                                fd |-> "none"]]
    /\ left' = [left EXCEPT !.work = @ - 2]
    /\ hist' = [hist EXCEPT
                  !.raced = IF main.pc # "idle" \/ Active(s) # {} THEN @ \cup {s} ELSE @,
                  !.overlap = IF Active(s) # {} THEN @ \cup {s} ELSE @,
                  !.failed = @ \ {s},
                  !.acked[s] = "none"]
    /\ UNCHANGED <<files, rt, ctl, mon, main>>

\* The request ends, with an error unless it is acknowledged.
Answer(c, ok) ==
    /\ cl' = [cl EXCEPT ![c] = [pc |-> "idle", svc |-> Nobody, on |-> TRUE,
                                map |-> NoMap, fd |-> "none"]]
    /\ hist' = IF ok THEN [hist EXCEPT !.acked[cl[c].svc] = Word(cl[c].on)]
                     ELSE [hist EXCEPT !.failed = @ \cup {cl[c].svc},
                                       !.broken = @ \cup {cl[c].svc}]

\* A request that begins to save while others do: their services and its own.
Met(c) == IF Saving = {} THEN {} ELSE {cl[b].svc : b \in Saving \cup {c}}

\* Mutant: the map starts empty.
LoadMap_Fresh(c) ==
    /\ cl[c].pc = "load"
    /\ cl' = [cl EXCEPT ![c].pc = "open",
                        ![c].map = [NoMap EXCEPT ![cl[c].svc] = Word(cl[c].on)]]
    /\ hist' = [hist EXCEPT !.overlap = @ \cup Met(c)]
    /\ UNCHANGED <<files, shared, mon, main, left>>

\* load_override, and the insert into the map.
LoadMap(c) ==
    /\ cl[c].pc = "load"
    /\ file # Torn
    /\ cl' = [cl EXCEPT ![c].pc = "open",
                        ![c].map = [file EXCEPT ![cl[c].svc] = Word(cl[c].on)]]
    /\ hist' = [hist EXCEPT !.overlap = @ \cup Met(c)]
    /\ UNCHANGED <<files, shared, mon, main, left>>

\* The file cannot be parsed, or not be read.
LoadMapFails(c) ==
    /\ cl[c].pc = "load"
    /\ IF file = Torn THEN left' = left ELSE file # NoMap /\ Fault
    /\ Answer(c, FALSE)
    /\ UNCHANGED <<files, shared, mon, main>>

\* write_json_atomic: fs::write truncates the temporary file, then writes it.
\* Every request uses the same temporary file.
OpenTmp(c) ==
    /\ cl[c].pc = "open"
    /\ tmp' = Torn
    /\ cl' = [cl EXCEPT ![c].pc = "write", ![c].fd = "tmp"]
    /\ UNCHANGED <<disk, file, dirty, signals, shared, mon, main, left, hist>>

\* What a file holds after a map is written over its contents: the end of a
\* longer text that another request wrote may be left.
Over(text, map) == {map} \cup (IF text \in {Torn, map} THEN {} ELSE {Torn})

\* The data goes to the open file, wherever another request has moved it.
WriteTmp(c) ==
    /\ cl[c].pc = "write"
    /\ tmp' \in (IF cl[c].fd = "tmp" THEN Over(tmp, cl[c].map) ELSE {tmp})
    /\ file' \in (IF cl[c].fd = "file" THEN Over(file, cl[c].map) ELSE {file})
    /\ dirty' = (dirty \/ cl[c].fd = "file")
    /\ cl' = [cl EXCEPT ![c].pc = "rename", ![c].fd = "none"]
    /\ UNCHANGED <<disk, signals, shared, mon, main, left, hist>>

\* The file system refuses; the truncated temporary file stays.
WriteFails(c) ==
    /\ cl[c].pc = "write" /\ Fault
    /\ Answer(c, FALSE)
    /\ UNCHANGED <<files, shared, mon, main>>

\* Where the files that other requests hold open are after a rename.
Moved == [tmp |-> "file", file |-> "none", none |-> "none"]

Rename(c) ==
    /\ cl[c].pc = "rename"
    /\ tmp # Absent
    /\ file' = tmp
    /\ tmp' = Absent
    /\ dirty' = TRUE
    /\ cl' = [b \in Clients |->
                IF b = c THEN [cl[c] EXCEPT !.pc = "apply"]
                ELSE [cl[b] EXCEPT !.fd = Moved[@]]]
    /\ UNCHANGED <<disk, signals, shared, mon, main, left, hist>>

\* Another request has renamed the temporary file away.
RenameFails(c) ==
    /\ cl[c].pc = "rename"
    /\ tmp = Absent
    /\ Answer(c, FALSE)
    /\ UNCHANGED <<files, shared, mon, main, left>>

ApplyRequest(c) ==
    /\ cl[c].pc = "apply"
    /\ rt' = Enabled(cl[c].svc, cl[c].on)
    /\ cl' = [cl EXCEPT ![c].pc = "send"]
    /\ UNCHANGED <<files, config, ctl, mon, main, left, hist>>

SendRequest(c) ==
    /\ cl[c].pc = "send"
    /\ mon' = Posted(cl[c].svc, IF cl[c].on THEN "Start" ELSE "Stop")
    /\ Answer(c, Receiver(cl[c].svc))
    /\ UNCHANGED <<files, shared, main, left>>

----------------------------------------------------------------------------
(* The monitors.                                                            *)

Head1(m) == Head(mon[m].queue)
Configured(m) == config[mon[m].svc] # Absent

\* A message for a service without a definition ends the monitor, whatever the
\* message is and whether or not a process is tracked.
RecvGone(m) ==
    /\ mon[m].pc = "idle" /\ mon[m].queue # <<>>
    /\ ~Configured(m)
    /\ mon' = [mon EXCEPT ![m].pc = "dead", ![m].queue = <<>>]
    /\ UNCHANGED <<files, shared, main, cl, left, hist>>

\* Stop, Quit and Restart stop the process first; a Start of a tracked process
\* is ignored.
Takes(m) ==
    CASE Head1(m) = "Quit" -> "quit"
      [] Head1(m) = "Stop" -> "stop"
      [] Head1(m) = "Restart" -> "restart"
      [] Head1(m) = "Start" -> IF mon[m].tracked THEN "idle" ELSE "start"

\* The definition is the one of this moment.
Recv(m) ==
    /\ mon[m].pc = "idle" /\ mon[m].queue # <<>>
    /\ Configured(m)
    /\ mon' = [mon EXCEPT ![m].pc = Takes(m), ![m].queue = Tail(@),
                          ![m].def = IF Takes(m) = "idle" THEN @ ELSE config[mon[m].svc].def]
    /\ rt' = IF Takes(m) = "stop" THEN InState(mon[m].svc, "Stopping") ELSE rt
    /\ UNCHANGED <<files, config, ctl, main, cl, left, hist>>

\* stop_tracked has returned.
Stopped(m) ==
    /\ mon[m].pc \in {"stop", "quit", "restart", "probe"}
    /\ LET svc == mon[m].svc
           next == [stop |-> "idle", quit |-> "dead",
                    restart |-> "start", probe |-> "start"][mon[m].pc]
       IN /\ mon' = [mon EXCEPT ![m].pc = next, ![m].runs = Absent, ![m].tracked = FALSE,
                        ![m].queue = IF next = "dead" THEN <<>> ELSE @,
                        ![m].def = IF next = "start" THEN @ ELSE Absent]
          /\ rt' = CASE next = "start" -> rt
                     [] mon[m].pc = "stop" /\ rt[svc] # Absent /\ ~rt[svc].on
                          -> InState(svc, "Disabled")
                     [] OTHER -> InState(svc, "Stopped")
    /\ UNCHANGED <<files, config, ctl, main, cl, left, hist>>

\* A Restart has stopped the process and its restart script has succeeded: a
\* daemon is Running, whatever its flag and its dependencies, and not tracked.
RestartScript(m) ==
    /\ mon[m].pc = "restart" /\ mon[m].def \notin Jobs
    /\ mon' = [mon EXCEPT ![m].pc = "idle", ![m].def = Absent,
                          ![m].runs = mon[m].def, ![m].tracked = FALSE]
    /\ rt' = InState(mon[m].svc, "Running")
    /\ UNCHANGED <<files, config, ctl, main, cl, left, hist>>

Up(d) == rt[d].state \in {"Running", "Succeeded"}

\* Mutant: a service whose dependency is not up is not tried again.
StartState_NoWait(s) ==
    CASE rt[s] = Absent -> "Failed"
      [] rt[s] # Absent /\ ~rt[s].on -> "Failed"
      [] rt[s] # Absent /\ rt[s].on ->
           IF \A d \in Deps[s] : rt[d] # Absent /\ Up(d) THEN "Starting" ELSE "Failed"

\* do_start until it runs the command.  A dependency without a runtime is an
\* error, as is a runtime that is gone or disabled: the service ends up Failed
\* and is not tried again.  A dependency that is not up makes it wait.
StartState(s) ==
    CASE rt[s] = Absent -> "Failed"
      [] rt[s] # Absent /\ ~rt[s].on -> "Failed"
      [] rt[s] # Absent /\ rt[s].on ->
           IF \E d \in Deps[s] : rt[d] = Absent THEN "Failed"
           ELSE IF \A d \in Deps[s] : Up(d) THEN "Starting"
           ELSE "WaitingForDependency"

\* The monitor ends a start in state q, with the definition runs up.
EndStart(m, q, runs, tracked, fell) ==
    /\ mon' = [mon EXCEPT ![m].pc = "idle", ![m].def = Absent, ![m].runs = runs,
                          ![m].tracked = tracked, ![m].fell = fell]
    /\ rt' = InState(mon[m].svc, q)
    /\ UNCHANGED <<files, config, ctl, main, cl, hist>>

NoStart(m) ==
    /\ mon[m].pc = "start" /\ StartState(mon[m].svc) # "Starting"
    /\ EndStart(m, StartState(mon[m].svc), Absent, FALSE, mon[m].fell)
    /\ left' = left

\* The process stays up and is tracked; or its command has left a daemon behind
\* and ended; or it is a job, and that is done.
Start(m, tracked) ==
    /\ mon[m].pc = "start" /\ StartState(mon[m].svc) = "Starting"
    /\ tracked => mon[m].def \notin Jobs
    /\ EndStart(m, UpState(mon[m].def), mon[m].def, tracked, mon[m].fell)
    /\ left' = left

\* It cannot be spawned, exits too early, or is a job that fails.
StartFails(m) ==
    /\ mon[m].pc = "start" /\ StartState(mon[m].svc) = "Starting"
    /\ Fault
    /\ EndStart(m, "Failed", Absent, FALSE, TRUE)

\* The poll of a waiting service without a process.
Retry(m) ==
    /\ mon[m].pc = "idle" /\ mon[m].queue = <<>> /\ ~mon[m].tracked
    /\ Configured(m)
    /\ rt[mon[m].svc] # Absent /\ rt[mon[m].svc].state = "WaitingForDependency"
    /\ mon' = [mon EXCEPT ![m].pc = "start", ![m].def = config[mon[m].svc].def]
    /\ UNCHANGED <<files, shared, main, cl, left, hist>>

\* on_process_exit of an enabled daemon, or one without a runtime, whose policy
\* says so: it is started again.
ExitRestart(m) ==
    LET s == mon[m].svc IN
    /\ mon[m].pc = "idle" /\ mon[m].queue = <<>> /\ mon[m].tracked /\ Configured(m)
    /\ config[s].def \notin Jobs /\ (rt[s] = Absent \/ rt[s].on)
    /\ Fault
    /\ mon' = [mon EXCEPT ![m].pc = "start", ![m].def = config[s].def,
                          ![m].runs = Absent, ![m].tracked = FALSE, ![m].fell = TRUE]
    /\ rt' = InState(s, "Restarting")
    /\ UNCHANGED <<files, config, ctl, main, cl, hist>>

\* Otherwise it has succeeded or failed; without a definition nobody notes it.
ExitEnds(m, q) ==
    /\ mon[m].pc = "idle" /\ mon[m].queue = <<>> /\ mon[m].tracked
    /\ Fault
    /\ mon' = [mon EXCEPT ![m].runs = Absent, ![m].tracked = FALSE, ![m].fell = TRUE]
    /\ rt' = IF Configured(m) THEN InState(mon[m].svc, q) ELSE rt
    /\ UNCHANGED <<files, config, ctl, main, cl, hist>>

\* maybe_liveness, when the probe has failed often enough.
ProbeFails(m) ==
    LET s == mon[m].svc IN
    /\ mon[m].pc = "idle" /\ mon[m].queue = <<>> /\ Configured(m)
    /\ rt[s] # Absent /\ rt[s].on /\ rt[s].state \in {"Running", "Succeeded", "Failed"}
    /\ Fault
    /\ mon' = [mon EXCEPT ![m].pc = "probe", ![m].def = config[s].def, ![m].fell = TRUE]
    /\ rt' = InState(s, "Restarting")
    /\ UNCHANGED <<files, config, ctl, main, cl, hist>>

----------------------------------------------------------------------------
\* A waiting service whose dependencies are up: its next poll starts it.
Retriable(m) ==
    LET s == mon[m].svc IN
    /\ mon[m].pc = "idle" /\ Configured(m) /\ rt[s] # Absent
    /\ rt[s].state = "WaitingForDependency" /\ ~mon[m].tracked
    /\ \A d \in Deps[s] : rt[d] # Absent /\ Up(d)

\* No thread is at work and no event or message is on its way.
AtRest ==
    /\ ~dirty /\ signals = 0 /\ main.pc = "idle"
    /\ \A c \in Clients : cl[c].pc = "idle"
    /\ \A m \in Monitors : /\ mon[m].pc \in {"unborn", "idle", "dead"}
                           /\ mon[m].queue = <<>> /\ ~Retriable(m)

MainStep ==
    \/ LoadFiles \/ LoadOverride \/ CloneOld
    \/ \E s \in Services : RemoveStop(s)
    \/ RemoveQuit \/ RemoveDrop \/ Replace
    \/ AddRuntime \/ StartAdded \/ ApplyEnabled \/ SendToggle \/ SendRestart
    \/ \E m \in Monitors : SpawnMonitor(m)

ClientStep(c) ==
    \/ LoadMap(c) \/ LoadMapFails(c) \/ OpenTmp(c) \/ WriteTmp(c) \/ WriteFails(c)
    \/ Rename(c) \/ RenameFails(c) \/ ApplyRequest(c) \/ SendRequest(c)

MonitorStep(m) ==
    \/ RecvGone(m) \/ Recv(m) \/ Stopped(m) \/ RestartScript(m)
    \/ NoStart(m) \/ StartFails(m) \/ Retry(m) \/ ExitRestart(m) \/ ProbeFails(m)
    \/ \E tracked \in BOOLEAN : Start(m, tracked)
    \/ \E q \in {"Succeeded", "Failed"} : ExitEnds(m, q)

Next ==
    \/ \E s \in Services, e \in Entries \cup {Absent} : Edit(s, e)
    \/ Signal
    \/ MainStep
    \/ \E c \in Clients, s \in Services, on \in BOOLEAN : SetConfig(c, s, on)
    \/ \E c \in Clients : ClientStep(c)
    \/ \E m \in Monitors : MonitorStep(m)
    \/ AtRest /\ UNCHANGED vars

Spec == Init /\ [][Next]_vars

----------------------------------------------------------------------------
(* Properties.                                                              *)

\* What is in memory is what is on disk: at rest the configuration is that of
\* the files with the override on top, whatever order edits, requests and
\* reloads came in.  Only an invalid file, a torn override, or a request that
\* failed after it had changed the configuration makes a difference.
ConfigFollowsDisk ==
    AtRest /\ Valid(disk) /\ file # Torn =>
        \A s \in Services \ hist.failed : config[s] = Overridden(disk, file)[s]

\* An acknowledged enable or disable survives a restart, at whatever point
\* microinit dies.  Requests that save together share a temporary file and may
\* lose each other's entry or tear the file, but they never lose or change what
\* was acknowledged to a service that none of them is for: only an entry of a
\* service whose own request met another one can differ (save_override).
AckDurable ==
    /\ file = Torn => hist.overlap # {}
    /\ file # Torn =>
          \A s \in Services \ hist.overlap :
              hist.acked[s] # "none" => file[s] = hist.acked[s]

\* What the documentation says of a reload, "removed -> stop": no monitor ends
\* while it tracks a process.
NoOrphan == \A m \in Monitors : mon[m].pc = "dead" => ~mon[m].tracked

\* Nobody else's reload, removal or second monitor leaves a configured service
\* without control: at rest every configured service, and no other, has a
\* runtime and a sender to a living monitor of its own.
Registered ==
    AtRest => \A s \in Services :
        IF config[s] = Absent THEN rt[s] = Absent /\ ctl[s] = Nobody
        ELSE rt[s] # Absent /\ Receiver(s) /\ mon[ctl[s]].svc = s

\* A service that requests and reloads met one at a time, none of whose requests
\* ever failed, and that was not added again while its earlier monitor was there.
Calm(s) ==
    s \notin hist.raced \cup hist.broken \cup hist.twins

\* d comes after s in the files.
ListedAfter(d, s) ==
    \E i, j \in 1..Len(Order) : Order[i] = s /\ Order[j] = d /\ i < j

\* Reload carries the configuration out.  At rest a calm service has the
\* configured flag.  If it is disabled it says so, and nothing that was brought up
\* is left.  If it is enabled, what was brought up last is the definition that is
\* configured now and never an older one, and it says that it is up; or it is
\* down, for one of three reasons: a process or a start of its own has failed, it
\* waits for a dependency that is not up, or it has failed because reload started
\* it before a dependency that is listed after it.
Applied ==
    AtRest => \A s \in Services : config[s] # Absent /\ Calm(s) =>
        LET m == mon[ctl[s]] IN
        /\ rt[s].on = config[s].on
        /\ ~config[s].on => m.runs = Absent /\ ~m.tracked /\ rt[s].state = "Disabled"
        /\ config[s].on =>
              \/ m.runs = config[s].def /\ Up(s)
              \/ /\ m.runs = Absent /\ ~m.tracked
                 /\ \/ rt[s].state \in {"Succeeded", "Failed"} /\ m.fell
                    \/ rt[s].state = "WaitingForDependency" /\ \E d \in Deps[s] : ~Up(d)
                    \/ rt[s].state = "Failed" /\ \E d \in Deps[s] : ListedAfter(d, s)

===============================================================================
