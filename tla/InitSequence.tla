----------------------------- MODULE InitSequence -----------------------------
(****************************************************************************)
(* The life of the main thread: src/main.rs, init::run of src/init.rs, the  *)
(* shutdown flag of src/signals.rs, src/unmount.rs and src/shutdown.rs.     *)
(*                                                                          *)
(* Early boot, the configuration, the control socket, the configuration     *)
(* watch, the services, the loop, and on a request the way down.  Signals,  *)
(* shutdown requests of clients and edits of the configuration come at any  *)
(* time.  What the supervisor does is in Supervisor and Reload: here the    *)
(* services are up or not, and told to stop or not.                         *)
(****************************************************************************)
EXTENDS EarlyBoot

CONSTANTS
    Launches,     \* the ways of starting microinit that are looked at
    MaxRequests,  \* bound on the signals and shutdown requests
    MaxEarly,     \* bound on those until early boot is over
    MaxEdits      \* bound on the edits of the configuration

VARIABLES
    opts,      \* InitOpts, and whether this is process 1
    pc,        \* main thread
    handled,   \* signals with a handler
    flag,      \* SHUTDOWN_FLAG
    acked,     \* a client whose shutdown was answered and is not yet stored
    requests,  \* signals and shutdown requests so far
    latest,    \* history: the last mode asked for before the loop took one
    disk,      \* earlyBoot in the live and in the image configuration
    log,       \* where the captured lines were written
    cause,     \* history: what ended the process early: script, config, late,
               \* signal, or reboot for a reboot(2) that failed
    socket,    \* the control socket is there
    watch,     \* configuration watch: none, on, off
    queued,    \* a reload waits for the loop
    edits,     \* edits so far
    told,      \* stop_all_ordered has told the services to stop
    mode,      \* the mode the loop has taken
    unmount,   \* the unmount script: none, running, ended, failed
    getty      \* the getty thread: none, getty, shell, delay

captured == <<eb, scriptVars, piped, captureVars, reader, out>>
startVars == <<opts, handled, disk, log, cause>>
flagVars == <<flag, acked, requests, latest>>
editVars == <<watch, queued, edits>>
endVars == <<told, mode, unmount, getty>>
initVars == <<pc, startVars, flagVars, socket, editVars, endVars>>
vars == <<earlyVars, initVars>>

Modes == {"reboot", "poweroff", "halt"}
None == "none"

\* handle_reboot, handle_halt, handle_poweroff
Handler == [TERM |-> "reboot", INT |-> "reboot", USR1 |-> "halt", USR2 |-> "poweroff"]
InstallOrder == <<"TERM", "INT", "USR1", "USR2">>

\* peek_early_boot_capture: not there or not JSON, captureLogs off, on.  Of the
\* image only the last counts.
Disks == [live : {"absent", "disabled", "enabled"}, image : {"absent", "enabled"}]

\* main: process 1 of an init build takes no arguments; another process is
\* told to be init or to supervise; a build without init only supervises.
Options ==
    {[pid1 |-> TRUE, skip |-> FALSE, require |-> TRUE, cli |-> FALSE, machine |-> TRUE]}
    \cup {[pid1 |-> FALSE, skip |-> no, require |-> ~allow /\ ~no, cli |-> path, machine |-> TRUE]
            : no \in BOOLEAN, allow \in BOOLEAN, path \in BOOLEAN}
    \cup {[pid1 |-> p, skip |-> TRUE, require |-> FALSE, cli |-> FALSE, machine |-> FALSE] : p \in BOOLEAN}

ASSUME InitBoundAssumption ==
    Launches \subseteq Options /\ {MaxRequests, MaxEarly, MaxEdits} \subseteq Nat

Down == {"down", "exit0", "exit1", "idle"}
Booted == {"loop", "check"}
BeforeWatch == {"flush", "serve", "watch"}

TypeOK ==
    /\ EarlyType
    /\ opts \in Options
    /\ pc \in {"handlers", "early", "load", "boot", "started", "stopped", "unmount", "finalize"}
              \cup Booted \cup BeforeWatch \cup Down
    /\ handled \subseteq DOMAIN Handler
    /\ {flag, acked, latest, mode} \subseteq Modes \cup {None}
    /\ requests \in 0..MaxRequests /\ edits \in 0..MaxEdits
    /\ disk \in Disks
    /\ log \in {None, "cli", "live", "image", "failed"}
    /\ cause \in {None, "script", "config", "late", "signal", "reboot"}
    /\ {socket, queued, told} \subseteq BOOLEAN
    /\ watch \in {"none", "on", "off"}
    /\ unmount \in {"none", "running", "ended", "failed"}
    /\ getty \in {"none", "getty", "shell", "delay"}

Init ==
    /\ EarlyInit
    /\ opts \in Launches
    /\ pc = "handlers" /\ handled = {}
    /\ flag = None /\ acked = None /\ requests = 0 /\ latest = None
    /\ disk = [live |-> "absent", image |-> "absent"] /\ log = None /\ cause = None
    /\ socket = FALSE /\ watch = "none" /\ queued = FALSE
    /\ edits = 0
    /\ told = FALSE /\ mode = None /\ unmount = "none" /\ getty = "none"

\* What init::run returning an error comes to: process 1 idles for ever
\* (run_as_pid1), another process exits with a failure.
Fatal == IF opts.pid1 /\ opts.machine THEN "idle" ELSE "exit1"

----------------------------------------------------------------------------
(* init::run up to the loop. *)

\* install_handlers; it stops at the first that cannot be installed.
InstallHandlers ==
    /\ pc = "handlers" /\ pc' = "early"
    /\ \/ handled' = DOMAIN Handler /\ faults' = faults
       \/ \E n \in 0..(Len(InstallOrder) - 1) : handled' = ToSet(SubSeq(InstallOrder, 1, n)) /\ Fault
    /\ UNCHANGED <<captured, opts, flagVars, disk, log, cause, socket, editVars, endVars>>

RunEarlyBoot ==
    /\ pc = "early" /\ ~opts.skip /\ EarlyMain
    /\ UNCHANGED initVars

\* fatal_early_boot_logs_path: the command line, the live configuration if
\* it can be read, the one of the image.
LogsPath(d) ==
    CASE opts.cli -> "cli"
      [] ~opts.cli /\ d.live = "enabled" -> "live"
      [] ~opts.cli /\ d.live = "absent" /\ d.image = "enabled" -> "image"
      [] OTHER -> None

\* write_captured: done, or given up with a warning.
WriteTo(path) == (log' = path /\ faults' = faults) \/ (log' = "failed" /\ Fault)

\* persist_early_boot_logs
Persist(path) ==
    IF out.captured /\ path # None THEN WriteTo(path) ELSE UNCHANGED <<log, faults>>

\* --no-early-boot, or supervise.
SkipEarlyBoot ==
    /\ pc = "early" /\ opts.skip /\ pc' = "load"
    /\ UNCHANGED <<earlyVars, startVars, flagVars, socket, editVars, endVars>>

\* Early boot is over; the script may have mounted and seeded the files.  Its
\* failure is fatal when it is required.
AfterEarlyBoot ==
    /\ pc = "early" /\ eb = "done"
    /\ disk' \in Disks
    /\ IF ~out.ok /\ opts.require
       THEN pc' = Fatal /\ cause' = "script" /\ Persist(LogsPath(disk'))
       ELSE pc' = "load" /\ UNCHANGED <<log, cause, faults>>
    /\ UNCHANGED <<captured, opts, handled, flagVars, socket, editVars, endVars>>

\* Mutant: only a failed script has its lines written.
LoadConfig_NoPersist ==
    /\ pc = "load"
    /\ \/ /\ pc' = "flush"
          /\ disk' = [disk EXCEPT !.live = IF @ = "absent" THEN "disabled" ELSE @]
          /\ UNCHANGED <<log, cause, faults>>
       \/ /\ pc' = Fatal /\ disk' = disk /\ cause' = "config"
          /\ UNCHANGED <<log, faults>>
    /\ UNCHANGED <<captured, opts, handled, flagVars, socket, editVars, endVars>>

\* load_config_after_early_boot: reads the configuration, or writes the
\* default one, whose captureLogs is off.
LoadConfig ==
    /\ pc = "load"
    /\ \/ /\ pc' = "flush"
          /\ disk' = [disk EXCEPT !.live = IF @ = "absent" THEN "disabled" ELSE @]
          /\ UNCHANGED <<log, cause, faults>>
       \/ /\ pc' = Fatal /\ disk' = disk /\ cause' = "config"
          /\ IF opts.skip THEN UNCHANGED <<log, faults>> ELSE Persist(LogsPath(disk))
    /\ UNCHANGED <<captured, opts, handled, flagVars, socket, editVars, endVars>>

\* flush_early_boot_logs
FlushLogs ==
    /\ pc = "flush" /\ pc' = "serve"
    /\ IF disk.live = "enabled" /\ ~opts.skip /\ out.captured
       THEN WriteTo("live") ELSE UNCHANGED <<log, faults>>
    /\ UNCHANGED <<captured, opts, handled, flagVars, disk, cause, socket, editVars, endVars>>

\* resolved_ipc_allow and ipc::serve
Serve ==
    /\ pc = "serve"
    /\ \/ pc' = "watch" /\ socket' = TRUE /\ cause' = cause
       \/ pc' = Fatal /\ socket' = FALSE /\ cause' = "late"
    /\ UNCHANGED <<earlyVars, opts, handled, disk, log, flagVars, editVars, endVars>>

\* config_watch::spawn; without it the loop never reloads.
Watch ==
    /\ pc = "watch" /\ pc' = "boot"
    /\ \/ watch' = "on" /\ faults' = faults
       \/ watch' = "off" /\ Fault
    /\ UNCHANGED <<captured, startVars, flagVars, socket, queued, edits, endVars>>

\* Supervisor::boot; a start order that does not exist is fatal, and leaves
\* the control socket answering.
Boot ==
    /\ pc = "boot"
    /\ \/ pc' = "started" /\ cause' = cause
       \/ pc' = Fatal /\ cause' = "late"
    /\ UNCHANGED <<earlyVars, opts, handled, disk, log, flagVars, socket, editVars, endVars>>

\* Mutant: requests from before the loop are dropped.
EndBoot_Resets ==
    /\ pc = "started" /\ pc' = "loop"
    /\ flag' = None
    /\ getty' = IF opts.machine /\ opts.pid1 THEN "getty" ELSE getty
    /\ UNCHANGED <<earlyVars, startVars, acked, requests, latest, socket, editVars, told, mode, unmount>>

\* Services have settled: metrics, the end of the boot tee, getty.
EndBoot ==
    /\ pc = "started" /\ pc' = "loop"
    /\ getty' = IF opts.machine /\ opts.pid1 THEN "getty" ELSE getty
    /\ UNCHANGED <<earlyVars, startVars, flagVars, socket, editVars, told, mode, unmount>>

\* getty_respawn: a getty whose status cannot be had, because it did not run
\* or because the reaper collected it first, is followed by a shell.
GettyRespawn ==
    /\ getty # "none"
    /\ \/ getty = "getty" /\ getty' \in {"shell", "delay"}
       \/ getty = "shell" /\ getty' = "delay"
       \/ getty = "delay" /\ getty' = "getty"
    /\ pc \notin Down
    /\ UNCHANGED <<earlyVars, startVars, pc, flagVars, socket, editVars, told, mode, unmount>>

----------------------------------------------------------------------------
(* The loop and the way down. *)

\* try_recv; the file is read again, and kept out when it is not valid.
Drain ==
    /\ pc = "loop"
    /\ pc' = IF queued THEN "loop" ELSE "check"
    /\ queued' = FALSE
    /\ UNCHANGED <<earlyVars, startVars, flagVars, socket, watch, edits, endVars>>

\* take_shutdown, and stop_all_ordered
TakeShutdown ==
    /\ pc = "check"
    /\ flag' = None
    /\ IF flag = None
       THEN pc' = "loop" /\ UNCHANGED <<mode, told>>
       ELSE pc' = "stopped" /\ mode' = flag /\ told' = TRUE
    /\ UNCHANGED <<earlyVars, startVars, acked, requests, latest, socket, editVars, unmount,
                   getty>>

\* The socket file is removed.  supervise syncs and exits; init goes on to
\* the unmount script.
LeaveServices ==
    /\ pc = "stopped" /\ socket' = FALSE
    /\ pc' = IF opts.machine THEN "unmount" ELSE "exit0"
    /\ UNCHANGED <<earlyVars, startVars, flagVars, editVars, endVars>>

\* unmount::run: spawned; or not, or not fed, and then left alone.
RunUnmount ==
    /\ pc = "unmount" /\ unmount = "none"
    /\ \/ unmount' = "running" /\ pc' = pc /\ faults' = faults
       \/ unmount' = "failed" /\ pc' = "finalize" /\ Fault
    /\ UNCHANGED <<captured, startVars, flagVars, socket, editVars, told, mode, getty>>

\* Nothing bounds the time the script takes.
UnmountExit ==
    /\ unmount = "running" /\ unmount' = "ended" /\ pc \notin Down
    /\ UNCHANGED <<earlyVars, startVars, pc, flagVars, socket, editVars, told, mode, getty>>

\* wait returns: its status, or an error when the reaper collected it; the
\* sequence goes on either way.
UnmountDone ==
    /\ pc = "unmount" /\ unmount = "ended" /\ pc' = "finalize"
    /\ UNCHANGED <<earlyVars, startVars, flagVars, socket, editVars, endVars>>

\* shutdown::finalize: sync, then reboot(2) as process 1, which may fail.
Finalize ==
    /\ pc = "finalize"
    /\ \/ ~opts.pid1 /\ pc' = "exit0" /\ UNCHANGED <<cause, faults>>
       \/ opts.pid1 /\ pc' = "down" /\ UNCHANGED <<cause, faults>>
       \/ opts.pid1 /\ pc' = "exit1" /\ cause' = "reboot" /\ Fault
    /\ UNCHANGED <<captured, opts, handled, disk, log, flagVars, socket, editVars, endVars>>

Main ==
    \/ InstallHandlers \/ RunEarlyBoot \/ SkipEarlyBoot \/ AfterEarlyBoot \/ LoadConfig \/ FlushLogs \/ Serve \/ Watch
    \/ Boot \/ EndBoot \/ Drain \/ TakeShutdown \/ LeaveServices \/ RunUnmount \/ UnmountDone \/ Finalize

----------------------------------------------------------------------------
(* What happens to the main thread. *)

Alive == pc \notin Down \/ pc = "idle"
Note(m) == latest' = IF mode = None THEN m ELSE latest

\* A signal: its handler stores the mode; without one the kernel ends the
\* process, unless it is process 1.
Signal(s) ==
    /\ Alive /\ requests' = requests + 1
    /\ requests < IF pc \in {"handlers", "early"} THEN MaxEarly ELSE MaxRequests
    /\ \/ s \in handled /\ flag' = Handler[s] /\ Note(Handler[s]) /\ UNCHANGED <<pc, cause>>
       \/ s \notin handled /\ opts.pid1 /\ UNCHANGED <<flag, latest, pc, cause>>
       \/ s \notin handled /\ ~opts.pid1 /\ pc' = "exit1" /\ cause' = "signal" /\ UNCHANGED <<flag, latest>>
    /\ UNCHANGED <<earlyVars, opts, handled, disk, log, acked, socket, editVars, endVars>>

\* handle_ipc, Shutdown: Ok is written first, and no mode is stored when the
\* client has gone.
AnswerShutdown(m) ==
    /\ Alive /\ socket /\ acked = None
    /\ requests < MaxRequests /\ requests' = requests + 1
    /\ acked' = m
    /\ UNCHANGED <<earlyVars, startVars, pc, flag, latest, socket, editVars, endVars>>

\* Mutant: a mode that waits is kept.
StoreShutdown_First ==
    /\ Alive /\ acked # None
    /\ flag' = (IF flag = None THEN acked ELSE flag) /\ Note(acked) /\ acked' = None
    /\ UNCHANGED <<earlyVars, startVars, pc, requests, socket, editVars, endVars>>

\* request_shutdown
StoreShutdown ==
    /\ Alive /\ acked # None
    /\ flag' = acked /\ Note(acked) /\ acked' = None
    /\ UNCHANGED <<earlyVars, startVars, pc, requests, socket, editVars, endVars>>

\* The configuration is edited after it was read; the watch queues a reload.
Edit ==
    /\ pc \in {"boot", "started", "stopped"} \cup Booted \cup BeforeWatch
    /\ edits < MaxEdits /\ edits' = edits + 1
    /\ queued' = (queued \/ watch = "on")
    /\ UNCHANGED <<earlyVars, startVars, pc, flagVars, socket, watch, endVars>>

ScriptStep == pc \notin Down /\ Script /\ UNCHANGED initVars
ReaderStep == pc \notin Down /\ Reader /\ UNCHANGED initVars
Over == pc \in Down /\ UNCHANGED vars

Next ==
    \/ Main \/ ScriptStep \/ ReaderStep \/ UnmountExit \/ GettyRespawn
    \/ \E s \in DOMAIN Handler : Signal(s)
    \/ \E m \in Modes : AnswerShutdown(m)
    \/ StoreShutdown \/ Edit \/ Over

Spec == Init /\ [][Next]_vars

\* The threads of microinit are scheduled; of the scripts nothing is assumed.
FairSpec == Spec /\ WF_vars(Main) /\ WF_vars(ReaderStep) /\ WF_vars(StoreShutdown)

----------------------------------------------------------------------------
(* Properties. *)

Asks(p) ==
    CASE p = "cli"   -> opts.cli
      [] p = "live"  -> disk.live = "enabled"
      [] p = "image" -> disk.image = "enabled" /\ disk.live = "absent"

Places == <<"cli", "live", "image">>

\* Where the captured lines of early boot are, unless their write failed.  A boot
\* that read its configuration has them in the file this configuration names, if
\* it asks for them, and nowhere else, whatever the command line says.  A boot
\* that ends for its script or its configuration has them at the first place
\* that asks: command line, live configuration, and that of the image only
\* when there is no live one that can be read; it wrote nothing only if none asks.
LogsKept ==
    out.captured /\ ~opts.skip =>
        /\ pc \in {"serve", "watch", "boot", "started"} \cup Booted \/ cause = "late" =>
              log \in IF disk.live = "enabled" THEN {"live", "failed"} ELSE {None}
        /\ cause \in {"script", "config"} =>
              /\ log = None <=> \A i \in DOMAIN Places : ~Asks(Places[i])
              /\ \A i \in DOMAIN Places :
                    log = Places[i] => Asks(log) /\ \A j \in 1..(i - 1) : ~Asks(Places[j])

\* A machine goes down in the mode asked for last before the loop looked, after
\* its services were told to stop and its socket was removed, and after the
\* unmount script ended or could not be started; nothing else that fails on the
\* way skips one of these.  Process 1 of an init build exits in one case only:
\* reboot(2) itself returned.  supervise never touches the machine: no getty, no
\* unmount script, no reboot(2), also as process 1 of a container.
Teardown ==
    /\ pc = "down" =>
          /\ mode = latest /\ told /\ ~socket
          /\ unmount \in {"ended", "failed"}
    /\ opts.pid1 /\ opts.machine =>
          pc # "exit0" /\ (pc = "exit1" => cause = "reboot" /\ told /\ unmount \in {"ended", "failed"})
    /\ ~opts.machine => getty = "none" /\ unmount = "none" /\ pc # "down"

\* The reader never leaves the pipe full: bytes that are not UTF-8, long
\* lines and full limits do not stop it, so the script is never blocked for
\* good by its own output (collect_lines).
PipeDrains == Len(pipe) = PipeSize ~> Len(pipe) < PipeSize \/ pc \in Down

\* Early boot ends once the script has and nothing it left holds the pipe.
EarlyBootEnds == script = "ended" /\ ~holder ~> eb = "done" \/ pc \in Down

EarlyBootHangs == pc = "early" /\ (script = "running" \/ holder)
UnmountHangs == pc = "unmount" /\ unmount = "running"

\* A shutdown asked for, by signal or by a client that was answered, is served:
\* microinit ends, or its boot has failed, or it waits for ever for one of its
\* two scripts.  Both waits have no bound in the code (finish_wait, unmount::run);
\* nothing else keeps the request from its end.
ShutdownServed ==
    flag # None \/ acked # None ~> (pc \in Down \/ []EarlyBootHangs \/ []UnmountHangs)
===============================================================================
