------------------------------ MODULE Supervisor ------------------------------
(****************************************************************************)
(* The service supervisor of src/supervisor.rs for one fixed configuration: *)
(* one monitor thread per service (monitor_loop, do_start, stop_tracked,    *)
(* on_process_exit, maybe_liveness), the IPC threads that queue control     *)
(* messages and flip the enabled flag, and the main thread that boots and   *)
(* shuts the services down.  Every acquisition of the runtimes lock is a    *)
(* step of its own; a thread may be preempted between any two of them.      *)
(*                                                                          *)
(* Clocks are not modelled: a timer that is running may fire at any later   *)
(* step.  A child that exits is reaped and published in one step (module    *)
(* ExitRegistry opens that step).  SIGKILL is sent and the child ends when  *)
(* the kernel gets to it, or never; a script ends when it does, or never.   *)
(****************************************************************************)
EXTENDS Naturals, Sequences, FiniteSets

CONSTANTS
    Services,     \* the service names of the configuration
    Pids,         \* process ids the kernel hands out
    Clients,      \* IPC handler threads (src/ipc.rs serves them concurrently)
    MaxRequests,  \* bound: operator requests made in one behaviour
    Asks,         \* bound: the requests operators may make, <<service, what>>
    Cfg,          \* the ServiceConfig of every service (record, see CfgType)
    BootOrder,    \* enabled services in the order boot() starts them
    StopOrder,    \* all services in the order stop_all_ordered() stops them
    NoPid         \* Option::None of a pid

Policy == {"always", "onError", "none"}

\* The fields of ServiceConfig the supervisor branches on.  threshold is the
\* failureThreshold of the liveness probe, 0 when there is no probe.
CfgType == [enabled: BOOLEAN, daemon: BOOLEAN, policy: Policy,
            startWait: BOOLEAN, dependsOn: SUBSET Services,
            cmd: BOOLEAN, startCmd: BOOLEAN, stopCmd: BOOLEAN,
            restartCmd: BOOLEAN, threshold: Nat]

ASSUME CfgAssumption ==
    /\ Cfg \in [Services -> CfgType]
    /\ \A s \in Services : Cfg[s].cmd \/ Cfg[s].startCmd   \* Config::validate
    /\ \A s \in Services : Cfg[s].policy = "always" => Cfg[s].daemon
ASSUME OrderAssumption ==
    /\ BootOrder \in Seq(Services)
    /\ StopOrder \in Seq(Services)
ASSUME PidAssumption == NoPid \notin Pids
ASSUME BoundAssumption == MaxRequests \in Nat
ASSUME AskAssumption == Asks \subseteq Services \X {"Start", "Force", "Restart",
                                                  "Stop", "disable", "enable"}

ServiceState == {"Pending", "Starting", "Running", "Succeeded", "Failed",
                 "Stopping", "Stopped", "Restarting",
                 "WaitingForDependency", "Disabled"}

CtlMsg == {"Start", "Force", "Stop", "Restart", "Quit"}

\* Where a monitor thread is between two steps.
MonitorPc == {"top", "recv", "poll", "live", "liveEnabled", "probe",
              "exited", "markExit", "backoff",
              "script", "term", "reap", "stopped", "markStop", "rscript",
              "dsEnabled", "dsDeps", "dsMark", "dsWait", "dsTerm", "dsReap",
              "dsErr", "done"}

\* The handler on whose behalf stop_tracked or do_start runs.
Caller == {"none", "start", "force", "retry", "restart", "stop", "exit",
           "live", "crashOk", "crashErr"}

Code == {"ok", "err"}     \* an exit code, as cfg.is_success classifies it

ClientOp == {"idle", "Start", "Force", "Stop", "Restart", "setDisabled",
             "setPending"}

VARIABLES
    state,    \* Runtime.state
    pid,      \* Runtime.pid, what `list` shows
    enabled,  \* Runtime.enabled
    ctl,      \* control channel of each monitor
    stopAll,  \* Shared.stop_all
    pc,       \* monitor thread: position
    why,      \* monitor thread: caller of stop_tracked / do_start
    tracked,  \* monitor_loop's `tracked`
    child,    \* the pid stop_tracked / do_start / run_shell waits for
    held,     \* state value carried from one lock acquisition to the next
    streak,   \* liveness_streak
    last,     \* history: the last control message the monitor handled
    alive,    \* live children of each monitor
    exits,    \* ExitRegistry: published, not yet taken
    killed,   \* history: living children that were sent SIGKILL
    over,     \* history: living children spawned over a left exit of their pid
    lost,     \* history: pids a monitor gave up on after SIGKILL
    cop,      \* IPC thread: what it does next
    csvc,     \* IPC thread: the service it does it to
    budget,   \* requests left (MaxRequests)
    main,     \* main thread: phase
    idx       \* main thread: position in BootOrder / StopOrder

runtimeVars == <<state, pid, enabled>>
monitorVars == <<pc, why, tracked, child, held, streak, last>>
procVars    == <<alive, exits, killed, over, lost>>
clientVars  == <<cop, csvc, budget>>
mainVars    == <<stopAll, main, idx>>
vars == <<runtimeVars, ctl, monitorVars, procVars, clientVars, mainVars>>

\* Every variable has its type, and a failure streak stays below the threshold
\* at which the probe restarts the service.
TypeOK ==
    /\ state \in [Services -> ServiceState]
    /\ pid \in [Services -> Pids \cup {NoPid}]
    /\ enabled \in [Services -> BOOLEAN]
    /\ ctl \in [Services -> Seq(CtlMsg)]
    /\ stopAll \in BOOLEAN
    /\ pc \in [Services -> MonitorPc]
    /\ why \in [Services -> Caller]
    /\ tracked \in [Services -> Pids \cup {NoPid}]
    /\ child \in [Services -> Pids \cup {NoPid}]
    /\ held \in [Services -> ServiceState]
    /\ streak \in [Services -> Nat]
    /\ \A s \in Services : streak[s] > 0 => streak[s] < Cfg[s].threshold
    /\ last \in [Services -> CtlMsg \cup {"none"}]
    /\ alive \in [Services -> SUBSET Pids]
    /\ exits \in [Pids -> Code \cup {"none"}]
    /\ killed \in SUBSET Pids
    /\ over \in SUBSET Pids
    /\ lost \in SUBSET (Pids \cup {NoPid})
    /\ cop \in [Clients -> ClientOp]
    /\ csvc \in [Clients -> Services \cup {"none"}]
    /\ \A c \in Clients : cop[c] # "idle" => csvc[c] \in Services
    /\ budget \in Nat
    /\ main \in {"boot", "run", "stopping", "quitting", "down"}
    /\ idx \in Nat \ {0}

Init ==
    /\ state = [s \in Services |-> IF Cfg[s].enabled THEN "Pending" ELSE "Disabled"]
    /\ pid = [s \in Services |-> NoPid]
    /\ enabled = [s \in Services |-> Cfg[s].enabled]
    /\ ctl = [s \in Services |-> <<>>]
    /\ stopAll = FALSE
    /\ pc = [s \in Services |-> "top"]
    /\ why = [s \in Services |-> "none"]
    /\ tracked = [s \in Services |-> NoPid]
    /\ child = [s \in Services |-> NoPid]
    /\ held = [s \in Services |-> "Pending"]
    /\ streak = [s \in Services |-> 0]
    /\ last = [s \in Services |-> "none"]
    /\ alive = [s \in Services |-> {}]
    /\ exits = [p \in Pids |-> "none"]
    /\ killed = {}
    /\ over = {}
    /\ lost = {}
    /\ cop = [c \in Clients |-> "idle"]
    /\ csvc = [c \in Clients |-> "none"]
    /\ budget = MaxRequests
    /\ main = "boot"
    /\ idx = 1

----------------------------------------------------------------------------
(* Configuration look-ups (src/config.rs).                                  *)

ResolveStop(s) == Cfg[s].stopCmd \/ Cfg[s].cmd

ResolveRestart(s) ==
    \/ Cfg[s].restartCmd
    \/ Cfg[s].cmd
    \/ Cfg[s].stopCmd /\ Cfg[s].startCmd

ShouldRestart(s, code) ==
    /\ Cfg[s].daemon
    /\ \/ Cfg[s].policy = "always"
       \/ Cfg[s].policy = "onError" /\ code = "err"

----------------------------------------------------------------------------
(* Shared helpers.                                                          *)

\* Shared::set_state: what becomes of the pid that `list` shows.
NextPid(st, p, old) ==
    CASE p # NoPid -> p
      [] p = NoPid /\ st \in {"Running", "Starting", "Restarting",
                              "WaitingForDependency"} -> old
      [] OTHER -> NoPid

ApplyState(s, st, p) ==
    /\ state' = [state EXCEPT ![s] = st]
    /\ pid' = [pid EXCEPT ![s] = NextPid(st, p, pid[s])]
    /\ UNCHANGED enabled

\* Shared::deps_ready; every dependency is known in a validated configuration.
DepsReady(s) ==
    \A d \in Cfg[s].dependsOn : state[d] \in {"Running", "Succeeded"}

\* send_ctl: a monitor that ended has dropped its receiver.
Send(s, m) ==
    ctl' = IF pc[s] = "done" THEN ctl
           ELSE [ctl EXCEPT ![s] = Append(@, m)]

Goto(s, l) == pc' = [pc EXCEPT ![s] = l]

\* The process the monitor answers for, if any.
Mine(s) == {tracked[s], child[s]} \ {NoPid}

\* The kernel hands pids out in a cycle: one that a monitor still holds does not
\* come round, one whose exit nobody took may.
FreePids == {p \in Pids : \A s \in Services : p \notin alive[s] \cup Mine(s)}

Spawn(s, p) ==
    /\ p \in FreePids
    /\ alive' = [alive EXCEPT ![s] = @ \cup {p}]
    /\ child' = [child EXCEPT ![s] = p]
    /\ over' = over \cup {q \in {p} : exits[q] # "none"}
    /\ UNCHANGED <<exits, killed, lost>>

\* Mutant: the exit is read and stays in the registry.
Collect_Peek(p) == exits[p] # "none" /\ UNCHANGED procVars

\* ExitRegistry::take / wait_take of an exit that is there.
Collect(p) ==
    /\ exits[p] # "none"
    /\ exits' = [exits EXCEPT ![p] = "none"]
    /\ UNCHANGED <<alive, killed, over, lost>>

\* The wait_take after a kill: its time may run out, and its None is ignored.
CollectOrGiveUp(p) ==
    \/ Collect(p)
    \/ /\ exits[p] = "none"
       /\ lost' = lost \cup {p}
       /\ UNCHANGED <<alive, exits, killed, over>>

\* Where do_start returns to: its caller's `continue`, or the liveness check
\* that follows the exit poll in the same round of monitor_loop.
ReturnPc(s) == IF why[s] \in {"retry", "crashOk", "crashErr"} THEN "live" ELSE "top"

Return(s) ==
    /\ Goto(s, ReturnPc(s))
    /\ why' = [why EXCEPT ![s] = "none"]
    /\ held' = [held EXCEPT ![s] = "Pending"]

\* Mutant: the pid is copied, not taken.
BeginStop_NoTake(s, w) ==
    /\ Goto(s, IF ResolveStop(s) THEN "script"
               ELSE IF tracked[s] # NoPid THEN "term" ELSE "stopped")
    /\ why' = [why EXCEPT ![s] = w]
    /\ child' = [child EXCEPT ![s] = tracked[s]]
    /\ UNCHANGED tracked

\* stop_tracked up to its first blocking call: take the pid, then run the stop
\* script if there is one, then terminate_pid.
BeginStop(s, w) ==
    /\ Goto(s, CASE ResolveStop(s) -> "script"
                 [] ~ResolveStop(s) /\ tracked[s] # NoPid -> "term"
                 [] OTHER -> "stopped")
    /\ why' = [why EXCEPT ![s] = w]
    /\ child' = [child EXCEPT ![s] = tracked[s]]
    /\ tracked' = [tracked EXCEPT ![s] = NoPid]

BeginStart(s, w) ==
    /\ Goto(s, "dsEnabled")
    /\ why' = [why EXCEPT ![s] = w]

----------------------------------------------------------------------------
(* monitor_loop: top of a round, and the control message it receives.       *)

TopRecv(s) ==
    /\ pc[s] = "top"
    /\ ~stopAll
    /\ Goto(s, "recv")
    /\ UNCHANGED <<runtimeVars, ctl, why, tracked, child, held, streak, last,
                   procVars, clientVars, mainVars>>

TopExit(s) ==
    /\ pc[s] = "top"
    /\ stopAll
    /\ BeginStop(s, "exit")
    /\ UNCHANGED <<runtimeVars, ctl, held, streak, last,
                   procVars, clientVars, mainVars>>

Recv(s, m) ==
    /\ pc[s] = "recv"
    /\ ctl[s] # <<>>
    /\ Head(ctl[s]) = m
    /\ ctl' = [ctl EXCEPT ![s] = Tail(@)]
    /\ last' = [last EXCEPT ![s] = m]

RecvStop(s) ==
    /\ Recv(s, "Stop")
    /\ ApplyState(s, "Stopping", NoPid)
    /\ BeginStop(s, "stop")
    /\ UNCHANGED <<held, streak, procVars, clientVars, mainVars>>

RecvRestart(s) ==
    /\ Recv(s, "Restart")
    /\ streak' = [streak EXCEPT ![s] = 0]
    /\ BeginStop(s, "restart")
    /\ UNCHANGED <<runtimeVars, held, procVars, clientVars, mainVars>>

\* Start while a process is tracked: `continue`.
RecvStartIgnored(s) ==
    /\ \E m \in {"Start", "Force"} : Recv(s, m)
    /\ tracked[s] # NoPid
    /\ Goto(s, "top")
    /\ UNCHANGED <<runtimeVars, why, tracked, child, held, streak,
                   procVars, clientVars, mainVars>>

RecvStart(s) ==
    /\ \E m \in {"Start", "Force"} :
          /\ Recv(s, m)
          /\ BeginStart(s, IF m = "Force" THEN "force" ELSE "start")
    /\ tracked[s] = NoPid
    /\ streak' = [streak EXCEPT ![s] = 0]
    /\ UNCHANGED <<runtimeVars, tracked, child, held,
                   procVars, clientVars, mainVars>>

RecvTimeout(s) ==
    /\ pc[s] = "recv"
    /\ ctl[s] = <<>>
    /\ Goto(s, "poll")
    /\ UNCHANGED <<runtimeVars, ctl, why, tracked, child, held, streak, last,
                   procVars, clientVars, mainVars>>

----------------------------------------------------------------------------
(* monitor_loop without a message: collect an exit, retry a waiting start,  *)
(* probe.                                                                   *)

\* The tracked process exited: on_process_exit begins.
PollExit(s) ==
    /\ pc[s] = "poll"
    /\ tracked[s] # NoPid
    /\ Collect(tracked[s])
    /\ tracked' = [tracked EXCEPT ![s] = NoPid]
    /\ streak' = [streak EXCEPT ![s] = 0]
    /\ why' = [why EXCEPT ![s] = IF exits[tracked[s]] = "ok" THEN "crashOk"
                                                             ELSE "crashErr"]
    /\ ApplyState(s, "Pending", NoPid)
    /\ Goto(s, "exited")
    /\ UNCHANGED <<ctl, child, held, last, clientVars, mainVars>>

\* Mutants: the retry does not look at the state; there is no retry.
WantsRetry_AnyState(s) == tracked[s] = NoPid /\ ~stopAll

WantsRetry_Never(s) == FALSE

WantsRetry(s) ==
    tracked[s] = NoPid /\ ~stopAll /\ state[s] = "WaitingForDependency"

PollRetry(s) ==
    /\ pc[s] = "poll"
    /\ WantsRetry(s)
    /\ BeginStart(s, "retry")
    /\ UNCHANGED <<runtimeVars, ctl, tracked, child, held, streak, last,
                   procVars, clientVars, mainVars>>

PollIdle(s) ==
    /\ pc[s] = "poll"
    /\ ~WantsRetry(s)
    /\ tracked[s] # NoPid => exits[tracked[s]] = "none"
    /\ Goto(s, "live")
    /\ UNCHANGED <<runtimeVars, ctl, why, tracked, child, held, streak, last,
                   procVars, clientVars, mainVars>>

\* on_process_exit: decide under one lock, mark under the next.
Exited(s) ==
    /\ pc[s] = "exited"
    /\ LET code == IF why[s] = "crashOk" THEN "ok" ELSE "err" IN
       held' = [held EXCEPT ![s] =
                  CASE ShouldRestart(s, code) /\ enabled[s] /\ ~stopAll -> "Restarting"
                    [] OTHER -> IF code = "ok" THEN "Succeeded" ELSE "Failed"]
    /\ Goto(s, "markExit")
    /\ UNCHANGED <<runtimeVars, ctl, why, tracked, child, streak, last,
                   procVars, clientVars, mainVars>>

MarkExit(s) ==
    /\ pc[s] = "markExit"
    /\ ApplyState(s, held[s], NoPid)
    /\ \/ held[s] = "Restarting" /\ Goto(s, "backoff") /\ UNCHANGED why /\ UNCHANGED held
       \/ held[s] # "Restarting" /\ Return(s)
    /\ UNCHANGED <<ctl, tracked, child, streak, last,
                   procVars, clientVars, mainVars>>

BackoffDone(s) ==
    /\ pc[s] = "backoff"
    /\ Goto(s, "dsEnabled")
    /\ UNCHANGED <<runtimeVars, ctl, why, tracked, child, held, streak, last,
                   procVars, clientVars, mainVars>>

\* maybe_liveness reads the state, then the enabled flag, then runs the probe.
Probed == {"Running", "Succeeded", "Failed"}

LiveState(s) ==
    /\ pc[s] = "live"
    /\ Cfg[s].threshold > 0
    /\ ~stopAll
    /\ state[s] \in Probed
    /\ held' = [held EXCEPT ![s] = state[s]]
    /\ Goto(s, "liveEnabled")
    /\ UNCHANGED <<runtimeVars, ctl, why, tracked, child, streak, last,
                   procVars, clientVars, mainVars>>

LiveSkip(s) ==
    /\ pc[s] = "live"
    /\ \/ Cfg[s].threshold = 0
       \/ stopAll
       \/ state[s] \notin Probed
    /\ Goto(s, "top")
    /\ UNCHANGED <<runtimeVars, ctl, why, tracked, child, held, streak, last,
                   procVars, clientVars, mainVars>>

\* Disabled, or the probe is not due yet.
LiveNotDue(s) ==
    /\ pc[s] = "liveEnabled"
    /\ Return(s)
    /\ UNCHANGED <<runtimeVars, ctl, tracked, child, streak, last,
                   procVars, clientVars, mainVars>>

LiveDue(s) ==
    /\ pc[s] = "liveEnabled"
    /\ enabled[s]
    /\ Goto(s, "probe")
    /\ UNCHANGED <<runtimeVars, ctl, why, tracked, child, held, streak, last,
                   procVars, clientVars, mainVars>>

\* A healthy probe repairs the state of a job that had failed.
ProbeOk(s) ==
    /\ pc[s] = "probe"
    /\ streak' = [streak EXCEPT ![s] = 0]
    /\ \/ held[s] = "Failed" /\ ~Cfg[s].daemon /\ ApplyState(s, "Succeeded", NoPid)
       \/ (held[s] # "Failed" \/ Cfg[s].daemon) /\ UNCHANGED runtimeVars
    /\ Return(s)
    /\ UNCHANGED <<ctl, tracked, child, last,
                   procVars, clientVars, mainVars>>

\* Mutant: off by one.
BelowThreshold_Late(s) == streak[s] + 1 <= Cfg[s].threshold

BelowThreshold(s) == streak[s] + 1 < Cfg[s].threshold

ProbeFail(s) ==
    /\ pc[s] = "probe"
    /\ BelowThreshold(s)
    /\ streak' = [streak EXCEPT ![s] = @ + 1]
    /\ Return(s)
    /\ UNCHANGED <<runtimeVars, ctl, tracked, child, last,
                   procVars, clientVars, mainVars>>

ProbeRestart(s) ==
    /\ pc[s] = "probe"
    /\ ~BelowThreshold(s)
    /\ streak' = [streak EXCEPT ![s] = 0]
    /\ ApplyState(s, "Restarting", NoPid)
    /\ BeginStop(s, "live")
    /\ UNCHANGED <<ctl, held, last, procVars, clientVars, mainVars>>

----------------------------------------------------------------------------
(* stop_tracked, and what its callers do when it returns.                   *)

\* The stop script ended (or could not be run): its result is ignored.  The wait
\* for it is ChildWait::Forever.
StopScriptDone(s) ==
    /\ pc[s] = "script"
    /\ Goto(s, IF child[s] # NoPid THEN "term" ELSE "stopped")
    /\ UNCHANGED <<runtimeVars, ctl, why, tracked, child, held, streak, last,
                   procVars, clientVars, mainVars>>

\* Mutant: terminate_pid polls until the process is gone, without a deadline.
Kill_Never(s) ==
    /\ pc[s] \in {"term", "dsTerm"}
    /\ child[s] \notin alive[s]
    /\ Goto(s, IF pc[s] = "term" THEN "reap" ELSE "dsReap")
    /\ UNCHANGED <<runtimeVars, ctl, why, tracked, child, held, streak, last,
                   procVars, clientVars, mainVars>>

\* Mutant: SIGTERM only.
Kill_TermOnly(s) ==
    /\ pc[s] \in {"term", "dsTerm"}
    /\ Goto(s, IF pc[s] = "term" THEN "reap" ELSE "dsReap")
    /\ UNCHANGED <<runtimeVars, ctl, why, tracked, child, held, streak, last,
                   procVars, clientVars, mainVars>>

\* terminate_pid: SIGTERM, and SIGKILL for what is still there when the grace
\* period is over.
Kill(s) ==
    /\ pc[s] \in {"term", "dsTerm"}
    /\ killed' = killed \cup ({child[s]} \cap alive[s])
    /\ Goto(s, IF pc[s] = "term" THEN "reap" ELSE "dsReap")
    /\ UNCHANGED <<runtimeVars, ctl, why, tracked, child, held, streak, last,
                   alive, exits, over, lost, clientVars, mainVars>>

TermReaped(s) ==
    /\ pc[s] = "reap"
    /\ CollectOrGiveUp(child[s])
    /\ child' = [child EXCEPT ![s] = NoPid]
    /\ Goto(s, "stopped")
    /\ UNCHANGED <<runtimeVars, ctl, why, tracked, held, streak, last,
                   clientVars, mainVars>>

AfterStop(s) ==
    /\ pc[s] = "stopped"
    /\ why[s] = "stop"
    /\ streak' = [streak EXCEPT ![s] = 0]
    /\ held' = [held EXCEPT ![s] = IF enabled[s] THEN "Stopped" ELSE "Disabled"]
    /\ Goto(s, "markStop")
    /\ UNCHANGED <<runtimeVars, ctl, why, tracked, child, last,
                   procVars, clientVars, mainVars>>

MarkStop(s) ==
    /\ pc[s] = "markStop"
    /\ ApplyState(s, held[s], NoPid)
    /\ Return(s)
    /\ UNCHANGED <<ctl, tracked, child, streak, last,
                   procVars, clientVars, mainVars>>

\* The monitor thread ends; its receiver and everything queued is dropped.
AfterStopExit(s) ==
    /\ pc[s] = "stopped"
    /\ why[s] = "exit"
    /\ ApplyState(s, "Stopped", NoPid)
    /\ ctl' = [ctl EXCEPT ![s] = <<>>]
    /\ Goto(s, "done")
    /\ UNCHANGED <<why, tracked, child, held, streak, last,
                   procVars, clientVars, mainVars>>

\* A liveness restart, a service without a restart script, or a script that
\* could not be spawned (run_shell(..).unwrap_or(1)).
AfterStopStart(s) ==
    /\ pc[s] = "stopped"
    /\ why[s] \in {"live", "restart"}
    /\ Goto(s, "dsEnabled")
    /\ UNCHANGED <<runtimeVars, ctl, why, tracked, child, held, streak, last,
                   procVars, clientVars, mainVars>>

AfterStopScript(s) ==
    /\ pc[s] = "stopped"
    /\ why[s] = "restart"
    /\ ResolveRestart(s)
    /\ \E p \in Pids : Spawn(s, p)
    /\ Goto(s, "rscript")
    /\ UNCHANGED <<runtimeVars, ctl, why, tracked, held, streak, last,
                   clientVars, mainVars>>

RestartScriptDone(s) ==
    /\ pc[s] = "rscript"
    /\ Collect(child[s])
    /\ child' = [child EXCEPT ![s] = NoPid]
    /\ \/ /\ Cfg[s].daemon /\ exits[child[s]] = "ok"
          /\ ApplyState(s, "Running", NoPid)
          /\ Return(s)
       \/ /\ ~(Cfg[s].daemon /\ exits[child[s]] = "ok")
          /\ Goto(s, "dsEnabled")
          /\ UNCHANGED <<runtimeVars, why, held>>
    /\ UNCHANGED <<ctl, tracked, streak, last, clientVars, mainVars>>

----------------------------------------------------------------------------
(* do_start.                                                                *)

\* Mutant: no look at the flag.
DsEnabled_Unchecked(s) ==
    /\ pc[s] = "dsEnabled"
    /\ Goto(s, "dsDeps")
    /\ UNCHANGED <<runtimeVars, ctl, why, tracked, child, held, streak, last,
                   procVars, clientVars, mainVars>>

DsEnabled(s) ==
    /\ pc[s] = "dsEnabled"
    /\ \/ enabled[s] /\ Goto(s, "dsDeps") /\ UNCHANGED held
       \/ /\ ~enabled[s]
          /\ Goto(s, "dsMark")
          /\ held' = [held EXCEPT ![s] = "Disabled"]
    /\ UNCHANGED <<runtimeVars, ctl, why, tracked, child, streak, last,
                   procVars, clientVars, mainVars>>

DsDeps(s) ==
    /\ pc[s] = "dsDeps"
    /\ held' = [held EXCEPT ![s] = IF why[s] = "force" \/ DepsReady(s)
                                     THEN "Starting" ELSE "WaitingForDependency"]
    /\ Goto(s, "dsMark")
    /\ UNCHANGED <<runtimeVars, ctl, why, tracked, child, streak, last,
                   procVars, clientVars, mainVars>>

DsMarkDisabled(s) ==
    /\ pc[s] = "dsMark"
    /\ held[s] = "Disabled"
    /\ ApplyState(s, "Disabled", NoPid)
    /\ Goto(s, "dsErr")
    /\ UNCHANGED <<ctl, why, tracked, child, held, streak, last,
                   procVars, clientVars, mainVars>>

DsMarkWaiting(s) ==
    /\ pc[s] = "dsMark"
    /\ held[s] = "WaitingForDependency"
    /\ ApplyState(s, "WaitingForDependency", NoPid)
    /\ Return(s)
    /\ UNCHANGED <<ctl, tracked, child, streak, last,
                   procVars, clientVars, mainVars>>

DsSpawn(s) ==
    /\ pc[s] = "dsMark"
    /\ held[s] = "Starting"
    /\ ApplyState(s, "Starting", NoPid)
    /\ \E p \in Pids : Spawn(s, p)
    /\ Goto(s, "dsWait")
    /\ UNCHANGED <<ctl, why, tracked, held, streak, last, clientVars, mainVars>>

DsSpawnFails(s) ==
    /\ pc[s] = "dsMark"
    /\ held[s] = "Starting"
    /\ ApplyState(s, "Starting", NoPid)
    /\ Goto(s, "dsErr")
    /\ UNCHANGED <<ctl, why, tracked, child, held, streak, last,
                   procVars, clientVars, mainVars>>

\* Any Err of do_start: the caller marks the service Failed.
DsErr(s) ==
    /\ pc[s] = "dsErr"
    /\ ApplyState(s, "Failed", NoPid)
    /\ Return(s)
    /\ UNCHANGED <<ctl, tracked, child, streak, last,
                   procVars, clientVars, mainVars>>

\* The daemon exited within startWaitSecs: a SysV script that daemonized, or a
\* failed start.
DsEarlyExit(s) ==
    /\ pc[s] = "dsWait"
    /\ Cfg[s].daemon
    /\ Collect(child[s])
    /\ child' = [child EXCEPT ![s] = NoPid]
    /\ \/ /\ ~Cfg[s].startWait /\ exits[child[s]] = "ok"
          /\ ApplyState(s, "Running", NoPid)
          /\ Return(s)
       \/ /\ Cfg[s].startWait \/ exits[child[s]] # "ok"
          /\ ApplyState(s, "Failed", NoPid)
          /\ Goto(s, "dsErr")
          /\ UNCHANGED why
          /\ UNCHANGED held
    /\ UNCHANGED <<ctl, tracked, streak, last, clientVars, mainVars>>

\* Mutant: the wait for an early exit has no deadline.
DsStayedUp_Never(s) == FALSE

\* The wait is over and no exit was published (yet).
DsStayedUp(s) ==
    /\ pc[s] = "dsWait"
    /\ Cfg[s].daemon
    /\ exits[child[s]] = "none"
    /\ ApplyState(s, "Running", child[s])
    /\ tracked' = [tracked EXCEPT ![s] = child[s]]
    /\ child' = [child EXCEPT ![s] = NoPid]
    /\ Return(s)
    /\ UNCHANGED <<ctl, streak, last, procVars, clientVars, mainVars>>

DsJobExit(s) ==
    /\ pc[s] = "dsWait"
    /\ ~Cfg[s].daemon
    /\ Collect(child[s])
    /\ child' = [child EXCEPT ![s] = NoPid]
    /\ \/ /\ exits[child[s]] = "ok"
          /\ ApplyState(s, "Succeeded", NoPid)
          /\ Return(s)
       \/ /\ exits[child[s]] # "ok"
          /\ ApplyState(s, "Failed", NoPid)
          /\ Goto(s, "dsErr")
          /\ UNCHANGED why
          /\ UNCHANGED held
    /\ UNCHANGED <<ctl, tracked, streak, last, clientVars, mainVars>>

\* Mutant: the job that timed out is left running.
DsJobTimeout_NoKill(s) ==
    /\ pc[s] = "dsWait"
    /\ ~Cfg[s].daemon
    /\ exits[child[s]] = "none"
    /\ child' = [child EXCEPT ![s] = NoPid]
    /\ ApplyState(s, "Failed", NoPid)
    /\ Goto(s, "dsErr")
    /\ UNCHANGED <<ctl, why, tracked, held, streak, last,
                   procVars, clientVars, mainVars>>

DsJobTimeout(s) ==
    /\ pc[s] = "dsWait"
    /\ ~Cfg[s].daemon
    /\ exits[child[s]] = "none"
    /\ Goto(s, "dsTerm")
    /\ UNCHANGED <<runtimeVars, ctl, why, tracked, child, held, streak, last,
                   procVars, clientVars, mainVars>>

DsJobKilled(s) ==
    /\ pc[s] = "dsReap"
    /\ CollectOrGiveUp(child[s])
    /\ child' = [child EXCEPT ![s] = NoPid]
    /\ ApplyState(s, "Failed", NoPid)
    /\ Goto(s, "dsErr")
    /\ UNCHANGED <<ctl, why, tracked, held, streak, last, clientVars, mainVars>>

----------------------------------------------------------------------------
(* Children and IPC threads.                                                *)

\* A child ends by itself, by the stop script, on SIGTERM or on SIGKILL; the
\* reaper publishes its code, whether or not anybody still waits for it.
ProcExit(s, p, code) ==
    /\ p \in alive[s]
    /\ alive' = [alive EXCEPT ![s] = @ \ {p}]
    /\ exits' = [exits EXCEPT ![p] = code]
    /\ killed' = killed \ {p}
    /\ over' = over \ {p}
    /\ UNCHANGED <<runtimeVars, ctl, monitorVars, lost, clientVars, mainVars>>

Request(c, s, op) ==
    /\ cop[c] = "idle"
    /\ budget > 0
    /\ budget' = budget - 1
    /\ cop' = [cop EXCEPT ![c] = op]
    /\ csvc' = [csvc EXCEPT ![c] = s]

\* start_service / restart_service check the enabled flag, then send.
ReqStart(c, s) ==
    /\ enabled[s]
    /\ \E op \in {"Start", "Force", "Restart"} :
          <<s, op>> \in Asks /\ Request(c, s, op)
    /\ UNCHANGED <<runtimeVars, ctl, monitorVars, procVars, mainVars>>

ReqStop(c, s) ==
    /\ <<s, "Stop">> \in Asks
    /\ Request(c, s, "Stop")
    /\ UNCHANGED <<runtimeVars, ctl, monitorVars, procVars, mainVars>>

\* Shared::set_enabled flips the flag under one lock ...
ReqDisable(c, s) ==
    /\ <<s, "disable">> \in Asks
    /\ Request(c, s, "setDisabled")
    /\ enabled' = [enabled EXCEPT ![s] = FALSE]
    /\ UNCHANGED <<state, pid, ctl, monitorVars, procVars, mainVars>>

ReqEnable(c, s) ==
    /\ <<s, "enable">> \in Asks
    /\ Request(c, s, IF state[s] = "Disabled" THEN "setPending" ELSE "Start")
    /\ enabled' = [enabled EXCEPT ![s] = TRUE]
    /\ UNCHANGED <<state, pid, ctl, monitorVars, procVars, mainVars>>

\* ... and sets the state it decided on under another.
ClientSetState(c) ==
    /\ \/ /\ cop[c] = "setDisabled"
          /\ ApplyState(csvc[c], "Disabled", NoPid)
          /\ cop' = [cop EXCEPT ![c] = "Stop"]
       \/ /\ cop[c] = "setPending"
          /\ ApplyState(csvc[c], "Pending", NoPid)
          /\ cop' = [cop EXCEPT ![c] = "Start"]
    /\ UNCHANGED <<ctl, monitorVars, procVars, csvc, budget, mainVars>>

ClientSend(c) ==
    /\ cop[c] \in CtlMsg
    /\ Send(csvc[c], cop[c])
    /\ cop' = [cop EXCEPT ![c] = "idle"]
    /\ csvc' = [csvc EXCEPT ![c] = "none"]
    /\ UNCHANGED <<runtimeVars, monitorVars, procVars, budget, mainVars>>

----------------------------------------------------------------------------
(* The main thread: boot, then stop_all_ordered when a shutdown was asked.  *)
(* boot's wait_settled and the two sleeps of stop_all_ordered are timers:   *)
(* the next send may come at any later step.                                *)

SendAll(phase, order, msg, next) ==
    /\ main = phase
    /\ \/ /\ idx <= Len(order)
          /\ Send(order[idx], msg)
          /\ idx' = idx + 1
          /\ UNCHANGED main
       \/ /\ idx > Len(order)
          /\ main' = next
          /\ idx' = 1
          /\ UNCHANGED ctl
    /\ UNCHANGED <<runtimeVars, monitorVars, procVars, clientVars, stopAll>>

Boot == SendAll("boot", BootOrder, "Start", "run")

\* Mutant: the messages are sent without the flag.
BeginShutdown_NoFlag ==
    /\ main = "run"
    /\ main' = "stopping"
    /\ UNCHANGED <<runtimeVars, ctl, monitorVars, procVars, clientVars, stopAll, idx>>

BeginShutdown ==
    /\ main = "run"
    /\ main' = "stopping"
    /\ stopAll' = TRUE
    /\ UNCHANGED <<runtimeVars, ctl, monitorVars, procVars, clientVars, idx>>

StopAll == SendAll("stopping", StopOrder, "Stop", "quitting")

QuitAll == SendAll("quitting", StopOrder, "Quit", "down")

\* Nothing is left to do; microinit goes on to unmount and reboot.
Terminated ==
    /\ main = "down"
    /\ \A s \in Services : pc[s] = "done"
    /\ \A c \in Clients : cop[c] = "idle"
    /\ UNCHANGED vars

----------------------------------------------------------------------------
LoopStep(s) ==
    \/ TopRecv(s) \/ TopExit(s)
    \/ RecvStop(s) \/ RecvRestart(s) \/ RecvStartIgnored(s) \/ RecvStart(s)
    \/ RecvTimeout(s)
    \/ PollExit(s) \/ PollRetry(s) \/ PollIdle(s)
    \/ Exited(s) \/ MarkExit(s) \/ BackoffDone(s)
    \/ LiveState(s) \/ LiveSkip(s) \/ LiveNotDue(s) \/ LiveDue(s)
    \/ ProbeOk(s) \/ ProbeFail(s) \/ ProbeRestart(s)

StopStep(s) ==
    \/ Kill(s) \/ TermReaped(s)
    \/ AfterStop(s) \/ MarkStop(s) \/ AfterStopExit(s)
    \/ AfterStopStart(s) \/ AfterStopScript(s) \/ RestartScriptDone(s)

StartStep(s) ==
    \/ DsEnabled(s) \/ DsDeps(s)
    \/ DsMarkDisabled(s) \/ DsMarkWaiting(s) \/ DsSpawn(s) \/ DsSpawnFails(s)
    \/ DsErr(s) \/ DsEarlyExit(s) \/ DsStayedUp(s)
    \/ DsJobExit(s) \/ DsJobTimeout(s) \/ DsJobKilled(s)

MonitorStep(s) == LoopStep(s) \/ StopStep(s) \/ StartStep(s)

ClientStep(c) ==
    \/ \E s \in Services : ReqStart(c, s) \/ ReqStop(c, s)
                           \/ ReqDisable(c, s) \/ ReqEnable(c, s)
    \/ ClientSetState(c)
    \/ ClientSend(c)

MainStep == Boot \/ BeginShutdown \/ StopAll \/ QuitAll

Next ==
    \/ \E s \in Services : MonitorStep(s) \/ StopScriptDone(s)
    \/ \E s \in Services, p \in Pids, code \in Code : ProcExit(s, p, code)
    \/ \E c \in Clients : ClientStep(c)
    \/ MainStep
    \/ Terminated

Spec == Init /\ [][Next]_vars

\* Threads are scheduled and timers fire.  Nothing is assumed of daemons, jobs,
\* scripts and killed processes, of operators, or of when a shutdown is asked
\* for.
Fairness ==
    /\ \A s \in Services : WF_vars(MonitorStep(s))
    /\ \A c \in Clients : WF_vars(ClientSetState(c) \/ ClientSend(c))
    /\ WF_vars(Boot \/ StopAll \/ QuitAll)

FairSpec == Spec /\ Fairness

----------------------------------------------------------------------------
(* Properties.                                                              *)

\* The monitor is in its loop, not inside stop_tracked, do_start or
\* on_process_exit.
LoopPc == {"top", "recv", "poll", "live", "liveEnabled", "probe"}

\* Inside one of the three and waiting for the process in child.
WaitPc == {"term", "reap", "rscript", "dsWait", "dsTerm", "dsReap"}

\* A start that passed, or may pass, the enabled check of do_start.
StartPc == {"exited", "markExit", "backoff", "rscript", "dsEnabled", "dsDeps",
            "dsMark", "dsWait", "dsTerm", "dsReap", "dsErr"}

\* run_shell waits for a script of the service, for as long as it takes.
ScriptPc == {"script", "rscript"}

\* No monitor is ever responsible for more than one process: not after an early
\* return of do_start, not across a restart script, not once the monitor thread
\* has ended.  A process of a service that runs without its monitor knowing the
\* pid is one that was sent SIGKILL and outlived the wait that follows, or one
\* whose pid had the unclaimed exit of such a process in the registry, which was
\* taken for its own.
OneProcess ==
    \A s \in Services :
        /\ alive[s] \ Mine(s) \subseteq lost \cap (killed \cup over)
        /\ Cardinality(Mine(s)) <= 1
        /\ pc[s] \in LoopPc => Mine(s) \subseteq {tracked[s]}
        /\ pc[s] = "done" => Mine(s) = {}

\* The exit of every process a monitor answers for is still to come or waits in
\* the registry for exactly that monitor, so no wait_take blocks on an exit that
\* was taken already.  An exit without an owner, which a later process of that
\* pid may meet, is left only by a wait that ran out after SIGKILL.
ExitsAccounted ==
    /\ \A s \in Services : \A p \in Mine(s) \ over : p \in alive[s] <=> exits[p] = "none"
    /\ \A p \in Pids : exits[p] # "none" => p \in lost \/ \E s \in Services : p \in Mine(s)
    /\ \A s, t \in Services : \A p \in Mine(s) : p \in Mine(t) => s = t
    /\ over \subseteq lost

\* The inductive form of the two: a tracked process belongs to the loop, one
\* that is being waited for to stop_tracked, do_start or the restart script,
\* and there is none in between; the histories are about living processes; a
\* process belongs to one service, and is killed before its monitor may give up.
OwnerPc ==
    \A s \in Services :
        /\ tracked[s] # NoPid => pc[s] \in LoopPc
        /\ child[s] # NoPid => pc[s] \in WaitPc \cup {"script"}
        /\ pc[s] \in WaitPc => child[s] # NoPid

AllKnown == \A s \in Services : alive[s] \ Mine(s) \subseteq lost \cap (killed \cup over)

Apart ==
    /\ \A p \in killed \cup over : \E s \in Services : p \in alive[s]
    /\ \A s, t \in Services : s # t => alive[s] \cap (alive[t] \cup Mine(t)) = {}
    /\ \A s \in Services : \A p \in Mine(s) \cap over : exits[p] # "none"

KilledFirst ==
    \A s \in Services :
        pc[s] \in {"reap", "dsReap"} /\ child[s] \in alive[s] => child[s] \in killed

Ownership == OwnerPc /\ AllKnown /\ ExitsAccounted /\ Apart /\ KilledFirst

\* After a monitor has handled Stop and nothing else since, neither the exit
\* poll, nor the dependency retry, nor a liveness probe, nor a state written by
\* a concurrent enable or disable brings the service back.  (What may still run
\* are the processes OneProcess speaks of.)
StopSticks ==
    \A s \in Services : last[s] = "Stop" =>
        /\ pc[s] \notin StartPc
        /\ pc[s] \in LoopPc => alive[s] \subseteq killed \cup over /\ tracked[s] = NoPid
        /\ pc[s] \in LoopPc => state[s] \notin Probed \cup {"WaitingForDependency"}

\* Stop is queued for s, or some thread of set_enabled is about to queue it.
StopPending(s) ==
    \/ \E i \in 1..Len(ctl[s]) : ctl[s][i] = "Stop"
    \/ \E c \in Clients : csvc[c] = s /\ cop[c] \in {"setDisabled", "Stop"}

\* A disabled service without a Stop under way has no process that is supervised
\* or being started: the enabled check of do_start and the Stop of set_enabled
\* leave no gap between them, whatever the order in which concurrent requests
\* and boot send their messages.  The restart script is the exception, and the
\* only one: it is run without a look at the flag, so a Restart that was queued
\* behind the Stop of the disable runs it and leaves the service Running.
DisabledStops ==
    \A s \in Services : ~enabled[s] /\ ~StopPending(s) =>
        /\ tracked[s] = NoPid /\ pc[s] # "dsWait"
        /\ pc[s] = "rscript" \/ (pc[s] \in LoopPc /\ state[s] = "Running") =>
              last[s] = "Restart"

\* The shutdown's Quit is never the message a monitor receives: the Stop before
\* it, or the stop_all flag, ends the monitor first.  (monitor_loop's Quit
\* branch serves reload alone, which is why no action models it here.)
QuitNeverReceived ==
    \A s \in Services :
        pc[s] = "recv" /\ ctl[s] # <<>> => Head(ctl[s]) # "Quit"

\* A shutdown, once begun, ends every monitor thread, and what is left of the
\* service then was sent SIGKILL (or is taken for dead): no probe, backoff, job
\* or kill of a monitor outlasts it.  Only a script can: run_shell waits for stop
\* and restart scripts without a bound, and when a service has startCmd and
\* stopCmd alone the restart script is the service itself.
ShutdownCompletes ==
    \A s \in Services :
        []<>(pc[s] \notin ScriptPc) =>
            (stopAll ~> pc[s] = "done" /\ alive[s] \subseteq killed \cup over)

\* Every control message is received, or dropped by a monitor that ended: unless
\* a script never returns, nothing a monitor does keeps it from its queue for
\* ever.
RequestsServed ==
    \A s \in Services :
        []<>(pc[s] \notin ScriptPc) =>
            (ctl[s] # <<>> ~> (ctl[s] = <<>> \/ pc[s] = "done"))

\* A service does not wait for ever for dependencies that are up: the retry of
\* monitor_loop sees them, unless the monitor is held by a script for ever.
WaitEnds ==
    \A s \in Services :
        []<>(pc[s] \notin ScriptPc) =>
            ~ <>[](state[s] = "WaitingForDependency" /\ DepsReady(s) /\ ~stopAll)

----------------------------------------------------------------------------
(* Refinement: the supervisor keeps the contract of its processes.          *)

Life(s) ==
    CASE pc[s] = "done" -> "retired"
      [] pc[s] # "done" /\ Mine(s) = {} -> "idle"
      [] pc[s] # "done" /\ Mine(s) # {} /\ Mine(s) \cap alive[s] = {} -> "exited"
      [] OTHER -> IF Mine(s) \cap over # {} THEN "blind"
                  ELSE IF Mine(s) \cap killed # {} THEN "doomed" ELSE "up"

Contract == INSTANCE ProcessContract WITH
    life  <- [s \in Services |-> Life(s)],
    order <- [s \in Services |-> IF last[s] = "Stop" THEN "stop" ELSE "go"],
    loose <- lost # {}

\* Every behaviour of the supervisor keeps the contract: a process is spawned
\* only when the previous one of the service was reaped, or was sent SIGKILL and
\* outlived the wait; never between a Stop and the next order, and never by a
\* monitor that ended; and an exit is mistaken for that of another process only
\* after such a wait ran out.
KeepsContract == Contract!Spec

\* Nobody is about to change s: its monitor is in its loop with an empty queue
\* and no request for it is half done.
Quiet(s) ==
    /\ pc[s] \in LoopPc
    /\ ctl[s] = <<>>
    /\ main # "boot"
    /\ \A c \in Clients : csvc[c] # s

----------------------------------------------------------------------------
(* What the documentation or a comment says and the code does not do.       *)

\* docs/api.md: a service is pending when it is not started yet.  So when nothing
\* is under way, a process that is supervised shows as Running, under its pid.
StateShown ==
    \A s \in Services :
        Quiet(s) /\ tracked[s] # NoPid => state[s] = "Running" /\ pid[s] = tracked[s]

\* docs/operator.md: services stop in reverse of the start order, so a
\* dependency is not taken down while a service that needs it still runs.
ReverseStop ==
    \A s \in Services : \A d \in Cfg[s].dependsOn :
        pc[d] = "done" => alive[s] = {}
===============================================================================
