--------------------------- MODULE SupervisorProofs ---------------------------
(****************************************************************************)
(* Proofs about the supervisor for every configuration, every number of     *)
(* services, clients and requests, and every set of pids.                   *)
(****************************************************************************)
EXTENDS Supervisor, FiniteSetTheorems, TLAPS

USE DEF ServiceState, CtlMsg, MonitorPc, Caller, Code, ClientOp

\* A step of the monitor of s, or of the stop script it waits for.
ServiceStep(s) == MonitorStep(s) \/ StopScriptDone(s)

----------------------------------------------------------------------------
(* Type correctness: one step per action.                                   *)

\* Goto moves a monitor to a position it can have.
LEMMA GotoType ==
    ASSUME pc \in [Services -> MonitorPc],
           NEW s \in Services, NEW l \in MonitorPc, Goto(s, l)
    PROVE  pc' \in [Services -> MonitorPc]
BY DEF Goto

\* Return puts the monitor back in its loop, in type.
LEMMA ReturnType ==
    ASSUME pc \in [Services -> MonitorPc], why \in [Services -> Caller],
           held \in [Services -> ServiceState], NEW s \in Services, Return(s)
    PROVE  /\ pc' \in [Services -> MonitorPc]
           /\ why' \in [Services -> Caller]
           /\ held' \in [Services -> ServiceState]
BY DEF Return, ReturnPc, Goto

\* set_state keeps the runtimes in their type.
LEMMA ApplyStateType ==
    ASSUME state \in [Services -> ServiceState],
           pid \in [Services -> Pids \cup {NoPid}],
           enabled \in [Services -> BOOLEAN],
           NEW s \in Services, NEW st \in ServiceState,
           NEW p \in Pids \cup {NoPid}, ApplyState(s, st, p)
    PROVE  /\ state' \in [Services -> ServiceState]
           /\ pid' \in [Services -> Pids \cup {NoPid}]
           /\ enabled' \in [Services -> BOOLEAN]
BY DEF ApplyState, NextPid

\* send_ctl appends a control message or leaves the queues alone.
LEMMA SendType ==
    ASSUME ctl \in [Services -> Seq(CtlMsg)],
           NEW s \in Services, NEW m \in CtlMsg, Send(s, m)
    PROVE  ctl' \in [Services -> Seq(CtlMsg)]
BY DEF Send

\* The wait after a kill keeps the registry and the histories in their type.
LEMMA GiveUpType ==
    ASSUME TypeOK, NEW p \in Pids \cup {NoPid}, CollectOrGiveUp(p)
    PROVE  /\ alive' = alive /\ exits' \in [Pids -> Code \cup {"none"}]
           /\ lost' \in SUBSET (Pids \cup {NoPid}) /\ UNCHANGED <<killed, over>>
<1>1. CASE Collect(p)
  BY <1>1 DEF TypeOK, Collect
<1>2. CASE lost' = lost \cup {p} /\ UNCHANGED <<alive, exits, killed, over>>
  BY <1>2 DEF TypeOK
<1> QED BY <1>1, <1>2 DEF CollectOrGiveUp

\* The steps of monitor_loop keep every variable in its type.
LEMMA LoopStepType ==
    ASSUME TypeOK, NEW s \in Services, LoopStep(s)
    PROVE  TypeOK'
<1>1. CASE TopRecv(s)
  BY <1>1, GotoType DEF TypeOK, TopRecv, runtimeVars, procVars, clientVars,
     mainVars
<1>2. CASE TopExit(s)
  BY <1>2, GotoType DEF TypeOK, TopExit, BeginStop, runtimeVars, procVars,
     clientVars, mainVars
<1>3. CASE RecvStop(s)
  BY <1>3, GotoType, ApplyStateType DEF TypeOK, RecvStop, BeginStop, Recv,
     procVars, clientVars, mainVars
<1>4. CASE RecvRestart(s)
  BY <1>4, GotoType DEF TypeOK, RecvRestart, BeginStop, Recv, runtimeVars,
     procVars, clientVars, mainVars
<1>5. CASE RecvStartIgnored(s)
  BY <1>5, GotoType DEF TypeOK, RecvStartIgnored, Recv, runtimeVars, procVars,
     clientVars, mainVars
<1>6. CASE RecvStart(s)
  BY <1>6, GotoType DEF TypeOK, RecvStart, BeginStart, Recv, runtimeVars,
     procVars, clientVars, mainVars
<1>7. CASE RecvTimeout(s)
  BY <1>7, GotoType DEF TypeOK, RecvTimeout, runtimeVars, procVars,
     clientVars, mainVars
<1>8. CASE PollExit(s)
  BY <1>8, GotoType, ApplyStateType DEF TypeOK, PollExit, Collect, clientVars,
     mainVars
<1>9. CASE PollRetry(s)
  BY <1>9, GotoType DEF TypeOK, PollRetry, BeginStart, WantsRetry,
     runtimeVars, procVars, clientVars, mainVars
<1>10. CASE PollIdle(s)
  BY <1>10, GotoType DEF TypeOK, PollIdle, WantsRetry, runtimeVars, procVars,
     clientVars, mainVars
<1>11. CASE Exited(s)
  BY <1>11, GotoType DEF TypeOK, Exited, runtimeVars, procVars, clientVars,
     mainVars
<1>12. CASE MarkExit(s)
  <2>0. held[s] \in ServiceState
    BY DEF TypeOK
  <2>1. CASE held[s] = "Restarting"
    BY <1>12, <2>0, <2>1, GotoType, ReturnType, ApplyStateType DEF TypeOK,
       MarkExit, procVars, clientVars, mainVars
  <2>2. CASE held[s] # "Restarting"
    BY <1>12, <2>0, <2>2, GotoType, ReturnType, ApplyStateType DEF TypeOK,
       MarkExit, procVars, clientVars, mainVars
  <2> QED BY <2>1, <2>2
<1>13. CASE BackoffDone(s)
  BY <1>13, GotoType DEF TypeOK, BackoffDone, runtimeVars, procVars,
     clientVars, mainVars
<1>14. CASE LiveState(s)
  BY <1>14, GotoType DEF TypeOK, LiveState, Probed, runtimeVars, procVars,
     clientVars, mainVars
<1>15. CASE LiveSkip(s)
  BY <1>15, GotoType DEF TypeOK, LiveSkip, Probed, runtimeVars, procVars,
     clientVars, mainVars
<1>16. CASE LiveNotDue(s)
  BY <1>16, ReturnType DEF TypeOK, LiveNotDue, runtimeVars, procVars,
     clientVars, mainVars
<1>17. CASE LiveDue(s)
  BY <1>17, GotoType DEF TypeOK, LiveDue, runtimeVars, procVars, clientVars,
     mainVars
<1>18. CASE ProbeOk(s)
  BY <1>18, ReturnType, ApplyStateType DEF TypeOK, ProbeOk, runtimeVars,
     procVars, clientVars, mainVars
<1>19. CASE ProbeFail(s)
  BY <1>19, ReturnType, CfgAssumption DEF TypeOK, CfgType, ProbeFail,
     BelowThreshold, runtimeVars, procVars, clientVars, mainVars
<1>20. CASE ProbeRestart(s)
  BY <1>20, GotoType, ApplyStateType DEF TypeOK, ProbeRestart, BeginStop,
     BelowThreshold, procVars, clientVars, mainVars
<1> QED BY <1>1, <1>2, <1>3, <1>4, <1>5, <1>6, <1>7, <1>8, <1>9, <1>10, <1>11,
   <1>12, <1>13, <1>14, <1>15, <1>16, <1>17, <1>18, <1>19, <1>20 DEF LoopStep

\* So do the steps of stop_tracked and its callers,
LEMMA StopStepType ==
    ASSUME TypeOK, NEW s \in Services, StopStep(s) \/ StopScriptDone(s)
    PROVE  TypeOK'
<1>1. CASE StopScriptDone(s)
  BY <1>1, GotoType DEF TypeOK, StopScriptDone, runtimeVars, procVars,
     clientVars, mainVars
<1>2. CASE Kill(s)
  BY <1>2 DEF TypeOK, Kill, Goto, runtimeVars, clientVars, mainVars
<1>3. CASE TermReaped(s)
  <2>1. /\ alive' = alive /\ exits' \in [Pids -> Code \cup {"none"}]
        /\ lost' \in SUBSET (Pids \cup {NoPid}) /\ UNCHANGED <<killed, over>>
    BY <1>3, GiveUpType DEF TypeOK, TermReaped
  <2> QED BY <1>3, <2>1, GotoType DEF TypeOK, TermReaped, runtimeVars, clientVars, mainVars
<1>4. CASE AfterStop(s)
  BY <1>4, GotoType DEF TypeOK, AfterStop, runtimeVars, procVars, clientVars,
     mainVars
<1>5. CASE MarkStop(s)
  <2>0. held[s] \in ServiceState
    BY DEF TypeOK
  <2> QED BY <1>5, <2>0, ReturnType, ApplyStateType DEF TypeOK, MarkStop,
       procVars, clientVars, mainVars
<1>6. CASE AfterStopExit(s)
  BY <1>6, GotoType, ApplyStateType DEF TypeOK, AfterStopExit, procVars,
     clientVars, mainVars
<1>7. CASE AfterStopStart(s)
  BY <1>7, GotoType DEF TypeOK, AfterStopStart, runtimeVars, procVars,
     clientVars, mainVars
<1>8. CASE AfterStopScript(s)
  BY <1>8, GotoType DEF TypeOK, AfterStopScript, Spawn, runtimeVars,
     clientVars, mainVars
<1>9. CASE RestartScriptDone(s)
  <2>1. /\ child' \in [Services -> Pids \cup {NoPid}]
        /\ exits' \in [Pids -> Code \cup {"none"}]
        /\ UNCHANGED <<alive, killed, over, lost, ctl, tracked, streak, last, clientVars, mainVars>>
    BY <1>9 DEF TypeOK, RestartScriptDone, Collect
  <2>2. CASE ApplyState(s, "Running", NoPid) /\ Return(s)
    BY <2>1, <2>2, ReturnType, ApplyStateType DEF TypeOK, clientVars, mainVars
  <2>3. CASE Goto(s, "dsEnabled") /\ UNCHANGED <<runtimeVars, why, held>>
    <3>1. pc' \in [Services -> MonitorPc]
      BY <2>3, GotoType DEF TypeOK
    <3> QED BY <2>1, <2>3, <3>1 DEF TypeOK, runtimeVars, clientVars, mainVars
  <2> QED BY <1>9, <2>2, <2>3 DEF RestartScriptDone
<1> QED BY <1>1, <1>2, <1>3, <1>4, <1>5, <1>6, <1>7, <1>8, <1>9 DEF StopStep

\* and the steps of do_start.
LEMMA StartStepType ==
    ASSUME TypeOK, NEW s \in Services, StartStep(s)
    PROVE  TypeOK'
<1>1. CASE DsEnabled(s)
  BY <1>1, GotoType DEF TypeOK, DsEnabled, runtimeVars, procVars, clientVars,
     mainVars
<1>2. CASE DsDeps(s)
  BY <1>2, GotoType DEF TypeOK, DsDeps, runtimeVars, procVars, clientVars,
     mainVars
<1>3. CASE DsMarkDisabled(s)
  BY <1>3, GotoType, ApplyStateType DEF TypeOK, DsMarkDisabled, procVars,
     clientVars, mainVars
<1>4. CASE DsMarkWaiting(s)
  BY <1>4, ReturnType, ApplyStateType DEF TypeOK, DsMarkWaiting, procVars,
     clientVars, mainVars
<1>5. CASE DsSpawn(s)
  BY <1>5, GotoType, ApplyStateType DEF TypeOK, DsSpawn, Spawn, clientVars,
     mainVars
<1>6. CASE DsSpawnFails(s)
  BY <1>6, GotoType, ApplyStateType DEF TypeOK, DsSpawnFails, procVars,
     clientVars, mainVars
<1>7. CASE DsErr(s)
  BY <1>7, ReturnType, ApplyStateType DEF TypeOK, DsErr, procVars, clientVars,
     mainVars
<1>8. CASE DsEarlyExit(s)
  BY <1>8, GotoType, ReturnType, ApplyStateType DEF TypeOK, DsEarlyExit,
     Collect, clientVars, mainVars
<1>9. CASE DsStayedUp(s)
  BY <1>9, ReturnType, ApplyStateType DEF TypeOK, DsStayedUp, procVars,
     clientVars, mainVars
<1>10. CASE DsJobExit(s)
  BY <1>10, GotoType, ReturnType, ApplyStateType DEF TypeOK, DsJobExit,
     Collect, clientVars, mainVars
<1>11. CASE DsJobTimeout(s)
  BY <1>11, GotoType DEF TypeOK, DsJobTimeout, runtimeVars, procVars,
     clientVars, mainVars
<1>12. CASE DsJobKilled(s)
  <2>1. /\ alive' = alive /\ exits' \in [Pids -> Code \cup {"none"}]
        /\ lost' \in SUBSET (Pids \cup {NoPid}) /\ UNCHANGED <<killed, over>>
    BY <1>12, GiveUpType DEF TypeOK, DsJobKilled
  <2> QED BY <1>12, <2>1, GotoType, ApplyStateType DEF TypeOK, DsJobKilled, clientVars, mainVars
<1> QED BY <1>1, <1>2, <1>3, <1>4, <1>5, <1>6, <1>7, <1>8, <1>9, <1>10, <1>11,
   <1>12 DEF StartStep

\* So do children, IPC threads and the main thread.
LEMMA OtherStepType ==
    ASSUME TypeOK,
           \/ \E s \in Services, p \in Pids, code \in Code : ProcExit(s, p, code)
           \/ \E c \in Clients : ClientStep(c)
           \/ MainStep
           \/ Terminated
    PROVE  TypeOK'
<1>1. CASE \E s \in Services, p \in Pids, code \in Code : ProcExit(s, p, code)
  BY <1>1 DEF TypeOK, ProcExit, runtimeVars, monitorVars, clientVars, mainVars
<1>2. ASSUME NEW c \in Clients, ClientStep(c)
      PROVE  TypeOK'
  <2>1. ASSUME NEW s \in Services,
               \/ ReqStart(c, s) \/ ReqStop(c, s)
               \/ ReqDisable(c, s) \/ ReqEnable(c, s)
        PROVE  TypeOK'
    <3>1. ASSUME NEW op \in ClientOp, Request(c, s, op)
          PROVE  /\ cop' \in [Clients -> ClientOp]
                 /\ csvc' \in [Clients -> Services \cup {"none"}]
                 /\ \A d \in Clients : cop'[d] # "idle" => csvc'[d] \in Services
                 /\ budget' \in Nat
      BY <3>1 DEF TypeOK, Request
    <3>2. CASE ReqStart(c, s)
      BY <3>1, <3>2 DEF TypeOK, ReqStart, runtimeVars, monitorVars, procVars, mainVars
    <3>3. CASE ReqStop(c, s)
      BY <3>1, <3>3 DEF TypeOK, ReqStop, runtimeVars, monitorVars, procVars, mainVars
    <3>4. CASE ReqDisable(c, s)
      BY <3>1, <3>4 DEF TypeOK, ReqDisable, monitorVars, procVars, mainVars
    <3>5. CASE ReqEnable(c, s)
      BY <3>1, <3>5 DEF TypeOK, ReqEnable, monitorVars, procVars, mainVars
    <3> QED BY <2>1, <3>2, <3>3, <3>4, <3>5
  <2>2. CASE ClientSetState(c)
    <3>1. csvc[c] \in Services
      BY <2>2 DEF TypeOK, ClientSetState
    <3>2. PICK st \in {"Disabled", "Pending"}, op \in {"Stop", "Start"} :
             ApplyState(csvc[c], st, NoPid) /\ cop' = [cop EXCEPT ![c] = op]
      BY <2>2 DEF ClientSetState
    <3>3. cop' \in [Clients -> ClientOp]
      BY <3>2 DEF TypeOK
    <3>4. /\ state' \in [Services -> ServiceState]
          /\ pid' \in [Services -> Pids \cup {NoPid}]
          /\ enabled' \in [Services -> BOOLEAN]
      BY <3>1, <3>2, ApplyStateType DEF TypeOK
    <3> QED BY <2>2, <3>1, <3>2, <3>3, <3>4
               DEF TypeOK, ClientSetState, monitorVars, procVars, mainVars
  <2>3. CASE ClientSend(c)
    BY <2>3 DEF TypeOK, ClientSend, Send, runtimeVars, monitorVars, procVars,
                mainVars
  <2> QED BY <1>2, <2>1, <2>2, <2>3 DEF ClientStep
<1>3. CASE Boot \/ StopAll \/ QuitAll
  <2>1. ASSUME NEW phase, NEW order \in Seq(Services), NEW msg \in CtlMsg,
               NEW next \in {"run", "quitting", "down"},
               SendAll(phase, order, msg, next)
        PROVE  TypeOK'
    <3>1. idx \in Nat /\ idx > 0 /\ Len(order) \in Nat
      BY DEF TypeOK
    <3>2. CASE idx <= Len(order)
      <4>1. order[idx] \in Services
        BY <3>1, <3>2
      <4>2. Send(order[idx], msg) /\ idx' = idx + 1 /\ main' = main
        BY <2>1, <3>1, <3>2 DEF SendAll
      <4>3. ctl' \in [Services -> Seq(CtlMsg)]
        BY <4>1, <4>2, SendType DEF TypeOK
      <4> QED BY <2>1, <3>1, <4>2, <4>3 DEF TypeOK, SendAll, runtimeVars,
                 monitorVars, procVars, clientVars
    <3>3. CASE idx > Len(order)
      BY <2>1, <3>1, <3>3 DEF TypeOK, SendAll, runtimeVars, monitorVars,
         procVars, clientVars
    <3> QED BY <3>1, <3>2, <3>3
  <2> QED BY <1>3, <2>1, OrderAssumption DEF Boot, StopAll, QuitAll
<1>4. CASE BeginShutdown
  BY <1>4 DEF TypeOK, BeginShutdown, runtimeVars, monitorVars, procVars, clientVars
<1>5. CASE Terminated
  BY <1>5 DEF TypeOK, Terminated, vars, runtimeVars, monitorVars, procVars,
     clientVars, mainVars
<1> QED BY <1>1, <1>2, <1>3, <1>4, <1>5 DEF MainStep

\* Whatever the threads do, every variable of the supervisor stays in its type,
\* and the liveness streak stays below the probe's failureThreshold.
THEOREM TypeCorrect == Spec => []TypeOK
<1>1. Init => TypeOK
  <2> SUFFICES ASSUME Init PROVE TypeOK
    OBVIOUS
  <2>1. \A s \in Services : Cfg[s].enabled \in BOOLEAN
    BY CfgAssumption DEF CfgType
  <2>2. enabled \in [Services -> BOOLEAN]
    BY <2>1 DEF Init
  <2>3. stopAll \in BOOLEAN
    BY DEF Init
  <2>4. /\ state \in [Services -> ServiceState]
        /\ pc \in [Services -> MonitorPc]
        /\ why \in [Services -> Caller]
        /\ held \in [Services -> ServiceState]
        /\ last \in [Services -> CtlMsg \cup {"none"}]
    BY DEF Init
  <2>5. /\ pid \in [Services -> Pids \cup {NoPid}]
        /\ tracked \in [Services -> Pids \cup {NoPid}]
        /\ child \in [Services -> Pids \cup {NoPid}]
        /\ alive \in [Services -> SUBSET Pids]
        /\ exits \in [Pids -> Code \cup {"none"}]
        /\ killed = {} /\ over = {} /\ lost = {}
    BY DEF Init
  <2>6. /\ ctl \in [Services -> Seq(CtlMsg)]
        /\ streak \in [Services -> Nat]
        /\ \A s \in Services : ~(streak[s] > 0)
    BY DEF Init
  <2>7. /\ cop \in [Clients -> ClientOp]
        /\ csvc \in [Clients -> Services \cup {"none"}]
        /\ \A c \in Clients : cop[c] = "idle"
    BY DEF Init
  <2>8. /\ budget \in Nat
        /\ main \in {"boot", "run", "stopping", "quitting", "down"}
        /\ idx \in Nat \ {0}
    BY BoundAssumption DEF Init
  <2> QED BY <2>2, <2>3, <2>4, <2>5, <2>6, <2>7, <2>8 DEF TypeOK
<1>2. TypeOK /\ [Next]_vars => TypeOK'
  <2> SUFFICES ASSUME TypeOK, [Next]_vars PROVE TypeOK'
    OBVIOUS
  <2>1. CASE \E s \in Services : ServiceStep(s)
    BY <2>1, LoopStepType, StopStepType, StartStepType DEF ServiceStep, MonitorStep
  <2>2. CASE UNCHANGED vars
    BY <2>2 DEF TypeOK, vars, runtimeVars, monitorVars, procVars, clientVars, mainVars
  <2> QED BY <2>1, <2>2, OtherStepType DEF ServiceStep, Next
<1> QED BY <1>1, <1>2, PTL DEF Spec

----------------------------------------------------------------------------
(* Ownership of processes.  A step does one of six things to the processes   *)
(* of a service, and each is a lemma.                                        *)

\* Processes and their owners stay as they are.
LEMMA SameKnown ==
    ASSUME AllKnown, ExitsAccounted, Apart, UNCHANGED procVars,
           \A t \in Services : Mine(t)' = Mine(t)
    PROVE  AllKnown' /\ ExitsAccounted' /\ Apart'
BY DEF AllKnown, ExitsAccounted, Apart, procVars

\* A process that is waited for is sent SIGKILL.
LEMMA KillKnown ==
    ASSUME AllKnown, ExitsAccounted, Apart, NEW s \in Services,
           killed' = killed \cup ({child[s]} \cap alive[s]),
           UNCHANGED <<alive, exits, over, lost>>,
           \A t \in Services : Mine(t)' = Mine(t)
    PROVE  AllKnown' /\ ExitsAccounted' /\ Apart'
<1>1. AllKnown'
  BY DEF AllKnown
<1>2. ExitsAccounted'
  BY DEF ExitsAccounted
<1> QED BY <1>1, <1>2 DEF Apart

\* A process ends and its exit is published.
LEMMA ExitKnown ==
    ASSUME TypeOK, AllKnown, ExitsAccounted, Apart,
           NEW s \in Services, NEW p \in alive[s], NEW code \in Code,
           alive' = [alive EXCEPT ![s] = @ \ {p}],
           exits' = [exits EXCEPT ![p] = code],
           killed' = killed \ {p}, over' = over \ {p}, lost' = lost,
           \A t \in Services : Mine(t)' = Mine(t)
    PROVE  AllKnown' /\ ExitsAccounted' /\ Apart'
<1>1. p \in Pids /\ code # "none"
  BY DEF TypeOK, Code
<1>2. \A t \in Services : t # s => p \notin alive[t]
  BY DEF Apart
<1>3. \A t \in Services : alive'[t] = alive[t] \ {p}
  BY <1>2 DEF TypeOK
<1>4. \A q \in Pids : exits'[q] = IF q = p THEN code ELSE exits[q]
  BY <1>1 DEF TypeOK
<1>5. \A t \in Services : Mine(t) \subseteq Pids
  BY DEF TypeOK, Mine
<1>6. AllKnown'
  BY <1>3 DEF AllKnown
<1>7. \A t \in Services : \A q \in Mine(t) \ over' : q \in alive'[t] <=> exits'[q] = "none"
  BY <1>1, <1>3, <1>4, <1>5 DEF ExitsAccounted
<1>8. p \in lost \/ p \in Mine(s)
  BY DEF AllKnown
<1>9. ExitsAccounted'
  BY <1>1, <1>4, <1>7, <1>8 DEF ExitsAccounted
<1>10. \A t \in Services : \A q \in Mine(t) \cap over' : exits'[q] # "none"
  BY <1>4, <1>5 DEF Apart
<1>11. Apart'
  BY <1>3, <1>10 DEF Apart
<1> QED BY <1>6, <1>9, <1>11

\* The exit of a process is taken by its owner, and if that process still runs,
\* the exit was one left by another that had its pid.
LEMMA CollectKnown ==
    ASSUME TypeOK, AllKnown, ExitsAccounted, Apart,
           NEW s \in Services, NEW p \in Mine(s), Collect(p),
           Mine(s)' = Mine(s) \ {p},
           \A t \in Services : t # s => Mine(t)' = Mine(t)
    PROVE  AllKnown' /\ ExitsAccounted' /\ Apart'
<1>0. p \in Pids
  BY DEF TypeOK, Mine
<1>1. (p \in alive[s] => p \in over \cap lost) /\ UNCHANGED <<alive, killed, over, lost>>
  BY <1>0 DEF ExitsAccounted, Collect
<1>2. \A q \in Pids : exits'[q] = IF q = p THEN "none" ELSE exits[q]
  BY <1>0 DEF TypeOK, Collect
<1>3. \A t \in Services : Mine(t) \subseteq Pids
  BY DEF TypeOK, Mine
<1>8. \A t \in Services : Mine(t)' = Mine(t) \ {p}
  BY DEF ExitsAccounted
<1>4. AllKnown'
  BY <1>1 DEF AllKnown
<1>5. \A t \in Services : \A q \in Mine(t)' \ over : q \in alive[t] <=> exits'[q] = "none"
  BY <1>2, <1>3, <1>8 DEF ExitsAccounted
<1>6. \A q \in Pids : exits'[q] # "none" => q \in lost \/ \E t \in Services : q \in Mine(t)'
  BY <1>2, <1>8 DEF ExitsAccounted
<1>7. \A t, u \in Services : \A q \in Mine(t)' : q \in Mine(u)' => t = u
  BY <1>8 DEF ExitsAccounted
<1>9. ExitsAccounted'
  BY <1>1, <1>5, <1>6, <1>7 DEF ExitsAccounted
<1>10. \A t \in Services : \A q \in Mine(t)' \cap over : exits'[q] # "none"
  BY <1>2, <1>3, <1>8 DEF Apart
<1>11. Apart'
  BY <1>1, <1>8, <1>10 DEF Apart
<1> QED BY <1>4, <1>9, <1>11

\* The wait for a process that was killed brings its exit or runs out.
LEMMA CollectOrGiveUpKnown ==
    ASSUME TypeOK, AllKnown, ExitsAccounted, Apart,
           NEW s \in Services, NEW p \in Mine(s), CollectOrGiveUp(p),
           p \in alive[s] => p \in killed,
           Mine(s)' = Mine(s) \ {p},
           \A t \in Services : t # s => Mine(t)' = Mine(t)
    PROVE  AllKnown' /\ ExitsAccounted' /\ Apart'
<1>1. CASE Collect(p)
  BY <1>1, CollectKnown
<1>2. CASE /\ exits[p] = "none" /\ lost' = lost \cup {p}
           /\ UNCHANGED <<alive, exits, killed, over>>
  <2>1. \A t \in Services : Mine(t)' = Mine(t) \ {p}
    BY DEF ExitsAccounted
  <2>2. AllKnown'
    BY <1>2 DEF AllKnown
  <2>3. ExitsAccounted'
    BY <1>2, <2>1 DEF ExitsAccounted
  <2>4. Apart'
    BY <1>2, <2>1 DEF Apart
  <2> QED BY <2>2, <2>3, <2>4
<1> QED BY <1>1, <1>2 DEF CollectOrGiveUp

\* A process is spawned by a monitor that answers for none.
LEMMA SpawnKnown ==
    ASSUME TypeOK, AllKnown, ExitsAccounted, Apart,
           NEW s \in Services, NEW p \in Pids, Spawn(s, p),
           Mine(s) = {}, Mine(s)' = {p},
           \A t \in Services : t # s => Mine(t)' = Mine(t)
    PROVE  AllKnown' /\ ExitsAccounted' /\ Apart'
<1>1. \A t \in Services : p \notin alive[t] /\ p \notin Mine(t)
  BY DEF Spawn, FreePids
<1>2. UNCHANGED <<exits, killed, lost>> /\ p \notin over
  BY <1>1 DEF Spawn, Apart
<1>3. \A t \in Services : alive'[t] = IF t = s THEN alive[s] \cup {p} ELSE alive[t]
  BY DEF TypeOK, Spawn
<1>4. \A q : q \in over' <=> q \in over \/ (q = p /\ exits[p] # "none")
  BY DEF Spawn
<1>5. AllKnown'
  BY <1>2, <1>3, <1>4 DEF AllKnown
<1>6. \A t \in Services : \A q \in Mine(t)' \ over' : q \in alive'[t] <=> exits[q] = "none"
  BY <1>1, <1>3, <1>4 DEF ExitsAccounted
<1>7. \A t, u \in Services : \A q \in Mine(t)' : q \in Mine(u)' => t = u
  BY <1>1 DEF ExitsAccounted
<1>8. \A q \in Pids : exits[q] # "none" => q \in lost \/ \E t \in Services : q \in Mine(t)'
  BY DEF ExitsAccounted
<1>9. over' \subseteq lost
  BY <1>1, <1>4 DEF ExitsAccounted
<1>10. ExitsAccounted'
  BY <1>2, <1>6, <1>7, <1>8, <1>9 DEF ExitsAccounted
<1>11. \A q \in killed \cup over' : \E t \in Services : q \in alive'[t]
  BY <1>3, <1>4 DEF Apart
<1>12. \A t, u \in Services : t # u => alive'[t] \cap (alive'[u] \cup Mine(u)') = {}
  BY <1>1, <1>3 DEF Apart
<1>13. \A t \in Services : \A q \in Mine(t)' \cap over' : exits[q] # "none"
  BY <1>1, <1>2, <1>4 DEF Apart
<1>14. Apart'
  BY <1>2, <1>11, <1>12, <1>13 DEF Apart
<1> QED BY <1>5, <1>10, <1>14

\* stop_tracked takes the tracked process over: who owns what does not change.
LEMMA BeginStopMine ==
    ASSUME TypeOK, OwnerPc, NEW s \in Services, NEW w,
           pc[s] \in LoopPc, BeginStop(s, w)
    PROVE  \A t \in Services : Mine(t)' = Mine(t)
<1>1. child[s] = NoPid
  BY DEF OwnerPc, LoopPc, WaitPc
<1>2. /\ tracked'[s] = NoPid /\ child'[s] = tracked[s]
      /\ \A t \in Services : t # s => tracked'[t] = tracked[t] /\ child'[t] = child[t]
  BY DEF TypeOK, BeginStop
<1> QED BY <1>1, <1>2 DEF Mine

\* A monitor that was waiting for a process gives it up.
LEMMA DropMine ==
    ASSUME TypeOK, OwnerPc, NEW s \in Services, pc[s] \in WaitPc,
           child' = [child EXCEPT ![s] = NoPid], UNCHANGED tracked
    PROVE  /\ child[s] \in Mine(s)
           /\ Mine(s)' = Mine(s) \ {child[s]}
           /\ \A t \in Services : t # s => Mine(t)' = Mine(t)
<1>1. child[s] # NoPid /\ tracked[s] = NoPid
  BY DEF OwnerPc, LoopPc, WaitPc
<1>2. /\ child'[s] = NoPid
      /\ \A t \in Services : t # s => child'[t] = child[t]
  BY DEF TypeOK
<1> QED BY <1>1, <1>2 DEF Mine

\* A monitor without a process gets the one it spawned.
LEMMA GainMine ==
    ASSUME TypeOK, OwnerPc, NEW s \in Services, NEW p \in Pids, Spawn(s, p),
           pc[s] \in {"stopped", "dsMark"}, UNCHANGED tracked
    PROVE  /\ Mine(s) = {} /\ Mine(s)' = {p}
           /\ \A t \in Services : t # s => Mine(t)' = Mine(t)
<1>1. child[s] = NoPid /\ tracked[s] = NoPid
  BY DEF OwnerPc, LoopPc, WaitPc
<1>2. /\ child'[s] = p
      /\ \A t \in Services : t # s => child'[t] = child[t]
  BY DEF TypeOK, Spawn
<1> QED BY <1>1, <1>2, PidAssumption DEF Mine

\* monitor_loop gives up the process whose exit it took.
LEMMA PollMine ==
    ASSUME TypeOK, OwnerPc, NEW s \in Services, PollExit(s)
    PROVE  /\ tracked[s] \in Mine(s)
           /\ Mine(s)' = Mine(s) \ {tracked[s]}
           /\ \A t \in Services : t # s => Mine(t)' = Mine(t)
<1>1. tracked[s] # NoPid /\ child[s] = NoPid /\ child' = child
  BY DEF OwnerPc, LoopPc, WaitPc, PollExit
<1>2. /\ tracked'[s] = NoPid
      /\ \A t \in Services : t # s => tracked'[t] = tracked[t]
  BY DEF TypeOK, PollExit
<1> QED BY <1>1, <1>2 DEF Mine

\* The daemon that stayed up passes from do_start to monitor_loop.
LEMMA StayedMine ==
    ASSUME TypeOK, OwnerPc, NEW s \in Services, DsStayedUp(s)
    PROVE  \A t \in Services : Mine(t)' = Mine(t)
<1>1. tracked[s] = NoPid
  BY DEF OwnerPc, LoopPc, WaitPc, DsStayedUp
<1>2. /\ child'[s] = NoPid /\ tracked'[s] = child[s]
      /\ \A t \in Services : t # s => tracked'[t] = tracked[t] /\ child'[t] = child[t]
  BY DEF TypeOK, DsStayedUp
<1> QED BY <1>1, <1>2 DEF Mine

\* Having given it up, the monitor leaves the wait.
LEMMA DropOwner ==
    ASSUME TypeOK, OwnerPc, NEW s \in Services, pc[s] \in WaitPc,
           child' = [child EXCEPT ![s] = NoPid], UNCHANGED tracked,
           NEW l \in {"top", "live", "dsErr", "dsEnabled"}, pc' = [pc EXCEPT ![s] = l]
    PROVE  OwnerPc'
<1>1. tracked[s] = NoPid
  BY DEF OwnerPc, LoopPc, WaitPc
<1> QED BY <1>1 DEF TypeOK, OwnerPc, LoopPc, WaitPc

\* Ownership is kept by every step of monitor_loop,
LEMMA LoopStepOwns ==
    ASSUME TypeOK, Ownership, NEW s \in Services, LoopStep(s)
    PROVE  Ownership'
<1> USE DEF Ownership, LoopPc, WaitPc
<1>1. CASE TopRecv(s)
  <2>1. \A t \in Services : Mine(t)' = Mine(t)
    BY <1>1 DEF Mine, TopRecv
  <2>2. OwnerPc'
    BY <1>1 DEF TypeOK, OwnerPc, TopRecv, Goto
  <2>9. KilledFirst'
    BY <1>1 DEF TypeOK, KilledFirst, procVars, TopRecv, Goto
  <2> QED BY <1>1, <2>1, <2>2, <2>9, SameKnown DEF TopRecv
<1>2. CASE TopExit(s)
  <2>1. \A t \in Services : Mine(t)' = Mine(t)
    BY <1>2, BeginStopMine DEF TopExit
  <2>2. OwnerPc'
    BY <1>2 DEF TypeOK, OwnerPc, TopExit, BeginStop, Goto
  <2>9. KilledFirst'
    BY <1>2 DEF TypeOK, KilledFirst, procVars, TopExit, BeginStop, Goto
  <2> QED BY <1>2, <2>1, <2>2, <2>9, SameKnown DEF TopExit
<1>3. CASE RecvStop(s)
  <2>1. \A t \in Services : Mine(t)' = Mine(t)
    BY <1>3, BeginStopMine DEF RecvStop, Recv
  <2>2. OwnerPc'
    BY <1>3 DEF TypeOK, OwnerPc, RecvStop, BeginStop, Recv, Goto
  <2>9. KilledFirst'
    BY <1>3 DEF TypeOK, KilledFirst, procVars, RecvStop, BeginStop, Recv, Goto
  <2> QED BY <1>3, <2>1, <2>2, <2>9, SameKnown DEF RecvStop
<1>4. CASE RecvRestart(s)
  <2>1. \A t \in Services : Mine(t)' = Mine(t)
    BY <1>4, BeginStopMine DEF RecvRestart, Recv
  <2>2. OwnerPc'
    BY <1>4 DEF TypeOK, OwnerPc, RecvRestart, BeginStop, Recv, Goto
  <2>9. KilledFirst'
    BY <1>4 DEF TypeOK, KilledFirst, procVars, RecvRestart, BeginStop, Recv, Goto
  <2> QED BY <1>4, <2>1, <2>2, <2>9, SameKnown DEF RecvRestart
<1>5. CASE RecvStartIgnored(s)
  <2>1. \A t \in Services : Mine(t)' = Mine(t)
    BY <1>5 DEF Mine, RecvStartIgnored
  <2>2. OwnerPc'
    BY <1>5 DEF TypeOK, OwnerPc, RecvStartIgnored, Goto, Recv
  <2>9. KilledFirst'
    BY <1>5 DEF TypeOK, KilledFirst, procVars, RecvStartIgnored, Goto, Recv
  <2> QED BY <1>5, <2>1, <2>2, <2>9, SameKnown DEF RecvStartIgnored
<1>6. CASE RecvStart(s)
  <2>1. \A t \in Services : Mine(t)' = Mine(t)
    BY <1>6 DEF Mine, RecvStart, BeginStart
  <2>2. OwnerPc'
    BY <1>6 DEF TypeOK, OwnerPc, RecvStart, BeginStart, Recv, Goto
  <2>9. KilledFirst'
    BY <1>6 DEF TypeOK, KilledFirst, procVars, RecvStart, BeginStart, Recv, Goto
  <2> QED BY <1>6, <2>1, <2>2, <2>9, SameKnown DEF RecvStart
<1>7. CASE RecvTimeout(s)
  <2>1. \A t \in Services : Mine(t)' = Mine(t)
    BY <1>7 DEF Mine, RecvTimeout
  <2>2. OwnerPc'
    BY <1>7 DEF TypeOK, OwnerPc, RecvTimeout, Goto
  <2>9. KilledFirst'
    BY <1>7 DEF TypeOK, KilledFirst, procVars, RecvTimeout, Goto
  <2> QED BY <1>7, <2>1, <2>2, <2>9, SameKnown DEF RecvTimeout
<1>8. CASE PollExit(s)
  <2>1. OwnerPc'
    BY <1>8 DEF TypeOK, OwnerPc, PollExit, Collect, Goto
  <2>9. KilledFirst'
    BY <1>8 DEF TypeOK, KilledFirst, procVars, PollExit, Collect, Goto
  <2> QED BY <1>8, <2>1, <2>9, PollMine, CollectKnown DEF PollExit
<1>9. CASE PollRetry(s)
  <2>1. \A t \in Services : Mine(t)' = Mine(t)
    BY <1>9 DEF Mine, PollRetry, BeginStart
  <2>2. OwnerPc'
    BY <1>9 DEF TypeOK, OwnerPc, PollRetry, BeginStart, WantsRetry, Goto
  <2>9. KilledFirst'
    BY <1>9 DEF TypeOK, KilledFirst, procVars, PollRetry, BeginStart, WantsRetry, Goto
  <2> QED BY <1>9, <2>1, <2>2, <2>9, SameKnown DEF PollRetry
<1>10. CASE PollIdle(s)
  <2>1. \A t \in Services : Mine(t)' = Mine(t)
    BY <1>10 DEF Mine, PollIdle
  <2>2. OwnerPc'
    BY <1>10 DEF TypeOK, OwnerPc, PollIdle, Goto
  <2>9. KilledFirst'
    BY <1>10 DEF TypeOK, KilledFirst, procVars, PollIdle, Goto
  <2> QED BY <1>10, <2>1, <2>2, <2>9, SameKnown DEF PollIdle
<1>11. CASE Exited(s)
  <2>1. \A t \in Services : Mine(t)' = Mine(t)
    BY <1>11 DEF Mine, Exited
  <2>2. OwnerPc'
    BY <1>11 DEF TypeOK, OwnerPc, Exited, Goto
  <2>9. KilledFirst'
    BY <1>11 DEF TypeOK, KilledFirst, procVars, Exited, Goto
  <2> QED BY <1>11, <2>1, <2>2, <2>9, SameKnown DEF Exited
<1>12. CASE MarkExit(s)
  <2>1. \A t \in Services : Mine(t)' = Mine(t)
    BY <1>12 DEF Mine, MarkExit
  <2>2. OwnerPc'
    BY <1>12 DEF TypeOK, OwnerPc, MarkExit, Goto, Return, ReturnPc
  <2>9. KilledFirst'
    BY <1>12 DEF TypeOK, KilledFirst, procVars, MarkExit, Goto, Return, ReturnPc
  <2> QED BY <1>12, <2>1, <2>2, <2>9, SameKnown DEF MarkExit
<1>13. CASE BackoffDone(s)
  <2>1. \A t \in Services : Mine(t)' = Mine(t)
    BY <1>13 DEF Mine, BackoffDone
  <2>2. OwnerPc'
    BY <1>13 DEF TypeOK, OwnerPc, BackoffDone, Goto
  <2>9. KilledFirst'
    BY <1>13 DEF TypeOK, KilledFirst, procVars, BackoffDone, Goto
  <2> QED BY <1>13, <2>1, <2>2, <2>9, SameKnown DEF BackoffDone
<1>14. CASE LiveState(s)
  <2>1. \A t \in Services : Mine(t)' = Mine(t)
    BY <1>14 DEF Mine, LiveState
  <2>2. OwnerPc'
    BY <1>14 DEF TypeOK, OwnerPc, LiveState, Goto
  <2>9. KilledFirst'
    BY <1>14 DEF TypeOK, KilledFirst, procVars, LiveState, Goto
  <2> QED BY <1>14, <2>1, <2>2, <2>9, SameKnown DEF LiveState
<1>15. CASE LiveSkip(s)
  <2>1. \A t \in Services : Mine(t)' = Mine(t)
    BY <1>15 DEF Mine, LiveSkip
  <2>2. OwnerPc'
    BY <1>15 DEF TypeOK, OwnerPc, LiveSkip, Goto
  <2>9. KilledFirst'
    BY <1>15 DEF TypeOK, KilledFirst, procVars, LiveSkip, Goto
  <2> QED BY <1>15, <2>1, <2>2, <2>9, SameKnown DEF LiveSkip
<1>16. CASE LiveNotDue(s)
  <2>1. \A t \in Services : Mine(t)' = Mine(t)
    BY <1>16 DEF Mine, LiveNotDue
  <2>2. OwnerPc'
    BY <1>16 DEF TypeOK, OwnerPc, LiveNotDue, Return, Goto, ReturnPc
  <2>9. KilledFirst'
    BY <1>16 DEF TypeOK, KilledFirst, procVars, LiveNotDue, Return, Goto, ReturnPc
  <2> QED BY <1>16, <2>1, <2>2, <2>9, SameKnown DEF LiveNotDue
<1>17. CASE LiveDue(s)
  <2>1. \A t \in Services : Mine(t)' = Mine(t)
    BY <1>17 DEF Mine, LiveDue
  <2>2. OwnerPc'
    BY <1>17 DEF TypeOK, OwnerPc, LiveDue, Goto
  <2>9. KilledFirst'
    BY <1>17 DEF TypeOK, KilledFirst, procVars, LiveDue, Goto
  <2> QED BY <1>17, <2>1, <2>2, <2>9, SameKnown DEF LiveDue
<1>18. CASE ProbeOk(s)
  <2>1. \A t \in Services : Mine(t)' = Mine(t)
    BY <1>18 DEF Mine, ProbeOk
  <2>2. OwnerPc'
    BY <1>18 DEF TypeOK, OwnerPc, ProbeOk, Return, Goto, ReturnPc
  <2>9. KilledFirst'
    BY <1>18 DEF TypeOK, KilledFirst, procVars, ProbeOk, Return, Goto, ReturnPc
  <2> QED BY <1>18, <2>1, <2>2, <2>9, SameKnown DEF ProbeOk
<1>19. CASE ProbeFail(s)
  <2>1. \A t \in Services : Mine(t)' = Mine(t)
    BY <1>19 DEF Mine, ProbeFail
  <2>2. OwnerPc'
    BY <1>19 DEF TypeOK, OwnerPc, ProbeFail, Return, Goto, ReturnPc
  <2>9. KilledFirst'
    BY <1>19 DEF TypeOK, KilledFirst, procVars, ProbeFail, Return, Goto, ReturnPc
  <2> QED BY <1>19, <2>1, <2>2, <2>9, SameKnown DEF ProbeFail
<1>20. CASE ProbeRestart(s)
  <2>1. \A t \in Services : Mine(t)' = Mine(t)
    BY <1>20, BeginStopMine DEF ProbeRestart
  <2>2. OwnerPc'
    BY <1>20 DEF TypeOK, OwnerPc, ProbeRestart, BeginStop, Goto
  <2>9. KilledFirst'
    BY <1>20 DEF TypeOK, KilledFirst, procVars, ProbeRestart, BeginStop, Goto
  <2> QED BY <1>20, <2>1, <2>2, <2>9, SameKnown DEF ProbeRestart
<1> QED BY <1>1, <1>2, <1>3, <1>4, <1>5, <1>6, <1>7, <1>8, <1>9, <1>10, <1>11,
   <1>12, <1>13, <1>14, <1>15, <1>16, <1>17, <1>18, <1>19, <1>20 DEF LoopStep

\* of stop_tracked and its callers,
LEMMA StopStepOwns ==
    ASSUME TypeOK, Ownership, NEW s \in Services, StopStep(s) \/ StopScriptDone(s)
    PROVE  Ownership'
<1> USE DEF Ownership, LoopPc, WaitPc
<1>1. CASE StopScriptDone(s)
  <2>1. \A t \in Services : Mine(t)' = Mine(t)
    BY <1>1 DEF Mine, StopScriptDone
  <2>2. OwnerPc'
    BY <1>1 DEF TypeOK, OwnerPc, StopScriptDone, Goto
  <2>9. KilledFirst'
    BY <1>1 DEF TypeOK, KilledFirst, procVars, StopScriptDone, Goto
  <2> QED BY <1>1, <2>1, <2>2, <2>9, SameKnown DEF StopScriptDone
<1>2. CASE Kill(s)
  <2>1. \A t \in Services : Mine(t)' = Mine(t)
    BY <1>2 DEF Mine, Kill
  <2>2. OwnerPc'
    BY <1>2 DEF TypeOK, OwnerPc, Kill, Goto
  <2>9. KilledFirst'
    BY <1>2 DEF TypeOK, KilledFirst, Kill, Goto
  <2> QED BY <1>2, <2>1, <2>2, <2>9, KillKnown DEF Kill
<1>3. CASE TermReaped(s)
  <2>1. OwnerPc'
    BY <1>3 DEF TypeOK, OwnerPc, TermReaped, CollectOrGiveUp, Collect, Goto
  <2>9. KilledFirst'
    BY <1>3 DEF TypeOK, KilledFirst, TermReaped, CollectOrGiveUp, Collect, Goto
  <2>2. child[s] \in alive[s] => child[s] \in killed
    BY <1>3 DEF TermReaped, KilledFirst
  <2> QED BY <1>3, <2>1, <2>9, <2>2, DropMine, CollectOrGiveUpKnown DEF TermReaped
<1>4. CASE AfterStop(s)
  <2>1. \A t \in Services : Mine(t)' = Mine(t)
    BY <1>4 DEF Mine, AfterStop
  <2>2. OwnerPc'
    BY <1>4 DEF TypeOK, OwnerPc, AfterStop, Goto
  <2>9. KilledFirst'
    BY <1>4 DEF TypeOK, KilledFirst, procVars, AfterStop, Goto
  <2> QED BY <1>4, <2>1, <2>2, <2>9, SameKnown DEF AfterStop
<1>5. CASE MarkStop(s)
  <2>1. \A t \in Services : Mine(t)' = Mine(t)
    BY <1>5 DEF Mine, MarkStop
  <2>2. OwnerPc'
    BY <1>5 DEF TypeOK, OwnerPc, MarkStop, Return, Goto, ReturnPc
  <2>9. KilledFirst'
    BY <1>5 DEF TypeOK, KilledFirst, procVars, MarkStop, Return, Goto, ReturnPc
  <2> QED BY <1>5, <2>1, <2>2, <2>9, SameKnown DEF MarkStop
<1>6. CASE AfterStopExit(s)
  <2>1. \A t \in Services : Mine(t)' = Mine(t)
    BY <1>6 DEF Mine, AfterStopExit
  <2>2. OwnerPc'
    BY <1>6 DEF TypeOK, OwnerPc, AfterStopExit, Goto
  <2>9. KilledFirst'
    BY <1>6 DEF TypeOK, KilledFirst, procVars, AfterStopExit, Goto
  <2> QED BY <1>6, <2>1, <2>2, <2>9, SameKnown DEF AfterStopExit
<1>7. CASE AfterStopStart(s)
  <2>1. \A t \in Services : Mine(t)' = Mine(t)
    BY <1>7 DEF Mine, AfterStopStart
  <2>2. OwnerPc'
    BY <1>7 DEF TypeOK, OwnerPc, AfterStopStart, Goto
  <2>9. KilledFirst'
    BY <1>7 DEF TypeOK, KilledFirst, procVars, AfterStopStart, Goto
  <2> QED BY <1>7, <2>1, <2>2, <2>9, SameKnown DEF AfterStopStart
<1>8. CASE AfterStopScript(s)
  <2>1. PICK p \in Pids : Spawn(s, p)
    BY <1>8 DEF AfterStopScript
  <2>2. OwnerPc'
    BY <1>8, <2>1, PidAssumption DEF TypeOK, OwnerPc, Spawn, AfterStopScript,
       Goto
  <2>9. KilledFirst'
    BY <1>8, <2>1 DEF TypeOK, KilledFirst, procVars, Spawn, AfterStopScript,
       Goto
  <2> QED BY <1>8, <2>1, <2>2, <2>9, GainMine, SpawnKnown DEF AfterStopScript
<1>9. CASE RestartScriptDone(s)
  <2>1. OwnerPc'
    <3>1. PICK l \in {"top", "live", "dsErr", "dsEnabled"} : pc' = [pc EXCEPT ![s] = l]
      BY <1>9 DEF RestartScriptDone, Goto, Return, ReturnPc
    <3> QED BY <1>9, <3>1, DropOwner DEF RestartScriptDone
  <2>9. KilledFirst'
    BY <1>9 DEF TypeOK, KilledFirst, procVars, RestartScriptDone, Collect, Goto, Return, ReturnPc
  <2> QED BY <1>9, <2>1, <2>9, DropMine, CollectKnown DEF RestartScriptDone
<1> QED BY <1>1, <1>2, <1>3, <1>4, <1>5, <1>6, <1>7, <1>8, <1>9 DEF StopStep

\* and of do_start.
LEMMA StartStepOwns ==
    ASSUME TypeOK, Ownership, NEW s \in Services, StartStep(s)
    PROVE  Ownership'
<1> USE DEF Ownership, LoopPc, WaitPc
<1>1. CASE DsEnabled(s)
  <2>1. \A t \in Services : Mine(t)' = Mine(t)
    BY <1>1 DEF Mine, DsEnabled
  <2>2. OwnerPc'
    BY <1>1 DEF TypeOK, OwnerPc, DsEnabled, Goto
  <2>9. KilledFirst'
    BY <1>1 DEF TypeOK, KilledFirst, procVars, DsEnabled, Goto
  <2> QED BY <1>1, <2>1, <2>2, <2>9, SameKnown DEF DsEnabled
<1>2. CASE DsDeps(s)
  <2>1. \A t \in Services : Mine(t)' = Mine(t)
    BY <1>2 DEF Mine, DsDeps
  <2>2. OwnerPc'
    BY <1>2 DEF TypeOK, OwnerPc, DsDeps, Goto
  <2>9. KilledFirst'
    BY <1>2 DEF TypeOK, KilledFirst, procVars, DsDeps, Goto
  <2> QED BY <1>2, <2>1, <2>2, <2>9, SameKnown DEF DsDeps
<1>3. CASE DsMarkDisabled(s)
  <2>1. \A t \in Services : Mine(t)' = Mine(t)
    BY <1>3 DEF Mine, DsMarkDisabled
  <2>2. OwnerPc'
    BY <1>3 DEF TypeOK, OwnerPc, DsMarkDisabled, Goto
  <2>9. KilledFirst'
    BY <1>3 DEF TypeOK, KilledFirst, procVars, DsMarkDisabled, Goto
  <2> QED BY <1>3, <2>1, <2>2, <2>9, SameKnown DEF DsMarkDisabled
<1>4. CASE DsMarkWaiting(s)
  <2>1. \A t \in Services : Mine(t)' = Mine(t)
    BY <1>4 DEF Mine, DsMarkWaiting
  <2>2. OwnerPc'
    BY <1>4 DEF TypeOK, OwnerPc, DsMarkWaiting, Return, Goto, ReturnPc
  <2>9. KilledFirst'
    BY <1>4 DEF TypeOK, KilledFirst, procVars, DsMarkWaiting, Return, Goto, ReturnPc
  <2> QED BY <1>4, <2>1, <2>2, <2>9, SameKnown DEF DsMarkWaiting
<1>5. CASE DsSpawn(s)
  <2>1. PICK p \in Pids : Spawn(s, p)
    BY <1>5 DEF DsSpawn
  <2>2. OwnerPc'
    BY <1>5, <2>1, PidAssumption DEF TypeOK, OwnerPc, Spawn, DsSpawn, Goto
  <2>9. KilledFirst'
    BY <1>5, <2>1 DEF TypeOK, KilledFirst, procVars, Spawn, DsSpawn, Goto
  <2> QED BY <1>5, <2>1, <2>2, <2>9, GainMine, SpawnKnown DEF DsSpawn
<1>6. CASE DsSpawnFails(s)
  <2>1. \A t \in Services : Mine(t)' = Mine(t)
    BY <1>6 DEF Mine, DsSpawnFails
  <2>2. OwnerPc'
    BY <1>6 DEF TypeOK, OwnerPc, DsSpawnFails, Goto
  <2>9. KilledFirst'
    BY <1>6 DEF TypeOK, KilledFirst, procVars, DsSpawnFails, Goto
  <2> QED BY <1>6, <2>1, <2>2, <2>9, SameKnown DEF DsSpawnFails
<1>7. CASE DsErr(s)
  <2>1. \A t \in Services : Mine(t)' = Mine(t)
    BY <1>7 DEF Mine, DsErr
  <2>2. OwnerPc'
    BY <1>7 DEF TypeOK, OwnerPc, DsErr, Return, Goto, ReturnPc
  <2>9. KilledFirst'
    BY <1>7 DEF TypeOK, KilledFirst, procVars, DsErr, Return, Goto, ReturnPc
  <2> QED BY <1>7, <2>1, <2>2, <2>9, SameKnown DEF DsErr
<1>8. CASE DsEarlyExit(s)
  <2>1. OwnerPc'
    <3>1. PICK l \in {"top", "live", "dsErr", "dsEnabled"} : pc' = [pc EXCEPT ![s] = l]
      BY <1>8 DEF DsEarlyExit, Goto, Return, ReturnPc
    <3> QED BY <1>8, <3>1, DropOwner DEF DsEarlyExit
  <2>9. KilledFirst'
    BY <1>8 DEF TypeOK, KilledFirst, procVars, DsEarlyExit, Collect, Goto, Return, ReturnPc
  <2> QED BY <1>8, <2>1, <2>9, DropMine, CollectKnown DEF DsEarlyExit
<1>9. CASE DsStayedUp(s)
  <2>1. \A t \in Services : Mine(t)' = Mine(t)
    BY <1>9, StayedMine
  <2>2. OwnerPc'
    BY <1>9 DEF TypeOK, OwnerPc, DsStayedUp, Return, Goto, ReturnPc
  <2>9. KilledFirst'
    BY <1>9 DEF TypeOK, KilledFirst, procVars, DsStayedUp, Return, Goto, ReturnPc
  <2> QED BY <1>9, <2>1, <2>2, <2>9, SameKnown DEF DsStayedUp
<1>10. CASE DsJobExit(s)
  <2>1. OwnerPc'
    <3>1. PICK l \in {"top", "live", "dsErr", "dsEnabled"} : pc' = [pc EXCEPT ![s] = l]
      BY <1>10 DEF DsJobExit, Goto, Return, ReturnPc
    <3> QED BY <1>10, <3>1, DropOwner DEF DsJobExit
  <2>9. KilledFirst'
    BY <1>10 DEF TypeOK, KilledFirst, procVars, DsJobExit, Collect, Goto, Return, ReturnPc
  <2> QED BY <1>10, <2>1, <2>9, DropMine, CollectKnown DEF DsJobExit
<1>11. CASE DsJobTimeout(s)
  <2>1. \A t \in Services : Mine(t)' = Mine(t)
    BY <1>11 DEF Mine, DsJobTimeout
  <2>2. OwnerPc'
    BY <1>11 DEF TypeOK, OwnerPc, DsJobTimeout, Goto
  <2>9. KilledFirst'
    BY <1>11 DEF TypeOK, KilledFirst, procVars, DsJobTimeout, Goto
  <2> QED BY <1>11, <2>1, <2>2, <2>9, SameKnown DEF DsJobTimeout
<1>12. CASE DsJobKilled(s)
  <2>1. OwnerPc'
    BY <1>12 DEF TypeOK, OwnerPc, DsJobKilled, CollectOrGiveUp, Collect, Goto
  <2>9. KilledFirst'
    BY <1>12 DEF TypeOK, KilledFirst, DsJobKilled, CollectOrGiveUp, Collect, Goto
  <2>2. child[s] \in alive[s] => child[s] \in killed
    BY <1>12 DEF DsJobKilled, KilledFirst
  <2> QED BY <1>12, <2>1, <2>9, <2>2, DropMine, CollectOrGiveUpKnown DEF DsJobKilled
<1> QED BY <1>1, <1>2, <1>3, <1>4, <1>5, <1>6, <1>7, <1>8, <1>9, <1>10, <1>11,
   <1>12 DEF StartStep

\* Children, IPC threads and the main thread hand no process over.
LEMMA OtherStepOwns ==
    ASSUME TypeOK, Ownership,
           \/ \E s \in Services, p \in Pids, code \in Code : ProcExit(s, p, code)
           \/ \E c \in Clients : ClientStep(c)
           \/ MainStep
           \/ UNCHANGED vars
    PROVE  Ownership'
<1> USE DEF Ownership
<1>1. ASSUME NEW s \in Services, NEW p \in Pids, NEW code \in Code, ProcExit(s, p, code)
      PROVE  Ownership'
  <2>1. OwnerPc' /\ \A t \in Services : Mine(t)' = Mine(t)
    BY <1>1 DEF ProcExit, OwnerPc, Mine, monitorVars
  <2>2. \A t \in Services : alive'[t] \subseteq alive[t] /\ p \notin alive'[t]
    BY <1>1 DEF TypeOK, ProcExit, Apart
  <2>3. KilledFirst'
    BY <1>1, <2>2 DEF ProcExit, KilledFirst, monitorVars
  <2> QED BY <1>1, <2>1, <2>3, ExitKnown DEF ProcExit
<1>2. CASE \/ \E c \in Clients : ClientStep(c)
           \/ MainStep
           \/ UNCHANGED vars
  <2>1. UNCHANGED <<monitorVars, procVars>>
    BY <1>2 DEF ClientStep, ReqStart, ReqStop, ReqDisable, ReqEnable,
       ClientSetState, ClientSend, MainStep, Boot, StopAll, QuitAll, SendAll,
       BeginShutdown, vars
  <2>2. OwnerPc' /\ KilledFirst' /\ \A t \in Services : Mine(t)' = Mine(t)
    BY <2>1 DEF OwnerPc, KilledFirst, Mine, monitorVars, procVars
  <2> QED BY <2>1, <2>2, SameKnown
<1> QED BY <1>1, <1>2

\* The inductive invariant, for every run of the supervisor.
THEOREM OwnershipHolds == Spec => []Ownership
<1>1. Init => Ownership
  BY DEF Init, Ownership, OwnerPc, AllKnown, ExitsAccounted, Apart, KilledFirst, Mine,
     LoopPc, WaitPc
<1>2. TypeOK /\ Ownership /\ [Next]_vars => Ownership'
  <2> SUFFICES ASSUME TypeOK, Ownership, [Next]_vars PROVE Ownership'
    OBVIOUS
  <2>1. CASE \E s \in Services : ServiceStep(s)
    BY <2>1, LoopStepOwns, StopStepOwns, StartStepOwns DEF ServiceStep, MonitorStep
  <2> QED BY <2>1, OtherStepOwns DEF ServiceStep, Next, Terminated
<1> QED BY <1>1, <1>2, TypeCorrect, PTL DEF Spec

\* However requests, probes, scripts and crashes interleave, a monitor answers
\* for at most one process and for none when its thread ends; a process it does
\* not know of was sent SIGKILL and outlived the wait, or was taken for dead by
\* the exit of one that had.
THEOREM OneProcessHolds == Spec => []OneProcess
<1>1. Ownership => OneProcess
  <2> SUFFICES ASSUME Ownership, NEW s \in Services
               PROVE  /\ alive[s] \ Mine(s) \subseteq lost \cap (killed \cup over)
                      /\ Cardinality(Mine(s)) <= 1
                      /\ pc[s] \in LoopPc => Mine(s) \subseteq {tracked[s]}
                      /\ pc[s] = "done" => Mine(s) = {}
    BY DEF OneProcess
  <2>1. alive[s] \ Mine(s) \subseteq lost \cap (killed \cup over)
    BY DEF Ownership, AllKnown
  <2>2. tracked[s] = NoPid \/ child[s] = NoPid
    BY DEF Ownership, OwnerPc, LoopPc, WaitPc
  <2>3. Mine(s) = {} \/ \E p : Mine(s) = {p}
    BY <2>2 DEF Mine
  <2>4. Cardinality(Mine(s)) <= 1
    <3>1. CASE Mine(s) = {}
      <4>1. Cardinality(Mine(s)) = 0
        BY <3>1, FS_EmptySet
      <4> QED BY <4>1
    <3>2. ASSUME NEW p, Mine(s) = {p} PROVE Cardinality(Mine(s)) <= 1
      <4>1. Cardinality(Mine(s)) = 1
        BY <3>2, FS_Singleton
      <4> QED BY <4>1
    <3> QED BY <2>3, <3>1, <3>2
  <2>5. pc[s] \in LoopPc => Mine(s) \subseteq {tracked[s]}
    BY DEF Ownership, OwnerPc, LoopPc, WaitPc, Mine
  <2>6. pc[s] = "done" => Mine(s) = {}
    BY DEF Ownership, OwnerPc, LoopPc, WaitPc, Mine
  <2> QED BY <2>1, <2>4, <2>5, <2>6
<1> QED BY <1>1, OwnershipHolds, PTL

\* No exit is lost or taken twice: whoever waits for a pid will find its exit.
\* One that nobody claims, and that a later process of that pid may meet, is
\* left only by a wait that ran out after SIGKILL.
THEOREM ExitsAccountedHolds == Spec => []ExitsAccounted
<1>1. Ownership => ExitsAccounted
  BY DEF Ownership
<1> QED BY <1>1, OwnershipHolds, PTL

----------------------------------------------------------------------------
(* A step of one monitor, seen from the others.                             *)

\* What the invariants below say of a service is about these values.
Row(t) == <<state[t], pid[t], pc[t], why[t], tracked[t], child[t], held[t], last[t],
            ctl[t], alive[t]>>

\* The rows of the other services stay as they are.
OnlyRow(s) == \A t \in Services : t # s => Row(t)' = Row(t)

\* A step of monitor_loop touches the row of its own service only,
LEMMA LoopRows ==
    ASSUME NEW s \in Services, TypeOK, LoopStep(s)
    PROVE  OnlyRow(s) /\ UNCHANGED <<enabled, clientVars, mainVars>>
<1> USE DEF TypeOK, OnlyRow, Row, runtimeVars, procVars, clientVars, mainVars
<1>1. CASE TopRecv(s)
  BY <1>1 DEF TopRecv, Goto
<1>2. CASE TopExit(s)
  BY <1>2 DEF TopExit, BeginStop, Goto
<1>3. CASE RecvStop(s)
  BY <1>3 DEF RecvStop, Recv, ApplyState, NextPid, BeginStop, Goto
<1>4. CASE RecvRestart(s)
  BY <1>4 DEF RecvRestart, Recv, BeginStop, Goto
<1>5. CASE RecvStartIgnored(s)
  BY <1>5 DEF RecvStartIgnored, Recv, Goto
<1>6. CASE RecvStart(s)
  BY <1>6 DEF RecvStart, Recv, BeginStart, Goto
<1>7. CASE RecvTimeout(s)
  BY <1>7 DEF RecvTimeout, Goto
<1>8. CASE PollExit(s)
  BY <1>8 DEF PollExit, Collect, ApplyState, NextPid, Goto
<1>9. CASE PollRetry(s)
  BY <1>9 DEF PollRetry, WantsRetry, BeginStart, Goto
<1>10. CASE PollIdle(s)
  BY <1>10 DEF PollIdle, Goto
<1>11. CASE Exited(s)
  BY <1>11 DEF Exited, Goto
<1>12. CASE MarkExit(s)
  BY <1>12 DEF MarkExit, ApplyState, NextPid, Goto, Return, ReturnPc
<1>13. CASE BackoffDone(s)
  BY <1>13 DEF BackoffDone, Goto
<1>14. CASE LiveState(s)
  BY <1>14 DEF LiveState, Probed, Goto
<1>15. CASE LiveSkip(s)
  BY <1>15 DEF LiveSkip, Goto
<1>16. CASE LiveNotDue(s)
  BY <1>16 DEF LiveNotDue, Return, ReturnPc, Goto
<1>17. CASE LiveDue(s)
  BY <1>17 DEF LiveDue, Goto
<1>18. CASE ProbeOk(s)
  BY <1>18 DEF ProbeOk, ApplyState, NextPid, Return, ReturnPc, Goto
<1>19. CASE ProbeFail(s)
  BY <1>19 DEF ProbeFail, Return, ReturnPc, Goto
<1>20. CASE ProbeRestart(s)
  BY <1>20 DEF ProbeRestart, ApplyState, NextPid, BeginStop, Goto
<1> QED BY <1>1, <1>2, <1>3, <1>4, <1>5, <1>6, <1>7, <1>8, <1>9, <1>10, <1>11,
   <1>12, <1>13, <1>14, <1>15, <1>16, <1>17, <1>18, <1>19, <1>20 DEF LoopStep

\* so does one of stop_tracked,
LEMMA StopRows ==
    ASSUME NEW s \in Services, TypeOK, StopStep(s) \/ StopScriptDone(s)
    PROVE  OnlyRow(s) /\ UNCHANGED <<enabled, clientVars, mainVars>>
<1> USE DEF TypeOK, OnlyRow, Row, runtimeVars, procVars, clientVars, mainVars
<1>1. CASE StopScriptDone(s)
  BY <1>1 DEF StopScriptDone, Goto
<1>2. CASE Kill(s)
  BY <1>2 DEF Kill, Goto
<1>3. CASE TermReaped(s)
  BY <1>3 DEF TermReaped, CollectOrGiveUp, Collect, Goto
<1>4. CASE AfterStop(s)
  BY <1>4 DEF AfterStop, Goto
<1>5. CASE MarkStop(s)
  BY <1>5 DEF MarkStop, ApplyState, NextPid, Return, ReturnPc, Goto
<1>6. CASE AfterStopExit(s)
  BY <1>6 DEF AfterStopExit, ApplyState, NextPid, Goto
<1>7. CASE AfterStopStart(s)
  BY <1>7 DEF AfterStopStart, Goto
<1>8. CASE AfterStopScript(s)
  BY <1>8 DEF AfterStopScript, Spawn, Goto
<1>9. CASE RestartScriptDone(s)
  BY <1>9 DEF RestartScriptDone, Collect, ApplyState, NextPid, Return, ReturnPc,
     Goto
<1> QED BY <1>1, <1>2, <1>3, <1>4, <1>5, <1>6, <1>7, <1>8, <1>9 DEF StopStep

\* and one of do_start.
LEMMA StartRows ==
    ASSUME NEW s \in Services, TypeOK, StartStep(s)
    PROVE  OnlyRow(s) /\ UNCHANGED <<enabled, clientVars, mainVars>>
<1> USE DEF TypeOK, OnlyRow, Row, runtimeVars, procVars, clientVars, mainVars
<1>1. CASE DsEnabled(s)
  BY <1>1 DEF DsEnabled, Goto
<1>2. CASE DsDeps(s)
  BY <1>2 DEF DsDeps, Goto
<1>3. CASE DsMarkDisabled(s)
  BY <1>3 DEF DsMarkDisabled, ApplyState, NextPid, Goto
<1>4. CASE DsMarkWaiting(s)
  BY <1>4 DEF DsMarkWaiting, ApplyState, NextPid, Return, ReturnPc, Goto
<1>5. CASE DsSpawn(s)
  BY <1>5 DEF DsSpawn, ApplyState, NextPid, Spawn, Goto
<1>6. CASE DsSpawnFails(s)
  BY <1>6 DEF DsSpawnFails, ApplyState, NextPid, Goto
<1>7. CASE DsErr(s)
  BY <1>7 DEF DsErr, ApplyState, NextPid, Return, ReturnPc, Goto
<1>8. CASE DsEarlyExit(s)
  BY <1>8 DEF DsEarlyExit, Collect, ApplyState, NextPid, Return, ReturnPc, Goto
<1>9. CASE DsStayedUp(s)
  BY <1>9 DEF DsStayedUp, ApplyState, NextPid, Return, ReturnPc, Goto
<1>10. CASE DsJobExit(s)
  BY <1>10 DEF DsJobExit, Collect, ApplyState, NextPid, Return, ReturnPc, Goto
<1>11. CASE DsJobTimeout(s)
  BY <1>11 DEF DsJobTimeout, Goto
<1>12. CASE DsJobKilled(s)
  BY <1>12 DEF DsJobKilled, CollectOrGiveUp, Collect, ApplyState, NextPid, Goto
<1> QED BY <1>1, <1>2, <1>3, <1>4, <1>5, <1>6, <1>7, <1>8, <1>9, <1>10, <1>11, <1>12
   DEF StartStep

----------------------------------------------------------------------------
(* A Stop sticks.                                                           *)

\* Where a monitor can be whose last message was Stop, and what it carries
\* there: back in its loop it has no process and a state that nothing acts on.
StopAt(s) ==
    last[s] = "Stop" =>
        /\ pc[s] \in {"top", "recv", "poll", "live", "script", "term", "reap", "stopped",
                     "markStop", "done"}
        /\ pc[s] \in {"top", "recv", "poll", "live"} =>
              tracked[s] = NoPid /\ state[s] \in {"Stopped", "Disabled", "Pending"}
        /\ pc[s] \in {"script", "term", "reap", "stopped"} => why[s] \in {"stop", "exit"}
        /\ pc[s] = "markStop" => why[s] = "stop" /\ held[s] \in {"Stopped", "Disabled"}

\* A monitor that was stopped goes round its loop and finds nothing to do.
LEMMA LoopSticks ==
    ASSUME NEW s \in Services, TypeOK, OwnerPc, StopAt(s), LoopStep(s)
    PROVE  StopAt(s)'
<1> USE DEF TypeOK, StopAt, runtimeVars
<1>1. CASE TopRecv(s)
  BY <1>1 DEF TopRecv, Goto
<1>2. CASE TopExit(s)
  BY <1>2 DEF TopExit, BeginStop, Goto
<1>3. CASE RecvStop(s)
  BY <1>3 DEF RecvStop, Recv, ApplyState, NextPid, BeginStop, Goto
<1>4. CASE RecvRestart(s)
  BY <1>4 DEF RecvRestart, Recv, BeginStop, Goto
<1>5. CASE RecvStartIgnored(s)
  BY <1>5 DEF RecvStartIgnored, Recv, Goto
<1>6. CASE RecvStart(s)
  BY <1>6 DEF RecvStart, Recv, BeginStart, Goto
<1>7. CASE RecvTimeout(s)
  BY <1>7 DEF RecvTimeout, Goto
<1>8. CASE PollExit(s)
  BY <1>8 DEF PollExit, Collect, ApplyState, NextPid, Goto
<1>9. CASE PollRetry(s)
  BY <1>9 DEF PollRetry, WantsRetry, BeginStart, Goto
<1>10. CASE PollIdle(s)
  BY <1>10 DEF PollIdle, Goto
<1>11. CASE Exited(s)
  BY <1>11 DEF Exited, Goto
<1>12. CASE MarkExit(s)
  BY <1>12 DEF MarkExit, ApplyState, NextPid, Goto, Return, ReturnPc
<1>13. CASE BackoffDone(s)
  BY <1>13 DEF BackoffDone, Goto
<1>14. CASE LiveState(s)
  BY <1>14 DEF LiveState, Probed, Goto
<1>15. CASE LiveSkip(s)
  BY <1>15 DEF LiveSkip, Goto
<1>16. CASE LiveNotDue(s)
  BY <1>16 DEF LiveNotDue, Return, ReturnPc, Goto
<1>17. CASE LiveDue(s)
  BY <1>17 DEF LiveDue, Goto
<1>18. CASE ProbeOk(s)
  BY <1>18 DEF ProbeOk, ApplyState, NextPid, Return, ReturnPc, Goto
<1>19. CASE ProbeFail(s)
  BY <1>19 DEF ProbeFail, Return, ReturnPc, Goto
<1>20. CASE ProbeRestart(s)
  BY <1>20 DEF ProbeRestart, ApplyState, NextPid, BeginStop, Goto
<1> QED BY <1>1, <1>2, <1>3, <1>4, <1>5, <1>6, <1>7, <1>8, <1>9, <1>10, <1>11,
   <1>12, <1>13, <1>14, <1>15, <1>16, <1>17, <1>18, <1>19, <1>20 DEF LoopStep

\* stop_tracked returns to the Stop handler or ends the monitor.
LEMMA StopSticksOn ==
    ASSUME NEW s \in Services, TypeOK, OwnerPc, StopAt(s), StopStep(s) \/ StopScriptDone(s)
    PROVE  StopAt(s)'
<1> USE DEF TypeOK, StopAt, runtimeVars
<1>1. CASE StopScriptDone(s)
  BY <1>1 DEF StopScriptDone, Goto
<1>2. CASE Kill(s)
  BY <1>2 DEF Kill, Goto
<1>3. CASE TermReaped(s)
  BY <1>3 DEF TermReaped, CollectOrGiveUp, Collect, Goto
<1>4. CASE AfterStop(s)
  BY <1>4 DEF AfterStop, Goto
<1>5. CASE MarkStop(s)
  BY <1>5 DEF OwnerPc, LoopPc, MarkStop, ApplyState, Return, ReturnPc, Goto
<1>6. CASE AfterStopExit(s)
  BY <1>6 DEF AfterStopExit, ApplyState, NextPid, Goto
<1>7. CASE AfterStopStart(s)
  BY <1>7 DEF AfterStopStart, Goto
<1>8. CASE AfterStopScript(s)
  BY <1>8 DEF AfterStopScript, Spawn, Goto
<1>9. CASE RestartScriptDone(s)
  BY <1>9 DEF RestartScriptDone, Collect, ApplyState, NextPid, Return, ReturnPc,
     Goto
<1> QED BY <1>1, <1>2, <1>3, <1>4, <1>5, <1>6, <1>7, <1>8, <1>9 DEF StopStep

\* do_start is not reached.
LEMMA StartSticks ==
    ASSUME NEW s \in Services, TypeOK, OwnerPc, StopAt(s), StartStep(s)
    PROVE  StopAt(s)'
<1> USE DEF TypeOK, StopAt, runtimeVars
<1>1. CASE DsEnabled(s)
  BY <1>1 DEF DsEnabled, Goto
<1>2. CASE DsDeps(s)
  BY <1>2 DEF DsDeps, Goto
<1>3. CASE DsMarkDisabled(s)
  BY <1>3 DEF DsMarkDisabled, ApplyState, NextPid, Goto
<1>4. CASE DsMarkWaiting(s)
  BY <1>4 DEF DsMarkWaiting, ApplyState, NextPid, Return, ReturnPc, Goto
<1>5. CASE DsSpawn(s)
  BY <1>5 DEF DsSpawn, ApplyState, NextPid, Spawn, Goto
<1>6. CASE DsSpawnFails(s)
  BY <1>6 DEF DsSpawnFails, ApplyState, NextPid, Goto
<1>7. CASE DsErr(s)
  BY <1>7 DEF DsErr, ApplyState, NextPid, Return, ReturnPc, Goto
<1>8. CASE DsEarlyExit(s)
  BY <1>8 DEF DsEarlyExit, Collect, ApplyState, NextPid, Return, ReturnPc, Goto
<1>9. CASE DsStayedUp(s)
  BY <1>9 DEF DsStayedUp, ApplyState, NextPid, Return, ReturnPc, Goto
<1>10. CASE DsJobExit(s)
  BY <1>10 DEF DsJobExit, Collect, ApplyState, NextPid, Return, ReturnPc, Goto
<1>11. CASE DsJobTimeout(s)
  BY <1>11 DEF DsJobTimeout, Goto
<1>12. CASE DsJobKilled(s)
  BY <1>12 DEF DsJobKilled, CollectOrGiveUp, Collect, ApplyState, NextPid, Goto
<1> QED BY <1>1, <1>2, <1>3, <1>4, <1>5, <1>6, <1>7, <1>8, <1>9, <1>10, <1>11, <1>12
   DEF StartStep

\* The rows of the other services, the requests and the main thread change
\* nothing; a state written by enable or disable is one nothing acts on.
LEMMA StopAtStep ==
    ASSUME TypeOK, OwnerPc, \A s \in Services : StopAt(s), [Next]_vars
    PROVE  \A s \in Services : StopAt(s)'
<1>1. ASSUME NEW s \in Services, ServiceStep(s) PROVE \A t \in Services : StopAt(t)'
  <2>1. OnlyRow(s)
    BY <1>1, LoopRows, StopRows, StartRows DEF ServiceStep, MonitorStep
  <2>2. \A t \in Services : t # s => StopAt(t)'
    BY <2>1 DEF OnlyRow, Row, StopAt
  <2>3. StopAt(s)'
    BY <1>1, LoopSticks, StopSticksOn, StartSticks DEF ServiceStep, MonitorStep
  <2> QED BY <2>2, <2>3
<1>2. ASSUME NEW c \in Clients, ClientSetState(c) PROVE \A t \in Services : StopAt(t)'
  <2>1. \A t \in Services : state'[t] = state[t] \/ state'[t] \in {"Disabled", "Pending"}
    BY <1>2 DEF TypeOK, ClientSetState, ApplyState
  <2> QED BY <1>2, <2>1 DEF StopAt, ClientSetState, monitorVars
<1>3. ASSUME UNCHANGED <<state, monitorVars>> PROVE \A t \in Services : StopAt(t)'
  BY <1>3 DEF StopAt, monitorVars
<1>4. CASE (\E s \in Services, p \in Pids, code \in Code : ProcExit(s, p, code)) \/ MainStep \/ UNCHANGED vars
  BY <1>3, <1>4 DEF ProcExit, MainStep, Boot, StopAll, QuitAll, SendAll, BeginShutdown, vars, runtimeVars
<1>5. ASSUME NEW c \in Clients, ClientStep(c) PROVE \A t \in Services : StopAt(t)'
  BY <1>2, <1>3, <1>5 DEF ClientStep, ReqStart, ReqStop, ReqDisable, ReqEnable, ClientSend, runtimeVars
<1> QED BY <1>1, <1>4, <1>5 DEF ServiceStep, Next, Terminated

\* After a Stop and nothing else since, no exit poll, retry, probe or written
\* state brings the service back, for every configuration and interleaving.
THEOREM StopSticksHolds == Spec => []StopSticks
<1> DEFINE Inv == \A s \in Services : StopAt(s)
<1>1. Init => Inv
  BY DEF Init, StopAt
<1>2. TypeOK /\ Ownership /\ Inv /\ [Next]_vars => Inv'
  BY StopAtStep DEF Ownership
<1>3. OneProcess /\ Inv => StopSticks
  <2> SUFFICES ASSUME OneProcess, Inv, NEW s \in Services, last[s] = "Stop"
               PROVE  /\ pc[s] \notin StartPc
                      /\ pc[s] \in LoopPc => alive[s] \subseteq killed \cup over /\ tracked[s] = NoPid
                      /\ pc[s] \in LoopPc => state[s] \notin Probed \cup {"WaitingForDependency"}
    BY DEF StopSticks
  <2>1. pc[s] \in LoopPc => Mine(s) \subseteq {tracked[s]} /\ tracked[s] = NoPid
    BY DEF OneProcess, StopAt, LoopPc
  <2>2. pc[s] \in LoopPc => alive[s] \subseteq killed \cup over
    BY <2>1 DEF OneProcess, Mine
  <2> QED BY <2>1, <2>2 DEF StopAt, StartPc, LoopPc, Probed
<1> QED BY <1>1, <1>2, <1>3, TypeCorrect, OwnershipHolds, OneProcessHolds, PTL DEF Spec

----------------------------------------------------------------------------
(* A Stop that is under way, and what relies on it.                         *)

\* Receiving another message leaves a queued Stop in the queue.
LEMMA TailKeepsStop ==
    ASSUME NEW q \in Seq(CtlMsg), q # <<>>, Head(q) # "Stop",
           \E i \in 1..Len(q) : q[i] = "Stop"
    PROVE  \E i \in 1..Len(Tail(q)) : Tail(q)[i] = "Stop"
<1>1. PICK i \in 1..Len(q) : q[i] = "Stop"
  OBVIOUS
<1>2. i # 1 /\ Len(q) \in Nat
  BY <1>1
<1>3. i - 1 \in 1..Len(Tail(q)) /\ Tail(q)[i - 1] = q[i]
  BY <1>2
<1> QED BY <1>1, <1>3

\* Sending a message keeps what is in the queue.
LEMMA AppendKeeps ==
    ASSUME NEW q \in Seq(CtlMsg), NEW m \in CtlMsg
    PROVE  /\ Len(q) \in Nat /\ Len(Append(q, m)) = Len(q) + 1
           /\ \A i \in 1..Len(q) : i \in 1..Len(Append(q, m)) /\ Append(q, m)[i] = q[i]
           /\ Append(q, m)[Len(q) + 1] = m
OBVIOUS

\* Only the monitor itself takes a Stop off its queue, and then it handles it,
\* or ends.
LEMMA MonitorKeepsStop ==
    ASSUME TypeOK, NEW s \in Services, NEW t \in Services, ServiceStep(s), StopPending(t),
           ~(s = t /\ (RecvStop(s) \/ AfterStopExit(s)))
    PROVE  StopPending(t)'
<1>1. OnlyRow(s) /\ UNCHANGED clientVars
  BY LoopRows, StopRows, StartRows DEF ServiceStep, MonitorStep
<1>2. CASE ctl'[t] = ctl[t]
  BY <1>1, <1>2 DEF StopPending, clientVars
<1>3. CASE ctl'[t] # ctl[t]
  <2>1. s = t
    BY <1>1, <1>3 DEF OnlyRow, Row
  <2>2. RecvRestart(s) \/ RecvStartIgnored(s) \/ RecvStart(s)
    BY <1>3, <2>1 DEF ServiceStep, MonitorStep, LoopStep, StopStep, StartStep, TopRecv, TopExit, RecvTimeout,
       PollExit, PollRetry, PollIdle, Exited, MarkExit, BackoffDone, LiveState, LiveSkip,
       LiveNotDue, LiveDue, ProbeOk, ProbeFail, ProbeRestart, StopScriptDone, Kill, TermReaped,
       AfterStop, MarkStop, AfterStopStart, AfterStopScript, RestartScriptDone, DsEnabled,
       DsDeps, DsMarkDisabled, DsMarkWaiting, DsSpawn, DsSpawnFails, DsErr, DsEarlyExit,
       DsStayedUp, DsJobExit, DsJobTimeout, DsJobKilled
  <2>3. ctl[s] # <<>> /\ Head(ctl[s]) # "Stop" /\ ctl'[s] = Tail(ctl[s]) /\ ctl[s] \in Seq(CtlMsg)
    BY <2>2 DEF TypeOK, RecvRestart, RecvStartIgnored, RecvStart, Recv
  <2> QED BY <1>1, <2>1, <2>3, TailKeepsStop DEF StopPending, clientVars
<1> QED BY <1>2, <1>3

\* A disable on its way to the queue gets there: other requests and the main
\* thread only add to the queues.
LEMMA SendKeepsStop ==
    ASSUME TypeOK, NEW s \in Services, NEW t \in Services, NEW m \in CtlMsg, Send(s, m)
    PROVE  /\ (\E i \in 1..Len(ctl[t]) : ctl[t][i] = "Stop") =>
                 \E i \in 1..Len(ctl'[t]) : ctl'[t][i] = "Stop"
           /\ s = t /\ m = "Stop" /\ pc[s] # "done" =>
                 \E i \in 1..Len(ctl'[t]) : ctl'[t][i] = "Stop"
<1>1. ctl[s] \in Seq(CtlMsg) /\ ctl[t] \in Seq(CtlMsg)
  BY DEF TypeOK
<1>2. CASE pc[s] = "done"
  BY <1>2 DEF Send
<1>3. CASE pc[s] # "done" /\ s # t
  BY <1>3 DEF Send, TypeOK
<1>4. CASE pc[s] # "done" /\ s = t
  <2>1. ctl'[t] = Append(ctl[t], m)
    BY <1>4 DEF Send, TypeOK
  <2>2. Len(ctl[t]) + 1 \in 1..Len(ctl'[t])
    BY <1>1, <2>1, AppendKeeps
  <2> QED BY <1>1, <2>1, <2>2, AppendKeeps
<1> QED BY <1>2, <1>3, <1>4

\* Nothing outside the monitor takes a Stop back.
LEMMA OtherKeepsStop ==
    ASSUME TypeOK, NEW t \in Services, pc[t] # "done", StopPending(t),
           \/ \E s \in Services, p \in Pids, code \in Code : ProcExit(s, p, code)
           \/ \E c \in Clients : ClientStep(c)
           \/ MainStep
           \/ UNCHANGED vars
    PROVE  StopPending(t)'
<1>1. ASSUME UNCHANGED <<ctl, clientVars>> PROVE StopPending(t)'
  BY <1>1 DEF StopPending, clientVars
<1>2. CASE (\E s \in Services, p \in Pids, code \in Code : ProcExit(s, p, code)) \/ UNCHANGED vars
  BY <1>1, <1>2 DEF ProcExit, vars
<1>3. CASE MainStep
  <2>1. ASSUME NEW s \in Services, NEW m \in CtlMsg, Send(s, m), UNCHANGED clientVars
        PROVE  StopPending(t)'
    BY <2>1, SendKeepsStop DEF StopPending, clientVars
  <2>2. ASSUME NEW phase, NEW order \in Seq(Services), NEW msg \in CtlMsg, NEW next,
               SendAll(phase, order, msg, next)
        PROVE  StopPending(t)'
    <3>1. idx \in Nat \ {0} /\ Len(order) \in Nat
      BY DEF TypeOK
    <3>2. CASE idx <= Len(order)
      <4>1. order[idx] \in Services
        BY <3>1, <3>2
      <4> QED BY <2>1, <2>2, <3>1, <3>2, <4>1 DEF SendAll
    <3>3. CASE idx > Len(order)
      BY <1>1, <2>2, <3>1, <3>3 DEF SendAll
    <3> QED BY <3>1, <3>2, <3>3
  <2>3. CASE BeginShutdown
    BY <1>1, <2>3 DEF BeginShutdown
  <2> QED BY <1>3, <2>2, <2>3, OrderAssumption DEF MainStep, Boot, StopAll, QuitAll
<1>4. ASSUME NEW c \in Clients, ClientStep(c) PROVE StopPending(t)'
  <2>1. CASE ClientSend(c)
    <3>1. csvc[c] \in Services /\ cop[c] \in CtlMsg
      <4>1. cop[c] \in CtlMsg /\ cop[c] # "idle"
        BY <2>1 DEF ClientSend
      <4> QED BY <4>1 DEF TypeOK
    <3>2. \A d \in Clients : d # c => csvc'[d] = csvc[d] /\ cop'[d] = cop[d]
      BY <2>1 DEF TypeOK, ClientSend
    <3>3. CASE \E i \in 1..Len(ctl[t]) : ctl[t][i] = "Stop"
      BY <2>1, <3>1, <3>3, SendKeepsStop DEF StopPending, ClientSend
    <3>4. ASSUME NEW d \in Clients, csvc[d] = t, cop[d] \in {"setDisabled", "Stop"}
          PROVE  StopPending(t)'
      <4>1. CASE d # c
        BY <3>2, <3>4, <4>1 DEF StopPending
      <4>2. CASE d = c
        <5>1. cop[c] = "Stop" /\ csvc[c] = t /\ Send(t, "Stop")
          BY <2>1, <3>1, <3>4, <4>2 DEF ClientSend
        <5> QED BY <5>1, SendKeepsStop DEF StopPending
      <4> QED BY <4>1, <4>2
    <3> QED BY <3>3, <3>4 DEF StopPending
  <2>2. CASE ClientSetState(c)
    <3>1. \A d \in Clients : cop'[d] = cop[d] \/ (cop[d] = "setDisabled" /\ cop'[d] = "Stop") \/ cop[d] = "setPending"
      BY <2>2 DEF TypeOK, ClientSetState
    <3> QED BY <2>2, <3>1 DEF StopPending, ClientSetState
  <2>3. ASSUME NEW s \in Services, NEW op \in ClientOp, Request(c, s, op), UNCHANGED ctl
        PROVE  StopPending(t)'
    <3>1. \A d \in Clients : cop[d] # "idle" => csvc'[d] = csvc[d] /\ cop'[d] = cop[d]
      BY <2>3 DEF TypeOK, Request
    <3> QED BY <2>3, <3>1 DEF StopPending
  <2>4. ASSUME NEW s \in Services,
               ReqStart(c, s) \/ ReqStop(c, s) \/ ReqDisable(c, s) \/ ReqEnable(c, s)
        PROVE  StopPending(t)'
    <3>1. UNCHANGED ctl /\ \E op \in ClientOp : Request(c, s, op)
      BY <2>4 DEF ReqStart, ReqStop, ReqDisable, ReqEnable
    <3> QED BY <2>3, <3>1
  <2> QED BY <1>4, <2>1, <2>2, <2>4 DEF ClientStep
<1> QED BY <1>2, <1>3, <1>4

----------------------------------------------------------------------------
(* A disabled service stops.                                                *)

\* The monitor has a process, or passed do_start's check of the enabled flag.
Committed(s) ==
    \/ tracked[s] # NoPid
    \/ pc[s] \in {"dsDeps", "dsWait"}
    \/ pc[s] = "dsMark" /\ held[s] # "Disabled"

\* The service shows as Running and no Restart is what made it so; a do_start
\* that is about to see the flag down, or has seen it, does not count.
Stays(s) ==
    /\ state[s] = "Running" /\ last[s] # "Restart"
    /\ pc[s] \notin {"dsEnabled", "done"}
    /\ ~(pc[s] = "dsMark" /\ held[s] = "Disabled")

\* A restart on its way is that of the last message, and no state carried over
\* to the next lock acquisition of an exit or a Stop is Running.
PathAt(s) ==
    /\ pc[s] \in {"script", "term", "reap", "stopped", "rscript"} /\ why[s] = "restart" =>
          last[s] = "Restart"
    /\ pc[s] = "rscript" => why[s] = "restart"
    /\ pc[s] \in {"markExit", "markStop"} => held[s] # "Running"

\* From there on a disable owes a Stop.
DisabledAt(s) ==
    PathAt(s) /\ (~enabled[s] /\ (Committed(s) \/ Stays(s)) => StopPending(s))

\* monitor_loop commits to nothing, and a Stop it handles ends what there was.
LEMMA LoopCommits ==
    ASSUME NEW s \in Services, TypeOK, OwnerPc, PathAt(s), LoopStep(s)
    PROVE  /\ PathAt(s)'
           /\ Committed(s)' \/ Stays(s)' => Committed(s) \/ Stays(s) \/ enabled[s]
           /\ RecvStop(s) \/ AfterStopExit(s) => ~Committed(s)' /\ ~Stays(s)'
<1> USE DEF TypeOK, OwnerPc, LoopPc, Committed, Stays, PathAt, runtimeVars, RecvStop,
   AfterStopExit, Recv
<1>1. CASE TopRecv(s)
  BY <1>1 DEF TopRecv, Goto
<1>2. CASE TopExit(s)
  BY <1>2 DEF TopExit, BeginStop, Goto
<1>3. CASE RecvStop(s)
  BY <1>3 DEF RecvStop, Recv, ApplyState, NextPid, BeginStop, Goto
<1>4. CASE RecvRestart(s)
  BY <1>4 DEF RecvRestart, Recv, BeginStop, Goto
<1>5. CASE RecvStartIgnored(s)
  BY <1>5 DEF RecvStartIgnored, Recv, Goto
<1>6. CASE RecvStart(s)
  BY <1>6 DEF RecvStart, Recv, BeginStart, Goto
<1>7. CASE RecvTimeout(s)
  BY <1>7 DEF RecvTimeout, Goto
<1>8. CASE PollExit(s)
  BY <1>8 DEF PollExit, Collect, ApplyState, NextPid, Goto
<1>9. CASE PollRetry(s)
  BY <1>9 DEF PollRetry, WantsRetry, BeginStart, Goto
<1>10. CASE PollIdle(s)
  BY <1>10 DEF PollIdle, Goto
<1>11. CASE Exited(s)
  BY <1>11 DEF Exited, Goto
<1>12. CASE MarkExit(s)
  BY <1>12 DEF MarkExit, ApplyState, NextPid, Goto, Return, ReturnPc
<1>13. CASE BackoffDone(s)
  BY <1>13 DEF BackoffDone, Goto
<1>14. CASE LiveState(s)
  BY <1>14 DEF LiveState, Probed, Goto
<1>15. CASE LiveSkip(s)
  BY <1>15 DEF LiveSkip, Goto
<1>16. CASE LiveNotDue(s)
  BY <1>16 DEF LiveNotDue, Return, ReturnPc, Goto
<1>17. CASE LiveDue(s)
  BY <1>17 DEF LiveDue, Goto
<1>18. CASE ProbeOk(s)
  BY <1>18 DEF ProbeOk, ApplyState, NextPid, Return, ReturnPc, Goto
<1>19. CASE ProbeFail(s)
  BY <1>19 DEF ProbeFail, Return, ReturnPc, Goto
<1>20. CASE ProbeRestart(s)
  BY <1>20 DEF ProbeRestart, ApplyState, NextPid, BeginStop, Goto
<1> QED BY <1>1, <1>2, <1>3, <1>4, <1>5, <1>6, <1>7, <1>8, <1>9, <1>10, <1>11,
   <1>12, <1>13, <1>14, <1>15, <1>16, <1>17, <1>18, <1>19, <1>20 DEF LoopStep

\* Neither does stop_tracked, and nothing is left when the monitor ends.
LEMMA StopCommits ==
    ASSUME NEW s \in Services, TypeOK, OwnerPc, PathAt(s), StopStep(s) \/ StopScriptDone(s)
    PROVE  /\ PathAt(s)'
           /\ Committed(s)' \/ Stays(s)' => Committed(s) \/ Stays(s) \/ enabled[s]
           /\ RecvStop(s) \/ AfterStopExit(s) => ~Committed(s)' /\ ~Stays(s)'
<1> USE DEF TypeOK, OwnerPc, LoopPc, Committed, Stays, PathAt, runtimeVars, RecvStop,
   AfterStopExit, Recv
<1>1. CASE StopScriptDone(s)
  BY <1>1 DEF StopScriptDone, Goto
<1>2. CASE Kill(s)
  BY <1>2 DEF Kill, Goto
<1>3. CASE TermReaped(s)
  BY <1>3 DEF TermReaped, CollectOrGiveUp, Collect, Goto
<1>4. CASE AfterStop(s)
  BY <1>4 DEF AfterStop, Goto
<1>5. CASE MarkStop(s)
  BY <1>5 DEF MarkStop, ApplyState, NextPid, Return, ReturnPc, Goto
<1>6. CASE AfterStopExit(s)
  BY <1>6 DEF AfterStopExit, ApplyState, NextPid, Goto
<1>7. CASE AfterStopStart(s)
  BY <1>7 DEF AfterStopStart, Goto
<1>8. CASE AfterStopScript(s)
  BY <1>8 DEF AfterStopScript, Spawn, Goto
<1>9. CASE RestartScriptDone(s)
  BY <1>9 DEF RestartScriptDone, Collect, ApplyState, NextPid, Return, ReturnPc,
     Goto
<1> QED BY <1>1, <1>2, <1>3, <1>4, <1>5, <1>6, <1>7, <1>8, <1>9 DEF StopStep

\* do_start goes on only with the flag up.
LEMMA StartCommits ==
    ASSUME NEW s \in Services, TypeOK, OwnerPc, PathAt(s), StartStep(s)
    PROVE  /\ PathAt(s)'
           /\ Committed(s)' \/ Stays(s)' => Committed(s) \/ Stays(s) \/ enabled[s]
           /\ RecvStop(s) \/ AfterStopExit(s) => ~Committed(s)' /\ ~Stays(s)'
<1> USE DEF TypeOK, OwnerPc, LoopPc, Committed, Stays, PathAt, runtimeVars, RecvStop,
   AfterStopExit, Recv
<1>1. CASE DsEnabled(s)
  BY <1>1 DEF DsEnabled, Goto
<1>2. CASE DsDeps(s)
  BY <1>2 DEF DsDeps, Goto
<1>3. CASE DsMarkDisabled(s)
  BY <1>3 DEF DsMarkDisabled, ApplyState, NextPid, Goto
<1>4. CASE DsMarkWaiting(s)
  BY <1>4 DEF DsMarkWaiting, ApplyState, NextPid, Return, ReturnPc, Goto
<1>5. CASE DsSpawn(s)
  BY <1>5 DEF DsSpawn, ApplyState, NextPid, Spawn, Goto
<1>6. CASE DsSpawnFails(s)
  BY <1>6 DEF DsSpawnFails, ApplyState, NextPid, Goto
<1>7. CASE DsErr(s)
  BY <1>7 DEF DsErr, ApplyState, NextPid, Return, ReturnPc, Goto
<1>8. CASE DsEarlyExit(s)
  BY <1>8 DEF DsEarlyExit, Collect, ApplyState, NextPid, Return, ReturnPc, Goto
<1>9. CASE DsStayedUp(s)
  BY <1>9 DEF DsStayedUp, ApplyState, NextPid, Return, ReturnPc, Goto
<1>10. CASE DsJobExit(s)
  BY <1>10 DEF DsJobExit, Collect, ApplyState, NextPid, Return, ReturnPc, Goto
<1>11. CASE DsJobTimeout(s)
  BY <1>11 DEF DsJobTimeout, Goto
<1>12. CASE DsJobKilled(s)
  BY <1>12 DEF DsJobKilled, CollectOrGiveUp, Collect, ApplyState, NextPid, Goto
<1> QED BY <1>1, <1>2, <1>3, <1>4, <1>5, <1>6, <1>7, <1>8, <1>9, <1>10, <1>11, <1>12
   DEF StartStep

\* A step of a monitor leaves the flag alone, and with it the debt of a Stop.
LEMMA MonitorDisables ==
    ASSUME TypeOK, OwnerPc, NEW s \in Services, ServiceStep(s),
           NEW t \in Services, DisabledAt(t)
    PROVE  DisabledAt(t)'
<1>1. OnlyRow(s) /\ enabled' = enabled
  BY LoopRows, StopRows, StartRows DEF ServiceStep, MonitorStep
<1>2. CASE t # s
  <2>1. Committed(t)' = Committed(t) /\ Stays(t)' = Stays(t) /\ PathAt(t)' = PathAt(t)
    BY <1>1, <1>2 DEF OnlyRow, Row, Committed, Stays, PathAt
  <2> QED BY <1>1, <1>2, <2>1, MonitorKeepsStop DEF DisabledAt
<1>3. CASE t = s
  <2>0. PathAt(s)
    BY <1>3 DEF DisabledAt
  <2>1. /\ PathAt(s)'
        /\ Committed(s)' \/ Stays(s)' => Committed(s) \/ Stays(s) \/ enabled[s]
        /\ RecvStop(s) \/ AfterStopExit(s) => ~Committed(s)' /\ ~Stays(s)'
    BY <2>0, LoopCommits, StopCommits, StartCommits DEF ServiceStep, MonitorStep
  <2> QED BY <1>1, <1>3, <2>1, MonitorKeepsStop DEF DisabledAt
<1> QED BY <1>2, <1>3

\* A disable owes the Stop from the step in which it lowers the flag.
LEMMA OtherDisables ==
    ASSUME TypeOK, OwnerPc, NEW t \in Services, DisabledAt(t),
           \/ \E s \in Services, p \in Pids, code \in Code : ProcExit(s, p, code)
           \/ \E c \in Clients : ClientStep(c)
           \/ MainStep
           \/ UNCHANGED vars
    PROVE  DisabledAt(t)'
<1>1. UNCHANGED monitorVars
  BY DEF ProcExit, ClientStep, ReqStart, ReqStop, ReqDisable, ReqEnable, ClientSetState,
     ClientSend, MainStep, Boot, StopAll, QuitAll, SendAll, BeginShutdown, vars
<1>2. /\ Committed(t)' = Committed(t) /\ PathAt(t)' = PathAt(t)
      /\ Committed(t) \/ Stays(t) => pc[t] # "done"
  BY <1>1 DEF Committed, PathAt, Stays, monitorVars, OwnerPc, LoopPc
<1>3. state'[t] = state[t] \/ state'[t] # "Running"
  <2>1. ASSUME NEW c \in Clients, ClientSetState(c)
        PROVE  state'[t] = state[t] \/ state'[t] # "Running"
    BY <2>1 DEF TypeOK, ClientSetState, ApplyState
  <2>2. state' = state \/ \E c \in Clients : ClientSetState(c)
    BY DEF ProcExit, ClientStep, ReqStart, ReqStop, ReqDisable, ReqEnable, ClientSend, MainStep,
       Boot, StopAll, QuitAll, SendAll, BeginShutdown, vars, runtimeVars
  <2> QED BY <2>1, <2>2
<1>4. Stays(t)' => Stays(t)
  BY <1>1, <1>3 DEF Stays, monitorVars
<1>5. CASE enabled'[t] = enabled[t]
  BY <1>2, <1>4, <1>5, OtherKeepsStop DEF DisabledAt
<1>6. CASE enabled'[t] # enabled[t]
  <2>1. PICK c \in Clients, s \in Services : ReqDisable(c, s) \/ ReqEnable(c, s)
    BY <1>6 DEF ProcExit, ClientStep, ReqStart, ReqStop, ClientSetState, ApplyState,
       ClientSend, MainStep, Boot, StopAll, QuitAll, SendAll, BeginShutdown, vars, runtimeVars
  <2>2. s = t
    BY <1>6, <2>1 DEF TypeOK, ReqDisable, ReqEnable
  <2>3. CASE ReqDisable(c, s)
    BY <1>2, <2>2, <2>3 DEF TypeOK, ReqDisable, Request, DisabledAt, StopPending
  <2>4. CASE ReqEnable(c, s)
    BY <1>2, <2>2, <2>4 DEF TypeOK, ReqEnable, DisabledAt
  <2> QED BY <2>1, <2>3, <2>4
<1> QED BY <1>5, <1>6

\* A disabled service that has a process or is getting one has a Stop under way,
\* in whatever order requests, boot and monitor meet; what a disabled service
\* may still do without one is run its restart script and show as Running after
\* it.
THEOREM DisabledStopsHolds == Spec => []DisabledStops
<1> DEFINE Inv == \A s \in Services : DisabledAt(s)
<1>1. Init => Inv
  BY DEF Init, DisabledAt, Committed, Stays, PathAt
<1>2. TypeOK /\ Ownership /\ Inv /\ [Next]_vars => Inv'
  <2> SUFFICES ASSUME TypeOK, Ownership, Inv, [Next]_vars, NEW t \in Services PROVE DisabledAt(t)'
    OBVIOUS
  <2>1. CASE \E s \in Services : ServiceStep(s)
    BY <2>1, MonitorDisables DEF Ownership
  <2> QED BY <2>1, OtherDisables DEF ServiceStep, Next, Terminated, Ownership
<1>3. Inv => DisabledStops
  BY DEF DisabledStops, DisabledAt, Committed, Stays, PathAt, LoopPc
<1> QED BY <1>1, <1>2, <1>3, TypeCorrect, OwnershipHolds, PTL DEF Spec

----------------------------------------------------------------------------
(* The shutdown's Quit.                                                     *)

\* A Quit is in the queue.
HasQuit(s) == \E i \in 1..Len(ctl[s]) : ctl[s][i] = "Quit"

\* A Stop is in the queue, before any Quit.
StopFirst(s) ==
    \E i \in 1..Len(ctl[s]) : ctl[s][i] = "Stop" /\ \A j \in 1..i : ctl[s][j] # "Quit"

\* How far stop_all_ordered has come with its Stops.
StopsSent == IF main = "stopping" THEN idx - 1 ELSE Len(StopOrder)

\* Quit is sent last, to services that were sent Stop, and a monitor that still
\* receives has that Stop in its queue: with stop_all up nobody begins to
\* receive again.
QuitInv ==
    /\ main = "run" => idx = 1
    /\ main \in {"stopping", "quitting", "down"} => stopAll
    /\ \A s \in Services : HasQuit(s) =>
          main \in {"quitting", "down"} /\ \E i \in 1..Len(StopOrder) : StopOrder[i] = s
    /\ main \in {"stopping", "quitting", "down"} =>
          \A i \in 1..Len(StopOrder) :
              i <= StopsSent /\ pc[StopOrder[i]] = "recv" => StopFirst(StopOrder[i])

\* monitor_loop takes messages off its queue and begins to receive only while stop_all is down;
LEMMA LoopQueue ==
    ASSUME NEW s \in Services, TypeOK, LoopStep(s)
    PROVE  /\ pc'[s] = "recv" => ~stopAll \/ (pc[s] = "recv" /\ ctl'[s] = ctl[s])
           /\ ctl'[s] \in {ctl[s], <<>>} \/ (ctl[s] # <<>> /\ ctl'[s] = Tail(ctl[s]))
<1> USE DEF TypeOK, runtimeVars
<1>1. CASE TopRecv(s)
  BY <1>1 DEF TopRecv, Goto
<1>2. CASE TopExit(s)
  BY <1>2 DEF TopExit, BeginStop, Goto
<1>3. CASE RecvStop(s)
  BY <1>3 DEF RecvStop, Recv, ApplyState, NextPid, BeginStop, Goto
<1>4. CASE RecvRestart(s)
  BY <1>4 DEF RecvRestart, Recv, BeginStop, Goto
<1>5. CASE RecvStartIgnored(s)
  BY <1>5 DEF RecvStartIgnored, Recv, Goto
<1>6. CASE RecvStart(s)
  BY <1>6 DEF RecvStart, Recv, BeginStart, Goto
<1>7. CASE RecvTimeout(s)
  BY <1>7 DEF RecvTimeout, Goto
<1>8. CASE PollExit(s)
  BY <1>8 DEF PollExit, Collect, ApplyState, NextPid, Goto
<1>9. CASE PollRetry(s)
  BY <1>9 DEF PollRetry, WantsRetry, BeginStart, Goto
<1>10. CASE PollIdle(s)
  BY <1>10 DEF PollIdle, Goto
<1>11. CASE Exited(s)
  BY <1>11 DEF Exited, Goto
<1>12. CASE MarkExit(s)
  BY <1>12 DEF MarkExit, ApplyState, NextPid, Goto, Return, ReturnPc
<1>13. CASE BackoffDone(s)
  BY <1>13 DEF BackoffDone, Goto
<1>14. CASE LiveState(s)
  BY <1>14 DEF LiveState, Probed, Goto
<1>15. CASE LiveSkip(s)
  BY <1>15 DEF LiveSkip, Goto
<1>16. CASE LiveNotDue(s)
  BY <1>16 DEF LiveNotDue, Return, ReturnPc, Goto
<1>17. CASE LiveDue(s)
  BY <1>17 DEF LiveDue, Goto
<1>18. CASE ProbeOk(s)
  BY <1>18 DEF ProbeOk, ApplyState, NextPid, Return, ReturnPc, Goto
<1>19. CASE ProbeFail(s)
  BY <1>19 DEF ProbeFail, Return, ReturnPc, Goto
<1>20. CASE ProbeRestart(s)
  BY <1>20 DEF ProbeRestart, ApplyState, NextPid, BeginStop, Goto
<1> QED BY <1>1, <1>2, <1>3, <1>4, <1>5, <1>6, <1>7, <1>8, <1>9, <1>10, <1>11,
   <1>12, <1>13, <1>14, <1>15, <1>16, <1>17, <1>18, <1>19, <1>20 DEF LoopStep

\* stop_tracked takes none, and the end of the monitor drops them;
LEMMA StopQueue ==
    ASSUME NEW s \in Services, TypeOK, StopStep(s) \/ StopScriptDone(s)
    PROVE  /\ pc'[s] = "recv" => ~stopAll \/ (pc[s] = "recv" /\ ctl'[s] = ctl[s])
           /\ ctl'[s] \in {ctl[s], <<>>} \/ (ctl[s] # <<>> /\ ctl'[s] = Tail(ctl[s]))
<1> USE DEF TypeOK, runtimeVars
<1>1. CASE StopScriptDone(s)
  BY <1>1 DEF StopScriptDone, Goto
<1>2. CASE Kill(s)
  BY <1>2 DEF Kill, Goto
<1>3. CASE TermReaped(s)
  BY <1>3 DEF TermReaped, CollectOrGiveUp, Collect, Goto
<1>4. CASE AfterStop(s)
  BY <1>4 DEF AfterStop, Goto
<1>5. CASE MarkStop(s)
  BY <1>5 DEF MarkStop, ApplyState, NextPid, Return, ReturnPc, Goto
<1>6. CASE AfterStopExit(s)
  BY <1>6 DEF AfterStopExit, ApplyState, NextPid, Goto
<1>7. CASE AfterStopStart(s)
  BY <1>7 DEF AfterStopStart, Goto
<1>8. CASE AfterStopScript(s)
  BY <1>8 DEF AfterStopScript, Spawn, Goto
<1>9. CASE RestartScriptDone(s)
  BY <1>9 DEF RestartScriptDone, Collect, ApplyState, NextPid, Return, ReturnPc,
     Goto
<1> QED BY <1>1, <1>2, <1>3, <1>4, <1>5, <1>6, <1>7, <1>8, <1>9 DEF StopStep

\* do_start takes none.
LEMMA StartQueue ==
    ASSUME NEW s \in Services, TypeOK, StartStep(s)
    PROVE  /\ pc'[s] = "recv" => ~stopAll \/ (pc[s] = "recv" /\ ctl'[s] = ctl[s])
           /\ ctl'[s] \in {ctl[s], <<>>} \/ (ctl[s] # <<>> /\ ctl'[s] = Tail(ctl[s]))
<1> USE DEF TypeOK, runtimeVars
<1>1. CASE DsEnabled(s)
  BY <1>1 DEF DsEnabled, Goto
<1>2. CASE DsDeps(s)
  BY <1>2 DEF DsDeps, Goto
<1>3. CASE DsMarkDisabled(s)
  BY <1>3 DEF DsMarkDisabled, ApplyState, NextPid, Goto
<1>4. CASE DsMarkWaiting(s)
  BY <1>4 DEF DsMarkWaiting, ApplyState, NextPid, Return, ReturnPc, Goto
<1>5. CASE DsSpawn(s)
  BY <1>5 DEF DsSpawn, ApplyState, NextPid, Spawn, Goto
<1>6. CASE DsSpawnFails(s)
  BY <1>6 DEF DsSpawnFails, ApplyState, NextPid, Goto
<1>7. CASE DsErr(s)
  BY <1>7 DEF DsErr, ApplyState, NextPid, Return, ReturnPc, Goto
<1>8. CASE DsEarlyExit(s)
  BY <1>8 DEF DsEarlyExit, Collect, ApplyState, NextPid, Return, ReturnPc, Goto
<1>9. CASE DsStayedUp(s)
  BY <1>9 DEF DsStayedUp, ApplyState, NextPid, Return, ReturnPc, Goto
<1>10. CASE DsJobExit(s)
  BY <1>10 DEF DsJobExit, Collect, ApplyState, NextPid, Return, ReturnPc, Goto
<1>11. CASE DsJobTimeout(s)
  BY <1>11 DEF DsJobTimeout, Goto
<1>12. CASE DsJobKilled(s)
  BY <1>12 DEF DsJobKilled, CollectOrGiveUp, Collect, ApplyState, NextPid, Goto
<1> QED BY <1>1, <1>2, <1>3, <1>4, <1>5, <1>6, <1>7, <1>8, <1>9, <1>10, <1>11, <1>12
   DEF StartStep

\* What is left of a queue was in it before.
LEMMA MonitorQuit ==
    ASSUME TypeOK, QuitInv, NEW s \in Services, ServiceStep(s)
    PROVE  QuitInv'
<1>1. OnlyRow(s) /\ UNCHANGED <<stopAll, main, idx>>
  BY LoopRows, StopRows, StartRows DEF ServiceStep, MonitorStep, mainVars
<1>2. /\ pc'[s] = "recv" => ~stopAll \/ (pc[s] = "recv" /\ ctl'[s] = ctl[s])
      /\ ctl'[s] \in {ctl[s], <<>>} \/ (ctl[s] # <<>> /\ ctl'[s] = Tail(ctl[s]))
  BY LoopQueue, StopQueue, StartQueue DEF ServiceStep, MonitorStep
<1>3. \A t \in Services : t # s => pc'[t] = pc[t] /\ ctl'[t] = ctl[t]
  BY <1>1 DEF OnlyRow, Row
<1>4. ASSUME NEW t \in Services, HasQuit(t)' PROVE HasQuit(t)
  <2>1. CASE ctl'[t] = ctl[t]
    BY <1>4, <2>1 DEF HasQuit
  <2>2. CASE ctl[t] # <<>> /\ ctl'[t] = Tail(ctl[t])
    <3>1. ctl[t] \in Seq(CtlMsg)
      BY DEF TypeOK
    <3>2. PICK i \in 1..Len(Tail(ctl[t])) : Tail(ctl[t])[i] = "Quit"
      BY <1>4, <2>2 DEF HasQuit
    <3>3. i + 1 \in 1..Len(ctl[t]) /\ ctl[t][i + 1] = "Quit"
      BY <2>2, <3>1, <3>2
    <3> QED BY <3>3 DEF HasQuit
  <2>3. CASE ctl'[t] = <<>>
    BY <1>4, <2>3 DEF HasQuit
  <2> QED BY <1>2, <1>3, <2>1, <2>2, <2>3
<1>5. StopsSent' = StopsSent
  BY <1>1 DEF StopsSent
<1>6. ASSUME main \in {"stopping", "quitting", "down"}, NEW i \in 1..Len(StopOrder),
             i <= StopsSent, pc'[StopOrder[i]] = "recv"
      PROVE  StopFirst(StopOrder[i])'
  <2>1. stopAll /\ StopOrder[i] \in Services
    BY <1>6, OrderAssumption DEF QuitInv
  <2>2. pc[StopOrder[i]] = "recv" /\ ctl'[StopOrder[i]] = ctl[StopOrder[i]]
    BY <1>2, <1>3, <1>6, <2>1
  <2> QED BY <1>6, <2>2 DEF QuitInv, StopFirst
<1> QED BY <1>1, <1>4, <1>5, <1>6 DEF QuitInv

\* A message other than Quit in a queue.
LEMMA SendQuit ==
    ASSUME TypeOK, NEW s \in Services, NEW m \in CtlMsg, Send(s, m), NEW t \in Services
    PROVE  /\ HasQuit(t)' => HasQuit(t) \/ (t = s /\ m = "Quit")
           /\ StopFirst(t) => StopFirst(t)'
           /\ t = s /\ m = "Stop" /\ pc[t] # "done" /\ ~HasQuit(t) => StopFirst(t)'
<1>1. ctl[t] \in Seq(CtlMsg)
  BY DEF TypeOK
<1>2. CASE ctl'[t] = ctl[t] /\ (t # s \/ pc[t] = "done")
  BY <1>2 DEF HasQuit, StopFirst
<1>3. CASE t = s /\ pc[t] # "done" /\ ctl'[t] = Append(ctl[t], m)
  <2>1. /\ Len(ctl[t]) \in Nat /\ Len(ctl'[t]) = Len(ctl[t]) + 1
        /\ \A i \in 1..Len(ctl[t]) : i \in 1..Len(ctl'[t]) /\ ctl'[t][i] = ctl[t][i]
        /\ ctl'[t][Len(ctl[t]) + 1] = m
    BY <1>1, <1>3, AppendKeeps
  <2>2. HasQuit(t)' => HasQuit(t) \/ m = "Quit"
    BY <2>1 DEF HasQuit
  <2>3. ASSUME StopFirst(t) PROVE StopFirst(t)'
    <3>1. PICK i \in 1..Len(ctl[t]) : ctl[t][i] = "Stop" /\ \A j \in 1..i : ctl[t][j] # "Quit"
      BY <2>3 DEF StopFirst
    <3>2. \A j \in 1..i : j \in 1..Len(ctl[t])
      BY <2>1
    <3> QED BY <2>1, <3>1, <3>2 DEF StopFirst
  <2>4. ASSUME m = "Stop", ~HasQuit(t) PROVE StopFirst(t)'
    <3>1. Len(ctl[t]) + 1 \in 1..Len(ctl'[t])
      BY <2>1
    <3>2. \A j \in 1..(Len(ctl[t]) + 1) : ctl'[t][j] # "Quit"
      BY <2>1, <2>4 DEF HasQuit
    <3> QED BY <2>1, <2>4, <3>1, <3>2 DEF StopFirst
  <2> QED BY <1>3, <2>2, <2>3, <2>4
<1> QED BY <1>2, <1>3 DEF Send, TypeOK

\* The main thread sends every Stop before the first Quit; clients send none.
LEMMA OtherQuit ==
    ASSUME TypeOK, QuitInv,
           \/ \E s \in Services, p \in Pids, code \in Code : ProcExit(s, p, code)
           \/ \E c \in Clients : ClientStep(c)
           \/ MainStep
           \/ UNCHANGED vars
    PROVE  QuitInv'
<1>1. ASSUME UNCHANGED <<ctl, pc, stopAll, main, idx>> PROVE QuitInv'
  BY <1>1 DEF QuitInv, HasQuit, StopFirst, StopsSent
<1>2. CASE (\E s \in Services, p \in Pids, code \in Code : ProcExit(s, p, code)) \/ UNCHANGED vars
  BY <1>1, <1>2 DEF ProcExit, vars, monitorVars, mainVars
<1>3. ASSUME NEW c \in Clients, ClientStep(c) PROVE QuitInv'
  <2>1. CASE ClientSend(c)
    <3>1. cop[c] \in CtlMsg /\ cop[c] # "idle" /\ Send(csvc[c], cop[c])
      BY <2>1 DEF ClientSend
    <3>2. csvc[c] \in Services /\ cop[c] # "Quit"
      BY <3>1 DEF TypeOK
    <3>3. \A t \in Services : (HasQuit(t)' => HasQuit(t)) /\ (StopFirst(t) => StopFirst(t)')
      BY <3>1, <3>2, SendQuit
    <3>4. UNCHANGED <<pc, stopAll, main, idx>>
      BY <2>1 DEF ClientSend, monitorVars, mainVars
    <3> QED BY <3>3, <3>4, OrderAssumption DEF QuitInv, StopsSent
  <2>2. CASE ~ClientSend(c)
    BY <1>1, <1>3, <2>2 DEF ClientStep, ReqStart, ReqStop, ReqDisable, ReqEnable, ClientSetState,
       monitorVars, mainVars
  <2> QED BY <2>1, <2>2
<1>4. CASE BeginShutdown
  <2>1. UNCHANGED <<ctl, pc, idx>> /\ main = "run" /\ main' = "stopping" /\ stopAll'
    BY <1>4 DEF BeginShutdown, monitorVars
  <2>2. \A s \in Services : ~HasQuit(s)
    BY <2>1 DEF QuitInv
  <2>3. idx = 1
    BY <2>1 DEF QuitInv
  <2> QED BY <2>1, <2>2, <2>3 DEF QuitInv, HasQuit, StopFirst, StopsSent
<1>5. idx \in Nat \ {0} /\ Len(BootOrder) \in Nat /\ Len(StopOrder) \in Nat
  BY OrderAssumption DEF TypeOK
<1>6. ASSUME NEW order \in {BootOrder, StopOrder}, idx <= Len(order)
      PROVE  idx \in 1..Len(order) /\ order[idx] \in Services
  BY <1>5, <1>6, OrderAssumption
<1>7. CASE Boot
  <2>1. CASE idx <= Len(BootOrder)
    <3>1. Send(BootOrder[idx], "Start") /\ UNCHANGED <<main, stopAll, pc>> /\ main = "boot"
      BY <1>5, <1>7, <2>1 DEF Boot, SendAll, monitorVars
    <3>2. \A t \in Services : HasQuit(t)' => HasQuit(t)
      BY <1>6, <2>1, <3>1, SendQuit
    <3> QED BY <3>1, <3>2 DEF QuitInv
  <2>2. CASE idx > Len(BootOrder)
    <3>1. UNCHANGED <<ctl, stopAll, pc>> /\ main = "boot" /\ main' = "run" /\ idx' = 1
      BY <1>5, <1>7, <2>2 DEF Boot, SendAll, monitorVars
    <3> QED BY <3>1 DEF QuitInv, HasQuit
  <2> QED BY <1>5, <2>1, <2>2
<1>8. CASE StopAll
  <2>0. \A s \in Services : ~HasQuit(s)
    BY <1>8 DEF StopAll, SendAll, QuitInv
  <2>1. CASE idx <= Len(StopOrder)
    <3>1. /\ Send(StopOrder[idx], "Stop") /\ idx' = idx + 1
          /\ UNCHANGED <<main, stopAll, pc>> /\ main = "stopping"
      BY <1>5, <1>8, <2>1 DEF StopAll, SendAll, monitorVars
    <3>2. \A t \in Services : ~HasQuit(t)' /\ (StopFirst(t) => StopFirst(t)')
      BY <1>6, <2>0, <2>1, <3>1, SendQuit
    <3>3. ASSUME NEW t \in Services, t = StopOrder[idx], pc[t] = "recv" PROVE StopFirst(t)'
      <4>1. Send(t, "Stop") /\ ~HasQuit(t) /\ pc[t] # "done"
        BY <2>0, <3>1, <3>3
      <4> QED BY <4>1, SendQuit
    <3>4. ASSUME NEW i \in 1..Len(StopOrder), i <= StopsSent', pc'[StopOrder[i]] = "recv"
          PROVE  StopFirst(StopOrder[i])'
      <4>1. i = idx \/ i <= StopsSent
        BY <1>5, <3>1, <3>4 DEF StopsSent
      <4>2. StopOrder[i] \in Services /\ pc[StopOrder[i]] = "recv"
        BY <3>1, <3>4, OrderAssumption
      <4>3. CASE i <= StopsSent
        BY <3>1, <3>2, <4>2, <4>3 DEF QuitInv
      <4> QED BY <3>3, <4>1, <4>2, <4>3
    <3> QED BY <3>1, <3>2, <3>4 DEF QuitInv
  <2>2. CASE idx > Len(StopOrder)
    <3>1. UNCHANGED <<ctl, stopAll, pc>> /\ main = "stopping" /\ main' = "quitting" /\ idx' = 1
      BY <1>5, <1>8, <2>2 DEF StopAll, SendAll, monitorVars
    <3>2. \A i \in 1..Len(StopOrder) : i <= StopsSent
      BY <1>5, <2>2, <3>1 DEF StopsSent
    <3> QED BY <2>0, <3>1, <3>2 DEF QuitInv, HasQuit, StopFirst
  <2> QED BY <1>5, <2>1, <2>2
<1>9. CASE QuitAll
  <2>1. CASE idx <= Len(StopOrder)
    <3>1. Send(StopOrder[idx], "Quit") /\ UNCHANGED <<main, stopAll, pc>> /\ main = "quitting"
      BY <1>5, <1>9, <2>1 DEF QuitAll, SendAll, monitorVars
    <3>2. \A t \in Services : /\ HasQuit(t)' => HasQuit(t) \/ t = StopOrder[idx]
                              /\ StopFirst(t) => StopFirst(t)'
      BY <1>6, <2>1, <3>1, SendQuit
    <3>3. StopsSent' = StopsSent
      BY <3>1 DEF StopsSent
    <3> QED BY <1>6, <2>1, <3>1, <3>2, <3>3, OrderAssumption DEF QuitInv
  <2>2. CASE idx > Len(StopOrder)
    <3>1. UNCHANGED <<ctl, stopAll, pc>> /\ main = "quitting" /\ main' = "down" /\ idx' = 1
      BY <1>5, <1>9, <2>2 DEF QuitAll, SendAll, monitorVars
    <3>2. StopsSent' = StopsSent
      BY <3>1 DEF StopsSent
    <3> QED BY <3>1, <3>2 DEF QuitInv, HasQuit, StopFirst
  <2> QED BY <1>5, <2>1, <2>2
<1> QED BY <1>2, <1>3, <1>4, <1>7, <1>8, <1>9 DEF MainStep

\* No monitor ever receives the Quit of a shutdown: the Stop before it, or the
\* flag, has ended the monitor or is in front of it.
THEOREM QuitNeverReceivedHolds == Spec => []QuitNeverReceived
<1>1. Init => QuitInv
  BY DEF Init, QuitInv, HasQuit
<1>2. TypeOK /\ QuitInv /\ [Next]_vars => QuitInv'
  <2> SUFFICES ASSUME TypeOK, QuitInv, [Next]_vars PROVE QuitInv'
    OBVIOUS
  <2>1. CASE \E s \in Services : ServiceStep(s)
    BY <2>1, MonitorQuit
  <2> QED BY <2>1, OtherQuit DEF ServiceStep, Next, Terminated
<1>3. TypeOK /\ QuitInv => QuitNeverReceived
  <2> SUFFICES ASSUME TypeOK, QuitInv, NEW s \in Services, pc[s] = "recv", ctl[s] # <<>>,
                      Head(ctl[s]) = "Quit"
               PROVE  FALSE
    BY DEF QuitNeverReceived
  <2>1. ctl[s] \in Seq(CtlMsg)
    BY DEF TypeOK
  <2>2. ctl[s][1] = "Quit" /\ 1 \in 1..Len(ctl[s])
    BY <2>1
  <2>3. HasQuit(s)
    BY <2>2 DEF HasQuit
  <2>4. StopFirst(s)
    BY <2>3, OrderAssumption DEF QuitInv, StopsSent
  <2> QED BY <2>1, <2>2, <2>4 DEF StopFirst
<1> QED BY <1>1, <1>2, <1>3, TypeCorrect, PTL DEF Spec

----------------------------------------------------------------------------
(* The supervisor implements ProcessContract.                               *)

\* What the mapped state of a service depends on.
LEMMA LifeIs ==
    ASSUME NEW s \in Services
    PROVE  /\ pc[s] = "done" => Life(s) = "retired"
           /\ pc[s] # "done" /\ Mine(s) = {} => Life(s) = "idle"
           /\ pc[s] # "done" /\ Mine(s) # {} /\ Mine(s) \cap alive[s] = {} => Life(s) = "exited"
           /\ pc[s] # "done" /\ Mine(s) \cap alive[s] # {} =>
                /\ Mine(s) \cap over # {} => Life(s) = "blind"
                /\ Mine(s) \cap over = {} /\ Mine(s) \cap killed # {} => Life(s) = "doomed"
                /\ Mine(s) \cap over = {} /\ Mine(s) \cap killed = {} => Life(s) = "up"
BY DEF Life

\* The same, after a step.
LEMMA LifeIsNext ==
    ASSUME NEW s \in Services
    PROVE  /\ pc'[s] = "done" => Life(s)' = "retired"
           /\ pc'[s] # "done" /\ Mine(s)' = {} => Life(s)' = "idle"
           /\ pc'[s] # "done" /\ Mine(s)' # {} /\ Mine(s)' \cap alive'[s] = {} => Life(s)' = "exited"
           /\ pc'[s] # "done" /\ Mine(s)' \cap alive'[s] # {} =>
                /\ Mine(s)' \cap over' # {} => Life(s)' = "blind"
                /\ Mine(s)' \cap over' = {} /\ Mine(s)' \cap killed' # {} => Life(s)' = "doomed"
                /\ Mine(s)' \cap over' = {} /\ Mine(s)' \cap killed' = {} => Life(s)' = "up"
BY DEF Life

\* A step that moves nothing and takes no order.
LEMMA ContractStutter ==
    ASSUME \A t \in Services : Life(t)' = Life(t), last' = last, lost' = lost
    PROVE  UNCHANGED Contract!vars
BY DEF Contract!vars

\* The moves of the contract.
Moves(s, from, to) ==
    /\ Life(s) = from /\ Life(s)' = to
    /\ \A t \in Services : t # s => Life(t)' = Life(t)
    /\ last' = last

\* Each is a step of the contract.
LEMMA ContractMove ==
    ASSUME NEW s \in Services,
           \/ /\ last[s] # "Stop" /\ lost' = lost
              /\ Moves(s, "idle", "up") \/ (lost # {} /\ Moves(s, "idle", "blind"))
           \/ Moves(s, "up", "doomed") /\ lost' = lost
           \/ lost' = lost /\ \E from \in {"up", "doomed", "blind"} : Moves(s, from, "exited")
           \/ Moves(s, "exited", "idle") /\ lost' = lost
           \/ Moves(s, "doomed", "idle") /\ lost' # {}
           \/ Moves(s, "blind", "idle") /\ lost' = lost
           \/ Moves(s, "idle", "retired") /\ lost' = lost
    PROVE  Contract!Next
<1>1. ASSUME NEW from, NEW to, Moves(s, from, to) PROVE Contract!Move(s, from, to)
  BY <1>1 DEF Moves, Contract!Move
<1>2. last[s] # "Stop" => [t \in Services |-> IF last[t] = "Stop" THEN "stop" ELSE "go"][s] = "go"
  OBVIOUS
<1>3. lost' = lost => (lost' # {}) = (lost # {})
  OBVIOUS
<1> QED BY <1>1, <1>2, <1>3 DEF Contract!Next, Contract!Spawn, Contract!Kill, Contract!Exit,
           Contract!Reap, Contract!GiveUp, Contract!Misread, Contract!Retire

\* A message is an order.
LEMMA ContractOrder ==
    ASSUME TypeOK, NEW s \in Services, NEW m \in CtlMsg, last' = [last EXCEPT ![s] = m],
           \A t \in Services : Life(t)' = Life(t), Life(s) # "retired", lost' = lost
    PROVE  Contract!Next
<1>1. \A t \in Services : last'[t] = IF t = s THEN m ELSE last[t]
  BY DEF TypeOK
<1>2. Contract!TakeOrder(s)
  BY <1>1 DEF Contract!TakeOrder
<1> QED BY <1>2 DEF Contract!Next

\* What a step of the monitor does to its own process.
OwnStep(s) ==
    \/ Life(s)' = Life(s) /\ last' = last /\ lost' = lost
    \/ /\ Life(s)' = Life(s) /\ Life(s) # "retired" /\ lost' = lost
       /\ \E m \in CtlMsg : last' = [last EXCEPT ![s] = m]
    \/ /\ Life(s) = "idle" /\ last' = last /\ last[s] # "Stop" /\ lost' = lost
       /\ Life(s)' = "up" \/ (lost # {} /\ Life(s)' = "blind")
    \/ Life(s) = "up" /\ Life(s)' = "doomed" /\ last' = last /\ lost' = lost
    \/ Life(s) \in {"exited", "blind"} /\ Life(s)' = "idle" /\ last' = last /\ lost' = lost
    \/ Life(s) = "doomed" /\ Life(s)' = "idle" /\ last' = last /\ lost' # {}
    \/ Life(s) = "idle" /\ Life(s)' = "retired" /\ last' = last /\ lost' = lost

\* Nothing happens to the process.
LEMMA SameLife ==
    ASSUME NEW s \in Services, UNCHANGED procVars, Mine(s)' = Mine(s), pc[s] # "done", pc'[s] # "done"
    PROVE  Life(s)' = Life(s) /\ Life(s) # "retired" /\ lost' = lost
<1>1. Life(s) # "retired"
  BY LifeIs
<1>2. Life(s)' = Life(s)
  BY DEF Life, procVars
<1> QED BY <1>1, <1>2 DEF procVars

\* A monitor answers for one process at a time.
LEMMA OneMine ==
    ASSUME Ownership, NEW s \in Services, NEW p \in Mine(s)
    PROVE  Mine(s) = {p}
<1>1. tracked[s] = NoPid \/ child[s] = NoPid
  BY DEF Ownership, OwnerPc, LoopPc, WaitPc
<1> QED BY <1>1 DEF Mine

\* The exit of the process is taken, or one that was left is taken for its own.
LEMMA ReapLife ==
    ASSUME TypeOK, Ownership, NEW s \in Services, NEW p \in Mine(s), Collect(p),
           Mine(s)' = Mine(s) \ {p}, pc[s] # "done", pc'[s] # "done"
    PROVE  Life(s) \in {"exited", "blind"} /\ Life(s)' = "idle" /\ lost' = lost
<1>1. p \in Pids /\ Mine(s) = {p}
  <2>1. p \in Pids
    BY DEF TypeOK, Mine
  <2> QED BY <2>1, OneMine
<1>2. p \in alive[s] => p \in over
  BY <1>1 DEF Ownership, ExitsAccounted, Collect
<1>3. Mine(s)' = {} /\ lost' = lost
  BY <1>1 DEF Collect
<1>4. Life(s)' = "idle"
  BY <1>3, LifeIsNext
<1>5. CASE p \in alive[s]
  BY <1>1, <1>2, <1>3, <1>4, <1>5, LifeIs
<1>6. CASE p \notin alive[s]
  BY <1>1, <1>3, <1>4, <1>6, LifeIs
<1> QED BY <1>5, <1>6

\* The wait for the killed process runs out.
LEMMA GiveUpLife ==
    ASSUME TypeOK, Ownership, NEW s \in Services, pc[s] \in {"reap", "dsReap"},
           child[s] \in Mine(s), exits[child[s]] = "none", lost' = lost \cup {child[s]},
           Mine(s)' = Mine(s) \ {child[s]}, pc'[s] # "done"
    PROVE  Life(s) = "doomed" /\ Life(s)' = "idle" /\ lost' # {}
<1>1. Mine(s) = {child[s]}
  BY OneMine
<1>2. child[s] \notin over
  BY DEF Ownership, Apart
<1>3. child[s] \in alive[s] /\ child[s] \in killed
  BY <1>2 DEF Ownership, ExitsAccounted, KilledFirst
<1>4. Mine(s)' = {} /\ lost' # {}
  BY <1>1
<1>5. /\ Mine(s) \cap alive[s] # {} /\ Mine(s) \cap over = {} /\ Mine(s) \cap killed # {}
  BY <1>1, <1>2, <1>3
<1> QED BY <1>4, <1>5, LifeIs, LifeIsNext

\* The process is sent SIGKILL.
LEMMA KillLife ==
    ASSUME TypeOK, Ownership, NEW s \in Services, Kill(s)
    PROVE  /\ Life(s)' = Life(s) \/ (Life(s) = "up" /\ Life(s)' = "doomed")
           /\ lost' = lost
<1>1. pc[s] # "done" /\ pc'[s] # "done" /\ UNCHANGED <<alive, over, lost>> /\ Mine(s)' = Mine(s)
  BY DEF TypeOK, Kill, Goto, Mine
<1>2. killed' = killed \cup ({child[s]} \cap alive[s])
  BY DEF Kill
<1>3. CASE Mine(s) \cap killed' = Mine(s) \cap killed
  BY <1>1, <1>3 DEF Life
<1>4. CASE Mine(s) \cap killed' # Mine(s) \cap killed
  <2>1. child[s] \in Mine(s) /\ child[s] \in alive[s] /\ child[s] \notin killed /\ child[s] \in killed'
    BY <1>2, <1>4
  <2>2. Mine(s) = {child[s]}
    BY <2>1, OneMine
  <2>3. CASE child[s] \in over
    <3>1. Mine(s) \cap over # {} /\ Mine(s) \cap alive[s] # {}
      BY <2>1, <2>3
    <3>2. Life(s) = "blind"
      BY <1>1, <3>1, LifeIs
    <3>3. Life(s)' = "blind"
      BY <1>1, <3>1, LifeIsNext
    <3> QED BY <1>1, <3>2, <3>3
  <2>4. CASE child[s] \notin over
    <3>1. /\ Mine(s) \cap over = {} /\ Mine(s) \cap alive[s] # {}
          /\ Mine(s) \cap killed = {} /\ Mine(s) \cap killed' # {}
      BY <2>1, <2>2, <2>4
    <3>2. Life(s) = "up"
      BY <1>1, <3>1, LifeIs
    <3>3. Life(s)' = "doomed"
      BY <1>1, <3>1, LifeIsNext
    <3> QED BY <1>1, <3>2, <3>3
  <2> QED BY <2>3, <2>4
<1> QED BY <1>1, <1>3, <1>4

\* A process ends: the one its monitor answers for, or one nobody knows of.
LEMMA ExitLife ==
    ASSUME TypeOK, Ownership, NEW s \in Services, NEW p \in Pids, NEW code \in Code,
           ProcExit(s, p, code)
    PROVE  /\ last' = last /\ lost' = lost
           /\ \A t \in Services : t # s => Life(t)' = Life(t)
           /\ \/ Life(s)' = Life(s)
              \/ Life(s) \in {"up", "doomed", "blind"} /\ Life(s)' = "exited"
<1>1. /\ \A t \in Services : Mine(t)' = Mine(t) /\ pc'[t] = pc[t]
      /\ last' = last /\ lost' = lost /\ p \in alive[s]
      /\ killed' = killed \ {p} /\ over' = over \ {p}
  BY DEF ProcExit, Mine, monitorVars
<1>2. alive'[s] = alive[s] \ {p} /\ \A t \in Services : t # s => alive'[t] = alive[t]
  BY DEF TypeOK, ProcExit
<1>3. \A t \in Services : t # s => p \notin Mine(t)
  BY <1>1 DEF Ownership, Apart
<1>4. ASSUME NEW t \in Services, p \notin Mine(t) PROVE Life(t)' = Life(t)
  <2>1. /\ Mine(t) \cap over' = Mine(t) \cap over /\ Mine(t) \cap killed' = Mine(t) \cap killed
        /\ Mine(t) \cap alive'[t] = Mine(t) \cap alive[t]
    BY <1>1, <1>2, <1>4
  <2> QED BY <1>1, <2>1 DEF Life
<1>5. CASE p \in Mine(s)
  <2>1. Mine(s) = {p} /\ pc[s] # "done"
    BY <1>5, OneMine DEF Ownership, OwnerPc, LoopPc, WaitPc, Mine
  <2>2. Mine(s) # {} /\ Mine(s) \cap alive[s] # {} /\ Mine(s) \cap alive'[s] = {}
    BY <1>1, <1>2, <2>1
  <2>3. Life(s) \in {"up", "doomed", "blind"}
    BY <2>1, <2>2, LifeIs
  <2>4. Life(s)' = "exited"
    BY <1>1, <2>1, <2>2, LifeIsNext
  <2> QED BY <1>1, <1>3, <1>4, <2>3, <2>4
<1> QED BY <1>1, <1>3, <1>4, <1>5

\* A process is spawned, on a pid whose exit was left or on another.
LEMMA SpawnLife ==
    ASSUME TypeOK, Ownership, NEW s \in Services, NEW p \in Pids, Spawn(s, p),
           pc[s] \in {"stopped", "dsMark"}, pc'[s] # "done", UNCHANGED tracked
    PROVE  /\ Life(s) = "idle" /\ lost' = lost
           /\ Life(s)' = "up" \/ (lost # {} /\ Life(s)' = "blind")
<1>1. Mine(s) = {} /\ Mine(s)' = {p}
  BY GainMine DEF Ownership
<1>2. p \in alive'[s] /\ lost' = lost /\ killed' = killed
  BY DEF TypeOK, Spawn
<1>3. \A t \in Services : p \notin alive[t] /\ p \notin Mine(t)
  BY DEF Spawn, FreePids
<1>4. p \notin killed
  BY <1>3 DEF Ownership, Apart
<1>5. p \in over' => lost # {}
  <2>1. p \in over' => exits[p] # "none" \/ p \in over
    BY DEF Spawn
  <2> QED BY <1>3, <2>1 DEF Ownership, ExitsAccounted
<1>6. Life(s) = "idle" /\ Mine(s)' \cap alive'[s] # {} /\ Mine(s)' \cap killed' = {}
  BY <1>1, <1>2, <1>4, LifeIs
<1>7. CASE p \in over'
  <2>1. Mine(s)' \cap over' # {}
    BY <1>1, <1>7
  <2> QED BY <1>2, <1>5, <1>6, <1>7, <2>1, LifeIsNext
<1>8. CASE p \notin over'
  <2>1. Mine(s)' \cap over' = {}
    BY <1>1, <1>8
  <2> QED BY <1>2, <1>6, <2>1, LifeIsNext
<1> QED BY <1>7, <1>8

\* monitor_loop takes orders and the exit of its process,
LEMMA LoopLife ==
    ASSUME TypeOK, Ownership, NEW s \in Services, StopAt(s), LoopStep(s)
    PROVE  OwnStep(s)
<1> USE DEF OwnStep
<1>1. CASE TopRecv(s)
  <2>1. UNCHANGED procVars /\ Mine(s)' = Mine(s) /\ last' = last
    BY <1>1 DEF TopRecv, Mine
  <2>2. pc[s] # "done" /\ pc'[s] # "done"
    BY <1>1 DEF TypeOK, TopRecv, Goto
  <2> QED BY <2>1, <2>2, SameLife
<1>2. CASE TopExit(s)
  <2>1. Mine(s)' = Mine(s)
    BY <1>2, BeginStopMine DEF TopExit, Ownership, LoopPc
  <2>2. UNCHANGED procVars /\ pc[s] # "done" /\ pc'[s] # "done"
    BY <1>2 DEF TypeOK, TopExit, BeginStop, Goto
  <2>3. last' = last
    BY <1>2 DEF TopExit
  <2> QED BY <2>1, <2>2, <2>3, SameLife
<1>3. CASE RecvStop(s)
  <2>1. Mine(s)' = Mine(s)
    BY <1>3, BeginStopMine DEF RecvStop, Ownership, LoopPc, Recv
  <2>2. UNCHANGED procVars /\ pc[s] # "done" /\ pc'[s] # "done"
    BY <1>3 DEF TypeOK, RecvStop, Recv, BeginStop, Goto
  <2>3. \E m \in CtlMsg : last' = [last EXCEPT ![s] = m]
    BY <1>3 DEF RecvStop, Recv
  <2> QED BY <2>1, <2>2, <2>3, SameLife
<1>4. CASE RecvRestart(s)
  <2>1. Mine(s)' = Mine(s)
    BY <1>4, BeginStopMine DEF RecvRestart, Ownership, LoopPc, Recv
  <2>2. UNCHANGED procVars /\ pc[s] # "done" /\ pc'[s] # "done"
    BY <1>4 DEF TypeOK, RecvRestart, Recv, BeginStop, Goto
  <2>3. \E m \in CtlMsg : last' = [last EXCEPT ![s] = m]
    BY <1>4 DEF RecvRestart, Recv
  <2> QED BY <2>1, <2>2, <2>3, SameLife
<1>5. CASE RecvStartIgnored(s)
  <2>1. UNCHANGED procVars /\ Mine(s)' = Mine(s)
    BY <1>5 DEF RecvStartIgnored, Mine
  <2>2. pc[s] # "done" /\ pc'[s] # "done" /\ \E m \in CtlMsg : last' = [last EXCEPT
     ![s] = m]
    BY <1>5 DEF TypeOK, RecvStartIgnored, Recv, Goto
  <2> QED BY <2>1, <2>2, SameLife
<1>6. CASE RecvStart(s)
  <2>1. UNCHANGED procVars /\ Mine(s)' = Mine(s)
    BY <1>6 DEF RecvStart, Mine
  <2>2. pc[s] # "done" /\ pc'[s] # "done" /\ \E m \in CtlMsg : last' = [last EXCEPT
     ![s] = m]
    BY <1>6 DEF TypeOK, RecvStart, Recv, BeginStart, Goto
  <2> QED BY <2>1, <2>2, SameLife
<1>7. CASE RecvTimeout(s)
  <2>1. UNCHANGED procVars /\ Mine(s)' = Mine(s) /\ last' = last
    BY <1>7 DEF RecvTimeout, Mine
  <2>2. pc[s] # "done" /\ pc'[s] # "done"
    BY <1>7 DEF TypeOK, RecvTimeout, Goto
  <2> QED BY <2>1, <2>2, SameLife
<1>8. CASE PollExit(s)
  <2>1. Collect(tracked[s]) /\ last' = last /\ pc[s] # "done" /\ pc'[s] # "done"
    BY <1>8 DEF TypeOK, PollExit, Goto
  <2> QED BY <1>8, <2>1, PollMine, ReapLife DEF Ownership
<1>9. CASE PollRetry(s)
  <2>1. UNCHANGED procVars /\ Mine(s)' = Mine(s) /\ last' = last
    BY <1>9 DEF PollRetry, Mine
  <2>2. pc[s] # "done" /\ pc'[s] # "done"
    BY <1>9 DEF TypeOK, PollRetry, BeginStart, Goto
  <2> QED BY <2>1, <2>2, SameLife
<1>10. CASE PollIdle(s)
  <2>1. UNCHANGED procVars /\ Mine(s)' = Mine(s) /\ last' = last
    BY <1>10 DEF PollIdle, Mine
  <2>2. pc[s] # "done" /\ pc'[s] # "done"
    BY <1>10 DEF TypeOK, PollIdle, Goto
  <2> QED BY <2>1, <2>2, SameLife
<1>11. CASE Exited(s)
  <2>1. UNCHANGED procVars /\ Mine(s)' = Mine(s) /\ last' = last
    BY <1>11 DEF Exited, Mine
  <2>2. pc[s] # "done" /\ pc'[s] # "done"
    BY <1>11 DEF TypeOK, Exited, Goto
  <2> QED BY <2>1, <2>2, SameLife
<1>12. CASE MarkExit(s)
  <2>1. UNCHANGED procVars /\ Mine(s)' = Mine(s) /\ last' = last
    BY <1>12 DEF MarkExit, Mine
  <2>2. pc[s] # "done" /\ pc'[s] # "done"
    BY <1>12 DEF TypeOK, MarkExit, Goto, Return, ReturnPc
  <2> QED BY <2>1, <2>2, SameLife
<1>13. CASE BackoffDone(s)
  <2>1. UNCHANGED procVars /\ Mine(s)' = Mine(s) /\ last' = last
    BY <1>13 DEF BackoffDone, Mine
  <2>2. pc[s] # "done" /\ pc'[s] # "done"
    BY <1>13 DEF TypeOK, BackoffDone, Goto
  <2> QED BY <2>1, <2>2, SameLife
<1>14. CASE LiveState(s)
  <2>1. UNCHANGED procVars /\ Mine(s)' = Mine(s) /\ last' = last
    BY <1>14 DEF LiveState, Mine
  <2>2. pc[s] # "done" /\ pc'[s] # "done"
    BY <1>14 DEF TypeOK, LiveState, Goto
  <2> QED BY <2>1, <2>2, SameLife
<1>15. CASE LiveSkip(s)
  <2>1. UNCHANGED procVars /\ Mine(s)' = Mine(s) /\ last' = last
    BY <1>15 DEF LiveSkip, Mine
  <2>2. pc[s] # "done" /\ pc'[s] # "done"
    BY <1>15 DEF TypeOK, LiveSkip, Goto
  <2> QED BY <2>1, <2>2, SameLife
<1>16. CASE LiveNotDue(s)
  <2>1. UNCHANGED procVars /\ Mine(s)' = Mine(s) /\ last' = last
    BY <1>16 DEF LiveNotDue, Mine
  <2>2. pc[s] # "done" /\ pc'[s] # "done"
    BY <1>16 DEF TypeOK, LiveNotDue, Return, ReturnPc, Goto
  <2> QED BY <2>1, <2>2, SameLife
<1>17. CASE LiveDue(s)
  <2>1. UNCHANGED procVars /\ Mine(s)' = Mine(s) /\ last' = last
    BY <1>17 DEF LiveDue, Mine
  <2>2. pc[s] # "done" /\ pc'[s] # "done"
    BY <1>17 DEF TypeOK, LiveDue, Goto
  <2> QED BY <2>1, <2>2, SameLife
<1>18. CASE ProbeOk(s)
  <2>1. UNCHANGED procVars /\ Mine(s)' = Mine(s) /\ last' = last
    BY <1>18 DEF ProbeOk, Mine
  <2>2. pc[s] # "done" /\ pc'[s] # "done"
    BY <1>18 DEF TypeOK, ProbeOk, Return, ReturnPc, Goto
  <2> QED BY <2>1, <2>2, SameLife
<1>19. CASE ProbeFail(s)
  <2>1. UNCHANGED procVars /\ Mine(s)' = Mine(s) /\ last' = last
    BY <1>19 DEF ProbeFail, Mine
  <2>2. pc[s] # "done" /\ pc'[s] # "done"
    BY <1>19 DEF TypeOK, ProbeFail, Return, ReturnPc, Goto
  <2> QED BY <2>1, <2>2, SameLife
<1>20. CASE ProbeRestart(s)
  <2>1. Mine(s)' = Mine(s)
    BY <1>20, BeginStopMine DEF ProbeRestart, Ownership, LoopPc
  <2>2. UNCHANGED procVars /\ pc[s] # "done" /\ pc'[s] # "done"
    BY <1>20 DEF TypeOK, ProbeRestart, BeginStop, Goto
  <2>3. last' = last
    BY <1>20 DEF ProbeRestart
  <2> QED BY <2>1, <2>2, <2>3, SameLife
<1> QED BY <1>1, <1>2, <1>3, <1>4, <1>5, <1>6, <1>7, <1>8, <1>9, <1>10, <1>11,
   <1>12, <1>13, <1>14, <1>15, <1>16, <1>17, <1>18, <1>19, <1>20 DEF LoopStep

\* stop_tracked ends it, and may spawn a restart script if no Stop was taken,
LEMMA StopLife ==
    ASSUME TypeOK, Ownership, NEW s \in Services, StopAt(s), StopStep(s) \/ StopScriptDone(s)
    PROVE  OwnStep(s)
<1> USE DEF OwnStep
<1>1. CASE StopScriptDone(s)
  <2>1. UNCHANGED procVars /\ Mine(s)' = Mine(s) /\ last' = last
    BY <1>1 DEF StopScriptDone, Mine
  <2>2. pc[s] # "done" /\ pc'[s] # "done"
    BY <1>1 DEF TypeOK, StopScriptDone, Goto
  <2> QED BY <2>1, <2>2, SameLife
<1>2. CASE Kill(s)
  <2>1. Life(s)' = Life(s) \/ (Life(s) = "up" /\ Life(s)' = "doomed")
    BY <1>2, KillLife
  <2> QED BY <1>2, <2>1 DEF Kill
<1>3. CASE TermReaped(s)
  <2>1. CollectOrGiveUp(child[s]) /\ last' = last /\ pc[s] \in WaitPc /\ pc[s] # "done"
    BY <1>3 DEF TermReaped, WaitPc
  <2>2. pc'[s] # "done" /\ child' = [child EXCEPT ![s] = NoPid] /\ tracked' = tracked
    BY <1>3 DEF TypeOK, TermReaped, Goto
  <2>3. child[s] \in Mine(s) /\ Mine(s)' = Mine(s) \ {child[s]}
    BY <2>1, <2>2, DropMine DEF Ownership
  <2>4. CASE Collect(child[s])
    BY <2>1, <2>2, <2>3, <2>4, ReapLife
  <2>5. CASE exits[child[s]] = "none" /\ lost' = lost \cup {child[s]}
    BY <1>3, <2>1, <2>2, <2>3, <2>5, GiveUpLife DEF TermReaped
  <2> QED BY <2>1, <2>4, <2>5 DEF CollectOrGiveUp
<1>4. CASE AfterStop(s)
  <2>1. UNCHANGED procVars /\ Mine(s)' = Mine(s) /\ last' = last
    BY <1>4 DEF AfterStop, Mine
  <2>2. pc[s] # "done" /\ pc'[s] # "done"
    BY <1>4 DEF TypeOK, AfterStop, Goto
  <2> QED BY <2>1, <2>2, SameLife
<1>5. CASE MarkStop(s)
  <2>1. UNCHANGED procVars /\ Mine(s)' = Mine(s) /\ last' = last
    BY <1>5 DEF MarkStop, Mine
  <2>2. pc[s] # "done" /\ pc'[s] # "done"
    BY <1>5 DEF TypeOK, MarkStop, Return, ReturnPc, Goto
  <2> QED BY <2>1, <2>2, SameLife
<1>6. CASE AfterStopExit(s)
  <2>1. Mine(s) = {} /\ pc[s] # "done"
    BY <1>6 DEF AfterStopExit, Ownership, OwnerPc, LoopPc, WaitPc, Mine
  <2>2. pc'[s] = "done" /\ last' = last /\ lost' = lost
    BY <1>6 DEF TypeOK, AfterStopExit, Goto, procVars
  <2> QED BY <2>1, <2>2, LifeIs, LifeIsNext
<1>7. CASE AfterStopStart(s)
  <2>1. UNCHANGED procVars /\ Mine(s)' = Mine(s) /\ last' = last
    BY <1>7 DEF AfterStopStart, Mine
  <2>2. pc[s] # "done" /\ pc'[s] # "done"
    BY <1>7 DEF TypeOK, AfterStopStart, Goto
  <2> QED BY <2>1, <2>2, SameLife
<1>8. CASE AfterStopScript(s)
  <2>1. last' = last /\ pc[s] \in {"stopped", "dsMark"} /\ last[s] # "Stop" /\ tracked' = tracked
    BY <1>8 DEF AfterStopScript, StopAt
  <2>2. pc'[s] # "done" /\ \E p \in Pids : Spawn(s, p)
    BY <1>8 DEF TypeOK, AfterStopScript, Goto
  <2> QED BY <2>1, <2>2, SpawnLife
<1>9. CASE RestartScriptDone(s)
  <2>1. Collect(child[s]) /\ last' = last /\ pc[s] \in WaitPc /\ pc[s] # "done"
    BY <1>9 DEF RestartScriptDone, WaitPc
  <2>2. pc'[s] # "done" /\ child' = [child EXCEPT ![s] = NoPid] /\ tracked' = tracked
    BY <1>9 DEF TypeOK, RestartScriptDone, Return, ReturnPc, Goto
  <2> QED BY <2>1, <2>2, DropMine, ReapLife DEF Ownership
<1> QED BY <1>1, <1>2, <1>3, <1>4, <1>5, <1>6, <1>7, <1>8, <1>9 DEF StopStep

\* do_start spawns and reaps.
LEMMA StartLife ==
    ASSUME TypeOK, Ownership, NEW s \in Services, StopAt(s), StartStep(s)
    PROVE  OwnStep(s)
<1> USE DEF OwnStep
<1>1. CASE DsEnabled(s)
  <2>1. UNCHANGED procVars /\ Mine(s)' = Mine(s) /\ last' = last
    BY <1>1 DEF DsEnabled, Mine
  <2>2. pc[s] # "done" /\ pc'[s] # "done"
    BY <1>1 DEF TypeOK, DsEnabled, Goto
  <2> QED BY <2>1, <2>2, SameLife
<1>2. CASE DsDeps(s)
  <2>1. UNCHANGED procVars /\ Mine(s)' = Mine(s) /\ last' = last
    BY <1>2 DEF DsDeps, Mine
  <2>2. pc[s] # "done" /\ pc'[s] # "done"
    BY <1>2 DEF TypeOK, DsDeps, Goto
  <2> QED BY <2>1, <2>2, SameLife
<1>3. CASE DsMarkDisabled(s)
  <2>1. UNCHANGED procVars /\ Mine(s)' = Mine(s) /\ last' = last
    BY <1>3 DEF DsMarkDisabled, Mine
  <2>2. pc[s] # "done" /\ pc'[s] # "done"
    BY <1>3 DEF TypeOK, DsMarkDisabled, Goto
  <2> QED BY <2>1, <2>2, SameLife
<1>4. CASE DsMarkWaiting(s)
  <2>1. UNCHANGED procVars /\ Mine(s)' = Mine(s) /\ last' = last
    BY <1>4 DEF DsMarkWaiting, Mine
  <2>2. pc[s] # "done" /\ pc'[s] # "done"
    BY <1>4 DEF TypeOK, DsMarkWaiting, Return, ReturnPc, Goto
  <2> QED BY <2>1, <2>2, SameLife
<1>5. CASE DsSpawn(s)
  <2>1. last' = last /\ pc[s] \in {"stopped", "dsMark"} /\ last[s] # "Stop" /\ tracked' = tracked
    BY <1>5 DEF DsSpawn, StopAt
  <2>2. pc'[s] # "done" /\ \E p \in Pids : Spawn(s, p)
    BY <1>5 DEF TypeOK, DsSpawn, Goto
  <2> QED BY <2>1, <2>2, SpawnLife
<1>6. CASE DsSpawnFails(s)
  <2>1. UNCHANGED procVars /\ Mine(s)' = Mine(s) /\ last' = last
    BY <1>6 DEF DsSpawnFails, Mine
  <2>2. pc[s] # "done" /\ pc'[s] # "done"
    BY <1>6 DEF TypeOK, DsSpawnFails, Goto
  <2> QED BY <2>1, <2>2, SameLife
<1>7. CASE DsErr(s)
  <2>1. UNCHANGED procVars /\ Mine(s)' = Mine(s) /\ last' = last
    BY <1>7 DEF DsErr, Mine
  <2>2. pc[s] # "done" /\ pc'[s] # "done"
    BY <1>7 DEF TypeOK, DsErr, Return, ReturnPc, Goto
  <2> QED BY <2>1, <2>2, SameLife
<1>8. CASE DsEarlyExit(s)
  <2>1. Collect(child[s]) /\ last' = last /\ pc[s] \in WaitPc /\ pc[s] # "done"
    BY <1>8 DEF DsEarlyExit, WaitPc
  <2>2. pc'[s] # "done" /\ child' = [child EXCEPT ![s] = NoPid] /\ tracked' = tracked
    BY <1>8 DEF TypeOK, DsEarlyExit, Return, ReturnPc, Goto
  <2> QED BY <2>1, <2>2, DropMine, ReapLife DEF Ownership
<1>9. CASE DsStayedUp(s)
  <2>1. UNCHANGED procVars /\ last' = last /\ pc[s] # "done" /\ pc'[s] # "done"
    BY <1>9 DEF TypeOK, DsStayedUp, Return, ReturnPc, Goto
  <2> QED BY <1>9, <2>1, StayedMine, SameLife DEF Ownership
<1>10. CASE DsJobExit(s)
  <2>1. Collect(child[s]) /\ last' = last /\ pc[s] \in WaitPc /\ pc[s] # "done"
    BY <1>10 DEF DsJobExit, WaitPc
  <2>2. pc'[s] # "done" /\ child' = [child EXCEPT ![s] = NoPid] /\ tracked' = tracked
    BY <1>10 DEF TypeOK, DsJobExit, Return, ReturnPc, Goto
  <2> QED BY <2>1, <2>2, DropMine, ReapLife DEF Ownership
<1>11. CASE DsJobTimeout(s)
  <2>1. UNCHANGED procVars /\ Mine(s)' = Mine(s) /\ last' = last
    BY <1>11 DEF DsJobTimeout, Mine
  <2>2. pc[s] # "done" /\ pc'[s] # "done"
    BY <1>11 DEF TypeOK, DsJobTimeout, Goto
  <2> QED BY <2>1, <2>2, SameLife
<1>12. CASE DsJobKilled(s)
  <2>1. CollectOrGiveUp(child[s]) /\ last' = last /\ pc[s] \in WaitPc /\ pc[s] # "done"
    BY <1>12 DEF DsJobKilled, WaitPc
  <2>2. pc'[s] # "done" /\ child' = [child EXCEPT ![s] = NoPid] /\ tracked' = tracked
    BY <1>12 DEF TypeOK, DsJobKilled, Goto
  <2>3. child[s] \in Mine(s) /\ Mine(s)' = Mine(s) \ {child[s]}
    BY <2>1, <2>2, DropMine DEF Ownership
  <2>4. CASE Collect(child[s])
    BY <2>1, <2>2, <2>3, <2>4, ReapLife
  <2>5. CASE exits[child[s]] = "none" /\ lost' = lost \cup {child[s]}
    BY <1>12, <2>1, <2>2, <2>3, <2>5, GiveUpLife DEF DsJobKilled
  <2> QED BY <2>1, <2>4, <2>5 DEF CollectOrGiveUp
<1> QED BY <1>1, <1>2, <1>3, <1>4, <1>5, <1>6, <1>7, <1>8, <1>9, <1>10, <1>11, <1>12
   DEF StartStep

\* A service step does nothing to the processes of the other services: it kills
\* its own child, and the pid it is given is nobody's.
LEMMA OtherLife ==
    ASSUME TypeOK, Ownership, NEW s \in Services, ServiceStep(s), NEW t \in Services, t # s
    PROVE  Life(t)' = Life(t)
<1>1. Row(t)' = Row(t)
  BY LoopRows, StopRows, StartRows DEF ServiceStep, MonitorStep, OnlyRow
<1>2. Mine(t)' = Mine(t) /\ pc'[t] = pc[t] /\ alive'[t] = alive[t]
  BY <1>1 DEF Row, Mine
<1>3. killed' = killed \/ Kill(s)
  BY DEF ServiceStep, MonitorStep, LoopStep, StopStep, StartStep, TopRecv, TopExit, RecvStop,
     RecvRestart, RecvStartIgnored, RecvStart, RecvTimeout, PollExit, PollRetry, PollIdle, Exited,
     MarkExit, BackoffDone, LiveState, LiveSkip, LiveNotDue, LiveDue, ProbeOk, ProbeFail,
     ProbeRestart, StopScriptDone, TermReaped, AfterStop, MarkStop, AfterStopExit, AfterStopStart,
     AfterStopScript, RestartScriptDone, DsEnabled, DsDeps, DsMarkDisabled, DsMarkWaiting, DsSpawn,
     DsSpawnFails, DsErr, DsEarlyExit, DsStayedUp, DsJobExit, DsJobTimeout, DsJobKilled, procVars,
     Collect, CollectOrGiveUp, Spawn
<1>4. over' = over \/ \E p \in Pids : Spawn(s, p)
  BY DEF ServiceStep, MonitorStep, LoopStep, StopStep, StartStep, TopRecv, TopExit, RecvStop,
     RecvRestart, RecvStartIgnored, RecvStart, RecvTimeout, PollExit, PollRetry, PollIdle, Exited,
     MarkExit, BackoffDone, LiveState, LiveSkip, LiveNotDue, LiveDue, ProbeOk, ProbeFail,
     ProbeRestart, StopScriptDone, Kill, TermReaped, AfterStop, MarkStop, AfterStopExit,
     AfterStopStart, AfterStopScript, RestartScriptDone, DsEnabled, DsDeps, DsMarkDisabled,
     DsMarkWaiting, DsSpawn, DsSpawnFails, DsErr, DsEarlyExit, DsStayedUp, DsJobExit, DsJobTimeout,
     DsJobKilled, procVars, Collect, CollectOrGiveUp
<1>5. Mine(t) \cap killed' = Mine(t) \cap killed
  <2>1. CASE Kill(s)
    <3>1. child[s] \notin alive[s] \/ child[s] \notin Mine(t)
      BY DEF Ownership, Apart
    <3> QED BY <2>1, <3>1 DEF Kill
  <2> QED BY <1>3, <2>1
<1>6. Mine(t) \cap over' = Mine(t) \cap over
  <2>1. ASSUME NEW p \in Pids, Spawn(s, p) PROVE Mine(t) \cap over' = Mine(t) \cap over
    <3>1. p \notin Mine(t)
      BY <2>1 DEF Spawn, FreePids
    <3> QED BY <2>1, <3>1 DEF Spawn
  <2> QED BY <1>4, <2>1
<1> QED BY <1>2, <1>5, <1>6 DEF Life

\* Every step of the supervisor is a step of the contract or changes nothing
\* of it.
LEMMA ContractStep ==
    ASSUME TypeOK, Ownership, \A s \in Services : StopAt(s), [Next]_vars
    PROVE  [Contract!Next]_(Contract!vars)
<1>1. ASSUME NEW s \in Services, ServiceStep(s) PROVE [Contract!Next]_(Contract!vars)
  <2>2. \A t \in Services : t # s => Life(t)' = Life(t)
    BY <1>1, OtherLife
  <2>3. OwnStep(s)
    BY <1>1, LoopLife, StopLife, StartLife DEF ServiceStep, MonitorStep
  <2>4. CASE Life(s)' = Life(s) /\ last' = last /\ lost' = lost
    BY <2>2, <2>4, ContractStutter
  <2>5. CASE /\ Life(s)' = Life(s) /\ Life(s) # "retired" /\ lost' = lost
             /\ \E m \in CtlMsg : last' = [last EXCEPT ![s] = m]
    BY <2>2, <2>5, ContractOrder
  <2>6. CASE Life(s)' # Life(s)
    BY <2>2, <2>3, <2>6, ContractMove DEF OwnStep, Moves
  <2> QED BY <2>3, <2>4, <2>5, <2>6 DEF OwnStep
<1>2. ASSUME NEW s \in Services, NEW p \in Pids, NEW code \in Code, ProcExit(s, p, code)
      PROVE  [Contract!Next]_(Contract!vars)
  <2>1. /\ last' = last /\ lost' = lost
        /\ \A t \in Services : t # s => Life(t)' = Life(t)
        /\ \/ Life(s)' = Life(s)
           \/ Life(s) \in {"up", "doomed", "blind"} /\ Life(s)' = "exited"
    BY <1>2, ExitLife
  <2>2. CASE Life(s)' = Life(s)
    BY <2>1, <2>2, ContractStutter
  <2>3. CASE Life(s)' # Life(s)
    BY <2>1, <2>3, ContractMove DEF Moves
  <2> QED BY <2>2, <2>3
<1>3. CASE (\E c \in Clients : ClientStep(c)) \/ MainStep \/ UNCHANGED vars
  <2>1. UNCHANGED <<monitorVars, procVars>>
    BY <1>3 DEF ClientStep, ReqStart, ReqStop, ReqDisable, ReqEnable, ClientSetState, ClientSend,
       MainStep, Boot, StopAll, QuitAll, SendAll, BeginShutdown, vars
  <2>2. last' = last /\ lost' = lost /\ \A t \in Services : Life(t)' = Life(t)
    BY <2>1 DEF monitorVars, procVars, Life, Mine
  <2> QED BY <2>2, ContractStutter
<1> QED BY <1>1, <1>2, <1>3 DEF ServiceStep, Next, Terminated

\* The supervisor keeps the contract of its processes: it answers for one at a
\* time, each reaped before the next or given up after SIGKILL, none between a
\* Stop and the next order, none by a monitor that ended.
THEOREM KeepsContractHolds == Spec => KeepsContract
<1> DEFINE Inv == \A s \in Services : StopAt(s)
<1>1. Init => Inv
  BY DEF Init, StopAt
<1>2. TypeOK /\ Ownership /\ Inv /\ [Next]_vars => Inv'
  BY StopAtStep DEF Ownership
<1>3. Init => Contract!Init
  <2> SUFFICES ASSUME Init PROVE Contract!Init
    OBVIOUS
  <2>1. \A s \in Services : Mine(s) = {} /\ pc[s] = "top" /\ last[s] = "none"
    BY DEF Init, Mine
  <2>2. \A s \in Services : Life(s) = "idle"
    BY <2>1, LifeIs
  <2> QED BY <2>1, <2>2 DEF Init, Contract!Init
<1>4. TypeOK /\ Ownership /\ Inv /\ [Next]_vars => [Contract!Next]_(Contract!vars)
  BY ContractStep
<1> QED BY <1>1, <1>2, <1>3, <1>4, TypeCorrect, OwnershipHolds, PTL
        DEF Spec, KeepsContract, Contract!Spec

===============================================================================
