-------------------------- MODULE InitSequenceProofs --------------------------
(****************************************************************************)
(* Proofs that the main thread takes the machine down the way Teardown      *)
(* says, that the lines of early boot reach their file (LogsKept), and that *)
(* they are the longest end of the script's output that the limits allow    *)
(* (CaptureLongest), for every way of starting microinit and any number of  *)
(* faults, signals, requests, edits and bytes of output.                    *)
(****************************************************************************)
EXTENDS InitSequence, FiniteSetTheorems, SequenceTheorems, WellFoundedInduction, TLAPS

----------------------------------------------------------------------------
(* The inductive invariant.                                                 *)

\* Until the loop takes a mode there is none, and the flag is what was asked
\* for last.
FlagLatest ==
    /\ mode = None \/ pc \in {"stopped", "unmount", "finalize"} \cup Down
    /\ mode = None /\ flag # None => latest = flag

\* What is true once the loop has taken a mode, step by step.
Descent ==
    /\ pc \in {"stopped", "unmount", "finalize", "down"} => mode # None /\ mode = latest /\ told
    /\ pc \in {"unmount", "finalize", "down"} => ~socket /\ opts.machine
    /\ pc \in {"finalize", "down"} => unmount \in {"ended", "failed"}

\* The ends that depend on how microinit was started.
Scope ==
    /\ opts.pid1 /\ opts.machine =>
          pc # "exit0" /\ (pc = "exit1" => cause = "reboot" /\ told /\ unmount \in {"ended", "failed"})
    /\ ~opts.machine => getty = "none" /\ unmount = "none"

WayInv == FlagLatest /\ Descent /\ Scope

\* A step of early boot, its script or its reader keeps the invariant.
LEMMA EarlyStep ==
    ASSUME WayInv, EarlyMain \/ Script \/ Reader, UNCHANGED initVars
    PROVE  WayInv'
BY DEF WayInv, FlagLatest, Descent, Scope, Down, initVars, startVars, flagVars, editVars, endVars

----------------------------------------------------------------------------
(* init::run up to the loop.                                                *)

\* Each step until the loop either goes on or ends the boot with Fatal, which
\* is no exit for process 1 of an init build.
LEMMA BootStep ==
    ASSUME WayInv,
           \/ InstallHandlers \/ RunEarlyBoot \/ SkipEarlyBoot \/ AfterEarlyBoot \/ LoadConfig
           \/ FlushLogs \/ Serve \/ Watch \/ Boot \/ EndBoot
    PROVE  WayInv'
<1> USE DEF WayInv, FlagLatest, Descent, Scope, Down, captured, earlyVars, startVars, flagVars, editVars, endVars
<1>1. CASE InstallHandlers
  BY <1>1 DEF InstallHandlers
<1>2. CASE RunEarlyBoot
  BY <1>2, EarlyStep DEF RunEarlyBoot
<1>3. CASE SkipEarlyBoot
  BY <1>3 DEF SkipEarlyBoot
<1>4. CASE AfterEarlyBoot
  BY <1>4 DEF AfterEarlyBoot, Fatal
<1>5. CASE LoadConfig
  BY <1>5 DEF LoadConfig, Fatal
<1>6. CASE FlushLogs
  BY <1>6 DEF FlushLogs
<1>7. CASE Serve
  BY <1>7 DEF Serve, Fatal
<1>8. CASE Watch
  BY <1>8 DEF Watch
<1>9. CASE Boot
  BY <1>9 DEF Boot, Fatal
<1>10. CASE EndBoot
  BY <1>10 DEF EndBoot
<1> QED BY <1>1, <1>2, <1>3, <1>4, <1>5, <1>6, <1>7, <1>8, <1>9, <1>10

----------------------------------------------------------------------------
(* The loop and the way down.                                               *)

\* The loop takes the mode in the flag, which is the latest; each step down adds
\* what the next ones rely on.
LEMMA DownStep ==
    ASSUME WayInv,
           \/ Drain \/ TakeShutdown \/ LeaveServices \/ RunUnmount \/ UnmountDone \/ Finalize
           \/ UnmountExit \/ GettyRespawn
    PROVE  WayInv'
<1> USE DEF WayInv, FlagLatest, Descent, Scope, Down, captured, earlyVars, startVars, flagVars, editVars, endVars
<1>1. CASE Drain
  BY <1>1 DEF Drain
<1>2. CASE TakeShutdown
  BY <1>2 DEF TakeShutdown
<1>3. CASE LeaveServices
  BY <1>3 DEF LeaveServices
<1>4. CASE RunUnmount
  BY <1>4 DEF RunUnmount
<1>5. CASE UnmountDone
  BY <1>5 DEF UnmountDone
<1>6. CASE Finalize
  BY <1>6 DEF Finalize
<1>7. CASE UnmountExit
  BY <1>7 DEF UnmountExit
<1>8. CASE GettyRespawn
  BY <1>8 DEF GettyRespawn
<1> QED BY <1>1, <1>2, <1>3, <1>4, <1>5, <1>6, <1>7, <1>8

----------------------------------------------------------------------------
(* Signals, clients, edits.                                                 *)

\* A request stores its mode in the flag and is the latest, or comes too late
\* for both; a signal without a handler ends no process 1.
LEMMA RequestStep ==
    ASSUME WayInv,
           \/ \E s \in DOMAIN Handler : Signal(s)
           \/ \E m \in Modes : AnswerShutdown(m)
           \/ StoreShutdown \/ Edit
    PROVE  WayInv'
<1> USE DEF WayInv, FlagLatest, Descent, Scope, Down, captured, earlyVars, startVars, flagVars, editVars, endVars
<1>1. ASSUME NEW s \in DOMAIN Handler, Signal(s) PROVE WayInv'
  BY <1>1 DEF Signal, Note
<1>2. ASSUME NEW m \in Modes, AnswerShutdown(m) PROVE WayInv'
  BY <1>2 DEF AnswerShutdown
<1>3. CASE StoreShutdown
  BY <1>3 DEF StoreShutdown, Note
<1>4. CASE Edit
  BY <1>4 DEF Edit
<1> QED BY <1>1, <1>2, <1>3, <1>4

----------------------------------------------------------------------------
\* The invariant is kept by every step.
LEMMA WayInductive ==
    ASSUME WayInv, [Next]_vars
    PROVE  WayInv'
<1>1. CASE Main
  BY <1>1, BootStep, DownStep DEF Main
<1>2. CASE ScriptStep \/ ReaderStep
  BY <1>2, EarlyStep DEF ScriptStep, ReaderStep
<1>3. CASE UnmountExit \/ GettyRespawn
  BY <1>3, DownStep
<1>4. CASE \/ \E s \in DOMAIN Handler : Signal(s)
           \/ \E m \in Modes : AnswerShutdown(m)
           \/ StoreShutdown \/ Edit
  BY <1>4, RequestStep
<1>5. CASE UNCHANGED vars
  BY <1>5 DEF WayInv, FlagLatest, Descent, Scope, Down, vars, initVars, earlyVars, startVars, flagVars, editVars, endVars
<1> QED BY <1>1, <1>2, <1>3, <1>4, <1>5 DEF Next, Over

\* The machine goes down in the mode asked for last, with its services told to
\* stop, its socket gone and its unmount script ended or never started; process 1
\* of an init build exits only when reboot(2) itself returned; supervise never
\* touches the machine (init::run, run_as_pid1, finalize).
THEOREM TeardownHolds == Spec => []Teardown
<1>1. Init => WayInv
  BY DEF Init, EarlyInit, WayInv, FlagLatest, Descent, Scope, Down, None
<1>2. WayInv /\ [Next]_vars => WayInv'
  BY WayInductive
<1>3. WayInv => Teardown
  BY DEF WayInv, Descent, Scope, Teardown
<1> QED BY <1>1, <1>2, <1>3, PTL DEF Spec

----------------------------------------------------------------------------
(* Where the captured lines of early boot end up.                           *)

\* The steps of a boot that has its configuration and has written its lines.
Settled == {"serve", "watch", "boot", "started"} \cup Booted

\* Nothing is written until the configuration was read or the boot has failed,
\* and what ended the process early is noted once, at its end.
LogInv ==
    /\ disk \in Disks
    /\ pc \in {"handlers", "early", "load", "flush"} => log = None
    /\ cause # None => pc \in Down
    /\ LogsKept

\* The lines are at the first place that asks for them.
FirstPlace(l) ==
    /\ l = None <=> \A i \in DOMAIN Places : ~Asks(Places[i])
    /\ \A i \in DOMAIN Places :
          l = Places[i] => Asks(l) /\ \A j \in 1..(i - 1) : ~Asks(Places[j])

\* The three places and when each asks.
LEMMA PlacesFacts ==
    /\ DOMAIN Places = 1..3
    /\ Places[1] = "cli" /\ Places[2] = "live" /\ Places[3] = "image"
    /\ Asks("cli") = opts.cli
    /\ Asks("live") = (disk.live = "enabled")
    /\ Asks("image") = (disk.image = "enabled" /\ disk.live = "absent")
BY DEF Places, Asks

\* A boot that fails writes the lines it captured to the first place that asks
\* for them, or fails to; it writes nothing only when none does
\* (persist_early_boot_logs, fatal_early_boot_logs_path).
LEMMA PersistKeeps ==
    ASSUME disk' \in Disks, opts' = opts, log = None, out.captured, Persist(LogsPath(disk'))
    PROVE  FirstPlace(log)'
<1> DEFINE d == disk'
<1>1. log' \in {LogsPath(d), "failed"} /\ (LogsPath(d) = None => log' = None)
      /\ (LogsPath(d) # None => log' # None)
  BY DEF Persist, WriteTo, None
<1>2. /\ d.live \in {"absent", "disabled", "enabled"} /\ d.image \in {"absent", "enabled"}
      /\ Asks("cli")' = opts.cli
      /\ Asks("live")' = (d.live = "enabled")
      /\ Asks("image")' = (d.image = "enabled" /\ d.live = "absent")
  BY DEF Disks, Asks
<1>3. /\ opts.cli => LogsPath(d) = "cli"
      /\ ~opts.cli /\ d.live = "enabled" => LogsPath(d) = "live"
      /\ ~opts.cli /\ d.live = "absent" /\ d.image = "enabled" => LogsPath(d) = "image"
      /\ ~opts.cli /\ d.live # "enabled" /\ ~(d.live = "absent" /\ d.image = "enabled") => LogsPath(d) = None
  BY DEF LogsPath
<1>4. (\A i \in DOMAIN Places : ~Asks(Places[i]))' <=> ~Asks("cli")' /\ ~Asks("live")' /\ ~Asks("image")'
  BY PlacesFacts DEF Places
<1>5. log' = None <=> ~Asks("cli")' /\ ~Asks("live")' /\ ~Asks("image")'
  BY <1>1, <1>2, <1>3 DEF None
<1>6. ASSUME NEW i \in 1..3, log' = Places[i]
      PROVE  Asks(log)' /\ \A j \in 1..(i - 1) : ~Asks(Places[j])'
  <2>1. CASE i = 1
    BY <1>1, <1>2, <1>3, <1>6, <2>1, PlacesFacts DEF None
  <2>2. CASE i = 2
    <3>1. log' = "live" /\ LogsPath(d) = "live"
      BY <1>1, <1>6, <2>2, PlacesFacts
    <3>2. Asks(log)' /\ ~Asks("cli")'
      BY <1>2, <1>3, <3>1 DEF None, Asks
    <3>3. \A j \in 1..(i - 1) : j = 1
      BY <2>2
    <3> QED BY <3>2, <3>3, PlacesFacts DEF Places
  <2>3. CASE i = 3
    <3>1. log' = "image" /\ LogsPath(d) = "image"
      BY <1>1, <1>6, <2>3, PlacesFacts
    <3>2. Asks(log)' /\ ~Asks("cli")' /\ ~Asks("live")'
      BY <1>2, <1>3, <3>1 DEF None, Asks
    <3>3. \A j \in 1..(i - 1) : j = 1 \/ j = 2
      BY <2>3
    <3> QED BY <3>2, <3>3, PlacesFacts DEF Places
  <2> QED BY <2>1, <2>2, <2>3
<1> QED BY <1>4, <1>5, <1>6, PlacesFacts DEF FirstPlace, Places

\* The steps of the boot that decide about the lines.
LEMMA BootLogs ==
    ASSUME LogInv,
           \/ InstallHandlers \/ RunEarlyBoot \/ SkipEarlyBoot \/ AfterEarlyBoot \/ LoadConfig \/ FlushLogs
    PROVE  LogInv'
<1> USE DEF LogInv, LogsKept, Settled, Booted, Down, captured, startVars, flagVars, editVars, endVars, initVars
<1>0. pc \in {"handlers", "early", "load", "flush"} => cause = None
  BY DEF None
<1>1. CASE InstallHandlers
  BY <1>0, <1>1 DEF InstallHandlers, None
<1>2. CASE RunEarlyBoot
  BY <1>0, <1>2 DEF RunEarlyBoot, None
<1>3. CASE SkipEarlyBoot
  BY <1>0, <1>3 DEF SkipEarlyBoot, earlyVars, None
<1>4. CASE AfterEarlyBoot
  <2>1. CASE pc' = "load"
    BY <1>0, <1>4, <2>1 DEF AfterEarlyBoot, Fatal, None
  <2>2. CASE pc' = Fatal /\ cause' = "script" /\ Persist(LogsPath(disk'))
    <3>1. /\ disk' \in Disks /\ log = None /\ UNCHANGED <<out, opts>>
          /\ pc' \in {"idle", "exit1"}
      BY <1>4, <2>2 DEF AfterEarlyBoot, Fatal
    <3>2. out.captured => FirstPlace(log)'
      BY <2>2, <3>1, PersistKeeps
    <3> QED BY <2>2, <3>1, <3>2 DEF FirstPlace
  <2> QED BY <1>4, <2>1, <2>2 DEF AfterEarlyBoot
<1>5. CASE LoadConfig
  <2>1. CASE pc' = "flush"
    <3>1. disk' \in Disks /\ UNCHANGED <<log, cause>>
      BY <1>5, <2>1 DEF LoadConfig, Disks, Fatal
    <3> QED BY <1>0, <1>5, <2>1, <3>1 DEF LoadConfig, None
  <2>2. CASE pc' = Fatal /\ disk' = disk /\ cause' = "config"
    <3>1. log = None /\ UNCHANGED <<out, opts, disk>> /\ pc' \in {"idle", "exit1"} /\ disk' \in Disks
      BY <1>5, <2>2 DEF LoadConfig, Fatal
    <3>2. out.captured /\ ~opts.skip => FirstPlace(log)'
      <4> SUFFICES ASSUME out.captured, ~opts.skip PROVE FirstPlace(log)'
        OBVIOUS
      <4>1. Persist(LogsPath(disk'))
        BY <1>5, <3>1 DEF LoadConfig
      <4> QED BY <3>1, <4>1, PersistKeeps
    <3> QED BY <2>2, <3>1, <3>2 DEF FirstPlace
  <2> QED BY <1>5, <2>1, <2>2 DEF LoadConfig
<1>6. CASE FlushLogs
  <2>1. log' \in IF disk.live = "enabled" /\ ~opts.skip /\ out.captured THEN {"live", "failed"} ELSE {None}
    BY <1>6 DEF FlushLogs, WriteTo
  <2> QED BY <1>0, <1>6, <2>1 DEF FlushLogs, None
<1> QED BY <1>1, <1>2, <1>3, <1>4, <1>5, <1>6

\* After the flush no step writes lines or changes what asks for them.
LEMMA LaterLogs ==
    ASSUME LogInv,
           \/ Serve \/ Watch \/ Boot \/ EndBoot \/ Drain \/ TakeShutdown \/ LeaveServices
           \/ RunUnmount \/ UnmountDone \/ Finalize \/ UnmountExit \/ GettyRespawn
    PROVE  LogInv'
<1> USE DEF LogInv, LogsKept, Settled, Booted, Down, captured, earlyVars, startVars, flagVars, editVars, endVars
<1>1. CASE Serve
  BY <1>1 DEF Serve, Fatal, Asks, None
<1>2. CASE Watch
  BY <1>2 DEF Watch, Asks, None
<1>3. CASE Boot
  BY <1>3 DEF Boot, Fatal, Asks, None
<1>4. CASE EndBoot
  BY <1>4 DEF EndBoot, Asks, None
<1>5. CASE Drain
  BY <1>5 DEF Drain, Asks, None
<1>6. CASE TakeShutdown
  BY <1>6 DEF TakeShutdown, Asks, None
<1>7. CASE LeaveServices
  BY <1>7 DEF LeaveServices, Asks, None
<1>8. CASE RunUnmount
  BY <1>8 DEF RunUnmount, Asks, None
<1>9. CASE UnmountDone
  BY <1>9 DEF UnmountDone, Asks, None
<1>10. CASE Finalize
  BY <1>10 DEF Finalize, Asks, None
<1>11. CASE UnmountExit
  BY <1>11 DEF UnmountExit, Asks, None
<1>12. CASE GettyRespawn
  BY <1>12 DEF GettyRespawn, Asks, None
<1> QED BY <1>1, <1>2, <1>3, <1>4, <1>5, <1>6, <1>7, <1>8, <1>9, <1>10, <1>11, <1>12

\* Early boot's script and reader, signals, clients and edits write no lines; a
\* signal kills only where its handler could not be installed.
LEMMA OtherLogs ==
    ASSUME LogInv,
           \/ ScriptStep \/ ReaderStep \/ StoreShutdown \/ Edit \/ UNCHANGED vars
           \/ \E s \in DOMAIN Handler : Signal(s)
           \/ \E m \in Modes : AnswerShutdown(m)
    PROVE  LogInv'
<1> USE DEF LogInv, LogsKept, Settled, Booted, Down, Asks, None, earlyVars, initVars, startVars, flagVars, editVars, endVars
<1>1. CASE ScriptStep
  <2>1. out' = out
    BY <1>1 DEF ScriptStep, Script, Emit, ScriptExit, HolderExit
  <2> QED BY <1>1, <2>1 DEF ScriptStep
<1>2. CASE ReaderStep
  <2>1. out' = out
    BY <1>2 DEF ReaderStep, Reader, ReadByte, ReadEnd, ReadFails, LastLine
  <2> QED BY <1>2, <2>1 DEF ReaderStep
<1>3. CASE StoreShutdown
  BY <1>3 DEF StoreShutdown
<1>4. CASE Edit
  BY <1>4 DEF Edit
<1>5. CASE UNCHANGED vars
  BY <1>5 DEF vars
<1>6. ASSUME NEW s \in DOMAIN Handler, Signal(s) PROVE LogInv'
  <2>1. UNCHANGED <<out, opts, disk, log>>
    BY <1>6 DEF Signal
  <2>2. CASE UNCHANGED <<pc, cause>>
    BY <2>1, <2>2
  <2>3. CASE pc' = "exit1" /\ cause' = "signal"
    BY <2>1, <2>3
  <2> QED BY <1>6, <2>2, <2>3 DEF Signal
<1>7. ASSUME NEW m \in Modes, AnswerShutdown(m) PROVE LogInv'
  BY <1>7 DEF AnswerShutdown
<1> QED BY <1>1, <1>2, <1>3, <1>4, <1>5, <1>6, <1>7

\* The lines early boot captured are, unless their write failed, in the file of
\* the configuration that was read, and after a boot that failed at the first of
\* command line, live configuration and configuration of the image that asks
\* (flush_early_boot_logs, persist_early_boot_logs).
THEOREM LogsKeptHolds == Spec => []LogsKept
<1>1. Init => LogInv
  BY DEF Init, EarlyInit, Nothing, LogInv, LogsKept, Settled, Booted, Disks, Asks, None
<1>2. LogInv /\ [Next]_vars => LogInv'
  <2> SUFFICES ASSUME LogInv, [Next]_vars PROVE LogInv'
    OBVIOUS
  <2>2. CASE Main
    BY <2>2, BootLogs, LaterLogs DEF Main
  <2>3. CASE UnmountExit \/ GettyRespawn
    BY <2>3, LaterLogs
  <2>4. CASE \/ ScriptStep \/ ReaderStep \/ StoreShutdown \/ Edit \/ UNCHANGED vars
             \/ \E s \in DOMAIN Handler : Signal(s)
             \/ \E m \in Modes : AnswerShutdown(m)
    BY <2>4, OtherLogs
  <2> QED BY <2>2, <2>3, <2>4 DEF Next, Over
<1>3. LogInv => LogsKept
  BY DEF LogInv
<1> QED BY <1>1, <1>2, <1>3, PTL DEF Spec

----------------------------------------------------------------------------
(* Recursion over a sequence: what has been made of the elements so far and *)
(* the next one give what is made of both.                                  *)

\* A set of natural numbers has a least one.
LEMMA LeastNumber ==
    ASSUME NEW T, T \subseteq Nat, T # {}
    PROVE  \E x \in T : \A y \in T : x <= y
<1> DEFINE R == OpToRel(<, Nat)
<1>1. IsWellFoundedOn(R, Nat)
  BY NatLessThanWellFounded
<1>2. \A x, y \in Nat : y < x => <<y, x>> \in R
  BY DEF OpToRel
<1>3. \E x \in T : \A y \in T : ~(<<y, x>> \in R)
  <2> HIDE DEF R
  <2> QED BY <1>1, WFMin
<1>4. PICK x \in T : \A y \in T : ~(<<y, x>> \in R)
  BY <1>3
<1>5. \A y \in T : ~(y < x)
  BY <1>2, <1>4, Zenon
<1> QED BY <1>5

\* g begins with base and goes on through s by step.
Walk(V, s, base, step, g) ==
    /\ g \in [0..Len(s) -> V]
    /\ g[0] = base
    /\ \A i \in 1..Len(s) : g[i] = step[g[i - 1]][s[i]]

\* f does so as long as it stays in V.
Follows(V, s, base, step, f) ==
    /\ f[0] = base
    /\ \A i \in 1..Len(s) : f[i - 1] \in V => f[i] = step[f[i - 1]][s[i]]

\* There is a walk.
LEMMA WalkExists ==
    ASSUME NEW V, NEW A, NEW s \in Seq(A), NEW base \in V, NEW step \in [V -> [A -> V]]
    PROVE  \E g : Walk(V, s, base, step, g)
<1> DEFINE n == Len(s)
           Works(k, g) == g \in [0..k -> V] /\ g[0] = base /\ \A i \in 1..k : g[i] = step[g[i - 1]][s[i]]
           T == {k \in 0..n : ~\E g : Works(k, g)}
<1>0. n \in Nat /\ \A i \in 1..n : s[i] \in A
  OBVIOUS
<1>1. SUFFICES ASSUME T # {} PROVE FALSE
  <2>1. n \in 0..n
    BY <1>0
  <2>2. \E g : Works(n, g)
    BY <2>1
  <2> QED BY <2>2 DEF Walk
<1> HIDE DEF n
<1>2. PICK k \in T : \A j \in T : k <= j
  <2>1. T \subseteq Nat
    BY <1>0
  <2> HIDE DEF T
  <2> QED BY <1>1, <2>1, LeastNumber
<1>3. k \in 0..n /\ ~\E g : Works(k, g)
  BY <1>2
<1>4. CASE k = 0
  <2> DEFINE f == [i \in 0..k |-> base]
  <2>1. Works(k, f)
    BY <1>4
  <2> QED BY <1>3, <2>1
<1>5. CASE k # 0
  <2>1. k - 1 \in 0..n /\ k \in 1..n /\ ~(k <= k - 1)
    BY <1>0, <1>3, <1>5
  <2>2. PICK g : Works(k - 1, g)
    BY <1>2, <2>1
  <2> DEFINE f == [i \in 0..k |-> IF i = k THEN step[g[k - 1]][s[k]] ELSE g[i]]
  <2>4. f \in [0..k -> V]
    <3>1. g[k - 1] \in V /\ step[g[k - 1]] \in [A -> V] /\ s[k] \in A
      BY <1>0, <2>1, <2>2
    <3>2. \A i \in 0..k : i # k => g[i] \in V
      BY <2>1, <2>2
    <3> QED BY <3>1, <3>2
  <2>5. f[0] = base
    BY <2>1, <2>2
  <2>6. ASSUME NEW i \in 1..k PROVE f[i] = step[f[i - 1]][s[i]]
    <3>1. i - 1 \in 0..k /\ i \in 0..k /\ i - 1 # k
      BY <2>1
    <3>2. CASE i = k
      BY <3>1, <3>2
    <3>3. CASE i # k
      <4>1. i \in 1..(k - 1)
        BY <2>1, <3>3
      <4> QED BY <2>2, <3>1, <3>3, <4>1
    <3> QED BY <3>2, <3>3
  <2>7. Works(k, f)
    BY <2>4, <2>5, <2>6
  <2> QED BY <1>3, <2>7
<1> QED BY <1>4, <1>5

\* There is no other.
LEMMA WalkUnique ==
    ASSUME NEW V, NEW s, NEW base, NEW step, NEW g, NEW f, Len(s) \in Nat,
           Walk(V, s, base, step, g), Follows(V, s, base, step, f)
    PROVE  f[Len(s)] = g[Len(s)]
<1> DEFINE n == Len(s)
           T == {k \in 0..n : f[k] # g[k]}
<1>1. /\ n \in Nat /\ g \in [0..n -> V] /\ g[0] = base /\ \A i \in 1..n : g[i] = step[g[i - 1]][s[i]]
      /\ f[0] = base /\ \A i \in 1..n : f[i - 1] \in V => f[i] = step[f[i - 1]][s[i]]
  BY DEF Walk, Follows
<1> HIDE DEF n
<1>2. SUFFICES ASSUME T # {} PROVE FALSE
  <2>1. n \in 0..n
    BY <1>1
  <2> QED BY <2>1 DEF n
<1>3. PICK k \in T : \A j \in T : k <= j
  <2>1. T \subseteq Nat
    BY <1>1
  <2> HIDE DEF T
  <2> QED BY <1>2, <2>1, LeastNumber
<1>4. k \in 0..n /\ f[k] # g[k] /\ k # 0
  BY <1>1, <1>3
<1>5. k - 1 \in 0..n /\ k \in 1..n /\ ~(k <= k - 1)
  BY <1>1, <1>4
<1>6. f[k - 1] = g[k - 1]
  BY <1>3, <1>5
<1>7. g[k - 1] \in V
  BY <1>1, <1>5
<1> QED BY <1>1, <1>4, <1>5, <1>6, <1>7

\* An element more is a step more.
LEMMA WalkAppend ==
    ASSUME NEW V, NEW A, NEW s \in Seq(A), NEW x \in A, NEW base, NEW step, NEW g, NEW f,
           Walk(V, s, base, step, g), Walk(V, Append(s, x), base, step, f)
    PROVE  f[Len(s) + 1] = step[g[Len(s)]][x]
<1> DEFINE t == Append(s, x)
           n == Len(s)
<1>1. n \in Nat /\ Len(t) = n + 1 /\ t[n + 1] = x /\ \A i \in 1..n : t[i] = s[i]
  OBVIOUS
<1>2. f[0] = base /\ \A i \in 1..(n + 1) : f[i] = step[f[i - 1]][t[i]]
  BY <1>1 DEF Walk
<1> HIDE DEF t
<1>3. Follows(V, s, base, step, f)
  <2>1. \A i \in 1..n : f[i] = step[f[i - 1]][s[i]]
    <3> TAKE i \in 1..n
    <3>1. i \in 1..(n + 1)
      BY <1>1
    <3> QED BY <1>1, <1>2, <3>1
  <2> QED BY <1>2, <2>1 DEF Follows
<1>4. f[n] = g[n]
  BY <1>1, <1>3, WalkUnique
<1>5. n + 1 \in 1..(n + 1) /\ n + 1 - 1 = n
  BY <1>1
<1> QED BY <1>1, <1>2, <1>4, <1>5

----------------------------------------------------------------------------
(* The lines of the output and their bytes.                                 *)

\* A line takes between one and three bytes for each of its own.
LEMMA WidthFacts ==
    ASSUME NEW l \in Line
    PROVE  Width(l) \in Nat /\ Width(l) <= 3 * Len(l)
<1> DEFINE B == {i \in DOMAIN l : l[i] = "bad"}
<1>1. Len(l) \in Nat /\ DOMAIN l = 1..Len(l)
  BY DEF Line
<1>2. IsFiniteSet(1..Len(l)) /\ Cardinality(1..Len(l)) = Len(l)
  <2>1. ASSUME NEW k \in Nat PROVE IsFiniteSet(1..k) /\ Cardinality(1..k) = k
    <3>1. IsFiniteSet(1..k) /\ Cardinality(1..k) = IF 1 > k THEN 0 ELSE k - 1 + 1
      BY FS_Interval
    <3> QED BY <3>1
  <2> QED BY <1>1, <2>1
<1>3. B \in SUBSET (1..Len(l))
  BY <1>1
<1>4. IsFiniteSet(B) /\ Cardinality(B) <= Len(l)
  <2> HIDE DEF B
  <2> QED BY <1>2, <1>3, FS_Subset
<1>5. Cardinality(B) \in Nat
  <2> HIDE DEF B
  <2> QED BY <1>4, FS_CardinalityType
<1>6. Width(l) = Len(l) + 2 * Cardinality(B)
  BY DEF Width
<1> HIDE DEF B
<1> QED BY <1>1, <1>4, <1>5, <1>6

\* The sum goes line by line.
Adding == [v \in Nat |-> [l \in Line |-> v + Width(l)]]

\* Total is what the walk over the lines comes to.
LEMMA TotalWalk ==
    ASSUME NEW s \in Seq(Line)
    PROVE  \E g : Walk(Nat, s, 0, Adding, g) /\ Total(s) = g[Len(s)]
<1> DEFINE n == Len(s)
           sum == CHOOSE f : f = [i \in 0..n |-> IF i = 0 THEN 0 ELSE f[i - 1] + Width(s[i])]
<1>1. n \in Nat /\ \A i \in 1..n : s[i] \in Line
  OBVIOUS
<1>2. Adding \in [Nat -> [Line -> Nat]]
  BY WidthFacts DEF Adding
<1>3. PICK g : Walk(Nat, s, 0, Adding, g)
  BY <1>2, WalkExists
<1>4. g \in [0..n -> Nat] /\ g[0] = 0 /\ \A i \in 1..n : g[i] = Adding[g[i - 1]][s[i]]
  BY <1>3 DEF Walk
<1>5. \A i \in 1..n : g[i] = g[i - 1] + Width(s[i])
  <2> TAKE i \in 1..n
  <2>1. i - 1 \in 0..n
    BY <1>1
  <2> QED BY <1>1, <1>4, <2>1 DEF Adding
<1>6. g = [i \in 0..n |-> IF i = 0 THEN 0 ELSE g[i - 1] + Width(s[i])]
  <2>1. \A i \in 0..n : i # 0 => i \in 1..n
    BY <1>1
  <2> QED BY <1>4, <1>5, <2>1
<1>7. sum = [i \in 0..n |-> IF i = 0 THEN 0 ELSE sum[i - 1] + Width(s[i])]
  BY <1>6, Zenon
<1>8. Total(s) = sum[n]
  BY DEF Total
<1> HIDE DEF sum
<1>9. sum[0] = 0 /\ \A i \in 0..n : i # 0 => sum[i] = sum[i - 1] + Width(s[i])
  <2>1. 0 \in 0..n
    BY <1>1
  <2> HIDE DEF n
  <2> QED BY <1>7, <2>1, Zenon
<1>10. Follows(Nat, s, 0, Adding, sum)
  <2>1. ASSUME NEW i \in 1..n, sum[i - 1] \in Nat PROVE sum[i] = Adding[sum[i - 1]][s[i]]
    <3>1. i \in 0..n /\ i # 0
      BY <1>1
    <3>2. sum[i] = sum[i - 1] + Width(s[i])
      BY <1>9, <3>1
    <3> QED BY <1>1, <2>1, <3>2 DEF Adding
  <2> QED BY <1>9, <2>1 DEF Follows
<1>11. sum[n] = g[n]
  BY <1>1, <1>3, <1>10, WalkUnique
<1> QED BY <1>3, <1>8, <1>11

\* One line more adds its bytes.
LEMMA TotalAppend ==
    /\ Total(<<>>) = 0
    /\ \A s \in Seq(Line) : Total(s) \in Nat
    /\ \A s \in Seq(Line) : \A l \in Line : Total(Append(s, l)) = Total(s) + Width(l)
<1>1. ASSUME NEW s \in Seq(Line) PROVE Total(s) \in Nat
  <2>1. PICK g : Walk(Nat, s, 0, Adding, g) /\ Total(s) = g[Len(s)]
    BY TotalWalk
  <2>2. Len(s) \in Nat /\ Len(s) \in 0..Len(s)
    OBVIOUS
  <2> QED BY <2>1, <2>2 DEF Walk
<1>2. Total(<<>>) = 0
  <2>1. <<>> \in Seq(Line) /\ Len(<<>>) = 0
    OBVIOUS
  <2>2. PICK g : Walk(Nat, <<>>, 0, Adding, g) /\ Total(<<>>) = g[0]
    BY <2>1, TotalWalk
  <2> QED BY <2>2 DEF Walk
<1>3. ASSUME NEW s \in Seq(Line), NEW l \in Line PROVE Total(Append(s, l)) = Total(s) + Width(l)
  <2>1. Append(s, l) \in Seq(Line) /\ Len(Append(s, l)) = Len(s) + 1
    OBVIOUS
  <2>2. PICK g : Walk(Nat, s, 0, Adding, g) /\ Total(s) = g[Len(s)]
    BY TotalWalk
  <2>3. PICK f : Walk(Nat, Append(s, l), 0, Adding, f) /\ Total(Append(s, l)) = f[Len(s) + 1]
    <3>1. \E f : Walk(Nat, Append(s, l), 0, Adding, f) /\ Total(Append(s, l)) = f[Len(Append(s, l))]
      BY <2>1, TotalWalk
    <3> QED BY <2>1, <3>1
  <2>4. f[Len(s) + 1] = Adding[g[Len(s)]][l]
    BY <2>2, <2>3, WalkAppend
  <2> QED BY <1>1, <2>2, <2>3, <2>4 DEF Adding
<1> QED BY <1>1, <1>2, <1>3

\* The part of a sequence of lines between two places, with the end taken in.
LEMMA PartFacts ==
    ASSUME NEW s \in Seq(Line), NEW a \in 1..(Len(s) + 1), NEW b \in (a - 1)..Len(s)
    PROVE  /\ SubSeq(s, a, b) \in Seq(Line)
           /\ Len(SubSeq(s, a, b)) = b - a + 1
           /\ \A i \in 1..(b - a + 1) : SubSeq(s, a, b)[i] = s[a + i - 1]
<1>1. a \in Int /\ b \in Int /\ Len(s) \in Nat /\ \A i \in a..b : s[i] \in Line
  OBVIOUS
<1>2. /\ SubSeq(s, a, b) \in Seq(Line)
      /\ Len(SubSeq(s, a, b)) = IF a <= b THEN b - a + 1 ELSE 0
      /\ \A i \in 1..(b - a + 1) : SubSeq(s, a, b)[i] = s[a + i - 1]
  BY <1>1, SubSeqProperties
<1> QED BY <1>1, <1>2

\* Sequences of lines with the same elements are the same.
LEMMA SameLines ==
    ASSUME NEW s \in Seq(Line), NEW t \in Seq(Line), Len(s) = Len(t),
           \A i \in 1..Len(s) : s[i] = t[i]
    PROVE  s = t
OBVIOUS

\* A place more is a line more.
LEMMA PartStep ==
    ASSUME NEW s \in Seq(Line), NEW a \in 1..(Len(s) + 1), NEW b \in a..Len(s)
    PROVE  SubSeq(s, a, b) = Append(SubSeq(s, a, b - 1), s[b])
<1>1. Len(s) \in Nat /\ b - 1 \in (a - 1)..Len(s) /\ b \in (a - 1)..Len(s) /\ s[b] \in Line
  OBVIOUS
<1> DEFINE p == SubSeq(s, a, b)
           q == SubSeq(s, a, b - 1)
<1>2. p \in Seq(Line) /\ Len(p) = b - a + 1 /\ \A i \in 1..(b - a + 1) : p[i] = s[a + i - 1]
  BY <1>1, PartFacts
<1>3. q \in Seq(Line) /\ Len(q) = b - 1 - a + 1 /\ \A i \in 1..(b - 1 - a + 1) : q[i] = s[a + i - 1]
  BY <1>1, PartFacts
<1> HIDE DEF p, q
<1>4. Append(q, s[b]) \in Seq(Line) /\ Len(Append(q, s[b])) = Len(p)
  <2>1. Append(q, s[b]) \in Seq(Line) /\ Len(Append(q, s[b])) = Len(q) + 1
    BY <1>1, <1>3, AppendProperties
  <2> QED BY <1>1, <1>2, <1>3, <2>1
<1>5. ASSUME NEW i \in 1..Len(p) PROVE p[i] = Append(q, s[b])[i]
  <2>1. CASE i = Len(p)
    <3>1. Append(q, s[b])[Len(q) + 1] = s[b] /\ Len(q) + 1 = i /\ a + i - 1 = b
      BY <1>1, <1>2, <1>3, <2>1
    <3> QED BY <1>2, <3>1
  <2>2. CASE i # Len(p)
    <3>1. i \in 1..Len(q) /\ i \in 1..(b - 1 - a + 1) /\ i \in 1..(b - a + 1)
      BY <1>1, <1>2, <1>3, <2>2
    <3>2. Append(q, s[b])[i] = q[i]
      BY <1>1, <1>3, <3>1
    <3> QED BY <1>2, <1>3, <3>1, <3>2
  <2> QED BY <2>1, <2>2
<1>6. p = Append(q, s[b])
  BY <1>2, <1>4, <1>5, SameLines
<1> QED BY <1>6 DEF p, q

\* The bytes of the front and of the rest make up the whole.
LEMMA TotalParts ==
    ASSUME NEW s \in Seq(Line), NEW k \in 0..Len(s)
    PROVE  Total(s) - Total(SubSeq(s, 1, k)) = Total(SubSeq(s, k + 1, Len(s)))
<1> DEFINE n == Len(s)
           Sums(m) == Total(SubSeq(s, 1, m)) = Total(SubSeq(s, 1, k)) + Total(SubSeq(s, k + 1, m))
           T == {m \in k..n : ~Sums(m)}
<1>1. n \in Nat /\ k \in Nat /\ k <= n /\ \A i \in 1..n : s[i] \in Line
  OBVIOUS
<1>2. \A a \in 1..(n + 1) : \A b \in (a - 1)..n : SubSeq(s, a, b) \in Seq(Line)
  BY PartFacts
<1>3. \A a \in 1..(n + 1) : \A b \in (a - 1)..n : Total(SubSeq(s, a, b)) \in Nat
  BY <1>2, TotalAppend
<1>4. \A a \in 1..(n + 1) : \A b \in a..n :
         Total(SubSeq(s, a, b)) = Total(SubSeq(s, a, b - 1)) + Width(s[b])
  <2> TAKE a \in 1..(n + 1)
  <2> TAKE b \in a..n
  <2>1. b - 1 \in (a - 1)..n /\ s[b] \in Line
    BY <1>1
  <2>2. SubSeq(s, a, b) = Append(SubSeq(s, a, b - 1), s[b])
    BY PartStep
  <2> QED BY <1>2, <2>1, <2>2, TotalAppend
<1> HIDE DEF n
<1>5. Sums(n)
  <2>1. SUFFICES ASSUME T # {} PROVE FALSE
    BY <1>1
  <2>2. PICK m \in T : \A j \in T : m <= j
    <3>1. T \subseteq Nat
      BY <1>1
    <3> HIDE DEF T
    <3> QED BY <2>1, <3>1, LeastNumber
  <2>3. m \in k..n /\ ~Sums(m)
    BY <2>2
  <2>4. CASE m = k
    <3>1. SubSeq(s, k + 1, k) = <<>>
      BY <1>1, SubSeqEmpty
    <3>2. Total(SubSeq(s, 1, k)) \in Nat
      BY <1>1, <1>3
    <3>3. Total(SubSeq(s, k + 1, k)) = 0
      BY <3>1, TotalAppend, Zenon
    <3>4. Sums(k)
      BY <3>2, <3>3
    <3> QED BY <2>3, <2>4, <3>4, Zenon
  <2>5. CASE m # k
    <3>1. m - 1 \in k..n /\ ~(m <= m - 1) /\ m \in 1..n /\ m \in (k + 1)..n /\ k + 1 \in 1..(n + 1) /\ 1 \in 1..(n + 1)
      BY <1>1, <2>3, <2>5
    <3>2. Sums(m - 1)
      BY <2>2, <3>1
    <3>3. /\ Total(SubSeq(s, 1, m)) = Total(SubSeq(s, 1, m - 1)) + Width(s[m])
          /\ Total(SubSeq(s, k + 1, m)) = Total(SubSeq(s, k + 1, m - 1)) + Width(s[m])
      BY <1>4, <3>1
    <3>4. /\ Total(SubSeq(s, 1, k)) \in Nat /\ Total(SubSeq(s, k + 1, m - 1)) \in Nat
          /\ Width(s[m]) \in Nat
      <4>1. /\ k \in (1 - 1)..n /\ m - 1 \in (k + 1 - 1)..n
        BY <1>1, <3>1
      <4> QED BY <1>1, <1>3, <3>1, <4>1, WidthFacts
    <3>5. Sums(m)
      BY <3>2, <3>3, <3>4
    <3> QED BY <2>3, <3>5
  <2> QED BY <2>4, <2>5
<1>6. SubSeq(s, 1, n) = s
  BY SubSeqFull DEF n
<1>7. Total(SubSeq(s, 1, k)) \in Nat /\ Total(SubSeq(s, k + 1, n)) \in Nat
  <2>1. k \in (1 - 1)..n /\ n \in (k + 1 - 1)..n /\ k + 1 \in 1..(n + 1) /\ 1 \in 1..(n + 1)
    BY <1>1
  <2> QED BY <1>3, <2>1
<1>8. Total(s) = Total(SubSeq(s, 1, k)) + Total(SubSeq(s, k + 1, n))
  BY <1>5, <1>6, Zenon
<1>9. Total(s) - Total(SubSeq(s, 1, k)) = Total(SubSeq(s, k + 1, n))
  BY <1>7, <1>8
<1> QED BY <1>9 DEF n

----------------------------------------------------------------------------
(* The lines of a sequence of bytes.                                        *)

\* What Split makes of bytes, and the step it makes for one.
Parts == [done : Seq(Line), open : Line]
Feeding == [v \in Parts |-> [b \in Byte |-> Feed(v, b)]]
NoPart == [done |-> <<>>, open |-> <<>>]

\* A step keeps the type.
LEMMA FeedType ==
    ASSUME NEW v \in Parts, NEW b \in Byte
    PROVE  Feed(v, b) \in Parts
<1>1. v.done \in Seq(Line) /\ v.open \in Line /\ <<>> \in Line
  BY DEF Parts, Line
<1>2. CASE b = "nl"
  BY <1>1, <1>2 DEF Feed, Parts
<1>3. CASE b # "nl"
  <2>1. Append(v.open, b) \in Line
    BY <1>1, <1>3 DEF Line
  <2> QED BY <1>1, <1>3, <2>1 DEF Feed, Parts
<1> QED BY <1>2, <1>3

\* Split is what the walk over the bytes comes to.
LEMMA SplitWalk ==
    ASSUME NEW s \in Seq(Byte)
    PROVE  \E g : Walk(Parts, s, NoPart, Feeding, g) /\ Split(s) = g[Len(s)]
<1> DEFINE n == Len(s)
           part == CHOOSE f : f = [i \in 0..n |-> IF i = 0 THEN [done |-> <<>>, open |-> <<>>] ELSE Feed(f[i - 1], s[i])]
<1>1. n \in Nat /\ \A i \in 1..n : s[i] \in Byte
  OBVIOUS
<1>2. Feeding \in [Parts -> [Byte -> Parts]] /\ NoPart \in Parts
  <2>1. Feeding \in [Parts -> [Byte -> Parts]]
    BY FeedType DEF Feeding
  <2>2. <<>> \in Seq(Line) /\ <<>> \in Line
    BY DEF Line
  <2> QED BY <2>1, <2>2 DEF NoPart, Parts
<1>3. PICK g : Walk(Parts, s, NoPart, Feeding, g)
  BY <1>2, WalkExists
<1>4. g \in [0..n -> Parts] /\ g[0] = NoPart /\ \A i \in 1..n : g[i] = Feeding[g[i - 1]][s[i]]
  BY <1>3 DEF Walk
<1>5. \A i \in 1..n : g[i] = Feed(g[i - 1], s[i])
  <2> TAKE i \in 1..n
  <2>1. i - 1 \in 0..n
    BY <1>1
  <2>2. g[i - 1] \in Parts
    BY <1>4, <2>1
  <2> QED BY <1>1, <1>4, <2>2 DEF Feeding
<1>6. g = [i \in 0..n |-> IF i = 0 THEN [done |-> <<>>, open |-> <<>>] ELSE Feed(g[i - 1], s[i])]
  <2>1. \A i \in 0..n : i # 0 => i \in 1..n
    BY <1>1
  <2> QED BY <1>4, <1>5, <2>1 DEF NoPart
<1>7. part = [i \in 0..n |-> IF i = 0 THEN [done |-> <<>>, open |-> <<>>] ELSE Feed(part[i - 1], s[i])]
  BY <1>6, Zenon
<1>8. Split(s) = part[n]
  BY DEF Split
<1> HIDE DEF part
<1>9. part[0] = NoPart /\ \A i \in 0..n : i # 0 => part[i] = Feed(part[i - 1], s[i])
  <2>1. 0 \in 0..n
    BY <1>1
  <2> HIDE DEF n
  <2> QED BY <1>7, <2>1, Zenon DEF NoPart
<1>10. Follows(Parts, s, NoPart, Feeding, part)
  <2>1. ASSUME NEW i \in 1..n, part[i - 1] \in Parts PROVE part[i] = Feeding[part[i - 1]][s[i]]
    <3>1. i \in 0..n /\ i # 0
      BY <1>1
    <3>2. part[i] = Feed(part[i - 1], s[i])
      BY <1>9, <3>1
    <3> QED BY <1>1, <2>1, <3>2 DEF Feeding
  <2> QED BY <1>9, <2>1 DEF Follows
<1>11. part[n] = g[n]
  BY <1>1, <1>3, <1>10, WalkUnique
<1> QED BY <1>3, <1>8, <1>11

\* One byte more is fed to what there is.
LEMMA SplitAppend ==
    /\ Split(<<>>) = NoPart
    /\ \A s \in Seq(Byte) : Split(s) \in Parts
    /\ \A s \in Seq(Byte) : \A b \in Byte : Split(Append(s, b)) = Feed(Split(s), b)
<1>1. ASSUME NEW s \in Seq(Byte) PROVE Split(s) \in Parts
  <2>1. PICK g : Walk(Parts, s, NoPart, Feeding, g) /\ Split(s) = g[Len(s)]
    BY SplitWalk
  <2>2. Len(s) \in Nat /\ Len(s) \in 0..Len(s)
    OBVIOUS
  <2> QED BY <2>1, <2>2 DEF Walk
<1>2. Split(<<>>) = NoPart
  <2>1. <<>> \in Seq(Byte) /\ Len(<<>>) = 0
    OBVIOUS
  <2>2. PICK g : Walk(Parts, <<>>, NoPart, Feeding, g) /\ Split(<<>>) = g[0]
    BY <2>1, SplitWalk
  <2> QED BY <2>2 DEF Walk
<1>3. ASSUME NEW s \in Seq(Byte), NEW b \in Byte PROVE Split(Append(s, b)) = Feed(Split(s), b)
  <2>1. Append(s, b) \in Seq(Byte) /\ Len(Append(s, b)) = Len(s) + 1
    OBVIOUS
  <2>2. PICK g : Walk(Parts, s, NoPart, Feeding, g) /\ Split(s) = g[Len(s)]
    BY SplitWalk
  <2>3. PICK f : Walk(Parts, Append(s, b), NoPart, Feeding, f) /\ Split(Append(s, b)) = f[Len(s) + 1]
    <3>1. \E f : Walk(Parts, Append(s, b), NoPart, Feeding, f) /\ Split(Append(s, b)) = f[Len(Append(s, b))]
      BY <2>1, SplitWalk
    <3> QED BY <2>1, <3>1
  <2>4. f[Len(s) + 1] = Feeding[g[Len(s)]][b]
    BY <2>2, <2>3, WalkAppend
  <2> QED BY <1>1, <2>2, <2>3, <2>4 DEF Feeding
<1> QED BY <1>1, <1>2, <1>3

\* A line is cut at the limit and nowhere else.
LEMMA CutFacts ==
    ASSUME NEW l \in Line
    PROVE  /\ Cut(l) \in Line /\ Len(Cut(l)) <= MaxLineBytes
           /\ Len(Cut(l)) = IF Len(l) < MaxLineBytes THEN Len(l) ELSE MaxLineBytes
           /\ \A i \in 1..Len(Cut(l)) : Cut(l)[i] = l[i]
           /\ Cut(l) = <<>> <=> l = <<>>
<1> DEFINE m == IF Len(l) < MaxLineBytes THEN Len(l) ELSE MaxLineBytes
           C == Byte \ {"nl"}
<1>1. l \in Seq(C) /\ Len(l) \in Nat /\ MaxLineBytes \in Nat /\ MaxLineBytes > 0
  BY LimitAssumption DEF Line
<1>2. m \in 0..Len(l) /\ m \in Int /\ m <= MaxLineBytes /\ (m = 0 <=> Len(l) = 0)
  BY <1>1
<1>3. \A i \in 1..m : l[i] \in C
  BY <1>1, <1>2
<1>4. Cut(l) = SubSeq(l, 1, m)
  BY DEF Cut
<1> HIDE DEF m, C
<1>5. /\ SubSeq(l, 1, m) \in Seq(C)
      /\ Len(SubSeq(l, 1, m)) = IF 1 <= m THEN m - 1 + 1 ELSE 0
      /\ \A i \in 1..(m - 1 + 1) : SubSeq(l, 1, m)[i] = l[1 + i - 1]
  BY <1>2, <1>3, SubSeqProperties
<1>6. Cut(l) \in Seq(C) /\ Len(Cut(l)) = m
  BY <1>1, <1>2, <1>4, <1>5
<1>7. \A i \in 1..m : Cut(l)[i] = l[i]
  <2> TAKE i \in 1..m
  <2>1. i \in 1..(m - 1 + 1) /\ 1 + i - 1 = i
    BY <1>2
  <2> QED BY <1>4, <1>5, <2>1
<1>8. Cut(l) = <<>> <=> l = <<>>
  BY <1>1, <1>2, <1>6
<1>9. Cut(l) \in Line
  BY <1>6 DEF Line, C
<1>10. Len(Cut(l)) = IF Len(l) < MaxLineBytes THEN Len(l) ELSE MaxLineBytes
  BY <1>6 DEF m
<1> QED BY <1>2, <1>6, <1>7, <1>8, <1>9, <1>10

\* A byte more is kept until the line is full.
LEMMA CutAppend ==
    ASSUME NEW l \in Line, NEW b \in Byte, b # "nl"
    PROVE  Cut(Append(l, b)) = IF Len(l) >= MaxLineBytes THEN Cut(l) ELSE Append(Cut(l), b)
<1> DEFINE C == Byte \ {"nl"}
           t == Append(l, b)
<1>1. /\ l \in Seq(C) /\ Len(l) \in Nat /\ MaxLineBytes \in Nat
      /\ t \in Line /\ Len(t) = Len(l) + 1 /\ t[Len(l) + 1] = b /\ \A i \in 1..Len(l) : t[i] = l[i]
  BY LimitAssumption DEF Line
<1> HIDE DEF t, C
<1>2. /\ Cut(l) \in Seq(C) /\ Cut(t) \in Seq(C)
      /\ Len(Cut(l)) = IF Len(l) < MaxLineBytes THEN Len(l) ELSE MaxLineBytes
      /\ Len(Cut(t)) = IF Len(t) < MaxLineBytes THEN Len(t) ELSE MaxLineBytes
      /\ \A i \in 1..Len(Cut(l)) : Cut(l)[i] = l[i]
      /\ \A i \in 1..Len(Cut(t)) : Cut(t)[i] = t[i]
  BY <1>1, CutFacts DEF Line, C
<1>3. CASE Len(l) >= MaxLineBytes
  <2>1. Len(Cut(t)) = Len(Cut(l)) /\ Len(Cut(l)) <= Len(l)
    BY <1>1, <1>2, <1>3
  <2>2. \A i \in 1..Len(Cut(t)) : Cut(t)[i] = Cut(l)[i]
    BY <1>1, <1>2, <2>1
  <2>3. Cut(t) = Cut(l)
    BY <1>2, <2>1, <2>2
  <2> QED BY <1>3, <2>3 DEF t
<1>4. CASE ~(Len(l) >= MaxLineBytes)
  <2>1. Len(Cut(t)) = Len(l) + 1 /\ Len(Cut(l)) = Len(l)
    BY <1>1, <1>2, <1>4
  <2>2. b \in C
    BY DEF C
  <2>3. /\ Append(Cut(l), b) \in Seq(C) /\ Len(Append(Cut(l), b)) = Len(Cut(l)) + 1
        /\ \A i \in 1..Len(Cut(l)) : Append(Cut(l), b)[i] = Cut(l)[i]
        /\ Append(Cut(l), b)[Len(Cut(l)) + 1] = b
    BY <1>2, <2>2, AppendProperties
  <2>4. ASSUME NEW i \in 1..Len(Cut(t)) PROVE Cut(t)[i] = Append(Cut(l), b)[i]
    <3>1. CASE i = Len(l) + 1
      BY <1>1, <1>2, <2>1, <2>3, <3>1
    <3>2. CASE i # Len(l) + 1
      <4>1. i \in 1..Len(l)
        BY <1>1, <2>1, <3>2
      <4> QED BY <1>1, <1>2, <2>1, <2>3, <4>1
    <3> QED BY <3>1, <3>2
  <2>5. Cut(t) = Append(Cut(l), b)
    BY <1>2, <2>1, <2>3, <2>4
  <2> QED BY <1>4, <2>5 DEF t
<1> QED BY <1>3, <1>4

\* The lines, each cut.
CutAll(q) == [i \in DOMAIN q |-> Cut(q[i])]

\* It keeps their number, and a line more is a cut line more.
LEMMA CutAllFacts ==
    ASSUME NEW q \in Seq(Line)
    PROVE  /\ CutAll(q) \in Seq(Line) /\ Len(CutAll(q)) = Len(q)
           /\ \A l \in Line : CutAll(Append(q, l)) = Append(CutAll(q), Cut(l))
<1>1. \A p \in Seq(Line) : CutAll(p) \in Seq(Line) /\ Len(CutAll(p)) = Len(p) /\ \A i \in 1..Len(p) : CutAll(p)[i] = Cut(p[i])
  <2> TAKE p \in Seq(Line)
  <2>1. DOMAIN p = 1..Len(p) /\ Len(p) \in Nat /\ \A i \in 1..Len(p) : Cut(p[i]) \in Line
    BY CutFacts
  <2>2. CutAll(p) = [i \in 1..Len(p) |-> Cut(p[i])]
    BY <2>1 DEF CutAll
  <2> QED BY <2>1, <2>2
<1>2. ASSUME NEW l \in Line PROVE CutAll(Append(q, l)) = Append(CutAll(q), Cut(l))
  <2> DEFINE t == Append(q, l)
             u == Append(CutAll(q), Cut(l))
  <2>1. t \in Seq(Line) /\ Len(q) \in Nat /\ Len(t) = Len(q) + 1 /\ t[Len(q) + 1] = l /\ \A i \in 1..Len(q) : t[i] = q[i]
    OBVIOUS
  <2>2. /\ u \in Seq(Line) /\ Len(u) = Len(CutAll(q)) + 1 /\ u[Len(CutAll(q)) + 1] = Cut(l)
        /\ \A i \in 1..Len(CutAll(q)) : u[i] = CutAll(q)[i]
    BY <1>1, CutFacts, AppendProperties
  <2> HIDE DEF t, u
  <2>3. ASSUME NEW i \in 1..Len(CutAll(t)) PROVE CutAll(t)[i] = u[i]
    <3>1. i \in 1..(Len(q) + 1) /\ CutAll(t)[i] = Cut(t[i])
      BY <1>1, <2>1
    <3>2. CASE i = Len(q) + 1
      BY <1>1, <2>1, <2>2, <3>1, <3>2
    <3>3. CASE i # Len(q) + 1
      <4>1. i \in 1..Len(q)
        BY <2>1, <3>1, <3>3
      <4> QED BY <1>1, <2>1, <2>2, <3>1, <4>1
    <3> QED BY <3>2, <3>3
  <2>4. CutAll(t) = u
    BY <1>1, <2>1, <2>2, <2>3, SameLines
  <2> QED BY <2>4 DEF t, u
<1> QED BY <1>1, <1>2

----------------------------------------------------------------------------
(* What the reader keeps.                                                   *)

\* Of the lines all the last ones are kept, as many as the limits allow.
Keeps(all, ls, bs, dr) ==
    /\ all \in Seq(Line) /\ ls \in Seq(Line) /\ dr \in Nat
    /\ Len(all) = dr + Len(ls)
    /\ ls = SubSeq(all, dr + 1, Len(all))
    /\ bs = Total(ls)
    /\ WithinLimits(ls)
    /\ dr > 0 => ~WithinLimits(SubSeq(all, dr, Len(all)))

\* The end of the lines from a place on, when there is one line more.
LEMMA EndAppend ==
    ASSUME NEW s \in Seq(Line), NEW l \in Line, NEW a \in 1..(Len(s) + 1)
    PROVE  SubSeq(Append(s, l), a, Len(s) + 1) = Append(SubSeq(s, a, Len(s)), l)
<1> DEFINE t == Append(s, l)
<1>1. t \in Seq(Line) /\ Len(s) \in Nat /\ Len(t) = Len(s) + 1 /\ t[Len(s) + 1] = l /\ \A i \in 1..Len(s) : t[i] = s[i]
  OBVIOUS
<1> HIDE DEF t
<1>2. a \in 1..(Len(t) + 1) /\ Len(s) + 1 \in a..Len(t) /\ Len(s) \in (a - 1)..Len(t) /\ Len(s) \in (a - 1)..Len(s)
  BY <1>1
<1>3. SubSeq(t, a, Len(s) + 1) = Append(SubSeq(t, a, Len(s)), l)
  <2>1. SubSeq(t, a, Len(s) + 1) = Append(SubSeq(t, a, Len(s) + 1 - 1), t[Len(s) + 1])
    BY <1>1, <1>2, PartStep
  <2>2. Len(s) + 1 - 1 = Len(s)
    BY <1>1
  <2> QED BY <1>1, <2>1, <2>2
<1>4. SubSeq(t, a, Len(s)) = SubSeq(s, a, Len(s))
  <2> DEFINE p == SubSeq(t, a, Len(s))
             q == SubSeq(s, a, Len(s))
             m == Len(s) - a + 1
  <2>1. p \in Seq(Line) /\ Len(p) = m /\ \A i \in 1..m : p[i] = t[a + i - 1]
    BY <1>1, <1>2, PartFacts
  <2>2. q \in Seq(Line) /\ Len(q) = m /\ \A i \in 1..m : q[i] = s[a + i - 1]
    BY <1>1, <1>2, PartFacts
  <2> HIDE DEF p, q
  <2>3. ASSUME NEW i \in 1..Len(p) PROVE p[i] = q[i]
    <3>1. i \in 1..m /\ a + i - 1 \in 1..Len(s)
      BY <1>1, <2>1
    <3> QED BY <1>1, <2>1, <2>2, <3>1
  <2>4. p = q
    BY <2>1, <2>2, <2>3, SameLines
  <2> QED BY <2>4 DEF p, q
<1> QED BY <1>3, <1>4 DEF t

\* The end of an end is an end.
LEMMA EndOfEnd ==
    ASSUME NEW s \in Seq(Line), NEW d \in Nat, NEW k \in Nat, d + k <= Len(s)
    PROVE  LET e == SubSeq(s, d + 1, Len(s)) IN SubSeq(e, k + 1, Len(e)) = SubSeq(s, d + k + 1, Len(s))
<1> DEFINE e == SubSeq(s, d + 1, Len(s))
           p == SubSeq(e, k + 1, Len(e))
           q == SubSeq(s, d + k + 1, Len(s))
           m == Len(s) - d - k
<1>1. Len(s) \in Nat /\ d + 1 \in 1..(Len(s) + 1) /\ Len(s) \in (d + 1 - 1)..Len(s)
  OBVIOUS
<1>2. e \in Seq(Line) /\ Len(e) = Len(s) - d /\ \A i \in 1..(Len(s) - d) : e[i] = s[d + i]
  <2>1. /\ e \in Seq(Line) /\ Len(e) = Len(s) - (d + 1) + 1
        /\ \A i \in 1..(Len(s) - (d + 1) + 1) : e[i] = s[d + 1 + i - 1]
    BY <1>1, PartFacts
  <2>2. Len(s) - (d + 1) + 1 = Len(s) - d /\ \A i \in Int : d + 1 + i - 1 = d + i
    BY <1>1
  <2> HIDE DEF e
  <2> QED BY <2>1, <2>2
<1> HIDE DEF e
<1>3. p \in Seq(Line) /\ Len(p) = m /\ \A i \in 1..m : p[i] = e[k + i]
  <2>1. k + 1 \in 1..(Len(e) + 1) /\ Len(e) \in (k + 1 - 1)..Len(e)
    BY <1>1, <1>2
  <2>2. /\ p \in Seq(Line) /\ Len(p) = Len(e) - (k + 1) + 1
        /\ \A i \in 1..(Len(e) - (k + 1) + 1) : p[i] = e[k + 1 + i - 1]
    BY <1>2, <2>1, PartFacts
  <2>3. Len(e) - (k + 1) + 1 = m /\ \A i \in Int : k + 1 + i - 1 = k + i
    BY <1>1, <1>2
  <2> HIDE DEF p, m
  <2> QED BY <2>2, <2>3
<1>4. q \in Seq(Line) /\ Len(q) = m /\ \A i \in 1..m : q[i] = s[d + k + i]
  <2>1. d + k + 1 \in 1..(Len(s) + 1) /\ Len(s) \in (d + k + 1 - 1)..Len(s)
    BY <1>1
  <2>2. /\ q \in Seq(Line) /\ Len(q) = Len(s) - (d + k + 1) + 1
        /\ \A i \in 1..(Len(s) - (d + k + 1) + 1) : q[i] = s[d + k + 1 + i - 1]
    BY <2>1, PartFacts
  <2>3. Len(s) - (d + k + 1) + 1 = m /\ \A i \in Int : d + k + 1 + i - 1 = d + k + i
    BY <1>1
  <2> HIDE DEF q, m
  <2> QED BY <2>2, <2>3
<1> HIDE DEF p, q
<1>5. ASSUME NEW i \in 1..Len(p) PROVE p[i] = q[i]
  <2>1. i \in 1..m /\ k + i \in 1..(Len(s) - d) /\ d + (k + i) = d + k + i
    BY <1>1, <1>3
  <2> QED BY <1>2, <1>3, <1>4, <2>1
<1>6. p = q
  BY <1>3, <1>4, <1>5, SameLines
<1> QED BY <1>6 DEF p, q, e

\* Lines that pass a limit still do with one line more.
LEMMA LimitsGrow ==
    ASSUME NEW s \in Seq(Line), NEW l \in Line, ~WithinLimits(s)
    PROVE  ~WithinLimits(Append(s, l))
<1>1. Total(s) \in Nat /\ Width(l) \in Nat /\ Total(Append(s, l)) = Total(s) + Width(l)
  BY TotalAppend, WidthFacts
<1>2. Len(s) \in Nat /\ Len(Append(s, l)) = Len(s) + 1
  OBVIOUS
<1>3. MaxCaptureLines \in Nat /\ MaxCaptureBytes \in Nat
  BY LimitAssumption
<1> QED BY <1>1, <1>2, <1>3 DEF WithinLimits

\* push_captured_line keeps the most that the limits allow.
LEMMA PushKeeps ==
    ASSUME NEW all, Keeps(all, lines, bytes, dropped),
           NEW l \in Line, Len(l) <= MaxLineBytes, PushLine(l)
    PROVE  Keeps(Append(all, l), lines', bytes', dropped')
<1> DEFINE n == Len(lines)
           rest(k) == SubSeq(lines, k + 1, Len(lines))
           left(k) == bytes - Total(SubSeq(lines, 1, k))
           fits(k) == k = Len(lines) \/ (/\ Len(rest(k)) < MaxCaptureLines
                                         /\ left(k) + Width(l) <= MaxCaptureBytes)
           Least(i) == fits(i) /\ \A j \in 0..(i - 1) : ~fits(j)
           k == CHOOSE i \in 0..Len(lines) : Least(i)
<1>1. /\ all \in Seq(Line) /\ lines \in Seq(Line) /\ dropped \in Nat
      /\ Len(all) = dropped + n /\ lines = SubSeq(all, dropped + 1, Len(all))
      /\ bytes = Total(lines) /\ WithinLimits(lines)
      /\ dropped > 0 => ~WithinLimits(SubSeq(all, dropped, Len(all)))
  BY DEF Keeps
<1>2. /\ lines' = Append(rest(k), l)
      /\ bytes' = left(k) + Width(l)
      /\ dropped' = dropped + k
  BY DEF PushLine
<1>3. n \in Nat /\ Len(all) \in Nat
  BY <1>1
<1>4. k \in 0..n /\ Least(k)
  <2> DEFINE T == {i \in 0..n : fits(i)}
  <2>1. T \subseteq Nat /\ T # {}
    <3>1. n \in T
      BY <1>3
    <3> QED BY <1>3, <3>1
  <2>2. PICK i \in T : \A j \in T : i <= j
    <3> HIDE DEF T
    <3> QED BY <2>1, LeastNumber
  <2>3. i \in 0..n /\ fits(i)
    BY <2>2
  <2>4. ASSUME NEW j \in 0..(i - 1) PROVE ~fits(j)
    <3>1. j \in 0..n /\ ~(i <= j)
      BY <1>3, <2>3
    <3> QED BY <2>2, <3>1
  <2>5. \E x \in 0..Len(lines) : Least(x)
    BY <2>3, <2>4
  <2> HIDE DEF Least
  <2> QED BY <2>5
<1> HIDE DEF k
<1>5. ASSUME NEW i \in 0..n
      PROVE  /\ rest(i) \in Seq(Line) /\ Len(rest(i)) = n - i
             /\ left(i) = Total(rest(i))
             /\ rest(i) = SubSeq(all, dropped + i + 1, Len(all))
             /\ Append(rest(i), l) = SubSeq(Append(all, l), dropped + i + 1, Len(all) + 1)
             /\ Append(rest(i), l) \in Seq(Line) /\ Len(Append(rest(i), l)) = n - i + 1
             /\ Total(Append(rest(i), l)) = left(i) + Width(l)
  <2>1. i + 1 \in 1..(n + 1) /\ n \in (i + 1 - 1)..n /\ n - (i + 1) + 1 = n - i /\ i \in Nat /\ dropped + i <= Len(all)
    BY <1>1, <1>3
  <2>2. rest(i) \in Seq(Line) /\ Len(rest(i)) = n - i
    BY <1>1, <2>1, PartFacts
  <2>3. left(i) = Total(rest(i))
    BY <1>1, TotalParts
  <2>4. rest(i) = SubSeq(all, dropped + i + 1, Len(all))
    BY <1>1, <2>1, EndOfEnd
  <2>5. Append(rest(i), l) = SubSeq(Append(all, l), dropped + i + 1, Len(all) + 1)
    <3>1. dropped + i + 1 \in 1..(Len(all) + 1)
      BY <1>1, <1>3, <2>1
    <3>2. SubSeq(Append(all, l), dropped + i + 1, Len(all) + 1) = Append(SubSeq(all, dropped + i + 1, Len(all)), l)
      BY <1>1, <3>1, EndAppend
    <3> QED BY <2>4, <3>2
  <2> HIDE DEF rest, left
  <2>6. Append(rest(i), l) \in Seq(Line) /\ Len(Append(rest(i), l)) = n - i + 1
    BY <2>2, AppendProperties
  <2>7. Total(Append(rest(i), l)) = left(i) + Width(l)
    BY <2>2, <2>3, TotalAppend
  <2> QED BY <2>2, <2>3, <2>4, <2>5, <2>6, <2>7
<1> HIDE DEF rest, left
<1>6. Append(all, l) \in Seq(Line) /\ Len(Append(all, l)) = Len(all) + 1
  BY <1>1, AppendProperties
<1>7. k \in Nat /\ k <= n
  BY <1>3, <1>4
<1>8. /\ lines' \in Seq(Line) /\ dropped' \in Nat /\ Len(lines') = n - k + 1
      /\ Len(all) + 1 = dropped' + Len(lines')
      /\ lines' = SubSeq(Append(all, l), dropped' + 1, Len(all) + 1)
      /\ bytes' = Total(lines')
  <2>1. lines' = SubSeq(Append(all, l), dropped + k + 1, Len(all) + 1)
    BY <1>2, <1>4, <1>5
  <2>2. /\ lines' \in Seq(Line) /\ Len(lines') = n - k + 1 /\ bytes' = Total(lines')
    BY <1>2, <1>4, <1>5
  <2>3. dropped' \in Nat /\ dropped' = dropped + k
    BY <1>1, <1>2, <1>7
  <2>4. Len(all) + 1 = dropped' + Len(lines')
    <3>1. Len(all) = dropped + n /\ dropped \in Nat
      BY <1>1
    <3> HIDE DEF n
    <3> QED BY <1>3, <1>7, <2>2, <2>3, <3>1
  <2> QED BY <2>1, <2>2, <2>3, <2>4
<1>9. /\ MaxCaptureLines \in Nat /\ MaxCaptureLines > 0 /\ MaxCaptureBytes \in Nat /\ MaxLineBytes \in Nat
      /\ 3 * MaxLineBytes <= MaxCaptureBytes
  BY LimitAssumption
<1>10. WithinLimits(lines')
  <2>1. CASE k = n
    <3>1. Len(rest(n)) = 0 /\ rest(n) \in Seq(Line) /\ left(n) = Total(rest(n))
      BY <1>4, <1>5, <2>1, <1>3
    <3>2. rest(n) = <<>>
      BY <3>1
    <3>3. left(n) = 0
      BY <3>1, <3>2, TotalAppend
    <3>4. Width(l) \in Nat /\ Width(l) <= 3 * Len(l) /\ Len(l) \in Nat
      BY WidthFacts DEF Line
    <3>5. bytes' <= MaxCaptureBytes
      BY <1>2, <1>9, <2>1, <3>3, <3>4
    <3>6. Len(lines') = 1
      BY <1>3, <1>8, <2>1
    <3> QED BY <1>8, <1>9, <3>5, <3>6 DEF WithinLimits
  <2>2. CASE k # n
    <3>1. Len(rest(k)) < MaxCaptureLines /\ left(k) + Width(l) <= MaxCaptureBytes
      BY <1>4, <2>2
    <3>2. Len(rest(k)) = n - k
      BY <1>4, <1>5
    <3>3. Len(lines') <= MaxCaptureLines
      BY <1>3, <1>7, <1>8, <1>9, <3>1, <3>2
    <3> QED BY <1>2, <1>8, <3>1, <3>3 DEF WithinLimits
  <2> QED BY <2>1, <2>2
<1>11. dropped' > 0 => ~WithinLimits(SubSeq(Append(all, l), dropped', Len(all) + 1))
  <2>1. CASE k > 0
    <3>1. k - 1 \in 0..n /\ k - 1 \in 0..(k - 1) /\ dropped + (k - 1) + 1 = dropped' /\ k - 1 # n
      BY <1>1, <1>2, <1>3, <1>7, <2>1
    <3>2. ~fits(k - 1)
      BY <1>4, <3>1
    <3>3. ~(Len(rest(k - 1)) < MaxCaptureLines) \/ ~(left(k - 1) + Width(l) <= MaxCaptureBytes)
      BY <3>2
    <3> DEFINE j == k - 1
    <3>4. /\ Len(rest(j)) = n - j
          /\ Append(rest(j), l) = SubSeq(Append(all, l), dropped + j + 1, Len(all) + 1)
          /\ Len(Append(rest(j), l)) = n - j + 1
          /\ Total(Append(rest(j), l)) = left(j) + Width(l)
      BY <1>5, <3>1
    <3>5. j \in Nat
      BY <3>1
    <3>6. ~WithinLimits(Append(rest(j), l))
      <4>1. ~(Len(rest(j)) < MaxCaptureLines) => ~(Len(Append(rest(j), l)) <= MaxCaptureLines)
        <5>1. j \in Int /\ n \in Int
          BY <1>3, <3>5
        <5>2. Len(rest(j)) = n - j /\ Len(Append(rest(j), l)) = n - j + 1
          BY <3>4
        <5> HIDE DEF j, n
        <5> QED BY <1>9, <5>1, <5>2
      <4> QED BY <3>3, <3>4, <4>1 DEF WithinLimits
    <3> QED BY <3>1, <3>4, <3>6
  <2>2. CASE k = 0 /\ dropped > 0
    <3>1. dropped' = dropped /\ dropped \in 1..(Len(all) + 1) /\ Len(all) \in (dropped - 1)..Len(all)
      BY <1>1, <1>2, <1>3, <2>2
    <3>2. SubSeq(Append(all, l), dropped, Len(all) + 1) = Append(SubSeq(all, dropped, Len(all)), l)
      BY <1>1, <3>1, EndAppend
    <3>3. SubSeq(all, dropped, Len(all)) \in Seq(Line)
      BY <1>1, <3>1, PartFacts
    <3>4. ~WithinLimits(Append(SubSeq(all, dropped, Len(all)), l))
      BY <1>1, <2>2, <3>3, LimitsGrow
    <3> QED BY <3>1, <3>2, <3>4
  <2> QED BY <1>1, <1>2, <1>7, <2>1, <2>2
<1> QED BY <1>6, <1>8, <1>10, <1>11 DEF Keeps

----------------------------------------------------------------------------
(* The invariant of the reader.                                             *)

\* Of the bytes of the script c has been read and p has not: the line so far
\* is what c leaves open, cut, and what is kept comes from the lines c ends.
Reading(c, p, written, line, over, ls, bs, dr) ==
    /\ c \in Seq(Byte) /\ p \in Seq(Byte) /\ written = c \o p
    /\ line = Cut(Split(c).open)
    /\ over <=> Len(Split(c).open) > MaxLineBytes
    /\ Keeps(CutAll(Split(c).done), ls, bs, dr)

\* Nothing is there before the reader starts and after it was joined.
CapInv ==
    /\ eb = "idle" => reader = "none"
    /\ reader \in {"none", "reading", "done"}
    /\ reader = "none" => /\ pipe = <<>> /\ output = <<>> /\ cur = <<>> /\ overflowed = FALSE
                          /\ lines = <<>> /\ bytes = 0 /\ dropped = 0
    /\ reader = "reading" => \E c : Reading(c, pipe, output, cur, overflowed, lines, bytes, dropped)
    /\ CaptureLongest

\* A reader that starts has read nothing.
LEMMA ReadingStarts == Reading(<<>>, <<>>, <<>>, <<>>, FALSE, <<>>, 0, 0)
<1>1. Split(<<>>).open = <<>> /\ Split(<<>>).done = <<>>
  BY SplitAppend DEF NoPart
<1>2. <<>> \in Seq(Byte) /\ <<>> \o <<>> = <<>> /\ <<>> \in Seq(Line) /\ <<>> \in Line /\ Len(<<>>) = 0
  BY DEF Line
<1>3. Cut(<<>>) = <<>>
  BY <1>2, CutFacts
<1>4. CutAll(<<>>) = <<>>
  <2>1. CutAll(<<>>) \in Seq(Line) /\ Len(CutAll(<<>>)) = 0
    BY <1>2, CutAllFacts
  <2> QED BY <2>1
<1>5. MaxLineBytes \in Nat /\ MaxCaptureLines \in Nat /\ MaxCaptureBytes \in Nat
  BY LimitAssumption
<1>6. Total(<<>>) = 0 /\ WithinLimits(<<>>)
  BY <1>2, <1>5, TotalAppend DEF WithinLimits
<1>7. SubSeq(<<>>, 0 + 1, 0) = <<>>
  BY SubSeqEmpty
<1>8. Keeps(<<>>, <<>>, 0, 0)
  BY <1>2, <1>6, <1>7 DEF Keeps
<1>9. ~(Len(Split(<<>>).open) > MaxLineBytes)
  BY <1>1, <1>2, <1>5
<1> QED BY <1>1, <1>2, <1>3, <1>4, <1>8, <1>9 DEF Reading

\* A byte that is written waits in the pipe.
LEMMA ReadingEmit ==
    ASSUME NEW c, NEW b \in Byte, NEW p, NEW written, NEW line, NEW over, NEW ls, NEW bs, NEW dr,
           Reading(c, p, written, line, over, ls, bs, dr)
    PROVE  Reading(c, Append(p, b), Append(written, b), line, over, ls, bs, dr)
<1>1. c \in Seq(Byte) /\ p \in Seq(Byte) /\ written = c \o p
  BY DEF Reading
<1>2. Append(p, b) \in Seq(Byte) /\ Append(c \o p, b) = c \o Append(p, b)
  <2>1. <<b>> \in Seq(Byte) /\ c \o p \in Seq(Byte) /\ Append(p, b) \in Seq(Byte)
    BY <1>1
  <2>2. Append(p, b) = p \o <<b>> /\ Append(c \o p, b) = (c \o p) \o <<b>>
    BY <1>1, <2>1, AppendIsConcat
  <2>3. (c \o p) \o <<b>> = c \o (p \o <<b>>)
    BY <1>1, <2>1, ConcatAssociative
  <2> QED BY <2>1, <2>2, <2>3
<1> QED BY <1>1, <1>2 DEF Reading

\* A byte that is read becomes part of the line, or ends it.
LEMMA ReadingStep ==
    ASSUME NEW c, Reading(c, pipe, output, cur, overflowed, lines, bytes, dropped), ReadByte
    PROVE  Reading(Append(c, Head(pipe)), pipe', output', cur', overflowed', lines', bytes', dropped')
<1> DEFINE b == Head(pipe)
           d == Append(c, b)
           open == Split(c).open
           done == Split(c).done
<1>1. /\ c \in Seq(Byte) /\ pipe \in Seq(Byte) /\ output = c \o pipe /\ cur = Cut(open)
      /\ overflowed <=> Len(open) > MaxLineBytes
      /\ Keeps(CutAll(done), lines, bytes, dropped)
  BY DEF Reading
<1>2. pipe # <<>> /\ pipe' = Tail(pipe) /\ output' = output
  BY DEF ReadByte
<1>3. b \in Byte /\ pipe' \in Seq(Byte) /\ d \in Seq(Byte) /\ output' = d \o pipe'
  <2>1. b \in Byte /\ Tail(pipe) \in Seq(Byte) /\ pipe = <<b>> \o Tail(pipe)
    BY <1>1, <1>2
  <2>2. d \in Seq(Byte) /\ c \o (<<b>> \o Tail(pipe)) = d \o Tail(pipe)
    <3> HIDE DEF b
    <3> QED BY <1>1, <2>1
  <2> QED BY <1>1, <1>2, <2>1, <2>2
<1> HIDE DEF b
<1>4. done \in Seq(Line) /\ open \in Line /\ Split(d) = Feed(Split(c), b)
  BY <1>1, <1>3, SplitAppend DEF Parts
<1>5. MaxLineBytes \in Nat /\ MaxLineBytes > 0 /\ Len(open) \in Nat
  BY <1>4, LimitAssumption DEF Line
<1>6. /\ Cut(open) \in Line /\ Len(Cut(open)) <= MaxLineBytes
      /\ Len(Cut(open)) = IF Len(open) < MaxLineBytes THEN Len(open) ELSE MaxLineBytes
  BY <1>4, CutFacts
<1>7. CASE b = "nl"
  <2>1. PushLine(cur) /\ cur' = <<>> /\ overflowed' = FALSE
    BY <1>7 DEF ReadByte, b
  <2>2. Split(d).done = Append(done, open) /\ Split(d).open = <<>>
    BY <1>4, <1>7 DEF Feed
  <2>3. Keeps(Append(CutAll(done), cur), lines', bytes', dropped')
    BY <1>1, <1>6, <2>1, PushKeeps
  <2>4. CutAll(Split(d).done) = Append(CutAll(done), cur)
    BY <1>1, <1>4, <2>2, CutAllFacts
  <2>5. <<>> \in Line /\ Len(<<>>) = 0
    BY DEF Line
  <2>6. cur' = Cut(Split(d).open)
    BY <2>1, <2>2, <2>5, CutFacts
  <2>7. overflowed' <=> Len(Split(d).open) > MaxLineBytes
    <3>1. ~(Len(Split(d).open) > MaxLineBytes)
      BY <1>5, <2>2, <2>5
    <3> QED BY <2>1, <3>1, Zenon
  <2> HIDE DEF d
  <2>8. Reading(d, pipe', output', cur', overflowed', lines', bytes', dropped')
    BY <1>3, <2>3, <2>4, <2>6, <2>7 DEF Reading
  <2> QED BY <2>8 DEF d, b
<1>8. CASE b # "nl"
  <2>1. ExtendLine(b)
    BY <1>8 DEF ReadByte, b
  <2>2. Split(d).done = done /\ Split(d).open = Append(open, b)
    BY <1>4, <1>8 DEF Feed
  <2>3. Len(Append(open, b)) = Len(open) + 1
    BY <1>3, <1>4, <1>8 DEF Line
  <2>4. Cut(Append(open, b)) = IF Len(open) >= MaxLineBytes THEN Cut(open) ELSE Append(Cut(open), b)
    BY <1>3, <1>4, <1>8, CutAppend
  <2>5. (overflowed \/ Len(cur) >= MaxLineBytes) <=> Len(open) >= MaxLineBytes
    <3>1. overflowed <=> Len(open) > MaxLineBytes
      BY <1>1, Zenon
    <3>2. Len(cur) >= MaxLineBytes <=> Len(open) >= MaxLineBytes
      BY <1>1, <1>5, <1>6
    <3>3. Len(open) > MaxLineBytes => Len(open) >= MaxLineBytes
      BY <1>5
    <3> QED BY <3>1, <3>2, <3>3, Zenon
  <2>6. cur' = Cut(Split(d).open)
    BY <1>1, <2>1, <2>2, <2>4, <2>5 DEF ExtendLine
  <2>7. overflowed' <=> Len(Split(d).open) > MaxLineBytes
    <3>1. overflowed' = (overflowed \/ Len(cur) >= MaxLineBytes)
      BY <2>1 DEF ExtendLine
    <3>2. Len(open) >= MaxLineBytes <=> Len(open) + 1 > MaxLineBytes
      BY <1>5
    <3> QED BY <2>2, <2>3, <2>5, <3>1, <3>2
  <2>8. UNCHANGED <<lines, bytes, dropped>>
    BY <2>1 DEF ExtendLine
  <2> HIDE DEF d
  <2>9. Reading(d, pipe', output', cur', overflowed', lines', bytes', dropped')
    BY <1>1, <1>3, <2>2, <2>6, <2>7, <2>8 DEF Reading
  <2> QED BY <2>9 DEF d, b
<1> QED BY <1>7, <1>8

\* When the loop is left, at the end of the bytes or for an error, the history
\* is the bytes that were read.
LEMMA HistoryRead ==
    ASSUME NEW c, Reading(c, pipe, output, cur, overflowed, lines, bytes, dropped), ReadEnd \/ ReadFails
    PROVE  output' = c
<1>1. c \in Seq(Byte) /\ pipe \in Seq(Byte) /\ output = c \o pipe
  BY DEF Reading
<1>2. CASE ReadEnd
  <2>1. pipe = <<>> /\ output' = output
    BY <1>2 DEF ReadEnd
  <2> QED BY <1>1, <2>1
<1>3. CASE ReadFails
  <2>1. output' = SubSeq(output, 1, Len(output) - Len(pipe))
    BY <1>3 DEF ReadFails
  <2>2. Len(output) - Len(pipe) = Len(c) /\ Len(c) \in Nat /\ output \in Seq(Byte) /\ Len(c) <= Len(output)
    BY <1>1
  <2>3. \A i \in 1..Len(c) : output[i] = c[i]
    BY <1>1
  <2> DEFINE e == SubSeq(output, 1, Len(c))
  <2>4. e \in Seq(Byte) /\ Len(e) = Len(c) /\ \A i \in 1..Len(c) : e[i] = output[i]
    BY <2>2
  <2> HIDE DEF e
  <2>5. e = c
    BY <1>1, <2>3, <2>4, SeqEqual
  <2> QED BY <2>1, <2>2, <2>5 DEF e
<1> QED BY <1>2, <1>3

\* What is kept then comes from all lines.
LEMMA ReadingEnds ==
    ASSUME NEW c, Reading(c, pipe, output, cur, overflowed, lines, bytes, dropped), LastLine, output' = c
    PROVE  Keeps(LinesOf(output'), lines', bytes', dropped')
<1> DEFINE open == Split(c).open
           done == Split(c).done
<1>1. c \in Seq(Byte) /\ cur = Cut(open) /\ Keeps(CutAll(done), lines, bytes, dropped)
  BY DEF Reading
<1>2. output' = c
  OBVIOUS
<1>3. done \in Seq(Line) /\ open \in Line
  BY <1>1, SplitAppend DEF Parts
<1>4. cur \in Line /\ Len(cur) <= MaxLineBytes /\ (cur = <<>> <=> open = <<>>)
  BY <1>1, <1>3, CutFacts
<1>5. LinesOf(c) = CutAll(IF open = <<>> THEN done ELSE Append(done, open))
  BY DEF LinesOf, CutAll
<1>6. CASE cur = <<>>
  <2>1. UNCHANGED <<lines, bytes, dropped>>
    BY <1>6 DEF LastLine
  <2>2. LinesOf(c) = CutAll(done)
    BY <1>4, <1>5, <1>6
  <2> QED BY <1>1, <1>2, <2>1, <2>2
<1>7. CASE cur # <<>>
  <2>1. PushLine(cur)
    BY <1>7 DEF LastLine
  <2>2. LinesOf(c) = Append(CutAll(done), cur)
    BY <1>1, <1>3, <1>4, <1>5, <1>7, CutAllFacts
  <2>3. Keeps(Append(CutAll(done), cur), lines', bytes', dropped')
    BY <1>1, <1>4, <2>1, PushKeeps
  <2> QED BY <1>2, <2>2, <2>3
<1> QED BY <1>6, <1>7

\* A step that touches none of it keeps the invariant.
LEMMA CapSame ==
    ASSUME CapInv, UNCHANGED <<captureVars, reader>>, eb' = "idle" => eb = "idle"
    PROVE  CapInv'
BY DEF CapInv, CaptureLongest, captureVars

\* Every step of the main thread in early boot, of the script and of the
\* reader keeps the invariant.
LEMMA CapEarly ==
    ASSUME CapInv, EarlyMain \/ Script \/ Reader
    PROVE  CapInv'
<1>1. CASE SpawnScript
  <2>1. eb' # "idle" /\ reader = "none" /\ reader' \in {"reading", "none"} /\ UNCHANGED captureVars
    BY <1>1 DEF SpawnScript, CapInv
  <2>2. /\ pipe' = <<>> /\ output' = <<>> /\ cur' = <<>> /\ overflowed' = FALSE
        /\ lines' = <<>> /\ bytes' = 0 /\ dropped' = 0
    BY <2>1 DEF CapInv, captureVars
  <2>3. Reading(<<>>, pipe', output', cur', overflowed', lines', bytes', dropped')
    BY <2>2, ReadingStarts
  <2> QED BY <2>1, <2>2, <2>3 DEF CapInv, CaptureLongest
<1>2. CASE SpawnFails \/ FeedScript \/ FeedFails \/ KillScript \/ WaitScript \/ ScriptExit \/ HolderExit
  <2>1. UNCHANGED <<captureVars, reader>> /\ (eb' = "idle" => eb = "idle")
    BY <1>2 DEF SpawnFails, FeedScript, FeedFails, KillScript, WaitScript, ScriptExit, HolderExit
  <2> QED BY <2>1, CapSame
<1>3. CASE Join
  BY <1>3 DEF Join, CapInv, CaptureLongest
<1>4. ASSUME NEW b \in Byte, Emit(b) PROVE CapInv'
  <2>1. /\ reader = "reading" /\ UNCHANGED <<eb, reader, cur, overflowed, lines, bytes, dropped>>
        /\ pipe' = Append(pipe, b) /\ output' = Append(output, b)
    BY <1>4 DEF Emit
  <2>2. PICK c : Reading(c, pipe, output, cur, overflowed, lines, bytes, dropped)
    BY <2>1 DEF CapInv
  <2>3. Reading(c, pipe', output', cur', overflowed', lines', bytes', dropped')
    BY <2>1, <2>2, ReadingEmit
  <2> QED BY <2>1, <2>3 DEF CapInv, CaptureLongest
<1>5. CASE ReadByte
  <2>1. reader = "reading" /\ reader' = "reading" /\ eb' = eb
    BY <1>5 DEF ReadByte
  <2>2. PICK c : Reading(c, pipe, output, cur, overflowed, lines, bytes, dropped)
    BY <2>1 DEF CapInv
  <2>3. Reading(Append(c, Head(pipe)), pipe', output', cur', overflowed', lines', bytes', dropped')
    BY <1>5, <2>2, ReadingStep
  <2> QED BY <2>1, <2>3 DEF CapInv, CaptureLongest
<1>6. CASE ReadEnd \/ ReadFails
  <2>1. reader = "reading" /\ reader' = "done" /\ eb' = eb /\ LastLine
    BY <1>6 DEF ReadEnd, ReadFails, LastLine
  <2>2. PICK c : Reading(c, pipe, output, cur, overflowed, lines, bytes, dropped)
    BY <2>1 DEF CapInv
  <2>3. Keeps(LinesOf(output'), lines', bytes', dropped')
    BY <1>6, <2>1, <2>2, HistoryRead, ReadingEnds
  <2>4. CaptureLongest'
    <3>1. /\ LinesOf(output') \in Seq(Line) /\ lines' \in Seq(Line) /\ dropped' \in Nat
          /\ Len(LinesOf(output')) = dropped' + Len(lines')
          /\ lines' = SubSeq(LinesOf(output'), dropped' + 1, Len(LinesOf(output')))
          /\ WithinLimits(lines')
          /\ dropped' > 0 => ~WithinLimits(SubSeq(LinesOf(output'), dropped', Len(LinesOf(output'))))
      BY <2>3 DEF Keeps
    <3>2. Len(lines') + dropped' = Len(LinesOf(output'))
      <4>1. Len(lines') \in Nat /\ dropped' \in Nat
        <5>1. lines' \in Seq(Line) /\ dropped' \in Nat
          BY <3>1, Zenon
        <5> QED BY <5>1, LenProperties
      <4>2. Len(LinesOf(output')) = dropped' + Len(lines')
        BY <3>1
      <4>3. dropped' + Len(lines') = Len(lines') + dropped'
        BY <4>1
      <4> QED BY <4>2, <4>3
    <3> QED BY <3>1, <3>2, Zenon DEF CaptureLongest
  <2> QED BY <2>1, <2>4 DEF CapInv
<1> QED BY <1>1, <1>2, <1>3, <1>4, <1>5, <1>6 DEF EarlyMain, Script, Reader

\* When its reader is done, early boot has the longest end of the script's
\* output that the limits allow, whole lines and in order, and knows how many
\* it dropped (collect_lines, push_captured_line): for any limits that let a
\* line of replacement characters in, and for output of any length and content.
THEOREM CaptureLongestHolds == Spec => []CaptureLongest
<1>1. Init => CapInv
  BY DEF Init, EarlyInit, CapInv, CaptureLongest
<1>2. CapInv /\ [Next]_vars => CapInv'
  <2> SUFFICES ASSUME CapInv, [Next]_vars PROVE CapInv'
    OBVIOUS
  <2>1. CASE RunEarlyBoot \/ ScriptStep \/ ReaderStep
    <3>1. EarlyMain \/ Script \/ Reader
      BY <2>1 DEF RunEarlyBoot, ScriptStep, ReaderStep
    <3> QED BY <3>1, CapEarly
  <2>2. CASE InstallHandlers \/ SkipEarlyBoot \/ AfterEarlyBoot \/ LoadConfig \/ FlushLogs
    <3>1. UNCHANGED <<captureVars, reader, eb>>
      BY <2>2 DEF InstallHandlers, SkipEarlyBoot, AfterEarlyBoot, LoadConfig, FlushLogs, captured, earlyVars
    <3> QED BY <3>1, CapSame
  <2>3. CASE \/ Serve \/ Watch \/ Boot \/ EndBoot \/ Drain \/ TakeShutdown \/ LeaveServices
             \/ RunUnmount \/ UnmountDone \/ Finalize \/ UnmountExit \/ GettyRespawn
    <3>1. UNCHANGED <<captureVars, reader, eb>>
      BY <2>3 DEF Serve, Watch, Boot, EndBoot, Drain, TakeShutdown, LeaveServices, RunUnmount,
                  UnmountDone, Finalize, UnmountExit, GettyRespawn, captured, earlyVars
    <3> QED BY <3>1, CapSame
  <2>4. CASE \/ StoreShutdown \/ Edit \/ UNCHANGED vars
             \/ \E s \in DOMAIN Handler : Signal(s)
             \/ \E m \in Modes : AnswerShutdown(m)
    <3>1. UNCHANGED <<captureVars, reader, eb>>
      BY <2>4 DEF StoreShutdown, Edit, Signal, AnswerShutdown, vars, earlyVars
    <3> QED BY <3>1, CapSame
  <2> QED BY <2>1, <2>2, <2>3, <2>4 DEF Next, Main, Over
<1>3. CapInv => CaptureLongest
  BY DEF CapInv
<1> QED BY <1>1, <1>2, <1>3, PTL DEF Spec
===============================================================================
